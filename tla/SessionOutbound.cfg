SPECIFICATION Spec
CONSTANTS
    m0 = m0
    m1 = m1
    m2 = m2
    big = big
    NoMsg = NoMsg
    InMsgs = {}
    InQos <- AllQos
    Oversized = {}
    IdMod = 8
    BrokerIds = {1}
    CleanSession = TRUE
    WantIds = {TRUE, FALSE}
    CallbackMayReconnect = FALSE
    MaxCalls = 2
    MaxSubs = 1
    MaxConnects = 2
    MaxPings = 1
    MaxResets = 1
    MaxDepth = 1
INVARIANTS ConfirmedIsStored FreshIds
 
\* The bounds stop the system: no deadlock check.
CHECK_DEADLOCK FALSE
