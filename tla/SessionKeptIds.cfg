SPECIFICATION Spec
CONSTANTS
    m0 = m0
    m1 = m1
    m2 = m2
    big = big
    NoMsg = NoMsg
    InMsgs = {}
    InQos <- AllQos
    Oversized = {}
    IdMod = 8
    BrokerIds = {1}
    CleanSession = FALSE
    WantIds = {TRUE}
    CallbackMayReconnect = FALSE
    MaxCalls = 2
    MaxSubs = 0
    MaxConnects = 2
    MaxPings = 0
    MaxResets = 0
    MaxDepth = 1
INVARIANTS ConfirmedIsStored
\* The bounds stop the system: no deadlock check.
CHECK_DEADLOCK FALSE
