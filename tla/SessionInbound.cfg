SPECIFICATION Spec
CONSTANTS
    m0 = m0
    m1 = m1
    m2 = m2
    big = big
    NoMsg = NoMsg
    InMsgs = {m0, m1, m2, big}
    InQos <- AllQos
    Oversized = {big}
    IdMod = 8
    BrokerIds = {1, 2}
    CleanSession = TRUE
    WantIds = {TRUE, FALSE}
    CallbackMayReconnect = FALSE
    MaxCalls = 0
    MaxSubs = 2
    MaxConnects = 2
    MaxPings = 0
    MaxResets = 1
    MaxDepth = 2
INVARIANTS ReleasedWasDelivered
PROPERTIES Promise
\* The bounds stop the system: no deadlock check.
CHECK_DEADLOCK FALSE
