SPECIFICATION FairSpec
CONSTANTS
    m0 = m0
    m1 = m1
    m2 = m2
    big = big
    NoMsg = NoMsg
    InMsgs = {m1, m2}
    InQos <- AllQos
    Oversized = {}
    IdMod = 4
    BrokerIds = {1, 2}
    CleanSession = FALSE
    WantIds = {TRUE}
    CallbackMayReconnect = FALSE
    MaxCalls = 1
    MaxSubs = 1
    MaxConnects = 2
    MaxPings = 0
    MaxResets = 1
    MaxDepth = 2
INVARIANTS ReleasedWasDelivered
PROPERTIES PublishIsReported MessageIsSettled
\* The bounds stop the system: no deadlock check.
CHECK_DEADLOCK FALSE
