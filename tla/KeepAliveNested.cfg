SPECIFICATION FairSpec
CONSTANTS
    KA = 7
    ClockMod = 14
    MaxGap = 2
    MaxHold = 2
    MaxAnswer = 1
    MaxBacklog = 1
    MaxDepth = 2
INVARIANTS TypeOK  SilenceIsNoticed
PROPERTIES LiveBrokerIsKept DeadBrokerIsLeft
