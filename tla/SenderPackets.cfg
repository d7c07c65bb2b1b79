SPECIFICATION FairSpec
CONSTANTS
    Sizes = {2, 3}
    Setups <- GoodSetups
    MaxRecord = 3
    MaxPackets = 4
INVARIANTS TypeOK ReportedIsSent
PROPERTIES BrokerGetsTheStream PublishedArrives
\* The application stops writing: no deadlock check.
CHECK_DEADLOCK FALSE
