SPECIFICATION FairSpec
CONSTANTS
    Base = 4
    Width = 64
    MaxPacket = 7
    Packets <- Traffic
    Tls = {TRUE, FALSE}
    RecordSizes = {0, 1, 2, 5, 7, 8}
    OnePerRecord = TRUE
    CutInside = FALSE
    Notify = TRUE
    MaxSent = 2
INVARIANTS TypeOK
PROPERTIES ReadsTheStream  ArrivedIsHanded
\* The broker stops sending: no deadlock check.
CHECK_DEADLOCK FALSE
