SPECIFICATION Spec
CONSTANTS
    Base = 4
    Width = 64
    MaxPacket = 7
    Packets <- Short
    Tls = {FALSE}
    RecordSizes = {}
    OnePerRecord = FALSE
    CutInside = TRUE
    Notify = FALSE
    MaxSent = 2
PROPERTIES ReadsTheStream
\* The broker stops sending: no deadlock check.
CHECK_DEADLOCK FALSE
