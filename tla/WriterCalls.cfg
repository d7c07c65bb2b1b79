SPECIFICATION WriterSpec
CONSTANTS
    Base = 4
    MaxPacket = 32
    Beyond = 27
    Connects <- SomeConnects
    Publishes <- SomePublishes
    Filters = {0, 8, 22}
    Ids = {1, 62, 63}
    MaxCalls = 2
INVARIANTS WriterTypeOK PublishIsRead ConnectIsRead FilterIsRead WithinMaximum
\* Calls are counted: no deadlock check.
CHECK_DEADLOCK FALSE
