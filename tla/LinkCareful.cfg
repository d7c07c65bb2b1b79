SPECIFICATION Spec
CONSTANTS
    Reenables = TRUE
    ChecksResult = TRUE
    Disconnects = TRUE
    EnableVerify = TRUE
    MaxConn = 8
INVARIANTS TypeOK NeverInTheClear SessionIsOfThisConnection HandshakeHasContext 
\* The bound on connections stops everything: no deadlock check.
CHECK_DEADLOCK FALSE
