SPECIFICATION FairSpec
CONSTANTS
    PutOff <- Inner
    MayGiveUp = TRUE
    MaxWarnings = 1
INVARIANTS TypeOK HandshakeAgrees FlightsAreExpected VerifiedBroker
PROPERTIES HandshakeEnds
\* The handshake comes to its end: no deadlock check.
CHECK_DEADLOCK FALSE
