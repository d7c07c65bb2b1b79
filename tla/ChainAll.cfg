SPECIFICATION Spec
CONSTANTS
    Names <- AllNames
    Keys <- AllKeys
    Shown <- AllShown
    Stores <- AllStores
    MaxIntermediate = 2
INVARIANTS VerifiedHasChain ChainHasRoom PathLengthsHold GoodChainIsVerified
\* A verdict ends it: no deadlock check.
CHECK_DEADLOCK FALSE
