SPECIFICATION FairSpec
CONSTANTS
    MaxNodes = 4
    CallerNodes = 3
    Agents = {a1}
    NoAgent = NoAgent
    StuckRetryMaxAttempts = 2
    MaxBatch = 2
    BatchEdges <- UpToTwoEdges
    MaxCrashes = 1
INVARIANTS RootedDag StartJustified NothingLeftPending RetryChain QuietExplained
PROPERTIES Sealed KeepsContract EligibleIsDispatched
CHECK_DEADLOCK FALSE
