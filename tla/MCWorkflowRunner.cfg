SPECIFICATION FairSpec
CONSTANTS
    Worker = {w1}
    Coord = {o1}
    MaxPollErrors = 2
    MaxPolls = 1
    MaxRestarts = 1
INVARIANTS ReportedOnce NodeIsWatched WorkIsExplained
PROPERTIES KeepsContract NodesComeToAnEnd
CHECK_DEADLOCK FALSE
