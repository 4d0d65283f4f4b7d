SPECIFICATION FairSpec
CONSTANTS
    Caller = {k1, k2, k3}
    Server = server
    Task = {t1}
    MaxContexts = 3
INVARIANTS OneContext NothingLeaks SeesItsName
PROPERTIES SupervisedNotOrphaned CallsReturn
CHECK_DEADLOCK FALSE
