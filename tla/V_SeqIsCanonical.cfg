SPECIFICATION ViewSpec
CONSTANTS
    Task = {t1}
    First <- MCEmpty
    Kinds = {"message", "note"}
    Limit = 2
    MaxEvents = 2
    MaxSwitches = 1
    MaxRequests = 1
    MaxDrops = 0
    ReadsMayFail = FALSE
INVARIANT SeqIsCanonical
CHECK_DEADLOCK FALSE
