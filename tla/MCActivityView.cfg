SPECIFICATION ViewSpec
CONSTANTS
    Task = {t1, t2}
    First <- MCFirst
    Kinds = {"message", "note", "done"}
    Limit = 1
    MaxEvents = 2
    MaxSwitches = 3
    MaxRequests = 2
    MaxDrops = 1
    ReadsMayFail = TRUE
INVARIANTS NothingForeign SeqIsExact QuietPageKnows
SYMMETRY Symmetry
CHECK_DEADLOCK FALSE
