SPECIFICATION FairSpec
CONSTANTS
    Task = {t1, t2}
    OfSchedule = {t2}
    Canceller = {c1, c2}
    Stopper = {s1}
    Exits = {"zero", "nonzero", "signal"}
    SaveFaults = {"session", "terminal"}
    ClientMayDrop = TRUE
    MaxReboots = 1
INVARIANT LiveCountSeesWork NothingEscapesShutdown OutcomeHasCause
PROPERTY KeepsLedger CallsReturn
CHECK_DEADLOCK FALSE
