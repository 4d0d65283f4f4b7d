SPECIFICATION WorkspaceSpec
CONSTANTS
    MaxTime = 3
    Trigger <- Triggers
    MaxDelay = 3
    Runner = {r1}
    MaxUnits = 3
    MaxPatches = 2
    MaxCrashes = 1
    s1 = s1
    s2 = s2
    w1 = w1
    w2 = w2
    Sessions = {s1, s2}
    Workspaces = {w1, w2}
    home <- MCHome
    Calls = {c1, c2, c3}
    Nothing = Nothing
SYMMETRY Symmetry
INVARIANTS OneAtATime SlotOnce SlotIsWatched NextIsNextRun NothingIsLost
PROPERTIES FiresOnTime
CHECK_DEADLOCK FALSE
