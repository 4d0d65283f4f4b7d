SPECIFICATION Spec
CONSTANTS
    MaxTime = 3
    Trigger <- Triggers
    MaxDelay = 3
    Runner = {r1}
    MaxUnits = 3
    MaxPatches = 1
    MaxCrashes = 0
INVARIANT OneAtATimeAlways
CHECK_DEADLOCK FALSE
