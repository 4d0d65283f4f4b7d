SPECIFICATION Spec
SYMMETRY Clients
CONSTANTS
    Origin <- MCOrigin
    Name <- MCName
    KindOf <- MCKindOf
    Mutable = {"lib"}
    None = None
    Gone = Gone
    Client = {c1, c2}
    Version = {1, 2}
    Prereqs = {"", "login"}
    Contents <- MCContents
    Initially <- MCInitially
    MaxCalls = 2
    MaxPublishes = 2
INVARIANTS NothingDangles InstalledIsComplete OrphansAreLoose ReadyIsAcknowledged
CHECK_DEADLOCK FALSE
