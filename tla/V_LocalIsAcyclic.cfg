SPECIFICATION Spec
CONSTANTS
    Origin <- MCOrigin
    Name <- MCName
    KindOf <- MCKindOf
    Mutable = {}
    None = None
    Gone = Gone
    Client = {c1}
    Version = {1, 2}
    Prereqs = {"", "login"}
    Contents <- MCContents
    Initially <- MCInitially
    MaxCalls = 3
    MaxPublishes = 2
INVARIANT LocalIsAcyclic
CHECK_DEADLOCK FALSE
