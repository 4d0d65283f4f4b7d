SPECIFICATION ServerSpec
CONSTANTS
    Clients <- MCClients
    Things <- MCThings
    Asks <- MCAsks
    Followed <- MCFollowed
    OtherFields <- MCOtherFields
    Commands = {c1, c2, c3, c4}
    Nobody = nobody
SYMMETRY Symmetry
INVARIANT ShapeAgrees
INVARIANT NamedRefusalIsHarmless
INVARIANT NoServerIsLost
PROPERTY EditsOnlyWhatWasNamed
CHECK_DEADLOCK FALSE
