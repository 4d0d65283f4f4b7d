SPECIFICATION Spec
CONSTANTS
    Clients <- MCClients
    Things <- MCThings
    Asks <- MCAsks
    Followed <- MCFollowed
    OtherFields <- MCOtherFields
PROPERTY OtherHalfIsPreserved
CHECK_DEADLOCK FALSE
