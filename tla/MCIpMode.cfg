CONSTANTS
    None = None
    Interfaces <- MCInterfaces
    Disturbances = {}
    MaxEvents = 2
SPECIFICATION Spec
INVARIANTS
    TypeOK
    NothingLeft
    FollowsModes
