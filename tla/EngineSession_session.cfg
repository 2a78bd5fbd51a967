SPECIFICATION Spec
CONSTANTS
    Roles <- MCRoles
    NoStream = NoStream
    NoId = NoId
INVARIANTS
    PointersLive
    OnceOnly
PROPERTIES
    ErrorFixed
    ParkedRequestDecided
    ImplementsContract
CHECK_DEADLOCK FALSE
