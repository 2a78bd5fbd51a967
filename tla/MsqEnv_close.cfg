SPECIFICATION FairSpec
CONSTANTS
    Clients = {c1}
    Accepts = {a1}
    Listeners = {l1}
    Owned = FALSE
CHECK_DEADLOCK FALSE
INVARIANTS
    OwnersOutliveUsers
    NoStrayConnection
    AdmittedToldOnce
    ErrorIsFirstCause
PROPERTY EnvCloseReturns
