SPECIFICATION Spec
CONSTANTS
    Slots = {s1}
    DStreams = {d1, d2}
    Budgeted = TRUE
    ShutCaps = {"send", "recv"}
    Directions = {TRUE, FALSE}
    MaxGen = 2
    MaxDepth = 3
    NoSlot = NoSlot
    NoDs = NoDs
CHECK_DEADLOCK FALSE
INVARIANTS
    TypeOK
    BudgetHonoured
PROPERTY
    EndedStreamFreed
