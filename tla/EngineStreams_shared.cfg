SPECIFICATION Spec
CONSTANTS
    Slots = {s1, s2}
    DStreams = {d1, d2}
    Budgeted = FALSE
    ShutCaps = {}
    Directions = {TRUE, FALSE}
    MaxGen = 2
    MaxDepth = 4
    NoSlot = NoSlot
    NoDs = NoDs
CHECK_DEADLOCK FALSE
SYMMETRY Symmetry
CONSTRAINT OneSlotOrUni
INVARIANTS
    LinkIntegrity
    StreamsAgree
    NoStrandedStream
