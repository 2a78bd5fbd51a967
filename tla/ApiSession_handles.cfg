SPECIFICATION Spec
CONSTANTS
    Slots = {1, 2}
    PeerSlots = {1}
    SharedSlots = {1}
    Modes = {TRUE, FALSE}
    LocalDirs = {FALSE}
    PeerDirs = {TRUE}
    MaxStreams = 2
    MaxRefs = 1
    MaxDepth = 7
    RefMod = 16
    None = None
CHECK_DEADLOCK FALSE
INVARIANTS
    FreedWhenUnowned
    BacklinksAgree
    MirrorsEngine
    EventsInOrder
    HandlesStay
