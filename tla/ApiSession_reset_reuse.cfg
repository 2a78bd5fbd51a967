SPECIFICATION Spec
CONSTANTS
    Slots = {1, 2}
    PeerSlots = {}
    SharedSlots = {1, 2}
    Modes = {FALSE}
    LocalDirs = {FALSE}
    PeerDirs = {TRUE}
    MaxStreams = 2
    MaxRefs = 1
    MaxDepth = 8
    RefMod = 16
    None = None
CHECK_DEADLOCK FALSE
INVARIANT BacklinksAgreeShared
