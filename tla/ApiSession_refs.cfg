SPECIFICATION Spec
CONSTANTS
    Slots = {1, 2}
    PeerSlots = {1}
    SharedSlots = {1, 2}
    Modes = {TRUE}
    LocalDirs = {FALSE}
    PeerDirs = {TRUE}
    MaxStreams = 2
    MaxRefs = 2
    MaxDepth = 8
    RefMod = 16
    None = None
CHECK_DEADLOCK FALSE
INVARIANT RefsCoverAppRefs
