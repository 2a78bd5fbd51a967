SPECIFICATION FairSpec
CONSTANTS
    Shells = {cs, s1}
    Connect = cs
    NumRecs = 2
    MaxBytes = 2
    Sizes = {1, 3}
    MaxSends = 2
    MaxRecv = 2
    MaxOpens = 2
    MaxDgrams = 1
    MaxDepth = 4
    Uses = {{"send", "wide", "close"}, {"send", "bye"}, {"send", "stop"},
            {"send", "fail", "reset"}, {"send", "oom"},
            {"send", "meta", "reset"}, {"peer", "pause", "close"},
            {"peer", "pause", "drop"},
            {"peer", "pause", "fail", "meta", "reset"},
            {"close", "bye", "drop"}, {"dgram", "stop"}}
    RetryCanceled = FALSE
CHECK_DEADLOCK FALSE
INVARIANTS SendsAccounted NoDanglingShell
PROPERTIES PauseHonoured OrderlyEndFlushes  
