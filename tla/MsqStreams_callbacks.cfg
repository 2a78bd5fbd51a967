SPECIFICATION Spec
CONSTANTS
    Connect = cs
    Critical = ctl
    Locals = {}
    Peers = {p1}
    PeerBidi = {p1}
    None = none
    Floor = 1
    Ideals = {2}
    Sizes = {1}
    MaxSends = 1
    MaxOpens = 2
    MaxRecv = 1
    MaxDgrams = 1
    MaxPauses = 1
    MaxFaults = 1
    MaxDepth = 5
    Uses <- CallbackUses
PROPERTY CallbacksKeepPromises
