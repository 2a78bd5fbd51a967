SPECIFICATION Spec
CONSTANTS
    Connect = cs
    Critical = ctl
    Locals = {l1}
    Peers = {p1, p2}
    PeerBidi = {p1}
    None = none
    Floor = 1
    Ideals = {2}
    Sizes = {1}
    MaxSends = 3
    MaxOpens = 2
    MaxRecv = 2
    MaxDgrams = 1
    MaxPauses = 1
    MaxFaults = 1
    MaxDepth = 5
    Uses <- MCUses
INVARIANTS FlushHonest SendsAccounted AdmissionServed StreamsSound
PROPERTIES BlockedSenderWakes FlushSettles MemoryReturns
