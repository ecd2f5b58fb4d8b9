SPECIFICATION Spec
SYMMETRY ClientSymmetry
CONSTANTS
    c1 = c1
    c2 = c2
    f1 = f1
    None = None
    Clients = {c1, c2}
    Files = {f1}
    CacheBlocks = 2
    IpNames = {f1}
    MaxIpSize = 4
    Ops = {"write", "read", "flush", "rename", "unlink", "flush_all"}
    Sizes = {1, 2}
    Faults = {"less_space", "fatal", "transient"}
    MaxWrites = 3
    MaxFaults = 1
    MaxChanges = 1
INVARIANTS CountersExact NoSilentLoss FlushAllComplete
