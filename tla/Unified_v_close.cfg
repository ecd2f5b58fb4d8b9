SPECIFICATION Spec
SYMMETRY ClientSymmetry
CONSTANTS
    c1 = c1
    f1 = f1
    None = None
    Clients = {c1}
    Files = {f1}
    CacheBlocks = 2
    IpNames = {}
    MaxIpSize = 0
    Ops = {"write", "close"}
    Sizes = {2}
    Faults = {"transient"}
    MaxWrites = 1
    MaxFaults = 1
    MaxChanges = 0
INVARIANTS NoSilentLoss
