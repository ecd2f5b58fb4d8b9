SPECIFICATION Spec
SYMMETRY ClientSymmetry
CONSTANTS
    c1 = c1
    c2 = c2
    f1 = f1
    None = None
    Clients = {c1, c2}
    Files = {f1}
    CacheBlocks = 2
    IpNames = {}
    MaxIpSize = 0
    Ops = {"open", "write", "read", "flush", "truncate", "close"}
    Sizes = {1, 2}
    Faults = {}
    MaxWrites = 3
    MaxFaults = 0
    MaxChanges = 1
INVARIANTS ReadSeesWrites NoResurrection
