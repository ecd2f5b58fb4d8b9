SPECIFICATION FairSpec
CONSTANTS
    c1 = c1
    c2 = c2
    f1 = f1
    None = None
    Clients = {c1, c2}
    Files = {f1}
    CacheBlocks = 2
    IpNames = {f1}
    MaxIpSize = 3
    Ops = {"write", "close", "destroy"}
    Sizes = {1, 2}
    Faults = {}
    MaxWrites = 3
    MaxFaults = 0
    MaxChanges = 0
INVARIANTS SavedAtDestroy
PROPERTIES CallsReturn
