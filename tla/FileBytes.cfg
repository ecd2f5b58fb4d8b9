SPECIFICATION Spec
CHECK_DEADLOCK FALSE
CONSTANTS
    BlockSizes = {2, 4}
    MaxSize = 5
    WriteSizes = {1, 3}
    MaxWrites = 3
    TruncateSizes = {0, 3}
    MaxTruncates = 1
    MaxIpSize = 4
    IpBlocks = 9
INVARIANTS ReadsExact FlushedIsOnTape DestroySaves ExtentsSound
