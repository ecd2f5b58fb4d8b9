CONSTANTS
    MaxBlk = 30
    Warn <- MCWarn
    PWarn <- MCPWarn
    MaxGen = 5
    MaxData = 2
    MaxFaults = 1
    MaxPass = 5
    MaxFormats = 2
    MaxCalls = 200
    EraseAfterFault = FALSE
    mkltfs <- format_tape
    unltfs <- unformat_tape
    ltfs <- single_drive_main
    write <- ltfs_fsraw_write
    sync <- ltfs_sync_index
    unmount <- ltfs_unmount
    umount <- ltfs_fuse_umount
    check <- ltfsck_check
    rollback_to <- ltfsck_rollback
    list <- ltfsck_list
SPECIFICATION Spec
INVARIANT PositionTrue MountedContent DataIntact HistoryListed
CHECK_DEADLOCK FALSE
