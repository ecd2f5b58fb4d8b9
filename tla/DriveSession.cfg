SPECIFICATION Spec
CONSTANTS
    ProgAt <- OneOf
    EarlyAt <- TwoOf
    EndAt <- ThreeOf
    LbpCapable = TRUE
    Setups <- SixSetups
    Values = {a}
    Injected = {"read"}
    NoWriteThreshold = 20
    Faults = {"reset", "cycle", "swap", "perm", "timeout", "late"}
    MaxFaults = 1
    MaxCmds = 30
    MaxCalls = 3
    backend_test_unit_ready <- ops_test_unit_ready
    backend_reserve_unit <- ops_reserve_unit
    backend_release_unit <- ops_release_unit
    backend_prevent <- ops_prevent
    backend_allow <- ops_allow
    backend_load <- ops_load
    backend_unload <- ops_unload
    backend_rewind <- ops_rewind
    backend_readpos <- ops_readpos
    backend_locate <- ops_locate
    backend_space <- ops_space
    backend_read <- ops_read
    backend_write <- ops_write
    backend_writefm <- ops_writefm
    backend_erase <- ops_erase
    backend_format <- ops_format
    backend_modesense <- ops_modesense
    backend_modeselect <- ops_modeselect
    backend_set_default <- ops_set_default
    backend_remaining_capacity <- ops_remaining_capacity
    backend_get_parameters <- ops_get_parameters
    backend_read_attribute <- ops_read_attribute
    backend_write_attribute <- ops_write_attribute
    backend_set_key <- ops_set_key
    backend_close <- ops_close
    backend_set_xattr <- ops_set_xattr
    backend_parse_opts <- ops_parse_opts
    backend_open <- ops_open
    backend_query <- ops_query
INVARIANTS FaultTold MediumAsTold PositionFilled WarnedInTime
CHECK_DEADLOCK FALSE
