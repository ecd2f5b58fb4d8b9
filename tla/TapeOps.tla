------------------------------ MODULE TapeOps ------------------------------
(***************************************************************************)
(* The three drivers behind struct tape_ops (libltfs/tape_ops.h): each     *)
(* operation is that of the driver the plugin loader has chosen.           *)
(***************************************************************************)
EXTENDS ScsiDrive

CONSTANT
    NoWriteThreshold   \* THREASHOLD_FORCE_WRITE_NO_WRITE

Ibm == INSTANCE Ibmtape
Iok == INSTANCE Iokit
Lto == INSTANCE Ltotape

----------------------------------------------------------------------------
(* The handler tables: ltotape_drive_handler and those of the other two *)

Of(kind, ibm, iok, lto) == CASE kind = "ibmtape" -> ibm [] kind = "iokit" -> iok [] OTHER -> lto

ops_test_unit_ready(t) ==
    LET kind == t.drv.kind
    IN  Of(kind, Ibm!ibmtape_test_unit_ready(t),
           Iok!iokitosx_test_unit_ready(t), Lto!ltotape_test_unit_ready(t))

ops_reserve_unit(t) ==
    LET kind == t.drv.kind
    IN  Of(kind, Ibm!ibmtape_reserve_unit(t),
           Iok!iokitosx_reserve_unit(t), Lto!ltotape_reserve_unit(t))

ops_release_unit(t) ==
    LET kind == t.drv.kind
    IN  Of(kind, Ibm!ibmtape_release_unit(t),
           Iok!iokitosx_release_unit(t), Lto!ltotape_release_unit(t))

ops_prevent(t) ==
    LET kind == t.drv.kind
    IN  Of(kind, Ibm!ibmtape_prevent_medium_removal(t),
           Iok!iokitosx_prevent_medium_removal(t), Lto!ltotape_prevent_medium_removal(t))

ops_allow(t) ==
    LET kind == t.drv.kind
    IN  Of(kind, Ibm!ibmtape_allow_medium_removal(t),
           Iok!iokitosx_allow_medium_removal(t), Lto!ltotape_allow_medium_removal(t))

ops_load(t) ==
    LET kind == t.drv.kind
    IN  Of(kind, Ibm!ibmtape_load(t), Iok!iokitosx_load(t), Lto!ltotape_load(t))

ops_unload(t) ==
    LET kind == t.drv.kind
    IN  Of(kind, Ibm!ibmtape_unload(t), Iok!iokitosx_unload(t), Lto!ltotape_unload(t))

ops_rewind(t) ==
    LET kind == t.drv.kind
    IN  Of(kind, Ibm!ibmtape_rewind(t), Iok!iokitosx_rewind(t), Lto!ltotape_rewind(t))

ops_readpos(t) ==
    LET kind == t.drv.kind
    IN  Of(kind, Ibm!ibmtape_readpos(t), Iok!iokitosx_readpos(t), Lto!ltotape_readposition(t))

ops_locate(t, p, b) ==
    LET kind == t.drv.kind
    IN  Of(kind, Ibm!ibmtape_locate(t, p, b),
           Iok!iokitosx_locate(t, p, b), Lto!ltotape_locate(t, p, b))

ops_space(t, type) ==
    LET kind == t.drv.kind
    IN  Of(kind, Ibm!ibmtape_space(t, type),
           Iok!iokitosx_space(t, type), Lto!ltotape_space(t, type))

ops_read(t) ==
    LET kind == t.drv.kind
    IN  Of(kind, Ibm!ibmtape_read(t), Iok!iokitosx_read(t), Lto!ltotape_read(t))

ops_write(t, v) ==
    LET kind == t.drv.kind
    IN  Of(kind, Ibm!ibmtape_write(t, v), Iok!iokitosx_write(t, v), Lto!ltotape_write(t, v))

ops_writefm(t, n) ==
    LET kind == t.drv.kind
    IN  Of(kind, Ibm!ibmtape_writefm(t, n), Iok!iokitosx_writefm(t, n), Lto!ltotape_writefm(t, n))

ops_erase(t, long) ==
    LET kind == t.drv.kind
    IN  Of(kind, Ibm!ibmtape_erase(t, long),
           Iok!iokitosx_erase(t, long), Lto!ltotape_erase(t, long))

ops_format(t) ==
    LET kind == t.drv.kind
    IN  Of(kind, Ibm!ibmtape_format(t), Iok!iokitosx_format(t), Lto!ltotape_format(t))

ops_modesense(t) ==
    LET kind == t.drv.kind
    IN  Of(kind, Ibm!ibmtape_modesense(t), Iok!iokitosx_modesense(t), Lto!ltotape_modesense(t))

ops_modeselect(t) ==
    LET kind == t.drv.kind
    IN  Of(kind, Ibm!ibmtape_modeselect(t), Iok!iokitosx_modeselect(t), Lto!ltotape_modeselect(t))

ops_set_default(t) ==
    LET kind == t.drv.kind
    IN  Of(kind, Ibm!ibmtape_set_default(t),
           Iok!iokitosx_set_default(t), Lto!ltotape_set_default(t))

ops_remaining_capacity(t) ==
    LET kind == t.drv.kind
    IN  Of(kind, Ibm!ibmtape_remaining_capacity(t),
           Iok!iokitosx_remaining_capacity(t), Lto!ltotape_remaining_capacity(t))

ops_get_parameters(t) ==
    LET kind == t.drv.kind
    IN  Of(kind, Ibm!ibmtape_get_parameters(t),
           Iok!iokitosx_get_parameters(t), Lto!ltotape_get_parameters(t))

ops_read_attribute(t) ==
    LET kind == t.drv.kind
    IN  Of(kind, Ibm!ibmtape_read_attribute(t),
           Iok!iokitosx_read_attribute(t), Lto!ltotape_read_attribute(t))

ops_write_attribute(t) ==
    LET kind == t.drv.kind
    IN  Of(kind, Ibm!ibmtape_write_attribute(t),
           Iok!iokitosx_write_attribute(t), Lto!ltotape_write_attribute(t))

ops_set_key(t, key) ==
    LET kind == t.drv.kind
    IN  Of(kind, Ibm!ibmtape_set_key(t, key), Iok!iokitosx_set_key(t, key), Lto!ltotape_set_key(t))

ops_close(t) ==
    LET kind == t.drv.kind
    IN  Of(kind, Ibm!ibmtape_close(t), Iok!iokitosx_close(t), Lto!ltotape_close(t))

\* Only ibmtape has attributes that can be set.
ops_set_xattr(t, name) ==
    LET kind == t.drv.kind
    IN  Of(kind, Ibm!ibmtape_set_xattr(t, name, 1),
           Iok!iokitosx_set_xattr(t), Lto!ltotape_set_xattr(t))

\* Only ltotape has options that take a command.
ops_parse_opts(t) ==
    LET kind == t.drv.kind IN IF kind = "ltotape" THEN Lto!ltotape_parse_opts(t) ELSE t

ops_open(t, setup) ==
    LET u == [t EXCEPT !.opt = setup.opt]
    IN  CASE setup.kind = "ibmtape" -> Ibm!ibmtape_open(u, setup.device)
          [] setup.kind = "iokit" -> Iok!iokitosx_open(u, setup.device)
          [] OTHER -> Lto!ltotape_open(u, setup.device)

\* Operations that only ask; ltotape alone has update_mam_attr.
ops_query(t, q) ==
    LET kind == t.drv.kind
    IN  CASE q = "inquiry" -> Of(kind, Ibm!ibmtape_inquiry(t), Iok!iokitosx_inquiry(t), Lto!ltotape_inquiry(t))
          [] q = "inquiry_page" ->
               Of(kind, Ibm!ibmtape_inquiry_page(t),
                  Iok!iokitosx_inquiry_page(t), Lto!ltotape_inquiry_page(t))
          [] q = "report_density" ->
               Of(kind, Ibm!ibmtape_report_density(t),
                  Iok!iokitosx_report_density(t), Lto!ltotape_report_density(t))
          [] q = "logsense" ->
               Of(kind, Ibm!ibmtape_logsense(t), Iok!iokitosx_logsense(t), Lto!ltotape_logsense(t))
          [] q = "set_compression" ->
               Of(kind, Ibm!ibmtape_set_compression(t),
                  Iok!iokitosx_set_compression(t), Lto!ltotape_set_compression(t))
          [] q = "setcap" -> Of(kind, Ibm!ibmtape_setcap(t), Iok!iokitosx_setcap(t), Lto!ltotape_setcap(t))
          [] q = "get_cartridge_health" ->
               Of(kind, Ibm!ibmtape_get_cartridge_health(t),
                  Iok!iokitosx_get_cartridge_health(t), Lto!ltotape_get_cartridge_health(t))
          [] q = "get_tape_alert" ->
               Of(kind, Ibm!ibmtape_get_tape_alert(t),
                  Iok!iokitosx_get_tape_alert(t), Lto!ltotape_get_tape_alert(t))
          [] q = "clear_tape_alert" ->
               Of(kind, Ibm!ibmtape_clear_tape_alert(t),
                  Iok!iokitosx_clear_tape_alert(t), Lto!ltotape_clear_tape_alert(t))
          [] q = "get_eod_status" ->
               Of(kind, Ibm!ibmtape_get_eod_status(t),
                  Iok!iokitosx_get_eod_status(t), Lto!ltotape_get_eod_status(t))
          [] q = "allow_overwrite" ->
               Of(kind, Ibm!ibmtape_allow_overwrite(t),
                  Iok!iokitosx_allow_overwrite(t), Lto!ltotape_allow_overwrite(t))
          [] q = "get_keyalias" ->
               Of(kind, Ibm!ibmtape_get_keyalias(t),
                  Iok!iokitosx_get_keyalias(t), Lto!ltotape_get_keyalias(t))
          [] q = "get_xattr" ->
               Of(kind, Ibm!ibmtape_get_xattr(t),
                  Iok!iokitosx_get_xattr(t), Lto!ltotape_get_xattr(t))
          [] q = "get_worm_status" ->
               Of(kind, Ibm!ibmtape_get_worm_status(t),
                  Iok!iokitosx_get_worm_status(t), Lto!ltotape_get_worm_status(t))
          [] q = "takedump_drive" ->
               Of(kind, Ibm!ibmtape_takedump_drive(t),
                  Iok!iokitosx_takedump_drive(t), Lto!ltotape_takedump_drive(t))
          [] OTHER -> Of(kind, t, t, Lto!ltotape_update_mam_attr(t))
=============================================================================
