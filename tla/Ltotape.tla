------------------------------ MODULE Ltotape ------------------------------
(***************************************************************************)
(* The driver for HP and other LTO drives (tape_drivers/*/ltotape), the one*)
(* the configuration builds.  Every command goes through ltotape_scsiexec, *)
(* whose failures are all the status -1: what failed is told from the sense*)
(* data kept in the device, which a command without sense leaves as it was.*)
(* DAT drives are left out.                                                *)
(***************************************************************************)
EXTENDS ScsiDrive

\* calloc() in ltotape_open.
LtotapeData(device) ==
    [kind |-> "ltotape", device |-> device, sense |-> "GOOD", eweom |-> "before", logdir |-> FALSE]

----------------------------------------------------------------------------
(* Commands *)

\* The result of command cmd.  Data written behind an early warning point
\* are written: the state of the warning goes from before to report.  A
\* cartridge that is not loaded counts as no cartridge.
ltotape_scsiexec(s, cmd) ==
    LET kept == IF s.sense \in {"GOOD", "NONE"} THEN s.drv.sense ELSE s.sense
        t == [s EXCEPT !.drv.sense = IF kept = "NOT_READY" THEN "NO_MEDIA" ELSE kept]
        warned == cmd \in {"WRITE", "WRITE FILEMARKS"} /\ s.sense \in {"EW", "PEW"}
    IN  IF warned
        THEN Return([t EXCEPT !.drv.eweom = IF @ = "before" THEN "report" ELSE @], "GOOD")
        ELSE Return(t, IF s.sense = "GOOD" THEN "GOOD" ELSE "MINUS_ONE")

Query(s, cmd) == ltotape_scsiexec(Ask(s, cmd), cmd)

WithRc(s, t) == [t EXCEPT !.rc = s.rc]

----------------------------------------------------------------------------
(* Log snapshots, taken when a command failed *)

ltotape_readbuffer(s) == Query(s, "READ BUFFER")

ltotape_snapshot_now(s) == Query(s, "MAINTENANCE OUT")

ltotape_snapshot_dump(s) == Query(s, "SEND DIAGNOSTIC")

\* The drive has the snapshot ready when it is asked for.
ltotape_read_snapshot(s) == Query(s, "MAINTENANCE IN")

\* The length, then the data.
ltotape_read_drivedump(s) == LET t == ltotape_readbuffer(s) IN Then(t, ltotape_readbuffer(t))

ltotape_read_mini_drivedump(s) == LET t == ltotape_readbuffer(s) IN Then(t, ltotape_readbuffer(t))

\* The caller drops the result.
ltotape_log_snapshot(s, minidump) ==
    LET new == ltotape_snapshot_dump(s)
        old == ltotape_snapshot_now(s)
    IN  WithRc(s, IF ~s.drv.logdir THEN s
                  ELSE IF s.drv.device # "LTO7" THEN Then(old, ltotape_read_snapshot(old))
                  ELSE IF minidump THEN Then(new, ltotape_read_mini_drivedump(new))
                  ELSE Then(new, ltotape_read_drivedump(new)))

Snapshot(s) == IF s.rc = "MINUS_ONE" THEN ltotape_log_snapshot(s, FALSE) ELSE s

----------------------------------------------------------------------------
(* Unit, reservation, medium removal *)

ltotape_test_unit_ready(s) ==
    LET t == ltotape_scsiexec(ScsiTestUnitReady(s), "TEST UNIT READY")
    IN  IF t.rc = "MINUS_ONE" /\ t.drv.sense = "NO_MEDIA" THEN Return(t, "NO_MEDIUM") ELSE t

ltotape_inquiry(s) == Query(s, "INQUIRY")

ltotape_inquiry_page(s) == Return(s, "GOOD")

ltotape_evpd_inquiry(s) == Query(s, "INQUIRY")

ltotape_reserve_unit(s) == ltotape_scsiexec(ScsiReserve(s), "RESERVE")

ltotape_release_unit(s) == ltotape_scsiexec(ScsiRelease(s), "RELEASE")

ltotape_prevent_allow_medium_removal(s, on) ==
    ltotape_scsiexec(ScsiPreventAllow(s, on), "PREVENT ALLOW")

ltotape_prevent_medium_removal(s) == ltotape_prevent_allow_medium_removal(s, TRUE)

ltotape_allow_medium_removal(s) ==
    ltotape_log_snapshot(ltotape_prevent_allow_medium_removal(s, FALSE), TRUE)

----------------------------------------------------------------------------
(* Position *)

\* The early warning flags of the caller stay as they are.
ltotape_readposition(s) ==
    LET t == ltotape_scsiexec(ScsiReadPosition(s), "READ POSITION")
    IN  IF t.rc = "GOOD" THEN Tell(t, t.pos.ew, t.pos.pew)
        ELSE IF t.drv.sense = "NO_MEDIA" THEN Return(t, "EAGAIN") ELSE Snapshot(t)

\* A read position whose own return code is dropped.
AndPosition(s) == WithRc(s, ltotape_readposition(s))

ltotape_rewind(s) == AndPosition(ltotape_scsiexec(ScsiRewind(s), "REWIND"))

\* The partition counts when it differs from the caller's.
ltotape_locate(s, p, b) ==
    LET to == IF s.pos.part = p THEN s.d.part ELSE p
        t == ltotape_scsiexec(ScsiLocate(s, to, b), "LOCATE")
        atEnd == t.rc = "MINUS_ONE" /\ b = BlockMax /\ t.drv.sense = "EOD"
    IN  AndPosition(IF atEnd THEN Return(t, "GOOD") ELSE Snapshot(t))

\* TC_SPACE_FM_F, TC_SPACE_FM_B and TC_SPACE_EOD.
ltotape_space(s, type) ==
    AndPosition(ltotape_scsiexec(CASE type = "FM_F" -> ScsiSpaceForward(s)
                                   [] type = "FM_B" -> ScsiSpaceBack(s)
                                   [] OTHER -> ScsiSpaceEod(s), "SPACE"))

----------------------------------------------------------------------------
(* Data *)

\* A read that failed is a file mark when the sense data say so.
_cdb_read(s) ==
    LET t == ltotape_scsiexec(ScsiRead(s), "READ")
    IN  IF t.rc # "MINUS_ONE" THEN t
        ELSE IF t.drv.sense = "FM" THEN Return([t EXCEPT !.got.what = FileMark], "GOOD")
        ELSE Return(t, "EIO")

ltotape_read(s) ==
    LET t == _cdb_read(s)
    IN  IF t.rc = "GOOD" THEN [t EXCEPT !.pos.blk = @ + 1] ELSE ltotape_log_snapshot(t, FALSE)

_cdb_write(s, v) == ltotape_scsiexec(ScsiWrite(s, v, FALSE), "WRITE")

\* The return code is errno, which a failed command leaves at EIO.
ltotape_write(s, v) ==
    LET t == _cdb_write(s, v)
        report == t.drv.eweom = "report"
    IN  IF t.rc # "GOOD" THEN ltotape_log_snapshot(Return(t, "EIO"), FALSE)
        ELSE [t EXCEPT !.pos.blk = @ + 1, !.pos.ew = @ \/ report,
                       !.drv.eweom = IF report THEN "after" ELSE @]

ltotape_writefm(s, count) ==
    AndPosition(ltotape_scsiexec(ScsiWriteFilemark(s, count), "WRITE FILEMARKS"))

ltotape_erase(s, long) == AndPosition(ltotape_scsiexec(ScsiErase(s), "ERASE"))

----------------------------------------------------------------------------
(* Pages and attributes *)

ltotape_logsense(s) == Query(s, "LOG SENSE")

ltotape_remaining_capacity(s) == ltotape_logsense(s)

ltotape_modesense(s) == Snapshot(Query(s, "MODE SENSE"))

\* A rounded mode parameter is an error for all but LTO-7.
ltotape_modeselect(s) == Snapshot(Query(s, "MODE SELECT"))

ltotape_read_attribute(s) == Query(s, "READ ATTRIBUTE")

ltotape_write_attribute(s) == Snapshot(Query(s, "WRITE ATTRIBUTE"))

\* Vendor, application, version, format version, bar code and volume name;
\* one that fails does not stop the others.
ltotape_set_MAMattributes(s) ==
    LET Write(x) == LET y == ltotape_write_attribute(x)
                    IN  IF y.rc = "GOOD" THEN WithRc(x, y) ELSE y
    IN  Write(Write(Write(Write(Write(Write(Return(s, "GOOD")))))))

ltotape_update_mam_attr(s) == ltotape_set_MAMattributes(s)

\* What became of the attributes does not matter.
ltotape_format(s) ==
    LET t == ltotape_scsiexec(ScsiFormat(s), "FORMAT MEDIUM")
    IN  IF t.rc = "MINUS_ONE" THEN Snapshot(t) ELSE WithRc(t, ltotape_set_MAMattributes(t))

ltotape_setcap(s) == Return(s, "GOOD")

ltotape_allow_overwrite(s) == Return(s, "GOOD")

ltotape_report_density(s) == Query(s, "REPORT DENSITY")

ltotape_set_compression(s) ==
    LET t == ltotape_modesense(s) IN Then(t, ltotape_modeselect(t))

ltotape_set_default(s) ==
    LET t == ltotape_modesense(s) IN Then(t, ltotape_modeselect(t))

\* The second mode sense, for the type of the cartridge, may fail.
ltotape_get_parameters(s) ==
    LET t == ltotape_modesense(s)
        u == IF s.drv.device = "LTO7" THEN ltotape_modesense(t) ELSE t
    IN  Then(t, Query(u, "READ BLOCK LIMITS"))

ltotape_get_cartridge_health(s) == Return(ltotape_logsense(s), "GOOD")

ltotape_get_tape_alert(s) == ltotape_logsense(s)

ltotape_clear_tape_alert(s) == Return(s, "GOOD")

\* EOD_UNKNOWN, the result of a failed log sense, is no error code.
ltotape_get_eod_status(s) == Return(ltotape_logsense(s), "GOOD")

ltotape_get_xattr(s) == Return(s, "NO_XATTR")

ltotape_set_xattr(s) == Return(s, "NO_XATTR")

ltotape_set_key(s) == Return(s, "GOOD")

ltotape_get_keyalias(s) == Return(s, "GOOD")

ltotape_takedump_drive(s) == Return(s, "GOOD")

ltotape_get_worm_status(s) == Return(s, "GOOD")

----------------------------------------------------------------------------
(* Load, unload, open, close *)

ltotape_loadunload(s, load) ==
    IF load THEN ltotape_scsiexec(ScsiLoad(s), "LOAD") ELSE ltotape_scsiexec(ScsiUnload(s), "UNLOAD")

\* The cartridge of this model is of a supported type.
ltotape_load(s) ==
    LET t == AndPosition(ltotape_loadunload(s, TRUE)) IN Then(t, ltotape_modesense(t))

ltotape_unload(s) == AndPosition(ltotape_loadunload(s, FALSE))

\* A unit attention in the sense data, which may be an old one, makes it ask
\* once more.
ltotape_open(s, device) ==
    LET t == ltotape_inquiry([s EXCEPT !.drv = LtotapeData(device)])
        u == ltotape_test_unit_ready(ltotape_evpd_inquiry(t))
        w == IF u.drv.sense \in {"POR", "CHANGED"} THEN ltotape_test_unit_ready(u) ELSE u
    IN  Then(t, ltotape_modesense(w))

\* After the device has been opened: options, the log directory with them.
ltotape_parse_opts(s) == Return([s EXCEPT !.drv.logdir = s.opt.dump], "GOOD")

\* The position and the result of the rewind are dropped.
ltotape_close(s) == Return([ltotape_rewind(s) EXCEPT !.pos = s.pos], "GOOD")
=============================================================================
