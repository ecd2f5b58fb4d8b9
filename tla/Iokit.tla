------------------------------- MODULE Iokit -------------------------------
(***************************************************************************)
(* The OS X driver for IBM drives (tape_drivers/osx/iokit).  Every command *)
(* goes through one SCSI task; its status and sense give the return code.  *)
(* The position a driver of this family keeps for itself (eom,             *)
(* position_valid, current_partition) is not read by any operation and is  *)
(* left out.                                                               *)
(***************************************************************************)
EXTENDS ScsiDrive

IokitData(device) ==
    [kind |-> "iokit", device |-> device, exclusive |-> FALSE, sili |-> FALSE, alert |-> FALSE,
     crc |-> FALSE, key |-> FALSE, fetched |-> FALSE]

----------------------------------------------------------------------------
(* Commands and return codes *)

\* For the sense a drive of this model gives.
standard_table ==
    [POR |-> "POR_OR_BUS_RESET", CHANGED |-> "MEDIUM_MAY_BE_CHANGED", FM |-> "FILEMARK_DETECTED",
     EOD |-> "EOD_DETECTED", BOP |-> "BOP_DETECTED", EW |-> "EARLY_WARNING",
     PEW |-> "PROG_EARLY_WARNING", FULL |-> "OVERFLOW", PERM |-> "RW_PERM",
     NOT_READY |-> "NEED_INITIALIZE", ILLEGAL |-> "ILLEGAL_REQUEST", GUARD |-> "LBP_WRITE_ERROR",
     PREVENTED |-> "MEDIUM_LOCKED", LOADFAIL |-> "LOAD_UNLOAD_ERROR"]

_sense2errorcode(sense) == standard_table[sense]

iokit_sense2errno(s) == _sense2errorcode(s.sense)

\* Status good, status check condition with its sense, or no status.
iokit_issue_cdb_command(s) ==
    Return(s, CASE s.sense = "GOOD" -> "GOOD"
                [] s.sense = "NONE" -> "DRIVER_ERROR"
                [] OTHER -> iokit_sense2errno(s))

iokit_passthrough(s) == iokit_issue_cdb_command(s)

----------------------------------------------------------------------------
(* Dumps *)

WithRc(s, t) == [t EXCEPT !.rc = s.rc]

_cdb_read_buffer(s) == iokit_passthrough(Ask(s, "READ BUFFER"))

iokitosx_readbuffer(s) == _cdb_read_buffer(s)

\* Without the length that the first READ BUFFER gives there is nothing to
\* transfer.
iokitosx_getdump_drive(s) ==
    LET t == iokitosx_readbuffer(s) IN IF t.rc = "GOOD" THEN iokitosx_readbuffer(t) ELSE t

_cdb_forcedump(s) == iokit_passthrough(Ask(s, "SEND DIAGNOSTIC"))

iokitosx_forcedump_drive(s) == _cdb_forcedump(s)

iokitosx_takedump_drive(s) ==
    Return(iokitosx_getdump_drive(iokitosx_forcedump_drive(iokitosx_getdump_drive(s))), "GOOD")

is_dump_required_error(rc) ==
    rc \in {standard_table[x] : x \in DOMAIN standard_table \ {"FM", "EW", "BOP", "PEW"}}

iokitosx_process_errors(s, dump) ==
    IF dump /\ s.opt.dump /\ is_dump_required_error(s.rc)
    THEN WithRc(s, iokitosx_takedump_drive(s)) ELSE s

Checked(s) == IF s.rc = "GOOD" THEN s ELSE iokitosx_process_errors(s, TRUE)

Issue(s) == Checked(iokit_issue_cdb_command(s))

Pass(s) == Checked(iokit_passthrough(s))

----------------------------------------------------------------------------
(* Unit, reservation, medium removal *)

iokit_inquiry(s) == Issue(ScsiInquiry(s))

iokitosx_inquiry(s) == iokit_inquiry(s)

iokitosx_inquiry_page(s) == iokit_inquiry(s)

iokit_request_sense(s) == Issue(Ask(s, "REQUEST SENSE"))

iokit_test_unit_ready(s) ==
    LET t == iokit_issue_cdb_command(ScsiTestUnitReady(s))
    IN  IF t.rc = "GOOD" THEN t
        ELSE iokitosx_process_errors(t, t.rc \notin {"NEED_INITIALIZE", "MEDIUM_MAY_BE_CHANGED"})

iokitosx_test_unit_ready(s) == iokit_test_unit_ready(s)

iokit_reserve_unit(s) == Issue(ScsiReserve(s))

iokitosx_reserve_unit(s) == iokit_reserve_unit(s)

iokit_release_unit(s) ==
    LET t == iokit_issue_cdb_command(ScsiRelease(s))
    IN  IF t.rc = "GOOD" THEN t ELSE iokitosx_process_errors(t, t.rc # "POR_OR_BUS_RESET")

iokitosx_release_unit(s) == iokit_release_unit(s)

iokit_prevent_medium_removal(s, on) == Issue(ScsiPreventAllow(s, on))

iokitosx_prevent_medium_removal(s) == iokit_prevent_medium_removal(s, TRUE)

iokitosx_allow_medium_removal(s) == iokit_prevent_medium_removal(s, FALSE)

----------------------------------------------------------------------------
(* Position *)

_cdb_readpos(s) == Pass(ScsiReadPosition(s))

\* The early warning flags of the caller stay as they are.
iokitosx_readpos(s) ==
    LET t == _cdb_readpos(s) IN Then(t, Tell(t, t.pos.ew, t.pos.pew))

\* A read position whose own return code is dropped.
AndPosition(s) == WithRc(s, iokitosx_readpos(s))

_cdb_locate(s, p, b) ==
    LET t == iokit_passthrough(ScsiLocate(s, p, b))
    IN  AndPosition(IF t.rc = "EOD_DETECTED" /\ b = BlockMax THEN Return(t, "GOOD") ELSE Checked(t))

iokitosx_locate(s, p, b) ==
    LET t == _cdb_locate(s, p, b) IN Then(t, iokitosx_readpos(t))

iokit_rewind(s) == Issue(ScsiRewind(s))

iokitosx_rewind(s) == AndPosition(iokit_rewind(s))

\* positionSet_SpaceFileMark in either direction, positionSet_SpaceEOM.
iokit_set_position(s, type) ==
    Issue(CASE type = "FM_F" -> ScsiSpaceForward(s)
            [] type = "FM_B" -> ScsiSpaceBack(s)
            [] OTHER -> ScsiSpaceEod(s))

iokitosx_space(s, type) ==
    LET t == iokit_set_position(s, type) IN Then(t, iokitosx_readpos(t))

----------------------------------------------------------------------------
(* Data *)

\* A file mark is an error code here, which the caller turns into a read of
\* no bytes.
_cdb_read(s) ==
    LET t == iokit_passthrough(ScsiRead(s))
    IN  IF t.rc = "FILEMARK_DETECTED" THEN t ELSE Checked(t)

\* An adapter that does not report the length gives a label, the only short
\* record read at block 0, the length that was asked for: it is read again
\* without SILI.
ReadAgain(s) ==
    LET t == iokitosx_locate(s, s.pos.part, 0)
    IN  Then(t, _cdb_read([t EXCEPT !.drv.sili = FALSE]))

iokitosx_read(s) ==
    LET first == _cdb_read(s)
        again == s.pos.blk = 0 /\ first.rc = "GOOD" /\ s.drv.sili /\ ~s.opt.sili /\ ~s.opt.crc
        t == IF again THEN ReadAgain(first) ELSE first
        u == Return([t EXCEPT !.pos.blk = @ + 1], "GOOD")
        mark == t.rc = "FILEMARK_DETECTED"
    IN  IF t.rc # "GOOD" /\ ~mark THEN t
        ELSE IF mark \/ ~s.opt.crc \/ ~t.drv.crc THEN u
        ELSE IF ~t.got.crc THEN Return(u, "LBP_READ_ERROR")
        ELSE [u EXCEPT !.got.crc = FALSE]

\* Mutant: a write behind early warning is a success like any other.
write_unwarned(s, v) ==
    LET t == iokit_issue_cdb_command(ScsiWrite(s, v, s.opt.crc))
        warned == t.rc \in {"EARLY_WARNING", "PROG_EARLY_WARNING"}
    IN  [warn |-> "none", s |-> IF warned THEN Return(t, "GOOD") ELSE Checked(t)]

\* The result and the early warning it came with.
iokit_write(s, v) ==
    LET t == iokit_issue_cdb_command(ScsiWrite(s, v, s.opt.crc))
        warned == t.rc \in {"EARLY_WARNING", "PROG_EARLY_WARNING"}
    IN  [warn |-> IF warned THEN t.sense ELSE "none",
         s |-> IF warned THEN Return(t, "GOOD") ELSE Checked(t)]

iokitosx_write(s, v) ==
    LET w == iokit_write(s, v)
    IN  Then(w.s, [w.s EXCEPT !.pos.blk = @ + 1, !.pos.ew = (w.warn = "EW"),
                              !.pos.pew = (w.warn \in {"EW", "PEW"})])

iokit_write_filemark(s, count) ==
    LET t == iokit_issue_cdb_command(ScsiWriteFilemark(s, count))
    IN  IF t.rc \in {"EARLY_WARNING", "PROG_EARLY_WARNING"} THEN Return(t, "GOOD") ELSE Checked(t)

iokitosx_writefm(s, count) ==
    LET t == iokit_write_filemark(s, count) IN Then(t, iokitosx_readpos(t))

iokit_erase(s) == Issue(ScsiErase(s))

\* A long erase runs in the background until request sense says it is over.
iokitosx_erase(s, long) ==
    LET t == iokit_erase(s)
    IN  AndPosition(IF long THEN Then(t, iokit_request_sense(t)) ELSE t)

_cdb_format(s) == Pass(ScsiFormat(s))

iokitosx_format(s) == _cdb_format(s)

----------------------------------------------------------------------------
(* Pages *)

\* A mode sense, and the mode select that may follow it.
_cdb_sense(s) == Pass(Ask(s, "MODE SENSE"))

iokitosx_modesense(s) == _cdb_sense(s)

_cdb_select(s, next) == Pass(Exec(s, "MODE SELECT", next, "GOOD"))

iokitosx_modeselect(s) == _cdb_select(s, s.d)

iokit_log_sense_page(s) == Issue(Ask(s, "LOG SENSE"))

iokitosx_logsense_page(s) == iokit_log_sense_page(s)

iokitosx_logsense(s) == iokitosx_logsense_page(s)

\* Without the drive's capability being looked at.
iokitosx_set_lbp(s, enable) ==
    LET t == iokitosx_modesense(s)
        u == Then(t, iokitosx_modesense(t))
        v == Then(u, _cdb_select(u, [u.d EXCEPT !.lbp = enable]))
    IN  Then(v, [v EXCEPT !.drv.crc = enable])

iokit_set_media_parameters(s) ==
    LET t == Issue(Ask(s, "MODE SENSE")) IN Then(t, Issue(Ask(t, "MODE SELECT")))

iokitosx_set_default(s) ==
    LET t == iokit_set_media_parameters([s EXCEPT !.drv.sili = TRUE])
        u == Then(t, iokitosx_modesense(t))
        w == IF s.drv.device = "IBM_3592" THEN Then(u, iokitosx_modeselect(u)) ELSE t
    IN  Then(w, iokitosx_set_lbp(w, s.opt.crc))

iokit_set_compression(s) ==
    LET t == Issue(Ask(s, "MODE SENSE")) IN Then(t, Issue(Ask(t, "MODE SELECT")))

iokitosx_set_compression(s) == iokit_set_compression(s)

_cdb_setcap(s) == Pass(Ask(s, "SET CAPACITY"))

iokitosx_setcap(s) ==
    LET t == iokitosx_modesense(s)
    IN  IF s.drv.device = "IBM_3592" THEN Then(t, iokitosx_modeselect(t)) ELSE _cdb_setcap(s)

\* Any failure is the return code -1.
iokitosx_remaining_capacity(s) ==
    LET t == iokitosx_logsense(s) IN IF t.rc = "GOOD" THEN t ELSE Return(t, "MINUS_ONE")

iokitosx_get_cartridge_health(s) == Return(iokitosx_logsense(iokitosx_logsense(s)), "GOOD")

iokitosx_get_tape_alert(s) ==
    LET t == iokitosx_logsense(s)
    IN  Then(t, [t EXCEPT !.drv.alert = @ \/ s.d.alert, !.d.alert = FALSE])

iokitosx_clear_tape_alert(s) == Return([s EXCEPT !.drv.alert = FALSE], "GOOD")

\* EOD_UNKNOWN, the result of a failed log sense, is no error code.
iokitosx_get_eod_status(s) == Return(iokitosx_logsense(s), "GOOD")

iokit_update_block_limits(s) == Issue(Ask(s, "READ BLOCK LIMITS"))

iokit_get_media_parameters(s) ==
    LET t == Issue(Ask(s, "MODE SENSE"))
        u == IF s.drv.device = "IBM_3580" THEN t ELSE Then(t, Issue(Ask(t, "MODE SENSE")))
    IN  Then(u, iokit_update_block_limits(u))

iokitosx_get_parameters(s) == iokit_get_media_parameters(s)

_cdb_readattribute(s) == Pass(Ask(s, "READ ATTRIBUTE"))

iokitosx_read_attribute(s) == _cdb_readattribute(s)

_cdb_writeattribute(s) == Pass(Ask(s, "WRITE ATTRIBUTE"))

iokitosx_write_attribute(s) == _cdb_writeattribute(s)

_cdb_allow_overwrite(s) == Pass(Ask(s, "ALLOW OVERWRITE"))

\* The result is dropped.
iokitosx_allow_overwrite(s) == Return(_cdb_allow_overwrite(s), "GOOD")

iokit_report_density(s) == Issue(Ask(s, "REPORT DENSITY"))

iokitosx_report_density(s) == iokit_report_density(s)

----------------------------------------------------------------------------
(* Load, unload, open, close *)

iokit_load_unload(s, load) ==
    LET t == iokit_issue_cdb_command(IF load THEN ScsiLoad(s) ELSE ScsiUnload(s))
    IN  IF t.rc = "GOOD" THEN t ELSE iokitosx_process_errors(t, t.rc # "MEDIUM_MAY_BE_CHANGED")

\* The cartridge of this model is of a supported type.
iokitosx_load(s) ==
    LET t == AndPosition(iokit_load_unload(s, TRUE))
    IN  Then(t, iokitosx_modesense([t EXCEPT !.drv.alert = FALSE]))

\* The caller's position is not touched.
iokitosx_unload(s) == [iokit_load_unload(s, FALSE) EXCEPT !.drv.alert = FALSE]

iokitosx_get_worm_status(s) == Return(s, "GOOD")

iokit_obtain_exclusive_access(s) == Return([s EXCEPT !.drv.exclusive = TRUE], "GOOD")

iokit_release_exclusive_access(s) == Return([s EXCEPT !.drv.exclusive = FALSE], "GOOD")

iokit_identify_device_code(s) == LET t == iokit_inquiry(s) IN Then(t, iokit_inquiry(t))

iokitosx_open(s, device) ==
    LET t == iokit_identify_device_code(iokit_obtain_exclusive_access([s EXCEPT !.drv = IokitData(device)]))
    IN  IF t.rc = "GOOD" THEN t
        ELSE Return(iokit_release_exclusive_access(t), "DEVICE_UNSUPPORTABLE")

iokitosx_close(s) == iokit_release_exclusive_access(iokitosx_set_lbp(s, FALSE))

----------------------------------------------------------------------------
(* Encryption and extended attributes *)

is_ame(s) == iokitosx_modesense(s)

is_encryption_capable(s) ==
    LET t == is_ame(s)
    IN  IF s.drv.device # "IBM_3580" THEN Return(s, "INTERNAL_ERROR")
        ELSE IF t.rc # "GOOD" THEN Return(t, "INTERNAL_ERROR") ELSE t

_cdb_securityprotocolout(s, key) == Pass(ScsiSetKey(s, key))

_cdb_securityprotocolin(s) == Pass(Ask(s, "SECURITY PROTOCOL IN"))

iokitosx_set_key(s, key) ==
    LET t == is_encryption_capable(s)
        u == Then(t, iokitosx_modesense(t))
        v == Then(u, _cdb_securityprotocolout(u, key))
    IN  Then(v, iokitosx_modesense([v EXCEPT !.drv.key = (key # "none")]))

iokitosx_get_keyalias(s) ==
    LET t == is_encryption_capable(s)
        u == Then(t, _cdb_securityprotocolin(t))
    IN  Then(u, _cdb_securityprotocolin(u))

\* Nothing sets the flag that would make it fetch a second time.
iokitosx_get_xattr(s) ==
    LET t == iokitosx_logsense_page(s)
    IN  IF s.drv.fetched THEN Return(s, "GOOD") ELSE [t EXCEPT !.drv.fetched = (t.rc = "GOOD")]

iokitosx_set_xattr(s) == Return(s, "NO_XATTR")
=============================================================================
