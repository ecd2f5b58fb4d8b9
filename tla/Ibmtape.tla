------------------------------ MODULE Ibmtape ------------------------------
(***************************************************************************)
(* The Linux driver for IBM drives (tape_drivers/linux/ibmtape).  Commands *)
(* go through ioctl calls of lin_tape or its SCSI pass-through; both give  *)
(* the sense of a failed command, which is turned into a return code.      *)
(*                                                                         *)
(* lin_tape reports a write behind early warning as ENOSPC although the    *)
(* record was written, and programmable early warning as sense.            *)
(***************************************************************************)
EXTENDS ScsiDrive

CONSTANT
    NoWriteThreshold   \* THREASHOLD_FORCE_WRITE_NO_WRITE

\* calloc() in ibmtape_open; device is the device_code found by the inquiry.
IbmtapeData(device) ==
    [kind |-> "ibmtape", device |-> device, loaded |-> FALSE, loadfailed |-> FALSE,
     worm |-> FALSE, alert |-> FALSE, crc |-> FALSE, key |-> FALSE, dirty |-> FALSE,
     fetched |-> FALSE, forceWrite |-> 0, writes |-> 0, forceRead |-> 0, reads |-> 0]

----------------------------------------------------------------------------
(* Sense data and return codes *)

\* standard_table, for the sense a drive of this model gives.
StandardTable ==
    [POR |-> "POR_OR_BUS_RESET", CHANGED |-> "MEDIUM_MAY_BE_CHANGED", FM |-> "FILEMARK_DETECTED",
     EOD |-> "EOD_DETECTED", BOP |-> "BOP_DETECTED", EW |-> "EARLY_WARNING",
     PEW |-> "PROG_EARLY_WARNING", FULL |-> "OVERFLOW", PERM |-> "RW_PERM",
     NOT_READY |-> "NEED_INITIALIZE", ILLEGAL |-> "ILLEGAL_REQUEST", GUARD |-> "LBP_WRITE_ERROR",
     PREVENTED |-> "MEDIUM_LOCKED", LOADFAIL |-> "LOAD_UNLOAD_ERROR"]

_sense2errcode(sense) == IF sense = "GOOD" THEN "GOOD" ELSE StandardTable[sense]

\* After a failed ioctl the driver asks lin_tape for the sense; there is
\* none for a command that timed out.
ibmtape_ioctlrc2err(sense) == IF sense = "NONE" THEN "DRIVER_ERROR" ELSE _sense2errcode(sense)

_sioc_stioc_command(s) == Return(s, ibmtape_ioctlrc2err(s.sense))

_mt_command(s) == Return(s, ibmtape_ioctlrc2err(s.sense))

_st_command(s) == Return(s, ibmtape_ioctlrc2err(s.sense))

\* _sioc_paththrough returns a positive host error for a time out.
_sioc_paththrough(sense) == IF sense = "NONE" THEN "INTERNAL_ERROR" ELSE _sense2errcode(sense)

sioc_paththrough(s) == Return(s, _sioc_paththrough(s.sense))

----------------------------------------------------------------------------
(* Dumps of the drive, taken when a command failed *)

WithRc(s, t) == [t EXCEPT !.rc = s.rc]

ibmtape_readbuffer(s) == sioc_paththrough(Ask(s, "READ BUFFER"))

\* The length of the dump comes from a first READ BUFFER whose return code
\* is not looked at; without it there is nothing to transfer.
ibmtape_getdump_drive(s) ==
    LET t == ibmtape_readbuffer(s)
    IN  IF t.rc = "GOOD" THEN ibmtape_readbuffer(t) ELSE Return(t, "GOOD")

ibmtape_forcedump_drive(s) == sioc_paththrough(Ask(s, "SEND DIAGNOSTIC"))

ibmtape_takedump_drive(s) ==
    Return(ibmtape_getdump_drive(ibmtape_forcedump_drive(ibmtape_getdump_drive(s))), "GOOD")

\* Codes from EDEV_NOT_READY up to EDEV_INTERNAL_ERROR.
DumpCodes ==
    {StandardTable[x] : x \in DOMAIN StandardTable \ {"FM", "EW", "BOP", "PEW"}}

is_dump_required_error(rc) == rc \in DumpCodes

ibmtape_process_errors(s, dump) ==
    IF dump /\ s.opt.dump /\ is_dump_required_error(s.rc)
    THEN WithRc(s, ibmtape_takedump_drive(s)) ELSE s

\* The usual end of an operation.
Checked(s) == IF s.rc = "GOOD" THEN s ELSE ibmtape_process_errors(s, TRUE)

----------------------------------------------------------------------------
(* Unit, reservation, medium removal *)

ibmtape_inquiry(s) == _sioc_stioc_command(ScsiInquiry(s))

ibmtape_inquiry_page(s) == Checked(_sioc_stioc_command(ScsiInquiry(s)))

ibmtape_test_unit_ready(s) ==
    LET t == _sioc_stioc_command(ScsiTestUnitReady(s))
        quiet == {"NEED_INITIALIZE", "MEDIUM_MAY_BE_CHANGED"}
    IN  IF t.rc = "GOOD" THEN t ELSE ibmtape_process_errors(t, t.rc \notin quiet)

ibmtape_reserve_unit(s) == Checked(_sioc_stioc_command(ScsiReserve(s)))

ibmtape_release_unit(s) ==
    LET t == _sioc_stioc_command(ScsiRelease(s))
    IN  IF t.rc = "GOOD" THEN t ELSE ibmtape_process_errors(t, t.rc # "POR_OR_BUS_RESET")

ibmtape_prevent_medium_removal(s) == Checked(_sioc_stioc_command(ScsiPreventAllow(s, TRUE)))

ibmtape_allow_medium_removal(s) == Checked(_sioc_stioc_command(ScsiPreventAllow(s, FALSE)))

----------------------------------------------------------------------------
(* Position *)

ibmtape_readpos(s) ==
    LET t == _sioc_stioc_command(ScsiReadPosition(s))
    IN  IF t.rc = "GOOD" THEN Tell(t, PastEarly(t.d), PastProg(t.d))
        ELSE ibmtape_process_errors(t, TRUE)

\* Mutant: the position is counted up instead of asked for.
GuessPosition(s) == [s EXCEPT !.pos.blk = @ + 1]

\* A read position whose own return code is dropped.
AndPosition(s) == WithRc(s, ibmtape_readpos(s))

ibmtape_rewind(s) == Checked(AndPosition(_mt_command(ScsiRewind(s))))

\* The partition is part of one of the two commands only.
ibmtape_locate(s, p, b) ==
    LET t == _sioc_stioc_command(ScsiLocate(s, IF s.pos.part # p THEN p ELSE s.d.part, b))
        u == IF t.rc = "EOD_DETECTED" /\ b = BlockMax THEN Return(t, "GOOD") ELSE Checked(t)
    IN  AndPosition(u)

\* TC_SPACE_FM_F, TC_SPACE_FM_B and TC_SPACE_EOD.
ibmtape_space(s, type) ==
    LET t == CASE type = "FM_F" -> ScsiSpaceForward(s)
               [] type = "FM_B" -> ScsiSpaceBack(s)
               [] OTHER -> ScsiSpaceEod(s)
    IN  Checked(AndPosition(_mt_command(t)))

----------------------------------------------------------------------------
(* Data *)

\* What the caller gets of a block: protection information is checked and
\* taken off.
StripCrc(s) ==
    IF ~s.opt.crc THEN s
    ELSE IF s.drv.crc /\ ~s.got.crc THEN Return(s, "LBP_READ_ERROR")
    ELSE [s EXCEPT !.got.crc = @ /\ ~s.drv.crc]

\* A file mark is a read of no bytes.
ibmtape_read(s) ==
    LET n == s.drv.reads + 1
        r == IF s.drv.forceRead = 0 THEN s ELSE [s EXCEPT !.drv.reads = n]
        t == ScsiRead(r)
        code == ibmtape_ioctlrc2err(t.sense)
    IN  IF s.drv.forceRead # 0 /\ n > s.drv.forceRead THEN Return(r, "READ_PERM")
        ELSE IF code = "FILEMARK_DETECTED" THEN Return([t EXCEPT !.pos.blk = @ + 1], "GOOD")
        ELSE IF code # "GOOD" THEN Checked(Return(t, code))
        ELSE StripCrc(Return([t EXCEPT !.pos.blk = @ + 1], "GOOD"))

\* xattr ltfs.vendor.IBM.forceErrorWrite: writes that are not made.
Forced(s, v) ==
    LET n == s.drv.writes + 1
        r == [s EXCEPT !.drv.writes = n]
    IN  IF n > s.drv.forceWrite THEN Return(r, "WRITE_PERM")
        ELSE Return([r EXCEPT !.pos.blk = @ + 1], "GOOD")

WriteForced(s) ==
    s.drv.forceWrite # 0 /\ s.drv.writes + 1 > s.drv.forceWrite - NoWriteThreshold

\* Mutant: a write that failed is not told from one behind early warning.
WriteResultLoose(t) ==
    LET u == AndPosition(t)
    IN  IF t.sense = "GOOD" THEN Return([t EXCEPT !.pos.blk = @ + 1], "GOOD") ELSE Return(u, "GOOD")

\* The end of ibmtape_write.
WriteResult(t) ==
    LET u == AndPosition(t)
        code == ibmtape_ioctlrc2err(t.sense)
    IN  CASE t.sense = "GOOD" -> Return([t EXCEPT !.pos.blk = @ + 1], "GOOD")
          [] t.sense = "EW" -> Return(u, IF u.pos.ew \/ u.pos.pew THEN "GOOD" ELSE "MINUS_ONE")
          [] t.sense = "PEW" -> Return([u EXCEPT !.pos.pew = TRUE], "GOOD")
          [] OTHER -> Checked(Return(t, code))

\* Mutant: a write that failed is sent once more.
WriteAgain(s, v) ==
    LET Once(x) == WriteResult(ScsiWrite(x, v, s.opt.crc))
        t == Once(s)
    IN  IF t.rc = "GOOD" THEN t ELSE Once(t)

ibmtape_write(s, v) ==
    LET r == IF s.drv.forceWrite = 0 THEN s ELSE [s EXCEPT !.drv.writes = @ + 1]
        t == WriteResult(ScsiWrite(r, v, s.opt.crc))
    IN  IF WriteForced(s) THEN Forced(s, v) ELSE [t EXCEPT !.drv.dirty = TRUE]

\* Any failure behind an early warning point counts as success.
ibmtape_writefm(s, count) ==
    LET t == AndPosition(_mt_command(ScsiWriteFilemark(s, count)))
    IN  CASE t.rc = "EARLY_WARNING" -> Return([t EXCEPT !.pos.ew = TRUE], "GOOD")
          [] t.rc = "PROG_EARLY_WARNING" -> Return([t EXCEPT !.pos.pew = TRUE], "GOOD")
          [] t.rc # "GOOD" /\ (t.pos.ew \/ t.pos.pew) -> Return(t, "GOOD")
          [] OTHER -> Checked(t)

ibmtape_long_erase(s) == Checked(sioc_paththrough(ScsiErase(s)))

\* The result of a long erase is what lin_tape then gives as the sense.
ibmtape_erase(s, long) ==
    LET e == ScsiErase(s)
        t == Return(ibmtape_long_erase(s), ibmtape_ioctlrc2err(e.sense))
    IN  Checked(AndPosition(IF long THEN t ELSE _st_command(e)))

ibmtape_format(s) == Checked(sioc_paththrough(ScsiFormat(s)))

----------------------------------------------------------------------------
(* Pages *)

ibmtape_logsense_page(s) == Checked(_sioc_stioc_command(Ask(s, "LOG SENSE")))

ibmtape_logsense(s) == ibmtape_logsense_page(s)

ibmtape_modesense(s) == Checked(sioc_paththrough(Ask(s, "MODE SENSE")))

\* A rounded mode parameter is no error.
ibmtape_modeselect(s) == Checked(sioc_paththrough(Ask(s, "MODE SELECT")))

ibmtape_set_lbp(s, enable) ==
    LET on == enable /\ LbpCapable
        t == ibmtape_modesense(s)
        u == Then(t, Checked(_sioc_stioc_command(Ask(t, "MODE SENSE"))))
        v == Then(u, Checked(_sioc_stioc_command(ScsiProtect(u, on))))
    IN  Then(v, [v EXCEPT !.drv.crc = on])

\* Get and set of the driver's parameters.  The pair is repeated after a
\* failed set while retry, which nothing initializes, is at most 10.
SetParams(s) ==
    LET t == Checked(_sioc_stioc_command(Ask(s, "MODE SENSE")))
    IN  Then(t, _sioc_stioc_command(Ask(t, "MODE SELECT")))

RetryParams(s) ==
    LET t == SetParams(s)
        Failed(x) == x.rc # "GOOD" /\ x.sense # "GOOD"
        u == SetParams(t)
    IN  IF ~Failed(t) \/ s.junk > 10 THEN Checked(t)
        ELSE IF ~Failed(u) THEN Checked(u) ELSE Checked(SetParams(u))

ibmtape_set_default(s) ==
    LET page(x) == LET y == ibmtape_modesense(x) IN Then(y, ibmtape_modeselect(y))
        t == IF s.drv.device = "IBM_3592" THEN page(s) ELSE Return(s, "GOOD")
        u == Then(t, RetryParams(t))
        v == Then(u, ibmtape_set_lbp(u, s.opt.crc))
        w == Then(v, Checked(_sioc_stioc_command(Ask(v, "MODE SENSE"))))
    IN  Then(w, Checked(_sioc_stioc_command(Ask(w, "MODE SELECT"))))

ibmtape_set_compression(s) ==
    LET t == ibmtape_modesense(s) IN Then(t, ibmtape_modeselect(t))

ibmtape_setcap(s) ==
    IF s.drv.device = "IBM_3592" THEN ibmtape_modeselect(ibmtape_modesense(s))
    ELSE Checked(sioc_paththrough(Ask(s, "SET CAPACITY")))

ibmtape_remaining_capacity(s) == ibmtape_logsense(s)

\* Two log pages; what fails is reported as an unsupported value.
ibmtape_get_cartridge_health(s) == Return(ibmtape_logsense(ibmtape_logsense(s)), "GOOD")

\* The drive clears its alerts when they are read; the driver keeps them.
ibmtape_get_tape_alert(s) ==
    LET t == ibmtape_logsense(s)
    IN  Then(t, [t EXCEPT !.drv.alert = @ \/ s.d.alert, !.d.alert = FALSE])

ibmtape_clear_tape_alert(s) == Return([s EXCEPT !.drv.alert = FALSE], "GOOD")

\* EOD_UNKNOWN, the result of a failed log sense, is no error code.
ibmtape_get_eod_status(s) == Return(ibmtape_logsense(s), "GOOD")

\* A failure leaves the block size at 0.
_ibmtape_get_block_limits(s) == Checked(sioc_paththrough(Ask(s, "READ BLOCK LIMITS")))

ibmtape_get_parameters(s) == ibmtape_modesense(_ibmtape_get_block_limits(s))

ibmtape_read_attribute(s) ==
    LET t == sioc_paththrough(Ask(s, "READ ATTRIBUTE"))
    IN  ibmtape_process_errors(t, t.rc # "GOOD")

ibmtape_write_attribute(s) == Checked(sioc_paththrough(Ask(s, "WRITE ATTRIBUTE")))

ibmtape_allow_overwrite(s) == Checked(_sioc_stioc_command(Ask(s, "ALLOW OVERWRITE")))

ibmtape_report_density(s) == Checked(sioc_paththrough(Ask(s, "REPORT DENSITY")))

----------------------------------------------------------------------------
(* Load and unload *)

_ibmtape_load_unload(s, load) ==
    LET t == _mt_command(IF load THEN ScsiLoad(s) ELSE ScsiUnload(s))
        u == [t EXCEPT !.drv.alert = FALSE, !.drv.loadfailed = FALSE]
        bad == t.rc = "LOAD_UNLOAD_ERROR"
        v == [t EXCEPT !.drv.loadfailed = @ \/ bad]
    IN  IF t.rc # "GOOD"
        THEN ibmtape_process_errors(AndPosition(v), /\ t.rc # "MEDIUM_MAY_BE_CHANGED"
                                                    /\ ~(bad /\ s.drv.loadfailed))
        ELSE IF load THEN AndPosition(u)
        ELSE [u EXCEPT !.pos.part = 0, !.pos.blk = 0]

\* The cartridge of this model is of a supported type and no WORM cartridge.
ibmtape_load(s) ==
    LET t == _ibmtape_load_unload(s, TRUE)
        u == Then(t, ibmtape_modesense(t))
    IN  Then(u, [u EXCEPT !.drv.loaded = TRUE, !.drv.worm = FALSE])

ibmtape_unload(s) ==
    LET t == _ibmtape_load_unload(s, FALSE)
    IN  Then(t, [t EXCEPT !.drv.loaded = FALSE, !.drv.worm = FALSE])

ibmtape_get_worm_status(s) == Return(s, IF s.drv.loaded THEN "GOOD" ELSE "MINUS_ONE")

ibmtape_open(s, device) ==
    LET t == ibmtape_inquiry([s EXCEPT !.drv = IbmtapeData(device)])
    IN  Then(t, ibmtape_inquiry_page(t))

\* Neither result is looked at.
ibmtape_close(s) ==
    LET t == IF s.drv.loaded THEN ibmtape_rewind(s) ELSE s
    IN  Return(ibmtape_set_lbp(t, FALSE), "GOOD")

----------------------------------------------------------------------------
(* Encryption and extended attributes *)

\* Application managed encryption: a failed mode sense means no.
is_ame(s) == ibmtape_modesense(s)

is_encryption_capable(s) ==
    LET t == is_ame(s)
    IN  IF s.drv.device # "IBM_3580" THEN Return(s, "INTERNAL_ERROR")
        ELSE IF t.rc # "GOOD" THEN Return(t, "INTERNAL_ERROR") ELSE t

ibmtape_security_protocol_out(s, key) == Checked(sioc_paththrough(ScsiSetKey(s, key)))

ibmtape_set_key(s, key) ==
    LET t == is_encryption_capable(s)
        u == Then(t, ibmtape_modesense(t))
        v == Then(u, ibmtape_security_protocol_out(u, key))
        w == Then(v, [v EXCEPT !.drv.key = (key # "none")])
    IN  Then(w, ibmtape_modesense(w))

\* The length of the page first, then the page.
ibmtape_get_keyalias(s) ==
    LET ask(x) == Checked(sioc_paththrough(Ask(x, "SECURITY PROTOCOL IN")))
        t == is_encryption_capable(s)
        u == Then(t, ask(t))
    IN  Then(u, ask(u))

\* ltfs.vendor.IBM.mediaCQsLossRate: fetched once, and again a minute later
\* when something has been written.
ibmtape_get_xattr(s) ==
    LET t == ibmtape_logsense_page(s)
    IN  IF s.drv.fetched /\ ~s.drv.dirty THEN Return(s, "GOOD")
        ELSE [t EXCEPT !.drv.fetched = (t.rc = "GOOD"), !.drv.dirty = @ /\ t.rc # "GOOD"]

ibmtape_set_xattr(s, name, n) ==
    IF name = "write"
    THEN Return([s EXCEPT !.drv.forceWrite = IF n # 0 /\ n < NoWriteThreshold THEN NoWriteThreshold ELSE n],
                "GOOD")
    ELSE Return([s EXCEPT !.drv.forceRead = n, !.drv.reads = 0], "GOOD")
=============================================================================
