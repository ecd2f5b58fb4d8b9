---------------------------- MODULE DriveSession ---------------------------
(***************************************************************************)
(* libltfs/tape.c on top of a tape driver and a SCSI drive that may be     *)
(* reset, power cycled, given another cartridge or fail at any command of  *)
(* any operation.  tape_ops.h is the contract: what an operation returns,  *)
(* and the position and early warning flags it fills in, are all libltfs   *)
(* knows of the drive.                                                     *)
(***************************************************************************)
EXTENDS ScsiDrive

CONSTANTS
    Setups,             \* drivers, drives and options: [kind, device, opt]
    Values,             \* contents of records
    Injected,           \* xattrs that make ibmtape report errors: "read", "write"
    Faults,             \* what may happen to the drive
    MaxFaults,          \* how often
    MaxCmds,            \* commands of an operation among which a fault may fall
    MaxCalls            \* operations between load and close

CONSTANTS   \* struct tape_ops, device->backend: the operations of the driver in use
    backend_test_unit_ready(_), backend_reserve_unit(_), backend_release_unit(_),
    backend_prevent(_), backend_allow(_), backend_load(_), backend_unload(_),
    backend_rewind(_), backend_readpos(_), backend_locate(_, _, _), backend_space(_, _),
    backend_read(_), backend_write(_, _), backend_writefm(_, _), backend_erase(_, _),
    backend_format(_), backend_modesense(_), backend_modeselect(_), backend_set_default(_),
    backend_remaining_capacity(_), backend_get_parameters(_), backend_read_attribute(_),
    backend_write_attribute(_), backend_set_key(_, _), backend_close(_),
    backend_set_xattr(_, _), backend_parse_opts(_), backend_open(_, _), backend_query(_, _)

VARIABLES
    s,        \* drive, driver, libltfs: see ScsiDrive
    stage,    \* "closed", "open", "loaded", "reval" (to be loaded again), "lost"
    want,     \* the medium as the return codes told libltfs it is
    last,     \* the last operation: [op, rc, fault, hit, seen, kept]
    exposed,  \* a fault fell into an operation that did not ask for revalidation
    faults, calls

vars == <<s, stage, want, last, exposed, faults, calls>>

----------------------------------------------------------------------------
(* Operations that neither move the cartridge nor write to it.  Where       *)
(* libltfs/tape.c has a function for one, it passes the result on.          *)

tape_inquiry(t) == backend_query(t, "inquiry")
tape_inquiry_page(t) == backend_query(t, "inquiry_page")
tape_get_cartridge_health(t) == backend_query(t, "get_cartridge_health")
tape_get_tape_alert(t) == backend_query(t, "get_tape_alert")
tape_clear_tape_alert(t) == backend_query(t, "clear_tape_alert")
tape_get_vendorunique_xattr(t) == backend_query(t, "get_xattr")
tape_get_keyalias(t) == backend_query(t, "get_keyalias")
tape_takedump_drive(t) == backend_query(t, "takedump_drive")
tape_get_worm_status(t) == backend_query(t, "get_worm_status")
tape_update_mam_attributes(t) == backend_query(t, "update_mam_attr")

tape_set_vendorunique_xattr(t, name) == backend_set_xattr(t, name)

\* Without the attribute the reference is unknown, and the error returned.
tape_get_volume_change_reference(t) == backend_read_attribute(t)

\* The application's name: unltfs asks for it before it wipes a cartridge.
tape_check_unformat_ok(t) ==
    LET u == backend_read_attribute(t) IN IF u.rc = "GOOD" THEN u ELSE Return(u, "MINUS_1000")

tape_remove_ewstate(t) == backend_write_attribute(t)

\* Virtual attributes made from one mode page: a failure is the text
\* "unknown".
tape_get_media_encrypted(t) == Return(backend_modesense(t), "GOOD")
tape_get_drive_encryption_state(t) == Return(backend_modesense(t), "GOOD")
tape_get_drive_encryption_method(t) == Return(backend_modesense(t), "GOOD")

\* One attribute of the cartridge memory.
OneMamAttribute(t) == backend_read_attribute(t)

\* All six: each one is read whatever became of the others, and the last
\* failure is the result.
tape_get_MAMattributes(t) ==
    LET And(x) == LET y == OneMamAttribute(x) IN IF y.rc = "GOOD" THEN [y EXCEPT !.rc = x.rc] ELSE y
    IN  And(And(And(And(And(And(Return(t, "GOOD")))))))

Queries ==
    {"inquiry", "inquiry_page", "report_density", "logsense", "modesense", "set_compression", "setcap",
     "remaining_capacity", "get_cartridge_health", "get_tape_alert", "clear_tape_alert",
     "get_eod_status", "get_parameters", "write_attribute", "allow_overwrite",
     "get_keyalias", "get_xattr", "get_worm_status", "takedump_drive", "update_mam_attr",
     "media_encrypted", "encryption_state", "encryption_method", "one_attribute", "all_attributes",
     "change_reference", "unformat_ok", "remove_ewstate"}

tape_query(t, q) ==
    CASE q = "inquiry" -> tape_inquiry(t)
      [] q = "inquiry_page" -> tape_inquiry_page(t)
      [] q = "get_cartridge_health" -> tape_get_cartridge_health(t)
      [] q = "get_tape_alert" -> tape_get_tape_alert(t)
      [] q = "clear_tape_alert" -> tape_clear_tape_alert(t)
      [] q = "get_keyalias" -> tape_get_keyalias(t)
      [] q = "get_xattr" -> tape_get_vendorunique_xattr(t)
      [] q = "get_worm_status" -> tape_get_worm_status(t)
      [] q = "takedump_drive" -> tape_takedump_drive(t)
      [] q = "update_mam_attr" -> tape_update_mam_attributes(t)
      [] q = "media_encrypted" -> tape_get_media_encrypted(t)
      [] q = "encryption_state" -> tape_get_drive_encryption_state(t)
      [] q = "encryption_method" -> tape_get_drive_encryption_method(t)
      [] q = "one_attribute" -> OneMamAttribute(t)
      [] q = "all_attributes" -> tape_get_MAMattributes(t)
      [] q = "change_reference" -> tape_get_volume_change_reference(t)
      [] q = "unformat_ok" -> tape_check_unformat_ok(t)
      [] q = "remove_ewstate" -> tape_remove_ewstate(t)
      [] q = "modesense" -> backend_modesense(t)
      [] q = "remaining_capacity" -> backend_remaining_capacity(t)
      [] q = "get_parameters" -> backend_get_parameters(t)
      [] q = "write_attribute" -> backend_write_attribute(t)
      [] OTHER -> backend_query(t, q)

----------------------------------------------------------------------------
(* libltfs/tape.c *)

\* do ... while (NEED_REVAL(ret)): the drive has at most two unit attentions
\* pending, and more only when another fault strikes.
AgainWhile(Op(_), t) ==
    LET Next1(x) == IF x.rc \in NeedReval THEN Op(x) ELSE x
    IN  Next1(Next1(Next1(Next1(Op(t)))))

tape_reserve_device(t) ==
    LET u == AgainWhile(backend_reserve_unit, t)
    IN  IF t.lib.reserved THEN Return(t, "GOOD") ELSE [u EXCEPT !.lib.reserved = (u.rc = "GOOD")]

tape_release_device(t) ==
    LET u == AgainWhile(backend_release_unit, t)
    IN  IF ~t.lib.reserved THEN t ELSE [u EXCEPT !.lib.reserved = (u.rc # "GOOD")]

tape_prevent_medium_removal(t) ==
    LET u == AgainWhile(backend_prevent, t)
    IN  IF t.lib.locked THEN Return(t, "GOOD") ELSE [u EXCEPT !.lib.locked = (u.rc = "GOOD")]

tape_allow_medium_removal(t, force) ==
    LET u == AgainWhile(backend_allow, t)
    IN  IF ~t.lib.locked /\ ~force THEN t ELSE [u EXCEPT !.lib.locked = (u.rc # "GOOD")]

\* A drive that has been attached, or not, is told apart by the driver's
\* unit attention codes; so is a cartridge that is not threaded yet.
tape_is_cartridge_loadable(t) ==
    LET u == AgainWhile(backend_test_unit_ready, t)
    IN  IF u.rc = "NEED_INITIALIZE" THEN Return(u, "GOOD") ELSE u

\* A key that was set elsewhere than at the beginning of a partition makes
\* the cartridge read-only.
tape_set_key(t, key) ==
    LET u == IF key = "none" THEN Return(t, "GOOD") ELSE backend_readpos(t)
        w == backend_set_key([u EXCEPT !.lib.key = @ \/ key # "none", !.pos = t.pos], key)
    IN  Then(u, Then(w, [w EXCEPT !.lib.ro = @ \/ (key # "none" /\ u.pos.blk # 0)]))

tape_clear_key(t) == IF t.lib.key THEN tape_set_key(t, "none") ELSE Return(t, "GOOD")

tape_get_pews(t) == backend_modesense(t)

\* Its failure is no early warning state.
tape_get_ewstate(t) == Return(backend_read_attribute(t), "GOOD")

tape_set_ewstate(t) == backend_write_attribute(t)

\* Three attempts, and up to 30 more of which one is enough here.  The
\* cartridge has just been threaded, so that the drive does not ask for it.
tape_wait_device_ready(t) ==
    LET again(x) == IF x.rc # "GOOD" THEN backend_test_unit_ready(x) ELSE x
    IN  again(again(again(backend_test_unit_ready(t))))

tape_load_tape(t) ==
    LET Load(x) == AgainWhile(backend_load, x)
        EwState(x) == tape_get_ewstate([x EXCEPT !.lib.werr = FALSE, !.lib.ro = FALSE])
        a == AndThen(AndThen(tape_is_cartridge_loadable(t), Load), tape_wait_device_ready)
        b == AndThen(AndThen(a, tape_prevent_medium_removal), backend_readpos)
        c == AndThen(AndThen(b, backend_set_default), tape_clear_key)
        d == AndThen(AndThen(c, backend_remaining_capacity), backend_get_parameters)
    IN  AndThen(AndThen(d, tape_get_pews), EwState)

\* Three attempts to reach the drive, then its mode page.
tape_enable_append_only_mode(t) ==
    LET ready(x) == IF x.rc # "GOOD" THEN backend_test_unit_ready(x) ELSE x
    IN  AndThen(backend_modesense(ready(ready(backend_test_unit_ready(t)))), backend_modeselect)

\* What a close or an unload returns is what its last step does.
tape_unload_tape(t) ==
    LET u == AgainWhile(backend_rewind, tape_allow_medium_removal(t, FALSE))
    IN  tape_enable_append_only_mode(AgainWhile(backend_unload, u))

tape_device_close(t, force) ==
    LET a == tape_allow_medium_removal(tape_clear_key(t), force)
    IN  backend_close(tape_release_device(tape_enable_append_only_mode(a)))

tape_device_open(t, setup) ==
    LET u == backend_open(t, setup)
        try(x) == IF x.rc # "GOOD" THEN tape_reserve_device(x) ELSE x
        v == try(try(tape_reserve_device(u)))
    IN  IF u.rc # "GOOD" THEN u
        ELSE IF v.rc # "GOOD" THEN Return(tape_device_close(v, FALSE), v.rc)
        ELSE Return(tape_allow_medium_removal(v, TRUE), "GOOD")

tape_parse_opts(t) == backend_parse_opts(t)

tape_set_pews(t) ==
    AndThen(AndThen(backend_remaining_capacity(t), backend_modesense), backend_modeselect)

tape_get_append_only_mode_setting(t) == backend_modesense(t)

\* The append-only mode is off.
ltfs_setup_device(t) ==
    AndThen(AndThen(tape_is_cartridge_loadable(t), tape_set_pews), tape_get_append_only_mode_setting)

\* The device's half of ltfs_revalidate: the flags are those of a drive that
\* has been reset.
ltfs_revalidate(t) ==
    LET Reserve(x) == tape_reserve_device([x EXCEPT !.lib.reserved = FALSE, !.lib.locked = FALSE])
    IN  AndThen(AndThen(ltfs_setup_device(t), Reserve), tape_load_tape)

\* A seek to where the drive is said to be already takes no command.
tape_seek(t, p, b) ==
    LET u == IF t.pos.part = p /\ t.pos.blk = b THEN Return(t, "GOOD") ELSE backend_locate(t, p, b)
        there == u.pos.part = p /\ (b = BlockMax \/ u.pos.blk = b)
    IN  IF u.rc = "GOOD" /\ ~there THEN Return(u, "BAD_LOCATE") ELSE u

tape_seek_eod(t, p) ==
    LET u == backend_locate(t, p, BlockMax)
    IN  IF u.rc = "GOOD" /\ u.pos.part # p THEN Return(u, "BAD_LOCATE") ELSE u

tape_spacefm(t, type) == backend_space(t, type)

tape_rewind(t) == backend_rewind(t)

\* A failed write makes the cartridge read-only until it is loaded again.
Failed(t) == [t EXCEPT !.lib.werr = @ \/ t.rc \notin NeedReval \cup {"GOOD"}]

\* Of an index: no lack of space stops it.
tape_write(t, v) ==
    LET u == Failed(backend_write(t, v))
    IN  IF u.rc = "GOOD" /\ u.pos.ew THEN Return(tape_set_ewstate(u), "GOOD") ELSE u

tape_write_filemark(t) == Failed(backend_writefm(t, 1))

tape_read(t) == backend_read(t)

tape_erase(t, long) == backend_erase(t, long)

----------------------------------------------------------------------------
(* Operations of the session *)

NoLast == [op |-> "none", rc |-> "GOOD", fault |-> "none", hit |-> "none", seen |-> TRUE,
           kept |-> TRUE]

Init ==
    /\ \E threaded \in BOOLEAN, pending \in {<<>>, <<"POR">>} :
         s = [d |-> [NewDrive EXCEPT !.threaded = threaded, !.ua = pending],
              drv |-> [kind |-> "none"], pos |-> NoPosition, sense |-> "GOOD", rc |-> "GOOD",
              got |-> [what |-> FileMark, crc |-> FALSE], fault |-> "none", left |-> 0, hit |-> "none",
              junk |-> 0, opt |-> [crc |-> FALSE, dump |-> FALSE, sili |-> FALSE],
              lib |-> [reserved |-> FALSE, locked |-> FALSE, werr |-> FALSE, ro |-> FALSE, key |-> FALSE]]
    /\ stage = "closed"
    /\ want = NewDrive.med
    /\ last = NoLast
    /\ exposed = FALSE
    /\ faults = 0 /\ calls = 0

\* Nothing happens to the drive, or a fault strikes at command left + 1.
Troubles ==
    {[fault |-> "none", left |-> 0]} \cup
    (IF faults < MaxFaults THEN [fault : Faults, left : 0 .. MaxCmds] ELSE {})

UnitAttentions == {"reset", "cycle", "swap"}

\* The caller's position is not the drive's, and no unit attention is
\* pending that would tell it so.
Strayed(t) == t.d.ua = <<>> /\ (t.pos.part # t.d.part \/ t.pos.blk # t.d.blk)

\* Operations whose loops and checks deal with what they meet themselves.
Setup == {"open", "load", "revalidate", "unload", "close"}

\* Where the session stands after operation op.  A session is lost when the
\* driver and libltfs no longer know where the cartridge is, or were not
\* told of what happened to the drive.
StageAfter(op, t, trouble) ==
    CASE op = "open" -> IF t.rc = "GOOD" THEN "open" ELSE "closed"
      [] op = "unload" -> "open"
      [] op = "close" -> "closed"
      [] op \in {"load", "revalidate"} /\ t.rc # "GOOD" -> "open"
      [] t.rc \in NeedReval -> "reval"
      [] \/ Strayed(t)
         \/ trouble.fault \in UnitAttentions /\ t.d.ua = <<>>
         \/ trouble.fault \in {"perm", "timeout", "late"} /\ t.rc = "GOOD" -> "lost"
      [] OTHER -> "loaded"

\* The operation op, which returns t with result Op and tells libltfs that
\* the medium is `told' when it succeeds.  When it fails libltfs does not know
\* the medium until it has looked: `kept' says that the operation left it as
\* it was, or did just what it was asked to and nobody writes behind it.
Perform(op, Op(_), told) ==
    \E trouble \in Troubles :
      \E t \in {Op([s EXCEPT !.fault = trouble.fault, !.left = trouble.left])} :
        LET before == want[s.pos.part]
            seen == op = "read" /\ t.rc = "GOOD" =>
                      /\ s.pos.blk < Len(before)
                      /\ t.got = [what |-> before[s.pos.blk + 1], crc |-> FALSE]
            barred == t.lib.werr \/ t.rc \in NeedReval \/ op \in {"erase", "format"}
            kept == t.rc # "GOOD" /\ stage # "lost" =>
                      t.d.med = want \/ (t.d.med = told /\ barred)
        IN  /\ t.fault = "none"
            /\ s' = [t EXCEPT !.hit = "none", !.sense = "GOOD", !.rc = "GOOD", !.junk = 0,
                             !.got = [what |-> FileMark, crc |-> FALSE]]
            /\ stage' = StageAfter(op, t, trouble)
            /\ want' = IF t.rc = "GOOD" /\ stage # "lost" THEN told ELSE t.d.med
            /\ last' = [op |-> op, rc |-> t.rc, fault |-> trouble.fault, hit |-> t.hit, seen |-> seen,
                        kept |-> kept]
            /\ exposed' = \/ exposed /\ op # "revalidate"
                          \/ trouble.fault # "none" /\ (op \in Setup \/ t.rc \notin NeedReval)
            /\ faults' = IF trouble.fault = "none" THEN faults ELSE faults + 1

Open(setup) ==
    /\ stage = "closed" /\ last.op = "none"
    /\ LET op(t) == AndThen(tape_device_open(t, setup), tape_parse_opts)
       IN  Perform("open", op, want)
    /\ UNCHANGED calls

\* junk is what an uninitialized variable of the driver holds.
Load ==
    /\ stage = "open" /\ calls < MaxCalls
    /\ \E junk \in {0, 11} :
         LET op(t) == AndThen(ltfs_setup_device([t EXCEPT !.junk = junk]), tape_load_tape)
         IN  Perform("load", op, want)
    /\ calls' = calls + 1

Revalidate ==
    /\ stage = "reval"
    /\ \E junk \in {0, 11} :
         LET op(t) == ltfs_revalidate([t EXCEPT !.junk = junk]) IN Perform("revalidate", op, want)
    /\ UNCHANGED calls

Loaded == stage = "loaded" /\ calls < MaxCalls /\ calls' = calls + 1

Writable == Loaded /\ ~s.lib.werr /\ ~s.lib.ro

\* The medium after a record goes to where libltfs takes the drive to be.
Behind(what) == [want EXCEPT ![s.pos.part] = Append(SubSeq(@, 1, s.pos.blk), what)]

Write(v) ==
    /\ Writable
    /\ LET op(t) == tape_write(t, v) IN Perform("write", op, Behind(Plain(v)))

WriteFilemark == Writable /\ Perform("writefm", tape_write_filemark, Behind(FileMark))

Read == Loaded /\ Perform("read", tape_read, want)

Seek(p, b) ==
    /\ Loaded
    /\ LET op(t) == tape_seek(t, p, b) IN Perform("seek", op, want)

SeekEod(p) ==
    /\ Loaded
    /\ LET op(t) == tape_seek_eod(t, p) IN Perform("seek_eod", op, want)

SpaceFm(type) ==
    /\ Loaded
    /\ LET op(t) == tape_spacefm(t, type) IN Perform("space", op, want)

Rewind == Loaded /\ Perform("rewind", tape_rewind, want)

Erase(long) ==
    /\ Writable
    /\ LET op(t) == tape_erase(t, long)
       IN  Perform("erase", op, [want EXCEPT ![s.pos.part] = SubSeq(@, 1, s.pos.blk)])

Format == Writable /\ Perform("format", backend_format, NewDrive.med)

Readpos == Loaded /\ Perform("readpos", backend_readpos, want)

TestUnitReady == Loaded /\ Perform("test_unit_ready", backend_test_unit_ready, want)

SetKey ==
    /\ Loaded
    /\ LET op(t) == tape_set_key(t, "k1") IN Perform("set_key", op, want)

Query(q) ==
    /\ Loaded /\ (q = "update_mam_attr" => s.drv.kind = "ltotape")
    /\ LET op(t) == tape_query(t, q) IN Perform(q, op, want)

\* After a second read, or write, ibmtape reports an error of its own.
SetXattr(name) ==
    /\ Loaded
    /\ LET op(t) == tape_set_vendorunique_xattr(t, name) IN Perform("set_xattr", op, want)

Unload == stage \in {"loaded", "lost"} /\ Perform("unload", tape_unload_tape, want) /\ UNCHANGED calls

Close ==
    /\ stage \in {"open", "loaded", "reval", "lost"}
    /\ LET op(t) == tape_device_close(t, FALSE) IN Perform("close", op, want)
    /\ UNCHANGED calls

Next ==
    \/ \E setup \in Setups : Open(setup)
    \/ Load \/ Revalidate \/ Unload \/ Close
    \/ \E v \in Values : Write(v)
    \/ \E p \in Partitions : SeekEod(p) \/ \E b \in 0 .. EndAt[p] : Seek(p, b)
    \/ \E type \in {"FM_F", "FM_B", "EOD"} : SpaceFm(type)
    \/ \E long \in BOOLEAN : Erase(long)
    \/ WriteFilemark \/ Read \/ Rewind \/ Format \/ Readpos \/ TestUnitReady \/ SetKey
    \/ \E q \in Queries : Query(q)
    \/ \E name \in Injected : SetXattr(name)

Spec == Init /\ [][Next]_vars

----------------------------------------------------------------------------
(* Properties *)

Kinds == {"ibmtape", "iokit", "ltotape"}

DumpCommands == {"READ BUFFER", "SEND DIAGNOSTIC"}

\* Commands whose failure an operation does not report: the read position at
\* its end; the early warning state that tape_write leaves in the
\* cartridge's memory; values that are optional; a command of ltotape that
\* timed out, when an earlier one left a file mark or the end of data in the
\* sense data.
Unreported ==
    ({"ibmtape", "ltotape"} \X {"rewind", "seek", "seek_eod", "space", "writefm", "write", "erase"}
       \X {"READ POSITION"})
    \cup ({"iokit"} \X {"rewind", "seek", "seek_eod", "erase"} \X {"READ POSITION"})
    \cup (Kinds \X {"write"} \X {"WRITE ATTRIBUTE"})
    \cup (Kinds \X {"get_cartridge_health", "get_eod_status"} \X {"LOG SENSE"})
    \cup (Kinds \X {"takedump_drive"} \X DumpCommands)
    \cup (Kinds \X {"media_encrypted", "encryption_state", "encryption_method"} \X {"MODE SENSE"})
    \cup {<<"ibmtape", "get_parameters", "READ BLOCK LIMITS">>, <<"ibmtape", "setcap", "MODE SENSE">>,
          <<"iokit", "allow_overwrite", "ALLOW OVERWRITE">>, <<"iokit", "erase", "REQUEST SENSE">>,
          <<"ltotape", "get_parameters", "MODE SENSE">>, <<"ltotape", "format", "WRITE ATTRIBUTE">>,
          <<"ltotape", "read", "READ">>, <<"ltotape", "seek_eod", "LOCATE">>}

\* Commands whose unit attention comes out as an error of another kind.
Disguised ==
    ({"ibmtape", "iokit"} \X {"set_key", "get_keyalias"} \X {"MODE SENSE"})
    \cup {<<"iokit", "remaining_capacity", "LOG SENSE">>}
    \cup (Kinds \X {"unformat_ok"} \X {"READ ATTRIBUTE"})

Struck == <<s.drv.kind, last.op, last.hit>>

\* ibmtape takes any failed file mark behind early warning for written.
MarkAssumed == s.drv.kind = "ibmtape" /\ last.op = "writefm" /\ (s.pos.ew \/ s.pos.pew)

Swallowed == Struck \in Unreported \/ MarkAssumed

\* A fault that strikes a command of an operation makes the operation fail,
\* whatever else the operation sends to the drive afterwards (dumps, read
\* position, retries), unless the command is one of Unreported.  A reset or
\* an exchanged cartridge moreover comes out as one of the codes for which
\* libltfs revalidates the medium (NEED_REVAL); ltotape knows none of them.
FaultTold ==
    /\ last.op \notin Setup /\ last.fault # "none"
    /\ ~Swallowed /\ s.d.ua = <<>>
    => /\ last.rc # "GOOD"
       /\ last.fault \in UnitAttentions /\ s.drv.kind # "ltotape"
          => last.rc \in NeedReval \/ last.hit \in DumpCommands \/ Struck \in Disguised

\* The medium holds what the return codes said: every record and file mark
\* whose write succeeded, once, where libltfs took the drive to be and without
\* the bytes that protect a block on its way; and a read returns the record
\* that was written there.  An operation that failed left the medium as it was
\* or did its work exactly once, never part of it and never twice; a record or
\* file mark that is on the medium although its write failed has made the
\* cartridge read-only (write_error) or asks for revalidation, so that no
\* write follows it unchecked.
MediumAsTold ==
    /\ last.kept
    /\ stage \notin {"closed", "open"} /\ last.rc = "GOOD" /\ ~Swallowed => s.d.med = want /\ last.seen

\* An operation that no fault struck leaves the caller with the position of
\* the drive, whether it succeeds or not, as tape_seek relies on when it
\* sends no command to a drive that is there already.  iokitosx_space does
\* not fill in the position when it fails.
PositionFilled ==
    /\ stage \in {"loaded", "lost"} /\ last.fault = "none"
    /\ ~(s.drv.kind = "iokit" /\ last.op = "space" /\ last.rc # "GOOD")
    => ~Strayed(s)

\* The write that crosses the programmable early warning point, and every
\* write behind the early warning point, tells libltfs so, although drivers
\* learn of it in different ways: an errno, sense data, a read position, a
\* state that the command layer keeps.
WarnedInTime ==
    stage = "loaded" /\ last.op = "write" /\ last.rc = "GOOD"
    => /\ PastEarly(s.d) => s.pos.ew
       /\ s.d.blk = ProgAt[s.d.part] => s.pos.pew \/ s.pos.ew

=============================================================================
