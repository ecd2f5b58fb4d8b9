----------------------------- MODULE ScsiDrive -----------------------------
(***************************************************************************)
(* A tape drive as its drivers see it: SCSI commands, sense data and unit  *)
(* attentions.  It is not part of the repository; it is modelled from the  *)
(* commands the drivers send and the sense they decode.                    *)
(*                                                                         *)
(* A driver's operation takes and returns the record                       *)
(*    s == [d |-> the drive, drv |-> the driver's private data,            *)
(*          pos |-> struct tc_position of the caller, sense |-> outcome of *)
(*          the last command, rc |-> return code, got |-> what was read,   *)
(*          fault, left |-> the fault that strikes after `left' commands,  *)
(*          hit |-> the command it struck, junk |-> what an uninitialized  *)
(*          variable holds, opt |-> options: crc (protect blocks), dump    *)
(*          (dump the drive after an error), sili (the host adapter gives  *)
(*          the length of a short record), lib |-> flags of the caller]    *)
(***************************************************************************)
EXTENDS Integers, FiniteSets, Sequences, SequencesExt

CONSTANTS
    ProgAt,      \* block at which programmable early warning begins, by partition
    EarlyAt,     \* block at which early warning begins
    EndAt,       \* blocks a partition has room for
    LbpCapable   \* does the drive support logical block protection

Partitions == {0, 1}

FileMark == <<"FM", 0>>

\* A record with the four bytes of protection that were sent along with it
\* stored as if they were data.
Padded(v) == <<v, 4>>
Plain(v) == <<v, 0>>

\* The block number all drivers use to locate the end of data.
BlockMax == 99

NoPosition == [part |-> 0, blk |-> 0, ew |-> FALSE, pew |-> FALSE]

NewDrive ==
    [med |-> [p \in Partitions |-> <<>>], part |-> 0, blk |-> 0, ua |-> <<>>,
     threaded |-> FALSE, reserved |-> FALSE, locked |-> FALSE, lbp |-> FALSE, key |-> "none",
     alert |-> FALSE]

----------------------------------------------------------------------------
(* Faults *)

\* Both rewind the cartridge; a reset also clears what the initiator has
\* set up.  A power cycle reports the reset and, the cartridge having been
\* loaded again, a medium change.
Rewound(d, ua) == [d EXCEPT !.part = 0, !.blk = 0, !.ua = ua]

Restarted(d, ua) ==
    [Rewound(d, ua) EXCEPT !.reserved = FALSE, !.locked = FALSE, !.lbp = FALSE, !.key = "none"]

Strike(d, fault) ==
    CASE fault = "reset" -> Restarted(d, <<"POR">>)
      [] fault = "cycle" -> Restarted(d, <<"POR", "CHANGED">>)
      [] fault = "swap" -> Rewound(d, <<"CHANGED">>)
      [] OTHER -> d

\* Commands a drive answers without reporting a pending unit attention; they
\* do not change it.
Exempt == {"INQUIRY", "REQUEST SENSE"}

\* A command that leaves the drive in state next with the sense `outcome',
\* unless a unit attention is pending or the fault strikes it.  "NONE" is a
\* command that timed out, with nothing done ("timeout") or all of it
\* ("late"): the host has no sense data for it.
Exec(s, cmd, next, outcome) ==
    LET hit == s.fault # "none" /\ s.left = 0
        r == [s EXCEPT !.fault = IF hit THEN "none" ELSE @,
                       !.hit = IF hit THEN cmd ELSE @,
                       !.left = IF s.fault = "none" \/ hit THEN 0 ELSE @ - 1,
                       !.d = IF hit THEN Strike(@, s.fault) ELSE @]
    IN  IF r.d.ua # <<>> /\ cmd \notin Exempt
        THEN [r EXCEPT !.sense = Head(r.d.ua), !.d.ua = Tail(@)]
        ELSE IF hit /\ s.fault = "perm"
        THEN [r EXCEPT !.sense = IF cmd \in {"LOAD", "UNLOAD"} THEN "LOADFAIL" ELSE "PERM",
                       !.d.alert = TRUE]
        ELSE IF hit /\ s.fault = "timeout" THEN [r EXCEPT !.sense = "NONE"]
        ELSE [r EXCEPT !.d = IF cmd \in Exempt THEN @ ELSE next,
                       !.sense = IF hit /\ s.fault = "late" THEN "NONE" ELSE outcome]

\* A command that only asks.
Ask(s, cmd) == Exec(s, cmd, s.d, "GOOD")

\* A command to the medium needs a threaded cartridge.
OnMedium(s, cmd, next, outcome) ==
    IF s.d.threaded THEN Exec(s, cmd, next, outcome) ELSE Exec(s, cmd, s.d, "NOT_READY")

----------------------------------------------------------------------------
(* Commands *)

EndOfData(d) == Len(d.med[d.part])

\* What a write that ended at block b reports: early warning for every
\* write behind that point, programmable early warning when it is crossed.
Warning(d, b) ==
    IF b >= EarlyAt[d.part] THEN "EW"
    ELSE IF b - 1 < ProgAt[d.part] /\ b >= ProgAt[d.part] THEN "PEW" ELSE "GOOD"

\* The record goes to the current block, which becomes the last one.
Recorded(d, what) ==
    [d EXCEPT !.med[d.part] = Append(SubSeq(@, 1, d.blk), what), !.blk = @ + 1]

ScsiRecord(s, cmd, what) ==
    IF s.d.blk >= EndAt[s.d.part] THEN OnMedium(s, cmd, s.d, "FULL")
    ELSE OnMedium(s, cmd, Recorded(s.d, what), Warning(s.d, s.d.blk + 1))

\* crc: the host appended protection information to the data.
ScsiWrite(s, v, crc) ==
    IF s.d.lbp /\ ~crc THEN OnMedium(s, "WRITE", s.d, "GUARD")
    ELSE ScsiRecord(s, "WRITE", IF crc /\ ~s.d.lbp THEN Padded(v) ELSE Plain(v))

\* No file mark is a flush of the buffer: nothing is recorded.
ScsiWriteFilemark(s, count) ==
    IF count = 0 THEN OnMedium(s, "WRITE FILEMARKS", s.d, "GOOD")
    ELSE ScsiRecord(s, "WRITE FILEMARKS", FileMark)

\* The record at the current block goes to `got', with protection
\* information behind it when protection is on.
ScsiRead(s) ==
    LET d == s.d
        what == d.med[d.part][d.blk + 1]
        fits == [s EXCEPT !.got = [what |-> what, crc |-> d.lbp /\ what # FileMark]]
    IN  IF d.blk >= EndOfData(d) THEN OnMedium(s, "READ", d, "EOD")
        ELSE OnMedium(fits, "READ", [d EXCEPT !.blk = @ + 1], IF what = FileMark THEN "FM" ELSE "GOOD")

\* LOCATE stops at the end of data.
ScsiLocate(s, p, b) ==
    LET end == Len(s.d.med[p])
    IN  IF b > end THEN OnMedium(s, "LOCATE", [s.d EXCEPT !.part = p, !.blk = end], "EOD")
        ELSE OnMedium(s, "LOCATE", [s.d EXCEPT !.part = p, !.blk = b], "GOOD")

\* Blocks behind file marks from the current one on, blocks with file marks
\* in front of it.
MarksAhead(d) == {b \in d.blk + 1 .. EndOfData(d) : d.med[d.part][b] = FileMark}
MarksBehind(d) == {b \in 0 .. d.blk - 1 : d.med[d.part][b + 1] = FileMark}

\* SPACE over one file mark.
ScsiSpaceForward(s) ==
    LET d == s.d
    IN  IF MarksAhead(d) = {} THEN OnMedium(s, "SPACE", [d EXCEPT !.blk = EndOfData(d)], "EOD")
        ELSE OnMedium(s, "SPACE", [d EXCEPT !.blk = Min(MarksAhead(d))], "GOOD")

ScsiSpaceBack(s) ==
    LET d == s.d
    IN  IF MarksBehind(d) = {} THEN OnMedium(s, "SPACE", [d EXCEPT !.blk = 0], "BOP")
        ELSE OnMedium(s, "SPACE", [d EXCEPT !.blk = Max(MarksBehind(d))], "GOOD")

ScsiSpaceEod(s) == OnMedium(s, "SPACE", [s.d EXCEPT !.blk = EndOfData(s.d)], "GOOD")

ScsiRewind(s) == OnMedium(s, "REWIND", [s.d EXCEPT !.blk = 0], "GOOD")

ScsiErase(s) == OnMedium(s, "ERASE", [s.d EXCEPT !.med[s.d.part] = SubSeq(@, 1, s.d.blk)], "GOOD")

\* FORMAT MEDIUM, at the beginning of partition 0.
ScsiFormat(s) ==
    IF s.d.part # 0 \/ s.d.blk # 0 THEN OnMedium(s, "FORMAT MEDIUM", s.d, "ILLEGAL")
    ELSE OnMedium(s, "FORMAT MEDIUM", [s.d EXCEPT !.med = [p \in Partitions |-> <<>>]], "GOOD")

\* READ POSITION: the drive's position is in the answer.
ScsiReadPosition(s) == OnMedium(s, "READ POSITION", s.d, "GOOD")

ScsiLoad(s) == Exec(s, "LOAD", [s.d EXCEPT !.threaded = TRUE, !.part = 0, !.blk = 0], "GOOD")

ScsiUnload(s) ==
    IF s.d.locked THEN Exec(s, "UNLOAD", s.d, "PREVENTED")
    ELSE Exec(s, "UNLOAD", [s.d EXCEPT !.threaded = FALSE, !.part = 0, !.blk = 0], "GOOD")

ScsiTestUnitReady(s) == OnMedium(s, "TEST UNIT READY", s.d, "GOOD")

ScsiReserve(s) == Exec(s, "RESERVE", [s.d EXCEPT !.reserved = TRUE], "GOOD")
ScsiRelease(s) == Exec(s, "RELEASE", [s.d EXCEPT !.reserved = FALSE], "GOOD")

ScsiPreventAllow(s, on) == Exec(s, "PREVENT ALLOW", [s.d EXCEPT !.locked = on], "GOOD")

\* MODE SELECT of the control data protection page.
ScsiProtect(s, on) == Exec(s, "MODE SELECT", [s.d EXCEPT !.lbp = on], "GOOD")

\* SECURITY PROTOCOL OUT with a key, or "none" to clear it.
ScsiSetKey(s, key) == Exec(s, "SECURITY PROTOCOL OUT", [s.d EXCEPT !.key = key], "GOOD")

ScsiInquiry(s) == Ask(s, "INQUIRY")

----------------------------------------------------------------------------
(* Return codes *)

NeedReval == {"POR_OR_BUS_RESET", "MEDIUM_MAY_BE_CHANGED"}

Return(s, code) == [s EXCEPT !.rc = code]

\* A sequence of calls that stops at the first error.
Then(s, t) == IF s.rc = "GOOD" THEN t ELSE s
AndThen(s, Op(_)) == IF s.rc = "GOOD" THEN Op(s) ELSE s

\* The caller is told where the drive is.
Tell(s, ew, pew) == [s EXCEPT !.pos = [part |-> s.d.part, blk |-> s.d.blk, ew |-> ew, pew |-> pew]]

PastEarly(d) == d.blk >= EarlyAt[d.part]
PastProg(d) == d.blk >= ProgAt[d.part]
=============================================================================
