----------------------------- MODULE FileDrive -----------------------------
(***************************************************************************)
(* The file backend (tape_drivers/generic/file/filedebug_tc.c): a drive    *)
(* whose cartridge is a directory.  Block b of partition p is one file     *)
(* with suffix R (record), F (file mark) or E (end of data).               *)
(*                                                                         *)
(* An operation takes and returns the record                               *)
(*    s == [b |-> memory of the backend, files |-> the directory,          *)
(*          cm |-> cartridge memory, dev |-> device_data of tape.c,        *)
(*          left |-> file system calls that succeed, rc |-> return code]   *)
(* It stops at the first code that is not GOOD.  A call that finds left at *)
(* zero fails, or is the one the process does not live to make: what the   *)
(* operation did before is then all that is in the directory.              *)
(***************************************************************************)
EXTENDS Integers, FiniteSets, FiniteSetsExt, Sequences

CONSTANTS
    MaxBlk,      \* bound: highest block number a partition reaches
    Warn,        \* file_p0_warning and file_p1_warning, 0 when not given
    PWarn        \* file_p0_p_warning and file_p1_p_warning

Parts == {0, 1}

\* MISSING_EOD and TAPE_BLOCK_MAX are the largest 64-bit number.
BlockMax == 10 * MaxBlk

NoRecord == <<"none", 0>>
Empty == <<"empty", 0>>      \* a record that was opened and not written
EmptyRef == -1               \* a volume change reference likewise; 0 is none
FileMark == <<"F", 0>>
EodMark == <<"E", 0>>

\* A cartridge file: partition, block, suffix with content.
At(files, p, b) == {f \in files : f[1] = p /\ f[2] = b}

\* What is stored at a block; no block ever holds two files.
Stored(files, p, b) ==
    IF At(files, p, b) = {} THEN NoRecord ELSE (CHOOSE f \in At(files, p, b) : TRUE)[3]

\* The blocks with file marks.
MarksOf(files, p) == {f[2] : f \in {x \in files : x[1] = p /\ x[3] = FileMark}}

FilemarksBelow(files, p, b) == Cardinality({blk \in MarksOf(files, p) : blk < b})

\* calloc() in filedebug_open.
BlankBackend ==
    [ready |-> FALSE, part |-> 0, block |-> 0, fm |-> 0, eod |-> [p \in Parts |-> 0],
     last |-> [p \in Parts |-> 0], wp |-> 0, wpPrev |-> 0, reserved |-> FALSE,
     locked |-> FALSE, partitions |-> 0]

----------------------------------------------------------------------------
(* Steps of an operation *)

Fail(s, code) == IF s.rc = "GOOD" THEN [s EXCEPT !.rc = code] ELSE s

\* The step t is the next call to the file system.
SysCall(s, t, code) ==
    IF s.rc # "GOOD" THEN s
    ELSE IF s.left = 0 THEN [s EXCEPT !.rc = code]
    ELSE [t EXCEPT !.left = s.left - 1]

Remove(s, p, b) ==
    SysCall(s, [s EXCEPT !.files = @ \ At(@, p, b)], "RW_PERM")

Create(s, p, b, what) ==
    SysCall(s, [s EXCEPT !.files = (@ \ At(@, p, b)) \cup {<<p, b, what>>}], "RW_PERM")

\* A record takes open, write and close; it is whole before the last.
CreateRecord(s, p, b, what) ==
    LET t == Create(Create(s, p, b, Empty), p, b, what) IN SysCall(t, t, "RW_PERM")

\* _filedebug_write_eod: the end of data goes to the current block, then
\* what was recorded behind it is removed block by block.
WriteEod(s) ==
    LET p == s.b.part
        blk == s.b.block
        t == Create(Remove(s, p, blk), p, blk, EodMark)
        old == IF s.b.eod[p] = BlockMax THEN blk ELSE s.b.eod[p]
        k == Min({t.left, Max({old - blk, 0})})
    IN  IF t.rc # "GOOD" THEN t
        ELSE LET u == [t EXCEPT !.files = {f \in @ : f[1] # p \/ f[2] \notin blk + 1 .. blk + k},
                                !.left = @ - k]
             IN  IF blk + k < old THEN Fail(u, "RW_PERM")
                 ELSE [u EXCEPT !.b.last[p] = blk - 1, !.b.eod[p] = blk]

\* An attribute is a file too, empty from its open to its write.
filedebug_write_attribute(s, name, empty, value) ==
    LET t == SysCall(s, [s EXCEPT !.cm[name] = empty], "CM_PERM")
    IN  SysCall(t, [t EXCEPT !.cm[name] = value], "CM_PERM")

\* _set_wp: the volume change reference is bumped by the first write after
\* a load.
BumpWritePass(s) ==
    IF s.b.wpPrev # s.b.wp THEN s
    ELSE LET t == [s EXCEPT !.b.wp = @ + 1]
         IN  filedebug_write_attribute(t, "wp", EmptyRef, t.b.wp)

\* Early warnings are only ever switched on here.
SetWarnings(s, exact) ==
    LET p == s.b.part
        early == Warn[p] # 0 /\ s.b.block >= Warn[p]
        prog == PWarn[p] # 0 /\ IF exact THEN s.b.block = PWarn[p] ELSE s.b.block >= PWarn[p]
    IN  IF s.rc # "GOOD" THEN s
        ELSE [s EXCEPT !.dev.pos.ew = @ \/ early, !.dev.pos.pew = @ \/ prog]

TellBlock(s) == [s EXCEPT !.dev.pos.block = s.b.block, !.dev.pos.fm = s.b.fm]

TellPosition(s) == [TellBlock(s) EXCEPT !.dev.pos.part = s.b.part]

IfReady(s, t) == IF s.rc # "GOOD" THEN s ELSE IF s.b.ready THEN t ELSE Fail(s, "NOT_READY")

----------------------------------------------------------------------------
(* The backend's operations *)

filedebug_test_unit_ready(s) == IF s.b.ready THEN s ELSE Fail(s, "NEED_INITIALIZE")

\* The record read is returned in `got'.  A file mark is a read of no bytes,
\* and so is an empty record.
filedebug_read(s) ==
    LET p == s.b.part
        what == Stored(s.files, p, s.b.block)
        t == [s EXCEPT !.b.block = @ + 1, !.b.fm = @ + (IF what = FileMark THEN 1 ELSE 0),
                       !.dev.got = IF what = Empty THEN FileMark ELSE what]
    IN  IfReady(s,
          IF s.b.eod[p] = s.b.block THEN Fail(s, "EOD_DETECTED")
          ELSE IF what = EodMark THEN Fail(s, "EOD_NOT_FOUND")
          ELSE IF what = NoRecord THEN Fail(s, "RW_PERM")
          ELSE TellBlock(t))

\* Mutant: the caller is not told until the end of data is written.
AdvanceSilently(s) == IF s.rc # "GOOD" THEN s ELSE [s EXCEPT !.b.block = @ + 1]

\* The block number advances as soon as the record is complete, before the
\* end of data is written.
Advance(s) ==
    IF s.rc # "GOOD" THEN s
    ELSE [s EXCEPT !.b.block = @ + 1, !.dev.pos.block = s.b.block + 1]

filedebug_write(s, what) ==
    LET p == s.b.part
        t == CreateRecord(BumpWritePass(Remove(s, p, s.b.block)), p, s.b.block, what)
    IN  IfReady(s, SetWarnings(WriteEod(Advance(t)), TRUE))

AdvanceMark(s) ==
    IF s.rc # "GOOD" THEN s ELSE TellBlock([s EXCEPT !.b.block = @ + 1, !.b.fm = @ + 1])

\* count is 0 (only a flush of the buffer) or 1.
filedebug_writefm(s, count) ==
    LET p == s.b.part
        t == Remove(BumpWritePass(s), p, s.b.block)
    IN  IfReady(s,
          IF count = 0 THEN s
          ELSE SetWarnings(WriteEod(AdvanceMark(Create(t, p, s.b.block, FileMark))), FALSE))

filedebug_rewind(s) ==
    IfReady(s, [s EXCEPT !.b.block = 0, !.b.fm = 0, !.dev.pos.block = 0, !.dev.pos.fm = 0,
                         !.dev.pos.ew = FALSE, !.dev.pos.pew = FALSE])

filedebug_locate(s, p, dest) ==
    LET blk == IF s.b.eod[p] = BlockMax /\ s.b.last[p] < dest THEN s.b.last[p] + 1
               ELSE IF s.b.eod[p] < dest THEN s.b.eod[p]
               ELSE dest
        t == [s EXCEPT !.b.part = p, !.b.block = blk, !.b.fm = FilemarksBelow(s.files, p, blk)]
    IN  IfReady(s, SetWarnings(TellPosition(t), FALSE))

\* File marks of partition p from block lo up to, not including, block hi.
Marks(files, p, lo, hi) == FilemarksBelow(files, p, hi) - FilemarksBelow(files, p, lo)

\* Where _filedebug_space_fm stops going forward over count file marks, and
\* with which code.
SpaceForward(s, count) ==
    LET p == s.b.part
        ahead == {blk \in MarksOf(s.files, p) : blk >= s.b.block}
        stop == {blk \in {s.b.eod[p], s.b.last[p] + 1} : blk \in s.b.block .. MaxBlk + 2}
                \cup {blk \in ahead : Cardinality({m \in ahead : m <= blk}) = count}
        blk == Min(stop)
    IN  IF blk = s.b.eod[p] THEN <<blk, "EOD_DETECTED">>
        ELSE IF blk = s.b.last[p] + 1 THEN <<blk, "RW_PERM">>
        ELSE <<blk + 1, "GOOD">>

\* Going back, the position is in front of the file mark that was found.
SpaceBack(s, count) ==
    LET behind == {blk \in MarksOf(s.files, s.b.part) : blk < s.b.block}
        found == {blk \in behind : Cardinality({m \in behind : m >= blk}) = count}
    IN  IF found = {} THEN <<0, "BOP_DETECTED">> ELSE <<Max(found), "GOOD">>

\* filedebug_space over file marks, forward for a positive count, else
\* backward.  The new position is told even when the operation failed.
filedebug_space(s, count) ==
    LET stop == IF count > 0 THEN SpaceForward(s, count) ELSE SpaceBack(s, 0 - count)
        t == [s EXCEPT !.b.block = stop[1], !.b.fm = FilemarksBelow(s.files, s.b.part, stop[1])]
    IN  IfReady(s,
          IF count = 0 THEN SetWarnings(TellBlock(s), FALSE)
          ELSE Fail(SetWarnings(TellBlock(t), FALSE), stop[2]))

filedebug_erase(s) == IfReady(s, WriteEod(TellBlock(s)))

\* filedebug_search_eod: records up to the first E file; without one the
\* first block with neither record nor file mark is taken for the last.
SearchEod(s, p) ==
    LET full == {f[2] : f \in {x \in s.files : x[1] = p /\ x[3] # EodMark}}
        end == Min((0 .. MaxBlk + 1) \ full)
        t == [s EXCEPT !.b.part = p, !.b.block = end]
    IN  IF s.rc # "GOOD" THEN s
        ELSE IF Stored(s.files, p, end) = NoRecord /\ end # 0
        THEN [t EXCEPT !.b.last[p] = end, !.b.eod[p] = BlockMax]
        ELSE WriteEod(t)

\* _get_wp.  A cartridge without the attribute gets reference 1, but the
\* backend goes on with 0, as it does when the attribute is empty.
GetWritePass(s) ==
    LET wp == Max({s.cm.wp, 0})
        t == IF s.cm.wp = 0 THEN filedebug_write_attribute(s, "wp", EmptyRef, 1) ELSE s
    IN  IF s.rc # "GOOD" THEN s
        ELSE IF t.rc # "GOOD" THEN [t EXCEPT !.rc = "INTERNAL_ERROR"]
        ELSE [t EXCEPT !.b.wp = wp, !.b.wpPrev = wp]

filedebug_load(s) ==
    LET t == SearchEod(SearchEod([s EXCEPT !.b.ready = TRUE], 0), 1)
        u == [t EXCEPT !.b.part = 0, !.b.block = 0, !.b.fm = 0, !.b.partitions = 2]
    IN  IF s.rc # "GOOD" \/ s.b.ready THEN s
        ELSE IF ~s.cm.present THEN Fail(s, "NO_MEDIUM")
        ELSE IF t.rc # "GOOD" THEN [t EXCEPT !.rc = "INTERNAL_ERROR"]
        ELSE GetWritePass(TellPosition(u))

filedebug_unload(s) ==
    TellPosition([s EXCEPT !.b.ready = FALSE, !.b.part = 0, !.b.block = 0, !.b.fm = 0])

filedebug_readpos(s) == IfReady(s, TellPosition(s))

\* Partition 1 first, and the errors of the two erasures are ignored.
EraseBoth(s) ==
    LET GoOn(t) == [t EXCEPT !.rc = "GOOD", !.dev.pos = s.dev.pos]
        t == GoOn(filedebug_erase([s EXCEPT !.b.part = 1, !.b.block = 0]))
    IN  GoOn(filedebug_erase([t EXCEPT !.b.part = 0, !.b.block = 0]))

filedebug_format(s, partitions) ==
    IF s.b.part # 0 \/ s.b.block # 0 THEN Fail(s, "ILLEGAL_REQUEST")
    ELSE IF s.rc # "GOOD" THEN s
    ELSE EraseBoth([s EXCEPT !.b.partitions = partitions])

filedebug_setcap(s) == filedebug_format(s, 1)

filedebug_reserve_unit(s) ==
    IF s.b.reserved THEN Fail(s, "ILLEGAL_REQUEST") ELSE [s EXCEPT !.b.reserved = TRUE]

filedebug_release_unit(s) == [s EXCEPT !.b.reserved = FALSE]

filedebug_prevent_medium_removal(s) == IfReady(s, [s EXCEPT !.b.locked = TRUE])

filedebug_allow_medium_removal(s) == IfReady(s, [s EXCEPT !.b.locked = FALSE])

\* Room left in the two partitions, in megabytes.
filedebug_remaining_capacity(s) ==
    [p \in Parts |-> IF p = 0 \/ s.b.partitions = 2 THEN 6 * 1024 ELSE 0]

filedebug_get_eod_status(s, p) == IF s.b.eod[p] = BlockMax THEN "EOD_MISSING" ELSE "EOD_GOOD"
=============================================================================
