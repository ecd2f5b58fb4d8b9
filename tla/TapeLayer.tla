----------------------------- MODULE TapeLayer -----------------------------
(***************************************************************************)
(* The tape layer (libltfs/tape.c) over the file backend.  The record dev  *)
(* of an operation's state is struct device_data: the position the layer   *)
(* believes the drive to be at, the append positions, the space state of   *)
(* the partitions and the flags of the session with the drive.             *)
(*                                                                         *)
(* The loops on NEED_REVAL run once: the file backend reports no unit      *)
(* attention.  No key manager is configured.                               *)
(***************************************************************************)
EXTENDS FileDrive

\* pews of tape_load_tape: the backend's mode page is all zero.
EarlyWarningSize == 10

AllParts(v) == [p \in Parts |-> v]

\* calloc() in tape_device_alloc.
BlankDevice ==
    [open |-> FALSE,
     pos |-> [part |-> 0, block |-> 0, fm |-> 0, ew |-> FALSE, pew |-> FALSE],
     append |-> AllParts(0), space |-> AllParts("WRITABLE"), wprot |-> FALSE,
     werr |-> FALSE, reserved |-> FALSE, locked |-> FALSE, aom |-> FALSE, got |-> NoRecord]

\* The result of an operation whose error code is not used.
Regardless(s, t) == IF s.rc # "GOOD" THEN s ELSE [t EXCEPT !.rc = "GOOD"]

Rename(s, from, to) == IF s.rc = from THEN [s EXCEPT !.rc = to] ELSE s

----------------------------------------------------------------------------
(* Reservation and medium lock *)

tape_reserve_device(s) ==
    IF s.rc # "GOOD" \/ s.dev.reserved THEN s
    ELSE LET t == filedebug_reserve_unit(s)
         IN  IF t.rc = "GOOD" THEN [t EXCEPT !.dev.reserved = TRUE] ELSE t

tape_release_device(s) ==
    IF s.rc # "GOOD" \/ ~s.dev.reserved THEN s
    ELSE [filedebug_release_unit(s) EXCEPT !.dev.reserved = FALSE]

tape_prevent_medium_removal(s) ==
    IF s.rc # "GOOD" \/ s.dev.locked THEN s
    ELSE LET t == filedebug_prevent_medium_removal(s)
         IN  IF t.rc = "GOOD" THEN [t EXCEPT !.dev.locked = TRUE] ELSE t

\* A release that fails marks the medium as locked, also when it was not.
tape_allow_medium_removal(s, force) ==
    LET t == filedebug_allow_medium_removal(s)
    IN  IF s.rc # "GOOD" \/ ~(s.dev.locked \/ force) THEN s
        ELSE Regardless(s, [t EXCEPT !.dev.locked = (t.rc # "GOOD")])

----------------------------------------------------------------------------
(* Early warning attribute, capacity, space *)

\* TC_MAM_PAGE_EWSTATE of the cartridge memory.
tape_get_ewstate(s) == s.cm.ew

tape_set_ewstate(s, v) == Regardless(s, filedebug_write_attribute(s, "ew", "NONE", v))

\* The space state of a partition after the drive has moved.
NoteWarnings(s) ==
    LET p == s.dev.pos.part
    IN  IF s.rc # "GOOD" THEN s
        ELSE [s EXCEPT !.dev.space[p] =
                IF s.dev.pos.ew THEN "NO_SPACE"
                ELSE IF @ # "NO_SPACE" /\ s.dev.pos.pew THEN "LESS_SPACE" ELSE @]

\* A full partition needs a partitioned cartridge.
SpaceAtLoad(cap, p) ==
    IF cap[0] # 0 /\ cap[1] # 0 /\ cap[p] = 0 THEN "NO_SPACE"
    ELSE IF cap[p] <= EarlyWarningSize THEN "LESS_SPACE"
    ELSE "WRITABLE"

tape_read_only(s, p) ==
    IF s.dev.wprot THEN "WRITE_PROTECT"
    ELSE IF s.dev.werr THEN "WRITE_ERROR"
    ELSE IF s.dev.space[p] = "WRITABLE" THEN "GOOD" ELSE s.dev.space[p]

----------------------------------------------------------------------------
(* Session *)

\* _tape_test_unit_ready reports NEED_INITIALIZE on an unloaded drive.
tape_is_cartridge_loadable(s) ==
    IF s.rc # "GOOD" THEN s
    ELSE Rename(filedebug_test_unit_ready(s), "NEED_INITIALIZE", "GOOD")

tape_wait_device_ready(s) ==
    LET t == filedebug_test_unit_ready(s)
    IN  IF s.rc # "GOOD" THEN s ELSE IF t.rc = "GOOD" THEN t ELSE Fail(s, "DEVICE_UNREADY")

\* The last part of tape_load_tape: flags from the drive's parameters.
SetupFlags(s) ==
    LET cap == filedebug_remaining_capacity(s)
        t == [s EXCEPT !.dev.wprot = FALSE, !.dev.werr = FALSE,
                       !.dev.space = [p \in Parts |-> SpaceAtLoad(cap, p)]]
    IN  IF s.rc # "GOOD" THEN s
        ELSE IF tape_get_ewstate(s) = "SET" THEN [t EXCEPT !.dev.space[1] = "NO_SPACE"]
        ELSE t

tape_load_tape(s) ==
    LET t == filedebug_load(tape_is_cartridge_loadable(s))
        u == [t EXCEPT !.dev.append = AllParts(0)]
    IN  IF t.rc # "GOOD" THEN t
        ELSE SetupFlags(filedebug_readpos(tape_prevent_medium_removal(tape_wait_device_ready(u))))

tape_rewind(s) == filedebug_rewind(s)

\* The drive's mode page of the file backend never has the append only bit.
tape_enable_append_only_mode(s, enable) ==
    LET loaded == filedebug_test_unit_ready(s).rc = "GOOD"
        t == IF loaded /\ enable THEN filedebug_load(s) ELSE s
    IN  IF t.rc # "GOOD" THEN t ELSE [t EXCEPT !.dev.aom = enable]

tape_unload_tape(s) ==
    LET t == tape_allow_medium_removal(s, FALSE)
        u == filedebug_unload(Regardless(t, tape_rewind(t)))
    IN  IF s.rc # "GOOD" THEN s ELSE tape_enable_append_only_mode(u, FALSE)

tape_device_open(s) ==
    LET t == tape_reserve_device([s EXCEPT !.b = BlankBackend, !.dev.open = TRUE])
    IN  IF s.rc # "GOOD" THEN s
        ELSE IF t.rc # "GOOD" THEN [t EXCEPT !.dev.open = FALSE]
        ELSE tape_allow_medium_removal(t, TRUE)

tape_device_close(s, force) ==
    LET t == tape_allow_medium_removal(s, force)
        u == tape_release_device(Regardless(t, tape_enable_append_only_mode(t, FALSE)))
    IN  [u EXCEPT !.dev.open = FALSE, !.b = BlankBackend]

----------------------------------------------------------------------------
(* Positioning *)

\* A seek to where the layer believes the drive to be is not sent to it.
tape_seek(s, p, blk) ==
    LET t == IF s.dev.pos.part = p /\ s.dev.pos.block = blk THEN s
             ELSE NoteWarnings(filedebug_locate(s, p, blk))
    IN  IF s.rc # "GOOD" \/ t.rc # "GOOD" THEN t
        ELSE IF t.dev.pos.part # p \/ (blk # BlockMax /\ t.dev.pos.block # blk)
        THEN Fail(t, "BAD_LOCATE") ELSE t

tape_seek_eod(s, p) ==
    LET t == NoteWarnings(filedebug_locate(s, p, BlockMax))
    IN  IF s.rc # "GOOD" \/ t.rc # "GOOD" THEN t
        ELSE [t EXCEPT !.dev.append[p] = t.dev.pos.block]

tape_spacefm(s, count) == IF s.rc # "GOOD" THEN s ELSE filedebug_space(s, count)

tape_set_append_position(s, p, blk) ==
    IF s.rc # "GOOD" THEN s ELSE [s EXCEPT !.dev.append[p] = blk]

\* Append position 0 stands for the end of data.
tape_seek_append_position(s, p) ==
    LET old == s.dev.append[p]
        t == tape_seek(s, p, IF old = 0 THEN BlockMax ELSE old)
    IN  IF t.rc # "GOOD" \/ old # 0 THEN t ELSE [t EXCEPT !.dev.append[p] = t.dev.pos.block]

tape_locate_next_index(s) == tape_spacefm(s, 1)

tape_locate_previous_index(s) == tape_spacefm(tape_spacefm(s, 0 - 4), 1)

tape_locate_first_index(s, p) == tape_spacefm(tape_seek(s, p, 4), 1)

tape_locate_last_index(s, p) == tape_spacefm(tape_spacefm(tape_seek_eod(s, p), 0 - 2), 1)

----------------------------------------------------------------------------
(* Reading and writing *)

tape_read(s) == IF s.rc # "GOOD" THEN s ELSE filedebug_read(s)

\* What keeps a write from the drive.
WriteRefused(s, ignoreLess, ignoreNospc) ==
    LET state == tape_read_only(s, s.dev.pos.part)
    IN  IF state = "NO_SPACE" /\ ignoreNospc THEN "GOOD"
        ELSE IF state = "LESS_SPACE" /\ ignoreLess THEN "GOOD"
        ELSE state

\* Mutant: the append position stays.
AppendKept(s) == s

AppendHere(s) == [s EXCEPT !.dev.append[s.dev.pos.part] = s.dev.pos.block]

\* Every failure of the backend ends writing for the session: none of them
\* asks for a revalidation.  A warning is an error only to a caller that
\* does not ignore it, and the append position moves in either case.
AfterWrite(s, t, ignoreLess, ignoreNospc, save) ==
    LET p == t.dev.pos.part
        u == AppendHere(t)
        full == [u EXCEPT !.dev.space[p] = "NO_SPACE"]
        warned == IF save THEN tape_set_ewstate(full, "SET") ELSE full
        less == [u EXCEPT !.dev.space[p] = "LESS_SPACE"]
    IN  IF t.rc # "GOOD" THEN [t EXCEPT !.dev.werr = TRUE]
        ELSE IF t.dev.pos.ew THEN IF ignoreNospc THEN warned ELSE Fail(warned, "NO_SPACE")
        ELSE IF t.dev.pos.pew THEN IF ignoreLess THEN less ELSE Fail(less, "LESS_SPACE")
        ELSE u

tape_write(s, what, ignoreLess, ignoreNospc) ==
    LET no == WriteRefused(s, ignoreLess, ignoreNospc)
    IN  IF s.rc # "GOOD" THEN s
        ELSE IF no # "GOOD" THEN Fail(s, no)
        ELSE AfterWrite(s, filedebug_write(s, what), ignoreLess, ignoreNospc, TRUE)

tape_write_filemark(s, count, ignoreLess, ignoreNospc) ==
    LET no == WriteRefused(s, ignoreLess, ignoreNospc)
    IN  IF s.rc # "GOOD" THEN s
        ELSE IF no # "GOOD" THEN Fail(s, no)
        ELSE AfterWrite(s, filedebug_writefm(s, count), ignoreLess, ignoreNospc, FALSE)

tape_erase(s) == IF s.rc # "GOOD" THEN s ELSE filedebug_erase(s)

----------------------------------------------------------------------------
(* Formatting and recovery *)

\* The flags of the session survive a format; the positions do too.
tape_format(s) ==
    LET t == filedebug_format(filedebug_load(s), 2)
    IN  IF s.rc # "GOOD" \/ t.rc # "GOOD" THEN t
        ELSE [tape_set_ewstate(t, "CLEAR") EXCEPT !.dev.space = AllParts("WRITABLE")]

tape_reset_capacity(s) == filedebug_setcap(filedebug_locate(s, 0, 0))

\* tape_remove_ewstate writes an attribute of length zero.
tape_unformat(s) ==
    LET t == filedebug_format(filedebug_load(s), 1)
    IN  IF s.rc # "GOOD" \/ t.rc # "GOOD" THEN t
        ELSE [Regardless(t, filedebug_write_attribute(t, "ew", "NONE", "NONE"))
                EXCEPT !.dev.space = AllParts("WRITABLE")]

\* TC_MAM_PAGE_COHERENCY: generation and block of the last index, version,
\* the volume, and the volume change reference at which it was written.
NoCoherency == [gen |-> 0, block |-> 0, ver |-> 0, uuid |-> 0, wp |-> 0]

\* An attribute that is not there, or is empty, is an error to its reader.
tape_get_cart_coherency(s, p) == s.cm.coh[p]

tape_set_cart_coherency(s, p, coh) ==
    filedebug_write_attribute(s, "coh", [s.cm.coh EXCEPT ![p] = NoCoherency],
                                        [s.cm.coh EXCEPT ![p] = coh])

tape_check_eod_status(s, p) == filedebug_get_eod_status(s, p)

\* Reads on to the first block that cannot be read.
FirstUnreadable(s) ==
    Min({blk \in s.b.block .. MaxBlk + 2 :
            \/ blk = s.b.eod[s.b.part]
            \/ Stored(s.files, s.b.part, blk) \in {NoRecord, EodMark}})

ReadOn(s) ==
    LET stop == FirstUnreadable(s)
    IN  IF s.rc # "GOOD" THEN s
        ELSE TellBlock([s EXCEPT !.b.block = stop,
                                 !.b.fm = @ + Marks(s.files, s.b.part, s.b.block, stop)])

\* The build of configure.ac (GENERIC_OEM_BUILD) backs off by one block and
\* does not unload.
tape_recover_eod_status(s) ==
    LET t == ReadOn(s)
    IN  IF s.rc # "GOOD" THEN s
        ELSE tape_erase(tape_seek(tape_load_tape(t), t.b.part, t.b.block - 1))
=============================================================================
