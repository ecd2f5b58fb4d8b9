----------------------------- MODULE LtfsVolume -----------------------------
(***************************************************************************)
(* What libltfs and the commands do to a volume on the file backend, block *)
(* by block: indexes read, written, looked for and walked over, labels,    *)
(* mounts, and mkltfs, unltfs and ltfsck.  Each operation takes the state  *)
(* described in FileDrive, with struct ltfs_volume in v, to the state it   *)
(* leaves.                                                                 *)
(*                                                                         *)
(* Partition 0 is the index partition and holds indexes only, partition 1  *)
(* is the data partition.  An index is one record that names its           *)
(* generation, its own block, its back pointer and the data blocks it      *)
(* refers to.  How a mount chooses between indexes of different age is the *)
(* subject of IndexCommit; here an inconsistent volume is refused by a     *)
(* mount and rewritten by ltfsck.                                          *)
(***************************************************************************)
EXTENDS TapeLayer

IP == 0
DP == 1

NoIndex == [uuid |-> 0, gen |-> 0, part |-> DP, self |-> 0, back |-> 0, refs |-> {}]

\* ltfs_volume_alloc: no index, nothing known of the partitions' ends.  old
\* is rollback_mount, ro the option FUSE is started with.
BlankVolume ==
    [mounted |-> FALSE, uuid |-> 0, old |-> FALSE, ro |-> FALSE,
     idx |-> NoIndex, dirty |-> FALSE, ipEnd |-> FALSE, dpEnd |-> FALSE,
     coh |-> AllParts([gen |-> 0, block |-> 0])]

\* The records of a label: VOL1, and the document that names the volume.
AnsiLabel == <<"V", 0>>
Label(uuid) == <<"L", uuid>>

\* A cartridge that was never formatted.
BlankCartridge ==
    [files |-> {}, cm |-> [present |-> TRUE, wp |-> 0, ew |-> "NONE", coh |-> AllParts(NoCoherency)]]

Good(s) == s.rc = "GOOD"

----------------------------------------------------------------------------
(* Reading indexes *)

\* Where the document is an index that names this place, the reader also
\* takes the record behind it, and backs up when that is a file mark.  With
\* eod = 0 the end of data behind the index makes it unreadable.
ltfs_read_index(s, eod) ==
    LET blk == s.dev.pos.block
        t == tape_read(s)
        isIndex == Good(t) /\ t.dev.got[1] = "I"
        i == t.dev.got[2]
        u == tape_read(t)
        last == eod > 0 /\ blk + 1 = eod
        valid == /\ i.uuid = t.v.uuid
                 /\ i.part = t.dev.pos.part
                 /\ i.self = blk
                 /\ i.part = IP \/ i.self = 5 \/ i.back = i.self \/ i.back < i.self - 2
        bad == [t EXCEPT !.rc = "INDEX_INVALID"]
    IN  IF ~Good(s) THEN s
        ELSE IF Good(t) /\ t.dev.got = FileMark
        THEN [tape_spacefm(t, 0 - 1) EXCEPT !.rc = "INDEX_INVALID"]
        ELSE IF ~isIndex \/ ~valid THEN bad
        ELSE IF last THEN [t EXCEPT !.idx = i, !.endfm = FALSE]
        ELSE IF ~Good(u) THEN [u EXCEPT !.rc = "INDEX_INVALID"]
        ELSE IF u.dev.got = FileMark
        THEN [tape_spacefm(tape_spacefm(u, 0 - 1), 1) EXCEPT !.idx = i, !.endfm = TRUE]
        ELSE [u EXCEPT !.idx = i, !.endfm = FALSE]

\* The loop of ltfs_seek_index: in front of a file mark, try the record
\* behind it, go back two file marks when it is not an index.
RECURSIVE SeekIndexFrom(_, _)
SeekIndexFrom(s, eod) ==
    LET r == ltfs_read_index(tape_spacefm(s, 1), eod)
    IN  IF ~Good(s) \/ s.dev.pos.block = 3 THEN s
        ELSE IF Good(r)
        THEN [r EXCEPT !.v.coh[r.idx.part] = [gen |-> r.idx.gen, block |-> r.idx.self]]
        ELSE IF r.rc # "INDEX_INVALID" THEN r
        ELSE SeekIndexFrom(tape_spacefm([r EXCEPT !.rc = "GOOD"], 0 - 2), eod)

\* Finds the last index of a partition; s.idx stays NoIndex without one.
ltfs_seek_index(s, p) ==
    LET e == tape_seek_eod([s EXCEPT !.idx = NoIndex], p)
        eod == e.dev.pos.block
        t == tape_spacefm(e, 0 - 1)
        u == IF t.dev.pos.block = eod - 1 /\ eod - 1 # 3 THEN tape_spacefm(t, 0 - 1) ELSE t
    IN  IF ~Good(e) \/ eod <= 4 THEN e
        ELSE IF ~Good(u) \/ u.dev.pos.block = 3 THEN u
        ELSE SeekIndexFrom(u, eod)

BlocksAfter(s, p) == s.dev.pos.block # s.b.eod[p]

----------------------------------------------------------------------------
(* Walks over the generations *)

\* search_index_by_gen and print_a_index_noheader.  Generation 0 visits all.
Visit(s, g) == IF g = 0 \/ s.idx.gen = g THEN [s EXCEPT !.found = @ \cup {[gen |-> s.idx.gen, refs |-> s.idx.refs]}] ELSE s

\* The search function ends the walk when it meets its generation.
EndWalk(s, g) == IF g = 0 \/ s.idx.gen = g THEN s ELSE Fail(s, "NO_INDEX")

RECURSIVE BackwardFrom(_, _)
BackwardFrom(s, g) ==
    LET r == ltfs_read_index(s, 0)
        v == Visit(r, g)
    IN  IF ~Good(s) THEN s
        ELSE IF s.dev.pos.block <= 4 THEN EndWalk(s, g)
        ELSE IF ~Good(r) THEN r
        ELSE IF g # 0 /\ v.idx.gen <= g THEN EndWalk(v, g)
        ELSE BackwardFrom(tape_locate_previous_index(v), g)

ltfs_traverse_index_backward(s, p, g) == BackwardFrom(tape_locate_last_index(s, p), g)

RECURSIVE ForwardFrom(_, _, _)
ForwardFrom(s, g, last) ==
    LET r == ltfs_read_index(s, 0)
        v == Visit(r, g)
    IN  IF ~Good(s) THEN s
        ELSE IF s.dev.pos.block > last THEN EndWalk(s, g)
        ELSE IF ~Good(r) THEN r
        ELSE IF g # 0 /\ v.idx.gen >= g THEN EndWalk(v, g)
        ELSE ForwardFrom(IF last > v.dev.pos.block THEN tape_locate_next_index(v) ELSE v, g, last)

ltfs_traverse_index_forward(s, p, g) ==
    LET t == tape_locate_last_index(s, p)
    IN  ForwardFrom(tape_locate_first_index(t, p), g, t.dev.pos.block)

\* Without an end of data: on to the first index that cannot be found.
RECURSIVE NoEodFrom(_, _)
NoEodFrom(s, g) ==
    LET r == ltfs_read_index(s, 0)
        v == Visit(r, g)
        next == tape_locate_next_index(v)
    IN  IF ~Good(s) THEN s
        ELSE IF ~Good(r) THEN r
        ELSE IF g # 0 /\ v.idx.gen >= g THEN EndWalk(v, g)
        ELSE IF ~Good(next) THEN EndWalk([next EXCEPT !.rc = "GOOD"], g)
        ELSE NoEodFrom(next, g)

ltfs_traverse_index_no_eod(s, p, g) == NoEodFrom(tape_locate_first_index(s, p), g)

----------------------------------------------------------------------------
(* Writing *)

\* ltfs_update_cart_coherency; its errors are ignored.  The partition of
\* the index in memory gets its place, the other one only a new reference.
CohOf(s, p) ==
    IF s.v.idx.part = p THEN [gen |-> s.v.idx.gen, block |-> s.v.idx.self] ELSE s.v.coh[p]

StoreCoh(s, p) ==
    LET c == CohOf(s, p)
        t == [s EXCEPT !.v.coh[p] = c]
    IN  Regardless(s, tape_set_cart_coherency(t, p,
                        [gen |-> c.gen, block |-> c.block, ver |-> 1, uuid |-> s.v.uuid, wp |-> s.cm.wp]))

ltfs_update_cart_coherency(s) ==
    LET t == IF s.v.ipEnd THEN StoreCoh(s, IP) ELSE s
    IN  IF ~Good(s) \/ s.cm.wp = 0 THEN s
        ELSE IF s.v.dpEnd THEN StoreCoh(t, DP) ELSE t

\* Mutant: on either partition.
OverwriteNext(s, p) == tape_set_append_position(s, p, s.v.idx.self - 1)

\* The next index of the index partition replaces this one.
ReplaceNext(s, p) == IF p = IP THEN tape_set_append_position(s, p, s.v.idx.self - 1) ELSE s

\* One index with its file marks.  An error leaves the index in memory as
\* it was, whatever is on the tape by then.
OneIndex(s, p) ==
    LET old == s.v.idx
        a == tape_seek_append_position(s, p)
        blk == a.dev.pos.block + 1
        new == [uuid |-> s.v.uuid, gen |-> old.gen + (IF s.v.dirty THEN 1 ELSE 0), part |-> p, self |-> blk,
                back |-> IF old.part = DP THEN old.self ELSE old.back, refs |-> old.refs]
        f == IF p = IP /\ ~s.v.ipEnd THEN tape_write_filemark(a, 0, TRUE, TRUE) ELSE a
        w == tape_write(tape_write_filemark(f, 1, TRUE, TRUE), <<"I", new>>, TRUE, TRUE)
        e == tape_write_filemark(tape_write_filemark(w, 1, TRUE, TRUE), 0, TRUE, TRUE)
        d == [e EXCEPT !.v.idx = new, !.v.dirty = FALSE,
                       !.v.ipEnd = @ \/ p = IP, !.v.dpEnd = @ \/ p = DP]
    IN  IF ~Good(s) THEN s
        ELSE IF ~Good(e) THEN e
        ELSE ReplaceNext(ltfs_update_cart_coherency(d), p)

\* An index goes to the data partition first, unless that ends in one which
\* the index in memory follows.
ltfs_write_index(s, p) ==
    LET first == /\ p = IP
                 /\ \/ ~s.v.dpEnd
                    \/ s.v.ipEnd /\ s.v.idx.part = IP
        t == OneIndex(s, DP)
        readonly == \E q \in Parts : tape_read_only(s, q) \in {"WRITE_PROTECT", "WRITE_ERROR"}
    IN  IF ~Good(s) THEN s
        ELSE IF readonly THEN Fail(s, "WRITE_ERROR")
        ELSE OneIndex(IF first THEN Regardless(s, t) ELSE s, p)

\* Data record n at the end of the data partition; the volume is dirty.
ltfs_fsraw_write(s, n) ==
    LET w == tape_write(tape_seek_append_position(s, DP), <<"U", n>>, FALSE, TRUE)
        at == w.dev.pos.block - 1
    IN  IF ~Good(w) THEN w
        ELSE [w EXCEPT !.v.idx.refs = @ \cup {<<at, n>>}, !.v.dirty = TRUE, !.v.dpEnd = FALSE]

\* A failed second write is returned as -nw, a positive number, which
\* the caller takes for success.
ltfs_write_label(s, p) ==
    LET t == tape_write_filemark(tape_write(tape_seek(s, p, 0), AnsiLabel, TRUE, FALSE), 1, TRUE, FALSE)
        u == tape_write(t, Label(s.v.uuid), TRUE, FALSE)
    IN  IF Good(t) /\ ~Good(u) THEN Regardless(t, u)
        ELSE tape_write_filemark(u, 1, TRUE, FALSE)

\* ltfs_gen_uuid: a volume no label and no coherency data knows.
FreshUuid(s) ==
    1 + Max({f[3][2] : f \in {x \in s.files : x[3][1] = "L"}} \cup {s.cm.coh[p].uuid : p \in Parts})

\* mkltfs: a new volume of generation 1, at full capacity if asked for.
ltfs_format_tape(s, reset) ==
    LET t == tape_format(IF reset THEN tape_reset_capacity(s) ELSE s)
        n == [t EXCEPT !.v = [BlankVolume EXCEPT !.dirty = TRUE, !.uuid = FreshUuid(s)]]
        d == ltfs_write_index(ltfs_write_label(n, DP), DP)
    IN  IF \E p \in Parts : tape_read_only(s, p) \in {"WRITE_PROTECT", "WRITE_ERROR"}
        THEN Fail(s, "WRITE_PROTECT")
        ELSE IF ~Good(t) THEN t ELSE ltfs_write_index(ltfs_write_label(d, IP), IP)

----------------------------------------------------------------------------
(* Mounting *)

ReadsAs(s, tag) ==
    LET t == tape_read(s)
    IN  IF ~Good(s) THEN s
        ELSE IF ~Good(t) THEN Rename(t, "EOD_DETECTED", "LABEL_INVALID")
        ELSE IF t.dev.got[1] # tag THEN Fail(t, "LABEL_INVALID") ELSE t

\* A label with its file marks, and the volume it names.
ltfs_read_one_label(s, p) ==
    LET t == ReadsAs(ReadsAs(ReadsAs(tape_seek(s, p, 0), "V"), "F"), "L")
    IN  <<ReadsAs(t, "F"), t.dev.got[2]>>

ltfs_read_labels(s) ==
    LET l0 == ltfs_read_one_label(s, 0)
        l1 == ltfs_read_one_label(l0[1], 1)
    IN  IF ~Good(l1[1]) THEN l1[1]
        ELSE IF l0[2] # l1[2] THEN Fail(l1[1], "LABEL_MISMATCH")
        ELSE [l1[1] EXCEPT !.v.uuid = l0[2]]

ltfs_start_mount(s) ==
    LET t == tape_load_tape(s)
        cap == filedebug_remaining_capacity(t)
    IN  IF ~Good(t) THEN t
        ELSE IF \E p \in Parts : cap[p] = 0 THEN Fail(t, "NOT_PARTITIONED")
        ELSE ltfs_read_labels(t)

LostEods(s) == {p \in Parts : tape_check_eod_status(s, p) = "EOD_MISSING"}

ltfs_check_eod_status(s) ==
    IF ~Good(s) \/ LostEods(s) = {} THEN s
    ELSE Fail(s, IF LostEods(s) = Parts THEN "BOTH_EOD_MISSING" ELSE "EOD_MISSING")


\* Which of the two indexes is newer.  Otherwise one step back from the
\* index of the data partition has to be readable.
_ltfs_check_pointers(s, i, d) ==
    LET r == ltfs_read_index(tape_seek(s, DP, d.back), 0)
        s1 == IF d.back > i.back THEN r ELSE s
    IN  IF i = NoIndex THEN <<s, "dp">>
        ELSE IF d = NoIndex
        THEN IF i.back # 0 THEN <<Fail(s, "INDEX_INVALID"), "ip">> ELSE <<s, "ip">>
        ELSE IF i.gen >= d.gen /\ i.back = d.self THEN <<s, "ip">>
        ELSE IF i.gen > d.gen THEN <<Fail(s, "INDEX_INVALID"), "ip">>
        ELSE IF i.gen = d.gen /\ i.back = 0 THEN <<s, "dp">>
        ELSE IF d.back > i.back /\ Good(r) /\ i.back = 0 /\ r.idx.gen < i.gen
        THEN <<Fail(r, "INDEX_INVALID"), "dp">>
        ELSE <<s1, "dp">>

\* The block behind the last one an index refers to.
LastRef(idx) == Max({0} \cup {r[1] + 1 : r \in idx.refs})

\* An index that ends the partition without a file mark gets one.
FillMark(s, p, x) ==
    IF x.idx # NoIndex /\ ~x.endfm /\ ~BlocksAfter(x, p)
    THEN tape_write_filemark(tape_seek_eod(s, p), 1, TRUE, TRUE) ELSE s

\* Blocks behind the last index, or behind the labels without one.
Extra(x, p) == IF x.idx = NoIndex THEN x.b.eod[p] # 4 ELSE BlocksAfter(x, p)

\* Where an erasing recovery continues on a partition with extra blocks.
EraseFrom(s, x, p, last) ==
    LET stop == x.dev.pos.block
        keep == IF p = IP THEN x.idx.self - 1 ELSE stop
    IN  IF ~Extra(x, p) \/ (x.idx # NoIndex /\ last >= x.b.eod[p]) THEN s
        ELSE tape_set_append_position(s, p,
                IF x.idx = NoIndex THEN 4 ELSE IF last >= stop THEN last ELSE keep)

\* The last part of ltfs_check_medium: a volume that is not consistent
\* gets new indexes.  The error of the first one is overwritten.
RewriteIndexes(s, dpFirst) ==
    LET at == s.dev.append[DP]
        d == IF dpFirst THEN Regardless(s, ltfs_write_index(s, DP)) ELSE s
    IN  IF ~s.v.dirty THEN ltfs_update_cart_coherency(s)
        ELSE IF at # 0 /\ LastRef(s.v.idx) > at THEN Fail(s, "INDEX_INVALID")
        ELSE ltfs_write_index(d, IP)

\* With fix, and without recovery of the extra blocks.
ltfs_check_medium(s, deep) ==
    LET i == ltfs_seek_index(s, IP)
        d == ltfs_seek_index(i, DP)
        f == FillMark(FillMark(d, DP, d), IP, i)
        extra == Extra(i, IP) \/ Extra(d, DP)
        checked == _ltfs_check_pointers(f, i.idx, d.idx)
        c == checked[1]
        one == i.idx = NoIndex \/ d.idx = NoIndex
        chosen == IF d.idx = NoIndex \/ (~one /\ checked[2] = "ip") THEN i.idx ELSE d.idx
        sound == \A r \in chosen.refs : r[1] >= 4 /\ r[1] + 1 < c.b.eod[DP]
        v == [c.v EXCEPT !.idx = chosen, !.dirty = one \/ checked[2] = "dp" \/ extra,
                         !.ipEnd = @ \/ ~(i.idx = NoIndex \/ BlocksAfter(i, IP)),
                         !.dpEnd = @ \/ ~(d.idx = NoIndex \/ BlocksAfter(d, DP))]
        a == IF i.idx # NoIndex /\ ~BlocksAfter(i, IP)
             THEN tape_set_append_position([c EXCEPT !.v = v], IP, i.idx.self - 1)
             ELSE [c EXCEPT !.v = v]
        e == EraseFrom(EraseFrom(a, i, IP, 0), d, DP, LastRef(chosen))
    IN  IF ~Good(i) THEN i
        ELSE IF ~Good(d) THEN d
        ELSE IF i.idx = NoIndex /\ d.idx = NoIndex THEN Fail(d, "NO_INDEX")
        ELSE IF ~Good(f) THEN f
        ELSE IF ~deep /\ extra THEN Fail(f, "INCONSISTENT")
        ELSE IF ~Good(c) THEN c
        ELSE IF one /\ ~sound THEN Fail(c, "INDEX_INVALID")
        ELSE RewriteIndexes(e, d.idx = NoIndex \/ BlocksAfter(d, DP))

\* Both partitions were written last when their coherency data was: the
\* index is read from where the cartridge memory says it is.
QuickMount(s, deep) ==
    LET p == IF s.v.coh[IP].gen < s.v.coh[DP].gen THEN DP ELSE IP
        at == tape_seek(s, p, s.v.coh[p].block)
        r == ltfs_read_index(at, 0)
        v == [r EXCEPT !.v.idx = r.idx, !.v.dirty = FALSE]
    IN  IF at.rc = "EOD_DETECTED" THEN ltfs_check_medium([at EXCEPT !.rc = "GOOD"], deep)
        ELSE IF ~Good(r) THEN r
        ELSE IF p = DP THEN ltfs_write_index(v, IP) ELSE v

\* An older generation: looked for on either partition, whatever became of
\* the first search, and read only for the rest of the session.
OldGeneration(s, gen) ==
    LET i == ltfs_traverse_index_backward(s, IP, gen)
        d == IF Good(i) THEN i ELSE ltfs_traverse_index_backward([i EXCEPT !.rc = "GOOD"], DP, gen)
    IN  IF ~Good(d) THEN d
        ELSE [d EXCEPT !.v.idx = d.idx, !.v.dirty = FALSE, !.v.old = TRUE, !.v.mounted = TRUE,
                       !.dev.wprot = TRUE]

\* What the cartridge memory says of this volume.
OwnCoherency(s, p) == IF s.cm.coh[p].uuid = s.v.uuid THEN s.cm.coh[p] ELSE NoCoherency

ltfs_mount(s, full, deep, gen) ==
    LET t == ltfs_check_eod_status(ltfs_start_mount(s))
        coh == [p \in Parts |-> IF t.cm.wp <= 0 THEN NoCoherency ELSE OwnCoherency(t, p)]
        u == [t EXCEPT !.v.coh = [p \in Parts |-> [gen |-> coh[p].gen, block |-> coh[p].block]]]
        quick == ~full /\ \A p \in Parts : coh[p].ver # 0 /\ coh[p].wp = t.cm.wp
        m == IF quick THEN QuickMount(u, deep) ELSE ltfs_check_medium(u, deep)
    IN  IF ~Good(t) THEN t
        ELSE IF ~Good(m) THEN m
        ELSE IF gen \notin {0, m.v.idx.gen} THEN OldGeneration(m, gen)
        ELSE [tape_set_append_position(m, IP, m.v.idx.self - 1)
                EXCEPT !.v.mounted = TRUE, !.v.ipEnd = TRUE, !.v.dpEnd = TRUE]

ltfs_unmount(s) ==
    LET behind == s.v.dirty \/ s.v.idx.part # IP
    IN  IF ~s.v.old /\ behind THEN ltfs_write_index(s, IP) ELSE s

\* An index is written to the index partition where only that needs one.
ltfs_sync_index(s) ==
    LET p == IF s.v.dpEnd /\ ~s.v.ipEnd THEN IP ELSE DP
    IN  IF tape_read_only(s, DP) # "GOOD" \/ ~s.v.dirty THEN s ELSE ltfs_write_index(s, p)

----------------------------------------------------------------------------
(* Sessions *)

\* A new process opens the drive.
ltfs_device_open(s) == tape_device_open([s EXCEPT !.dev = BlankDevice, !.v = BlankVolume])

\* The mode pages of the file backend are all zero: neither the early warning
\* nor the append only mode is set, and the mode is not asked for here.
ltfs_setup_device(s) == tape_is_cartridge_loadable(s)

\* The end of a session: whatever happened, the drive is given back, and
\* the memory of the process with it.
ltfs_device_close(s) ==
    [tape_device_close([s EXCEPT !.rc = "GOOD"], FALSE)
        EXCEPT !.v = BlankVolume, !.dev = BlankDevice, !.rc = s.rc]

ltfs_get_tape_readonly(s) ==
    IF tape_read_only(s, IP) \in {"GOOD", "LESS_SPACE"} THEN tape_read_only(s, DP)
    ELSE tape_read_only(s, IP)

\* ltfs up to fuse_main.  A volume that cannot take data, or an old state
\* of one, is served read only.
single_drive_main(s, gen) ==
    LET m == ltfs_mount(ltfs_setup_device(ltfs_device_open(s)), FALSE, FALSE, gen)
    IN  IF ~Good(m) THEN ltfs_device_close(m)
        ELSE [m EXCEPT !.v.ro = ltfs_get_tape_readonly(m) # "GOOD" \/ gen # 0]

\* ltfs_fuse_umount and what single_drive_main does after fuse_main; the
\* results of both are ignored.
ltfs_fuse_umount(s, eject) ==
    LET t == ltfs_unmount(s)
        u == IF eject THEN tape_unload_tape([t EXCEPT !.rc = "GOOD"]) ELSE t
    IN  ltfs_device_close([u EXCEPT !.rc = t.rc])

\* Mutant: whatever the labels say.
AnyCartridge(s) == [s EXCEPT !.rc = "GOOD"]

\* What a mount of a dummy volume must say of a cartridge that is formatted
\* without --force.
NoVolumeOn(s) ==
    IF s.rc \in {"NOT_PARTITIONED", "LABEL_INVALID", "LABEL_MISMATCH"} THEN [s EXCEPT !.rc = "GOOD"]
    ELSE Fail(s, "USAGE")

\* mkltfs.
FormatTape(s, force, reset) ==
    LET t == tape_load_tape(ltfs_setup_device(ltfs_device_open(s)))
        u == IF force THEN tape_load_tape(t)
             ELSE [NoVolumeOn(ltfs_start_mount(t)) EXCEPT !.v = BlankVolume]
    IN  IF ~Good(t) THEN t
        ELSE IF tape_read_only(t, IP) = "WRITE_PROTECT" THEN Fail(t, "WRITE_PROTECT")
        ELSE IF ~Good(u) THEN u
        ELSE ltfs_format_tape(u, reset)

format_tape(s, force, reset) == LET t == FormatTape(s, force, reset) IN ltfs_device_close(t)

\* unltfs.  Without noask it wants the application's name in the cartridge
\* memory, which the file backend never has.
UnformatTape(s, noask) ==
    LET t == tape_load_tape(ltfs_setup_device(ltfs_device_open(s)))
        u == tape_unformat(t)
    IN  IF ~Good(t) THEN t
        ELSE IF tape_read_only(t, IP) = "WRITE_PROTECT" THEN Fail(t, "WRITE_PROTECT")
        ELSE IF ~noask THEN Fail(t, "NOT_LTFS")
        ELSE IF Good(u) THEN tape_unload_tape(u) ELSE u

unformat_tape(s, noask) == LET t == UnformatTape(s, noask) IN ltfs_device_close(t)

----------------------------------------------------------------------------
(* ltfsck *)

\* ltfs_start_mount; the labels are then printed.
load_tape(s) == ltfs_start_mount(s)

\* The drive is asked to find the end of data, then the tape is loaded
\* again; on the file backend neither does anything.
ltfs_recover_eod_simple(s) ==
    LET lost == LostEods(s)
        t == IF IP \in lost THEN Regardless(s, tape_seek_eod(s, IP)) ELSE s
        u == IF DP \in lost THEN Regardless(t, tape_seek_eod(t, DP)) ELSE t
    IN  IF ~Good(s) \/ lost = {} THEN s ELSE Regardless(u, tape_load_tape(u))

\* Where a volume with coherency data of the first version has its last
\* index.  The block of the index partition's is by now the one found there.
_ltfs_detect_final_rec_dp(s) ==
    LET i == ltfs_seek_index(s, IP)
        coh == s.cm.coh
        blk == IF i.idx.gen = coh[IP].gen THEN i.idx.back ELSE i.idx.self
    IN  IF ~Good(i) THEN i
        ELSE IF coh[IP].gen # coh[DP].gen THEN Fail(i, "UNEXPECTED_VALUE")
        ELSE ltfs_read_index(tape_seek(i, DP, blk), 0)

\* No extent is on the index partition.
_ltfs_detect_final_rec_ip(s) == tape_seek(ltfs_seek_index(s, DP), IP, 0)

\* From the place the cartridge memory names, to the first unreadable block.
ltfs_recover_eod(s) ==
    LET lost == LostEods(s)
        coh == s.cm.coh
        t == IF \A p \in Parts : coh[p].ver = 0
             THEN IF lost = {DP} THEN _ltfs_detect_final_rec_dp(s) ELSE _ltfs_detect_final_rec_ip(s)
             ELSE IF lost = {IP} THEN tape_seek(s, IP, coh[IP].block - 1)
             ELSE ltfs_read_index(tape_seek(s, DP, coh[DP].block), 0)
    IN  IF ~Good(s) \/ lost = {} THEN s
        ELSE IF lost = Parts THEN Fail(s, "UNSUPPORTED")
        ELSE IF \E p \in Parts : coh[p] = NoCoherency THEN Fail(s, "CM_PERM")
        ELSE IF coh[IP].ver # coh[DP].ver THEN Fail(s, "UNEXPECTED_VALUE")
        ELSE tape_recover_eod_status(t)

\* ltfsck --deep-recovery, or plain ltfsck.
check_ltfs_volume(s, deep) ==
    LET t == load_tape(s)
        u == IF deep THEN ltfs_recover_eod(ltfs_recover_eod_simple(t)) ELSE t
        m == ltfs_mount(u, TRUE, TRUE, 0)
    IN  IF Good(m) THEN Regardless(m, ltfs_unmount(m)) ELSE m

_erase_history(s, p, blk) ==
    tape_write_filemark(tape_spacefm(tape_spacefm(tape_seek(s, p, blk), 1), 0 - 1), 1, TRUE, TRUE)

\* The generation is looked for on the index partition, then on the other.
SearchTarget(s, g, erase) ==
    LET t == ltfs_traverse_index_backward(s, IP, g)
        u == [t EXCEPT !.rc = "GOOD", !.found = {}]
    IN  IF ~Good(s) \/ t.rc # "NO_INDEX" THEN t
        ELSE IF erase THEN ltfs_traverse_index_forward(u, DP, g)
        ELSE ltfs_traverse_index_backward(u, DP, g)

\* Keeping the history: the current state is written once more to the data
\* partition, whatever becomes of that, then the old one as the newest
\* generation to both.
RollbackKeep(t, current) ==
    LET c == ltfs_write_index([t EXCEPT !.v.idx = current, !.v.dirty = TRUE], DP)
        g == c.v.idx.gen
        o == [Regardless(t, c) EXCEPT !.v.idx = [t.idx EXCEPT !.gen = g], !.v.dirty = TRUE]
        d == ltfs_write_index(tape_set_append_position(o, IP, current.self - 1), DP)
    IN  ltfs_write_index(d, IP)

\* Erasing it: a partition ends behind the old index it holds.
RollbackErase(t, current) ==
    LET o == tape_set_append_position([t EXCEPT !.v.idx = t.idx, !.v.dirty = TRUE], IP,
                                      current.self - 1)
        d == _erase_history(o, DP, IF t.idx.part = IP THEN t.idx.back ELSE t.idx.self)
        w == IF t.idx.part = IP THEN _erase_history(d, IP, t.idx.self) ELSE ltfs_write_index(d, IP)
    IN  IF Good(w) THEN tape_set_ewstate(w, "CLEAR") ELSE w

rollback(s, g, erase) ==
    LET m == ltfs_mount(load_tape(s), FALSE, FALSE, 0)
        u == Regardless(m, ltfs_unmount(m))
        current == u.v.idx
        t == SearchTarget(u, g, erase)
        r == IF erase THEN RollbackErase(t, current) ELSE RollbackKeep(t, current)
    IN  IF ~Good(m) THEN m
        ELSE IF g = current.gen THEN u
        ELSE IF g > current.gen THEN Fail(u, "GENERATION_INVALID")
        ELSE IF ~Good(t) THEN t
        ELSE ltfs_mount(r, TRUE, TRUE, 0)

\* Both partitions, in either direction.  Two lost ends are only warned of.
list_rollback_points_normal(s, forward) ==
    LET t == load_tape(s)
        n == ltfs_mount(t, FALSE, FALSE, 0)
        m == IF Good(t) /\ n.rc = "BOTH_EOD_MISSING" THEN [n EXCEPT !.rc = "GOOD"] ELSE n
        Walk(w, p) == IF forward THEN ltfs_traverse_index_forward(w, p, 0)
                      ELSE ltfs_traverse_index_backward(w, p, 0)
        i == Walk(m, IP)
    IN  IF ~Good(m) \/ ~Good(i) THEN i ELSE Walk(i, DP)

\* Only for a cartridge that has lost an end of data.
list_rollback_points_no_eod(s) ==
    LET t == load_tape(s)
    IN  IF ~Good(t) THEN t
        ELSE IF LostEods(t) = {} THEN Fail(t, "USAGE")
        ELSE ltfs_traverse_index_no_eod(t, DP, 0)

\* The command: one of its modes in a session of its own.
ltfsck_check(s, deep) ==
    LET t == ltfs_setup_device(ltfs_device_open(s))
    IN  ltfs_device_close(IF Good(t) THEN check_ltfs_volume(t, deep) ELSE t)

ltfsck_rollback(s, g, erase) ==
    LET t == ltfs_setup_device(ltfs_device_open(s))
    IN  ltfs_device_close(IF Good(t) THEN rollback(t, g, erase) ELSE t)

ltfsck_list(s, how) ==
    LET t == ltfs_setup_device(ltfs_device_open(s))
    IN  ltfs_device_close(IF ~Good(t) THEN t
                          ELSE IF how = "salvage" THEN list_rollback_points_no_eod(t)
                          ELSE list_rollback_points_normal(t, how = "forward"))
=============================================================================
