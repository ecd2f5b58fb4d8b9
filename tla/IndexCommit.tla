---------------------------- MODULE IndexCommit ----------------------------
(* The index of a volume on its two partitions: when ltfs_write_index puts a
   copy where, what a crash leaves on the tape, and what ltfs_mount and ltfsck
   make of it (libltfs/ltfs.c, libltfs/ltfs_internal.c).

   A partition is the sequence of records behind its label, which fills blocks
   0 to 3; writing in the middle cuts off what follows. An index is one record
   and a tree of files is a version number and the blocks that it refers to.
   The cartridge memory keeps, for each partition, the generation and position
   of an index and whether it was stored after the last write to the tape. *)
EXTENDS Integers, Sequences, FiniteSetsExt, SequencesExt

CONSTANTS None,          \* no index, no pending sync
          MountKinds,    \* "mount": ltfs; "keep", "erase": ltfsck with and without --full-recovery
          Faults,        \* subset of {"hard", "less"}: failures of a tape write
          MaxData,       \* blocks of data written
          MaxChanges,    \* changes of the tree that write no data
          MaxCrashes,
          MaxFaults

ASSUME BoundsAssumption ==
    /\ {MaxData, MaxChanges, MaxCrashes, MaxFaults} \subseteq Nat
    /\ MountKinds \subseteq {"mount", "keep", "erase"}
    /\ Faults \subseteq {"hard", "less"}

VARIABLES
    tape,     \* tape[p]: the records of partition p
    mam,      \* mam[p]: the coherency attribute of p in the cartridge memory
    phase,    \* "off", "mounting", "up" or "leaving"
    vol,      \* struct ltfs_volume with its index and device
    todo,     \* the steps left of the operation that holds the volume lock
    pending,  \* blocks on the index partition whose extents the I/O scheduler holds back
    sync,     \* the partition ltfs_sync_index has chosen and not written to yet
    used,     \* how much of each bound is used
    best      \* history: the index that a full check of the tape would pick, if it accepts the volume

vars == <<tape, mam, phase, vol, todo, pending, sync, used, best>>

Parts == {"ip", "dp"}
Ptrs == [p : {"none", "ip", "dp"}, b : Nat]
Fm == [k |-> "fm"]
Torn == [k |-> "torn"]
Data(i) == [k |-> "data", id |-> i]

\* What a partition holds: file marks, blocks of files or of half an index, and indexes.
Blocks == {Torn} \cup [k : {"data"}, id : Nat]
Trees == [ver : Nat, refs : SUBSET [p : Parts, b : Nat, rec : Blocks]]
Documents == [k : {"index"}, gen : Nat, self : Ptrs, back : Ptrs, tree : Trees]
Records == {Fm} \cup Blocks \cup Documents
ASSUME NoneAssumption == None \notin Parts \cup Trees \cup Records

Other(p) == IF p = "ip" THEN "dp" ELSE "ip"
NoPtr == [p |-> "none", b |-> 0]

-----------------------------------------------------------------------------
(* Reading a partition *)
Label == 3
At(t, p, b) == IF b - Label \in DOMAIN t[p] THEN t[p][b - Label] ELSE None
Eod(t, p) == Len(t[p]) + Label + 1
IsFm(t, p, b) == b = Label \/ At(t, p, b) = Fm

(* ltfs_read_index: a document that parses, knows where it is, and has a
   plausible back pointer. *)
ReadIndex(t, p, b) ==
    LET r == At(t, p, b)
    IN  /\ r # None /\ r.k = "index"
        /\ r.self = [p |-> p, b |-> b]
        /\ r.back.p \in {"none", "dp"}
        /\ ~ (r.back.p = p /\ b # 5 /\ r.back.b # b /\ r.back.b >= b - 2)
        /\ r.back.p = "none" \/ r.back.b >= 5

(* ltfs_seek_index: from the last file mark that can open an index, back to the
   label. "after" tells that the index is not the end of the partition. *)
Candidates(t, p) ==
    LET fms == {b \in Label .. Eod(t, p) : IsFm(t, p, b)}
    IN  IF Max(fms) = Eod(t, p) - 1 THEN fms \ {Eod(t, p) - 1} ELSE fms
SeekIndex(t, p) ==
    LET good == {b \in Candidates(t, p) \ {Label} : ReadIndex(t, p, b + 1)}
        b == Max(good) + 1
        fm == At(t, p, b + 1) = Fm
        end == IF fm THEN b + 2 ELSE b + 1
    IN  IF good = {}
        THEN [have |-> FALSE, idx |-> None, eod |-> Eod(t, p), end |-> 0,
              fm |-> FALSE, after |-> FALSE]
        ELSE [have |-> TRUE, idx |-> At(t, p, b), eod |-> Eod(t, p), end |-> end,
              fm |-> fm, after |-> end # Eod(t, p)]

(* _ltfs_check_pointers: which of the two indexes is newer, or "bad". *)
CheckPointers(t, ip, dp) ==
    CASE ip = None -> "dp"
      [] ip # None /\ dp = None -> IF ip.back.p # "none" THEN "bad" ELSE "ip"
      [] ip # None /\ dp # None /\ ip.gen >= dp.gen /\ ip.back = dp.self -> "ip"
      [] OTHER ->
            LET behind == dp.back.b > ip.back.b
                old == At(t, "dp", dp.back.b)
            IN  IF ip.gen > dp.gen THEN "bad"
                ELSE IF ip.gen = dp.gen /\ ip.back = NoPtr THEN "dp"
                ELSE IF behind /\ ~ ReadIndex(t, "dp", dp.back.b) THEN "bad"
                ELSE IF behind /\ ip.back = NoPtr /\ old.gen < ip.gen THEN "bad"
                ELSE "dp"

(* The index that the searches and the comparison of ltfs_check_medium pick; it
   can still refuse the volume afterwards (Checked). *)
Picked(t) ==
    LET ip == SeekIndex(t, "ip").idx
        dp == SeekIndex(t, "dp").idx
        pick == CheckPointers(t, ip, dp)
    IN  IF pick = "bad" \/ (ip = None /\ dp = None) THEN None
        ELSE IF pick = "ip" THEN ip ELSE dp

\* _ltfs_last_ref: the block behind the last block of p that the tree refers to.
LastRef(tree, p) == Max({0} \cup {r.b + 1 : r \in {x \in tree.refs : x.p = p}})

\* _ltfs_check_extents
CheckExtents(tree, found) == \A r \in tree.refs : r.b >= 4 /\ r.b + 1 < found[r.p].eod

\* _ltfs_make_lost_found and _ltfs_populate_lost_found: the files they add.
LostFound(t, tree, found) ==
    LET from(p) == IF LastRef(tree, p) >= found[p].end THEN LastRef(tree, p) + 1 ELSE found[p].end
        blocks(p) == IF found[p].end < found[p].eod
                     THEN {b \in Max({4, from(p)}) .. found[p].eod - 1 : ~ IsFm(t, p, b)} ELSE {}
    IN  UNION {{[p |-> p, b |-> b, rec |-> At(t, p, b)] : b \in blocks(p)} : p \in Parts}

-----------------------------------------------------------------------------
(* Writing to a partition: tape_seek_append_position, tape_write,
   tape_write_filemark. Any write makes both coherency attributes stale. *)
AppendPos(v, p) == IF v.append[p] = 0 THEN Eod(tape, p) ELSE v.append[p]
Put(v, p, rec) ==
    /\ LET t == [tape EXCEPT ![p] = Append(SubSeq(@, 1, AppendPos(v, p) - Label - 1), rec)]
       IN  tape' = t /\ best' = Picked(t)
    /\ mam' = [q \in Parts |-> [mam[q] EXCEPT !.fresh = FALSE]]
Moved(v, p) == [v EXCEPT !.append[p] = AppendPos(v, p) + 1]

NoVol == [kind |-> "none", gen |-> 0, self |-> NoPtr, back |-> NoPtr, tree |-> None,
          dirty |-> FALSE, end |-> [p \in Parts |-> FALSE], append |-> [p \in Parts |-> 0],
          coh |-> [p \in Parts |-> [count |-> 0, set |-> 0]],
          broken |-> FALSE, less |-> [p \in Parts |-> FALSE], old |-> None, found |-> None]

Step(op) == todo # <<>> /\ todo[1].op = op
Part == todo[1].p
Op(op, p) == [op |-> op, p |-> p]

(* ltfs_write_index, from its first call to its last: the decision to write
   the data partition first, then for each copy the opening file mark, the
   document (which may take several blocks), the closing file mark, the
   coherency attributes, and the update of the volume in memory. *)
OneIndex(p) == <<Op("mark", p), Op("part", p), Op("doc", p), Op("close", p),
                 Op("coherency", "ip"), Op("coherency", "dp"), Op("done", p)>>
IndexSteps_NoDpFirst(v, p) == OneIndex(p)
IndexSteps(v, p) ==
    IF p = "ip" /\ (~ v.end["dp"] \/ (v.end["ip"] /\ v.self.p = "ip"))
    THEN OneIndex("dp") \o OneIndex("ip") ELSE OneIndex(p)

\* ltfs_write_index_conditional
ConditionalSteps_IfNotEnd(v, p) == IF ~ v.end[p] THEN IndexSteps(v, p) ELSE <<>>
ConditionalSteps(v, p) ==
    IF ~ v.end[p] \/ (p = "dp" /\ v.end["ip"] /\ v.self.p = "ip")
    THEN IndexSteps(v, p) ELSE <<>>

CallIndex ==
    /\ Step("call")
    /\ todo' = IndexSteps(vol, Part) \o Tail(todo)
    /\ UNCHANGED <<tape, best, mam, phase, vol, pending, sync, used>>

IndexMark ==
    /\ Step("mark")
    /\ Put(vol, Part, Fm)
    /\ vol' = [Moved(vol, Part) EXCEPT
                  !.old = [gen |-> vol.gen, self |-> vol.self, back |-> vol.back],
                  !.gen = IF vol.dirty THEN @ + 1 ELSE @,
                  !.back = IF vol.self.p = "dp" THEN vol.self ELSE @,
                  !.self = [p |-> Part, b |-> AppendPos(vol, Part) + 1]]
    /\ todo' = Tail(todo)
    /\ UNCHANGED <<phase, pending, sync, used>>

\* The first blocks of a document are on the tape and the last one is not.
IndexPart ==
    /\ Step("part")
    /\ Put(vol, Part, Torn)
    /\ todo' = Tail(todo)
    /\ UNCHANGED <<phase, vol, pending, sync, used>>

IndexDoc ==
    /\ Step("doc")
    /\ Put(vol, Part, [k |-> "index", gen |-> vol.gen, self |-> vol.self, back |-> vol.back,
                       tree |-> vol.tree])
    /\ vol' = Moved(vol, Part)
    /\ todo' = Tail(todo)
    /\ UNCHANGED <<phase, pending, sync, used>>

IndexClose ==
    /\ Step("close")
    /\ Put(vol, Part, Fm)
    /\ vol' = [Moved(vol, Part) EXCEPT !.end[Part] = TRUE]
    /\ todo' = Tail(todo)
    /\ UNCHANGED <<phase, pending, sync, used>>

\* ltfs_update_cart_coherency for one partition.
Coherency_Always ==
    /\ Step("coherency")
    /\ LET c == IF vol.self.p = Part THEN [count |-> vol.gen, set |-> vol.self.b]
                ELSE vol.coh[Part]
       IN  /\ vol' = [vol EXCEPT !.coh[Part] = c]
           /\ mam' = [mam EXCEPT ![Part] = [fresh |-> TRUE, count |-> c.count, set |-> c.set]]
    /\ todo' = Tail(todo)
    /\ UNCHANGED <<tape, best, phase, pending, sync, used>>
Coherency ==
    /\ Step("coherency")
    /\ LET c == IF vol.self.p = Part THEN [count |-> vol.gen, set |-> vol.self.b]
                ELSE vol.coh[Part]
       IN  IF vol.end[Part]
           THEN /\ vol' = [vol EXCEPT !.coh[Part] = c]
                /\ mam' = [mam EXCEPT ![Part] = [fresh |-> TRUE, count |-> c.count, set |-> c.set]]
           ELSE UNCHANGED <<vol, mam>>
    /\ todo' = Tail(todo)
    /\ UNCHANGED <<tape, best, phase, pending, sync, used>>

IndexDone_OneBlockBack ==
    /\ Step("done")
    /\ vol' = [vol EXCEPT !.append["ip"] = IF Part = "ip" THEN vol.self.b - 2 ELSE @,
                          !.dirty = FALSE, !.old = None]
    /\ todo' = Tail(todo)
    /\ UNCHANGED <<tape, best, mam, phase, pending, sync, used>>
IndexDone ==
    /\ Step("done")
    /\ vol' = [vol EXCEPT !.append["ip"] = IF Part = "ip" THEN vol.self.b - 1 ELSE @,
                          !.dirty = FALSE, !.old = None]
    /\ todo' = Tail(todo)
    /\ UNCHANGED <<tape, best, mam, phase, pending, sync, used>>

-----------------------------------------------------------------------------
(* File data: _ltfs_fsraw_write_data_unlocked and what its callers do with the
   block. ltfs_fsraw_write adds the extent before it lets go of the volume
   lock; the unified I/O scheduler keeps extents on the index partition to
   itself and adds them later. *)
Session == phase = "up" /\ vol.kind = "mount"
Locked == todo # <<>> /\ todo[1].op # "extent"   \* the volume lock is held for writing
NewTree(refs) == [ver |-> used.ver + 1, refs |-> refs]

WriteData(p) ==
    /\ Session /\ todo = <<>> /\ ~ vol.broken /\ ~ vol.less[p]
    /\ used.data < MaxData
    /\ todo' = ConditionalSteps(vol, Other(p)) \o <<Op("data", p)>>
    /\ used' = [used EXCEPT !.data = @ + 1]
    /\ UNCHANGED <<tape, best, mam, phase, vol, pending, sync>>

Extent(p, v) == [p |-> p, b |-> AppendPos(v, p), rec |-> Data(used.data)]
DataBlock ==
    /\ Step("data")
    /\ Put(vol, Part, Data(used.data))
    /\ vol' = [Moved(vol, Part) EXCEPT !.end[Part] = FALSE]
    /\ pending' = pending \cup {Extent(Part, vol)}
    /\ todo' = IF Part = "dp" THEN <<Op("extent", "dp")>> ELSE <<>>
    /\ UNCHANGED <<phase, sync, used>>

\* tape_write stores the block and reports that the partition is getting full.
DataLessSpace ==
    /\ Step("data") /\ "less" \in Faults /\ used.fault < MaxFaults
    /\ Put(vol, Part, Data(used.data))
    /\ vol' = [Moved(vol, Part) EXCEPT !.end[Part] = FALSE, !.less[Part] = TRUE]
    /\ todo' = <<>>
    /\ used' = [used EXCEPT !.fault = @ + 1]
    /\ UNCHANGED <<phase, pending, sync>>

SetTree(refs) ==
    /\ vol' = [vol EXCEPT !.tree = NewTree(refs), !.dirty = TRUE]
    /\ UNCHANGED <<tape, best, mam, phase, sync>>

AddExtent ==
    /\ Session /\ ~ Locked
    /\ \E x \in pending :
          /\ x.p = "ip" => ~ vol.broken
          /\ SetTree(vol.tree.refs \cup {x})
          /\ pending' = pending \ {x}
          /\ todo' = IF x.p = "dp" THEN <<>> ELSE todo
    /\ used' = [used EXCEPT !.ver = @ + 1]

(* The scheduler gives an extent up: the file was overwritten or has outgrown
   the index partition, or ltfs_fsraw_add_extent has refused it. *)
DiscardExtent ==
    /\ Session
    /\ \E x \in pending : x.p = "ip" /\ pending' = pending \ {x}
    /\ UNCHANGED <<tape, best, mam, phase, vol, todo, sync, used>>

\* A change of names or attributes, or the deletion of a file.
ChangeTree ==
    /\ Session /\ ~ Locked
    /\ used.change < MaxChanges
    /\ \E gone \in {{}} \cup {{r} : r \in vol.tree.refs} : SetTree(vol.tree.refs \ gone)
    /\ used' = [used EXCEPT !.change = @ + 1, !.ver = @ + 1]
    /\ UNCHANGED <<todo, pending>>

-----------------------------------------------------------------------------
(* ltfs_sync_index reads the flags under a shared lock, lets go of it, and
   writes the index under an exclusive one. *)
SyncLook ==
    /\ Session /\ ~ Locked /\ sync = None
    /\ vol.dirty /\ ~ vol.broken /\ ~ vol.less["dp"]
    /\ sync' = IF vol.end["dp"] /\ ~ vol.end["ip"] THEN "ip" ELSE "dp"
    /\ UNCHANGED <<tape, best, mam, phase, vol, todo, pending, used>>

SyncWrite ==
    /\ Session /\ todo = <<>> /\ sync # None
    /\ todo' = IF vol.broken THEN <<>> ELSE <<Op("call", sync)>>
    /\ sync' = None
    /\ UNCHANGED <<tape, best, mam, phase, vol, pending, used>>

\* The process ends: nothing in memory survives.
Gone ==
    /\ phase' = "off" /\ vol' = NoVol /\ todo' = <<>> /\ pending' = {} /\ sync' = None

\* ltfs_unmount, after the scheduler has been destroyed and the sync thread stopped.
Unmount ==
    /\ phase = "up" /\ todo = <<>> /\ pending = {} /\ sync = None
    /\ IF (vol.dirty \/ vol.self.p # "ip") /\ ~ vol.broken
       THEN /\ phase' = "leaving"
            /\ todo' = <<Op("call", "ip"), Op("leave", "ip")>>
            /\ UNCHANGED <<vol, pending, sync>>
       ELSE Gone
    /\ UNCHANGED <<tape, best, mam, used>>
Leave == Step("leave") /\ Gone /\ UNCHANGED <<tape, best, mam, used>>

Crash ==
    /\ phase # "off" /\ used.crash < MaxCrashes
    /\ Gone
    /\ used' = [used EXCEPT !.crash = @ + 1]
    /\ UNCHANGED <<tape, best, mam>>

(* A write to the tape fails for good: tape_write refuses all further writes
   and ltfs_write_index takes back its changes to the index in memory. *)
Fail ==
    /\ todo # <<>> /\ todo[1].op \in {"fill", "mark", "part", "doc", "close", "data"}
    /\ "hard" \in Faults /\ used.fault < MaxFaults
    /\ used' = [used EXCEPT !.fault = @ + 1]
    /\ IF phase # "up" THEN Gone
       ELSE /\ vol' = [vol EXCEPT
                          !.broken = TRUE, !.old = None,
                          !.end[Part] = IF Step("data") THEN FALSE ELSE @,
                          !.gen = IF vol.old = None THEN @ ELSE vol.old.gen,
                          !.self = IF vol.old = None THEN @ ELSE vol.old.self,
                          !.back = IF vol.old = None THEN @ ELSE vol.old.back]
            /\ todo' = <<>>
            /\ UNCHANGED <<phase, pending, sync>>
    /\ UNCHANGED <<tape, best, mam>>

-----------------------------------------------------------------------------
(* ltfs_mount *)
Loaded(v, idx) == [v EXCEPT !.gen = idx.gen, !.self = idx.self, !.back = idx.back, !.tree = idx.tree]
MamCoh == [p \in Parts |-> [count |-> mam[p].count, set |-> mam[p].set]]
Fresh == mam["ip"].fresh /\ mam["dp"].fresh

\* Both coherency attributes carry the current volume change reference: trust them.
Newer == IF mam["ip"].count < mam["dp"].count THEN "dp" ELSE "ip"
MountQuick ==
    /\ phase = "off" /\ "mount" \in MountKinds /\ Fresh
    /\ ReadIndex(tape, Newer, mam[Newer].set)
    /\ phase' = "mounting"
    /\ vol' = Loaded([NoVol EXCEPT !.kind = "mount", !.coh = MamCoh],
                     At(tape, Newer, mam[Newer].set))
    /\ todo' = (IF Newer = "dp" THEN <<Op("call", "ip")>> ELSE <<>>) \o <<Op("finish", "ip")>>
    /\ UNCHANGED <<tape, best, mam, pending, sync, used>>

(* ltfs_check_medium, first part: find an index on each partition and fill in
   the file mark behind one that ends its partition without. *)
MountFull(kind) ==
    /\ phase = "off" /\ kind \in MountKinds
    /\ kind = "mount" => ~ Fresh
    /\ LET found == [p \in Parts |-> SeekIndex(tape, p)]
           fill(p) == IF found[p].have /\ ~ found[p].after /\ ~ found[p].fm
                      THEN <<Op("fill", p)>> ELSE <<>>
           coh == [p \in Parts |-> IF found[p].have
                                   THEN [count |-> found[p].idx.gen, set |-> found[p].idx.self.b]
                                   ELSE MamCoh[p]]
       IN  /\ \E p \in Parts : found[p].have
           /\ vol' = [NoVol EXCEPT !.kind = kind, !.coh = coh, !.found = found]
           /\ todo' = fill("dp") \o fill("ip") \o <<Op("check", "ip")>>
    /\ phase' = "mounting"
    /\ UNCHANGED <<tape, best, mam, pending, sync, used>>

FillMark ==
    /\ Step("fill")
    /\ Put(vol, Part, Fm)
    /\ LET f == vol.found[Part]
       IN  vol' = [Moved(vol, Part) EXCEPT !.found[Part] = [f EXCEPT !.fm = TRUE, !.eod = @ + 1]]
    /\ todo' = Tail(todo)
    /\ UNCHANGED <<phase, pending, sync, used>>

(* Second part: choose an index, set the append positions and mark the index
   dirty when the partitions do not both end in it. *)
Extra(f) == IF f.have THEN f.after ELSE f.eod # 4
EraseAppend(v, f, p) ==
    LET last == LastRef(v.tree, p)
    IN  CASE f.have /\ f.after /\ last >= f.end /\ last < f.eod -> last
          [] f.have /\ f.after /\ last < f.end -> IF p = "ip" THEN f.idx.self.b - 1 ELSE f.end
          [] ~ f.have /\ f.eod > 4 -> 4
          [] OTHER -> v.append[p]
Checked ==
    LET f == vol.found
        pick == CheckPointers(tape, f["ip"].idx, f["dp"].idx)
        both == f["ip"].have /\ f["dp"].have
        extra == \E p \in Parts : Extra(f[p])
        v == [Loaded(vol, f[pick].idx) EXCEPT
                 !.dirty = ~ both \/ pick = "dp" \/ extra,
                 !.append["ip"] = IF f["ip"].have /\ ~ f["ip"].after
                                  THEN f["ip"].idx.self.b - 1 ELSE @,
                 !.end = [p \in Parts |-> f[p].have /\ ~ f[p].after]]
        erase == vol.kind = "erase" /\ extra
        a == [v EXCEPT !.append = [p \in Parts |->
                 IF erase THEN EraseAppend(v, f[p], p) ELSE v.append[p]]]
    IN  IF \/ extra /\ vol.kind = "mount"
           \/ pick = "bad"
           \/ ~ both /\ ~ CheckExtents(v.tree, f)
           \/ v.dirty /\ a.append["dp"] # 0 /\ LastRef(v.tree, "dp") > a.append["dp"]
        THEN None ELSE a

MountRefused ==
    /\ Step("check") /\ Checked = None
    /\ Gone
    /\ UNCHANGED <<tape, best, mam, used>>

Repair(v) ==
    (IF v.kind = "keep" /\ \E p \in Parts : Extra(v.found[p]) THEN <<Op("lost", "ip")>> ELSE <<>>)
    \o (IF ~ v.found["dp"].have \/ v.found["dp"].after THEN <<Op("call", "dp")>> ELSE <<>>)
    \o <<Op("call", "ip"), Op("finish", "ip")>>
CheckMedium ==
    /\ Step("check") /\ Checked # None
    /\ vol' = Checked
    /\ todo' = IF Checked.dirty THEN Repair(Checked)
               ELSE <<Op("coherency", "ip"), Op("coherency", "dp"), Op("finish", "ip")>>
    /\ UNCHANGED <<tape, best, mam, phase, pending, sync, used>>

RecoverLost ==
    /\ Step("lost")
    /\ SetTree(vol.tree.refs \cup LostFound(tape, vol.tree, vol.found))
    /\ todo' = Tail(todo)
    /\ used' = [used EXCEPT !.ver = @ + 1]
    /\ UNCHANGED pending

MountFinish ==
    /\ Step("finish")
    /\ phase' = "up"
    /\ vol' = [vol EXCEPT !.append["ip"] = vol.self.b - 1, !.end = [p \in Parts |-> TRUE],
                          !.found = None]
    /\ todo' = Tail(todo)
    /\ UNCHANGED <<tape, best, mam, pending, sync, used>>

-----------------------------------------------------------------------------
\* A volume that ltfs_format_tape has just written.
Init ==
    LET idx(p, back) == [k |-> "index", gen |-> 1, self |-> [p |-> p, b |-> 5], back |-> back,
                         tree |-> [ver |-> 0, refs |-> {}]]
    IN  /\ tape = [ip |-> <<Fm, idx("ip", [p |-> "dp", b |-> 5]), Fm>>,
                   dp |-> <<Fm, idx("dp", NoPtr), Fm>>]
        /\ mam = [p \in Parts |-> [fresh |-> TRUE, count |-> 1, set |-> 5]]
        /\ phase = "off" /\ vol = NoVol /\ todo = <<>> /\ pending = {} /\ sync = None
        /\ used = [data |-> 0, change |-> 0, crash |-> 0, fault |-> 0, ver |-> 0]
        /\ best = Picked(tape)

Next ==
    \/ CallIndex \/ IndexMark \/ IndexPart \/ IndexDoc \/ IndexClose \/ Coherency \/ IndexDone
    \/ \E p \in Parts : WriteData(p)
    \/ DataBlock \/ DataLessSpace \/ AddExtent \/ DiscardExtent \/ ChangeTree
    \/ SyncLook \/ SyncWrite \/ Unmount \/ Leave \/ Crash \/ Fail
    \/ MountQuick \/ (\E kind \in MountKinds : MountFull(kind))
    \/ FillMark \/ MountRefused \/ CheckMedium \/ RecoverLost \/ MountFinish

Spec == Init /\ [][Next]_vars

-----------------------------------------------------------------------------
TypeOK ==
    /\ tape \in [Parts -> Seq(Records)]
    /\ mam \in [Parts -> [fresh : BOOLEAN, count : Nat, set : Nat]]
    /\ phase \in {"off", "mounting", "up", "leaving"}
    /\ vol.gen \in Nat /\ vol.self \in Ptrs /\ vol.back \in Ptrs /\ vol.dirty \in BOOLEAN
    /\ vol.end \in [Parts -> BOOLEAN] /\ vol.append \in [Parts -> Nat]
    /\ sync \in Parts \cup {None}
    /\ phase = "off" => vol = NoVol /\ todo = <<>> /\ pending = {} /\ sync = None
    /\ phase \in {"mounting", "leaving"} => todo # <<>>

\* Every block a tree refers to is still where the tree says it is.
Intact(tree) == \A r \in tree.refs : At(tape, r.p, r.b) = r.rec

(* The exits of ltfs_check_medium that turn away a volume although its index is
   picked and its blocks are all there: a plain mount refuses extra blocks
   behind the last index, and _ltfs_check_extents, consulted when a partition
   has no index, counts one block too many and takes an extent that ends at the
   end of data for one beyond it. *)
TurnedAway ==
    \/ vol.kind = "mount" /\ \E p \in Parts : Extra(vol.found[p])
    \/ /\ \E p \in Parts : ~ vol.found[p].have
       /\ \E r \in best.tree.refs : r.b + 1 = Eod(tape, r.p)

(* In every state, and so at every moment a crash can strike, the searches of
   ltfs_check_medium pick an index from the tape and all the blocks of its files
   are there; when a mount or ltfsck comes to its check, whatever it has had to
   fill in before, it loads exactly that index, or refuses the volume on one of
   the two grounds of TurnedAway. *)
Recoverable ==
    /\ best # None /\ Intact(best.tree)
    /\ Step("check") => IF TurnedAway THEN Checked = None ELSE Checked.tree = best.tree

(* An index that is not dirty is on the tape and is the one that the searches of
   ltfs_check_medium pick: when ltfs_write_index, ltfs_sync_index or
   ltfs_unmount succeed and the program crashes after that, the contents of the
   volume are what the next check loads, if it does not turn the volume away. *)
CleanIsPermanent ==
    phase \in {"up", "leaving"} /\ ~ vol.dirty => best # None /\ best.tree = vol.tree

\* Partition p ends in a complete index.
EndsInIndex(p) == LET f == SeekIndex(tape, p) IN f.have /\ f.fm /\ ~ f.after

(* When both coherency attributes are current, a mount that trusts them finds
   what a full check would pick, and finds both partitions ending in an index. *)
QuickMountAgrees ==
    Fresh /\ phase = "off" =>
        /\ \A p \in Parts : EndsInIndex(p) /\ SeekIndex(tape, p).idx.self.b = mam[p].set
        /\ best.tree = SeekIndex(tape, Newer).idx.tree

(* The volume as IndexStore sees it: writing an index is one step, whatever
   happens in between. *)
Store == INSTANCE IndexStore WITH
            mem <- vol.tree,
            disk <- IF best = None THEN None ELSE best.tree
AtomicCommit == Store!Spec

-----------------------------------------------------------------------------
(* What comments of the source say, and the code does not do in every case. *)

(* ltfs_check_medium: "extra blocks (after the last index file on a partition)
   ... will be erased". Recovery must not erase a block that the index it has
   chosen refers to. *)
OnlyExtraErased == phase = "mounting" /\ vol.tree # None => Intact(vol.tree)

(* _ltfs_check_extents "checks that each extent's blocks fall in an appropriate
   range (not in the label or past EOD)": ltfsck must not refuse a volume on
   which every block of the chosen index is in its place. *)
LtfsckAccepts ==
    Step("check") /\ vol.kind # "mount" /\ Intact(best.tree) => Checked # None

(* _ltfs_make_lost_found: "one file for each extra extent found at the end of
   each partition". *)
LostFoundComplete ==
    Step("lost") =>
        \A p \in Parts : \A b \in Max({4, vol.found[p].end}) .. vol.found[p].eod - 1 :
            IsFm(tape, p, b) \/ \E r \in vol.tree.refs \cup LostFound(tape, vol.tree, vol.found) :
                                    r.p = p /\ r.b = b

(* ltfs_unmount: "Make cartridge consistent". Where it has nothing to write,
   both partitions end in an index. *)
UnmountConsistent ==
    phase = "up" /\ todo = <<>> /\ ~ vol.broken /\ ~ vol.dirty /\ vol.self.p = "ip" =>
        \A p \in Parts : EndsInIndex(p)

(* "back pointer (to prior generation on data partition)": between an index on
   the data partition and the one its back pointer names there is no index of
   another generation. ltfsck follows these pointers to list and to restore
   older generations. *)
Indexes(p) == {i \in DOMAIN tape[p] : tape[p][i].k = "index"}
BackPointerPrior ==
    \A i, j \in Indexes("dp") :
        LET back == tape["dp"][i].back.b - Label
        IN  j < i => /\ back \in Indexes("dp") /\ back < i
                     /\ j > back => tape["dp"][j].gen = tape["dp"][back].gen
=============================================================================
