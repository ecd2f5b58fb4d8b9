----------------------------- MODULE TapeVolume -----------------------------
(***************************************************************************)
(* The life of a cartridge on the file backend: it is formatted, mounted,  *)
(* written, unmounted, checked, rolled back, listed, and unformatted, each *)
(* by a process of its own, whose operations are those of LtfsVolume.      *)
(*                                                                         *)
(* Every operation may be cut short at any file system call, either by an  *)
(* error that it reports or by a crash that leaves only the cartridge.     *)
(***************************************************************************)
EXTENDS LtfsVolume

CONSTANTS   \* the processes: from the state one starts in to the state it leaves
    mkltfs(_, _, _), unltfs(_, _), ltfs(_, _), write(_, _), sync(_), unmount(_), umount(_, _),
    check(_, _), rollback_to(_, _, _), list(_, _)

CONSTANTS
    MaxGen,      \* bound: index generations
    MaxData,     \* bound: data records written
    MaxFaults,   \* bound: errors and crashes
    MaxPass,     \* bound: sessions that write
    MaxFormats,  \* bound: volumes the cartridge is formatted as
    MaxCalls,    \* more than any operation's calls to the file system
    EraseAfterFault  \* whether --erase-history is used after an error or crash

ASSUME BoundsAssumption == MaxCalls \in Nat /\ MaxGen \in Nat /\ MaxFaults \in Nat

VARIABLES
    drive,       \* memory of the backend
    cart,        \* the cartridge: files and cartridge memory
    dev,         \* struct device_data
    vol,         \* struct ltfs_volume
    faults,      \* errors and crashes so far
    data,        \* data records written so far
    allowed,     \* the contents the next mount may present
    history,     \* generation and content of every completed index
    listed       \* the generations ltfsck has just shown, or None

vars == <<drive, cart, dev, vol, faults, data, allowed, history, listed>>

None == {[gen |-> 0, refs |-> {}]}

\* The state an operation starts from when n calls are going to succeed.
Start(n) ==
    [b |-> drive, files |-> cart.files, cm |-> cart.cm, dev |-> dev, v |-> vol,
     left |-> n, rc |-> "GOOD", idx |-> NoIndex, endfm |-> FALSE, found |-> {}]

----------------------------------------------------------------------------
(* The system *)

Init ==
    /\ drive = BlankBackend /\ cart = BlankCartridge /\ dev = BlankDevice /\ vol = BlankVolume
    /\ faults = 0 /\ data = 0 /\ allowed = {} /\ history = {} /\ listed = None

Becomes(s) ==
    /\ drive' = s.b /\ dev' = [s.dev EXCEPT !.got = NoRecord] /\ vol' = s.v
    /\ cart' = [files |-> s.files, cm |-> s.cm]

\* Nothing but the cartridge survives.
Crashes(s) ==
    /\ drive' = BlankBackend /\ dev' = BlankDevice /\ vol' = BlankVolume
    /\ cart' = [files |-> s.files, cm |-> s.cm]

\* An operation with its outcome.  It runs to the end, or a call to the file
\* system fails, with all that follow, or is never made.
Perform(Op(_), Ended(_), CutShort) ==
    LET ok == Op(Start(MaxCalls))
    IN  /\ listed' = None
        /\ \/ Becomes(ok) /\ Ended(ok) /\ UNCHANGED faults
           \/ /\ faults < MaxFaults
              /\ \E n \in 0 .. MaxCalls - ok.left - 1 :
                    LET s == Op(Start(n)) IN Becomes(s) \/ Crashes(s)
              /\ faults' = faults + 1
              /\ CutShort

Room == cart.cm.wp < MaxPass /\ \A f \in cart.files : f[2] + 8 <= MaxBlk

Off == ~dev.open /\ listed = None

\* What is permanent once the operation has returned without error.
Committed(s) ==
    /\ allowed' = {s.v.idx.refs}
    /\ history' = history \cup {[gen |-> s.v.idx.gen, refs |-> s.v.idx.refs]}

\* Both partitions start with the labels of one volume.
LabelsWhole(files) ==
    \E u \in 1 .. MaxFormats : \A p \in Parts :
        \A blk \in 0 .. 3 : Stored(files, p, blk) = <<AnsiLabel, FileMark, Label(u), FileMark>>[blk + 1]

\* Without force, a volume with a history and labels stays what it is.  A
\* format or unformat that does not finish leaves the old volume, nothing or
\* an empty one, and nothing of that is kept from the next format.
Format(force, reset) ==
    LET Op(s) == mkltfs(s, force, reset)
        mayLose == force \/ history = {} \/ ~LabelsWhole(cart.files)
    IN  /\ Off /\ Room /\ FreshUuid(Start(0)) <= MaxFormats
        /\ Perform(Op,
                   LAMBDA s : IF Good(s) /\ mayLose
                              THEN allowed' = {{}} /\ history' = {[gen |-> 1, refs |-> {}]}
                              ELSE UNCHANGED <<allowed, history>>,
                   IF mayLose THEN allowed' = allowed \cup {{}} /\ history' = {}
                   ELSE UNCHANGED <<allowed, history>>)
        /\ UNCHANGED data

\* Nothing can be mounted afterwards.
Unformat(noask) ==
    LET Op(s) == unltfs(s, noask)
    IN  /\ Off /\ allowed # {} /\ Room
        /\ Perform(Op, LAMBDA s : IF Good(s) THEN allowed' = {} /\ history' = {}
                                  ELSE UNCHANGED <<allowed, history>>,
                   IF noask THEN UNCHANGED allowed /\ history' = {} ELSE UNCHANGED <<allowed, history>>)
        /\ UNCHANGED data

\* What a mount presents is from then on what is permanent.
Presents(s) ==
    /\ allowed' = IF Good(s) /\ ~s.v.old THEN allowed \cap {s.v.idx.refs} ELSE allowed
    /\ UNCHANGED history

Mount(gen) ==
    LET Op(s) == ltfs(s, gen)
    IN  /\ Off /\ allowed # {} /\ Room
        /\ gen # 0 => \E h \in history : h.gen = gen
        /\ Perform(Op, Presents, UNCHANGED <<allowed, history>>)
        /\ UNCHANGED data

WriteData ==
    LET Op(s) == write(s, data + 1)
    IN  /\ vol.mounted /\ ~vol.ro /\ data < MaxData /\ Room
        /\ Perform(Op, LAMBDA s : UNCHANGED <<allowed, history>>, UNCHANGED <<allowed, history>>)
        /\ data' = data + 1

\* An index that was being written may or may not be there afterwards.
Attempted == allowed' = allowed \cup {vol.idx.refs} /\ UNCHANGED history

SyncIndex ==
    /\ vol.mounted /\ vol.dirty /\ vol.idx.gen < MaxGen /\ Room
    /\ Perform(sync,
               LAMBDA s : IF Good(s) /\ ~s.v.dirty THEN Committed(s) ELSE Attempted, Attempted)
    /\ UNCHANGED data

Unmount(eject) ==
    LET Op(s) == umount(s, eject)
        kept == UNCHANGED <<allowed, history>>
    IN  /\ vol.mounted /\ vol.idx.gen < MaxGen /\ Room
        /\ Perform(Op,
                   LAMBDA s : IF vol.old THEN kept
                              ELSE IF Good(s) THEN Committed(unmount(Start(MaxCalls)))
                              ELSE Attempted,
                   IF vol.old THEN kept ELSE Attempted)
        /\ UNCHANGED data

\* The machine stops while the volume is mounted.
PowerLoss ==
    /\ vol.mounted /\ faults < MaxFaults
    /\ Crashes(Start(0))
    /\ faults' = faults + 1 /\ listed' = None
    /\ UNCHANGED <<data, allowed, history>>

Newest(s) == Max({0} \cup {f[3][2].gen : f \in {x \in s.files : x[3][1] = "I"}})

Check(deep) ==
    LET Op(s) == check(s, deep)
    IN  /\ Off /\ allowed # {} /\ Room /\ Newest(Start(0)) < MaxGen
        /\ Perform(Op, LAMBDA s : UNCHANGED <<allowed, history>>, UNCHANGED <<allowed, history>>)
        /\ UNCHANGED data

ContentOf(g) == (CHOOSE h \in history : h.gen = g).refs

Rollback(g, erase) ==
    LET Op(s) == rollback_to(s, g, erase)
        kept == IF erase THEN {h \in history : h.gen <= g} ELSE history
        Maybe == allowed' = allowed \cup {ContentOf(g)} /\ history' = kept
    IN  /\ Off /\ Room /\ Newest(Start(0)) + 2 <= MaxGen
        /\ erase => faults = 0 \/ EraseAfterFault
        /\ \E h \in history : h.gen = g
        /\ Perform(Op,
                   LAMBDA s : IF ~Good(s) THEN UNCHANGED <<allowed, history>>
                              ELSE allowed' = {ContentOf(g)} /\ history' = kept,
                   Maybe)
        /\ UNCHANGED data

List(how) ==
    LET end == list(Start(MaxCalls), how)
    IN  /\ Off /\ allowed # {}
        /\ Becomes(end)
        /\ listed' = IF Good(end) THEN end.found ELSE None
        /\ UNCHANGED <<faults, data, allowed, history>>

ListDone == listed # None /\ listed' = None
            /\ UNCHANGED <<drive, cart, dev, vol, faults, data, allowed, history>>

Next ==
    \/ \E force, reset \in BOOLEAN : Format(force, reset)
    \/ \E noask \in BOOLEAN : Unformat(noask)
    \/ \E gen \in 0 .. MaxGen : Mount(gen)
    \/ WriteData \/ SyncIndex \/ PowerLoss
    \/ \E eject \in BOOLEAN : Unmount(eject)
    \/ \E deep \in BOOLEAN : Check(deep)
    \/ \E g \in 1 .. MaxGen, erase \in BOOLEAN : Rollback(g, erase)
    \/ \E how \in {"forward", "backward", "salvage"} : List(how)
    \/ ListDone

Spec == Init /\ [][Next]_vars

----------------------------------------------------------------------------
(* Properties *)

\* tape_seek sends nothing to the drive when it believes to be at the place
\* already (tape.c), so what the layer believes must be true in every
\* state of an open session, errors of earlier operations included.
PositionTrue ==
    drive.ready =>
        /\ dev.pos.part = drive.part /\ dev.pos.block = drive.block
        /\ dev.pos.fm = FilemarksBelow(cart.files, drive.part, drive.block)

\* A mount presents the content of the last completed index, or of one that
\* was being written when an error or a crash came; ltfsck changes nothing
\* of that, a rollback makes it the content of the old generation, and
\* formatting without --force replaces no completed volume.  A
\* rollback mount presents the content of the generation it was asked for.
MountedContent ==
    vol.mounted /\ ~vol.dirty =>
        IF vol.old THEN [gen |-> vol.idx.gen, refs |-> vol.idx.refs] \in history
        ELSE vol.idx.refs \in allowed

\* A volume keeps its labels until it is formatted or unformatted: no
\* recovery makes a cartridge unreadable that it was asked to repair
\* (doc/README on ltfsck --deep-recovery).
LabelsKept == history # {} => LabelsWhole(cart.files)

\* Every data block the mounted index refers to is on the tape, with the
\* record that was written: no recovery, truncation or rollback removes one.
DataIntact ==
    vol.mounted => \A r \in vol.idx.refs : Stored(cart.files, DP, r[1]) = <<"U", r[2]>>

\* ltfsck's list of rollback points misses no completed state of the volume
\* that was not erased on request, whichever way it walks.
HistoryListed ==
    listed # None => \A h \in history : \E i \in listed : i.refs = h.refs
=============================================================================
