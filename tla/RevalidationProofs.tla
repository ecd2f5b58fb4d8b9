------------------------- MODULE RevalidationProofs -------------------------
(***************************************************************************)
(* Revalidation is correct for any set of threads and any number of calls  *)
(* and attentions: no write reaches a foreign cartridge, a loss in the     *)
(* data partition is noticed, acknowledged extents stay where they are.    *)
(*                                                                         *)
(* The argument: outside revalidation, with no attention waiting, libltfs  *)
(* knows the cartridge and the head (Trust), because each check has found  *)
(* out its part (Checked) and the discipline lets nobody send meanwhile.   *)
(* Append positions are on the tape and at the end of the data partition   *)
(* (Positions, DpEnd), so a loss leaves the saved one beyond the end of    *)
(* data (Caught), and writes only go behind acknowledged ones (Extents).   *)
(***************************************************************************)
EXTENDS Revalidation, SequenceTheorems, WellFoundedInduction, TLAPS

-----------------------------------------------------------------------------
(* Who may do what while the medium is revalidated: the locks, the fence
   and vol->reval, and the commands a call has still to send.  Types,
   Discipline and Scripts are kept by every step, for any set of threads. *)

PCs == {"idle", "wait", "acquire", "recheck", "peek", "device", "waitreval", "send",
        "rv_mark", "rv_unlock", "rv_lock", "rv_start", "rv_check", "rv_unfence",
        "rv_record", "rv_return"}
AllOps == {"none", "tur", "capacity", "getxattr", "read", "write_ip", "write_dp",
           "sync", "sync_write", "set_sync", "unmount"}
CmdNames == {"seek", "flush", "fm", "idx", "endfm", "mamset", "down", "data", "query", "read",
             "setup", "reserve", "load", "label", "eod", "mam", "seekeod"}
CmdLists == Seq(CmdNames \X Partitions)
Places == [part : Partitions, block : Nat]
Records == {"label", "fm", "idx", "data"} \X Nat
ThreadStates == [pc : PCs, op : AllOps, call : Nat, todo : CmdLists, start : Nat,
                 target : Partitions, saved : [Partitions -> Nat]]
Volumes == [append : [Partitions -> Nat], ends : [Partitions -> BOOLEAN], self : Places,
            back : Places, pos : Places, dirty : BOOLEAN, mounted : BOOLEAN]
Backends == [owner : RevalThreads \cup {NoThread}, fence : BOOLEAN]
Tapes == [part : [Partitions -> Seq(Records)], safe : [Partitions -> Seq(Records)],
          head : Places]
Histories == [acked : SUBSET [at : Places, call : Nat], lost : SUBSET Partitions,
              swallowed : BOOLEAN, spoiled : BOOLEAN]

ThreadsTyped == th \in [RevalThreads -> ThreadStates]
FlagsTyped ==
    /\ held \in [RevalThreads -> {"none", "read", "write"}]
    /\ reval \in {"ok", "running", "failed"}
    /\ backend \in Backends
    /\ attention \in {"none", "changed", "removal"}
    /\ medium \in {"ours", "other", "touched", "noeod"}
    /\ budget \in [calls : Nat, events : Nat]
MediumTyped == vol \in Volumes /\ tape \in Tapes /\ seen \in Histories
Types == ThreadsTyped /\ FlagsTyped /\ MediumTyped

\* A call and where it is go together.
OpsMatch ==
    \A t \in RevalThreads :
        /\ th[t].pc = "peek" => th[t].op = "sync"
        /\ th[t].pc \in {"device", "send"} => th[t].op # "sync"
        /\ IF th[t].pc = "idle" THEN th[t] = IdleThread ELSE th[t].op # "none"

\* The places of ltfs_revalidate: with the fence up, with vol->reval running,
\* and with the volume taken exclusively.
Fencing == {"rv_mark", "rv_unlock", "rv_lock", "rv_start", "rv_check", "rv_unfence"}
Running == {"rv_unlock", "rv_lock", "rv_start", "rv_check", "rv_unfence", "rv_record"}
Owning == {"rv_start", "rv_check", "rv_unfence", "rv_record", "rv_return"}

\* Which volume lock a thread holds where, and that a writer is alone.
LocksMatch ==
    \A t \in RevalThreads :
        /\ th[t].pc \in {"idle", "wait", "acquire", "waitreval", "rv_lock"} => held[t] = "none"
        /\ th[t].pc \in {"recheck", "peek", "device"}
              => held[t] = IF Exclusive(th[t].op) THEN "write" ELSE "read"
        /\ th[t].pc = "send" =>
              /\ held[t] # "none"
              /\ th[t].op \in Unfenced => held[t] = "write"
              /\ ~Exclusive(th[t].op) => held[t] = "read"
        /\ th[t].pc \in {"rv_mark", "rv_unlock"}
              => held[t] = IF th[t].op \in Unfenced THEN "write" ELSE "read"
        /\ th[t].pc \in {"rv_unlock", "rv_lock"} => th[t].op \notin Unfenced
        /\ th[t].pc \in Owning => held[t] = "write"
WriterAlone ==
    \A t, u \in RevalThreads : (held[t] = "write" /\ t # u) => held[u] = "none"

\* The device mutex belongs to the thread that sends, unless it unmounts.
OwnerSends ==
    \A t \in RevalThreads :
        backend.owner = t <=> (th[t].pc = "send" /\ th[t].op # "unmount")

\* The fence is up exactly while a thread that raised it revalidates, and
\* vol->reval says running exactly while somebody does.
FenceMatches ==
    /\ \A t \in RevalThreads : (th[t].pc \in Fencing /\ th[t].op \notin Unfenced) => backend.fence
    /\ backend.fence => \E t \in RevalThreads : th[t].pc \in Fencing /\ th[t].op \notin Unfenced
RunningMatches ==
    reval = "running" <=> \E t \in RevalThreads : th[t].pc \in Running

\* One thread at a time revalidates or sends, and an unmount is alone.
OneAtWork ==
    \A t, u \in RevalThreads : t # u =>
        /\ ~((Revalidating(t) \/ th[t].pc = "send") /\ (Revalidating(u) \/ th[u].pc = "send"))
        /\ th[t].op = "unmount" => th[u].pc = "idle"
UnmountedIsIdle ==
    ~vol.mounted => \A t \in RevalThreads : th[t].pc = "idle"

\* The commands a revalidation has left tell how it ended, and after a failure
\* no writer gets to the device.
VerdictKept ==
    \A t \in RevalThreads :
        /\ th[t].pc = "rv_return" => reval = IF th[t].todo = <<>> THEN "ok" ELSE "failed"
        /\ th[t].pc = "rv_unfence" => th[t].todo # <<>>
FailureStops ==
    reval = "failed" => \A t \in RevalThreads :
        th[t].pc \in {"device", "send"} => ~Exclusive(th[t].op)

Discipline ==
    /\ OpsMatch /\ LocksMatch /\ WriterAlone /\ OwnerSends /\ FenceMatches /\ RunningMatches
    /\ OneAtWork /\ UnmountedIsIdle /\ VerdictKept /\ FailureStops

\* The commands of a call: a record is written behind a seek to its partition
\* and behind other records of that partition, the MAM is updated behind the
\* last filemark of an index.
Writes == {"flush", "fm", "idx", "endfm", "data"}
Chain(c) ==
    \A i \in 1..Len(c) :
        /\ (i > 1 /\ c[i][1] \in Writes)
              => c[i - 1][1] \in {"seek", "flush", "fm", "idx", "data"} /\ c[i - 1][2] = c[i][2]
        /\ (i > 1 /\ c[i][1] = "mamset") => c[i - 1][1] = "endfm"
Starts(c) == c # <<>> => c[1][1] \notin Writes \cup {"mamset"}

\* Readers send queries and reads; the calls that write data end in a seek and
\* two records of data, and no other call has any.
WritesData(op) == op \in {"write_ip", "write_dp"}
PartOf(op) == IF op = "write_ip" THEN "ip" ELSE "dp"
Fits(c, op) ==
    /\ ~Exclusive(op) => \A i \in 1..Len(c) : c[i][1] \in {"query", "read"}
    /\ ~WritesData(op) => \A i \in 1..Len(c) : c[i][1] \notin {"down", "data"}
    /\ WritesData(op) => \A i \in 1..Len(c) :
          /\ i > Len(c) - 2 => c[i] = <<"data", PartOf(op)>>
          /\ i = Len(c) - 2 => c[i] = <<"seek", PartOf(op)>>
          /\ i <= Len(c) - 2 => c[i][1] # "data"
ScriptOf(r) ==
    /\ r.pc = "send" => Chain(r.todo) /\ Fits(r.todo, r.op)
    /\ r.pc \in {"rv_check", "rv_unfence"} =>
          /\ Len(r.todo) <= 8
          /\ \A i \in 1..Len(r.todo) : r.todo[i] = Checks[8 - Len(r.todo) + i]
Scripts == \A t \in RevalThreads : ScriptOf(th[t])

\* What a step of t leaves alone: the other threads, and the call t is in.
OthersStay(t) == \A u \in RevalThreads \ {t} : th'[u] = th[u]
SameCall(t) ==
    /\ th'[t].op = th[t].op /\ th'[t].call = th[t].call /\ th'[t].start = th[t].start
    /\ th'[t].target = th[t].target /\ th'[t].saved = th[t].saved

(* A thread at rest is a thread state. *)
LEMMA IdleTyped == IdleThread \in ThreadStates
  BY DEF IdleThread, ThreadStates, PCs, AllOps, CmdLists, CmdNames, Partitions

(* A step of t replaces the state of t alone. *)
LEMMA Replace ==
    ASSUME ThreadsTyped, NEW t \in RevalThreads, NEW r \in ThreadStates,
           th' = [th EXCEPT ![t] = r]
    PROVE  ThreadsTyped' /\ th'[t] = r /\ OthersStay(t)
  BY DEF ThreadsTyped, OthersStay

(* Goto moves one thread and keeps its call and its command list. *)
LEMMA GotoStep ==
    ASSUME ThreadsTyped, NEW t \in RevalThreads, NEW l \in PCs, Goto(t, l)
    PROVE  /\ ThreadsTyped' /\ OthersStay(t) /\ SameCall(t)
           /\ th'[t].pc = l /\ th'[t].todo = th[t].todo
<1>1. [th[t] EXCEPT !.pc = l] \in ThreadStates
  BY DEF ThreadsTyped, ThreadStates
<1>2. ThreadsTyped' /\ th'[t] = [th[t] EXCEPT !.pc = l] /\ OthersStay(t)
  BY <1>1, Replace DEF Goto
<1> QED
  BY <1>2 DEF ThreadsTyped, ThreadStates, SameCall

(* A call that returns leaves its thread at rest. *)
LEMMA ReturnStep ==
    ASSUME ThreadsTyped, NEW t \in RevalThreads, Return(t)
    PROVE  ThreadsTyped' /\ OthersStay(t) /\ th'[t] = IdleThread
  BY IdleTyped, Replace DEF Return

(* A command that is sent leaves the list, and nothing else of its thread. *)
LEMMA AdvanceStep ==
    ASSUME ThreadsTyped, NEW t \in RevalThreads, Advance(t), th[t].todo # <<>>
    PROVE  /\ ThreadsTyped' /\ OthersStay(t) /\ SameCall(t)
           /\ th'[t].pc = th[t].pc /\ th'[t].todo = Tail(th[t].todo)
<1>1. th[t].todo \in CmdLists
  BY DEF ThreadsTyped, ThreadStates
<1>2. Tail(th[t].todo) \in CmdLists
  BY <1>1 DEF CmdLists
<1>3. [th[t] EXCEPT !.todo = Tail(th[t].todo)] \in ThreadStates
  BY <1>2 DEF ThreadsTyped, ThreadStates
<1>4. ThreadsTyped' /\ th'[t] = [th[t] EXCEPT !.todo = Tail(th[t].todo)] /\ OthersStay(t)
  BY <1>3, Replace DEF Advance
<1> QED
  BY <1>4 DEF ThreadsTyped, ThreadStates, SameCall

(* The commands of a call are commands. *)
LEMMA CommandsTyped ==
    ASSUME NEW op \in AllOps \ {"none", "sync"}, NEW p \in Partitions
    PROVE  Commands(op, p) \in CmdLists
<1>1. \A x, y \in CmdLists : x \o y \in CmdLists
  BY DEF CmdLists
<1>2. <<>> \in CmdLists
  BY DEF CmdLists
<1>3. ASSUME NEW q \in Partitions
      PROVE  /\ << <<"seek", q>> >> \in CmdLists
             /\ << <<"flush", q>> >> \in CmdLists
             /\ << <<"fm", q>>, <<"idx", q>>, <<"endfm", q>>, <<"mamset", q>> >> \in CmdLists
             /\ << <<"down", q>>, <<"seek", q>>, <<"data", q>>, <<"data", q>> >> \in CmdLists
  BY DEF CmdLists, CmdNames
<1>4. ASSUME NEW q \in Partitions PROVE WriteIndexOne(q) \in CmdLists
  <2>1. CASE q = "ip" /\ ~vol.ends["ip"]
    <3>1. << <<"seek", q>> >> \o << <<"flush", q>> >> \in CmdLists
      BY <1>1, <1>3
    <3> QED
      BY <3>1, <2>1, <1>1, <1>3 DEF WriteIndexOne
  <2>2. CASE ~(q = "ip" /\ ~vol.ends["ip"])
    <3>1. << <<"seek", q>> >> \o <<>> \in CmdLists
      BY <1>1, <1>2, <1>3
    <3> QED
      BY <3>1, <2>2, <1>1, <1>3 DEF WriteIndexOne
  <2> QED
    BY <2>1, <2>2
<1>5. ASSUME NEW q \in Partitions PROVE WriteIndex(q) \in CmdLists
  BY <1>1, <1>2, <1>4 DEF WriteIndex, Partitions
<1>6. ASSUME NEW q \in Partitions PROVE WriteIndexConditional(q) \in CmdLists
  BY <1>2, <1>5 DEF WriteIndexConditional
<1>7. ASSUME NEW q \in Partitions PROVE WriteData(q) \in CmdLists
  BY <1>1, <1>6, <1>3 DEF WriteData, Partitions
<1>8. /\ TestUnitReady \in CmdLists /\ CapacityData \in CmdLists
      /\ CartridgeHealth \in CmdLists /\ FsrawRead \in CmdLists
  BY DEF TestUnitReady, CapacityData, CartridgeHealth, FsrawRead, Partitions, CmdNames, CmdLists
<1>9. Unmount \in CmdLists
  BY <1>2, <1>5 DEF Unmount, Partitions
<1> QED
  BY <1>2, <1>5, <1>7, <1>8, <1>9 DEF Commands, Partitions, AllOps

(* The next command of a list that is not empty is a command on a partition. *)
LEMMA HeadTyped ==
    ASSUME Types, NEW t \in RevalThreads, th[t].todo # <<>>
    PROVE  Cmd(t) \in CmdNames /\ Prt(t) \in Partitions
<1>1. th[t].todo \in Seq(CmdNames \X Partitions)
  BY DEF Types, ThreadsTyped, ThreadStates, CmdLists
<1>2. Head(th[t].todo) \in CmdNames \X Partitions
  BY <1>1
<1> QED
  BY <1>2 DEF Cmd, Prt

(* Where a seek goes is a block number. *)
LEMMA SeekTargetTyped ==
    ASSUME Types, NEW p \in Partitions
    PROVE  SeekTarget(p) \in Nat /\ Len(tape.part[p]) \in Nat
  BY DEF Types, MediumTyped, Volumes, Tapes, SeekTarget

(* The steps of a thread that set more than one field of its state. *)
LEMMA CallStep ==
    ASSUME Types, NEW t \in RevalThreads, NEW op \in RevalOps, Call(t, op)
    PROVE  /\ ThreadsTyped' /\ OthersStay(t)
           /\ th'[t].pc = "wait" /\ th'[t].op = op /\ th'[t].todo = <<>>
<1> DEFINE r == [IdleThread EXCEPT !.pc = "wait", !.op = op, !.call = budget.calls + 1]
<1>1. th' = [th EXCEPT ![t] = r]
  BY DEF Call
<1>2. "wait" \in PCs /\ op \in AllOps /\ budget.calls + 1 \in Nat
  BY RevalAssumption DEF PCs, AllOps, Types, FlagsTyped
<1>3. /\ r \in ThreadStates
      /\ r.pc = "wait" /\ r.op = op /\ r.todo = IdleThread.todo
  BY <1>2, IdleTyped DEF ThreadStates
<1>4. IdleThread.todo = <<>>
  BY DEF IdleThread
<1> QED
  BY <1>1, <1>3, <1>4, Replace DEF Types

(* ltfs_sync_index goes on to write the index it has found dirty. *)
LEMMA SyncPeekStep ==
    ASSUME Types, NEW t \in RevalThreads, SyncPeek(t), vol.dirty
    PROVE  /\ ThreadsTyped' /\ OthersStay(t)
           /\ th'[t].pc = "wait" /\ th'[t].op = "sync_write" /\ th'[t].todo = th[t].todo
<1>1. PICK p \in Partitions :
         th' = [th EXCEPT ![t].pc = "wait", ![t].op = "sync_write", ![t].target = p]
  BY DEF SyncPeek, Partitions
<1> DEFINE r == [th[t] EXCEPT !.pc = "wait", !.op = "sync_write", !.target = p]
<1>2. "wait" \in PCs /\ "sync_write" \in AllOps
  BY DEF PCs, AllOps
<1>3. /\ r \in ThreadStates /\ th' = [th EXCEPT ![t] = r]
      /\ r.pc = "wait" /\ r.op = "sync_write" /\ r.todo = th[t].todo
  BY <1>1, <1>2 DEF Types, ThreadsTyped, ThreadStates
<1> QED
  BY <1>3, Replace DEF Types

(* A thread that gets the device gets the commands of its call. *)
LEMMA DeviceLockStep ==
    ASSUME Types, NEW t \in RevalThreads, DeviceLock(t), th[t].op \notin {"none", "sync"}
    PROVE  /\ ThreadsTyped' /\ OthersStay(t) /\ SameCall(t)
           /\ th'[t].pc = "send"
           /\ \E p \in Partitions : th'[t].todo = Commands(th[t].op, p)
<1>1. PICK p \in Partitions :
         th' = [th EXCEPT ![t].pc = "send", ![t].todo = Commands(th[t].op, p)]
  BY DEF DeviceLock, Partitions, Types, ThreadsTyped, ThreadStates
<1> DEFINE c == Commands(th[t].op, p)
           r == [th[t] EXCEPT !.pc = "send", !.todo = c]
<1>2. "send" \in PCs /\ c \in CmdLists
  BY CommandsTyped DEF PCs, Types, ThreadsTyped, ThreadStates
<1> HIDE DEF c
<1>3. /\ r \in ThreadStates /\ th' = [th EXCEPT ![t] = r]
      /\ r.pc = "send" /\ r.todo = c /\ r.op = th[t].op /\ r.call = th[t].call
      /\ r.start = th[t].start /\ r.target = th[t].target /\ r.saved = th[t].saved
  BY <1>1, <1>2 DEF Types, ThreadsTyped, ThreadStates, c
<1> QED
  BY <1>3, Replace DEF Types, SameCall, c

(* tape_seek notes the block it has gone to as the start of the write. *)
LEMMA TapeSeekStep ==
    ASSUME Types, NEW t \in RevalThreads, TapeSeek(t)
    PROVE  /\ ThreadsTyped' /\ OthersStay(t)
           /\ th'[t].pc = "send" /\ th'[t].op = th[t].op /\ th'[t].call = th[t].call
           /\ th'[t].todo = Tail(th[t].todo) /\ th'[t].start = SeekTarget(Prt(t))
<1> DEFINE b == SeekTarget(Prt(t))
           c == Tail(th[t].todo)
           r == [th[t] EXCEPT !.todo = c, !.start = b]
<1>1. th' = [th EXCEPT ![t].todo = c, ![t].start = b]
  BY DEF TapeSeek
<1>2. b \in Nat
  BY HeadTyped, SeekTargetTyped DEF TapeSeek, Sending
<1>3. th[t].todo \in CmdLists /\ th[t].todo # <<>>
  BY DEF Types, ThreadsTyped, ThreadStates, TapeSeek, Sending
<1>4. c \in CmdLists
  BY <1>3 DEF CmdLists
<1> HIDE DEF b, c
<1>5. /\ r \in ThreadStates /\ th' = [th EXCEPT ![t] = r]
      /\ r.pc = th[t].pc /\ r.todo = c /\ r.op = th[t].op /\ r.call = th[t].call /\ r.start = b
  BY <1>1, <1>2, <1>4 DEF Types, ThreadsTyped, ThreadStates
<1> QED
  BY <1>5, Replace DEF Types, TapeSeek, Sending, b, c

(* A thread told of a change drops the rest of its commands. *)
LEMMA NeedRevalStep ==
    ASSUME Types, NEW t \in RevalThreads, NeedReval(t)
    PROVE  /\ ThreadsTyped' /\ OthersStay(t) /\ SameCall(t)
           /\ th'[t].pc = "rv_mark" /\ th'[t].todo = <<>>
<1> DEFINE r == [th[t] EXCEPT !.pc = "rv_mark", !.todo = <<>>]
<1>1. th' = [th EXCEPT ![t].pc = "rv_mark", ![t].todo = <<>>]
  BY DEF NeedReval
<1>2. "rv_mark" \in PCs /\ <<>> \in CmdLists
  BY DEF PCs, CmdLists
<1>3. /\ r \in ThreadStates /\ th' = [th EXCEPT ![t] = r]
      /\ r.pc = "rv_mark" /\ r.todo = <<>> /\ r.op = th[t].op /\ r.call = th[t].call
      /\ r.start = th[t].start /\ r.target = th[t].target /\ r.saved = th[t].saved
  BY <1>1, <1>2 DEF Types, ThreadsTyped, ThreadStates
<1> QED
  BY <1>3, Replace DEF Types, SameCall

(* ltfs_revalidate starts with all its checks and the append positions saved. *)
LEMMA RevalStartStep ==
    ASSUME Types, NEW t \in RevalThreads, RevalStart(t)
    PROVE  /\ ThreadsTyped' /\ OthersStay(t)
           /\ th'[t].pc = "rv_check" /\ th'[t].todo = Checks /\ th'[t].saved = vol.append
           /\ th'[t].op = th[t].op
<1> DEFINE r == [th[t] EXCEPT !.pc = "rv_check", !.todo = Checks, !.saved = vol.append]
<1>1. th' = [th EXCEPT ![t].pc = "rv_check", ![t].todo = Checks, ![t].saved = vol.append]
  BY DEF RevalStart
<1>2. "rv_check" \in PCs /\ Checks \in CmdLists /\ vol.append \in [Partitions -> Nat]
  BY DEF PCs, CmdLists, Checks, CmdNames, Partitions, Types, MediumTyped, Volumes
<1>3. /\ r \in ThreadStates /\ th' = [th EXCEPT ![t] = r]
      /\ r.pc = "rv_check" /\ r.todo = Checks /\ r.saved = vol.append /\ r.op = th[t].op
  BY <1>1, <1>2 DEF Types, ThreadsTyped, ThreadStates
<1> QED
  BY <1>3, Replace DEF Types

(* After a revalidation that passed, ltfs_sync_index starts over with its peek. *)
LEMMA RetryStep ==
    ASSUME Types, NEW t \in RevalThreads, RevalReturn(t), th[t].todo = <<>>
    PROVE  /\ ThreadsTyped' /\ OthersStay(t)
           /\ th'[t].pc = "wait" /\ th'[t].todo = <<>>
           /\ th'[t].op = IF th[t].op = "sync_write" THEN "sync" ELSE th[t].op
<1> DEFINE o == IF th[t].op = "sync_write" THEN "sync" ELSE th[t].op
           r == [th[t] EXCEPT !.pc = "wait", !.op = o]
<1>1. th' = [th EXCEPT ![t].pc = "wait", ![t].op = o]
  BY DEF RevalReturn
<1>2. "wait" \in PCs /\ o \in AllOps
  BY DEF PCs, AllOps, Types, ThreadsTyped, ThreadStates
<1> HIDE DEF o
<1>3. /\ r \in ThreadStates /\ th' = [th EXCEPT ![t] = r]
      /\ r.pc = "wait" /\ r.todo = <<>> /\ r.op = o
  BY <1>1, <1>2 DEF Types, ThreadsTyped, ThreadStates
<1> QED
  BY <1>3, Replace DEF Types, o

(* The steps that take and give back locks keep the types. *)
LEMMA LockSteps ==
    ASSUME Types, OpsMatch, NEW t \in RevalThreads,
           \/ GetVolumeLockWait(t) \/ GetVolumeLockAcquire(t) \/ GetVolumeLockRecheck(t)
           \/ SyncPeek(t) \/ DeviceLock(t) \/ DeviceFenced(t) \/ WaitRevalidation(t)
    PROVE  Types'
<1> USE DEF Types, FlagsTyped, ReleaseLock
<1>1. CASE GetVolumeLockWait(t)
  BY <1>1, GotoStep DEF GetVolumeLockWait, MediumTyped, PCs
<1>2. CASE GetVolumeLockAcquire(t)
  BY <1>2, GotoStep DEF GetVolumeLockAcquire, MediumTyped, PCs
<1>3. CASE GetVolumeLockRecheck(t)
  BY <1>3, GotoStep, ReturnStep DEF GetVolumeLockRecheck, MediumTyped, PCs
<1>4. CASE SyncPeek(t)
  BY <1>4, SyncPeekStep, ReturnStep DEF SyncPeek, MediumTyped
<1>5. CASE DeviceLock(t)
  <2>1. backend' \in Backends
    BY <1>5 DEF DeviceLock, Backends
  <2> QED
    BY <1>5, <2>1, DeviceLockStep DEF DeviceLock, MediumTyped, OpsMatch
<1>6. CASE DeviceFenced(t)
  BY <1>6, GotoStep, ReturnStep DEF DeviceFenced, MediumTyped, PCs
<1>7. CASE WaitRevalidation(t)
  BY <1>7, GotoStep, ReturnStep DEF WaitRevalidation, MediumTyped, PCs
<1> QED
  BY <1>1, <1>2, <1>3, <1>4, <1>5, <1>6, <1>7

(* The commands keep the types, for a write at or before the end of data. *)
LEMMA TapeSteps ==
    ASSUME Types, NEW t \in RevalThreads,
           \/ ClearIndexEnd(t) \/ TapeSeek(t) \/ TapeWrite(t) \/ TapeQuery(t)
           \/ MamUpdateFails(t) \/ NeedReval(t) \/ UnexpectedMove(t)
           \/ Finish(t) \/ UnmountEnds(t),
           TapeWrite(t) => vol.pos.block <= Len(tape.part[vol.pos.part])
    PROVE  Types'
<1> USE DEF Types, FlagsTyped, ReleaseLock
<1>1. CASE ClearIndexEnd(t)
  <2>1. vol' \in Volumes
    BY <1>1, HeadTyped DEF ClearIndexEnd, Sending, MediumTyped, Volumes
  <2> QED
    BY <1>1, <2>1, AdvanceStep DEF ClearIndexEnd, Sending, MediumTyped
<1>2. CASE TapeSeek(t)
  <2> DEFINE p == Prt(t)
             b == SeekTarget(p)
  <2>1. p \in Partitions /\ b \in Nat
    BY <1>2, HeadTyped, SeekTargetTyped DEF TapeSeek, Sending
  <2>2. At(p, b) \in Places
    BY <2>1 DEF At, Places
  <2>3. vol' \in Volumes
    BY <1>2, <2>1, <2>2 DEF TapeSeek, MediumTyped, Volumes
  <2>4. tape' \in Tapes
    BY <1>2, <2>1, <2>2 DEF TapeSeek, MediumTyped, Tapes
  <2> QED
    BY <1>2, <2>3, <2>4, TapeSeekStep DEF TapeSeek, MediumTyped
<1>3. CASE TapeWrite(t)
  <2> DEFINE p == vol.pos.part
             b == vol.pos.block
             s == Append(SubSeq(tape.part[p], 1, b), Record(t))
  <2>0. p \in Partitions /\ b \in Nat
    BY DEF MediumTyped, Volumes, Places
  <2>1. Record(t) \in Records
    BY <1>3 DEF TapeWrite, Record, Records, Data, Idx, Fm, ThreadsTyped, ThreadStates
  <2>2. s \in Seq(Records)
    <3>1. tape.part[p] \in Seq(Records)
      BY <2>0 DEF MediumTyped, Tapes
    <3>2. SubSeq(tape.part[p], 1, b) \in Seq(Records)
      BY <1>3, <3>1, <2>0, SubSeqProperties
    <3> QED
      BY <3>2, <2>1
  <2>3. At(p, b + 1) \in Places /\ At(p, th[t].start + 1) \in Places
    BY <2>0 DEF At, Places, ThreadsTyped, ThreadStates
  <2>4. tape' \in Tapes
    <3>1. tape' = [tape EXCEPT !.part[p] = s, !.head = At(p, b + 1),
                               !.safe[p] = IF Cmd(t) = "endfm" THEN s ELSE @]
      BY <1>3 DEF TapeWrite
    <3> HIDE DEF s, p, b
    <3> QED
      BY <3>1, <2>0, <2>2, <2>3 DEF MediumTyped, Tapes
  <2>5. vol' \in Volumes
    <3> DEFINE last == Cmd(t) = "endfm"
               a == IF last /\ p = "ip" THEN th[t].start ELSE b + 1
               e == last \/ vol.ends[p]
               f == IF last THEN At(p, th[t].start + 1) ELSE vol.self
               k == IF last /\ vol.self.part = "dp" THEN vol.self ELSE vol.back
               d == ~last /\ vol.dirty
    <3>1. a \in Nat /\ f \in Places /\ k \in Places /\ e \in BOOLEAN /\ d \in BOOLEAN
      BY <2>0, <2>3 DEF MediumTyped, Volumes, ThreadsTyped, ThreadStates
    <3>2. vol' = [vol EXCEPT !.pos.block = b + 1, !.append[p] = a, !.ends[p] = e,
                             !.self = f, !.back = k, !.dirty = d]
      BY <1>3 DEF TapeWrite
    <3>3. vol.pos \in Places /\ [vol.pos EXCEPT !.block = b + 1] \in Places
      <4>1. vol.pos \in Places /\ b + 1 \in Nat
        BY <2>0 DEF MediumTyped, Volumes, Places
      <4> DEFINE pos == vol.pos
                 next == b + 1
      <4>2. pos \in Places /\ next \in Nat
        BY <4>1
      <4> HIDE DEF pos, next
      <4>3. [pos EXCEPT !.block = next] \in Places
        BY <4>2 DEF Places
      <4> QED BY <4>1, <4>3 DEF pos, next
    <3> HIDE DEF p, b, last, a, e, f, k, d
    <3> QED
      BY <2>0, <3>1, <3>2, <3>3 DEF MediumTyped, Volumes
  <2>6. seen' \in Histories
    BY <1>3 DEF TapeWrite, MediumTyped, Histories
  <2> QED
    BY <1>3, <2>4, <2>5, <2>6, AdvanceStep DEF TapeWrite, Sending, MediumTyped
<1>4. CASE TapeQuery(t)
  <2>1. At("dp", 4) \in Places
    BY DEF At, Places, Partitions
  <2>2. vol' \in Volumes
    BY <1>4, <2>1 DEF TapeQuery, MediumTyped, Volumes
  <2>3. tape' \in Tapes
    BY <1>4, <2>1 DEF TapeQuery, MediumTyped, Tapes
  <2> QED
    BY <1>4, <2>2, <2>3, AdvanceStep DEF TapeQuery, Sending, MediumTyped
<1>5. CASE MamUpdateFails(t)
  BY <1>5, AdvanceStep DEF MamUpdateFails, Sending, MediumTyped, Histories
<1>6. CASE NeedReval(t)
  <2>1. backend' \in Backends
    BY <1>6 DEF NeedReval, Backends
  <2> QED
    BY <1>6, <2>1, NeedRevalStep DEF NeedReval, MediumTyped
<1>7. CASE UnexpectedMove(t)
  <2>1. vol' \in Volumes /\ backend' \in Backends
    BY <1>7 DEF UnexpectedMove, MediumTyped, Volumes, Backends
  <2> QED
    BY <1>7, <2>1, ReturnStep DEF UnexpectedMove, MediumTyped
<1>8. CASE Finish(t)
  <2>1. backend' \in Backends
    BY <1>8 DEF Finish, Backends
  <2>2. vol' \in Volumes
    BY <1>8 DEF Finish, MediumTyped, Volumes
  <2>3. seen' \in Histories
    <3> DEFINE x == IF th[t].op \in {"write_ip", "write_dp"}
                    THEN {[at |-> At(IF th[t].op = "write_ip" THEN "ip" ELSE "dp", th[t].start),
                           call |-> th[t].call]}
                    ELSE {}
    <3>1. x \in SUBSET [at : Places, call : Nat]
      BY DEF ThreadsTyped, ThreadStates, Places, Partitions, At
    <3>2. seen' = [seen EXCEPT !.acked = @ \cup x]
      BY <1>8 DEF Finish
    <3> HIDE DEF x
    <3> QED
      BY <3>1, <3>2 DEF MediumTyped, Histories
  <2> QED
    BY <1>8, <2>1, <2>2, <2>3, ReturnStep DEF Finish, MediumTyped
<1>9. CASE UnmountEnds(t)
  BY <1>9, ReturnStep DEF UnmountEnds, MediumTyped, Volumes
<1> QED
  BY <1>1, <1>2, <1>3, <1>4, <1>5, <1>6, <1>7, <1>8, <1>9

(* The steps of ltfs_revalidate keep the types. *)
LEMMA RevalSteps ==
    ASSUME Types, NEW t \in RevalThreads,
           \/ RevalMark(t) \/ RevalUnlock(t) \/ RevalLock(t) \/ RevalStart(t)
           \/ RevalRepeats(t) \/ RevalCheck(t) \/ RevalFails(t)
           \/ RevalUnfence(t) \/ RevalRecord(t) \/ RevalReturn(t)
    PROVE  Types'
<1> USE DEF Types, FlagsTyped, ReleaseLock
<1>1. CASE RevalMark(t)
  BY <1>1, GotoStep DEF RevalMark, MediumTyped, PCs
<1>2. CASE RevalUnlock(t)
  BY <1>2, GotoStep DEF RevalUnlock, MediumTyped, PCs
<1>3. CASE RevalLock(t)
  BY <1>3, GotoStep DEF RevalLock, MediumTyped, PCs
<1>4. CASE RevalStart(t)
  BY <1>4, RevalStartStep DEF RevalStart, MediumTyped
<1>5. CASE RevalRepeats(t)
  BY <1>5 DEF RevalRepeats, ThreadsTyped, MediumTyped
<1>6. CASE RevalCheck(t)
  <2> DEFINE at == CASE Cmd(t) = "load" -> At("ip", 0)
                     [] Cmd(t) = "label" -> At("dp", 1)
                     [] Cmd(t) = "seekeod" -> At(Prt(t), Len(tape.part[Prt(t)]))
                     [] OTHER -> vol.pos
             ap == CASE Cmd(t) = "load" -> [p \in Partitions |-> 0]
                     [] Cmd(t) = "seekeod" -> [vol.append EXCEPT ![Prt(t)] = th[t].saved[Prt(t)]]
                     [] OTHER -> vol.append
  <2>1. Prt(t) \in Partitions /\ Len(tape.part[Prt(t)]) \in Nat
    BY <1>6, HeadTyped, SeekTargetTyped DEF RevalCheck
  <2>2. at \in Places
    BY <2>1 DEF At, Places, Partitions, MediumTyped, Volumes
  <2>3. ap \in [Partitions -> Nat]
    BY <2>1 DEF MediumTyped, Volumes, ThreadsTyped, ThreadStates
  <2>4. vol' = [vol EXCEPT !.pos = at, !.append = ap]
    BY <1>6 DEF RevalCheck
  <2>5. tape' = IF Cmd(t) \in {"load", "label", "seekeod"}
                THEN [tape EXCEPT !.head = at, !.safe = tape.part] ELSE tape
    BY <1>6 DEF RevalCheck
  <2> HIDE DEF at, ap
  <2>6. vol' \in Volumes
    BY <2>2, <2>3, <2>4 DEF MediumTyped, Volumes
  <2>7. tape' \in Tapes
    BY <2>2, <2>5 DEF MediumTyped, Tapes
  <2> QED
    BY <1>6, <2>6, <2>7, AdvanceStep DEF RevalCheck, MediumTyped
<1>7. CASE RevalFails(t)
  BY <1>7, GotoStep DEF RevalFails, MediumTyped, PCs
<1>8. CASE RevalUnfence(t)
  BY <1>8, GotoStep DEF RevalUnfence, MediumTyped, Backends, PCs
<1>9. CASE RevalRecord(t)
  BY <1>9, GotoStep DEF RevalRecord, MediumTyped, PCs
<1>10. CASE RevalReturn(t)
  <2>1. CASE th[t].todo = <<>>
    BY <1>10, <2>1, RetryStep DEF RevalReturn, MediumTyped
  <2>2. CASE th[t].todo # <<>>
    BY <1>10, <2>2, ReturnStep DEF RevalReturn, MediumTyped, Volumes
  <2> QED
    BY <2>1, <2>2
<1> QED
  BY <1>1, <1>2, <1>3, <1>4, <1>5, <1>6, <1>7, <1>8, <1>9, <1>10

(* A set of natural numbers has a least element. *)
LEMMA LeastNatural ==
    ASSUME NEW T, T \subseteq Nat, T # {}
    PROVE  \E m \in T : \A n \in T : m <= n
<1>1. PICK m \in T : \A n \in T : ~(<<n, m>> \in OpToRel(<, Nat))
  BY NatLessThanWellFounded, WFMin, Zenon
<1>2. \A n \in T : ~(n < m)
  <2> SUFFICES ASSUME NEW n \in T, n < m PROVE FALSE
    OBVIOUS
  <2>1. <<n, m>> \in Nat \X Nat /\ <<n, m>>[1] = n /\ <<n, m>>[2] = m
    OBVIOUS
  <2>2. <<n, m>> \in {ss \in Nat \X Nat : ss[1] < ss[2]}
    BY <2>1
  <2> QED
    BY <1>1, <2>2, Zenon DEF OpToRel
<1> QED
  BY <1>2

(* The longest common prefix of two sequences is one of their prefixes. *)
LEMMA CommonPrefixTyped ==
    ASSUME NEW R, NEW a \in Seq(R), NEW b \in Seq(R)
    PROVE  Len(LongestCommonPrefix({a, b})) \in Nat
<1> DEFINE C == CommonPrefixes({a, b})
           T == {n \in Nat : \E c \in C : Len(c) + n = Len(a)}
<1>1. \A c \in C : c \in Seq(R) /\ Len(c) <= Len(a)
  <2> SUFFICES ASSUME NEW c \in C PROVE c \in Seq(R) /\ Len(c) <= Len(a)
    OBVIOUS
  <2>1. PICK x \in {a, b} : \E l \in 0..Len(x) : c = SubSeq(x, 1, l)
    BY DEF CommonPrefixes, Prefixes
  <2>2. PICK l \in 0..Len(x) : c = SubSeq(x, 1, l)
    BY <2>1
  <2>3. c \in Seq(R)
    BY <2>2, SubSeqProperties
  <2>4. Len(c) <= Len(a)
    BY DEF CommonPrefixes, IsPrefix
  <2> QED
    BY <2>3, <2>4
<1>2. <<>> \in C
  <2>1. SubSeq(a, 1, 0) = <<>> /\ SubSeq(b, 1, 0) = <<>>
    BY SubSeqEmpty
  <2>2. <<>> \in Prefixes(a)
    BY <2>1 DEF Prefixes
  <2>3. IsPrefix(<<>>, a) /\ IsPrefix(<<>>, b)
    BY <2>1, SubSeqEmpty DEF IsPrefix
  <2> QED
    BY <2>2, <2>3 DEF CommonPrefixes
<1>3. Len(a) \in T
  <2>1. Len(<<>>) + Len(a) = Len(a) /\ Len(a) \in Nat
    OBVIOUS
  <2> HIDE DEF C
  <2> QED
    BY <1>2, <2>1
<1>4. PICK m \in T : \A n \in T : m <= n
  <2> HIDE DEF C
  <2> QED
    BY <1>3, LeastNatural
<1>6. PICK c \in C : Len(c) + m = Len(a)
  OBVIOUS
<1> HIDE DEF C
<1>7. \A d \in C : Len(d) <= Len(c)
  <2> SUFFICES ASSUME NEW d \in C PROVE Len(d) <= Len(c)
    OBVIOUS
  <2>1. Len(d) \in Nat /\ Len(d) <= Len(a) /\ Len(c) \in Nat /\ Len(a) \in Nat
    BY <1>1
  <2>2. Len(a) - Len(d) \in T
    BY <2>1
  <2>3. m \in Nat
    OBVIOUS
  <2>4. m <= Len(a) - Len(d)
    <3> HIDE DEF T
    <3> QED
      BY <2>2, <1>4
  <2> QED
    BY <2>1, <2>3, <2>4, <1>6
<1>8. LongestCommonPrefix({a, b}) \in C
  BY <1>7 DEF LongestCommonPrefix, C
<1> QED
  BY <1>1, <1>8

(* What a reset can leave of a partition: its records up to some point, or what
   had left the buffer; all of it when everything had left the buffer. *)
LEMMA AfterResetKinds ==
    ASSUME Types, NEW p \in Partitions, NEW s \in AfterReset(p)
    PROVE  /\ s \in Seq(Records)
           /\ s = tape.safe[p] \/ \E n \in 0..Len(tape.part[p]) : s = SubSeq(tape.part[p], 1, n)
           /\ tape.safe[p] = tape.part[p] => s = tape.part[p]
<1> DEFINE a == tape.part[p]
           b == tape.safe[p]
           k == Len(LongestCommonPrefix({a, b}))
<1>1. a \in Seq(Records) /\ b \in Seq(Records)
  BY DEF Types, MediumTyped, Tapes
<1>2. k \in Nat
  BY <1>1, CommonPrefixTyped
<1>3. s = b \/ \E n \in k..Len(a) : s = SubSeq(a, 1, n)
  BY DEF AfterReset
<1>4. s = b \/ \E n \in 0..Len(a) : s = SubSeq(a, 1, n)
  BY <1>1, <1>2, <1>3
<1>5. s \in Seq(Records)
  BY <1>1, <1>4, SubSeqProperties
<1>6. ASSUME b = a PROVE s = a
  <2> DEFINE c == LongestCommonPrefix({a})
  <2>1. a \in CommonPrefixes({a})
    BY <1>1, SubSeqFull DEF CommonPrefixes, Prefixes, IsPrefix
  <2>2. \A d \in CommonPrefixes({a}) : Len(d) <= Len(a)
    BY DEF CommonPrefixes, IsPrefix
  <2>3. \A d \in CommonPrefixes({a}) : Len(d) <= Len(c)
    BY <2>1, <2>2 DEF LongestCommonPrefix
  <2>4. {a, b} = {a}
    BY <1>6
  <2>5. Len(a) <= k
    BY <2>1, <2>3, <2>4
  <2>6. s = a \/ s = SubSeq(a, 1, Len(a))
    <3>1. \A n \in k..Len(a) : n = Len(a)
      <4> HIDE DEF k, a
      <4> QED
        BY <1>1, <1>2, <2>5
    <3> QED
      BY <1>3, <1>6, <3>1
  <2> QED
    BY <1>1, <2>6, SubSeqFull
<1> QED
  BY <1>4, <1>5, <1>6

(* So does what happens to the drive. *)
LEMMA DriveSteps ==
    ASSUME Types, Reset \/ Swap \/ RemovalRequest
    PROVE  Types'
<1> USE DEF Types, FlagsTyped
<1>0. At("ip", 0) \in Places
  BY DEF At, Places, Partitions
<1>1. CASE Reset
  <2>1. PICK s \in [Partitions -> UNION {AfterReset(p) : p \in Partitions}] :
          /\ \A p \in Partitions : s[p] \in AfterReset(p)
          /\ tape' = [part |-> s, safe |-> s, head |-> At("ip", 0)]
          /\ seen' = [seen EXCEPT !.lost = @ \cup {p \in Partitions : s[p] # tape.part[p]}]
          /\ medium' \in IF s # tape.part /\ medium = "ours" THEN {"ours", "noeod"} ELSE {medium}
    BY <1>1 DEF Reset
  <2>2. s \in [Partitions -> Seq(Records)]
    BY <2>1, AfterResetKinds
  <2>3. tape' \in Tapes
    BY <2>1, <2>2, <1>0 DEF Tapes
  <2>4. seen' \in Histories
    BY <2>1 DEF MediumTyped, Histories
  <2>5. medium' \in {"ours", "other", "touched", "noeod"}
    BY <2>1
  <2> QED
    BY <1>1, <2>3, <2>4, <2>5 DEF Reset, Raise, MediumTyped, ThreadsTyped
<1>2. CASE Swap
  <2>1. tape' \in Tapes
    BY <1>2, <1>0 DEF Swap, MediumTyped, Tapes
  <2> QED
    BY <1>2, <2>1 DEF Swap, Raise, MediumTyped, ThreadsTyped
<1>3. CASE RemovalRequest
  BY <1>3 DEF RemovalRequest, Raise, MediumTyped, ThreadsTyped
<1> QED
  BY <1>1, <1>2, <1>3

(* Two command lists in order are in order one behind the other.               *)
LEMMA ChainConcat ==
    ASSUME NEW x \in CmdLists, NEW y \in CmdLists, Chain(x), Chain(y), Starts(x), Starts(y)
    PROVE  x \o y \in CmdLists /\ Chain(x \o y) /\ Starts(x \o y)
<1> DEFINE c == x \o y
<1>1. /\ c \in CmdLists /\ Len(c) = Len(x) + Len(y)
      /\ \A i \in 1..Len(c) : c[i] = IF i <= Len(x) THEN x[i] ELSE y[i - Len(x)]
  BY DEF CmdLists
<1>2. Len(x) \in Nat /\ Len(y) \in Nat /\ (x = <<>> <=> Len(x) = 0) /\ (y = <<>> <=> Len(y) = 0)
  BY DEF CmdLists
<1> HIDE DEF c
<1>3. Starts(c)
  BY <1>1, <1>2 DEF Starts, CmdLists
<1>4. Chain(c)
  <2> SUFFICES ASSUME NEW i \in 1..Len(c), i > 1
               PROVE  /\ c[i][1] \in Writes
                            => c[i - 1][1] \in {"seek", "flush", "fm", "idx", "data"} /\ c[i - 1][2] = c[i][2]
                      /\ c[i][1] = "mamset" => c[i - 1][1] = "endfm"
    BY DEF Chain
  <2>1. CASE i <= Len(x)
    BY <1>1, <1>2, <2>1 DEF Chain
  <2>2. CASE i = Len(x) + 1
    BY <1>1, <1>2, <2>2 DEF Starts
  <2>3. CASE i > Len(x) + 1
    <3>1. /\ i - Len(x) \in 1..Len(y) /\ i - Len(x) > 1 /\ c[i] = y[i - Len(x)]
          /\ c[i - 1] = y[(i - Len(x)) - 1]
      BY <1>1, <1>2, <2>3
    <3> QED
      BY <3>1 DEF Chain
  <2> QED
    BY <1>2, <2>1, <2>2, <2>3
<1> QED
  BY <1>1, <1>3, <1>4 DEF c

(* And when their first command has been sent. *)
LEMMA ChainTail ==
    ASSUME NEW c \in CmdLists, NEW op, c # <<>>, Chain(c), Fits(c, op)
    PROVE  Chain(Tail(c)) /\ Fits(Tail(c), op)
<1> DEFINE d == Tail(c)
<1>1. /\ Len(c) \in Nat /\ Len(c) > 0 /\ Len(d) = Len(c) - 1
      /\ \A i \in 1..Len(d) : d[i] = c[i + 1]
  BY DEF CmdLists
<1> HIDE DEF d
<1>2. ASSUME NEW i \in 1..Len(d)
      PROVE  /\ i + 1 \in 1..Len(c) /\ d[i] = c[i + 1] /\ (i + 1) - 1 = i /\ i + 1 > 1
             /\ i > 1 => d[i - 1] = c[i]
             /\ Len(c) - 2 = (Len(d) - 2) + 1
  BY <1>1
<1>3. Chain(d)
  <2> SUFFICES ASSUME NEW i \in 1..Len(d), i > 1
               PROVE  /\ d[i][1] \in Writes
                            => d[i - 1][1] \in {"seek", "flush", "fm", "idx", "data"} /\ d[i - 1][2] = d[i][2]
                      /\ d[i][1] = "mamset" => d[i - 1][1] = "endfm"
    BY DEF Chain
  <2> QED
    BY <1>2 DEF Chain
<1>4. Fits(d, op)
  <2>1. ASSUME ~Exclusive(op), NEW i \in 1..Len(d) PROVE d[i][1] \in {"query", "read"}
    BY <1>2, <2>1 DEF Fits
  <2>2. ASSUME ~WritesData(op), NEW i \in 1..Len(d) PROVE d[i][1] \notin {"down", "data"}
    BY <1>2, <2>2 DEF Fits
  <2>3. ASSUME WritesData(op), NEW i \in 1..Len(d)
        PROVE  /\ i > Len(d) - 2 => d[i] = <<"data", PartOf(op)>>
               /\ i = Len(d) - 2 => d[i] = <<"seek", PartOf(op)>>
               /\ i <= Len(d) - 2 => d[i][1] # "data"
    <3>1. /\ i > Len(d) - 2 => i + 1 > Len(c) - 2
          /\ i = Len(d) - 2 => i + 1 = Len(c) - 2
          /\ i <= Len(d) - 2 => i + 1 <= Len(c) - 2
      BY <1>1
    <3> QED
      BY <1>2, <2>3, <3>1 DEF Fits
  <2> QED
    BY <2>1, <2>2, <2>3 DEF Fits
<1> QED
  BY <1>3, <1>4 DEF d

(* The commands of every call are in order and fit the call, whatever the volume. *)
LEMMA CommandsFit ==
    ASSUME NEW op \in AllOps \ {"none", "sync"}, NEW p \in Partitions
    PROVE  /\ Chain(Commands(op, p)) /\ Starts(Commands(op, p)) /\ Fits(Commands(op, p), op)
           /\ WritesData(op) => Len(Commands(op, p)) > 3
<1> DEFINE Good(c) == c \in CmdLists /\ Chain(c) /\ Starts(c)
           Plain(c) == \A i \in 1..Len(c) : c[i][1] \notin {"down", "data"}
<1>1. \A x, y \in CmdLists : Good(x) /\ Good(y) => Good(x \o y)
  BY ChainConcat
<1>2. ASSUME NEW x \in CmdLists, NEW y \in CmdLists, Plain(x), Plain(y) PROVE Plain(x \o y)
  <2> SUFFICES ASSUME NEW i \in 1..Len(x \o y) PROVE (x \o y)[i][1] \notin {"down", "data"}
    OBVIOUS
  <2>1. CASE i <= Len(x)
    <3>1. i \in 1..Len(x) /\ (x \o y)[i] = x[i]
      BY <2>1 DEF CmdLists
    <3> QED
      BY <1>2, <3>1
  <2>2. CASE i > Len(x)
    <3>1. i - Len(x) \in 1..Len(y) /\ (x \o y)[i] = y[i - Len(x)]
      BY <2>2 DEF CmdLists
    <3> QED
      BY <1>2, <3>1
  <2>3. i \in Nat /\ Len(x) \in Nat
    BY DEF CmdLists
  <2> QED
    BY <2>1, <2>2, <2>3
<1>3. Good(<<>>) /\ Plain(<<>>)
  BY DEF CmdLists, Chain, Starts
<1>4. ASSUME NEW q \in Partitions PROVE Good(WriteIndexOne(q)) /\ Plain(WriteIndexOne(q))
  <2> DEFINE x == << <<"seek", q>> >>
             y == x \o << <<"flush", q>> >>
             z == << <<"fm", q>>, <<"idx", q>>, <<"endfm", q>>, <<"mamset", q>> >>
  <2>1. x \in CmdLists /\ x \o <<>> \in CmdLists /\ y \in CmdLists /\ z \in CmdLists
    BY DEF CmdLists, CmdNames
  <2>2. /\ Len(x \o <<>>) = 1 /\ (x \o <<>>)[1] = <<"seek", q>>
        /\ Len(y) = 2 /\ y[1] = <<"seek", q>> /\ y[2] = <<"flush", q>>
    OBVIOUS
  <2>3. WriteIndexOne(q) = (x \o <<>>) \o z \/ WriteIndexOne(q) = y \o z
    BY DEF WriteIndexOne
  <2>0. /\ Len(z) = 4 /\ z[1] = <<"fm", q>> /\ z[2] = <<"idx", q>> /\ z[3] = <<"endfm", q>>
        /\ z[4] = <<"mamset", q>>
    OBVIOUS
  <2> HIDE DEF z
  <2>4. ASSUME NEW c \in CmdLists, Len(c) = 1, c[1] = <<"seek", q>>
        PROVE  Good(c \o z) /\ Plain(c \o z)
    <3> DEFINE d == c \o z
    <3>1. /\ d \in CmdLists /\ Len(d) = 5 /\ d[1] = <<"seek", q>> /\ d[2] = <<"fm", q>>
          /\ d[3] = <<"idx", q>> /\ d[4] = <<"endfm", q>> /\ d[5] = <<"mamset", q>>
      <4>1. /\ d \in CmdLists /\ Len(d) = Len(c) + Len(z)
            /\ \A i \in 1..Len(d) : d[i] = IF i <= Len(c) THEN c[i] ELSE z[i - Len(c)]
        BY <2>1 DEF CmdLists
      <4> HIDE DEF d
      <4> QED
        BY <4>1, <2>0, <2>4
    <3>2. \A i \in 1..5 : i = 1 \/ i = 2 \/ i = 3 \/ i = 4 \/ i = 5
      OBVIOUS
    <3> HIDE DEF d
    <3>3. Chain(d)
      BY <3>1, <3>2 DEF Chain, Writes
    <3>4. Plain(d)
      BY <3>1, <3>2
    <3> QED
      BY <3>1, <3>3, <3>4 DEF Starts, Writes, d
  <2>5. ASSUME NEW c \in CmdLists, Len(c) = 2, c[1] = <<"seek", q>>, c[2] = <<"flush", q>>
        PROVE  Good(c \o z) /\ Plain(c \o z)
    <3> DEFINE d == c \o z
    <3>1. /\ d \in CmdLists /\ Len(d) = 6 /\ d[1] = <<"seek", q>> /\ d[2] = <<"flush", q>>
          /\ d[3] = <<"fm", q>> /\ d[4] = <<"idx", q>> /\ d[5] = <<"endfm", q>>
          /\ d[6] = <<"mamset", q>>
      <4>1. /\ d \in CmdLists /\ Len(d) = Len(c) + Len(z)
            /\ \A i \in 1..Len(d) : d[i] = IF i <= Len(c) THEN c[i] ELSE z[i - Len(c)]
        BY <2>1 DEF CmdLists
      <4> HIDE DEF d
      <4> QED
        BY <4>1, <2>0, <2>5
    <3>2. \A i \in 1..6 : i = 1 \/ i = 2 \/ i = 3 \/ i = 4 \/ i = 5 \/ i = 6
      OBVIOUS
    <3> HIDE DEF d
    <3>3. Chain(d)
      BY <3>1, <3>2 DEF Chain, Writes
    <3>4. Plain(d)
      BY <3>1, <3>2
    <3> QED
      BY <3>1, <3>3, <3>4 DEF Starts, Writes, d
  <2> HIDE DEF x, y, z, Good, Plain
  <2> QED
    BY <2>1, <2>2, <2>3, <2>4, <2>5 DEF y
<1> HIDE DEF Good, Plain
<1>5. ASSUME NEW q \in Partitions PROVE Good(WriteIndex(q)) /\ Plain(WriteIndex(q))
  BY <1>1, <1>2, <1>3, <1>4 DEF WriteIndex, Partitions, Good
<1>6. ASSUME NEW q \in Partitions
      PROVE  Good(WriteIndexConditional(q)) /\ Plain(WriteIndexConditional(q))
  BY <1>3, <1>5 DEF WriteIndexConditional
<1>7. ASSUME NEW q \in Partitions, NEW o, WritesData(o), PartOf(o) = q
      PROVE  Good(WriteData(q)) /\ Fits(WriteData(q), o) /\ Len(WriteData(q)) > 3
  <2> DEFINE x == WriteIndexConditional(IF q = "ip" THEN "dp" ELSE "ip")
             y == << <<"down", q>>, <<"seek", q>>, <<"data", q>>, <<"data", q>> >>
  <2>1. Good(x) /\ Plain(x)
    BY <1>6 DEF Partitions
  <2>2. Good(y)
    BY DEF Good, CmdLists, CmdNames, Chain, Starts, Writes
  <2> HIDE DEF x
  <2>3. Good(x \o y)
    BY <1>1, <2>1, <2>2 DEF Good
  <2>4. /\ Len(x \o y) = Len(x) + 4
        /\ \A i \in 1..Len(x) : (x \o y)[i] = x[i]
        /\ (x \o y)[Len(x) + 1] = <<"down", q>> /\ (x \o y)[Len(x) + 2] = <<"seek", q>>
        /\ (x \o y)[Len(x) + 3] = <<"data", q>> /\ (x \o y)[Len(x) + 4] = <<"data", q>>
        /\ Len(x) \in Nat
    BY <2>1, <2>2 DEF Good, CmdLists
  <2>5. Fits(x \o y, o)
    <3> DEFINE c == x \o y
    <3>1. \A i \in 1..Len(c) : i <= Len(x) \/ i = Len(x) + 1 \/ i = Len(x) + 2
                               \/ i = Len(x) + 3 \/ i = Len(x) + 4
      BY <2>4
    <3>2. Exclusive(o)
      BY <1>7 DEF WritesData, Exclusive
    <3> HIDE DEF c
    <3> QED
      BY <1>7, <2>1, <2>4, <3>1, <3>2 DEF Fits, Plain, c
  <2> QED
    <3>1. Len(x \o y) > 3
      BY <2>4
    <3> QED
      BY <2>3, <2>5, <3>1 DEF WriteData, x
<1>8. ASSUME NEW c, Good(c), Plain(c), NEW o, Exclusive(o), ~WritesData(o)
      PROVE  Fits(c, o)
  BY <1>8 DEF Fits, Plain
<1>9. ASSUME NEW o \in {"tur", "capacity", "getxattr", "read"}
      PROVE  Good(Commands(o, p)) /\ Fits(Commands(o, p), o)
  <2>1. ASSUME NEW c \in CmdLists, \A i \in 1..Len(c) : c[i][1] \in {"query", "read"}
        PROVE  Good(c) /\ Fits(c, o)
    BY <2>1 DEF Good, Chain, Starts, Writes, Fits, Exclusive, WritesData, CmdLists
  <2>2. ASSUME NEW c \in {TestUnitReady, CapacityData, CartridgeHealth, FsrawRead}
        PROVE  c \in CmdLists /\ \A i \in 1..Len(c) : c[i][1] \in {"query", "read"}
    <3>1. CASE c = TestUnitReady
      BY <3>1 DEF TestUnitReady, CmdLists, CmdNames, Partitions
    <3>2. CASE c = CapacityData
      BY <3>2 DEF CapacityData, CmdLists, CmdNames, Partitions
    <3>3. CASE c = CartridgeHealth
      BY <3>3 DEF CartridgeHealth, CmdLists, CmdNames, Partitions
    <3>4. CASE c = FsrawRead
      BY <3>4 DEF FsrawRead, CmdLists, CmdNames, Partitions
    <3> QED
      BY <3>1, <3>2, <3>3, <3>4
  <2>3. Commands(o, p) \in {TestUnitReady, CapacityData, CartridgeHealth, FsrawRead}
    BY DEF Commands
  <2> QED
    BY <2>1, <2>2, <2>3
<1>10. ASSUME NEW o \in {"sync_write", "set_sync", "unmount"}
       PROVE  Good(Commands(o, p)) /\ Fits(Commands(o, p), o)
  <2>1. Good(Commands(o, p)) /\ Plain(Commands(o, p))
    BY <1>3, <1>5 DEF Commands, Unmount, Partitions
  <2> QED
    BY <2>1, <1>8 DEF Exclusive, WritesData
<1>11. ASSUME NEW o \in {"write_ip", "write_dp"}
       PROVE  Good(Commands(o, p)) /\ Fits(Commands(o, p), o) /\ Len(Commands(o, p)) > 3
  BY <1>7 DEF Commands, WritesData, PartOf, Partitions
<1>12. Good(Commands(op, p)) /\ Fits(Commands(op, p), op)
  BY <1>9, <1>10, <1>11 DEF AllOps
<1>13. WritesData(op) => Len(Commands(op, p)) > 3
  BY <1>11 DEF WritesData
<1> QED
  BY <1>12, <1>13 DEF Good

(* A thread at rest holds no call and no commands. *)
LEMMA IdleFields ==
    /\ IdleThread.pc = "idle" /\ IdleThread.op = "none" /\ IdleThread.todo = <<>>
  BY DEF IdleThread

(* The steps that take and give back locks keep the discipline: a thread gets the *)
(* device only while nobody sends or revalidates.                                 *)
LEMMA DisciplineLocks ==
    ASSUME Types, Discipline, NEW t \in RevalThreads,
           \/ GetVolumeLockWait(t) \/ GetVolumeLockAcquire(t) \/ GetVolumeLockRecheck(t)
           \/ SyncPeek(t) \/ DeviceLock(t) \/ DeviceFenced(t) \/ WaitRevalidation(t)
    PROVE  Discipline'
<1> USE DEF Types, FlagsTyped, ReleaseLock, Discipline
<1>1. CASE GetVolumeLockWait(t)
  <2>1. /\ OthersStay(t) /\ SameCall(t) /\ th[t].pc = "wait"
        /\ th'[t].pc = "acquire" /\ th'[t].todo = th[t].todo
    BY <1>1, GotoStep DEF GetVolumeLockWait, PCs
  <2>2. /\ \A u \in RevalThreads \ {t} : held'[u] = held[u]
        /\ held'[t] = held[t] /\ reval' = reval /\ backend' = backend /\ vol'.mounted = vol.mounted
    BY <1>1 DEF GetVolumeLockWait
  <2> QED
    BY <2>1, <2>2 DEF OthersStay, SameCall, OpsMatch, LocksMatch, WriterAlone, OwnerSends, FenceMatches, RunningMatches, OneAtWork,
                 UnmountedIsIdle, VerdictKept, FailureStops, Fencing, Running, Owning, Revalidating
<1>2. CASE GetVolumeLockAcquire(t)
  <2>1. /\ OthersStay(t) /\ SameCall(t) /\ th[t].pc = "acquire"
        /\ th'[t].pc = "recheck" /\ th'[t].todo = th[t].todo
    BY <1>2, GotoStep DEF GetVolumeLockAcquire, PCs
  <2>2. /\ \A u \in RevalThreads \ {t} : held'[u] = held[u]
        /\ held'[t] = IF Exclusive(th[t].op) THEN "write" ELSE "read"
        /\ held'[t] = "write" => \A u \in RevalThreads \ {t} : held[u] = "none"
        /\ held'[t] = "read" => \A u \in RevalThreads \ {t} : held[u] # "write"
        /\ reval' = reval /\ backend' = backend /\ vol'.mounted = vol.mounted
    BY <1>2 DEF GetVolumeLockAcquire, CanWrite, CanRead
  <2> QED
    BY <2>1, <2>2 DEF OthersStay, SameCall, OpsMatch, LocksMatch, WriterAlone, OwnerSends, FenceMatches, RunningMatches, OneAtWork,
                 UnmountedIsIdle, VerdictKept, FailureStops, Fencing, Running, Owning, Revalidating
<1>3. CASE GetVolumeLockRecheck(t)
  <2>1. OthersStay(t) /\ th[t].pc = "recheck"
    BY <1>3, GotoStep, ReturnStep DEF GetVolumeLockRecheck, PCs
  <2>2. /\ \A u \in RevalThreads \ {t} : held'[u] = held[u]
        /\ reval' = reval /\ backend' = backend /\ vol'.mounted = vol.mounted
    BY <1>3 DEF GetVolumeLockRecheck
  <2>3. CASE reval = "ok"
    <3>1. /\ SameCall(t) /\ th'[t].pc = IF th[t].op = "sync" THEN "peek" ELSE "device"
          /\ held'[t] = held[t]
      BY <1>3, <2>3, GotoStep DEF GetVolumeLockRecheck, PCs
    <3> QED
      BY <2>1, <2>2, <2>3, <3>1 DEF OthersStay, SameCall, OpsMatch, LocksMatch, WriterAlone, OwnerSends, FenceMatches, RunningMatches, OneAtWork,
                 UnmountedIsIdle, VerdictKept, FailureStops, Fencing, Running, Owning, Revalidating
  <2>4. CASE reval = "running"
    <3>1. SameCall(t) /\ th'[t].pc = "wait" /\ held'[t] = "none"
      BY <1>3, <2>4, GotoStep DEF GetVolumeLockRecheck, PCs
    <3> QED
      BY <2>1, <2>2, <2>4, <3>1 DEF OthersStay, SameCall, OpsMatch, LocksMatch, WriterAlone, OwnerSends, FenceMatches, RunningMatches, OneAtWork,
                 UnmountedIsIdle, VerdictKept, FailureStops, Fencing, Running, Owning, Revalidating
  <2>5. CASE reval = "failed"
    <3>1. th'[t] = IdleThread /\ held'[t] = "none"
      BY <1>3, <2>5, ReturnStep DEF GetVolumeLockRecheck
    <3> QED
      BY <2>1, <2>2, <2>5, <3>1, IdleFields DEF OthersStay, OpsMatch, LocksMatch, WriterAlone, OwnerSends, FenceMatches, RunningMatches, OneAtWork,
                 UnmountedIsIdle, VerdictKept, FailureStops, Fencing, Running, Owning, Revalidating
  <2> QED
    BY <2>3, <2>4, <2>5
<1>4. CASE SyncPeek(t)
  <2>1. OthersStay(t) /\ th[t].pc = "peek"
    BY <1>4, SyncPeekStep, ReturnStep DEF SyncPeek
  <2>2. /\ \A u \in RevalThreads \ {t} : held'[u] = held[u]
        /\ held'[t] = "none" /\ reval' = reval /\ backend' = backend /\ vol'.mounted = vol.mounted
    BY <1>4 DEF SyncPeek
  <2>3. \/ th'[t].pc = "wait" /\ th'[t].op = "sync_write"
        \/ th'[t] = IdleThread
    BY <1>4, SyncPeekStep, ReturnStep DEF SyncPeek
  <2> QED
    BY <2>1, <2>2, <2>3, IdleFields DEF OthersStay, OpsMatch, LocksMatch, WriterAlone, OwnerSends, FenceMatches, RunningMatches, OneAtWork,
                 UnmountedIsIdle, VerdictKept, FailureStops, Fencing, Running, Owning, Revalidating
<1>5. CASE DeviceLock(t)
  <2>1. /\ OthersStay(t) /\ SameCall(t) /\ th[t].pc = "device" /\ th[t].op # "none"
        /\ th'[t].pc = "send"
    BY <1>5, DeviceLockStep DEF DeviceLock, OpsMatch
  <2>2. /\ held' = held /\ reval' = reval /\ vol' = vol
        /\ backend.owner = NoThread /\ ~backend.fence /\ ~backend'.fence
        /\ backend'.owner = IF th[t].op = "unmount" THEN NoThread ELSE t
    BY <1>5 DEF DeviceLock, Backends
  <2>3. \A u \in RevalThreads : ~Revalidating(u) /\ (th[u].pc = "send" => u = t)
    BY <2>1, <2>2, RevalAssumption DEF Revalidating, FenceMatches, Fencing, LocksMatch, Owning,
       WriterAlone, OwnerSends, OneAtWork
  <2>4. th[t].op \in Unfenced => Exclusive(th[t].op)
    BY DEF Unfenced, Exclusive
  <2> QED
    BY <2>1, <2>2, <2>3, <2>4, RevalAssumption DEF OthersStay, SameCall, OpsMatch, LocksMatch, WriterAlone, OwnerSends, FenceMatches, RunningMatches, OneAtWork,
                 UnmountedIsIdle, VerdictKept, FailureStops, Fencing, Running, Owning, Revalidating
<1>6. CASE DeviceFenced(t)
  <2>1. OthersStay(t) /\ th[t].pc = "device"
    BY <1>6, GotoStep, ReturnStep DEF DeviceFenced, PCs
  <2>2. /\ \A u \in RevalThreads \ {t} : held'[u] = held[u]
        /\ held'[t] = "none" /\ reval' = reval /\ backend' = backend /\ vol'.mounted = vol.mounted
    BY <1>6 DEF DeviceFenced
  <2>3. \/ th'[t].pc = "waitreval" /\ SameCall(t)
        \/ th'[t] = IdleThread
    BY <1>6, GotoStep, ReturnStep DEF DeviceFenced, PCs
  <2> QED
    BY <2>1, <2>2, <2>3, IdleFields DEF OthersStay, SameCall, OpsMatch, LocksMatch, WriterAlone, OwnerSends, FenceMatches, RunningMatches, OneAtWork,
                 UnmountedIsIdle, VerdictKept, FailureStops, Fencing, Running, Owning, Revalidating
<1>7. CASE WaitRevalidation(t)
  <2>1. OthersStay(t) /\ th[t].pc = "waitreval"
    BY <1>7, GotoStep, ReturnStep DEF WaitRevalidation, PCs
  <2>2. held' = held /\ reval' = reval /\ backend' = backend /\ vol'.mounted = vol.mounted
    BY <1>7 DEF WaitRevalidation
  <2>3. \/ th'[t].pc = "wait" /\ SameCall(t)
        \/ th'[t] = IdleThread
    BY <1>7, GotoStep, ReturnStep DEF WaitRevalidation, PCs
  <2> QED
    BY <2>1, <2>2, <2>3, IdleFields DEF OthersStay, SameCall, OpsMatch, LocksMatch, WriterAlone, OwnerSends, FenceMatches, RunningMatches, OneAtWork,
                 UnmountedIsIdle, VerdictKept, FailureStops, Fencing, Running, Owning, Revalidating
<1> QED
  BY <1>1, <1>2, <1>3, <1>4, <1>5, <1>6, <1>7

(* The commands keep the discipline: the thread told of a change owns the device *)
(* and raises the fence before it gives the device back.                         *)
LEMMA DisciplineTape ==
    ASSUME Types, Discipline, Scripts, NEW t \in RevalThreads,
           \/ ClearIndexEnd(t) \/ TapeSeek(t) \/ TapeWrite(t) \/ TapeQuery(t)
           \/ MamUpdateFails(t) \/ NeedReval(t) \/ UnexpectedMove(t)
           \/ Finish(t) \/ UnmountEnds(t)
    PROVE  Discipline'
<1> USE DEF Types, FlagsTyped, ReleaseLock, Discipline
<1>1. CASE ClearIndexEnd(t)
  <2>1. /\ OthersStay(t) /\ SameCall(t) /\ th[t].pc = "send" /\ th'[t].pc = "send"
    BY <1>1, AdvanceStep DEF ClearIndexEnd, Sending
  <2>2. WritesData(th[t].op)
    <3>1. /\ th[t].todo # <<>> /\ Head(th[t].todo)[1] = "down" /\ th[t].todo \in CmdLists
      BY <1>1 DEF ClearIndexEnd, Sending, Cmd, ThreadsTyped, ThreadStates
    <3>2. 1 \in 1..Len(th[t].todo) /\ th[t].todo[1][1] = "down"
      BY <3>1 DEF CmdLists
    <3> QED
      BY <2>1, <3>2 DEF Scripts, ScriptOf, Fits
  <2>3. /\ \A u \in RevalThreads \ {t} : held'[u] = held[u]
        /\ held'[t] = "read" /\ reval' = reval /\ backend' = backend /\ vol'.mounted = vol.mounted
    BY <1>1, HeadTyped DEF ClearIndexEnd, Sending, MediumTyped, Volumes
  <2>4. Exclusive(th[t].op) /\ th[t].op \notin Unfenced
    BY <2>2 DEF WritesData, Exclusive, Unfenced
  <2> QED
    BY <2>1, <2>3, <2>4 DEF OthersStay, SameCall, OpsMatch, LocksMatch, WriterAlone, OwnerSends, FenceMatches,
       RunningMatches, OneAtWork, UnmountedIsIdle, VerdictKept, FailureStops, Fencing, Running,
       Owning, Revalidating
<1>2. CASE TapeSeek(t) \/ TapeWrite(t) \/ TapeQuery(t) \/ MamUpdateFails(t)
  <2>1. /\ OthersStay(t) /\ th[t].pc = "send" /\ th'[t].pc = "send" /\ th'[t].op = th[t].op
    BY <1>2, AdvanceStep, TapeSeekStep DEF TapeSeek, TapeWrite, TapeQuery, MamUpdateFails, Sending, SameCall
  <2>2. held' = held /\ reval' = reval /\ backend' = backend /\ vol'.mounted = vol.mounted
    <3>1. CASE TapeSeek(t)
      BY <3>1, HeadTyped DEF TapeSeek, Sending, MediumTyped, Volumes
    <3>2. CASE TapeWrite(t)
      BY <3>2 DEF TapeWrite, MediumTyped, Volumes
    <3>3. CASE TapeQuery(t)
      BY <3>3 DEF TapeQuery, MediumTyped, Volumes
    <3>4. CASE MamUpdateFails(t)
      BY <3>4 DEF MamUpdateFails
    <3> QED
      BY <1>2, <3>1, <3>2, <3>3, <3>4
  <2> QED
    BY <2>1, <2>2 DEF OthersStay, OpsMatch, LocksMatch, WriterAlone, OwnerSends, FenceMatches, RunningMatches, OneAtWork,
       UnmountedIsIdle, VerdictKept, FailureStops, Fencing, Running, Owning, Revalidating
<1>3. CASE NeedReval(t)
  <2>1. /\ OthersStay(t) /\ SameCall(t) /\ th[t].pc = "send" /\ th'[t].pc = "rv_mark"
    BY <1>3, NeedRevalStep DEF NeedReval, Sending
  <2>2. /\ \A u \in RevalThreads \ {t} : held'[u] = held[u]
        /\ held'[t] = IF th[t].op \in Unfenced THEN held[t] ELSE "read"
        /\ reval' = reval /\ vol' = vol
        /\ backend'.owner = IF backend.owner = t THEN NoThread ELSE backend.owner
        /\ backend'.fence <=> (backend.fence \/ th[t].op \notin Unfenced)
    BY <1>3 DEF NeedReval, Backends
  <2>3. ~backend.fence
    BY <2>1 DEF FenceMatches, Fencing, OneAtWork, Revalidating
  <2>4. backend'.owner = NoThread
    BY <2>1, <2>2, RevalAssumption DEF OwnerSends, OneAtWork, Backends
  <2> QED
    BY <2>1, <2>2, <2>3, <2>4, RevalAssumption DEF OthersStay, SameCall, OpsMatch, LocksMatch, WriterAlone, OwnerSends, FenceMatches,
       RunningMatches, OneAtWork, UnmountedIsIdle, VerdictKept, FailureStops, Fencing, Running,
       Owning, Revalidating
<1>4. CASE UnexpectedMove(t)
  <2>1. /\ OthersStay(t) /\ th[t].pc = "send" /\ th'[t] = IdleThread
    BY <1>4, ReturnStep DEF UnexpectedMove, Sending
  <2>2. /\ \A u \in RevalThreads \ {t} : held'[u] = held[u]
        /\ held'[t] = "none" /\ reval' = "failed" /\ backend'.fence = backend.fence
        /\ backend'.owner = IF backend.owner = t THEN NoThread ELSE backend.owner
        /\ (vol'.mounted <=> th[t].op # "unmount")
    BY <1>4 DEF UnexpectedMove, Backends, MediumTyped, Volumes
  <2>3. backend'.owner = NoThread
    BY <2>1, <2>2, RevalAssumption DEF OwnerSends, OneAtWork, Backends
  <2>4. held[t] # "none"
    BY <2>1, Zenon DEF LocksMatch
  <2> QED
    BY <2>1, <2>2, <2>3, <2>4, RevalAssumption, IdleFields DEF OthersStay, SameCall, OpsMatch, LocksMatch, WriterAlone, OwnerSends, FenceMatches,
       RunningMatches, OneAtWork, UnmountedIsIdle, VerdictKept, FailureStops, Fencing, Running,
       Owning, Revalidating
<1>5. CASE Finish(t)
  <2>1. /\ OthersStay(t) /\ th[t].pc = "send" /\ th'[t] = IdleThread /\ th[t].op # "unmount"
    BY <1>5, ReturnStep DEF Finish
  <2>2. /\ \A u \in RevalThreads \ {t} : held'[u] = held[u]
        /\ held'[t] = "none" /\ reval' = reval /\ backend'.fence = backend.fence
        /\ backend'.owner = NoThread /\ vol'.mounted = vol.mounted
    BY <1>5 DEF Finish, Backends, MediumTyped, Volumes
  <2> QED
    BY <2>1, <2>2, RevalAssumption, IdleFields DEF OthersStay, OpsMatch, LocksMatch, WriterAlone, OwnerSends, FenceMatches, RunningMatches, OneAtWork,
       UnmountedIsIdle, VerdictKept, FailureStops, Fencing, Running, Owning, Revalidating
<1>6. CASE UnmountEnds(t)
  <2>1. /\ OthersStay(t) /\ th[t].pc = "send" /\ th'[t] = IdleThread /\ th[t].op = "unmount"
    BY <1>6, ReturnStep DEF UnmountEnds
  <2>2. /\ \A u \in RevalThreads \ {t} : held'[u] = held[u]
        /\ held'[t] = "none" /\ reval' \in {"ok", "failed"} /\ backend' = backend
    BY <1>6 DEF UnmountEnds
  <2>3. \A u \in RevalThreads : th'[u].pc = "idle" /\ th'[u] = IdleThread
    BY <2>1, IdleFields DEF OneAtWork, OthersStay, OpsMatch
  <2>4. backend.owner = NoThread /\ ~backend.fence
    BY <2>1, RevalAssumption DEF OneAtWork, OwnerSends, FenceMatches, Fencing, Backends
  <2> QED
    BY <2>1, <2>2, <2>3, <2>4, RevalAssumption, IdleFields DEF OthersStay, OpsMatch, LocksMatch, WriterAlone, OwnerSends, FenceMatches, RunningMatches, OneAtWork,
       UnmountedIsIdle, VerdictKept, FailureStops, Fencing, Running, Owning, Revalidating
<1> QED
  BY <1>1, <1>2, <1>3, <1>4, <1>5, <1>6

(* The steps of ltfs_revalidate keep the discipline: the volume is exclusive from *)
(* the checks on, and the fence falls before the result is recorded.              *)
LEMMA DisciplineReval ==
    ASSUME Types, Discipline, Scripts, NEW t \in RevalThreads,
           \/ RevalMark(t) \/ RevalUnlock(t) \/ RevalLock(t) \/ RevalStart(t)
           \/ RevalRepeats(t) \/ RevalCheck(t) \/ RevalFails(t)
           \/ RevalUnfence(t) \/ RevalRecord(t) \/ RevalReturn(t)
    PROVE  Discipline'
<1> USE DEF Types, FlagsTyped, ReleaseLock, Discipline
<1>1. CASE RevalMark(t)
  <2>1. /\ OthersStay(t) /\ SameCall(t) /\ th[t].pc = "rv_mark"
        /\ th'[t].pc = IF th[t].op \in Unfenced THEN "rv_start" ELSE "rv_unlock"
    BY <1>1, GotoStep DEF RevalMark, PCs
  <2>2. held' = held /\ reval' = "running" /\ backend' = backend /\ vol' = vol
    BY <1>1 DEF RevalMark
  <2> QED
    BY <2>1, <2>2 DEF OthersStay, SameCall, OpsMatch, LocksMatch, WriterAlone, OwnerSends, FenceMatches, RunningMatches, OneAtWork,
       UnmountedIsIdle, VerdictKept, FailureStops, Fencing, Running, Owning, Revalidating
<1>2. CASE RevalUnlock(t)
  <2>1. /\ OthersStay(t) /\ SameCall(t) /\ th[t].pc = "rv_unlock" /\ th'[t].pc = "rv_lock"
    BY <1>2, GotoStep DEF RevalUnlock, PCs
  <2>2. /\ \A u \in RevalThreads \ {t} : held'[u] = held[u]
        /\ held'[t] = "none" /\ reval' = reval /\ backend' = backend /\ vol'.mounted = vol.mounted
    BY <1>2 DEF RevalUnlock
  <2> QED
    BY <2>1, <2>2 DEF OthersStay, SameCall, OpsMatch, LocksMatch, WriterAlone, OwnerSends, FenceMatches, RunningMatches, OneAtWork,
       UnmountedIsIdle, VerdictKept, FailureStops, Fencing, Running, Owning, Revalidating
<1>3. CASE RevalLock(t)
  <2>1. /\ OthersStay(t) /\ SameCall(t) /\ th[t].pc = "rv_lock" /\ th'[t].pc = "rv_start"
    BY <1>3, GotoStep DEF RevalLock, PCs
  <2>2. /\ \A u \in RevalThreads \ {t} : held[u] = "none" /\ held'[u] = "none"
        /\ held'[t] = "write" /\ reval' = reval /\ backend' = backend /\ vol'.mounted = vol.mounted
    BY <1>3 DEF RevalLock, CanWrite
  <2> QED
    BY <2>1, <2>2 DEF OthersStay, SameCall, OpsMatch, LocksMatch, WriterAlone, OwnerSends, FenceMatches, RunningMatches, OneAtWork,
       UnmountedIsIdle, VerdictKept, FailureStops, Fencing, Running, Owning, Revalidating
<1>4. CASE RevalStart(t)
  <2>1. /\ OthersStay(t) /\ th'[t].op = th[t].op /\ th[t].pc = "rv_start" /\ th'[t].pc = "rv_check"
    BY <1>4, RevalStartStep DEF RevalStart
  <2>2. held' = held /\ reval' = reval /\ backend' = backend /\ vol'.mounted = vol.mounted
    BY <1>4 DEF RevalStart
  <2> QED
    BY <2>1, <2>2 DEF OthersStay, OpsMatch, LocksMatch, WriterAlone, OwnerSends, FenceMatches, RunningMatches, OneAtWork,
       UnmountedIsIdle, VerdictKept, FailureStops, Fencing, Running, Owning, Revalidating
<1>5. CASE RevalRepeats(t)
  BY <1>5 DEF RevalRepeats, OpsMatch, LocksMatch, WriterAlone, OwnerSends, FenceMatches, RunningMatches, OneAtWork,
       UnmountedIsIdle, VerdictKept, FailureStops, Fencing, Running, Owning, Revalidating
<1>6. CASE RevalCheck(t)
  <2>1. /\ OthersStay(t) /\ SameCall(t) /\ th[t].pc = "rv_check" /\ th'[t].pc = "rv_check"
    BY <1>6, AdvanceStep DEF RevalCheck
  <2>2. held' = held /\ reval' = reval /\ backend' = backend /\ vol'.mounted = vol.mounted
    BY <1>6 DEF RevalCheck, MediumTyped, Volumes
  <2> QED
    BY <2>1, <2>2 DEF OthersStay, SameCall, OpsMatch, LocksMatch, WriterAlone, OwnerSends, FenceMatches, RunningMatches, OneAtWork,
       UnmountedIsIdle, VerdictKept, FailureStops, Fencing, Running, Owning, Revalidating
<1>7. CASE RevalFails(t)
  <2>1. /\ OthersStay(t) /\ SameCall(t) /\ th[t].pc = "rv_check" /\ th'[t].pc = "rv_unfence"
        /\ th'[t].todo = th[t].todo /\ th[t].todo # <<>>
    BY <1>7, GotoStep DEF RevalFails, PCs
  <2>2. held' = held /\ reval' = reval /\ backend' = backend /\ vol'.mounted = vol.mounted
    BY <1>7 DEF RevalFails
  <2> QED
    BY <2>1, <2>2 DEF OthersStay, SameCall, OpsMatch, LocksMatch, WriterAlone, OwnerSends, FenceMatches, RunningMatches, OneAtWork,
       UnmountedIsIdle, VerdictKept, FailureStops, Fencing, Running, Owning, Revalidating
<1>8. CASE RevalUnfence(t)
  <2>1. /\ OthersStay(t) /\ SameCall(t) /\ th[t].pc \in {"rv_check", "rv_unfence"}
        /\ th'[t].pc = "rv_record"
    BY <1>8, GotoStep DEF RevalUnfence, PCs
  <2>2. /\ held' = held /\ reval' = reval /\ vol' = vol
        /\ backend'.owner = backend.owner /\ ~backend'.fence
    BY <1>8 DEF RevalUnfence, Backends
  <2>3. \A u \in RevalThreads : Revalidating(u) => u = t
    BY <2>1 DEF OneAtWork, Revalidating
  <2> QED
    BY <2>1, <2>2, <2>3 DEF OthersStay, SameCall, OpsMatch, LocksMatch, WriterAlone, OwnerSends, FenceMatches, RunningMatches, OneAtWork,
       UnmountedIsIdle, VerdictKept, FailureStops, Fencing, Running, Owning, Revalidating
<1>9. CASE RevalRecord(t)
  <2>1. /\ OthersStay(t) /\ SameCall(t) /\ th[t].pc = "rv_record" /\ th'[t].pc = "rv_return"
        /\ th'[t].todo = th[t].todo
    BY <1>9, GotoStep DEF RevalRecord, PCs
  <2>2. /\ held' = held /\ backend' = backend /\ vol' = vol
        /\ reval' = IF th[t].todo = <<>> THEN "ok" ELSE "failed"
    BY <1>9 DEF RevalRecord
  <2>3. \A u \in RevalThreads : Revalidating(u) => u = t
    BY <2>1 DEF OneAtWork, Revalidating
  <2> QED
    BY <2>1, <2>2, <2>3 DEF OthersStay, SameCall, OpsMatch, LocksMatch, WriterAlone, OwnerSends, FenceMatches, RunningMatches, OneAtWork,
       UnmountedIsIdle, VerdictKept, FailureStops, Fencing, Running, Owning, Revalidating
<1>10. CASE RevalReturn(t)
  <2>1. /\ OthersStay(t) /\ th[t].pc = "rv_return"
    BY <1>10, RetryStep, ReturnStep DEF RevalReturn
  <2>2. /\ \A u \in RevalThreads \ {t} : held'[u] = held[u]
        /\ held'[t] = "none" /\ backend' = backend
    BY <1>10 DEF RevalReturn
  <2>3. \A u \in RevalThreads : Revalidating(u) => u = t
    BY <2>1 DEF OneAtWork, Revalidating
  <2>4. CASE th[t].todo = <<>>
    <3>1. /\ th'[t].pc = "wait" /\ reval' = reval /\ vol' = vol
          /\ th'[t].op = IF th[t].op = "sync_write" THEN "sync" ELSE th[t].op
      BY <1>10, <2>4, RetryStep DEF RevalReturn
    <3> QED
      BY <2>1, <2>2, <2>3, <3>1 DEF OthersStay, OpsMatch, LocksMatch, WriterAlone, OwnerSends, FenceMatches, RunningMatches, OneAtWork,
       UnmountedIsIdle, VerdictKept, FailureStops, Fencing, Running, Owning, Revalidating
  <2>5. CASE th[t].todo # <<>>
    <3>1. /\ th'[t] = IdleThread /\ reval' = IF th[t].op = "unmount" THEN "ok" ELSE reval
          /\ (vol'.mounted <=> th[t].op # "unmount")
      BY <1>10, <2>5, ReturnStep DEF RevalReturn, MediumTyped, Volumes
    <3> QED
      BY <2>1, <2>2, <2>3, <3>1, <2>5, IdleFields DEF OthersStay, SameCall, OpsMatch, LocksMatch, WriterAlone, OwnerSends, FenceMatches,
         RunningMatches, OneAtWork, UnmountedIsIdle, VerdictKept, FailureStops, Fencing, Running,
         Owning, Revalidating
  <2> QED
    BY <2>4, <2>5
<1> QED
  BY <1>1, <1>2, <1>3, <1>4, <1>5, <1>6, <1>7, <1>8, <1>9, <1>10

(* A new call and what happens to the drive keep the discipline. *)
LEMMA DisciplineOther ==
    ASSUME Types, Discipline,
           \/ \E t \in RevalThreads : \E op \in RevalOps : Call(t, op)
           \/ UNCHANGED <<th, held, reval, vol, backend>>
    PROVE  Discipline'
<1> USE DEF Types, FlagsTyped, Discipline
<1>1. CASE \E t \in RevalThreads : \E op \in RevalOps : Call(t, op)
  <2>1. PICK t \in RevalThreads, op \in RevalOps : Call(t, op)
    BY <1>1
  <2>2. /\ OthersStay(t) /\ th[t].pc = "idle" /\ th'[t].pc = "wait" /\ th'[t].op = op
    BY <2>1, CallStep DEF Call
  <2>3. /\ held' = held /\ reval' = reval /\ backend' = backend /\ vol' = vol /\ vol.mounted
        /\ \A u \in RevalThreads : th[u].op # "unmount"
        /\ op = "unmount" => \A u \in RevalThreads : th[u].pc = "idle"
    BY <2>1 DEF Call
  <2>4. op \notin {"none", "sync_write"}
    BY RevalAssumption
  <2> QED
    BY <2>2, <2>3, <2>4 DEF OthersStay, OpsMatch, LocksMatch, WriterAlone, OwnerSends, FenceMatches, RunningMatches, OneAtWork,
       UnmountedIsIdle, VerdictKept, FailureStops, Fencing, Running, Owning, Revalidating
<1>2. CASE UNCHANGED <<th, held, reval, vol, backend>>
  BY <1>2 DEF OpsMatch, LocksMatch, WriterAlone, OwnerSends, FenceMatches, RunningMatches, OneAtWork,
                 UnmountedIsIdle, VerdictKept, FailureStops, Fencing, Running, Owning, Revalidating
<1> QED
  BY <1>1, <1>2

(* The types, for the steps that start a call and those of the drive. *)
LEMMA CallTypes ==
    ASSUME Types, NEW t \in RevalThreads, NEW op \in RevalOps, Call(t, op)
    PROVE  Types'
<1>1. budget' \in [calls : Nat, events : Nat]
  BY DEF Call, Types, FlagsTyped
<1> QED
  BY <1>1, CallStep DEF Call, Types, FlagsTyped, MediumTyped

(* The command lists stay the scripts of their calls: a call's list is set when *)
(* it gets the device, a revalidation's when it starts, and both only shrink.   *)
LEMMA ScriptsStep ==
    ASSUME Types, Discipline, Scripts, NEW t \in RevalThreads,
           ThreadStep(t) \/ \E op \in RevalOps : Call(t, op)
    PROVE  Scripts'
<1> USE DEF Types, Discipline
<1>0. ASSUME OthersStay(t), ScriptOf(th'[t]) PROVE Scripts'
  BY <1>0 DEF Scripts, OthersStay
<1>1. ASSUME OthersStay(t), th'[t].pc \notin {"send", "rv_check", "rv_unfence"} PROVE Scripts'
  BY <1>0, <1>1 DEF ScriptOf
<1>2. ASSUME Advance(t), th[t].pc = "send", th[t].todo # <<>> PROVE Scripts'
  <2>1. th[t].todo \in CmdLists
    BY DEF ThreadsTyped, ThreadStates
  <2>2. /\ OthersStay(t) /\ th'[t].pc = "send" /\ th'[t].op = th[t].op
        /\ th'[t].todo = Tail(th[t].todo)
    BY <1>2, AdvanceStep DEF SameCall
  <2> QED
    BY <1>0, <1>2, <2>1, <2>2, ChainTail DEF Scripts, ScriptOf
<1>3. CASE \E op \in RevalOps : Call(t, op)
  BY <1>1, <1>3, CallStep
<1>4. CASE GetVolumeLockWait(t) \/ GetVolumeLockAcquire(t) \/ GetVolumeLockRecheck(t)
  BY <1>1, <1>4, GotoStep, ReturnStep, IdleFields
     DEF GetVolumeLockWait, GetVolumeLockAcquire, GetVolumeLockRecheck, PCs
<1>5. CASE SyncPeek(t)
  BY <1>1, <1>5, SyncPeekStep, ReturnStep, IdleFields DEF SyncPeek
<1>6. CASE DeviceLock(t)
  <2>1. th[t].op \in AllOps \ {"none", "sync"}
    BY <1>6 DEF DeviceLock, OpsMatch, ThreadsTyped, ThreadStates
  <2>2. /\ OthersStay(t) /\ th'[t].op = th[t].op /\ th'[t].pc = "send"
        /\ \E p \in Partitions : th'[t].todo = Commands(th[t].op, p)
    BY <1>6, <2>1, DeviceLockStep DEF SameCall
  <2> QED
    BY <1>0, <2>1, <2>2, CommandsFit DEF ScriptOf
<1>7. CASE DeviceFenced(t) \/ WaitRevalidation(t)
  BY <1>1, <1>7, GotoStep, ReturnStep, IdleFields DEF DeviceFenced, WaitRevalidation, PCs
<1>8. CASE ClearIndexEnd(t) \/ TapeWrite(t) \/ TapeQuery(t) \/ MamUpdateFails(t)
  BY <1>2, <1>8 DEF ClearIndexEnd, TapeWrite, TapeQuery, MamUpdateFails, Sending
<1>9. CASE TapeSeek(t)
  <2>1. th[t].todo \in CmdLists /\ th[t].todo # <<>> /\ th[t].pc = "send"
    BY <1>9 DEF TapeSeek, Sending, ThreadsTyped, ThreadStates
  <2> QED
    BY <1>0, <1>9, <2>1, TapeSeekStep, ChainTail DEF Scripts, ScriptOf
<1>10. CASE NeedReval(t)
  BY <1>1, <1>10, NeedRevalStep
<1>11. CASE UnexpectedMove(t) \/ Finish(t) \/ UnmountEnds(t)
  BY <1>1, <1>11, ReturnStep, IdleFields DEF UnexpectedMove, Finish, UnmountEnds
<1>12. CASE RevalMark(t) \/ RevalUnlock(t) \/ RevalLock(t)
  BY <1>1, <1>12, GotoStep DEF RevalMark, RevalUnlock, RevalLock, PCs
<1>13. CASE RevalStart(t)
  <2>1. Len(Checks) = 8 /\ \A i \in 1..8 : 8 - 8 + i = i
    BY DEF Checks
  <2> DEFINE r == th'[t]
  <2>2. r.pc = "rv_check" /\ r.todo = Checks /\ OthersStay(t)
    BY <1>13, RevalStartStep
  <2> HIDE DEF r
  <2>3. Len(r.todo) <= 8 /\ \A i \in 1..Len(r.todo) : r.todo[i] = Checks[8 - Len(r.todo) + i]
    <3>1. Len(r.todo) = 8
      BY <2>1, <2>2
    <3>2. ASSUME NEW i \in 1..8 PROVE r.todo[i] = Checks[8 - Len(r.todo) + i]
      <4>1. 8 - Len(r.todo) + i = i
        BY <3>1
      <4> QED
        BY <4>1, <2>2
    <3> QED
      BY <3>1, <3>2
  <2>4. ScriptOf(r)
    BY <2>2, <2>3 DEF ScriptOf
  <2> QED
    BY <1>0, <2>2, <2>4 DEF r
<1>14. CASE RevalRepeats(t)
  BY <1>14 DEF RevalRepeats, Scripts
<1>15. CASE RevalCheck(t)
  <2>1. /\ th[t].todo \in CmdLists /\ th[t].todo # <<>> /\ OthersStay(t)
        /\ th[t].pc = "rv_check" /\ th'[t].pc = "rv_check" /\ th'[t].todo = Tail(th[t].todo)
    BY <1>15, AdvanceStep DEF RevalCheck, ThreadsTyped, ThreadStates
  <2> DEFINE c == th[t].todo
             d == Tail(c)
  <2>2. /\ Len(c) \in Nat /\ Len(c) > 0 /\ Len(d) = Len(c) - 1
        /\ \A i \in 1..Len(d) : d[i] = c[i + 1]
    BY <2>1 DEF CmdLists
  <2>3. Len(c) <= 8 /\ \A i \in 1..Len(c) : c[i] = Checks[8 - Len(c) + i]
    BY <2>1 DEF Scripts, ScriptOf
  <2>5. th'[t].todo = d
    BY <2>1
  <2> HIDE DEF c, d
  <2>4. ASSUME NEW i \in 1..Len(d) PROVE d[i] = Checks[8 - Len(d) + i]
    <3>1. i + 1 \in 1..Len(c) /\ 8 - Len(c) + (i + 1) = 8 - Len(d) + i
      BY <2>2
    <3> QED
      BY <2>2, <2>3, <3>1
  <2>6. Len(d) <= 8
    BY <2>2, <2>3
  <2>7. ScriptOf(th'[t])
    <3> DEFINE r == th'[t]
    <3>1. r.pc = "rv_check" /\ r.todo = d
      BY <2>1, <2>5
    <3> HIDE DEF r
    <3>2. ScriptOf(r)
      BY <3>1, <2>4, <2>6 DEF ScriptOf
    <3> QED
      BY <3>2 DEF r
  <2> QED
    BY <1>0, <2>1, <2>7
<1>16. CASE RevalFails(t)
  BY <1>0, <1>16, GotoStep DEF RevalFails, PCs, Scripts, ScriptOf
<1>17. CASE RevalUnfence(t) \/ RevalRecord(t)
  BY <1>1, <1>17, GotoStep DEF RevalUnfence, RevalRecord, PCs
<1>18. CASE RevalReturn(t)
  BY <1>1, <1>18, RetryStep, ReturnStep, IdleFields DEF RevalReturn
<1> QED
  BY <1>3, <1>4, <1>5, <1>6, <1>7, <1>8, <1>9, <1>10, <1>11, <1>12, <1>13, <1>14, <1>15,
     <1>16, <1>17, <1>18 DEF ThreadStep
-----------------------------------------------------------------------------
(* What is on the tape, and what libltfs knows of it. *)

\* The volume is in use: no attention waits, the last revalidation did not
\* fail, and nobody is in one.
Normal ==
    /\ attention # "changed" /\ vol.mounted /\ reval # "failed"
    /\ \A t \in RevalThreads : ~Revalidating(t)
\* A revalidation that has rewound the tape, and one that has passed.
Passed(t) == th[t].pc \in {"rv_record", "rv_return"} /\ th[t].todo = <<>>
Rewound(t) == (th[t].pc = "rv_check" /\ Len(th[t].todo) <= 5) \/ Passed(t)
\* The next command of t writes, or is the MAM update of an index.
Writing(t) == Sending(t) /\ Cmd(t) \in Writes
AtMam(t) == Sending(t) /\ Cmd(t) = "mamset"

\* In use, the mounted cartridge is in the drive and the head is where libltfs
\* thinks; a revalidation finds that out check by check.
Trust == (Normal /\ ~seen.swallowed) => (medium = "ours" /\ tape.head = vol.pos)
Checked ==
    attention # "changed" => \A t \in RevalThreads :
        /\ Rewound(t) => tape.head = vol.pos
        /\ th[t].pc = "rv_check" =>
              /\ Len(th[t].todo) <= 4 => medium # "other"
              /\ Len(th[t].todo) <= 3 => medium # "noeod"
              /\ Len(th[t].todo) <= 2 => medium # "touched"
        /\ Passed(t) => medium = "ours"

\* The append position of a partition is on its tape unless a loss is still to
\* be noticed; nothing is buffered where a loss could go unnoticed, and what is
\* buffered is buffered for the partition the head is in.
Inside ==
    \A p \in Partitions :
        (\/ p \notin seen.lost
         \/ Normal
         \/ \E t \in RevalThreads : Rewound(t) \/ AtMam(t))
        => vol.append[p] <= Len(tape.part[p])
OnTape == \A t \in RevalThreads : (Rewound(t) \/ AtMam(t)) => tape.safe = tape.part
BufferHere == \A p \in Partitions : tape.safe[p] # tape.part[p] => vol.pos.part = p

\* A thread about to write has positioned the tape at the append position.
Positioned ==
    \A t \in RevalThreads : Writing(t) =>
        /\ vol.pos.part = Prt(t) /\ vol.append[vol.pos.part] = vol.pos.block
        /\ th[t].start <= vol.pos.block

\* Acknowledged extents lie below the append position and below whatever is
\* being written, also while a revalidation keeps that position aside.
EndPos(a, p) == IF a = 0 THEN Len(tape.part[p]) ELSE a
AckedThere ==
    seen.lost = {} => \A e \in seen.acked :
        /\ e.at.block + 2 <= EndPos(vol.append[e.at.part], e.at.part)
        /\ tape.part[e.at.part][e.at.block + 1] = Data(e.call)
        /\ tape.part[e.at.part][e.at.block + 2] = Data(e.call)
AckedKept ==
    seen.lost = {} => \A t \in RevalThreads : \A e \in seen.acked :
        /\ th[t].pc = "rv_check" => e.at.block + 2 <= EndPos(th[t].saved[e.at.part], e.at.part)
        /\ (Writing(t) /\ vol.pos.part = e.at.part) => e.at.block + 2 <= th[t].start
\* What a write has put on tape since its last seek.
Written ==
    seen.lost = {} => \A t \in RevalThreads :
        (th[t].pc = "send" /\ WritesData(th[t].op) /\ Len(th[t].todo) < 3) =>
            LET n == Len(th[t].todo)
                p == PartOf(th[t].op)
            IN  /\ vol.pos = At(p, th[t].start + 2 - n)
                /\ vol.append[p] = vol.pos.block
                /\ n < 2 => tape.part[p][th[t].start + 1] = Data(th[t].call)
                /\ n < 1 => tape.part[p][th[t].start + 2] = Data(th[t].call)

\* As long as nothing of the data partition was lost its append position, if
\* there is one, is the end of its data, and what has left the buffer is a
\* beginning of it; so a loss moves the end below the append position, and
\* that stays so until a revalidation has failed over it.
DpEnd ==
    "dp" \notin seen.lost =>
        /\ vol.append["dp"] = Len(tape.part["dp"])
           \/ (vol.append["dp"] = 0 /\ tape.safe["dp"] = tape.part["dp"])
        /\ \A t \in RevalThreads : th[t].pc = "rv_check" =>
              th[t].saved["dp"] = Len(tape.part["dp"])
              \/ (th[t].saved["dp"] = 0 /\ tape.safe["dp"] = tape.part["dp"])
        /\ \A t \in RevalThreads :
              (Writing(t) /\ Prt(t) = "dp") => vol.append["dp"] = Len(tape.part["dp"])
        /\ Len(tape.safe["dp"]) <= Len(tape.part["dp"])
        /\ tape.safe["dp"] = SubSeq(tape.part["dp"], 1, Len(tape.safe["dp"]))
Short(n) == n > Len(tape.part["dp"]) /\ tape.safe["dp"] = tape.part["dp"]
Pending ==
    /\ attention = "changed" /\ Short(vol.append["dp"])
    /\ \A t \in RevalThreads : ~Revalidating(t)
Finding(t) ==
    \/ th[t].pc \in {"rv_mark", "rv_unlock", "rv_lock", "rv_start"} /\ Short(vol.append["dp"])
    \/ th[t].pc = "rv_check" /\ Short(th[t].saved["dp"]) /\ Len(th[t].todo) >= 2
    \/ th[t].pc \in {"rv_unfence", "rv_record", "rv_return"} /\ th[t].todo # <<>>
GivenUp ==
    /\ reval = "failed"
    /\ \A t \in RevalThreads : th[t].pc \notin {"peek", "device", "send"} /\ ~Revalidating(t)
Caught ==
    ("dp" \in seen.lost /\ vol.mounted /\ ~seen.swallowed) =>
        Pending \/ (\E t \in RevalThreads : Finding(t)) \/ GivenUp

---------------------------------------------------------------------------
(* What the steps do to the medium and to the thread that has it.          *)

AtWork(t) == Revalidating(t) \/ th[t].pc = "send"
\* Nobody but the threads that have no business with the drive moves.
OnlyIdlersMove ==
    \A u \in RevalThreads : th'[u] = th[u] \/ (~AtWork(u) /\ ~AtWork(u)')
\* The tape, where libltfs is on it and what has been observed stay.
SameTape ==
    /\ vol'.append = vol.append /\ vol'.pos = vol.pos /\ tape' = tape /\ medium' = medium
    /\ seen' = seen
SameFlags == attention' = attention /\ reval' = reval /\ vol'.mounted = vol.mounted

(* While a thread sends or revalidates no other one does. *)
LEMMA OthersRest ==
    ASSUME Discipline, NEW t \in RevalThreads, AtWork(t)
    PROVE  \A u \in RevalThreads \ {t} : ~AtWork(u)
  BY DEF Discipline, OneAtWork, AtWork

(* A thread in a call has a mounted volume. *)
LEMMA WorkerMounted ==
    ASSUME Types, Discipline, NEW t \in RevalThreads, th[t].pc # "idle"
    PROVE  vol.mounted
  BY DEF Discipline, UnmountedIsIdle

(* Waiting, locking, looking at the flags, giving up. *)
LEMMA IdlerEffect ==
    ASSUME Types, Discipline, NEW t \in RevalThreads,
           \/ \E op \in RevalOps : Call(t, op)
           \/ GetVolumeLockWait(t) \/ GetVolumeLockAcquire(t) \/ GetVolumeLockRecheck(t)
           \/ SyncPeek(t) \/ DeviceFenced(t) \/ WaitRevalidation(t)
    PROVE  /\ SameTape /\ SameFlags /\ OnlyIdlersMove /\ OthersStay(t)
           /\ th'[t].pc \in {"peek", "device"} => reval = "ok"
<1> USE DEF Types
<1>1. OthersStay(t) /\ ~AtWork(t) /\ ~AtWork(t)' /\ (th'[t].pc \in {"peek", "device"} => reval = "ok")
  <2>1. CASE \E op \in RevalOps : Call(t, op)
    BY <2>1, CallStep DEF Call, AtWork, Revalidating
  <2>2. CASE GetVolumeLockWait(t) \/ GetVolumeLockAcquire(t)
    BY <2>2, GotoStep DEF GetVolumeLockWait, GetVolumeLockAcquire, PCs, AtWork, Revalidating
  <2>3. CASE GetVolumeLockRecheck(t)
    BY <2>3, GotoStep, ReturnStep, IdleFields DEF GetVolumeLockRecheck, PCs, AtWork, Revalidating
  <2>4. CASE SyncPeek(t)
    BY <2>4, SyncPeekStep, ReturnStep, IdleFields DEF SyncPeek, AtWork, Revalidating
  <2>5. CASE DeviceFenced(t) \/ WaitRevalidation(t)
    BY <2>5, GotoStep, ReturnStep, IdleFields
       DEF DeviceFenced, WaitRevalidation, PCs, AtWork, Revalidating
  <2> QED
    BY <2>1, <2>2, <2>3, <2>4, <2>5
<1>2. SameTape /\ SameFlags
  BY DEF Call, GetVolumeLockWait, GetVolumeLockAcquire, GetVolumeLockRecheck, SyncPeek,
         DeviceFenced, WaitRevalidation, SameTape, SameFlags
<1> QED
  BY <1>1, <1>2 DEF OthersStay, OnlyIdlersMove

(* Which command comes after which, and where the data of a write is sent. *)
LEMMA NextCommand ==
    ASSUME Types, Scripts, NEW t \in RevalThreads, Sending(t),
           th'[t].pc = "send", th'[t].todo = Tail(th[t].todo)
    PROVE  /\ Writing(t)' => Cmd(t) \in {"seek", "flush", "fm", "idx", "data"} /\ Prt(t)' = Prt(t)
           /\ AtMam(t)' => Cmd(t) = "endfm"
<1> DEFINE c == th[t].todo
           d == Tail(c)
<1>1. c \in CmdLists /\ c # <<>> /\ Chain(c)
  BY DEF Types, ThreadsTyped, ThreadStates, Sending, Scripts, ScriptOf
<1>2. /\ Len(c) \in Nat /\ Head(c) = c[1] /\ d \in CmdLists
      /\ d # <<>> => Len(c) >= 2 /\ Head(d) = c[2]
  BY <1>1 DEF CmdLists
<1> HIDE DEF c
<1>3. d # <<>> => 2 \in 1..Len(c) /\ 2 > 1 /\ 2 - 1 = 1
  BY <1>2
<1>4. ASSUME d # <<>>
      PROVE  /\ c[2][1] \in Writes => c[1][1] \in {"seek", "flush", "fm", "idx", "data"} /\ c[1][2] = c[2][2]
             /\ c[2][1] = "mamset" => c[1][1] = "endfm"
  BY <1>1, <1>3, <1>4 DEF Chain
<1>5. th'[t].todo = d
  BY DEF c
<1>6. Cmd(t) = c[1][1] /\ Prt(t) = c[1][2]
  BY <1>2 DEF Cmd, Prt, c
<1>7. d # <<>> => Cmd(t)' = c[2][1] /\ Prt(t)' = c[2][2]
  BY <1>2, <1>5 DEF Cmd, Prt
<1>8. Sending(t)' => d # <<>>
  BY <1>5 DEF Sending
<1> QED
  BY <1>4, <1>6, <1>7, <1>8 DEF Writing, AtMam

(* The command a call has come to follows from the call and how many it has left. *)
LEMMA ThisCommand ==
    ASSUME Types, Scripts, NEW t \in RevalThreads, Sending(t)
    PROVE  /\ Len(th[t].todo) \in Nat /\ Len(th[t].todo) > 0
           /\ ~Exclusive(th[t].op) => Cmd(t) \in {"query", "read"}
           /\ ~WritesData(th[t].op) => Cmd(t) \notin {"down", "data"}
           /\ (WritesData(th[t].op) /\ Len(th[t].todo) > 3) => Cmd(t) # "data"
           /\ (WritesData(th[t].op) /\ Len(th[t].todo) = 3)
                 => Cmd(t) = "seek" /\ Prt(t) = PartOf(th[t].op)
           /\ (WritesData(th[t].op) /\ Len(th[t].todo) < 3)
                 => Cmd(t) = "data" /\ Prt(t) = PartOf(th[t].op)
<1> DEFINE c == th[t].todo
           op == th[t].op
<1>1. c \in CmdLists /\ c # <<>> /\ Fits(c, op)
  BY DEF Types, ThreadsTyped, ThreadStates, Sending, Scripts, ScriptOf
<1>2. Len(c) \in Nat /\ Len(c) > 0 /\ Head(c) = c[1] /\ 1 \in 1..Len(c)
  BY <1>1 DEF CmdLists
<1>3. Cmd(t) = c[1][1] /\ Prt(t) = c[1][2]
  BY <1>2 DEF Cmd, Prt
<1> HIDE DEF c, op
<1>4. /\ Len(c) > 3 => 1 <= Len(c) - 2
      /\ Len(c) = 3 => 1 = Len(c) - 2
      /\ Len(c) < 3 => 1 > Len(c) - 2
  BY <1>2
<1>5. /\ ~Exclusive(op) => c[1][1] \in {"query", "read"}
      /\ ~WritesData(op) => c[1][1] \notin {"down", "data"}
      /\ (WritesData(op) /\ Len(c) > 3) => c[1][1] # "data"
  BY <1>1, <1>2, <1>4 DEF Fits
<1>6. /\ (WritesData(op) /\ Len(c) = 3) => c[1] = <<"seek", PartOf(op)>>
      /\ (WritesData(op) /\ Len(c) < 3) => c[1] = <<"data", PartOf(op)>>
  BY <1>1, <1>2, <1>4 DEF Fits
<1> QED
  BY <1>2, <1>3, <1>5, <1>6 DEF c, op

(* A thread gets the device when nobody sends or revalidates. *)
LEMMA DeviceLockEffect ==
    ASSUME Types, Discipline, NEW t \in RevalThreads, DeviceLock(t)
    PROVE  /\ SameTape /\ SameFlags /\ OthersStay(t) /\ th'[t].op = th[t].op
           /\ th[t].pc = "device" /\ th'[t].pc = "send"
           /\ \A u \in RevalThreads : ~AtWork(u)
           /\ ~Writing(t)' /\ ~AtMam(t)'
           /\ WritesData(th[t].op) => Len(th'[t].todo) > 3
<1>1. th[t].op \in AllOps \ {"none", "sync"} /\ th[t].pc = "device"
  BY DEF DeviceLock, Types, Discipline, OpsMatch, ThreadsTyped, ThreadStates
<1>2. OthersStay(t) /\ SameCall(t) /\ th'[t].pc = "send"
  BY <1>1, DeviceLockStep
<1>3. PICK p \in Partitions : th'[t].todo = Commands(th[t].op, p)
  BY <1>1, DeviceLockStep
<1>4. Starts(th'[t].todo) /\ (WritesData(th[t].op) => Len(th'[t].todo) > 3)
  BY <1>1, <1>3, CommandsFit
<1>5. th'[t].todo \in CmdLists
  BY <1>1, <1>3, CommandsTyped
<1>6. th'[t].todo # <<>> => Cmd(t)' \notin Writes \cup {"mamset"}
  <2> DEFINE c == th'[t].todo
  <2>1. c # <<>> => Head(c) = c[1]
    BY <1>5 DEF CmdLists
  <2> QED
    BY <1>4, <2>1 DEF Starts, Cmd
<1>7. ASSUME NEW u \in RevalThreads PROVE ~AtWork(u)
  BY <1>1, RevalAssumption DEF DeviceLock, Discipline, AtWork, Revalidating, FenceMatches, Fencing,
     LocksMatch, Owning, WriterAlone, OwnerSends, OneAtWork
<1> QED
  BY <1>1, <1>2, <1>4, <1>6, <1>7
     DEF SameCall, DeviceLock, SameTape, SameFlags, Writing, AtMam, Sending

(* The step between the other partition's index and the data moves nothing. *)
LEMMA ClearIndexEndEffect ==
    ASSUME Types, NEW t \in RevalThreads, ClearIndexEnd(t)
    PROVE  /\ SameTape /\ SameFlags /\ OthersStay(t) /\ SameCall(t)
           /\ Sending(t) /\ Cmd(t) = "down" /\ th[t].pc = "send" /\ th'[t].pc = "send"
           /\ th'[t].todo = Tail(th[t].todo)
<1>1. /\ vol'.append = vol.append /\ vol'.pos = vol.pos /\ vol'.mounted = vol.mounted
  BY HeadTyped DEF ClearIndexEnd, Sending, Types, MediumTyped, Volumes
<1> QED
  BY <1>1, AdvanceStep DEF Types, ClearIndexEnd, Sending, SameTape, SameFlags

(* A seek puts the head and the cached position at the append position, or sends *)
(* nothing because the cached position is there.                                 *)
LEMMA TapeSeekEffect ==
    ASSUME Types, NEW t \in RevalThreads, TapeSeek(t)
    PROVE  /\ OthersStay(t) /\ Sending(t) /\ Cmd(t) = "seek" /\ th[t].pc = "send" /\ th'[t].pc = "send"
           /\ th'[t].op = th[t].op /\ th'[t].call = th[t].call
           /\ th'[t].todo = Tail(th[t].todo) /\ th'[t].start = SeekTarget(Prt(t))
           /\ Prt(t) \in Partitions /\ SeekTarget(Prt(t)) \in Nat
           /\ SameFlags /\ medium' = medium /\ seen' = seen
           /\ vol'.append = [vol.append EXCEPT ![Prt(t)] = SeekTarget(Prt(t))]
           /\ vol'.pos = At(Prt(t), SeekTarget(Prt(t)))
           /\ tape'.part = tape.part
           /\ \/ tape'.safe = tape.part /\ tape'.head = vol'.pos /\ attention = "none"
              \/ tape' = tape /\ vol'.pos = vol.pos /\ vol'.append = vol.append
<1> DEFINE p == Prt(t)
           b == SeekTarget(p)
<1>1. p \in Partitions /\ b \in Nat
  BY HeadTyped, SeekTargetTyped DEF TapeSeek, Sending
<1>2. vol' = [vol EXCEPT !.pos = At(p, b), !.append[p] = b]
  BY DEF TapeSeek
<1>3. tape' = IF AlreadyThere(t) THEN tape ELSE [tape EXCEPT !.head = At(p, b), !.safe = tape.part]
  BY DEF TapeSeek
<1>4. AlreadyThere(t) => vol.append[p] = b /\ vol.pos = At(p, b)
  BY DEF AlreadyThere, SeekTarget
<1>5. AlreadyThere(t) \/ attention = "none"
  BY DEF TapeSeek
<1> HIDE DEF p, b
<1>6. /\ vol'.append = [vol.append EXCEPT ![p] = b] /\ vol'.pos = At(p, b)
      /\ vol'.mounted = vol.mounted
  BY <1>1, <1>2 DEF Types, MediumTyped, Volumes
<1>7. AlreadyThere(t) => vol'.append = vol.append /\ vol'.pos = vol.pos
  BY <1>1, <1>4, <1>6 DEF Types, MediumTyped, Volumes
<1>8. /\ tape'.part = tape.part
      /\ ~AlreadyThere(t) => tape'.safe = tape.part /\ tape'.head = At(p, b)
      /\ AlreadyThere(t) => tape' = tape
  BY <1>3 DEF Types, MediumTyped, Tapes
<1> QED
  BY <1>1, <1>5, <1>6, <1>7, <1>8, TapeSeekStep DEF TapeSeek, SameFlags, Sending, p, b

(* A write replaces everything from the cached position on by one record. *)
LEMMA TapeWriteEffect ==
    ASSUME Types, NEW t \in RevalThreads, TapeWrite(t),
           vol.pos.block <= Len(tape.part[vol.pos.part])
    PROVE  /\ OthersStay(t) /\ SameCall(t) /\ th[t].pc = "send" /\ th'[t].pc = "send"
           /\ th'[t].todo = Tail(th[t].todo)
           /\ Writing(t) /\ Cmd(t) # "flush" /\ attention = "none"
           /\ SameFlags /\ medium' = medium
           /\ seen'.lost = seen.lost /\ seen'.acked = seen.acked /\ seen'.swallowed = seen.swallowed
           /\ seen'.spoiled => (seen.spoiled \/ medium # "ours" \/ tape.head # vol.pos)
           /\ LET p == vol.pos.part
                  b == vol.pos.block
              IN  /\ p \in Partitions /\ b \in Nat
                  /\ vol'.pos = At(p, b + 1) /\ tape'.head = At(p, b + 1)
                  /\ \A q \in Partitions \ {p} :
                        /\ vol'.append[q] = vol.append[q]
                        /\ tape'.part[q] = tape.part[q] /\ tape'.safe[q] = tape.safe[q]
                  /\ vol'.append[p] = IF Cmd(t) = "endfm" /\ p = "ip" THEN th[t].start ELSE b + 1
                  /\ Len(tape'.part[p]) = b + 1
                  /\ \A i \in 1..b : tape'.part[p][i] = tape.part[p][i]
                  /\ Cmd(t) = "data" => tape'.part[p][b + 1] = Data(th[t].call)
                  /\ tape'.safe[p] = IF Cmd(t) = "endfm" THEN tape'.part[p] ELSE tape.safe[p]
<1> DEFINE p == vol.pos.part
           b == vol.pos.block
           x == SubSeq(tape.part[p], 1, b)
           s == Append(x, Record(t))
           last == Cmd(t) = "endfm"
<1>1. p \in Partitions /\ b \in Nat /\ tape.part[p] \in Seq(Records)
  BY DEF Types, MediumTyped, Volumes, Places, Tapes
<1>2. /\ x \in Seq(Records) /\ Len(x) = b
      /\ \A i \in 1..b : x[i] = tape.part[p][i]
  BY <1>1, SubSeqProperties
<1>3. Record(t) \in Records
  BY DEF TapeWrite, Record, Records, Data, Idx, Fm, Types, ThreadsTyped, ThreadStates
<1>4. Cmd(t) = "data" => Record(t) = Data(th[t].call)
  BY DEF Record
<1> HIDE DEF x
<1>5. /\ Len(s) = b + 1 /\ s[b + 1] = Record(t)
      /\ \A i \in 1..b : s[i] = x[i]
  BY <1>1, <1>2, <1>3
<1>6. tape' = [tape EXCEPT !.part[p] = s, !.head = At(p, b + 1), !.safe[p] = IF last THEN s ELSE @]
  BY DEF TapeWrite, x
<1>7. PICK e, f, k, d : vol' = [vol EXCEPT !.pos.block = b + 1,
                 !.append[p] = IF last /\ p = "ip" THEN th[t].start ELSE b + 1,
                 !.ends[p] = e, !.self = f, !.back = k, !.dirty = d]
  BY DEF TapeWrite
<1> HIDE DEF p, b, s, last
<1>8. /\ tape'.head = At(p, b + 1) /\ tape'.part[p] = s
      /\ tape'.safe[p] = IF last THEN s ELSE tape.safe[p]
      /\ \A q \in Partitions \ {p} : tape'.part[q] = tape.part[q] /\ tape'.safe[q] = tape.safe[q]
  BY <1>1, <1>6 DEF Types, MediumTyped, Tapes
<1>9. /\ vol'.append[p] = IF last /\ p = "ip" THEN th[t].start ELSE b + 1
      /\ \A q \in Partitions \ {p} : vol'.append[q] = vol.append[q]
      /\ vol'.mounted = vol.mounted
  BY <1>1, <1>7 DEF Types, MediumTyped, Volumes
<1>10. vol'.pos = [vol.pos EXCEPT !.block = b + 1]
  BY <1>1, <1>7 DEF Types, MediumTyped, Volumes
<1>11. vol'.pos = At(p, b + 1)
  BY <1>1, <1>10 DEF Types, MediumTyped, Volumes, Places, At, p
<1>12. /\ seen'.lost = seen.lost /\ seen'.acked = seen.acked /\ seen'.swallowed = seen.swallowed
       /\ seen'.spoiled => (seen.spoiled \/ medium # "ours" \/ tape.head # vol.pos)
  BY DEF TapeWrite, Types, MediumTyped, Histories
<1>13. /\ OthersStay(t) /\ SameCall(t) /\ th[t].pc = "send" /\ th'[t].pc = "send"
       /\ th'[t].todo = Tail(th[t].todo)
       /\ Writing(t) /\ Cmd(t) # "flush" /\ attention = "none"
       /\ attention' = attention /\ reval' = reval /\ medium' = medium
  BY AdvanceStep DEF TapeWrite, Sending, Writing, Writes, Types
<1>14. \A i \in 1..b : s[i] = tape.part[p][i]
  BY <1>2, <1>5
<1>15. Len(tape'.part[p]) = b + 1 /\ (Cmd(t) = "data" => tape'.part[p][b + 1] = Data(th[t].call))
  BY <1>4, <1>5, <1>8
<1>16. \A i \in 1..b : tape'.part[p][i] = tape.part[p][i]
  BY <1>8, <1>14
<1>17. tape'.safe[p] = IF last THEN tape'.part[p] ELSE tape.safe[p]
  BY <1>8
<1> QED
  BY <1>1, <1>8, <1>9, <1>11, <1>12, <1>13, <1>15, <1>16, <1>17 DEF SameFlags, p, b, last

(* A query moves nothing; a read or a flush empties the buffer of the drive. *)
LEMMA TapeQueryEffect ==
    ASSUME Types, NEW t \in RevalThreads, TapeQuery(t)
    PROVE  /\ OthersStay(t) /\ SameCall(t) /\ Sending(t) /\ th[t].pc = "send" /\ th'[t].pc = "send"
           /\ th'[t].todo = Tail(th[t].todo) /\ attention = "none"
           /\ Cmd(t) \in {"query", "flush", "read", "mamset"}
           /\ SameFlags /\ medium' = medium /\ seen' = seen
           /\ vol'.append = vol.append /\ tape'.part = tape.part
           /\ \/ /\ Cmd(t) # "read" /\ vol'.pos = vol.pos /\ tape'.head = tape.head
                 /\ tape'.safe \in {tape.safe, tape.part}
              \/ Cmd(t) = "read" /\ vol'.pos = tape'.head /\ tape'.safe = tape.part
<1>1. /\ OthersStay(t) /\ SameCall(t) /\ Sending(t) /\ th[t].pc = "send" /\ th'[t].pc = "send"
      /\ th'[t].todo = Tail(th[t].todo) /\ attention = "none"
      /\ Cmd(t) \in {"query", "flush", "read", "mamset"} /\ medium' = medium /\ seen' = seen
      /\ attention' = attention /\ reval' = reval
  BY AdvanceStep DEF TapeQuery, Sending, Types
<1>2. /\ vol'.mounted = vol.mounted /\ vol'.append = vol.append
      /\ vol'.pos = IF Cmd(t) = "read" THEN At("dp", 4) ELSE vol.pos
  BY DEF TapeQuery, Types, MediumTyped, Volumes
<1>3. /\ tape'.part = tape.part
      /\ tape'.head = IF Cmd(t) = "read" THEN At("dp", 4) ELSE tape.head
      /\ tape'.safe = IF Cmd(t) \in {"flush", "read"} THEN tape.part ELSE tape.safe
  BY DEF TapeQuery, Types, MediumTyped, Tapes
<1> QED
  BY <1>1, <1>2, <1>3 DEF SameFlags

(* ltfs_write_index drops the attention that comes with its MAM update. *)
LEMMA MamUpdateFailsEffect ==
    ASSUME Types, NEW t \in RevalThreads, MamUpdateFails(t)
    PROVE  /\ OthersStay(t) /\ SameCall(t) /\ AtMam(t) /\ Sending(t) /\ th[t].pc = "send" /\ th'[t].pc = "send"
           /\ th'[t].todo = Tail(th[t].todo) /\ attention # "none" /\ attention' = "none"
           /\ reval' = reval /\ vol' = vol /\ tape' = tape /\ medium' = medium
           /\ seen'.lost = seen.lost /\ seen'.acked = seen.acked /\ seen'.swallowed
           /\ seen'.spoiled = seen.spoiled
  BY AdvanceStep DEF MamUpdateFails, AtMam, Sending, Types, MediumTyped, Histories

(* The attention is answered to one command, whose thread goes to revalidate. *)
LEMMA NeedRevalEffect ==
    ASSUME Types, NEW t \in RevalThreads, NeedReval(t)
    PROVE  /\ OthersStay(t) /\ SameCall(t) /\ Sending(t) /\ Cmd(t) # "mamset" /\ th[t].pc = "send"
           /\ th'[t].pc = "rv_mark" /\ th'[t].todo = <<>>
           /\ attention = "changed" /\ attention' = "none"
           /\ SameTape /\ reval' = reval /\ vol' = vol
  BY NeedRevalStep DEF NeedReval, Sending, SameTape

(* After an eject request the volume is given up. *)
LEMMA UnexpectedMoveEffect ==
    ASSUME Types, NEW t \in RevalThreads, UnexpectedMove(t)
    PROVE  /\ OthersStay(t) /\ Sending(t) /\ Cmd(t) # "mamset" /\ th[t].pc = "send" /\ th'[t] = IdleThread
           /\ attention = "removal" /\ attention' = "none" /\ reval' = "failed"
           /\ SameTape
  BY ReturnStep DEF UnexpectedMove, Sending, SameTape, Types, MediumTyped, Volumes

(* A write that returns is acknowledged at the block its last seek went to. *)
LEMMA FinishEffect ==
    ASSUME Types, NEW t \in RevalThreads, Finish(t)
    PROVE  /\ OthersStay(t) /\ th[t].pc = "send" /\ th[t].todo = <<>> /\ th'[t] = IdleThread
           /\ SameFlags /\ vol'.append = vol.append /\ vol'.pos = vol.pos /\ tape' = tape
           /\ medium' = medium /\ seen'.lost = seen.lost /\ seen'.swallowed = seen.swallowed
           /\ seen'.spoiled = seen.spoiled
           /\ \A e \in seen'.acked : e \in seen.acked \/
                 (WritesData(th[t].op)
                  /\ e = [at |-> At(PartOf(th[t].op), th[t].start), call |-> th[t].call])
<1>1. /\ OthersStay(t) /\ th[t].pc = "send" /\ th[t].todo = <<>> /\ th'[t] = IdleThread
      /\ tape' = tape /\ medium' = medium /\ attention' = attention /\ reval' = reval
  BY ReturnStep DEF Finish, Types
<1>2. vol'.append = vol.append /\ vol'.pos = vol.pos /\ vol'.mounted = vol.mounted
  BY DEF Finish, Types, MediumTyped, Volumes
<1> DEFINE x == IF th[t].op \in {"write_ip", "write_dp"}
                THEN {[at |-> At(IF th[t].op = "write_ip" THEN "ip" ELSE "dp", th[t].start),
                       call |-> th[t].call]}
                ELSE {}
<1>3. seen' = [seen EXCEPT !.acked = @ \cup x]
  BY DEF Finish
<1>4. \A e \in x : WritesData(th[t].op)
                   /\ e = [at |-> At(PartOf(th[t].op), th[t].start), call |-> th[t].call]
  BY DEF WritesData, PartOf
<1> HIDE DEF x
<1>5. /\ seen'.lost = seen.lost /\ seen'.swallowed = seen.swallowed /\ seen'.spoiled = seen.spoiled
      /\ seen'.acked = seen.acked \cup x
  BY <1>3 DEF Types, MediumTyped, Histories
<1> QED
  BY <1>1, <1>2, <1>4, <1>5 DEF SameFlags

(* The end of ltfs_unmount. *)
LEMMA UnmountEndsEffect ==
    ASSUME Types, NEW t \in RevalThreads, UnmountEnds(t)
    PROVE  /\ OthersStay(t) /\ th[t].pc = "send" /\ th[t].todo = <<>> /\ th'[t] = IdleThread
           /\ th[t].op = "unmount" /\ ~vol'.mounted /\ SameTape
  BY ReturnStep DEF UnmountEnds, SameTape, Types, MediumTyped, Volumes

(* The steps of ltfs_revalidate. *)
LEMMA RevalMarkEffect ==
    ASSUME Types, NEW t \in RevalThreads, RevalMark(t) \/ RevalUnlock(t) \/ RevalLock(t)
    PROVE  /\ OthersStay(t) /\ SameTape /\ attention' = attention /\ vol'.mounted = vol.mounted
           /\ th[t].pc \in {"rv_mark", "rv_unlock", "rv_lock"}
           /\ th'[t].pc \in {"rv_unlock", "rv_lock", "rv_start"}
  BY GotoStep DEF RevalMark, RevalUnlock, RevalLock, PCs, SameTape, Types

(* The checks begin with the append positions put aside. *)
LEMMA RevalStartEffect ==
    ASSUME Types, NEW t \in RevalThreads, RevalStart(t)
    PROVE  /\ OthersStay(t) /\ SameTape /\ SameFlags
           /\ th[t].pc = "rv_start" /\ th'[t].pc = "rv_check"
           /\ Len(th'[t].todo) = 8 /\ th'[t].saved = vol.append
<1>1. Len(Checks) = 8
  BY DEF Checks
<1> QED
  BY <1>1, RevalStartStep DEF RevalStart, SameTape, SameFlags

(* The check a revalidation has come to follows from how many it has left. *)
LEMMA ThisCheck ==
    ASSUME Types, Scripts, NEW t \in RevalThreads, th[t].pc = "rv_check", th[t].todo # <<>>
    PROVE  LET n == Len(th[t].todo) IN
           /\ n \in 1..8 /\ Prt(t) \in Partitions
           /\ n \in 7..8 => Cmd(t) \in {"setup", "reserve"}
           /\ n = 6 => Cmd(t) = "load"
           /\ n = 5 => Cmd(t) = "label"
           /\ n = 4 => Cmd(t) = "eod"
           /\ n = 3 => Cmd(t) = "mam"
           /\ n = 2 => Cmd(t) = "seekeod" /\ Prt(t) = "dp"
           /\ n = 1 => Cmd(t) = "seekeod" /\ Prt(t) = "ip"
<1> DEFINE c == th[t].todo
           n == Len(c)
<1>1. c \in CmdLists /\ c # <<>> /\ n <= 8 /\ \A i \in 1..n : c[i] = Checks[8 - n + i]
  BY DEF Types, ThreadsTyped, ThreadStates, Scripts, ScriptOf
<1>2. n \in 1..8 /\ Head(c) = c[1] /\ 1 \in 1..n
  <2>1. n \in Nat /\ n > 0 /\ Head(c) = c[1]
    BY <1>1 DEF CmdLists
  <2> HIDE DEF n
  <2> QED
    BY <2>1, <1>1
<1>3. Cmd(t) = c[1][1] /\ Prt(t) = c[1][2] /\ Prt(t) \in Partitions
  BY <1>2, HeadTyped DEF Cmd, Prt
<1> HIDE DEF c
<1>4. c[1] = Checks[9 - n]
  <2>1. 8 - n + 1 = 9 - n
    BY <1>2
  <2> QED
    BY <1>1, <1>2, <2>1
<1> HIDE DEF n
<1>5. /\ Checks[1] = <<"setup", "ip">> /\ Checks[2] = <<"reserve", "ip">>
      /\ Checks[3] = <<"load", "ip">> /\ Checks[4] = <<"label", "ip">>
      /\ Checks[5] = <<"eod", "ip">> /\ Checks[6] = <<"mam", "ip">>
      /\ Checks[7] = <<"seekeod", "dp">> /\ Checks[8] = <<"seekeod", "ip">>
  BY DEF Checks
<1>6. /\ n = 8 => 9 - n = 1
      /\ n = 7 => 9 - n = 2
      /\ n = 6 => 9 - n = 3
      /\ n = 5 => 9 - n = 4
      /\ n = 4 => 9 - n = 5
      /\ n = 3 => 9 - n = 6
      /\ n = 2 => 9 - n = 7
      /\ n = 1 => 9 - n = 8
      /\ n \in 7..8 => n = 7 \/ n = 8
  BY <1>2
<1>7. /\ n \in 7..8 => Cmd(t) \in {"setup", "reserve"}
      /\ n = 6 => Cmd(t) = "load"
      /\ n = 5 => Cmd(t) = "label"
      /\ n = 4 => Cmd(t) = "eod"
      /\ n = 3 => Cmd(t) = "mam"
      /\ n = 2 => Cmd(t) = "seekeod" /\ Prt(t) = "dp"
      /\ n = 1 => Cmd(t) = "seekeod" /\ Prt(t) = "ip"
  BY <1>3, <1>4, <1>5, <1>6
<1> QED
  BY <1>2, <1>3, <1>7 DEF n, c

(* Only the first three checks are repeated when told of another change. *)
LEMMA RevalRepeatsEffect ==
    ASSUME Types, Scripts, NEW t \in RevalThreads, RevalRepeats(t)
    PROVE  /\ th' = th /\ th[t].pc = "rv_check" /\ Len(th[t].todo) \in 6..8
           /\ SameTape /\ attention' = "none" /\ reval' = reval /\ vol' = vol
<1>1. Len(th[t].todo) \in 6..8
  <2>1. /\ th[t].pc = "rv_check" /\ th[t].todo # <<>> /\ Cmd(t) \in {"reserve", "load"}
    BY DEF RevalRepeats
  <2>2. Len(th[t].todo) \in 1..8 /\ Len(th[t].todo) \notin 1..5
    <3>1. Len(th[t].todo) \in 1..5 => Len(th[t].todo) \in {1, 2, 3, 4, 5}
      OBVIOUS
    <3> QED
      BY <2>1, <3>1, ThisCheck
  <2> QED
    BY <2>2
<1> QED
  BY <1>1 DEF RevalRepeats, SameTape

(* A check that passes: what it has found, and where it leaves the tape. *)
LEMMA RevalCheckEffect ==
    ASSUME Types, Scripts, NEW t \in RevalThreads, RevalCheck(t)
    PROVE  /\ OthersStay(t) /\ SameCall(t) /\ th[t].pc = "rv_check" /\ th'[t].pc = "rv_check"
           /\ Len(th[t].todo) \in 1..8 /\ Len(th'[t].todo) = Len(th[t].todo) - 1
           /\ SameFlags /\ attention = "none" /\ medium' = medium /\ seen' = seen
           /\ tape'.part = tape.part
           /\ Len(th[t].todo) > 6 => vol'.append = vol.append /\ vol'.pos = vol.pos /\ tape' = tape
           /\ Len(th[t].todo) = 6 => \A p \in Partitions : vol'.append[p] = 0
           /\ Len(th[t].todo) \in 3..5 => vol'.append = vol.append
           /\ Len(th[t].todo) \in 3..4 => vol'.pos = vol.pos /\ tape' = tape
           /\ Len(th[t].todo) \in {1, 2, 5, 6} => tape'.head = vol'.pos /\ tape'.safe = tape.part
           /\ Len(th[t].todo) = 5 => medium # "other"
           /\ Len(th[t].todo) = 4 => medium # "noeod"
           /\ Len(th[t].todo) = 3 => medium # "touched"
           /\ Len(th[t].todo) = 2 =>
                 /\ vol'.append = [vol.append EXCEPT !["dp"] = th[t].saved["dp"]]
                 /\ DpValid(th[t].saved["dp"])
           /\ Len(th[t].todo) = 1 =>
                 /\ vol'.append = [vol.append EXCEPT !["ip"] = th[t].saved["ip"]]
                 /\ IpValid(th[t].saved["ip"])
<1> DEFINE n == Len(th[t].todo)
           at == CASE Cmd(t) = "load" -> At("ip", 0)
                   [] Cmd(t) = "label" -> At("dp", 1)
                   [] Cmd(t) = "seekeod" -> At(Prt(t), Len(tape.part[Prt(t)]))
                   [] OTHER -> vol.pos
           ap == CASE Cmd(t) = "load" -> [p \in Partitions |-> 0]
                   [] Cmd(t) = "seekeod" -> [vol.append EXCEPT ![Prt(t)] = th[t].saved[Prt(t)]]
                   [] OTHER -> vol.append
<1>1. /\ th[t].pc = "rv_check" /\ th[t].todo # <<>> /\ attention = "none" /\ CheckPasses(t)
      /\ attention' = attention /\ reval' = reval /\ medium' = medium /\ seen' = seen
      /\ vol' = [vol EXCEPT !.pos = at, !.append = ap]
      /\ tape' = IF Cmd(t) \in {"load", "label", "seekeod"}
                 THEN [tape EXCEPT !.head = at, !.safe = tape.part] ELSE tape
  BY DEF RevalCheck
<1>2. OthersStay(t) /\ SameCall(t) /\ th'[t].pc = th[t].pc /\ th'[t].todo = Tail(th[t].todo)
  BY <1>1, AdvanceStep DEF RevalCheck, Types
<1>3. th[t].todo \in CmdLists
  BY DEF Types, ThreadsTyped, ThreadStates
<1>4. Len(th'[t].todo) = n - 1
  BY <1>1, <1>2, <1>3 DEF CmdLists
<1>5. /\ n \in 1..8 /\ Prt(t) \in Partitions
      /\ n \in 7..8 => Cmd(t) \in {"setup", "reserve"}
      /\ n = 6 => Cmd(t) = "load"
      /\ n = 5 => Cmd(t) = "label"
      /\ n = 4 => Cmd(t) = "eod"
      /\ n = 3 => Cmd(t) = "mam"
      /\ n = 2 => Cmd(t) = "seekeod" /\ Prt(t) = "dp"
      /\ n = 1 => Cmd(t) = "seekeod" /\ Prt(t) = "ip"
  BY <1>1, ThisCheck
<1>6. /\ n = 5 => medium # "other"
      /\ n = 4 => medium # "noeod"
      /\ n = 3 => medium # "touched"
      /\ n = 2 => DpValid(th[t].saved["dp"])
      /\ n = 1 => IpValid(th[t].saved["ip"])
  BY <1>1, <1>5 DEF CheckPasses
<1>7. /\ n \in 7..8 => ap = vol.append /\ at = vol.pos
      /\ n = 6 => ap = [p \in Partitions |-> 0]
      /\ n \in 3..5 => ap = vol.append
      /\ n \in 3..4 => at = vol.pos
      /\ n = 2 => ap = [vol.append EXCEPT !["dp"] = th[t].saved["dp"]]
      /\ n = 1 => ap = [vol.append EXCEPT !["ip"] = th[t].saved["ip"]]
  BY <1>5
<1> HIDE DEF n, at, ap
<1>8. /\ vol'.append = ap /\ vol'.pos = at /\ vol'.mounted = vol.mounted
  BY <1>1 DEF Types, MediumTyped, Volumes
<1>9. /\ tape'.part = tape.part
      /\ Cmd(t) \in {"load", "label", "seekeod"} => tape'.head = at /\ tape'.safe = tape.part
      /\ Cmd(t) \notin {"load", "label", "seekeod"} => tape' = tape
  BY <1>1 DEF Types, MediumTyped, Tapes
<1>10. /\ n \in {1, 2, 5, 6} => tape'.head = vol'.pos /\ tape'.safe = tape.part
       /\ n \in 3..4 \/ n > 6 => tape' = tape
  BY <1>5, <1>8, <1>9
<1>11. /\ n > 6 => vol'.append = vol.append /\ vol'.pos = vol.pos
       /\ n = 6 => \A p \in Partitions : vol'.append[p] = 0
       /\ n \in 3..5 => vol'.append = vol.append
       /\ n \in 3..4 => vol'.pos = vol.pos
       /\ n = 2 => vol'.append = [vol.append EXCEPT !["dp"] = th[t].saved["dp"]]
       /\ n = 1 => vol'.append = [vol.append EXCEPT !["ip"] = th[t].saved["ip"]]
  BY <1>5, <1>7, <1>8
<1> QED
  BY <1>1, <1>2, <1>4, <1>5, <1>6, <1>8, <1>9, <1>10, <1>11 DEF SameFlags, n

(* A check that fails ends the revalidation with checks left. *)
LEMMA RevalFailsEffect ==
    ASSUME Types, NEW t \in RevalThreads, RevalFails(t)
    PROVE  /\ OthersStay(t) /\ SameCall(t) /\ th[t].pc = "rv_check" /\ th'[t].pc = "rv_unfence"
           /\ th[t].todo # <<>> /\ th'[t].todo = th[t].todo
           /\ SameTape /\ attention' = "none" /\ reval' = reval /\ vol' = vol
  BY GotoStep DEF RevalFails, PCs, SameTape, Types

(* The fence falls, with checks left exactly when one has failed. *)
LEMMA RevalUnfenceEffect ==
    ASSUME Types, Discipline, NEW t \in RevalThreads, RevalUnfence(t)
    PROVE  /\ OthersStay(t) /\ SameTape /\ SameFlags
           /\ th'[t].pc = "rv_record" /\ th'[t].todo = th[t].todo
           /\ \/ th[t].pc = "rv_unfence" /\ th[t].todo # <<>>
              \/ th[t].pc = "rv_check" /\ th[t].todo = <<>> /\ Len(th[t].todo) = 0
  BY GotoStep DEF RevalUnfence, PCs, SameTape, SameFlags, Types, Discipline, VerdictKept

(* The result is recorded. *)
LEMMA RevalRecordEffect ==
    ASSUME Types, NEW t \in RevalThreads, RevalRecord(t)
    PROVE  /\ OthersStay(t) /\ SameTape /\ attention' = attention /\ vol' = vol
           /\ th[t].pc = "rv_record" /\ th'[t].pc = "rv_return" /\ th'[t].todo = th[t].todo
  BY GotoStep DEF RevalRecord, PCs, SameTape, Types

(* A revalidation that has failed leaves vol->reval failed or the volume unmounted. *)
LEMMA RevalReturnEffect ==
    ASSUME Types, Discipline, NEW t \in RevalThreads, RevalReturn(t)
    PROVE  /\ OthersStay(t) /\ SameTape /\ attention' = attention /\ vol.mounted
           /\ th[t].pc = "rv_return" /\ ~AtWork(t)' /\ th'[t].pc \notin {"peek", "device", "send"}
           /\ th[t].todo = <<>> => reval' = "ok" /\ vol' = vol
           /\ th[t].todo # <<>> => reval = "failed" /\ (~vol'.mounted \/ reval' = "failed")
<1>1. th[t].pc = "rv_return" /\ vol.mounted /\ (th[t].todo = <<>> => reval = "ok")
      /\ (th[t].todo # <<>> => reval = "failed")
  BY DEF RevalReturn, Discipline, UnmountedIsIdle, VerdictKept
<1>2. CASE th[t].todo = <<>>
  BY <1>1, <1>2, RetryStep DEF RevalReturn, SameTape, AtWork, Revalidating
<1>3. CASE th[t].todo # <<>>
  BY <1>1, <1>3, ReturnStep, IdleFields
     DEF RevalReturn, SameTape, AtWork, Revalidating, Types, MediumTyped, Volumes
<1> QED
  BY <1>2, <1>3

(* The drive: a reset keeps a beginning of each partition or what had left *)
(* the buffer, and says which partitions lost something.                   *)
LEMMA ResetEffect ==
    ASSUME Types, Reset
    PROVE  /\ th' = th /\ vol' = vol /\ reval' = reval
           /\ attention # "changed" /\ attention' = "changed" /\ vol.mounted
           /\ tape'.safe = tape'.part
           /\ seen'.acked = seen.acked /\ seen'.swallowed = seen.swallowed
           /\ seen'.spoiled = seen.spoiled /\ seen.lost \subseteq seen'.lost
           /\ \A p \in Partitions :
                 /\ p \notin seen'.lost => tape'.part[p] = tape.part[p]
                 /\ p \in seen'.lost \ seen.lost => tape'.part[p] # tape.part[p]
                 /\ tape.safe[p] = tape.part[p] => tape'.part[p] = tape.part[p]
                 /\ tape'.part[p] = tape.safe[p] \/
                       \E n \in 0..Len(tape.part[p]) : tape'.part[p] = SubSeq(tape.part[p], 1, n)
<1>1. PICK s \in [Partitions -> UNION {AfterReset(p) : p \in Partitions}] :
        /\ \A p \in Partitions : s[p] \in AfterReset(p)
        /\ tape' = [part |-> s, safe |-> s, head |-> At("ip", 0)]
        /\ seen' = [seen EXCEPT !.lost = @ \cup {p \in Partitions : s[p] # tape.part[p]}]
  BY DEF Reset
<1>2. tape'.part = s /\ tape'.safe = s
  BY <1>1
<1>3. /\ seen'.acked = seen.acked /\ seen'.swallowed = seen.swallowed
      /\ seen'.spoiled = seen.spoiled
      /\ seen'.lost = seen.lost \cup {p \in Partitions : s[p] # tape.part[p]}
  BY <1>1 DEF Types, MediumTyped, Histories
<1>4. \A p \in Partitions :
        /\ tape.safe[p] = tape.part[p] => s[p] = tape.part[p]
        /\ s[p] = tape.safe[p] \/ \E n \in 0..Len(tape.part[p]) : s[p] = SubSeq(tape.part[p], 1, n)
  BY <1>1, AfterResetKinds
<1>5. \A p \in Partitions :
        /\ p \notin seen'.lost => s[p] = tape.part[p]
        /\ p \in seen'.lost \ seen.lost => s[p] # tape.part[p]
  BY <1>3
<1> QED
  BY <1>2, <1>3, <1>4, <1>5 DEF Reset, Raise

(* A cartridge put back or replaced: the buffer had been written out. *)
LEMMA SwapEffect ==
    ASSUME Types, Swap
    PROVE  /\ th' = th /\ vol' = vol /\ reval' = reval /\ seen' = seen
           /\ attention # "changed" /\ attention' = "changed" /\ vol.mounted
           /\ tape'.part = tape.part /\ tape'.safe = tape.part
  BY DEF Swap, Raise, Types, MediumTyped, Tapes

(* An eject request changes nothing but the attention. *)
LEMMA RemovalEffect ==
    ASSUME Types, RemovalRequest
    PROVE  /\ th' = th /\ vol' = vol /\ reval' = reval /\ seen' = seen /\ tape' = tape
           /\ medium' = medium /\ attention = "none" /\ attention' = "removal"
  BY DEF RemovalRequest, Raise

(* A record is written in normal use only, and at or before the end of data. *)
LEMMA WritePlace ==
    ASSUME Types, Discipline, Scripts, Inside, Positioned, NEW t \in RevalThreads, TapeWrite(t)
    PROVE  Normal /\ vol.pos.block <= Len(tape.part[vol.pos.part])
<1>1. Sending(t) /\ th[t].pc = "send" /\ Writing(t) /\ attention = "none"
  BY DEF TapeWrite, Sending, Writing, Writes
<1>2. Exclusive(th[t].op)
  BY <1>1, ThisCommand DEF Writing, Writes
<1>3. reval # "failed" /\ vol.mounted
  BY <1>1, <1>2, WorkerMounted DEF Discipline, FailureStops
<1>4. \A u \in RevalThreads : ~Revalidating(u)
  BY <1>1, OthersRest DEF AtWork, Revalidating
<1>5. Normal
  BY <1>1, <1>3, <1>4 DEF Normal
<1>6. vol.pos.part \in Partitions /\ vol.append[vol.pos.part] = vol.pos.block
  BY <1>1 DEF Positioned, Types, MediumTyped, Volumes, Places
<1> QED
  BY <1>5, <1>6 DEF Inside

(* Trust and the checks of a revalidation. *)
LEMMA TrustStep ==
    ASSUME Types, Discipline, Scripts, Inside, Positioned, Trust, Checked, RevalNext
    PROVE  Trust' /\ Checked'
<1> USE DEF Normal, Trust, Checked, Rewound, Passed, SameTape, SameFlags, OthersStay
<1>1. ASSUME NEW t \in RevalThreads,
             \/ \E op \in RevalOps : Call(t, op)
             \/ GetVolumeLockWait(t) \/ GetVolumeLockAcquire(t) \/ GetVolumeLockRecheck(t)
             \/ SyncPeek(t) \/ DeviceFenced(t) \/ WaitRevalidation(t)
      PROVE  Trust' /\ Checked'
  BY <1>1, IdlerEffect DEF OnlyIdlersMove, AtWork, Revalidating
<1>2. ASSUME NEW t \in RevalThreads, DeviceLock(t) PROVE Trust' /\ Checked'
  BY <1>2, DeviceLockEffect DEF AtWork, Revalidating
<1>3. ASSUME NEW t \in RevalThreads, ClearIndexEnd(t) PROVE Trust' /\ Checked'
  BY <1>3, ClearIndexEndEffect DEF Revalidating
<1>4. ASSUME NEW t \in RevalThreads, TapeSeek(t) PROVE Trust' /\ Checked'
  <2>1. AtWork(t)
    BY <1>4, TapeSeekEffect DEF AtWork
  <2>2. Trust'
    BY <1>4, TapeSeekEffect DEF Revalidating
  <2>3. \A u \in RevalThreads : ~Revalidating(u)'
    BY <1>4, <2>1, TapeSeekEffect, OthersRest DEF Revalidating, AtWork
  <2> QED
    BY <2>2, <2>3 DEF Revalidating
<1>5. ASSUME NEW t \in RevalThreads, TapeWrite(t) PROVE Trust' /\ Checked'
  <2>1. AtWork(t) /\ vol.pos.block <= Len(tape.part[vol.pos.part])
    BY <1>5, WritePlace DEF AtWork, TapeWrite, Sending
  <2> QED
    BY <1>5, <2>1, TapeWriteEffect, OthersRest DEF Revalidating, AtWork
<1>6. ASSUME NEW t \in RevalThreads, TapeQuery(t) PROVE Trust' /\ Checked'
  <2>1. AtWork(t)
    BY <1>6, TapeQueryEffect DEF AtWork
  <2> QED
    BY <1>6, <2>1, TapeQueryEffect, OthersRest DEF Revalidating, AtWork
<1>7. ASSUME NEW t \in RevalThreads, MamUpdateFails(t) PROVE Trust' /\ Checked'
  <2>1. AtWork(t)
    BY <1>7, MamUpdateFailsEffect DEF AtWork
  <2> QED
    BY <1>7, <2>1, MamUpdateFailsEffect, OthersRest DEF Revalidating, AtWork
<1>8. ASSUME NEW t \in RevalThreads, NeedReval(t) PROVE Trust' /\ Checked'
  <2>1. AtWork(t)
    BY <1>8, NeedRevalEffect DEF AtWork
  <2> QED
    BY <1>8, <2>1, NeedRevalEffect, OthersRest DEF Revalidating, AtWork
<1>9. ASSUME NEW t \in RevalThreads, UnexpectedMove(t) PROVE Trust' /\ Checked'
  BY <1>9, UnexpectedMoveEffect, IdleFields DEF Revalidating
<1>10. ASSUME NEW t \in RevalThreads, Finish(t) PROVE Trust' /\ Checked'
  BY <1>10, FinishEffect, IdleFields DEF Revalidating
<1>11. ASSUME NEW t \in RevalThreads, UnmountEnds(t) PROVE Trust' /\ Checked'
  <2>1. AtWork(t)
    BY <1>11, UnmountEndsEffect DEF AtWork
  <2> QED
    BY <1>11, <2>1, UnmountEndsEffect, OthersRest, IdleFields DEF Revalidating, AtWork
<1>12. ASSUME NEW t \in RevalThreads, RevalMark(t) \/ RevalUnlock(t) \/ RevalLock(t)
       PROVE  Trust' /\ Checked'
  BY <1>12, RevalMarkEffect DEF Revalidating
<1>13. ASSUME NEW t \in RevalThreads, RevalStart(t) PROVE Trust' /\ Checked'
  <2>1. /\ OthersStay(t) /\ SameTape /\ SameFlags /\ th'[t].pc = "rv_check"
        /\ Len(th'[t].todo) = 8 /\ ~(8 <= 5) /\ ~(8 <= 4) /\ ~(8 <= 3) /\ ~(8 <= 2)
    BY <1>13, RevalStartEffect
  <2>2. Trust'
    BY <2>1 DEF Revalidating
  <2>3. Checked'
    BY <2>1
  <2> QED
    BY <2>2, <2>3
<1>14. ASSUME NEW t \in RevalThreads, RevalRepeats(t) PROVE Trust' /\ Checked'
  <2>1. /\ AtWork(t) /\ th' = th /\ th[t].pc = "rv_check" /\ Len(th[t].todo) \in 6..8
        /\ SameTape /\ attention' = "none" /\ reval' = reval /\ vol' = vol
    BY <1>14, RevalRepeatsEffect DEF AtWork, Revalidating
  <2>2. Trust'
    BY <2>1 DEF Revalidating
  <2>3. \A u \in RevalThreads \ {t} : ~Revalidating(u)
    BY <2>1, OthersRest DEF AtWork
  <2>4. LET n == Len(th[t].todo) IN ~(n <= 5) /\ ~(n <= 4) /\ ~(n <= 3) /\ ~(n <= 2)
    <3>1. \A n \in 6..8 : ~(n <= 5) /\ ~(n <= 4) /\ ~(n <= 3) /\ ~(n <= 2)
      OBVIOUS
    <3> QED
      BY <2>1, <3>1
  <2>5. Checked'
    BY <2>1, <2>3, <2>4 DEF Revalidating
  <2> QED
    BY <2>2, <2>5
<1>15. ASSUME NEW t \in RevalThreads, RevalCheck(t) PROVE Trust' /\ Checked'
  <2>1. AtWork(t)
    BY <1>15, RevalCheckEffect DEF AtWork, Revalidating
  <2>2. Trust'
    BY <1>15, RevalCheckEffect DEF Revalidating
  <2>3. \A u \in RevalThreads \ {t} : ~Revalidating(u)'
    BY <1>15, <2>1, RevalCheckEffect, OthersRest DEF Revalidating, AtWork
  <2>4. Checked'
    <3> DEFINE n == Len(th[t].todo)
               m == Len(th'[t].todo)
    <3>1. /\ n \in 1..8 /\ m = n - 1 /\ th'[t].pc = "rv_check" /\ th[t].pc = "rv_check"
          /\ medium' = medium /\ attention = "none"
          /\ n = 5 => medium # "other"
          /\ n = 4 => medium # "noeod"
          /\ n = 3 => medium # "touched"
          /\ n \in {1, 2, 5, 6} => tape'.head = vol'.pos
          /\ n \in 3..4 => vol'.pos = vol.pos /\ tape' = tape
      BY <1>15, RevalCheckEffect
    <3>2. /\ n <= 5 => tape.head = vol.pos
          /\ n <= 4 => medium # "other"
          /\ n <= 3 => medium # "noeod"
          /\ n <= 2 => medium # "touched"
      BY <3>1
    <3> HIDE DEF n, m
    <3>3. /\ m <= 5 => tape'.head = vol'.pos
          /\ m <= 4 => medium' # "other"
          /\ m <= 3 => medium' # "noeod"
          /\ m <= 2 => medium' # "touched"
      BY <3>1, <3>2
    <3> QED
      BY <2>3, <3>1, <3>3 DEF Revalidating, m
  <2> QED
    BY <2>2, <2>4
<1>16. ASSUME NEW t \in RevalThreads, RevalFails(t) PROVE Trust' /\ Checked'
  <2>1. AtWork(t)
    BY <1>16, RevalFailsEffect DEF AtWork, Revalidating
  <2> QED
    BY <1>16, <2>1, RevalFailsEffect, OthersRest DEF Revalidating, AtWork
<1>17. ASSUME NEW t \in RevalThreads, RevalUnfence(t) PROVE Trust' /\ Checked'
  BY <1>17, RevalUnfenceEffect DEF Revalidating, Types, FlagsTyped
<1>18. ASSUME NEW t \in RevalThreads, RevalRecord(t) PROVE Trust' /\ Checked'
  BY <1>18, RevalRecordEffect DEF Revalidating
<1>19. ASSUME NEW t \in RevalThreads, RevalReturn(t) PROVE Trust' /\ Checked'
  BY <1>19, RevalReturnEffect DEF Revalidating, AtWork
<1>20. CASE Reset
  BY <1>20, ResetEffect
<1>21. CASE Swap
  BY <1>21, SwapEffect
<1>22. CASE RemovalRequest
  BY <1>22, RemovalEffect DEF Revalidating
<1> QED
  BY <1>1, <1>2, <1>3, <1>4, <1>5, <1>6, <1>7, <1>8, <1>9, <1>10, <1>11, <1>12, <1>13, <1>14,
     <1>15, <1>16, <1>17, <1>18, <1>19, <1>20, <1>21, <1>22 DEF RevalNext, ThreadStep

(* The greatest of some positions of a sequence is one of them, so the index *)
(* found before the end of data is before the end of data.                   *)
LEMMA GreatestPosition ==
    ASSUME NEW n \in Nat, NEW T, T \subseteq 1..n, T # {}
    PROVE  Max(T) \in T
<1> DEFINE U == {k \in Nat : \E i \in T : k = n - i}
<1>1. U \subseteq Nat /\ U # {}
  <2>1. PICK i \in T : i \in 1..n
    OBVIOUS
  <2>2. n - i \in U
    BY <2>1
  <2> QED
    BY <2>2
<1>2. PICK m \in U : \A k \in U : m <= k
  <2> HIDE DEF U
  <2> QED
    BY <1>1, LeastNatural
<1>3. PICK i \in T : m = n - i
  OBVIOUS
<1>4. ASSUME NEW j \in T PROVE i >= j
  <2>1. n - j \in U /\ i \in 1..n /\ j \in 1..n
    OBVIOUS
  <2>2. m <= n - j
    BY <1>2, <2>1
  <2> QED
    BY <1>3, <2>1, <2>2
<1> QED
  BY <1>4 DEF Max

(* An index partition that passes has its append position on the tape. *)
LEMMA IpValidInside ==
    ASSUME Types, NEW a \in Nat, IpValid(a)
    PROVE  a <= Len(tape.part["ip"])
<1> DEFINE s == tape.part["ip"]
           marks == {i \in 1..(Len(s) - 1) : s[i] = Fm}
<1>1. s \in Seq(Records) /\ Len(s) \in Nat
  BY DEF Types, MediumTyped, Tapes, Partitions
<1>2. a # 0 => a + 1 = IF vol.ends["ip"] THEN LastIndex(s) ELSE Len(s)
  BY DEF IpValid
<1>3. LastIndex(s) = IF marks = {} THEN 0 ELSE Max(marks)
  BY DEF LastIndex
<1>4. marks # {} => Max(marks) \in marks
  <2>1. marks \subseteq 1..Len(s)
    BY <1>1
  <2> HIDE DEF marks
  <2> QED
    BY <1>1, <2>1, GreatestPosition
<1>5. marks # {} => Max(marks) \in Nat /\ Max(marks) <= Len(s)
  <2>1. \A i \in marks : i \in Nat /\ i <= Len(s)
    BY <1>1
  <2> HIDE DEF marks
  <2> QED
    BY <1>4, <2>1
<1> HIDE DEF s, marks
<1>6. a <= Len(s)
  BY <1>1, <1>2, <1>3, <1>5
<1> QED
  BY <1>6 DEF s

(* A thread that does not have the drive. *)
Rests(u) ==
    /\ ~Rewound(u) /\ ~Passed(u) /\ ~AtMam(u) /\ ~Writing(u) /\ ~Revalidating(u)
    /\ th[u].pc # "send" /\ th[u].pc # "rv_check"

(* The threads beside the one that has the drive are not concerned, before or after. *)
LEMMA OthersIdle ==
    ASSUME Discipline, NEW t \in RevalThreads, AtWork(t), OthersStay(t)
    PROVE  \A u \in RevalThreads \ {t} : Rests(u) /\ Rests(u)'
<1> SUFFICES ASSUME NEW u \in RevalThreads \ {t} PROVE Rests(u) /\ Rests(u)'
  OBVIOUS
<1>1. th'[u] = th[u] /\ ~AtWork(u)
  BY OthersRest DEF OthersStay
<1> QED
  BY <1>1 DEF AtWork, Rests, Rewound, Passed, AtMam, Writing, Sending, Revalidating

(* A thread that does not move stays where it is in its call. *)
LEMMA SameThread ==
    ASSUME NEW u \in RevalThreads, th'[u] = th[u]
    PROVE  /\ Rewound(u)' <=> Rewound(u)
           /\ Passed(u)' <=> Passed(u)
           /\ AtMam(u)' <=> AtMam(u)
           /\ Writing(u)' <=> Writing(u)
           /\ Revalidating(u)' <=> Revalidating(u)
           /\ Prt(u)' = Prt(u)
  BY DEF Rewound, Passed, AtMam, Writing, Sending, Cmd, Prt, Revalidating

(* Steps of the threads that do not have the drive leave those that have it *)
(* as they are.                                                             *)
LEMMA IdlersOnly ==
    ASSUME OnlyIdlersMove, NEW u \in RevalThreads
    PROVE  /\ Rewound(u)' <=> Rewound(u)
           /\ Passed(u)' <=> Passed(u)
           /\ AtMam(u)' <=> AtMam(u)
           /\ Writing(u)' <=> Writing(u)
           /\ Revalidating(u)' <=> Revalidating(u)
           /\ (Writing(u) \/ th[u].pc = "rv_check" \/ th[u].pc = "send" \/ Revalidating(u)) => th'[u] = th[u]
           /\ (Writing(u)' \/ th'[u].pc = "rv_check" \/ th'[u].pc = "send" \/ Revalidating(u)') => th'[u] = th[u]
<1>1. CASE th'[u] = th[u]
  BY <1>1, SameThread
<1>2. CASE ~AtWork(u) /\ ~AtWork(u)'
  BY <1>2 DEF AtWork, Rewound, Passed, AtMam, Writing, Sending, Revalidating
<1> QED
  BY <1>1, <1>2 DEF OnlyIdlersMove

(* Where the append positions and the head are. *)
Positions == Inside /\ OnTape /\ BufferHere /\ Positioned

(* A step of the thread that has the drive concerns no other thread. *)
LEMMA PlacesByWorker ==
    ASSUME Types, Discipline, NEW t \in RevalThreads, AtWork(t), OthersStay(t),
           \A p \in Partitions :
              (p \notin seen'.lost \/ Normal' \/ Rewound(t)' \/ AtMam(t)')
                 => vol'.append[p] <= Len(tape'.part[p]),
           (Rewound(t)' \/ AtMam(t)') => tape'.safe = tape'.part,
           BufferHere',
           Writing(t)' => /\ vol'.pos.part = Prt(t)' /\ vol'.append[vol'.pos.part] = vol'.pos.block
                          /\ th'[t].start <= vol'.pos.block
    PROVE  Positions'
<1>1. \A u \in RevalThreads \ {t} : ~Rewound(u)' /\ ~AtMam(u)' /\ ~Writing(u)'
  BY OthersIdle DEF Rests
<1>2. Inside'
  BY <1>1 DEF Inside
<1>3. OnTape'
  BY <1>1 DEF OnTape
<1>4. Positioned'
  BY <1>1 DEF Positioned
<1> QED
  BY <1>2, <1>3, <1>4 DEF Positions

(* Every step keeps the append positions on the tape and the writers positioned. *)
LEMMA PlaceStep ==
    ASSUME Types, Types', Discipline, Scripts, Positions, RevalNext
    PROVE  Positions'
<1>1. ASSUME NEW t \in RevalThreads,
             \/ \E op \in RevalOps : Call(t, op)
             \/ GetVolumeLockWait(t) \/ GetVolumeLockAcquire(t) \/ GetVolumeLockRecheck(t)
             \/ SyncPeek(t) \/ DeviceFenced(t) \/ WaitRevalidation(t)
      PROVE  Positions'
  <2>1. SameTape /\ SameFlags /\ OnlyIdlersMove
    BY <1>1, IdlerEffect
  <2>2. Normal' <=> Normal
    BY <2>1, IdlersOnly DEF Normal, SameFlags
  <2>3. Inside' /\ OnTape' /\ BufferHere'
    BY <2>1, <2>2, IdlersOnly DEF Positions, Inside, OnTape, BufferHere, SameTape
  <2>4. Positioned'
    BY <2>1, IdlersOnly, SameThread DEF Positions, Positioned, SameTape
  <2> QED
    BY <2>3, <2>4 DEF Positions
<1>2. ASSUME NEW t \in RevalThreads, DeviceLock(t) PROVE Positions'
  <2>1. /\ SameTape /\ SameFlags /\ OthersStay(t) /\ th'[t].pc = "send" /\ ~Writing(t)' /\ ~AtMam(t)'
        /\ \A u \in RevalThreads : ~AtWork(u)
    BY <1>2, DeviceLockEffect
  <2>2. \A u \in RevalThreads : ~Rewound(u)' /\ ~AtMam(u)' /\ ~Writing(u)'
    <3>1. ~Rewound(t)'
      BY <2>1 DEF Rewound, Passed
    <3>2. \A u \in RevalThreads \ {t} : ~Rewound(u)' /\ ~AtMam(u)' /\ ~Writing(u)'
      BY <2>1 DEF OthersStay, AtWork, Rewound, Passed, AtMam, Writing, Sending, Revalidating
    <3> QED
      BY <2>1, <3>1, <3>2
  <2>3. Normal' => Normal
    BY <2>1 DEF Normal, SameFlags, AtWork
  <2> QED
    BY <2>1, <2>2, <2>3 DEF Positions, Inside, OnTape, BufferHere, Positioned, SameTape
<1>3. ASSUME NEW t \in RevalThreads, ClearIndexEnd(t) PROVE Positions'
  <2>1. /\ SameTape /\ SameFlags /\ OthersStay(t) /\ Sending(t) /\ Cmd(t) = "down"
        /\ th[t].pc = "send" /\ th'[t].pc = "send" /\ AtWork(t)
        /\ th'[t].todo = Tail(th[t].todo)
    BY <1>3, ClearIndexEndEffect DEF AtWork
  <2>2. ~Rewound(t)' /\ ~AtMam(t)' /\ ~Writing(t)'
    BY <2>1, NextCommand DEF Rewound, Passed
  <2>3. Normal' => Normal
    BY <2>1 DEF Normal, SameFlags, OthersStay, Revalidating
  <2> QED
    BY <2>1, <2>2, <2>3, PlacesByWorker DEF Positions, Inside, BufferHere, SameTape
<1>4. ASSUME NEW t \in RevalThreads, TapeSeek(t) PROVE Positions'
  <2> DEFINE p == Prt(t)
             b == SeekTarget(p)
  <2>1. /\ OthersStay(t) /\ Sending(t) /\ Cmd(t) = "seek" /\ th[t].pc = "send" /\ th'[t].pc = "send"
        /\ AtWork(t) /\ th'[t].todo = Tail(th[t].todo) /\ th'[t].start = b
        /\ p \in Partitions /\ b \in Nat /\ SameFlags /\ seen' = seen
        /\ vol'.append = [vol.append EXCEPT ![p] = b]
        /\ vol'.pos = At(p, b) /\ tape'.part = tape.part
        /\ \/ tape'.safe = tape.part
           \/ tape' = tape /\ vol'.pos = vol.pos
    BY <1>4, TapeSeekEffect DEF AtWork
  <2>2. ~Rewound(t)' /\ ~AtMam(t)' /\ (Writing(t)' => Prt(t)' = p)
    BY <2>1, NextCommand DEF Rewound, Passed
  <2>3. Normal' => Normal
    BY <2>1 DEF Normal, SameFlags, OthersStay, Revalidating
  <2>4. vol.append[p] <= Len(tape.part[p]) => b <= Len(tape.part[p])
    BY <2>1, SeekTargetTyped DEF SeekTarget
  <2> HIDE DEF b, p
  <2>5. \A q \in Partitions : (q \notin seen'.lost \/ Normal') => vol'.append[q] <= Len(tape'.part[q])
    BY <2>1, <2>3, <2>4 DEF Positions, Inside, Types, MediumTyped, Volumes
  <2>6. BufferHere'
    BY <2>1 DEF Positions, BufferHere
  <2>7. Writing(t)' => /\ vol'.pos.part = Prt(t)' /\ vol'.append[vol'.pos.part] = vol'.pos.block
                       /\ th'[t].start <= vol'.pos.block
    BY <2>1, <2>2 DEF At, Types, MediumTyped, Volumes
  <2> QED
    BY <2>1, <2>2, <2>5, <2>6, <2>7, PlacesByWorker
<1>5. ASSUME NEW t \in RevalThreads, TapeWrite(t) PROVE Positions'
  <2> DEFINE p == vol.pos.part
             b == vol.pos.block
  <2>1. Normal /\ b <= Len(tape.part[p])
    BY <1>5, WritePlace DEF Positions
  <2>2. /\ OthersStay(t) /\ th[t].pc = "send" /\ th'[t].pc = "send" /\ AtWork(t)
        /\ th'[t].todo = Tail(th[t].todo) /\ th'[t].start = th[t].start /\ Writing(t)
        /\ p \in Partitions /\ b \in Nat
        /\ vol'.pos = At(p, b + 1)
        /\ \A q \in Partitions \ {p} :
              /\ vol'.append[q] = vol.append[q]
              /\ tape'.part[q] = tape.part[q] /\ tape'.safe[q] = tape.safe[q]
        /\ vol'.append[p] = IF Cmd(t) = "endfm" /\ p = "ip" THEN th[t].start ELSE b + 1
        /\ Len(tape'.part[p]) = b + 1
        /\ tape'.safe[p] = IF Cmd(t) = "endfm" THEN tape'.part[p] ELSE tape.safe[p]
    BY <1>5, <2>1, TapeWriteEffect DEF AtWork, SameCall
  <2>3. Sending(t) /\ ~Rewound(t)'
    BY <2>2 DEF Writing, Rewound, Passed
  <2>4. p = Prt(t) /\ th[t].start <= b
    BY <2>2 DEF Positions, Positioned
  <2>5. th[t].start \in Nat
    BY DEF Types, ThreadsTyped, ThreadStates
  <2>6. /\ Writing(t)' => Cmd(t) # "endfm" /\ Prt(t)' = p
        /\ AtMam(t)' => Cmd(t) = "endfm"
    BY <2>2, <2>3, <2>4, NextCommand
  <2>7. vol'.pos.part = p /\ vol'.pos.block = b + 1
    BY <2>2 DEF At
  <2>8. \A q \in Partitions \ {p} : tape.safe[q] = tape.part[q] /\ vol.append[q] <= Len(tape.part[q])
    BY <2>1, <2>2 DEF Positions, BufferHere, Inside
  <2> HIDE DEF p, b
  <2>9. \A q \in Partitions : vol'.append[q] <= Len(tape'.part[q])
    BY <2>2, <2>4, <2>5, <2>8
  <2>10. AtMam(t)' => tape'.safe = tape'.part
    <3>1. \A q \in Partitions : AtMam(t)' => tape'.safe[q] = tape'.part[q]
      BY <2>2, <2>6, <2>8
    <3> QED
      BY <3>1 DEF Types, MediumTyped, Tapes
  <2>11. BufferHere'
    BY <2>2, <2>7, <2>8 DEF BufferHere
  <2>12. Writing(t)' => /\ vol'.pos.part = Prt(t)' /\ vol'.append[vol'.pos.part] = vol'.pos.block
                        /\ th'[t].start <= vol'.pos.block
    BY <2>2, <2>4, <2>5, <2>6, <2>7
  <2> QED
    BY <2>2, <2>3, <2>9, <2>10, <2>11, <2>12, PlacesByWorker
<1>6. ASSUME NEW t \in RevalThreads, TapeQuery(t) PROVE Positions'
  <2>1. /\ OthersStay(t) /\ Sending(t) /\ th[t].pc = "send" /\ th'[t].pc = "send" /\ AtWork(t)
        /\ th'[t].todo = Tail(th[t].todo) /\ th'[t].start = th[t].start
        /\ Cmd(t) \in {"query", "flush", "read", "mamset"} /\ SameFlags /\ seen' = seen
        /\ vol'.append = vol.append /\ tape'.part = tape.part
        /\ \/ /\ Cmd(t) # "read" /\ vol'.pos = vol.pos
              /\ tape'.safe \in {tape.safe, tape.part}
           \/ Cmd(t) = "read" /\ tape'.safe = tape.part
    BY <1>6, TapeQueryEffect DEF AtWork, SameCall
  <2>2. ~Rewound(t)' /\ ~AtMam(t)' /\ (Writing(t)' => Cmd(t) = "flush" /\ Prt(t)' = Prt(t))
    BY <2>1, NextCommand DEF Rewound, Passed
  <2>3. Normal' => Normal
    BY <2>1 DEF Normal, SameFlags, OthersStay, Revalidating
  <2>4. BufferHere'
    BY <2>1 DEF Positions, BufferHere
  <2>5. Cmd(t) = "flush" => Writing(t)
    BY <2>1 DEF Writing, Writes
  <2>6. Writing(t)' => /\ vol'.pos.part = Prt(t)' /\ vol'.append[vol'.pos.part] = vol'.pos.block
                       /\ th'[t].start <= vol'.pos.block
    BY <2>1, <2>2, <2>5 DEF Positions, Positioned
  <2> QED
    BY <2>1, <2>2, <2>3, <2>4, <2>6, PlacesByWorker DEF Positions, Inside
<1>7. ASSUME NEW t \in RevalThreads, MamUpdateFails(t) PROVE Positions'
  <2>1. /\ OthersStay(t) /\ Sending(t) /\ AtMam(t) /\ th[t].pc = "send" /\ th'[t].pc = "send" /\ AtWork(t)
        /\ th'[t].todo = Tail(th[t].todo) /\ vol' = vol /\ tape' = tape
    BY <1>7, MamUpdateFailsEffect DEF AtWork
  <2>2. ~Rewound(t)' /\ ~AtMam(t)' /\ ~Writing(t)'
    BY <2>1, NextCommand DEF Rewound, Passed, AtMam
  <2> QED
    BY <2>1, <2>2, PlacesByWorker DEF Positions, Inside, BufferHere
<1>8. ASSUME NEW t \in RevalThreads, NeedReval(t) PROVE Positions'
  <2>1. /\ OthersStay(t) /\ AtWork(t) /\ th'[t].pc = "rv_mark" /\ SameTape
    BY <1>8, NeedRevalEffect DEF AtWork
  <2>2. ~Rewound(t)' /\ ~AtMam(t)' /\ ~Writing(t)' /\ ~Normal'
    BY <2>1 DEF Rewound, Passed, AtMam, Writing, Sending, Normal, Revalidating
  <2> QED
    BY <2>1, <2>2, PlacesByWorker DEF Positions, Inside, BufferHere, SameTape
<1>9. ASSUME NEW t \in RevalThreads, UnexpectedMove(t) PROVE Positions'
  <2>1. /\ OthersStay(t) /\ AtWork(t) /\ th'[t].pc = "idle" /\ SameTape /\ reval' = "failed"
    BY <1>9, UnexpectedMoveEffect, IdleFields DEF AtWork
  <2>2. ~Rewound(t)' /\ ~AtMam(t)' /\ ~Writing(t)' /\ ~Normal'
    BY <2>1 DEF Rewound, Passed, AtMam, Writing, Sending, Normal
  <2> QED
    BY <2>1, <2>2, PlacesByWorker DEF Positions, Inside, BufferHere, SameTape
<1>10. ASSUME NEW t \in RevalThreads, Finish(t) PROVE Positions'
  <2>1. /\ OthersStay(t) /\ AtWork(t) /\ th[t].pc = "send" /\ th'[t].pc = "idle" /\ SameFlags
        /\ vol'.append = vol.append /\ vol'.pos = vol.pos /\ tape' = tape /\ seen'.lost = seen.lost
    BY <1>10, FinishEffect, IdleFields DEF AtWork
  <2>2. ~Rewound(t)' /\ ~AtMam(t)' /\ ~Writing(t)'
    BY <2>1 DEF Rewound, Passed, AtMam, Writing, Sending
  <2>3. Normal' => Normal
    BY <2>1 DEF Normal, SameFlags, OthersStay, Revalidating
  <2> QED
    BY <2>1, <2>2, <2>3, PlacesByWorker DEF Positions, Inside, BufferHere
<1>11. ASSUME NEW t \in RevalThreads, UnmountEnds(t) PROVE Positions'
  <2>1. /\ OthersStay(t) /\ AtWork(t) /\ th'[t].pc = "idle" /\ SameTape /\ ~vol'.mounted
    BY <1>11, UnmountEndsEffect, IdleFields DEF AtWork
  <2>2. ~Rewound(t)' /\ ~AtMam(t)' /\ ~Writing(t)' /\ ~Normal'
    BY <2>1 DEF Rewound, Passed, AtMam, Writing, Sending, Normal
  <2> QED
    BY <2>1, <2>2, PlacesByWorker DEF Positions, Inside, BufferHere, SameTape
<1>12. ASSUME NEW t \in RevalThreads, RevalMark(t) \/ RevalUnlock(t) \/ RevalLock(t)
       PROVE  Positions'
  <2>1. /\ OthersStay(t) /\ AtWork(t) /\ SameTape
        /\ th'[t].pc \in {"rv_unlock", "rv_lock", "rv_start"}
    BY <1>12, RevalMarkEffect DEF AtWork, Revalidating
  <2>2. ~Rewound(t)' /\ ~AtMam(t)' /\ ~Writing(t)' /\ ~Normal'
    BY <2>1 DEF Rewound, Passed, AtMam, Writing, Sending, Normal, Revalidating
  <2> QED
    BY <2>1, <2>2, PlacesByWorker DEF Positions, Inside, BufferHere, SameTape
<1>13. ASSUME NEW t \in RevalThreads, RevalStart(t) PROVE Positions'
  <2>1. /\ OthersStay(t) /\ AtWork(t) /\ SameTape /\ th'[t].pc = "rv_check"
        /\ Len(th'[t].todo) = 8 /\ ~(8 <= 5)
    BY <1>13, RevalStartEffect DEF AtWork, Revalidating
  <2>2. ~Rewound(t)' /\ ~AtMam(t)' /\ ~Writing(t)' /\ ~Normal'
    BY <2>1 DEF Rewound, Passed, AtMam, Writing, Sending, Normal, Revalidating
  <2> QED
    BY <2>1, <2>2, PlacesByWorker DEF Positions, Inside, BufferHere, SameTape
<1>14. ASSUME NEW t \in RevalThreads, RevalRepeats(t) PROVE Positions'
  <2>1. th' = th /\ th[t].pc = "rv_check" /\ SameTape
    BY <1>14, RevalRepeatsEffect
  <2>2. ~Normal'
    BY <2>1 DEF Normal, Revalidating
  <2>3. \A u \in RevalThreads : th'[u] = th[u]
    BY <2>1
  <2> QED
    BY <2>1, <2>2, <2>3, SameThread DEF Positions, Inside, OnTape, BufferHere, Positioned, SameTape
<1>15. ASSUME NEW t \in RevalThreads, RevalCheck(t) PROVE Positions'
  <2> DEFINE n == Len(th[t].todo)
  <2>1. /\ OthersStay(t) /\ th[t].pc = "rv_check" /\ th'[t].pc = "rv_check" /\ AtWork(t)
        /\ n \in 1..8 /\ Len(th'[t].todo) = n - 1
        /\ seen' = seen /\ tape'.part = tape.part
        /\ n > 6 => vol'.append = vol.append /\ vol'.pos = vol.pos /\ tape' = tape
        /\ n = 6 => \A p \in Partitions : vol'.append[p] = 0
        /\ n \in 3..5 => vol'.append = vol.append
        /\ n \in 3..4 => vol'.pos = vol.pos /\ tape' = tape
        /\ n \in {1, 2, 5, 6} => tape'.safe = tape.part
        /\ n = 2 => /\ vol'.append = [vol.append EXCEPT !["dp"] = th[t].saved["dp"]]
                    /\ DpValid(th[t].saved["dp"])
        /\ n = 1 => /\ vol'.append = [vol.append EXCEPT !["ip"] = th[t].saved["ip"]]
                    /\ IpValid(th[t].saved["ip"])
    BY <1>15, RevalCheckEffect DEF AtWork, Revalidating
  <2>2. ~AtMam(t)' /\ ~Writing(t)' /\ ~Normal'
    BY <2>1 DEF AtMam, Writing, Sending, Normal, Revalidating
  <2>3. th[t].saved["dp"] \in Nat /\ th[t].saved["ip"] \in Nat
    BY DEF Types, ThreadsTyped, ThreadStates, Partitions
  <2>4. /\ n = 2 => th[t].saved["dp"] <= Len(tape.part["dp"])
        /\ n = 1 => th[t].saved["ip"] <= Len(tape.part["ip"])
    <3>1. Len(tape.part["dp"]) \in Nat
      BY SeekTargetTyped DEF Partitions
    <3> QED
      BY <2>1, <2>3, <3>1, IpValidInside DEF DpValid
  <2>5. n <= 5 => Rewound(t)
    BY <2>1 DEF Rewound
  <2>6. Rewound(t)' => n <= 6
    <3>1. th'[t].pc = "rv_check" /\ Len(th'[t].todo) = n - 1 /\ n \in 1..8
      BY <2>1
    <3>2. Rewound(t)' => n - 1 <= 5
      BY <3>1 DEF Rewound, Passed
    <3> HIDE DEF n
    <3> QED
      BY <3>1, <3>2
  <2>7. \A p \in Partitions : n <= 5 => vol.append[p] <= Len(tape.part[p]) /\ tape.safe = tape.part
    BY <2>5 DEF Positions, Inside, OnTape
  <2>8. /\ vol.append \in [Partitions -> Nat] /\ "dp" \in Partitions /\ "ip" \in Partitions
        /\ \A p \in Partitions : Len(tape.part[p]) \in Nat
    BY SeekTargetTyped DEF Types, MediumTyped, Volumes, Partitions
  <2> HIDE DEF n
  <2>9. \A p \in Partitions : n <= 6 => vol'.append[p] <= Len(tape'.part[p])
    <3> SUFFICES ASSUME NEW p \in Partitions, n <= 6
                 PROVE  vol'.append[p] <= Len(tape'.part[p])
      OBVIOUS
    <3>0. n = 1 \/ n = 2 \/ n \in 3..5 \/ n = 6
      BY <2>1
    <3>1. CASE n = 1
      BY <2>1, <2>4, <2>7, <2>8, <3>1
    <3>2. CASE n = 2
      BY <2>1, <2>4, <2>7, <2>8, <3>2
    <3>3. CASE n \in 3..5
      BY <2>1, <2>7, <3>3
    <3>4. CASE n = 6
      BY <2>1, <2>8, <3>4
    <3> QED
      BY <3>0, <3>1, <3>2, <3>3, <3>4
  <2>10. \A p \in Partitions : p \notin seen'.lost => vol'.append[p] <= Len(tape'.part[p])
    BY <2>1, <2>9 DEF Positions, Inside
  <2>11. n <= 6 => tape'.safe = tape'.part
    BY <2>1, <2>7, <2>8
  <2>12. BufferHere'
    BY <2>1, <2>11 DEF Positions, BufferHere
  <2> QED
    BY <2>1, <2>2, <2>6, <2>9, <2>10, <2>11, <2>12, PlacesByWorker
<1>16. ASSUME NEW t \in RevalThreads, RevalFails(t) PROVE Positions'
  <2>1. /\ OthersStay(t) /\ AtWork(t) /\ th'[t].pc = "rv_unfence" /\ SameTape
    BY <1>16, RevalFailsEffect DEF AtWork, Revalidating
  <2>2. ~Rewound(t)' /\ ~AtMam(t)' /\ ~Writing(t)' /\ ~Normal'
    BY <2>1 DEF Rewound, Passed, AtMam, Writing, Sending, Normal, Revalidating
  <2> QED
    BY <2>1, <2>2, PlacesByWorker DEF Positions, Inside, BufferHere, SameTape
<1>17. ASSUME NEW t \in RevalThreads, RevalUnfence(t) \/ RevalRecord(t) PROVE Positions'
  <2>1. /\ OthersStay(t) /\ AtWork(t) /\ SameTape /\ th'[t].pc \in {"rv_record", "rv_return"}
        /\ th'[t].todo = <<>> => Rewound(t)
    BY <1>17, RevalUnfenceEffect, RevalRecordEffect DEF AtWork, Revalidating, Rewound, Passed
  <2>2. ~AtMam(t)' /\ ~Writing(t)' /\ ~Normal' /\ (Rewound(t)' => Rewound(t))
    BY <2>1 DEF Rewound, Passed, AtMam, Writing, Sending, Normal, Revalidating
  <2> QED
    BY <2>1, <2>2, PlacesByWorker DEF Positions, Inside, OnTape, BufferHere, SameTape
<1>18. ASSUME NEW t \in RevalThreads, RevalReturn(t) PROVE Positions'
  <2>1. /\ OthersStay(t) /\ AtWork(t) /\ SameTape /\ ~AtWork(t)' /\ th[t].pc = "rv_return"
        /\ th[t].todo # <<>> => ~vol'.mounted \/ reval' = "failed"
    BY <1>18, RevalReturnEffect DEF AtWork, Revalidating
  <2>2. ~AtMam(t)' /\ ~Writing(t)' /\ ~Rewound(t)' /\ (Normal' => Rewound(t))
    BY <2>1 DEF Rewound, Passed, AtMam, Writing, Sending, Normal, Revalidating, AtWork
  <2> QED
    BY <2>1, <2>2, PlacesByWorker DEF Positions, Inside, OnTape, BufferHere, SameTape
<1>19. CASE Reset
  <2>1. /\ th' = th /\ vol' = vol /\ ~Normal' /\ tape'.safe = tape'.part /\ seen.lost \subseteq seen'.lost
        /\ \A p \in Partitions :
              /\ p \notin seen'.lost => tape'.part[p] = tape.part[p]
              /\ tape.safe[p] = tape.part[p] => tape'.part[p] = tape.part[p]
    BY <1>19, ResetEffect DEF Normal
  <2>2. \A u \in RevalThreads : th'[u] = th[u]
    BY <2>1
  <2>3. Inside'
    BY <2>1, <2>2, SameThread DEF Positions, Inside, OnTape
  <2>4. OnTape' /\ BufferHere' /\ Positioned'
    BY <2>1, <2>2, SameThread DEF Positions, OnTape, BufferHere, Positioned
  <2> QED
    BY <2>3, <2>4 DEF Positions
<1>20. CASE Swap
  <2>1. /\ th' = th /\ vol' = vol /\ ~Normal' /\ tape'.safe = tape'.part /\ seen' = seen
        /\ tape'.part = tape.part
    BY <1>20, SwapEffect DEF Normal
  <2>2. \A u \in RevalThreads : th'[u] = th[u]
    BY <2>1
  <2> QED
    BY <2>1, <2>2, SameThread DEF Positions, Inside, OnTape, BufferHere, Positioned
<1>21. CASE RemovalRequest
  <2>1. /\ th' = th /\ vol' = vol /\ tape' = tape /\ seen' = seen /\ reval' = reval
        /\ attention # "changed"
    BY <1>21, RemovalEffect
  <2>2. \A u \in RevalThreads : th'[u] = th[u]
    BY <2>1
  <2>3. Normal' => Normal
    BY <2>1, <2>2, SameThread DEF Normal
  <2> QED
    BY <2>1, <2>2, <2>3, SameThread DEF Positions, Inside, OnTape, BufferHere, Positioned
<1> QED
  BY <1>1, <1>2, <1>3, <1>4, <1>5, <1>6, <1>7, <1>8, <1>9, <1>10, <1>11, <1>12, <1>13, <1>14,
     <1>15, <1>16, <1>17, <1>18, <1>19, <1>20, <1>21 DEF RevalNext, ThreadStep

(* The extents acknowledged, and those of a write under way. *)
Extents == AckedThere /\ AckedKept /\ Written
\* A write that has sent its last seek.
LateWrite(u) == th[u].pc = "send" /\ WritesData(th[u].op) /\ Len(th[u].todo) < 3

(* Steps that leave the tape and the append positions alone. *)
LEMMA ExtentsQuiet ==
    ASSUME Types, Types', Extents,
           vol'.append = vol.append, vol'.pos = vol.pos, seen'.acked = seen.acked,
           seen.lost \subseteq seen'.lost,
           seen'.lost = {} => \A p \in Partitions : tape'.part[p] = tape.part[p],
           \A u \in RevalThreads :
              th'[u] = th[u] \/ (~Writing(u)' /\ th'[u].pc # "rv_check" /\ ~LateWrite(u)')
    PROVE  Extents'
<1> SUFFICES ASSUME seen'.lost = {} PROVE Extents'
  BY DEF Extents, AckedThere, AckedKept, Written
<1>1. seen.lost = {} /\ tape'.part = tape.part
  BY DEF Types, MediumTyped, Tapes
<1>3. AckedThere'
  BY <1>1 DEF Extents, AckedThere, EndPos
<1>4. AckedKept'
  BY <1>1, SameThread DEF Extents, AckedKept, EndPos
<1>5. Written'
  BY <1>1 DEF Extents, Written, LateWrite
<1> QED
  BY <1>3, <1>4, <1>5 DEF Extents

(* A step of the thread that has the drive. *)
LEMMA ExtentsByWorker ==
    ASSUME Discipline, NEW t \in RevalThreads, AtWork(t), OthersStay(t),
           seen'.lost = {} => AckedThere',
           seen'.lost = {} => \A e \in seen'.acked :
              /\ th'[t].pc = "rv_check" =>
                    e.at.block + 2 <= EndPos(th[t].saved[e.at.part], e.at.part)'
              /\ (Writing(t)' /\ vol'.pos.part = e.at.part) => e.at.block + 2 <= th'[t].start,
           (seen'.lost = {} /\ LateWrite(t)') =>
              LET n == Len(th'[t].todo)
                  p == PartOf(th'[t].op)
              IN  /\ vol'.pos = At(p, th'[t].start + 2 - n)
                  /\ vol'.append[p] = vol'.pos.block
                  /\ n < 2 => tape'.part[p][th'[t].start + 1] = Data(th'[t].call)
                  /\ n < 1 => tape'.part[p][th'[t].start + 2] = Data(th'[t].call)
    PROVE  Extents'
<1>1. \A u \in RevalThreads \ {t} : ~Writing(u)' /\ th'[u].pc # "rv_check" /\ th'[u].pc # "send"
  BY OthersIdle DEF Rests
<1>2. AckedThere'
  BY DEF AckedThere
<1>3. AckedKept'
  BY <1>1 DEF AckedKept
<1>4. Written'
  BY <1>1 DEF Written, LateWrite
<1> QED
  BY <1>2, <1>3, <1>4 DEF Extents

(* A list that loses its first command is one shorter. *)
LEMMA TailLength ==
    ASSUME Types, NEW t \in RevalThreads, th[t].todo # <<>>
    PROVE  /\ Len(th[t].todo) \in Nat /\ Len(Tail(th[t].todo)) \in Nat
           /\ Len(Tail(th[t].todo)) = Len(th[t].todo) - 1
<1>1. th[t].todo \in Seq(CmdNames \X Partitions)
  BY DEF Types, ThreadsTyped, ThreadStates, CmdLists
<1> QED
  BY <1>1

(* Every step keeps the acknowledged extents: a write starts at the append position, *)
(* behind all of them, and a retried one starts over there.                          *)
LEMMA ExtentsStep ==
    ASSUME Types, Types', Discipline, Scripts, Positions, Extents, RevalNext
    PROVE  Extents'
<1>0. \A e \in seen.acked : e.at.part \in Partitions /\ e.at.block \in Nat
  BY DEF Types, MediumTyped, Histories, Places
<1>1. ASSUME NEW t \in RevalThreads,
             \/ \E op \in RevalOps : Call(t, op)
             \/ GetVolumeLockWait(t) \/ GetVolumeLockAcquire(t) \/ GetVolumeLockRecheck(t)
             \/ SyncPeek(t) \/ DeviceFenced(t) \/ WaitRevalidation(t)
      PROVE  Extents'
  <2>1. SameTape /\ OnlyIdlersMove
    BY <1>1, IdlerEffect
  <2>2. \A u \in RevalThreads :
           th'[u] = th[u] \/ (~Writing(u)' /\ th'[u].pc # "rv_check" /\ ~LateWrite(u)')
    BY <2>1, IdlersOnly DEF LateWrite
  <2> QED
    BY <2>1, <2>2, ExtentsQuiet DEF SameTape
<1>2. ASSUME NEW t \in RevalThreads, DeviceLock(t) PROVE Extents'
  <2>1. /\ SameTape /\ OthersStay(t) /\ th'[t].pc = "send" /\ ~Writing(t)' /\ th'[t].op = th[t].op
        /\ WritesData(th[t].op) => Len(th'[t].todo) > 3
    BY <1>2, DeviceLockEffect
  <2>2. ~LateWrite(t)'
    <3>1. Len(th'[t].todo) \in Nat
      BY DEF Types, ThreadsTyped, ThreadStates, CmdLists
    <3> QED
      BY <2>1, <3>1 DEF LateWrite
  <2>3. \A u \in RevalThreads :
           th'[u] = th[u] \/ (~Writing(u)' /\ th'[u].pc # "rv_check" /\ ~LateWrite(u)')
    BY <2>1, <2>2 DEF OthersStay
  <2> QED
    BY <2>1, <2>3, ExtentsQuiet DEF SameTape
<1>3. ASSUME NEW t \in RevalThreads, ClearIndexEnd(t) \/ MamUpdateFails(t) PROVE Extents'
  <2>1. /\ vol'.append = vol.append /\ vol'.pos = vol.pos /\ tape' = tape
        /\ seen'.acked = seen.acked /\ seen'.lost = seen.lost
        /\ OthersStay(t) /\ Sending(t) /\ Cmd(t) \in {"down", "mamset"}
        /\ th'[t].pc = "send" /\ th'[t].op = th[t].op /\ th'[t].todo = Tail(th[t].todo)
    BY <1>3, ClearIndexEndEffect, MamUpdateFailsEffect DEF SameTape, SameCall, AtMam
  <2>2. ~Writing(t)'
    BY <2>1, NextCommand
  <2>3. ~LateWrite(t)'
    <3> DEFINE n == Len(th[t].todo)
    <3>1. n \in Nat /\ Len(th'[t].todo) = n - 1 /\ (WritesData(th[t].op) => ~(n < 3) /\ n # 3)
      BY <2>1, ThisCommand, TailLength DEF Sending
    <3> HIDE DEF n
    <3>2. WritesData(th[t].op) => ~(Len(th'[t].todo) < 3)
      BY <3>1
    <3> QED
      BY <2>1, <3>2 DEF LateWrite, SameCall
  <2>4. \A u \in RevalThreads :
           th'[u] = th[u] \/ (~Writing(u)' /\ th'[u].pc # "rv_check" /\ ~LateWrite(u)')
    BY <2>1, <2>2, <2>3 DEF OthersStay
  <2> QED
    BY <2>1, <2>4, ExtentsQuiet
<1>4. ASSUME NEW t \in RevalThreads, TapeSeek(t) PROVE Extents'
  <2> DEFINE p == Prt(t)
             b == SeekTarget(p)
             n == Len(th[t].todo)
  <2>1. /\ OthersStay(t) /\ Sending(t) /\ Cmd(t) = "seek" /\ th'[t].pc = "send"
        /\ AtWork(t) /\ th'[t].todo = Tail(th[t].todo) /\ th'[t].start = b /\ th'[t].op = th[t].op
        /\ p \in Partitions /\ b \in Nat /\ seen' = seen
        /\ vol'.append = [vol.append EXCEPT ![p] = b]
        /\ vol'.pos = At(p, b) /\ tape'.part = tape.part
    BY <1>4, TapeSeekEffect DEF AtWork
  <2>2. b = EndPos(vol.append[p], p) /\ Len(tape.part[p]) \in Nat
    BY <2>1, SeekTargetTyped DEF SeekTarget, EndPos
  <2>3. \A q \in Partitions : EndPos(vol.append[q], q)' = EndPos(vol.append[q], q)
    BY <2>1, <2>2 DEF EndPos, Types, MediumTyped, Volumes
  <2>4. seen'.lost = {} => AckedThere'
    BY <1>0, <2>1, <2>3 DEF Extents, AckedThere
  <2>5. ASSUME seen'.lost = {}, NEW e \in seen'.acked
        PROVE  (Writing(t)' /\ vol'.pos.part = e.at.part) => e.at.block + 2 <= th'[t].start
    BY <2>1, <2>2, <2>5 DEF Extents, AckedThere, At
  <2>6. LateWrite(t)' => Len(th'[t].todo) = 2 /\ PartOf(th'[t].op) = p
    <3>1. /\ n \in Nat /\ n > 0 /\ Len(th'[t].todo) = n - 1
      BY <2>1, ThisCommand, TailLength DEF Sending
    <3>2. WritesData(th[t].op) => ~(n < 3) /\ (n = 3 => PartOf(th[t].op) = p)
      BY <2>1, ThisCommand
    <3>3. LateWrite(t)' => WritesData(th[t].op) /\ Len(th'[t].todo) < 3 /\ th'[t].op = th[t].op
      BY <2>1 DEF LateWrite
    <3> HIDE DEF n, p
    <3> QED
      BY <3>1, <3>2, <3>3
  <2>7. vol'.pos = At(p, th'[t].start + 2 - 2) /\ vol'.append[p] = vol'.pos.block
    BY <2>1 DEF At, Types, MediumTyped, Volumes
  <2> HIDE DEF p, b, n
  <2>8. ASSUME LateWrite(t)'
        PROVE  LET m == Len(th'[t].todo)
                   q == PartOf(th'[t].op)
               IN  /\ vol'.pos = At(q, th'[t].start + 2 - m)
                   /\ vol'.append[q] = vol'.pos.block
                   /\ m < 2 => tape'.part[q][th'[t].start + 1] = Data(th'[t].call)
                   /\ m < 1 => tape'.part[q][th'[t].start + 2] = Data(th'[t].call)
    <3> DEFINE m == Len(th'[t].todo)
               q == PartOf(th'[t].op)
    <3>1. m = 2 /\ q = p
      BY <2>6, <2>8
    <3> HIDE DEF m, q
    <3>2. ~(m < 2) /\ ~(m < 1) /\ vol'.pos = At(q, th'[t].start + 2 - m) /\ vol'.append[q] = vol'.pos.block
      BY <2>7, <3>1
    <3> QED
      BY <3>2 DEF m, q
  <2> QED
    BY <2>1, <2>4, <2>5, <2>8, ExtentsByWorker
<1>5. ASSUME NEW t \in RevalThreads, TapeWrite(t) PROVE Extents'
  <2> DEFINE p == vol.pos.part
             b == vol.pos.block
             st == th[t].start
  <2>1. Normal /\ b <= Len(tape.part[p])
    BY <1>5, WritePlace DEF Positions
  <2>2. /\ OthersStay(t) /\ th'[t].pc = "send" /\ AtWork(t) /\ SameCall(t)
        /\ th'[t].todo = Tail(th[t].todo) /\ Writing(t) /\ Cmd(t) # "flush"
        /\ seen'.lost = seen.lost /\ seen'.acked = seen.acked
        /\ p \in Partitions /\ b \in Nat
        /\ vol'.pos = At(p, b + 1)
        /\ \A q \in Partitions \ {p} :
              vol'.append[q] = vol.append[q] /\ tape'.part[q] = tape.part[q]
        /\ vol'.append[p] = IF Cmd(t) = "endfm" /\ p = "ip" THEN th[t].start ELSE b + 1
        /\ Len(tape'.part[p]) = b + 1
        /\ \A i \in 1..b : tape'.part[p][i] = tape.part[p][i]
        /\ Cmd(t) = "data" => tape'.part[p][b + 1] = Data(th[t].call)
    BY <1>5, <2>1, TapeWriteEffect DEF AtWork
  <2>3. Sending(t) /\ p = Prt(t) /\ st <= b /\ st \in Nat
    BY <2>2 DEF Writing, Positions, Positioned, Types, ThreadsTyped, ThreadStates
  <2>4. vol'.pos.part = p /\ vol'.pos.block = b + 1
    BY <2>2 DEF At
  <2>5. ASSUME seen'.lost = {}, NEW e \in seen'.acked, e.at.part = p
        PROVE  e.at.block + 2 <= st /\ e.at.block \in Nat
    BY <1>0, <2>2, <2>5 DEF Extents, AckedKept
  <2> HIDE DEF p, b, st
  <2>6. seen'.lost = {} => AckedThere'
    <3> SUFFICES ASSUME seen'.lost = {}, NEW e \in seen'.acked
                 PROVE  /\ e.at.block + 2 <= EndPos(vol.append[e.at.part], e.at.part)'
                        /\ tape'.part[e.at.part][e.at.block + 1] = Data(e.call)
                        /\ tape'.part[e.at.part][e.at.block + 2] = Data(e.call)
      BY DEF AckedThere
    <3>1. /\ e.at.part \in Partitions /\ e.at.block \in Nat
          /\ e.at.block + 2 <= EndPos(vol.append[e.at.part], e.at.part)
          /\ tape.part[e.at.part][e.at.block + 1] = Data(e.call)
          /\ tape.part[e.at.part][e.at.block + 2] = Data(e.call)
      BY <1>0, <2>2 DEF Extents, AckedThere
    <3>2. CASE e.at.part # p
      BY <2>2, <3>1, <3>2 DEF EndPos
    <3>3. CASE e.at.part = p
      <4>1. e.at.block + 2 <= st
        BY <2>5, <3>3
      <4>2. e.at.block + 1 \in 1..b /\ e.at.block + 2 \in 1..b
        BY <2>2, <2>3, <3>1, <4>1, SMTT(20)
      <4>3. e.at.block + 2 <= EndPos(vol.append[e.at.part], e.at.part)'
        BY <2>2, <2>3, <3>1, <3>3, <4>1, SMTT(20) DEF EndPos, st
      <4> QED
        BY <2>2, <3>1, <3>3, <4>2, <4>3
    <3> QED
      BY <3>2, <3>3
  <2>7. ASSUME seen'.lost = {}, NEW e \in seen'.acked
        PROVE  (Writing(t)' /\ vol'.pos.part = e.at.part) => e.at.block + 2 <= th'[t].start
    BY <2>2, <2>4, <2>5, <2>7 DEF SameCall, st
  <2>8. ASSUME seen'.lost = {}, LateWrite(t)'
        PROVE  LET m == Len(th'[t].todo)
                   q == PartOf(th'[t].op)
               IN  /\ vol'.pos = At(q, th'[t].start + 2 - m)
                   /\ vol'.append[q] = vol'.pos.block
                   /\ m < 2 => tape'.part[q][th'[t].start + 1] = Data(th'[t].call)
                   /\ m < 1 => tape'.part[q][th'[t].start + 2] = Data(th'[t].call)
    <3> DEFINE n == Len(th[t].todo)
               m == Len(th'[t].todo)
               q == PartOf(th[t].op)
    <3>1. /\ n \in Nat /\ n > 0 /\ m = n - 1 /\ WritesData(th[t].op) /\ m < 3
          /\ th'[t].op = th[t].op /\ th'[t].start = st /\ th'[t].call = th[t].call
      BY <2>2, <2>3, <2>8, ThisCommand, TailLength DEF Sending, SameCall, LateWrite, st
    <3>2. ~(n > 3) /\ ~(n = 3)
      BY <1>5, <2>3, <3>1, ThisCommand DEF TapeWrite
    <3>3. n < 3 /\ Cmd(t) = "data" /\ q = p
      <4>1. n < 3
        <5> HIDE DEF n
        <5> QED
          BY <3>1, <3>2
      <4> QED
        BY <2>3, <3>1, <4>1, ThisCommand
    <3>4. /\ vol.pos = At(q, st + 2 - n)
          /\ n < 2 => tape.part[q][st + 1] = Data(th[t].call)
      BY <2>2, <2>3, <2>8, <3>1, <3>3 DEF Extents, Written, Sending, st
    <3>5. b = st + 2 - n
      BY <3>4 DEF At, b
    <3> HIDE DEF n, m
    <3>6. /\ b + 1 = st + 2 - m
          /\ m < 2 => n < 2 \/ n = 2
          /\ n = 2 => b + 1 = st + 1
          /\ n = 1 => b + 1 = st + 2 /\ st + 1 \in 1..b
          /\ m < 1 => n = 1
          /\ m < 2 => n = 1 \/ n = 2
      BY <2>2, <2>3, <3>1, <3>3, <3>5
    <3>7. vol'.pos = At(q, st + 2 - m) /\ vol'.append[q] = vol'.pos.block
      BY <2>2, <2>4, <3>3, <3>6
    <3>8. m < 1 => tape'.part[q][st + 2] = Data(th[t].call)
      BY <2>2, <3>3, <3>6
    <3>9. m < 2 => tape'.part[q][st + 1] = Data(th[t].call)
      <4>1. CASE n = 2
        BY <2>2, <3>3, <3>6, <4>1
      <4>2. CASE n = 1
        BY <2>2, <3>3, <3>4, <3>6, <4>2
      <4> QED
        BY <3>6, <4>1, <4>2
    <3> QED
      BY <3>1, <3>7, <3>8, <3>9 DEF m
  <2> QED
    BY <2>2, <2>6, <2>7, <2>8, ExtentsByWorker
<1>6. ASSUME NEW t \in RevalThreads, TapeQuery(t) PROVE Extents'
  <2>1. /\ OthersStay(t) /\ Sending(t) /\ th'[t].pc = "send" /\ AtWork(t) /\ SameCall(t)
        /\ th'[t].todo = Tail(th[t].todo)
        /\ Cmd(t) \in {"query", "flush", "read", "mamset"} /\ seen' = seen
        /\ vol'.append = vol.append /\ tape'.part = tape.part
        /\ Cmd(t) # "read" => vol'.pos = vol.pos
    BY <1>6, TapeQueryEffect DEF AtWork
  <2>2. Writing(t)' => Writing(t) /\ vol'.pos = vol.pos
    BY <2>1, NextCommand DEF Writing, Writes
  <2>3. ~LateWrite(t)'
    <3> DEFINE n == Len(th[t].todo)
    <3>1. n \in Nat /\ Len(th'[t].todo) = n - 1 /\ (WritesData(th[t].op) => ~(n < 3) /\ n # 3)
      BY <2>1, ThisCommand, TailLength DEF Sending
    <3> HIDE DEF n
    <3>2. WritesData(th[t].op) => ~(Len(th'[t].todo) < 3)
      BY <3>1
    <3> QED
      BY <2>1, <3>2 DEF LateWrite, SameCall
  <2>4. seen'.lost = {} => AckedThere'
    BY <2>1 DEF Extents, AckedThere, EndPos
  <2>5. ASSUME seen'.lost = {}, NEW e \in seen'.acked
        PROVE  (Writing(t)' /\ vol'.pos.part = e.at.part) => e.at.block + 2 <= th'[t].start
    BY <2>1, <2>2, <2>5 DEF Extents, AckedKept, SameCall
  <2> QED
    BY <2>1, <2>3, <2>4, <2>5, ExtentsByWorker
<1>7. ASSUME NEW t \in RevalThreads,
             \/ NeedReval(t) \/ UnexpectedMove(t) \/ UnmountEnds(t)
             \/ RevalMark(t) \/ RevalUnlock(t) \/ RevalLock(t)
             \/ RevalFails(t) \/ RevalUnfence(t) \/ RevalRecord(t) \/ RevalReturn(t)
      PROVE  Extents'
  <2>1. OthersStay(t) /\ SameTape /\ th'[t].pc \notin {"send", "rv_check"}
    BY <1>7, NeedRevalEffect, UnexpectedMoveEffect, UnmountEndsEffect, RevalMarkEffect,
       RevalFailsEffect, RevalUnfenceEffect, RevalRecordEffect, RevalReturnEffect, IdleFields
       DEF AtWork, Revalidating
  <2>2. \A u \in RevalThreads :
           th'[u] = th[u] \/ (~Writing(u)' /\ th'[u].pc # "rv_check" /\ ~LateWrite(u)')
    BY <2>1 DEF OthersStay, Writing, Sending, LateWrite
  <2> QED
    BY <2>1, <2>2, ExtentsQuiet DEF SameTape
<1>8. ASSUME NEW t \in RevalThreads, Finish(t) PROVE Extents'
  <2>1. /\ OthersStay(t) /\ AtWork(t) /\ th[t].pc = "send" /\ th[t].todo = <<>> /\ th'[t].pc = "idle"
        /\ vol'.append = vol.append /\ vol'.pos = vol.pos /\ tape' = tape /\ seen'.lost = seen.lost
        /\ \A e \in seen'.acked : e \in seen.acked \/
              (WritesData(th[t].op)
               /\ e = [at |-> At(PartOf(th[t].op), th[t].start), call |-> th[t].call])
    BY <1>8, FinishEffect, IdleFields DEF AtWork
  <2>2. ~Writing(t)' /\ ~LateWrite(t)'
    BY <2>1 DEF Writing, Sending, LateWrite
  <2>3. ASSUME seen'.lost = {} PROVE AckedThere'
    <3> SUFFICES ASSUME NEW e \in seen'.acked
                 PROVE  /\ e.at.block + 2 <= EndPos(vol.append[e.at.part], e.at.part)'
                        /\ tape'.part[e.at.part][e.at.block + 1] = Data(e.call)
                        /\ tape'.part[e.at.part][e.at.block + 2] = Data(e.call)
      BY DEF AckedThere
    <3>1. CASE e \in seen.acked
      BY <2>1, <2>3, <3>1 DEF Extents, AckedThere, EndPos
    <3>2. CASE WritesData(th[t].op)
               /\ e = [at |-> At(PartOf(th[t].op), th[t].start), call |-> th[t].call]
      <4> DEFINE st == th[t].start
                 q == PartOf(th[t].op)
      <4>1. st \in Nat /\ Len(th[t].todo) = 0 /\ st + 2 - 0 = st + 2 /\ st + 2 # 0
        BY <2>1 DEF Types, ThreadsTyped, ThreadStates
      <4>2. /\ vol.pos = At(q, st + 2 - 0) /\ vol.append[q] = vol.pos.block
            /\ tape.part[q][st + 1] = Data(th[t].call) /\ tape.part[q][st + 2] = Data(th[t].call)
        BY <2>1, <2>3, <3>2, <4>1 DEF Extents, Written
      <4>3. vol.append[q] = st + 2
        BY <4>1, <4>2 DEF At
      <4>4. e.at.part = q /\ e.at.block = st /\ e.call = th[t].call
        BY <3>2 DEF At
      <4> HIDE DEF st, q
      <4> QED
        BY <2>1, <4>1, <4>2, <4>3, <4>4 DEF EndPos
    <3> QED
      BY <2>1, <3>1, <3>2
  <2> QED
    BY <2>1, <2>2, <2>3, ExtentsByWorker
<1>9. ASSUME NEW t \in RevalThreads, RevalStart(t) PROVE Extents'
  <2>1. /\ OthersStay(t) /\ SameTape /\ th[t].pc = "rv_start" /\ th'[t].pc = "rv_check"
        /\ th'[t].saved = vol.append /\ AtWork(t)
    BY <1>9, RevalStartEffect DEF AtWork, Revalidating
  <2>2. ~Writing(t)' /\ ~LateWrite(t)'
    BY <2>1 DEF Writing, Sending, LateWrite
  <2>3. seen'.lost = {} => AckedThere'
    BY <2>1 DEF Extents, AckedThere, EndPos, SameTape
  <2>4. ASSUME seen'.lost = {}, NEW e \in seen'.acked
        PROVE  e.at.block + 2 <= EndPos(th[t].saved[e.at.part], e.at.part)'
    BY <2>1, <2>4 DEF Extents, AckedThere, EndPos, SameTape
  <2> QED
    BY <2>1, <2>2, <2>3, <2>4, ExtentsByWorker
<1>10. ASSUME NEW t \in RevalThreads, RevalCheck(t) PROVE Extents'
  <2> DEFINE n == Len(th[t].todo)
  <2>1. /\ OthersStay(t) /\ SameCall(t) /\ th[t].pc = "rv_check" /\ th'[t].pc = "rv_check" /\ AtWork(t)
        /\ n \in 1..8 /\ seen' = seen /\ tape'.part = tape.part
        /\ n > 6 => vol'.append = vol.append
        /\ n = 6 => \A p \in Partitions : vol'.append[p] = 0
        /\ n \in 3..5 => vol'.append = vol.append
        /\ n = 2 => vol'.append = [vol.append EXCEPT !["dp"] = th[t].saved["dp"]]
        /\ n = 1 => vol'.append = [vol.append EXCEPT !["ip"] = th[t].saved["ip"]]
    BY <1>10, RevalCheckEffect DEF AtWork, Revalidating
  <2>2. ~Writing(t)' /\ ~LateWrite(t)'
    BY <2>1 DEF Writing, Sending, LateWrite
  <2> HIDE DEF n
  <2>3. ASSUME NEW p \in Partitions
        PROVE  vol'.append[p] \in {0, vol.append[p], th[t].saved[p]}
    <3>1. vol.append \in [Partitions -> Nat]
      BY DEF Types, MediumTyped, Volumes
    <3>2. n = 1 \/ n = 2 \/ n \in 3..5 \/ n = 6 \/ n > 6
      BY <2>1
    <3> QED
      BY <2>1, <3>1, <3>2
  <2>4. ASSUME seen'.lost = {}, NEW e \in seen'.acked
        PROVE  /\ e.at.block + 2 <= EndPos(vol.append[e.at.part], e.at.part)
               /\ e.at.block + 2 <= EndPos(th[t].saved[e.at.part], e.at.part)
               /\ tape.part[e.at.part][e.at.block + 1] = Data(e.call)
               /\ tape.part[e.at.part][e.at.block + 2] = Data(e.call)
               /\ e.at.part \in Partitions /\ e.at.block \in Nat
    BY <1>0, <2>1, <2>4 DEF Extents, AckedThere, AckedKept
  <2>5. ASSUME seen'.lost = {}, NEW e \in seen'.acked
        PROVE  e.at.block + 2 <= Len(tape.part[e.at.part])
    <3> DEFINE q == e.at.part
    <3>1. q \in Partitions /\ vol.append[q] \in Nat /\ Len(tape.part[q]) \in Nat
      BY <2>4, <2>5, SeekTargetTyped DEF Types, MediumTyped, Volumes
    <3>2. vol.append[q] <= Len(tape.part[q])
      BY <2>1, <2>5, <3>1 DEF Positions, Inside
    <3> QED
      BY <2>4, <2>5, <3>1, <3>2, SMTT(20) DEF EndPos
  <2>6. seen'.lost = {} => AckedThere'
    <3> SUFFICES ASSUME seen'.lost = {}, NEW e \in seen'.acked
                 PROVE  /\ e.at.block + 2 <= EndPos(vol.append[e.at.part], e.at.part)'
                        /\ tape'.part[e.at.part][e.at.block + 1] = Data(e.call)
                        /\ tape'.part[e.at.part][e.at.block + 2] = Data(e.call)
      BY DEF AckedThere
    <3>1. vol'.append[e.at.part] \in {0, vol.append[e.at.part], th[t].saved[e.at.part]}
      BY <2>3, <2>4
    <3> QED
      BY <2>1, <2>4, <2>5, <3>1 DEF EndPos
  <2>7. ASSUME seen'.lost = {}, NEW e \in seen'.acked
        PROVE  e.at.block + 2 <= EndPos(th[t].saved[e.at.part], e.at.part)'
    BY <2>1, <2>4, <2>7 DEF EndPos, SameCall
  <2> QED
    BY <2>1, <2>2, <2>6, <2>7, ExtentsByWorker
<1>11. ASSUME NEW t \in RevalThreads, RevalRepeats(t) PROVE Extents'
  <2>1. th' = th /\ SameTape
    BY <1>11, RevalRepeatsEffect
  <2> QED
    BY <2>1, ExtentsQuiet DEF SameTape
<1>12. CASE Reset
  BY <1>12, ResetEffect, ExtentsQuiet
<1>13. CASE Swap
  BY <1>13, SwapEffect, ExtentsQuiet
<1>14. CASE RemovalRequest
  BY <1>14, RemovalEffect, ExtentsQuiet
<1> QED
  BY <1>1, <1>2, <1>3, <1>4, <1>5, <1>6, <1>7, <1>8, <1>9, <1>10, <1>11, <1>12, <1>13, <1>14
     DEF RevalNext, ThreadStep

(* The end of the data partition. *)
LEMMA DpQuiet ==
    ASSUME Types, DpEnd, "dp" \in seen.lost => "dp" \in seen'.lost,
           "dp" \notin seen'.lost =>
              /\ vol'.append["dp"] = vol.append["dp"] /\ tape'.part["dp"] = tape.part["dp"]
              /\ tape'.safe["dp"] \in {tape.safe["dp"], tape.part["dp"]},
           \A u \in RevalThreads :
              /\ th'[u].pc = "rv_check" => th[u].pc = "rv_check" /\ th'[u].saved = th[u].saved
              /\ (Writing(u)' /\ Prt(u)' = "dp") => (Writing(u) /\ Prt(u) = "dp")
    PROVE  DpEnd'
<1> SUFFICES ASSUME "dp" \notin seen'.lost PROVE DpEnd'
  BY DEF DpEnd
<1>1. tape.part["dp"] \in Seq(Records) /\ tape.safe["dp"] \in Seq(Records)
  BY DEF Types, MediumTyped, Tapes, Partitions
<1>2. tape.part["dp"] = SubSeq(tape.part["dp"], 1, Len(tape.part["dp"]))
  BY <1>1, SubSeqFull
<1>3. Len(tape.part["dp"]) <= Len(tape.part["dp"])
  BY <1>1
<1> QED
  BY <1>2, <1>3 DEF DpEnd

(* Every step keeps the append position of the data partition at its end of data. *)
LEMMA DpEndStep ==
    ASSUME Types, Types', Discipline, Scripts, Positions, DpEnd, RevalNext
    PROVE  DpEnd'
<1>0. "dp" \in Partitions /\ "ip" \in Partitions
  BY DEF Partitions
<1>1. ASSUME NEW t \in RevalThreads,
             \/ \E op \in RevalOps : Call(t, op)
             \/ GetVolumeLockWait(t) \/ GetVolumeLockAcquire(t) \/ GetVolumeLockRecheck(t)
             \/ SyncPeek(t) \/ DeviceFenced(t) \/ WaitRevalidation(t)
      PROVE  DpEnd'
  <2>1. SameTape /\ OnlyIdlersMove
    BY <1>1, IdlerEffect
  <2>2. \A u \in RevalThreads :
           /\ th'[u].pc = "rv_check" => th[u].pc = "rv_check" /\ th'[u].saved = th[u].saved
           /\ (Writing(u)' /\ Prt(u)' = "dp") => (Writing(u) /\ Prt(u) = "dp")
    BY <2>1, IdlersOnly, SameThread
  <2> QED
    BY <2>1, <2>2, DpQuiet DEF SameTape
<1>2. ASSUME NEW t \in RevalThreads, OthersStay(t), SameTape, th'[t].pc # "rv_check", ~Writing(t)'
      PROVE  DpEnd'
  <2>1. \A u \in RevalThreads :
           /\ th'[u].pc = "rv_check" => th[u].pc = "rv_check" /\ th'[u].saved = th[u].saved
           /\ (Writing(u)' /\ Prt(u)' = "dp") => (Writing(u) /\ Prt(u) = "dp")
    BY <1>2, SameThread DEF OthersStay
  <2> QED
    BY <1>2, <2>1, DpQuiet DEF SameTape
<1>3. ASSUME NEW t \in RevalThreads, DeviceLock(t) PROVE DpEnd'
  BY <1>2, <1>3, DeviceLockEffect
<1>4. ASSUME NEW t \in RevalThreads,
             \/ NeedReval(t) \/ UnexpectedMove(t) \/ UnmountEnds(t)
             \/ RevalMark(t) \/ RevalUnlock(t) \/ RevalLock(t)
             \/ RevalFails(t) \/ RevalUnfence(t) \/ RevalRecord(t) \/ RevalReturn(t)
      PROVE  DpEnd'
  <2>1. OthersStay(t) /\ SameTape /\ th'[t].pc \notin {"send", "rv_check"}
    BY <1>4, NeedRevalEffect, UnexpectedMoveEffect, UnmountEndsEffect, RevalMarkEffect,
       RevalFailsEffect, RevalUnfenceEffect, RevalRecordEffect, RevalReturnEffect, IdleFields
       DEF AtWork, Revalidating
  <2> QED
    BY <1>2, <2>1 DEF Writing, Sending
<1>5. ASSUME NEW t \in RevalThreads, Finish(t) \/ ClearIndexEnd(t) \/ MamUpdateFails(t) \/ TapeQuery(t)
      PROVE  DpEnd'
  <2>1. /\ OthersStay(t) /\ vol'.append = vol.append /\ tape'.part = tape.part
        /\ tape'.safe \in {tape.safe, tape.part} /\ seen'.lost = seen.lost
        /\ th'[t].pc # "rv_check"
    BY <1>5, FinishEffect, ClearIndexEndEffect, MamUpdateFailsEffect, TapeQueryEffect, IdleFields
       DEF SameTape
  <2>2. Writing(t)' => Writing(t) /\ Prt(t)' = Prt(t)
    <3>1. CASE Finish(t)
      BY <3>1, FinishEffect, IdleFields DEF Writing, Sending
    <3>2. CASE ClearIndexEnd(t)
      BY <3>2, ClearIndexEndEffect, NextCommand
    <3>3. CASE MamUpdateFails(t)
      BY <3>3, MamUpdateFailsEffect, NextCommand DEF AtMam
    <3>4. CASE TapeQuery(t)
      BY <3>4, TapeQueryEffect, NextCommand DEF Writing, Writes
    <3> QED
      BY <1>5, <3>1, <3>2, <3>3, <3>4
  <2>3. \A u \in RevalThreads :
           /\ th'[u].pc = "rv_check" => th[u].pc = "rv_check" /\ th'[u].saved = th[u].saved
           /\ (Writing(u)' /\ Prt(u)' = "dp") => (Writing(u) /\ Prt(u) = "dp")
    BY <2>1, <2>2, SameThread DEF OthersStay
  <2> QED
    BY <2>1, <2>3, DpQuiet
<1>6. ASSUME NEW t \in RevalThreads, TapeSeek(t) PROVE DpEnd'
  <2> DEFINE p == Prt(t)
             b == SeekTarget(p)
  <2>1. /\ OthersStay(t) /\ Sending(t) /\ th'[t].pc = "send" /\ AtWork(t)
        /\ th'[t].todo = Tail(th[t].todo)
        /\ p \in Partitions /\ b \in Nat /\ seen' = seen
        /\ vol'.append = [vol.append EXCEPT ![p] = b] /\ tape'.part = tape.part
        /\ tape'.safe \in {tape.safe, tape.part}
    BY <1>6, TapeSeekEffect DEF AtWork
  <2>2. Writing(t)' => Prt(t)' = p
    BY <2>1, NextCommand
  <2>3. \A u \in RevalThreads \ {t} : ~Writing(u)' /\ th'[u].pc # "rv_check"
    BY <2>1, OthersIdle DEF Rests
  <2>4. vol.append \in [Partitions -> Nat]
    BY DEF Types, MediumTyped, Volumes
  <2>5. CASE p = "dp"
    <3> SUFFICES ASSUME "dp" \notin seen'.lost PROVE DpEnd'
      BY DEF DpEnd
    <3>1. b = Len(tape.part["dp"])
      BY <2>1, <2>5 DEF DpEnd, SeekTarget
    <3>2. tape.part["dp"] \in Seq(Records)
      BY <1>0 DEF Types, MediumTyped, Tapes
    <3>3. /\ tape.part["dp"] = SubSeq(tape.part["dp"], 1, Len(tape.part["dp"]))
          /\ Len(tape.part["dp"]) <= Len(tape.part["dp"])
      BY <3>2, SubSeqFull
    <3> HIDE DEF p, b
    <3>4. vol'.append["dp"] = Len(tape'.part["dp"])
      BY <1>0, <2>1, <2>4, <2>5, <3>1
    <3> QED
      BY <2>1, <2>3, <3>3, <3>4 DEF DpEnd
  <2>6. CASE p # "dp"
    <3> HIDE DEF p, b
    <3>1. vol'.append["dp"] = vol.append["dp"]
      BY <1>0, <2>1, <2>4, <2>6
    <3>2. \A u \in RevalThreads : th'[u].pc # "rv_check" /\ ~(Writing(u)' /\ Prt(u)' = "dp")
      BY <2>1, <2>2, <2>3, <2>6
    <3> QED
      BY <2>1, <3>1, <3>2, DpQuiet
  <2> QED
    BY <2>5, <2>6
<1>7. ASSUME NEW t \in RevalThreads, TapeWrite(t) PROVE DpEnd'
  <2> DEFINE p == vol.pos.part
             b == vol.pos.block
  <2>1. b <= Len(tape.part[p])
    BY <1>7, WritePlace DEF Positions
  <2>2. /\ OthersStay(t) /\ th'[t].pc = "send" /\ AtWork(t)
        /\ th'[t].todo = Tail(th[t].todo) /\ Writing(t) /\ seen'.lost = seen.lost
        /\ p \in Partitions /\ b \in Nat
        /\ \A q \in Partitions \ {p} :
              /\ vol'.append[q] = vol.append[q]
              /\ tape'.part[q] = tape.part[q] /\ tape'.safe[q] = tape.safe[q]
        /\ vol'.append[p] = IF Cmd(t) = "endfm" /\ p = "ip" THEN th[t].start ELSE b + 1
        /\ Len(tape'.part[p]) = b + 1
        /\ \A i \in 1..b : tape'.part[p][i] = tape.part[p][i]
        /\ tape'.safe[p] = IF Cmd(t) = "endfm" THEN tape'.part[p] ELSE tape.safe[p]
    BY <1>7, <2>1, TapeWriteEffect DEF AtWork
  <2>3. Sending(t) /\ p = Prt(t) /\ vol.append[p] = b
    BY <2>2 DEF Writing, Positions, Positioned
  <2>4. Writing(t)' => Prt(t)' = p
    BY <2>2, <2>3, NextCommand
  <2>5. \A u \in RevalThreads \ {t} : ~Writing(u)' /\ th'[u].pc # "rv_check"
    BY <2>2, OthersIdle DEF Rests
  <2>6. CASE p # "dp"
    <3> HIDE DEF p, b
    <3>1. \A u \in RevalThreads : th'[u].pc # "rv_check" /\ ~(Writing(u)' /\ Prt(u)' = "dp")
      BY <2>2, <2>4, <2>5, <2>6
    <3> QED
      BY <1>0, <2>2, <2>6, <3>1, DpQuiet
  <2>7. CASE p = "dp"
    <3> SUFFICES ASSUME "dp" \notin seen'.lost PROVE DpEnd'
      BY DEF DpEnd
    <3> DEFINE w == tape.part["dp"]
               x == tape'.part["dp"]
               y == tape.safe["dp"]
    <3>1. w \in Seq(Records) /\ x \in Seq(Records) /\ y \in Seq(Records)
      BY <1>0 DEF Types, MediumTyped, Tapes
    <3>2. b = Len(w) /\ Len(y) <= Len(w) /\ y = SubSeq(w, 1, Len(y))
      BY <2>2, <2>3, <2>7 DEF DpEnd
    <3>3. Len(x) = b + 1 /\ \A i \in 1..b : x[i] = w[i]
      BY <2>2, <2>7
    <3> HIDE DEF w, x, y
    <3>4. Len(y) <= Len(x) /\ y = SubSeq(x, 1, Len(y))
      <4>1. Len(y) \in Nat /\ Len(w) \in Nat /\ Len(x) \in Nat /\ Len(y) <= Len(x)
        BY <3>1, <3>2, <3>3
      <4>2. /\ SubSeq(x, 1, Len(y)) \in Seq(Records) /\ Len(SubSeq(x, 1, Len(y))) = Len(y)
            /\ \A i \in 1..Len(y) : SubSeq(x, 1, Len(y))[i] = x[i]
        BY <3>1, <4>1, SubSeqProperties
      <4>3. \A i \in 1..Len(y) : SubSeq(w, 1, Len(y))[i] = w[i]
        BY <3>1, <3>2, <4>1, SubSeqProperties
      <4>4. \A i \in 1..Len(y) : y[i] = SubSeq(x, 1, Len(y))[i]
        BY <3>2, <3>3, <4>1, <4>2, <4>3
      <4> QED
        BY <3>1, <4>1, <4>2, <4>4, SeqEqual
    <3>5. Len(x) <= Len(x) /\ x = SubSeq(x, 1, Len(x))
      BY <3>1, SubSeqFull
    <3>6. vol'.append["dp"] = Len(x)
      BY <2>2, <2>7, <3>3
    <3>7. tape'.safe["dp"] = x \/ tape'.safe["dp"] = y
      BY <2>2, <2>7 DEF x, y
    <3> QED
      BY <2>2, <2>5, <3>4, <3>5, <3>6, <3>7 DEF DpEnd, x
  <2> QED
    BY <2>6, <2>7
<1>8. ASSUME NEW t \in RevalThreads, RevalStart(t) PROVE DpEnd'
  <2>1. /\ OthersStay(t) /\ AtWork(t) /\ SameTape /\ th'[t].pc = "rv_check" /\ th'[t].saved = vol.append
    BY <1>8, RevalStartEffect DEF AtWork, Revalidating
  <2>2. \A u \in RevalThreads \ {t} : ~Writing(u)' /\ th'[u].pc # "rv_check"
    BY <2>1, OthersIdle DEF Rests
  <2>3. ~Writing(t)'
    BY <2>1 DEF Writing, Sending
  <2> QED
    BY <2>1, <2>2, <2>3 DEF DpEnd, SameTape
<1>9. ASSUME NEW t \in RevalThreads, RevalCheck(t) PROVE DpEnd'
  <2> DEFINE n == Len(th[t].todo)
  <2>1. /\ OthersStay(t) /\ SameCall(t) /\ th[t].pc = "rv_check" /\ th'[t].pc = "rv_check" /\ AtWork(t)
        /\ n \in 1..8 /\ seen' = seen /\ tape'.part = tape.part
        /\ n > 6 => vol'.append = vol.append /\ tape' = tape
        /\ n = 6 => \A p \in Partitions : vol'.append[p] = 0
        /\ n \in 3..5 => vol'.append = vol.append
        /\ n \in 3..4 => tape' = tape
        /\ n \in {1, 2, 5, 6} => tape'.safe = tape.part
        /\ n = 2 => /\ vol'.append = [vol.append EXCEPT !["dp"] = th[t].saved["dp"]]
                    /\ DpValid(th[t].saved["dp"])
        /\ n = 1 => vol'.append = [vol.append EXCEPT !["ip"] = th[t].saved["ip"]]
    BY <1>9, RevalCheckEffect DEF AtWork, Revalidating
  <2>2. vol.append \in [Partitions -> Nat]
    BY DEF Types, MediumTyped, Volumes
  <2>3. \A u \in RevalThreads \ {t} : ~Writing(u)' /\ th'[u].pc # "rv_check"
    BY <2>1, OthersIdle DEF Rests
  <2>4. ~Writing(t)' /\ th'[t].saved = th[t].saved
    BY <2>1 DEF Writing, Sending, SameCall
  <2> HIDE DEF n
  <2>5. n = 1 \/ n = 2 \/ n \in 3..4 \/ n = 5 \/ n = 6 \/ n > 6
    BY <2>1
  <2>6. tape'.safe \in {tape.safe, tape.part}
    BY <2>1, <2>5
  <2>7. CASE n \in {2, 6}
    <3> SUFFICES ASSUME "dp" \notin seen'.lost PROVE DpEnd'
      BY DEF DpEnd
    <3>1. tape'.safe["dp"] = tape'.part["dp"]
      BY <2>1, <2>7
    <3>2. vol'.append["dp"] = 0 \/ vol'.append["dp"] = Len(tape'.part["dp"])
      BY <1>0, <2>1, <2>2, <2>7 DEF DpValid
    <3>3. tape.part["dp"] \in Seq(Records)
      BY <1>0 DEF Types, MediumTyped, Tapes
    <3>4. /\ tape.part["dp"] = SubSeq(tape.part["dp"], 1, Len(tape.part["dp"]))
          /\ Len(tape.part["dp"]) <= Len(tape.part["dp"])
      BY <3>3, SubSeqFull
    <3> QED
      BY <2>1, <2>3, <2>4, <3>1, <3>2, <3>4 DEF DpEnd
  <2>8. CASE n \notin {2, 6}
    <3>1. vol'.append["dp"] = vol.append["dp"]
      BY <1>0, <2>1, <2>2, <2>5, <2>8
    <3>2. \A u \in RevalThreads :
             /\ th'[u].pc = "rv_check" => th[u].pc = "rv_check" /\ th'[u].saved = th[u].saved
             /\ (Writing(u)' /\ Prt(u)' = "dp") => (Writing(u) /\ Prt(u) = "dp")
      BY <2>1, <2>3, <2>4
    <3> QED
      BY <2>1, <2>6, <3>1, <3>2, DpQuiet
  <2> QED
    BY <2>7, <2>8
<1>10. CASE \E t \in RevalThreads : RevalRepeats(t)
  <2>1. th' = th /\ SameTape
    BY <1>10, RevalRepeatsEffect
  <2>2. \A u \in RevalThreads : th'[u] = th[u]
    BY <2>1
  <2> QED
    BY <2>1, <2>2, SameThread, DpQuiet DEF SameTape
<1>11. CASE Reset \/ Swap \/ RemovalRequest
  <2>1. /\ th' = th /\ vol' = vol /\ seen.lost \subseteq seen'.lost
        /\ "dp" \notin seen'.lost => tape'.part["dp"] = tape.part["dp"]
        /\ tape'.safe["dp"] = tape'.part["dp"] \/ tape' = tape
    BY <1>0, <1>11, ResetEffect, SwapEffect, RemovalEffect
  <2>2. \A u \in RevalThreads : th'[u] = th[u]
    BY <2>1
  <2> QED
    BY <2>1, <2>2, SameThread, DpQuiet
<1> QED
  BY <1>1, <1>3, <1>4, <1>5, <1>6, <1>7, <1>8, <1>9, <1>10, <1>11 DEF RevalNext, ThreadStep

(* A loss of data partition records is on its way to being noticed, and stays *)
(* so: the attention waits, or the thread told of it compares the append      *)
(* position with the end of data, or it has, and every call fails.            *)
LEMMA CaughtStep ==
    ASSUME Types, Types', Discipline, Scripts, Positions, DpEnd, Caught, RevalNext
    PROVE  Caught'
<1>0. "dp" \in Partitions
  BY DEF Partitions
<1>a. SUFFICES ASSUME "dp" \in seen'.lost, vol'.mounted, ~seen'.swallowed
               PROVE  Pending' \/ (\E t \in RevalThreads : Finding(t)') \/ GivenUp'
  BY DEF Caught
<1>b. ASSUME "dp" \in seen.lost, vol.mounted, ~seen.swallowed
      PROVE  Pending \/ (\E t \in RevalThreads : Finding(t)) \/ GivenUp
  BY <1>b DEF Caught
<1>c. \A u \in RevalThreads : Finding(u) => Revalidating(u)
  BY DEF Finding, Revalidating
<1>1. ASSUME NEW t \in RevalThreads,
             \/ \E op \in RevalOps : Call(t, op)
             \/ GetVolumeLockWait(t) \/ GetVolumeLockAcquire(t) \/ GetVolumeLockRecheck(t)
             \/ SyncPeek(t) \/ DeviceFenced(t) \/ WaitRevalidation(t)
      PROVE  Pending' \/ (\E u \in RevalThreads : Finding(u)') \/ GivenUp'
  <2>1. /\ SameTape /\ SameFlags /\ OnlyIdlersMove /\ OthersStay(t)
        /\ th'[t].pc \in {"peek", "device"} => reval = "ok"
    BY <1>1, IdlerEffect
  <2>2. Pending \/ (\E u \in RevalThreads : Finding(u)) \/ GivenUp
    BY <1>a, <1>b, <2>1 DEF SameTape, SameFlags
  <2>3. \A u \in RevalThreads : Revalidating(u)' <=> Revalidating(u)
    BY <2>1, IdlersOnly
  <2>4. CASE Pending
    BY <2>1, <2>3, <2>4 DEF Pending, Short, SameTape, SameFlags
  <2>5. ASSUME NEW u \in RevalThreads, Finding(u) PROVE Finding(u)'
    <3>1. th'[u] = th[u]
      BY <1>c, <2>1, <2>5, IdlersOnly
    <3> QED
      BY <2>1, <2>5, <3>1 DEF Finding, Short, SameTape
  <2>6. CASE GivenUp
    <3>1. \A u \in RevalThreads \ {t} : th'[u] = th[u]
      BY <2>1 DEF OthersStay
    <3>2. th'[t].pc \notin {"peek", "device"} /\ reval' = "failed"
      BY <2>1, <2>6 DEF GivenUp, SameFlags
    <3>3. th'[t].pc # "send"
      BY <2>1, <2>6 DEF OnlyIdlersMove, AtWork, GivenUp
    <3> QED
      BY <2>3, <2>6, <3>1, <3>2, <3>3 DEF GivenUp
  <2> QED
    BY <2>2, <2>4, <2>5, <2>6
<1>d. ASSUME NEW t \in RevalThreads, th[t].pc = "send", seen.lost = seen'.lost,
             ~seen.swallowed
      PROVE  Pending
  <2>1. vol.mounted /\ AtWork(t)
    BY <1>d, WorkerMounted DEF AtWork
  <2>2. \A u \in RevalThreads : ~Revalidating(u)
    BY <1>d, <2>1, OthersRest DEF AtWork, Revalidating
  <2> QED
    BY <1>a, <1>b, <1>c, <1>d, <2>1, <2>2 DEF GivenUp
<1>2. ASSUME NEW t \in RevalThreads, DeviceLock(t)
      PROVE  Pending'
  <2>1. /\ SameTape /\ SameFlags /\ OthersStay(t) /\ th[t].pc = "device" /\ th'[t].pc = "send"
        /\ \A u \in RevalThreads : ~AtWork(u)
    BY <1>2, DeviceLockEffect
  <2>2. Pending
    BY <1>a, <1>b, <1>c, <2>1 DEF SameTape, SameFlags, GivenUp, AtWork
  <2>3. \A u \in RevalThreads : ~Revalidating(u)'
    BY <2>1 DEF OthersStay, AtWork, Revalidating
  <2> QED
    BY <2>1, <2>2, <2>3 DEF Pending, Short, SameTape, SameFlags
<1>3. ASSUME NEW t \in RevalThreads, TapeWrite(t) \/ TapeQuery(t) \/ UnexpectedMove(t)
             \/ MamUpdateFails(t) \/ UnmountEnds(t)
      PROVE  FALSE
  <2>1. CASE TapeWrite(t)
    <3>1. vol.pos.block <= Len(tape.part[vol.pos.part])
      BY <2>1, WritePlace DEF Positions
    <3>2. /\ th[t].pc = "send" /\ attention = "none" /\ seen'.lost = seen.lost
          /\ seen'.swallowed = seen.swallowed
      BY <2>1, <3>1, TapeWriteEffect
    <3> QED
      BY <1>a, <1>d, <3>2 DEF Pending
  <2>2. CASE TapeQuery(t)
    BY <1>a, <1>d, <2>2, TapeQueryEffect DEF Pending
  <2>3. CASE UnexpectedMove(t)
    BY <1>a, <1>d, <2>3, UnexpectedMoveEffect DEF Pending, SameTape
  <2>4. CASE MamUpdateFails(t)
    BY <1>a, <2>4, MamUpdateFailsEffect
  <2>5. CASE UnmountEnds(t)
    BY <1>a, <2>5, UnmountEndsEffect
  <2> QED
    BY <1>3, <2>1, <2>2, <2>3, <2>4, <2>5
<1>4. ASSUME NEW t \in RevalThreads, ClearIndexEnd(t) \/ TapeSeek(t) \/ Finish(t)
      PROVE  Pending'
  <2>1. /\ OthersStay(t) /\ th[t].pc = "send" /\ th'[t].pc \in {"send", "idle"}
        /\ seen'.lost = seen.lost /\ seen'.swallowed = seen.swallowed /\ SameFlags
        /\ attention = "none" \/ (vol'.append = vol.append /\ tape' = tape)
    BY <1>4, ClearIndexEndEffect, TapeSeekEffect, FinishEffect, IdleFields DEF SameTape
  <2>2. Pending
    BY <1>a, <1>d, <2>1
  <2>3. \A u \in RevalThreads : ~Revalidating(u)'
    BY <2>1, <2>2 DEF Pending, OthersStay, Revalidating
  <2> QED
    BY <2>1, <2>2, <2>3 DEF Pending, Short, SameFlags
<1>5. ASSUME NEW t \in RevalThreads, NeedReval(t)
      PROVE  Finding(t)'
  <2>1. SameTape /\ th[t].pc = "send" /\ th'[t].pc = "rv_mark"
    BY <1>5, NeedRevalEffect
  <2>2. Pending
    BY <1>a, <1>d, <2>1 DEF SameTape
  <2> QED
    BY <2>1, <2>2 DEF Pending, Finding, Short, SameTape
<1>e. ASSUME NEW t \in RevalThreads, Revalidating(t), seen' = seen
      PROVE  Finding(t)
  <2>1. vol.mounted
    BY <1>e, WorkerMounted DEF Revalidating
  <2>2. \A u \in RevalThreads \ {t} : ~Revalidating(u)
    BY <1>e, OthersRest DEF AtWork
  <2> QED
    BY <1>a, <1>b, <1>c, <1>e, <2>1, <2>2 DEF GivenUp, Pending
<1>6. ASSUME NEW t \in RevalThreads,
             RevalMark(t) \/ RevalUnlock(t) \/ RevalLock(t) \/ RevalStart(t)
      PROVE  Finding(t)'
  <2>1. /\ SameTape /\ th[t].pc \in {"rv_mark", "rv_unlock", "rv_lock", "rv_start"}
        /\ \/ th'[t].pc \in {"rv_unlock", "rv_lock", "rv_start"}
           \/ th'[t].pc = "rv_check" /\ Len(th'[t].todo) = 8 /\ th'[t].saved = vol.append
    BY <1>6, RevalMarkEffect, RevalStartEffect
  <2>2. Finding(t)
    BY <1>e, <2>1 DEF Revalidating, SameTape
  <2>3. Short(vol.append["dp"]) /\ 8 >= 2
    BY <2>1, <2>2 DEF Finding
  <2>4. CASE th'[t].pc = "rv_check"
    BY <2>1, <2>3, <2>4 DEF Finding, Short, SameTape
  <2>5. CASE th'[t].pc # "rv_check"
    BY <2>1, <2>3, <2>5 DEF Finding, Short, SameTape
  <2> QED
    BY <2>4, <2>5
<1>7. ASSUME NEW t \in RevalThreads, RevalRepeats(t)
      PROVE  Finding(t)'
  <2>1. th' = th /\ th[t].pc = "rv_check" /\ SameTape
    BY <1>7, RevalRepeatsEffect
  <2>2. Finding(t)
    BY <1>e, <2>1 DEF Revalidating, SameTape
  <2> QED
    BY <2>1, <2>2 DEF Finding, Short, SameTape
<1>8. ASSUME NEW t \in RevalThreads, RevalCheck(t)
      PROVE  Finding(t)'
  <2> DEFINE n == Len(th[t].todo)
             m == th[t].saved["dp"]
             l == Len(tape.part["dp"])
  <2>1. /\ SameCall(t) /\ th[t].pc = "rv_check" /\ th'[t].pc = "rv_check"
        /\ n \in 1..8 /\ Len(th'[t].todo) = n - 1
        /\ seen' = seen /\ tape'.part = tape.part
        /\ n > 6 => tape' = tape
        /\ n \in 3..4 => tape' = tape
        /\ n \in {1, 2, 5, 6} => tape'.safe = tape.part
        /\ n = 2 => DpValid(m)
    BY <1>8, RevalCheckEffect
  <2>2. Finding(t)
    BY <1>e, <2>1 DEF Revalidating
  <2>3. m > l /\ tape.safe["dp"] = tape.part["dp"] /\ n >= 2
    BY <2>1, <2>2 DEF Finding, Short
  <2>4. m \in Nat /\ l \in Nat
    BY <1>0, SeekTargetTyped DEF Types, ThreadsTyped, ThreadStates
  <2>5. DpValid(m) => m = 0 \/ m = l
    BY DEF DpValid
  <2> HIDE DEF n, m, l
  <2>6. n >= 3 /\ n - 1 >= 2
    BY <2>1, <2>3, <2>4, <2>5
  <2>7. tape'.safe["dp"] = tape'.part["dp"]
    <3>1. n \in 3..4 \/ n \in {5, 6} \/ n > 6
      BY <2>1, <2>6
    <3> QED
      BY <2>1, <2>3, <3>1
  <2> QED
    BY <2>1, <2>3, <2>6, <2>7 DEF Finding, Short, SameCall, n, m, l
<1>9. ASSUME NEW t \in RevalThreads, RevalFails(t) \/ RevalUnfence(t) \/ RevalRecord(t)
      PROVE  Finding(t)'
  <2>1. /\ SameTape /\ th'[t].todo = th[t].todo
        /\ th[t].pc \in {"rv_check", "rv_unfence", "rv_record"}
        /\ th'[t].pc \in {"rv_unfence", "rv_record", "rv_return"}
        /\ th[t].pc = "rv_check" => th[t].todo # <<>> \/ Len(th[t].todo) = 0
    BY <1>9, RevalFailsEffect, RevalUnfenceEffect, RevalRecordEffect
  <2>2. Finding(t)
    BY <1>e, <2>1 DEF Revalidating, SameTape
  <2>3. th[t].todo # <<>>
    BY <2>1, <2>2 DEF Finding
  <2> QED
    BY <2>1, <2>3 DEF Finding
<1>10. ASSUME NEW t \in RevalThreads, RevalReturn(t)
       PROVE  GivenUp'
  <2>1. /\ OthersStay(t) /\ SameTape /\ th[t].pc = "rv_return"
        /\ ~AtWork(t)' /\ th'[t].pc \notin {"peek", "device", "send"}
        /\ th[t].todo # <<>> => reval = "failed" /\ (~vol'.mounted \/ reval' = "failed")
    BY <1>10, RevalReturnEffect
  <2>2. Finding(t)
    BY <1>e, <2>1 DEF Revalidating, SameTape
  <2>3. reval' = "failed"
    BY <1>a, <2>1, <2>2 DEF Finding
  <2>4. held[t] = "write"
    BY <2>1 DEF Discipline, LocksMatch, Owning
  <2>5. ASSUME NEW u \in RevalThreads \ {t}
        PROVE  th'[u].pc \notin {"peek", "device", "send"} /\ ~Revalidating(u)'
    <3>1. th'[u] = th[u]
      BY <2>1 DEF OthersStay
    <3>2. ~AtWork(u)
      BY <2>1, OthersRest DEF AtWork, Revalidating
    <3>3. held[u] = "none"
      BY <2>4 DEF Discipline, WriterAlone
    <3>4. th[u].pc \notin {"peek", "device"}
      BY <3>3 DEF Discipline, LocksMatch
    <3> QED
      BY <3>1, <3>2, <3>4 DEF AtWork, Revalidating
  <2> QED
    BY <2>1, <2>3, <2>5 DEF GivenUp, AtWork
<1>11. CASE Reset
  <2> DEFINE w == tape.part["dp"]
             x == tape'.part["dp"]
             y == tape.safe["dp"]
  <2>1. /\ th' = th /\ vol' = vol /\ reval' = reval /\ attention # "changed" /\ attention' = "changed"
        /\ tape'.safe["dp"] = x /\ seen'.swallowed = seen.swallowed
        /\ "dp" \notin seen.lost => x # w
        /\ y = w => x = w
        /\ x = y \/ \E n \in 0..Len(w) : x = SubSeq(w, 1, n)
    BY <1>0, <1>11, <1>a, ResetEffect
  <2>2. \A u \in RevalThreads : Revalidating(u)' <=> Revalidating(u)
    BY <2>1 DEF Revalidating
  <2>3. CASE "dp" \in seen.lost
    <3>1. (\E u \in RevalThreads : Finding(u)) \/ GivenUp
      BY <1>a, <1>b, <2>1, <2>3 DEF Pending
    <3>2. ASSUME NEW u \in RevalThreads, Finding(u) PROVE Finding(u)'
      BY <2>1, <3>2 DEF Finding, Short
    <3>3. CASE GivenUp
      BY <2>1, <2>2, <3>3 DEF GivenUp
    <3> QED
      BY <3>1, <3>2, <3>3
  <2>4. CASE "dp" \notin seen.lost
    <3>1. w \in Seq(Records) /\ x \in Seq(Records) /\ y \in Seq(Records)
      BY <1>0 DEF Types, MediumTyped, Tapes
    <3>2. /\ vol.append["dp"] = Len(w) \/ (vol.append["dp"] = 0 /\ y = w)
          /\ \A t \in RevalThreads : th[t].pc = "rv_check" =>
                th[t].saved["dp"] = Len(w) \/ (th[t].saved["dp"] = 0 /\ y = w)
          /\ Len(y) <= Len(w) /\ y = SubSeq(w, 1, Len(y))
      BY <2>4 DEF DpEnd
    <3>3. x # w /\ y # w
      BY <2>1, <2>4
    <3> HIDE DEF w, x, y
    <3>4. PICK n \in 0..Len(w) : x = SubSeq(w, 1, n)
      <4>1. Len(y) \in 0..Len(w)
        BY <3>1, <3>2
      <4> QED
        BY <2>1, <3>2, <4>1
    <3>5. n # Len(w)
      BY <3>1, <3>3, <3>4, SubSeqFull
    <3>6. Len(x) = n
      BY <3>1, <3>4, SubSeqProperties
    <3>7. Len(w) > Len(x)
      BY <3>1, <3>4, <3>5, <3>6
    <3>8. Short(vol.append["dp"])'
      BY <2>1, <3>2, <3>3, <3>7 DEF Short, x
    <3>9. ASSUME NEW u \in RevalThreads, Revalidating(u) PROVE Finding(u)'
      <4>1. ~Rewound(u)
        BY <1>0, <3>3 DEF Positions, OnTape, w, y
      <4>2. th[u].pc \in {"rv_record", "rv_return"} => th[u].todo # <<>>
        BY <4>1 DEF Rewound, Passed
      <4>3. th[u].pc = "rv_unfence" => th[u].todo # <<>>
        BY DEF Discipline, VerdictKept
      <4>4. CASE th[u].pc = "rv_check"
        <5>1. Short(th[u].saved["dp"])'
          BY <2>1, <3>2, <3>3, <3>7, <4>4 DEF Short, x
        <5>2. Len(th[u].todo) \in Nat
          BY DEF Types, ThreadsTyped, ThreadStates, CmdLists
        <5>3. Len(th[u].todo) >= 2
          BY <4>1, <4>4, <5>2 DEF Rewound
        <5> QED
          BY <2>1, <4>4, <5>1, <5>3 DEF Finding
      <4>5. CASE th[u].pc # "rv_check"
        BY <2>1, <3>8, <3>9, <4>2, <4>3, <4>5 DEF Finding, Revalidating
      <4> QED
        BY <4>4, <4>5
    <3>10. CASE \A u \in RevalThreads : ~Revalidating(u)
      BY <2>1, <2>2, <3>8, <3>10 DEF Pending
    <3> QED
      BY <3>9, <3>10
  <2> QED
    BY <2>3, <2>4
<1>12. CASE Swap \/ RemovalRequest
  <2>1. /\ th' = th /\ vol' = vol /\ reval' = reval /\ seen' = seen /\ attention # "changed"
        /\ tape'.part = tape.part
        /\ tape'.safe \in {tape.part, tape.safe}
    BY <1>12, SwapEffect, RemovalEffect
  <2>2. (\E u \in RevalThreads : Finding(u)) \/ GivenUp
    BY <1>a, <1>b, <2>1 DEF Pending
  <2>3. ASSUME NEW u \in RevalThreads, Finding(u) PROVE Finding(u)'
    BY <2>1, <2>3 DEF Finding, Short
  <2>4. CASE GivenUp
    BY <2>1, <2>4 DEF GivenUp, Revalidating
  <2> QED
    BY <2>2, <2>3, <2>4
<1> QED
  BY <1>1, <1>2, <1>3, <1>4, <1>5, <1>6, <1>7, <1>8, <1>9, <1>10, <1>11, <1>12
     DEF RevalNext, ThreadStep

---------------------------------------------------------------------------
(* The inductive invariant.                                                *)

RevalInv ==
    /\ Types /\ Discipline /\ Scripts /\ Trust /\ Checked /\ Positions /\ Extents /\ DpEnd
    /\ Caught /\ NoForeignWrite

(* Every step keeps the types; a record lands at most at the end of data. *)
LEMMA TypesStep ==
    ASSUME Types, Discipline, Scripts, Positions, RevalNext
    PROVE  Types'
<1>1. ASSUME NEW t \in RevalThreads, ThreadStep(t) PROVE Types'
  <2>1. OpsMatch
    BY DEF Discipline
  <2>2. TapeWrite(t) => vol.pos.block <= Len(tape.part[vol.pos.part])
    BY WritePlace DEF Positions
  <2> QED
    BY <1>1, <2>1, <2>2, LockSteps, TapeSteps, RevalSteps DEF ThreadStep
<1> QED
  BY <1>1, CallTypes, DriveSteps DEF RevalNext

(* Every step keeps the lock discipline and the scripts. *)
LEMMA DisciplineStep ==
    ASSUME Types, Discipline, Scripts, RevalNext
    PROVE  Discipline' /\ Scripts'
<1>1. ASSUME NEW t \in RevalThreads, ThreadStep(t) PROVE Discipline' /\ Scripts'
  BY <1>1, DisciplineLocks, DisciplineTape, DisciplineReval, ScriptsStep DEF ThreadStep
<1>2. ASSUME NEW t \in RevalThreads, NEW op \in RevalOps, Call(t, op) PROVE Discipline' /\ Scripts'
  BY <1>2, DisciplineOther, ScriptsStep
<1>3. CASE Reset \/ Swap \/ RemovalRequest
  <2>1. UNCHANGED <<th, held, reval, vol, backend>>
    BY <1>3 DEF Reset, Swap, RemovalRequest
  <2> QED
    BY <2>1, DisciplineOther DEF Scripts, ScriptOf
<1> QED
  BY <1>1, <1>2, <1>3 DEF RevalNext

(* What has been spoiled or swallowed stays so, and only tape_write spoils. *)
LEMMA SpoiledOnlyByWrite ==
    ASSUME Types, Discipline, Scripts, Positions, RevalNext
    PROVE  /\ seen.swallowed => seen'.swallowed
           /\ seen'.spoiled => seen.spoiled \/ \E t \in RevalThreads :
                 TapeWrite(t) /\ (medium # "ours" \/ tape.head # vol.pos)
<1>1. ASSUME NEW t \in RevalThreads,
             \/ \E op \in RevalOps : Call(t, op)
             \/ GetVolumeLockWait(t) \/ GetVolumeLockAcquire(t) \/ GetVolumeLockRecheck(t)
             \/ SyncPeek(t) \/ DeviceFenced(t) \/ WaitRevalidation(t) \/ DeviceLock(t)
             \/ ClearIndexEnd(t) \/ NeedReval(t) \/ UnexpectedMove(t) \/ UnmountEnds(t)
             \/ RevalMark(t) \/ RevalUnlock(t) \/ RevalLock(t) \/ RevalStart(t)
             \/ RevalRepeats(t) \/ RevalFails(t) \/ RevalUnfence(t) \/ RevalRecord(t)
             \/ RevalReturn(t)
      PROVE  seen' = seen
  BY <1>1, IdlerEffect, DeviceLockEffect, ClearIndexEndEffect, NeedRevalEffect,
     UnexpectedMoveEffect, UnmountEndsEffect, RevalMarkEffect, RevalStartEffect,
     RevalRepeatsEffect, RevalFailsEffect, RevalUnfenceEffect, RevalRecordEffect,
     RevalReturnEffect DEF SameTape
<1>2. ASSUME NEW t \in RevalThreads,
             TapeSeek(t) \/ TapeQuery(t) \/ RevalCheck(t) \/ MamUpdateFails(t) \/ Finish(t)
      PROVE  (seen.swallowed => seen'.swallowed) /\ seen'.spoiled = seen.spoiled
  BY <1>2, TapeSeekEffect, TapeQueryEffect, RevalCheckEffect, MamUpdateFailsEffect, FinishEffect
<1>3. ASSUME NEW t \in RevalThreads, TapeWrite(t)
      PROVE  /\ seen'.swallowed = seen.swallowed
             /\ seen'.spoiled => (seen.spoiled \/ medium # "ours" \/ tape.head # vol.pos)
  <2>1. vol.pos.block <= Len(tape.part[vol.pos.part])
    BY <1>3, WritePlace DEF Positions
  <2> QED
    BY <1>3, <2>1, TapeWriteEffect
<1>4. CASE Reset \/ Swap \/ RemovalRequest
  BY <1>4, ResetEffect, SwapEffect, RemovalEffect
<1> QED
  BY <1>1, <1>2, <1>3, <1>4 DEF RevalNext, ThreadStep

(* Writing needs the volume in use, and then the cartridge is the mounted one *)
(* and the head is where libltfs thinks.                                      *)
LEMMA ForeignStep ==
    ASSUME Types, Discipline, Scripts, Trust, Positions, NoForeignWrite, RevalNext
    PROVE  NoForeignWrite'
<1>1. /\ seen.swallowed => seen'.swallowed
      /\ seen'.spoiled => seen.spoiled \/ \E t \in RevalThreads :
            TapeWrite(t) /\ (medium # "ours" \/ tape.head # vol.pos)
  BY SpoiledOnlyByWrite
<1>2. ASSUME NEW t \in RevalThreads, TapeWrite(t), medium # "ours" \/ tape.head # vol.pos
      PROVE  seen.swallowed
  <2>1. Normal
    BY <1>2, WritePlace DEF Positions
  <2> QED
    BY <1>2, <2>1 DEF Trust
<1> QED
  BY <1>1, <1>2 DEF NoForeignWrite

(* A mounted volume at rest. *)
LEMMA InitInvariant == RevalInit => RevalInv
<1> SUFFICES ASSUME RevalInit PROVE RevalInv
  OBVIOUS
<1>1. \A t \in RevalThreads : th[t] = IdleThread /\ held[t] = "none"
  BY DEF RevalInit
<1>2. /\ IdleThread.pc = "idle" /\ IdleThread.op = "none" /\ IdleThread.todo = <<>>
  BY DEF IdleThread
<1>3. /\ Mounted \in Seq(Records) /\ Len(Mounted) = 5
  BY DEF Mounted, Records, Fm, Idx
<1>4. "ip" \in Partitions /\ "dp" \in Partitions /\ At("ip", 3) \in Places
      /\ At("dp", 3) \in Places /\ At("ip", 5) \in Places
  BY DEF Partitions, At, Places
<1>5. /\ vol.append = [p \in Partitions |-> IF p = "ip" THEN 2 ELSE 0]
      /\ vol.pos = At("ip", 5) /\ vol.mounted
      /\ tape.part = [p \in Partitions |-> Mounted] /\ tape.safe = [p \in Partitions |-> Mounted]
      /\ tape.head = At("ip", 5)
      /\ seen.acked = {} /\ seen.lost = {} /\ seen.swallowed = FALSE /\ seen.spoiled = FALSE
      /\ medium = "ours" /\ attention = "none" /\ reval = "ok"
      /\ backend.owner = NoThread /\ backend.fence = FALSE
  BY DEF RevalInit
<1>6. Types
  <2>1. ThreadsTyped
    BY IdleTyped DEF RevalInit, ThreadsTyped
  <2>2. FlagsTyped
    BY DEF RevalInit, FlagsTyped, Backends
  <2>3. vol \in Volumes
    BY <1>4 DEF RevalInit, Volumes
  <2>4. tape \in Tapes
    BY <1>3, <1>4 DEF RevalInit, Tapes
  <2>5. seen \in Histories
    BY DEF RevalInit, Histories
  <2> QED
    BY <2>1, <2>2, <2>3, <2>4, <2>5 DEF Types, MediumTyped
<1>7. \A t \in RevalThreads : /\ ~Revalidating(t) /\ ~Rewound(t) /\ ~AtMam(t) /\ ~Writing(t)
                              /\ th[t].pc = "idle"
  BY <1>1, <1>2 DEF Revalidating, Rewound, Passed, AtMam, Writing, Sending
<1>8. Discipline
  BY <1>1, <1>2, <1>5, <1>7, RevalAssumption
     DEF Discipline, OpsMatch, LocksMatch, WriterAlone, OwnerSends, FenceMatches,
         RunningMatches, OneAtWork, UnmountedIsIdle, VerdictKept, FailureStops,
         Fencing, Running, Owning, Revalidating
<1>9. Scripts
  BY <1>1, <1>2 DEF Scripts, ScriptOf
<1>10. Trust /\ Checked
  BY <1>5, <1>7 DEF Trust, Checked, Passed
<1>11. Positions
  <2>1. ASSUME NEW p \in Partitions PROVE vol.append[p] <= Len(tape.part[p])
    <3>1. tape.part[p] = Mounted /\ vol.append[p] \in {0, 2}
      BY <1>5
    <3>2. Len(tape.part[p]) = 5
      BY <1>3, <3>1
    <3>3. \A n \in {0, 2} : n <= 5
      OBVIOUS
    <3> QED
      BY <3>1, <3>2, <3>3
  <2> QED
    BY <1>5, <1>7, <2>1 DEF Positions, Inside, OnTape, BufferHere, Positioned
<1>12. Extents
  BY <1>5, <1>7 DEF Extents, AckedThere, AckedKept, Written
<1>13. DpEnd
  <2>1. /\ vol.append["dp"] = 0 /\ tape.part["dp"] = Mounted /\ tape.safe["dp"] = Mounted
    BY <1>4, <1>5
  <2>2. Len(Mounted) <= Len(Mounted) /\ Mounted = SubSeq(Mounted, 1, Len(Mounted))
    BY <1>3, SubSeqFull
  <2> QED
    BY <1>7, <2>1, <2>2 DEF DpEnd
<1>14. Caught /\ NoForeignWrite
  BY <1>5 DEF Caught, NoForeignWrite
<1> QED
  BY <1>6, <1>8, <1>9, <1>10, <1>11, <1>12, <1>13, <1>14 DEF RevalInv

(* Stuttering. *)
LEMMA StutterInvariant ==
    ASSUME RevalInv, UNCHANGED revalVars
    PROVE  RevalInv'
<1> USE DEF revalVars
<1>1. Types' /\ Discipline' /\ Scripts'
  <2>1. Discipline'
    BY DisciplineOther DEF RevalInv
  <2> QED
    BY <2>1 DEF RevalInv, Types, ThreadsTyped, FlagsTyped, MediumTyped, Scripts, ScriptOf
<1>2. \A u \in RevalThreads : th'[u] = th[u]
  OBVIOUS
<1>3. Trust' /\ Checked' /\ NoForeignWrite'
  BY <1>2, SameThread DEF RevalInv, Trust, Checked, NoForeignWrite, Normal
<1>4. Positions'
  BY <1>2, SameThread DEF RevalInv, Positions, Inside, OnTape, BufferHere, Positioned, Normal
<1>5. Extents'
  BY <1>1, <1>2, ExtentsQuiet DEF RevalInv
<1>6. DpEnd'
  BY <1>2, SameThread, DpQuiet DEF RevalInv
<1>7. Caught'
  BY <1>2, SameThread DEF RevalInv, Caught, Pending, Finding, GivenUp, Short
<1> QED
  BY <1>1, <1>3, <1>4, <1>5, <1>6, <1>7 DEF RevalInv

(* Every step keeps the inductive invariant. *)
LEMMA NextInvariant == RevalInv /\ [RevalNext]_revalVars => RevalInv'
<1>1. ASSUME RevalInv, RevalNext PROVE RevalInv'
  <2>1. Types'
    BY <1>1, TypesStep DEF RevalInv
  <2>2. Discipline' /\ Scripts'
    BY <1>1, DisciplineStep DEF RevalInv
  <2>3. Trust' /\ Checked'
    BY <1>1, TrustStep DEF RevalInv, Positions
  <2>4. Positions' /\ DpEnd' /\ Caught'
    BY <1>1, <2>1, PlaceStep, DpEndStep, CaughtStep DEF RevalInv
  <2>5. Extents'
    BY <1>1, <2>1, ExtentsStep DEF RevalInv
  <2>6. NoForeignWrite'
    BY <1>1, ForeignStep DEF RevalInv
  <2> QED
    BY <2>1, <2>2, <2>3, <2>4, <2>5, <2>6 DEF RevalInv
<1> QED
  BY <1>1, StutterInvariant

---------------------------------------------------------------------------
(* The invariant below which all the properties of revalidation lie. *)
THEOREM RevalInvariant == RevalSpec => []RevalInv
<1>1. RevalInit => RevalInv
  BY InitInvariant
<1>2. RevalInv /\ [RevalNext]_revalVars => RevalInv'
  BY NextInvariant
<1> QED
  BY <1>1, <1>2, PTL DEF RevalSpec

(* The flags of the volume and of the device have their types in every state, and the *)
(* append position of a partition that has lost nothing is on its tape.               *)
THEOREM RevalTypeCorrect == RevalSpec => []RevalTypeOK
<1>1. RevalInv => RevalTypeOK
  <2> SUFFICES ASSUME RevalInv PROVE RevalTypeOK
    OBVIOUS
  <2>1. \A p \in Partitions : vol.append[p] \in Nat /\ Len(tape.part[p]) \in Nat
    BY SeekTargetTyped DEF RevalInv, Types, MediumTyped, Volumes
  <2>2. \A p \in Partitions \ seen.lost : vol.append[p] <= Len(tape.part[p])
    BY DEF RevalInv, Positions, Inside
  <2>3. \A p \in Partitions \ seen.lost : vol.append[p] \in 0..Len(tape.part[p])
    BY <2>1, <2>2
  <2> QED
    BY <2>3 DEF RevalInv, Types, FlagsTyped, Backends, RevalTypeOK
<1> QED
  BY <1>1, RevalInvariant, PTL

(* tape_write never puts a record on a cartridge that is not the mounted one, nor at a *)
(* place libltfs does not have in mind, unless ltfs_write_index had dropped an         *)
(* attention with its MAM update; for any number of threads, calls and attentions.     *)
THEOREM ForeignWritesExcluded == RevalSpec => []NoForeignWrite
<1>1. RevalInv => NoForeignWrite
  BY DEF RevalInv
<1> QED
  BY <1>1, RevalInvariant, PTL

(* A reset that costs buffered records of the data partition never goes unnoticed: *)
(* ltfs_revalidate compares the end of data with the append position it had put    *)
(* aside, and fails, and from then on every call does.                             *)
THEOREM LossesNoticed == RevalSpec => []LossIsNoticed
<1>1. RevalInv => LossIsNoticed
  <2> SUFFICES ASSUME RevalInv, "dp" \in seen.lost, vol.mounted, attention # "changed", ~seen.swallowed
               PROVE  reval # "ok" \/ \E t \in RevalThreads : Revalidating(t)
    BY DEF LossIsNoticed
  <2>1. (\E t \in RevalThreads : Finding(t)) \/ GivenUp
    BY DEF RevalInv, Caught, Pending
  <2> QED
    BY <2>1 DEF Finding, GivenUp, Revalidating
<1> QED
  BY <1>1, RevalInvariant, PTL

(* The extent _ltfs_fsraw_write_data_unlocked records points at the blocks of its own *)
(* call, however often it was interrupted and retried and whatever was written since. *)
THEOREM AcknowledgedExtents == RevalSpec => []ExtentsPointAtData
<1>1. RevalInv => ExtentsPointAtData
  <2> SUFFICES ASSUME RevalInv, seen.lost = {}, NEW e \in seen.acked
               PROVE  /\ e.at.block + 2 <= Len(tape.part[e.at.part])
                      /\ \A i \in {1, 2} : tape.part[e.at.part][e.at.block + i] = Data(e.call)
    BY DEF ExtentsPointAtData
  <2> DEFINE q == e.at.part
             b == e.at.block
  <2>1. q \in Partitions /\ b \in Nat
    BY DEF RevalInv, Types, MediumTyped, Histories, Places
  <2>2. /\ b + 2 <= EndPos(vol.append[q], q)
        /\ tape.part[q][b + 1] = Data(e.call) /\ tape.part[q][b + 2] = Data(e.call)
    BY DEF RevalInv, Extents, AckedThere
  <2>3. vol.append[q] \in Nat /\ Len(tape.part[q]) \in Nat
    BY <2>1, SeekTargetTyped DEF RevalInv, Types, MediumTyped, Volumes
  <2>4. vol.append[q] <= Len(tape.part[q])
    BY <2>1 DEF RevalInv, Positions, Inside
  <2> HIDE DEF q, b
  <2>5. b + 2 <= Len(tape.part[q])
    BY <2>1, <2>2, <2>3, <2>4 DEF EndPos
  <2> QED
    BY <2>2, <2>5 DEF q, b
<1> QED
  BY <1>1, RevalInvariant, PTL

(* The fence of tape_device_lock and vol->reval "running" are up only while exactly *)
(* one thread is inside ltfs_revalidate.                                            *)
THEOREM FenceOwned == RevalSpec => []FenceHasOwner
<1>1. RevalInv => FenceHasOwner
  <2> SUFFICES ASSUME Discipline PROVE FenceHasOwner
    BY DEF RevalInv
  <2>1. \A t \in RevalThreads : th[t].pc \in Fencing \cup Running => Revalidating(t)
    BY DEF Fencing, Running, Revalidating
  <2>2. backend.fence => \E t \in RevalThreads : Revalidating(t)
    BY <2>1 DEF Discipline, FenceMatches
  <2>3. reval = "running" => \E t \in RevalThreads : Revalidating(t)
    BY <2>1 DEF Discipline, RunningMatches
  <2>4. \A t, u \in RevalThreads : (Revalidating(t) /\ Revalidating(u)) => t = u
    BY DEF Discipline, OneAtWork
  <2> QED
    BY <2>2, <2>3, <2>4 DEF FenceHasOwner
<1> QED
  BY <1>1, RevalInvariant, PTL

=============================================================================
