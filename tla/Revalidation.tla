---------------------------- MODULE Revalidation ----------------------------
(***************************************************************************)
(* What libltfs does when the drive reports that the medium may have been  *)
(* changed.  A pending unit attention is answered to exactly one command,  *)
(* whichever thread sends it; that thread fences the device, takes the     *)
(* volume exclusively, re-checks label, MAM, end of data and append        *)
(* positions (ltfs_revalidate), and then everybody retries.                *)
(*                                                                         *)
(* A call of libltfs is the list of commands it has still to send, its     *)
(* todo list; one step sends one command, so attentions, resets and        *)
(* cartridge swaps happen between any two of them.  The volume lock is the *)
(* one module RWLock specifies.                                            *)
(***************************************************************************)
EXTENDS Naturals, FiniteSets, SequencesExt

CONSTANTS RevalThreads,  \* the threads that call into libltfs
          NoThread,      \* nobody owns the device mutex
          RevalOps,      \* the calls they may make
          MaxCalls,      \* bound on the calls made
          MaxEvents      \* bound on unit attentions

ASSUME RevalAssumption ==
    /\ NoThread \notin RevalThreads
    /\ RevalOps \subseteq {"tur", "capacity", "getxattr", "read", "write_ip", "write_dp",
                           "sync", "set_sync", "unmount"}

VARIABLES
    th,        \* per thread: where it is in which call
    held,      \* vol->lock: "none", "read" or "write" per thread
    reval,     \* vol->reval
    vol,       \* the fields of ltfs_volume and device_data that matter here
    backend,   \* owner of backend_mutex and the fence flag
    tape,      \* the drive: contents, what has left its buffer, the head
    attention, \* the unit attention the next command will be told
    medium,    \* which cartridge is in the drive
    seen,      \* observers: acknowledged extents and what went wrong
    budget     \* calls made and attentions raised so far

revalVars == <<th, held, reval, vol, backend, tape, attention, medium, seen, budget>>

Partitions == {"ip", "dp"}
Fm == <<"fm", 0>>
Idx == <<"idx", 0>>
Data(call) == <<"data", call>>
\* A partition as mount finds it: the label, a filemark, an index construct.
Mounted == <<<<"label", 0>>, Fm, Fm, Idx, Fm>>
At(p, b) == [part |-> p, block |-> b]

Exclusive(op) == op \in {"write_ip", "write_dp", "sync_write", "set_sync", "unmount"}
\* The calls that send an index without fencing the device on an attention.
Unfenced == {"sync_write", "set_sync", "unmount"}

IdleThread == [pc |-> "idle", op |-> "none", call |-> 0, todo |-> <<>>,
               start |-> 0, target |-> "dp", saved |-> [p \in Partitions |-> 0]]

RevalInit ==
    /\ th = [t \in RevalThreads |-> IdleThread]
    /\ held = [t \in RevalThreads |-> "none"]
    /\ reval = "ok"
    /\ vol = [append |-> [p \in Partitions |-> IF p = "ip" THEN 2 ELSE 0],
              ends |-> [p \in Partitions |-> TRUE],
              self |-> At("ip", 3), back |-> At("dp", 3),
              pos |-> At("ip", 5), dirty |-> FALSE, mounted |-> TRUE]
    /\ backend = [owner |-> NoThread, fence |-> FALSE]
    /\ tape = [part |-> [p \in Partitions |-> Mounted],
               safe |-> [p \in Partitions |-> Mounted], head |-> At("ip", 5)]
    /\ attention = "none"
    /\ medium = "ours"
    /\ seen = [acked |-> {}, lost |-> {}, swallowed |-> FALSE, spoiled |-> FALSE]
    /\ budget = [calls |-> 0, events |-> 0]

---------------------------------------------------------------------------
(* The commands of each call, given the volume as it is when the call gets *)
(* the device.                                                             *)

\* ltfs_write_index for one partition: seek, filemark, index, filemark, MAM.
WriteIndexOne(p) ==
    << <<"seek", p>> >>
    \o (IF p = "ip" /\ ~vol.ends["ip"] THEN << <<"flush", p>> >> ELSE <<>>)
    \o << <<"fm", p>>, <<"idx", p>>, <<"endfm", p>>, <<"mamset", p>> >>

\* An index goes to the IP only after one has gone to the DP.
WriteIndex(p) ==
    (IF p = "ip" /\ (~vol.ends["dp"] \/ (vol.ends["ip"] /\ vol.self.part = "ip"))
     THEN WriteIndexOne("dp") ELSE <<>>) \o WriteIndexOne(p)

WriteIndexConditional(p) ==
    IF \/ p = "ip" /\ ~vol.ends["ip"]
       \/ p = "dp" /\ (~vol.ends["dp"] \/ (vol.ends["ip"] /\ vol.self.part = "ip"))
    THEN WriteIndex(p) ELSE <<>>

\* _ltfs_fsraw_write_data_unlocked: index the other partition, say that this
\* one no longer ends in an index, keep a read lock only, append two blocks.
WriteData(p) ==
    WriteIndexConditional(IF p = "ip" THEN "dp" ELSE "ip")
    \o << <<"down", p>>, <<"seek", p>>, <<"data", p>>, <<"data", p>> >>

TestUnitReady == << <<"query", "dp">> >>
CapacityData == << <<"query", "dp">>, <<"query", "dp">> >>
CartridgeHealth == << <<"query", "dp">>, <<"query", "dp">> >>
FsrawRead == << <<"read", "dp">> >>
Unmount == IF vol.dirty \/ vol.self.part # "ip" THEN WriteIndex("ip") ELSE <<>>

Commands(op, p) ==
    CASE op = "tur" -> TestUnitReady
      [] op = "capacity" -> CapacityData
      [] op = "getxattr" -> CartridgeHealth
      [] op = "read" -> FsrawRead
      [] op = "write_ip" -> WriteData("ip")
      [] op = "write_dp" -> WriteData("dp")
      [] op = "sync_write" -> WriteIndex(p)
      [] op = "set_sync" -> IF vol.dirty THEN WriteIndex(p) ELSE <<>>
      [] op = "unmount" -> Unmount

---------------------------------------------------------------------------
(* Locks.                                                                  *)

Goto(t, l) == th' = [th EXCEPT ![t].pc = l]
Return(t) == th' = [th EXCEPT ![t] = IdleThread]
ReleaseLock(t) == held' = [held EXCEPT ![t] = "none"]
CanRead(t) == \A u \in RevalThreads \ {t} : held[u] # "write"
CanWrite(t) == \A u \in RevalThreads \ {t} : held[u] = "none"

Call(t, op) ==
    /\ th[t].pc = "idle" /\ vol.mounted
    /\ budget.calls < MaxCalls
    /\ \A u \in RevalThreads : th[u].op # "unmount"
    /\ op = "unmount" => \A u \in RevalThreads : th[u].pc = "idle"
    /\ th' = [th EXCEPT ![t] = [IdleThread EXCEPT !.pc = "wait", !.op = op,
                                                  !.call = budget.calls + 1]]
    /\ budget' = [budget EXCEPT !.calls = @ + 1]
    /\ UNCHANGED <<held, reval, vol, backend, tape, attention, medium, seen>>

\* Mistake: wait until a revalidation has succeeded.
WaitsForSuccess(t) ==
    /\ th[t].pc = "wait" /\ reval = "ok"
    /\ Goto(t, "acquire")
    /\ UNCHANGED <<held, reval, vol, backend, tape, attention, medium, seen, budget>>

\* ltfs_get_volume_lock: wait while a revalidation runs, lock, look again.
GetVolumeLockWait(t) ==
    /\ th[t].pc = "wait" /\ reval # "running"
    /\ Goto(t, "acquire")
    /\ UNCHANGED <<held, reval, vol, backend, tape, attention, medium, seen, budget>>

GetVolumeLockAcquire(t) ==
    /\ th[t].pc = "acquire"
    /\ \/ Exclusive(th[t].op) /\ CanWrite(t) /\ held' = [held EXCEPT ![t] = "write"]
       \/ ~Exclusive(th[t].op) /\ CanRead(t) /\ held' = [held EXCEPT ![t] = "read"]
    /\ Goto(t, "recheck")
    /\ UNCHANGED <<reval, vol, backend, tape, attention, medium, seen, budget>>

\* Mistake: the volume lock is taken without looking at vol->reval again.
RecheckTrusts(t) ==
    /\ th[t].pc = "recheck"
    /\ Goto(t, IF th[t].op = "sync" THEN "peek" ELSE "device") /\ held' = held
    /\ UNCHANGED <<reval, vol, backend, tape, attention, medium, seen, budget>>


GetVolumeLockRecheck(t) ==
    /\ th[t].pc = "recheck"
    /\ \/ reval = "ok" /\ Goto(t, IF th[t].op = "sync" THEN "peek" ELSE "device") /\ held' = held
       \/ reval = "running" /\ Goto(t, "wait") /\ ReleaseLock(t)
       \/ reval = "failed" /\ Return(t) /\ ReleaseLock(t)
    /\ UNCHANGED <<reval, vol, backend, tape, attention, medium, seen, budget>>

\* ltfs_sync_index: the partition is chosen under a read lock that is given
\* back before the write lock is taken.
SyncPeek(t) ==
    /\ th[t].pc = "peek"
    /\ IF vol.dirty
       THEN th' = [th EXCEPT ![t].pc = "wait", ![t].op = "sync_write",
                             ![t].target = IF vol.ends["dp"] /\ ~vol.ends["ip"]
                                           THEN "ip" ELSE "dp"]
       ELSE Return(t)
    /\ ReleaseLock(t)
    /\ UNCHANGED <<reval, vol, backend, tape, attention, medium, seen, budget>>

\* tape_device_lock; ltfs_unmount writes its index without it.
DeviceLock(t) ==
    /\ th[t].pc = "device" /\ backend.owner = NoThread /\ ~backend.fence
    /\ LET p == IF th[t].op = "set_sync" /\ vol.ends["dp"] /\ ~vol.ends["ip"]
                THEN "ip" ELSE th[t].target
       IN  th' = [th EXCEPT ![t].pc = "send", ![t].todo = Commands(th[t].op, p)]
    /\ backend' = [backend EXCEPT !.owner = IF th[t].op = "unmount" THEN NoThread ELSE t]
    /\ UNCHANGED <<held, reval, vol, tape, attention, medium, seen, budget>>

\* -LTFS_DEVICE_FENCED: ltfs_wait_revalidation gives the volume lock back
\* first; the index writers just fail.
DeviceFenced(t) ==
    /\ th[t].pc = "device" /\ backend.owner = NoThread /\ backend.fence
    /\ ReleaseLock(t)
    /\ IF th[t].op \in Unfenced THEN Return(t) ELSE Goto(t, "waitreval")
    /\ UNCHANGED <<reval, vol, backend, tape, attention, medium, seen, budget>>

WaitRevalidation(t) ==
    /\ th[t].pc = "waitreval" /\ reval # "running"
    /\ IF reval = "ok" THEN Goto(t, "wait") ELSE Return(t)
    /\ UNCHANGED <<held, reval, vol, backend, tape, attention, medium, seen, budget>>

---------------------------------------------------------------------------
(* One command.                                                            *)

Cmd(t) == Head(th[t].todo)[1]
Prt(t) == Head(th[t].todo)[2]
Sending(t) == th[t].pc = "send" /\ th[t].todo # <<>>


SeekTarget(p) == IF vol.append[p] = 0 THEN Len(tape.part[p]) ELSE vol.append[p]
\* tape_seek sends nothing when the cached position is the one asked for.
AlreadyThere(t) ==
    Cmd(t) = "seek" /\ vol.append[Prt(t)] # 0 /\ vol.pos = At(Prt(t), vol.append[Prt(t)])
Issued(t) == Cmd(t) # "down" /\ ~AlreadyThere(t)
Advance(t) == th' = [th EXCEPT ![t].todo = Tail(@)]

\* The step between the index of the other partition and the data.
ClearIndexEnd(t) ==
    /\ Sending(t) /\ Cmd(t) = "down"
    /\ vol' = [vol EXCEPT !.ends[Prt(t)] = FALSE]
    /\ held' = [held EXCEPT ![t] = "read"]
    /\ Advance(t)
    /\ UNCHANGED <<reval, backend, tape, attention, medium, seen, budget>>

\* Mistake: a retried write keeps the start block of its first attempt.
TapeSeekKeepsStart(t) ==
    /\ Sending(t) /\ Cmd(t) = "seek"
    /\ AlreadyThere(t) \/ attention = "none"
    /\ LET b == SeekTarget(Prt(t)) IN
       /\ th' = [th EXCEPT ![t].todo = Tail(@), ![t].start = IF @ = 0 THEN b ELSE @]
       /\ vol' = [vol EXCEPT !.pos = At(Prt(t), b), !.append[Prt(t)] = b]
       /\ tape' = IF AlreadyThere(t) THEN tape
                  ELSE [tape EXCEPT !.head = At(Prt(t), b), !.safe = tape.part]
    /\ UNCHANGED <<held, reval, backend, attention, medium, seen, budget>>


TapeSeek(t) ==
    /\ Sending(t) /\ Cmd(t) = "seek"
    /\ AlreadyThere(t) \/ attention = "none"
    /\ LET b == SeekTarget(Prt(t)) IN
       /\ th' = [th EXCEPT ![t].todo = Tail(@), ![t].start = b]
       /\ vol' = [vol EXCEPT !.pos = At(Prt(t), b), !.append[Prt(t)] = b]
       /\ tape' = IF AlreadyThere(t) THEN tape
                  ELSE [tape EXCEPT !.head = At(Prt(t), b), !.safe = tape.part]
    /\ UNCHANGED <<held, reval, backend, attention, medium, seen, budget>>

\* tape_write and tape_write_filemark put a record where LTFS believes the
\* head is; what that does to another cartridge, or elsewhere on this one, is
\* not followed further than seen.spoiled.
Record(t) == CASE Cmd(t) = "data" -> Data(th[t].call)
               [] Cmd(t) = "idx" -> Idx
               [] Cmd(t) \in {"fm", "endfm"} -> Fm
TapeWrite(t) ==
    /\ Sending(t) /\ Cmd(t) \in {"data", "fm", "idx", "endfm"} /\ attention = "none"
    /\ LET p == vol.pos.part
           b == vol.pos.block
           s == Append(SubSeq(tape.part[p], 1, b), Record(t))
           last == Cmd(t) = "endfm"
       IN  /\ tape' = [tape EXCEPT !.part[p] = s, !.head = At(p, b + 1),
                                   !.safe[p] = IF last THEN s ELSE @]
           /\ vol' = [vol EXCEPT
                 !.pos.block = b + 1,
                 !.append[p] = IF last /\ p = "ip" THEN th[t].start ELSE b + 1,
                 !.ends[p] = last \/ @,
                 !.self = IF last THEN At(p, th[t].start + 1) ELSE @,
                 !.back = IF last /\ vol.self.part = "dp" THEN vol.self ELSE @,
                 !.dirty = ~last /\ @]
           /\ seen' = [seen EXCEPT !.spoiled = @ \/ medium # "ours" \/ tape.head # vol.pos]
    /\ Advance(t)
    /\ UNCHANGED <<held, reval, backend, attention, medium, budget>>

\* Commands that change nothing LTFS keeps; the MAM update is one of them.
TapeQuery(t) ==
    /\ Sending(t) /\ Cmd(t) \in {"query", "flush", "read", "mamset"} /\ attention = "none"
    /\ tape' = CASE Cmd(t) = "flush" -> [tape EXCEPT !.safe = tape.part]
                 [] Cmd(t) = "read" -> [tape EXCEPT !.safe = tape.part, !.head = At("dp", 4)]
                 [] OTHER -> tape
    /\ vol' = IF Cmd(t) = "read" THEN [vol EXCEPT !.pos = At("dp", 4)] ELSE vol
    /\ Advance(t)
    /\ UNCHANGED <<held, reval, backend, attention, medium, seen, budget>>

\* ltfs_write_index ignores every error of the MAM update.
MamUpdateFails(t) ==
    /\ Sending(t) /\ Cmd(t) = "mamset" /\ attention # "none"
    /\ attention' = "none"
    /\ seen' = [seen EXCEPT !.swallowed = TRUE]
    /\ Advance(t)
    /\ UNCHANGED <<held, reval, vol, backend, tape, medium, budget>>

\* NEED_REVAL(ret): fence under the device lock, unlock, revalidate.
NeedReval(t) ==
    /\ Sending(t) /\ Issued(t) /\ Cmd(t) # "mamset" /\ attention = "changed"
    /\ attention' = "none"
    /\ backend' = [owner |-> IF backend.owner = t THEN NoThread ELSE backend.owner,
                   fence |-> backend.fence \/ th[t].op \notin Unfenced]
    /\ held' = [held EXCEPT ![t] = IF th[t].op \in Unfenced THEN @ ELSE "read"]
    /\ th' = [th EXCEPT ![t].pc = "rv_mark", ![t].todo = <<>>]
    /\ UNCHANGED <<reval, vol, tape, medium, seen, budget>>

\* IS_UNEXPECTED_MOVE(ret): the call fails and so does every later one.
UnexpectedMove(t) ==
    /\ Sending(t) /\ Issued(t) /\ Cmd(t) # "mamset" /\ attention = "removal"
    /\ attention' = "none"
    /\ reval' = "failed"
    /\ backend' = [backend EXCEPT !.owner = IF @ = t THEN NoThread ELSE @]
    /\ vol' = [vol EXCEPT !.mounted = th[t].op # "unmount"]
    /\ ReleaseLock(t) /\ Return(t)
    /\ UNCHANGED <<tape, medium, seen, budget>>

\* The call has sent everything: record the extent, unlock, return.
Finish(t) ==
    /\ th[t].pc = "send" /\ th[t].todo = <<>> /\ th[t].op # "unmount"
    /\ seen' = [seen EXCEPT !.acked = @ \cup
          (IF th[t].op \in {"write_ip", "write_dp"}
           THEN {[at |-> At(IF th[t].op = "write_ip" THEN "ip" ELSE "dp", th[t].start),
                  call |-> th[t].call]}
           ELSE {})]
    /\ vol' = [vol EXCEPT !.dirty = @ \/ th[t].op \in {"write_ip", "write_dp", "read"}]
    /\ backend' = [backend EXCEPT !.owner = NoThread]
    /\ ReleaseLock(t) /\ Return(t)
    /\ UNCHANGED <<reval, tape, attention, medium, budget>>

\* ltfs_unmount after the index: reset the flag and read the health page,
\* dropping any attention that comes with it.
UnmountEnds(t) ==
    /\ th[t].pc = "send" /\ th[t].todo = <<>> /\ th[t].op = "unmount"
    /\ reval' = IF attention = "removal" THEN "failed" ELSE "ok"
    /\ attention' = "none"
    /\ vol' = [vol EXCEPT !.mounted = FALSE]
    /\ ReleaseLock(t) /\ Return(t)
    /\ UNCHANGED <<backend, tape, medium, seen, budget>>

---------------------------------------------------------------------------
(* ltfs_revalidate.                                                        *)

RevalMark(t) ==
    /\ th[t].pc = "rv_mark"
    /\ reval' = "running"
    /\ Goto(t, IF th[t].op \in Unfenced THEN "rv_start" ELSE "rv_unlock")
    /\ UNCHANGED <<held, vol, backend, tape, attention, medium, seen, budget>>

RevalUnlock(t) ==
    /\ th[t].pc = "rv_unlock"
    /\ ReleaseLock(t)
    /\ Goto(t, "rv_lock")
    /\ UNCHANGED <<reval, vol, backend, tape, attention, medium, seen, budget>>

RevalLock(t) ==
    /\ th[t].pc = "rv_lock" /\ CanWrite(t)
    /\ held' = [held EXCEPT ![t] = "write"]
    /\ Goto(t, "rv_start")
    /\ UNCHANGED <<reval, vol, backend, tape, attention, medium, seen, budget>>

Checks == << <<"setup", "ip">>, <<"reserve", "ip">>, <<"load", "ip">>, <<"label", "ip">>,
             <<"eod", "ip">>, <<"mam", "ip">>, <<"seekeod", "dp">>, <<"seekeod", "ip">> >>

RevalStart(t) ==
    /\ th[t].pc = "rv_start"
    /\ th' = [th EXCEPT ![t].pc = "rv_check", ![t].todo = Checks, ![t].saved = vol.append]
    /\ UNCHANGED <<held, reval, vol, backend, tape, attention, medium, seen, budget>>

\* Where spacing back over two filemarks and forward over one ends up; 0 when
\* it runs into the beginning of the partition, an error of the command.
LastIndex(s) ==
    LET marks == {i \in 1..(Len(s) - 1) : s[i] = Fm}
    IN  IF marks = {} THEN 0 ELSE Max(marks)

\* Mistake: the append position is not compared with the end of data.
DpValidIndexOnly(saved) ==
    LET s == tape.part["dp"] IN
    /\ vol.ends["dp"] \/ saved # 0
    /\ vol.ends["dp"] =>
         /\ s[Len(s)] = Fm
         /\ vol.self.part = "dp" => vol.self.block = LastIndex(s)


DpValid(saved) ==
    LET s == tape.part["dp"] IN
    /\ vol.ends["dp"] \/ saved # 0
    /\ vol.ends["dp"] =>
         /\ s[Len(s)] = Fm
         /\ vol.self.part = "dp" => vol.self.block = LastIndex(s)
         /\ (vol.self.part # "dp" /\ vol.back.part = "dp") => vol.back.block = LastIndex(s)
    /\ saved # 0 => saved = Len(s)

\* The cached position is compared with the block before the one reached,
\* which is the filemark of the last index, or the last block written.
IpValid(saved) ==
    LET s == tape.part["ip"] IN
    /\ vol.ends["ip"] \/ saved # 0
    /\ vol.ends["ip"] => s[Len(s)] = Fm /\ (vol.self.part = "ip" => vol.self.block = LastIndex(s))
    /\ saved # 0 => saved + 1 = IF vol.ends["ip"] THEN LastIndex(s) ELSE Len(s)

\* _ltfs_revalidate_mam, the label and EOD status; then both ends of data.
CheckPasses(t) ==
    CASE Cmd(t) = "label" -> medium # "other"
      [] Cmd(t) = "eod" -> medium # "noeod"
      [] Cmd(t) = "mam" -> medium # "touched"
      [] Cmd(t) = "seekeod" /\ Prt(t) = "dp" -> DpValid(th[t].saved["dp"])
      [] Cmd(t) = "seekeod" /\ Prt(t) = "ip" -> IpValid(th[t].saved["ip"])
      [] OTHER -> TRUE

\* tape_reserve_device and tape_load_tape repeat while told NEED_REVAL.
RevalRepeats(t) ==
    /\ th[t].pc = "rv_check" /\ th[t].todo # <<>>
    /\ Cmd(t) \in {"reserve", "load"} /\ attention = "changed"
    /\ attention' = "none"
    /\ UNCHANGED <<th, held, reval, vol, backend, tape, medium, seen, budget>>

RevalCheck(t) ==
    /\ th[t].pc = "rv_check" /\ th[t].todo # <<>>
    /\ attention = "none" /\ CheckPasses(t)
    /\ Advance(t)
    /\ LET at == CASE Cmd(t) = "load" -> At("ip", 0)
                   [] Cmd(t) = "label" -> At("dp", 1)
                   [] Cmd(t) = "seekeod" -> At(Prt(t), Len(tape.part[Prt(t)]))
                   [] OTHER -> vol.pos
       IN  /\ vol' = [vol EXCEPT !.pos = at,
                 !.append = CASE Cmd(t) = "load" -> [p \in Partitions |-> 0]
                              [] Cmd(t) = "seekeod" -> [@ EXCEPT ![Prt(t)] = th[t].saved[Prt(t)]]
                              [] OTHER -> @]
           /\ tape' = IF Cmd(t) \in {"load", "label", "seekeod"}
                      THEN [tape EXCEPT !.head = at, !.safe = tape.part] ELSE tape
    /\ UNCHANGED <<held, reval, backend, attention, medium, seen, budget>>


RevalFails(t) ==
    /\ th[t].pc = "rv_check" /\ th[t].todo # <<>>
    /\ \/ attention = "none" /\ ~CheckPasses(t)
       \/ attention = "changed" /\ Cmd(t) \notin {"reserve", "load"}
       \/ attention = "removal"
    /\ attention' = "none"
    /\ Goto(t, "rv_unfence")
    /\ UNCHANGED <<held, reval, vol, backend, tape, medium, seen, budget>>

\* out: release the fence, record the result, wake the waiters, unlock.
RevalUnfence(t) ==
    /\ \/ th[t].pc = "rv_unfence"
       \/ th[t].pc = "rv_check" /\ th[t].todo = <<>>
    /\ backend' = [backend EXCEPT !.fence = FALSE]
    /\ Goto(t, "rv_record")
    /\ UNCHANGED <<held, reval, vol, tape, attention, medium, seen, budget>>


RevalRecord(t) ==
    /\ th[t].pc = "rv_record"
    /\ reval' = IF th[t].todo = <<>> THEN "ok" ELSE "failed"
    /\ Goto(t, "rv_return")
    /\ UNCHANGED <<held, vol, backend, tape, attention, medium, seen, budget>>

\* releasewrite and back to the caller, who starts over or gives up; a failed
\* unmount clears the flag for the next mount.
RevalReturn(t) ==
    /\ th[t].pc = "rv_return"
    /\ ReleaseLock(t)
    /\ IF th[t].todo = <<>>
       THEN /\ th' = [th EXCEPT ![t].pc = "wait",
                                ![t].op = IF @ = "sync_write" THEN "sync" ELSE @]
            /\ UNCHANGED <<reval, vol>>
       ELSE /\ Return(t)
            /\ reval' = IF th[t].op = "unmount" THEN "ok" ELSE reval
            /\ vol' = [vol EXCEPT !.mounted = th[t].op # "unmount"]
    /\ UNCHANGED <<backend, tape, attention, medium, seen, budget>>

---------------------------------------------------------------------------
(* The drive and the people around it: external.                           *)

Raise(a) ==
    /\ budget.events < MaxEvents /\ vol.mounted /\ attention # "changed"
    /\ attention' = a
    /\ budget' = [budget EXCEPT !.events = @ + 1]

\* A reset drops what is still in the drive's buffer, wholly or from some
\* record on, and rewinds; the end-of-data mark may be lost with it.
AfterReset(p) ==
    LET k == Len(LongestCommonPrefix({tape.part[p], tape.safe[p]}))
    IN  {tape.safe[p]} \cup {SubSeq(tape.part[p], 1, n) : n \in k..Len(tape.part[p])}
Reset ==
    /\ Raise("changed")
    /\ \E s \in [Partitions -> UNION {AfterReset(p) : p \in Partitions}] :
         /\ \A p \in Partitions : s[p] \in AfterReset(p)
         /\ tape' = [part |-> s, safe |-> s, head |-> At("ip", 0)]
         /\ seen' = [seen EXCEPT !.lost = @ \cup {p \in Partitions : s[p] # tape.part[p]}]
         /\ medium' \in IF s # tape.part /\ medium = "ours" THEN {"ours", "noeod"} ELSE {medium}
    /\ UNCHANGED <<th, held, reval, vol, backend>>

\* The cartridge is taken out and one is put in: another, this one after
\* another host has written to it, or this one as it was.
Swap ==
    /\ Raise("changed")
    /\ medium' \in {"ours", "other", "touched"}
    /\ tape' = [tape EXCEPT !.safe = tape.part, !.head = At("ip", 0)]
    /\ UNCHANGED <<th, held, reval, vol, backend, seen>>

\* The eject button.
RemovalRequest ==
    /\ attention = "none" /\ Raise("removal")
    /\ UNCHANGED <<th, held, reval, vol, backend, tape, medium, seen>>

ThreadStep(t) ==
    \/ GetVolumeLockWait(t) \/ GetVolumeLockAcquire(t) \/ GetVolumeLockRecheck(t)
    \/ SyncPeek(t) \/ DeviceLock(t) \/ DeviceFenced(t) \/ WaitRevalidation(t)
    \/ ClearIndexEnd(t) \/ TapeSeek(t) \/ TapeWrite(t) \/ TapeQuery(t)
    \/ MamUpdateFails(t) \/ NeedReval(t) \/ UnexpectedMove(t)
    \/ Finish(t) \/ UnmountEnds(t)
    \/ RevalMark(t) \/ RevalUnlock(t) \/ RevalLock(t) \/ RevalStart(t)
    \/ RevalRepeats(t) \/ RevalCheck(t) \/ RevalFails(t)
    \/ RevalUnfence(t) \/ RevalRecord(t) \/ RevalReturn(t)

RevalNext ==
    \/ \E t \in RevalThreads : (\E op \in RevalOps : Call(t, op)) \/ ThreadStep(t)
    \/ Reset \/ Swap \/ RemovalRequest

\* Every thread inside libltfs keeps running.
RevalFairness == \A t \in RevalThreads : WF_revalVars(ThreadStep(t))
RevalSpec == RevalInit /\ [][RevalNext]_revalVars /\ RevalFairness

---------------------------------------------------------------------------
RevalTypeOK ==
    /\ held \in [RevalThreads -> {"none", "read", "write"}]
    /\ reval \in {"ok", "running", "failed"}
    /\ backend.owner \in RevalThreads \cup {NoThread}
    /\ attention \in {"none", "changed", "removal"}
    /\ medium \in {"ours", "other", "touched", "noeod"}
    /\ \A p \in Partitions \ seen.lost : vol.append[p] \in 0..Len(tape.part[p])

Revalidating(t) ==
    th[t].pc \in {"rv_mark", "rv_unlock", "rv_lock", "rv_start", "rv_check", "rv_unfence",
                  "rv_record", "rv_return"}

\* Once a thread has been told that the medium may have changed, no record is
\* written to a cartridge that is not the mounted one, and none at a place
\* other than the one libltfs has in mind, until revalidation has passed -
\* unless the attention was the one the MAM update threw away.
NoForeignWrite == seen.spoiled => seen.swallowed

\* A power-on reset that costs records buffered for the data partition is
\* never followed by normal operation: with the attention delivered and nobody
\* revalidating any more (EOD against append position), every call fails.
LossIsNoticed ==
    ("dp" \in seen.lost /\ vol.mounted /\ attention # "changed" /\ ~seen.swallowed)
        => reval # "ok" \/ \E t \in RevalThreads : Revalidating(t)

\* A write that is retried after revalidation leaves orphan blocks, but the
\* extent that is finally recorded points at this call's own blocks.
ExtentsPointAtData ==
    (seen.lost = {} /\ ~seen.swallowed) =>
        \A e \in seen.acked :
            LET s == tape.part[e.at.part] IN
            /\ e.at.block + 2 <= Len(s)
            /\ \A i \in {1, 2} : s[e.at.block + i] = Data(e.call)

\* While the device is fenced somebody is on the way to lift the fence, and
\* there is never a second revalidation under way.
FenceHasOwner ==
    /\ backend.fence => \E t \in RevalThreads : Revalidating(t)
    /\ reval = "running" => \E t \in RevalThreads : Revalidating(t)
    /\ \A t, u \in RevalThreads : (Revalidating(t) /\ Revalidating(u)) => t = u

\* A cartridge that is the mounted one, with everything on it and no further
\* attention, passes: a thread never leaves ltfs_revalidate with a failure
\* (ltfs.c: "Make sure the current position matches the cached append position").
SameMediumPasses ==
    \A t \in RevalThreads :
        ~(th[t].pc = "rv_unfence" /\ medium = "ours" /\ seen.lost = {} /\ budget.events <= 1)

\* "can't ignore POR, tape could have changed" (ltfs_write_index).
NoAttentionIgnored == ~seen.spoiled

\* Every call returns: nobody waits for a revalidation that does not end, for
\* a lock nobody gives back, or spins on the fence.
RevalCallsReturn == \A t \in RevalThreads : th[t].pc # "idle" ~> th[t].pc = "idle"

=============================================================================
