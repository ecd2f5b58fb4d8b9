------------------------------- MODULE Unified -------------------------------
(***************************************************************************)
(* The unified I/O scheduler (iosched/unified.c): clients that write, read,*)
(* flush, truncate, rename, unlink and close files, the background writer  *)
(* thread, the pool of cache blocks, and the locks between them.  A step is*)
(* a critical section: it ends where the code waits for a lock or a cache  *)
(* block, or issues a tape write while other threads may run.  Releasing   *)
(* locks is part of the step before it.                                    *)
(*                                                                         *)
(* Clients append to files and truncate them to nothing.  Offsets and      *)
(* lengths are in half cache blocks: a write of 2 fills a block            *)
(* (REQUEST_DP), a write of 1 leaves a REQUEST_PARTIAL until the next one  *)
(* fills it.  Each write has its own number, and data is the set of the    *)
(* writes it comes from.                                                   *)
(*                                                                         *)
(* unified_data.lock is the atomic lock of module RWLock, which the real   *)
(* lock implements (MrswProofs); queue_lock, cache_lock, write_error_lock  *)
(* and meta_lock protect parts of single steps and are not represented.    *)
(***************************************************************************)
EXTENDS Naturals, FiniteSets, Sequences, SequencesExt

CONSTANTS
    Clients,      \* threads that call the scheduler
    Files,        \* dentries
    None,
    CacheBlocks,  \* cache_blocks: blocks the pool can hold
    IpNames,      \* files whose name matches the index criteria at first
    MaxIpSize,    \* index_criteria_get_max_filesize, in half blocks
    Ops,          \* the calls the clients make; without "open" all handles exist at first
    Sizes,        \* lengths of writes, in half blocks
    Faults,       \* ways a tape write may fail
    MaxWrites,    \* bound: number of writes issued
    MaxFaults,    \* bound: number of tape writes that fail
    MaxChanges    \* bound: number of truncations, renames and unlinks

ASSUME CacheBlocksPositive == CacheBlocks \in Nat \ {0}
ASSUME SizesOK == Sizes \subseteq {1, 2}
ASSUME FaultsOK == Faults \subseteq {"less_space", "fatal", "transient"}
ASSUME BoundsOK == MaxIpSize \in Nat /\ MaxWrites \in Nat /\ MaxFaults \in Nat /\ MaxChanges \in Nat
ASSUME ThreadsOK ==
    /\ IsFiniteSet(Clients) /\ IsFiniteSet(Files)
    /\ "writer_thread" \notin Clients /\ None \notin Clients \cup Files \cup {"writer_thread"}

VARIABLES
    held,         \* who holds unified_data.lock, and how
    iosched_lock, \* per file: owner of dentry->iosched_lock
    io_lock,      \* per file: owner of dentry_priv->io_lock
    s,            \* what those locks protect, see Init
    dentry,       \* per file: linked into the tree, name matches criteria
    cache_requests, keepalive,
    pc, op, at, arg, spare, open, dirty, \* per client
    w,            \* the writer thread's local variables
    nwrites, nchanges,                   \* counters behind the bounds
    missing       \* per client: data its read or flush still has to reach

locks == <<held, iosched_lock, io_lock>>
calls == <<pc, op, at, arg>>
handles == <<open, dirty>>
bounds == <<nwrites, nchanges>>
vars == <<locks, s, dentry, cache_requests, keepalive, calls, spare, handles, w, bounds, missing>>

Writer == "writer_thread"
Threads == Clients \cup {Writer}
Queues == {"PARTIAL", "DP", "IP"}

\* A freshly allocated (calloc) dentry_priv; "on" tells whether iosched_priv is set.
NewDpr(on, size, ip) ==
    [on |-> on, reqs |-> <<>>, file_size |-> size, write_ip |-> ip, write_error |-> "ok",
     alt |-> FALSE, inq |-> [q \in Queues |-> 0]]
NoDpr == NewDpr(FALSE, 0, FALSE)
NoArg == [n |-> 0, id |-> 0, off |-> 0]
IdleWriter == [pc |-> "idle", queue |-> "DP", left |-> 0, file |-> None, local |-> <<>>, error |-> "ok"]

Init ==
    /\ held = [t \in Threads |-> "none"]
    /\ iosched_lock = [f \in Files |-> None]
    /\ io_lock = [f \in Files |-> None]
    /\ s = [dpr |-> [f \in Files |-> NoDpr],          \* dentry->iosched_priv
            queue |-> [q \in Queues |-> {}],           \* working_set, dp_queue, ip_queue
            ext_queue |-> {},
            count |-> [q \in Queues |-> 0],            \* ws_, dp_ and ip_request_count
            free |-> CacheBlocks,                      \* blocks the pool can still give out
            tape |-> [f \in Files |-> {}],             \* data of the file's extents
            size |-> [f \in Files |-> 0],              \* dentry->size
            less |-> {}, broken |-> FALSE,             \* partition_space, device write_error
            nfaults |-> 0,                             \* counter behind MaxFaults
            written |-> [f \in Files |-> {}]]          \* data the scheduler answers for
    /\ dentry = [f \in Files |-> [linked |-> TRUE, matches |-> f \in IpNames]]
    /\ cache_requests = 0
    /\ keepalive = TRUE
    /\ pc = [c \in Clients |-> "idle"]
    /\ op = [c \in Clients |-> "none"]
    /\ at = [c \in Clients |-> None]
    /\ arg = [c \in Clients |-> NoArg]
    /\ spare = [c \in Clients |-> FALSE]
    /\ open = [c \in Clients |-> IF "open" \in Ops THEN {} ELSE Files]
    /\ dirty = [c \in Clients |-> {}]
    /\ w = IdleWriter
    /\ nwrites = 0 /\ nchanges = 0
    /\ missing = [c \in Clients |-> {}]

----------------------------------------------------------------------------
(* Helpers on the protected state: each takes and returns a value of s. *)
End(r) == r.off + r.n
Ids(reqs) == UNION {reqs[i].ids : i \in DOMAIN reqs}
NumIn(reqs, states) == Cardinality({i \in DOMAIN reqs : reqs[i].state \in states})
Without(reqs, states) ==
    LET Kept[i \in 0 .. Len(reqs)] ==
            IF i = 0 THEN <<>>
            ELSE IF reqs[i].state \in states THEN Kept[i - 1] ELSE Append(Kept[i - 1], reqs[i])
    IN  Kept[Len(reqs)]
FreeBlocks(st, n) == [st EXCEPT !.free = @ + n]

\* write_ip hides a file's DP requests from dp_request_count.
Counted(st, q, f) == ~(q = "DP" /\ st.dpr[f].write_ip)

(* _unified_update_queue_membership: add one, remove one, remove all. *)
AddQ(st, q, f) ==
    [st EXCEPT !.queue[q] = @ \cup {f},
               !.dpr[f].inq[q] = @ + 1,
               !.count[q] = IF Counted(st, q, f) THEN @ + 1 ELSE @]
DelQ(st, q, f) ==
    LET n == st.dpr[f].inq[q] IN
    [st EXCEPT !.queue[q] = IF n = 1 THEN @ \ {f} ELSE @,
               !.dpr[f].inq[q] = IF n > 0 THEN n - 1 ELSE 0,
               !.count[q] = IF n > 0 /\ Counted(st, q, f) THEN @ - 1 ELSE @]
ClearQ(st, q, f) ==
    LET n == st.dpr[f].inq[q] IN
    [st EXCEPT !.queue[q] = IF n > 0 THEN @ \ {f} ELSE @,
               !.dpr[f].inq[q] = 0,
               !.count[q] = IF Counted(st, q, f) THEN @ - n ELSE @]
ClearDpQueues(st, f) == ClearQ(ClearQ(st, "DP", f), "PARTIAL", f)
\* Take f off the queues for the given states, if it has requests at all.
ClearIf(st, q, f, states) == IF q \in states THEN ClearQ(st, q, f) ELSE st
Unqueue(st, f, states) ==
    IF st.dpr[f].reqs = <<>> THEN st
    ELSE ClearIf(ClearIf(ClearIf(st, "DP", f, states), "PARTIAL", f, states), "IP", f, states)

(* Drop from f's list the requests in the given states, freeing their blocks. *)
DropReqs(st, f, states) ==
    LET keep == Without(st.dpr[f].reqs, states)
    IN  [FreeBlocks(st, Len(st.dpr[f].reqs) - Len(keep)) EXCEPT !.dpr[f].reqs = keep]

(* _unified_set_write_ip and _unified_unset_write_ip *)
SetWriteIp(st, f) ==
    [st EXCEPT !.dpr[f].write_ip = TRUE, !.count["DP"] = @ - st.dpr[f].inq["DP"]]
UnsetWriteIp_DropsAll(st, f) ==
    LET off == [st EXCEPT !.dpr[f].write_ip = FALSE, !.count["DP"] = @ + st.dpr[f].inq["DP"]]
    IN  [DropReqs(Unqueue(off, f, Queues), f, Queues) EXCEPT
            !.ext_queue = @ \ {f}, !.dpr[f].alt = FALSE]
UnsetWriteIp_StaysHidden(st, f) ==
    LET off == [st EXCEPT !.dpr[f].write_ip = FALSE]
        dropped == IF off.dpr[f].inq["IP"] > 0
                   THEN ClearQ(DropReqs(off, f, {"IP"}), "IP", f) ELSE off
    IN  [dropped EXCEPT !.ext_queue = IF off.dpr[f].alt THEN @ \ {f} ELSE @, !.dpr[f].alt = FALSE]
UnsetWriteIp(st, f) ==
    LET off == [st EXCEPT !.dpr[f].write_ip = FALSE]
        dropped == IF off.dpr[f].inq["IP"] > 0
                   THEN ClearQ(DropReqs(off, f, {"IP"}), "IP", f) ELSE off
    IN  [dropped EXCEPT !.count["DP"] = @ + off.dpr[f].inq["DP"],
                        !.ext_queue = IF off.dpr[f].alt THEN @ \ {f} ELSE @,
                        !.dpr[f].alt = FALSE]
(* The placement rule shared by unified_truncate and unified_update_data_placement. *)
UpdatePlacement(st, f) ==
    LET d == st.dpr[f]
        fits == d.file_size <= MaxIpSize /\ dentry[f].matches /\ dentry[f].linked
    IN  CASE ~d.write_ip /\ MaxIpSize > 0 /\ fits -> SetWriteIp(st, f)
          [] d.write_ip /\ ~fits -> UnsetWriteIp(st, f)
          [] OTHER -> st

(* A data write to partition p of a drive that is past programmable early
   warning there, or that had a hard error, is refused (ltfs_get_partition_readonly). *)
Refuses(st, p) == st.broken \/ p \in st.less
Refusal(st) == IF st.broken THEN "fatal" ELSE "less_space"
Damage(st, p, e) ==
    [st EXCEPT !.less = IF e = "less_space" THEN @ \cup {p} ELSE @,
               !.broken = @ \/ e = "fatal",
               !.nfaults = IF Refuses(st, p) THEN @ ELSE @ + 1]
(* What becomes of n writes to p for file f: a plan names the file and the
   write at which the tape fails. *)
NoFault == [at |-> None, ok |-> 0, e |-> "ok"]
Plans(st) == {NoFault} \cup
             IF st.nfaults < MaxFaults THEN [at : Files, ok : 0 .. CacheBlocks - 1, e : Faults] ELSE {}
Outcome(st, p, n, f, plan) ==
    CASE n = 0 -> [ok |-> 0, e |-> "ok"]
      [] n > 0 /\ Refuses(st, p) -> [ok |-> 0, e |-> Refusal(st)]
      [] n > 0 /\ ~Refuses(st, p) /\ plan.at = f /\ plan.ok < n -> [ok |-> plan.ok, e |-> plan.e]
      [] OTHER -> [ok |-> n, e |-> "ok"]

\* Data of f that is on the tape or in its request list.
Held(st, f) == st.tape[f] \cup Ids(st.dpr[f].reqs)

(* _unified_handle_write_error for a request that was in state rs.  The error
   is recorded unless the index partition is merely short of space.  Requests
   for the failed partition are dropped, and those for the other one if it
   cannot be written either.  Once an error is recorded the scheduler no
   longer answers for what it dropped. *)
RecordError(st, f, rs, e) ==
    [st EXCEPT !.dpr[f].write_error = IF @ = "ok" /\ ~(rs = "IP" /\ e = "less_space") THEN e ELSE @]
HandleError(st, f, rs, e) ==
    LET other == IF rs = "IP" THEN "DP" ELSE "IP"
        both == e # "less_space" \/ Refuses(st, other)
        states == CASE both -> Queues
                    [] ~both /\ rs = "IP" -> {"IP"}
                    [] OTHER -> {"DP", "PARTIAL"}
        kept == DropReqs(Unqueue(RecordError(st, f, rs, e), f, states), f, states)
        ends == {End(kept.dpr[f].reqs[i]) : i \in DOMAIN kept.dpr[f].reqs}
    IN  [kept EXCEPT !.dpr[f].file_size = Max(ends \cup {st.size[f]}),
                     !.written[f] = IF kept.dpr[f].write_error # "ok" THEN @ \cap Held(kept, f) ELSE @]
\* _unified_get_write_error: the caller is told and the code is reset.
Tell(st, f) == [st EXCEPT !.dpr[f].write_error = "ok"]

(* A request reaches the data partition: ltfs_fsraw_write. *)
ToTape(st, f, r) ==
    [st EXCEPT !.tape[f] = @ \cup r.ids, !.size[f] = Max({@, End(r)})]

(* _unified_merge_requests for an IP request and the one before it: they are
   merged only if that one also waits for the index partition and has room. *)
MergeIp(acc, f, r) ==
    LET k == Len(acc.out)
        joins == k > 0 /\ acc.out[k].state = "IP" /\ acc.out[k].n = 1 /\ End(acc.out[k]) = r.off
        merged == [acc.out EXCEPT ![k].n = 2, ![k].ids = @ \cup r.ids]
    IN  CASE ~joins -> [acc EXCEPT !.out = Append(@, r)]
          [] joins /\ r.n = 1 -> [acc EXCEPT !.out = merged, !.st = FreeBlocks(DelQ(@, "IP", f), 1)]
          [] OTHER -> [acc EXCEPT !.out = Append(merged, [r EXCEPT !.off = @ + 1, !.n = 1])]

(* The loop of _unified_flush_unlocked and of _unified_process_data_queue over
   a file's requests.  Requests in "states" are written to the data partition;
   with toLocal they are moved to the writer's private list instead, unless
   the file is also to be written to the index partition.  The tape accepts
   "ok" writes and then fails, if there is another one. *)
WalkOne(acc, f, states, toLocal, r) ==
    LET ip == acc.st.dpr[f].write_ip
        later == toLocal /\ ~ip
        done == [acc EXCEPT !.ok = @ - 1, !.st = ToTape(@, f, r)]
    IN  IF acc.failed # <<>> \/ r.state \notin states \cup {"IP"} THEN [acc EXCEPT !.out = Append(@, r)]
        ELSE CASE r.state = "IP" -> MergeIp(acc, f, r)
               [] r.state # "IP" /\ later -> [acc EXCEPT !.local = Append(@, r)]
               [] r.state # "IP" /\ ~later /\ acc.ok = 0 -> [acc EXCEPT !.out = Append(@, r), !.failed = <<r>>]
               [] r.state # "IP" /\ ~later /\ acc.ok # 0 ->
                     IF ip THEN MergeIp([done EXCEPT !.st = AddQ(@, "IP", f)], f, [r EXCEPT !.state = "IP"])
                     ELSE [done EXCEPT !.st = FreeBlocks(@, 1)]
WalkReqs(st, f, states, toLocal, ok) ==
    LET reqs == st.dpr[f].reqs
        Walk[i \in 0 .. Len(reqs)] ==
            IF i = 0 THEN [st |-> st, out |-> <<>>, local |-> <<>>, failed |-> <<>>, ok |-> ok]
            ELSE WalkOne(Walk[i - 1], f, states, toLocal, reqs[i])
        all == Walk[Len(reqs)]
    IN  [all EXCEPT !.st.dpr[f].reqs = all.out]

(* _unified_flush_unlocked once it has found requests and taken io_lock. *)
FlushOne(st, f, plan) ==
    LET o == Outcome(st, "DP", NumIn(st.dpr[f].reqs, {"DP", "PARTIAL"}), f, plan)
        walk == WalkReqs(ClearDpQueues(st, f), f, {"DP", "PARTIAL"}, FALSE, o.ok)
    IN  IF o.e = "ok" THEN walk.st
        ELSE HandleError(Damage(walk.st, "DP", o.e), f, Head(walk.failed).state, o.e)

(* _unified_flush_all over the files of the DP queue and then of the working
   set, stopping at the first error, which is returned. *)
FlushNext(acc, f, plan) ==
    LET done == FlushOne(acc.st, f, plan)
    IN  IF acc.failed THEN acc
        ELSE IF acc.st.dpr[f].write_error # "ok" THEN [st |-> Tell(acc.st, f), failed |-> TRUE]
        ELSE [st |-> Tell(done, f), failed |-> done.dpr[f].write_error # "ok"]
FlushAll(st, order, plan) ==
    LET Flushed[i \in 0 .. Len(order)] ==
            IF i = 0 THEN [st |-> st, failed |-> FALSE] ELSE FlushNext(Flushed[i - 1], order[i], plan)
    IN  Flushed[Len(order)]
FlushOrders_DpOnly(st) == SetToSeqs(st.queue["DP"])
FlushOrders(st) ==
    UNION {{d \o p : p \in SetToSeqs(st.queue["PARTIAL"] \ st.queue["DP"])} : d \in SetToSeqs(st.queue["DP"])}

----------------------------------------------------------------------------
(* Reference counting of dentries. *)
Refs(f) == Cardinality({c \in Clients : f \in open[c]})
           + Cardinality({c \in Clients : at[c] = f /\ op[c] \in {"rename", "unlink"}})
NumHandles(st, f) ==
    Refs(f) + (IF dentry[f].linked THEN 1 ELSE 0) + (IF st.dpr[f].on THEN 1 ELSE 0)
\* The test of _unified_free_dentry_priv_conditional.
Freeable(st, f, target) ==
    /\ st.dpr[f].on
    /\ NumHandles(st, f) <= target
    /\ st.dpr[f].reqs = <<>>
    /\ ~st.dpr[f].alt
FreeDpr(st, f) == [st EXCEPT !.dpr[f] = NoDpr]

(* _unified_process_index_queue for one file: write its IP requests to the
   index partition, remember the extents, free the dentry_priv if it can be. *)
\* The list without its first ok IP requests.
Unsent(reqs, ok) ==
    LET Left[i \in 0 .. Len(reqs)] ==
            IF i = 0 THEN [ok |-> ok, keep |-> <<>>]
            ELSE IF reqs[i].state = "IP" /\ Left[i - 1].ok > 0
                 THEN [Left[i - 1] EXCEPT !.ok = @ - 1]
                 ELSE [Left[i - 1] EXCEPT !.keep = Append(@, reqs[i])]
    IN  Left[Len(reqs)].keep
IndexOne(st, f, plan) ==
    LET n == NumIn(st.dpr[f].reqs, {"IP"})
        o == Outcome(st, "IP", n, f, plan)
        out == ClearQ(st, "IP", f)
        moved == [FreeBlocks(out, o.ok) EXCEPT
                     !.dpr[f].reqs = Unsent(st.dpr[f].reqs, o.ok),
                     !.ext_queue = IF o.ok > 0 /\ ~st.dpr[f].alt THEN @ \cup {f} ELSE @,
                     !.dpr[f].alt = @ \/ o.ok > 0]
        done == IF o.e = "ok" THEN moved ELSE HandleError(Damage(moved, "IP", o.e), f, "IP", o.e)
    IN  IF Freeable(done, f, 2) THEN FreeDpr(done, f) ELSE done
IndexAll(st, order, plan) ==
    LET Written[i \in 0 .. Len(order)] ==
            IF i = 0 THEN st ELSE IndexOne(Written[i - 1], order[i], plan)
    IN  Written[Len(order)]

\* Data of f in the writer's private list: on its way, or failed and not yet recorded.
InFlight(f) == IF w.file = f THEN Ids(w.local) ELSE {}
Live(f) == Held(s, f) \cup InFlight(f)
Reachable(f) == IF w.pc = "send" THEN Live(f) ELSE Held(s, f)
Goto(c, p) == pc' = [pc EXCEPT ![c] = p]

----------------------------------------------------------------------------
(* Clients.  The kernel holds the inode lock while it writes or truncates a
   file, so those calls on one file never overlap. *)
Serialised(f) == \A c \in Clients : ~(at[c] = f /\ op[c] \in {"write", "truncate"})
\* unified_get_filesize
GetFilesize(f) == IF s.dpr[f].on THEN s.dpr[f].file_size ELSE s.size[f]

Open(c, f) ==
    /\ pc[c] = "idle" /\ keepalive /\ "open" \in Ops
    /\ dentry[f].linked
    /\ f \notin open[c]
    /\ open' = [open EXCEPT ![c] = @ \cup {f}]
    /\ UNCHANGED <<locks, s, dentry, cache_requests, keepalive, calls, spare, dirty, w, bounds, missing>>

Call(c, o, f, p) ==
    /\ pc[c] = "idle" /\ keepalive
    /\ o \in Ops
    /\ op' = [op EXCEPT ![c] = o]
    /\ at' = [at EXCEPT ![c] = f]
    /\ Goto(c, p)
    /\ UNCHANGED <<locks, s, cache_requests, keepalive, spare, handles, w, missing>>

CallWrite(c, f, n) ==
    /\ f \in open[c] /\ Serialised(f)
    /\ nwrites < MaxWrites
    /\ nwrites' = nwrites + 1
    /\ arg' = [arg EXCEPT ![c] = [n |-> n, id |-> nwrites + 1, off |-> GetFilesize(f)]]
    /\ Call(c, "write", f, "lock")
    /\ UNCHANGED <<dentry, nchanges>>

CallRead(c, f) ==
    /\ f \in open[c]
    /\ Call(c, "read", f, "lock")
    /\ UNCHANGED <<dentry, arg, bounds>>

\* _ltfs_fuse_do_flush calls the scheduler only if this handle wrote.
CallFlush(c, f) ==
    /\ f \in open[c] /\ f \in dirty[c]
    /\ Call(c, "flush", f, "lock")
    /\ UNCHANGED <<dentry, arg, bounds>>

CallClose(c, f) ==
    /\ f \in open[c]
    /\ Call(c, "close", f, "lock")
    /\ UNCHANGED <<dentry, arg, bounds>>

Change(c, o, f) ==
    /\ nchanges < MaxChanges
    /\ nchanges' = nchanges + 1
    /\ Call(c, o, f, "lock")
    /\ UNCHANGED <<arg, nwrites>>

\* Refused on a read-only medium (ltfs_get_tape_readonly).
CallTruncate(c, f) ==
    /\ f \in open[c] /\ Serialised(f)
    /\ ~Refuses(s, "DP")
    /\ Change(c, "truncate", f)
    /\ UNCHANGED dentry

(* ltfs_fsops_rename and ltfs_fsops_unlink change the dentry and then call
   unified_update_data_placement. *)
CallRename(c, f) ==
    /\ dentry[f].linked
    /\ dentry' = [dentry EXCEPT ![f].matches = ~@]
    /\ Change(c, "rename", f)
CallUnlink(c, f) ==
    /\ dentry[f].linked
    /\ dentry' = [dentry EXCEPT ![f].linked = FALSE]
    /\ Change(c, "unlink", f)

\* unified_flush(NULL), from the periodic sync thread and from unmount.
CallFlushAll(c) ==
    /\ Call(c, "flush_all", None, "flush_all")
    /\ UNCHANGED <<dentry, arg, bounds>>

----------------------------------------------------------------------------
ReadLockFree == \A t \in Threads : held[t] # "write"
WriteLockFree == \A t \in Threads : held[t] = "none"

AcquireRead(c) ==
    /\ pc[c] = "lock"
    /\ ReadLockFree
    /\ held' = [held EXCEPT ![c] = "read"]
    /\ Goto(c, "iosched")
    /\ UNCHANGED <<iosched_lock, io_lock, s, dentry, cache_requests, keepalive, op, at, arg, spare,
                   handles, w, bounds, missing>>

LockIosched(c) ==
    /\ pc[c] = "iosched"
    /\ iosched_lock[at[c]] = None
    /\ iosched_lock' = [iosched_lock EXCEPT ![at[c]] = c]
    /\ Goto(c, CASE op[c] = "close" -> IF at[c] \in dirty[c] THEN "flush" ELSE "free"
                 [] op[c] \in {"rename", "unlink"} -> "placement"
                 [] OTHER -> op[c])
    /\ UNCHANGED <<held, io_lock, s, dentry, cache_requests, keepalive, op, at, arg, spare,
                   handles, w, bounds, missing>>

(* The common exit: iosched_lock and unified_data.lock are released.  Calls
   that still hold a handle on the dentry give it back in Return. *)
Leave(c) ==
    LET more == op[c] \in {"close", "rename", "unlink"} IN
    /\ iosched_lock' = [f \in Files |-> IF iosched_lock[f] = c THEN None ELSE iosched_lock[f]]
    /\ held' = [held EXCEPT ![c] = "none"]
    /\ Goto(c, IF more THEN "return" ELSE "idle")
    /\ op' = IF more THEN op ELSE [op EXCEPT ![c] = "none"]
    /\ at' = IF more THEN at ELSE [at EXCEPT ![c] = None]
    /\ arg' = [arg EXCEPT ![c] = NoArg]
    /\ missing' = [missing EXCEPT ![c] = {}]

(* ltfs_fsraw_close after a close; fs_release_dentry for the handle that
   rename and unlink took for the lookup. *)
Return(c) ==
    /\ pc[c] = "return"
    /\ open' = IF op[c] = "close" THEN [open EXCEPT ![c] = @ \ {at[c]}] ELSE open
    /\ dirty' = IF op[c] = "close" THEN [dirty EXCEPT ![c] = @ \ {at[c]}] ELSE dirty
    /\ op' = [op EXCEPT ![c] = "none"]
    /\ at' = [at EXCEPT ![c] = None]
    /\ Goto(c, "idle")
    /\ UNCHANGED <<locks, s, dentry, cache_requests, keepalive, arg, spare, w, bounds, missing>>

----------------------------------------------------------------------------
(* unified_write *)

\* _unified_get_dentry_priv
WithDpr(st, f) ==
    IF st.dpr[f].on THEN st
    ELSE [st EXCEPT !.dpr[f] =
             NewDpr(TRUE, st.size[f], dentry[f].matches /\ MaxIpSize > 0 /\ st.size[f] <= MaxIpSize)]

(* A recorded error is returned instead of taking the data.  This exit keeps
   a cache block the call may have waited for. *)
WriteError(c) ==
    LET st == WithDpr(s, at[c]) IN
    /\ pc[c] = "write"
    /\ st.dpr[at[c]].write_error # "ok"
    /\ s' = Tell(st, at[c])
    /\ spare' = [spare EXCEPT ![c] = FALSE]
    /\ Leave(c)
    /\ UNCHANGED <<io_lock, dentry, cache_requests, keepalive, handles, w, bounds>>

\* The medium is read-only, or short of space; tested before the first block only.
WriteRefused(c) ==
    LET st == WithDpr(s, at[c]) IN
    /\ pc[c] = "write" /\ ~spare[c]
    /\ st.dpr[at[c]].write_error = "ok"
    /\ Refuses(s, "DP")
    /\ s' = st
    /\ Leave(c)
    /\ UNCHANGED <<io_lock, dentry, cache_requests, keepalive, spare, handles, w, bounds>>

(* What the write has to do: fill the last request if it is still open
   (_unified_update_request), then a new request for the rest
   (_unified_insert_new_request). *)
Placed(c) ==
    LET f == at[c]  st == WithDpr(s, f) IN
    IF st.dpr[f].write_ip /\ (arg[c].off + arg[c].n > MaxIpSize \/ "IP" \in s.less)
    THEN UnsetWriteIp(st, f) ELSE st
Fills(st, c) ==
    LET reqs == st.dpr[at[c]].reqs  k == Len(reqs) IN
    k > 0 /\ reqs[k].n = 1 /\ End(reqs[k]) = arg[c].off /\ reqs[k].state # "IP"
Fill(st, c) ==
    LET f == at[c]  k == Len(st.dpr[f].reqs)
        r == [st.dpr[f].reqs[k] EXCEPT !.n = 2, !.ids = @ \cup {arg[c].id}, !.state = "DP"]
        full == [st EXCEPT !.dpr[f].reqs = [@ EXCEPT ![k] = r], !.dpr[f].file_size = Max({@, arg[c].off + 1})]
    IN  IF st.dpr[f].reqs[k].state = "PARTIAL" THEN AddQ(DelQ(full, "PARTIAL", f), "DP", f) ELSE full
NewRequest(st, f, off, n, id) ==
    LET kind == IF n = 2 THEN "DP" ELSE "PARTIAL"
        r == [off |-> off, n |-> n, state |-> kind, ids |-> {id}]
    IN  AddQ([st EXCEPT !.dpr[f].reqs = Append(@, r), !.dpr[f].file_size = Max({@, off + n})], kind, f)

Write(c) ==
    LET f == at[c]
        st == Placed(c)
        filled == IF Fills(st, c) THEN 1 ELSE 0
        st1 == IF Fills(st, c) THEN Fill(st, c) ELSE st
        off == arg[c].off + filled
        n == arg[c].n - filled
        Accept(x) == s' = [x EXCEPT !.written[f] = @ \cup {arg[c].id}]
    IN
    /\ pc[c] = "write"
    /\ st.dpr[f].write_error = "ok"
    /\ spare[c] \/ ~Refuses(s, "DP")
    /\ \/ /\ n = 0                                          \* all of it fitted
          /\ Accept(IF spare[c] THEN FreeBlocks(st1, 1) ELSE st1)
          /\ spare' = [spare EXCEPT ![c] = FALSE]
          /\ dirty' = [dirty EXCEPT ![c] = @ \cup {f}]
          /\ Leave(c)
          /\ UNCHANGED cache_requests
       \/ /\ n > 0 /\ (spare[c] \/ st1.free > 0)            \* a new request
          /\ Accept(NewRequest(IF spare[c] THEN st1 ELSE [st1 EXCEPT !.free = @ - 1], f, off, n, arg[c].id))
          /\ spare' = [spare EXCEPT ![c] = FALSE]
          /\ dirty' = [dirty EXCEPT ![c] = @ \cup {f}]
          /\ Leave(c)
          /\ UNCHANGED cache_requests
       \/ /\ n > 0 /\ ~spare[c] /\ st1.free = 0             \* _unified_cache_alloc: pressure
          /\ s' = st1
          /\ arg' = [arg EXCEPT ![c].off = off, ![c].n = n]
          /\ iosched_lock' = [iosched_lock EXCEPT ![f] = None]
          /\ held' = [held EXCEPT ![c] = "none"]
          /\ cache_requests' = cache_requests + 1
          /\ Goto(c, "wait")
          /\ UNCHANGED <<op, at, spare, dirty, missing>>
    /\ UNCHANGED <<io_lock, dentry, keepalive, open, w, bounds>>

\* A block was freed and cache_cond signalled.
WakeWithBlock(c) ==
    /\ pc[c] = "wait"
    /\ s.free > 0
    /\ s' = [s EXCEPT !.free = @ - 1]
    /\ spare' = [spare EXCEPT ![c] = TRUE]
    /\ Goto(c, "relock")
    /\ UNCHANGED <<locks, dentry, cache_requests, keepalive, op, at, arg, handles, w, bounds, missing>>

Relock(c) ==
    /\ pc[c] = "relock"
    /\ ReadLockFree
    /\ held' = [held EXCEPT ![c] = "read"]
    /\ cache_requests' = cache_requests - 1
    /\ Goto(c, "iosched")
    /\ UNCHANGED <<iosched_lock, io_lock, s, dentry, keepalive, op, at, arg, spare, handles, w,
                   bounds, missing>>

----------------------------------------------------------------------------
(* unified_flush of one file, and the flush inside unified_close *)
FlushEnds(c) == Goto(c, "flush_done") /\ UNCHANGED <<held, iosched_lock, op, at, arg>>

\* The flush returns an error: a close goes on, a flush returns.
FlushFails(c) ==
    IF op[c] = "close"
    THEN /\ Goto(c, "free")
         /\ UNCHANGED <<held, iosched_lock, op, at, arg, missing>>
    ELSE Leave(c)

FlushBody(c) ==
    LET f == at[c]  d == s.dpr[f] IN
    /\ pc[c] = "flush"
    /\ \/ /\ d.on /\ d.write_error # "ok"
          /\ s' = Tell(s, f)
          /\ FlushFails(c)
          /\ UNCHANGED dirty
       \/ /\ ~d.on \/ (d.write_error = "ok" /\ d.reqs = <<>>)
          /\ missing' = [missing EXCEPT ![c] = Live(f) \ s.tape[f]]
          /\ dirty' = [dirty EXCEPT ![c] = @ \ {f}]
          /\ FlushEnds(c)
          /\ UNCHANGED s
       \/ /\ d.on /\ d.write_error = "ok" /\ d.reqs # <<>>
          /\ io_lock[f] = None
          /\ \E plan \in Plans(s) :
                LET done == FlushOne(s, f, plan) IN
                /\ s' = Tell(done, f)
                /\ IF done.dpr[f].write_error = "ok"
                   THEN /\ missing' = [missing EXCEPT ![c] = Live(f) \ done.tape[f]]
                        /\ dirty' = [dirty EXCEPT ![c] = @ \ {f}]
                        /\ FlushEnds(c)
                   ELSE FlushFails(c) /\ UNCHANGED dirty
    /\ UNCHANGED <<io_lock, dentry, cache_requests, keepalive, spare, open, w, bounds>>

FlushReturn(c) ==
    /\ pc[c] = "flush_done" /\ op[c] = "flush"
    /\ Leave(c)
    /\ UNCHANGED <<io_lock, s, dentry, cache_requests, keepalive, spare, handles, w, bounds>>

(* The rest of unified_close: _unified_get_write_error and the test of
   _unified_free_dentry_priv_conditional; then wait for io_lock and free. *)
FreeCheck(c) ==
    LET told == IF s.dpr[at[c]].on THEN Tell(s, at[c]) ELSE s IN
    /\ pc[c] = "free" \/ (pc[c] = "flush_done" /\ op[c] = "close")
    /\ s' = told
    /\ IF Freeable(told, at[c], 3)
       THEN /\ Goto(c, "free_io")
            /\ missing' = [missing EXCEPT ![c] = {}]
            /\ UNCHANGED <<held, iosched_lock, op, at, arg>>
       ELSE Leave(c)
    /\ UNCHANGED <<io_lock, dentry, cache_requests, keepalive, spare, handles, w, bounds>>

FreeIo(c) ==
    /\ pc[c] = "free_io"
    /\ io_lock[at[c]] = None
    /\ s' = FreeDpr(s, at[c])
    /\ Leave(c)
    /\ UNCHANGED <<io_lock, dentry, cache_requests, keepalive, spare, handles, w, bounds>>

\* _unified_flush_all for a client; on success "flushed" is its return.
FlushAllBody(c) ==
    /\ pc[c] = "flush_all"
    /\ WriteLockFree
    /\ \E order \in FlushOrders(s), plan \in Plans(s) :
          LET all == FlushAll(s, order, plan) IN
          /\ s' = all.st
          /\ Goto(c, IF all.failed THEN "flush_failed" ELSE "flushed")
          /\ held' = [held EXCEPT ![c] = "write"]
    /\ UNCHANGED <<iosched_lock, io_lock, dentry, cache_requests, keepalive, op, at, arg, spare,
                   handles, w, bounds, missing>>

FlushAllReturn(c) ==
    /\ pc[c] \in {"flushed", "flush_failed"}
    /\ Leave(c)
    /\ UNCHANGED <<io_lock, s, dentry, cache_requests, keepalive, spare, handles, w, bounds>>

----------------------------------------------------------------------------
(* unified_truncate to length 0 *)
Emptied(st, f) ==
    LET reqs == st.dpr[f].reqs
        Out[i \in 0 .. Len(reqs)] == IF i = 0 THEN st ELSE DelQ(Out[i - 1], reqs[i].state, f)
    IN  DropReqs(Out[Len(reqs)], f, Queues)
TruncBody(c) ==
    LET f == at[c]
        cut == [Emptied(s, f) EXCEPT !.dpr[f].alt = FALSE, !.dpr[f].file_size = 0, !.written[f] = {}]
    IN
    /\ pc[c] = "truncate"
    /\ IF s.dpr[f].on
       THEN /\ s' = UpdatePlacement(IF s.dpr[f].file_size > 0 THEN cut
                                    ELSE [s EXCEPT !.written[f] = {}], f)
            /\ Goto(c, "trunc_io")
            /\ UNCHANGED <<held, iosched_lock>>
       ELSE /\ s' = [s EXCEPT !.written[f] = {}]
            /\ Goto(c, "trunc_raw")
            /\ held' = [held EXCEPT ![c] = "none"]
            /\ iosched_lock' = [iosched_lock EXCEPT ![f] = None]
    /\ UNCHANGED <<io_lock, dentry, cache_requests, keepalive, op, at, arg, spare, handles, w,
                   bounds, missing>>

TruncTape_NoIoLock(c) ==
    /\ pc[c] \in {"trunc_raw", "trunc_io"}
    /\ s' = [s EXCEPT !.tape[at[c]] = {}, !.size[at[c]] = 0]
    /\ Leave(c)
    /\ UNCHANGED <<io_lock, dentry, cache_requests, keepalive, spare, handles, w, bounds>>
\* ltfs_fsraw_truncate, under io_lock if there is a dentry_priv.
TruncTape(c) ==
    /\ pc[c] = "trunc_raw" \/ (pc[c] = "trunc_io" /\ io_lock[at[c]] = None)
    /\ s' = [s EXCEPT !.tape[at[c]] = {}, !.size[at[c]] = 0]
    /\ Leave(c)
    /\ UNCHANGED <<io_lock, dentry, cache_requests, keepalive, spare, handles, w, bounds>>

(* unified_update_data_placement *)
Placement(c) ==
    /\ pc[c] = "placement"
    /\ s' = IF s.dpr[at[c]].on THEN UpdatePlacement(s, at[c]) ELSE s
    /\ Leave(c)
    /\ UNCHANGED <<io_lock, dentry, cache_requests, keepalive, spare, handles, w, bounds>>

----------------------------------------------------------------------------
(* unified_read of the whole file: data in cached requests first; then, under
   io_lock if there is a dentry_priv, what is on the tape. *)
ReadCache(c) ==
    /\ pc[c] = "read"
    /\ missing' = [missing EXCEPT ![c] = Reachable(at[c]) \ Ids(s.dpr[at[c]].reqs)]
    /\ Goto(c, "read_tape")
    /\ UNCHANGED <<locks, s, dentry, cache_requests, keepalive, op, at, arg, spare, handles, w, bounds>>

ReadTape_NoIoLock(c) ==
    /\ pc[c] = "read_tape"
    /\ missing' = [missing EXCEPT ![c] = @ \ s.tape[at[c]]]
    /\ iosched_lock' = [iosched_lock EXCEPT ![at[c]] = None]
    /\ Goto(c, "read_done")
    /\ UNCHANGED <<held, io_lock, s, dentry, cache_requests, keepalive, op, at, arg, spare,
                   handles, w, bounds>>
ReadTape(c) ==
    /\ pc[c] = "read_tape"
    /\ s.dpr[at[c]].on => io_lock[at[c]] = None
    /\ missing' = [missing EXCEPT ![c] = @ \ s.tape[at[c]]]
    /\ iosched_lock' = [iosched_lock EXCEPT ![at[c]] = None]
    /\ Goto(c, "read_done")
    /\ UNCHANGED <<held, io_lock, s, dentry, cache_requests, keepalive, op, at, arg, spare,
                   handles, w, bounds>>

ReadReturn(c) ==
    /\ pc[c] = "read_done"
    /\ Leave(c)
    /\ UNCHANGED <<io_lock, s, dentry, cache_requests, keepalive, spare, handles, w, bounds>>

----------------------------------------------------------------------------
(* The background writer thread.  The queue is a list in the code; which of
   its files comes first is left open here. *)
Client == <<calls, spare, handles, bounds, missing>>
Watermark_Integer == (6 \div 10) * CacheBlocks
Watermark == (6 * CacheBlocks) \div 10  \* IP_HIGH_WATERMARK * cache_blocks, truncated

\* _unified_writer_thread: what to process next.
WChoose ==
    LET choice == CASE cache_requests = 0 -> "DP"
                    [] cache_requests > 0 /\ s.count["DP"] > 2 * cache_requests -> "DP"
                    [] cache_requests > 0 /\ s.count["DP"] <= 2 * cache_requests
                         /\ s.count["IP"] < Watermark -> "PARTIAL"
                    [] OTHER -> "IP"
    IN
    /\ w.pc = "idle"
    /\ s.queue["DP"] # {} \/ cache_requests > 0 \/ ~keepalive
    /\ w' = CASE ~keepalive -> [w EXCEPT !.pc = "last_flush"]
              [] keepalive /\ choice = "IP" -> [w EXCEPT !.pc = "index"]
              [] OTHER -> [w EXCEPT !.pc = "lock", !.queue = choice]
    /\ UNCHANGED <<locks, s, dentry, cache_requests, keepalive, Client>>

\* _unified_process_index_queue; the write lock keeps everyone else out.
WIndex ==
    /\ w.pc \in {"index", "last_index"}
    /\ WriteLockFree
    /\ \E order \in SetToSeqs(s.queue["IP"]), plan \in Plans(s) : s' = IndexAll(s, order, plan)
    /\ w' = [w EXCEPT !.pc = IF @ = "index" THEN "idle" ELSE "exited"]
    /\ UNCHANGED <<locks, dentry, cache_requests, keepalive, Client>>

(* _unified_process_data_queue: the number of files to look at is fixed when
   the lock is taken. *)
WLock ==
    /\ w.pc = "lock"
    /\ ReadLockFree
    /\ held' = [held EXCEPT ![Writer] = "read"]
    /\ w' = [w EXCEPT !.pc = "pick",
                      !.left = Cardinality(s.queue["DP"]) +
                               (IF w.queue = "PARTIAL" THEN Cardinality(s.queue["PARTIAL"]) ELSE 0)]
    /\ UNCHANGED <<iosched_lock, io_lock, s, dentry, cache_requests, keepalive, Client>>

WCandidates ==
    IF s.queue["DP"] # {} THEN s.queue["DP"]
    ELSE IF w.queue = "PARTIAL" THEN s.queue["PARTIAL"] ELSE {}

WPick ==
    /\ w.pc = "pick" /\ w.left > 0
    /\ \E f \in WCandidates : w' = [w EXCEPT !.pc = "take", !.file = f, !.left = @ - 1]
    /\ UNCHANGED <<locks, s, dentry, cache_requests, keepalive, Client>>

WDone ==
    /\ w.pc = "pick" /\ (w.left = 0 \/ WCandidates = {})
    /\ held' = [held EXCEPT ![Writer] = "none"]
    /\ w' = IdleWriter
    /\ UNCHANGED <<iosched_lock, io_lock, s, dentry, cache_requests, keepalive, Client>>

\* iosched_lock is free, but the dentry_priv is gone.
WGone ==
    /\ w.pc = "take" /\ iosched_lock[w.file] = None
    /\ ~s.dpr[w.file].on
    /\ w' = [w EXCEPT !.pc = "pick", !.file = None]
    /\ UNCHANGED <<locks, s, dentry, cache_requests, keepalive, Client>>

(* Under iosched_lock and io_lock: unqueue the file and move its requests to
   a private list; a file for the index partition is written right here. *)
WTake ==
    LET f == w.file
        full == w.queue # "PARTIAL"
        states == IF full THEN {"DP"} ELSE {"DP", "PARTIAL"}
        out == IF full THEN ClearQ(s, "DP", f) ELSE ClearDpQueues(s, f)
    IN
    /\ w.pc = "take" /\ iosched_lock[f] = None
    /\ s.dpr[f].on
    /\ io_lock[f] = None
    /\ \E plan \in Plans(s) :
          LET n == NumIn(s.dpr[f].reqs, states)
              o == Outcome(s, "DP", IF s.dpr[f].write_ip THEN n ELSE 0, f, plan)
              walk == WalkReqs(out, f, states, TRUE, o.ok)
          IN
          /\ s' = IF o.e = "ok" THEN walk.st
                  ELSE HandleError(Damage(walk.st, "DP", o.e), f, Head(walk.failed).state, o.e)
          /\ IF walk.local = <<>>
             THEN /\ w' = [w EXCEPT !.pc = "pick", !.file = None]
                  /\ UNCHANGED io_lock
             ELSE /\ w' = [w EXCEPT !.pc = "send", !.local = walk.local]
                  /\ io_lock' = [io_lock EXCEPT ![f] = Writer]
    /\ UNCHANGED <<held, iosched_lock, dentry, cache_requests, keepalive, Client>>

(* One request of the private list goes to tape; io_lock stays held until the
   list is empty or a write fails. *)
WSend ==
    LET f == w.file  r == Head(w.local)
        over(st) == FreeBlocks(ToTape(st, f, r), 1)
    IN
    /\ w.pc = "send"
    /\ \E plan \in Plans(s) :
          LET o == Outcome(s, "DP", 1, f, plan) IN
          IF o.e = "ok"
          THEN /\ s' = over(s)
               /\ IF Len(w.local) = 1
                  THEN /\ w' = [w EXCEPT !.pc = "pick", !.file = None, !.local = <<>>]
                       /\ io_lock' = [io_lock EXCEPT ![f] = None]
                  ELSE /\ w' = [w EXCEPT !.local = Tail(@)]
                       /\ UNCHANGED io_lock
          ELSE /\ s' = Damage(s, "DP", o.e)
               /\ w' = [w EXCEPT !.pc = "fail", !.error = o.e]
               /\ io_lock' = [io_lock EXCEPT ![f] = None]
    /\ UNCHANGED <<held, iosched_lock, dentry, cache_requests, keepalive, Client>>

(* The error is recorded in the dentry_priv if the file still has one; the
   rest of the private list is freed. *)
WFail ==
    LET f == w.file IN
    /\ w.pc = "fail"
    /\ iosched_lock[f] = None
    /\ s.dpr[f].on => io_lock[f] = None
    /\ s' = FreeBlocks(IF s.dpr[f].on THEN HandleError(s, f, Head(w.local).state, w.error) ELSE s,
                       Len(w.local))
    /\ w' = [w EXCEPT !.pc = "pick", !.file = None, !.local = <<>>, !.error = "ok"]
    /\ UNCHANGED <<locks, dentry, cache_requests, keepalive, Client>>

(* unified_destroy, from ltfs_fuse_umount: all files are closed. *)
Destroy ==
    /\ "destroy" \in Ops /\ keepalive
    /\ \A c \in Clients : pc[c] = "idle" /\ open[c] = {}
    /\ WriteLockFree
    /\ keepalive' = FALSE
    /\ UNCHANGED <<locks, s, dentry, cache_requests, w, Client>>

WLastFlush_NoIndex ==
    /\ w.pc = "last_flush"
    /\ WriteLockFree
    /\ \E order \in FlushOrders(s), plan \in Plans(s) : s' = FlushAll(s, order, plan).st
    /\ w' = [w EXCEPT !.pc = "exited"]
    /\ UNCHANGED <<locks, dentry, cache_requests, keepalive, Client>>
\* The writer thread's last flush; nobody looks at its result.
WLastFlush ==
    /\ w.pc = "last_flush"
    /\ WriteLockFree
    /\ \E order \in FlushOrders(s), plan \in Plans(s) : s' = FlushAll(s, order, plan).st
    /\ w' = [w EXCEPT !.pc = "last_index"]
    /\ UNCHANGED <<locks, dentry, cache_requests, keepalive, Client>>

\* The end of unified_destroy: push index partition extents, free their owners.
Join ==
    /\ w.pc = "exited"
    /\ s' = [s EXCEPT !.dpr = [f \in Files |-> IF f \in s.ext_queue THEN NoDpr ELSE s.dpr[f]],
                      !.ext_queue = {}]
    /\ w' = [w EXCEPT !.pc = "joined"]
    /\ UNCHANGED <<locks, dentry, cache_requests, keepalive, Client>>

\* With no call in progress the system may rest, and does so for good after unified_destroy.
Rest ==
    /\ \A c \in Clients : pc[c] = "idle"
    /\ w.pc \in {"idle", "joined"}
    /\ UNCHANGED vars

----------------------------------------------------------------------------
WriterStep == WChoose \/ WPick \/ WDone \/ WSend \/ Join
WriterLocks == WIndex \/ WLock \/ WGone \/ WTake \/ WFail \/ WLastFlush
ClientStep(c) ==
    \/ Return(c) \/ WriteError(c) \/ WriteRefused(c) \/ Write(c) \/ WakeWithBlock(c)
    \/ FlushReturn(c) \/ FreeCheck(c) \/ FlushAllReturn(c)
    \/ TruncBody(c) \/ Placement(c) \/ ReadCache(c) \/ ReadReturn(c)
ClientLocks(c) ==
    \/ AcquireRead(c) \/ LockIosched(c) \/ Relock(c) \/ FlushBody(c) \/ FreeIo(c)
    \/ FlushAllBody(c) \/ TruncTape(c) \/ ReadTape(c)
NewCall(c) ==
    \/ \E f \in Files :
          \/ Open(c, f) \/ CallRead(c, f) \/ CallFlush(c, f) \/ CallClose(c, f)
          \/ CallTruncate(c, f) \/ CallRename(c, f) \/ CallUnlink(c, f)
          \/ \E n \in Sizes : CallWrite(c, f, n)
    \/ CallFlushAll(c)

Next ==
    \/ WriterStep \/ WriterLocks \/ Destroy \/ Rest
    \/ \E c \in Clients : NewCall(c) \/ ClientStep(c) \/ ClientLocks(c)

(* Threads keep running, and a thread that finds a lock free again and again
   gets it in the end. *)
Fairness ==
    /\ WF_vars(WriterStep) /\ SF_vars(WriterLocks)
    /\ \A c \in Clients : WF_vars(ClientStep(c)) /\ SF_vars(ClientLocks(c))

Spec == Init /\ [][Next]_vars
FairSpec == Spec /\ Fairness

----------------------------------------------------------------------------
(* Properties *)

Request == [off : Nat, n : {1, 2}, state : Queues, ids : SUBSET (1 .. MaxWrites)]
Errors == {"ok", "less_space", "fatal", "transient"}

\* Types of the scheduler's own variables.
TypeOK ==
    /\ held \in [Threads -> {"none", "read", "write"}]
    /\ iosched_lock \in [Files -> Clients \cup {None}]
    /\ io_lock \in [Files -> {Writer, None}]
    /\ \A f \in Files :
          LET d == s.dpr[f] IN
          /\ \A i \in DOMAIN d.reqs : d.reqs[i] \in Request
          /\ d.file_size \in Nat /\ d.write_error \in Errors
          /\ d.inq \in [Queues -> Nat]
    /\ s.count \in [Queues -> Nat]
    /\ s.free \in 0 .. CacheBlocks
    /\ cache_requests \in 0 .. Cardinality(Clients)

\* The sum of the numbers m[f].
Total(m) == Cardinality(UNION {{f} \X (1 .. m[f]) : f \in Files})

(* The queue bookkeeping of _unified_update_queue_membership is exact between
   critical sections: each in_ counter is the number of the file's requests
   in that state, a file is queued exactly if its counter is positive, the
   global counters are the sums (files bound for the index partition hide
   their DP requests), and cache_requests counts the waiting threads.  So no
   file without a dentry_priv, and none without requests, stays queued.  And "a
   dentry_priv is placed in the ext_queue if and only if it has extents" in its
   alternate list (struct dentry_priv), through index partition writes, growth,
   rename and unlink. *)
CountersExact ==
    LET Reqs(f, q) == NumIn(s.dpr[f].reqs, {q})
    IN
    /\ \A q \in Queues :
          /\ \A f \in Files : s.dpr[f].inq[q] = Reqs(f, q)
          /\ s.queue[q] = {f \in Files : Reqs(f, q) > 0}
          /\ s.count[q] = Total([f \in Files |-> IF Counted(s, q, f) THEN Reqs(f, q) ELSE 0])
    /\ cache_requests = Cardinality({c \in Clients : pc[c] \in {"wait", "relock"}})
    /\ s.ext_queue = {f \in Files : s.dpr[f].alt}

(* No cache block is lost or handed out twice: blocks in the pool, in request
   lists, in the writer's private list and kept as a spare add up. *)
BlocksConserved ==
    LET used == Cardinality({x \in Files \X (1 .. CacheBlocks) : x[2] <= Len(s.dpr[x[1]].reqs)})
    IN  s.free + used + Len(w.local) + Cardinality({c \in Clients : spare[c]}) = CacheBlocks

(* A read of the file returns every write the scheduler had accepted before,
   wherever the writer thread has moved it meanwhile, unless the file was
   truncated or the write failed. *)
ReadSeesWrites ==
    \A c \in Clients : pc[c] = "read_done" =>
        missing[c] \cap s.written[at[c]] \subseteq (IF w.pc = "fail" THEN InFlight(at[c]) ELSE {})

(* Data the scheduler accepted is on the tape, in a request list or with the
   writer thread, until the file is truncated or an error is recorded that
   a later write, flush or close returns. *)
NoSilentLoss == \A f \in Files : s.written[f] \subseteq Live(f)

(* When _unified_flush_all returns success, no REQUEST_DP or REQUEST_PARTIAL
   is left in the scheduler and all accepted data is on the tape. *)
FlushAllComplete ==
    \A c \in Clients : pc[c] = "flushed" => \A f \in Files :
        /\ NumIn(s.dpr[f].reqs, {"DP", "PARTIAL"}) = 0
        /\ s.written[f] \subseteq s.tape[f]

(* Without tape errors, unified_destroy leaves no request behind, neither for
   the data nor for the index partition, and all accepted data is on the tape. *)
SavedAtDestroy ==
    w.pc = "joined" => \A f \in Files :
        /\ s.dpr[f].reqs = <<>> /\ ~s.dpr[f].alt
        /\ s.written[f] \subseteq s.tape[f]

(* Truncated data never comes back: outside a truncation, what the scheduler
   and the tape hold of a file was accepted after the last one, or belongs
   to a write in progress. *)
NoResurrection ==
    \A f \in Files :
        (\A c \in Clients : ~(at[c] = f /\ op[c] = "truncate")) =>
            Live(f) \subseteq s.written[f] \cup {arg[c].id : c \in {x \in Clients : at[x] = f}}

\* Every call into the scheduler returns, however the threads interleave.
CallsReturn == \A c \in Clients : pc[c] # "idle" ~> pc[c] = "idle"

\* unified_destroy terminates.
DestroyEnds == ~keepalive ~> w.pc = "joined"

(* unified_flush "Forces pending operations to meet the tape": once it has
   returned success, what was accepted before is on the tape. *)
FlushMeetsTape ==
    \A c \in Clients : pc[c] = "flush_done" => missing[c] \cap s.written[at[c]] = {}

(* The dentry whose iosched_lock the writer thread is about to take still
   exists: somebody has a handle on it. *)
WriterDentryAlive == w.pc \in {"take", "fail"} => NumHandles(s, w.file) > 0

(* _unified_cache_alloc "waits for the cache pressure to be relieved, retakes
   priv->lock for read, and returns". *)
WaiterServed == \A c \in Clients : pc[c] = "wait" ~> pc[c] # "wait"
=============================================================================
