-------------------------- MODULE UnifiedInductive --------------------------
(***************************************************************************)
(* The inductive invariant of Unified, and the hypotheses of the theorems  *)
(* in UnifiedProofs.  UInv has three parts: Control says where threads are *)
(* and what they hold, Exact that the bookkeeping between critical         *)
(* sections is right, DataInv that accepted data is where it should be.    *)
(***************************************************************************)
EXTENDS Unified, Integers

-----------------------------------------------------------------------------
(* Hypotheses of the theorems.                                             *)

\* The drive never fails.
NoFaults == MaxFaults = 0 \/ Faults = {}

\* unified_truncate clears the alternate extents of a file of the index
\* partition and leaves it in ext_queue; unified_destroy frees a dentry_priv
\* although a fault has left requests in its list.  After either, ext_queue
\* or the counters are no longer what a recount gives.
AltTracked == ("truncate" \in Ops => MaxIpSize = 0) /\ ("destroy" \in Ops => NoFaults)

\* An error finds a dentry_priv to be recorded in, which a close or
\* unified_destroy may have freed; and a lack of space in the index partition,
\* which is not recorded, does not cost requests for the data partition, as it
\* does when that partition is short of space too.
ErrorsReach ==
    \/ NoFaults
    \/ /\ "close" \notin Ops /\ "destroy" \notin Ops
       /\ MaxIpSize = 0 \/ MaxFaults <= 1 \/ "less_space" \notin Faults

-----------------------------------------------------------------------------
(* What the locks protect.                                                 *)

Pos == Nat \ {0}
Req == [off : Nat, n : {1, 2}, state : Queues, ids : SUBSET Pos]
Dpr == [on : BOOLEAN, reqs : Seq(Req), file_size : Nat, write_ip : BOOLEAN, write_error : Errors,
        alt : BOOLEAN, inq : [Queues -> Nat]]
State == [dpr : [Files -> Dpr], queue : [Queues -> SUBSET Files], ext_queue : SUBSET Files,
          count : [Queues -> Int], free : Nat, tape : [Files -> SUBSET Pos], size : [Files -> Nat],
          less : SUBSET {"DP", "IP"}, broken : BOOLEAN, nfaults : Nat,
          written : [Files -> SUBSET Pos]]

\* What the requests of one file and the counters of all files say of each other.
Books(st) ==
    /\ \A f \in Files, q \in Queues : f \in st.queue[q] <=> st.dpr[f].inq[q] > 0
    /\ \A q \in Queues :
          st.count[q] = Total([f \in Files |-> IF Counted(st, q, f) THEN st.dpr[f].inq[q] ELSE 0])
Listed(d) == \A q \in Queues : d.inq[q] = NumIn(d.reqs, {q})

\* A request for the index partition has been written to the data partition.
IpSaved(d, tape) == \A i \in DOMAIN d.reqs : d.reqs[i].state = "IP" => d.reqs[i].ids \subseteq tape
Sized(d) == \A i \in DOMAIN d.reqs : End(d.reqs[i]) <= d.file_size
NoIp(d) == MaxIpSize = 0 => ~d.write_ip /\ ~d.alt /\ \A i \in DOMAIN d.reqs : d.reqs[i].state # "IP"
FileOK(d, tape) ==
    /\ ~d.on => d = NoDpr
    /\ Listed(d) /\ IpSaved(d, tape) /\ Sized(d) /\ NoIp(d)
    /\ NoFaults => d.write_error = "ok"
FilesOK(st) == \A f \in Files : FileOK(st.dpr[f], st.tape[f])

\* Every partition that is short of space has cost a fault.
Drive(st) ==
    /\ NoFaults => st.less = {} /\ ~st.broken
    /\ "less_space" \notin Faults => st.less = {}
    /\ st.less # {} => st.nfaults >= 1
    /\ st.less = {"DP", "IP"} => st.nfaults >= 2
    /\ st.nfaults <= MaxFaults

AltOK(st) == \A f \in Files : f \in st.ext_queue <=> st.dpr[f].alt

\* No data is left to be written to the data partition.
Flushed(st) ==
    \A f \in Files : \A i \in DOMAIN st.dpr[f].reqs : st.dpr[f].reqs[i].state = "IP"

-----------------------------------------------------------------------------
(* Threads and locks.                                                      *)

ReadHeld == {"iosched", "write", "flush", "flush_done", "free", "free_io", "truncate", "trunc_io",
             "placement", "read", "read_tape", "read_done"}
IoschedHeld == ReadHeld \ {"iosched", "read_done"}
WriteHeld == {"flushed", "flush_failed"}
OnFile == ReadHeld \cup {"lock", "wait", "relock", "trunc_raw", "return"}
Points == OnFile \cup WriteHeld \cup {"idle", "flush_all"}
FileOps == {"write", "read", "flush", "close", "truncate", "rename", "unlink"}
OpsAt(p) ==
    CASE p \in {"write", "wait", "relock"} -> {"write"}
      [] p \in {"flush", "flush_done"} -> {"flush", "close"}
      [] p \in {"free", "free_io"} -> {"close"}
      [] p \in {"truncate", "trunc_io", "trunc_raw"} -> {"truncate"}
      [] p = "placement" -> {"rename", "unlink"}
      [] p \in {"read", "read_tape", "read_done"} -> {"read"}
      [] p = "return" -> {"close", "rename", "unlink"}
      [] p \in {"lock", "iosched"} -> FileOps
      [] p \in WriteHeld \cup {"flush_all"} -> {"flush_all"}
      [] p = "idle" -> {"none"}

WBusy == {"pick", "take", "send", "fail"}
WFile == {"take", "send", "fail"}
WPoints == WBusy \cup {"idle", "lock", "index", "last_flush", "last_index", "exited", "joined"}
WriterState == [pc : WPoints, queue : {"DP", "PARTIAL"}, left : Nat, file : Files \cup {None},
                local : Seq(Req), error : Errors]

Types ==
    /\ held \in [Threads -> {"none", "read", "write"}]
    /\ iosched_lock \in [Files -> Clients \cup {None}]
    /\ io_lock \in [Files -> {Writer, None}]
    /\ s \in State
    /\ dentry \in [Files -> [linked : BOOLEAN, matches : BOOLEAN]]
    /\ cache_requests \in Nat
    /\ keepalive \in BOOLEAN
    /\ pc \in [Clients -> Points] /\ op \in [Clients -> FileOps \cup {"none", "flush_all"}]
    /\ at \in [Clients -> Files \cup {None}]
    /\ arg \in [Clients -> [n : 0..2, id : Nat, off : Nat]]
    /\ spare \in [Clients -> BOOLEAN]
    /\ open \in [Clients -> SUBSET Files] /\ dirty \in [Clients -> SUBSET Files]
    /\ w \in WriterState
    /\ nwrites \in Nat /\ nchanges \in Nat
    /\ missing \in [Clients -> SUBSET Pos]

\* Where a call is tells which call it is, on which file, and its locks.
Places ==
    \A c \in Clients :
       /\ op[c] \in OpsAt(pc[c])
       /\ op[c] # "none" => op[c] \in Ops
       /\ pc[c] \in OnFile <=> at[c] \in Files
       /\ op[c] # "write" => arg[c] = NoArg
       /\ op[c] = "write" => arg[c].n > 0 /\ arg[c].id > 0
Locks ==
    /\ \A c \in Clients : held[c] = IF pc[c] \in ReadHeld THEN "read"
                                    ELSE IF pc[c] \in WriteHeld THEN "write" ELSE "none"
    /\ held[Writer] = IF w.pc \in WBusy THEN "read" ELSE "none"
    /\ \A t, u \in Threads : held[t] = "write" /\ t # u => held[u] = "none"
    /\ \A f \in Files, c \in Clients : iosched_lock[f] = c <=> at[c] = f /\ pc[c] \in IoschedHeld
    /\ \A f \in Files : io_lock[f] = Writer <=> w.pc = "send" /\ w.file = f
WriterOK ==
    /\ w.pc \in WFile <=> w.file \in Files
    /\ w.pc \in {"send", "fail"} <=> w.local # <<>>
    /\ \A i \in DOMAIN w.local : w.local[i].state # "IP"
    /\ w.pc = "send" => s.dpr[w.file].on
    /\ w.pc = "fail" => ~NoFaults /\ w.error # "ok"
    /\ w.pc = "fail" /\ "close" \notin Ops => s.dpr[w.file].on
Serial ==
    \A c, d \in Clients :
       (/\ at[c] \in Files /\ at[c] = at[d]
        /\ op[c] \in {"write", "truncate"} /\ op[d] \in {"write", "truncate"}) => c = d

\* A call between two of its locks finds what it left behind.
Between ==
    \A c \in Clients :
       LET d == s.dpr[at[c]] IN
       /\ pc[c] = "free_io" => d.on /\ d.reqs = <<>> /\ ~d.alt
       /\ pc[c] \in {"trunc_io", "trunc_raw"} => d.reqs = <<>> /\ s.written[at[c]] = {}
       /\ pc[c] = "trunc_raw" => ~d.on
       /\ pc[c] = "flushed" => Flushed(s)
Waiting == cache_requests = Cardinality({c \in Clients : pc[c] \in {"wait", "relock"}})
Shutdown ==
    /\ ~keepalive => \A c \in Clients : pc[c] = "idle"
    /\ w.pc \in {"last_flush", "last_index", "exited", "joined"} => ~keepalive
    /\ ~keepalive => "destroy" \in Ops
    /\ NoFaults /\ w.pc = "last_index" => Flushed(s)
    /\ NoFaults /\ w.pc \in {"exited", "joined"} => \A f \in Files : s.dpr[f].reqs = <<>>
    /\ NoFaults /\ AltTracked /\ w.pc = "joined" => \A f \in Files : ~s.dpr[f].alt

Control == Types /\ Places /\ Locks /\ WriterOK /\ Serial /\ Between /\ Waiting /\ Shutdown

\* The bookkeeping; after unified_destroy it only matters if nothing failed.
Exact ==
    /\ Drive(s)
    /\ NoFaults \/ w.pc # "joined" => Books(s) /\ FilesOK(s)
    /\ AltTracked => AltOK(s)

-----------------------------------------------------------------------------
(* Data.                                                                   *)

Numbered ==
    /\ \A f \in Files : Live(f) \subseteq 1..nwrites
    /\ \A c \in Clients : arg[c].id <= nwrites /\ missing[c] \subseteq 1..nwrites

\* Nobody is writing, or has written, write number i of f.
Forgotten(f, i) ==
    i \notin s.written[f] /\ \A c \in Clients : at[c] = f /\ op[c] = "write" => arg[c].id # i
ReadOK ==
    \A c \in Clients : \A i \in missing[c] :
       /\ pc[c] = "read_tape" => i \in s.tape[at[c]] \cup InFlight(at[c]) \/ Forgotten(at[c], i)
       /\ pc[c] = "read_done" => Forgotten(at[c], i)

DataInv ==
    /\ ErrorsReach => NoSilentLoss
    /\ NoFaults => Numbered /\ ReadOK /\ NoResurrection

UInv == Control /\ Exact /\ DataInv
=============================================================================
