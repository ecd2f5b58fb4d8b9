-------------------------------- MODULE Mrsw --------------------------------
(***************************************************************************)
(* The multi-reader single-writer lock of libltfs/ltfs_locking.h, one step *)
(* per mutex call and per group of plain assignments.  Every volume        *)
(* (ltfs_volume.lock), every dentry (contents_lock, meta_lock) and the     *)
(* unified scheduler (unified_data.lock) is protected by one of these.     *)
(*                                                                         *)
(* reading_mutex is locked by the first reader and unlocked by the last,   *)
(* who need not be the same thread, so it is a flag and not an owner.      *)
(***************************************************************************)
EXTENDS Naturals, FiniteSets

CONSTANTS Threads,   \* the threads that use the lock
          None       \* "no owner" of a mutex

ASSUME ThreadsFinite == IsFiniteSet(Threads)
ASSUME NoneNotThread == None \notin Threads

VARIABLES
    write_exclusive_mutex,  \* the owner, or None
    reading_mutex,          \* TRUE when locked
    read_count_mutex,       \* the owner, or None
    read_count,
    writer,                 \* 1 while a write lock is held
    long_lock,
    pc,                     \* where each thread is
    op                      \* the call each thread is inside

vars == <<write_exclusive_mutex, reading_mutex, read_count_mutex,
          read_count, writer, long_lock, pc, op>>
mutexes == <<write_exclusive_mutex, reading_mutex, read_count_mutex>>
flags == <<writer, long_lock>>

WriteOps == {"acquirewrite", "acquirewrite_long", "try_acquirewrite"}
Ops == WriteOps \cup {"acquireread", "acquireread_short", "writetoread",
                      "releasewrite", "releaseread", "none"}

PCs == {"idle", "reading", "writing",
        "w_exclusive", "w_reading", "w_flags", "w_backout",
        "r_exclusive", "r_long", "r_pass",
        "s_check", "s_try", "s_again",
        "enter", "count", "first", "entered", "drop_exclusive",
        "release", "rw_flags", "rw_reading", "rw_exclusive",
        "rr_enter", "rr_count", "rr_last", "rr_leave",
        "d_flags", "d_reading"}

\* Counted as readers; only "first" does not own reading_mutex yet.
ReaderIn(p, o) ==
    \/ p \in {"first", "entered", "drop_exclusive", "reading", "rr_enter", "rr_count"}
    \/ p = "release" /\ o = "releaseread"
\* Inside the write lock: owns reading_mutex as the writer.
WriterIn(p, o) ==
    \/ p \in {"w_flags", "writing", "rw_flags", "rw_reading", "d_flags", "d_reading"}
    \/ p = "release" /\ o = "releasewrite"

Init ==
    /\ write_exclusive_mutex = None
    /\ reading_mutex = FALSE
    /\ read_count_mutex = None
    /\ read_count = 0
    /\ writer = 0
    /\ long_lock = 0
    /\ pc = [t \in Threads |-> "idle"]
    /\ op = [t \in Threads |-> "none"]

Goto(t, p) == pc' = [pc EXCEPT ![t] = p]
SetOp(t, o) == op' = [op EXCEPT ![t] = o]
Lock(m, t) == m = None /\ m' = t
Unlock(m) == m' = None

----------------------------------------------------------------------------
(* A thread that holds nothing calls one of the five acquiring functions. *)
Call(t) ==
    /\ pc[t] = "idle"
    /\ \/ \E o \in WriteOps : Goto(t, "w_exclusive") /\ SetOp(t, o)
       \/ Goto(t, "r_exclusive") /\ SetOp(t, "acquireread")
       \/ Goto(t, "s_check") /\ SetOp(t, "acquireread_short")
    /\ UNCHANGED <<mutexes, read_count, flags>>

(* acquirewrite_mrsw, acquirewrite_mrsw_long and try_acquirewrite_mrsw. *)
WriteExclusive(t) ==
    /\ pc[t] = "w_exclusive"
    /\ \/ /\ Lock(write_exclusive_mutex, t)
          /\ Goto(t, "w_reading")
          /\ UNCHANGED op
       \/ /\ op[t] = "try_acquirewrite"
          /\ write_exclusive_mutex # None
          /\ Goto(t, "idle")
          /\ SetOp(t, "none")
          /\ UNCHANGED write_exclusive_mutex
    /\ UNCHANGED <<reading_mutex, read_count_mutex, read_count, flags>>

WriteReading(t) ==
    /\ pc[t] = "w_reading"
    /\ \/ /\ ~reading_mutex
          /\ reading_mutex' = TRUE
          /\ Goto(t, "w_flags")
       \/ /\ op[t] = "try_acquirewrite"
          /\ reading_mutex
          /\ Goto(t, "w_backout")
          /\ UNCHANGED reading_mutex
    /\ UNCHANGED <<write_exclusive_mutex, read_count_mutex, read_count, flags, op>>

WriteBackout(t) ==
    /\ pc[t] = "w_backout"
    /\ Unlock(write_exclusive_mutex)
    /\ Goto(t, "idle")
    /\ SetOp(t, "none")
    /\ UNCHANGED <<reading_mutex, read_count_mutex, read_count, flags>>

WriteFlags(t) ==
    /\ pc[t] = "w_flags"
    /\ writer' = 1
    /\ long_lock' = CASE op[t] = "acquirewrite" -> 0
                      [] op[t] = "acquirewrite_long" -> 1
                      [] OTHER -> long_lock
    /\ Goto(t, "writing")
    /\ SetOp(t, "none")
    /\ UNCHANGED <<mutexes, read_count>>

(* The gate of acquireread_mrsw: pass through write_exclusive_mutex. *)
\* Mutant: readers do not pass through the writers' gate.
ReadExclusive_NoGate(t) ==
    /\ pc[t] = "r_exclusive"
    /\ Goto(t, "enter")
    /\ UNCHANGED <<mutexes, read_count, flags, op>>

ReadExclusive(t) ==
    /\ pc[t] = "r_exclusive"
    /\ Lock(write_exclusive_mutex, t)
    /\ Goto(t, "r_long")
    /\ UNCHANGED <<reading_mutex, read_count_mutex, read_count, flags, op>>

ReadLong(t) ==
    /\ pc[t] = "r_long"
    /\ long_lock' = 0
    /\ Goto(t, "r_pass")
    /\ UNCHANGED <<mutexes, read_count, writer, op>>

ReadPass(t) ==
    /\ pc[t] = "r_pass"
    /\ Unlock(write_exclusive_mutex)
    /\ Goto(t, "enter")
    /\ UNCHANGED <<reading_mutex, read_count_mutex, read_count, flags, op>>

(* acquireread_mrsw_short polls the gate and gives up on a long lock. *)
ShortCheck(t) ==
    /\ pc[t] \in {"s_check", "s_again"}
    /\ IF long_lock = 1 THEN Goto(t, "idle") /\ SetOp(t, "none")
                        ELSE Goto(t, "s_try") /\ UNCHANGED op
    /\ UNCHANGED <<mutexes, read_count, flags>>

ShortTry(t) ==
    /\ pc[t] = "s_try"
    /\ \/ Lock(write_exclusive_mutex, t) /\ Goto(t, "r_pass")
       \/ /\ write_exclusive_mutex # None
          /\ Goto(t, "s_again")
          /\ UNCHANGED write_exclusive_mutex
    /\ UNCHANGED <<reading_mutex, read_count_mutex, read_count, flags, op>>

(* The counting section shared by the readers and by writetoread_mrsw. *)
\* Mutant: the counting section is entered without its mutex.
Enter_Unlocked(t) ==
    /\ pc[t] = "enter"
    /\ read_count_mutex' = t
    /\ Goto(t, "count")
    /\ UNCHANGED <<write_exclusive_mutex, reading_mutex, read_count, flags, op>>

Enter(t) ==
    /\ pc[t] = "enter"
    /\ Lock(read_count_mutex, t)
    /\ Goto(t, "count")
    /\ UNCHANGED <<write_exclusive_mutex, reading_mutex, read_count, flags, op>>

Count(t) ==
    /\ pc[t] = "count"
    /\ read_count' = read_count + 1
    /\ Goto(t, IF read_count' = 1 THEN "first" ELSE "entered")
    /\ UNCHANGED <<mutexes, flags, op>>

\* Mutant: the first reader does not wait for the writer.
First_NoWait(t) ==
    /\ pc[t] = "first"
    /\ reading_mutex' = TRUE
    /\ Goto(t, "entered")
    /\ UNCHANGED <<write_exclusive_mutex, read_count_mutex, read_count, flags, op>>

First(t) ==
    /\ pc[t] = "first"
    /\ ~reading_mutex
    /\ reading_mutex' = TRUE
    /\ Goto(t, "entered")
    /\ UNCHANGED <<write_exclusive_mutex, read_count_mutex, read_count, flags, op>>

Entered(t) ==
    /\ pc[t] = "entered"
    /\ Unlock(read_count_mutex)
    /\ IF op[t] = "writetoread" THEN Goto(t, "drop_exclusive") /\ UNCHANGED op
                                ELSE Goto(t, "reading") /\ SetOp(t, "none")
    /\ UNCHANGED <<write_exclusive_mutex, reading_mutex, read_count, flags>>

----------------------------------------------------------------------------
(* The holder calls release_mrsw, the specific release, or writetoread_mrsw.
   op remembers which lock the caller of release_mrsw holds; the code does
   not look at it, it looks at the writer flag. *)
CallRelease(t) ==
    /\ \/ pc[t] = "writing" /\ SetOp(t, "releasewrite") /\ \E p \in {"release", "rw_flags"} : Goto(t, p)
       \/ pc[t] = "reading" /\ SetOp(t, "releaseread") /\ \E p \in {"release", "rr_enter"} : Goto(t, p)
       \/ pc[t] = "writing" /\ SetOp(t, "writetoread") /\ Goto(t, "d_flags")
    /\ UNCHANGED <<mutexes, read_count, flags>>

Release(t) ==
    /\ pc[t] = "release"
    /\ Goto(t, IF writer = 1 THEN "rw_flags" ELSE "rr_enter")
    /\ UNCHANGED <<mutexes, read_count, flags, op>>

(* releasewrite_mrsw *)
ReleaseWriteFlags(t) ==
    /\ pc[t] = "rw_flags"
    /\ writer' = 0
    /\ long_lock' = 0
    /\ Goto(t, "rw_reading")
    /\ UNCHANGED <<mutexes, read_count, op>>

ReleaseWriteReading(t) ==
    /\ pc[t] = "rw_reading"
    /\ reading_mutex' = FALSE
    /\ Goto(t, "rw_exclusive")
    /\ UNCHANGED <<write_exclusive_mutex, read_count_mutex, read_count, flags, op>>

ReleaseWriteExclusive(t) ==
    /\ pc[t] = "rw_exclusive"
    /\ Unlock(write_exclusive_mutex)
    /\ Goto(t, "idle")
    /\ SetOp(t, "none")
    /\ UNCHANGED <<reading_mutex, read_count_mutex, read_count, flags>>

(* releaseread_mrsw; the first branch of ReleaseReadCount is the code's
   "released more often than acquired" error path. *)
ReleaseReadEnter(t) ==
    /\ pc[t] = "rr_enter"
    /\ Lock(read_count_mutex, t)
    /\ Goto(t, "rr_count")
    /\ UNCHANGED <<write_exclusive_mutex, reading_mutex, read_count, flags, op>>

\* Mutant: off by one in the test for the last reader.
ReleaseReadCount_OffByOne(t) ==
    /\ pc[t] = "rr_count"
    /\ read_count' = IF read_count = 0 THEN 0 ELSE read_count - 1
    /\ Goto(t, IF read_count <= 2 THEN "rr_last" ELSE "rr_leave")
    /\ UNCHANGED <<mutexes, flags, op>>

ReleaseReadCount(t) ==
    /\ pc[t] = "rr_count"
    /\ read_count' = IF read_count = 0 THEN 0 ELSE read_count - 1
    /\ Goto(t, IF read_count = 1 THEN "rr_last" ELSE "rr_leave")
    /\ UNCHANGED <<mutexes, flags, op>>

ReleaseReadLast(t) ==
    /\ pc[t] = "rr_last"
    /\ reading_mutex' = FALSE
    /\ Goto(t, "rr_leave")
    /\ UNCHANGED <<write_exclusive_mutex, read_count_mutex, read_count, flags, op>>

ReleaseReadLeave(t) ==
    /\ pc[t] = "rr_leave"
    /\ Unlock(read_count_mutex)
    /\ Goto(t, "idle")
    /\ SetOp(t, "none")
    /\ UNCHANGED <<write_exclusive_mutex, reading_mutex, read_count, flags>>

(* writetoread_mrsw: give up reading_mutex, queue as a reader, and only
   then open the gate. *)

DowngradeFlags(t) ==
    /\ pc[t] = "d_flags"
    /\ writer' = 0
    /\ long_lock' = 0
    /\ Goto(t, "d_reading")
    /\ UNCHANGED <<mutexes, read_count, op>>

\* Mutant: the gate is opened before the downgrading thread is counted.
DowngradeReading_OpensGate(t) ==
    /\ pc[t] = "d_reading"
    /\ reading_mutex' = FALSE
    /\ Unlock(write_exclusive_mutex)
    /\ Goto(t, "enter")
    /\ UNCHANGED <<read_count_mutex, read_count, flags, op>>

DowngradeReading(t) ==
    /\ pc[t] = "d_reading"
    /\ reading_mutex' = FALSE
    /\ Goto(t, "enter")
    /\ UNCHANGED <<write_exclusive_mutex, read_count_mutex, read_count, flags, op>>

DropExclusive(t) ==
    /\ pc[t] = "drop_exclusive"
    /\ Unlock(write_exclusive_mutex)
    /\ Goto(t, "reading")
    /\ SetOp(t, "none")
    /\ UNCHANGED <<reading_mutex, read_count_mutex, read_count, flags>>

----------------------------------------------------------------------------
AcquireWriteStep(t) == WriteExclusive(t) \/ WriteReading(t) \/ WriteBackout(t) \/ WriteFlags(t)
AcquireReadStep(t) ==
    \/ ReadExclusive(t) \/ ReadLong(t) \/ ReadPass(t) \/ ShortCheck(t) \/ ShortTry(t)
    \/ Enter(t) \/ Count(t) \/ First(t) \/ Entered(t)
ReleaseStep(t) ==
    \/ CallRelease(t) \/ Release(t)
    \/ ReleaseWriteFlags(t) \/ ReleaseWriteReading(t) \/ ReleaseWriteExclusive(t)
    \/ ReleaseReadEnter(t) \/ ReleaseReadCount(t) \/ ReleaseReadLast(t) \/ ReleaseReadLeave(t)
    \/ DowngradeFlags(t) \/ DowngradeReading(t) \/ DropExclusive(t)
Step(t) == AcquireWriteStep(t) \/ AcquireReadStep(t) \/ ReleaseStep(t)

Next == \E t \in Threads : Call(t) \/ Step(t)

Spec == Init /\ [][Next]_vars

(* A thread inside a call keeps running and a holder gives the lock back.
   Strong fairness: a thread waiting for a mutex that is released again and
   again gets it at some point, which is what the lock assumes of pthreads
   (it has no queue of its own). *)
FairSpec == Spec /\ \A t \in Threads : SF_vars(Step(t))

----------------------------------------------------------------------------
TypeOK ==
    /\ write_exclusive_mutex \in Threads \cup {None}
    /\ reading_mutex \in BOOLEAN
    /\ read_count_mutex \in Threads \cup {None}
    /\ read_count \in Nat
    /\ writer \in {0, 1}
    /\ long_lock \in {0, 1}
    /\ pc \in [Threads -> PCs]
    /\ op \in [Threads -> Ops]

Readers == {t \in Threads : ReaderIn(pc[t], op[t])}
Writers == {t \in Threads : WriterIn(pc[t], op[t])}

(* A thread inside the write lock is alone: no second writer, and every
   thread counted as a reader is still waiting for reading_mutex. *)
MutualExclusion ==
    \A t \in Writers : \A u \in Threads \ {t} :
        u \notin Writers /\ (u \in Readers => pc[u] = "first")

(* release_mrsw: "If there is a writer, and we hold a lock, we must be the
   writer."  The flag it reads tells the caller's own lock. *)
ReleaseTellsWriter ==
    \A t \in Threads : pc[t] = "release" => (writer = 1 <=> op[t] = "releasewrite")

(* writetoread_mrsw's reasoning: when the write lock is owned, at most one
   thread has got past the read_count_mutex gate, it is on its way to
   reading_mutex, and read_count is at most 1. *)
DowngradePremise ==
    \A t \in Writers :
        /\ read_count \in {0, 1}
        /\ Cardinality({u \in Threads : pc[u] \in {"count", "first", "entered"}}) <= 1

----------------------------------------------------------------------------
(* The inductive invariant: who owns each mutex is a function of the program
   counters, read_count counts the readers, and reading_mutex is locked
   exactly when somebody is accountable for unlocking it. *)
OpsMatch ==
    \A t \in Threads :
        /\ pc[t] \in {"idle", "reading", "writing"} => op[t] = "none"
        /\ pc[t] \in {"w_exclusive", "w_reading", "w_flags"} => op[t] \in WriteOps
        /\ pc[t] = "w_backout" => op[t] = "try_acquirewrite"
        /\ pc[t] \in {"r_exclusive", "r_long", "r_pass", "s_check", "s_try", "s_again"}
              => op[t] \in {"acquireread", "acquireread_short"}
        /\ pc[t] \in {"enter", "count", "first", "entered"}
              => op[t] \in {"acquireread", "acquireread_short", "writetoread"}
        /\ pc[t] \in {"drop_exclusive", "d_flags", "d_reading"} => op[t] = "writetoread"
        /\ pc[t] \in {"rw_flags", "rw_reading", "rw_exclusive"} => op[t] = "releasewrite"
        /\ pc[t] \in {"rr_enter", "rr_count", "rr_last", "rr_leave"} => op[t] = "releaseread"
        /\ pc[t] = "release" => op[t] \in {"releasewrite", "releaseread"}

OwnsExclusive(p, o) ==
    \/ WriterIn(p, o)
    \/ p \in {"w_reading", "w_backout", "r_long", "r_pass", "rw_exclusive", "drop_exclusive"}
    \/ p \in {"enter", "count", "first", "entered"} /\ o = "writetoread"
OwnsCount(p) == p \in {"count", "first", "entered", "rr_count", "rr_last", "rr_leave"}

Owners ==
    \A t \in Threads :
        /\ (write_exclusive_mutex = t) <=> OwnsExclusive(pc[t], op[t])
        /\ (read_count_mutex = t) <=> OwnsCount(pc[t])

ReadCountExact == read_count = Cardinality(Readers)

\* The thread that will take or give back reading_mutex for all readers.
EndsOfReading ==
    \A t \in Threads :
        /\ pc[t] = "first" => Readers = {t}
        /\ pc[t] = "rr_last" => Readers = {}

ReadingOwned ==
    /\ reading_mutex <=>
          \E t \in Threads :
             \/ WriterIn(pc[t], op[t])
             \/ pc[t] = "rr_last"
             \/ t \in Readers /\ pc[t] # "first"
    /\ \A t \in Writers : \A u \in Threads :
          pc[u] # "rr_last" /\ (u \in Readers => pc[u] = "first")

WriterFlag ==
    writer = 1 <=>
       \E t \in Threads :
          \/ pc[t] \in {"writing", "rw_flags", "d_flags"}
          \/ pc[t] = "release" /\ op[t] = "releasewrite"

IInv == TypeOK /\ OpsMatch /\ Owners /\ ReadCountExact /\ EndsOfReading /\ ReadingOwned /\ WriterFlag

----------------------------------------------------------------------------
(* The abstract lock, read off the program counters.  A thread that has
   given up reading_mutex in writetoread_mrsw already counts as a reader:
   it still owns write_exclusive_mutex, so no writer can get in before it. *)
HoldsRead(p, o) ==
    \/ ReaderIn(p, o) /\ p # "first"
    \/ p \in {"enter", "count", "first"} /\ o = "writetoread"
HeldBy(p, o) == IF WriterIn(p, o) THEN "write" ELSE IF HoldsRead(p, o) THEN "read" ELSE "none"
heldMap == [t \in Threads |-> HeldBy(pc[t], op[t])]

Abstract == INSTANCE RWLock WITH held <- heldMap

(* The three mutexes implement the abstract lock: downgrading in particular
   never lets a writer slip in between. *)
Implements == Abstract!Spec

(* Every blocking request is granted in the end, writers behind a stream of
   readers included. *)
Granted ==
    \A t \in Threads :
        /\ (pc[t] = "w_exclusive" /\ op[t] # "try_acquirewrite") ~> (pc[t] = "writing")
        /\ (pc[t] = "r_exclusive") ~> (pc[t] = "reading")
=============================================================================
