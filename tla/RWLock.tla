------------------------------- MODULE RWLock -------------------------------
(***************************************************************************)
(* What the multi-reader single-writer lock of ltfs_locking.h promises.    *)
(* A thread holds nothing, the lock for reading, or the lock for writing;  *)
(* taking it, giving it back and turning a write lock into a read lock are *)
(* each one indivisible step.  The other modules of this project use the   *)
(* lock in this form; module Mrsw is the three-mutex implementation and    *)
(* MrswProofs proves that it implements this specification.                *)
(***************************************************************************)
CONSTANT Threads

VARIABLE held

Init == held = [t \in Threads |-> "none"]

AcquireWrite(t) ==
    /\ \A u \in Threads : held[u] = "none"
    /\ held' = [held EXCEPT ![t] = "write"]

AcquireRead(t) ==
    /\ held[t] = "none"
    /\ \A u \in Threads : held[u] # "write"
    /\ held' = [held EXCEPT ![t] = "read"]

Downgrade(t) ==
    /\ held[t] = "write"
    /\ held' = [held EXCEPT ![t] = "read"]

Release(t) ==
    /\ held[t] # "none"
    /\ held' = [held EXCEPT ![t] = "none"]

Next == \E t \in Threads :
    AcquireWrite(t) \/ AcquireRead(t) \/ Downgrade(t) \/ Release(t)

Spec == Init /\ [][Next]_held
=============================================================================
