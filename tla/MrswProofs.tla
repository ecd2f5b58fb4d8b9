----------------------------- MODULE MrswProofs -----------------------------
(***************************************************************************)
(* The multi-reader single-writer lock is correct for any finite set of    *)
(* threads: IInv is inductive, mutual exclusion and the comment in         *)
(* release_mrsw follow from it, and every step of the three-mutex          *)
(* implementation is a step of RWLock or leaves its state alone.           *)
(***************************************************************************)
EXTENDS Mrsw, FiniteSetTheorems, TLAPS

(* The readers are finitely many, so read_count is a natural number, zero
   exactly when there is no reader. *)
LEMMA ReadersFinite ==
    /\ IsFiniteSet(Readers)
    /\ Cardinality(Readers) \in Nat
    /\ Cardinality(Readers) = 0 <=> Readers = {}
<1>1. Readers \in SUBSET Threads
  BY DEF Readers
<1>2. IsFiniteSet(Readers)
  BY <1>1, ThreadsFinite, FS_Subset
<1> QED
  BY <1>2, FS_CardinalityType, FS_EmptySet

(* Counting one reader more or one less. *)
LEMMA ReadersChange ==
    ASSUME NEW t \in Threads
    PROVE  /\ t \notin Readers => Cardinality(Readers \cup {t}) = Cardinality(Readers) + 1
           /\ t \in Readers => Cardinality(Readers \ {t}) = Cardinality(Readers) - 1
  BY ReadersFinite, FS_AddElement, FS_RemoveElement

(* Init establishes the invariant. *)
LEMMA InitIInv == Init => IInv
<1> SUFFICES ASSUME Init PROVE IInv
  OBVIOUS
<1>1. TypeOK /\ OpsMatch
  BY DEF Init, TypeOK, OpsMatch, PCs, Ops
<1>2. Readers = {}
  BY DEF Init, Readers, ReaderIn
<1>3. Owners
  BY NoneNotThread DEF Init, Owners, OwnsExclusive, OwnsCount, WriterIn
<1>4. ReadCountExact /\ EndsOfReading
  BY <1>2, FS_EmptySet DEF Init, ReadCountExact, EndsOfReading
<1>5. ReadingOwned /\ WriterFlag
  BY <1>2 DEF Init, ReadingOwned, WriterFlag, Writers, WriterIn
<1> QED
  BY <1>1, <1>3, <1>4, <1>5 DEF IInv

(* A step of thread t that neither joins nor leaves the set of readers. *)
LEMMA SameReaders ==
    ASSUME NEW t \in Threads, TypeOK,
           pc' \in [Threads -> PCs], op' \in [Threads -> Ops],
           \A u \in Threads \ {t} : pc'[u] = pc[u] /\ op'[u] = op[u],
           ReaderIn(pc'[t], op'[t]) <=> ReaderIn(pc[t], op[t])
    PROVE  Readers' = Readers
<1>1. \A u \in Threads : ReaderIn(pc'[u], op'[u]) <=> ReaderIn(pc[u], op[u])
  OBVIOUS
<1> QED
  BY <1>1 DEF Readers

(* Taking the lock for writing, or backing out of it, preserves IInv. *)
LEMMA WriteSteps ==
    ASSUME IInv, NEW t \in Threads, Call(t) \/ AcquireWriteStep(t)
    PROVE  IInv'
<1> USE DEF IInv, Goto, SetOp, Lock, Unlock, mutexes, flags
<1>1. CASE Call(t)
  <2>1. TypeOK'
    BY <1>1 DEF Call, TypeOK, PCs, Ops, WriteOps
  <2>2. \A u \in Threads \ {t} : pc'[u] = pc[u] /\ op'[u] = op[u]
    BY <1>1 DEF Call, TypeOK
  <2>3. OpsMatch'
    BY <1>1, <2>2 DEF Call, TypeOK, OpsMatch, WriteOps
  <2>4. Owners'
    BY <1>1, <2>2, NoneNotThread DEF Call, TypeOK, OpsMatch, WriteOps, Owners, OwnsExclusive, OwnsCount, WriterIn
  <2>5. ReaderIn(pc'[t], op'[t]) <=> ReaderIn(pc[t], op[t])
    BY <1>1 DEF Call, TypeOK, ReaderIn, OpsMatch, WriteOps
  <2>6. Readers' = Readers /\ ReadCountExact'
    BY <1>1, <2>1, <2>2, <2>5, SameReaders DEF Call, TypeOK, ReadCountExact
  <2>7. EndsOfReading'
    BY <1>1, <2>2, <2>6, ReadersFinite DEF Call, TypeOK, EndsOfReading, ReadCountExact
  <2>8. ReadingOwned'
    BY <1>1, <2>2, <2>5, <2>6 DEF Call, TypeOK, OpsMatch, WriteOps, Owners, OwnsExclusive, OwnsCount, EndsOfReading, ReadingOwned, Readers, ReaderIn, Writers, WriterIn
  <2>9. WriterFlag'
    BY <1>1, <2>2 DEF Call, TypeOK, OpsMatch, WriteOps, Owners, OwnsExclusive, WriterIn, WriterFlag
  <2> QED
    BY <2>1, <2>3, <2>4, <2>6, <2>7, <2>8, <2>9
<1>2. CASE WriteExclusive(t)
  <2>1. TypeOK'
    BY <1>2 DEF WriteExclusive, TypeOK, PCs, Ops, WriteOps
  <2>2. \A u \in Threads \ {t} : pc'[u] = pc[u] /\ op'[u] = op[u]
    BY <1>2 DEF WriteExclusive, TypeOK
  <2>3. OpsMatch'
    BY <1>2, <2>2 DEF WriteExclusive, TypeOK, OpsMatch, WriteOps
  <2>4. Owners'
    BY <1>2, <2>2, NoneNotThread DEF WriteExclusive, TypeOK, OpsMatch, WriteOps, Owners, OwnsExclusive, OwnsCount, WriterIn
  <2>5. ReaderIn(pc'[t], op'[t]) <=> ReaderIn(pc[t], op[t])
    BY <1>2 DEF WriteExclusive, TypeOK, ReaderIn, OpsMatch, WriteOps
  <2>6. Readers' = Readers /\ ReadCountExact'
    BY <1>2, <2>1, <2>2, <2>5, SameReaders DEF WriteExclusive, TypeOK, ReadCountExact
  <2>7. EndsOfReading'
    BY <1>2, <2>2, <2>6, ReadersFinite DEF WriteExclusive, TypeOK, EndsOfReading, ReadCountExact
  <2>8. ReadingOwned'
    BY <1>2, <2>2, <2>5, <2>6 DEF WriteExclusive, TypeOK, OpsMatch, WriteOps, Owners, OwnsExclusive, OwnsCount, EndsOfReading, ReadingOwned, Readers, ReaderIn, Writers, WriterIn
  <2>9. WriterFlag'
    BY <1>2, <2>2 DEF WriteExclusive, TypeOK, OpsMatch, WriteOps, Owners, OwnsExclusive, WriterIn, WriterFlag
  <2> QED
    BY <2>1, <2>3, <2>4, <2>6, <2>7, <2>8, <2>9
<1>3. CASE WriteReading(t)
  <2>1. TypeOK'
    BY <1>3 DEF WriteReading, TypeOK, PCs, Ops, WriteOps
  <2>2. \A u \in Threads \ {t} : pc'[u] = pc[u] /\ op'[u] = op[u]
    BY <1>3 DEF WriteReading, TypeOK
  <2>3. OpsMatch'
    BY <1>3, <2>2 DEF WriteReading, TypeOK, OpsMatch, WriteOps
  <2>4. Owners'
    BY <1>3, <2>2, NoneNotThread DEF WriteReading, TypeOK, OpsMatch, WriteOps, Owners, OwnsExclusive, OwnsCount, WriterIn
  <2>5. ReaderIn(pc'[t], op'[t]) <=> ReaderIn(pc[t], op[t])
    BY <1>3 DEF WriteReading, TypeOK, ReaderIn, OpsMatch, WriteOps
  <2>6. Readers' = Readers /\ ReadCountExact'
    BY <1>3, <2>1, <2>2, <2>5, SameReaders DEF WriteReading, TypeOK, ReadCountExact
  <2>7. EndsOfReading'
    BY <1>3, <2>2, <2>6, ReadersFinite DEF WriteReading, TypeOK, EndsOfReading, ReadCountExact
  <2>8. ReadingOwned'
    BY <1>3, <2>2, <2>5, <2>6 DEF WriteReading, TypeOK, OpsMatch, WriteOps, Owners, OwnsExclusive, OwnsCount, EndsOfReading, ReadingOwned, Readers, ReaderIn, Writers, WriterIn
  <2>9. WriterFlag'
    BY <1>3, <2>2 DEF WriteReading, TypeOK, OpsMatch, WriteOps, Owners, OwnsExclusive, WriterIn, WriterFlag
  <2> QED
    BY <2>1, <2>3, <2>4, <2>6, <2>7, <2>8, <2>9
<1>4. CASE WriteBackout(t)
  <2>1. TypeOK'
    BY <1>4 DEF WriteBackout, TypeOK, PCs, Ops, WriteOps
  <2>2. \A u \in Threads \ {t} : pc'[u] = pc[u] /\ op'[u] = op[u]
    BY <1>4 DEF WriteBackout, TypeOK
  <2>3. OpsMatch'
    BY <1>4, <2>2 DEF WriteBackout, TypeOK, OpsMatch, WriteOps
  <2>4. Owners'
    BY <1>4, <2>2, NoneNotThread DEF WriteBackout, TypeOK, OpsMatch, WriteOps, Owners, OwnsExclusive, OwnsCount, WriterIn
  <2>5. ReaderIn(pc'[t], op'[t]) <=> ReaderIn(pc[t], op[t])
    BY <1>4 DEF WriteBackout, TypeOK, ReaderIn, OpsMatch, WriteOps
  <2>6. Readers' = Readers /\ ReadCountExact'
    BY <1>4, <2>1, <2>2, <2>5, SameReaders DEF WriteBackout, TypeOK, ReadCountExact
  <2>7. EndsOfReading'
    BY <1>4, <2>2, <2>6, ReadersFinite DEF WriteBackout, TypeOK, EndsOfReading, ReadCountExact
  <2>8. ReadingOwned'
    BY <1>4, <2>2, <2>5, <2>6 DEF WriteBackout, TypeOK, OpsMatch, WriteOps, Owners, OwnsExclusive, OwnsCount, EndsOfReading, ReadingOwned, Readers, ReaderIn, Writers, WriterIn
  <2>9. WriterFlag'
    BY <1>4, <2>2 DEF WriteBackout, TypeOK, OpsMatch, WriteOps, Owners, OwnsExclusive, WriterIn, WriterFlag
  <2> QED
    BY <2>1, <2>3, <2>4, <2>6, <2>7, <2>8, <2>9
<1>5. CASE WriteFlags(t)
  <2>1. TypeOK'
    BY <1>5 DEF WriteFlags, TypeOK, PCs, Ops, WriteOps
  <2>2. \A u \in Threads \ {t} : pc'[u] = pc[u] /\ op'[u] = op[u]
    BY <1>5 DEF WriteFlags, TypeOK
  <2>3. OpsMatch'
    BY <1>5, <2>2 DEF WriteFlags, TypeOK, OpsMatch, WriteOps
  <2>4. Owners'
    BY <1>5, <2>2, NoneNotThread DEF WriteFlags, TypeOK, OpsMatch, WriteOps, Owners, OwnsExclusive, OwnsCount, WriterIn
  <2>5. ReaderIn(pc'[t], op'[t]) <=> ReaderIn(pc[t], op[t])
    BY <1>5 DEF WriteFlags, TypeOK, ReaderIn, OpsMatch, WriteOps
  <2>6. Readers' = Readers /\ ReadCountExact'
    BY <1>5, <2>1, <2>2, <2>5, SameReaders DEF WriteFlags, TypeOK, ReadCountExact
  <2>7. EndsOfReading'
    BY <1>5, <2>2, <2>6, ReadersFinite DEF WriteFlags, TypeOK, EndsOfReading, ReadCountExact
  <2>8. ReadingOwned'
    BY <1>5, <2>2, <2>5, <2>6 DEF WriteFlags, TypeOK, OpsMatch, WriteOps, Owners, OwnsExclusive, OwnsCount, EndsOfReading, ReadingOwned, Readers, ReaderIn, Writers, WriterIn
  <2>9. WriterFlag'
    BY <1>5, <2>2 DEF WriteFlags, TypeOK, OpsMatch, WriteOps, Owners, OwnsExclusive, WriterIn, WriterFlag
  <2> QED
    BY <2>1, <2>3, <2>4, <2>6, <2>7, <2>8, <2>9
<1> QED
  BY <1>1, <1>2, <1>3, <1>4, <1>5 DEF AcquireWriteStep

(* Taking the lock for reading preserves IInv; Count is where a reader joins. *)
LEMMA ReadSteps ==
    ASSUME IInv, NEW t \in Threads, AcquireReadStep(t)
    PROVE  IInv'
<1> USE DEF IInv, Goto, SetOp, Lock, Unlock, mutexes, flags
<1>1. CASE ReadExclusive(t)
  <2>1. TypeOK'
    BY <1>1 DEF ReadExclusive, TypeOK, PCs, Ops, WriteOps
  <2>2. \A u \in Threads \ {t} : pc'[u] = pc[u] /\ op'[u] = op[u]
    BY <1>1 DEF ReadExclusive, TypeOK
  <2>3. OpsMatch'
    BY <1>1, <2>2 DEF ReadExclusive, TypeOK, OpsMatch, WriteOps
  <2>4. Owners'
    BY <1>1, <2>2, NoneNotThread DEF ReadExclusive, TypeOK, OpsMatch, WriteOps, Owners, OwnsExclusive, OwnsCount, WriterIn
  <2>5. ReaderIn(pc'[t], op'[t]) <=> ReaderIn(pc[t], op[t])
    BY <1>1 DEF ReadExclusive, TypeOK, ReaderIn, OpsMatch, WriteOps
  <2>6. Readers' = Readers /\ ReadCountExact'
    BY <1>1, <2>1, <2>2, <2>5, SameReaders DEF ReadExclusive, TypeOK, ReadCountExact
  <2>7. EndsOfReading'
    BY <1>1, <2>2, <2>6, ReadersFinite DEF ReadExclusive, TypeOK, EndsOfReading, ReadCountExact
  <2>8. ReadingOwned'
    BY <1>1, <2>2, <2>5, <2>6 DEF ReadExclusive, TypeOK, OpsMatch, WriteOps, Owners, OwnsExclusive, OwnsCount, EndsOfReading, ReadingOwned, Readers, ReaderIn, Writers, WriterIn
  <2>9. WriterFlag'
    BY <1>1, <2>2 DEF ReadExclusive, TypeOK, OpsMatch, WriteOps, Owners, OwnsExclusive, WriterIn, WriterFlag
  <2> QED
    BY <2>1, <2>3, <2>4, <2>6, <2>7, <2>8, <2>9
<1>2. CASE ReadLong(t)
  <2>1. TypeOK'
    BY <1>2 DEF ReadLong, TypeOK, PCs, Ops, WriteOps
  <2>2. \A u \in Threads \ {t} : pc'[u] = pc[u] /\ op'[u] = op[u]
    BY <1>2 DEF ReadLong, TypeOK
  <2>3. OpsMatch'
    BY <1>2, <2>2 DEF ReadLong, TypeOK, OpsMatch, WriteOps
  <2>4. Owners'
    BY <1>2, <2>2, NoneNotThread DEF ReadLong, TypeOK, OpsMatch, WriteOps, Owners, OwnsExclusive, OwnsCount, WriterIn
  <2>5. ReaderIn(pc'[t], op'[t]) <=> ReaderIn(pc[t], op[t])
    BY <1>2 DEF ReadLong, TypeOK, ReaderIn, OpsMatch, WriteOps
  <2>6. Readers' = Readers /\ ReadCountExact'
    BY <1>2, <2>1, <2>2, <2>5, SameReaders DEF ReadLong, TypeOK, ReadCountExact
  <2>7. EndsOfReading'
    BY <1>2, <2>2, <2>6, ReadersFinite DEF ReadLong, TypeOK, EndsOfReading, ReadCountExact
  <2>8. ReadingOwned'
    BY <1>2, <2>2, <2>5, <2>6 DEF ReadLong, TypeOK, OpsMatch, WriteOps, Owners, OwnsExclusive, OwnsCount, EndsOfReading, ReadingOwned, Readers, ReaderIn, Writers, WriterIn
  <2>9. WriterFlag'
    BY <1>2, <2>2 DEF ReadLong, TypeOK, OpsMatch, WriteOps, Owners, OwnsExclusive, WriterIn, WriterFlag
  <2> QED
    BY <2>1, <2>3, <2>4, <2>6, <2>7, <2>8, <2>9
<1>3. CASE ReadPass(t)
  <2>1. TypeOK'
    BY <1>3 DEF ReadPass, TypeOK, PCs, Ops, WriteOps
  <2>2. \A u \in Threads \ {t} : pc'[u] = pc[u] /\ op'[u] = op[u]
    BY <1>3 DEF ReadPass, TypeOK
  <2>3. OpsMatch'
    BY <1>3, <2>2 DEF ReadPass, TypeOK, OpsMatch, WriteOps
  <2>4. Owners'
    BY <1>3, <2>2, NoneNotThread DEF ReadPass, TypeOK, OpsMatch, WriteOps, Owners, OwnsExclusive, OwnsCount, WriterIn
  <2>5. ReaderIn(pc'[t], op'[t]) <=> ReaderIn(pc[t], op[t])
    BY <1>3 DEF ReadPass, TypeOK, ReaderIn, OpsMatch, WriteOps
  <2>6. Readers' = Readers /\ ReadCountExact'
    BY <1>3, <2>1, <2>2, <2>5, SameReaders DEF ReadPass, TypeOK, ReadCountExact
  <2>7. EndsOfReading'
    BY <1>3, <2>2, <2>6, ReadersFinite DEF ReadPass, TypeOK, EndsOfReading, ReadCountExact
  <2>8. ReadingOwned'
    BY <1>3, <2>2, <2>5, <2>6 DEF ReadPass, TypeOK, OpsMatch, WriteOps, Owners, OwnsExclusive, OwnsCount, EndsOfReading, ReadingOwned, Readers, ReaderIn, Writers, WriterIn
  <2>9. WriterFlag'
    BY <1>3, <2>2 DEF ReadPass, TypeOK, OpsMatch, WriteOps, Owners, OwnsExclusive, WriterIn, WriterFlag
  <2> QED
    BY <2>1, <2>3, <2>4, <2>6, <2>7, <2>8, <2>9
<1>4. CASE ShortCheck(t)
  <2>1. TypeOK'
    BY <1>4 DEF ShortCheck, TypeOK, PCs, Ops, WriteOps
  <2>2. \A u \in Threads \ {t} : pc'[u] = pc[u] /\ op'[u] = op[u]
    BY <1>4 DEF ShortCheck, TypeOK
  <2>3. OpsMatch'
    BY <1>4, <2>2 DEF ShortCheck, TypeOK, OpsMatch, WriteOps
  <2>4. Owners'
    BY <1>4, <2>2, NoneNotThread DEF ShortCheck, TypeOK, OpsMatch, WriteOps, Owners, OwnsExclusive, OwnsCount, WriterIn
  <2>5. ReaderIn(pc'[t], op'[t]) <=> ReaderIn(pc[t], op[t])
    BY <1>4 DEF ShortCheck, TypeOK, ReaderIn, OpsMatch, WriteOps
  <2>6. Readers' = Readers /\ ReadCountExact'
    BY <1>4, <2>1, <2>2, <2>5, SameReaders DEF ShortCheck, TypeOK, ReadCountExact
  <2>7. EndsOfReading'
    BY <1>4, <2>2, <2>6, ReadersFinite DEF ShortCheck, TypeOK, EndsOfReading, ReadCountExact
  <2>8. ReadingOwned'
    BY <1>4, <2>2, <2>5, <2>6 DEF ShortCheck, TypeOK, OpsMatch, WriteOps, Owners, OwnsExclusive, OwnsCount, EndsOfReading, ReadingOwned, Readers, ReaderIn, Writers, WriterIn
  <2>9. WriterFlag'
    BY <1>4, <2>2 DEF ShortCheck, TypeOK, OpsMatch, WriteOps, Owners, OwnsExclusive, WriterIn, WriterFlag
  <2> QED
    BY <2>1, <2>3, <2>4, <2>6, <2>7, <2>8, <2>9
<1>5. CASE ShortTry(t)
  <2>1. TypeOK'
    BY <1>5 DEF ShortTry, TypeOK, PCs, Ops, WriteOps
  <2>2. \A u \in Threads \ {t} : pc'[u] = pc[u] /\ op'[u] = op[u]
    BY <1>5 DEF ShortTry, TypeOK
  <2>3. OpsMatch'
    BY <1>5, <2>2 DEF ShortTry, TypeOK, OpsMatch, WriteOps
  <2>4. Owners'
    BY <1>5, <2>2, NoneNotThread DEF ShortTry, TypeOK, OpsMatch, WriteOps, Owners, OwnsExclusive, OwnsCount, WriterIn
  <2>5. ReaderIn(pc'[t], op'[t]) <=> ReaderIn(pc[t], op[t])
    BY <1>5 DEF ShortTry, TypeOK, ReaderIn, OpsMatch, WriteOps
  <2>6. Readers' = Readers /\ ReadCountExact'
    BY <1>5, <2>1, <2>2, <2>5, SameReaders DEF ShortTry, TypeOK, ReadCountExact
  <2>7. EndsOfReading'
    BY <1>5, <2>2, <2>6, ReadersFinite DEF ShortTry, TypeOK, EndsOfReading, ReadCountExact
  <2>8. ReadingOwned'
    BY <1>5, <2>2, <2>5, <2>6 DEF ShortTry, TypeOK, OpsMatch, WriteOps, Owners, OwnsExclusive, OwnsCount, EndsOfReading, ReadingOwned, Readers, ReaderIn, Writers, WriterIn
  <2>9. WriterFlag'
    BY <1>5, <2>2 DEF ShortTry, TypeOK, OpsMatch, WriteOps, Owners, OwnsExclusive, WriterIn, WriterFlag
  <2> QED
    BY <2>1, <2>3, <2>4, <2>6, <2>7, <2>8, <2>9
<1>6. CASE Enter(t)
  <2>1. TypeOK'
    BY <1>6 DEF Enter, TypeOK, PCs, Ops, WriteOps
  <2>2. \A u \in Threads \ {t} : pc'[u] = pc[u] /\ op'[u] = op[u]
    BY <1>6 DEF Enter, TypeOK
  <2>3. OpsMatch'
    BY <1>6, <2>2 DEF Enter, TypeOK, OpsMatch, WriteOps
  <2>4. Owners'
    BY <1>6, <2>2, NoneNotThread DEF Enter, TypeOK, OpsMatch, WriteOps, Owners, OwnsExclusive, OwnsCount, WriterIn
  <2>5. ReaderIn(pc'[t], op'[t]) <=> ReaderIn(pc[t], op[t])
    BY <1>6 DEF Enter, TypeOK, ReaderIn, OpsMatch, WriteOps
  <2>6. Readers' = Readers /\ ReadCountExact'
    BY <1>6, <2>1, <2>2, <2>5, SameReaders DEF Enter, TypeOK, ReadCountExact
  <2>7. EndsOfReading'
    BY <1>6, <2>2, <2>6, ReadersFinite DEF Enter, TypeOK, EndsOfReading, ReadCountExact
  <2>8. ReadingOwned'
    BY <1>6, <2>2, <2>5, <2>6 DEF Enter, TypeOK, OpsMatch, WriteOps, Owners, OwnsExclusive, OwnsCount, EndsOfReading, ReadingOwned, Readers, ReaderIn, Writers, WriterIn
  <2>9. WriterFlag'
    BY <1>6, <2>2 DEF Enter, TypeOK, OpsMatch, WriteOps, Owners, OwnsExclusive, WriterIn, WriterFlag
  <2> QED
    BY <2>1, <2>3, <2>4, <2>6, <2>7, <2>8, <2>9
<1>7. CASE Count(t)
  <2>1. TypeOK'
    BY <1>7 DEF Count, TypeOK, PCs, Ops, WriteOps
  <2>2. \A u \in Threads \ {t} : pc'[u] = pc[u] /\ op'[u] = op[u]
    BY <1>7 DEF Count, TypeOK
  <2>3. OpsMatch'
    BY <1>7, <2>2 DEF Count, TypeOK, OpsMatch, WriteOps
  <2>4. Owners'
    BY <1>7, <2>2, NoneNotThread DEF Count, TypeOK, OpsMatch, WriteOps, Owners, OwnsExclusive, OwnsCount, WriterIn
  <2>5. Readers' = Readers \cup {t} /\ t \notin Readers
    BY <1>7, <2>2 DEF Count, TypeOK, Readers, ReaderIn
  <2>6. ReadCountExact'
    BY <1>7, <2>5, ReadersChange, ReadersFinite DEF Count, TypeOK, ReadCountExact
  <2>7. EndsOfReading'
    BY <1>7, <2>2, <2>5, ReadersFinite DEF Count, TypeOK, EndsOfReading, ReadCountExact, Owners, OwnsCount
  <2>8. ReadingOwned'
    <3>1. \A u \in Readers : pc[u] # "first"
      BY <1>7 DEF Count, TypeOK, Owners, OwnsCount, Readers
    <3>2. Readers = {} <=> pc'[t] = "first"
      BY <1>7, ReadersFinite DEF Count, TypeOK, ReadCountExact
    <3>3. Writers' = Writers
      BY <1>7, <2>2 DEF Count, TypeOK, Writers, WriterIn
    <3>4. pc'[t] \in {"first", "entered"} /\ ~WriterIn(pc[t], op[t])
      BY <1>7 DEF Count, TypeOK, WriterIn
    <3>5. \A u \in Writers : Readers = {}
      BY <3>1 DEF ReadingOwned, Readers
    <3>6. reading_mutex' = reading_mutex
      BY <1>7 DEF Count
    <3>7. \A u \in Readers : pc'[u] = pc[u]
      BY <2>2, <2>5 DEF Readers
    <3>8. CASE Readers = {}
      <4>1. Readers' = {t} /\ pc'[t] = "first"
        BY <2>5, <3>2, <3>8
      <4>2. \A u \in Threads : /\ WriterIn(pc'[u], op'[u]) <=> WriterIn(pc[u], op[u])
                              /\ pc'[u] = "rr_last" <=> pc[u] = "rr_last"
        BY <1>7, <2>2, <3>4 DEF Count, TypeOK, WriterIn
      <4> QED
        BY <3>3, <3>6, <3>8, <4>1, <4>2 DEF ReadingOwned, Writers
    <3>9. CASE Readers # {}
      <4>1. reading_mutex /\ Writers = {}
        BY <3>1, <3>5, <3>9 DEF ReadingOwned, Readers
      <4>2. t \in Readers' /\ pc'[t] # "first"
        BY <2>5, <3>2, <3>9
      <4> QED
        BY <3>3, <3>6, <4>1, <4>2 DEF ReadingOwned
    <3> QED
      BY <3>8, <3>9
  <2>9. WriterFlag'
    BY <1>7, <2>2 DEF Count, TypeOK, OpsMatch, WriteOps, Owners, OwnsExclusive, WriterIn, WriterFlag
  <2> QED
    BY <2>1, <2>3, <2>4, <2>6, <2>7, <2>8, <2>9
<1>8. CASE First(t)
  <2>1. TypeOK'
    BY <1>8 DEF First, TypeOK, PCs, Ops, WriteOps
  <2>2. \A u \in Threads \ {t} : pc'[u] = pc[u] /\ op'[u] = op[u]
    BY <1>8 DEF First, TypeOK
  <2>3. OpsMatch'
    BY <1>8, <2>2 DEF First, TypeOK, OpsMatch, WriteOps
  <2>4. Owners'
    BY <1>8, <2>2, NoneNotThread DEF First, TypeOK, OpsMatch, WriteOps, Owners, OwnsExclusive, OwnsCount, WriterIn
  <2>5. ReaderIn(pc'[t], op'[t]) <=> ReaderIn(pc[t], op[t])
    BY <1>8 DEF First, TypeOK, ReaderIn, OpsMatch, WriteOps
  <2>6. Readers' = Readers /\ ReadCountExact'
    BY <1>8, <2>1, <2>2, <2>5, SameReaders DEF First, TypeOK, ReadCountExact
  <2>7. EndsOfReading'
    BY <1>8, <2>2, <2>6, ReadersFinite DEF First, TypeOK, EndsOfReading, ReadCountExact
  <2>8. ReadingOwned'
    BY <1>8, <2>2, <2>5, <2>6 DEF First, TypeOK, OpsMatch, WriteOps, Owners, OwnsExclusive, OwnsCount, EndsOfReading, ReadingOwned, Readers, ReaderIn, Writers, WriterIn
  <2>9. WriterFlag'
    BY <1>8, <2>2 DEF First, TypeOK, OpsMatch, WriteOps, Owners, OwnsExclusive, WriterIn, WriterFlag
  <2> QED
    BY <2>1, <2>3, <2>4, <2>6, <2>7, <2>8, <2>9
<1>9. CASE Entered(t)
  <2>1. TypeOK'
    BY <1>9 DEF Entered, TypeOK, PCs, Ops, WriteOps
  <2>2. \A u \in Threads \ {t} : pc'[u] = pc[u] /\ op'[u] = op[u]
    BY <1>9 DEF Entered, TypeOK
  <2>3. OpsMatch'
    BY <1>9, <2>2 DEF Entered, TypeOK, OpsMatch, WriteOps
  <2>4. Owners'
    BY <1>9, <2>2, NoneNotThread DEF Entered, TypeOK, OpsMatch, WriteOps, Owners, OwnsExclusive, OwnsCount, WriterIn
  <2>5. ReaderIn(pc'[t], op'[t]) <=> ReaderIn(pc[t], op[t])
    BY <1>9 DEF Entered, TypeOK, ReaderIn, OpsMatch, WriteOps
  <2>6. Readers' = Readers /\ ReadCountExact'
    BY <1>9, <2>1, <2>2, <2>5, SameReaders DEF Entered, TypeOK, ReadCountExact
  <2>7. EndsOfReading'
    BY <1>9, <2>2, <2>6, ReadersFinite DEF Entered, TypeOK, EndsOfReading, ReadCountExact
  <2>8. ReadingOwned'
    BY <1>9, <2>2, <2>5, <2>6 DEF Entered, TypeOK, OpsMatch, WriteOps, Owners, OwnsExclusive, OwnsCount, EndsOfReading, ReadingOwned, Readers, ReaderIn, Writers, WriterIn
  <2>9. WriterFlag'
    BY <1>9, <2>2 DEF Entered, TypeOK, OpsMatch, WriteOps, Owners, OwnsExclusive, WriterIn, WriterFlag
  <2> QED
    BY <2>1, <2>3, <2>4, <2>6, <2>7, <2>8, <2>9
<1> QED
  BY <1>1, <1>2, <1>3, <1>4, <1>5, <1>6, <1>7, <1>8, <1>9 DEF AcquireReadStep

(* What release_mrsw reads: the writer flag is raised exactly when the thread
   that calls it is the writer. *)
LEMMA ReleaseReadsFlag ==
    ASSUME IInv
    PROVE  ReleaseTellsWriter
<1> SUFFICES ASSUME NEW t \in Threads, pc[t] = "release"
             PROVE  writer = 1 <=> op[t] = "releasewrite"
  BY DEF ReleaseTellsWriter
<1>1. CASE op[t] = "releasewrite"
  BY <1>1 DEF IInv, WriterFlag
<1>2. CASE op[t] = "releaseread"
  <2>1. t \in Readers /\ pc[t] # "first"
    BY <1>2 DEF Readers, ReaderIn
  <2>2. Writers = {}
    BY <2>1 DEF IInv, ReadingOwned, Writers
  <2> QED
    BY <1>2, <2>2 DEF IInv, WriterFlag, Writers, WriterIn
<1> QED
  BY <1>1, <1>2 DEF IInv, OpsMatch

(* Giving the lock back or downgrading it preserves IInv; ReleaseReadCount is
   where a reader leaves. *)
LEMMA ReleaseSteps ==
    ASSUME IInv, NEW t \in Threads, ReleaseStep(t)
    PROVE  IInv'
<1> USE DEF IInv, Goto, SetOp, Lock, Unlock, mutexes, flags
<1>1. CASE CallRelease(t)
  <2>1. TypeOK'
    BY <1>1 DEF CallRelease, TypeOK, PCs, Ops, WriteOps
  <2>2. \A u \in Threads \ {t} : pc'[u] = pc[u] /\ op'[u] = op[u]
    BY <1>1 DEF CallRelease, TypeOK
  <2>3. OpsMatch'
    BY <1>1, <2>2 DEF CallRelease, TypeOK, OpsMatch, WriteOps
  <2>4. Owners'
    BY <1>1, <2>2, NoneNotThread DEF CallRelease, TypeOK, OpsMatch, WriteOps, Owners, OwnsExclusive, OwnsCount, WriterIn
  <2>5. ReaderIn(pc'[t], op'[t]) <=> ReaderIn(pc[t], op[t])
    BY <1>1 DEF CallRelease, TypeOK, ReaderIn, OpsMatch, WriteOps
  <2>6. Readers' = Readers /\ ReadCountExact'
    BY <1>1, <2>1, <2>2, <2>5, SameReaders DEF CallRelease, TypeOK, ReadCountExact
  <2>7. EndsOfReading'
    BY <1>1, <2>2, <2>6, ReadersFinite DEF CallRelease, TypeOK, EndsOfReading, ReadCountExact
  <2>8. ReadingOwned'
    BY <1>1, <2>2, <2>5, <2>6 DEF CallRelease, TypeOK, OpsMatch, WriteOps, Owners, OwnsExclusive, OwnsCount, EndsOfReading, ReadingOwned, Readers, ReaderIn, Writers, WriterIn
  <2>9. WriterFlag'
    BY <1>1, <2>2 DEF CallRelease, TypeOK, OpsMatch, WriteOps, Owners, OwnsExclusive, WriterIn, WriterFlag
  <2> QED
    BY <2>1, <2>3, <2>4, <2>6, <2>7, <2>8, <2>9
<1>2. CASE Release(t)
  <2>0. pc[t] = "release" /\ (writer = 1 <=> op[t] = "releasewrite")
    BY <1>2, ReleaseReadsFlag DEF Release, ReleaseTellsWriter
  <2>1. TypeOK'
    BY <1>2 DEF Release, TypeOK, PCs, Ops, WriteOps
  <2>2. \A u \in Threads \ {t} : pc'[u] = pc[u] /\ op'[u] = op[u]
    BY <1>2 DEF Release, TypeOK
  <2>3. OpsMatch'
    BY <1>2, <2>0, <2>2 DEF Release, TypeOK, OpsMatch, WriteOps
  <2>4. Owners'
    BY <1>2, <2>0, <2>2, NoneNotThread DEF Release, TypeOK, OpsMatch, WriteOps, Owners, OwnsExclusive, OwnsCount, WriterIn
  <2>5. ReaderIn(pc'[t], op'[t]) <=> ReaderIn(pc[t], op[t])
    BY <1>2, <2>0 DEF Release, TypeOK, ReaderIn, OpsMatch, WriteOps
  <2>6. Readers' = Readers /\ ReadCountExact'
    BY <1>2, <2>1, <2>2, <2>5, SameReaders DEF Release, TypeOK, ReadCountExact
  <2>7. EndsOfReading'
    BY <1>2, <2>2, <2>6, ReadersFinite DEF Release, TypeOK, EndsOfReading, ReadCountExact
  <2>8. ReadingOwned'
    BY <1>2, <2>2, <2>5, <2>6 DEF Release, TypeOK, OpsMatch, WriteOps, Owners, OwnsExclusive, OwnsCount, EndsOfReading, ReadingOwned, Readers, ReaderIn, Writers, WriterIn
  <2>9. WriterFlag'
    BY <1>2, <2>2 DEF Release, TypeOK, OpsMatch, WriteOps, Owners, OwnsExclusive, WriterIn, WriterFlag
  <2> QED
    BY <2>1, <2>3, <2>4, <2>6, <2>7, <2>8, <2>9
<1>3. CASE ReleaseWriteFlags(t)
  <2>1. TypeOK'
    BY <1>3 DEF ReleaseWriteFlags, TypeOK, PCs, Ops, WriteOps
  <2>2. \A u \in Threads \ {t} : pc'[u] = pc[u] /\ op'[u] = op[u]
    BY <1>3 DEF ReleaseWriteFlags, TypeOK
  <2>3. OpsMatch'
    BY <1>3, <2>2 DEF ReleaseWriteFlags, TypeOK, OpsMatch, WriteOps
  <2>4. Owners'
    BY <1>3, <2>2, NoneNotThread DEF ReleaseWriteFlags, TypeOK, OpsMatch, WriteOps, Owners, OwnsExclusive, OwnsCount, WriterIn
  <2>5. ReaderIn(pc'[t], op'[t]) <=> ReaderIn(pc[t], op[t])
    BY <1>3 DEF ReleaseWriteFlags, TypeOK, ReaderIn, OpsMatch, WriteOps
  <2>6. Readers' = Readers /\ ReadCountExact'
    BY <1>3, <2>1, <2>2, <2>5, SameReaders DEF ReleaseWriteFlags, TypeOK, ReadCountExact
  <2>7. EndsOfReading'
    BY <1>3, <2>2, <2>6, ReadersFinite DEF ReleaseWriteFlags, TypeOK, EndsOfReading, ReadCountExact
  <2>8. ReadingOwned'
    BY <1>3, <2>2, <2>5, <2>6 DEF ReleaseWriteFlags, TypeOK, OpsMatch, WriteOps, Owners, OwnsExclusive, OwnsCount, EndsOfReading, ReadingOwned, Readers, ReaderIn, Writers, WriterIn
  <2>9. WriterFlag'
    BY <1>3, <2>2 DEF ReleaseWriteFlags, TypeOK, OpsMatch, WriteOps, Owners, OwnsExclusive, WriterIn, WriterFlag
  <2> QED
    BY <2>1, <2>3, <2>4, <2>6, <2>7, <2>8, <2>9
<1>4. CASE ReleaseWriteReading(t)
  <2>1. TypeOK'
    BY <1>4 DEF ReleaseWriteReading, TypeOK, PCs, Ops, WriteOps
  <2>2. \A u \in Threads \ {t} : pc'[u] = pc[u] /\ op'[u] = op[u]
    BY <1>4 DEF ReleaseWriteReading, TypeOK
  <2>3. OpsMatch'
    BY <1>4, <2>2 DEF ReleaseWriteReading, TypeOK, OpsMatch, WriteOps
  <2>4. Owners'
    BY <1>4, <2>2, NoneNotThread DEF ReleaseWriteReading, TypeOK, OpsMatch, WriteOps, Owners, OwnsExclusive, OwnsCount, WriterIn
  <2>5. ReaderIn(pc'[t], op'[t]) <=> ReaderIn(pc[t], op[t])
    BY <1>4 DEF ReleaseWriteReading, TypeOK, ReaderIn, OpsMatch, WriteOps
  <2>6. Readers' = Readers /\ ReadCountExact'
    BY <1>4, <2>1, <2>2, <2>5, SameReaders DEF ReleaseWriteReading, TypeOK, ReadCountExact
  <2>7. EndsOfReading'
    BY <1>4, <2>2, <2>6, ReadersFinite DEF ReleaseWriteReading, TypeOK, EndsOfReading, ReadCountExact
  <2>8. ReadingOwned'
    BY <1>4, <2>2, <2>5, <2>6 DEF ReleaseWriteReading, TypeOK, OpsMatch, WriteOps, Owners, OwnsExclusive, OwnsCount, EndsOfReading, ReadingOwned, Readers, ReaderIn, Writers, WriterIn
  <2>9. WriterFlag'
    BY <1>4, <2>2 DEF ReleaseWriteReading, TypeOK, OpsMatch, WriteOps, Owners, OwnsExclusive, WriterIn, WriterFlag
  <2> QED
    BY <2>1, <2>3, <2>4, <2>6, <2>7, <2>8, <2>9
<1>5. CASE ReleaseWriteExclusive(t)
  <2>1. TypeOK'
    BY <1>5 DEF ReleaseWriteExclusive, TypeOK, PCs, Ops, WriteOps
  <2>2. \A u \in Threads \ {t} : pc'[u] = pc[u] /\ op'[u] = op[u]
    BY <1>5 DEF ReleaseWriteExclusive, TypeOK
  <2>3. OpsMatch'
    BY <1>5, <2>2 DEF ReleaseWriteExclusive, TypeOK, OpsMatch, WriteOps
  <2>4. Owners'
    BY <1>5, <2>2, NoneNotThread DEF ReleaseWriteExclusive, TypeOK, OpsMatch, WriteOps, Owners, OwnsExclusive, OwnsCount, WriterIn
  <2>5. ReaderIn(pc'[t], op'[t]) <=> ReaderIn(pc[t], op[t])
    BY <1>5 DEF ReleaseWriteExclusive, TypeOK, ReaderIn, OpsMatch, WriteOps
  <2>6. Readers' = Readers /\ ReadCountExact'
    BY <1>5, <2>1, <2>2, <2>5, SameReaders DEF ReleaseWriteExclusive, TypeOK, ReadCountExact
  <2>7. EndsOfReading'
    BY <1>5, <2>2, <2>6, ReadersFinite DEF ReleaseWriteExclusive, TypeOK, EndsOfReading, ReadCountExact
  <2>8. ReadingOwned'
    BY <1>5, <2>2, <2>5, <2>6 DEF ReleaseWriteExclusive, TypeOK, OpsMatch, WriteOps, Owners, OwnsExclusive, OwnsCount, EndsOfReading, ReadingOwned, Readers, ReaderIn, Writers, WriterIn
  <2>9. WriterFlag'
    BY <1>5, <2>2 DEF ReleaseWriteExclusive, TypeOK, OpsMatch, WriteOps, Owners, OwnsExclusive, WriterIn, WriterFlag
  <2> QED
    BY <2>1, <2>3, <2>4, <2>6, <2>7, <2>8, <2>9
<1>6. CASE ReleaseReadEnter(t)
  <2>1. TypeOK'
    BY <1>6 DEF ReleaseReadEnter, TypeOK, PCs, Ops, WriteOps
  <2>2. \A u \in Threads \ {t} : pc'[u] = pc[u] /\ op'[u] = op[u]
    BY <1>6 DEF ReleaseReadEnter, TypeOK
  <2>3. OpsMatch'
    BY <1>6, <2>2 DEF ReleaseReadEnter, TypeOK, OpsMatch, WriteOps
  <2>4. Owners'
    BY <1>6, <2>2, NoneNotThread DEF ReleaseReadEnter, TypeOK, OpsMatch, WriteOps, Owners, OwnsExclusive, OwnsCount, WriterIn
  <2>5. ReaderIn(pc'[t], op'[t]) <=> ReaderIn(pc[t], op[t])
    BY <1>6 DEF ReleaseReadEnter, TypeOK, ReaderIn, OpsMatch, WriteOps
  <2>6. Readers' = Readers /\ ReadCountExact'
    BY <1>6, <2>1, <2>2, <2>5, SameReaders DEF ReleaseReadEnter, TypeOK, ReadCountExact
  <2>7. EndsOfReading'
    BY <1>6, <2>2, <2>6, ReadersFinite DEF ReleaseReadEnter, TypeOK, EndsOfReading, ReadCountExact
  <2>8. ReadingOwned'
    BY <1>6, <2>2, <2>5, <2>6 DEF ReleaseReadEnter, TypeOK, OpsMatch, WriteOps, Owners, OwnsExclusive, OwnsCount, EndsOfReading, ReadingOwned, Readers, ReaderIn, Writers, WriterIn
  <2>9. WriterFlag'
    BY <1>6, <2>2 DEF ReleaseReadEnter, TypeOK, OpsMatch, WriteOps, Owners, OwnsExclusive, WriterIn, WriterFlag
  <2> QED
    BY <2>1, <2>3, <2>4, <2>6, <2>7, <2>8, <2>9
<1>7. CASE ReleaseReadCount(t)
  <2>1. TypeOK'
    BY <1>7 DEF ReleaseReadCount, TypeOK, PCs, Ops, WriteOps
  <2>2. \A u \in Threads \ {t} : pc'[u] = pc[u] /\ op'[u] = op[u]
    BY <1>7 DEF ReleaseReadCount, TypeOK
  <2>3. OpsMatch'
    BY <1>7, <2>2 DEF ReleaseReadCount, TypeOK, OpsMatch, WriteOps
  <2>4. Owners'
    BY <1>7, <2>2, NoneNotThread DEF ReleaseReadCount, TypeOK, OpsMatch, WriteOps, Owners, OwnsExclusive, OwnsCount, WriterIn
  <2>5. Readers' = Readers \ {t} /\ t \in Readers
    BY <1>7, <2>2 DEF ReleaseReadCount, TypeOK, Readers, ReaderIn, OpsMatch
  <2>6. ReadCountExact'
    BY <1>7, <2>5, ReadersChange, ReadersFinite DEF ReleaseReadCount, TypeOK, ReadCountExact
  <2>7. EndsOfReading'
    <3>1. read_count = 1 <=> Readers \ {t} = {}
      <4>1. IsFiniteSet(Readers \ {t}) /\ Cardinality(Readers \ {t}) = read_count - 1
        BY <2>5, ReadersChange, ReadersFinite, FS_RemoveElement DEF ReadCountExact
      <4> QED
        BY <4>1, FS_EmptySet DEF TypeOK
    <3>2. pc'[t] = "rr_last" <=> Readers' = {}
      BY <1>7, <2>5, <3>1 DEF ReleaseReadCount, TypeOK
    <3>3. \A u \in Threads : pc'[u] \notin {"first"} /\ (pc'[u] = "rr_last" => u = t)
      BY <1>7, <2>2 DEF ReleaseReadCount, TypeOK, Owners, OwnsCount
    <3> QED
      BY <3>2, <3>3 DEF EndsOfReading
  <2>8. ReadingOwned'
    <3>1. reading_mutex /\ reading_mutex'
      BY <1>7, <2>5 DEF ReleaseReadCount, TypeOK, ReadingOwned, Readers
    <3>2. Writers = {} /\ Writers' = {}
      BY <1>7, <2>2, <2>5 DEF ReleaseReadCount, TypeOK, ReadingOwned, Readers, Writers, WriterIn
    <3>3. pc'[t] = "rr_last" \/ \E u \in Readers' : pc'[u] # "first"
      <4>1. CASE read_count = 1
        BY <1>7, <4>1 DEF ReleaseReadCount, TypeOK
      <4>2. CASE read_count # 1
        <5>1. Readers' # {}
          BY <2>5, <2>6, <1>7, <4>2, ReadersChange, ReadersFinite, FS_EmptySet
             DEF ReleaseReadCount, TypeOK, ReadCountExact
        <5>2. \A u \in Readers' : pc'[u] # "first"
          BY <1>7, <2>2, <2>5 DEF ReleaseReadCount, TypeOK, Owners, OwnsCount, Readers
        <5> QED
          BY <5>1, <5>2
      <4> QED
        BY <4>1, <4>2
    <3> QED
      BY <3>1, <3>2, <3>3 DEF ReadingOwned, Readers
  <2>9. WriterFlag'
    BY <1>7, <2>2 DEF ReleaseReadCount, TypeOK, OpsMatch, WriteOps, Owners, OwnsExclusive, WriterIn, WriterFlag
  <2> QED
    BY <2>1, <2>3, <2>4, <2>6, <2>7, <2>8, <2>9
<1>8. CASE ReleaseReadLast(t)
  <2>1. TypeOK'
    BY <1>8 DEF ReleaseReadLast, TypeOK, PCs, Ops, WriteOps
  <2>2. \A u \in Threads \ {t} : pc'[u] = pc[u] /\ op'[u] = op[u]
    BY <1>8 DEF ReleaseReadLast, TypeOK
  <2>3. OpsMatch'
    BY <1>8, <2>2 DEF ReleaseReadLast, TypeOK, OpsMatch, WriteOps
  <2>4. Owners'
    BY <1>8, <2>2, NoneNotThread DEF ReleaseReadLast, TypeOK, OpsMatch, WriteOps, Owners, OwnsExclusive, OwnsCount, WriterIn
  <2>5. ReaderIn(pc'[t], op'[t]) <=> ReaderIn(pc[t], op[t])
    BY <1>8 DEF ReleaseReadLast, TypeOK, ReaderIn, OpsMatch, WriteOps
  <2>6. Readers' = Readers /\ ReadCountExact'
    BY <1>8, <2>1, <2>2, <2>5, SameReaders DEF ReleaseReadLast, TypeOK, ReadCountExact
  <2>7. EndsOfReading'
    BY <1>8, <2>2, <2>6, ReadersFinite DEF ReleaseReadLast, TypeOK, EndsOfReading, ReadCountExact
  <2>8. ReadingOwned'
    BY <1>8, <2>2, <2>5, <2>6 DEF ReleaseReadLast, TypeOK, OpsMatch, WriteOps, Owners, OwnsExclusive, OwnsCount, EndsOfReading, ReadingOwned, Readers, ReaderIn, Writers, WriterIn
  <2>9. WriterFlag'
    BY <1>8, <2>2 DEF ReleaseReadLast, TypeOK, OpsMatch, WriteOps, Owners, OwnsExclusive, WriterIn, WriterFlag
  <2> QED
    BY <2>1, <2>3, <2>4, <2>6, <2>7, <2>8, <2>9
<1>9. CASE ReleaseReadLeave(t)
  <2>1. TypeOK'
    BY <1>9 DEF ReleaseReadLeave, TypeOK, PCs, Ops, WriteOps
  <2>2. \A u \in Threads \ {t} : pc'[u] = pc[u] /\ op'[u] = op[u]
    BY <1>9 DEF ReleaseReadLeave, TypeOK
  <2>3. OpsMatch'
    BY <1>9, <2>2 DEF ReleaseReadLeave, TypeOK, OpsMatch, WriteOps
  <2>4. Owners'
    BY <1>9, <2>2, NoneNotThread DEF ReleaseReadLeave, TypeOK, OpsMatch, WriteOps, Owners, OwnsExclusive, OwnsCount, WriterIn
  <2>5. ReaderIn(pc'[t], op'[t]) <=> ReaderIn(pc[t], op[t])
    BY <1>9 DEF ReleaseReadLeave, TypeOK, ReaderIn, OpsMatch, WriteOps
  <2>6. Readers' = Readers /\ ReadCountExact'
    BY <1>9, <2>1, <2>2, <2>5, SameReaders DEF ReleaseReadLeave, TypeOK, ReadCountExact
  <2>7. EndsOfReading'
    BY <1>9, <2>2, <2>6, ReadersFinite DEF ReleaseReadLeave, TypeOK, EndsOfReading, ReadCountExact
  <2>8. ReadingOwned'
    BY <1>9, <2>2, <2>5, <2>6 DEF ReleaseReadLeave, TypeOK, OpsMatch, WriteOps, Owners, OwnsExclusive, OwnsCount, EndsOfReading, ReadingOwned, Readers, ReaderIn, Writers, WriterIn
  <2>9. WriterFlag'
    BY <1>9, <2>2 DEF ReleaseReadLeave, TypeOK, OpsMatch, WriteOps, Owners, OwnsExclusive, WriterIn, WriterFlag
  <2> QED
    BY <2>1, <2>3, <2>4, <2>6, <2>7, <2>8, <2>9
<1>10. CASE DowngradeFlags(t)
  <2>1. TypeOK'
    BY <1>10 DEF DowngradeFlags, TypeOK, PCs, Ops, WriteOps
  <2>2. \A u \in Threads \ {t} : pc'[u] = pc[u] /\ op'[u] = op[u]
    BY <1>10 DEF DowngradeFlags, TypeOK
  <2>3. OpsMatch'
    BY <1>10, <2>2 DEF DowngradeFlags, TypeOK, OpsMatch, WriteOps
  <2>4. Owners'
    BY <1>10, <2>2, NoneNotThread DEF DowngradeFlags, TypeOK, OpsMatch, WriteOps, Owners, OwnsExclusive, OwnsCount, WriterIn
  <2>5. ReaderIn(pc'[t], op'[t]) <=> ReaderIn(pc[t], op[t])
    BY <1>10 DEF DowngradeFlags, TypeOK, ReaderIn, OpsMatch, WriteOps
  <2>6. Readers' = Readers /\ ReadCountExact'
    BY <1>10, <2>1, <2>2, <2>5, SameReaders DEF DowngradeFlags, TypeOK, ReadCountExact
  <2>7. EndsOfReading'
    BY <1>10, <2>2, <2>6, ReadersFinite DEF DowngradeFlags, TypeOK, EndsOfReading, ReadCountExact
  <2>8. ReadingOwned'
    BY <1>10, <2>2, <2>5, <2>6 DEF DowngradeFlags, TypeOK, OpsMatch, WriteOps, Owners, OwnsExclusive, OwnsCount, EndsOfReading, ReadingOwned, Readers, ReaderIn, Writers, WriterIn
  <2>9. WriterFlag'
    BY <1>10, <2>2 DEF DowngradeFlags, TypeOK, OpsMatch, WriteOps, Owners, OwnsExclusive, WriterIn, WriterFlag
  <2> QED
    BY <2>1, <2>3, <2>4, <2>6, <2>7, <2>8, <2>9
<1>11. CASE DowngradeReading(t)
  <2>1. TypeOK'
    BY <1>11 DEF DowngradeReading, TypeOK, PCs, Ops, WriteOps
  <2>2. \A u \in Threads \ {t} : pc'[u] = pc[u] /\ op'[u] = op[u]
    BY <1>11 DEF DowngradeReading, TypeOK
  <2>3. OpsMatch'
    BY <1>11, <2>2 DEF DowngradeReading, TypeOK, OpsMatch, WriteOps
  <2>4. Owners'
    BY <1>11, <2>2, NoneNotThread DEF DowngradeReading, TypeOK, OpsMatch, WriteOps, Owners, OwnsExclusive, OwnsCount, WriterIn
  <2>5. ReaderIn(pc'[t], op'[t]) <=> ReaderIn(pc[t], op[t])
    BY <1>11 DEF DowngradeReading, TypeOK, ReaderIn, OpsMatch, WriteOps
  <2>6. Readers' = Readers /\ ReadCountExact'
    BY <1>11, <2>1, <2>2, <2>5, SameReaders DEF DowngradeReading, TypeOK, ReadCountExact
  <2>7. EndsOfReading'
    BY <1>11, <2>2, <2>6, ReadersFinite DEF DowngradeReading, TypeOK, EndsOfReading, ReadCountExact
  <2>8. ReadingOwned'
    BY <1>11, <2>2, <2>5, <2>6 DEF DowngradeReading, TypeOK, OpsMatch, WriteOps, Owners, OwnsExclusive, OwnsCount, EndsOfReading, ReadingOwned, Readers, ReaderIn, Writers, WriterIn
  <2>9. WriterFlag'
    BY <1>11, <2>2 DEF DowngradeReading, TypeOK, OpsMatch, WriteOps, Owners, OwnsExclusive, WriterIn, WriterFlag
  <2> QED
    BY <2>1, <2>3, <2>4, <2>6, <2>7, <2>8, <2>9
<1>12. CASE DropExclusive(t)
  <2>1. TypeOK'
    BY <1>12 DEF DropExclusive, TypeOK, PCs, Ops, WriteOps
  <2>2. \A u \in Threads \ {t} : pc'[u] = pc[u] /\ op'[u] = op[u]
    BY <1>12 DEF DropExclusive, TypeOK
  <2>3. OpsMatch'
    BY <1>12, <2>2 DEF DropExclusive, TypeOK, OpsMatch, WriteOps
  <2>4. Owners'
    BY <1>12, <2>2, NoneNotThread DEF DropExclusive, TypeOK, OpsMatch, WriteOps, Owners, OwnsExclusive, OwnsCount, WriterIn
  <2>5. ReaderIn(pc'[t], op'[t]) <=> ReaderIn(pc[t], op[t])
    BY <1>12 DEF DropExclusive, TypeOK, ReaderIn, OpsMatch, WriteOps
  <2>6. Readers' = Readers /\ ReadCountExact'
    BY <1>12, <2>1, <2>2, <2>5, SameReaders DEF DropExclusive, TypeOK, ReadCountExact
  <2>7. EndsOfReading'
    BY <1>12, <2>2, <2>6, ReadersFinite DEF DropExclusive, TypeOK, EndsOfReading, ReadCountExact
  <2>8. ReadingOwned'
    BY <1>12, <2>2, <2>5, <2>6 DEF DropExclusive, TypeOK, OpsMatch, WriteOps, Owners, OwnsExclusive, OwnsCount, EndsOfReading, ReadingOwned, Readers, ReaderIn, Writers, WriterIn
  <2>9. WriterFlag'
    BY <1>12, <2>2 DEF DropExclusive, TypeOK, OpsMatch, WriteOps, Owners, OwnsExclusive, WriterIn, WriterFlag
  <2> QED
    BY <2>1, <2>3, <2>4, <2>6, <2>7, <2>8, <2>9
<1> QED
  BY <1>1, <1>2, <1>3, <1>4, <1>5, <1>6, <1>7, <1>8, <1>9, <1>10, <1>11, <1>12 DEF ReleaseStep

(* Every step preserves the invariant. *)
LEMMA NextIInv == IInv /\ [Next]_vars => IInv'
<1> SUFFICES ASSUME IInv, [Next]_vars PROVE IInv'
  OBVIOUS
<1>1. CASE Next
  BY <1>1, WriteSteps, ReadSteps, ReleaseSteps DEF Next, Step
<1>2. CASE UNCHANGED vars
  BY <1>2 DEF vars, IInv, TypeOK, OpsMatch, Owners, OwnsExclusive, OwnsCount, ReadCountExact, EndsOfReading,
              ReadingOwned, WriterFlag, Readers, ReaderIn, Writers, WriterIn
<1> QED
  BY <1>1, <1>2

(* The inductive invariant holds in every reachable state, so the variables
   keep their types for any finite set of threads. *)
THEOREM TypeCorrect == Spec => []IInv /\ []TypeOK
<1>1. IInv => TypeOK
  BY DEF IInv
<1> QED
  BY <1>1, InitIInv, NextIInv, PTL DEF Spec

(* A thread inside the write lock of ltfs_locking.h is alone, and the flag
   release_mrsw reads tells the caller's own lock. *)
THEOREM LockSafe == Spec => []MutualExclusion /\ []ReleaseTellsWriter
<1>1. IInv => MutualExclusion
  <2> SUFFICES ASSUME IInv, NEW t \in Writers, NEW u \in Threads \ {t}
               PROVE  u \notin Writers /\ (u \in Readers => pc[u] = "first")
    BY DEF MutualExclusion
  <2>1. u \notin Writers
    BY DEF IInv, TypeOK, Owners, OwnsExclusive, Writers
  <2>2. u \in Readers => pc[u] = "first"
    BY DEF IInv, ReadingOwned
  <2> QED
    BY <2>1, <2>2
<1>2. IInv => ReleaseTellsWriter
  BY ReleaseReadsFlag
<1> QED
  BY <1>1, <1>2, InitIInv, NextIInv, PTL DEF Spec

(* writetoread_mrsw's own argument: while the write lock is owned at most one
   reader has been counted, and it is waiting for reading_mutex. *)
THEOREM DowngradeSafe == Spec => []DowngradePremise
<1>1. IInv => DowngradePremise
  <2> SUFFICES ASSUME IInv, NEW t \in Writers
               PROVE  /\ read_count \in {0, 1}
                      /\ Cardinality({u \in Threads : pc[u] \in {"count", "first", "entered"}}) <= 1
    BY DEF DowngradePremise
  <2> DEFINE In == {u \in Threads : pc[u] \in {"count", "first", "entered"}}
  <2>1. read_count \in {0, 1}
    <3>1. CASE Readers = {}
      BY <3>1, FS_EmptySet DEF IInv, ReadCountExact
    <3>2. CASE Readers # {}
      <4>1. PICK u \in Readers : TRUE
        BY <3>2
      <4>2. Readers = {u}
        BY <4>1 DEF IInv, ReadingOwned, EndsOfReading, Readers
      <4> QED
        BY <4>2, FS_Singleton DEF IInv, ReadCountExact
    <3> QED
      BY <3>1, <3>2
  <2>2. \A u, v \in In : u = v
    BY DEF IInv, TypeOK, Owners, OwnsCount
  <2>3. In = {} \/ \E u : In = {u}
    BY <2>2
  <2>4. Cardinality(In) <= 1
    BY <2>3, FS_EmptySet, FS_Singleton, SMTT(20)
  <2> QED
    BY <2>1, <2>4
<1> QED
  BY <1>1, InitIInv, NextIInv, PTL DEF Spec

(* A step of t that leaves what t holds unchanged is a stuttering step of the
   abstract lock, and one that changes it changes nobody else's. *)
LEMMA HeldChange ==
    ASSUME NEW t \in Threads, TypeOK,
           \A u \in Threads \ {t} : pc'[u] = pc[u] /\ op'[u] = op[u]
    PROVE  heldMap' = [heldMap EXCEPT ![t] = HeldBy(pc'[t], op'[t])]
  BY DEF heldMap

(* Steps that do not touch reading_mutex on a thread's behalf are invisible. *)
LEMMA InvisibleSteps ==
    ASSUME IInv, NEW t \in Threads,
           \/ Call(t) \/ WriteExclusive(t) \/ WriteBackout(t) \/ WriteFlags(t)
           \/ ReadExclusive(t) \/ ReadLong(t) \/ ReadPass(t) \/ ShortCheck(t) \/ ShortTry(t)
           \/ Enter(t) \/ Entered(t)
           \/ CallRelease(t) \/ Release(t) \/ ReleaseWriteFlags(t) \/ ReleaseWriteExclusive(t)
           \/ ReleaseReadEnter(t) \/ ReleaseReadLast(t) \/ ReleaseReadLeave(t)
           \/ DowngradeFlags(t) \/ DropExclusive(t)
    PROVE  heldMap' = heldMap
<1> USE DEF Goto, SetOp, TypeOK, IInv
<1>1. \A u \in Threads \ {t} : pc'[u] = pc[u] /\ op'[u] = op[u]
  BY DEF Call, WriteExclusive, WriteBackout, WriteFlags, ReadExclusive, ReadLong, ReadPass, ShortCheck,
         ShortTry, Enter, Entered, CallRelease, Release, ReleaseWriteFlags, ReleaseWriteExclusive,
         ReleaseReadEnter, ReleaseReadLast, ReleaseReadLeave, DowngradeFlags, DropExclusive
<1>2. HeldBy(pc'[t], op'[t]) = HeldBy(pc[t], op[t])
  <2>1. CASE Call(t) \/ WriteExclusive(t) \/ WriteBackout(t) \/ WriteFlags(t)
    BY <2>1 DEF Call, WriteExclusive, WriteBackout, WriteFlags, HeldBy, HoldsRead, ReaderIn, WriterIn, WriteOps
  <2>2. CASE ReadExclusive(t) \/ ReadLong(t) \/ ReadPass(t) \/ ShortCheck(t) \/ ShortTry(t)
    BY <2>2 DEF ReadExclusive, ReadLong, ReadPass, ShortCheck, ShortTry, OpsMatch,
                HeldBy, HoldsRead, ReaderIn, WriterIn
  <2>3. CASE Enter(t) \/ Entered(t)
    BY <2>3 DEF Enter, Entered, HeldBy, HoldsRead, ReaderIn, WriterIn
  <2>4. CASE CallRelease(t) \/ ReleaseWriteFlags(t) \/ ReleaseWriteExclusive(t)
    BY <2>4 DEF CallRelease, ReleaseWriteFlags, ReleaseWriteExclusive, HeldBy, HoldsRead, ReaderIn, WriterIn
  <2>5. CASE Release(t)
    <3>1. pc[t] = "release" /\ (writer = 1 <=> op[t] = "releasewrite") /\ op[t] \in {"releasewrite", "releaseread"}
      BY <2>5, ReleaseReadsFlag DEF Release, ReleaseTellsWriter, OpsMatch
    <3> QED
      BY <2>5, <3>1 DEF Release, HeldBy, HoldsRead, ReaderIn, WriterIn
  <2>6. CASE ReleaseReadEnter(t) \/ ReleaseReadLast(t) \/ ReleaseReadLeave(t) \/ DowngradeFlags(t) \/ DropExclusive(t)
    BY <2>6 DEF ReleaseReadEnter, ReleaseReadLast, ReleaseReadLeave, DowngradeFlags, DropExclusive,
                HeldBy, HoldsRead, ReaderIn, WriterIn
  <2> QED
    BY <2>1, <2>2, <2>3, <2>4, <2>5, <2>6
<1> QED
  BY <1>1, <1>2, HeldChange DEF heldMap

(* The six steps at which the lock changes hands. *)
LEMMA VisibleSteps ==
    ASSUME IInv, NEW t \in Threads,
           \/ WriteReading(t) \/ Count(t) \/ First(t)
           \/ ReleaseWriteReading(t) \/ ReleaseReadCount(t) \/ DowngradeReading(t)
    PROVE  [Abstract!Next]_heldMap
<1> USE DEF Goto, TypeOK, IInv
<1>1. heldMap' = [heldMap EXCEPT ![t] = HeldBy(pc'[t], op'[t])]
  <2>1. \A u \in Threads \ {t} : pc'[u] = pc[u] /\ op'[u] = op[u]
    BY DEF WriteReading, Count, First, ReleaseWriteReading, ReleaseReadCount, DowngradeReading
  <2> QED
    BY <2>1, HeldChange
<1>2. heldMap[t] = HeldBy(pc[t], op[t])
  BY DEF heldMap
<1>3. CASE WriteReading(t)
  <2>1. CASE pc'[t] = "w_backout"
    BY <1>1, <1>2, <1>3, <2>1 DEF WriteReading, HeldBy, HoldsRead, ReaderIn, WriterIn, heldMap
  <2>2. CASE pc'[t] = "w_flags"
    <3>1. ~reading_mutex /\ write_exclusive_mutex = t
      BY <1>3, <2>2 DEF WriteReading, Owners, OwnsExclusive
    <3>2. \A u \in Threads : ~WriterIn(pc[u], op[u]) /\ ~HoldsRead(pc[u], op[u])
      BY <1>3, <3>1 DEF WriteReading, ReadingOwned, Owners, OwnsExclusive, HoldsRead, ReaderIn, Readers
    <3>3. \A u \in Threads : heldMap[u] = "none"
      BY <3>2 DEF heldMap, HeldBy
    <3>4. HeldBy(pc'[t], op'[t]) = "write"
      BY <2>2 DEF HeldBy, WriterIn
    <3> QED
      BY <1>1, <3>3, <3>4 DEF Abstract!Next, Abstract!AcquireWrite
  <2> QED
    BY <1>3, <2>1, <2>2 DEF WriteReading
<1>4. CASE Count(t) \/ First(t)
  <2>1. CASE op[t] = "writetoread" \/ pc'[t] = "first"
    BY <1>1, <1>2, <1>4, <2>1 DEF Count, First, HeldBy, HoldsRead, ReaderIn, WriterIn, heldMap
  <2>2. CASE op[t] # "writetoread" /\ pc'[t] # "first"
    <3>1. HeldBy(pc'[t], op'[t]) = "read" /\ HeldBy(pc[t], op[t]) = "none"
      BY <1>4, <2>2 DEF Count, First, HeldBy, HoldsRead, ReaderIn, WriterIn
    <3>2. Writers = {}
      <4>1. CASE First(t)
        BY <4>1 DEF First, ReadingOwned, Writers
      <4>2. CASE Count(t)
        <5>1. Readers # {} /\ \A u \in Readers : pc[u] # "first"
          BY <2>2, <4>2, ReadersFinite DEF Count, ReadCountExact, Owners, OwnsCount, Readers
        <5> QED
          BY <5>1 DEF ReadingOwned, Readers
      <4> QED
        BY <1>4, <4>1, <4>2
    <3>3. \A u \in Threads : heldMap[u] # "write"
      BY <3>2 DEF heldMap, HeldBy, Writers
    <3> QED
      BY <1>1, <1>2, <3>1, <3>3 DEF Abstract!Next, Abstract!AcquireRead
  <2> QED
    BY <2>1, <2>2
<1>5. CASE ReleaseWriteReading(t) \/ ReleaseReadCount(t)
  <2>1. HeldBy(pc[t], op[t]) # "none" /\ HeldBy(pc'[t], op'[t]) = "none"
    BY <1>5 DEF ReleaseWriteReading, ReleaseReadCount, HeldBy, HoldsRead, ReaderIn, WriterIn
  <2> QED
    BY <1>1, <1>2, <2>1 DEF Abstract!Next, Abstract!Release
<1>6. CASE DowngradeReading(t)
  <2>1. HeldBy(pc[t], op[t]) = "write" /\ HeldBy(pc'[t], op'[t]) = "read"
    BY <1>6 DEF DowngradeReading, OpsMatch, HeldBy, HoldsRead, ReaderIn, WriterIn
  <2> QED
    BY <1>1, <1>2, <2>1 DEF Abstract!Next, Abstract!Downgrade
<1> QED
  BY <1>3, <1>4, <1>5, <1>6

(* The three-mutex lock of ltfs_locking.h implements the abstract lock, for
   any finite set of threads: in writetoread_mrsw no writer gets in between
   giving up reading_mutex and being counted as a reader. *)
THEOREM LockRefines == Spec => Implements
<1>1. Init => Abstract!Init
  BY DEF Init, Abstract!Init, heldMap, HeldBy, HoldsRead, ReaderIn, WriterIn
<1>2. IInv /\ [Next]_vars => [Abstract!Next]_heldMap
  <2> SUFFICES ASSUME IInv, [Next]_vars PROVE [Abstract!Next]_heldMap
    OBVIOUS
  <2>1. CASE Next
    <3>1. PICK t \in Threads : Call(t) \/ Step(t)
      BY <2>1 DEF Next
    <3> QED
      BY <3>1, InvisibleSteps, VisibleSteps DEF Step, AcquireWriteStep, AcquireReadStep, ReleaseStep
  <2>2. CASE UNCHANGED vars
    BY <2>2 DEF vars, heldMap
  <2> QED
    BY <2>1, <2>2
<1> QED
  BY <1>1, <1>2, InitIInv, NextIInv, PTL DEF Spec, Implements, Abstract!Spec

=============================================================================
