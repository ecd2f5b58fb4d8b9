------------------------------ MODULE TreeSteps ------------------------------
(***************************************************************************)
(* Lemmas about paths, handles and locks, and the steps of lookup, create, *)
(* open, release and unlink that leave the name tables alone: each keeps   *)
(* the invariant TreeInv.                                                  *)
(***************************************************************************)
EXTENDS TreeInductive, FiniteSetTheorems, SequenceTheorems, WellFoundedInduction, TLAPS

-----------------------------------------------------------------------------
\* A set of natural numbers that is not empty has a least one.
LEMMA LeastNat ==
    ASSUME NEW T, T \subseteq Nat, T # {}
    PROVE  \E m \in T : \A k \in T : m <= k
<1> DEFINE R == {ss \in Nat \X Nat : ss[1] < ss[2]}
<1>0. IsWellFoundedOn(R, Nat)
  BY NatLessThanWellFounded DEF OpToRel
<1> HIDE DEF R
<1>1. PICK m \in T : \A y \in T : ~(<<y, m>> \in R)
  BY <1>0, WFMin
<1>2. \A y \in T : ~(y < m)
  BY <1>1 DEF R
<1> QED BY <1>2

\* The memory for dentries: finitely many addresses, the root among them, NULL not.
LEMMA Memory ==
    /\ Root \in Dentries /\ 2 \in Dentries /\ 3 \in Dentries
    /\ Null \notin Dentries
    /\ IsFiniteSet(Dentries) /\ Cardinality(Dentries) \in Nat
    /\ Dentries \subseteq Nat
<1>1. Cardinality(Dentries) \in Nat
  BY TreeAssumption, FS_CardinalityType
<1> QED BY <1>1, TreeAssumption DEF Root, Null

\* _fs_dispose_dentry_contents of a dentry without entries frees that dentry alone.
LEMMA DoomedLeaf ==
    ASSUME NEW D, NEW d \in Dentries, Kids(D, d) = {}
    PROVE  Doomed(D, d) = {d}
<1> DEFINE N == Cardinality(Dentries)
           Next1(x) == {c \in UNION {Kids(D, e) : e \in x} : D[c].nh = 1}
           Step(f) == [n \in 0..N |-> IF n = 0 THEN {d} ELSE f[n - 1] \cup Next1(f[n - 1])]
           F == CHOOSE f : f = Step(f)
<1>0. N \in Nat
  BY Memory
<1>1. Next1({d}) = {}
  OBVIOUS
<1>2. Doomed(D, d) = F[N]
  BY DEF Doomed
<1> HIDE DEF Next1
<1>3. \E f : f = Step(f)
  <2> DEFINE G == [n \in 0..N |-> {d}]
  <2>1. \A n \in 0..N : G[n] = {d}
    OBVIOUS
  <2>2. \A n \in 0..N : n # 0 => n - 1 \in 0..N
    BY <1>0
  <2> HIDE DEF G
  <2>3. \A n \in 0..N : (IF n = 0 THEN {d} ELSE G[n - 1] \cup Next1(G[n - 1])) = {d}
    BY <2>1, <2>2, <1>1
  <2>4. G = Step(G)
    BY <2>3 DEF G
  <2> QED BY <2>4
<1>4. F = Step(F)
  BY <1>3
<1> HIDE DEF F
<1>5. \A n \in 0..N : F[n] = IF n = 0 THEN {d} ELSE F[n - 1] \cup Next1(F[n - 1])
  BY <1>4
<1> HIDE DEF Step
<1> DEFINE Bad == {n \in 0..N : F[n] # {d}}
<1>6. ASSUME Bad # {} PROVE FALSE
  <2>0. Bad \subseteq Nat
    BY <1>0
  <2> HIDE DEF Bad
  <2>1. PICK m \in Bad : \A k \in Bad : m <= k
    BY <1>6, <2>0, LeastNat
  <2> USE DEF Bad
  <2>2. m \in 0..N /\ F[m] # {d}
    BY <2>1
  <2>3. m # 0
    BY <2>2, <1>5
  <2>4. m - 1 \in 0..N
    BY <2>2, <2>3, <1>0
  <2>5. F[m - 1] = {d}
    BY <2>1, <2>2, <2>4, <1>0
  <2>6. F[m] = {d}
    BY <2>2, <2>3, <2>5, <1>5, <1>1
  <2> QED BY <2>2, <2>6
<1> QED BY <1>2, <1>6, <1>0

\* fs_is_predecessor on a path of at most two names: the directory itself or the one above.
LEMMA Above ==
    ASSUME NEW d1 \in Dentries, NEW d2 \in Dentries,
           dent[Root].parent = Null, d2 = Root \/ dent[d2].parent = Root
    PROVE  IsPredecessor(d1, d2) <=> d1 \in {d2, Root}
<1> DEFINE N == Cardinality(Dentries)
           Step(f) == [n \in 0..N |-> IF n = 0 THEN d2
                                      ELSE IF f[n - 1] = Null THEN Null ELSE dent[f[n - 1]].parent]
           F == CHOOSE f : f = Step(f)
           V(n) == IF n = 0 THEN d2 ELSE IF n = 1 /\ d2 # Root THEN Root ELSE Null
<1>0. N \in Nat /\ 1 <= N /\ Null \notin Dentries /\ Root \in Dentries /\ Null # Root
  BY Memory, TreeAssumption DEF Null, Root
<1>1. IsPredecessor(d1, d2) <=> d1 # Null /\ d2 # Null /\ \E n \in 0..N : F[n] = d1
  BY DEF IsPredecessor
<1>2. \A n \in 0..N : n # 0 => n - 1 \in 0..N /\
          V(n) = IF V(n - 1) = Null THEN Null ELSE dent[V(n - 1)].parent
  BY <1>0
<1>3. \E f : f = Step(f)
  <2> DEFINE G == [n \in 0..N |-> V(n)]
  <2>1. \A n \in 0..N : G[n] = V(n)
    OBVIOUS
  <2> HIDE DEF G
  <2>3. \A n \in 0..N : (IF n = 0 THEN d2
                         ELSE IF G[n - 1] = Null THEN Null ELSE dent[G[n - 1]].parent) = V(n)
    BY <2>1, <1>2
  <2>4. G = Step(G)
    BY <2>3 DEF G
  <2> QED BY <2>4
<1>4. F = Step(F)
  BY <1>3
<1> HIDE DEF F
<1>5. \A n \in 0..N : F[n] = IF n = 0 THEN d2
                             ELSE IF F[n - 1] = Null THEN Null ELSE dent[F[n - 1]].parent
  BY <1>4
<1> HIDE DEF Step
<1> DEFINE Bad == {n \in 0..N : F[n] # V(n)}
<1>6. ASSUME Bad # {} PROVE FALSE
  <2>0. Bad \subseteq Nat
    BY <1>0
  <2> HIDE DEF Bad
  <2>1. PICK m \in Bad : \A k \in Bad : m <= k
    BY <1>6, <2>0, LeastNat
  <2> USE DEF Bad
  <2>2. m \in 0..N /\ F[m] # V(m)
    BY <2>1
  <2>3. m # 0
    BY <2>2, <1>5
  <2>4. m - 1 \in 0..N
    BY <2>2, <2>3, <1>0
  <2>5. F[m - 1] = V(m - 1)
    BY <2>1, <2>2, <2>4, <1>0
  <2> HIDE DEF V
  <2>6. F[m] = V(m)
    BY <2>2, <2>3, <2>5, <1>5, <1>2
  <2> QED BY <2>2, <2>6
<1>7. \A n \in 0..N : F[n] = V(n)
  BY <1>6
<1>8. (\E n \in 0..N : V(n) = d1) <=> d1 \in {d2, Root}
  <2>1. 0 \in 0..N /\ 1 \in 0..N /\ V(0) = d2 /\ (d2 # Root => V(1) = Root)
    BY <1>0
  <2> QED BY <2>1, <1>0
<1> QED BY <1>1, <1>7, <1>8, <1>0

(* Paths of at most two names.                                             *)

\* Sequences of at most two names.
LEMMA SmallSeqs ==
    ASSUME NEW s \in Seq(FileNames)
    PROVE  /\ Len(s) = 0 => s = <<>>
           /\ Len(s) = 1 => s = <<s[1]>>
           /\ Len(s) = 2 => s = <<s[1], s[2]>>
<1>1. Len(s) \in Nat /\ \A i \in 1..Len(s) : s[i] \in FileNames
  BY LenProperties, ElementOfSeq
<1>2. ASSUME Len(s) = 0 PROVE s = <<>>
  BY <1>2, EmptySeq
<1>3. ASSUME Len(s) = 1 PROVE s = <<s[1]>>
  <2>1. <<s[1]>> \in Seq(FileNames) /\ Len(<<s[1]>>) = 1
    BY <1>1, <1>3
  <2>2. \A i \in 1..1 : s[i] = <<s[1]>>[i]
    OBVIOUS
  <2> QED BY <2>1, <2>2, <1>3, SeqEqual
<1>4. ASSUME Len(s) = 2 PROVE s = <<s[1], s[2]>>
  <2>1. <<s[1], s[2]>> \in Seq(FileNames) /\ Len(<<s[1], s[2]>>) = 2
    BY <1>1, <1>4
  <2>2. \A i \in 1..2 : s[i] = <<s[1], s[2]>>[i]
    OBVIOUS
  <2> QED BY <2>1, <2>2, <1>4, SeqEqual
<1> QED BY <1>2, <1>3, <1>4

\* The directory part and the last name of a path.
LEMMA PathParts ==
    ASSUME NEW p \in Paths, p # <<>>
    PROVE  /\ Len(p) \in {1, 2} /\ p[1] \in FileNames
           /\ Front(p) \in Paths /\ Last(p) \in FileNames
           /\ Head(p) = p[1] /\ Tail(p) \in Paths
           /\ Len(p) = 1 => Front(p) = <<>> /\ Last(p) = p[1] /\ p = <<p[1]>> /\ Tail(p) = <<>>
           /\ Len(p) = 2 => /\ Front(p) = <<p[1]>> /\ Last(p) = p[2] /\ p[2] \in FileNames
                            /\ p = <<p[1], p[2]>> /\ Tail(p) = <<p[2]>>
<1>0. p \in Seq(FileNames) /\ Len(p) <= 2
  BY DEF Paths
<1>1. Len(p) \in Nat \ {0}
  BY <1>0, EmptySeq
<1>2. Len(p) \in {1, 2}
  <2>1. \A n \in Nat \ {0} : n <= 2 => n \in {1, 2}
    OBVIOUS
  <2>2. Len(p) <= 2
    BY <1>0
  <2> QED BY <1>1, <2>1, <2>2, Zenon
<1>3. \A i \in 1..Len(p) : p[i] \in FileNames
  BY <1>0, ElementOfSeq
<1>4. p[1] \in FileNames /\ Last(p) \in FileNames /\ Head(p) = p[1]
  BY <1>0, <1>2, <1>3 DEF Last
<1>5. ASSUME Len(p) = 1
      PROVE  Front(p) = <<>> /\ Last(p) = p[1] /\ p = <<p[1]>> /\ Tail(p) = <<>>
  <2>1. p = <<p[1]>>
    BY <1>0, <1>5, SmallSeqs
  <2>2. SubSeq(p, 1, 0) = <<>>
    BY SubSeqEmpty
  <2>3. Tail(p) \in Seq(FileNames) /\ Len(Tail(p)) = 0
    BY <1>0, <1>5, HeadTailProperties
  <2>4. Tail(p) = <<>>
    BY <2>3, SmallSeqs
  <2>5. Len(p) - 1 = 0
    BY <1>5
  <2> QED BY <2>1, <2>2, <2>4, <2>5, <1>5 DEF Front, Last
<1>6. ASSUME Len(p) = 2
      PROVE  /\ Front(p) = <<p[1]>> /\ Last(p) = p[2] /\ p[2] \in FileNames
             /\ p = <<p[1], p[2]>> /\ Tail(p) = <<p[2]>>
  <2>1. p = <<p[1], p[2]>> /\ p[2] \in FileNames
    BY <1>0, <1>3, <1>6, SmallSeqs
  <2>2. /\ Tail(p) \in Seq(FileNames) /\ Len(Tail(p)) = Len(p) - 1
        /\ \A i \in 1..Len(Tail(p)) : Tail(p)[i] = p[i + 1]
    BY <1>0, HeadTailProperties
  <2>3. Len(Tail(p)) = 1 /\ Tail(p)[1] = p[2]
    BY <2>2, <1>6
  <2>4. Tail(p) = <<p[2]>>
    BY <2>2, <2>3, SmallSeqs
  <2>5. \A i \in 1..1 : p[i] \in FileNames
    BY <1>4
  <2>6. /\ SubSeq(p, 1, 1) \in Seq(FileNames)
        /\ Len(SubSeq(p, 1, 1)) = IF 1 <= 1 THEN 1 - 1 + 1 ELSE 0
        /\ \A i \in 1..1 - 1 + 1 : SubSeq(p, 1, 1)[i] = p[1 + i - 1]
    BY <2>5, SubSeqProperties
  <2>7. Len(SubSeq(p, 1, 1)) = 1 /\ SubSeq(p, 1, 1)[1] = p[1]
    BY <2>6
  <2>8. SubSeq(p, 1, 1) = <<p[1]>>
    BY <2>6, <2>7, SmallSeqs
  <2>9. Len(p) - 1 = 1
    BY <1>6
  <2> QED BY <2>1, <2>4, <2>8, <2>9, <1>6 DEF Front, Last
<1>7. <<>> \in Paths /\ <<p[1]>> \in Paths /\ (Len(p) = 2 => <<p[2]>> \in Paths)
  BY <1>4, <1>6 DEF Paths
<1> QED BY <1>2, <1>4, <1>5, <1>6, <1>7

\* The paths of length zero, one and two.
LEMMA ShortPaths ==
    /\ <<>> \in Paths
    /\ \A n \in FileNames : <<n>> \in Paths /\ <<n>> # <<>> /\ Len(<<n>>) = 1
                            /\ Front(<<n>>) = <<>> /\ Last(<<n>>) = n /\ <<n>>[1] = n
    /\ \A m, n \in FileNames : <<m>> = <<n>> => m = n
BY DEF Paths, Front, Last

\* A path is its directory part and its last name.
LEMMA PathEqual ==
    ASSUME NEW p \in Paths, NEW q \in Paths, p # <<>>, q # <<>>,
           Front(p) = Front(q), Last(p) = Last(q)
    PROVE  p = q
<1>1. CASE Len(p) = 1 /\ Len(q) = 1
  BY <1>1, PathParts
<1>2. CASE Len(p) = 2 /\ Len(q) = 2
  <2>1. <<p[1]>> = <<q[1]>>
    BY <1>2, PathParts
  <2>2. p[1] = q[1] /\ p[2] = q[2]
    BY <2>1, <1>2, PathParts, ShortPaths
  <2> QED BY <2>2, <1>2, PathParts
<1>3. ASSUME Len(p) = 1, Len(q) = 2 PROVE FALSE
  <2>1. <<q[1]>> = <<>>
    BY <1>3, PathParts
  <2> QED BY <2>1, <1>3, PathParts, ShortPaths
<1>4. ASSUME Len(p) = 2, Len(q) = 1 PROVE FALSE
  <2>1. <<p[1]>> = <<>>
    BY <1>4, PathParts
  <2> QED BY <2>1, <1>4, PathParts, ShortPaths
<1> QED BY <1>1, <1>2, <1>3, <1>4, PathParts

(* Resolution of paths in a good tree.                                     *)

\* Resolving a path: its directory part first, then its last name.
LEMMA ResolveParts ==
    ASSUME NEW D \in [Dentries -> Entry], GoodTree(D), NEW p \in Paths
    PROVE  /\ ResolveIn(D, <<>>) = Root
           /\ \A n \in FileNames : ResolveIn(D, <<n>>) = D[Root].kids[n]
           /\ p # <<>> =>
                /\ ResolveIn(D, Front(p)) = Null => ResolveIn(D, p) = Null
                /\ ResolveIn(D, Front(p)) # Null =>
                      ResolveIn(D, p) = D[ResolveIn(D, Front(p))].kids[Last(p)]
<1>1. ResolveIn(D, <<>>) = Root
  BY DEF ResolveIn
<1>2. \A n \in FileNames : ResolveIn(D, <<n>>) = D[Root].kids[n]
  BY ShortPaths DEF ResolveIn
<1>3. Root # Null
  BY DEF Root, Null
<1>4. ASSUME p # <<>>, Len(p) = 1
      PROVE  Front(p) = <<>> /\ ResolveIn(D, p) = D[Root].kids[Last(p)]
  BY <1>4, PathParts DEF ResolveIn
<1>5. ASSUME p # <<>>, Len(p) = 2
      PROVE  /\ ResolveIn(D, Front(p)) = D[Root].kids[p[1]]
             /\ ResolveIn(D, p) = IF D[Root].kids[p[1]] = Null THEN Null
                                  ELSE D[D[Root].kids[p[1]]].kids[Last(p)]
  <2>1. Front(p) = <<p[1]>> /\ Last(p) = p[2] /\ p[1] \in FileNames
    BY <1>5, PathParts
  <2> QED BY <2>1, <1>2, <1>5 DEF ResolveIn
<1> QED BY <1>1, <1>2, <1>3, <1>4, <1>5, PathParts

\* A path resolves to NULL or to a live dentry of the tree.
LEMMA ResolveType ==
    ASSUME NEW D \in [Dentries -> Entry], GoodTree(D), NEW p \in Paths
    PROVE  /\ ResolveIn(D, p) \in NulOr
           /\ ResolveIn(D, p) # Null =>
                 /\ ResolveIn(D, p) \in Dentries
                 /\ D[ResolveIn(D, p)].alive
                 /\ p = <<>> => ResolveIn(D, p) = Root
                 /\ p # <<>> => /\ ResolveIn(D, Front(p)) # Null
                                /\ ResolveIn(D, Front(p)) \in Dentries
                                /\ D[ResolveIn(D, p)].parent = ResolveIn(D, Front(p))
                                /\ D[ResolveIn(D, p)].name = Last(p)
                                /\ ResolveIn(D, p) # Root
                 /\ TreeHandle(D, ResolveIn(D, p)) = 1
<1>0. Root \in Dentries /\ Null \notin Dentries /\ Root # Null /\ D[Root].parent = Null /\ D[Root].alive
  BY Memory DEF GoodTree, Root, Null
<1>1. \A d \in Dentries, n \in FileNames :
         /\ D[d].kids[n] \in NulOr
         /\ D[d].kids[n] # Null =>
               /\ D[d].kids[n] \in Dentries /\ D[D[d].kids[n]].alive
               /\ D[D[d].kids[n]].parent = d /\ D[D[d].kids[n]].name = n
  <2>1. ASSUME NEW d \in Dentries, NEW n \in FileNames PROVE D[d].kids[n] \in NulOr
    BY DEF Entry
  <2> QED BY <2>1 DEF GoodTree, NulOr
<1>2. CASE p = <<>>
  BY <1>2, <1>0, ResolveParts DEF TreeHandle, NulOr
<1>3. \A n \in FileNames : ResolveIn(D, <<n>>) = D[Root].kids[n]
  BY ResolveParts
<1>4. ASSUME p # <<>> PROVE ResolveIn(D, Front(p)) \in NulOr
  <2>1. CASE Len(p) = 1
    <3>1. Front(p) = <<>>
      BY <1>4, <2>1, PathParts
    <3> QED BY <3>1, <1>0, ResolveParts DEF NulOr
  <2>2. CASE Len(p) = 2
    <3>1. Front(p) = <<p[1]>> /\ p[1] \in FileNames
      BY <1>4, <2>2, PathParts
    <3> QED BY <3>1, <1>0, <1>1, <1>3
  <2> QED BY <2>1, <2>2, <1>4, PathParts
<1>5. CASE p # <<>>
  <2>1. Last(p) \in FileNames /\ Front(p) \in Paths
    BY <1>5, PathParts
  <2>2. CASE ResolveIn(D, Front(p)) = Null
    BY <2>2, <1>5, ResolveParts DEF NulOr
  <2>3. CASE ResolveIn(D, Front(p)) # Null
    <3> DEFINE d == ResolveIn(D, Front(p))
    <3>1. d \in Dentries
      BY <2>3, <1>4, <1>5 DEF NulOr
    <3>2. ResolveIn(D, p) = D[d].kids[Last(p)]
      BY <2>3, <1>5, ResolveParts
    <3> HIDE DEF d
    <3>3. ResolveIn(D, p) \in NulOr
      BY <3>1, <3>2, <2>1, <1>1
    <3>4. ASSUME ResolveIn(D, p) # Null
          PROVE  /\ ResolveIn(D, p) \in Dentries /\ D[ResolveIn(D, p)].alive
                 /\ D[ResolveIn(D, p)].parent = d /\ D[ResolveIn(D, p)].name = Last(p)
                 /\ ResolveIn(D, p) # Root /\ D[ResolveIn(D, p)].parent # Null
      BY <3>1, <3>2, <3>4, <2>1, <1>0, <1>1
    <3> QED BY <3>1, <3>3, <3>4, <1>5, <1>0 DEF TreeHandle, d
  <2> QED BY <2>2, <2>3
<1> QED BY <1>2, <1>5

\* Two paths do not resolve to the same dentry.
LEMMA ResolveInjective ==
    ASSUME NEW D \in [Dentries -> Entry], GoodTree(D), NEW p \in Paths, NEW q \in Paths,
           ResolveIn(D, p) = ResolveIn(D, q), ResolveIn(D, p) # Null
    PROVE  p = q
<1>1. p = <<>> <=> q = <<>>
  BY ResolveType
<1>2. ASSUME p # <<>>, q # <<>> PROVE p = q
  <2>1. /\ ResolveIn(D, Front(p)) = ResolveIn(D, Front(q)) /\ Last(p) = Last(q)
        /\ ResolveIn(D, Front(p)) # Null
    BY <1>2, ResolveType
  <2>2. Front(p) \in Paths /\ Front(q) \in Paths /\ Len(Front(p)) < 2 /\ Len(Front(q)) < 2
    BY <1>2, PathParts, ShortPaths, EmptySeq
  <2>3. Front(p) = <<>> <=> Front(q) = <<>>
    BY <2>1, <2>2, ResolveType
  <2>4. ASSUME Front(p) # <<>>, Front(q) # <<>> PROVE Front(p) = Front(q)
    <3>1. Last(Front(p)) = Last(Front(q))
      BY <2>1, <2>2, <2>4, ResolveType
    <3>2. Len(Front(p)) = 1 /\ Len(Front(q)) = 1
      <4>1. Len(Front(p)) \in {1, 2} /\ Len(Front(q)) \in {1, 2}
        BY <2>2, <2>4, PathParts
      <4>2. \A n \in {1, 2} : n < 2 => n = 1
        OBVIOUS
      <4> QED BY <4>1, <4>2, <2>2, Zenon
    <3>3. Front(Front(p)) = <<>> /\ Front(Front(q)) = <<>>
      BY <3>2, <2>2, <2>4, PathParts
    <3> QED BY <3>1, <3>3, <2>2, <2>4, PathEqual
  <2> QED BY <2>1, <2>3, <2>4, <1>2, PathEqual
<1> QED BY <1>1, <1>2

(* Handles.                                                                *)

\* Finitely many pointers hold a handle.
LEMMA SlotsFinite ==
    /\ IsFiniteSet(TreeThreads \X Slots)
    /\ \A T, d : IsFiniteSet(Holders(T, d)) /\ Cardinality(Holders(T, d)) \in Nat
<1>1. IsFiniteSet(Slots)
  <2> DEFINE A == {"cur", "par"} \cup {"fromdir"}
             B == A \cup {"todir"}
             C == B \cup {"fromdent"}
             E == C \cup {"todent"}
  <2>1. \A S, x : IsFiniteSet(S) => IsFiniteSet(S \cup {x})
    BY FS_AddElement
  <2>2. IsFiniteSet({"cur"} \cup {"par"}) /\ {"cur"} \cup {"par"} = {"cur", "par"}
    BY <2>1, FS_Singleton
  <2>3. Slots = E \cup {"fh"}
    BY DEF Slots
  <2>4. IsFiniteSet(A)
    BY <2>1, <2>2
  <2> HIDE DEF A
  <2>5. IsFiniteSet(B)
    BY <2>1, <2>4
  <2> HIDE DEF B
  <2>6. IsFiniteSet(C)
    BY <2>1, <2>5
  <2> HIDE DEF C
  <2>7. IsFiniteSet(E)
    BY <2>1, <2>6
  <2> HIDE DEF E
  <2> QED BY <2>1, <2>3, <2>7
<1>2. IsFiniteSet(TreeThreads \X Slots)
  BY <1>1, TreeAssumption, FS_Product
<1>3. \A T, d : Holders(T, d) \subseteq TreeThreads \X Slots
  BY DEF Holders
<1> QED BY <1>2, <1>3, FS_Subset, FS_CardinalityType

\* A pointer appears, and a handle with it.
LEMMA HoldTake ==
    ASSUME NEW T, NEW U, NEW x \in TreeThreads \X Slots, NEW d \in Dentries,
           Ptr(T[x[1]], x[2]) = Null, Ptr(U[x[1]], x[2]) = d,
           \A y \in TreeThreads \X Slots : y # x => Ptr(U[y[1]], y[2]) = Ptr(T[y[1]], y[2])
    PROVE  /\ Cardinality(Holders(U, d)) = Cardinality(Holders(T, d)) + 1
           /\ \A e \in Dentries : e # d => Holders(U, e) = Holders(T, e)
<1>0. Null \notin Dentries
  BY Memory
<1>1. Holders(U, d) = Holders(T, d) \cup {x} /\ x \notin Holders(T, d)
  BY <1>0 DEF Holders
<1>2. Cardinality(Holders(U, d)) = Cardinality(Holders(T, d)) + 1
  BY <1>1, SlotsFinite, FS_AddElement
<1>3. \A e \in Dentries : e # d => Holders(U, e) = Holders(T, e)
  BY <1>0 DEF Holders
<1> QED BY <1>2, <1>3

\* A pointer goes, and its handle with it.
LEMMA HoldGive ==
    ASSUME NEW T, NEW U, NEW x \in TreeThreads \X Slots, NEW d \in Dentries,
           Ptr(T[x[1]], x[2]) = d, Ptr(U[x[1]], x[2]) = Null,
           \A y \in TreeThreads \X Slots : y # x => Ptr(U[y[1]], y[2]) = Ptr(T[y[1]], y[2])
    PROVE  /\ Cardinality(Holders(U, d)) = Cardinality(Holders(T, d)) - 1
           /\ Cardinality(Holders(T, d)) >= 1 /\ x \in Holders(T, d)
           /\ \A e \in Dentries : e # d => Holders(U, e) = Holders(T, e)
<1>1. /\ Cardinality(Holders(T, d)) = Cardinality(Holders(U, d)) + 1
      /\ \A e \in Dentries : e # d => Holders(T, e) = Holders(U, e)
  <2>1. \A y \in TreeThreads \X Slots : y # x => Ptr(T[y[1]], y[2]) = Ptr(U[y[1]], y[2])
    OBVIOUS
  <2> QED BY <2>1, HoldTake
<1>2. x \in Holders(T, d)
  BY DEF Holders
<1> QED BY <1>1, <1>2, SlotsFinite

\* A pointer moves from one place to another.
LEMMA HoldPass ==
    ASSUME NEW T, NEW U, NEW x \in TreeThreads \X Slots, NEW y \in TreeThreads \X Slots,
           x # y, Ptr(T[y[1]], y[2]) = Null, Ptr(U[x[1]], x[2]) = Null,
           Ptr(U[y[1]], y[2]) = Ptr(T[x[1]], x[2]),
           \A z \in TreeThreads \X Slots : z \notin {x, y} => Ptr(U[z[1]], z[2]) = Ptr(T[z[1]], z[2])
    PROVE  \A e \in Dentries : /\ Cardinality(Holders(U, e)) = Cardinality(Holders(T, e))
                               /\ Holders(T, e) = {} <=> Holders(U, e) = {}
<1>0. Null \notin Dentries
  BY Memory
<1> DEFINE d == Ptr(T[x[1]], x[2])
<1>1. ASSUME NEW e \in Dentries, e # d PROVE Holders(U, e) = Holders(T, e)
  BY <1>0, <1>1 DEF Holders
<1>2. ASSUME d \in Dentries
      PROVE  Cardinality(Holders(U, d)) = Cardinality(Holders(T, d))
             /\ Holders(T, d) # {} /\ Holders(U, d) # {}
  <2> DEFINE S == Holders(T, d) \ {x}
  <2>1. /\ x \in Holders(T, d) /\ y \notin Holders(T, d)
        /\ Holders(U, d) = S \cup {y} /\ Holders(T, d) = S \cup {x}
    BY <1>0, <1>2 DEF Holders
  <2>2. IsFiniteSet(S)
    BY SlotsFinite, FS_Subset
  <2>3. x \notin S /\ y \notin S
    BY <2>1
  <2> HIDE DEF S
  <2>4. Cardinality(S \cup {y}) = Cardinality(S) + 1 /\ Cardinality(S \cup {x}) = Cardinality(S) + 1
    BY <2>2, <2>3, FS_AddElement
  <2> QED BY <2>1, <2>4
<1> QED BY <1>1, <1>2

-----------------------------------------------------------------------------
(* Lean steps.                                                             *)

\* A lean step leaves the tree and every path as they are.
LEMMA LeanTree ==
    ASSUME NEW D \in [Dentries -> Entry], NEW E \in [Dentries -> Entry], GoodTree(D), Lean(D, E)
    PROVE  /\ GoodTree(E)
           /\ \A p \in Paths : ResolveIn(E, p) = ResolveIn(D, p)
           /\ \A d \in Dentries : (d = Root \/ D[d].parent # Null \/ Kids(D, d) # {}) =>
                 /\ E[d].kids = D[d].kids /\ E[d].isdir = D[d].isdir
                 /\ E[d].alive = D[d].alive /\ E[d].parent = D[d].parent
<1>0. Root \in Dentries /\ Null \notin Dentries
  BY Memory
<1>1. \A d \in Dentries, n \in FileNames : D[d].kids[n] \in NulOr /\ E[d].kids[n] \in NulOr
  BY DEF Entry
<1>2. \A d \in Dentries :
         \/ /\ E[d].alive = D[d].alive /\ E[d].isdir = D[d].isdir /\ E[d].parent = D[d].parent
            /\ E[d].name = D[d].name /\ E[d].kids = D[d].kids
            /\ D[d].alive \/ E[d] = D[d]
         \/ E[d] = Blank /\ d # Root /\ D[d].parent = Null /\ Kids(D, d) = {}
  BY DEF Lean, Entry
<1>3. \A d \in Dentries : (d = Root \/ D[d].parent # Null \/ Kids(D, d) # {}) =>
          /\ E[d].alive = D[d].alive /\ E[d].isdir = D[d].isdir /\ E[d].parent = D[d].parent
          /\ E[d].name = D[d].name /\ E[d].kids = D[d].kids
  BY <1>2
<1>4. ~Blank.alive /\ Blank.parent = Null /\ \A n \in FileNames : Blank.kids[n] = Null
  BY DEF Blank
<1>5. \A d \in Dentries, n \in FileNames : D[d].kids[n] # Null => D[d].kids[n] \in Kids(D, d)
  BY DEF Kids
<1>6. GoodTree(E)
  <2>1. E[Root].alive /\ E[Root].isdir /\ E[Root].parent = Null
    BY <1>0, <1>3 DEF GoodTree
  <2>2. \A d \in Dentries : ~E[d].alive => E[d] = Blank
    BY <1>2 DEF GoodTree
  <2>3. ASSUME NEW d \in Dentries, NEW n \in FileNames, E[d].kids[n] # Null
        PROVE  /\ E[E[d].kids[n]].alive /\ E[E[d].kids[n]].parent = d
               /\ E[E[d].kids[n]].name = n /\ E[d].isdir /\ (d = Root \/ E[d].parent # Null)
    <3> DEFINE e == D[d].kids[n]
    <3>1. E[d].kids = D[d].kids /\ E[d].isdir = D[d].isdir /\ E[d].parent = D[d].parent
      BY <2>3, <1>2, <1>4
    <3>2. e # Null /\ e \in Dentries
      BY <3>1, <2>3, <1>1 DEF NulOr
    <3>3. D[e].alive /\ D[e].parent = d /\ D[e].name = n /\ D[d].isdir /\ (d = Root \/ D[d].parent # Null)
      BY <3>2 DEF GoodTree
    <3>4. d # Null
      BY <1>0
    <3> HIDE DEF e
    <3>5. E[e].alive /\ E[e].parent = d /\ E[e].name = n
      BY <3>2, <3>3, <3>4, <1>3
    <3> QED BY <3>1, <3>3, <3>5 DEF e
  <2>4. ASSUME NEW d \in Dentries, E[d].parent # Null
        PROVE  E[d].name \in FileNames /\ E[E[d].parent].kids[E[d].name] = d
    <3>1. E[d].parent = D[d].parent /\ E[d].name = D[d].name /\ D[d].parent # Null
      BY <2>4, <1>2, <1>4
    <3>2. D[d].name \in FileNames /\ D[D[d].parent].kids[D[d].name] = d /\ D[d].parent \in Dentries
      BY <3>1 DEF GoodTree, Entry, NulOr
    <3>3. Kids(D, D[d].parent) # {}
      BY <3>2, <1>5, <1>0
    <3> QED BY <3>1, <3>2, <3>3, <1>3
  <2> QED BY <2>1, <2>2, <2>3, <2>4 DEF GoodTree
<1>7. ASSUME NEW p \in Paths PROVE ResolveIn(E, p) = ResolveIn(D, p)
  <2>1. E[Root].kids = D[Root].kids
    BY <1>0, <1>3
  <2>2. \A n \in FileNames : D[Root].kids[n] # Null =>
            E[D[Root].kids[n]].kids = D[D[Root].kids[n]].kids
    BY <1>0, <1>1, <1>3 DEF GoodTree, NulOr, Root, Null
  <2>3. p # <<>> => p[1] \in FileNames
    BY PathParts
  <2> QED BY <2>1, <2>2, <2>3 DEF ResolveIn
<1> QED BY <1>3, <1>6, <1>7

\* A lean step leaves every call where it is on its paths.
LEMMA LeanPlace ==
    ASSUME NEW D \in [Dentries -> Entry], NEW E \in [Dentries -> Entry], GoodTree(D), Lean(D, E),
           NEW c \in Call, CallOK(c), PlaceOK(c, D)
    PROVE  PlaceOK(c, E)
<1>0. Null \notin Dentries
  BY Memory
<1>1. /\ \A p \in Paths : ResolveIn(E, p) = ResolveIn(D, p)
      /\ \A d \in Dentries : (d = Root \/ D[d].parent # Null \/ Kids(D, d) # {}) =>
             E[d].kids = D[d].kids /\ E[d].isdir = D[d].isdir
  BY LeanTree
<1>2. \A p \in Paths : ResolveIn(D, p) # Null =>
         LET d == ResolveIn(D, p) IN
         /\ d \in Dentries /\ E[d].kids = D[d].kids /\ E[d].isdir = D[d].isdir
         /\ Kids(E, d) = Kids(D, d)
  <2>1. ASSUME NEW p \in Paths, ResolveIn(D, p) # Null
        PROVE  LET d == ResolveIn(D, p) IN d \in Dentries /\ (d = Root \/ D[d].parent # Null)
    BY <2>1, ResolveType DEF TreeHandle
  <2> QED BY <2>1, <1>1 DEF Kids
<1>3. ASSUME c.pc = "lk3" PROVE E[c.par].kids[Head(c.want)] = c.cur
  <2>1. c.par \in Dentries /\ c.cur # Null /\ c.want # <<>> /\ c.want \in Paths
    BY <1>3 DEF CallOK, Pointers, Walk, Call, NulOr
  <2>2. Head(c.want) \in FileNames /\ D[c.par].kids[Head(c.want)] = c.cur
    BY <2>1, <1>3, PathParts DEF PlaceOK
  <2>3. Kids(D, c.par) # {}
    BY <2>1, <2>2 DEF Kids
  <2> QED BY <2>1, <2>2, <2>3, <1>1
<1>4. ASSUME c.op \in Changing
      PROVE  DirsOnPath(c, E) /\ LookupAt(c, E) /\ UnlinkAt(c, E) /\ RenameAt(c, E)
  <2>0. /\ c.path \in Paths /\ c.to \in Paths /\ c.path # <<>>
        /\ DirsOnPath(c, D) /\ LookupAt(c, D) /\ UnlinkAt(c, D) /\ RenameAt(c, D)
    BY <1>4 DEF PlaceOK, CallOK, OpsMatch, Call
  <2>1. /\ Front(c.path) \in Paths
        /\ c.to # <<>> => Front(c.to) \in Paths
    BY <2>0, PathParts
  <2>2. c.op = "rename" <=> c.to # <<>>
    BY DEF CallOK, OpsMatch
  <2>3. Target(c) \in Paths
    BY <2>0, <2>1, <2>2 DEF Target
  <2>4. Target(c) # <<>> => <<Target(c)[1]>> \in Paths
    BY <2>3, PathParts, ShortPaths
  <2>5. DirsOnPath(c, E)
    BY <2>0, <2>1, <1>1, <1>2 DEF DirsOnPath
  <2>6. LookupAt(c, E)
    <3>1. c.pc \in {"lk1", "lk2", "lk3"} /\ ~FirstName(c) => Target(c) # <<>>
      <4>1. Len(<<>>) # 2
        BY EmptySeq
      <4> QED BY <4>1 DEF CallOK, Walk, FirstName, LookPcs
    <3>2. c.pc \in {"lk1", "lk2", "lk3"} /\ ~FirstName(c) =>
             ResolveIn(E, <<Target(c)[1]>>) = ResolveIn(D, <<Target(c)[1]>>)
      BY <3>1, <2>4, <1>1
    <3>3. ResolveIn(E, Target(c)) = ResolveIn(D, Target(c))
      BY <2>3, <1>1
    <3>4. ResolveIn(E, Front(c.path)) = ResolveIn(D, Front(c.path))
      BY <2>1, <1>1
    <3> QED BY <3>2, <3>3, <3>4, <2>0 DEF LookupAt
  <2>7. UnlinkAt(c, E)
    <3>1. ResolveIn(E, Front(c.path)) = ResolveIn(D, Front(c.path)) /\ ResolveIn(E, c.path) = ResolveIn(D, c.path)
      BY <2>0, <2>1, <1>1
    <3>2. c.pc \in UnlinkPcs => c.cur # Null
      BY DEF CallOK, Pointers
    <3>3. c.pc \in {"un1", "un2", "un_ne", "un_ne2"} => Kids(E, c.cur) = Kids(D, c.cur)
      BY <3>2, <2>0, <1>2 DEF UnlinkAt, UnlinkPcs
    <3> QED BY <3>1, <3>3, <2>0 DEF UnlinkAt
  <2>8. RenameAt(c, E)
    <3>1. /\ ResolveIn(E, Front(c.path)) = ResolveIn(D, Front(c.path))
          /\ ResolveIn(E, c.path) = ResolveIn(D, c.path)
          /\ ResolveIn(E, c.to) = ResolveIn(D, c.to)
      BY <2>0, <2>1, <1>1
    <3>2. c.todir # Null => ResolveIn(E, Front(c.to)) = ResolveIn(D, Front(c.to))
      BY <2>1, <2>2, <1>1 DEF CallOK, OpsMatch, Pointers
    <3>3. c.todent # Null => Kids(E, c.todent) = Kids(D, c.todent)
      BY <2>0, <1>2 DEF RenameAt
    <3> QED BY <3>1, <3>2, <3>3, <2>0 DEF RenameAt
  <2> QED BY <2>5, <2>6, <2>7, <2>8
<1> QED BY <1>3, <1>4 DEF PlaceOK

(* Handles taken, given back and passed on.                                *)

\* The counts stay right when neither counts nor pointers change.
LEMMA CountsSame ==
    ASSUME NEW D, NEW T, NEW U, NEW t \in TreeThreads, NEW c, Steps(T, U, t, c),
           Counts(D, T), SameSlots(T[t], c)
    PROVE  Counts(D, U)
<1>1. \A x \in TreeThreads \X Slots : Ptr(U[x[1]], x[2]) = Ptr(T[x[1]], x[2])
  BY DEF SameSlots, Steps
<1>2. \A d : Holders(U, d) = Holders(T, d)
  BY <1>1 DEF Holders
<1> QED BY <1>2 DEF Counts

\* The counts stay right when a pointer moves with its handle.
LEMMA CountsPass ==
    ASSUME NEW D, NEW T, NEW U, NEW t \in TreeThreads, NEW c, Steps(T, U, t, c),
           Counts(D, T), NEW i, NEW j, PassSlot(T[t], c, i, j)
    PROVE  Counts(D, U)
<1> DEFINE x == <<t, i>>
           y == <<t, j>>
<1>1. x \in TreeThreads \X Slots /\ y \in TreeThreads \X Slots /\ x # y
  BY DEF PassSlot
<1>2. U[t] = c /\ \A u \in TreeThreads \ {t} : U[u] = T[u]
  BY DEF Steps
<1>3. /\ Ptr(T[y[1]], y[2]) = Null /\ Ptr(U[x[1]], x[2]) = Null
      /\ Ptr(U[y[1]], y[2]) = Ptr(T[x[1]], x[2])
  BY <1>2 DEF PassSlot
<1>4. ASSUME NEW z \in TreeThreads \X Slots, z \notin {x, y}
      PROVE  Ptr(U[z[1]], z[2]) = Ptr(T[z[1]], z[2])
  <2>1. CASE z[1] = t
    <3>1. z[2] \in Slots \ {i, j}
      BY <1>4, <2>1
    <3> QED BY <3>1, <2>1, <1>2 DEF PassSlot
  <2>2. CASE z[1] # t
    BY <2>2, <1>2
  <2> QED BY <2>1, <2>2
<1> HIDE DEF x, y
<1>5. \A e \in Dentries : /\ Cardinality(Holders(U, e)) = Cardinality(Holders(T, e))
                          /\ Holders(T, e) = {} <=> Holders(U, e) = {}
  BY <1>1, <1>3, <1>4, HoldPass
<1> QED BY <1>5 DEF Counts

\* A pointer that appears is one holder more of its dentry and of no other.
LEMMA SlotTaken ==
    ASSUME NEW T, NEW U, NEW t \in TreeThreads, NEW c, Steps(T, U, t, c),
           NEW j, NEW d \in Dentries, TakeSlot(T[t], c, j, d)
    PROVE  /\ Cardinality(Holders(U, d)) = Cardinality(Holders(T, d)) + 1
           /\ \A e \in Dentries : e # d => Holders(U, e) = Holders(T, e)
<1> DEFINE x == <<t, j>>
<1>1. x \in TreeThreads \X Slots
  BY DEF TakeSlot
<1>2. U[t] = c /\ \A u \in TreeThreads \ {t} : U[u] = T[u]
  BY DEF Steps
<1>3. Ptr(T[x[1]], x[2]) = Null /\ Ptr(U[x[1]], x[2]) = d
  BY <1>2 DEF TakeSlot
<1>4. ASSUME NEW z \in TreeThreads \X Slots, z # x
      PROVE  Ptr(U[z[1]], z[2]) = Ptr(T[z[1]], z[2])
  <2>1. CASE z[1] = t
    <3>1. z[2] \in Slots \ {j}
      BY <1>4, <2>1
    <3> QED BY <3>1, <2>1, <1>2 DEF TakeSlot
  <2>2. CASE z[1] # t
    BY <2>2, <1>2
  <2> QED BY <2>1, <2>2
<1> HIDE DEF x
<1> QED BY <1>1, <1>3, <1>4, HoldTake

\* A pointer that goes is one holder less of its dentry and of no other.
LEMMA SlotGiven ==
    ASSUME NEW T, NEW U, NEW t \in TreeThreads, NEW c, Steps(T, U, t, c),
           NEW j, NEW d \in Dentries, GiveSlot(T[t], c, j, d)
    PROVE  /\ Cardinality(Holders(T, d)) = Cardinality(Holders(U, d)) + 1
           /\ \A e \in Dentries : e # d => Holders(U, e) = Holders(T, e)
<1>0. Steps(U, T, t, T[t]) /\ TakeSlot(U[t], T[t], j, d)
  BY DEF Steps, GiveSlot
<1>1. /\ Cardinality(Holders(T, d)) = Cardinality(Holders(U, d)) + 1
      /\ \A e \in Dentries : e # d => Holders(T, e) = Holders(U, e)
  BY <1>0, SlotTaken, ZenonT(30)
<1> QED BY <1>1

\* A dentry without holders is one with zero of them.
LEMMA NoHolder ==
    ASSUME NEW T, NEW d
    PROVE  Holders(T, d) = {} <=> Cardinality(Holders(T, d)) = 0
BY SlotsFinite, FS_EmptySet

\* A new numhandles changes nothing else of the tree.
LEMMA NewCountIs ==
    ASSUME NEW D \in [Dentries -> Entry], NEW E, NEW d \in Dentries, NEW v \in Int,
           NewCount(D, E, d, v), D[d].alive
    PROVE  /\ Lean(D, E) /\ E[d].nh = v /\ E[d].alive
           /\ \A e \in Dentries : e # d => E[e] = D[e]
           /\ \A e \in Dentries : TreeHandle(E, e) = TreeHandle(D, e)
<1>1. D[d] \in Entry
  OBVIOUS
<1>2. /\ E[d].nh = v /\ E[d].alive = D[d].alive /\ E[d].parent = D[d].parent
      /\ E[d] = [D[d] EXCEPT !.nh = E[d].nh]
  BY <1>1 DEF NewCount, Entry
<1>3. \A e \in Dentries : e # d => E[e] = D[e]
  BY DEF NewCount
<1>4. \A e \in Dentries : D[e] = [D[e] EXCEPT !.nh = D[e].nh]
  BY DEF Entry
<1>5. Lean(D, E)
  BY <1>2, <1>3, <1>4 DEF Lean
<1> QED BY <1>2, <1>3, <1>5 DEF TreeHandle

\* One more handle on a live entry.
LEMMA Taken ==
    ASSUME NEW D \in [Dentries -> Entry], NEW E, NEW T, NEW U, NEW t \in TreeThreads, NEW c,
           Steps(T, U, t, c), Counts(D, T), NEW j, NEW d \in Dentries,
           TakeSlot(T[t], c, j, d), D[d].alive, NewCount(D, E, d, D[d].nh + 1)
    PROVE  Lean(D, E) /\ Counts(E, U)
<1>0. D[d].nh \in Int
  BY DEF Entry
<1>1. /\ Lean(D, E) /\ E[d].nh = D[d].nh + 1 /\ E[d].alive
      /\ \A e \in Dentries : e # d => E[e] = D[e]
      /\ \A e \in Dentries : TreeHandle(E, e) = TreeHandle(D, e)
  <2>1. D[d].nh + 1 \in Int
    BY <1>0
  <2> QED BY <2>1, NewCountIs
<1>2. /\ Cardinality(Holders(U, d)) = Cardinality(Holders(T, d)) + 1
      /\ \A e \in Dentries : e # d => Holders(U, e) = Holders(T, e)
  BY SlotTaken, ZenonT(30)
<1>3. E[d].nh = Cardinality(Holders(U, d)) + TreeHandle(E, d)
  <2>1. D[d].nh = Cardinality(Holders(T, d)) + TreeHandle(D, d)
    BY DEF Counts
  <2> QED BY <2>1, <1>1, <1>2, SlotsFinite DEF TreeHandle
<1> QED BY <1>1, <1>2, <1>3 DEF Counts

\* One handle less; the entry lives and the tree may hold it too.
LEMMA Given ==
    ASSUME NEW D \in [Dentries -> Entry], NEW T, NEW U, NEW t \in TreeThreads, NEW c,
           Steps(T, U, t, c), Counts(D, T), NEW j, NEW d \in Dentries,
           GiveSlot(T[t], c, j, d)
    PROVE  /\ D[d].alive /\ D[d].nh \in Int /\ D[d].nh >= 1
           /\ TreeHandle(D, d) = 1 => D[d].nh >= 2
           /\ D[d].nh = 1 => TreeHandle(D, d) = 0 /\ Cardinality(Holders(U, d)) = 0
           /\ \A E, v : v \in Int /\ v + 1 = D[d].nh /\ NewCount(D, E, d, v)
                        => Lean(D, E) /\ Counts(E, U)
<1>1. /\ Cardinality(Holders(T, d)) = Cardinality(Holders(U, d)) + 1
      /\ \A e \in Dentries : e # d => Holders(U, e) = Holders(T, e)
  BY SlotGiven, ZenonT(30)
<1>0. /\ Cardinality(Holders(U, d)) \in Nat /\ Cardinality(Holders(T, d)) # 0
      /\ Cardinality(Holders(T, d)) = 1 => Cardinality(Holders(U, d)) = 0
  BY <1>1, SlotsFinite
<1>2. D[d].alive /\ D[d].nh = Cardinality(Holders(T, d)) + TreeHandle(D, d)
  BY <1>0, NoHolder DEF Counts
<1>3. TreeHandle(D, d) \in {0, 1} /\ Cardinality(Holders(T, d)) \in Nat /\ D[d].nh \in Int
  BY SlotsFinite DEF TreeHandle, Entry
<1>4. /\ D[d].nh >= 1 /\ (TreeHandle(D, d) = 1 => D[d].nh >= 2)
      /\ D[d].nh = 1 => TreeHandle(D, d) = 0 /\ Cardinality(Holders(U, d)) = 0
  BY <1>0, <1>1, <1>2, <1>3
<1>5. ASSUME NEW E, NEW v \in Int, v + 1 = D[d].nh, NewCount(D, E, d, v)
      PROVE  Lean(D, E) /\ Counts(E, U)
  <2>1. /\ Lean(D, E) /\ E[d].nh = v /\ E[d].alive
        /\ \A e \in Dentries : e # d => E[e] = D[e]
        /\ \A e \in Dentries : TreeHandle(E, e) = TreeHandle(D, e)
    BY <1>2, <1>5, NewCountIs
  <2>2. E[d].nh = Cardinality(Holders(U, d)) + TreeHandle(E, d)
    BY <2>1, <1>1, <1>2, <1>3, <1>5, SlotsFinite
  <2> QED BY <2>1, <2>2, <1>1 DEF Counts
<1> QED BY <1>2, <1>3, <1>4, <1>5

\* Freed memory is an entry without names, parent or handles.
LEMMA BlankEntry == Blank \in Entry /\ ~Blank.alive
<1>1. [n \in FileNames |-> Null] \in [FileNames -> NulOr] /\ Null \in NulOr
  BY DEF NulOr
<1>2. 0 \in Int /\ 0 \in Nat /\ "" \in FileNames \cup {""} /\ FALSE \in BOOLEAN
  OBVIOUS
<1> QED BY <1>1, <1>2 DEF Blank, Entry

\* The last handle goes: an entry that the tree does not hold has no entries.
LEMMA DisposeLeaf ==
    ASSUME NEW D \in [Dentries -> Entry], GoodTree(D), NEW d \in Dentries,
           TreeHandle(D, d) = 0
    PROVE  /\ Dispose(D, d) \in [Dentries -> Entry]
           /\ Dispose(D, d)[d] = Blank
           /\ \A e \in Dentries : e # d => Dispose(D, d)[e] = D[e]
           /\ Lean(D, Dispose(D, d))
<1>0. Null \notin Dentries /\ Null = 0
  BY Memory DEF Null
<1>1. d # Root /\ D[d].parent = Null
  BY DEF TreeHandle
<1>2. Kids(D, d) = {}
  BY <1>1 DEF Kids, GoodTree
<1>3. Doomed(D, d) = {d}
  BY <1>2, DoomedLeaf
<1>4. ASSUME NEW e \in Dentries PROVE D[e].parent # d
  <2>1. SUFFICES ASSUME D[e].parent = d PROVE FALSE
    OBVIOUS
  <2>2. D[e].name \in FileNames /\ D[d].kids[D[e].name] = e
    BY <2>1, <1>0 DEF GoodTree
  <2> QED BY <2>2, <1>0, <1>2 DEF Kids
<1>5. Dispose(D, d) = [e \in Dentries |-> IF e = d THEN Blank ELSE D[e]]
  BY <1>0, <1>1, <1>3, <1>4 DEF Dispose
<1>6. Blank \in Entry
  BY BlankEntry
<1>7. \A e \in Dentries : D[e] = [D[e] EXCEPT !.nh = D[e].nh]
  BY DEF Entry
<1>8. Lean(D, Dispose(D, d))
  BY <1>1, <1>2, <1>5, <1>7 DEF Lean
<1> QED BY <1>5, <1>6, <1>8

\* fs_release_dentry_unlocked with the handle of a pointer that goes.
LEMMA Released ==
    ASSUME NEW D \in [Dentries -> Entry], GoodTree(D), NEW T, NEW U, NEW t \in TreeThreads,
           NEW c, Steps(T, U, t, c), Counts(D, T), NEW j, NEW d \in Dentries,
           GiveSlot(T[t], c, j, d)
    PROVE  /\ Release(D, d) \in [Dentries -> Entry]
           /\ Lean(D, Release(D, d)) /\ Counts(Release(D, d), U)
<1>1. /\ D[d].alive /\ D[d].nh \in Int /\ D[d].nh >= 1
      /\ D[d].nh = 1 => TreeHandle(D, d) = 0 /\ Cardinality(Holders(U, d)) = 0
      /\ \A E, v : v \in Int /\ v + 1 = D[d].nh /\ NewCount(D, E, d, v)
                   => Lean(D, E) /\ Counts(E, U)
  BY Given
<1>2. CASE D[d].nh # 1
  <2> DEFINE E == [D EXCEPT ![d].nh = @ - 1]
  <2>1. Release(D, d) = E
    BY <1>2 DEF Release
  <2>2. [D[d] EXCEPT !.nh = D[d].nh - 1] \in Entry
    <3>1. D[d] \in Entry /\ D[d].nh - 1 \in Int
      BY <1>1
    <3> QED BY <3>1 DEF Entry
  <2>3. E = [D EXCEPT ![d] = [D[d] EXCEPT !.nh = D[d].nh - 1]]
    OBVIOUS
  <2>4. E \in [Dentries -> Entry]
    BY <2>2, <2>3
  <2>5. NewCount(D, E, d, D[d].nh - 1)
    BY <2>3, <2>4 DEF NewCount
  <2>6. D[d].nh - 1 \in Int /\ (D[d].nh - 1) + 1 = D[d].nh
    BY <1>1
  <2> HIDE DEF E
  <2>7. Lean(D, E) /\ Counts(E, U)
    BY <2>5, <2>6, <1>1
  <2> QED BY <2>1, <2>4, <2>7
<1>3. CASE D[d].nh = 1
  <2> DEFINE E == Dispose(D, d)
  <2>1. Release(D, d) = E
    BY <1>3 DEF Release
  <2>2. /\ E \in [Dentries -> Entry] /\ E[d] = Blank /\ Lean(D, E)
        /\ \A e \in Dentries : e # d => E[e] = D[e]
    BY <1>1, <1>3, DisposeLeaf
  <2> HIDE DEF E
  <2>3. Holders(U, d) = {} /\ \A e \in Dentries : e # d => Holders(U, e) = Holders(T, e)
    <3>1. Cardinality(Holders(U, d)) = 0 /\ \A e \in Dentries : e # d => Holders(U, e) = Holders(T, e)
      BY <1>1, <1>3, SlotGiven
    <3> QED BY <3>1, NoHolder
  <2>4. ~E[d].alive
    BY <2>2, BlankEntry
  <2>5. Counts(E, U)
    BY <2>2, <2>3, <2>4 DEF Counts, TreeHandle
  <2> QED BY <2>1, <2>2, <2>5
<1> QED BY <1>2, <1>3

-----------------------------------------------------------------------------
(* Steps that change no name table.                                        *)

\* A step that changes the locks as the new state of its call says keeps LocksTrue.
LEMMA LocksStep ==
    ASSUME LockTypes, LocksTrue, NEW t \in TreeThreads, NEW c, Steps(thr, thr', t, c),
           LockChange(t, c)
    PROVE  LocksTrue'
<1>0. NoThread \notin TreeThreads
  BY TreeAssumption
<1>1. thr'[t] = c /\ \A u \in TreeThreads : u # t => thr'[u] = thr[u]
  BY DEF Steps
<1>2. /\ \A d \in Dentries : contents[d].r \subseteq TreeThreads
      /\ \A d \in Dentries : contents[d].w \in Owner /\ meta[d] \in Owner
  BY DEF LockTypes
<1>3. ReadLocks'
  <2> SUFFICES ASSUME NEW d \in Dentries
               PROVE  contents'[d].r = {u \in TreeThreads : Reads(thr'[u], d)}
    BY DEF ReadLocks
  <2>1. contents[d].r = {u \in TreeThreads : Reads(thr[u], d)}
    BY DEF LocksTrue, ReadLocks
  <2>2. contents'[d].r = IF Reads(c, d) THEN contents[d].r \cup {t} ELSE contents[d].r \ {t}
    BY DEF LockChange, ContentsChange
  <2> QED BY <1>1, <2>1, <2>2
<1>4. WriteLocks'
  <2> SUFFICES ASSUME NEW d \in Dentries, NEW u \in TreeThreads
               PROVE  contents'[d].w = u <=> Writes(thr'[u], d)
    BY DEF WriteLocks
  <2>1. \A v \in TreeThreads : contents[d].w = v <=> Writes(thr[v], d)
    BY DEF LocksTrue, WriteLocks
  <2>2. /\ contents'[d].w = IF Writes(c, d) THEN t
                            ELSE IF contents[d].w = t THEN NoThread ELSE contents[d].w
        /\ Writes(c, d) /\ ~Writes(thr[t], d) => contents[d].w = NoThread
    BY DEF LockChange, ContentsChange, CanWrite
  <2>3. CASE u = t
    BY <1>0, <1>1, <2>1, <2>2, <2>3
  <2>4. CASE u # t
    BY <1>0, <1>1, <2>1, <2>2, <2>4
  <2> QED BY <2>3, <2>4
<1>5. OneKind'
  <2> SUFFICES ASSUME NEW d \in Dentries, contents'[d].w # NoThread
               PROVE  contents'[d].r = {}
    BY DEF OneKind
  <2>1. /\ contents[d].w = t <=> Writes(thr[t], d)
        /\ contents[d].r = {u \in TreeThreads : Reads(thr[u], d)}
        /\ contents[d].w # NoThread => contents[d].r = {}
    BY DEF LocksTrue, WriteLocks, ReadLocks, OneKind
  <2>2. /\ contents'[d].r = IF Reads(c, d) THEN contents[d].r \cup {t} ELSE contents[d].r \ {t}
        /\ contents'[d].w = IF Writes(c, d) THEN t
                            ELSE IF contents[d].w = t THEN NoThread ELSE contents[d].w
        /\ Reads(c, d) /\ ~Reads(thr[t], d) => contents[d].w = NoThread
        /\ Writes(c, d) /\ ~Writes(thr[t], d) => contents[d].r = {}
    BY DEF LockChange, ContentsChange, CanRead, CanWrite
  <2>3. ~(Reads(c, d) /\ Writes(c, d))
    BY DEF Reads, Writes, LockedPcs
  <2>4. CASE Writes(c, d)
    BY <1>0, <2>1, <2>2, <2>3, <2>4
  <2>5. CASE ~Writes(c, d)
    <3>1. contents[d].w # NoThread /\ contents[d].w # t
      BY <1>0, <2>2, <2>5
    <3> QED BY <2>1, <2>2, <3>1
  <2> QED BY <2>4, <2>5
<1>6. MetaLocks'
  <2> SUFFICES ASSUME NEW d \in Dentries, NEW u \in TreeThreads
               PROVE  meta'[d] = u <=> HasMeta(thr'[u], d)
    BY DEF MetaLocks
  <2>1. \A v \in TreeThreads : meta[d] = v <=> HasMeta(thr[v], d)
    BY DEF LocksTrue, MetaLocks
  <2>2. /\ meta'[d] = IF HasMeta(c, d) THEN t ELSE IF meta[d] = t THEN NoThread ELSE meta[d]
        /\ HasMeta(c, d) /\ ~HasMeta(thr[t], d) => meta[d] = NoThread
    BY DEF LockChange, MetaChange, MetaFree
  <2>3. CASE u = t
    BY <1>0, <1>1, <2>1, <2>2, <2>3
  <2>4. CASE u # t
    BY <1>0, <1>1, <2>1, <2>2, <2>4
  <2> QED BY <2>3, <2>4
<1>7. RenameLocked'
  <2> SUFFICES ASSUME NEW u \in TreeThreads
               PROVE  renameLock' = u <=> Renames(thr'[u])
    BY DEF RenameLocked
  <2>1. \A v \in TreeThreads : renameLock = v <=> Renames(thr[v])
    BY DEF LocksTrue, RenameLocked
  <2>2. /\ renameLock' = IF Renames(c) THEN t ELSE IF renameLock = t THEN NoThread ELSE renameLock
        /\ Renames(c) /\ ~Renames(thr[t]) => renameLock = NoThread
    BY DEF LockChange, RenameChange
  <2>3. CASE u = t
    BY <1>0, <1>1, <2>1, <2>2, <2>3
  <2>4. CASE u # t
    BY <1>0, <1>1, <2>1, <2>2, <2>4
  <2> QED BY <2>3, <2>4
<1> QED BY <1>3, <1>4, <1>5, <1>6, <1>7 DEF LocksTrue

\* The kernel's part.
LEMMA KernelStep ==
    ASSUME TreeInv, NEW t \in TreeThreads, NEW c \in Call, Steps(thr, thr', t, c),
           SameCall(thr[t], c) \/ c.op = "none"
    PROVE  Apart'
<1>1. thr'[t] = c /\ \A u \in TreeThreads : u # t => thr'[u] = thr[u]
  BY DEF Steps
<1>2. \A u \in TreeThreads : BusyC(thr'[u]) \subseteq BusyC(thr[u])
  <2>1. c.op = "none" => BusyC(c) = {}
    BY DEF BusyC, Busy
  <2>2. SameCall(thr[t], c) => BusyC(c) = BusyC(thr[t])
    BY DEF BusyC, SameCall
  <2> QED BY <1>1, <2>1, <2>2
<1> SUFFICES ASSUME NEW u \in TreeThreads, NEW v \in TreeThreads, u # v
             PROVE  BusyC(thr'[u]) \cap BusyC(thr'[v]) = {}
  BY DEF Apart
<1>3. BusyC(thr[u]) \cap BusyC(thr[v]) = {}
  BY DEF TreeInv, Apart
<1> QED BY <1>2, <1>3

\* A lean step of one call keeps the whole invariant.
LEMMA LeanStep ==
    ASSUME TreeInv, NEW t \in TreeThreads, NEW c \in Call, thr' = [thr EXCEPT ![t] = c],
           thr[t].op # "none", SameCall(thr[t], c) \/ c.op = "none", CallOK(c),
           dent' \in [Dentries -> Entry], Lean(dent, dent'), Counts(dent', thr'),
           LockTypes', uidNumber' \in Nat, LockChange(t, c), PlaceOK(c, dent)
    PROVE  TreeInv'
<1>0. thr \in [TreeThreads -> Call] /\ dent \in [Dentries -> Entry] /\ GoodTree(dent) /\ LockTypes
  BY DEF TreeInv, TreeTypes, LockTypes
<1>1. Steps(thr, thr', t, c) /\ thr'[t] = c /\ \A u \in TreeThreads : u # t => thr'[u] = thr[u]
  BY <1>0 DEF Steps
<1>2. TreeTypes'
  BY <1>0 DEF TreeTypes, LockTypes
<1>3. \A u \in TreeThreads : CallOK(thr'[u])
  BY <1>1 DEF TreeInv
<1>4. /\ GoodTree(dent') /\ \A p \in Paths : ResolveIn(dent', p) = ResolveIn(dent, p)
      /\ \A d \in Dentries : (d = Root \/ dent[d].parent # Null \/ Kids(dent, d) # {}) =>
            dent'[d].kids = dent[d].kids
  BY <1>0, LeanTree
<1>5. LocksTrue'
  BY <1>0, <1>1, LocksStep DEF TreeInv
<1>7. Apart'
  BY <1>1, KernelStep
<1>8. ASSUME NEW u \in TreeThreads PROVE PlaceOK(thr'[u], dent')
  <2>1. CASE u # t
    <3>1. thr[u] \in Call /\ CallOK(thr[u]) /\ PlaceOK(thr[u], dent)
      BY <1>0 DEF TreeInv
    <3> QED BY <2>1, <3>1, <1>0, <1>1, LeanPlace
  <2>2. CASE u = t
    BY <2>2, <1>0, <1>1, LeanPlace
  <2> QED BY <2>1, <2>2
<1> QED BY <1>2, <1>3, <1>4, <1>5, <1>7, <1>8 DEF TreeInv

-----------------------------------------------------------------------------
(* What is known of the thread that takes a step.                          *)

\* What the invariant says of one thread.
LEMMA Here ==
    ASSUME TreeInv, NEW t \in TreeThreads
    PROVE  /\ thr[t] \in Call /\ OpsMatch(thr[t]) /\ Pointers(thr[t]) /\ Walk(thr[t])
           /\ PlaceOK(thr[t], dent)
           /\ thr \in [TreeThreads -> Call] /\ dent \in [Dentries -> Entry]
           /\ GoodTree(dent) /\ Counts(dent, thr) /\ LockTypes /\ LocksTrue
           /\ uidNumber \in Nat
           /\ Root \in Dentries /\ Null \notin Dentries /\ NoThread \notin TreeThreads
BY TreeAssumption, Memory DEF TreeInv, CallOK, TreeTypes, LockTypes

\* The handle of a pointer keeps its entry alive.
LEMMA Held ==
    ASSUME NEW D, NEW T, Counts(D, T), NEW t \in TreeThreads, NEW k \in Slots,
           Ptr(T[t], k) \in Dentries
    PROVE  D[Ptr(T[t], k)].alive
<1>1. <<t, k>> \in Holders(T, Ptr(T[t], k))
  BY DEF Holders
<1> QED BY <1>1 DEF Counts

\* The pointers of a call, one by one.
LEMMA PtrIs ==
    ASSUME NEW c
    PROVE  /\ Ptr(c, "cur") = c.cur
           /\ Ptr(c, "par") = IF c.pc = "lk1" THEN Null ELSE c.par
           /\ Ptr(c, "fromdir") = c.fromdir /\ Ptr(c, "todir") = c.todir
           /\ Ptr(c, "fromdent") = c.fromdent /\ Ptr(c, "todent") = c.todent
           /\ Ptr(c, "fh") = IF c.op = "release" THEN Null ELSE c.fh
BY DEF Ptr

\* Locks that a step leaves alone.
LEMMA ContentsKept ==
    ASSUME TreeInv, NEW t \in TreeThreads, NEW c, UNCHANGED contents,
           \A d \in Dentries : (Reads(c, d) <=> Reads(thr[t], d)) /\ (Writes(c, d) <=> Writes(thr[t], d))
    PROVE  ContentsChange(t, c)
<1> SUFFICES ASSUME NEW d \in Dentries
             PROVE  /\ contents[d].r = IF Reads(c, d) THEN contents[d].r \cup {t}
                                       ELSE contents[d].r \ {t}
                    /\ contents[d].w = IF Writes(c, d) THEN t
                                       ELSE IF contents[d].w = t THEN NoThread ELSE contents[d].w
                    /\ Reads(c, d) /\ ~Reads(thr[t], d) => CanRead(d)
                    /\ Writes(c, d) /\ ~Writes(thr[t], d) => CanWrite(d)
  BY DEF ContentsChange
<1>1. contents[d].r = {u \in TreeThreads : Reads(thr[u], d)}
  BY DEF TreeInv, LocksTrue, ReadLocks
<1>2. contents[d].w = t <=> Writes(thr[t], d)
  BY DEF TreeInv, LocksTrue, WriteLocks
<1>3. Reads(c, d) <=> Reads(thr[t], d)
  OBVIOUS
<1>4. Writes(c, d) <=> Writes(thr[t], d)
  OBVIOUS
<1>5. contents[d].r = IF Reads(c, d) THEN contents[d].r \cup {t} ELSE contents[d].r \ {t}
  BY <1>1, <1>3
<1> QED BY <1>2, <1>3, <1>4, <1>5

\* A step that leaves every meta_lock alone.
LEMMA MetaKept ==
    ASSUME TreeInv, NEW t \in TreeThreads, NEW c, UNCHANGED meta,
           \A d \in Dentries : HasMeta(c, d) <=> HasMeta(thr[t], d)
    PROVE  MetaChange(t, c)
BY DEF TreeInv, LocksTrue, MetaLocks, MetaChange

\* A step that leaves rename_lock alone.
LEMMA RenameKept ==
    ASSUME TreeInv, NEW t \in TreeThreads, NEW c, UNCHANGED renameLock,
           Renames(c) <=> Renames(thr[t])
    PROVE  RenameChange(t, c)
BY DEF TreeInv, LocksTrue, RenameLocked, RenameChange

\* A count that goes up or down by one.
LEMMA CountUp ==
    ASSUME NEW D \in [Dentries -> Entry], NEW d \in Dentries, NEW E,
           E = [D EXCEPT ![d].nh = @ + 1]
    PROVE  NewCount(D, E, d, D[d].nh + 1)
<1>1. D[d] \in Entry
  OBVIOUS
<1>4. D[d].nh \in Int
  BY <1>1 DEF Entry
<1>2. D[d].nh + 1 \in Int
  BY <1>4
<1>3. [D[d] EXCEPT !.nh = D[d].nh + 1] \in Entry
  BY <1>1, <1>2 DEF Entry
<1> QED BY <1>3 DEF NewCount

\* numhandles goes down by one.
LEMMA CountDown ==
    ASSUME NEW D \in [Dentries -> Entry], NEW d \in Dentries, NEW E,
           E = [D EXCEPT ![d].nh = @ - 1]
    PROVE  \E v \in Int : v + 1 = D[d].nh /\ NewCount(D, E, d, v)
<1>1. D[d] \in Entry
  OBVIOUS
<1>5. D[d].nh \in Int
  BY <1>1 DEF Entry
<1>2. D[d].nh - 1 \in Int /\ (D[d].nh - 1) + 1 = D[d].nh
  BY <1>5
<1>3. [D[d] EXCEPT !.nh = D[d].nh - 1] \in Entry
  BY <1>1, <1>2 DEF Entry
<1>4. NewCount(D, E, d, D[d].nh - 1)
  BY <1>3 DEF NewCount
<1> QED BY <1>2, <1>4

\* The three ways a step deals with handles: dent and the call change together.
LEMMA KeepHandles ==
    ASSUME TreeInv, NEW t \in TreeThreads, NEW c, Steps(thr, thr', t, c), UNCHANGED dent,
           SameSlots(thr[t], c) \/ \E i, j : PassSlot(thr[t], c, i, j)
    PROVE  dent' \in [Dentries -> Entry] /\ Lean(dent, dent') /\ Counts(dent', thr')
<1>1. dent \in [Dentries -> Entry] /\ Counts(dent, thr)
  BY DEF TreeInv, TreeTypes
<1>2. Counts(dent, thr')
  BY <1>1, CountsSame, CountsPass
<1>3. \A e \in Dentries : dent[e] = [dent[e] EXCEPT !.nh = dent[e].nh]
  BY <1>1 DEF Entry
<1>4. Lean(dent, dent)
  BY <1>3 DEF Lean
<1> QED BY <1>1, <1>2, <1>4

\* numhandles++ for a pointer that appears.
LEMMA TakeHandle ==
    ASSUME TreeInv, NEW t \in TreeThreads, NEW c, Steps(thr, thr', t, c), NEW d \in Dentries,
           dent' = [dent EXCEPT ![d].nh = @ + 1], dent[d].alive,
           \E j : TakeSlot(thr[t], c, j, d)
    PROVE  dent' \in [Dentries -> Entry] /\ Lean(dent, dent') /\ Counts(dent', thr')
<1>1. dent \in [Dentries -> Entry] /\ Counts(dent, thr)
  BY DEF TreeInv, TreeTypes
<1>2. NewCount(dent, dent', d, dent[d].nh + 1)
  BY <1>1, CountUp
<1>3. PICK j : TakeSlot(thr[t], c, j, d)
  OBVIOUS
<1>4. Lean(dent, dent') /\ Counts(dent', thr')
  BY <1>1, <1>2, <1>3, Taken
<1> QED BY <1>2, <1>4 DEF NewCount

\* numhandles-- for a pointer that goes, of an entry that stays.
LEMMA DropHandle ==
    ASSUME TreeInv, NEW t \in TreeThreads, NEW c, Steps(thr, thr', t, c), NEW d \in Dentries,
           dent' = [dent EXCEPT ![d].nh = @ - 1], \E j : GiveSlot(thr[t], c, j, d)
    PROVE  dent' \in [Dentries -> Entry] /\ Lean(dent, dent') /\ Counts(dent', thr')
<1>1. dent \in [Dentries -> Entry] /\ Counts(dent, thr)
  BY DEF TreeInv, TreeTypes
<1>2. PICK v \in Int : v + 1 = dent[d].nh /\ NewCount(dent, dent', d, v)
  BY <1>1, CountDown
<1>3. PICK j : GiveSlot(thr[t], c, j, d)
  OBVIOUS
<1>4. Lean(dent, dent') /\ Counts(dent', thr')
  BY <1>1, <1>2, <1>3, Given
<1> QED BY <1>2, <1>4 DEF NewCount

\* fs_release_dentry_unlocked for a pointer that goes.
LEMMA ReleaseHandle ==
    ASSUME TreeInv, NEW t \in TreeThreads, NEW c, Steps(thr, thr', t, c), NEW d \in Dentries,
           dent' = Release(dent, d), \E j : GiveSlot(thr[t], c, j, d)
    PROVE  dent' \in [Dentries -> Entry] /\ Lean(dent, dent') /\ Counts(dent', thr')
<1>1. dent \in [Dentries -> Entry] /\ Counts(dent, thr) /\ GoodTree(dent)
  BY DEF TreeInv, TreeTypes
<1>3. PICK j : GiveSlot(thr[t], c, j, d)
  OBVIOUS
<1> QED BY <1>1, <1>3, Released

\* A thread between two calls satisfies every part of the invariant.
LEMMA QuietOK ==
    ASSUME NEW f \in NulOr
    PROVE  /\ Quiet(f) \in Call /\ CallOK(Quiet(f)) /\ \A D : PlaceOK(Quiet(f), D)
           /\ \A d : ~Reads(Quiet(f), d) /\ ~Writes(Quiet(f), d) /\ ~HasMeta(Quiet(f), d)
           /\ ~Renames(Quiet(f)) /\ Quiet(f).op = "none" /\ Quiet(f).pc = "idle"
           /\ Quiet(f).fh = f
           /\ \A k \in Slots : Ptr(Quiet(f), k) = IF k = "fh" THEN f ELSE Null
<1> DEFINE c == Quiet(f)
<1>1. /\ c.op = "none" /\ c.pc = "idle" /\ c.path = <<>> /\ c.to = <<>> /\ c.want = <<>>
      /\ c.cur = Null /\ c.par = Null /\ c.fromdir = Null /\ c.todir = Null
      /\ c.fromdent = Null /\ c.todent = Null /\ c.ok = FALSE /\ c.fh = f
  BY DEF Quiet
<1>2. c \in Call
  <2>1. <<>> \in Paths /\ Null \in NulOr /\ "idle" \in Pcs
    BY ShortPaths DEF NulOr, Pcs
  <2> QED BY <2>1 DEF Quiet, Call
<1>3. c = Quiet(c.fh)
  BY <1>1
<1> HIDE DEF c
<1>4. OpsMatch(c)
  BY <1>1, <1>3 DEF OpsMatch, Changing, LookPcs, CreatePcs, UnlinkPcs, LockedPcs, RenamePcs
<1>5. Pointers(c)
  BY <1>1 DEF Pointers, LookPcs, CreatePcs, UnlinkPcs, LockedPcs, RenamePcs
<1>6. Walk(c)
  BY <1>1 DEF Walk, LookPcs, CreatePcs, UnlinkPcs, LockedPcs, RenamePcs
<1>7. \A D : PlaceOK(c, D)
  BY <1>1 DEF PlaceOK, Changing
<1>8. \A d : ~Reads(c, d) /\ ~Writes(c, d) /\ ~HasMeta(c, d)
  BY <1>1 DEF Reads, Writes, HasMeta, LookPcs, CreatePcs, UnlinkPcs, LockedPcs, RenamePcs
<1>9. ~Renames(c)
  BY <1>1 DEF Renames
<1>10. \A k \in Slots : Ptr(c, k) = IF k = "fh" THEN f ELSE Null
  BY <1>1, PtrIs DEF Slots
<1> QED BY <1>1, <1>2, <1>4, <1>5, <1>6, <1>7, <1>8, <1>9, <1>10 DEF c, CallOK

-----------------------------------------------------------------------------
(* The operations on locks, dentry by dentry.                              *)

\* What the operations on contents_lock do to each dentry.
LEMMA LockOps ==
    ASSUME NEW C \in ContentsType, NEW d \in Dentries, NEW t \in TreeThreads
    PROVE  /\ LockR(C, d, t) \in ContentsType /\ LockW(C, d, t) \in ContentsType
           /\ UnlockR(C, d, t) \in ContentsType /\ UnlockW(C, d) \in ContentsType
           /\ \A x \in Dentries :
                 /\ IsLock(LockR(C, d, t)[x], C[x].w, IF x = d THEN C[x].r \cup {t} ELSE C[x].r)
                 /\ IsLock(LockW(C, d, t)[x], IF x = d THEN t ELSE C[x].w, C[x].r)
                 /\ IsLock(UnlockR(C, d, t)[x], C[x].w, IF x = d THEN C[x].r \ {t} ELSE C[x].r)
                 /\ IsLock(UnlockW(C, d)[x], IF x = d THEN NoThread ELSE C[x].w, C[x].r)
<1>0. d # Null
  BY Memory
<1>1. C[d] \in [w : Owner, r : SUBSET TreeThreads] /\ t \in Owner /\ NoThread \in Owner
  BY DEF ContentsType, Owner
<1>2. \A x \in Dentries : C[x].w \in Owner /\ C[x].r \in SUBSET TreeThreads
  BY DEF ContentsType
<1> DEFINE LR == [C[d] EXCEPT !.r = C[d].r \cup {t}]
           LW == [C[d] EXCEPT !.w = t]
           UR == [C[d] EXCEPT !.r = C[d].r \ {t}]
           UW == [C[d] EXCEPT !.w = NoThread]
<1>3. /\ LockR(C, d, t) = [C EXCEPT ![d] = LR] /\ LockW(C, d, t) = [C EXCEPT ![d] = LW]
      /\ UnlockR(C, d, t) = [C EXCEPT ![d] = UR] /\ UnlockW(C, d) = [C EXCEPT ![d] = UW]
  BY <1>0 DEF LockR, LockW, UnlockR, UnlockW
<1>4. /\ LR.w = C[d].w /\ LR.r = C[d].r \cup {t} /\ LW.w = t /\ LW.r = C[d].r
      /\ UR.w = C[d].w /\ UR.r = C[d].r \ {t} /\ UW.w = NoThread /\ UW.r = C[d].r
  BY <1>1
<1>5. C[d].r \cup {t} \in SUBSET TreeThreads /\ C[d].r \ {t} \in SUBSET TreeThreads
  BY <1>2
<1>6. /\ LR \in [w : Owner, r : SUBSET TreeThreads] /\ LW \in [w : Owner, r : SUBSET TreeThreads]
      /\ UR \in [w : Owner, r : SUBSET TreeThreads] /\ UW \in [w : Owner, r : SUBSET TreeThreads]
  BY <1>1, <1>5
<1> HIDE DEF LR, LW, UR, UW
<1>7. ASSUME NEW v \in [w : Owner, r : SUBSET TreeThreads]
      PROVE  /\ [C EXCEPT ![d] = v] \in ContentsType
             /\ \A x \in Dentries : [C EXCEPT ![d] = v][x] = IF x = d THEN v ELSE C[x]
  BY DEF ContentsType
<1>8. \A x \in Dentries : /\ LockR(C, d, t)[x] = IF x = d THEN LR ELSE C[x]
                          /\ LockW(C, d, t)[x] = IF x = d THEN LW ELSE C[x]
                          /\ UnlockR(C, d, t)[x] = IF x = d THEN UR ELSE C[x]
                          /\ UnlockW(C, d)[x] = IF x = d THEN UW ELSE C[x]
  BY <1>3, <1>6, <1>7
<1>9. /\ LockR(C, d, t) \in ContentsType /\ LockW(C, d, t) \in ContentsType
      /\ UnlockR(C, d, t) \in ContentsType /\ UnlockW(C, d) \in ContentsType
  BY <1>3, <1>6, <1>7
<1> QED BY <1>4, <1>8, <1>9 DEF IsLock

\* What thread t holds.
LEMMA Mine ==
    ASSUME TreeInv, NEW t \in TreeThreads, NEW d \in Dentries
    PROVE  /\ t \in contents[d].r <=> Reads(thr[t], d)
           /\ contents[d].w = t <=> Writes(thr[t], d)
           /\ meta[d] = t <=> HasMeta(thr[t], d)
           /\ contents \in ContentsType
BY DEF TreeInv, LocksTrue, ReadLocks, WriteLocks, MetaLocks, TreeTypes, ContentsType

\* A lock for writing that a step opens or takes, of a thread with no other.
LEMMA OpensW ==
    ASSUME TreeInv, NEW t \in TreeThreads, NEW c, NEW d \in Dentries,
           contents' = UnlockW(contents, d),
           \A x \in Dentries : /\ ~Reads(thr[t], x) /\ ~Reads(c, x) /\ ~Writes(c, x)
                               /\ Writes(thr[t], x) <=> x = d
    PROVE  ContentsChange(t, c)
<1>1. \A x \in Dentries : /\ t \notin contents[x].r
                          /\ contents[x].w = t <=> x = d
  BY Mine
<1>3. contents \in ContentsType
  BY DEF TreeInv, TreeTypes, ContentsType
<1>2. \A x \in Dentries : /\ contents'[x].r = contents[x].r
                          /\ contents'[x].w = IF x = d THEN NoThread ELSE contents[x].w
  <2>1. \A x \in Dentries : IsLock(UnlockW(contents, d)[x], IF x = d THEN NoThread ELSE contents[x].w, contents[x].r)
    BY <1>3, LockOps
  <2> QED BY <2>1 DEF IsLock
<1> QED BY <1>1, <1>2 DEF ContentsChange

\* A contents_lock for reading that a step gives back.
LEMMA OpensR ==
    ASSUME TreeInv, NEW t \in TreeThreads, NEW c, NEW d \in Dentries,
           contents' = UnlockR(contents, d, t),
           \A x \in Dentries : /\ ~Writes(thr[t], x) /\ ~Reads(c, x) /\ ~Writes(c, x)
                               /\ Reads(thr[t], x) <=> x = d
    PROVE  ContentsChange(t, c)
<1>1. \A x \in Dentries : /\ t \in contents[x].r <=> x = d
                          /\ contents[x].w # t
  BY Mine
<1>3. contents \in ContentsType
  BY DEF TreeInv, TreeTypes, ContentsType
<1>2. \A x \in Dentries : /\ contents'[x].w = contents[x].w
                          /\ contents'[x].r = IF x = d THEN contents[x].r \ {t} ELSE contents[x].r
  <2>1. \A x \in Dentries : IsLock(UnlockR(contents, d, t)[x], contents[x].w,
                                   IF x = d THEN contents[x].r \ {t} ELSE contents[x].r)
    BY <1>3, LockOps
  <2> QED BY <2>1 DEF IsLock
<1>4. \A x \in Dentries : contents'[x].r = contents[x].r \ {t}
  BY <1>1, <1>2
<1> QED BY <1>1, <1>2, <1>4 DEF ContentsChange

\* A contents_lock for writing that a step takes.
LEMMA TakesW ==
    ASSUME TreeInv, NEW t \in TreeThreads, NEW c, NEW d \in Dentries, CanWrite(d),
           contents' = LockW(contents, d, t),
           \A x \in Dentries : /\ ~Reads(thr[t], x) /\ ~Reads(c, x)
                               /\ Writes(c, x) <=> (x = d \/ Writes(thr[t], x))
    PROVE  ContentsChange(t, c)
<1>1. \A x \in Dentries : /\ t \notin contents[x].r
                          /\ contents[x].w = t <=> Writes(thr[t], x)
  BY Mine
<1>3. contents \in ContentsType
  BY DEF TreeInv, TreeTypes, ContentsType
<1>2. \A x \in Dentries : /\ contents'[x].r = contents[x].r
                          /\ contents'[x].w = IF x = d THEN t ELSE contents[x].w
  <2>1. \A x \in Dentries : IsLock(LockW(contents, d, t)[x], IF x = d THEN t ELSE contents[x].w, contents[x].r)
    BY <1>3, LockOps
  <2> QED BY <2>1 DEF IsLock
<1> QED BY <1>1, <1>2 DEF ContentsChange

\* The end of a call.
LEMMA EndStep ==
    ASSUME TreeInv, NEW t \in TreeThreads, thr[t].op # "none", NEW f \in NulOr,
           thr' = [thr EXCEPT ![t] = Quiet(f)],
           dent' \in [Dentries -> Entry], Lean(dent, dent'), Counts(dent', thr'),
           uidNumber' \in Nat, UNCHANGED <<contents, meta>>, renameLock' \in Owner,
           \A d \in Dentries : ~Reads(thr[t], d) /\ ~Writes(thr[t], d) /\ ~HasMeta(thr[t], d),
           renameLock' = IF Renames(thr[t]) THEN NoThread ELSE renameLock
    PROVE  TreeInv'
<1> DEFINE c == Quiet(f)
<1>1. /\ c \in Call /\ CallOK(c) /\ PlaceOK(c, dent)
      /\ \A d \in Dentries : ~Reads(c, d) /\ ~Writes(c, d) /\ ~HasMeta(c, d)
      /\ ~Renames(c) /\ c.op = "none" /\ c.pc = "idle"
  BY QuietOK
<1>2. thr' = [thr EXCEPT ![t] = c]
  OBVIOUS
<1> HIDE DEF c
<1>3. ContentsChange(t, c)
  BY <1>1, ContentsKept
<1>4. MetaChange(t, c)
  BY <1>1, MetaKept
<1>5. RenameChange(t, c)
  BY <1>1 DEF RenameChange, TreeInv, LocksTrue, RenameLocked
<1>6. LockTypes'
  BY DEF LockTypes, TreeInv, TreeTypes
<1>7. LockChange(t, c)
  BY <1>3, <1>4, <1>5 DEF LockChange
<1> QED BY <1>1, <1>2, <1>6, <1>7, LeanStep

-----------------------------------------------------------------------------
(* fs_path_lookup.                                                         *)

\* fs_path_lookup starts at the root with a handle of its own.
LEMMA LookupRootInv ==
    ASSUME TreeInv, NEW t \in TreeThreads, LookupRoot(t)
    PROVE  TreeInv'
<1> DEFINE b == thr[t]
           c == [b EXCEPT !.cur = Root, !.par = Null, !.pc = IF b.want = <<>> THEN "found" ELSE "lk1"]
<1>1. /\ b \in Call /\ OpsMatch(b) /\ Pointers(b) /\ Walk(b) /\ PlaceOK(b, dent)
      /\ thr \in [TreeThreads -> Call] /\ dent \in [Dentries -> Entry] /\ GoodTree(dent)
      /\ LockTypes /\ uidNumber \in Nat /\ Root \in Dentries /\ Null \notin Dentries
      /\ b.pc = "lk0"
  BY Here DEF LookupRoot
<1>2. /\ b.op # "none"
      /\ b.want = Target(b)
      /\ b.want = <<>> => b.op # "unlink"
  BY <1>1 DEF OpsMatch, Walk, FirstName, Target, Changing
<1>3. /\ c.op = b.op /\ c.path = b.path /\ c.to = b.to
      /\ c.want = b.want /\ c.cur = Root /\ c.par = Null
      /\ c.fromdir = b.fromdir /\ c.todir = b.todir /\ c.fromdent = b.fromdent
      /\ c.todent = b.todent /\ c.val = b.val /\ c.ok = b.ok
      /\ c.fh = b.fh /\ c.pc = IF b.want = <<>> THEN "found" ELSE "lk1"
  BY <1>1 DEF Call
<1>4. c \in Call
  <2>1. /\ Root \in NulOr
        /\ Null \in NulOr
        /\ (IF b.want = <<>> THEN "found" ELSE "lk1") \in Pcs
    BY <1>1, <1>2 DEF Call, NulOr, Pcs, LookPcs, CreatePcs, UnlinkPcs, LockedPcs, RenamePcs
  <2> QED BY <1>1, <2>1 DEF Call
<1>5. thr' = [thr EXCEPT ![t] = c] /\ Steps(thr, thr', t, c)
  BY <1>1 DEF LookupRoot, Goto, Steps
<1> HIDE DEF b, c
<1>6. CallOK(c)
  <2>1. Target(c) = Target(b)
    BY <1>3 DEF Target
  <2>2. OpsMatch(c)
    BY <1>1, <1>2, <1>3, <2>1 DEF OpsMatch, Changing, LookPcs, CreatePcs, UnlinkPcs, LockedPcs, RenamePcs
  <2>3. Pointers(c)
    BY <1>1, <1>2, <1>3, <2>1 DEF OpsMatch, Pointers, First, FirstName, LookPcs, CreatePcs, UnlinkPcs, LockedPcs, RenamePcs
  <2>4. Walk(c)
    BY <1>1, <1>2, <1>3, <2>1 DEF Walk, FirstName, LookPcs, CreatePcs, UnlinkPcs, LockedPcs, RenamePcs
  <2> QED BY <2>2, <2>3, <2>4 DEF CallOK
<1>7. dent' \in [Dentries -> Entry] /\ Lean(dent, dent') /\ Counts(dent', thr')
  <2>1. TakeSlot(b, c, "cur", Root)
    BY <1>1, <1>2, <1>3, PtrIs DEF TakeSlot, Slots, Pointers, LookPcs, CreatePcs, UnlinkPcs, LockedPcs, RenamePcs
  <2>2. Root \in Dentries /\ dent[Root].alive
    BY <1>1 DEF GoodTree
  <2> QED BY <1>2, <1>5, <2>1, <2>2, TakeHandle DEF b, LookupRoot
<1>8. LockChange(t, c) /\ LockTypes'
  <2>1. ContentsChange(t, c)
    <3>1. \A d \in Dentries : (Reads(c, d) <=> Reads(b, d)) /\ (Writes(c, d) <=> Writes(b, d))
      BY <1>1, <1>2, <1>3 DEF Reads, Writes, WantsW, First, Second, Pointers, LookPcs, CreatePcs, UnlinkPcs, LockedPcs, RenamePcs
    <3> QED BY <3>1, <1>2, ContentsKept DEF b, LookupRoot, SameLocks
  <2>2. MetaChange(t, c)
    <3>1. \A d \in Dentries : HasMeta(c, d) <=> HasMeta(b, d)
      BY <1>1, <1>2, <1>3 DEF HasMeta, First, Pointers, LookPcs, CreatePcs, UnlinkPcs, LockedPcs, RenamePcs
    <3> QED BY <3>1, MetaKept DEF b, LookupRoot, SameLocks
  <2>3. RenameChange(t, c)
    <3>1. Renames(c) <=> Renames(b)
      BY <1>1, <1>2, <1>3 DEF OpsMatch, Renames, LookPcs, CreatePcs, UnlinkPcs, LockedPcs, RenamePcs
    <3> QED BY <3>1, RenameKept DEF b, LookupRoot, SameLocks
  <2>4. LockTypes'
    BY <1>1, <1>2 DEF LookupRoot, SameLocks, LockTypes
  <2> QED BY <2>1, <2>2, <2>3, <2>4 DEF LockChange
<1>9. PlaceOK(c, dent)
  <2>1. c.op \in Changing => DirsOnPath(c, dent)
    BY <1>1, <1>2, <1>3 DEF PlaceOK, DirsOnPath
  <2>2. c.op \in Changing => LookupAt(c, dent)
    <3>1. Target(c) = b.want
      BY <1>2, <1>3 DEF Target
    <3>2. ResolveIn(dent, <<>>) = Root
      BY DEF ResolveIn
    <3> QED BY <1>1, <1>3, <3>1, <3>2 DEF LookupAt, FirstName
  <2>3. c.op \in Changing => UnlinkAt(c, dent)
    BY <1>1, <1>2, <1>3 DEF PlaceOK, UnlinkAt, LookPcs, CreatePcs, UnlinkPcs, LockedPcs, RenamePcs
  <2>4. c.op \in Changing => RenameAt(c, dent)
    BY <1>1, <1>2, <1>3 DEF PlaceOK, RenameAt, First, Pointers, LookPcs, CreatePcs, UnlinkPcs, LockedPcs, RenamePcs
  <2>5. c.pc = "lk3" => dent[c.par].kids[Head(c.want)] = c.cur
    BY <1>1, <1>3
  <2> QED BY <2>1, <2>2, <2>3, <2>4, <2>5 DEF PlaceOK
<1>11. SameCall(b, c) /\ uidNumber' \in Nat
  BY <1>1, <1>3 DEF SameCall, LookupRoot, SameTree
<1> QED BY <1>2, <1>4, <1>5, <1>6, <1>7, <1>8, <1>9, <1>11, LeanStep DEF b

\* fs_path_lookup locks the directory the next name is in and gives the one above back.
LEMMA LookupLockInv ==
    ASSUME TreeInv, NEW t \in TreeThreads, LookupLock(t)
    PROVE  TreeInv'
<1> DEFINE b == thr[t]
           c == [b EXCEPT !.par = b.cur, !.cur = Null, !.pc = "lk2"]
<1>1. /\ b \in Call /\ OpsMatch(b) /\ Pointers(b) /\ Walk(b) /\ PlaceOK(b, dent)
      /\ thr \in [TreeThreads -> Call] /\ dent \in [Dentries -> Entry] /\ GoodTree(dent)
      /\ LockTypes /\ uidNumber \in Nat /\ Root \in Dentries /\ Null \notin Dentries
      /\ b.pc = "lk1"
  BY Here DEF LookupLock
<1>2. /\ b.op # "none"
      /\ b.cur \in Dentries
      /\ b.par = Null \/ (b.par = Root /\ b.cur # Root)
      /\ FirstName(b) => b.cur = Root
  BY <1>1 DEF OpsMatch, Pointers, Walk, FirstName, Call, NulOr, LookPcs, CreatePcs, UnlinkPcs, LockedPcs, RenamePcs
<1>3. /\ c.op = b.op /\ c.path = b.path /\ c.to = b.to
      /\ c.want = b.want /\ c.cur = Null /\ c.par = b.cur
      /\ c.fromdir = b.fromdir /\ c.todir = b.todir /\ c.fromdent = b.fromdent
      /\ c.todent = b.todent /\ c.val = b.val /\ c.ok = b.ok
      /\ c.fh = b.fh /\ c.pc = "lk2"
  BY <1>1 DEF Call
<1>4. c \in Call
  <2>1. /\ b.cur \in NulOr
        /\ Null \in NulOr
        /\ "lk2" \in Pcs
    BY <1>1, <1>2 DEF Call, NulOr, Pcs, LookPcs, CreatePcs, UnlinkPcs, LockedPcs, RenamePcs
  <2> QED BY <1>1, <2>1 DEF Call
<1>5. thr' = [thr EXCEPT ![t] = c] /\ Steps(thr, thr', t, c)
  BY <1>1 DEF LookupLock, Goto, Steps
<1> HIDE DEF b, c
<1>6. CallOK(c)
  <2>1. Target(c) = Target(b)
    BY <1>3 DEF Target
  <2>2. OpsMatch(c)
    BY <1>1, <1>2, <1>3, <2>1 DEF OpsMatch, Changing, LookPcs, CreatePcs, UnlinkPcs, LockedPcs, RenamePcs
  <2>3. Pointers(c)
    BY <1>1, <1>2, <1>3, <2>1 DEF OpsMatch, Pointers, First, FirstName, LookPcs, CreatePcs, UnlinkPcs, LockedPcs, RenamePcs
  <2>4. Walk(c)
    BY <1>1, <1>2, <1>3, <2>1 DEF Walk, FirstName, LookPcs, CreatePcs, UnlinkPcs, LockedPcs, RenamePcs
  <2> QED BY <2>2, <2>3, <2>4 DEF CallOK
<1>7. dent' \in [Dentries -> Entry] /\ Lean(dent, dent') /\ Counts(dent', thr')
  <2>1. PassSlot(b, c, "cur", "par")
    BY <1>1, <1>2, <1>3, PtrIs DEF PassSlot, Slots, Pointers, LookPcs, CreatePcs, UnlinkPcs, LockedPcs, RenamePcs
  <2> QED BY <1>2, <1>5, <2>1, KeepHandles DEF b, LookupLock, SameTree
<1>8. LockChange(t, c) /\ LockTypes'
  <2>1. ContentsChange(t, c)
    <3> DEFINE w == ParentW(t)
               C == IF w THEN LockW(contents, b.cur, t) ELSE LockR(contents, b.cur, t)
    <3>0. w <=> WantsW(c)
      BY <1>3 DEF ParentW, LastName, WantsW, b
    <3>1. \A d \in Dentries : /\ Reads(b, d) <=> b.par = d
                              /\ ~Writes(b, d)
                              /\ Reads(c, d) <=> d = b.cur /\ ~w
                              /\ Writes(c, d) <=> d = b.cur /\ w
      BY <1>1, <1>2, <1>3, <3>0 DEF Reads, Writes, LookPcs, CreatePcs, UnlinkPcs, LockedPcs, RenamePcs
    <3>2. /\ (w => CanWrite(b.cur)) /\ (~w => CanRead(b.cur)) /\ contents' = UnlockR(C, b.par, t)
      BY DEF LookupLock, b
    <3> HIDE DEF w
    <3>3. contents \in ContentsType
      BY <1>1 DEF LockTypes, ContentsType
    <3>4. C \in ContentsType
      BY <1>2, <3>3, LockOps
    <3>5. \A d \in Dentries : IsLock(C[d], IF d = b.cur /\ w THEN t ELSE contents[d].w,
                                     IF d = b.cur /\ ~w THEN contents[d].r \cup {t} ELSE contents[d].r)
      <4>1. \A d \in Dentries :
              /\ IsLock(LockR(contents, b.cur, t)[d], contents[d].w,
                        IF d = b.cur THEN contents[d].r \cup {t} ELSE contents[d].r)
              /\ IsLock(LockW(contents, b.cur, t)[d], IF d = b.cur THEN t ELSE contents[d].w, contents[d].r)
        BY <1>2, <3>3, LockOps
      <4> QED BY <4>1 DEF IsLock
    <3> HIDE DEF C
    <3>6. \A d \in Dentries : IsLock(UnlockR(C, b.par, t)[d], C[d].w,
                                     IF d = b.par THEN C[d].r \ {t} ELSE C[d].r)
      <4>1. CASE b.par = Null
        BY <1>1, <4>1 DEF UnlockR, IsLock
      <4>2. CASE b.par = Root
        BY <1>1, <3>4, <4>2, LockOps
      <4> QED BY <1>2, <4>1, <4>2
    <3>7. ASSUME NEW d \in Dentries
          PROVE  /\ contents'[d].w = IF d = b.cur /\ w THEN t ELSE contents[d].w
                 /\ contents'[d].r = IF d = b.cur /\ ~w THEN contents[d].r \cup {t}
                                     ELSE IF d = b.par THEN contents[d].r \ {t} ELSE contents[d].r
      <4>1. /\ contents'[d].w = C[d].w
            /\ contents'[d].r = IF d = b.par THEN C[d].r \ {t} ELSE C[d].r
        BY <3>2, <3>6 DEF IsLock
      <4>2. /\ C[d].w = IF d = b.cur /\ w THEN t ELSE contents[d].w
            /\ C[d].r = IF d = b.cur /\ ~w THEN contents[d].r \cup {t} ELSE contents[d].r
        BY <3>5 DEF IsLock
      <4>3. ~(d = b.cur /\ d = b.par)
        BY <1>1, <1>2
      <4> QED BY <4>1, <4>2, <4>3
    <3>8. \A d \in Dentries : /\ t \in contents[d].r <=> Reads(b, d)
                              /\ contents[d].w = t <=> Writes(b, d)
      BY Mine DEF b
    <3> QED BY <3>1, <3>2, <3>7, <3>8, ZenonT(30) DEF ContentsChange, b
  <2>2. MetaChange(t, c)
    <3>1. \A d \in Dentries : HasMeta(c, d) <=> HasMeta(b, d)
      BY <1>1, <1>2, <1>3 DEF HasMeta, First, Pointers, LookPcs, CreatePcs, UnlinkPcs, LockedPcs, RenamePcs
    <3> QED BY <3>1, MetaKept DEF b, LookupLock, SameLocks
  <2>3. RenameChange(t, c)
    <3>1. Renames(c) <=> Renames(b)
      BY <1>1, <1>2, <1>3 DEF OpsMatch, Renames, LookPcs, CreatePcs, UnlinkPcs, LockedPcs, RenamePcs
    <3> QED BY <3>1, RenameKept DEF b, LookupLock, SameLocks
  <2>4. LockTypes'
    <3>1. contents \in ContentsType
      BY <1>1 DEF LockTypes, ContentsType
    <3>2. LockR(contents, b.cur, t) \in ContentsType /\ LockW(contents, b.cur, t) \in ContentsType
      BY <1>2, <3>1, LockOps
    <3>3. \A C \in ContentsType : UnlockR(C, b.par, t) \in ContentsType
      <4>1. CASE b.par = Null
        BY <4>1 DEF UnlockR
      <4>2. CASE b.par = Root
        BY <1>1, <4>2, LockOps
      <4> QED BY <1>2, <4>1, <4>2
    <3>4. contents' \in ContentsType
      BY <3>2, <3>3 DEF LookupLock, b
    <3> QED BY <1>1, <3>4 DEF LookupLock, LockTypes, ContentsType
  <2> QED BY <2>1, <2>2, <2>3, <2>4 DEF LockChange
<1>9. PlaceOK(c, dent)
  <2>1. c.op \in Changing => DirsOnPath(c, dent)
    BY <1>1, <1>2, <1>3 DEF PlaceOK, DirsOnPath
  <2>2. c.op \in Changing => LookupAt(c, dent)
    BY <1>1, <1>2, <1>3 DEF PlaceOK, LookupAt, Target, FirstName, LookPcs, CreatePcs, UnlinkPcs, LockedPcs, RenamePcs
  <2>3. c.op \in Changing => UnlinkAt(c, dent)
    BY <1>1, <1>2, <1>3 DEF PlaceOK, UnlinkAt, LookPcs, CreatePcs, UnlinkPcs, LockedPcs, RenamePcs
  <2>4. c.op \in Changing => RenameAt(c, dent)
    BY <1>1, <1>2, <1>3 DEF PlaceOK, RenameAt, First, Pointers, LookPcs, CreatePcs, UnlinkPcs, LockedPcs, RenamePcs
  <2>5. c.pc = "lk3" => dent[c.par].kids[Head(c.want)] = c.cur
    BY <1>1, <1>3
  <2> QED BY <2>1, <2>2, <2>3, <2>4, <2>5 DEF PlaceOK
<1>11. SameCall(b, c) /\ uidNumber' \in Nat
  BY <1>1, <1>3 DEF SameCall, LookupLock, SameTree
<1> QED BY <1>2, <1>4, <1>5, <1>6, <1>7, <1>8, <1>9, <1>11, LeanStep DEF b

\* fs_directory_lookup finds the name and takes a handle on its dentry.
LEMMA LookupEntryInv ==
    ASSUME TreeInv, NEW t \in TreeThreads, LookupEntry(t)
    PROVE  TreeInv'
<1> DEFINE b == thr[t]
           c == [b EXCEPT !.cur = dent[b.par].kids[Head(b.want)], !.pc = "lk3"]
<1>1. /\ b \in Call /\ OpsMatch(b) /\ Pointers(b) /\ Walk(b) /\ PlaceOK(b, dent)
      /\ thr \in [TreeThreads -> Call] /\ dent \in [Dentries -> Entry] /\ GoodTree(dent)
      /\ LockTypes /\ uidNumber \in Nat /\ Root \in Dentries /\ Null \notin Dentries
      /\ b.pc = "lk2"
  BY Here DEF LookupEntry
<1>2. /\ b.op # "none"
      /\ b.par \in Dentries
      /\ dent[b.par].kids[Head(b.want)] \in Dentries
      /\ dent[dent[b.par].kids[Head(b.want)]].alive
  <2>1. b.op # "none" /\ b.par # Null /\ b.want # <<>> /\ b.want \in Paths /\ b.par \in NulOr
    BY <1>1 DEF OpsMatch, Pointers, Walk, Call, LookPcs, CreatePcs, UnlinkPcs, LockedPcs, RenamePcs
  <2>2. Head(b.want) \in FileNames /\ b.par \in Dentries
    BY <2>1, PathParts DEF NulOr
  <2>3. dent[b.par].kids[Head(b.want)] # Null
    BY DEF LookupEntry
  <2>4. dent[b.par] \in Entry
    BY <1>1, <2>2
  <2>5. dent[b.par].kids[Head(b.want)] \in NulOr
    BY <2>2, <2>4 DEF Entry
  <2> QED BY <1>1, <2>1, <2>2, <2>3, <2>5, ZenonT(30) DEF GoodTree, NulOr
<1>3. /\ c.op = b.op /\ c.path = b.path /\ c.to = b.to
      /\ c.want = b.want /\ c.cur = dent[b.par].kids[Head(b.want)] /\ c.par = b.par
      /\ c.fromdir = b.fromdir /\ c.todir = b.todir /\ c.fromdent = b.fromdent
      /\ c.todent = b.todent /\ c.val = b.val /\ c.ok = b.ok
      /\ c.fh = b.fh /\ c.pc = "lk3"
  BY <1>1 DEF Call
<1>4. c \in Call
  <2>1. /\ dent[b.par].kids[Head(b.want)] \in NulOr
        /\ "lk3" \in Pcs
    BY <1>1, <1>2 DEF Call, NulOr, Pcs, LookPcs, CreatePcs, UnlinkPcs, LockedPcs, RenamePcs
  <2> QED BY <1>1, <2>1 DEF Call
<1>5. thr' = [thr EXCEPT ![t] = c] /\ Steps(thr, thr', t, c)
  BY <1>1 DEF LookupEntry, Goto, Steps
<1> HIDE DEF b, c
<1>6. CallOK(c)
  <2>1. Target(c) = Target(b)
    BY <1>3 DEF Target
  <2>2. OpsMatch(c)
    BY <1>1, <1>2, <1>3, <2>1 DEF OpsMatch, Changing, LookPcs, CreatePcs, UnlinkPcs, LockedPcs, RenamePcs
  <2>3. Pointers(c)
    BY <1>1, <1>2, <1>3, <2>1 DEF OpsMatch, Pointers, First, FirstName, LookPcs, CreatePcs, UnlinkPcs, LockedPcs, RenamePcs
  <2>4. Walk(c)
    BY <1>1, <1>2, <1>3, <2>1 DEF Walk, FirstName, LookPcs, CreatePcs, UnlinkPcs, LockedPcs, RenamePcs
  <2> QED BY <2>2, <2>3, <2>4 DEF CallOK
<1>7. dent' \in [Dentries -> Entry] /\ Lean(dent, dent') /\ Counts(dent', thr')
  <2>1. TakeSlot(b, c, "cur", dent[b.par].kids[Head(b.want)])
    BY <1>1, <1>2, <1>3, PtrIs DEF TakeSlot, Slots, Pointers, LookPcs, CreatePcs, UnlinkPcs, LockedPcs, RenamePcs
  <2>2. dent[b.par].kids[Head(b.want)] \in Dentries /\ dent[dent[b.par].kids[Head(b.want)]].alive
    BY <1>2
  <2> QED BY <1>2, <1>5, <2>1, <2>2, TakeHandle DEF b, LookupEntry
<1>8. LockChange(t, c) /\ LockTypes'
  <2>1. ContentsChange(t, c)
    <3>1. \A d \in Dentries : (Reads(c, d) <=> Reads(b, d)) /\ (Writes(c, d) <=> Writes(b, d))
      BY <1>1, <1>2, <1>3 DEF Reads, Writes, WantsW, First, Second, Pointers, LookPcs, CreatePcs, UnlinkPcs, LockedPcs, RenamePcs
    <3> QED BY <3>1, <1>2, ContentsKept DEF b, LookupEntry, SameLocks
  <2>2. MetaChange(t, c)
    <3>1. \A d \in Dentries : HasMeta(c, d) <=> HasMeta(b, d)
      BY <1>1, <1>2, <1>3 DEF HasMeta, First, Pointers, LookPcs, CreatePcs, UnlinkPcs, LockedPcs, RenamePcs
    <3> QED BY <3>1, MetaKept DEF b, LookupEntry, SameLocks
  <2>3. RenameChange(t, c)
    <3>1. Renames(c) <=> Renames(b)
      BY <1>1, <1>2, <1>3 DEF OpsMatch, Renames, LookPcs, CreatePcs, UnlinkPcs, LockedPcs, RenamePcs
    <3> QED BY <3>1, RenameKept DEF b, LookupEntry, SameLocks
  <2>4. LockTypes'
    BY <1>1, <1>2 DEF LookupEntry, SameLocks, LockTypes
  <2> QED BY <2>1, <2>2, <2>3, <2>4 DEF LockChange
<1>9. PlaceOK(c, dent)
  <2>1. c.op \in Changing => DirsOnPath(c, dent)
    BY <1>1, <1>2, <1>3 DEF PlaceOK, DirsOnPath
  <2>2. c.op \in Changing => LookupAt(c, dent)
    BY <1>1, <1>2, <1>3 DEF PlaceOK, LookupAt, Target, FirstName, LookPcs, CreatePcs, UnlinkPcs, LockedPcs, RenamePcs
  <2>3. c.op \in Changing => UnlinkAt(c, dent)
    BY <1>1, <1>2, <1>3 DEF PlaceOK, UnlinkAt, LookPcs, CreatePcs, UnlinkPcs, LockedPcs, RenamePcs
  <2>4. c.op \in Changing => RenameAt(c, dent)
    BY <1>1, <1>2, <1>3 DEF PlaceOK, RenameAt, First, Pointers, LookPcs, CreatePcs, UnlinkPcs, LockedPcs, RenamePcs
  <2>5. c.pc = "lk3" => dent[c.par].kids[Head(c.want)] = c.cur
    BY <1>1, <1>3
  <2> QED BY <2>1, <2>2, <2>3, <2>4, <2>5 DEF PlaceOK
<1>11. SameCall(b, c) /\ uidNumber' \in Nat
  BY <1>1, <1>3 DEF SameCall, LookupEntry, SameTree
<1> QED BY <1>2, <1>4, <1>5, <1>6, <1>7, <1>8, <1>9, <1>11, LeanStep DEF b

\* fs_directory_lookup does not find the name.
LEMMA LookupMissingInv ==
    ASSUME TreeInv, NEW t \in TreeThreads, LookupMissing(t)
    PROVE  TreeInv'
<1> DEFINE b == thr[t]
           c == [b EXCEPT !.pc = "lkno"]
<1>1. /\ b \in Call /\ OpsMatch(b) /\ Pointers(b) /\ Walk(b) /\ PlaceOK(b, dent)
      /\ thr \in [TreeThreads -> Call] /\ dent \in [Dentries -> Entry] /\ GoodTree(dent)
      /\ LockTypes /\ uidNumber \in Nat /\ Root \in Dentries /\ Null \notin Dentries
      /\ b.pc = "lk2"
  BY Here DEF LookupMissing
<1>2. /\ b.op # "none"
      /\ b.par \in Dentries
  BY <1>1 DEF OpsMatch, Pointers, Call, NulOr, LookPcs, CreatePcs, UnlinkPcs, LockedPcs, RenamePcs
<1>3. /\ c.op = b.op /\ c.path = b.path /\ c.to = b.to
      /\ c.want = b.want /\ c.cur = b.cur /\ c.par = b.par
      /\ c.fromdir = b.fromdir /\ c.todir = b.todir /\ c.fromdent = b.fromdent
      /\ c.todent = b.todent /\ c.val = b.val /\ c.ok = b.ok
      /\ c.fh = b.fh /\ c.pc = "lkno"
  BY <1>1 DEF Call
<1>4. c \in Call
  <2>1. /\ "lkno" \in Pcs
    BY <1>1, <1>2 DEF Call, NulOr, Pcs, LookPcs, CreatePcs, UnlinkPcs, LockedPcs, RenamePcs
  <2> QED BY <1>1, <2>1 DEF Call
<1>5. thr' = [thr EXCEPT ![t] = c] /\ Steps(thr, thr', t, c)
  BY <1>1 DEF LookupMissing, Goto, Steps
<1> HIDE DEF b, c
<1>6. CallOK(c)
  <2>1. Target(c) = Target(b)
    BY <1>3 DEF Target
  <2>2. OpsMatch(c)
    BY <1>1, <1>2, <1>3, <2>1 DEF OpsMatch, Changing, LookPcs, CreatePcs, UnlinkPcs, LockedPcs, RenamePcs
  <2>3. Pointers(c)
    BY <1>1, <1>2, <1>3, <2>1 DEF OpsMatch, Pointers, First, FirstName, LookPcs, CreatePcs, UnlinkPcs, LockedPcs, RenamePcs
  <2>4. Walk(c)
    BY <1>1, <1>2, <1>3, <2>1 DEF Walk, FirstName, LookPcs, CreatePcs, UnlinkPcs, LockedPcs, RenamePcs
  <2> QED BY <2>2, <2>3, <2>4 DEF CallOK
<1>7. dent' \in [Dentries -> Entry] /\ Lean(dent, dent') /\ Counts(dent', thr')
  <2>1. SameSlots(b, c)
    BY <1>1, <1>2, <1>3, PtrIs DEF SameSlots, Slots, Pointers, LookPcs, CreatePcs, UnlinkPcs, LockedPcs, RenamePcs
  <2> QED BY <1>2, <1>5, <2>1, KeepHandles DEF b, LookupMissing, SameTree
<1>8. LockChange(t, c) /\ LockTypes'
  <2>1. ContentsChange(t, c)
    <3> DEFINE w == ParentW(t)
    <3>0. w <=> WantsW(b)
      BY DEF ParentW, LastName, WantsW, b
    <3>1. \A d \in Dentries : /\ Reads(b, d) <=> b.par = d /\ ~w
                              /\ Writes(b, d) <=> b.par = d /\ w
                              /\ ~Reads(c, d) /\ ~Writes(c, d)
      BY <1>1, <1>2, <1>3, <3>0 DEF Reads, Writes, LookPcs, CreatePcs, UnlinkPcs, LockedPcs, RenamePcs
    <3>2. contents' = IF w THEN UnlockW(contents, b.par) ELSE UnlockR(contents, b.par, t)
      BY DEF LookupMissing, b
    <3>3. contents \in ContentsType
      BY <1>1 DEF LockTypes, ContentsType
    <3> HIDE DEF w
    <3>4. CASE w
      BY <1>2, <3>1, <3>2, <3>4, OpensW DEF b
    <3>5. CASE ~w
      BY <1>2, <3>1, <3>2, <3>5, OpensR DEF b
    <3> QED BY <3>4, <3>5
  <2>2. MetaChange(t, c)
    <3>1. \A d \in Dentries : HasMeta(c, d) <=> HasMeta(b, d)
      BY <1>1, <1>2, <1>3 DEF HasMeta, First, Pointers, LookPcs, CreatePcs, UnlinkPcs, LockedPcs, RenamePcs
    <3> QED BY <3>1, MetaKept DEF b, LookupMissing, SameLocks
  <2>3. RenameChange(t, c)
    <3>1. Renames(c) <=> Renames(b)
      BY <1>1, <1>2, <1>3 DEF OpsMatch, Renames, LookPcs, CreatePcs, UnlinkPcs, LockedPcs, RenamePcs
    <3> QED BY <3>1, RenameKept DEF b, LookupMissing, SameLocks
  <2>4. LockTypes'
    <3>1. contents \in ContentsType
      BY <1>1 DEF LockTypes, ContentsType
    <3>2. UnlockR(contents, b.par, t) \in ContentsType /\ UnlockW(contents, b.par) \in ContentsType
      BY <1>2, <3>1, LockOps
    <3>4. contents' \in ContentsType
      BY <3>2 DEF LookupMissing, b
    <3> QED BY <1>1, <3>4 DEF LookupMissing, LockTypes, ContentsType
  <2> QED BY <2>1, <2>2, <2>3, <2>4 DEF LockChange
<1>9. PlaceOK(c, dent)
  <2>1. c.op \in Changing => DirsOnPath(c, dent)
    BY <1>1, <1>2, <1>3 DEF PlaceOK, DirsOnPath
  <2>2. c.op \in Changing => LookupAt(c, dent)
    BY <1>1, <1>2, <1>3 DEF PlaceOK, LookupAt, Target, FirstName, LookPcs, CreatePcs, UnlinkPcs, LockedPcs, RenamePcs
  <2>3. c.op \in Changing => UnlinkAt(c, dent)
    BY <1>1, <1>2, <1>3 DEF PlaceOK, UnlinkAt, LookPcs, CreatePcs, UnlinkPcs, LockedPcs, RenamePcs
  <2>4. c.op \in Changing => RenameAt(c, dent)
    BY <1>1, <1>2, <1>3 DEF PlaceOK, RenameAt, First, Pointers, LookPcs, CreatePcs, UnlinkPcs, LockedPcs, RenamePcs
  <2>5. c.pc = "lk3" => dent[c.par].kids[Head(c.want)] = c.cur
    BY <1>1, <1>3
  <2> QED BY <2>1, <2>2, <2>3, <2>4, <2>5 DEF PlaceOK
<1>11. SameCall(b, c) /\ uidNumber' \in Nat
  BY <1>1, <1>3 DEF SameCall, LookupMissing, SameTree
<1> QED BY <1>2, <1>4, <1>5, <1>6, <1>7, <1>8, <1>9, <1>11, LeanStep DEF b

\* The second lookup of a rename fails: the directory it came to is given back.
LEMMA LookupFailsTarget ==
    ASSUME TreeInv, NEW t \in TreeThreads, LookupFails(t), thr[t].op = "rename", thr[t].fromdir # Null
    PROVE  TreeInv'
<1> DEFINE b == thr[t]
           c == [b EXCEPT !.par = Null, !.pc = "rnf"]
<1>1. /\ b \in Call /\ OpsMatch(b) /\ Pointers(b) /\ Walk(b) /\ PlaceOK(b, dent)
      /\ thr \in [TreeThreads -> Call] /\ dent \in [Dentries -> Entry] /\ GoodTree(dent)
      /\ LockTypes /\ uidNumber \in Nat /\ Root \in Dentries /\ Null \notin Dentries
      /\ b.pc = "lkno"
  BY Here DEF LookupFails
<1>2. /\ b.op # "none"
      /\ b.op = "rename"
      /\ b.fromdir # Null
  BY <1>1 DEF OpsMatch
<1>3. /\ c.op = b.op /\ c.path = b.path /\ c.to = b.to
      /\ c.want = b.want /\ c.cur = b.cur /\ c.par = Null
      /\ c.fromdir = b.fromdir /\ c.todir = b.todir /\ c.fromdent = b.fromdent
      /\ c.todent = b.todent /\ c.val = b.val /\ c.ok = b.ok
      /\ c.fh = b.fh /\ c.pc = "rnf"
  BY <1>1 DEF Call
<1>4. c \in Call
  <2>1. /\ Null \in NulOr
        /\ "rnf" \in Pcs
    BY <1>1, <1>2 DEF Call, NulOr, Pcs, LookPcs, CreatePcs, UnlinkPcs, LockedPcs, RenamePcs
  <2> QED BY <1>1, <2>1 DEF Call
<1>5. thr' = [thr EXCEPT ![t] = c] /\ Steps(thr, thr', t, c)
  BY <1>1 DEF LookupFails, Goto, Steps
<1> HIDE DEF b, c
<1>6. CallOK(c)
  <2>1. Target(c) = Target(b)
    BY <1>3 DEF Target
  <2>2. OpsMatch(c)
    BY <1>1, <1>2, <1>3, <2>1 DEF OpsMatch, Changing, LookPcs, CreatePcs, UnlinkPcs, LockedPcs, RenamePcs
  <2>3. Pointers(c)
    BY <1>1, <1>2, <1>3, <2>1 DEF OpsMatch, Pointers, First, FirstName, LookPcs, CreatePcs, UnlinkPcs, LockedPcs, RenamePcs
  <2>4. Walk(c)
    BY <1>1, <1>2, <1>3, <2>1 DEF Walk, FirstName, LookPcs, CreatePcs, UnlinkPcs, LockedPcs, RenamePcs
  <2> QED BY <2>2, <2>3, <2>4 DEF CallOK
<1>7. dent' \in [Dentries -> Entry] /\ Lean(dent, dent') /\ Counts(dent', thr')
  <2>1. GiveSlot(b, c, "par", b.par)
    BY <1>1, <1>2, <1>3, PtrIs DEF GiveSlot, TakeSlot, Slots, Pointers, LookPcs, CreatePcs, UnlinkPcs, LockedPcs, RenamePcs
  <2>2. b.par \in Dentries
    BY <1>1 DEF Pointers, Call, NulOr, LookPcs, CreatePcs, UnlinkPcs, LockedPcs, RenamePcs
  <2> QED BY <1>2, <1>5, <2>1, <2>2, ReleaseHandle DEF b, LookupFails
<1>8. LockChange(t, c) /\ LockTypes'
  <2>1. ContentsChange(t, c)
    <3>1. \A d \in Dentries : (Reads(c, d) <=> Reads(b, d)) /\ (Writes(c, d) <=> Writes(b, d))
      BY <1>1, <1>2, <1>3 DEF Reads, Writes, WantsW, First, Second, Pointers, LookPcs, CreatePcs, UnlinkPcs, LockedPcs, RenamePcs
    <3> QED BY <3>1, <1>2, ContentsKept DEF b, LookupFails, SameLocks
  <2>2. MetaChange(t, c)
    <3>1. \A d \in Dentries : HasMeta(c, d) <=> HasMeta(b, d)
      BY <1>1, <1>2, <1>3 DEF HasMeta, First, Pointers, LookPcs, CreatePcs, UnlinkPcs, LockedPcs, RenamePcs
    <3> QED BY <3>1, MetaKept DEF b, LookupFails, SameLocks
  <2>3. RenameChange(t, c)
    <3>1. Renames(c) <=> Renames(b)
      BY <1>1, <1>2, <1>3 DEF OpsMatch, Renames, LookPcs, CreatePcs, UnlinkPcs, LockedPcs, RenamePcs
    <3> QED BY <3>1, RenameKept DEF b, LookupFails, SameLocks
  <2>4. LockTypes'
    BY <1>1, <1>2 DEF LookupFails, SameLocks, LockTypes
  <2> QED BY <2>1, <2>2, <2>3, <2>4 DEF LockChange
<1>9. PlaceOK(c, dent)
  <2>1. c.op \in Changing => DirsOnPath(c, dent)
    BY <1>1, <1>2, <1>3 DEF PlaceOK, DirsOnPath
  <2>2. c.op \in Changing => LookupAt(c, dent)
    BY <1>1, <1>2, <1>3 DEF PlaceOK, LookupAt, Target, FirstName, LookPcs, CreatePcs, UnlinkPcs, LockedPcs, RenamePcs
  <2>3. c.op \in Changing => UnlinkAt(c, dent)
    BY <1>1, <1>2, <1>3 DEF PlaceOK, UnlinkAt, LookPcs, CreatePcs, UnlinkPcs, LockedPcs, RenamePcs
  <2>4. c.op \in Changing => RenameAt(c, dent)
    BY <1>1, <1>2, <1>3 DEF PlaceOK, RenameAt, First, Pointers, LookPcs, CreatePcs, UnlinkPcs, LockedPcs, RenamePcs
  <2>5. c.pc = "lk3" => dent[c.par].kids[Head(c.want)] = c.cur
    BY <1>1, <1>3
  <2> QED BY <2>1, <2>2, <2>3, <2>4, <2>5 DEF PlaceOK
<1>11. SameCall(b, c) /\ uidNumber' \in Nat
  BY <1>1, <1>3 DEF SameCall, LookupFails, SameTree
<1> QED BY <1>2, <1>4, <1>5, <1>6, <1>7, <1>8, <1>9, <1>11, LeanStep DEF b

\* A lookup that fails gives its directory back and ends the call.
LEMMA LookupFailsEnd ==
    ASSUME TreeInv, NEW t \in TreeThreads, LookupFails(t), ~(thr[t].op = "rename" /\ thr[t].fromdir # Null)
    PROVE  TreeInv'
<1> DEFINE b == thr[t]
           c == Quiet(b.fh)
<1>1. /\ b \in Call /\ OpsMatch(b) /\ Pointers(b) /\ Walk(b) /\ PlaceOK(b, dent)
      /\ thr \in [TreeThreads -> Call] /\ dent \in [Dentries -> Entry] /\ GoodTree(dent)
      /\ LockTypes /\ uidNumber \in Nat /\ Root \in Dentries /\ Null \notin Dentries
      /\ b.pc = "lkno"
  BY Here DEF LookupFails
<1>2. /\ b.op # "none" /\ b.fh \in NulOr
      /\ b.fromdir = Null
      /\ b.op # "release"
  BY <1>1 DEF OpsMatch, Pointers, Call, LookPcs, CreatePcs, UnlinkPcs, LockedPcs, RenamePcs
<1>3. \A k \in Slots : Ptr(c, k) = IF k = "fh" THEN b.fh ELSE Null
  BY <1>2, QuietOK
<1>4. thr' = [thr EXCEPT ![t] = c] /\ Steps(thr, thr', t, c)
  BY <1>1, <1>2 DEF LookupFails, End, Goto, Steps
<1> HIDE DEF c, b
<1>5. dent' \in [Dentries -> Entry] /\ Lean(dent, dent') /\ Counts(dent', thr')
  <2>1. GiveSlot(b, c, "par", b.par)
    BY <1>1, <1>2, <1>3, PtrIs DEF GiveSlot, TakeSlot, Slots, OpsMatch, Pointers, LookPcs, CreatePcs, UnlinkPcs, LockedPcs, RenamePcs
  <2>2. b.par \in Dentries
    BY <1>1, <1>2 DEF Pointers, Call, NulOr, LookPcs, CreatePcs, UnlinkPcs, LockedPcs, RenamePcs
  <2> QED BY <1>4, <2>1, <2>2, ReleaseHandle DEF b, LookupFails
<1>6. \A x \in Dentries : ~Reads(b, x) /\ ~Writes(b, x) /\ ~HasMeta(b, x)
  BY <1>1, <1>2 DEF Reads, Writes, HasMeta, LookPcs, CreatePcs, UnlinkPcs, LockedPcs, RenamePcs
<1>7. renameLock' = (IF Renames(b) THEN NoThread ELSE renameLock) /\ renameLock' \in Owner
  BY <1>1, <1>2 DEF b, LookupFails, OpsMatch, Renames, SameLocks, LockTypes, Owner, LookPcs, CreatePcs, UnlinkPcs, LockedPcs, RenamePcs
<1>8. UNCHANGED <<contents, meta>> /\ uidNumber' \in Nat
  BY <1>1 DEF LookupFails, SameLocks, SameTree
<1> QED BY <1>2, <1>4, <1>5, <1>6, <1>7, <1>8, EndStep DEF b, c

\* A lookup is for a path of at most two names.
LEMMA TargetPath ==
    ASSUME NEW b \in Call, OpsMatch(b)
    PROVE  Target(b) \in Paths
<1>1. b.path \in Paths /\ b.to \in Paths
  BY DEF Call
<1>2. b.op \in Changing => b.path # <<>> /\ Front(b.path) \in Paths
  BY <1>1, PathParts DEF OpsMatch
<1>3. b.op = "rename" => b.to # <<>> /\ Front(b.to) \in Paths
  BY <1>1, PathParts DEF OpsMatch
<1> QED BY <1>1, <1>2, <1>3 DEF Target, Changing

\* A path of two names is not empty.
LEMMA LongPath == ASSUME NEW p, Len(p) = 2 PROVE p # <<>>
OBVIOUS

\* The last name of a path is found where the path says.
LEMMA LookupArrives ==
    ASSUME NEW D \in [Dentries -> Entry], GoodTree(D), NEW b \in Call, OpsMatch(b), Pointers(b),
           Walk(b), b.pc = "lk3", LookupAt(b, D), D[b.par].kids[Head(b.want)] = b.cur,
           Len(b.want) = 1
    PROVE  /\ Target(b) # <<>>
           /\ ResolveIn(D, Target(b)) = b.cur /\ ResolveIn(D, Front(Target(b))) = b.par
<1> DEFINE p == Target(b)
<1>1. p \in Paths /\ b.want \in Paths /\ b.want # <<>>
  BY TargetPath DEF Call, Walk
<1>2. FirstName(b) \/ (Len(p) = 2 /\ b.want = <<p[2]>>)
  BY DEF Walk, LookPcs
<1>3. b.par # Null
  BY DEF Pointers
<1>4. CASE FirstName(b)
  <2>1. p = b.want /\ b.par = Root
    BY <1>4 DEF FirstName, Walk
  <2>2. p = <<p[1]>> /\ p[1] \in FileNames /\ Front(p) = <<>> /\ Head(p) = p[1]
    BY <1>1, <2>1, PathParts
  <2>3. ResolveIn(D, <<>>) = Root /\ ResolveIn(D, <<p[1]>>) = D[Root].kids[p[1]]
    BY <1>1, <2>2, ResolveParts
  <2> QED BY <1>1, <2>1, <2>2, <2>3
<1>5. CASE ~FirstName(b)
  <2>1. Len(p) = 2 /\ b.want = <<p[2]>> /\ ResolveIn(D, <<p[1]>>) = b.par
    BY <1>2, <1>5 DEF LookupAt
  <2>2. p # <<>>
    <3>1. Len(p) = 2
      BY <2>1
    <3> HIDE DEF p
    <3> QED BY <3>1, LongPath
  <2>3. Front(p) = <<p[1]>> /\ Last(p) = p[2] /\ p[2] \in FileNames
    BY <1>1, <2>1, <2>2, PathParts
  <2>4. ResolveIn(D, p) = D[b.par].kids[p[2]]
    BY <1>1, <1>3, <2>1, <2>2, <2>3, ResolveParts
  <2>5. Head(b.want) = p[2]
    BY <2>1, <2>3
  <2> QED BY <2>1, <2>2, <2>3, <2>4, <2>5
<1> QED BY <1>4, <1>5

\* The last name of an unlink is found with the directory still locked for writing.
LEMMA LookupStepLocked ==
    ASSUME TreeInv, NEW t \in TreeThreads, LookupStep(t), ParentW(t)
    PROVE  TreeInv'
<1> DEFINE b == thr[t]
           c == [b EXCEPT !.want = Tail(b.want), !.par = b.par, !.pc = "found"]
<1>1. /\ b \in Call /\ OpsMatch(b) /\ Pointers(b) /\ Walk(b) /\ PlaceOK(b, dent)
      /\ thr \in [TreeThreads -> Call] /\ dent \in [Dentries -> Entry] /\ GoodTree(dent)
      /\ LockTypes /\ uidNumber \in Nat /\ Root \in Dentries /\ Null \notin Dentries
      /\ b.pc = "lk3"
  BY Here DEF LookupStep
<1>2. /\ b.op # "none"
      /\ b.op = "unlink"
      /\ Len(b.want) = 1
      /\ Tail(b.want) \in Paths
      /\ b.par \in Dentries
      /\ ParentW(t) /\ LastName(t)
  <2>1. b.op # "none" /\ b.want # <<>> /\ b.want \in Paths
    BY <1>1 DEF OpsMatch, Walk, Call
  <2>2. Tail(b.want) \in Paths /\ b.par \in Dentries /\ b.cur \in Dentries
    BY <1>1, <2>1, PathParts DEF Pointers, Call, NulOr, LookPcs, CreatePcs, UnlinkPcs, LockedPcs, RenamePcs
  <2> QED BY <2>1, <2>2 DEF ParentW, LastName
<1>3. /\ c.op = b.op /\ c.path = b.path /\ c.to = b.to
      /\ c.want = Tail(b.want) /\ c.cur = b.cur /\ c.par = b.par
      /\ c.fromdir = b.fromdir /\ c.todir = b.todir /\ c.fromdent = b.fromdent
      /\ c.todent = b.todent /\ c.val = b.val /\ c.ok = b.ok
      /\ c.fh = b.fh /\ c.pc = "found"
  BY <1>1 DEF Call
<1>4. c \in Call
  <2>1. /\ Tail(b.want) \in Paths
        /\ b.par \in NulOr
        /\ "found" \in Pcs
    BY <1>1, <1>2 DEF Call, NulOr, Pcs, LookPcs, CreatePcs, UnlinkPcs, LockedPcs, RenamePcs
  <2> QED BY <1>1, <2>1 DEF Call
<1>5. thr' = [thr EXCEPT ![t] = c] /\ Steps(thr, thr', t, c)
  BY <1>1, <1>2 DEF LookupStep, Goto, Steps
<1> HIDE DEF b, c
<1>6. CallOK(c)
  <2>1. Target(c) = Target(b)
    BY <1>3 DEF Target
  <2>2. OpsMatch(c)
    BY <1>1, <1>2, <1>3, <2>1 DEF OpsMatch, Changing, LookPcs, CreatePcs, UnlinkPcs, LockedPcs, RenamePcs
  <2>3. Pointers(c)
    BY <1>1, <1>2, <1>3, <2>1 DEF OpsMatch, Pointers, First, FirstName, LookPcs, CreatePcs, UnlinkPcs, LockedPcs, RenamePcs
  <2>4. Walk(c)
    BY <1>1, <1>2, <1>3, <2>1 DEF Walk, FirstName, LookPcs, CreatePcs, UnlinkPcs, LockedPcs, RenamePcs
  <2> QED BY <2>2, <2>3, <2>4 DEF CallOK
<1>7. dent' \in [Dentries -> Entry] /\ Lean(dent, dent') /\ Counts(dent', thr')
  <2>1. SameSlots(b, c)
    BY <1>1, <1>2, <1>3, PtrIs DEF SameSlots, Slots, Pointers, LookPcs, CreatePcs, UnlinkPcs, LockedPcs, RenamePcs
  <2> QED BY <1>2, <1>5, <2>1, KeepHandles DEF b, LookupStep, SameTree
<1>8. LockChange(t, c) /\ LockTypes'
  <2>1. ContentsChange(t, c)
    <3>1. \A d \in Dentries : (Reads(c, d) <=> Reads(b, d)) /\ (Writes(c, d) <=> Writes(b, d))
      BY <1>1, <1>2, <1>3 DEF Reads, Writes, WantsW, First, Second, Pointers, LookPcs, CreatePcs, UnlinkPcs, LockedPcs, RenamePcs
    <3> QED BY <3>1, <1>2, ContentsKept DEF b, LookupStep, SameLocks
  <2>2. MetaChange(t, c)
    <3>1. \A d \in Dentries : HasMeta(c, d) <=> HasMeta(b, d)
      BY <1>1, <1>2, <1>3 DEF HasMeta, First, Pointers, LookPcs, CreatePcs, UnlinkPcs, LockedPcs, RenamePcs
    <3> QED BY <3>1, MetaKept DEF b, LookupStep, SameLocks
  <2>3. RenameChange(t, c)
    <3>1. Renames(c) <=> Renames(b)
      BY <1>1, <1>2, <1>3 DEF OpsMatch, Renames, LookPcs, CreatePcs, UnlinkPcs, LockedPcs, RenamePcs
    <3> QED BY <3>1, RenameKept DEF b, LookupStep, SameLocks
  <2>4. LockTypes'
    BY <1>1, <1>2 DEF LookupStep, SameLocks, LockTypes
  <2> QED BY <2>1, <2>2, <2>3, <2>4 DEF LockChange
<1>9. PlaceOK(c, dent)
  <2>1. c.op \in Changing => DirsOnPath(c, dent)
    BY <1>1, <1>2, <1>3 DEF PlaceOK, DirsOnPath
  <2>2. c.op \in Changing => LookupAt(c, dent)
    <3>1. Target(c) = Target(b)
      BY <1>3 DEF Target
    <3>2. ResolveIn(dent, Target(b)) = b.cur
      BY <1>1, <1>2, LookupArrives DEF PlaceOK, Changing
    <3> QED BY <1>3, <3>1, <3>2 DEF LookupAt
  <2>3. c.op \in Changing => UnlinkAt(c, dent)
    <3>1. Target(b) = b.path
      BY <1>2 DEF Target
    <3>2. ResolveIn(dent, Front(b.path)) = b.par
      BY <1>1, <1>2, <3>1, LookupArrives DEF PlaceOK, Changing
    <3> QED BY <1>3, <3>2 DEF UnlinkAt, LookPcs, CreatePcs, UnlinkPcs, LockedPcs, RenamePcs
  <2>4. c.op \in Changing => RenameAt(c, dent)
    BY <1>1, <1>2, <1>3 DEF PlaceOK, RenameAt, First, Pointers, LookPcs, CreatePcs, UnlinkPcs, LockedPcs, RenamePcs
  <2>5. c.pc = "lk3" => dent[c.par].kids[Head(c.want)] = c.cur
    BY <1>1, <1>3
  <2> QED BY <2>1, <2>2, <2>3, <2>4, <2>5 DEF PlaceOK
<1>11. SameCall(b, c) /\ uidNumber' \in Nat
  BY <1>1, <1>3 DEF SameCall, LookupStep, SameTree
<1> QED BY <1>2, <1>4, <1>5, <1>6, <1>7, <1>8, <1>9, <1>11, LeanStep DEF b

\* The last name of a path is found and the directory is given back.
LEMMA LookupStepLast ==
    ASSUME TreeInv, NEW t \in TreeThreads, LookupStep(t), LastName(t), ~ParentW(t)
    PROVE  TreeInv'
<1> DEFINE b == thr[t]
           c == [b EXCEPT !.want = Tail(b.want), !.par = Null, !.pc = "found"]
<1>1. /\ b \in Call /\ OpsMatch(b) /\ Pointers(b) /\ Walk(b) /\ PlaceOK(b, dent)
      /\ thr \in [TreeThreads -> Call] /\ dent \in [Dentries -> Entry] /\ GoodTree(dent)
      /\ LockTypes /\ uidNumber \in Nat /\ Root \in Dentries /\ Null \notin Dentries
      /\ b.pc = "lk3"
  BY Here DEF LookupStep
<1>2. /\ b.op # "none"
      /\ b.op # "unlink"
      /\ Len(b.want) = 1
      /\ Tail(b.want) \in Paths
      /\ b.par \in Dentries
      /\ ~ParentW(t) /\ LastName(t)
  <2>1. b.op # "none" /\ b.want # <<>> /\ b.want \in Paths
    BY <1>1 DEF OpsMatch, Walk, Call
  <2>2. Tail(b.want) \in Paths /\ b.par \in Dentries /\ b.cur \in Dentries
    BY <1>1, <2>1, PathParts DEF Pointers, Call, NulOr, LookPcs, CreatePcs, UnlinkPcs, LockedPcs, RenamePcs
  <2> QED BY <2>1, <2>2 DEF ParentW, LastName
<1>3. /\ c.op = b.op /\ c.path = b.path /\ c.to = b.to
      /\ c.want = Tail(b.want) /\ c.cur = b.cur /\ c.par = Null
      /\ c.fromdir = b.fromdir /\ c.todir = b.todir /\ c.fromdent = b.fromdent
      /\ c.todent = b.todent /\ c.val = b.val /\ c.ok = b.ok
      /\ c.fh = b.fh /\ c.pc = "found"
  BY <1>1 DEF Call
<1>4. c \in Call
  <2>1. /\ Tail(b.want) \in Paths
        /\ Null \in NulOr
        /\ "found" \in Pcs
    BY <1>1, <1>2 DEF Call, NulOr, Pcs, LookPcs, CreatePcs, UnlinkPcs, LockedPcs, RenamePcs
  <2> QED BY <1>1, <2>1 DEF Call
<1>5. thr' = [thr EXCEPT ![t] = c] /\ Steps(thr, thr', t, c)
  BY <1>1, <1>2 DEF LookupStep, Goto, Steps
<1> HIDE DEF b, c
<1>6. CallOK(c)
  <2>1. Target(c) = Target(b)
    BY <1>3 DEF Target
  <2>2. OpsMatch(c)
    BY <1>1, <1>2, <1>3, <2>1 DEF OpsMatch, Changing, LookPcs, CreatePcs, UnlinkPcs, LockedPcs, RenamePcs
  <2>3. Pointers(c)
    BY <1>1, <1>2, <1>3, <2>1 DEF OpsMatch, Pointers, First, FirstName, LookPcs, CreatePcs, UnlinkPcs, LockedPcs, RenamePcs
  <2>4. Walk(c)
    BY <1>1, <1>2, <1>3, <2>1 DEF Walk, FirstName, LookPcs, CreatePcs, UnlinkPcs, LockedPcs, RenamePcs
  <2> QED BY <2>2, <2>3, <2>4 DEF CallOK
<1>7. dent' \in [Dentries -> Entry] /\ Lean(dent, dent') /\ Counts(dent', thr')
  <2>1. GiveSlot(b, c, "par", b.par)
    BY <1>1, <1>2, <1>3, PtrIs DEF GiveSlot, TakeSlot, Slots, Pointers, LookPcs, CreatePcs, UnlinkPcs, LockedPcs, RenamePcs
  <2>2. b.par \in Dentries
    BY <1>2
  <2> QED BY <1>2, <1>5, <2>1, <2>2, DropHandle DEF b, LookupStep
<1>8. LockChange(t, c) /\ LockTypes'
  <2>1. ContentsChange(t, c)
    <3>1. \A d \in Dentries : /\ Reads(b, d) <=> d = b.par
                              /\ ~Writes(b, d) /\ ~Reads(c, d) /\ ~Writes(c, d)
      BY <1>1, <1>2, <1>3 DEF Reads, Writes, WantsW, LookPcs, CreatePcs, UnlinkPcs, LockedPcs, RenamePcs
    <3>2. contents' = UnlockR(contents, b.par, t)
      BY <1>2 DEF LookupStep, b
    <3> QED BY <1>2, <3>1, <3>2, OpensR DEF b
  <2>2. MetaChange(t, c)
    <3>1. \A d \in Dentries : HasMeta(c, d) <=> HasMeta(b, d)
      BY <1>1, <1>2, <1>3 DEF HasMeta, First, Pointers, LookPcs, CreatePcs, UnlinkPcs, LockedPcs, RenamePcs
    <3> QED BY <3>1, MetaKept DEF b, LookupStep, SameLocks
  <2>3. RenameChange(t, c)
    <3>1. Renames(c) <=> Renames(b)
      BY <1>1, <1>2, <1>3 DEF OpsMatch, Renames, LookPcs, CreatePcs, UnlinkPcs, LockedPcs, RenamePcs
    <3> QED BY <3>1, RenameKept DEF b, LookupStep, SameLocks
  <2>4. LockTypes'
    <3>1. contents' \in ContentsType
      <4>1. contents \in ContentsType /\ contents' = UnlockR(contents, b.par, t)
        BY <1>1, <1>2 DEF LookupStep, b, LockTypes, ContentsType
      <4> QED BY <1>2, <4>1, LockOps
    <3> QED BY <1>1, <3>1 DEF LookupStep, LockTypes, ContentsType
  <2> QED BY <2>1, <2>2, <2>3, <2>4 DEF LockChange
<1>9. PlaceOK(c, dent)
  <2>1. c.op \in Changing => DirsOnPath(c, dent)
    BY <1>1, <1>2, <1>3 DEF PlaceOK, DirsOnPath
  <2>2. c.op \in Changing => LookupAt(c, dent)
    <3>1. Target(c) = Target(b)
      BY <1>3 DEF Target
    <3>2. b.op \in Changing => ResolveIn(dent, Target(b)) = b.cur
      BY <1>1, <1>2, LookupArrives DEF PlaceOK
    <3> QED BY <1>3, <3>1, <3>2 DEF LookupAt
  <2>3. c.op \in Changing => UnlinkAt(c, dent)
    BY <1>1, <1>2, <1>3 DEF PlaceOK, UnlinkAt, LookPcs, CreatePcs, UnlinkPcs, LockedPcs, RenamePcs
  <2>4. c.op \in Changing => RenameAt(c, dent)
    BY <1>1, <1>2, <1>3 DEF PlaceOK, RenameAt, First, Pointers, LookPcs, CreatePcs, UnlinkPcs, LockedPcs, RenamePcs
  <2>5. c.pc = "lk3" => dent[c.par].kids[Head(c.want)] = c.cur
    BY <1>1, <1>3
  <2> QED BY <2>1, <2>2, <2>3, <2>4, <2>5 DEF PlaceOK
<1>11. SameCall(b, c) /\ uidNumber' \in Nat
  BY <1>1, <1>3 DEF SameCall, LookupStep, SameTree
<1> QED BY <1>2, <1>4, <1>5, <1>6, <1>7, <1>8, <1>9, <1>11, LeanStep DEF b

\* A name is found and the lookup goes on in the directory it names.
LEMMA LookupStepDown ==
    ASSUME TreeInv, NEW t \in TreeThreads, LookupStep(t), ~LastName(t)
    PROVE  TreeInv'
<1> DEFINE b == thr[t]
           c == [b EXCEPT !.want = Tail(b.want), !.par = b.par, !.pc = "lk1"]
<1>1. /\ b \in Call /\ OpsMatch(b) /\ Pointers(b) /\ Walk(b) /\ PlaceOK(b, dent)
      /\ thr \in [TreeThreads -> Call] /\ dent \in [Dentries -> Entry] /\ GoodTree(dent)
      /\ LockTypes /\ uidNumber \in Nat /\ Root \in Dentries /\ Null \notin Dentries
      /\ b.pc = "lk3"
  BY Here DEF LookupStep
<1>2. /\ b.op # "none"
      /\ ~ParentW(t) /\ ~LastName(t)
      /\ Tail(b.want) \in Paths
      /\ b.par = Root /\ b.cur # Root
      /\ FirstName(b)
      /\ b.want = <<Target(b)[1], Target(b)[2]>>
      /\ Tail(b.want) = <<Target(b)[2]>>
      /\ Len(Target(b)) = 2
      /\ Tail(b.want) # Target(b) /\ Tail(b.want) # <<>>
      /\ Target(b)[1] \in FileNames
      /\ dent[Root].kids[Target(b)[1]] = b.cur
  <2>1. b.op # "none" /\ b.want # <<>> /\ b.want \in Paths
    BY <1>1 DEF OpsMatch, Walk, Call
  <2>2. Tail(b.want) \in Paths /\ b.par \in Dentries /\ b.cur \in Dentries
    BY <1>1, <2>1, PathParts DEF Pointers, Call, NulOr, LookPcs, CreatePcs, UnlinkPcs, LockedPcs, RenamePcs
  <2>3. Len(b.want) # 1
    BY DEF LastName
  <2>4. FirstName(b)
    <3>1. ~FirstName(b) => b.want = <<Target(b)[2]>>
      BY <1>1 DEF Walk, LookPcs
    <3> QED BY <2>3, <3>1
  <2>5. b.par = Root /\ b.want = Target(b)
    BY <1>1, <2>4 DEF Walk, FirstName
  <2>6. /\ Len(b.want) = 2 /\ b.want = <<b.want[1], b.want[2]>> /\ Tail(b.want) = <<b.want[2]>>
        /\ Head(b.want) = b.want[1] /\ b.want[1] \in FileNames
    BY <2>1, <2>3, PathParts
  <2>7. dent[Root].kids[Head(b.want)] = b.cur
    BY <1>1, <2>5 DEF PlaceOK
  <2>8. dent[b.cur].parent = Root
    BY <1>1, <2>2, <2>6, <2>7 DEF GoodTree
  <2>9. b.cur # Root
    BY <1>1, <2>8 DEF GoodTree
  <2>10. Len(Tail(b.want)) = 1
    BY <2>6
  <2> QED BY <2>1, <2>2, <2>3, <2>4, <2>5, <2>6, <2>7, <2>9, <2>10 DEF ParentW, LastName
<1>3. /\ c.op = b.op /\ c.path = b.path /\ c.to = b.to
      /\ c.want = Tail(b.want) /\ c.cur = b.cur /\ c.par = b.par
      /\ c.fromdir = b.fromdir /\ c.todir = b.todir /\ c.fromdent = b.fromdent
      /\ c.todent = b.todent /\ c.val = b.val /\ c.ok = b.ok
      /\ c.fh = b.fh /\ c.pc = "lk1"
  BY <1>1 DEF Call
<1>4. c \in Call
  <2>1. /\ Tail(b.want) \in Paths
        /\ b.par \in NulOr
        /\ "lk1" \in Pcs
    BY <1>1, <1>2 DEF Call, NulOr, Pcs, LookPcs, CreatePcs, UnlinkPcs, LockedPcs, RenamePcs
  <2> QED BY <1>1, <2>1 DEF Call
<1>5. thr' = [thr EXCEPT ![t] = c] /\ Steps(thr, thr', t, c)
  BY <1>1, <1>2 DEF LookupStep, Goto, Steps
<1> HIDE DEF b, c
<1>6. CallOK(c)
  <2>1. Target(c) = Target(b)
    BY <1>3 DEF Target
  <2>2. OpsMatch(c)
    BY <1>1, <1>2, <1>3, <2>1 DEF OpsMatch, Changing, LookPcs, CreatePcs, UnlinkPcs, LockedPcs, RenamePcs
  <2>3. Pointers(c)
    <3>1. c.pc = "lk1" /\ ~FirstName(c) /\ c.par # Null /\ c.cur # Null
      BY <1>1, <1>2, <1>3, <2>1 DEF FirstName, Pointers
    <3> QED BY <1>1, <1>3, <3>1 DEF Pointers, LookPcs, CreatePcs, UnlinkPcs, LockedPcs, RenamePcs
  <2>4. Walk(c)
    <3>1. /\ c.want = <<Target(c)[2]>> /\ Len(Target(c)) = 2 /\ ~FirstName(c)
          /\ c.want # <<>> /\ c.par = Root /\ c.cur # Root /\ c.pc = "lk1"
      BY <1>2, <1>3, <2>1 DEF FirstName
    <3> QED BY <3>1 DEF Walk
  <2> QED BY <2>2, <2>3, <2>4 DEF CallOK
<1>7. dent' \in [Dentries -> Entry] /\ Lean(dent, dent') /\ Counts(dent', thr')
  <2>1. GiveSlot(b, c, "par", b.par)
    BY <1>1, <1>2, <1>3, PtrIs DEF GiveSlot, TakeSlot, Slots, Pointers, LookPcs, CreatePcs, UnlinkPcs, LockedPcs, RenamePcs
  <2>2. b.par \in Dentries
    BY <1>1, <1>2
  <2> QED BY <1>2, <1>5, <2>1, <2>2, DropHandle DEF b, LookupStep
<1>8. LockChange(t, c) /\ LockTypes'
  <2>1. ContentsChange(t, c)
    <3>1. \A d \in Dentries : (Reads(c, d) <=> Reads(b, d)) /\ (Writes(c, d) <=> Writes(b, d))
      BY <1>1, <1>2, <1>3 DEF Reads, Writes, WantsW, First, Second, Pointers, LookPcs, CreatePcs, UnlinkPcs, LockedPcs, RenamePcs
    <3> QED BY <3>1, <1>2, ContentsKept DEF b, LookupStep, SameLocks
  <2>2. MetaChange(t, c)
    <3>1. \A d \in Dentries : HasMeta(c, d) <=> HasMeta(b, d)
      BY <1>1, <1>2, <1>3 DEF HasMeta, First, Pointers, LookPcs, CreatePcs, UnlinkPcs, LockedPcs, RenamePcs
    <3> QED BY <3>1, MetaKept DEF b, LookupStep, SameLocks
  <2>3. RenameChange(t, c)
    <3>1. Renames(c) <=> Renames(b)
      BY <1>1, <1>2, <1>3 DEF OpsMatch, Renames, LookPcs, CreatePcs, UnlinkPcs, LockedPcs, RenamePcs
    <3> QED BY <3>1, RenameKept DEF b, LookupStep, SameLocks
  <2>4. LockTypes'
    BY <1>1, <1>2 DEF LookupStep, SameLocks, LockTypes
  <2> QED BY <2>1, <2>2, <2>3, <2>4 DEF LockChange
<1>9. PlaceOK(c, dent)
  <2>1. c.op \in Changing => DirsOnPath(c, dent)
    BY <1>1, <1>2, <1>3 DEF PlaceOK, DirsOnPath
  <2>2. c.op \in Changing => LookupAt(c, dent)
    <3>1. Target(c) = Target(b)
      BY <1>3 DEF Target
    <3>2. ResolveIn(dent, <<Target(b)[1]>>) = b.cur
      BY <1>1, <1>2, ResolveParts, ShortPaths
    <3> QED BY <1>3, <3>1, <3>2 DEF LookupAt
  <2>3. c.op \in Changing => UnlinkAt(c, dent)
    BY <1>1, <1>2, <1>3 DEF PlaceOK, UnlinkAt, LookPcs, CreatePcs, UnlinkPcs, LockedPcs, RenamePcs
  <2>4. c.op \in Changing => RenameAt(c, dent)
    BY <1>1, <1>2, <1>3 DEF PlaceOK, RenameAt, First, Pointers, LookPcs, CreatePcs, UnlinkPcs, LockedPcs, RenamePcs
  <2>5. c.pc = "lk3" => dent[c.par].kids[Head(c.want)] = c.cur
    BY <1>1, <1>3
  <2> QED BY <2>1, <2>2, <2>3, <2>4, <2>5 DEF PlaceOK
<1>11. SameCall(b, c) /\ uidNumber' \in Nat
  BY <1>1, <1>3 DEF SameCall, LookupStep, SameTree
<1> QED BY <1>2, <1>4, <1>5, <1>6, <1>7, <1>8, <1>9, <1>11, LeanStep DEF b

-----------------------------------------------------------------------------
(* ltfs_fsops_create.                                                      *)

\* ltfs_fsops_create locks the contents of the directory.
LEMMA CreateLockInv ==
    ASSUME TreeInv, NEW t \in TreeThreads, CreateLock(t)
    PROVE  TreeInv'
<1> DEFINE b == thr[t]
           c == [b EXCEPT !.par = b.cur, !.cur = Null, !.pc = "cr1"]
<1>1. /\ b \in Call /\ OpsMatch(b) /\ Pointers(b) /\ Walk(b) /\ PlaceOK(b, dent)
      /\ thr \in [TreeThreads -> Call] /\ dent \in [Dentries -> Entry] /\ GoodTree(dent)
      /\ LockTypes /\ uidNumber \in Nat /\ Root \in Dentries /\ Null \notin Dentries
      /\ b.pc = "found"
  BY Here DEF CreateLock
<1>2. /\ b.op # "none"
      /\ b.op \in {"create", "mkdir"}
      /\ b.cur \in Dentries
  BY <1>1 DEF CreateLock, OpsMatch, Pointers, Call, NulOr, LookPcs, CreatePcs, UnlinkPcs, LockedPcs, RenamePcs
<1>3. /\ c.op = b.op /\ c.path = b.path /\ c.to = b.to
      /\ c.want = b.want /\ c.cur = Null /\ c.par = b.cur
      /\ c.fromdir = b.fromdir /\ c.todir = b.todir /\ c.fromdent = b.fromdent
      /\ c.todent = b.todent /\ c.val = b.val /\ c.ok = b.ok
      /\ c.fh = b.fh /\ c.pc = "cr1"
  BY <1>1 DEF Call
<1>4. c \in Call
  <2>1. /\ b.cur \in NulOr
        /\ Null \in NulOr
        /\ "cr1" \in Pcs
    BY <1>1, <1>2 DEF Call, NulOr, Pcs, LookPcs, CreatePcs, UnlinkPcs, LockedPcs, RenamePcs
  <2> QED BY <1>1, <2>1 DEF Call
<1>5. thr' = [thr EXCEPT ![t] = c] /\ Steps(thr, thr', t, c)
  BY <1>1 DEF CreateLock, Goto, Steps
<1> HIDE DEF b, c
<1>6. CallOK(c)
  <2>1. Target(c) = Target(b)
    BY <1>3 DEF Target
  <2>2. OpsMatch(c)
    BY <1>1, <1>2, <1>3, <2>1 DEF OpsMatch, Changing, LookPcs, CreatePcs, UnlinkPcs, LockedPcs, RenamePcs
  <2>3. Pointers(c)
    BY <1>1, <1>2, <1>3, <2>1 DEF OpsMatch, Pointers, First, FirstName, LookPcs, CreatePcs, UnlinkPcs, LockedPcs, RenamePcs
  <2>4. Walk(c)
    BY <1>1, <1>2, <1>3, <2>1 DEF Walk, FirstName, LookPcs, CreatePcs, UnlinkPcs, LockedPcs, RenamePcs
  <2> QED BY <2>2, <2>3, <2>4 DEF CallOK
<1>7. dent' \in [Dentries -> Entry] /\ Lean(dent, dent') /\ Counts(dent', thr')
  <2>1. PassSlot(b, c, "cur", "par")
    BY <1>1, <1>2, <1>3, PtrIs DEF PassSlot, Slots, Pointers, LookPcs, CreatePcs, UnlinkPcs, LockedPcs, RenamePcs
  <2> QED BY <1>2, <1>5, <2>1, KeepHandles DEF b, CreateLock, SameTree
<1>8. LockChange(t, c) /\ LockTypes'
  <2>1. ContentsChange(t, c)
    <3>1. \A d \in Dentries : /\ ~Reads(b, d) /\ ~Reads(c, d)
                              /\ Writes(c, d) <=> (d = b.cur \/ Writes(b, d))
      BY <1>1, <1>2, <1>3 DEF Reads, Writes, Pointers, LookPcs, CreatePcs, UnlinkPcs, LockedPcs, RenamePcs
    <3>2. contents' = LockW(contents, b.cur, t) /\ CanWrite(b.cur)
      BY <1>2 DEF CreateLock, b
    <3> QED BY <1>2, <3>1, <3>2, TakesW DEF b
  <2>2. MetaChange(t, c)
    <3>1. \A d \in Dentries : HasMeta(c, d) <=> HasMeta(b, d)
      BY <1>1, <1>2, <1>3 DEF HasMeta, First, Pointers, LookPcs, CreatePcs, UnlinkPcs, LockedPcs, RenamePcs
    <3> QED BY <3>1, MetaKept DEF b, CreateLock, SameLocks
  <2>3. RenameChange(t, c)
    <3>1. Renames(c) <=> Renames(b)
      BY <1>1, <1>2, <1>3 DEF OpsMatch, Renames, LookPcs, CreatePcs, UnlinkPcs, LockedPcs, RenamePcs
    <3> QED BY <3>1, RenameKept DEF b, CreateLock, SameLocks
  <2>4. LockTypes'
    <3>1. contents' \in ContentsType
      <4>1. contents \in ContentsType /\ contents' = LockW(contents, b.cur, t)
        BY <1>1, <1>2 DEF CreateLock, b, LockTypes, ContentsType
      <4> QED BY <1>2, <4>1, LockOps
    <3> QED BY <1>1, <3>1 DEF CreateLock, LockTypes, ContentsType
  <2> QED BY <2>1, <2>2, <2>3, <2>4 DEF LockChange
<1>9. PlaceOK(c, dent)
  <2>1. c.op \in Changing => DirsOnPath(c, dent)
    BY <1>1, <1>2, <1>3 DEF PlaceOK, DirsOnPath
  <2>2. c.op \in Changing => LookupAt(c, dent)
    <3>1. Target(b) = Front(b.path)
      BY <1>2 DEF Target
    <3>2. ResolveIn(dent, Target(b)) = b.cur
      BY <1>1, <1>2 DEF PlaceOK, LookupAt, Changing
    <3> QED BY <1>3, <3>1, <3>2 DEF LookupAt
  <2>3. c.op \in Changing => UnlinkAt(c, dent)
    BY <1>1, <1>2, <1>3 DEF PlaceOK, UnlinkAt, LookPcs, CreatePcs, UnlinkPcs, LockedPcs, RenamePcs
  <2>4. c.op \in Changing => RenameAt(c, dent)
    BY <1>1, <1>2, <1>3 DEF PlaceOK, RenameAt, First, Pointers, LookPcs, CreatePcs, UnlinkPcs, LockedPcs, RenamePcs
  <2>5. c.pc = "lk3" => dent[c.par].kids[Head(c.want)] = c.cur
    BY <1>1, <1>3
  <2> QED BY <2>1, <2>2, <2>3, <2>4, <2>5 DEF PlaceOK
<1>11. SameCall(b, c) /\ uidNumber' \in Nat
  BY <1>1, <1>3 DEF SameCall, CreateLock, SameTree
<1> QED BY <1>2, <1>4, <1>5, <1>6, <1>7, <1>8, <1>9, <1>11, LeanStep DEF b

\* The name is there already: the lookup takes a handle on it.
LEMMA CreateExistsInv ==
    ASSUME TreeInv, NEW t \in TreeThreads, CreateExists(t)
    PROVE  TreeInv'
<1> DEFINE b == thr[t]
           c == [b EXCEPT !.cur = dent[b.par].kids[Last(b.path)], !.pc = "cr3"]
<1>1. /\ b \in Call /\ OpsMatch(b) /\ Pointers(b) /\ Walk(b) /\ PlaceOK(b, dent)
      /\ thr \in [TreeThreads -> Call] /\ dent \in [Dentries -> Entry] /\ GoodTree(dent)
      /\ LockTypes /\ uidNumber \in Nat /\ Root \in Dentries /\ Null \notin Dentries
      /\ b.pc = "cr1"
  BY Here DEF CreateExists
<1>2. /\ b.op # "none"
      /\ b.op \in {"create", "mkdir"}
      /\ ~b.ok
      /\ b.par \in Dentries
      /\ dent[b.par].kids[Last(b.path)] \in Dentries
      /\ dent[dent[b.par].kids[Last(b.path)]].alive
  <2>1. b.op \in {"create", "mkdir"} /\ b.path # <<>> /\ b.path \in Paths /\ b.par \in Dentries /\ ~b.ok
    BY <1>1 DEF OpsMatch, Pointers, Changing, Call, NulOr, LookPcs, CreatePcs, UnlinkPcs, LockedPcs, RenamePcs
  <2>2. Last(b.path) \in FileNames
    BY <2>1, PathParts
  <2>3. dent[b.par].kids[Last(b.path)] # Null
    BY DEF CreateExists
  <2>4. dent[b.par] \in Entry
    BY <1>1, <2>1
  <2>5. dent[b.par].kids[Last(b.path)] \in NulOr
    BY <2>2, <2>4 DEF Entry
  <2> QED BY <1>1, <2>1, <2>2, <2>3, <2>5 DEF GoodTree, NulOr
<1>3. /\ c.op = b.op /\ c.path = b.path /\ c.to = b.to
      /\ c.want = b.want /\ c.cur = dent[b.par].kids[Last(b.path)] /\ c.par = b.par
      /\ c.fromdir = b.fromdir /\ c.todir = b.todir /\ c.fromdent = b.fromdent
      /\ c.todent = b.todent /\ c.val = b.val /\ c.ok = b.ok
      /\ c.fh = b.fh /\ c.pc = "cr3"
  BY <1>1 DEF Call
<1>4. c \in Call
  <2>1. /\ dent[b.par].kids[Last(b.path)] \in NulOr
        /\ "cr3" \in Pcs
    BY <1>1, <1>2 DEF Call, NulOr, Pcs, LookPcs, CreatePcs, UnlinkPcs, LockedPcs, RenamePcs
  <2> QED BY <1>1, <2>1 DEF Call
<1>5. thr' = [thr EXCEPT ![t] = c] /\ Steps(thr, thr', t, c)
  BY <1>1 DEF CreateExists, Goto, Steps
<1> HIDE DEF b, c
<1>6. CallOK(c)
  <2>1. Target(c) = Target(b)
    BY <1>3 DEF Target
  <2>2. OpsMatch(c)
    BY <1>1, <1>2, <1>3, <2>1 DEF OpsMatch, Changing, LookPcs, CreatePcs, UnlinkPcs, LockedPcs, RenamePcs
  <2>3. Pointers(c)
    BY <1>1, <1>2, <1>3, <2>1 DEF OpsMatch, Pointers, First, FirstName, LookPcs, CreatePcs, UnlinkPcs, LockedPcs, RenamePcs
  <2>4. Walk(c)
    BY <1>1, <1>2, <1>3, <2>1 DEF Walk, FirstName, LookPcs, CreatePcs, UnlinkPcs, LockedPcs, RenamePcs
  <2> QED BY <2>2, <2>3, <2>4 DEF CallOK
<1>7. dent' \in [Dentries -> Entry] /\ Lean(dent, dent') /\ Counts(dent', thr')
  <2>1. TakeSlot(b, c, "cur", dent[b.par].kids[Last(b.path)])
    BY <1>1, <1>2, <1>3, PtrIs DEF TakeSlot, Slots, Pointers, LookPcs, CreatePcs, UnlinkPcs, LockedPcs, RenamePcs
  <2>2. dent[b.par].kids[Last(b.path)] \in Dentries /\ dent[dent[b.par].kids[Last(b.path)]].alive
    BY <1>2
  <2> QED BY <1>2, <1>5, <2>1, <2>2, TakeHandle DEF b, CreateExists
<1>8. LockChange(t, c) /\ LockTypes'
  <2>1. ContentsChange(t, c)
    <3>1. \A d \in Dentries : /\ Writes(b, d) <=> d = b.par
                              /\ ~Reads(b, d) /\ ~Reads(c, d) /\ ~Writes(c, d)
      BY <1>1, <1>2, <1>3 DEF Reads, Writes, WantsW, LookPcs, CreatePcs, UnlinkPcs, LockedPcs, RenamePcs
    <3>2. contents' = UnlockW(contents, b.par)
      BY <1>2 DEF CreateExists, b
    <3> QED BY <1>2, <3>1, <3>2, OpensW DEF b
  <2>2. MetaChange(t, c)
    <3>1. \A d \in Dentries : HasMeta(c, d) <=> HasMeta(b, d)
      BY <1>1, <1>2, <1>3 DEF HasMeta, First, Pointers, LookPcs, CreatePcs, UnlinkPcs, LockedPcs, RenamePcs
    <3> QED BY <3>1, MetaKept DEF b, CreateExists, SameLocks
  <2>3. RenameChange(t, c)
    <3>1. Renames(c) <=> Renames(b)
      BY <1>1, <1>2, <1>3 DEF OpsMatch, Renames, LookPcs, CreatePcs, UnlinkPcs, LockedPcs, RenamePcs
    <3> QED BY <3>1, RenameKept DEF b, CreateExists, SameLocks
  <2>4. LockTypes'
    <3>1. contents' \in ContentsType
      <4>1. contents \in ContentsType /\ contents' = UnlockW(contents, b.par)
        BY <1>1, <1>2 DEF CreateExists, b, LockTypes, ContentsType
      <4> QED BY <1>2, <4>1, LockOps
    <3> QED BY <1>1, <3>1 DEF CreateExists, LockTypes, ContentsType
  <2> QED BY <2>1, <2>2, <2>3, <2>4 DEF LockChange
<1>9. PlaceOK(c, dent)
  <2>1. c.op \in Changing => DirsOnPath(c, dent)
    BY <1>1, <1>2, <1>3 DEF PlaceOK, DirsOnPath
  <2>2. c.op \in Changing => LookupAt(c, dent)
    BY <1>1, <1>2, <1>3 DEF PlaceOK, LookupAt, Target, FirstName, LookPcs, CreatePcs, UnlinkPcs, LockedPcs, RenamePcs
  <2>3. c.op \in Changing => UnlinkAt(c, dent)
    BY <1>1, <1>2, <1>3 DEF PlaceOK, UnlinkAt, LookPcs, CreatePcs, UnlinkPcs, LockedPcs, RenamePcs
  <2>4. c.op \in Changing => RenameAt(c, dent)
    BY <1>1, <1>2, <1>3 DEF PlaceOK, RenameAt, First, Pointers, LookPcs, CreatePcs, UnlinkPcs, LockedPcs, RenamePcs
  <2>5. c.pc = "lk3" => dent[c.par].kids[Head(c.want)] = c.cur
    BY <1>1, <1>3
  <2> QED BY <2>1, <2>2, <2>3, <2>4, <2>5 DEF PlaceOK
<1>11. SameCall(b, c) /\ uidNumber' \in Nat
  BY <1>1, <1>3 DEF SameCall, CreateExists, SameTree
<1> QED BY <1>2, <1>4, <1>5, <1>6, <1>7, <1>8, <1>9, <1>11, LeanStep DEF b

\* The name is there already: its handle is given back.
LEMMA CreateExistsReleaseInv ==
    ASSUME TreeInv, NEW t \in TreeThreads, CreateExistsRelease(t)
    PROVE  TreeInv'
<1> DEFINE b == thr[t]
           c == [b EXCEPT !.cur = Null, !.pc = "cr4"]
<1>1. /\ b \in Call /\ OpsMatch(b) /\ Pointers(b) /\ Walk(b) /\ PlaceOK(b, dent)
      /\ thr \in [TreeThreads -> Call] /\ dent \in [Dentries -> Entry] /\ GoodTree(dent)
      /\ LockTypes /\ uidNumber \in Nat /\ Root \in Dentries /\ Null \notin Dentries
      /\ b.pc = "cr3"
  BY Here DEF CreateExistsRelease
<1>2. /\ b.op # "none"
      /\ b.op \in {"create", "mkdir"}
      /\ ~b.ok
      /\ b.cur \in Dentries
  BY <1>1 DEF OpsMatch, Pointers, Call, NulOr, LookPcs, CreatePcs, UnlinkPcs, LockedPcs, RenamePcs
<1>3. /\ c.op = b.op /\ c.path = b.path /\ c.to = b.to
      /\ c.want = b.want /\ c.cur = Null /\ c.par = b.par
      /\ c.fromdir = b.fromdir /\ c.todir = b.todir /\ c.fromdent = b.fromdent
      /\ c.todent = b.todent /\ c.val = b.val /\ c.ok = b.ok
      /\ c.fh = b.fh /\ c.pc = "cr4"
  BY <1>1 DEF Call
<1>4. c \in Call
  <2>1. /\ Null \in NulOr
        /\ "cr4" \in Pcs
    BY <1>1, <1>2 DEF Call, NulOr, Pcs, LookPcs, CreatePcs, UnlinkPcs, LockedPcs, RenamePcs
  <2> QED BY <1>1, <2>1 DEF Call
<1>5. thr' = [thr EXCEPT ![t] = c] /\ Steps(thr, thr', t, c)
  BY <1>1 DEF CreateExistsRelease, Goto, Steps
<1> HIDE DEF b, c
<1>6. CallOK(c)
  <2>1. Target(c) = Target(b)
    BY <1>3 DEF Target
  <2>2. OpsMatch(c)
    BY <1>1, <1>2, <1>3, <2>1 DEF OpsMatch, Changing, LookPcs, CreatePcs, UnlinkPcs, LockedPcs, RenamePcs
  <2>3. Pointers(c)
    BY <1>1, <1>2, <1>3, <2>1 DEF OpsMatch, Pointers, First, FirstName, LookPcs, CreatePcs, UnlinkPcs, LockedPcs, RenamePcs
  <2>4. Walk(c)
    BY <1>1, <1>2, <1>3, <2>1 DEF Walk, FirstName, LookPcs, CreatePcs, UnlinkPcs, LockedPcs, RenamePcs
  <2> QED BY <2>2, <2>3, <2>4 DEF CallOK
<1>7. dent' \in [Dentries -> Entry] /\ Lean(dent, dent') /\ Counts(dent', thr')
  <2>1. GiveSlot(b, c, "cur", b.cur)
    BY <1>1, <1>2, <1>3, PtrIs DEF GiveSlot, TakeSlot, Slots, Pointers, LookPcs, CreatePcs, UnlinkPcs, LockedPcs, RenamePcs
  <2>2. b.cur \in Dentries
    BY <1>2
  <2> QED BY <1>2, <1>5, <2>1, <2>2, ReleaseHandle DEF b, CreateExistsRelease
<1>8. LockChange(t, c) /\ LockTypes'
  <2>1. ContentsChange(t, c)
    <3>1. \A d \in Dentries : (Reads(c, d) <=> Reads(b, d)) /\ (Writes(c, d) <=> Writes(b, d))
      BY <1>1, <1>2, <1>3 DEF Reads, Writes, WantsW, First, Second, Pointers, LookPcs, CreatePcs, UnlinkPcs, LockedPcs, RenamePcs
    <3> QED BY <3>1, <1>2, ContentsKept DEF b, CreateExistsRelease, SameLocks
  <2>2. MetaChange(t, c)
    <3>1. \A d \in Dentries : HasMeta(c, d) <=> HasMeta(b, d)
      BY <1>1, <1>2, <1>3 DEF HasMeta, First, Pointers, LookPcs, CreatePcs, UnlinkPcs, LockedPcs, RenamePcs
    <3> QED BY <3>1, MetaKept DEF b, CreateExistsRelease, SameLocks
  <2>3. RenameChange(t, c)
    <3>1. Renames(c) <=> Renames(b)
      BY <1>1, <1>2, <1>3 DEF OpsMatch, Renames, LookPcs, CreatePcs, UnlinkPcs, LockedPcs, RenamePcs
    <3> QED BY <3>1, RenameKept DEF b, CreateExistsRelease, SameLocks
  <2>4. LockTypes'
    BY <1>1, <1>2 DEF CreateExistsRelease, SameLocks, LockTypes
  <2> QED BY <2>1, <2>2, <2>3, <2>4 DEF LockChange
<1>9. PlaceOK(c, dent)
  <2>1. c.op \in Changing => DirsOnPath(c, dent)
    BY <1>1, <1>2, <1>3 DEF PlaceOK, DirsOnPath
  <2>2. c.op \in Changing => LookupAt(c, dent)
    BY <1>1, <1>2, <1>3 DEF PlaceOK, LookupAt, Target, FirstName, LookPcs, CreatePcs, UnlinkPcs, LockedPcs, RenamePcs
  <2>3. c.op \in Changing => UnlinkAt(c, dent)
    BY <1>1, <1>2, <1>3 DEF PlaceOK, UnlinkAt, LookPcs, CreatePcs, UnlinkPcs, LockedPcs, RenamePcs
  <2>4. c.op \in Changing => RenameAt(c, dent)
    BY <1>1, <1>2, <1>3 DEF PlaceOK, RenameAt, First, Pointers, LookPcs, CreatePcs, UnlinkPcs, LockedPcs, RenamePcs
  <2>5. c.pc = "lk3" => dent[c.par].kids[Head(c.want)] = c.cur
    BY <1>1, <1>3
  <2> QED BY <2>1, <2>2, <2>3, <2>4, <2>5 DEF PlaceOK
<1>11. SameCall(b, c) /\ uidNumber' \in Nat
  BY <1>1, <1>3 DEF SameCall, CreateExistsRelease, SameTree
<1> QED BY <1>2, <1>4, <1>5, <1>6, <1>7, <1>8, <1>9, <1>11, LeanStep DEF b

\* The directory cannot take the name.
LEMMA CreateFailsInv ==
    ASSUME TreeInv, NEW t \in TreeThreads, CreateFails(t)
    PROVE  TreeInv'
<1> DEFINE b == thr[t]
           c == [b EXCEPT !.pc = "cr4"]
<1>1. /\ b \in Call /\ OpsMatch(b) /\ Pointers(b) /\ Walk(b) /\ PlaceOK(b, dent)
      /\ thr \in [TreeThreads -> Call] /\ dent \in [Dentries -> Entry] /\ GoodTree(dent)
      /\ LockTypes /\ uidNumber \in Nat /\ Root \in Dentries /\ Null \notin Dentries
      /\ b.pc = "cr1"
  BY Here DEF CreateFails
<1>2. /\ b.op # "none"
      /\ b.op \in {"create", "mkdir"}
      /\ ~b.ok
      /\ b.par \in Dentries
  BY <1>1 DEF OpsMatch, Pointers, Call, NulOr, LookPcs, CreatePcs, UnlinkPcs, LockedPcs, RenamePcs
<1>3. /\ c.op = b.op /\ c.path = b.path /\ c.to = b.to
      /\ c.want = b.want /\ c.cur = b.cur /\ c.par = b.par
      /\ c.fromdir = b.fromdir /\ c.todir = b.todir /\ c.fromdent = b.fromdent
      /\ c.todent = b.todent /\ c.val = b.val /\ c.ok = b.ok
      /\ c.fh = b.fh /\ c.pc = "cr4"
  BY <1>1 DEF Call
<1>4. c \in Call
  <2>1. /\ "cr4" \in Pcs
    BY <1>1, <1>2 DEF Call, NulOr, Pcs, LookPcs, CreatePcs, UnlinkPcs, LockedPcs, RenamePcs
  <2> QED BY <1>1, <2>1 DEF Call
<1>5. thr' = [thr EXCEPT ![t] = c] /\ Steps(thr, thr', t, c)
  BY <1>1 DEF CreateFails, Goto, Steps
<1> HIDE DEF b, c
<1>6. CallOK(c)
  <2>1. Target(c) = Target(b)
    BY <1>3 DEF Target
  <2>2. OpsMatch(c)
    BY <1>1, <1>2, <1>3, <2>1 DEF OpsMatch, Changing, LookPcs, CreatePcs, UnlinkPcs, LockedPcs, RenamePcs
  <2>3. Pointers(c)
    BY <1>1, <1>2, <1>3, <2>1 DEF OpsMatch, Pointers, First, FirstName, LookPcs, CreatePcs, UnlinkPcs, LockedPcs, RenamePcs
  <2>4. Walk(c)
    BY <1>1, <1>2, <1>3, <2>1 DEF Walk, FirstName, LookPcs, CreatePcs, UnlinkPcs, LockedPcs, RenamePcs
  <2> QED BY <2>2, <2>3, <2>4 DEF CallOK
<1>7. dent' \in [Dentries -> Entry] /\ Lean(dent, dent') /\ Counts(dent', thr')
  <2>1. SameSlots(b, c)
    BY <1>1, <1>2, <1>3, PtrIs DEF SameSlots, Slots, Pointers, LookPcs, CreatePcs, UnlinkPcs, LockedPcs, RenamePcs
  <2> QED BY <1>2, <1>5, <2>1, KeepHandles DEF b, CreateFails, SameTree
<1>8. LockChange(t, c) /\ LockTypes'
  <2>1. ContentsChange(t, c)
    <3>1. \A d \in Dentries : /\ Writes(b, d) <=> d = b.par
                              /\ ~Reads(b, d) /\ ~Reads(c, d) /\ ~Writes(c, d)
      BY <1>1, <1>2, <1>3 DEF Reads, Writes, WantsW, LookPcs, CreatePcs, UnlinkPcs, LockedPcs, RenamePcs
    <3>2. contents' = UnlockW(contents, b.par)
      BY <1>2 DEF CreateFails, b
    <3> QED BY <1>2, <3>1, <3>2, OpensW DEF b
  <2>2. MetaChange(t, c)
    <3>1. \A d \in Dentries : HasMeta(c, d) <=> HasMeta(b, d)
      BY <1>1, <1>2, <1>3 DEF HasMeta, First, Pointers, LookPcs, CreatePcs, UnlinkPcs, LockedPcs, RenamePcs
    <3> QED BY <3>1, MetaKept DEF b, CreateFails, SameLocks
  <2>3. RenameChange(t, c)
    <3>1. Renames(c) <=> Renames(b)
      BY <1>1, <1>2, <1>3 DEF OpsMatch, Renames, LookPcs, CreatePcs, UnlinkPcs, LockedPcs, RenamePcs
    <3> QED BY <3>1, RenameKept DEF b, CreateFails, SameLocks
  <2>4. LockTypes'
    <3>1. contents' \in ContentsType
      <4>1. contents \in ContentsType /\ contents' = UnlockW(contents, b.par)
        BY <1>1, <1>2 DEF CreateFails, b, LockTypes, ContentsType
      <4> QED BY <1>2, <4>1, LockOps
    <3> QED BY <1>1, <3>1 DEF CreateFails, LockTypes, ContentsType
  <2> QED BY <2>1, <2>2, <2>3, <2>4 DEF LockChange
<1>9. PlaceOK(c, dent)
  <2>1. c.op \in Changing => DirsOnPath(c, dent)
    BY <1>1, <1>2, <1>3 DEF PlaceOK, DirsOnPath
  <2>2. c.op \in Changing => LookupAt(c, dent)
    BY <1>1, <1>2, <1>3 DEF PlaceOK, LookupAt, Target, FirstName, LookPcs, CreatePcs, UnlinkPcs, LockedPcs, RenamePcs
  <2>3. c.op \in Changing => UnlinkAt(c, dent)
    BY <1>1, <1>2, <1>3 DEF PlaceOK, UnlinkAt, LookPcs, CreatePcs, UnlinkPcs, LockedPcs, RenamePcs
  <2>4. c.op \in Changing => RenameAt(c, dent)
    BY <1>1, <1>2, <1>3 DEF PlaceOK, RenameAt, First, Pointers, LookPcs, CreatePcs, UnlinkPcs, LockedPcs, RenamePcs
  <2>5. c.pc = "lk3" => dent[c.par].kids[Head(c.want)] = c.cur
    BY <1>1, <1>3
  <2> QED BY <2>1, <2>2, <2>3, <2>4, <2>5 DEF PlaceOK
<1>11. SameCall(b, c) /\ uidNumber' \in Nat
  <2>1. AllocateUid(uidNumber) \in Nat
    BY <1>1, TreeAssumption DEF AllocateUid
  <2> QED BY <1>1, <1>3, <2>1 DEF SameCall, CreateFails
<1> QED BY <1>2, <1>4, <1>5, <1>6, <1>7, <1>8, <1>9, <1>11, LeanStep DEF b

\* A created file stays open when the directory is given back.
LEMMA CreateReleaseOpen ==
    ASSUME TreeInv, NEW t \in TreeThreads, CreateRelease(t), thr[t].ok
    PROVE  TreeInv'
<1> DEFINE b == thr[t]
           c == [b EXCEPT !.par = Null, !.pc = IF b.op = "create" THEN "fopen" ELSE "close"]
<1>1. /\ b \in Call /\ OpsMatch(b) /\ Pointers(b) /\ Walk(b) /\ PlaceOK(b, dent)
      /\ thr \in [TreeThreads -> Call] /\ dent \in [Dentries -> Entry] /\ GoodTree(dent)
      /\ LockTypes /\ uidNumber \in Nat /\ Root \in Dentries /\ Null \notin Dentries
      /\ b.pc = "cr4"
  BY Here DEF CreateRelease
<1>2. /\ b.op # "none"
      /\ b.op \in {"create", "mkdir"}
      /\ b.ok
      /\ b.par \in Dentries
  BY <1>1 DEF OpsMatch, Pointers, Call, NulOr, LookPcs, CreatePcs, UnlinkPcs, LockedPcs, RenamePcs
<1>3. /\ c.op = b.op /\ c.path = b.path /\ c.to = b.to
      /\ c.want = b.want /\ c.cur = b.cur /\ c.par = Null
      /\ c.fromdir = b.fromdir /\ c.todir = b.todir /\ c.fromdent = b.fromdent
      /\ c.todent = b.todent /\ c.val = b.val /\ c.ok = b.ok
      /\ c.fh = b.fh /\ c.pc = IF b.op = "create" THEN "fopen" ELSE "close"
  BY <1>1 DEF Call
<1>4. c \in Call
  <2>1. /\ Null \in NulOr
        /\ (IF b.op = "create" THEN "fopen" ELSE "close") \in Pcs
    BY <1>1, <1>2 DEF Call, NulOr, Pcs, LookPcs, CreatePcs, UnlinkPcs, LockedPcs, RenamePcs
  <2> QED BY <1>1, <2>1 DEF Call
<1>5. thr' = [thr EXCEPT ![t] = c] /\ Steps(thr, thr', t, c)
  BY <1>1 DEF CreateRelease, Goto, Steps
<1> HIDE DEF b, c
<1>6. CallOK(c)
  <2>1. Target(c) = Target(b)
    BY <1>3 DEF Target
  <2>2. OpsMatch(c)
    BY <1>1, <1>2, <1>3, <2>1 DEF OpsMatch, Changing, LookPcs, CreatePcs, UnlinkPcs, LockedPcs, RenamePcs
  <2>3. Pointers(c)
    BY <1>1, <1>2, <1>3, <2>1 DEF OpsMatch, Pointers, First, FirstName, LookPcs, CreatePcs, UnlinkPcs, LockedPcs, RenamePcs
  <2>4. Walk(c)
    BY <1>1, <1>2, <1>3, <2>1 DEF Walk, FirstName, LookPcs, CreatePcs, UnlinkPcs, LockedPcs, RenamePcs
  <2> QED BY <2>2, <2>3, <2>4 DEF CallOK
<1>7. dent' \in [Dentries -> Entry] /\ Lean(dent, dent') /\ Counts(dent', thr')
  <2>1. GiveSlot(b, c, "par", b.par)
    BY <1>1, <1>2, <1>3, PtrIs DEF GiveSlot, TakeSlot, Slots, Pointers, LookPcs, CreatePcs, UnlinkPcs, LockedPcs, RenamePcs
  <2>2. b.par \in Dentries
    BY <1>2
  <2> QED BY <1>2, <1>5, <2>1, <2>2, ReleaseHandle DEF b, CreateRelease
<1>8. LockChange(t, c) /\ LockTypes'
  <2>1. ContentsChange(t, c)
    <3>1. \A d \in Dentries : (Reads(c, d) <=> Reads(b, d)) /\ (Writes(c, d) <=> Writes(b, d))
      BY <1>1, <1>2, <1>3 DEF Reads, Writes, WantsW, First, Second, Pointers, LookPcs, CreatePcs, UnlinkPcs, LockedPcs, RenamePcs
    <3> QED BY <3>1, <1>2, ContentsKept DEF b, CreateRelease, SameLocks
  <2>2. MetaChange(t, c)
    <3>1. \A d \in Dentries : HasMeta(c, d) <=> HasMeta(b, d)
      BY <1>1, <1>2, <1>3 DEF HasMeta, First, Pointers, LookPcs, CreatePcs, UnlinkPcs, LockedPcs, RenamePcs
    <3> QED BY <3>1, MetaKept DEF b, CreateRelease, SameLocks
  <2>3. RenameChange(t, c)
    <3>1. Renames(c) <=> Renames(b)
      BY <1>1, <1>2, <1>3 DEF OpsMatch, Renames, LookPcs, CreatePcs, UnlinkPcs, LockedPcs, RenamePcs
    <3> QED BY <3>1, RenameKept DEF b, CreateRelease, SameLocks
  <2>4. LockTypes'
    BY <1>1, <1>2 DEF CreateRelease, SameLocks, LockTypes
  <2> QED BY <2>1, <2>2, <2>3, <2>4 DEF LockChange
<1>9. PlaceOK(c, dent)
  <2>1. c.op \in Changing => DirsOnPath(c, dent)
    BY <1>1, <1>2, <1>3 DEF PlaceOK, DirsOnPath
  <2>2. c.op \in Changing => LookupAt(c, dent)
    BY <1>1, <1>2, <1>3 DEF PlaceOK, LookupAt, Target, FirstName, LookPcs, CreatePcs, UnlinkPcs, LockedPcs, RenamePcs
  <2>3. c.op \in Changing => UnlinkAt(c, dent)
    BY <1>1, <1>2, <1>3 DEF PlaceOK, UnlinkAt, LookPcs, CreatePcs, UnlinkPcs, LockedPcs, RenamePcs
  <2>4. c.op \in Changing => RenameAt(c, dent)
    BY <1>1, <1>2, <1>3 DEF PlaceOK, RenameAt, First, Pointers, LookPcs, CreatePcs, UnlinkPcs, LockedPcs, RenamePcs
  <2>5. c.pc = "lk3" => dent[c.par].kids[Head(c.want)] = c.cur
    BY <1>1, <1>3
  <2> QED BY <2>1, <2>2, <2>3, <2>4, <2>5 DEF PlaceOK
<1>11. SameCall(b, c) /\ uidNumber' \in Nat
  BY <1>1, <1>3 DEF SameCall, CreateRelease, SameTree
<1> QED BY <1>2, <1>4, <1>5, <1>6, <1>7, <1>8, <1>9, <1>11, LeanStep DEF b

\* A create that failed ends when the directory is given back.
LEMMA CreateReleaseEnd ==
    ASSUME TreeInv, NEW t \in TreeThreads, CreateRelease(t), ~thr[t].ok
    PROVE  TreeInv'
<1> DEFINE b == thr[t]
           c == Quiet(b.fh)
<1>1. /\ b \in Call /\ OpsMatch(b) /\ Pointers(b) /\ Walk(b) /\ PlaceOK(b, dent)
      /\ thr \in [TreeThreads -> Call] /\ dent \in [Dentries -> Entry] /\ GoodTree(dent)
      /\ LockTypes /\ uidNumber \in Nat /\ Root \in Dentries /\ Null \notin Dentries
      /\ b.pc = "cr4"
  BY Here DEF CreateRelease
<1>2. /\ b.op # "none" /\ b.fh \in NulOr
      /\ b.op \in {"create", "mkdir"}
      /\ ~b.ok
  BY <1>1 DEF OpsMatch, Pointers, Call, NulOr, LookPcs, CreatePcs, UnlinkPcs, LockedPcs, RenamePcs
<1>3. \A k \in Slots : Ptr(c, k) = IF k = "fh" THEN b.fh ELSE Null
  BY <1>2, QuietOK
<1>4. thr' = [thr EXCEPT ![t] = c] /\ Steps(thr, thr', t, c)
  BY <1>1, <1>2 DEF CreateRelease, End, Goto, Steps
<1> HIDE DEF c, b
<1>5. dent' \in [Dentries -> Entry] /\ Lean(dent, dent') /\ Counts(dent', thr')
  <2>1. GiveSlot(b, c, "par", b.par)
    BY <1>1, <1>2, <1>3, PtrIs DEF GiveSlot, TakeSlot, Slots, OpsMatch, Pointers, LookPcs, CreatePcs, UnlinkPcs, LockedPcs, RenamePcs
  <2>2. b.par \in Dentries
    BY <1>1, <1>2 DEF Pointers, Call, NulOr, LookPcs, CreatePcs, UnlinkPcs, LockedPcs, RenamePcs
  <2> QED BY <1>4, <2>1, <2>2, ReleaseHandle DEF b, CreateRelease
<1>6. \A x \in Dentries : ~Reads(b, x) /\ ~Writes(b, x) /\ ~HasMeta(b, x)
  BY <1>1, <1>2 DEF Reads, Writes, HasMeta, LookPcs, CreatePcs, UnlinkPcs, LockedPcs, RenamePcs
<1>7. renameLock' = (IF Renames(b) THEN NoThread ELSE renameLock) /\ renameLock' \in Owner
  BY <1>1, <1>2 DEF b, CreateRelease, OpsMatch, Renames, SameLocks, LockTypes, Owner, LookPcs, CreatePcs, UnlinkPcs, LockedPcs, RenamePcs
<1>8. UNCHANGED <<contents, meta>> /\ uidNumber' \in Nat
  BY <1>1 DEF CreateRelease, SameLocks, SameTree
<1> QED BY <1>2, <1>4, <1>5, <1>6, <1>7, <1>8, EndStep DEF b, c

-----------------------------------------------------------------------------
(* open, release and the calls on a path.                                  *)

\* open has found its file.
LEMMA OpenFoundInv ==
    ASSUME TreeInv, NEW t \in TreeThreads, OpenFound(t)
    PROVE  TreeInv'
<1> DEFINE b == thr[t]
           c == [b EXCEPT !.pc = "fopen"]
<1>1. /\ b \in Call /\ OpsMatch(b) /\ Pointers(b) /\ Walk(b) /\ PlaceOK(b, dent)
      /\ thr \in [TreeThreads -> Call] /\ dent \in [Dentries -> Entry] /\ GoodTree(dent)
      /\ LockTypes /\ uidNumber \in Nat /\ Root \in Dentries /\ Null \notin Dentries
      /\ b.pc = "found"
  BY Here DEF OpenFound
<1>2. /\ b.op # "none"
      /\ b.op = "open"
  BY DEF OpenFound
<1>3. /\ c.op = b.op /\ c.path = b.path /\ c.to = b.to
      /\ c.want = b.want /\ c.cur = b.cur /\ c.par = b.par
      /\ c.fromdir = b.fromdir /\ c.todir = b.todir /\ c.fromdent = b.fromdent
      /\ c.todent = b.todent /\ c.val = b.val /\ c.ok = b.ok
      /\ c.fh = b.fh /\ c.pc = "fopen"
  BY <1>1 DEF Call
<1>4. c \in Call
  <2>1. /\ "fopen" \in Pcs
    BY <1>1, <1>2 DEF Call, NulOr, Pcs, LookPcs, CreatePcs, UnlinkPcs, LockedPcs, RenamePcs
  <2> QED BY <1>1, <2>1 DEF Call
<1>5. thr' = [thr EXCEPT ![t] = c] /\ Steps(thr, thr', t, c)
  BY <1>1 DEF OpenFound, Goto, Steps
<1> HIDE DEF b, c
<1>6. CallOK(c)
  <2>1. Target(c) = Target(b)
    BY <1>3 DEF Target
  <2>2. OpsMatch(c)
    BY <1>1, <1>2, <1>3, <2>1 DEF OpsMatch, Changing, LookPcs, CreatePcs, UnlinkPcs, LockedPcs, RenamePcs
  <2>3. Pointers(c)
    BY <1>1, <1>2, <1>3, <2>1 DEF OpsMatch, Pointers, First, FirstName, LookPcs, CreatePcs, UnlinkPcs, LockedPcs, RenamePcs
  <2>4. Walk(c)
    BY <1>1, <1>2, <1>3, <2>1 DEF Walk, FirstName, LookPcs, CreatePcs, UnlinkPcs, LockedPcs, RenamePcs
  <2> QED BY <2>2, <2>3, <2>4 DEF CallOK
<1>7. dent' \in [Dentries -> Entry] /\ Lean(dent, dent') /\ Counts(dent', thr')
  <2>1. SameSlots(b, c)
    BY <1>1, <1>2, <1>3, PtrIs DEF SameSlots, Slots, Pointers, LookPcs, CreatePcs, UnlinkPcs, LockedPcs, RenamePcs
  <2> QED BY <1>2, <1>5, <2>1, KeepHandles DEF b, OpenFound, SameTree
<1>8. LockChange(t, c) /\ LockTypes'
  <2>1. ContentsChange(t, c)
    <3>1. \A d \in Dentries : (Reads(c, d) <=> Reads(b, d)) /\ (Writes(c, d) <=> Writes(b, d))
      BY <1>1, <1>2, <1>3 DEF Reads, Writes, WantsW, First, Second, Pointers, LookPcs, CreatePcs, UnlinkPcs, LockedPcs, RenamePcs
    <3> QED BY <3>1, <1>2, ContentsKept DEF b, OpenFound, SameLocks
  <2>2. MetaChange(t, c)
    <3>1. \A d \in Dentries : HasMeta(c, d) <=> HasMeta(b, d)
      BY <1>1, <1>2, <1>3 DEF HasMeta, First, Pointers, LookPcs, CreatePcs, UnlinkPcs, LockedPcs, RenamePcs
    <3> QED BY <3>1, MetaKept DEF b, OpenFound, SameLocks
  <2>3. RenameChange(t, c)
    <3>1. Renames(c) <=> Renames(b)
      BY <1>1, <1>2, <1>3 DEF OpsMatch, Renames, LookPcs, CreatePcs, UnlinkPcs, LockedPcs, RenamePcs
    <3> QED BY <3>1, RenameKept DEF b, OpenFound, SameLocks
  <2>4. LockTypes'
    BY <1>1, <1>2 DEF OpenFound, SameLocks, LockTypes
  <2> QED BY <2>1, <2>2, <2>3, <2>4 DEF LockChange
<1>9. PlaceOK(c, dent)
  <2>1. c.op \in Changing => DirsOnPath(c, dent)
    BY <1>1, <1>2, <1>3 DEF PlaceOK, DirsOnPath
  <2>2. c.op \in Changing => LookupAt(c, dent)
    BY <1>1, <1>2, <1>3 DEF PlaceOK, LookupAt, Target, FirstName, LookPcs, CreatePcs, UnlinkPcs, LockedPcs, RenamePcs
  <2>3. c.op \in Changing => UnlinkAt(c, dent)
    BY <1>1, <1>2, <1>3 DEF PlaceOK, UnlinkAt, LookPcs, CreatePcs, UnlinkPcs, LockedPcs, RenamePcs
  <2>4. c.op \in Changing => RenameAt(c, dent)
    BY <1>1, <1>2, <1>3 DEF PlaceOK, RenameAt, First, Pointers, LookPcs, CreatePcs, UnlinkPcs, LockedPcs, RenamePcs
  <2>5. c.pc = "lk3" => dent[c.par].kids[Head(c.want)] = c.cur
    BY <1>1, <1>3
  <2> QED BY <2>1, <2>2, <2>3, <2>4, <2>5 DEF PlaceOK
<1>11. SameCall(b, c) /\ uidNumber' \in Nat
  BY <1>1, <1>3 DEF SameCall, OpenFound, SameTree
<1> QED BY <1>2, <1>4, <1>5, <1>6, <1>7, <1>8, <1>9, <1>11, LeanStep DEF b

\* The file handle takes over the handle on the dentry.
LEMMA FileOpenInv ==
    ASSUME TreeInv, NEW t \in TreeThreads, FileOpen(t)
    PROVE  TreeInv'
<1> DEFINE b == thr[t]
           c == Quiet(b.cur)
<1>1. /\ b \in Call /\ OpsMatch(b) /\ Pointers(b) /\ Walk(b) /\ PlaceOK(b, dent)
      /\ thr \in [TreeThreads -> Call] /\ dent \in [Dentries -> Entry] /\ GoodTree(dent)
      /\ LockTypes /\ uidNumber \in Nat /\ Root \in Dentries /\ Null \notin Dentries
      /\ b.pc = "fopen"
  BY Here DEF FileOpen
<1>2. /\ b.op # "none" /\ b.cur \in NulOr
      /\ b.op \in {"open", "create"}
      /\ b.fh = Null
  BY <1>1 DEF OpsMatch, Pointers, Call, NulOr, LookPcs, CreatePcs, UnlinkPcs, LockedPcs, RenamePcs
<1>3. \A k \in Slots : Ptr(c, k) = IF k = "fh" THEN b.cur ELSE Null
  BY <1>2, QuietOK
<1>4. thr' = [thr EXCEPT ![t] = c] /\ Steps(thr, thr', t, c)
  BY <1>1 DEF FileOpen, End, Goto, Steps
<1> HIDE DEF c, b
<1>5. dent' \in [Dentries -> Entry] /\ Lean(dent, dent') /\ Counts(dent', thr')
  <2>1. PassSlot(b, c, "cur", "fh")
    BY <1>1, <1>2, <1>3, PtrIs DEF PassSlot, Slots, OpsMatch, Pointers, LookPcs, CreatePcs, UnlinkPcs, LockedPcs, RenamePcs
  <2> QED BY <1>4, <2>1, KeepHandles DEF b, FileOpen, SameTree
<1>6. \A x \in Dentries : ~Reads(b, x) /\ ~Writes(b, x) /\ ~HasMeta(b, x)
  BY <1>1, <1>2 DEF Reads, Writes, HasMeta, LookPcs, CreatePcs, UnlinkPcs, LockedPcs, RenamePcs
<1>7. renameLock' = (IF Renames(b) THEN NoThread ELSE renameLock) /\ renameLock' \in Owner
  BY <1>1, <1>2 DEF b, FileOpen, OpsMatch, Renames, SameLocks, LockTypes, Owner, LookPcs, CreatePcs, UnlinkPcs, LockedPcs, RenamePcs
<1>8. UNCHANGED <<contents, meta>> /\ uidNumber' \in Nat
  BY <1>1 DEF FileOpen, SameLocks, SameTree
<1> QED BY <1>2, <1>4, <1>5, <1>6, <1>7, <1>8, EndStep DEF b, c

\* getattr has found its dentry.
LEMMA PathCallInv ==
    ASSUME TreeInv, NEW t \in TreeThreads, PathCall(t)
    PROVE  TreeInv'
<1> DEFINE b == thr[t]
           c == [b EXCEPT !.pc = "close"]
<1>1. /\ b \in Call /\ OpsMatch(b) /\ Pointers(b) /\ Walk(b) /\ PlaceOK(b, dent)
      /\ thr \in [TreeThreads -> Call] /\ dent \in [Dentries -> Entry] /\ GoodTree(dent)
      /\ LockTypes /\ uidNumber \in Nat /\ Root \in Dentries /\ Null \notin Dentries
      /\ b.pc = "found"
  BY Here DEF PathCall
<1>2. /\ b.op # "none"
      /\ b.op = "getattr"
  BY DEF PathCall
<1>3. /\ c.op = b.op /\ c.path = b.path /\ c.to = b.to
      /\ c.want = b.want /\ c.cur = b.cur /\ c.par = b.par
      /\ c.fromdir = b.fromdir /\ c.todir = b.todir /\ c.fromdent = b.fromdent
      /\ c.todent = b.todent /\ c.val = b.val /\ c.ok = b.ok
      /\ c.fh = b.fh /\ c.pc = "close"
  BY <1>1 DEF Call
<1>4. c \in Call
  <2>1. /\ "close" \in Pcs
    BY <1>1, <1>2 DEF Call, NulOr, Pcs, LookPcs, CreatePcs, UnlinkPcs, LockedPcs, RenamePcs
  <2> QED BY <1>1, <2>1 DEF Call
<1>5. thr' = [thr EXCEPT ![t] = c] /\ Steps(thr, thr', t, c)
  BY <1>1 DEF PathCall, Goto, Steps
<1> HIDE DEF b, c
<1>6. CallOK(c)
  <2>1. Target(c) = Target(b)
    BY <1>3 DEF Target
  <2>2. OpsMatch(c)
    BY <1>1, <1>2, <1>3, <2>1 DEF OpsMatch, Changing, LookPcs, CreatePcs, UnlinkPcs, LockedPcs, RenamePcs
  <2>3. Pointers(c)
    BY <1>1, <1>2, <1>3, <2>1 DEF OpsMatch, Pointers, First, FirstName, LookPcs, CreatePcs, UnlinkPcs, LockedPcs, RenamePcs
  <2>4. Walk(c)
    BY <1>1, <1>2, <1>3, <2>1 DEF Walk, FirstName, LookPcs, CreatePcs, UnlinkPcs, LockedPcs, RenamePcs
  <2> QED BY <2>2, <2>3, <2>4 DEF CallOK
<1>7. dent' \in [Dentries -> Entry] /\ Lean(dent, dent') /\ Counts(dent', thr')
  <2>1. SameSlots(b, c)
    BY <1>1, <1>2, <1>3, PtrIs DEF SameSlots, Slots, Pointers, LookPcs, CreatePcs, UnlinkPcs, LockedPcs, RenamePcs
  <2> QED BY <1>2, <1>5, <2>1, KeepHandles DEF b, PathCall, SameTree
<1>8. LockChange(t, c) /\ LockTypes'
  <2>1. ContentsChange(t, c)
    <3>1. \A d \in Dentries : (Reads(c, d) <=> Reads(b, d)) /\ (Writes(c, d) <=> Writes(b, d))
      BY <1>1, <1>2, <1>3 DEF Reads, Writes, WantsW, First, Second, Pointers, LookPcs, CreatePcs, UnlinkPcs, LockedPcs, RenamePcs
    <3> QED BY <3>1, <1>2, ContentsKept DEF b, PathCall, SameLocks
  <2>2. MetaChange(t, c)
    <3>1. \A d \in Dentries : HasMeta(c, d) <=> HasMeta(b, d)
      BY <1>1, <1>2, <1>3 DEF HasMeta, First, Pointers, LookPcs, CreatePcs, UnlinkPcs, LockedPcs, RenamePcs
    <3> QED BY <3>1, MetaKept DEF b, PathCall, SameLocks
  <2>3. RenameChange(t, c)
    <3>1. Renames(c) <=> Renames(b)
      BY <1>1, <1>2, <1>3 DEF OpsMatch, Renames, LookPcs, CreatePcs, UnlinkPcs, LockedPcs, RenamePcs
    <3> QED BY <3>1, RenameKept DEF b, PathCall, SameLocks
  <2>4. LockTypes'
    BY <1>1, <1>2 DEF PathCall, SameLocks, LockTypes
  <2> QED BY <2>1, <2>2, <2>3, <2>4 DEF LockChange
<1>9. PlaceOK(c, dent)
  <2>1. c.op \in Changing => DirsOnPath(c, dent)
    BY <1>1, <1>2, <1>3 DEF PlaceOK, DirsOnPath
  <2>2. c.op \in Changing => LookupAt(c, dent)
    BY <1>1, <1>2, <1>3 DEF PlaceOK, LookupAt, Target, FirstName, LookPcs, CreatePcs, UnlinkPcs, LockedPcs, RenamePcs
  <2>3. c.op \in Changing => UnlinkAt(c, dent)
    BY <1>1, <1>2, <1>3 DEF PlaceOK, UnlinkAt, LookPcs, CreatePcs, UnlinkPcs, LockedPcs, RenamePcs
  <2>4. c.op \in Changing => RenameAt(c, dent)
    BY <1>1, <1>2, <1>3 DEF PlaceOK, RenameAt, First, Pointers, LookPcs, CreatePcs, UnlinkPcs, LockedPcs, RenamePcs
  <2>5. c.pc = "lk3" => dent[c.par].kids[Head(c.want)] = c.cur
    BY <1>1, <1>3
  <2> QED BY <2>1, <2>2, <2>3, <2>4, <2>5 DEF PlaceOK
<1>11. SameCall(b, c) /\ uidNumber' \in Nat
  BY <1>1, <1>3 DEF SameCall, PathCall, SameTree
<1> QED BY <1>2, <1>4, <1>5, <1>6, <1>7, <1>8, <1>9, <1>11, LeanStep DEF b

\* release gives the handle of the open file back.
LEMMA CloseDentryRelease ==
    ASSUME TreeInv, NEW t \in TreeThreads, CloseDentry(t), thr[t].op = "release"
    PROVE  TreeInv'
<1> DEFINE b == thr[t]
           c == [b EXCEPT !.val = b.cur, !.cur = Null, !.fh = Null, !.pc = "fclose"]
<1>1. /\ b \in Call /\ OpsMatch(b) /\ Pointers(b) /\ Walk(b) /\ PlaceOK(b, dent)
      /\ thr \in [TreeThreads -> Call] /\ dent \in [Dentries -> Entry] /\ GoodTree(dent)
      /\ LockTypes /\ uidNumber \in Nat /\ Root \in Dentries /\ Null \notin Dentries
      /\ b.pc = "close"
  BY Here DEF CloseDentry
<1>2. /\ b.op # "none"
      /\ b.op = "release"
      /\ b.cur \in Dentries
      /\ b.cur \in Nat
  <2>1. b.op = "release" /\ b.cur \in Dentries
    BY <1>1 DEF Pointers, Call, NulOr
  <2> QED BY <2>1, Memory
<1>3. /\ c.op = b.op /\ c.path = b.path /\ c.to = b.to
      /\ c.want = b.want /\ c.cur = Null /\ c.par = b.par
      /\ c.fromdir = b.fromdir /\ c.todir = b.todir /\ c.fromdent = b.fromdent
      /\ c.todent = b.todent /\ c.val = b.cur /\ c.ok = b.ok
      /\ c.fh = Null /\ c.pc = "fclose"
  BY <1>1 DEF Call
<1>4. c \in Call
  <2>1. /\ b.cur \in Nat
        /\ Null \in NulOr
        /\ Null \in NulOr
        /\ "fclose" \in Pcs
    BY <1>1, <1>2 DEF Call, NulOr, Pcs, LookPcs, CreatePcs, UnlinkPcs, LockedPcs, RenamePcs
  <2> QED BY <1>1, <2>1 DEF Call
<1>5. thr' = [thr EXCEPT ![t] = c] /\ Steps(thr, thr', t, c)
  BY <1>1 DEF CloseDentry, Goto, Steps
<1> HIDE DEF b, c
<1>6. CallOK(c)
  <2>1. Target(c) = Target(b)
    BY <1>3 DEF Target
  <2>2. OpsMatch(c)
    BY <1>1, <1>2, <1>3, <2>1 DEF OpsMatch, Changing, LookPcs, CreatePcs, UnlinkPcs, LockedPcs, RenamePcs
  <2>3. Pointers(c)
    BY <1>1, <1>2, <1>3, <2>1 DEF OpsMatch, Pointers, First, FirstName, LookPcs, CreatePcs, UnlinkPcs, LockedPcs, RenamePcs
  <2>4. Walk(c)
    BY <1>1, <1>2, <1>3, <2>1 DEF Walk, FirstName, LookPcs, CreatePcs, UnlinkPcs, LockedPcs, RenamePcs
  <2> QED BY <2>2, <2>3, <2>4 DEF CallOK
<1>7. dent' \in [Dentries -> Entry] /\ Lean(dent, dent') /\ Counts(dent', thr')
  <2>1. GiveSlot(b, c, "cur", b.cur)
    BY <1>1, <1>2, <1>3, PtrIs DEF GiveSlot, TakeSlot, Slots, Pointers, LookPcs, CreatePcs, UnlinkPcs, LockedPcs, RenamePcs
  <2>2. b.cur \in Dentries
    BY <1>2
  <2> QED BY <1>2, <1>5, <2>1, <2>2, ReleaseHandle DEF b, CloseDentry
<1>8. LockChange(t, c) /\ LockTypes'
  <2>1. ContentsChange(t, c)
    <3>1. \A d \in Dentries : (Reads(c, d) <=> Reads(b, d)) /\ (Writes(c, d) <=> Writes(b, d))
      BY <1>1, <1>2, <1>3 DEF Reads, Writes, WantsW, First, Second, Pointers, LookPcs, CreatePcs, UnlinkPcs, LockedPcs, RenamePcs
    <3> QED BY <3>1, <1>2, ContentsKept DEF b, CloseDentry, SameLocks
  <2>2. MetaChange(t, c)
    <3>1. \A d \in Dentries : HasMeta(c, d) <=> HasMeta(b, d)
      BY <1>1, <1>2, <1>3 DEF HasMeta, First, Pointers, LookPcs, CreatePcs, UnlinkPcs, LockedPcs, RenamePcs
    <3> QED BY <3>1, MetaKept DEF b, CloseDentry, SameLocks
  <2>3. RenameChange(t, c)
    <3>1. Renames(c) <=> Renames(b)
      BY <1>1, <1>2, <1>3 DEF OpsMatch, Renames, LookPcs, CreatePcs, UnlinkPcs, LockedPcs, RenamePcs
    <3> QED BY <3>1, RenameKept DEF b, CloseDentry, SameLocks
  <2>4. LockTypes'
    BY <1>1, <1>2 DEF CloseDentry, SameLocks, LockTypes
  <2> QED BY <2>1, <2>2, <2>3, <2>4 DEF LockChange
<1>9. PlaceOK(c, dent)
  <2>1. c.op \in Changing => DirsOnPath(c, dent)
    BY <1>1, <1>2, <1>3 DEF PlaceOK, DirsOnPath
  <2>2. c.op \in Changing => LookupAt(c, dent)
    BY <1>1, <1>2, <1>3 DEF PlaceOK, LookupAt, Target, FirstName, LookPcs, CreatePcs, UnlinkPcs, LockedPcs, RenamePcs
  <2>3. c.op \in Changing => UnlinkAt(c, dent)
    BY <1>1, <1>2, <1>3 DEF PlaceOK, UnlinkAt, LookPcs, CreatePcs, UnlinkPcs, LockedPcs, RenamePcs
  <2>4. c.op \in Changing => RenameAt(c, dent)
    BY <1>1, <1>2, <1>3 DEF PlaceOK, RenameAt, First, Pointers, LookPcs, CreatePcs, UnlinkPcs, LockedPcs, RenamePcs
  <2>5. c.pc = "lk3" => dent[c.par].kids[Head(c.want)] = c.cur
    BY <1>1, <1>3
  <2> QED BY <2>1, <2>2, <2>3, <2>4, <2>5 DEF PlaceOK
<1>11. SameCall(b, c) /\ uidNumber' \in Nat
  BY <1>1, <1>3 DEF SameCall, CloseDentry, SameTree
<1> QED BY <1>2, <1>4, <1>5, <1>6, <1>7, <1>8, <1>9, <1>11, LeanStep DEF b

\* A call ends by giving its handle back.
LEMMA CloseDentryEnd ==
    ASSUME TreeInv, NEW t \in TreeThreads, CloseDentry(t), thr[t].op # "release"
    PROVE  TreeInv'
<1> DEFINE b == thr[t]
           c == Quiet(b.fh)
<1>1. /\ b \in Call /\ OpsMatch(b) /\ Pointers(b) /\ Walk(b) /\ PlaceOK(b, dent)
      /\ thr \in [TreeThreads -> Call] /\ dent \in [Dentries -> Entry] /\ GoodTree(dent)
      /\ LockTypes /\ uidNumber \in Nat /\ Root \in Dentries /\ Null \notin Dentries
      /\ b.pc = "close"
  BY Here DEF CloseDentry
<1>2. /\ b.op # "none" /\ b.fh \in NulOr
      /\ b.op # "release"
  BY <1>1 DEF OpsMatch, Pointers, Call, NulOr, LookPcs, CreatePcs, UnlinkPcs, LockedPcs, RenamePcs
<1>3. \A k \in Slots : Ptr(c, k) = IF k = "fh" THEN b.fh ELSE Null
  BY <1>2, QuietOK
<1>4. thr' = [thr EXCEPT ![t] = c] /\ Steps(thr, thr', t, c)
  BY <1>1, <1>2 DEF CloseDentry, End, Goto, Steps
<1> HIDE DEF c, b
<1>5. dent' \in [Dentries -> Entry] /\ Lean(dent, dent') /\ Counts(dent', thr')
  <2>1. GiveSlot(b, c, "cur", b.cur)
    BY <1>1, <1>2, <1>3, PtrIs DEF GiveSlot, TakeSlot, Slots, OpsMatch, Pointers, LookPcs, CreatePcs, UnlinkPcs, LockedPcs, RenamePcs
  <2>2. b.cur \in Dentries
    BY <1>1, <1>2 DEF Pointers, Call, NulOr, LookPcs, CreatePcs, UnlinkPcs, LockedPcs, RenamePcs
  <2> QED BY <1>4, <2>1, <2>2, ReleaseHandle DEF b, CloseDentry
<1>6. \A x \in Dentries : ~Reads(b, x) /\ ~Writes(b, x) /\ ~HasMeta(b, x)
  BY <1>1, <1>2 DEF Reads, Writes, HasMeta, LookPcs, CreatePcs, UnlinkPcs, LockedPcs, RenamePcs
<1>7. renameLock' = (IF Renames(b) THEN NoThread ELSE renameLock) /\ renameLock' \in Owner
  BY <1>1, <1>2 DEF b, CloseDentry, OpsMatch, Renames, SameLocks, LockTypes, Owner, LookPcs, CreatePcs, UnlinkPcs, LockedPcs, RenamePcs
<1>8. UNCHANGED <<contents, meta>> /\ uidNumber' \in Nat
  BY <1>1 DEF CloseDentry, SameLocks, SameTree
<1> QED BY <1>2, <1>4, <1>5, <1>6, <1>7, <1>8, EndStep DEF b, c

\* The file handle is freed.
LEMMA FileCloseInv ==
    ASSUME TreeInv, NEW t \in TreeThreads, FileClose(t)
    PROVE  TreeInv'
<1> DEFINE b == thr[t]
           c == Quiet(b.fh)
<1>1. /\ b \in Call /\ OpsMatch(b) /\ Pointers(b) /\ Walk(b) /\ PlaceOK(b, dent)
      /\ thr \in [TreeThreads -> Call] /\ dent \in [Dentries -> Entry] /\ GoodTree(dent)
      /\ LockTypes /\ uidNumber \in Nat /\ Root \in Dentries /\ Null \notin Dentries
      /\ b.pc = "fclose"
  BY Here DEF FileClose
<1>2. /\ b.op # "none" /\ b.fh \in NulOr
      /\ b.op = "release"
      /\ b.fh = Null
  BY <1>1 DEF OpsMatch, Pointers, Call, NulOr, LookPcs, CreatePcs, UnlinkPcs, LockedPcs, RenamePcs
<1>3. \A k \in Slots : Ptr(c, k) = IF k = "fh" THEN b.fh ELSE Null
  BY <1>2, QuietOK
<1>4. thr' = [thr EXCEPT ![t] = c] /\ Steps(thr, thr', t, c)
  BY <1>1 DEF FileClose, End, Goto, Steps
<1> HIDE DEF c, b
<1>5. dent' \in [Dentries -> Entry] /\ Lean(dent, dent') /\ Counts(dent', thr')
  <2>1. SameSlots(b, c)
    BY <1>1, <1>2, <1>3, PtrIs DEF SameSlots, Slots, OpsMatch, Pointers, LookPcs, CreatePcs, UnlinkPcs, LockedPcs, RenamePcs
  <2> QED BY <1>4, <2>1, KeepHandles DEF b, FileClose, SameTree
<1>6. \A x \in Dentries : ~Reads(b, x) /\ ~Writes(b, x) /\ ~HasMeta(b, x)
  BY <1>1, <1>2 DEF Reads, Writes, HasMeta, LookPcs, CreatePcs, UnlinkPcs, LockedPcs, RenamePcs
<1>7. renameLock' = (IF Renames(b) THEN NoThread ELSE renameLock) /\ renameLock' \in Owner
  BY <1>1, <1>2 DEF b, FileClose, OpsMatch, Renames, SameLocks, LockTypes, Owner, LookPcs, CreatePcs, UnlinkPcs, LockedPcs, RenamePcs
<1>8. UNCHANGED <<contents, meta>> /\ uidNumber' \in Nat
  BY <1>1 DEF FileClose, SameLocks, SameTree
<1> QED BY <1>2, <1>4, <1>5, <1>6, <1>7, <1>8, EndStep DEF b, c

-----------------------------------------------------------------------------
(* ltfs_fsops_unlink.                                                      *)

\* A file and a directory without names have no entries.
LEMMA NoEntries ==
    ASSUME NEW D \in [Dentries -> Entry], GoodTree(D), NEW d \in Dentries,
           ~(D[d].isdir /\ Kids(D, d) # {})
    PROVE  Kids(D, d) = {}
<1>1. ASSUME ~D[d].isdir PROVE Kids(D, d) = {}
  <2>1. \A n \in FileNames : D[d].kids[n] = Null
    BY <1>1 DEF GoodTree
  <2> QED BY <2>1 DEF Kids
<1> QED BY <1>1

\* The meta_lock of one dentry is taken or given back.
LEMMA TakesMeta ==
    ASSUME TreeInv, NEW t \in TreeThreads, NEW c, NEW d \in Dentries, MetaFree(d),
           meta' = [meta EXCEPT ![d] = t],
           \A x \in Dentries : HasMeta(c, x) <=> (x = d \/ HasMeta(thr[t], x))
    PROVE  MetaChange(t, c) /\ meta' \in [Dentries -> Owner]
<1>1. \A x \in Dentries : meta[x] = t <=> HasMeta(thr[t], x)
  BY Mine
<1>2. meta \in [Dentries -> Owner] /\ t \in Owner
  BY DEF TreeInv, TreeTypes, Owner
<1> QED BY <1>1, <1>2 DEF MetaChange, MetaFree

\* The meta_lock of one dentry is given back.
LEMMA OpensMeta ==
    ASSUME TreeInv, NEW t \in TreeThreads, NEW c, NEW d \in Dentries,
           meta' = [meta EXCEPT ![d] = NoThread],
           \A x \in Dentries : ~HasMeta(c, x) /\ (HasMeta(thr[t], x) <=> x = d)
    PROVE  MetaChange(t, c) /\ meta' \in [Dentries -> Owner]
<1>1. \A x \in Dentries : meta[x] = t <=> HasMeta(thr[t], x)
  BY Mine
<1>2. meta \in [Dentries -> Owner] /\ NoThread \in Owner
  BY DEF TreeInv, TreeTypes, Owner
<1> QED BY <1>1, <1>2 DEF MetaChange

\* ltfs_fsops_unlink meets a directory with entries.
LEMMA UnlinkCheckEntries ==
    ASSUME TreeInv, NEW t \in TreeThreads, UnlinkCheck(t), dent[thr[t].cur].isdir /\ Kids(dent, thr[t].cur) # {}
    PROVE  TreeInv'
<1> DEFINE b == thr[t]
           c == [b EXCEPT !.pc = "un_ne"]
<1>1. /\ b \in Call /\ OpsMatch(b) /\ Pointers(b) /\ Walk(b) /\ PlaceOK(b, dent)
      /\ thr \in [TreeThreads -> Call] /\ dent \in [Dentries -> Entry] /\ GoodTree(dent)
      /\ LockTypes /\ uidNumber \in Nat /\ Root \in Dentries /\ Null \notin Dentries
      /\ b.pc = "found"
  BY Here DEF UnlinkCheck
<1>2. /\ b.op # "none"
      /\ b.op = "unlink"
      /\ b.par \in Dentries
      /\ b.cur \in Dentries
      /\ dent[b.cur].isdir /\ Kids(dent, b.cur) # {}
  BY <1>1 DEF UnlinkCheck, Pointers, Call, NulOr, LookPcs, CreatePcs, UnlinkPcs, LockedPcs, RenamePcs
<1>3. /\ c.op = b.op /\ c.path = b.path /\ c.to = b.to
      /\ c.want = b.want /\ c.cur = b.cur /\ c.par = b.par
      /\ c.fromdir = b.fromdir /\ c.todir = b.todir /\ c.fromdent = b.fromdent
      /\ c.todent = b.todent /\ c.val = b.val /\ c.ok = b.ok
      /\ c.fh = b.fh /\ c.pc = "un_ne"
  BY <1>1 DEF Call
<1>4. c \in Call
  <2>1. /\ "un_ne" \in Pcs
    BY <1>1, <1>2 DEF Call, NulOr, Pcs, LookPcs, CreatePcs, UnlinkPcs, LockedPcs, RenamePcs
  <2> QED BY <1>1, <2>1 DEF Call
<1>5. thr' = [thr EXCEPT ![t] = c] /\ Steps(thr, thr', t, c)
  BY <1>1, <1>2 DEF UnlinkCheck, Goto, Steps
<1> HIDE DEF b, c
<1>6. CallOK(c)
  <2>1. Target(c) = Target(b)
    BY <1>3 DEF Target
  <2>2. OpsMatch(c)
    BY <1>1, <1>2, <1>3, <2>1 DEF OpsMatch, Changing, LookPcs, CreatePcs, UnlinkPcs, LockedPcs, RenamePcs
  <2>3. Pointers(c)
    BY <1>1, <1>2, <1>3, <2>1 DEF OpsMatch, Pointers, First, FirstName, LookPcs, CreatePcs, UnlinkPcs, LockedPcs, RenamePcs
  <2>4. Walk(c)
    BY <1>1, <1>2, <1>3, <2>1 DEF Walk, FirstName, LookPcs, CreatePcs, UnlinkPcs, LockedPcs, RenamePcs
  <2> QED BY <2>2, <2>3, <2>4 DEF CallOK
<1>7. dent' \in [Dentries -> Entry] /\ Lean(dent, dent') /\ Counts(dent', thr')
  <2>1. SameSlots(b, c)
    BY <1>1, <1>2, <1>3, PtrIs DEF SameSlots, Slots, Pointers, LookPcs, CreatePcs, UnlinkPcs, LockedPcs, RenamePcs
  <2> QED BY <1>2, <1>5, <2>1, KeepHandles DEF b, UnlinkCheck, SameTree
<1>8. LockChange(t, c) /\ LockTypes'
  <2>1. ContentsChange(t, c)
    <3>1. \A d \in Dentries : /\ Writes(b, d) <=> d = b.par
                              /\ ~Reads(b, d) /\ ~Reads(c, d) /\ ~Writes(c, d)
      BY <1>1, <1>2, <1>3 DEF Reads, Writes, WantsW, LookPcs, CreatePcs, UnlinkPcs, LockedPcs, RenamePcs
    <3>2. contents' = UnlockW(contents, b.par)
      BY <1>2 DEF UnlinkCheck, b
    <3> QED BY <1>2, <3>1, <3>2, OpensW DEF b
  <2>2. MetaChange(t, c)
    <3>1. \A d \in Dentries : HasMeta(c, d) <=> HasMeta(b, d)
      BY <1>1, <1>2, <1>3 DEF HasMeta, First, Pointers, LookPcs, CreatePcs, UnlinkPcs, LockedPcs, RenamePcs
    <3> QED BY <3>1, MetaKept DEF b, UnlinkCheck, SameLocks
  <2>3. RenameChange(t, c)
    <3>1. Renames(c) <=> Renames(b)
      BY <1>1, <1>2, <1>3 DEF OpsMatch, Renames, LookPcs, CreatePcs, UnlinkPcs, LockedPcs, RenamePcs
    <3> QED BY <3>1, RenameKept DEF b, UnlinkCheck, SameLocks
  <2>4. LockTypes'
    <3>1. contents' \in ContentsType
      <4>1. contents \in ContentsType /\ contents' = UnlockW(contents, b.par)
        BY <1>1, <1>2 DEF UnlinkCheck, b, LockTypes, ContentsType
      <4> QED BY <1>2, <4>1, LockOps
    <3> QED BY <1>1, <3>1 DEF UnlinkCheck, LockTypes, ContentsType
  <2> QED BY <2>1, <2>2, <2>3, <2>4 DEF LockChange
<1>9. PlaceOK(c, dent)
  <2>1. c.op \in Changing => DirsOnPath(c, dent)
    BY <1>1, <1>2, <1>3 DEF PlaceOK, DirsOnPath
  <2>2. c.op \in Changing => LookupAt(c, dent)
    BY <1>1, <1>2, <1>3 DEF PlaceOK, LookupAt, Target, FirstName, LookPcs, CreatePcs, UnlinkPcs, LockedPcs, RenamePcs
  <2>3. c.op \in Changing => UnlinkAt(c, dent)
    <3>1. Target(b) = b.path
      BY <1>2 DEF Target
    <3>2. ResolveIn(dent, b.path) = b.cur /\ ResolveIn(dent, Front(b.path)) = b.par
      BY <1>1, <1>2, <3>1 DEF PlaceOK, LookupAt, UnlinkAt, Changing, UnlinkPcs
    <3> QED BY <1>2, <1>3, <3>2 DEF UnlinkAt, UnlinkPcs
  <2>4. c.op \in Changing => RenameAt(c, dent)
    BY <1>1, <1>2, <1>3 DEF PlaceOK, RenameAt, First, Pointers, LookPcs, CreatePcs, UnlinkPcs, LockedPcs, RenamePcs
  <2>5. c.pc = "lk3" => dent[c.par].kids[Head(c.want)] = c.cur
    BY <1>1, <1>3
  <2> QED BY <2>1, <2>2, <2>3, <2>4, <2>5 DEF PlaceOK
<1>11. SameCall(b, c) /\ uidNumber' \in Nat
  BY <1>1, <1>3 DEF SameCall, UnlinkCheck, SameTree
<1> QED BY <1>2, <1>4, <1>5, <1>6, <1>7, <1>8, <1>9, <1>11, LeanStep DEF b

\* ltfs_fsops_unlink meets a file or an empty directory.
LEMMA UnlinkCheckEmpty ==
    ASSUME TreeInv, NEW t \in TreeThreads, UnlinkCheck(t), ~(dent[thr[t].cur].isdir /\ Kids(dent, thr[t].cur) # {})
    PROVE  TreeInv'
<1> DEFINE b == thr[t]
           c == [b EXCEPT !.pc = "un1"]
<1>1. /\ b \in Call /\ OpsMatch(b) /\ Pointers(b) /\ Walk(b) /\ PlaceOK(b, dent)
      /\ thr \in [TreeThreads -> Call] /\ dent \in [Dentries -> Entry] /\ GoodTree(dent)
      /\ LockTypes /\ uidNumber \in Nat /\ Root \in Dentries /\ Null \notin Dentries
      /\ b.pc = "found"
  BY Here DEF UnlinkCheck
<1>2. /\ b.op # "none"
      /\ b.op = "unlink"
      /\ b.par \in Dentries
      /\ b.cur \in Dentries
      /\ Kids(dent, b.cur) = {}
      /\ ~(dent[b.cur].isdir /\ Kids(dent, b.cur) # {})
  <2>1. b.op = "unlink" /\ b.par \in Dentries /\ b.cur \in Dentries
    BY <1>1 DEF UnlinkCheck, Pointers, Call, NulOr, LookPcs, CreatePcs, UnlinkPcs, LockedPcs, RenamePcs
  <2> QED BY <1>1, <2>1, NoEntries
<1>3. /\ c.op = b.op /\ c.path = b.path /\ c.to = b.to
      /\ c.want = b.want /\ c.cur = b.cur /\ c.par = b.par
      /\ c.fromdir = b.fromdir /\ c.todir = b.todir /\ c.fromdent = b.fromdent
      /\ c.todent = b.todent /\ c.val = b.val /\ c.ok = b.ok
      /\ c.fh = b.fh /\ c.pc = "un1"
  BY <1>1 DEF Call
<1>4. c \in Call
  <2>1. /\ "un1" \in Pcs
    BY <1>1, <1>2 DEF Call, NulOr, Pcs, LookPcs, CreatePcs, UnlinkPcs, LockedPcs, RenamePcs
  <2> QED BY <1>1, <2>1 DEF Call
<1>5. thr' = [thr EXCEPT ![t] = c] /\ Steps(thr, thr', t, c)
  BY <1>1, <1>2 DEF UnlinkCheck, Goto, Steps
<1> HIDE DEF b, c
<1>6. CallOK(c)
  <2>1. Target(c) = Target(b)
    BY <1>3 DEF Target
  <2>2. OpsMatch(c)
    BY <1>1, <1>2, <1>3, <2>1 DEF OpsMatch, Changing, LookPcs, CreatePcs, UnlinkPcs, LockedPcs, RenamePcs
  <2>3. Pointers(c)
    BY <1>1, <1>2, <1>3, <2>1 DEF OpsMatch, Pointers, First, FirstName, LookPcs, CreatePcs, UnlinkPcs, LockedPcs, RenamePcs
  <2>4. Walk(c)
    BY <1>1, <1>2, <1>3, <2>1 DEF Walk, FirstName, LookPcs, CreatePcs, UnlinkPcs, LockedPcs, RenamePcs
  <2> QED BY <2>2, <2>3, <2>4 DEF CallOK
<1>7. dent' \in [Dentries -> Entry] /\ Lean(dent, dent') /\ Counts(dent', thr')
  <2>1. SameSlots(b, c)
    BY <1>1, <1>2, <1>3, PtrIs DEF SameSlots, Slots, Pointers, LookPcs, CreatePcs, UnlinkPcs, LockedPcs, RenamePcs
  <2> QED BY <1>2, <1>5, <2>1, KeepHandles DEF b, UnlinkCheck, SameTree
<1>8. LockChange(t, c) /\ LockTypes'
  <2>1. ContentsChange(t, c)
    <3>1. \A d \in Dentries : (Reads(c, d) <=> Reads(b, d)) /\ (Writes(c, d) <=> Writes(b, d))
      BY <1>1, <1>2, <1>3 DEF Reads, Writes, WantsW, First, Second, Pointers, LookPcs, CreatePcs, UnlinkPcs, LockedPcs, RenamePcs
    <3> QED BY <3>1, <1>2, ContentsKept DEF b, UnlinkCheck, SameLocks
  <2>2. MetaChange(t, c)
    <3>1. \A d \in Dentries : HasMeta(c, d) <=> HasMeta(b, d)
      BY <1>1, <1>2, <1>3 DEF HasMeta, First, Pointers, LookPcs, CreatePcs, UnlinkPcs, LockedPcs, RenamePcs
    <3> QED BY <3>1, MetaKept DEF b, UnlinkCheck, SameLocks
  <2>3. RenameChange(t, c)
    <3>1. Renames(c) <=> Renames(b)
      BY <1>1, <1>2, <1>3 DEF OpsMatch, Renames, LookPcs, CreatePcs, UnlinkPcs, LockedPcs, RenamePcs
    <3> QED BY <3>1, RenameKept DEF b, UnlinkCheck, SameLocks
  <2>4. LockTypes'
    BY <1>1, <1>2 DEF UnlinkCheck, SameLocks, LockTypes
  <2> QED BY <2>1, <2>2, <2>3, <2>4 DEF LockChange
<1>9. PlaceOK(c, dent)
  <2>1. c.op \in Changing => DirsOnPath(c, dent)
    BY <1>1, <1>2, <1>3 DEF PlaceOK, DirsOnPath
  <2>2. c.op \in Changing => LookupAt(c, dent)
    BY <1>1, <1>2, <1>3 DEF PlaceOK, LookupAt, Target, FirstName, LookPcs, CreatePcs, UnlinkPcs, LockedPcs, RenamePcs
  <2>3. c.op \in Changing => UnlinkAt(c, dent)
    <3>1. Target(b) = b.path
      BY <1>2 DEF Target
    <3>2. ResolveIn(dent, b.path) = b.cur /\ ResolveIn(dent, Front(b.path)) = b.par
      BY <1>1, <1>2, <3>1 DEF PlaceOK, LookupAt, UnlinkAt, Changing, UnlinkPcs
    <3> QED BY <1>2, <1>3, <3>2 DEF UnlinkAt, UnlinkPcs
  <2>4. c.op \in Changing => RenameAt(c, dent)
    BY <1>1, <1>2, <1>3 DEF PlaceOK, RenameAt, First, Pointers, LookPcs, CreatePcs, UnlinkPcs, LockedPcs, RenamePcs
  <2>5. c.pc = "lk3" => dent[c.par].kids[Head(c.want)] = c.cur
    BY <1>1, <1>3
  <2> QED BY <2>1, <2>2, <2>3, <2>4, <2>5 DEF PlaceOK
<1>11. SameCall(b, c) /\ uidNumber' \in Nat
  BY <1>1, <1>3 DEF SameCall, UnlinkCheck, SameTree
<1> QED BY <1>2, <1>4, <1>5, <1>6, <1>7, <1>8, <1>9, <1>11, LeanStep DEF b

\* ltfs_fsops_unlink takes the meta_lock of the directory.
LEMMA UnlinkLockInv ==
    ASSUME TreeInv, NEW t \in TreeThreads, UnlinkLock(t)
    PROVE  TreeInv'
<1> DEFINE b == thr[t]
           c == [b EXCEPT !.pc = "un2"]
<1>1. /\ b \in Call /\ OpsMatch(b) /\ Pointers(b) /\ Walk(b) /\ PlaceOK(b, dent)
      /\ thr \in [TreeThreads -> Call] /\ dent \in [Dentries -> Entry] /\ GoodTree(dent)
      /\ LockTypes /\ uidNumber \in Nat /\ Root \in Dentries /\ Null \notin Dentries
      /\ b.pc = "un1"
  BY Here DEF UnlinkLock
<1>2. /\ b.op # "none"
      /\ b.op = "unlink"
      /\ b.par \in Dentries
  BY <1>1 DEF OpsMatch, Pointers, Call, NulOr, LookPcs, CreatePcs, UnlinkPcs, LockedPcs, RenamePcs
<1>3. /\ c.op = b.op /\ c.path = b.path /\ c.to = b.to
      /\ c.want = b.want /\ c.cur = b.cur /\ c.par = b.par
      /\ c.fromdir = b.fromdir /\ c.todir = b.todir /\ c.fromdent = b.fromdent
      /\ c.todent = b.todent /\ c.val = b.val /\ c.ok = b.ok
      /\ c.fh = b.fh /\ c.pc = "un2"
  BY <1>1 DEF Call
<1>4. c \in Call
  <2>1. /\ "un2" \in Pcs
    BY <1>1, <1>2 DEF Call, NulOr, Pcs, LookPcs, CreatePcs, UnlinkPcs, LockedPcs, RenamePcs
  <2> QED BY <1>1, <2>1 DEF Call
<1>5. thr' = [thr EXCEPT ![t] = c] /\ Steps(thr, thr', t, c)
  BY <1>1 DEF UnlinkLock, Goto, Steps
<1> HIDE DEF b, c
<1>6. CallOK(c)
  <2>1. Target(c) = Target(b)
    BY <1>3 DEF Target
  <2>2. OpsMatch(c)
    BY <1>1, <1>2, <1>3, <2>1 DEF OpsMatch, Changing, LookPcs, CreatePcs, UnlinkPcs, LockedPcs, RenamePcs
  <2>3. Pointers(c)
    BY <1>1, <1>2, <1>3, <2>1 DEF OpsMatch, Pointers, First, FirstName, LookPcs, CreatePcs, UnlinkPcs, LockedPcs, RenamePcs
  <2>4. Walk(c)
    BY <1>1, <1>2, <1>3, <2>1 DEF Walk, FirstName, LookPcs, CreatePcs, UnlinkPcs, LockedPcs, RenamePcs
  <2> QED BY <2>2, <2>3, <2>4 DEF CallOK
<1>7. dent' \in [Dentries -> Entry] /\ Lean(dent, dent') /\ Counts(dent', thr')
  <2>1. SameSlots(b, c)
    BY <1>1, <1>2, <1>3, PtrIs DEF SameSlots, Slots, Pointers, LookPcs, CreatePcs, UnlinkPcs, LockedPcs, RenamePcs
  <2> QED BY <1>2, <1>5, <2>1, KeepHandles DEF b, UnlinkLock, SameTree
<1>8. LockChange(t, c) /\ LockTypes'
  <2>1. ContentsChange(t, c)
    <3>1. \A d \in Dentries : (Reads(c, d) <=> Reads(b, d)) /\ (Writes(c, d) <=> Writes(b, d))
      BY <1>1, <1>2, <1>3 DEF Reads, Writes, WantsW, First, Second, Pointers, LookPcs, CreatePcs, UnlinkPcs, LockedPcs, RenamePcs
    <3> QED BY <3>1, <1>2, ContentsKept DEF b, UnlinkLock, SameLocks
  <2>2. MetaChange(t, c)
    <3>1. \A x \in Dentries : HasMeta(c, x) <=> (x = b.par \/ HasMeta(b, x))
      BY <1>1, <1>2, <1>3 DEF HasMeta, LookPcs, CreatePcs, UnlinkPcs, LockedPcs, RenamePcs
    <3> QED BY <1>2, <3>1, TakesMeta DEF b, UnlinkLock
  <2>3. RenameChange(t, c)
    <3>1. Renames(c) <=> Renames(b)
      BY <1>1, <1>2, <1>3 DEF OpsMatch, Renames, LookPcs, CreatePcs, UnlinkPcs, LockedPcs, RenamePcs
    <3> QED BY <3>1, RenameKept DEF b, UnlinkLock, SameLocks
  <2>4. LockTypes'
    <3>1. meta' \in [Dentries -> Owner]
      BY <1>1, <1>2, TreeAssumption DEF UnlinkLock, b, LockTypes, Owner
    <3> QED BY <1>1, <3>1 DEF UnlinkLock, LockTypes
  <2> QED BY <2>1, <2>2, <2>3, <2>4 DEF LockChange
<1>9. PlaceOK(c, dent)
  <2>1. c.op \in Changing => DirsOnPath(c, dent)
    BY <1>1, <1>2, <1>3 DEF PlaceOK, DirsOnPath
  <2>2. c.op \in Changing => LookupAt(c, dent)
    BY <1>1, <1>2, <1>3 DEF PlaceOK, LookupAt, Target, FirstName, LookPcs, CreatePcs, UnlinkPcs, LockedPcs, RenamePcs
  <2>3. c.op \in Changing => UnlinkAt(c, dent)
    BY <1>1, <1>2, <1>3 DEF PlaceOK, UnlinkAt, LookPcs, CreatePcs, UnlinkPcs, LockedPcs, RenamePcs
  <2>4. c.op \in Changing => RenameAt(c, dent)
    BY <1>1, <1>2, <1>3 DEF PlaceOK, RenameAt, First, Pointers, LookPcs, CreatePcs, UnlinkPcs, LockedPcs, RenamePcs
  <2>5. c.pc = "lk3" => dent[c.par].kids[Head(c.want)] = c.cur
    BY <1>1, <1>3
  <2> QED BY <2>1, <2>2, <2>3, <2>4, <2>5 DEF PlaceOK
<1>11. SameCall(b, c) /\ uidNumber' \in Nat
  BY <1>1, <1>3 DEF SameCall, UnlinkLock, SameTree
<1> QED BY <1>2, <1>4, <1>5, <1>6, <1>7, <1>8, <1>9, <1>11, LeanStep DEF b

\* ltfs_fsops_unlink gives the directory back.
LEMMA UnlinkReleaseInv ==
    ASSUME TreeInv, NEW t \in TreeThreads, UnlinkRelease(t)
    PROVE  TreeInv'
<1> DEFINE b == thr[t]
           c == [b EXCEPT !.par = Null, !.pc = "close"]
<1>1. /\ b \in Call /\ OpsMatch(b) /\ Pointers(b) /\ Walk(b) /\ PlaceOK(b, dent)
      /\ thr \in [TreeThreads -> Call] /\ dent \in [Dentries -> Entry] /\ GoodTree(dent)
      /\ LockTypes /\ uidNumber \in Nat /\ Root \in Dentries /\ Null \notin Dentries
      /\ b.pc = "un3"
  BY Here DEF UnlinkRelease
<1>2. /\ b.op # "none"
      /\ b.op = "unlink"
      /\ b.par \in Dentries
  BY <1>1 DEF OpsMatch, Pointers, Call, NulOr, LookPcs, CreatePcs, UnlinkPcs, LockedPcs, RenamePcs
<1>3. /\ c.op = b.op /\ c.path = b.path /\ c.to = b.to
      /\ c.want = b.want /\ c.cur = b.cur /\ c.par = Null
      /\ c.fromdir = b.fromdir /\ c.todir = b.todir /\ c.fromdent = b.fromdent
      /\ c.todent = b.todent /\ c.val = b.val /\ c.ok = b.ok
      /\ c.fh = b.fh /\ c.pc = "close"
  BY <1>1 DEF Call
<1>4. c \in Call
  <2>1. /\ Null \in NulOr
        /\ "close" \in Pcs
    BY <1>1, <1>2 DEF Call, NulOr, Pcs, LookPcs, CreatePcs, UnlinkPcs, LockedPcs, RenamePcs
  <2> QED BY <1>1, <2>1 DEF Call
<1>5. thr' = [thr EXCEPT ![t] = c] /\ Steps(thr, thr', t, c)
  BY <1>1 DEF UnlinkRelease, Goto, Steps
<1> HIDE DEF b, c
<1>6. CallOK(c)
  <2>1. Target(c) = Target(b)
    BY <1>3 DEF Target
  <2>2. OpsMatch(c)
    BY <1>1, <1>2, <1>3, <2>1 DEF OpsMatch, Changing, LookPcs, CreatePcs, UnlinkPcs, LockedPcs, RenamePcs
  <2>3. Pointers(c)
    BY <1>1, <1>2, <1>3, <2>1 DEF OpsMatch, Pointers, First, FirstName, LookPcs, CreatePcs, UnlinkPcs, LockedPcs, RenamePcs
  <2>4. Walk(c)
    BY <1>1, <1>2, <1>3, <2>1 DEF Walk, FirstName, LookPcs, CreatePcs, UnlinkPcs, LockedPcs, RenamePcs
  <2> QED BY <2>2, <2>3, <2>4 DEF CallOK
<1>7. dent' \in [Dentries -> Entry] /\ Lean(dent, dent') /\ Counts(dent', thr')
  <2>1. GiveSlot(b, c, "par", b.par)
    BY <1>1, <1>2, <1>3, PtrIs DEF GiveSlot, TakeSlot, Slots, Pointers, LookPcs, CreatePcs, UnlinkPcs, LockedPcs, RenamePcs
  <2>2. b.par \in Dentries
    BY <1>2
  <2> QED BY <1>2, <1>5, <2>1, <2>2, ReleaseHandle DEF b, UnlinkRelease
<1>8. LockChange(t, c) /\ LockTypes'
  <2>1. ContentsChange(t, c)
    <3>1. \A d \in Dentries : (Reads(c, d) <=> Reads(b, d)) /\ (Writes(c, d) <=> Writes(b, d))
      BY <1>1, <1>2, <1>3 DEF Reads, Writes, WantsW, First, Second, Pointers, LookPcs, CreatePcs, UnlinkPcs, LockedPcs, RenamePcs
    <3> QED BY <3>1, <1>2, ContentsKept DEF b, UnlinkRelease, SameLocks
  <2>2. MetaChange(t, c)
    <3>1. \A x \in Dentries : ~HasMeta(c, x) /\ (HasMeta(b, x) <=> x = b.par)
      BY <1>1, <1>2, <1>3 DEF HasMeta, LookPcs, CreatePcs, UnlinkPcs, LockedPcs, RenamePcs
    <3> QED BY <1>2, <3>1, OpensMeta DEF b, UnlinkRelease
  <2>3. RenameChange(t, c)
    <3>1. Renames(c) <=> Renames(b)
      BY <1>1, <1>2, <1>3 DEF OpsMatch, Renames, LookPcs, CreatePcs, UnlinkPcs, LockedPcs, RenamePcs
    <3> QED BY <3>1, RenameKept DEF b, UnlinkRelease, SameLocks
  <2>4. LockTypes'
    <3>1. meta' \in [Dentries -> Owner]
      BY <1>1, <1>2, TreeAssumption DEF UnlinkRelease, b, LockTypes, Owner
    <3> QED BY <1>1, <3>1 DEF UnlinkRelease, LockTypes
  <2> QED BY <2>1, <2>2, <2>3, <2>4 DEF LockChange
<1>9. PlaceOK(c, dent)
  <2>1. c.op \in Changing => DirsOnPath(c, dent)
    BY <1>1, <1>2, <1>3 DEF PlaceOK, DirsOnPath
  <2>2. c.op \in Changing => LookupAt(c, dent)
    BY <1>1, <1>2, <1>3 DEF PlaceOK, LookupAt, Target, FirstName, LookPcs, CreatePcs, UnlinkPcs, LockedPcs, RenamePcs
  <2>3. c.op \in Changing => UnlinkAt(c, dent)
    BY <1>1, <1>2, <1>3 DEF PlaceOK, UnlinkAt, LookPcs, CreatePcs, UnlinkPcs, LockedPcs, RenamePcs
  <2>4. c.op \in Changing => RenameAt(c, dent)
    BY <1>1, <1>2, <1>3 DEF PlaceOK, RenameAt, First, Pointers, LookPcs, CreatePcs, UnlinkPcs, LockedPcs, RenamePcs
  <2>5. c.pc = "lk3" => dent[c.par].kids[Head(c.want)] = c.cur
    BY <1>1, <1>3
  <2> QED BY <2>1, <2>2, <2>3, <2>4, <2>5 DEF PlaceOK
<1>11. SameCall(b, c) /\ uidNumber' \in Nat
  BY <1>1, <1>3 DEF SameCall, UnlinkRelease, SameTree
<1> QED BY <1>2, <1>4, <1>5, <1>6, <1>7, <1>8, <1>9, <1>11, LeanStep DEF b

\* The directory has entries: numhandles of the parent is read without its meta_lock.
LEMMA UnlinkNotEmptyReadInv ==
    ASSUME TreeInv, NEW t \in TreeThreads, UnlinkNotEmptyRead(t)
    PROVE  TreeInv'
<1> DEFINE b == thr[t]
           c == [b EXCEPT !.val = dent[b.par].nh, !.pc = "un_ne2"]
<1>1. /\ b \in Call /\ OpsMatch(b) /\ Pointers(b) /\ Walk(b) /\ PlaceOK(b, dent)
      /\ thr \in [TreeThreads -> Call] /\ dent \in [Dentries -> Entry] /\ GoodTree(dent)
      /\ LockTypes /\ uidNumber \in Nat /\ Root \in Dentries /\ Null \notin Dentries
      /\ b.pc = "un_ne"
  BY Here DEF UnlinkNotEmptyRead
<1>2. /\ b.op # "none"
      /\ b.op = "unlink"
      /\ b.par \in Dentries
      /\ dent[b.par].nh \in Nat
  <2>1. b.op = "unlink" /\ b.par \in Dentries
    BY <1>1 DEF OpsMatch, Pointers, Call, NulOr, LookPcs, CreatePcs, UnlinkPcs, LockedPcs, RenamePcs
  <2>2. Ptr(thr[t], "par") = b.par /\ "par" \in Slots
    BY <1>1, PtrIs DEF Slots
  <2>3. Counts(dent, thr)
    BY DEF TreeInv
  <2>4. dent[b.par].alive
    BY <2>1, <2>2, <2>3, Held
  <2>5. dent[b.par].nh = Cardinality(Holders(thr, b.par)) + TreeHandle(dent, b.par)
    BY <2>1, <2>3, <2>4 DEF Counts
  <2>6. Cardinality(Holders(thr, b.par)) \in Nat /\ TreeHandle(dent, b.par) \in Nat
    BY SlotsFinite DEF TreeHandle
  <2> QED BY <2>1, <2>5, <2>6
<1>3. /\ c.op = b.op /\ c.path = b.path /\ c.to = b.to
      /\ c.want = b.want /\ c.cur = b.cur /\ c.par = b.par
      /\ c.fromdir = b.fromdir /\ c.todir = b.todir /\ c.fromdent = b.fromdent
      /\ c.todent = b.todent /\ c.val = dent[b.par].nh /\ c.ok = b.ok
      /\ c.fh = b.fh /\ c.pc = "un_ne2"
  BY <1>1 DEF Call
<1>4. c \in Call
  <2>1. /\ dent[b.par].nh \in Nat
        /\ "un_ne2" \in Pcs
    BY <1>1, <1>2 DEF Call, NulOr, Pcs, LookPcs, CreatePcs, UnlinkPcs, LockedPcs, RenamePcs
  <2> QED BY <1>1, <2>1 DEF Call
<1>5. thr' = [thr EXCEPT ![t] = c] /\ Steps(thr, thr', t, c)
  BY <1>1 DEF UnlinkNotEmptyRead, Goto, Steps
<1> HIDE DEF b, c
<1>6. CallOK(c)
  <2>1. Target(c) = Target(b)
    BY <1>3 DEF Target
  <2>2. OpsMatch(c)
    BY <1>1, <1>2, <1>3, <2>1 DEF OpsMatch, Changing, LookPcs, CreatePcs, UnlinkPcs, LockedPcs, RenamePcs
  <2>3. Pointers(c)
    BY <1>1, <1>2, <1>3, <2>1 DEF OpsMatch, Pointers, First, FirstName, LookPcs, CreatePcs, UnlinkPcs, LockedPcs, RenamePcs
  <2>4. Walk(c)
    BY <1>1, <1>2, <1>3, <2>1 DEF Walk, FirstName, LookPcs, CreatePcs, UnlinkPcs, LockedPcs, RenamePcs
  <2> QED BY <2>2, <2>3, <2>4 DEF CallOK
<1>7. dent' \in [Dentries -> Entry] /\ Lean(dent, dent') /\ Counts(dent', thr')
  <2>1. SameSlots(b, c)
    BY <1>1, <1>2, <1>3, PtrIs DEF SameSlots, Slots, Pointers, LookPcs, CreatePcs, UnlinkPcs, LockedPcs, RenamePcs
  <2> QED BY <1>2, <1>5, <2>1, KeepHandles DEF b, UnlinkNotEmptyRead, SameTree
<1>8. LockChange(t, c) /\ LockTypes'
  <2>1. ContentsChange(t, c)
    <3>1. \A d \in Dentries : (Reads(c, d) <=> Reads(b, d)) /\ (Writes(c, d) <=> Writes(b, d))
      BY <1>1, <1>2, <1>3 DEF Reads, Writes, WantsW, First, Second, Pointers, LookPcs, CreatePcs, UnlinkPcs, LockedPcs, RenamePcs
    <3> QED BY <3>1, <1>2, ContentsKept DEF b, UnlinkNotEmptyRead, SameLocks
  <2>2. MetaChange(t, c)
    <3>1. \A d \in Dentries : HasMeta(c, d) <=> HasMeta(b, d)
      BY <1>1, <1>2, <1>3 DEF HasMeta, First, Pointers, LookPcs, CreatePcs, UnlinkPcs, LockedPcs, RenamePcs
    <3> QED BY <3>1, MetaKept DEF b, UnlinkNotEmptyRead, SameLocks
  <2>3. RenameChange(t, c)
    <3>1. Renames(c) <=> Renames(b)
      BY <1>1, <1>2, <1>3 DEF OpsMatch, Renames, LookPcs, CreatePcs, UnlinkPcs, LockedPcs, RenamePcs
    <3> QED BY <3>1, RenameKept DEF b, UnlinkNotEmptyRead, SameLocks
  <2>4. LockTypes'
    BY <1>1, <1>2 DEF UnlinkNotEmptyRead, SameLocks, LockTypes
  <2> QED BY <2>1, <2>2, <2>3, <2>4 DEF LockChange
<1>9. PlaceOK(c, dent)
  <2>1. c.op \in Changing => DirsOnPath(c, dent)
    BY <1>1, <1>2, <1>3 DEF PlaceOK, DirsOnPath
  <2>2. c.op \in Changing => LookupAt(c, dent)
    BY <1>1, <1>2, <1>3 DEF PlaceOK, LookupAt, Target, FirstName, LookPcs, CreatePcs, UnlinkPcs, LockedPcs, RenamePcs
  <2>3. c.op \in Changing => UnlinkAt(c, dent)
    BY <1>1, <1>2, <1>3 DEF PlaceOK, UnlinkAt, LookPcs, CreatePcs, UnlinkPcs, LockedPcs, RenamePcs
  <2>4. c.op \in Changing => RenameAt(c, dent)
    BY <1>1, <1>2, <1>3 DEF PlaceOK, RenameAt, First, Pointers, LookPcs, CreatePcs, UnlinkPcs, LockedPcs, RenamePcs
  <2>5. c.pc = "lk3" => dent[c.par].kids[Head(c.want)] = c.cur
    BY <1>1, <1>3
  <2> QED BY <2>1, <2>2, <2>3, <2>4, <2>5 DEF PlaceOK
<1>11. SameCall(b, c) /\ uidNumber' \in Nat
  BY <1>1, <1>3 DEF SameCall, UnlinkNotEmptyRead, SameTree
<1> QED BY <1>2, <1>4, <1>5, <1>6, <1>7, <1>8, <1>9, <1>11, LeanStep DEF b

\* The directory has entries: numhandles of the parent is written back, less one,
\* and no other thread was in the way.
LEMMA UnlinkNotEmptyWriteInv ==
    ASSUME TreeInv, NEW t \in TreeThreads, UnlinkNotEmptyWrite(t), ~clobbered'
    PROVE  TreeInv'
<1> DEFINE b == thr[t]
           c == [b EXCEPT !.par = Null, !.pc = "close"]
<1>1. /\ b \in Call /\ OpsMatch(b) /\ Pointers(b) /\ Walk(b) /\ PlaceOK(b, dent)
      /\ thr \in [TreeThreads -> Call] /\ dent \in [Dentries -> Entry] /\ GoodTree(dent)
      /\ LockTypes /\ uidNumber \in Nat /\ Root \in Dentries /\ Null \notin Dentries
      /\ b.pc = "un_ne2"
  BY Here DEF UnlinkNotEmptyWrite
<1>2. /\ b.op # "none"
      /\ b.op = "unlink"
      /\ b.par \in Dentries
      /\ b.val = dent[b.par].nh
      /\ dent' = Release(dent, b.par)
      /\ meta[b.par] = NoThread
  <2>1. b.op = "unlink" /\ b.par \in Dentries /\ b.cur # Null
    BY <1>1 DEF OpsMatch, Pointers, Call, NulOr, LookPcs, CreatePcs, UnlinkPcs, LockedPcs, RenamePcs
  <2>2. b.val = dent[b.par].nh /\ meta[b.par] = NoThread
    BY DEF UnlinkNotEmptyWrite, MetaFree
  <2>3. dent' = Release(dent, b.par)
    BY <2>1, <2>2 DEF UnlinkNotEmptyWrite, Release
  <2> QED BY <2>1, <2>2, <2>3
<1>3. /\ c.op = b.op /\ c.path = b.path /\ c.to = b.to
      /\ c.want = b.want /\ c.cur = b.cur /\ c.par = Null
      /\ c.fromdir = b.fromdir /\ c.todir = b.todir /\ c.fromdent = b.fromdent
      /\ c.todent = b.todent /\ c.val = b.val /\ c.ok = b.ok
      /\ c.fh = b.fh /\ c.pc = "close"
  BY <1>1 DEF Call
<1>4. c \in Call
  <2>1. /\ Null \in NulOr
        /\ "close" \in Pcs
    BY <1>1, <1>2 DEF Call, NulOr, Pcs, LookPcs, CreatePcs, UnlinkPcs, LockedPcs, RenamePcs
  <2> QED BY <1>1, <2>1 DEF Call
<1>5. thr' = [thr EXCEPT ![t] = c] /\ Steps(thr, thr', t, c)
  BY <1>1 DEF UnlinkNotEmptyWrite, Goto, Steps
<1> HIDE DEF b, c
<1>6. CallOK(c)
  <2>1. Target(c) = Target(b)
    BY <1>3 DEF Target
  <2>2. OpsMatch(c)
    BY <1>1, <1>2, <1>3, <2>1 DEF OpsMatch, Changing, LookPcs, CreatePcs, UnlinkPcs, LockedPcs, RenamePcs
  <2>3. Pointers(c)
    BY <1>1, <1>2, <1>3, <2>1 DEF OpsMatch, Pointers, First, FirstName, LookPcs, CreatePcs, UnlinkPcs, LockedPcs, RenamePcs
  <2>4. Walk(c)
    BY <1>1, <1>2, <1>3, <2>1 DEF Walk, FirstName, LookPcs, CreatePcs, UnlinkPcs, LockedPcs, RenamePcs
  <2> QED BY <2>2, <2>3, <2>4 DEF CallOK
<1>7. dent' \in [Dentries -> Entry] /\ Lean(dent, dent') /\ Counts(dent', thr')
  <2>1. GiveSlot(b, c, "par", b.par)
    BY <1>1, <1>2, <1>3, PtrIs DEF GiveSlot, TakeSlot, Slots, Pointers, LookPcs, CreatePcs, UnlinkPcs, LockedPcs, RenamePcs
  <2>2. b.par \in Dentries
    BY <1>2
  <2> QED BY <1>2, <1>5, <2>1, <2>2, ReleaseHandle DEF b, UnlinkNotEmptyWrite
<1>8. LockChange(t, c) /\ LockTypes'
  <2>1. ContentsChange(t, c)
    <3>1. \A d \in Dentries : (Reads(c, d) <=> Reads(b, d)) /\ (Writes(c, d) <=> Writes(b, d))
      BY <1>1, <1>2, <1>3 DEF Reads, Writes, WantsW, First, Second, Pointers, LookPcs, CreatePcs, UnlinkPcs, LockedPcs, RenamePcs
    <3> QED BY <3>1, <1>2, ContentsKept DEF b, UnlinkNotEmptyWrite, SameLocks
  <2>2. MetaChange(t, c)
    <3>1. \A d \in Dentries : HasMeta(c, d) <=> HasMeta(b, d)
      BY <1>1, <1>2, <1>3 DEF HasMeta, First, Pointers, LookPcs, CreatePcs, UnlinkPcs, LockedPcs, RenamePcs
    <3>2. meta' = [meta EXCEPT ![b.par] = NoThread]
      BY DEF UnlinkNotEmptyWrite, b
    <3>3. UNCHANGED meta
      BY <1>1, <1>2, <3>2 DEF LockTypes
    <3> QED BY <3>1, <3>3, MetaKept DEF b
  <2>3. RenameChange(t, c)
    <3>1. Renames(c) <=> Renames(b)
      BY <1>1, <1>2, <1>3 DEF OpsMatch, Renames, LookPcs, CreatePcs, UnlinkPcs, LockedPcs, RenamePcs
    <3> QED BY <3>1, RenameKept DEF b, UnlinkNotEmptyWrite, SameLocks
  <2>4. LockTypes'
    <3>1. meta' \in [Dentries -> Owner]
      BY <1>1, <1>2, TreeAssumption DEF UnlinkNotEmptyWrite, b, LockTypes, Owner
    <3> QED BY <1>1, <3>1 DEF UnlinkNotEmptyWrite, LockTypes
  <2> QED BY <2>1, <2>2, <2>3, <2>4 DEF LockChange
<1>9. PlaceOK(c, dent)
  <2>1. c.op \in Changing => DirsOnPath(c, dent)
    BY <1>1, <1>2, <1>3 DEF PlaceOK, DirsOnPath
  <2>2. c.op \in Changing => LookupAt(c, dent)
    BY <1>1, <1>2, <1>3 DEF PlaceOK, LookupAt, Target, FirstName, LookPcs, CreatePcs, UnlinkPcs, LockedPcs, RenamePcs
  <2>3. c.op \in Changing => UnlinkAt(c, dent)
    BY <1>1, <1>2, <1>3 DEF PlaceOK, UnlinkAt, LookPcs, CreatePcs, UnlinkPcs, LockedPcs, RenamePcs
  <2>4. c.op \in Changing => RenameAt(c, dent)
    BY <1>1, <1>2, <1>3 DEF PlaceOK, RenameAt, First, Pointers, LookPcs, CreatePcs, UnlinkPcs, LockedPcs, RenamePcs
  <2>5. c.pc = "lk3" => dent[c.par].kids[Head(c.want)] = c.cur
    BY <1>1, <1>3
  <2> QED BY <2>1, <2>2, <2>3, <2>4, <2>5 DEF PlaceOK
<1>11. SameCall(b, c) /\ uidNumber' \in Nat
  BY <1>1, <1>3 DEF SameCall, UnlinkNotEmptyWrite, SameTree
<1> QED BY <1>2, <1>4, <1>5, <1>6, <1>7, <1>8, <1>9, <1>11, LeanStep DEF b

=============================================================================
