---------------------------- MODULE UnifiedSteps ----------------------------
(***************************************************************************)
(* What the unified scheduler does to the requests of files: counting and  *)
(* queueing them, the loop of _unified_flush_unlocked over the requests of *)
(* one file, errors and the drive, flushing one file and all files,        *)
(* writing to the index partition, and placement. Each lemma says what an  *)
(* operator of Unified leaves of the request lists, the counters, the tape *)
(* and the account of accepted data.                                       *)
(***************************************************************************)
EXTENDS UnifiedInductive, FiniteSetTheorems, NaturalsInduction, WellFoundedInduction, TLAPS

\* A non-empty set of naturals has a least member.
LEMMA LeastNumber ==
    ASSUME NEW T, T \subseteq Nat, T # {}
    PROVE  \E m \in T : \A k \in T : m <= k
<1> DEFINE R == {ss \in Nat \X Nat : ss[1] < ss[2]}
<1>0. IsWellFoundedOn(R, Nat)
  BY NatLessThanWellFounded DEF OpToRel
<1> HIDE DEF R
<1>1. PICK m \in T : \A y \in T : ~(<<y, m>> \in R)
  BY <1>0, WFMin
<1>2. \A y \in T : ~(y < m)
  BY <1>1 DEF R
<1> QED BY <1>2

\* Induction over the places of a list.
LEMMA Stepwise ==
    ASSUME NEW n \in Nat, NEW T, 0 \in T, \A i \in 1..n : i - 1 \in T => i \in T
    PROVE  \A i \in 0..n : i \in T
<1> DEFINE Bad == {i \in 0..n : i \notin T}
<1>1. ASSUME Bad # {} PROVE FALSE
  <2>1. Bad \subseteq Nat
    OBVIOUS
  <2> HIDE DEF Bad
  <2>2. PICK m \in Bad : \A k \in Bad : m <= k
    BY <1>1, <2>1, LeastNumber
  <2> USE DEF Bad
  <2>3. m \in 0..n /\ m \notin T /\ m # 0
    BY <2>2
  <2>4. m \in 1..n /\ m - 1 \in 0..n /\ m - 1 < m
    BY <2>3
  <2>5. m - 1 \in T
    <3> HIDE DEF Bad
    <3>1. m - 1 \notin Bad
      BY <2>2, <2>4
    <3> QED BY <2>4, <3>1 DEF Bad
  <2> QED BY <2>3, <2>4, <2>5
<1> QED BY <1>1

Steps(step, n, A) == step \in [1..n -> [A -> A]]
Runs(g, n, A, a, step) == g \in [0..n -> A] /\ g[0] = a /\ \A i \in 1..n : g[i] = step[i][g[i - 1]]

\* A list of steps can be taken one after the other.
LEMMA FoldRuns ==
    ASSUME NEW n \in Nat, NEW A, NEW a \in A, NEW step, Steps(step, n, A) PROVE \E g : Runs(g, n, A, a, step)
<1>0. step \in [1..n -> [A -> A]]
  BY DEF Steps
<1> DEFINE Run(f, m) == f \in [0..m -> A] /\ f[0] = a /\ \A i \in 1..m : f[i] = step[i][f[i - 1]]
           T == {m \in 0..n : \E f : Run(f, m)}
<1>1. 0 \in T
  <2> DEFINE g == [i \in 0..0 |-> a]
  <2>1. g \in [0..0 -> A] /\ g[0] = a /\ \A i \in 1..0 : g[i] = step[i][g[i - 1]]
    OBVIOUS
  <2> HIDE DEF g
  <2>2. Run(g, 0)
    BY <2>1
  <2> QED BY <2>2
<1>2. ASSUME NEW m \in 1..n, m - 1 \in T PROVE m \in T
  <2>1. m \in Nat /\ m - 1 \in Nat /\ m \in 0..n
    OBVIOUS
  <2>2. PICK f : Run(f, m - 1)
    BY <1>2
  <2> DEFINE g == [i \in 0..m |-> IF i = m THEN step[m][f[m - 1]] ELSE f[i]]
  <2>3. \A i \in 0..m : i # m => i \in 0..(m - 1)
    BY <2>1
  <2>4. \A i \in 0..(m - 1) : f[i] \in A
    BY <2>2
  <2>5. m - 1 \in 0..(m - 1)
    BY <2>1
  <2>6. step[m][f[m - 1]] \in A
    <3>1. step[m] \in [A -> A] /\ f[m - 1] \in A
      BY <1>0, <2>4, <2>5
    <3> QED BY <3>1
  <2>7. g \in [0..m -> A]
    BY <2>3, <2>4, <2>6
  <2>8. g[m] = step[m][f[m - 1]] /\ \A i \in 0..m : i # m => g[i] = f[i]
    BY <2>1
  <2> HIDE DEF g
  <2>9. g[0] = a
    <3>1. 0 \in 0..m /\ 0 # m
      OBVIOUS
    <3> QED BY <2>2, <2>8, <3>1
  <2>10. ASSUME NEW i \in 1..m PROVE g[i] = step[i][g[i - 1]]
    <3>1. i - 1 \in 0..m /\ i - 1 # m /\ i \in 0..m
      BY <2>1
    <3>2. g[i - 1] = f[i - 1]
      BY <2>8, <3>1
    <3>3. CASE i = m
      BY <2>8, <3>2, <3>3
    <3>4. CASE i # m
      <4>1. i \in 1..(m - 1)
        BY <2>1, <3>4
      <4>2. f[i] = step[i][f[i - 1]]
        BY <2>2, <4>1
      <4> QED BY <2>8, <3>1, <3>2, <3>4, <4>2
    <3> QED BY <3>3, <3>4
  <2>11. Run(g, m)
    BY <2>7, <2>9, <2>10
  <2> QED BY <2>1, <2>11
<1>3. \A m \in 0..n : m \in T
  <2> HIDE DEF T
  <2> QED BY <1>1, <1>2, Stepwise
<1>4. n \in T
  <2> HIDE DEF T
  <2>1. n \in 0..n
    OBVIOUS
  <2> QED BY <1>3, <2>1
<1>5. PICK f : Run(f, n)
  BY <1>4
<1> QED BY <1>5 DEF Runs

\* The greater of two naturals.
LEMMA MaxTwo ==
    ASSUME NEW a \in Nat, NEW b \in Nat
    PROVE  Max({a, b}) \in Nat /\ Max({a, b}) >= a /\ Max({a, b}) >= b /\ Max({a, b}) \in {a, b}
<1>1. \E x \in {a, b} : \A y \in {a, b} : x >= y
  <2>1. a >= b \/ b >= a
    OBVIOUS
  <2> QED BY <2>1
<1>2. Max({a, b}) \in {a, b} /\ \A y \in {a, b} : Max({a, b}) >= y
  BY <1>1 DEF Max
<1> QED BY <1>2

(* Counting requests. *)
Upto(reqs, i, states) == Cardinality({j \in 1..i : reqs[j].state \in states})

\* Counting place by place.
LEMMA UptoStep ==
    ASSUME NEW reqs, NEW states
    PROVE  /\ Upto(reqs, 0, states) = 0
           /\ \A i \in Nat : Upto(reqs, i, states) \in Nat
           /\ \A i \in Nat \ {0} : Upto(reqs, i, states) =
                 Upto(reqs, i - 1, states) + (IF reqs[i].state \in states THEN 1 ELSE 0)
<1> DEFINE S(i) == {j \in 1..i : reqs[j].state \in states}
<1>1. ASSUME NEW i \in Nat PROVE IsFiniteSet(S(i)) /\ Cardinality(S(i)) \in Nat
  <2>1. IsFiniteSet(1..i)
    BY FS_Interval
  <2>2. S(i) \subseteq 1..i
    OBVIOUS
  <2>3. IsFiniteSet(S(i))
    <3> HIDE DEF S
    <3> QED BY <2>1, <2>2, FS_Subset
  <2> QED BY <2>3, FS_CardinalityType
<1>2. S(0) = {}
  OBVIOUS
<1>3. ASSUME NEW i \in Nat \ {0}
      PROVE  Cardinality(S(i)) = Cardinality(S(i - 1)) + (IF reqs[i].state \in states THEN 1 ELSE 0)
  <2>1. i - 1 \in Nat /\ i \in 1..i /\ i \notin S(i - 1) /\ \A j \in 1..i : j = i \/ j \in 1..(i - 1)
    OBVIOUS
  <2>2. 1..(i - 1) \subseteq 1..i
    OBVIOUS
  <2>3. CASE reqs[i].state \in states
    <3>1. S(i) = S(i - 1) \cup {i}
      BY <2>1, <2>2, <2>3
    <3> HIDE DEF S
    <3>2. IsFiniteSet(S(i - 1))
      BY <1>1, <2>1
    <3>3. Cardinality(S(i - 1) \cup {i}) = Cardinality(S(i - 1)) + 1
      BY <2>1, <3>2, FS_AddElement
    <3> QED BY <2>3, <3>1, <3>3
  <2>4. CASE reqs[i].state \notin states
    <3>1. S(i) = S(i - 1)
      BY <2>1, <2>2, <2>4
    <3> HIDE DEF S
    <3>2. Cardinality(S(i - 1)) \in Nat
      BY <1>1, <2>1
    <3> QED BY <2>4, <3>1, <3>2
  <2> QED BY <2>3, <2>4
<1> HIDE DEF S
<1>4. Cardinality(S(0)) = 0
  BY <1>2, FS_EmptySet
<1>5. \A i : Upto(reqs, i, states) = Cardinality(S(i))
  BY DEF Upto, S
<1> QED BY <1>1, <1>3, <1>4, <1>5

\* NumIn counts the whole list.
LEMMA NumInUpto ==
    ASSUME NEW reqs \in Seq(Req), NEW states
    PROVE  NumIn(reqs, states) = Upto(reqs, Len(reqs), states) /\ NumIn(reqs, states) \in Nat
<1>1. DOMAIN reqs = 1..Len(reqs) /\ Len(reqs) \in Nat
  OBVIOUS
<1>2. NumIn(reqs, states) = Upto(reqs, Len(reqs), states)
  BY <1>1 DEF NumIn, Upto
<1>3. \A i \in Nat : Upto(reqs, i, states) \in Nat
  BY UptoStep
<1> QED BY <1>1, <1>2, <1>3

\* A longer prefix holds no fewer requests in the states.
LEMMA UptoGrows ==
    ASSUME NEW reqs, NEW states, NEW n \in Nat
    PROVE  \A i \in 0..n : Upto(reqs, i, states) <= Upto(reqs, n, states)
<1> DEFINE T == {k \in 0..n : Upto(reqs, n - k, states) <= Upto(reqs, n, states)}
<1>1. 0 \in T
  <2>0. \A i \in Nat : Upto(reqs, i, states) \in Nat
    BY UptoStep
  <2>1. Upto(reqs, n, states) \in Nat /\ n - 0 = n
    BY <2>0
  <2>2. Upto(reqs, n - 0, states) <= Upto(reqs, n, states)
    BY <2>1
  <2> QED BY <2>2
<1>2. ASSUME NEW k \in 1..n, k - 1 \in T PROVE k \in T
  <2> DEFINE m == n - (k - 1)
  <2>1. m \in Nat \ {0} /\ m - 1 = n - k /\ n - k \in Nat /\ m \in Nat
    OBVIOUS
  <2>2. Upto(reqs, m, states) <= Upto(reqs, n, states)
    BY <1>2
  <2> HIDE DEF m
  <2>3. Upto(reqs, m, states) = Upto(reqs, m - 1, states) + (IF reqs[m].state \in states THEN 1 ELSE 0)
    BY <2>1, UptoStep, ZenonT(30)
  <2>4. Upto(reqs, m - 1, states) \in Nat /\ Upto(reqs, n, states) \in Nat /\ Upto(reqs, m, states) \in Nat
    BY <2>1, UptoStep
  <2>5. Upto(reqs, n - k, states) <= Upto(reqs, n, states)
    <3>1. Upto(reqs, n - k, states) = Upto(reqs, m - 1, states)
      BY <2>1
    <3> QED BY <2>2, <2>3, <2>4, <3>1
  <2> QED BY <2>5
<1>3. \A k \in 0..n : k \in T
  <2> HIDE DEF T
  <2> QED BY <1>1, <1>2, Stepwise
<1>4. ASSUME NEW i \in 0..n PROVE Upto(reqs, i, states) <= Upto(reqs, n, states)
  <2>1. n - i \in 0..n /\ n - (n - i) = i
    OBVIOUS
  <2>2. Upto(reqs, n - (n - i), states) <= Upto(reqs, n, states)
    BY <1>3, <2>1
  <2> QED BY <2>1, <2>2
<1> QED BY <1>4

\* Lists that agree on who is in the states have the same count.
LEMMA UptoSame ==
    ASSUME NEW reqs, NEW reqs2, NEW states, NEW n \in Nat,
           \A i \in 1..n : reqs[i].state \in states <=> reqs2[i].state \in states
    PROVE  Upto(reqs, n, states) = Upto(reqs2, n, states)
<1>1. {j \in 1..n : reqs[j].state \in states} = {j \in 1..n : reqs2[j].state \in states}
  OBVIOUS
<1> QED BY <1>1 DEF Upto

\* The empty list has nothing to count.
LEMMA NumInEmpty == \A states : NumIn(<<>>, states) = 0
<1>1. TAKE states
<1>2. {i \in DOMAIN <<>> : <<>>[i].state \in states} = {}
  OBVIOUS
<1> QED BY <1>2, FS_EmptySet DEF NumIn

\* One request more.
LEMMA NumInAppend ==
    ASSUME NEW reqs \in Seq(Req), NEW r \in Req, NEW states
    PROVE  NumIn(Append(reqs, r), states) = NumIn(reqs, states) + (IF r.state \in states THEN 1 ELSE 0)
<1> DEFINE n == Len(reqs)  new == Append(reqs, r)
<1>1. n \in Nat /\ new \in Seq(Req) /\ Len(new) = n + 1 /\ new[n + 1] = r /\ \A i \in 1..n : new[i] = reqs[i]
  OBVIOUS
<1> HIDE DEF new
<1>2. NumIn(new, states) = Upto(new, n + 1, states) /\ NumIn(reqs, states) = Upto(reqs, n, states)
  BY <1>1, NumInUpto
<1> HIDE DEF n
<1>3. n + 1 \in Nat \ {0} /\ (n + 1) - 1 = n
  BY <1>1
<1>4. Upto(new, n + 1, states) = Upto(new, (n + 1) - 1, states) + (IF new[n + 1].state \in states THEN 1 ELSE 0)
  BY <1>3, UptoStep, ZenonT(30)
<1>5. Upto(new, n, states) = Upto(reqs, n, states)
  BY <1>1, UptoSame
<1> QED BY <1>1, <1>2, <1>3, <1>4, <1>5 DEF new

\* The same, for whole lists.
LEMMA NumInSame ==
    ASSUME NEW reqs \in Seq(Req), NEW reqs2 \in Seq(Req), Len(reqs) = Len(reqs2), NEW states,
           \A i \in 1..Len(reqs) : reqs[i].state \in states <=> reqs2[i].state \in states
    PROVE  NumIn(reqs, states) = NumIn(reqs2, states)
<1>1. Len(reqs) \in Nat
  OBVIOUS
<1> QED BY <1>1, UptoSame, NumInUpto

\* The count is zero if and only if no request is in the states.
LEMMA NumInZero ==
    ASSUME NEW reqs \in Seq(Req), NEW states
    PROVE  NumIn(reqs, states) = 0 <=> \A i \in DOMAIN reqs : reqs[i].state \notin states
<1> DEFINE S == {i \in DOMAIN reqs : reqs[i].state \in states}
<1>1. DOMAIN reqs = 1..Len(reqs) /\ Len(reqs) \in Nat
  OBVIOUS
<1>2. IsFiniteSet(1..Len(reqs))
  BY <1>1, FS_Interval
<1>3. S \subseteq 1..Len(reqs)
  BY <1>1
<1> HIDE DEF S
<1>4. IsFiniteSet(S)
  BY <1>2, <1>3, FS_Subset
<1>5. Cardinality(S) = 0 <=> S = {}
  BY <1>4, FS_EmptySet
<1> QED BY <1>5 DEF NumIn, S

\* A request in the states makes the count positive.
LEMMA NumInPositive ==
    ASSUME NEW reqs \in Seq(Req), NEW states, NEW i \in DOMAIN reqs, reqs[i].state \in states
    PROVE  NumIn(reqs, states) > 0
<1>1. NumIn(reqs, states) # 0 /\ NumIn(reqs, states) \in Nat
  BY NumInZero, NumInUpto
<1> QED BY <1>1

(* Sums. *)
LEMMA TotalUpdate ==
    ASSUME NEW m \in [Files -> Nat], NEW m2 \in [Files -> Nat], NEW f \in Files,
           \A g \in Files \ {f} : m2[g] = m[g]
    PROVE  Total(m) \in Nat /\ Total(m2) \in Nat /\ Total(m2) = Total(m) - m[f] + m2[f]
<1> DEFINE U(x) == UNION {{g} \X (1..x[g]) : g \in Files}
           V(x) == {f} \X (1..x[f])
           Rest0 == UNION {{g} \X (1..m[g]) : g \in Files \ {f}}
<1>1. ASSUME NEW k \in Nat PROVE IsFiniteSet({f} \X (1..k)) /\ Cardinality({f} \X (1..k)) = k
  <2>1. IsFiniteSet({f}) /\ Cardinality({f}) = 1
    BY FS_Singleton
  <2>2. IsFiniteSet(1..k) /\ Cardinality(1..k) = k
    <3>1. IsFiniteSet(1..k)
      BY FS_Interval
    <3>2. 1 \in Int /\ k \in Int
      OBVIOUS
    <3>3. Cardinality(1..k) = IF 1 > k THEN 0 ELSE k-1+1
      BY <3>2, FS_Interval, Zenon
    <3> QED BY <3>1, <3>3
  <2>3. IsFiniteSet({f} \X (1..k)) /\ Cardinality({f} \X (1..k)) = Cardinality({f}) * Cardinality(1..k)
    BY <2>1, <2>2, FS_Product
  <2> QED BY <2>1, <2>2, <2>3
<1>2. IsFiniteSet(Rest0)
  <2> DEFINE P == {{g} \X (1..m[g]) : g \in Files \ {f}}
  <2>1. IsFiniteSet(Files \ {f})
    BY ThreadsOK, FS_Subset
  <2>2. IsFiniteSet(P)
    <3> DEFINE h == [g \in Files \ {f} |-> {g} \X (1..m[g])]
    <3>1. P = {h[g] : g \in Files \ {f}}
      OBVIOUS
    <3>2. h \in [Files \ {f} -> P]
      OBVIOUS
    <3>3. h \in Surjection(Files \ {f}, P)
      BY <3>1, <3>2 DEF Surjection
    <3> HIDE DEF h, P
    <3> QED BY <2>1, <3>3, FS_Surjection
  <2>3. ASSUME NEW S \in P PROVE IsFiniteSet(S)
    <3>1. PICK g \in Files \ {f} : S = {g} \X (1..m[g])
      OBVIOUS
    <3>2. IsFiniteSet({g}) /\ IsFiniteSet(1..m[g])
      <4>1. m[g] \in Nat
        BY <3>1
      <4>2. IsFiniteSet(1..m[g])
        BY <4>1, FS_Interval
      <4> QED BY <4>2, FS_Singleton
    <3> QED BY <3>1, <3>2, FS_Product
  <2> HIDE DEF P
  <2>4. IsFiniteSet(UNION P)
    BY <2>2, <2>3, FS_UNION
  <2> QED BY <2>4 DEF P
<1>3. ASSUME NEW x \in [Files -> Nat], \A g \in Files \ {f} : x[g] = m[g]
      PROVE  Cardinality(U(x)) \in Nat /\ Cardinality(U(x)) = Cardinality(Rest0) + x[f] /\ Cardinality(Rest0) \in Nat
  <2>1. U(x) = Rest0 \cup V(x)
    <3>1. UNION {{g} \X (1..x[g]) : g \in Files \ {f}} = Rest0
      BY <1>3
    <3>2. {{g} \X (1..x[g]) : g \in Files} = {{g} \X (1..x[g]) : g \in Files \ {f}} \cup {V(x)}
      OBVIOUS
    <3> HIDE DEF V, Rest0
    <3> QED BY <3>1, <3>2
  <2>2. Rest0 \cap V(x) = {}
    OBVIOUS
  <2>3. x[f] \in Nat
    OBVIOUS
  <2>4. IsFiniteSet(V(x)) /\ Cardinality(V(x)) = x[f]
    BY <1>1, <2>3
  <2> HIDE DEF U, V, Rest0
  <2>5. Cardinality(Rest0 \cup V(x)) = Cardinality(Rest0) + Cardinality(V(x)) - Cardinality(Rest0 \cap V(x))
    BY <1>2, <2>4, FS_Union
  <2>6. Cardinality(Rest0) \in Nat /\ Cardinality({}) = 0
    BY <1>2, FS_CardinalityType, FS_EmptySet
  <2>7. Cardinality(U(x)) = Cardinality(Rest0 \cup V(x))
    BY <2>1
  <2>8. Cardinality(Rest0 \cap V(x)) = 0
    BY <2>2, <2>6
  <2> DEFINE a == Cardinality(U(x))  b == Cardinality(Rest0)  e == Cardinality(Rest0 \cup V(x))
             v == Cardinality(V(x))  z == Cardinality(Rest0 \cap V(x))
  <2>9. e = b + v - z /\ a = e /\ z = 0 /\ v = x[f] /\ b \in Nat
    BY <2>4, <2>5, <2>6, <2>7, <2>8
  <2> HIDE DEF a, b, e, v, z
  <2>10. a \in Nat /\ a = b + x[f] /\ b \in Nat
    BY <2>3, <2>9
  <2> QED BY <2>10 DEF a, b
<1> HIDE DEF U, Rest0
<1>4. Cardinality(U(m)) \in Nat /\ Cardinality(U(m)) = Cardinality(Rest0) + m[f]
  BY <1>3
<1>5. Cardinality(U(m2)) \in Nat /\ Cardinality(U(m2)) = Cardinality(Rest0) + m2[f] /\ Cardinality(Rest0) \in Nat
  BY <1>3
<1>6. Total(m) = Cardinality(U(m)) /\ Total(m2) = Cardinality(U(m2)) /\ m[f] \in Nat /\ m2[f] \in Nat
  BY DEF Total, U
<1> QED BY <1>4, <1>5, <1>6

\* The greatest of a file's size and the ends of its requests.
LEMMA MaxEnds ==
    ASSUME NEW reqs \in Seq(Req), NEW z \in Nat
    PROVE  LET m == Max({End(reqs[i]) : i \in DOMAIN reqs} \cup {z})
           IN  m \in Nat /\ \A i \in DOMAIN reqs : End(reqs[i]) <= m
<1> DEFINE E(k) == {End(reqs[i]) : i \in 1..k} \cup {z}
           n == Len(reqs)
           T == {k \in 0..n : \E x \in E(k) : \A y \in E(k) : x >= y}
<1>1. n \in Nat /\ DOMAIN reqs = 1..n /\ \A i \in 1..n : End(reqs[i]) \in Nat
  <2>1. n \in Nat /\ DOMAIN reqs = 1..n /\ \A i \in 1..n : reqs[i] \in Req
    OBVIOUS
  <2> HIDE DEF n
  <2>2. \A r \in Req : r.off \in Nat /\ r.n \in Nat
    BY DEF Req
  <2>3. \A r \in Req : End(r) \in Nat
    BY <2>2 DEF End
  <2> QED BY <2>1, <2>3
<1> HIDE DEF n
<1>2. 0 \in T
  <2>1. E(0) = {z}
    OBVIOUS
  <2>2. \E x \in E(0) : \A y \in E(0) : x >= y
    BY <2>1
  <2> QED BY <1>1, <2>2
<1>3. ASSUME NEW k \in 1..n, k - 1 \in T PROVE k \in T
  <2>0. k \in Nat /\ k - 1 \in Nat /\ k \in 0..n
    BY <1>1
  <2>1. PICK x \in E(k - 1) : \A y \in E(k - 1) : x >= y
    BY <1>3
  <2>2. E(k) = E(k - 1) \cup {End(reqs[k])}
    <3>1. 1..k = 1..(k - 1) \cup {k}
      BY <2>0
    <3> QED BY <3>1
  <2>3. E(k) \subseteq Nat /\ End(reqs[k]) \in Nat /\ E(k - 1) \subseteq Nat
    <3>1. 1..k \subseteq 1..n /\ 1..(k - 1) \subseteq 1..n
      BY <2>0, <1>1
    <3> QED BY <1>1, <3>1
  <2> HIDE DEF E
  <2>4. CASE x >= End(reqs[k])
    <3>1. x \in E(k) /\ \A y \in E(k) : x >= y
      BY <2>1, <2>2, <2>3, <2>4
    <3> QED BY <2>0, <3>1
  <2>5. CASE ~(x >= End(reqs[k]))
    <3>1. End(reqs[k]) \in E(k) /\ \A y \in E(k) : End(reqs[k]) >= y
      BY <2>1, <2>2, <2>3, <2>5
    <3> QED BY <2>0, <3>1
  <2> QED BY <2>4, <2>5
<1>4. n \in T
  <2> HIDE DEF T
  <2>1. \A k \in 0..n : k \in T
    BY <1>1, <1>2, <1>3, Stepwise
  <2> QED BY <1>1, <2>1
<1>5. E(n) = {End(reqs[i]) : i \in DOMAIN reqs} \cup {z} /\ E(n) \subseteq Nat
  BY <1>1
<1>6. \E x \in E(n) : \A y \in E(n) : x >= y
  BY <1>4
<1> HIDE DEF E
<1>7. Max(E(n)) \in E(n) /\ \A y \in E(n) : Max(E(n)) >= y
  BY <1>6 DEF Max
<1>8. \A i \in DOMAIN reqs : End(reqs[i]) \in E(n) /\ End(reqs[i]) \in Nat
  BY <1>1, <1>5
<1>9. Max(E(n)) \in Nat /\ \A i \in DOMAIN reqs : End(reqs[i]) <= Max(E(n))
  BY <1>5, <1>7, <1>8
<1> QED BY <1>5, <1>9

(* The queue counters. *)
Weight(st, q, f) == IF Counted(st, q, f) THEN st.dpr[f].inq[q] ELSE 0
SameRest(st, st2) ==
    /\ st2.ext_queue = st.ext_queue /\ st2.free = st.free /\ st2.tape = st.tape /\ st2.size = st.size
    /\ st2.less = st.less /\ st2.broken = st.broken /\ st2.nfaults = st.nfaults /\ st2.written = st.written
SameDpr(d, d2) ==
    /\ d2.on = d.on /\ d2.reqs = d.reqs /\ d2.file_size = d.file_size /\ d2.write_ip = d.write_ip
    /\ d2.write_error = d.write_error /\ d2.alt = d.alt
QStep(st, st2, f) ==
    /\ st2 \in State /\ Books(st2)
    /\ SameRest(st, st2) /\ SameDpr(st.dpr[f], st2.dpr[f])
    /\ \A g \in Files \ {f} : st2.dpr[g] = st.dpr[g]
Requeue(st, f, q, Q, n, c) == [st EXCEPT !.queue[q] = Q, !.dpr[f].inq[q] = n, !.count[q] = c]
Requeued(st, st2, f, q, Q, n, c) ==
    /\ st2 \in State
    /\ SameRest(st, st2) /\ SameDpr(st.dpr[f], st2.dpr[f])
    /\ st2.dpr \in [Files -> Dpr]
    /\ \A g \in Files \ {f} : st2.dpr[g] = st.dpr[g]
    /\ st2.dpr[f].inq = [st.dpr[f].inq EXCEPT ![q] = n]
    /\ st2.queue = [st.queue EXCEPT ![q] = Q]
    /\ st2.count = [st.count EXCEPT ![q] = c]

\* The fields of the protected state have their types.
LEMMA StateFields ==
    ASSUME NEW st \in State
    PROVE  /\ st.dpr \in [Files -> Dpr] /\ st.queue \in [Queues -> SUBSET Files] /\ st.ext_queue \in SUBSET Files
           /\ st.count \in [Queues -> Int] /\ st.free \in Nat /\ st.tape \in [Files -> SUBSET Pos]
           /\ st.size \in [Files -> Nat] /\ st.less \in SUBSET {"DP", "IP"} /\ st.broken \in BOOLEAN
           /\ st.nfaults \in Nat /\ st.written \in [Files -> SUBSET Pos]
BY DEF State

\* The fields of a dentry_priv have their types.
LEMMA DprFields ==
    ASSUME NEW d \in Dpr
    PROVE  /\ d.on \in BOOLEAN /\ d.reqs \in Seq(Req) /\ d.file_size \in Nat /\ d.write_ip \in BOOLEAN
           /\ d.write_error \in Errors /\ d.alt \in BOOLEAN /\ d.inq \in [Queues -> Nat]
BY DEF Dpr

\* What Requeue leaves of every field.
LEMMA RequeueFields ==
    ASSUME NEW st \in State, NEW f \in Files, NEW q \in Queues, NEW Q \in SUBSET Files, NEW n \in Nat, NEW c \in Int
    PROVE  Requeued(st, Requeue(st, f, q, Q, n, c), f, q, Q, n, c)
<1> DEFINE d2 == [st.dpr[f] EXCEPT !.inq = [st.dpr[f].inq EXCEPT ![q] = n]]
           D2 == [st.dpr EXCEPT ![f] = d2]
           st2 == Requeue(st, f, q, Q, n, c)
<1>1. d2 \in Dpr /\ SameDpr(st.dpr[f], d2) /\ d2.inq = [st.dpr[f].inq EXCEPT ![q] = n]
  <2>1. st.dpr[f] \in Dpr
    BY StateFields
  <2>2. [st.dpr[f].inq EXCEPT ![q] = n] \in [Queues -> Nat]
    BY <2>1, DprFields
  <2> QED BY <2>1, <2>2 DEF Dpr, SameDpr
<1>2. D2 \in [Files -> Dpr] /\ D2[f] = d2 /\ \A g \in Files \ {f} : D2[g] = st.dpr[g]
  <2> HIDE DEF d2
  <2> QED BY <1>1, StateFields
<1>3. st2 = [st EXCEPT !.queue = [st.queue EXCEPT ![q] = Q], !.dpr = D2, !.count = [st.count EXCEPT ![q] = c]]
  BY DEF Requeue, State
<1>4. [st.queue EXCEPT ![q] = Q] \in [Queues -> SUBSET Files] /\ [st.count EXCEPT ![q] = c] \in [Queues -> Int]
  BY StateFields
<1> HIDE DEF D2, st2
<1>5. /\ st2 \in State /\ SameRest(st, st2) /\ st2.dpr = D2 /\ st2.queue = [st.queue EXCEPT ![q] = Q]
      /\ st2.count = [st.count EXCEPT ![q] = c]
  BY <1>2, <1>3, <1>4 DEF State, SameRest
<1> HIDE DEF d2
<1>6. SameDpr(st.dpr[f], st2.dpr[f]) /\ st2.dpr[f].inq = [st.dpr[f].inq EXCEPT ![q] = n]
  BY <1>1, <1>2, <1>5
<1> QED BY <1>2, <1>5, <1>6 DEF st2, Requeued

\* The counters of all files stay exact if those of f do and the totals follow.
LEMMA BooksStep ==
    ASSUME NEW st \in State, NEW st2 \in State, NEW f \in Files, Books(st),
           \A g \in Files \ {f} : st2.dpr[g] = st.dpr[g] /\ \A q \in Queues : g \in st2.queue[q] <=> g \in st.queue[q],
           \A q \in Queues : f \in st2.queue[q] <=> st2.dpr[f].inq[q] > 0,
           \A q \in Queues : st2.count[q] = st.count[q] - Weight(st, q, f) + Weight(st2, q, f)
    PROVE  Books(st2)
<1>1. \A g \in Files, q \in Queues : g \in st2.queue[q] <=> st2.dpr[g].inq[q] > 0
  BY DEF Books
<1>2. ASSUME NEW q \in Queues
      PROVE  st2.count[q] = Total([g \in Files |-> IF Counted(st2, q, g) THEN st2.dpr[g].inq[q] ELSE 0])
  <2> DEFINE m == [g \in Files |-> Weight(st, q, g)]
             m2 == [g \in Files |-> Weight(st2, q, g)]
  <2>1. \A g \in Files : st.dpr[g].inq[q] \in Nat /\ st2.dpr[g].inq[q] \in Nat
    <3>1. \A g \in Files : st.dpr[g] \in Dpr /\ st2.dpr[g] \in Dpr
      BY StateFields
    <3> QED BY <3>1, DprFields
  <2>2. m \in [Files -> Nat] /\ m2 \in [Files -> Nat]
    BY <2>1 DEF Weight
  <2>3. \A g \in Files \ {f} : m2[g] = m[g]
    BY DEF Weight, Counted
  <2>4. m[f] = Weight(st, q, f) /\ m2[f] = Weight(st2, q, f)
    OBVIOUS
  <2>5. m2 = [g \in Files |-> IF Counted(st2, q, g) THEN st2.dpr[g].inq[q] ELSE 0]
    BY DEF Weight
  <2>6. m = [g \in Files |-> IF Counted(st, q, g) THEN st.dpr[g].inq[q] ELSE 0]
    BY DEF Weight
  <2> HIDE DEF m, m2
  <2>7. st.count[q] = Total(m)
    BY <2>6 DEF Books
  <2>8. Total(m2) = Total(m) - m[f] + m2[f]
    BY <2>2, <2>3, TotalUpdate
  <2>9. st2.count[q] = st.count[q] - Weight(st, q, f) + Weight(st2, q, f)
    OBVIOUS
  <2> QED BY <2>4, <2>5, <2>7, <2>8, <2>9
<1> QED BY <1>1, <1>2 DEF Books

\* f gets n requests in queue q instead of those it had.
LEMMA RequeueOK ==
    ASSUME NEW st \in State, NEW f \in Files, NEW q \in Queues, NEW Q \in SUBSET Files, NEW n \in Nat, NEW c \in Int,
           Books(st),
           \A g \in Files \ {f} : g \in Q <=> g \in st.queue[q],
           f \in Q <=> n > 0,
           c = st.count[q] - Weight(st, q, f) + (IF Counted(st, q, f) THEN n ELSE 0)
    PROVE  /\ QStep(st, Requeue(st, f, q, Q, n, c), f)
           /\ Requeue(st, f, q, Q, n, c).dpr[f].inq = [st.dpr[f].inq EXCEPT ![q] = n]
<1> DEFINE st2 == Requeue(st, f, q, Q, n, c)
<1>1. /\ st2 \in State
      /\ SameRest(st, st2) /\ SameDpr(st.dpr[f], st2.dpr[f])
      /\ st2.dpr \in [Files -> Dpr]
      /\ \A g \in Files \ {f} : st2.dpr[g] = st.dpr[g]
      /\ st2.dpr[f].inq = [st.dpr[f].inq EXCEPT ![q] = n]
      /\ st2.queue = [st.queue EXCEPT ![q] = Q]
      /\ st2.count = [st.count EXCEPT ![q] = c]
  <2>1. Requeued(st, Requeue(st, f, q, Q, n, c), f, q, Q, n, c)
    BY RequeueFields
  <2> HIDE DEF st2
  <2>2. Requeued(st, st2, f, q, Q, n, c)
    BY <2>1 DEF st2
  <2> QED BY <2>2 DEF Requeued
<1> HIDE DEF st2
<1>2. st.dpr[f].inq \in [Queues -> Nat] /\ st.queue \in [Queues -> SUBSET Files] /\ st.count \in [Queues -> Int]
  <2>1. st.dpr[f] \in Dpr
    BY StateFields
  <2> QED BY <2>1, StateFields, DprFields
<1>3. \A g \in Files \ {f} : st2.dpr[g] = st.dpr[g] /\ \A p \in Queues : g \in st2.queue[p] <=> g \in st.queue[p]
  BY <1>1, <1>2
<1>4. \A p \in Queues : f \in st2.queue[p] <=> st2.dpr[f].inq[p] > 0
  BY <1>1, <1>2 DEF Books
<1>5. ASSUME NEW p \in Queues
      PROVE  st2.count[p] = st.count[p] - Weight(st, p, f) + Weight(st2, p, f)
  <2>1. Counted(st2, p, f) <=> Counted(st, p, f)
    BY <1>1 DEF SameDpr, Counted
  <2>2. CASE p = q
    <3>1. st2.dpr[f].inq[p] = n /\ st2.count[p] = c
      BY <1>1, <1>2, <2>2
    <3> QED BY <2>1, <2>2, <3>1 DEF Weight
  <2>3. CASE p # q
    <3>1. st2.dpr[f].inq[p] = st.dpr[f].inq[p] /\ st2.count[p] = st.count[p] /\ st.count[p] \in Int
      BY <1>1, <1>2, <2>3
    <3>2. Weight(st2, p, f) = Weight(st, p, f) /\ Weight(st, p, f) \in Int
      BY <1>2, <2>1, <3>1 DEF Weight
    <3> QED BY <3>1, <3>2
  <2> QED BY <2>2, <2>3
<1>6. Books(st2)
  BY <1>1, <1>3, <1>4, <1>5, BooksStep
<1> QED BY <1>1, <1>6 DEF QStep, st2

\* ADD_REQUEST of _unified_update_queue_membership keeps the books.
LEMMA AddQOK ==
    ASSUME NEW st \in State, NEW f \in Files, NEW q \in Queues, Books(st)
    PROVE  /\ QStep(st, AddQ(st, q, f), f)
           /\ AddQ(st, q, f).dpr[f].inq = [st.dpr[f].inq EXCEPT ![q] = st.dpr[f].inq[q] + 1]
<1> DEFINE n == st.dpr[f].inq[q] + 1
           c == IF Counted(st, q, f) THEN st.count[q] + 1 ELSE st.count[q]
           Q == st.queue[q] \cup {f}
<1>1. st.dpr[f].inq[q] \in Nat /\ st.queue[q] \in SUBSET Files /\ st.count[q] \in Int
  <2>1. st.dpr[f] \in Dpr
    BY StateFields
  <2> QED BY <2>1, StateFields, DprFields
<1>2. AddQ(st, q, f) = Requeue(st, f, q, Q, n, c)
  BY DEF AddQ, Requeue, State
<1>3. n \in Nat /\ n > 0 /\ c \in Int /\ Q \in SUBSET Files
  BY <1>1
<1>4. c = st.count[q] - Weight(st, q, f) + (IF Counted(st, q, f) THEN n ELSE 0)
  BY <1>1 DEF Weight
<1>5. (f \in Q <=> n > 0) /\ \A g \in Files \ {f} : g \in Q <=> g \in st.queue[q]
  BY <1>3
<1> HIDE DEF n, c, Q
<1>6. /\ QStep(st, Requeue(st, f, q, Q, n, c), f)
      /\ Requeue(st, f, q, Q, n, c).dpr[f].inq = [st.dpr[f].inq EXCEPT ![q] = n]
  BY <1>3, <1>4, <1>5, RequeueOK
<1> QED BY <1>2, <1>6 DEF n

\* So does taking one request out of a queue it is in,
LEMMA DelQOK ==
    ASSUME NEW st \in State, NEW f \in Files, NEW q \in Queues, Books(st), st.dpr[f].inq[q] > 0
    PROVE  /\ QStep(st, DelQ(st, q, f), f)
           /\ DelQ(st, q, f).dpr[f].inq = [st.dpr[f].inq EXCEPT ![q] = st.dpr[f].inq[q] - 1]
<1> DEFINE k == st.dpr[f].inq[q]
           n == k - 1
           c == IF Counted(st, q, f) THEN st.count[q] - 1 ELSE st.count[q]
           Q == IF k = 1 THEN st.queue[q] \ {f} ELSE st.queue[q]
<1>1. k \in Nat /\ k > 0 /\ st.queue[q] \in SUBSET Files /\ st.count[q] \in Int
  <2>1. st.dpr[f] \in Dpr
    BY StateFields
  <2> QED BY <2>1, StateFields, DprFields
<1>2. DelQ(st, q, f) = Requeue(st, f, q, Q, n, c)
  BY <1>1 DEF DelQ, Requeue, State
<1>3. n \in Nat /\ c \in Int /\ Q \in SUBSET Files
  BY <1>1
<1>4. c = st.count[q] - Weight(st, q, f) + (IF Counted(st, q, f) THEN n ELSE 0)
  BY <1>1 DEF Weight
<1>5. (f \in Q <=> n > 0) /\ \A g \in Files \ {f} : g \in Q <=> g \in st.queue[q]
  <2>1. f \in st.queue[q]
    BY <1>1 DEF Books
  <2> QED BY <1>1, <2>1
<1> HIDE DEF n, c, Q, k
<1>6. /\ QStep(st, Requeue(st, f, q, Q, n, c), f)
      /\ Requeue(st, f, q, Q, n, c).dpr[f].inq = [st.dpr[f].inq EXCEPT ![q] = n]
  BY <1>3, <1>4, <1>5, RequeueOK
<1> QED BY <1>2, <1>6 DEF n, k

\* and taking all requests of a file out of it.
LEMMA ClearQOK ==
    ASSUME NEW st \in State, NEW f \in Files, NEW q \in Queues, Books(st)
    PROVE  /\ QStep(st, ClearQ(st, q, f), f)
           /\ ClearQ(st, q, f).dpr[f].inq = [st.dpr[f].inq EXCEPT ![q] = 0]
<1> DEFINE k == st.dpr[f].inq[q]
           c == IF Counted(st, q, f) THEN st.count[q] - k ELSE st.count[q]
           Q == IF k > 0 THEN st.queue[q] \ {f} ELSE st.queue[q]
<1>1. k \in Nat /\ st.queue[q] \in SUBSET Files /\ st.count[q] \in Int
  <2>1. st.dpr[f] \in Dpr
    BY StateFields
  <2> QED BY <2>1, StateFields, DprFields
<1>2. ClearQ(st, q, f) = Requeue(st, f, q, Q, 0, c)
  BY <1>1 DEF ClearQ, Requeue, State
<1>3. c \in Int /\ Q \in SUBSET Files
  BY <1>1
<1>4. c = st.count[q] - Weight(st, q, f) + (IF Counted(st, q, f) THEN 0 ELSE 0)
  BY <1>1 DEF Weight
<1>5. (f \in Q <=> 0 > 0) /\ \A g \in Files \ {f} : g \in Q <=> g \in st.queue[q]
  <2>1. f \in st.queue[q] <=> k > 0
    BY <1>1 DEF Books
  <2> QED BY <1>1, <2>1
<1> HIDE DEF c, Q, k
<1>6. /\ QStep(st, Requeue(st, f, q, Q, 0, c), f)
      /\ Requeue(st, f, q, Q, 0, c).dpr[f].inq = [st.dpr[f].inq EXCEPT ![q] = 0]
  BY <1>3, <1>4, <1>5, RequeueOK
<1> QED BY <1>2, <1>6

\* Two queue steps make one.
LEMMA QStepTrans ==
    ASSUME NEW st, NEW st2, NEW st3, NEW f, QStep(st, st2, f), QStep(st2, st3, f)
    PROVE  QStep(st, st3, f)
BY DEF QStep, SameRest, SameDpr

\* Doing nothing is a queue step.
LEMMA QStepSame == ASSUME NEW st \in State, NEW f, Books(st) PROVE QStep(st, st, f)
BY DEF QStep, SameRest, SameDpr

\* The fields of a request have their types, and no request is empty.
LEMMA ReqFields ==
    ASSUME NEW r \in Req
    PROVE  /\ r.off \in Nat /\ r.n \in {1, 2} /\ r.state \in Queues /\ r.ids \in SUBSET Pos
           /\ End(r) \in Nat /\ End(r) > 0
<1>1. r.off \in Nat /\ r.n \in {1, 2} /\ r.state \in Queues /\ r.ids \in SUBSET Pos
  BY DEF Req
<1> QED BY <1>1 DEF End

\* What replacing a dentry_priv leaves of every field.
LEMMA DprUpdate ==
    ASSUME NEW st \in State, NEW f \in Files, NEW d \in Dpr
    PROVE  /\ [st EXCEPT !.dpr[f] = d] \in State
           /\ [st EXCEPT !.dpr[f] = d].dpr = [st.dpr EXCEPT ![f] = d]
           /\ [st EXCEPT !.dpr[f] = d].queue = st.queue /\ [st EXCEPT !.dpr[f] = d].count = st.count
           /\ SameRest(st, [st EXCEPT !.dpr[f] = d])
<1>1. [st.dpr EXCEPT ![f] = d] \in [Files -> Dpr]
  BY StateFields
<1> QED BY <1>1 DEF State, SameRest

\* Giving blocks back to the pool changes nothing else.
LEMMA FreeFields ==
    ASSUME NEW st \in State, NEW n \in Nat
    PROVE  /\ FreeBlocks(st, n) \in State
           /\ FreeBlocks(st, n).dpr = st.dpr /\ FreeBlocks(st, n).queue = st.queue
           /\ FreeBlocks(st, n).count = st.count /\ FreeBlocks(st, n).ext_queue = st.ext_queue
           /\ FreeBlocks(st, n).tape = st.tape /\ FreeBlocks(st, n).size = st.size
           /\ FreeBlocks(st, n).less = st.less /\ FreeBlocks(st, n).broken = st.broken
           /\ FreeBlocks(st, n).nfaults = st.nfaults /\ FreeBlocks(st, n).written = st.written
<1>1. st.free + n \in Nat
  BY StateFields
<1> QED BY <1>1 DEF FreeBlocks, State

\* ltfs_fsraw_write adds to the extents of its own file only.
LEMMA ToTapeFields ==
    ASSUME NEW st \in State, NEW f \in Files, NEW r \in Req
    PROVE  /\ ToTape(st, f, r) \in State
           /\ ToTape(st, f, r).dpr = st.dpr /\ ToTape(st, f, r).queue = st.queue
           /\ ToTape(st, f, r).count = st.count /\ ToTape(st, f, r).ext_queue = st.ext_queue
           /\ ToTape(st, f, r).tape = [st.tape EXCEPT ![f] = st.tape[f] \cup r.ids]
           /\ \A g \in Files \ {f} : ToTape(st, f, r).size[g] = st.size[g]
           /\ ToTape(st, f, r).less = st.less /\ ToTape(st, f, r).broken = st.broken
           /\ ToTape(st, f, r).nfaults = st.nfaults /\ ToTape(st, f, r).written = st.written
<1>1. st.tape[f] \cup r.ids \in SUBSET Pos
  BY StateFields, ReqFields
<1>2. st.size[f] \in Nat /\ End(r) \in Nat
  BY StateFields, ReqFields
<1> DEFINE z == Max({st.size[f], End(r)})
<1>3. z \in Nat
  BY <1>2, MaxTwo
<1>4. ToTape(st, f, r) = [st EXCEPT !.tape[f] = st.tape[f] \cup r.ids, !.size[f] = z]
  BY DEF ToTape, State
<1> HIDE DEF z
<1>5. [st.tape EXCEPT ![f] = st.tape[f] \cup r.ids] \in [Files -> SUBSET Pos] /\ [st.size EXCEPT ![f] = z] \in [Files -> Nat]
  BY <1>1, <1>3, StateFields
<1> QED BY <1>4, <1>5, ZenonT(30) DEF State

\* Queueing keeps the type of the state, whatever the counters say.
LEMMA AddQType == ASSUME NEW st \in State, NEW f \in Files, NEW q \in Queues PROVE AddQ(st, q, f) \in State
<1> DEFINE n == st.dpr[f].inq[q] + 1
           c == IF Counted(st, q, f) THEN st.count[q] + 1 ELSE st.count[q]
           Q == st.queue[q] \cup {f}
<1>1. st.dpr[f].inq[q] \in Nat /\ st.queue[q] \in SUBSET Files /\ st.count[q] \in Int
  <2>1. st.dpr[f] \in Dpr
    BY StateFields
  <2> QED BY <2>1, StateFields, DprFields
<1>2. AddQ(st, q, f) = Requeue(st, f, q, Q, n, c)
  BY DEF AddQ, Requeue, State
<1>3. n \in Nat /\ c \in Int /\ Q \in SUBSET Files
  BY <1>1
<1> HIDE DEF n, c, Q
<1>4. Requeued(st, Requeue(st, f, q, Q, n, c), f, q, Q, n, c)
  BY <1>3, RequeueFields
<1> QED BY <1>2, <1>4 DEF Requeued

\* So does taking a request out of a queue.
LEMMA DelQType == ASSUME NEW st \in State, NEW f \in Files, NEW q \in Queues PROVE DelQ(st, q, f) \in State
<1> DEFINE k == st.dpr[f].inq[q]
           n == IF k > 0 THEN k - 1 ELSE 0
           c == IF k > 0 /\ Counted(st, q, f) THEN st.count[q] - 1 ELSE st.count[q]
           Q == IF k = 1 THEN st.queue[q] \ {f} ELSE st.queue[q]
<1>1. k \in Nat /\ st.queue[q] \in SUBSET Files /\ st.count[q] \in Int
  <2>1. st.dpr[f] \in Dpr
    BY StateFields
  <2> QED BY <2>1, StateFields, DprFields
<1>2. DelQ(st, q, f) = Requeue(st, f, q, Q, n, c)
  BY <1>1 DEF DelQ, Requeue, State
<1>3. n \in Nat /\ c \in Int /\ Q \in SUBSET Files
  BY <1>1
<1> HIDE DEF n, c, Q, k
<1>4. Requeued(st, Requeue(st, f, q, Q, n, c), f, q, Q, n, c)
  BY <1>3, RequeueFields
<1> QED BY <1>2, <1>4 DEF Requeued

\* The data of a list with one request more.
LEMMA IdsAppend ==
    ASSUME NEW reqs \in Seq(Req), NEW r \in Req
    PROVE  Ids(Append(reqs, r)) = Ids(reqs) \cup r.ids
<1> DEFINE n == Len(reqs)  new == Append(reqs, r)
<1>1. n \in Nat /\ DOMAIN reqs = 1..n /\ DOMAIN new = 1..(n + 1) /\ new[n + 1] = r /\ \A i \in 1..n : new[i] = reqs[i]
  OBVIOUS
<1> HIDE DEF n, new
<1>2. \A i \in 1..(n + 1) : i = n + 1 \/ i \in 1..n
  BY <1>1
<1>3. \A i \in 1..n : i \in 1..(n + 1)
  BY <1>1
<1>4. n + 1 \in 1..(n + 1)
  BY <1>1
<1>5. {new[i].ids : i \in 1..(n + 1)} = {reqs[i].ids : i \in 1..n} \cup {r.ids}
  BY <1>1, <1>2, <1>3, <1>4
<1>6. Ids(new) = Ids(reqs) \cup r.ids
  BY <1>1, <1>5 DEF Ids
<1> QED BY <1>6 DEF new

\* An empty list has no data.
LEMMA IdsEmpty == Ids(<<>>) = {}
BY DEF Ids

\* The data of a list are numbers of writes.
LEMMA IdsType == ASSUME NEW reqs \in Seq(Req) PROVE Ids(reqs) \subseteq Pos
<1>1. \A i \in DOMAIN reqs : reqs[i] \in Req
  OBVIOUS
<1>2. \A r \in Req : r.ids \in SUBSET Pos
  BY DEF Req
<1> QED BY <1>1, <1>2 DEF Ids

Acc == [st : State, out : Seq(Req), local : Seq(Req), failed : Seq(Req), ok : Nat]

\* Nothing but queue counters of f and the number of free blocks differs.
FStep(st, st2, f) ==
    /\ st2 \in State /\ Books(st2)
    /\ SameDpr(st.dpr[f], st2.dpr[f])
    /\ \A g \in Files \ {f} : st2.dpr[g] = st.dpr[g]
    /\ st2.ext_queue = st.ext_queue /\ st2.tape = st.tape /\ st2.size = st.size
    /\ st2.less = st.less /\ st2.broken = st.broken /\ st2.nfaults = st.nfaults /\ st2.written = st.written

\* A list of requests that goes with data ids, data T on the tape and a size.
Fits(reqs, T, z) ==
    \A k \in DOMAIN reqs : End(reqs[k]) <= z /\ (reqs[k].state = "IP" => reqs[k].ids \subseteq T)
Gained(out, out2, r) ==
    /\ out2 \in Seq(Req)
    /\ Ids(out2) = Ids(out) \cup r.ids
    /\ \A k \in DOMAIN out2 : out2[k].state = r.state \/ \E j \in DOMAIN out : out2[k] = out[j]
    /\ \A q \in Queues \ {r.state} : NumIn(out2, {q}) = NumIn(out, {q})

\* The fields of the accumulator of the request loop have their types.
LEMMA AccFields ==
    ASSUME NEW acc \in Acc
    PROVE  acc.st \in State /\ acc.out \in Seq(Req) /\ acc.local \in Seq(Req) /\ acc.failed \in Seq(Req) /\ acc.ok \in Nat
BY DEF Acc

\* Appending a request gains its data and counts it once.
LEMMA GainAppend ==
    ASSUME NEW out \in Seq(Req), NEW r \in Req
    PROVE  /\ Gained(out, Append(out, r), r)
           /\ NumIn(Append(out, r), {r.state}) = NumIn(out, {r.state}) + 1
           /\ \A T : \A z \in Nat : Fits(out, T, z) /\ End(r) <= z /\ (r.state = "IP" => r.ids \subseteq T)
                           => Fits(Append(out, r), T, z)
<1> DEFINE n == Len(out)  new == Append(out, r)
<1>1. n \in Nat /\ DOMAIN out = 1..n /\ DOMAIN new = 1..(n + 1) /\ new[n + 1] = r /\ \A i \in 1..n : new[i] = out[i]
  OBVIOUS
<1>2. new \in Seq(Req)
  OBVIOUS
<1>3. Ids(new) = Ids(out) \cup r.ids
  BY IdsAppend
<1>4. \A q \in Queues : NumIn(new, {q}) = NumIn(out, {q}) + (IF r.state \in {q} THEN 1 ELSE 0)
  BY NumInAppend
<1>5. r.state \in Queues
  BY ReqFields
<1>6. \A q \in Queues : NumIn(out, {q}) \in Nat
  BY NumInUpto
<1> HIDE DEF n, new
<1>7. \A i \in 1..(n + 1) : i = n + 1 \/ i \in 1..n
  BY <1>1
<1>8. \A k \in DOMAIN new : new[k] = r \/ \E j \in DOMAIN out : new[k] = out[j]
  BY <1>1, <1>7
<1>9. Gained(out, new, r)
  BY <1>2, <1>3, <1>4, <1>6, <1>8 DEF Gained
<1>10. NumIn(new, {r.state}) = NumIn(out, {r.state}) + 1
  BY <1>4, <1>5
<1>11. ASSUME NEW T, NEW z \in Nat, Fits(out, T, z), End(r) <= z, r.state = "IP" => r.ids \subseteq T
       PROVE  Fits(new, T, z)
  BY <1>8, <1>11 DEF Fits
<1> QED BY <1>9, <1>10, <1>11 DEF new

\* The changes the code makes to a request leave it a request.
LEMMA ReqChange ==
    ASSUME NEW r \in Req
    PROVE  /\ \A x \in SUBSET Pos : [r EXCEPT !.n = 2, !.ids = x] \in Req
           /\ \A z \in Nat : [r EXCEPT !.off = z, !.n = 1] \in Req
           /\ \A q \in Queues : [r EXCEPT !.state = q] \in Req
BY DEF Req

\* Data of a list is data of one of its requests.
LEMMA IdsMember ==
    ASSUME NEW reqs \in Seq(Req) PROVE \A e : e \in Ids(reqs) <=> \E i \in 1..Len(reqs) : e \in reqs[i].ids
BY DEF Ids

\* The last request of the list is joined by the half block behind it.
LEMMA GainMerge ==
    ASSUME NEW out \in Seq(Req), NEW r \in Req, r.state = "IP", Len(out) > 0, out[Len(out)].state = "IP",
           out[Len(out)].n = 1, End(out[Len(out)]) = r.off,
           NEW new, new = [out EXCEPT ![Len(out)].n = 2, ![Len(out)].ids = out[Len(out)].ids \cup r.ids]
    PROVE  /\ Gained(out, new, r)
           /\ NumIn(new, {"IP"}) = NumIn(out, {"IP"})
           /\ \A T : \A z \in Nat : Fits(out, T, z) /\ End(r) <= z /\ r.ids \subseteq T => Fits(new, T, z)
<1> DEFINE n == Len(out)
           last == [out[n] EXCEPT !.n = 2, !.ids = out[n].ids \cup r.ids]
<1>1. n \in Nat /\ n \in 1..n /\ DOMAIN out = 1..n /\ out[n] \in Req /\ \A i \in 1..n : out[i] \in Req
  OBVIOUS
<1> HIDE DEF n
<1>2. out[n].ids \in SUBSET Pos /\ r.ids \in SUBSET Pos /\ out[n].off \in Nat /\ r.off \in Nat /\ r.n \in {1, 2}
  BY <1>1, ReqFields
<1>3. last \in Req /\ last.state = "IP" /\ last.ids = out[n].ids \cup r.ids /\ last.n = 2 /\ last.off = out[n].off
  <2>1. last \in Req
    BY <1>1, <1>2, ReqChange
  <2> QED BY <1>1, <2>1 DEF Req, n
<1>4. new = [out EXCEPT ![n] = last]
  BY <1>1 DEF n, Req
<1>5. new \in Seq(Req) /\ Len(new) = n /\ DOMAIN new = 1..n
  <2> HIDE DEF last
  <2>1. Len(out) = n
    BY DEF n
  <2>2. [out EXCEPT ![n] = last] \in Seq(Req) /\ Len([out EXCEPT ![n] = last]) = Len(out)
    BY <1>1, <1>3, <2>1
  <2> QED BY <1>1, <1>4, <2>1, <2>2
<1>6. new[n] = last /\ \A i \in 1..n : i # n => new[i] = out[i]
  BY <1>1, <1>4
<1>7. \A i \in 1..n : new[i].state = out[i].state
  BY <1>3, <1>6 DEF n
<1>8. \A q \in Queues : NumIn(new, {q}) = NumIn(out, {q})
  <2>1. TAKE q \in Queues
  <2>2. Len(out) = Len(new) /\ \A i \in 1..Len(out) : out[i].state \in {q} <=> new[i].state \in {q}
    BY <1>5, <1>7 DEF n
  <2> QED BY <1>5, <2>2, NumInSame, ZenonT(30)
<1>9. Ids(new) = Ids(out) \cup r.ids
  <2>1. \A e : e \in Ids(new) <=> \E i \in 1..n : e \in new[i].ids
    BY <1>5, IdsMember
  <2>2. \A e : e \in Ids(out) <=> \E i \in 1..n : e \in out[i].ids
    BY IdsMember DEF n
  <2>3. \A e : e \in Ids(new) <=> e \in Ids(out) \/ e \in r.ids
    <3>1. \A i \in 1..n : \A e : e \in new[i].ids <=> e \in out[i].ids \/ (i = n /\ e \in r.ids)
      BY <1>3, <1>6
    <3> QED BY <1>1, <2>1, <2>2, <3>1
  <2> QED BY <2>3
<1>10. Gained(out, new, r)
  <2>1. \A k \in DOMAIN new : new[k].state = r.state \/ \E j \in DOMAIN out : new[k] = out[j]
    BY <1>1, <1>3, <1>5, <1>6
  <2> QED BY <1>5, <1>8, <1>9, <2>1 DEF Gained
<1>11. ASSUME NEW T, NEW z \in Nat, Fits(out, T, z), End(r) <= z, r.ids \subseteq T PROVE Fits(new, T, z)
  <2>1. End(last) <= z
    <3>1. out[n].off + 1 = r.off
      BY DEF End, n
    <3>2. End(last) = out[n].off + 2
      BY <1>3 DEF End
    <3>3. End(r) = r.off + r.n
      BY DEF End
    <3>4. End(last) = r.off + 1
      BY <1>2, <3>1, <3>2
    <3>5. CASE r.n = 1
      BY <1>11, <3>3, <3>4, <3>5
    <3>6. CASE r.n = 2
      <4>1. End(out[n]) <= z /\ End(out[n]) = r.off
        BY <1>1, <1>11 DEF Fits, n
      <4>2. End(r) = r.off + 2
        BY <3>3, <3>6
      <4> DEFINE a == End(last)  b == End(r)  e == r.off
      <4>3. a = e + 1 /\ b = e + 2 /\ b <= z /\ e \in Nat
        BY <1>2, <1>11, <3>4, <4>2
      <4> HIDE DEF a, b, e
      <4>4. a <= z
        BY <4>3
      <4> QED BY <4>4 DEF a
    <3> QED BY <1>2, <3>5, <3>6
  <2>2. out[n].ids \subseteq T
    BY <1>1, <1>11 DEF Fits, n
  <2> QED BY <1>1, <1>3, <1>5, <1>6, <1>11, <2>1, <2>2 DEF Fits
<1> QED BY <1>1, <1>8, <1>10, <1>11 DEF Queues

MergedAcc(acc, acc2, f, r) ==
    /\ acc2 \in Acc /\ FStep(acc.st, acc2.st, f)
    /\ acc2.local = acc.local /\ acc2.failed = acc.failed /\ acc2.ok = acc.ok
    /\ Gained(acc.out, acc2.out, r)
    /\ \A q \in Queues \ {"IP"} : acc2.st.dpr[f].inq[q] = acc.st.dpr[f].inq[q]
    /\ acc2.st.dpr[f].inq["IP"] - NumIn(acc2.out, {"IP"}) = acc.st.dpr[f].inq["IP"] - NumIn(acc.out, {"IP"}) - 1
    /\ \A T : \A z \in Nat : Fits(acc.out, T, z) /\ End(r) <= z /\ r.ids \subseteq T => Fits(acc2.out, T, z)

Joins(acc, r) ==
    LET k == Len(acc.out)
    IN  k > 0 /\ acc.out[k].state = "IP" /\ acc.out[k].n = 1 /\ End(acc.out[k]) = r.off
MergedOut(acc, r) == [acc.out EXCEPT ![Len(acc.out)].n = 2, ![Len(acc.out)].ids = acc.out[Len(acc.out)].ids \cup r.ids]

WithOut(acc, out) == [acc EXCEPT !.out = out]
WithBoth(acc, out, st) == [acc EXCEPT !.out = out, !.st = st]
Second(r) == [r EXCEPT !.off = r.off + 1, !.n = 1]

\* _unified_merge_requests on requests that do not touch appends,
LEMMA MergeApart ==
    ASSUME NEW acc \in Acc, NEW f \in Files, NEW r \in Req, ~Joins(acc, r)
    PROVE  MergeIp(acc, f, r) = WithOut(acc, Append(acc.out, r))
<1>1. MergeIp(acc, f, r) = [acc EXCEPT !.out = Append(@, r)]
  BY DEF MergeIp, Joins
<1> QED BY <1>1 DEF Acc, WithOut

\* on one that fits whole frees its block and leaves the IP queue count one lower,
LEMMA MergeHalf ==
    ASSUME NEW acc \in Acc, NEW f \in Files, NEW r \in Req, Joins(acc, r), r.n = 1
    PROVE  MergeIp(acc, f, r) = WithBoth(acc, MergedOut(acc, r), FreeBlocks(DelQ(acc.st, "IP", f), 1))
<1>0. MergedOut(acc, r) = [acc.out EXCEPT ![Len(acc.out)].n = 2, ![Len(acc.out)].ids = @ \cup r.ids]
  BY DEF MergedOut
<1>1. MergeIp(acc, f, r) = [acc EXCEPT !.out = MergedOut(acc, r), !.st = FreeBlocks(DelQ(@, "IP", f), 1)]
  BY <1>0 DEF MergeIp, Joins
<1> QED BY <1>1 DEF Acc, WithBoth

\* and on one that does not fit fills the block and keeps the second half.
LEMMA MergeFull ==
    ASSUME NEW acc \in Acc, NEW f \in Files, NEW r \in Req, Joins(acc, r), r.n # 1
    PROVE  MergeIp(acc, f, r) = WithOut(acc, Append(MergedOut(acc, r), Second(r)))
<1>0. MergedOut(acc, r) = [acc.out EXCEPT ![Len(acc.out)].n = 2, ![Len(acc.out)].ids = @ \cup r.ids]
  BY DEF MergedOut
<1>1. Second(r) = [r EXCEPT !.off = @ + 1, !.n = 1]
  BY DEF Req, Second
<1>2. MergeIp(acc, f, r) = [acc EXCEPT !.out = Append(MergedOut(acc, r), Second(r))]
  BY <1>0, <1>1 DEF MergeIp, Joins
<1> QED BY <1>2 DEF WithOut

\* The filled block gains the data, and the count of IP requests stays.
LEMMA MergedOutOK ==
    ASSUME NEW acc \in Acc, NEW r \in Req, r.state = "IP", Joins(acc, r)
    PROVE  /\ Gained(acc.out, MergedOut(acc, r), r)
           /\ NumIn(MergedOut(acc, r), {"IP"}) = NumIn(acc.out, {"IP"})
           /\ \A T : \A z \in Nat : Fits(acc.out, T, z) /\ End(r) <= z /\ r.ids \subseteq T => Fits(MergedOut(acc, r), T, z)
<1>1. acc.out \in Seq(Req)
  BY AccFields
<1>2. Len(acc.out) > 0 /\ acc.out[Len(acc.out)].state = "IP" /\ acc.out[Len(acc.out)].n = 1 /\ End(acc.out[Len(acc.out)]) = r.off
  BY DEF Joins
<1> QED BY <1>1, <1>2, GainMerge, ZenonT(30) DEF MergedOut

AccIs(acc, acc2, out, st) ==
    /\ acc2 \in Acc /\ acc2.out = out /\ acc2.st = st
    /\ acc2.local = acc.local /\ acc2.failed = acc.failed /\ acc2.ok = acc.ok

\* Only the list differs.
LEMMA WithOutIs ==
    ASSUME NEW acc \in Acc, NEW out \in Seq(Req) PROVE AccIs(acc, WithOut(acc, out), out, acc.st)
BY DEF Acc, WithOut, AccIs

\* Only the list and the protected state differ.
LEMMA WithBothIs ==
    ASSUME NEW acc \in Acc, NEW out \in Seq(Req), NEW st \in State PROVE AccIs(acc, WithBoth(acc, out, st), out, st)
BY DEF Acc, WithBoth, AccIs

\* The second half of a full request ends where the request ended.
LEMMA SecondHalf ==
    ASSUME NEW r \in Req, r.n # 1
    PROVE  Second(r) \in Req /\ Second(r).state = r.state /\ Second(r).ids = r.ids /\ End(Second(r)) = End(r)
<1>1. r.off \in Nat /\ r.n = 2 /\ r.off + 1 \in Nat
  BY ReqFields
<1>2. Second(r) \in Req
  BY <1>1, ReqChange DEF Second
<1> QED BY <1>1, <1>2 DEF Req, End, Second

\* Merging keeps the type of the accumulator.
LEMMA MergeIpType ==
    ASSUME NEW acc \in Acc, NEW f \in Files, NEW r \in Req, r.state = "IP"
    PROVE  MergeIp(acc, f, r) \in Acc
<1>1. acc.out \in Seq(Req) /\ acc.st \in State
  BY AccFields
<1>2. CASE ~Joins(acc, r)
  <2>1. Append(acc.out, r) \in Seq(Req)
    BY <1>1
  <2>2. MergeIp(acc, f, r) = WithOut(acc, Append(acc.out, r))
    BY <1>2, MergeApart
  <2>3. AccIs(acc, WithOut(acc, Append(acc.out, r)), Append(acc.out, r), acc.st)
    BY <2>1, WithOutIs
  <2> QED BY <2>2, <2>3 DEF AccIs
<1>3. CASE Joins(acc, r) /\ r.n = 1
  <2> DEFINE out == MergedOut(acc, r)  st == FreeBlocks(DelQ(acc.st, "IP", f), 1)
  <2>1. out \in Seq(Req)
    BY <1>3, MergedOutOK DEF Gained
  <2>2. DelQ(acc.st, "IP", f) \in State
    BY <1>1, DelQType DEF Queues
  <2>3. st \in State
    BY <2>2, FreeFields
  <2>4. MergeIp(acc, f, r) = WithBoth(acc, out, st)
    BY <1>3, MergeHalf
  <2> HIDE DEF out, st
  <2>5. AccIs(acc, WithBoth(acc, out, st), out, st)
    BY <2>1, <2>3, WithBothIs
  <2> QED BY <2>4, <2>5 DEF AccIs
<1>4. CASE Joins(acc, r) /\ r.n # 1
  <2> DEFINE out == Append(MergedOut(acc, r), Second(r))
  <2>1. MergedOut(acc, r) \in Seq(Req)
    BY <1>4, MergedOutOK DEF Gained
  <2>2. Second(r) \in Req
    BY <1>4, SecondHalf
  <2>3. MergeIp(acc, f, r) = WithOut(acc, out)
    BY <1>4, MergeFull
  <2>4. out \in Seq(Req)
    BY <2>1, <2>2
  <2> HIDE DEF out
  <2>5. AccIs(acc, WithOut(acc, out), out, acc.st)
    BY <2>4, WithOutIs
  <2> QED BY <2>3, <2>5 DEF AccIs
<1> QED BY <1>2, <1>3, <1>4

\* DelQOK for the IP queue.
LEMMA DelQIp ==
    ASSUME NEW st \in State, NEW f \in Files, Books(st), st.dpr[f].inq["IP"] > 0
    PROVE  /\ QStep(st, DelQ(st, "IP", f), f)
           /\ DelQ(st, "IP", f).dpr[f].inq = [st.dpr[f].inq EXCEPT !["IP"] = st.dpr[f].inq["IP"] - 1]
<1>1. "IP" \in Queues
  BY DEF Queues
<1> QED BY <1>1, DelQOK

\* A queue step may be followed by giving blocks back.
LEMMA FreeStep ==
    ASSUME NEW st, NEW st1, NEW f, NEW n \in Nat, QStep(st, st1, f)
    PROVE  FStep(st, FreeBlocks(st1, n), f) /\ FreeBlocks(st1, n).dpr = st1.dpr
<1> DEFINE st2 == FreeBlocks(st1, n)
<1>4. st1 \in State
  BY DEF QStep
<1>5. /\ st2 \in State /\ st2.dpr = st1.dpr /\ st2.queue = st1.queue /\ st2.count = st1.count
      /\ st2.ext_queue = st1.ext_queue /\ st2.tape = st1.tape /\ st2.size = st1.size /\ st2.less = st1.less
      /\ st2.broken = st1.broken /\ st2.nfaults = st1.nfaults /\ st2.written = st1.written
  BY <1>4, FreeFields
<1> HIDE DEF st2
<1>6. Books(st2)
  BY <1>5 DEF QStep, Books, Counted
<1>7. FStep(st, st2, f)
  BY <1>5, <1>6 DEF QStep, FStep, SameRest
<1> QED BY <1>5, <1>7 DEF st2

\* Merging loses no data, and the IP count falls by what the list lost.
LEMMA MergeIpOK ==
    ASSUME NEW acc \in Acc, NEW f \in Files, NEW r \in Req, r.state = "IP", Books(acc.st), acc.st.dpr[f].inq["IP"] > 0
    PROVE  MergedAcc(acc, MergeIp(acc, f, r), f, r)
<1> DEFINE acc2 == MergeIp(acc, f, r)
<1>1. acc.out \in Seq(Req) /\ acc.st \in State /\ acc.st.dpr[f].inq \in [Queues -> Nat] /\ "IP" \in Queues
  <2>1. acc.out \in Seq(Req) /\ acc.st \in State
    BY AccFields
  <2>2. acc.st.dpr[f] \in Dpr
    BY <2>1, StateFields
  <2> QED BY <2>1, <2>2, DprFields DEF Queues
<1>2. NumIn(acc.out, {"IP"}) \in Nat /\ acc.st.dpr[f].inq["IP"] \in Nat
  BY <1>1, NumInUpto
<1>3. FStep(acc.st, acc.st, f)
  BY <1>1 DEF FStep, SameDpr
<1>4. CASE ~Joins(acc, r)
  <2> DEFINE out == Append(acc.out, r)
  <2>1. out \in Seq(Req)
    BY <1>1
  <2>2. acc2 = WithOut(acc, out)
    BY <1>4, MergeApart
  <2>4. /\ Gained(acc.out, out, r)
        /\ NumIn(out, {"IP"}) = NumIn(acc.out, {"IP"}) + 1
        /\ \A T : \A z \in Nat : Fits(acc.out, T, z) /\ End(r) <= z /\ (r.state = "IP" => r.ids \subseteq T)
                           => Fits(out, T, z)
    BY <1>1, GainAppend
  <2> HIDE DEF acc2, out
  <2>3. AccIs(acc, acc2, out, acc.st)
    BY <2>1, <2>2, WithOutIs
  <2>5. acc2.st.dpr[f].inq["IP"] - NumIn(acc2.out, {"IP"}) = acc.st.dpr[f].inq["IP"] - NumIn(acc.out, {"IP"}) - 1
    BY <1>2, <2>3, <2>4 DEF AccIs
  <2>9. MergedAcc(acc, acc2, f, r)
    BY <1>3, <2>3, <2>4, <2>5 DEF MergedAcc, AccIs
  <2> QED BY <2>9 DEF acc2
<1>5. CASE Joins(acc, r) /\ r.n = 1
  <2> DEFINE st1 == DelQ(acc.st, "IP", f)  st2 == FreeBlocks(st1, 1)  out == MergedOut(acc, r)
  <2>1. /\ Gained(acc.out, out, r) /\ NumIn(out, {"IP"}) = NumIn(acc.out, {"IP"})
        /\ \A T : \A z \in Nat : Fits(acc.out, T, z) /\ End(r) <= z /\ r.ids \subseteq T => Fits(out, T, z)
    BY <1>5, MergedOutOK
  <2>2. QStep(acc.st, st1, f) /\ st1.dpr[f].inq = [acc.st.dpr[f].inq EXCEPT !["IP"] = acc.st.dpr[f].inq["IP"] - 1]
    BY <1>1, DelQIp
  <2>3. acc2 = WithBoth(acc, out, st2)
    BY <1>5, MergeHalf
  <2> HIDE DEF st1, out, acc2
  <2>5. FStep(acc.st, st2, f) /\ st2.dpr = st1.dpr
    BY <2>2, FreeStep
  <2>6. st2 \in State
    BY <2>5 DEF FStep
  <2> HIDE DEF st2
  <2>8. out \in Seq(Req)
    BY <2>1 DEF Gained
  <2>9. AccIs(acc, acc2, out, st2)
    BY <2>3, <2>6, <2>8, WithBothIs
  <2>10. st2.dpr[f].inq["IP"] = acc.st.dpr[f].inq["IP"] - 1 /\ \A q \in Queues \ {"IP"} : st2.dpr[f].inq[q] = acc.st.dpr[f].inq[q]
    BY <1>1, <2>2, <2>5
  <2>12. acc2.st.dpr[f].inq["IP"] - NumIn(acc2.out, {"IP"}) = acc.st.dpr[f].inq["IP"] - NumIn(acc.out, {"IP"}) - 1
    BY <1>2, <2>1, <2>9, <2>10 DEF AccIs
  <2>13. MergedAcc(acc, acc2, f, r)
    BY <2>1, <2>5, <2>9, <2>10, <2>12 DEF MergedAcc, AccIs
  <2> QED BY <2>13 DEF acc2
<1>6. CASE Joins(acc, r) /\ r.n # 1
  <2> DEFINE h == Second(r)  mid == MergedOut(acc, r)  out == Append(mid, h)
  <2>1. /\ Gained(acc.out, mid, r) /\ NumIn(mid, {"IP"}) = NumIn(acc.out, {"IP"})
        /\ \A T : \A z \in Nat : Fits(acc.out, T, z) /\ End(r) <= z /\ r.ids \subseteq T => Fits(mid, T, z)
    BY <1>6, MergedOutOK
  <2>2. h \in Req /\ h.state = r.state /\ h.ids = r.ids /\ End(h) = End(r)
    BY <1>6, SecondHalf
  <2>3. acc2 = WithOut(acc, out)
    BY <1>6, MergeFull
  <2> HIDE DEF h, mid, acc2
  <2>4. mid \in Seq(Req)
    BY <2>1 DEF Gained
  <2>5. /\ Gained(mid, out, h) /\ NumIn(out, {"IP"}) = NumIn(mid, {"IP"}) + 1
        /\ \A T : \A z \in Nat : Fits(mid, T, z) /\ End(h) <= z /\ (h.state = "IP" => h.ids \subseteq T) => Fits(out, T, z)
    <3>1. /\ Gained(mid, Append(mid, h), h) /\ NumIn(Append(mid, h), {h.state}) = NumIn(mid, {h.state}) + 1
          /\ \A T : \A z \in Nat : Fits(mid, T, z) /\ End(h) <= z /\ (h.state = "IP" => h.ids \subseteq T) => Fits(Append(mid, h), T, z)
      BY <2>2, <2>4, GainAppend
    <3> QED BY <2>2, <3>1
  <2> HIDE DEF out
  <2>6. Gained(acc.out, out, r)
    BY <2>1, <2>2, <2>5 DEF Gained
  <2>7. AccIs(acc, acc2, out, acc.st)
    <3>1. out \in Seq(Req)
      BY <2>6 DEF Gained
    <3> QED BY <1>1, <2>3, <3>1, WithOutIs
  <2>8. acc2.st.dpr[f].inq["IP"] - NumIn(acc2.out, {"IP"}) = acc.st.dpr[f].inq["IP"] - NumIn(acc.out, {"IP"}) - 1
    BY <1>2, <2>1, <2>5, <2>7 DEF AccIs
  <2>10. \A T : \A z \in Nat : Fits(acc.out, T, z) /\ End(r) <= z /\ r.ids \subseteq T => Fits(acc2.out, T, z)
    BY <2>1, <2>2, <2>5, <2>7 DEF AccIs
  <2>11. MergedAcc(acc, acc2, f, r)
    BY <1>3, <2>6, <2>7, <2>8, <2>10 DEF MergedAcc, AccIs
  <2> QED BY <2>11 DEF acc2
<1> QED BY <1>4, <1>5, <1>6

DataStates == {"DP", "PARTIAL"}

\* A request has been written to the data partition.
Done(acc, f, r) == [acc EXCEPT !.ok = acc.ok - 1, !.st = ToTape(acc.st, f, r)]
DoneIs(acc, acc2, f, r) ==
    /\ acc2 \in Acc /\ acc2.st = ToTape(acc.st, f, r) /\ acc2.ok = acc.ok - 1
    /\ acc2.out = acc.out /\ acc2.local = acc.local /\ acc2.failed = acc.failed
WithSt(acc, st) == [acc EXCEPT !.st = st]
WithLocal(acc, l) == [acc EXCEPT !.local = l]
WithFail(acc, out, l) == [acc EXCEPT !.out = out, !.failed = l]
ToIp(r) == [r EXCEPT !.state = "IP"]

\* What a written request changes.
LEMMA DoneFields ==
    ASSUME NEW acc \in Acc, NEW f \in Files, NEW r \in Req, acc.ok # 0
    PROVE  DoneIs(acc, Done(acc, f, r), f, r)
<1>1. acc.ok - 1 \in Nat /\ acc.st \in State
  BY AccFields
<1>2. ToTape(acc.st, f, r) \in State
  BY <1>1, ToTapeFields
<1> QED BY <1>1, <1>2 DEF Acc, Done, DoneIs

\* Only the protected state differs.
LEMMA WithStIs ==
    ASSUME NEW acc \in Acc, NEW st \in State
    PROVE  AccIs(acc, WithSt(acc, st), acc.out, st)
BY DEF Acc, WithSt, AccIs

\* A request that waits for the index partition keeps its data and its place.
LEMMA ToIpFields ==
    ASSUME NEW r \in Req
    PROVE  ToIp(r) \in Req /\ ToIp(r).state = "IP" /\ ToIp(r).ids = r.ids /\ End(ToIp(r)) = End(r)
BY DEF Req, ToIp, End, Queues

\* Only the writer's private list differs.
LEMMA WithLocalIs ==
    ASSUME NEW acc \in Acc, NEW l \in Seq(Req)
    PROVE  /\ WithLocal(acc, l) \in Acc /\ WithLocal(acc, l).local = l /\ WithLocal(acc, l).st = acc.st
           /\ WithLocal(acc, l).out = acc.out /\ WithLocal(acc, l).failed = acc.failed /\ WithLocal(acc, l).ok = acc.ok
BY DEF Acc, WithLocal

FailIs(acc, acc2, out, l) ==
    /\ acc2 \in Acc /\ acc2.local = acc.local /\ acc2.st = acc.st /\ acc2.out = out
    /\ acc2.failed = l /\ acc2.ok = acc.ok

\* Only the list and the failed request differ.
LEMMA WithFailIs ==
    ASSUME NEW acc \in Acc, NEW out \in Seq(Req), NEW l \in Seq(Req)
    PROVE  FailIs(acc, WithFail(acc, out, l), out, l)
BY DEF Acc, WithFail, FailIs

\* The six cases of one round of the loop.
LEMMA WalkKeep ==
    ASSUME NEW acc \in Acc, NEW f \in Files, NEW states, NEW toLocal, NEW r \in Req,
           acc.failed # <<>> \/ r.state \notin states \cup {"IP"}
    PROVE  WalkOne(acc, f, states, toLocal, r) = WithOut(acc, Append(acc.out, r))
<1>1. WalkOne(acc, f, states, toLocal, r) = [acc EXCEPT !.out = Append(@, r)]
  BY DEF WalkOne
<1> QED BY <1>1 DEF Acc, WithOut

\* A request for the index partition is merged with the one before it.
LEMMA WalkIp ==
    ASSUME NEW acc \in Acc, NEW f \in Files, NEW states, NEW toLocal, NEW r \in Req,
           acc.failed = <<>>, r.state = "IP", "IP" \notin states
    PROVE  WalkOne(acc, f, states, toLocal, r) = MergeIp(acc, f, r)
BY DEF WalkOne

\* The writer thread takes the request over.
LEMMA WalkLocal ==
    ASSUME NEW acc \in Acc, NEW f \in Files, NEW states, NEW toLocal, NEW r \in Req,
           acc.failed = <<>>, r.state \in states, "IP" \notin states, toLocal, ~acc.st.dpr[f].write_ip
    PROVE  WalkOne(acc, f, states, toLocal, r) = WithLocal(acc, Append(acc.local, r))
<1>1. WalkOne(acc, f, states, toLocal, r) = [acc EXCEPT !.local = Append(@, r)]
  BY DEF WalkOne
<1> QED BY <1>1 DEF Acc, WithLocal, WithFail

\* The tape refuses the request: it stays in the list.
LEMMA WalkFail ==
    ASSUME NEW acc \in Acc, NEW f \in Files, NEW states, NEW toLocal, NEW r \in Req,
           acc.failed = <<>>, r.state \in states, "IP" \notin states, ~(toLocal /\ ~acc.st.dpr[f].write_ip), acc.ok = 0
    PROVE  WalkOne(acc, f, states, toLocal, r) = WithFail(acc, Append(acc.out, r), <<r>>)
<1>1. WalkOne(acc, f, states, toLocal, r) = [acc EXCEPT !.out = Append(@, r), !.failed = <<r>>]
  BY DEF WalkOne
<1> QED BY <1>1 DEF Acc, WithLocal, WithFail

\* The EXCEPT of the model is Done.
LEMMA DoneAt ==
    ASSUME NEW acc \in Acc, NEW f \in Files, NEW r \in Req
    PROVE  [acc EXCEPT !.ok = @ - 1, !.st = ToTape(@, f, r)] = Done(acc, f, r)
BY DEF Acc, Done

\* A request of an index partition file is written and then queued for that partition.
LEMMA WalkBoth ==
    ASSUME NEW acc \in Acc, NEW f \in Files, NEW states, NEW toLocal, NEW r \in Req,
           acc.failed = <<>>, r.state \in states, "IP" \notin states, acc.st.dpr[f].write_ip, acc.ok # 0
    PROVE  WalkOne(acc, f, states, toLocal, r) =
             MergeIp(WithSt(Done(acc, f, r), AddQ(Done(acc, f, r).st, "IP", f)), f, ToIp(r))
<1>1. WalkOne(acc, f, states, toLocal, r) =
        MergeIp([[acc EXCEPT !.ok = @ - 1, !.st = ToTape(@, f, r)] EXCEPT !.st = AddQ(@, "IP", f)], f, [r EXCEPT !.state = "IP"])
  BY DEF WalkOne
<1>2. WalkOne(acc, f, states, toLocal, r) =
        MergeIp([Done(acc, f, r) EXCEPT !.st = AddQ(@, "IP", f)], f, [r EXCEPT !.state = "IP"])
  BY <1>1, DoneAt
<1>3. Done(acc, f, r) \in Acc
  BY DoneFields DEF DoneIs
<1>4. [Done(acc, f, r) EXCEPT !.st = AddQ(@, "IP", f)] = WithSt(Done(acc, f, r), AddQ(Done(acc, f, r).st, "IP", f))
  BY <1>3 DEF WithSt, Acc
<1> QED BY <1>2, <1>4 DEF ToIp

\* Any other request is written and its block freed.
LEMMA WalkSend ==
    ASSUME NEW acc \in Acc, NEW f \in Files, NEW states, NEW toLocal, NEW r \in Req,
           acc.failed = <<>>, r.state \in states, "IP" \notin states, ~acc.st.dpr[f].write_ip, ~toLocal, acc.ok # 0
    PROVE  WalkOne(acc, f, states, toLocal, r) = WithSt(Done(acc, f, r), FreeBlocks(Done(acc, f, r).st, 1))
<1> DEFINE d == [acc EXCEPT !.ok = @ - 1, !.st = ToTape(@, f, r)]
<1>1. WalkOne(acc, f, states, toLocal, r) =
        [d EXCEPT !.st = FreeBlocks(@, 1)]
  BY DEF WalkOne
<1>5. d = Done(acc, f, r)
  BY DoneAt
<1> HIDE DEF d
<1>2. WalkOne(acc, f, states, toLocal, r) = [Done(acc, f, r) EXCEPT !.st = FreeBlocks(@, 1)]
  BY <1>1, <1>5
<1>3. Done(acc, f, r) \in Acc
  BY DoneFields DEF DoneIs
<1> QED BY <1>2, <1>3 DEF WithSt, Acc

\* Queueing the written request for the index partition keeps the type.
LEMMA AddIpType ==
    ASSUME NEW acc \in Acc, NEW f \in Files, NEW r \in Req, acc.ok # 0
    PROVE  WithSt(Done(acc, f, r), AddQ(Done(acc, f, r).st, "IP", f)) \in Acc
<1>1. Done(acc, f, r) \in Acc
  BY DoneFields DEF DoneIs
<1> HIDE DEF Done
<1>2. AddQ(Done(acc, f, r).st, "IP", f) \in State
  <2>1. Done(acc, f, r).st \in State /\ "IP" \in Queues
    BY <1>1, AccFields DEF Queues
  <2> QED BY <2>1, AddQType
<1> QED BY <1>1, <1>2, WithStIs DEF AccIs

\* One round of the loop keeps the type of the accumulator.
LEMMA WalkOneType ==
    ASSUME NEW acc \in Acc, NEW f \in Files, NEW states, states \subseteq DataStates, NEW toLocal, NEW r \in Req
    PROVE  WalkOne(acc, f, states, toLocal, r) \in Acc
<1> DEFINE new == WalkOne(acc, f, states, toLocal, r)
<1>1. acc.out \in Seq(Req) /\ acc.st \in State /\ acc.local \in Seq(Req) /\ acc.failed \in Seq(Req) /\ acc.ok \in Nat /\ "IP" \notin states
  BY AccFields DEF DataStates
<1>2. Append(acc.out, r) \in Seq(Req) /\ Append(acc.local, r) \in Seq(Req) /\ <<r>> \in Seq(Req)
  BY <1>1
<1>3. CASE acc.failed # <<>> \/ r.state \notin states \cup {"IP"}
  <2>1. new = WithOut(acc, Append(acc.out, r))
    BY <1>3, WalkKeep
  <2>2. AccIs(acc, WithOut(acc, Append(acc.out, r)), Append(acc.out, r), acc.st)
    BY <1>2, WithOutIs
  <2> QED BY <2>1, <2>2 DEF AccIs
<1>4. CASE acc.failed = <<>> /\ r.state = "IP"
  <2>1. new = MergeIp(acc, f, r)
    BY <1>1, <1>4, WalkIp
  <2> QED BY <1>4, <2>1, MergeIpType
<1>5. CASE acc.failed = <<>> /\ r.state \in states /\ toLocal /\ ~acc.st.dpr[f].write_ip
  <2>1. new = WithLocal(acc, Append(acc.local, r))
    BY <1>1, <1>5, WalkLocal
  <2>2. WithLocal(acc, Append(acc.local, r)) \in Acc
    BY <1>2, WithLocalIs
  <2> QED BY <2>1, <2>2
<1>6. CASE acc.failed = <<>> /\ r.state \in states /\ ~(toLocal /\ ~acc.st.dpr[f].write_ip) /\ acc.ok = 0
  <2>1. new = WithFail(acc, Append(acc.out, r), <<r>>)
    BY <1>1, <1>6, WalkFail
  <2>2. WithFail(acc, Append(acc.out, r), <<r>>) \in Acc
    BY <1>1, <1>2, WithFailIs DEF FailIs
  <2> QED BY <2>1, <2>2
<1>7. CASE acc.failed = <<>> /\ r.state \in states /\ acc.st.dpr[f].write_ip /\ acc.ok # 0
  <2> DEFINE mid == WithSt(Done(acc, f, r), AddQ(Done(acc, f, r).st, "IP", f))  h == ToIp(r)
  <2>1. new = MergeIp(mid, f, h)
    BY <1>1, <1>7, WalkBoth
  <2>2. mid \in Acc
    BY <1>7, AddIpType
  <2>3. h \in Req /\ h.state = "IP"
    BY ToIpFields
  <2> HIDE DEF mid, h
  <2>4. MergeIp(mid, f, h) \in Acc
    BY <2>2, <2>3, MergeIpType
  <2> QED BY <2>1, <2>4
<1>8. CASE acc.failed = <<>> /\ r.state \in states /\ ~acc.st.dpr[f].write_ip /\ ~toLocal /\ acc.ok # 0
  <2>1. new = WithSt(Done(acc, f, r), FreeBlocks(Done(acc, f, r).st, 1))
    BY <1>1, <1>8, WalkSend
  <2>2. Done(acc, f, r) \in Acc
    BY <1>8, DoneFields DEF DoneIs
  <2>3. FreeBlocks(Done(acc, f, r).st, 1) \in State
    <3>1. Done(acc, f, r).st \in State /\ 1 \in Nat
      BY <2>2, AccFields
    <3> QED BY <3>1, FreeFields
  <2>4. WithSt(Done(acc, f, r), FreeBlocks(Done(acc, f, r).st, 1)) \in Acc
    BY <2>2, <2>3, WithStIs DEF AccIs
  <2> QED BY <2>1, <2>4
<1> QED BY <1>3, <1>4, <1>5, <1>6, <1>7, <1>8

Start(st, ok) == [st |-> st, out |-> <<>>, local |-> <<>>, failed |-> <<>>, ok |-> ok]
Walks(F, st, f, states, toLocal, ok) ==
    /\ F \in [0..Len(st.dpr[f].reqs) -> Acc] /\ F[0] = Start(st, ok)
    /\ \A i \in 1..Len(st.dpr[f].reqs) : F[i] = WalkOne(F[i - 1], f, states, toLocal, st.dpr[f].reqs[i])
Ended(all, f) == [all EXCEPT !.st.dpr[f].reqs = all.out]

\* The loop of _unified_flush_unlocked is a run of its rounds.
LEMMA WalkExists ==
    ASSUME NEW st \in State, NEW f \in Files, NEW states, states \subseteq DataStates, NEW toLocal, NEW ok \in Nat
    PROVE  \E F : Walks(F, st, f, states, toLocal, ok) /\ WalkReqs(st, f, states, toLocal, ok) = Ended(F[Len(st.dpr[f].reqs)], f)
<1> DEFINE reqs == st.dpr[f].reqs
           n == Len(reqs)
           a == Start(st, ok)
           Step(g) == [i \in 0..n |-> IF i = 0 THEN a ELSE WalkOne(g[i - 1], f, states, toLocal, reqs[i])]
           F == CHOOSE g : g = Step(g)
           step == [i \in 1..n |-> [x \in Acc |-> WalkOne(x, f, states, toLocal, reqs[i])]]
<1>1. reqs \in Seq(Req) /\ n \in Nat /\ \A i \in 1..n : reqs[i] \in Req
  <2>1. st.dpr[f] \in Dpr
    BY StateFields
  <2>2. reqs \in Seq(Req)
    BY <2>1, DprFields
  <2> QED BY <2>2
<1>2. a \in Acc
  BY DEF Acc, Start
<1> HIDE DEF a, n, reqs
<1>3. step \in [1..n -> [Acc -> Acc]]
  <2>1. \A i \in 1..n : \A x \in Acc : WalkOne(x, f, states, toLocal, reqs[i]) \in Acc
    BY <1>1, WalkOneType
  <2> QED BY <2>1
<1>4. PICK g \in [0..n -> Acc] : g[0] = a /\ \A i \in 1..n : g[i] = step[i][g[i - 1]]
  <2> HIDE DEF step, Step, F
  <2>1. n \in Nat /\ Steps(step, n, Acc)
    BY <1>1, <1>3 DEF Steps
  <2>2. \E g : Runs(g, n, Acc, a, step)
    BY <1>2, <2>1, FoldRuns
  <2> QED BY <2>2 DEF Runs
<1> HIDE DEF step
<1>5. \A i \in 1..n : i - 1 \in 0..n /\ g[i - 1] \in Acc
  BY <1>1, <1>4
<1>6. \A i \in 1..n : g[i] = WalkOne(g[i - 1], f, states, toLocal, reqs[i])
  BY <1>4, <1>5 DEF step
<1>7. g = Step(g)
  <2>1. \A i \in 0..n : i = 0 \/ i \in 1..n
    BY <1>1
  <2> QED BY <1>4, <1>6, <2>1
<1> HIDE DEF Step
<1>8. F = Step(F)
  BY <1>7
<1> HIDE DEF F
<1>9. F[0] = a /\ \A i \in 1..n : F[i] = WalkOne(F[i - 1], f, states, toLocal, reqs[i])
  <2>1. 0 \in 0..n /\ \A i \in 1..n : i \in 0..n /\ i # 0
    BY <1>1
  <2> QED BY <1>8, <2>1 DEF Step
<1>10. DOMAIN F = 0..n
  BY <1>8 DEF Step
<1>11. \A i \in 0..n : F[i] \in Acc
  <2> DEFINE T == {i \in 0..n : F[i] \in Acc}
  <2>1. 0 \in T
    BY <1>1, <1>2, <1>9
  <2>2. ASSUME NEW i \in 1..n, i - 1 \in T PROVE i \in T
    <3>1. F[i - 1] \in Acc /\ reqs[i] \in Req /\ i \in 0..n
      BY <1>1, <2>2
    <3>2. WalkOne(F[i - 1], f, states, toLocal, reqs[i]) \in Acc
      BY <3>1, WalkOneType
    <3> QED BY <1>9, <3>1, <3>2
  <2> HIDE DEF T
  <2>3. \A i \in 0..n : i \in T
    BY <1>1, <2>1, <2>2, Stepwise
  <2> QED BY <2>3 DEF T
<1>12. F \in [0..n -> Acc]
  <2>1. F = [i \in 0..n |-> F[i]]
    BY <1>8, <1>10 DEF Step
  <2> QED BY <1>11, <2>1
<1>13. Walks(F, st, f, states, toLocal, ok)
  BY <1>9, <1>12 DEF Walks, a, n, reqs
<1>14. WalkReqs(st, f, states, toLocal, ok) = Ended(F[n], f)
  BY DEF WalkReqs, Ended, F, Step, a, n, reqs, Start
<1> QED BY <1>13, <1>14 DEF n, reqs

\* Only what belongs to f differs, and of that neither flags nor requests.
WStep(st, st2, f) ==
    /\ st2 \in State /\ Books(st2)
    /\ SameDpr(st.dpr[f], st2.dpr[f])
    /\ \A g \in Files \ {f} : st2.dpr[g] = st.dpr[g] /\ st2.tape[g] = st.tape[g] /\ st2.size[g] = st.size[g]
    /\ st2.ext_queue = st.ext_queue
    /\ st2.less = st.less /\ st2.broken = st.broken /\ st2.nfaults = st.nfaults /\ st2.written = st.written
    /\ st.tape[f] \subseteq st2.tape[f]
IdsUpto(reqs, i) == UNION {reqs[j].ids : j \in 1..i}

WCount(acc, st, f, i) ==
    /\ \A q \in Queues \ {"IP"} : acc.st.dpr[f].inq[q] = st.dpr[f].inq[q]
    /\ acc.st.dpr[f].inq["IP"] = NumIn(acc.out, {"IP"}) + NumIn(st.dpr[f].reqs, {"IP"}) - Upto(st.dpr[f].reqs, i, {"IP"})
WKept(acc, st, f, i, states) ==
    /\ \A q \in Queues \ (states \cup {"IP"}) : NumIn(acc.out, {q}) = Upto(st.dpr[f].reqs, i, {q})
    /\ acc.failed = <<>> => \A k \in DOMAIN acc.out : acc.out[k].state \notin states
WLocal(acc, st, f, states, toLocal) ==
    /\ \A k \in DOMAIN acc.local : acc.local[k].state \in states
    /\ acc.local # <<>> => toLocal /\ ~st.dpr[f].write_ip
WIds(acc, st, f, i) ==
    \A e : e \in Ids(acc.out) \/ e \in Ids(acc.local) \/ e \in acc.st.tape[f]
           <=> e \in IdsUpto(st.dpr[f].reqs, i) \/ e \in st.tape[f]
WOk(acc, st, f, i, states, toLocal, ok) ==
    /\ toLocal /\ ~st.dpr[f].write_ip => acc.failed = <<>>
    /\ ~(toLocal /\ ~st.dpr[f].write_ip) /\ acc.failed = <<>> => acc.ok + Upto(st.dpr[f].reqs, i, states) = ok
    /\ ~(toLocal /\ ~st.dpr[f].write_ip) /\ acc.failed # <<>> => ok < Upto(st.dpr[f].reqs, i, states)
    /\ acc.failed # <<>> => Head(acc.failed).state \in states
WNoIp(acc, st, f) ==
    ~st.dpr[f].write_ip /\ (\A j \in DOMAIN st.dpr[f].reqs : st.dpr[f].reqs[j].state # "IP")
        => \A k \in DOMAIN acc.out : acc.out[k].state # "IP"
Walked(acc, st, f, i, states, toLocal, ok) ==
    /\ acc \in Acc /\ WStep(st, acc.st, f) /\ WCount(acc, st, f, i) /\ WKept(acc, st, f, i, states)
    /\ WLocal(acc, st, f, states, toLocal) /\ WIds(acc, st, f, i)
    /\ Fits(acc.out, acc.st.tape[f], st.dpr[f].file_size)
    /\ WOk(acc, st, f, i, states, toLocal, ok) /\ WNoIp(acc, st, f)

\* One more request.
Round(st, f, i, states, r) ==
    /\ r = st.dpr[f].reqs[i] /\ r \in Req
    /\ End(r) <= st.dpr[f].file_size /\ (r.state = "IP" => r.ids \subseteq st.tape[f])
    /\ \A S : Upto(st.dpr[f].reqs, i - 1, S) \in Nat
    /\ \A S : Upto(st.dpr[f].reqs, i, S) = Upto(st.dpr[f].reqs, i - 1, S) + (IF r.state \in S THEN 1 ELSE 0)
    /\ \A S : Upto(st.dpr[f].reqs, i, S) <= NumIn(st.dpr[f].reqs, S)
    /\ \A e : e \in IdsUpto(st.dpr[f].reqs, i) <=> e \in IdsUpto(st.dpr[f].reqs, i - 1) \/ e \in r.ids
    /\ \A S : NumIn(st.dpr[f].reqs, S) \in Nat
    /\ st.dpr[f].file_size \in Nat
    /\ (\A j \in DOMAIN st.dpr[f].reqs : st.dpr[f].reqs[j].state # "IP") => r.state # "IP"

\* What is known of request i before its round.
LEMMA RoundFacts ==
    ASSUME NEW st \in State, NEW f \in Files, NEW states, NEW i \in 1..Len(st.dpr[f].reqs),
           Fits(st.dpr[f].reqs, st.tape[f], st.dpr[f].file_size)
    PROVE  Round(st, f, i, states, st.dpr[f].reqs[i])
<1> DEFINE reqs == st.dpr[f].reqs  r == reqs[i]  n == Len(reqs)
<1>1. reqs \in Seq(Req) /\ st.dpr[f].file_size \in Nat
  <2>1. st.dpr[f] \in Dpr
    BY StateFields
  <2> QED BY <2>1, DprFields
<1> HIDE DEF reqs
<1>2. n \in Nat /\ i \in 1..n /\ DOMAIN reqs = 1..n /\ r \in Req /\ i \in Nat \ {0} /\ i - 1 \in Nat /\ i \in 0..n
  <2>1. i \in 1..n
    BY DEF reqs
  <2> QED BY <1>1, <2>1
<1> HIDE DEF n, r
<1>3. End(r) <= st.dpr[f].file_size /\ (r.state = "IP" => r.ids \subseteq st.tape[f])
  BY <1>2 DEF Fits, reqs, r
<1>4. \A S : Upto(reqs, i - 1, S) \in Nat
  BY <1>2, UptoStep
<1>5. \A S : Upto(reqs, i, S) = Upto(reqs, i - 1, S) + (IF r.state \in S THEN 1 ELSE 0)
  <2>1. TAKE S
  <2>2. \A j \in Nat \ {0} : Upto(reqs, j, S) = Upto(reqs, j - 1, S) + (IF reqs[j].state \in S THEN 1 ELSE 0)
    BY UptoStep
  <2> QED BY <1>2, <2>2 DEF r
<1>6. \A S : NumIn(reqs, S) \in Nat /\ NumIn(reqs, S) = Upto(reqs, n, S)
  BY <1>1, NumInUpto DEF n
<1>7. \A S : Upto(reqs, i, S) <= NumIn(reqs, S)
  <2>1. \A S : Upto(reqs, i, S) <= Upto(reqs, n, S)
    BY <1>2, UptoGrows
  <2> QED BY <1>6, <2>1
<1>8. \A e : e \in IdsUpto(reqs, i) <=> e \in IdsUpto(reqs, i - 1) \/ e \in r.ids
  <2>1. \A j : j \in 1..i <=> j \in 1..(i - 1) \/ j = i
    BY <1>2
  <2>2. \A k : \A e : e \in IdsUpto(reqs, k) <=> \E j \in 1..k : e \in reqs[j].ids
    BY DEF IdsUpto
  <2> QED BY <2>1, <2>2 DEF r
<1>9. (\A j \in DOMAIN reqs : reqs[j].state # "IP") => r.state # "IP"
  BY <1>2 DEF r
<1> QED BY <1>1, <1>2, <1>3, <1>4, <1>5, <1>6, <1>7, <1>8, <1>9 DEF Round, reqs, r

\* More data on the tape does no harm.
LEMMA FitsMore ==
    ASSUME NEW reqs, NEW T, NEW T2, NEW z, Fits(reqs, T, z), T \subseteq T2 PROVE Fits(reqs, T2, z)
BY DEF Fits

\* A request is kept as it is.
LEMMA WalkedKeep ==
    ASSUME NEW st \in State, NEW f \in Files, NEW states, states \subseteq DataStates, NEW toLocal \in BOOLEAN, NEW ok \in Nat,
           NEW i, NEW r, Round(st, f, i, states, r), NEW acc, Walked(acc, st, f, i - 1, states, toLocal, ok),
           acc.failed # <<>> \/ r.state \notin states \cup {"IP"}
    PROVE  Walked(WalkOne(acc, f, states, toLocal, r), st, f, i, states, toLocal, ok)
<1> DEFINE acc2 == WalkOne(acc, f, states, toLocal, r)  out == Append(acc.out, r)  z == st.dpr[f].file_size
<1>1. acc \in Acc /\ acc.out \in Seq(Req) /\ r \in Req /\ out \in Seq(Req)
  <2>1. acc \in Acc /\ r \in Req
    BY DEF Walked, Round
  <2> QED BY <2>1, AccFields
<1>2. AccIs(acc, acc2, out, acc.st)
  <2>1. acc2 = WithOut(acc, out)
    BY <1>1, WalkKeep
  <2> QED BY <1>1, <2>1, WithOutIs
<1>3. /\ Gained(acc.out, out, r)
      /\ NumIn(out, {r.state}) = NumIn(acc.out, {r.state}) + 1
      /\ \A T : \A y \in Nat : Fits(acc.out, T, y) /\ End(r) <= y /\ (r.state = "IP" => r.ids \subseteq T)
                      => Fits(out, T, y)
  BY <1>1, GainAppend
<1>4. \A k \in DOMAIN out : out[k] = r \/ \E j \in DOMAIN acc.out : out[k] = acc.out[j]
  BY <1>1
<1>5. \A q \in Queues : NumIn(out, {q}) = NumIn(acc.out, {q}) + (IF r.state = q THEN 1 ELSE 0) /\ NumIn(acc.out, {q}) \in Nat
  <2>1. \A q \in Queues : NumIn(acc.out, {q}) \in Nat
    BY <1>1, NumInUpto
  <2>2. TAKE q \in Queues
  <2>3. CASE r.state = q
    BY <1>3, <2>1, <2>3
  <2>4. CASE r.state # q
    BY <1>3, <2>1, <2>4 DEF Gained
  <2> QED BY <2>3, <2>4
<1> HIDE DEF acc2, out
<1>6. acc2.out = out /\ acc2.st = acc.st /\ acc2.local = acc.local /\ acc2.failed = acc.failed /\ acc2.ok = acc.ok /\ acc2 \in Acc
  BY <1>2 DEF AccIs
<1>7. WStep(st, acc2.st, f)
  BY <1>6 DEF Walked
<1>8. WCount(acc2, st, f, i)
  <2>1. "IP" \in Queues
    BY DEF Queues
  <2>2. /\ Upto(st.dpr[f].reqs, i, {"IP"}) = Upto(st.dpr[f].reqs, i - 1, {"IP"}) + (IF r.state \in {"IP"} THEN 1 ELSE 0)
        /\ Upto(st.dpr[f].reqs, i - 1, {"IP"}) \in Nat /\ NumIn(st.dpr[f].reqs, {"IP"}) \in Nat
    BY DEF Round
  <2>3. NumIn(out, {"IP"}) = NumIn(acc.out, {"IP"}) + (IF r.state = "IP" THEN 1 ELSE 0) /\ NumIn(acc.out, {"IP"}) \in Nat
    BY <1>5, <2>1
  <2>4. WCount(acc, st, f, i - 1)
    BY DEF Walked
  <2> QED BY <1>6, <2>2, <2>3, <2>4 DEF WCount
<1>9. WKept(acc2, st, f, i, states)
  <2>1. WKept(acc, st, f, i - 1, states)
    BY DEF Walked
  <2>2. \A q \in Queues \ (states \cup {"IP"}) : NumIn(out, {q}) = Upto(st.dpr[f].reqs, i, {q})
    <3>1. TAKE q \in Queues \ (states \cup {"IP"})
    <3>2. Upto(st.dpr[f].reqs, i, {q}) = Upto(st.dpr[f].reqs, i - 1, {q}) + (IF r.state \in {q} THEN 1 ELSE 0)
      BY DEF Round
    <3> QED BY <1>5, <2>1, <3>2 DEF WKept
  <2>3. acc.failed = <<>> => \A k \in DOMAIN out : out[k].state \notin states
    BY <1>4, <2>1 DEF WKept
  <2> QED BY <1>6, <2>2, <2>3 DEF WKept
<1>10. WLocal(acc2, st, f, states, toLocal)
  BY <1>6 DEF Walked, WLocal
<1>11. WIds(acc2, st, f, i)
  <2>1. \A e : e \in Ids(out) <=> e \in Ids(acc.out) \/ e \in r.ids
    BY <1>3 DEF Gained
  <2>2. WIds(acc, st, f, i - 1)
    BY DEF Walked
  <2>3. \A e : e \in IdsUpto(st.dpr[f].reqs, i) <=> e \in IdsUpto(st.dpr[f].reqs, i - 1) \/ e \in r.ids
    BY DEF Round
  <2> QED BY <1>6, <2>1, <2>2, <2>3 DEF WIds
<1>12. Fits(acc2.out, acc2.st.tape[f], st.dpr[f].file_size)
  <2>1. r.state = "IP" => r.ids \subseteq acc.st.tape[f]
    BY DEF Walked, Round, WStep
  <2>2. End(r) <= z /\ z \in Nat /\ Fits(acc.out, acc.st.tape[f], z)
    BY DEF Round, Walked
  <2> QED BY <1>3, <1>6, <2>1, <2>2
<1>13. WOk(acc2, st, f, i, states, toLocal, ok)
  <2>1. /\ Upto(st.dpr[f].reqs, i, states) = Upto(st.dpr[f].reqs, i - 1, states) + (IF r.state \in states THEN 1 ELSE 0)
        /\ Upto(st.dpr[f].reqs, i - 1, states) \in Nat
    BY DEF Round
  <2>2. WOk(acc, st, f, i - 1, states, toLocal, ok)
    BY DEF Walked
  <2> QED BY <1>6, <2>1, <2>2 DEF WOk
<1>14. WNoIp(acc2, st, f)
  <2>1. WNoIp(acc, st, f) /\ ((\A j \in DOMAIN st.dpr[f].reqs : st.dpr[f].reqs[j].state # "IP") => r.state # "IP")
    BY DEF Walked, Round
  <2> QED BY <1>4, <1>6, <2>1 DEF WNoIp
<1> QED BY <1>6, <1>7, <1>8, <1>9, <1>10, <1>11, <1>12, <1>13, <1>14 DEF Walked, acc2

\* All is done for request r but to put it, as a request for the index partition, in the list.
Ready(acc, st, f, i, states, toLocal, ok, r) ==
    /\ acc \in Acc /\ WStep(st, acc.st, f) /\ acc.failed = <<>>
    /\ Fits(acc.out, acc.st.tape[f], st.dpr[f].file_size)
    /\ \A q \in Queues \ {"IP"} : acc.st.dpr[f].inq[q] = st.dpr[f].inq[q]
    /\ acc.st.dpr[f].inq["IP"] = NumIn(acc.out, {"IP"}) + NumIn(st.dpr[f].reqs, {"IP"}) - Upto(st.dpr[f].reqs, i, {"IP"}) + 1
    /\ WKept(acc, st, f, i, states) /\ WLocal(acc, st, f, states, toLocal) /\ WIds(acc, st, f, i)
    /\ WOk(acc, st, f, i, states, toLocal, ok)
    /\ st.dpr[f].write_ip \/ \E j \in DOMAIN st.dpr[f].reqs : st.dpr[f].reqs[j].state = "IP"
    /\ r \in Req /\ r.state = "IP" /\ r.ids \subseteq acc.st.tape[f] /\ End(r) <= st.dpr[f].file_size

\* A queue step after a round of the loop.
LEMMA WStepF ==
    ASSUME NEW st, NEW st1, NEW st2, NEW f \in Files, WStep(st, st1, f), FStep(st1, st2, f)
    PROVE  WStep(st, st2, f) /\ st2.tape = st1.tape
BY DEF WStep, FStep, SameDpr

\* Merging ends the round.
LEMMA MergeReady ==
    ASSUME NEW st \in State, NEW f \in Files, NEW states, states \subseteq DataStates, NEW toLocal \in BOOLEAN, NEW ok \in Nat,
           NEW i, NEW acc, NEW r, Ready(acc, st, f, i, states, toLocal, ok, r),
           Upto(st.dpr[f].reqs, i, {"IP"}) \in Nat, NumIn(st.dpr[f].reqs, {"IP"}) \in Nat,
           Upto(st.dpr[f].reqs, i, {"IP"}) <= NumIn(st.dpr[f].reqs, {"IP"}), st.dpr[f].file_size \in Nat
    PROVE  Walked(MergeIp(acc, f, r), st, f, i, states, toLocal, ok)
<1> DEFINE acc2 == MergeIp(acc, f, r)  z == st.dpr[f].file_size
<1>1. acc \in Acc /\ acc.out \in Seq(Req) /\ r \in Req /\ r.state = "IP" /\ Books(acc.st)
  <2>1. acc \in Acc /\ r \in Req /\ r.state = "IP" /\ Books(acc.st)
    BY DEF Ready, WStep
  <2> QED BY <2>1, AccFields
<1>2. NumIn(acc.out, {"IP"}) \in Nat
  BY <1>1, NumInUpto
<1>3. acc.st.dpr[f].inq["IP"] > 0
  BY <1>2 DEF Ready
<1>4. MergedAcc(acc, acc2, f, r)
  BY <1>1, <1>3, MergeIpOK
<1> HIDE DEF acc2
<1>5. NumIn(acc2.out, {"IP"}) \in Nat
  <2>1. acc2.out \in Seq(Req)
    BY <1>4 DEF MergedAcc, Gained
  <2> QED BY <2>1, NumInUpto
<1>6. WStep(st, acc2.st, f) /\ acc2.st.tape = acc.st.tape
  BY <1>4, WStepF DEF MergedAcc, Ready
<1>7. WCount(acc2, st, f, i)
  <2>1. \A q \in Queues \ {"IP"} : acc2.st.dpr[f].inq[q] = st.dpr[f].inq[q]
    BY <1>4 DEF MergedAcc, Ready
  <2>2. acc2.st.dpr[f].inq["IP"] - NumIn(acc2.out, {"IP"}) = acc.st.dpr[f].inq["IP"] - NumIn(acc.out, {"IP"}) - 1
    BY <1>4 DEF MergedAcc
  <2>3. acc.st.dpr[f].inq["IP"] = NumIn(acc.out, {"IP"}) + NumIn(st.dpr[f].reqs, {"IP"}) - Upto(st.dpr[f].reqs, i, {"IP"}) + 1
    BY DEF Ready
  <2>4. acc2.st.dpr[f].inq["IP"] \in Nat
    <3>1. acc2.st.dpr[f] \in Dpr
      BY <1>6, StateFields DEF WStep
    <3> QED BY <3>1, DprFields DEF Queues
  <2>5. acc2.st.dpr[f].inq["IP"] = NumIn(acc2.out, {"IP"}) + NumIn(st.dpr[f].reqs, {"IP"}) - Upto(st.dpr[f].reqs, i, {"IP"})
    BY <1>2, <1>5, <2>2, <2>3, <2>4
  <2> QED BY <2>1, <2>5 DEF WCount
<1>8. \A k \in DOMAIN acc2.out : acc2.out[k].state = "IP" \/ \E j \in DOMAIN acc.out : acc2.out[k] = acc.out[j]
  BY <1>1, <1>4 DEF MergedAcc, Gained
<1>9. WKept(acc2, st, f, i, states)
  <2>1. WKept(acc, st, f, i, states) /\ "IP" \notin states
    BY DEF Ready, DataStates
  <2>2. \A q \in Queues \ {"IP"} : NumIn(acc2.out, {q}) = NumIn(acc.out, {q})
    BY <1>1, <1>4 DEF MergedAcc, Gained
  <2>3. acc2.failed = <<>> /\ acc.failed = <<>>
    BY <1>4 DEF MergedAcc, Ready
  <2> QED BY <1>8, <2>1, <2>2, <2>3 DEF WKept
<1>10. WLocal(acc2, st, f, states, toLocal)
  BY <1>4 DEF MergedAcc, Ready, WLocal
<1>11. WIds(acc2, st, f, i)
  <2>1. \A e : e \in Ids(acc2.out) <=> e \in Ids(acc.out) \/ e \in r.ids
    BY <1>4 DEF MergedAcc, Gained
  <2>2. WIds(acc, st, f, i) /\ acc2.local = acc.local /\ r.ids \subseteq acc.st.tape[f]
    BY <1>4 DEF MergedAcc, Ready
  <2> QED BY <1>6, <2>1, <2>2 DEF WIds
<1>12. Fits(acc2.out, acc2.st.tape[f], z)
  <2>1. Fits(acc.out, acc.st.tape[f], z) /\ End(r) <= z /\ r.ids \subseteq acc.st.tape[f]
    BY DEF Ready
  <2> QED BY <1>4, <1>6, <2>1 DEF MergedAcc
<1>13. WOk(acc2, st, f, i, states, toLocal, ok)
  BY <1>4 DEF MergedAcc, Ready, WOk
<1>14. WNoIp(acc2, st, f)
  BY DEF Ready, WNoIp
<1> QED BY <1>4, <1>6, <1>7, <1>9, <1>10, <1>11, <1>12, <1>13, <1>14 DEF Walked, MergedAcc, acc2

\* A request for the index partition.
LEMMA WalkedIp ==
    ASSUME NEW st \in State, NEW f \in Files, NEW states, states \subseteq DataStates, NEW toLocal \in BOOLEAN, NEW ok \in Nat,
           NEW i \in DOMAIN st.dpr[f].reqs, NEW r, Round(st, f, i, states, r), NEW acc, Walked(acc, st, f, i - 1, states, toLocal, ok),
           acc.failed = <<>>, r.state = "IP"
    PROVE  Walked(WalkOne(acc, f, states, toLocal, r), st, f, i, states, toLocal, ok)
<1>1. acc \in Acc /\ r \in Req /\ "IP" \notin states
  BY DEF Walked, Round, DataStates
<1>2. WalkOne(acc, f, states, toLocal, r) = MergeIp(acc, f, r)
  BY <1>1, WalkIp
<1>3. /\ Upto(st.dpr[f].reqs, i, {"IP"}) = Upto(st.dpr[f].reqs, i - 1, {"IP"}) + (IF r.state \in {"IP"} THEN 1 ELSE 0)
      /\ Upto(st.dpr[f].reqs, i - 1, {"IP"}) \in Nat /\ NumIn(st.dpr[f].reqs, {"IP"}) \in Nat
      /\ Upto(st.dpr[f].reqs, i, {"IP"}) <= NumIn(st.dpr[f].reqs, {"IP"})
  BY DEF Round
<1>4. NumIn(acc.out, {"IP"}) \in Nat
  BY <1>1, AccFields, NumInUpto
<1>5. acc.st.dpr[f].inq["IP"] = NumIn(acc.out, {"IP"}) + NumIn(st.dpr[f].reqs, {"IP"}) - Upto(st.dpr[f].reqs, i, {"IP"}) + 1
  <2>1. acc.st.dpr[f].inq["IP"] = NumIn(acc.out, {"IP"}) + NumIn(st.dpr[f].reqs, {"IP"}) - Upto(st.dpr[f].reqs, i - 1, {"IP"})
    BY DEF Walked, WCount
  <2> QED BY <1>3, <1>4, <2>1
<1>6. WKept(acc, st, f, i, states)
  <2>1. WKept(acc, st, f, i - 1, states)
    BY DEF Walked
  <2>2. \A q \in Queues \ (states \cup {"IP"}) : Upto(st.dpr[f].reqs, i, {q}) = Upto(st.dpr[f].reqs, i - 1, {q})
    <3>1. TAKE q \in Queues \ (states \cup {"IP"})
    <3>2. Upto(st.dpr[f].reqs, i, {q}) = Upto(st.dpr[f].reqs, i - 1, {q}) + (IF r.state \in {q} THEN 1 ELSE 0) /\ Upto(st.dpr[f].reqs, i - 1, {q}) \in Nat
      BY DEF Round
    <3> QED BY <3>2
  <2> QED BY <2>1, <2>2 DEF WKept
<1>7. WOk(acc, st, f, i, states, toLocal, ok)
  <2>1. /\ Upto(st.dpr[f].reqs, i, states) = Upto(st.dpr[f].reqs, i - 1, states) + (IF r.state \in states THEN 1 ELSE 0)
        /\ Upto(st.dpr[f].reqs, i - 1, states) \in Nat
    BY DEF Round
  <2>2. WOk(acc, st, f, i - 1, states, toLocal, ok)
    BY DEF Walked
  <2> QED BY <1>1, <2>1, <2>2 DEF WOk
<1>8. r.ids \subseteq acc.st.tape[f] /\ r.ids \subseteq st.tape[f]
  BY DEF Walked, Round, WStep
<1>9. WIds(acc, st, f, i)
  <2>2. WIds(acc, st, f, i - 1)
    BY DEF Walked
  <2>3. \A e : e \in IdsUpto(st.dpr[f].reqs, i) <=> e \in IdsUpto(st.dpr[f].reqs, i - 1) \/ e \in r.ids
    BY DEF Round
  <2> QED BY <1>8, <2>2, <2>3 DEF WIds
<1>10. \E j \in DOMAIN st.dpr[f].reqs : st.dpr[f].reqs[j].state = "IP"
  BY DEF Round
<1>11. WLocal(acc, st, f, states, toLocal) /\ WStep(st, acc.st, f) /\ Fits(acc.out, acc.st.tape[f], st.dpr[f].file_size)
       /\ (\A q \in Queues \ {"IP"} : acc.st.dpr[f].inq[q] = st.dpr[f].inq[q])
       /\ End(r) <= st.dpr[f].file_size /\ st.dpr[f].file_size \in Nat
  BY DEF Walked, WCount, Round
<1>12. Ready(acc, st, f, i, states, toLocal, ok, r)
  BY <1>1, <1>5, <1>6, <1>7, <1>8, <1>9, <1>10, <1>11 DEF Ready
<1>13. Upto(st.dpr[f].reqs, i, {"IP"}) \in Nat
  BY <1>3
<1>14. Walked(MergeIp(acc, f, r), st, f, i, states, toLocal, ok)
  BY <1>3, <1>11, <1>12, <1>13, MergeReady
<1> QED BY <1>2, <1>14

\* The writer thread takes a request over.
LEMMA WalkedLocal ==
    ASSUME NEW st \in State, NEW f \in Files, NEW states, states \subseteq DataStates, NEW toLocal \in BOOLEAN, NEW ok \in Nat,
           NEW i, NEW r, Round(st, f, i, states, r), NEW acc, Walked(acc, st, f, i - 1, states, toLocal, ok),
           acc.failed = <<>>, r.state \in states, toLocal, ~st.dpr[f].write_ip
    PROVE  Walked(WalkOne(acc, f, states, toLocal, r), st, f, i, states, toLocal, ok)
<1> DEFINE acc2 == WalkOne(acc, f, states, toLocal, r)  l == Append(acc.local, r)
<1>1. acc \in Acc /\ acc.out \in Seq(Req) /\ r \in Req /\ l \in Seq(Req) /\ "IP" \notin states /\ acc.local \in Seq(Req)
  <2>1. acc \in Acc /\ r \in Req /\ "IP" \notin states
    BY DEF Walked, Round, DataStates
  <2> QED BY <2>1, AccFields
<1>2. ~acc.st.dpr[f].write_ip
  BY DEF Walked, WStep, SameDpr
<1>3. acc2 = WithLocal(acc, l)
  BY <1>1, <1>2, WalkLocal
<1>4. \A k \in DOMAIN l : l[k] = r \/ \E j \in DOMAIN acc.local : l[k] = acc.local[j]
  BY <1>1
<1>5. Ids(l) = Ids(acc.local) \cup r.ids
  BY <1>1, IdsAppend
<1> HIDE DEF acc2, l
<1>6. acc2.out = acc.out /\ acc2.st = acc.st /\ acc2.local = l /\ acc2.failed = acc.failed /\ acc2.ok = acc.ok /\ acc2 \in Acc
  BY <1>1, <1>3, WithLocalIs
<1>8. WCount(acc2, st, f, i)
  <2>2. /\ Upto(st.dpr[f].reqs, i, {"IP"}) = Upto(st.dpr[f].reqs, i - 1, {"IP"}) + (IF r.state \in {"IP"} THEN 1 ELSE 0)
        /\ Upto(st.dpr[f].reqs, i - 1, {"IP"}) \in Nat
    BY DEF Round
  <2>4. WCount(acc, st, f, i - 1) /\ r.state # "IP"
    BY <1>1 DEF Walked
  <2> QED BY <1>6, <2>2, <2>4 DEF WCount
<1>9. WKept(acc2, st, f, i, states)
  <2>1. WKept(acc, st, f, i - 1, states)
    BY DEF Walked
  <2>2. \A q \in Queues \ (states \cup {"IP"}) : Upto(st.dpr[f].reqs, i, {q}) = Upto(st.dpr[f].reqs, i - 1, {q})
    <3>1. TAKE q \in Queues \ (states \cup {"IP"})
    <3>2. Upto(st.dpr[f].reqs, i, {q}) = Upto(st.dpr[f].reqs, i - 1, {q}) + (IF r.state \in {q} THEN 1 ELSE 0) /\ Upto(st.dpr[f].reqs, i - 1, {q}) \in Nat
      BY DEF Round
    <3> QED BY <3>2
  <2> QED BY <1>6, <2>1, <2>2 DEF WKept
<1>10. WLocal(acc2, st, f, states, toLocal)
  BY <1>4, <1>6 DEF Walked, WLocal
<1>11. WIds(acc2, st, f, i)
  <2>2. WIds(acc, st, f, i - 1)
    BY DEF Walked
  <2>3. \A e : e \in IdsUpto(st.dpr[f].reqs, i) <=> e \in IdsUpto(st.dpr[f].reqs, i - 1) \/ e \in r.ids
    BY DEF Round
  <2> QED BY <1>5, <1>6, <2>2, <2>3 DEF WIds
<1>13. WOk(acc2, st, f, i, states, toLocal, ok)
  BY <1>6 DEF Walked, WOk
<1>14. WNoIp(acc2, st, f) /\ WStep(st, acc2.st, f) /\ Fits(acc2.out, acc2.st.tape[f], st.dpr[f].file_size)
  BY <1>6 DEF Walked, WNoIp
<1> QED BY <1>6, <1>8, <1>9, <1>10, <1>11, <1>13, <1>14 DEF Walked, acc2

\* The tape refuses the request.
LEMMA WalkedFail ==
    ASSUME NEW st \in State, NEW f \in Files, NEW states, states \subseteq DataStates, NEW toLocal \in BOOLEAN, NEW ok \in Nat,
           NEW i, NEW r, Round(st, f, i, states, r), NEW acc, Walked(acc, st, f, i - 1, states, toLocal, ok),
           acc.failed = <<>>, r.state \in states, ~(toLocal /\ ~st.dpr[f].write_ip), acc.ok = 0
    PROVE  Walked(WalkOne(acc, f, states, toLocal, r), st, f, i, states, toLocal, ok)
<1> DEFINE acc2 == WalkOne(acc, f, states, toLocal, r)  out == Append(acc.out, r)  z == st.dpr[f].file_size  l == <<r>>
<1>1. acc \in Acc /\ acc.out \in Seq(Req) /\ r \in Req /\ out \in Seq(Req) /\ "IP" \notin states /\ l \in Seq(Req)
  <2>1. acc \in Acc /\ r \in Req /\ "IP" \notin states
    BY DEF Walked, Round, DataStates
  <2> QED BY <2>1, AccFields
<1>2. ~(toLocal /\ ~acc.st.dpr[f].write_ip)
  BY DEF Walked, WStep, SameDpr
<1>20. acc2 = WithFail(acc, out, l)
  BY <1>1, <1>2, WalkFail
<1>3. /\ Gained(acc.out, out, r)
      /\ \A T : \A y \in Nat : Fits(acc.out, T, y) /\ End(r) <= y /\ (r.state = "IP" => r.ids \subseteq T)
                      => Fits(out, T, y)
  BY <1>1, GainAppend
<1>4. \A k \in DOMAIN out : out[k] = r \/ \E j \in DOMAIN acc.out : out[k] = acc.out[j]
  BY <1>1
<1>5. r.state \in states /\ r.state # "IP" /\ l # <<>> /\ Head(l) = r
  BY <1>1
<1> HIDE DEF acc2, out, l
<1>6. acc2.out = out /\ acc2.st = acc.st /\ acc2.local = acc.local /\ acc2.failed = l /\ acc2.ok = acc.ok /\ acc2 \in Acc
  <2>1. FailIs(acc, WithFail(acc, out, l), out, l)
    BY <1>1, WithFailIs
  <2> QED BY <1>20, <2>1 DEF FailIs
<1>7. WStep(st, acc2.st, f)
  BY <1>6 DEF Walked
<1>8. WCount(acc2, st, f, i)
  <2>1. "IP" \in Queues \ {r.state}
    BY <1>5 DEF Queues
  <2>2. /\ Upto(st.dpr[f].reqs, i, {"IP"}) = Upto(st.dpr[f].reqs, i - 1, {"IP"}) + (IF r.state \in {"IP"} THEN 1 ELSE 0)
        /\ Upto(st.dpr[f].reqs, i - 1, {"IP"}) \in Nat
    BY DEF Round
  <2>3. NumIn(out, {"IP"}) = NumIn(acc.out, {"IP"})
    BY <1>3, <2>1 DEF Gained
  <2>4. WCount(acc, st, f, i - 1)
    BY DEF Walked
  <2> QED BY <1>5, <1>6, <2>2, <2>3, <2>4 DEF WCount
<1>9. WKept(acc2, st, f, i, states)
  <2>1. WKept(acc, st, f, i - 1, states)
    BY DEF Walked
  <2>2. \A q \in Queues \ (states \cup {"IP"}) : NumIn(out, {q}) = Upto(st.dpr[f].reqs, i, {q})
    <3>1. TAKE q \in Queues \ (states \cup {"IP"})
    <3>2. Upto(st.dpr[f].reqs, i, {q}) = Upto(st.dpr[f].reqs, i - 1, {q}) + (IF r.state \in {q} THEN 1 ELSE 0) /\ Upto(st.dpr[f].reqs, i - 1, {q}) \in Nat
      BY DEF Round
    <3>3. NumIn(out, {q}) = NumIn(acc.out, {q})
      BY <1>3, <1>5 DEF Gained
    <3> QED BY <1>5, <2>1, <3>2, <3>3 DEF WKept
  <2> QED BY <1>5, <1>6, <2>2 DEF WKept
<1>10. WLocal(acc2, st, f, states, toLocal)
  BY <1>6 DEF Walked, WLocal
<1>11. WIds(acc2, st, f, i)
  <2>1. \A e : e \in Ids(out) <=> e \in Ids(acc.out) \/ e \in r.ids
    BY <1>3 DEF Gained
  <2>2. WIds(acc, st, f, i - 1)
    BY DEF Walked
  <2>3. \A e : e \in IdsUpto(st.dpr[f].reqs, i) <=> e \in IdsUpto(st.dpr[f].reqs, i - 1) \/ e \in r.ids
    BY DEF Round
  <2> QED BY <1>6, <2>1, <2>2, <2>3 DEF WIds
<1>12. Fits(acc2.out, acc2.st.tape[f], st.dpr[f].file_size)
  <2>2. End(r) <= z /\ z \in Nat /\ Fits(acc.out, acc.st.tape[f], z)
    BY DEF Round, Walked
  <2> QED BY <1>3, <1>5, <1>6, <2>2
<1>13. WOk(acc2, st, f, i, states, toLocal, ok)
  <2>1. /\ Upto(st.dpr[f].reqs, i, states) = Upto(st.dpr[f].reqs, i - 1, states) + (IF r.state \in states THEN 1 ELSE 0)
        /\ Upto(st.dpr[f].reqs, i - 1, states) \in Nat
    BY DEF Round
  <2>2. WOk(acc, st, f, i - 1, states, toLocal, ok)
    BY DEF Walked
  <2> QED BY <1>5, <1>6, <2>1, <2>2 DEF WOk
<1>14. WNoIp(acc2, st, f)
  <2>1. WNoIp(acc, st, f)
    BY DEF Walked
  <2> QED BY <1>4, <1>5, <1>6, <2>1 DEF WNoIp
<1> QED BY <1>6, <1>7, <1>8, <1>9, <1>10, <1>11, <1>12, <1>13, <1>14 DEF Walked, acc2

\* Writing a request to the tape within the loop.
LEMMA TapeStep ==
    ASSUME NEW st, NEW st0, NEW f \in Files, NEW r \in Req, WStep(st, st0, f)
    PROVE  /\ WStep(st, ToTape(st0, f, r), f) /\ ToTape(st0, f, r).dpr = st0.dpr
           /\ ToTape(st0, f, r).tape[f] = st0.tape[f] \cup r.ids
<1> DEFINE st1 == ToTape(st0, f, r)
<1>1. st0 \in State /\ Books(st0)
  BY DEF WStep
<1>2. /\ st1 \in State
      /\ st1.dpr = st0.dpr /\ st1.queue = st0.queue
      /\ st1.count = st0.count /\ st1.ext_queue = st0.ext_queue
      /\ st1.tape = [st0.tape EXCEPT ![f] = st0.tape[f] \cup r.ids]
      /\ \A g \in Files \ {f} : st1.size[g] = st0.size[g]
      /\ st1.less = st0.less /\ st1.broken = st0.broken
      /\ st1.nfaults = st0.nfaults /\ st1.written = st0.written
  BY <1>1, ToTapeFields
<1> HIDE DEF st1
<1>3. st0.tape \in [Files -> SUBSET Pos]
  BY <1>1, StateFields
<1>4. st1.tape[f] = st0.tape[f] \cup r.ids /\ \A g \in Files \ {f} : st1.tape[g] = st0.tape[g]
  BY <1>2, <1>3
<1>5. Books(st1)
  BY <1>1, <1>2 DEF Books, Counted
<1>6. WStep(st, st1, f)
  BY <1>2, <1>4, <1>5 DEF WStep, SameDpr
<1> QED BY <1>2, <1>4, <1>6 DEF st1

\* What a request that has reached the tape changes, apart from the list.
LEMMA WalkedDone ==
    ASSUME NEW st \in State, NEW f \in Files, NEW states, states \subseteq DataStates, NEW toLocal \in BOOLEAN, NEW ok \in Nat,
           NEW i, NEW r, Round(st, f, i, states, r), NEW acc, Walked(acc, st, f, i - 1, states, toLocal, ok),
           acc.failed = <<>>, r.state \in states, ~(toLocal /\ ~st.dpr[f].write_ip), acc.ok # 0,
           NEW acc2 \in Acc, acc2.out = acc.out, acc2.local = acc.local, acc2.failed = <<>>, acc2.ok = acc.ok - 1,
           \A e : e \in acc2.st.tape[f] <=> e \in acc.st.tape[f] \/ e \in r.ids
    PROVE  /\ WKept(acc2, st, f, i, states) /\ WLocal(acc2, st, f, states, toLocal) /\ WIds(acc2, st, f, i)
           /\ WOk(acc2, st, f, i, states, toLocal, ok) /\ WNoIp(acc2, st, f)
           /\ Fits(acc2.out, acc2.st.tape[f], st.dpr[f].file_size)
<1>1. acc.ok \in Nat /\ acc2.ok \in Nat
  BY AccFields DEF Walked
<1>2. WKept(acc2, st, f, i, states)
  <2>1. WKept(acc, st, f, i - 1, states)
    BY DEF Walked
  <2>2. \A q \in Queues \ (states \cup {"IP"}) : Upto(st.dpr[f].reqs, i, {q}) = Upto(st.dpr[f].reqs, i - 1, {q})
    <3>1. TAKE q \in Queues \ (states \cup {"IP"})
    <3>2. Upto(st.dpr[f].reqs, i, {q}) = Upto(st.dpr[f].reqs, i - 1, {q}) + (IF r.state \in {q} THEN 1 ELSE 0) /\ Upto(st.dpr[f].reqs, i - 1, {q}) \in Nat
      BY DEF Round
    <3> QED BY <3>2
  <2> QED BY <2>1, <2>2 DEF WKept
<1>3. WLocal(acc2, st, f, states, toLocal) /\ WNoIp(acc2, st, f)
  BY DEF Walked, WLocal, WNoIp
<1>4. WIds(acc2, st, f, i)
  <2>2. WIds(acc, st, f, i - 1)
    BY DEF Walked
  <2>3. \A e : e \in IdsUpto(st.dpr[f].reqs, i) <=> e \in IdsUpto(st.dpr[f].reqs, i - 1) \/ e \in r.ids
    BY DEF Round
  <2> QED BY <2>2, <2>3 DEF WIds
<1>5. WOk(acc2, st, f, i, states, toLocal, ok)
  <2>1. /\ Upto(st.dpr[f].reqs, i, states) = Upto(st.dpr[f].reqs, i - 1, states) + (IF r.state \in states THEN 1 ELSE 0)
        /\ Upto(st.dpr[f].reqs, i - 1, states) \in Nat
    BY DEF Round
  <2>2. WOk(acc, st, f, i - 1, states, toLocal, ok)
    BY DEF Walked
  <2> QED BY <1>1, <2>1, <2>2 DEF WOk
<1>6. Fits(acc2.out, acc2.st.tape[f], st.dpr[f].file_size)
  BY FitsMore DEF Walked
<1> QED BY <1>2, <1>3, <1>4, <1>5, <1>6

\* It leaves the scheduler.
LEMMA WalkedSend ==
    ASSUME NEW st \in State, NEW f \in Files, NEW states, states \subseteq DataStates, NEW toLocal \in BOOLEAN, NEW ok \in Nat,
           NEW i, NEW r, Round(st, f, i, states, r), NEW acc, Walked(acc, st, f, i - 1, states, toLocal, ok),
           acc.failed = <<>>, r.state \in states, ~st.dpr[f].write_ip, ~toLocal, acc.ok # 0
    PROVE  Walked(WalkOne(acc, f, states, toLocal, r), st, f, i, states, toLocal, ok)
<1> DEFINE acc2 == WalkOne(acc, f, states, toLocal, r)  d == Done(acc, f, r)  st1 == ToTape(acc.st, f, r)  st2 == FreeBlocks(st1, 1)
<1>1. acc \in Acc /\ r \in Req /\ "IP" \notin states /\ r.state # "IP" /\ WStep(st, acc.st, f)
  BY DEF Walked, Round, DataStates
<1>2. ~acc.st.dpr[f].write_ip
  BY <1>1 DEF WStep, SameDpr
<1>3. acc2 = WithSt(d, FreeBlocks(d.st, 1))
  BY <1>1, <1>2, WalkSend
<1>4. DoneIs(acc, d, f, r)
  BY <1>1, DoneFields
<1>5. WStep(st, st1, f) /\ st1.dpr = acc.st.dpr /\ st1.tape[f] = acc.st.tape[f] \cup r.ids
  BY <1>1, TapeStep
<1> HIDE DEF d, acc2, st1
<1>6. d \in Acc /\ d.st = st1 /\ d.ok = acc.ok - 1 /\ d.out = acc.out /\ d.local = acc.local /\ d.failed = acc.failed
  BY <1>4 DEF DoneIs, st1
<1>7. FStep(st1, st2, f) /\ st2.dpr = st1.dpr
  <2>1. QStep(st1, st1, f)
    BY <1>5, QStepSame DEF WStep
  <2> QED BY <2>1, FreeStep
<1> HIDE DEF st2
<1>8. WStep(st, st2, f) /\ st2.tape = st1.tape
  BY <1>5, <1>7, WStepF
<1>9. AccIs(d, acc2, d.out, st2)
  <2>1. st2 \in State
    BY <1>7 DEF FStep
  <2>2. acc2 = WithSt(d, st2)
    BY <1>3, <1>6 DEF st2
  <2> QED BY <1>6, <2>1, <2>2, WithStIs
<1>10. acc2 \in Acc /\ acc2.st = st2 /\ acc2.ok = acc.ok - 1 /\ acc2.out = acc.out /\ acc2.local = acc.local /\ acc2.failed = <<>>
  BY <1>6, <1>9 DEF AccIs
<1>11. \A e : e \in acc2.st.tape[f] <=> e \in acc.st.tape[f] \/ e \in r.ids
  BY <1>5, <1>8, <1>10
<1>12. /\ WKept(acc2, st, f, i, states) /\ WLocal(acc2, st, f, states, toLocal) /\ WIds(acc2, st, f, i)
       /\ WOk(acc2, st, f, i, states, toLocal, ok) /\ WNoIp(acc2, st, f)
       /\ Fits(acc2.out, acc2.st.tape[f], st.dpr[f].file_size)
  BY <1>10, <1>11, WalkedDone
<1>13. WCount(acc2, st, f, i)
  <2>1. /\ Upto(st.dpr[f].reqs, i, {"IP"}) = Upto(st.dpr[f].reqs, i - 1, {"IP"}) + (IF r.state \in {"IP"} THEN 1 ELSE 0)
        /\ Upto(st.dpr[f].reqs, i - 1, {"IP"}) \in Nat
    BY DEF Round
  <2>2. WCount(acc, st, f, i - 1)
    BY DEF Walked
  <2> QED BY <1>1, <1>5, <1>7, <1>10, <2>1, <2>2 DEF WCount
<1>14. WStep(st, acc2.st, f)
  BY <1>8, <1>10
<1> QED BY <1>10, <1>12, <1>13, <1>14 DEF Walked, acc2

\* AddQOK for the IP queue.
LEMMA AddQIp ==
    ASSUME NEW st \in State, NEW f \in Files, Books(st)
    PROVE  /\ QStep(st, AddQ(st, "IP", f), f)
           /\ AddQ(st, "IP", f).dpr[f].inq = [st.dpr[f].inq EXCEPT !["IP"] = st.dpr[f].inq["IP"] + 1]
<1>1. "IP" \in Queues
  BY DEF Queues
<1> QED BY <1>1, AddQOK

\* A queue step leaves the number of free blocks open.
LEMMA QStepF == ASSUME NEW st, NEW st2, NEW f, QStep(st, st2, f) PROVE FStep(st, st2, f)
BY DEF QStep, FStep, SameRest

\* It becomes a request for the index partition.
LEMMA WalkedBoth ==
    ASSUME NEW st \in State, NEW f \in Files, NEW states, states \subseteq DataStates, NEW toLocal \in BOOLEAN, NEW ok \in Nat,
           NEW i, NEW r, Round(st, f, i, states, r), NEW acc, Walked(acc, st, f, i - 1, states, toLocal, ok),
           acc.failed = <<>>, r.state \in states, st.dpr[f].write_ip, acc.ok # 0
    PROVE  Walked(WalkOne(acc, f, states, toLocal, r), st, f, i, states, toLocal, ok)
<1> DEFINE d == Done(acc, f, r)  st1 == ToTape(acc.st, f, r)  st2 == AddQ(st1, "IP", f)
           acc2 == WithSt(d, AddQ(d.st, "IP", f))  h == ToIp(r)
<1>1. acc \in Acc /\ r \in Req /\ "IP" \notin states /\ r.state # "IP" /\ WStep(st, acc.st, f)
  BY DEF Walked, Round, DataStates
<1>2. acc.st.dpr[f].write_ip
  BY <1>1 DEF WStep, SameDpr
<1>3. WalkOne(acc, f, states, toLocal, r) = MergeIp(acc2, f, h)
  BY <1>1, <1>2, WalkBoth
<1>4. DoneIs(acc, d, f, r)
  BY <1>1, DoneFields
<1>5. WStep(st, st1, f) /\ st1.dpr = acc.st.dpr /\ st1.tape[f] = acc.st.tape[f] \cup r.ids
  BY <1>1, TapeStep
<1>20. h \in Req /\ h.state = "IP" /\ h.ids = r.ids /\ End(h) = End(r)
  BY <1>1, ToIpFields
<1> HIDE DEF d, st1, h
<1>6. d \in Acc /\ d.st = st1 /\ d.ok = acc.ok - 1 /\ d.out = acc.out /\ d.local = acc.local /\ d.failed = acc.failed
  BY <1>4 DEF DoneIs, st1
<1>7. QStep(st1, st2, f) /\ st2.dpr[f].inq = [st1.dpr[f].inq EXCEPT !["IP"] = st1.dpr[f].inq["IP"] + 1]
  <2>1. st1 \in State /\ Books(st1)
    BY <1>5 DEF WStep
  <2> QED BY <2>1, AddQIp
<1>21. acc2 = WithSt(d, st2)
  BY <1>6
<1> HIDE DEF st2, acc2
<1>8. WStep(st, st2, f) /\ st2.tape = st1.tape
  BY <1>5, <1>7, WStepF, QStepF
<1>9. AccIs(d, acc2, d.out, st2)
  <2>1. st2 \in State
    BY <1>7 DEF QStep
  <2> QED BY <1>6, <1>21, <2>1, WithStIs
<1>10. acc2 \in Acc /\ acc2.st = st2 /\ acc2.ok = acc.ok - 1 /\ acc2.out = acc.out /\ acc2.local = acc.local /\ acc2.failed = <<>>
  BY <1>6, <1>9 DEF AccIs
<1>11. \A e : e \in acc2.st.tape[f] <=> e \in acc.st.tape[f] \/ e \in r.ids
  BY <1>5, <1>8, <1>10
<1>12. /\ WKept(acc2, st, f, i, states) /\ WLocal(acc2, st, f, states, toLocal) /\ WIds(acc2, st, f, i)
       /\ WOk(acc2, st, f, i, states, toLocal, ok) /\ WNoIp(acc2, st, f)
       /\ Fits(acc2.out, acc2.st.tape[f], st.dpr[f].file_size)
  BY <1>10, <1>11, WalkedDone
<1>13. /\ \A q \in Queues \ {"IP"} : acc2.st.dpr[f].inq[q] = acc.st.dpr[f].inq[q]
       /\ acc2.st.dpr[f].inq["IP"] = acc.st.dpr[f].inq["IP"] + 1 /\ acc.st.dpr[f].inq["IP"] \in Nat
  <2>1. st1.dpr[f].inq \in [Queues -> Nat] /\ "IP" \in Queues
    <3>1. st1.dpr[f] \in Dpr
      BY <1>5, StateFields DEF WStep
    <3> QED BY <3>1, DprFields DEF Queues
  <2> QED BY <1>5, <1>7, <1>10, <2>1, SMTT(20)
<1>14. acc2.st.dpr[f].inq["IP"] = NumIn(acc2.out, {"IP"}) + NumIn(st.dpr[f].reqs, {"IP"}) - Upto(st.dpr[f].reqs, i, {"IP"}) + 1
  <2>1. /\ Upto(st.dpr[f].reqs, i, {"IP"}) = Upto(st.dpr[f].reqs, i - 1, {"IP"}) + (IF r.state \in {"IP"} THEN 1 ELSE 0)
        /\ Upto(st.dpr[f].reqs, i - 1, {"IP"}) \in Nat /\ NumIn(st.dpr[f].reqs, {"IP"}) \in Nat
    BY DEF Round
  <2>2. acc.st.dpr[f].inq["IP"] = NumIn(acc.out, {"IP"}) + NumIn(st.dpr[f].reqs, {"IP"}) - Upto(st.dpr[f].reqs, i - 1, {"IP"})
    BY DEF Walked, WCount
  <2>3. NumIn(acc.out, {"IP"}) \in Nat
    BY <1>1, AccFields, NumInUpto
  <2> QED BY <1>1, <1>10, <1>13, <2>1, <2>2, <2>3
<1>15. \A q \in Queues \ {"IP"} : acc2.st.dpr[f].inq[q] = st.dpr[f].inq[q]
  BY <1>13 DEF Walked, WCount
<1>16. WStep(st, acc2.st, f)
  BY <1>8, <1>10
<1>17. End(h) <= st.dpr[f].file_size /\ h.ids \subseteq acc2.st.tape[f]
  BY <1>11, <1>20 DEF Round
<1>18. Ready(acc2, st, f, i, states, toLocal, ok, h)
  BY <1>10, <1>12, <1>14, <1>15, <1>16, <1>17, <1>20 DEF Ready
<1>19. /\ Upto(st.dpr[f].reqs, i, {"IP"}) \in Nat /\ NumIn(st.dpr[f].reqs, {"IP"}) \in Nat
       /\ Upto(st.dpr[f].reqs, i, {"IP"}) <= NumIn(st.dpr[f].reqs, {"IP"}) /\ st.dpr[f].file_size \in Nat
  <2>1. /\ Upto(st.dpr[f].reqs, i, {"IP"}) = Upto(st.dpr[f].reqs, i - 1, {"IP"}) + (IF r.state \in {"IP"} THEN 1 ELSE 0)
        /\ Upto(st.dpr[f].reqs, i - 1, {"IP"}) \in Nat /\ NumIn(st.dpr[f].reqs, {"IP"}) \in Nat
        /\ Upto(st.dpr[f].reqs, i, {"IP"}) <= NumIn(st.dpr[f].reqs, {"IP"}) /\ st.dpr[f].file_size \in Nat
    BY DEF Round
  <2> QED BY <2>1
<1>22. Walked(MergeIp(acc2, f, h), st, f, i, states, toLocal, ok)
  BY <1>18, <1>19, MergeReady
<1> QED BY <1>3, <1>22

\* One round of the loop, whichever case it is.
LEMMA WalkedNext ==
    ASSUME NEW st \in State, NEW f \in Files, NEW states, states \subseteq DataStates, NEW toLocal \in BOOLEAN, NEW ok \in Nat,
           NEW i \in DOMAIN st.dpr[f].reqs, NEW r, Round(st, f, i, states, r), NEW acc, Walked(acc, st, f, i - 1, states, toLocal, ok)
    PROVE  Walked(WalkOne(acc, f, states, toLocal, r), st, f, i, states, toLocal, ok)
<1>1. CASE acc.failed # <<>> \/ r.state \notin states \cup {"IP"}
  BY <1>1, WalkedKeep
<1>2. CASE acc.failed = <<>> /\ r.state = "IP"
  BY <1>2, WalkedIp
<1>3. CASE acc.failed = <<>> /\ r.state \in states /\ toLocal /\ ~st.dpr[f].write_ip
  BY <1>3, WalkedLocal
<1>4. CASE acc.failed = <<>> /\ r.state \in states /\ ~(toLocal /\ ~st.dpr[f].write_ip) /\ acc.ok = 0
  BY <1>4, WalkedFail
<1>5. CASE acc.failed = <<>> /\ r.state \in states /\ st.dpr[f].write_ip /\ acc.ok # 0
  BY <1>5, WalkedBoth
<1>6. CASE acc.failed = <<>> /\ r.state \in states /\ ~st.dpr[f].write_ip /\ ~toLocal /\ acc.ok # 0
  BY <1>6, WalkedSend
<1> QED BY <1>1, <1>2, <1>3, <1>4, <1>5, <1>6

\* Before the first round.
LEMMA WalkedStart ==
    ASSUME NEW st \in State, Books(st), NEW f \in Files, NEW states, states \subseteq DataStates, NEW toLocal \in BOOLEAN, NEW ok \in Nat,
           st.dpr[f].inq["IP"] = NumIn(st.dpr[f].reqs, {"IP"})
    PROVE  Walked(Start(st, ok), st, f, 0, states, toLocal, ok)
<1> DEFINE acc == Start(st, ok)
<1>1. acc.st = st /\ acc.out = <<>> /\ acc.local = <<>> /\ acc.failed = <<>> /\ acc.ok = ok /\ acc \in Acc
  BY DEF Start, Acc
<1> HIDE DEF acc
<1>2. st.dpr[f].reqs \in Seq(Req) /\ NumIn(st.dpr[f].reqs, {"IP"}) \in Nat
  <2>1. st.dpr[f] \in Dpr
    BY StateFields
  <2> QED BY <2>1, DprFields, NumInUpto
<1>3. \A S : Upto(st.dpr[f].reqs, 0, S) = 0
  BY UptoStep
<1>4. \A S : NumIn(<<>>, S) = 0
  BY NumInEmpty
<1>5. WStep(st, acc.st, f)
  BY <1>1 DEF WStep, SameDpr
<1>6. WCount(acc, st, f, 0)
  BY <1>1, <1>2, <1>3, <1>4 DEF WCount
<1>7. WKept(acc, st, f, 0, states) /\ WLocal(acc, st, f, states, toLocal) /\ WNoIp(acc, st, f)
  BY <1>1, <1>3, <1>4 DEF WKept, WLocal, WNoIp
<1>8. WIds(acc, st, f, 0)
  <2>1. Ids(acc.out) = {} /\ Ids(acc.local) = {}
    BY <1>1, IdsEmpty
  <2>2. \A e : e \notin IdsUpto(st.dpr[f].reqs, 0)
    BY DEF IdsUpto
  <2> QED BY <1>1, <2>1, <2>2 DEF WIds
<1>9. Fits(acc.out, acc.st.tape[f], st.dpr[f].file_size)
  BY <1>1 DEF Fits
<1>10. WOk(acc, st, f, 0, states, toLocal, ok)
  BY <1>1, <1>3 DEF WOk
<1> QED BY <1>1, <1>5, <1>6, <1>7, <1>8, <1>9, <1>10 DEF Walked, acc

\* After the last one.
LEMMA WalkedAll ==
    ASSUME NEW st \in State, Books(st), NEW f \in Files, NEW states, states \subseteq DataStates, NEW toLocal \in BOOLEAN, NEW ok \in Nat,
           st.dpr[f].inq["IP"] = NumIn(st.dpr[f].reqs, {"IP"}),
           Fits(st.dpr[f].reqs, st.tape[f], st.dpr[f].file_size),
           NEW F, Walks(F, st, f, states, toLocal, ok)
    PROVE  Walked(F[Len(st.dpr[f].reqs)], st, f, Len(st.dpr[f].reqs), states, toLocal, ok)
<1> DEFINE n == Len(st.dpr[f].reqs)  T == {i \in 0..n : Walked(F[i], st, f, i, states, toLocal, ok)}
<1>0. n \in Nat /\ DOMAIN st.dpr[f].reqs = 1..n
  <2>1. st.dpr[f] \in Dpr
    BY StateFields
  <2>2. st.dpr[f].reqs \in Seq(Req)
    BY <2>1, DprFields
  <2> QED BY <2>2
<1> HIDE DEF n
<1>1. 0 \in T
  <2>1. F[0] = Start(st, ok) /\ 0 \in 0..n
    BY <1>0 DEF Walks
  <2>2. Walked(Start(st, ok), st, f, 0, states, toLocal, ok)
    BY WalkedStart
  <2> QED BY <2>1, <2>2
<1>2. ASSUME NEW i \in 1..n, i - 1 \in T PROVE i \in T
  <2>1. Round(st, f, i, states, st.dpr[f].reqs[i])
    <3>1. i \in 1..Len(st.dpr[f].reqs)
      BY DEF n
    <3> QED BY <3>1, RoundFacts
  <2>2. Walked(F[i - 1], st, f, i - 1, states, toLocal, ok)
    BY <1>2
  <2>3. F[i] = WalkOne(F[i - 1], f, states, toLocal, st.dpr[f].reqs[i])
    BY DEF Walks, n
  <2>4. i \in DOMAIN st.dpr[f].reqs /\ i \in 0..n
    BY <1>0
  <2>5. Walked(WalkOne(F[i - 1], f, states, toLocal, st.dpr[f].reqs[i]), st, f, i, states, toLocal, ok)
    BY <2>1, <2>2, <2>4, WalkedNext
  <2> QED BY <2>3, <2>4, <2>5
<1> HIDE DEF T
<1>3. \A i \in 0..n : i \in T
  BY <1>0, <1>1, <1>2, Stepwise
<1>4. n \in T
  BY <1>0, <1>3
<1> QED BY <1>4 DEF T, n

FlagsSame(d, d2) ==
    /\ d2.on = d.on /\ d2.file_size = d.file_size /\ d2.write_ip = d.write_ip
    /\ d2.write_error = d.write_error /\ d2.alt = d.alt
\* Nothing but the requests and the extents of f differs.
OnlyFile(st, st2, f) ==
    /\ st2 \in State /\ Books(st2)
    /\ \A g \in Files \ {f} : st2.dpr[g] = st.dpr[g] /\ st2.tape[g] = st.tape[g] /\ st2.size[g] = st.size[g]
    /\ st2.less = st.less /\ st2.broken = st.broken /\ st2.nfaults = st.nfaults /\ st2.written = st.written
    /\ st.tape[f] \subseteq st2.tape[f]
WalkOver(st, walk, f, states, toLocal, ok) ==
    /\ OnlyFile(st, walk.st, f) /\ FlagsSame(st.dpr[f], walk.st.dpr[f]) /\ walk.st.ext_queue = st.ext_queue
    /\ \A q \in Queues \ {"IP"} : walk.st.dpr[f].inq[q] = st.dpr[f].inq[q]
    /\ walk.st.dpr[f].inq["IP"] = NumIn(walk.st.dpr[f].reqs, {"IP"})
    /\ \A q \in Queues \ (states \cup {"IP"}) : NumIn(walk.st.dpr[f].reqs, {q}) = NumIn(st.dpr[f].reqs, {q})
    /\ walk.failed = <<>> => \A k \in DOMAIN walk.st.dpr[f].reqs : walk.st.dpr[f].reqs[k].state \notin states
    /\ walk.local \in Seq(Req) /\ WLocal(walk, st, f, states, toLocal)
    /\ \A e : e \in Ids(walk.st.dpr[f].reqs) \/ e \in Ids(walk.local) \/ e \in walk.st.tape[f]
              <=> e \in Ids(st.dpr[f].reqs) \/ e \in st.tape[f]
    /\ Fits(walk.st.dpr[f].reqs, walk.st.tape[f], st.dpr[f].file_size)
    /\ toLocal /\ ~st.dpr[f].write_ip => walk.failed = <<>>
    /\ ~(toLocal /\ ~st.dpr[f].write_ip) => (walk.failed = <<>> <=> NumIn(st.dpr[f].reqs, states) <= ok)
    /\ walk.failed # <<>> => Head(walk.failed).state \in states
    /\ ~st.dpr[f].write_ip /\ (\A j \in DOMAIN st.dpr[f].reqs : st.dpr[f].reqs[j].state # "IP")
          => \A k \in DOMAIN walk.st.dpr[f].reqs : walk.st.dpr[f].reqs[k].state # "IP"

WithReqs(st, f, reqs) == [st EXCEPT !.dpr[f].reqs = reqs]
ReqsSet(st, st2, f, reqs) ==
    /\ st2 \in State /\ st2.dpr[f].reqs = reqs /\ FlagsSame(st.dpr[f], st2.dpr[f]) /\ st2.dpr[f].inq = st.dpr[f].inq
    /\ \A g \in Files \ {f} : st2.dpr[g] = st.dpr[g]
    /\ st2.queue = st.queue /\ st2.count = st.count /\ SameRest(st, st2)

\* Replacing the list of a file changes nothing else.
LEMMA WithReqsOK ==
    ASSUME NEW st \in State, NEW f \in Files, NEW reqs \in Seq(Req)
    PROVE  ReqsSet(st, WithReqs(st, f, reqs), f, reqs)
<1> DEFINE d == [st.dpr[f] EXCEPT !.reqs = reqs]  D == [st.dpr EXCEPT ![f] = d]  st2 == WithReqs(st, f, reqs)
<1>1. st.dpr[f] \in Dpr /\ st.dpr \in [Files -> Dpr]
  BY StateFields
<1>2. d \in Dpr /\ d.reqs = reqs /\ FlagsSame(st.dpr[f], d) /\ d.inq = st.dpr[f].inq
  BY <1>1 DEF Dpr, FlagsSame
<1>3. st2 = [st EXCEPT !.dpr = D]
  BY DEF WithReqs, State
<1> HIDE DEF d, st2
<1>4. D \in [Files -> Dpr] /\ D[f] = d /\ \A g \in Files \ {f} : D[g] = st.dpr[g]
  BY <1>1, <1>2
<1> HIDE DEF D
<1>5. st2 \in State /\ st2.dpr = D /\ st2.queue = st.queue /\ st2.count = st.count /\ SameRest(st, st2)
  BY <1>3, <1>4 DEF State, SameRest
<1> QED BY <1>2, <1>4, <1>5 DEF ReqsSet, st2

\* The books do not look at the lists.
LEMMA ReqsSetBooks ==
    ASSUME NEW st, NEW st2, NEW f, NEW reqs, ReqsSet(st, st2, f, reqs), Books(st) PROVE Books(st2)
<1>1. \A g \in Files : st2.dpr[g].inq = st.dpr[g].inq /\ st2.dpr[g].write_ip = st.dpr[g].write_ip
  BY DEF ReqsSet, FlagsSame
<1>2. st2.queue = st.queue /\ st2.count = st.count
  BY DEF ReqsSet
<1>3. \A q \in Queues, g \in Files : Counted(st2, q, g) <=> Counted(st, q, g)
  BY <1>1 DEF Counted
<1> QED BY <1>1, <1>2, <1>3 DEF Books

\* What the loop has done: requests in the states are written, taken over or failed,
\* data is neither lost nor made up, and the IP counter is exact.
LEMMA WalkResult ==
    ASSUME NEW st \in State, Books(st), NEW f \in Files, NEW states, states \subseteq DataStates, NEW toLocal \in BOOLEAN, NEW ok \in Nat,
           st.dpr[f].inq["IP"] = NumIn(st.dpr[f].reqs, {"IP"}),
           Fits(st.dpr[f].reqs, st.tape[f], st.dpr[f].file_size)
    PROVE  WalkOver(st, WalkReqs(st, f, states, toLocal, ok), f, states, toLocal, ok)
<1> DEFINE n == Len(st.dpr[f].reqs)  walk == WalkReqs(st, f, states, toLocal, ok)
<1>1. PICK F : Walks(F, st, f, states, toLocal, ok) /\ walk = Ended(F[n], f)
  BY WalkExists
<1> DEFINE all == F[n]  st2 == WithReqs(all.st, f, all.out)  reqs == st.dpr[f].reqs
<1>2. Walked(all, st, f, n, states, toLocal, ok)
  BY <1>1, WalkedAll
<1>3. reqs \in Seq(Req) /\ n \in Nat /\ DOMAIN reqs = 1..n
  <2>1. st.dpr[f] \in Dpr
    BY StateFields
  <2>2. reqs \in Seq(Req)
    BY <2>1, DprFields
  <2> QED BY <2>2
<1>30. \A S : NumIn(reqs, S) = Upto(reqs, n, S) /\ NumIn(reqs, S) \in Nat
  BY <1>3, NumInUpto
<1>31. \A e : e \in IdsUpto(reqs, n) <=> e \in Ids(reqs)
  BY <1>3 DEF IdsUpto, Ids
<1> HIDE DEF all, walk, n
<1>4. all \in Acc /\ all.st \in State /\ all.out \in Seq(Req) /\ all.local \in Seq(Req) /\ all.ok \in Nat
  <2>1. all \in Acc
    BY <1>2 DEF Walked
  <2> QED BY <2>1, AccFields
<1>5. walk.st = st2 /\ walk.local = all.local /\ walk.failed = all.failed
  <2>1. walk = Ended(all, f)
    BY <1>1 DEF all
  <2> QED BY <1>4, <2>1 DEF Ended, WithReqs, Acc
<1>6. ReqsSet(all.st, st2, f, all.out)
  BY <1>4, WithReqsOK
<1>7. WStep(st, all.st, f) /\ Books(all.st)
  BY <1>2 DEF Walked, WStep
<1>8. Books(st2)
  BY <1>6, <1>7, ReqsSetBooks
<1> HIDE DEF st2
<1>9. st2 \in State /\ st2.dpr[f].reqs = all.out /\ st2.dpr[f].inq = all.st.dpr[f].inq /\ st2.tape = all.st.tape
  BY <1>6 DEF ReqsSet, SameRest
<1>10. OnlyFile(st, st2, f) /\ FlagsSame(st.dpr[f], st2.dpr[f]) /\ st2.ext_queue = st.ext_queue
  BY <1>6, <1>7, <1>8 DEF OnlyFile, ReqsSet, WStep, SameRest, FlagsSame, SameDpr
<1>11. WCount(all, st, f, n) /\ WKept(all, st, f, n, states) /\ WLocal(all, st, f, states, toLocal) /\ WIds(all, st, f, n)
       /\ Fits(all.out, all.st.tape[f], st.dpr[f].file_size) /\ WOk(all, st, f, n, states, toLocal, ok) /\ WNoIp(all, st, f)
  BY <1>2 DEF Walked
<1>12. (\A q \in Queues \ {"IP"} : st2.dpr[f].inq[q] = st.dpr[f].inq[q]) /\ st2.dpr[f].inq["IP"] = NumIn(st2.dpr[f].reqs, {"IP"})
  <2>1. NumIn(all.out, {"IP"}) \in Nat
    BY <1>4, NumInUpto
  <2>2. NumIn(reqs, {"IP"}) = Upto(reqs, n, {"IP"}) /\ NumIn(reqs, {"IP"}) \in Nat
    BY <1>30
  <2> QED BY <1>9, <1>11, <2>1, <2>2 DEF WCount
<1>13. /\ \A q \in Queues \ (states \cup {"IP"}) : NumIn(st2.dpr[f].reqs, {q}) = NumIn(reqs, {q})
       /\ walk.failed = <<>> => \A k \in DOMAIN st2.dpr[f].reqs : st2.dpr[f].reqs[k].state \notin states
  BY <1>5, <1>9, <1>11, <1>30 DEF WKept
<1>14. WLocal(walk, st, f, states, toLocal)
  BY <1>5, <1>11 DEF WLocal
<1>15. \A e : e \in Ids(st2.dpr[f].reqs) \/ e \in Ids(walk.local) \/ e \in st2.tape[f] <=> e \in Ids(reqs) \/ e \in st.tape[f]
  BY <1>5, <1>9, <1>11, <1>31 DEF WIds
<1>16. /\ toLocal /\ ~st.dpr[f].write_ip => walk.failed = <<>>
       /\ ~(toLocal /\ ~st.dpr[f].write_ip) => (walk.failed = <<>> <=> NumIn(reqs, states) <= ok)
       /\ walk.failed # <<>> => Head(walk.failed).state \in states
  <2>1. NumIn(reqs, states) = Upto(reqs, n, states) /\ NumIn(reqs, states) \in Nat
    BY <1>30
  <2> QED BY <1>4, <1>5, <1>11, <2>1 DEF WOk
<1>17. /\ Fits(st2.dpr[f].reqs, st2.tape[f], st.dpr[f].file_size)
       /\ ~st.dpr[f].write_ip /\ (\A j \in DOMAIN reqs : reqs[j].state # "IP")
          => \A k \in DOMAIN st2.dpr[f].reqs : st2.dpr[f].reqs[k].state # "IP"
  BY <1>9, <1>11 DEF WNoIp
<1>18. WalkOver(st, walk, f, states, toLocal, ok)
  BY <1>4, <1>5, <1>10, <1>12, <1>13, <1>14, <1>15, <1>16, <1>17 DEF WalkOver
<1> QED BY <1>18 DEF walk

\* out is what is left of reqs; nothing that is not in `states' has gone.
Thinned(reqs, i, out, states) ==
    /\ out \in Seq(Req) /\ Len(out) <= i
    /\ \A k \in DOMAIN out : \E j \in 1..i : out[k] = reqs[j]
    /\ \A j \in 1..i : reqs[j].state \notin states => \E k \in DOMAIN out : out[k] = reqs[j]
    /\ \A q \in Queues \ states : NumIn(out, {q}) = Upto(reqs, i, {q})
Purged(reqs, i, out, states) == Thinned(reqs, i, out, states) /\ \A k \in DOMAIN out : out[k].state \notin states

\* Before the first request.
LEMMA ThinStart == ASSUME NEW reqs, NEW states PROVE Thinned(reqs, 0, <<>>, states) /\ Purged(reqs, 0, <<>>, states)
<1>1. \A S : Upto(reqs, 0, S) = 0
  BY UptoStep
<1>2. \A S : NumIn(<<>>, S) = 0
  BY NumInEmpty
<1> QED BY <1>1, <1>2 DEF Thinned, Purged

\* Request i is left out, or kept.
LEMMA ThinSkip ==
    ASSUME NEW reqs \in Seq(Req), NEW i \in 1..Len(reqs), NEW out, NEW states, Thinned(reqs, i - 1, out, states), reqs[i].state \in states
    PROVE  Thinned(reqs, i, out, states)
<1>1. i \in Nat \ {0} /\ i - 1 \in Nat /\ \A j : j \in 1..i <=> j \in 1..(i - 1) \/ j = i
  OBVIOUS
<1>2. \A q \in Queues \ states : NumIn(out, {q}) = Upto(reqs, i, {q})
  <2>1. TAKE q \in Queues \ states
  <2>2. \A j \in Nat \ {0} : Upto(reqs, j, {q}) = Upto(reqs, j - 1, {q}) + (IF reqs[j].state \in {q} THEN 1 ELSE 0)
    BY UptoStep
  <2>3. \A j \in Nat : Upto(reqs, j, {q}) \in Nat
    BY UptoStep
  <2>4. Upto(reqs, i, {q}) = Upto(reqs, i - 1, {q}) + (IF reqs[i].state \in {q} THEN 1 ELSE 0) /\ Upto(reqs, i - 1, {q}) \in Nat
    BY <1>1, <2>2, <2>3
  <2> QED BY <2>4 DEF Thinned
<1>3. out \in Seq(Req) /\ Len(out) <= i - 1 /\ Len(out) \in Nat
  BY DEF Thinned
<1>4. /\ \A k \in DOMAIN out : \E j \in 1..i : out[k] = reqs[j]
      /\ \A j \in 1..i : reqs[j].state \notin states => \E k \in DOMAIN out : out[k] = reqs[j]
  BY <1>1 DEF Thinned
<1> QED BY <1>1, <1>2, <1>3, <1>4 DEF Thinned

\* Any request may be kept.
LEMMA ThinKeep ==
    ASSUME NEW reqs \in Seq(Req), NEW i \in 1..Len(reqs), NEW out, NEW states, Thinned(reqs, i - 1, out, states)
    PROVE  Thinned(reqs, i, Append(out, reqs[i]), states)
<1> DEFINE r == reqs[i]  new == Append(out, r)  n == Len(out)
<1>1. i \in Nat \ {0} /\ i - 1 \in Nat /\ r \in Req /\ \A j : j \in 1..i <=> j \in 1..(i - 1) \/ j = i
  OBVIOUS
<1> HIDE DEF r
<1>2. out \in Seq(Req) /\ n <= i - 1 /\ n \in Nat
  BY DEF Thinned
<1>3. \A q : NumIn(new, {q}) = NumIn(out, {q}) + (IF r.state \in {q} THEN 1 ELSE 0)
  BY <1>1, <1>2, NumInAppend
<1>4. new \in Seq(Req) /\ Len(new) = n + 1 /\ DOMAIN new = 1..(n + 1) /\ DOMAIN out = 1..n /\ new[n + 1] = r /\ \A k \in 1..n : new[k] = out[k]
  BY <1>1, <1>2
<1> HIDE DEF new, n
<1>5. \A k : k \in 1..(n + 1) <=> k \in 1..n \/ k = n + 1
  BY <1>2
<1>6. \A k \in DOMAIN new : \E j \in 1..i : new[k] = reqs[j]
  BY <1>1, <1>4, <1>5 DEF Thinned, r
<1>7. \A j \in 1..i : reqs[j].state \notin states => \E k \in DOMAIN new : new[k] = reqs[j]
  <2>1. TAKE j \in 1..i
  <2>2. CASE j = i
    BY <1>4, <1>5, <2>2 DEF r
  <2>3. CASE j \in 1..(i - 1)
    BY <1>4, <1>5, <2>3 DEF Thinned
  <2> QED BY <1>1, <2>2, <2>3
<1>8. \A q \in Queues \ states : NumIn(new, {q}) = Upto(reqs, i, {q})
  <2>1. TAKE q \in Queues \ states
  <2>2. \A j \in Nat \ {0} : Upto(reqs, j, {q}) = Upto(reqs, j - 1, {q}) + (IF reqs[j].state \in {q} THEN 1 ELSE 0)
    BY UptoStep
  <2>3. Upto(reqs, i, {q}) = Upto(reqs, i - 1, {q}) + (IF r.state \in {q} THEN 1 ELSE 0)
    BY <1>1, <2>2 DEF r
  <2>4. NumIn(new, {q}) = NumIn(out, {q}) + (IF r.state \in {q} THEN 1 ELSE 0)
    BY <1>3
  <2> QED BY <2>3, <2>4 DEF Thinned
<1>9. Thinned(reqs, i, new, states)
  BY <1>1, <1>2, <1>4, <1>6, <1>7, <1>8 DEF Thinned
<1> QED BY <1>9 DEF new, r

\* One that is not in the states is kept when purging.
LEMMA PurgeKeep ==
    ASSUME NEW reqs \in Seq(Req), NEW i \in 1..Len(reqs), NEW out, NEW states, Purged(reqs, i - 1, out, states), reqs[i].state \notin states
    PROVE  Purged(reqs, i, Append(out, reqs[i]), states)
<1>0. Thinned(reqs, i - 1, out, states)
  BY DEF Purged
<1>01. Thinned(reqs, i, Append(out, reqs[i]), states)
  BY <1>0, ThinKeep
<1>1. Thinned(reqs, i, Append(out, reqs[i]), states) /\ out \in Seq(Req) /\ reqs[i] \in Req
  BY <1>0, <1>01, SMTT(20) DEF Thinned
<1>2. \A k \in DOMAIN Append(out, reqs[i]) : Append(out, reqs[i])[k] = reqs[i] \/ \E j \in DOMAIN out : Append(out, reqs[i])[k] = out[j]
  BY <1>1
<1> QED BY <1>1, <1>2 DEF Purged

\* Without leaves exactly the requests that are not in the states.
LEMMA WithoutOK ==
    ASSUME NEW reqs \in Seq(Req), NEW states
    PROVE  Purged(reqs, Len(reqs), Without(reqs, states), states)
<1> DEFINE n == Len(reqs)
           Step(g) == [i \in 0..n |-> IF i = 0 THEN <<>> ELSE IF reqs[i].state \in states THEN g[i - 1] ELSE Append(g[i - 1], reqs[i])]
           F == CHOOSE g : g = Step(g)
           step == [i \in 1..n |-> [x \in Seq(Req) |-> IF reqs[i].state \in states THEN x ELSE Append(x, reqs[i])]]
<1>1. n \in Nat /\ \A i \in 1..n : reqs[i] \in Req
  OBVIOUS
<1>0. \A i : i \in 1..n => i \in 1..Len(reqs)
  OBVIOUS
<1> HIDE DEF n
<1>2. Steps(step, n, Seq(Req))
  <2>1. \A i \in 1..n : \A x \in Seq(Req) : (IF reqs[i].state \in states THEN x ELSE Append(x, reqs[i])) \in Seq(Req)
    BY <1>1
  <2> QED BY <2>1 DEF Steps
<1>3. <<>> \in Seq(Req)
  OBVIOUS
<1>4. PICK g : Runs(g, n, Seq(Req), <<>>, step)
  <2> HIDE DEF step, Step, F
  <2> QED BY <1>1, <1>2, <1>3, FoldRuns
<1>5. \A i \in 1..n : i - 1 \in 0..n /\ g[i - 1] \in Seq(Req)
  BY <1>1, <1>4 DEF Runs
<1>6. \A i \in 1..n : g[i] = IF reqs[i].state \in states THEN g[i - 1] ELSE Append(g[i - 1], reqs[i])
  <2>1. \A i \in 1..n : g[i] = step[i][g[i - 1]]
    BY <1>4 DEF Runs
  <2> QED BY <1>5, <2>1
<1>7. g = Step(g)
  <2>1. \A i \in 0..n : i = 0 \/ i \in 1..n
    BY <1>1
  <2>2. g \in [0..n -> Seq(Req)] /\ g[0] = <<>>
    BY <1>4 DEF Runs
  <2> QED BY <1>6, <2>1, <2>2
<1> HIDE DEF Step, step
<1>8. F = Step(F)
  BY <1>7
<1> HIDE DEF F
<1>9. F[0] = <<>> /\ \A i \in 1..n : F[i] = IF reqs[i].state \in states THEN F[i - 1] ELSE Append(F[i - 1], reqs[i])
  <2>1. 0 \in 0..n /\ \A i \in 1..n : i \in 0..n /\ i # 0
    BY <1>1
  <2> QED BY <1>8, <2>1 DEF Step
<1> DEFINE T == {i \in 0..n : Purged(reqs, i, F[i], states)}
<1>10. 0 \in T
  BY <1>1, <1>9, ThinStart
<1>11. ASSUME NEW i \in 1..n, i - 1 \in T PROVE i \in T
  <2>1. Purged(reqs, i - 1, F[i - 1], states) /\ i \in 1..Len(reqs) /\ i \in 0..n
    BY <1>0, <1>1, <1>11
  <2>2. CASE reqs[i].state \in states
    <3>1. Purged(reqs, i, F[i - 1], states)
      BY <2>1, <2>2, ThinSkip DEF Purged
    <3> QED BY <1>9, <2>1, <2>2, <3>1
  <2>3. CASE reqs[i].state \notin states
    <3>1. Purged(reqs, i, Append(F[i - 1], reqs[i]), states)
      BY <2>1, <2>3, PurgeKeep
    <3> QED BY <1>9, <2>1, <2>3, <3>1
  <2> QED BY <2>2, <2>3
<1> HIDE DEF T
<1>12. n \in T
  <2>1. \A i \in 0..n : i \in T
    BY <1>1, <1>10, <1>11, Stepwise
  <2> QED BY <1>1, <2>1
<1>13. Without(reqs, states) = F[n]
  BY DEF Without, F, Step, n
<1> QED BY <1>12, <1>13 DEF T, n

SameData(st, st2) ==
    /\ st2.ext_queue = st.ext_queue /\ st2.tape = st.tape /\ st2.size = st.size
    /\ st2.less = st.less /\ st2.broken = st.broken /\ st2.nfaults = st.nfaults /\ st2.written = st.written
OthersSame(st, st2, f) == \A g \in Files \ {f} : st2.dpr[g] = st.dpr[g]

\* The parts of f's dentry_priv have their types.
LEMMA ReqsOf == ASSUME NEW st \in State, NEW f \in Files
    PROVE  /\ st.dpr[f] \in Dpr /\ st.dpr[f].reqs \in Seq(Req) /\ st.dpr[f].inq \in [Queues -> Nat]
           /\ Len(st.dpr[f].reqs) \in Nat /\ DOMAIN st.dpr[f].reqs = 1..Len(st.dpr[f].reqs)
           /\ st.dpr[f].file_size \in Nat
<1>1. st.dpr[f] \in Dpr
  BY StateFields
<1>2. st.dpr[f].reqs \in Seq(Req) /\ st.dpr[f].inq \in [Queues -> Nat] /\ st.dpr[f].file_size \in Nat
  BY <1>1, DprFields
<1> QED BY <1>1, <1>2

\* The requests in some states are dropped.
DropIs(st, st2, f, states) ==
    /\ st2 \in State
    /\ FlagsSame(st.dpr[f], st2.dpr[f]) /\ st2.dpr[f].inq = st.dpr[f].inq
    /\ Purged(st.dpr[f].reqs, Len(st.dpr[f].reqs), st2.dpr[f].reqs, states)
    /\ OthersSame(st, st2, f) /\ st2.queue = st.queue /\ st2.count = st.count /\ SameData(st, st2)

\* DropReqs does that to the list of f.
LEMMA DropOK ==
    ASSUME NEW st \in State, NEW f \in Files, NEW states
    PROVE  DropIs(st, DropReqs(st, f, states), f, states)
<1> DEFINE reqs == st.dpr[f].reqs  keep == Without(reqs, states)  m == Len(reqs) - Len(keep)  s1 == FreeBlocks(st, m)
           st2 == WithReqs(s1, f, keep)
<1>1. reqs \in Seq(Req)
  BY ReqsOf
<1>2. Purged(reqs, Len(reqs), keep, states)
  BY <1>1, WithoutOK
<1>3. DropReqs(st, f, states) = st2
  BY DEF DropReqs, WithReqs
<1> HIDE DEF keep
<1>4. keep \in Seq(Req) /\ m \in Nat
  BY <1>1, <1>2 DEF Purged, Thinned
<1> HIDE DEF m
<1>5. s1 \in State /\ s1.dpr = st.dpr /\ s1.queue = st.queue /\ s1.count = st.count /\ SameData(st, s1)
  BY <1>4, FreeFields DEF SameData
<1> HIDE DEF s1
<1>6. ReqsSet(s1, st2, f, keep)
  BY <1>4, <1>5, WithReqsOK
<1> HIDE DEF st2
<1>7. DropIs(st, st2, f, states)
  BY <1>2, <1>5, <1>6 DEF DropIs, ReqsSet, SameData, SameRest, OthersSame
<1> QED BY <1>3, <1>7

\* A file is taken off the queues for some states.
ClearIs(st, st2, q, f, states) ==
    QStep(st, st2, f) /\ st2.dpr[f].inq = [st.dpr[f].inq EXCEPT ![q] = IF q \in states THEN 0 ELSE st.dpr[f].inq[q]]

\* A file leaves a queue, or stays in it.
LEMMA ClearIfOK ==
    ASSUME NEW st \in State, NEW f \in Files, NEW q \in Queues, NEW states, Books(st)
    PROVE  ClearIs(st, ClearIf(st, q, f, states), q, f, states)
<1>0. st.dpr[f].inq \in [Queues -> Nat]
  BY ReqsOf
<1>1. CASE q \in states
  <2>1. ClearIf(st, q, f, states) = ClearQ(st, q, f)
    BY <1>1 DEF ClearIf
  <2>2. QStep(st, ClearQ(st, q, f), f) /\ ClearQ(st, q, f).dpr[f].inq = [st.dpr[f].inq EXCEPT ![q] = 0]
    BY ClearQOK
  <2> QED BY <1>1, <2>1, <2>2 DEF ClearIs
<1>2. CASE q \notin states
  <2>1. ClearIf(st, q, f, states) = st
    BY <1>2 DEF ClearIf
  <2>2. QStep(st, st, f)
    BY QStepSame
  <2>3. st.dpr[f].inq = [st.dpr[f].inq EXCEPT ![q] = st.dpr[f].inq[q]]
    BY <1>0
  <2> QED BY <1>2, <2>1, <2>2, <2>3 DEF ClearIs
<1> QED BY <1>1, <1>2

UnqueueIs(st, st2, f, states) ==
    /\ QStep(st, st2, f)
    /\ st.dpr[f].reqs # <<>> => \A q \in Queues : st2.dpr[f].inq[q] = IF q \in states THEN 0 ELSE st.dpr[f].inq[q]
    /\ st.dpr[f].reqs = <<>> => st2.dpr[f].inq = st.dpr[f].inq

\* A file with requests leaves the queues for the states; one without is in none.
LEMMA UnqueueOK ==
    ASSUME NEW st \in State, NEW f \in Files, NEW states, Books(st)
    PROVE  UnqueueIs(st, Unqueue(st, f, states), f, states)
<1> DEFINE a == ClearIf(st, "DP", f, states)  b == ClearIf(a, "PARTIAL", f, states)  c == ClearIf(b, "IP", f, states)
<1>0. st.dpr[f].inq \in [Queues -> Nat] /\ "DP" \in Queues /\ "PARTIAL" \in Queues /\ "IP" \in Queues
  BY ReqsOf DEF Queues
<1>1. CASE st.dpr[f].reqs = <<>>
  <2>1. Unqueue(st, f, states) = st
    BY <1>1 DEF Unqueue
  <2>2. QStep(st, st, f)
    BY QStepSame
  <2> QED BY <1>1, <2>1, <2>2 DEF UnqueueIs
<1>2. CASE st.dpr[f].reqs # <<>>
  <2>1. Unqueue(st, f, states) = c
    BY <1>2 DEF Unqueue
  <2> DEFINE i1 == [st.dpr[f].inq EXCEPT !["DP"] = IF "DP" \in states THEN 0 ELSE st.dpr[f].inq["DP"]]
             i2 == [i1 EXCEPT !["PARTIAL"] = IF "PARTIAL" \in states THEN 0 ELSE i1["PARTIAL"]]
             i3 == [i2 EXCEPT !["IP"] = IF "IP" \in states THEN 0 ELSE i2["IP"]]
  <2>2. ClearIs(st, a, "DP", f, states)
    BY <1>0, ClearIfOK
  <2> HIDE DEF a
  <2>20. QStep(st, a, f) /\ a \in State /\ Books(a) /\ a.dpr[f].inq = i1
    BY <2>2 DEF ClearIs, QStep
  <2>3. ClearIs(a, b, "PARTIAL", f, states)
    BY <1>0, <2>20, ClearIfOK
  <2> HIDE DEF b
  <2>30. QStep(a, b, f) /\ b \in State /\ Books(b) /\ b.dpr[f].inq = i2
    BY <2>20, <2>3 DEF ClearIs, QStep
  <2>4. ClearIs(b, c, "IP", f, states)
    BY <1>0, <2>30, ClearIfOK
  <2> HIDE DEF c
  <2>40. QStep(b, c, f) /\ c.dpr[f].inq = i3
    BY <2>30, <2>4 DEF ClearIs
  <2>5. \A q \in Queues : i3[q] = IF q \in states THEN 0 ELSE st.dpr[f].inq[q]
    BY <1>0 DEF Queues
  <2>6. QStep(st, b, f)
    BY <2>20, <2>30, QStepTrans
  <2>7. QStep(st, c, f)
    BY <2>40, <2>6, QStepTrans
  <2> HIDE DEF i3
  <2> QED BY <1>2, <2>1, <2>40, <2>5, <2>7 DEF UnqueueIs
<1> QED BY <1>1, <1>2

\* Both: the counters are exact again, if those that were not belong to what is dropped.
Purge(st, f, states) == DropReqs(Unqueue(st, f, states), f, states)
Misled(d, states) == \A q \in Queues : d.inq[q] = NumIn(d.reqs, {q}) \/ (q \in states /\ d.inq[q] = 0)
PurgeIs(st, st2, f, states) ==
    /\ st2 \in State /\ Books(st2) /\ Listed(st2.dpr[f]) /\ FlagsSame(st.dpr[f], st2.dpr[f])
    /\ Purged(st.dpr[f].reqs, Len(st.dpr[f].reqs), st2.dpr[f].reqs, states)
    /\ OthersSame(st, st2, f) /\ SameData(st, st2)

\* The books look at counters, queues and write_ip only.
LEMMA BooksSame ==
    ASSUME NEW st, NEW st2, \A g \in Files : st2.dpr[g].inq = st.dpr[g].inq /\ st2.dpr[g].write_ip = st.dpr[g].write_ip,
           st2.queue = st.queue, st2.count = st.count, Books(st)
    PROVE  Books(st2)
<1>1. \A q \in Queues, g \in Files : Counted(st2, q, g) <=> Counted(st, q, g)
  BY DEF Counted
<1> QED BY <1>1 DEF Books

\* What the counters of the purged list must be.
LEMMA ListedPurged ==
    ASSUME NEW reqs \in Seq(Req), NEW keep, NEW states, Purged(reqs, Len(reqs), keep, states)
    PROVE  /\ keep \in Seq(Req)
           /\ \A q \in Queues : NumIn(keep, {q}) = IF q \in states THEN 0 ELSE NumIn(reqs, {q})
<1>1. keep \in Seq(Req) /\ Len(keep) <= Len(reqs) /\ \A k \in DOMAIN keep : keep[k].state \notin states
  BY DEF Purged, Thinned
<1>2. ASSUME NEW q \in Queues PROVE NumIn(keep, {q}) = IF q \in states THEN 0 ELSE NumIn(reqs, {q})
  <2>1. CASE q \in states
    <3>1. \A k \in DOMAIN keep : keep[k].state \notin {q}
      BY <1>1, <2>1
    <3>2. NumIn(keep, {q}) = 0
      BY <1>1, <3>1, NumInZero
    <3> QED BY <2>1, <3>2
  <2>2. CASE q \notin states
    <3>1. NumIn(keep, {q}) = Upto(reqs, Len(reqs), {q})
      BY <2>2 DEF Purged, Thinned
    <3>2. NumIn(reqs, {q}) = Upto(reqs, Len(reqs), {q})
      BY NumInUpto
    <3> QED BY <2>2, <3>1, <3>2
  <2> QED BY <2>1, <2>2
<1> QED BY <1>1, <1>2

\* Taking a file off the queues and dropping the requests makes its counters exact.
LEMMA PurgeOK ==
    ASSUME NEW st \in State, NEW f \in Files, NEW states, Books(st), Misled(st.dpr[f], states)
    PROVE  PurgeIs(st, Purge(st, f, states), f, states)
<1> DEFINE s1 == Unqueue(st, f, states)  st2 == DropReqs(s1, f, states)
<1>1. UnqueueIs(st, s1, f, states)
  BY UnqueueOK
<1> HIDE DEF s1
<1>2. s1 \in State /\ Books(s1) /\ SameRest(st, s1) /\ SameDpr(st.dpr[f], s1.dpr[f]) /\ OthersSame(st, s1, f)
  BY <1>1 DEF UnqueueIs, QStep, OthersSame
<1>3. DropIs(s1, st2, f, states)
  BY <1>2, DropOK
<1> HIDE DEF st2
<1>4. st2 \in State /\ SameData(st, st2) /\ OthersSame(st, st2, f) /\ FlagsSame(st.dpr[f], st2.dpr[f])
  BY <1>2, <1>3 DEF DropIs, SameData, SameRest, OthersSame, FlagsSame, SameDpr
<1>5. Purged(st.dpr[f].reqs, Len(st.dpr[f].reqs), st2.dpr[f].reqs, states)
  BY <1>2, <1>3 DEF DropIs, SameDpr
<1>6. Books(st2)
  <2>1. \A g \in Files : st2.dpr[g].inq = s1.dpr[g].inq /\ st2.dpr[g].write_ip = s1.dpr[g].write_ip
    BY <1>3 DEF DropIs, OthersSame, FlagsSame
  <2> QED BY <1>2, <1>3, <2>1, BooksSame DEF DropIs
<1>7. Listed(st2.dpr[f])
  <2>1. st.dpr[f].reqs \in Seq(Req)
    BY ReqsOf
  <2>2. \A q \in Queues : NumIn(st2.dpr[f].reqs, {q}) = IF q \in states THEN 0 ELSE NumIn(st.dpr[f].reqs, {q})
    <3> DEFINE reqs == st.dpr[f].reqs  keep == st2.dpr[f].reqs
    <3>1. reqs \in Seq(Req) /\ Purged(reqs, Len(reqs), keep, states)
      BY <1>5, <2>1
    <3> HIDE DEF reqs, keep
    <3>2. \A q \in Queues : NumIn(keep, {q}) = IF q \in states THEN 0 ELSE NumIn(reqs, {q})
      BY <3>1, ListedPurged, ZenonT(30)
    <3> QED BY <3>2 DEF reqs, keep
  <2>3. st2.dpr[f].inq = s1.dpr[f].inq
    BY <1>3 DEF DropIs
  <2>4. CASE st.dpr[f].reqs # <<>>
    <3>1. \A q \in Queues : s1.dpr[f].inq[q] = IF q \in states THEN 0 ELSE st.dpr[f].inq[q]
      BY <1>1, <2>4 DEF UnqueueIs
    <3> QED BY <2>2, <2>3, <3>1 DEF Misled, Listed
  <2>5. CASE st.dpr[f].reqs = <<>>
    <3>1. s1.dpr[f].inq = st.dpr[f].inq
      BY <1>1, <2>5 DEF UnqueueIs
    <3>2. st2.dpr[f].reqs = <<>>
      <4>1. st2.dpr[f].reqs \in Seq(Req) /\ Len(st2.dpr[f].reqs) <= Len(st.dpr[f].reqs)
        BY <1>5 DEF Purged, Thinned
      <4>2. Len(st.dpr[f].reqs) = 0
        BY <2>5
      <4> QED BY <4>1, <4>2
    <3> QED BY <2>3, <2>5, <3>1, <3>2, NumInEmpty DEF Misled, Listed
  <2> QED BY <2>4, <2>5
<1>8. PurgeIs(st, st2, f, states)
  BY <1>4, <1>5, <1>6, <1>7 DEF PurgeIs
<1> QED BY <1>8 DEF Purge, st2, s1

\* f's dentry_priv becomes d.
SetDpr(st, f, d) == [st EXCEPT !.dpr[f] = d]
DprIs(st, st2, f, d) ==
    /\ st2 \in State /\ st2.dpr[f] = d /\ OthersSame(st, st2, f) /\ SameRest(st, st2)
    /\ st2.queue = st.queue /\ st2.count = st.count

\* Replacing a dentry_priv changes nothing else.
LEMMA SetDprOK == ASSUME NEW st \in State, NEW f \in Files, NEW d \in Dpr PROVE DprIs(st, SetDpr(st, f, d), f, d)
<1> DEFINE st2 == SetDpr(st, f, d)
<1>1. st2 \in State /\ st2.dpr = [st.dpr EXCEPT ![f] = d] /\ st2.queue = st.queue /\ st2.count = st.count /\ SameRest(st, st2)
  BY DprUpdate DEF SetDpr
<1>2. st.dpr \in [Files -> Dpr]
  BY StateFields
<1> HIDE DEF st2
<1>3. DprIs(st, st2, f, d)
  BY <1>1, <1>2 DEF DprIs, OthersSame
<1> QED BY <1>3 DEF st2

\* The books hold if its counters and write_ip are the same.
LEMMA DprIsBooks ==
    ASSUME NEW st, NEW st2, NEW f, NEW d, DprIs(st, st2, f, d), Books(st), d.inq = st.dpr[f].inq, d.write_ip = st.dpr[f].write_ip
    PROVE  Books(st2)
<1>1. \A g \in Files : st2.dpr[g].inq = st.dpr[g].inq /\ st2.dpr[g].write_ip = st.dpr[g].write_ip
  BY DEF DprIs, OthersSame
<1> QED BY <1>1, BooksSame DEF DprIs

\* An error code is recorded, or reset.
WithError(d, e) == [d EXCEPT !.write_error = e]
ErrorSet(d, d2, e) ==
    /\ d2 \in Dpr /\ d2.write_error = e /\ d2.on = d.on /\ d2.reqs = d.reqs /\ d2.file_size = d.file_size
    /\ d2.write_ip = d.write_ip /\ d2.alt = d.alt /\ d2.inq = d.inq

\* Setting write_error changes nothing else.
LEMMA WithErrorOK == ASSUME NEW d \in Dpr, NEW e \in Errors PROVE ErrorSet(d, WithError(d, e), e)
BY DEF Dpr, WithError, ErrorSet

Recorded(d, rs, e) == IF d.write_error = "ok" /\ ~(rs = "IP" /\ e = "less_space") THEN e ELSE d.write_error
HStates(st, rs, e) ==
    LET other == IF rs = "IP" THEN "DP" ELSE "IP"
        both == e # "less_space" \/ Refuses(st, other)
    IN  CASE both -> Queues
          [] ~both /\ rs = "IP" -> {"IP"}
          [] OTHER -> {"DP", "PARTIAL"}

\* The first error is kept; one about space in the index partition is not recorded.
LEMMA RecordErrorIs ==
    ASSUME NEW st \in State, NEW f \in Files, NEW rs, NEW e \in Errors
    PROVE  DprIs(st, RecordError(st, f, rs, e), f, WithError(st.dpr[f], Recorded(st.dpr[f], rs, e)))
<1> DEFINE d == st.dpr[f]  x == Recorded(d, rs, e)
<1>1. d \in Dpr /\ st.dpr \in [Files -> Dpr]
  BY StateFields
<1>2. x \in Errors
  BY <1>1, DprFields DEF Recorded
<1>3. WithError(d, x) \in Dpr
  BY <1>1, <1>2, WithErrorOK DEF ErrorSet
<1>4. RecordError(st, f, rs, e) = [st EXCEPT !.dpr[f].write_error = x]
  BY <1>1 DEF RecordError, Recorded, State
<1> HIDE DEF x
<1>5. [st EXCEPT !.dpr[f].write_error = x] = SetDpr(st, f, WithError(d, x))
  BY <1>1 DEF SetDpr, WithError, State
<1>6. DprIs(st, SetDpr(st, f, WithError(d, x)), f, WithError(d, x))
  BY <1>3, SetDprOK
<1> QED BY <1>4, <1>5, <1>6 DEF x

\* The caller who is told resets it.
LEMMA TellIs == ASSUME NEW st \in State, NEW f \in Files PROVE DprIs(st, Tell(st, f), f, WithError(st.dpr[f], "ok"))
<1> DEFINE d == st.dpr[f]
<1>1. d \in Dpr /\ st.dpr \in [Files -> Dpr]
  BY StateFields
<1>2. WithError(d, "ok") \in Dpr
  BY <1>1, WithErrorOK DEF ErrorSet, Errors
<1>3. Tell(st, f) = SetDpr(st, f, WithError(d, "ok"))
  BY <1>1 DEF SetDpr, WithError, State, Tell
<1>4. DprIs(st, SetDpr(st, f, WithError(d, "ok")), f, WithError(d, "ok"))
  BY <1>2, SetDprOK
<1> QED BY <1>3, <1>4

\* What _unified_handle_write_error leaves of a file.
Handled(st, st2, f, rs, e) ==
    /\ st2 \in State /\ Books(st2) /\ OthersSame(st, st2, f) /\ Listed(st2.dpr[f])
    /\ st2.ext_queue = st.ext_queue /\ st2.tape = st.tape /\ st2.size = st.size
    /\ st2.less = st.less /\ st2.broken = st.broken /\ st2.nfaults = st.nfaults
    /\ \A g \in Files \ {f} : st2.written[g] = st.written[g]
    /\ st2.dpr[f].on = st.dpr[f].on /\ st2.dpr[f].write_ip = st.dpr[f].write_ip /\ st2.dpr[f].alt = st.dpr[f].alt
    /\ st2.dpr[f].write_error = Recorded(st.dpr[f], rs, e)
    /\ \A k \in DOMAIN st2.dpr[f].reqs : st2.dpr[f].reqs[k].state \notin HStates(st, rs, e)
    /\ \A k \in DOMAIN st2.dpr[f].reqs : \E j \in DOMAIN st.dpr[f].reqs : st2.dpr[f].reqs[k] = st.dpr[f].reqs[j]
    /\ \A j \in DOMAIN st.dpr[f].reqs : st.dpr[f].reqs[j].state \notin HStates(st, rs, e)
          => \E k \in DOMAIN st2.dpr[f].reqs : st2.dpr[f].reqs[k] = st.dpr[f].reqs[j]
    /\ Sized(st2.dpr[f])
    /\ st2.written[f] \subseteq st.written[f]
    /\ Recorded(st.dpr[f], rs, e) = "ok" => st2.written[f] = st.written[f]
    /\ Recorded(st.dpr[f], rs, e) # "ok" => st2.written[f] \subseteq Held(st2, f)

\* _unified_handle_write_error leaves exact counters, drops no request in another
\* state, and keeps the account of the data unless the error is recorded.
LEMMA HandleErrorOK ==
    ASSUME NEW st \in State, NEW f \in Files, NEW rs, NEW e \in Errors, Books(st),
           Misled(st.dpr[f], HStates(st, rs, e))
    PROVE  Handled(st, HandleError(st, f, rs, e), f, rs, e)
<1> DEFINE x == Recorded(st.dpr[f], rs, e)  states == HStates(st, rs, e)
           s1 == RecordError(st, f, rs, e)
           kept == Purge(s1, f, states)
           z == Max({End(kept.dpr[f].reqs[i]) : i \in DOMAIN kept.dpr[f].reqs} \cup {st.size[f]})
           W == IF kept.dpr[f].write_error # "ok" THEN kept.written[f] \cap Held(kept, f) ELSE kept.written[f]
           d2 == [kept.dpr[f] EXCEPT !.file_size = z]
           D2 == [kept.dpr EXCEPT ![f] = d2]
           V2 == [kept.written EXCEPT ![f] = W]
           st2 == [kept EXCEPT !.dpr = D2, !.written = V2]
<1>1. DprIs(st, s1, f, WithError(st.dpr[f], x))
  BY RecordErrorIs
<1>2. st.dpr[f] \in Dpr /\ x \in Errors
  <2>1. st.dpr[f] \in Dpr
    BY StateFields
  <2> QED BY <2>1, DprFields DEF Recorded
<1>3. ErrorSet(st.dpr[f], WithError(st.dpr[f], x), x)
  BY <1>2, WithErrorOK
<1> HIDE DEF s1, x
<1>4. s1 \in State /\ OthersSame(st, s1, f) /\ SameRest(st, s1) /\ ErrorSet(st.dpr[f], s1.dpr[f], x)
  BY <1>1, <1>3 DEF DprIs
<1>5. Books(s1)
  BY <1>1, <1>3, DprIsBooks DEF ErrorSet
<1> HIDE DEF states
<1>6. Misled(s1.dpr[f], states)
  BY <1>4 DEF ErrorSet, Misled, states
<1>7. PurgeIs(s1, kept, f, states)
  BY <1>4, <1>5, <1>6, PurgeOK
<1>8. HandleError(st, f, rs, e) = [kept EXCEPT !.dpr[f].file_size = z, !.written[f] = IF kept.dpr[f].write_error # "ok" THEN @ \cap Held(kept, f) ELSE @]
  BY DEF HandleError, Purge, HStates, s1, states
<1> HIDE DEF kept
<1>9. kept \in State /\ Books(kept) /\ Listed(kept.dpr[f]) /\ OthersSame(st, kept, f) /\ SameData(st, kept)
  BY <1>4, <1>7 DEF PurgeIs, OthersSame, SameData, SameRest
<1>10. kept.dpr[f] \in Dpr /\ kept.dpr[f].reqs \in Seq(Req) /\ kept.written \in [Files -> SUBSET Pos] /\ st.size[f] \in Nat /\ kept.dpr \in [Files -> Dpr]
  <2>1. kept.dpr[f].reqs \in Seq(Req)
    BY <1>9, ReqsOf
  <2> QED BY <1>9, <2>1, StateFields
<1>11. z \in Nat /\ \A i \in DOMAIN kept.dpr[f].reqs : End(kept.dpr[f].reqs[i]) <= z
  BY <1>10, MaxEnds
<1>12. HandleError(st, f, rs, e) = st2
  <2> HIDE DEF z
  <2>1. HandleError(st, f, rs, e) = [kept EXCEPT !.dpr[f].file_size = z, !.written[f] = W]
    BY <1>8, <1>9 DEF State
  <2> HIDE DEF W
  <2>2. [kept EXCEPT !.dpr[f].file_size = z, !.written[f] = W] = st2
    BY <1>9, <1>10 DEF State
  <2> QED BY <2>1, <2>2
<1>13. W \in SUBSET Pos /\ W \subseteq kept.written[f] /\ (x = "ok" => W = kept.written[f]) /\ (x # "ok" => W \subseteq Held(kept, f))
       /\ kept.dpr[f].write_error = x
  <2>1. kept.dpr[f].write_error = x
    BY <1>4, <1>7 DEF PurgeIs, FlagsSame, ErrorSet
  <2> QED BY <1>10, <2>1
<1> HIDE DEF z, W
<1>14. d2 \in Dpr /\ d2.file_size = z /\ d2.on = kept.dpr[f].on /\ d2.reqs = kept.dpr[f].reqs /\ d2.write_ip = kept.dpr[f].write_ip
       /\ d2.write_error = kept.dpr[f].write_error /\ d2.alt = kept.dpr[f].alt /\ d2.inq = kept.dpr[f].inq
  BY <1>10, <1>11 DEF Dpr
<1> HIDE DEF d2
<1>15. D2 \in [Files -> Dpr] /\ D2[f] = d2 /\ (\A g \in Files \ {f} : D2[g] = kept.dpr[g])
       /\ V2 \in [Files -> SUBSET Pos] /\ V2[f] = W /\ \A g \in Files \ {f} : V2[g] = kept.written[g]
  BY <1>10, <1>13, <1>14
<1> HIDE DEF D2, V2
<1>16. st2 \in State /\ st2.dpr = D2 /\ st2.written = V2 /\ st2.queue = kept.queue /\ st2.count = kept.count
       /\ st2.ext_queue = kept.ext_queue /\ st2.tape = kept.tape /\ st2.size = kept.size
       /\ st2.less = kept.less /\ st2.broken = kept.broken /\ st2.nfaults = kept.nfaults
  BY <1>9, <1>15 DEF State
<1> HIDE DEF st2
<1>17. Books(st2)
  <2>1. \A g \in Files : st2.dpr[g].inq = kept.dpr[g].inq /\ st2.dpr[g].write_ip = kept.dpr[g].write_ip
    BY <1>14, <1>15, <1>16
  <2> QED BY <1>9, <1>16, <2>1, BooksSame
<1>18. Listed(st2.dpr[f]) /\ Sized(st2.dpr[f])
  BY <1>9, <1>11, <1>14, <1>15, <1>16 DEF Listed, Sized
<1>19. OthersSame(st, st2, f) /\ st2.ext_queue = st.ext_queue /\ st2.tape = st.tape /\ st2.size = st.size
       /\ st2.less = st.less /\ st2.broken = st.broken /\ st2.nfaults = st.nfaults
       /\ (\A g \in Files \ {f} : st2.written[g] = st.written[g]) /\ st2.written[f] = W /\ kept.written[f] = st.written[f]
  BY <1>9, <1>15, <1>16 DEF OthersSame, SameData
<1>20. st2.dpr[f].on = st.dpr[f].on /\ st2.dpr[f].write_ip = st.dpr[f].write_ip /\ st2.dpr[f].alt = st.dpr[f].alt
       /\ st2.dpr[f].write_error = x /\ st2.dpr[f].reqs = kept.dpr[f].reqs /\ s1.dpr[f].reqs = st.dpr[f].reqs
  BY <1>4, <1>7, <1>13, <1>14, <1>15, <1>16 DEF PurgeIs, FlagsSame, ErrorSet
<1>21. Held(st2, f) = Held(kept, f)
  BY <1>16, <1>20 DEF Held
<1>22. Purged(st.dpr[f].reqs, Len(st.dpr[f].reqs), st2.dpr[f].reqs, states)
  BY <1>7, <1>20 DEF PurgeIs
<1>23. DOMAIN st.dpr[f].reqs = 1..Len(st.dpr[f].reqs)
  BY ReqsOf
<1>24. Handled(st, st2, f, rs, e)
  <2>1. /\ \A k \in DOMAIN st2.dpr[f].reqs : st2.dpr[f].reqs[k].state \notin states
        /\ \A k \in DOMAIN st2.dpr[f].reqs : \E j \in DOMAIN st.dpr[f].reqs : st2.dpr[f].reqs[k] = st.dpr[f].reqs[j]
        /\ \A j \in DOMAIN st.dpr[f].reqs : st.dpr[f].reqs[j].state \notin states
             => \E k \in DOMAIN st2.dpr[f].reqs : st2.dpr[f].reqs[k] = st.dpr[f].reqs[j]
    BY <1>22, <1>23 DEF Purged, Thinned
  <2>2. st2.written[f] \subseteq st.written[f] /\ (x = "ok" => st2.written[f] = st.written[f]) /\ (x # "ok" => st2.written[f] \subseteq Held(st2, f))
    BY <1>13, <1>19, <1>21
  <2> QED BY <1>16, <1>17, <1>18, <1>19, <1>20, <2>1, <2>2 DEF Handled, x, states
<1> QED BY <1>12, <1>24

(* What the drive does. *)
Partitions == {"DP", "IP"}
DriveSame(st, st2) == st2.less = st.less /\ st2.broken = st.broken /\ st2.nfaults = st.nfaults

\* The drive is as it was.
LEMMA DriveKept == ASSUME NEW st, NEW st2, DriveSame(st, st2), Drive(st) PROVE Drive(st2)
BY DEF DriveSame, Drive

OutcomeOK(st, p, n, o) ==
    /\ o.ok \in Nat /\ o.e \in Errors
    /\ o.e = "ok" => o.ok = n
    /\ o.e # "ok" => o.ok < n /\ ~NoFaults
    /\ o.e = "less_space" => ~st.broken
    /\ o.e # "ok" => IF Refuses(st, p) THEN o.e = Refusal(st) ELSE o.e \in Faults /\ st.nfaults < MaxFaults

\* A write fails only on a drive that refuses, or by one of the planned faults.
LEMMA OutcomeFacts ==
    ASSUME NEW st \in State, Drive(st), NEW p \in Partitions, NEW n \in Nat, NEW f \in Files, NEW plan, plan.at # f \/ plan \in Plans(st)
    PROVE  OutcomeOK(st, p, n, Outcome(st, p, n, f, plan))
<1> DEFINE o == Outcome(st, p, n, f, plan)
<1>0. st.less \in SUBSET Partitions /\ st.broken \in BOOLEAN /\ st.nfaults \in Nat
  BY StateFields DEF Partitions
<1>1. plan.at # f \/ plan = NoFault \/ (st.nfaults < MaxFaults /\ plan \in [at : Files, ok : 0 .. CacheBlocks - 1, e : Faults])
  BY DEF Plans
<1>2. plan = NoFault => plan.at # f
  BY ThreadsOK DEF NoFault
<1>3. "ok" \in Errors /\ Faults \subseteq Errors /\ "ok" \notin Faults /\ "fatal" \in Errors /\ "less_space" \in Errors
  BY FaultsOK DEF Errors
<1>4. CASE n = 0
  <2>1. o = [ok |-> 0, e |-> "ok"]
    BY <1>4 DEF Outcome
  <2> HIDE DEF o
  <2>2. OutcomeOK(st, p, n, o)
    BY <1>3, <1>4, <2>1 DEF OutcomeOK
  <2> QED BY <2>2 DEF o
<1>5. CASE n > 0 /\ Refuses(st, p)
  <2>1. o = [ok |-> 0, e |-> Refusal(st)]
    BY <1>5 DEF Outcome
  <2>2. Refusal(st) \in {"fatal", "less_space"} /\ (Refusal(st) = "less_space" => ~st.broken)
    BY DEF Refusal
  <2>3. ~NoFaults
    BY <1>5 DEF Drive, Refuses
  <2> HIDE DEF o
  <2>4. OutcomeOK(st, p, n, o)
    BY <1>3, <1>5, <2>1, <2>2, <2>3 DEF OutcomeOK
  <2> QED BY <2>4 DEF o
<1>6. CASE n > 0 /\ ~Refuses(st, p) /\ plan.at = f /\ plan.ok < n
  <2>1. o = [ok |-> plan.ok, e |-> plan.e]
    BY <1>6 DEF Outcome
  <2>2. st.nfaults < MaxFaults /\ plan.ok \in Nat /\ plan.e \in Faults
    BY <1>1, <1>2, <1>6, CacheBlocksPositive
  <2>3. ~NoFaults /\ ~st.broken
    BY <1>0, <1>6, <2>2, BoundsOK DEF NoFaults, Refuses
  <2> HIDE DEF o
  <2>4. OutcomeOK(st, p, n, o)
    BY <1>3, <1>6, <2>1, <2>2, <2>3 DEF OutcomeOK
  <2> QED BY <2>4 DEF o
<1>7. CASE n > 0 /\ ~Refuses(st, p) /\ ~(plan.at = f /\ plan.ok < n)
  <2>1. o = [ok |-> n, e |-> "ok"]
    BY <1>7 DEF Outcome
  <2> HIDE DEF o
  <2>2. OutcomeOK(st, p, n, o)
    BY <1>3, <1>7, <2>1 DEF OutcomeOK
  <2> QED BY <2>2 DEF o
<1> QED BY <1>4, <1>5, <1>6, <1>7

DamageIs(st, st2) ==
    /\ st2 \in State /\ st2.dpr = st.dpr /\ st2.queue = st.queue /\ st2.count = st.count
    /\ st2.ext_queue = st.ext_queue /\ st2.tape = st.tape /\ st2.size = st.size /\ st2.written = st.written
    /\ Drive(st2)

\* A fault leaves the drive's account right.
LEMMA DamageOK ==
    ASSUME NEW st \in State, Drive(st), NEW p \in Partitions, NEW e \in Errors, e # "ok", ~NoFaults,
           IF Refuses(st, p) THEN e = Refusal(st) ELSE e \in Faults /\ st.nfaults < MaxFaults
    PROVE  /\ DamageIs(st, Damage(st, p, e))
           /\ e = "less_space" /\ ~st.broken => ~Damage(st, p, e).broken
<1> DEFINE less == IF e = "less_space" THEN st.less \cup {p} ELSE st.less
           broken == st.broken \/ e = "fatal"
           nf == IF Refuses(st, p) THEN st.nfaults ELSE st.nfaults + 1
           st2 == [st EXCEPT !.less = less, !.broken = broken, !.nfaults = nf]
<1>0. st.less \in SUBSET Partitions /\ st.broken \in BOOLEAN /\ st.nfaults \in Nat /\ MaxFaults \in Nat
  BY StateFields, BoundsOK DEF Partitions
<1>1. Damage(st, p, e) = st2
  BY DEF Damage, State
<1>2. less \in SUBSET {"DP", "IP"} /\ broken \in BOOLEAN /\ nf \in Nat
  BY <1>0 DEF Partitions
<1>3. ("less_space" \notin Faults => less = {}) /\ nf <= MaxFaults
  <2>1. CASE Refuses(st, p)
    BY <1>0, <2>1 DEF Refuses, Refusal, Drive
  <2>2. CASE ~Refuses(st, p)
    BY <1>0, <2>2 DEF Drive
  <2> QED BY <2>1, <2>2
<1>4. (less # {} => nf >= 1) /\ (less = {"DP", "IP"} => nf >= 2)
  <2>1. CASE Refuses(st, p)
    <3>1. less = st.less
      BY <2>1 DEF Refuses, Refusal
    <3> QED BY <2>1, <3>1 DEF Drive
  <2>2. CASE ~Refuses(st, p)
    <3>1. nf = st.nfaults + 1 /\ p \notin st.less
      BY <2>2 DEF Refuses
    <3>2. nf >= 1
      BY <1>0, <3>1
    <3>3. less = {"DP", "IP"} => st.less # {}
      BY <3>1 DEF Partitions
    <3> QED BY <1>0, <3>1, <3>2, <3>3 DEF Drive
  <2> QED BY <2>1, <2>2
<1> HIDE DEF less, nf
<1>5. e = "less_space" /\ ~st.broken => ~broken
  OBVIOUS
<1> HIDE DEF broken
<1>6. /\ st2 \in State /\ st2.dpr = st.dpr /\ st2.queue = st.queue /\ st2.count = st.count
      /\ st2.ext_queue = st.ext_queue /\ st2.tape = st.tape /\ st2.size = st.size /\ st2.written = st.written
      /\ st2.less = less /\ st2.broken = broken /\ st2.nfaults = nf
  BY <1>2 DEF State
<1> HIDE DEF st2
<1>7. Drive(st2)
  BY <1>3, <1>4, <1>6 DEF Drive
<1> QED BY <1>1, <1>5, <1>6, <1>7 DEF DamageIs

(* Flushing a file. *)
LEMMA ClearDpOK ==
    ASSUME NEW st \in State, NEW f \in Files, Books(st)
    PROVE  /\ QStep(st, ClearDpQueues(st, f), f)
           /\ ClearDpQueues(st, f).dpr[f].inq = [[st.dpr[f].inq EXCEPT !["DP"] = 0] EXCEPT !["PARTIAL"] = 0]
<1> DEFINE a == ClearQ(st, "DP", f)  b == ClearQ(a, "PARTIAL", f)
<1>0. "DP" \in Queues /\ "PARTIAL" \in Queues
  BY DEF Queues
<1>1. QStep(st, a, f) /\ a.dpr[f].inq = [st.dpr[f].inq EXCEPT !["DP"] = 0]
  BY <1>0, ClearQOK
<1> HIDE DEF a
<1>2. a \in State /\ Books(a)
  BY <1>1 DEF QStep
<1>3. QStep(a, b, f) /\ b.dpr[f].inq = [a.dpr[f].inq EXCEPT !["PARTIAL"] = 0]
  BY <1>0, <1>2, ClearQOK
<1> HIDE DEF b
<1>4. QStep(st, b, f)
  BY <1>1, <1>3, QStepTrans
<1>5. ClearDpQueues(st, f) = b
  BY DEF ClearDpQueues, a, b
<1> QED BY <1>1, <1>3, <1>4, <1>5

\* Only f's part of the state differs.
FileStep(st, st2, f) ==
    /\ st2 \in State /\ Books(st2) /\ Drive(st2) /\ OthersSame(st, st2, f)
    /\ \A g \in Files \ {f} : /\ st2.tape[g] = st.tape[g] /\ st2.size[g] = st.size[g] /\ st2.written[g] = st.written[g]
                              /\ g \in st2.ext_queue <=> g \in st.ext_queue
    /\ FileOK(st2.dpr[f], st2.tape[f])

\* Requests in `states' of f were written, dropped with an error, or taken over.
Taken(st, st2, f, local, states) ==
    /\ FileStep(st, st2, f)
    /\ st2.ext_queue = st.ext_queue /\ st2.dpr[f].on = st.dpr[f].on /\ st2.dpr[f].alt = st.dpr[f].alt
    /\ st2.dpr[f].write_ip = st.dpr[f].write_ip
    /\ st.tape[f] \subseteq st2.tape[f]
    /\ Held(st2, f) \cup Ids(local) \subseteq Held(st, f)
    /\ st2.written[f] \subseteq st.written[f]
    /\ NoFaults => st2.written[f] = st.written[f] /\ Held(st, f) \subseteq Held(st2, f) \cup Ids(local)
    /\ \A e \in st2.written[f] : e \in Held(st, f) => e \in Held(st2, f) \/ e \in Ids(local)
    /\ st2.dpr[f].write_error = "ok" => st.dpr[f].write_error = "ok" /\ DriveSame(st, st2) /\ \A k \in DOMAIN st2.dpr[f].reqs : st2.dpr[f].reqs[k].state \notin states

\* A file in order has requests that fit its size and its extents.
LEMMA FitsOK == ASSUME NEW d, NEW T, FileOK(d, T) PROVE Fits(d.reqs, T, d.file_size)
BY DEF FileOK, IpSaved, Sized, Fits

\* A list of some of the requests has some of the data.
LEMMA IdsIn ==
    ASSUME NEW reqs \in Seq(Req), NEW keep \in Seq(Req),
           \A k \in DOMAIN keep : \E j \in DOMAIN reqs : keep[k] = reqs[j]
    PROVE  Ids(keep) \subseteq Ids(reqs)
BY DEF Ids

\* The queue counters of f for some states are zero, and otherwise nothing is new.
Cleared(st, out, f, states) ==
    QStep(st, out, f) /\ \A q \in Queues : out.dpr[f].inq[q] = IF q \in states THEN 0 ELSE st.dpr[f].inq[q]

TakeArgs(st, f, states, toLocal, o, out) ==
    /\ st \in State /\ Books(st) /\ Drive(st) /\ f \in Files /\ FileOK(st.dpr[f], st.tape[f]) /\ st.dpr[f].on
    /\ states \in {{"DP"}, DataStates} /\ toLocal \in BOOLEAN
    /\ OutcomeOK(st, "DP", IF toLocal /\ ~st.dpr[f].write_ip THEN 0 ELSE NumIn(st.dpr[f].reqs, states), o)
    /\ Cleared(st, out, f, states)

TakeIs(st, out, f, states, toLocal, o, walk) ==
    /\ WalkOver(out, walk, f, states, toLocal, o.ok) /\ (o.e = "ok" <=> walk.failed = <<>>)
    /\ out \in State /\ SameRest(st, out) /\ SameDpr(st.dpr[f], out.dpr[f]) /\ OthersSame(st, out, f)
    /\ \A q \in Queues : out.dpr[f].inq[q] = IF q \in states THEN 0 ELSE NumIn(st.dpr[f].reqs, {q})
    /\ states \subseteq DataStates /\ f \in Files /\ st \in State

\* The loop on a file whose counters for the states have been cleared.
LEMMA TakeWalk ==
    ASSUME NEW st, NEW f, NEW states, NEW toLocal, NEW o, NEW out, TakeArgs(st, f, states, toLocal, o, out)
    PROVE  TakeIs(st, out, f, states, toLocal, o, WalkReqs(out, f, states, toLocal, o.ok))
<1> DEFINE walk == WalkReqs(out, f, states, toLocal, o.ok)
<1>1. st \in State /\ f \in Files /\ FileOK(st.dpr[f], st.tape[f]) /\ Cleared(st, out, f, states) /\ states \in {{"DP"}, DataStates} /\ toLocal \in BOOLEAN
  BY DEF TakeArgs
<1>2. states \subseteq DataStates /\ "IP" \notin states /\ "IP" \in Queues
  BY <1>1 DEF DataStates, Queues
<1>3. out \in State /\ Books(out) /\ SameRest(st, out) /\ SameDpr(st.dpr[f], out.dpr[f]) /\ OthersSame(st, out, f)
  BY <1>1 DEF Cleared, QStep, OthersSame
<1>4. \A q \in Queues : out.dpr[f].inq[q] = IF q \in states THEN 0 ELSE NumIn(st.dpr[f].reqs, {q})
  BY <1>1 DEF Cleared, FileOK, Listed
<1>5. out.dpr[f].inq["IP"] = NumIn(out.dpr[f].reqs, {"IP"})
  BY <1>2, <1>3, <1>4 DEF SameDpr
<1>6. Fits(out.dpr[f].reqs, out.tape[f], out.dpr[f].file_size)
  <2>1. Fits(st.dpr[f].reqs, st.tape[f], st.dpr[f].file_size)
    BY <1>1, FitsOK
  <2> QED BY <1>3, <2>1 DEF SameDpr, SameRest
<1>7. o.ok \in Nat
  BY DEF TakeArgs, OutcomeOK
<1>8. WalkOver(out, walk, f, states, toLocal, o.ok)
  BY <1>1, <1>2, <1>3, <1>5, <1>6, <1>7, WalkResult
<1> HIDE DEF walk
<1>9. o.e = "ok" <=> walk.failed = <<>>
  <2>1. out.dpr[f].write_ip = st.dpr[f].write_ip /\ out.dpr[f].reqs = st.dpr[f].reqs
    BY <1>3 DEF SameDpr
  <2>2. NumIn(st.dpr[f].reqs, states) \in Nat
    <3>1. st.dpr[f].reqs \in Seq(Req)
      BY <1>1, ReqsOf
    <3> QED BY <3>1, NumInUpto
  <2>3. CASE toLocal /\ ~st.dpr[f].write_ip
    <3>1. walk.failed = <<>>
      BY <1>8, <2>1, <2>3 DEF WalkOver
    <3>2. OutcomeOK(st, "DP", 0, o)
      BY <2>3 DEF TakeArgs
    <3>3. o.e = "ok"
      BY <1>7, <3>2 DEF OutcomeOK
    <3> QED BY <3>1, <3>3
  <2>4. CASE ~(toLocal /\ ~st.dpr[f].write_ip)
    <3>1. walk.failed = <<>> <=> NumIn(st.dpr[f].reqs, states) <= o.ok
      BY <1>8, <2>1, <2>4 DEF WalkOver
    <3>2. OutcomeOK(st, "DP", NumIn(st.dpr[f].reqs, states), o)
      BY <2>4 DEF TakeArgs
    <3> HIDE DEF TakeArgs
    <3>3. (o.e = "ok" => o.ok = NumIn(st.dpr[f].reqs, states)) /\ (o.e # "ok" => o.ok < NumIn(st.dpr[f].reqs, states))
      BY <3>2 DEF OutcomeOK
    <3> QED BY <1>7, <2>2, <3>1, <3>3
  <2> QED BY <2>3, <2>4
<1>10. TakeIs(st, out, f, states, toLocal, o, walk)
  BY <1>1, <1>2, <1>3, <1>4, <1>8, <1>9 DEF TakeIs
<1> QED BY <1>10 DEF walk

\* Without an error.
LEMMA TakeOk ==
    ASSUME NEW st, NEW f, NEW states, NEW toLocal, NEW o, NEW out, TakeArgs(st, f, states, toLocal, o, out), o.e = "ok"
    PROVE  Taken(st, WalkReqs(out, f, states, toLocal, o.ok).st, f, WalkReqs(out, f, states, toLocal, o.ok).local, states)
<1> DEFINE walk == WalkReqs(out, f, states, toLocal, o.ok)  st2 == walk.st
<1>0. TakeIs(st, out, f, states, toLocal, o, walk)
  BY TakeWalk
<1> HIDE DEF walk
<1>1. WalkOver(out, walk, f, states, toLocal, o.ok) /\ walk.failed = <<>>
  BY <1>0 DEF TakeIs
<1>2. out \in State /\ SameRest(st, out) /\ SameDpr(st.dpr[f], out.dpr[f]) /\ OthersSame(st, out, f)
  BY <1>0 DEF TakeIs
<1>3. \A q \in Queues : out.dpr[f].inq[q] = IF q \in states THEN 0 ELSE NumIn(st.dpr[f].reqs, {q})
  BY <1>0 DEF TakeIs
<1>4. states \subseteq DataStates /\ f \in Files /\ st \in State
  BY <1>0 DEF TakeIs
<1>5. OnlyFile(out, st2, f) /\ FlagsSame(out.dpr[f], st2.dpr[f]) /\ st2.ext_queue = out.ext_queue
  BY <1>1 DEF WalkOver
<1>6. st2 \in State /\ Books(st2) /\ OthersSame(st, st2, f) /\ DriveSame(st, st2) /\ st2.ext_queue = st.ext_queue
      /\ st2.written = st.written /\ st.tape[f] \subseteq st2.tape[f]
      /\ \A g \in Files \ {f} : st2.tape[g] = st.tape[g] /\ st2.size[g] = st.size[g]
  BY <1>2, <1>5 DEF OnlyFile, SameRest, OthersSame, DriveSame
<1>7. Drive(st2)
  BY <1>6, DriveKept DEF TakeArgs
<1>8. FlagsSame(st.dpr[f], st2.dpr[f])
  BY <1>2, <1>5 DEF FlagsSame, SameDpr
<1>9. st2.dpr[f] \in Dpr /\ st2.dpr[f].reqs \in Seq(Req)
  BY <1>4, <1>6, ReqsOf
<1>10. \A k \in DOMAIN st2.dpr[f].reqs : st2.dpr[f].reqs[k].state \notin states
  BY <1>1 DEF WalkOver
<1>11. Listed(st2.dpr[f])
  <2>1. SUFFICES ASSUME NEW q \in Queues PROVE st2.dpr[f].inq[q] = NumIn(st2.dpr[f].reqs, {q})
    BY DEF Listed
  <2>2. CASE q = "IP"
    BY <1>1, <2>2 DEF WalkOver
  <2>3. CASE q # "IP" /\ q \in states
    <3>1. st2.dpr[f].inq[q] = 0
      BY <1>1, <1>3, <2>3 DEF WalkOver
    <3>2. NumIn(st2.dpr[f].reqs, {q}) = 0
      BY <1>9, <1>10, <2>3, NumInZero
    <3> QED BY <3>1, <3>2
  <2>4. CASE q # "IP" /\ q \notin states
    <3>1. st2.dpr[f].inq[q] = NumIn(st.dpr[f].reqs, {q})
      BY <1>1, <1>3, <2>4 DEF WalkOver
    <3>2. NumIn(st2.dpr[f].reqs, {q}) = NumIn(out.dpr[f].reqs, {q})
      BY <1>1, <2>4 DEF WalkOver
    <3> QED BY <1>2, <3>1, <3>2 DEF SameDpr
  <2> QED BY <2>2, <2>3, <2>4
<1>12. FileOK(st2.dpr[f], st2.tape[f])
  <2>1. FileOK(st.dpr[f], st.tape[f]) /\ st.dpr[f].on
    BY DEF TakeArgs
  <2>2. Fits(st2.dpr[f].reqs, st2.tape[f], st2.dpr[f].file_size)
    BY <1>1, <1>5 DEF WalkOver, FlagsSame
  <2>3. MaxIpSize = 0 => \A k \in DOMAIN st2.dpr[f].reqs : st2.dpr[f].reqs[k].state # "IP"
    BY <1>1, <1>2, <2>1 DEF WalkOver, FileOK, NoIp, SameDpr
  <2>4. NoIp(st2.dpr[f])
    BY <1>8, <2>1, <2>3 DEF FlagsSame, FileOK, NoIp
  <2> QED BY <1>8, <1>11, <2>1, <2>2, <2>4 DEF FileOK, IpSaved, Sized, Fits, FlagsSame
<1>13. FileStep(st, st2, f)
  BY <1>6, <1>7, <1>12 DEF FileStep
<1>14. \A e : e \in Held(st2, f) \/ e \in Ids(walk.local) <=> e \in Held(st, f)
  <2>1. \A e : e \in Ids(st2.dpr[f].reqs) \/ e \in Ids(walk.local) \/ e \in st2.tape[f] <=> e \in Ids(out.dpr[f].reqs) \/ e \in out.tape[f]
    BY <1>1 DEF WalkOver
  <2>2. out.dpr[f].reqs = st.dpr[f].reqs /\ out.tape = st.tape
    BY <1>2 DEF SameDpr, SameRest
  <2> QED BY <2>1, <2>2 DEF Held
<1>15. Taken(st, st2, f, walk.local, states)
  BY <1>6, <1>8, <1>10, <1>13, <1>14 DEF Taken, FlagsSame
<1> QED BY <1>15 DEF walk

\* With an error.
LEMMA TakeError ==
    ASSUME NEW st, NEW f, NEW states, NEW toLocal, NEW o, NEW out, TakeArgs(st, f, states, toLocal, o, out), o.e # "ok"
    PROVE  LET walk == WalkReqs(out, f, states, toLocal, o.ok)
           IN  Taken(st, HandleError(Damage(walk.st, "DP", o.e), f, Head(walk.failed).state, o.e), f, walk.local, states)
<1> DEFINE walk == WalkReqs(out, f, states, toLocal, o.ok)  s1 == walk.st  s2 == Damage(s1, "DP", o.e)  rs == Head(walk.failed).state
           st2 == HandleError(s2, f, rs, o.e)
<1>0. TakeIs(st, out, f, states, toLocal, o, walk)
  BY TakeWalk
<1> HIDE DEF walk
<1>1. WalkOver(out, walk, f, states, toLocal, o.ok) /\ walk.failed # <<>>
  BY <1>0 DEF TakeIs
<1>2. out \in State /\ SameRest(st, out) /\ SameDpr(st.dpr[f], out.dpr[f]) /\ OthersSame(st, out, f)
  BY <1>0 DEF TakeIs
<1>3. \A q \in Queues : out.dpr[f].inq[q] = IF q \in states THEN 0 ELSE NumIn(st.dpr[f].reqs, {q})
  BY <1>0 DEF TakeIs
<1>4. states \subseteq DataStates /\ f \in Files /\ st \in State
  BY <1>0 DEF TakeIs
<1>5. OnlyFile(out, s1, f) /\ FlagsSame(out.dpr[f], s1.dpr[f]) /\ s1.ext_queue = out.ext_queue
  BY <1>1 DEF WalkOver
<1>6. s1 \in State /\ Books(s1) /\ OthersSame(st, s1, f) /\ DriveSame(st, s1) /\ s1.ext_queue = st.ext_queue
      /\ s1.written = st.written /\ st.tape[f] \subseteq s1.tape[f]
      /\ \A g \in Files \ {f} : s1.tape[g] = st.tape[g] /\ s1.size[g] = st.size[g]
  BY <1>2, <1>5 DEF OnlyFile, SameRest, OthersSame, DriveSame
<1>7. Drive(s1) /\ Drive(st)
  BY <1>6, DriveKept DEF TakeArgs
<1>8. FlagsSame(st.dpr[f], s1.dpr[f])
  BY <1>2, <1>5 DEF FlagsSame, SameDpr
<1>9. DamageIs(s1, s2)
  <2>1. ~NoFaults /\ o.e \in Errors /\ (IF Refuses(st, "DP") THEN o.e = Refusal(st) ELSE o.e \in Faults /\ st.nfaults < MaxFaults)
    BY DEF TakeArgs, OutcomeOK
  <2>2. IF Refuses(s1, "DP") THEN o.e = Refusal(s1) ELSE o.e \in Faults /\ s1.nfaults < MaxFaults
    BY <1>6, <2>1 DEF DriveSame, Refuses, Refusal
  <2>3. "DP" \in Partitions
    BY DEF Partitions
  <2> QED BY <1>6, <1>7, <2>1, <2>2, <2>3, DamageOK
<1>10. o.e \in Errors /\ ~NoFaults
  BY DEF TakeArgs, OutcomeOK
<1> HIDE DEF s2
<1>11. rs \in DataStates /\ rs # "IP"
  BY <1>1, <1>4 DEF WalkOver, DataStates
<1> HIDE DEF rs
<1>12. DataStates \subseteq HStates(s2, rs, o.e)
  BY <1>11 DEF HStates, DataStates, Queues
<1>13. s2 \in State /\ Books(s2) /\ s2.dpr = s1.dpr
  <2>1. s2 \in State /\ s2.dpr = s1.dpr /\ s2.queue = s1.queue /\ s2.count = s1.count
    BY <1>9 DEF DamageIs
  <2> QED BY <1>6, <2>1, BooksSame
<1>14. Misled(s2.dpr[f], HStates(s2, rs, o.e))
  <2>1. SUFFICES ASSUME NEW q \in Queues
                 PROVE s1.dpr[f].inq[q] = NumIn(s1.dpr[f].reqs, {q}) \/ (q \in HStates(s2, rs, o.e) /\ s1.dpr[f].inq[q] = 0)
    BY <1>13 DEF Misled
  <2>2. CASE q = "IP"
    BY <1>1, <2>2 DEF WalkOver
  <2>3. CASE q # "IP" /\ q \in states
    BY <1>1, <1>3, <1>4, <1>12, <2>3 DEF WalkOver
  <2>4. CASE q # "IP" /\ q \notin states
    <3>1. s1.dpr[f].inq[q] = NumIn(st.dpr[f].reqs, {q})
      BY <1>1, <1>3, <2>4 DEF WalkOver
    <3>2. NumIn(s1.dpr[f].reqs, {q}) = NumIn(out.dpr[f].reqs, {q})
      BY <1>1, <2>4 DEF WalkOver
    <3> QED BY <1>2, <3>1, <3>2 DEF SameDpr
  <2> QED BY <2>2, <2>3, <2>4
<1>15. Handled(s2, st2, f, rs, o.e)
  BY <1>4, <1>10, <1>13, <1>14, HandleErrorOK
<1> HIDE DEF st2
<1>16. st2 \in State /\ Books(st2) /\ OthersSame(st, st2, f) /\ DriveSame(s2, st2) /\ st2.ext_queue = st.ext_queue
       /\ st2.tape = s1.tape /\ st2.size = s1.size /\ \A g \in Files \ {f} : st2.written[g] = st.written[g]
  BY <1>6, <1>9, <1>15 DEF Handled, DamageIs, DriveSame, OthersSame
<1>17. Drive(st2)
  BY <1>9, <1>16, DriveKept DEF DamageIs
<1>18. Recorded(s2.dpr[f], rs, o.e) # "ok" /\ st2.dpr[f].write_error # "ok"
  BY <1>11, <1>15 DEF Recorded, Handled
<1>19. st2.dpr[f].reqs \in Seq(Req) /\ s1.dpr[f].reqs \in Seq(Req)
  BY <1>4, <1>6, <1>16, ReqsOf
<1>20. Ids(st2.dpr[f].reqs) \subseteq Ids(s1.dpr[f].reqs)
  BY <1>13, <1>15, <1>19, IdsIn DEF Handled
<1>21. walk.local = <<>>
  <2>1. toLocal /\ ~st.dpr[f].write_ip => FALSE
    BY <1>1, <1>2 DEF WalkOver, SameDpr
  <2> QED BY <1>1, <1>2, <2>1 DEF WalkOver, WLocal, SameDpr
<1>22. Ids(walk.local) = {}
  BY <1>21, IdsEmpty
<1>23. FileOK(st2.dpr[f], st2.tape[f])
  <2>1. FileOK(st.dpr[f], st.tape[f]) /\ st.dpr[f].on
    BY DEF TakeArgs
  <2>2. Fits(s1.dpr[f].reqs, st2.tape[f], s1.dpr[f].file_size)
    BY <1>1, <1>5, <1>16 DEF WalkOver, FlagsSame
  <2>3. MaxIpSize = 0 => \A k \in DOMAIN s1.dpr[f].reqs : s1.dpr[f].reqs[k].state # "IP"
    BY <1>1, <1>2, <2>1 DEF WalkOver, FileOK, NoIp, SameDpr
  <2>4. \A k \in DOMAIN st2.dpr[f].reqs : \E j \in DOMAIN s1.dpr[f].reqs : st2.dpr[f].reqs[k] = s1.dpr[f].reqs[j]
    BY <1>13, <1>15 DEF Handled
  <2>5. st2.dpr[f].on /\ st2.dpr[f].write_ip = st.dpr[f].write_ip /\ st2.dpr[f].alt = st.dpr[f].alt
    BY <1>8, <1>13, <1>15, <2>1 DEF Handled, FlagsSame
  <2>6. NoIp(st2.dpr[f])
    BY <2>1, <2>3, <2>4, <2>5 DEF FileOK, NoIp
  <2>7. IpSaved(st2.dpr[f], st2.tape[f])
    BY <2>2, <2>4 DEF IpSaved, Fits
  <2> QED BY <1>10, <1>15, <2>5, <2>6, <2>7 DEF FileOK, Handled
<1>24. FileStep(st, st2, f)
  BY <1>6, <1>16, <1>17, <1>23 DEF FileStep
<1>25. \A e : e \in Held(st2, f) => e \in Held(st, f)
  <2>1. \A e : e \in Ids(s1.dpr[f].reqs) \/ e \in s1.tape[f] => e \in Ids(out.dpr[f].reqs) \/ e \in out.tape[f]
    BY <1>1 DEF WalkOver
  <2>2. out.dpr[f].reqs = st.dpr[f].reqs /\ out.tape = st.tape
    BY <1>2 DEF SameDpr, SameRest
  <2> QED BY <1>16, <1>20, <2>1, <2>2 DEF Held
<1>26. st2.written[f] \subseteq st.written[f] /\ st2.written[f] \subseteq Held(st2, f)
  BY <1>6, <1>9, <1>15, <1>18 DEF Handled, DamageIs
<1>27. st2.dpr[f].on = st.dpr[f].on /\ st2.dpr[f].write_ip = st.dpr[f].write_ip /\ st2.dpr[f].alt = st.dpr[f].alt
  BY <1>8, <1>13, <1>15 DEF Handled, FlagsSame
<1>28. Taken(st, st2, f, walk.local, states)
  BY <1>6, <1>10, <1>16, <1>18, <1>22, <1>24, <1>25, <1>26, <1>27 DEF Taken
<1> QED BY <1>28 DEF walk, st2, s2, rs

Sound(st) == st \in State /\ Books(st) /\ Drive(st) /\ FilesOK(st)
AllIp(reqs) == \A k \in DOMAIN reqs : reqs[k].state = "IP"

\* What becomes of the data of a file that is written, or given up with an error.
Kept(st, st2, g) ==
    /\ st2.dpr[g].on = st.dpr[g].on /\ st2.dpr[g].alt = st.dpr[g].alt /\ st2.dpr[g].write_ip = st.dpr[g].write_ip
    /\ st.tape[g] \subseteq st2.tape[g]
    /\ Held(st2, g) \subseteq Held(st, g)
    /\ st2.written[g] \subseteq st.written[g]
    /\ NoFaults => st2.written[g] = st.written[g] /\ Held(st, g) \subseteq Held(st2, g)
    /\ \A e \in st2.written[g] : e \in Held(st, g) => e \in Held(st2, g)

\* Keeping the data is transitive.
LEMMA KeptTrans == ASSUME NEW st, NEW st2, NEW st3, NEW g, Kept(st, st2, g), Kept(st2, st3, g) PROVE Kept(st, st3, g)
BY DEF Kept

\* A step on another file keeps the data.
LEMMA KeptSame ==
    ASSUME NEW st, NEW st2, NEW f, FileStep(st, st2, f)
    PROVE  \A g \in Files \ {f} : Kept(st, st2, g) /\ st2.dpr[g].reqs = st.dpr[g].reqs
BY DEF FileStep, OthersSame, Kept, Held

\* Flushing keeps the data, but for what an error tells of.
LEMMA KeptTaken == ASSUME NEW st, NEW st2, NEW f, NEW states, Taken(st, st2, f, <<>>, states) PROVE Kept(st, st2, f)
BY IdsEmpty DEF Taken, Kept

\* A step on one file keeps all in order.
LEMMA SoundStep == ASSUME NEW st, NEW st2, NEW f, Sound(st), FileStep(st, st2, f) PROVE Sound(st2)
<1>1. \A g \in Files \ {f} : FileOK(st2.dpr[g], st2.tape[g])
  BY DEF Sound, FilesOK, FileStep, OthersSame
<1> QED BY <1>1 DEF Sound, FilesOK, FileStep

\* The caller is told of an error.
ToldIs(st, st2, f) ==
    /\ FileStep(st, st2, f) /\ SameRest(st, st2) /\ ErrorSet(st.dpr[f], st2.dpr[f], "ok")
    /\ Kept(st, st2, f)

\* Telling the caller keeps the data.
LEMMA TellOK ==
    ASSUME NEW st, NEW f \in Files, Sound(st), st.dpr[f].on
    PROVE  ToldIs(st, Tell(st, f), f)
<1> DEFINE st2 == Tell(st, f)
<1>1. st \in State /\ Books(st) /\ Drive(st) /\ FileOK(st.dpr[f], st.tape[f])
  BY DEF Sound, FilesOK
<1>2. DprIs(st, st2, f, WithError(st.dpr[f], "ok"))
  BY <1>1, TellIs
<1>3. ErrorSet(st.dpr[f], WithError(st.dpr[f], "ok"), "ok")
  <2>1. st.dpr[f] \in Dpr /\ "ok" \in Errors
    BY <1>1, ReqsOf DEF Errors
  <2> QED BY <2>1, WithErrorOK
<1> HIDE DEF st2
<1>4. st2 \in State /\ OthersSame(st, st2, f) /\ SameRest(st, st2) /\ ErrorSet(st.dpr[f], st2.dpr[f], "ok")
  BY <1>2, <1>3 DEF DprIs
<1>5. Books(st2)
  BY <1>1, <1>2, <1>3, DprIsBooks DEF ErrorSet
<1>6. Drive(st2)
  BY <1>1, <1>4, DriveKept DEF DriveSame, SameRest
<1>7. FileOK(st2.dpr[f], st2.tape[f])
  BY <1>1, <1>4 DEF FileOK, ErrorSet, Listed, IpSaved, Sized, NoIp, SameRest
<1>8. FileStep(st, st2, f)
  BY <1>4, <1>5, <1>6, <1>7 DEF FileStep, SameRest
<1>9. Kept(st, st2, f)
  BY <1>4 DEF Kept, Held, ErrorSet, SameRest
<1>10. ToldIs(st, st2, f)
  BY <1>4, <1>8, <1>9 DEF ToldIs
<1> QED BY <1>10 DEF st2

\* _unified_flush_unlocked
LEMMA FlushOneOK ==
    ASSUME NEW st, NEW f \in Files, Sound(st), st.dpr[f].on, NEW plan, plan.at # f \/ plan \in Plans(st)
    PROVE  Taken(st, FlushOne(st, f, plan), f, <<>>, DataStates)
<1> DEFINE n == NumIn(st.dpr[f].reqs, DataStates)  o == Outcome(st, "DP", n, f, plan)  out == ClearDpQueues(st, f)
           walk == WalkReqs(out, f, DataStates, FALSE, o.ok)
<1>1. st \in State /\ Books(st) /\ Drive(st) /\ FileOK(st.dpr[f], st.tape[f])
  BY DEF Sound, FilesOK
<1>2. n \in Nat /\ st.dpr[f].inq \in [Queues -> Nat]
  <2>1. st.dpr[f].reqs \in Seq(Req) /\ st.dpr[f].inq \in [Queues -> Nat]
    BY <1>1, ReqsOf
  <2> QED BY <2>1, NumInUpto
<1> HIDE DEF n
<1>3. OutcomeOK(st, "DP", n, o)
  <2>1. "DP" \in Partitions
    BY DEF Partitions
  <2> QED BY <1>1, <1>2, <2>1, OutcomeFacts
<1>4. Cleared(st, out, f, DataStates)
  <2>1. QStep(st, out, f) /\ out.dpr[f].inq = [[st.dpr[f].inq EXCEPT !["DP"] = 0] EXCEPT !["PARTIAL"] = 0]
    BY <1>1, ClearDpOK
  <2> HIDE DEF out
  <2> QED BY <1>2, <2>1 DEF Cleared, DataStates, Queues
<1>50. FlushOne(st, f, plan) = IF o.e = "ok" THEN walk.st ELSE HandleError(Damage(walk.st, "DP", o.e), f, Head(walk.failed).state, o.e)
  BY DEF FlushOne, DataStates, n
<1> HIDE DEF o, out
<1>5. TakeArgs(st, f, DataStates, FALSE, o, out)
  BY <1>1, <1>3, <1>4 DEF TakeArgs, n
<1>6. TakeIs(st, out, f, DataStates, FALSE, o, walk)
  BY <1>5, TakeWalk
<1>7. walk.local = <<>>
  <2> HIDE DEF walk
  <2> QED BY <1>6 DEF TakeIs, WalkOver, WLocal
<1>8. CASE o.e = "ok"
  <2>1. Taken(st, walk.st, f, walk.local, DataStates)
    BY <1>5, <1>8, TakeOk
  <2> QED BY <1>7, <1>8, <1>50, <2>1
<1>9. CASE o.e # "ok"
  <2>1. Taken(st, HandleError(Damage(walk.st, "DP", o.e), f, Head(walk.failed).state, o.e), f, walk.local, DataStates)
    BY <1>5, <1>9, TakeError
  <2> QED BY <1>7, <1>9, <1>50, <2>1
<1> QED BY <1>8, <1>9

\* One file of _unified_flush_all.
FlushAcc == [st : State, failed : BOOLEAN]
NextIs(acc, acc2, f) ==
    /\ acc2 \in FlushAcc /\ Sound(acc2.st) /\ acc2.st.ext_queue = acc.st.ext_queue
    /\ \A g \in Files : Kept(acc.st, acc2.st, g)
    /\ ~acc2.failed => /\ ~acc.failed /\ DriveSame(acc.st, acc2.st) /\ AllIp(acc2.st.dpr[f].reqs)
                       /\ \A g \in Files \ {f} : acc2.st.dpr[g].reqs = acc.st.dpr[g].reqs
    /\ NoFaults /\ ~acc.failed => ~acc2.failed

\* A file is flushed, unless an earlier one failed.
LEMMA FlushNextOK ==
    ASSUME NEW acc \in FlushAcc, NEW f \in Files, Sound(acc.st), acc.st.dpr[f].on, NEW plan, acc.failed \/ plan \in Plans(acc.st)
    PROVE  NextIs(acc, FlushNext(acc, f, plan), f)
<1> DEFINE st == acc.st  acc2 == FlushNext(acc, f, plan)  done == FlushOne(st, f, plan)
<1>0. acc.failed \in BOOLEAN /\ st \in State
  BY DEF FlushAcc
<1>1. CASE acc.failed
  <2>1. acc2 = acc
    BY <1>1 DEF FlushNext
  <2>2. \A g : Kept(st, st, g)
    BY DEF Kept
  <2> QED BY <1>1, <2>1, <2>2 DEF NextIs
<1>2. CASE ~acc.failed /\ st.dpr[f].write_error # "ok"
  <2>1. acc2 = [st |-> Tell(st, f), failed |-> TRUE]
    BY <1>2 DEF FlushNext
  <2>2. ToldIs(st, Tell(st, f), f)
    BY TellOK
  <2> DEFINE st2 == Tell(st, f)
  <2> HIDE DEF st2
  <2>3. acc2 = [st |-> st2, failed |-> TRUE] /\ ToldIs(st, st2, f)
    BY <2>1, <2>2 DEF st2
  <2>4. FileStep(st, st2, f) /\ Kept(st, st2, f) /\ st2.ext_queue = st.ext_queue /\ st2 \in State
    BY <2>3 DEF ToldIs, SameRest, FileStep
  <2>5. Sound(st2)
    BY <2>4, SoundStep
  <2>6. \A g \in Files : Kept(st, st2, g)
    BY <2>4, KeptSame
  <2>7. ~NoFaults
    BY <1>2 DEF Sound, FilesOK, FileOK
  <2> HIDE DEF acc2
  <2>8. acc2.st = st2 /\ acc2.failed = TRUE /\ acc2 \in FlushAcc
    BY <2>3, <2>4 DEF FlushAcc
  <2>9. NextIs(acc, acc2, f)
    BY <2>4, <2>5, <2>6, <2>7, <2>8 DEF NextIs
  <2> QED BY <2>9 DEF acc2
<1>3. CASE ~acc.failed /\ st.dpr[f].write_error = "ok"
  <2>1. acc2 = [st |-> Tell(done, f), failed |-> done.dpr[f].write_error # "ok"]
    BY <1>3 DEF FlushNext
  <2>2. Taken(st, done, f, <<>>, DataStates)
    BY <1>3, FlushOneOK
  <2> HIDE DEF done
  <2>3. FileStep(st, done, f) /\ Kept(st, done, f)
    BY <2>2, KeptTaken DEF Taken
  <2>4. Sound(done) /\ done.dpr[f].on
    BY <2>2, <2>3, SoundStep DEF Taken
  <2> DEFINE st2 == Tell(done, f)
  <2>5. ToldIs(done, st2, f)
    BY <2>4, TellOK
  <2> HIDE DEF st2
  <2>6. FileStep(done, st2, f) /\ Kept(done, st2, f) /\ SameRest(done, st2) /\ ErrorSet(done.dpr[f], st2.dpr[f], "ok")
    BY <2>5 DEF ToldIs
  <2>7. Sound(st2) /\ st2 \in State
    BY <2>4, <2>6, SoundStep DEF FileStep
  <2>8. ASSUME NEW g \in Files PROVE Kept(st, st2, g)
    <3>1. Kept(st, done, g) /\ Kept(done, st2, g)
      BY <2>3, <2>6, KeptSame
    <3> QED BY <3>1, KeptTrans
  <2>9. st2.ext_queue = st.ext_queue
    BY <2>2, <2>6 DEF Taken, SameRest
  <2>10. \A g \in Files \ {f} : st2.dpr[g].reqs = st.dpr[g].reqs
    BY <2>3, <2>6, KeptSame
  <2>11. done.dpr[f].write_error = "ok" => DriveSame(st, st2) /\ AllIp(st2.dpr[f].reqs)
    <3>1. SUFFICES ASSUME done.dpr[f].write_error = "ok" PROVE DriveSame(st, st2) /\ AllIp(st2.dpr[f].reqs)
      OBVIOUS
    <3>2. DriveSame(st, done) /\ \A k \in DOMAIN done.dpr[f].reqs : done.dpr[f].reqs[k].state \notin DataStates
      BY <2>2, <3>1 DEF Taken
    <3>3. done.dpr[f].reqs \in Seq(Req)
      BY <2>4, ReqsOf DEF Sound
    <3>4. \A k \in DOMAIN done.dpr[f].reqs : done.dpr[f].reqs[k].state = "IP"
      <4>1. TAKE k \in DOMAIN done.dpr[f].reqs
      <4>2. done.dpr[f].reqs[k] \in Req
        BY <3>3
      <4>3. done.dpr[f].reqs[k].state \in Queues
        BY <4>2, ReqFields
      <4> QED BY <3>2, <4>3 DEF Queues, DataStates
    <3> QED BY <2>6, <3>2, <3>4 DEF DriveSame, SameRest, ErrorSet, AllIp
  <2>12. NoFaults => done.dpr[f].write_error = "ok"
    BY <2>4 DEF Sound, FilesOK, FileOK
  <2> HIDE DEF acc2
  <2>13. acc2.st = st2 /\ acc2.failed = (done.dpr[f].write_error # "ok") /\ acc2 \in FlushAcc
    BY <2>1, <2>7 DEF FlushAcc, st2
  <2>14. NextIs(acc, acc2, f)
    BY <1>3, <2>7, <2>8, <2>9, <2>10, <2>11, <2>12, <2>13 DEF NextIs
  <2> QED BY <2>14 DEF acc2
<1> QED BY <1>0, <1>1, <1>2, <1>3

\* _unified_flush_all after i files.
FlushRun(st, acc, order, i) ==
    /\ acc \in FlushAcc /\ Sound(acc.st) /\ acc.st.ext_queue = st.ext_queue
    /\ \A g \in Files : Kept(st, acc.st, g)
    /\ ~acc.failed => \A g \in Files : AllIp(st.dpr[g].reqs) \/ (\E j \in 1..i : order[j] = g) => AllIp(acc.st.dpr[g].reqs)
    /\ NoFaults => ~acc.failed

\* One file more.
LEMMA FlushRunNext ==
    ASSUME NEW st, NEW acc, NEW acc2, NEW order, NEW i \in Nat \ {0}, order[i] \in Files, FlushRun(st, acc, order, i - 1), NextIs(acc, acc2, order[i])
    PROVE  FlushRun(st, acc2, order, i)
<1>1. acc2 \in FlushAcc /\ Sound(acc2.st) /\ acc2.st.ext_queue = st.ext_queue /\ (NoFaults => ~acc2.failed)
  BY DEF FlushRun, NextIs
<1>2. \A g \in Files : Kept(st, acc2.st, g)
  <2>1. TAKE g \in Files
  <2>2. Kept(st, acc.st, g) /\ Kept(acc.st, acc2.st, g)
    BY DEF FlushRun, NextIs
  <2> QED BY <2>2, KeptTrans
<1>3. ASSUME ~acc2.failed, NEW g \in Files, AllIp(st.dpr[g].reqs) \/ (\E j \in 1..i : order[j] = g) PROVE AllIp(acc2.st.dpr[g].reqs)
  <2>1. CASE g = order[i]
    BY <1>3, <2>1 DEF NextIs
  <2>2. CASE g # order[i]
    <3>1. AllIp(st.dpr[g].reqs) \/ (\E j \in 1..(i - 1) : order[j] = g)
      BY <1>3, <2>2
    <3>2. ~acc.failed
      BY <1>3 DEF NextIs
    <3>3. AllIp(acc.st.dpr[g].reqs)
      BY <3>1, <3>2 DEF FlushRun
    <3> QED BY <1>3, <2>2, <3>3 DEF NextIs
  <2> QED BY <2>1, <2>2
<1> QED BY <1>1, <1>2, <1>3 DEF FlushRun

PlanOK(acc, plan) == acc.failed \/ plan \in Plans(acc.st)
FlushGood(order, n, plan) ==
    {acc \in FlushAcc : Sound(acc.st) /\ (\A j \in 1..n : acc.st.dpr[order[j]].on) /\ PlanOK(acc, plan)}

\* The next file finds what the flush needs.
LEMMA FlushGoodNext ==
    ASSUME NEW order, NEW n \in Nat, \A j \in 1..n : order[j] \in Files, NEW plan, NEW i \in 1..n, NEW acc \in FlushGood(order, n, plan)
    PROVE  FlushNext(acc, order[i], plan) \in FlushGood(order, n, plan) /\ NextIs(acc, FlushNext(acc, order[i], plan), order[i])
<1> DEFINE acc2 == FlushNext(acc, order[i], plan)
<1>1. acc \in FlushAcc /\ Sound(acc.st) /\ (\A j \in 1..n : acc.st.dpr[order[j]].on) /\ PlanOK(acc, plan)
  BY DEF FlushGood
<1>2. NextIs(acc, acc2, order[i])
  BY <1>1, FlushNextOK DEF PlanOK
<1> HIDE DEF acc2
<1>3. \A j \in 1..n : acc2.st.dpr[order[j]].on
  BY <1>1, <1>2 DEF NextIs, Kept
<1>4. PlanOK(acc2, plan)
  BY <1>1, <1>2 DEF NextIs, DriveSame, Plans, PlanOK
<1>5. acc2 \in FlushGood(order, n, plan)
  BY <1>2, <1>3, <1>4 DEF NextIs, FlushGood
<1> QED BY <1>2, <1>5 DEF acc2

\* _unified_flush_all over an order of files.
LEMMA FlushAllOK ==
    ASSUME NEW st, Sound(st), NEW order \in Seq(Files), \A j \in 1..Len(order) : st.dpr[order[j]].on, NEW plan \in Plans(st)
    PROVE  FlushRun(st, FlushAll(st, order, plan), order, Len(order))
<1> DEFINE n == Len(order)
           first == [st |-> st, failed |-> FALSE]
           Step(g) == [i \in 0..n |-> IF i = 0 THEN first ELSE FlushNext(g[i - 1], order[i], plan)]
           F == CHOOSE g : g = Step(g)
           A == FlushGood(order, n, plan)
           step == [i \in 1..n |-> [x \in A |-> FlushNext(x, order[i], plan)]]
<1>1. n \in Nat /\ \A i \in 1..n : order[i] \in Files
  OBVIOUS
<1>13. FlushAll(st, order, plan) = F[n]
  BY DEF FlushAll
<1>3. first \in A
  <2>1. first \in FlushAcc /\ first.st = st /\ first.failed = FALSE
    BY DEF FlushAcc, Sound
  <2> HIDE DEF first
  <2> QED BY <2>1 DEF FlushGood, PlanOK
<1>30. FlushRun(st, first, order, 0)
  <2>1. first \in FlushAcc /\ first.st = st /\ first.failed = FALSE
    BY DEF FlushAcc, Sound
  <2> HIDE DEF first
  <2>2. \A g : Kept(st, st, g)
    BY DEF Kept
  <2> QED BY <2>1, <2>2 DEF FlushRun
<1> HIDE DEF n, A, first
<1>2. \A i \in 1..n : \A x \in A : FlushNext(x, order[i], plan) \in A /\ NextIs(x, FlushNext(x, order[i], plan), order[i])
  BY <1>1, FlushGoodNext DEF A
<1>20. Steps(step, n, A)
  BY <1>2 DEF Steps
<1>4. PICK g : Runs(g, n, A, first, step)
  <2> HIDE DEF step, Step, F
  <2> QED BY <1>1, <1>20, <1>3, FoldRuns
<1>5. \A i \in 1..n : i - 1 \in 0..n /\ g[i - 1] \in A
  BY <1>1, <1>4 DEF Runs
<1>6. \A i \in 1..n : g[i] = FlushNext(g[i - 1], order[i], plan)
  <2>1. \A i \in 1..n : g[i] = step[i][g[i - 1]]
    BY <1>4 DEF Runs
  <2> QED BY <1>5, <2>1
<1>7. g = Step(g)
  <2>1. \A i \in 0..n : i = 0 \/ i \in 1..n
    BY <1>1
  <2>2. g \in [0..n -> A] /\ g[0] = first
    BY <1>4 DEF Runs
  <2> QED BY <1>6, <2>1, <2>2
<1> HIDE DEF Step, step
<1>8. F = Step(F)
  BY <1>7
<1> HIDE DEF F
<1>9. F[0] = first /\ \A i \in 1..n : F[i] = FlushNext(F[i - 1], order[i], plan)
  <2>1. 0 \in 0..n /\ \A i \in 1..n : i \in 0..n /\ i # 0
    BY <1>1
  <2> QED BY <1>8, <2>1 DEF Step
<1> DEFINE T == {i \in 0..n : F[i] \in A /\ FlushRun(st, F[i], order, i)}
<1>10. 0 \in T
  BY <1>1, <1>3, <1>30, <1>9
<1>11. ASSUME NEW i \in 1..n, i - 1 \in T PROVE i \in T
  <2>1. F[i - 1] \in A /\ FlushRun(st, F[i - 1], order, i - 1) /\ i \in Nat \ {0} /\ i \in 0..n /\ order[i] \in Files
    BY <1>1, <1>11
  <2>2. F[i] \in A /\ NextIs(F[i - 1], F[i], order[i])
    BY <1>2, <1>9, <2>1
  <2>3. FlushRun(st, F[i], order, i)
    BY <2>1, <2>2, FlushRunNext
  <2> QED BY <2>1, <2>2, <2>3
<1> HIDE DEF T
<1>12. n \in T
  <2>1. \A i \in 0..n : i \in T
    BY <1>1, <1>10, <1>11, Stepwise
  <2> QED BY <1>1, <2>1
<1> QED BY <1>12, <1>13 DEF T, n

(* The orders in which the files of a queue can come. *)
LEMMA OrderOf ==
    ASSUME NEW S, IsFiniteSet(S), NEW d \in SetToSeqs(S)
    PROVE  /\ d \in Seq(S)
           /\ \A i, j \in 1..Len(d) : i # j => d[i] # d[j]
           /\ \A v \in S : \E i \in 1..Len(d) : d[i] = v
<1> DEFINE k == Cardinality(S)
<1>1. k \in Nat
  BY FS_CardinalityType
<1>2. d \in [1..k -> S] /\ \A i, j \in 1..k : i # j => d[i] # d[j]
  BY DEF SetToSeqs
<1> HIDE DEF k
<1>3. d \in Seq(S) /\ Len(d) = k
  BY <1>1, <1>2
<1>4. IsFiniteSet(1..k) /\ Cardinality(1..k) = k
  <2>1. 1 \in Int /\ k \in Int
    BY <1>1
  <2>2. IsFiniteSet(1..k) /\ Cardinality(1..k) = IF 1 > k THEN 0 ELSE k - 1 + 1
    BY <2>1, FS_Interval, Zenon
  <2> QED BY <1>1, <2>2
<1>5. ASSUME NEW v \in S, \A i \in 1..k : d[i] # v PROVE FALSE
  <2>1. IsFiniteSet(S \ {v}) /\ Cardinality(S \ {v}) = k - 1
    BY FS_RemoveElement DEF k
  <2>2. d \in [1..k -> S \ {v}]
    BY <1>2, <1>5
  <2>3. Cardinality(S \ {v}) < Cardinality(1..k)
    BY <1>1, <1>4, <2>1
  <2>4. \E x, y \in 1..k : x # y /\ d[x] = d[y]
    BY <1>4, <2>1, <2>2, <2>3, FS_PigeonHole
  <2> QED BY <1>2, <2>4
<1> QED BY <1>2, <1>3, <1>5

\* A queue holds finitely many files.
LEMMA QueueFinite == ASSUME NEW st \in State, NEW q \in Queues PROVE IsFiniteSet(st.queue[q]) /\ st.queue[q] \subseteq Files
<1>1. st.queue[q] \subseteq Files
  BY StateFields
<1> QED BY <1>1, ThreadsOK, FS_Subset

\* The order has every file with requests for the data partition.
LEMMA FlushOrderOK ==
    ASSUME NEW st, Sound(st), NEW order \in FlushOrders(st)
    PROVE  /\ order \in Seq(Files)
           /\ \A j \in 1..Len(order) : st.dpr[order[j]].on
           /\ \A g \in Files : AllIp(st.dpr[g].reqs) \/ \E j \in 1..Len(order) : order[j] = g
<1> DEFINE P == st.queue["DP"]  Q == st.queue["PARTIAL"] \ st.queue["DP"]
<1>1. st \in State /\ Books(st) /\ FilesOK(st) /\ "DP" \in Queues /\ "PARTIAL" \in Queues
  BY DEF Sound, Queues
<1>2. IsFiniteSet(P) /\ P \subseteq Files
  BY <1>1, QueueFinite
<1>3. IsFiniteSet(Q) /\ Q \subseteq Files
  <2>1. IsFiniteSet(st.queue["PARTIAL"]) /\ st.queue["PARTIAL"] \subseteq Files
    BY <1>1, QueueFinite
  <2>2. Q \subseteq st.queue["PARTIAL"]
    OBVIOUS
  <2> QED BY <2>1, <2>2, FS_Subset
<1>4. PICK d \in SetToSeqs(P), p \in SetToSeqs(Q) : order = d \o p
  <2>1. order \in UNION {{d \o p : p \in SetToSeqs(Q)} : d \in SetToSeqs(P)}
    BY DEF FlushOrders
  <2> HIDE DEF P, Q
  <2> QED BY <2>1
<1>40. P \cup Q = st.queue["DP"] \cup st.queue["PARTIAL"]
  OBVIOUS
<1> HIDE DEF P, Q
<1>5. d \in Seq(P) /\ \A v \in P : \E i \in 1..Len(d) : d[i] = v
  BY <1>2, OrderOf
<1>6. p \in Seq(Q) /\ \A v \in Q : \E i \in 1..Len(p) : p[i] = v
  BY <1>3, OrderOf
<1> DEFINE U == P \cup Q
<1>7. d \in Seq(U) /\ p \in Seq(U)
  BY <1>5, <1>6
<1> HIDE DEF U
<1>8. /\ order \in Seq(U) /\ Len(order) = Len(d) + Len(p) /\ Len(d) \in Nat /\ Len(p) \in Nat
      /\ \A i \in 1..Len(d) : order[i] = d[i]
      /\ \A i \in 1..Len(p) : order[Len(d) + i] = p[i]
  BY <1>4, <1>7
<1>9. \A v \in U : \E i \in 1..Len(order) : order[i] = v
  <2>1. TAKE v \in U
  <2>2. CASE v \in P
    <3>1. PICK i \in 1..Len(d) : d[i] = v
      BY <1>5, <2>2
    <3>2. i \in 1..Len(order) /\ order[i] = v
      BY <1>8, <3>1
    <3> QED BY <3>2
  <2>3. CASE v \in Q
    <3>1. PICK i \in 1..Len(p) : p[i] = v
      BY <1>6, <2>3
    <3>2. Len(d) + i \in 1..Len(order) /\ order[Len(d) + i] = v
      BY <1>8, <3>1
    <3> QED BY <3>2
  <2> QED BY <2>2, <2>3 DEF U
<1>10. \A i \in 1..Len(order) : order[i] \in U
  BY <1>8
<1>11. ASSUME NEW v \in U PROVE v \in Files /\ st.dpr[v].on
  <2>1. v \in Files /\ (v \in st.queue["DP"] \/ v \in st.queue["PARTIAL"])
    BY <1>2, <1>3, <1>40 DEF U
  <2>2. st.dpr[v].inq["DP"] > 0 \/ st.dpr[v].inq["PARTIAL"] > 0
    BY <1>1, <2>1 DEF Books
  <2>3. NoDpr.inq["DP"] = 0 /\ NoDpr.inq["PARTIAL"] = 0
    BY DEF NoDpr, NewDpr, Queues
  <2>4. FileOK(st.dpr[v], st.tape[v])
    BY <1>1, <2>1 DEF FilesOK
  <2> QED BY <2>1, <2>2, <2>3, <2>4 DEF FileOK
<1>12. order \in Seq(Files)
  BY <1>8, <1>11
<1>13. ASSUME NEW g \in Files, g \notin U PROVE AllIp(st.dpr[g].reqs)
  <2>1. g \notin st.queue["DP"] /\ g \notin st.queue["PARTIAL"]
    BY <1>13, <1>40 DEF U
  <2>2. st.dpr[g].inq \in [Queues -> Nat] /\ st.dpr[g].reqs \in Seq(Req)
    BY <1>1, ReqsOf
  <2>3. st.dpr[g].inq["DP"] = 0 /\ st.dpr[g].inq["PARTIAL"] = 0
    BY <1>1, <2>1, <2>2 DEF Books
  <2>4. NumIn(st.dpr[g].reqs, {"DP"}) = 0 /\ NumIn(st.dpr[g].reqs, {"PARTIAL"}) = 0
    BY <1>1, <2>3 DEF FilesOK, FileOK, Listed
  <2>5. \A k \in DOMAIN st.dpr[g].reqs : st.dpr[g].reqs[k].state \notin {"DP"} /\ st.dpr[g].reqs[k].state \notin {"PARTIAL"}
    BY <2>2, <2>4, NumInZero
  <2>6. \A k \in DOMAIN st.dpr[g].reqs : st.dpr[g].reqs[k].state \in Queues
    <3>1. \A k \in DOMAIN st.dpr[g].reqs : st.dpr[g].reqs[k] \in Req
      BY <2>2
    <3> QED BY <3>1, ReqFields
  <2> QED BY <2>5, <2>6 DEF AllIp, Queues
<1> QED BY <1>9, <1>10, <1>11, <1>12, <1>13

\* What _unified_flush_all leaves.
AllFlushed(st, all) ==
    /\ Sound(all.st) /\ all.failed \in BOOLEAN /\ all.st.ext_queue = st.ext_queue
    /\ \A g \in Files : Kept(st, all.st, g)
    /\ ~all.failed => \A g \in Files : AllIp(all.st.dpr[g].reqs)
    /\ NoFaults => ~all.failed

\* If _unified_flush_all reports no error, only requests for the index partition are left.
LEMMA FlushAllDone ==
    ASSUME NEW st, Sound(st), NEW order \in FlushOrders(st), NEW plan \in Plans(st)
    PROVE  AllFlushed(st, FlushAll(st, order, plan))
<1> DEFINE all == FlushAll(st, order, plan)
<1>1. order \in Seq(Files) /\ (\A j \in 1..Len(order) : st.dpr[order[j]].on)
      /\ \A g \in Files : AllIp(st.dpr[g].reqs) \/ \E j \in 1..Len(order) : order[j] = g
  BY FlushOrderOK
<1>2. FlushRun(st, all, order, Len(order))
  BY <1>1, FlushAllOK
<1> HIDE DEF all
<1>3. AllFlushed(st, all)
  BY <1>1, <1>2 DEF FlushRun, AllFlushed, FlushAcc
<1> QED BY <1>3 DEF all

(* Writing to the index partition. *)
LeftIs(reqs, i, x, ok) ==
    /\ x.ok \in Nat /\ Thinned(reqs, i, x.keep, {"IP"})
    /\ Upto(reqs, i, {"IP"}) <= ok => x.ok + Upto(reqs, i, {"IP"}) = ok /\ \A k \in DOMAIN x.keep : x.keep[k].state # "IP"
LeftNext(x, r) ==
    IF r.state = "IP" /\ x.ok > 0 THEN [x EXCEPT !.ok = @ - 1] ELSE [x EXCEPT !.keep = Append(@, r)]
LeftAcc == [ok : Nat, keep : Seq(Req)]

\* One round of the loop that unlists what has been written.
LEMMA LeftNextIs ==
    ASSUME NEW x \in LeftAcc, NEW r \in Req
    PROVE  /\ LeftNext(x, r) \in LeftAcc
           /\ r.state = "IP" /\ x.ok > 0 => LeftNext(x, r).ok = x.ok - 1 /\ LeftNext(x, r).keep = x.keep
           /\ ~(r.state = "IP" /\ x.ok > 0) => LeftNext(x, r).ok = x.ok /\ LeftNext(x, r).keep = Append(x.keep, r)
<1>1. CASE r.state = "IP" /\ x.ok > 0
  <2>1. x.ok - 1 \in Nat
    BY <1>1 DEF LeftAcc
  <2> QED BY <1>1, <2>1 DEF LeftAcc, LeftNext
<1>2. CASE ~(r.state = "IP" /\ x.ok > 0)
  BY <1>2 DEF LeftAcc, LeftNext
<1> QED BY <1>1, <1>2

\* After that round.
LEMMA LeftStep ==
    ASSUME NEW reqs \in Seq(Req), NEW i \in 1..Len(reqs), NEW x \in LeftAcc, NEW ok \in Nat, LeftIs(reqs, i - 1, x, ok)
    PROVE  LeftIs(reqs, i, LeftNext(x, reqs[i]), ok)
<1> DEFINE r == reqs[i]  x2 == LeftNext(x, r)  u == Upto(reqs, i - 1, {"IP"})  u2 == Upto(reqs, i, {"IP"})
<1>1. r \in Req /\ i \in Nat \ {0} /\ i - 1 \in Nat
  OBVIOUS
<1>2. u2 = u + (IF r.state = "IP" THEN 1 ELSE 0) /\ u \in Nat
  <2>1. \A j \in Nat \ {0} : Upto(reqs, j, {"IP"}) = Upto(reqs, j - 1, {"IP"}) + (IF reqs[j].state \in {"IP"} THEN 1 ELSE 0)
    BY UptoStep
  <2>2. \A j \in Nat : Upto(reqs, j, {"IP"}) \in Nat
    BY UptoStep
  <2> QED BY <1>1, <2>1, <2>2
<1> HIDE DEF u, u2
<1>3. x2 \in LeftAcc
  BY <1>1, LeftNextIs
<1>4. x.ok \in Nat /\ Thinned(reqs, i - 1, x.keep, {"IP"}) /\ (u <= ok => x.ok + u = ok /\ \A k \in DOMAIN x.keep : x.keep[k].state # "IP")
  BY DEF LeftIs, u
<1>5. CASE r.state = "IP" /\ x.ok > 0
  <2>1. x2.ok = x.ok - 1 /\ x2.keep = x.keep
    BY <1>1, <1>5, LeftNextIs
  <2>2. Thinned(reqs, i, x.keep, {"IP"})
    BY <1>4, <1>5, ThinSkip
  <2> HIDE DEF x2
  <2>3. LeftIs(reqs, i, x2, ok)
    BY <1>2, <1>4, <1>5, <2>1, <2>2, SMTT(20) DEF LeftIs, u2
  <2> QED BY <2>3 DEF x2
<1>6. CASE ~(r.state = "IP" /\ x.ok > 0)
  <2>1. x2.ok = x.ok /\ x2.keep = Append(x.keep, r)
    BY <1>1, <1>6, LeftNextIs
  <2>2. Thinned(reqs, i, Append(x.keep, reqs[i]), {"IP"})
    BY <1>4, ThinKeep
  <2>3. Thinned(reqs, i, x2.keep, {"IP"})
    BY <2>1, <2>2
  <2>4. x.keep \in Seq(Req)
    BY <1>4 DEF Thinned
  <2>5. ASSUME u2 <= ok PROVE x.ok + u2 = ok /\ \A k \in DOMAIN x2.keep : x2.keep[k].state # "IP"
    <3>1. r.state # "IP"
      BY <1>2, <1>4, <1>6, <2>5
    <3>2. u2 = u /\ \A k \in DOMAIN x.keep : x.keep[k].state # "IP"
      BY <1>2, <1>4, <2>5, <3>1
    <3>3. \A k \in DOMAIN Append(x.keep, r) : Append(x.keep, r)[k] = r \/ \E j \in DOMAIN x.keep : Append(x.keep, r)[k] = x.keep[j]
      BY <1>1, <2>4
    <3> HIDE DEF x2
    <3> QED BY <1>4, <2>1, <2>5, <3>1, <3>2, <3>3
  <2> HIDE DEF x2
  <2>6. LeftIs(reqs, i, x2, ok)
    BY <1>4, <2>1, <2>3, <2>5 DEF LeftIs, u2
  <2> QED BY <2>6 DEF x2
<1> QED BY <1>5, <1>6

UnsentIs(reqs, keep, ok) ==
    /\ Thinned(reqs, Len(reqs), keep, {"IP"})
    /\ NumIn(reqs, {"IP"}) <= ok => \A k \in DOMAIN keep : keep[k].state # "IP"

\* Only IP requests leave the list, all of them if all were written.
LEMMA UnsentOK ==
    ASSUME NEW reqs \in Seq(Req), NEW ok \in Nat
    PROVE  UnsentIs(reqs, Unsent(reqs, ok), ok)
<1> DEFINE n == Len(reqs)
           first == [ok |-> ok, keep |-> <<>>]
           Step(g) == [i \in 0..n |-> IF i = 0 THEN first
                                      ELSE IF reqs[i].state = "IP" /\ g[i - 1].ok > 0
                                           THEN [g[i - 1] EXCEPT !.ok = @ - 1]
                                           ELSE [g[i - 1] EXCEPT !.keep = Append(@, reqs[i])]]
           F == CHOOSE g : g = Step(g)
           step == [i \in 1..n |-> [x \in LeftAcc |-> LeftNext(x, reqs[i])]]
<1>1. n \in Nat /\ \A i \in 1..n : reqs[i] \in Req
  OBVIOUS
<1>0. \A i : i \in 1..n => i \in 1..Len(reqs)
  OBVIOUS
<1>13. Unsent(reqs, ok) = F[n].keep
  BY DEF Unsent
<1>2. \A i \in 1..n : \A x \in LeftAcc : LeftNext(x, reqs[i]) \in LeftAcc
  BY <1>1, LeftNextIs
<1>3. first \in LeftAcc
  BY DEF LeftAcc
<1>30. LeftIs(reqs, 0, first, ok)
  <2>1. first.ok = ok /\ first.keep = <<>>
    OBVIOUS
  <2>2. Upto(reqs, 0, {"IP"}) = 0
    BY UptoStep
  <2>3. Thinned(reqs, 0, <<>>, {"IP"})
    BY ThinStart
  <2> HIDE DEF first
  <2> QED BY <2>1, <2>2, <2>3 DEF LeftIs
<1> HIDE DEF n, first
<1>20. Steps(step, n, LeftAcc)
  BY <1>2 DEF Steps
<1>4. PICK g : Runs(g, n, LeftAcc, first, step)
  <2> HIDE DEF step, Step, F
  <2> QED BY <1>1, <1>20, <1>3, FoldRuns
<1>5. \A i \in 1..n : i - 1 \in 0..n /\ g[i - 1] \in LeftAcc
  BY <1>1, <1>4 DEF Runs
<1>6. \A i \in 1..n : g[i] = LeftNext(g[i - 1], reqs[i])
  <2>1. \A i \in 1..n : g[i] = step[i][g[i - 1]]
    BY <1>4 DEF Runs
  <2> QED BY <1>5, <2>1
<1>7. g = Step(g)
  <2>1. \A i \in 0..n : i = 0 \/ i \in 1..n
    BY <1>1
  <2>2. g \in [0..n -> LeftAcc] /\ g[0] = first
    BY <1>4 DEF Runs
  <2> QED BY <1>6, <2>1, <2>2 DEF LeftNext
<1> HIDE DEF Step, step
<1>8. F = Step(F)
  BY <1>7
<1> HIDE DEF F
<1>9. F[0] = first /\ \A i \in 1..n : F[i] = LeftNext(F[i - 1], reqs[i])
  <2>1. 0 \in 0..n /\ \A i \in 1..n : i \in 0..n /\ i # 0
    BY <1>1
  <2> QED BY <1>8, <2>1 DEF Step, LeftNext
<1> DEFINE T == {i \in 0..n : F[i] \in LeftAcc /\ LeftIs(reqs, i, F[i], ok)}
<1>10. 0 \in T
  BY <1>1, <1>3, <1>30, <1>9
<1>11. ASSUME NEW i \in 1..n, i - 1 \in T PROVE i \in T
  <2>1. F[i - 1] \in LeftAcc /\ LeftIs(reqs, i - 1, F[i - 1], ok) /\ i \in 1..Len(reqs) /\ i \in 0..n /\ F[i] = LeftNext(F[i - 1], reqs[i])
    BY <1>0, <1>1, <1>9, <1>11, SMTT(20)
  <2>2. F[i] \in LeftAcc
    BY <1>2, <2>1
  <2>3. LeftIs(reqs, i, LeftNext(F[i - 1], reqs[i]), ok)
    BY <2>1, LeftStep
  <2> QED BY <2>1, <2>2, <2>3
<1> HIDE DEF T
<1>12. n \in T
  <2>1. \A i \in 0..n : i \in T
    BY <1>1, <1>10, <1>11, Stepwise
  <2> QED BY <1>1, <2>1
<1>14. LeftIs(reqs, Len(reqs), F[n], ok)
  BY <1>12 DEF T, n
<1>15. NumIn(reqs, {"IP"}) = Upto(reqs, Len(reqs), {"IP"})
  BY NumInUpto
<1> QED BY <1>13, <1>14, <1>15 DEF LeftIs, UnsentIs

\* A dentry_priv without requests is freed.
FreedIs(st, st2, f) ==
    /\ FileStep(st, st2, f) /\ SameRest(st, st2) /\ st2.dpr[f] = NoDpr
    /\ Held(st2, f) = Held(st, f)

\* The dentry_priv of a file that has none.
LEMMA NoDprType == NoDpr \in Dpr /\ NoDpr.reqs = <<>> /\ ~NoDpr.on /\ ~NoDpr.alt /\ ~NoDpr.write_ip /\ NoDpr.write_error = "ok"
    /\ NoDpr.file_size = 0 /\ \A q \in Queues : NoDpr.inq[q] = 0
BY DEF NoDpr, NewDpr, Dpr, Errors

\* It is in order, whatever is on the tape.
LEMMA NoDprOK == \A T : FileOK(NoDpr, T)
<1>1. Listed(NoDpr)
  BY NoDprType, NumInEmpty DEF Listed
<1> QED BY <1>1, NoDprType DEF FileOK, IpSaved, Sized, NoIp

\* Freeing a dentry_priv without requests loses no data.
LEMMA FreeDprOK ==
    ASSUME NEW st, NEW f \in Files, Sound(st), st.dpr[f].reqs = <<>>
    PROVE  FreedIs(st, FreeDpr(st, f), f)
<1> DEFINE st2 == FreeDpr(st, f)
<1>1. st \in State /\ Books(st) /\ Drive(st) /\ FileOK(st.dpr[f], st.tape[f])
  BY DEF Sound, FilesOK
<1>2. DprIs(st, st2, f, NoDpr)
  BY <1>1, NoDprType, SetDprOK DEF FreeDpr, SetDpr
<1> HIDE DEF st2
<1>3. st2 \in State /\ st2.dpr[f] = NoDpr /\ OthersSame(st, st2, f) /\ SameRest(st, st2) /\ st2.queue = st.queue /\ st2.count = st.count
  BY <1>2 DEF DprIs
<1>4. \A q \in Queues : st.dpr[f].inq[q] = 0 /\ st2.dpr[f].inq[q] = 0
  <2>1. \A q \in Queues : st.dpr[f].inq[q] = NumIn(<<>>, {q})
    BY <1>1 DEF FileOK, Listed
  <2>2. \A q \in Queues : st2.dpr[f].inq[q] = 0
    BY <1>3, NoDprType
  <2> QED BY <2>1, <2>2, NumInEmpty
<1>5. Books(st2)
  <2>1. \A q \in Queues : f \in st2.queue[q] <=> st2.dpr[f].inq[q] > 0
    BY <1>1, <1>3, <1>4 DEF Books
  <2>2. \A q \in Queues : Weight(st, q, f) = 0 /\ Weight(st2, q, f) = 0 /\ st.count[q] \in Int
    BY <1>1, <1>4, StateFields DEF Weight
  <2>3. \A q \in Queues : st2.count[q] = st.count[q] - Weight(st, q, f) + Weight(st2, q, f)
    BY <1>3, <2>2
  <2> QED BY <1>1, <1>3, <2>1, <2>3, BooksStep DEF OthersSame
<1>6. Drive(st2)
  BY <1>1, <1>3, DriveKept DEF DriveSame, SameRest
<1>7. FileOK(st2.dpr[f], st2.tape[f])
  BY <1>3, NoDprOK
<1>8. FileStep(st, st2, f)
  BY <1>3, <1>5, <1>6, <1>7 DEF FileStep, SameRest
<1>9. Held(st2, f) = Held(st, f)
  BY <1>3, NoDprType DEF Held, SameRest
<1>10. FreedIs(st, st2, f)
  BY <1>3, <1>8, <1>9 DEF FreedIs
<1> QED BY <1>10 DEF st2

\* The first ok requests for the index partition have been written.
Moved(st, f, keep, ok) ==
    [FreeBlocks(ClearQ(st, "IP", f), ok) EXCEPT
        !.dpr[f].reqs = keep,
        !.ext_queue = IF ok > 0 /\ ~st.dpr[f].alt THEN @ \cup {f} ELSE @,
        !.dpr[f].alt = @ \/ ok > 0]
MovedIs(st, st2, f, keep, ok) ==
    /\ st2 \in State /\ Books(st2) /\ OthersSame(st, st2, f) /\ st2.dpr[f].reqs = keep
    /\ st2.dpr[f].on = st.dpr[f].on /\ st2.dpr[f].file_size = st.dpr[f].file_size
    /\ st2.dpr[f].write_ip = st.dpr[f].write_ip /\ st2.dpr[f].write_error = st.dpr[f].write_error
    /\ st2.dpr[f].alt = (st.dpr[f].alt \/ ok > 0)
    /\ st2.dpr[f].inq["IP"] = 0 /\ \A q \in DataStates : st2.dpr[f].inq[q] = st.dpr[f].inq[q]
    /\ st2.tape = st.tape /\ st2.size = st.size /\ DriveSame(st, st2) /\ st2.written = st.written
    /\ st2.ext_queue = IF ok > 0 /\ ~st.dpr[f].alt THEN st.ext_queue \cup {f} ELSE st.ext_queue

\* The file enters ext_queue with its first extent in the index partition.
LEMMA MovedOK ==
    ASSUME NEW st \in State, NEW f \in Files, Books(st), NEW keep \in Seq(Req), NEW ok \in Nat
    PROVE  MovedIs(st, Moved(st, f, keep, ok), f, keep, ok)
<1> DEFINE q0 == "IP"  out == ClearQ(st, q0, f)  s0 == FreeBlocks(out, ok)
           E == IF ok > 0 /\ ~st.dpr[f].alt THEN st.ext_queue \cup {f} ELSE st.ext_queue
           d == [s0.dpr[f] EXCEPT !.reqs = keep, !.alt = (s0.dpr[f].alt \/ ok > 0)]
           D == [s0.dpr EXCEPT ![f] = d]
           st2 == [s0 EXCEPT !.dpr = D, !.ext_queue = E]
<1>1. q0 \in Queues
  BY DEF Queues
<1>2. QStep(st, out, f) /\ out.dpr[f].inq = [st.dpr[f].inq EXCEPT ![q0] = 0]
  <2> HIDE DEF q0
  <2> QED BY <1>1, ClearQOK
<1>3. Moved(st, f, keep, ok) = [s0 EXCEPT !.dpr[f].reqs = keep, !.ext_queue = IF ok > 0 /\ ~st.dpr[f].alt THEN @ \cup {f} ELSE @, !.dpr[f].alt = @ \/ ok > 0]
  BY DEF Moved
<1> HIDE DEF out
<1>4. out \in State /\ Books(out) /\ SameRest(st, out) /\ SameDpr(st.dpr[f], out.dpr[f]) /\ OthersSame(st, out, f)
  BY <1>2 DEF QStep, OthersSame
<1>5. s0 \in State /\ s0.dpr = out.dpr /\ s0.queue = out.queue /\ s0.count = out.count /\ s0.ext_queue = st.ext_queue
      /\ s0.tape = st.tape /\ s0.size = st.size /\ DriveSame(st, s0) /\ s0.written = st.written
  BY <1>4, FreeFields DEF SameRest, DriveSame
<1> HIDE DEF s0
<1>6. s0.dpr \in [Files -> Dpr] /\ s0.dpr[f] \in Dpr
  BY <1>5, StateFields
<1>7. Moved(st, f, keep, ok) = st2
  <2>1. Moved(st, f, keep, ok) = [s0 EXCEPT !.dpr[f].reqs = keep, !.ext_queue = E, !.dpr[f].alt = @ \/ ok > 0]
    BY <1>3, <1>5 DEF State
  <2> HIDE DEF E
  <2>2. [s0 EXCEPT !.dpr[f].reqs = keep, !.ext_queue = E, !.dpr[f].alt = @ \/ ok > 0] = st2
    BY <1>5, <1>6, ZenonT(30) DEF State, Dpr
  <2> QED BY <2>1, <2>2
<1>8. E \in SUBSET Files
  BY StateFields
<1> HIDE DEF E
<1>9. d \in Dpr /\ d.reqs = keep /\ d.alt = (s0.dpr[f].alt \/ ok > 0) /\ d.on = s0.dpr[f].on /\ d.file_size = s0.dpr[f].file_size
      /\ d.write_ip = s0.dpr[f].write_ip /\ d.write_error = s0.dpr[f].write_error /\ d.inq = s0.dpr[f].inq
  BY <1>6 DEF Dpr
<1> HIDE DEF d
<1>10. D \in [Files -> Dpr] /\ D[f] = d /\ \A g \in Files \ {f} : D[g] = s0.dpr[g]
  BY <1>6, <1>9
<1> HIDE DEF D
<1>11. st2 \in State /\ st2.dpr = D /\ st2.ext_queue = E /\ st2.queue = s0.queue /\ st2.count = s0.count
       /\ st2.tape = s0.tape /\ st2.size = s0.size /\ DriveSame(s0, st2) /\ st2.written = s0.written
  BY <1>5, <1>8, <1>10 DEF State, DriveSame
<1> HIDE DEF st2
<1>12. Books(st2)
  <2>1. \A g \in Files : st2.dpr[g].inq = out.dpr[g].inq /\ st2.dpr[g].write_ip = out.dpr[g].write_ip
    BY <1>5, <1>9, <1>10, <1>11
  <2> QED BY <1>4, <1>5, <1>11, <2>1, BooksSame
<1>13. st.dpr[f].inq \in [Queues -> Nat] /\ st2.dpr[f].inq = [st.dpr[f].inq EXCEPT !["IP"] = 0]
  BY <1>2, <1>5, <1>9, <1>10, <1>11, ReqsOf
<1>14. st2.dpr[f].inq["IP"] = 0 /\ \A q \in DataStates : st2.dpr[f].inq[q] = st.dpr[f].inq[q]
  BY <1>13 DEF Queues, DataStates
<1>15. MovedIs(st, st2, f, keep, ok)
  BY <1>4, <1>5, <1>9, <1>10, <1>11, <1>12, <1>14 DEF MovedIs, OthersSame, SameDpr, DriveSame, E
<1> QED BY <1>7, <1>15

\* A fault on a drive that does not refuse is planned for the file.
LEMMA OutcomeAt ==
    ASSUME NEW st, NEW p, NEW n \in Nat, NEW f, NEW plan, Outcome(st, p, n, f, plan).e # "ok", ~Refuses(st, p)
    PROVE  plan.at = f
BY DEF Outcome

\* A refusing drive has no further fault.
LEMMA DamageNf ==
    ASSUME NEW st \in State, NEW p, NEW e, Refuses(st, p)
    PROVE  Damage(st, p, e).nfaults = st.nfaults
BY DEF Damage, State

\* A partition that is short of space is known to be.
LEMMA DamageLess ==
    ASSUME NEW st \in State, NEW p \in Partitions, NEW e, e = "less_space"
    PROVE  p \in Damage(st, p, e).less
BY StateFields DEF Damage, State

\* What _unified_process_index_queue does to a file, apart from freeing it.
Indexed(st, st2, f, plan) ==
    /\ FileStep(st, st2, f)
    /\ st2.tape = st.tape /\ st2.size = st.size
    /\ (f \in st.ext_queue <=> st.dpr[f].alt) => (f \in st2.ext_queue <=> st2.dpr[f].alt)
    /\ Held(st2, f) \subseteq Held(st, f) /\ st2.written[f] \subseteq st.written[f]
    /\ NoFaults => /\ st2.written[f] = st.written[f] /\ Held(st, f) \subseteq Held(st2, f)
                   /\ \A k \in DOMAIN st2.dpr[f].reqs : st2.dpr[f].reqs[k].state # "IP"
    /\ \A k \in DOMAIN st2.dpr[f].reqs : \E j \in DOMAIN st.dpr[f].reqs : st2.dpr[f].reqs[k] = st.dpr[f].reqs[j]
    /\ ErrorsReach /\ st.written[f] \subseteq Held(st, f) => st2.written[f] \subseteq Held(st2, f)
    /\ st2.nfaults = st.nfaults \/ plan.at = f

\* Only IP requests went, and their data is on the tape.
LEMMA HeldThinned ==
    ASSUME NEW reqs \in Seq(Req), NEW keep \in Seq(Req), NEW T, \A i \in DOMAIN reqs : reqs[i].state = "IP" => reqs[i].ids \subseteq T,
           \A j \in DOMAIN reqs : reqs[j].state # "IP" => \E k \in DOMAIN keep : keep[k] = reqs[j]
    PROVE  Ids(reqs) \subseteq T \cup Ids(keep)
BY DEF Ids

IndexArgs(st, f, o, keep) ==
    /\ Sound(st) /\ f \in Files /\ st.dpr[f].on
    /\ OutcomeOK(st, "IP", NumIn(st.dpr[f].reqs, {"IP"}), o)
    /\ UnsentIs(st.dpr[f].reqs, keep, o.ok)
MovedFits(st, st2, f, keep) ==
    /\ \A q \in DataStates : st2.dpr[f].inq[q] = NumIn(keep, {q})
    /\ keep \in Seq(Req) /\ Fits(keep, st2.tape[f], st2.dpr[f].file_size)
    /\ \A k \in DOMAIN keep : \E j \in DOMAIN st.dpr[f].reqs : keep[k] = st.dpr[f].reqs[j]
    /\ Ids(keep) \subseteq Ids(st.dpr[f].reqs) /\ Ids(st.dpr[f].reqs) \subseteq st.tape[f] \cup Ids(keep)
    /\ MaxIpSize = 0 => (\A k \in DOMAIN keep : keep[k].state # "IP") /\ ~st2.dpr[f].alt
    /\ st \in State /\ f \in Files /\ NumIn(st.dpr[f].reqs, {"IP"}) \in Nat

\* What is left of the list matches the counters and the extents.
LEMMA MovedListed ==
    ASSUME NEW st, NEW f, NEW o, NEW keep, IndexArgs(st, f, o, keep), NEW st2, MovedIs(st, st2, f, keep, o.ok)
    PROVE  MovedFits(st, st2, f, keep)
<1> DEFINE reqs == st.dpr[f].reqs
<1>1. st \in State /\ f \in Files /\ FileOK(st.dpr[f], st.tape[f])
  BY DEF IndexArgs, Sound, FilesOK
<1>2. reqs \in Seq(Req) /\ DOMAIN reqs = 1..Len(reqs)
  BY <1>1, ReqsOf
<1>3. Thinned(reqs, Len(reqs), keep, {"IP"})
  BY DEF IndexArgs, UnsentIs
<1>4. keep \in Seq(Req) /\ (\A k \in DOMAIN keep : \E j \in DOMAIN reqs : keep[k] = reqs[j])
      /\ \A j \in DOMAIN reqs : reqs[j].state # "IP" => \E k \in DOMAIN keep : keep[k] = reqs[j]
  BY <1>2, <1>3 DEF Thinned
<1>5. \A q \in DataStates : st2.dpr[f].inq[q] = NumIn(keep, {q})
  <2>1. \A q \in DataStates : q \in Queues \ {"IP"}
    BY DEF DataStates, Queues
  <2>2. \A q \in DataStates : NumIn(keep, {q}) = Upto(reqs, Len(reqs), {q})
    BY <1>3, <2>1 DEF Thinned
  <2>3. \A q \in DataStates : NumIn(reqs, {q}) = Upto(reqs, Len(reqs), {q})
    BY <1>2, NumInUpto
  <2>4. \A q \in DataStates : st.dpr[f].inq[q] = NumIn(reqs, {q})
    BY <1>1, <2>1 DEF FileOK, Listed
  <2> QED BY <2>2, <2>3, <2>4 DEF MovedIs
<1>6. Fits(keep, st2.tape[f], st2.dpr[f].file_size)
  <2>1. Fits(reqs, st.tape[f], st.dpr[f].file_size)
    BY <1>1, FitsOK
  <2> QED BY <1>4, <2>1 DEF Fits, MovedIs
<1>7. Ids(keep) \subseteq Ids(reqs)
  BY <1>2, <1>4, IdsIn
<1>8. Ids(reqs) \subseteq st.tape[f] \cup Ids(keep)
  <2>1. \A i \in DOMAIN reqs : reqs[i].state = "IP" => reqs[i].ids \subseteq st.tape[f]
    BY <1>1 DEF FileOK, IpSaved
  <2> QED BY <1>2, <1>4, <2>1, HeldThinned
<1>9. NumIn(reqs, {"IP"}) \in Nat
  BY <1>2, NumInUpto
<1>10. ASSUME MaxIpSize = 0 PROVE (\A k \in DOMAIN keep : keep[k].state # "IP") /\ ~st2.dpr[f].alt
  <2>1. ~st.dpr[f].alt /\ \A i \in DOMAIN reqs : reqs[i].state \notin {"IP"}
    BY <1>1, <1>10 DEF FileOK, NoIp
  <2>2. NumIn(reqs, {"IP"}) = 0
    BY <1>2, <2>1, NumInZero
  <2>3. o.ok \in Nat /\ ~(o.ok > 0)
    BY <2>2 DEF IndexArgs, OutcomeOK
  <2>4. st2.dpr[f].alt = (st.dpr[f].alt \/ o.ok > 0)
    BY DEF MovedIs
  <2> QED BY <1>4, <2>1, <2>3, <2>4
<1> QED BY <1>1, <1>4, <1>5, <1>6, <1>7, <1>8, <1>9, <1>10 DEF MovedFits

\* Writing to the index partition without an error.
LEMMA IndexedOk ==
    ASSUME NEW st, NEW f, NEW o, NEW keep, NEW plan, IndexArgs(st, f, o, keep), o.e = "ok", NEW st2, MovedIs(st, st2, f, keep, o.ok)
    PROVE  Indexed(st, st2, f, plan)
<1>1. MovedFits(st, st2, f, keep)
  BY MovedListed
<1>2. st \in State /\ f \in Files /\ FileOK(st.dpr[f], st.tape[f]) /\ Drive(st) /\ st.dpr[f].on
  BY DEF IndexArgs, Sound, FilesOK
<1>3. \A k \in DOMAIN keep : keep[k].state # "IP"
  <2>1. o.ok = NumIn(st.dpr[f].reqs, {"IP"}) /\ NumIn(st.dpr[f].reqs, {"IP"}) \in Nat
    BY <1>1 DEF IndexArgs, OutcomeOK, MovedFits
  <2>2. NumIn(st.dpr[f].reqs, {"IP"}) <= o.ok
    BY <2>1
  <2> QED BY <2>2 DEF IndexArgs, UnsentIs
<1>4. Listed(st2.dpr[f])
  <2>1. NumIn(keep, {"IP"}) = 0
    BY <1>1, <1>3, NumInZero DEF MovedFits
  <2>2. SUFFICES ASSUME NEW q \in Queues PROVE st2.dpr[f].inq[q] = NumIn(keep, {q})
    BY DEF Listed, MovedIs
  <2>3. q = "IP" \/ q \in DataStates
    BY DEF Queues, DataStates
  <2> QED BY <1>1, <2>1, <2>3 DEF MovedIs, MovedFits
<1>5. Drive(st2)
  BY <1>2, DriveKept DEF MovedIs
<1>6. FileOK(st2.dpr[f], st2.tape[f])
  <2>1. IpSaved(st2.dpr[f], st2.tape[f]) /\ Sized(st2.dpr[f])
    BY <1>1 DEF MovedFits, Fits, MovedIs, IpSaved, Sized
  <2>2. NoIp(st2.dpr[f])
    BY <1>1, <1>2 DEF MovedFits, MovedIs, NoIp, FileOK
  <2> QED BY <1>2, <1>4, <2>1, <2>2 DEF FileOK, MovedIs
<1>7. FileStep(st, st2, f)
  BY <1>5, <1>6 DEF FileStep, MovedIs
<1>8. Held(st2, f) = st.tape[f] \cup Ids(keep) /\ Held(st, f) = st.tape[f] \cup Ids(st.dpr[f].reqs)
  BY DEF Held, MovedIs
<1>9. Held(st2, f) = Held(st, f)
  BY <1>1, <1>8 DEF MovedFits
<1>10. (f \in st.ext_queue <=> st.dpr[f].alt) => (f \in st2.ext_queue <=> st2.dpr[f].alt)
  BY DEF MovedIs
<1> QED BY <1>1, <1>3, <1>7, <1>9, <1>10 DEF Indexed, MovedIs, MovedFits, DriveSame

\* With an error: what was not written is dropped, but the data partition has it.
LEMMA IndexedError ==
    ASSUME NEW st, NEW f, NEW o, NEW keep, NEW plan, IndexArgs(st, f, o, keep), o.e # "ok", NEW s1, MovedIs(st, s1, f, keep, o.ok),
           Refuses(st, "IP") \/ plan.at = f
    PROVE  Indexed(st, HandleError(Damage(s1, "IP", o.e), f, "IP", o.e), f, plan)
<1> DEFINE s2 == Damage(s1, "IP", o.e)  st2 == HandleError(s2, f, "IP", o.e)
<1>1. MovedFits(st, s1, f, keep)
  BY MovedListed
<1>2. st \in State /\ f \in Files /\ FileOK(st.dpr[f], st.tape[f]) /\ Drive(st) /\ st.dpr[f].on
  BY DEF IndexArgs, Sound, FilesOK
<1>3. s1 \in State /\ Books(s1) /\ Drive(s1) /\ DriveSame(st, s1) /\ s1.dpr[f].reqs = keep
  BY <1>2, DriveKept DEF MovedIs
<1>4. "IP" \in Partitions /\ o.e \in Errors /\ ~NoFaults /\ (o.e = "less_space" => ~s1.broken)
  BY <1>3 DEF Partitions, IndexArgs, OutcomeOK, DriveSame
<1>5. IF Refuses(s1, "IP") THEN o.e = Refusal(s1) ELSE o.e \in Faults /\ s1.nfaults < MaxFaults
  <2>1. IF Refuses(st, "IP") THEN o.e = Refusal(st) ELSE o.e \in Faults /\ st.nfaults < MaxFaults
    BY DEF IndexArgs, OutcomeOK
  <2> QED BY <1>3, <2>1 DEF DriveSame, Refuses, Refusal
<1>6. DamageIs(s1, s2) /\ (o.e = "less_space" => ~s2.broken /\ "IP" \in s2.less)
  BY <1>3, <1>4, <1>5, DamageOK, DamageLess
<1>60. Refuses(s1, "IP") => s2.nfaults = s1.nfaults
  BY <1>3, DamageNf
<1> HIDE DEF s2
<1>7. s2 \in State /\ s2.dpr = s1.dpr /\ s2.queue = s1.queue /\ s2.count = s1.count /\ s2.tape = s1.tape /\ s2.size = s1.size
      /\ s2.written = s1.written /\ s2.ext_queue = s1.ext_queue /\ Drive(s2)
  BY <1>6 DEF DamageIs
<1>8. Books(s2)
  BY <1>3, <1>7, BooksSame
<1> DEFINE states == HStates(s2, "IP", o.e)
<1>9. "IP" \in states /\ (states = {"IP"} \/ o.e # "less_space" \/ Refuses(s2, "DP"))
  BY DEF HStates, Queues
<1> HIDE DEF states
<1>10. Misled(s2.dpr[f], states)
  <2>1. SUFFICES ASSUME NEW q \in Queues
                 PROVE s1.dpr[f].inq[q] = NumIn(keep, {q}) \/ (q \in states /\ s1.dpr[f].inq[q] = 0)
    BY <1>3, <1>7 DEF Misled
  <2>2. q = "IP" \/ q \in DataStates
    BY DEF Queues, DataStates
  <2> QED BY <1>1, <1>9, <2>2 DEF MovedIs, MovedFits
<1>11. Handled(s2, st2, f, "IP", o.e)
  BY <1>2, <1>4, <1>7, <1>8, <1>10, HandleErrorOK DEF states
<1> HIDE DEF st2
<1>12. st2 \in State /\ Books(st2) /\ OthersSame(st, st2, f) /\ DriveSame(s2, st2) /\ st2.ext_queue = s1.ext_queue
       /\ st2.tape = st.tape /\ st2.size = st.size /\ \A g \in Files \ {f} : st2.written[g] = st.written[g]
  BY <1>7, <1>11 DEF Handled, DriveSame, OthersSame, MovedIs
<1>13. Drive(st2)
  BY <1>7, <1>12, DriveKept
<1>14. /\ Listed(st2.dpr[f]) /\ Sized(st2.dpr[f])
       /\ st2.dpr[f].on = s1.dpr[f].on /\ st2.dpr[f].write_ip = s1.dpr[f].write_ip /\ st2.dpr[f].alt = s1.dpr[f].alt
       /\ st2.dpr[f].write_error = Recorded(s1.dpr[f], "IP", o.e)
       /\ \A k \in DOMAIN st2.dpr[f].reqs : \E j \in DOMAIN keep : st2.dpr[f].reqs[k] = keep[j]
       /\ \A j \in DOMAIN keep : keep[j].state \notin states => \E k \in DOMAIN st2.dpr[f].reqs : st2.dpr[f].reqs[k] = keep[j]
       /\ st2.written[f] \subseteq st.written[f]
       /\ Recorded(s1.dpr[f], "IP", o.e) = "ok" => st2.written[f] = st.written[f]
       /\ Recorded(s1.dpr[f], "IP", o.e) # "ok" => st2.written[f] \subseteq Held(st2, f)
  BY <1>3, <1>7, <1>11 DEF Handled, states, MovedIs
<1>15. st2.dpr[f].reqs \in Seq(Req) /\ keep \in Seq(Req)
  BY <1>1, <1>2, <1>12, ReqsOf DEF MovedFits
<1>16. FileOK(st2.dpr[f], st2.tape[f])
  <2>1. IpSaved(st2.dpr[f], st2.tape[f])
    BY <1>1, <1>12, <1>14 DEF MovedFits, Fits, MovedIs, IpSaved
  <2>2. NoIp(st2.dpr[f])
    BY <1>1, <1>2, <1>14 DEF MovedFits, MovedIs, NoIp, FileOK
  <2> QED BY <1>2, <1>4, <1>14, <2>1, <2>2 DEF FileOK, MovedIs
<1>17. FileStep(st, st2, f)
  BY <1>12, <1>13, <1>16 DEF FileStep, MovedIs
<1>18. Held(st2, f) = st.tape[f] \cup Ids(st2.dpr[f].reqs) /\ Held(st, f) = st.tape[f] \cup Ids(st.dpr[f].reqs)
  BY <1>12 DEF Held
<1>19. Ids(st2.dpr[f].reqs) \subseteq Ids(keep)
  BY <1>14, <1>15, IdsIn
<1>20. Held(st2, f) \subseteq Held(st, f)
  BY <1>1, <1>18, <1>19 DEF MovedFits
<1>21. \A k \in DOMAIN st2.dpr[f].reqs : \E j \in DOMAIN st.dpr[f].reqs : st2.dpr[f].reqs[k] = st.dpr[f].reqs[j]
  BY <1>1, <1>14 DEF MovedFits
<1>22. ASSUME ErrorsReach, st.written[f] \subseteq Held(st, f) PROVE st2.written[f] \subseteq Held(st2, f)
  <2>1. CASE Recorded(s1.dpr[f], "IP", o.e) # "ok"
    BY <1>14, <2>1
  <2>2. CASE Recorded(s1.dpr[f], "IP", o.e) = "ok"
    <3>1. o.e = "less_space"
      BY <2>2 DEF Recorded
    <3>2. ~s2.broken /\ "IP" \in s2.less /\ s2.less \in SUBSET {"DP", "IP"}
      BY <1>6, <1>7, <3>1, StateFields
    <3>3. MaxIpSize # 0
      <4>1. SUFFICES ASSUME MaxIpSize = 0 PROVE FALSE
        OBVIOUS
      <4>2. \A i \in DOMAIN st.dpr[f].reqs : st.dpr[f].reqs[i].state \notin {"IP"}
        BY <1>2, <4>1 DEF FileOK, NoIp
      <4>3. st.dpr[f].reqs \in Seq(Req)
        BY <1>2, ReqsOf
      <4>4. NumIn(st.dpr[f].reqs, {"IP"}) = 0
        BY <4>2, <4>3, NumInZero
      <4> QED BY <4>4 DEF IndexArgs, OutcomeOK
    <3>4. ~Refuses(s2, "DP")
      <4>1. SUFFICES ASSUME "DP" \in s2.less PROVE FALSE
        BY <3>2 DEF Refuses
      <4>2. s2.less = {"DP", "IP"}
        BY <3>2, <4>1
      <4>3. s2.nfaults >= 2 /\ s2.nfaults <= MaxFaults /\ "less_space" \in Faults /\ s2.nfaults \in Nat
        BY <1>7, <4>2, StateFields DEF Drive
      <4>4. MaxFaults \in Nat
        BY BoundsOK
      <4> QED BY <1>4, <1>22, <3>3, <4>3, <4>4 DEF ErrorsReach
    <3>5. states = {"IP"}
      BY <1>9, <3>1, <3>4
    <3>6. Ids(keep) \subseteq st.tape[f] \cup Ids(st2.dpr[f].reqs)
      <4>1. \A j \in DOMAIN keep : keep[j].state = "IP" => keep[j].ids \subseteq st.tape[f]
        BY <1>1 DEF MovedFits, Fits, MovedIs
      <4>2. \A j \in DOMAIN keep : keep[j].state # "IP" => \E k \in DOMAIN st2.dpr[f].reqs : st2.dpr[f].reqs[k] = keep[j]
        BY <1>14, <3>5
      <4> QED BY <1>15, <4>1, <4>2, HeldThinned, SMTT(20)
    <3>7. Ids(st.dpr[f].reqs) \subseteq st.tape[f] \cup Ids(keep)
      BY <1>1 DEF MovedFits
    <3> QED BY <1>14, <1>18, <1>22, <2>2, <3>6, <3>7
  <2> QED BY <2>1, <2>2
<1>23. st2.nfaults = st.nfaults \/ plan.at = f
  BY <1>3, <1>12, <1>60 DEF DriveSame, Refuses
<1>24. (f \in st.ext_queue <=> st.dpr[f].alt) => (f \in st2.ext_queue <=> st2.dpr[f].alt)
  BY <1>12, <1>14 DEF MovedIs
<1>25. Indexed(st, st2, f, plan)
  BY <1>4, <1>12, <1>14, <1>17, <1>20, <1>21, <1>22, <1>23, <1>24 DEF Indexed
<1> QED BY <1>25 DEF st2, s2

\* Two steps on one file make one.
LEMMA FileStepTrans ==
    ASSUME NEW st, NEW st2, NEW st3, NEW f, FileStep(st, st2, f), FileStep(st2, st3, f) PROVE FileStep(st, st3, f)
BY DEF FileStep, OthersSame

\* Freeing the dentry_priv afterwards.
LEMMA IndexedFree ==
    ASSUME NEW st, NEW d, NEW f \in Files, NEW plan, Sound(st), Indexed(st, d, f, plan), Freeable(d, f, 2)
    PROVE  Indexed(st, FreeDpr(d, f), f, plan)
<1> DEFINE x == FreeDpr(d, f)
<1>1. Sound(d) /\ d.dpr[f].reqs = <<>> /\ ~d.dpr[f].alt
  BY SoundStep DEF Indexed, Freeable
<1>2. FreedIs(d, x, f)
  BY <1>1, FreeDprOK
<1> HIDE DEF x
<1>3. FileStep(d, x, f) /\ x.ext_queue = d.ext_queue /\ x.tape = d.tape /\ x.size = d.size /\ x.nfaults = d.nfaults
      /\ x.written = d.written /\ x.dpr[f] = NoDpr /\ Held(x, f) = Held(d, f)
  BY <1>2 DEF FreedIs, SameRest
<1>4. x.dpr[f].reqs = <<>> /\ ~x.dpr[f].alt
  BY <1>3, NoDprType
<1>5. FileStep(st, x, f)
  BY <1>3, FileStepTrans DEF Indexed
<1>6. Indexed(st, x, f, plan)
  BY <1>1, <1>3, <1>4, <1>5 DEF Indexed
<1> QED BY <1>6 DEF x

\* _unified_process_index_queue for one file.
LEMMA IndexOneOK ==
    ASSUME NEW st, NEW f \in Files, Sound(st), st.dpr[f].on, NEW plan, plan.at # f \/ plan \in Plans(st)
    PROVE  Indexed(st, IndexOne(st, f, plan), f, plan)
<1> DEFINE n == NumIn(st.dpr[f].reqs, {"IP"})
           o == Outcome(st, "IP", n, f, plan)
           keep == Unsent(st.dpr[f].reqs, o.ok)
           moved == Moved(st, f, keep, o.ok)
           bad == HandleError(Damage(moved, "IP", o.e), f, "IP", o.e)
           done == IF o.e = "ok" THEN moved ELSE bad
<1>1. IndexOne(st, f, plan) = IF Freeable(done, f, 2) THEN FreeDpr(done, f) ELSE done
  BY DEF IndexOne, Moved
<1>2. st \in State /\ Books(st) /\ Drive(st)
  BY DEF Sound
<1>3. st.dpr[f].reqs \in Seq(Req)
  BY <1>2, ReqsOf
<1>4. n \in Nat
  BY <1>3, NumInUpto
<1> HIDE DEF n
<1>5. OutcomeOK(st, "IP", n, o)
  BY <1>2, <1>4, OutcomeFacts DEF Partitions
<1>6. o.e # "ok" => Refuses(st, "IP") \/ plan.at = f
  BY <1>4, OutcomeAt
<1> HIDE DEF o
<1>7. o.ok \in Nat
  BY <1>5 DEF OutcomeOK
<1>8. UnsentIs(st.dpr[f].reqs, keep, o.ok)
  BY <1>3, <1>7, UnsentOK
<1> HIDE DEF keep
<1>9. keep \in Seq(Req)
  BY <1>8 DEF UnsentIs, Thinned
<1>10. MovedIs(st, moved, f, keep, o.ok)
  BY <1>2, <1>7, <1>9, MovedOK
<1> HIDE DEF moved
<1>11. IndexArgs(st, f, o, keep)
  BY <1>5, <1>8 DEF IndexArgs, n
<1>12. o.e = "ok" => Indexed(st, moved, f, plan)
  BY <1>10, <1>11, IndexedOk
<1>13. o.e # "ok" => Indexed(st, bad, f, plan)
  BY <1>6, <1>10, <1>11, IndexedError
<1> HIDE DEF bad
<1>14. Indexed(st, done, f, plan)
  BY <1>12, <1>13
<1> HIDE DEF done
<1>15. Freeable(done, f, 2) => Indexed(st, FreeDpr(done, f), f, plan)
  BY <1>14, IndexedFree
<1> QED BY <1>1, <1>14, <1>15

NoneIp(reqs) == \A k \in DOMAIN reqs : reqs[k].state # "IP"

\* What happens to the data of a file while the index partition is written.
Saved(st, x, g) ==
    /\ x.tape[g] = st.tape[g] /\ x.size[g] = st.size[g]
    /\ (g \in st.ext_queue <=> st.dpr[g].alt) => (g \in x.ext_queue <=> x.dpr[g].alt)
    /\ Held(x, g) \subseteq Held(st, g) /\ x.written[g] \subseteq st.written[g]
    /\ NoFaults => x.written[g] = st.written[g] /\ Held(st, g) \subseteq Held(x, g)
    /\ AllIp(st.dpr[g].reqs) => AllIp(x.dpr[g].reqs)
    /\ ErrorsReach /\ st.written[g] \subseteq Held(st, g) => x.written[g] \subseteq Held(x, g)

\* Doing nothing saves the data,
LEMMA SavedSame == \A st, g : Saved(st, st, g)
BY DEF Saved

\* and so do two saving steps.
LEMMA SavedTrans ==
    ASSUME NEW st, NEW x, NEW y, NEW g, Saved(st, x, g), Saved(x, y, g) PROVE Saved(st, y, g)
BY DEF Saved

\* Writing one file saves the data of all.
LEMMA SavedIndexed ==
    ASSUME NEW st, NEW x, NEW f \in Files, NEW plan, Indexed(st, x, f, plan), NEW g \in Files PROVE Saved(st, x, g)
<1>1. CASE g = f
  <2>1. AllIp(st.dpr[g].reqs) => AllIp(x.dpr[g].reqs)
    BY <1>1 DEF Indexed, AllIp
  <2> QED BY <1>1, <2>1 DEF Indexed, Saved
<1>2. CASE g # f
  <2>1. x.dpr[g] = st.dpr[g] /\ x.tape[g] = st.tape[g] /\ x.size[g] = st.size[g] /\ x.written[g] = st.written[g]
        /\ (g \in x.ext_queue <=> g \in st.ext_queue)
    BY <1>2 DEF Indexed, FileStep, OthersSame
  <2>2. Held(x, g) = Held(st, g)
    BY <2>1 DEF Held
  <2> QED BY <2>1, <2>2 DEF Saved
<1> QED BY <1>1, <1>2

\* _unified_process_index_queue after i files.
IndexRun(st, x, order, i, plan) ==
    /\ Sound(x)
    /\ \A g \in Files : Saved(st, x, g)
    /\ \A g \in Files : (\A j \in 1..i : order[j] # g) => x.dpr[g] = st.dpr[g]
    /\ NoFaults => \A j \in 1..i : NoneIp(x.dpr[order[j]].reqs)
    /\ x.nfaults = st.nfaults \/ \E j \in 1..i : plan.at = order[j]
InOrder(st, order, n) ==
    /\ \A i \in 1..n : order[i] \in Files /\ st.dpr[order[i]].on
    /\ \A i, j \in 1..n : i # j => order[i] # order[j]

\* One file more.
LEMMA IndexRunNext ==
    ASSUME NEW st, NEW x, NEW order, NEW n \in Nat, InOrder(st, order, n), NEW i \in 1..n, NEW plan \in Plans(st),
           IndexRun(st, x, order, i - 1, plan)
    PROVE  IndexRun(st, IndexOne(x, order[i], plan), order, i, plan)
<1> DEFINE f == order[i]  y == IndexOne(x, f, plan)
<1>1. f \in Files /\ st.dpr[f].on /\ \A j \in 1..(i - 1) : order[j] # f
  <2>1. \A j \in 1..(i - 1) : j \in 1..n /\ j # i
    OBVIOUS
  <2> QED BY <2>1 DEF InOrder
<1>2. x.dpr[f] = st.dpr[f]
  BY <1>1 DEF IndexRun
<1>3. plan.at # f \/ plan \in Plans(x)
  <2>1. CASE plan.at = f
    <3>1. x.nfaults = st.nfaults
      BY <1>1, <2>1 DEF IndexRun
    <3> QED BY <3>1 DEF Plans
  <2> QED BY <2>1
<1>4. Sound(x)
  BY DEF IndexRun
<1> HIDE DEF f
<1>5. Indexed(x, y, f, plan)
  BY <1>1, <1>2, <1>3, <1>4, IndexOneOK
<1> HIDE DEF y
<1>6. Sound(y)
  BY <1>4, <1>5, SoundStep DEF Indexed
<1>7. \A g \in Files : Saved(st, y, g)
  <2>1. \A g \in Files : Saved(x, y, g)
    BY <1>1, <1>5, SavedIndexed
  <2> QED BY <2>1, SavedTrans DEF IndexRun
<1>8. \A g \in Files \ {f} : y.dpr[g] = x.dpr[g]
  BY <1>5 DEF Indexed, FileStep, OthersSame
<1>9. i \in 1..i /\ \A j \in 1..i : j = i \/ j \in 1..(i - 1)
  OBVIOUS
<1>90. \A j \in 1..(i - 1) : j \in 1..i
  OBVIOUS
<1>10. \A g \in Files : (\A j \in 1..i : order[j] # g) => y.dpr[g] = st.dpr[g]
  BY <1>8, <1>9, <1>90 DEF IndexRun, f
<1>11. ASSUME NoFaults, NEW j \in 1..i PROVE NoneIp(y.dpr[order[j]].reqs)
  <2>1. CASE j = i
    BY <1>5, <1>11, <2>1 DEF Indexed, NoneIp, f
  <2>2. CASE j # i
    <3>1. j \in 1..(i - 1) /\ j \in 1..n
      BY <1>9, <2>2
    <3>2. order[j] \in Files \ {f}
      BY <1>1, <3>1 DEF InOrder
    <3> QED BY <1>8, <1>11, <3>1, <3>2 DEF IndexRun
  <2> QED BY <2>1, <2>2
<1>12. y.nfaults = st.nfaults \/ \E j \in 1..i : plan.at = order[j]
  BY <1>5, <1>9, <1>90 DEF Indexed, IndexRun, f
<1>13. IndexRun(st, y, order, i, plan)
  BY <1>6, <1>7, <1>10, <1>11, <1>12 DEF IndexRun
<1> QED BY <1>13 DEF y, f

\* _unified_process_index_queue over an order of files.
LEMMA IndexAllOK ==
    ASSUME NEW st, Sound(st), NEW order \in Seq(Files), InOrder(st, order, Len(order)), NEW plan \in Plans(st)
    PROVE  IndexRun(st, IndexAll(st, order, plan), order, Len(order), plan)
<1> DEFINE n == Len(order)
           Step(g) == [i \in 0..n |-> IF i = 0 THEN st ELSE IndexOne(g[i - 1], order[i], plan)]
           F == CHOOSE g : g = Step(g)
           P(i, x) == IndexRun(st, x, order, i, plan)
           step == [i \in 1..n |-> [x \in State |-> IF P(i - 1, x) THEN IndexOne(x, order[i], plan) ELSE x]]
<1>1. n \in Nat
  OBVIOUS
<1>13. IndexAll(st, order, plan) = F[n]
  BY DEF IndexAll
<1>3. st \in State
  BY DEF Sound
<1>14. InOrder(st, order, n)
  OBVIOUS
<1> HIDE DEF n
<1>30. P(0, st)
  BY SavedSame DEF IndexRun
<1>2. \A i \in 1..n : \A x : P(i - 1, x) => P(i, IndexOne(x, order[i], plan))
  BY <1>1, <1>14, IndexRunNext
<1>21. \A i, x : P(i, x) => x \in State
  BY DEF IndexRun, Sound
<1> HIDE DEF P
<1>20. Steps(step, n, State)
  BY <1>2, <1>21 DEF Steps
<1>4. PICK g : Runs(g, n, State, st, step)
  <2> HIDE DEF step, Step, F
  <2> QED BY <1>1, <1>20, <1>3, FoldRuns
<1>5. \A i \in 1..n : i - 1 \in 0..n /\ g[i - 1] \in State
  BY <1>1, <1>4 DEF Runs
<1>6. \A i \in 1..n : P(i - 1, g[i - 1]) => g[i] = IndexOne(g[i - 1], order[i], plan)
  <2>1. \A i \in 1..n : g[i] = step[i][g[i - 1]]
    BY <1>4 DEF Runs
  <2> QED BY <1>5, <2>1
<1>60. \A i \in 0..n : P(i, g[i])
  <2> DEFINE T == {i \in 0..n : P(i, g[i])}
  <2>1. 0 \in T
    BY <1>1, <1>30, <1>4 DEF Runs
  <2>2. ASSUME NEW i \in 1..n, i - 1 \in T PROVE i \in T
    <3>1. P(i - 1, g[i - 1]) /\ i \in 0..n
      BY <1>1, <2>2
    <3> QED BY <1>2, <1>6, <3>1
  <2> HIDE DEF T
  <2>3. \A i \in 0..n : i \in T
    BY <1>1, <2>1, <2>2, Stepwise
  <2> QED BY <2>3 DEF T
<1>7. g = Step(g)
  <2>1. \A i \in 0..n : i = 0 \/ i \in 1..n
    BY <1>1
  <2>2. g \in [0..n -> State] /\ g[0] = st
    BY <1>4 DEF Runs
  <2>3. \A i \in 1..n : g[i] = IndexOne(g[i - 1], order[i], plan)
    BY <1>5, <1>6, <1>60
  <2> QED BY <2>1, <2>2, <2>3
<1> HIDE DEF Step, step
<1>8. F = Step(F)
  BY <1>7
<1> HIDE DEF F
<1>9. F[0] = st /\ \A i \in 1..n : F[i] = IndexOne(F[i - 1], order[i], plan)
  <2>1. 0 \in 0..n /\ \A i \in 1..n : i \in 0..n /\ i # 0
    BY <1>1
  <2> QED BY <1>8, <2>1 DEF Step
<1> DEFINE T == {i \in 0..n : P(i, F[i])}
<1>10. 0 \in T
  BY <1>1, <1>30, <1>9
<1>11. ASSUME NEW i \in 1..n, i - 1 \in T PROVE i \in T
  <2>1. P(i - 1, F[i - 1]) /\ i \in 0..n
    BY <1>1, <1>11
  <2> QED BY <1>2, <1>9, <2>1
<1> HIDE DEF T
<1>12. n \in T
  <2>1. \A i \in 0..n : i \in T
    BY <1>1, <1>10, <1>11, Stepwise
  <2> QED BY <1>1, <2>1
<1>15. P(n, F[n])
  BY <1>12 DEF T
<1> QED BY <1>13, <1>15 DEF P, n

\* What _unified_process_index_queue leaves.
AllIndexed(st, x) ==
    /\ Sound(x)
    /\ \A g \in Files : Saved(st, x, g)
    /\ \A g \in Files : st.dpr[g].reqs = <<>> => x.dpr[g] = st.dpr[g]
    /\ NoFaults => \A g \in Files : NoneIp(x.dpr[g].reqs)

\* Without faults no request for the index partition is left.
LEMMA IndexAllDone ==
    ASSUME NEW st, Sound(st), NEW order \in SetToSeqs(st.queue["IP"]), NEW plan \in Plans(st)
    PROVE  AllIndexed(st, IndexAll(st, order, plan))
<1> DEFINE x == IndexAll(st, order, plan)
<1>1. st \in State /\ Books(st) /\ FilesOK(st) /\ "IP" \in Queues
  BY DEF Sound, Queues
<1>2. IsFiniteSet(st.queue["IP"]) /\ st.queue["IP"] \subseteq Files
  BY <1>1, QueueFinite
<1>3. order \in Seq(st.queue["IP"]) /\ (\A i, j \in 1..Len(order) : i # j => order[i] # order[j])
      /\ \A v \in st.queue["IP"] : \E i \in 1..Len(order) : order[i] = v
  BY <1>2, OrderOf
<1>4. order \in Seq(Files) /\ \A i \in 1..Len(order) : order[i] \in st.queue["IP"]
  BY <1>2, <1>3
<1>5. ASSUME NEW g \in Files PROVE g \in st.queue["IP"] <=> NumIn(st.dpr[g].reqs, {"IP"}) > 0
  BY <1>1 DEF Books, FilesOK, FileOK, Listed
<1>6. ASSUME NEW g \in Files, g \in st.queue["IP"] PROVE st.dpr[g].on /\ st.dpr[g].reqs # <<>>
  <2>1. st.dpr[g].reqs # <<>>
    <3>1. SUFFICES ASSUME st.dpr[g].reqs = <<>> PROVE FALSE
      OBVIOUS
    <3> QED BY <1>5, <1>6, <3>1, NumInEmpty
  <2>2. st.dpr[g].on
    BY <1>1, <2>1, NoDprType DEF FilesOK, FileOK
  <2> QED BY <2>1, <2>2
<1>7. InOrder(st, order, Len(order))
  BY <1>2, <1>3, <1>4, <1>6 DEF InOrder
<1>8. IndexRun(st, x, order, Len(order), plan)
  BY <1>4, <1>7, IndexAllOK
<1> HIDE DEF x
<1>9. \A g \in Files : st.dpr[g].reqs = <<>> => x.dpr[g] = st.dpr[g]
  BY <1>2, <1>4, <1>6, <1>8 DEF IndexRun
<1>10. ASSUME NoFaults, NEW g \in Files PROVE NoneIp(x.dpr[g].reqs)
  <2>1. CASE g \in st.queue["IP"]
    BY <1>3, <1>8, <1>10, <2>1 DEF IndexRun
  <2>2. CASE g \notin st.queue["IP"]
    <3>1. x.dpr[g] = st.dpr[g]
      BY <1>4, <1>8, <2>2 DEF IndexRun
    <3>2. st.dpr[g].reqs \in Seq(Req)
      BY <1>1, ReqsOf
    <3>3. NumIn(st.dpr[g].reqs, {"IP"}) = 0
      <4>1. NumIn(st.dpr[g].reqs, {"IP"}) \in Nat
        BY <3>2, NumInUpto
      <4> QED BY <1>5, <2>2, <4>1
    <3>4. \A k \in DOMAIN st.dpr[g].reqs : st.dpr[g].reqs[k].state \notin {"IP"}
      BY <3>2, <3>3, NumInZero
    <3> QED BY <3>1, <3>4 DEF NoneIp
  <2> QED BY <2>1, <2>2
<1>11. AllIndexed(st, x)
  BY <1>8, <1>9, <1>10 DEF IndexRun, AllIndexed
<1> QED BY <1>11 DEF x

(* Placement. *)
SetAll(st, f, d, E, c) == [st EXCEPT !.dpr[f] = d, !.ext_queue = E, !.count["DP"] = c]
AllSet(st, st2, f, d, E, c) ==
    /\ st2 \in State /\ st2.dpr[f] = d /\ OthersSame(st, st2, f) /\ st2.ext_queue = E
    /\ st2.queue = st.queue /\ st2.count["DP"] = c /\ \A q \in Queues \ {"DP"} : st2.count[q] = st.count[q]
    /\ st2.free = st.free /\ st2.tape = st.tape /\ st2.size = st.size /\ DriveSame(st, st2) /\ st2.written = st.written

\* What replacing the dentry_priv, ext_queue and a counter leaves of every field.
LEMMA SetAllOK ==
    ASSUME NEW st \in State, NEW f \in Files, NEW d \in Dpr, NEW E \in SUBSET Files, NEW c \in Int
    PROVE  AllSet(st, SetAll(st, f, d, E, c), f, d, E, c)
<1> DEFINE D == [st.dpr EXCEPT ![f] = d]  C == [st.count EXCEPT !["DP"] = c]
           st2 == [st EXCEPT !.dpr = D, !.ext_queue = E, !.count = C]
<1>1. st.dpr \in [Files -> Dpr] /\ st.count \in [Queues -> Int] /\ "DP" \in Queues
  BY StateFields DEF Queues
<1>2. SetAll(st, f, d, E, c) = st2
  BY <1>1 DEF SetAll, State
<1>3. D \in [Files -> Dpr] /\ D[f] = d /\ \A g \in Files \ {f} : D[g] = st.dpr[g]
  BY <1>1
<1>4. C \in [Queues -> Int] /\ C["DP"] = c /\ \A q \in Queues \ {"DP"} : C[q] = st.count[q]
  BY <1>1
<1> HIDE DEF D, C
<1>5. st2 \in State /\ st2.dpr = D /\ st2.ext_queue = E /\ st2.count = C /\ st2.queue = st.queue
      /\ st2.free = st.free /\ st2.tape = st.tape /\ st2.size = st.size /\ DriveSame(st, st2) /\ st2.written = st.written
  BY <1>3, <1>4 DEF State, DriveSame
<1> HIDE DEF st2
<1>6. AllSet(st, st2, f, d, E, c)
  BY <1>3, <1>4, <1>5 DEF AllSet, OthersSame
<1> QED BY <1>2, <1>6

\* What a change of placement leaves as it was.
Settled(st, st2, f) ==
    /\ FileStep(st, st2, f) /\ DriveSame(st, st2)
    /\ st2.tape = st.tape /\ st2.size = st.size /\ st2.written = st.written
    /\ (f \in st.ext_queue <=> st.dpr[f].alt) => (f \in st2.ext_queue <=> st2.dpr[f].alt)
    /\ st2.dpr[f].on = st.dpr[f].on /\ st2.dpr[f].file_size = st.dpr[f].file_size
    /\ st2.dpr[f].write_error = st.dpr[f].write_error
    /\ Held(st2, f) = Held(st, f)
    /\ st.dpr[f].reqs = <<>> => st2.dpr[f].reqs = <<>>

\* Doing nothing settles.
LEMMA SettledSame == ASSUME NEW st, NEW f \in Files, Sound(st) PROVE Settled(st, st, f)
BY DEF Settled, FileStep, Sound, FilesOK, DriveSame, OthersSame

\* _unified_set_write_ip takes the file's DP requests out of the writer's count.
LEMMA SetWriteIpOK ==
    ASSUME NEW st, NEW f \in Files, Sound(st), st.dpr[f].on, ~st.dpr[f].write_ip, MaxIpSize > 0
    PROVE  Settled(st, SetWriteIp(st, f), f)
<1> DEFINE d == [st.dpr[f] EXCEPT !.write_ip = TRUE]
           c == st.count["DP"] - st.dpr[f].inq["DP"]
           st2 == SetAll(st, f, d, st.ext_queue, c)
<1>1. st \in State /\ Books(st) /\ Drive(st) /\ FileOK(st.dpr[f], st.tape[f]) /\ st.dpr[f] \in Dpr /\ "DP" \in Queues
      /\ st.dpr[f].inq \in [Queues -> Nat] /\ st.dpr \in [Files -> Dpr] /\ st.count \in [Queues -> Int] /\ st.ext_queue \in SUBSET Files
  BY StateFields, ReqsOf DEF Sound, FilesOK, Queues
<1>2. SetWriteIp(st, f) = st2
  BY <1>1 DEF SetWriteIp, SetAll, State, Dpr
<1>3. d \in Dpr /\ d.write_ip /\ d.on = st.dpr[f].on /\ d.reqs = st.dpr[f].reqs /\ d.file_size = st.dpr[f].file_size
      /\ d.write_error = st.dpr[f].write_error /\ d.alt = st.dpr[f].alt /\ d.inq = st.dpr[f].inq
  BY <1>1 DEF Dpr
<1>4. c \in Int
  BY <1>1
<1> HIDE DEF d, c
<1>5. AllSet(st, st2, f, d, st.ext_queue, c)
  BY <1>1, <1>3, <1>4, SetAllOK
<1> HIDE DEF st2
<1>6. st2 \in State /\ st2.dpr[f] = d /\ OthersSame(st, st2, f) /\ st2.ext_queue = st.ext_queue
      /\ st2.queue = st.queue /\ st2.count["DP"] = c /\ (\A q \in Queues \ {"DP"} : st2.count[q] = st.count[q])
      /\ st2.tape = st.tape /\ st2.size = st.size /\ DriveSame(st, st2) /\ st2.written = st.written
  BY <1>5 DEF AllSet
<1>7. Books(st2)
  <2>1. \A q \in Queues : f \in st2.queue[q] <=> st2.dpr[f].inq[q] > 0
    BY <1>1, <1>3, <1>6 DEF Books
  <2>2. ASSUME NEW q \in Queues PROVE st2.count[q] = st.count[q] - Weight(st, q, f) + Weight(st2, q, f)
    <3>1. st.count[q] \in Int /\ st.dpr[f].inq[q] \in Nat
      BY <1>1
    <3>2. CASE q = "DP"
      <4>1. Weight(st, q, f) = st.dpr[f].inq["DP"] /\ Weight(st2, q, f) = 0
        BY <1>3, <1>6, <3>2 DEF Weight, Counted
      <4> QED BY <1>6, <3>1, <3>2, <4>1 DEF c
    <3>3. CASE q # "DP"
      <4>1. Weight(st, q, f) = st.dpr[f].inq[q] /\ Weight(st2, q, f) = st.dpr[f].inq[q]
        BY <1>3, <1>6, <3>3 DEF Weight, Counted
      <4> QED BY <1>6, <3>1, <3>3, <4>1
    <3> QED BY <3>2, <3>3
  <2>3. \A g \in Files \ {f} : st2.dpr[g] = st.dpr[g] /\ \A q \in Queues : g \in st2.queue[q] <=> g \in st.queue[q]
    BY <1>6 DEF OthersSame
  <2> QED BY <1>1, <1>6, <2>1, <2>2, <2>3, BooksStep
<1>8. FileOK(st2.dpr[f], st2.tape[f])
  <2>1. MaxIpSize # 0 /\ d.on
    BY <1>3, BoundsOK
  <2>2. Listed(d) /\ IpSaved(d, st.tape[f]) /\ Sized(d)
    BY <1>1, <1>3 DEF FileOK, Listed, IpSaved, Sized
  <2>3. NoIp(d)
    BY <2>1 DEF NoIp
  <2>4. NoFaults => d.write_error = "ok"
    BY <1>1, <1>3 DEF FileOK
  <2> QED BY <1>6, <2>1, <2>2, <2>3, <2>4 DEF FileOK
<1>9. Drive(st2)
  BY <1>1, <1>6, DriveKept
<1>10. FileStep(st, st2, f)
  BY <1>6, <1>7, <1>8, <1>9 DEF FileStep
<1>11. Held(st2, f) = Held(st, f)
  BY <1>3, <1>6 DEF Held
<1>12. Settled(st, st2, f)
  BY <1>3, <1>6, <1>10, <1>11 DEF Settled
<1> QED BY <1>2, <1>12

\* The requests for the index partition are dropped: f is no longer in that queue.
Unlisted(st, st2, f) ==
    /\ st2 \in State /\ OthersSame(st, st2, f) /\ SameData(st, st2)
    /\ FlagsSame(st.dpr[f], st2.dpr[f])
    /\ Purged(st.dpr[f].reqs, Len(st.dpr[f].reqs), st2.dpr[f].reqs, {"IP"})
    /\ \A q \in DataStates : st2.dpr[f].inq[q] = st.dpr[f].inq[q] /\ st2.queue[q] = st.queue[q] /\ st2.count[q] = st.count[q]
    /\ st2.dpr[f].inq["IP"] = 0 /\ st2.queue["IP"] = st.queue["IP"] \ {f}
    /\ st2.count["IP"] = st.count["IP"] - st.dpr[f].inq["IP"]

\* The requests for the index partition leave list, queue and count together.
LEMMA UnlistOK ==
    ASSUME NEW st \in State, NEW f \in Files, st.dpr[f].inq["IP"] > 0
    PROVE  Unlisted(st, ClearQ(DropReqs(st, f, {"IP"}), "IP", f), f)
<1> DEFINE x == DropReqs(st, f, {"IP"})
           Q == x.queue["IP"] \ {f}
           c == x.count["IP"] - x.dpr[f].inq["IP"]
           q0 == "IP"
           y == Requeue(x, f, q0, Q, 0, c)
<1>1. DropIs(st, x, f, {"IP"})
  BY DropOK
<1> HIDE DEF x
<1>2. x \in State /\ FlagsSame(st.dpr[f], x.dpr[f]) /\ x.dpr[f].inq = st.dpr[f].inq
      /\ Purged(st.dpr[f].reqs, Len(st.dpr[f].reqs), x.dpr[f].reqs, {"IP"})
      /\ OthersSame(st, x, f) /\ x.queue = st.queue /\ x.count = st.count /\ SameData(st, x)
  BY <1>1 DEF DropIs
<1>3. x.dpr[f].inq \in [Queues -> Nat] /\ x.queue \in [Queues -> SUBSET Files] /\ x.count \in [Queues -> Int] /\ "IP" \in Queues
  BY <1>2, ReqsOf, StateFields DEF Queues
<1>4. ClearQ(x, "IP", f) = y
  BY <1>2, <1>3 DEF ClearQ, Requeue, Counted, State
<1>5. Q \in SUBSET Files /\ c \in Int
  BY <1>3
<1>6. Q = st.queue["IP"] \ {f} /\ c = st.count["IP"] - st.dpr[f].inq["IP"]
  BY <1>2
<1> HIDE DEF Q, c
<1>7. Requeued(x, y, f, q0, Q, 0, c)
  <2>1. q0 \in Queues
    BY <1>3
  <2> HIDE DEF q0
  <2> QED BY <1>2, <1>5, <2>1, RequeueFields
<1> HIDE DEF y
<1>8. y \in State /\ SameRest(x, y) /\ SameDpr(x.dpr[f], y.dpr[f]) /\ OthersSame(x, y, f)
      /\ y.dpr[f].inq = [x.dpr[f].inq EXCEPT !["IP"] = 0] /\ y.queue = [x.queue EXCEPT !["IP"] = Q] /\ y.count = [x.count EXCEPT !["IP"] = c]
  BY <1>7 DEF Requeued, OthersSame
<1>9. y.dpr[f].inq["IP"] = 0 /\ y.queue["IP"] = Q /\ y.count["IP"] = c
  BY <1>3, <1>8
<1>10. \A q \in DataStates : y.dpr[f].inq[q] = x.dpr[f].inq[q] /\ y.queue[q] = x.queue[q] /\ y.count[q] = x.count[q]
  BY <1>3, <1>8 DEF DataStates, Queues
<1>11. Unlisted(st, y, f)
  BY <1>2, <1>6, <1>8, <1>9, <1>10, SMTT(20) DEF Unlisted, OthersSame, SameData, SameRest, FlagsSame, SameDpr
<1> QED BY <1>4, <1>11 DEF x

\* A list without requests in the states is purged already.
LEMMA PurgedNone ==
    ASSUME NEW reqs \in Seq(Req), NEW states, \A k \in DOMAIN reqs : reqs[k].state \notin states
    PROVE  Purged(reqs, Len(reqs), reqs, states)
<1>1. Len(reqs) \in Nat /\ DOMAIN reqs = 1..Len(reqs)
  OBVIOUS
<1>2. \A q \in Queues : NumIn(reqs, {q}) = Upto(reqs, Len(reqs), {q})
  BY NumInUpto
<1> QED BY <1>1, <1>2 DEF Purged, Thinned

\* _unified_unset_write_ip gives the DP requests back to the count and leaves ext_queue.
LEMMA UnsetWriteIpOK ==
    ASSUME NEW st, NEW f \in Files, Sound(st), st.dpr[f].on, st.dpr[f].write_ip
    PROVE  Settled(st, UnsetWriteIp(st, f), f)
<1> DEFINE d0 == [st.dpr[f] EXCEPT !.write_ip = FALSE]
           off == SetDpr(st, f, d0)
           dropped == IF off.dpr[f].inq["IP"] > 0 THEN ClearQ(DropReqs(off, f, {"IP"}), "IP", f) ELSE off
           E == IF off.dpr[f].alt THEN dropped.ext_queue \ {f} ELSE dropped.ext_queue
           c == dropped.count["DP"] + off.dpr[f].inq["DP"]
           d == [dropped.dpr[f] EXCEPT !.alt = FALSE]
           st2 == SetAll(dropped, f, d, E, c)
<1>1. st \in State /\ Books(st) /\ Drive(st) /\ FileOK(st.dpr[f], st.tape[f]) /\ st.dpr[f] \in Dpr /\ {"DP", "IP"} \subseteq Queues
      /\ st.dpr[f].inq \in [Queues -> Nat] /\ st.dpr \in [Files -> Dpr] /\ st.count \in [Queues -> Int] /\ st.ext_queue \in SUBSET Files
      /\ st.dpr[f].reqs \in Seq(Req)
  BY StateFields, ReqsOf DEF Sound, FilesOK, Queues
<1>2. off = [st EXCEPT !.dpr[f].write_ip = FALSE]
  BY <1>1 DEF SetDpr, State, Dpr
<1>20. UnsetWriteIp(st, f) = [dropped EXCEPT !.count["DP"] = c, !.ext_queue = E, !.dpr[f].alt = FALSE]
  <2>1. UnsetWriteIp(st, f) = [dropped EXCEPT !.count["DP"] = @ + off.dpr[f].inq["DP"],
                        !.ext_queue = IF off.dpr[f].alt THEN @ \ {f} ELSE @, !.dpr[f].alt = FALSE]
    <3> HIDE DEF off
    <3> QED BY <1>2 DEF UnsetWriteIp
  <2> HIDE DEF dropped, off
  <2>2. dropped \in State => [dropped EXCEPT !.count["DP"] = @ + off.dpr[f].inq["DP"],
                        !.ext_queue = IF off.dpr[f].alt THEN @ \ {f} ELSE @, !.dpr[f].alt = FALSE] =
        [dropped EXCEPT !.count["DP"] = c, !.ext_queue = E, !.dpr[f].alt = FALSE]
    OBVIOUS
  <2> QED BY <2>1
<1>3. d0 \in Dpr /\ ~d0.write_ip /\ d0.on = st.dpr[f].on /\ d0.reqs = st.dpr[f].reqs /\ d0.file_size = st.dpr[f].file_size
      /\ d0.write_error = st.dpr[f].write_error /\ d0.alt = st.dpr[f].alt /\ d0.inq = st.dpr[f].inq
  BY <1>1 DEF Dpr
<1> HIDE DEF d0
<1>4. DprIs(st, off, f, d0)
  BY <1>1, <1>3, SetDprOK
<1> HIDE DEF off
<1>5. off \in State /\ off.dpr[f] = d0 /\ OthersSame(st, off, f) /\ SameRest(st, off) /\ off.queue = st.queue /\ off.count = st.count
  BY <1>4 DEF DprIs
<1>6. Unlisted(off, dropped, f)
  <2>1. CASE off.dpr[f].inq["IP"] > 0
    BY <1>5, <2>1, UnlistOK
  <2>2. CASE ~(off.dpr[f].inq["IP"] > 0)
    <3>1. dropped = off /\ off.dpr[f].inq["IP"] = 0
      BY <1>1, <1>3, <1>5, <2>2
    <3>2. NumIn(off.dpr[f].reqs, {"IP"}) = 0
      BY <1>1, <1>3, <1>5, <3>1 DEF FileOK, Listed
    <3>3. \A k \in DOMAIN off.dpr[f].reqs : off.dpr[f].reqs[k].state \notin {"IP"}
      BY <1>1, <1>3, <1>5, <3>2, NumInZero
    <3>4. Purged(off.dpr[f].reqs, Len(off.dpr[f].reqs), off.dpr[f].reqs, {"IP"})
      BY <1>1, <1>3, <1>5, <3>3, PurgedNone
    <3>5. f \notin off.queue["IP"] /\ off.count["IP"] \in Int
      BY <1>1, <1>3, <1>5, <3>1 DEF Books
    <3> QED BY <1>5, <3>1, <3>4, <3>5 DEF Unlisted, OthersSame, SameData, FlagsSame
  <2> QED BY <2>1, <2>2
<1> HIDE DEF dropped
<1>7. dropped \in State /\ OthersSame(off, dropped, f) /\ SameData(off, dropped) /\ FlagsSame(off.dpr[f], dropped.dpr[f])
    /\ Purged(d0.reqs, Len(d0.reqs), dropped.dpr[f].reqs, {"IP"})
    /\ (\A q \in DataStates : dropped.dpr[f].inq[q] = d0.inq[q] /\ dropped.queue[q] = st.queue[q] /\ dropped.count[q] = st.count[q])
    /\ dropped.dpr[f].inq["IP"] = 0 /\ dropped.queue["IP"] = st.queue["IP"] \ {f}
    /\ dropped.count["IP"] = st.count["IP"] - d0.inq["IP"]
  BY <1>5, <1>6 DEF Unlisted
<1>8. dropped.dpr[f] \in Dpr /\ dropped.dpr \in [Files -> Dpr] /\ dropped.count \in [Queues -> Int] /\ dropped.ext_queue \in SUBSET Files
      /\ dropped.dpr[f].inq \in [Queues -> Nat]
  BY <1>7, StateFields, ReqsOf
<1>9. [dropped EXCEPT !.count["DP"] = c, !.ext_queue = E, !.dpr[f].alt = FALSE] = st2
  <2> HIDE DEF c, E
  <2> QED BY <1>7, <1>8 DEF SetAll, State, Dpr
<1>10. E \in SUBSET Files /\ c \in Int
  <2>1. dropped.count["DP"] \in Int /\ off.dpr[f].inq["DP"] \in Int
    BY <1>1, <1>3, <1>5, <1>8
  <2>2. c \in Int
    BY <2>1
  <2>3. E \in SUBSET Files
    BY <1>8
  <2> QED BY <2>2, <2>3
<1>11. E = (IF st.dpr[f].alt THEN st.ext_queue \ {f} ELSE st.ext_queue) /\ c = st.count["DP"] + st.dpr[f].inq["DP"]
  BY <1>3, <1>5, <1>7 DEF SameData, SameRest, DataStates
<1>12. d \in Dpr /\ ~d.alt /\ d.on = st.dpr[f].on /\ d.reqs = dropped.dpr[f].reqs /\ d.file_size = st.dpr[f].file_size
      /\ d.write_error = st.dpr[f].write_error /\ ~d.write_ip /\ d.inq = dropped.dpr[f].inq
  <2>1. d \in Dpr /\ ~d.alt /\ d.on = dropped.dpr[f].on /\ d.reqs = dropped.dpr[f].reqs /\ d.file_size = dropped.dpr[f].file_size
      /\ d.write_error = dropped.dpr[f].write_error /\ d.write_ip = dropped.dpr[f].write_ip /\ d.inq = dropped.dpr[f].inq
    BY <1>8 DEF Dpr
  <2> HIDE DEF d
  <2> QED BY <1>3, <1>5, <1>7, <2>1 DEF FlagsSame
<1> HIDE DEF d, E, c
<1>13. AllSet(dropped, st2, f, d, E, c)
  BY <1>7, <1>10, <1>12, SetAllOK
<1> HIDE DEF st2
<1>14. st2 \in State /\ st2.dpr[f] = d /\ OthersSame(st, st2, f) /\ st2.ext_queue = E /\ st2.queue = dropped.queue
      /\ st2.count["DP"] = c /\ (\A q \in Queues \ {"DP"} : st2.count[q] = dropped.count[q])
      /\ st2.tape = st.tape /\ st2.size = st.size /\ DriveSame(st, st2) /\ st2.written = st.written
  BY <1>5, <1>7, <1>13 DEF AllSet, OthersSame, SameData, SameRest, DriveSame
<1>15. Books(st2)
  <2>1. \A q \in Queues : q = "IP" \/ q \in DataStates
    BY DEF Queues, DataStates
  <2>2. ASSUME NEW q \in Queues PROVE f \in st2.queue[q] <=> st2.dpr[f].inq[q] > 0
    <3>1. CASE q = "IP"
      BY <1>7, <1>12, <1>14, <3>1
    <3>2. CASE q \in DataStates
      BY <1>1, <1>3, <1>7, <1>12, <1>14, <3>2, SMTT(20) DEF Books
    <3> QED BY <2>1, <3>1, <3>2
  <2>3. ASSUME NEW q \in Queues PROVE st2.count[q] = st.count[q] - Weight(st, q, f) + Weight(st2, q, f)
    <3>1. st.count[q] \in Int /\ st.dpr[f].inq[q] \in Nat
      BY <1>1
    <3>2. CASE q = "DP"
      <4>1. Weight(st, q, f) = 0 /\ Weight(st2, q, f) = st.dpr[f].inq["DP"]
        BY <1>3, <1>7, <1>12, <1>14, <3>2 DEF Weight, Counted, DataStates
      <4> QED BY <1>11, <1>14, <3>1, <3>2, <4>1
    <3>3. CASE q = "PARTIAL"
      <4>1. Weight(st, q, f) = st.dpr[f].inq[q] /\ Weight(st2, q, f) = st.dpr[f].inq[q]
        BY <1>3, <1>7, <1>12, <1>14, <3>3 DEF Weight, Counted, DataStates
      <4>2. st2.count[q] = st.count[q]
        BY <1>7, <1>14, <3>3 DEF DataStates
      <4> QED BY <3>1, <4>1, <4>2
    <3>4. CASE q = "IP"
      <4>1. Weight(st, q, f) = st.dpr[f].inq[q] /\ Weight(st2, q, f) = 0
        BY <1>3, <1>7, <1>12, <1>14, <3>4 DEF Weight, Counted
      <4>2. st2.count[q] = st.count[q] - st.dpr[f].inq[q]
        BY <1>3, <1>7, <1>14, <3>4
      <4> QED BY <3>1, <4>1, <4>2
    <3> QED BY <3>2, <3>3, <3>4 DEF Queues
  <2>4. \A g \in Files \ {f} : st2.dpr[g] = st.dpr[g] /\ \A q \in Queues : g \in st2.queue[q] <=> g \in st.queue[q]
    BY <1>7, <1>14, <2>1 DEF OthersSame
  <2> QED BY <1>1, <1>14, <2>2, <2>3, <2>4, BooksStep
<1>16. d.reqs \in Seq(Req) /\ (\A q \in Queues : NumIn(d.reqs, {q}) = IF q \in {"IP"} THEN 0 ELSE NumIn(st.dpr[f].reqs, {q}))
  <2>1. Purged(st.dpr[f].reqs, Len(st.dpr[f].reqs), d.reqs, {"IP"})
    BY <1>3, <1>7, <1>12
  <2> DEFINE P == {"IP"}
  <2> HIDE DEF P
  <2>2. d.reqs \in Seq(Req) /\ (\A q \in Queues : NumIn(d.reqs, {q}) = IF q \in P THEN 0 ELSE NumIn(st.dpr[f].reqs, {q}))
    <3>1. Purged(st.dpr[f].reqs, Len(st.dpr[f].reqs), d.reqs, P)
      BY <2>1 DEF P
    <3> QED BY <1>1, <3>1, ListedPurged
  <2> QED BY <2>2 DEF P
<1>17. /\ \A k \in DOMAIN d.reqs : d.reqs[k].state # "IP" /\ \E j \in DOMAIN st.dpr[f].reqs : d.reqs[k] = st.dpr[f].reqs[j]
       /\ \A j \in DOMAIN st.dpr[f].reqs : st.dpr[f].reqs[j].state # "IP" => \E k \in DOMAIN d.reqs : d.reqs[k] = st.dpr[f].reqs[j]
  <2>1. DOMAIN st.dpr[f].reqs = 1..Len(st.dpr[f].reqs)
    BY <1>1
  <2> QED BY <1>3, <1>7, <1>12, <2>1, SMTT(20) DEF Purged, Thinned
<1>18. FileOK(d, st.tape[f])
  <2>1. Listed(d)
    <3>1. SUFFICES ASSUME NEW q \in Queues PROVE d.inq[q] = NumIn(d.reqs, {q})
      BY DEF Listed
    <3>2. CASE q = "IP"
      BY <1>7, <1>12, <1>16, <3>2
    <3>3. CASE q \in DataStates
      <4>1. d.inq[q] = st.dpr[f].inq[q] /\ q # "IP"
        BY <1>3, <1>7, <1>12, <3>3 DEF DataStates
      <4> QED BY <1>1, <1>16, <4>1 DEF FileOK, Listed
    <3> QED BY <3>2, <3>3 DEF Queues, DataStates
  <2>2. IpSaved(d, st.tape[f]) /\ NoIp(d)
    BY <1>12, <1>17 DEF IpSaved, NoIp
  <2>3. Sized(d)
    BY <1>1, <1>12, <1>17 DEF FileOK, Sized
  <2>4. NoFaults => d.write_error = "ok"
    BY <1>1, <1>12 DEF FileOK
  <2> QED BY <1>12, <2>1, <2>2, <2>3, <2>4 DEF FileOK
<1>19. Drive(st2)
  BY <1>1, <1>14, DriveKept
<1>21. FileStep(st, st2, f)
  <2>1. \A g \in Files \ {f} : g \in st2.ext_queue <=> g \in st.ext_queue
    BY <1>11, <1>14
  <2> QED BY <1>14, <1>15, <1>18, <1>19, <2>1 DEF FileStep
<1>22. Held(st2, f) = Held(st, f)
  <2>1. Ids(d.reqs) \subseteq Ids(st.dpr[f].reqs)
    BY <1>1, <1>16, <1>17, IdsIn
  <2>2. Ids(st.dpr[f].reqs) \subseteq st.tape[f] \cup Ids(d.reqs)
    <3>1. \A i \in DOMAIN st.dpr[f].reqs : st.dpr[f].reqs[i].state = "IP" => st.dpr[f].reqs[i].ids \subseteq st.tape[f]
      BY <1>1 DEF FileOK, IpSaved
    <3> DEFINE T == st.tape[f]
    <3>2. st.dpr[f].reqs \in Seq(Req) /\ d.reqs \in Seq(Req)
      BY <1>1, <1>16
    <3>3. \A j \in DOMAIN st.dpr[f].reqs : st.dpr[f].reqs[j].state # "IP" => \E k \in DOMAIN d.reqs : d.reqs[k] = st.dpr[f].reqs[j]
      BY <1>17
    <3> HIDE DEF T
    <3>4. \A i \in DOMAIN st.dpr[f].reqs : st.dpr[f].reqs[i].state = "IP" => st.dpr[f].reqs[i].ids \subseteq T
      BY <3>1 DEF T
    <3>5. Ids(st.dpr[f].reqs) \subseteq T \cup Ids(d.reqs)
      BY <3>2, <3>3, <3>4, HeldThinned
    <3> QED BY <3>5 DEF T
  <2> QED BY <1>14, <2>1, <2>2 DEF Held
<1>23. (f \in st.ext_queue <=> st.dpr[f].alt) => (f \in st2.ext_queue <=> st2.dpr[f].alt)
  BY <1>11, <1>12, <1>14
<1>25. st.dpr[f].reqs = <<>> => d.reqs = <<>>
  <2>1. d.reqs \in Seq(Req) /\ st.dpr[f].reqs \in Seq(Req)
    BY <1>1, <1>16
  <2>2. DOMAIN st.dpr[f].reqs = {} => DOMAIN d.reqs = {}
    BY <1>17
  <2> HIDE DEF d
  <2>3. Len(st.dpr[f].reqs) = 0 => Len(d.reqs) = 0
    BY <2>1, <2>2
  <2> QED BY <2>1, <2>3
<1>24. Settled(st, st2, f)
  BY <1>12, <1>14, <1>16, <1>21, <1>22, <1>23, <1>25 DEF Settled
<1> QED BY <1>9, <1>20, <1>24

\* The placement rule, whichever way it decides.
LEMMA UpdatePlacementOK ==
    ASSUME NEW st, NEW f \in Files, Sound(st), st.dpr[f].on
    PROVE  Settled(st, UpdatePlacement(st, f), f)
<1> DEFINE d == st.dpr[f]
           fits == d.file_size <= MaxIpSize /\ dentry[f].matches /\ dentry[f].linked
<1>1. UpdatePlacement(st, f) = CASE ~d.write_ip /\ MaxIpSize > 0 /\ fits -> SetWriteIp(st, f)
          [] d.write_ip /\ ~fits -> UnsetWriteIp(st, f)
          [] OTHER -> st
  BY DEF UpdatePlacement
<1>2. ~d.write_ip /\ MaxIpSize > 0 => Settled(st, SetWriteIp(st, f), f)
  BY SetWriteIpOK
<1>3. d.write_ip => Settled(st, UnsetWriteIp(st, f), f)
  BY UnsetWriteIpOK
<1>4. Settled(st, st, f)
  BY SettledSame
<1> HIDE DEF fits, d
<1> QED BY <1>1, <1>2, <1>3, <1>4
=============================================================================
