-------------------------- MODULE IndexCommitSteps --------------------------
(* The inductive invariant of IndexCommit, and that writing files and indexes,
   syncing, failing and unmounting keep it. IndexCommitProofs goes on with
   mounting and states the theorems.

   The argument: best, the index that a full check of the tape would pick, is
   at all times the last index of the data partition or the one of the index
   partition that names it and ends that partition (Sound, Newest). A write
   lands at the append position, and every block of best, of the tree in memory
   and of the scheduler is below it (Below, Ready), so a write cuts off no
   file; it can cut off an index only on the index partition, which is written
   only when the newest index is on the data partition (Order). So a write is
   either invisible to the check or is a whole index with the tree in memory,
   of a generation that is not older (Memory), which the check then chooses.
   The dirty flag of the index, the two end flags and the coherency attributes are
   true statements about the tape at every moment they are relied on (Clean,
   Ends, MamTrue), and what ltfs_check_medium has found stays true until it is
   used (Found).

   ltfsck without lost-and-found ("erase") is left out: it may cut a partition
   below blocks that the chosen index refers to. *)
EXTENDS IndexCommit, SequenceTheorems, WellFoundedInduction, TLAPS

-----------------------------------------------------------------------------
(* The two partitions of IndexCommit as the proofs see them: which block holds
   what after a write, which index ltfs_seek_index finds on a partition and
   which one _ltfs_check_pointers chooses, and that every write ltfs makes
   leaves that choice alone or is the choice. *)

Tapes == [Parts -> Seq(Records)]

\* Writing rec at block a of p cuts off what was there.
Cut(t, p, a, rec) == [t EXCEPT ![p] = Append(SubSeq(@, 1, a - Label - 1), rec)]

IndexAt(t, p, b) == At(t, p, b) \in Documents
LastIndex(t, p, b) == IndexAt(t, p, b) /\ \A c \in Nat : IndexAt(t, p, c) => c <= b
Closed(t, p, b) == Eod(t, p) = b + 2 /\ At(t, p, b + 1) = Fm

\* A back pointer names an index of the data partition, an earlier one if it
\* is on that partition itself; the first index there may have none.
BackTrue(t, p, b, back) ==
    \/ p = "dp" /\ back = NoPtr
    \/ back.p = "dp" /\ IndexAt(t, "dp", back.b) /\ (p = "dp" => back.b < b - 2)
\* Every index stands behind a file mark and knows where it is.
IndexesTrue(t) ==
    \A p \in Parts : \A b \in Nat : IndexAt(t, p, b) =>
        /\ b > 4 /\ At(t, p, b - 1) = Fm /\ At(t, p, b).self = [p |-> p, b |-> b]
        /\ BackTrue(t, p, b, At(t, p, b).back)

\* The index at x of the index partition belongs to the one at y of the data
\* partition.
Leads(t, x, y) == IndexAt(t, "ip", x) /\ At(t, "ip", x).back.b = y
\* r is the last index of the data partition, or the one of the index
\* partition that belongs to it and then ends that partition.
Newest(t, r) ==
    \E y \in Nat :
        /\ LastIndex(t, "dp", y)
        /\ \/ r = At(t, "dp", y) /\ \A x \in Nat : ~ Leads(t, x, y)
           \/ \E x \in Nat :
                 /\ Leads(t, x, y) /\ LastIndex(t, "ip", x) /\ r = At(t, "ip", x)
                 /\ r.gen >= At(t, "dp", y).gen
                 /\ Eod(t, "ip") = x + 1 \/ Closed(t, "ip", x)
\* No index is of a later generation than r, and one of the same has its tree.
Gens(t, r) ==
    \A p \in Parts : \A b \in Nat : IndexAt(t, p, b) =>
        /\ At(t, p, b).gen <= r.gen
        /\ At(t, p, b).gen = r.gen => At(t, p, b).tree = r.tree
Sound(t, r) == IndexesTrue(t) /\ Newest(t, r) /\ Gens(t, r)

---------------------------------------------------------------------------
(* Blocks *)

(* What is in the records: their kinds tell them apart. *)
LEMMA Kinds ==
    /\ Fm \in Records /\ Torn \in Records /\ Fm \notin Documents /\ Torn \notin Documents /\ Fm # Torn
    /\ \A r \in Blocks : r \in Records /\ r \notin Documents /\ r # Fm
    /\ \A r \in Records : r.k = "index" <=> r \in Documents
    /\ None \notin Records
<1>1. \A r \in Documents : r.k = "index"
  BY DEF Documents
<1>2. \A r \in Blocks : r.k \in {"torn", "data"}
  BY DEF Blocks, Torn
<1>3. Fm.k = "fm" /\ Torn.k = "torn"
  BY DEF Fm, Torn
<1>4. Torn \in Blocks
  BY DEF Blocks
<1> QED
  BY <1>1, <1>2, <1>3, <1>4, NoneAssumption DEF Records

(* A block number names a record up to the end of data, and nothing beyond. *)
LEMMA AtTyped ==
    ASSUME NEW t \in Tapes, NEW p \in Parts
    PROVE  /\ Eod(t, p) \in Nat /\ Eod(t, p) >= 4
           /\ \A b \in Nat : b \in 4 .. Eod(t, p) - 1 => At(t, p, b) \in Records
           /\ \A b \in Nat : b \notin 4 .. Eod(t, p) - 1 => At(t, p, b) = None
<1>1. t[p] \in Seq(Records)
  BY DEF Tapes
<1>2. Len(t[p]) \in Nat /\ DOMAIN t[p] = 1 .. Len(t[p]) /\ \A i \in 1 .. Len(t[p]) : t[p][i] \in Records
  BY <1>1
<1> QED
  BY <1>2 DEF Eod, At, Label

(* A write at a: below it nothing changes, and it is the end of data. *)
LEMMA CutBlocks ==
    ASSUME NEW t \in Tapes, NEW p \in Parts, NEW a \in 4 .. Eod(t, p), NEW rec \in Records
    PROVE  LET u == Cut(t, p, a, rec) IN
           /\ u \in Tapes
           /\ Eod(u, p) = a + 1
           /\ At(u, p, a) = rec
           /\ \A b \in Nat : b < a => At(u, p, b) = At(t, p, b)
           /\ \A b \in Nat : b > a => At(u, p, b) = None
           /\ \A q \in Parts : q # p => Eod(u, q) = Eod(t, q) /\ \A b \in Nat : At(u, q, b) = At(t, q, b)
<1> DEFINE s == t[p]
           n == a - Label - 1
           w == SubSeq(s, 1, n)
           u == Cut(t, p, a, rec)
<1>1. s \in Seq(Records) /\ Len(s) \in Nat /\ DOMAIN s = 1 .. Len(s)
  BY DEF Tapes
<1>2. a \in Nat /\ n \in 0 .. Len(s) /\ n = a - 4
  BY <1>1, AtTyped DEF Eod, Label
<1>3. w \in Seq(Records) /\ Len(w) = n /\ \A i \in 1 .. n : w[i] = s[i]
  BY <1>1, <1>2
<1>4. u = [t EXCEPT ![p] = Append(w, rec)]
  BY DEF Cut
<1>5. u[p] = Append(w, rec) /\ \A q \in Parts : q # p => u[q] = t[q]
  BY <1>4 DEF Tapes
<1> HIDE DEF w, u, n
<1>6. Append(w, rec) \in Seq(Records) /\ Len(Append(w, rec)) = n + 1 /\ Append(w, rec)[n + 1] = rec
      /\ DOMAIN Append(w, rec) = 1 .. n + 1
      /\ \A i \in 1 .. n : Append(w, rec)[i] = s[i]
  BY <1>2, <1>3
<1>7. u \in Tapes
  BY <1>4, <1>6 DEF Tapes
<1>8. Len(u[p]) = n + 1 /\ DOMAIN u[p] = 1 .. n + 1 /\ u[p][n + 1] = rec
      /\ \A i \in 1 .. n : u[p][i] = s[i]
  BY <1>5, <1>6
<1>9. \A b \in Nat : b < a => At(u, p, b) = At(t, p, b)
  <2> SUFFICES ASSUME NEW b \in Nat, b < a PROVE At(u, p, b) = At(t, p, b)
    OBVIOUS
  <2>1. CASE b - 3 \in 1 .. n
    BY <2>1, <1>1, <1>2, <1>8 DEF At, Label
  <2>2. CASE b - 3 \notin 1 .. n
    <3>1. b - 3 < 1
      BY <2>2, <1>2
    <3> QED
      BY <3>1, <1>1, <1>2, <1>8 DEF At, Label
  <2> QED
    BY <2>1, <2>2
<1>10. Eod(u, p) = a + 1 /\ At(u, p, a) = rec
  BY <1>2, <1>8 DEF At, Eod, Label
<1>11. \A b \in Nat : b > a => At(u, p, b) = None
  BY <1>2, <1>8 DEF At, Label
<1>12. \A q \in Parts : q # p => Eod(u, q) = Eod(t, q) /\ \A b \in Nat : At(u, q, b) = At(t, q, b)
  BY <1>5 DEF Eod, At
<1> QED
  BY <1>7, <1>9, <1>10, <1>11, <1>12 DEF u

(* The largest member of a set of numbers. *)
LEMMA MaxIs ==
    ASSUME NEW S \in SUBSET Nat, NEW m \in S, \A n \in S : n <= m
    PROVE  Max(S) = m
<1>1. \A n \in S : m >= n
  OBVIOUS
<1>2. \A x \in S : (\A n \in S : x >= n) => x = m
  OBVIOUS
<1> QED
  BY <1>1, <1>2 DEF Max

(* Where an index can be, and what is in it. *)
LEMMA IndexRange ==
    ASSUME NEW t \in Tapes, NEW p \in Parts, NEW b \in Nat, IndexAt(t, p, b)
    PROVE  /\ b \in 4 .. Eod(t, p) - 1 /\ At(t, p, b) # None /\ At(t, p, b) # Fm
           /\ At(t, p, b).gen \in Nat /\ At(t, p, b).tree \in Trees
           /\ At(t, p, b).self \in Ptrs /\ At(t, p, b).back \in Ptrs /\ At(t, p, b).back.b \in Nat
<1>1. At(t, p, b) \in Documents /\ At(t, p, b) # None /\ At(t, p, b) # Fm
  BY Kinds DEF IndexAt, Records
<1>2. b \in 4 .. Eod(t, p) - 1
  BY <1>1, AtTyped
<1> QED
  BY <1>1, <1>2 DEF Documents, Ptrs

---------------------------------------------------------------------------
(* What a full check of the medium finds *)

(* An index can only be read where there is one, and then it can. *)
LEMMA ReadsIndexes ==
    ASSUME NEW t \in Tapes, IndexesTrue(t), NEW p \in Parts, NEW b \in Nat
    PROVE  ReadIndex(t, p, b) <=> IndexAt(t, p, b)
<1>1. ReadIndex(t, p, b) => IndexAt(t, p, b)
  BY AtTyped, Kinds DEF ReadIndex, IndexAt
<1>2. ASSUME IndexAt(t, p, b) PROVE ReadIndex(t, p, b)
  <2> DEFINE r == At(t, p, b)
  <2>1. r # None /\ r.k = "index" /\ r \in Documents
    BY <1>2, Kinds DEF IndexAt, Records
  <2>2. r.self = [p |-> p, b |-> b] /\ b > 4 /\ BackTrue(t, p, b, r.back) /\ r.back.b \in Nat
    BY <1>2, <2>1 DEF IndexesTrue, Documents, Ptrs
  <2>3. r.back = NoPtr => r.back.p = "none"
    BY DEF NoPtr
  <2>4. r.back # NoPtr => r.back.p = "dp" /\ r.back.b >= 5 /\ (p = "dp" => r.back.b < b - 2)
    <3>1. "dp" \in Parts
      BY DEF Parts
    <3>2. \A c \in Nat : IndexAt(t, "dp", c) => c > 4
      BY <3>1 DEF IndexesTrue
    <3> HIDE DEF r
    <3> QED
      BY <2>2, <3>2 DEF BackTrue
  <2>5. r.back.p \in {"none", "dp"} /\ (r.back.p = "none" \/ r.back.b >= 5)
        /\ ~ (r.back.p = p /\ b # 5 /\ r.back.b # b /\ r.back.b >= b - 2)
    BY <2>2, <2>3, <2>4 DEF Parts
  <2> HIDE DEF r
  <2> QED
    BY <2>1, <2>2, <2>5 DEF ReadIndex, r
<1> QED
  BY <1>1, <1>2

(* ltfs_seek_index finds the last index of a partition. *)
LEMMA SeekFinds ==
    ASSUME NEW t \in Tapes, IndexesTrue(t), NEW p \in Parts, NEW b \in Nat, LastIndex(t, p, b)
    PROVE  LET f == SeekIndex(t, p)
               fm == At(t, p, b + 1) = Fm
               end == IF fm THEN b + 2 ELSE b + 1 IN
           f = [have |-> TRUE, idx |-> At(t, p, b), eod |-> Eod(t, p), end |-> end,
                fm |-> fm, after |-> end # Eod(t, p)]
<1> DEFINE fms == {c \in Label .. Eod(t, p) : IsFm(t, p, c)}
           good == {c \in Candidates(t, p) \ {Label} : ReadIndex(t, p, c + 1)}
<1>1. Eod(t, p) \in Nat /\ Eod(t, p) >= 4
  BY AtTyped
<1>2. b > 4 /\ At(t, p, b - 1) = Fm /\ b <= Eod(t, p) - 1
  <2>1. IndexAt(t, p, b)
    BY DEF LastIndex
  <2>2. b \in 4 .. Eod(t, p) - 1
    BY <2>1, IndexRange
  <2>3. b > 4 /\ At(t, p, b - 1) = Fm
    BY <2>1 DEF IndexesTrue
  <2> QED
    BY <1>1, <2>2, <2>3
<1>3. Candidates(t, p) \subseteq Label .. Eod(t, p)
  BY DEF Candidates
<1>4. b - 1 \in Candidates(t, p)
  BY <1>1, <1>2 DEF Candidates, IsFm, Label
<1>5. b - 1 \in good
  <2>1. b - 1 + 1 = b /\ b - 1 # Label
    BY <1>2 DEF Label
  <2> QED
    BY <1>4, <2>1, ReadsIndexes DEF LastIndex
<1>6. \A c \in good : c <= b - 1
  <2> SUFFICES ASSUME NEW c \in good PROVE c <= b - 1
    OBVIOUS
  <2>1. c \in Nat /\ c + 1 \in Nat /\ ReadIndex(t, p, c + 1)
    BY <1>1, <1>3 DEF Label
  <2>2. IndexAt(t, p, c + 1)
    BY <2>1, ReadsIndexes
  <2> QED
    BY <2>1, <2>2 DEF LastIndex
<1>7. good \in SUBSET Nat
  BY <1>1, <1>3 DEF Label
<1> HIDE DEF good
<1>8. Max(good) = b - 1 /\ good # {}
  BY <1>5, <1>6, <1>7, MaxIs
<1>9. Max(good) + 1 = b
  BY <1>8
<1> QED
  BY <1>8, <1>9 DEF SeekIndex, good

(* On a partition without an index it finds none. *)
LEMMA SeekNothing ==
    ASSUME NEW t \in Tapes, IndexesTrue(t), NEW p \in Parts, \A b \in Nat : ~ IndexAt(t, p, b)
    PROVE  SeekIndex(t, p) = [have |-> FALSE, idx |-> None, eod |-> Eod(t, p), end |-> 0,
                              fm |-> FALSE, after |-> FALSE]
<1> DEFINE good == {c \in Candidates(t, p) \ {Label} : ReadIndex(t, p, c + 1)}
<1>1. Candidates(t, p) \subseteq Nat
  BY AtTyped DEF Candidates, Label
<1>2. good = {}
  BY <1>1, ReadsIndexes
<1> QED
  BY <1>2 DEF SeekIndex

(* A partition has a last index or none. *)
LEMMA LastOrNone ==
    ASSUME NEW t \in Tapes, NEW p \in Parts
    PROVE  (\E b \in Nat : LastIndex(t, p, b)) \/ (\A b \in Nat : ~ IndexAt(t, p, b))
<1> SUFFICES ASSUME NEW b0 \in Nat, IndexAt(t, p, b0) PROVE \E b \in Nat : LastIndex(t, p, b)
  OBVIOUS
<1> DEFINE e == Eod(t, p)
           T == {n \in Nat : IndexAt(t, p, e - n) /\ e - n \in Nat}
<1>1. e \in Nat /\ \A b \in Nat : IndexAt(t, p, b) => b <= e
  BY AtTyped, IndexRange
<1>2. e - b0 \in Nat /\ e - (e - b0) = b0
  BY <1>1
<1>3. e - b0 \in T
  BY <1>2
<1>4. T \subseteq Nat /\ T # {}
  BY <1>3
<1> HIDE DEF T, e
<1>5. PICK m \in T : \A n \in T : ~(<<n, m>> \in OpToRel(<, Nat))
  BY <1>4, NatLessThanWellFounded, WFMin, Zenon
<1>6. \A n \in T : m <= n
  <2> SUFFICES ASSUME NEW n \in T, n < m PROVE FALSE
    BY <1>4
  <2>1. <<n, m>> \in Nat \X Nat /\ <<n, m>>[1] = n /\ <<n, m>>[2] = m
    BY <1>4
  <2>2. <<n, m>> \in {ss \in Nat \X Nat : ss[1] < ss[2]}
    BY <2>1
  <2> QED
    BY <2>2, <1>5 DEF OpToRel
<1>7. m \in Nat /\ e - m \in Nat /\ IndexAt(t, p, e - m)
  BY <1>4 DEF T
<1>8. \A c \in Nat : IndexAt(t, p, c) => c <= e - m
  <2> SUFFICES ASSUME NEW c \in Nat, IndexAt(t, p, c) PROVE c <= e - m
    OBVIOUS
  <2>1. e - c \in Nat /\ e - (e - c) = c
    BY <1>1
  <2>2. e - c \in T
    BY <2>1 DEF T
  <2> QED
    BY <1>1, <1>6, <1>7, <2>2
<1> QED
  BY <1>7, <1>8 DEF LastIndex

---------------------------------------------------------------------------
(* The choice *)

(* The two indexes a full check has found, and the one it takes. *)
LEMMA PickedIs ==
    ASSUME NEW t \in Tapes, NEW r, Sound(t, r)
    PROVE  LET ip == SeekIndex(t, "ip").idx
               dp == SeekIndex(t, "dp").idx
               pick == CheckPointers(t, ip, dp) IN
           /\ Picked(t) = r
           /\ pick \in Parts /\ r = SeekIndex(t, pick).idx /\ r.self.p = pick
           /\ r \in Documents
           /\ pick = "ip" => \E x \in Nat :
                 LastIndex(t, "ip", x) /\ (Eod(t, "ip") = x + 1 \/ Closed(t, "ip", x))
<1> DEFINE ip == SeekIndex(t, "ip").idx
           dp == SeekIndex(t, "dp").idx
<1>1. IndexesTrue(t) /\ Gens(t, r) /\ "ip" \in Parts /\ "dp" \in Parts /\ "ip" # "dp"
  BY DEF Sound, Parts
<1>2. PICK y \in Nat :
        /\ LastIndex(t, "dp", y)
        /\ \/ r = At(t, "dp", y) /\ \A x \in Nat : ~ Leads(t, x, y)
           \/ \E x \in Nat :
                 /\ Leads(t, x, y) /\ LastIndex(t, "ip", x) /\ r = At(t, "ip", x)
                 /\ r.gen >= At(t, "dp", y).gen
                 /\ Eod(t, "ip") = x + 1 \/ Closed(t, "ip", x)
  BY DEF Sound, Newest
<1>3. dp = At(t, "dp", y) /\ IndexAt(t, "dp", y)
  BY <1>1, <1>2, SeekFinds DEF LastIndex
<1>4. dp # None /\ dp.self = [p |-> "dp", b |-> y] /\ dp \in Documents /\ dp.gen \in Nat
      /\ BackTrue(t, "dp", y, dp.back) /\ dp.back.b \in Nat
  BY <1>1, <1>3, IndexRange DEF IndexesTrue, IndexAt
<1>5. ASSUME NEW x \in Nat, LastIndex(t, "ip", x)
      PROVE  /\ ip = At(t, "ip", x) /\ ip # None /\ ip \in Documents /\ ip.gen \in Nat
             /\ ip.self = [p |-> "ip", b |-> x]
             /\ ip.back.p = "dp" /\ IndexAt(t, "dp", ip.back.b) /\ ip.back.b \in Nat
             /\ ip.back = [p |-> "dp", b |-> ip.back.b]
  <2>1. ip = At(t, "ip", x) /\ IndexAt(t, "ip", x)
    BY <1>1, <1>5, SeekFinds DEF LastIndex
  <2>2. ip.back \in Ptrs
    BY <1>1, <2>1, IndexRange
  <2>3. ip.back = [p |-> ip.back.p, b |-> ip.back.b]
    BY <2>2 DEF Ptrs
  <2>4. BackTrue(t, "ip", x, ip.back)
    BY <1>1, <2>1 DEF IndexesTrue
  <2>5. ip.back.p = "dp" /\ IndexAt(t, "dp", ip.back.b)
    BY <1>1, <2>4 DEF BackTrue
  <2>6. ip # None /\ ip \in Documents /\ ip.gen \in Nat /\ ip.back.b \in Nat
        /\ ip.self = [p |-> "ip", b |-> x]
    BY <1>1, <2>1, IndexRange DEF IndexesTrue, IndexAt
  <2> HIDE DEF ip
  <2> QED
    BY <2>1, <2>3, <2>5, <2>6
<1> HIDE DEF ip, dp
<1>6. CASE \E x \in Nat :
                 /\ Leads(t, x, y) /\ LastIndex(t, "ip", x) /\ r = At(t, "ip", x)
                 /\ r.gen >= At(t, "dp", y).gen
                 /\ Eod(t, "ip") = x + 1 \/ Closed(t, "ip", x)
  <2>1. PICK x \in Nat :
                 /\ Leads(t, x, y) /\ LastIndex(t, "ip", x) /\ r = At(t, "ip", x)
                 /\ r.gen >= At(t, "dp", y).gen
                 /\ Eod(t, "ip") = x + 1 \/ Closed(t, "ip", x)
    BY <1>6
  <2>2. ip = r /\ ip # None /\ ip.self = [p |-> "ip", b |-> x] /\ ip \in Documents
        /\ ip.back = [p |-> "dp", b |-> ip.back.b]
    BY <1>5, <2>1
  <2>3. ip.gen >= dp.gen /\ ip.back = dp.self
    BY <1>3, <1>4, <2>1, <2>2 DEF Leads
  <2>4. CheckPointers(t, ip, dp) = "ip"
    BY <1>4, <2>2, <2>3 DEF CheckPointers
  <2>5. Picked(t) = ip
    BY <1>1, <2>2, <2>4 DEF Picked, ip, dp
  <2>6. ip.self.p = "ip"
    BY <2>2
  <2> QED
    BY <1>1, <2>1, <2>2, <2>4, <2>5, <2>6 DEF ip, dp
<1>7. CASE r = At(t, "dp", y) /\ \A x \in Nat : ~ Leads(t, x, y)
  <2>1. CheckPointers(t, ip, dp) = "dp"
    <3>1. CASE \E x \in Nat : LastIndex(t, "ip", x)
      <4>1. PICK x \in Nat : LastIndex(t, "ip", x)
        BY <3>1
      <4>2. /\ ip = At(t, "ip", x) /\ ip # None /\ ip \in Documents /\ ip.gen \in Nat
            /\ ip.back.p = "dp" /\ IndexAt(t, "dp", ip.back.b) /\ ip.back.b \in Nat
            /\ IndexAt(t, "ip", x)
        BY <1>5, <4>1 DEF LastIndex
      <4>3. ip.back.b # y
        BY <1>7, <4>2 DEF Leads
      <4>4. ip.back # dp.self
        BY <1>4, <4>3
      <4>5. ip.gen <= dp.gen
        BY <1>1, <1>3, <1>7, <4>2 DEF Gens
      <4>6. ip.back # NoPtr
        BY <4>2 DEF NoPtr
      <4>7. dp.back.b > ip.back.b => ReadIndex(t, "dp", dp.back.b)
        <5>1. dp.back = NoPtr => dp.back.b = 0
          BY DEF NoPtr
        <5>2. dp.back.b > ip.back.b => IndexAt(t, "dp", dp.back.b)
          BY <1>4, <4>2, <5>1 DEF BackTrue
        <5> QED
          BY <1>1, <1>4, <5>2, ReadsIndexes
      <4> QED
        BY <1>4, <4>2, <4>4, <4>5, <4>6, <4>7 DEF CheckPointers
    <3>2. CASE \A x \in Nat : ~ IndexAt(t, "ip", x)
      <4>1. ip = None
        BY <1>1, <3>2, SeekNothing DEF ip
      <4> QED
        BY <4>1 DEF CheckPointers
    <3> QED
      BY <1>1, <3>1, <3>2, LastOrNone
  <2>2. Picked(t) = dp
    BY <1>1, <1>4, <2>1 DEF Picked, ip, dp
  <2>3. dp.self.p = "dp"
    BY <1>4
  <2> QED
    BY <1>1, <1>3, <1>4, <1>7, <2>1, <2>2, <2>3 DEF ip, dp
<1> QED
  BY <1>2, <1>6, <1>7

---------------------------------------------------------------------------
(* What a write does to the choice *)

(* The indexes behind a write: those below it, and the record if it is one. *)
LEMMA CutIndexes ==
    ASSUME NEW t \in Tapes, NEW p \in Parts, NEW a \in 4 .. Eod(t, p), NEW rec \in Records
    PROVE  LET u == Cut(t, p, a, rec) IN
           /\ \A b \in Nat : b < a => (IndexAt(u, p, b) <=> IndexAt(t, p, b))
           /\ \A b \in Nat : b > a => ~ IndexAt(u, p, b)
           /\ IndexAt(u, p, a) <=> rec \in Documents
           /\ \A q \in Parts : \A b \in Nat : q # p => (IndexAt(u, q, b) <=> IndexAt(t, q, b))
<1> DEFINE u == Cut(t, p, a, rec)
<1>1. /\ At(u, p, a) = rec
      /\ \A b \in Nat : b < a => At(u, p, b) = At(t, p, b)
      /\ \A b \in Nat : b > a => At(u, p, b) = None
      /\ \A q \in Parts : q # p => \A b \in Nat : At(u, q, b) = At(t, q, b)
  BY CutBlocks
<1>2. None \notin Documents
  BY Kinds DEF Records
<1> HIDE DEF u
<1> QED
  BY <1>1, <1>2 DEF IndexAt, u

(* Indexes stay true to themselves when no index of the data partition is cut
   off and what is written is no index or is true to itself. *)
LEMMA CutTrue ==
    ASSUME NEW t \in Tapes, IndexesTrue(t), NEW p \in Parts, NEW a \in 4 .. Eod(t, p), NEW rec \in Records,
           p = "dp" => \A b \in Nat : IndexAt(t, "dp", b) => b < a,
           rec \in Documents =>
              /\ a > 4 /\ At(t, p, a - 1) = Fm /\ rec.self = [p |-> p, b |-> a]
              /\ BackTrue(t, p, a, rec.back)
    PROVE  /\ IndexesTrue(Cut(t, p, a, rec))
           /\ \A b \in Nat : IndexAt(t, "dp", b) =>
                 IndexAt(Cut(t, p, a, rec), "dp", b) /\ At(Cut(t, p, a, rec), "dp", b) = At(t, "dp", b)
<1> DEFINE u == Cut(t, p, a, rec)
<1>1. /\ At(u, p, a) = rec
      /\ \A b \in Nat : b < a => At(u, p, b) = At(t, p, b)
      /\ \A q \in Parts : q # p => \A b \in Nat : At(u, q, b) = At(t, q, b)
  BY CutBlocks
<1>2. /\ \A b \in Nat : b < a => (IndexAt(u, p, b) <=> IndexAt(t, p, b))
      /\ \A b \in Nat : b > a => ~ IndexAt(u, p, b)
      /\ IndexAt(u, p, a) <=> rec \in Documents
      /\ \A q \in Parts : \A b \in Nat : q # p => (IndexAt(u, q, b) <=> IndexAt(t, q, b))
  BY CutIndexes
<1>3. a \in Nat
  BY AtTyped
<1> HIDE DEF u
<1>4. \A b \in Nat : IndexAt(t, "dp", b) => IndexAt(u, "dp", b) /\ At(u, "dp", b) = At(t, "dp", b)
  BY <1>1, <1>2 DEF Parts
<1>5. \A q \in Parts : \A b \in Nat : \A k \in Ptrs : BackTrue(t, q, b, k) => BackTrue(u, q, b, k)
  BY <1>4 DEF BackTrue, Ptrs
<1>6. ASSUME NEW q \in Parts, NEW b \in Nat, IndexAt(u, q, b)
      PROVE  /\ b > 4 /\ At(u, q, b - 1) = Fm /\ At(u, q, b).self = [p |-> q, b |-> b]
             /\ BackTrue(u, q, b, At(u, q, b).back)
  <2>1. CASE q = p /\ b = a
    <3>1. rec \in Documents
      BY <1>2, <1>6, <2>1
    <3>2. a > 4 /\ a - 1 \in Nat /\ a - 1 < a /\ rec.back \in Ptrs
      BY <1>3, <3>1 DEF Documents
    <3> QED
      BY <1>1, <1>5, <2>1, <3>1, <3>2
  <2>2. CASE q # p \/ b < a
    <3>1. IndexAt(t, q, b) /\ At(u, q, b) = At(t, q, b)
      BY <1>1, <1>2, <1>6, <2>2
    <3>2. b > 4 /\ At(t, q, b - 1) = Fm /\ At(t, q, b).self = [p |-> q, b |-> b]
          /\ BackTrue(t, q, b, At(t, q, b).back) /\ At(t, q, b).back \in Ptrs
      BY <3>1, IndexRange DEF IndexesTrue
    <3>3. b - 1 \in Nat /\ (b < a => b - 1 < a)
      BY <1>3, <3>2
    <3>4. At(u, q, b - 1) = At(t, q, b - 1)
      BY <1>1, <2>2, <3>3
    <3> QED
      BY <1>5, <3>1, <3>2, <3>4
  <2> QED
    BY <1>2, <1>3, <1>6, <2>1, <2>2
<1> QED
  BY <1>4, <1>6 DEF IndexesTrue, u

(* A record that is no index, written behind the last index of the data
   partition, leaves the choice alone. *)
LEMMA KeepDp ==
    ASSUME NEW t \in Tapes, NEW r, Sound(t, r), NEW a \in 4 .. Eod(t, "dp"),
           \A b \in Nat : IndexAt(t, "dp", b) => b < a,
           NEW rec \in Records, rec \notin Documents
    PROVE  Sound(Cut(t, "dp", a, rec), r)
<1> DEFINE u == Cut(t, "dp", a, rec)
<1>1. "dp" \in Parts /\ "ip" \in Parts /\ "ip" # "dp"
  BY DEF Parts
<1>2. IndexesTrue(u) /\ IndexesTrue(t)
  BY <1>1, CutTrue DEF Sound
<1>3. /\ \A b \in Nat : b < a => (IndexAt(u, "dp", b) <=> IndexAt(t, "dp", b)) /\ At(u, "dp", b) = At(t, "dp", b)
      /\ \A b \in Nat : b >= a => ~ IndexAt(u, "dp", b)
      /\ \A b \in Nat : (IndexAt(u, "ip", b) <=> IndexAt(t, "ip", b)) /\ At(u, "ip", b) = At(t, "ip", b)
      /\ Eod(u, "ip") = Eod(t, "ip") /\ a \in Nat
  <2>1. Eod(t, "dp") \in Nat
    BY <1>1, AtTyped
  <2>2. a \in Nat
    BY <2>1
  <2>3. /\ \A b \in Nat : b < a => (IndexAt(u, "dp", b) <=> IndexAt(t, "dp", b))
        /\ \A b \in Nat : b > a => ~ IndexAt(u, "dp", b)
        /\ ~ IndexAt(u, "dp", a)
        /\ \A b \in Nat : IndexAt(u, "ip", b) <=> IndexAt(t, "ip", b)
    BY <1>1, CutIndexes
  <2>4. /\ \A b \in Nat : b < a => At(u, "dp", b) = At(t, "dp", b)
        /\ Eod(u, "ip") = Eod(t, "ip") /\ \A b \in Nat : At(u, "ip", b) = At(t, "ip", b)
    BY <1>1, CutBlocks
  <2> HIDE DEF u
  <2> QED
    BY <2>2, <2>3, <2>4
<1> HIDE DEF u
<1>4. \A q \in Parts : \A b \in Nat :
        /\ IndexAt(u, q, b) <=> IndexAt(t, q, b)
        /\ IndexAt(u, q, b) => At(u, q, b) = At(t, q, b)
  BY <1>3 DEF Parts
<1>5. Gens(u, r)
  BY <1>4 DEF Gens, Sound
<1>6. \A b \in Nat : \A q \in Parts : LastIndex(t, q, b) <=> LastIndex(u, q, b)
  BY <1>4 DEF LastIndex
<1>7. \A x, y \in Nat : Leads(t, x, y) <=> Leads(u, x, y)
  BY <1>1, <1>4 DEF Leads
<1>8. \A b \in Nat : Closed(t, "ip", b) <=> Closed(u, "ip", b)
  BY <1>3 DEF Closed
<1>9. \A b \in Nat : \A q \in Parts : LastIndex(t, q, b) => At(u, q, b) = At(t, q, b)
  BY <1>4 DEF LastIndex
<1>10. Newest(u, r)
  BY <1>1, <1>3, <1>6, <1>7, <1>8, <1>9 DEF Newest, Sound
<1> QED
  BY <1>2, <1>5, <1>10 DEF Sound, u

(* While the newest index is on the data partition, the index partition may be
   cut anywhere. *)
LEMMA KeepIp ==
    ASSUME NEW t \in Tapes, NEW r, Sound(t, r), r.self.p = "dp", NEW a \in 4 .. Eod(t, "ip"),
           NEW rec \in Records, rec \notin Documents
    PROVE  Sound(Cut(t, "ip", a, rec), r)
<1> DEFINE u == Cut(t, "ip", a, rec)
<1>1. "dp" \in Parts /\ "ip" \in Parts /\ "ip" # "dp"
  BY DEF Parts
<1>2. IndexesTrue(u) /\ IndexesTrue(t)
  BY <1>1, CutTrue DEF Sound
<1>3. /\ \A b \in Nat : b < a => (IndexAt(u, "ip", b) <=> IndexAt(t, "ip", b)) /\ At(u, "ip", b) = At(t, "ip", b)
      /\ \A b \in Nat : b >= a => ~ IndexAt(u, "ip", b)
      /\ \A b \in Nat : (IndexAt(u, "dp", b) <=> IndexAt(t, "dp", b)) /\ At(u, "dp", b) = At(t, "dp", b)
      /\ a \in Nat
  <2>1. Eod(t, "ip") \in Nat
    BY <1>1, AtTyped
  <2>2. a \in Nat
    BY <2>1
  <2>3. /\ \A b \in Nat : b < a => (IndexAt(u, "ip", b) <=> IndexAt(t, "ip", b))
        /\ \A b \in Nat : b > a => ~ IndexAt(u, "ip", b)
        /\ ~ IndexAt(u, "ip", a)
        /\ \A b \in Nat : IndexAt(u, "dp", b) <=> IndexAt(t, "dp", b)
    BY <1>1, CutIndexes
  <2>4. /\ \A b \in Nat : b < a => At(u, "ip", b) = At(t, "ip", b)
        /\ Eod(u, "dp") = Eod(t, "dp") /\ \A b \in Nat : At(u, "dp", b) = At(t, "dp", b)
    BY <1>1, CutBlocks
  <2> HIDE DEF u
  <2> QED
    BY <2>2, <2>3, <2>4
<1> HIDE DEF u
<1>4. \A q \in Parts : \A b \in Nat :
        /\ IndexAt(u, q, b) => IndexAt(t, q, b)
        /\ IndexAt(u, q, b) => At(u, q, b) = At(t, q, b)
  BY <1>3 DEF Parts
<1>5. Gens(u, r)
  BY <1>4 DEF Gens, Sound
<1>6. PICK y \in Nat : LastIndex(t, "dp", y) /\ r = At(t, "dp", y) /\ \A x \in Nat : ~ Leads(t, x, y)
  <2>1. \A x, y \in Nat : Leads(t, x, y) => At(t, "ip", x).self.p = "ip"
    <3>1. \A x \in Nat : IndexAt(t, "ip", x) => At(t, "ip", x).self = [p |-> "ip", b |-> x]
      BY <1>1, <1>2 DEF IndexesTrue
    <3>2. \A x \in Nat : [p |-> "ip", b |-> x].p = "ip"
      OBVIOUS
    <3> QED
      BY <3>1, <3>2 DEF Leads
  <2> QED
    BY <1>1, <2>1 DEF Sound, Newest
<1>7. \A x \in Nat : Leads(u, x, y) => Leads(t, x, y)
  BY <1>1, <1>4 DEF Leads
<1>8. LastIndex(u, "dp", y) /\ At(u, "dp", y) = r
  BY <1>3, <1>6 DEF LastIndex
<1>9. Newest(u, r)
  BY <1>6, <1>7, <1>8 DEF Newest
<1> QED
  BY <1>2, <1>5, <1>9 DEF Sound, u

(* The file mark behind an index that ends the index partition. *)
LEMMA CloseIp ==
    ASSUME NEW t \in Tapes, NEW r, Sound(t, r), NEW z \in Nat, LastIndex(t, "ip", z), Eod(t, "ip") = z + 1
    PROVE  Sound(Cut(t, "ip", z + 1, Fm), r)
<1> DEFINE u == Cut(t, "ip", z + 1, Fm)
<1>1. "dp" \in Parts /\ "ip" \in Parts /\ "ip" # "dp" /\ Fm \in Records /\ Fm \notin Documents
      /\ z + 1 \in 4 .. Eod(t, "ip") /\ z + 1 \in Nat
  BY AtTyped, Kinds DEF Parts
<1>2. IndexesTrue(u) /\ IndexesTrue(t)
  BY <1>1, CutTrue DEF Sound
<1>3. /\ \A b \in Nat : b < z + 1 => (IndexAt(u, "ip", b) <=> IndexAt(t, "ip", b)) /\ At(u, "ip", b) = At(t, "ip", b)
      /\ \A b \in Nat : b >= z + 1 => ~ IndexAt(u, "ip", b)
      /\ \A b \in Nat : (IndexAt(u, "dp", b) <=> IndexAt(t, "dp", b)) /\ At(u, "dp", b) = At(t, "dp", b)
      /\ Eod(u, "ip") = z + 2 /\ At(u, "ip", z + 1) = Fm
  BY <1>1, CutIndexes, CutBlocks
<1>4. \A b \in Nat : IndexAt(t, "ip", b) => b < z + 1
  BY DEF LastIndex
<1> HIDE DEF u
<1>5. \A q \in Parts : \A b \in Nat :
        /\ IndexAt(u, q, b) <=> IndexAt(t, q, b)
        /\ IndexAt(u, q, b) => At(u, q, b) = At(t, q, b)
  BY <1>3, <1>4 DEF Parts
<1>6. Gens(u, r)
  BY <1>5 DEF Gens, Sound
<1>7. \A b \in Nat : \A q \in Parts : LastIndex(t, q, b) <=> LastIndex(u, q, b)
  BY <1>5 DEF LastIndex
<1>8. \A x, y \in Nat : Leads(t, x, y) <=> Leads(u, x, y)
  BY <1>1, <1>5 DEF Leads
<1>9. \A b \in Nat : \A q \in Parts : LastIndex(t, q, b) => At(u, q, b) = At(t, q, b)
  BY <1>5 DEF LastIndex
<1>10. \A x \in Nat : LastIndex(t, "ip", x) => x = z
  BY DEF LastIndex
<1>11. Closed(u, "ip", z)
  BY <1>3 DEF Closed
<1>12. Newest(u, r)
  BY <1>1, <1>7, <1>8, <1>9, <1>10, <1>11 DEF Newest, Sound
<1> QED
  BY <1>2, <1>6, <1>12 DEF Sound, u

(* A new index on the data partition is the choice. *)
LEMMA CommitDp ==
    ASSUME NEW t \in Tapes, NEW r, r.gen \in Nat, Sound(t, r), NEW a \in 5 .. Eod(t, "dp"),
           \A b \in Nat : IndexAt(t, "dp", b) => b < a, At(t, "dp", a - 1) = Fm,
           NEW doc \in Documents, doc.self = [p |-> "dp", b |-> a], BackTrue(t, "dp", a, doc.back),
           doc.gen >= r.gen, doc.gen = r.gen => doc.tree = r.tree
    PROVE  Sound(Cut(t, "dp", a, doc), doc)
<1> DEFINE u == Cut(t, "dp", a, doc)
<1>1. "dp" \in Parts /\ "ip" \in Parts /\ "ip" # "dp" /\ doc \in Records /\ a \in Nat /\ a > 4
      /\ a \in 4 .. Eod(t, "dp") /\ doc.gen \in Nat
  BY AtTyped DEF Parts, Records, Documents
<1>2. IndexesTrue(u) /\ IndexesTrue(t)
  BY <1>1, CutTrue DEF Sound
<1>3. /\ \A b \in Nat : b < a => (IndexAt(u, "dp", b) <=> IndexAt(t, "dp", b)) /\ At(u, "dp", b) = At(t, "dp", b)
      /\ \A b \in Nat : b > a => ~ IndexAt(u, "dp", b)
      /\ IndexAt(u, "dp", a) /\ At(u, "dp", a) = doc
      /\ \A b \in Nat : (IndexAt(u, "ip", b) <=> IndexAt(t, "ip", b)) /\ At(u, "ip", b) = At(t, "ip", b)
  BY <1>1, CutIndexes, CutBlocks
<1> HIDE DEF u
<1>4. \A q \in Parts : \A b \in Nat : IndexAt(u, q, b) =>
        \/ IndexAt(t, q, b) /\ At(u, q, b) = At(t, q, b)
        \/ At(u, q, b) = doc
  BY <1>1, <1>3 DEF Parts
<1>5. \A q \in Parts : \A b \in Nat : IndexAt(t, q, b) => At(t, q, b).gen \in Nat
        /\ At(t, q, b).gen <= r.gen /\ (At(t, q, b).gen = r.gen => At(t, q, b).tree = r.tree)
  BY IndexRange DEF Gens, Sound
<1>6. Gens(u, doc)
  <2> SUFFICES ASSUME NEW q \in Parts, NEW b \in Nat, IndexAt(u, q, b)
               PROVE  At(u, q, b).gen <= doc.gen /\ (At(u, q, b).gen = doc.gen => At(u, q, b).tree = doc.tree)
    BY DEF Gens
  <2>1. CASE At(u, q, b) = doc
    BY <1>1, <2>1
  <2>2. CASE IndexAt(t, q, b) /\ At(u, q, b) = At(t, q, b)
    <3> DEFINE g == At(t, q, b).gen
               h == r.gen
    <3>1. g \in Nat /\ h \in Nat /\ g <= h /\ (g = h => At(t, q, b).tree = r.tree)
      BY <1>5, <2>2
    <3> HIDE DEF g, h
    <3>2. doc.gen >= h /\ (doc.gen = h => doc.tree = r.tree)
      BY DEF h
    <3>3. g <= doc.gen /\ (g = doc.gen => At(t, q, b).tree = doc.tree)
      BY <1>1, <3>1, <3>2
    <3> QED
      BY <2>2, <3>3 DEF g
  <2> QED
    BY <1>4, <2>1, <2>2
<1>7. \A x \in Nat : ~ Leads(u, x, a)
  <2> SUFFICES ASSUME NEW x \in Nat, Leads(u, x, a) PROVE FALSE
    OBVIOUS
  <2>1. IndexAt(t, "ip", x) /\ At(t, "ip", x).back.b = a
    BY <1>3 DEF Leads
  <2>2. BackTrue(t, "ip", x, At(t, "ip", x).back)
    BY <1>1, <1>2, <2>1 DEF IndexesTrue
  <2>3. IndexAt(t, "dp", a)
    BY <1>1, <2>1, <2>2 DEF BackTrue
  <2> QED
    BY <1>1, <2>3
<1>8. LastIndex(u, "dp", a)
  BY <1>1, <1>3 DEF LastIndex
<1>9. Newest(u, doc)
  BY <1>1, <1>3, <1>7, <1>8 DEF Newest
<1> QED
  BY <1>2, <1>6, <1>9 DEF Sound, u

(* So is one on the index partition that points back to the newest index, if
   that is on the data partition. *)
LEMMA CommitIp ==
    ASSUME NEW t \in Tapes, NEW r, r.gen \in Nat, Sound(t, r), r.self.p = "dp", NEW a \in 5 .. Eod(t, "ip"),
           At(t, "ip", a - 1) = Fm,
           NEW doc \in Documents, doc.self = [p |-> "ip", b |-> a], doc.back = r.self,
           doc.gen >= r.gen, doc.gen = r.gen => doc.tree = r.tree
    PROVE  Sound(Cut(t, "ip", a, doc), doc)
<1> DEFINE u == Cut(t, "ip", a, doc)
<1>1. "dp" \in Parts /\ "ip" \in Parts /\ "ip" # "dp" /\ doc \in Records /\ a \in Nat /\ a > 4
      /\ a \in 4 .. Eod(t, "ip") /\ doc.gen \in Nat /\ IndexesTrue(t)
  BY AtTyped DEF Parts, Records, Documents, Sound
<1>2. PICK y \in Nat : LastIndex(t, "dp", y) /\ r = At(t, "dp", y) /\ \A x \in Nat : ~ Leads(t, x, y)
  <2>1. \A x, y \in Nat : Leads(t, x, y) => At(t, "ip", x).self.p = "ip"
    <3>1. \A x \in Nat : IndexAt(t, "ip", x) => At(t, "ip", x).self = [p |-> "ip", b |-> x]
      BY <1>1 DEF IndexesTrue
    <3>2. \A x \in Nat : [p |-> "ip", b |-> x].p = "ip"
      OBVIOUS
    <3> QED
      BY <3>1, <3>2 DEF Leads
  <2> QED
    BY <1>1, <2>1 DEF Sound, Newest
<1>3. r.self = [p |-> "dp", b |-> y] /\ IndexAt(t, "dp", y)
  BY <1>1, <1>2 DEF IndexesTrue, LastIndex
<1>4. BackTrue(t, "ip", a, doc.back) /\ doc.back.b = y
  BY <1>1, <1>3 DEF BackTrue
<1>5. IndexesTrue(u)
  BY <1>1, <1>4, CutTrue
<1>6. /\ \A b \in Nat : b < a => (IndexAt(u, "ip", b) <=> IndexAt(t, "ip", b)) /\ At(u, "ip", b) = At(t, "ip", b)
      /\ \A b \in Nat : b > a => ~ IndexAt(u, "ip", b)
      /\ IndexAt(u, "ip", a) /\ At(u, "ip", a) = doc /\ Eod(u, "ip") = a + 1
      /\ \A b \in Nat : (IndexAt(u, "dp", b) <=> IndexAt(t, "dp", b)) /\ At(u, "dp", b) = At(t, "dp", b)
  BY <1>1, CutIndexes, CutBlocks
<1> HIDE DEF u
<1>7. \A q \in Parts : \A b \in Nat : IndexAt(u, q, b) =>
        \/ IndexAt(t, q, b) /\ At(u, q, b) = At(t, q, b)
        \/ At(u, q, b) = doc
  BY <1>1, <1>6 DEF Parts
<1>8. \A q \in Parts : \A b \in Nat : IndexAt(t, q, b) => At(t, q, b).gen \in Nat
        /\ At(t, q, b).gen <= r.gen /\ (At(t, q, b).gen = r.gen => At(t, q, b).tree = r.tree)
  BY IndexRange DEF Gens, Sound
<1>9. Gens(u, doc)
  <2> SUFFICES ASSUME NEW q \in Parts, NEW b \in Nat, IndexAt(u, q, b)
               PROVE  At(u, q, b).gen <= doc.gen /\ (At(u, q, b).gen = doc.gen => At(u, q, b).tree = doc.tree)
    BY DEF Gens
  <2>1. CASE At(u, q, b) = doc
    BY <1>1, <2>1
  <2>2. CASE IndexAt(t, q, b) /\ At(u, q, b) = At(t, q, b)
    <3> DEFINE g == At(t, q, b).gen
               h == r.gen
    <3>1. g \in Nat /\ h \in Nat /\ g <= h /\ (g = h => At(t, q, b).tree = r.tree)
      BY <1>8, <2>2
    <3> HIDE DEF g, h
    <3>2. doc.gen >= h /\ (doc.gen = h => doc.tree = r.tree)
      BY DEF h
    <3>3. g <= doc.gen /\ (g = doc.gen => At(t, q, b).tree = doc.tree)
      BY <1>1, <3>1, <3>2
    <3> QED
      BY <2>2, <3>3 DEF g
  <2> QED
    BY <1>7, <2>1, <2>2
<1>10. LastIndex(u, "ip", a) /\ Leads(u, a, y)
  BY <1>1, <1>4, <1>6 DEF LastIndex, Leads
<1>11. LastIndex(u, "dp", y) /\ At(u, "dp", y) = r
  BY <1>2, <1>6 DEF LastIndex
<1>12. Newest(u, doc)
  <2>1. doc = At(u, "ip", a) /\ doc.gen >= At(u, "dp", y).gen /\ Eod(u, "ip") = a + 1
    BY <1>6, <1>11
  <2> QED
    BY <1>1, <1>10, <1>11, <2>1 DEF Newest
<1> QED
  BY <1>5, <1>9, <1>12 DEF Sound, u
-----------------------------------------------------------------------------
(* The inductive invariant, and the steps that write. *)

Refs == [p : Parts, b : Nat, rec : Blocks]
Ops == [op : {"call", "mark", "part", "doc", "close", "coherency", "done", "data", "extent",
              "leave", "fill", "check", "lost", "finish"}, p : Parts]
Founds == [have : BOOLEAN, idx : Documents \cup {None}, eod : Nat, end : Nat,
           fm : BOOLEAN, after : BOOLEAN]
Cohs == [count : Nat, set : Nat]
Vols == [kind : {"none", "mount", "keep", "erase"}, gen : Nat, self : Ptrs, back : Ptrs,
         tree : Trees \cup {None}, dirty : BOOLEAN, end : [Parts -> BOOLEAN],
         append : [Parts -> Nat], coh : [Parts -> Cohs], broken : BOOLEAN,
         less : [Parts -> BOOLEAN], old : [gen : Nat, self : Ptrs, back : Ptrs] \cup {None},
         found : [Parts -> Founds] \cup {None}]

Types ==
    /\ tape \in Tapes /\ best \in Documents
    /\ mam \in [Parts -> [fresh : BOOLEAN, count : Nat, set : Nat]]
    /\ vol \in Vols /\ todo \in Seq(Ops) /\ pending \in SUBSET Refs /\ sync \in Parts \cup {None}
    /\ used \in [data : Nat, change : Nat, crash : Nat, fault : Nat, ver : Nat]

\* The next step of the operation under way.
Now == IF todo = <<>> THEN [op |-> "idle", p |-> "ip"] ELSE todo[1]
Here(o, p) == Now.op = o /\ Now.p = p
\* The append position of a partition.
Pos(t, v, p) == IF v.append[p] = 0 THEN Eod(t, p) ELSE v.append[p]
\* An index and a volume that may be written.
Active == vol.tree # None /\ ~ vol.broken

\* Which step comes behind which, and which one cannot be the last.
Follows(a, b) ==
    \/ a.op = "mark" /\ b.op = "part" /\ b.p = a.p
    \/ a.op = "part" /\ b.op = "doc" /\ b.p = a.p
    \/ a.op = "doc" /\ b.op = "close" /\ b.p = a.p
    \/ a.op = "close" /\ b.op = "coherency" /\ b.p = "ip"
    \/ a.op = "coherency" /\ a.p = "ip" /\ b.op = "coherency" /\ b.p = "dp"
    \/ a.op = "coherency" /\ a.p = "dp" /\ b.op \in {"done", "finish"}
    \/ a.op = "done" /\ a.p = "dp" /\ b.op \in {"mark", "data", "call"} /\ b.p = "ip"
    \/ a.op = "done" /\ a.p = "ip" /\ ((b.op = "data" /\ b.p = "dp") \/ b.op \in {"finish", "leave"})
    \/ a.op = "call" /\ a.p = "dp" /\ b.op = "call" /\ b.p = "ip"
    \/ a.op = "call" /\ a.p = "ip" /\ b.op \in {"finish", "leave"}
    \/ a.op = "lost" /\ b.op = "call"
    \/ a.op = "fill" /\ (b.op = "check" \/ (a.p = "dp" /\ b.op = "fill" /\ b.p = "ip"))
Opened == {"mark", "part", "doc", "close", "coherency", "lost", "fill"}
Chain(s) ==
    /\ \A i \in 1 .. Len(s) - 1 : Follows(s[i], s[i + 1])
    /\ s # <<>> => s[Len(s)].op \notin Opened
    /\ \A i \in 1 .. Len(s) : s[i].op = "close" =>
          i + 3 <= Len(s) /\ s[i + 3].op = "done" /\ s[i + 3].p = s[i].p
Queue ==
    /\ Chain(todo)
    /\ vol.kind # "erase"
    /\ vol.broken => todo = <<>>
    /\ IF vol.tree = None
       THEN /\ pending = {}
            /\ \/ phase = "off" /\ todo = <<>>
               \/ phase = "mounting" /\ Now.op \in {"fill", "check"}
       ELSE phase # "off" /\ Now.op \notin {"fill", "check"}

\* A current coherency attribute names the index its partition ends in.
EndsIn(p, b, gen) == LastIndex(tape, p, b) /\ Closed(tape, p, b) /\ At(tape, p, b).gen = gen
MamTrue == \A p \in Parts : mam[p].fresh => EndsIn(p, mam[p].set, mam[p].count)

\* The blocks of files are there, and out of the way of the next write.
Kept(r) == At(tape, r.p, r.b) = r.rec
Files ==
    /\ \A r \in best.tree.refs \cup pending : Kept(r)
    /\ vol.tree # None => \A r \in vol.tree.refs : Kept(r)
Below ==
    Active => \A r \in best.tree.refs \cup pending \cup vol.tree.refs : r.b < Pos(tape, vol, r.p)

\* Where the next write goes.
Ready ==
    Active =>
        /\ Pos(tape, vol, "ip") \in 4 .. Eod(tape, "ip")
        /\ Pos(tape, vol, "dp") = IF Here("doc", "dp") THEN Eod(tape, "dp") - 1 ELSE Eod(tape, "dp")
        /\ ~ Here("close", "dp") => ~ IndexAt(tape, "dp", Eod(tape, "dp") - 1)
        /\ Now.op = "part" =>
              /\ Pos(tape, vol, Now.p) = Eod(tape, Now.p) /\ vol.append[Now.p] # 0
              /\ At(tape, Now.p, Eod(tape, Now.p) - 1) = Fm
        /\ Now.op = "doc" =>
              /\ Pos(tape, vol, Now.p) = Eod(tape, Now.p) - 1 /\ vol.append[Now.p] # 0
              /\ At(tape, Now.p, Eod(tape, Now.p) - 1) = Torn
              /\ At(tape, Now.p, Eod(tape, Now.p) - 2) = Fm
        /\ Now.op = "close" => Pos(tape, vol, Now.p) = Eod(tape, Now.p)

\* The index in memory against the newest one on the tape: between two indexes,
\* while one is being written, and when it is there.
Between ==
    (Active /\ Now.op \notin {"part", "doc"}) =>
        /\ vol.self.p \in Parts
        /\ vol.self.p = "dp" => vol.self = best.self
        /\ vol.self.p = "ip" => LastIndex(tape, "ip", vol.self.b)
        /\ vol.back = NoPtr \/ (vol.back.p = "dp" /\ IndexAt(tape, "dp", vol.back.b))
Writing ==
    (Active /\ Now.op \in {"part", "doc"}) =>
        /\ vol.gen = best.gen => vol.tree = best.tree
        /\ vol.self = [p |-> Now.p, b |-> Pos(tape, vol, Now.p)]
        /\ Now.p = "ip" => vol.back = best.self /\ best.self.p = "dp"
        /\ Now.p = "dp" => BackTrue(tape, "dp", vol.self.b, vol.back)
Written ==
    Active =>
        /\ Now.op \in {"close", "coherency", "done"} =>
              vol.self = best.self /\ vol.gen = best.gen /\ vol.tree = best.tree
        /\ Now.op = "close" => Now.p = vol.self.p /\ Eod(tape, Now.p) = vol.self.b + 1
        /\ Now.op = "done" => Now.p = vol.self.p
        /\ Now.op \in {"coherency", "done"} => vol.end[vol.self.p]
Memory == (Active => vol.gen >= best.gen) /\ Between /\ Writing /\ Written
Clean == (vol.tree # None /\ ~ vol.dirty) => vol.tree = best.tree

\* vol->ip_index_file_end and dp_index_file_end, and the coherency data that
\* goes with them.
CohTrue(p) == EndsIn(p, vol.coh[p].set, vol.coh[p].count)
Ahead(p) == vol.self.p = p /\ Now.op = "coherency" /\ (Now.p = "ip" \/ p = "dp")
Ends ==
    Active => \A p \in Parts :
        (vol.end[p] /\ ~ (Now.op \in {"part", "doc", "close"} /\ Now.p = p)) =>
            /\ \E b \in Nat : LastIndex(tape, p, b) /\ Closed(tape, p, b)
            /\ Ahead(p) \/ CohTrue(p)

\* The index partition is written when the newest index is on the data
\* partition and ends it.
Returns(o) ==
    \/ o.op = "done" /\ o.p = vol.self.p
    \/ o.op = "finish" /\ vol.self.p = "ip"
Order ==
    Active =>
        /\ (Now.op \in {"mark", "part", "doc", "close"} /\ Now.p = "ip") => vol.end["dp"]
        /\ (Now.op \in {"mark", "data"} /\ Now.p = "ip") => vol.self.p = "dp"
        /\ (Now.op \in {"coherency", "done"} /\ vol.self.p = "ip") => vol.end["dp"]
        /\ Now.op = "finish" => vol.self.p = "ip" /\ \A p \in Parts : CohTrue(p)
        /\ Here("coherency", "ip") => Returns(todo[3])
        /\ Here("coherency", "dp") => Returns(todo[2])
        /\ vol.end["ip"] \/ vol.self.p = "dp" \/ Now.op = "finish"
           \/ (Now.op \in {"part", "doc", "close"} /\ Now.p = "ip")

\* What ltfs_check_medium has found, until it is used up.
WillFill(p) ==
    \/ Here("fill", p)
    \/ p = "ip" /\ Here("fill", "dp") /\ todo[2].op = "fill"
FoundOn(p, f) ==
    /\ f.eod = Eod(tape, p)
    /\ ~ f.have => f.idx = None /\ \A b \in Nat : ~ IndexAt(tape, p, b)
    /\ f.have => \E x \in Nat :
          /\ LastIndex(tape, p, x) /\ f.idx = At(tape, p, x) /\ f.end > x
          /\ vol.coh[p] = [count |-> f.idx.gen, set |-> x]
          /\ IF f.after THEN Eod(tape, p) # x + 1 /\ ~ Closed(tape, p, x)
             ELSE IF f.fm THEN Closed(tape, p, x) ELSE Eod(tape, p) = x + 1
    /\ WillFill(p) <=> (f.have /\ ~ f.after /\ ~ f.fm)
    /\ (Now.op # "lost" \/ ~ f.have \/ f.after) => Pos(tape, vol, p) = Eod(tape, p)
Found ==
    Now.op \in {"fill", "check", "lost"} =>
        vol.found \in [Parts -> Founds] /\ \A p \in Parts : FoundOn(p, vol.found[p])

CommitInv ==
    /\ Types /\ Queue /\ Sound(tape, best) /\ MamTrue /\ Files /\ Below /\ Ready /\ Memory
    /\ Clean /\ Ends /\ Order /\ Found

---------------------------------------------------------------------------
(* Steps and the list they are taken from *)

(* The step under way is the first of the list. *)
LEMMA NowIs ==
    ASSUME todo \in Seq(Ops)
    PROVE  /\ Now.p \in Parts
           /\ todo # <<>> => Now = todo[1] /\ Now \in Ops /\ Part = Now.p
           /\ todo = <<>> => Now.op = "idle" /\ Now.p = "ip"
           /\ \A o : Step(o) => todo # <<>> /\ Now.op = o
<1>1. "ip" \in Parts
  BY DEF Parts
<1>2. todo # <<>> => todo[1] \in Ops
  OBVIOUS
<1>3. todo # <<>> => Now = todo[1] /\ Now.p \in Parts
  BY <1>2 DEF Now, Ops
<1>4. todo = <<>> => Now.op = "idle" /\ Now.p = "ip"
  BY DEF Now
<1> QED
  BY <1>1, <1>2, <1>3, <1>4 DEF Part, Step

(* What is left of a list is one. *)
LEMMA ChainTail ==
    ASSUME NEW s \in Seq(Ops), Chain(s), s # <<>>
    PROVE  Chain(Tail(s))
<1> DEFINE n == Len(s)
           u == Tail(s)
<1>1. n \in Nat /\ n >= 1 /\ u \in Seq(Ops) /\ Len(u) = n - 1 /\ \A i \in 1 .. n - 1 : u[i] = s[i + 1]
  OBVIOUS
<1>2. \A i \in 1 .. n - 1 : Follows(s[i], s[i + 1])
  BY DEF Chain
<1>3. s[n].op \notin Opened
  BY DEF Chain
<1>4. \A i \in 1 .. n : s[i].op = "close" =>
          i + 3 <= n /\ s[i + 3].op = "done" /\ s[i + 3].p = s[i].p
  BY DEF Chain
<1> HIDE DEF n, u
<1>5. u # <<>> <=> n > 1
  BY <1>1
<1>6. \A i \in 1 .. n - 2 : Follows(u[i], u[i + 1])
  <2> SUFFICES ASSUME NEW i \in 1 .. n - 2 PROVE Follows(u[i], u[i + 1])
    OBVIOUS
  <2>1. i \in 1 .. n - 1 /\ i + 1 \in 1 .. n - 1
    BY <1>1
  <2> QED
    BY <1>1, <1>2, <2>1
<1>7. u # <<>> => u[n - 1].op \notin Opened
  <2>1. n > 1 => n - 1 \in 1 .. n - 1 /\ n - 1 + 1 = n
    BY <1>1
  <2> QED
    BY <1>1, <1>3, <1>5, <2>1
<1>8. \A i \in 1 .. n - 1 : u[i].op = "close" =>
        i + 3 <= n - 1 /\ u[i + 3].op = "done" /\ u[i + 3].p = u[i].p
  <2> SUFFICES ASSUME NEW i \in 1 .. n - 1, u[i].op = "close"
               PROVE i + 3 <= n - 1 /\ u[i + 3].op = "done" /\ u[i + 3].p = u[i].p
    OBVIOUS
  <2>1. i + 1 \in 1 .. n /\ s[i + 1].op = "close"
    BY <1>1
  <2>2. i + 1 + 3 <= n /\ s[i + 1 + 3].op = "done" /\ s[i + 1 + 3].p = s[i + 1].p
    BY <1>4, <2>1
  <2>3. i + 3 \in 1 .. n - 1 /\ i + 3 + 1 = i + 1 + 3
    BY <1>1, <2>2
  <2>4. u[i + 3] = s[i + 1 + 3] /\ u[i] = s[i + 1]
    BY <1>1, <2>3
  <2> QED
    BY <1>1, <2>2, <2>3, <2>4
<1>9. Len(u) - 1 = n - 2
  BY <1>1
<1>10. Chain(u)
  BY <1>1, <1>6, <1>7, <1>8, <1>9 DEF Chain
<1> QED
  BY <1>10 DEF u

(* Taking a step off the list. *)
LEMMA TailStep ==
    ASSUME todo \in Seq(Ops), Chain(todo), todo # <<>>, todo' = Tail(todo)
    PROVE  /\ todo' \in Seq(Ops) /\ Chain(todo)' /\ Now'.p \in Parts
           /\ \/ todo' = <<>> /\ Now'.op = "idle" /\ Now.op \notin Opened
              \/ todo' # <<>> /\ Now' = todo[2] /\ Follows(Now, Now') /\ Now' \in Ops
           /\ Now.op = "close" => todo'[3].op = "done" /\ todo'[3].p = Now.p
           /\ (Now.op = "coherency" /\ Now.p = "ip") => todo'[2] = todo[3]
           /\ Here("fill", "dp") => todo'[1] = todo[2]
<1> DEFINE n == Len(todo)
<1>1. n \in Nat /\ n >= 1 /\ todo' \in Seq(Ops) /\ Len(todo') = n - 1
      /\ \A i \in 1 .. n - 1 : todo'[i] = todo[i + 1]
  OBVIOUS
<1>2. \A i \in 1 .. n - 1 : Follows(todo[i], todo[i + 1])
  BY DEF Chain
<1>3. todo[n].op \notin Opened
  BY DEF Chain
<1>4. \A i \in 1 .. n : todo[i].op = "close" =>
          i + 3 <= n /\ todo[i + 3].op = "done" /\ todo[i + 3].p = todo[i].p
  BY DEF Chain
<1>5. todo' # <<>> <=> n > 1
  BY <1>1, SMTT(20)
<1>6. Now = todo[1]
  BY NowIs
<1>7. todo' # <<>> => Now' = todo'[1]
  BY DEF Now
<1>8. todo' = <<>> => Now' = [op |-> "idle", p |-> "ip"]
  BY DEF Now
<1> HIDE DEF n
<1>9. Chain(todo)'
  BY ChainTail DEF Chain
<1>10. \/ todo' = <<>> /\ Now'.op = "idle" /\ Now.op \notin Opened
       \/ todo' # <<>> /\ Now' = todo[2] /\ Follows(Now, Now') /\ Now' \in Ops
  <2>1. CASE n = 1
    BY <1>3, <1>5, <1>6, <1>8, <2>1
  <2>2. CASE n > 1
    <3>1. 1 \in 1 .. n - 1 /\ 1 + 1 = 2
      BY <1>1, <2>2
    <3>2. todo'[1] \in Ops
      BY <1>1, <3>1
    <3> QED
      BY <1>1, <1>2, <1>5, <1>6, <1>7, <2>2, <3>1, <3>2
  <2> QED
    BY <1>1, <2>1, <2>2
<1>11. Now'.p \in Parts
  BY <1>8, <1>10 DEF Ops, Parts
<1>12. Now.op = "close" => todo'[3].op = "done" /\ todo'[3].p = Now.p
  <2>1. Now.op = "close" => 1 + 3 <= n /\ todo[1 + 3].op = "done" /\ todo[1 + 3].p = Now.p
    BY <1>1, <1>4, <1>6
  <2>2. 1 + 3 <= n => 3 \in 1 .. n - 1 /\ 3 + 1 = 1 + 3
    BY <1>1
  <2> QED
    BY <1>1, <2>1, <2>2
<1>13. (Now.op = "coherency" /\ Now.p = "ip") => todo'[2] = todo[3]
  <2> SUFFICES ASSUME Now.op = "coherency", Now.p = "ip" PROVE todo'[2] = todo[3]
    OBVIOUS
  <2>1. Now'.op = "coherency" /\ n > 1 /\ Now' = todo[2] /\ Now.op \in Opened
    BY <1>5, <1>10 DEF Follows, Opened
  <2>2. n # 2
    BY <1>3, <2>1 DEF Opened
  <2>3. 2 \in 1 .. n - 1 /\ 2 + 1 = 3
    BY <1>1, <2>1, <2>2
  <2> QED
    BY <1>1, <2>3
<1>14. Here("fill", "dp") => todo'[1] = todo[2]
  <2>1. Here("fill", "dp") => todo' # <<>>
    BY <1>10 DEF Here, Opened
  <2> QED
    BY <1>7, <1>10, <2>1
<1> QED
  BY <1>1, <1>9, <1>10, <1>11, <1>12, <1>13, <1>14

---------------------------------------------------------------------------
(* Writes *)

(* A write to the tape at the append position, when that is on the tape. *)
LEMMA PutBlocks ==
    ASSUME Types, NEW p \in Parts, NEW rec \in Records,
           Pos(tape, vol, p) \in 4 .. Eod(tape, p), Put(vol, p, rec)
    PROVE  LET a == Pos(tape, vol, p) IN
           /\ a \in Nat /\ tape' = Cut(tape, p, a, rec) /\ tape' \in Tapes /\ best' = Picked(tape')
           /\ Eod(tape', p) = a + 1 /\ At(tape', p, a) = rec
           /\ IndexAt(tape', p, a) <=> rec \in Documents
           /\ \A b \in Nat : b < a => At(tape', p, b) = At(tape, p, b) /\ (IndexAt(tape', p, b) <=> IndexAt(tape, p, b))
           /\ \A b \in Nat : b > a => ~ IndexAt(tape', p, b)
<1> DEFINE a == Pos(tape, vol, p)
           u == Cut(tape, p, a, rec)
<1>1. tape \in Tapes /\ Eod(tape, p) \in Nat
  BY AtTyped DEF Types
<1>2. a \in Nat
  BY <1>1
<1>3. tape' = u /\ best' = Picked(tape')
  BY DEF Put, Cut, Pos, AppendPos
<1> HIDE DEF a
<1>4. a \in 4 .. Eod(tape, p)
  BY DEF a
<1>5. /\ u \in Tapes
      /\ Eod(u, p) = a + 1
      /\ At(u, p, a) = rec
      /\ \A b \in Nat : b < a => At(u, p, b) = At(tape, p, b)
  BY <1>1, <1>4, CutBlocks
<1>6. /\ \A b \in Nat : b < a => (IndexAt(u, p, b) <=> IndexAt(tape, p, b))
      /\ \A b \in Nat : b > a => ~ IndexAt(u, p, b)
      /\ IndexAt(u, p, a) <=> rec \in Documents
  BY <1>1, <1>4, CutIndexes
<1> HIDE DEF u
<1> QED
  BY <1>2, <1>3, <1>5, <1>6 DEF a, u

(* The other partition is as it was. *)
LEMMA PutOther ==
    ASSUME Types, NEW p \in Parts, NEW rec \in Records,
           Pos(tape, vol, p) \in 4 .. Eod(tape, p), Put(vol, p, rec), NEW q \in Parts, q # p
    PROVE  /\ Eod(tape', q) = Eod(tape, q)
           /\ \A b \in Nat : /\ At(tape', q, b) = At(tape, q, b)
                             /\ IndexAt(tape', q, b) <=> IndexAt(tape, q, b)
                             /\ LastIndex(tape', q, b) <=> LastIndex(tape, q, b)
                             /\ Closed(tape', q, b) <=> Closed(tape, q, b)
<1>1. tape \in Tapes
  BY DEF Types
<1>2. tape' = Cut(tape, p, Pos(tape, vol, p), rec)
  BY PutBlocks
<1>3. Eod(tape', q) = Eod(tape, q) /\ \A b \in Nat : At(tape', q, b) = At(tape, q, b)
  BY <1>1, <1>2, CutBlocks
<1>4. \A b \in Nat : IndexAt(tape', q, b) <=> IndexAt(tape, q, b)
  BY <1>3 DEF IndexAt
<1>5. \A b \in Nat : LastIndex(tape', q, b) <=> LastIndex(tape, q, b)
  BY <1>4 DEF LastIndex
<1>6. \A b \in Nat : Closed(tape', q, b) <=> Closed(tape, q, b)
  BY <1>3 DEF Closed
<1> QED
  BY <1>3, <1>4, <1>5, <1>6

(* No coherency attribute is current behind a write. *)
LEMMA PutMam ==
    ASSUME Types, NEW p, NEW rec, Put(vol, p, rec)
    PROVE  mam' \in [Parts -> [fresh : BOOLEAN, count : Nat, set : Nat]] /\ MamTrue'
<1>1. mam' = [q \in Parts |-> [mam[q] EXCEPT !.fresh = FALSE]]
  BY DEF Put
<1>2. \A q \in Parts : mam'[q] \in [fresh : BOOLEAN, count : Nat, set : Nat] /\ mam'[q].fresh = FALSE
  BY <1>1 DEF Types
<1> QED
  BY <1>1, <1>2 DEF MamTrue

(* The blocks of files survive it. *)
LEMMA PutKept ==
    ASSUME Types, Active, Files, Below, NEW p \in Parts, NEW rec \in Records,
           Pos(tape, vol, p) \in 4 .. Eod(tape, p), Put(vol, p, rec)
    PROVE  \A r \in best.tree.refs \cup pending \cup vol.tree.refs : At(tape', r.p, r.b) = r.rec
<1> SUFFICES ASSUME NEW r \in best.tree.refs \cup pending \cup vol.tree.refs
             PROVE  At(tape', r.p, r.b) = r.rec
  OBVIOUS
<1>1. r.p \in Parts /\ r.b \in Nat
  BY DEF Types, Active, Documents, Trees, Refs, Vols
<1>2. At(tape, r.p, r.b) = r.rec /\ r.b < Pos(tape, vol, r.p)
  BY DEF Active, Files, Kept, Below
<1>3. CASE r.p = p
  BY <1>1, <1>2, <1>3, PutBlocks
<1>4. CASE r.p # p
  BY <1>1, <1>2, <1>4, PutOther
<1> QED
  BY <1>3, <1>4

(* The last index of the data partition, and the newest index. *)
LEMMA NewestIs ==
    ASSUME Types, Sound(tape, best)
    PROVE  /\ best = Picked(tape) /\ best.self.p \in Parts /\ best.self.b \in Nat /\ best.gen \in Nat
           /\ best.self = [p |-> best.self.p, b |-> best.self.b]
           /\ best.tree \in Trees /\ best.tree # None
           /\ LastIndex(tape, best.self.p, best.self.b) /\ best = At(tape, best.self.p, best.self.b)
           /\ best.self.p = "ip" =>
                 Eod(tape, "ip") = best.self.b + 1 \/ Closed(tape, "ip", best.self.b)
<1>1. tape \in Tapes /\ best \in Documents /\ IndexesTrue(tape) /\ "ip" \in Parts /\ "dp" \in Parts
  BY DEF Types, Sound, Parts
<1>2. best = Picked(tape)
  BY <1>1, PickedIs
<1>3. best.gen \in Nat /\ best.tree \in Trees /\ best.tree # None /\ best.self \in Ptrs
  BY <1>1, NoneAssumption DEF Documents
<1>4. PICK y \in Nat :
        /\ LastIndex(tape, "dp", y)
        /\ \/ best = At(tape, "dp", y) /\ \A x \in Nat : ~ Leads(tape, x, y)
           \/ \E x \in Nat :
                 /\ Leads(tape, x, y) /\ LastIndex(tape, "ip", x) /\ best = At(tape, "ip", x)
                 /\ best.gen >= At(tape, "dp", y).gen
                 /\ Eod(tape, "ip") = x + 1 \/ Closed(tape, "ip", x)
  BY DEF Sound, Newest
<1>5. \A p \in Parts : \A b \in Nat : LastIndex(tape, p, b) => At(tape, p, b).self = [p |-> p, b |-> b]
  BY <1>1 DEF IndexesTrue, LastIndex
<1>6. CASE best = At(tape, "dp", y)
  <2>1. best.self = [p |-> "dp", b |-> y]
    BY <1>1, <1>4, <1>5, <1>6
  <2>2. best.self.p = "dp" /\ best.self.b = y
    BY <2>1
  <2> QED
    BY <1>1, <1>2, <1>3, <1>4, <1>6, <2>1, <2>2
<1>7. CASE \E x \in Nat :
                 /\ Leads(tape, x, y) /\ LastIndex(tape, "ip", x) /\ best = At(tape, "ip", x)
                 /\ best.gen >= At(tape, "dp", y).gen
                 /\ Eod(tape, "ip") = x + 1 \/ Closed(tape, "ip", x)
  <2>0. PICK x \in Nat : LastIndex(tape, "ip", x) /\ best = At(tape, "ip", x)
                         /\ (Eod(tape, "ip") = x + 1 \/ Closed(tape, "ip", x))
    BY <1>7
  <2>1. best.self = [p |-> "ip", b |-> x]
    BY <1>1, <1>5, <2>0
  <2>2. best.self.p = "ip" /\ best.self.b = x
    BY <2>1
  <2> QED
    BY <1>1, <1>2, <1>3, <2>0, <2>1, <2>2
<1> QED
  BY <1>4, <1>6, <1>7

(* A file mark, a block of a file or half an index leaves the newest index
   alone: behind the data partition, or anywhere on the index partition while
   the newest index is not there. *)
LEMMA PlainPut ==
    ASSUME Types, Sound(tape, best), NEW p \in Parts, NEW rec \in Records, rec \notin Documents,
           Pos(tape, vol, p) \in 4 .. Eod(tape, p), Put(vol, p, rec),
           p = "dp" => Pos(tape, vol, p) = Eod(tape, p),
           p = "ip" => best.self.p = "dp"
    PROVE  Sound(tape', best) /\ best' = best
<1>1. tape \in Tapes /\ tape' \in Tapes /\ tape' = Cut(tape, p, Pos(tape, vol, p), rec) /\ best' = Picked(tape')
  BY PutBlocks DEF Types
<1>2. Sound(tape', best)
  <2>1. CASE p = "dp"
    <3>1. \A b \in Nat : IndexAt(tape, "dp", b) => b \in 4 .. Eod(tape, "dp") - 1
      BY <1>1, <2>1, IndexRange
    <3>2. Eod(tape, "dp") \in Nat
      BY <1>1, <2>1, AtTyped
    <3>3. \A b \in Nat : IndexAt(tape, "dp", b) => b < Pos(tape, vol, "dp")
      BY <2>1, <3>1, <3>2
    <3> QED
      BY <1>1, <2>1, <3>3, KeepDp
  <2>2. CASE p = "ip"
    BY <1>1, <2>2, KeepIp
  <2> QED
    BY <2>1, <2>2 DEF Parts
<1> QED
  BY <1>1, <1>2, PickedIs

(* The append position is on the tape. *)
LEMMA AppendIn ==
    ASSUME Types, Active, Ready, NEW p \in Parts
    PROVE  /\ Pos(tape, vol, p) \in Nat /\ Pos(tape, vol, p) <= Eod(tape, p)
           /\ vol.append[p] # 0 => Pos(tape, vol, p) = vol.append[p]
           /\ (p = "ip" \/ Now.op # "doc") => Pos(tape, vol, p) \in 4 .. Eod(tape, p)
           /\ (p = "dp" /\ Now.op # "doc") => Pos(tape, vol, p) = Eod(tape, p)
<1>1. Eod(tape, p) \in Nat /\ Eod(tape, p) >= 4 /\ vol.append[p] \in Nat
  BY AtTyped DEF Types, Vols
<1>2. Pos(tape, vol, p) \in Nat /\ (vol.append[p] # 0 => Pos(tape, vol, p) = vol.append[p])
  BY <1>1 DEF Pos
<1>3. CASE p = "ip"
  BY <1>1, <1>2, <1>3 DEF Ready
<1>4. CASE p = "dp"
  BY <1>1, <1>2, <1>4 DEF Ready, Here
<1> QED
  BY <1>3, <1>4 DEF Parts

(* Moving the append position of one partition. *)
LEMMA AppendMoves ==
    ASSUME Types, Types', NEW p \in Parts, NEW q \in Parts,
           vol'.append = [vol.append EXCEPT ![p] = Pos(tape, vol, p) + 1], Pos(tape, vol, p) \in Nat,
           q # p => Eod(tape', q) = Eod(tape, q)
    PROVE  Pos(tape', vol', q) = IF q = p THEN Pos(tape, vol, p) + 1 ELSE Pos(tape, vol, q)
<1>1. vol.append \in [Parts -> Nat]
  BY DEF Types, Vols
<1>2. vol'.append[q] = IF q = p THEN Pos(tape, vol, p) + 1 ELSE vol.append[q]
  BY <1>1
<1>3. CASE q = p
  <2>1. vol'.append[q] # 0
    BY <1>2, <1>3
  <2> QED
    BY <1>2, <1>3, <2>1 DEF Pos
<1>4. CASE q # p
  BY <1>2, <1>4 DEF Pos
<1> QED
  BY <1>3, <1>4

---------------------------------------------------------------------------
(* Writing an index *)

(* The file mark in front of an index; its generation, its place and its back
   pointer are fixed now. *)
LEMMA MarkStep ==
    ASSUME CommitInv, IndexMark
    PROVE  CommitInv' /\ best' = best /\ vol'.tree = vol.tree
<1> SUFFICES ASSUME NEW p, p = Now.p, NEW a, a = Pos(tape, vol, p)
             PROVE  CommitInv' /\ best' = best /\ vol'.tree = vol.tree
  OBVIOUS
<1>0. Types /\ Queue /\ Sound(tape, best) /\ Files /\ Below /\ Ready /\ Memory /\ Clean /\ Ends /\ Order
  BY DEF CommitInv
<1>1. todo # <<>> /\ Now.op = "mark" /\ p \in Parts /\ Part = p /\ todo \in Seq(Ops) /\ Chain(todo)
  BY <1>0, NowIs DEF IndexMark, Types, Queue
<1>2. Active /\ vol.tree # None /\ ~ vol.broken
  BY <1>0, <1>1 DEF Queue, Active
<1>3. a \in 4 .. Eod(tape, p) /\ a \in Nat /\ (p = "dp" => a = Eod(tape, p)) /\ Eod(tape, p) \in Nat
  BY <1>0, <1>1, <1>2, AppendIn, AtTyped DEF Types
<1>4. Put(vol, p, Fm) /\ Fm \in Records /\ Fm \notin Documents
  BY <1>1, Kinds DEF IndexMark
<1>5. /\ tape' \in Tapes /\ Eod(tape', p) = a + 1 /\ At(tape', p, a) = Fm /\ ~ IndexAt(tape', p, a)
      /\ \A b \in Nat : b < a => At(tape', p, b) = At(tape, p, b) /\ (IndexAt(tape', p, b) <=> IndexAt(tape, p, b))
  BY <1>0, <1>1, <1>3, <1>4, PutBlocks
<1>6. \A q \in Parts : q # p =>
        /\ Eod(tape', q) = Eod(tape, q)
        /\ \A b \in Nat : /\ At(tape', q, b) = At(tape, q, b)
                          /\ IndexAt(tape', q, b) <=> IndexAt(tape, q, b)
                          /\ LastIndex(tape', q, b) <=> LastIndex(tape, q, b)
                          /\ Closed(tape', q, b) <=> Closed(tape, q, b)
  BY <1>0, <1>1, <1>3, <1>4, PutOther
<1>7. vol.self.p \in Parts /\ (vol.self.p = "dp" => vol.self = best.self)
      /\ (vol.back = NoPtr \/ (vol.back.p = "dp" /\ IndexAt(tape, "dp", vol.back.b)))
  BY <1>0, <1>1, <1>2 DEF Memory, Between
<1>8. p = "ip" => vol.self.p = "dp" /\ vol.end["dp"]
  BY <1>0, <1>1, <1>2 DEF Order
<1>9. Sound(tape', best) /\ best' = best
  BY <1>0, <1>1, <1>3, <1>4, <1>7, <1>8, PlainPut
<1>10. todo' = Tail(todo) /\ phase' = phase /\ pending' = pending /\ sync' = sync /\ used' = used
  BY DEF IndexMark
<1>11. /\ todo' \in Seq(Ops) /\ Chain(todo)' /\ Now'.op = "part" /\ Now'.p = p /\ todo' # <<>>
  BY <1>1, <1>10, TailStep DEF Follows, Opened
<1>12. vol' = [Moved(vol, p) EXCEPT
                  !.old = [gen |-> vol.gen, self |-> vol.self, back |-> vol.back],
                  !.gen = IF vol.dirty THEN @ + 1 ELSE @,
                  !.back = IF vol.self.p = "dp" THEN vol.self ELSE @,
                  !.self = [p |-> p, b |-> a + 1]]
  BY <1>1 DEF IndexMark, Pos, AppendPos
<1>13. /\ vol' \in Vols
       /\ vol'.tree = vol.tree /\ vol'.dirty = vol.dirty /\ vol'.broken = vol.broken /\ vol'.kind = vol.kind
       /\ vol'.end = vol.end /\ vol'.coh = vol.coh
       /\ vol'.gen = IF vol.dirty THEN vol.gen + 1 ELSE vol.gen
       /\ vol'.back = IF vol.self.p = "dp" THEN vol.self ELSE vol.back
       /\ vol'.self = [p |-> p, b |-> a + 1]
       /\ vol'.append = [vol.append EXCEPT ![p] = a + 1]
  <2>1. vol \in Vols /\ a + 1 \in Nat /\ p \in {"none", "ip", "dp"}
    BY <1>0, <1>1, <1>3, SMTT(20) DEF Types, Parts
  <2>2. Moved(vol, p) = [vol EXCEPT !.append = [vol.append EXCEPT ![p] = a + 1]]
    BY DEF Moved, Pos, AppendPos
  <2>3. [vol.append EXCEPT ![p] = a + 1] \in [Parts -> Nat]
    BY <2>1 DEF Vols
  <2>4. Moved(vol, p) \in Vols
    BY <2>1, <2>2, <2>3 DEF Vols
  <2> DEFINE m == Moved(vol, p)
             o == [gen |-> vol.gen, self |-> vol.self, back |-> vol.back]
             g == IF vol.dirty THEN vol.gen + 1 ELSE vol.gen
             k == IF vol.self.p = "dp" THEN vol.self ELSE vol.back
             s == [p |-> p, b |-> a + 1]
  <2>5. m.gen = vol.gen /\ m.back = vol.back /\ m.tree = vol.tree /\ m.dirty = vol.dirty
        /\ m.broken = vol.broken /\ m.kind = vol.kind /\ m.end = vol.end /\ m.coh = vol.coh
        /\ m.append = [vol.append EXCEPT ![p] = a + 1] /\ m \in Vols
    BY <2>1, <2>2, <2>3, <2>4 DEF Vols
  <2>6. o \in [gen : Nat, self : Ptrs, back : Ptrs] /\ g \in Nat /\ k \in Ptrs /\ s \in Ptrs
    BY <2>1 DEF Vols, Ptrs
  <2>7. vol' = [m EXCEPT !.old = o, !.gen = g, !.back = k, !.self = s]
    BY <1>12, <2>5
  <2> HIDE DEF m, o, g, k, s
  <2>8. vol' \in Vols /\ vol'.gen = g /\ vol'.back = k /\ vol'.self = s /\ vol'.tree = m.tree
        /\ vol'.dirty = m.dirty /\ vol'.broken = m.broken /\ vol'.kind = m.kind
        /\ vol'.end = m.end /\ vol'.coh = m.coh /\ vol'.append = m.append
    BY <2>5, <2>6, <2>7 DEF Vols
  <2> QED
    BY <2>5, <2>8 DEF g, k, s
<1>14. Types'
  BY <1>0, <1>4, <1>5, <1>9, <1>10, <1>11, <1>13, PutMam DEF Types
<1>15. \A q \in Parts : Pos(tape', vol', q) = IF q = p THEN a + 1 ELSE Pos(tape, vol, q)
  BY <1>0, <1>1, <1>3, <1>6, <1>13, <1>14, AppendMoves
<1>16. \A r \in best.tree.refs \cup pending \cup vol.tree.refs :
         At(tape', r.p, r.b) = r.rec /\ r.p \in Parts /\ r.b \in Nat /\ r.b < Pos(tape, vol, r.p)
  <2>1. \A r \in best.tree.refs \cup pending \cup vol.tree.refs : r.p \in Parts /\ r.b \in Nat
    BY <1>0, <1>2 DEF Types, Documents, Trees, Refs, Vols
  <2> QED
    BY <1>0, <1>1, <1>2, <1>3, <1>4, <2>1, PutKept DEF Below
<1>17. Queue'
  BY <1>0, <1>2, <1>10, <1>11, <1>13 DEF Queue
<1>18. Sound(tape, best)' /\ MamTrue' /\ Clean'
  BY <1>0, <1>4, <1>9, <1>13, PutMam DEF Clean
<1>19. Files'
  BY <1>2, <1>9, <1>10, <1>13, <1>16 DEF Files, Kept
<1>20. Below'
  <2>1. \A r \in best.tree.refs \cup pending \cup vol.tree.refs : r.b < Pos(tape', vol', r.p)
    BY <1>3, <1>15, <1>16
  <2> QED
    BY <1>9, <1>10, <1>13, <2>1 DEF Below
<1>21. Active' /\ "ip" \in Parts /\ "dp" \in Parts /\ "ip" # "dp"
  BY <1>2, <1>13 DEF Active, Parts
<1>22. Ready'
  <2>1. Pos(tape', vol', p) = Eod(tape', p) /\ vol'.append[p] # 0 /\ At(tape', p, Eod(tape', p) - 1) = Fm
        /\ ~ IndexAt(tape', p, Eod(tape', p) - 1)
    <3>1. a + 1 - 1 = a /\ a + 1 # 0
      BY <1>3
    <3>2. vol'.append[p] = a + 1
      BY <1>0, <1>1, <1>13 DEF Types, Vols
    <3>3. Eod(tape', p) - 1 = a /\ Pos(tape', vol', p) = a + 1
      BY <1>1, <1>3, <1>5, <1>15
    <3> QED
      BY <1>5, <3>1, <3>2, <3>3
  <2>2. Pos(tape', vol', "ip") \in 4 .. Eod(tape', "ip")
    <3>1. CASE p = "ip"
      BY <1>3, <1>5, <1>15, <2>1, <3>1
    <3>2. CASE p # "ip"
      BY <1>0, <1>2, <1>6, <1>15, <1>21, <3>2 DEF Ready
    <3> QED
      BY <3>1, <3>2
  <2>3. Pos(tape', vol', "dp") = Eod(tape', "dp") /\ ~ IndexAt(tape', "dp", Eod(tape', "dp") - 1)
    <3>1. CASE p = "dp"
      BY <2>1, <3>1
    <3>2. CASE p # "dp"
      <4>1. Pos(tape, vol, "dp") = Eod(tape, "dp") /\ ~ IndexAt(tape, "dp", Eod(tape, "dp") - 1)
        BY <1>0, <1>1, <1>2 DEF Ready, Here
      <4>2. Eod(tape, "dp") - 1 \in Nat
        BY <1>0, <1>21, AtTyped, SMTT(20) DEF Types
      <4> QED
        BY <1>6, <1>15, <1>21, <3>2, <4>1, <4>2
    <3> QED
      BY <3>1, <3>2
  <2> QED
    BY <1>11, <2>1, <2>2, <2>3 DEF Ready, Here
<1>23. Memory'
  <2>1. vol.gen \in Nat /\ best.gen \in Nat /\ vol.gen >= best.gen
    BY <1>0, <1>2 DEF Types, Vols, Documents, Memory
  <2>2. vol'.gen >= best'.gen
    BY <1>9, <1>13, <2>1
  <2>3. vol'.gen = best'.gen => vol'.tree = best'.tree
    BY <1>0, <1>2, <1>9, <1>13, <2>1 DEF Clean
  <2>4. vol'.self = [p |-> p, b |-> Pos(tape', vol', p)]
    BY <1>1, <1>13, <1>15
  <2>5. p = "ip" => vol'.back = best'.self /\ best'.self.p = "dp"
    BY <1>7, <1>8, <1>9, <1>13
  <2>6. p = "dp" => BackTrue(tape', "dp", vol'.self.b, vol'.back)
    <3> SUFFICES ASSUME p = "dp" PROVE BackTrue(tape', "dp", a + 1, vol'.back)
      BY <1>13
    <3>1. \A b \in Nat : IndexAt(tape, "dp", b) => b < a - 1
      <4> SUFFICES ASSUME NEW b \in Nat, IndexAt(tape, "dp", b) PROVE b < a - 1
        OBVIOUS
      <4>1. b \in 4 .. Eod(tape, "dp") - 1
        BY <1>0, <1>21, IndexRange DEF Types
      <4>2. ~ IndexAt(tape, "dp", Eod(tape, "dp") - 1)
        BY <1>0, <1>1, <1>2 DEF Ready, Here
      <4> QED
        BY <1>3, <4>1, <4>2
    <3>2. \A b \in Nat : IndexAt(tape, "dp", b) => b < a + 1 - 2 /\ IndexAt(tape', "dp", b)
      BY <1>3, <1>5, <3>1
    <3>3. vol'.back = NoPtr \/ (vol'.back.p = "dp" /\ vol'.back.b \in Nat /\ IndexAt(tape, "dp", vol'.back.b))
      <4>1. CASE vol.self.p = "dp"
        <5>1. vol'.back = best.self /\ best.self.p = "dp" /\ best.self.b \in Nat
              /\ IndexAt(tape, best.self.p, best.self.b)
          BY <1>0, <1>7, <1>13, <4>1, NewestIs DEF LastIndex
        <5> QED
          BY <5>1
      <4>2. CASE vol.self.p # "dp"
        <5>1. vol.back.b \in Nat
          BY <1>0 DEF Types, Vols, Ptrs
        <5> QED
          BY <1>7, <1>13, <4>2, <5>1
      <4> QED
        BY <4>1, <4>2
    <3>4. CASE vol'.back = NoPtr
      BY <3>4 DEF BackTrue
    <3>5. CASE vol'.back.p = "dp" /\ vol'.back.b \in Nat /\ IndexAt(tape, "dp", vol'.back.b)
      <4>1. vol'.back.b < a + 1 - 2 /\ IndexAt(tape', "dp", vol'.back.b)
        BY <3>2, <3>5
      <4> QED
        BY <1>3, <3>5, <4>1 DEF BackTrue
    <3> QED
      BY <3>3, <3>4, <3>5
  <2> QED
    BY <1>11, <2>2, <2>3, <2>4, <2>5, <2>6 DEF Memory, Between, Writing, Written
<1>24. Ends'
  <2> SUFFICES ASSUME NEW q \in Parts, vol'.end[q], q # p
               PROVE  (\E b \in Nat : LastIndex(tape', q, b) /\ Closed(tape', q, b)) /\ CohTrue(q)'
    BY <1>11 DEF Ends
  <2>1. (\E b \in Nat : LastIndex(tape, q, b) /\ Closed(tape, q, b)) /\ CohTrue(q)
    BY <1>0, <1>1, <1>2, <1>13 DEF Ends, Ahead
  <2>2. vol.coh[q].set \in Nat
    BY <1>0 DEF Types, Vols, Cohs
  <2>3. \E b \in Nat : LastIndex(tape', q, b) /\ Closed(tape', q, b)
    BY <1>6, <2>1
  <2>4. CohTrue(q)'
    BY <1>6, <1>13, <2>1, <2>2 DEF CohTrue, EndsIn
  <2> QED
    BY <2>3, <2>4
<1>25. Order'
  BY <1>1, <1>8, <1>11, <1>13, <1>21 DEF Order, Here, Parts
<1>26. Found'
  BY <1>11 DEF Found
<1> QED
  BY <1>9, <1>13, <1>14, <1>17, <1>18, <1>19, <1>20, <1>22, <1>23, <1>24, <1>25, <1>26 DEF CommitInv

(* The first part of a document. *)
LEMMA PartStep ==
    ASSUME CommitInv, IndexPart
    PROVE  CommitInv' /\ best' = best /\ vol'.tree = vol.tree
<1> SUFFICES ASSUME NEW p, p = Now.p, NEW a, a = Pos(tape, vol, p)
             PROVE  CommitInv' /\ best' = best /\ vol'.tree = vol.tree
  OBVIOUS
<1>0. Types /\ Queue /\ Sound(tape, best) /\ Files /\ Below /\ Ready /\ Memory /\ Clean /\ Ends /\ Order
  BY DEF CommitInv
<1>1. todo # <<>> /\ Now.op = "part" /\ p \in Parts /\ Part = p /\ todo \in Seq(Ops) /\ Chain(todo)
  BY <1>0, NowIs DEF IndexPart, Types, Queue
<1>2. Active /\ vol.tree # None /\ ~ vol.broken
  BY <1>0, <1>1 DEF Queue, Active
<1>3. a \in 4 .. Eod(tape, p) /\ a \in Nat /\ a = Eod(tape, p) /\ Eod(tape, p) \in Nat
      /\ vol.append[p] # 0 /\ a = vol.append[p] /\ At(tape, p, a - 1) = Fm
  BY <1>0, <1>1, <1>2, AppendIn, AtTyped DEF Types, Ready
<1>4. Put(vol, p, Torn) /\ Torn \in Records /\ Torn \notin Documents
  BY <1>1, Kinds DEF IndexPart
<1>5. /\ tape' \in Tapes /\ Eod(tape', p) = a + 1 /\ At(tape', p, a) = Torn /\ ~ IndexAt(tape', p, a)
      /\ \A b \in Nat : b < a => At(tape', p, b) = At(tape, p, b) /\ (IndexAt(tape', p, b) <=> IndexAt(tape, p, b))
  BY <1>0, <1>1, <1>3, <1>4, PutBlocks, ZenonT(30)
<1>6. \A q \in Parts : q # p =>
        /\ Eod(tape', q) = Eod(tape, q)
        /\ \A b \in Nat : /\ At(tape', q, b) = At(tape, q, b)
                          /\ IndexAt(tape', q, b) <=> IndexAt(tape, q, b)
                          /\ LastIndex(tape', q, b) <=> LastIndex(tape, q, b)
                          /\ Closed(tape', q, b) <=> Closed(tape, q, b)
  BY <1>0, <1>1, <1>3, <1>4, PutOther
<1>7. /\ vol.gen >= best.gen /\ (vol.gen = best.gen => vol.tree = best.tree)
      /\ vol.self = [p |-> p, b |-> a]
      /\ p = "ip" => vol.back = best.self /\ best.self.p = "dp"
      /\ p = "dp" => BackTrue(tape, "dp", a, vol.back)
  BY <1>0, <1>1, <1>2 DEF Memory, Writing
<1>9. Sound(tape', best) /\ best' = best
  BY <1>0, <1>1, <1>3, <1>4, <1>7, PlainPut
<1>10. todo' = Tail(todo) /\ phase' = phase /\ pending' = pending /\ sync' = sync /\ used' = used
       /\ vol' = vol
  BY DEF IndexPart
<1>11. /\ todo' \in Seq(Ops) /\ Chain(todo)' /\ Now'.op = "doc" /\ Now'.p = p /\ todo' # <<>>
  BY <1>1, <1>10, TailStep DEF Follows, Opened
<1>14. Types'
  BY <1>0, <1>4, <1>5, <1>9, <1>10, <1>11, PutMam DEF Types
<1>15. \A q \in Parts : Pos(tape', vol', q) = Pos(tape, vol, q)
  <2> TAKE q \in Parts
  <2>1. CASE q = p
    BY <1>3, <1>10, <2>1 DEF Pos
  <2>2. CASE q # p
    BY <1>6, <1>10, <2>2 DEF Pos
  <2> QED
    BY <2>1, <2>2
<1>16. \A r \in best.tree.refs \cup pending \cup vol.tree.refs :
         At(tape', r.p, r.b) = r.rec /\ r.p \in Parts /\ r.b \in Nat /\ r.b < Pos(tape, vol, r.p)
  <2>1. \A r \in best.tree.refs \cup pending \cup vol.tree.refs : r.p \in Parts /\ r.b \in Nat
    BY <1>0, <1>2 DEF Types, Documents, Trees, Refs, Vols
  <2> QED
    BY <1>0, <1>1, <1>2, <1>3, <1>4, <2>1, PutKept DEF Below
<1>17. Queue'
  BY <1>0, <1>2, <1>10, <1>11 DEF Queue
<1>18. Sound(tape, best)' /\ MamTrue' /\ Clean'
  BY <1>0, <1>4, <1>9, <1>10, PutMam DEF Clean
<1>19. Files'
  BY <1>2, <1>9, <1>10, <1>16 DEF Files, Kept
<1>20. Below'
  BY <1>9, <1>10, <1>15, <1>16 DEF Below
<1>21. Active' /\ "ip" \in Parts /\ "dp" \in Parts /\ "ip" # "dp"
  BY <1>2, <1>10 DEF Active, Parts
<1>22. Ready'
  <2>1. Eod(tape', p) - 1 = a /\ Eod(tape', p) - 2 = a - 1 /\ a - 1 < a /\ a - 1 \in Nat
    BY <1>3, <1>5
  <2>2. At(tape', p, a - 1) = Fm
    BY <1>3, <1>5, <2>1
  <2>3. Pos(tape', vol', p) = a /\ vol'.append[p] # 0
    BY <1>1, <1>3, <1>10, <1>15
  <2>4. Pos(tape', vol', "ip") \in 4 .. Eod(tape', "ip")
    <3>1. CASE p = "ip"
      BY <1>3, <1>5, <2>3, <3>1
    <3>2. CASE p # "ip"
      BY <1>0, <1>2, <1>6, <1>15, <1>21, <3>2 DEF Ready
    <3> QED
      BY <3>1, <3>2
  <2>5. p # "dp" => Pos(tape', vol', "dp") = Eod(tape', "dp") /\ ~ IndexAt(tape', "dp", Eod(tape', "dp") - 1)
    <3> SUFFICES ASSUME p # "dp"
                 PROVE Pos(tape', vol', "dp") = Eod(tape', "dp") /\ ~ IndexAt(tape', "dp", Eod(tape', "dp") - 1)
      OBVIOUS
    <3>1. Pos(tape, vol, "dp") = Eod(tape, "dp") /\ ~ IndexAt(tape, "dp", Eod(tape, "dp") - 1)
      BY <1>0, <1>1, <1>2 DEF Ready, Here
    <3>2. Eod(tape, "dp") - 1 \in Nat
      BY <1>0, <1>21, AtTyped, SMTT(20) DEF Types
    <3> QED
      BY <1>6, <1>15, <1>21, <3>1, <3>2
  <2> QED
    BY <1>1, <1>5, <1>11, <2>1, <2>2, <2>3, <2>4, <2>5 DEF Ready, Here
<1>23. Memory'
  <2>1. p = "dp" => BackTrue(tape', "dp", a, vol'.back)
    <3> SUFFICES ASSUME p = "dp" PROVE BackTrue(tape', "dp", a, vol'.back)
      OBVIOUS
    <3>1. vol.back.b \in Nat
      BY <1>0 DEF Types, Vols, Ptrs
    <3>2. CASE vol.back = NoPtr
      BY <1>10, <3>2 DEF BackTrue
    <3>3. CASE vol.back.p = "dp" /\ IndexAt(tape, "dp", vol.back.b) /\ vol.back.b < a - 2
      <4>1. vol.back.b < a
        BY <1>3, <3>1, <3>3
      <4> QED
        BY <1>5, <1>10, <3>1, <3>3, <4>1 DEF BackTrue
    <3> QED
      BY <1>7, <3>2, <3>3 DEF BackTrue
  <2>2. vol'.self = [p |-> p, b |-> Pos(tape', vol', p)] /\ vol'.self.b = a
    BY <1>1, <1>7, <1>10, <1>15
  <2> QED
    BY <1>7, <1>9, <1>10, <1>11, <2>1, <2>2 DEF Memory, Between, Writing, Written
<1>24. Ends'
  <2> SUFFICES ASSUME NEW q \in Parts, vol'.end[q], q # p
               PROVE  (\E b \in Nat : LastIndex(tape', q, b) /\ Closed(tape', q, b)) /\ CohTrue(q)'
    BY <1>11 DEF Ends
  <2>1. (\E b \in Nat : LastIndex(tape, q, b) /\ Closed(tape, q, b)) /\ CohTrue(q)
    BY <1>0, <1>1, <1>2, <1>10 DEF Ends, Ahead
  <2>2. vol.coh[q].set \in Nat
    BY <1>0 DEF Types, Vols, Cohs
  <2>3. \E b \in Nat : LastIndex(tape', q, b) /\ Closed(tape', q, b)
    BY <1>6, <2>1
  <2>4. CohTrue(q)'
    BY <1>6, <1>10, <2>1, <2>2 DEF CohTrue, EndsIn
  <2> QED
    BY <2>3, <2>4
<1>25. Order'
  BY <1>0, <1>1, <1>2, <1>7, <1>10, <1>11, <1>21 DEF Order, Here, Parts
<1>26. Found'
  BY <1>11 DEF Found
<1> QED
  BY <1>9, <1>10, <1>14, <1>17, <1>18, <1>19, <1>20, <1>22, <1>23, <1>24, <1>25, <1>26 DEF CommitInv

(* The document: it becomes the newest index of the volume. *)
LEMMA DocStep ==
    ASSUME CommitInv, IndexDoc
    PROVE  CommitInv' /\ best'.tree = vol.tree /\ vol'.tree = vol.tree /\ vol.tree # None
<1> SUFFICES ASSUME NEW p, p = Now.p, NEW a, a = Pos(tape, vol, p)
             PROVE  CommitInv' /\ best'.tree = vol.tree /\ vol'.tree = vol.tree /\ vol.tree # None
  OBVIOUS
<1> DEFINE doc == [k |-> "index", gen |-> vol.gen, self |-> vol.self, back |-> vol.back, tree |-> vol.tree]
<1>0. Types /\ Queue /\ Sound(tape, best) /\ Files /\ Below /\ Ready /\ Memory /\ Clean /\ Ends /\ Order
  BY DEF CommitInv
<1>1. todo # <<>> /\ Now.op = "doc" /\ p \in Parts /\ Part = p /\ todo \in Seq(Ops) /\ Chain(todo)
  BY <1>0, NowIs DEF IndexDoc, Types, Queue
<1>2. Active /\ vol.tree # None /\ ~ vol.broken
  BY <1>0, <1>1 DEF Queue, Active
<1>3. a \in Nat /\ a = Eod(tape, p) - 1 /\ Eod(tape, p) \in Nat /\ a - 1 = Eod(tape, p) - 2
      /\ vol.append[p] # 0 /\ At(tape, p, a) = Torn /\ At(tape, p, a - 1) = Fm
  <2>1. a \in Nat /\ Eod(tape, p) \in Nat
    BY <1>0, <1>1, <1>2, AppendIn, AtTyped DEF Types
  <2>2. a = Eod(tape, p) - 1 /\ vol.append[p] # 0 /\ At(tape, p, Eod(tape, p) - 1) = Torn
        /\ At(tape, p, Eod(tape, p) - 2) = Fm
    BY <1>0, <1>1, <1>2 DEF Ready
  <2>3. Eod(tape, p) - 2 = a - 1
    BY <2>1, <2>2
  <2> QED
    BY <2>1, <2>2, <2>3
<1>31. a \in 5 .. Eod(tape, p) /\ a \in 4 .. Eod(tape, p) /\ a - 1 \in Nat
  <2>1. a - 1 \in Nat => a - 1 \in 4 .. Eod(tape, p) - 1
    BY <1>0, <1>1, <1>3, AtTyped, Kinds, SMTT(20) DEF Types
  <2>2. a \in 4 .. Eod(tape, p) - 1
    BY <1>0, <1>1, <1>3, AtTyped, Kinds DEF Types
  <2> QED
    BY <1>3, <2>1, <2>2
<1>4. doc \in Documents /\ doc \in Records
  BY <1>0, <1>2 DEF Types, Vols, Documents, Records
<1>41. doc.gen = vol.gen /\ doc.self = vol.self /\ doc.back = vol.back /\ doc.tree = vol.tree
  OBVIOUS
<1>42. Put(vol, p, doc)
  BY <1>1 DEF IndexDoc
<1> HIDE DEF doc
<1>5. /\ tape' \in Tapes /\ Eod(tape', p) = a + 1 /\ At(tape', p, a) = doc /\ IndexAt(tape', p, a)
      /\ tape' = Cut(tape, p, a, doc) /\ best' = Picked(tape')
      /\ \A b \in Nat : b < a => At(tape', p, b) = At(tape, p, b) /\ (IndexAt(tape', p, b) <=> IndexAt(tape, p, b))
      /\ \A b \in Nat : b > a => ~ IndexAt(tape', p, b)
  BY <1>0, <1>1, <1>31, <1>4, <1>42, PutBlocks
<1>6. \A q \in Parts : q # p =>
        /\ Eod(tape', q) = Eod(tape, q)
        /\ \A b \in Nat : /\ At(tape', q, b) = At(tape, q, b)
                          /\ IndexAt(tape', q, b) <=> IndexAt(tape, q, b)
                          /\ LastIndex(tape', q, b) <=> LastIndex(tape, q, b)
                          /\ Closed(tape', q, b) <=> Closed(tape, q, b)
  BY <1>0, <1>1, <1>31, <1>4, <1>42, PutOther
<1>7. /\ vol.gen >= best.gen /\ (vol.gen = best.gen => vol.tree = best.tree)
      /\ vol.self = [p |-> p, b |-> a]
      /\ p = "ip" => vol.back = best.self /\ best.self.p = "dp"
      /\ p = "dp" => BackTrue(tape, "dp", a, vol.back)
  BY <1>0, <1>1, <1>2 DEF Memory, Writing
<1>8. best.gen \in Nat /\ tape \in Tapes
  BY <1>0 DEF Types, Documents
<1>9. Sound(tape', doc)
  <2>1. CASE p = "dp"
    <3>1. \A b \in Nat : IndexAt(tape, "dp", b) => b \in 4 .. Eod(tape, "dp") - 1
      BY <1>1, <1>8, <2>1, IndexRange
    <3>2. ~ IndexAt(tape, "dp", a)
      BY <1>3, <2>1, Kinds DEF IndexAt
    <3>3. \A b \in Nat : IndexAt(tape, "dp", b) => b < a
      BY <1>3, <2>1, <3>1, <3>2
    <3> QED
      BY <1>0, <1>3, <1>31, <1>4, <1>41, <1>5, <1>7, <1>8, <2>1, <3>3, CommitDp
  <2>2. CASE p = "ip"
    BY <1>0, <1>3, <1>31, <1>4, <1>41, <1>5, <1>7, <1>8, <2>2, CommitIp
  <2> QED
    BY <1>1, <2>1, <2>2 DEF Parts
<1>91. best' = doc /\ best'.tree = vol.tree
  BY <1>41, <1>5, <1>9, PickedIs
<1>10. todo' = Tail(todo) /\ phase' = phase /\ pending' = pending /\ sync' = sync /\ used' = used
       /\ vol' = Moved(vol, p)
  BY <1>1 DEF IndexDoc
<1>11. /\ todo' \in Seq(Ops) /\ Chain(todo)' /\ Now'.op = "close" /\ Now'.p = p /\ todo' # <<>>
  BY <1>1, <1>10, TailStep DEF Follows, Opened
<1>13. /\ vol' \in Vols
       /\ vol'.tree = vol.tree /\ vol'.dirty = vol.dirty /\ vol'.broken = vol.broken /\ vol'.kind = vol.kind
       /\ vol'.end = vol.end /\ vol'.coh = vol.coh
       /\ vol'.gen = vol.gen /\ vol'.back = vol.back /\ vol'.self = vol.self
       /\ vol'.append = [vol.append EXCEPT ![p] = a + 1]
  <2>1. vol \in Vols /\ a + 1 \in Nat
    BY <1>0, <1>3, SMTT(20) DEF Types
  <2>2. vol' = [vol EXCEPT !.append = [vol.append EXCEPT ![p] = a + 1]]
    BY <1>10 DEF Moved, Pos, AppendPos
  <2>3. [vol.append EXCEPT ![p] = a + 1] \in [Parts -> Nat]
    BY <2>1 DEF Vols
  <2> QED
    BY <2>1, <2>2, <2>3 DEF Vols
<1>14. Types'
  BY <1>0, <1>4, <1>42, <1>5, <1>91, <1>10, <1>11, <1>13, PutMam DEF Types
<1>15. \A q \in Parts : Pos(tape', vol', q) = IF q = p THEN a + 1 ELSE Pos(tape, vol, q)
  BY <1>0, <1>1, <1>3, <1>6, <1>13, <1>14, AppendMoves, ZenonT(30)
<1>16. \A r \in best.tree.refs \cup pending \cup vol.tree.refs :
         At(tape', r.p, r.b) = r.rec /\ r.p \in Parts /\ r.b \in Nat /\ r.b < Pos(tape, vol, r.p)
  <2>1. \A r \in best.tree.refs \cup pending \cup vol.tree.refs : r.p \in Parts /\ r.b \in Nat
    BY <1>0, <1>2 DEF Types, Documents, Trees, Refs, Vols
  <2> QED
    BY <1>0, <1>1, <1>2, <1>31, <1>4, <1>42, <2>1, PutKept DEF Below
<1>17. Queue'
  BY <1>0, <1>2, <1>10, <1>11, <1>13 DEF Queue
<1>18. Sound(tape, best)' /\ MamTrue' /\ Clean'
  BY <1>0, <1>4, <1>42, <1>9, <1>91, <1>13, PutMam DEF Clean
<1>19. Files'
  BY <1>2, <1>91, <1>10, <1>13, <1>16 DEF Files, Kept
<1>20. Below'
  <2>1. ASSUME NEW r \in pending \cup vol.tree.refs PROVE r.b < Pos(tape', vol', r.p)
    <3>1. r.p \in Parts /\ r.b \in Nat /\ r.b < Pos(tape, vol, r.p)
      BY <1>16
    <3>2. CASE r.p = p
      <4>1. r.b < a /\ Pos(tape', vol', r.p) = a + 1
        BY <1>1, <1>15, <3>1, <3>2
      <4>2. a \in Nat
        BY <1>3
      <4> QED
        BY <3>1, <4>1, <4>2
    <3>3. CASE r.p # p
      BY <1>15, <3>1, <3>3
    <3> QED
      BY <3>2, <3>3
  <2> QED
    BY <1>91, <1>10, <1>13, <2>1 DEF Below
<1>21. Active' /\ "ip" \in Parts /\ "dp" \in Parts /\ "ip" # "dp"
  BY <1>2, <1>13 DEF Active, Parts
<1>22. Ready'
  <2>1. Pos(tape', vol', p) = Eod(tape', p)
    BY <1>1, <1>5, <1>15
  <2>2. Pos(tape', vol', "ip") \in 4 .. Eod(tape', "ip")
    <3>1. CASE p = "ip"
      BY <1>3, <1>31, <1>5, <1>15, <2>1, <3>1
    <3>2. CASE p # "ip"
      BY <1>0, <1>2, <1>6, <1>15, <1>21, <3>2 DEF Ready
    <3> QED
      BY <3>1, <3>2
  <2>3. p # "dp" => Pos(tape', vol', "dp") = Eod(tape', "dp") /\ ~ IndexAt(tape', "dp", Eod(tape', "dp") - 1)
    <3> SUFFICES ASSUME p # "dp"
                 PROVE Pos(tape', vol', "dp") = Eod(tape', "dp") /\ ~ IndexAt(tape', "dp", Eod(tape', "dp") - 1)
      OBVIOUS
    <3>1. Pos(tape, vol, "dp") = Eod(tape, "dp") /\ ~ IndexAt(tape, "dp", Eod(tape, "dp") - 1)
      BY <1>0, <1>1, <1>2 DEF Ready, Here
    <3>2. Eod(tape, "dp") - 1 \in Nat
      BY <1>0, <1>21, AtTyped, SMTT(20) DEF Types
    <3> QED
      BY <1>6, <1>15, <1>21, <3>1, <3>2
  <2> QED
    BY <1>1, <1>11, <2>1, <2>2, <2>3 DEF Ready, Here
<1>23. Memory'
  <2>1. vol'.gen = best'.gen /\ vol'.self = best'.self /\ vol'.tree = best'.tree /\ vol'.gen \in Nat
    BY <1>41, <1>91, <1>13 DEF Vols
  <2>2. vol'.self.p = p /\ vol'.self.b = a
    BY <1>7, <1>13
  <2>3. LastIndex(tape', p, a)
    BY <1>3, <1>5 DEF LastIndex
  <2>4. vol'.back = NoPtr \/ (vol'.back.p = "dp" /\ IndexAt(tape', "dp", vol'.back.b))
    <3>1. vol.back.b \in Nat
      BY <1>0 DEF Types, Vols, Ptrs
    <3>2. CASE p = "dp"
      <4>1. CASE vol.back = NoPtr
        BY <1>13, <4>1
      <4>2. CASE vol.back.p = "dp" /\ IndexAt(tape, "dp", vol.back.b) /\ vol.back.b < a - 2
        <5>1. vol.back.b < a
          BY <1>3, <3>1, <4>2
        <5> QED
          BY <1>5, <1>13, <3>1, <3>2, <4>2, <5>1
      <4> QED
        BY <1>7, <3>2, <4>1, <4>2 DEF BackTrue
    <3>3. CASE p = "ip"
      <4>1. vol.back.p = "dp" /\ IndexAt(tape, "dp", vol.back.b)
        BY <1>0, <1>7, <3>3, NewestIs DEF LastIndex
      <4> QED
        BY <1>6, <1>13, <1>21, <3>1, <3>3, <4>1
    <3> QED
      BY <1>1, <3>2, <3>3 DEF Parts
  <2> QED
    BY <1>1, <1>5, <1>11, <2>1, <2>2, <2>3, <2>4 DEF Memory, Between, Writing, Written, Parts
<1>24. Ends'
  <2> SUFFICES ASSUME NEW q \in Parts, vol'.end[q], q # p
               PROVE  (\E b \in Nat : LastIndex(tape', q, b) /\ Closed(tape', q, b)) /\ CohTrue(q)'
    BY <1>11 DEF Ends
  <2>1. (\E b \in Nat : LastIndex(tape, q, b) /\ Closed(tape, q, b)) /\ CohTrue(q)
    BY <1>0, <1>1, <1>2, <1>13 DEF Ends, Ahead
  <2>2. vol.coh[q].set \in Nat
    BY <1>0 DEF Types, Vols, Cohs
  <2>3. \E b \in Nat : LastIndex(tape', q, b) /\ Closed(tape', q, b)
    BY <1>6, <2>1
  <2>4. CohTrue(q)'
    BY <1>6, <1>13, <2>1, <2>2 DEF CohTrue, EndsIn
  <2> QED
    BY <2>3, <2>4
<1>25. Order'
  BY <1>0, <1>1, <1>2, <1>7, <1>13, <1>11, <1>21 DEF Order, Here, Parts
<1>26. Found'
  BY <1>11 DEF Found
<1> QED
  BY <1>2, <1>91, <1>13, <1>14, <1>17, <1>18, <1>19, <1>20, <1>22, <1>23, <1>24, <1>25, <1>26 DEF CommitInv

(* The file mark behind an index. *)
LEMMA CloseStep ==
    ASSUME CommitInv, IndexClose
    PROVE  CommitInv' /\ best' = best /\ vol'.tree = vol.tree
<1> SUFFICES ASSUME NEW p, p = Now.p, NEW a, a = Pos(tape, vol, p)
             PROVE  CommitInv' /\ best' = best /\ vol'.tree = vol.tree
  OBVIOUS
<1>0. Types /\ Queue /\ Sound(tape, best) /\ Files /\ Below /\ Ready /\ Memory /\ Clean /\ Ends /\ Order
  BY DEF CommitInv
<1>1. todo # <<>> /\ Now.op = "close" /\ p \in Parts /\ Part = p /\ todo \in Seq(Ops) /\ Chain(todo)
  BY <1>0, NowIs DEF IndexClose, Types, Queue
<1>2. Active /\ vol.tree # None /\ ~ vol.broken
  BY <1>0, <1>1 DEF Queue, Active
<1>3. a \in Nat /\ a = Eod(tape, p) /\ Eod(tape, p) \in Nat /\ a \in 4 .. Eod(tape, p)
  BY <1>0, <1>1, <1>2, AppendIn, AtTyped DEF Types, Ready
<1>31. /\ vol.self = best.self /\ vol.gen = best.gen /\ vol.tree = best.tree /\ p = vol.self.p
       /\ Eod(tape, p) = vol.self.b + 1 /\ vol.self.b \in Nat
       /\ LastIndex(tape, p, vol.self.b) /\ vol.self.b < a /\ a = vol.self.b + 1
  <2>1. vol.self = best.self /\ vol.gen = best.gen /\ vol.tree = best.tree /\ p = vol.self.p
        /\ Eod(tape, p) = vol.self.b + 1
    BY <1>0, <1>1, <1>2 DEF Memory, Written
  <2>2. vol.self.b \in Nat /\ LastIndex(tape, p, vol.self.b)
    BY <1>0, <2>1, NewestIs
  <2> QED
    BY <1>3, <2>1, <2>2
<1>4. Put(vol, p, Fm) /\ Fm \in Records /\ Fm \notin Documents
  BY <1>1, Kinds DEF IndexClose
<1>5. /\ tape' \in Tapes /\ Eod(tape', p) = a + 1 /\ At(tape', p, a) = Fm /\ ~ IndexAt(tape', p, a)
      /\ tape' = Cut(tape, p, a, Fm) /\ best' = Picked(tape')
      /\ \A b \in Nat : b < a => At(tape', p, b) = At(tape, p, b) /\ (IndexAt(tape', p, b) <=> IndexAt(tape, p, b))
      /\ \A b \in Nat : b > a => ~ IndexAt(tape', p, b)
  BY <1>0, <1>1, <1>3, <1>4, PutBlocks, ZenonT(30)
<1>6. \A q \in Parts : q # p =>
        /\ Eod(tape', q) = Eod(tape, q)
        /\ \A b \in Nat : /\ At(tape', q, b) = At(tape, q, b)
                          /\ IndexAt(tape', q, b) <=> IndexAt(tape, q, b)
                          /\ LastIndex(tape', q, b) <=> LastIndex(tape, q, b)
                          /\ Closed(tape', q, b) <=> Closed(tape, q, b)
  BY <1>0, <1>1, <1>3, <1>4, PutOther
<1>9. Sound(tape', best) /\ best' = best
  <2>1. CASE p = "dp"
    BY <1>0, <1>1, <1>3, <1>4, <2>1, PlainPut
  <2>2. CASE p = "ip"
    <3>1. tape \in Tapes
      BY <1>0 DEF Types
    <3>2. Sound(tape', best)
      BY <1>0, <1>31, <1>5, <2>2, <3>1, CloseIp
    <3> QED
      BY <1>5, <3>2, PickedIs
  <2> QED
    BY <1>1, <2>1, <2>2 DEF Parts
<1>10. todo' = Tail(todo) /\ phase' = phase /\ pending' = pending /\ sync' = sync /\ used' = used
       /\ vol' = [Moved(vol, p) EXCEPT !.end[p] = TRUE]
  BY <1>1 DEF IndexClose
<1>11. /\ todo' \in Seq(Ops) /\ Chain(todo)' /\ Now'.op = "coherency" /\ Now'.p = "ip" /\ todo' # <<>>
       /\ todo'[3].op = "done" /\ todo'[3].p = p
  BY <1>1, <1>10, TailStep DEF Follows, Opened
<1>13. /\ vol' \in Vols
       /\ vol'.tree = vol.tree /\ vol'.dirty = vol.dirty /\ vol'.broken = vol.broken /\ vol'.kind = vol.kind
       /\ vol'.end = [vol.end EXCEPT ![p] = TRUE] /\ vol'.coh = vol.coh
       /\ vol'.gen = vol.gen /\ vol'.back = vol.back /\ vol'.self = vol.self
       /\ vol'.append = [vol.append EXCEPT ![p] = a + 1]
  <2>1. vol \in Vols /\ a + 1 \in Nat
    BY <1>0, <1>3 DEF Types
  <2>2. vol' = [vol EXCEPT !.append = [vol.append EXCEPT ![p] = a + 1], !.end = [vol.end EXCEPT ![p] = TRUE]]
    BY <1>10, <2>1 DEF Moved, Pos, AppendPos, Vols
  <2>3. [vol.append EXCEPT ![p] = a + 1] \in [Parts -> Nat] /\ [vol.end EXCEPT ![p] = TRUE] \in [Parts -> BOOLEAN]
    BY <2>1 DEF Vols
  <2> QED
    BY <2>1, <2>2, <2>3 DEF Vols
<1>14. Types'
  BY <1>0, <1>4, <1>5, <1>9, <1>10, <1>11, <1>13, PutMam DEF Types
<1>15. \A q \in Parts : Pos(tape', vol', q) = IF q = p THEN a + 1 ELSE Pos(tape, vol, q)
  <2>1. Pos(tape, vol, p) \in Nat /\ vol'.append = [vol.append EXCEPT ![p] = Pos(tape, vol, p) + 1]
    BY <1>3, <1>13
  <2> QED
    BY <1>0, <1>1, <1>6, <1>14, <2>1, AppendMoves
<1>16. \A r \in best.tree.refs \cup pending \cup vol.tree.refs :
         At(tape', r.p, r.b) = r.rec /\ r.p \in Parts /\ r.b \in Nat /\ r.b < Pos(tape, vol, r.p)
  <2>1. \A r \in best.tree.refs \cup pending \cup vol.tree.refs : r.p \in Parts /\ r.b \in Nat
    BY <1>0, <1>2 DEF Types, Documents, Trees, Refs, Vols
  <2> QED
    BY <1>0, <1>1, <1>2, <1>3, <1>4, <2>1, PutKept DEF Below
<1>17. Queue'
  BY <1>0, <1>2, <1>10, <1>11, <1>13 DEF Queue
<1>18. Sound(tape, best)' /\ MamTrue' /\ Clean'
  BY <1>0, <1>4, <1>9, <1>13, PutMam DEF Clean
<1>19. Files'
  BY <1>2, <1>9, <1>10, <1>13, <1>16 DEF Files, Kept
<1>20. Below'
  <2>1. ASSUME NEW r \in best.tree.refs \cup pending \cup vol.tree.refs PROVE r.b < Pos(tape', vol', r.p)
    <3>1. r.p \in Parts /\ r.b \in Nat /\ r.b < Pos(tape, vol, r.p)
      BY <1>16
    <3>2. CASE r.p = p
      <4>1. r.b < a /\ Pos(tape', vol', r.p) = a + 1
        BY <1>1, <1>15, <3>1, <3>2
      <4>2. a \in Nat
        BY <1>3
      <4> QED
        BY <3>1, <4>1, <4>2
    <3>3. CASE r.p # p
      BY <1>15, <3>1, <3>3
    <3> QED
      BY <3>2, <3>3
  <2> QED
    BY <1>9, <1>10, <1>13, <2>1 DEF Below
<1>21. Active' /\ "ip" \in Parts /\ "dp" \in Parts /\ "ip" # "dp"
  BY <1>2, <1>13 DEF Active, Parts
<1>22. Ready'
  <2>1. Pos(tape', vol', p) = Eod(tape', p) /\ ~ IndexAt(tape', p, Eod(tape', p) - 1)
    <3>1. a + 1 - 1 = a
      BY <1>3
    <3>2. Eod(tape', p) - 1 = a
      BY <1>3, <1>5
    <3> QED
      BY <1>1, <1>5, <1>15, <3>2
  <2>2. Pos(tape', vol', "ip") \in 4 .. Eod(tape', "ip")
    <3>1. CASE p = "ip"
      BY <1>3, <1>5, <1>15, <2>1, <3>1
    <3>2. CASE p # "ip"
      BY <1>0, <1>2, <1>6, <1>15, <1>21, <3>2 DEF Ready
    <3> QED
      BY <3>1, <3>2
  <2>3. Pos(tape', vol', "dp") = Eod(tape', "dp") /\ ~ IndexAt(tape', "dp", Eod(tape', "dp") - 1)
    <3>1. CASE p = "dp"
      BY <2>1, <3>1
    <3>2. CASE p # "dp"
      <4>1. Pos(tape, vol, "dp") = Eod(tape, "dp") /\ ~ IndexAt(tape, "dp", Eod(tape, "dp") - 1)
        BY <1>0, <1>1, <1>2, <3>2 DEF Ready, Here
      <4>2. Eod(tape, "dp") - 1 \in Nat
        BY <1>0, <1>21, AtTyped, SMTT(20) DEF Types
      <4> QED
        BY <1>6, <1>15, <1>21, <3>2, <4>1, <4>2
    <3> QED
      BY <3>1, <3>2
  <2> QED
    BY <1>11, <2>2, <2>3 DEF Ready, Here
<1>221. LastIndex(tape', p, vol.self.b) /\ Closed(tape', p, vol.self.b)
  <2>1. IndexAt(tape', p, vol.self.b)
    BY <1>31, <1>5 DEF LastIndex
  <2>2. \A c \in Nat : IndexAt(tape', p, c) => c <= vol.self.b
    <3> SUFFICES ASSUME NEW c \in Nat, IndexAt(tape', p, c) PROVE c <= vol.self.b
      OBVIOUS
    <3>1. c < a
      BY <1>3, <1>5
    <3> QED
      BY <1>31, <3>1
  <2>3. Eod(tape', p) = vol.self.b + 2 /\ At(tape', p, vol.self.b + 1) = Fm
    BY <1>31, <1>5
  <2> QED
    BY <2>1, <2>2, <2>3 DEF LastIndex, Closed
<1>222. vol'.end[p] /\ \A q \in Parts : q # p => vol'.end[q] = vol.end[q]
  BY <1>0, <1>1, <1>13 DEF Types, Vols
<1>23. Memory'
  <2>4. vol'.back = NoPtr \/ (vol'.back.p = "dp" /\ IndexAt(tape', "dp", vol'.back.b))
    <3>1. vol.back.b \in Nat
      BY <1>0 DEF Types, Vols, Ptrs
    <3>2. CASE vol.back = NoPtr
      BY <1>13, <3>2
    <3>3. CASE vol.back.p = "dp" /\ IndexAt(tape, "dp", vol.back.b)
      <4>1. CASE p = "dp"
        <5>1. vol.back.b < a
          BY <1>0, <1>1, <1>3, <3>1, <3>3, <4>1, IndexRange DEF Types
        <5> QED
          BY <1>5, <1>13, <3>1, <3>3, <4>1, <5>1
      <4>2. CASE p # "dp"
        BY <1>6, <1>13, <1>21, <3>1, <3>3, <4>2
      <4> QED
        BY <4>1, <4>2
    <3> QED
      BY <1>0, <1>1, <1>2, <3>2, <3>3 DEF Memory, Between
  <2>5. best.gen \in Nat
    BY <1>0 DEF Types, Documents
  <2> QED
    BY <1>1, <1>9, <1>11, <1>13, <1>31, <1>221, <1>222, <2>4, <2>5 DEF Memory, Between, Writing, Written
<1>24. Ends'
  <2> SUFFICES ASSUME NEW q \in Parts, vol'.end[q]
               PROVE  (\E b \in Nat : LastIndex(tape', q, b) /\ Closed(tape', q, b)) /\ (Ahead(q)' \/ CohTrue(q)')
    BY DEF Ends
  <2>0. CASE q = p
    BY <1>11, <1>13, <1>31, <1>221, <2>0 DEF Ahead
  <2>a. CASE q # p
    <3>1. (\E b \in Nat : LastIndex(tape, q, b) /\ Closed(tape, q, b)) /\ CohTrue(q)
      BY <1>0, <1>1, <1>2, <1>222, <2>a DEF Ends, Ahead
    <3>2. vol.coh[q].set \in Nat
      BY <1>0 DEF Types, Vols, Cohs
    <3>3. \E b \in Nat : LastIndex(tape', q, b) /\ Closed(tape', q, b)
      BY <1>6, <3>1, <2>a
    <3>4. CohTrue(q)'
      BY <1>6, <1>13, <3>1, <3>2, <2>a DEF CohTrue, EndsIn
    <3> QED
      BY <3>3, <3>4
  <2> QED
    BY <2>0, <2>a
<1>25. Order'
  <2>1. p = "ip" => vol'.end["dp"]
    BY <1>0, <1>1, <1>2, <1>21, <1>222 DEF Order
  <2>2. p = "ip" \/ p = "dp"
    BY <1>1 DEF Parts
  <2>3. Returns(todo[3])'
    BY <1>11, <1>13, <1>31 DEF Returns
  <2> QED
    BY <1>11, <1>13, <1>21, <1>222, <1>31, <2>1, <2>2, <2>3 DEF Order, Here
<1>26. Found'
  BY <1>11 DEF Found
<1> QED
  BY <1>9, <1>13, <1>14, <1>17, <1>18, <1>19, <1>20, <1>22, <1>23, <1>24, <1>25, <1>26 DEF CommitInv

(* A partition has one last index. *)
LEMMA OneLast ==
    ASSUME NEW t, NEW p, NEW b \in Nat, NEW c \in Nat, LastIndex(t, p, b), LastIndex(t, p, c)
    PROVE  b = c
BY DEF LastIndex

(* The newest index, once it is closed, is what its partition ends in. *)
LEMMA ClosedNewest ==
    ASSUME Types, Sound(tape, best), NEW b \in Nat,
           LastIndex(tape, best.self.p, b), Closed(tape, best.self.p, b)
    PROVE  b = best.self.b /\ EndsIn(best.self.p, best.self.b, best.gen)
<1>1. best.self.b \in Nat /\ LastIndex(tape, best.self.p, best.self.b) /\ best = At(tape, best.self.p, best.self.b)
  BY NewestIs
<1>2. b = best.self.b
  BY <1>1, OneLast
<1> QED
  BY <1>1, <1>2 DEF EndsIn

(* ltfs_update_cart_coherency: what it stores is what the partition ends in. *)
LEMMA CoherencyStep ==
    ASSUME CommitInv, Coherency
    PROVE  CommitInv' /\ best' = best /\ vol'.tree = vol.tree
<1> SUFFICES ASSUME NEW p, p = Now.p PROVE CommitInv' /\ best' = best /\ vol'.tree = vol.tree
  OBVIOUS
<1> DEFINE c == IF vol.self.p = p THEN [count |-> vol.gen, set |-> vol.self.b] ELSE vol.coh[p]
<1>0. Types /\ Queue /\ Sound(tape, best) /\ MamTrue /\ Files /\ Below /\ Ready /\ Memory /\ Clean /\ Ends /\ Order
  BY DEF CommitInv
<1>1. todo # <<>> /\ Now.op = "coherency" /\ p \in Parts /\ Part = p /\ todo \in Seq(Ops) /\ Chain(todo)
  BY <1>0, NowIs DEF Coherency, Types, Queue
<1>2. Active /\ vol.tree # None /\ ~ vol.broken
  BY <1>0, <1>1 DEF Queue, Active
<1>3. vol.self = best.self /\ vol.gen = best.gen /\ vol.tree = best.tree /\ vol.end[vol.self.p]
  BY <1>0, <1>1, <1>2 DEF Memory, Written
<1>4. /\ tape' = tape /\ best' = best /\ phase' = phase /\ pending' = pending /\ sync' = sync /\ used' = used
      /\ todo' = Tail(todo)
      /\ IF vol.end[p] THEN /\ vol' = [vol EXCEPT !.coh[p] = c]
                            /\ mam' = [mam EXCEPT ![p] = [fresh |-> TRUE, count |-> c.count, set |-> c.set]]
         ELSE vol' = vol /\ mam' = mam
  BY <1>1 DEF Coherency
<1>5. c \in Cohs /\ c.count \in Nat /\ c.set \in Nat
  BY <1>0, <1>1 DEF Types, Vols, Cohs, Ptrs
<1>6. vol.end[p] => EndsIn(p, c.set, c.count)
  <2> SUFFICES ASSUME vol.end[p] PROVE EndsIn(p, c.set, c.count)
    OBVIOUS
  <2>1. PICK b \in Nat : LastIndex(tape, p, b) /\ Closed(tape, p, b)
    BY <1>0, <1>1, <1>2 DEF Ends
  <2>2. CASE vol.self.p = p
    <3>1. EndsIn(p, best.self.b, best.gen)
      BY <1>0, <1>3, <2>1, <2>2, ClosedNewest
    <3>2. c.set = best.self.b /\ c.count = best.gen
      BY <1>3, <2>2
    <3> QED
      BY <3>1, <3>2
  <2>3. CASE vol.self.p # p
    <3>1. CohTrue(p)
      BY <1>0, <1>1, <1>2, <2>3 DEF Ends, Ahead
    <3> QED
      BY <2>3, <3>1 DEF CohTrue
  <2> QED
    BY <2>2, <2>3
<1> HIDE DEF c
<1>7. /\ vol' \in Vols
      /\ vol'.tree = vol.tree /\ vol'.dirty = vol.dirty /\ vol'.broken = vol.broken /\ vol'.kind = vol.kind
      /\ vol'.end = vol.end /\ vol'.append = vol.append
      /\ vol'.gen = vol.gen /\ vol'.back = vol.back /\ vol'.self = vol.self
      /\ vol.end[p] => vol'.coh[p] = c
      /\ \A q \in Parts : (q # p \/ ~ vol.end[p]) => vol'.coh[q] = vol.coh[q]
  <2>1. vol \in Vols
    BY <1>0 DEF Types
  <2>2. CASE vol.end[p]
    <3>1. vol' = [vol EXCEPT !.coh = [vol.coh EXCEPT ![p] = c]] /\ vol.coh \in [Parts -> Cohs]
      BY <1>4, <2>1, <2>2 DEF Vols
    <3>2. [vol.coh EXCEPT ![p] = c] \in [Parts -> Cohs] /\ [vol.coh EXCEPT ![p] = c][p] = c
          /\ \A q \in Parts : q # p => [vol.coh EXCEPT ![p] = c][q] = vol.coh[q]
      BY <1>1, <1>5, <3>1
    <3> QED
      BY <2>1, <2>2, <3>1, <3>2 DEF Vols
  <2>3. CASE ~ vol.end[p]
    BY <1>4, <2>1, <2>3
  <2> QED
    BY <2>2, <2>3
<1>8. /\ todo' \in Seq(Ops) /\ Chain(todo)' /\ todo' # <<>> /\ Now' = todo[2]
      /\ p = "ip" => Now'.op = "coherency" /\ Now'.p = "dp" /\ todo'[2] = todo[3]
      /\ p = "dp" => Now'.op \in {"done", "finish"}
  BY <1>1, <1>4, TailStep DEF Follows, Opened
<1>81. Now'.op \in {"coherency", "done", "finish"} /\ "ip" \in Parts /\ "dp" \in Parts /\ "ip" # "dp"
  BY <1>1, <1>8 DEF Parts
<1>9. mam' \in [Parts -> [fresh : BOOLEAN, count : Nat, set : Nat]] /\ MamTrue'
  <2>1. mam \in [Parts -> [fresh : BOOLEAN, count : Nat, set : Nat]]
    BY <1>0 DEF Types
  <2>2. CASE vol.end[p]
    <3>1. mam'[p] = [fresh |-> TRUE, count |-> c.count, set |-> c.set]
          /\ \A q \in Parts : q # p => mam'[q] = mam[q]
      BY <1>1, <1>4, <2>1, <2>2
    <3>2. mam'[p].count = c.count /\ mam'[p].set = c.set
      BY <3>1
    <3>3. \A q \in Parts : mam'[q].fresh => EndsIn(q, mam'[q].set, mam'[q].count)
      <4> SUFFICES ASSUME NEW q \in Parts, mam'[q].fresh PROVE EndsIn(q, mam'[q].set, mam'[q].count)
        OBVIOUS
      <4>1. CASE q = p
        BY <1>6, <2>2, <3>2, <4>1
      <4>2. CASE q # p
        BY <1>0, <3>1, <4>2 DEF MamTrue
      <4> QED
        BY <4>1, <4>2
    <3>4. MamTrue'
      BY <1>4, <3>3 DEF MamTrue, EndsIn
    <3>5. [fresh |-> TRUE, count |-> c.count, set |-> c.set] \in [fresh : BOOLEAN, count : Nat, set : Nat]
      BY <1>5
    <3> QED
      BY <1>4, <2>1, <2>2, <3>4, <3>5
  <2>3. CASE ~ vol.end[p]
    BY <1>0, <1>4, <2>1, <2>3 DEF MamTrue, EndsIn
  <2> QED
    BY <2>2, <2>3
<1>10. Types'
  BY <1>0, <1>4, <1>7, <1>8, <1>9 DEF Types
<1>11. Queue'
  BY <1>0, <1>2, <1>4, <1>7, <1>8, <1>81 DEF Queue
<1>12. Sound(tape, best)' /\ Clean' /\ Files'
  BY <1>0, <1>4, <1>7 DEF Clean, Files, Kept
<1>13. \A q \in Parts : Pos(tape', vol', q) = Pos(tape, vol, q)
  BY <1>4, <1>7 DEF Pos
<1>14. Active'
  BY <1>2, <1>7 DEF Active
<1>15. Below'
  <2>1. \A r \in best.tree.refs \cup pending \cup vol.tree.refs : r.p \in Parts /\ r.b < Pos(tape, vol, r.p)
    BY <1>0, <1>2 DEF Types, Documents, Trees, Refs, Vols, Below
  <2> QED
    BY <1>4, <1>7, <1>13, <2>1 DEF Below
<1>16. Ready'
  <2>1. Pos(tape, vol, "ip") \in 4 .. Eod(tape, "ip") /\ Pos(tape, vol, "dp") = Eod(tape, "dp")
        /\ ~ IndexAt(tape, "dp", Eod(tape, "dp") - 1)
    BY <1>0, <1>1, <1>2 DEF Ready, Here
  <2> QED
    BY <1>4, <1>13, <1>81, <2>1 DEF Ready, Here
<1>171. Now'.op = "done" => Now'.p = vol.self.p
  <2> SUFFICES ASSUME Now'.op = "done" PROVE Now'.p = vol.self.p
    OBVIOUS
  <2>1. Here("coherency", "dp")
    BY <1>1, <1>8 DEF Here, Parts
  <2> QED
    BY <1>0, <1>2, <1>8, <2>1 DEF Order, Returns
<1>17. Memory'
  <2>1. Between'
    BY <1>0, <1>1, <1>2, <1>4, <1>7, <1>81 DEF Memory, Between
  <2>2. vol'.gen >= best'.gen
    BY <1>0, <1>2, <1>4, <1>7 DEF Memory
  <2> QED
    BY <1>3, <1>4, <1>7, <1>81, <1>171, <2>1, <2>2 DEF Memory, Writing, Written
<1>18. Ends'
  <2> SUFFICES ASSUME NEW q \in Parts, vol.end[q]
               PROVE  (\E b \in Nat : LastIndex(tape, q, b) /\ Closed(tape, q, b)) /\ (Ahead(q)' \/ CohTrue(q)')
    BY <1>4, <1>7 DEF Ends
  <2>1. (\E b \in Nat : LastIndex(tape, q, b) /\ Closed(tape, q, b)) /\ (Ahead(q) \/ CohTrue(q))
    BY <1>0, <1>1, <1>2 DEF Ends
  <2>2. CASE q = p
    BY <1>4, <1>6, <1>7, <2>1, <2>2 DEF CohTrue, EndsIn
  <2>3. CASE q # p /\ CohTrue(q)
    BY <1>4, <1>7, <2>1, <2>3 DEF CohTrue, EndsIn
  <2>4. CASE q # p /\ Ahead(q)
    <3>1. vol.self.p = q /\ (p = "ip" \/ q = "dp")
      BY <2>4 DEF Ahead
    <3>2. p = "ip" /\ q = "dp"
      BY <1>1, <2>4, <3>1 DEF Parts
    <3> QED
      BY <1>7, <1>8, <2>1, <3>1, <3>2 DEF Ahead
  <2> QED
    BY <2>1, <2>2, <2>3, <2>4
<1>19. Order'
  <2>1. (vol.self.p = "ip" => vol.end["dp"]) /\ (vol.end["ip"] \/ vol.self.p = "dp")
    BY <1>0, <1>1, <1>2 DEF Order
  <2>2. Now'.op = "finish" => vol'.self.p = "ip" /\ \A q \in Parts : CohTrue(q)'
    <3> SUFFICES ASSUME Now'.op = "finish" PROVE vol.self.p = "ip" /\ \A q \in Parts : CohTrue(q)'
      BY <1>7
    <3>1. Here("coherency", "dp")
      BY <1>1, <1>8 DEF Here, Parts
    <3>2. vol.self.p = "ip"
      BY <1>0, <1>2, <1>8, <3>1 DEF Order, Returns
    <3>3. \A q \in Parts : vol'.end[q]
      BY <1>3, <1>7, <2>1, <3>2 DEF Parts
    <3>4. \A q \in Parts : ~ Ahead(q)'
      BY DEF Ahead
    <3> QED
      BY <1>14, <1>18, <3>2, <3>3, <3>4 DEF Ends
  <2>3. Here("coherency", "ip") => Returns(todo[3])
    BY <1>0, <1>2 DEF Order
  <2>4. Here("coherency", "dp")' => Returns(todo[2])'
    <3> SUFFICES ASSUME Now'.op = "coherency" PROVE Returns(todo[2])'
      BY DEF Here
    <3>1. p = "ip"
      BY <1>1, <1>8 DEF Parts
    <3>2. Returns(todo[3]) /\ todo'[2] = todo[3]
      BY <1>1, <1>8, <2>3, <3>1 DEF Here
    <3> QED
      BY <1>7, <3>2 DEF Returns
  <2>5. ~ Here("coherency", "ip")'
    BY <1>1, <1>8, <1>81 DEF Here, Parts
  <2> QED
    BY <1>7, <1>81, <2>1, <2>2, <2>4, <2>5 DEF Order
<1>20. Found'
  BY <1>81 DEF Found
<1> QED
  BY <1>4, <1>7, <1>9, <1>10, <1>11, <1>12, <1>15, <1>16, <1>17, <1>18, <1>19, <1>20 DEF CommitInv

(* Blocks of files lie below the index that ends a partition, and the file mark
   in front of it. *)
LEMMA ClosedBelow ==
    ASSUME tape \in Tapes, IndexesTrue(tape), NEW x \in Nat, NEW p \in Parts, IndexAt(tape, p, x), Closed(tape, p, x),
           NEW b \in Nat, NEW rec \in Blocks, At(tape, p, b) = rec
    PROVE  b < x - 1
<1>1. rec # None /\ rec # Fm /\ rec \notin Documents
  BY Kinds DEF Records
<1>2. b \in 4 .. Eod(tape, p) - 1
  BY <1>1, AtTyped
<1>3. x > 4 /\ At(tape, p, x - 1) = Fm /\ Eod(tape, p) = x + 2 /\ At(tape, p, x + 1) = Fm
  BY DEF IndexesTrue, Closed
<1>4. b # x /\ b # x - 1 /\ b # x + 1
  BY <1>1, <1>3 DEF IndexAt
<1> QED
  BY <1>2, <1>3, <1>4

(* They are on the tape. *)
LEMMA BlockIn ==
    ASSUME tape \in Tapes, NEW p \in Parts, NEW b \in Nat, NEW rec \in Blocks, At(tape, p, b) = rec
    PROVE  b < Eod(tape, p)
<1>1. rec # None
  BY Kinds
<1>2. b \in 4 .. Eod(tape, p) - 1 /\ Eod(tape, p) \in Nat
  BY <1>1, AtTyped
<1> QED
  BY <1>2

(* The index is written: the next one of the index partition will overwrite it. *)
LEMMA DoneStep ==
    ASSUME CommitInv, IndexDone
    PROVE  CommitInv' /\ best' = best /\ vol'.tree = vol.tree
<1> SUFFICES ASSUME NEW p, p = Now.p PROVE CommitInv' /\ best' = best /\ vol'.tree = vol.tree
  OBVIOUS
<1>0. Types /\ Queue /\ Sound(tape, best) /\ MamTrue /\ Files /\ Below /\ Ready /\ Memory /\ Clean /\ Ends /\ Order
  BY DEF CommitInv
<1>1. todo # <<>> /\ Now.op = "done" /\ p \in Parts /\ Part = p /\ todo \in Seq(Ops) /\ Chain(todo)
      /\ "ip" \in Parts /\ "dp" \in Parts /\ "ip" # "dp"
  BY <1>0, NowIs DEF IndexDone, Types, Queue, Parts
<1>2. Active /\ vol.tree # None /\ ~ vol.broken
  BY <1>0, <1>1 DEF Queue, Active
<1>3. vol.self = best.self /\ vol.gen = best.gen /\ vol.tree = best.tree /\ vol.end[p] /\ p = vol.self.p
      /\ vol.self.b \in Nat
  BY <1>0, <1>1, <1>2, NewestIs DEF Memory, Written
<1>4. /\ tape' = tape /\ best' = best /\ mam' = mam /\ phase' = phase /\ pending' = pending
      /\ sync' = sync /\ used' = used /\ todo' = Tail(todo)
      /\ vol' = [vol EXCEPT !.append["ip"] = IF p = "ip" THEN vol.self.b - 1 ELSE @,
                            !.dirty = FALSE, !.old = None]
  BY <1>1 DEF IndexDone
<1>5. EndsIn(p, vol.self.b, vol.gen)
  <2>1. PICK b \in Nat : LastIndex(tape, p, b) /\ Closed(tape, p, b)
    BY <1>0, <1>1, <1>2, <1>3 DEF Ends
  <2> QED
    BY <1>0, <1>3, <2>1, ClosedNewest
<1>6. vol.self.b > 4 /\ At(tape, p, vol.self.b - 1) = Fm /\ IndexAt(tape, p, vol.self.b)
      /\ Eod(tape, p) = vol.self.b + 2 /\ At(tape, p, vol.self.b + 1) = Fm
  BY <1>0, <1>1, <1>3, <1>5 DEF EndsIn, LastIndex, Closed, Sound, IndexesTrue
<1> DEFINE app == IF p = "ip" THEN vol.self.b - 1 ELSE vol.append["ip"]
<1>7. /\ vol' \in Vols
      /\ vol'.tree = vol.tree /\ vol'.dirty = FALSE /\ vol'.broken = vol.broken /\ vol'.kind = vol.kind
      /\ vol'.end = vol.end /\ vol'.append = [vol.append EXCEPT !["ip"] = app] /\ vol'.coh = vol.coh
      /\ vol'.gen = vol.gen /\ vol'.back = vol.back /\ vol'.self = vol.self
  <2>0. vol \in Vols /\ vol.append["ip"] \in Nat
    BY <1>0, <1>1 DEF Types, Vols
  <2>a. vol.self.b - 1 \in Nat
    BY <1>3, <1>6
  <2>1. vol \in Vols /\ app \in Nat
    BY <2>0, <2>a
  <2>2. vol' = [vol EXCEPT !.append = [vol.append EXCEPT !["ip"] = app], !.dirty = FALSE, !.old = None]
    BY <1>4, <2>1 DEF Vols
  <2> HIDE DEF app
  <2>3. [vol.append EXCEPT !["ip"] = app] \in [Parts -> Nat]
    BY <1>1, <2>1 DEF Vols
  <2> QED
    BY <2>1, <2>2, <2>3 DEF Vols
<1>8. /\ Pos(tape', vol', "dp") = Pos(tape, vol, "dp")
      /\ Pos(tape', vol', "ip") = IF p = "ip" THEN vol.self.b - 1 ELSE Pos(tape, vol, "ip")
  <2>1. vol'.append["dp"] = vol.append["dp"] /\ vol'.append["ip"] = app
    BY <1>0, <1>1, <1>7 DEF Types, Vols
  <2>2. vol.self.b - 1 # 0
    BY <1>3, <1>6
  <2> QED
    BY <1>4, <2>1, <2>2 DEF Pos
<1>9. /\ todo' \in Seq(Ops) /\ Chain(todo)'
      /\ p = "dp" => Now'.op \in {"idle", "mark", "data", "call"}
      /\ p = "ip" => Now'.op \in {"idle", "finish", "leave"} \/ (Now'.op = "data" /\ Now'.p = "dp")
  BY <1>1, <1>4, TailStep DEF Follows, Opened
<1>91. Now'.op \in {"idle", "mark", "data", "call", "finish", "leave"}
  BY <1>1, <1>9 DEF Parts
<1>10. Types'
  BY <1>0, <1>4, <1>7, <1>9 DEF Types
<1>11. Queue'
  BY <1>0, <1>2, <1>4, <1>7, <1>9, <1>91 DEF Queue
<1>12. Sound(tape, best)' /\ MamTrue' /\ Clean' /\ Files'
  BY <1>0, <1>3, <1>4, <1>7 DEF Clean, Files, Kept, MamTrue, EndsIn
<1>14. Active'
  BY <1>2, <1>7 DEF Active
<1>15. Below'
  <2>1. ASSUME NEW r \in best.tree.refs \cup pending \cup vol.tree.refs PROVE r.b < Pos(tape', vol', r.p)
    <3>1. r.p \in Parts /\ r.b \in Nat /\ r.rec \in Blocks
      BY <1>0, <1>2 DEF Types, Documents, Trees, Refs, Vols
    <3>2. r.b < Pos(tape, vol, r.p) /\ At(tape, r.p, r.b) = r.rec
      BY <1>0, <1>2 DEF Below, Files, Kept
    <3>3. CASE r.p = "ip" /\ p = "ip"
      <4>1. r.b < vol.self.b - 1
        BY <1>0, <1>3, <1>5, <3>1, <3>2, <3>3, ClosedBelow DEF EndsIn, LastIndex, Sound, Types
      <4> QED
        BY <1>8, <3>3, <4>1
    <3>4. CASE r.p = "dp" \/ p # "ip"
      BY <1>1, <1>8, <3>1, <3>2, <3>4 DEF Parts
    <3> QED
      BY <3>1, <3>3, <3>4 DEF Parts
  <2> QED
    BY <1>4, <1>7, <2>1 DEF Below
<1>16. Ready'
  <2>1. Pos(tape, vol, "ip") \in 4 .. Eod(tape, "ip") /\ Pos(tape, vol, "dp") = Eod(tape, "dp")
        /\ ~ IndexAt(tape, "dp", Eod(tape, "dp") - 1)
    BY <1>0, <1>1, <1>2 DEF Ready, Here
  <2>2. p = "ip" => vol.self.b - 1 \in 4 .. Eod(tape, "ip")
    BY <1>3, <1>6
  <2> QED
    BY <1>4, <1>8, <1>91, <2>1, <2>2 DEF Ready, Here
<1>17. Memory'
  <2>1. Between'
    BY <1>0, <1>1, <1>2, <1>4, <1>7, <1>91 DEF Memory, Between
  <2>2. vol'.gen >= best'.gen
    BY <1>0, <1>2, <1>4, <1>7 DEF Memory
  <2> QED
    BY <1>4, <1>7, <1>91, <2>1, <2>2 DEF Memory, Writing, Written
<1>180. \A q \in Parts : vol.end[q] =>
          (\E b \in Nat : LastIndex(tape, q, b) /\ Closed(tape, q, b)) /\ CohTrue(q)
  BY <1>0, <1>1, <1>2 DEF Ends, Ahead
<1>181. \A q \in Parts : CohTrue(q) => CohTrue(q)'
  BY <1>4, <1>7 DEF CohTrue, EndsIn
<1>18. Ends'
  BY <1>4, <1>7, <1>180, <1>181 DEF Ends
<1>19. Order'
  <2>1. (vol.self.p = "ip" => vol.end["dp"]) /\ (vol.end["ip"] \/ vol.self.p = "dp")
    BY <1>0, <1>1, <1>2 DEF Order
  <2>2. Now'.op = "finish" => vol'.self.p = "ip" /\ \A q \in Parts : CohTrue(q)'
    <3> SUFFICES ASSUME Now'.op = "finish" PROVE vol.self.p = "ip" /\ \A q \in Parts : CohTrue(q)'
      BY <1>7
    <3>1. p = "ip"
      BY <1>1, <1>9 DEF Parts
    <3>2. \A q \in Parts : vol.end[q]
      BY <1>3, <2>1, <3>1 DEF Parts
    <3> QED
      BY <1>3, <1>180, <1>181, <3>1, <3>2
  <2>3. (Now'.op \in {"mark", "data"} /\ Now'.p = "ip") => vol'.self.p = "dp" /\ vol'.end["dp"]
    BY <1>1, <1>3, <1>7, <1>9 DEF Parts
  <2> QED
    BY <1>7, <1>91, <2>1, <2>2, <2>3 DEF Order, Here
<1>20. Found'
  BY <1>91 DEF Found
<1> QED
  BY <1>4, <1>7, <1>10, <1>11, <1>12, <1>15, <1>16, <1>17, <1>18, <1>19, <1>20 DEF CommitInv

---------------------------------------------------------------------------
(* The steps of an operation *)

(* The steps of one index in front of others. *)
LEMMA OneChain ==
    ASSUME NEW p \in Parts, NEW rest \in Seq(Ops), Chain(rest), rest # <<>> => Follows(Op("done", p), rest[1])
    PROVE  LET s == OneIndex(p) \o rest IN
           s \in Seq(Ops) /\ Chain(s) /\ s # <<>> /\ s[1] = Op("mark", p)
<1> DEFINE x == OneIndex(p)
           n == Len(rest)
           s == x \o rest
<1>1. \A o \in {"mark", "part", "doc", "close", "done"} : Op(o, p) \in Ops
  BY DEF Op, Ops
<1>2. \A q \in Parts : Op("coherency", q) \in Ops
  BY DEF Op, Ops
<1>3. "ip" \in Parts /\ "dp" \in Parts
  BY DEF Parts
<1>4. x \in Seq(Ops) /\ Len(x) = 7
  BY <1>1, <1>2, <1>3 DEF OneIndex
<1>5. /\ x[1] = Op("mark", p) /\ x[2] = Op("part", p) /\ x[3] = Op("doc", p) /\ x[4] = Op("close", p)
      /\ x[5] = Op("coherency", "ip") /\ x[6] = Op("coherency", "dp") /\ x[7] = Op("done", p)
  BY DEF OneIndex
<1>6. n \in Nat /\ (rest # <<>> <=> n > 0)
  OBVIOUS
<1> HIDE DEF x
<1>7. s \in Seq(Ops) /\ Len(s) = n + 7 /\ (\A i \in 1 .. 7 : s[i] = x[i])
      /\ \A i \in 8 .. n + 7 : s[i] = rest[i - 7]
  <2>1. s \in Seq(Ops) /\ Len(s) = 7 + n
        /\ \A i \in 1 .. 7 + n : s[i] = IF i <= 7 THEN x[i] ELSE rest[i - 7]
    <3>1. /\ x \o rest \in Seq(Ops) /\ Len(x \o rest) = Len(x) + Len(rest)
          /\ \A i \in 1 .. Len(x) + Len(rest) :
                (x \o rest)[i] = IF i <= Len(x) THEN x[i] ELSE rest[i - Len(x)]
      BY <1>4, ConcatProperties, Zenon
    <3> QED
      BY <1>4, <3>1
  <2> HIDE DEF n, s
  <2> QED
    BY <1>6, <2>1
<1> HIDE DEF n, s
<1>8. \A o, q : Op(o, q).op = o /\ Op(o, q).p = q
  BY DEF Op
<1>9. \A i \in 1 .. 6 : Follows(s[i], s[i + 1])
  <2> SUFFICES ASSUME NEW i \in 1 .. 6 PROVE Follows(x[i], x[i + 1])
    BY <1>7
  <2>1. CASE i = 1
    BY <1>5, <1>8, <2>1 DEF Follows
  <2>2. CASE i = 2
    BY <1>5, <1>8, <2>2 DEF Follows
  <2>3. CASE i = 3
    BY <1>5, <1>8, <2>3 DEF Follows
  <2>4. CASE i = 4
    BY <1>5, <1>8, <2>4 DEF Follows
  <2>5. CASE i = 5
    BY <1>5, <1>8, <2>5 DEF Follows
  <2>6. CASE i = 6
    BY <1>5, <1>8, <2>6 DEF Follows
  <2> QED
    BY <2>1, <2>2, <2>3, <2>4, <2>5, <2>6
<1>10. n > 0 => Follows(s[7], s[8])
  <2> SUFFICES ASSUME n > 0 PROVE Follows(s[7], s[8])
    OBVIOUS
  <2>1. 8 \in 8 .. n + 7 /\ 8 - 7 = 1
    BY <1>6
  <2> QED
    BY <1>5, <1>6, <1>7, <2>1
<1>11. \A i \in 8 .. n + 6 : Follows(s[i], s[i + 1])
  <2> SUFFICES ASSUME NEW i \in 8 .. n + 6 PROVE Follows(s[i], s[i + 1])
    OBVIOUS
  <2>1. i \in 8 .. n + 7 /\ i + 1 \in 8 .. n + 7 /\ i - 7 \in 1 .. n - 1 /\ i + 1 - 7 = i - 7 + 1
    BY <1>6
  <2>2. Follows(rest[i - 7], rest[i - 7 + 1])
    BY <2>1 DEF Chain, n
  <2> QED
    BY <1>7, <2>1, <2>2, SMTT(20)
<1>12. \A i \in 1 .. n + 6 : Follows(s[i], s[i + 1])
  <2> SUFFICES ASSUME NEW i \in 1 .. n + 6 PROVE Follows(s[i], s[i + 1])
    OBVIOUS
  <2>1. i \in 1 .. 6 \/ (i = 7 /\ n > 0) \/ i \in 8 .. n + 6
    BY <1>6
  <2>2. 7 + 1 = 8
    OBVIOUS
  <2> QED
    BY <1>9, <1>10, <1>11, <2>1, <2>2
<1>13. s[n + 7].op \notin Opened
  <2>1. CASE n = 0
    <3>1. n + 7 = 7 /\ s[7] = Op("done", p)
      BY <1>5, <1>7, <2>1
    <3> QED
      BY <1>8, <3>1 DEF Opened
  <2>2. CASE n > 0
    <3>1. PICK k \in 8 .. n + 7 : k = n + 7 /\ k - 7 = n
      BY <1>6, <2>2
    <3>2. rest[n].op \notin Opened
      BY <1>6, <2>2 DEF Chain, n
    <3>3. s[k] = rest[k - 7]
      BY <1>7, <3>1
    <3> QED
      BY <3>1, <3>2, <3>3
  <2> QED
    BY <1>6, <2>1, <2>2
<1>14. \A i \in 1 .. n + 7 : s[i].op = "close" =>
          i + 3 <= n + 7 /\ s[i + 3].op = "done" /\ s[i + 3].p = s[i].p
  <2> SUFFICES ASSUME NEW i \in 1 .. n + 7, s[i].op = "close"
               PROVE  i + 3 <= n + 7 /\ s[i + 3].op = "done" /\ s[i + 3].p = s[i].p
    OBVIOUS
  <2>1. CASE i \in 1 .. 7
    <3>1. s[i] = x[i]
      BY <1>7, <2>1
    <3>2. i = 4
      BY <1>5, <1>8, <2>1, <3>1
    <3>3. i + 3 = 7 /\ s[7] = x[7] /\ 7 <= n + 7
      BY <1>6, <1>7, <3>2
    <3> QED
      BY <1>5, <1>8, <3>1, <3>2, <3>3
  <2>2. CASE i \in 8 .. n + 7
    <3>1. i - 7 \in 1 .. n /\ s[i] = rest[i - 7]
      BY <1>6, <1>7, <2>2
    <3>2. i - 7 + 3 <= n /\ rest[i - 7 + 3].op = "done" /\ rest[i - 7 + 3].p = rest[i - 7].p
      BY <3>1 DEF Chain, n
    <3>3. i + 3 \in 8 .. n + 7 /\ i + 3 - 7 = i - 7 + 3
      BY <1>6, <2>2, <3>2
    <3> QED
      BY <1>6, <1>7, <2>2, <3>1, <3>2, <3>3, SMTT(20)
  <2> QED
    BY <1>6, <2>1, <2>2
<1>15. s # <<>> /\ s[1] = Op("mark", p)
  BY <1>5, <1>6, <1>7
<1>16. Len(s) - 1 = n + 6
  BY <1>6, <1>7
<1>17. Chain(s)
  BY <1>7, <1>12, <1>13, <1>14, <1>16 DEF Chain
<1> QED
  BY <1>7, <1>15, <1>17 DEF s, x

(* The steps of ltfs_write_index: the data partition first unless it ends in
   the newest index. *)
LEMMA StepsChain ==
    ASSUME NEW v, NEW p \in Parts, NEW rest \in Seq(Ops), Chain(rest),
           rest # <<>> => Follows(Op("done", p), rest[1])
    PROVE  LET s == IndexSteps(v, p) \o rest IN
           /\ s \in Seq(Ops) /\ Chain(s) /\ s # <<>> /\ s[1].op = "mark" /\ s[1].p \in Parts
           /\ s[1].p = "ip" => v.end["dp"] /\ ~ (v.end["ip"] /\ v.self.p = "ip")
<1> DEFINE first == p = "ip" /\ (~ v.end["dp"] \/ (v.end["ip"] /\ v.self.p = "ip"))
           r == OneIndex(p) \o rest
<1>1. \A o, q : Op(o, q).op = o /\ Op(o, q).p = q
  BY DEF Op
<1>2. r \in Seq(Ops) /\ Chain(r) /\ r # <<>> /\ r[1] = Op("mark", p)
  BY OneChain
<1>3. CASE first
  <2>1. "dp" \in Parts /\ "ip" \in Parts
    BY DEF Parts
  <2>2. Follows(Op("done", "dp"), r[1])
    BY <1>1, <1>2, <1>3 DEF Follows
  <2> DEFINE d == OneIndex("dp") \o r
  <2>3. d \in Seq(Ops) /\ Chain(d) /\ d # <<>> /\ d[1] = Op("mark", "dp")
    <3> HIDE DEF r
    <3> QED
      BY <1>2, <2>1, <2>2, OneChain
  <2>4. \A q \in Parts : OneIndex(q) \in Seq(Ops)
    BY <2>1 DEF OneIndex, Op, Ops
  <2>5. IndexSteps(v, p) \o rest = d
    <3>1. IndexSteps(v, p) = OneIndex("dp") \o OneIndex("ip") /\ r = OneIndex("ip") \o rest
      BY <1>3 DEF IndexSteps
    <3>2. \A a, b \in Seq(Ops) : (a \o b) \o rest = a \o (b \o rest)
      BY ConcatAssociative, SMTT(20)
    <3>3. (OneIndex("dp") \o OneIndex("ip")) \o rest = OneIndex("dp") \o (OneIndex("ip") \o rest)
      BY <2>1, <2>4, <3>2
    <3> QED
      BY <3>1, <3>3
  <2> HIDE DEF d
  <2> QED
    BY <1>1, <2>1, <2>3, <2>5
<1>4. CASE ~ first
  <2>1. IndexSteps(v, p) \o rest = r
    BY <1>4 DEF IndexSteps
  <2> HIDE DEF r
  <2> QED
    BY <1>1, <1>2, <1>4, <2>1
<1> QED
  BY <1>3, <1>4

(* One step, and two. *)
LEMMA ShortChain ==
    ASSUME NEW a \in Ops, a.op \notin Opened
    PROVE  /\ <<a>> \in Seq(Ops) /\ Chain(<<a>>) /\ <<a>> # <<>> /\ <<a>>[1] = a
           /\ \A b \in Ops : (Follows(b, a) /\ b.op # "close") =>
                <<b, a>> \in Seq(Ops) /\ Chain(<<b, a>>) /\ <<b, a>> # <<>> /\ <<b, a>>[1] = b
<1>1. a.op # "close"
  BY DEF Opened
<1>2. <<a>> \in Seq(Ops) /\ Chain(<<a>>)
  BY <1>1 DEF Chain
<1>3. ASSUME NEW b \in Ops, Follows(b, a), b.op # "close"
      PROVE  <<b, a>> \in Seq(Ops) /\ Chain(<<b, a>>) /\ <<b, a>> # <<>> /\ <<b, a>>[1] = b
  <2>1. Len(<<b, a>>) = 2 /\ <<b, a>>[1] = b /\ <<b, a>>[2] = a /\ <<b, a>> \in Seq(Ops)
    OBVIOUS
  <2> QED
    BY <1>1, <1>3, <2>1 DEF Chain
<1> QED
  BY <1>2, <1>3

(* Steps that change neither the tape, nor the volume, nor the step under way. *)
LEMMA QuietStep ==
    ASSUME CommitInv, tape' = tape, best' = best, mam' = mam, phase' = phase, vol' = vol, todo' = todo,
           pending' \in SUBSET pending, sync' \in Parts \cup {None},
           used' \in [data : Nat, change : Nat, crash : Nat, fault : Nat, ver : Nat]
    PROVE  CommitInv'
<1>0. Types /\ Queue /\ Sound(tape, best) /\ MamTrue /\ Files /\ Below /\ Ready /\ Memory /\ Clean /\ Ends
      /\ Order /\ Found
  BY DEF CommitInv
<1>1. Now' = Now /\ (Active' <=> Active)
  BY DEF Now, Active
<1>2. \A o, p : Here(o, p)' <=> Here(o, p)
  BY <1>1 DEF Here
<1>3. Types'
  BY <1>0 DEF Types
<1>4. Queue'
  BY <1>0, <1>1 DEF Queue, Chain
<1>5. Sound(tape, best)' /\ MamTrue' /\ Clean'
  BY <1>0 DEF MamTrue, EndsIn, Clean
<1>6. Files'
  BY <1>0 DEF Files, Kept
<1>7. Below'
  BY <1>0, <1>1 DEF Below
<1>8. Ready'
  BY <1>0, <1>1, <1>2 DEF Ready
<1>9. Memory'
  BY <1>0, <1>1 DEF Memory, Between, Writing, Written
<1>10. \A p \in Parts : (CohTrue(p)' <=> CohTrue(p)) /\ (Ahead(p)' <=> Ahead(p))
  BY <1>1 DEF CohTrue, EndsIn, Ahead
<1>11. Ends'
  BY <1>0, <1>1, <1>10 DEF Ends
<1>12. Order'
  <2>1. \A o : Returns(o)' <=> Returns(o)
    BY DEF Returns
  <2>2. (Returns(todo[3])' <=> Returns(todo[3])) /\ (Returns(todo[2])' <=> Returns(todo[2]))
    BY DEF Returns
  <2> QED
    BY <1>0, <1>1, <1>2, <1>10, <2>2 DEF Order
<1>13. Found'
  <2>1. \A p \in Parts : WillFill(p)' <=> WillFill(p)
    BY <1>2 DEF WillFill
  <2>2. ASSUME Now.op \in {"fill", "check", "lost"}, NEW p \in Parts PROVE FoundOn(p, vol.found[p])'
    <3>1. FoundOn(p, vol.found[p])
      BY <1>0, <2>2 DEF Found
    <3> QED
      BY <1>1, <2>1, <3>1 DEF FoundOn
  <2> QED
    BY <1>0, <1>1, <2>2 DEF Found
<1> QED
  BY <1>3, <1>4, <1>5, <1>6, <1>7, <1>8, <1>9, <1>11, <1>12, <1>13 DEF CommitInv

(* The start of an operation: it only decides what to write. *)
LEMMA StartStep ==
    ASSUME CommitInv, Active, Now.op \in {"idle", "call"},
           tape' = tape, best' = best, mam' = mam, vol' = vol, pending' = pending, phase' # "off",
           sync' \in Parts \cup {None},
           used' \in [data : Nat, change : Nat, crash : Nat, fault : Nat, ver : Nat],
           todo' \in Seq(Ops), Chain(todo'), todo' # <<>>, Now'.op \in {"mark", "data", "call"},
           (Now'.op = "mark" /\ Now'.p = "ip") => vol.end["dp"],
           (Now'.op \in {"mark", "data"} /\ Now'.p = "ip") => vol.self.p = "dp"
    PROVE  CommitInv'
<1>0. Types /\ Queue /\ Sound(tape, best) /\ MamTrue /\ Files /\ Below /\ Ready /\ Memory /\ Clean /\ Ends
      /\ Order
  BY DEF CommitInv
<1>1. Active'
  BY DEF Active
<1>3. Types'
  BY <1>0 DEF Types
<1>4. Queue'
  BY <1>0 DEF Queue, Chain, Active
<1>5. Sound(tape, best)' /\ MamTrue' /\ Clean'
  BY <1>0 DEF MamTrue, EndsIn, Clean
<1>6. Files'
  BY <1>0 DEF Files, Kept
<1>7. Below'
  BY <1>0, <1>1 DEF Below
<1>8. Ready'
  BY <1>0, <1>1 DEF Ready, Here
<1>9. Memory'
  BY <1>0, <1>1 DEF Memory, Between, Writing, Written
<1>10. \A p \in Parts : CohTrue(p)' <=> CohTrue(p)
  BY <1>1 DEF CohTrue, EndsIn
<1>11. Ends'
  <2>1. \A p \in Parts : ~ Ahead(p)
    BY DEF Ahead
  <2> QED
    BY <1>0, <1>10, <2>1 DEF Ends
<1>12. Order'
  BY <1>0, <1>1 DEF Order, Here
<1>13. Found'
  BY DEF Found
<1> QED
  BY <1>3, <1>4, <1>5, <1>6, <1>7, <1>8, <1>9, <1>11, <1>12, <1>13 DEF CommitInv

(* The index partition is written after the data partition unless that ends in
   the newest index. *)
LEMMA DpFirst ==
    ASSUME CommitInv, Active, Now.op \in {"idle", "call"}, ~ (vol.end["ip"] /\ vol.self.p = "ip")
    PROVE  vol.self.p = "dp"
<1>1. vol.end["ip"] \/ vol.self.p = "dp"
  BY DEF CommitInv, Order
<1>2. vol.self.p \in Parts
  BY DEF CommitInv, Memory, Between
<1> QED
  BY <1>1, <1>2 DEF Parts

(* A session: an index is loaded and no mount is under way. *)
LEMMA InSession ==
    ASSUME CommitInv, phase = "up"
    PROVE  vol.tree # None /\ Now.op \notin {"fill", "check"}
BY DEF CommitInv, Queue

(* ltfs_write_index decides which copies to write. *)
LEMMA CallStep ==
    ASSUME CommitInv, CallIndex
    PROVE  CommitInv' /\ best' = best /\ vol'.tree = vol.tree
<1> SUFFICES ASSUME NEW p, p = Now.p PROVE CommitInv' /\ best' = best /\ vol'.tree = vol.tree
  OBVIOUS
<1>0. Types /\ Queue
  BY DEF CommitInv
<1>1. todo # <<>> /\ Now.op = "call" /\ p \in Parts /\ Part = p /\ todo \in Seq(Ops) /\ Chain(todo)
  BY <1>0, NowIs DEF CallIndex, Types, Queue
<1>2. Active /\ phase # "off"
  BY <1>0, <1>1 DEF Queue, Active
<1>3. /\ tape' = tape /\ best' = best /\ mam' = mam /\ phase' = phase /\ vol' = vol /\ pending' = pending
      /\ sync' = sync /\ used' = used /\ todo' = IndexSteps(vol, p) \o Tail(todo)
  BY <1>1 DEF CallIndex
<1> DEFINE rest == Tail(todo)
<1>4. rest \in Seq(Ops) /\ Chain(rest) /\ (rest # <<>> => Follows(Op("done", p), rest[1]))
  <2> DEFINE n == Len(todo)
  <2>1. n \in Nat /\ n >= 1 /\ rest \in Seq(Ops) /\ Len(rest) = n - 1
        /\ \A i \in 1 .. n - 1 : rest[i] = todo[i + 1]
    BY <1>1
  <2>2. Now = todo[1]
    BY <1>0, <1>1, NowIs
  <2>3. Chain(rest)
    BY <1>1, ChainTail
  <2>4. rest # <<>> => Follows(Op("done", p), rest[1])
    <3> SUFFICES ASSUME rest # <<>> PROVE Follows(Op("done", p), rest[1])
      OBVIOUS
    <3>1. n > 1 /\ 1 \in 1 .. n - 1 /\ 1 + 1 = 2
      BY <2>1
    <3>2. Follows(todo[1], todo[2]) /\ rest[1] = todo[2]
      BY <1>1, <2>1, <3>1 DEF Chain
    <3>3. Op("done", p).op = "done" /\ Op("done", p).p = p
      BY DEF Op
    <3> HIDE DEF rest
    <3> QED
      BY <1>1, <2>2, <3>2, <3>3 DEF Follows
  <2> QED
    BY <2>1, <2>3, <2>4
<1> HIDE DEF rest
<1>5. /\ todo' \in Seq(Ops) /\ Chain(todo') /\ todo' # <<>> /\ todo'[1].op = "mark" /\ todo'[1].p \in Parts
      /\ todo'[1].p = "ip" => vol.end["dp"] /\ ~ (vol.end["ip"] /\ vol.self.p = "ip")
  <2>1. todo' = IndexSteps(vol, p) \o rest
    BY <1>3 DEF rest
  <2> QED
    BY <1>1, <1>4, <2>1, StepsChain
<1>6. Now' = todo'[1]
  BY <1>5 DEF Now
<1>7. Now'.p = "ip" => vol.end["dp"] /\ vol.self.p = "dp"
  BY <1>1, <1>2, <1>5, <1>6, DpFirst
<1>8. CommitInv'
  BY <1>0, <1>1, <1>2, <1>3, <1>5, <1>6, <1>7, StartStep DEF Types
<1> QED
  BY <1>3, <1>8

(* ltfs_fsraw_write decides whether the other partition needs an index first. *)
LEMMA WriteDataStep ==
    ASSUME CommitInv, NEW d \in Parts, WriteData(d)
    PROVE  CommitInv' /\ best' = best /\ vol'.tree = vol.tree
<1>0. Types /\ Queue
  BY DEF CommitInv
<1>1. Now.op = "idle" /\ "ip" \in Parts /\ "dp" \in Parts /\ phase = "up"
  BY <1>0, NowIs DEF WriteData, Types, Parts, Session
<1>2. Active
  BY <1>1, InSession DEF WriteData, Active
<1>3. /\ tape' = tape /\ best' = best /\ mam' = mam /\ phase' = phase /\ vol' = vol /\ pending' = pending
      /\ sync' = sync /\ used' = [used EXCEPT !.data = @ + 1]
      /\ todo' = ConditionalSteps(vol, Other(d)) \o <<Op("data", d)>>
  BY DEF WriteData
<1>4. used' \in [data : Nat, change : Nat, crash : Nat, fault : Nat, ver : Nat] /\ sync' \in Parts \cup {None}
  <2>1. used \in [data : Nat, change : Nat, crash : Nat, fault : Nat, ver : Nat] /\ sync \in Parts \cup {None}
    BY <1>0 DEF Types
  <2>2. used' = [used EXCEPT !.data = @ + 1] /\ sync' = sync
    BY <1>3
  <2> QED
    BY <2>1, <2>2
<1> DEFINE q == Other(d)
           x == Op("data", d)
           rest == <<x>>
<1>5. x \in Ops /\ x.op = "data" /\ x.p = d /\ q \in Parts /\ (d = "ip" <=> q = "dp") /\ (d = "dp" <=> q = "ip")
  BY DEF Op, Ops, Other, Parts
<1> HIDE DEF x, q
<1>6. rest \in Seq(Ops) /\ Chain(rest) /\ rest # <<>> /\ rest[1] = x
  BY <1>5, ShortChain DEF Opened
<1>7. Follows(Op("done", q), x)
  <2>1. Op("done", q).op = "done" /\ Op("done", q).p = q
    BY DEF Op
  <2> QED
    BY <1>5, <2>1 DEF Follows, Parts
<1> HIDE DEF rest
<1>8. /\ todo' \in Seq(Ops) /\ Chain(todo') /\ todo' # <<>> /\ todo'[1].op \in {"mark", "data"}
      /\ (todo'[1].op = "mark" /\ todo'[1].p = "ip") => vol.end["dp"]
      /\ todo'[1].p = "ip" => ~ (vol.end["ip"] /\ vol.self.p = "ip")
  <2>1. CASE ~ vol.end[q] \/ (q = "dp" /\ vol.end["ip"] /\ vol.self.p = "ip")
    <3>1. todo' = IndexSteps(vol, q) \o rest
      BY <1>3, <2>1 DEF ConditionalSteps, q, rest, x
    <3> QED
      BY <1>5, <1>6, <1>7, <3>1, StepsChain
  <2>2. CASE ~ (~ vol.end[q] \/ (q = "dp" /\ vol.end["ip"] /\ vol.self.p = "ip"))
    <3>1. todo' = <<>> \o rest
      BY <1>3, <2>2 DEF ConditionalSteps, q, rest, x
    <3>2. todo' = rest
      BY <1>6, <3>1
    <3> QED
      BY <1>5, <1>6, <2>2, <3>2
  <2> QED
    BY <2>1, <2>2
<1>9. Now' = todo'[1]
  BY <1>8 DEF Now
<1>10. Now'.p = "ip" => vol.self.p = "dp"
  BY <1>1, <1>2, <1>8, <1>9, DpFirst
<1>11. CommitInv'
  BY <1>1, <1>2, <1>3, <1>4, <1>8, <1>9, <1>10, StartStep
<1> QED
  BY <1>3, <1>11

(* ltfs_sync_index acts on what it saw before it had the lock. *)
LEMMA SyncWriteStep ==
    ASSUME CommitInv, SyncWrite
    PROVE  CommitInv' /\ best' = best /\ vol'.tree = vol.tree
<1>0. Types /\ Queue
  BY DEF CommitInv
<1>1. Now.op = "idle" /\ phase = "up" /\ sync \in Parts /\ todo = <<>>
  BY <1>0, NowIs DEF SyncWrite, Types, Session
<1>3. /\ tape' = tape /\ best' = best /\ mam' = mam /\ phase' = phase /\ vol' = vol /\ pending' = pending
      /\ sync' = None /\ used' = used /\ todo' = IF vol.broken THEN <<>> ELSE <<Op("call", sync)>>
  BY DEF SyncWrite
<1>4. used' \in [data : Nat, change : Nat, crash : Nat, fault : Nat, ver : Nat] /\ sync' \in Parts \cup {None}
  BY <1>0, <1>3 DEF Types
<1>5. CASE vol.broken
  BY <1>1, <1>3, <1>4, <1>5, QuietStep
<1>6. CASE ~ vol.broken
  <2> DEFINE x == Op("call", sync)
  <2>1. x \in Ops /\ x.op = "call"
    BY <1>1 DEF Op, Ops
  <2> HIDE DEF x
  <2>2. todo' = <<x>>
    BY <1>3, <1>6 DEF x
  <2>3. todo' \in Seq(Ops) /\ Chain(todo') /\ todo' # <<>> /\ todo'[1] = x
    BY <2>1, <2>2, ShortChain DEF Opened
  <2>4. Now' = x
    BY <2>3 DEF Now
  <2>5. Active
    BY <1>1, <1>6, InSession DEF Active
  <2>6. CommitInv'
    BY <1>1, <1>3, <1>4, <2>1, <2>3, <2>4, <2>5, StartStep
  <2> QED
    BY <1>3, <2>6
<1> QED
  BY <1>3, <1>5, <1>6

(* ltfs_sync_index looks at the flags. *)
LEMMA SyncLookStep ==
    ASSUME CommitInv, SyncLook
    PROVE  CommitInv' /\ best' = best /\ vol'.tree = vol.tree
<1>1. /\ tape' = tape /\ best' = best /\ mam' = mam /\ phase' = phase /\ vol' = vol /\ pending' = pending
      /\ used' = used /\ todo' = todo /\ sync' \in Parts
  BY DEF SyncLook, Parts
<1>2. used' \in [data : Nat, change : Nat, crash : Nat, fault : Nat, ver : Nat]
  BY <1>1 DEF CommitInv, Types
<1> QED
  BY <1>1, <1>2, QuietStep

(* The scheduler gives an extent up. *)
LEMMA DiscardStep ==
    ASSUME CommitInv, DiscardExtent
    PROVE  CommitInv' /\ best' = best /\ vol'.tree = vol.tree
<1>1. /\ tape' = tape /\ best' = best /\ mam' = mam /\ phase' = phase /\ vol' = vol /\ pending' \in SUBSET pending
      /\ used' = used /\ todo' = todo /\ sync' = sync
  BY DEF DiscardExtent
<1>2. used' \in [data : Nat, change : Nat, crash : Nat, fault : Nat, ver : Nat] /\ sync' \in Parts \cup {None}
  BY <1>1 DEF CommitInv, Types
<1> QED
  BY <1>1, <1>2, QuietStep

---------------------------------------------------------------------------
(* Data and trees *)

(* A block of a file is written, and its partition no longer ends in an index. *)
LEMMA DataPut ==
    ASSUME CommitInv, Step("data"), Put(vol, Part, Data(used.data)),
           vol' \in Vols, vol'.append = [vol.append EXCEPT ![Part] = AppendPos(vol, Part) + 1],
           vol'.end = [vol.end EXCEPT ![Part] = FALSE],
           vol'.tree = vol.tree, vol'.dirty = vol.dirty, vol'.broken = vol.broken, vol'.kind = vol.kind,
           vol'.coh = vol.coh, vol'.gen = vol.gen, vol'.back = vol.back, vol'.self = vol.self,
           pending' \in {pending, pending \cup {Extent(Part, vol)}},
           todo' \in {<<>>, <<Op("extent", "dp")>>}, phase' = phase, sync' = sync,
           used' \in [data : Nat, change : Nat, crash : Nat, fault : Nat, ver : Nat]
    PROVE  CommitInv' /\ best' = best
<1> SUFFICES ASSUME NEW p, p = Now.p, NEW a, a = Pos(tape, vol, p), NEW rec, rec = Data(used.data)
             PROVE  CommitInv' /\ best' = best
  OBVIOUS
<1>0. Types /\ Queue /\ Sound(tape, best) /\ Files /\ Below /\ Ready /\ Memory /\ Clean /\ Ends /\ Order
  BY DEF CommitInv
<1>1. todo # <<>> /\ Now.op = "data" /\ p \in Parts /\ Part = p /\ todo \in Seq(Ops)
  BY <1>0, NowIs DEF Types
<1>2. Active /\ vol.tree # None /\ ~ vol.broken
  BY <1>0, <1>1 DEF Queue, Active
<1>3. a \in 4 .. Eod(tape, p) /\ a \in Nat /\ (p = "dp" => a = Eod(tape, p)) /\ Eod(tape, p) \in Nat
      /\ AppendPos(vol, p) = a
  BY <1>0, <1>1, <1>2, AppendIn, AtTyped DEF Types, AppendPos, Pos
<1>4. Put(vol, p, rec) /\ rec \in Blocks /\ rec \in Records /\ rec \notin Documents
  <2>1. rec \in Blocks
    BY <1>0 DEF Types, Data, Blocks
  <2> QED
    BY <1>1, <2>1, Kinds
<1>5. /\ tape' \in Tapes /\ Eod(tape', p) = a + 1 /\ At(tape', p, a) = rec /\ ~ IndexAt(tape', p, a)
      /\ \A b \in Nat : b < a => At(tape', p, b) = At(tape, p, b) /\ (IndexAt(tape', p, b) <=> IndexAt(tape, p, b))
  BY <1>0, <1>1, <1>3, <1>4, PutBlocks
<1>6. \A q \in Parts : q # p =>
        /\ Eod(tape', q) = Eod(tape, q)
        /\ \A b \in Nat : /\ At(tape', q, b) = At(tape, q, b)
                          /\ IndexAt(tape', q, b) <=> IndexAt(tape, q, b)
                          /\ LastIndex(tape', q, b) <=> LastIndex(tape, q, b)
                          /\ Closed(tape', q, b) <=> Closed(tape, q, b)
  BY <1>0, <1>1, <1>3, <1>4, PutOther
<1>7. vol.self.p \in Parts /\ (vol.self.p = "dp" => vol.self = best.self)
      /\ (vol.self.p = "ip" => LastIndex(tape, "ip", vol.self.b))
      /\ (vol.back = NoPtr \/ (vol.back.p = "dp" /\ IndexAt(tape, "dp", vol.back.b)))
  BY <1>0, <1>1, <1>2 DEF Memory, Between
<1>8. p = "ip" => vol.self.p = "dp"
  BY <1>0, <1>1, <1>2 DEF Order
<1>9. Sound(tape', best) /\ best' = best
  BY <1>0, <1>1, <1>3, <1>4, <1>7, <1>8, PlainPut
<1>11. todo' \in Seq(Ops) /\ Chain(todo)' /\ Now'.op \in {"idle", "extent"}
  <2>1. CASE todo' = <<>>
    BY <2>1 DEF Chain, Now
  <2>2. CASE todo' = <<Op("extent", "dp")>>
    <3> DEFINE x == Op("extent", "dp")
    <3>1. x \in Ops /\ x.op = "extent"
      BY DEF Op, Ops, Parts
    <3> HIDE DEF x
    <3>2. todo' = <<x>>
      BY <2>2 DEF x
    <3>3. todo' \in Seq(Ops) /\ Chain(todo') /\ todo' # <<>> /\ todo'[1] = x
      BY <3>1, <3>2, ShortChain DEF Opened
    <3>4. Now' = x
      BY <3>3 DEF Now
    <3> QED
      BY <3>1, <3>3, <3>4 DEF Chain
  <2> QED
    BY <2>1, <2>2
<1>12. Extent(Part, vol) = [p |-> p, b |-> a, rec |-> rec] /\ Extent(Part, vol) \in Refs
  BY <1>1, <1>3, <1>4 DEF Extent, Refs
<1>13. \A r \in pending' : r \in pending \/ (r.p = p /\ r.b = a /\ r.rec = rec)
  BY <1>12
<1>14. Types'
  <2>1. pending' \in SUBSET Refs
    BY <1>0, <1>12 DEF Types
  <2>2. mam' \in [Parts -> [fresh : BOOLEAN, count : Nat, set : Nat]]
    BY <1>0, <1>4, PutMam
  <2> QED
    BY <1>0, <1>5, <1>9, <1>11, <2>1, <2>2 DEF Types
<1>15. \A q \in Parts : Pos(tape', vol', q) = IF q = p THEN a + 1 ELSE Pos(tape, vol, q)
  <2>1. Pos(tape, vol, p) \in Nat /\ vol'.append = [vol.append EXCEPT ![p] = Pos(tape, vol, p) + 1]
    BY <1>1, <1>3
  <2> QED
    BY <1>0, <1>1, <1>6, <1>14, <2>1, AppendMoves
<1>16. \A r \in best.tree.refs \cup pending \cup vol.tree.refs :
         At(tape', r.p, r.b) = r.rec /\ r.p \in Parts /\ r.b \in Nat /\ r.b < Pos(tape, vol, r.p)
  <2>1. \A r \in best.tree.refs \cup pending \cup vol.tree.refs : r.p \in Parts /\ r.b \in Nat
    BY <1>0, <1>2 DEF Types, Documents, Trees, Refs, Vols
  <2> QED
    BY <1>0, <1>1, <1>2, <1>3, <1>4, <2>1, PutKept DEF Below
<1>17. Queue'
  BY <1>0, <1>2, <1>11 DEF Queue
<1>18. Sound(tape, best)' /\ MamTrue' /\ Clean'
  BY <1>0, <1>4, <1>9, PutMam DEF Clean
<1>19. Files'
  <2>1. \A r \in best.tree.refs \cup pending' \cup vol.tree.refs : At(tape', r.p, r.b) = r.rec
    BY <1>5, <1>13, <1>16
  <2> QED
    BY <1>9, <2>1 DEF Files, Kept
<1>20. Below'
  <2>1. ASSUME NEW r \in best.tree.refs \cup pending \cup vol.tree.refs PROVE r.b < Pos(tape', vol', r.p)
    <3>1. r.p \in Parts /\ r.b \in Nat /\ r.b < Pos(tape, vol, r.p)
      BY <1>16
    <3>2. CASE r.p = p
      <4>1. r.b < a /\ Pos(tape', vol', r.p) = a + 1
        BY <1>1, <1>15, <3>1, <3>2
      <4>2. a \in Nat
        BY <1>3
      <4> QED
        BY <3>1, <4>1, <4>2
    <3>3. CASE r.p # p
      BY <1>15, <3>1, <3>3
    <3> QED
      BY <3>2, <3>3
  <2>2. a < Pos(tape', vol', p)
    BY <1>1, <1>3, <1>15
  <2>3. \A r \in best.tree.refs \cup pending' \cup vol.tree.refs : r.b < Pos(tape', vol', r.p)
    BY <1>13, <2>1, <2>2
  <2> QED
    BY <1>9, <2>3 DEF Below
<1>21. Active' /\ "ip" \in Parts /\ "dp" \in Parts /\ "ip" # "dp"
  BY <1>2 DEF Active, Parts
<1>211. tape \in Tapes
  BY <1>0 DEF Types
<1>212. Eod(tape, "dp") \in Nat /\ Eod(tape, "dp") >= 4
  BY <1>21, <1>211, AtTyped
<1>213. \A b \in Nat : IndexAt(tape, "dp", b) => b \in 4 .. Eod(tape, "dp") - 1
  BY <1>21, <1>211, IndexRange
<1>22. Ready'
  <2>1. Pos(tape', vol', p) = Eod(tape', p) /\ ~ IndexAt(tape', p, Eod(tape', p) - 1)
    <3>2. Eod(tape', p) - 1 = a
      BY <1>3, <1>5
    <3> QED
      BY <1>1, <1>5, <1>15, <3>2
  <2>2. Pos(tape', vol', "ip") \in 4 .. Eod(tape', "ip")
    <3>1. CASE p = "ip"
      BY <1>3, <1>5, <1>15, <2>1, <3>1
    <3>2. CASE p # "ip"
      BY <1>0, <1>2, <1>6, <1>15, <1>21, <3>2 DEF Ready
    <3> QED
      BY <3>1, <3>2
  <2>3. Pos(tape', vol', "dp") = Eod(tape', "dp") /\ ~ IndexAt(tape', "dp", Eod(tape', "dp") - 1)
    <3>1. CASE p = "dp"
      BY <2>1, <3>1
    <3>2. CASE p # "dp"
      <4>1. Pos(tape, vol, "dp") = Eod(tape, "dp") /\ ~ IndexAt(tape, "dp", Eod(tape, "dp") - 1)
        BY <1>0, <1>1, <1>2 DEF Ready, Here
      <4>2. Eod(tape, "dp") - 1 \in Nat
        BY <1>212
      <4> QED
        BY <1>6, <1>15, <1>21, <3>2, <4>1, <4>2
    <3> QED
      BY <3>1, <3>2
  <2> QED
    BY <1>11, <2>2, <2>3 DEF Ready, Here
<1>23. Memory'
  <2>1. vol.self.b \in Nat /\ vol.back.b \in Nat
    BY <1>0 DEF Types, Vols, Ptrs
  <2>2. vol'.self.p = "ip" => LastIndex(tape', "ip", vol'.self.b)
    BY <1>6, <1>7, <1>8, <1>21, <2>1
  <2>3. vol.back.p = "dp" /\ IndexAt(tape, "dp", vol.back.b) => IndexAt(tape', "dp", vol.back.b)
    <3> SUFFICES ASSUME IndexAt(tape, "dp", vol.back.b) PROVE IndexAt(tape', "dp", vol.back.b)
      OBVIOUS
    <3>1. CASE p = "dp"
      <4>1. vol.back.b < a
        BY <1>3, <1>212, <1>213, <2>1, <3>1
      <4> QED
        BY <1>5, <2>1, <3>1, <4>1
    <3>2. CASE p # "dp"
      BY <1>6, <1>21, <2>1, <3>2
    <3> QED
      BY <3>1, <3>2
  <2>4. vol'.gen >= best'.gen
    BY <1>0, <1>2, <1>9 DEF Memory
  <2> QED
    BY <1>7, <1>9, <1>11, <2>2, <2>3, <2>4 DEF Memory, Between, Writing, Written
<1>24. vol'.end[p] = FALSE /\ \A q \in Parts : q # p => vol'.end[q] = vol.end[q]
  BY <1>0, <1>1 DEF Types, Vols
<1>25. Ends'
  <2> SUFFICES ASSUME NEW q \in Parts, vol'.end[q]
               PROVE  (\E b \in Nat : LastIndex(tape', q, b) /\ Closed(tape', q, b)) /\ CohTrue(q)'
    BY DEF Ends
  <2>0. q # p
    BY <1>24
  <2>1. (\E b \in Nat : LastIndex(tape, q, b) /\ Closed(tape, q, b)) /\ CohTrue(q)
    BY <1>0, <1>1, <1>2, <1>24, <2>0 DEF Ends, Ahead
  <2>2. vol.coh[q].set \in Nat
    BY <1>0 DEF Types, Vols, Cohs
  <2>3. \E b \in Nat : LastIndex(tape', q, b) /\ Closed(tape', q, b)
    BY <1>6, <2>0, <2>1
  <2>4. CohTrue(q)'
    BY <1>6, <2>0, <2>1, <2>2 DEF CohTrue, EndsIn
  <2> QED
    BY <2>3, <2>4
<1>26. Order'
  <2>1. vol.end["ip"] \/ vol.self.p = "dp"
    BY <1>0, <1>1, <1>2 DEF Order
  <2>2. vol'.end["ip"] \/ vol'.self.p = "dp"
    BY <1>8, <1>21, <1>24, <2>1
  <2> QED
    BY <1>11, <2>2 DEF Order, Here
<1>27. Found'
  BY <1>11 DEF Found
<1> QED
  BY <1>9, <1>14, <1>17, <1>18, <1>19, <1>20, <1>22, <1>23, <1>25, <1>26, <1>27 DEF CommitInv

(* A block of a file goes to the tape. *)
LEMMA DataBlockStep ==
    ASSUME CommitInv, DataBlock \/ DataLessSpace
    PROVE  CommitInv' /\ best' = best /\ vol'.tree = vol.tree
<1> SUFFICES ASSUME NEW p, p = Now.p, NEW a, a = AppendPos(vol, p)
             PROVE  CommitInv' /\ best' = best /\ vol'.tree = vol.tree
  OBVIOUS
<1>0. Types /\ Queue
  BY DEF CommitInv
<1>1. Step("data") /\ Put(vol, Part, Data(used.data)) /\ phase' = phase /\ sync' = sync
  BY DEF DataBlock, DataLessSpace
<1>2. todo # <<>> /\ Now.op = "data" /\ p \in Parts /\ Part = p
  BY <1>0, <1>1, NowIs DEF Types
<1>3. /\ vol' \in Vols /\ vol'.append = [vol.append EXCEPT ![p] = a + 1]
      /\ vol'.end = [vol.end EXCEPT ![p] = FALSE]
      /\ vol'.tree = vol.tree /\ vol'.dirty = vol.dirty /\ vol'.broken = vol.broken /\ vol'.kind = vol.kind
      /\ vol'.coh = vol.coh /\ vol'.gen = vol.gen /\ vol'.back = vol.back /\ vol'.self = vol.self
  <2>1. vol \in Vols /\ a \in Nat /\ a + 1 \in Nat
    <3>1. vol \in Vols /\ vol.append[p] \in Nat /\ Eod(tape, p) \in Nat
      BY <1>0, <1>2, AtTyped DEF Types, Vols
    <3> QED
      BY <3>1 DEF AppendPos
  <2>2. [vol.append EXCEPT ![p] = a + 1] \in [Parts -> Nat] /\ [vol.end EXCEPT ![p] = FALSE] \in [Parts -> BOOLEAN]
        /\ [vol.less EXCEPT ![p] = TRUE] \in [Parts -> BOOLEAN]
    BY <2>1 DEF Vols
  <2>3. CASE DataBlock
    <3>1. vol' = [vol EXCEPT !.append = [vol.append EXCEPT ![p] = a + 1], !.end = [vol.end EXCEPT ![p] = FALSE]]
      BY <1>2, <2>1, <2>3 DEF DataBlock, Moved, Vols
    <3> QED
      BY <2>1, <2>2, <3>1 DEF Vols
  <2>4. CASE DataLessSpace
    <3>1. vol' = [vol EXCEPT !.append = [vol.append EXCEPT ![p] = a + 1], !.end = [vol.end EXCEPT ![p] = FALSE],
                             !.less = [vol.less EXCEPT ![p] = TRUE]]
      BY <1>2, <2>1, <2>4 DEF DataLessSpace, Moved, Vols
    <3> QED
      BY <2>1, <2>2, <3>1 DEF Vols
  <2> QED
    BY <2>3, <2>4
<1>4. pending' \in {pending, pending \cup {Extent(Part, vol)}} /\ todo' \in {<<>>, <<Op("extent", "dp")>>}
  BY DEF DataBlock, DataLessSpace
<1>5. used' \in [data : Nat, change : Nat, crash : Nat, fault : Nat, ver : Nat]
  <2>1. used \in [data : Nat, change : Nat, crash : Nat, fault : Nat, ver : Nat]
    BY <1>0 DEF Types
  <2>2. used' = used \/ used' = [used EXCEPT !.fault = @ + 1]
    BY DEF DataBlock, DataLessSpace
  <2> QED
    BY <2>1, <2>2
<1>6. CommitInv' /\ best' = best
  BY <1>1, <1>2, <1>3, <1>4, <1>5, DataPut
<1> QED
  BY <1>3, <1>6

(* The tree in memory changes: every block it names is on the tape and below
   the append position. *)
LEMMA TreeStep ==
    ASSUME CommitInv, vol.tree # None, NEW refs \in SUBSET Refs, SetTree(refs),
           \A r \in refs : Kept(r) /\ (Active => r.b < Pos(tape, vol, r.p)),
           pending' \in SUBSET pending,
           used' \in [data : Nat, change : Nat, crash : Nat, fault : Nat, ver : Nat],
           Now.op \in {"idle", "extent", "lost"},
           todo' \in Seq(Ops), Chain(todo'), vol.broken => todo' = <<>>, Now'.op \in {"idle", "extent", "call"}
    PROVE  CommitInv' /\ best' = best /\ vol'.tree # None
<1>0. Types /\ Queue /\ Sound(tape, best) /\ MamTrue /\ Files /\ Below /\ Ready /\ Memory /\ Clean /\ Ends
      /\ Order
  BY DEF CommitInv
<1> DEFINE new == [ver |-> used.ver + 1, refs |-> refs]
<1>1. /\ tape' = tape /\ best' = best /\ mam' = mam /\ phase' = phase /\ sync' = sync
      /\ vol' = [vol EXCEPT !.tree = new, !.dirty = TRUE]
  BY DEF SetTree, NewTree
<1>2. new \in Trees /\ new.refs = refs /\ new # None
  <2>1. used.ver + 1 \in Nat
    BY <1>0 DEF Types
  <2>2. new \in Trees
    BY <2>1 DEF Trees, Refs
  <2> QED
    BY <2>2, NoneAssumption
<1> HIDE DEF new
<1>3. /\ vol' \in Vols /\ vol'.tree = new /\ vol'.dirty = TRUE
      /\ vol'.broken = vol.broken /\ vol'.kind = vol.kind /\ vol'.append = vol.append /\ vol'.end = vol.end
      /\ vol'.coh = vol.coh /\ vol'.gen = vol.gen /\ vol'.back = vol.back /\ vol'.self = vol.self
  <2>1. vol \in Vols
    BY <1>0 DEF Types
  <2> QED
    BY <1>1, <1>2, <2>1 DEF Vols
<1>4. Active' <=> Active
  BY <1>2, <1>3 DEF Active
<1>5. Types'
  BY <1>0, <1>1, <1>3 DEF Types
<1>6. Queue'
  BY <1>0, <1>1, <1>2, <1>3 DEF Queue, Chain
<1>7. Sound(tape, best)' /\ MamTrue' /\ Clean'
  BY <1>0, <1>1, <1>3 DEF MamTrue, EndsIn, Clean
<1>8. Files'
  BY <1>0, <1>1, <1>2, <1>3 DEF Files, Kept
<1>9. \A q : Pos(tape', vol', q) = Pos(tape, vol, q)
  BY <1>1, <1>3 DEF Pos
<1>10. Below'
  BY <1>0, <1>1, <1>2, <1>3, <1>4, <1>9 DEF Below
<1>11. Ready'
  BY <1>0, <1>1, <1>4, <1>9 DEF Ready, Here
<1>12. Memory'
  BY <1>0, <1>1, <1>3, <1>4 DEF Memory, Between, Writing, Written
<1>13. Ends'
  <2>1. \A q \in Parts : (CohTrue(q)' <=> CohTrue(q)) /\ ~ Ahead(q)
    BY <1>1, <1>3 DEF CohTrue, EndsIn, Ahead
  <2> QED
    BY <1>0, <1>1, <1>3, <1>4, <2>1 DEF Ends
<1>14. Order'
  BY <1>0, <1>3, <1>4 DEF Order, Here
<1>15. Found'
  BY DEF Found
<1> QED
  BY <1>1, <1>2, <1>3, <1>5, <1>6, <1>7, <1>8, <1>10, <1>11, <1>12, <1>13, <1>14, <1>15 DEF CommitInv

(* Types of the blocks a loaded tree refers to. *)
LEMMA RefsTyped ==
    ASSUME Types
    PROVE  /\ best.tree.refs \in SUBSET Refs /\ pending \in SUBSET Refs
           /\ vol.tree # None => vol.tree.refs \in SUBSET Refs
BY DEF Types, Vols, Documents, Trees, Refs

(* An extent that the scheduler held back goes into the tree. *)
LEMMA AddExtentStep ==
    ASSUME CommitInv, AddExtent
    PROVE  CommitInv' /\ best' = best /\ vol.tree # None /\ vol'.tree # None
<1>0. Types /\ Queue /\ Files /\ Below
  BY DEF CommitInv
<1>1. vol.tree # None /\ Now.op \in {"idle", "extent"}
  <2>1. phase = "up" /\ ~ Locked
    BY DEF AddExtent, Session
  <2> QED
    BY <1>0, <2>1, NowIs, InSession DEF Locked, Types
<1>2. PICK x \in pending :
        /\ SetTree(vol.tree.refs \cup {x}) /\ pending' = pending \ {x}
        /\ todo' = IF x.p = "dp" THEN <<>> ELSE todo
  BY DEF AddExtent
<1> DEFINE refs == vol.tree.refs \cup {x}
<1>3. refs \in SUBSET Refs /\ \A r \in refs : Kept(r) /\ (Active => r.b < Pos(tape, vol, r.p))
  <2>1. refs \in SUBSET Refs
    BY <1>0, <1>1, RefsTyped
  <2> QED
    BY <1>0, <1>1, <2>1 DEF Files, Below
<1>4. used' \in [data : Nat, change : Nat, crash : Nat, fault : Nat, ver : Nat]
  <2>1. used \in [data : Nat, change : Nat, crash : Nat, fault : Nat, ver : Nat]
    BY <1>0 DEF Types
  <2>2. used' = [used EXCEPT !.ver = @ + 1]
    BY DEF AddExtent
  <2> QED
    BY <2>1, <2>2
<1>5. todo' \in Seq(Ops) /\ Chain(todo') /\ (vol.broken => todo' = <<>>) /\ Now'.op \in {"idle", "extent"}
  <2>1. CASE todo' = <<>>
    BY <2>1 DEF Chain, Now
  <2>2. CASE todo' = todo
    BY <1>0, <1>1, <2>2 DEF Types, Queue, Now
  <2> QED
    BY <1>2, <2>1, <2>2
<1> HIDE DEF refs
<1>6. SetTree(refs) /\ pending' \in SUBSET pending
  BY <1>2 DEF refs
<1> QED
  BY <1>1, <1>3, <1>4, <1>5, <1>6, TreeStep

(* A change of names or attributes, or a deletion. *)
LEMMA ChangeTreeStep ==
    ASSUME CommitInv, ChangeTree
    PROVE  CommitInv' /\ best' = best /\ vol.tree # None /\ vol'.tree # None
<1>0. Types /\ Queue /\ Files /\ Below
  BY DEF CommitInv
<1>1. vol.tree # None /\ Now.op \in {"idle", "extent"}
  <2>1. phase = "up" /\ ~ Locked
    BY DEF ChangeTree, Session
  <2> QED
    BY <1>0, <2>1, NowIs, InSession DEF Locked, Types
<1>2. PICK gone \in {{}} \cup {{r} : r \in vol.tree.refs} : SetTree(vol.tree.refs \ gone)
  BY DEF ChangeTree
<1> DEFINE refs == vol.tree.refs \ gone
<1>3. refs \in SUBSET Refs /\ \A r \in refs : Kept(r) /\ (Active => r.b < Pos(tape, vol, r.p))
  <2>1. refs \in SUBSET Refs
    BY <1>0, <1>1, RefsTyped
  <2> QED
    BY <1>0, <1>1, <2>1 DEF Files, Below
<1>4. used' \in [data : Nat, change : Nat, crash : Nat, fault : Nat, ver : Nat]
  <2>1. used \in [data : Nat, change : Nat, crash : Nat, fault : Nat, ver : Nat]
    BY <1>0 DEF Types
  <2>2. used' = [used EXCEPT !.change = @ + 1, !.ver = @ + 1]
    BY DEF ChangeTree
  <2>3. used.change + 1 \in Nat /\ used.ver + 1 \in Nat
    BY <2>1
  <2>4. [used EXCEPT !.change = used.change + 1, !.ver = used.ver + 1]
          \in [data : Nat, change : Nat, crash : Nat, fault : Nat, ver : Nat]
    BY <2>1, <2>3
  <2> QED
    BY <2>1, <2>2, <2>4
<1>5. todo' = todo /\ pending' = pending
  BY DEF ChangeTree
<1>6. todo' \in Seq(Ops) /\ Chain(todo') /\ (vol.broken => todo' = <<>>) /\ Now'.op \in {"idle", "extent"}
  BY <1>0, <1>1, <1>5 DEF Types, Queue, Now
<1> HIDE DEF refs
<1>7. SetTree(refs) /\ pending' \in SUBSET pending
  BY <1>2, <1>5 DEF refs
<1> QED
  BY <1>1, <1>3, <1>4, <1>6, <1>7, TreeStep

---------------------------------------------------------------------------
(* The end of a session, and of a write *)

(* A volume that is not loaded. *)
LEMMA NoVolTyped ==
    /\ NoVol \in Vols /\ NoVol.tree = None /\ NoVol.kind = "none" /\ NoVol.broken = FALSE
    /\ NoVol.append = [q \in Parts |-> 0] /\ NoVol.end = [q \in Parts |-> FALSE]
    /\ NoVol.dirty = FALSE /\ NoVol.self = NoPtr /\ NoVol.back = NoPtr /\ NoVol.gen = 0
<1>1. NoPtr \in Ptrs
  BY DEF NoPtr, Ptrs
<1>2. [q \in Parts |-> [count |-> 0, set |-> 0]] \in [Parts -> Cohs]
  BY DEF Cohs
<1> QED
  BY <1>1, <1>2 DEF NoVol, Vols

(* The end of the process takes nothing from the tape. *)
LEMMA GoneStep ==
    ASSUME CommitInv, Gone, tape' = tape, best' = best, mam' = mam,
           used' \in [data : Nat, change : Nat, crash : Nat, fault : Nat, ver : Nat]
    PROVE  CommitInv' /\ best' = best /\ vol'.tree = None
<1>0. Types /\ Sound(tape, best) /\ MamTrue /\ Files
  BY DEF CommitInv
<1>1. phase' = "off" /\ vol' = NoVol /\ todo' = <<>> /\ pending' = {} /\ sync' = None
  BY DEF Gone
<1>2. vol' \in Vols /\ vol'.tree = None /\ vol'.kind = "none" /\ vol'.broken = FALSE
  BY <1>1, NoVolTyped
<1>3. ~ Active' /\ Now'.op = "idle" /\ Chain(todo)'
  BY <1>1, <1>2 DEF Active, Now, Chain
<1>4. Types'
  BY <1>0, <1>1, <1>2 DEF Types
<1>5. Queue'
  BY <1>1, <1>2, <1>3 DEF Queue
<1>6. Sound(tape, best)' /\ MamTrue' /\ Clean' /\ Files'
  BY <1>0, <1>1, <1>2 DEF MamTrue, EndsIn, Clean, Files, Kept
<1>7. Below' /\ Ready' /\ Memory' /\ Ends' /\ Order' /\ Found'
  BY <1>3 DEF Below, Ready, Memory, Between, Writing, Written, Ends, Order, Found
<1> QED
  BY <1>2, <1>4, <1>5, <1>6, <1>7 DEF CommitInv

(* ltfs_unmount has an index to write, or is done. *)
LEMMA UnmountStep ==
    ASSUME CommitInv, Unmount
    PROVE  CommitInv' /\ best' = best /\ (vol'.tree = vol.tree \/ vol'.tree = None)
<1>0. Types /\ Queue
  BY DEF CommitInv
<1>1. tape' = tape /\ best' = best /\ mam' = mam /\ used' = used /\ phase = "up" /\ todo = <<>>
  BY DEF Unmount
<1>2. used' \in [data : Nat, change : Nat, crash : Nat, fault : Nat, ver : Nat] /\ sync \in Parts \cup {None}
  BY <1>0, <1>1 DEF Types
<1>3. CASE Gone
  BY <1>1, <1>2, <1>3, GoneStep
<1>4. CASE /\ ~ vol.broken /\ phase' = "leaving" /\ todo' = <<Op("call", "ip"), Op("leave", "ip")>>
           /\ vol' = vol /\ pending' = pending /\ sync' = sync
  <2> DEFINE c == Op("call", "ip")
             l == Op("leave", "ip")
  <2>1. c \in Ops /\ c.op = "call" /\ c.p = "ip" /\ l \in Ops /\ l.op = "leave" /\ l.p = "ip"
    BY DEF Op, Ops, Parts
  <2> HIDE DEF c, l
  <2>2. todo' = <<c, l>>
    BY <1>4 DEF c, l
  <2>3. todo' \in Seq(Ops) /\ Chain(todo') /\ todo' # <<>> /\ todo'[1] = c
    BY <2>1, <2>2, ShortChain DEF Opened, Follows
  <2>4. Now' = c
    BY <2>3 DEF Now
  <2>5. Active /\ Now.op = "idle"
    BY <1>0, <1>1, <1>4, NowIs, InSession DEF Active, Types
  <2>6. CommitInv'
    BY <1>1, <1>2, <1>4, <2>1, <2>3, <2>4, <2>5, StartStep
  <2> QED
    BY <1>1, <1>4, <2>6
<1> QED
  BY <1>3, <1>4 DEF Unmount

(* The unmount is over, the process has died, or ltfs_check_medium refuses the volume. *)
LEMMA LeaveStep ==
    ASSUME CommitInv, Leave \/ Crash \/ MountRefused
    PROVE  CommitInv' /\ best' = best /\ vol'.tree = None
<1>1. Gone /\ tape' = tape /\ best' = best /\ mam' = mam
  BY DEF Leave, Crash, MountRefused
<1>2. used' \in [data : Nat, change : Nat, crash : Nat, fault : Nat, ver : Nat]
  <2>1. used \in [data : Nat, change : Nat, crash : Nat, fault : Nat, ver : Nat]
    BY DEF CommitInv, Types
  <2>2. used' = used \/ used' = [used EXCEPT !.crash = @ + 1]
    BY DEF Leave, Crash, MountRefused
  <2> QED
    BY <2>1, <2>2
<1> QED
  BY <1>1, <1>2, GoneStep

(* A write fails for good: nothing will be written any more. *)
LEMMA FailStep ==
    ASSUME CommitInv, Fail
    PROVE  CommitInv' /\ best' = best /\ (vol'.tree = vol.tree \/ vol'.tree = None)
<1>0. Types /\ Queue /\ Sound(tape, best) /\ MamTrue /\ Files /\ Clean
  BY DEF CommitInv
<1>1. tape' = tape /\ best' = best /\ mam' = mam
  BY DEF Fail
<1>2. used' \in [data : Nat, change : Nat, crash : Nat, fault : Nat, ver : Nat]
  <2>1. used \in [data : Nat, change : Nat, crash : Nat, fault : Nat, ver : Nat]
    BY <1>0 DEF Types
  <2>2. used' = [used EXCEPT !.fault = @ + 1]
    BY DEF Fail
  <2> QED
    BY <2>1, <2>2
<1>3. CASE phase # "up"
  BY <1>1, <1>2, <1>3, GoneStep DEF Fail
<1>4. CASE phase = "up"
  <2> DEFINE e == [vol.end EXCEPT ![Part] = IF Step("data") THEN FALSE ELSE @]
             g == IF vol.old = None THEN vol.gen ELSE vol.old.gen
             s == IF vol.old = None THEN vol.self ELSE vol.old.self
             k == IF vol.old = None THEN vol.back ELSE vol.old.back
  <2>1. vol \in Vols
    BY <1>0 DEF Types
  <2>2. /\ vol' = [vol EXCEPT !.broken = TRUE, !.old = None, !.end = e, !.gen = g, !.self = s, !.back = k]
        /\ todo' = <<>> /\ phase' = phase /\ pending' = pending /\ sync' = sync
    BY <1>4, <2>1 DEF Fail, Vols
  <2>3. e \in [Parts -> BOOLEAN] /\ g \in Nat /\ s \in Ptrs /\ k \in Ptrs
    <3>1. vol.end \in [Parts -> BOOLEAN] /\ vol.gen \in Nat /\ vol.self \in Ptrs /\ vol.back \in Ptrs
          /\ vol.old \in [gen : Nat, self : Ptrs, back : Ptrs] \cup {None}
      BY <2>1 DEF Vols
    <3>2. e \in [Parts -> BOOLEAN]
      BY <3>1
    <3> QED
      BY <3>1, <3>2
  <2> HIDE DEF e, g, s, k
  <2>4. vol' \in Vols /\ vol'.broken = TRUE /\ vol'.tree = vol.tree /\ vol'.dirty = vol.dirty /\ vol'.kind = vol.kind
    BY <2>1, <2>2, <2>3 DEF Vols
  <2>5. ~ Active' /\ Now'.op = "idle" /\ Chain(todo)' /\ vol.tree # None
    BY <1>4, <2>2, <2>4, InSession DEF Active, Now, Chain
  <2>6. Types'
    BY <1>0, <1>1, <1>2, <2>2, <2>4 DEF Types
  <2>7. Queue'
    BY <1>0, <1>4, <2>2, <2>4, <2>5 DEF Queue
  <2>8. Sound(tape, best)' /\ MamTrue' /\ Clean' /\ Files'
    BY <1>0, <1>1, <2>2, <2>4 DEF MamTrue, EndsIn, Clean, Files, Kept
  <2>9. Below' /\ Ready' /\ Memory' /\ Ends' /\ Order' /\ Found'
    BY <2>5 DEF Below, Ready, Memory, Between, Writing, Written, Ends, Order, Found
  <2> QED
    BY <1>1, <2>4, <2>6, <2>7, <2>8, <2>9 DEF CommitInv
<1> QED
  BY <1>3, <1>4
=============================================================================
