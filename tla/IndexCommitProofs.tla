------------------------- MODULE IndexCommitProofs -------------------------
(* The index of a volume survives every crash, for any number of blocks,
   changes, crashes and failures (libltfs/ltfs.c, libltfs/ltfs_internal.c):
   what is left of the induction that IndexCommitSteps begins, ltfs_mount and
   ltfsck, and the theorems that follow from it. *)
EXTENDS IndexCommitSteps

---------------------------------------------------------------------------
(* Mounting *)

(* Putting a step in front of others. *)
LEMMA ConsChain ==
    ASSUME NEW a \in Ops, a.op # "close", NEW s \in Seq(Ops), Chain(s), s # <<>>, Follows(a, s[1])
    PROVE  LET u == <<a>> \o s IN
           u \in Seq(Ops) /\ Chain(u) /\ u # <<>> /\ u[1] = a /\ u[2] = s[1]
<1> DEFINE n == Len(s)
           x == <<a>>
           u == x \o s
<1>1. n \in Nat /\ n > 0
  OBVIOUS
<1>2. x \in Seq(Ops) /\ Len(x) = 1 /\ x[1] = a
  OBVIOUS
<1> HIDE DEF x
<1>3. u \in Seq(Ops) /\ Len(u) = n + 1 /\ u[1] = a /\ \A i \in 2 .. n + 1 : u[i] = s[i - 1]
  <2>1. /\ x \o s \in Seq(Ops) /\ Len(x \o s) = Len(x) + Len(s)
        /\ \A i \in 1 .. Len(x) + Len(s) : (x \o s)[i] = IF i <= Len(x) THEN x[i] ELSE s[i - Len(x)]
    BY <1>2, ConcatProperties, Zenon
  <2>2. u \in Seq(Ops) /\ Len(u) = 1 + n
        /\ \A i \in 1 .. 1 + n : u[i] = IF i <= 1 THEN x[i] ELSE s[i - 1]
    BY <1>2, <2>1
  <2> HIDE DEF n, u
  <2> QED
    BY <1>1, <1>2, <2>2
<1> HIDE DEF u
<1>4. \A i \in 1 .. n - 1 : Follows(s[i], s[i + 1])
  BY DEF Chain
<1>5. s[n].op \notin Opened
  BY DEF Chain
<1>6. \A i \in 1 .. n : s[i].op = "close" => i + 3 <= n /\ s[i + 3].op = "done" /\ s[i + 3].p = s[i].p
  BY DEF Chain
<1> HIDE DEF n
<1>7. u[2] = s[1]
  <2>1. 2 \in 2 .. n + 1 /\ 2 - 1 = 1
    BY <1>1
  <2> QED
    BY <1>3, <2>1
<1>8. \A i \in 1 .. n : Follows(u[i], u[i + 1])
  <2> SUFFICES ASSUME NEW i \in 1 .. n PROVE Follows(u[i], u[i + 1])
    OBVIOUS
  <2>1. CASE i = 1
    <3>1. i + 1 = 2
      BY <2>1
    <3> QED
      BY <1>3, <1>7, <2>1, <3>1
  <2>2. CASE i # 1
    <3>1. i \in 2 .. n + 1 /\ i + 1 \in 2 .. n + 1 /\ i - 1 \in 1 .. n - 1 /\ i + 1 - 1 = i - 1 + 1
      BY <1>1, <2>2
    <3>2. u[i] = s[i - 1] /\ u[i + 1] = s[i - 1 + 1]
      BY <1>3, <3>1
    <3> QED
      BY <1>4, <3>1, <3>2
  <2> QED
    BY <2>1, <2>2
<1>9. u[n + 1].op \notin Opened
  <2>1. PICK k \in 2 .. n + 1 : k = n + 1 /\ k - 1 = n
    BY <1>1
  <2>2. u[k] = s[k - 1]
    BY <1>3
  <2> QED
    BY <1>5, <2>1, <2>2
<1>10. \A i \in 1 .. n + 1 : u[i].op = "close" =>
         i + 3 <= n + 1 /\ u[i + 3].op = "done" /\ u[i + 3].p = u[i].p
  <2> SUFFICES ASSUME NEW i \in 1 .. n + 1, u[i].op = "close"
               PROVE  i + 3 <= n + 1 /\ u[i + 3].op = "done" /\ u[i + 3].p = u[i].p
    OBVIOUS
  <2>1. i # 1
    BY <1>3
  <2>2. i \in 2 .. n + 1 /\ i - 1 \in 1 .. n
    BY <1>1, <2>1
  <2>3. u[i] = s[i - 1]
    BY <1>3, <2>2
  <2>4. i - 1 + 3 <= n /\ s[i - 1 + 3].op = "done" /\ s[i - 1 + 3].p = s[i - 1].p
    BY <1>6, <2>2, <2>3
  <2>5. i + 3 \in 2 .. n + 1 /\ i + 3 - 1 = i - 1 + 3
    BY <1>1, <2>2, <2>4
  <2>6. u[i + 3] = s[i - 1 + 3]
    BY <1>3, <2>5
  <2> QED
    BY <1>1, <2>3, <2>4, <2>5, <2>6
<1>11. Len(u) - 1 = n /\ u # <<>>
  BY <1>1, <1>3
<1>12. Chain(u)
  BY <1>3, <1>8, <1>9, <1>10, <1>11 DEF Chain
<1> QED
  BY <1>3, <1>7, <1>11, <1>12 DEF u, x

(* Before a mount nothing is in memory. *)
LEMMA OffIs ==
    ASSUME CommitInv, phase = "off"
    PROVE  vol.tree = None /\ pending = {} /\ todo = <<>> /\ Now.op = "idle"
<1>1. Types /\ Queue
  BY DEF CommitInv
<1>2. vol.tree = None /\ pending = {} /\ todo = <<>>
  BY <1>1 DEF Queue
<1> QED
  BY <1>1, <1>2, NowIs DEF Types

(* Current coherency attributes lead to the newest tree. *)
LEMMA QuickFinds ==
    ASSUME CommitInv, Fresh
    PROVE  /\ Newer \in Parts /\ mam[Newer].set \in Nat
           /\ EndsIn(Newer, mam[Newer].set, mam[Newer].count) /\ mam[Newer].count = best.gen
           /\ At(tape, Newer, mam[Newer].set).tree = best.tree
           /\ Newer = "dp" => best.self = [p |-> "dp", b |-> mam["dp"].set]
<1>1. Types /\ Sound(tape, best) /\ MamTrue /\ Gens(tape, best)
  BY DEF CommitInv, Sound
<1>2. "ip" \in Parts /\ "dp" \in Parts /\ Newer \in Parts
  BY DEF Parts, Newer
<1>3. \A p \in Parts : mam[p].count \in Nat /\ mam[p].set \in Nat
  BY <1>1 DEF Types
<1>4. \A p \in Parts : EndsIn(p, mam[p].set, mam[p].count)
  BY <1>1, <1>2 DEF MamTrue, Fresh, Parts
<1>5. best.gen \in Nat /\ best.self.p \in Parts
  BY <1>1, NewestIs
<1>6. \A p \in Parts : mam[p].count <= best.gen
      /\ (mam[p].count = best.gen => At(tape, p, mam[p].set).tree = best.tree)
  BY <1>1, <1>3, <1>4 DEF EndsIn, LastIndex, Gens
<1>7. mam[best.self.p].count = best.gen /\ mam[best.self.p].set = best.self.b
  <2> DEFINE b == mam[best.self.p].set
  <2>1. b \in Nat /\ LastIndex(tape, best.self.p, b) /\ Closed(tape, best.self.p, b)
        /\ At(tape, best.self.p, b).gen = mam[best.self.p].count
    BY <1>3, <1>4, <1>5 DEF EndsIn
  <2> HIDE DEF b
  <2>2. b = best.self.b /\ EndsIn(best.self.p, best.self.b, best.gen)
    BY <1>1, <2>1, ClosedNewest
  <2> QED
    BY <2>1, <2>2 DEF EndsIn, b
<1>8. mam[Newer].count = best.gen
  <2>1. CASE best.self.p = "ip"
    BY <1>2, <1>3, <1>5, <1>6, <1>7, <2>1 DEF Newer
  <2>2. CASE best.self.p = "dp"
    BY <1>2, <1>3, <1>5, <1>6, <1>7, <2>2 DEF Newer
  <2> QED
    BY <1>5, <2>1, <2>2 DEF Parts
<1>9. Newer = "dp" => best.self = [p |-> "dp", b |-> mam["dp"].set]
  <2> SUFFICES ASSUME Newer = "dp" PROVE best.self = [p |-> "dp", b |-> mam["dp"].set]
    OBVIOUS
  <2>1. mam["ip"].count < mam["dp"].count
    BY DEF Newer
  <2>2. best.self.p = "dp"
    BY <1>2, <1>3, <1>5, <1>6, <1>7, <1>8, <2>1 DEF Parts
  <2>3. best.self = [p |-> best.self.p, b |-> best.self.b]
    BY <1>1, NewestIs
  <2> QED
    BY <1>7, <2>2, <2>3
<1> QED
  BY <1>2, <1>3, <1>4, <1>6, <1>8, <1>9

(* The mount that trusts the coherency attributes. *)
LEMMA MountQuickStep ==
    ASSUME CommitInv, MountQuick
    PROVE  CommitInv' /\ best' = best /\ vol.tree = None /\ vol'.tree = best.tree
<1> SUFFICES ASSUME NEW n, n = Newer, NEW x, x = mam[Newer].set, NEW d, d = At(tape, Newer, x)
             PROVE  CommitInv' /\ best' = best /\ vol.tree = None /\ vol'.tree = best.tree
  OBVIOUS
<1>0. Types /\ Queue /\ Sound(tape, best) /\ IndexesTrue(tape) /\ MamTrue /\ Files /\ "ip" \in Parts /\ "dp" \in Parts
      /\ tape \in Tapes
  BY DEF CommitInv, Sound, Parts, Types
<1>1. phase = "off" /\ Fresh /\ vol.tree = None /\ pending = {}
  BY OffIs DEF MountQuick
<1>2. /\ n \in Parts /\ x \in Nat /\ EndsIn(n, x, best.gen) /\ d.tree = best.tree
      /\ n = "dp" => best.self = [p |-> "dp", b |-> x]
  BY <1>1, QuickFinds
<1>3. /\ tape' = tape /\ best' = best /\ mam' = mam /\ pending' = pending /\ sync' = sync /\ used' = used
      /\ phase' = "mounting"
      /\ vol' = Loaded([NoVol EXCEPT !.kind = "mount", !.coh = MamCoh], d)
      /\ todo' = (IF n = "dp" THEN <<Op("call", "ip")>> ELSE <<>>) \o <<Op("finish", "ip")>>
  BY DEF MountQuick
<1>4. IndexAt(tape, n, x) /\ d \in Documents /\ d.gen = best.gen /\ d.self = [p |-> n, b |-> x]
      /\ BackTrue(tape, n, x, d.back) /\ LastIndex(tape, n, x)
  <2>1. IndexAt(tape, n, x) /\ LastIndex(tape, n, x) /\ At(tape, n, x).gen = best.gen
    BY <1>2 DEF EndsIn, LastIndex
  <2> QED
    BY <1>0, <1>2, <2>1 DEF IndexesTrue, IndexAt
<1>5. MamCoh \in [Parts -> Cohs] /\ \A p \in Parts : MamCoh[p].count = mam[p].count /\ MamCoh[p].set = mam[p].set
  BY <1>0 DEF Types, MamCoh, Cohs
<1>6. /\ vol' \in Vols /\ vol'.kind = "mount" /\ vol'.coh = MamCoh
      /\ vol'.gen = d.gen /\ vol'.self = d.self /\ vol'.back = d.back /\ vol'.tree = d.tree
      /\ vol'.dirty = FALSE /\ vol'.broken = FALSE /\ vol'.end = [p \in Parts |-> FALSE]
      /\ vol'.append = [p \in Parts |-> 0]
  <2> DEFINE w == [NoVol EXCEPT !.kind = "mount", !.coh = MamCoh]
  <2>1. /\ w \in Vols /\ w.kind = "mount" /\ w.coh = MamCoh /\ w.dirty = FALSE /\ w.broken = FALSE
        /\ w.end = [p \in Parts |-> FALSE] /\ w.append = [p \in Parts |-> 0]
    BY <1>5, NoVolTyped DEF Vols
  <2>2. d.gen \in Nat /\ d.self \in Ptrs /\ d.back \in Ptrs /\ d.tree \in Trees
    BY <1>4 DEF Documents
  <2>3. vol' = [w EXCEPT !.gen = d.gen, !.self = d.self, !.back = d.back, !.tree = d.tree]
    BY <1>3 DEF Loaded
  <2> HIDE DEF w
  <2> QED
    BY <2>1, <2>2, <2>3, ZenonT(30) DEF Vols
<1>7. vol'.tree # None
  BY <1>0, <1>2, <1>6, NewestIs
<1>8. Active'
  BY <1>6, <1>7 DEF Active
<1>9. /\ todo' \in Seq(Ops) /\ Chain(todo') /\ todo' # <<>>
      /\ n = "dp" => Now'.op = "call"
      /\ n = "ip" => Now'.op = "finish"
  <2> DEFINE f == Op("finish", "ip")
             c == Op("call", "ip")
             s == <<f>>
  <2>1. f \in Ops /\ f.op = "finish" /\ f.p = "ip" /\ c \in Ops /\ c.op = "call" /\ c.p = "ip"
    BY DEF Op, Ops, Parts
  <2> HIDE DEF f, c
  <2>2. s \in Seq(Ops) /\ Chain(s) /\ s # <<>> /\ s[1] = f
    BY <2>1, ShortChain DEF Opened
  <2>3. CASE n = "dp"
    <3>1. todo' = <<c>> \o s
      BY <1>3, <2>3 DEF f, c
    <3> HIDE DEF s
    <3>2. todo' \in Seq(Ops) /\ Chain(todo') /\ todo' # <<>> /\ todo'[1] = c
      BY <2>1, <2>2, <3>1, ConsChain DEF Follows
    <3> QED
      BY <2>1, <2>3, <3>2 DEF Now
  <2>4. CASE n # "dp"
    <3>1. todo' = <<>> \o s
      BY <1>3, <2>4 DEF f, c
    <3>2. todo' = s
      BY <2>2, <3>1
    <3> HIDE DEF s
    <3> QED
      BY <2>1, <2>2, <2>4, <3>2 DEF Now
  <2> QED
    BY <2>3, <2>4
<1>10. Now'.op \in {"call", "finish"} /\ (n = "ip" \/ n = "dp")
  BY <1>2, <1>9 DEF Parts
<1>11. Types'
  BY <1>0, <1>3, <1>6, <1>9 DEF Types
<1>12. Queue'
  BY <1>3, <1>6, <1>7, <1>9, <1>10 DEF Queue, Chain
<1>13. Sound(tape, best)' /\ MamTrue' /\ Clean' /\ Files'
  BY <1>0, <1>1, <1>2, <1>3, <1>6 DEF MamTrue, EndsIn, Clean, Files, Kept
<1>14. \A q \in Parts : Pos(tape', vol', q) = Eod(tape, q) /\ Eod(tape, q) \in Nat /\ Eod(tape, q) >= 4
  BY <1>0, <1>3, <1>6, AtTyped DEF Pos
<1>15. Below'
  <2> SUFFICES ASSUME NEW r \in best.tree.refs PROVE r.b < Pos(tape', vol', r.p)
    BY <1>1, <1>2, <1>3, <1>6 DEF Below
  <2>1. r \in Refs /\ r.p \in Parts /\ r.b \in Nat /\ r.rec \in Blocks /\ At(tape, r.p, r.b) = r.rec
    BY <1>0, RefsTyped DEF Files, Kept, Refs
  <2> QED
    BY <1>0, <1>14, <2>1, BlockIn
<1>16. \A p \in Parts : EndsIn(p, mam[p].set, mam[p].count) /\ mam[p].set \in Nat
  BY <1>0, <1>1 DEF MamTrue, Fresh, Parts, Types
<1>17. ~ IndexAt(tape, "dp", Eod(tape, "dp") - 1)
  <2>1. Closed(tape, "dp", mam["dp"].set) /\ mam["dp"].set \in Nat
    BY <1>0, <1>16 DEF EndsIn
  <2>2. Eod(tape, "dp") - 1 = mam["dp"].set + 1 /\ At(tape, "dp", mam["dp"].set + 1) = Fm
    BY <2>1 DEF Closed
  <2> QED
    BY <2>2, Kinds DEF IndexAt
<1>18. Ready'
  BY <1>0, <1>3, <1>10, <1>14, <1>17 DEF Ready, Here
<1>19. Memory'
  <2>1. vol'.self.p = n /\ vol'.self.b = x /\ vol'.gen = best.gen
    BY <1>4, <1>6
  <2>2. vol'.back = NoPtr \/ (vol'.back.p = "dp" /\ IndexAt(tape', "dp", vol'.back.b))
    BY <1>3, <1>4, <1>6 DEF BackTrue
  <2>3. best.gen \in Nat
    BY <1>0 DEF Types, Documents
  <2> QED
    BY <1>2, <1>3, <1>4, <1>6, <1>10, <2>1, <2>2, <2>3, SMTT(20) DEF Memory, Between, Writing, Written
<1>20. \A p \in Parts : CohTrue(p)'
  BY <1>3, <1>5, <1>6, <1>16 DEF CohTrue, EndsIn
<1>21. Ends'
  BY <1>6 DEF Ends
<1>22. Order'
  <2>1. vol'.self.p = n
    BY <1>4, <1>6
  <2> QED
    BY <1>9, <1>10, <1>20, <2>1 DEF Order, Here
<1>23. Found'
  BY <1>10 DEF Found
<1> QED
  BY <1>1, <1>2, <1>3, <1>6, <1>11, <1>12, <1>13, <1>15, <1>18, <1>19, <1>21, <1>22, <1>23 DEF CommitInv

(* What ltfs_seek_index has found, as FoundOn states it. *)
LEMMA SeekGives ==
    ASSUME NEW t \in Tapes, IndexesTrue(t), NEW p \in Parts
    PROVE  LET f == SeekIndex(t, p) IN
           /\ f \in Founds /\ f.eod = Eod(t, p)
           /\ ~ f.have => f.idx = None /\ ~ f.fm /\ ~ f.after /\ \A b \in Nat : ~ IndexAt(t, p, b)
           /\ f.have => \E x \in Nat :
                 /\ LastIndex(t, p, x) /\ f.idx = At(t, p, x) /\ f.end > x /\ f.idx.self.b = x
                 /\ f.idx.gen \in Nat
                 /\ IF f.after THEN Eod(t, p) # x + 1 /\ ~ Closed(t, p, x)
                    ELSE IF f.fm THEN Closed(t, p, x) ELSE Eod(t, p) = x + 1
<1> DEFINE f == SeekIndex(t, p)
           e == Eod(t, p)
<1>1. e \in Nat
  BY AtTyped
<1>2. CASE \A b \in Nat : ~ IndexAt(t, p, b)
  <2>1. f = [have |-> FALSE, idx |-> None, eod |-> e, end |-> 0, fm |-> FALSE, after |-> FALSE]
    BY <1>2, SeekNothing
  <2> HIDE DEF f, e
  <2>2. f \in Founds /\ f.eod = e /\ f.have = FALSE /\ f.idx = None /\ f.fm = FALSE /\ f.after = FALSE
    BY <1>1, <2>1 DEF Founds
  <2> QED
    BY <1>2, <2>2 DEF f, e
<1>3. ASSUME NEW x \in Nat, LastIndex(t, p, x)
      PROVE  /\ f \in Founds /\ f.eod = e /\ f.have
             /\ f.idx = At(t, p, x) /\ f.end > x /\ f.idx.self.b = x /\ f.idx.gen \in Nat
             /\ IF f.after THEN e # x + 1 /\ ~ Closed(t, p, x)
                ELSE IF f.fm THEN Closed(t, p, x) ELSE e = x + 1
  <2> DEFINE fm == At(t, p, x + 1) = Fm
             end == IF fm THEN x + 2 ELSE x + 1
             d == At(t, p, x)
  <2>1. f = [have |-> TRUE, idx |-> d, eod |-> e, end |-> end, fm |-> fm, after |-> end # e]
    BY <1>3, SeekFinds
  <2>2. d \in Documents /\ d.self = [p |-> p, b |-> x] /\ d.gen \in Nat
    BY <1>3 DEF LastIndex, IndexAt, IndexesTrue, Documents
  <2>3. d.self.b = x
    BY <2>2
  <2>4. end \in Nat /\ end > x /\ fm \in BOOLEAN /\ (end # e) \in BOOLEAN
    OBVIOUS
  <2>5. fm => x + 1 <= e - 1
    BY <1>1, AtTyped, Kinds
  <2>6. Closed(t, p, x) <=> (e = x + 2 /\ fm)
    BY DEF Closed
  <2>7. IF end # e THEN e # x + 1 /\ ~ Closed(t, p, x) ELSE IF fm THEN Closed(t, p, x) ELSE e = x + 1
    <3> HIDE DEF e
    <3>1. CASE fm
      <4>1. end = x + 2 /\ x + 1 <= e - 1
        BY <2>5, <3>1
      <4> HIDE DEF end, fm
      <4> QED
        BY <1>1, <2>6, <3>1, <4>1
    <3>2. CASE ~ fm
      <4>1. end = x + 1
        BY <3>2
      <4> HIDE DEF end, fm
      <4> QED
        BY <1>1, <2>6, <3>2, <4>1
    <3> QED
      BY <3>1, <3>2
  <2> HIDE DEF f, e, fm, end, d
  <2>8. f \in Founds
    BY <1>1, <2>1, <2>2, <2>4 DEF Founds
  <2>9. f.eod = e /\ f.have = TRUE /\ f.idx = d /\ f.end = end /\ f.fm = fm /\ f.after = (end # e)
    BY <2>1
  <2> QED
    BY <2>2, <2>3, <2>4, <2>7, <2>8, <2>9 DEF d
<1> HIDE DEF f, e
<1>4. CASE \E b \in Nat : LastIndex(t, p, b)
  <2>1. PICK x \in Nat : LastIndex(t, p, x)
    BY <1>4
  <2> QED
    BY <1>3, <2>1 DEF f, e
<1> QED
  BY <1>2, <1>4, LastOrNone

(* ltfs_check_medium, the first part. *)
LEMMA MountFullStep ==
    ASSUME CommitInv, NEW kind \in MountKinds, kind # "erase", MountFull(kind)
    PROVE  CommitInv' /\ best' = best /\ vol.tree = None /\ vol'.tree = None
<1> SUFFICES ASSUME NEW found, found = [p \in Parts |-> SeekIndex(tape, p)],
                    NEW open, open = [p \in Parts |-> found[p].have /\ ~ found[p].after /\ ~ found[p].fm],
                    NEW coh, coh = [p \in Parts |-> IF found[p].have
                                   THEN [count |-> found[p].idx.gen, set |-> found[p].idx.self.b]
                                   ELSE MamCoh[p]]
             PROVE  CommitInv' /\ best' = best /\ vol.tree = None /\ vol'.tree = None
  OBVIOUS
<1>0. Types /\ Queue /\ Sound(tape, best) /\ IndexesTrue(tape) /\ MamTrue /\ Files /\ "ip" \in Parts /\ "dp" \in Parts
      /\ tape \in Tapes
  BY DEF CommitInv, Sound, Parts, Types
<1>1. phase = "off" /\ vol.tree = None /\ pending = {}
  BY OffIs DEF MountFull
<1>2. /\ tape' = tape /\ best' = best /\ mam' = mam /\ pending' = pending /\ sync' = sync /\ used' = used
      /\ phase' = "mounting"
      /\ vol' = [NoVol EXCEPT !.kind = kind, !.coh = coh, !.found = found]
      /\ todo' = (IF open["dp"] THEN <<Op("fill", "dp")>> ELSE <<>>)
                 \o (IF open["ip"] THEN <<Op("fill", "ip")>> ELSE <<>>) \o <<Op("check", "ip")>>
  BY <1>0 DEF MountFull
<1>3. \A p \in Parts :
        /\ found[p] \in Founds /\ found[p].eod = Eod(tape, p)
        /\ ~ found[p].have => found[p].idx = None /\ ~ found[p].fm /\ ~ found[p].after
                              /\ \A b \in Nat : ~ IndexAt(tape, p, b)
        /\ found[p].have => \E x \in Nat :
              /\ LastIndex(tape, p, x) /\ found[p].idx = At(tape, p, x) /\ found[p].end > x
              /\ found[p].idx.self.b = x /\ found[p].idx.gen \in Nat
              /\ IF found[p].after THEN Eod(tape, p) # x + 1 /\ ~ Closed(tape, p, x)
                 ELSE IF found[p].fm THEN Closed(tape, p, x) ELSE Eod(tape, p) = x + 1
  <2> TAKE p \in Parts
  <2>1. found[p] = SeekIndex(tape, p)
    OBVIOUS
  <2> QED
    BY <1>0, <2>1, SeekGives
<1>4. found \in [Parts -> Founds]
  BY <1>3
<1>5. coh \in [Parts -> Cohs] /\ \A p \in Parts : found[p].have =>
         coh[p] = [count |-> found[p].idx.gen, set |-> found[p].idx.self.b]
  <2>1. MamCoh \in [Parts -> Cohs]
    BY <1>0 DEF Types, MamCoh, Cohs
  <2>2. \A p \in Parts : found[p].have => found[p].idx.self.b \in Nat /\ found[p].idx.gen \in Nat
    BY <1>3
  <2>3. \A p \in Parts : found[p].have => [count |-> found[p].idx.gen, set |-> found[p].idx.self.b] \in Cohs
    BY <2>2 DEF Cohs
  <2> QED
    BY <2>1, <2>3
<1>6. /\ vol' \in Vols /\ vol'.kind = kind /\ vol'.coh = coh /\ vol'.found = found /\ vol'.tree = None
      /\ vol'.dirty = FALSE /\ vol'.broken = FALSE /\ vol'.append = [p \in Parts |-> 0]
  <2>1. kind \in {"none", "mount", "keep", "erase"}
    BY BoundsAssumption
  <2> QED
    BY <1>2, <1>4, <1>5, <2>1, NoVolTyped DEF Vols
<1>7. /\ todo' \in Seq(Ops) /\ Chain(todo') /\ todo' # <<>> /\ Now' = todo'[1] /\ Now'.op \in {"fill", "check"}
      /\ \A p \in Parts : WillFill(p)' <=> open[p]
  <2> DEFINE c == Op("check", "ip")
             d == Op("fill", "dp")
             i == Op("fill", "ip")
             s == <<c>>
             u == <<i>> \o s
  <2>1. /\ c \in Ops /\ c.op = "check" /\ d \in Ops /\ d.op = "fill" /\ d.p = "dp"
        /\ i \in Ops /\ i.op = "fill" /\ i.p = "ip"
    BY DEF Op, Ops, Parts
  <2> HIDE DEF c, d, i
  <2>2. s \in Seq(Ops) /\ Chain(s) /\ s # <<>> /\ s[1] = c
    BY <2>1, ShortChain DEF Opened
  <2> HIDE DEF s
  <2>3. u \in Seq(Ops) /\ Chain(u) /\ u # <<>> /\ u[1] = i
    BY <2>1, <2>2, ConsChain DEF Follows
  <2>4. todo' = (IF open["dp"] THEN <<d>> ELSE <<>>) \o (IF open["ip"] THEN <<i>> ELSE <<>>) \o s
    BY <1>2 DEF c, d, i, s
  <2>5. \A z \in Seq(Ops) : <<>> \o z = z /\ (<<>> \o <<>>) \o z = z
    OBVIOUS
  <2>6. <<d>> \in Seq(Ops) /\ <<i>> \in Seq(Ops) /\ <<>> \o <<i>> = <<i>> /\ <<d>> \o <<>> = <<d>>
    BY <2>1
  <2> HIDE DEF u
  <2>7. todo' = IF open["dp"] THEN IF open["ip"] THEN <<d>> \o u ELSE <<d>> \o s
                ELSE IF open["ip"] THEN u ELSE s
    <3>1. (<<d>> \o <<i>>) \o s = <<d>> \o u
      BY <2>2, <2>6, ConcatAssociative DEF u
    <3> QED
      BY <2>2, <2>4, <2>5, <2>6, <3>1 DEF u
  <2>8. \A p \in Parts : p = "ip" \/ p = "dp"
    BY DEF Parts
  <2>9. CASE open["dp"] /\ open["ip"]
    <3>1. todo' \in Seq(Ops) /\ Chain(todo') /\ todo' # <<>> /\ todo'[1] = d /\ todo'[2] = i
      BY <2>1, <2>3, <2>7, <2>9, ConsChain DEF Follows
    <3>2. Now' = d
      BY <3>1 DEF Now
    <3> QED
      BY <2>1, <2>8, <2>9, <3>1, <3>2 DEF WillFill, Here
  <2>10. CASE open["dp"] /\ ~ open["ip"]
    <3>1. todo' \in Seq(Ops) /\ Chain(todo') /\ todo' # <<>> /\ todo'[1] = d /\ todo'[2] = c
      BY <2>1, <2>2, <2>7, <2>10, ConsChain DEF Follows
    <3>2. Now' = d
      BY <3>1 DEF Now
    <3> QED
      BY <2>1, <2>8, <2>10, <3>1, <3>2 DEF WillFill, Here
  <2>11. CASE ~ open["dp"] /\ open["ip"]
    <3>1. todo' \in Seq(Ops) /\ Chain(todo') /\ todo' # <<>> /\ todo'[1] = i
      BY <2>3, <2>7, <2>11
    <3>2. Now' = i
      BY <3>1 DEF Now
    <3> QED
      BY <2>1, <2>8, <2>11, <3>1, <3>2 DEF WillFill, Here
  <2>12. CASE ~ open["dp"] /\ ~ open["ip"]
    <3>1. todo' \in Seq(Ops) /\ Chain(todo') /\ todo' # <<>> /\ todo'[1] = c
      BY <2>2, <2>7, <2>12
    <3>2. Now' = c
      BY <3>1 DEF Now
    <3> QED
      BY <2>1, <2>8, <2>12, <3>1, <3>2 DEF WillFill, Here
  <2> QED
    BY <2>9, <2>10, <2>11, <2>12
<1>8. Types'
  BY <1>0, <1>2, <1>6, <1>7 DEF Types
<1>9. Queue'
  BY <1>1, <1>2, <1>6, <1>7 DEF Queue, Chain
<1>10. ~ Active'
  BY <1>6 DEF Active
<1>11. Sound(tape, best)' /\ MamTrue' /\ Clean' /\ Files'
  BY <1>0, <1>1, <1>2, <1>6 DEF MamTrue, EndsIn, Clean, Files, Kept
<1>12. Below' /\ Ready' /\ Memory' /\ Ends' /\ Order'
  BY <1>10 DEF Below, Ready, Memory, Between, Writing, Written, Ends, Order
<1>13. Found'
  <2>1. ASSUME NEW p \in Parts PROVE FoundOn(p, vol.found[p])'
    <3> DEFINE f == found[p]
    <3>1. f.have => \E x \in Nat :
            /\ LastIndex(tape, p, x) /\ f.idx = At(tape, p, x) /\ f.end > x
            /\ coh[p] = [count |-> f.idx.gen, set |-> x]
            /\ IF f.after THEN Eod(tape, p) # x + 1 /\ ~ Closed(tape, p, x)
               ELSE IF f.fm THEN Closed(tape, p, x) ELSE Eod(tape, p) = x + 1
      BY <1>3, <1>5
    <3>2. f.eod = Eod(tape, p) /\ (~ f.have => f.idx = None /\ \A b \in Nat : ~ IndexAt(tape, p, b))
      BY <1>3
    <3>3. WillFill(p)' <=> (f.have /\ ~ f.after /\ ~ f.fm)
      BY <1>7
    <3>4. Pos(tape', vol', p) = Eod(tape', p)
      BY <1>6 DEF Pos
    <3>5. vol'.found[p] = f /\ vol'.coh[p] = coh[p]
      BY <1>6
    <3> HIDE DEF f
    <3> QED
      BY <1>2, <3>1, <3>2, <3>3, <3>4, <3>5 DEF FoundOn
  <2> QED
    BY <1>4, <1>6, <2>1 DEF Found
<1> QED
  BY <1>1, <1>2, <1>6, <1>8, <1>9, <1>11, <1>12, <1>13 DEF CommitInv

(* The file mark that was missing behind an index. *)
LEMMA FillStep ==
    ASSUME CommitInv, FillMark
    PROVE  CommitInv' /\ best' = best /\ vol'.tree = vol.tree
<1> SUFFICES ASSUME NEW p, p = Now.p, NEW a, a = Pos(tape, vol, p), NEW f, f = vol.found[p]
             PROVE  CommitInv' /\ best' = best /\ vol'.tree = vol.tree
  OBVIOUS
<1>0. Types /\ Queue /\ Sound(tape, best) /\ Files /\ Found /\ tape \in Tapes
  BY DEF CommitInv, Types
<1>1. todo # <<>> /\ Now.op = "fill" /\ p \in Parts /\ Part = p /\ todo \in Seq(Ops) /\ Chain(todo)
  BY <1>0, NowIs DEF FillMark, Types, Queue
<1>2. vol.tree = None /\ pending = {} /\ phase = "mounting" /\ ~ vol.broken
  BY <1>0, <1>1 DEF Queue
<1>3. vol.found \in [Parts -> Founds] /\ (\A q \in Parts : FoundOn(q, vol.found[q])) /\ FoundOn(p, f) /\ f \in Founds
  BY <1>0, <1>1 DEF Found
<1>4. WillFill(p)
  BY <1>1 DEF WillFill, Here
<1>5. f.have /\ ~ f.after /\ ~ f.fm /\ f.eod = Eod(tape, p) /\ a = Eod(tape, p)
  BY <1>1, <1>3, <1>4 DEF FoundOn
<1>6. PICK x \in Nat : /\ LastIndex(tape, p, x) /\ f.idx = At(tape, p, x) /\ f.end > x
                       /\ vol.coh[p] = [count |-> f.idx.gen, set |-> x] /\ Eod(tape, p) = x + 1
  BY <1>3, <1>5 DEF FoundOn
<1>7. a \in Nat /\ a \in 4 .. Eod(tape, p) /\ a = x + 1 /\ x < a
  BY <1>0, <1>1, <1>5, <1>6, AtTyped
<1>8. Put(vol, p, Fm) /\ Fm \in Records /\ Fm \notin Documents
  BY <1>1, Kinds DEF FillMark
<1>9. /\ tape' \in Tapes /\ Eod(tape', p) = a + 1 /\ At(tape', p, a) = Fm /\ ~ IndexAt(tape', p, a)
      /\ tape' = Cut(tape, p, a, Fm) /\ best' = Picked(tape')
      /\ \A b \in Nat : b < a => At(tape', p, b) = At(tape, p, b) /\ (IndexAt(tape', p, b) <=> IndexAt(tape, p, b))
      /\ \A b \in Nat : b > a => ~ IndexAt(tape', p, b)
  BY <1>0, <1>1, <1>7, <1>8, PutBlocks, ZenonT(30)
<1>10. \A q \in Parts : q # p =>
        /\ Eod(tape', q) = Eod(tape, q)
        /\ \A b \in Nat : /\ At(tape', q, b) = At(tape, q, b)
                          /\ IndexAt(tape', q, b) <=> IndexAt(tape, q, b)
                          /\ LastIndex(tape', q, b) <=> LastIndex(tape, q, b)
                          /\ Closed(tape', q, b) <=> Closed(tape, q, b)
  BY <1>0, <1>1, <1>7, <1>8, PutOther
<1>11. Sound(tape', best) /\ best' = best
  <2>1. CASE p = "dp"
    BY <1>0, <1>1, <1>5, <1>7, <1>8, <2>1, PlainPut
  <2>2. CASE p = "ip"
    <3>1. Sound(tape', best)
      BY <1>0, <1>6, <1>7, <1>9, <2>2, CloseIp
    <3> QED
      BY <1>9, <3>1, PickedIs
  <2> QED
    BY <1>1, <2>1, <2>2 DEF Parts
<1>12. LastIndex(tape', p, x) /\ Closed(tape', p, x) /\ At(tape', p, x) = At(tape, p, x)
  <2>1. IndexAt(tape', p, x) /\ At(tape', p, x) = At(tape, p, x)
    BY <1>6, <1>7, <1>9 DEF LastIndex
  <2>2. \A c \in Nat : IndexAt(tape', p, c) => c <= x
    <3> SUFFICES ASSUME NEW c \in Nat, IndexAt(tape', p, c) PROVE c <= x
      OBVIOUS
    <3>1. c < a
      BY <1>7, <1>9
    <3> QED
      BY <1>7, <3>1
  <2>3. Eod(tape', p) = x + 2 /\ At(tape', p, x + 1) = Fm
    BY <1>7, <1>9
  <2> QED
    BY <2>1, <2>2, <2>3 DEF LastIndex, Closed
<1> DEFINE g == [f EXCEPT !.fm = TRUE, !.eod = a + 1]
<1>13. todo' = Tail(todo) /\ phase' = phase /\ pending' = pending /\ sync' = sync /\ used' = used
       /\ vol' = [Moved(vol, p) EXCEPT !.found[p] = [f EXCEPT !.fm = TRUE, !.eod = @ + 1]]
  BY <1>1 DEF FillMark
<1>14. /\ g \in Founds /\ g.fm = TRUE /\ g.eod = a + 1 /\ g.have = f.have /\ g.idx = f.idx /\ g.end = f.end
       /\ g.after = f.after
  <2>1. a + 1 \in Nat /\ f \in Founds
    BY <1>3, <1>7
  <2> QED
    BY <2>1 DEF Founds
<1>15. /\ vol' \in Vols /\ vol'.tree = None /\ vol'.broken = vol.broken /\ vol'.kind = vol.kind
       /\ vol'.coh = vol.coh /\ vol'.append = [vol.append EXCEPT ![p] = a + 1]
       /\ vol'.found = [vol.found EXCEPT ![p] = g]
  <2>1. vol \in Vols /\ a + 1 \in Nat
    BY <1>0, <1>7 DEF Types
  <2>2. Moved(vol, p) = [vol EXCEPT !.append = [vol.append EXCEPT ![p] = a + 1]]
    BY DEF Moved, Pos, AppendPos
  <2>3. [vol.append EXCEPT ![p] = a + 1] \in [Parts -> Nat] /\ [vol.found EXCEPT ![p] = g] \in [Parts -> Founds]
    BY <1>3, <1>14, <2>1 DEF Vols
  <2>4. Moved(vol, p) \in Vols /\ Moved(vol, p).found = vol.found
    BY <2>1, <2>2, <2>3 DEF Vols
  <2> DEFINE m == Moved(vol, p)
  <2>5. m.found[p] = f /\ f \in Founds /\ f.eod + 1 = a + 1
    BY <1>3, <1>5, <2>4
  <2>51. [f EXCEPT !.fm = TRUE, !.eod = @ + 1] = g
    BY <2>5 DEF Founds
  <2>6. vol' = [m EXCEPT !.found = [vol.found EXCEPT ![p] = g]]
    BY <1>13, <2>4, <2>51
  <2>7. m.tree = None /\ m.broken = vol.broken /\ m.kind = vol.kind /\ m.coh = vol.coh
        /\ m.append = [vol.append EXCEPT ![p] = a + 1]
    BY <1>2, <2>1, <2>2, <2>3 DEF Vols
  <2> HIDE DEF m, g
  <2>8. m \in Vols
    BY <2>4 DEF m
  <2> QED
    BY <2>3, <2>6, <2>7, <2>8 DEF Vols
<1> HIDE DEF g
<1>16. /\ todo' \in Seq(Ops) /\ Chain(todo)' /\ todo' # <<>> /\ Now' = todo[2]
       /\ \/ Now'.op = "check"
          \/ p = "dp" /\ Now'.op = "fill" /\ Now'.p = "ip"
  BY <1>1, <1>13, TailStep DEF Follows, Opened
<1>17. Types'
  BY <1>0, <1>8, <1>9, <1>11, <1>13, <1>15, <1>16, PutMam DEF Types
<1>18. Queue'
  BY <1>0, <1>2, <1>13, <1>15, <1>16 DEF Queue
<1>19. ~ Active'
  BY <1>15 DEF Active
<1>20. Sound(tape, best)' /\ MamTrue' /\ Clean'
  BY <1>0, <1>8, <1>11, <1>15, PutMam DEF Clean
<1>21. Files'
  <2> SUFFICES ASSUME NEW r \in best.tree.refs PROVE At(tape', r.p, r.b) = r.rec
    BY <1>2, <1>11, <1>13, <1>15 DEF Files, Kept
  <2>1. r.p \in Parts /\ r.b \in Nat /\ r.rec \in Blocks /\ At(tape, r.p, r.b) = r.rec
    BY <1>0, RefsTyped DEF Files, Kept, Refs
  <2>2. r.b < Eod(tape, r.p)
    BY <1>0, <2>1, BlockIn
  <2>3. CASE r.p = p
    BY <1>5, <1>9, <2>1, <2>2, <2>3
  <2>4. CASE r.p # p
    BY <1>10, <2>1, <2>4
  <2> QED
    BY <2>3, <2>4
<1>22. Below' /\ Ready' /\ Memory' /\ Ends' /\ Order'
  BY <1>19 DEF Below, Ready, Memory, Between, Writing, Written, Ends, Order
<1>23. \A q \in Parts : q # p => (WillFill(q)' <=> WillFill(q))
  <2> SUFFICES ASSUME NEW q \in Parts, q # p PROVE WillFill(q)' <=> WillFill(q)
    OBVIOUS
  <2>1. CASE p = "dp"
    <3>1. q = "ip"
      BY <2>1 DEF Parts
    <3> QED
      BY <1>1, <1>16, <2>1, <3>1 DEF WillFill, Here
  <2>2. CASE p = "ip"
    <3>1. q = "dp" /\ "ip" # "dp"
      BY <2>2 DEF Parts
    <3> QED
      BY <1>1, <1>16, <2>2, <3>1 DEF WillFill, Here
  <2> QED
    BY <1>1, <2>1, <2>2 DEF Parts
<1>24. ~ WillFill(p)'
  BY <1>1, <1>16 DEF WillFill, Here, Parts
<1>25. \A q \in Parts : Pos(tape', vol', q) = IF q = p THEN a + 1 ELSE Pos(tape, vol, q)
  <2>1. Pos(tape, vol, p) \in Nat /\ vol'.append = [vol.append EXCEPT ![p] = Pos(tape, vol, p) + 1]
    BY <1>7, <1>15
  <2> QED
    BY <1>0, <1>1, <1>10, <1>17, <2>1, AppendMoves
<1>26. Found'
  <2>1. vol'.found \in [Parts -> Founds] /\ vol'.found[p] = g /\ \A q \in Parts : q # p => vol'.found[q] = vol.found[q]
    BY <1>1, <1>3, <1>14, <1>15
  <2>2. FoundOn(p, vol.found[p])'
    <3>1. g.have => \E z \in Nat :
            /\ LastIndex(tape', p, z) /\ g.idx = At(tape', p, z) /\ g.end > z
            /\ vol'.coh[p] = [count |-> g.idx.gen, set |-> z]
            /\ IF g.after THEN Eod(tape', p) # z + 1 /\ ~ Closed(tape', p, z)
               ELSE IF g.fm THEN Closed(tape', p, z) ELSE Eod(tape', p) = z + 1
      BY <1>5, <1>6, <1>12, <1>14, <1>15
    <3>2. Pos(tape', vol', p) = Eod(tape', p) /\ g.eod = Eod(tape', p) /\ g.have /\ g.fm
      BY <1>1, <1>5, <1>9, <1>14, <1>25
    <3> QED
      BY <1>24, <2>1, <3>1, <3>2 DEF FoundOn
  <2>3. ASSUME NEW q \in Parts, q # p PROVE FoundOn(q, vol.found[q])'
    <3> DEFINE h == vol.found[q]
    <3>1. FoundOn(q, h)
      BY <1>3
    <3>2. vol'.found[q] = h /\ vol'.coh[q] = vol.coh[q]
      BY <1>15, <2>1, <2>3
    <3> HIDE DEF h
    <3>3. h.have => \E z \in Nat :
            /\ LastIndex(tape', q, z) /\ h.idx = At(tape', q, z) /\ h.end > z
            /\ vol'.coh[q] = [count |-> h.idx.gen, set |-> z]
            /\ IF h.after THEN Eod(tape', q) # z + 1 /\ ~ Closed(tape', q, z)
               ELSE IF h.fm THEN Closed(tape', q, z) ELSE Eod(tape', q) = z + 1
      <4> SUFFICES ASSUME h.have
                   PROVE \E z \in Nat :
                      /\ LastIndex(tape', q, z) /\ h.idx = At(tape', q, z) /\ h.end > z
                      /\ vol'.coh[q] = [count |-> h.idx.gen, set |-> z]
                      /\ IF h.after THEN Eod(tape', q) # z + 1 /\ ~ Closed(tape', q, z)
                         ELSE IF h.fm THEN Closed(tape', q, z) ELSE Eod(tape', q) = z + 1
        OBVIOUS
      <4>1. PICK z \in Nat :
              /\ LastIndex(tape, q, z) /\ h.idx = At(tape, q, z) /\ h.end > z
              /\ vol.coh[q] = [count |-> h.idx.gen, set |-> z]
              /\ IF h.after THEN Eod(tape, q) # z + 1 /\ ~ Closed(tape, q, z)
                 ELSE IF h.fm THEN Closed(tape, q, z) ELSE Eod(tape, q) = z + 1
        BY <3>1 DEF FoundOn
      <4> QED
        BY <1>10, <2>3, <3>2, <4>1
    <3>4. h.eod = Eod(tape', q) /\ (~ h.have => h.idx = None /\ \A b \in Nat : ~ IndexAt(tape', q, b))
      BY <1>10, <2>3, <3>1 DEF FoundOn
    <3>5. WillFill(q)' <=> (h.have /\ ~ h.after /\ ~ h.fm)
      BY <1>23, <2>3, <3>1 DEF FoundOn
    <3>6. Pos(tape', vol', q) = Eod(tape', q)
      BY <1>1, <1>10, <1>25, <2>3, <3>1 DEF FoundOn
    <3> QED
      BY <3>2, <3>3, <3>4, <3>5, <3>6 DEF FoundOn
  <2> QED
    BY <2>1, <2>2, <2>3 DEF Found
<1> QED
  BY <1>2, <1>11, <1>15, <1>17, <1>18, <1>20, <1>21, <1>22, <1>26 DEF CommitInv

(* With the missing file marks filled in, what ltfs_check_medium has found is
   the newest index, and what it takes for the end of a partition is. *)
LEMMA CheckFinds ==
    ASSUME CommitInv, Now.op = "check"
    PROVE  LET f == vol.found
               pick == CheckPointers(tape, f["ip"].idx, f["dp"].idx) IN
           /\ f \in [Parts -> Founds]
           /\ \A p \in Parts : Pos(tape, vol, p) = Eod(tape, p) /\ ~ WillFill(p)
           /\ \A p \in Parts : (f[p].have /\ ~ f[p].after) =>
                 /\ f[p].fm
                 /\ \E x \in Nat : /\ LastIndex(tape, p, x) /\ Closed(tape, p, x) /\ x > 4
                                   /\ f[p].idx = At(tape, p, x) /\ f[p].idx.self.b = x
                                   /\ vol.coh[p] = [count |-> f[p].idx.gen, set |-> x]
           /\ f["dp"].have /\ f["dp"].after => ~ IndexAt(tape, "dp", Eod(tape, "dp") - 1)
           /\ f["dp"].have
           /\ pick \in Parts /\ f[pick].idx = best /\ best.self.p = pick
           /\ pick = "ip" => f["ip"].have /\ ~ f["ip"].after
<1> DEFINE f == vol.found
           pick == CheckPointers(tape, f["ip"].idx, f["dp"].idx)
<1>0. Types /\ Sound(tape, best) /\ IndexesTrue(tape) /\ Found /\ "ip" \in Parts /\ "dp" \in Parts
      /\ tape \in Tapes
  BY DEF CommitInv, Sound, Parts, Types
<1>1. f \in [Parts -> Founds] /\ \A p \in Parts : FoundOn(p, f[p])
  BY <1>0 DEF Found
<1>2. \A p \in Parts : ~ WillFill(p)
  BY DEF WillFill, Here
<1> HIDE DEF f
<1>3. \A p \in Parts : Pos(tape, vol, p) = Eod(tape, p)
  BY <1>1 DEF FoundOn
<1>4. ASSUME NEW p \in Parts, f[p].have
      PROVE  \E x \in Nat : /\ LastIndex(tape, p, x) /\ x > 4 /\ f[p].idx = At(tape, p, x)
                            /\ f[p].idx.self.b = x /\ vol.coh[p] = [count |-> f[p].idx.gen, set |-> x]
                            /\ f[p].after => Eod(tape, p) # x + 1 /\ ~ Closed(tape, p, x)
                            /\ ~ f[p].after => f[p].fm /\ Closed(tape, p, x)
  <2>1. PICK x \in Nat :
          /\ LastIndex(tape, p, x) /\ f[p].idx = At(tape, p, x) /\ f[p].end > x
          /\ vol.coh[p] = [count |-> f[p].idx.gen, set |-> x]
          /\ IF f[p].after THEN Eod(tape, p) # x + 1 /\ ~ Closed(tape, p, x)
             ELSE IF f[p].fm THEN Closed(tape, p, x) ELSE Eod(tape, p) = x + 1
    BY <1>1, <1>4 DEF FoundOn
  <2>2. ~ f[p].after => f[p].fm
    BY <1>1, <1>2, <1>4 DEF FoundOn
  <2>3. x > 4 /\ At(tape, p, x).self = [p |-> p, b |-> x]
    BY <1>0, <2>1 DEF IndexesTrue, LastIndex
  <2>4. f[p].idx.self.b = x
    BY <2>1, <2>3
  <2> QED
    BY <2>1, <2>2, <2>3, <2>4
<1>5. f["dp"].have
  <2>1. PICK y \in Nat : LastIndex(tape, "dp", y)
    BY <1>0 DEF Sound, Newest
  <2> QED
    BY <1>0, <1>1, <2>1 DEF FoundOn, LastIndex
<1>6. f["dp"].after => ~ IndexAt(tape, "dp", Eod(tape, "dp") - 1)
  <2> SUFFICES ASSUME f["dp"].after, IndexAt(tape, "dp", Eod(tape, "dp") - 1) PROVE FALSE
    OBVIOUS
  <2>1. PICK x \in Nat : LastIndex(tape, "dp", x) /\ Eod(tape, "dp") # x + 1
    BY <1>0, <1>4, <1>5
  <2>2. Eod(tape, "dp") \in Nat /\ Eod(tape, "dp") >= 4 /\ Eod(tape, "dp") - 1 \in Nat
    BY <1>0, AtTyped
  <2>3. x \in 4 .. Eod(tape, "dp") - 1
    BY <1>0, <2>1, IndexRange DEF LastIndex
  <2>4. Eod(tape, "dp") - 1 <= x
    BY <2>1, <2>2 DEF LastIndex
  <2> QED
    BY <2>1, <2>2, <2>3, <2>4
<1>7. \A p \in Parts : f[p].idx = SeekIndex(tape, p).idx
  <2> TAKE p \in Parts
  <2>1. CASE f[p].have
    <3>1. PICK x \in Nat : LastIndex(tape, p, x) /\ f[p].idx = At(tape, p, x)
      BY <1>4, <2>1
    <3>2. SeekIndex(tape, p).idx = At(tape, p, x)
      BY <1>0, <3>1, SeekFinds
    <3> QED
      BY <3>1, <3>2
  <2>2. CASE ~ f[p].have
    <3>1. f[p].idx = None /\ \A b \in Nat : ~ IndexAt(tape, p, b)
      BY <1>1, <2>2 DEF FoundOn
    <3>2. SeekIndex(tape, p).idx = None
      BY <1>0, <3>1, SeekNothing
    <3> QED
      BY <3>1, <3>2
  <2> QED
    BY <2>1, <2>2
<1>8. /\ pick \in Parts /\ best = f[pick].idx /\ best.self.p = pick
      /\ pick = "ip" => \E x \in Nat :
            LastIndex(tape, "ip", x) /\ (Eod(tape, "ip") = x + 1 \/ Closed(tape, "ip", x))
  <2>1. pick = CheckPointers(tape, SeekIndex(tape, "ip").idx, SeekIndex(tape, "dp").idx)
    BY <1>0, <1>7
  <2> HIDE DEF pick
  <2>2. /\ pick \in Parts /\ best = SeekIndex(tape, pick).idx /\ best.self.p = pick
        /\ pick = "ip" => \E x \in Nat :
              LastIndex(tape, "ip", x) /\ (Eod(tape, "ip") = x + 1 \/ Closed(tape, "ip", x))
    BY <1>0, <2>1, PickedIs
  <2> QED
    BY <1>7, <2>2
<1> HIDE DEF pick
<1>9. pick = "ip" => f["ip"].have /\ ~ f["ip"].after
  <2> SUFFICES ASSUME pick = "ip" PROVE f["ip"].have /\ ~ f["ip"].after
    OBVIOUS
  <2>1. PICK x \in Nat : LastIndex(tape, "ip", x) /\ (Eod(tape, "ip") = x + 1 \/ Closed(tape, "ip", x))
    BY <1>8
  <2>2. f["ip"].have
    BY <1>0, <1>1, <2>1 DEF FoundOn, LastIndex
  <2>3. PICK z \in Nat : LastIndex(tape, "ip", z)
                         /\ (f["ip"].after => Eod(tape, "ip") # z + 1 /\ ~ Closed(tape, "ip", z))
    BY <1>0, <1>4, <2>2
  <2>4. z = x
    BY <2>1, <2>3, OneLast
  <2> QED
    BY <2>1, <2>2, <2>3, <2>4
<1> QED
  BY <1>1, <1>2, <1>3, <1>4, <1>5, <1>6, <1>8, <1>9 DEF f, pick

(* A bounded set of numbers has a largest member. *)
LEMMA BoundedMax ==
    ASSUME NEW S \in SUBSET Nat, NEW e \in Nat, \A n \in S : n <= e, S # {}
    PROVE  Max(S) \in S /\ \A n \in S : n <= Max(S)
<1> DEFINE T == {n \in Nat : e - n \in S}
<1>1. \A s \in S : e - s \in T /\ e - s \in Nat
  <2> SUFFICES ASSUME NEW s \in S PROVE e - s \in T /\ e - s \in Nat
    OBVIOUS
  <2>1. e - s \in Nat /\ e - (e - s) = s
    OBVIOUS
  <2> QED
    BY <2>1
<1>2. T \subseteq Nat /\ T # {}
  BY <1>1
<1>3. \A n \in T : e - n \in S
  OBVIOUS
<1> HIDE DEF T
<1>4. PICK m \in T : \A n \in T : ~(<<n, m>> \in OpToRel(<, Nat))
  BY <1>2, NatLessThanWellFounded, WFMin, Zenon
<1>5. \A n \in T : m <= n
  <2> SUFFICES ASSUME NEW n \in T, n < m PROVE FALSE
    BY <1>2
  <2>1. <<n, m>> \in Nat \X Nat /\ <<n, m>>[1] = n /\ <<n, m>>[2] = m
    BY <1>2
  <2>2. <<n, m>> \in {ss \in Nat \X Nat : ss[1] < ss[2]}
    BY <2>1
  <2> QED
    BY <1>4, <2>2 DEF OpToRel
<1>6. e - m \in S /\ m \in Nat
  BY <1>2, <1>3
<1>7. \A s \in S : s <= e - m
  <2> SUFFICES ASSUME NEW s \in S PROVE s <= e - m
    OBVIOUS
  <2>1. e - s \in Nat /\ m <= e - s /\ s \in Nat
    BY <1>1, <1>5
  <2> QED
    BY <1>6, <2>1
<1>8. Max(S) = e - m
  BY <1>6, <1>7, MaxIs
<1> QED
  BY <1>6, <1>7, <1>8

(* What it leaves in memory, when it does not turn the volume away. *)
LEMMA CheckedIs ==
    ASSUME CommitInv, Now.op = "check", Checked # None \/ ~ TurnedAway
    PROVE  LET f == vol.found
               both == f["ip"].have /\ f["dp"].have
               extra == \E p \in Parts : Extra(f[p]) IN
           /\ Checked \in Vols
           /\ Checked.gen = best.gen /\ Checked.self = best.self /\ Checked.back = best.back
           /\ Checked.tree = best.tree /\ Checked.coh = vol.coh /\ Checked.found = f
           /\ Checked.broken = vol.broken /\ Checked.kind = vol.kind
           /\ Checked.dirty = (~ both \/ best.self.p = "dp" \/ extra)
           /\ Checked.end = [p \in Parts |-> f[p].have /\ ~ f[p].after]
           /\ Checked.append["dp"] = vol.append["dp"]
           /\ Checked.append["ip"] = IF f["ip"].have /\ ~ f["ip"].after
                                     THEN f["ip"].idx.self.b - 1 ELSE vol.append["ip"]
<1> DEFINE f == vol.found
           pick == CheckPointers(tape, f["ip"].idx, f["dp"].idx)
           both == f["ip"].have /\ f["dp"].have
           extra == \E p \in Parts : Extra(f[p])
           dirty == ~ both \/ pick = "dp" \/ extra
           ap == IF f["ip"].have /\ ~ f["ip"].after THEN f["ip"].idx.self.b - 1 ELSE vol.append["ip"]
           end == [p \in Parts |-> f[p].have /\ ~ f[p].after]
           l == Loaded(vol, f[pick].idx)
           v == [l EXCEPT !.dirty = dirty,
                          !.append["ip"] = IF f["ip"].have /\ ~ f["ip"].after THEN f["ip"].idx.self.b - 1 ELSE @,
                          !.end = end]
           erase == vol.kind = "erase" /\ extra
           a == [v EXCEPT !.append = [p \in Parts |-> IF erase THEN EraseAppend(v, f[p], p) ELSE v.append[p]]]
           no == \/ extra /\ vol.kind = "mount"
                 \/ pick = "bad"
                 \/ ~ both /\ ~ CheckExtents(v.tree, f)
                 \/ v.dirty /\ a.append["dp"] # 0 /\ LastRef(v.tree, "dp") > a.append["dp"]
<1>0. Types /\ Queue /\ vol \in Vols /\ best \in Documents /\ "ip" \in Parts /\ "dp" \in Parts /\ "ip" # "dp"
  BY DEF CommitInv, Types, Parts
<1>1. Checked = IF no THEN None ELSE a
  BY DEF Checked
<1>2. f[pick].idx = best /\ best.self.p = pick /\ pick \in Parts /\ f \in [Parts -> Founds]
  BY CheckFinds
<1>3. ap \in Nat
  <2>1. vol.append["ip"] \in Nat
    BY <1>0 DEF Vols
  <2>2. f["ip"].have /\ ~ f["ip"].after => f["ip"].idx.self.b \in Nat /\ f["ip"].idx.self.b > 4
    BY <1>0, CheckFinds
  <2> QED
    BY <2>1, <2>2
<1>4. end \in [Parts -> BOOLEAN] /\ dirty \in BOOLEAN
  <2>1. \A p \in Parts : f[p].have \in BOOLEAN /\ f[p].after \in BOOLEAN
    BY <1>2 DEF Founds
  <2> QED
    BY <2>1
<1>5. ~ erase
  BY <1>0 DEF Queue
<1>6. /\ l \in Vols /\ l.gen = best.gen /\ l.self = best.self /\ l.back = best.back /\ l.tree = best.tree
      /\ l.coh = vol.coh /\ l.found = vol.found /\ l.broken = vol.broken /\ l.kind = vol.kind
      /\ l.append = vol.append /\ l.append \in [Parts -> Nat]
  <2>1. best.gen \in Nat /\ best.self \in Ptrs /\ best.back \in Ptrs /\ best.tree \in Trees
    BY <1>0 DEF Documents
  <2>2. l = [vol EXCEPT !.gen = best.gen, !.self = best.self, !.back = best.back, !.tree = best.tree]
    BY <1>2 DEF Loaded
  <2> HIDE DEF l
  <2> QED
    BY <1>0, <2>1, <2>2 DEF Vols
<1> HIDE DEF l
<1>7. v = [l EXCEPT !.dirty = dirty, !.append = [l.append EXCEPT !["ip"] = ap], !.end = end]
  BY <1>0, <1>6 DEF Vols
<1> DEFINE q == [l.append EXCEPT !["ip"] = ap]
<1>8. q \in [Parts -> Nat] /\ q["ip"] = ap /\ q["dp"] = vol.append["dp"]
  <2> HIDE DEF ap
  <2> QED
    BY <1>0, <1>3, <1>6
<1> HIDE DEF ap, end, q, dirty, v
<1>9. /\ v \in Vols /\ v.gen = best.gen /\ v.self = best.self /\ v.back = best.back /\ v.tree = best.tree
      /\ v.coh = vol.coh /\ v.found = vol.found /\ v.broken = vol.broken /\ v.kind = vol.kind
      /\ v.append = q /\ v.dirty = dirty /\ v.end = end
  <2>1. v = [l EXCEPT !.dirty = dirty, !.append = q, !.end = end]
    BY <1>7 DEF q
  <2> QED
    BY <1>4, <1>6, <1>8, <2>1 DEF Vols
<1>10. [p \in Parts |-> IF erase THEN EraseAppend(v, f[p], p) ELSE v.append[p]] = q
  <2>1. [p \in Parts |-> v.append[p]] = q
    BY <1>8, <1>9
  <2> QED
    BY <1>5, <2>1
<1>11. a = [v EXCEPT !.append = q]
  BY <1>10
<1> HIDE DEF a
<1>12. /\ a \in Vols /\ a.gen = best.gen /\ a.self = best.self /\ a.back = best.back /\ a.tree = best.tree
       /\ a.coh = vol.coh /\ a.found = vol.found /\ a.broken = vol.broken /\ a.kind = vol.kind
       /\ a.append = q /\ a.dirty = dirty /\ a.end = end
  BY <1>8, <1>9, <1>11 DEF Vols
<1>13. Checked = a
  <2>1. CASE Checked # None
    BY <1>1, <2>1
  <2>2. CASE ~ TurnedAway
    <3>1. ASSUME NEW r \in best.tree.refs
          PROVE  r.p \in Parts /\ r.b \in Nat /\ r.b >= 4 /\ r.b + 1 <= Eod(tape, r.p) /\ Eod(tape, r.p) \in Nat
      <4>1. r.p \in Parts /\ r.b \in Nat /\ r.rec \in Blocks /\ At(tape, r.p, r.b) = r.rec /\ tape \in Tapes
        BY <1>0, <3>1, RefsTyped DEF CommitInv, Files, Kept, Refs, Types
      <4>2. r.b \in 4 .. Eod(tape, r.p) - 1 /\ Eod(tape, r.p) \in Nat
        BY <4>1, AtTyped, Kinds
      <4> QED
        BY <4>1, <4>2
    <3>2. ~ (extra /\ vol.kind = "mount") /\ pick # "bad"
      BY <1>2, <2>2 DEF TurnedAway, Parts
    <3>3. both \/ CheckExtents(best.tree, f)
      <4> SUFFICES ASSUME ~ both, NEW r \in best.tree.refs PROVE r.b >= 4 /\ r.b + 1 < f[r.p].eod
        BY DEF CheckExtents
      <4>1. r.b + 1 # Eod(tape, r.p)
        BY <1>0, <2>2 DEF TurnedAway
      <4>2. r.p \in Parts /\ f[r.p].eod = Eod(tape, r.p)
        BY <3>1 DEF CommitInv, Found, FoundOn
      <4> QED
        BY <3>1, <4>1, <4>2
    <3>4. vol.append["dp"] # 0 => ~ (LastRef(best.tree, "dp") > vol.append["dp"])
      <4> DEFINE S == {0} \cup {r.b + 1 : r \in {x \in best.tree.refs : x.p = "dp"}}
                 e == Eod(tape, "dp")
      <4>1. e \in Nat /\ S \in SUBSET Nat /\ 0 \in S /\ \A n \in S : n <= e
        <5>1. e \in Nat
          BY <1>0, AtTyped DEF Types
        <5> QED
          BY <3>1, <5>1
      <4> HIDE DEF S, e
      <4>2. Max(S) \in S /\ Max(S) \in Nat /\ Max(S) <= e
        BY <4>1, BoundedMax
      <4>3. LastRef(best.tree, "dp") = Max(S)
        BY DEF LastRef, S
      <4>4. vol.append["dp"] # 0 => vol.append["dp"] = e
        BY <1>0, CheckFinds DEF Pos, e
      <4> QED
        BY <4>1, <4>2, <4>3, <4>4
    <3>5. v.tree = best.tree /\ a.append["dp"] = vol.append["dp"]
      BY <1>8, <1>9, <1>12
    <3> QED
      BY <1>1, <3>2, <3>3, <3>4, <3>5
  <2> QED
    BY <2>1, <2>2
<1> QED
  BY <1>2, <1>8, <1>12, <1>13 DEF ap, end, dirty

(* The verdict of ltfs_check_medium is TurnedAway. *)
LEMMA CheckVerdict ==
    ASSUME CommitInv, Now.op = "check"
    PROVE  IF TurnedAway THEN Checked = None ELSE Checked.tree = best.tree
<1> DEFINE f == vol.found
           pick == CheckPointers(tape, f["ip"].idx, f["dp"].idx)
<1>1. CASE ~ TurnedAway
  BY <1>1, CheckedIs
<1>2. CASE vol.kind = "mount" /\ \E p \in Parts : Extra(f[p])
  BY <1>2 DEF Checked, TurnedAway
<1>3. CASE (\E p \in Parts : ~ f[p].have) /\ \E r \in best.tree.refs : r.b + 1 = Eod(tape, r.p)
  <2>1. TurnedAway /\ ~ (f["ip"].have /\ f["dp"].have)
    BY <1>3 DEF TurnedAway, Parts
  <2>2. PICK r \in best.tree.refs : r.b + 1 = Eod(tape, r.p)
    BY <1>3
  <2>3. r.p \in Parts /\ r.b \in Nat /\ f[r.p].eod = Eod(tape, r.p)
    BY RefsTyped DEF CommitInv, Found, FoundOn, Refs
  <2>4. ~ CheckExtents(best.tree, f)
    BY <2>2, <2>3 DEF CheckExtents
  <2>5. f[pick].idx = best /\ vol \in Vols
    BY CheckFinds DEF CommitInv, Types
  <2>6. Loaded(vol, f[pick].idx).tree = best.tree
    BY <2>5 DEF Loaded, Vols
  <2> DEFINE both == f["ip"].have /\ f["dp"].have
             extra == \E p \in Parts : Extra(f[p])
             v == [Loaded(vol, f[pick].idx) EXCEPT
                     !.dirty = ~ both \/ pick = "dp" \/ extra,
                     !.append["ip"] = IF f["ip"].have /\ ~ f["ip"].after THEN f["ip"].idx.self.b - 1 ELSE @,
                     !.end = [p \in Parts |-> f[p].have /\ ~ f[p].after]]
  <2>7. v.tree = best.tree
    BY <2>5, <2>6 DEF Loaded, Vols
  <2>8. ~ both /\ ~ CheckExtents(v.tree, f)
    BY <2>1, <2>4, <2>7
  <2>9. (~ both /\ ~ CheckExtents(v.tree, f)) => Checked = None
    BY Zenon DEF Checked
  <2> QED
    BY <2>1, <2>8, <2>9
<1> QED
  BY <1>1, <1>2, <1>3 DEF TurnedAway

(* The steps that repair a volume. *)
LEMMA RepairChain ==
    ASSUME NEW v
    PROVE  LET s == Repair(v) IN
           s \in Seq(Ops) /\ Chain(s) /\ s # <<>> /\ s[1].op \in {"lost", "call"}
<1> DEFINE l == Op("lost", "ip")
           d == Op("call", "dp")
           c == Op("call", "ip")
           f == Op("finish", "ip")
           a == IF v.kind = "keep" /\ \E p \in Parts : Extra(v.found[p]) THEN <<l>> ELSE <<>>
           b == IF ~ v.found["dp"].have \/ v.found["dp"].after THEN <<d>> ELSE <<>>
           t == <<c, f>>
<1>1. /\ l \in Ops /\ l.op = "lost" /\ l.p = "ip" /\ d \in Ops /\ d.op = "call" /\ d.p = "dp"
      /\ c \in Ops /\ c.op = "call" /\ c.p = "ip" /\ f \in Ops /\ f.op = "finish" /\ f.p = "ip"
  BY DEF Op, Ops, Parts
<1>2. Repair(v) = (a \o b) \o t
  BY DEF Repair
<1> HIDE DEF l, d, c, f
<1>3. t \in Seq(Ops) /\ Chain(t) /\ t # <<>> /\ t[1] = c
  BY <1>1, ShortChain DEF Follows, Opened
<1>4. a \in Seq(Ops) /\ b \in Seq(Ops) /\ a \in {<<l>>, <<>>} /\ b \in {<<d>>, <<>>}
  BY <1>1
<1> HIDE DEF a, b, t
<1>5. (a \o b) \o t = a \o (b \o t)
  BY <1>3, <1>4, ConcatAssociative, SMTT(20)
<1> DEFINE u == b \o t
<1>6. u \in Seq(Ops) /\ Chain(u) /\ u # <<>> /\ u[1].op = "call"
  <2>1. CASE b = <<d>>
    BY <1>1, <1>3, <2>1, ConsChain DEF Follows
  <2>2. CASE b = <<>>
    <3>1. u = t
      BY <1>3, <2>2
    <3> QED
      BY <1>1, <1>3, <3>1
  <2> QED
    BY <1>4, <2>1, <2>2
<1> HIDE DEF u
<1> DEFINE s == a \o u
<1>7. s \in Seq(Ops) /\ Chain(s) /\ s # <<>> /\ s[1].op \in {"lost", "call"}
  <2>1. CASE a = <<l>>
    BY <1>1, <1>6, <2>1, ConsChain DEF Follows
  <2>2. CASE a = <<>>
    <3>1. s = u
      BY <1>6, <2>2
    <3> QED
      BY <1>6, <3>1
  <2> QED
    BY <1>4, <2>1, <2>2
<1> QED
  BY <1>2, <1>5, <1>7 DEF u

(* The newest index is loaded, and nothing that it needs is in the way. *)
LEMMA CheckMediumStep ==
    ASSUME CommitInv, CheckMedium
    PROVE  CommitInv' /\ best' = best /\ vol.tree = None /\ vol'.tree = best.tree
<1> SUFFICES ASSUME NEW f, f = vol.found
             PROVE  CommitInv' /\ best' = best /\ vol.tree = None /\ vol'.tree = best.tree
  OBVIOUS
<1> DEFINE both == f["ip"].have /\ f["dp"].have
           extra == \E p \in Parts : Extra(f[p])
<1>0. /\ Types /\ Queue /\ Sound(tape, best) /\ IndexesTrue(tape) /\ MamTrue /\ Files /\ Found
      /\ "ip" \in Parts /\ "dp" \in Parts /\ "ip" # "dp" /\ tape \in Tapes
  BY DEF CommitInv, Sound, Parts, Types
<1>1. Now.op = "check" /\ todo # <<>> /\ Checked # None /\ vol' = Checked
      /\ tape' = tape /\ best' = best /\ mam' = mam /\ phase' = phase /\ pending' = pending
      /\ sync' = sync /\ used' = used
  BY <1>0, NowIs DEF CheckMedium, Types
<1>2. vol.tree = None /\ pending = {} /\ phase = "mounting" /\ vol.broken = FALSE /\ vol.kind # "erase"
  <2>1. vol.broken \in BOOLEAN
    BY <1>0 DEF Types, Vols
  <2> QED
    BY <1>0, <1>1, <2>1 DEF Queue
<1>3. /\ f \in [Parts -> Founds]
      /\ \A p \in Parts : Pos(tape, vol, p) = Eod(tape, p) /\ ~ WillFill(p)
      /\ \A p \in Parts : (f[p].have /\ ~ f[p].after) =>
            /\ f[p].fm
            /\ \E x \in Nat : /\ LastIndex(tape, p, x) /\ Closed(tape, p, x) /\ x > 4
                              /\ f[p].idx = At(tape, p, x) /\ f[p].idx.self.b = x
                              /\ vol.coh[p] = [count |-> f[p].idx.gen, set |-> x]
      /\ f["dp"].have /\ f["dp"].after => ~ IndexAt(tape, "dp", Eod(tape, "dp") - 1)
      /\ f["dp"].have
      /\ best.self.p = "ip" => f["ip"].have /\ ~ f["ip"].after
  BY <1>1, CheckFinds
<1>4. /\ vol' \in Vols
      /\ vol'.gen = best.gen /\ vol'.self = best.self /\ vol'.back = best.back
      /\ vol'.tree = best.tree /\ vol'.coh = vol.coh /\ vol'.found = f
      /\ vol'.broken = vol.broken /\ vol'.kind = vol.kind
      /\ vol'.dirty = (~ both \/ best.self.p = "dp" \/ extra)
      /\ vol'.end = [p \in Parts |-> f[p].have /\ ~ f[p].after]
      /\ vol'.append["dp"] = vol.append["dp"]
      /\ vol'.append["ip"] = IF f["ip"].have /\ ~ f["ip"].after
                             THEN f["ip"].idx.self.b - 1 ELSE vol.append["ip"]
  BY <1>1, CheckedIs
<1>5. vol'.tree # None /\ Active' /\ best.self.p \in Parts /\ best.gen \in Nat /\ best.self.b \in Nat
  BY <1>0, <1>2, <1>4, NewestIs DEF Active
<1>6. vol'.dirty = FALSE => /\ best.self.p = "ip" /\ \A p \in Parts : f[p].have /\ ~ f[p].after
  <2> SUFFICES ASSUME vol'.dirty = FALSE PROVE best.self.p = "ip" /\ \A p \in Parts : f[p].have /\ ~ f[p].after
    OBVIOUS
  <2>1. both /\ ~ extra /\ best.self.p # "dp"
    BY <1>4
  <2> QED
    BY <1>5, <2>1 DEF Parts, Extra
<1>7. /\ todo' \in Seq(Ops) /\ Chain(todo') /\ todo' # <<>> /\ Now' = todo'[1]
      /\ vol'.dirty => Now'.op \in {"lost", "call"}
      /\ ~ vol'.dirty => Now'.op = "coherency" /\ Now'.p = "ip" /\ todo'[3].op = "finish"
  <2> DEFINE ci == Op("coherency", "ip")
             cd == Op("coherency", "dp")
             fi == Op("finish", "ip")
  <2>1. /\ ci \in Ops /\ ci.op = "coherency" /\ ci.p = "ip" /\ cd \in Ops /\ cd.op = "coherency" /\ cd.p = "dp"
        /\ fi \in Ops /\ fi.op = "finish"
    BY DEF Op, Ops, Parts
  <2>2. todo' = IF vol'.dirty THEN Repair(vol') ELSE <<ci, cd, fi>>
    BY <1>1 DEF CheckMedium
  <2> HIDE DEF ci, cd, fi
  <2>3. CASE vol'.dirty
    <3>1. todo' \in Seq(Ops) /\ Chain(todo') /\ todo' # <<>> /\ todo'[1].op \in {"lost", "call"}
      BY <2>2, <2>3, RepairChain
    <3> QED
      BY <2>3, <3>1 DEF Now
  <2>4. CASE ~ vol'.dirty
    <3> DEFINE t == <<cd, fi>>
    <3>1. t \in Seq(Ops) /\ Chain(t) /\ t # <<>> /\ t[1] = cd
      BY <2>1, ShortChain DEF Follows, Opened
    <3>2. todo' = <<ci>> \o t /\ todo'[3] = fi
      BY <2>2, <2>4
    <3> HIDE DEF t
    <3>3. todo' \in Seq(Ops) /\ Chain(todo') /\ todo' # <<>> /\ todo'[1] = ci
      BY <2>1, <3>1, <3>2, ConsChain DEF Follows
    <3> QED
      BY <2>1, <2>4, <3>2, <3>3 DEF Now
  <2> QED
    BY <2>3, <2>4
<1> HIDE DEF both, extra
<1>8. Now'.op \in {"lost", "call", "coherency"} /\ (Now'.op = "coherency" => ~ vol'.dirty /\ Now'.p = "ip")
  BY <1>7
<1>9. Types'
  BY <1>0, <1>1, <1>4, <1>7 DEF Types
<1>10. Queue'
  BY <1>1, <1>2, <1>4, <1>5, <1>7, <1>8 DEF Queue, Chain
<1>11. Sound(tape, best)' /\ MamTrue' /\ Clean' /\ Files'
  BY <1>0, <1>1, <1>2, <1>4 DEF MamTrue, EndsIn, Clean, Files, Kept
<1>12. \A q \in Parts : Eod(tape, q) \in Nat /\ Eod(tape, q) >= 4
  BY <1>0, AtTyped
<1>13. Pos(tape', vol', "dp") = Eod(tape, "dp")
  BY <1>0, <1>1, <1>3, <1>4 DEF Pos
<1>14. ~ (f["ip"].have /\ ~ f["ip"].after) => Pos(tape', vol', "ip") = Eod(tape, "ip")
  BY <1>0, <1>1, <1>3, <1>4 DEF Pos
<1>15. (f["ip"].have /\ ~ f["ip"].after) =>
         \E x \in Nat : IndexAt(tape, "ip", x) /\ Closed(tape, "ip", x) /\ x > 4 /\ x - 1 \in Nat
                        /\ Pos(tape', vol', "ip") = x - 1
  <2> SUFFICES ASSUME f["ip"].have, ~ f["ip"].after
               PROVE  \E x \in Nat : IndexAt(tape, "ip", x) /\ Closed(tape, "ip", x) /\ x > 4 /\ x - 1 \in Nat
                                     /\ Pos(tape', vol', "ip") = x - 1
    OBVIOUS
  <2>1. PICK x \in Nat : LastIndex(tape, "ip", x) /\ Closed(tape, "ip", x) /\ x > 4 /\ f["ip"].idx.self.b = x
    BY <1>0, <1>3
  <2>2. vol'.append["ip"] = x - 1 /\ x - 1 # 0 /\ x - 1 \in Nat
    BY <1>4, <2>1
  <2> QED
    BY <2>1, <2>2 DEF Pos, LastIndex
<1>16. Below'
  <2> SUFFICES ASSUME NEW r \in best.tree.refs PROVE r.b < Pos(tape', vol', r.p)
    BY <1>1, <1>2, <1>4 DEF Below
  <2>1. r \in Refs /\ r.p \in Parts /\ r.b \in Nat /\ r.rec \in Blocks /\ At(tape, r.p, r.b) = r.rec
    BY <1>0, RefsTyped DEF Files, Kept, Refs
  <2>2. r.b < Eod(tape, r.p)
    BY <1>0, <2>1, BlockIn
  <2>3. CASE r.p = "dp"
    BY <1>13, <2>2, <2>3
  <2>4. CASE r.p = "ip" /\ ~ (f["ip"].have /\ ~ f["ip"].after)
    BY <1>14, <2>2, <2>4
  <2>5. CASE r.p = "ip" /\ f["ip"].have /\ ~ f["ip"].after
    <3>1. PICK x \in Nat : IndexAt(tape, "ip", x) /\ Closed(tape, "ip", x) /\ Pos(tape', vol', "ip") = x - 1
      BY <1>15, <2>5
    <3>2. r.b < x - 1
      BY <1>0, <2>1, <2>5, <3>1, ClosedBelow
    <3> QED
      BY <2>5, <3>1, <3>2
  <2> QED
    BY <2>1, <2>3, <2>4, <2>5 DEF Parts
<1>17. Pos(tape', vol', "ip") \in 4 .. Eod(tape, "ip")
  <2>1. CASE ~ (f["ip"].have /\ ~ f["ip"].after)
    BY <1>0, <1>12, <1>14, <2>1
  <2>2. CASE f["ip"].have /\ ~ f["ip"].after
    <3>1. PICK x \in Nat : IndexAt(tape, "ip", x) /\ x > 4 /\ Pos(tape', vol', "ip") = x - 1
      BY <1>15, <2>2
    <3>2. x \in 4 .. Eod(tape, "ip") - 1
      BY <1>0, <3>1, IndexRange
    <3> QED
      BY <1>0, <1>12, <3>1, <3>2
  <2> QED
    BY <2>1, <2>2
<1>18. ~ IndexAt(tape, "dp", Eod(tape, "dp") - 1)
  <2>1. CASE f["dp"].after
    BY <1>3, <2>1
  <2>2. CASE ~ f["dp"].after
    <3>1. PICK x \in Nat : Closed(tape, "dp", x)
      BY <1>0, <1>3, <2>2
    <3>2. Eod(tape, "dp") - 1 = x + 1 /\ At(tape, "dp", x + 1) = Fm
      BY <3>1 DEF Closed
    <3> QED
      BY <3>2, Kinds DEF IndexAt
  <2> QED
    BY <2>1, <2>2
<1>19. Ready'
  BY <1>0, <1>1, <1>8, <1>13, <1>17, <1>18 DEF Ready, Here
<1>20. /\ LastIndex(tape, best.self.p, best.self.b) /\ best.self = [p |-> best.self.p, b |-> best.self.b]
       /\ BackTrue(tape, best.self.p, best.self.b, best.back)
  <2>1. LastIndex(tape, best.self.p, best.self.b) /\ best.self = [p |-> best.self.p, b |-> best.self.b]
        /\ best = At(tape, best.self.p, best.self.b)
    BY <1>0, NewestIs
  <2> QED
    BY <1>0, <1>5, <2>1 DEF IndexesTrue, LastIndex
<1>21. Memory'
  <2>1. vol'.back = NoPtr \/ (vol'.back.p = "dp" /\ IndexAt(tape', "dp", vol'.back.b))
    BY <1>1, <1>4, <1>20 DEF BackTrue
  <2>2. Between'
    BY <1>1, <1>4, <1>5, <1>20, <2>1 DEF Between
  <2>3. Now'.op = "coherency" => vol'.end[vol'.self.p]
    BY <1>4, <1>5, <1>6, <1>8
  <2>4. Writing' /\ Written'
    BY <1>1, <1>4, <1>8, <2>3 DEF Writing, Written
  <2> QED
    BY <1>1, <1>4, <1>5, <2>2, <2>4 DEF Memory
<1>22. \A p \in Parts : (f[p].have /\ ~ f[p].after) =>
         /\ \E b \in Nat : LastIndex(tape', p, b) /\ Closed(tape', p, b)
         /\ CohTrue(p)'
  <2> SUFFICES ASSUME NEW p \in Parts, f[p].have, ~ f[p].after
               PROVE  (\E b \in Nat : LastIndex(tape', p, b) /\ Closed(tape', p, b)) /\ CohTrue(p)'
    OBVIOUS
  <2>1. PICK x \in Nat : LastIndex(tape, p, x) /\ Closed(tape, p, x) /\ f[p].idx = At(tape, p, x)
                         /\ vol.coh[p] = [count |-> f[p].idx.gen, set |-> x]
    BY <1>3
  <2>2. vol'.coh[p].set = x /\ vol'.coh[p].count = At(tape, p, x).gen
    BY <1>4, <2>1
  <2> QED
    BY <1>1, <2>1, <2>2 DEF CohTrue, EndsIn
<1>23. \A p \in Parts : vol'.end[p] = (f[p].have /\ ~ f[p].after)
  BY <1>4
<1>24. Ends'
  BY <1>22, <1>23 DEF Ends
<1>25. Order'
  <2>1. vol'.self.p = best.self.p
    BY <1>4
  <2>2. Now'.op = "coherency" => Now'.p = "ip" /\ Returns(todo[3])' /\ vol'.end["dp"]
    <3> SUFFICES ASSUME Now'.op = "coherency" PROVE Now'.p = "ip" /\ Returns(todo[3])' /\ vol'.end["dp"]
      OBVIOUS
    <3>1. ~ vol'.dirty /\ Now'.p = "ip" /\ vol'.dirty \in BOOLEAN
      BY <1>4, <1>8 DEF Vols
    <3>2. todo'[3].op = "finish" /\ best.self.p = "ip" /\ f["dp"].have /\ ~ f["dp"].after
      BY <1>0, <1>6, <1>7, <3>1
    <3> QED
      BY <1>0, <1>23, <2>1, <3>1, <3>2 DEF Returns
  <2>3. vol'.end["ip"] \/ vol'.self.p = "dp"
    BY <1>0, <1>3, <1>5, <1>23, <2>1 DEF Parts
  <2> QED
    BY <1>8, <2>2, <2>3 DEF Order, Here
<1>26. Found'
  <2> SUFFICES ASSUME Now'.op = "lost", NEW p \in Parts PROVE FoundOn(p, f[p])'
    BY <1>3, <1>4, <1>8 DEF Found
  <2>1. FoundOn(p, f[p])
    BY <1>0, <1>1 DEF Found
  <2>2. ~ WillFill(p)' /\ ~ WillFill(p)
    BY <1>1 DEF WillFill, Here
  <2>3. (~ f[p].have \/ f[p].after) => Pos(tape', vol', p) = Eod(tape, p)
    BY <1>13, <1>14 DEF Parts
  <2>4. f' = f /\ vol'.coh = vol.coh /\ tape' = tape
    BY <1>1, <1>4
  <2> QED
    BY <2>1, <2>2, <2>3, <2>4 DEF FoundOn
<1> QED
  BY <1>1, <1>2, <1>4, <1>9, <1>10, <1>11, <1>16, <1>19, <1>21, <1>24, <1>25, <1>26 DEF CommitInv

(* What _ltfs_populate_lost_found adds: blocks behind the last index of their
   partition, none of them part of an index. *)
LEMMA LostBlocks ==
    ASSUME CommitInv, Now.op = "lost", vol.tree # None,
           NEW r \in LostFound(tape, vol.tree, vol.found)
    PROVE  r \in Refs /\ Kept(r) /\ r.b < Pos(tape, vol, r.p)
<1> SUFFICES ASSUME NEW f, f = vol.found
             PROVE  r \in Refs /\ Kept(r) /\ r.b < Pos(tape, vol, r.p)
  OBVIOUS
<1>0. Types /\ Files /\ tape \in Tapes /\ f \in [Parts -> Founds] /\ \A p \in Parts : FoundOn(p, f[p])
  BY DEF CommitInv, Types, Found
<1> DEFINE from(p) == IF LastRef(vol.tree, p) >= f[p].end THEN LastRef(vol.tree, p) + 1 ELSE f[p].end
           first(p) == Max({4, from(p)})
           blocks(p) == IF f[p].end < f[p].eod
                        THEN {b \in first(p) .. f[p].eod - 1 : ~ IsFm(tape, p, b)} ELSE {}
<1>1. PICK p \in Parts : r \in {[p |-> p, b |-> b, rec |-> At(tape, p, b)] : b \in blocks(p)}
  BY DEF LostFound
<1>2. PICK b \in blocks(p) : r = [p |-> p, b |-> b, rec |-> At(tape, p, b)]
  BY <1>1
<1>3. b \in first(p) .. f[p].eod - 1 /\ ~ IsFm(tape, p, b)
  BY <1>2
<1>4. /\ f[p].eod = Eod(tape, p) /\ Eod(tape, p) \in Nat /\ Eod(tape, p) >= 4
      /\ f[p].end \in Nat /\ f[p].after \in BOOLEAN /\ f[p].have \in BOOLEAN /\ f[p].fm \in BOOLEAN
  <2>1. f[p] \in Founds /\ FoundOn(p, f[p])
    BY <1>0
  <2> QED
    BY <1>0, <2>1, AtTyped DEF FoundOn, Founds
<1>5. LastRef(vol.tree, p) \in Nat
  <2> DEFINE S == {0} \cup {x.b + 1 : x \in {y \in vol.tree.refs : y.p = p}}
  <2>1. \A y \in vol.tree.refs : y \in Refs /\ At(tape, y.p, y.b) = y.rec
    BY <1>0, RefsTyped DEF Files, Kept
  <2>2. \A y \in vol.tree.refs : y.b \in Nat /\ y.rec \in Blocks
    BY <2>1 DEF Refs
  <2>3. \A y \in vol.tree.refs : y.p = p => y.b < Eod(tape, p)
    BY <1>0, <2>1, <2>2, BlockIn
  <2>4. S \in SUBSET Nat /\ S # {} /\ \A n \in S : n <= Eod(tape, p)
    BY <1>4, <2>2, <2>3
  <2>5. LastRef(vol.tree, p) = Max(S)
    BY DEF LastRef
  <2> HIDE DEF S
  <2> QED
    BY <1>4, <2>4, <2>5, BoundedMax
<1>6. from(p) \in Nat /\ from(p) >= f[p].end
  BY <1>4, <1>5
<1> HIDE DEF from
<1>7. first(p) \in Nat /\ first(p) >= 4 /\ first(p) >= from(p)
  <2> DEFINE S == {4, from(p)}
             e == 4 + from(p)
  <2>1. S \in SUBSET Nat /\ S # {} /\ e \in Nat /\ \A n \in S : n <= e
    BY <1>6
  <2> HIDE DEF e
  <2>2. Max(S) \in S /\ \A n \in S : n <= Max(S)
    <3> HIDE DEF S
    <3> QED
      BY <2>1, BoundedMax
  <2> DEFINE m == Max(S)
  <2>3. first(p) = m
    OBVIOUS
  <2>4. m \in {4, from(p)} /\ 4 <= m /\ from(p) <= m
    BY <2>2
  <2> HIDE DEF m, first
  <2> QED
    BY <1>6, <2>3, <2>4
<1> HIDE DEF first, blocks
<1>8. b \in Nat /\ b >= 4 /\ b >= f[p].end /\ b < Eod(tape, p) /\ b \in 4 .. Eod(tape, p) - 1
  BY <1>3, <1>4, <1>6, <1>7
<1>9. At(tape, p, b) \in Records /\ At(tape, p, b) # Fm
  BY <1>0, <1>3, <1>8, AtTyped DEF IsFm
<1>10. CASE ~ f[p].have
  <2>1. ~ IndexAt(tape, p, b) /\ Pos(tape, vol, p) = Eod(tape, p)
    BY <1>0, <1>8, <1>10 DEF FoundOn
  <2>2. At(tape, p, b) \in Blocks
    BY <1>9, <2>1 DEF Records, IndexAt
  <2> QED
    BY <1>2, <1>8, <2>1, <2>2 DEF Refs, Kept
<1>11. CASE f[p].have
  <2>1. PICK x \in Nat :
          /\ LastIndex(tape, p, x) /\ f[p].end > x
          /\ IF f[p].after THEN TRUE ELSE IF f[p].fm THEN Closed(tape, p, x) ELSE Eod(tape, p) = x + 1
    BY <1>0, <1>11 DEF FoundOn
  <2>2. ~ IndexAt(tape, p, b)
    BY <1>4, <1>8, <2>1 DEF LastIndex
  <2>3. f[p].after
    <3> SUFFICES ASSUME ~ f[p].after PROVE FALSE
      OBVIOUS
    <3>1. ~ WillFill(p)
      BY DEF WillFill, Here
    <3>2. f[p].fm
      BY <1>0, <1>11, <3>1 DEF FoundOn
    <3>3. Eod(tape, p) = x + 2 /\ At(tape, p, x + 1) = Fm
      BY <2>1, <3>2 DEF Closed
    <3>4. b = x + 1
      BY <1>4, <1>8, <2>1, <3>3
    <3> QED
      BY <1>9, <3>3, <3>4
  <2>4. Pos(tape, vol, p) = Eod(tape, p)
    BY <1>0, <2>3 DEF FoundOn
  <2>5. At(tape, p, b) \in Blocks
    BY <1>9, <2>2 DEF Records, IndexAt
  <2> QED
    BY <1>2, <1>8, <2>4, <2>5 DEF Refs, Kept
<1> QED
  BY <1>10, <1>11

(* The recovery of lost blocks is a change of the tree. *)
LEMMA RecoverLostStep ==
    ASSUME CommitInv, RecoverLost
    PROVE  CommitInv' /\ best' = best /\ vol.tree # None /\ vol'.tree # None
<1>0. Types /\ Queue /\ Files /\ Below /\ todo \in Seq(Ops)
  BY DEF CommitInv, Types
<1>1. Now.op = "lost" /\ todo # <<>> /\ todo' = Tail(todo) /\ pending' = pending
      /\ SetTree(vol.tree.refs \cup LostFound(tape, vol.tree, vol.found))
      /\ used' = [used EXCEPT !.ver = @ + 1]
  BY <1>0, NowIs DEF RecoverLost
<1>2. vol.tree # None /\ ~ vol.broken
  BY <1>0, <1>1 DEF Queue
<1>3. todo' \in Seq(Ops) /\ Chain(todo') /\ Now'.op = "call"
  <2>1. /\ todo' \in Seq(Ops) /\ Chain(todo)'
        /\ \/ Now.op \notin Opened
           \/ Follows(Now, Now')
    BY <1>0, <1>1, TailStep DEF Queue
  <2> QED
    BY <1>1, <2>1 DEF Opened, Follows, Chain
<1>4. used' \in [data : Nat, change : Nat, crash : Nat, fault : Nat, ver : Nat]
  <2>1. used \in [data : Nat, change : Nat, crash : Nat, fault : Nat, ver : Nat]
    BY <1>0 DEF Types
  <2>2. used' = [used EXCEPT !.ver = @ + 1]
    BY <1>1
  <2> QED
    BY <2>1, <2>2
<1> DEFINE refs == vol.tree.refs \cup LostFound(tape, vol.tree, vol.found)
<1>5. \A r \in refs : r \in Refs /\ Kept(r) /\ (Active => r.b < Pos(tape, vol, r.p))
  <2> SUFFICES ASSUME NEW r \in refs PROVE r \in Refs /\ Kept(r) /\ (Active => r.b < Pos(tape, vol, r.p))
    OBVIOUS
  <2>1. CASE r \in vol.tree.refs
    BY <1>0, <1>2, <2>1, RefsTyped DEF Files, Below
  <2>2. CASE r \in LostFound(tape, vol.tree, vol.found)
    BY <1>1, <1>2, <2>2, LostBlocks
  <2> QED
    BY <2>1, <2>2
<1>6. SetTree(refs) /\ refs \in SUBSET Refs
  BY <1>1, <1>5
<1> HIDE DEF refs
<1>7. pending' \in SUBSET pending
  BY <1>1
<1> QED
  BY <1>1, <1>2, <1>3, <1>4, <1>5, <1>6, <1>7, TreeStep

(* When the mount is done both partitions end in an index. *)
LEMMA MountFinishStep ==
    ASSUME CommitInv, MountFinish
    PROVE  CommitInv' /\ best' = best /\ vol'.tree = vol.tree
<1>0. /\ Types /\ Queue /\ Sound(tape, best) /\ IndexesTrue(tape) /\ MamTrue /\ Files /\ Below /\ Ready
      /\ Memory /\ Clean /\ Ends /\ Order /\ tape \in Tapes /\ vol \in Vols /\ todo \in Seq(Ops)
      /\ "ip" \in Parts /\ "dp" \in Parts /\ "ip" # "dp"
  BY DEF CommitInv, Sound, Types, Parts
<1>1. /\ Now.op = "finish" /\ todo # <<>> /\ todo' = Tail(todo)
      /\ tape' = tape /\ best' = best /\ mam' = mam /\ pending' = pending /\ sync' = sync /\ used' = used
      /\ phase' = "up"
      /\ vol' = [vol EXCEPT !.append["ip"] = vol.self.b - 1, !.end = [p \in Parts |-> TRUE], !.found = None]
  BY <1>0, NowIs DEF MountFinish
<1>2. vol.tree # None /\ ~ vol.broken /\ Active
  BY <1>0, <1>1 DEF Queue, Active
<1>3. todo' = <<>> /\ Now'.op = "idle" /\ Chain(todo') /\ todo' \in Seq(Ops)
  <2>1. /\ todo' \in Seq(Ops) /\ Chain(todo)'
        /\ \/ todo' = <<>> /\ Now'.op = "idle"
           \/ Follows(Now, Now')
    BY <1>0, <1>1, TailStep DEF Queue
  <2>2. ~ Follows(Now, Now')
    BY <1>1 DEF Follows
  <2> QED
    BY <2>1, <2>2 DEF Chain
<1>4. vol.self.p = "ip" /\ \A p \in Parts : CohTrue(p)
  BY <1>0, <1>1, <1>2 DEF Order
<1>5. PICK x \in Nat : x = vol.self.b /\ LastIndex(tape, "ip", x) /\ Closed(tape, "ip", x) /\ x > 4 /\ x - 1 \in Nat
  <2>1. vol.self.b \in Nat /\ vol.coh["ip"].set \in Nat
    BY <1>0 DEF Vols, Ptrs, Cohs
  <2>2. LastIndex(tape, "ip", vol.self.b)
    BY <1>0, <1>1, <1>2, <1>4 DEF Memory, Between
  <2>3. LastIndex(tape, "ip", vol.coh["ip"].set) /\ Closed(tape, "ip", vol.coh["ip"].set)
    BY <1>0, <1>4 DEF CohTrue, EndsIn
  <2>4. vol.coh["ip"].set = vol.self.b
    BY <2>1, <2>2, <2>3, OneLast
  <2>5. vol.self.b > 4
    BY <1>0, <2>1, <2>2 DEF IndexesTrue, LastIndex
  <2> QED
    BY <2>1, <2>2, <2>3, <2>4, <2>5
<1>6. /\ vol' \in Vols /\ vol'.tree = vol.tree /\ vol'.dirty = vol.dirty /\ vol'.broken = vol.broken
      /\ vol'.kind = vol.kind /\ vol'.coh = vol.coh /\ vol'.gen = vol.gen /\ vol'.back = vol.back
      /\ vol'.self = vol.self /\ vol'.end = [p \in Parts |-> TRUE]
      /\ vol'.append["dp"] = vol.append["dp"] /\ vol'.append["ip"] = x - 1
  <2> DEFINE a == [vol.append EXCEPT !["ip"] = x - 1]
             e == [p \in Parts |-> TRUE]
  <2>1. vol' = [vol EXCEPT !.append = a, !.end = e, !.found = None]
    BY <1>0, <1>1, <1>5 DEF Vols
  <2>2. vol.append \in [Parts -> Nat] /\ a \in [Parts -> Nat] /\ a["ip"] = x - 1 /\ a["dp"] = vol.append["dp"]
    <3>1. vol.append \in [Parts -> Nat]
      BY <1>0 DEF Vols
    <3> QED
      BY <1>0, <1>5, <3>1
  <2>3. e \in [Parts -> BOOLEAN]
    OBVIOUS
  <2> HIDE DEF a, e
  <2>4. vol' \in Vols /\ vol'.append = a /\ vol'.end = e
        /\ vol'.tree = vol.tree /\ vol'.dirty = vol.dirty /\ vol'.broken = vol.broken
        /\ vol'.kind = vol.kind /\ vol'.coh = vol.coh /\ vol'.gen = vol.gen /\ vol'.back = vol.back
        /\ vol'.self = vol.self
    BY <1>0, <2>1, <2>2, <2>3 DEF Vols
  <2> QED
    BY <2>2, <2>4 DEF e
<1>7. Types'
  BY <1>0, <1>1, <1>3, <1>6 DEF Types
<1>8. Active' /\ vol'.tree # None
  BY <1>2, <1>6 DEF Active
<1>9. Queue'
  BY <1>0, <1>1, <1>3, <1>6, <1>8 DEF Queue, Chain
<1>10. Sound(tape, best)' /\ MamTrue' /\ Clean' /\ Files'
  BY <1>0, <1>1, <1>6 DEF MamTrue, EndsIn, Clean, Files, Kept
<1>11. /\ Pos(tape', vol', "ip") = x - 1 /\ Pos(tape', vol', "dp") = Eod(tape, "dp")
       /\ Eod(tape, "dp") \in Nat /\ Eod(tape, "ip") \in Nat
  <2>1. Pos(tape, vol, "dp") = Eod(tape, "dp")
    BY <1>0, <1>1, <1>2 DEF Ready, Here
  <2>2. Pos(tape', vol', "dp") = Pos(tape, vol, "dp")
    BY <1>1, <1>6 DEF Pos
  <2>3. Pos(tape', vol', "ip") = x - 1
    <3>1. x - 1 # 0
      BY <1>5
    <3> QED
      BY <1>6, <3>1 DEF Pos
  <2> QED
    BY <1>0, <2>1, <2>2, <2>3, AtTyped
<1>12. Below'
  <2> SUFFICES ASSUME NEW r \in best.tree.refs \cup pending \cup vol.tree.refs
               PROVE  r.b < Pos(tape', vol', r.p)
    BY <1>1, <1>6 DEF Below
  <2>1. r \in Refs /\ At(tape, r.p, r.b) = r.rec
    BY <1>0, <1>2, RefsTyped DEF Files, Kept
  <2>2. r.p \in Parts /\ r.b \in Nat /\ r.rec \in Blocks
    BY <2>1 DEF Refs
  <2>3. CASE r.p = "dp"
    BY <1>0, <1>11, <2>1, <2>2, <2>3, BlockIn
  <2>4. CASE r.p = "ip"
    <3>1. r.b < x - 1
      BY <1>0, <1>5, <2>1, <2>2, <2>4, ClosedBelow DEF LastIndex
    <3> QED
      BY <1>11, <2>4, <3>1
  <2> QED
    BY <2>2, <2>3, <2>4 DEF Parts
<1>13. Ready'
  <2>1. x \in 4 .. Eod(tape, "ip") - 1
    BY <1>0, <1>5, IndexRange DEF LastIndex
  <2>2. Pos(tape', vol', "ip") \in 4 .. Eod(tape, "ip")
    BY <1>5, <1>11, <2>1
  <2>3. ~ IndexAt(tape, "dp", Eod(tape, "dp") - 1)
    BY <1>0, <1>1, <1>2 DEF Ready, Here
  <2> QED
    BY <1>1, <1>3, <1>11, <2>2, <2>3 DEF Ready, Here
<1>14. Memory'
  BY <1>0, <1>1, <1>2, <1>3, <1>6 DEF Memory, Between, Writing, Written
<1>15. Ends'
  <2>1. \A p \in Parts : CohTrue(p)' /\ vol.coh[p].set \in Nat
    BY <1>0, <1>1, <1>4, <1>6 DEF CohTrue, EndsIn, Vols, Cohs
  <2>2. \A p \in Parts : \E b \in Nat : LastIndex(tape', p, b) /\ Closed(tape', p, b)
    BY <1>1, <1>4, <2>1 DEF CohTrue, EndsIn
  <2> QED
    BY <2>1, <2>2 DEF Ends
<1>16. Order'
  <2>1. vol'.end["ip"] /\ vol'.end["dp"]
    BY <1>0, <1>6
  <2> QED
    BY <1>3, <2>1 DEF Order, Here
<1>17. Found'
  BY <1>3 DEF Found
<1> QED
  BY <1>1, <1>6, <1>7, <1>9, <1>10, <1>12, <1>13, <1>14, <1>15, <1>16, <1>17 DEF CommitInv

---------------------------------------------------------------------------
(* The theorems *)

(* ltfs_format_tape leaves an index on each partition, the one of the index
   partition naming the other. *)
LEMMA InitHolds ==
    ASSUME Init
    PROVE  CommitInv
<1> DEFINE tr == [ver |-> 0, refs |-> {}]
           ii == [k |-> "index", gen |-> 1, self |-> [p |-> "ip", b |-> 5],
                  back |-> [p |-> "dp", b |-> 5], tree |-> tr]
           di == [k |-> "index", gen |-> 1, self |-> [p |-> "dp", b |-> 5], back |-> NoPtr, tree |-> tr]
           doc(p) == IF p = "ip" THEN ii ELSE di
<1>0. "ip" \in Parts /\ "dp" \in Parts /\ "ip" # "dp" /\ Parts = {"ip", "dp"}
  BY DEF Parts
<1>1. tr \in Trees /\ ii \in Documents /\ di \in Documents
  <2>1. tr \in Trees
    BY DEF Trees
  <2> HIDE DEF tr
  <2> QED
    BY <2>1 DEF Documents, Ptrs, NoPtr
<1>2. /\ ii.gen = 1 /\ ii.self = [p |-> "ip", b |-> 5] /\ ii.back = [p |-> "dp", b |-> 5] /\ ii.tree = tr
      /\ di.gen = 1 /\ di.self = [p |-> "dp", b |-> 5] /\ di.back = NoPtr /\ di.tree = tr /\ tr.refs = {}
  OBVIOUS
<1>3. /\ tape = [ip |-> <<Fm, ii, Fm>>, dp |-> <<Fm, di, Fm>>]
      /\ mam = [p \in Parts |-> [fresh |-> TRUE, count |-> 1, set |-> 5]]
      /\ phase = "off" /\ vol = NoVol /\ todo = <<>> /\ pending = {} /\ sync = None
      /\ used = [data |-> 0, change |-> 0, crash |-> 0, fault |-> 0, ver |-> 0]
      /\ best = Picked(tape)
  BY DEF Init
<1>4. /\ \A p \in Parts : doc(p) \in Documents /\ doc(p).gen = 1 /\ doc(p).self = [p |-> p, b |-> 5] /\ doc(p).tree = tr
      /\ doc("ip") = ii /\ doc("dp") = di
  BY <1>0, <1>1, <1>2
<1> HIDE DEF tr, ii, di
<1>5. tape["ip"] = <<Fm, ii, Fm>> /\ tape["dp"] = <<Fm, di, Fm>> /\ DOMAIN tape = Parts
  BY <1>0, <1>3
<1>6. \A p \in Parts : tape[p] = <<Fm, doc(p), Fm>>
  BY <1>0, <1>4, <1>5
<1> HIDE DEF doc
<1>7. ASSUME NEW p \in Parts
      PROVE  /\ tape[p] \in Seq(Records) /\ Eod(tape, p) = 7
             /\ At(tape, p, 4) = Fm /\ At(tape, p, 5) = doc(p) /\ At(tape, p, 6) = Fm
             /\ \A b \in Nat : b \notin 4 .. 6 => At(tape, p, b) = None
  <2>1. doc(p) \in Records /\ Fm \in Records
    BY <1>4, Kinds DEF Records
  <2>2. tape[p] = <<Fm, doc(p), Fm>>
    BY <1>6
  <2>3. tape[p] \in Seq(Records) /\ Len(tape[p]) = 3 /\ DOMAIN tape[p] = 1 .. 3
        /\ tape[p][1] = Fm /\ tape[p][2] = doc(p) /\ tape[p][3] = Fm
    BY <2>1, <2>2
  <2> QED
    BY <2>3 DEF Eod, At, Label
<1>8. tape \in Tapes
  <2>1. tape = [p \in Parts |-> tape[p]]
    BY <1>3, <1>5
  <2> QED
    BY <1>7, <2>1 DEF Tapes
<1>9. \A p \in Parts : \A b \in Nat : IndexAt(tape, p, b) <=> b = 5
  <2> SUFFICES ASSUME NEW p \in Parts, NEW b \in Nat PROVE IndexAt(tape, p, b) <=> b = 5
    OBVIOUS
  <2>1. CASE b = 5
    BY <1>4, <1>7, <2>1 DEF IndexAt
  <2>2. CASE b \in {4, 6}
    BY <1>7, <2>2, Kinds DEF IndexAt
  <2>3. CASE b \notin 4 .. 6
    <3>1. At(tape, p, b) = None
      BY <1>7, <2>3
    <3>2. None \notin Documents
      BY NoneAssumption DEF Records
    <3> QED
      BY <2>3, <3>1, <3>2 DEF IndexAt
  <2> QED
    BY <2>1, <2>2, <2>3
<1>10. \A p \in Parts : LastIndex(tape, p, 5) /\ Closed(tape, p, 5) /\ At(tape, p, 5) = doc(p)
  BY <1>7, <1>9 DEF LastIndex, Closed
<1>11. Sound(tape, ii)
  <2>1. BackTrue(tape, "ip", 5, ii.back) /\ BackTrue(tape, "dp", 5, di.back)
    BY <1>0, <1>2, <1>9 DEF BackTrue
  <2>2. \A p \in Parts : At(tape, p, 4) = Fm /\ At(tape, p, 5).self = [p |-> p, b |-> 5]
        /\ BackTrue(tape, p, 5, At(tape, p, 5).back)
    BY <1>0, <1>4, <1>7, <2>1
  <2>3. IndexesTrue(tape)
    BY <1>9, <2>2 DEF IndexesTrue
  <2>4. Gens(tape, ii)
    <3> SUFFICES ASSUME NEW p \in Parts, NEW b \in Nat, IndexAt(tape, p, b)
                 PROVE  At(tape, p, b).gen <= ii.gen /\ At(tape, p, b).tree = ii.tree
      BY DEF Gens
    <3>1. b = 5 /\ At(tape, p, 5) = doc(p)
      BY <1>7, <1>9
    <3>2. At(tape, p, b).gen = 1 /\ At(tape, p, b).tree = tr
      BY <1>4, <3>1
    <3> QED
      BY <1>2, <3>2
  <2>5. Leads(tape, 5, 5)
    BY <1>0, <1>2, <1>4, <1>7, <1>9 DEF Leads
  <2>6. ii = At(tape, "ip", 5) /\ ii.gen >= At(tape, "dp", 5).gen
    BY <1>0, <1>2, <1>4, <1>7
  <2>7. Newest(tape, ii)
    BY <1>0, <1>10, <2>5, <2>6 DEF Newest
  <2> QED
    BY <2>3, <2>4, <2>7 DEF Sound
<1>12. best = ii
  BY <1>3, <1>8, <1>11, PickedIs
<1>13. Now.op = "idle" /\ ~ Active /\ vol.tree = None
  BY <1>3, NoVolTyped DEF Now, Active
<1>14. Types
  <2>1. mam \in [Parts -> [fresh : BOOLEAN, count : Nat, set : Nat]]
    BY <1>3
  <2>2. used \in [data : Nat, change : Nat, crash : Nat, fault : Nat, ver : Nat]
    BY <1>3
  <2> QED
    BY <1>1, <1>3, <1>8, <1>12, <2>1, <2>2, NoVolTyped DEF Types
<1>15. Queue
  <2>1. Chain(todo)
    BY <1>3 DEF Chain
  <2> QED
    BY <1>3, <1>13, <2>1, NoVolTyped DEF Queue
<1>16. MamTrue
  <2>1. \A p \in Parts : mam[p].set = 5 /\ mam[p].count = 1
    BY <1>3
  <2> QED
    BY <1>4, <1>10, <2>1 DEF MamTrue, EndsIn
<1>17. Files /\ Clean
  BY <1>2, <1>3, <1>12, <1>13 DEF Files, Clean
<1>18. Below /\ Ready /\ Memory /\ Ends /\ Order
  BY <1>13 DEF Below, Ready, Memory, Between, Writing, Written, Ends, Order
<1>19. Found
  BY <1>13 DEF Found
<1> QED
  BY <1>11, <1>12, <1>14, <1>15, <1>16, <1>17, <1>18, <1>19 DEF CommitInv


(* A step keeps the invariant, and leaves memory and tape alone, changes the
   tree in memory, makes it permanent, forgets it or reads it back. *)
LEMMA StepKeeps ==
    ASSUME "erase" \notin MountKinds, CommitInv, Next
    PROVE  /\ CommitInv'
           /\ \/ best' = best /\ vol'.tree = vol.tree
              \/ best'.tree = vol.tree /\ vol'.tree = vol.tree /\ vol.tree # None
              \/ best' = best /\ vol.tree # None /\ vol'.tree # None
              \/ best' = best /\ vol'.tree = None
              \/ best' = best /\ vol.tree = None /\ vol'.tree = best.tree
<1>1. CASE CallIndex
  BY <1>1, CallStep
<1>2. CASE IndexMark
  BY <1>2, MarkStep
<1>3. CASE IndexPart
  BY <1>3, PartStep
<1>4. CASE IndexDoc
  BY <1>4, DocStep
<1>5. CASE IndexClose
  BY <1>5, CloseStep
<1>6. CASE Coherency
  BY <1>6, CoherencyStep
<1>7. CASE IndexDone
  BY <1>7, DoneStep
<1>8. ASSUME NEW p \in Parts, WriteData(p)
      PROVE  CommitInv' /\ best' = best /\ vol'.tree = vol.tree
  BY <1>8, WriteDataStep
<1>9. CASE DataBlock \/ DataLessSpace
  BY <1>9, DataBlockStep
<1>10. CASE AddExtent
  BY <1>10, AddExtentStep
<1>11. CASE DiscardExtent
  BY <1>11, DiscardStep
<1>12. CASE ChangeTree
  BY <1>12, ChangeTreeStep
<1>13. CASE SyncLook
  BY <1>13, SyncLookStep
<1>14. CASE SyncWrite
  BY <1>14, SyncWriteStep
<1>15. CASE Unmount
  BY <1>15, UnmountStep
<1>16. CASE Leave \/ Crash \/ MountRefused
  BY <1>16, LeaveStep
<1>17. CASE Fail
  BY <1>17, FailStep
<1>18. CASE MountQuick
  BY <1>18, MountQuickStep
<1>19. ASSUME NEW kind \in MountKinds, MountFull(kind)
       PROVE  CommitInv' /\ best' = best /\ vol'.tree = vol.tree
  <2>1. kind # "erase"
    OBVIOUS
  <2> QED
    BY <1>19, <2>1, MountFullStep
<1>20. CASE FillMark
  BY <1>20, FillStep
<1>21. CASE CheckMedium
  BY <1>21, CheckMediumStep
<1>22. CASE RecoverLost
  BY <1>22, RecoverLostStep
<1>23. CASE MountFinish
  BY <1>23, MountFinishStep
<1> QED
  BY <1>1, <1>2, <1>3, <1>4, <1>5, <1>6, <1>7, <1>8, <1>9, <1>10, <1>11, <1>12, <1>13, <1>14,
     <1>15, <1>16, <1>17, <1>18, <1>19, <1>20, <1>21, <1>22, <1>23 DEF Next

(* A step that changes no variable of the specification. *)
LEMMA StutterKeeps ==
    ASSUME CommitInv, UNCHANGED vars
    PROVE  CommitInv' /\ best' = best /\ vol'.tree = vol.tree
<1>1. /\ tape' = tape /\ best' = best /\ mam' = mam /\ phase' = phase /\ vol' = vol /\ todo' = todo
      /\ pending' = pending /\ sync' = sync /\ used' = used
  BY DEF vars
<1>2. Types
  BY DEF CommitInv
<1>3. /\ pending' \in SUBSET pending /\ sync' \in Parts \cup {None}
      /\ used' \in [data : Nat, change : Nat, crash : Nat, fault : Nat, ver : Nat]
  BY <1>1, <1>2 DEF Types
<1> QED
  BY <1>1, <1>3, QuietStep

(* CommitInv holds in every reachable state: whichever way writes, syncs,
   failures, crashes and mounts follow one another. *)
THEOREM CommitInvariant ==
    ASSUME "erase" \notin MountKinds
    PROVE  Spec => []CommitInv
<1>1. Init => CommitInv
  BY InitHolds
<1>2. CommitInv /\ [Next]_vars => CommitInv'
  BY StepKeeps, StutterKeeps
<1> QED
  BY <1>1, <1>2, PTL DEF Spec

(* In every state, and so at every moment a crash can strike, ltfs_check_medium
   picks an index from the tape, and every block its files refer to is there;
   the check loads exactly that index, or turns the volume away for extra blocks
   or for an extent that ends at the end of data. *)
THEOREM RecoverableAlways ==
    ASSUME "erase" \notin MountKinds
    PROVE  Spec => []Recoverable
<1>1. CommitInv => Recoverable
  <2> SUFFICES ASSUME CommitInv
               PROVE  /\ best # None /\ Intact(best.tree)
                      /\ Step("check") => IF TurnedAway THEN Checked = None ELSE Checked.tree = best.tree
    BY DEF Recoverable
  <2>1. best \in Documents /\ Files /\ todo \in Seq(Ops)
    BY DEF CommitInv, Types
  <2>2. best # None
    BY <2>1, NoneAssumption DEF Records
  <2>3. Step("check") => IF TurnedAway THEN Checked = None ELSE Checked.tree = best.tree
    BY <2>1, NowIs, CheckVerdict
  <2> QED
    BY <2>1, <2>2, <2>3 DEF Files, Kept, Intact
<1>2. Spec => []CommitInv
  BY CommitInvariant
<1> QED
  BY <1>1, <1>2, PTL

(* An index that is not dirty is the one ltfs_check_medium would pick: what
   ltfs_write_index, ltfs_sync_index and ltfs_unmount report as written is what
   the next check loads, unless it turns the volume away. *)
THEOREM CleanIndexPermanent ==
    ASSUME "erase" \notin MountKinds
    PROVE  Spec => []CleanIsPermanent
<1>1. CommitInv => CleanIsPermanent
  <2> SUFFICES ASSUME CommitInv, phase \in {"up", "leaving"}, ~ vol.dirty
               PROVE  best # None /\ best.tree = vol.tree
    BY DEF CleanIsPermanent
  <2>1. best \in Documents /\ Queue /\ Clean
    BY DEF CommitInv, Types
  <2>2. vol.tree # None
    BY <2>1 DEF Queue
  <2>3. best # None
    BY <2>1, NoneAssumption DEF Records
  <2> QED
    BY <2>1, <2>2, <2>3 DEF Clean
<1>2. Spec => []CommitInv
  BY CommitInvariant
<1> QED
  BY <1>1, <1>2, PTL

(* Where both coherency attributes of the cartridge memory are current, the
   mount that trusts them finds what a full check would pick, and each
   partition ends in the index its attribute names. *)
THEOREM QuickMountFindsNewest ==
    ASSUME "erase" \notin MountKinds
    PROVE  Spec => []QuickMountAgrees
<1>1. CommitInv => QuickMountAgrees
  <2> SUFFICES ASSUME CommitInv, Fresh
               PROVE  /\ \A p \in Parts : EndsInIndex(p) /\ SeekIndex(tape, p).idx.self.b = mam[p].set
                      /\ best.tree = SeekIndex(tape, Newer).idx.tree
    BY DEF QuickMountAgrees
  <2>0. Types /\ MamTrue /\ Sound(tape, best) /\ IndexesTrue(tape) /\ tape \in Tapes
    BY DEF CommitInv, Sound, Types
  <2>1. ASSUME NEW p \in Parts
        PROVE  /\ EndsInIndex(p) /\ SeekIndex(tape, p).idx.self.b = mam[p].set
               /\ SeekIndex(tape, p).idx = At(tape, p, mam[p].set)
    <3>1. mam[p].fresh /\ mam[p].set \in Nat
      BY <2>0 DEF Fresh, Parts, Types
    <3>2. PICK b \in Nat : b = mam[p].set
      BY <3>1
    <3>3. LastIndex(tape, p, b) /\ Eod(tape, p) = b + 2 /\ At(tape, p, b + 1) = Fm
      BY <2>0, <3>1, <3>2 DEF MamTrue, EndsIn, Closed
    <3>4. SeekIndex(tape, p) = [have |-> TRUE, idx |-> At(tape, p, b), eod |-> Eod(tape, p), end |-> b + 2,
                                fm |-> TRUE, after |-> FALSE]
      <4>1. (b + 2 # Eod(tape, p)) = FALSE /\ (At(tape, p, b + 1) = Fm) = TRUE
        BY <3>3
      <4> QED
        BY <2>0, <3>3, <4>1, SeekFinds
    <3>5. At(tape, p, b).self = [p |-> p, b |-> b]
      BY <2>0, <3>3 DEF IndexesTrue, LastIndex
    <3>6. SeekIndex(tape, p).have /\ SeekIndex(tape, p).fm /\ ~ SeekIndex(tape, p).after
          /\ SeekIndex(tape, p).idx = At(tape, p, b)
      BY <3>4
    <3>7. SeekIndex(tape, p).idx.self.b = b
      BY <3>5, <3>6
    <3> QED
      BY <3>2, <3>6, <3>7 DEF EndsInIndex
  <2>2. Newer \in Parts /\ At(tape, Newer, mam[Newer].set).tree = best.tree
    BY QuickFinds
  <2> QED
    BY <2>1, <2>2
<1>2. Spec => []CommitInv
  BY CommitInvariant
<1> QED
  BY <1>1, <1>2, PTL

(* Writing an index, in as many steps and on as many partitions as it takes, is
   one atomic commit: IndexCommit implements IndexStore. *)
THEOREM ImplementsStore ==
    ASSUME "erase" \notin MountKinds
    PROVE  Spec => AtomicCommit
<1>1. CommitInv => best # None
  <2> SUFFICES ASSUME CommitInv PROVE best # None
    OBVIOUS
  <2>1. best \in Documents
    BY DEF CommitInv, Types
  <2> QED
    BY <2>1, NoneAssumption DEF Records
<1>2. Init => Store!Init
  <2> SUFFICES ASSUME Init PROVE Store!Init
    OBVIOUS
  <2>1. CommitInv
    BY InitHolds
  <2>2. best # None /\ best.tree # None
    BY <1>1, <2>1, NewestIs DEF CommitInv
  <2>3. vol.tree = None
    BY NoVolTyped DEF Init
  <2> QED
    BY <2>2, <2>3 DEF Store!Init
<1>3. CommitInv /\ [Next]_vars => [Store!Next]_<<vol.tree, IF best = None THEN None ELSE best.tree>>
  <2> SUFFICES ASSUME CommitInv, [Next]_vars
               PROVE  \/ Store!Next
                      \/ UNCHANGED <<vol.tree, IF best = None THEN None ELSE best.tree>>
    OBVIOUS
  <2>1. /\ CommitInv'
        /\ \/ best' = best /\ vol'.tree = vol.tree
           \/ best'.tree = vol.tree /\ vol'.tree = vol.tree /\ vol.tree # None
           \/ best' = best /\ vol.tree # None /\ vol'.tree # None
           \/ best' = best /\ vol'.tree = None
           \/ best' = best /\ vol.tree = None /\ vol'.tree = best.tree
    BY StepKeeps, StutterKeeps
  <2>2. best # None /\ best' # None
    <3>1. best' \in Documents
      BY <2>1 DEF CommitInv, Types
    <3> QED
      BY <1>1, <3>1, NoneAssumption DEF Records
  <2> QED
    BY <2>1, <2>2 DEF Store!Next, Store!Change, Store!Commit, Store!Lose, Store!Load
<1>4. Spec => []CommitInv
  BY CommitInvariant
<1> QED
  BY <1>2, <1>3, <1>4, PTL DEF Spec, AtomicCommit, Store!Spec
=============================================================================
