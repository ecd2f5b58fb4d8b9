--------------------------- MODULE UnifiedProofs ---------------------------
(***************************************************************************)
(* Every step of Unified keeps UInv, and the theorems about the unified    *)
(* I/O scheduler, for any number of clients, files, cache blocks and       *)
(* writes. First the operators that take data, truncate and fail; then the *)
(* frame of a client's step, that is which locks it takes (Moves), what it *)
(* leaves to others (Steady) and what it does to the data (Data); then     *)
(* every action; then the theorems.                                        *)
(*                                                                         *)
(* The argument: a thread's place in the code says which locks it holds    *)
(* (Locks), so a step works alone on its file, or alone on all of them,    *)
(* and finds the counters exact (Books, Listed). Requests leave a list     *)
(* only when their data is on the tape, has gone to the writer thread, or  *)
(* an error is recorded for it; a request that waits for the index         *)
(* partition is on the data partition already (IpSaved). Between the locks *)
(* of one call others may run: what a truncation or a close has            *)
(* established (Between), what the writer thread has in its hands          *)
(* (WriterOK) and what a read has still to find (ReadOK) survive that.     *)
(***************************************************************************)
EXTENDS UnifiedSteps

(* Taking data. *)
Grown(st, st2, f, X) ==
    /\ FileStep(st, st2, f) /\ DriveSame(st, st2)
    /\ st2.tape = st.tape /\ st2.size = st.size /\ st2.written = st.written
    /\ (f \in st.ext_queue <=> st.dpr[f].alt) => (f \in st2.ext_queue <=> st2.dpr[f].alt)
    /\ st2.dpr[f].on /\ st2.dpr[f].write_error = st.dpr[f].write_error
    /\ Held(st2, f) = Held(st, f) \cup X

\* Growing twice.
LEMMA GrownTrans ==
    ASSUME NEW st, NEW st2, NEW st3, NEW f, NEW X, NEW Y, Grown(st, st2, f, X), Grown(st2, st3, f, Y)
    PROVE  Grown(st, st3, f, X \cup Y)
<1>1. FileStep(st, st3, f)
  BY FileStepTrans DEF Grown
<1> QED BY <1>1 DEF Grown, DriveSame

\* A change of placement adds nothing.
LEMMA GrownSettled ==
    ASSUME NEW st, NEW st2, NEW f, Settled(st, st2, f), st.dpr[f].on PROVE Grown(st, st2, f, {})
BY DEF Settled, Grown

\* Growing keeps all in order.
LEMMA GrownSound == ASSUME NEW st, NEW st2, NEW f, NEW X, Sound(st), Grown(st, st2, f, X) PROVE Sound(st2)
BY SoundStep DEF Grown

\* Growing after a step that adds nothing.
LEMMA GrownNone ==
    ASSUME NEW st, NEW st2, NEW st3, NEW f, NEW X, Grown(st, st2, f, {}), Grown(st2, st3, f, X) PROVE Grown(st, st3, f, X)
<1>1. Grown(st, st3, f, {} \cup X)
  BY GrownTrans
<1>2. {} \cup X = X
  OBVIOUS
<1> QED BY <1>1, <1>2

\* The pool gets blocks back, or gives one out.
OnlyFree(st, st2) ==
    /\ st2 \in State /\ st2.dpr = st.dpr /\ st2.queue = st.queue /\ st2.count = st.count /\ st2.ext_queue = st.ext_queue
    /\ st2.tape = st.tape /\ st2.size = st.size /\ DriveSame(st, st2) /\ st2.written = st.written

\* The pool gets blocks back.
LEMMA FreeBlocksIs == ASSUME NEW st \in State, NEW n \in Nat PROVE OnlyFree(st, FreeBlocks(st, n))
BY FreeFields DEF OnlyFree, DriveSame

\* The pool gives a block out.
LEMMA TakeBlockIs == ASSUME NEW st \in State, st.free > 0 PROVE OnlyFree(st, [st EXCEPT !.free = @ - 1])
<1>1. st.free \in Nat /\ st.free - 1 \in Nat
  BY StateFields
<1> QED BY <1>1 DEF OnlyFree, DriveSame, State

\* The pool does not matter to the files.
LEMMA OnlyFreeSound ==
    ASSUME NEW st, NEW st2, Sound(st), OnlyFree(st, st2)
    PROVE  /\ Sound(st2)
           /\ \A g : Held(st2, g) = Held(st, g)
           /\ \A f \in Files : FileStep(st, st2, f)
<1>1. st \in State /\ Books(st) /\ Drive(st) /\ FilesOK(st)
  BY DEF Sound
<1>2. Books(st2)
  BY <1>1, BooksSame DEF OnlyFree
<1>3. Drive(st2)
  BY <1>1, DriveKept DEF OnlyFree
<1>4. FilesOK(st2)
  BY <1>1 DEF FilesOK, OnlyFree
<1>5. \A g : Held(st2, g) = Held(st, g)
  BY DEF OnlyFree, Held
<1> QED BY <1>2, <1>3, <1>4, <1>5 DEF Sound, OnlyFree, FileStep, OthersSame, FilesOK

\* It adds nothing to a file.
LEMMA GrownFree ==
    ASSUME NEW st, NEW st2, NEW f \in Files, Sound(st), st.dpr[f].on, OnlyFree(st, st2) PROVE Grown(st, st2, f, {})
<1>1. FileStep(st, st2, f) /\ Held(st2, f) = Held(st, f)
  BY OnlyFreeSound
<1> QED BY <1>1 DEF OnlyFree, Grown

\* _unified_get_dentry_priv
LEMMA NewDprIs ==
    ASSUME NEW z \in Nat, NEW ip \in BOOLEAN
    PROVE  /\ NewDpr(TRUE, z, ip) \in Dpr /\ NewDpr(TRUE, z, ip).on /\ NewDpr(TRUE, z, ip).reqs = <<>>
           /\ NewDpr(TRUE, z, ip).file_size = z /\ NewDpr(TRUE, z, ip).write_ip = ip
           /\ NewDpr(TRUE, z, ip).write_error = "ok" /\ ~NewDpr(TRUE, z, ip).alt
           /\ \A q \in Queues : NewDpr(TRUE, z, ip).inq[q] = 0
BY DEF NewDpr, Dpr, Errors

\* A new dentry_priv has no requests and no data.
LEMMA WithDprOK ==
    ASSUME NEW st, NEW f \in Files, Sound(st) PROVE Grown(st, WithDpr(st, f), f, {})
<1>1. CASE st.dpr[f].on
  <2>1. WithDpr(st, f) = st
    BY <1>1 DEF WithDpr
  <2>2. Settled(st, st, f)
    BY SettledSame
  <2> QED BY <1>1, <2>1, <2>2, GrownSettled
<1>2. CASE ~st.dpr[f].on
  <2> DEFINE z == st.size[f]
             ip == dentry[f].matches /\ MaxIpSize > 0 /\ st.size[f] <= MaxIpSize
             d == NewDpr(TRUE, z, ip)
             st2 == SetDpr(st, f, d)
  <2>1. WithDpr(st, f) = st2
    BY <1>2 DEF WithDpr, SetDpr
  <2>2. st \in State /\ Books(st) /\ Drive(st) /\ FileOK(st.dpr[f], st.tape[f])
    BY DEF Sound, FilesOK
  <2>3. st.dpr[f] = NoDpr
    BY <1>2, <2>2 DEF FileOK
  <2>4. z \in Nat /\ ip \in BOOLEAN /\ (MaxIpSize = 0 => ip = FALSE)
    BY <2>2, StateFields
  <2> HIDE DEF z, ip
  <2>5. d \in Dpr /\ d.on /\ d.reqs = <<>> /\ d.file_size = z /\ d.write_ip = ip /\ d.write_error = "ok" /\ ~d.alt
        /\ \A q \in Queues : d.inq[q] = 0
    BY <2>4, NewDprIs
  <2> HIDE DEF d
  <2>6. DprIs(st, st2, f, d)
    BY <2>2, <2>5, SetDprOK
  <2> HIDE DEF st2
  <2>7. st2 \in State /\ st2.dpr[f] = d /\ OthersSame(st, st2, f) /\ SameRest(st, st2) /\ st2.queue = st.queue /\ st2.count = st.count
    BY <2>6 DEF DprIs
  <2>8. Books(st2)
    <3>1. \A q \in Queues : st.dpr[f].inq[q] = 0 /\ st.count[q] \in Int
      BY <2>2, <2>3, NoDprType, StateFields
    <3>2. \A q \in Queues : f \in st2.queue[q] <=> st2.dpr[f].inq[q] > 0
      BY <2>2, <2>5, <2>7, <3>1 DEF Books
    <3>3. \A q \in Queues : Weight(st, q, f) = 0 /\ Weight(st2, q, f) = 0
      BY <2>5, <2>7, <3>1 DEF Weight
    <3>4. \A q \in Queues : st2.count[q] = st.count[q] - Weight(st, q, f) + Weight(st2, q, f)
      BY <2>7, <3>1, <3>3
    <3>5. \A g \in Files \ {f} : st2.dpr[g] = st.dpr[g] /\ \A q \in Queues : g \in st2.queue[q] <=> g \in st.queue[q]
      BY <2>7 DEF OthersSame
    <3> QED BY <2>2, <2>7, <3>2, <3>4, <3>5, BooksStep
  <2>9. FileOK(d, st2.tape[f])
    <3>1. Listed(d)
      BY <2>5, NumInEmpty DEF Listed
    <3>2. IpSaved(d, st2.tape[f]) /\ Sized(d)
      BY <2>5 DEF IpSaved, Sized
    <3>3. NoIp(d)
      BY <2>4, <2>5 DEF NoIp
    <3> QED BY <2>5, <3>1, <3>2, <3>3 DEF FileOK
  <2>10. Drive(st2) /\ DriveSame(st, st2)
    BY <2>2, <2>7, DriveKept DEF SameRest, DriveSame
  <2>11. FileStep(st, st2, f)
    BY <2>7, <2>8, <2>9, <2>10 DEF FileStep, SameRest
  <2>12. Held(st2, f) = Held(st, f) \cup {}
    BY <2>3, <2>5, <2>7, NoDprType DEF Held, SameRest
  <2>13. st.dpr[f].write_error = "ok" /\ ~st.dpr[f].alt
    BY <2>3, NoDprType
  <2> QED BY <2>1, <2>5, <2>7, <2>10, <2>11, <2>12, <2>13 DEF Grown, SameRest
<1> QED BY <1>1, <1>2

\* The dentry_priv a write works on is in order.
LEMMA PlacedOK ==
    ASSUME NEW c, at[c] \in Files, Sound(s) PROVE Grown(s, Placed(c), at[c], {}) /\ Sound(Placed(c))
<1> DEFINE f == at[c]  st == WithDpr(s, f)
           over == arg[c].off + arg[c].n > MaxIpSize \/ "IP" \in s.less
<1>1. Grown(s, st, f, {})
  BY WithDprOK
<1>2. Placed(c) = IF st.dpr[f].write_ip /\ over THEN UnsetWriteIp(st, f) ELSE st
  BY DEF Placed
<1> HIDE DEF st, over
<1>3. Sound(st) /\ st.dpr[f].on
  BY <1>1, GrownSound DEF Grown
<1>4. st.dpr[f].write_ip => Grown(s, UnsetWriteIp(st, f), f, {})
  <2>1. SUFFICES ASSUME st.dpr[f].write_ip PROVE Grown(s, UnsetWriteIp(st, f), f, {})
    OBVIOUS
  <2>2. Settled(st, UnsetWriteIp(st, f), f)
    BY <1>3, <2>1, UnsetWriteIpOK
  <2>3. Grown(st, UnsetWriteIp(st, f), f, {})
    BY <1>3, <2>2, GrownSettled
  <2> QED BY <1>1, <2>3, GrownNone
<1>5. Grown(s, Placed(c), f, {})
  BY <1>1, <1>2, <1>4
<1> QED BY <1>5, GrownSound

\* The last request of a list is replaced.
LEMMA LastDiffers ==
    ASSUME NEW reqs \in Seq(Req), NEW new \in Seq(Req), NEW k \in Nat \ {0}, k = Len(reqs), k = Len(new),
           \A i \in 1..(k - 1) : new[i] = reqs[i], NEW S
    PROVE  /\ NumIn(new, S) - (IF new[k].state \in S THEN 1 ELSE 0) = NumIn(reqs, S) - (IF reqs[k].state \in S THEN 1 ELSE 0)
           /\ NumIn(new, S) \in Nat /\ NumIn(reqs, S) \in Nat
<1>1. k - 1 \in Nat
  OBVIOUS
<1>2. NumIn(new, S) = Upto(new, k, S) /\ NumIn(reqs, S) = Upto(reqs, k, S)
  BY NumInUpto
<1>3. \A i \in Nat \ {0} : Upto(new, i, S) = Upto(new, i - 1, S) + (IF new[i].state \in S THEN 1 ELSE 0)
  BY UptoStep
<1>4. \A i \in Nat \ {0} : Upto(reqs, i, S) = Upto(reqs, i - 1, S) + (IF reqs[i].state \in S THEN 1 ELSE 0)
  BY UptoStep
<1>5. Upto(new, k - 1, S) \in Nat /\ Upto(reqs, k - 1, S) \in Nat
  BY <1>1, UptoStep
<1>6. Upto(new, k - 1, S) = Upto(reqs, k - 1, S)
  BY <1>1, UptoSame
<1>7. Upto(new, k, S) = Upto(new, k - 1, S) + (IF new[k].state \in S THEN 1 ELSE 0)
  BY <1>3
<1>8. Upto(reqs, k, S) = Upto(reqs, k - 1, S) + (IF reqs[k].state \in S THEN 1 ELSE 0)
  BY <1>4
<1> QED BY <1>2, <1>5, <1>6, <1>7, <1>8, SMTT(20)

Replaced(reqs, new, k, r2) ==
    /\ new \in Seq(Req) /\ Len(new) = k /\ new[k] = r2 /\ \A i \in DOMAIN reqs : i # k => new[i] = reqs[i]
    /\ DOMAIN new = DOMAIN reqs
    /\ \A S : NumIn(new, S) - (IF r2.state \in S THEN 1 ELSE 0) = NumIn(reqs, S) - (IF reqs[k].state \in S THEN 1 ELSE 0)
    /\ \A S : NumIn(new, S) \in Nat /\ NumIn(reqs, S) \in Nat

\* Replacing the last request recounts that one only.
LEMMA ReplaceLast ==
    ASSUME NEW reqs \in Seq(Req), NEW k, k = Len(reqs), k > 0, NEW r2 \in Req
    PROVE  Replaced(reqs, [reqs EXCEPT ![k] = r2], k, r2)
<1> DEFINE new == [reqs EXCEPT ![k] = r2]
<1>1. k \in Nat /\ k \in DOMAIN reqs /\ DOMAIN reqs = 1..k /\ k - 1 \in Nat /\ k \in Nat \ {0}
  OBVIOUS
<1>2. new \in Seq(Req) /\ Len(new) = k /\ new[k] = r2 /\ (\A i \in DOMAIN reqs : i # k => new[i] = reqs[i]) /\ DOMAIN new = DOMAIN reqs
  BY <1>1
<1> HIDE DEF new
<1>4. \A i \in 1..(k - 1) : new[i] = reqs[i]
  BY <1>1, <1>2
<1>3. ASSUME NEW S PROVE /\ NumIn(new, S) - (IF r2.state \in S THEN 1 ELSE 0) = NumIn(reqs, S) - (IF reqs[k].state \in S THEN 1 ELSE 0)
                         /\ NumIn(new, S) \in Nat /\ NumIn(reqs, S) \in Nat
  <2>1. /\ NumIn(new, S) - (IF new[k].state \in S THEN 1 ELSE 0) = NumIn(reqs, S) - (IF reqs[k].state \in S THEN 1 ELSE 0)
        /\ NumIn(new, S) \in Nat /\ NumIn(reqs, S) \in Nat
    BY <1>1, <1>2, <1>4, LastDiffers, SMTT(20)
  <2> QED BY <1>2, <2>1
<1>5. Replaced(reqs, new, k, r2)
  BY <1>2, <1>3 DEF Replaced
<1> QED BY <1>5 DEF new

\* Both f's requests and its size change, and its queue counters follow.
Relisted(st, st2, f, new, z) ==
    /\ st2 \in State /\ Books(st2) /\ OthersSame(st, st2, f) /\ SameRest(st, st2)
    /\ st2.dpr[f].reqs = new /\ st2.dpr[f].file_size = z
    /\ st2.dpr[f].on = st.dpr[f].on /\ st2.dpr[f].write_ip = st.dpr[f].write_ip
    /\ st2.dpr[f].write_error = st.dpr[f].write_error /\ st2.dpr[f].alt = st.dpr[f].alt
WithList(d, new, z) == [d EXCEPT !.reqs = new, !.file_size = z]

\* A new list and size leave the counters as they were.
LEMMA WithListOK ==
    ASSUME NEW st \in State, NEW f \in Files, Books(st), NEW new \in Seq(Req), NEW z \in Nat
    PROVE  LET st2 == SetDpr(st, f, WithList(st.dpr[f], new, z)) IN Relisted(st, st2, f, new, z) /\ st2.dpr[f].inq = st.dpr[f].inq
<1> DEFINE d == WithList(st.dpr[f], new, z)  st2 == SetDpr(st, f, d)
<1>1. st.dpr[f] \in Dpr
  BY ReqsOf
<1>2. d \in Dpr /\ d.reqs = new /\ d.file_size = z /\ d.on = st.dpr[f].on /\ d.write_ip = st.dpr[f].write_ip
      /\ d.write_error = st.dpr[f].write_error /\ d.alt = st.dpr[f].alt /\ d.inq = st.dpr[f].inq
  BY <1>1 DEF WithList, Dpr
<1> HIDE DEF d
<1>3. DprIs(st, st2, f, d)
  BY <1>2, SetDprOK
<1> HIDE DEF st2
<1>4. Books(st2)
  BY <1>2, <1>3, DprIsBooks
<1>5. Relisted(st, st2, f, new, z) /\ st2.dpr[f].inq = st.dpr[f].inq
  BY <1>2, <1>3, <1>4 DEF Relisted, DprIs
<1> QED BY <1>5 DEF st2, d

\* The counters may follow.
LEMMA RelistedStep ==
    ASSUME NEW st, NEW st1, NEW st2, NEW f, NEW new, NEW z, Relisted(st, st1, f, new, z), QStep(st1, st2, f)
    PROVE  Relisted(st, st2, f, new, z)
BY DEF Relisted, QStep, SameDpr, SameRest, OthersSame

\* If they do, the file has grown by X.
LEMMA RelistedGrown ==
    ASSUME NEW st, NEW st2, NEW f \in Files, NEW new \in Seq(Req), NEW z \in Nat, NEW X, Sound(st), st.dpr[f].on,
           Relisted(st, st2, f, new, z), Listed(st2.dpr[f]),
           z >= st.dpr[f].file_size,
           \A i \in DOMAIN new : End(new[i]) <= z /\ (new[i].state # "IP" \/ \E j \in DOMAIN st.dpr[f].reqs : new[i] = st.dpr[f].reqs[j]),
           Ids(new) = Ids(st.dpr[f].reqs) \cup X
    PROVE  Grown(st, st2, f, X)
<1>1. st \in State /\ Books(st) /\ Drive(st) /\ FileOK(st.dpr[f], st.tape[f])
  BY DEF Sound, FilesOK
<1>2. st2 \in State /\ Books(st2) /\ OthersSame(st, st2, f) /\ SameRest(st, st2)
    /\ st2.dpr[f].reqs = new /\ st2.dpr[f].file_size = z
    /\ st2.dpr[f].on /\ st2.dpr[f].write_ip = st.dpr[f].write_ip
    /\ st2.dpr[f].write_error = st.dpr[f].write_error /\ st2.dpr[f].alt = st.dpr[f].alt
  BY DEF Relisted
<1>3. DriveSame(st, st2) /\ Drive(st2)
  BY <1>1, <1>2, DriveKept DEF SameRest, DriveSame
<1>4. IpSaved(st2.dpr[f], st2.tape[f])
  BY <1>1, <1>2 DEF FileOK, IpSaved, SameRest
<1>5. Sized(st2.dpr[f])
  BY <1>2 DEF Sized
<1>6. NoIp(st2.dpr[f])
  <2>1. SUFFICES ASSUME MaxIpSize = 0 PROVE ~st2.dpr[f].write_ip /\ ~st2.dpr[f].alt /\ \A i \in DOMAIN new : new[i].state # "IP"
    BY <1>2 DEF NoIp
  <2>2. ~st.dpr[f].write_ip /\ ~st.dpr[f].alt /\ \A i \in DOMAIN st.dpr[f].reqs : st.dpr[f].reqs[i].state # "IP"
    BY <1>1, <2>1 DEF FileOK, NoIp
  <2> QED BY <1>2, <2>2
<1>7. NoFaults => st2.dpr[f].write_error = "ok"
  BY <1>1, <1>2 DEF FileOK
<1>8. FileOK(st2.dpr[f], st2.tape[f])
  BY <1>2, <1>4, <1>5, <1>6, <1>7 DEF FileOK
<1>9. FileStep(st, st2, f)
  BY <1>2, <1>3, <1>8 DEF FileStep, SameRest
<1>10. Held(st2, f) = Held(st, f) \cup X
  BY <1>2 DEF Held, SameRest
<1> QED BY <1>2, <1>3, <1>9, <1>10 DEF Grown, SameRest

ArgOK(a) == a \in [n : 0..2, id : Nat, off : Nat] /\ a.n > 0 /\ a.id > 0

\* _unified_insert_new_request
LEMMA NewRequestOK ==
    ASSUME NEW st, NEW f \in Files, Sound(st), st.dpr[f].on, NEW off \in Nat, NEW n \in {1, 2}, NEW id \in Pos
    PROVE  Grown(st, NewRequest(st, f, off, n, id), f, {id})
<1> DEFINE kind == IF n = 2 THEN "DP" ELSE "PARTIAL"
           r == [off |-> off, n |-> n, state |-> kind, ids |-> {id}]
           reqs == st.dpr[f].reqs
           new == Append(reqs, r)
           z == Max({st.dpr[f].file_size, off + n})
           st1 == SetDpr(st, f, WithList(st.dpr[f], new, z))
           st2 == AddQ(st1, kind, f)
<1>1. st \in State /\ Books(st) /\ FileOK(st.dpr[f], st.tape[f]) /\ st.dpr \in [Files -> Dpr] /\ st.dpr[f] \in Dpr
  BY ReqsOf, StateFields DEF Sound, FilesOK
<1>2. reqs \in Seq(Req) /\ st.dpr[f].file_size \in Nat /\ st.dpr[f].inq \in [Queues -> Nat]
  BY <1>1, ReqsOf
<1>3. NewRequest(st, f, off, n, id) = st2
  <2>1. [st EXCEPT !.dpr[f].reqs = Append(@, r), !.dpr[f].file_size = Max({@, off + n})] = st1
    <3> HIDE DEF r
    <3> QED BY <1>1 DEF SetDpr, WithList, State, Dpr
  <2>2. NewRequest(st, f, off, n, id) = AddQ([st EXCEPT !.dpr[f].reqs = Append(@, r), !.dpr[f].file_size = Max({@, off + n})], kind, f)
    BY DEF NewRequest
  <2> HIDE DEF st1, kind, r
  <2> QED BY <2>1, <2>2
<1>4. kind \in Queues /\ kind # "IP" /\ off + n \in Nat
  BY DEF Queues
<1>5. r \in Req /\ r.state = kind /\ r.ids = {id} /\ End(r) = off + n
  BY <1>4 DEF Req, End
<1> HIDE DEF r, kind
<1>6. z \in Nat /\ z >= st.dpr[f].file_size /\ z >= off + n
  BY <1>2, <1>4, MaxTwo
<1> HIDE DEF z
<1>7. new \in Seq(Req) /\ (\A q \in Queues : NumIn(new, {q}) = NumIn(reqs, {q}) + (IF r.state \in {q} THEN 1 ELSE 0))
      /\ Ids(new) = Ids(reqs) \cup {id}
  <2>1. \A S : NumIn(new, S) = NumIn(reqs, S) + (IF r.state \in S THEN 1 ELSE 0)
    BY <1>2, <1>5, NumInAppend
  <2>2. Ids(new) = Ids(reqs) \cup r.ids
    BY <1>2, <1>5, IdsAppend
  <2>3. new \in Seq(Req)
    BY <1>2, <1>5
  <2> HIDE DEF new, reqs
  <2> QED BY <1>5, <2>1, <2>2, <2>3
<1>8. \A i \in DOMAIN new : (i \in DOMAIN reqs /\ new[i] = reqs[i]) \/ new[i] = r
  BY <1>2, SMTT(20)
<1> HIDE DEF new
<1>9. Relisted(st, st1, f, new, z) /\ st1.dpr[f].inq = st.dpr[f].inq
  BY <1>1, <1>6, <1>7, WithListOK
<1> HIDE DEF st1
<1>10. st1 \in State /\ Books(st1)
  BY <1>9 DEF Relisted
<1>11. QStep(st1, st2, f) /\ st2.dpr[f].inq = [st1.dpr[f].inq EXCEPT ![kind] = st1.dpr[f].inq[kind] + 1]
  BY <1>4, <1>10, AddQOK
<1> HIDE DEF st2
<1>12. Relisted(st, st2, f, new, z)
  BY <1>9, <1>11, RelistedStep
<1>13. Listed(st2.dpr[f])
  <2>1. SUFFICES ASSUME NEW q \in Queues PROVE st2.dpr[f].inq[q] = NumIn(new, {q})
    BY <1>12 DEF Listed, Relisted
  <2>2. st.dpr[f].inq[q] = NumIn(reqs, {q}) /\ st.dpr[f].inq[q] \in Nat
    BY <1>1, <1>2 DEF FileOK, Listed
  <2>3. CASE q = kind
    BY <1>2, <1>4, <1>5, <1>7, <1>9, <1>11, <2>2, <2>3
  <2>4. CASE q # kind
    BY <1>2, <1>4, <1>5, <1>7, <1>9, <1>11, <2>2, <2>4, SMTT(20)
  <2> QED BY <2>3, <2>4
<1>14. \A i \in DOMAIN new : End(new[i]) <= z /\ (new[i].state # "IP" \/ \E j \in DOMAIN reqs : new[i] = reqs[j])
  <2>1. SUFFICES ASSUME NEW i \in DOMAIN new PROVE End(new[i]) <= z /\ (new[i].state # "IP" \/ \E j \in DOMAIN reqs : new[i] = reqs[j])
    OBVIOUS
  <2>2. CASE new[i] = r
    BY <1>4, <1>5, <1>6, <2>2
  <2>3. CASE i \in DOMAIN reqs /\ new[i] = reqs[i]
    <3>1. reqs[i] \in Req
      BY <1>2, <2>3
    <3>2. End(reqs[i]) \in Nat /\ End(reqs[i]) <= st.dpr[f].file_size
      BY <1>1, <2>3, <3>1, ReqFields DEF FileOK, Sized
    <3> QED BY <1>2, <1>6, <2>3, <3>2
  <2> QED BY <1>8, <2>2, <2>3
<1>15. Grown(st, st2, f, {id})
  <2> DEFINE X == {id}
  <2>1. Ids(new) = Ids(reqs) \cup X
    BY <1>7
  <2> HIDE DEF X
  <2>2. Grown(st, st2, f, X)
    BY <1>6, <1>7, <1>12, <1>13, <1>14, <2>1, RelistedGrown
  <2> QED BY <2>2 DEF X
<1> QED BY <1>3, <1>15

\* _unified_update_request
LEMMA FillOK ==
    ASSUME NEW st, NEW c, Sound(st), at[c] \in Files, st.dpr[at[c]].on, ArgOK(arg[c]), Fills(st, c)
    PROVE  Grown(st, Fill(st, c), at[c], {arg[c].id})
<1> DEFINE f == at[c]
           reqs == st.dpr[f].reqs
           k == Len(reqs)
           id == arg[c].id
           q1 == "PARTIAL"
           q2 == "DP"
           r2 == [reqs[k] EXCEPT !.n = 2, !.ids = @ \cup {id}, !.state = "DP"]
           new == [reqs EXCEPT ![k] = r2]
           z == Max({st.dpr[f].file_size, arg[c].off + 1})
           full == SetDpr(st, f, WithList(st.dpr[f], new, z))
           st2 == IF reqs[k].state = "PARTIAL" THEN AddQ(DelQ(full, q1, f), q2, f) ELSE full
<1>1. st \in State /\ Books(st) /\ FileOK(st.dpr[f], st.tape[f]) /\ st.dpr \in [Files -> Dpr] /\ st.dpr[f] \in Dpr
  BY ReqsOf, StateFields DEF Sound, FilesOK
<1>2. reqs \in Seq(Req) /\ st.dpr[f].file_size \in Nat /\ st.dpr[f].inq \in [Queues -> Nat]
  BY <1>1, ReqsOf
<1>3. k \in Nat /\ k > 0 /\ k \in DOMAIN reqs /\ reqs[k] \in Req /\ reqs[k].n = 1 /\ End(reqs[k]) = arg[c].off /\ reqs[k].state # "IP"
  BY <1>2 DEF Fills
<1>4. Fill(st, c) = st2
  <2> DEFINE L == [st EXCEPT !.dpr[f].reqs = [@ EXCEPT ![k] = r2], !.dpr[f].file_size = Max({@, arg[c].off + 1})]
  <2>1. L = full
    <3> DEFINE M == [st EXCEPT !.dpr[f].reqs = new, !.dpr[f].file_size = Max({@, arg[c].off + 1})]
    <3>1. L = M
      BY <1>1 DEF State, Dpr
    <3> HIDE DEF L, new
    <3>2. M = full
      BY <1>1 DEF SetDpr, WithList, State, Dpr
    <3> QED BY <3>1, <3>2
  <2>2. Fill(st, c) = IF reqs[k].state = "PARTIAL" THEN AddQ(DelQ(L, q1, f), q2, f) ELSE L
    BY DEF Fill
  <2> HIDE DEF full, L
  <2> QED BY <2>1, <2>2
<1>5. arg[c].off \in Nat /\ id \in Pos /\ arg[c].off + 1 \in Nat
  BY DEF ArgOK, Pos
<1> HIDE DEF id
<1>6. r2 \in Req /\ r2.state = "DP" /\ r2.ids = reqs[k].ids \cup {id} /\ End(r2) = arg[c].off + 1
  <2> DEFINE r == reqs[k]
  <2>1. r \in Req /\ r.off \in Nat /\ r.n = 1 /\ r.off + r.n = arg[c].off /\ r.ids \in SUBSET Pos
    BY <1>3, ReqFields DEF End
  <2> HIDE DEF r
  <2>2. r2 = [r EXCEPT !.n = 2, !.ids = r.ids \cup {id}, !.state = "DP"]
    BY DEF r
  <2> HIDE DEF r2
  <2>3. r2 \in Req /\ r2.state = "DP" /\ r2.ids = r.ids \cup {id} /\ r2.off = r.off /\ r2.n = 2
    BY <1>5, <2>1, <2>2 DEF Req, Queues
  <2>4. End(r2) = arg[c].off + 1
    BY <1>5, <2>1, <2>3 DEF End
  <2> QED BY <2>3, <2>4 DEF r
<1> HIDE DEF r2
<1>7. z \in Nat /\ z >= st.dpr[f].file_size /\ z >= arg[c].off + 1
  BY <1>2, <1>5, MaxTwo
<1> HIDE DEF z
<1>8. Replaced(reqs, new, k, r2)
  BY <1>2, <1>3, <1>6, ReplaceLast
<1> HIDE DEF new
<1>9. /\ new \in Seq(Req) /\ Len(new) = k /\ new[k] = r2 /\ \A i \in DOMAIN reqs : i # k => new[i] = reqs[i]
      /\ DOMAIN new = DOMAIN reqs
  BY <1>8 DEF Replaced
<1>90. \A S : NumIn(new, S) - (IF r2.state \in S THEN 1 ELSE 0) = NumIn(reqs, S) - (IF reqs[k].state \in S THEN 1 ELSE 0)
  BY <1>8 DEF Replaced
<1>91. \A S : NumIn(new, S) \in Nat /\ NumIn(reqs, S) \in Nat
  BY <1>8 DEF Replaced
<1>10. Relisted(st, full, f, new, z) /\ full.dpr[f].inq = st.dpr[f].inq
  BY <1>1, <1>7, <1>9, WithListOK
<1> HIDE DEF full
<1>11. full \in State /\ Books(full)
  BY <1>10 DEF Relisted
<1>12. \A q \in Queues : st.dpr[f].inq[q] = NumIn(reqs, {q}) /\ st.dpr[f].inq[q] \in Nat
  BY <1>1, <1>2 DEF FileOK, Listed
<1>13. q1 \in Queues /\ q2 \in Queues
  BY DEF Queues
<1>14. Relisted(st, st2, f, new, z) /\ Listed(st2.dpr[f])
  <2>1. CASE reqs[k].state = "PARTIAL"
    <3> DEFINE s1 == DelQ(full, q1, f)  s2 == AddQ(s1, q2, f)
    <3>1. st2 = s2
      BY <2>1
    <3>2. full.dpr[f].inq[q1] > 0
      <4>1. NumIn(reqs, {"PARTIAL"}) > 0
        BY <1>2, <1>3, <2>1, NumInPositive
      <4> QED BY <1>10, <1>12, <1>13, <4>1
    <3> HIDE DEF q1, q2
    <3>3. QStep(full, s1, f) /\ s1.dpr[f].inq = [full.dpr[f].inq EXCEPT ![q1] = full.dpr[f].inq[q1] - 1]
      BY <1>11, <1>13, <3>2, DelQOK, SMTT(20)
    <3> HIDE DEF s1
    <3>4. s1 \in State /\ Books(s1)
      BY <3>3 DEF QStep
    <3>5. QStep(s1, s2, f) /\ s2.dpr[f].inq = [s1.dpr[f].inq EXCEPT ![q2] = s1.dpr[f].inq[q2] + 1]
      BY <1>13, <3>4, AddQOK
    <3> HIDE DEF s2
    <3>6. Relisted(st, s2, f, new, z)
      BY <1>10, <3>3, <3>5, RelistedStep
    <3>7. Listed(s2.dpr[f])
      <4>1. SUFFICES ASSUME NEW q \in Queues PROVE s2.dpr[f].inq[q] = NumIn(new, {q})
        BY <3>6 DEF Listed, Relisted
      <4>2. NumIn(new, {q}) - (IF r2.state \in {q} THEN 1 ELSE 0) = NumIn(reqs, {q}) - (IF reqs[k].state \in {q} THEN 1 ELSE 0)
        BY <1>90
      <4>3. NumIn(new, {q}) \in Nat /\ NumIn(reqs, {q}) \in Nat
        BY <1>91
      <4>4. st.dpr[f].inq[q] = NumIn(reqs, {q})
        BY <1>12
      <4>5. CASE q = "PARTIAL"
        <5>1. NumIn(new, {q}) = NumIn(reqs, {q}) - 1
          BY <1>6, <2>1, <4>2, <4>3, <4>5
        <5>2. s2.dpr[f].inq[q] = st.dpr[f].inq[q] - 1
          BY <1>2, <1>10, <1>13, <3>3, <3>5, <4>5 DEF q1, q2
        <5> QED BY <4>4, <5>1, <5>2
      <4>6. CASE q = "DP"
        <5>1. NumIn(new, {q}) = NumIn(reqs, {q}) + 1
          BY <1>6, <2>1, <4>2, <4>3, <4>6
        <5>2. s2.dpr[f].inq[q] = st.dpr[f].inq[q] + 1
          BY <1>2, <1>10, <1>13, <3>3, <3>5, <4>6 DEF q1, q2
        <5> QED BY <4>4, <5>1, <5>2
      <4>7. CASE q = "IP"
        <5>1. NumIn(new, {q}) = NumIn(reqs, {q})
          BY <1>6, <2>1, <4>2, <4>3, <4>7
        <5>2. s2.dpr[f].inq[q] = st.dpr[f].inq[q]
          BY <1>2, <1>10, <1>13, <3>3, <3>5, <4>7 DEF q1, q2
        <5> QED BY <4>4, <5>1, <5>2
      <4> QED BY <4>5, <4>6, <4>7 DEF Queues
    <3> QED BY <3>1, <3>6, <3>7
  <2>2. CASE reqs[k].state # "PARTIAL"
    <3>1. st2 = full /\ reqs[k].state = "DP"
      BY <1>3, <2>2 DEF Req, Queues
    <3>2. Listed(full.dpr[f])
      <4>1. SUFFICES ASSUME NEW q \in Queues PROVE full.dpr[f].inq[q] = NumIn(new, {q})
        BY <1>10 DEF Listed, Relisted
      <4>2. NumIn(new, {q}) - (IF r2.state \in {q} THEN 1 ELSE 0) = NumIn(reqs, {q}) - (IF reqs[k].state \in {q} THEN 1 ELSE 0)
        BY <1>90
      <4>3. NumIn(new, {q}) \in Nat /\ NumIn(reqs, {q}) \in Nat
        BY <1>91
      <4> QED BY <1>6, <1>10, <1>12, <3>1, <4>2, <4>3
    <3> QED BY <1>10, <3>1, <3>2
  <2> QED BY <2>1, <2>2
<1> HIDE DEF st2
<1>15. \A i \in DOMAIN new : End(new[i]) <= z /\ (new[i].state # "IP" \/ \E j \in DOMAIN reqs : new[i] = reqs[j])
  <2>1. SUFFICES ASSUME NEW i \in DOMAIN new PROVE End(new[i]) <= z /\ (new[i].state # "IP" \/ \E j \in DOMAIN reqs : new[i] = reqs[j])
    OBVIOUS
  <2>2. CASE i = k
    BY <1>6, <1>7, <1>9, <2>2
  <2>3. CASE i # k
    <3>0. i \in DOMAIN reqs /\ new[i] = reqs[i]
      BY <1>9, <2>3
    <3>1. reqs[i] \in Req
      BY <1>2, <3>0
    <3>2. End(reqs[i]) \in Nat /\ End(reqs[i]) <= st.dpr[f].file_size
      BY <1>1, <3>0, <3>1, ReqFields DEF FileOK, Sized
    <3> QED BY <1>2, <1>7, <3>0, <3>2
  <2> QED BY <2>2, <2>3
<1>16. Grown(st, st2, f, {id})
  <2> DEFINE X == {id}
  <2>1. Ids(new) = Ids(reqs) \cup X
    <3>1. \A e : e \in Ids(new) <=> \E i \in 1..Len(new) : e \in new[i].ids
      BY <1>9, IdsMember
    <3>2. \A e : e \in Ids(reqs) <=> \E i \in 1..Len(reqs) : e \in reqs[i].ids
      BY <1>2, IdsMember
    <3>3. DOMAIN reqs = 1..k
      BY <1>2
    <3> HIDE DEF k, reqs
    <3>5. Len(reqs) = k
      BY DEF k
    <3>4. ASSUME NEW e PROVE e \in Ids(new) <=> e \in Ids(reqs) \/ e = id
      <4>1. ASSUME e \in Ids(new) PROVE e \in Ids(reqs) \/ e = id
        <5>1. PICK i \in 1..k : e \in new[i].ids
          BY <1>9, <3>1, <4>1
        <5> QED BY <1>3, <1>6, <1>9, <3>2, <3>3, <3>5, <5>1
      <4>2. ASSUME e \in Ids(reqs) \/ e = id PROVE e \in Ids(new)
        <5>1. CASE e = id
          BY <1>3, <1>6, <1>9, <3>1, <3>3, <5>1
        <5>2. CASE e \in Ids(reqs)
          <6>1. PICK i \in 1..k : e \in reqs[i].ids
            BY <3>2, <3>5, <5>2
          <6> QED BY <1>3, <1>6, <1>9, <3>1, <3>3, <6>1
        <5> QED BY <4>2, <5>1, <5>2
      <4> QED BY <4>1, <4>2
    <3> QED BY <3>4
  <2> HIDE DEF X
  <2>2. Grown(st, st2, f, X)
    BY <1>7, <1>9, <1>14, <1>15, <2>1, RelistedGrown, ZenonT(30)
  <2> QED BY <2>2 DEF X
<1> QED BY <1>4, <1>16 DEF id

\* The scheduler answers for X.
SetWritten(st, f, X) == [st EXCEPT !.written[f] = X]
WrittenIs(st, st2, f, X) ==
    /\ st2 \in State /\ st2.dpr = st.dpr /\ st2.queue = st.queue /\ st2.count = st.count /\ st2.ext_queue = st.ext_queue
    /\ st2.tape = st.tape /\ st2.size = st.size /\ DriveSame(st, st2) /\ st2.free = st.free
    /\ st2.written[f] = X /\ \A g \in Files \ {f} : st2.written[g] = st.written[g]

\* Nothing else differs.
LEMMA SetWrittenOK ==
    ASSUME NEW st \in State, NEW f \in Files, NEW X \in SUBSET Pos PROVE WrittenIs(st, SetWritten(st, f, X), f, X)
<1> DEFINE W == [st.written EXCEPT ![f] = X]
<1>1. st.written \in [Files -> SUBSET Pos]
  BY StateFields
<1>2. SetWritten(st, f, X) = [st EXCEPT !.written = W]
  BY DEF SetWritten, State
<1>3. W \in [Files -> SUBSET Pos] /\ W[f] = X /\ \A g \in Files \ {f} : W[g] = st.written[g]
  BY <1>1
<1> HIDE DEF W
<1> QED BY <1>2, <1>3 DEF WrittenIs, State, DriveSame

\* It does not matter to list, queues and tape.
LEMMA WrittenStep ==
    ASSUME NEW st, NEW st2, NEW f \in Files, NEW X, Sound(st), WrittenIs(st, st2, f, X)
    PROVE  Sound(st2) /\ FileStep(st, st2, f) /\ \A g : Held(st2, g) = Held(st, g)
<1>1. st \in State /\ Books(st) /\ Drive(st) /\ FilesOK(st)
  BY DEF Sound
<1>2. Books(st2)
  BY <1>1, BooksSame DEF WrittenIs
<1>3. Drive(st2)
  BY <1>1, DriveKept DEF WrittenIs
<1>4. FilesOK(st2)
  BY <1>1 DEF FilesOK, WrittenIs
<1>5. \A g : Held(st2, g) = Held(st, g)
  BY DEF WrittenIs, Held
<1> QED BY <1>2, <1>3, <1>4, <1>5 DEF Sound, WrittenIs, FileStep, OthersSame, FilesOK

(* Truncation. *)
EmptyRun(st, x, f, i) ==
    QStep(st, x, f) /\ \A q \in Queues : x.dpr[f].inq[q] = NumIn(st.dpr[f].reqs, {q}) - Upto(st.dpr[f].reqs, i, {q})

\* One request is taken out of its queue.
LEMMA EmptyNext ==
    ASSUME NEW st \in State, NEW f \in Files, NEW i \in 1..Len(st.dpr[f].reqs), NEW x, EmptyRun(st, x, f, i - 1)
    PROVE  EmptyRun(st, DelQ(x, st.dpr[f].reqs[i].state, f), f, i)
<1> DEFINE reqs == st.dpr[f].reqs  q0 == reqs[i].state  y == DelQ(x, q0, f)
<1>1. reqs \in Seq(Req) /\ Len(reqs) \in Nat /\ i \in DOMAIN reqs /\ i \in Nat \ {0} /\ i - 1 \in Nat
  BY ReqsOf
<1>20. reqs[i] \in Req
  BY <1>1
<1>2. q0 \in Queues
  BY <1>20, ReqFields
<1>3. \A S : Upto(reqs, i, S) = Upto(reqs, i - 1, S) + (IF reqs[i].state \in S THEN 1 ELSE 0)
  <2>1. SUFFICES ASSUME NEW S PROVE Upto(reqs, i, S) = Upto(reqs, i - 1, S) + (IF reqs[i].state \in S THEN 1 ELSE 0)
    OBVIOUS
  <2>2. \A j \in Nat \ {0} : Upto(reqs, j, S) = Upto(reqs, j - 1, S) + (IF reqs[j].state \in S THEN 1 ELSE 0)
    BY UptoStep
  <2> QED BY <1>1, <2>2
<1>4. \A S : Upto(reqs, i, S) \in Nat /\ Upto(reqs, i - 1, S) \in Nat
  BY <1>1, UptoStep
<1>5. \A S : Upto(reqs, i, S) <= NumIn(reqs, S) /\ NumIn(reqs, S) \in Nat
  <2>1. SUFFICES ASSUME NEW S PROVE Upto(reqs, i, S) <= NumIn(reqs, S) /\ NumIn(reqs, S) \in Nat
    OBVIOUS
  <2>2. NumIn(reqs, S) = Upto(reqs, Len(reqs), S) /\ NumIn(reqs, S) \in Nat
    BY <1>1, NumInUpto
  <2>3. \A j \in 0..Len(reqs) : Upto(reqs, j, S) <= Upto(reqs, Len(reqs), S)
    BY <1>1, UptoGrows
  <2> QED BY <1>1, <2>2, <2>3
<1> HIDE DEF reqs, q0
<1>6. x \in State /\ Books(x) /\ QStep(st, x, f)
  BY DEF EmptyRun, QStep
<1>60. \A q \in Queues : x.dpr[f].inq[q] = NumIn(reqs, {q}) - Upto(reqs, i - 1, {q})
  BY DEF EmptyRun, reqs
<1>7. x.dpr[f].inq[q0] > 0
  <2>1. x.dpr[f].inq[q0] = NumIn(reqs, {q0}) - Upto(reqs, i - 1, {q0})
    BY <1>2, <1>60
  <2>2. Upto(reqs, i, {q0}) = Upto(reqs, i - 1, {q0}) + 1
    BY <1>3 DEF q0
  <2> QED BY <1>4, <1>5, <2>1, <2>2
<1>8. QStep(x, y, f) /\ y.dpr[f].inq = [x.dpr[f].inq EXCEPT ![q0] = x.dpr[f].inq[q0] - 1]
  BY <1>2, <1>6, <1>7, DelQOK
<1> HIDE DEF y
<1>9. QStep(st, y, f)
  BY <1>6, <1>8, QStepTrans
<1>10. ASSUME NEW q \in Queues PROVE y.dpr[f].inq[q] = NumIn(reqs, {q}) - Upto(reqs, i, {q})
  <2>0. x.dpr[f].inq \in [Queues -> Nat]
    BY <1>6, ReqsOf
  <2>1. Upto(reqs, i, {q}) = Upto(reqs, i - 1, {q}) + (IF q = q0 THEN 1 ELSE 0)
    BY <1>3 DEF q0
  <2>2. y.dpr[f].inq[q] = x.dpr[f].inq[q] - (IF q = q0 THEN 1 ELSE 0)
    BY <1>8, <2>0
  <2>3. x.dpr[f].inq[q] = NumIn(reqs, {q}) - Upto(reqs, i - 1, {q})
    BY <1>60
  <2>4. Upto(reqs, i, {q}) \in Nat /\ Upto(reqs, i - 1, {q}) \in Nat /\ NumIn(reqs, {q}) \in Nat
    BY <1>4, <1>5
  <2> QED BY <2>1, <2>2, <2>3, <2>4
<1> QED BY <1>9, <1>10 DEF EmptyRun, y, q0, reqs

\* All requests of f are taken off its list and the queues.
EmptiedIs(st, st2, f) ==
    /\ st2 \in State /\ Books(st2) /\ OthersSame(st, st2, f) /\ SameData(st, st2)
    /\ FlagsSame(st.dpr[f], st2.dpr[f]) /\ st2.dpr[f].reqs = <<>> /\ \A q \in Queues : st2.dpr[f].inq[q] = 0

\* The loop over all requests leaves every counter of the file at zero.
LEMMA EmptiedOK ==
    ASSUME NEW st, NEW f \in Files, Sound(st) PROVE EmptiedIs(st, Emptied(st, f), f)
<1> DEFINE reqs == st.dpr[f].reqs
           n == Len(reqs)
           Step(g) == [i \in 0..n |-> IF i = 0 THEN st ELSE DelQ(g[i - 1], reqs[i].state, f)]
           F == CHOOSE g : g = Step(g)
           step == [i \in 1..n |-> [x \in State |-> DelQ(x, reqs[i].state, f)]]
<1>1. st \in State /\ Books(st) /\ FileOK(st.dpr[f], st.tape[f])
  BY DEF Sound, FilesOK
<1>2. reqs \in Seq(Req) /\ n \in Nat /\ DOMAIN reqs = 1..n
  BY <1>1, ReqsOf
<1>3. Emptied(st, f) = DropReqs(F[n], f, Queues)
  BY DEF Emptied
<1>4. \A i \in 1..n : reqs[i].state \in Queues
  BY <1>2, ReqFields
<1>40. ASSUME NEW i \in 1..n, NEW x, EmptyRun(st, x, f, i - 1) PROVE EmptyRun(st, DelQ(x, reqs[i].state, f), f, i)
  BY <1>1, <1>40, EmptyNext
<1>41. EmptyRun(st, st, f, 0)
  <2>1. \A S : Upto(reqs, 0, S) = 0
    BY UptoStep
  <2>2. \A S : NumIn(reqs, S) \in Nat
    BY <1>2, NumInUpto
  <2> QED BY <1>1, <2>1, <2>2, QStepSame DEF EmptyRun, FileOK, Listed
<1>42. \A x : EmptyRun(st, x, f, n) => x \in State /\ QStep(st, x, f) /\ \A q \in Queues : x.dpr[f].inq[q] = 0
  <2>1. \A S : NumIn(reqs, S) = Upto(reqs, n, S) /\ NumIn(reqs, S) \in Nat
    BY <1>2, NumInUpto
  <2>2. SUFFICES ASSUME NEW x, EmptyRun(st, x, f, n) PROVE x \in State /\ QStep(st, x, f) /\ \A q \in Queues : x.dpr[f].inq[q] = 0
    OBVIOUS
  <2>3. QStep(st, x, f) /\ \A q \in Queues : x.dpr[f].inq[q] = NumIn(reqs, {q}) - Upto(reqs, n, {q})
    BY <2>2 DEF EmptyRun
  <2>4. ASSUME NEW q \in Queues PROVE x.dpr[f].inq[q] = 0
    <3>1. NumIn(reqs, {q}) = Upto(reqs, n, {q}) /\ NumIn(reqs, {q}) \in Nat
      BY <2>1
    <3>2. x.dpr[f].inq[q] = NumIn(reqs, {q}) - Upto(reqs, n, {q})
      BY <2>3
    <3> HIDE DEF reqs, n
    <3> QED BY <3>1, <3>2
  <2> QED BY <2>3, <2>4 DEF QStep
<1> HIDE DEF n
<1>5. Steps(step, n, State)
  <2>1. \A i \in 1..n : \A x \in State : DelQ(x, reqs[i].state, f) \in State
    BY <1>4, DelQType
  <2> QED BY <2>1 DEF Steps
<1>6. PICK g : Runs(g, n, State, st, step)
  <2> HIDE DEF step, Step, F
  <2> QED BY <1>1, <1>2, <1>5, FoldRuns
<1>7. g = Step(g)
  <2>1. \A i \in 0..n : i = 0 \/ i \in 1..n
    BY <1>2
  <2>2. g \in [0..n -> State] /\ g[0] = st /\ \A i \in 1..n : g[i] = step[i][g[i - 1]]
    BY <1>6 DEF Runs
  <2>3. \A i \in 1..n : i - 1 \in 0..n
    BY <1>2
  <2>4. \A i \in 1..n : g[i] = DelQ(g[i - 1], reqs[i].state, f)
    BY <2>2, <2>3
  <2> QED BY <2>1, <2>2, <2>4
<1> HIDE DEF Step, step
<1>8. F = Step(F)
  BY <1>7
<1> HIDE DEF F
<1>9. F[0] = st /\ \A i \in 1..n : F[i] = DelQ(F[i - 1], reqs[i].state, f)
  <2>1. 0 \in 0..n /\ \A i \in 1..n : i \in 0..n /\ i # 0
    BY <1>2
  <2> QED BY <1>8, <2>1 DEF Step
<1> DEFINE T == {i \in 0..n : EmptyRun(st, F[i], f, i)}
<1>10. 0 \in T
  BY <1>2, <1>9, <1>41
<1>11. ASSUME NEW i \in 1..n, i - 1 \in T PROVE i \in T
  <2>1. EmptyRun(st, F[i - 1], f, i - 1) /\ i \in 0..n
    BY <1>2, <1>11
  <2>2. EmptyRun(st, DelQ(F[i - 1], reqs[i].state, f), f, i)
    BY <1>40, <2>1
  <2> QED BY <1>9, <2>1, <2>2
<1> HIDE DEF T
<1>12. n \in T
  <2>1. \A i \in 0..n : i \in T
    BY <1>2, <1>10, <1>11, Stepwise
  <2> QED BY <1>2, <2>1
<1> DEFINE x == F[n]  y == DropReqs(x, f, Queues)
<1>13. x \in State /\ QStep(st, x, f) /\ \A q \in Queues : x.dpr[f].inq[q] = 0
  BY <1>12, <1>42 DEF T
<1> HIDE DEF x
<1>14. DropIs(x, y, f, Queues)
  BY <1>13, DropOK
<1> HIDE DEF y
<1>15. y \in State /\ FlagsSame(x.dpr[f], y.dpr[f]) /\ y.dpr[f].inq = x.dpr[f].inq
      /\ Purged(x.dpr[f].reqs, Len(x.dpr[f].reqs), y.dpr[f].reqs, Queues)
      /\ OthersSame(x, y, f) /\ y.queue = x.queue /\ y.count = x.count /\ SameData(x, y)
  BY <1>14 DEF DropIs
<1>16. x.dpr[f].reqs \in Seq(Req) /\ y.dpr[f].reqs \in Seq(Req)
  BY <1>13, <1>15, ReqsOf
<1>17. y.dpr[f].reqs = <<>>
  <2>1. \A k \in DOMAIN y.dpr[f].reqs : y.dpr[f].reqs[k].state \notin Queues
    BY <1>15 DEF Purged
  <2>2. \A k \in DOMAIN y.dpr[f].reqs : y.dpr[f].reqs[k].state \in Queues
    BY <1>16, ReqFields
  <2>3. Len(y.dpr[f].reqs) = 0
    BY <1>16, <2>1, <2>2
  <2> QED BY <1>16, <2>3
<1>18. Books(x) /\ SameRest(st, x) /\ SameDpr(st.dpr[f], x.dpr[f]) /\ OthersSame(st, x, f)
  BY <1>13 DEF QStep, OthersSame
<1>19. Books(y)
  <2>1. \A h \in Files : y.dpr[h].inq = x.dpr[h].inq /\ y.dpr[h].write_ip = x.dpr[h].write_ip
    BY <1>15 DEF OthersSame, FlagsSame
  <2> QED BY <1>15, <1>18, <2>1, BooksSame
<1>20. EmptiedIs(st, y, f)
  BY <1>13, <1>15, <1>17, <1>18, <1>19 DEF EmptiedIs, OthersSame, SameData, SameRest, FlagsSame, SameDpr
<1> QED BY <1>3, <1>20 DEF x, y

\* A list without places is empty.
LEMMA NoElement == ASSUME NEW q \in Seq(Req), \A i \in DOMAIN q : FALSE PROVE q = <<>>
<1>1. Len(q) \in Nat /\ DOMAIN q = 1..Len(q)
  OBVIOUS
<1>2. ASSUME Len(q) # 0 PROVE FALSE
  <2>1. 1 \in DOMAIN q
    BY <1>1, <1>2
  <2> QED BY <2>1
<1> QED BY <1>2

\* What truncation leaves of a file.
CutIs(st, st2, f) ==
    /\ FileStep(st, st2, f) /\ DriveSame(st, st2) /\ st2.tape = st.tape /\ st2.size = st.size
    /\ st2.written[f] = {} /\ st2.dpr[f].reqs = <<>> /\ st2.dpr[f].on
    /\ MaxIpSize = 0 => ((f \in st.ext_queue <=> st.dpr[f].alt) => (f \in st2.ext_queue <=> st2.dpr[f].alt))
Cutting(st, f) ==
    IF st.dpr[f].file_size > 0
    THEN [Emptied(st, f) EXCEPT !.dpr[f].alt = FALSE, !.dpr[f].file_size = 0, !.written[f] = {}]
    ELSE [st EXCEPT !.written[f] = {}]

\* Truncating a file that has data,
LEMMA CutFull ==
    ASSUME NEW st, NEW f \in Files, Sound(st), st.dpr[f].on
    PROVE  CutIs(st, [Emptied(st, f) EXCEPT !.dpr[f].alt = FALSE, !.dpr[f].file_size = 0, !.written[f] = {}], f)
<1> DEFINE x == Emptied(st, f)
           d == [x.dpr[f] EXCEPT !.alt = FALSE, !.file_size = 0]
           y == SetDpr(x, f, d)
           st2 == SetWritten(y, f, {})
<1>1. st \in State /\ Books(st) /\ Drive(st) /\ FileOK(st.dpr[f], st.tape[f])
  BY DEF Sound, FilesOK
<1>2. EmptiedIs(st, x, f)
  BY EmptiedOK
<1> HIDE DEF x
<1>3. x \in State /\ Books(x) /\ OthersSame(st, x, f) /\ SameData(st, x)
    /\ FlagsSame(st.dpr[f], x.dpr[f]) /\ x.dpr[f].reqs = <<>> /\ \A q \in Queues : x.dpr[f].inq[q] = 0
  BY <1>2 DEF EmptiedIs
<1>4. x.dpr \in [Files -> Dpr] /\ x.dpr[f] \in Dpr
  BY <1>3, StateFields
<1>5. [x EXCEPT !.dpr[f].alt = FALSE, !.dpr[f].file_size = 0, !.written[f] = {}] = st2
  BY <1>3, <1>4 DEF SetWritten, SetDpr, State, Dpr
<1>6. d \in Dpr /\ ~d.alt /\ d.file_size = 0 /\ d.on = x.dpr[f].on /\ d.reqs = x.dpr[f].reqs /\ d.write_ip = x.dpr[f].write_ip
      /\ d.write_error = x.dpr[f].write_error /\ d.inq = x.dpr[f].inq
  BY <1>4 DEF Dpr
<1> HIDE DEF d
<1>7. DprIs(x, y, f, d)
  BY <1>3, <1>6, SetDprOK
<1> HIDE DEF y
<1>8. Books(y)
  BY <1>3, <1>6, <1>7, DprIsBooks
<1>9. y \in State /\ y.dpr[f] = d /\ OthersSame(st, y, f) /\ y.ext_queue = st.ext_queue /\ y.tape = st.tape /\ y.size = st.size
      /\ DriveSame(st, y) /\ y.written = st.written
  BY <1>3, <1>7 DEF DprIs, OthersSame, SameData, SameRest, DriveSame
<1>10. WrittenIs(y, st2, f, {})
  BY <1>9, SetWrittenOK
<1> HIDE DEF st2
<1>11. st2 \in State /\ st2.dpr = y.dpr /\ st2.queue = y.queue /\ st2.count = y.count /\ st2.ext_queue = st.ext_queue
       /\ st2.tape = st.tape /\ st2.size = st.size /\ DriveSame(st, st2) /\ st2.written[f] = {}
       /\ \A g \in Files \ {f} : st2.written[g] = st.written[g]
  BY <1>9, <1>10 DEF WrittenIs, DriveSame
<1>12. Books(st2) /\ Drive(st2)
  BY <1>1, <1>8, <1>11, BooksSame, DriveKept
<1>13. FileOK(d, st2.tape[f])
  <2>1. d.on /\ d.reqs = <<>> /\ \A q \in Queues : d.inq[q] = 0
    BY <1>3, <1>6 DEF FlagsSame
  <2>2. Listed(d) /\ IpSaved(d, st2.tape[f]) /\ Sized(d)
    BY <2>1, NumInEmpty DEF Listed, IpSaved, Sized
  <2>3. NoIp(d)
    BY <1>1, <1>3, <1>6, <2>1 DEF FlagsSame, FileOK, NoIp
  <2>4. NoFaults => d.write_error = "ok"
    BY <1>1, <1>3, <1>6 DEF FlagsSame, FileOK
  <2> QED BY <2>1, <2>2, <2>3, <2>4 DEF FileOK
<1>14. FileStep(st, st2, f)
  BY <1>9, <1>11, <1>12, <1>13 DEF FileStep, OthersSame
<1>15. MaxIpSize = 0 => ((f \in st.ext_queue <=> st.dpr[f].alt) => (f \in st2.ext_queue <=> st2.dpr[f].alt))
  BY <1>1, <1>6, <1>9, <1>11 DEF FileOK, NoIp
<1>16. CutIs(st, st2, f)
  BY <1>3, <1>6, <1>9, <1>11, <1>14, <1>15 DEF CutIs, FlagsSame
<1> QED BY <1>5, <1>16 DEF x

\* and one that has none.
LEMMA CutEmpty ==
    ASSUME NEW st, NEW f \in Files, Sound(st), st.dpr[f].on, ~(st.dpr[f].file_size > 0)
    PROVE  CutIs(st, [st EXCEPT !.written[f] = {}], f)
<1> DEFINE st2 == SetWritten(st, f, {})
<1>1. st \in State /\ FileOK(st.dpr[f], st.tape[f])
  BY DEF Sound, FilesOK
<1>2. [st EXCEPT !.written[f] = {}] = st2
  BY DEF SetWritten
<1>3. WrittenIs(st, st2, f, {})
  BY <1>1, SetWrittenOK
<1> HIDE DEF st2
<1>4. FileStep(st, st2, f)
  BY <1>3, WrittenStep
<1>5. st.dpr[f].reqs = <<>>
  <2>1. st.dpr[f].reqs \in Seq(Req) /\ st.dpr[f].file_size \in Nat /\ DOMAIN st.dpr[f].reqs = 1..Len(st.dpr[f].reqs) /\ Len(st.dpr[f].reqs) \in Nat
    BY <1>1, ReqsOf
  <2>2. ASSUME NEW i \in DOMAIN st.dpr[f].reqs PROVE FALSE
    <3>1. st.dpr[f].reqs[i] \in Req
      BY <2>1
    <3>2. End(st.dpr[f].reqs[i]) > 0 /\ End(st.dpr[f].reqs[i]) \in Nat
      BY <3>1, ReqFields
    <3>3. End(st.dpr[f].reqs[i]) <= st.dpr[f].file_size
      BY <1>1 DEF FileOK, Sized
    <3> QED BY <2>1, <3>2, <3>3
  <2> QED BY <2>1, <2>2, NoElement
<1>6. CutIs(st, st2, f)
  BY <1>3, <1>4, <1>5 DEF CutIs, WrittenIs
<1> QED BY <1>2, <1>6

\* Truncation ends with the placement rule.
LEMMA TruncOK ==
    ASSUME NEW st, NEW f \in Files, Sound(st), st.dpr[f].on
    PROVE  CutIs(st, UpdatePlacement(Cutting(st, f), f), f)
<1> DEFINE x == Cutting(st, f)  y == UpdatePlacement(x, f)
<1>1. CutIs(st, x, f)
  BY CutFull, CutEmpty DEF Cutting
<1> HIDE DEF x
<1>2. Sound(x) /\ x.dpr[f].on
  BY <1>1, SoundStep DEF CutIs
<1>3. Settled(x, y, f)
  BY <1>2, UpdatePlacementOK
<1> HIDE DEF y
<1>4. FileStep(st, y, f)
  BY <1>1, <1>3, FileStepTrans DEF CutIs, Settled
<1>5. CutIs(st, y, f)
  BY <1>1, <1>3, <1>4 DEF CutIs, Settled, DriveSame
<1> QED BY <1>5 DEF x, y

\* The extents of a file without requests go.
TapeCut(st, f) == [st EXCEPT !.tape[f] = {}, !.size[f] = 0]
TapeCutIs(st, st2, f) ==
    /\ FileStep(st, st2, f) /\ DriveSame(st, st2) /\ st2.dpr = st.dpr /\ st2.ext_queue = st.ext_queue
    /\ st2.written = st.written /\ st2.tape[f] = {}

\* ltfs_fsraw_truncate removes the extents.
LEMMA TapeCutOK ==
    ASSUME NEW st, NEW f \in Files, Sound(st), st.dpr[f].reqs = <<>> PROVE TapeCutIs(st, TapeCut(st, f), f)
<1> DEFINE T == [st.tape EXCEPT ![f] = {}]  Z == [st.size EXCEPT ![f] = 0]  st2 == TapeCut(st, f)
<1>1. st \in State /\ Books(st) /\ Drive(st) /\ FileOK(st.dpr[f], st.tape[f]) /\ st.tape \in [Files -> SUBSET Pos] /\ st.size \in [Files -> Nat]
  BY StateFields DEF Sound, FilesOK
<1>2. st2 = [st EXCEPT !.tape = T, !.size = Z]
  BY <1>1 DEF TapeCut, State
<1>3. T \in [Files -> SUBSET Pos] /\ T[f] = {} /\ (\A g \in Files \ {f} : T[g] = st.tape[g])
      /\ Z \in [Files -> Nat] /\ \A g \in Files \ {f} : Z[g] = st.size[g]
  BY <1>1
<1> HIDE DEF T, Z, st2
<1>4. st2 \in State /\ st2.dpr = st.dpr /\ st2.queue = st.queue /\ st2.count = st.count /\ st2.ext_queue = st.ext_queue
      /\ st2.written = st.written /\ DriveSame(st, st2) /\ st2.tape = T /\ st2.size = Z
  BY <1>1, <1>2, <1>3 DEF State, DriveSame
<1>5. Books(st2) /\ Drive(st2)
  BY <1>1, <1>4, BooksSame, DriveKept
<1>6. FileOK(st2.dpr[f], st2.tape[f])
  BY <1>1, <1>4 DEF FileOK, IpSaved
<1>7. TapeCutIs(st, st2, f)
  BY <1>3, <1>4, <1>5, <1>6 DEF TapeCutIs, FileStep, OthersSame
<1> QED BY <1>7 DEF st2

(* The writer thread. *)
SentIs(st, st2, f, r) ==
    /\ FileStep(st, st2, f) /\ DriveSame(st, st2) /\ st2.dpr = st.dpr /\ st2.ext_queue = st.ext_queue
    /\ st2.written = st.written /\ st2.tape[f] = st.tape[f] \cup r.ids

\* A request of the private list reaches the tape.
LEMMA SentOK ==
    ASSUME NEW st, NEW f \in Files, NEW r \in Req, Sound(st) PROVE SentIs(st, FreeBlocks(ToTape(st, f, r), 1), f, r)
<1> DEFINE x == ToTape(st, f, r)  y == FreeBlocks(x, 1)
<1>1. st \in State /\ Books(st) /\ Drive(st) /\ FilesOK(st) /\ st.tape \in [Files -> SUBSET Pos]
  BY StateFields DEF Sound
<1>2. x \in State /\ x.dpr = st.dpr /\ x.queue = st.queue /\ x.count = st.count /\ x.ext_queue = st.ext_queue
      /\ x.tape = [st.tape EXCEPT ![f] = st.tape[f] \cup r.ids] /\ (\A g \in Files \ {f} : x.size[g] = st.size[g])
      /\ DriveSame(st, x) /\ x.written = st.written
  BY <1>1, ToTapeFields DEF DriveSame
<1> HIDE DEF x
<1>3. OnlyFree(x, y)
  BY <1>2, FreeBlocksIs
<1> HIDE DEF y
<1>4. y \in State /\ y.dpr = st.dpr /\ y.queue = st.queue /\ y.count = st.count /\ y.ext_queue = st.ext_queue
      /\ y.tape = [st.tape EXCEPT ![f] = st.tape[f] \cup r.ids] /\ (\A g \in Files \ {f} : y.size[g] = st.size[g])
      /\ DriveSame(st, y) /\ y.written = st.written
  BY <1>2, <1>3 DEF OnlyFree, DriveSame
<1>5. Books(y) /\ Drive(y)
  BY <1>1, <1>4, BooksSame, DriveKept
<1>6. y.tape[f] = st.tape[f] \cup r.ids /\ \A g \in Files \ {f} : y.tape[g] = st.tape[g]
  BY <1>1, <1>4
<1>7. FileOK(y.dpr[f], y.tape[f])
  BY <1>1, <1>4, <1>6 DEF FilesOK, FileOK, IpSaved
<1>8. SentIs(st, y, f, r)
  BY <1>4, <1>5, <1>6, <1>7 DEF SentIs, FileStep, OthersSame
<1> QED BY <1>8 DEF x, y

DamageOnly(st, st2) ==
    /\ Sound(st2) /\ st2.dpr = st.dpr /\ st2.ext_queue = st.ext_queue /\ st2.tape = st.tape /\ st2.size = st.size
    /\ st2.written = st.written

\* A fault of the writer thread's own write.
LEMMA DamageStep ==
    ASSUME NEW st, Sound(st), NEW f \in Files, NEW plan \in Plans(st), NEW n \in Nat, Outcome(st, "DP", n, f, plan).e # "ok"
    PROVE  /\ DamageOnly(st, Damage(st, "DP", Outcome(st, "DP", n, f, plan).e))
           /\ ~NoFaults /\ Outcome(st, "DP", n, f, plan).e \in Errors
<1> DEFINE o == Outcome(st, "DP", n, f, plan)  st2 == Damage(st, "DP", o.e)
<1>1. st \in State /\ Books(st) /\ Drive(st) /\ FilesOK(st) /\ "DP" \in Partitions
  BY DEF Sound, Partitions
<1>2. OutcomeOK(st, "DP", n, o)
  BY <1>1, OutcomeFacts
<1>20. o.e # "ok"
  OBVIOUS
<1> HIDE DEF o
<1>3. ~NoFaults /\ o.e \in Errors /\ IF Refuses(st, "DP") THEN o.e = Refusal(st) ELSE o.e \in Faults /\ st.nfaults < MaxFaults
  BY <1>2, <1>20 DEF OutcomeOK
<1>4. DamageIs(st, st2)
  BY <1>1, <1>3, <1>20, DamageOK
<1> HIDE DEF st2
<1>5. Books(st2)
  BY <1>1, <1>4, BooksSame DEF DamageIs
<1>6. DamageOnly(st, st2)
  BY <1>1, <1>4, <1>5 DEF DamageIs, DamageOnly, Sound, FilesOK
<1> QED BY <1>3, <1>6 DEF o, st2

FailedIs(st, st2, f) ==
    /\ FileStep(st, st2, f) /\ st2.ext_queue = st.ext_queue /\ st2.tape = st.tape
    /\ st2.dpr[f].on = st.dpr[f].on /\ st2.dpr[f].alt = st.dpr[f].alt
    /\ st2.written[f] \subseteq st.written[f] /\ st2.written[f] \subseteq Held(st2, f)
    /\ st.dpr[f].reqs = <<>> => st2.dpr[f].reqs = <<>>

\* The writer thread's error is recorded, and the account of the data follows.
LEMMA FailOK ==
    ASSUME NEW st, NEW f \in Files, Sound(st), st.dpr[f].on, NEW rs, rs # "IP", NEW e \in Errors, e # "ok", ~NoFaults
    PROVE  FailedIs(st, HandleError(st, f, rs, e), f)
<1> DEFINE st2 == HandleError(st, f, rs, e)
<1>1. st \in State /\ Books(st) /\ Drive(st) /\ FileOK(st.dpr[f], st.tape[f]) /\ st.dpr[f].reqs \in Seq(Req)
  BY ReqsOf DEF Sound, FilesOK
<1>2. Misled(st.dpr[f], HStates(st, rs, e))
  BY <1>1 DEF Misled, FileOK, Listed
<1>3. Handled(st, st2, f, rs, e)
  BY <1>1, <1>2, HandleErrorOK
<1> HIDE DEF st2
<1>4. Recorded(st.dpr[f], rs, e) # "ok"
  BY DEF Recorded
<1>5. st2 \in State /\ Books(st2) /\ OthersSame(st, st2, f) /\ Listed(st2.dpr[f])
    /\ st2.ext_queue = st.ext_queue /\ st2.tape = st.tape /\ st2.size = st.size /\ DriveSame(st, st2)
    /\ (\A g \in Files \ {f} : st2.written[g] = st.written[g])
    /\ st2.dpr[f].on = st.dpr[f].on /\ st2.dpr[f].write_ip = st.dpr[f].write_ip /\ st2.dpr[f].alt = st.dpr[f].alt
    /\ Sized(st2.dpr[f]) /\ st2.written[f] \subseteq st.written[f] /\ st2.written[f] \subseteq Held(st2, f)
  BY <1>3, <1>4 DEF Handled, DriveSame
<1>6. \A k \in DOMAIN st2.dpr[f].reqs : \E j \in DOMAIN st.dpr[f].reqs : st2.dpr[f].reqs[k] = st.dpr[f].reqs[j]
  BY <1>3 DEF Handled
<1>7. st2.dpr[f].reqs \in Seq(Req)
  BY <1>5, ReqsOf
<1>8. FileOK(st2.dpr[f], st2.tape[f])
  <2>1. IpSaved(st2.dpr[f], st2.tape[f])
    BY <1>1, <1>5, <1>6 DEF FileOK, IpSaved
  <2>2. NoIp(st2.dpr[f])
    BY <1>1, <1>5, <1>6 DEF FileOK, NoIp
  <2> QED BY <1>5, <2>1, <2>2 DEF FileOK
<1>9. Drive(st2)
  BY <1>1, <1>5, DriveKept
<1>10. FileStep(st, st2, f)
  BY <1>5, <1>8, <1>9 DEF FileStep
<1>11. st.dpr[f].reqs = <<>> => st2.dpr[f].reqs = <<>>
  <2>1. SUFFICES ASSUME st.dpr[f].reqs = <<>> PROVE st2.dpr[f].reqs = <<>>
    OBVIOUS
  <2>2. \A i \in DOMAIN st2.dpr[f].reqs : FALSE
    BY <1>6, <2>1
  <2> QED BY <1>7, <2>2, NoElement
<1>12. FailedIs(st, st2, f)
  BY <1>5, <1>10, <1>11 DEF FailedIs
<1> QED BY <1>12 DEF st2

(* What a client's step does to its place and its locks. *)
LockOf(p) == IF p \in ReadHeld THEN "read" ELSE IF p \in WriteHeld THEN "write" ELSE "none"
Stays(c) ==
    \A d \in Clients \ {c} : pc'[d] = pc[d] /\ op'[d] = op[d] /\ at'[d] = at[d] /\ arg'[d] = arg[d] /\ held'[d] = held[d]
PlaceOK(p, o, f, a) ==
    /\ o \in OpsAt(p) /\ (o # "none" => o \in Ops) /\ (p \in OnFile <=> f \in Files)
    /\ o # "write" => a = NoArg
    /\ o = "write" => a.n > 0 /\ a.id > 0
LocksTaken(c) ==
    /\ held'[c] = LockOf(pc'[c])
    /\ LockOf(pc'[c]) = "read" => held[c] = "read" \/ ReadLockFree
    /\ LockOf(pc'[c]) = "write" => held[c] = "write" \/ WriteLockFree
    /\ \A g \in Files : iosched_lock'[g] = IF g = at'[c] /\ pc'[c] \in IoschedHeld THEN c
                                           ELSE IF iosched_lock[g] = c THEN None ELSE iosched_lock[g]
    /\ pc'[c] \in IoschedHeld => iosched_lock[at'[c]] \in {None, c}
Serially(c) ==
    op'[c] \in {"write", "truncate"} => (at[c] = at'[c] /\ op[c] \in {"write", "truncate"}) \/ Serialised(at'[c])
Moves(c) ==
    /\ Stays(c) /\ held'[Writer] = held[Writer] /\ io_lock' = io_lock /\ w' = w
    /\ PlaceOK(pc'[c], op'[c], at'[c], arg'[c])
    /\ LocksTaken(c)
    /\ Serially(c)

\* Places, for one client.
LEMMA PlacesAt == \A c \in Clients : Places => PlaceOK(pc[c], op[c], at[c], arg[c])
BY DEF Places, PlaceOK

\* A client's step keeps the places of all calls,
LEMMA MovesPlaces ==
    ASSUME Places, NEW c \in Clients, Moves(c) PROVE Places'
<1>1. SUFFICES ASSUME NEW d \in Clients PROVE PlaceOK(pc'[d], op'[d], at'[d], arg'[d])
  BY DEF Places, PlaceOK
<1>2. CASE d = c
  BY <1>2 DEF Moves
<1>3. CASE d # c
  BY <1>3, PlacesAt DEF Moves, Stays
<1> QED BY <1>2, <1>3

\* one writer or truncator per file,
LEMMA MovesSerial ==
    ASSUME Types, Serial, NEW c \in Clients, Moves(c) PROVE Serial'
<1>1. SUFFICES ASSUME NEW x \in Clients, NEW y \in Clients, at'[x] \in Files, at'[x] = at'[y],
                      op'[x] \in {"write", "truncate"}, op'[y] \in {"write", "truncate"}, x # y
               PROVE  FALSE
  BY DEF Serial
<1>2. \A d \in Clients \ {c} : op'[d] = op[d] /\ at'[d] = at[d]
  BY DEF Moves, Stays
<1>3. CASE x # c /\ y # c
  BY <1>1, <1>2, <1>3 DEF Serial
<1>4. CASE x = c
  BY <1>1, <1>2, <1>4 DEF Serial, Moves, Serially, Serialised
<1>5. CASE y = c
  BY <1>1, <1>2, <1>5 DEF Serial, Moves, Serially, Serialised
<1> QED BY <1>3, <1>4, <1>5

\* and the locks.
LEMMA MovesLocks ==
    ASSUME Types, Locks, NEW c \in Clients, Moves(c) PROVE Locks'
<1>1. Writer # c /\ None \notin Clients /\ Writer \in Threads /\ \A d \in Clients : d \in Threads /\ d # Writer
  BY ThreadsOK DEF Threads, Writer
<1>2. \A d \in Clients : held'[d] = LockOf(pc'[d])
  <2>1. \A d \in Clients : held[d] = LockOf(pc[d])
    BY DEF Locks, LockOf
  <2> QED BY <2>1 DEF Moves, Stays, LocksTaken
<1>3. held'[Writer] = IF w'.pc \in WBusy THEN "read" ELSE "none"
  BY DEF Moves, Locks
<1>30. held'[Writer] = held[Writer] /\ \A d \in Clients \ {c} : held'[d] = held[d]
  BY DEF Moves, Stays
<1>31. \A t \in Threads : t # c => held'[t] = held[t]
  BY <1>1, <1>30 DEF Threads
<1>32. held'[c] \in {"none", "read", "write"}
  BY <1>2 DEF LockOf
<1>4. ASSUME NEW t \in Threads, NEW u \in Threads, held'[t] = "write", t # u PROVE held'[u] = "none"
  <2>0. \A x, y \in Threads : held[x] = "write" /\ x # y => held[y] = "none"
    BY DEF Locks
  <2>1. CASE t # c /\ u # c
    BY <1>4, <1>31, <2>0, <2>1
  <2>2. CASE t = c
    <3>1. held[c] = "write" \/ WriteLockFree
      BY <1>2, <1>4, <2>2 DEF Moves, LocksTaken
    <3>2. held'[u] = held[u]
      BY <1>4, <1>31, <2>2
    <3> QED BY <1>1, <1>4, <2>0, <2>2, <3>1, <3>2 DEF WriteLockFree
  <2>3. CASE u = c
    <3>1. held[t] = "write" /\ held[c] = "none"
      BY <1>1, <1>4, <1>31, <2>0, <2>3
    <3>2. ~ReadLockFree /\ ~WriteLockFree
      BY <3>1 DEF ReadLockFree, WriteLockFree
    <3>3. held'[c] # "read" /\ held'[c] # "write"
      BY <1>2, <3>1, <3>2 DEF Moves, LocksTaken
    <3> QED BY <1>32, <2>3, <3>3
  <2> QED BY <2>1, <2>2, <2>3
<1>5. ASSUME NEW g \in Files, NEW d \in Clients PROVE iosched_lock'[g] = d <=> at'[d] = g /\ pc'[d] \in IoschedHeld
  <2>0. \A x \in Clients : iosched_lock[g] = x <=> at[x] = g /\ pc[x] \in IoschedHeld
    BY DEF Locks
  <2>1. iosched_lock'[g] = IF g = at'[c] /\ pc'[c] \in IoschedHeld THEN c
                                           ELSE IF iosched_lock[g] = c THEN None ELSE iosched_lock[g]
    BY DEF Moves, LocksTaken
  <2>2. CASE d = c
    BY <1>1, <2>0, <2>1, <2>2
  <2>3. CASE d # c
    <3>1. at'[d] = at[d] /\ pc'[d] = pc[d]
      BY <2>3 DEF Moves, Stays
    <3>2. CASE g = at'[c] /\ pc'[c] \in IoschedHeld
      <4>1. iosched_lock[g] \in {None, c} /\ iosched_lock'[g] = c
        BY <2>1, <3>2 DEF Moves, LocksTaken
      <4> QED BY <1>1, <2>0, <2>3, <3>1, <4>1
    <3>3. CASE ~(g = at'[c] /\ pc'[c] \in IoschedHeld)
      BY <1>1, <2>0, <2>1, <2>3, <3>1, <3>3
    <3> QED BY <3>2, <3>3
  <2> QED BY <2>2, <2>3
<1>6. \A f \in Files : io_lock'[f] = Writer <=> w'.pc = "send" /\ w'.file = f
  BY DEF Moves, Locks
<1>7. \A d \in Clients : held'[d] = IF pc'[d] \in ReadHeld THEN "read" ELSE IF pc'[d] \in WriteHeld THEN "write" ELSE "none"
  BY <1>2 DEF LockOf
<1> QED BY <1>3, <1>4, <1>5, <1>6, <1>7 DEF Locks

\* Which calls can be at which point.
LEMMA OpsOf ==
    /\ OpsAt("write") = {"write"} /\ OpsAt("wait") = {"write"} /\ OpsAt("relock") = {"write"}
    /\ OpsAt("flush") = {"flush", "close"} /\ OpsAt("flush_done") = {"flush", "close"}
    /\ OpsAt("free") = {"close"} /\ OpsAt("free_io") = {"close"}
    /\ OpsAt("truncate") = {"truncate"} /\ OpsAt("trunc_io") = {"truncate"} /\ OpsAt("trunc_raw") = {"truncate"}
    /\ OpsAt("placement") = {"rename", "unlink"}
    /\ OpsAt("read") = {"read"} /\ OpsAt("read_tape") = {"read"} /\ OpsAt("read_done") = {"read"}
    /\ OpsAt("return") = {"close", "rename", "unlink"}
    /\ OpsAt("lock") = FileOps /\ OpsAt("iosched") = FileOps
    /\ OpsAt("flush_all") = {"flush_all"} /\ OpsAt("flushed") = {"flush_all"} /\ OpsAt("flush_failed") = {"flush_all"}
    /\ OpsAt("idle") = {"none"}
BY DEF OpsAt, WriteHeld

(* What it does to the files. *)
Steady(c) ==
    /\ Sound(s')
    /\ AltTracked /\ AltOK(s) => AltOK(s')
    /\ \A g \in Files \ {at[c]} : s'.dpr[g] = s.dpr[g] /\ s'.written[g] = s.written[g]
    /\ at[c] \in Files /\ s.dpr[at[c]].on => s'.dpr[at[c]].on \/ (io_lock[at[c]] = None /\ op[c] = "close")
    /\ at[c] \in Files /\ ~s.dpr[at[c]].on /\ op[c] \notin {"write", "truncate"} =>
          s'.dpr[at[c]] = s.dpr[at[c]] /\ s'.written[at[c]] = s.written[at[c]]
    /\ held[c] = "none" => s'.dpr = s.dpr /\ s'.written = s.written
BetweenAt(st, p, f) ==
    /\ p = "free_io" => st.dpr[f].on /\ st.dpr[f].reqs = <<>> /\ ~st.dpr[f].alt
    /\ p \in {"trunc_io", "trunc_raw"} => st.dpr[f].reqs = <<>> /\ st.written[f] = {}
    /\ p = "trunc_raw" => ~st.dpr[f].on
    /\ p = "flushed" => Flushed(st)

\* Between, for one client.
LEMMA BetweenIs == Between <=> \A c \in Clients : BetweenAt(s, pc[c], at[c])
BY DEF Between, BetweenAt

\* A client's step leaves to other calls what they rely on between two locks.
LEMMA SteadyBetween ==
    ASSUME Types, Places, Locks, Serial, Between, NEW c \in Clients, Moves(c), Steady(c), BetweenAt(s', pc'[c], at'[c]),
           at[c] \in Files => iosched_lock[at[c]] = c \/ pc[c] = "trunc_raw" \/ (s'.dpr = s.dpr /\ s'.written = s.written)
    PROVE  Between'
<1>1. SUFFICES ASSUME NEW d \in Clients, d # c PROVE BetweenAt(s', pc[d], at[d])
  <2>1. \A d \in Clients \ {c} : pc'[d] = pc[d] /\ at'[d] = at[d]
    BY DEF Moves, Stays
  <2> QED BY <2>1 DEF Between, BetweenAt
<1>2. BetweenAt(s, pc[d], at[d])
  BY BetweenIs
<1>3. d \in Threads /\ c \in Threads
  BY DEF Threads
<1>4. pc[d] = "flushed" => Flushed(s')
  <2>1. SUFFICES ASSUME pc[d] = "flushed" PROVE Flushed(s')
    OBVIOUS
  <2>2. held[d] = "write"
    BY <2>1 DEF Locks, ReadHeld, WriteHeld
  <2>3. held[c] = "none"
    BY <1>1, <1>3, <2>2 DEF Locks
  <2>4. Flushed(s) /\ s'.dpr = s.dpr
    BY <1>2, <2>1, <2>3 DEF Steady, BetweenAt
  <2> QED BY <2>4 DEF Flushed
<1>5. ASSUME pc[d] \in {"free_io", "trunc_io", "trunc_raw"} PROVE s'.dpr[at[d]] = s.dpr[at[d]] /\ s'.written[at[d]] = s.written[at[d]]
  <2>1. at[d] \in Files
    BY <1>5 DEF Places, OnFile, ReadHeld
  <2>2. CASE at[d] # at[c]
    BY <2>1, <2>2 DEF Steady
  <2>3. CASE at[d] = at[c]
    <3>1. CASE pc[d] # "trunc_raw"
      <4>1. iosched_lock[at[d]] = d
        BY <1>5, <2>1, <3>1 DEF Locks, IoschedHeld, ReadHeld
      <4>2. pc[c] # "trunc_raw"
        <5>1. SUFFICES ASSUME pc[c] = "trunc_raw" PROVE FALSE
          OBVIOUS
        <5>2. held[c] = "none"
          BY <5>1 DEF Locks, ReadHeld, WriteHeld
        <5>3. CASE pc[d] = "trunc_io"
          <6>1. op[c] = "truncate" /\ op[d] = "truncate"
            BY <5>1, <5>3, OpsOf DEF Places
          <6> QED BY <1>1, <2>1, <2>3, <6>1 DEF Serial
        <5>4. CASE pc[d] = "free_io"
          BY <1>2, <2>3, <5>1, <5>4, BetweenIs DEF BetweenAt
        <5> QED BY <1>5, <3>1, <5>3, <5>4
      <4> QED BY <1>1, <2>1, <2>3, <4>1, <4>2
    <3>2. CASE pc[d] = "trunc_raw"
      <4>1. ~s.dpr[at[c]].on /\ op[d] = "truncate"
        BY <1>2, <2>3, <3>2, OpsOf DEF BetweenAt, Places
      <4>2. op[c] \notin {"write", "truncate"}
        BY <1>1, <2>1, <2>3, <4>1 DEF Serial
      <4> QED BY <2>1, <2>3, <4>1, <4>2 DEF Steady
    <3> QED BY <3>1, <3>2
  <2> QED BY <2>2, <2>3
<1> QED BY <1>2, <1>4, <1>5 DEF BetweenAt

WaitPoints == {"wait", "relock"}
Mine(c) == IF op[c] = "write" THEN {arg[c].id} ELSE {}
SameHeld(st, st2) == st2.dpr = st.dpr /\ st2.written = st.written /\ st2.tape = st.tape
Locked(c) == at[c] \in Files => iosched_lock[at[c]] = c \/ pc[c] = "trunc_raw" \/ SameHeld(s, s')
(* What it does to the data. *)
Continues(c) == at'[c] = at[c] /\ op'[c] = op[c] /\ arg'[c].id = arg[c].id
Data(c) ==
    /\ \A g \in Files \ {at[c]} : s'.tape[g] = s.tape[g]
    /\ at[c] \in Files =>
          /\ \A e \in s'.written[at[c]] : e \in Held(s', at[c]) \/ (e \in s.written[at[c]] /\ e \notin Held(s, at[c]))
          /\ s'.written[at[c]] \subseteq s.written[at[c]] \cup Mine(c)
          /\ Held(s', at[c]) \subseteq Held(s, at[c]) \cup Mine(c)
          /\ NoFaults /\ op[c] # "truncate" =>
                s.written[at[c]] \subseteq s'.written[at[c]] /\ s.tape[at[c]] \subseteq s'.tape[at[c]]
          /\ NoFaults /\ op[c] = "truncate" => Continues(c) \/ (Held(s', at[c]) = {} /\ InFlight(at[c]) = {})
          /\ NoFaults /\ op[c] = "write" => Continues(c) \/ arg[c].id \in s'.written[at[c]]
Calls(c) ==
    /\ \A d \in Clients \ {c} : missing'[d] = missing[d]
    /\ nwrites' \in {nwrites, nwrites + 1}
    /\ op'[c] = "write" => (Continues(c) /\ op[c] = "write") \/ (nwrites' = nwrites + 1 /\ arg'[c].id = nwrites')
    /\ missing'[c] \subseteq missing[c] \/ (at[c] \in Files /\ missing'[c] \subseteq Live(at[c]))
    /\ NoFaults /\ pc'[c] = "read_tape" => Continues(c) /\ missing'[c] \subseteq s'.tape[at[c]] \cup InFlight(at[c])
    /\ NoFaults /\ pc'[c] = "read_done" => /\ Continues(c) /\ pc[c] = "read_tape" /\ SameHeld(s, s') /\ InFlight(at[c]) = {}
                                           /\ \A i \in missing'[c] : i \in missing[c] /\ i \notin s.tape[at[c]]
Waits(c) ==
    cache_requests' = cache_requests + (IF pc'[c] \in WaitPoints THEN 1 ELSE 0) - (IF pc[c] \in WaitPoints THEN 1 ELSE 0)
Did(c) ==
    /\ Types' /\ Moves(c) /\ Steady(c) /\ Locked(c) /\ BetweenAt(s', pc'[c], at'[c]) /\ Data(c) /\ Calls(c) /\ Waits(c)
    /\ keepalive /\ keepalive' = keepalive

\* While the mount is alive the writer thread has not left its loop.
LEMMA AliveSound == Control /\ Exact /\ keepalive => Sound(s) /\ w.pc \notin {"last_flush", "last_index", "exited", "joined"}
BY DEF Control, Exact, Sound, Shutdown, Types

\* cache_requests counts the calls that wait for a block.
LEMMA WaitersCount ==
    ASSUME Types, Waiting, Types', NEW c \in Clients, Moves(c), Waits(c) PROVE Waiting'
<1> DEFINE S == {d \in Clients : pc[d] \in WaitPoints}
<1> DEFINE T == {d \in Clients : pc'[d] \in WaitPoints}
<1>1. \A d \in Clients : d # c => pc'[d] = pc[d]
  BY DEF Moves, Stays
<1>2. IsFiniteSet(S) /\ IsFiniteSet(T)
  BY ThreadsOK, FS_Subset
<1>3. Cardinality(S) \in Nat /\ Cardinality(T) \in Nat
  BY <1>2, FS_CardinalityType
<1>4. cache_requests = Cardinality(S)
  BY DEF Waiting, WaitPoints
<1>5. CASE pc[c] \in WaitPoints /\ pc'[c] \in WaitPoints
  <2>1. S = T
    BY <1>1, <1>5
  <2> QED BY <1>3, <1>4, <1>5, <2>1 DEF Waiting, Waits, WaitPoints
<1>6. CASE pc[c] \in WaitPoints /\ pc'[c] \notin WaitPoints
  <2>1. T = S \ {c} /\ c \in S
    BY <1>1, <1>6
  <2>2. Cardinality(T) = Cardinality(S) - 1
    BY <1>2, <2>1, FS_RemoveElement
  <2> QED BY <1>3, <1>4, <1>6, <2>2 DEF Waiting, Waits, WaitPoints
<1>7. CASE pc[c] \notin WaitPoints /\ pc'[c] \in WaitPoints
  <2>1. T = S \cup {c} /\ c \notin S
    BY <1>1, <1>7
  <2>2. Cardinality(T) = Cardinality(S) + 1
    BY <1>2, <2>1, FS_AddElement
  <2> QED BY <1>3, <1>4, <1>7, <2>2 DEF Waiting, Waits, WaitPoints
<1>8. CASE pc[c] \notin WaitPoints /\ pc'[c] \notin WaitPoints
  <2>1. S = T
    BY <1>1, <1>8
  <2> QED BY <1>3, <1>4, <1>8, <2>1 DEF Waiting, Waits, WaitPoints
<1> QED BY <1>5, <1>6, <1>7, <1>8

\* A client's step leaves to the writer thread the dentry_priv it sends for.
LEMMA DidWriter ==
    ASSUME Control, NEW c \in Clients, Moves(c), Steady(c) PROVE WriterOK'
<1>1. w' = w
  BY DEF Moves
<1>2. ASSUME NEW f \in Files, s.dpr[f].on, io_lock[f] # None \/ "close" \notin Ops PROVE s'.dpr[f].on
  <2>1. CASE f # at[c]
    BY <1>2, <2>1 DEF Steady
  <2>2. CASE f = at[c]
    <3>1. op[c] = "close" => "close" \in Ops
      BY DEF Control, Places
    <3> QED BY <1>2, <2>2, <3>1 DEF Steady
  <2> QED BY <2>1, <2>2
<1>3. WriterOK
  BY DEF Control
<1>4. w.pc = "send" => w.file \in Files /\ io_lock[w.file] = Writer /\ Writer # None
  <2>1. w.pc = "send" => w.file \in Files
    BY <1>3 DEF WriterOK, WFile
  <2> QED BY <2>1, ThreadsOK DEF Control, Locks, Writer
<1>5. w.pc = "fail" => w.file \in Files
  BY <1>3 DEF WriterOK, WFile
<1>6. w.pc = "send" => s'.dpr[w.file].on
  BY <1>2, <1>3, <1>4 DEF WriterOK
<1>7. w.pc = "fail" /\ "close" \notin Ops => s'.dpr[w.file].on
  BY <1>2, <1>3, <1>5 DEF WriterOK
<1> QED BY <1>1, <1>3, <1>6, <1>7 DEF WriterOK

\* It leaves to other calls what they rely on.
LEMMA DidBetween ==
    ASSUME Control, NEW c \in Clients, Did(c) PROVE Between'
<1>1. at[c] \in Files => iosched_lock[at[c]] = c \/ pc[c] = "trunc_raw" \/ (s'.dpr = s.dpr /\ s'.written = s.written)
  <2>1. Locked(c)
    BY DEF Did
  <2>2. SameHeld(s, s') => s'.dpr = s.dpr /\ s'.written = s.written
    BY DEF SameHeld
  <2> QED BY <2>1, <2>2 DEF Locked
<1>2. Types /\ Places /\ Locks /\ Serial /\ Between /\ Moves(c) /\ Steady(c) /\ BetweenAt(s', pc'[c], at'[c])
  BY DEF Did, Control
<1> QED BY <1>1, <1>2, SteadyBetween

\* A client's step keeps Control and Exact.
LEMMA DidControl ==
    ASSUME Control, Exact, NEW c \in Clients, Did(c) PROVE Control' /\ Exact'
<1>0. Types /\ Types' /\ Places /\ Locks /\ Serial /\ Waiting /\ Moves(c) /\ Steady(c) /\ Waits(c)
  BY DEF Did, Control
<1>1. Places'
  BY <1>0, MovesPlaces
<1>2. Locks'
  BY <1>0, MovesLocks
<1>3. WriterOK'
  BY <1>0, DidWriter
<1>4. Serial'
  BY <1>0, MovesSerial
<1>5. Between'
  BY DidBetween
<1>6. Waiting'
  BY <1>0, WaitersCount
<1>7. w.pc \notin {"last_flush", "last_index", "exited", "joined"} /\ w' = w /\ keepalive' /\ keepalive
  <2>1. keepalive /\ keepalive' = keepalive /\ w' = w
    BY <1>0 DEF Did, Moves
  <2> QED BY <2>1, AliveSound
<1>8. Shutdown'
  BY <1>7 DEF Shutdown
<1>9. Exact'
  <2>1. Sound(s') /\ (AltTracked => AltOK(s'))
    BY <1>0 DEF Steady, Exact
  <2> QED BY <2>1 DEF Exact, Sound
<1> QED BY <1>0, <1>1, <1>2, <1>3, <1>4, <1>5, <1>6, <1>8, <1>9 DEF Control

\* It changes no data of another file, and nothing in flight.
LEMMA DidHeld ==
    ASSUME Types, NEW c \in Clients, Did(c)
    PROVE  /\ \A f \in Files : InFlight(f)' = InFlight(f)
           /\ \A g \in Files \ {at[c]} : Held(s', g) = Held(s, g) /\ s'.written[g] = s.written[g] /\ s'.tape[g] = s.tape[g]
<1>1. w' = w /\ Data(c) /\ Steady(c)
  BY DEF Did, Moves
<1> QED BY <1>1 DEF InFlight, Held, Data, Steady

\* It loses no data silently.
LEMMA DidLoss ==
    ASSUME Types, NEW c \in Clients, Did(c), NoSilentLoss PROVE NoSilentLoss'
<1>1. SUFFICES ASSUME NEW f \in Files, NEW e \in s'.written[f] PROVE e \in Held(s', f) \/ e \in InFlight(f)'
  BY DEF NoSilentLoss, Live
<1>2. \A x \in s.written[f] : x \in Held(s, f) \/ x \in InFlight(f)
  BY DEF NoSilentLoss, Live
<1>3. CASE f # at[c]
  BY <1>1, <1>2, <1>3, DidHeld
<1>4. CASE f = at[c]
  <2>1. Data(c)
    BY DEF Did
  <2>2. e \in Held(s', f) \/ (e \in s.written[f] /\ e \notin Held(s, f))
    BY <1>1, <1>4, <2>1 DEF Data
  <2> QED BY <1>2, <2>2, DidHeld
<1> QED BY <1>3, <1>4

\* The data a call writes has a number that was given out.
LEMMA MineOK ==
    ASSUME Types, Places, Numbered, NEW c \in Clients
    PROVE  Mine(c) \subseteq 1..nwrites /\ nwrites \in Nat /\ Mine(c) \subseteq {arg[c].id}
<1>1. op[c] = "write" => arg[c].id > 0
  BY DEF Places
<1>2. arg[c].id <= nwrites /\ arg[c].id \in Nat /\ nwrites \in Nat
  BY DEF Types, Numbered
<1> QED BY <1>1, <1>2 DEF Mine

\* No data is without a number.
LEMMA DidNumbered ==
    ASSUME Control, Numbered, NEW c \in Clients, Did(c) PROVE Numbered'
<1>0. Types /\ Places /\ Data(c) /\ Calls(c) /\ Moves(c)
  BY DEF Control, Did
<1>1. nwrites \in Nat /\ nwrites' \in Nat /\ nwrites <= nwrites' /\ nwrites' \in {nwrites, nwrites + 1}
  BY <1>0 DEF Types, Calls
<1>2. ASSUME NEW f \in Files PROVE Live(f)' \subseteq 1..nwrites'
  <2>1. Live(f) \subseteq 1..nwrites
    BY DEF Numbered
  <2>2. Held(s', f) \subseteq Held(s, f) \cup Mine(c)
    <3>1. CASE f = at[c]
      BY <1>0, <3>1 DEF Data
    <3>2. CASE f # at[c]
      BY <1>0, <3>2, DidHeld
    <3> QED BY <3>1, <3>2
  <2>3. Live(f)' \subseteq Live(f) \cup Mine(c)
    BY <1>0, <2>2, DidHeld DEF Live
  <2>4. 1..nwrites \subseteq 1..nwrites'
    BY <1>1
  <2> QED BY <1>0, <2>1, <2>3, <2>4, MineOK
<1>3. ASSUME NEW d \in Clients PROVE arg'[d].id <= nwrites'
  <2>1. CASE d # c
    <3>1. arg'[d] = arg[d] /\ arg[d].id <= nwrites /\ arg[d].id \in Nat
      BY <1>0, <2>1 DEF Moves, Stays, Numbered, Types
    <3> QED BY <1>1, <3>1
  <2>2. CASE d = c /\ op'[c] # "write"
    <3>1. arg'[c] = NoArg
      BY <1>0, <2>2 DEF Moves, PlaceOK
    <3> QED BY <1>1, <2>2, <3>1 DEF NoArg
  <2>3. CASE d = c /\ op'[c] = "write"
    <3>1. arg'[c].id = arg[c].id \/ arg'[c].id = nwrites'
      BY <1>0, <2>3 DEF Calls, Continues
    <3>2. arg[c].id <= nwrites /\ arg[c].id \in Nat
      BY <1>0 DEF Numbered, Types
    <3> QED BY <1>1, <2>3, <3>1, <3>2
  <2> QED BY <2>1, <2>2, <2>3
<1>4. ASSUME NEW d \in Clients PROVE missing'[d] \subseteq 1..nwrites'
  <2>1. missing[d] \subseteq 1..nwrites
    BY DEF Numbered
  <2>2. 1..nwrites \subseteq 1..nwrites'
    BY <1>1
  <2>3. CASE d # c
    <3>1. missing'[d] = missing[d]
      BY <1>0, <2>3 DEF Calls
    <3> QED BY <2>1, <2>2, <3>1
  <2>4. CASE d = c
    <3>1. missing'[c] \subseteq missing[c] \/ (at[c] \in Files /\ missing'[c] \subseteq Live(at[c]))
      BY <1>0 DEF Calls
    <3>2. at[c] \in Files => Live(at[c]) \subseteq 1..nwrites
      BY DEF Numbered
    <3> QED BY <2>1, <2>2, <2>4, <3>1, <3>2
  <2> QED BY <2>3, <2>4
<1> QED BY <1>2, <1>3, <1>4 DEF Numbered

\* Truncated data does not come back.
LEMMA DidTruncation ==
    ASSUME Control, Numbered, NoFaults, NoResurrection, NEW c \in Clients, Did(c) PROVE NoResurrection'
<1>0. Types /\ Places /\ Data(c) /\ Calls(c) /\ Moves(c)
  BY DEF Control, Did
<1>1. SUFFICES ASSUME NEW f \in Files, \A d \in Clients : ~(at'[d] = f /\ op'[d] = "truncate"), NEW e \in Live(f)'
               PROVE  e \in s'.written[f] \/ \E d \in Clients : at'[d] = f /\ e = arg'[d].id
  BY DEF NoResurrection
<1>2. \A d \in Clients \ {c} : at'[d] = at[d] /\ op'[d] = op[d] /\ arg'[d] = arg[d]
  BY <1>0 DEF Moves, Stays
<1>3. CASE at[c] = f /\ op[c] = "truncate"
  <2>1. ~Continues(c)
    BY <1>1, <1>3 DEF Continues
  <2>2. Held(s', f) = {} /\ InFlight(f) = {}
    BY <1>0, <1>3, <2>1 DEF Data
  <2>3. Live(f)' = {}
    BY <1>0, <2>2, DidHeld DEF Live
  <2> QED BY <1>1, <2>3
<1>4. CASE ~(at[c] = f /\ op[c] = "truncate")
  <2>1. \A d \in Clients : ~(at[d] = f /\ op[d] = "truncate")
    BY <1>1, <1>2, <1>4
  <2>2. \A x \in Live(f) : x \in s.written[f] \/ \E d \in Clients : at[d] = f /\ x = arg[d].id
    BY <2>1 DEF NoResurrection
  <2>3. s.written[f] \subseteq s'.written[f]
    BY <1>0, <1>4, DidHeld DEF Data
  <2>4. ASSUME at[c] = f, op[c] = "write", e = arg[c].id PROVE e \in s'.written[f] \/ \E d \in Clients : at'[d] = f /\ e = arg'[d].id
    BY <1>0, <2>4 DEF Data, Continues
  <2>5. CASE e \in Live(f)
    <3>1. CASE e \in s.written[f]
      BY <2>3, <3>1
    <3>2. CASE \E d \in Clients : at[d] = f /\ e = arg[d].id
      <4>1. PICK d \in Clients : at[d] = f /\ e = arg[d].id
        BY <3>2
      <4>2. CASE d # c
        BY <1>2, <4>1, <4>2
      <4>3. CASE d = c
        <5>1. e \in 1..nwrites /\ nwrites \in Nat
          BY <1>0, <2>5 DEF Numbered, Types
        <5>2. e # 0
          BY <5>1
        <5>3. op[c] = "write"
          BY <1>0, <4>1, <4>3, <5>2 DEF Places, NoArg
        <5> QED BY <2>4, <4>1, <4>3, <5>3
      <4> QED BY <4>2, <4>3
    <3> QED BY <2>2, <2>5, <3>1, <3>2
  <2>6. CASE e \notin Live(f)
    <3>1. e \in Held(s', f) /\ e \notin Held(s, f)
      BY <1>0, <1>1, <2>6, DidHeld DEF Live
    <3>2. f = at[c]
      BY <1>0, <3>1, DidHeld
    <3>3. e \in Mine(c)
      BY <1>0, <3>1, <3>2 DEF Data
    <3> QED BY <2>4, <3>2, <3>3 DEF Mine
  <2> QED BY <2>5, <2>6
<1> QED BY <1>3, <1>4

\* What nobody wrote and nobody writes stays so.
LEMMA DidForgotten ==
    ASSUME Control, Numbered, NEW c \in Clients, Did(c), NEW f \in Files, NEW i \in 1..nwrites, Forgotten(f, i)
    PROVE  Forgotten(f, i)'
<1>0. Types /\ Places /\ Data(c) /\ Calls(c) /\ Moves(c)
  BY DEF Control, Did
<1>1. i \notin s.written[f] /\ \A d \in Clients : at[d] = f /\ op[d] = "write" => arg[d].id # i
  BY DEF Forgotten
<1>2. i \notin s'.written[f]
  <2>1. CASE f # at[c]
    BY <1>0, <1>1, <2>1, DidHeld
  <2>2. CASE f = at[c]
    BY <1>0, <1>1, <2>2 DEF Data, Mine
  <2> QED BY <2>1, <2>2
<1>3. ASSUME NEW d \in Clients, at'[d] = f, op'[d] = "write" PROVE arg'[d].id # i
  <2>1. CASE d # c
    BY <1>0, <1>1, <1>3, <2>1 DEF Moves, Stays
  <2>2. CASE d = c
    <3>1. (Continues(c) /\ op[c] = "write") \/ (nwrites' = nwrites + 1 /\ arg'[c].id = nwrites')
      BY <1>0, <1>3, <2>2 DEF Calls
    <3>2. nwrites \in Nat /\ i <= nwrites
      BY <1>0 DEF Types
    <3>3. CASE nwrites' = nwrites + 1 /\ arg'[c].id = nwrites'
      BY <2>2, <3>2, <3>3
    <3>4. CASE Continues(c) /\ op[c] = "write"
      BY <1>1, <1>3, <2>2, <3>4 DEF Continues
    <3> QED BY <3>1, <3>3, <3>4
  <2> QED BY <2>1, <2>2
<1> QED BY <1>2, <1>3 DEF Forgotten

\* What a read has still to find is on the tape, in flight, or gone.
LEMMA DidRead ==
    ASSUME Control, NoFaults, Numbered, ReadOK, NEW c \in Clients, Did(c) PROVE ReadOK'
<1>0. Types /\ Places /\ Data(c) /\ Calls(c) /\ Moves(c) /\ Locked(c) /\ Locks
  BY DEF Control, Did
<1>1. ASSUME NEW d \in Clients, NEW i \in missing'[d]
      PROVE  /\ pc'[d] = "read_tape" => i \in s'.tape[at'[d]] \cup InFlight(at[d]) \/ Forgotten(at[d], i)'
             /\ pc'[d] = "read_done" => Forgotten(at[d], i)'
             /\ pc'[d] \in {"read_tape", "read_done"} => at'[d] = at[d] /\ at[d] \in Files
  <2>1. CASE d = c
    <3>0. pc'[c] \in {"read_tape", "read_done"} => Continues(c)
      BY <1>0 DEF Calls
    <3>1. pc'[c] \in {"read_tape", "read_done"} => at'[c] = at[c] /\ at[c] \in Files
      BY <1>0, <3>0 DEF Continues, Moves, PlaceOK, OnFile, ReadHeld
    <3>2. CASE pc'[c] = "read_tape"
      BY <1>0, <1>1, <2>1, <3>1, <3>2 DEF Calls
    <3>3. CASE pc'[c] = "read_done"
      <4>1. pc[c] = "read_tape" /\ InFlight(at[c]) = {} /\ i \in missing[c] /\ i \notin s.tape[at[c]]
        BY <1>0, <1>1, <2>1, <3>3 DEF Calls
      <4>2. Forgotten(at[c], i)
        BY <4>1 DEF ReadOK
      <4>3. i \in 1..nwrites
        BY <4>1 DEF Numbered
      <4>4. Forgotten(at[c], i)'
        <5>1. at'[c] = at[c] /\ at[c] \in Files
          BY <3>1, <3>3
        <5> QED BY <4>2, <4>3, <5>1, DidForgotten
      <4> QED BY <2>1, <3>1, <3>3, <4>4
    <3> QED BY <2>1, <3>1, <3>2, <3>3
  <2>2. CASE d # c
    <3>1. pc'[d] = pc[d] /\ at'[d] = at[d] /\ i \in missing[d] /\ op'[d] = op[d]
      BY <1>0, <1>1, <2>2 DEF Moves, Stays, Calls
    <3>2. i \in 1..nwrites
      BY <3>1 DEF Numbered
    <3>3. SUFFICES ASSUME pc[d] \in {"read_tape", "read_done"}
                   PROVE  /\ at[d] \in Files
                          /\ pc[d] = "read_tape" => i \in s'.tape[at[d]] \cup InFlight(at[d]) \/ Forgotten(at[d], i)'
                          /\ pc[d] = "read_done" => Forgotten(at[d], i)'
      BY <3>1
    <3>4. at[d] \in Files
      BY <1>0, <3>3 DEF Places, OnFile, ReadHeld
    <3>5. CASE Forgotten(at[d], i)
      <4>1. Forgotten(at[d], i)'
        BY <1>0, <3>1, <3>2, <3>4, <3>5, DidForgotten
      <4> QED BY <3>4, <4>1
    <3>6. CASE ~Forgotten(at[d], i)
      <4>1. pc[d] = "read_tape" /\ i \in s.tape[at[d]] \cup InFlight(at[d])
        BY <3>1, <3>3, <3>6 DEF ReadOK
      <4>2. CASE at[d] # at[c]
        BY <3>4, <4>1, <4>2, <1>0, DidHeld
      <4>3. CASE at[d] = at[c]
        <5>1. iosched_lock[at[c]] = d
          BY <1>0, <3>4, <4>1, <4>3 DEF Locks, IoschedHeld, ReadHeld
        <5>2. pc[c] = "trunc_raw" \/ SameHeld(s, s')
          BY <1>0, <2>2, <3>4, <4>3, <5>1 DEF Locked
        <5>3. CASE SameHeld(s, s')
          BY <3>4, <4>1, <5>3 DEF SameHeld
        <5>4. CASE pc[c] = "trunc_raw"
          <6>1. op[c] = "truncate" /\ s.written[at[c]] = {}
            BY <5>4, <1>0, OpsOf DEF Places, Control, Between
          <6>2. i \notin s'.written[at[c]]
            BY <1>0, <3>4, <4>3, <6>1 DEF Data, Mine
          <6>3. ASSUME NEW e \in Clients, at'[e] = at[c], op'[e] = "write" PROVE arg'[e].id # i
            <7>1. e = c
              <8>1. SUFFICES ASSUME e # c PROVE FALSE
                OBVIOUS
              <8>2. at[e] = at[c] /\ op[e] = "write"
                BY <1>0, <6>3, <8>1 DEF Moves, Stays
              <8> QED BY <3>4, <4>3, <6>1, <8>1, <8>2 DEF Control, Serial
            <7>2. nwrites' = nwrites + 1 /\ arg'[c].id = nwrites'
              BY <1>0, <6>1, <6>3, <7>1 DEF Calls
            <7>3. nwrites \in Nat /\ i <= nwrites
              BY <1>0, <3>2 DEF Types
            <7> QED BY <7>1, <7>2, <7>3
          <6> QED BY <3>1, <3>4, <4>1, <4>3, <6>2, <6>3 DEF Forgotten
        <5> QED BY <5>2, <5>3, <5>4
      <4> QED BY <4>2, <4>3
    <3> QED BY <3>5, <3>6
  <2> QED BY <2>1, <2>2
<1>2. \A d \in Clients : at'[d] = at[d] => InFlight(at[d])' = InFlight(at[d])
  BY <1>0 DEF Moves, InFlight
<1>3. SUFFICES ASSUME NEW d \in Clients, NEW i \in missing'[d]
               PROVE  /\ pc'[d] = "read_tape" => i \in s'.tape[at'[d]] \cup InFlight(at[d])' \/ Forgotten(at[d], i)'
                      /\ pc'[d] = "read_done" => Forgotten(at[d], i)'
  BY DEF ReadOK
<1> QED BY <1>1, <1>2, <1>3

\* A call is under way only while the mount is alive.
LEMMA BusyAlive == ASSUME Control, Exact, NEW c \in Clients, pc[c] # "idle" PROVE keepalive /\ Sound(s)
<1>1. keepalive
  BY DEF Control, Shutdown, Types
<1> QED BY <1>1, AliveSound

\* A step that changes no file.
LEMMA QuietSteady ==
    ASSUME Control, Exact, keepalive, NEW c \in Clients, OnlyFree(s, s'), op[c] \in {"write", "truncate"} => Continues(c)
    PROVE  Steady(c) /\ Locked(c) /\ Data(c) /\ Sound(s')
<1>1. Sound(s)
  BY AliveSound
<1>2. Sound(s') /\ \A g : Held(s', g) = Held(s, g)
  BY <1>1, OnlyFreeSound
<1>3. s'.dpr = s.dpr /\ s'.ext_queue = s.ext_queue /\ s'.tape = s.tape /\ s'.written = s.written
  BY DEF OnlyFree
<1>4. Steady(c)
  BY <1>2, <1>3 DEF Steady, AltOK
<1>5. Locked(c)
  BY <1>3 DEF Locked, SameHeld
<1>6. Data(c)
  BY <1>2, <1>3 DEF Data
<1> QED BY <1>2, <1>4, <1>5, <1>6

\* Nothing changes at all.
LEMMA SameFree == ASSUME s \in State, s' = s PROVE OnlyFree(s, s')
BY DEF OnlyFree, DriveSame

Leavable == ReadHeld \cup WriteHeld \cup {"trunc_raw"}

\* The common exit releases the locks of the call.
LEMMA LeaveMoves ==
    ASSUME Control, NEW c \in Clients, pc[c] \in Leavable, Leave(c), UNCHANGED <<io_lock, w>>
    PROVE  Moves(c) /\ pc'[c] \in {"idle", "return"} /\ op'[c] \notin {"write", "truncate"} /\ missing'[c] = {}
           /\ arg'[c] = NoArg
<1>0. Types /\ Places /\ Locks
  BY DEF Control
<1>1. /\ held \in [Threads -> {"none", "read", "write"}] /\ pc \in [Clients -> Points] /\ at \in [Clients -> Files \cup {None}]
      /\ op \in [Clients -> FileOps \cup {"none", "flush_all"}]
      /\ arg \in [Clients -> [n : 0..2, id : Nat, off : Nat]] /\ missing \in [Clients -> SUBSET Pos]
      /\ iosched_lock \in [Files -> Clients \cup {None}]
  BY <1>0 DEF Types
<1>2. c \in Threads /\ Writer \in Threads /\ c # Writer /\ Clients \subseteq Threads /\ None \notin Files
  BY ThreadsOK DEF Threads, Writer
<1> DEFINE more == op[c] \in {"close", "rename", "unlink"}
<1>3. /\ held'[c] = "none" /\ held'[Writer] = held[Writer] /\ arg'[c] = NoArg /\ missing'[c] = {}
      /\ \A d \in Clients \ {c} : held'[d] = held[d] /\ arg'[d] = arg[d]
  BY <1>1, <1>2 DEF Leave
<1>4. /\ pc'[c] = IF more THEN "return" ELSE "idle"
      /\ \A d \in Clients \ {c} : pc'[d] = pc[d] /\ op'[d] = op[d] /\ at'[d] = at[d]
      /\ op'[c] = IF more THEN op[c] ELSE "none"
      /\ at'[c] = IF more THEN at[c] ELSE None
  BY <1>1 DEF Leave, Goto
<1>5. more => at[c] \in Files
  <2>1. more => pc[c] \notin WriteHeld
    BY <1>0, OpsOf DEF Places, WriteHeld
  <2>2. pc[c] \in OnFile \/ pc[c] \in WriteHeld
    BY DEF Leavable, OnFile
  <2> QED BY <1>0, <2>1, <2>2 DEF Places
<1>6. PlaceOK(pc'[c], op'[c], at'[c], arg'[c])
  <2>1. CASE more
    BY <1>0, <1>3, <1>4, <1>5, <2>1, OpsOf DEF PlaceOK, Places, OnFile
  <2>2. CASE ~more
    <3>1. "idle" \notin OnFile
      BY DEF OnFile, ReadHeld
    <3> QED BY <1>2, <1>3, <1>4, <2>2, <3>1, OpsOf DEF PlaceOK
  <2> QED BY <2>1, <2>2
<1>7. pc'[c] \in {"idle", "return"} /\ LockOf(pc'[c]) = "none" /\ pc'[c] \notin IoschedHeld
  BY <1>4 DEF LockOf, ReadHeld, WriteHeld, IoschedHeld
<1>8. LocksTaken(c)
  <2>1. iosched_lock' = [f \in Files |-> IF iosched_lock[f] = c THEN None ELSE iosched_lock[f]]
    BY DEF Leave
  <2> QED BY <1>3, <1>7, <2>1 DEF LocksTaken
<1>9. Stays(c)
  BY <1>3, <1>4 DEF Stays
<1>10. op'[c] \notin {"write", "truncate"}
  BY <1>4
<1> QED BY <1>3, <1>6, <1>7, <1>8, <1>9, <1>10 DEF Moves, Serially

\* It keeps the types.
LEMMA LeaveTypes ==
    ASSUME Types, NEW c \in Clients, Leave(c), UNCHANGED <<io_lock, dentry, keepalive, cache_requests, open, w, bounds>>,
           spare' \in [Clients -> BOOLEAN], dirty' \in [Clients -> SUBSET Files], s' \in State
    PROVE  Types'
<1>1. Threads = Clients \cup {Writer}
  BY DEF Threads
<1>2. held' \in [Threads -> {"none", "read", "write"}]
  BY DEF Types, Leave
<1>3. iosched_lock' \in [Files -> Clients \cup {None}]
  BY DEF Types, Leave
<1>4. pc' \in [Clients -> Points]
  BY DEF Types, Leave, Goto, Points, OnFile
<1>5. op' \in [Clients -> FileOps \cup {"none", "flush_all"}] /\ at' \in [Clients -> Files \cup {None}]
  BY DEF Types, Leave
<1>6. arg' \in [Clients -> [n : 0..2, id : Nat, off : Nat]] /\ missing' \in [Clients -> SUBSET Pos]
  BY DEF Types, Leave, NoArg
<1>7. nwrites' = nwrites /\ nchanges' = nchanges
  BY DEF bounds
<1> QED BY <1>2, <1>3, <1>4, <1>5, <1>6, <1>7 DEF Types

\* A step that ends with the common exit.
LEMMA LeaveDid ==
    ASSUME Control, Exact, NEW c \in Clients, pc[c] \in Leavable, Leave(c),
           UNCHANGED <<io_lock, dentry, keepalive, cache_requests, open, w, bounds>>,
           spare' \in [Clients -> BOOLEAN], dirty' \in [Clients -> SUBSET Files],
           Steady(c), Locked(c), Data(c)
    PROVE  Did(c)
<1>1. /\ Moves(c) /\ pc'[c] \in {"idle", "return"} /\ op'[c] \notin {"write", "truncate"} /\ missing'[c] = {}
  BY LeaveMoves
<1>2. Types'
  <2>1. s' \in State
    BY DEF Steady, Sound
  <2> QED BY <2>1, LeaveTypes DEF Control
<1>3. pc[c] # "idle" /\ pc[c] \notin WaitPoints /\ pc'[c] \notin WaitPoints
  BY <1>1 DEF Leavable, ReadHeld, WriteHeld, WaitPoints
<1>4. keepalive /\ keepalive' = keepalive
  BY <1>3, BusyAlive
<1>5. BetweenAt(s', pc'[c], at'[c])
  BY <1>1 DEF BetweenAt
<1>6. Calls(c)
  <2>1. nwrites' = nwrites
    BY DEF bounds
  <2>2. \A d \in Clients \ {c} : missing'[d] = missing[d]
    BY DEF Leave, Control, Types
  <2> QED BY <1>1, <2>1, <2>2 DEF Calls
<1>7. Waits(c)
  <2>1. cache_requests' = cache_requests /\ cache_requests \in Nat
    BY DEF Control, Types
  <2> QED BY <1>3, <2>1 DEF Waits
<1> QED BY <1>1, <1>2, <1>4, <1>5, <1>6, <1>7 DEF Did

\* A step that changes no file.
LEMMA QuietDid ==
    ASSUME Control, Exact, keepalive, keepalive' = keepalive, NEW c \in Clients, Types', Moves(c), OnlyFree(s, s'),
           op[c] \in {"write", "truncate"} => Continues(c), BetweenAt(s', pc'[c], at'[c]), Calls(c), Waits(c)
    PROVE  Did(c)
<1>1. Steady(c) /\ Locked(c) /\ Data(c)
  BY QuietSteady
<1> QED BY <1>1 DEF Did

\* A call that ends without changing a file.
LEMMA QuietLeave ==
    ASSUME Control, Exact, NEW c \in Clients, pc[c] \in Leavable, op[c] \notin {"write", "truncate"}, Leave(c),
           UNCHANGED <<io_lock, s, dentry, cache_requests, keepalive, spare, handles, w, bounds>>
    PROVE  Did(c)
<1>1. keepalive
  <2>1. pc[c] # "idle"
    BY DEF Leavable, ReadHeld, WriteHeld
  <2> QED BY <2>1, BusyAlive
<1>2. OnlyFree(s, s')
  BY SameFree DEF Control, Types
<1>3. Steady(c) /\ Locked(c) /\ Data(c)
  BY <1>1, <1>2, QuietSteady
<1>4. UNCHANGED <<io_lock, dentry, keepalive, cache_requests, open, w, bounds>> /\ spare' \in [Clients -> BOOLEAN]
      /\ dirty' \in [Clients -> SUBSET Files]
  BY DEF handles, Control, Types
<1> QED BY <1>3, <1>4, LeaveDid

\* unified_flush returns.
LEMMA FlushReturnDid == ASSUME Control, Exact, NEW c \in Clients, FlushReturn(c) PROVE Did(c)
<1>1. pc[c] \in Leavable /\ op[c] \notin {"write", "truncate"}
  BY DEF FlushReturn, Leavable, ReadHeld
<1> QED BY <1>1, QuietLeave DEF FlushReturn

\* _unified_flush_all has released the write lock.
LEMMA FlushAllReturnDid == ASSUME Control, Exact, NEW c \in Clients, FlushAllReturn(c) PROVE Did(c)
<1>1. pc[c] \in Leavable /\ op[c] \notin {"write", "truncate"}
  BY OpsOf DEF FlushAllReturn, Leavable, WriteHeld, Control, Places
<1> QED BY <1>1, QuietLeave DEF FlushAllReturn

\* unified_read returns.
LEMMA ReadReturnDid == ASSUME Control, Exact, NEW c \in Clients, ReadReturn(c) PROVE Did(c)
<1>1. pc[c] \in Leavable /\ op[c] \notin {"write", "truncate"}
  BY OpsOf DEF ReadReturn, Leavable, ReadHeld, Control, Places
<1> QED BY <1>1, QuietLeave DEF ReadReturn

\* A step that takes and releases no lock.
LEMMA StayLocked ==
    ASSUME Locks, NEW c \in Clients, UNCHANGED <<held, iosched_lock>>, LockOf(pc'[c]) = LockOf(pc[c]),
           pc'[c] \in IoschedHeld <=> pc[c] \in IoschedHeld, pc[c] \in IoschedHeld => at'[c] = at[c] /\ at[c] \in Files
    PROVE  LocksTaken(c)
<1>1. held[c] = LockOf(pc[c]) /\ \A g \in Files : iosched_lock[g] = c <=> at[c] = g /\ pc[c] \in IoschedHeld
  BY DEF Locks, LockOf
<1> QED BY <1>1 DEF LocksTaken

\* A client without a call has no file.
LEMMA IdleAt ==
    ASSUME Control, NEW c \in Clients, pc[c] = "idle"
    PROVE  at[c] = None /\ op[c] = "none" /\ at[c] \notin Files /\ arg[c] = NoArg
<1>1. "idle" \notin OnFile
  BY DEF OnFile, ReadHeld
<1> QED BY <1>1, OpsOf DEF Control, Places, Types

\* Opening a file.
LEMMA OpenDid == ASSUME Control, Exact, NEW c \in Clients, NEW f \in Files, Open(c, f) PROVE Did(c)
<1>0. Types /\ Places /\ Locks
  BY DEF Control
<1>1. /\ pc' = pc /\ op' = op /\ at' = at /\ arg' = arg /\ held' = held /\ iosched_lock' = iosched_lock /\ io_lock' = io_lock
      /\ w' = w /\ s' = s /\ missing' = missing /\ nwrites' = nwrites /\ nchanges' = nchanges /\ spare' = spare /\ dirty' = dirty
      /\ cache_requests' = cache_requests /\ dentry' = dentry /\ keepalive' = keepalive
  BY DEF Open, locks, calls, bounds
<1>2. pc[c] = "idle" /\ keepalive
  BY DEF Open
<1>3. at[c] = None /\ op[c] = "none" /\ at[c] \notin Files
  BY <1>2, IdleAt
<1>4. Types'
  <2>1. open' \in [Clients -> SUBSET Files]
    BY <1>0 DEF Open, Types
  <2> QED BY <1>0, <1>1, <2>1 DEF Types
<1>5. LocksTaken(c)
  <2>1. pc[c] \notin IoschedHeld
    BY <1>2 DEF IoschedHeld, ReadHeld
  <2> QED BY <1>0, <1>1, <2>1, StayLocked
<1>6. Moves(c)
  <2>1. PlaceOK(pc'[c], op'[c], at'[c], arg'[c])
    BY <1>0, <1>1, PlacesAt
  <2> QED BY <1>1, <1>3, <1>5, <2>1 DEF Moves, Stays, Serially
<1>7. BetweenAt(s', pc'[c], at'[c]) /\ Calls(c) /\ Waits(c)
  <2>1. cache_requests \in Nat
    BY <1>0 DEF Types
  <2> QED BY <1>1, <1>2, <1>3, <2>1 DEF BetweenAt, Calls, Waits, WaitPoints
<1>8. OnlyFree(s, s')
  BY <1>0, <1>1, SameFree DEF Types
<1> QED BY <1>1, <1>2, <1>3, <1>4, <1>6, <1>7, <1>8, QuietDid

\* A call begins.
LEMMA CallDid ==
    ASSUME Control, Exact, NEW c \in Clients, NEW o, NEW f \in Files \cup {None}, NEW p \in {"lock", "flush_all"}, Call(c, o, f, p),
           o \in OpsAt(p), p = "lock" <=> f \in Files, o # "write" => arg'[c] = NoArg,
           o = "write" => arg'[c].n > 0 /\ arg'[c].id = nwrites + 1 /\ nwrites' = nwrites + 1,
           arg' \in [Clients -> [n : 0..2, id : Nat, off : Nat]], \A d \in Clients \ {c} : arg'[d] = arg[d],
           dentry' \in [Files -> [linked : BOOLEAN, matches : BOOLEAN]], nwrites' \in {nwrites, nwrites + 1}, nchanges' \in Nat,
           o \in {"write", "truncate"} => Serialised(f)
    PROVE  Did(c)
<1>0. Types /\ Places /\ Locks /\ nwrites \in Nat
  BY DEF Control, Types
<1>1. /\ held' = held /\ iosched_lock' = iosched_lock /\ io_lock' = io_lock /\ open' = open /\ dirty' = dirty
      /\ w' = w /\ s' = s /\ missing' = missing /\ spare' = spare /\ cache_requests' = cache_requests /\ keepalive' = keepalive
  BY DEF Call, locks, handles
<1>2. pc[c] = "idle" /\ keepalive /\ o \in Ops
  BY DEF Call
<1>3. at[c] = None /\ op[c] = "none" /\ at[c] \notin Files
  BY <1>2, IdleAt
<1>4. /\ pc' = [pc EXCEPT ![c] = p] /\ op' = [op EXCEPT ![c] = o] /\ at' = [at EXCEPT ![c] = f]
  BY DEF Call, Goto
<1>5. /\ pc \in [Clients -> Points] /\ at \in [Clients -> Files \cup {None}]
      /\ op \in [Clients -> FileOps \cup {"none", "flush_all"}]
  BY <1>0 DEF Types
<1>6. o \in FileOps \cup {"none", "flush_all"} /\ p \in Points /\ o # "none"
  BY OpsOf DEF FileOps, Points, OnFile
<1>7. Types'
  BY <1>0, <1>1, <1>4, <1>5, <1>6 DEF Types
<1>8. pc'[c] = p /\ op'[c] = o /\ at'[c] = f /\ \A d \in Clients \ {c} : pc'[d] = pc[d] /\ op'[d] = op[d] /\ at'[d] = at[d]
  BY <1>4, <1>5
<1>9. LocksTaken(c)
  <2>1. pc[c] \notin IoschedHeld /\ p \notin IoschedHeld /\ LockOf(p) = "none" /\ LockOf(pc[c]) = "none"
    BY <1>2 DEF IoschedHeld, ReadHeld, LockOf, WriteHeld
  <2> QED BY <1>0, <1>1, <1>8, <2>1, StayLocked
<1>10. PlaceOK(p, o, f, arg'[c])
  <2>1. p \in OnFile <=> p = "lock"
    BY DEF OnFile, ReadHeld
  <2>2. o = "write" => arg'[c].id > 0
    BY <1>0
  <2> QED BY <1>2, <2>1, <2>2 DEF PlaceOK
<1>11. Moves(c)
  BY <1>1, <1>8, <1>9, <1>10 DEF Moves, Stays, Serially
<1>12. BetweenAt(s', pc'[c], at'[c]) /\ Waits(c)
  <2>1. cache_requests \in Nat
    BY <1>0 DEF Types
  <2> QED BY <1>1, <1>2, <1>8, <2>1 DEF BetweenAt, Waits, WaitPoints
<1>13. Calls(c)
  BY <1>1, <1>8 DEF Calls
<1>14. OnlyFree(s, s')
  BY <1>0, <1>1, SameFree DEF Types
<1> QED BY <1>1, <1>2, <1>3, <1>7, <1>11, <1>12, <1>13, <1>14, QuietDid

\* A call that is not a write begins.
LEMMA CallPlainDid ==
    ASSUME Control, Exact, NEW c \in Clients, NEW o, NEW f \in Files \cup {None}, NEW p \in {"lock", "flush_all"}, Call(c, o, f, p),
           o \in OpsAt(p), p = "lock" <=> f \in Files, o # "write", arg' = arg, nwrites' = nwrites, nchanges' \in Nat,
           dentry' \in [Files -> [linked : BOOLEAN, matches : BOOLEAN]], o = "truncate" => Serialised(f)
    PROVE  Did(c)
<1>1. arg' \in [Clients -> [n : 0..2, id : Nat, off : Nat]]
  BY DEF Control, Types
<1>2. arg'[c] = NoArg
  <2>1. pc[c] = "idle"
    BY DEF Call
  <2> QED BY <2>1, IdleAt
<1> QED BY <1>1, <1>2, CallDid

\* A write begins: it gets the next number.
LEMMA CallWriteDid == ASSUME Control, Exact, NEW c \in Clients, NEW f \in Files, NEW n \in Sizes, CallWrite(c, f, n) PROVE Did(c)
<1>0. Types /\ nwrites \in Nat /\ n \in 1..2
  BY SizesOK DEF Control, Types
<1>1. pc[c] = "idle" /\ keepalive
  BY DEF CallWrite, Call
<1>2. GetFilesize(f) \in Nat
  BY <1>0, StateFields, DprFields DEF GetFilesize, Types
<1> DEFINE a == [n |-> n, id |-> nwrites + 1, off |-> GetFilesize(f)]
<1>3. a \in [n : 0..2, id : Nat, off : Nat] /\ a.n > 0 /\ a.id = nwrites + 1
  BY <1>0, <1>2
<1>4. arg' = [arg EXCEPT ![c] = a] /\ nwrites' = nwrites + 1 /\ dentry' = dentry /\ nchanges' = nchanges /\ Serialised(f)
      /\ Call(c, "write", f, "lock")
  BY DEF CallWrite
<1> HIDE DEF a
<1>5. arg' \in [Clients -> [n : 0..2, id : Nat, off : Nat]] /\ arg'[c] = a /\ \A d \in Clients \ {c} : arg'[d] = arg[d]
  BY <1>0, <1>3, <1>4 DEF Types
<1>6. dentry' \in [Files -> [linked : BOOLEAN, matches : BOOLEAN]] /\ nchanges' \in Nat
  BY <1>0, <1>4 DEF Types
<1>7. "write" \in OpsAt("lock")
  BY OpsOf DEF FileOps
<1> QED BY <1>3, <1>4, <1>5, <1>6, <1>7, CallDid

\* The other calls on a file begin.
LEMMA CallDids ==
    ASSUME Control, Exact, NEW c \in Clients, NEW f \in Files,
           CallRead(c, f) \/ CallFlush(c, f) \/ CallClose(c, f) \/ CallTruncate(c, f) \/ CallRename(c, f) \/ CallUnlink(c, f)
    PROVE  Did(c)
<1>1. /\ dentry \in [Files -> [linked : BOOLEAN, matches : BOOLEAN]] /\ nchanges \in Nat
  BY DEF Control, Types
<1>2. \A o \in FileOps : o \in OpsAt("lock")
  BY OpsOf
<1>3. CASE CallRead(c, f)
  <2>1. Call(c, "read", f, "lock") /\ dentry' = dentry /\ arg' = arg /\ nwrites' = nwrites /\ nchanges' = nchanges
    BY <1>3 DEF CallRead, bounds
  <2> QED BY <1>1, <1>2, <2>1, CallPlainDid DEF FileOps
<1>4. CASE CallFlush(c, f)
  <2>1. Call(c, "flush", f, "lock") /\ dentry' = dentry /\ arg' = arg /\ nwrites' = nwrites /\ nchanges' = nchanges
    BY <1>4 DEF CallFlush, bounds
  <2> QED BY <1>1, <1>2, <2>1, CallPlainDid DEF FileOps
<1>5. CASE CallClose(c, f)
  <2>1. Call(c, "close", f, "lock") /\ dentry' = dentry /\ arg' = arg /\ nwrites' = nwrites /\ nchanges' = nchanges
    BY <1>5 DEF CallClose, bounds
  <2> QED BY <1>1, <1>2, <2>1, CallPlainDid DEF FileOps
<1>6. CASE CallTruncate(c, f)
  <2>1. Call(c, "truncate", f, "lock") /\ dentry' = dentry /\ arg' = arg /\ nwrites' = nwrites /\ nchanges' \in Nat /\ Serialised(f)
    BY <1>1, <1>6 DEF CallTruncate, Change
  <2> QED BY <1>1, <1>2, <2>1, CallPlainDid DEF FileOps
<1>7. CASE CallRename(c, f)
  <2>1. Call(c, "rename", f, "lock") /\ arg' = arg /\ nwrites' = nwrites /\ nchanges' \in Nat
    BY <1>1, <1>7 DEF CallRename, Change
  <2>2. dentry' \in [Files -> [linked : BOOLEAN, matches : BOOLEAN]]
    BY <1>1, <1>7 DEF CallRename
  <2> QED BY <1>1, <1>2, <2>1, <2>2, CallPlainDid DEF FileOps
<1>8. CASE CallUnlink(c, f)
  <2>1. Call(c, "unlink", f, "lock") /\ arg' = arg /\ nwrites' = nwrites /\ nchanges' \in Nat
    BY <1>1, <1>8 DEF CallUnlink, Change
  <2>2. dentry' \in [Files -> [linked : BOOLEAN, matches : BOOLEAN]]
    BY <1>1, <1>8 DEF CallUnlink
  <2> QED BY <1>1, <1>2, <2>1, <2>2, CallPlainDid DEF FileOps
<1> QED BY <1>3, <1>4, <1>5, <1>6, <1>7, <1>8

\* A flush of all files begins.
LEMMA CallFlushAllDid == ASSUME Control, Exact, NEW c \in Clients, CallFlushAll(c) PROVE Did(c)
<1>1. /\ dentry \in [Files -> [linked : BOOLEAN, matches : BOOLEAN]] /\ nchanges \in Nat
  BY DEF Control, Types
<1>2. "flush_all" \in OpsAt("flush_all") /\ None \notin Files
  BY OpsOf, ThreadsOK
<1>3. Call(c, "flush_all", None, "flush_all") /\ dentry' = dentry /\ arg' = arg /\ nwrites' = nwrites /\ nchanges' = nchanges
  BY DEF CallFlushAll, bounds
<1> QED BY <1>1, <1>2, <1>3, CallPlainDid

\* A client goes on to another point of the same call.
GoTypes ==
    /\ held' \in [Threads -> {"none", "read", "write"}] /\ iosched_lock' \in [Files -> Clients \cup {None}]
    /\ cache_requests' \in Nat /\ spare' \in [Clients -> BOOLEAN] /\ dirty' \in [Clients -> SUBSET Files]
    /\ missing' \in [Clients -> SUBSET Pos]
GoSame == UNCHANGED <<io_lock, dentry, keepalive, op, at, arg, open, w, bounds>>

\* A step that goes on to point p.
LEMMA GoDid ==
    ASSUME Control, Exact, NEW c \in Clients, pc[c] # "idle", NEW p \in Points, Goto(c, p), GoSame, GoTypes,
           op[c] \in OpsAt(p), p \in OnFile <=> at[c] \in Files, \A t \in Threads \ {c} : held'[t] = held[t],
           LocksTaken(c), Waits(c), BetweenAt(s', p, at[c]), Calls(c), Steady(c), Locked(c), Data(c)
    PROVE  Did(c)
<1>0. Types /\ Places /\ keepalive
  BY BusyAlive DEF Control
<1>1. /\ io_lock' = io_lock /\ dentry' = dentry /\ keepalive' = keepalive /\ op' = op /\ at' = at /\ arg' = arg /\ open' = open
      /\ w' = w /\ nwrites' = nwrites /\ nchanges' = nchanges
  BY DEF GoSame, bounds
<1>2. pc' \in [Clients -> Points] /\ pc'[c] = p /\ \A d \in Clients \ {c} : pc'[d] = pc[d]
  BY <1>0 DEF Types, Goto
<1>3. Types'
  <2>1. s' \in State
    BY DEF Steady, Sound
  <2> QED BY <1>0, <1>1, <1>2, <2>1 DEF Types, GoTypes
<1>4. Writer \in Threads \ {c} /\ \A d \in Clients \ {c} : d \in Threads \ {c}
  BY ThreadsOK DEF Threads, Writer
<1>5. PlaceOK(pc'[c], op'[c], at'[c], arg'[c])
  BY <1>0, <1>1, <1>2 DEF PlaceOK, Places
<1>6. Moves(c)
  BY <1>1, <1>2, <1>4, <1>5 DEF Moves, Stays, Serially
<1> QED BY <1>0, <1>1, <1>2, <1>3, <1>6 DEF Did

\* One that changes no file.
LEMMA QuietGo ==
    ASSUME Control, Exact, NEW c \in Clients, pc[c] # "idle", NEW p \in Points, Goto(c, p), GoSame, GoTypes, OnlyFree(s, s'),
           op[c] \in OpsAt(p), p \in OnFile <=> at[c] \in Files, \A t \in Threads \ {c} : held'[t] = held[t],
           LocksTaken(c), Waits(c), BetweenAt(s', p, at[c]), Calls(c)
    PROVE  Did(c)
<1>1. Continues(c)
  BY DEF GoSame, Continues
<1>2. Steady(c) /\ Locked(c) /\ Data(c)
  BY <1>1, QuietSteady, BusyAlive
<1> QED BY <1>2, GoDid

\* The client is at p.
LEMMA GotoAt == ASSUME Types, NEW c \in Clients, NEW p, Goto(c, p) PROVE pc'[c] = p
BY DEF Goto, Types

\* Nothing is missing that was not missing before.
LEMMA CallsPlain ==
    ASSUME NEW c \in Clients, pc'[c] \notin {"read_tape", "read_done"}, GoSame, missing' = missing PROVE Calls(c)
BY DEF Calls, GoSame, Continues, bounds

\* A call takes unified_data.lock to read.
LEMMA AcquireReadDid == ASSUME Control, Exact, NEW c \in Clients, AcquireRead(c) PROVE Did(c)
<1>0. Types /\ Places /\ Locks /\ pc[c] = "lock" /\ Goto(c, "iosched") /\ pc[c] # "idle"
  BY DEF Control, AcquireRead
<1>1. GoSame /\ s' = s /\ iosched_lock' = iosched_lock /\ cache_requests' = cache_requests /\ missing' = missing
      /\ held' = [held EXCEPT ![c] = "read"] /\ ReadLockFree
  BY DEF AcquireRead, GoSame, handles
<1>2. c \in Threads
  BY DEF Threads
<1>3. held'[c] = "read" /\ (\A t \in Threads \ {c} : held'[t] = held[t]) /\ held' \in [Threads -> {"none", "read", "write"}]
  BY <1>0, <1>1, <1>2 DEF Types
<1>4. GoTypes
  BY <1>0, <1>1, <1>3 DEF GoTypes, AcquireRead, Types, handles
<1>5. pc'[c] = "iosched"
  BY <1>0, GotoAt
<1>6. at[c] \in Files /\ "iosched" \in OnFile /\ op[c] \in OpsAt("iosched") /\ "iosched" \in Points
  BY <1>0, OpsOf DEF Places, OnFile, ReadHeld, Points
<1>7. LocksTaken(c)
  <2>1. LockOf("iosched") = "read" /\ "iosched" \notin IoschedHeld /\ pc[c] \notin IoschedHeld
    BY <1>0 DEF LockOf, ReadHeld, IoschedHeld
  <2>2. \A g \in Files : iosched_lock[g] # c
    BY <1>0, <2>1 DEF Locks
  <2> QED BY <1>1, <1>3, <1>5, <2>1, <2>2 DEF LocksTaken
<1>8. Waits(c) /\ BetweenAt(s', "iosched", at[c])
  <2>1. cache_requests \in Nat
    BY <1>0 DEF Types
  <2> QED BY <1>0, <1>1, <1>5, <2>1 DEF Waits, WaitPoints, BetweenAt
<1>9. Calls(c)
  BY <1>1, <1>5, CallsPlain
<1>10. OnlyFree(s, s')
  BY <1>0, <1>1, SameFree DEF Types
<1> QED BY <1>0, <1>1, <1>3, <1>4, <1>6, <1>7, <1>8, <1>9, <1>10, QuietGo

\* A waiting call is counted.
LEMMA WaitersPositive == ASSUME Control, NEW c \in Clients, pc[c] \in WaitPoints PROVE cache_requests \in Nat /\ cache_requests - 1 \in Nat
<1> DEFINE S == {d \in Clients : pc[d] \in {"wait", "relock"}}
<1>1. IsFiniteSet(S) /\ c \in S
  BY ThreadsOK, FS_Subset DEF WaitPoints
<1>2. Cardinality(S) \in Nat /\ Cardinality(S) # 0
  BY <1>1, FS_CardinalityType, FS_EmptySet
<1>3. cache_requests = Cardinality(S)
  BY DEF Control, Waiting
<1> QED BY <1>2, <1>3

\* A call that waited for a block takes the lock again.
LEMMA RelockDid == ASSUME Control, Exact, NEW c \in Clients, Relock(c) PROVE Did(c)
<1>0. Types /\ Places /\ Locks /\ pc[c] = "relock" /\ Goto(c, "iosched") /\ pc[c] # "idle"
  BY DEF Control, Relock
<1>1. GoSame /\ s' = s /\ iosched_lock' = iosched_lock /\ cache_requests' = cache_requests - 1 /\ missing' = missing
      /\ held' = [held EXCEPT ![c] = "read"] /\ ReadLockFree
  BY DEF Relock, GoSame, handles
<1>2. c \in Threads
  BY DEF Threads
<1>3. held'[c] = "read" /\ (\A t \in Threads \ {c} : held'[t] = held[t]) /\ held' \in [Threads -> {"none", "read", "write"}]
  BY <1>0, <1>1, <1>2 DEF Types
<1>31. cache_requests \in Nat /\ cache_requests' \in Nat
  BY <1>0, <1>1, WaitersPositive DEF WaitPoints
<1>4. GoTypes
  BY <1>0, <1>1, <1>3, <1>31 DEF GoTypes, Relock, Types, handles
<1>5. pc'[c] = "iosched"
  BY <1>0, GotoAt
<1>6. at[c] \in Files /\ "iosched" \in OnFile /\ op[c] \in OpsAt("iosched") /\ "iosched" \in Points
  <2>1. op[c] = "write"
    BY <1>0, OpsOf DEF Places
  <2> QED BY <1>0, <2>1, OpsOf DEF Places, OnFile, ReadHeld, Points, FileOps
<1>7. LocksTaken(c)
  <2>1. LockOf("iosched") = "read" /\ "iosched" \notin IoschedHeld /\ pc[c] \notin IoschedHeld
    BY <1>0 DEF LockOf, ReadHeld, IoschedHeld
  <2>2. \A g \in Files : iosched_lock[g] # c
    BY <1>0, <2>1 DEF Locks
  <2> QED BY <1>1, <1>3, <1>5, <2>1, <2>2 DEF LocksTaken
<1>8. Waits(c) /\ BetweenAt(s', "iosched", at[c])
  BY <1>0, <1>1, <1>5, <1>31 DEF Waits, WaitPoints, BetweenAt
<1>9. Calls(c)
  BY <1>1, <1>5, CallsPlain
<1>10. OnlyFree(s, s')
  BY <1>0, <1>1, SameFree DEF Types
<1> QED BY <1>0, <1>1, <1>3, <1>4, <1>6, <1>7, <1>8, <1>9, <1>10, QuietGo

\* A call that waits gets a block.
LEMMA WakeWithBlockDid == ASSUME Control, Exact, NEW c \in Clients, WakeWithBlock(c) PROVE Did(c)
<1>0. Types /\ Places /\ Locks /\ pc[c] = "wait" /\ Goto(c, "relock") /\ pc[c] # "idle"
  BY DEF Control, WakeWithBlock
<1>1. GoSame /\ iosched_lock' = iosched_lock /\ cache_requests' = cache_requests /\ missing' = missing
      /\ held' = held /\ s' = [s EXCEPT !.free = @ - 1] /\ s.free > 0
  BY DEF WakeWithBlock, GoSame, handles, locks
<1>4. GoTypes
  BY <1>0, <1>1 DEF GoTypes, WakeWithBlock, Types, handles
<1>5. pc'[c] = "relock"
  BY <1>0, GotoAt
<1>6. at[c] \in Files /\ "relock" \in OnFile /\ op[c] \in OpsAt("relock") /\ "relock" \in Points
  BY <1>0, OpsOf DEF Places, OnFile, Points
<1>7. LocksTaken(c)
  <2>1. LockOf("relock") = "none" /\ LockOf("wait") = "none" /\ "relock" \notin IoschedHeld /\ pc[c] \notin IoschedHeld
    BY <1>0 DEF LockOf, ReadHeld, WriteHeld, IoschedHeld
  <2> QED BY <1>0, <1>1, <1>5, <2>1, StayLocked
<1>8. Waits(c) /\ BetweenAt(s', "relock", at[c])
  <2>1. cache_requests \in Nat
    BY <1>0 DEF Types
  <2> QED BY <1>0, <1>1, <1>5, <2>1 DEF Waits, WaitPoints, BetweenAt
<1>9. Calls(c)
  BY <1>1, <1>5, CallsPlain
<1>10. OnlyFree(s, s')
  BY <1>0, <1>1, TakeBlockIs DEF Types
<1> QED BY <1>0, <1>1, <1>4, <1>6, <1>7, <1>8, <1>9, <1>10, QuietGo

\* A call takes iosched_lock of its file.
LEMMA LockIoschedDid == ASSUME Control, Exact, NEW c \in Clients, LockIosched(c) PROVE Did(c)
<1> DEFINE p == CASE op[c] = "close" -> IF at[c] \in dirty[c] THEN "flush" ELSE "free"
                 [] op[c] \in {"rename", "unlink"} -> "placement"
                 [] OTHER -> op[c]
<1>0. Types /\ Places /\ Locks /\ pc[c] = "iosched" /\ Goto(c, p) /\ pc[c] # "idle"
  BY DEF Control, LockIosched
<1>1. GoSame /\ s' = s /\ held' = held /\ cache_requests' = cache_requests /\ missing' = missing
      /\ iosched_lock' = [iosched_lock EXCEPT ![at[c]] = c] /\ iosched_lock[at[c]] = None
  BY DEF LockIosched, GoSame, handles
<1>2. op[c] \in FileOps /\ at[c] \in Files
  BY <1>0, OpsOf DEF Places, OnFile, ReadHeld
<1>3. op[c] \in OpsAt(p) /\ p \in {"flush", "free", "placement", "write", "read", "truncate"}
  BY <1>2, OpsOf DEF FileOps
<1>4. GoTypes
  BY <1>0, <1>1, <1>2 DEF GoTypes, LockIosched, Types, handles
<1>5. pc'[c] = p
  <2> HIDE DEF p
  <2> QED BY <1>0, GotoAt
<1> HIDE DEF p
<1>6. p \in OnFile /\ p \in Points /\ p \in IoschedHeld /\ LockOf(p) = "read" /\ LockOf("iosched") = "read"
  BY <1>3 DEF OnFile, ReadHeld, Points, IoschedHeld, LockOf
<1>7. LocksTaken(c)
  <2>1. held[c] = "read" /\ pc[c] \notin IoschedHeld
    BY <1>0, <1>6 DEF Locks, LockOf, IoschedHeld, ReadHeld
  <2>2. \A g \in Files : iosched_lock[g] # c
    BY <1>0, <2>1 DEF Locks
  <2>3. \A g \in Files : iosched_lock'[g] = IF g = at[c] THEN c ELSE iosched_lock[g]
    BY <1>0, <1>1, <1>2 DEF Types
  <2>4. at' = at
    BY <1>1 DEF GoSame
  <2> QED BY <1>1, <1>5, <1>6, <2>1, <2>2, <2>3, <2>4 DEF LocksTaken
<1>8. Waits(c) /\ BetweenAt(s', p, at[c])
  <2>1. cache_requests \in Nat
    BY <1>0 DEF Types
  <2> QED BY <1>0, <1>1, <1>3, <1>5, <2>1 DEF Waits, WaitPoints, BetweenAt
<1>9. Calls(c)
  BY <1>1, <1>3, <1>5, CallsPlain
<1>10. OnlyFree(s, s')
  BY <1>0, <1>1, SameFree DEF Types
<1> QED BY <1>0, <1>1, <1>2, <1>3, <1>4, <1>6, <1>7, <1>8, <1>9, <1>10, QuietGo

\* All data are numbers of writes.
LEMMA LiveType == ASSUME Types, NEW f \in Files PROVE Live(f) \subseteq Pos /\ Held(s, f) \subseteq Pos /\ InFlight(f) \subseteq Pos
<1>1. s.tape[f] \subseteq Pos
  BY StateFields DEF Types
<1>2. Ids(s.dpr[f].reqs) \subseteq Pos
  BY ReqsOf, IdsType DEF Types
<1>3. w.local \in Seq(Req)
  BY DEF Types, WriterState
<1>4. Ids(w.local) \subseteq Pos
  BY <1>3, IdsType
<1> QED BY <1>1, <1>2, <1>4 DEF Live, Held, InFlight

\* Without faults the writer thread has nothing of a file whose io_lock is free.
LEMMA NotSending ==
    ASSUME Control, NoFaults, NEW f \in Files, s.dpr[f].on => io_lock[f] = None PROVE InFlight(f) = {}
<1>1. SUFFICES ASSUME w.file = f, w.local # <<>> PROVE FALSE
  BY IdsEmpty DEF InFlight
<1>2. w.pc = "send"
  BY <1>1 DEF Control, WriterOK
<1>3. io_lock[f] = Writer /\ s.dpr[f].on /\ Writer # None
  BY <1>1, <1>2, ThreadsOK DEF Control, Locks, WriterOK, Writer
<1> QED BY <1>3

\* close, rename and unlink drop their reference.
LEMMA ReturnDid == ASSUME Control, Exact, NEW c \in Clients, Return(c) PROVE Did(c)
<1>0. Types /\ Places /\ Locks /\ pc[c] = "return" /\ pc[c] # "idle"
  BY DEF Control, Return
<1>1. /\ held' = held /\ iosched_lock' = iosched_lock /\ io_lock' = io_lock /\ w' = w /\ s' = s /\ missing' = missing
      /\ spare' = spare /\ cache_requests' = cache_requests /\ keepalive' = keepalive /\ arg' = arg /\ dentry' = dentry
      /\ nwrites' = nwrites /\ nchanges' = nchanges
  BY DEF Return, locks, bounds
<1>2. op[c] \in {"close", "rename", "unlink"} /\ keepalive /\ arg[c] = NoArg
  BY <1>0, OpsOf, BusyAlive DEF Places
<1>4. pc' = [pc EXCEPT ![c] = "idle"] /\ op' = [op EXCEPT ![c] = "none"] /\ at' = [at EXCEPT ![c] = None]
  BY DEF Return, Goto
<1>5. /\ pc \in [Clients -> Points] /\ at \in [Clients -> Files \cup {None}]
      /\ op \in [Clients -> FileOps \cup {"none", "flush_all"}]
  BY <1>0 DEF Types
<1>6. open' \in [Clients -> SUBSET Files] /\ dirty' \in [Clients -> SUBSET Files]
  BY <1>0 DEF Return, Types
<1>7. Types'
  <2>1. "idle" \in Points
    BY DEF Points
  <2> QED BY <1>0, <1>1, <1>4, <1>5, <1>6, <2>1 DEF Types
<1>8. pc'[c] = "idle" /\ op'[c] = "none" /\ at'[c] = None /\ \A d \in Clients \ {c} : pc'[d] = pc[d] /\ op'[d] = op[d] /\ at'[d] = at[d]
  BY <1>4, <1>5
<1>9. LocksTaken(c)
  <2>1. pc[c] \notin IoschedHeld /\ "idle" \notin IoschedHeld /\ LockOf("idle") = "none" /\ LockOf(pc[c]) = "none"
    BY <1>0 DEF IoschedHeld, ReadHeld, LockOf, WriteHeld
  <2> QED BY <1>0, <1>1, <1>8, <2>1, StayLocked
<1>10. PlaceOK("idle", "none", None, arg'[c])
  <2>1. "idle" \notin OnFile
    BY DEF OnFile, ReadHeld
  <2> QED BY <1>1, <1>2, <2>1, OpsOf, ThreadsOK DEF PlaceOK
<1>11. Moves(c)
  BY <1>1, <1>8, <1>9, <1>10 DEF Moves, Stays, Serially
<1>12. BetweenAt(s', pc'[c], at'[c]) /\ Waits(c)
  <2>1. cache_requests \in Nat
    BY <1>0 DEF Types
  <2> QED BY <1>0, <1>1, <1>2, <1>8, <2>1 DEF BetweenAt, Waits, WaitPoints
<1>13. Calls(c)
  BY <1>1, <1>8 DEF Calls
<1>14. OnlyFree(s, s')
  BY <1>0, <1>1, SameFree DEF Types
<1> QED BY <1>1, <1>2, <1>7, <1>11, <1>12, <1>13, <1>14, QuietDid

\* unified_read looks through the requests and remembers what it did not find.
LEMMA ReadCacheDid == ASSUME Control, Exact, NEW c \in Clients, ReadCache(c) PROVE Did(c)
<1>0. Types /\ Places /\ Locks /\ pc[c] = "read" /\ Goto(c, "read_tape") /\ pc[c] # "idle"
  BY DEF Control, ReadCache
<1> DEFINE X == Reachable(at[c]) \ Ids(s.dpr[at[c]].reqs)
<1>1. GoSame /\ iosched_lock' = iosched_lock /\ cache_requests' = cache_requests /\ missing' = [missing EXCEPT ![c] = X]
      /\ held' = held /\ s' = s
  BY DEF ReadCache, GoSame, handles, locks
<1>6. at[c] \in Files /\ "read_tape" \in OnFile /\ op[c] \in OpsAt("read_tape") /\ "read_tape" \in Points
  BY <1>0, OpsOf DEF Places, OnFile, ReadHeld, Points
<1>2. X \subseteq Live(at[c]) /\ X \subseteq s.tape[at[c]] \cup InFlight(at[c])
  BY DEF Reachable, Live, Held
<1> HIDE DEF X
<1>3. X \in SUBSET Pos
  BY <1>0, <1>2, <1>6, LiveType
<1>31. missing' \in [Clients -> SUBSET Pos] /\ missing'[c] = X /\ \A d \in Clients \ {c} : missing'[d] = missing[d]
  BY <1>0, <1>1, <1>3 DEF Types
<1>4. GoTypes
  BY <1>0, <1>1, <1>31 DEF GoTypes, ReadCache, Types, handles
<1>5. pc'[c] = "read_tape"
  BY <1>0, GotoAt
<1>7. LocksTaken(c)
  <2>1. LockOf("read_tape") = "read" /\ LockOf("read") = "read" /\ "read_tape" \in IoschedHeld /\ pc[c] \in IoschedHeld
    BY <1>0 DEF LockOf, ReadHeld, WriteHeld, IoschedHeld
  <2>2. at' = at
    BY <1>1 DEF GoSame
  <2> QED BY <1>0, <1>1, <1>5, <1>6, <2>1, <2>2, StayLocked
<1>8. Waits(c) /\ BetweenAt(s', "read_tape", at[c])
  <2>1. cache_requests \in Nat
    BY <1>0 DEF Types
  <2> QED BY <1>0, <1>1, <1>5, <2>1 DEF Waits, WaitPoints, BetweenAt
<1>9. Calls(c)
  <2>1. op' = op /\ at' = at /\ arg' = arg /\ nwrites' = nwrites
    BY <1>1 DEF GoSame, bounds
  <2> QED BY <1>1, <1>2, <1>5, <1>6, <1>31, <2>1 DEF Calls, Continues
<1>10. OnlyFree(s, s')
  BY <1>0, <1>1, SameFree DEF Types
<1> QED BY <1>0, <1>1, <1>4, <1>6, <1>7, <1>8, <1>9, <1>10, QuietGo

\* It reads the rest from the tape.
LEMMA ReadTapeDid == ASSUME Control, Exact, NEW c \in Clients, ReadTape(c) PROVE Did(c)
<1>0. Types /\ Places /\ Locks /\ pc[c] = "read_tape" /\ Goto(c, "read_done") /\ pc[c] # "idle"
  BY DEF Control, ReadTape
<1> DEFINE X == missing[c] \ s.tape[at[c]]
<1>1. GoSame /\ iosched_lock' = [iosched_lock EXCEPT ![at[c]] = None] /\ cache_requests' = cache_requests
      /\ missing' = [missing EXCEPT ![c] = X] /\ held' = held /\ s' = s /\ (s.dpr[at[c]].on => io_lock[at[c]] = None)
  BY DEF ReadTape, GoSame, handles
<1>6. at[c] \in Files /\ "read_done" \in OnFile /\ op[c] \in OpsAt("read_done") /\ "read_done" \in Points
  BY <1>0, OpsOf DEF Places, OnFile, ReadHeld, Points
<1>2. X \subseteq missing[c] /\ \A i \in X : i \notin s.tape[at[c]]
  OBVIOUS
<1> HIDE DEF X
<1>3. X \in SUBSET Pos
  BY <1>0, <1>2 DEF Types
<1>31. missing' \in [Clients -> SUBSET Pos] /\ missing'[c] = X /\ \A d \in Clients \ {c} : missing'[d] = missing[d]
  BY <1>0, <1>1, <1>3 DEF Types
<1>4. GoTypes
  BY <1>0, <1>1, <1>31 DEF GoTypes, ReadTape, Types, handles
<1>5. pc'[c] = "read_done"
  BY <1>0, GotoAt
<1>7. LocksTaken(c)
  <2>1. LockOf("read_done") = "read" /\ "read_done" \notin IoschedHeld /\ pc[c] \in IoschedHeld /\ pc[c] \in ReadHeld
    BY <1>0 DEF LockOf, ReadHeld, WriteHeld, IoschedHeld
  <2>2. held[c] = "read" /\ \A g \in Files : iosched_lock[g] = c <=> g = at[c]
    BY <1>0, <2>1 DEF Locks
  <2>3. \A g \in Files : iosched_lock'[g] = IF g = at[c] THEN None ELSE iosched_lock[g]
    BY <1>0, <1>1, <1>6 DEF Types
  <2> QED BY <1>1, <1>5, <2>1, <2>2, <2>3 DEF LocksTaken
<1>8. Waits(c) /\ BetweenAt(s', "read_done", at[c])
  <2>1. cache_requests \in Nat
    BY <1>0 DEF Types
  <2> QED BY <1>0, <1>1, <1>5, <2>1 DEF Waits, WaitPoints, BetweenAt
<1>9. Calls(c)
  <2>1. op' = op /\ at' = at /\ arg' = arg /\ nwrites' = nwrites
    BY <1>1 DEF GoSame, bounds
  <2>2. NoFaults => InFlight(at[c]) = {}
    BY <1>1, <1>6, NotSending
  <2> QED BY <1>0, <1>1, <1>2, <1>5, <1>31, <2>1, <2>2 DEF Calls, Continues, SameHeld
<1>10. OnlyFree(s, s')
  BY <1>0, <1>1, SameFree DEF Types
<1> QED BY <1>0, <1>1, <1>4, <1>6, <1>7, <1>8, <1>9, <1>10, QuietGo

\* A step that changes the client's own file, under its iosched_lock.
LEMMA LocalSteady ==
    ASSUME Control, Exact, NEW c \in Clients, pc[c] # "idle", at[c] \in Files, pc[c] \in IoschedHeld, FileStep(s, s', at[c]),
           AltTracked => ((at[c] \in s.ext_queue <=> s.dpr[at[c]].alt) => (at[c] \in s'.ext_queue <=> s'.dpr[at[c]].alt)),
           s.dpr[at[c]].on => s'.dpr[at[c]].on \/ (io_lock[at[c]] = None /\ op[c] = "close"),
           ~s.dpr[at[c]].on /\ op[c] \notin {"write", "truncate"} =>
                s'.dpr[at[c]] = s.dpr[at[c]] /\ s'.written[at[c]] = s.written[at[c]]
    PROVE  Steady(c) /\ Locked(c) /\ Sound(s')
<1>1. Sound(s)
  BY BusyAlive
<1>2. Sound(s')
  BY <1>1, SoundStep
<1>3. \A g \in Files \ {at[c]} : s'.dpr[g] = s.dpr[g] /\ s'.written[g] = s.written[g] /\ (g \in s'.ext_queue <=> g \in s.ext_queue)
  BY DEF FileStep, OthersSame
<1>4. AltTracked /\ AltOK(s) => AltOK(s')
  <2>1. SUFFICES ASSUME AltTracked, AltOK(s), NEW g \in Files PROVE g \in s'.ext_queue <=> s'.dpr[g].alt
    BY DEF AltOK
  <2>2. g \in s.ext_queue <=> s.dpr[g].alt
    BY <2>1 DEF AltOK
  <2>3. CASE g # at[c]
    BY <1>3, <2>2, <2>3
  <2>4. CASE g = at[c]
    BY <2>1, <2>2, <2>4
  <2> QED BY <2>3, <2>4
<1>5. iosched_lock[at[c]] = c /\ held[c] # "none"
  BY DEF Control, Locks, IoschedHeld
<1>6. Steady(c)
  BY <1>2, <1>3, <1>4, <1>5 DEF Steady
<1> QED BY <1>2, <1>5, <1>6 DEF Locked

\* No data is gained or lost by a call that neither writes nor truncates.
LEMMA PlainData ==
    ASSUME NEW c \in Clients, op[c] \notin {"write", "truncate"}, at[c] \in Files, FileStep(s, s', at[c]),
           s'.written[at[c]] = s.written[at[c]], Held(s', at[c]) = Held(s, at[c]), s'.tape[at[c]] = s.tape[at[c]]
    PROVE  Data(c)
BY DEF Data, FileStep

Told(f) == IF s.dpr[f].on THEN Tell(s, f) ELSE s

\* The caller is told of an error, if there is a dentry_priv.
LEMMA ToldSteady ==
    ASSUME Control, Exact, NEW c \in Clients, pc[c] \in IoschedHeld, op[c] \notin {"write", "truncate"}, at[c] \in Files, s' = Told(at[c])
    PROVE  Steady(c) /\ Locked(c) /\ Data(c) /\ Sound(s')
<1>0. pc[c] # "idle"
  BY DEF IoschedHeld, ReadHeld
<1>1. Sound(s)
  BY <1>0, BusyAlive
<1>2. CASE ~s.dpr[at[c]].on
  <2>1. s' = s /\ s \in State
    BY <1>1, <1>2 DEF Told, Sound
  <2>2. OnlyFree(s, s')
    BY <2>1, SameFree
  <2> QED BY <2>2, <1>0, BusyAlive, QuietSteady
<1>3. CASE s.dpr[at[c]].on
  <2>1. s' = Tell(s, at[c])
    BY <1>3 DEF Told
  <2>2. ToldIs(s, s', at[c])
    BY <1>1, <1>3, <2>1, TellOK
  <2>3. FileStep(s, s', at[c]) /\ s'.ext_queue = s.ext_queue /\ s'.tape = s.tape /\ s'.written = s.written
        /\ s'.dpr[at[c]].alt = s.dpr[at[c]].alt /\ s'.dpr[at[c]].on = s.dpr[at[c]].on /\ s'.dpr[at[c]].reqs = s.dpr[at[c]].reqs
    BY <2>2 DEF ToldIs, SameRest, ErrorSet
  <2>4. Steady(c) /\ Locked(c) /\ Sound(s')
    BY <1>0, <1>3, <2>3, LocalSteady
  <2>5. Data(c)
    BY <2>3, PlainData DEF Held
  <2> QED BY <2>4, <2>5
<1> QED BY <1>2, <1>3

\* unified_close looks whether the dentry_priv can be freed.
LEMMA FreeCheckDid == ASSUME Control, Exact, NEW c \in Clients, FreeCheck(c) PROVE Did(c)
<1> DEFINE told == IF s.dpr[at[c]].on THEN Tell(s, at[c]) ELSE s
<1>0. Types /\ Places /\ Locks
  BY DEF Control
<1>1. pc[c] \in {"free", "flush_done"} /\ op[c] = "close"
  BY <1>0, OpsOf DEF FreeCheck, Places
<1>2. pc[c] \in IoschedHeld /\ pc[c] \in ReadHeld /\ pc[c] \in Leavable /\ at[c] \in Files /\ pc[c] # "idle"
  BY <1>0, <1>1 DEF IoschedHeld, ReadHeld, Leavable, Places, OnFile
<1>3. s' = told
  BY DEF FreeCheck
<1>4. Steady(c) /\ Locked(c) /\ Data(c)
  BY <1>1, <1>2, <1>3, ToldSteady DEF Told
<1>5. /\ io_lock' = io_lock /\ dentry' = dentry /\ cache_requests' = cache_requests /\ keepalive' = keepalive
      /\ spare' = spare /\ open' = open /\ dirty' = dirty /\ w' = w /\ bounds' = bounds
  BY DEF FreeCheck, handles
<1>6. CASE Freeable(told, at[c], 3)
  <2>1. Goto(c, "free_io") /\ missing' = [missing EXCEPT ![c] = {}] /\ UNCHANGED <<held, iosched_lock, op, at, arg>>
    BY <1>6 DEF FreeCheck
  <2>2. GoSame
    BY <1>5, <2>1 DEF GoSame
  <2>3. missing' \in [Clients -> SUBSET Pos] /\ missing'[c] = {} /\ \A d \in Clients \ {c} : missing'[d] = missing[d]
    BY <1>0, <2>1 DEF Types
  <2>4. GoTypes
    BY <1>0, <1>5, <2>1, <2>3 DEF GoTypes, Types
  <2>5. pc'[c] = "free_io"
    BY <1>0, <2>1, GotoAt
  <2>6. "free_io" \in OnFile /\ op[c] \in OpsAt("free_io") /\ "free_io" \in Points
    BY <1>1, OpsOf DEF OnFile, ReadHeld, Points
  <2>7. LocksTaken(c)
    <3>1. LockOf("free_io") = "read" /\ LockOf(pc[c]) = "read" /\ "free_io" \in IoschedHeld
      BY <1>2 DEF LockOf, ReadHeld, IoschedHeld
    <3> QED BY <1>0, <1>2, <2>1, <2>5, <3>1, StayLocked
  <2>8. Waits(c)
    <3>1. cache_requests \in Nat
      BY <1>0 DEF Types
    <3> QED BY <1>1, <1>5, <2>5, <3>1 DEF Waits, WaitPoints
  <2>9. BetweenAt(s', "free_io", at[c])
    BY <1>3, <1>6 DEF BetweenAt, Freeable
  <2>10. Calls(c)
    <3>1. nwrites' = nwrites
      BY <1>5 DEF bounds
    <3> QED BY <1>1, <2>1, <2>3, <2>5, <3>1 DEF Calls
  <2> QED BY <1>2, <1>4, <2>1, <2>2, <2>4, <2>6, <2>7, <2>8, <2>9, <2>10, GoDid
<1>7. CASE ~Freeable(told, at[c], 3)
  <2>1. Leave(c)
    BY <1>7 DEF FreeCheck
  <2>2. spare' \in [Clients -> BOOLEAN] /\ dirty' \in [Clients -> SUBSET Files]
    BY <1>0, <1>5 DEF Types
  <2> QED BY <1>2, <1>4, <1>5, <2>1, <2>2, LeaveDid
<1> QED BY <1>6, <1>7

\* It frees it under io_lock.
LEMMA FreeIoDid == ASSUME Control, Exact, NEW c \in Clients, FreeIo(c) PROVE Did(c)
<1>0. Types /\ Places /\ Locks /\ pc[c] = "free_io" /\ Leave(c) /\ io_lock[at[c]] = None /\ s' = FreeDpr(s, at[c])
  BY DEF Control, FreeIo
<1>1. op[c] = "close"
  BY <1>0, OpsOf DEF Places
<1>2. pc[c] \in IoschedHeld /\ pc[c] \in Leavable /\ at[c] \in Files /\ pc[c] # "idle"
  BY <1>0 DEF IoschedHeld, ReadHeld, Leavable, Places, OnFile
<1>3. s.dpr[at[c]].on /\ s.dpr[at[c]].reqs = <<>> /\ ~s.dpr[at[c]].alt
  BY <1>0 DEF Control, Between
<1>4. FreedIs(s, s', at[c])
  BY <1>0, <1>2, <1>3, BusyAlive, FreeDprOK
<1>5. FileStep(s, s', at[c]) /\ s'.ext_queue = s.ext_queue /\ s'.tape = s.tape /\ s'.written = s.written
        /\ ~s'.dpr[at[c]].alt /\ Held(s', at[c]) = Held(s, at[c])
  BY <1>4, NoDprType DEF FreedIs, SameRest
<1>6. Steady(c) /\ Locked(c)
  BY <1>0, <1>1, <1>2, <1>3, <1>5, LocalSteady
<1>7. Data(c)
  BY <1>1, <1>2, <1>5, PlainData
<1>8. /\ io_lock' = io_lock /\ dentry' = dentry /\ cache_requests' = cache_requests /\ keepalive' = keepalive
      /\ open' = open /\ w' = w /\ bounds' = bounds /\ spare' \in [Clients -> BOOLEAN] /\ dirty' \in [Clients -> SUBSET Files]
  BY <1>0 DEF FreeIo, handles, Types
<1> QED BY <1>0, <1>2, <1>6, <1>7, <1>8, LeaveDid

\* unified_update_data_placement, after a rename or an unlink.
LEMMA PlacementDid == ASSUME Control, Exact, NEW c \in Clients, Placement(c) PROVE Did(c)
<1>0. Types /\ Places /\ Locks /\ pc[c] = "placement" /\ Leave(c) /\ s' = IF s.dpr[at[c]].on THEN UpdatePlacement(s, at[c]) ELSE s
  BY DEF Control, Placement
<1>1. op[c] \in {"rename", "unlink"}
  BY <1>0, OpsOf DEF Places
<1>2. pc[c] \in IoschedHeld /\ pc[c] \in Leavable /\ at[c] \in Files /\ pc[c] # "idle"
  BY <1>0 DEF IoschedHeld, ReadHeld, Leavable, Places, OnFile
<1>3. Sound(s)
  BY <1>2, BusyAlive
<1>4. Settled(s, s', at[c])
  <2>1. CASE s.dpr[at[c]].on
    BY <1>0, <1>2, <1>3, <2>1, UpdatePlacementOK
  <2>2. CASE ~s.dpr[at[c]].on
    BY <1>0, <1>2, <1>3, <2>2, SettledSame
  <2> QED BY <2>1, <2>2
<1>5. FileStep(s, s', at[c]) /\ s'.tape = s.tape /\ s'.written = s.written /\ s'.dpr[at[c]].on = s.dpr[at[c]].on
      /\ Held(s', at[c]) = Held(s, at[c])
      /\ ((at[c] \in s.ext_queue <=> s.dpr[at[c]].alt) => (at[c] \in s'.ext_queue <=> s'.dpr[at[c]].alt))
  BY <1>4 DEF Settled
<1>6. ~s.dpr[at[c]].on => s'.dpr[at[c]] = s.dpr[at[c]]
  BY <1>0
<1>7. Steady(c) /\ Locked(c)
  BY <1>2, <1>5, <1>6, LocalSteady
<1>8. Data(c)
  BY <1>1, <1>2, <1>5, PlainData
<1>9. /\ io_lock' = io_lock /\ dentry' = dentry /\ cache_requests' = cache_requests /\ keepalive' = keepalive
      /\ open' = open /\ w' = w /\ bounds' = bounds /\ spare' \in [Clients -> BOOLEAN] /\ dirty' \in [Clients -> SUBSET Files]
  BY <1>0 DEF Placement, handles, Types
<1> QED BY <1>0, <1>2, <1>7, <1>8, <1>9, LeaveDid

\* Without faults the drive refuses nothing.
LEMMA Refusing == ASSUME NEW st, Drive(st), NEW p, NoFaults PROVE ~Refuses(st, p)
BY DEF Drive, Refuses

\* A write that ends without taking the data.
LEMMA DeniedData ==
    ASSUME NEW c \in Clients, ~NoFaults, op[c] = "write", at[c] \in Files, FileStep(s, s', at[c]),
           s'.written[at[c]] = s.written[at[c]], Held(s', at[c]) = Held(s, at[c])
    PROVE  Data(c)
BY DEF Data, FileStep

\* A call at point write is a write on a file, under both locks.
LEMMA WritingAt ==
    ASSUME Control, Exact, NEW c \in Clients, pc[c] = "write"
    PROVE  /\ op[c] = "write" /\ at[c] \in Files /\ pc[c] \in IoschedHeld /\ pc[c] \in Leavable /\ pc[c] # "idle" /\ Sound(s)
           /\ ArgOK(arg[c])
<1>1. op[c] = "write" /\ at[c] \in Files
  BY OpsOf DEF Control, Places, OnFile, ReadHeld
<1>2. pc[c] \in IoschedHeld /\ pc[c] \in Leavable /\ pc[c] # "idle"
  BY DEF IoschedHeld, ReadHeld, Leavable
<1>3. ArgOK(arg[c])
  BY <1>1 DEF Control, Types, Places, ArgOK
<1> QED BY <1>1, <1>2, <1>3, BusyAlive

\* A recorded error is returned instead of taking the data.
LEMMA WriteErrorDid == ASSUME Control, Exact, NEW c \in Clients, WriteError(c) PROVE Did(c)
<1> DEFINE st == WithDpr(s, at[c])
<1>0. pc[c] = "write" /\ st.dpr[at[c]].write_error # "ok" /\ s' = Tell(st, at[c]) /\ Leave(c)
  BY DEF WriteError
<1>1. op[c] = "write" /\ at[c] \in Files /\ pc[c] \in IoschedHeld /\ pc[c] \in Leavable /\ pc[c] # "idle" /\ Sound(s)
  BY <1>0, WritingAt
<1>2. Grown(s, st, at[c], {})
  BY <1>1, WithDprOK
<1> HIDE DEF st
<1>3. Sound(st) /\ st.dpr[at[c]].on
  <2>1. Sound(st)
    BY <1>1, <1>2, GrownSound
  <2> QED BY <1>2, <2>1 DEF Grown
<1>4. ToldIs(st, s', at[c])
  BY <1>0, <1>1, <1>3, TellOK
<1>5. ~NoFaults
  BY <1>0, <1>1, <1>3 DEF Sound, FilesOK, FileOK
<1>6. /\ FileStep(s, st, at[c]) /\ st.tape = s.tape /\ st.written = s.written /\ Held(st, at[c]) = Held(s, at[c]) \cup {}
      /\ ((at[c] \in s.ext_queue <=> s.dpr[at[c]].alt) => (at[c] \in st.ext_queue <=> st.dpr[at[c]].alt))
  BY <1>2 DEF Grown
<1>7. /\ FileStep(st, s', at[c]) /\ s'.tape = st.tape /\ s'.written = st.written /\ s'.ext_queue = st.ext_queue
      /\ s'.dpr[at[c]].alt = st.dpr[at[c]].alt /\ s'.dpr[at[c]].on = st.dpr[at[c]].on /\ s'.dpr[at[c]].reqs = st.dpr[at[c]].reqs
  BY <1>4 DEF ToldIs, SameRest, ErrorSet
<1>8. FileStep(s, s', at[c])
  BY <1>6, <1>7, FileStepTrans
<1>9. Steady(c) /\ Locked(c)
  BY <1>1, <1>3, <1>6, <1>7, <1>8, LocalSteady
<1>10. Data(c)
  <2>1. Held(s', at[c]) = Held(s, at[c])
    BY <1>6, <1>7 DEF Held
  <2> QED BY <1>1, <1>5, <1>6, <1>7, <1>8, <2>1, DeniedData
<1>11. /\ io_lock' = io_lock /\ dentry' = dentry /\ cache_requests' = cache_requests /\ keepalive' = keepalive
      /\ open' = open /\ w' = w /\ bounds' = bounds /\ spare' \in [Clients -> BOOLEAN] /\ dirty' \in [Clients -> SUBSET Files]
  BY DEF WriteError, handles, Control, Types
<1> QED BY <1>0, <1>1, <1>9, <1>10, <1>11, LeaveDid

\* A drive that is known to refuse gets no data.
LEMMA WriteRefusedDid == ASSUME Control, Exact, NEW c \in Clients, WriteRefused(c) PROVE Did(c)
<1> DEFINE st == WithDpr(s, at[c])
<1>0. pc[c] = "write" /\ Refuses(s, "DP") /\ s' = st /\ Leave(c)
  BY DEF WriteRefused
<1>1. op[c] = "write" /\ at[c] \in Files /\ pc[c] \in IoschedHeld /\ pc[c] \in Leavable /\ pc[c] # "idle" /\ Sound(s)
  BY <1>0, WritingAt
<1>2. Grown(s, s', at[c], {})
  BY <1>0, <1>1, WithDprOK
<1>5. ~NoFaults
  BY <1>0, <1>1, Refusing DEF Sound
<1>6. /\ FileStep(s, s', at[c]) /\ s'.tape = s.tape /\ s'.written = s.written /\ Held(s', at[c]) = Held(s, at[c]) \cup {} /\ s'.dpr[at[c]].on
      /\ ((at[c] \in s.ext_queue <=> s.dpr[at[c]].alt) => (at[c] \in s'.ext_queue <=> s'.dpr[at[c]].alt))
  BY <1>2 DEF Grown
<1>9. Steady(c) /\ Locked(c)
  BY <1>1, <1>6, LocalSteady
<1>10. Data(c)
  <2>1. Held(s', at[c]) = Held(s, at[c])
    BY <1>6
  <2> QED BY <1>1, <1>5, <1>6, <2>1, DeniedData
<1>11. /\ io_lock' = io_lock /\ dentry' = dentry /\ cache_requests' = cache_requests /\ keepalive' = keepalive
      /\ open' = open /\ w' = w /\ bounds' = bounds /\ spare' \in [Clients -> BOOLEAN] /\ dirty' \in [Clients -> SUBSET Files]
  BY DEF WriteRefused, handles, Control, Types
<1> QED BY <1>0, <1>1, <1>9, <1>10, <1>11, LeaveDid

\* unified_truncate goes on to ltfs_fsraw_truncate.
LEMMA TruncTapeDid == ASSUME Control, Exact, NEW c \in Clients, TruncTape(c) PROVE Did(c)
<1>0. pc[c] \in {"trunc_raw", "trunc_io"} /\ (pc[c] = "trunc_io" => io_lock[at[c]] = None) /\ Leave(c) /\ s' = TapeCut(s, at[c])
  BY DEF TruncTape, TapeCut
<1>1. Types /\ Places /\ Locks
  BY DEF Control
<1>2. op[c] = "truncate" /\ at[c] \in Files /\ pc[c] \in Leavable /\ pc[c] # "idle"
  BY <1>0, <1>1, OpsOf DEF Places, OnFile, ReadHeld, Leavable
<1>3. s.dpr[at[c]].reqs = <<>> /\ s.written[at[c]] = {} /\ (pc[c] = "trunc_raw" => ~s.dpr[at[c]].on)
  BY <1>0 DEF Control, Between
<1>4. Sound(s)
  BY <1>2, BusyAlive
<1>5. TapeCutIs(s, s', at[c])
  BY <1>0, <1>2, <1>3, <1>4, TapeCutOK
<1>6. /\ FileStep(s, s', at[c]) /\ s'.dpr = s.dpr /\ s'.ext_queue = s.ext_queue /\ s'.written = s.written /\ s'.tape[at[c]] = {}
  BY <1>5 DEF TapeCutIs
<1>7. Steady(c) /\ Locked(c)
  <2>1. Sound(s')
    BY <1>4, <1>6, SoundStep
  <2>2. Steady(c)
    BY <1>6, <2>1 DEF Steady, AltOK
  <2>3. pc[c] # "trunc_raw" => iosched_lock[at[c]] = c
    BY <1>0, <1>1, <1>2 DEF Locks, IoschedHeld, ReadHeld
  <2> QED BY <2>2, <2>3 DEF Locked
<1>8. Data(c)
  <2>1. NoFaults => InFlight(at[c]) = {}
    BY <1>0, <1>2, <1>3, NotSending
  <2>2. Held(s', at[c]) = {} /\ Held(s', at[c]) \subseteq Held(s, at[c])
    BY <1>3, <1>6, IdsEmpty DEF Held
  <2>3. \A g \in Files \ {at[c]} : s'.tape[g] = s.tape[g]
    BY <1>6 DEF FileStep
  <2> QED BY <1>2, <1>3, <1>6, <2>1, <2>2, <2>3 DEF Data
<1>9. /\ io_lock' = io_lock /\ dentry' = dentry /\ cache_requests' = cache_requests /\ keepalive' = keepalive
      /\ open' = open /\ w' = w /\ bounds' = bounds /\ spare' \in [Clients -> BOOLEAN] /\ dirty' \in [Clients -> SUBSET Files]
  BY <1>1 DEF TruncTape, handles, Types
<1> QED BY <1>0, <1>2, <1>7, <1>8, <1>9, LeaveDid

\* unified_truncate drops the requests.
LEMMA TruncBodyDid == ASSUME Control, Exact, NEW c \in Clients, TruncBody(c) PROVE Did(c)
<1>0. Types /\ Places /\ Locks /\ pc[c] = "truncate"
  BY DEF Control, TruncBody
<1>1. op[c] = "truncate" /\ at[c] \in Files /\ pc[c] \in IoschedHeld /\ pc[c] \in ReadHeld /\ pc[c] # "idle" /\ pc[c] \notin WaitPoints
  BY <1>0, OpsOf DEF Places, OnFile, ReadHeld, IoschedHeld, WaitPoints
<1>2. Sound(s)
  BY <1>1, BusyAlive
<1>3. GoSame /\ cache_requests' = cache_requests /\ missing' = missing /\ spare' = spare /\ dirty' = dirty
  BY DEF TruncBody, GoSame, handles
<1>4. Continues(c) /\ Mine(c) = {} /\ op' = op /\ at' = at
  BY <1>1, <1>3 DEF Continues, GoSame, Mine
<1>5. "truncate" \in Ops
  BY <1>0, <1>1 DEF Places
<1>6. iosched_lock[at[c]] = c /\ held[c] = "read" /\ \A g \in Files : iosched_lock[g] = c <=> g = at[c]
  BY <1>0, <1>1 DEF Locks
<1>7. cache_requests \in Nat
  BY <1>0 DEF Types
<1>8. CASE s.dpr[at[c]].on
  <2>1. s' = UpdatePlacement(Cutting(s, at[c]), at[c])
    BY <1>8 DEF TruncBody, Cutting
  <2>2. Goto(c, "trunc_io") /\ held' = held /\ iosched_lock' = iosched_lock
    BY <1>8 DEF TruncBody
  <2>3. CutIs(s, s', at[c])
    BY <1>1, <1>2, <1>8, <2>1, TruncOK
  <2>4. /\ FileStep(s, s', at[c]) /\ s'.tape = s.tape /\ s'.written[at[c]] = {} /\ s'.dpr[at[c]].reqs = <<>> /\ s'.dpr[at[c]].on
        /\ MaxIpSize = 0 => ((at[c] \in s.ext_queue <=> s.dpr[at[c]].alt) => (at[c] \in s'.ext_queue <=> s'.dpr[at[c]].alt))
    BY <2>3 DEF CutIs
  <2>5. Steady(c) /\ Locked(c)
    BY <1>1, <1>5, <1>8, <2>4, LocalSteady DEF AltTracked
  <2>6. Data(c)
    <3>1. Held(s', at[c]) \subseteq Held(s, at[c])
      BY <2>4, IdsEmpty DEF Held
    <3> QED BY <1>1, <1>4, <2>4, <3>1 DEF Data
  <2>7. GoTypes
    BY <1>0, <1>3, <2>2 DEF GoTypes, Types
  <2>8. pc'[c] = "trunc_io"
    BY <1>0, <2>2, GotoAt
  <2>9. "trunc_io" \in OnFile /\ op[c] \in OpsAt("trunc_io") /\ "trunc_io" \in Points
    BY <1>1, OpsOf DEF OnFile, ReadHeld, Points
  <2>10. LocksTaken(c)
    <3>1. LockOf("trunc_io") = "read" /\ LockOf(pc[c]) = "read" /\ "trunc_io" \in IoschedHeld
      BY <1>1 DEF LockOf, ReadHeld, IoschedHeld
    <3> QED BY <1>0, <1>1, <1>4, <2>2, <2>8, <3>1, StayLocked
  <2>11. Waits(c) /\ BetweenAt(s', "trunc_io", at[c])
    BY <1>1, <1>3, <1>7, <2>4, <2>8 DEF Waits, WaitPoints, BetweenAt
  <2>12. Calls(c)
    BY <1>3, <2>8, CallsPlain
  <2> QED BY <1>1, <1>3, <2>2, <2>5, <2>6, <2>7, <2>9, <2>10, <2>11, <2>12, GoDid
<1>9. CASE ~s.dpr[at[c]].on
  <2>1. s' = SetWritten(s, at[c], {})
    BY <1>9 DEF TruncBody, SetWritten
  <2>2. Goto(c, "trunc_raw") /\ held' = [held EXCEPT ![c] = "none"] /\ iosched_lock' = [iosched_lock EXCEPT ![at[c]] = None]
    BY <1>9 DEF TruncBody
  <2>3. WrittenIs(s, s', at[c], {})
    <3>1. s \in State /\ {} \in SUBSET Pos
      BY <1>0 DEF Types
    <3> QED BY <1>1, <2>1, <3>1, SetWrittenOK
  <2>4. FileStep(s, s', at[c])
    BY <1>1, <1>2, <2>3, WrittenStep
  <2>5. s'.dpr = s.dpr /\ s'.ext_queue = s.ext_queue /\ s'.tape = s.tape /\ s'.written[at[c]] = {}
    BY <2>3 DEF WrittenIs
  <2>6. Steady(c) /\ Locked(c)
    BY <1>1, <1>9, <2>4, <2>5, LocalSteady
  <2>7. s.dpr[at[c]].reqs = <<>>
    BY <1>1, <1>2, <1>9, NoDprType DEF Sound, FilesOK, FileOK
  <2>8. Data(c)
    <3>1. Held(s', at[c]) = Held(s, at[c])
      BY <2>5 DEF Held
    <3> QED BY <1>1, <1>4, <2>5, <3>1 DEF Data
  <2>9. c \in Threads
    BY DEF Threads
  <2>10. held'[c] = "none" /\ (\A t \in Threads \ {c} : held'[t] = held[t]) /\ held' \in [Threads -> {"none", "read", "write"}]
    BY <1>0, <2>2, <2>9 DEF Types
  <2>11. iosched_lock' \in [Files -> Clients \cup {None}] /\ \A g \in Files : iosched_lock'[g] = IF g = at[c] THEN None ELSE iosched_lock[g]
    BY <1>0, <1>1, <2>2 DEF Types
  <2>12. GoTypes
    BY <1>0, <1>3, <2>10, <2>11 DEF GoTypes, Types
  <2>13. pc'[c] = "trunc_raw"
    BY <1>0, <2>2, GotoAt
  <2>14. "trunc_raw" \in OnFile /\ op[c] \in OpsAt("trunc_raw") /\ "trunc_raw" \in Points
    BY <1>1, OpsOf DEF OnFile, ReadHeld, Points
  <2>15. LocksTaken(c)
    <3>1. LockOf("trunc_raw") = "none" /\ "trunc_raw" \notin IoschedHeld
      BY DEF LockOf, ReadHeld, WriteHeld, IoschedHeld
    <3> QED BY <1>6, <2>10, <2>11, <2>13, <3>1 DEF LocksTaken
  <2>16. Waits(c) /\ BetweenAt(s', "trunc_raw", at[c])
    BY <1>1, <1>3, <1>7, <1>9, <2>5, <2>7, <2>13 DEF Waits, WaitPoints, BetweenAt
  <2>17. Calls(c)
    BY <1>3, <2>13, CallsPlain
  <2> QED BY <1>1, <1>3, <2>2, <2>6, <2>8, <2>10, <2>12, <2>14, <2>15, <2>16, <2>17, GoDid
<1> QED BY <1>8, <1>9

FlushSame == UNCHANGED <<io_lock, dentry, cache_requests, keepalive, spare, open, w, bounds>>

\* A call at point flush is a flush or a close of a file, under both locks.
LEMMA FlushingAt ==
    ASSUME Control, Exact, NEW c \in Clients, pc[c] = "flush"
    PROVE  /\ op[c] \in {"flush", "close"} /\ at[c] \in Files /\ pc[c] \in IoschedHeld /\ pc[c] \in ReadHeld /\ pc[c] \in Leavable
           /\ pc[c] # "idle" /\ Sound(s) /\ pc[c] \notin WaitPoints
<1>1. op[c] \in {"flush", "close"} /\ at[c] \in Files
  BY OpsOf DEF Control, Places, OnFile, ReadHeld
<1>2. pc[c] \in IoschedHeld /\ pc[c] \in ReadHeld /\ pc[c] \in Leavable /\ pc[c] # "idle" /\ pc[c] \notin WaitPoints
  BY DEF IoschedHeld, ReadHeld, Leavable, WaitPoints
<1> QED BY <1>1, <1>2, BusyAlive

\* The flush of a file returns an error,
LEMMA FlushFailsDid ==
    ASSUME Control, Exact, NEW c \in Clients, pc[c] = "flush", FlushFails(c), FlushSame, dirty' = dirty, Steady(c), Locked(c), Data(c)
    PROVE  Did(c)
<1>0. Types /\ Places /\ Locks
  BY DEF Control
<1>1. /\ op[c] \in {"flush", "close"} /\ at[c] \in Files /\ pc[c] \in IoschedHeld /\ pc[c] \in ReadHeld /\ pc[c] \in Leavable
      /\ pc[c] # "idle" /\ pc[c] \notin WaitPoints
  BY FlushingAt
<1>2. /\ io_lock' = io_lock /\ dentry' = dentry /\ cache_requests' = cache_requests /\ keepalive' = keepalive
      /\ open' = open /\ w' = w /\ bounds' = bounds /\ spare' \in [Clients -> BOOLEAN] /\ dirty' \in [Clients -> SUBSET Files]
      /\ cache_requests \in Nat
  BY <1>0 DEF FlushSame, Types
<1>3. CASE op[c] # "close"
  <2>1. Leave(c)
    BY <1>3 DEF FlushFails
  <2> QED BY <1>1, <1>2, <2>1, LeaveDid
<1>4. CASE op[c] = "close"
  <2>1. Goto(c, "free") /\ held' = held /\ iosched_lock' = iosched_lock /\ op' = op /\ at' = at /\ arg' = arg /\ missing' = missing
    BY <1>4 DEF FlushFails
  <2>2. GoSame
    BY <1>2, <2>1 DEF GoSame
  <2>3. GoTypes
    BY <1>0, <1>2, <2>1 DEF GoTypes, Types
  <2>5. pc'[c] = "free"
    BY <1>0, <2>1, GotoAt
  <2>6. "free" \in OnFile /\ op[c] \in OpsAt("free") /\ "free" \in Points
    BY <1>4, OpsOf DEF OnFile, ReadHeld, Points
  <2>7. LocksTaken(c)
    <3>1. LockOf("free") = "read" /\ LockOf(pc[c]) = "read" /\ "free" \in IoschedHeld
      BY <1>1 DEF LockOf, ReadHeld, IoschedHeld
    <3> QED BY <1>0, <1>1, <2>1, <2>5, <3>1, StayLocked
  <2>8. Waits(c) /\ BetweenAt(s', "free", at[c])
    BY <1>1, <1>2, <2>5 DEF Waits, WaitPoints, BetweenAt
  <2>9. Calls(c)
    BY <2>1, <2>2, <2>5, CallsPlain
  <2> QED BY <1>1, <2>1, <2>2, <2>3, <2>6, <2>7, <2>8, <2>9, GoDid
<1> QED BY <1>3, <1>4

\* or goes on.
LEMMA FlushEndsDid ==
    ASSUME Control, Exact, NEW c \in Clients, pc[c] = "flush", FlushEnds(c), FlushSame, dirty' \in [Clients -> SUBSET Files],
           NEW X, X \subseteq Live(at[c]), missing' = [missing EXCEPT ![c] = X], Steady(c), Locked(c), Data(c)
    PROVE  Did(c)
<1>0. Types /\ Places /\ Locks
  BY DEF Control
<1>1. /\ op[c] \in {"flush", "close"} /\ at[c] \in Files /\ pc[c] \in IoschedHeld /\ pc[c] \in ReadHeld /\ pc[c] \in Leavable
      /\ pc[c] # "idle" /\ pc[c] \notin WaitPoints
  BY FlushingAt
<1>2. /\ io_lock' = io_lock /\ dentry' = dentry /\ cache_requests' = cache_requests /\ keepalive' = keepalive
      /\ open' = open /\ w' = w /\ bounds' = bounds /\ spare' \in [Clients -> BOOLEAN]
      /\ cache_requests \in Nat
  BY <1>0 DEF FlushSame, Types
<1>3. Goto(c, "flush_done") /\ held' = held /\ iosched_lock' = iosched_lock /\ op' = op /\ at' = at /\ arg' = arg
  BY DEF FlushEnds
<1>4. GoSame
  BY <1>2, <1>3 DEF GoSame
<1>5. missing' \in [Clients -> SUBSET Pos] /\ missing'[c] = X /\ \A d \in Clients \ {c} : missing'[d] = missing[d]
  <2>1. X \in SUBSET Pos
    BY <1>0, <1>1, LiveType
  <2> QED BY <1>0, <2>1 DEF Types
<1>6. GoTypes
  BY <1>0, <1>2, <1>3, <1>5 DEF GoTypes, Types
<1>7. pc'[c] = "flush_done"
  BY <1>0, <1>3, GotoAt
<1>8. "flush_done" \in OnFile /\ op[c] \in OpsAt("flush_done") /\ "flush_done" \in Points
  BY <1>1, OpsOf DEF OnFile, ReadHeld, Points
<1>9. LocksTaken(c)
  <2>1. LockOf("flush_done") = "read" /\ LockOf(pc[c]) = "read" /\ "flush_done" \in IoschedHeld
    BY <1>1 DEF LockOf, ReadHeld, IoschedHeld
  <2> QED BY <1>0, <1>1, <1>3, <1>7, <2>1, StayLocked
<1>10. Waits(c) /\ BetweenAt(s', "flush_done", at[c])
  BY <1>1, <1>2, <1>7 DEF Waits, WaitPoints, BetweenAt
<1>11. Calls(c)
  <2>1. nwrites' = nwrites
    BY <1>2 DEF bounds
  <2> QED BY <1>1, <1>3, <1>5, <1>7, <2>1 DEF Calls
<1> QED BY <1>1, <1>3, <1>4, <1>6, <1>8, <1>9, <1>10, <1>11, GoDid

FlushedIs(st, st2, f) ==
    /\ FileStep(st, st2, f) /\ st2.ext_queue = st.ext_queue /\ st2.dpr[f].on = st.dpr[f].on /\ st2.dpr[f].alt = st.dpr[f].alt
    /\ st.tape[f] \subseteq st2.tape[f] /\ Held(st2, f) \subseteq Held(st, f) /\ st2.written[f] \subseteq st.written[f]
    /\ NoFaults => st2.written[f] = st.written[f]
    /\ \A e \in st2.written[f] : e \in Held(st, f) => e \in Held(st2, f)

\* A flush whose error the caller gets.
LEMMA FlushTold ==
    ASSUME NEW st, NEW f \in Files, Sound(st), st.dpr[f].on, NEW plan \in Plans(st)
    PROVE  FlushedIs(st, Tell(FlushOne(st, f, plan), f), f)
<1> DEFINE done == FlushOne(st, f, plan)
<1>1. Taken(st, done, f, <<>>, DataStates)
  BY FlushOneOK
<1> HIDE DEF done
<1>2. FileStep(st, done, f) /\ done.dpr[f].on
  BY <1>1 DEF Taken
<1>3. Sound(done)
  BY <1>2, SoundStep
<1> DEFINE x == Tell(done, f)
<1>4. ToldIs(done, x, f)
  BY <1>2, <1>3, TellOK
<1> HIDE DEF x
<1>5. FileStep(st, x, f)
  <2>1. FileStep(done, x, f)
    BY <1>4 DEF ToldIs
  <2> QED BY <1>2, <2>1, FileStepTrans
<1>6. /\ x.ext_queue = done.ext_queue /\ x.dpr[f].on = done.dpr[f].on /\ x.dpr[f].alt = done.dpr[f].alt
      /\ x.dpr[f].reqs = done.dpr[f].reqs /\ x.tape = done.tape /\ x.written = done.written
  BY <1>4 DEF ToldIs, SameRest, ErrorSet
<1>7. Held(x, f) = Held(done, f)
  BY <1>6 DEF Held
<1>8. FlushedIs(st, x, f)
  BY <1>1, <1>5, <1>6, <1>7, IdsEmpty DEF Taken, FlushedIs
<1> QED BY <1>8 DEF x, done

\* unified_flush.
LEMMA FlushBodyDid == ASSUME Control, Exact, NEW c \in Clients, FlushBody(c) PROVE Did(c)
<1>0. Types /\ Places /\ Locks /\ pc[c] = "flush" /\ FlushSame
  BY DEF Control, FlushBody, FlushSame
<1>1. /\ op[c] \in {"flush", "close"} /\ at[c] \in Files /\ pc[c] \in IoschedHeld /\ pc[c] \in ReadHeld /\ pc[c] \in Leavable
      /\ pc[c] # "idle" /\ Sound(s)
  BY <1>0, FlushingAt
<1>2. CASE /\ s.dpr[at[c]].on /\ s.dpr[at[c]].write_error # "ok"
           /\ s' = Tell(s, at[c]) /\ FlushFails(c) /\ UNCHANGED dirty
  <2>1. s' = Told(at[c])
    BY <1>2 DEF Told
  <2>2. Steady(c) /\ Locked(c) /\ Data(c)
    BY <1>1, <2>1, ToldSteady
  <2> QED BY <1>0, <1>2, <2>2, FlushFailsDid
<1>3. CASE /\ missing' = [missing EXCEPT ![c] = Live(at[c]) \ s.tape[at[c]]]
           /\ dirty' = [dirty EXCEPT ![c] = @ \ {at[c]}]
           /\ FlushEnds(c) /\ UNCHANGED s
  <2>1. OnlyFree(s, s')
    BY <1>0, <1>3, SameFree DEF Types
  <2>2. Steady(c) /\ Locked(c) /\ Data(c)
    BY <1>1, <2>1, BusyAlive, QuietSteady
  <2>3. dirty' \in [Clients -> SUBSET Files]
    BY <1>0, <1>3 DEF Types
  <2> DEFINE X == Live(at[c]) \ s.tape[at[c]]
  <2>4. X \subseteq Live(at[c]) /\ missing' = [missing EXCEPT ![c] = X]
    BY <1>3
  <2> HIDE DEF X
  <2> QED BY <1>0, <1>3, <2>2, <2>3, <2>4, FlushEndsDid
<1>4. CASE /\ s.dpr[at[c]].on /\ s.dpr[at[c]].write_error = "ok" /\ s.dpr[at[c]].reqs # <<>>
           /\ \E plan \in Plans(s) :
                LET done == FlushOne(s, at[c], plan) IN
                /\ s' = Tell(done, at[c])
                /\ IF done.dpr[at[c]].write_error = "ok"
                   THEN /\ missing' = [missing EXCEPT ![c] = Live(at[c]) \ done.tape[at[c]]]
                        /\ dirty' = [dirty EXCEPT ![c] = @ \ {at[c]}]
                        /\ FlushEnds(c)
                   ELSE FlushFails(c) /\ UNCHANGED dirty
  <2>1. PICK plan \in Plans(s) :
                /\ s' = Tell(FlushOne(s, at[c], plan), at[c])
                /\ IF FlushOne(s, at[c], plan).dpr[at[c]].write_error = "ok"
                   THEN /\ missing' = [missing EXCEPT ![c] = Live(at[c]) \ FlushOne(s, at[c], plan).tape[at[c]]]
                        /\ dirty' = [dirty EXCEPT ![c] = @ \ {at[c]}]
                        /\ FlushEnds(c)
                   ELSE FlushFails(c) /\ UNCHANGED dirty
    BY <1>4
  <2>2. FlushedIs(s, s', at[c])
    BY <1>1, <1>4, <2>1, FlushTold
  <2>3. Steady(c) /\ Locked(c)
    <3>1. /\ FileStep(s, s', at[c]) /\ s'.ext_queue = s.ext_queue /\ s'.dpr[at[c]].on = s.dpr[at[c]].on
          /\ s'.dpr[at[c]].alt = s.dpr[at[c]].alt
      BY <2>2 DEF FlushedIs
    <3> QED BY <1>1, <1>4, <3>1, LocalSteady
  <2>4. Data(c)
    BY <1>1, <2>2 DEF Data, FlushedIs, FileStep
  <2>5. CASE FlushOne(s, at[c], plan).dpr[at[c]].write_error = "ok"
    <3> DEFINE X == Live(at[c]) \ FlushOne(s, at[c], plan).tape[at[c]]
    <3>1. X \subseteq Live(at[c]) /\ missing' = [missing EXCEPT ![c] = X]
      BY <2>1, <2>5
    <3>2. dirty' \in [Clients -> SUBSET Files] /\ FlushEnds(c)
      BY <1>0, <2>1, <2>5 DEF Types
    <3> HIDE DEF X
    <3> QED BY <1>0, <2>3, <2>4, <3>1, <3>2, FlushEndsDid
  <2>6. CASE FlushOne(s, at[c], plan).dpr[at[c]].write_error # "ok"
    <3>1. FlushFails(c) /\ dirty' = dirty
      BY <2>1, <2>6
    <3> QED BY <1>0, <2>3, <2>4, <3>1, FlushFailsDid
  <2> QED BY <2>5, <2>6
<1> QED BY <1>2, <1>3, <1>4 DEF FlushBody

(* unified_write *)
Tops(c) == Fills(Placed(c), c)
Topped(c) == IF Tops(c) THEN Fill(Placed(c), c) ELSE Placed(c)
Part(c) == IF Tops(c) THEN 1 ELSE 0

\* The open block at the end of the list takes what it can.
LEMMA ToppedOK ==
    ASSUME Control, Exact, NEW c \in Clients, pc[c] = "write"
    PROVE  /\ Grown(s, Topped(c), at[c], IF Tops(c) THEN {arg[c].id} ELSE {}) /\ Sound(Topped(c)) /\ Topped(c).dpr[at[c]].on
           /\ Part(c) \in {0, 1} /\ arg[c].n - Part(c) \in 0..2 /\ arg[c].off + Part(c) \in Nat /\ arg[c].id \in Pos
           /\ arg[c].n - Part(c) = 0 => Tops(c)
<1> DEFINE x == Placed(c)  y == Fill(x, c)
<1>1. at[c] \in Files /\ Sound(s) /\ ArgOK(arg[c])
  BY WritingAt
<1>2. Grown(s, x, at[c], {}) /\ Sound(x)
  BY <1>1, PlacedOK
<1>3. x.dpr[at[c]].on
  BY <1>2 DEF Grown
<1>4. Fills(x, c) => Grown(x, y, at[c], {arg[c].id})
  BY <1>1, <1>2, <1>3, FillOK
<1>5. Part(c) \in {0, 1} /\ arg[c].n - Part(c) \in 0..2 /\ arg[c].off + Part(c) \in Nat /\ arg[c].id \in Pos /\ (arg[c].n - Part(c) = 0 => Tops(c))
  <2>1. arg[c].n \in {1, 2} /\ arg[c].off \in Nat /\ arg[c].id \in Pos
    BY <1>1 DEF ArgOK, Pos
  <2> QED BY <2>1 DEF Part
<1>6. CASE Tops(c)
  <2>1. Topped(c) = y /\ Fills(x, c)
    BY <1>6 DEF Topped, Tops
  <2> DEFINE X == {arg[c].id}
  <2> HIDE DEF x, y, X
  <2>2. Grown(x, y, at[c], X)
    BY <1>4, <2>1 DEF X
  <2>3. Grown(s, y, at[c], X)
    BY <1>2, <2>2, GrownNone
  <2>4. Sound(y) /\ y.dpr[at[c]].on
    BY <1>1, <2>3, GrownSound DEF Grown
  <2> QED BY <1>5, <1>6, <2>1, <2>3, <2>4 DEF X
<1>7. CASE ~Tops(c)
  <2>1. Topped(c) = x
    BY <1>7 DEF Topped
  <2> QED BY <1>2, <1>3, <1>5, <1>7, <2>1
<1> QED BY <1>6, <1>7

\* The write is accepted.
LEMMA AcceptDid ==
    ASSUME Control, Exact, NEW c \in Clients, pc[c] = "write", NEW x, Grown(s, x, at[c], {arg[c].id}),
           s' = [x EXCEPT !.written[at[c]] = @ \cup {arg[c].id}], Leave(c),
           UNCHANGED <<io_lock, dentry, keepalive, cache_requests, open, w, bounds>>,
           spare' \in [Clients -> BOOLEAN], dirty' \in [Clients -> SUBSET Files]
    PROVE  Did(c)
<1> DEFINE f == at[c]  id == arg[c].id  W == x.written[f] \cup {id}
<1>1. op[c] = "write" /\ f \in Files /\ pc[c] \in IoschedHeld /\ pc[c] \in Leavable /\ pc[c] # "idle" /\ Sound(s) /\ ArgOK(arg[c])
  BY WritingAt
<1>2. Sound(x) /\ x \in State
  BY <1>1, GrownSound DEF Sound
<1>3. W \in SUBSET Pos
  <2>1. x.written[f] \in SUBSET Pos
    BY <1>1, <1>2, StateFields
  <2>2. id \in Pos
    BY <1>1 DEF ArgOK, Pos
  <2> QED BY <2>1, <2>2
<1>4. s' = SetWritten(x, f, W)
  BY DEF SetWritten
<1> HIDE DEF W
<1>5. WrittenIs(x, s', f, W)
  BY <1>1, <1>2, <1>3, <1>4, SetWrittenOK
<1>6. Sound(s') /\ FileStep(x, s', f) /\ Held(s', f) = Held(x, f)
  <2>1. Sound(s') /\ FileStep(x, s', f)
    BY <1>1, <1>2, <1>5, WrittenStep
  <2>2. Held(s', f) = Held(x, f)
    BY <1>5 DEF WrittenIs, Held
  <2> QED BY <2>1, <2>2
<1>7. /\ FileStep(s, x, f) /\ x.tape = s.tape /\ x.written = s.written /\ Held(x, f) = Held(s, f) \cup {id} /\ x.dpr[f].on
      /\ ((f \in s.ext_queue <=> s.dpr[f].alt) => (f \in x.ext_queue <=> x.dpr[f].alt))
  BY DEF Grown
<1>8. s'.dpr = x.dpr /\ s'.ext_queue = x.ext_queue /\ s'.tape = x.tape /\ s'.written[f] = s.written[f] \cup {id}
  BY <1>5, <1>7 DEF WrittenIs, W
<1>9. FileStep(s, s', f)
  BY <1>6, <1>7, FileStepTrans
<1>10. Steady(c) /\ Locked(c)
  BY <1>1, <1>7, <1>8, <1>9, LocalSteady
<1>11. Data(c)
  <2>1. Held(s', f) = Held(s, f) \cup {id}
    BY <1>6, <1>7
  <2>2. \A g \in Files \ {f} : s'.tape[g] = s.tape[g]
    BY <1>7, <1>8
  <2>3. Mine(c) = {id}
    BY <1>1 DEF Mine
  <2> QED BY <1>1, <1>7, <1>8, <2>1, <2>2, <2>3 DEF Data
<1> QED BY <1>1, <1>10, <1>11, LeaveDid


\* The whole write fitted into the last request.
LEMMA WriteFitsDid ==
    ASSUME Control, Exact, NEW c \in Clients, pc[c] = "write", arg[c].n - Part(c) = 0,
           s' = [(IF spare[c] THEN FreeBlocks(Topped(c), 1) ELSE Topped(c)) EXCEPT !.written[at[c]] = @ \cup {arg[c].id}], Leave(c),
           UNCHANGED <<io_lock, dentry, keepalive, cache_requests, open, w, bounds>>,
           spare' \in [Clients -> BOOLEAN], dirty' \in [Clients -> SUBSET Files]
    PROVE  Did(c)
<1> DEFINE y == Topped(c)  x == IF spare[c] THEN FreeBlocks(y, 1) ELSE y
           X == {arg[c].id}
<1>1. at[c] \in Files /\ Sound(s)
  BY WritingAt
<1>2. Grown(s, y, at[c], X) /\ Sound(y) /\ y.dpr[at[c]].on /\ y \in State
  BY ToppedOK DEF Sound
<1>3. s' = [x EXCEPT !.written[at[c]] = @ \cup {arg[c].id}]
  OBVIOUS
<1> HIDE DEF y
<1>4. Grown(s, x, at[c], X)
  <2>1. CASE spare[c]
    <3>1. OnlyFree(y, FreeBlocks(y, 1))
      BY <1>2, FreeBlocksIs
    <3>2. Grown(y, FreeBlocks(y, 1), at[c], {})
      BY <1>1, <1>2, <3>1, GrownFree
    <3> HIDE DEF X
    <3>3. Grown(s, FreeBlocks(y, 1), at[c], X \cup {})
      BY <1>2, <3>2, GrownTrans
    <3>4. X \cup {} = X
      OBVIOUS
    <3> QED BY <2>1, <3>3, <3>4
  <2> QED BY <1>2, <2>1
<1> HIDE DEF x
<1> QED BY <1>3, <1>4, AcceptDid

\* The rest of it becomes a new request.
LEMMA WriteAppendsDid ==
    ASSUME Control, Exact, NEW c \in Clients, pc[c] = "write", arg[c].n - Part(c) > 0, spare[c] \/ Topped(c).free > 0,
           s' = [NewRequest(IF spare[c] THEN Topped(c) ELSE [Topped(c) EXCEPT !.free = @ - 1], at[c], arg[c].off + Part(c),
                            arg[c].n - Part(c), arg[c].id)
                 EXCEPT !.written[at[c]] = @ \cup {arg[c].id}], Leave(c),
           UNCHANGED <<io_lock, dentry, keepalive, cache_requests, open, w, bounds>>,
           spare' \in [Clients -> BOOLEAN], dirty' \in [Clients -> SUBSET Files]
    PROVE  Did(c)
<1> DEFINE y == Topped(c)  z == [y EXCEPT !.free = @ - 1]  v == IF spare[c] THEN y ELSE z
           X == {arg[c].id}  Y == IF Tops(c) THEN {arg[c].id} ELSE {}
           off == arg[c].off + Part(c)  n == arg[c].n - Part(c)
           x == NewRequest(v, at[c], off, n, arg[c].id)
<1>1. at[c] \in Files /\ Sound(s)
  BY WritingAt
<1>2. Grown(s, y, at[c], Y) /\ Sound(y) /\ y.dpr[at[c]].on /\ y \in State
  BY ToppedOK DEF Sound
<1>20. off \in Nat /\ n \in {1, 2} /\ arg[c].id \in Pos
  <2>1. n \in 0..2 /\ n > 0 /\ off \in Nat /\ arg[c].id \in Pos
    BY ToppedOK
  <2> HIDE DEF n, off
  <2> QED BY <2>1
<1>3. s' = [x EXCEPT !.written[at[c]] = @ \cup {arg[c].id}]
  OBVIOUS
<1>30. ~spare[c] => y.free > 0
  OBVIOUS
<1> HIDE DEF y, off, n, Y
<1>4. Grown(s, v, at[c], Y)
  <2>1. CASE ~spare[c]
    <3>1. OnlyFree(y, z)
      BY <1>2, <1>30, <2>1, TakeBlockIs
    <3> HIDE DEF z
    <3>2. Grown(y, z, at[c], {})
      BY <1>1, <1>2, <3>1, GrownFree
    <3>3. Grown(s, z, at[c], Y \cup {})
      BY <1>2, <3>2, GrownTrans
    <3>4. Y \cup {} = Y
      OBVIOUS
    <3> QED BY <2>1, <3>3, <3>4
  <2> QED BY <1>2, <2>1
<1> HIDE DEF z, v
<1>5. Sound(v) /\ v.dpr[at[c]].on
  BY <1>1, <1>4, GrownSound DEF Grown
<1>6. Grown(v, x, at[c], X)
  BY <1>1, <1>5, <1>20, NewRequestOK
<1> HIDE DEF x
<1>7. Grown(s, x, at[c], X)
  <2>1. Y \cup X = X
    BY DEF Y
  <2> HIDE DEF X
  <2>2. Grown(s, x, at[c], Y \cup X)
    BY <1>4, <1>6, GrownTrans
  <2> QED BY <2>1, <2>2
<1> QED BY <1>3, <1>7, AcceptDid

\* No block is to be had: the write waits for one.
WaitSame(c) ==
    /\ arg' = [arg EXCEPT ![c].off = arg[c].off + Part(c), ![c].n = arg[c].n - Part(c)]
    /\ iosched_lock' = [iosched_lock EXCEPT ![at[c]] = None]
    /\ held' = [held EXCEPT ![c] = "none"]
    /\ cache_requests' = cache_requests + 1
    /\ Goto(c, "wait")
    /\ op' = op /\ at' = at /\ spare' = spare /\ dirty' = dirty /\ missing' = missing
    /\ io_lock' = io_lock /\ dentry' = dentry /\ keepalive' = keepalive /\ open' = open /\ w' = w
    /\ nwrites' = nwrites /\ nchanges' = nchanges

\* What is left of the write.
LEMMA ArgCut ==
    ASSUME NEW a \in [n : 0..2, id : Nat, off : Nat], NEW o \in Nat, NEW n \in 0..2
    PROVE  /\ [a EXCEPT !.off = o, !.n = n] \in [n : 0..2, id : Nat, off : Nat]
           /\ [a EXCEPT !.off = o, !.n = n].n = n /\ [a EXCEPT !.off = o, !.n = n].id = a.id
OBVIOUS

\* The call releases its locks and waits.
LEMMA WriteWaitsDid ==
    ASSUME Control, Exact, NEW c \in Clients, pc[c] = "write", arg[c].n - Part(c) > 0, s' = Topped(c), WaitSame(c)
    PROVE  Did(c)
<1> DEFINE a == [arg[c] EXCEPT !.off = arg[c].off + Part(c), !.n = arg[c].n - Part(c)]
           Y == IF Tops(c) THEN {arg[c].id} ELSE {}
<1>0. Types /\ Places /\ Locks
  BY DEF Control
<1>1. /\ op[c] = "write" /\ at[c] \in Files /\ pc[c] \in IoschedHeld /\ pc[c] # "idle" /\ Sound(s) /\ ArgOK(arg[c]) /\ c \in Threads
      /\ keepalive
  BY WritingAt, BusyAlive DEF Threads
<1>2. Grown(s, s', at[c], Y) /\ Sound(s')
  BY ToppedOK
<1>3. a \in [n : 0..2, id : Nat, off : Nat] /\ a.n > 0 /\ a.id > 0 /\ a.id = arg[c].id
  <2>1. arg[c].n - Part(c) \in 0..2 /\ arg[c].off + Part(c) \in Nat /\ arg[c].id \in Pos
    BY ToppedOK
  <2>2. arg[c] \in [n : 0..2, id : Nat, off : Nat]
    BY <1>1 DEF ArgOK
  <2>3. a \in [n : 0..2, id : Nat, off : Nat] /\ a.n = arg[c].n - Part(c) /\ a.id = arg[c].id
    BY <2>1, <2>2, ArgCut
  <2> QED BY <2>1, <2>3 DEF Pos
<1>4. arg' \in [Clients -> [n : 0..2, id : Nat, off : Nat]] /\ arg'[c] = a /\ \A d \in Clients \ {c} : arg'[d] = arg[d]
  <2>1. arg \in [Clients -> [n : 0..2, id : Nat, off : Nat]]
    BY <1>0 DEF Types
  <2>2. arg' = [arg EXCEPT ![c] = a]
    <3>3. arg' = [arg EXCEPT ![c] = [arg[c] EXCEPT !.off = arg[c].off + Part(c), !.n = arg[c].n - Part(c)]]
      BY <2>1 DEF WaitSame
    <3> QED BY <3>3
  <2> HIDE DEF a
  <2> QED BY <1>3, <2>1, <2>2
<1> HIDE DEF a, Y
<1>5. /\ FileStep(s, s', at[c]) /\ s'.tape = s.tape /\ s'.written = s.written /\ Held(s', at[c]) = Held(s, at[c]) \cup Y /\ s'.dpr[at[c]].on
      /\ ((at[c] \in s.ext_queue <=> s.dpr[at[c]].alt) => (at[c] \in s'.ext_queue <=> s'.dpr[at[c]].alt))
  BY <1>2 DEF Grown
<1>6. Steady(c) /\ Locked(c)
  BY <1>1, <1>5, LocalSteady
<1>7. Continues(c)
  BY <1>3, <1>4 DEF Continues, WaitSame
<1>8. Data(c)
  <2>1. Y \subseteq Mine(c)
    BY <1>1 DEF Y, Mine
  <2> QED BY <1>1, <1>5, <1>7, <2>1 DEF Data
<1>9. pc'[c] = "wait" /\ (\A d \in Clients \ {c} : pc'[d] = pc[d]) /\ pc' \in [Clients -> Points]
  BY <1>0 DEF WaitSame, Goto, Types, Points, OnFile
<1>10. held'[c] = "none" /\ (\A t \in Threads \ {c} : held'[t] = held[t]) /\ held' \in [Threads -> {"none", "read", "write"}]
  BY <1>0, <1>1 DEF WaitSame, Types
<1>11. iosched_lock' \in [Files -> Clients \cup {None}] /\ \A g \in Files : iosched_lock'[g] = IF g = at[c] THEN None ELSE iosched_lock[g]
  BY <1>0, <1>1 DEF WaitSame, Types
<1>12. op' = op /\ at' = at /\ w' = w /\ io_lock' = io_lock /\ keepalive' = keepalive /\ missing' = missing /\ nwrites' = nwrites
       /\ cache_requests' = cache_requests + 1
  BY DEF WaitSame
<1>13. Types'
  BY <1>0, <1>2, <1>4, <1>9, <1>10, <1>11 DEF Types, WaitSame, Sound
<1>14. Moves(c)
  <2>1. Writer \in Threads \ {c} /\ \A d \in Clients \ {c} : d \in Threads \ {c}
    BY ThreadsOK DEF Threads, Writer
  <2>2. PlaceOK(pc'[c], op'[c], at'[c], arg'[c])
    <3>1. op[c] \in OpsAt("wait") /\ "wait" \in OnFile /\ op[c] \in Ops
      BY <1>0, <1>1, OpsOf DEF OnFile, Places
    <3> QED BY <1>1, <1>3, <1>4, <1>9, <1>12, <3>1 DEF PlaceOK
  <2>3. LocksTaken(c)
    <3>1. LockOf("wait") = "none" /\ "wait" \notin IoschedHeld
      BY DEF LockOf, ReadHeld, WriteHeld, IoschedHeld
    <3>2. \A g \in Files : iosched_lock[g] = c <=> g = at[c]
      BY <1>0, <1>1 DEF Locks
    <3> QED BY <1>9, <1>10, <1>11, <3>1, <3>2 DEF LocksTaken
  <2> QED BY <1>4, <1>1, <1>9, <1>10, <1>12, <2>1, <2>2, <2>3 DEF Moves, Stays, Serially
<1>15. BetweenAt(s', pc'[c], at'[c])
  BY <1>9 DEF BetweenAt
<1>16. Calls(c)
  BY <1>1, <1>7, <1>9, <1>12 DEF Calls
<1>17. Waits(c)
  <2>1. cache_requests \in Nat
    BY <1>0 DEF Types
  <2> QED BY <1>9, <1>12, <2>1 DEF Waits, WaitPoints
<1> QED BY <1>1, <1>6, <1>8, <1>12, <1>13, <1>14, <1>15, <1>16, <1>17 DEF Did

\* unified_write, in all three cases.
LEMMA WriteDid == ASSUME Control, Exact, NEW c \in Clients, Write(c) PROVE Did(c)
<1>1. pc[c] = "write"
  BY DEF Write
<1>2. /\ io_lock' = io_lock /\ dentry' = dentry /\ keepalive' = keepalive /\ open' = open /\ w' = w /\ bounds' = bounds
      /\ nwrites' = nwrites /\ nchanges' = nchanges
  BY DEF Write, bounds
<1>3. spare \in [Clients -> BOOLEAN] /\ dirty \in [Clients -> SUBSET Files]
  BY DEF Control, Types
<1>4. at[c] \in Files
  BY <1>1, WritingAt
<1>5. \/ /\ arg[c].n - Part(c) = 0
         /\ s' = [(IF spare[c] THEN FreeBlocks(Topped(c), 1) ELSE Topped(c)) EXCEPT !.written[at[c]] = @ \cup {arg[c].id}]
         /\ spare' = [spare EXCEPT ![c] = FALSE] /\ dirty' = [dirty EXCEPT ![c] = @ \cup {at[c]}]
         /\ Leave(c) /\ UNCHANGED cache_requests
      \/ /\ arg[c].n - Part(c) > 0 /\ (spare[c] \/ Topped(c).free > 0)
         /\ s' = [NewRequest(IF spare[c] THEN Topped(c) ELSE [Topped(c) EXCEPT !.free = @ - 1], at[c], arg[c].off + Part(c),
                            arg[c].n - Part(c), arg[c].id)
                 EXCEPT !.written[at[c]] = @ \cup {arg[c].id}]
         /\ spare' = [spare EXCEPT ![c] = FALSE] /\ dirty' = [dirty EXCEPT ![c] = @ \cup {at[c]}]
         /\ Leave(c) /\ UNCHANGED cache_requests
      \/ /\ arg[c].n - Part(c) > 0
         /\ s' = Topped(c)
         /\ arg' = [arg EXCEPT ![c].off = arg[c].off + Part(c), ![c].n = arg[c].n - Part(c)]
         /\ iosched_lock' = [iosched_lock EXCEPT ![at[c]] = None]
         /\ held' = [held EXCEPT ![c] = "none"]
         /\ cache_requests' = cache_requests + 1
         /\ Goto(c, "wait")
         /\ UNCHANGED <<op, at, spare, dirty, missing>>
  BY DEF Write, Part, Tops, Topped
<1>6. spare' = [spare EXCEPT ![c] = FALSE] /\ dirty' = [dirty EXCEPT ![c] = @ \cup {at[c]}] =>
        spare' \in [Clients -> BOOLEAN] /\ dirty' \in [Clients -> SUBSET Files]
  BY <1>3, <1>4
<1>7. arg' = [arg EXCEPT ![c].off = arg[c].off + Part(c), ![c].n = arg[c].n - Part(c)]
         /\ iosched_lock' = [iosched_lock EXCEPT ![at[c]] = None]
         /\ held' = [held EXCEPT ![c] = "none"]
         /\ cache_requests' = cache_requests + 1
         /\ Goto(c, "wait")
         /\ UNCHANGED <<op, at, spare, dirty, missing>> => WaitSame(c)
  BY <1>2 DEF WaitSame
<1> QED BY <1>1, <1>2, <1>5, <1>6, <1>7, WriteFitsDid, WriteAppendsDid, WriteWaitsDid

(* What a step that serves many files, or the writer thread's own, does to the data. *)
FlightOf(wr, f) == IF wr.file = f THEN Ids(wr.local) ELSE {}
LiveOf(st, wr, f) == Held(st, f) \cup FlightOf(wr, f)
Carried(f) ==
    /\ s'.written[f] \subseteq s.written[f]
    /\ NoFaults => s'.written[f] = s.written[f]
    /\ ErrorsReach => \A e \in s'.written[f] : e \in LiveOf(s, w, f) => e \in LiveOf(s', w', f)
    /\ NoFaults => LiveOf(s', w', f) \subseteq LiveOf(s, w, f)
    /\ NoFaults => s.tape[f] \subseteq s'.tape[f] /\ FlightOf(w, f) \subseteq s'.tape[f] \cup FlightOf(w', f)

\* Live data, by the state and the writer thread,
LEMMA LiveNow == \A f \in Files : Live(f) = LiveOf(s, w, f) /\ InFlight(f) = FlightOf(w, f)
BY DEF Live, InFlight, LiveOf, FlightOf

\* and after a step.
LEMMA LiveAfter == ASSUME NEW f \in Files PROVE Live(f)' = LiveOf(s', w', f) /\ InFlight(f)' = FlightOf(w', f)
BY DEF Live, InFlight, LiveOf, FlightOf
Carries ==
    /\ op' = op /\ at' = at /\ arg' = arg /\ missing' = missing /\ nwrites' = nwrites
    /\ \A d \in Clients : pc'[d] = pc[d] \/ pc'[d] \in WriteHeld
    /\ \A f \in Files : Carried(f)

\* A step that carries all data keeps DataInv.
LEMMA CarriesData ==
    ASSUME Control, DataInv, Carries PROVE DataInv'
<1>0. op' = op /\ at' = at /\ arg' = arg /\ missing' = missing /\ nwrites' = nwrites
  BY DEF Carries
<1>1. ErrorsReach => NoSilentLoss'
  <2>1. SUFFICES ASSUME ErrorsReach, NEW f \in Files, NEW e \in s'.written[f] PROVE e \in Live(f)'
    BY DEF NoSilentLoss
  <2>2. Carried(f)
    BY DEF Carries
  <2>3. e \in s.written[f]
    BY <2>2 DEF Carried
  <2>4. e \in LiveOf(s, w, f)
    BY <2>1, <2>3, LiveNow DEF DataInv, NoSilentLoss
  <2>5. e \in LiveOf(s', w', f)
    BY <2>1, <2>2, <2>4 DEF Carried
  <2> QED BY <2>5, LiveAfter
<1>2. ASSUME NoFaults PROVE Numbered'
  <2>1. Numbered
    BY <1>2 DEF DataInv
  <2>2. ASSUME NEW f \in Files PROVE Live(f)' \subseteq 1..nwrites'
    <3>1. Live(f)' \subseteq Live(f)
      BY <1>2, LiveNow, LiveAfter DEF Carries, Carried
    <3>2. Live(f) \subseteq 1..nwrites
      BY <2>1 DEF Numbered
    <3> QED BY <1>0, <3>1, <3>2
  <2> QED BY <1>0, <2>1, <2>2 DEF Numbered
<1>3. ASSUME NoFaults PROVE NoResurrection'
  <2>1. NoResurrection
    BY <1>3 DEF DataInv
  <2>2. ASSUME NEW f \in Files PROVE Live(f)' \subseteq Live(f) /\ s'.written[f] = s.written[f]
    BY <1>3, LiveNow, LiveAfter DEF Carries, Carried
  <2>3. ASSUME NEW f \in Files, \A c \in Clients : ~(at'[c] = f /\ op'[c] = "truncate")
        PROVE  Live(f)' \subseteq s'.written[f] \cup {arg'[c].id : c \in {x \in Clients : at'[x] = f}}
    <3>1. Live(f) \subseteq s.written[f] \cup {arg[c].id : c \in {x \in Clients : at[x] = f}}
      BY <1>0, <2>1, <2>3 DEF NoResurrection
    <3> QED BY <1>0, <2>2, <3>1
  <2> QED BY <2>3 DEF NoResurrection
<1>4. ASSUME NoFaults PROVE ReadOK'
  <2>1. ReadOK
    BY <1>4 DEF DataInv
  <2>2. SUFFICES ASSUME NEW c \in Clients, NEW i \in missing'[c], pc'[c] \in {"read_tape", "read_done"}
                 PROVE  /\ pc'[c] = "read_tape" => i \in (s.tape[at[c]] \cup InFlight(at[c]))' \/ Forgotten(at[c], i)'
                        /\ pc'[c] = "read_done" => Forgotten(at[c], i)'
    BY DEF ReadOK
  <2>3. pc'[c] = pc[c] /\ i \in missing[c]
    BY <1>0, <2>2 DEF Carries, WriteHeld
  <2>4. at[c] \in Files
    BY <2>2, <2>3 DEF Control, Places, OnFile, ReadHeld
  <2>5. PICK f \in Files : f = at[c]
    BY <2>4
  <2>6. Carried(f) /\ at'[c] = f
    BY <1>0, <2>5 DEF Carries
  <2>7. /\ pc[c] = "read_tape" => i \in s.tape[f] \cup FlightOf(w, f) \/ Forgotten(f, i)
        /\ pc[c] = "read_done" => Forgotten(f, i)
    <3>1. InFlight(f) = FlightOf(w, f)
      BY LiveNow
    <3> QED BY <2>1, <2>3, <2>5, <3>1 DEF ReadOK
  <2>8. Forgotten(f, i) => i \notin s'.written[f] /\ \A d \in Clients : at'[d] = f /\ op'[d] = "write" => arg'[d].id # i
    BY <1>0, <1>4, <2>6 DEF Forgotten, Carried
  <2>9. i \in s.tape[f] \cup FlightOf(w, f) => i \in s'.tape[f] \cup FlightOf(w', f)
    BY <1>4, <2>6 DEF Carried
  <2>10. (i \notin s'.written[f] /\ \A d \in Clients : at'[d] = f /\ op'[d] = "write" => arg'[d].id # i) <=> Forgotten(at[c], i)'
    BY <2>6 DEF Forgotten
  <2>11. (s.tape[at[c]] \cup InFlight(at[c]))' = s'.tape[f] \cup FlightOf(w', f)
    BY <2>6 DEF InFlight, FlightOf
  <2> QED BY <2>3, <2>7, <2>8, <2>9, <2>10, <2>11
<1> QED BY <1>1, <1>2, <1>3, <1>4 DEF DataInv

(* ... and to what other calls rely on. *)
Spared(f) ==
    /\ iosched_lock[f] = None \/ (s'.dpr[f] = s.dpr[f] /\ s'.written[f] = s.written[f])
    /\ ~s.dpr[f].on => ~s'.dpr[f].on /\ s'.dpr[f].reqs = <<>>
    /\ s'.written[f] \subseteq s.written[f]
Spares ==
    /\ at' = at
    /\ \A d \in Clients : pc'[d] = pc[d] \/ (pc'[d] \in WriteHeld /\ (pc'[d] = "flushed" => Flushed(s')))
    /\ ReadLockFree \/ s'.dpr = s.dpr
    /\ \A f \in Files : Spared(f)

\* A step that spares all files keeps Between.
LEMMA SparesBetween ==
    ASSUME Control, Spares PROVE Between'
<1>1. SUFFICES ASSUME NEW d \in Clients PROVE BetweenAt(s', pc'[d], at'[d])
  BY DEF Between, BetweenAt
<1>2. BetweenAt(s, pc[d], at[d]) /\ at'[d] = at[d] /\ Locks /\ Places
  BY BetweenIs DEF Control, Spares
<1>3. CASE pc'[d] # pc[d]
  <2>1. pc'[d] \in WriteHeld /\ (pc'[d] = "flushed" => Flushed(s'))
    BY <1>3 DEF Spares
  <2> QED BY <2>1 DEF BetweenAt, WriteHeld
<1>4. CASE pc'[d] = pc[d]
  <2>1. pc[d] = "flushed" => Flushed(s')
    <3>1. SUFFICES ASSUME pc[d] = "flushed" PROVE Flushed(s')
      OBVIOUS
    <3>2. held[d] = "write" /\ d \in Threads
      BY <1>2, <3>1 DEF Locks, ReadHeld, WriteHeld, Threads
    <3>3. s'.dpr = s.dpr
      BY <3>2 DEF Spares, ReadLockFree
    <3> QED BY <1>2, <3>1, <3>3 DEF BetweenAt, Flushed
  <2>2. ASSUME pc[d] \in {"free_io", "trunc_io", "trunc_raw"} PROVE BetweenAt(s', pc[d], at[d])
    <3>1. at[d] \in Files
      BY <1>2, <2>2 DEF Places, OnFile, ReadHeld
    <3>2. Spared(at[d])
      BY <3>1 DEF Spares
    <3>3. CASE pc[d] # "trunc_raw"
      <4>1. iosched_lock[at[d]] = d /\ d # None
        BY <1>2, <2>2, <3>1, <3>3, ThreadsOK DEF Locks, IoschedHeld, ReadHeld
      <4>2. s'.dpr[at[d]] = s.dpr[at[d]] /\ s'.written[at[d]] = s.written[at[d]]
        BY <3>2, <4>1 DEF Spared
      <4> QED BY <1>2, <2>2, <4>2 DEF BetweenAt
    <3>4. CASE pc[d] = "trunc_raw"
      <4>1. ~s.dpr[at[d]].on /\ s.written[at[d]] = {}
        BY <1>2, <3>4 DEF BetweenAt
      <4> QED BY <3>2, <3>4, <4>1 DEF Spared, BetweenAt
    <3> QED BY <3>3, <3>4
  <2> QED BY <1>2, <1>4, <2>1, <2>2 DEF BetweenAt
<1> QED BY <1>3, <1>4

(* A step of the writer thread. *)
Apart == UNCHANGED <<iosched_lock, dentry, cache_requests, keepalive, pc, op, at, arg, spare, open, dirty, nwrites, nchanges, missing>>
HeldBy ==
    /\ \A d \in Clients : held'[d] = held[d]
    /\ held'[Writer] = IF w'.pc \in WBusy THEN "read" ELSE "none"
    /\ held'[Writer] = "read" => held[Writer] = "read" \/ ReadLockFree
    /\ \A f \in Files : io_lock'[f] = Writer <=> w'.pc = "send" /\ w'.file = f
Tends == Types' /\ Apart /\ HeldBy /\ WriterOK' /\ Shutdown' /\ Exact' /\ Spares /\ Carries

\* The locks.
LEMMA TendsLocks == ASSUME Control, Apart, HeldBy PROVE Locks'
<1>1. Locks /\ iosched_lock' = iosched_lock /\ pc' = pc /\ at' = at
  BY DEF Control, Apart
<1>2. \A t \in Threads : t \in Clients \/ t = Writer
  BY DEF Threads
<1>3. ASSUME NEW t \in Threads, NEW u \in Threads, held'[t] = "write", t # u PROVE held'[u] = "none"
  <2>1. t # Writer /\ t \in Clients /\ held[t] = "write"
    BY <1>2, <1>3 DEF HeldBy
  <2>2. held[u] = "none"
    BY <1>1, <1>3, <2>1 DEF Locks
  <2>3. CASE u \in Clients
    BY <2>2, <2>3 DEF HeldBy
  <2>4. CASE u = Writer
    <3>1. ~ReadLockFree
      BY <2>1 DEF ReadLockFree, Threads
    <3> QED BY <2>2, <2>4, <3>1 DEF HeldBy
  <2> QED BY <1>2, <2>3, <2>4
<1> QED BY <1>1, <1>3 DEF Locks, HeldBy

\* A step of the writer thread keeps the invariant.
LEMMA TendsInv == ASSUME UInv, Tends PROVE UInv'
<1>0. Control /\ Exact /\ DataInv /\ Types' /\ Apart /\ HeldBy /\ WriterOK' /\ Shutdown' /\ Exact' /\ Spares /\ Carries
  BY DEF UInv, Tends
<1>1. pc' = pc /\ op' = op /\ at' = at /\ arg' = arg /\ cache_requests' = cache_requests
  BY <1>0 DEF Apart
<1>2. Places' /\ Serial' /\ Waiting'
  BY <1>0, <1>1 DEF Control, Places, Serial, Waiting
<1>3. Locks'
  BY <1>0, TendsLocks
<1>4. Between'
  BY <1>0, SparesBetween
<1>5. DataInv'
  BY <1>0, CarriesData
<1> QED BY <1>0, <1>2, <1>3, <1>4, <1>5 DEF UInv, Control

(* The writer thread between two files. *)
LEMMA NoneInFlight == ASSUME NEW st, NEW wr, NEW f, wr.local = <<>> PROVE FlightOf(wr, f) = {} /\ LiveOf(st, wr, f) = Held(st, f)
BY IdsEmpty DEF FlightOf, LiveOf

\* One that changes no file.
LEMMA LooksTends ==
    ASSUME UInv, s' = s, w' \in WriterState, w.local = <<>>, w'.local = <<>>, Apart, io_lock' = io_lock,
           held' \in [Threads -> {"none", "read", "write"}], w'.pc \notin {"send", "fail"}, w'.pc \in WFile <=> w'.file \in Files,
           \A d \in Clients : held'[d] = held[d], held'[Writer] = IF w'.pc \in WBusy THEN "read" ELSE "none",
           held'[Writer] = "read" => held[Writer] = "read" \/ ReadLockFree,
           w'.pc \in {"last_flush", "last_index", "exited", "joined"} => ~keepalive /\ w'.pc = "last_flush", w.pc # "joined"
    PROVE  Tends
<1>0. Control /\ Exact /\ Types /\ Locks /\ WriterOK /\ Shutdown
  BY DEF UInv, Control
<1>1. Types'
  BY <1>0 DEF Types, Apart
<1>2. w.pc # "send"
  BY <1>0 DEF WriterOK
<1>3. HeldBy
  BY <1>0, <1>2 DEF HeldBy, Locks
<1>4. WriterOK'
  BY DEF WriterOK
<1>5. Shutdown'
  <2>1. keepalive' = keepalive /\ pc' = pc
    BY DEF Apart
  <2> QED BY <1>0, <2>1 DEF Shutdown
<1>6. Exact'
  BY <1>0 DEF Exact
<1>7. Spares
  <2>1. \A f \in Files : ~s.dpr[f].on => s.dpr[f].reqs = <<>>
    BY <1>0, NoDprType DEF Exact, FilesOK, FileOK
  <2> QED BY <2>1 DEF Spares, Spared, Apart
<1>8. Carries
  <2>1. ASSUME NEW f \in Files PROVE Carried(f)
    <3>1. FlightOf(w, f) = {} /\ LiveOf(s, w, f) = Held(s, f)
      BY NoneInFlight
    <3>2. FlightOf(w', f) = {} /\ LiveOf(s', w', f) = Held(s', f)
      BY NoneInFlight
    <3> QED BY <3>1, <3>2 DEF Carried
  <2> QED BY <2>1 DEF Carries, Apart
<1> QED BY <1>1, <1>3, <1>4, <1>5, <1>6, <1>7, <1>8 DEF Tends

\* The clients' variables stay.
LEMMA ClientApart == ASSUME UNCHANGED <<iosched_lock, dentry, cache_requests, keepalive, Client>> PROVE Apart
BY DEF Apart, Client, calls, handles, bounds

\* What the invariant says of the writer thread.
LEMMA WriterNow ==
    ASSUME UInv
    PROVE  /\ Control /\ Exact /\ Types /\ Locks /\ WriterOK /\ Shutdown /\ w \in WriterState /\ s \in State
           /\ (w.pc \notin {"send", "fail"} => w.local = <<>>) /\ (w.pc \in WFile <=> w.file \in Files)
           /\ held[Writer] = IF w.pc \in WBusy THEN "read" ELSE "none"
           /\ held \in [Threads -> {"none", "read", "write"}] /\ Writer \in Threads /\ Writer \notin Clients /\ None \notin Files
<1>1. Control /\ Exact /\ Types /\ Locks /\ WriterOK /\ Shutdown
  BY DEF UInv, Control
<1>2. Writer \in Threads /\ Writer \notin Clients /\ None \notin Files
  BY ThreadsOK DEF Threads, Writer
<1> QED BY <1>1, <1>2 DEF Types, WriterOK, Locks

\* The writer thread chooses a queue, or what else to do.
LEMMA WChooseTends == ASSUME UInv, WChoose PROVE Tends
<1>1. w.pc = "idle" /\ s' = s /\ io_lock' = io_lock /\ held' = held /\ Apart
  BY ClientApart DEF WChoose, locks
<1>2. /\ w \in WriterState /\ w.local = <<>> /\ w.file \notin Files /\ held[Writer] = "none" /\ held \in [Threads -> {"none", "read", "write"}]
  BY <1>1, WriterNow DEF WFile, WBusy
<1>3. \/ ~keepalive /\ w' = [w EXCEPT !.pc = "last_flush"]
      \/ w' = [w EXCEPT !.pc = "index"]
      \/ \E q \in {"DP", "PARTIAL"} : w' = [w EXCEPT !.pc = "lock", !.queue = q]
  <2> DEFINE choice == CASE cache_requests = 0 -> "DP"
                    [] cache_requests > 0 /\ s.count["DP"] > 2 * cache_requests -> "DP"
                    [] cache_requests > 0 /\ s.count["DP"] <= 2 * cache_requests
                         /\ s.count["IP"] < Watermark -> "PARTIAL"
                    [] OTHER -> "IP"
  <2>1. choice \in {"DP", "PARTIAL", "IP"}
    OBVIOUS
  <2>2. w' = CASE ~keepalive -> [w EXCEPT !.pc = "last_flush"]
              [] keepalive /\ choice = "IP" -> [w EXCEPT !.pc = "index"]
              [] OTHER -> [w EXCEPT !.pc = "lock", !.queue = choice]
    BY DEF WChoose
  <2>3. keepalive \in BOOLEAN
    BY WriterNow DEF Types
  <2> HIDE DEF choice
  <2>4. CASE ~keepalive
    BY <2>2, <2>4
  <2>5. CASE keepalive /\ choice = "IP"
    BY <2>2, <2>5
  <2>6. CASE keepalive /\ choice # "IP"
    BY <2>1, <2>2, <2>6
  <2> QED BY <2>3, <2>4, <2>5, <2>6
<1>4. w' \in WriterState /\ w'.local = <<>> /\ w'.file = w.file /\ w'.pc \in {"last_flush", "index", "lock"} /\ (w'.pc = "last_flush" => ~keepalive)
  BY <1>2, <1>3 DEF WriterState, WPoints
<1>5. w'.pc \notin WFile /\ w'.pc \notin WBusy
  BY <1>4 DEF WFile, WBusy
<1> QED BY <1>1, <1>2, <1>4, <1>5, LooksTends

\* It takes unified_data.lock.
LEMMA WLockTends == ASSUME UInv, WLock PROVE Tends
<1>1. w.pc = "lock" /\ s' = s /\ io_lock' = io_lock /\ ReadLockFree /\ held' = [held EXCEPT ![Writer] = "read"] /\ Apart
  BY ClientApart DEF WLock
<1>2. /\ w \in WriterState /\ w.local = <<>> /\ w.file \notin Files /\ held \in [Threads -> {"none", "read", "write"}]
      /\ Writer \in Threads /\ Writer \notin Clients /\ s \in State
  BY <1>1, WriterNow DEF WFile
<1> DEFINE n == Cardinality(s.queue["DP"]) + (IF w.queue = "PARTIAL" THEN Cardinality(s.queue["PARTIAL"]) ELSE 0)
<1>3. n \in Nat
  <2>1. \A q \in Queues : s.queue[q] \subseteq Files
    BY <1>2, StateFields
  <2>2. \A q \in Queues : Cardinality(s.queue[q]) \in Nat
    BY <2>1, ThreadsOK, FS_Subset, FS_CardinalityType
  <2>3. Cardinality(s.queue["DP"]) \in Nat /\ Cardinality(s.queue["PARTIAL"]) \in Nat
    BY <2>2 DEF Queues
  <2> QED BY <2>3
<1>4. w' = [w EXCEPT !.pc = "pick", !.left = n]
  BY DEF WLock
<1> HIDE DEF n
<1>5. w' \in WriterState /\ w'.local = <<>> /\ w'.file = w.file /\ w'.pc = "pick"
  BY <1>2, <1>3, <1>4 DEF WriterState, WPoints, WBusy
<1>6. w'.pc \notin WFile /\ w'.pc \in WBusy
  BY <1>5 DEF WFile, WBusy
<1>7. held' \in [Threads -> {"none", "read", "write"}] /\ (\A d \in Clients : held'[d] = held[d]) /\ held'[Writer] = "read"
  BY <1>1, <1>2 DEF Threads
<1> QED BY <1>1, <1>2, <1>5, <1>6, <1>7, LooksTends

\* It takes the next file of the queue.
LEMMA WPickTends == ASSUME UInv, WPick PROVE Tends
<1>1. w.pc = "pick" /\ w.left > 0 /\ s' = s /\ io_lock' = io_lock /\ held' = held /\ Apart
  BY ClientApart DEF WPick, locks
<1>2. /\ w \in WriterState /\ w.local = <<>> /\ held \in [Threads -> {"none", "read", "write"}] /\ held[Writer] = "read" /\ s \in State
  BY <1>1, WriterNow DEF WBusy
<1>3. PICK f \in WCandidates : w' = [w EXCEPT !.pc = "take", !.file = f, !.left = @ - 1]
  BY DEF WPick
<1>4. f \in Files
  <2>1. \A q \in Queues : s.queue[q] \subseteq Files
    BY <1>2, StateFields
  <2>2. s.queue["DP"] \subseteq Files /\ s.queue["PARTIAL"] \subseteq Files
    BY <2>1 DEF Queues
  <2> QED BY <1>3, <2>2 DEF WCandidates
<1>5. w.left \in Nat /\ w.left - 1 \in Nat
  BY <1>1, <1>2 DEF WriterState
<1>6. w' \in WriterState /\ w'.local = <<>> /\ w'.file = f /\ w'.pc = "take"
  BY <1>2, <1>3, <1>4, <1>5 DEF WriterState, WPoints, WBusy
<1>7. w'.pc \in WFile /\ w'.pc \in WBusy
  BY <1>6 DEF WFile, WBusy
<1> QED BY <1>1, <1>2, <1>4, <1>6, <1>7, LooksTends

\* It has no file left.
LEMMA WDoneTends == ASSUME UInv, WDone PROVE Tends
<1>1. w.pc = "pick" /\ s' = s /\ io_lock' = io_lock /\ held' = [held EXCEPT ![Writer] = "none"] /\ w' = IdleWriter /\ Apart
  BY ClientApart DEF WDone
<1>2. /\ w.local = <<>> /\ held \in [Threads -> {"none", "read", "write"}]
      /\ Writer \in Threads /\ Writer \notin Clients /\ None \notin Files
  BY <1>1, WriterNow
<1>5. w' \in WriterState /\ w'.local = <<>> /\ w'.file = None /\ w'.pc = "idle"
  BY <1>1 DEF IdleWriter, WriterState, WPoints, Errors
<1>6. w'.pc \notin WFile /\ w'.pc \notin WBusy
  BY <1>5 DEF WFile, WBusy
<1>7. held' \in [Threads -> {"none", "read", "write"}] /\ (\A d \in Clients : held'[d] = held[d]) /\ held'[Writer] = "none"
  BY <1>1, <1>2 DEF Threads
<1> QED BY <1>1, <1>2, <1>5, <1>6, <1>7, LooksTends

\* The file it chose has left the queue.
LEMMA WGoneTends == ASSUME UInv, WGone PROVE Tends
<1>1. w.pc = "take" /\ s' = s /\ io_lock' = io_lock /\ held' = held /\ w' = [w EXCEPT !.pc = "pick", !.file = None] /\ Apart
  BY ClientApart DEF WGone, locks
<1>2. /\ w \in WriterState /\ w.local = <<>> /\ held \in [Threads -> {"none", "read", "write"}] /\ held[Writer] = "read" /\ None \notin Files
  BY <1>1, WriterNow DEF WBusy
<1>6. w' \in WriterState /\ w'.local = <<>> /\ w'.file = None /\ w'.pc = "pick"
  BY <1>1, <1>2 DEF WriterState, WPoints, WBusy
<1>7. w'.pc \notin WFile /\ w'.pc \in WBusy
  BY <1>6 DEF WFile, WBusy
<1> QED BY <1>1, <1>2, <1>6, <1>7, LooksTends

(* Steps under the write lock. *)
LEMMA AllOut ==
    ASSUME UInv, WriteLockFree
    PROVE  w.pc \notin WBusy /\ w.local = <<>> /\ ReadLockFree /\ \A f \in Files : iosched_lock[f] = None
<1>1. w.pc \notin WBusy
  BY WriterNow DEF WriteLockFree
<1>2. w.local = <<>>
  BY <1>1, WriterNow DEF WBusy
<1>3. ReadLockFree
  BY DEF ReadLockFree, WriteLockFree
<1>4. ASSUME NEW f \in Files, iosched_lock[f] # None PROVE FALSE
  <2>1. iosched_lock[f] \in Clients /\ Locks
    BY <1>4, WriterNow DEF Types
  <2>2. PICK c \in Clients : iosched_lock[f] = c
    BY <2>1
  <2>3. pc[c] \in ReadHeld
    BY <2>1, <2>2 DEF Locks, IoschedHeld
  <2>4. held[c] = "read" /\ c \in Threads
    BY <2>1, <2>3 DEF Locks, Threads
  <2> QED BY <2>4 DEF WriteLockFree
<1> QED BY <1>1, <1>2, <1>3, <1>4

Served(f) ==
    /\ ~s.dpr[f].on => ~s'.dpr[f].on
    /\ s'.written[f] \subseteq s.written[f]
    /\ NoFaults => s'.written[f] = s.written[f]
    /\ ErrorsReach => \A e \in s'.written[f] : e \in Held(s, f) => e \in Held(s', f)
    /\ Held(s', f) \subseteq Held(s, f)
    /\ NoFaults => s.tape[f] \subseteq s'.tape[f]

\* What serving a file means to the calls and to the data.
LEMMA ServedAll ==
    ASSUME UInv, w.local = <<>>, w'.local = <<>>, FilesOK(s'), NEW f \in Files, iosched_lock[f] = None, Served(f)
    PROVE  Spared(f) /\ Carried(f)
<1>1. FlightOf(w, f) = {} /\ LiveOf(s, w, f) = Held(s, f) /\ FlightOf(w', f) = {} /\ LiveOf(s', w', f) = Held(s', f)
  BY NoneInFlight
<1>2. ~s'.dpr[f].on => s'.dpr[f].reqs = <<>>
  BY NoDprType DEF FilesOK, FileOK
<1> QED BY <1>1, <1>2 DEF Served, Spared, Carried

\* All is in order until unified_destroy has freed the rest.
LEMMA SoundNow == ASSUME UInv, w.pc # "joined" PROVE Sound(s)
BY DEF UInv, Control, Types, Exact, Sound

\* _unified_flush_all serves every file.
LEMMA FlushServes ==
    ASSUME UInv, w.pc # "joined", NEW order \in FlushOrders(s), NEW plan \in Plans(s), s' = FlushAll(s, order, plan).st
    PROVE  /\ Sound(s') /\ (\A f \in Files : Served(f)) /\ (AltTracked => AltOK(s'))
           /\ FlushAll(s, order, plan).failed \in BOOLEAN
           /\ ~FlushAll(s, order, plan).failed \/ NoFaults => Flushed(s')
<1> DEFINE all == FlushAll(s, order, plan)
<1>1. AllFlushed(s, all)
  BY SoundNow, FlushAllDone
<1>2. s' = all.st
  OBVIOUS
<1> HIDE DEF all
<1>3. Sound(s') /\ all.failed \in BOOLEAN /\ s'.ext_queue = s.ext_queue /\ (\A g \in Files : Kept(s, s', g))
      /\ (NoFaults => ~all.failed) /\ (~all.failed => \A g \in Files : AllIp(s'.dpr[g].reqs))
  BY <1>1, <1>2 DEF AllFlushed
<1>4. \A f \in Files : Served(f)
  BY <1>3 DEF Served, Kept
<1>5. AltTracked => AltOK(s')
  BY <1>3 DEF UInv, Exact, AltOK, Kept
<1>6. ~all.failed \/ NoFaults => Flushed(s')
  BY <1>3 DEF AllIp, Flushed
<1> QED BY <1>3, <1>4, <1>5, <1>6 DEF all

\* The writer's own steps under the write lock.
LEMMA ServesTends ==
    ASSUME UInv, WriteLockFree \/ (ReadLockFree /\ w.local = <<>> /\ w.pc \notin WBusy /\ \A f \in Files : iosched_lock[f] = None),
           NEW p \in {"idle", "last_index", "exited"}, w' = [w EXCEPT !.pc = p],
           Apart, held' = held, io_lock' = io_lock, Sound(s'), \A f \in Files : Served(f), AltTracked => AltOK(s'),
           p \in {"last_index", "exited"} => ~keepalive, NoFaults /\ p = "last_index" => Flushed(s'),
           NoFaults /\ p = "exited" => \A f \in Files : s'.dpr[f].reqs = <<>>
    PROVE  Tends
<1>0. Control /\ Exact /\ Types /\ Locks /\ WriterOK /\ Shutdown /\ w \in WriterState /\ None \notin Files
  BY WriterNow
<1>1. w.pc \notin WBusy /\ w.local = <<>> /\ ReadLockFree /\ \A f \in Files : iosched_lock[f] = None
  BY AllOut
<1>2. w.file \notin Files
  BY <1>0, <1>1 DEF WriterOK, WFile, WBusy
<1>3. w' \in WriterState /\ w'.local = <<>> /\ w'.file = w.file /\ w'.pc = p /\ p \notin WBusy
  BY <1>0, <1>1 DEF WriterState, WPoints, WBusy
<1>4. Types'
  BY <1>0, <1>3 DEF Types, Apart, Sound
<1>5. HeldBy
  <2>1. w.pc # "send" /\ p # "send"
    BY <1>1, <1>3 DEF WBusy
  <2> QED BY <1>0, <1>1, <1>3, <2>1 DEF HeldBy, Locks
<1>6. WriterOK'
  <2>1. p \notin WFile /\ p \notin {"send", "fail"}
    BY DEF WFile
  <2> QED BY <1>2, <1>3, <2>1 DEF WriterOK
<1>7. Shutdown'
  <2>1. keepalive' = keepalive /\ pc' = pc
    BY DEF Apart
  <2> QED BY <1>0, <1>3, <2>1 DEF Shutdown
<1>8. Exact'
  BY DEF Exact, Sound
<1>9. \A f \in Files : Spared(f) /\ Carried(f)
  BY <1>1, <1>3, ServedAll DEF Sound
<1>10. Spares /\ Carries
  BY <1>1, <1>9 DEF Spares, Carries, Apart
<1> QED BY <1>4, <1>5, <1>6, <1>7, <1>8, <1>10 DEF Tends

\* The writer thread flushes all files at the end.
LEMMA WLastFlushTends == ASSUME UInv, WLastFlush PROVE Tends
<1>1. w.pc = "last_flush" /\ WriteLockFree /\ held' = held /\ io_lock' = io_lock /\ w' = [w EXCEPT !.pc = "last_index"] /\ Apart
  BY ClientApart DEF WLastFlush, locks
<1>2. PICK order \in FlushOrders(s), plan \in Plans(s) : s' = FlushAll(s, order, plan).st
  BY DEF WLastFlush
<1>3. Sound(s') /\ (\A f \in Files : Served(f)) /\ (AltTracked => AltOK(s')) /\ (NoFaults => Flushed(s'))
  BY <1>1, <1>2, FlushServes
<1>4. ~keepalive
  BY <1>1, WriterNow DEF Shutdown
<1> QED BY <1>1, <1>3, <1>4, ServesTends

\* It writes the index partition.
LEMMA WIndexTends == ASSUME UInv, WIndex PROVE Tends
<1>1. w.pc \in {"index", "last_index"} /\ WriteLockFree /\ held' = held /\ io_lock' = io_lock /\ Apart
      /\ w' = [w EXCEPT !.pc = IF w.pc = "index" THEN "idle" ELSE "exited"]
  BY ClientApart DEF WIndex, locks
<1>2. PICK order \in SetToSeqs(s.queue["IP"]), plan \in Plans(s) : s' = IndexAll(s, order, plan)
  BY DEF WIndex
<1>3. Sound(s) /\ w.local = <<>>
  BY <1>1, SoundNow, AllOut
<1>4. AllIndexed(s, s')
  BY <1>2, <1>3, IndexAllDone
<1>5. Sound(s') /\ (\A g \in Files : Saved(s, s', g)) /\ (\A g \in Files : s.dpr[g].reqs = <<>> => s'.dpr[g] = s.dpr[g])
      /\ (NoFaults => \A g \in Files : NoneIp(s'.dpr[g].reqs))
  BY <1>4 DEF AllIndexed
<1>6. ASSUME NEW f \in Files PROVE Served(f)
  <2>1. Saved(s, s', f)
    BY <1>5
  <2>2. ~s.dpr[f].on => ~s'.dpr[f].on
    BY <1>3, <1>5, NoDprType DEF Sound, FilesOK, FileOK
  <2>3. ErrorsReach => s.written[f] \subseteq Held(s, f)
    <3>1. Live(f) = Held(s, f)
      BY <1>3, NoneInFlight, LiveNow
    <3> QED BY <3>1 DEF UInv, DataInv, NoSilentLoss
  <2>4. ErrorsReach => \A e \in s'.written[f] : e \in Held(s, f) => e \in Held(s', f)
    BY <2>1, <2>3 DEF Saved
  <2> QED BY <2>1, <2>2, <2>4 DEF Served, Saved
<1>7. AltTracked => AltOK(s')
  BY <1>5 DEF UInv, Exact, AltOK, Saved
<1>8. w.pc = "last_index" => ~keepalive /\ (NoFaults => Flushed(s))
  BY WriterNow DEF Shutdown
<1>9. ASSUME NoFaults, w.pc = "last_index", NEW f \in Files PROVE s'.dpr[f].reqs = <<>>
  <2>1. AllIp(s.dpr[f].reqs)
    BY <1>8, <1>9 DEF Flushed, AllIp
  <2>2. AllIp(s'.dpr[f].reqs) /\ NoneIp(s'.dpr[f].reqs)
    BY <1>5, <1>9, <2>1 DEF Saved
  <2>3. s'.dpr[f].reqs \in Seq(Req)
    BY <1>5, ReqsOf DEF Sound
  <2>4. \A i \in DOMAIN s'.dpr[f].reqs : FALSE
    BY <2>2 DEF AllIp, NoneIp
  <2> QED BY <2>3, <2>4, NoElement
<1> DEFINE p == IF w.pc = "index" THEN "idle" ELSE "exited"
<1>10. p \in {"idle", "last_index", "exited"} /\ (p = "exited" <=> w.pc = "last_index") /\ p # "last_index"
  BY <1>1
<1>11. w' = [w EXCEPT !.pc = p]
  BY <1>1
<1> HIDE DEF p
<1> QED BY <1>1, <1>5, <1>6, <1>7, <1>8, <1>9, <1>10, <1>11, ServesTends

\* unified_destroy frees what is left in ext_queue.
JoinedIs(st, st2) ==
    /\ st2 \in State /\ st2.queue = st.queue /\ st2.count = st.count /\ st2.ext_queue = {}
    /\ st2.tape = st.tape /\ st2.size = st.size /\ DriveSame(st, st2) /\ st2.written = st.written
    /\ \A f \in Files : st2.dpr[f] = IF f \in st.ext_queue THEN NoDpr ELSE st.dpr[f]

\* What that leaves of every field.
LEMMA JoinedOK ==
    ASSUME NEW st \in State
    PROVE  JoinedIs(st, [st EXCEPT !.dpr = [f \in Files |-> IF f \in st.ext_queue THEN NoDpr ELSE st.dpr[f]], !.ext_queue = {}])
<1> DEFINE D == [f \in Files |-> IF f \in st.ext_queue THEN NoDpr ELSE st.dpr[f]]
<1>1. st.dpr \in [Files -> Dpr]
  BY StateFields
<1>2. D \in [Files -> Dpr] /\ \A f \in Files : D[f] = IF f \in st.ext_queue THEN NoDpr ELSE st.dpr[f]
  BY <1>1, NoDprType
<1> HIDE DEF D
<1>3. JoinedIs(st, [st EXCEPT !.dpr = D, !.ext_queue = {}])
  BY <1>2 DEF State, JoinedIs, DriveSame
<1> QED BY <1>3 DEF D

\* The books are exact if nothing was left to write.
LEMMA JoinBooks ==
    ASSUME NEW st, NEW st2, Sound(st), JoinedIs(st, st2), \A f \in Files : st.dpr[f].reqs = <<>>
    PROVE  Books(st2) /\ FilesOK(st2)
<1>1. st \in State /\ Books(st) /\ FilesOK(st)
  BY DEF Sound
<1>2. ASSUME NEW f \in Files, NEW q \in Queues PROVE st.dpr[f].inq[q] = 0 /\ st2.dpr[f].inq[q] = 0
  <2>1. st.dpr[f].inq[q] = 0
    <3>1. st.dpr[f].reqs = <<>> /\ st.dpr[f].inq[q] = NumIn(st.dpr[f].reqs, {q})
      BY <1>1 DEF FilesOK, FileOK, Listed
    <3> QED BY <3>1, NumInEmpty
  <2> QED BY <2>1, NoDprType DEF JoinedIs
<1>3. \A f \in Files, q \in Queues : f \in st2.queue[q] <=> st2.dpr[f].inq[q] > 0
  BY <1>1, <1>2 DEF Books, JoinedIs
<1>4. ASSUME NEW q \in Queues
      PROVE  st2.count[q] = Total([f \in Files |-> IF Counted(st2, q, f) THEN st2.dpr[f].inq[q] ELSE 0])
  <2>1. [f \in Files |-> IF Counted(st2, q, f) THEN st2.dpr[f].inq[q] ELSE 0] = [f \in Files |-> 0]
    BY <1>2
  <2>2. [f \in Files |-> IF Counted(st, q, f) THEN st.dpr[f].inq[q] ELSE 0] = [f \in Files |-> 0]
    BY <1>2
  <2>3. st.count[q] = Total([f \in Files |-> IF Counted(st, q, f) THEN st.dpr[f].inq[q] ELSE 0])
    BY <1>1 DEF Books
  <2> QED BY <2>1, <2>2, <2>3 DEF JoinedIs
<1>5. FilesOK(st2)
  BY <1>1, NoDprOK DEF FilesOK, JoinedIs
<1> QED BY <1>3, <1>4, <1>5 DEF Books

\* After unified_destroy has begun no call is under way.
LEMMA AsleepOut ==
    ASSUME UInv, ~keepalive PROVE \A c \in Clients : pc[c] = "idle" /\ held[c] = "none"
<1>1. \A c \in Clients : pc[c] = "idle"
  BY WriterNow DEF Shutdown
<1> QED BY <1>1, WriterNow DEF Locks, ReadHeld, WriteHeld

\* unified_destroy frees what is left.
LEMMA JoinTends == ASSUME UInv, Join PROVE Tends
<1>1. w.pc = "exited" /\ held' = held /\ io_lock' = io_lock /\ Apart /\ w' = [w EXCEPT !.pc = "joined"]
      /\ s' = [s EXCEPT !.dpr = [f \in Files |-> IF f \in s.ext_queue THEN NoDpr ELSE s.dpr[f]], !.ext_queue = {}]
  BY ClientApart DEF Join, locks
<1>2. Control /\ Exact /\ Types /\ Locks /\ WriterOK /\ Shutdown /\ w \in WriterState /\ None \notin Files /\ s \in State /\ Sound(s)
  BY <1>1, WriterNow, SoundNow
<1>3. JoinedIs(s, s')
  BY <1>1, <1>2, JoinedOK
<1>4. ~keepalive /\ "destroy" \in Ops /\ w.local = <<>> /\ w.file \notin Files /\ held[Writer] = "none"
  BY <1>1, <1>2, WriterNow DEF Shutdown, WBusy, WFile
<1>5. WriteLockFree
  BY <1>4, AsleepOut DEF WriteLockFree, Threads
<1>6. ReadLockFree /\ \A f \in Files : iosched_lock[f] = None
  BY <1>5, AllOut
<1>7. w' \in WriterState /\ w'.local = <<>> /\ w'.file = w.file /\ w'.pc = "joined"
  BY <1>1, <1>2, <1>4 DEF WriterState, WPoints
<1>8. NoFaults => \A f \in Files : s.dpr[f].reqs = <<>>
  BY <1>1, <1>2 DEF Shutdown
<1>9. NoFaults => Books(s') /\ FilesOK(s')
  BY <1>2, <1>3, <1>8, JoinBooks
<1>10. AltTracked => AltOK(s') /\ \A f \in Files : ~s'.dpr[f].alt
  <2>1. SUFFICES ASSUME AltTracked, NEW f \in Files PROVE ~s'.dpr[f].alt /\ f \notin s'.ext_queue
    BY DEF AltOK
  <2>2. f \in s.ext_queue <=> s.dpr[f].alt
    BY <1>2, <2>1 DEF Exact, AltOK
  <2> QED BY <1>3, <2>2, NoDprType DEF JoinedIs
<1>11. Exact'
  <2>1. Drive(s')
    BY <1>2, <1>3, DriveKept DEF JoinedIs, Sound
  <2> QED BY <1>7, <1>9, <1>10, <2>1 DEF Exact
<1>12. Types'
  BY <1>1, <1>2, <1>3, <1>7 DEF Types, Apart, JoinedIs
<1>13. HeldBy
  BY <1>1, <1>2, <1>4, <1>7 DEF HeldBy, Locks, WBusy
<1>14. WriterOK'
  BY <1>4, <1>7 DEF WriterOK, WFile
<1>15. Shutdown'
  <2>1. keepalive' = keepalive /\ pc' = pc
    BY <1>1 DEF Apart
  <2>2. NoFaults => \A f \in Files : s'.dpr[f].reqs = <<>>
    BY <1>3, <1>8, NoDprType DEF JoinedIs
  <2> QED BY <1>2, <1>4, <1>7, <1>10, <2>1, <2>2 DEF Shutdown
<1>16. ASSUME NEW f \in Files PROVE Spared(f)
  <2>1. ~s.dpr[f].on => s.dpr[f].reqs = <<>>
    BY <1>2, NoDprType DEF Sound, FilesOK, FileOK
  <2> QED BY <1>3, <1>6, <2>1, NoDprType DEF Spared, JoinedIs
<1>17. ASSUME NEW f \in Files PROVE Carried(f)
  <2>1. FlightOf(w, f) = {} /\ LiveOf(s, w, f) = Held(s, f) /\ FlightOf(w', f) = {} /\ LiveOf(s', w', f) = Held(s', f)
    BY <1>4, <1>7, NoneInFlight
  <2>2. ErrorsReach => NoFaults
    BY <1>4 DEF ErrorsReach
  <2>3. NoFaults => s.dpr[f].reqs = <<>> /\ s'.dpr[f].reqs = <<>>
    BY <1>3, <1>8, NoDprType DEF JoinedIs
  <2>4. NoFaults => Held(s, f) = Held(s', f)
    BY <1>3, <2>3 DEF Held, JoinedIs
  <2> QED BY <1>3, <2>1, <2>2, <2>4 DEF Carried, JoinedIs
<1>18. Spares /\ Carries
  BY <1>1, <1>6, <1>16, <1>17 DEF Spares, Carries, Apart
<1> QED BY <1>1, <1>11, <1>12, <1>13, <1>14, <1>15, <1>18 DEF Tends

\* Nothing happens.
LEMMA StillInv == ASSUME UInv, UNCHANGED vars PROVE UInv'
<1>1. /\ held' = held /\ iosched_lock' = iosched_lock /\ io_lock' = io_lock /\ s' = s /\ dentry' = dentry /\ cache_requests' = cache_requests
      /\ keepalive' = keepalive /\ pc' = pc /\ op' = op /\ at' = at /\ arg' = arg /\ spare' = spare /\ open' = open /\ dirty' = dirty
      /\ w' = w /\ nwrites' = nwrites /\ nchanges' = nchanges /\ missing' = missing
  BY DEF vars, locks, calls, handles, bounds
<1>2. Control'
  BY <1>1 DEF UInv, Control, Types, Places, Locks, WriterOK, Serial, Between, Waiting, Shutdown, Flushed
<1>3. Exact'
  BY <1>1 DEF UInv, Exact
<1>4. DataInv'
  <2>1. Carries
    BY <1>1 DEF Carries, Carried, LiveOf, FlightOf, Held
  <2> QED BY <2>1, CarriesData DEF UInv
<1> QED BY <1>2, <1>3, <1>4 DEF UInv

\* unified_destroy begins.
LEMMA DestroyInv == ASSUME UInv, Destroy PROVE UInv'
<1>1. /\ held' = held /\ iosched_lock' = iosched_lock /\ io_lock' = io_lock /\ s' = s /\ dentry' = dentry /\ cache_requests' = cache_requests
      /\ pc' = pc /\ op' = op /\ at' = at /\ arg' = arg /\ spare' = spare /\ open' = open /\ dirty' = dirty
      /\ w' = w /\ nwrites' = nwrites /\ nchanges' = nchanges /\ missing' = missing
      /\ keepalive' = FALSE /\ keepalive /\ "destroy" \in Ops /\ \A c \in Clients : pc[c] = "idle"
  BY DEF Destroy, Client, locks, calls, handles, bounds
<1>20. Types'
  BY <1>1 DEF UInv, Control, Types
<1>21. Places' /\ Locks' /\ WriterOK' /\ Serial'
  BY <1>1 DEF UInv, Control, Places, Locks, WriterOK, Serial
<1>22. Between' /\ Waiting'
  BY <1>1 DEF UInv, Control, Between, Waiting, Flushed
<1>2. Types' /\ Places' /\ Locks' /\ WriterOK' /\ Serial' /\ Between' /\ Waiting'
  BY <1>20, <1>21, <1>22
<1>3. Shutdown'
  BY <1>1 DEF UInv, Control, Shutdown
<1>4. Exact'
  BY <1>1 DEF UInv, Exact
<1>5. DataInv'
  <2>1. Carries
    BY <1>1 DEF Carries, Carried, LiveOf, FlightOf, Held
  <2> QED BY <2>1, CarriesData DEF UInv
<1> QED BY <1>2, <1>3, <1>4, <1>5 DEF UInv, Control

\* A client flushes all files.
LEMMA FlushAllBodyInv == ASSUME UInv, NEW c \in Clients, FlushAllBody(c) PROVE UInv'
<1>0. Control /\ Exact /\ Types /\ Places /\ Locks /\ WriterOK /\ Serial /\ Waiting /\ Shutdown /\ w \in WriterState /\ DataInv
  BY WriterNow DEF UInv, Control
<1>1. /\ pc[c] = "flush_all" /\ WriteLockFree /\ iosched_lock' = iosched_lock /\ io_lock' = io_lock /\ dentry' = dentry
      /\ cache_requests' = cache_requests /\ keepalive' = keepalive /\ op' = op /\ at' = at /\ arg' = arg /\ spare' = spare
      /\ open' = open /\ dirty' = dirty /\ w' = w /\ nwrites' = nwrites /\ nchanges' = nchanges /\ missing' = missing
      /\ held' = [held EXCEPT ![c] = "write"]
  BY DEF FlushAllBody, handles, bounds
<1>2. PICK order \in FlushOrders(s), plan \in Plans(s) :
          s' = FlushAll(s, order, plan).st /\ Goto(c, IF FlushAll(s, order, plan).failed THEN "flush_failed" ELSE "flushed")
  BY DEF FlushAllBody
<1>3. keepalive /\ w.pc \notin {"last_flush", "last_index", "exited", "joined"}
  <2>1. keepalive /\ Sound(s)
    BY <1>0, <1>1, BusyAlive
  <2> QED BY <1>0, <2>1, AliveSound
<1>4. /\ Sound(s') /\ (\A f \in Files : Served(f)) /\ (AltTracked => AltOK(s'))
      /\ (~FlushAll(s, order, plan).failed \/ NoFaults => Flushed(s'))
  BY <1>2, <1>3, FlushServes
<1> DEFINE p == IF FlushAll(s, order, plan).failed THEN "flush_failed" ELSE "flushed"
<1>5. p \in WriteHeld /\ (p = "flushed" => Flushed(s')) /\ Goto(c, p)
  BY <1>2, <1>4 DEF WriteHeld
<1> HIDE DEF p
<1>6. pc' \in [Clients -> Points] /\ pc'[c] = p /\ \A d \in Clients \ {c} : pc'[d] = pc[d]
  BY <1>0, <1>5 DEF Types, Goto, Points
<1>7. c \in Threads /\ Writer \in Threads /\ c # Writer /\ Clients \subseteq Threads
  BY ThreadsOK DEF Threads, Writer
<1>8. held' \in [Threads -> {"none", "read", "write"}] /\ held'[c] = "write" /\ \A t \in Threads \ {c} : held'[t] = held[t]
  BY <1>0, <1>1, <1>7 DEF Types
<1>9. w.pc \notin WBusy /\ w.local = <<>> /\ ReadLockFree /\ \A f \in Files : iosched_lock[f] = None
  BY <1>1, AllOut
<1>10. Types'
  BY <1>0, <1>1, <1>4, <1>6, <1>8 DEF Types, Sound
<1>11. op[c] = "flush_all" /\ at[c] \notin Files
  BY <1>0, <1>1, OpsOf DEF Places, OnFile, ReadHeld
<1>12. p \notin OnFile /\ p \notin IoschedHeld /\ p \notin ReadHeld /\ p \notin WaitPoints /\ op[c] \in OpsAt(p) /\ LockOf(p) = "write" /\ p # "idle"
  BY <1>5, <1>11, OpsOf DEF WriteHeld, OnFile, ReadHeld, IoschedHeld, WaitPoints, LockOf
<1>13. Moves(c)
  <2>1. PlaceOK(pc'[c], op'[c], at'[c], arg'[c])
    BY <1>0, <1>1, <1>6, <1>11, <1>12 DEF PlaceOK, Places
  <2>2. LocksTaken(c)
    <3>1. \A g \in Files : iosched_lock[g] # c
      BY <1>9, ThreadsOK
    <3> QED BY <1>1, <1>6, <1>8, <1>12, <3>1 DEF LocksTaken
  <2>3. Serially(c)
    BY <1>1, <1>11 DEF Serially
  <2> QED BY <1>1, <1>6, <1>7, <1>8, <2>1, <2>2, <2>3 DEF Moves, Stays
<1>14. Waits(c)
  <2>1. cache_requests \in Nat
    BY <1>0 DEF Types
  <2> QED BY <1>1, <1>6, <1>12, <2>1 DEF Waits, WaitPoints
<1>15. Places' /\ Locks' /\ Serial' /\ Waiting'
  BY <1>0, <1>10, <1>13, <1>14, MovesPlaces, MovesLocks, MovesSerial, WaitersCount
<1>16. WriterOK'
  <2>1. w.pc # "send" /\ w.pc # "fail"
    BY <1>9 DEF WBusy
  <2> QED BY <1>0, <1>1, <2>1 DEF WriterOK
<1>17. Shutdown'
  BY <1>1, <1>3 DEF Shutdown
<1>18. Exact'
  BY <1>4 DEF Exact, Sound
<1>19. \A f \in Files : Spared(f) /\ Carried(f)
  BY <1>1, <1>4, <1>9, ServedAll DEF Sound
<1>20. Spares /\ Carries
  BY <1>1, <1>5, <1>6, <1>9, <1>19 DEF Spares, Carries
<1>21. Between' /\ DataInv'
  BY <1>0, <1>20, SparesBetween, CarriesData
<1> QED BY <1>10, <1>15, <1>16, <1>17, <1>18, <1>21 DEF UInv, Control

(* The writer thread at work on a file. *)
LEMMA OtherFiles ==
    ASSUME UInv, w.pc \in WFile, FileStep(s, s', w.file), w'.file \in {w.file, None}, NEW g \in Files, g # w.file
    PROVE  Spared(g) /\ Carried(g)
<1>1. Sound(s) /\ None \notin Files
  BY SoundNow, WriterNow DEF WFile
<1>2. s'.dpr[g] = s.dpr[g] /\ s'.tape[g] = s.tape[g] /\ s'.written[g] = s.written[g]
  BY DEF FileStep, OthersSame
<1>3. FlightOf(w, g) = {} /\ FlightOf(w', g) = {}
  BY <1>1 DEF FlightOf
<1>4. LiveOf(s, w, g) = LiveOf(s', w', g)
  BY <1>2, <1>3 DEF LiveOf, Held
<1>5. ~s.dpr[g].on => s.dpr[g].reqs = <<>>
  BY <1>1, NoDprType DEF Sound, FilesOK, FileOK
<1> QED BY <1>2, <1>3, <1>4, <1>5 DEF Spared, Carried

WorkSame(f) ==
    /\ Apart /\ held' = held /\ w' \in WriterState /\ w'.pc \in WBusy /\ w'.file \in {f, None}
    /\ io_lock' \in [Files -> {Writer, None}]
    /\ \A g \in Files : io_lock'[g] = Writer <=> w'.pc = "send" /\ w'.file = g

\* A step of the writer thread on its file.
LEMMA WorkTends ==
    ASSUME UInv, w.pc \in WFile, FileStep(s, s', w.file), WorkSame(w.file), WriterOK',
           AltTracked => ((w.file \in s.ext_queue <=> s.dpr[w.file].alt) => (w.file \in s'.ext_queue <=> s'.dpr[w.file].alt)),
           Spared(w.file), Carried(w.file)
    PROVE  Tends
<1>0. Control /\ Exact /\ Types /\ Locks /\ WriterOK /\ Shutdown /\ w.file \in Files /\ Writer \in Threads
  BY WriterNow
<1>1. Sound(s) /\ held[Writer] = "read" /\ w.pc \in WBusy
  BY SoundNow, WriterNow DEF WFile, WBusy
<1>2. /\ Apart /\ held' = held /\ w' \in WriterState /\ w'.pc \in WBusy /\ w'.file \in {w.file, None}
      /\ io_lock' \in [Files -> {Writer, None}] /\ \A g \in Files : io_lock'[g] = Writer <=> w'.pc = "send" /\ w'.file = g
  BY DEF WorkSame
<1>3. Sound(s')
  BY <1>1, SoundStep
<1>4. Types'
  BY <1>0, <1>2, <1>3 DEF Types, Apart, Sound
<1>5. HeldBy
  BY <1>1, <1>2 DEF HeldBy
<1>6. ReadLockFree
  BY <1>0, <1>1 DEF Locks, ReadLockFree
<1>7. w'.pc \notin {"last_flush", "last_index", "exited", "joined"}
  BY <1>2 DEF WBusy
<1>8. Shutdown'
  <2>1. keepalive' = keepalive /\ pc' = pc
    BY <1>2 DEF Apart
  <2> QED BY <1>0, <1>7, <2>1 DEF Shutdown
<1>9. AltTracked => AltOK(s')
  <2>1. SUFFICES ASSUME AltTracked, NEW g \in Files PROVE g \in s'.ext_queue <=> s'.dpr[g].alt
    BY DEF AltOK
  <2>2. g \in s.ext_queue <=> s.dpr[g].alt
    BY <1>0, <2>1 DEF Exact, AltOK
  <2>3. CASE g # w.file
    BY <2>2, <2>3 DEF FileStep, OthersSame
  <2>4. CASE g = w.file
    BY <2>1, <2>2, <2>4
  <2> QED BY <2>3, <2>4
<1>10. Exact'
  BY <1>3, <1>9 DEF Exact, Sound
<1>11. \A g \in Files : Spared(g) /\ Carried(g)
  BY <1>2, OtherFiles
<1>12. Spares /\ Carries
  BY <1>2, <1>6, <1>11 DEF Spares, Carries, Apart
<1> QED BY <1>2, <1>4, <1>5, <1>8, <1>10, <1>12 DEF Tends

\* The requests the writer takes over, or writes at once.
TStates == IF w.queue # "PARTIAL" THEN {"DP"} ELSE DataStates
TOut == IF w.queue # "PARTIAL" THEN ClearQ(s, "DP", w.file) ELSE ClearDpQueues(s, w.file)
TOutcome(plan) == Outcome(s, "DP", IF s.dpr[w.file].write_ip THEN NumIn(s.dpr[w.file].reqs, TStates) ELSE 0, w.file, plan)
TWalk(plan) == WalkReqs(TOut, w.file, TStates, TRUE, TOutcome(plan).ok)
TDone(plan) ==
    IF TOutcome(plan).e = "ok" THEN TWalk(plan).st
    ELSE HandleError(Damage(TWalk(plan).st, "DP", TOutcome(plan).e), w.file, Head(TWalk(plan).failed).state, TOutcome(plan).e)

\* Taking the requests over keeps the data.
LEMMA TakeDone ==
    ASSUME Sound(s), w.file \in Files, s.dpr[w.file].on, NEW plan \in Plans(s)
    PROVE  /\ Taken(s, TDone(plan), w.file, TWalk(plan).local, TStates)
           /\ TWalk(plan).local \in Seq(Req) /\ \A k \in DOMAIN TWalk(plan).local : TWalk(plan).local[k].state # "IP"
<1> DEFINE f == w.file  o == TOutcome(plan)  n == IF s.dpr[f].write_ip THEN NumIn(s.dpr[f].reqs, TStates) ELSE 0
           walk == WalkReqs(TOut, f, TStates, TRUE, o.ok)
<1>1. s \in State /\ Books(s) /\ Drive(s) /\ FileOK(s.dpr[f], s.tape[f])
  BY DEF Sound, FilesOK
<1>2. s.dpr[f].reqs \in Seq(Req) /\ s.dpr[f].inq \in [Queues -> Nat] /\ s.dpr[f].write_ip \in BOOLEAN
  BY <1>1, ReqsOf, StateFields DEF Dpr
<1>3. n \in Nat
  BY <1>2, NumInUpto
<1>4. OutcomeOK(s, "DP", n, o)
  <2>1. "DP" \in Partitions
    BY DEF Partitions
  <2>2. o = Outcome(s, "DP", n, f, plan)
    BY DEF TOutcome
  <2> HIDE DEF n, o
  <2> QED BY <1>1, <1>3, <2>1, <2>2, OutcomeFacts
<1>5. Cleared(s, TOut, f, TStates)
  <2>1. CASE w.queue # "PARTIAL"
    <3> DEFINE x == ClearQ(s, "DP", f)
    <3>0. "DP" \in Queues
      BY DEF Queues
    <3>1. QStep(s, x, f) /\ x.dpr[f].inq = [s.dpr[f].inq EXCEPT !["DP"] = 0]
      BY <1>1, <3>0, ClearQOK
    <3>2. TOut = x /\ TStates = {"DP"}
      BY <2>1 DEF TOut, TStates
    <3> HIDE DEF x
    <3> QED BY <1>2, <3>1, <3>2 DEF Cleared
  <2>2. CASE w.queue = "PARTIAL"
    <3> DEFINE x == ClearDpQueues(s, f)
    <3>1. QStep(s, x, f) /\ x.dpr[f].inq = [[s.dpr[f].inq EXCEPT !["DP"] = 0] EXCEPT !["PARTIAL"] = 0]
      BY <1>1, ClearDpOK
    <3>2. TOut = x /\ TStates = DataStates
      BY <2>2 DEF TOut, TStates
    <3> HIDE DEF x
    <3> QED BY <1>2, <3>1, <3>2 DEF Cleared, DataStates, Queues
  <2> QED BY <2>1, <2>2
<1>6. TStates \in {{"DP"}, DataStates}
  BY DEF TStates
<1>7. TDone(plan) = IF o.e = "ok" THEN walk.st ELSE HandleError(Damage(walk.st, "DP", o.e), f, Head(walk.failed).state, o.e)
  BY DEF TDone, TWalk
<1>8. TWalk(plan) = walk
  BY DEF TWalk
<1> HIDE DEF o
<1>9. TakeArgs(s, f, TStates, TRUE, o, TOut)
  BY <1>1, <1>2, <1>4, <1>5, <1>6 DEF TakeArgs
<1>10. TakeIs(s, TOut, f, TStates, TRUE, o, walk)
  BY <1>9, TakeWalk
<1>11. walk.local \in Seq(Req) /\ \A k \in DOMAIN walk.local : walk.local[k].state # "IP"
  <2> HIDE DEF walk
  <2>1. walk.local \in Seq(Req) /\ \A k \in DOMAIN walk.local : walk.local[k].state \in TStates
    BY <1>10 DEF TakeIs, WalkOver, WLocal
  <2> QED BY <1>6, <2>1 DEF DataStates
<1>12. CASE o.e = "ok"
  <2>1. Taken(s, walk.st, f, walk.local, TStates)
    BY <1>9, <1>12, TakeOk
  <2> QED BY <1>7, <1>8, <1>11, <1>12, <2>1
<1>13. CASE o.e # "ok"
  <2>1. Taken(s, HandleError(Damage(walk.st, "DP", o.e), f, Head(walk.failed).state, o.e), f, walk.local, TStates)
    BY <1>9, <1>13, TakeError
  <2> QED BY <1>7, <1>8, <1>11, <1>13, <2>1
<1> QED BY <1>12, <1>13

\* The writer thread takes requests over.
LEMMA WTakeTends == ASSUME UInv, WTake PROVE Tends
<1> DEFINE f == w.file
<1>1. w.pc = "take" /\ iosched_lock[f] = None /\ s.dpr[f].on /\ io_lock[f] = None /\ held' = held /\ Apart
  BY ClientApart DEF WTake
<1>2. PICK plan \in Plans(s) :
        /\ s' = TDone(plan)
        /\ IF TWalk(plan).local = <<>>
           THEN w' = [w EXCEPT !.pc = "pick", !.file = None] /\ io_lock' = io_lock
           ELSE w' = [w EXCEPT !.pc = "send", !.local = TWalk(plan).local] /\ io_lock' = [io_lock EXCEPT ![f] = Writer]
  BY DEF WTake, TDone, TWalk, TOutcome, TOut, TStates, DataStates
<1>3. /\ Control /\ Types /\ Locks /\ WriterOK /\ w \in WriterState /\ f \in Files /\ w.local = <<>> /\ Sound(s) /\ w.pc \in WFile
      /\ None \notin Files /\ None # Writer
  BY <1>1, WriterNow, SoundNow, ThreadsOK DEF WFile, Writer
<1> DEFINE l == TWalk(plan).local
<1>4. Taken(s, s', f, l, TStates) /\ l \in Seq(Req) /\ \A k \in DOMAIN l : l[k].state # "IP"
  BY <1>1, <1>2, <1>3, TakeDone
<1>5. /\ (l = <<>> => w' = [w EXCEPT !.pc = "pick", !.file = None] /\ io_lock' = io_lock)
      /\ (l # <<>> => w' = [w EXCEPT !.pc = "send", !.local = l] /\ io_lock' = [io_lock EXCEPT ![f] = Writer])
  BY <1>2
<1> HIDE DEF l
<1>6. /\ FileStep(s, s', f) /\ s'.ext_queue = s.ext_queue /\ s'.dpr[f].on = s.dpr[f].on /\ s'.dpr[f].alt = s.dpr[f].alt
      /\ s.tape[f] \subseteq s'.tape[f] /\ Held(s', f) \cup Ids(l) \subseteq Held(s, f) /\ s'.written[f] \subseteq s.written[f]
      /\ (NoFaults => s'.written[f] = s.written[f] /\ Held(s, f) \subseteq Held(s', f) \cup Ids(l))
      /\ \A e \in s'.written[f] : e \in Held(s, f) => e \in Held(s', f) \/ e \in Ids(l)
  BY <1>4 DEF Taken
<1>7. \A g \in Files : io_lock[g] # Writer
  BY <1>1, <1>3 DEF Locks
<1>8. /\ w' \in WriterState /\ w'.local = l /\ (l = <<>> => w'.pc = "pick" /\ w'.file = None) /\ (l # <<>> => w'.pc = "send" /\ w'.file = f)
  <2>1. CASE l = <<>>
    BY <1>3, <1>5, <2>1 DEF WriterState, WPoints, WBusy
  <2>2. CASE l # <<>>
    BY <1>3, <1>4, <1>5, <2>2 DEF WriterState, WPoints, WBusy
  <2> QED BY <2>1, <2>2
<1>9. io_lock' \in [Files -> {Writer, None}] /\ \A g \in Files : io_lock'[g] = Writer <=> w'.pc = "send" /\ w'.file = g
  <2>0. io_lock \in [Files -> {Writer, None}]
    BY <1>3 DEF Types
  <2>1. CASE l = <<>>
    BY <1>5, <1>7, <1>8, <2>0, <2>1
  <2>2. CASE l # <<>>
    BY <1>3, <1>5, <1>7, <1>8, <2>0, <2>2
  <2> QED BY <2>1, <2>2
<1>10. WorkSame(f)
  BY <1>1, <1>8, <1>9 DEF WorkSame, WBusy
<1>11. WriterOK'
  <2>1. w'.pc \in {"pick", "send"} /\ (w'.pc \in WFile <=> w'.file \in Files) /\ (w'.pc = "send" <=> w'.local # <<>>)
    BY <1>3, <1>8 DEF WFile
  <2>2. w'.pc = "send" => s'.dpr[w'.file].on
    BY <1>1, <1>6, <1>8
  <2> QED BY <1>4, <1>8, <2>1, <2>2 DEF WriterOK
<1>12. Spared(f)
  BY <1>1, <1>6 DEF Spared
<1>13. Carried(f)
  <2>1. FlightOf(w, f) = {} /\ LiveOf(s, w, f) = Held(s, f)
    BY <1>3, NoneInFlight
  <2>2. FlightOf(w', f) = Ids(l)
    BY <1>3, <1>8, IdsEmpty DEF FlightOf
  <2>3. LiveOf(s', w', f) = Held(s', f) \cup Ids(l)
    BY <2>2 DEF LiveOf
  <2> QED BY <1>6, <2>1, <2>2, <2>3 DEF Carried
<1> QED BY <1>3, <1>6, <1>10, <1>11, <1>12, <1>13, WorkTends

(* The writer thread sends one request of its private list. *)
LEMMA IdsTail ==
    ASSUME NEW q \in Seq(Req), q # <<>>
    PROVE  Tail(q) \in Seq(Req) /\ Head(q) \in Req /\ Ids(q) = Head(q).ids \cup Ids(Tail(q)) /\ (Len(q) = 1 => Tail(q) = <<>>)
           /\ (Len(q) # 1 => Tail(q) # <<>>) /\ \A i \in DOMAIN Tail(q) : i + 1 \in DOMAIN q /\ Tail(q)[i] = q[i + 1]
<1> DEFINE n == Len(q)  t == Tail(q)
<1>1. n \in Nat \ {0} /\ DOMAIN q = 1..n /\ t \in Seq(Req) /\ Len(t) = n - 1 /\ DOMAIN t = 1..(n - 1) /\ Head(q) = q[1] /\ q[1] \in Req
  OBVIOUS
<1>2. \A i \in 1..(n - 1) : t[i] = q[i + 1]
  BY <1>1
<1>3. (n = 1 => t = <<>>) /\ (n # 1 => t # <<>>)
  <2>1. n = 1 => \A i \in DOMAIN t : FALSE
    BY <1>1
  <2>2. n # 1 => 1 \in DOMAIN t
    BY <1>1
  <2>3. DOMAIN <<>> = {}
    OBVIOUS
  <2> HIDE DEF n, t
  <2> QED BY <1>1, <2>1, <2>2, <2>3, NoElement
<1> HIDE DEF n, t
<1>4. \A i \in 1..n : i = 1 \/ (i - 1 \in 1..(n - 1) /\ t[i - 1] = q[i])
  <2>1. ASSUME NEW i \in 1..n, i # 1 PROVE i - 1 \in 1..(n - 1) /\ t[i - 1] = q[i]
    <3>1. i - 1 \in 1..(n - 1) /\ (i - 1) + 1 = i
      BY <1>1, <2>1
    <3> QED BY <1>2, <3>1
  <2> QED BY <2>1
<1>5. \A i \in 1..(n - 1) : i + 1 \in 1..n
  BY <1>1
<1>6. 1 \in 1..n
  BY <1>1
<1>7. {q[i].ids : i \in 1..n} = {q[1].ids} \cup {t[i].ids : i \in 1..(n - 1)}
  BY <1>2, <1>4, <1>5, <1>6
<1>8. Ids(q) = Head(q).ids \cup Ids(t)
  BY <1>1, <1>7 DEF Ids
<1> QED BY <1>1, <1>2, <1>3, <1>5, <1>8 DEF n, t

\* The request reaches the tape,
LEMMA WSendOkTends ==
    ASSUME UInv, w.pc = "send", Apart, held' = held, s' = FreeBlocks(ToTape(s, w.file, Head(w.local)), 1),
           (Len(w.local) = 1 => w' = [w EXCEPT !.pc = "pick", !.file = None, !.local = <<>>] /\ io_lock' = [io_lock EXCEPT ![w.file] = None]),
           (Len(w.local) # 1 => w' = [w EXCEPT !.local = Tail(@)] /\ io_lock' = io_lock)
    PROVE  Tends
<1> DEFINE q == w.local  t == Tail(w.local)  r == Head(w.local)
<1>1. /\ Control /\ Types /\ Locks /\ WriterOK /\ w \in WriterState /\ w.file \in Files /\ Sound(s) /\ w.pc \in WFile
      /\ None \notin Files /\ None # Writer
  BY WriterNow, SoundNow, ThreadsOK DEF WFile, Writer
<1>2. w.local \in Seq(Req) /\ w.local # <<>> /\ (\A i \in DOMAIN w.local : w.local[i].state # "IP") /\ s.dpr[w.file].on
  BY <1>1 DEF WriterState, WriterOK
<1>3. /\ t \in Seq(Req) /\ r \in Req /\ Ids(q) = r.ids \cup Ids(t) /\ (Len(q) = 1 => t = <<>>) /\ (Len(q) # 1 => t # <<>>)
      /\ \A i \in DOMAIN t : t[i].state # "IP"
  BY <1>2, IdsTail
<1>4. SentIs(s, s', w.file, r)
  BY <1>1, <1>3, SentOK
<1>5. /\ FileStep(s, s', w.file) /\ s'.dpr = s.dpr /\ s'.ext_queue = s.ext_queue /\ s'.written = s.written
      /\ s'.tape[w.file] = s.tape[w.file] \cup r.ids
  BY <1>4 DEF SentIs
<1> HIDE DEF q, t, r
<1>6. /\ (Len(q) = 1 => w' = [w EXCEPT !.pc = "pick", !.file = None, !.local = <<>>] /\ io_lock' = [io_lock EXCEPT ![w.file] = None])
      /\ (Len(q) # 1 => w' = [w EXCEPT !.local = t] /\ io_lock' = io_lock)
  BY DEF q, t
<1>7. /\ w' \in WriterState /\ w'.local = t /\ (t = <<>> => w'.pc = "pick" /\ w'.file = None) /\ (t # <<>> => w'.pc = "send" /\ w'.file = w.file)
  <2>1. CASE Len(q) = 1
    BY <1>1, <1>3, <1>6, <2>1 DEF WriterState, WPoints, WBusy
  <2>2. CASE Len(q) # 1
    BY <1>1, <1>3, <1>6, <2>2 DEF WriterState, WPoints, WBusy
  <2> QED BY <2>1, <2>2
<1>8. io_lock' \in [Files -> {Writer, None}] /\ \A g \in Files : io_lock'[g] = Writer <=> w'.pc = "send" /\ w'.file = g
  <2>0. io_lock \in [Files -> {Writer, None}] /\ \A g \in Files : io_lock[g] = Writer <=> w.file = g
    BY <1>1 DEF Types, Locks
  <2>1. CASE Len(q) = 1
    BY <1>1, <1>3, <1>6, <1>7, <2>0, <2>1
  <2>2. CASE Len(q) # 1
    BY <1>1, <1>3, <1>6, <1>7, <2>0, <2>2
  <2> QED BY <2>1, <2>2
<1>9. WorkSame(w.file)
  BY <1>1, <1>7, <1>8 DEF WorkSame, WBusy
<1>10. WriterOK'
  <2>1. w'.pc \in {"pick", "send"} /\ (w'.pc \in WFile <=> w'.file \in Files) /\ (w'.pc = "send" <=> w'.local # <<>>)
    BY <1>1, <1>7 DEF WFile
  <2>2. w'.pc = "send" => s'.dpr[w'.file].on
    BY <1>2, <1>5, <1>7
  <2> QED BY <1>3, <1>7, <2>1, <2>2 DEF WriterOK
<1>11. Spared(w.file)
  <2>1. ~s.dpr[w.file].on => s.dpr[w.file].reqs = <<>>
    BY <1>2
  <2> QED BY <1>5, <2>1 DEF Spared
<1>12. Carried(w.file)
  <2>1. FlightOf(w, w.file) = r.ids \cup Ids(t)
    BY <1>3 DEF FlightOf, q
  <2>2. FlightOf(w', w.file) = Ids(t)
    BY <1>1, <1>7, IdsEmpty DEF FlightOf
  <2>3. Held(s', w.file) = Held(s, w.file) \cup r.ids
    BY <1>5 DEF Held
  <2>4. LiveOf(s', w', w.file) = LiveOf(s, w, w.file)
    BY <2>1, <2>2, <2>3 DEF LiveOf
  <2> QED BY <1>5, <2>1, <2>2, <2>4 DEF Carried
<1> QED BY <1>1, <1>5, <1>9, <1>10, <1>11, <1>12, WorkTends

\* or an error keeps the list for WFail.
LEMMA WSendErrorTends ==
    ASSUME UInv, w.pc = "send", Apart, held' = held, NEW plan \in Plans(s), NEW e, e = Outcome(s, "DP", 1, w.file, plan).e, e # "ok",
           s' = Damage(s, "DP", e), w' = [w EXCEPT !.pc = "fail", !.error = e], io_lock' = [io_lock EXCEPT ![w.file] = None]
    PROVE  Tends
<1>1. /\ Control /\ Types /\ Locks /\ WriterOK /\ w \in WriterState /\ w.file \in Files /\ Sound(s) /\ w.pc \in WFile
      /\ None \notin Files /\ None # Writer
  BY WriterNow, SoundNow, ThreadsOK DEF WFile, Writer
<1>2. w.local \in Seq(Req) /\ w.local # <<>> /\ (\A i \in DOMAIN w.local : w.local[i].state # "IP") /\ s.dpr[w.file].on
  BY <1>1 DEF WriterState, WriterOK
<1>3. DamageOnly(s, s') /\ ~NoFaults /\ e \in Errors
  BY <1>1, DamageStep
<1>4. /\ Sound(s') /\ s'.dpr = s.dpr /\ s'.ext_queue = s.ext_queue /\ s'.tape = s.tape /\ s'.size = s.size /\ s'.written = s.written
  BY <1>3 DEF DamageOnly
<1>5. FileStep(s, s', w.file)
  BY <1>1, <1>4 DEF FileStep, OthersSame, Sound, FilesOK
<1>6. w' \in WriterState /\ w'.local = w.local /\ w'.pc = "fail" /\ w'.file = w.file /\ w'.error = e
  BY <1>1, <1>3 DEF WriterState, WPoints, WBusy
<1>7. io_lock' \in [Files -> {Writer, None}] /\ \A g \in Files : io_lock'[g] = Writer <=> w'.pc = "send" /\ w'.file = g
  <2>0. io_lock \in [Files -> {Writer, None}] /\ \A g \in Files : io_lock[g] = Writer <=> w.file = g
    BY <1>1 DEF Types, Locks
  <2> QED BY <1>1, <1>6, <2>0
<1>8. WorkSame(w.file)
  BY <1>6, <1>7 DEF WorkSame, WBusy
<1>9. WriterOK'
  <2>1. s'.dpr[w'.file].on
    BY <1>2, <1>4, <1>6
  <2>2. \A i \in DOMAIN w'.local : w'.local[i].state # "IP"
    BY <1>2, <1>6
  <2>3. w'.pc \in WFile /\ w'.file \in Files /\ w'.local # <<>>
    BY <1>1, <1>2, <1>6 DEF WFile
  <2> QED BY <1>3, <1>6, <2>1, <2>2, <2>3 DEF WriterOK
<1>10. Spared(w.file)
  BY <1>2, <1>4 DEF Spared
<1>11. Carried(w.file)
  <2>1. FlightOf(w', w.file) = FlightOf(w, w.file)
    BY <1>6 DEF FlightOf
  <2>2. LiveOf(s', w', w.file) = LiveOf(s, w, w.file)
    BY <1>4, <2>1 DEF LiveOf, Held
  <2> QED BY <1>3, <1>4, <2>2 DEF Carried
<1> QED BY <1>1, <1>4, <1>5, <1>8, <1>9, <1>10, <1>11, WorkTends

\* The writer thread sends a request.
LEMMA WSendTends == ASSUME UInv, WSend PROVE Tends
<1>1. w.pc = "send" /\ held' = held /\ Apart
  BY ClientApart DEF WSend
<1>2. PICK plan \in Plans(s) :
        IF Outcome(s, "DP", 1, w.file, plan).e = "ok"
        THEN /\ s' = FreeBlocks(ToTape(s, w.file, Head(w.local)), 1)
             /\ IF Len(w.local) = 1
                THEN /\ w' = [w EXCEPT !.pc = "pick", !.file = None, !.local = <<>>]
                     /\ io_lock' = [io_lock EXCEPT ![w.file] = None]
                ELSE /\ w' = [w EXCEPT !.local = Tail(@)]
                     /\ UNCHANGED io_lock
        ELSE /\ s' = Damage(s, "DP", Outcome(s, "DP", 1, w.file, plan).e)
             /\ w' = [w EXCEPT !.pc = "fail", !.error = Outcome(s, "DP", 1, w.file, plan).e]
             /\ io_lock' = [io_lock EXCEPT ![w.file] = None]
  BY DEF WSend
<1>3. CASE Outcome(s, "DP", 1, w.file, plan).e = "ok"
  BY <1>1, <1>2, <1>3, WSendOkTends
<1>4. CASE Outcome(s, "DP", 1, w.file, plan).e # "ok"
  BY <1>1, <1>2, <1>4, WSendErrorTends
<1> QED BY <1>3, <1>4

\* The writer thread handles the error with the locks it took again.
LEMMA WFailTends == ASSUME UInv, WFail PROVE Tends
<1> DEFINE x == IF s.dpr[w.file].on THEN HandleError(s, w.file, Head(w.local).state, w.error) ELSE s
<1>1. /\ w.pc = "fail" /\ iosched_lock[w.file] = None /\ held' = held /\ io_lock' = io_lock /\ Apart
      /\ s' = FreeBlocks(x, Len(w.local)) /\ w' = [w EXCEPT !.pc = "pick", !.file = None, !.local = <<>>, !.error = "ok"]
  BY ClientApart DEF WFail, locks
<1>2. /\ Control /\ Types /\ Locks /\ WriterOK /\ w \in WriterState /\ w.file \in Files /\ Sound(s) /\ w.pc \in WFile
      /\ None \notin Files /\ None # Writer
  BY <1>1, WriterNow, SoundNow, ThreadsOK DEF WFile, Writer
<1>3. /\ w.local \in Seq(Req) /\ w.local # <<>> /\ (\A i \in DOMAIN w.local : w.local[i].state # "IP") /\ w.error \in Errors
      /\ ~NoFaults /\ w.error # "ok" /\ ("close" \notin Ops => s.dpr[w.file].on)
  BY <1>1, <1>2 DEF WriterState, WriterOK
<1>4. Head(w.local).state # "IP" /\ Len(w.local) \in Nat
  BY <1>3
<1>5. /\ FileStep(s, x, w.file) /\ x.ext_queue = s.ext_queue /\ x.dpr[w.file].on = s.dpr[w.file].on /\ x.dpr[w.file].alt = s.dpr[w.file].alt
      /\ x.written[w.file] \subseteq s.written[w.file] /\ (s.dpr[w.file].on => x.written[w.file] \subseteq Held(x, w.file)) /\ Sound(x)
  <2>1. CASE s.dpr[w.file].on
    <3> DEFINE y == HandleError(s, w.file, Head(w.local).state, w.error)
    <3>1. FailedIs(s, y, w.file)
      BY <1>2, <1>3, <1>4, <2>1, FailOK
    <3>2. x = y
      BY <2>1
    <3> HIDE DEF y, x
    <3>3. FailedIs(s, x, w.file)
      BY <3>1, <3>2
    <3>4. Sound(x)
      BY <1>2, <3>3, SoundStep DEF FailedIs
    <3> QED BY <3>3, <3>4 DEF FailedIs
  <2>2. CASE ~s.dpr[w.file].on
    <3>1. x = s
      BY <2>2
    <3>2. FileStep(s, s, w.file)
      BY <1>2 DEF FileStep, OthersSame, Sound, FilesOK
    <3> HIDE DEF x
    <3> QED BY <1>2, <2>2, <3>1, <3>2
  <2> QED BY <2>1, <2>2
<1> HIDE DEF x
<1>6. OnlyFree(x, s')
  BY <1>1, <1>4, <1>5, FreeBlocksIs DEF Sound
<1>7. FileStep(x, s', w.file) /\ Held(s', w.file) = Held(x, w.file) /\ Sound(s')
  BY <1>2, <1>5, <1>6, OnlyFreeSound
<1>8. FileStep(s, s', w.file)
  BY <1>5, <1>7, FileStepTrans
<1>9. s'.dpr = x.dpr /\ s'.written = x.written /\ s'.ext_queue = x.ext_queue
  BY <1>6 DEF OnlyFree
<1>10. w' \in WriterState /\ w'.local = <<>> /\ w'.pc = "pick" /\ w'.file = None
  <2>1. "ok" \in Errors /\ "pick" \in WPoints /\ <<>> \in Seq(Req)
    BY DEF Errors, WPoints, WBusy
  <2>2. w' = [w EXCEPT !.pc = "pick", !.file = None, !.local = <<>>, !.error = "ok"]
    BY <1>1
  <2> QED BY <1>2, <2>1, <2>2 DEF WriterState
<1>11. io_lock' \in [Files -> {Writer, None}] /\ \A g \in Files : io_lock'[g] = Writer <=> w'.pc = "send" /\ w'.file = g
  BY <1>1, <1>2, <1>10 DEF Types, Locks
<1>12. WorkSame(w.file)
  BY <1>1, <1>10, <1>11 DEF WorkSame, WBusy
<1>13. WriterOK'
  BY <1>2, <1>10 DEF WriterOK, WFile
<1>14. Spared(w.file)
  <2>1. ~s'.dpr[w.file].on => s'.dpr[w.file].reqs = <<>>
    BY <1>2, <1>7, NoDprType DEF Sound, FilesOK, FileOK
  <2> QED BY <1>1, <1>5, <1>9, <2>1 DEF Spared
<1>15. Carried(w.file)
  <2>1. ErrorsReach => s.dpr[w.file].on
    BY <1>3 DEF ErrorsReach
  <2>2. ErrorsReach => s'.written[w.file] \subseteq LiveOf(s', w', w.file)
    BY <1>5, <1>7, <1>9, <2>1 DEF LiveOf
  <2> QED BY <1>3, <1>5, <1>9, <2>2 DEF Carried
<1> QED BY <1>2, <1>5, <1>8, <1>9, <1>12, <1>13, <1>14, <1>15, WorkTends

\* A client's step keeps the invariant.
LEMMA DidInv == ASSUME UInv, NEW c \in Clients, Did(c) PROVE UInv'
<1>1. Control /\ Exact /\ DataInv /\ Types
  BY DEF UInv, Control
<1>2. Control' /\ Exact'
  BY <1>1, DidControl
<1>3. ErrorsReach => NoSilentLoss'
  BY <1>1, DidLoss DEF DataInv
<1>4. NoFaults => Numbered' /\ ReadOK' /\ NoResurrection'
  BY <1>1, DidNumbered, DidRead, DidTruncation DEF DataInv
<1> QED BY <1>2, <1>3, <1>4 DEF UInv, DataInv

\* Every step of a client.
LEMMA ClientInv == ASSUME UInv, NEW c \in Clients, NewCall(c) \/ ClientStep(c) \/ ClientLocks(c) PROVE UInv'
<1>0. Control /\ Exact
  BY DEF UInv
<1>1. CASE NewCall(c)
  <2>1. CASE CallFlushAll(c)
    BY <1>0, <2>1, CallFlushAllDid, DidInv
  <2>2. ASSUME NEW f \in Files, Open(c, f) PROVE UInv'
    BY <1>0, <2>2, OpenDid, DidInv
  <2>3. ASSUME NEW f \in Files, NEW n \in Sizes, CallWrite(c, f, n) PROVE UInv'
    BY <1>0, <2>3, CallWriteDid, DidInv
  <2>4. ASSUME NEW f \in Files, CallRead(c, f) \/ CallFlush(c, f) \/ CallClose(c, f) \/ CallTruncate(c, f) \/ CallRename(c, f) \/ CallUnlink(c, f)
        PROVE  UInv'
    BY <1>0, <2>4, CallDids, DidInv
  <2> QED BY <1>1, <2>1, <2>2, <2>3, <2>4 DEF NewCall
<1>2. CASE ClientStep(c)
  <2>1. CASE Return(c)
    BY <1>0, <2>1, ReturnDid, DidInv
  <2>2. CASE WriteError(c)
    BY <1>0, <2>2, WriteErrorDid, DidInv
  <2>3. CASE WriteRefused(c)
    BY <1>0, <2>3, WriteRefusedDid, DidInv
  <2>4. CASE Write(c)
    BY <1>0, <2>4, WriteDid, DidInv
  <2>5. CASE WakeWithBlock(c)
    BY <1>0, <2>5, WakeWithBlockDid, DidInv
  <2>6. CASE FlushReturn(c)
    BY <1>0, <2>6, FlushReturnDid, DidInv
  <2>7. CASE FreeCheck(c)
    BY <1>0, <2>7, FreeCheckDid, DidInv
  <2>8. CASE FlushAllReturn(c)
    BY <1>0, <2>8, FlushAllReturnDid, DidInv
  <2>9. CASE TruncBody(c)
    BY <1>0, <2>9, TruncBodyDid, DidInv
  <2>10. CASE Placement(c)
    BY <1>0, <2>10, PlacementDid, DidInv
  <2>11. CASE ReadCache(c)
    BY <1>0, <2>11, ReadCacheDid, DidInv
  <2>12. CASE ReadReturn(c)
    BY <1>0, <2>12, ReadReturnDid, DidInv
  <2> QED BY <1>2, <2>1, <2>2, <2>3, <2>4, <2>5, <2>6, <2>7, <2>8, <2>9, <2>10, <2>11, <2>12 DEF ClientStep
<1>3. CASE ClientLocks(c)
  <2>1. CASE AcquireRead(c)
    BY <1>0, <2>1, AcquireReadDid, DidInv
  <2>2. CASE LockIosched(c)
    BY <1>0, <2>2, LockIoschedDid, DidInv
  <2>3. CASE Relock(c)
    BY <1>0, <2>3, RelockDid, DidInv
  <2>4. CASE FlushBody(c)
    BY <1>0, <2>4, FlushBodyDid, DidInv
  <2>5. CASE FreeIo(c)
    BY <1>0, <2>5, FreeIoDid, DidInv
  <2>6. CASE FlushAllBody(c)
    BY <2>6, FlushAllBodyInv
  <2>7. CASE TruncTape(c)
    BY <1>0, <2>7, TruncTapeDid, DidInv
  <2>8. CASE ReadTape(c)
    BY <1>0, <2>8, ReadTapeDid, DidInv
  <2> QED BY <1>3, <2>1, <2>2, <2>3, <2>4, <2>5, <2>6, <2>7, <2>8 DEF ClientLocks
<1> QED BY <1>1, <1>2, <1>3

\* Every step of the writer thread.
LEMMA WriterInv == ASSUME UInv, WriterStep \/ WriterLocks PROVE UInv'
<1>1. CASE WChoose
  BY <1>1, WChooseTends, TendsInv
<1>2. CASE WPick
  BY <1>2, WPickTends, TendsInv
<1>3. CASE WDone
  BY <1>3, WDoneTends, TendsInv
<1>4. CASE WSend
  BY <1>4, WSendTends, TendsInv
<1>5. CASE Join
  BY <1>5, JoinTends, TendsInv
<1>6. CASE WIndex
  BY <1>6, WIndexTends, TendsInv
<1>7. CASE WLock
  BY <1>7, WLockTends, TendsInv
<1>8. CASE WGone
  BY <1>8, WGoneTends, TendsInv
<1>9. CASE WTake
  BY <1>9, WTakeTends, TendsInv
<1>10. CASE WFail
  BY <1>10, WFailTends, TendsInv
<1>11. CASE WLastFlush
  BY <1>11, WLastFlushTends, TendsInv
<1> QED BY <1>1, <1>2, <1>3, <1>4, <1>5, <1>6, <1>7, <1>8, <1>9, <1>10, <1>11 DEF WriterStep, WriterLocks

\* Every step.
LEMMA NextInv == ASSUME UInv, [Next]_vars PROVE UInv'
<1>1. CASE WriterStep \/ WriterLocks
  BY <1>1, WriterInv
<1>2. CASE Destroy
  BY <1>2, DestroyInv
<1>3. CASE Rest
  BY <1>3, StillInv DEF Rest
<1>4. ASSUME NEW c \in Clients, NewCall(c) \/ ClientStep(c) \/ ClientLocks(c) PROVE UInv'
  BY <1>4, ClientInv
<1>5. CASE UNCHANGED vars
  BY <1>5, StillInv
<1> QED BY <1>1, <1>2, <1>3, <1>4, <1>5 DEF Next

\* A sum of zeros.
LEMMA TotalNone == ASSUME NEW m, \A f \in Files : m[f] = 0 PROVE Total(m) = 0
<1>1. \A f \in Files : {f} \X (1 .. m[f]) = {}
  OBVIOUS
<1>2. UNION {{f} \X (1 .. m[f]) : f \in Files} = {}
  BY <1>1
<1> QED BY <1>2, FS_EmptySet DEF Total

\* The initial states.
LEMMA InitInv == ASSUME Init PROVE UInv
<1> DEFINE D == [f \in Files |-> NoDpr]  N == [q \in Queues |-> 0]  E == [f \in Files |-> {}]  Z == [f \in Files |-> 0]
<1>0. None \notin Files /\ None \notin Clients /\ Writer \notin Clients /\ None # Writer /\ CacheBlocks \in Nat /\ MaxFaults \in Nat
  BY ThreadsOK, BoundsOK, CacheBlocksPositive DEF Writer
<1>1. /\ s.dpr = D /\ s.queue = [q \in Queues |-> {}] /\ s.ext_queue = {} /\ s.count = N /\ s.free = CacheBlocks /\ s.tape = E /\ s.size = Z
      /\ s.less = {} /\ s.broken = FALSE /\ s.nfaults = 0 /\ s.written = E /\ s \in State
  <2>1. NoDpr \in Dpr
    BY NoDprType
  <2>2. s = [dpr |-> D, queue |-> [q \in Queues |-> {}], ext_queue |-> {}, count |-> N, free |-> CacheBlocks, tape |-> E, size |-> Z,
             less |-> {}, broken |-> FALSE, nfaults |-> 0, written |-> E]
    BY DEF Init
  <2>3. /\ D \in [Files -> Dpr] /\ N \in [Queues -> Int] /\ E \in [Files -> SUBSET Pos] /\ Z \in [Files -> Nat]
        /\ [q \in Queues |-> {}] \in [Queues -> SUBSET Files]
    BY <2>1
  <2> HIDE DEF D, N, E, Z
  <2> QED BY <1>0, <2>2, <2>3 DEF State
<1>2. /\ held = [t \in Threads |-> "none"] /\ iosched_lock = [f \in Files |-> None] /\ io_lock = [f \in Files |-> None]
      /\ dentry = [f \in Files |-> [linked |-> TRUE, matches |-> f \in IpNames]] /\ cache_requests = 0 /\ keepalive = TRUE
      /\ pc = [c \in Clients |-> "idle"] /\ op = [c \in Clients |-> "none"] /\ at = [c \in Clients |-> None] /\ arg = [c \in Clients |-> NoArg]
      /\ spare = [c \in Clients |-> FALSE] /\ open = [c \in Clients |-> IF "open" \in Ops THEN {} ELSE Files]
      /\ dirty = [c \in Clients |-> {}] /\ w = IdleWriter /\ nwrites = 0 /\ nchanges = 0 /\ missing = [c \in Clients |-> {}]
  BY DEF Init
<1>3. w \in WriterState /\ w.pc = "idle" /\ w.file = None /\ w.local = <<>>
  BY <1>2 DEF IdleWriter, WriterState, WPoints, Errors
<1>4. NoArg \in [n : 0..2, id : Nat, off : Nat] /\ NoArg.id = 0
  BY DEF NoArg
<1>5. Types
  <2>1. dentry \in [Files -> [linked : BOOLEAN, matches : BOOLEAN]]
    BY <1>2
  <2>2. held \in [Threads -> {"none", "read", "write"}] /\ iosched_lock \in [Files -> Clients \cup {None}] /\ io_lock \in [Files -> {Writer, None}]
    BY <1>2
  <2>3. pc \in [Clients -> Points] /\ op \in [Clients -> FileOps \cup {"none", "flush_all"}] /\ at \in [Clients -> Files \cup {None}]
    BY <1>2 DEF Points
  <2>4. arg \in [Clients -> [n : 0..2, id : Nat, off : Nat]]
    BY <1>2, <1>4
  <2>5. /\ spare \in [Clients -> BOOLEAN] /\ open \in [Clients -> SUBSET Files] /\ dirty \in [Clients -> SUBSET Files]
        /\ missing \in [Clients -> SUBSET Pos]
    BY <1>2
  <2> QED BY <1>1, <1>2, <1>3, <2>1, <2>2, <2>3, <2>4, <2>5 DEF Types
<1>6. \A c \in Clients : pc[c] = "idle" /\ op[c] = "none" /\ at[c] = None /\ arg[c] = NoArg /\ held[c] = "none" /\ missing[c] = {}
  BY <1>2 DEF Threads
<1>7. Places
  <2>1. OpsAt("idle") = {"none"}
    BY OpsOf
  <2>2. "idle" \notin OnFile
    BY DEF OnFile, ReadHeld
  <2> QED BY <1>0, <1>6, <2>1, <2>2 DEF Places
<1>8. Locks
  <2>1. "idle" \notin ReadHeld /\ "idle" \notin WriteHeld /\ "idle" \notin WBusy /\ "idle" \notin IoschedHeld
    BY DEF ReadHeld, WriteHeld, WBusy, IoschedHeld
  <2>2. \A t \in Threads : held[t] = "none"
    BY <1>2
  <2>3. Writer \in Threads
    BY DEF Threads
  <2> QED BY <1>0, <1>2, <1>3, <1>6, <2>1, <2>2, <2>3 DEF Locks
<1>9. WriterOK
  BY <1>0, <1>3 DEF WriterOK, WFile
<1>10. Serial
  BY <1>0, <1>6 DEF Serial
<1>11. Between
  BY <1>6 DEF Between
<1>12. Waiting
  <2>1. {c \in Clients : pc[c] \in {"wait", "relock"}} = {}
    BY <1>6
  <2> QED BY <1>2, <2>1, FS_EmptySet DEF Waiting
<1>13. Shutdown
  BY <1>2, <1>3 DEF Shutdown
<1>14. FilesOK(s) /\ AltOK(s)
  <2>1. \A f \in Files : s.dpr[f] = NoDpr
    BY <1>1
  <2> QED BY <1>1, <2>1, NoDprOK, NoDprType DEF FilesOK, AltOK
<1>15. Books(s)
  <2>1. \A f \in Files, q \in Queues : s.dpr[f].inq[q] = 0
    BY <1>1 DEF NoDpr, NewDpr
  <2>2. \A q \in Queues : s.queue[q] = {} /\ s.count[q] = 0
    BY <1>1
  <2>3. ASSUME NEW q \in Queues PROVE Total([f \in Files |-> IF Counted(s, q, f) THEN s.dpr[f].inq[q] ELSE 0]) = 0
    <3> DEFINE m == [f \in Files |-> IF Counted(s, q, f) THEN s.dpr[f].inq[q] ELSE 0]
    <3>1. \A f \in Files : m[f] = 0
      BY <2>1
    <3> HIDE DEF m
    <3>2. Total(m) = 0
      BY <3>1, TotalNone
    <3> QED BY <3>2 DEF m
  <2> QED BY <2>1, <2>2, <2>3 DEF Books
<1>16. Drive(s)
  BY <1>0, <1>1 DEF Drive
<1>17. Exact
  BY <1>14, <1>15, <1>16 DEF Exact
<1>18. \A f \in Files : Live(f) = {} /\ s.written[f] = {}
  <2>1. ASSUME NEW f \in Files PROVE Live(f) = {} /\ s.written[f] = {}
    <3>1. s.dpr[f] = NoDpr /\ s.tape[f] = {} /\ s.written[f] = {}
      BY <1>1
    <3>2. Held(s, f) = {}
      BY <3>1, NoDprType, IdsEmpty DEF Held
    <3>3. InFlight(f) = {}
      BY <1>3, IdsEmpty DEF InFlight
    <3> QED BY <3>1, <3>2, <3>3 DEF Live
  <2> QED BY <2>1
<1>19. DataInv
  <2>1. NoSilentLoss /\ NoResurrection
    BY <1>18 DEF NoSilentLoss, NoResurrection
  <2>2. Numbered
    BY <1>2, <1>4, <1>6, <1>18 DEF Numbered
  <2>3. ReadOK
    BY <1>6 DEF ReadOK
  <2> QED BY <2>1, <2>2, <2>3 DEF DataInv
<1> QED BY <1>5, <1>7, <1>8, <1>9, <1>10, <1>11, <1>12, <1>13, <1>17, <1>19 DEF UInv, Control

\* The scheduler's locks, queues, counters and data are always in the state UInv describes:
\* every thread holds what its place in unified.c says it holds, the requests of a file match
\* its queue counters, and what clients were promised is in a request, on the tape or in the
\* writer thread's hands.  For all numbers of clients and files and all bounds.
THEOREM UnifiedInvariant == Spec => []UInv
<1>1. Init => UInv
  BY InitInv
<1>2. UInv /\ [Next]_vars => UInv'
  BY NextInv
<1> QED BY <1>1, <1>2, PTL DEF Spec

\* The queue counters of unified.c (in_*_queue, *_request_count, ext_queue) are always what a
\* recount of the request lists gives, if no file of the index partition is truncated and no
\* unified_destroy follows a fault.
THEOREM CountersExactAlways == ASSUME AltTracked PROVE Spec => []CountersExact
<1>1. ASSUME UInv PROVE CountersExact
  <2>1. Control /\ Exact /\ Types /\ Waiting /\ Shutdown
    BY <1>1 DEF UInv, Control
  <2>2. NoFaults \/ w.pc # "joined"
    BY <2>1 DEF AltTracked, Shutdown
  <2>3. Books(s) /\ FilesOK(s) /\ AltOK(s) /\ s \in State
    BY <2>1, <2>2 DEF Exact, Types
  <2>4. \A f \in Files, q \in Queues : s.dpr[f].inq[q] = NumIn(s.dpr[f].reqs, {q})
    BY <2>3 DEF FilesOK, FileOK, Listed
  <2>5. ASSUME NEW q \in Queues PROVE s.queue[q] = {f \in Files : NumIn(s.dpr[f].reqs, {q}) > 0}
    <3>1. s.queue[q] \subseteq Files
      BY <2>3, StateFields
    <3>2. \A f \in Files : f \in s.queue[q] <=> NumIn(s.dpr[f].reqs, {q}) > 0
      BY <2>3, <2>4 DEF Books
    <3> QED BY <3>1, <3>2
  <2>6. ASSUME NEW q \in Queues
        PROVE  s.count[q] = Total([f \in Files |-> IF Counted(s, q, f) THEN NumIn(s.dpr[f].reqs, {q}) ELSE 0])
    <3>1. s.count[q] = Total([f \in Files |-> IF Counted(s, q, f) THEN s.dpr[f].inq[q] ELSE 0])
      BY <2>3 DEF Books
    <3>2. [f \in Files |-> IF Counted(s, q, f) THEN s.dpr[f].inq[q] ELSE 0]
          = [f \in Files |-> IF Counted(s, q, f) THEN NumIn(s.dpr[f].reqs, {q}) ELSE 0]
      BY <2>4
    <3> QED BY <3>1, <3>2
  <2>7. s.ext_queue = {f \in Files : s.dpr[f].alt}
    <3>1. s.ext_queue \subseteq Files
      BY <2>3, StateFields
    <3> QED BY <2>3, <3>1 DEF AltOK
  <2>8. cache_requests = Cardinality({c \in Clients : pc[c] \in {"wait", "relock"}})
    BY <2>1 DEF Waiting
  <2> QED BY <2>4, <2>5, <2>6, <2>7, <2>8 DEF CountersExact
<1>2. UInv => CountersExact
  BY <1>1
<1> QED BY <1>2, UnifiedInvariant, PTL

\* Data of an accepted unified_write is in a request, in flight or on the tape until a caller
\* has been given an error for it, if errors find the dentry_priv they are recorded in.
THEOREM NothingLostSilently == ASSUME ErrorsReach PROVE Spec => []NoSilentLoss
<1>1. UInv => NoSilentLoss
  BY DEF UInv, DataInv
<1> QED BY <1>1, UnifiedInvariant, PTL

\* When _unified_flush_all reports success, all data written before it is on the tape.
THEOREM FlushAllReachesTape == ASSUME ErrorsReach PROVE Spec => []FlushAllComplete
<1>1. ASSUME UInv PROVE FlushAllComplete
  <2>1. SUFFICES ASSUME NEW c \in Clients, pc[c] = "flushed", NEW f \in Files
                 PROVE  NumIn(s.dpr[f].reqs, {"DP", "PARTIAL"}) = 0 /\ s.written[f] \subseteq s.tape[f]
    BY DEF FlushAllComplete
  <2>2. Control /\ Exact /\ Types /\ Locks /\ WriterOK /\ Between /\ NoSilentLoss
    BY <1>1 DEF UInv, Control, DataInv
  <2>3. Flushed(s)
    BY <2>1, <2>2 DEF Between
  <2>4. Sound(s)
    BY <2>1, <2>2, BusyAlive
  <2>5. s.dpr[f].reqs \in Seq(Req) /\ \A i \in DOMAIN s.dpr[f].reqs : s.dpr[f].reqs[i].state = "IP"
    BY <2>3, <2>4, ReqsOf DEF Flushed, Sound
  <2>6. NumIn(s.dpr[f].reqs, {"DP", "PARTIAL"}) = 0
    BY <2>5, NumInZero
  <2>7. held[c] = "write" /\ c \in Threads /\ Writer \in Threads /\ c # Writer
    BY <2>1, <2>2, ThreadsOK DEF Locks, ReadHeld, WriteHeld, Threads, Writer
  <2>8. held[Writer] = "none"
    BY <2>2, <2>7 DEF Locks
  <2>9. w.local = <<>>
    BY <2>2, <2>8 DEF Locks, WriterOK, WBusy
  <2>10. InFlight(f) = {}
    BY <2>9, IdsEmpty DEF InFlight
  <2>11. \A i \in DOMAIN s.dpr[f].reqs : s.dpr[f].reqs[i].ids \subseteq s.tape[f]
    BY <2>4, <2>5 DEF Sound, FilesOK, FileOK, IpSaved
  <2>12. Ids(s.dpr[f].reqs) \subseteq s.tape[f]
    BY <2>11 DEF Ids
  <2>13. s.written[f] \subseteq Live(f)
    BY <2>2 DEF NoSilentLoss
  <2> QED BY <2>6, <2>10, <2>12, <2>13 DEF Live, Held
<1>2. UInv => FlushAllComplete
  BY <1>1
<1> QED BY <1>2, UnifiedInvariant, PTL

\* unified_read, which looks first in the requests and then on the tape and is overtaken by
\* the writer thread in between, finds all data written and not truncated.
THEOREM ReadsSeeWrites == ASSUME NoFaults PROVE Spec => []ReadSeesWrites
<1>1. UInv => ReadSeesWrites
  BY DEF UInv, DataInv, ReadOK, ReadSeesWrites, Forgotten
<1> QED BY <1>1, UnifiedInvariant, PTL

\* Data that unified_truncate dropped is never brought back by the writer thread.
THEOREM TruncatedStaysGone == ASSUME NoFaults PROVE Spec => []NoResurrection
<1>1. UInv => NoResurrection
  BY DEF UInv, DataInv
<1> QED BY <1>1, UnifiedInvariant, PTL

\* After unified_destroy all data written is on the tape and no dentry_priv is left.
THEOREM DestroySavesAll == ASSUME NoFaults, AltTracked PROVE Spec => []SavedAtDestroy
<1>1. ASSUME UInv PROVE SavedAtDestroy
  <2>1. SUFFICES ASSUME w.pc = "joined", NEW f \in Files
                 PROVE  s.dpr[f].reqs = <<>> /\ ~s.dpr[f].alt /\ s.written[f] \subseteq s.tape[f]
    BY DEF SavedAtDestroy
  <2>2. WriterOK /\ Shutdown /\ NoSilentLoss
    BY <1>1 DEF UInv, Control, DataInv, ErrorsReach
  <2>3. s.dpr[f].reqs = <<>> /\ ~s.dpr[f].alt
    BY <2>1, <2>2 DEF Shutdown
  <2>4. w.local = <<>>
    BY <2>1, <2>2 DEF WriterOK
  <2>5. Live(f) = s.tape[f]
    BY <2>3, <2>4, IdsEmpty DEF Live, Held, InFlight
  <2> QED BY <2>2, <2>3, <2>5 DEF NoSilentLoss
<1>2. UInv => SavedAtDestroy
  BY <1>1
<1> QED BY <1>2, UnifiedInvariant, PTL
=============================================================================
