---------------------------- MODULE TreeInductive ----------------------------
(***************************************************************************)
(* The inductive invariant of module Tree, Inv, as a conjunction of named  *)
(* parts, and the vocabulary in which its proof describes a step: which    *)
(* pointers appear and go with their handles, which locks change, which    *)
(* entries of which directories.                                           *)
(***************************************************************************)
EXTENDS Tree

-----------------------------------------------------------------------------
(* Types.                                                                  *)

NulOr == Dentries \cup {Null}
LookPcs == {"lk0", "lk1", "lk2", "lk3", "lkno", "found"}
CreatePcs == {"cr1", "cr3", "cr4"}
UnlinkPcs == {"un1", "un2", "un3", "un_ne", "un_ne2"}
LockedPcs == {"rn4", "rn5", "rn6", "rn7", "rn8", "rne1", "rne2"}
RenamePcs == {"rn1", "rn1m", "rn2", "rn3", "rn3m", "rn9"} \cup LockedPcs
Pcs == {"idle", "fopen", "close", "fclose", "rn0", "rnf", "rn10", "rn10w", "rn11"}
       \cup LookPcs \cup CreatePcs \cup UnlinkPcs \cup RenamePcs
Changing == {"create", "mkdir", "unlink", "rename"}

Call == [op : Operations \cup {"none", "release"}, pc : Pcs, path : Paths, to : Paths,
         want : Paths, cur : NulOr, par : NulOr, fromdir : NulOr, todir : NulOr,
         fromdent : NulOr, todent : NulOr, val : Nat, ok : BOOLEAN, fh : NulOr]
Entry == [alive : BOOLEAN, isdir : BOOLEAN, parent : NulOr, name : FileNames \cup {""},
          kids : [FileNames -> NulOr], nh : Int, lc : Int, deleted : BOOLEAN, uid : Nat]
Owner == TreeThreads \cup {NoThread}

TreeTypes ==
    /\ thr \in [TreeThreads -> Call]
    /\ dent \in [Dentries -> Entry]
    /\ contents \in [Dentries -> [w : Owner, r : SUBSET TreeThreads]]
    /\ meta \in [Dentries -> Owner]
    /\ renameLock \in Owner
    /\ uidNumber \in Nat

(* Program points.                                                         *)

\* The path a lookup is for.
Target(c) ==
    CASE c.op = "rename" -> Front(IF c.fromdir = Null THEN c.path ELSE c.to)
      [] c.op \in {"create", "mkdir"} -> Front(c.path)
      [] OTHER -> c.path
FirstName(c) == c.want = Target(c)

\* Which call a program point belongs to.
OpsMatch(c) ==
    /\ c.pc = "idle" <=> c.op = "none"
    /\ c.op = "none" => c = Quiet(c.fh)
    /\ c.pc \in CreatePcs => c.op \in {"create", "mkdir"}
    /\ c.pc = "fopen" => c.op \in {"open", "create"}
    /\ c.pc = "close" => c.op \in {"getattr", "mkdir", "unlink", "rename", "release"}
    /\ c.pc \in UnlinkPcs => c.op = "unlink"
    /\ c.pc \in RenamePcs \cup {"rn0", "rnf", "rn10", "rn10w", "rn11"} => c.op = "rename"
    /\ c.pc = "fclose" => c.op = "release"
    /\ c.op = "release" => c.pc \in {"close", "fclose"}
    /\ c.op \in Changing => c.path # <<>>
    /\ c.op = "rename" <=> c.to # <<>>
    /\ c.op \in {"open", "create"} => c.fh = Null
    /\ c.op = "release" => c.fh = c.cur /\ ~c.ok
    /\ c.ok => c.pc \in {"cr4", "fopen", "close", "rn8", "rn9", "rn10", "rn10w"}
    /\ c.op = "rename" /\ c.val # 0 =>
          ~c.ok /\ c.pc \in {"rne2", "rn8", "rn9", "rn10", "rn10w", "rn11"}

\* The directory of a rename that is locked first, and the other one.
First(c) == IF c.todir = c.fromdir \/ c.todir = Root THEN c.todir ELSE c.fromdir
Second(c) == IF c.todir = c.fromdir \/ c.todir = Root THEN c.fromdir ELSE c.todir

\* Which pointers a program point has.
Pointers(c) ==
    /\ c.cur # Null <=> \/ c.pc \in {"lk1", "lk3", "found", "cr3", "fopen", "close"} \cup UnlinkPcs
                        \/ c.pc = "cr4" /\ c.ok
    /\ c.par # Null <=> \/ c.pc \in {"lk2", "lk3", "lkno"} \cup CreatePcs \cup UnlinkPcs
                        \/ c.pc = "found" /\ c.op = "unlink"
                        \/ c.pc = "lk1" /\ ~FirstName(c)
    /\ c.fromdir # Null => c.op = "rename" /\ c.pc \in RenamePcs \cup LookPcs \cup {"rnf"}
    /\ c.pc \in RenamePcs \cup {"rnf"} => c.fromdir # Null
    /\ c.todir # Null <=> c.pc \in RenamePcs \cup {"rn10", "rn10w"}
    /\ c.fromdent # Null =>
          c.pc \in (RenamePcs \cup {"rn10", "rn10w"}) \ {"rn1", "rn1m", "rn2", "rne2"}
    /\ c.pc \in {"rn6", "rn7"} => c.fromdent # Null
    /\ c.pc \in {"rn8", "rn9", "rn10", "rn10w"} => (c.ok <=> c.fromdent # Null)
    /\ c.pc \in {"rn3", "rn3m", "rn4"} =>
          IF First(c) = c.todir THEN c.fromdent = Null ELSE c.todent = Null
    /\ c.todent # Null => c.pc \in {"rn3", "rn3m", "rn4", "rn5", "rn6", "rne1", "rne2"}

\* How far a lookup has come: at most two names, the first one in the root.
Walk(c) ==
    /\ c.pc = "rn0" => c.fromdir = Null
    /\ c.pc \in {"rn0", "lk0"} => FirstName(c)
    /\ c.pc \in LookPcs \ {"found"} =>
          FirstName(c) \/ (Len(Target(c)) = 2 /\ c.want = <<Target(c)[2]>>)
    /\ c.pc \in {"lk1", "lk2", "lk3"} => c.want # <<>>
    /\ c.pc = "lk1" => IF FirstName(c) THEN c.cur = Root ELSE c.par = Root /\ c.cur # Root
    /\ c.pc \in {"lk2", "lk3"} /\ FirstName(c) => c.par = Root

\* All of this for one call.
CallOK(c) == OpsMatch(c) /\ Pointers(c) /\ Walk(c)

(* The tree and its handles.                                               *)

\* Name tables and parents agree; only a directory that is linked has entries.
GoodTree(D) ==
    /\ D[Root].alive /\ D[Root].isdir /\ D[Root].parent = Null
    /\ \A d \in Dentries : ~D[d].alive => D[d] = Blank
    /\ \A d \in Dentries, n \in FileNames :
          D[d].kids[n] # Null =>
             /\ D[D[d].kids[n]].alive
             /\ D[D[d].kids[n]].parent = d
             /\ D[D[d].kids[n]].name = n
             /\ D[d].isdir
             /\ d = Root \/ D[d].parent # Null
    /\ \A d \in Dentries :
          D[d].parent # Null =>
             D[d].name \in FileNames /\ D[D[d].parent].kids[D[d].name] = d

\* The pointers that come with a handle.
Slots == {"cur", "par", "fromdir", "todir", "fromdent", "todent", "fh"}
Ptr(c, k) ==
    CASE k = "cur" -> c.cur
      [] k = "par" -> IF c.pc = "lk1" THEN Null ELSE c.par
      [] k = "fromdir" -> c.fromdir
      [] k = "todir" -> c.todir
      [] k = "fromdent" -> c.fromdent
      [] k = "todent" -> c.todent
      [] OTHER -> IF c.op = "release" THEN Null ELSE c.fh
Holders(T, d) == {x \in TreeThreads \X Slots : Ptr(T[x[1]], x[2]) = d}
TreeHandle(D, d) == IF d = Root \/ D[d].parent # Null THEN 1 ELSE 0

\* numhandles is the number of pointers with a handle and one for the tree.
Counts(D, T) ==
    \A d \in Dentries :
       IF D[d].alive THEN D[d].nh = Cardinality(Holders(T, d)) + TreeHandle(D, d)
       ELSE Holders(T, d) = {}

(* Locks.                                                                  *)

WantsW(c) == c.op = "unlink" /\ Len(c.want) = 1

Reads(c, d) ==
    /\ c.par = d
    /\ c.pc = "lk1" \/ (c.pc \in {"lk2", "lk3"} /\ ~WantsW(c))
Writes(c, d) ==
    \/ /\ c.par = d
       /\ c.pc \in {"found", "cr1", "un1", "un2"} \/ (c.pc \in {"lk2", "lk3"} /\ WantsW(c))
    \/ c.pc \in {"rn1m", "rn2", "rn3", "rn3m"} /\ d = First(c)
    \/ c.pc = "rn3m" /\ d = Second(c)
    \/ c.pc \in LockedPcs /\ d \in {c.fromdir, c.todir}
HasMeta(c, d) ==
    \/ c.par = d /\ c.pc \in {"un2", "un3"}
    \/ c.pc \in {"rn2", "rn3", "rn3m"} /\ d = First(c)
    \/ c.pc \in LockedPcs \cup {"rn9"} /\ d \in {c.fromdir, c.todir}
    \/ c.pc = "rn10" /\ d = c.todir
Renames(c) == c.op = "rename" /\ c.pc \notin {"rn0", "close", "rn11"}

\* Who holds which lock.
ReadLocks == \A d \in Dentries : contents[d].r = {t \in TreeThreads : Reads(thr[t], d)}
WriteLocks == \A d \in Dentries, t \in TreeThreads : contents[d].w = t <=> Writes(thr[t], d)
OneKind == \A d \in Dentries : contents[d].w # NoThread => contents[d].r = {}
MetaLocks == \A d \in Dentries, t \in TreeThreads : meta[d] = t <=> HasMeta(thr[t], d)
RenameLocked == \A t \in TreeThreads : renameLock = t <=> Renames(thr[t])
LocksTrue == ReadLocks /\ WriteLocks /\ OneKind /\ MetaLocks /\ RenameLocked

(* Paths.                                                                  *)

BusyC(c) == Busy(c.op, c.path, c.to)
NotIdle(t) == thr[t].op # "none"

\* The kernel keeps the calls that change the tree apart.
Apart == \A t, u \in TreeThreads : t # u => BusyC(thr[t]) \cap BusyC(thr[u]) = {}

\* Where in the tree a call is, of D the directories on its paths.
DirsOnPath(c, D) ==
    \A r \in {c.path, c.to} \ {<<>>} :
       ResolveIn(D, Front(r)) # Null => D[ResolveIn(D, Front(r))].isdir
LookupAt(c, D) ==
    /\ c.pc \in {"lk1", "lk2", "lk3"} /\ ~FirstName(c) =>
          ResolveIn(D, <<Target(c)[1]>>) = IF c.pc = "lk1" THEN c.cur ELSE c.par
    /\ c.pc = "found" => ResolveIn(D, Target(c)) = c.cur
    /\ c.pc = "cr1" => ResolveIn(D, Front(c.path)) = c.par
UnlinkAt(c, D) ==
    /\ c.op = "unlink" /\ c.pc \in UnlinkPcs \cup {"found"} =>
          ResolveIn(D, Front(c.path)) = c.par
    /\ c.pc \in UnlinkPcs \ {"un3"} => ResolveIn(D, c.path) = c.cur
    /\ c.pc \in {"un1", "un2"} => Kids(D, c.cur) = {}
    /\ c.pc \in {"un_ne", "un_ne2"} => Kids(D, c.cur) # {}
RenameAt(c, D) ==
    /\ c.fromdir # Null => ResolveIn(D, Front(c.path)) = c.fromdir
    /\ c.todir # Null => ResolveIn(D, Front(c.to)) = c.todir
    /\ c.fromdent # Null /\ c.pc \notin {"rn8", "rn9", "rn10", "rn10w"} =>
          ResolveIn(D, c.path) = c.fromdent
    /\ c.op = "rename" /\ c.val # Null => ResolveIn(D, c.path) = c.val
    /\ c.todent # Null => ResolveIn(D, c.to) = c.todent
    /\ c.pc \in {"rn3", "rn3m", "rn4"} /\ First(c) = c.todir => ResolveIn(D, c.to) = c.todent
    /\ c.pc \in {"rn5", "rn6"} /\ c.fromdent # Null => ResolveIn(D, c.to) = c.todent
    /\ c.pc \in {"rn6", "rn7"} => c.fromdent # c.todir
    /\ c.pc = "rn6" => /\ c.todent # c.fromdir
                       /\ c.todent \notin {Null, c.fromdent} => Kids(D, c.todent) = {}
    /\ c.pc = "rn7" => ResolveIn(D, c.to) \in {Null, c.fromdent}
PlaceOK(c, D) ==
    /\ c.pc = "lk3" => D[c.par].kids[Head(c.want)] = c.cur
    /\ c.op \in Changing => /\ DirsOnPath(c, D) /\ LookupAt(c, D)
                            /\ UnlinkAt(c, D) /\ RenameAt(c, D)

TreeInv ==
    /\ TreeTypes
    /\ \A t \in TreeThreads : CallOK(thr[t])
    /\ GoodTree(dent)
    /\ Counts(dent, thr)
    /\ LocksTrue
    /\ Apart
    /\ \A t \in TreeThreads : PlaceOK(thr[t], dent)

\* After ltfs_index_free there is no call and no handle.
Ended == thr = [t \in TreeThreads |-> Quiet(Null)]

\* Until a refused rmdir has interfered with another thread.
Inv == ~clobbered => IF unmounted THEN Ended ELSE TreeInv

(* Steps: what a call's new state c does to handles and locks.             *)

SameSlots(b, c) == \A k \in Slots : Ptr(c, k) = Ptr(b, k)
TakeSlot(b, c, j, d) ==
    /\ j \in Slots /\ Ptr(b, j) = Null /\ Ptr(c, j) = d
    /\ \A k \in Slots \ {j} : Ptr(c, k) = Ptr(b, k)
GiveSlot(b, c, j, d) == TakeSlot(c, b, j, d)
PassSlot(b, c, i, j) ==
    /\ i \in Slots /\ j \in Slots /\ i # j
    /\ Ptr(b, j) = Null /\ Ptr(c, i) = Null /\ Ptr(c, j) = Ptr(b, i)
    /\ \A k \in Slots \ {i, j} : Ptr(c, k) = Ptr(b, k)

\* Thread t goes on to c; entry d gets the count v.
Steps(T, U, t, c) == U[t] = c /\ \A u \in TreeThreads \ {t} : U[u] = T[u]
NewCount(D, E, d, v) ==
    /\ E \in [Dentries -> Entry]
    /\ E[d] = [D[d] EXCEPT !.nh = v]
    /\ \A e \in Dentries \ {d} : E[e] = D[e]

\* Counts change, or an entry that is in no directory is freed.
Lean(D, E) ==
    \A d \in Dentries :
       \/ E[d] = [D[d] EXCEPT !.nh = E[d].nh] /\ (D[d].alive \/ E[d] = D[d])
       \/ E[d] = Blank /\ d # Root /\ D[d].parent = Null /\ Kids(D, d) = {}

LockTypes ==
    /\ contents \in [Dentries -> [w : Owner, r : SUBSET TreeThreads]]
    /\ meta \in [Dentries -> Owner]
    /\ renameLock \in Owner

ContentsChange(t, c) ==
    \A d \in Dentries :
       /\ contents'[d].r = IF Reads(c, d) THEN contents[d].r \cup {t} ELSE contents[d].r \ {t}
       /\ contents'[d].w = IF Writes(c, d) THEN t
                           ELSE IF contents[d].w = t THEN NoThread ELSE contents[d].w
       /\ Reads(c, d) /\ ~Reads(thr[t], d) => CanRead(d)
       /\ Writes(c, d) /\ ~Writes(thr[t], d) => CanWrite(d)
MetaChange(t, c) ==
    \A d \in Dentries :
       /\ meta'[d] = IF HasMeta(c, d) THEN t ELSE IF meta[d] = t THEN NoThread ELSE meta[d]
       /\ HasMeta(c, d) /\ ~HasMeta(thr[t], d) => MetaFree(d)
RenameChange(t, c) ==
    /\ renameLock' = IF Renames(c) THEN t ELSE IF renameLock = t THEN NoThread ELSE renameLock
    /\ Renames(c) /\ ~Renames(thr[t]) => renameLock = NoThread
LockChange(t, c) == ContentsChange(t, c) /\ MetaChange(t, c) /\ RenameChange(t, c)

SameCall(b, c) == c.op = b.op /\ c.path = b.path /\ c.to = b.to

\* The contents_lock of a dentry.
ContentsType == [Dentries -> [w : Owner, r : SUBSET TreeThreads]]
IsLock(l, w, r) == l.w = w /\ l.r = r

\* The entries of D and E differ at most in the names that end a path of R.
Local(D, E, R) ==
    /\ \A d \in Dentries, n \in FileNames :
          E[d].kids[n] = D[d].kids[n] \/ \E r \in R : d = ResolveIn(D, Front(r)) /\ n = Last(r)
    /\ \A d \in Dentries : D[d].alive /\ E[d].alive => E[d].isdir = D[d].isdir

\* Directory p gets the new entry ed under the name n.
Inserted(D, E, p, n, d, l, ed) ==
    E = [D EXCEPT ![d] = ed, ![p] = [D[p] EXCEPT !.kids[n] = d, !.lc = l]]

\* A step that hands out no uid.
KeepsUids(D, E) ==
    \A d \in Dentries : E[d].alive => D[d].alive /\ E[d].uid = D[d].uid

\* The uids in use are below the counter, unless it has run out.
UidInv ==
    /\ uidNumber \in 0..(UidLimit - 1)
    /\ \A d \in Dentries : dent[d].alive =>
          dent[d].uid \in 1..(IF uidNumber = 0 THEN UidLimit - 1 ELSE uidNumber)

(* Links.                                                                  *)

IsLinked(D, d) == d = Root \/ D[d].parent # Null
DirsIn(D, d) == {e \in Dentries : D[e].alive /\ D[e].isdir /\ D[e].parent = d}

\* A dentry that has left the tree is marked as deleted and in use.
Orphans(D) == \A d \in Dentries : D[d].alive /\ ~IsLinked(D, d) => D[d].deleted
InUse(D) == \A d \in Dentries : D[d].alive /\ ~IsLinked(D, d) => D[d].nh # 0

\* link_count: the entry itself, "." and one ".." for each subdirectory.
LinkCounts(D) ==
    \A d \in Dentries : D[d].alive =>
       D[d].lc = Cardinality(DirsIn(D, d)) + (IF D[d].isdir THEN 1 ELSE 0)
                 + (IF IsLinked(D, d) THEN 1 ELSE 0)

\* Directories can be ranked so that an entry is above its directory: there
\* is no cycle.
Ranks(D, rank) ==
    rank \in [Dentries -> Nat] /\ \A d \in Dentries : D[d].parent # Null => rank[D[d].parent] < rank[d]
Ranked(D) == \E rank : Ranks(D, rank)

\* All of this.
LinksOK(D) == InUse(D) /\ Orphans(D) /\ LinkCounts(D) /\ Ranked(D)

\* Counts change or memory is freed, and what is in use stays so.
LinkStep(D, E) ==
    E \in [Dentries -> Entry] /\ Lean(D, E) /\ (InUse(D) => InUse(E))

\* Dentry d leaves directory p; the new dentry ed joins it.
Left(D, E, p, d) ==
    /\ E[d].alive = D[d].alive /\ E[d].isdir = D[d].isdir /\ E[d].parent = Null
    /\ E[d].deleted /\ E[d].lc = D[d].lc - 1 /\ E[d].nh = D[d].nh - 1
    /\ E[p].alive = D[p].alive /\ E[p].isdir = D[p].isdir /\ E[p].parent = D[p].parent
    /\ E[p].deleted = D[p].deleted /\ E[p].nh = D[p].nh
    /\ E[p].lc = IF D[d].isdir THEN D[p].lc - 1 ELSE D[p].lc
    /\ \A e \in Dentries : e # d /\ e # p => E[e] = D[e]
Joined(D, E, p, d, l, ed) ==
    /\ E[d] = ed
    /\ E[p].alive = D[p].alive /\ E[p].isdir = D[p].isdir /\ E[p].parent = D[p].parent
    /\ E[p].deleted = D[p].deleted /\ E[p].nh = D[p].nh /\ E[p].lc = l
    /\ \A e \in Dentries : e # d /\ e # p => E[e] = D[e]
Moved(D, E, d, p, q) ==
    \A e \in Dentries :
       /\ E[e].alive = D[e].alive /\ E[e].isdir = D[e].isdir /\ E[e].deleted = D[e].deleted
       /\ E[e].nh = D[e].nh /\ E[e].parent = (IF e = d THEN q ELSE D[e].parent)
       /\ E[e].lc = D[e].lc - (IF D[d].isdir /\ e = p THEN 1 ELSE 0)
                            + (IF D[d].isdir /\ e = q THEN 1 ELSE 0)

\* f[n] is next applied n times to s.
Chained(f, N, S, s, next) ==
    f \in [0..N -> S] /\ f[0] = s /\ \A n \in 1..N : f[n] = next[f[n - 1]]

=============================================================================
