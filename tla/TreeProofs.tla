----------------------------- MODULE TreeProofs -----------------------------
(***************************************************************************)
(* The steps of rename, the steps that change name tables, and the         *)
(* theorems: Inv is an invariant of Tree, and because of it no pointer     *)
(* dangles, the counts and the file table are exact and uids are unique;   *)
(* with LinksOK, link counts are exact and the tree has no cycle.          *)
(***************************************************************************)
EXTENDS TreeSteps

-----------------------------------------------------------------------------
(* ltfs_fsops_rename.                                                      *)

\* A directory on a path of two names is the root or an entry of the root.
LEMMA FrontDir ==
    ASSUME NEW D \in [Dentries -> Entry], GoodTree(D), NEW p \in Paths, p # <<>>,
           ResolveIn(D, Front(p)) # Null
    PROVE  ResolveIn(D, Front(p)) = Root \/ D[ResolveIn(D, Front(p))].parent = Root
<1>1. Front(p) \in Paths /\ (Front(p) = <<>> \/ (Front(p) = <<p[1]>> /\ p[1] \in FileNames))
  BY PathParts
<1>2. CASE Front(p) = <<>>
  BY <1>2 DEF ResolveIn
<1>3. CASE Front(p) = <<p[1]>> /\ p[1] \in FileNames
  <2>1. Front(p) # <<>> /\ Front(Front(p)) = <<>>
    BY <1>3, ShortPaths
  <2>2. D[ResolveIn(D, Front(p))].parent = ResolveIn(D, <<>>)
    BY <1>1, <2>1, ResolveType
  <2> QED BY <2>2 DEF ResolveIn
<1> QED BY <1>1, <1>2, <1>3

\* The order of the two directories and what their names stand for.
LEMMA RenameDirs ==
    ASSUME TreeInv, NEW t \in TreeThreads, thr[t].fromdir # Null, thr[t].todir # Null
    PROVE  LET b == thr[t] IN
           /\ b.op = "rename" /\ b.fromdir \in Dentries /\ b.todir \in Dentries
           /\ ToFirst(t) <=> First(b) = b.todir
           /\ FirstDir(t) = First(b) /\ SecondDir(t) = Second(b)
           /\ First(b) = b.todir => Second(b) = b.fromdir
           /\ First(b) # b.todir => First(b) = b.fromdir /\ Second(b) = b.todir
           /\ NameIn(t, TRUE) = IF First(b) = b.todir THEN Last(b.to) ELSE Last(b.path)
           /\ NameIn(t, FALSE) = IF First(b) = b.todir THEN Last(b.path) ELSE Last(b.to)
           /\ ResolveIn(dent, b.to) = dent[b.todir].kids[Last(b.to)]
           /\ ResolveIn(dent, b.path) = dent[b.fromdir].kids[Last(b.path)]
           /\ \A p \in {b.path, b.to} : /\ ResolveIn(dent, p) \in NulOr
                                        /\ ResolveIn(dent, p) # Null => dent[ResolveIn(dent, p)].alive
<1> DEFINE b == thr[t]
<1>1. /\ b \in Call /\ OpsMatch(b) /\ Pointers(b) /\ PlaceOK(b, dent)
      /\ dent \in [Dentries -> Entry] /\ GoodTree(dent)
  BY Here
<1>2. b.pc \in RenamePcs /\ b.op = "rename"
  BY <1>1 DEF Pointers, LookPcs, LockedPcs, RenamePcs
<1>3. b.fromdir \in Dentries /\ b.todir \in Dentries
  BY <1>1, <1>2 DEF Pointers, Call, NulOr
<1>4. b.path \in Paths /\ b.to \in Paths /\ b.path # <<>> /\ b.to # <<>>
  BY <1>1, <1>2 DEF OpsMatch, Call, Changing
<1>5. ResolveIn(dent, Front(b.path)) = b.fromdir /\ ResolveIn(dent, Front(b.to)) = b.todir
  BY <1>1, <1>2, <1>3, Memory DEF PlaceOK, RenameAt, Changing
<1>6. /\ ResolveIn(dent, b.to) = dent[b.todir].kids[Last(b.to)]
      /\ ResolveIn(dent, b.path) = dent[b.fromdir].kids[Last(b.path)]
  BY <1>1, <1>3, <1>4, <1>5, ResolveParts, Memory
<1>7. \A p \in {b.path, b.to} : /\ ResolveIn(dent, p) \in NulOr
                                /\ ResolveIn(dent, p) # Null => dent[ResolveIn(dent, p)].alive
  BY <1>1, <1>4, ResolveType
<1>8. IsPredecessor(b.todir, b.fromdir) <=> b.todir \in {b.fromdir, Root}
  <2>1. b.fromdir = Root \/ dent[b.fromdir].parent = Root
    BY <1>1, <1>3, <1>4, <1>5, FrontDir, Memory
  <2>2. dent[Root].parent = Null
    BY <1>1 DEF GoodTree
  <2> QED BY <1>3, <2>1, <2>2, Above
<1>9. ToFirst(t) <=> First(b) = b.todir
  BY <1>8 DEF ToFirst, First
<1>10. FirstDir(t) = First(b) /\ SecondDir(t) = Second(b)
  BY <1>8 DEF FirstDir, SecondDir, ToFirst, First, Second
<1>11. /\ First(b) = b.todir => Second(b) = b.fromdir
       /\ First(b) # b.todir => First(b) = b.fromdir /\ Second(b) = b.todir
  BY DEF First, Second
<1>12. ToFirst(t) \in BOOLEAN
  BY DEF ToFirst, IsPredecessor
<1>13. /\ NameIn(t, TRUE) = IF ToFirst(t) THEN Last(b.to) ELSE Last(b.path)
       /\ NameIn(t, FALSE) = IF ToFirst(t) THEN Last(b.path) ELSE Last(b.to)
  BY <1>12 DEF NameIn
<1> QED BY <1>2, <1>3, <1>6, <1>7, <1>9, <1>10, <1>11, <1>13

\* ltfs_fsops_rename takes rename_lock.
LEMMA RenameBeginInv ==
    ASSUME TreeInv, NEW t \in TreeThreads, RenameBegin(t)
    PROVE  TreeInv'
<1> DEFINE b == thr[t]
           c == [b EXCEPT !.pc = "lk0"]
<1>1. /\ b \in Call /\ OpsMatch(b) /\ Pointers(b) /\ Walk(b) /\ PlaceOK(b, dent)
      /\ thr \in [TreeThreads -> Call] /\ dent \in [Dentries -> Entry] /\ GoodTree(dent)
      /\ LockTypes /\ uidNumber \in Nat /\ Root \in Dentries /\ Null \notin Dentries
      /\ b.pc = "rn0"
  BY Here DEF RenameBegin
<1>2. /\ b.op # "none"
      /\ b.op = "rename"
  BY <1>1 DEF OpsMatch
<1>3. /\ c.op = b.op /\ c.path = b.path /\ c.to = b.to
      /\ c.want = b.want /\ c.cur = b.cur /\ c.par = b.par
      /\ c.fromdir = b.fromdir /\ c.todir = b.todir /\ c.fromdent = b.fromdent
      /\ c.todent = b.todent /\ c.val = b.val /\ c.ok = b.ok
      /\ c.fh = b.fh /\ c.pc = "lk0"
  BY <1>1 DEF Call
<1>4. c \in Call
  <2>1. /\ "lk0" \in Pcs
    BY <1>1, <1>2 DEF Call, NulOr, Pcs, LookPcs, CreatePcs, UnlinkPcs, LockedPcs, RenamePcs
  <2> QED BY <1>1, <2>1 DEF Call
<1>5. thr' = [thr EXCEPT ![t] = c] /\ Steps(thr, thr', t, c)
  BY <1>1 DEF RenameBegin, Goto, Steps
<1> HIDE DEF b, c
<1>6. CallOK(c)
  <2>1. Target(c) = Target(b)
    BY <1>3 DEF Target
  <2>2. OpsMatch(c)
    BY <1>1, <1>2, <1>3, <2>1 DEF OpsMatch, Changing, LookPcs, CreatePcs, UnlinkPcs, LockedPcs, RenamePcs
  <2>3. Pointers(c)
    BY <1>1, <1>2, <1>3, <2>1 DEF OpsMatch, Pointers, First, FirstName, LookPcs, CreatePcs, UnlinkPcs, LockedPcs, RenamePcs
  <2>4. Walk(c)
    BY <1>1, <1>2, <1>3, <2>1 DEF Walk, FirstName, LookPcs, CreatePcs, UnlinkPcs, LockedPcs, RenamePcs
  <2> QED BY <2>2, <2>3, <2>4 DEF CallOK
<1>7. dent' \in [Dentries -> Entry] /\ Lean(dent, dent') /\ Counts(dent', thr')
  <2>1. SameSlots(b, c)
    BY <1>1, <1>2, <1>3, PtrIs DEF SameSlots, Slots, Pointers, LookPcs, CreatePcs, UnlinkPcs, LockedPcs, RenamePcs
  <2> QED BY <1>2, <1>5, <2>1, KeepHandles DEF b, RenameBegin, SameTree
<1>8. LockChange(t, c) /\ LockTypes'
  <2>1. ContentsChange(t, c)
    <3>1. \A d \in Dentries : (Reads(c, d) <=> Reads(b, d)) /\ (Writes(c, d) <=> Writes(b, d))
      BY <1>1, <1>2, <1>3 DEF Reads, Writes, WantsW, First, Second, Pointers, LookPcs, CreatePcs, UnlinkPcs, LockedPcs, RenamePcs
    <3> QED BY <3>1, <1>2, ContentsKept DEF b, RenameBegin, SameLocks
  <2>2. MetaChange(t, c)
    <3>1. \A d \in Dentries : HasMeta(c, d) <=> HasMeta(b, d)
      BY <1>1, <1>2, <1>3 DEF HasMeta, First, Pointers, LookPcs, CreatePcs, UnlinkPcs, LockedPcs, RenamePcs
    <3> QED BY <3>1, MetaKept DEF b, RenameBegin, SameLocks
  <2>3. RenameChange(t, c)
    <3>1. Renames(c) /\ ~Renames(b)
      BY <1>1, <1>2, <1>3 DEF Renames
    <3> QED BY <3>1 DEF RenameBegin, RenameChange
  <2>4. LockTypes'
    BY <1>1 DEF RenameBegin, LockTypes, Owner
  <2> QED BY <2>1, <2>2, <2>3, <2>4 DEF LockChange
<1>9. PlaceOK(c, dent)
  <2>1. c.op \in Changing => DirsOnPath(c, dent)
    BY <1>1, <1>2, <1>3 DEF PlaceOK, DirsOnPath
  <2>2. c.op \in Changing => LookupAt(c, dent)
    BY <1>1, <1>2, <1>3 DEF PlaceOK, LookupAt, Target, FirstName, LookPcs, CreatePcs, UnlinkPcs, LockedPcs, RenamePcs
  <2>3. c.op \in Changing => UnlinkAt(c, dent)
    BY <1>1, <1>2, <1>3 DEF PlaceOK, UnlinkAt, LookPcs, CreatePcs, UnlinkPcs, LockedPcs, RenamePcs
  <2>4. c.op \in Changing => RenameAt(c, dent)
    BY <1>1, <1>2, <1>3 DEF PlaceOK, RenameAt, First, Pointers, LookPcs, CreatePcs, UnlinkPcs, LockedPcs, RenamePcs
  <2>5. c.pc = "lk3" => dent[c.par].kids[Head(c.want)] = c.cur
    BY <1>1, <1>3
  <2> QED BY <2>1, <2>2, <2>3, <2>4, <2>5 DEF PlaceOK
<1>11. SameCall(b, c) /\ uidNumber' \in Nat
  BY <1>1, <1>3 DEF SameCall, RenameBegin, SameTree
<1> QED BY <1>2, <1>4, <1>5, <1>6, <1>7, <1>8, <1>9, <1>11, LeanStep DEF b

\* rename has found the directory of the old name.
LEMMA RenameFoundFrom ==
    ASSUME TreeInv, NEW t \in TreeThreads, RenameFound(t), thr[t].fromdir = Null
    PROVE  TreeInv'
<1> DEFINE b == thr[t]
           c == [b EXCEPT !.fromdir = b.cur, !.cur = Null, !.want = Front(b.to), !.pc = "lk0"]
<1>1. /\ b \in Call /\ OpsMatch(b) /\ Pointers(b) /\ Walk(b) /\ PlaceOK(b, dent)
      /\ thr \in [TreeThreads -> Call] /\ dent \in [Dentries -> Entry] /\ GoodTree(dent)
      /\ LockTypes /\ uidNumber \in Nat /\ Root \in Dentries /\ Null \notin Dentries
      /\ b.pc = "found"
  BY Here DEF RenameFound
<1>2. /\ b.op # "none"
      /\ b.op = "rename"
      /\ b.fromdir = Null
      /\ b.cur \in Dentries
      /\ b.to # <<>> /\ Front(b.to) \in Paths
      /\ b.cur # Null
  <2>1. b.op = "rename" /\ b.to # <<>> /\ b.cur \in Dentries /\ b.to \in Paths
    BY <1>1 DEF RenameFound, OpsMatch, Pointers, Call, NulOr
  <2> QED BY <1>1, <2>1, PathParts
<1>3. /\ c.op = b.op /\ c.path = b.path /\ c.to = b.to
      /\ c.want = Front(b.to) /\ c.cur = Null /\ c.par = b.par
      /\ c.fromdir = b.cur /\ c.todir = b.todir /\ c.fromdent = b.fromdent
      /\ c.todent = b.todent /\ c.val = b.val /\ c.ok = b.ok
      /\ c.fh = b.fh /\ c.pc = "lk0"
  BY <1>1 DEF Call
<1>4. c \in Call
  <2>1. /\ b.cur \in NulOr
        /\ Null \in NulOr
        /\ Front(b.to) \in Paths
        /\ "lk0" \in Pcs
    BY <1>1, <1>2 DEF Call, NulOr, Pcs, LookPcs, CreatePcs, UnlinkPcs, LockedPcs, RenamePcs
  <2> QED BY <1>1, <2>1 DEF Call
<1>5. thr' = [thr EXCEPT ![t] = c] /\ Steps(thr, thr', t, c)
  BY <1>1, <1>2 DEF RenameFound, Goto, Steps
<1> HIDE DEF b, c
<1>6. CallOK(c)
  <2>2. OpsMatch(c)
    BY <1>1, <1>2, <1>3 DEF OpsMatch, Changing, LookPcs, CreatePcs, UnlinkPcs, LockedPcs, RenamePcs
  <2>3. Pointers(c)
    BY <1>1, <1>2, <1>3 DEF OpsMatch, Pointers, LookPcs, CreatePcs, UnlinkPcs, LockedPcs, RenamePcs
  <2>4. Walk(c)
    <3>1. FirstName(c)
      BY <1>1, <1>2, <1>3 DEF FirstName, Target
    <3> QED BY <1>3, <3>1 DEF Walk, LookPcs, CreatePcs, UnlinkPcs, LockedPcs, RenamePcs
  <2> QED BY <2>2, <2>3, <2>4 DEF CallOK
<1>7. dent' \in [Dentries -> Entry] /\ Lean(dent, dent') /\ Counts(dent', thr')
  <2>1. PassSlot(b, c, "cur", "fromdir")
    BY <1>1, <1>2, <1>3, PtrIs DEF PassSlot, Slots, Pointers, LookPcs, CreatePcs, UnlinkPcs, LockedPcs, RenamePcs
  <2> QED BY <1>2, <1>5, <2>1, KeepHandles DEF b, RenameFound, SameTree
<1>8. LockChange(t, c) /\ LockTypes'
  <2>1. ContentsChange(t, c)
    <3>1. \A d \in Dentries : (Reads(c, d) <=> Reads(b, d)) /\ (Writes(c, d) <=> Writes(b, d))
      BY <1>1, <1>2, <1>3 DEF Reads, Writes, WantsW, First, Second, Pointers, LookPcs, CreatePcs, UnlinkPcs, LockedPcs, RenamePcs
    <3> QED BY <3>1, <1>2, ContentsKept DEF b, RenameFound, SameLocks
  <2>2. MetaChange(t, c)
    <3>1. \A d \in Dentries : HasMeta(c, d) <=> HasMeta(b, d)
      BY <1>1, <1>2, <1>3 DEF HasMeta, First, Pointers, LookPcs, CreatePcs, UnlinkPcs, LockedPcs, RenamePcs
    <3> QED BY <3>1, MetaKept DEF b, RenameFound, SameLocks
  <2>3. RenameChange(t, c)
    <3>1. Renames(c) <=> Renames(b)
      BY <1>1, <1>2, <1>3 DEF OpsMatch, Renames, LookPcs, CreatePcs, UnlinkPcs, LockedPcs, RenamePcs
    <3> QED BY <3>1, RenameKept DEF b, RenameFound, SameLocks
  <2>4. LockTypes'
    BY <1>1, <1>2 DEF RenameFound, SameLocks, LockTypes
  <2> QED BY <2>1, <2>2, <2>3, <2>4 DEF LockChange
<1>9. PlaceOK(c, dent)
  <2>1. c.op \in Changing => DirsOnPath(c, dent)
    BY <1>1, <1>2, <1>3 DEF PlaceOK, DirsOnPath
  <2>2. c.op \in Changing => LookupAt(c, dent)
    BY <1>3 DEF LookupAt
  <2>3. c.op \in Changing => UnlinkAt(c, dent)
    BY <1>1, <1>2, <1>3 DEF PlaceOK, UnlinkAt, LookPcs, CreatePcs, UnlinkPcs, LockedPcs, RenamePcs
  <2>4. c.op \in Changing => RenameAt(c, dent)
    <3>1. Target(b) = Front(b.path)
      BY <1>2 DEF Target
    <3>2. ResolveIn(dent, Front(b.path)) = b.cur
      BY <1>1, <1>2, <3>1 DEF PlaceOK, LookupAt, Changing
    <3>3. c.val = Null \/ c.op # "rename"
      BY <1>1, <1>2, <1>3 DEF OpsMatch, Null
    <3> QED BY <1>1, <1>2, <1>3, <3>2, <3>3 DEF RenameAt, Pointers, LookPcs, CreatePcs, UnlinkPcs, LockedPcs, RenamePcs
  <2>5. c.pc = "lk3" => dent[c.par].kids[Head(c.want)] = c.cur
    BY <1>1, <1>3
  <2> QED BY <2>1, <2>2, <2>3, <2>4, <2>5 DEF PlaceOK
<1>11. SameCall(b, c) /\ uidNumber' \in Nat
  BY <1>1, <1>3 DEF SameCall, RenameFound, SameTree
<1> QED BY <1>2, <1>4, <1>5, <1>6, <1>7, <1>8, <1>9, <1>11, LeanStep DEF b

\* rename has found the directory of the new name.
LEMMA RenameFoundTo ==
    ASSUME TreeInv, NEW t \in TreeThreads, RenameFound(t), thr[t].fromdir # Null
    PROVE  TreeInv'
<1> DEFINE b == thr[t]
           c == [b EXCEPT !.todir = b.cur, !.cur = Null, !.pc = "rn1"]
<1>1. /\ b \in Call /\ OpsMatch(b) /\ Pointers(b) /\ Walk(b) /\ PlaceOK(b, dent)
      /\ thr \in [TreeThreads -> Call] /\ dent \in [Dentries -> Entry] /\ GoodTree(dent)
      /\ LockTypes /\ uidNumber \in Nat /\ Root \in Dentries /\ Null \notin Dentries
      /\ b.pc = "found"
  BY Here DEF RenameFound
<1>2. /\ b.op # "none"
      /\ b.op = "rename"
      /\ b.fromdir # Null
      /\ b.cur \in Dentries
      /\ b.cur # Null
  BY <1>1 DEF RenameFound, Pointers, Call, NulOr
<1>3. /\ c.op = b.op /\ c.path = b.path /\ c.to = b.to
      /\ c.want = b.want /\ c.cur = Null /\ c.par = b.par
      /\ c.fromdir = b.fromdir /\ c.todir = b.cur /\ c.fromdent = b.fromdent
      /\ c.todent = b.todent /\ c.val = b.val /\ c.ok = b.ok
      /\ c.fh = b.fh /\ c.pc = "rn1"
  BY <1>1 DEF Call
<1>4. c \in Call
  <2>1. /\ b.cur \in NulOr
        /\ Null \in NulOr
        /\ "rn1" \in Pcs
    BY <1>1, <1>2 DEF Call, NulOr, Pcs, LookPcs, CreatePcs, UnlinkPcs, LockedPcs, RenamePcs
  <2> QED BY <1>1, <2>1 DEF Call
<1>5. thr' = [thr EXCEPT ![t] = c] /\ Steps(thr, thr', t, c)
  BY <1>1, <1>2 DEF RenameFound, Goto, Steps
<1> HIDE DEF b, c
<1>6. CallOK(c)
  <2>1. Target(c) = Target(b)
    BY <1>3 DEF Target
  <2>2. OpsMatch(c)
    BY <1>1, <1>2, <1>3, <2>1 DEF OpsMatch, Changing, LookPcs, CreatePcs, UnlinkPcs, LockedPcs, RenamePcs
  <2>3. Pointers(c)
    BY <1>1, <1>2, <1>3, <2>1 DEF OpsMatch, Pointers, First, FirstName, LookPcs, CreatePcs, UnlinkPcs, LockedPcs, RenamePcs
  <2>4. Walk(c)
    BY <1>1, <1>2, <1>3, <2>1 DEF Walk, FirstName, LookPcs, CreatePcs, UnlinkPcs, LockedPcs, RenamePcs
  <2> QED BY <2>2, <2>3, <2>4 DEF CallOK
<1>7. dent' \in [Dentries -> Entry] /\ Lean(dent, dent') /\ Counts(dent', thr')
  <2>1. PassSlot(b, c, "cur", "todir")
    BY <1>1, <1>2, <1>3, PtrIs DEF PassSlot, Slots, Pointers, LookPcs, CreatePcs, UnlinkPcs, LockedPcs, RenamePcs
  <2> QED BY <1>2, <1>5, <2>1, KeepHandles DEF b, RenameFound, SameTree
<1>8. LockChange(t, c) /\ LockTypes'
  <2>1. ContentsChange(t, c)
    <3>1. \A d \in Dentries : (Reads(c, d) <=> Reads(b, d)) /\ (Writes(c, d) <=> Writes(b, d))
      BY <1>1, <1>2, <1>3 DEF Reads, Writes, WantsW, First, Second, Pointers, LookPcs, CreatePcs, UnlinkPcs, LockedPcs, RenamePcs
    <3> QED BY <3>1, <1>2, ContentsKept DEF b, RenameFound, SameLocks
  <2>2. MetaChange(t, c)
    <3>1. \A d \in Dentries : HasMeta(c, d) <=> HasMeta(b, d)
      BY <1>1, <1>2, <1>3 DEF HasMeta, First, Pointers, LookPcs, CreatePcs, UnlinkPcs, LockedPcs, RenamePcs
    <3> QED BY <3>1, MetaKept DEF b, RenameFound, SameLocks
  <2>3. RenameChange(t, c)
    <3>1. Renames(c) <=> Renames(b)
      BY <1>1, <1>2, <1>3 DEF OpsMatch, Renames, LookPcs, CreatePcs, UnlinkPcs, LockedPcs, RenamePcs
    <3> QED BY <3>1, RenameKept DEF b, RenameFound, SameLocks
  <2>4. LockTypes'
    BY <1>1, <1>2 DEF RenameFound, SameLocks, LockTypes
  <2> QED BY <2>1, <2>2, <2>3, <2>4 DEF LockChange
<1>9. PlaceOK(c, dent)
  <2>1. c.op \in Changing => DirsOnPath(c, dent)
    BY <1>1, <1>2, <1>3 DEF PlaceOK, DirsOnPath
  <2>2. c.op \in Changing => LookupAt(c, dent)
    BY <1>1, <1>2, <1>3 DEF PlaceOK, LookupAt, Target, FirstName, LookPcs, CreatePcs, UnlinkPcs, LockedPcs, RenamePcs
  <2>3. c.op \in Changing => UnlinkAt(c, dent)
    BY <1>1, <1>2, <1>3 DEF PlaceOK, UnlinkAt, LookPcs, CreatePcs, UnlinkPcs, LockedPcs, RenamePcs
  <2>4. c.op \in Changing => RenameAt(c, dent)
    <3>1. Target(b) = Front(b.to)
      BY <1>2 DEF Target
    <3>2. ResolveIn(dent, Front(b.to)) = b.cur /\ ResolveIn(dent, Front(b.path)) = b.fromdir
      BY <1>1, <1>2, <3>1 DEF PlaceOK, LookupAt, RenameAt, Changing
    <3>3. c.val = Null \/ c.op # "rename"
      BY <1>1, <1>2, <1>3 DEF OpsMatch, Null
    <3> QED BY <1>1, <1>2, <1>3, <3>2, <3>3 DEF RenameAt, Pointers, LookPcs, CreatePcs, UnlinkPcs, LockedPcs, RenamePcs
  <2>5. c.pc = "lk3" => dent[c.par].kids[Head(c.want)] = c.cur
    BY <1>1, <1>3
  <2> QED BY <2>1, <2>2, <2>3, <2>4, <2>5 DEF PlaceOK
<1>11. SameCall(b, c) /\ uidNumber' \in Nat
  BY <1>1, <1>3 DEF SameCall, RenameFound, SameTree
<1> QED BY <1>2, <1>4, <1>5, <1>6, <1>7, <1>8, <1>9, <1>11, LeanStep DEF b

\* rename gives up after its second lookup failed.
LEMMA RenameNoTargetInv ==
    ASSUME TreeInv, NEW t \in TreeThreads, RenameNoTarget(t)
    PROVE  TreeInv'
<1> DEFINE b == thr[t]
           c == Quiet(b.fh)
<1>1. /\ b \in Call /\ OpsMatch(b) /\ Pointers(b) /\ Walk(b) /\ PlaceOK(b, dent)
      /\ thr \in [TreeThreads -> Call] /\ dent \in [Dentries -> Entry] /\ GoodTree(dent)
      /\ LockTypes /\ uidNumber \in Nat /\ Root \in Dentries /\ Null \notin Dentries
      /\ b.pc = "rnf"
  BY Here DEF RenameNoTarget
<1>2. /\ b.op # "none" /\ b.fh \in NulOr
      /\ b.op = "rename"
  BY <1>1 DEF OpsMatch, Pointers, Call, LookPcs, CreatePcs, UnlinkPcs, LockedPcs, RenamePcs
<1>3. \A k \in Slots : Ptr(c, k) = IF k = "fh" THEN b.fh ELSE Null
  BY <1>2, QuietOK
<1>4. thr' = [thr EXCEPT ![t] = c] /\ Steps(thr, thr', t, c)
  BY <1>1 DEF RenameNoTarget, End, Goto, Steps
<1> HIDE DEF c, b
<1>5. dent' \in [Dentries -> Entry] /\ Lean(dent, dent') /\ Counts(dent', thr')
  <2>1. GiveSlot(b, c, "fromdir", b.fromdir)
    BY <1>1, <1>2, <1>3, PtrIs DEF GiveSlot, TakeSlot, Slots, OpsMatch, Pointers, LookPcs, CreatePcs, UnlinkPcs, LockedPcs, RenamePcs
  <2>2. b.fromdir \in Dentries
    BY <1>1, <1>2 DEF Pointers, Call, NulOr, LookPcs, CreatePcs, UnlinkPcs, LockedPcs, RenamePcs
  <2> QED BY <1>4, <2>1, <2>2, ReleaseHandle DEF b, RenameNoTarget
<1>6. \A x \in Dentries : ~Reads(b, x) /\ ~Writes(b, x) /\ ~HasMeta(b, x)
  BY <1>1, <1>2 DEF Reads, Writes, HasMeta, LookPcs, CreatePcs, UnlinkPcs, LockedPcs, RenamePcs
<1>7. renameLock' = (IF Renames(b) THEN NoThread ELSE renameLock) /\ renameLock' \in Owner
  BY <1>1, <1>2 DEF b, RenameNoTarget, OpsMatch, Renames, SameLocks, LockTypes, Owner, LookPcs, CreatePcs, UnlinkPcs, LockedPcs, RenamePcs
<1>8. UNCHANGED <<contents, meta>> /\ uidNumber' \in Nat
  BY <1>1 DEF RenameNoTarget, SameLocks, SameTree
<1> QED BY <1>2, <1>4, <1>5, <1>6, <1>7, <1>8, EndStep DEF b, c

\* rename locks the contents of the first directory.
LEMMA RenameLockFirstContents ==
    ASSUME TreeInv, NEW t \in TreeThreads, RenameLockFirst(t), thr[t].pc = "rn1"
    PROVE  TreeInv'
<1> DEFINE b == thr[t]
           c == [b EXCEPT !.pc = "rn1m"]
<1>1. /\ b \in Call /\ OpsMatch(b) /\ Pointers(b) /\ Walk(b) /\ PlaceOK(b, dent)
      /\ thr \in [TreeThreads -> Call] /\ dent \in [Dentries -> Entry] /\ GoodTree(dent)
      /\ LockTypes /\ uidNumber \in Nat /\ Root \in Dentries /\ Null \notin Dentries
      /\ b.pc = "rn1"
  BY Here DEF RenameLockFirst, LockDir
<1>2. /\ b.op # "none"
      /\ b.op = "rename" /\ b.fromdir \in Dentries /\ b.todir \in Dentries
      /\ FirstDir(t) = First(b) /\ SecondDir(t) = Second(b)
      /\ First(b) \in Dentries /\ Second(b) \in Dentries
  <2>1. b.fromdir # Null /\ b.todir # Null /\ b.op # "none"
    BY <1>1 DEF OpsMatch, Pointers, LookPcs, CreatePcs, UnlinkPcs, LockedPcs, RenamePcs
  <2> QED BY <2>1, RenameDirs DEF First, Second
<1>3. /\ c.op = b.op /\ c.path = b.path /\ c.to = b.to
      /\ c.want = b.want /\ c.cur = b.cur /\ c.par = b.par
      /\ c.fromdir = b.fromdir /\ c.todir = b.todir /\ c.fromdent = b.fromdent
      /\ c.todent = b.todent /\ c.val = b.val /\ c.ok = b.ok
      /\ c.fh = b.fh /\ c.pc = "rn1m"
  BY <1>1 DEF Call
<1>4. c \in Call
  <2>1. /\ "rn1m" \in Pcs
    BY <1>1, <1>2 DEF Call, NulOr, Pcs, LookPcs, CreatePcs, UnlinkPcs, LockedPcs, RenamePcs
  <2> QED BY <1>1, <2>1 DEF Call
<1>5. thr' = [thr EXCEPT ![t] = c] /\ Steps(thr, thr', t, c)
  BY <1>1 DEF RenameLockFirst, LockDir, Goto, Steps
<1> HIDE DEF b, c
<1>6. CallOK(c)
  <2>1. Target(c) = Target(b)
    BY <1>3 DEF Target
  <2>2. OpsMatch(c)
    BY <1>1, <1>2, <1>3, <2>1 DEF OpsMatch, Changing, LookPcs, CreatePcs, UnlinkPcs, LockedPcs, RenamePcs
  <2>3. Pointers(c)
    BY <1>1, <1>2, <1>3, <2>1 DEF OpsMatch, Pointers, First, FirstName, LookPcs, CreatePcs, UnlinkPcs, LockedPcs, RenamePcs
  <2>4. Walk(c)
    BY <1>1, <1>2, <1>3, <2>1 DEF Walk, FirstName, LookPcs, CreatePcs, UnlinkPcs, LockedPcs, RenamePcs
  <2> QED BY <2>2, <2>3, <2>4 DEF CallOK
<1>7. dent' \in [Dentries -> Entry] /\ Lean(dent, dent') /\ Counts(dent', thr')
  <2>1. SameSlots(b, c)
    BY <1>1, <1>2, <1>3, PtrIs DEF SameSlots, Slots, Pointers, LookPcs, CreatePcs, UnlinkPcs, LockedPcs, RenamePcs
  <2> QED BY <1>2, <1>5, <2>1, KeepHandles DEF b, RenameLockFirst, LockDir, SameTree
<1>8. LockChange(t, c) /\ LockTypes'
  <2>1. ContentsChange(t, c)
    <3>1. \A d \in Dentries : /\ ~Reads(b, d) /\ ~Reads(c, d)
                              /\ Writes(c, d) <=> (d = First(b) \/ Writes(b, d))
      BY <1>1, <1>2, <1>3 DEF Reads, Writes, First, Second, LookPcs, CreatePcs, UnlinkPcs, LockedPcs, RenamePcs
    <3>2. contents' = LockW(contents, First(b), t) /\ CanWrite(First(b))
      BY <1>1, <1>2 DEF RenameLockFirst, LockDir, b
    <3> QED BY <1>2, <3>1, <3>2, TakesW DEF b
  <2>2. MetaChange(t, c)
    <3>1. \A d \in Dentries : HasMeta(c, d) <=> HasMeta(b, d)
      BY <1>1, <1>2, <1>3 DEF HasMeta, First, Pointers, LookPcs, CreatePcs, UnlinkPcs, LockedPcs, RenamePcs
    <3> QED BY <3>1, MetaKept DEF b, RenameLockFirst, LockDir, SameLocks
  <2>3. RenameChange(t, c)
    <3>1. Renames(c) <=> Renames(b)
      BY <1>1, <1>2, <1>3 DEF OpsMatch, Renames, LookPcs, CreatePcs, UnlinkPcs, LockedPcs, RenamePcs
    <3> QED BY <3>1, RenameKept DEF b, RenameLockFirst, LockDir, SameLocks
  <2>4. LockTypes'
    <3>1. contents' \in ContentsType
      <4>1. contents \in ContentsType /\ contents' = LockW(contents, First(b), t)
        BY <1>1, <1>2 DEF RenameLockFirst, LockDir, b, LockTypes, ContentsType
      <4> QED BY <1>2, <4>1, LockOps
    <3> QED BY <1>1, <3>1 DEF RenameLockFirst, LockDir, LockTypes, ContentsType
  <2> QED BY <2>1, <2>2, <2>3, <2>4 DEF LockChange
<1>9. PlaceOK(c, dent)
  <2>1. c.op \in Changing => DirsOnPath(c, dent)
    BY <1>1, <1>2, <1>3 DEF PlaceOK, DirsOnPath
  <2>2. c.op \in Changing => LookupAt(c, dent)
    BY <1>1, <1>2, <1>3 DEF PlaceOK, LookupAt, Target, FirstName, LookPcs, CreatePcs, UnlinkPcs, LockedPcs, RenamePcs
  <2>3. c.op \in Changing => UnlinkAt(c, dent)
    BY <1>1, <1>2, <1>3 DEF PlaceOK, UnlinkAt, LookPcs, CreatePcs, UnlinkPcs, LockedPcs, RenamePcs
  <2>4. c.op \in Changing => RenameAt(c, dent)
    BY <1>1, <1>2, <1>3 DEF PlaceOK, RenameAt, First, Pointers, LookPcs, CreatePcs, UnlinkPcs, LockedPcs, RenamePcs
  <2>5. c.pc = "lk3" => dent[c.par].kids[Head(c.want)] = c.cur
    BY <1>1, <1>3
  <2> QED BY <2>1, <2>2, <2>3, <2>4, <2>5 DEF PlaceOK
<1>11. SameCall(b, c) /\ uidNumber' \in Nat
  BY <1>1, <1>3 DEF SameCall, RenameLockFirst, LockDir, SameTree
<1> QED BY <1>2, <1>4, <1>5, <1>6, <1>7, <1>8, <1>9, <1>11, LeanStep DEF b

\* rename takes the meta_lock of the first directory.
LEMMA RenameLockFirstMeta ==
    ASSUME TreeInv, NEW t \in TreeThreads, RenameLockFirst(t), thr[t].pc = "rn1m"
    PROVE  TreeInv'
<1> DEFINE b == thr[t]
           c == [b EXCEPT !.pc = "rn2"]
<1>1. /\ b \in Call /\ OpsMatch(b) /\ Pointers(b) /\ Walk(b) /\ PlaceOK(b, dent)
      /\ thr \in [TreeThreads -> Call] /\ dent \in [Dentries -> Entry] /\ GoodTree(dent)
      /\ LockTypes /\ uidNumber \in Nat /\ Root \in Dentries /\ Null \notin Dentries
      /\ b.pc = "rn1m"
  BY Here DEF RenameLockFirst, LockDir
<1>2. /\ b.op # "none"
      /\ b.op = "rename" /\ b.fromdir \in Dentries /\ b.todir \in Dentries
      /\ FirstDir(t) = First(b) /\ SecondDir(t) = Second(b)
      /\ First(b) \in Dentries /\ Second(b) \in Dentries
  <2>1. b.fromdir # Null /\ b.todir # Null /\ b.op # "none"
    BY <1>1 DEF OpsMatch, Pointers, LookPcs, CreatePcs, UnlinkPcs, LockedPcs, RenamePcs
  <2> QED BY <2>1, RenameDirs DEF First, Second
<1>3. /\ c.op = b.op /\ c.path = b.path /\ c.to = b.to
      /\ c.want = b.want /\ c.cur = b.cur /\ c.par = b.par
      /\ c.fromdir = b.fromdir /\ c.todir = b.todir /\ c.fromdent = b.fromdent
      /\ c.todent = b.todent /\ c.val = b.val /\ c.ok = b.ok
      /\ c.fh = b.fh /\ c.pc = "rn2"
  BY <1>1 DEF Call
<1>4. c \in Call
  <2>1. /\ "rn2" \in Pcs
    BY <1>1, <1>2 DEF Call, NulOr, Pcs, LookPcs, CreatePcs, UnlinkPcs, LockedPcs, RenamePcs
  <2> QED BY <1>1, <2>1 DEF Call
<1>5. thr' = [thr EXCEPT ![t] = c] /\ Steps(thr, thr', t, c)
  BY <1>1 DEF RenameLockFirst, LockDir, Goto, Steps
<1> HIDE DEF b, c
<1>6. CallOK(c)
  <2>1. Target(c) = Target(b)
    BY <1>3 DEF Target
  <2>2. OpsMatch(c)
    BY <1>1, <1>2, <1>3, <2>1 DEF OpsMatch, Changing, LookPcs, CreatePcs, UnlinkPcs, LockedPcs, RenamePcs
  <2>3. Pointers(c)
    BY <1>1, <1>2, <1>3, <2>1 DEF OpsMatch, Pointers, First, FirstName, LookPcs, CreatePcs, UnlinkPcs, LockedPcs, RenamePcs
  <2>4. Walk(c)
    BY <1>1, <1>2, <1>3, <2>1 DEF Walk, FirstName, LookPcs, CreatePcs, UnlinkPcs, LockedPcs, RenamePcs
  <2> QED BY <2>2, <2>3, <2>4 DEF CallOK
<1>7. dent' \in [Dentries -> Entry] /\ Lean(dent, dent') /\ Counts(dent', thr')
  <2>1. SameSlots(b, c)
    BY <1>1, <1>2, <1>3, PtrIs DEF SameSlots, Slots, Pointers, LookPcs, CreatePcs, UnlinkPcs, LockedPcs, RenamePcs
  <2> QED BY <1>2, <1>5, <2>1, KeepHandles DEF b, RenameLockFirst, LockDir, SameTree
<1>8. LockChange(t, c) /\ LockTypes'
  <2>1. ContentsChange(t, c)
    <3>1. \A d \in Dentries : (Reads(c, d) <=> Reads(b, d)) /\ (Writes(c, d) <=> Writes(b, d))
      BY <1>1, <1>2, <1>3 DEF Reads, Writes, WantsW, First, Second, Pointers, LookPcs, CreatePcs, UnlinkPcs, LockedPcs, RenamePcs
    <3> QED BY <3>1, <1>2, ContentsKept DEF b, RenameLockFirst, LockDir, SameLocks
  <2>2. MetaChange(t, c)
    <3>1. \A x \in Dentries : HasMeta(c, x) <=> (x = First(b) \/ HasMeta(b, x))
      BY <1>1, <1>2, <1>3 DEF HasMeta, First, Second, LookPcs, CreatePcs, UnlinkPcs, LockedPcs, RenamePcs
    <3>2. meta' = [meta EXCEPT ![First(b)] = t] /\ MetaFree(First(b))
      BY <1>1, <1>2 DEF RenameLockFirst, LockDir, b
    <3> QED BY <1>2, <3>1, <3>2, TakesMeta DEF b
  <2>3. RenameChange(t, c)
    <3>1. Renames(c) <=> Renames(b)
      BY <1>1, <1>2, <1>3 DEF OpsMatch, Renames, LookPcs, CreatePcs, UnlinkPcs, LockedPcs, RenamePcs
    <3> QED BY <3>1, RenameKept DEF b, RenameLockFirst, LockDir, SameLocks
  <2>4. LockTypes'
    <3>1. meta' \in [Dentries -> Owner]
      <4>1. meta' = [meta EXCEPT ![First(b)] = t]
        BY <1>1, <1>2 DEF RenameLockFirst, LockDir, b
      <4> QED BY <1>1, <1>2, <4>1 DEF LockTypes, Owner
    <3> QED BY <1>1, <3>1 DEF RenameLockFirst, LockDir, LockTypes
  <2> QED BY <2>1, <2>2, <2>3, <2>4 DEF LockChange
<1>9. PlaceOK(c, dent)
  <2>1. c.op \in Changing => DirsOnPath(c, dent)
    BY <1>1, <1>2, <1>3 DEF PlaceOK, DirsOnPath
  <2>2. c.op \in Changing => LookupAt(c, dent)
    BY <1>1, <1>2, <1>3 DEF PlaceOK, LookupAt, Target, FirstName, LookPcs, CreatePcs, UnlinkPcs, LockedPcs, RenamePcs
  <2>3. c.op \in Changing => UnlinkAt(c, dent)
    BY <1>1, <1>2, <1>3 DEF PlaceOK, UnlinkAt, LookPcs, CreatePcs, UnlinkPcs, LockedPcs, RenamePcs
  <2>4. c.op \in Changing => RenameAt(c, dent)
    BY <1>1, <1>2, <1>3 DEF PlaceOK, RenameAt, First, Pointers, LookPcs, CreatePcs, UnlinkPcs, LockedPcs, RenamePcs
  <2>5. c.pc = "lk3" => dent[c.par].kids[Head(c.want)] = c.cur
    BY <1>1, <1>3
  <2> QED BY <2>1, <2>2, <2>3, <2>4, <2>5 DEF PlaceOK
<1>11. SameCall(b, c) /\ uidNumber' \in Nat
  BY <1>1, <1>3 DEF SameCall, RenameLockFirst, LockDir, SameTree
<1> QED BY <1>2, <1>4, <1>5, <1>6, <1>7, <1>8, <1>9, <1>11, LeanStep DEF b

\* rename locks the contents of the second directory.
LEMMA RenameLockSecondContents ==
    ASSUME TreeInv, NEW t \in TreeThreads, RenameLockSecond(t), thr[t].pc = "rn3"
    PROVE  TreeInv'
<1> DEFINE b == thr[t]
           c == [b EXCEPT !.pc = "rn3m"]
<1>1. /\ b \in Call /\ OpsMatch(b) /\ Pointers(b) /\ Walk(b) /\ PlaceOK(b, dent)
      /\ thr \in [TreeThreads -> Call] /\ dent \in [Dentries -> Entry] /\ GoodTree(dent)
      /\ LockTypes /\ uidNumber \in Nat /\ Root \in Dentries /\ Null \notin Dentries
      /\ b.pc = "rn3"
  BY Here DEF RenameLockSecond, LockDir
<1>2. /\ b.op # "none"
      /\ b.op = "rename" /\ b.fromdir \in Dentries /\ b.todir \in Dentries
      /\ FirstDir(t) = First(b) /\ SecondDir(t) = Second(b)
      /\ First(b) \in Dentries /\ Second(b) \in Dentries
  <2>1. b.fromdir # Null /\ b.todir # Null /\ b.op # "none"
    BY <1>1 DEF OpsMatch, Pointers, LookPcs, CreatePcs, UnlinkPcs, LockedPcs, RenamePcs
  <2> QED BY <2>1, RenameDirs DEF First, Second
<1>3. /\ c.op = b.op /\ c.path = b.path /\ c.to = b.to
      /\ c.want = b.want /\ c.cur = b.cur /\ c.par = b.par
      /\ c.fromdir = b.fromdir /\ c.todir = b.todir /\ c.fromdent = b.fromdent
      /\ c.todent = b.todent /\ c.val = b.val /\ c.ok = b.ok
      /\ c.fh = b.fh /\ c.pc = "rn3m"
  BY <1>1 DEF Call
<1>4. c \in Call
  <2>1. /\ "rn3m" \in Pcs
    BY <1>1, <1>2 DEF Call, NulOr, Pcs, LookPcs, CreatePcs, UnlinkPcs, LockedPcs, RenamePcs
  <2> QED BY <1>1, <2>1 DEF Call
<1>5. thr' = [thr EXCEPT ![t] = c] /\ Steps(thr, thr', t, c)
  BY <1>1 DEF RenameLockSecond, LockDir, Goto, Steps
<1> HIDE DEF b, c
<1>6. CallOK(c)
  <2>1. Target(c) = Target(b)
    BY <1>3 DEF Target
  <2>2. OpsMatch(c)
    BY <1>1, <1>2, <1>3, <2>1 DEF OpsMatch, Changing, LookPcs, CreatePcs, UnlinkPcs, LockedPcs, RenamePcs
  <2>3. Pointers(c)
    BY <1>1, <1>2, <1>3, <2>1 DEF OpsMatch, Pointers, First, FirstName, LookPcs, CreatePcs, UnlinkPcs, LockedPcs, RenamePcs
  <2>4. Walk(c)
    BY <1>1, <1>2, <1>3, <2>1 DEF Walk, FirstName, LookPcs, CreatePcs, UnlinkPcs, LockedPcs, RenamePcs
  <2> QED BY <2>2, <2>3, <2>4 DEF CallOK
<1>7. dent' \in [Dentries -> Entry] /\ Lean(dent, dent') /\ Counts(dent', thr')
  <2>1. SameSlots(b, c)
    BY <1>1, <1>2, <1>3, PtrIs DEF SameSlots, Slots, Pointers, LookPcs, CreatePcs, UnlinkPcs, LockedPcs, RenamePcs
  <2> QED BY <1>2, <1>5, <2>1, KeepHandles DEF b, RenameLockSecond, LockDir, SameTree
<1>8. LockChange(t, c) /\ LockTypes'
  <2>1. ContentsChange(t, c)
    <3>1. \A d \in Dentries : /\ ~Reads(b, d) /\ ~Reads(c, d)
                              /\ Writes(c, d) <=> (d = Second(b) \/ Writes(b, d))
      BY <1>1, <1>2, <1>3 DEF Reads, Writes, First, Second, LookPcs, CreatePcs, UnlinkPcs, LockedPcs, RenamePcs
    <3>2. contents' = LockW(contents, Second(b), t) /\ CanWrite(Second(b))
      BY <1>1, <1>2 DEF RenameLockSecond, LockDir, b
    <3> QED BY <1>2, <3>1, <3>2, TakesW DEF b
  <2>2. MetaChange(t, c)
    <3>1. \A d \in Dentries : HasMeta(c, d) <=> HasMeta(b, d)
      BY <1>1, <1>2, <1>3 DEF HasMeta, First, Pointers, LookPcs, CreatePcs, UnlinkPcs, LockedPcs, RenamePcs
    <3> QED BY <3>1, MetaKept DEF b, RenameLockSecond, LockDir, SameLocks
  <2>3. RenameChange(t, c)
    <3>1. Renames(c) <=> Renames(b)
      BY <1>1, <1>2, <1>3 DEF OpsMatch, Renames, LookPcs, CreatePcs, UnlinkPcs, LockedPcs, RenamePcs
    <3> QED BY <3>1, RenameKept DEF b, RenameLockSecond, LockDir, SameLocks
  <2>4. LockTypes'
    <3>1. contents' \in ContentsType
      <4>1. contents \in ContentsType /\ contents' = LockW(contents, Second(b), t)
        BY <1>1, <1>2 DEF RenameLockSecond, LockDir, b, LockTypes, ContentsType
      <4> QED BY <1>2, <4>1, LockOps
    <3> QED BY <1>1, <3>1 DEF RenameLockSecond, LockDir, LockTypes, ContentsType
  <2> QED BY <2>1, <2>2, <2>3, <2>4 DEF LockChange
<1>9. PlaceOK(c, dent)
  <2>1. c.op \in Changing => DirsOnPath(c, dent)
    BY <1>1, <1>2, <1>3 DEF PlaceOK, DirsOnPath
  <2>2. c.op \in Changing => LookupAt(c, dent)
    BY <1>1, <1>2, <1>3 DEF PlaceOK, LookupAt, Target, FirstName, LookPcs, CreatePcs, UnlinkPcs, LockedPcs, RenamePcs
  <2>3. c.op \in Changing => UnlinkAt(c, dent)
    BY <1>1, <1>2, <1>3 DEF PlaceOK, UnlinkAt, LookPcs, CreatePcs, UnlinkPcs, LockedPcs, RenamePcs
  <2>4. c.op \in Changing => RenameAt(c, dent)
    BY <1>1, <1>2, <1>3 DEF PlaceOK, RenameAt, First, Pointers, LookPcs, CreatePcs, UnlinkPcs, LockedPcs, RenamePcs
  <2>5. c.pc = "lk3" => dent[c.par].kids[Head(c.want)] = c.cur
    BY <1>1, <1>3
  <2> QED BY <2>1, <2>2, <2>3, <2>4, <2>5 DEF PlaceOK
<1>11. SameCall(b, c) /\ uidNumber' \in Nat
  BY <1>1, <1>3 DEF SameCall, RenameLockSecond, LockDir, SameTree
<1> QED BY <1>2, <1>4, <1>5, <1>6, <1>7, <1>8, <1>9, <1>11, LeanStep DEF b

\* rename takes the meta_lock of the second directory.
LEMMA RenameLockSecondMeta ==
    ASSUME TreeInv, NEW t \in TreeThreads, RenameLockSecond(t), thr[t].pc = "rn3m"
    PROVE  TreeInv'
<1> DEFINE b == thr[t]
           c == [b EXCEPT !.pc = "rn4"]
<1>1. /\ b \in Call /\ OpsMatch(b) /\ Pointers(b) /\ Walk(b) /\ PlaceOK(b, dent)
      /\ thr \in [TreeThreads -> Call] /\ dent \in [Dentries -> Entry] /\ GoodTree(dent)
      /\ LockTypes /\ uidNumber \in Nat /\ Root \in Dentries /\ Null \notin Dentries
      /\ b.pc = "rn3m"
  BY Here DEF RenameLockSecond, LockDir
<1>2. /\ b.op # "none"
      /\ b.op = "rename" /\ b.fromdir \in Dentries /\ b.todir \in Dentries
      /\ FirstDir(t) = First(b) /\ SecondDir(t) = Second(b)
      /\ First(b) \in Dentries /\ Second(b) \in Dentries
  <2>1. b.fromdir # Null /\ b.todir # Null /\ b.op # "none"
    BY <1>1 DEF OpsMatch, Pointers, LookPcs, CreatePcs, UnlinkPcs, LockedPcs, RenamePcs
  <2> QED BY <2>1, RenameDirs DEF First, Second
<1>3. /\ c.op = b.op /\ c.path = b.path /\ c.to = b.to
      /\ c.want = b.want /\ c.cur = b.cur /\ c.par = b.par
      /\ c.fromdir = b.fromdir /\ c.todir = b.todir /\ c.fromdent = b.fromdent
      /\ c.todent = b.todent /\ c.val = b.val /\ c.ok = b.ok
      /\ c.fh = b.fh /\ c.pc = "rn4"
  BY <1>1 DEF Call
<1>4. c \in Call
  <2>1. /\ "rn4" \in Pcs
    BY <1>1, <1>2 DEF Call, NulOr, Pcs, LookPcs, CreatePcs, UnlinkPcs, LockedPcs, RenamePcs
  <2> QED BY <1>1, <2>1 DEF Call
<1>5. thr' = [thr EXCEPT ![t] = c] /\ Steps(thr, thr', t, c)
  BY <1>1 DEF RenameLockSecond, LockDir, Goto, Steps
<1> HIDE DEF b, c
<1>6. CallOK(c)
  <2>1. Target(c) = Target(b)
    BY <1>3 DEF Target
  <2>2. OpsMatch(c)
    BY <1>1, <1>2, <1>3, <2>1 DEF OpsMatch, Changing, LookPcs, CreatePcs, UnlinkPcs, LockedPcs, RenamePcs
  <2>3. Pointers(c)
    BY <1>1, <1>2, <1>3, <2>1 DEF OpsMatch, Pointers, First, FirstName, LookPcs, CreatePcs, UnlinkPcs, LockedPcs, RenamePcs
  <2>4. Walk(c)
    BY <1>1, <1>2, <1>3, <2>1 DEF Walk, FirstName, LookPcs, CreatePcs, UnlinkPcs, LockedPcs, RenamePcs
  <2> QED BY <2>2, <2>3, <2>4 DEF CallOK
<1>7. dent' \in [Dentries -> Entry] /\ Lean(dent, dent') /\ Counts(dent', thr')
  <2>1. SameSlots(b, c)
    BY <1>1, <1>2, <1>3, PtrIs DEF SameSlots, Slots, Pointers, LookPcs, CreatePcs, UnlinkPcs, LockedPcs, RenamePcs
  <2> QED BY <1>2, <1>5, <2>1, KeepHandles DEF b, RenameLockSecond, LockDir, SameTree
<1>8. LockChange(t, c) /\ LockTypes'
  <2>1. ContentsChange(t, c)
    <3>1. \A d \in Dentries : (Reads(c, d) <=> Reads(b, d)) /\ (Writes(c, d) <=> Writes(b, d))
      BY <1>1, <1>2, <1>3 DEF Reads, Writes, WantsW, First, Second, Pointers, LookPcs, CreatePcs, UnlinkPcs, LockedPcs, RenamePcs
    <3> QED BY <3>1, <1>2, ContentsKept DEF b, RenameLockSecond, LockDir, SameLocks
  <2>2. MetaChange(t, c)
    <3>1. \A x \in Dentries : HasMeta(c, x) <=> (x = Second(b) \/ HasMeta(b, x))
      BY <1>1, <1>2, <1>3 DEF HasMeta, First, Second, LookPcs, CreatePcs, UnlinkPcs, LockedPcs, RenamePcs
    <3>2. meta' = [meta EXCEPT ![Second(b)] = t] /\ MetaFree(Second(b))
      BY <1>1, <1>2 DEF RenameLockSecond, LockDir, b
    <3> QED BY <1>2, <3>1, <3>2, TakesMeta DEF b
  <2>3. RenameChange(t, c)
    <3>1. Renames(c) <=> Renames(b)
      BY <1>1, <1>2, <1>3 DEF OpsMatch, Renames, LookPcs, CreatePcs, UnlinkPcs, LockedPcs, RenamePcs
    <3> QED BY <3>1, RenameKept DEF b, RenameLockSecond, LockDir, SameLocks
  <2>4. LockTypes'
    <3>1. meta' \in [Dentries -> Owner]
      <4>1. meta' = [meta EXCEPT ![Second(b)] = t]
        BY <1>1, <1>2 DEF RenameLockSecond, LockDir, b
      <4> QED BY <1>1, <1>2, <4>1 DEF LockTypes, Owner
    <3> QED BY <1>1, <3>1 DEF RenameLockSecond, LockDir, LockTypes
  <2> QED BY <2>1, <2>2, <2>3, <2>4 DEF LockChange
<1>9. PlaceOK(c, dent)
  <2>1. c.op \in Changing => DirsOnPath(c, dent)
    BY <1>1, <1>2, <1>3 DEF PlaceOK, DirsOnPath
  <2>2. c.op \in Changing => LookupAt(c, dent)
    BY <1>1, <1>2, <1>3 DEF PlaceOK, LookupAt, Target, FirstName, LookPcs, CreatePcs, UnlinkPcs, LockedPcs, RenamePcs
  <2>3. c.op \in Changing => UnlinkAt(c, dent)
    BY <1>1, <1>2, <1>3 DEF PlaceOK, UnlinkAt, LookPcs, CreatePcs, UnlinkPcs, LockedPcs, RenamePcs
  <2>4. c.op \in Changing => RenameAt(c, dent)
    BY <1>1, <1>2, <1>3 DEF PlaceOK, RenameAt, First, Pointers, LookPcs, CreatePcs, UnlinkPcs, LockedPcs, RenamePcs
  <2>5. c.pc = "lk3" => dent[c.par].kids[Head(c.want)] = c.cur
    BY <1>1, <1>3
  <2> QED BY <2>1, <2>2, <2>3, <2>4, <2>5 DEF PlaceOK
<1>11. SameCall(b, c) /\ uidNumber' \in Nat
  BY <1>1, <1>3 DEF SameCall, RenameLockSecond, LockDir, SameTree
<1> QED BY <1>2, <1>4, <1>5, <1>6, <1>7, <1>8, <1>9, <1>11, LeanStep DEF b

\* The target is looked up first, in the directory locked first.
LEMMA RenameLookFirstTo ==
    ASSUME TreeInv, NEW t \in TreeThreads, RenameLookFirst(t), ToFirst(t)
    PROVE  TreeInv'
<1> DEFINE b == thr[t]
           c == [b EXCEPT !.todent = ResolveIn(dent, b.to), !.pc = IF Second(b) = First(b) THEN "rn4" ELSE "rn3"]
<1>1. /\ b \in Call /\ OpsMatch(b) /\ Pointers(b) /\ Walk(b) /\ PlaceOK(b, dent)
      /\ thr \in [TreeThreads -> Call] /\ dent \in [Dentries -> Entry] /\ GoodTree(dent)
      /\ LockTypes /\ uidNumber \in Nat /\ Root \in Dentries /\ Null \notin Dentries
      /\ b.pc = "rn2"
  BY Here DEF RenameLookFirst
<1>2. /\ b.op # "none"
      /\ b.op = "rename" /\ b.fromdir \in Dentries /\ b.todir \in Dentries
      /\ FirstDir(t) = First(b) /\ SecondDir(t) = Second(b)
      /\ ToFirst(t) /\ First(b) = b.todir /\ Second(b) = b.fromdir
      /\ dent[First(b)].kids[NameIn(t, TRUE)] = ResolveIn(dent, b.to)
      /\ ResolveIn(dent, b.to) \in NulOr
      /\ ResolveIn(dent, b.to) # Null => dent[ResolveIn(dent, b.to)].alive
      /\ b.todent = Null /\ b.fromdent = Null
  <2>1. b.fromdir # Null /\ b.todir # Null /\ b.op # "none"
    BY <1>1 DEF OpsMatch, Pointers, LookPcs, CreatePcs, UnlinkPcs, LockedPcs, RenamePcs
  <2> QED BY <1>1, <2>1, RenameDirs, ZenonT(30) DEF First, Second, Pointers, LookPcs, CreatePcs, UnlinkPcs, LockedPcs, RenamePcs
<1>3. /\ c.op = b.op /\ c.path = b.path /\ c.to = b.to
      /\ c.want = b.want /\ c.cur = b.cur /\ c.par = b.par
      /\ c.fromdir = b.fromdir /\ c.todir = b.todir /\ c.fromdent = b.fromdent
      /\ c.todent = ResolveIn(dent, b.to) /\ c.val = b.val /\ c.ok = b.ok
      /\ c.fh = b.fh /\ c.pc = IF Second(b) = First(b) THEN "rn4" ELSE "rn3"
  BY <1>1 DEF Call
<1>4. c \in Call
  <2>1. /\ ResolveIn(dent, b.to) \in NulOr
        /\ (IF Second(b) = First(b) THEN "rn4" ELSE "rn3") \in Pcs
    BY <1>1, <1>2 DEF Call, NulOr, Pcs, LookPcs, CreatePcs, UnlinkPcs, LockedPcs, RenamePcs
  <2> QED BY <1>1, <2>1 DEF Call
<1>5. thr' = [thr EXCEPT ![t] = c] /\ Steps(thr, thr', t, c)
  BY <1>1, <1>2, ZenonT(30) DEF RenameLookFirst, Goto, Steps
<1> HIDE DEF b, c
<1>6. CallOK(c)
  <2>1. Target(c) = Target(b)
    BY <1>3 DEF Target
  <2>2. OpsMatch(c)
    BY <1>1, <1>2, <1>3, <2>1 DEF OpsMatch, Changing, LookPcs, CreatePcs, UnlinkPcs, LockedPcs, RenamePcs
  <2>3. Pointers(c)
    BY <1>1, <1>2, <1>3, <2>1 DEF OpsMatch, Pointers, First, FirstName, LookPcs, CreatePcs, UnlinkPcs, LockedPcs, RenamePcs
  <2>4. Walk(c)
    BY <1>1, <1>2, <1>3, <2>1 DEF Walk, FirstName, LookPcs, CreatePcs, UnlinkPcs, LockedPcs, RenamePcs
  <2> QED BY <2>2, <2>3, <2>4 DEF CallOK
<1>7. dent' \in [Dentries -> Entry] /\ Lean(dent, dent') /\ Counts(dent', thr')
  <2>1. CASE ResolveIn(dent, b.to) # Null
    <3>1. TakeSlot(b, c, "todent", ResolveIn(dent, b.to))
      BY <1>1, <1>2, <1>3, PtrIs DEF TakeSlot, Slots, Pointers, LookPcs, CreatePcs, UnlinkPcs, LockedPcs, RenamePcs
    <3>2. ResolveIn(dent, b.to) \in Dentries /\ dent[ResolveIn(dent, b.to)].alive
      BY <1>2, <2>1 DEF NulOr
    <3>3. dent' = [dent EXCEPT ![ResolveIn(dent, b.to)].nh = @ + 1]
      BY <1>1, <1>2, <2>1 DEF b, RenameLookFirst
    <3> QED BY <1>5, <3>1, <3>2, <3>3, TakeHandle DEF b
  <2>2. CASE ResolveIn(dent, b.to) = Null
    <3>1. SameSlots(b, c)
      BY <1>1, <1>2, <1>3, <2>2, PtrIs DEF SameSlots, Slots, Pointers, LookPcs, CreatePcs, UnlinkPcs, LockedPcs, RenamePcs
    <3>2. UNCHANGED dent
      BY <1>1, <1>2, <2>2 DEF b, RenameLookFirst
    <3> QED BY <1>5, <3>1, <3>2, KeepHandles DEF b
  <2> QED BY <2>1, <2>2
<1>8. LockChange(t, c) /\ LockTypes'
  <2>1. ContentsChange(t, c)
    <3>1. \A d \in Dentries : (Reads(c, d) <=> Reads(b, d)) /\ (Writes(c, d) <=> Writes(b, d))
      BY <1>1, <1>2, <1>3 DEF Reads, Writes, WantsW, First, Second, Pointers, LookPcs, CreatePcs, UnlinkPcs, LockedPcs, RenamePcs
    <3> QED BY <3>1, <1>2, ContentsKept DEF b, RenameLookFirst, SameLocks
  <2>2. MetaChange(t, c)
    <3>1. \A d \in Dentries : HasMeta(c, d) <=> HasMeta(b, d)
      BY <1>1, <1>2, <1>3 DEF HasMeta, First, Pointers, LookPcs, CreatePcs, UnlinkPcs, LockedPcs, RenamePcs
    <3> QED BY <3>1, MetaKept DEF b, RenameLookFirst, SameLocks
  <2>3. RenameChange(t, c)
    <3>1. Renames(c) <=> Renames(b)
      BY <1>1, <1>2, <1>3 DEF OpsMatch, Renames, LookPcs, CreatePcs, UnlinkPcs, LockedPcs, RenamePcs
    <3> QED BY <3>1, RenameKept DEF b, RenameLookFirst, SameLocks
  <2>4. LockTypes'
    BY <1>1, <1>2 DEF RenameLookFirst, SameLocks, LockTypes
  <2> QED BY <2>1, <2>2, <2>3, <2>4 DEF LockChange
<1>9. PlaceOK(c, dent)
  <2>1. c.op \in Changing => DirsOnPath(c, dent)
    BY <1>1, <1>2, <1>3 DEF PlaceOK, DirsOnPath
  <2>2. c.op \in Changing => LookupAt(c, dent)
    BY <1>1, <1>2, <1>3 DEF PlaceOK, LookupAt, Target, FirstName, LookPcs, CreatePcs, UnlinkPcs, LockedPcs, RenamePcs
  <2>3. c.op \in Changing => UnlinkAt(c, dent)
    BY <1>1, <1>2, <1>3 DEF PlaceOK, UnlinkAt, LookPcs, CreatePcs, UnlinkPcs, LockedPcs, RenamePcs
  <2>4. c.op \in Changing => RenameAt(c, dent)
    BY <1>1, <1>2, <1>3 DEF PlaceOK, RenameAt, First, Pointers, LookPcs, CreatePcs, UnlinkPcs, LockedPcs, RenamePcs
  <2>5. c.pc = "lk3" => dent[c.par].kids[Head(c.want)] = c.cur
    BY <1>1, <1>3
  <2> QED BY <2>1, <2>2, <2>3, <2>4, <2>5 DEF PlaceOK
<1>11. SameCall(b, c) /\ uidNumber' \in Nat
  BY <1>1, <1>3 DEF SameCall, RenameLookFirst, SameTree
<1> QED BY <1>2, <1>4, <1>5, <1>6, <1>7, <1>8, <1>9, <1>11, LeanStep DEF b

\* The source is looked up first, in the directory locked first.
LEMMA RenameLookFirstFrom ==
    ASSUME TreeInv, NEW t \in TreeThreads, RenameLookFirst(t), ~ToFirst(t)
    PROVE  TreeInv'
<1> DEFINE b == thr[t]
           c == [b EXCEPT !.todent = b.todent, !.fromdent = ResolveIn(dent, b.path), !.pc = "rn3"]
<1>1. /\ b \in Call /\ OpsMatch(b) /\ Pointers(b) /\ Walk(b) /\ PlaceOK(b, dent)
      /\ thr \in [TreeThreads -> Call] /\ dent \in [Dentries -> Entry] /\ GoodTree(dent)
      /\ LockTypes /\ uidNumber \in Nat /\ Root \in Dentries /\ Null \notin Dentries
      /\ b.pc = "rn2"
  BY Here DEF RenameLookFirst
<1>2. /\ b.op # "none"
      /\ b.op = "rename" /\ b.fromdir \in Dentries /\ b.todir \in Dentries
      /\ FirstDir(t) = First(b) /\ SecondDir(t) = Second(b)
      /\ ~ToFirst(t) /\ First(b) = b.fromdir /\ Second(b) = b.todir /\ b.fromdir # b.todir
      /\ dent[First(b)].kids[NameIn(t, TRUE)] = ResolveIn(dent, b.path)
      /\ ResolveIn(dent, b.path) \in NulOr
      /\ ResolveIn(dent, b.path) # Null => dent[ResolveIn(dent, b.path)].alive
      /\ b.todent = Null /\ b.fromdent = Null
  <2>1. b.fromdir # Null /\ b.todir # Null /\ b.op # "none"
    BY <1>1 DEF OpsMatch, Pointers, LookPcs, CreatePcs, UnlinkPcs, LockedPcs, RenamePcs
  <2> QED BY <1>1, <2>1, RenameDirs DEF First, Second, Pointers, LookPcs, CreatePcs, UnlinkPcs, LockedPcs, RenamePcs
<1>3. /\ c.op = b.op /\ c.path = b.path /\ c.to = b.to
      /\ c.want = b.want /\ c.cur = b.cur /\ c.par = b.par
      /\ c.fromdir = b.fromdir /\ c.todir = b.todir /\ c.fromdent = ResolveIn(dent, b.path)
      /\ c.todent = b.todent /\ c.val = b.val /\ c.ok = b.ok
      /\ c.fh = b.fh /\ c.pc = "rn3"
  BY <1>1 DEF Call
<1>4. c \in Call
  <2>1. /\ b.todent \in NulOr
        /\ ResolveIn(dent, b.path) \in NulOr
        /\ "rn3" \in Pcs
    BY <1>1, <1>2 DEF Call, NulOr, Pcs, LookPcs, CreatePcs, UnlinkPcs, LockedPcs, RenamePcs
  <2> QED BY <1>1, <2>1 DEF Call
<1>5. thr' = [thr EXCEPT ![t] = c] /\ Steps(thr, thr', t, c)
  <2>1. /\ ~ToFirst(t) /\ SecondDir(t) # FirstDir(t)
        /\ dent[FirstDir(t)].kids[NameIn(t, TRUE)] = ResolveIn(dent, b.path)
    BY <1>2
  <2>2. thr' = [thr EXCEPT ![t] = c]
    BY <2>1 DEF RenameLookFirst, Goto
  <2> QED BY <1>1, <2>2 DEF Steps
<1> HIDE DEF b, c
<1>6. CallOK(c)
  <2>1. Target(c) = Target(b)
    BY <1>3 DEF Target
  <2>2. OpsMatch(c)
    BY <1>1, <1>2, <1>3, <2>1 DEF OpsMatch, Changing, LookPcs, CreatePcs, UnlinkPcs, LockedPcs, RenamePcs
  <2>3. Pointers(c)
    BY <1>1, <1>2, <1>3, <2>1 DEF OpsMatch, Pointers, First, FirstName, LookPcs, CreatePcs, UnlinkPcs, LockedPcs, RenamePcs
  <2>4. Walk(c)
    BY <1>1, <1>2, <1>3, <2>1 DEF Walk, FirstName, LookPcs, CreatePcs, UnlinkPcs, LockedPcs, RenamePcs
  <2> QED BY <2>2, <2>3, <2>4 DEF CallOK
<1>7. dent' \in [Dentries -> Entry] /\ Lean(dent, dent') /\ Counts(dent', thr')
  <2>1. CASE ResolveIn(dent, b.path) # Null
    <3>1. TakeSlot(b, c, "fromdent", ResolveIn(dent, b.path))
      BY <1>1, <1>2, <1>3, PtrIs DEF TakeSlot, Slots, Pointers, LookPcs, CreatePcs, UnlinkPcs, LockedPcs, RenamePcs
    <3>2. ResolveIn(dent, b.path) \in Dentries /\ dent[ResolveIn(dent, b.path)].alive
      BY <1>2, <2>1 DEF NulOr
    <3>3. dent' = [dent EXCEPT ![ResolveIn(dent, b.path)].nh = @ + 1]
      BY <1>1, <1>2, <2>1 DEF b, RenameLookFirst
    <3> QED BY <1>5, <3>1, <3>2, <3>3, TakeHandle DEF b
  <2>2. CASE ResolveIn(dent, b.path) = Null
    <3>1. SameSlots(b, c)
      BY <1>1, <1>2, <1>3, <2>2, PtrIs DEF SameSlots, Slots, Pointers, LookPcs, CreatePcs, UnlinkPcs, LockedPcs, RenamePcs
    <3>2. UNCHANGED dent
      BY <1>1, <1>2, <2>2 DEF b, RenameLookFirst
    <3> QED BY <1>5, <3>1, <3>2, KeepHandles DEF b
  <2> QED BY <2>1, <2>2
<1>8. LockChange(t, c) /\ LockTypes'
  <2>1. ContentsChange(t, c)
    <3>1. \A d \in Dentries : (Reads(c, d) <=> Reads(b, d)) /\ (Writes(c, d) <=> Writes(b, d))
      BY <1>1, <1>2, <1>3 DEF Reads, Writes, WantsW, First, Second, Pointers, LookPcs, CreatePcs, UnlinkPcs, LockedPcs, RenamePcs
    <3> QED BY <3>1, <1>2, ContentsKept DEF b, RenameLookFirst, SameLocks
  <2>2. MetaChange(t, c)
    <3>1. \A d \in Dentries : HasMeta(c, d) <=> HasMeta(b, d)
      BY <1>1, <1>2, <1>3 DEF HasMeta, First, Pointers, LookPcs, CreatePcs, UnlinkPcs, LockedPcs, RenamePcs
    <3> QED BY <3>1, MetaKept DEF b, RenameLookFirst, SameLocks
  <2>3. RenameChange(t, c)
    <3>1. Renames(c) <=> Renames(b)
      BY <1>1, <1>2, <1>3 DEF OpsMatch, Renames, LookPcs, CreatePcs, UnlinkPcs, LockedPcs, RenamePcs
    <3> QED BY <3>1, RenameKept DEF b, RenameLookFirst, SameLocks
  <2>4. LockTypes'
    BY <1>1, <1>2 DEF RenameLookFirst, SameLocks, LockTypes
  <2> QED BY <2>1, <2>2, <2>3, <2>4 DEF LockChange
<1>9. PlaceOK(c, dent)
  <2>1. c.op \in Changing => DirsOnPath(c, dent)
    BY <1>1, <1>2, <1>3 DEF PlaceOK, DirsOnPath
  <2>2. c.op \in Changing => LookupAt(c, dent)
    BY <1>1, <1>2, <1>3 DEF PlaceOK, LookupAt, Target, FirstName, LookPcs, CreatePcs, UnlinkPcs, LockedPcs, RenamePcs
  <2>3. c.op \in Changing => UnlinkAt(c, dent)
    BY <1>1, <1>2, <1>3 DEF PlaceOK, UnlinkAt, LookPcs, CreatePcs, UnlinkPcs, LockedPcs, RenamePcs
  <2>4. c.op \in Changing => RenameAt(c, dent)
    BY <1>1, <1>2, <1>3 DEF PlaceOK, RenameAt, First, Pointers, LookPcs, CreatePcs, UnlinkPcs, LockedPcs, RenamePcs
  <2>5. c.pc = "lk3" => dent[c.par].kids[Head(c.want)] = c.cur
    BY <1>1, <1>3
  <2> QED BY <2>1, <2>2, <2>3, <2>4, <2>5 DEF PlaceOK
<1>11. SameCall(b, c) /\ uidNumber' \in Nat
  BY <1>1, <1>3 DEF SameCall, RenameLookFirst, SameTree
<1> QED BY <1>2, <1>4, <1>5, <1>6, <1>7, <1>8, <1>9, <1>11, LeanStep DEF b

\* The source is looked up second.
LEMMA RenameLookSecondFrom ==
    ASSUME TreeInv, NEW t \in TreeThreads, RenameLookSecond(t), ToFirst(t)
    PROVE  TreeInv'
<1> DEFINE b == thr[t]
           c == [b EXCEPT !.fromdent = ResolveIn(dent, b.path), !.todent = b.todent, !.pc = "rn5"]
<1>1. /\ b \in Call /\ OpsMatch(b) /\ Pointers(b) /\ Walk(b) /\ PlaceOK(b, dent)
      /\ thr \in [TreeThreads -> Call] /\ dent \in [Dentries -> Entry] /\ GoodTree(dent)
      /\ LockTypes /\ uidNumber \in Nat /\ Root \in Dentries /\ Null \notin Dentries
      /\ b.pc = "rn4"
  BY Here DEF RenameLookSecond
<1>2. /\ b.op # "none"
      /\ b.op = "rename" /\ b.fromdir \in Dentries /\ b.todir \in Dentries
      /\ FirstDir(t) = First(b) /\ SecondDir(t) = Second(b)
      /\ ToFirst(t) /\ First(b) = b.todir /\ Second(b) = b.fromdir
      /\ dent[Second(b)].kids[NameIn(t, FALSE)] = ResolveIn(dent, b.path)
      /\ ResolveIn(dent, b.path) \in NulOr
      /\ ResolveIn(dent, b.path) # Null => dent[ResolveIn(dent, b.path)].alive
      /\ b.fromdent = Null
  <2>1. b.fromdir # Null /\ b.todir # Null /\ b.op # "none"
    BY <1>1 DEF OpsMatch, Pointers, LookPcs, CreatePcs, UnlinkPcs, LockedPcs, RenamePcs
  <2> QED BY <1>1, <2>1, RenameDirs, ZenonT(30) DEF First, Second, Pointers, LookPcs, CreatePcs, UnlinkPcs, LockedPcs, RenamePcs
<1>3. /\ c.op = b.op /\ c.path = b.path /\ c.to = b.to
      /\ c.want = b.want /\ c.cur = b.cur /\ c.par = b.par
      /\ c.fromdir = b.fromdir /\ c.todir = b.todir /\ c.fromdent = ResolveIn(dent, b.path)
      /\ c.todent = b.todent /\ c.val = b.val /\ c.ok = b.ok
      /\ c.fh = b.fh /\ c.pc = "rn5"
  BY <1>1 DEF Call
<1>4. c \in Call
  <2>1. /\ ResolveIn(dent, b.path) \in NulOr
        /\ b.todent \in NulOr
        /\ "rn5" \in Pcs
    BY <1>1, <1>2 DEF Call, NulOr, Pcs, LookPcs, CreatePcs, UnlinkPcs, LockedPcs, RenamePcs
  <2> QED BY <1>1, <2>1 DEF Call
<1>5. thr' = [thr EXCEPT ![t] = c] /\ Steps(thr, thr', t, c)
  BY <1>1, <1>2 DEF RenameLookSecond, Goto, Steps
<1> HIDE DEF b, c
<1>6. CallOK(c)
  <2>1. Target(c) = Target(b)
    BY <1>3 DEF Target
  <2>2. OpsMatch(c)
    BY <1>1, <1>2, <1>3, <2>1 DEF OpsMatch, Changing, LookPcs, CreatePcs, UnlinkPcs, LockedPcs, RenamePcs
  <2>3. Pointers(c)
    BY <1>1, <1>2, <1>3, <2>1 DEF OpsMatch, Pointers, First, FirstName, LookPcs, CreatePcs, UnlinkPcs, LockedPcs, RenamePcs
  <2>4. Walk(c)
    BY <1>1, <1>2, <1>3, <2>1 DEF Walk, FirstName, LookPcs, CreatePcs, UnlinkPcs, LockedPcs, RenamePcs
  <2> QED BY <2>2, <2>3, <2>4 DEF CallOK
<1>7. dent' \in [Dentries -> Entry] /\ Lean(dent, dent') /\ Counts(dent', thr')
  <2>1. CASE ResolveIn(dent, b.path) # Null
    <3>1. TakeSlot(b, c, "fromdent", ResolveIn(dent, b.path))
      BY <1>1, <1>2, <1>3, PtrIs DEF TakeSlot, Slots, Pointers, LookPcs, CreatePcs, UnlinkPcs, LockedPcs, RenamePcs
    <3>2. ResolveIn(dent, b.path) \in Dentries /\ dent[ResolveIn(dent, b.path)].alive
      BY <1>2, <2>1 DEF NulOr
    <3>3. dent' = [dent EXCEPT ![ResolveIn(dent, b.path)].nh = @ + 1]
      BY <1>1, <1>2, <2>1 DEF b, RenameLookSecond
    <3> QED BY <1>5, <3>1, <3>2, <3>3, TakeHandle DEF b
  <2>2. CASE ResolveIn(dent, b.path) = Null
    <3>1. SameSlots(b, c)
      BY <1>1, <1>2, <1>3, <2>2, PtrIs DEF SameSlots, Slots, Pointers, LookPcs, CreatePcs, UnlinkPcs, LockedPcs, RenamePcs
    <3>2. UNCHANGED dent
      BY <1>1, <1>2, <2>2 DEF b, RenameLookSecond
    <3> QED BY <1>5, <3>1, <3>2, KeepHandles DEF b
  <2> QED BY <2>1, <2>2
<1>8. LockChange(t, c) /\ LockTypes'
  <2>1. ContentsChange(t, c)
    <3>1. \A d \in Dentries : (Reads(c, d) <=> Reads(b, d)) /\ (Writes(c, d) <=> Writes(b, d))
      BY <1>1, <1>2, <1>3 DEF Reads, Writes, WantsW, First, Second, Pointers, LookPcs, CreatePcs, UnlinkPcs, LockedPcs, RenamePcs
    <3> QED BY <3>1, <1>2, ContentsKept DEF b, RenameLookSecond, SameLocks
  <2>2. MetaChange(t, c)
    <3>1. \A d \in Dentries : HasMeta(c, d) <=> HasMeta(b, d)
      BY <1>1, <1>2, <1>3 DEF HasMeta, First, Pointers, LookPcs, CreatePcs, UnlinkPcs, LockedPcs, RenamePcs
    <3> QED BY <3>1, MetaKept DEF b, RenameLookSecond, SameLocks
  <2>3. RenameChange(t, c)
    <3>1. Renames(c) <=> Renames(b)
      BY <1>1, <1>2, <1>3 DEF OpsMatch, Renames, LookPcs, CreatePcs, UnlinkPcs, LockedPcs, RenamePcs
    <3> QED BY <3>1, RenameKept DEF b, RenameLookSecond, SameLocks
  <2>4. LockTypes'
    BY <1>1, <1>2 DEF RenameLookSecond, SameLocks, LockTypes
  <2> QED BY <2>1, <2>2, <2>3, <2>4 DEF LockChange
<1>9. PlaceOK(c, dent)
  <2>1. c.op \in Changing => DirsOnPath(c, dent)
    BY <1>1, <1>2, <1>3 DEF PlaceOK, DirsOnPath
  <2>2. c.op \in Changing => LookupAt(c, dent)
    BY <1>1, <1>2, <1>3 DEF PlaceOK, LookupAt, Target, FirstName, LookPcs, CreatePcs, UnlinkPcs, LockedPcs, RenamePcs
  <2>3. c.op \in Changing => UnlinkAt(c, dent)
    BY <1>1, <1>2, <1>3 DEF PlaceOK, UnlinkAt, LookPcs, CreatePcs, UnlinkPcs, LockedPcs, RenamePcs
  <2>4. c.op \in Changing => RenameAt(c, dent)
    BY <1>1, <1>2, <1>3 DEF PlaceOK, RenameAt, First, Pointers, LookPcs, CreatePcs, UnlinkPcs, LockedPcs, RenamePcs
  <2>5. c.pc = "lk3" => dent[c.par].kids[Head(c.want)] = c.cur
    BY <1>1, <1>3
  <2> QED BY <2>1, <2>2, <2>3, <2>4, <2>5 DEF PlaceOK
<1>11. SameCall(b, c) /\ uidNumber' \in Nat
  BY <1>1, <1>3 DEF SameCall, RenameLookSecond, SameTree
<1> QED BY <1>2, <1>4, <1>5, <1>6, <1>7, <1>8, <1>9, <1>11, LeanStep DEF b

\* The target is looked up second.
LEMMA RenameLookSecondTo ==
    ASSUME TreeInv, NEW t \in TreeThreads, RenameLookSecond(t), ~ToFirst(t), thr[t].fromdent # Null
    PROVE  TreeInv'
<1> DEFINE b == thr[t]
           c == [b EXCEPT !.todent = ResolveIn(dent, b.to), !.pc = "rn5"]
<1>1. /\ b \in Call /\ OpsMatch(b) /\ Pointers(b) /\ Walk(b) /\ PlaceOK(b, dent)
      /\ thr \in [TreeThreads -> Call] /\ dent \in [Dentries -> Entry] /\ GoodTree(dent)
      /\ LockTypes /\ uidNumber \in Nat /\ Root \in Dentries /\ Null \notin Dentries
      /\ b.pc = "rn4"
  BY Here DEF RenameLookSecond
<1>2. /\ b.op # "none"
      /\ b.op = "rename" /\ b.fromdir \in Dentries /\ b.todir \in Dentries
      /\ FirstDir(t) = First(b) /\ SecondDir(t) = Second(b)
      /\ ~ToFirst(t) /\ First(b) = b.fromdir /\ Second(b) = b.todir /\ b.fromdir # b.todir
      /\ dent[Second(b)].kids[NameIn(t, FALSE)] = ResolveIn(dent, b.to)
      /\ ResolveIn(dent, b.to) \in NulOr
      /\ ResolveIn(dent, b.to) # Null => dent[ResolveIn(dent, b.to)].alive
      /\ b.todent = Null /\ b.fromdent # Null
  <2>1. b.fromdir # Null /\ b.todir # Null /\ b.op # "none"
    BY <1>1 DEF OpsMatch, Pointers, LookPcs, CreatePcs, UnlinkPcs, LockedPcs, RenamePcs
  <2> QED BY <1>1, <2>1, RenameDirs DEF First, Second, Pointers, LookPcs, CreatePcs, UnlinkPcs, LockedPcs, RenamePcs
<1>3. /\ c.op = b.op /\ c.path = b.path /\ c.to = b.to
      /\ c.want = b.want /\ c.cur = b.cur /\ c.par = b.par
      /\ c.fromdir = b.fromdir /\ c.todir = b.todir /\ c.fromdent = b.fromdent
      /\ c.todent = ResolveIn(dent, b.to) /\ c.val = b.val /\ c.ok = b.ok
      /\ c.fh = b.fh /\ c.pc = "rn5"
  BY <1>1 DEF Call
<1>4. c \in Call
  <2>1. /\ ResolveIn(dent, b.to) \in NulOr
        /\ "rn5" \in Pcs
    BY <1>1, <1>2 DEF Call, NulOr, Pcs, LookPcs, CreatePcs, UnlinkPcs, LockedPcs, RenamePcs
  <2> QED BY <1>1, <2>1 DEF Call
<1>5. thr' = [thr EXCEPT ![t] = c] /\ Steps(thr, thr', t, c)
  BY <1>1, <1>2 DEF RenameLookSecond, Goto, Steps
<1> HIDE DEF b, c
<1>6. CallOK(c)
  <2>1. Target(c) = Target(b)
    BY <1>3 DEF Target
  <2>2. OpsMatch(c)
    BY <1>1, <1>2, <1>3, <2>1 DEF OpsMatch, Changing, LookPcs, CreatePcs, UnlinkPcs, LockedPcs, RenamePcs
  <2>3. Pointers(c)
    BY <1>1, <1>2, <1>3, <2>1 DEF OpsMatch, Pointers, First, FirstName, LookPcs, CreatePcs, UnlinkPcs, LockedPcs, RenamePcs
  <2>4. Walk(c)
    BY <1>1, <1>2, <1>3, <2>1 DEF Walk, FirstName, LookPcs, CreatePcs, UnlinkPcs, LockedPcs, RenamePcs
  <2> QED BY <2>2, <2>3, <2>4 DEF CallOK
<1>7. dent' \in [Dentries -> Entry] /\ Lean(dent, dent') /\ Counts(dent', thr')
  <2>1. CASE ResolveIn(dent, b.to) # Null
    <3>1. TakeSlot(b, c, "todent", ResolveIn(dent, b.to))
      BY <1>1, <1>2, <1>3, PtrIs DEF TakeSlot, Slots, Pointers, LookPcs, CreatePcs, UnlinkPcs, LockedPcs, RenamePcs
    <3>2. ResolveIn(dent, b.to) \in Dentries /\ dent[ResolveIn(dent, b.to)].alive
      BY <1>2, <2>1 DEF NulOr
    <3>3. dent' = [dent EXCEPT ![ResolveIn(dent, b.to)].nh = @ + 1]
      BY <1>1, <1>2, <2>1 DEF b, RenameLookSecond
    <3> QED BY <1>5, <3>1, <3>2, <3>3, TakeHandle DEF b
  <2>2. CASE ResolveIn(dent, b.to) = Null
    <3>1. SameSlots(b, c)
      BY <1>1, <1>2, <1>3, <2>2, PtrIs DEF SameSlots, Slots, Pointers, LookPcs, CreatePcs, UnlinkPcs, LockedPcs, RenamePcs
    <3>2. UNCHANGED dent
      BY <1>1, <1>2, <2>2 DEF b, RenameLookSecond
    <3> QED BY <1>5, <3>1, <3>2, KeepHandles DEF b
  <2> QED BY <2>1, <2>2
<1>8. LockChange(t, c) /\ LockTypes'
  <2>1. ContentsChange(t, c)
    <3>1. \A d \in Dentries : (Reads(c, d) <=> Reads(b, d)) /\ (Writes(c, d) <=> Writes(b, d))
      BY <1>1, <1>2, <1>3 DEF Reads, Writes, WantsW, First, Second, Pointers, LookPcs, CreatePcs, UnlinkPcs, LockedPcs, RenamePcs
    <3> QED BY <3>1, <1>2, ContentsKept DEF b, RenameLookSecond, SameLocks
  <2>2. MetaChange(t, c)
    <3>1. \A d \in Dentries : HasMeta(c, d) <=> HasMeta(b, d)
      BY <1>1, <1>2, <1>3 DEF HasMeta, First, Pointers, LookPcs, CreatePcs, UnlinkPcs, LockedPcs, RenamePcs
    <3> QED BY <3>1, MetaKept DEF b, RenameLookSecond, SameLocks
  <2>3. RenameChange(t, c)
    <3>1. Renames(c) <=> Renames(b)
      BY <1>1, <1>2, <1>3 DEF OpsMatch, Renames, LookPcs, CreatePcs, UnlinkPcs, LockedPcs, RenamePcs
    <3> QED BY <3>1, RenameKept DEF b, RenameLookSecond, SameLocks
  <2>4. LockTypes'
    BY <1>1, <1>2 DEF RenameLookSecond, SameLocks, LockTypes
  <2> QED BY <2>1, <2>2, <2>3, <2>4 DEF LockChange
<1>9. PlaceOK(c, dent)
  <2>1. c.op \in Changing => DirsOnPath(c, dent)
    BY <1>1, <1>2, <1>3 DEF PlaceOK, DirsOnPath
  <2>2. c.op \in Changing => LookupAt(c, dent)
    BY <1>1, <1>2, <1>3 DEF PlaceOK, LookupAt, Target, FirstName, LookPcs, CreatePcs, UnlinkPcs, LockedPcs, RenamePcs
  <2>3. c.op \in Changing => UnlinkAt(c, dent)
    BY <1>1, <1>2, <1>3 DEF PlaceOK, UnlinkAt, LookPcs, CreatePcs, UnlinkPcs, LockedPcs, RenamePcs
  <2>4. c.op \in Changing => RenameAt(c, dent)
    BY <1>1, <1>2, <1>3 DEF PlaceOK, RenameAt, First, Pointers, LookPcs, CreatePcs, UnlinkPcs, LockedPcs, RenamePcs
  <2>5. c.pc = "lk3" => dent[c.par].kids[Head(c.want)] = c.cur
    BY <1>1, <1>3
  <2> QED BY <2>1, <2>2, <2>3, <2>4, <2>5 DEF PlaceOK
<1>11. SameCall(b, c) /\ uidNumber' \in Nat
  BY <1>1, <1>3 DEF SameCall, RenameLookSecond, SameTree
<1> QED BY <1>2, <1>4, <1>5, <1>6, <1>7, <1>8, <1>9, <1>11, LeanStep DEF b

\* The second lookup is left out when the source is missing.
LEMMA RenameLookSecondNone ==
    ASSUME TreeInv, NEW t \in TreeThreads, RenameLookSecond(t), ~ToFirst(t), thr[t].fromdent = Null
    PROVE  TreeInv'
<1> DEFINE b == thr[t]
           c == [b EXCEPT !.pc = "rn5"]
<1>1. /\ b \in Call /\ OpsMatch(b) /\ Pointers(b) /\ Walk(b) /\ PlaceOK(b, dent)
      /\ thr \in [TreeThreads -> Call] /\ dent \in [Dentries -> Entry] /\ GoodTree(dent)
      /\ LockTypes /\ uidNumber \in Nat /\ Root \in Dentries /\ Null \notin Dentries
      /\ b.pc = "rn4"
  BY Here DEF RenameLookSecond
<1>2. /\ b.op # "none"
      /\ b.op = "rename" /\ b.fromdir \in Dentries /\ b.todir \in Dentries
      /\ FirstDir(t) = First(b) /\ SecondDir(t) = Second(b)
      /\ ~ToFirst(t) /\ First(b) = b.fromdir /\ Second(b) = b.todir /\ b.fromdir # b.todir
      /\ b.fromdent = Null
  <2>1. b.fromdir # Null /\ b.todir # Null /\ b.op # "none"
    BY <1>1 DEF OpsMatch, Pointers, LookPcs, CreatePcs, UnlinkPcs, LockedPcs, RenamePcs
  <2> QED BY <1>1, <2>1, RenameDirs DEF First, Second, Pointers, LookPcs, CreatePcs, UnlinkPcs, LockedPcs, RenamePcs
<1>3. /\ c.op = b.op /\ c.path = b.path /\ c.to = b.to
      /\ c.want = b.want /\ c.cur = b.cur /\ c.par = b.par
      /\ c.fromdir = b.fromdir /\ c.todir = b.todir /\ c.fromdent = b.fromdent
      /\ c.todent = b.todent /\ c.val = b.val /\ c.ok = b.ok
      /\ c.fh = b.fh /\ c.pc = "rn5"
  BY <1>1 DEF Call
<1>4. c \in Call
  <2>1. /\ "rn5" \in Pcs
    BY <1>1, <1>2 DEF Call, NulOr, Pcs, LookPcs, CreatePcs, UnlinkPcs, LockedPcs, RenamePcs
  <2> QED BY <1>1, <2>1 DEF Call
<1>5. thr' = [thr EXCEPT ![t] = c] /\ Steps(thr, thr', t, c)
  BY <1>1, <1>2 DEF RenameLookSecond, Goto, Steps
<1> HIDE DEF b, c
<1>6. CallOK(c)
  <2>1. Target(c) = Target(b)
    BY <1>3 DEF Target
  <2>2. OpsMatch(c)
    BY <1>1, <1>2, <1>3, <2>1 DEF OpsMatch, Changing, LookPcs, CreatePcs, UnlinkPcs, LockedPcs, RenamePcs
  <2>3. Pointers(c)
    BY <1>1, <1>2, <1>3, <2>1 DEF OpsMatch, Pointers, First, FirstName, LookPcs, CreatePcs, UnlinkPcs, LockedPcs, RenamePcs
  <2>4. Walk(c)
    BY <1>1, <1>2, <1>3, <2>1 DEF Walk, FirstName, LookPcs, CreatePcs, UnlinkPcs, LockedPcs, RenamePcs
  <2> QED BY <2>2, <2>3, <2>4 DEF CallOK
<1>7. dent' \in [Dentries -> Entry] /\ Lean(dent, dent') /\ Counts(dent', thr')
  <2>1. SameSlots(b, c)
    BY <1>1, <1>2, <1>3, PtrIs DEF SameSlots, Slots, Pointers, LookPcs, CreatePcs, UnlinkPcs, LockedPcs, RenamePcs
  <2> QED BY <1>2, <1>5, <2>1, KeepHandles DEF b, RenameLookSecond, SameTree
<1>8. LockChange(t, c) /\ LockTypes'
  <2>1. ContentsChange(t, c)
    <3>1. \A d \in Dentries : (Reads(c, d) <=> Reads(b, d)) /\ (Writes(c, d) <=> Writes(b, d))
      BY <1>1, <1>2, <1>3 DEF Reads, Writes, WantsW, First, Second, Pointers, LookPcs, CreatePcs, UnlinkPcs, LockedPcs, RenamePcs
    <3> QED BY <3>1, <1>2, ContentsKept DEF b, RenameLookSecond, SameLocks
  <2>2. MetaChange(t, c)
    <3>1. \A d \in Dentries : HasMeta(c, d) <=> HasMeta(b, d)
      BY <1>1, <1>2, <1>3 DEF HasMeta, First, Pointers, LookPcs, CreatePcs, UnlinkPcs, LockedPcs, RenamePcs
    <3> QED BY <3>1, MetaKept DEF b, RenameLookSecond, SameLocks
  <2>3. RenameChange(t, c)
    <3>1. Renames(c) <=> Renames(b)
      BY <1>1, <1>2, <1>3 DEF OpsMatch, Renames, LookPcs, CreatePcs, UnlinkPcs, LockedPcs, RenamePcs
    <3> QED BY <3>1, RenameKept DEF b, RenameLookSecond, SameLocks
  <2>4. LockTypes'
    BY <1>1, <1>2 DEF RenameLookSecond, SameLocks, LockTypes
  <2> QED BY <2>1, <2>2, <2>3, <2>4 DEF LockChange
<1>9. PlaceOK(c, dent)
  <2>1. c.op \in Changing => DirsOnPath(c, dent)
    BY <1>1, <1>2, <1>3 DEF PlaceOK, DirsOnPath
  <2>2. c.op \in Changing => LookupAt(c, dent)
    BY <1>1, <1>2, <1>3 DEF PlaceOK, LookupAt, Target, FirstName, LookPcs, CreatePcs, UnlinkPcs, LockedPcs, RenamePcs
  <2>3. c.op \in Changing => UnlinkAt(c, dent)
    BY <1>1, <1>2, <1>3 DEF PlaceOK, UnlinkAt, LookPcs, CreatePcs, UnlinkPcs, LockedPcs, RenamePcs
  <2>4. c.op \in Changing => RenameAt(c, dent)
    BY <1>1, <1>2, <1>3 DEF PlaceOK, RenameAt, First, Pointers, LookPcs, CreatePcs, UnlinkPcs, LockedPcs, RenamePcs
  <2>5. c.pc = "lk3" => dent[c.par].kids[Head(c.want)] = c.cur
    BY <1>1, <1>3
  <2> QED BY <2>1, <2>2, <2>3, <2>4, <2>5 DEF PlaceOK
<1>11. SameCall(b, c) /\ uidNumber' \in Nat
  BY <1>1, <1>3 DEF SameCall, RenameLookSecond, SameTree
<1> QED BY <1>2, <1>4, <1>5, <1>6, <1>7, <1>8, <1>9, <1>11, LeanStep DEF b

\* The checks of rename refuse the call.
LEMMA RenameCheckError ==
    ASSUME TreeInv, NEW t \in TreeThreads, RenameCheck(t), RenameError(t)
    PROVE  TreeInv'
<1> DEFINE b == thr[t]
           c == [b EXCEPT !.pc = "rne1"]
<1>1. /\ b \in Call /\ OpsMatch(b) /\ Pointers(b) /\ Walk(b) /\ PlaceOK(b, dent)
      /\ thr \in [TreeThreads -> Call] /\ dent \in [Dentries -> Entry] /\ GoodTree(dent)
      /\ LockTypes /\ uidNumber \in Nat /\ Root \in Dentries /\ Null \notin Dentries
      /\ b.pc = "rn5"
  BY Here DEF RenameCheck
<1>2. /\ b.op # "none"
      /\ b.op = "rename"
  BY <1>1 DEF OpsMatch, LookPcs, CreatePcs, UnlinkPcs, LockedPcs, RenamePcs
<1>3. /\ c.op = b.op /\ c.path = b.path /\ c.to = b.to
      /\ c.want = b.want /\ c.cur = b.cur /\ c.par = b.par
      /\ c.fromdir = b.fromdir /\ c.todir = b.todir /\ c.fromdent = b.fromdent
      /\ c.todent = b.todent /\ c.val = b.val /\ c.ok = b.ok
      /\ c.fh = b.fh /\ c.pc = "rne1"
  BY <1>1 DEF Call
<1>4. c \in Call
  <2>1. /\ "rne1" \in Pcs
    BY <1>1, <1>2 DEF Call, NulOr, Pcs, LookPcs, CreatePcs, UnlinkPcs, LockedPcs, RenamePcs
  <2> QED BY <1>1, <2>1 DEF Call
<1>5. thr' = [thr EXCEPT ![t] = c] /\ Steps(thr, thr', t, c)
  BY <1>1 DEF RenameCheck, Goto, Steps
<1> HIDE DEF b, c
<1>6. CallOK(c)
  <2>1. Target(c) = Target(b)
    BY <1>3 DEF Target
  <2>2. OpsMatch(c)
    BY <1>1, <1>2, <1>3, <2>1 DEF OpsMatch, Changing, LookPcs, CreatePcs, UnlinkPcs, LockedPcs, RenamePcs
  <2>3. Pointers(c)
    BY <1>1, <1>2, <1>3, <2>1 DEF OpsMatch, Pointers, First, FirstName, LookPcs, CreatePcs, UnlinkPcs, LockedPcs, RenamePcs
  <2>4. Walk(c)
    BY <1>1, <1>2, <1>3, <2>1 DEF Walk, FirstName, LookPcs, CreatePcs, UnlinkPcs, LockedPcs, RenamePcs
  <2> QED BY <2>2, <2>3, <2>4 DEF CallOK
<1>7. dent' \in [Dentries -> Entry] /\ Lean(dent, dent') /\ Counts(dent', thr')
  <2>1. SameSlots(b, c)
    BY <1>1, <1>2, <1>3, PtrIs DEF SameSlots, Slots, Pointers, LookPcs, CreatePcs, UnlinkPcs, LockedPcs, RenamePcs
  <2> QED BY <1>2, <1>5, <2>1, KeepHandles DEF b, RenameCheck, SameTree
<1>8. LockChange(t, c) /\ LockTypes'
  <2>1. ContentsChange(t, c)
    <3>1. \A d \in Dentries : (Reads(c, d) <=> Reads(b, d)) /\ (Writes(c, d) <=> Writes(b, d))
      BY <1>1, <1>2, <1>3 DEF Reads, Writes, WantsW, First, Second, Pointers, LookPcs, CreatePcs, UnlinkPcs, LockedPcs, RenamePcs
    <3> QED BY <3>1, <1>2, ContentsKept DEF b, RenameCheck, SameLocks
  <2>2. MetaChange(t, c)
    <3>1. \A d \in Dentries : HasMeta(c, d) <=> HasMeta(b, d)
      BY <1>1, <1>2, <1>3 DEF HasMeta, First, Pointers, LookPcs, CreatePcs, UnlinkPcs, LockedPcs, RenamePcs
    <3> QED BY <3>1, MetaKept DEF b, RenameCheck, SameLocks
  <2>3. RenameChange(t, c)
    <3>1. Renames(c) <=> Renames(b)
      BY <1>1, <1>2, <1>3 DEF OpsMatch, Renames, LookPcs, CreatePcs, UnlinkPcs, LockedPcs, RenamePcs
    <3> QED BY <3>1, RenameKept DEF b, RenameCheck, SameLocks
  <2>4. LockTypes'
    BY <1>1, <1>2 DEF RenameCheck, SameLocks, LockTypes
  <2> QED BY <2>1, <2>2, <2>3, <2>4 DEF LockChange
<1>9. PlaceOK(c, dent)
  <2>1. c.op \in Changing => DirsOnPath(c, dent)
    BY <1>1, <1>2, <1>3 DEF PlaceOK, DirsOnPath
  <2>2. c.op \in Changing => LookupAt(c, dent)
    BY <1>1, <1>2, <1>3 DEF PlaceOK, LookupAt, Target, FirstName, LookPcs, CreatePcs, UnlinkPcs, LockedPcs, RenamePcs
  <2>3. c.op \in Changing => UnlinkAt(c, dent)
    BY <1>1, <1>2, <1>3 DEF PlaceOK, UnlinkAt, LookPcs, CreatePcs, UnlinkPcs, LockedPcs, RenamePcs
  <2>4. c.op \in Changing => RenameAt(c, dent)
    BY <1>1, <1>2, <1>3 DEF PlaceOK, RenameAt, First, Pointers, LookPcs, CreatePcs, UnlinkPcs, LockedPcs, RenamePcs
  <2>5. c.pc = "lk3" => dent[c.par].kids[Head(c.want)] = c.cur
    BY <1>1, <1>3
  <2> QED BY <2>1, <2>2, <2>3, <2>4, <2>5 DEF PlaceOK
<1>11. SameCall(b, c) /\ uidNumber' \in Nat
  BY <1>1, <1>3 DEF SameCall, RenameCheck, SameTree
<1> QED BY <1>2, <1>4, <1>5, <1>6, <1>7, <1>8, <1>9, <1>11, LeanStep DEF b

\* The checks of rename let the call go on.
LEMMA RenameCheckGood ==
    ASSUME TreeInv, NEW t \in TreeThreads, RenameCheck(t), ~RenameError(t)
    PROVE  TreeInv'
<1> DEFINE b == thr[t]
           c == [b EXCEPT !.pc = "rn6"]
<1>1. /\ b \in Call /\ OpsMatch(b) /\ Pointers(b) /\ Walk(b) /\ PlaceOK(b, dent)
      /\ thr \in [TreeThreads -> Call] /\ dent \in [Dentries -> Entry] /\ GoodTree(dent)
      /\ LockTypes /\ uidNumber \in Nat /\ Root \in Dentries /\ Null \notin Dentries
      /\ b.pc = "rn5"
  BY Here DEF RenameCheck
<1>2. /\ b.op # "none"
      /\ b.op = "rename"
      /\ b.fromdent # Null
      /\ b.fromdent # b.todir
      /\ b.todent # b.fromdir
      /\ b.todent \notin {Null, b.fromdent} => Kids(dent, b.todent) = {}
  <2>1. b.op = "rename" /\ b.fromdir # Null /\ b.todent \in NulOr
    BY <1>1 DEF OpsMatch, Pointers, Call, LookPcs, CreatePcs, UnlinkPcs, LockedPcs, RenamePcs
  <2>2. b.fromdent # Null /\ ~RenameLoop(t) /\ ~RenameNotEmpty(t)
    BY DEF RenameError
  <2>3. b.fromdent # b.todir /\ b.todent # b.fromdir
    BY <2>1, <2>2 DEF RenameLoop
  <2>4. ASSUME b.todent \notin {Null, b.fromdent} PROVE Kids(dent, b.todent) = {}
    <3>1. ~(dent[b.todent].isdir /\ Kids(dent, b.todent) # {}) /\ b.todent \in Dentries
      BY <2>1, <2>2, <2>4 DEF RenameNotEmpty, NulOr
    <3> QED BY <1>1, <3>1, NoEntries
  <2> QED BY <2>1, <2>2, <2>3, <2>4
<1>3. /\ c.op = b.op /\ c.path = b.path /\ c.to = b.to
      /\ c.want = b.want /\ c.cur = b.cur /\ c.par = b.par
      /\ c.fromdir = b.fromdir /\ c.todir = b.todir /\ c.fromdent = b.fromdent
      /\ c.todent = b.todent /\ c.val = b.val /\ c.ok = b.ok
      /\ c.fh = b.fh /\ c.pc = "rn6"
  BY <1>1 DEF Call
<1>4. c \in Call
  <2>1. /\ "rn6" \in Pcs
    BY <1>1, <1>2 DEF Call, NulOr, Pcs, LookPcs, CreatePcs, UnlinkPcs, LockedPcs, RenamePcs
  <2> QED BY <1>1, <2>1 DEF Call
<1>5. thr' = [thr EXCEPT ![t] = c] /\ Steps(thr, thr', t, c)
  BY <1>1 DEF RenameCheck, Goto, Steps
<1> HIDE DEF b, c
<1>6. CallOK(c)
  <2>1. Target(c) = Target(b)
    BY <1>3 DEF Target
  <2>2. OpsMatch(c)
    BY <1>1, <1>2, <1>3, <2>1 DEF OpsMatch, Changing, LookPcs, CreatePcs, UnlinkPcs, LockedPcs, RenamePcs
  <2>3. Pointers(c)
    BY <1>1, <1>2, <1>3, <2>1 DEF OpsMatch, Pointers, First, FirstName, LookPcs, CreatePcs, UnlinkPcs, LockedPcs, RenamePcs
  <2>4. Walk(c)
    BY <1>1, <1>2, <1>3, <2>1 DEF Walk, FirstName, LookPcs, CreatePcs, UnlinkPcs, LockedPcs, RenamePcs
  <2> QED BY <2>2, <2>3, <2>4 DEF CallOK
<1>7. dent' \in [Dentries -> Entry] /\ Lean(dent, dent') /\ Counts(dent', thr')
  <2>1. SameSlots(b, c)
    BY <1>1, <1>2, <1>3, PtrIs DEF SameSlots, Slots, Pointers, LookPcs, CreatePcs, UnlinkPcs, LockedPcs, RenamePcs
  <2> QED BY <1>2, <1>5, <2>1, KeepHandles DEF b, RenameCheck, SameTree
<1>8. LockChange(t, c) /\ LockTypes'
  <2>1. ContentsChange(t, c)
    <3>1. \A d \in Dentries : (Reads(c, d) <=> Reads(b, d)) /\ (Writes(c, d) <=> Writes(b, d))
      BY <1>1, <1>2, <1>3 DEF Reads, Writes, WantsW, First, Second, Pointers, LookPcs, CreatePcs, UnlinkPcs, LockedPcs, RenamePcs
    <3> QED BY <3>1, <1>2, ContentsKept DEF b, RenameCheck, SameLocks
  <2>2. MetaChange(t, c)
    <3>1. \A d \in Dentries : HasMeta(c, d) <=> HasMeta(b, d)
      BY <1>1, <1>2, <1>3 DEF HasMeta, First, Pointers, LookPcs, CreatePcs, UnlinkPcs, LockedPcs, RenamePcs
    <3> QED BY <3>1, MetaKept DEF b, RenameCheck, SameLocks
  <2>3. RenameChange(t, c)
    <3>1. Renames(c) <=> Renames(b)
      BY <1>1, <1>2, <1>3 DEF OpsMatch, Renames, LookPcs, CreatePcs, UnlinkPcs, LockedPcs, RenamePcs
    <3> QED BY <3>1, RenameKept DEF b, RenameCheck, SameLocks
  <2>4. LockTypes'
    BY <1>1, <1>2 DEF RenameCheck, SameLocks, LockTypes
  <2> QED BY <2>1, <2>2, <2>3, <2>4 DEF LockChange
<1>9. PlaceOK(c, dent)
  <2>1. c.op \in Changing => DirsOnPath(c, dent)
    BY <1>1, <1>2, <1>3 DEF PlaceOK, DirsOnPath
  <2>2. c.op \in Changing => LookupAt(c, dent)
    BY <1>1, <1>2, <1>3 DEF PlaceOK, LookupAt, Target, FirstName, LookPcs, CreatePcs, UnlinkPcs, LockedPcs, RenamePcs
  <2>3. c.op \in Changing => UnlinkAt(c, dent)
    BY <1>1, <1>2, <1>3 DEF PlaceOK, UnlinkAt, LookPcs, CreatePcs, UnlinkPcs, LockedPcs, RenamePcs
  <2>4. c.op \in Changing => RenameAt(c, dent)
    BY <1>1, <1>2, <1>3 DEF PlaceOK, RenameAt, First, Pointers, LookPcs, CreatePcs, UnlinkPcs, LockedPcs, RenamePcs
  <2>5. c.pc = "lk3" => dent[c.par].kids[Head(c.want)] = c.cur
    BY <1>1, <1>3
  <2> QED BY <2>1, <2>2, <2>3, <2>4, <2>5 DEF PlaceOK
<1>11. SameCall(b, c) /\ uidNumber' \in Nat
  BY <1>1, <1>3 DEF SameCall, RenameCheck, SameTree
<1> QED BY <1>2, <1>4, <1>5, <1>6, <1>7, <1>8, <1>9, <1>11, LeanStep DEF b

\* A rename that failed gives the source back.
LEMMA RenameErrorFromInv ==
    ASSUME TreeInv, NEW t \in TreeThreads, RenameErrorFrom(t)
    PROVE  TreeInv'
<1> DEFINE b == thr[t]
           c == [b EXCEPT !.val = b.fromdent, !.fromdent = Null, !.pc = "rne2"]
<1>1. /\ b \in Call /\ OpsMatch(b) /\ Pointers(b) /\ Walk(b) /\ PlaceOK(b, dent)
      /\ thr \in [TreeThreads -> Call] /\ dent \in [Dentries -> Entry] /\ GoodTree(dent)
      /\ LockTypes /\ uidNumber \in Nat /\ Root \in Dentries /\ Null \notin Dentries
      /\ b.pc = "rne1"
  BY Here DEF RenameErrorFrom
<1>2. /\ b.op # "none"
      /\ b.op = "rename"
      /\ ~b.ok
  BY <1>1 DEF OpsMatch, Call, LookPcs, CreatePcs, UnlinkPcs, LockedPcs, RenamePcs
<1>3. /\ c.op = b.op /\ c.path = b.path /\ c.to = b.to
      /\ c.want = b.want /\ c.cur = b.cur /\ c.par = b.par
      /\ c.fromdir = b.fromdir /\ c.todir = b.todir /\ c.fromdent = Null
      /\ c.todent = b.todent /\ c.val = b.fromdent /\ c.ok = b.ok
      /\ c.fh = b.fh /\ c.pc = "rne2"
  BY <1>1 DEF Call
<1>4. c \in Call
  <2>0. b.fromdent \in Nat
    <3>1. b.fromdent \in NulOr
      BY <1>1 DEF Call
    <3>2. Null \in Nat
      BY DEF Null
    <3> QED BY <3>1, <3>2, Memory DEF NulOr
  <2>1. Null \in NulOr /\ "rne2" \in Pcs
    BY <1>1, <1>2, Memory DEF Call, NulOr, Pcs, LookPcs, CreatePcs, UnlinkPcs, LockedPcs, RenamePcs
  <2> QED BY <1>1, <2>0, <2>1 DEF Call
<1>5. thr' = [thr EXCEPT ![t] = c] /\ Steps(thr, thr', t, c)
  BY <1>1 DEF RenameErrorFrom, Goto, Steps
<1> HIDE DEF b, c
<1>6. CallOK(c)
  <2>1. Target(c) = Target(b)
    BY <1>3 DEF Target
  <2>2. OpsMatch(c)
    BY <1>1, <1>2, <1>3, <2>1 DEF OpsMatch, Changing, LookPcs, CreatePcs, UnlinkPcs, LockedPcs, RenamePcs
  <2>3. Pointers(c)
    BY <1>1, <1>2, <1>3, <2>1 DEF OpsMatch, Pointers, First, FirstName, LookPcs, CreatePcs, UnlinkPcs, LockedPcs, RenamePcs
  <2>4. Walk(c)
    BY <1>1, <1>2, <1>3, <2>1 DEF Walk, FirstName, LookPcs, CreatePcs, UnlinkPcs, LockedPcs, RenamePcs
  <2> QED BY <2>2, <2>3, <2>4 DEF CallOK
<1>7. dent' \in [Dentries -> Entry] /\ Lean(dent, dent') /\ Counts(dent', thr')
  <2>1. CASE b.fromdent = Null
    <3>1. SameSlots(b, c)
      BY <1>1, <1>2, <1>3, <2>1, PtrIs DEF SameSlots, Slots, Pointers, LookPcs, CreatePcs, UnlinkPcs, LockedPcs, RenamePcs
    <3>2. UNCHANGED dent
      BY <2>1 DEF b, RenameErrorFrom, GiveBack
    <3> QED BY <1>5, <3>1, <3>2, KeepHandles DEF b
  <2>2. CASE b.fromdent # Null
    <3>1. GiveSlot(b, c, "fromdent", b.fromdent) /\ b.fromdent \in Dentries
      BY <1>1, <1>2, <1>3, <2>2, PtrIs DEF GiveSlot, TakeSlot, Slots, Pointers, Call, NulOr, LookPcs, CreatePcs, UnlinkPcs, LockedPcs, RenamePcs
    <3>2. CASE b.fromdent = b.todir
      <4>1. dent' = [dent EXCEPT ![b.fromdent].nh = @ - 1]
        BY <2>2, <3>2 DEF b, RenameErrorFrom, GiveBack
      <4> QED BY <1>5, <3>1, <4>1, DropHandle DEF b
    <3>3. CASE b.fromdent # b.todir
      <4>1. dent' = Release(dent, b.fromdent)
        BY <2>2, <3>3 DEF b, RenameErrorFrom, GiveBack
      <4> QED BY <1>5, <3>1, <4>1, ReleaseHandle DEF b
    <3> QED BY <3>2, <3>3
  <2> QED BY <2>1, <2>2
<1>8. LockChange(t, c) /\ LockTypes'
  <2>1. ContentsChange(t, c)
    <3>1. \A d \in Dentries : (Reads(c, d) <=> Reads(b, d)) /\ (Writes(c, d) <=> Writes(b, d))
      BY <1>1, <1>2, <1>3 DEF Reads, Writes, WantsW, First, Second, Pointers, LookPcs, CreatePcs, UnlinkPcs, LockedPcs, RenamePcs
    <3> QED BY <3>1, <1>2, ContentsKept DEF b, RenameErrorFrom, SameLocks
  <2>2. MetaChange(t, c)
    <3>1. \A d \in Dentries : HasMeta(c, d) <=> HasMeta(b, d)
      BY <1>1, <1>2, <1>3 DEF HasMeta, First, Pointers, LookPcs, CreatePcs, UnlinkPcs, LockedPcs, RenamePcs
    <3> QED BY <3>1, MetaKept DEF b, RenameErrorFrom, SameLocks
  <2>3. RenameChange(t, c)
    <3>1. Renames(c) <=> Renames(b)
      BY <1>1, <1>2, <1>3 DEF OpsMatch, Renames, LookPcs, CreatePcs, UnlinkPcs, LockedPcs, RenamePcs
    <3> QED BY <3>1, RenameKept DEF b, RenameErrorFrom, SameLocks
  <2>4. LockTypes'
    BY <1>1, <1>2 DEF RenameErrorFrom, SameLocks, LockTypes
  <2> QED BY <2>1, <2>2, <2>3, <2>4 DEF LockChange
<1>9. PlaceOK(c, dent)
  <2>1. c.op \in Changing => DirsOnPath(c, dent)
    BY <1>1, <1>2, <1>3 DEF PlaceOK, DirsOnPath
  <2>2. c.op \in Changing => LookupAt(c, dent)
    BY <1>1, <1>2, <1>3 DEF PlaceOK, LookupAt, Target, FirstName, LookPcs, CreatePcs, UnlinkPcs, LockedPcs, RenamePcs
  <2>3. c.op \in Changing => UnlinkAt(c, dent)
    BY <1>1, <1>2, <1>3 DEF PlaceOK, UnlinkAt, LookPcs, CreatePcs, UnlinkPcs, LockedPcs, RenamePcs
  <2>4. c.op \in Changing => RenameAt(c, dent)
    BY <1>1, <1>2, <1>3 DEF PlaceOK, RenameAt, First, Pointers, LookPcs, CreatePcs, UnlinkPcs, LockedPcs, RenamePcs
  <2>5. c.pc = "lk3" => dent[c.par].kids[Head(c.want)] = c.cur
    BY <1>1, <1>3
  <2> QED BY <2>1, <2>2, <2>3, <2>4, <2>5 DEF PlaceOK
<1>11. SameCall(b, c) /\ uidNumber' \in Nat
  BY <1>1, <1>3 DEF SameCall, RenameErrorFrom, SameTree
<1> QED BY <1>2, <1>4, <1>5, <1>6, <1>7, <1>8, <1>9, <1>11, LeanStep DEF b

\* A rename that failed gives the target back.
LEMMA RenameErrorToInv ==
    ASSUME TreeInv, NEW t \in TreeThreads, RenameErrorTo(t)
    PROVE  TreeInv'
<1> DEFINE b == thr[t]
           c == [b EXCEPT !.todent = Null, !.pc = "rn8"]
<1>1. /\ b \in Call /\ OpsMatch(b) /\ Pointers(b) /\ Walk(b) /\ PlaceOK(b, dent)
      /\ thr \in [TreeThreads -> Call] /\ dent \in [Dentries -> Entry] /\ GoodTree(dent)
      /\ LockTypes /\ uidNumber \in Nat /\ Root \in Dentries /\ Null \notin Dentries
      /\ b.pc = "rne2"
  BY Here DEF RenameErrorTo
<1>2. /\ b.op # "none"
      /\ b.op = "rename"
      /\ ~b.ok
  BY <1>1 DEF OpsMatch, Call, LookPcs, CreatePcs, UnlinkPcs, LockedPcs, RenamePcs
<1>3. /\ c.op = b.op /\ c.path = b.path /\ c.to = b.to
      /\ c.want = b.want /\ c.cur = b.cur /\ c.par = b.par
      /\ c.fromdir = b.fromdir /\ c.todir = b.todir /\ c.fromdent = b.fromdent
      /\ c.todent = Null /\ c.val = b.val /\ c.ok = b.ok
      /\ c.fh = b.fh /\ c.pc = "rn8"
  BY <1>1 DEF Call
<1>4. c \in Call
  <2>1. /\ Null \in NulOr
        /\ "rn8" \in Pcs
    BY <1>1, <1>2 DEF Call, NulOr, Pcs, LookPcs, CreatePcs, UnlinkPcs, LockedPcs, RenamePcs
  <2> QED BY <1>1, <2>1 DEF Call
<1>5. thr' = [thr EXCEPT ![t] = c] /\ Steps(thr, thr', t, c)
  BY <1>1 DEF RenameErrorTo, Goto, Steps
<1> HIDE DEF b, c
<1>6. CallOK(c)
  <2>1. Target(c) = Target(b)
    BY <1>3 DEF Target
  <2>2. OpsMatch(c)
    BY <1>1, <1>2, <1>3, <2>1 DEF OpsMatch, Changing, LookPcs, CreatePcs, UnlinkPcs, LockedPcs, RenamePcs
  <2>3. Pointers(c)
    BY <1>1, <1>2, <1>3, <2>1 DEF OpsMatch, Pointers, First, FirstName, LookPcs, CreatePcs, UnlinkPcs, LockedPcs, RenamePcs
  <2>4. Walk(c)
    BY <1>1, <1>2, <1>3, <2>1 DEF Walk, FirstName, LookPcs, CreatePcs, UnlinkPcs, LockedPcs, RenamePcs
  <2> QED BY <2>2, <2>3, <2>4 DEF CallOK
<1>7. dent' \in [Dentries -> Entry] /\ Lean(dent, dent') /\ Counts(dent', thr')
  <2>1. CASE b.todent = Null
    <3>1. SameSlots(b, c)
      BY <1>1, <1>2, <1>3, <2>1, PtrIs DEF SameSlots, Slots, Pointers, LookPcs, CreatePcs, UnlinkPcs, LockedPcs, RenamePcs
    <3>2. UNCHANGED dent
      BY <2>1 DEF b, RenameErrorTo, GiveBack
    <3> QED BY <1>5, <3>1, <3>2, KeepHandles DEF b
  <2>2. CASE b.todent # Null
    <3>1. GiveSlot(b, c, "todent", b.todent) /\ b.todent \in Dentries
      BY <1>1, <1>2, <1>3, <2>2, PtrIs DEF GiveSlot, TakeSlot, Slots, Pointers, Call, NulOr, LookPcs, CreatePcs, UnlinkPcs, LockedPcs, RenamePcs
    <3>2. CASE b.todent = b.fromdir
      <4>1. dent' = [dent EXCEPT ![b.todent].nh = @ - 1]
        BY <2>2, <3>2 DEF b, RenameErrorTo, GiveBack
      <4> QED BY <1>5, <3>1, <4>1, DropHandle DEF b
    <3>3. CASE b.todent # b.fromdir
      <4>1. dent' = Release(dent, b.todent)
        BY <2>2, <3>3 DEF b, RenameErrorTo, GiveBack
      <4> QED BY <1>5, <3>1, <4>1, ReleaseHandle DEF b
    <3> QED BY <3>2, <3>3
  <2> QED BY <2>1, <2>2
<1>8. LockChange(t, c) /\ LockTypes'
  <2>1. ContentsChange(t, c)
    <3>1. \A d \in Dentries : (Reads(c, d) <=> Reads(b, d)) /\ (Writes(c, d) <=> Writes(b, d))
      BY <1>1, <1>2, <1>3 DEF Reads, Writes, WantsW, First, Second, Pointers, LookPcs, CreatePcs, UnlinkPcs, LockedPcs, RenamePcs
    <3> QED BY <3>1, <1>2, ContentsKept DEF b, RenameErrorTo, SameLocks
  <2>2. MetaChange(t, c)
    <3>1. \A d \in Dentries : HasMeta(c, d) <=> HasMeta(b, d)
      BY <1>1, <1>2, <1>3 DEF HasMeta, First, Pointers, LookPcs, CreatePcs, UnlinkPcs, LockedPcs, RenamePcs
    <3> QED BY <3>1, MetaKept DEF b, RenameErrorTo, SameLocks
  <2>3. RenameChange(t, c)
    <3>1. Renames(c) <=> Renames(b)
      BY <1>1, <1>2, <1>3 DEF OpsMatch, Renames, LookPcs, CreatePcs, UnlinkPcs, LockedPcs, RenamePcs
    <3> QED BY <3>1, RenameKept DEF b, RenameErrorTo, SameLocks
  <2>4. LockTypes'
    BY <1>1, <1>2 DEF RenameErrorTo, SameLocks, LockTypes
  <2> QED BY <2>1, <2>2, <2>3, <2>4 DEF LockChange
<1>9. PlaceOK(c, dent)
  <2>1. c.op \in Changing => DirsOnPath(c, dent)
    BY <1>1, <1>2, <1>3 DEF PlaceOK, DirsOnPath
  <2>2. c.op \in Changing => LookupAt(c, dent)
    BY <1>1, <1>2, <1>3 DEF PlaceOK, LookupAt, Target, FirstName, LookPcs, CreatePcs, UnlinkPcs, LockedPcs, RenamePcs
  <2>3. c.op \in Changing => UnlinkAt(c, dent)
    BY <1>1, <1>2, <1>3 DEF PlaceOK, UnlinkAt, LookPcs, CreatePcs, UnlinkPcs, LockedPcs, RenamePcs
  <2>4. c.op \in Changing => RenameAt(c, dent)
    BY <1>1, <1>2, <1>3 DEF PlaceOK, RenameAt, First, Pointers, LookPcs, CreatePcs, UnlinkPcs, LockedPcs, RenamePcs
  <2>5. c.pc = "lk3" => dent[c.par].kids[Head(c.want)] = c.cur
    BY <1>1, <1>3
  <2> QED BY <2>1, <2>2, <2>3, <2>4, <2>5 DEF PlaceOK
<1>11. SameCall(b, c) /\ uidNumber' \in Nat
  BY <1>1, <1>3 DEF SameCall, RenameErrorTo, SameTree
<1> QED BY <1>2, <1>4, <1>5, <1>6, <1>7, <1>8, <1>9, <1>11, LeanStep DEF b

\* There is no target to replace.
LEMMA RenameReplaceNothing ==
    ASSUME TreeInv, NEW t \in TreeThreads, RenameReplace(t), thr[t].todent = Null
    PROVE  TreeInv'
<1> DEFINE b == thr[t]
           c == [b EXCEPT !.todent = Null, !.pc = "rn7"]
<1>1. /\ b \in Call /\ OpsMatch(b) /\ Pointers(b) /\ Walk(b) /\ PlaceOK(b, dent)
      /\ thr \in [TreeThreads -> Call] /\ dent \in [Dentries -> Entry] /\ GoodTree(dent)
      /\ LockTypes /\ uidNumber \in Nat /\ Root \in Dentries /\ Null \notin Dentries
      /\ b.pc = "rn6"
  BY Here DEF RenameReplace
<1>2. /\ b.op # "none"
      /\ b.op = "rename" /\ b.fromdent # Null /\ ~b.ok
      /\ b.todent = Null
      /\ ResolveIn(dent, b.to) = b.todent
  <2>1. b.op = "rename" /\ b.fromdent # Null /\ ~b.ok
    BY <1>1 DEF OpsMatch, Pointers, Call, LookPcs, CreatePcs, UnlinkPcs, LockedPcs, RenamePcs
  <2>2. ResolveIn(dent, b.to) = b.todent
    BY <1>1, <2>1 DEF PlaceOK, RenameAt, Changing
  <2> QED BY <2>1, <2>2
<1>3. /\ c.op = b.op /\ c.path = b.path /\ c.to = b.to
      /\ c.want = b.want /\ c.cur = b.cur /\ c.par = b.par
      /\ c.fromdir = b.fromdir /\ c.todir = b.todir /\ c.fromdent = b.fromdent
      /\ c.todent = Null /\ c.val = b.val /\ c.ok = b.ok
      /\ c.fh = b.fh /\ c.pc = "rn7"
  BY <1>1 DEF Call
<1>4. c \in Call
  <2>1. /\ Null \in NulOr
        /\ "rn7" \in Pcs
    BY <1>1, <1>2 DEF Call, NulOr, Pcs, LookPcs, CreatePcs, UnlinkPcs, LockedPcs, RenamePcs
  <2> QED BY <1>1, <2>1 DEF Call
<1>5. thr' = [thr EXCEPT ![t] = c] /\ Steps(thr, thr', t, c)
  BY <1>1 DEF RenameReplace, Goto, Steps
<1> HIDE DEF b, c
<1>6. CallOK(c)
  <2>1. Target(c) = Target(b)
    BY <1>3 DEF Target
  <2>2. OpsMatch(c)
    BY <1>1, <1>2, <1>3, <2>1 DEF OpsMatch, Changing, LookPcs, CreatePcs, UnlinkPcs, LockedPcs, RenamePcs
  <2>3. Pointers(c)
    BY <1>1, <1>2, <1>3, <2>1 DEF OpsMatch, Pointers, First, FirstName, LookPcs, CreatePcs, UnlinkPcs, LockedPcs, RenamePcs
  <2>4. Walk(c)
    BY <1>1, <1>2, <1>3, <2>1 DEF Walk, FirstName, LookPcs, CreatePcs, UnlinkPcs, LockedPcs, RenamePcs
  <2> QED BY <2>2, <2>3, <2>4 DEF CallOK
<1>7. dent' \in [Dentries -> Entry] /\ Lean(dent, dent') /\ Counts(dent', thr')
  <2>1. SameSlots(b, c)
    BY <1>1, <1>2, <1>3, PtrIs DEF SameSlots, Slots, Pointers, LookPcs, CreatePcs, UnlinkPcs, LockedPcs, RenamePcs
  <2>2. UNCHANGED dent
    BY <1>2 DEF b, RenameReplace
  <2> QED BY <1>5, <2>1, <2>2, KeepHandles DEF b
<1>8. LockChange(t, c) /\ LockTypes'
  <2>1. ContentsChange(t, c)
    <3>1. \A d \in Dentries : (Reads(c, d) <=> Reads(b, d)) /\ (Writes(c, d) <=> Writes(b, d))
      BY <1>1, <1>2, <1>3 DEF Reads, Writes, WantsW, First, Second, Pointers, LookPcs, CreatePcs, UnlinkPcs, LockedPcs, RenamePcs
    <3> QED BY <3>1, <1>2, ContentsKept DEF b, RenameReplace, SameLocks
  <2>2. MetaChange(t, c)
    <3>1. \A d \in Dentries : HasMeta(c, d) <=> HasMeta(b, d)
      BY <1>1, <1>2, <1>3 DEF HasMeta, First, Pointers, LookPcs, CreatePcs, UnlinkPcs, LockedPcs, RenamePcs
    <3> QED BY <3>1, MetaKept DEF b, RenameReplace, SameLocks
  <2>3. RenameChange(t, c)
    <3>1. Renames(c) <=> Renames(b)
      BY <1>1, <1>2, <1>3 DEF OpsMatch, Renames, LookPcs, CreatePcs, UnlinkPcs, LockedPcs, RenamePcs
    <3> QED BY <3>1, RenameKept DEF b, RenameReplace, SameLocks
  <2>4. LockTypes'
    BY <1>1, <1>2 DEF RenameReplace, SameLocks, LockTypes
  <2> QED BY <2>1, <2>2, <2>3, <2>4 DEF LockChange
<1>9. PlaceOK(c, dent)
  <2>1. c.op \in Changing => DirsOnPath(c, dent)
    BY <1>1, <1>2, <1>3 DEF PlaceOK, DirsOnPath
  <2>2. c.op \in Changing => LookupAt(c, dent)
    BY <1>1, <1>2, <1>3 DEF PlaceOK, LookupAt, Target, FirstName, LookPcs, CreatePcs, UnlinkPcs, LockedPcs, RenamePcs
  <2>3. c.op \in Changing => UnlinkAt(c, dent)
    BY <1>1, <1>2, <1>3 DEF PlaceOK, UnlinkAt, LookPcs, CreatePcs, UnlinkPcs, LockedPcs, RenamePcs
  <2>4. c.op \in Changing => RenameAt(c, dent)
    BY <1>1, <1>2, <1>3 DEF PlaceOK, RenameAt, First, Pointers, LookPcs, CreatePcs, UnlinkPcs, LockedPcs, RenamePcs
  <2>5. c.pc = "lk3" => dent[c.par].kids[Head(c.want)] = c.cur
    BY <1>1, <1>3
  <2> QED BY <2>1, <2>2, <2>3, <2>4, <2>5 DEF PlaceOK
<1>11. SameCall(b, c) /\ uidNumber' \in Nat
  BY <1>1, <1>3 DEF SameCall, RenameReplace, SameTree
<1> QED BY <1>2, <1>4, <1>5, <1>6, <1>7, <1>8, <1>9, <1>11, LeanStep DEF b

\* Source and target are the same dentry: one of its two handles is given back.
LEMMA RenameReplaceSelf ==
    ASSUME TreeInv, NEW t \in TreeThreads, RenameReplace(t), thr[t].todent = thr[t].fromdent
    PROVE  TreeInv'
<1> DEFINE b == thr[t]
           c == [b EXCEPT !.todent = Null, !.pc = "rn7"]
<1>1. /\ b \in Call /\ OpsMatch(b) /\ Pointers(b) /\ Walk(b) /\ PlaceOK(b, dent)
      /\ thr \in [TreeThreads -> Call] /\ dent \in [Dentries -> Entry] /\ GoodTree(dent)
      /\ LockTypes /\ uidNumber \in Nat /\ Root \in Dentries /\ Null \notin Dentries
      /\ b.pc = "rn6"
  BY Here DEF RenameReplace
<1>2. /\ b.op # "none"
      /\ b.op = "rename" /\ b.fromdent # Null /\ ~b.ok
      /\ b.todent = b.fromdent
      /\ ResolveIn(dent, b.to) = b.todent
  <2>1. b.op = "rename" /\ b.fromdent # Null /\ ~b.ok
    BY <1>1 DEF OpsMatch, Pointers, Call, LookPcs, CreatePcs, UnlinkPcs, LockedPcs, RenamePcs
  <2>2. ResolveIn(dent, b.to) = b.todent
    BY <1>1, <2>1 DEF PlaceOK, RenameAt, Changing
  <2> QED BY <2>1, <2>2
<1>3. /\ c.op = b.op /\ c.path = b.path /\ c.to = b.to
      /\ c.want = b.want /\ c.cur = b.cur /\ c.par = b.par
      /\ c.fromdir = b.fromdir /\ c.todir = b.todir /\ c.fromdent = b.fromdent
      /\ c.todent = Null /\ c.val = b.val /\ c.ok = b.ok
      /\ c.fh = b.fh /\ c.pc = "rn7"
  BY <1>1 DEF Call
<1>4. c \in Call
  <2>1. /\ Null \in NulOr
        /\ "rn7" \in Pcs
    BY <1>1, <1>2 DEF Call, NulOr, Pcs, LookPcs, CreatePcs, UnlinkPcs, LockedPcs, RenamePcs
  <2> QED BY <1>1, <2>1 DEF Call
<1>5. thr' = [thr EXCEPT ![t] = c] /\ Steps(thr, thr', t, c)
  BY <1>1 DEF RenameReplace, Goto, Steps
<1> HIDE DEF b, c
<1>6. CallOK(c)
  <2>1. Target(c) = Target(b)
    BY <1>3 DEF Target
  <2>2. OpsMatch(c)
    BY <1>1, <1>2, <1>3, <2>1 DEF OpsMatch, Changing, LookPcs, CreatePcs, UnlinkPcs, LockedPcs, RenamePcs
  <2>3. Pointers(c)
    BY <1>1, <1>2, <1>3, <2>1 DEF OpsMatch, Pointers, First, FirstName, LookPcs, CreatePcs, UnlinkPcs, LockedPcs, RenamePcs
  <2>4. Walk(c)
    BY <1>1, <1>2, <1>3, <2>1 DEF Walk, FirstName, LookPcs, CreatePcs, UnlinkPcs, LockedPcs, RenamePcs
  <2> QED BY <2>2, <2>3, <2>4 DEF CallOK
<1>7. dent' \in [Dentries -> Entry] /\ Lean(dent, dent') /\ Counts(dent', thr')
  <2>1. GiveSlot(b, c, "todent", b.todent) /\ b.todent \in Dentries
    BY <1>1, <1>2, <1>3, PtrIs DEF GiveSlot, TakeSlot, Slots, Pointers, Call, NulOr, LookPcs, CreatePcs, UnlinkPcs, LockedPcs, RenamePcs
  <2>2. dent' = Release(dent, b.todent)
    BY <1>2 DEF b, RenameReplace
  <2> QED BY <1>5, <2>1, <2>2, ReleaseHandle DEF b
<1>8. LockChange(t, c) /\ LockTypes'
  <2>1. ContentsChange(t, c)
    <3>1. \A d \in Dentries : (Reads(c, d) <=> Reads(b, d)) /\ (Writes(c, d) <=> Writes(b, d))
      BY <1>1, <1>2, <1>3 DEF Reads, Writes, WantsW, First, Second, Pointers, LookPcs, CreatePcs, UnlinkPcs, LockedPcs, RenamePcs
    <3> QED BY <3>1, <1>2, ContentsKept DEF b, RenameReplace, SameLocks
  <2>2. MetaChange(t, c)
    <3>1. \A d \in Dentries : HasMeta(c, d) <=> HasMeta(b, d)
      BY <1>1, <1>2, <1>3 DEF HasMeta, First, Pointers, LookPcs, CreatePcs, UnlinkPcs, LockedPcs, RenamePcs
    <3> QED BY <3>1, MetaKept DEF b, RenameReplace, SameLocks
  <2>3. RenameChange(t, c)
    <3>1. Renames(c) <=> Renames(b)
      BY <1>1, <1>2, <1>3 DEF OpsMatch, Renames, LookPcs, CreatePcs, UnlinkPcs, LockedPcs, RenamePcs
    <3> QED BY <3>1, RenameKept DEF b, RenameReplace, SameLocks
  <2>4. LockTypes'
    BY <1>1, <1>2 DEF RenameReplace, SameLocks, LockTypes
  <2> QED BY <2>1, <2>2, <2>3, <2>4 DEF LockChange
<1>9. PlaceOK(c, dent)
  <2>1. c.op \in Changing => DirsOnPath(c, dent)
    BY <1>1, <1>2, <1>3 DEF PlaceOK, DirsOnPath
  <2>2. c.op \in Changing => LookupAt(c, dent)
    BY <1>1, <1>2, <1>3 DEF PlaceOK, LookupAt, Target, FirstName, LookPcs, CreatePcs, UnlinkPcs, LockedPcs, RenamePcs
  <2>3. c.op \in Changing => UnlinkAt(c, dent)
    BY <1>1, <1>2, <1>3 DEF PlaceOK, UnlinkAt, LookPcs, CreatePcs, UnlinkPcs, LockedPcs, RenamePcs
  <2>4. c.op \in Changing => RenameAt(c, dent)
    BY <1>1, <1>2, <1>3 DEF PlaceOK, RenameAt, First, Pointers, LookPcs, CreatePcs, UnlinkPcs, LockedPcs, RenamePcs
  <2>5. c.pc = "lk3" => dent[c.par].kids[Head(c.want)] = c.cur
    BY <1>1, <1>3
  <2> QED BY <2>1, <2>2, <2>3, <2>4, <2>5 DEF PlaceOK
<1>11. SameCall(b, c) /\ uidNumber' \in Nat
  BY <1>1, <1>3 DEF SameCall, RenameReplace, SameTree
<1> QED BY <1>2, <1>4, <1>5, <1>6, <1>7, <1>8, <1>9, <1>11, LeanStep DEF b

\* rename gives the contents locks back.
LEMMA RenameUnlockInv ==
    ASSUME TreeInv, NEW t \in TreeThreads, RenameUnlock(t)
    PROVE  TreeInv'
<1> DEFINE b == thr[t]
           c == [b EXCEPT !.pc = "rn9"]
<1>1. /\ b \in Call /\ OpsMatch(b) /\ Pointers(b) /\ Walk(b) /\ PlaceOK(b, dent)
      /\ thr \in [TreeThreads -> Call] /\ dent \in [Dentries -> Entry] /\ GoodTree(dent)
      /\ LockTypes /\ uidNumber \in Nat /\ Root \in Dentries /\ Null \notin Dentries
      /\ b.pc = "rn8"
  BY Here DEF RenameUnlock
<1>2. /\ b.op # "none"
      /\ b.op = "rename" /\ b.fromdir \in Dentries /\ b.todir \in Dentries
  BY <1>1 DEF OpsMatch, Pointers, Call, NulOr, LookPcs, CreatePcs, UnlinkPcs, LockedPcs, RenamePcs
<1>3. /\ c.op = b.op /\ c.path = b.path /\ c.to = b.to
      /\ c.want = b.want /\ c.cur = b.cur /\ c.par = b.par
      /\ c.fromdir = b.fromdir /\ c.todir = b.todir /\ c.fromdent = b.fromdent
      /\ c.todent = b.todent /\ c.val = b.val /\ c.ok = b.ok
      /\ c.fh = b.fh /\ c.pc = "rn9"
  BY <1>1 DEF Call
<1>4. c \in Call
  <2>1. /\ "rn9" \in Pcs
    BY <1>1, <1>2 DEF Call, NulOr, Pcs, LookPcs, CreatePcs, UnlinkPcs, LockedPcs, RenamePcs
  <2> QED BY <1>1, <2>1 DEF Call
<1>5. thr' = [thr EXCEPT ![t] = c] /\ Steps(thr, thr', t, c)
  BY <1>1 DEF RenameUnlock, Goto, Steps
<1> HIDE DEF b, c
<1>6. CallOK(c)
  <2>1. Target(c) = Target(b)
    BY <1>3 DEF Target
  <2>2. OpsMatch(c)
    BY <1>1, <1>2, <1>3, <2>1 DEF OpsMatch, Changing, LookPcs, CreatePcs, UnlinkPcs, LockedPcs, RenamePcs
  <2>3. Pointers(c)
    BY <1>1, <1>2, <1>3, <2>1 DEF OpsMatch, Pointers, First, FirstName, LookPcs, CreatePcs, UnlinkPcs, LockedPcs, RenamePcs
  <2>4. Walk(c)
    BY <1>1, <1>2, <1>3, <2>1 DEF Walk, FirstName, LookPcs, CreatePcs, UnlinkPcs, LockedPcs, RenamePcs
  <2> QED BY <2>2, <2>3, <2>4 DEF CallOK
<1>7. dent' \in [Dentries -> Entry] /\ Lean(dent, dent') /\ Counts(dent', thr')
  <2>1. SameSlots(b, c)
    BY <1>1, <1>2, <1>3, PtrIs DEF SameSlots, Slots, Pointers, LookPcs, CreatePcs, UnlinkPcs, LockedPcs, RenamePcs
  <2> QED BY <1>2, <1>5, <2>1, KeepHandles DEF b, RenameUnlock, SameTree
<1>8. LockChange(t, c) /\ LockTypes'
  <2>1. ContentsChange(t, c)
    <3> DEFINE C == UnlockW(contents, b.fromdir)
    <3>1. contents \in ContentsType /\ contents' = UnlockW(C, b.todir)
      BY <1>1 DEF LockTypes, ContentsType, RenameUnlock, b
    <3>2. C \in ContentsType
      BY <1>2, <3>1, LockOps
    <3>3. \A d \in Dentries : IsLock(C[d], IF d = b.fromdir THEN NoThread ELSE contents[d].w, contents[d].r)
      BY <1>2, <3>1, LockOps
    <3> HIDE DEF C
    <3>4. \A d \in Dentries : IsLock(UnlockW(C, b.todir)[d], IF d = b.todir THEN NoThread ELSE C[d].w, C[d].r)
      BY <1>2, <3>2, LockOps
    <3>5. \A d \in Dentries :
             /\ contents'[d].w = IF d \in {b.fromdir, b.todir} THEN NoThread ELSE contents[d].w
             /\ contents'[d].r = contents[d].r
      BY <3>1, <3>3, <3>4 DEF IsLock
    <3>6. \A d \in Dentries : /\ Writes(b, d) <=> d \in {b.fromdir, b.todir}
                              /\ ~Reads(b, d) /\ ~Reads(c, d) /\ ~Writes(c, d)
      BY <1>1, <1>3 DEF Reads, Writes, LookPcs, CreatePcs, UnlinkPcs, LockedPcs, RenamePcs
    <3>7. \A d \in Dentries : /\ t \in contents[d].r <=> Reads(b, d)
                              /\ contents[d].w = t <=> Writes(b, d)
      BY Mine DEF b
    <3>8. \A d \in Dentries : contents[d].r \ {t} = contents[d].r
      BY <3>6, <3>7
    <3> QED BY <3>5, <3>6, <3>7, <3>8 DEF ContentsChange, b
  <2>2. MetaChange(t, c)
    <3>1. \A d \in Dentries : HasMeta(c, d) <=> HasMeta(b, d)
      BY <1>1, <1>2, <1>3 DEF HasMeta, First, Pointers, LookPcs, CreatePcs, UnlinkPcs, LockedPcs, RenamePcs
    <3> QED BY <3>1, MetaKept DEF b, RenameUnlock, SameLocks
  <2>3. RenameChange(t, c)
    <3>1. Renames(c) <=> Renames(b)
      BY <1>1, <1>2, <1>3 DEF OpsMatch, Renames, LookPcs, CreatePcs, UnlinkPcs, LockedPcs, RenamePcs
    <3> QED BY <3>1, RenameKept DEF b, RenameUnlock, SameLocks
  <2>4. LockTypes'
    <3>1. contents \in ContentsType
      BY <1>1 DEF LockTypes, ContentsType
    <3>2. UnlockW(contents, b.fromdir) \in ContentsType
      BY <1>2, <3>1, LockOps
    <3>3. UnlockW(UnlockW(contents, b.fromdir), b.todir) \in ContentsType
      BY <1>2, <3>2, LockOps
    <3> QED BY <1>1, <3>3 DEF RenameUnlock, b, LockTypes, ContentsType
  <2> QED BY <2>1, <2>2, <2>3, <2>4 DEF LockChange
<1>9. PlaceOK(c, dent)
  <2>1. c.op \in Changing => DirsOnPath(c, dent)
    BY <1>1, <1>2, <1>3 DEF PlaceOK, DirsOnPath
  <2>2. c.op \in Changing => LookupAt(c, dent)
    BY <1>1, <1>2, <1>3 DEF PlaceOK, LookupAt, Target, FirstName, LookPcs, CreatePcs, UnlinkPcs, LockedPcs, RenamePcs
  <2>3. c.op \in Changing => UnlinkAt(c, dent)
    BY <1>1, <1>2, <1>3 DEF PlaceOK, UnlinkAt, LookPcs, CreatePcs, UnlinkPcs, LockedPcs, RenamePcs
  <2>4. c.op \in Changing => RenameAt(c, dent)
    BY <1>1, <1>2, <1>3 DEF PlaceOK, RenameAt, First, Pointers, LookPcs, CreatePcs, UnlinkPcs, LockedPcs, RenamePcs
  <2>5. c.pc = "lk3" => dent[c.par].kids[Head(c.want)] = c.cur
    BY <1>1, <1>3
  <2> QED BY <2>1, <2>2, <2>3, <2>4, <2>5 DEF PlaceOK
<1>11. SameCall(b, c) /\ uidNumber' \in Nat
  BY <1>1, <1>3 DEF SameCall, RenameUnlock, SameTree
<1> QED BY <1>2, <1>4, <1>5, <1>6, <1>7, <1>8, <1>9, <1>11, LeanStep DEF b

\* rename gives its source directory, meta_lock and handle, back.
LEMMA RenameReleaseFromInv ==
    ASSUME TreeInv, NEW t \in TreeThreads, RenameReleaseFrom(t)
    PROVE  TreeInv'
<1> DEFINE b == thr[t]
           next == IF b.todir = b.fromdir THEN "rn10w" ELSE "rn10"
           c == [b EXCEPT !.fromdir = Null, !.pc = next]
<1>1. /\ b \in Call /\ OpsMatch(b) /\ Pointers(b) /\ Walk(b) /\ PlaceOK(b, dent)
      /\ thr \in [TreeThreads -> Call] /\ dent \in [Dentries -> Entry] /\ GoodTree(dent)
      /\ LockTypes /\ uidNumber \in Nat /\ Root \in Dentries /\ Null \notin Dentries
      /\ b.pc = "rn9"
  BY Here DEF RenameReleaseFrom
<1>2. /\ b.op = "rename" /\ b.fromdir \in Dentries /\ b.todir \in Dentries
      /\ next \in {"rn10", "rn10w"} /\ (next = "rn10w" <=> b.todir = b.fromdir)
  BY <1>1 DEF OpsMatch, Pointers, Call, NulOr, LookPcs, CreatePcs, UnlinkPcs, LockedPcs, RenamePcs
<1>5. thr' = [thr EXCEPT ![t] = c] /\ Steps(thr, thr', t, c)
  BY <1>1 DEF RenameReleaseFrom, Goto, Steps
<1> HIDE DEF next
<1>3. /\ c.op = b.op /\ c.path = b.path /\ c.to = b.to
      /\ c.want = b.want /\ c.cur = b.cur /\ c.par = b.par
      /\ c.fromdir = Null /\ c.todir = b.todir /\ c.fromdent = b.fromdent
      /\ c.todent = b.todent /\ c.val = b.val /\ c.ok = b.ok
      /\ c.fh = b.fh /\ c.pc = next
  BY <1>1 DEF Call
<1>4. c \in Call
  <2>1. Null \in NulOr /\ next \in Pcs
    BY <1>2 DEF NulOr, Pcs
  <2> QED BY <1>1, <2>1 DEF Call
<1> HIDE DEF b, c
<1>6. CallOK(c)
  <2>2. OpsMatch(c)
    BY <1>1, <1>2, <1>3 DEF OpsMatch, Changing, LookPcs, CreatePcs, UnlinkPcs, LockedPcs, RenamePcs
  <2>3. Pointers(c)
    BY <1>1, <1>2, <1>3 DEF OpsMatch, Pointers, LookPcs, CreatePcs, UnlinkPcs, LockedPcs, RenamePcs
  <2>4. Walk(c)
    BY <1>1, <1>2, <1>3 DEF Walk, LookPcs
  <2> QED BY <2>2, <2>3, <2>4 DEF CallOK
<1>7. dent' \in [Dentries -> Entry] /\ Lean(dent, dent') /\ Counts(dent', thr')
  <2>1. GiveSlot(b, c, "fromdir", b.fromdir)
    BY <1>1, <1>2, <1>3, PtrIs DEF GiveSlot, TakeSlot, Slots, Pointers, LookPcs, CreatePcs, UnlinkPcs, LockedPcs, RenamePcs
  <2> QED BY <1>2, <1>5, <2>1, ReleaseHandle DEF b, RenameReleaseFrom
<1>8. LockChange(t, c) /\ LockTypes'
  <2>1. ContentsChange(t, c)
    <3>1. \A d \in Dentries : (Reads(c, d) <=> Reads(b, d)) /\ (Writes(c, d) <=> Writes(b, d))
      BY <1>1, <1>2, <1>3 DEF Reads, Writes, LookPcs, CreatePcs, UnlinkPcs, LockedPcs, RenamePcs
    <3> QED BY <3>1, ContentsKept DEF b, RenameReleaseFrom
  <2>2. MetaChange(t, c) /\ meta' \in [Dentries -> Owner]
    <3>1. \A x \in Dentries : HasMeta(b, x) <=> x \in {b.fromdir, b.todir}
      BY <1>1, <1>2 DEF HasMeta, LookPcs, CreatePcs, UnlinkPcs, LockedPcs, RenamePcs
    <3>2. \A x \in Dentries : HasMeta(c, x) <=> x = b.todir /\ x # b.fromdir
      BY <1>2, <1>3 DEF HasMeta, LookPcs, CreatePcs, UnlinkPcs, LockedPcs, RenamePcs
    <3>3. \A x \in Dentries : meta[x] = t <=> HasMeta(b, x)
      BY Mine DEF b
    <3>4. meta' = [meta EXCEPT ![b.fromdir] = NoThread] /\ meta \in [Dentries -> Owner] /\ NoThread \in Owner
      BY <1>1 DEF RenameReleaseFrom, b, LockTypes, Owner
    <3> QED BY <1>2, <3>1, <3>2, <3>3, <3>4 DEF MetaChange, b
  <2>3. RenameChange(t, c)
    <3>1. Renames(c) <=> Renames(b)
      BY <1>1, <1>2, <1>3 DEF Renames
    <3> QED BY <3>1, RenameKept DEF b, RenameReleaseFrom
  <2>4. LockTypes'
    BY <1>1, <2>2 DEF RenameReleaseFrom, LockTypes
  <2> QED BY <2>1, <2>2, <2>3, <2>4 DEF LockChange
<1>9. PlaceOK(c, dent)
  <2>1. c.op \in Changing => DirsOnPath(c, dent)
    BY <1>1, <1>2, <1>3 DEF PlaceOK, DirsOnPath
  <2>2. LookupAt(c, dent) /\ UnlinkAt(c, dent)
    BY <1>2, <1>3 DEF LookupAt, UnlinkAt, UnlinkPcs
  <2>4. c.op \in Changing => RenameAt(c, dent)
    BY <1>1, <1>2, <1>3 DEF PlaceOK, RenameAt, First, Pointers, LookPcs, CreatePcs, UnlinkPcs, LockedPcs, RenamePcs
  <2> QED BY <1>2, <1>3, <2>1, <2>2, <2>4 DEF PlaceOK
<1>11. SameCall(b, c) /\ uidNumber' \in Nat
  BY <1>1, <1>3 DEF SameCall, RenameReleaseFrom
<1> QED BY <1>2, <1>4, <1>5, <1>6, <1>7, <1>8, <1>9, <1>11, LeanStep DEF b

\* Then its target directory and rename_lock, and goes on with the source.
LEMMA RenameReleaseToInv ==
    ASSUME TreeInv, NEW t \in TreeThreads, RenameReleaseTo(t)
    PROVE  TreeInv'
<1> DEFINE b == thr[t]
           next == IF b.ok THEN "close" ELSE "rn11"
           c1 == [b EXCEPT !.todir = Null]
           c == [b EXCEPT !.cur = b.fromdent, !.fromdent = Null, !.todir = Null, !.pc = next]
           T1 == [thr EXCEPT ![t] = c1]
<1>1. /\ b \in Call /\ OpsMatch(b) /\ Pointers(b) /\ Walk(b) /\ PlaceOK(b, dent)
      /\ thr \in [TreeThreads -> Call] /\ dent \in [Dentries -> Entry] /\ GoodTree(dent)
      /\ Counts(dent, thr) /\ LockTypes /\ uidNumber \in Nat /\ Root \in Dentries
      /\ Null \notin Dentries /\ b.pc \in {"rn10", "rn10w"}
  BY Here DEF RenameReleaseTo
<1>2. /\ b.op = "rename" /\ b.todir \in Dentries /\ b.cur = Null /\ b.par = Null
      /\ b.fromdir = Null /\ b.todent = Null /\ b.fromdent \in NulOr
      /\ b.ok <=> b.fromdent # Null
      /\ next \in {"close", "rn11"} /\ (next = "close" <=> b.ok)
      /\ b.ok => b.val = 0
  BY <1>1 DEF OpsMatch, Pointers, Call, NulOr, LookPcs, CreatePcs, UnlinkPcs, LockedPcs, RenamePcs
<1>3. /\ c.op = b.op /\ c.path = b.path /\ c.to = b.to /\ c.want = b.want
      /\ c.cur = b.fromdent /\ c.par = Null /\ c.fromdir = Null /\ c.todir = Null
      /\ c.fromdent = Null /\ c.todent = Null /\ c.val = b.val /\ c.ok = b.ok
      /\ c.fh = b.fh /\ c.pc = next
      /\ c1.op = b.op /\ c1.cur = Null /\ c1.par = Null /\ c1.fromdir = Null /\ c1.todir = Null
      /\ c1.fromdent = b.fromdent /\ c1.todent = Null /\ c1.fh = b.fh /\ c1.pc = b.pc
  BY <1>1, <1>2 DEF Call
<1>4. c \in Call
  <2>1. Null \in NulOr /\ next \in Pcs
    BY <1>2 DEF NulOr, Pcs
  <2> QED BY <1>1, <1>2, <2>1 DEF Call
<1>5. thr' = [thr EXCEPT ![t] = c]
  <2>1. CASE b.ok
    BY <2>1 DEF RenameReleaseTo, Goto
  <2>2. CASE ~b.ok
    <3>1. [b EXCEPT !.todir = Null, !.pc = "rn11"] = c
      BY <1>1, <1>2, <2>2 DEF Call
    <3> QED BY <2>2, <3>1 DEF RenameReleaseTo, Goto
  <2> QED BY <2>1, <2>2
<1>6. Steps(thr, T1, t, c1) /\ Steps(T1, thr', t, c) /\ T1[t] = c1 /\ thr[t] = b
  BY <1>1, <1>5 DEF Steps
<1>7. dent' = Release(dent, b.todir)
  BY DEF RenameReleaseTo
<1> HIDE DEF b, c, c1, T1, next
<1>8. CallOK(c)
  <2>1. OpsMatch(c)
    BY <1>1, <1>2, <1>3 DEF OpsMatch, Changing, LookPcs, CreatePcs, UnlinkPcs, LockedPcs, RenamePcs
  <2>2. Pointers(c)
    BY <1>1, <1>2, <1>3 DEF Pointers, LookPcs, CreatePcs, UnlinkPcs, LockedPcs, RenamePcs
  <2>3. Walk(c)
    BY <1>2, <1>3 DEF Walk, LookPcs
  <2> QED BY <2>1, <2>2, <2>3 DEF CallOK
<1>9. dent' \in [Dentries -> Entry] /\ Lean(dent, dent') /\ Counts(dent', T1)
  <2>1. GiveSlot(b, c1, "todir", b.todir)
    BY <1>1, <1>2, <1>3, PtrIs DEF GiveSlot, TakeSlot, Slots
  <2> QED BY <1>1, <1>2, <1>6, <1>7, <2>1, Released
<1>10. Counts(dent', thr')
  <2>1. PassSlot(c1, c, "fromdent", "cur")
    BY <1>1, <1>2, <1>3, PtrIs DEF PassSlot, Slots
  <2> QED BY <1>6, <1>9, <2>1, CountsPass
<1>11. LockChange(t, c) /\ LockTypes'
  <2>1. \A d \in Dentries : /\ ~Reads(b, d) /\ ~Writes(b, d) /\ ~Reads(c, d) /\ ~Writes(c, d) /\ ~HasMeta(c, d)
                            /\ HasMeta(b, d) <=> b.pc = "rn10" /\ d = b.todir
    BY <1>1, <1>2, <1>3 DEF Reads, Writes, HasMeta, LookPcs, CreatePcs, UnlinkPcs, LockedPcs, RenamePcs
  <2>2. ContentsChange(t, c)
    BY <2>1, ContentsKept DEF RenameReleaseTo, b
  <2>3. MetaChange(t, c) /\ meta' \in [Dentries -> Owner]
    <3>1. \A d \in Dentries : meta[d] = t <=> HasMeta(b, d)
      BY Mine DEF b
    <3>2. meta' = [meta EXCEPT ![b.todir] = NoThread] /\ meta \in [Dentries -> Owner] /\ NoThread \in Owner
      BY <1>1 DEF RenameReleaseTo, b, LockTypes, Owner
    <3>3. b.pc = "rn10w" => meta[b.todir] = NoThread
      BY DEF RenameReleaseTo, MetaFree, b
    <3> QED BY <1>1, <1>2, <2>1, <3>1, <3>2, <3>3 DEF MetaChange, b
  <2>4. RenameChange(t, c)
    <3>1. Renames(b) /\ ~Renames(c)
      BY <1>1, <1>2, <1>3 DEF Renames
    <3>2. renameLock = t
      BY <3>1 DEF TreeInv, LocksTrue, RenameLocked, b
    <3> QED BY <3>1, <3>2 DEF RenameReleaseTo, RenameChange
  <2>5. LockTypes'
    BY <1>1, <2>3 DEF RenameReleaseTo, LockTypes, Owner
  <2> QED BY <2>2, <2>3, <2>4, <2>5 DEF LockChange
<1>12. PlaceOK(c, dent)
  <2>1. c.op \in Changing => DirsOnPath(c, dent)
    BY <1>1, <1>2, <1>3 DEF PlaceOK, DirsOnPath
  <2>2. LookupAt(c, dent) /\ UnlinkAt(c, dent)
    BY <1>2, <1>3 DEF LookupAt, UnlinkAt, UnlinkPcs
  <2>3. c.op \in Changing => RenameAt(c, dent)
    BY <1>1, <1>2, <1>3 DEF PlaceOK, RenameAt
  <2> QED BY <1>2, <1>3, <2>1, <2>2, <2>3 DEF PlaceOK
<1>13. SameCall(b, c) /\ uidNumber' \in Nat
  BY <1>1, <1>3 DEF SameCall, RenameReleaseTo
<1> QED BY <1>2, <1>4, <1>5, <1>8, <1>9, <1>10, <1>11, <1>12, <1>13, LeanStep DEF b

\* A rename that failed has read the uid of its source and returns.
LEMMA RenameIdInv ==
    ASSUME TreeInv, NEW t \in TreeThreads, RenameId(t)
    PROVE  TreeInv'
<1> DEFINE b == thr[t]
           c == Quiet(b.fh)
<1>1. /\ b \in Call /\ OpsMatch(b) /\ Pointers(b) /\ Walk(b) /\ PlaceOK(b, dent)
      /\ thr \in [TreeThreads -> Call] /\ dent \in [Dentries -> Entry] /\ GoodTree(dent)
      /\ LockTypes /\ uidNumber \in Nat /\ Root \in Dentries /\ Null \notin Dentries
      /\ b.pc = "rn11"
  BY Here DEF RenameId
<1>2. /\ b.op # "none" /\ b.fh \in NulOr
      /\ b.op = "rename"
  BY <1>1 DEF OpsMatch, Pointers, Call, NulOr, LookPcs, CreatePcs, UnlinkPcs, LockedPcs, RenamePcs
<1>3. \A k \in Slots : Ptr(c, k) = IF k = "fh" THEN b.fh ELSE Null
  BY <1>2, QuietOK
<1>4. thr' = [thr EXCEPT ![t] = c] /\ Steps(thr, thr', t, c)
  BY <1>1 DEF RenameId, End, Goto, Steps
<1> HIDE DEF c, b
<1>5. dent' \in [Dentries -> Entry] /\ Lean(dent, dent') /\ Counts(dent', thr')
  <2>1. SameSlots(b, c)
    BY <1>1, <1>2, <1>3, PtrIs DEF SameSlots, Slots, OpsMatch, Pointers, LookPcs, CreatePcs, UnlinkPcs, LockedPcs, RenamePcs
  <2> QED BY <1>4, <2>1, KeepHandles DEF b, RenameId, SameTree
<1>6. \A x \in Dentries : ~Reads(b, x) /\ ~Writes(b, x) /\ ~HasMeta(b, x)
  BY <1>1, <1>2 DEF Reads, Writes, HasMeta, LookPcs, CreatePcs, UnlinkPcs, LockedPcs, RenamePcs
<1>7. renameLock' = (IF Renames(b) THEN NoThread ELSE renameLock) /\ renameLock' \in Owner
  BY <1>1, <1>2 DEF b, RenameId, Renames, SameLocks, LockTypes, Owner
<1>8. UNCHANGED <<contents, meta>> /\ uidNumber' \in Nat
  BY <1>1 DEF RenameId, SameLocks, SameTree
<1> QED BY <1>2, <1>4, <1>5, <1>6, <1>7, <1>8, EndStep DEF b, c

-----------------------------------------------------------------------------
(* Steps that change name tables: only at the entries of the call's paths. *)

\* A path that is neither one of R nor below one resolves as before.
LEMMA ResolveStable ==
    ASSUME NEW D \in [Dentries -> Entry], NEW E \in [Dentries -> Entry], GoodTree(D), GoodTree(E),
           NEW R, R \subseteq Paths \ {<<>>}, Local(D, E, R),
           NEW p \in Paths, p \notin R, p = <<>> \/ Front(p) \notin R
    PROVE  ResolveIn(E, p) = ResolveIn(D, p)
<1>0. Null \notin Dentries /\ Root \in Dentries /\ <<>> \in Paths
  BY Memory, ShortPaths
<1>1. ASSUME NEW q \in Paths, q # <<>>, q \notin R,
             ResolveIn(E, Front(q)) = ResolveIn(D, Front(q))
      PROVE  ResolveIn(E, q) = ResolveIn(D, q)
  <2> DEFINE d == ResolveIn(D, Front(q))
  <2>1. Front(q) \in Paths /\ Last(q) \in FileNames
    BY <1>1, PathParts
  <2>2. CASE d = Null
    BY <1>1, <2>2, ResolveParts
  <2>3. CASE d # Null
    <3>1. d \in Dentries
      BY <2>1, <2>3, ResolveType
    <3>2. ResolveIn(D, q) = D[d].kids[Last(q)] /\ ResolveIn(E, q) = E[d].kids[Last(q)]
      BY <1>1, <2>3, ResolveParts
    <3>3. SUFFICES ASSUME NEW r \in R, d = ResolveIn(D, Front(r)), Last(q) = Last(r)
                   PROVE  FALSE
      BY <2>1, <3>1, <3>2 DEF Local
    <3>4. r \in Paths /\ r # <<>> /\ Front(r) \in Paths
      BY PathParts
    <3>5. Front(r) = Front(q)
      BY <2>1, <2>3, <3>3, <3>4, ResolveInjective
    <3> QED BY <1>1, <3>3, <3>4, <3>5, PathEqual
  <2> QED BY <2>2, <2>3
<1>2. ResolveIn(E, <<>>) = ResolveIn(D, <<>>)
  BY DEF ResolveIn
<1>3. CASE p = <<>>
  BY <1>2, <1>3
<1>4. CASE p # <<>>
  <2>1. Front(p) \in Paths /\ (Front(p) = <<>> \/ (Front(p) = <<p[1]>> /\ p[1] \in FileNames))
    BY <1>4, PathParts
  <2>2. ResolveIn(E, Front(p)) = ResolveIn(D, Front(p))
    <3>1. CASE Front(p) = <<>>
      BY <1>2, <3>1
    <3>2. CASE Front(p) = <<p[1]>> /\ p[1] \in FileNames
      <4>1. Front(p) # <<>> /\ Front(Front(p)) = <<>>
        BY <3>2, ShortPaths
      <4> QED BY <1>1, <1>2, <1>4, <2>1, <4>1
    <3> QED BY <2>1, <3>1, <3>2
  <2> QED BY <1>1, <1>4, <2>2
<1> QED BY <1>3, <1>4

\* A directory that no path of R ends in keeps its entries.
LEMMA KidsStable ==
    ASSUME NEW D \in [Dentries -> Entry], NEW E \in [Dentries -> Entry], GoodTree(D), GoodTree(E),
           NEW R, R \subseteq Paths \ {<<>>}, Local(D, E, R), NEW p \in Paths,
           ResolveIn(D, p) # Null, \A r \in R : Front(r) # p
    PROVE  Kids(E, ResolveIn(D, p)) = Kids(D, ResolveIn(D, p))
<1> DEFINE d == ResolveIn(D, p)
<1>1. d \in Dentries
  BY ResolveType
<1>2. ASSUME NEW n \in FileNames PROVE E[d].kids[n] = D[d].kids[n]
  <2> SUFFICES ASSUME NEW r \in R, d = ResolveIn(D, Front(r)) PROVE FALSE
    BY <1>1 DEF Local
  <2>1. Front(r) \in Paths
    BY PathParts
  <2>2. Front(r) = p
    BY <2>1, ResolveInjective
  <2> QED BY <2>2
<1> QED BY <1>2 DEF Kids

\* A call whose paths the kernel keeps apart from R stays where it is.
LEMMA OthersPlace ==
    ASSUME NEW D \in [Dentries -> Entry], NEW E \in [Dentries -> Entry], GoodTree(D), GoodTree(E),
           NEW R, R \subseteq Paths \ {<<>>}, Local(D, E, R),
           NEW c \in Call, CallOK(c), PlaceOK(c, D),
           \A r \in R : r \notin BusyC(c) /\ Front(r) \notin BusyC(c),
           c.pc = "lk3" => E[c.par].kids = D[c.par].kids
    PROVE  PlaceOK(c, E)
<1>0. /\ OpsMatch(c) /\ Pointers(c) /\ Walk(c) /\ c.path \in Paths /\ c.to \in Paths
      /\ Null \notin Dentries
  BY Memory DEF CallOK, Call
<1>1. ASSUME NEW p \in Paths, p # <<>>, p \in BusyC(c), Front(p) \in BusyC(c)
      PROVE  /\ Front(p) \in Paths
             /\ ResolveIn(E, p) = ResolveIn(D, p) /\ ResolveIn(E, Front(p)) = ResolveIn(D, Front(p))
             /\ ResolveIn(D, p) # Null => Kids(E, ResolveIn(D, p)) = Kids(D, ResolveIn(D, p))
             /\ ResolveIn(D, Front(p)) # Null =>
                   E[ResolveIn(D, Front(p))].isdir = D[ResolveIn(D, Front(p))].isdir
  <2>1. /\ Front(p) \in Paths
        /\ Front(p) = <<>> \/ (Front(p) # <<>> /\ Front(Front(p)) = <<>>)
    BY <1>1, PathParts, ShortPaths
  <2>2. p \notin R /\ Front(p) \notin R /\ (\A r \in R : Front(r) # p) /\ <<>> \notin R
    BY <1>1
  <2>3. ResolveIn(E, p) = ResolveIn(D, p)
    BY <1>1, <2>2, ResolveStable
  <2>4. ResolveIn(E, Front(p)) = ResolveIn(D, Front(p))
    BY <2>1, <2>2, ResolveStable
  <2>5. ResolveIn(D, p) # Null => Kids(E, ResolveIn(D, p)) = Kids(D, ResolveIn(D, p))
    BY <2>2, KidsStable
  <2>6. ASSUME ResolveIn(D, Front(p)) # Null
        PROVE  E[ResolveIn(D, Front(p))].isdir = D[ResolveIn(D, Front(p))].isdir
    <3>1. ResolveIn(D, Front(p)) \in Dentries /\ D[ResolveIn(D, Front(p))].alive
      BY <2>1, <2>6, ResolveType
    <3>2. E[ResolveIn(D, Front(p))].alive
      BY <2>1, <2>4, <2>6, ResolveType
    <3> QED BY <3>1, <3>2 DEF Local
  <2> QED BY <2>1, <2>3, <2>4, <2>5, <2>6
<1>2. c.op \in Changing => c.path # <<>> /\ c.path \in BusyC(c) /\ Front(c.path) \in BusyC(c)
  BY <1>0 DEF OpsMatch, BusyC, Busy, Changing
<1>3. /\ c.op = "rename" => c.to # <<>> /\ c.to \in BusyC(c) /\ Front(c.to) \in BusyC(c)
      /\ c.op # "rename" => c.to = <<>>
  BY <1>0 DEF OpsMatch, BusyC, Busy
<1>4. c.op \in Changing =>
         /\ ResolveIn(E, c.path) = ResolveIn(D, c.path)
         /\ ResolveIn(E, Front(c.path)) = ResolveIn(D, Front(c.path))
         /\ ResolveIn(D, c.path) # Null => Kids(E, ResolveIn(D, c.path)) = Kids(D, ResolveIn(D, c.path))
         /\ ResolveIn(D, Front(c.path)) # Null =>
               E[ResolveIn(D, Front(c.path))].isdir = D[ResolveIn(D, Front(c.path))].isdir
  BY <1>0, <1>1, <1>2
<1>5. c.op = "rename" =>
         /\ ResolveIn(E, c.to) = ResolveIn(D, c.to)
         /\ ResolveIn(E, Front(c.to)) = ResolveIn(D, Front(c.to))
         /\ ResolveIn(D, c.to) # Null => Kids(E, ResolveIn(D, c.to)) = Kids(D, ResolveIn(D, c.to))
         /\ ResolveIn(D, Front(c.to)) # Null =>
               E[ResolveIn(D, Front(c.to))].isdir = D[ResolveIn(D, Front(c.to))].isdir
  BY <1>0, <1>1, <1>3
<1>6. c.op \in Changing => DirsOnPath(c, E)
  BY <1>2, <1>3, <1>4, <1>5 DEF PlaceOK, DirsOnPath
<1>7. c.op \in Changing => LookupAt(c, E)
  <2>1. SUFFICES ASSUME c.op \in Changing PROVE LookupAt(c, E)
    OBVIOUS
  <2>2. Target(c) \in {c.path, Front(c.path)} \/ (c.op = "rename" /\ Target(c) = Front(c.to))
    BY <2>1 DEF Target, Changing
  <2>3. ResolveIn(E, Target(c)) = ResolveIn(D, Target(c))
    BY <1>4, <1>5, <2>1, <2>2
  <2>4. ASSUME c.pc \in {"lk1", "lk2", "lk3"}, ~FirstName(c)
        PROVE  ResolveIn(E, <<Target(c)[1]>>) = ResolveIn(D, <<Target(c)[1]>>)
    <3>1. Len(Target(c)) = 2
      BY <1>0, <2>4 DEF Walk, LookPcs
    <3>2. Target(c) = c.path
      <4>1. \A p \in Paths : p # <<>> => Len(Front(p)) # 2
        <5>1. ASSUME NEW p \in Paths, p # <<>> PROVE Len(Front(p)) # 2
          <6>1. Front(p) = <<>> \/ (Front(p) = <<p[1]>> /\ p[1] \in FileNames)
            BY <5>1, PathParts
          <6>2. Len(<<p[1]>>) # 2 /\ Len(<<>>) # 2
            OBVIOUS
          <6> QED BY <6>1, <6>2
        <5> QED BY <5>1
      <4> QED BY <1>0, <1>2, <1>3, <2>1, <2>2, <3>1, <4>1
    <3>3. Front(c.path) = <<Target(c)[1]>>
      BY <1>0, <1>2, <2>1, <3>1, <3>2, PathParts
    <3> QED BY <1>4, <2>1, <3>3
  <2> QED BY <1>4, <2>1, <2>3, <2>4 DEF PlaceOK, LookupAt
<1>8. c.op \in Changing => UnlinkAt(c, E)
  <2>1. SUFFICES ASSUME c.op \in Changing PROVE UnlinkAt(c, E)
    OBVIOUS
  <2>2. UnlinkAt(c, D)
    BY <2>1 DEF PlaceOK
  <2>3. c.pc \in UnlinkPcs => c.cur # Null
    BY <1>0 DEF Pointers
  <2>4. c.pc \in UnlinkPcs \ {"un3"} => Kids(E, c.cur) = Kids(D, c.cur)
    BY <1>4, <2>1, <2>2, <2>3 DEF UnlinkAt
  <2> QED BY <1>4, <2>1, <2>2, <2>4 DEF UnlinkAt, UnlinkPcs
<1>9. c.op \in Changing => RenameAt(c, E)
  <2>1. SUFFICES ASSUME c.op \in Changing PROVE RenameAt(c, E)
    OBVIOUS
  <2>2. RenameAt(c, D)
    BY <2>1 DEF PlaceOK
  <2>3. CASE c.op = "rename"
    <3>1. c.pc = "rn6" /\ c.todent \notin {Null, c.fromdent} => Kids(E, c.todent) = Kids(D, c.todent)
      BY <1>5, <2>2, <2>3 DEF RenameAt
    <3> QED BY <1>4, <1>5, <2>1, <2>2, <2>3, <3>1 DEF RenameAt
  <2>4. CASE c.op # "rename"
    <3>1. /\ c.fromdir = Null /\ c.todir = Null /\ c.fromdent = Null /\ c.todent = Null
          /\ c.pc \notin RenamePcs
      BY <1>0, <2>4 DEF OpsMatch, Pointers, RenamePcs, LockedPcs
    <3> QED BY <2>4, <3>1 DEF RenameAt, RenamePcs, LockedPcs
  <2> QED BY <2>3, <2>4
<1> QED BY <1>6, <1>7, <1>8, <1>9 DEF PlaceOK

\* A step that changes name tables: the directories concerned are locked for
\* writing, and the kernel keeps every other call away from the paths R.
LEMMA ShapeStep ==
    ASSUME TreeInv, NEW t \in TreeThreads, NEW c \in Call, thr' = [thr EXCEPT ![t] = c],
           thr[t].op # "none", SameCall(thr[t], c), CallOK(c),
           dent' \in [Dentries -> Entry], GoodTree(dent'), Counts(dent', thr'),
           LockTypes', uidNumber' \in Nat, LockChange(t, c), PlaceOK(c, dent'),
           NEW R, R \subseteq Paths \ {<<>>}, Local(dent, dent', R),
           \A r \in R : /\ r \in BusyC(thr[t]) /\ Front(r) \in BusyC(thr[t])
                        /\ Writes(thr[t], ResolveIn(dent, Front(r)))
    PROVE  TreeInv'
<1>0. thr \in [TreeThreads -> Call] /\ dent \in [Dentries -> Entry] /\ GoodTree(dent) /\ LockTypes
  BY DEF TreeInv, TreeTypes, LockTypes
<1>1. Steps(thr, thr', t, c) /\ thr'[t] = c /\ \A u \in TreeThreads : u # t => thr'[u] = thr[u]
  BY <1>0 DEF Steps
<1>2. TreeTypes'
  BY <1>0 DEF TreeTypes, LockTypes
<1>3. \A u \in TreeThreads : CallOK(thr'[u])
  BY <1>1 DEF TreeInv
<1>4. LocksTrue'
  BY <1>0, <1>1, LocksStep DEF TreeInv
<1>5. ASSUME NEW u \in TreeThreads, u # t, thr[u].pc = "lk3"
      PROVE  dent'[thr[u].par].kids = dent[thr[u].par].kids
  <2> DEFINE p == thr[u].par
  <2>1. p \in Dentries /\ thr[u] \in Call
    BY <1>0, <1>5 DEF TreeInv, CallOK, Pointers, Call, NulOr, CreatePcs, UnlinkPcs
  <2>2. Reads(thr[u], p) \/ Writes(thr[u], p)
    BY <1>5 DEF Reads, Writes
  <2>3. u \in contents[p].r \/ contents[p].w = u
    BY <2>1, <2>2 DEF TreeInv, LocksTrue, ReadLocks, WriteLocks
  <2>4. contents[p].w # t
    BY <1>5, <2>1, <2>3, TreeAssumption DEF TreeInv, LocksTrue, OneKind
  <2>5. ~Writes(thr[t], p)
    BY <2>1, <2>4 DEF TreeInv, LocksTrue, WriteLocks
  <2>6. \A n \in FileNames : dent'[p].kids[n] = dent[p].kids[n]
    BY <2>1, <2>5 DEF Local
  <2>7. dent[p].kids \in [FileNames -> NulOr] /\ dent'[p].kids \in [FileNames -> NulOr]
    BY <1>0, <2>1 DEF Entry
  <2> QED BY <2>6, <2>7
<1>6. ASSUME NEW u \in TreeThreads, u # t PROVE PlaceOK(thr[u], dent')
  <2>1. thr[u] \in Call /\ CallOK(thr[u]) /\ PlaceOK(thr[u], dent)
    BY <1>0 DEF TreeInv
  <2>2. BusyC(thr[t]) \cap BusyC(thr[u]) = {}
    BY <1>6 DEF TreeInv, Apart
  <2>3. \A r \in R : r \notin BusyC(thr[u]) /\ Front(r) \notin BusyC(thr[u])
    BY <2>2
  <2>4. thr[u].pc = "lk3" => dent'[thr[u].par].kids = dent[thr[u].par].kids
    BY <1>5, <1>6
  <2> QED BY <1>0, <2>1, <2>3, <2>4, OthersPlace
<1>8. Apart'
  BY <1>1, KernelStep
<1>9. \A u \in TreeThreads : PlaceOK(thr'[u], dent')
  BY <1>1, <1>6
<1> QED BY <1>2, <1>3, <1>4, <1>8, <1>9 DEF TreeInv

\* An entry of a directory leaves it.
LEMMA DetachTree ==
    ASSUME NEW D \in [Dentries -> Entry], GoodTree(D), NEW p \in Dentries, NEW d \in Dentries,
           D[d].parent = p, Kids(D, d) = {}, NEW E, E = Detach(D, p, d)
    PROVE  /\ E \in [Dentries -> Entry] /\ GoodTree(E) /\ TreeHandle(E, d) = 0
           /\ \A T : Counts(D, T) => Counts(E, T)
           /\ D[d].name \in FileNames /\ E[p].kids[D[d].name] = Null
           /\ \A e \in Dentries, n \in FileNames :
                 E[e].kids[n] = D[e].kids[n] \/ (e = p /\ n = D[d].name)
           /\ \A e \in Dentries : E[e].isdir = D[e].isdir
<1>0. Null \notin Dentries /\ Root \in Dentries
  BY Memory
<1>1. /\ D[d].name \in FileNames /\ D[p].kids[D[d].name] = d
      /\ D[d].alive /\ D[p].alive
  <2>1. D[d].name \in FileNames /\ D[p].kids[D[d].name] = d
    BY <1>0 DEF GoodTree
  <2>2. D[d].alive
    BY <1>0, <2>1 DEF GoodTree
  <2>3. \A n \in FileNames : Blank.kids[n] = Null
    BY DEF Blank
  <2> QED BY <1>0, <2>1, <2>2, <2>3 DEF GoodTree
<1>2. d # Root /\ p # d
  BY <1>0, <1>1 DEF GoodTree, Kids
<1>3. D[p] \in Entry /\ D[d] \in Entry
  OBVIOUS
<1>4. D[p].lc \in Int /\ D[d].lc \in Int /\ D[d].nh \in Int /\ D[p].kids \in [FileNames -> NulOr]
  BY <1>3 DEF Entry
<1> DEFINE n0 == D[d].name
           k == [D[p].kids EXCEPT ![n0] = Null]
           l == IF D[d].isdir THEN D[p].lc - 1 ELSE D[p].lc
           ep == [D[p] EXCEPT !.kids = k, !.lc = l]
           ed == [D[d] EXCEPT !.deleted = TRUE, !.parent = Null, !.lc = D[d].lc - 1, !.nh = D[d].nh - 1]
<1>5. E = [D EXCEPT ![p] = ep, ![d] = ed]
  BY <1>2, <1>3 DEF Detach
<1>6. /\ k \in [FileNames -> NulOr] /\ k[n0] = Null /\ \A n \in FileNames : n # n0 => k[n] = D[p].kids[n]
      /\ l \in Int /\ D[d].lc - 1 \in Int /\ D[d].nh - 1 \in Int
  BY <1>1, <1>4 DEF NulOr
<1>7. ep \in Entry /\ ep.kids = k /\ ep.alive = D[p].alive /\ ep.isdir = D[p].isdir
      /\ ep.parent = D[p].parent /\ ep.name = D[p].name /\ ep.nh = D[p].nh
  <2> HIDE DEF k, l
  <2> QED BY <1>3, <1>6 DEF Entry
<1>8. ed \in Entry /\ ed.kids = D[d].kids /\ ed.alive = D[d].alive /\ ed.isdir = D[d].isdir
      /\ ed.parent = Null /\ ed.name = D[d].name /\ ed.nh = D[d].nh - 1
  <2>1. Null \in NulOr /\ TRUE \in BOOLEAN
    BY DEF NulOr
  <2> QED BY <1>3, <1>6, <2>1 DEF Entry
<1> HIDE DEF ep, ed
<1>9. /\ E \in [Dentries -> Entry] /\ E[p] = ep /\ E[d] = ed
      /\ \A e \in Dentries : e \notin {p, d} => E[e] = D[e]
  BY <1>2, <1>5, <1>7, <1>8
<1> HIDE DEF k, l
<1>10. \A e \in Dentries : /\ E[e].alive = D[e].alive /\ E[e].isdir = D[e].isdir /\ E[e].name = D[e].name
                           /\ e # d => E[e].parent = D[e].parent /\ E[e].nh = D[e].nh
                           /\ e # p => E[e].kids = D[e].kids
  BY <1>7, <1>8, <1>9
<1>11. E[d].parent = Null /\ E[d].nh = D[d].nh - 1 /\ E[p].kids = k
  BY <1>7, <1>8, <1>9
<1>12. \A e \in Dentries, n \in FileNames : E[e].kids[n] = D[e].kids[n] \/ (e = p /\ n = n0)
  BY <1>6, <1>10, <1>11
<1>13. GoodTree(E)
  <2>1. E[Root].alive /\ E[Root].isdir /\ E[Root].parent = Null
    BY <1>0, <1>2, <1>10 DEF GoodTree
  <2>2. \A e \in Dentries : ~E[e].alive => E[e] = Blank
    BY <1>1, <1>9, <1>10 DEF GoodTree
  <2>3. ASSUME NEW e \in Dentries, NEW n \in FileNames, E[e].kids[n] # Null
        PROVE  /\ E[E[e].kids[n]].alive /\ E[E[e].kids[n]].parent = e
               /\ E[E[e].kids[n]].name = n /\ E[e].isdir /\ (e = Root \/ E[e].parent # Null)
    <3>1. E[e].kids[n] = D[e].kids[n] /\ ~(e = p /\ n = n0)
      BY <2>3, <1>6, <1>11, <1>12
    <3> DEFINE x == D[e].kids[n]
    <3>2. x \in Dentries
      <4>1. x \in NulOr
        BY DEF Entry
      <4> QED BY <4>1, <2>3, <3>1 DEF NulOr
    <3>3. D[x].alive /\ D[x].parent = e /\ D[x].name = n /\ D[e].isdir /\ (e = Root \/ D[e].parent # Null)
      BY <2>3, <3>1 DEF GoodTree
    <3>4. x # d
      BY <3>1, <3>3
    <3>5. e # d
      BY <2>3, <3>1 DEF Kids
    <3> HIDE DEF x
    <3>6. E[x].alive /\ E[x].parent = e /\ E[x].name = n
      BY <3>2, <3>3, <3>4, <1>10
    <3> QED BY <3>1, <3>3, <3>5, <3>6, <1>10 DEF x
  <2>4. ASSUME NEW e \in Dentries, E[e].parent # Null
        PROVE  E[e].name \in FileNames /\ E[E[e].parent].kids[E[e].name] = e
    <3>1. e # d /\ E[e].parent = D[e].parent /\ E[e].name = D[e].name
      BY <2>4, <1>10, <1>11
    <3>2. D[e].name \in FileNames /\ D[D[e].parent].kids[D[e].name] = e /\ D[e].parent \in Dentries
      <4>1. D[e].parent \in NulOr
        BY DEF Entry
      <4> QED BY <2>4, <3>1, <4>1 DEF GoodTree, NulOr
    <3>3. ~(D[e].parent = p /\ D[e].name = n0)
      BY <3>1, <3>2, <1>1
    <3> QED BY <3>1, <3>2, <3>3, <1>12
  <2> QED BY <2>1, <2>2, <2>3, <2>4 DEF GoodTree
<1>14. TreeHandle(E, d) = 0 /\ TreeHandle(D, d) = 1
       /\ \A e \in Dentries : e # d => TreeHandle(E, e) = TreeHandle(D, e)
  BY <1>0, <1>2, <1>10, <1>11 DEF TreeHandle
<1>15. ASSUME NEW T, Counts(D, T) PROVE Counts(E, T)
  <2>1. D[d].nh = Cardinality(Holders(T, d)) + 1
    BY <1>1, <1>14, <1>15 DEF Counts
  <2>2. E[d].nh = Cardinality(Holders(T, d)) + TreeHandle(E, d)
    BY <2>1, <1>11, <1>14, SlotsFinite
  <2>3. ASSUME NEW e \in Dentries, e # d
        PROVE  IF E[e].alive THEN E[e].nh = Cardinality(Holders(T, e)) + TreeHandle(E, e)
               ELSE Holders(T, e) = {}
    <3>1. E[e].alive = D[e].alive /\ E[e].nh = D[e].nh /\ TreeHandle(E, e) = TreeHandle(D, e)
      BY <1>10, <1>14, <2>3
    <3>2. IF D[e].alive THEN D[e].nh = Cardinality(Holders(T, e)) + TreeHandle(D, e)
          ELSE Holders(T, e) = {}
      BY <1>15 DEF Counts
    <3> QED BY <3>1, <3>2
  <2>4. E[d].alive
    BY <1>1, <1>10
  <2> QED BY <2>2, <2>3, <2>4 DEF Counts
<1> QED BY <1>1, <1>6, <1>9, <1>10, <1>11, <1>12, <1>13, <1>14, <1>15

\* A new entry for a directory that is part of the tree.
LEMMA InsertTree ==
    ASSUME NEW D \in [Dentries -> Entry], GoodTree(D), NEW p \in Dentries, NEW d \in Dentries,
           NEW n0 \in FileNames, NEW l \in Int, NEW ed \in Entry,
           ~D[d].alive, D[p].alive, D[p].isdir, p = Root \/ D[p].parent # Null,
           D[p].kids[n0] = Null,
           ed.alive, ed.parent = p, ed.name = n0, ed.kids = Blank.kids,
           NEW E, Inserted(D, E, p, n0, d, l, ed)
    PROVE  /\ E \in [Dentries -> Entry] /\ GoodTree(E) /\ TreeHandle(E, d) = 1 /\ E[d] = ed
           /\ \A e \in Dentries : e # d => /\ E[e].alive = D[e].alive /\ E[e].nh = D[e].nh
                                           /\ TreeHandle(E, e) = TreeHandle(D, e)
           /\ \A e \in Dentries, n \in FileNames :
                 E[e].kids[n] = D[e].kids[n] \/ (e = p /\ n = n0)
           /\ \A e \in Dentries : e # d => E[e].isdir = D[e].isdir
<1>0. Null \notin Dentries /\ Root \in Dentries
  BY Memory
<1>1. D[d] = Blank /\ d # Root /\ p # d
  BY DEF GoodTree
<1>3. D[p] \in Entry /\ D[d] \in Entry
  OBVIOUS
<1>4. D[p].kids \in [FileNames -> NulOr] /\ d \in NulOr
  BY <1>3 DEF Entry, NulOr
<1> DEFINE k == [D[p].kids EXCEPT ![n0] = d]
           ep == [D[p] EXCEPT !.kids = k, !.lc = l]
<1>5. E = [D EXCEPT ![d] = ed, ![p] = ep]
  BY <1>1, <1>3 DEF Inserted
<1>6. k \in [FileNames -> NulOr] /\ k[n0] = d /\ \A n \in FileNames : n # n0 => k[n] = D[p].kids[n]
  BY <1>4
<1>7. ep \in Entry /\ ep.kids = k /\ ep.alive = D[p].alive /\ ep.isdir = D[p].isdir
      /\ ep.parent = D[p].parent /\ ep.name = D[p].name /\ ep.nh = D[p].nh
  <2> HIDE DEF k
  <2> QED BY <1>3, <1>6 DEF Entry
<1> HIDE DEF ep
<1>9. /\ E \in [Dentries -> Entry] /\ E[p] = ep /\ E[d] = ed
      /\ \A e \in Dentries : e \notin {p, d} => E[e] = D[e]
  BY <1>1, <1>5, <1>7
<1> HIDE DEF k
<1>10. \A e \in Dentries : /\ e # d => /\ E[e].alive = D[e].alive /\ E[e].isdir = D[e].isdir
                                       /\ E[e].name = D[e].name
                                       /\ E[e].parent = D[e].parent /\ E[e].nh = D[e].nh
                           /\ e \notin {p, d} => E[e].kids = D[e].kids
  BY <1>7, <1>9
<1>11. E[p].kids = k /\ E[d].kids = D[d].kids
  BY <1>1, <1>7, <1>9
<1>12. \A e \in Dentries, n \in FileNames : E[e].kids[n] = D[e].kids[n] \/ (e = p /\ n = n0)
  BY <1>6, <1>10, <1>11
<1>16. \A n \in FileNames : D[d].kids[n] = Null
  <2>1. \A n \in FileNames : Blank.kids[n] = Null
    BY DEF Blank
  <2> QED BY <1>1, <2>1
<1>13. GoodTree(E)
  <2>1. E[Root].alive /\ E[Root].isdir /\ E[Root].parent = Null
    BY <1>0, <1>1, <1>10 DEF GoodTree
  <2>2. \A e \in Dentries : ~E[e].alive => E[e] = Blank
    BY <1>9, <1>10 DEF GoodTree
  <2>3. ASSUME NEW e \in Dentries, NEW n \in FileNames, E[e].kids[n] # Null
        PROVE  /\ E[E[e].kids[n]].alive /\ E[E[e].kids[n]].parent = e
               /\ E[E[e].kids[n]].name = n /\ E[e].isdir /\ (e = Root \/ E[e].parent # Null)
    <3>1. CASE e = p /\ n = n0
      <4>1. E[e].kids[n] = d
        BY <3>1, <1>6, <1>11
      <4> QED BY <3>1, <4>1, <1>1, <1>9, <1>10
    <3>2. CASE ~(e = p /\ n = n0)
      <4>1. E[e].kids[n] = D[e].kids[n]
        BY <3>2, <1>12
      <4> DEFINE x == D[e].kids[n]
      <4>2. x \in Dentries
        <5>1. x \in NulOr
          BY DEF Entry
        <5> QED BY <5>1, <2>3, <4>1 DEF NulOr
      <4>3. D[x].alive /\ D[x].parent = e /\ D[x].name = n /\ D[e].isdir /\ (e = Root \/ D[e].parent # Null)
        BY <2>3, <4>1 DEF GoodTree
      <4>4. x # d /\ e # d
        BY <2>3, <4>1, <4>3, <1>16
      <4> HIDE DEF x
      <4>6. E[x].alive /\ E[x].parent = e /\ E[x].name = n
        BY <4>2, <4>3, <4>4, <1>10
      <4> QED BY <4>1, <4>3, <4>4, <4>6, <1>10 DEF x
    <3> QED BY <3>1, <3>2
  <2>4. ASSUME NEW e \in Dentries, E[e].parent # Null
        PROVE  E[e].name \in FileNames /\ E[E[e].parent].kids[E[e].name] = e
    <3>1. CASE e = d
      BY <3>1, <1>6, <1>9, <1>11
    <3>2. CASE e # d
      <4>1. E[e].parent = D[e].parent /\ E[e].name = D[e].name
        BY <3>2, <1>10
      <4>2. D[e].name \in FileNames /\ D[D[e].parent].kids[D[e].name] = e /\ D[e].parent \in Dentries
        <5>1. D[e].parent \in NulOr
          BY DEF Entry
        <5> QED BY <2>4, <4>1, <5>1 DEF GoodTree, NulOr
      <4>3. ~(D[e].parent = p /\ D[e].name = n0)
        BY <4>2, <1>0
      <4> QED BY <4>1, <4>2, <4>3, <1>12
    <3> QED BY <3>1, <3>2
  <2> HIDE DEF k
  <2>5. /\ \A e \in Dentries, n \in FileNames : E[e].kids[n] # Null =>
              /\ E[E[e].kids[n]].alive /\ E[E[e].kids[n]].parent = e
              /\ E[E[e].kids[n]].name = n /\ E[e].isdir /\ (e = Root \/ E[e].parent # Null)
        /\ \A e \in Dentries : E[e].parent # Null =>
              E[e].name \in FileNames /\ E[E[e].parent].kids[E[e].name] = e
    BY <2>3, <2>4
  <2> QED BY ONLY <2>1, <2>2, <2>5 DEF GoodTree
<1>14. TreeHandle(E, d) = 1 /\ \A e \in Dentries : e # d => TreeHandle(E, e) = TreeHandle(D, e)
  BY <1>0, <1>9, <1>10 DEF TreeHandle
<1> QED BY <1>9, <1>10, <1>12, <1>13, <1>14

\* Moving takes the entry out of the first directory, and then puts it in the second.
TakenOut(D, d, p) == [D EXCEPT ![p].kids[D[d].name] = Null, ![p].lc = IF D[d].isdir THEN @ - 1 ELSE @]
PutIn(C, dir, d, q, n) == [C EXCEPT ![q].kids[n] = d, ![q].lc = IF dir THEN @ + 1 ELSE @,
                                    ![d].parent = q, ![d].name = n]

\* The two halves of a move.
LEMMA MoveSplits ==
    ASSUME NEW D, NEW d, NEW p, NEW q, NEW n
    PROVE  Move(D, d, p, q, n) = PutIn(TakenOut(D, d, p), D[d].isdir, d, q, n)
  BY Zenon DEF Move, TakenOut, PutIn

\* An entry moves from directory p to directory q.
LEMMA MoveTree ==
    ASSUME NEW D \in [Dentries -> Entry], GoodTree(D), NEW p \in Dentries, NEW q \in Dentries,
           NEW d \in Dentries, NEW n1 \in FileNames, D[d].parent = p, d # p, d # q,
           D[q].isdir, q = Root \/ D[q].parent # Null, D[q].alive, D[q].kids[n1] \in {Null, d},
           NEW E, E = Move(D, d, p, q, n1)
    PROVE  /\ E \in [Dentries -> Entry] /\ GoodTree(E)
           /\ \A T : Counts(D, T) => Counts(E, T)
           /\ \A e \in Dentries, n \in FileNames :
                 E[e].kids[n] = D[e].kids[n] \/ (e = p /\ n = D[d].name) \/ (e = q /\ n = n1)
           /\ \A e \in Dentries : E[e].isdir = D[e].isdir
<1>0. Null \notin Dentries /\ Root \in Dentries
  BY Memory
<1>1. /\ D[d].name \in FileNames /\ D[p].kids[D[d].name] = d
      /\ D[d].alive /\ D[p].alive /\ d # Root
  <2>1. D[d].name \in FileNames /\ D[p].kids[D[d].name] = d /\ d # Root
    BY <1>0 DEF GoodTree
  <2>2. D[d].alive
    BY <1>0, <2>1 DEF GoodTree
  <2>3. \A n \in FileNames : Blank.kids[n] = Null
    BY DEF Blank
  <2> QED BY <1>0, <2>1, <2>2, <2>3 DEF GoodTree
<1> DEFINE n0 == D[d].name
           l == IF D[d].isdir THEN D[p].lc - 1 ELSE D[p].lc
           ep == [D[p] EXCEPT !.kids = [D[p].kids EXCEPT ![n0] = Null], !.lc = l]
           C == [D EXCEPT ![p] = ep]
           m == IF D[d].isdir THEN C[q].lc + 1 ELSE C[q].lc
           eq == [C[q] EXCEPT !.kids = [C[q].kids EXCEPT ![n1] = d], !.lc = m]
           ed == [C[d] EXCEPT !.parent = q, !.name = n1]
<1>2. E = [C EXCEPT ![q].kids[n1] = d, ![q].lc = IF D[d].isdir THEN @ + 1 ELSE @,
                    ![d].parent = q, ![d].name = n1]
  <2>1. C = [D EXCEPT ![p].kids[D[d].name] = Null, ![p].lc = IF D[d].isdir THEN @ - 1 ELSE @]
    OBVIOUS
  <2>2. C = TakenOut(D, d, p)
    BY <2>1 DEF TakenOut
  <2> HIDE DEF C
  <2>3. Move(D, d, p, q, n1) = PutIn(C, D[d].isdir, d, q, n1)
    BY <2>2, MoveSplits
  <2> QED BY <2>3 DEF PutIn
<1>3. /\ ep \in Entry /\ ep.alive = D[p].alive /\ ep.isdir = D[p].isdir
      /\ ep.parent = D[p].parent /\ ep.name = D[p].name /\ ep.nh = D[p].nh
      /\ \A n \in FileNames : ep.kids[n] = IF n = n0 THEN Null ELSE D[p].kids[n]
  <2>0. D[p] \in Entry
    OBVIOUS
  <2>1. D[p].lc \in Int /\ D[p].kids \in [FileNames -> NulOr] /\ Null \in NulOr
    BY <2>0 DEF Entry, NulOr
  <2>2. l \in Int /\ [D[p].kids EXCEPT ![n0] = Null] \in [FileNames -> NulOr]
    <3>1. D[p].lc - 1 \in Int
      BY <2>1
    <3> QED BY <2>1, <3>1
  <2>3. \A n \in FileNames : [D[p].kids EXCEPT ![n0] = Null][n] = IF n = n0 THEN Null ELSE D[p].kids[n]
    BY <2>1
  <2> HIDE DEF l
  <2> QED BY <2>0, <2>2, <2>3 DEF Entry
<1> HIDE DEF ep
<1>4. C \in [Dentries -> Entry] /\ C[p] = ep /\ \A e \in Dentries : e # p => C[e] = D[e]
  BY <1>3
<1> HIDE DEF C
<1>5. \A e \in Dentries : /\ C[e].alive = D[e].alive /\ C[e].isdir = D[e].isdir
                          /\ C[e].parent = D[e].parent /\ C[e].name = D[e].name /\ C[e].nh = D[e].nh
                          /\ \A n \in FileNames :
                                C[e].kids[n] = IF e = p /\ n = n0 THEN Null ELSE D[e].kids[n]
  BY <1>3, <1>4
<1>6. /\ eq \in Entry /\ eq.alive = C[q].alive /\ eq.isdir = C[q].isdir
      /\ eq.parent = C[q].parent /\ eq.name = C[q].name /\ eq.nh = C[q].nh
      /\ \A n \in FileNames : eq.kids[n] = IF n = n1 THEN d ELSE C[q].kids[n]
  <2>0. C[q] \in Entry
    BY <1>4
  <2>1. C[q].lc \in Int /\ C[q].kids \in [FileNames -> NulOr] /\ d \in NulOr
    BY <2>0 DEF Entry, NulOr
  <2>2. m \in Int /\ [C[q].kids EXCEPT ![n1] = d] \in [FileNames -> NulOr]
    BY <2>1
  <2>3. \A n \in FileNames : [C[q].kids EXCEPT ![n1] = d][n] = IF n = n1 THEN d ELSE C[q].kids[n]
    BY <2>1
  <2> HIDE DEF m
  <2> QED BY <2>0, <2>2, <2>3 DEF Entry
<1>7. /\ ed \in Entry /\ ed.alive = C[d].alive /\ ed.isdir = C[d].isdir /\ ed.parent = q
      /\ ed.name = n1 /\ ed.nh = C[d].nh /\ ed.kids = C[d].kids
  <2>0. C[d] \in Entry /\ q \in NulOr /\ n1 \in FileNames \cup {""}
    BY <1>4 DEF NulOr
  <2> QED BY <2>0 DEF Entry
<1>9. E = [C EXCEPT ![q] = eq, ![d] = ed]
  BY <1>2, <1>4
<1> HIDE DEF eq, ed
<1>8. /\ E \in [Dentries -> Entry] /\ E[q] = eq /\ E[d] = ed
      /\ \A e \in Dentries : e \notin {q, d} => E[e] = C[e]
  BY <1>9, <1>4, <1>6, <1>7
<1>10. \A e \in Dentries : /\ E[e].alive = D[e].alive /\ E[e].isdir = D[e].isdir /\ E[e].nh = D[e].nh
                           /\ e # d => E[e].parent = D[e].parent /\ E[e].name = D[e].name
  BY <1>5, <1>6, <1>7, <1>8
<1>11. E[d].parent = q /\ E[d].name = n1
  BY <1>7, <1>8
<1>12. \A e \in Dentries, n \in FileNames :
          E[e].kids[n] = IF e = q /\ n = n1 THEN d
                         ELSE IF e = p /\ n = n0 THEN Null ELSE D[e].kids[n]
  BY <1>5, <1>6, <1>7, <1>8
<1>13. GoodTree(E)
  <2>1. E[Root].alive /\ E[Root].isdir /\ E[Root].parent = Null
    BY <1>0, <1>1, <1>10 DEF GoodTree
  <2>2. \A e \in Dentries : ~E[e].alive => E[e] = Blank
    BY <1>1, <1>4, <1>8, <1>10 DEF GoodTree
  <2>3. ASSUME NEW e \in Dentries, NEW n \in FileNames, E[e].kids[n] # Null
        PROVE  /\ E[E[e].kids[n]].alive /\ E[E[e].kids[n]].parent = e
               /\ E[E[e].kids[n]].name = n /\ E[e].isdir /\ (e = Root \/ E[e].parent # Null)
    <3>1. CASE e = q /\ n = n1
      <4>1. E[e].kids[n] = d
        BY <3>1, <1>12
      <4> QED BY <3>1, <4>1, <1>1, <1>10, <1>11
    <3>2. CASE ~(e = q /\ n = n1)
      <4>1. E[e].kids[n] = D[e].kids[n] /\ ~(e = p /\ n = n0)
        BY <3>2, <1>12, <2>3
      <4> DEFINE x == D[e].kids[n]
      <4>2. x \in Dentries
        <5>1. x \in NulOr
          BY DEF Entry
        <5> QED BY <5>1, <2>3, <4>1 DEF NulOr
      <4>3. D[x].alive /\ D[x].parent = e /\ D[x].name = n /\ D[e].isdir /\ (e = Root \/ D[e].parent # Null)
        BY <2>3, <4>1 DEF GoodTree
      <4>4. x # d
        BY <4>1, <4>3
      <4> HIDE DEF x
      <4>6. E[x].alive /\ E[x].parent = e /\ E[x].name = n
        BY <4>2, <4>3, <4>4, <1>10
      <4>7. e = Root \/ E[e].parent # Null
        BY <4>3, <1>0, <1>10, <1>11
      <4> QED BY <4>1, <4>3, <4>6, <4>7, <1>10 DEF x
    <3> QED BY <3>1, <3>2
  <2>4. ASSUME NEW e \in Dentries, E[e].parent # Null
        PROVE  E[e].name \in FileNames /\ E[E[e].parent].kids[E[e].name] = e
    <3>1. CASE e = d
      BY <3>1, <1>11, <1>12
    <3>2. CASE e # d
      <4>1. E[e].parent = D[e].parent /\ E[e].name = D[e].name
        BY <3>2, <1>10
      <4>2. D[e].name \in FileNames /\ D[D[e].parent].kids[D[e].name] = e /\ D[e].parent \in Dentries
        <5>1. D[e].parent \in NulOr
          BY DEF Entry
        <5> QED BY <2>4, <4>1, <5>1 DEF GoodTree, NulOr
      <4>3. ~(D[e].parent = p /\ D[e].name = n0)
        BY <3>2, <4>2, <1>1
      <4>4. ~(D[e].parent = q /\ D[e].name = n1)
        BY <3>2, <4>2, <1>0
      <4> QED BY <4>1, <4>2, <4>3, <4>4, <1>12
    <3> QED BY <3>1, <3>2
  <2> QED BY <2>1, <2>2, <2>3, <2>4 DEF GoodTree
<1>14. \A e \in Dentries : TreeHandle(E, e) = TreeHandle(D, e)
  BY <1>0, <1>1, <1>10, <1>11 DEF TreeHandle
<1>15. \A T : Counts(D, T) => Counts(E, T)
  BY <1>10, <1>14 DEF Counts
<1> QED BY <1>8, <1>10, <1>12, <1>13, <1>15

-----------------------------------------------------------------------------
(* The actions that change name tables.                                    *)

\* The directory of a path is still the same one.
LEMMA FrontStable ==
    ASSUME NEW D \in [Dentries -> Entry], NEW E \in [Dentries -> Entry], GoodTree(D), GoodTree(E),
           NEW R, R \subseteq Paths \ {<<>>}, Local(D, E, R), NEW p \in Paths, p # <<>>, Front(p) \notin R
    PROVE  /\ ResolveIn(E, Front(p)) = ResolveIn(D, Front(p))
           /\ ResolveIn(D, Front(p)) # Null =>
                 E[ResolveIn(D, Front(p))].isdir = D[ResolveIn(D, Front(p))].isdir
<1>1. /\ Front(p) \in Paths
      /\ Front(p) = <<>> \/ (Front(p) # <<>> /\ Front(Front(p)) = <<>>)
  BY PathParts, ShortPaths
<1>2. ResolveIn(E, Front(p)) = ResolveIn(D, Front(p))
  BY <1>1, ResolveStable
<1>3. ASSUME ResolveIn(D, Front(p)) # Null
      PROVE  E[ResolveIn(D, Front(p))].isdir = D[ResolveIn(D, Front(p))].isdir
  <2>1. ResolveIn(D, Front(p)) \in Dentries /\ D[ResolveIn(D, Front(p))].alive
    BY <1>1, <1>3, ResolveType
  <2>2. E[ResolveIn(D, Front(p))].alive
    BY <1>1, <1>2, <1>3, ResolveType
  <2> QED BY <2>1, <2>2 DEF Local
<1> QED BY <1>2, <1>3

\* The directory part of a path is another path.
LEMMA FrontShorter ==
    ASSUME NEW p \in Paths, p # <<>>
    PROVE  Front(p) # p /\ Front(p) \in Paths
<1>1. CASE Len(p) = 1
  BY <1>1, PathParts
<1>2. CASE Len(p) = 2
  <2>1. Front(p) = <<p[1]>> /\ p[1] \in FileNames
    BY <1>2, PathParts
  <2>2. Len(Front(p)) = 1
    BY <2>1, ShortPaths
  <2> QED BY <1>2, <2>2, PathParts
<1> QED BY <1>1, <1>2, PathParts

\* ltfs_fsops_unlink takes the entry out of its directory and gives both handles back.
LEMMA UnlinkEntryInv ==
    ASSUME TreeInv, NEW t \in TreeThreads, UnlinkEntry(t)
    PROVE  TreeInv'
<1> DEFINE b == thr[t]
           c == [b EXCEPT !.pc = "un3"]
<1>1. /\ b \in Call /\ OpsMatch(b) /\ Pointers(b) /\ Walk(b) /\ PlaceOK(b, dent)
      /\ thr \in [TreeThreads -> Call] /\ dent \in [Dentries -> Entry] /\ GoodTree(dent)
      /\ LockTypes /\ uidNumber \in Nat /\ Root \in Dentries /\ Null \notin Dentries
      /\ b.pc = "un2"
  BY Here DEF UnlinkEntry
<1>2. /\ b.op # "none"
      /\ b.op = "unlink" /\ b.path \in Paths /\ b.path # <<>> /\ b.to = <<>>
      /\ b.par \in Dentries /\ b.cur \in Dentries
      /\ ResolveIn(dent, Front(b.path)) = b.par
      /\ dent[b.cur].parent = b.par /\ dent[b.cur].name = Last(b.path)
      /\ Kids(dent, b.cur) = {}
      /\ Front(b.path) \in Paths /\ Front(b.path) # b.path
  <2>1. /\ b.op = "unlink" /\ b.path \in Paths /\ b.path # <<>> /\ b.to = <<>>
        /\ b.par \in Dentries /\ b.cur \in Dentries
    BY <1>1 DEF OpsMatch, Pointers, Call, NulOr, Changing, LookPcs, CreatePcs, UnlinkPcs, LockedPcs, RenamePcs
  <2>2. /\ ResolveIn(dent, Front(b.path)) = b.par /\ ResolveIn(dent, b.path) = b.cur
        /\ Kids(dent, b.cur) = {}
    BY <1>1, <2>1 DEF PlaceOK, UnlinkAt, Changing, UnlinkPcs
  <2>3. dent[b.cur].parent = b.par /\ dent[b.cur].name = Last(b.path)
    BY <1>1, <2>1, <2>2, ResolveType
  <2> QED BY <2>1, <2>2, <2>3, FrontShorter
<1>3. /\ c.op = b.op /\ c.path = b.path /\ c.to = b.to
      /\ c.want = b.want /\ c.cur = b.cur /\ c.par = b.par
      /\ c.fromdir = b.fromdir /\ c.todir = b.todir /\ c.fromdent = b.fromdent
      /\ c.todent = b.todent /\ c.val = b.val /\ c.ok = b.ok
      /\ c.fh = b.fh /\ c.pc = "un3"
  BY <1>1 DEF Call
<1>4. c \in Call
  <2>1. /\ "un3" \in Pcs
    BY <1>1, <1>2 DEF Call, NulOr, Pcs, LookPcs, CreatePcs, UnlinkPcs, LockedPcs, RenamePcs
  <2> QED BY <1>1, <2>1 DEF Call
<1>5. thr' = [thr EXCEPT ![t] = c] /\ Steps(thr, thr', t, c)
  BY <1>1 DEF UnlinkEntry, Goto, Steps
<1> HIDE DEF b, c
<1>6. CallOK(c)
  <2>1. Target(c) = Target(b)
    BY <1>3 DEF Target
  <2>2. OpsMatch(c)
    BY <1>1, <1>2, <1>3, <2>1 DEF OpsMatch, Changing, LookPcs, CreatePcs, UnlinkPcs, LockedPcs, RenamePcs
  <2>3. Pointers(c)
    BY <1>1, <1>2, <1>3, <2>1 DEF OpsMatch, Pointers, First, FirstName, LookPcs, CreatePcs, UnlinkPcs, LockedPcs, RenamePcs
  <2>4. Walk(c)
    BY <1>1, <1>2, <1>3, <2>1 DEF Walk, FirstName, LookPcs, CreatePcs, UnlinkPcs, LockedPcs, RenamePcs
  <2> QED BY <2>2, <2>3, <2>4 DEF CallOK
<1>7. /\ dent' \in [Dentries -> Entry] /\ GoodTree(dent') /\ Counts(dent', thr')
      /\ Local(dent, dent', {b.path})
      /\ ResolveIn(dent', Front(b.path)) = b.par /\ dent'[b.par].isdir = dent[b.par].isdir
      /\ ResolveIn(dent', b.path) = Null
  <2>1. dent' = Detach(dent, b.par, b.cur)
    BY DEF UnlinkEntry, b
  <2>2. /\ dent' \in [Dentries -> Entry] /\ GoodTree(dent')
        /\ \A T : Counts(dent, T) => Counts(dent', T)
        /\ dent'[b.par].kids[Last(b.path)] = Null
        /\ \A e \in Dentries, n \in FileNames :
              dent'[e].kids[n] = dent[e].kids[n] \/ (e = b.par /\ n = Last(b.path))
        /\ \A e \in Dentries : dent'[e].isdir = dent[e].isdir
    BY <1>1, <1>2, <2>1, DetachTree
  <2>3. SameSlots(b, c)
    BY <1>1, <1>2, <1>3, PtrIs DEF SameSlots, Slots, Pointers, LookPcs, CreatePcs, UnlinkPcs, LockedPcs, RenamePcs
  <2>4. Counts(dent', thr')
    <3>1. Counts(dent', thr)
      BY <2>2 DEF TreeInv
    <3> QED BY <1>5, <2>3, <3>1, CountsSame DEF b
  <2>5. Local(dent, dent', {b.path})
    BY <1>2, <2>2 DEF Local
  <2>6. /\ ResolveIn(dent', Front(b.path)) = ResolveIn(dent, Front(b.path))
        /\ dent'[b.par].isdir = dent[b.par].isdir
    BY <1>1, <1>2, <2>2, <2>5, FrontStable
  <2>7. ResolveIn(dent', b.path) = Null
    BY <1>1, <1>2, <2>2, <2>6, ResolveParts
  <2> QED BY <1>2, <2>2, <2>4, <2>5, <2>6, <2>7
<1>8. LockChange(t, c) /\ LockTypes'
  <2>1. ContentsChange(t, c)
    <3>1. \A d \in Dentries : /\ Writes(b, d) <=> d = b.par
                              /\ ~Reads(b, d) /\ ~Reads(c, d) /\ ~Writes(c, d)
      BY <1>1, <1>2, <1>3 DEF Reads, Writes, WantsW, LookPcs, CreatePcs, UnlinkPcs, LockedPcs, RenamePcs
    <3>2. contents' = UnlockW(contents, b.par)
      BY <1>2 DEF UnlinkEntry, b
    <3> QED BY <1>2, <3>1, <3>2, OpensW DEF b
  <2>2. MetaChange(t, c)
    <3>1. \A d \in Dentries : HasMeta(c, d) <=> HasMeta(b, d)
      BY <1>1, <1>2, <1>3 DEF HasMeta, First, Pointers, LookPcs, CreatePcs, UnlinkPcs, LockedPcs, RenamePcs
    <3> QED BY <3>1, MetaKept DEF b, UnlinkEntry, SameLocks
  <2>3. RenameChange(t, c)
    <3>1. Renames(c) <=> Renames(b)
      BY <1>1, <1>2, <1>3 DEF OpsMatch, Renames, LookPcs, CreatePcs, UnlinkPcs, LockedPcs, RenamePcs
    <3> QED BY <3>1, RenameKept DEF b, UnlinkEntry, SameLocks
  <2>4. LockTypes'
    <3>1. contents' \in ContentsType
      <4>1. contents \in ContentsType /\ contents' = UnlockW(contents, b.par)
        BY <1>1, <1>2 DEF UnlinkEntry, b, LockTypes, ContentsType
      <4> QED BY <1>2, <4>1, LockOps
    <3> QED BY <1>1, <3>1 DEF UnlinkEntry, LockTypes, ContentsType
  <2> QED BY <2>1, <2>2, <2>3, <2>4 DEF LockChange
<1>9. PlaceOK(c, dent')
  <2>1. c.op \in Changing => DirsOnPath(c, dent')
    BY <1>1, <1>2, <1>3, <1>7 DEF PlaceOK, DirsOnPath
  <2>2. c.op \in Changing => LookupAt(c, dent')
    BY <1>1, <1>3 DEF LookupAt
  <2>3. c.op \in Changing => UnlinkAt(c, dent')
    BY <1>1, <1>2, <1>3, <1>7 DEF UnlinkAt, LookPcs, CreatePcs, UnlinkPcs, LockedPcs, RenamePcs
  <2>4. c.op \in Changing => RenameAt(c, dent')
    BY <1>1, <1>2, <1>3 DEF RenameAt, Pointers, LookPcs, CreatePcs, UnlinkPcs, LockedPcs, RenamePcs
  <2> QED BY <1>1, <1>3, <2>1, <2>2, <2>3, <2>4 DEF PlaceOK
<1>10. \A r \in {b.path} : /\ r \in BusyC(b) /\ Front(r) \in BusyC(b)
                      /\ Writes(b, ResolveIn(dent, Front(r)))
  BY <1>1, <1>2 DEF BusyC, Busy, Writes
<1>11. /\ SameCall(b, c) /\ uidNumber' \in Nat
       /\ {b.path} \subseteq Paths \ {<<>>}
  BY <1>1, <1>2, <1>3 DEF SameCall, UnlinkEntry
<1> DEFINE R == {b.path}
<1>13. /\ R \subseteq Paths \ {<<>>} /\ Local(dent, dent', R)
       /\ \A r \in R : /\ r \in BusyC(b) /\ Front(r) \in BusyC(b)
                       /\ Writes(b, ResolveIn(dent, Front(r)))
  BY <1>7, <1>10, <1>11
<1> HIDE DEF R
<1> QED BY <1>2, <1>4, <1>5, <1>6, <1>7, <1>8, <1>9, <1>11, <1>13, ShapeStep DEF b

\* A lean change after a local one is local.
LEMMA LeanLocal ==
    ASSUME NEW D \in [Dentries -> Entry], NEW E \in [Dentries -> Entry], NEW F \in [Dentries -> Entry],
           NEW R, Local(D, E, R), Lean(E, F)
    PROVE  Local(D, F, R)
<1>0. (\A n \in FileNames : Blank.kids[n] = Null) /\ ~Blank.alive
  BY DEF Blank
<1>1. ASSUME NEW d \in Dentries
      PROVE  /\ \A n \in FileNames : F[d].kids[n] = E[d].kids[n]
             /\ F[d].alive => E[d].alive /\ F[d].isdir = E[d].isdir
  <2>0. E[d] \in Entry
    OBVIOUS
  <2>1. CASE F[d] = [E[d] EXCEPT !.nh = F[d].nh]
    <3>1. F[d].kids = E[d].kids /\ F[d].alive = E[d].alive /\ F[d].isdir = E[d].isdir
      BY <2>0, <2>1 DEF Entry
    <3> QED BY <3>1
  <2>2. CASE F[d] = Blank /\ Kids(E, d) = {}
    <3>1. \A n \in FileNames : E[d].kids[n] = Null
      BY <2>2 DEF Kids
    <3> QED BY <1>0, <2>2, <3>1
  <2> QED BY <2>1, <2>2 DEF Lean
<1>2. \A d \in Dentries, n \in FileNames :
         F[d].kids[n] = D[d].kids[n] \/ \E r \in R : d = ResolveIn(D, Front(r)) /\ n = Last(r)
  BY <1>1 DEF Local
<1>3. \A d \in Dentries : D[d].alive /\ F[d].alive => F[d].isdir = D[d].isdir
  BY <1>1 DEF Local
<1> QED BY <1>2, <1>3 DEF Local

\* rename takes the target it replaces out of its directory.
LEMMA RenameReplaceOther ==
    ASSUME TreeInv, NEW t \in TreeThreads, RenameReplace(t), thr[t].todent # Null, thr[t].todent # thr[t].fromdent
    PROVE  TreeInv'
<1> DEFINE b == thr[t]
           c == [b EXCEPT !.todent = Null, !.pc = "rn7"]
<1>1. /\ b \in Call /\ OpsMatch(b) /\ Pointers(b) /\ Walk(b) /\ PlaceOK(b, dent)
      /\ thr \in [TreeThreads -> Call] /\ dent \in [Dentries -> Entry] /\ GoodTree(dent)
      /\ LockTypes /\ uidNumber \in Nat /\ Root \in Dentries /\ Null \notin Dentries
      /\ b.pc = "rn6"
  BY Here DEF RenameReplace
<1>2. /\ b.op # "none"
      /\ b.op = "rename" /\ b.path \in Paths /\ b.path # <<>> /\ b.to \in Paths /\ b.to # <<>> /\ ~b.ok
      /\ b.fromdir \in Dentries /\ b.todir \in Dentries /\ b.fromdent \in Dentries
      /\ ResolveIn(dent, Front(b.path)) = b.fromdir /\ ResolveIn(dent, Front(b.to)) = b.todir
      /\ ResolveIn(dent, b.path) = b.fromdent /\ b.fromdent # b.todir
      /\ b.todent \in Dentries /\ b.todent # b.fromdent /\ b.todent # b.fromdir
      /\ ResolveIn(dent, b.to) = b.todent
      /\ dent[b.todent].parent = b.todir /\ dent[b.todent].name = Last(b.to)
      /\ Kids(dent, b.todent) = {}
      /\ Front(b.to) # b.to /\ Front(b.path) # b.to /\ b.path # b.to
  <2>1. /\ b.op = "rename" /\ b.path \in Paths /\ b.path # <<>> /\ b.to \in Paths /\ b.to # <<>>
        /\ b.fromdir \in Dentries /\ b.todir \in Dentries /\ b.fromdent \in Dentries
    BY <1>1 DEF OpsMatch, Pointers, Call, NulOr, Changing, LookPcs, CreatePcs, UnlinkPcs, LockedPcs, RenamePcs
  <2>2. /\ ResolveIn(dent, Front(b.path)) = b.fromdir /\ ResolveIn(dent, Front(b.to)) = b.todir
        /\ ResolveIn(dent, b.path) = b.fromdent /\ b.fromdent # b.todir
    BY <1>1, <2>1 DEF PlaceOK, RenameAt, Changing
  <2>3. ~b.ok /\ b.todent \in Dentries /\ b.todent # b.fromdent
    BY <1>1 DEF OpsMatch, Call, NulOr
  <2>4. ResolveIn(dent, b.to) = b.todent /\ b.todent # b.fromdir /\ Kids(dent, b.todent) = {}
    BY <1>1, <2>1, <2>3 DEF PlaceOK, RenameAt, Changing
  <2>5. dent[b.todent].parent = b.todir /\ dent[b.todent].name = Last(b.to)
    BY <1>1, <2>1, <2>2, <2>3, <2>4, ResolveType
  <2>6. Front(b.to) # b.to /\ Front(b.path) # b.to /\ b.path # b.to
    BY <2>1, <2>2, <2>3, <2>4, FrontShorter
  <2> QED BY <2>1, <2>2, <2>3, <2>4, <2>5, <2>6
<1>3. /\ c.op = b.op /\ c.path = b.path /\ c.to = b.to
      /\ c.want = b.want /\ c.cur = b.cur /\ c.par = b.par
      /\ c.fromdir = b.fromdir /\ c.todir = b.todir /\ c.fromdent = b.fromdent
      /\ c.todent = Null /\ c.val = b.val /\ c.ok = b.ok
      /\ c.fh = b.fh /\ c.pc = "rn7"
  BY <1>1 DEF Call
<1>4. c \in Call
  <2>1. /\ Null \in NulOr
        /\ "rn7" \in Pcs
    BY <1>1, <1>2 DEF Call, NulOr, Pcs, LookPcs, CreatePcs, UnlinkPcs, LockedPcs, RenamePcs
  <2> QED BY <1>1, <2>1 DEF Call
<1>5. thr' = [thr EXCEPT ![t] = c] /\ Steps(thr, thr', t, c)
  BY <1>1 DEF RenameReplace, Goto, Steps
<1> HIDE DEF b, c
<1>6. CallOK(c)
  <2>1. Target(c) = Target(b)
    BY <1>3 DEF Target
  <2>2. OpsMatch(c)
    BY <1>1, <1>2, <1>3, <2>1 DEF OpsMatch, Changing, LookPcs, CreatePcs, UnlinkPcs, LockedPcs, RenamePcs
  <2>3. Pointers(c)
    BY <1>1, <1>2, <1>3, <2>1 DEF OpsMatch, Pointers, First, FirstName, LookPcs, CreatePcs, UnlinkPcs, LockedPcs, RenamePcs
  <2>4. Walk(c)
    BY <1>1, <1>2, <1>3, <2>1 DEF Walk, FirstName, LookPcs, CreatePcs, UnlinkPcs, LockedPcs, RenamePcs
  <2> QED BY <2>2, <2>3, <2>4 DEF CallOK
<1>7. /\ dent' \in [Dentries -> Entry] /\ GoodTree(dent') /\ Counts(dent', thr')
      /\ Local(dent, dent', {b.to})
      /\ ResolveIn(dent', Front(b.path)) = b.fromdir /\ dent'[b.fromdir].isdir = dent[b.fromdir].isdir
      /\ ResolveIn(dent', Front(b.to)) = b.todir /\ dent'[b.todir].isdir = dent[b.todir].isdir
      /\ ResolveIn(dent', b.path) = b.fromdent /\ ResolveIn(dent', b.to) = Null
  <2> DEFINE E == Detach(dent, b.todir, b.todent)
  <2>1. dent' = Release(E, b.todent)
    BY <1>2 DEF RenameReplace, b
  <2>2. /\ E \in [Dentries -> Entry] /\ GoodTree(E)
        /\ \A T : Counts(dent, T) => Counts(E, T)
        /\ E[b.todir].kids[Last(b.to)] = Null
        /\ \A e \in Dentries, n \in FileNames :
              E[e].kids[n] = dent[e].kids[n] \/ (e = b.todir /\ n = Last(b.to))
        /\ \A e \in Dentries : E[e].isdir = dent[e].isdir
    BY <1>1, <1>2, DetachTree
  <2> HIDE DEF E
  <2>3. GiveSlot(b, c, "todent", b.todent)
    BY <1>1, <1>2, <1>3, PtrIs DEF GiveSlot, TakeSlot, Slots, Pointers, LookPcs, CreatePcs, UnlinkPcs, LockedPcs, RenamePcs
  <2>4. Counts(E, thr)
    BY <2>2 DEF TreeInv
  <2>5. dent' \in [Dentries -> Entry] /\ Lean(E, dent') /\ Counts(dent', thr')
    BY <1>2, <1>5, <2>1, <2>2, <2>3, <2>4, Released DEF b
  <2>6. GoodTree(dent') /\ \A p \in Paths : ResolveIn(dent', p) = ResolveIn(E, p)
    BY <2>2, <2>5, LeanTree
  <2>7. Local(dent, E, {b.to})
    BY <1>2, <2>2 DEF Local
  <2>8. Local(dent, dent', {b.to})
    BY <1>1, <2>2, <2>5, <2>7, LeanLocal
  <2>9. /\ ResolveIn(dent', Front(b.path)) = b.fromdir /\ dent'[b.fromdir].isdir = dent[b.fromdir].isdir
        /\ ResolveIn(dent', Front(b.to)) = b.todir /\ dent'[b.todir].isdir = dent[b.todir].isdir
    BY <1>1, <1>2, <2>5, <2>6, <2>8, FrontStable
  <2>10. ResolveIn(dent', b.path) = b.fromdent
    BY <1>1, <1>2, <2>5, <2>6, <2>8, ResolveStable
  <2>11. ResolveIn(dent', b.to) = Null
    <3>1. ResolveIn(E, Front(b.to)) = b.todir
      BY <1>1, <1>2, <2>2, <2>7, FrontStable
    <3>2. ResolveIn(E, b.to) = Null
      BY <1>1, <1>2, <2>2, <3>1, ResolveParts
    <3> QED BY <1>2, <2>6, <3>2
  <2> QED BY <2>5, <2>6, <2>8, <2>9, <2>10, <2>11
<1>8. LockChange(t, c) /\ LockTypes'
  <2>1. ContentsChange(t, c)
    <3>1. \A d \in Dentries : (Reads(c, d) <=> Reads(b, d)) /\ (Writes(c, d) <=> Writes(b, d))
      BY <1>1, <1>2, <1>3 DEF Reads, Writes, WantsW, First, Second, Pointers, LookPcs, CreatePcs, UnlinkPcs, LockedPcs, RenamePcs
    <3> QED BY <3>1, <1>2, ContentsKept DEF b, RenameReplace, SameLocks
  <2>2. MetaChange(t, c)
    <3>1. \A d \in Dentries : HasMeta(c, d) <=> HasMeta(b, d)
      BY <1>1, <1>2, <1>3 DEF HasMeta, First, Pointers, LookPcs, CreatePcs, UnlinkPcs, LockedPcs, RenamePcs
    <3> QED BY <3>1, MetaKept DEF b, RenameReplace, SameLocks
  <2>3. RenameChange(t, c)
    <3>1. Renames(c) <=> Renames(b)
      BY <1>1, <1>2, <1>3 DEF OpsMatch, Renames, LookPcs, CreatePcs, UnlinkPcs, LockedPcs, RenamePcs
    <3> QED BY <3>1, RenameKept DEF b, RenameReplace, SameLocks
  <2>4. LockTypes'
    BY <1>1, <1>2 DEF RenameReplace, SameLocks, LockTypes
  <2> QED BY <2>1, <2>2, <2>3, <2>4 DEF LockChange
<1>9. PlaceOK(c, dent')
  <2>1. c.op \in Changing => DirsOnPath(c, dent')
    <3>1. dent[b.fromdir].isdir /\ dent[b.todir].isdir
      BY <1>1, <1>2 DEF PlaceOK, DirsOnPath, Changing
    <3> QED BY <1>3, <1>7, <3>1 DEF DirsOnPath
  <2>2. c.op \in Changing => LookupAt(c, dent')
    BY <1>1, <1>3 DEF LookupAt
  <2>3. c.op \in Changing => UnlinkAt(c, dent')
    BY <1>1, <1>2, <1>3 DEF UnlinkAt, LookPcs, CreatePcs, UnlinkPcs, LockedPcs, RenamePcs
  <2>4. c.op \in Changing => RenameAt(c, dent')
    <3>1. c.val = Null
      BY <1>1, <1>2, <1>3 DEF OpsMatch, Null
    <3> QED BY <1>1, <1>2, <1>3, <1>7, <3>1 DEF RenameAt
  <2> QED BY <1>1, <1>3, <2>1, <2>2, <2>3, <2>4 DEF PlaceOK
<1>10. \A r \in {b.to} : /\ r \in BusyC(b) /\ Front(r) \in BusyC(b)
                      /\ Writes(b, ResolveIn(dent, Front(r)))
  BY <1>1, <1>2 DEF BusyC, Busy, Writes, LockedPcs
<1>11. /\ SameCall(b, c) /\ uidNumber' \in Nat
       /\ {b.to} \subseteq Paths \ {<<>>}
  BY <1>1, <1>2, <1>3 DEF SameCall, RenameReplace
<1> DEFINE R == {b.to}
<1>13. /\ R \subseteq Paths \ {<<>>} /\ Local(dent, dent', R)
       /\ \A r \in R : /\ r \in BusyC(b) /\ Front(r) \in BusyC(b)
                       /\ Writes(b, ResolveIn(dent, Front(r)))
  BY <1>7, <1>10, <1>11
<1> HIDE DEF R
<1> QED BY <1>2, <1>4, <1>5, <1>6, <1>7, <1>8, <1>9, <1>11, <1>13, ShapeStep DEF b

\* rename moves the source to its new directory and name.
LEMMA RenameMoveInv ==
    ASSUME TreeInv, NEW t \in TreeThreads, RenameMove(t)
    PROVE  TreeInv'
<1> DEFINE b == thr[t]
           c == [b EXCEPT !.ok = TRUE, !.pc = "rn8"]
<1>1. /\ b \in Call /\ OpsMatch(b) /\ Pointers(b) /\ Walk(b) /\ PlaceOK(b, dent)
      /\ thr \in [TreeThreads -> Call] /\ dent \in [Dentries -> Entry] /\ GoodTree(dent)
      /\ LockTypes /\ uidNumber \in Nat /\ Root \in Dentries /\ Null \notin Dentries
      /\ b.pc = "rn7"
  BY Here DEF RenameMove
<1>2. /\ b.op # "none"
      /\ b.op = "rename" /\ b.path \in Paths /\ b.path # <<>> /\ b.to \in Paths /\ b.to # <<>> /\ ~b.ok
      /\ b.fromdir \in Dentries /\ b.todir \in Dentries /\ b.fromdent \in Dentries
      /\ ResolveIn(dent, Front(b.path)) = b.fromdir /\ ResolveIn(dent, Front(b.to)) = b.todir
      /\ ResolveIn(dent, b.path) = b.fromdent /\ b.fromdent # b.todir
      /\ ResolveIn(dent, b.to) \in {Null, b.fromdent} /\ b.todent = Null
      /\ dent[b.fromdent].parent = b.fromdir /\ dent[b.fromdent].name = Last(b.path) /\ b.fromdent # b.fromdir
      /\ dent[b.todir].isdir /\ dent[b.todir].alive /\ (b.todir = Root \/ dent[b.todir].parent # Null)
      /\ Last(b.to) \in FileNames /\ dent[b.todir].kids[Last(b.to)] \in {Null, b.fromdent}
      /\ Front(b.to) \notin {b.path, b.to} /\ Front(b.path) \notin {b.path, b.to}
  <2>1. /\ b.op = "rename" /\ b.path \in Paths /\ b.path # <<>> /\ b.to \in Paths /\ b.to # <<>>
        /\ b.fromdir \in Dentries /\ b.todir \in Dentries /\ b.fromdent \in Dentries
    BY <1>1 DEF OpsMatch, Pointers, Call, NulOr, Changing, LookPcs, CreatePcs, UnlinkPcs, LockedPcs, RenamePcs
  <2>2. /\ ResolveIn(dent, Front(b.path)) = b.fromdir /\ ResolveIn(dent, Front(b.to)) = b.todir
        /\ ResolveIn(dent, b.path) = b.fromdent /\ b.fromdent # b.todir
    BY <1>1, <2>1 DEF PlaceOK, RenameAt, Changing
  <2>3. ~b.ok /\ b.todent = Null
    BY <1>1 DEF OpsMatch, Pointers
  <2>4. ResolveIn(dent, b.to) \in {Null, b.fromdent}
    BY <1>1, <2>1 DEF PlaceOK, RenameAt, Changing
  <2>5. dent[b.fromdent].parent = b.fromdir /\ dent[b.fromdent].name = Last(b.path)
    BY <1>1, <2>1, <2>2, ResolveType
  <2>6. Front(b.to) # b.to /\ Front(b.path) # b.path /\ Front(b.path) \in Paths /\ Front(b.to) \in Paths
    BY <2>1, FrontShorter
  <2>7. b.fromdent # b.fromdir
    BY <1>1, <2>1, <2>2, <2>6, ResolveInjective
  <2>8. Front(b.path) # b.to /\ Front(b.to) # b.path
    BY <1>1, <2>1, <2>2, <2>4, <2>7
  <2>9. dent[b.todir].isdir
    BY <1>1, <2>1, <2>2 DEF PlaceOK, DirsOnPath, Changing
  <2>10. dent[b.todir].alive /\ (b.todir = Root \/ dent[b.todir].parent # Null)
    BY <1>1, <2>1, <2>2, <2>6, ResolveType DEF TreeHandle
  <2>11. Last(b.to) \in FileNames /\ dent[b.todir].kids[Last(b.to)] \in {Null, b.fromdent}
    BY <1>1, <2>1, <2>2, <2>4, ResolveParts, PathParts
  <2> QED BY <2>1, <2>2, <2>3, <2>4, <2>5, <2>6, <2>7, <2>8, <2>9, <2>10, <2>11
<1>3. /\ c.op = b.op /\ c.path = b.path /\ c.to = b.to
      /\ c.want = b.want /\ c.cur = b.cur /\ c.par = b.par
      /\ c.fromdir = b.fromdir /\ c.todir = b.todir /\ c.fromdent = b.fromdent
      /\ c.todent = b.todent /\ c.val = b.val /\ c.ok = TRUE
      /\ c.fh = b.fh /\ c.pc = "rn8"
  BY <1>1 DEF Call
<1>4. c \in Call
  <2>1. /\ TRUE \in BOOLEAN
        /\ "rn8" \in Pcs
    BY <1>1, <1>2 DEF Call, NulOr, Pcs, LookPcs, CreatePcs, UnlinkPcs, LockedPcs, RenamePcs
  <2> QED BY <1>1, <2>1 DEF Call
<1>5. thr' = [thr EXCEPT ![t] = c] /\ Steps(thr, thr', t, c)
  BY <1>1 DEF RenameMove, Goto, Steps
<1> HIDE DEF b, c
<1>6. CallOK(c)
  <2>1. Target(c) = Target(b)
    BY <1>3 DEF Target
  <2>2. OpsMatch(c)
    BY <1>1, <1>2, <1>3, <2>1 DEF OpsMatch, Changing, LookPcs, CreatePcs, UnlinkPcs, LockedPcs, RenamePcs
  <2>3. Pointers(c)
    BY <1>1, <1>2, <1>3, <2>1 DEF OpsMatch, Pointers, First, FirstName, LookPcs, CreatePcs, UnlinkPcs, LockedPcs, RenamePcs
  <2>4. Walk(c)
    BY <1>1, <1>2, <1>3, <2>1 DEF Walk, FirstName, LookPcs, CreatePcs, UnlinkPcs, LockedPcs, RenamePcs
  <2> QED BY <2>2, <2>3, <2>4 DEF CallOK
<1>7. /\ dent' \in [Dentries -> Entry] /\ GoodTree(dent') /\ Counts(dent', thr')
      /\ Local(dent, dent', {b.path, b.to})
      /\ ResolveIn(dent', Front(b.path)) = b.fromdir /\ dent'[b.fromdir].isdir = dent[b.fromdir].isdir
      /\ ResolveIn(dent', Front(b.to)) = b.todir /\ dent'[b.todir].isdir = dent[b.todir].isdir
  <2>1. dent' = Move(dent, b.fromdent, b.fromdir, b.todir, Last(b.to))
    BY DEF RenameMove, b
  <2>2. /\ dent' \in [Dentries -> Entry] /\ GoodTree(dent')
        /\ \A T : Counts(dent, T) => Counts(dent', T)
        /\ \A e \in Dentries, n \in FileNames :
              \/ dent'[e].kids[n] = dent[e].kids[n]
              \/ e = b.fromdir /\ n = Last(b.path)
              \/ e = b.todir /\ n = Last(b.to)
        /\ \A e \in Dentries : dent'[e].isdir = dent[e].isdir
    BY <1>1, <1>2, <2>1, MoveTree, SMTT(20)
  <2>3. SameSlots(b, c)
    BY <1>1, <1>2, <1>3, PtrIs DEF SameSlots, Slots, Pointers, LookPcs, CreatePcs, UnlinkPcs, LockedPcs, RenamePcs
  <2>4. Counts(dent', thr')
    <3>1. Counts(dent', thr)
      BY <2>2 DEF TreeInv
    <3> QED BY <1>5, <2>3, <3>1, CountsSame DEF b
  <2>5. Local(dent, dent', {b.path, b.to})
    BY <1>2, <2>2 DEF Local
  <2>6. {b.path, b.to} \subseteq Paths \ {<<>>}
    BY <1>2
  <2> DEFINE R == {b.path, b.to}
  <2>7. /\ Front(b.to) \notin R /\ Front(b.path) \notin R
        /\ R \subseteq Paths \ {<<>>} /\ Local(dent, dent', R)
    BY <1>2, <2>5, <2>6
  <2> HIDE DEF R
  <2>8. ResolveIn(dent', Front(b.path)) = b.fromdir /\ dent'[b.fromdir].isdir = dent[b.fromdir].isdir
    BY <1>1, <1>2, <2>2, <2>7, FrontStable
  <2>9. ResolveIn(dent', Front(b.to)) = b.todir /\ dent'[b.todir].isdir = dent[b.todir].isdir
    <3>1. /\ b.to \in Paths /\ b.to # <<>> /\ Front(b.to) \notin R /\ GoodTree(dent')
          /\ dent \in [Dentries -> Entry] /\ GoodTree(dent) /\ dent' \in [Dentries -> Entry]
      BY <1>1, <1>2, <2>2, <2>7
    <3>2. ResolveIn(dent, Front(b.to)) = b.todir /\ b.todir # Null
      BY <1>1, <1>2
    <3> QED BY <2>7, <3>1, <3>2, FrontStable
  <2> QED BY <2>2, <2>4, <2>5, <2>8, <2>9
<1>8. LockChange(t, c) /\ LockTypes'
  <2>1. ContentsChange(t, c)
    <3>1. \A d \in Dentries : (Reads(c, d) <=> Reads(b, d)) /\ (Writes(c, d) <=> Writes(b, d))
      BY <1>1, <1>2, <1>3 DEF Reads, Writes, WantsW, First, Second, Pointers, LookPcs, CreatePcs, UnlinkPcs, LockedPcs, RenamePcs
    <3> QED BY <3>1, <1>2, ContentsKept DEF b, RenameMove, SameLocks
  <2>2. MetaChange(t, c)
    <3>1. \A d \in Dentries : HasMeta(c, d) <=> HasMeta(b, d)
      BY <1>1, <1>2, <1>3 DEF HasMeta, First, Pointers, LookPcs, CreatePcs, UnlinkPcs, LockedPcs, RenamePcs
    <3> QED BY <3>1, MetaKept DEF b, RenameMove, SameLocks
  <2>3. RenameChange(t, c)
    <3>1. Renames(c) <=> Renames(b)
      BY <1>1, <1>2, <1>3 DEF OpsMatch, Renames, LookPcs, CreatePcs, UnlinkPcs, LockedPcs, RenamePcs
    <3> QED BY <3>1, RenameKept DEF b, RenameMove, SameLocks
  <2>4. LockTypes'
    BY <1>1, <1>2 DEF RenameMove, SameLocks, LockTypes
  <2> QED BY <2>1, <2>2, <2>3, <2>4 DEF LockChange
<1>9. PlaceOK(c, dent')
  <2>1. c.op \in Changing => DirsOnPath(c, dent')
    <3>1. dent[b.fromdir].isdir /\ dent[b.todir].isdir
      BY <1>1, <1>2 DEF PlaceOK, DirsOnPath, Changing
    <3> QED BY <1>3, <1>7, <3>1 DEF DirsOnPath
  <2>2. c.op \in Changing => LookupAt(c, dent')
    BY <1>1, <1>3 DEF LookupAt
  <2>3. c.op \in Changing => UnlinkAt(c, dent')
    BY <1>1, <1>2, <1>3 DEF UnlinkAt, LookPcs, CreatePcs, UnlinkPcs, LockedPcs, RenamePcs
  <2>4. c.op \in Changing => RenameAt(c, dent')
    <3>1. c.val = Null
      BY <1>1, <1>2, <1>3 DEF OpsMatch, Null
    <3> QED BY <1>1, <1>2, <1>3, <1>7, <3>1 DEF RenameAt
  <2> QED BY <1>1, <1>3, <2>1, <2>2, <2>3, <2>4 DEF PlaceOK
<1>10. \A r \in {b.path, b.to} : /\ r \in BusyC(b) /\ Front(r) \in BusyC(b)
                      /\ Writes(b, ResolveIn(dent, Front(r)))
  BY <1>1, <1>2 DEF BusyC, Busy, Writes, LockedPcs
<1>11. /\ SameCall(b, c) /\ uidNumber' \in Nat
       /\ {b.path, b.to} \subseteq Paths \ {<<>>}
  BY <1>1, <1>2, <1>3 DEF SameCall, RenameMove
<1> DEFINE R == {b.path, b.to}
<1>13. /\ R \subseteq Paths \ {<<>>} /\ Local(dent, dent', R)
       /\ \A r \in R : /\ r \in BusyC(b) /\ Front(r) \in BusyC(b)
                       /\ Writes(b, ResolveIn(dent, Front(r)))
  BY <1>7, <1>10, <1>11
<1> HIDE DEF R
<1> QED BY <1>2, <1>4, <1>5, <1>6, <1>7, <1>8, <1>9, <1>11, <1>13, ShapeStep DEF b

\* The address that an allocation returns is free memory.
LEMMA SomeFree ==
    ASSUME FreeDentries # {}
    PROVE  Min(FreeDentries) \in Dentries /\ ~dent[Min(FreeDentries)].alive
<1>1. FreeDentries \subseteq Nat
  BY Memory DEF FreeDentries
<1>2. \E m \in FreeDentries : \A k \in FreeDentries : m <= k
  BY <1>1, LeastNat
<1>3. Min(FreeDentries) \in FreeDentries
  BY <1>2 DEF Min
<1> QED BY <1>3 DEF FreeDentries

\* The dentry that fs_allocate_dentry returns.
LEMMA NewEntry ==
    ASSUME TreeInv, NEW t \in TreeThreads, NEW isdir \in BOOLEAN, thr[t].par \in Dentries,
           thr[t].path \in Paths, thr[t].path # <<>>
    PROVE  /\ NewDentry(t, isdir) \in Entry
           /\ NewDentry(t, isdir).alive /\ NewDentry(t, isdir).parent = thr[t].par
           /\ NewDentry(t, isdir).name = Last(thr[t].path) /\ NewDentry(t, isdir).kids = Blank.kids
           /\ NewDentry(t, isdir).nh = 2 /\ AllocateUid(uidNumber) \in Nat
<1> DEFINE u == AllocateUid(uidNumber)
           l == IF isdir THEN 2 ELSE 1
<1>1. u \in Nat
  BY TreeAssumption DEF AllocateUid, TreeInv, TreeTypes
<1>2. l \in Int /\ 2 \in Int /\ thr[t].par \in NulOr /\ Last(thr[t].path) \in FileNames \cup {""}
  <2>1. l \in Int /\ 2 \in Int
    OBVIOUS
  <2>2. Last(thr[t].path) \in FileNames
    BY PathParts
  <2> QED BY <2>1, <2>2 DEF NulOr
<1>3. Blank \in Entry
  BY BlankEntry
<1>4. NewDentry(t, isdir) =
        [Blank EXCEPT !.alive = TRUE, !.isdir = isdir, !.parent = thr[t].par,
                      !.name = Last(thr[t].path), !.nh = 2, !.lc = l, !.uid = u]
  BY DEF NewDentry
<1> HIDE DEF u, l
<1> QED BY <1>1, <1>2, <1>3, <1>4 DEF Entry, u

\* ltfs_fsops_create enters the new dentry in the directory.
LEMMA CreateEntryInv ==
    ASSUME TreeInv, NEW t \in TreeThreads, CreateEntry(t)
    PROVE  TreeInv'
<1> DEFINE b == thr[t]
           c == [b EXCEPT !.cur = Min(FreeDentries), !.ok = TRUE, !.pc = "cr4"]
<1>1. /\ b \in Call /\ OpsMatch(b) /\ Pointers(b) /\ Walk(b) /\ PlaceOK(b, dent)
      /\ thr \in [TreeThreads -> Call] /\ dent \in [Dentries -> Entry] /\ GoodTree(dent)
      /\ LockTypes /\ uidNumber \in Nat /\ Root \in Dentries /\ Null \notin Dentries
      /\ b.pc = "cr1"
  BY Here DEF CreateEntry
<1>2. /\ b.op # "none"
      /\ b.op \in {"create", "mkdir"} /\ b.path \in Paths /\ b.path # <<>> /\ b.to = <<>>
      /\ b.par \in Dentries /\ b.cur = Null
      /\ Min(FreeDentries) \in Dentries /\ ~dent[Min(FreeDentries)].alive
      /\ ResolveIn(dent, Front(b.path)) = b.par /\ Front(b.path) # b.path
      /\ Last(b.path) \in FileNames /\ dent[b.par].kids[Last(b.path)] = Null
      /\ dent[b.par].isdir /\ dent[b.par].alive /\ (b.par = Root \/ dent[b.par].parent # Null)
      /\ uidNumber' \in Nat
  <2>1. /\ b.op \in {"create", "mkdir"} /\ b.path \in Paths /\ b.path # <<>> /\ b.to = <<>>
        /\ b.par \in Dentries /\ b.cur = Null
    BY <1>1 DEF OpsMatch, Pointers, Call, NulOr, Changing, LookPcs, CreatePcs, UnlinkPcs, LockedPcs, RenamePcs
  <2>2. Min(FreeDentries) \in Dentries /\ ~dent[Min(FreeDentries)].alive
    BY SomeFree DEF CreateEntry
  <2>3. ResolveIn(dent, Front(b.path)) = b.par
    BY <1>1, <2>1 DEF PlaceOK, LookupAt, Changing
  <2>4. Front(b.path) # b.path /\ Front(b.path) \in Paths /\ Last(b.path) \in FileNames
    BY <2>1, FrontShorter, PathParts
  <2>5. dent[b.par].kids[Last(b.path)] = Null
    BY DEF CreateEntry
  <2>6. dent[b.par].isdir
    BY <1>1, <2>1, <2>3 DEF PlaceOK, DirsOnPath, Changing
  <2>7. dent[b.par].alive /\ (b.par = Root \/ dent[b.par].parent # Null)
    BY <1>1, <2>1, <2>3, <2>4, ResolveType DEF TreeHandle
  <2>8. uidNumber' \in Nat
    <3>1. AllocateUid(uidNumber) \in Nat
      BY <1>1, TreeAssumption DEF AllocateUid
    <3> QED BY <3>1 DEF CreateEntry
  <2> QED BY <2>1, <2>2, <2>3, <2>4, <2>5, <2>6, <2>7, <2>8
<1>3. /\ c.op = b.op /\ c.path = b.path /\ c.to = b.to
      /\ c.want = b.want /\ c.cur = Min(FreeDentries) /\ c.par = b.par
      /\ c.fromdir = b.fromdir /\ c.todir = b.todir /\ c.fromdent = b.fromdent
      /\ c.todent = b.todent /\ c.val = b.val /\ c.ok = TRUE
      /\ c.fh = b.fh /\ c.pc = "cr4"
  BY <1>1 DEF Call
<1>4. c \in Call
  <2>1. /\ Min(FreeDentries) \in NulOr
        /\ TRUE \in BOOLEAN
        /\ "cr4" \in Pcs
    BY <1>1, <1>2 DEF Call, NulOr, Pcs, LookPcs, CreatePcs, UnlinkPcs, LockedPcs, RenamePcs
  <2> QED BY <1>1, <2>1 DEF Call
<1>5. thr' = [thr EXCEPT ![t] = c] /\ Steps(thr, thr', t, c)
  BY <1>1 DEF CreateEntry, Goto, Steps
<1> HIDE DEF b, c
<1>6. CallOK(c)
  <2>1. Target(c) = Target(b)
    BY <1>3 DEF Target
  <2>2. OpsMatch(c)
    BY <1>1, <1>2, <1>3, <2>1 DEF OpsMatch, Changing, LookPcs, CreatePcs, UnlinkPcs, LockedPcs, RenamePcs
  <2>3. Pointers(c)
    BY <1>1, <1>2, <1>3, <2>1 DEF OpsMatch, Pointers, First, FirstName, LookPcs, CreatePcs, UnlinkPcs, LockedPcs, RenamePcs
  <2>4. Walk(c)
    BY <1>1, <1>2, <1>3, <2>1 DEF Walk, FirstName, LookPcs, CreatePcs, UnlinkPcs, LockedPcs, RenamePcs
  <2> QED BY <2>2, <2>3, <2>4 DEF CallOK
<1>7. /\ dent' \in [Dentries -> Entry] /\ GoodTree(dent') /\ Counts(dent', thr')
      /\ Local(dent, dent', {b.path})
      /\ ResolveIn(dent', Front(b.path)) = b.par /\ dent'[b.par].isdir = dent[b.par].isdir
  <2> DEFINE d == Min(FreeDentries)
             isdir == b.op = "mkdir"
             ed == NewDentry(t, isdir)
             l == IF isdir THEN dent[b.par].lc + 1 ELSE dent[b.par].lc
             n0 == Last(b.path)
  <2>1. d \in Dentries /\ ~dent[d].alive /\ d # b.par /\ n0 \in FileNames
    BY <1>2
  <2>2. dent' = [dent EXCEPT ![d] = ed, ![b.par] = [dent[b.par] EXCEPT !.kids[n0] = d, !.lc = l]]
    BY <1>1, <1>2, <2>1 DEF CreateEntry, b
  <2>3. /\ ed \in Entry /\ ed.alive /\ ed.parent = b.par /\ ed.name = n0 /\ ed.kids = Blank.kids
        /\ ed.nh = 2
    BY <1>2, NewEntry DEF b
  <2>4. l \in Int
    <3>1. dent[b.par] \in Entry
      BY <1>1, <1>2
    <3>2. dent[b.par].lc \in Int
      BY <3>1 DEF Entry
    <3> QED BY <3>2
  <2>10. c.cur = d
    BY <1>3
  <2> HIDE DEF d, ed, l, isdir
  <2>5. /\ dent' \in [Dentries -> Entry] /\ GoodTree(dent') /\ TreeHandle(dent', d) = 1 /\ dent'[d] = ed
        /\ \A e \in Dentries : e # d => /\ dent'[e].alive = dent[e].alive /\ dent'[e].nh = dent[e].nh
                                        /\ TreeHandle(dent', e) = TreeHandle(dent, e)
        /\ \A e \in Dentries, n \in FileNames :
              dent'[e].kids[n] = dent[e].kids[n] \/ (e = b.par /\ n = n0)
        /\ \A e \in Dentries : e # d => dent'[e].isdir = dent[e].isdir
    <3> DEFINE p == b.par
    <3>1. /\ dent \in [Dentries -> Entry] /\ GoodTree(dent) /\ p \in Dentries
          /\ dent[p].alive /\ dent[p].isdir /\ (p = Root \/ dent[p].parent # Null)
          /\ dent[p].kids[n0] = Null /\ ed.parent = p
          /\ Inserted(dent, dent', p, n0, d, l, ed)
      BY <1>1, <1>2, <2>2, <2>3 DEF Inserted
    <3> HIDE DEF p, n0
    <3>2. /\ dent' \in [Dentries -> Entry] /\ GoodTree(dent') /\ TreeHandle(dent', d) = 1 /\ dent'[d] = ed
          /\ \A e \in Dentries : e # d => /\ dent'[e].alive = dent[e].alive /\ dent'[e].nh = dent[e].nh
                                        /\ TreeHandle(dent', e) = TreeHandle(dent, e)
          /\ \A e \in Dentries, n \in FileNames :
                dent'[e].kids[n] = dent[e].kids[n] \/ (e = p /\ n = n0)
          /\ \A e \in Dentries : e # d => dent'[e].isdir = dent[e].isdir
      BY <2>1, <2>3, <2>4, <3>1, InsertTree
    <3> QED BY <3>2 DEF p
  <2>6. Counts(dent', thr')
    <3>1. TakeSlot(b, c, "cur", d)
      BY <1>1, <1>2, <1>3, <2>10, PtrIs DEF TakeSlot, Slots, Pointers, LookPcs, CreatePcs, UnlinkPcs, LockedPcs, RenamePcs
    <3>2. /\ Cardinality(Holders(thr', d)) = Cardinality(Holders(thr, d)) + 1
          /\ \A e \in Dentries : e # d => Holders(thr', e) = Holders(thr, e)
      BY <1>5, <2>1, <3>1, SlotTaken, ZenonT(30) DEF b
    <3>3. Counts(dent, thr)
      BY DEF TreeInv
    <3>4. Holders(thr, d) = {}
      BY <2>1, <3>3 DEF Counts
    <3>5. Cardinality(Holders(thr', d)) = 1
      BY <3>2, <3>4, NoHolder
    <3>6. dent'[d].alive /\ dent'[d].nh = Cardinality(Holders(thr', d)) + TreeHandle(dent', d)
      BY <2>3, <2>5, <3>5
    <3>7. ASSUME NEW e \in Dentries, e # d
          PROVE  IF dent'[e].alive THEN dent'[e].nh = Cardinality(Holders(thr', e)) + TreeHandle(dent', e)
                 ELSE Holders(thr', e) = {}
      <4>1. /\ dent'[e].alive = dent[e].alive /\ dent'[e].nh = dent[e].nh
            /\ TreeHandle(dent', e) = TreeHandle(dent, e) /\ Holders(thr', e) = Holders(thr, e)
        BY <2>5, <3>2, <3>7
      <4>2. IF dent[e].alive THEN dent[e].nh = Cardinality(Holders(thr, e)) + TreeHandle(dent, e)
            ELSE Holders(thr, e) = {}
        BY <3>3 DEF Counts
      <4> QED BY <4>1, <4>2
    <3> QED BY <3>6, <3>7 DEF Counts
  <2>7. Local(dent, dent', {b.path})
    BY <1>2, <2>1, <2>5 DEF Local
  <2>8. /\ ResolveIn(dent', Front(b.path)) = ResolveIn(dent, Front(b.path))
        /\ dent'[b.par].isdir = dent[b.par].isdir
    <3>1. /\ b.path \in Paths /\ b.path # <<>> /\ Front(b.path) \notin {b.path}
          /\ dent \in [Dentries -> Entry] /\ GoodTree(dent) /\ dent' \in [Dentries -> Entry]
          /\ GoodTree(dent') /\ {b.path} \subseteq Paths \ {<<>>}
      BY <1>1, <1>2, <2>5
    <3>2. ResolveIn(dent, Front(b.path)) = b.par /\ b.par # Null
      BY <1>1, <1>2
    <3> QED BY <2>7, <3>1, <3>2, FrontStable
  <2> QED BY <1>2, <2>5, <2>6, <2>7, <2>8
<1>8. LockChange(t, c) /\ LockTypes'
  <2>1. ContentsChange(t, c)
    <3>1. \A d \in Dentries : /\ Writes(b, d) <=> d = b.par
                              /\ ~Reads(b, d) /\ ~Reads(c, d) /\ ~Writes(c, d)
      BY <1>1, <1>2, <1>3 DEF Reads, Writes, WantsW, LookPcs, CreatePcs, UnlinkPcs, LockedPcs, RenamePcs
    <3>2. contents' = UnlockW(contents, b.par)
      BY <1>2 DEF CreateEntry, b
    <3> QED BY <1>2, <3>1, <3>2, OpensW DEF b
  <2>2. MetaChange(t, c)
    <3>1. \A d \in Dentries : HasMeta(c, d) <=> HasMeta(b, d)
      BY <1>1, <1>2, <1>3 DEF HasMeta, First, Pointers, LookPcs, CreatePcs, UnlinkPcs, LockedPcs, RenamePcs
    <3> QED BY <3>1, MetaKept DEF b, CreateEntry, SameLocks
  <2>3. RenameChange(t, c)
    <3>1. Renames(c) <=> Renames(b)
      BY <1>1, <1>2, <1>3 DEF OpsMatch, Renames, LookPcs, CreatePcs, UnlinkPcs, LockedPcs, RenamePcs
    <3> QED BY <3>1, RenameKept DEF b, CreateEntry, SameLocks
  <2>4. LockTypes'
    <3>1. contents' \in ContentsType
      <4>1. contents \in ContentsType /\ contents' = UnlockW(contents, b.par)
        BY <1>1, <1>2 DEF CreateEntry, b, LockTypes, ContentsType
      <4> QED BY <1>2, <4>1, LockOps
    <3> QED BY <1>1, <3>1 DEF CreateEntry, LockTypes, ContentsType
  <2> QED BY <2>1, <2>2, <2>3, <2>4 DEF LockChange
<1>9. PlaceOK(c, dent')
  <2>1. c.op \in Changing => DirsOnPath(c, dent')
    BY <1>1, <1>2, <1>3, <1>7, ZenonT(30) DEF PlaceOK, DirsOnPath
  <2>2. c.op \in Changing => LookupAt(c, dent')
    BY <1>1, <1>3 DEF LookupAt
  <2>3. c.op \in Changing => UnlinkAt(c, dent')
    BY <1>1, <1>2, <1>3, <1>7 DEF UnlinkAt, LookPcs, CreatePcs, UnlinkPcs, LockedPcs, RenamePcs
  <2>4. c.op \in Changing => RenameAt(c, dent')
    BY <1>1, <1>2, <1>3 DEF RenameAt, Pointers, LookPcs, CreatePcs, UnlinkPcs, LockedPcs, RenamePcs
  <2> QED BY <1>1, <1>3, <2>1, <2>2, <2>3, <2>4 DEF PlaceOK
<1>10. \A r \in {b.path} : /\ r \in BusyC(b) /\ Front(r) \in BusyC(b)
                      /\ Writes(b, ResolveIn(dent, Front(r)))
  BY <1>1, <1>2 DEF BusyC, Busy, Writes
<1>11. /\ SameCall(b, c) /\ uidNumber' \in Nat
       /\ {b.path} \subseteq Paths \ {<<>>}
  BY <1>1, <1>2, <1>3 DEF SameCall
<1> DEFINE R == {b.path}
<1>13. /\ R \subseteq Paths \ {<<>>} /\ Local(dent, dent', R)
       /\ \A r \in R : /\ r \in BusyC(b) /\ Front(r) \in BusyC(b)
                       /\ Writes(b, ResolveIn(dent, Front(r)))
  BY <1>7, <1>10, <1>11
<1> HIDE DEF R
<1> QED BY <1>2, <1>4, <1>5, <1>6, <1>7, <1>8, <1>9, <1>11, <1>13, ShapeStep DEF b

-----------------------------------------------------------------------------
(* The start of a call.                                                    *)

\* A call starts: the kernel lets it in and it holds no lock and no new handle yet.
LEMMA BeginStep ==
    ASSUME TreeInv, NEW t \in TreeThreads, NEW c \in Call, thr' = [thr EXCEPT ![t] = c],
           thr[t].pc = "idle", UNCHANGED <<dent, contents, meta, renameLock, uidNumber>>,
           CallOK(c), Counts(dent', thr'), PlaceOK(c, dent),
           \A d \in Dentries : ~Reads(c, d) /\ ~Writes(c, d) /\ ~HasMeta(c, d),
           ~Renames(c),
           \A u \in TreeThreads \ {t} : NotIdle(u) => BusyC(c) \cap BusyC(thr[u]) = {}
    PROVE  TreeInv'
<1>0. thr \in [TreeThreads -> Call] /\ dent \in [Dentries -> Entry] /\ GoodTree(dent) /\ LockTypes
  BY DEF TreeInv, TreeTypes, LockTypes
<1>1. Steps(thr, thr', t, c) /\ thr'[t] = c /\ \A u \in TreeThreads : u # t => thr'[u] = thr[u]
  BY <1>0 DEF Steps
<1>2. TreeTypes'
  BY <1>0 DEF TreeTypes, TreeInv
<1>3. \A u \in TreeThreads : CallOK(thr'[u])
  BY <1>1 DEF TreeInv
<1>4. thr[t].op = "none"
  BY DEF TreeInv, CallOK, OpsMatch
<1>5. LocksTrue'
  <2>1. /\ \A d \in Dentries : ~Reads(thr[t], d) /\ ~Writes(thr[t], d) /\ ~HasMeta(thr[t], d)
        /\ ~Renames(thr[t])
    BY <1>4 DEF Reads, Writes, HasMeta, Renames, LockedPcs
  <2>2. ContentsChange(t, c)
    BY <2>1, ContentsKept
  <2>3. MetaChange(t, c)
    BY <2>1, MetaKept
  <2>4. RenameChange(t, c)
    BY <2>1, RenameKept
  <2>5. LockChange(t, c)
    BY <2>2, <2>3, <2>4 DEF LockChange
  <2> QED BY <1>0, <1>1, <2>5, LocksStep DEF TreeInv
<1>6. Apart'
  <2> SUFFICES ASSUME NEW u \in TreeThreads, NEW v \in TreeThreads, u # v
               PROVE  BusyC(thr'[u]) \cap BusyC(thr'[v]) = {}
    BY DEF Apart
  <2>1. ASSUME NEW w \in TreeThreads, w # t PROVE BusyC(c) \cap BusyC(thr[w]) = {}
    <3>1. CASE NotIdle(w)
      BY <2>1, <3>1
    <3>2. CASE ~NotIdle(w)
      <4>1. BusyC(thr[w]) = {}
        BY <3>2 DEF NotIdle, BusyC, Busy
      <4> QED BY <4>1
    <3> QED BY <3>1, <3>2
  <2>2. BusyC(thr[u]) \cap BusyC(thr[v]) = {}
    BY DEF TreeInv, Apart
  <2> QED BY <1>1, <2>1, <2>2
<1>8. \A u \in TreeThreads : PlaceOK(thr'[u], dent')
  BY <1>1 DEF TreeInv
<1> QED BY <1>0, <1>2, <1>3, <1>5, <1>6, <1>8 DEF TreeInv

\* An idle thread has nothing but its open file.
LEMMA IdleCall ==
    ASSUME TreeInv, NEW t \in TreeThreads, Idle(t)
    PROVE  /\ thr[t].op = "none" /\ thr[t] = Quiet(thr[t].fh) /\ thr[t].fh \in NulOr
           /\ thr[t].cur = Null /\ thr[t].par = Null /\ thr[t].fromdir = Null /\ thr[t].todir = Null
           /\ thr[t].fromdent = Null /\ thr[t].todent = Null /\ thr[t].ok = FALSE /\ thr[t].val = 0
           /\ thr[t].path = <<>> /\ thr[t].to = <<>> /\ thr[t].pc = "idle"
<1>1. thr[t] \in Call /\ OpsMatch(thr[t]) /\ thr[t].pc = "idle"
  BY Here DEF Idle
<1>2. thr[t].op = "none" /\ thr[t] = Quiet(thr[t].fh) /\ thr[t].fh \in NulOr
  BY <1>1 DEF OpsMatch, Call
<1> DEFINE f == thr[t].fh
<1>3. thr[t] = Quiet(f)
  BY <1>2
<1> HIDE DEF f
<1>4. /\ Quiet(f).cur = Null /\ Quiet(f).par = Null /\ Quiet(f).fromdir = Null /\ Quiet(f).todir = Null
      /\ Quiet(f).fromdent = Null /\ Quiet(f).todent = Null /\ Quiet(f).ok = FALSE
      /\ Quiet(f).path = <<>> /\ Quiet(f).to = <<>> /\ Quiet(f).val = 0
  BY DEF Quiet
<1> QED BY <1>1, <1>2, <1>3, <1>4

\* release of the open file starts.
LEMMA StartReleaseInv ==
    ASSUME TreeInv, NEW t \in TreeThreads, StartRelease(t)
    PROVE  TreeInv'
<1> DEFINE b == thr[t]
           c == [b EXCEPT !.op = "release", !.cur = b.fh, !.pc = "close"]
<1>1. /\ b \in Call /\ thr \in [TreeThreads -> Call] /\ Null \notin Dentries /\ Counts(dent, thr)
      /\ Idle(t) /\ b.fh # Null
  BY Here DEF StartRelease
<1>2. /\ b.op = "none" /\ b.fh \in NulOr /\ b.pc = "idle"
      /\ b.cur = Null /\ b.par = Null /\ b.fromdir = Null /\ b.todir = Null
      /\ b.fromdent = Null /\ b.todent = Null /\ b.ok = FALSE /\ b.path = <<>> /\ b.to = <<>>
  BY <1>1, IdleCall
<1>3. /\ c.op = "release" /\ c.path = b.path /\ c.to = b.to /\ c.want = b.want /\ c.cur = b.fh
      /\ c.par = b.par /\ c.fromdir = b.fromdir /\ c.todir = b.todir /\ c.fromdent = b.fromdent
      /\ c.todent = b.todent /\ c.ok = b.ok /\ c.fh = b.fh /\ c.pc = "close"
  BY <1>1 DEF Call
<1>4. c \in Call
  <2>1. "release" \in Operations \cup {"none", "release"} /\ "close" \in Pcs
    BY DEF Pcs
  <2> QED BY <1>1, <1>2, <2>1 DEF Call
<1>5. thr' = [thr EXCEPT ![t] = c] /\ Steps(thr, thr', t, c)
  BY <1>1 DEF StartRelease, Goto, Steps
<1>6. UNCHANGED <<dent, contents, meta, renameLock, uidNumber>>
  BY DEF StartRelease, SameTree, SameLocks
<1> HIDE DEF b, c
<1>7. CallOK(c)
  <2>1. OpsMatch(c)
    BY <1>1, <1>2, <1>3 DEF OpsMatch, Changing, LookPcs, CreatePcs, UnlinkPcs, LockedPcs, RenamePcs
  <2>2. Pointers(c)
    BY <1>1, <1>2, <1>3 DEF Pointers, LookPcs, CreatePcs, UnlinkPcs, LockedPcs, RenamePcs
  <2>3. Walk(c)
    BY <1>3 DEF Walk, LookPcs
  <2> QED BY <2>1, <2>2, <2>3 DEF CallOK
<1>8. Counts(dent', thr')
  <2>1. PassSlot(b, c, "fh", "cur")
    BY <1>1, <1>2, <1>3, PtrIs DEF PassSlot, Slots
  <2> QED BY <1>1, <1>5, <1>6, <2>1, CountsPass DEF b
<1>9. PlaceOK(c, dent)
  BY <1>3 DEF PlaceOK, Changing
<1>10. (\A d \in Dentries : ~Reads(c, d) /\ ~Writes(c, d) /\ ~HasMeta(c, d)) /\ ~Renames(c)
  BY <1>3 DEF Reads, Writes, HasMeta, Renames, LockedPcs
<1>11. BusyC(c) = {}
  BY <1>3 DEF BusyC, Busy
<1> QED BY <1>2, <1>4, <1>5, <1>6, <1>7, <1>8, <1>9, <1>10, <1>11, BeginStep DEF b

\* A call on a path starts.
LEMMA StartCallInv ==
    ASSUME TreeInv, NEW t \in TreeThreads, NEW w \in Workload,
           StartCall(t, w[1], w[2], w[3])
    PROVE  TreeInv'
<1> DEFINE b == thr[t]
           op == w[1]
           p == w[2]
           q == w[3]
           pc == IF op = "rename" THEN "rn0" ELSE "lk0"
           want == IF op \in {"create", "mkdir", "rename"} THEN Front(p) ELSE p
           c == [b EXCEPT !.op = op, !.path = p, !.to = q, !.want = want, !.pc = pc]
<1>1. /\ b \in Call /\ thr \in [TreeThreads -> Call] /\ Null \notin Dentries /\ Counts(dent, thr)
      /\ Idle(t) /\ (op \in {"open", "create"} => b.fh = Null) /\ VfsAllows(t, op, p, q)
  BY Here DEF StartCall
<1>2. /\ b.op = "none" /\ b.fh \in NulOr /\ b.pc = "idle"
      /\ b.cur = Null /\ b.par = Null /\ b.fromdir = Null /\ b.todir = Null
      /\ b.fromdent = Null /\ b.todent = Null /\ b.ok = FALSE /\ b.val = 0
  BY <1>1, IdleCall
<1>3. /\ op \in Operations /\ p \in Paths /\ q \in Paths
      /\ op \in Changing => p # <<>>
      /\ op = "rename" <=> q # <<>>
  <2>1. w \in Operations \X Paths \X Paths
    BY TreeAssumption
  <2> QED BY <2>1, TreeAssumption DEF Changing
<1>4. want \in Paths
  BY <1>3, PathParts DEF Changing
<1>5. pc \in Pcs /\ pc \in {"rn0", "lk0"} /\ (pc = "rn0" <=> op = "rename")
  BY DEF Pcs, LookPcs
<1>6. thr' = [thr EXCEPT ![t] = c] /\ Steps(thr, thr', t, c)
  BY <1>1 DEF StartCall, Goto, Steps
<1>7. UNCHANGED <<dent, contents, meta, renameLock, uidNumber>>
  BY DEF StartCall, SameTree, SameLocks
<1>15. want = IF op \in {"create", "mkdir", "rename"} THEN Front(p) ELSE p
  OBVIOUS
<1> HIDE DEF b, op, p, q, pc, want
<1>8. /\ c.op = op /\ c.path = p /\ c.to = q /\ c.want = want /\ c.cur = b.cur
      /\ c.par = b.par /\ c.fromdir = b.fromdir /\ c.todir = b.todir /\ c.fromdent = b.fromdent
      /\ c.todent = b.todent /\ c.val = b.val /\ c.ok = b.ok /\ c.fh = b.fh /\ c.pc = pc
  BY <1>1 DEF Call
<1>9. c \in Call
  BY <1>1, <1>3, <1>4, <1>5 DEF Call
<1> HIDE DEF c
<1>10. CallOK(c)
  <2>1. OpsMatch(c)
    BY <1>1, <1>2, <1>3, <1>5, <1>8 DEF OpsMatch, Operations, LookPcs, CreatePcs, UnlinkPcs, LockedPcs, RenamePcs
  <2>2. Pointers(c)
    BY <1>1, <1>2, <1>5, <1>8 DEF Pointers, LookPcs, CreatePcs, UnlinkPcs, LockedPcs, RenamePcs
  <2>3. FirstName(c)
    BY <1>2, <1>8, <1>15 DEF FirstName, Target
  <2>4. Walk(c)
    BY <1>2, <1>5, <1>8, <2>3 DEF Walk, LookPcs
  <2> QED BY <2>1, <2>2, <2>4 DEF CallOK
<1>11. Counts(dent', thr')
  <2>1. SameSlots(b, c)
    BY <1>2, <1>3, <1>5, <1>8, PtrIs DEF SameSlots, Slots, Operations
  <2> QED BY <1>1, <1>6, <1>7, <2>1, CountsSame DEF b
<1>12. PlaceOK(c, dent)
  <2>1. op \in Changing => Busy(op, p, q) # {}
    BY DEF Changing, Busy
  <2>2. c.op \in Changing => DirsOnPath(c, dent)
    BY <1>1, <1>8, <2>1 DEF VfsAllows, DirsOnPath, Resolve
  <2>3. LookupAt(c, dent) /\ UnlinkAt(c, dent) /\ RenameAt(c, dent)
    BY <1>2, <1>5, <1>8 DEF LookupAt, UnlinkAt, RenameAt, UnlinkPcs, Null
  <2> QED BY <1>5, <1>8, <2>2, <2>3 DEF PlaceOK
<1>13. (\A d \in Dentries : ~Reads(c, d) /\ ~Writes(c, d) /\ ~HasMeta(c, d)) /\ ~Renames(c)
  BY <1>5, <1>8 DEF Reads, Writes, HasMeta, Renames, LockedPcs
<1>14. ASSUME NEW u \in TreeThreads \ {t}, NotIdle(u)
       PROVE  BusyC(c) \cap BusyC(thr[u]) = {}
  <2>1. ~Idle(u)
    BY <1>14, IdleCall DEF NotIdle
  <2> QED BY <1>1, <1>8, <2>1 DEF VfsAllows, BusyC
<1> QED BY <1>2, <1>6, <1>7, <1>9, <1>10, <1>11, <1>12, <1>13, <1>14, BeginStep DEF b

-----------------------------------------------------------------------------
(* The invariant.                                                          *)

\* The mounted volume, before the first call.
LEMMA InitInv == TreeInit => Inv
<1> SUFFICES ASSUME TreeInit PROVE TreeInv
  BY DEF Inv, TreeInit
<1> DEFINE n == CHOOSE x \in FileNames : TRUE
           r == [Blank EXCEPT !.alive = TRUE, !.isdir = TRUE, !.nh = 1,
                              !.lc = 3, !.uid = 1, !.kids[n] = 2]
           s == [Blank EXCEPT !.alive = TRUE, !.isdir = TRUE, !.nh = 1,
                              !.lc = 2, !.uid = 2, !.kids[n] = 3, !.parent = Root, !.name = n]
           f == [Blank EXCEPT !.alive = TRUE, !.nh = 1, !.lc = 1, !.uid = 3,
                              !.parent = 2, !.name = n]
<1>0. /\ n \in FileNames /\ Root \in Dentries /\ 2 \in Dentries /\ 3 \in Dentries
      /\ Null \notin Dentries /\ Root = 1 /\ Null = 0 /\ NoThread \notin TreeThreads
  BY Memory, TreeAssumption DEF Root, Null
<1>1. dent = [d \in Dentries |-> CASE d = Root -> r [] d = 2 -> s [] d = 3 -> f [] OTHER -> Blank]
  BY DEF TreeInit
<1> HIDE DEF n
<1>2. /\ Blank \in Entry /\ ~Blank.alive /\ Blank.parent = Null /\ Blank.isdir = FALSE
      /\ Blank.kids \in [FileNames -> NulOr] /\ \A m \in FileNames : Blank.kids[m] = Null
  BY BlankEntry DEF Blank, Entry
<1> DEFINE k2 == [Blank.kids EXCEPT ![n] = 2]
           k3 == [Blank.kids EXCEPT ![n] = 3]
<1>3. /\ k2 \in [FileNames -> NulOr] /\ k3 \in [FileNames -> NulOr]
      /\ \A m \in FileNames : k2[m] = (IF m = n THEN 2 ELSE Null) /\ k3[m] = IF m = n THEN 3 ELSE Null
  BY <1>0, <1>2 DEF NulOr
<1>4. r = [Blank EXCEPT !.alive = TRUE, !.isdir = TRUE, !.nh = 1, !.lc = 3, !.uid = 1, !.kids = k2]
  BY <1>2 DEF Entry
<1>5. s = [Blank EXCEPT !.alive = TRUE, !.isdir = TRUE, !.nh = 1, !.lc = 2, !.uid = 2, !.kids = k3,
                        !.parent = Root, !.name = n]
  BY <1>2 DEF Entry
<1>19. f = [Blank EXCEPT !.alive = TRUE, !.nh = 1, !.lc = 1, !.uid = 3, !.parent = 2, !.name = n]
  OBVIOUS
<1>20. /\ 1 \in Int /\ 2 \in Int /\ 3 \in Int /\ 1 \in Nat /\ 2 \in Nat /\ 3 \in Nat /\ TRUE \in BOOLEAN
  OBVIOUS
<1> HIDE DEF k2, k3, r, s, f
<1>6. /\ r \in Entry /\ r.alive /\ r.isdir /\ r.nh = 1 /\ r.kids = k2 /\ r.parent = Null
  BY ONLY <1>2, <1>3, <1>4, <1>20 DEF Entry
<1>7. /\ s \in Entry /\ s.alive /\ s.isdir /\ s.nh = 1 /\ s.kids = k3 /\ s.parent = Root /\ s.name = n
  <2>1. Root \in NulOr /\ n \in FileNames \cup {""}
    BY <1>0 DEF NulOr
  <2> QED BY ONLY <1>2, <1>3, <1>5, <1>20, <2>1 DEF Entry
<1>8. /\ f \in Entry /\ f.alive /\ f.nh = 1 /\ f.kids = Blank.kids /\ f.parent = 2 /\ f.name = n
  <2>1. 2 \in NulOr /\ n \in FileNames \cup {""}
    BY <1>0 DEF NulOr
  <2> QED BY ONLY <1>2, <1>19, <1>20, <2>1 DEF Entry
<1>9. /\ dent \in [Dentries -> Entry] /\ dent[Root] = r /\ dent[2] = s /\ dent[3] = f
      /\ \A d \in Dentries : d \notin {Root, 2, 3} => dent[d] = Blank
  BY <1>0, <1>1, <1>2, <1>6, <1>7, <1>8
<1>10. \A d \in Dentries, m \in FileNames :
          dent[d].kids[m] = IF d = Root /\ m = n THEN 2 ELSE IF d = 2 /\ m = n THEN 3 ELSE Null
  BY <1>0, <1>2, <1>3, <1>6, <1>7, <1>8, <1>9
<1>11. \A d \in Dentries :
          /\ dent[d].parent = IF d = 2 THEN Root ELSE IF d = 3 THEN 2 ELSE Null
          /\ dent[d].alive <=> d \in {Root, 2, 3}
          /\ d \in {Root, 2} => dent[d].isdir
          /\ d \in {2, 3} => dent[d].name = n
          /\ d \in {Root, 2, 3} => dent[d].nh = 1
  BY <1>0, <1>2, <1>6, <1>7, <1>8, <1>9
<1>12. GoodTree(dent)
  <2>1. \A d \in Dentries : ~dent[d].alive => dent[d] = Blank
    BY <1>9, <1>11
  <2>2. ASSUME NEW d \in Dentries, NEW m \in FileNames, dent[d].kids[m] # Null
        PROVE  /\ dent[dent[d].kids[m]].alive /\ dent[dent[d].kids[m]].parent = d
               /\ dent[dent[d].kids[m]].name = m /\ dent[d].isdir /\ (d = Root \/ dent[d].parent # Null)
    <3>1. (d = Root \/ d = 2) /\ m = n /\ dent[d].kids[m] = IF d = Root THEN 2 ELSE 3
      BY <1>0, <1>10, <2>2
    <3>2. CASE d = Root
      BY <1>0, <1>11, <3>1, <3>2
    <3>3. CASE d = 2
      BY <1>0, <1>11, <3>1, <3>3
    <3> QED BY <3>1, <3>2, <3>3
  <2>3. \A d \in Dentries :
           dent[d].parent # Null =>
              dent[d].name \in FileNames /\ dent[dent[d].parent].kids[dent[d].name] = d
    BY <1>0, <1>10, <1>11
  <2> QED BY <1>0, <1>11, <2>1, <2>2, <2>3 DEF GoodTree
<1>13. /\ thr = [t \in TreeThreads |-> Quiet(Null)] /\ Null \in NulOr
       /\ \A t \in TreeThreads : thr[t] = Quiet(Null)
  BY DEF TreeInit, NulOr
<1>14. /\ \A t \in TreeThreads : thr[t] \in Call /\ CallOK(thr[t]) /\ PlaceOK(thr[t], dent)
       /\ \A t \in TreeThreads, k \in Slots : Ptr(thr[t], k) = Null
       /\ \A t \in TreeThreads, d \in Dentries :
             ~Reads(thr[t], d) /\ ~Writes(thr[t], d) /\ ~HasMeta(thr[t], d)
       /\ \A t \in TreeThreads : ~Renames(thr[t]) /\ thr[t].op = "none" /\ thr[t].pc = "idle"
  BY <1>13, QuietOK
<1>15. Counts(dent, thr)
  <2>1. \A d \in Dentries : Holders(thr, d) = {}
    BY <1>0, <1>14 DEF Holders
  <2>2. \A d \in Dentries : Cardinality(Holders(thr, d)) = 0
    BY <2>1, NoHolder
  <2>3. \A d \in {Root, 2, 3} : TreeHandle(dent, d) = 1
    BY <1>0, <1>11 DEF TreeHandle
  <2> QED BY <1>11, <2>1, <2>2, <2>3 DEF Counts
<1>16. LocksTrue
  <2>1. /\ \A d \in Dentries : contents[d].w = NoThread /\ contents[d].r = {} /\ meta[d] = NoThread
        /\ renameLock = NoThread
    BY DEF TreeInit
  <2>2. ReadLocks /\ WriteLocks /\ OneKind /\ MetaLocks /\ RenameLocked
    BY <1>0, <1>14, <2>1 DEF ReadLocks, WriteLocks, OneKind, MetaLocks, RenameLocked
  <2> QED BY <2>2 DEF LocksTrue
<1>17. TreeTypes
  BY <1>9, <1>13, <1>14 DEF TreeInit, TreeTypes, Owner
<1>18. Apart
  BY <1>14 DEF Apart, BusyC, Busy
<1> QED BY <1>12, <1>14, <1>15, <1>16, <1>17, <1>18 DEF TreeInv

\* A call in progress: every step but a start needs one.
LEMMA BusyStep ==
    ASSUME NEW t \in TreeThreads, TreeStep(t)
    PROVE  /\ thr[t].pc # "idle" /\ UNCHANGED unmounted
           /\ UnlinkNotEmptyWrite(t) \/ clobbered' = clobbered
<1> USE DEF SameRest
<1>1. CASE LookupRoot(t) \/ LookupLock(t) \/ LookupEntry(t) \/ LookupMissing(t) \/ LookupFails(t) \/ LookupStep(t)
  BY <1>1 DEF LookupRoot, LookupLock, LookupEntry, LookupMissing, LookupFails, LookupStep
<1>2. CASE \/ CreateLock(t) \/ CreateExists(t) \/ CreateExistsRelease(t)
           \/ CreateEntry(t) \/ CreateFails(t) \/ CreateRelease(t)
  BY <1>2 DEF CreateLock, CreateExists, CreateExistsRelease, CreateEntry, CreateFails, CreateRelease
<1>3. CASE OpenFound(t) \/ FileOpen(t) \/ PathCall(t) \/ CloseDentry(t) \/ FileClose(t)
  BY <1>3 DEF OpenFound, FileOpen, PathCall, CloseDentry, FileClose
<1>4. CASE \/ UnlinkCheck(t) \/ UnlinkLock(t) \/ UnlinkEntry(t) \/ UnlinkRelease(t)
           \/ UnlinkNotEmptyRead(t)
  BY <1>4 DEF UnlinkCheck, UnlinkLock, UnlinkEntry, UnlinkRelease, UnlinkNotEmptyRead
<1>7. CASE UnlinkNotEmptyWrite(t)
  BY <1>7 DEF UnlinkNotEmptyWrite
<1>5. CASE \/ RenameBegin(t) \/ RenameFound(t) \/ RenameNoTarget(t)
           \/ RenameLockFirst(t) \/ RenameLookFirst(t) \/ RenameLockSecond(t)
           \/ RenameLookSecond(t) \/ RenameCheck(t)
  BY <1>5 DEF RenameBegin, RenameFound, RenameNoTarget, RenameLockFirst, RenameLookFirst,
              RenameLockSecond, RenameLookSecond, RenameCheck, LockDir
<1>6. CASE \/ RenameErrorFrom(t) \/ RenameErrorTo(t) \/ RenameReplace(t)
           \/ RenameMove(t) \/ RenameUnlock(t) \/ RenameReleaseFrom(t) \/ RenameReleaseTo(t)
           \/ RenameId(t)
  BY <1>6 DEF RenameErrorFrom, RenameErrorTo, RenameReplace, RenameMove, RenameUnlock,
              RenameReleaseFrom, RenameReleaseTo, RenameId
<1> QED BY <1>1, <1>2, <1>3, <1>4, <1>5, <1>6, <1>7 DEF TreeStep

\* Every step of a call in progress keeps the invariant, unless it overwrites a count.
LEMMA StepInv ==
    ASSUME TreeInv, NEW t \in TreeThreads, TreeStep(t), ~clobbered'
    PROVE  TreeInv'
<1>1. CASE LookupRoot(t) \/ LookupLock(t) \/ LookupEntry(t) \/ LookupMissing(t)
  BY <1>1, LookupRootInv, LookupLockInv, LookupEntryInv, LookupMissingInv
<1>2. CASE LookupFails(t)
  BY <1>2, LookupFailsTarget, LookupFailsEnd
<1>3. CASE LookupStep(t)
  BY <1>3, LookupStepLocked, LookupStepLast, LookupStepDown
<1>4. CASE CreateLock(t) \/ CreateExists(t) \/ CreateExistsRelease(t) \/ CreateEntry(t) \/ CreateFails(t)
  BY <1>4, CreateLockInv, CreateExistsInv, CreateExistsReleaseInv, CreateEntryInv, CreateFailsInv
<1>5. CASE CreateRelease(t)
  BY <1>5, CreateReleaseOpen, CreateReleaseEnd
<1>6. CASE OpenFound(t) \/ FileOpen(t) \/ PathCall(t) \/ FileClose(t)
  BY <1>6, OpenFoundInv, FileOpenInv, PathCallInv, FileCloseInv
<1>7. CASE CloseDentry(t)
  BY <1>7, CloseDentryRelease, CloseDentryEnd
<1>8. CASE UnlinkCheck(t)
  BY <1>8, UnlinkCheckEntries, UnlinkCheckEmpty
<1>9. CASE \/ UnlinkLock(t) \/ UnlinkEntry(t) \/ UnlinkRelease(t)
           \/ UnlinkNotEmptyRead(t) \/ UnlinkNotEmptyWrite(t)
  BY <1>9, UnlinkLockInv, UnlinkEntryInv, UnlinkReleaseInv, UnlinkNotEmptyReadInv, UnlinkNotEmptyWriteInv
<1>10. CASE RenameBegin(t) \/ RenameNoTarget(t)
  BY <1>10, RenameBeginInv, RenameNoTargetInv
<1>11. CASE RenameFound(t)
  BY <1>11, RenameFoundFrom, RenameFoundTo
<1>12. CASE RenameLockFirst(t)
  <2>1. thr[t].pc = "rn1" \/ thr[t].pc = "rn1m"
    BY <1>12 DEF RenameLockFirst, LockDir
  <2> QED BY <1>12, <2>1, RenameLockFirstContents, RenameLockFirstMeta
<1>13. CASE RenameLockSecond(t)
  <2>1. thr[t].pc = "rn3" \/ thr[t].pc = "rn3m"
    BY <1>13 DEF RenameLockSecond, LockDir
  <2> QED BY <1>13, <2>1, RenameLockSecondContents, RenameLockSecondMeta
<1>14. CASE RenameLookFirst(t)
  BY <1>14, RenameLookFirstTo, RenameLookFirstFrom
<1>15. CASE RenameLookSecond(t)
  BY <1>15, RenameLookSecondFrom, RenameLookSecondTo, RenameLookSecondNone
<1>16. CASE RenameCheck(t)
  BY <1>16, RenameCheckError, RenameCheckGood
<1>17. CASE RenameReplace(t)
  BY <1>17, RenameReplaceNothing, RenameReplaceSelf, RenameReplaceOther
<1>18. CASE \/ RenameErrorFrom(t) \/ RenameErrorTo(t) \/ RenameMove(t)
            \/ RenameUnlock(t) \/ RenameReleaseFrom(t) \/ RenameReleaseTo(t) \/ RenameId(t)
  BY <1>18, RenameErrorFromInv, RenameErrorToInv, RenameMoveInv, RenameUnlockInv,
     RenameReleaseFromInv, RenameReleaseToInv, RenameIdInv
<1> QED BY <1>1, <1>2, <1>3, <1>4, <1>5, <1>6, <1>7, <1>8, <1>9, <1>10, <1>11, <1>12, <1>13,
           <1>14, <1>15, <1>16, <1>17, <1>18 DEF TreeStep

\* What was overwritten stays so.
LEMMA StaysClobbered == [TreeNext]_treeVars /\ clobbered => clobbered'
<1> SUFFICES ASSUME [TreeNext]_treeVars, clobbered PROVE clobbered'
  OBVIOUS
<1>1. ASSUME NEW t \in TreeThreads, TreeStep(t) PROVE clobbered'
  BY <1>1, BusyStep DEF UnlinkNotEmptyWrite
<1>2. ASSUME NEW t \in TreeThreads, StartRelease(t) \/ \E c \in Workload : StartCall(t, c[1], c[2], c[3])
      PROVE  clobbered'
  BY <1>2 DEF StartRelease, StartCall, SameRest
<1> QED BY <1>1, <1>2 DEF TreeNext, Unmount, treeVars

\* Every step of the system keeps the invariant.
LEMMA NextInv ==
    ASSUME Inv, [TreeNext]_treeVars
    PROVE  Inv'
<1> SUFFICES ASSUME ~clobbered' PROVE IF unmounted' THEN Ended' ELSE TreeInv'
  BY DEF Inv
<1>0. IF unmounted THEN Ended ELSE TreeInv
  BY StaysClobbered DEF Inv
<1>1. CASE unmounted
  <2>0. \A t \in TreeThreads : thr[t] = Quiet(Null)
    BY <1>0, <1>1 DEF Ended
  <2>1. \A t \in TreeThreads : thr[t].pc = "idle"
    BY <2>0, QuietOK DEF NulOr
  <2>2. ~TreeNext
    <3>1. \A t \in TreeThreads : ~TreeStep(t)
      BY <2>1, BusyStep
    <3>2. \A t \in TreeThreads : ~StartRelease(t) /\ \A c \in Workload : ~StartCall(t, c[1], c[2], c[3])
      BY <1>1 DEF StartRelease, StartCall
    <3> QED BY <1>1, <3>1, <3>2 DEF TreeNext, Unmount
  <2> QED BY <1>0, <1>1, <2>2 DEF Ended, treeVars
<1>2. CASE ~unmounted
  <2>0. TreeInv
    BY <1>0, <1>2
  <2>1. CASE UNCHANGED treeVars
    <3>1. TreeInv'
      BY <2>0, <2>1 DEF TreeInv, treeVars, TreeTypes, LocksTrue, ReadLocks, WriteLocks, OneKind,
                        MetaLocks, RenameLocked, Apart
    <3> QED BY <1>2, <2>1, <3>1 DEF treeVars
  <2>2. ASSUME NEW t \in TreeThreads, TreeStep(t) PROVE TreeInv' /\ UNCHANGED unmounted
    BY <2>0, <2>2, StepInv, BusyStep
  <2>3. ASSUME NEW t \in TreeThreads, StartRelease(t) PROVE TreeInv' /\ UNCHANGED unmounted
    BY <2>0, <2>3, StartReleaseInv DEF StartRelease, SameRest
  <2>4. ASSUME NEW t \in TreeThreads, NEW c \in Workload, StartCall(t, c[1], c[2], c[3])
        PROVE  TreeInv' /\ UNCHANGED unmounted
    <3>1. TreeInv'
      BY <2>0, <2>4, StartCallInv
    <3>2. UNCHANGED unmounted
      BY <2>4 DEF StartCall
    <3> QED BY <3>1, <3>2
  <2>5. ASSUME Unmount PROVE unmounted' /\ Ended'
    <3>1. unmounted' /\ thr' = thr
      BY <2>5 DEF Unmount
    <3>2. \A t \in TreeThreads : thr[t] = Quiet(Null)
      BY <2>0, <2>5, IdleCall DEF Unmount
    <3>3. thr = [t \in TreeThreads |-> Quiet(Null)]
      BY <2>0, <3>2 DEF TreeInv, TreeTypes
    <3> QED BY <3>1, <3>3 DEF Ended
  <2> QED BY <1>2, <2>1, <2>2, <2>3, <2>4, <2>5 DEF TreeNext
<1> QED BY <1>1, <1>2

\* The inductive invariant of the dentry layer (dentry structs, their numhandles and
\* locks, and the calls of fs.c and ltfs_fsops.c in progress) holds in every state, for
\* any number of threads, dentries and names and any interleaving, until the unlocked
\* release of a refused rmdir meets another thread's change of the count or its lock.
THEOREM TreeInvariant == TreeSpec => []Inv
<1>1. TreeInit => Inv
  BY InitInv
<1>2. Inv /\ [TreeNext]_treeVars => Inv'
  BY NextInv
<1> QED BY <1>1, <1>2, PTL DEF TreeSpec

\* Every pointer of a call is counted, is the root, or is to the source of a failed rename,
\* which has kept its name: none is to freed memory.
LEMMA InvNoDangling == Inv => NoDangling
<1> SUFFICES ASSUME Inv, ~clobbered, NEW t \in TreeThreads, NEW d \in Refs(t) PROVE dent[d].alive
  BY DEF NoDangling
<1>1. CASE unmounted
  <2>1. thr[t] = Quiet(Null) /\ Null \in NulOr
    BY <1>1 DEF Inv, Ended, NulOr
  <2>2. Refs(t) = {}
    BY <2>1 DEF Quiet, Refs
  <2> QED BY <2>2
<1>2. CASE ~unmounted
  <2> DEFINE c == thr[t]
  <2>0. TreeInv
    BY <1>2 DEF Inv
  <2>1. /\ c \in Call /\ OpsMatch(c) /\ Pointers(c) /\ Walk(c) /\ Counts(dent, thr) /\ dent[Root].alive
        /\ dent \in [Dentries -> Entry] /\ GoodTree(dent) /\ PlaceOK(c, dent)
    BY <2>0, Here DEF GoodTree
  <2>2. /\ \/ d \in {c.cur, c.par, c.fromdir, c.todir, c.fromdent, c.todent, c.fh}
           \/ c.op = "rename" /\ d = c.val
        /\ d # Null
    BY DEF Refs
  <2>10. CASE c.op = "rename" /\ d = c.val
    <3>1. c.path \in Paths /\ ResolveIn(dent, c.path) = d
      BY <2>1, <2>2, <2>10 DEF PlaceOK, RenameAt, Changing, Call, Null
    <3> QED BY <2>1, <2>2, <3>1, ResolveType
  <2> SUFFICES ASSUME d \in {c.cur, c.par, c.fromdir, c.todir, c.fromdent, c.todent, c.fh}
               PROVE  dent[d].alive
    BY <2>2, <2>10
  <2>3. d \in Dentries
    BY <2>1, <2>2 DEF Call, NulOr
  <2>4. ASSUME NEW k \in Slots, Ptr(c, k) = d PROVE dent[d].alive
    BY <2>1, <2>3, <2>4, Held
  <2> HIDE DEF c
  <2>5. CASE d = c.par /\ c.pc = "lk1"
    <3>1. c.par = Root
      BY <2>1, <2>2, <2>5 DEF Pointers, Walk, CreatePcs, UnlinkPcs
    <3> QED BY <2>1, <2>5, <3>1
  <2>6. CASE d = c.par /\ c.pc # "lk1"
    BY <2>4, <2>6, PtrIs DEF Slots
  <2>7. CASE d = c.fh /\ c.op # "release"
    BY <2>4, <2>7, PtrIs DEF Slots
  <2>8. CASE d = c.cur \/ (d = c.fh /\ c.op = "release")
    <3>1. d = c.cur
      BY <2>1, <2>8 DEF OpsMatch
    <3> QED BY <2>4, <3>1, PtrIs DEF Slots
  <2>9. CASE d \in {c.fromdir, c.todir, c.fromdent, c.todent}
    BY <2>4, <2>9, PtrIs DEF Slots
  <2> QED BY <2>5, <2>6, <2>7, <2>8, <2>9
<1> QED BY <1>1, <1>2

\* No interleaving of lookups, creates, unlinks, renames and releases leaves a call of
\* fs.c or ltfs_fsops.c with a pointer to a dentry that fs_release_dentry has freed, unless
\* the release of a refused rmdir, made without the lock, has overwritten a count before.
THEOREM NothingDangles == TreeSpec => []NoDangling
<1>1. TreeSpec => []Inv
  BY TreeInvariant
<1> QED BY <1>1, InvNoDangling, PTL

\* Between two calls a pointer with a handle is an open file.
LEMMA OpenFiles ==
    ASSUME TreeInv, \A t \in TreeThreads : Idle(t), NEW d \in Dentries
    PROVE  Cardinality(Holders(thr, d)) = Handles(d)
<1> DEFINE S == {t \in TreeThreads : thr[t].fh = d}
           f == [t \in S |-> <<t, "fh">>]
<1>0. Null \notin Dentries
  BY Memory
<1>1. \A t \in TreeThreads, k \in Slots : Ptr(thr[t], k) = IF k = "fh" THEN thr[t].fh ELSE Null
  <2> SUFFICES ASSUME NEW t \in TreeThreads
               PROVE  \A k \in Slots : Ptr(thr[t], k) = IF k = "fh" THEN thr[t].fh ELSE Null
    OBVIOUS
  <2> DEFINE h == thr[t].fh
  <2>1. thr[t] = Quiet(h) /\ h \in NulOr
    BY IdleCall
  <2>2. \A k \in Slots : Ptr(thr[t], k) = IF k = "fh" THEN h ELSE Null
    <3> HIDE DEF h
    <3> QED BY <2>1, QuietOK
  <2> QED BY <2>2
<1>2. Holders(thr, d) = {x \in TreeThreads \X {"fh"} : thr[x[1]].fh = d}
  <2>1. "fh" \in Slots
    BY DEF Slots
  <2> QED BY <1>0, <1>1, <2>1 DEF Holders
<1>3. IsFiniteSet(S)
  BY TreeAssumption, FS_Subset
<1>4. f \in Bijection(S, Holders(thr, d))
  <2>1. \A t \in S : f[t] \in Holders(thr, d)
    BY <1>2
  <2>2. \A t, u \in S : f[t] = f[u] => t = u
    OBVIOUS
  <2>3. \A x \in Holders(thr, d) : \E t \in S : f[t] = x
    <3> SUFFICES ASSUME NEW x \in Holders(thr, d) PROVE \E t \in S : f[t] = x
      OBVIOUS
    <3>1. x \in TreeThreads \X {"fh"} /\ thr[x[1]].fh = d
      BY <1>2
    <3>2. x[1] \in S /\ x = <<x[1], "fh">>
      BY <3>1
    <3> QED BY <3>2
  <2>4. f \in [S -> Holders(thr, d)]
    BY <2>1
  <2> HIDE DEF f, S
  <2> QED BY <2>1, <2>2, <2>3, <2>4 DEF Bijection, Injection, Surjection, IsInjective
<1>5. Cardinality(Holders(thr, d)) = Cardinality(S)
  BY <1>3, <1>4, FS_Bijection DEF ExistsBijection
<1> QED BY <1>5 DEF Handles

\* Between calls the only pointers with a handle are the open files.
LEMMA InvHandlesExact == Inv => HandlesExact
<1> SUFFICES ASSUME Inv, AllQuiet, ~clobbered
             PROVE  /\ \A d \in Dentries : dent[d].alive =>
                          dent[d].nh = Handles(d) + IF Linked(d) THEN 1 ELSE 0
                    /\ \A d \in Dentries : contents[d].w = NoThread /\ contents[d].r = {}
                                           /\ meta[d] = NoThread
                    /\ renameLock = NoThread
  BY DEF HandlesExact
<1>1. TreeInv /\ \A t \in TreeThreads : Idle(t)
  BY DEF Inv, AllQuiet
<1>2. ASSUME NEW d \in Dentries, dent[d].alive
      PROVE  dent[d].nh = Handles(d) + IF Linked(d) THEN 1 ELSE 0
  <2>1. dent[d].nh = Cardinality(Holders(thr, d)) + TreeHandle(dent, d)
    BY <1>1, <1>2 DEF TreeInv, Counts
  <2>2. TreeHandle(dent, d) = IF Linked(d) THEN 1 ELSE 0
    BY <1>2 DEF TreeHandle, Linked
  <2>3. Cardinality(Holders(thr, d)) = Handles(d)
    BY <1>1, OpenFiles
  <2> QED BY <2>1, <2>2, <2>3
<1>3. \A t \in TreeThreads : thr[t].pc = "idle" /\ thr[t].op = "none"
  BY <1>1, IdleCall
<1>4. \A t \in TreeThreads : ~Renames(thr[t]) /\ \A d \in Dentries :
         ~Reads(thr[t], d) /\ ~Writes(thr[t], d) /\ ~HasMeta(thr[t], d)
  BY <1>3 DEF Renames, Reads, Writes, HasMeta, LockedPcs
<1>5. ASSUME NEW d \in Dentries
      PROVE  contents[d].w = NoThread /\ contents[d].r = {} /\ meta[d] = NoThread
  <2>1. contents[d].w \in Owner /\ meta[d] \in Owner
    BY <1>1 DEF TreeInv, TreeTypes
  <2>2. contents[d].r = {} /\ \A t \in TreeThreads : contents[d].w # t /\ meta[d] # t
    BY <1>1, <1>4 DEF TreeInv, LocksTrue, ReadLocks, WriteLocks, MetaLocks
  <2> QED BY <2>1, <2>2 DEF Owner
<1>6. renameLock = NoThread
  BY <1>1, <1>4 DEF TreeInv, TreeTypes, LocksTrue, RenameLocked, Owner
<1> QED BY <1>2, <1>5, <1>6

\* When no call is in progress, numhandles of every dentry is the number of files open on it
\* and one for its place in the tree, and every lock of fs.c has been given back, whichever
\* error exits the calls took and however they interleaved, unless a refused rmdir has
\* overwritten a count.
THEOREM CountsExactWhenQuiet == TreeSpec => []HandlesExact
<1>1. TreeSpec => []Inv
  BY TreeInvariant
<1> QED BY <1>1, InvHandlesExact, PTL

-----------------------------------------------------------------------------
(* The file table.                                                         *)

\* A step that leaves the file table and the open file of its thread alone.
LEMMA TableKept ==
    ASSUME TableExact, NEW t \in TreeThreads, NEW c,
           Steps(thr, thr', t, c), table' = table, c.fh = thr[t].fh,
           c.pc # "fclose", thr[t].pc # "fclose"
    PROVE  TableExact'
<1>1. ASSUME NEW d \in Dentries
      PROVE  {u \in TreeThreads : thr'[u].fh = d \/ (thr'[u].pc = "fclose" /\ thr'[u].val = d)}
             = {u \in TreeThreads : thr[u].fh = d \/ (thr[u].pc = "fclose" /\ thr[u].val = d)}
  BY DEF Steps
<1> QED BY <1>1 DEF TableExact

\* Only the file handle's own steps are about the file table.
LEMMA OtherSteps ==
    ASSUME TreeInv, NEW t \in TreeThreads, TreeStep(t), ~FileOpen(t), ~FileClose(t),
           ~(CloseDentry(t) /\ thr[t].op = "release")
    PROVE  /\ Steps(thr, thr', t, thr'[t]) /\ table' = table /\ thr'[t].fh = thr[t].fh
           /\ thr[t].pc # "fclose" /\ thr'[t].pc # "fclose"
<1>0. thr \in [TreeThreads -> Call] /\ thr[t] \in Call /\ Quiet(thr[t].fh).fh = thr[t].fh
      /\ Quiet(thr[t].fh).pc = "idle"
  BY DEF TreeInv, TreeTypes, Quiet
<1> USE <1>0 DEF Goto, End, SameRest, Steps, Call
<1>1. CASE LookupRoot(t)
  BY <1>1 DEF LookupRoot
<1>2. CASE LookupLock(t)
  BY <1>2 DEF LookupLock
<1>3. CASE LookupEntry(t)
  BY <1>3 DEF LookupEntry
<1>4. CASE LookupMissing(t)
  BY <1>4 DEF LookupMissing
<1>5. CASE LookupFails(t)
  <2>1. table' = table /\ thr[t].pc = "lkno"
    BY <1>5 DEF LookupFails
  <2>2. CASE thr' = [thr EXCEPT ![t] = [thr[t] EXCEPT !.par = Null, !.pc = "rnf"]]
    BY <2>1, <2>2
  <2>3. CASE thr' = [thr EXCEPT ![t] = Quiet(thr[t].fh)]
    BY <2>1, <2>3
  <2> QED BY <1>5, <2>2, <2>3 DEF LookupFails
<1>6. CASE LookupStep(t)
  BY <1>6 DEF LookupStep
<1>7. CASE CreateLock(t)
  BY <1>7 DEF CreateLock
<1>8. CASE CreateExists(t)
  BY <1>8 DEF CreateExists
<1>9. CASE CreateExistsRelease(t)
  BY <1>9 DEF CreateExistsRelease
<1>10. CASE CreateEntry(t)
  BY <1>10 DEF CreateEntry
<1>11. CASE CreateFails(t)
  BY <1>11 DEF CreateFails
<1>12. CASE CreateRelease(t)
  <2> DEFINE p == IF thr[t].op = "create" THEN "fopen" ELSE "close"
  <2>1. table' = table /\ thr[t].pc = "cr4" /\ p # "fclose"
    BY <1>12 DEF CreateRelease
  <2>2. \/ thr' = [thr EXCEPT ![t] = [thr[t] EXCEPT !.par = Null, !.pc = p]]
        \/ thr' = [thr EXCEPT ![t] = Quiet(thr[t].fh)]
    BY <1>12 DEF CreateRelease
  <2> HIDE DEF p
  <2>3. CASE thr' = [thr EXCEPT ![t] = [thr[t] EXCEPT !.par = Null, !.pc = p]]
    BY <2>1, <2>3
  <2>4. CASE thr' = [thr EXCEPT ![t] = Quiet(thr[t].fh)]
    BY <2>1, <2>4
  <2> QED BY <2>2, <2>3, <2>4
<1>13. CASE OpenFound(t)
  BY <1>13 DEF OpenFound
<1>14. CASE PathCall(t)
  BY <1>14 DEF PathCall
<1>15. CASE CloseDentry(t) /\ thr[t].op # "release"
  BY <1>15 DEF CloseDentry
<1>16. CASE UnlinkCheck(t)
  BY <1>16 DEF UnlinkCheck
<1>17. CASE UnlinkLock(t)
  BY <1>17 DEF UnlinkLock
<1>18. CASE UnlinkEntry(t)
  BY <1>18 DEF UnlinkEntry
<1>19. CASE UnlinkRelease(t)
  BY <1>19 DEF UnlinkRelease
<1>20. CASE UnlinkNotEmptyRead(t)
  BY <1>20 DEF UnlinkNotEmptyRead
<1>21. CASE UnlinkNotEmptyWrite(t)
  BY <1>21 DEF UnlinkNotEmptyWrite
<1>22. CASE RenameBegin(t)
  BY <1>22 DEF RenameBegin
<1>23. CASE RenameFound(t)
  BY <1>23, ZenonT(30) DEF RenameFound
<1>24. CASE RenameNoTarget(t)
  BY <1>24 DEF RenameNoTarget
<1>25. CASE RenameLockFirst(t)
  BY <1>25 DEF RenameLockFirst, LockDir
<1>26. CASE RenameLockSecond(t)
  BY <1>26 DEF RenameLockSecond, LockDir
<1>27. CASE RenameLookFirst(t)
  BY <1>27 DEF RenameLookFirst
<1>28. CASE RenameLookSecond(t)
  BY <1>28 DEF RenameLookSecond
<1>29. CASE RenameCheck(t)
  BY <1>29 DEF RenameCheck
<1>30. CASE RenameErrorFrom(t)
  BY <1>30 DEF RenameErrorFrom
<1>31. CASE RenameErrorTo(t)
  BY <1>31 DEF RenameErrorTo
<1>32. CASE RenameReplace(t)
  BY <1>32 DEF RenameReplace
<1>33. CASE RenameMove(t)
  BY <1>33 DEF RenameMove
<1>34. CASE RenameUnlock(t)
  BY <1>34 DEF RenameUnlock
<1>35. CASE RenameReleaseFrom(t)
  BY <1>35 DEF RenameReleaseFrom
<1>36. CASE RenameReleaseTo(t)
  <2>1. table' = table /\ thr[t].pc \in {"rn10", "rn10w"}
    BY <1>36 DEF RenameReleaseTo
  <2>2. CASE thr' = [thr EXCEPT ![t] = [thr[t] EXCEPT !.todir = Null, !.pc = "rn11"]]
    BY <2>1, <2>2
  <2>3. CASE thr' = [thr EXCEPT ![t] = [thr[t] EXCEPT !.cur = thr[t].fromdent, !.fromdent = Null,
                                                      !.todir = Null, !.pc = "close"]]
    BY <2>1, <2>3
  <2> QED BY <1>36, <2>2, <2>3, Zenon DEF RenameReleaseTo
<1>37. CASE RenameId(t)
  BY <1>37 DEF RenameId
<1> QED BY <1>1, <1>2, <1>3, <1>4, <1>5, <1>6, <1>7, <1>8, <1>9, <1>10, <1>11, <1>12,
           <1>13, <1>14, <1>15, <1>16, <1>17, <1>18, <1>19, <1>20, <1>21, <1>22, <1>23,
           <1>24, <1>25, <1>26, <1>27, <1>28, <1>29, <1>30, <1>31, <1>32, <1>33, <1>34,
           <1>35, <1>36, <1>37 DEF TreeStep

\* The users of a file_info as a set; finite, so that they can be counted.
LEMMA UsersFinite ==
    ASSUME NEW S, S \subseteq TreeThreads
    PROVE  /\ IsFiniteSet(S) /\ Cardinality(S) \in Nat
           /\ \A t : t \notin S => Cardinality(S \cup {t}) = Cardinality(S) + 1
           /\ \A t \in S : Cardinality(S \ {t}) = Cardinality(S) - 1
<1>1. IsFiniteSet(S) /\ Cardinality(S) \in Nat
  BY TreeAssumption, FS_Subset, FS_CardinalityType
<1> QED BY <1>1, FS_AddElement, FS_RemoveElement

\* ltfs_fuse_release between its two halves: the handle on the dentry is gone, the
\* file_info is not.
LEMMA TableHandedOver ==
    ASSUME TreeInv, TableExact, NEW t \in TreeThreads, CloseDentry(t), thr[t].op = "release"
    PROVE  TableExact'
<1>1. /\ thr \in [TreeThreads -> Call] /\ thr[t] \in Call /\ OpsMatch(thr[t]) /\ Pointers(thr[t])
      /\ Null \notin Dentries
  BY Here
<1>2. thr[t].fh = thr[t].cur /\ thr[t].pc = "close"
  BY <1>1 DEF OpsMatch, CloseDentry
<1>3. /\ table' = table
      /\ thr' = [thr EXCEPT ![t] = [thr[t] EXCEPT !.val = thr[t].cur, !.cur = Null, !.fh = Null,
                                                  !.pc = "fclose"]]
  BY DEF CloseDentry, Goto, SameRest
<1>4. /\ thr'[t].fh = Null /\ thr'[t].pc = "fclose" /\ thr'[t].val = thr[t].cur
      /\ \A u \in TreeThreads \ {t} : thr'[u] = thr[u]
  BY <1>1, <1>3 DEF Call
<1>5. ASSUME NEW d \in Dentries
      PROVE  {u \in TreeThreads : thr'[u].fh = d \/ (thr'[u].pc = "fclose" /\ thr'[u].val = d)}
             = {u \in TreeThreads : thr[u].fh = d \/ (thr[u].pc = "fclose" /\ thr[u].val = d)}
  BY <1>1, <1>2, <1>4
<1> QED BY <1>3, <1>5 DEF TableExact

\* _file_open: one user more.
LEMMA TableOpened ==
    ASSUME TreeInv, TableExact, NEW t \in TreeThreads, FileOpen(t), table \in [Dentries -> Nat]
    PROVE  TableExact'
<1>1. /\ thr \in [TreeThreads -> Call] /\ thr[t] \in Call /\ OpsMatch(thr[t]) /\ Pointers(thr[t])
      /\ Null \notin Dentries
  BY Here
<1> DEFINE x == thr[t].cur
<1>2. thr[t].fh = Null /\ x # Null /\ thr[t].pc = "fopen" /\ x \in Dentries
  BY <1>1 DEF OpsMatch, Pointers, FileOpen, Call, NulOr
<1>3. table' = [table EXCEPT ![x] = @ + 1] /\ thr' = [thr EXCEPT ![t] = Quiet(x)]
  BY <1>1 DEF FileOpen
<1>4. Quiet(x).fh = x /\ Quiet(x).pc = "idle"
  BY DEF Quiet
<1>5. thr'[t].fh = x /\ thr'[t].pc = "idle" /\ \A u \in TreeThreads \ {t} : thr'[u] = thr[u]
  BY <1>1, <1>3, <1>4
<1> HIDE DEF x
<1> SUFFICES ASSUME NEW d \in Dentries
    PROVE  table'[d] = Cardinality({u \in TreeThreads :
              thr'[u].fh = d \/ (thr'[u].pc = "fclose" /\ thr'[u].val = d)})
  BY DEF TableExact
<1> DEFINE S == {u \in TreeThreads : thr[u].fh = d \/ (thr[u].pc = "fclose" /\ thr[u].val = d)}
           R == {u \in TreeThreads : thr'[u].fh = d \/ (thr'[u].pc = "fclose" /\ thr'[u].val = d)}
<1>6. table[d] = Cardinality(S) /\ S \subseteq TreeThreads /\ t \notin S
  BY <1>1, <1>2 DEF TableExact
<1>7. R = IF d = x THEN S \cup {t} ELSE S
  BY <1>1, <1>2, <1>5
<1> HIDE DEF S, R
<1>8. Cardinality(S \cup {t}) = Cardinality(S) + 1
  BY <1>6, UsersFinite
<1>9. table'[d] = IF d = x THEN table[d] + 1 ELSE table[d]
  BY <1>3
<1>10. table'[d] = Cardinality(R)
  BY <1>6, <1>7, <1>8, <1>9
<1> QED BY <1>10 DEF R

\* _file_close: one user less, of the address the dentry had.
LEMMA TableClosed ==
    ASSUME TreeInv, TableExact, NEW t \in TreeThreads, FileClose(t), table \in [Dentries -> Nat]
    PROVE  TableExact'
<1>1. /\ thr \in [TreeThreads -> Call] /\ thr[t] \in Call /\ OpsMatch(thr[t]) /\ Pointers(thr[t])
      /\ Null \notin Dentries
  BY Here
<1> DEFINE x == thr[t].val
<1>2. thr[t].fh = Null /\ thr[t].pc = "fclose"
  BY <1>1 DEF OpsMatch, Pointers, FileClose, UnlinkPcs
<1>3. table' = [table EXCEPT ![x] = @ - 1] /\ thr' = [thr EXCEPT ![t] = Quiet(Null)]
  BY <1>1, <1>2 DEF FileClose, End
<1>4. Quiet(Null).fh = Null /\ Quiet(Null).pc = "idle"
  BY DEF Quiet
<1>5. thr'[t].fh = Null /\ thr'[t].pc = "idle" /\ \A u \in TreeThreads \ {t} : thr'[u] = thr[u]
  BY <1>1, <1>3, <1>4
<1> SUFFICES ASSUME NEW d \in Dentries
    PROVE  table'[d] = Cardinality({u \in TreeThreads :
              thr'[u].fh = d \/ (thr'[u].pc = "fclose" /\ thr'[u].val = d)})
  BY DEF TableExact
<1> DEFINE S == {u \in TreeThreads : thr[u].fh = d \/ (thr[u].pc = "fclose" /\ thr[u].val = d)}
           R == {u \in TreeThreads : thr'[u].fh = d \/ (thr'[u].pc = "fclose" /\ thr'[u].val = d)}
<1>6. table[d] = Cardinality(S) /\ S \subseteq TreeThreads /\ (d = x => t \in S)
  BY <1>1, <1>2 DEF TableExact
<1>7. R = IF d = x THEN S \ {t} ELSE S
  BY <1>1, <1>2, <1>5
<1>9. table'[d] = IF d = x THEN table[d] - 1 ELSE table[d]
  BY <1>3
<1> HIDE DEF S, R, x
<1>8. d = x => Cardinality(S \ {t}) = Cardinality(S) - 1
  BY <1>6, UsersFinite
<1>10. table'[d] = Cardinality(R)
  BY <1>6, <1>7, <1>8, <1>9
<1> QED BY <1>10 DEF R

\* The file table's part of the invariant.
LEMMA TableNext ==
    ASSUME Inv, ~clobbered, TableExact, table \in [Dentries -> Nat], [TreeNext]_treeVars
    PROVE  TableExact' /\ table' \in [Dentries -> Nat]
<1>0. ASSUME TableExact', table' = [d \in Dentries |-> table'[d]] PROVE table' \in [Dentries -> Nat]
  <2>1. ASSUME NEW d \in Dentries PROVE table'[d] \in Nat
    <3> DEFINE S == {u \in TreeThreads : thr'[u].fh = d \/ (thr'[u].pc = "fclose" /\ thr'[u].val = d)}
    <3>1. S \subseteq TreeThreads /\ table'[d] = Cardinality(S)
      BY <1>0 DEF TableExact
    <3> HIDE DEF S
    <3> QED BY <3>1, UsersFinite
  <2> QED BY <1>0, <2>1
<1>1. CASE UNCHANGED <<thr, table>>
  BY <1>1 DEF TableExact
<1>2. CASE ~UNCHANGED <<thr, table>>
  <2>1. ~unmounted /\ TreeInv
    <3>1. CASE unmounted
      <4>1. \A t \in TreeThreads : thr[t].pc = "idle"
        BY <3>1, QuietOK DEF Inv, Ended, NulOr
      <4>2. \A t \in TreeThreads : ~TreeStep(t) /\ ~StartRelease(t)
               /\ \A c \in Workload : ~StartCall(t, c[1], c[2], c[3])
        BY <3>1, <4>1, BusyStep DEF StartRelease, StartCall
      <4> QED BY <1>2, <3>1, <4>2 DEF TreeNext, Unmount, treeVars
    <3> QED BY <3>1 DEF Inv
  <2>2. ASSUME NEW t \in TreeThreads, StartRelease(t) \/ \E c \in Workload : StartCall(t, c[1], c[2], c[3])
        PROVE  TableExact' /\ table' = table
    <3>1. thr \in [TreeThreads -> Call] /\ thr[t] \in Call
      BY <2>1 DEF TreeInv, TreeTypes
    <3>2. /\ table' = table /\ Steps(thr, thr', t, thr'[t])
          /\ thr'[t].fh = thr[t].fh /\ thr'[t].pc # "fclose" /\ thr[t].pc # "fclose"
      <4>1. CASE StartRelease(t)
        BY <3>1, <4>1 DEF StartRelease, Goto, SameRest, Steps, Idle, Call
      <4>2. ASSUME NEW c \in Workload, StartCall(t, c[1], c[2], c[3])
            PROVE  /\ table' = table /\ Steps(thr, thr', t, thr'[t])
                   /\ thr'[t].fh = thr[t].fh /\ thr'[t].pc # "fclose" /\ thr[t].pc # "fclose"
        BY <3>1, <4>2 DEF StartCall, Goto, Steps, Idle, Call
      <4> QED BY <2>2, <4>1, <4>2
    <3> QED BY <3>2, TableKept
  <2>3. ASSUME NEW t \in TreeThreads, TreeStep(t)
        PROVE  TableExact' /\ table' = [d \in Dentries |-> table'[d]]
    <3>1. CASE FileOpen(t)
      BY <2>1, <3>1, TableOpened DEF FileOpen
    <3>2. CASE FileClose(t)
      BY <2>1, <3>2, TableClosed DEF FileClose
    <3>3. CASE CloseDentry(t) /\ thr[t].op = "release"
      BY <2>1, <3>3, TableHandedOver DEF CloseDentry, SameRest
    <3>4. CASE ~FileOpen(t) /\ ~FileClose(t) /\ ~(CloseDentry(t) /\ thr[t].op = "release")
      <4>1. /\ Steps(thr, thr', t, thr'[t]) /\ table' = table /\ thr'[t].fh = thr[t].fh
            /\ thr[t].pc # "fclose" /\ thr'[t].pc # "fclose"
        BY <2>1, <2>3, <3>4, OtherSteps
      <4> QED BY <4>1, TableKept
    <3> QED BY <3>1, <3>2, <3>3, <3>4
  <2>4. ~Unmount
    BY <1>2 DEF Unmount
  <2>5. \E t \in TreeThreads : \/ TreeStep(t) \/ StartRelease(t)
                               \/ \E c \in Workload : StartCall(t, c[1], c[2], c[3])
    BY <1>2, <2>4 DEF TreeNext, treeVars
  <2> QED BY <1>0, <2>2, <2>3, <2>5
<1> QED BY <1>1, <1>2

\* The file table of ltfs_fuse.c counts the open handles of every dentry, the ones between
\* the two halves of a release included, although a dentry's memory may have been given to
\* a new file by then, unless a refused rmdir has overwritten a count.
THEOREM FileTableExact == TreeSpec => [](~clobbered => TableExact)
<1>1. TreeSpec => []Inv
  BY TreeInvariant
<1>2. TreeInit => TableExact /\ table \in [Dentries -> Nat]
  <2> SUFFICES ASSUME TreeInit PROVE TableExact /\ table \in [Dentries -> Nat]
    OBVIOUS
  <2>1. Null \notin Dentries /\ Quiet(Null).fh = Null /\ Quiet(Null).pc = "idle"
    BY Memory DEF Quiet
  <2>2. table = [d \in Dentries |-> 0] /\ \A t \in TreeThreads : thr[t] = Quiet(Null)
    BY DEF TreeInit
  <2>3. \A d \in Dentries :
           {t \in TreeThreads : thr[t].fh = d \/ (thr[t].pc = "fclose" /\ thr[t].val = d)} = {}
    BY <2>1, <2>2
  <2> QED BY <2>2, <2>3, FS_EmptySet DEF TableExact
<1>3. Inv /\ (~clobbered => TableExact /\ table \in [Dentries -> Nat]) /\ [TreeNext]_treeVars
      => (~clobbered => TableExact /\ table \in [Dentries -> Nat])'
  BY TableNext, StaysClobbered
<1> QED BY <1>1, <1>2, <1>3, PTL DEF TreeSpec
-----------------------------------------------------------------------------
(* Uids.                                                                   *)

\* A step that leaves the tree alone.
LEMMA KeepsRefl ==
    ASSUME NEW D PROVE KeepsUids(D, D)
BY DEF KeepsUids

\* One dentry's entry changes, and its uid does not.
LEMMA KeepsOne ==
    ASSUME NEW D \in [Dentries -> Entry], NEW d, NEW v
    PROVE  /\ KeepsUids(D, [D EXCEPT ![d].nh = v])
           /\ v \in Int => [D EXCEPT ![d].nh = v] \in [Dentries -> Entry]
BY DEF KeepsUids, Entry

\* Two steps in a row.
LEMMA KeepsTrans ==
    ASSUME NEW D, NEW E, NEW F, KeepsUids(D, E), KeepsUids(E, F)
    PROVE  KeepsUids(D, F)
BY DEF KeepsUids

\* _fs_dispose_dentry_contents
LEMMA KeepsDispose ==
    ASSUME NEW D \in [Dentries -> Entry], NEW d
    PROVE  KeepsUids(D, Dispose(D, d)) /\ Dispose(D, d) \in [Dentries -> Entry]
<1> DEFINE gone == Doomed(D, d)
           p == D[d].parent
<1>1. ~Blank.alive /\ Blank \in Entry
  BY BlankEntry DEF Blank
<1>2. Dispose(D, d) = [e \in Dentries |->
            IF e \in gone THEN Blank
            ELSE IF D[e].parent \in gone THEN [D[e] EXCEPT !.parent = Null]
            ELSE IF e = p THEN [D[e] EXCEPT !.kids =
                     [n \in FileNames |-> IF @[n] = d THEN Null ELSE @[n]]]
            ELSE D[e]]
  BY DEF Dispose
<1> HIDE DEF gone, p
<1>3. ASSUME NEW e \in Dentries
      PROVE  /\ Dispose(D, d)[e] \in Entry
             /\ Dispose(D, d)[e].alive => D[e].alive /\ Dispose(D, d)[e].uid = D[e].uid
  <2>1. D[e] \in Entry
    OBVIOUS
  <2>2. CASE e \in gone
    BY <1>1, <1>2, <2>2
  <2>3. CASE e \notin gone /\ D[e].parent \in gone
    <3>1. Dispose(D, d)[e] = [D[e] EXCEPT !.parent = Null] /\ Null \in NulOr
      BY <1>2, <2>3 DEF NulOr
    <3> QED BY <2>1, <3>1 DEF Entry
  <2>4. CASE e \notin gone /\ D[e].parent \notin gone /\ e = p
    <3> DEFINE k == [n \in FileNames |-> IF D[e].kids[n] = d THEN Null ELSE D[e].kids[n]]
    <3>1. k \in [FileNames -> NulOr]
      BY <2>1 DEF Entry, NulOr
    <3>2. Dispose(D, d)[e] = [D[e] EXCEPT !.kids = k]
      BY <1>2, <2>1, <2>4
    <3> HIDE DEF k
    <3> QED BY <2>1, <3>1, <3>2 DEF Entry
  <2>5. CASE e \notin gone /\ D[e].parent \notin gone /\ e # p
    BY <1>2, <2>1, <2>5
  <2> QED BY <2>2, <2>3, <2>4, <2>5
<1>4. Dispose(D, d) = [e \in Dentries |-> Dispose(D, d)[e]]
  BY <1>2
<1> QED BY <1>3, <1>4 DEF KeepsUids

\* fs_release_dentry_unlocked
LEMMA KeepsRelease ==
    ASSUME NEW D \in [Dentries -> Entry], NEW d
    PROVE  KeepsUids(D, Release(D, d)) /\ Release(D, d) \in [Dentries -> Entry]
<1>1. D[d].nh # 1 => Release(D, d) = [D EXCEPT ![d].nh = D[d].nh - 1]
  BY DEF Release
<1>2. D[d].nh = 1 => Release(D, d) = Dispose(D, d)
  BY DEF Release
<1>3. /\ KeepsUids(D, [D EXCEPT ![d].nh = D[d].nh - 1])
      /\ [D EXCEPT ![d].nh = D[d].nh - 1] \in [Dentries -> Entry]
  <2>1. CASE d \in Dentries
    <3>1. D[d].nh \in Int
      BY <2>1 DEF Entry
    <3>2. D[d].nh - 1 \in Int
      BY <3>1
    <3> QED BY <3>2, KeepsOne
  <2>2. CASE d \notin Dentries
    <3>1. [D EXCEPT ![d].nh = D[d].nh - 1] = D
      BY <2>2
    <3> QED BY <3>1, KeepsRefl
  <2> QED BY <2>1, <2>2
<1> QED BY <1>1, <1>2, <1>3, KeepsDispose

\* The entry of one dentry changes, but not its uid.
LEMMA KeepsEntry ==
    ASSUME NEW D \in [Dentries -> Entry], NEW d \in Dentries, NEW F \in Entry,
           F.alive = D[d].alive, F.uid = D[d].uid
    PROVE  KeepsUids(D, [D EXCEPT ![d] = F]) /\ [D EXCEPT ![d] = F] \in [Dentries -> Entry]
BY DEF KeepsUids

\* Everything unlink and rename do to the entry they take out of a directory.
LEMMA KeepsDetach ==
    ASSUME NEW D \in [Dentries -> Entry], NEW p \in Dentries, NEW d \in Dentries, p # d
    PROVE  KeepsUids(D, Detach(D, p, d)) /\ Detach(D, p, d) \in [Dentries -> Entry]
<1> DEFINE l == IF D[d].isdir THEN D[p].lc - 1 ELSE D[p].lc
           k == [D[p].kids EXCEPT ![D[d].name] = Null]
           ep == [D[p] EXCEPT !.kids = k, !.lc = l]
           ed == [D[d] EXCEPT !.deleted = TRUE, !.parent = Null, !.lc = D[d].lc - 1, !.nh = D[d].nh - 1]
<1>1. D[p] \in Entry /\ D[d] \in Entry /\ Null \in NulOr
  BY DEF NulOr
<1>2. D[p].lc \in Int /\ D[p].kids \in [FileNames -> NulOr] /\ D[d].lc \in Int /\ D[d].nh \in Int
  BY <1>1 DEF Entry
<1>3. l \in Int /\ k \in [FileNames -> NulOr] /\ D[d].lc - 1 \in Int /\ D[d].nh - 1 \in Int
  <2>1. k \in [FileNames -> NulOr]
    BY <1>1, <1>2
  <2>2. l \in Int /\ D[d].lc - 1 \in Int /\ D[d].nh - 1 \in Int
    <3>1. D[p].lc - 1 \in Int /\ D[d].lc - 1 \in Int /\ D[d].nh - 1 \in Int
      BY <1>2
    <3> QED BY <1>2, <3>1
  <2> QED BY <2>1, <2>2
<1>4. Detach(D, p, d) = [D EXCEPT ![p] = ep, ![d] = ed]
  BY <1>1 DEF Detach
<1>5. ep \in Entry /\ ep.alive = D[p].alive /\ ep.uid = D[p].uid
  <2> HIDE DEF l, k
  <2> QED BY <1>1, <1>3 DEF Entry
<1>6. ed \in Entry /\ ed.alive = D[d].alive /\ ed.uid = D[d].uid
  BY <1>1, <1>3 DEF Entry
<1> HIDE DEF ep, ed, l, k
<1> QED BY <1>4, <1>5, <1>6 DEF KeepsUids

\* What rename does to the entry that moves.
LEMMA KeepsMove ==
    ASSUME NEW D \in [Dentries -> Entry], NEW p \in Dentries, NEW q \in Dentries,
           NEW d \in Dentries, NEW n \in FileNames
    PROVE  KeepsUids(D, Move(D, d, p, q, n))
<1> DEFINE l == IF D[d].isdir THEN D[p].lc - 1 ELSE D[p].lc
           k == [D[p].kids EXCEPT ![D[d].name] = Null]
           ep == [D[p] EXCEPT !.kids = k, !.lc = l]
           C == [D EXCEPT ![p] = ep]
           m == IF D[d].isdir THEN C[q].lc + 1 ELSE C[q].lc
           j == [C[q].kids EXCEPT ![n] = d]
           eq == [C[q] EXCEPT !.kids = j, !.lc = m]
           B == [C EXCEPT ![q] = eq]
           ed == [B[d] EXCEPT !.parent = q, !.name = n]
<1>1. D[p] \in Entry /\ Null \in NulOr /\ d \in NulOr /\ q \in NulOr /\ n \in FileNames \cup {""}
  BY DEF NulOr
<1>2. D[p].lc \in Int /\ D[p].kids \in [FileNames -> NulOr]
  BY <1>1 DEF Entry
<1>3. l \in Int /\ k \in [FileNames -> NulOr]
  <2>1. k \in [FileNames -> NulOr]
    BY <1>1, <1>2
  <2>2. l \in Int
    <3>1. D[p].lc - 1 \in Int
      BY <1>2
    <3> QED BY <1>2, <3>1
  <2> QED BY <2>1, <2>2
<1>4. Move(D, d, p, q, n) = [C EXCEPT ![q].kids[n] = d, ![q].lc = IF D[d].isdir THEN @ + 1 ELSE @,
                                      ![d].parent = q, ![d].name = n]
  <2>1. C = [D EXCEPT ![p].kids[D[d].name] = Null, ![p].lc = IF D[d].isdir THEN @ - 1 ELSE @]
    OBVIOUS
  <2>2. C = TakenOut(D, d, p)
    BY <2>1 DEF TakenOut
  <2> HIDE DEF C
  <2>3. Move(D, d, p, q, n) = PutIn(C, D[d].isdir, d, q, n)
    BY <2>2, MoveSplits
  <2> QED BY <2>3 DEF PutIn
<1>5. ep \in Entry /\ ep.alive = D[p].alive /\ ep.uid = D[p].uid
  <2> HIDE DEF l, k
  <2> QED BY <1>1, <1>3 DEF Entry
<1> HIDE DEF ep, l, k
<1>6. KeepsUids(D, C) /\ C \in [Dentries -> Entry]
  BY <1>5, KeepsEntry
<1> HIDE DEF C
<1>7. C[q] \in Entry
  BY <1>6
<1>8. C[q].lc \in Int /\ C[q].kids \in [FileNames -> NulOr]
  BY <1>7 DEF Entry
<1>9. m \in Int /\ j \in [FileNames -> NulOr]
  <2>1. j \in [FileNames -> NulOr]
    BY <1>1, <1>8
  <2>2. m \in Int
    <3>1. C[q].lc + 1 \in Int
      BY <1>8
    <3> QED BY <1>8, <3>1
  <2> QED BY <2>1, <2>2
<1>10. Move(D, d, p, q, n) = [B EXCEPT ![d].parent = q, ![d].name = n]
  <2>1. B = [C EXCEPT ![q].kids[n] = d, ![q].lc = IF D[d].isdir THEN @ + 1 ELSE @]
    BY <1>6
  <2> HIDE DEF B
  <2> QED BY <1>4, <2>1
<1>11. eq \in Entry /\ eq.alive = C[q].alive /\ eq.uid = C[q].uid
  <2> HIDE DEF m, j
  <2> QED BY <1>7, <1>9 DEF Entry
<1> HIDE DEF eq, m, j
<1>12. KeepsUids(C, B) /\ B \in [Dentries -> Entry]
  BY <1>6, <1>11, KeepsEntry
<1> HIDE DEF B
<1>13. B[d] \in Entry
  BY <1>12
<1>14. ed \in Entry /\ ed.alive = B[d].alive /\ ed.uid = B[d].uid
  BY <1>1, <1>13 DEF Entry
<1>15. Move(D, d, p, q, n) = [B EXCEPT ![d] = ed]
  BY <1>10, <1>12
<1> HIDE DEF ed
<1>16. KeepsUids(B, [B EXCEPT ![d] = ed])
  BY <1>12, <1>14, KeepsEntry
<1>17. KeepsUids(D, B)
  BY <1>6, <1>12, KeepsTrans
<1> QED BY <1>15, <1>16, <1>17, KeepsTrans

\* Only ltfs_fsops_create hands out a uid.
LEMMA UidsKept ==
    ASSUME TreeInv, NEW t \in TreeThreads, TreeStep(t), ~CreateEntry(t), ~CreateFails(t)
    PROVE  KeepsUids(dent, dent') /\ uidNumber' = uidNumber
<1>0. dent \in [Dentries -> Entry]
  BY DEF TreeInv, TreeTypes
<1> USE <1>0 DEF SameTree
<1>1. CASE LookupRoot(t)
  BY <1>1, KeepsRefl, KeepsOne DEF LookupRoot
<1>2. CASE LookupLock(t)
  BY <1>2, KeepsRefl, KeepsOne DEF LookupLock
<1>3. CASE LookupEntry(t)
  BY <1>3, KeepsRefl, KeepsOne DEF LookupEntry
<1>4. CASE LookupMissing(t)
  BY <1>4, KeepsRefl, KeepsOne DEF LookupMissing
<1>5. CASE LookupFails(t)
  BY <1>5, KeepsRelease DEF LookupFails
<1>6. CASE LookupStep(t)
  <2>1. uidNumber' = uidNumber
    BY <1>6 DEF LookupStep
  <2>2. CASE dent' = dent
    BY <2>1, <2>2, KeepsRefl
  <2>3. ASSUME NEW d, NEW v, dent' = [dent EXCEPT ![d].nh = v] PROVE KeepsUids(dent, dent')
    BY <2>3, KeepsOne
  <2>4. dent' = dent \/ \E d, v : dent' = [dent EXCEPT ![d].nh = v]
    BY <1>6 DEF LookupStep
  <2> QED BY <2>1, <2>2, <2>3, <2>4
<1>7. CASE CreateLock(t)
  BY <1>7, KeepsRefl, KeepsOne DEF CreateLock
<1>8. CASE CreateExists(t)
  BY <1>8, KeepsRefl, KeepsOne DEF CreateExists
<1>9. CASE CreateExistsRelease(t)
  BY <1>9, KeepsRelease DEF CreateExistsRelease
<1>10. CASE CreateRelease(t)
  BY <1>10, KeepsRelease DEF CreateRelease
<1>11. CASE OpenFound(t)
  BY <1>11, KeepsRefl, KeepsOne DEF OpenFound
<1>12. CASE FileOpen(t)
  BY <1>12, KeepsRefl, KeepsOne DEF FileOpen
<1>13. CASE PathCall(t)
  BY <1>13, KeepsRefl, KeepsOne DEF PathCall
<1>14. CASE CloseDentry(t)
  BY <1>14, KeepsRelease DEF CloseDentry
<1>15. CASE FileClose(t)
  BY <1>15, KeepsRefl, KeepsOne DEF FileClose
<1>16. CASE UnlinkCheck(t)
  BY <1>16, KeepsRefl, KeepsOne DEF UnlinkCheck
<1>17. CASE UnlinkLock(t)
  BY <1>17, KeepsRefl, KeepsOne DEF UnlinkLock
<1>18. CASE UnlinkEntry(t)
  <2>1. thr[t].par \in Dentries /\ thr[t].cur \in Dentries
    BY <1>18, Here DEF Call, Pointers, UnlinkEntry, UnlinkPcs, NulOr
  <2>2. thr[t].par # thr[t].cur
    <3>1. /\ thr[t].path \in Paths /\ thr[t].path # <<>> /\ GoodTree(dent)
          /\ ResolveIn(dent, Front(thr[t].path)) = thr[t].par /\ ResolveIn(dent, thr[t].path) = thr[t].cur
      BY <1>18, Here DEF UnlinkEntry, Call, OpsMatch, UnlinkPcs, Changing, PlaceOK, UnlinkAt
    <3>2. Null \notin Dentries
      BY Memory
    <3> QED BY <2>1, <3>1, <3>2, FrontShorter, ResolveInjective
  <2> QED BY <1>18, <2>1, <2>2, KeepsDetach DEF UnlinkEntry
<1>19. CASE UnlinkRelease(t)
  BY <1>19, KeepsRelease DEF UnlinkRelease
<1>20. CASE UnlinkNotEmptyRead(t)
  BY <1>20, KeepsRefl, KeepsOne DEF UnlinkNotEmptyRead
<1>21. CASE UnlinkNotEmptyWrite(t)
  BY <1>21, KeepsOne, KeepsDispose DEF UnlinkNotEmptyWrite
<1>22. CASE RenameBegin(t)
  BY <1>22, KeepsRefl, KeepsOne DEF RenameBegin
<1>23. CASE RenameFound(t)
  BY <1>23, KeepsRefl, KeepsOne DEF RenameFound
<1>24. CASE RenameNoTarget(t)
  BY <1>24, KeepsRelease DEF RenameNoTarget
<1>25. CASE RenameLockFirst(t)
  BY <1>25, KeepsRefl, KeepsOne DEF RenameLockFirst, LockDir
<1>26. CASE RenameLockSecond(t)
  BY <1>26, KeepsRefl, KeepsOne DEF RenameLockSecond, LockDir
<1>27. CASE RenameLookFirst(t)
  <2>1. uidNumber' = uidNumber
    BY <1>27 DEF RenameLookFirst
  <2>2. CASE dent' = dent
    BY <2>1, <2>2, KeepsRefl
  <2>3. ASSUME NEW d, NEW v, dent' = [dent EXCEPT ![d].nh = v] PROVE KeepsUids(dent, dent')
    BY <2>3, KeepsOne
  <2>4. dent' = dent \/ \E d, v : dent' = [dent EXCEPT ![d].nh = v]
    BY <1>27 DEF RenameLookFirst
  <2> QED BY <2>1, <2>2, <2>3, <2>4
<1>28. CASE RenameLookSecond(t)
  <2>1. uidNumber' = uidNumber
    BY <1>28 DEF RenameLookSecond
  <2>2. CASE dent' = dent
    BY <2>1, <2>2, KeepsRefl
  <2>3. ASSUME NEW d, NEW v, dent' = [dent EXCEPT ![d].nh = v] PROVE KeepsUids(dent, dent')
    BY <2>3, KeepsOne
  <2>4. dent' = dent \/ \E d, v : dent' = [dent EXCEPT ![d].nh = v]
    BY <1>28 DEF RenameLookSecond
  <2> QED BY <2>1, <2>2, <2>3, <2>4
<1>29. CASE RenameCheck(t)
  BY <1>29, KeepsRefl, KeepsOne DEF RenameCheck
<1>30. CASE RenameErrorFrom(t)
  <2>1. uidNumber' = uidNumber
    BY <1>30 DEF RenameErrorFrom
  <2> DEFINE d == thr[t].fromdent
  <2>2. CASE dent' = dent
    BY <2>1, <2>2, KeepsRefl
  <2>3. CASE dent' = [dent EXCEPT ![d].nh = @ - 1]
    BY <2>1, <2>3, KeepsOne
  <2>4. CASE dent' = Release(dent, d)
    BY <2>1, <2>4, KeepsRelease
  <2> QED BY <1>30, <2>2, <2>3, <2>4 DEF RenameErrorFrom, GiveBack
<1>31. CASE RenameErrorTo(t)
  <2>1. uidNumber' = uidNumber
    BY <1>31 DEF RenameErrorTo
  <2> DEFINE d == thr[t].todent
  <2>2. CASE dent' = dent
    BY <2>1, <2>2, KeepsRefl
  <2>3. CASE dent' = [dent EXCEPT ![d].nh = @ - 1]
    BY <2>1, <2>3, KeepsOne
  <2>4. CASE dent' = Release(dent, d)
    BY <2>1, <2>4, KeepsRelease
  <2> QED BY <1>31, <2>2, <2>3, <2>4 DEF RenameErrorTo, GiveBack
<1>32. CASE RenameReplace(t)
  <2> DEFINE c == thr[t]
             E == Detach(dent, c.todir, c.todent)
  <2>1. uidNumber' = uidNumber /\ c.todir \in Dentries /\ c.todent \in NulOr
    BY <1>32, Here DEF Call, Pointers, RenameReplace, RenamePcs, LockedPcs, NulOr
  <2>2. CASE c.todent = Null
    <3>1. c.fromdent # Null
      BY <1>32, Here DEF RenameReplace, Pointers
    <3>2. UNCHANGED dent
      BY <1>32, <2>2, <3>1 DEF RenameReplace
    <3> QED BY <2>1, <3>2, KeepsRefl
  <2>3. CASE c.todent # Null /\ c.todent = c.fromdent
    BY <1>32, <2>1, <2>3, KeepsRelease DEF RenameReplace
  <2>4. CASE c.todent # Null /\ c.todent # c.fromdent
    <3>1. KeepsUids(dent, E) /\ E \in [Dentries -> Entry]
      <4>1. /\ c.to \in Paths /\ c.to # <<>> /\ GoodTree(dent)
            /\ ResolveIn(dent, Front(c.to)) = c.todir /\ ResolveIn(dent, c.to) = c.todent
        BY <1>32, <2>1, <2>4, Here DEF RenameReplace, Call, OpsMatch, Pointers, RenamePcs, LockedPcs,
                                       Changing, PlaceOK, RenameAt
      <4>2. Null \notin Dentries
        BY Memory
      <4>3. c.todir # c.todent
        BY <2>1, <4>1, <4>2, FrontShorter, ResolveInjective
      <4> QED BY <2>1, <2>4, <4>3, KeepsDetach DEF NulOr
    <3>2. dent' = Release(E, c.todent)
      BY <1>32, <2>4 DEF RenameReplace
    <3> HIDE DEF E
    <3>3. KeepsUids(E, Release(E, c.todent))
      BY <3>1, KeepsRelease
    <3> QED BY <2>1, <3>1, <3>2, <3>3, KeepsTrans
  <2> QED BY <2>2, <2>3, <2>4
<1>33. CASE RenameMove(t)
  <2>1. thr[t].fromdir \in Dentries /\ thr[t].todir \in Dentries /\ thr[t].fromdent \in Dentries
        /\ thr[t].to \in Paths /\ thr[t].to # <<>>
    BY <1>33, Here DEF OpsMatch, Call, Pointers, RenameMove, RenamePcs, LockedPcs, NulOr
  <2>2. Last(thr[t].to) \in FileNames
    BY <2>1, PathParts
  <2> QED BY <1>33, <2>1, <2>2, KeepsMove DEF RenameMove
<1>34. CASE RenameUnlock(t)
  BY <1>34, KeepsRefl, KeepsOne DEF RenameUnlock
<1>35. CASE RenameReleaseFrom(t)
  BY <1>35, KeepsRelease DEF RenameReleaseFrom
<1>36. CASE RenameReleaseTo(t)
  BY <1>36, KeepsRelease DEF RenameReleaseTo
<1>37. CASE RenameId(t)
  BY <1>37, KeepsRefl DEF RenameId
<1> QED BY <1>1, <1>2, <1>3, <1>4, <1>5, <1>6, <1>7, <1>8, <1>9, <1>10, <1>11, <1>12,
           <1>13, <1>14, <1>15, <1>16, <1>17, <1>18, <1>19, <1>20, <1>21, <1>22, <1>23,
           <1>24, <1>25, <1>26, <1>27, <1>28, <1>29, <1>30, <1>31, <1>32, <1>33, <1>34,
           <1>35, <1>36, <1>37 DEF TreeStep

\* The next uid is above every one in use, until the counter runs out.
LEMMA UidsNext ==
    ASSUME Inv, ~clobbered, UidInv, UidsUnique, [TreeNext]_treeVars
    PROVE  UidInv' /\ UidsUnique'
<1>1. ASSUME KeepsUids(dent, dent'), uidNumber' = uidNumber PROVE UidInv' /\ UidsUnique'
  BY <1>1 DEF KeepsUids, UidInv, UidsUnique
<1>2. UidLimit \in Nat /\ UidLimit > 4
  BY TreeAssumption
<1>3. /\ uidNumber \in 0..(UidLimit - 1)
      /\ AllocateUid(uidNumber) # 0 => /\ uidNumber # 0 /\ AllocateUid(uidNumber) = uidNumber + 1
                                       /\ uidNumber + 1 \in 1..(UidLimit - 1)
  <2>1. uidNumber \in 0..(UidLimit - 1)
    BY DEF UidInv
  <2>2. CASE uidNumber + 1 < UidLimit
    BY <1>2, <2>1, <2>2 DEF AllocateUid
  <2>3. CASE uidNumber + 1 = UidLimit
    BY <1>2, <2>1, <2>3 DEF AllocateUid
  <2> QED BY <1>2, <2>1, <2>2, <2>3
<1>4. CASE UNCHANGED <<dent, uidNumber>>
  BY <1>1, <1>4, KeepsRefl
<1>5. ASSUME NEW t \in TreeThreads, TreeStep(t), TreeInv PROVE UidInv' /\ UidsUnique'
  <2>1. CASE ~CreateEntry(t) /\ ~CreateFails(t)
    BY <1>1, <1>5, <2>1, UidsKept
  <2>2. CASE CreateFails(t)
    <3>1. dent' = dent /\ (uidNumber' = uidNumber \/ uidNumber' = 0)
      BY <2>2 DEF CreateFails
    <3> QED BY <1>2, <3>1 DEF UidInv, UidsUnique
  <2>3. CASE CreateEntry(t)
    <3> DEFINE d == Min(FreeDentries)
               p == thr[t].par
               n == Last(thr[t].path)
    <3>1. dent \in [Dentries -> Entry] /\ d \in Dentries /\ ~dent[d].alive /\ p \in Dentries
      BY <1>5, <2>3, SomeFree, Here DEF CreateEntry, Call, Pointers, CreatePcs, NulOr
    <3>2. p # d
      <4>1. Counts(dent, thr) /\ Ptr(thr[t], "par") = p /\ "par" \in Slots
        BY <1>5, <2>3, PtrIs DEF CreateEntry, Slots, TreeInv
      <4>2. dent[p].alive
        BY <3>1, <4>1, Held
      <4> QED BY <3>1, <4>2
    <3>3. \E isdir \in BOOLEAN :
             dent' = [dent EXCEPT ![d] = NewDentry(t, isdir), ![p].kids[n] = d,
                                  ![p].lc = IF isdir THEN @ + 1 ELSE @]
      BY <2>3 DEF CreateEntry
    <3>4. uidNumber' = uidNumber + 1 /\ uidNumber # 0 /\ uidNumber + 1 \in 1..(UidLimit - 1)
      BY <1>3, <2>3 DEF CreateEntry
    <3> HIDE DEF d, p, n
    <3>5. PICK isdir \in BOOLEAN :
             dent' = [dent EXCEPT ![d] = NewDentry(t, isdir), ![p].kids[n] = d,
                                  ![p].lc = IF isdir THEN @ + 1 ELSE @]
      BY <3>3
    <3>6. dent'[d].alive /\ dent'[d].uid = uidNumber + 1
      <4>1. dent'[d] = NewDentry(t, isdir)
        BY <3>1, <3>2, <3>5
      <4>2. AllocateUid(uidNumber) = uidNumber + 1
        BY <1>3, <2>3 DEF CreateEntry
      <4> QED BY <4>1, <4>2 DEF NewDentry, Blank
    <3>7. \A e \in Dentries \ {d} : dent'[e].alive = dent[e].alive /\ dent'[e].uid = dent[e].uid
      BY <3>1, <3>2, <3>5 DEF Entry
    <3>8. \A e \in Dentries : dent[e].alive => dent[e].uid \in 1..uidNumber
      BY <3>4 DEF UidInv
    <3>9. UidInv'
      BY <1>2, <1>3, <3>4, <3>6, <3>7, <3>8 DEF UidInv
    <3>10. UidsUnique'
      BY <1>3, <3>1, <3>6, <3>7, <3>8 DEF UidsUnique
    <3> QED BY <3>9, <3>10
  <2> QED BY <2>1, <2>2, <2>3
<1>6. ASSUME NEW t \in TreeThreads, StartRelease(t) \/ \E c \in Workload : StartCall(t, c[1], c[2], c[3])
      PROVE  UNCHANGED <<dent, uidNumber>>
  BY <1>6 DEF StartRelease, StartCall, SameTree
<1>7. CASE Unmount
  <2>1. dent' = Release(dent, Root) /\ uidNumber' = uidNumber /\ dent \in [Dentries -> Entry]
    BY <1>7 DEF Unmount, Inv, TreeInv, TreeTypes
  <2> QED BY <1>1, <2>1, KeepsRelease
<1>8. ASSUME NEW t \in TreeThreads, TreeStep(t) PROVE TreeInv
  <2>1. CASE unmounted
    <3>1. thr[t].pc = "idle"
      BY <2>1, QuietOK DEF Inv, Ended, NulOr
    <3> QED BY <1>8, <3>1, BusyStep
  <2> QED BY <2>1 DEF Inv
<1>9. CASE UNCHANGED treeVars
  BY <1>4, <1>9 DEF treeVars
<1> QED BY <1>4, <1>5, <1>6, <1>7, <1>8, <1>9 DEF TreeNext

\* No two dentries of the index ever have the same uid: fs_allocate_uid does not start again
\* when the counter of a full index runs out (until a refused rmdir overwrites a count).
THEOREM UidsNeverShared == TreeSpec => [](~clobbered => UidsUnique)
<1>1. TreeSpec => []Inv
  BY TreeInvariant
<1>2. TreeInit => UidInv /\ UidsUnique
  <2> SUFFICES ASSUME TreeInit PROVE UidInv /\ UidsUnique
    OBVIOUS
  <2> DEFINE r == CHOOSE x \in FileNames : TRUE
  <2>1. /\ \A d \in Dentries : dent[d].alive <=> d \in {1, 2, 3}
        /\ \A d \in Dentries : d \in {1, 2, 3} => dent[d].uid = d
    BY DEF TreeInit, Blank, Root
  <2>2. uidNumber = 3 /\ UidLimit \in Nat /\ UidLimit > 4
    BY TreeAssumption DEF TreeInit
  <2> QED BY <2>1, <2>2 DEF UidInv, UidsUnique
<1>3. Inv /\ (~clobbered => UidInv /\ UidsUnique) /\ [TreeNext]_treeVars
      => (~clobbered => UidInv /\ UidsUnique)'
  BY UidsNext, StaysClobbered
<1> QED BY <1>1, <1>2, <1>3, PTL DEF TreeSpec

\* A dentry is linked exactly when the tree has a handle on it.
LEMMA LinkedHandle ==
    ASSUME NEW D, NEW d
    PROVE  IsLinked(D, d) <=> TreeHandle(D, d) = 1
BY DEF IsLinked, TreeHandle

\* A subset of the dentries is finite; one more or one less.
LEMMA DirsFinite ==
    ASSUME NEW S, S \subseteq Dentries
    PROVE  /\ IsFiniteSet(S) /\ Cardinality(S) \in Nat
           /\ \A d : d \notin S => Cardinality(S \cup {d}) = Cardinality(S) + 1
           /\ \A d \in S : Cardinality(S \ {d}) = Cardinality(S) - 1
<1>1. IsFiniteSet(S)
  BY Memory, FS_Subset
<1> QED BY <1>1, FS_CardinalityType, FS_AddElement, FS_RemoveElement

\* A lean step changes neither links nor ranks.
LEMMA LeanLinks ==
    ASSUME NEW D \in [Dentries -> Entry], NEW E \in [Dentries -> Entry], GoodTree(D), Lean(D, E)
    PROVE  /\ Orphans(D) => Orphans(E)
           /\ LinkCounts(D) => LinkCounts(E)
           /\ Ranked(D) => Ranked(E)
<1>0. ~Blank.alive /\ Blank.parent = Null /\ Null \notin Dentries
  BY Memory DEF Blank
<1>1. \A d \in Dentries : E[d].alive =>
         /\ D[d].alive /\ E[d].isdir = D[d].isdir /\ E[d].parent = D[d].parent
         /\ E[d].lc = D[d].lc /\ E[d].deleted = D[d].deleted
  BY <1>0, ZenonT(30) DEF Lean, Entry
<1>2. \A d \in Dentries : D[d].parent # Null => E[d].alive = D[d].alive
  BY DEF Lean, Entry
<1>3. \A d \in Dentries : E[d].parent # Null => E[d].parent = D[d].parent
  BY <1>0 DEF Lean, Entry
<1>4. ASSUME NEW d \in Dentries PROVE DirsIn(E, d) = DirsIn(D, d)
  BY <1>0, <1>1, <1>2, <1>4 DEF DirsIn
<1>5. \A d \in Dentries : E[d].alive => (IsLinked(E, d) <=> IsLinked(D, d))
  BY <1>1 DEF IsLinked
<1>6. Orphans(D) => Orphans(E)
  BY <1>1, <1>5 DEF Orphans
<1>7. LinkCounts(D) => LinkCounts(E)
  BY <1>1, <1>4, <1>5 DEF LinkCounts
<1>8. Ranked(D) => Ranked(E)
  BY <1>3 DEF Ranked, Ranks
<1> QED BY <1>6, <1>7, <1>8

\* Nothing changes, one change after another.
LEMMA QuietStep ==
    ASSUME NEW D \in [Dentries -> Entry]
    PROVE  LinkStep(D, D)
BY DEF LinkStep, Lean, Entry

\* numhandles++
LEMMA UpStep ==
    ASSUME NEW D \in [Dentries -> Entry], NEW d \in Dentries, D[d].alive, D[d].nh # -1
    PROVE  LinkStep(D, [D EXCEPT ![d].nh = @ + 1])
<1> DEFINE E == [D EXCEPT ![d].nh = @ + 1]
<1>1. NewCount(D, E, d, D[d].nh + 1)
  BY CountUp
<1>2. D[d].nh \in Int
  BY DEF Entry
<1>3. D[d].nh + 1 \in Int /\ D[d].nh + 1 # 0
  BY <1>2
<1> HIDE DEF E
<1>4. /\ Lean(D, E) /\ E[d].nh = D[d].nh + 1 /\ E[d].alive
      /\ \A e \in Dentries : e # d => E[e] = D[e]
      /\ \A e \in Dentries : TreeHandle(E, e) = TreeHandle(D, e)
  BY <1>1, <1>3, NewCountIs
<1>5. InUse(D) => InUse(E)
  BY <1>3, <1>4, LinkedHandle DEF InUse
<1> QED BY <1>1, <1>4, <1>5 DEF LinkStep, NewCount, E

\* numhandles-- of a linked dentry.
LEMMA DownStep ==
    ASSUME NEW D \in [Dentries -> Entry], NEW d \in Dentries, D[d].alive, IsLinked(D, d)
    PROVE  LinkStep(D, [D EXCEPT ![d].nh = @ - 1])
<1> DEFINE E == [D EXCEPT ![d].nh = @ - 1]
<1>1. PICK v \in Int : v + 1 = D[d].nh /\ NewCount(D, E, d, v)
  BY CountDown
<1> HIDE DEF E
<1>2. /\ Lean(D, E) /\ E[d].nh = v /\ E[d].alive
      /\ \A e \in Dentries : e # d => E[e] = D[e]
      /\ \A e \in Dentries : TreeHandle(E, e) = TreeHandle(D, e)
  BY <1>1, NewCountIs
<1>3. InUse(D) => InUse(E)
  BY <1>2, LinkedHandle DEF InUse
<1> QED BY <1>1, <1>2, <1>3 DEF LinkStep, NewCount, E

\* fs_release_dentry_unlocked: the last handle is never that of the tree.
LEMMA FreeStep ==
    ASSUME NEW D \in [Dentries -> Entry], GoodTree(D), NEW d \in Dentries, D[d].alive,
           D[d].nh = 1 => TreeHandle(D, d) = 0
    PROVE  LinkStep(D, Release(D, d))
<1>1. CASE D[d].nh = 1
  <2>1. Release(D, d) = Dispose(D, d)
    BY <1>1 DEF Release
  <2> DEFINE E == Dispose(D, d)
  <2>2. /\ E \in [Dentries -> Entry] /\ E[d] = Blank /\ Lean(D, E)
        /\ \A e \in Dentries : e # d => E[e] = D[e]
    BY <1>1, DisposeLeaf
  <2> HIDE DEF E
  <2>3. InUse(D) => InUse(E)
    BY <2>2, BlankEntry DEF InUse, IsLinked
  <2> QED BY <2>1, <2>2, <2>3 DEF LinkStep, E
<1>2. CASE D[d].nh # 1
  <2> DEFINE E == [D EXCEPT ![d].nh = @ - 1]
  <2>1. Release(D, d) = E
    BY <1>2 DEF Release
  <2>2. PICK v \in Int : v + 1 = D[d].nh /\ NewCount(D, E, d, v)
    BY CountDown
  <2> HIDE DEF E
  <2>3. /\ Lean(D, E) /\ E[d].nh = v /\ E[d].alive
        /\ \A e \in Dentries : e # d => E[e] = D[e]
        /\ \A e \in Dentries : TreeHandle(E, e) = TreeHandle(D, e)
    BY <2>2, NewCountIs
  <2>4. v # 0
    BY <1>2, <2>2
  <2>5. InUse(D) => InUse(E)
    BY <2>3, <2>4, LinkedHandle DEF InUse
  <2> QED BY <2>1, <2>2, <2>3, <2>5 DEF LinkStep, NewCount
<1> QED BY <1>1, <1>2

\* What the counts say of a dentry that a call has a pointer to.
LEMMA HeldCount ==
    ASSUME NEW D \in [Dentries -> Entry], NEW T, Counts(D, T), NEW t \in TreeThreads, NEW k \in Slots,
           NEW d \in Dentries, Ptr(T[t], k) = d
    PROVE  /\ D[d].alive /\ D[d].nh \in Nat /\ D[d].nh # -1
           /\ D[d].nh = 1 => TreeHandle(D, d) = 0
           /\ IsLinked(D, d) => D[d].nh \in Nat /\ D[d].nh >= 2
<1>1. <<t, k>> \in Holders(T, d)
  BY DEF Holders
<1>2. Cardinality(Holders(T, d)) \in Nat /\ Cardinality(Holders(T, d)) # 0
  BY <1>1, SlotsFinite, NoHolder
<1>3. D[d].alive /\ D[d].nh = Cardinality(Holders(T, d)) + TreeHandle(D, d)
  BY <1>1 DEF Counts
<1>4. TreeHandle(D, d) \in {0, 1} /\ (IsLinked(D, d) <=> TreeHandle(D, d) = 1)
  BY DEF TreeHandle, IsLinked
<1> QED BY <1>2, <1>3, <1>4

\* A pointer of a call is given back.
LEMMA GivenStep ==
    ASSUME NEW D \in [Dentries -> Entry], GoodTree(D), NEW T, Counts(D, T), NEW t \in TreeThreads,
           NEW k \in Slots, NEW d \in Dentries, Ptr(T[t], k) = d
    PROVE  LinkStep(D, Release(D, d))
BY HeldCount, FreeStep

\* Detaching, field by field.
LEMMA DetachFields ==
    ASSUME NEW D \in [Dentries -> Entry], NEW p \in Dentries, NEW d \in Dentries, p # d,
           NEW E, E = Detach(D, p, d)
    PROVE  Left(D, E, p, d)
<1> DEFINE l == IF D[d].isdir THEN D[p].lc - 1 ELSE D[p].lc
           k == [D[p].kids EXCEPT ![D[d].name] = Null]
           ep == [D[p] EXCEPT !.kids = k, !.lc = l]
           ed == [D[d] EXCEPT !.deleted = TRUE, !.parent = Null, !.lc = D[d].lc - 1, !.nh = D[d].nh - 1]
<1>1. D[p] \in Entry /\ D[d] \in Entry
  OBVIOUS
<1>2. E = [D EXCEPT ![p] = ep, ![d] = ed]
  BY <1>1 DEF Detach
<1>3. E[p] = ep /\ E[d] = ed /\ \A e \in Dentries : e # d /\ e # p => E[e] = D[e]
  <2> HIDE DEF ep, ed
  <2> QED BY <1>2
<1>4. /\ ep.alive = D[p].alive /\ ep.isdir = D[p].isdir /\ ep.parent = D[p].parent
      /\ ep.deleted = D[p].deleted /\ ep.nh = D[p].nh /\ ep.lc = l
  <2> HIDE DEF l, k
  <2> QED BY <1>1 DEF Entry
<1>5. /\ ed.alive = D[d].alive /\ ed.isdir = D[d].isdir /\ ed.parent = Null
      /\ ed.deleted /\ ed.lc = D[d].lc - 1 /\ ed.nh = D[d].nh - 1
  BY <1>1 DEF Entry
<1> HIDE DEF ep, ed
<1> QED BY <1>3, <1>4, <1>5 DEF Left

\* A dentry that leaves its directory takes its link and its ".." with it.
LEMMA DetachLinks ==
    ASSUME NEW D \in [Dentries -> Entry], GoodTree(D), NEW p \in Dentries, NEW d \in Dentries,
           D[d].parent = p, d # p, D[d].alive, D[d].nh \in Int, D[d].nh # 1, LinksOK(D),
           NEW E, E = Detach(D, p, d)
    PROVE  LinksOK(E)
<1>0. Null \notin Dentries /\ Root \in Dentries
  BY Memory
<1>1. /\ E[d].alive = D[d].alive /\ E[d].isdir = D[d].isdir /\ E[d].parent = Null
      /\ E[d].deleted /\ E[d].lc = D[d].lc - 1 /\ E[d].nh = D[d].nh - 1
      /\ E[p].alive = D[p].alive /\ E[p].isdir = D[p].isdir /\ E[p].parent = D[p].parent
      /\ E[p].deleted = D[p].deleted /\ E[p].nh = D[p].nh
      /\ E[p].lc = IF D[d].isdir THEN D[p].lc - 1 ELSE D[p].lc
      /\ \A e \in Dentries : e # d /\ e # p => E[e] = D[e]
  <2>1. Left(D, E, p, d)
    BY DetachFields
  <2> QED BY <2>1 DEF Left
<1>2. d # Root
  BY <1>0 DEF GoodTree
<1>3. \A e \in Dentries : /\ E[e].alive = D[e].alive /\ E[e].isdir = D[e].isdir
                          /\ e # d => /\ E[e].parent = D[e].parent /\ E[e].deleted = D[e].deleted
                                      /\ E[e].nh = D[e].nh
                                      /\ IsLinked(E, e) <=> IsLinked(D, e)
  <2>1. \A e \in Dentries : e = d \/ e = p \/ E[e] = D[e]
    BY <1>1
  <2> QED BY <1>1, <2>1, ZenonT(30) DEF IsLinked
<1>4. ~IsLinked(E, d) /\ IsLinked(D, d)
  BY <1>0, <1>1, <1>2 DEF IsLinked
<1>5. InUse(E)
  <2>1. E[d].nh # 0
    BY <1>1
  <2> QED BY <1>3, <2>1 DEF InUse, LinksOK
<1>6. Orphans(E)
  BY <1>1, <1>3 DEF Orphans, LinksOK
<1>7. Ranked(E)
  BY <1>1, <1>3 DEF Ranked, Ranks, LinksOK
<1>8. ASSUME NEW e \in Dentries, E[e].alive
      PROVE  E[e].lc = Cardinality(DirsIn(E, e)) + (IF E[e].isdir THEN 1 ELSE 0)
                       + (IF IsLinked(E, e) THEN 1 ELSE 0)
  <2>1. D[e].lc = Cardinality(DirsIn(D, e)) + (IF D[e].isdir THEN 1 ELSE 0)
                  + (IF IsLinked(D, e) THEN 1 ELSE 0)
    BY <1>3, <1>8 DEF LinksOK, LinkCounts
  <2>2. DirsIn(D, e) \subseteq Dentries /\ DirsIn(E, e) \subseteq Dentries
    BY DEF DirsIn
  <2>3. Cardinality(DirsIn(D, e)) \in Nat /\ Cardinality(DirsIn(E, e)) \in Nat
    BY <2>2, DirsFinite
  <2>4. CASE e # p \/ ~D[d].isdir
    <3>1. DirsIn(E, e) = DirsIn(D, e)
      BY <1>0, <1>1, <1>3, <2>4 DEF DirsIn
    <3>2. E[e].lc = IF e = d THEN D[e].lc - 1 ELSE D[e].lc
      BY <1>1, <2>4
    <3> QED BY <1>3, <1>4, <2>1, <2>3, <3>1, <3>2
  <2>5. CASE e = p /\ D[d].isdir
    <3>1. d \in DirsIn(D, e) /\ DirsIn(E, e) = DirsIn(D, e) \ {d}
      BY <1>0, <1>1, <1>3, <2>5 DEF DirsIn
    <3>2. Cardinality(DirsIn(E, e)) = Cardinality(DirsIn(D, e)) - 1
      BY <2>2, <3>1, DirsFinite
    <3>3. E[e].lc = D[e].lc - 1
      BY <1>1, <2>5
    <3> QED BY <1>3, <2>1, <2>3, <2>5, <3>2, <3>3
  <2> QED BY <2>4, <2>5
<1>9. LinkCounts(E)
  BY <1>8 DEF LinkCounts
<1> QED BY <1>5, <1>6, <1>7, <1>9 DEF LinksOK

\* Inserting, field by field.
LEMMA InsertFields ==
    ASSUME NEW D \in [Dentries -> Entry], NEW p \in Dentries, NEW d \in Dentries, p # d,
           NEW n \in FileNames, NEW l, NEW ed, NEW E, Inserted(D, E, p, n, d, l, ed)
    PROVE  Joined(D, E, p, d, l, ed)
<1> DEFINE ep == [D[p] EXCEPT !.kids[n] = d, !.lc = l]
<1>1. D[p] \in Entry
  OBVIOUS
<1>2. E = [D EXCEPT ![d] = ed, ![p] = ep]
  BY DEF Inserted
<1>3. /\ ep.alive = D[p].alive /\ ep.isdir = D[p].isdir /\ ep.parent = D[p].parent
      /\ ep.deleted = D[p].deleted /\ ep.nh = D[p].nh /\ ep.lc = l
  BY <1>1 DEF Entry
<1> HIDE DEF ep
<1>4. E[d] = ed /\ E[p] = ep /\ \A e \in Dentries : e # d /\ e # p => E[e] = D[e]
  BY <1>2
<1> QED BY <1>3, <1>4 DEF Joined

\* A new dentry in a directory: its own links, and a ".." if it is a directory.
LEMMA InsertLinks ==
    ASSUME NEW D \in [Dentries -> Entry], GoodTree(D), NEW p \in Dentries, NEW d \in Dentries,
           p # d, ~D[d].alive, D[p].alive, NEW n \in FileNames, NEW ed, ed.alive, ed.isdir \in BOOLEAN,
           ed.parent = p, ed.lc = (IF ed.isdir THEN 2 ELSE 1),
           NEW l, l = (IF ed.isdir THEN D[p].lc + 1 ELSE D[p].lc), LinksOK(D),
           NEW E, Inserted(D, E, p, n, d, l, ed)
    PROVE  LinksOK(E)
<1>0. Null \notin Dentries /\ Root \in Dentries
  BY Memory
<1>1. /\ E[d] = ed
      /\ E[p].alive = D[p].alive /\ E[p].isdir = D[p].isdir /\ E[p].parent = D[p].parent
      /\ E[p].deleted = D[p].deleted /\ E[p].nh = D[p].nh /\ E[p].lc = l
      /\ \A e \in Dentries : e # d /\ e # p => E[e] = D[e]
  <2>1. Joined(D, E, p, d, l, ed)
    BY InsertFields
  <2> QED BY <2>1 DEF Joined
<1>2. d # Root /\ D[d] = Blank
  BY DEF GoodTree
<1>3. \A e \in Dentries : e # d => /\ E[e].alive = D[e].alive /\ E[e].isdir = D[e].isdir
                                   /\ E[e].parent = D[e].parent /\ E[e].deleted = D[e].deleted
                                   /\ E[e].nh = D[e].nh
                                   /\ IsLinked(E, e) <=> IsLinked(D, e)
  BY <1>1, ZenonT(30) DEF IsLinked
<1>4. IsLinked(E, d)
  BY <1>0, <1>1 DEF IsLinked
<1>5. \A e \in Dentries : D[e].parent # d
  <2> SUFFICES ASSUME NEW e \in Dentries, D[e].parent = d PROVE FALSE
    OBVIOUS
  <2>1. D[e].name \in FileNames /\ D[d].kids[D[e].name] = e
    BY <1>0 DEF GoodTree
  <2>2. Blank.kids = [m \in FileNames |-> Null]
    BY DEF Blank
  <2>3. D[d].kids[D[e].name] = Null
    BY <1>2, <2>1, <2>2
  <2> QED BY <1>0, <2>1, <2>3
<1>6. InUse(E) /\ Orphans(E)
  BY <1>3, <1>4 DEF InUse, Orphans, LinksOK
<1>7. Ranked(E)
  <2>1. PICK rank : Ranks(D, rank)
    BY DEF LinksOK, Ranked
  <2> DEFINE new == [rank EXCEPT ![d] = rank[p] + 1]
  <2>2. rank \in [Dentries -> Nat] /\ rank[p] \in Nat /\ rank[p] < rank[p] + 1 /\ rank[p] + 1 \in Nat
    BY <2>1 DEF Ranks
  <2>3. new \in [Dentries -> Nat] /\ new[d] = rank[p] + 1 /\ \A e \in Dentries : e # d => new[e] = rank[e]
    BY <2>2
  <2> HIDE DEF new
  <2>4. Ranks(E, new)
    <3>1. ASSUME NEW e \in Dentries, E[e].parent # Null PROVE new[E[e].parent] < new[e]
      <4>1. CASE e = d
        BY <1>1, <2>2, <2>3, <4>1
      <4>2. CASE e # d
        <5>1. D[e] \in Entry /\ D[e].parent # Null /\ E[e].parent = D[e].parent
          BY <1>3, <3>1, <4>2
        <5>2. D[e].parent \in Dentries
          BY <5>1 DEF Entry, NulOr
        <5>3. new[E[e].parent] = rank[D[e].parent] /\ new[e] = rank[e]
          BY <1>5, <2>3, <4>2, <5>1, <5>2
        <5> QED BY <2>1, <5>1, <5>3 DEF Ranks
      <4> QED BY <4>1, <4>2
    <3> QED BY <2>3, <3>1 DEF Ranks
  <2> QED BY <2>4 DEF Ranked
<1>8. ASSUME NEW e \in Dentries, E[e].alive
      PROVE  E[e].lc = Cardinality(DirsIn(E, e)) + (IF E[e].isdir THEN 1 ELSE 0)
                       + (IF IsLinked(E, e) THEN 1 ELSE 0)
  <2>1. e # d => D[e].lc = Cardinality(DirsIn(D, e)) + (IF D[e].isdir THEN 1 ELSE 0)
                           + (IF IsLinked(D, e) THEN 1 ELSE 0)
    BY <1>3, <1>8 DEF LinksOK, LinkCounts
  <2>2. DirsIn(D, e) \subseteq Dentries /\ DirsIn(E, e) \subseteq Dentries
    BY DEF DirsIn
  <2>3. Cardinality(DirsIn(D, e)) \in Nat /\ Cardinality(DirsIn(E, e)) \in Nat
    BY <2>2, DirsFinite
  <2>4. CASE e = d
    <3>1. DirsIn(E, e) = {}
      BY <1>1, <1>3, <1>5, <2>4 DEF DirsIn
    <3>2. Cardinality(DirsIn(E, e)) = 0
      BY <3>1, FS_EmptySet
    <3> QED BY <1>1, <1>4, <2>4, <3>2
  <2>5. CASE e # d /\ (e # p \/ ~ed.isdir)
    <3>1. DirsIn(E, e) = DirsIn(D, e)
      BY <1>0, <1>1, <1>2, <1>3, <2>5 DEF DirsIn
    <3>2. E[e].lc = D[e].lc
      BY <1>1, <2>5
    <3> QED BY <1>3, <2>1, <2>3, <2>5, <3>1, <3>2
  <2>6. CASE e = p /\ ed.isdir
    <3>1. d \notin DirsIn(D, e) /\ DirsIn(E, e) = DirsIn(D, e) \cup {d}
      BY <1>0, <1>1, <1>2, <1>3, <2>6 DEF DirsIn
    <3>2. Cardinality(DirsIn(E, e)) = Cardinality(DirsIn(D, e)) + 1
      BY <2>2, <3>1, DirsFinite
    <3>3. E[e].lc = D[e].lc + 1
      BY <1>1, <2>6
    <3> QED BY <1>3, <2>1, <2>3, <2>6, <3>2, <3>3
  <2> QED BY <2>4, <2>5, <2>6
<1>9. LinkCounts(E)
  BY <1>8 DEF LinkCounts
<1> QED BY <1>6, <1>7, <1>9 DEF LinksOK

\* Moving, field by field.
LEMMA MoveFields ==
    ASSUME NEW D \in [Dentries -> Entry], NEW p \in Dentries, NEW q \in Dentries,
           NEW d \in Dentries, NEW n \in FileNames, d # p, d # q,
           NEW E, E = Move(D, d, p, q, n)
    PROVE  Moved(D, E, d, p, q)
<1> DEFINE l == IF D[d].isdir THEN D[p].lc - 1 ELSE D[p].lc
           k == [D[p].kids EXCEPT ![D[d].name] = Null]
           ep == [D[p] EXCEPT !.kids = k, !.lc = l]
           C == [D EXCEPT ![p] = ep]
           m == IF D[d].isdir THEN C[q].lc + 1 ELSE C[q].lc
           j == [C[q].kids EXCEPT ![n] = d]
           eq == [C[q] EXCEPT !.kids = j, !.lc = m]
           B == [C EXCEPT ![q] = eq]
           ed == [B[d] EXCEPT !.parent = q, !.name = n]
<1>1. D[p] \in Entry /\ Null \in NulOr /\ d \in NulOr /\ q \in NulOr /\ n \in FileNames \cup {""}
  BY DEF NulOr
<1>2. D[p].lc \in Int /\ D[p].kids \in [FileNames -> NulOr]
  BY <1>1 DEF Entry
<1>3. l \in Int /\ k \in [FileNames -> NulOr]
  <2>1. k \in [FileNames -> NulOr]
    BY <1>1, <1>2
  <2>2. l \in Int
    <3>1. D[p].lc - 1 \in Int
      BY <1>2
    <3> QED BY <1>2, <3>1
  <2> QED BY <2>1, <2>2
<1>4. Move(D, d, p, q, n) = [C EXCEPT ![q].kids[n] = d, ![q].lc = IF D[d].isdir THEN @ + 1 ELSE @,
                                      ![d].parent = q, ![d].name = n]
  <2>1. C = [D EXCEPT ![p].kids[D[d].name] = Null, ![p].lc = IF D[d].isdir THEN @ - 1 ELSE @]
    OBVIOUS
  <2>2. C = TakenOut(D, d, p)
    BY <2>1 DEF TakenOut
  <2> HIDE DEF C
  <2>3. Move(D, d, p, q, n) = PutIn(C, D[d].isdir, d, q, n)
    BY <2>2, MoveSplits
  <2> QED BY <2>3 DEF PutIn
<1>5. /\ ep \in Entry /\ ep.alive = D[p].alive /\ ep.isdir = D[p].isdir /\ ep.parent = D[p].parent
      /\ ep.deleted = D[p].deleted /\ ep.nh = D[p].nh /\ ep.lc = l
  <2> HIDE DEF l, k
  <2> QED BY <1>1, <1>3 DEF Entry
<1> HIDE DEF ep, k
<1>6. C \in [Dentries -> Entry] /\ C[p] = ep /\ \A e \in Dentries : e # p => C[e] = D[e]
  BY <1>5
<1> HIDE DEF C
<1>7. C[q] \in Entry
  BY <1>6
<1>8. C[q].lc \in Int /\ C[q].kids \in [FileNames -> NulOr]
  BY <1>7 DEF Entry
<1>9. m \in Int /\ j \in [FileNames -> NulOr]
  <2>1. j \in [FileNames -> NulOr]
    BY <1>1, <1>8
  <2>2. m \in Int
    <3>1. C[q].lc + 1 \in Int
      BY <1>8
    <3> QED BY <1>8, <3>1
  <2> QED BY <2>1, <2>2
<1>10. Move(D, d, p, q, n) = [B EXCEPT ![d].parent = q, ![d].name = n]
  <2>1. B = [C EXCEPT ![q].kids[n] = d, ![q].lc = IF D[d].isdir THEN @ + 1 ELSE @]
    BY <1>6
  <2> HIDE DEF B
  <2> QED BY <1>4, <2>1
<1>11. /\ eq \in Entry /\ eq.alive = C[q].alive /\ eq.isdir = C[q].isdir /\ eq.parent = C[q].parent
       /\ eq.deleted = C[q].deleted /\ eq.nh = C[q].nh /\ eq.lc = m
  <2> HIDE DEF m, j
  <2> QED BY <1>7, <1>9 DEF Entry
<1> HIDE DEF eq, j
<1>12. B \in [Dentries -> Entry] /\ B[q] = eq /\ \A e \in Dentries : e # q => B[e] = C[e]
  BY <1>6, <1>11
<1> HIDE DEF B
<1>13. B[d] = D[d] /\ D[d] \in Entry
  BY <1>6, <1>12
<1>14. /\ ed.alive = D[d].alive /\ ed.isdir = D[d].isdir /\ ed.parent = q
       /\ ed.deleted = D[d].deleted /\ ed.nh = D[d].nh /\ ed.lc = D[d].lc
  BY <1>13 DEF Entry
<1>15. E = [B EXCEPT ![d] = ed]
  BY <1>10, <1>12
<1> HIDE DEF ed
<1>16. E[d] = ed /\ \A e \in Dentries : e # d => E[e] = B[e]
  BY <1>12, <1>15
<1>17. \A e \in Dentries : D[e].lc \in Int
  BY DEF Entry
<1>18. ASSUME NEW e \in Dentries
       PROVE  /\ E[e].alive = D[e].alive /\ E[e].isdir = D[e].isdir /\ E[e].deleted = D[e].deleted
              /\ E[e].nh = D[e].nh /\ E[e].parent = (IF e = d THEN q ELSE D[e].parent)
              /\ E[e].lc = D[e].lc - (IF D[d].isdir /\ e = p THEN 1 ELSE 0)
                                   + (IF D[d].isdir /\ e = q THEN 1 ELSE 0)
  <2>1. CASE e = d
    BY <1>14, <1>16, <1>17, <2>1
  <2>2. CASE e # d /\ e # q /\ e # p
    <3>1. E[e] = D[e]
      BY <1>6, <1>12, <1>16, <2>2
    <3> QED BY <1>17, <2>2, <3>1
  <2>3. CASE e # d /\ e = p /\ e # q
    <3>1. E[e] = ep
      BY <1>6, <1>12, <1>16, <2>3
    <3> QED BY <1>5, <1>17, <2>3, <3>1
  <2>4. CASE e # d /\ e # p /\ e = q
    <3>1. E[e] = eq /\ C[q] = D[q]
      BY <1>6, <1>12, <1>16, <2>4
    <3> QED BY <1>11, <1>17, <2>4, <3>1
  <2>5. CASE e # d /\ e = p /\ e = q
    <3>1. E[e] = eq /\ C[q] = ep
      BY <1>6, <1>12, <1>16, <2>5
    <3> QED BY <1>5, <1>11, <1>17, <2>5, <3>1
  <2> QED BY <2>1, <2>2, <2>3, <2>4, <2>5
<1> QED BY <1>18 DEF Moved

\* A directory that moves takes its ".." along, and makes no cycle: it moves to the
\* root or to another directory right below the root.
LEMMA MoveLinks ==
    ASSUME NEW D \in [Dentries -> Entry], GoodTree(D), NEW p \in Dentries, NEW q \in Dentries,
           NEW d \in Dentries, NEW n \in FileNames, D[d].parent = p, d # p, d # q, D[d].alive,
           q = Root \/ D[q].parent = Root, LinksOK(D),
           NEW E, E = Move(D, d, p, q, n)
    PROVE  LinksOK(E)
<1>0. Null \notin Dentries /\ Root \in Dentries
  BY Memory
<1>1. \A e \in Dentries :
         /\ E[e].alive = D[e].alive /\ E[e].isdir = D[e].isdir /\ E[e].deleted = D[e].deleted
         /\ E[e].nh = D[e].nh /\ E[e].parent = (IF e = d THEN q ELSE D[e].parent)
         /\ E[e].lc = D[e].lc - (IF D[d].isdir /\ e = p THEN 1 ELSE 0)
                              + (IF D[d].isdir /\ e = q THEN 1 ELSE 0)
  <2>1. Moved(D, E, d, p, q)
    BY MoveFields
  <2> QED BY <2>1 DEF Moved
<1>2. d # Root /\ D[Root].parent = Null
  BY <1>0 DEF GoodTree
<1>3. \A e \in Dentries : IsLinked(E, e) <=> IsLinked(D, e)
  BY <1>0, <1>1 DEF IsLinked
<1>4. InUse(E) /\ Orphans(E)
  BY <1>1, <1>3 DEF InUse, Orphans, LinksOK
<1>5. Ranked(E)
  <2>1. PICK rank : Ranks(D, rank)
    BY DEF LinksOK, Ranked
  <2> DEFINE new == [e \in Dentries |-> IF e = Root THEN 0 ELSE IF e = q THEN 1 ELSE rank[e] + 2]
  <2>2. rank \in [Dentries -> Nat] /\ \A e \in Dentries : rank[e] \in Nat
    BY <2>1 DEF Ranks
  <2>3. \A e \in Dentries : new[e] = IF e = Root THEN 0 ELSE IF e = q THEN 1 ELSE rank[e] + 2
    OBVIOUS
  <2>4. new \in [Dentries -> Nat]
    BY <2>2
  <2> HIDE DEF new
  <2>5. ASSUME NEW e \in Dentries, E[e].parent # Null PROVE new[E[e].parent] < new[e]
    <3>1. E[e].parent = (IF e = d THEN q ELSE D[e].parent) /\ D[e] \in Entry
      BY <1>1
    <3>2. E[e].parent \in Dentries
      BY <2>5, <3>1 DEF Entry, NulOr
    <3>3. e # Root
      BY <1>2, <2>5, <3>1
    <3>4. CASE e = d
      BY <1>2, <2>2, <2>3, <3>1, <3>4
    <3>5. CASE e # d /\ e = q
      BY <2>3, <3>1, <3>2, <3>3, <3>5
    <3>6. CASE e # d /\ e # q
      <4>1. rank[D[e].parent] < rank[e] /\ E[e].parent = D[e].parent
        BY <2>1, <2>5, <3>1, <3>6 DEF Ranks
      <4> QED BY <2>2, <2>3, <3>2, <3>3, <3>6, <4>1
    <3> QED BY <3>4, <3>5, <3>6
  <2> QED BY <2>4, <2>5 DEF Ranked, Ranks
<1>6. ASSUME NEW e \in Dentries, E[e].alive
      PROVE  E[e].lc = Cardinality(DirsIn(E, e)) + (IF E[e].isdir THEN 1 ELSE 0)
                       + (IF IsLinked(E, e) THEN 1 ELSE 0)
  <2>1. D[e].lc = Cardinality(DirsIn(D, e)) + (IF D[e].isdir THEN 1 ELSE 0)
                  + (IF IsLinked(D, e) THEN 1 ELSE 0)
    BY <1>1, <1>6 DEF LinksOK, LinkCounts
  <2>2. DirsIn(D, e) \subseteq Dentries /\ DirsIn(E, e) \subseteq Dentries
    BY DEF DirsIn
  <2>3. Cardinality(DirsIn(D, e)) \in Nat /\ Cardinality(DirsIn(E, e)) \in Nat
    BY <2>2, DirsFinite
  <2>4. CASE ~D[d].isdir \/ (e # p /\ e # q) \/ p = q
    <3>1. DirsIn(E, e) = DirsIn(D, e)
      BY <1>1, <2>4 DEF DirsIn
    <3>2. E[e].lc = D[e].lc
      BY <1>1, <2>1, <2>3, <2>4
    <3> QED BY <1>1, <1>3, <2>1, <2>3, <3>1, <3>2
  <2>5. CASE D[d].isdir /\ e = p /\ e # q
    <3>1. d \in DirsIn(D, e) /\ DirsIn(E, e) = DirsIn(D, e) \ {d}
      BY <1>1, <2>5 DEF DirsIn
    <3>2. Cardinality(DirsIn(E, e)) = Cardinality(DirsIn(D, e)) - 1
      BY <2>2, <3>1, DirsFinite
    <3>3. E[e].lc = D[e].lc - 1
      BY <1>1, <2>1, <2>3, <2>5
    <3> QED BY <1>1, <1>3, <2>1, <2>3, <3>2, <3>3
  <2>6. CASE D[d].isdir /\ e # p /\ e = q
    <3>1. d \notin DirsIn(D, e) /\ DirsIn(E, e) = DirsIn(D, e) \cup {d}
      BY <1>1, <2>6 DEF DirsIn
    <3>2. Cardinality(DirsIn(E, e)) = Cardinality(DirsIn(D, e)) + 1
      BY <2>2, <3>1, DirsFinite
    <3>3. E[e].lc = D[e].lc + 1
      BY <1>1, <2>1, <2>3, <2>6
    <3> QED BY <1>1, <1>3, <2>1, <2>3, <3>2, <3>3
  <2> QED BY <2>4, <2>5, <2>6
<1>7. LinkCounts(E)
  BY <1>6 DEF LinkCounts
<1> QED BY <1>4, <1>5, <1>7 DEF LinksOK

\* What a lean step with nothing lost leaves.
LEMMA LinkStepOK ==
    ASSUME NEW D \in [Dentries -> Entry], NEW E, GoodTree(D), LinkStep(D, E), LinksOK(D)
    PROVE  LinksOK(E)
BY LeanLinks DEF LinkStep, LinksOK

\* numhandles of a live dentry is not negative.
LEMMA CountNat ==
    ASSUME TreeInv, NEW d \in Dentries, dent[d].alive
    PROVE  dent[d].nh \in Nat /\ dent[d].nh # -1
<1>1. dent[d].nh = Cardinality(Holders(thr, d)) + TreeHandle(dent, d)
  BY DEF TreeInv, Counts
<1>2. Cardinality(Holders(thr, d)) \in Nat /\ TreeHandle(dent, d) \in {0, 1}
  BY SlotsFinite DEF TreeHandle
<1> QED BY <1>1, <1>2

\* An entry of a directory is alive, and both are linked.
LEMMA EntryLinked ==
    ASSUME TreeInv, NEW p \in Dentries, NEW n \in FileNames, dent[p].kids[n] # Null
    PROVE  /\ dent[p].kids[n] \in Dentries /\ dent[dent[p].kids[n]].alive
           /\ IsLinked(dent, p) /\ dent[p].alive
<1>1. dent[p] \in Entry /\ GoodTree(dent) /\ Null \notin Dentries
  BY Memory DEF TreeInv, TreeTypes
<1>2. dent[p].kids[n] \in Dentries
  BY <1>1 DEF Entry, NulOr
<1>3. dent[p].alive
  <2>1. CASE ~dent[p].alive
    <3>1. dent[p] = Blank /\ Blank.kids = [m \in FileNames |-> Null]
      BY <1>1, <2>1 DEF GoodTree, Blank
    <3> QED BY <3>1
  <2> QED BY <2>1
<1> QED BY <1>1, <1>2, <1>3 DEF GoodTree, IsLinked

\* A call takes a handle on a live dentry.
LEMMA TakenKept ==
    ASSUME TreeInv, LinksOK(dent), NEW d \in Dentries, dent[d].alive
    PROVE  LinksOK([dent EXCEPT ![d].nh = @ + 1])
<1>1. dent \in [Dentries -> Entry] /\ GoodTree(dent)
  BY DEF TreeInv, TreeTypes
<1>2. LinkStep(dent, [dent EXCEPT ![d].nh = @ + 1])
  BY <1>1, CountNat, UpStep
<1> QED BY <1>1, <1>2, LinkStepOK

\* A call gives one of its pointers back.
LEMMA GivenKept ==
    ASSUME TreeInv, LinksOK(dent), NEW t \in TreeThreads, NEW k \in Slots, NEW d \in Dentries,
           Ptr(thr[t], k) = d
    PROVE  LinksOK(Release(dent, d))
<1>1. dent \in [Dentries -> Entry] /\ GoodTree(dent) /\ Counts(dent, thr)
  BY DEF TreeInv, TreeTypes
<1>2. LinkStep(dent, Release(dent, d))
  BY <1>1, GivenStep
<1> QED BY <1>1, <1>2, LinkStepOK

\* numhandles goes down and the dentry stays linked.
LEMMA DownKept ==
    ASSUME TreeInv, LinksOK(dent), NEW d \in Dentries, dent[d].alive, IsLinked(dent, d)
    PROVE  LinksOK([dent EXCEPT ![d].nh = @ - 1])
<1>1. dent \in [Dentries -> Entry] /\ GoodTree(dent)
  BY DEF TreeInv, TreeTypes
<1>2. LinkStep(dent, [dent EXCEPT ![d].nh = @ - 1])
  BY <1>1, DownStep
<1> QED BY <1>1, <1>2, LinkStepOK

\* The pointers of a call and the names of its paths.
LEMMA CallParts ==
    ASSUME TreeInv, NEW t \in TreeThreads
    PROVE  LET c == thr[t] IN
           /\ c.cur \in NulOr /\ c.par \in NulOr /\ c.fromdir \in NulOr /\ c.todir \in NulOr
           /\ c.fromdent \in NulOr /\ c.todent \in NulOr
           /\ c.path \in Paths /\ c.to \in Paths /\ c.want \in Paths
           /\ c.op \in Changing => c.path # <<>> /\ Last(c.path) \in FileNames
           /\ c.op = "rename" => c.to # <<>> /\ Last(c.to) \in FileNames
           /\ c.want # <<>> => Head(c.want) \in FileNames
<1>1. thr[t] \in Call /\ OpsMatch(thr[t])
  BY Here
<1>2. /\ thr[t].cur \in NulOr /\ thr[t].par \in NulOr /\ thr[t].fromdir \in NulOr /\ thr[t].todir \in NulOr
      /\ thr[t].fromdent \in NulOr /\ thr[t].todent \in NulOr
      /\ thr[t].path \in Paths /\ thr[t].to \in Paths /\ thr[t].want \in Paths
  BY <1>1 DEF Call
<1>3. \A p \in Paths : p # <<>> => Last(p) \in FileNames /\ Head(p) \in FileNames
  BY PathParts
<1>4. /\ thr[t].op \in Changing => thr[t].path # <<>>
      /\ thr[t].op = "rename" => thr[t].to # <<>>
  BY <1>1 DEF OpsMatch
<1> QED BY <1>2, <1>3, <1>4

\* The directories and the dentries of a rename are linked.
LEMMA RenameLinked ==
    ASSUME TreeInv, NEW t \in TreeThreads, thr[t].pc \in RenamePcs
    PROVE  LET c == thr[t] IN
           /\ c.fromdir \in Dentries /\ c.todir \in Dentries
           /\ IsLinked(dent, c.fromdir) /\ IsLinked(dent, c.todir)
           /\ dent[c.fromdir].alive /\ dent[c.todir].alive
           /\ c.todir = Root \/ dent[c.todir].parent = Root
<1> DEFINE c == thr[t]
<1>1. /\ c.op = "rename" /\ c.fromdir # Null /\ c.todir # Null /\ GoodTree(dent)
      /\ dent \in [Dentries -> Entry] /\ RenameAt(c, dent) /\ Null \notin Dentries
  BY Here DEF OpsMatch, Pointers, PlaceOK, Changing
<1>2. /\ c.fromdir \in NulOr /\ c.todir \in NulOr /\ c.path \in Paths /\ c.to \in Paths
      /\ c.path # <<>> /\ c.to # <<>>
  BY <1>1, CallParts DEF Changing
<1>3. ResolveIn(dent, Front(c.path)) = c.fromdir /\ ResolveIn(dent, Front(c.to)) = c.todir
  BY <1>1 DEF RenameAt
<1> HIDE DEF c
<1>4. Front(c.path) \in Paths /\ Front(c.to) \in Paths
  BY <1>2, FrontShorter
<1>5. /\ TreeHandle(dent, c.fromdir) = 1 /\ TreeHandle(dent, c.todir) = 1
      /\ dent[c.fromdir].alive /\ dent[c.todir].alive
  BY <1>1, <1>3, <1>4, ResolveType
<1>6. c.todir = Root \/ dent[c.todir].parent = Root
  BY <1>1, <1>2, <1>3, FrontDir
<1>7. c.fromdir \in Dentries /\ c.todir \in Dentries
  BY <1>1, <1>2 DEF NulOr
<1>8. IsLinked(dent, c.fromdir) /\ IsLinked(dent, c.todir)
  BY <1>5, LinkedHandle
<1> QED BY <1>5, <1>6, <1>7, <1>8 DEF c

\* The dentry of a path, taken out of its directory.
LEMMA DetachedKept ==
    ASSUME TreeInv, LinksOK(dent), NEW t \in TreeThreads, NEW k \in Slots, NEW d \in Dentries,
           Ptr(thr[t], k) = d, NEW r \in Paths, r # <<>>, ResolveIn(dent, r) = d,
           NEW p \in Dentries, ResolveIn(dent, Front(r)) = p, Kids(dent, d) = {}
    PROVE  LET E == Detach(dent, p, d) IN
           LinksOK(E) /\ E \in [Dentries -> Entry] /\ GoodTree(E) /\ TreeHandle(E, d) = 0 /\ E[d].alive
<1>1. dent \in [Dentries -> Entry] /\ GoodTree(dent) /\ Counts(dent, thr) /\ Null \notin Dentries
  BY Memory DEF TreeInv, TreeTypes
<1>2. dent[d].parent = p /\ dent[d].alive /\ TreeHandle(dent, d) = 1
  BY <1>1, ResolveType
<1>3. p # d
  BY <1>1, FrontShorter, ResolveInjective
<1>4. dent[d].nh \in Nat /\ dent[d].nh >= 2
  BY <1>1, <1>2, HeldCount, LinkedHandle
<1>5. dent[d].nh \in Int /\ dent[d].nh # 1
  BY <1>4
<1> DEFINE E == Detach(dent, p, d)
<1>6. LinksOK(E)
  BY <1>1, <1>2, <1>3, <1>5, DetachLinks
<1>7. E \in [Dentries -> Entry] /\ GoodTree(E) /\ TreeHandle(E, d) = 0
  BY <1>1, <1>2, DetachTree
<1>8. Left(dent, E, p, d)
  BY <1>1, <1>3, DetachFields
<1>9. E[d].alive
  BY <1>2, <1>8 DEF Left
<1> QED BY <1>6, <1>7, <1>9

\* Every step of a call keeps the links, unless it overwrites a count.
LEMMA LinksStep ==
    ASSUME TreeInv, LinksOK(dent), NEW t \in TreeThreads, TreeStep(t), ~clobbered'
    PROVE  LinksOK(dent')
<1> DEFINE b == thr[t]
<1>0. /\ dent \in [Dentries -> Entry] /\ GoodTree(dent) /\ Null \notin Dentries /\ Root \in Dentries
      /\ dent[Root].alive
      /\ b.cur \in NulOr /\ b.par \in NulOr /\ b.fromdir \in NulOr /\ b.todir \in NulOr
      /\ b.fromdent \in NulOr /\ b.todent \in NulOr
      /\ OpsMatch(b) /\ Pointers(b) /\ Walk(b) /\ PlaceOK(b, dent)
  BY Here, CallParts DEF GoodTree
<1>a. ASSUME UNCHANGED dent PROVE LinksOK(dent')
  BY <1>a
<1>b. ASSUME NEW k \in Slots, NEW d \in Dentries, Ptr(b, k) = d, dent' = Release(dent, d)
      PROVE  LinksOK(dent')
  BY <1>b, GivenKept
<1>c. ASSUME NEW d \in Dentries, dent[d].alive, dent' = [dent EXCEPT ![d].nh = @ + 1]
      PROVE  LinksOK(dent')
  BY <1>c, TakenKept
<1>d. ASSUME NEW p \in Dentries, NEW n \in FileNames, dent[p].kids[n] # Null,
             dent' = [dent EXCEPT ![dent[p].kids[n]].nh = @ + 1]
      PROVE  LinksOK(dent')
  <2> DEFINE d == dent[p].kids[n]
  <2>1. d \in Dentries /\ dent[d].alive
    BY <1>d, EntryLinked
  <2>2. dent' = [dent EXCEPT ![d].nh = @ + 1]
    BY <1>d
  <2> HIDE DEF d
  <2> QED BY <1>c, <2>1, <2>2
<1>e. /\ Ptr(b, "cur") = b.cur /\ (b.pc # "lk1" => Ptr(b, "par") = b.par)
      /\ Ptr(b, "fromdir") = b.fromdir /\ Ptr(b, "todir") = b.todir
      /\ Ptr(b, "fromdent") = b.fromdent /\ Ptr(b, "todent") = b.todent
      /\ {"cur", "par", "fromdir", "todir", "fromdent", "todent"} \subseteq Slots
  BY PtrIs DEF Slots
<1>1. CASE LookupRoot(t)
  BY <1>0, <1>1, <1>c DEF LookupRoot
<1>2. CASE LookupLock(t)
  BY <1>2, <1>a DEF LookupLock, SameTree
<1>3. CASE LookupEntry(t)
  <2>1. b.par \in Dentries /\ Head(b.want) \in FileNames
    BY <1>0, <1>3, CallParts DEF LookupEntry, Pointers, Walk, NulOr, LookPcs, CreatePcs, UnlinkPcs, LockedPcs, RenamePcs
  <2> QED BY <1>3, <1>d, <2>1 DEF LookupEntry
<1>4. CASE LookupMissing(t)
  BY <1>4, <1>a DEF LookupMissing, SameTree
<1>5. CASE LookupFails(t)
  <2>1. b.par \in Dentries /\ b.pc # "lk1" /\ dent' = Release(dent, b.par)
    BY <1>0, <1>5 DEF LookupFails, Pointers, NulOr, LookPcs, CreatePcs, UnlinkPcs, LockedPcs, RenamePcs
  <2> QED BY <1>b, <1>e, <2>1
<1>6. CASE LookupStep(t)
  <2>1. b.par \in Dentries /\ Head(b.want) \in FileNames /\ dent[b.par].kids[Head(b.want)] # Null
    BY <1>0, <1>6, CallParts DEF LookupStep, Pointers, Walk, PlaceOK, NulOr, LookPcs, CreatePcs, UnlinkPcs, LockedPcs, RenamePcs
  <2>2. IsLinked(dent, b.par) /\ dent[b.par].alive
    BY <2>1, EntryLinked
  <2>3. CASE dent' = [dent EXCEPT ![b.par].nh = @ - 1]
    BY <2>1, <2>2, <2>3, DownKept
  <2> QED BY <1>6, <1>a, <2>3 DEF LookupStep
<1>7. CASE CreateLock(t)
  BY <1>7, <1>a DEF CreateLock, SameTree
<1>8. CASE CreateExists(t)
  <2>1. b.par \in Dentries /\ Last(b.path) \in FileNames
    BY <1>0, <1>8, CallParts DEF CreateExists, Pointers, OpsMatch, Changing, NulOr, LookPcs, CreatePcs, UnlinkPcs, LockedPcs, RenamePcs
  <2> QED BY <1>8, <1>d, <2>1 DEF CreateExists
<1>9. CASE CreateExistsRelease(t)
  <2>1. b.cur \in Dentries /\ b.pc # "lk1" /\ dent' = Release(dent, b.cur)
    BY <1>0, <1>9 DEF CreateExistsRelease, Pointers, NulOr, LookPcs, CreatePcs, UnlinkPcs, LockedPcs, RenamePcs
  <2> QED BY <1>b, <1>e, <2>1
<1>10. CASE CreateEntry(t)
  <2> DEFINE d == Min(FreeDentries)
             isdir == b.op = "mkdir"
             ed == NewDentry(t, isdir)
             l == IF isdir THEN dent[b.par].lc + 1 ELSE dent[b.par].lc
             n == Last(b.path)
  <2>1. /\ b.par \in Dentries /\ n \in FileNames /\ dent[b.par].alive
        /\ d \in Dentries /\ ~dent[d].alive /\ d # b.par
    <3>1. b.par \in Dentries /\ n \in FileNames
      BY <1>0, <1>10, CallParts DEF CreateEntry, Pointers, OpsMatch, Changing, NulOr, LookPcs, CreatePcs, UnlinkPcs, LockedPcs, RenamePcs
    <3>2. dent[b.par].alive
      BY <1>0, <1>e, <1>10, <3>1, Held, Here, SMTT(20) DEF CreateEntry
    <3> QED BY <1>10, <3>1, <3>2, SomeFree DEF CreateEntry
  <2>2. dent' = [dent EXCEPT ![d] = ed, ![b.par] = [dent[b.par] EXCEPT !.kids[n] = d, !.lc = l]]
    BY <1>0, <1>10, <2>1 DEF CreateEntry
  <2>3. /\ ed.alive /\ ed.isdir = isdir /\ ed.parent = b.par /\ ed.lc = IF isdir THEN 2 ELSE 1
    BY DEF NewDentry, Blank
  <2> HIDE DEF d, ed, n
  <2>4. Inserted(dent, dent', b.par, n, d, l, ed)
    BY <2>2 DEF Inserted
  <2>5. /\ ed.isdir \in BOOLEAN /\ ed.lc = (IF ed.isdir THEN 2 ELSE 1)
        /\ l = IF ed.isdir THEN dent[b.par].lc + 1 ELSE dent[b.par].lc
    BY <2>3
  <2> HIDE DEF l, isdir, b
  <2> QED BY <1>0, <2>1, <2>3, <2>4, <2>5, InsertLinks
<1>11. CASE CreateFails(t)
  BY <1>11, <1>a DEF CreateFails, SameTree
<1>12. CASE CreateRelease(t)
  <2>1. b.par \in Dentries /\ b.pc # "lk1" /\ dent' = Release(dent, b.par)
    BY <1>0, <1>12 DEF CreateRelease, Pointers, NulOr, LookPcs, CreatePcs, UnlinkPcs, LockedPcs, RenamePcs
  <2> QED BY <1>b, <1>e, <2>1
<1>13. CASE OpenFound(t)
  BY <1>13, <1>a DEF OpenFound, SameTree
<1>14. CASE FileOpen(t)
  BY <1>14, <1>a DEF FileOpen, SameTree
<1>15. CASE PathCall(t)
  BY <1>15, <1>a DEF PathCall, SameTree
<1>16. CASE CloseDentry(t)
  <2>1. b.cur \in Dentries /\ b.pc # "lk1" /\ dent' = Release(dent, b.cur)
    BY <1>0, <1>16 DEF CloseDentry, Pointers, NulOr, LookPcs, CreatePcs, UnlinkPcs, LockedPcs, RenamePcs
  <2> QED BY <1>b, <1>e, <2>1
<1>17. CASE FileClose(t)
  BY <1>17, <1>a DEF FileClose, SameTree
<1>18. CASE UnlinkCheck(t)
  BY <1>18, <1>a DEF UnlinkCheck, SameTree
<1>19. CASE UnlinkLock(t)
  BY <1>19, <1>a DEF UnlinkLock, SameTree
<1>20. CASE UnlinkEntry(t)
  <2>1. /\ b.cur \in Dentries /\ b.par \in Dentries /\ b.path \in Paths /\ b.path # <<>> /\ b.op = "unlink"
        /\ dent' = Detach(dent, b.par, b.cur)
    BY <1>0, <1>20, CallParts DEF UnlinkEntry, Pointers, OpsMatch, Changing, NulOr, LookPcs, CreatePcs, UnlinkPcs, LockedPcs, RenamePcs
  <2>2. /\ ResolveIn(dent, b.path) = b.cur /\ ResolveIn(dent, Front(b.path)) = b.par
        /\ Kids(dent, b.cur) = {}
    BY <1>0, <1>20, <2>1 DEF UnlinkEntry, PlaceOK, UnlinkAt, Changing, UnlinkPcs
  <2> QED BY <1>e, <2>1, <2>2, DetachedKept
<1>21. CASE UnlinkRelease(t)
  <2>1. b.par \in Dentries /\ b.pc # "lk1" /\ dent' = Release(dent, b.par)
    BY <1>0, <1>21 DEF UnlinkRelease, Pointers, NulOr, LookPcs, CreatePcs, UnlinkPcs, LockedPcs, RenamePcs
  <2> QED BY <1>b, <1>e, <2>1
<1>22. CASE UnlinkNotEmptyRead(t)
  BY <1>22, <1>a DEF UnlinkNotEmptyRead, SameTree
<1>23. CASE UnlinkNotEmptyWrite(t)
  <2>1. b.par \in Dentries /\ b.pc # "lk1" /\ b.val = dent[b.par].nh
    BY <1>0, <1>23 DEF UnlinkNotEmptyWrite, Pointers, NulOr, LookPcs, CreatePcs, UnlinkPcs, LockedPcs, RenamePcs
  <2>2. dent' = Release(dent, b.par)
    BY <1>23, <2>1 DEF UnlinkNotEmptyWrite, Release
  <2> QED BY <1>b, <1>e, <2>1, <2>2
<1>24. CASE RenameBegin(t)
  BY <1>24, <1>a DEF RenameBegin, SameTree
<1>25. CASE RenameFound(t)
  BY <1>25, <1>a DEF RenameFound, SameTree
<1>26. CASE RenameNoTarget(t)
  <2>1. b.fromdir \in Dentries /\ b.pc # "lk1" /\ dent' = Release(dent, b.fromdir)
    BY <1>0, <1>26 DEF RenameNoTarget, Pointers, NulOr, LookPcs, CreatePcs, UnlinkPcs, LockedPcs, RenamePcs
  <2> QED BY <1>b, <1>e, <2>1
<1>27. CASE RenameLockFirst(t)
  BY <1>27, <1>a DEF RenameLockFirst, SameTree, LockDir
<1>28. CASE RenameLookFirst(t)
  <2>1. b.fromdir # Null /\ b.todir # Null
    BY <1>0, <1>28 DEF RenameLookFirst, Pointers, LookPcs, CreatePcs, UnlinkPcs, LockedPcs, RenamePcs
  <2>2. FirstDir(t) \in Dentries /\ NameIn(t, TRUE) \in FileNames
    <3>1. b.op = "rename" /\ b.fromdir \in Dentries /\ b.todir \in Dentries
      BY <2>1, RenameDirs
    <3>2. Last(b.path) \in FileNames /\ Last(b.to) \in FileNames
      BY <3>1, CallParts DEF Changing
    <3> QED BY <3>1, <3>2 DEF FirstDir, SecondDir, NameIn
  <2>3. CASE dent[FirstDir(t)].kids[NameIn(t, TRUE)] = Null
    BY <1>28, <1>a, <2>3 DEF RenameLookFirst
  <2>4. CASE dent[FirstDir(t)].kids[NameIn(t, TRUE)] # Null
    <3>1. \/ UNCHANGED dent
          \/ dent' = [dent EXCEPT ![dent[FirstDir(t)].kids[NameIn(t, TRUE)]].nh = @ + 1]
      BY <1>28, <2>4 DEF RenameLookFirst
    <3> QED BY <1>a, <1>d, <2>2, <2>4, <3>1
  <2> QED BY <2>3, <2>4
<1>29. CASE RenameLockSecond(t)
  BY <1>29, <1>a DEF RenameLockSecond, SameTree, LockDir
<1>30. CASE RenameLookSecond(t)
  <2>1. b.fromdir # Null /\ b.todir # Null
    BY <1>0, <1>30 DEF RenameLookSecond, Pointers, LookPcs, CreatePcs, UnlinkPcs, LockedPcs, RenamePcs
  <2>2. SecondDir(t) \in Dentries /\ NameIn(t, FALSE) \in FileNames
    <3>1. b.op = "rename" /\ b.fromdir \in Dentries /\ b.todir \in Dentries
      BY <2>1, RenameDirs
    <3>2. Last(b.path) \in FileNames /\ Last(b.to) \in FileNames
      BY <3>1, CallParts DEF Changing
    <3> QED BY <3>1, <3>2 DEF FirstDir, SecondDir, NameIn
  <2>3. CASE dent[SecondDir(t)].kids[NameIn(t, FALSE)] = Null
    BY <1>30, <1>a, <2>3 DEF RenameLookSecond
  <2>4. CASE dent[SecondDir(t)].kids[NameIn(t, FALSE)] # Null
    <3>1. \/ UNCHANGED dent
          \/ dent' = [dent EXCEPT ![dent[SecondDir(t)].kids[NameIn(t, FALSE)]].nh = @ + 1]
      BY <1>30, <2>4 DEF RenameLookSecond
    <3> QED BY <1>a, <1>d, <2>2, <2>4, <3>1
  <2> QED BY <2>3, <2>4
<1>31. CASE RenameCheck(t)
  BY <1>31, <1>a DEF RenameCheck, SameTree
<1>32. CASE RenameErrorFrom(t)
  <2>1. b.fromdir \in Dentries /\ b.todir \in Dentries /\ b.pc \in RenamePcs
    BY <1>0, <1>32, RenameLinked DEF RenameErrorFrom, LookPcs, CreatePcs, UnlinkPcs, LockedPcs, RenamePcs
  <2>2. IsLinked(dent, b.todir) /\ dent[b.todir].alive
    BY <2>1, RenameLinked
  <2>3. CASE b.fromdent = Null
    BY <1>32, <1>a, <2>3 DEF RenameErrorFrom, GiveBack
  <2>4. CASE b.fromdent # Null /\ b.fromdent = b.todir
    <3>1. dent' = [dent EXCEPT ![b.todir].nh = @ - 1]
      BY <1>32, <2>4 DEF RenameErrorFrom, GiveBack
    <3> QED BY <2>1, <2>2, <3>1, DownKept
  <2>5. CASE b.fromdent # Null /\ b.fromdent # b.todir
    <3>1. dent' = Release(dent, b.fromdent) /\ b.fromdent \in Dentries
      BY <1>0, <1>32, <2>5 DEF RenameErrorFrom, GiveBack, NulOr
    <3> QED BY <1>b, <1>e, <3>1
  <2> QED BY <2>3, <2>4, <2>5
<1>33. CASE RenameErrorTo(t)
  <2>1. b.fromdir \in Dentries /\ b.todir \in Dentries /\ b.pc \in RenamePcs
    BY <1>0, <1>33, RenameLinked DEF RenameErrorTo, LookPcs, CreatePcs, UnlinkPcs, LockedPcs, RenamePcs
  <2>2. IsLinked(dent, b.fromdir) /\ dent[b.fromdir].alive
    BY <2>1, RenameLinked
  <2>3. CASE b.todent = Null
    BY <1>33, <1>a, <2>3 DEF RenameErrorTo, GiveBack
  <2>4. CASE b.todent # Null /\ b.todent = b.fromdir
    <3>1. dent' = [dent EXCEPT ![b.fromdir].nh = @ - 1]
      BY <1>33, <2>4 DEF RenameErrorTo, GiveBack
    <3> QED BY <2>1, <2>2, <3>1, DownKept
  <2>5. CASE b.todent # Null /\ b.todent # b.fromdir
    <3>1. dent' = Release(dent, b.todent) /\ b.todent \in Dentries
      BY <1>0, <1>33, <2>5 DEF RenameErrorTo, GiveBack, NulOr
    <3> QED BY <1>b, <1>e, <3>1
  <2> QED BY <2>3, <2>4, <2>5
<1>34. CASE RenameReplace(t)
  <2>1. b.fromdir \in Dentries /\ b.todir \in Dentries /\ b.op = "rename" /\ b.fromdent # Null /\ b.pc = "rn6"
    <3>1. b.pc \in RenamePcs /\ b.pc = "rn6"
      BY <1>34 DEF RenameReplace, RenamePcs, LockedPcs
    <3> QED BY <1>0, <3>1, RenameLinked DEF OpsMatch, Pointers
  <2>2. CASE b.todent = Null
    <3>1. UNCHANGED dent
      BY <1>34, <2>1, <2>2 DEF RenameReplace
    <3> QED BY <1>a, <3>1
  <2>3. CASE b.todent # Null /\ b.todent = b.fromdent
    <3>1. dent' = Release(dent, b.todent) /\ b.todent \in Dentries
      BY <1>0, <1>34, <2>3 DEF RenameReplace, NulOr
    <3> QED BY <1>b, <1>e, <3>1
  <2>4. CASE b.todent # Null /\ b.todent # b.fromdent
    <3> DEFINE E == Detach(dent, b.todir, b.todent)
    <3>1. dent' = Release(E, b.todent) /\ b.todent \in Dentries
      BY <1>0, <1>34, <2>4 DEF RenameReplace, NulOr
    <3>2. /\ ResolveIn(dent, Front(b.to)) = b.todir /\ ResolveIn(dent, b.to) = b.todent
          /\ Kids(dent, b.todent) = {} /\ b.to \in Paths /\ b.to # <<>>
      BY <1>0, <2>1, <2>4, CallParts DEF PlaceOK, RenameAt, Changing
    <3>3. LinksOK(E) /\ E \in [Dentries -> Entry] /\ GoodTree(E) /\ TreeHandle(E, b.todent) = 0 /\ E[b.todent].alive
      BY <1>e, <2>1, <3>1, <3>2, DetachedKept
    <3> HIDE DEF E
    <3>4. LinkStep(E, Release(E, b.todent))
      BY <3>1, <3>3, FreeStep
    <3> QED BY <3>1, <3>3, <3>4, LinkStepOK
  <2> QED BY <2>2, <2>3, <2>4
<1>35. CASE RenameMove(t)
  <2>1. b.pc \in RenamePcs /\ b.pc = "rn7" /\ b.op = "rename"
    BY <1>0, <1>35 DEF RenameMove, OpsMatch, RenamePcs, LockedPcs
  <2>2. b.fromdir \in Dentries /\ b.todir \in Dentries /\ (b.todir = Root \/ dent[b.todir].parent = Root)
    BY <2>1, RenameLinked
  <2>3. /\ b.fromdent \in Dentries /\ b.path \in Paths /\ b.path # <<>> /\ Last(b.to) \in FileNames
        /\ ResolveIn(dent, b.path) = b.fromdent /\ ResolveIn(dent, Front(b.path)) = b.fromdir
        /\ b.fromdent # b.todir
    BY <1>0, <2>1, CallParts DEF Pointers, PlaceOK, RenameAt, Changing, NulOr
  <2>4. dent[b.fromdent].alive /\ dent[b.fromdent].parent = b.fromdir
    BY <1>0, <2>3, ResolveType
  <2>5. b.fromdent # b.fromdir
    BY <1>0, <2>3, FrontShorter, ResolveInjective
  <2>6. dent' = Move(dent, b.fromdent, b.fromdir, b.todir, Last(b.to))
    BY <1>35 DEF RenameMove
  <2> HIDE DEF b
  <2> QED BY <1>0, <2>2, <2>3, <2>4, <2>5, <2>6, MoveLinks
<1>36. CASE RenameUnlock(t)
  BY <1>36, <1>a DEF RenameUnlock, SameTree
<1>37. CASE RenameReleaseFrom(t)
  <2>1. b.fromdir \in Dentries /\ dent' = Release(dent, b.fromdir)
    BY <1>0, <1>37 DEF RenameReleaseFrom, Pointers, NulOr, LookPcs, CreatePcs, UnlinkPcs, LockedPcs, RenamePcs
  <2> QED BY <1>b, <1>e, <2>1
<1>38. CASE RenameReleaseTo(t)
  <2>1. b.todir \in Dentries /\ dent' = Release(dent, b.todir)
    BY <1>0, <1>38 DEF RenameReleaseTo, Pointers, NulOr, LookPcs, CreatePcs, UnlinkPcs, LockedPcs, RenamePcs
  <2> QED BY <1>b, <1>e, <2>1
<1>39. CASE RenameId(t)
  BY <1>39, <1>a DEF RenameId, SameTree
<1> QED BY <1>1, <1>2, <1>3, <1>4, <1>5, <1>6, <1>7, <1>8, <1>9, <1>10, <1>11,
           <1>12, <1>13, <1>14, <1>15, <1>16, <1>17, <1>18, <1>19, <1>20, <1>21,
           <1>22, <1>23, <1>24, <1>25, <1>26, <1>27, <1>28, <1>29, <1>30, <1>31,
           <1>32, <1>33, <1>34, <1>35, <1>36, <1>37, <1>38, <1>39 DEF TreeStep

\* A function applied again and again.
LEMMA ChainExists ==
    ASSUME NEW N \in Nat, NEW S, NEW s \in S, NEW next \in [S -> S]
    PROVE  \E f : Chained(f, N, S, s, next)
<1> DEFINE Chain(f, m) == f \in [0..m -> S] /\ f[0] = s /\ \A n \in 1..m : f[n] = next[f[n - 1]]
           Bad == {m \in 0..N : ~\E f : Chain(f, m)}
<1>1. ASSUME Bad # {} PROVE FALSE
  <2>0. Bad \subseteq Nat
    OBVIOUS
  <2> HIDE DEF Bad
  <2>1. PICK m \in Bad : \A k \in Bad : m <= k
    BY <1>1, <2>0, LeastNat
  <2> USE DEF Bad
  <2>2. m \in 0..N /\ ~\E f : Chain(f, m)
    BY <2>1
  <2>3. m # 0
    <3> DEFINE g == [n \in 0..0 |-> s]
    <3>1. g \in [0..0 -> S] /\ g[0] = s /\ \A n \in 1..0 : g[n] = next[g[n - 1]]
      OBVIOUS
    <3> HIDE DEF g
    <3>2. Chain(g, 0)
      BY <3>1
    <3> QED BY <2>2, <3>2
  <2>4. m - 1 \in 0..N /\ m \in Nat /\ m - 1 \in Nat /\ m - 1 < m
    BY <2>2, <2>3
  <2>5. PICK f : Chain(f, m - 1)
    <3> HIDE DEF Chain
    <3>1. m - 1 \notin Bad
      <4> HIDE DEF Bad
      <4>1. m - 1 \in Bad => m <= m - 1
        BY <2>1
      <4> QED BY <2>4, <4>1
    <3> QED BY <2>4, <3>1
  <2> DEFINE g == [n \in 0..m |-> IF n = m THEN next[f[m - 1]] ELSE f[n]]
  <2>6. \A n \in 0..m : n # m => n \in 0..(m - 1)
    BY <2>4
  <2>7. \A n \in 0..(m - 1) : f[n] \in S
    BY <2>5
  <2>8. m - 1 \in 0..(m - 1)
    BY <2>4
  <2>9. next[f[m - 1]] \in S
    BY <2>7, <2>8
  <2>10. g \in [0..m -> S]
    BY <2>6, <2>7, <2>9
  <2>11. g[m] = next[f[m - 1]] /\ \A n \in 0..m : n # m => g[n] = f[n]
    BY <2>4
  <2> HIDE DEF g
  <2>12. g[0] = s
    <3>1. 0 \in 0..m /\ 0 # m
      BY <2>4, <2>3
    <3> QED BY <2>5, <2>11, <3>1
  <2>13. ASSUME NEW n \in 1..m PROVE g[n] = next[g[n - 1]]
    <3>1. n - 1 \in 0..m /\ n - 1 # m /\ n \in 0..m
      BY <2>4
    <3>2. g[n - 1] = f[n - 1]
      BY <2>11, <3>1
    <3>3. CASE n = m
      BY <2>11, <3>2, <3>3
    <3>4. CASE n # m
      <4>1. n \in 1..(m - 1)
        BY <2>4, <3>4
      <4>2. f[n] = next[f[n - 1]]
        BY <2>5, <4>1
      <4> QED BY <2>11, <3>1, <3>2, <3>4, <4>2
    <3> QED BY <3>3, <3>4
  <2>14. Chain(g, m)
    BY <2>10, <2>12, <2>13
  <2> QED BY <2>2, <2>14
<1>2. N \in 0..N
  OBVIOUS
<1>3. \E f : Chain(f, N)
  BY <1>1, <1>2
<1> QED BY <1>3 DEF Chained

\* Going up from a linked dentry, one directory after the other, comes to the root
\* within as many steps as there are dentries.
LEMMA Reached ==
    ASSUME TreeInv, LinksOK(dent), NEW d \in Dentries, dent[d].alive, IsLinked(dent, d)
    PROVE  IsPredecessor(Root, d)
<1> DEFINE N == Cardinality(Dentries)
           Step(f) == [n \in 0..N |-> IF n = 0 THEN d
                                      ELSE IF f[n - 1] = Null THEN Null ELSE dent[f[n - 1]].parent]
           F == CHOOSE f : f = Step(f)
           next == [x \in NulOr |-> IF x = Null THEN Null ELSE dent[x].parent]
<1>0. /\ N \in Nat /\ Null \notin Dentries /\ Root \in Dentries /\ d # Null /\ Root # Null
      /\ dent \in [Dentries -> Entry] /\ GoodTree(dent)
  BY Memory DEF TreeInv, TreeTypes
<1>1. IsPredecessor(Root, d) <=> Root # Null /\ d # Null /\ \E n \in 0..N : F[n] = Root
  BY DEF IsPredecessor
<1>2. \A e \in Dentries : dent[e].parent \in NulOr
  BY <1>0 DEF Entry
<1>3. \E f : f = Step(f)
  <2>1. d \in NulOr /\ next \in [NulOr -> NulOr]
    BY <1>2 DEF NulOr
  <2>2. \A x \in NulOr : next[x] = IF x = Null THEN Null ELSE dent[x].parent
    OBVIOUS
  <2> HIDE DEF next
  <2>3. PICK f \in [0..N -> NulOr] : f[0] = d /\ \A n \in 1..N : f[n] = next[f[n - 1]]
    <3> HIDE DEF N
    <3>1. \E f : Chained(f, N, NulOr, d, next)
      BY <1>0, <2>1, ChainExists
    <3> QED BY <3>1 DEF Chained
  <2>4. ASSUME NEW n \in 0..N
        PROVE  f[n] = IF n = 0 THEN d ELSE IF f[n - 1] = Null THEN Null ELSE dent[f[n - 1]].parent
    <3>1. CASE n = 0
      BY <2>3, <3>1
    <3>2. CASE n # 0
      <4>1. n \in 1..N /\ n - 1 \in 0..N
        BY <1>0, <3>2
      <4>2. f[n - 1] \in NulOr
        BY <2>3, <4>1
      <4> QED BY <2>2, <2>3, <3>2, <4>1, <4>2
    <3> QED BY <3>1, <3>2
  <2>5. f = Step(f)
    BY <2>3, <2>4
  <2> QED BY <2>5
<1>4. F = Step(F)
  BY <1>3
<1> HIDE DEF F
<1>5. \A n \in 0..N : F[n] = IF n = 0 THEN d
                             ELSE IF F[n - 1] = Null THEN Null ELSE dent[F[n - 1]].parent
  BY <1>4
<1> HIDE DEF Step, next
<1>6. PICK rank : Ranks(dent, rank)
  BY DEF LinksOK, Ranked
<1>7. rank \in [Dentries -> Nat] /\ \A e \in Dentries : rank[e] \in Nat
  BY <1>6 DEF Ranks
<1> SUFFICES ASSUME \A n \in 0..N : F[n] # Root PROVE FALSE
  BY <1>0, <1>1
<1> DEFINE Up(n) == F[n] \in Dentries /\ dent[F[n]].parent # Null
<1>8. ASSUME NEW n \in 0..N, n # 0, Up(n - 1) PROVE Up(n) /\ rank[F[n]] < rank[F[n - 1]]
  <2>1. F[n] = dent[F[n - 1]].parent
    BY <1>0, <1>5, <1>8
  <2>2. F[n] \in Dentries
    BY <1>2, <1>8, <2>1 DEF NulOr
  <2>3. rank[F[n]] < rank[F[n - 1]]
    BY <1>6, <1>8, <2>1 DEF Ranks
  <2>4. F[n] = Root \/ dent[F[n]].parent # Null
    <3>1. dent[F[n - 1]].name \in FileNames /\ dent[F[n]].kids[dent[F[n - 1]].name] = F[n - 1]
      BY <1>0, <1>8, <2>1 DEF GoodTree
    <3>2. F[n - 1] # Null
      BY <1>0, <1>8
    <3> QED BY <1>0, <2>2, <3>1, <3>2 DEF GoodTree
  <2> QED BY <2>2, <2>3, <2>4
<1>9. Up(0)
  <2>1. 0 \in 0..N /\ F[0] = d
    BY <1>0, <1>5
  <2> QED BY <2>1 DEF IsLinked
<1>10. \A n \in 0..N : Up(n)
  <2> DEFINE Bad == {n \in 0..N : ~Up(n)}
  <2> SUFFICES ASSUME Bad # {} PROVE FALSE
    OBVIOUS
  <2> HIDE DEF Up
  <2>0. Bad \subseteq Nat
    BY <1>0
  <2> HIDE DEF Bad
  <2>1. PICK m \in Bad : \A k \in Bad : m <= k
    BY <2>0, LeastNat
  <2>2. m \in 0..N /\ ~Up(m) /\ m # 0
    BY <1>9, <2>1 DEF Bad
  <2>3. m - 1 \in 0..N /\ ~(m <= m - 1)
    BY <1>0, <2>2
  <2>4. Up(m - 1)
    BY <2>1, <2>3 DEF Bad
  <2> QED BY <1>8, <2>2, <2>4
<1>11. ASSUME NEW a \in 0..N PROVE \A n \in 0..N : a < n => rank[F[n]] < rank[F[a]]
  <2> DEFINE Bad == {n \in 0..N : a < n /\ ~(rank[F[n]] < rank[F[a]])}
  <2> SUFFICES ASSUME Bad # {} PROVE FALSE
    OBVIOUS
  <2>0. Bad \subseteq Nat
    BY <1>0
  <2> HIDE DEF Bad
  <2>1. PICK m \in Bad : \A k \in Bad : m <= k
    BY <2>0, LeastNat
  <2>2. m \in 0..N /\ a < m /\ ~(rank[F[m]] < rank[F[a]])
    BY <2>1 DEF Bad
  <2>3. m - 1 \in 0..N /\ m # 0 /\ ~(m <= m - 1) /\ (a = m - 1 \/ a < m - 1)
    BY <1>0, <2>2
  <2>4. rank[F[m]] < rank[F[m - 1]]
    BY <1>8, <1>10, <2>2, <2>3
  <2>5. a = m - 1 \/ rank[F[m - 1]] < rank[F[a]]
    BY <2>1, <2>3 DEF Bad
  <2>6. rank[F[m]] \in Nat /\ rank[F[m - 1]] \in Nat /\ rank[F[a]] \in Nat
    BY <1>7, <1>10, <2>2, <2>3
  <2> QED BY <2>2, <2>4, <2>5, <2>6
<1>12. \A a, n \in 0..N : a # n => F[a] # F[n]
  <2> SUFFICES ASSUME NEW a \in 0..N, NEW n \in 0..N, a # n, F[a] = F[n] PROVE FALSE
    OBVIOUS
  <2>1. a < n \/ n < a
    BY <1>0
  <2>2. rank[F[a]] < rank[F[n]] \/ rank[F[n]] < rank[F[a]]
    BY <1>11, <2>1
  <2>3. rank[F[a]] \in Nat /\ rank[F[n]] \in Nat
    BY <1>7, <1>10
  <2> QED BY <2>2, <2>3
<1>13. IsFiniteSet(0..N) /\ Cardinality(0..N) = N + 1
  BY <1>0, FS_Interval
<1>14. Cardinality(Dentries) < Cardinality(0..N) /\ IsFiniteSet(Dentries)
  BY <1>0, <1>13, Memory
<1> DEFINE G == [n \in 0..N |-> F[n]]
<1>15. G \in [0..N -> Dentries] /\ \A n \in 0..N : G[n] = F[n]
  BY <1>10
<1> HIDE DEF G
<1>16. \E a, n \in 0..N : a # n /\ G[a] = G[n]
  <2> DEFINE I == 0..N
  <2>1. IsFiniteSet(I) /\ Cardinality(Dentries) < Cardinality(I) /\ G \in [I -> Dentries]
    BY <1>13, <1>14, <1>15
  <2> HIDE DEF I
  <2>2. \E a, n \in I : a # n /\ G[a] = G[n]
    BY <1>14, <2>1, FS_PigeonHole
  <2> QED BY <2>2 DEF I
<1> QED BY <1>12, <1>15, <1>16

\* Between two calls the link counts and the name tables are exact.
LEMMA InvLinksExact == ASSUME Inv, unmounted \/ clobbered \/ LinksOK(dent) PROVE LinksExact
<1> SUFFICES ASSUME AllQuiet, ~clobbered, NEW d \in Dentries, dent[d].alive
             PROVE  /\ \A n \in FileNames : dent[d].kids[n] # Null =>
                          dent[dent[d].kids[n]].parent = d /\ dent[dent[d].kids[n]].name = n
                    /\ Linked(d) => /\ IsPredecessor(Root, d)
                                    /\ d # Root => dent[dent[d].parent].kids[dent[d].name] = d
                    /\ ~Linked(d) => dent[d].deleted /\ Handles(d) > 0
                    /\ dent[d].lc = Cardinality(SubDirs(d)) + (IF dent[d].isdir THEN 1 ELSE 0)
                                    + (IF Linked(d) THEN 1 ELSE 0)
  BY DEF LinksExact
<1>1. TreeInv /\ LinksOK(dent) /\ \A t \in TreeThreads : Idle(t)
  BY DEF Inv, AllQuiet
<1>2. GoodTree(dent) /\ Null \notin Dentries
  BY <1>1, Memory DEF TreeInv
<1>3. Linked(d) <=> IsLinked(dent, d)
  BY DEF Linked, IsLinked
<1>4. \A n \in FileNames : dent[d].kids[n] # Null =>
         dent[dent[d].kids[n]].parent = d /\ dent[dent[d].kids[n]].name = n
  BY <1>2 DEF GoodTree
<1>5. Linked(d) => IsPredecessor(Root, d)
  BY <1>1, <1>3, Reached
<1>6. Linked(d) /\ d # Root => dent[dent[d].parent].kids[dent[d].name] = d
  BY <1>2, <1>3 DEF IsLinked, GoodTree
<1>7. ~Linked(d) => dent[d].deleted /\ Handles(d) > 0
  <2> SUFFICES ASSUME ~IsLinked(dent, d) PROVE dent[d].deleted /\ Handles(d) > 0
    BY <1>3
  <2>1. dent[d].deleted /\ dent[d].nh # 0
    BY <1>1 DEF LinksOK, Orphans, InUse
  <2>2. dent[d].nh = Cardinality(Holders(thr, d)) + TreeHandle(dent, d) /\ TreeHandle(dent, d) = 0
    BY <1>1 DEF TreeInv, Counts, TreeHandle, IsLinked
  <2>3. Cardinality(Holders(thr, d)) = Handles(d) /\ Cardinality(Holders(thr, d)) \in Nat
    BY <1>1, OpenFiles, SlotsFinite
  <2> QED BY <2>1, <2>2, <2>3
<1>8. SubDirs(d) = DirsIn(dent, d)
  BY DEF SubDirs, DirsIn
<1>9. dent[d].lc = Cardinality(SubDirs(d)) + (IF dent[d].isdir THEN 1 ELSE 0)
                   + (IF Linked(d) THEN 1 ELSE 0)
  BY <1>1, <1>3, <1>8 DEF LinksOK, LinkCounts
<1> QED BY <1>4, <1>5, <1>6, <1>7, <1>9

\* The tree of the mounted volume.
LEMMA InitLinks == TreeInit => LinksOK(dent)
<1> SUFFICES ASSUME TreeInit PROVE LinksOK(dent)
  OBVIOUS
<1>0. /\ Root \in Dentries /\ 2 \in Dentries /\ 3 \in Dentries /\ Null \notin Dentries
      /\ Root = 1 /\ Null = 0 /\ Dentries \subseteq Nat
  BY Memory DEF Root, Null
<1>1. \A d \in Dentries :
         /\ dent[d].alive <=> d \in {1, 2, 3}
         /\ dent[d].isdir <=> d \in {1, 2}
         /\ dent[d].parent = (IF d = 2 THEN 1 ELSE IF d = 3 THEN 2 ELSE 0)
         /\ d \in {1, 2, 3} => dent[d].lc = (IF d = 1 THEN 3 ELSE IF d = 2 THEN 2 ELSE 1)
  <2> DEFINE n == CHOOSE x \in FileNames : TRUE
             r == [Blank EXCEPT !.alive = TRUE, !.isdir = TRUE, !.nh = 1,
                                !.lc = 3, !.uid = 1, !.kids[n] = 2]
             s == [Blank EXCEPT !.alive = TRUE, !.isdir = TRUE, !.nh = 1,
                                !.lc = 2, !.uid = 2, !.kids[n] = 3, !.parent = Root, !.name = n]
             f == [Blank EXCEPT !.alive = TRUE, !.nh = 1, !.lc = 1, !.uid = 3,
                                !.parent = 2, !.name = n]
  <2>1. dent = [d \in Dentries |-> CASE d = Root -> r [] d = 2 -> s [] d = 3 -> f [] OTHER -> Blank]
    BY DEF TreeInit
  <2> HIDE DEF n
  <2>2. /\ Blank \in Entry /\ ~Blank.alive /\ Blank.parent = Null /\ Blank.isdir = FALSE
    BY BlankEntry DEF Blank
  <2>3. r.alive /\ r.isdir /\ r.lc = 3 /\ r.parent = Null
    BY <2>2 DEF Entry
  <2>4. s.alive /\ s.isdir /\ s.lc = 2 /\ s.parent = Root
    BY <2>2 DEF Entry
  <2>5. f.alive /\ ~f.isdir /\ f.lc = 1 /\ f.parent = 2
    BY <2>2 DEF Entry
  <2> HIDE DEF r, s, f
  <2>6. /\ dent[Root] = r /\ dent[2] = s /\ dent[3] = f
        /\ \A d \in Dentries : d \notin {Root, 2, 3} => dent[d] = Blank
    BY <1>0, <2>1
  <2> QED BY <1>0, <2>2, <2>3, <2>4, <2>5, <2>6
<1>2. \A d \in Dentries : dent[d].alive => IsLinked(dent, d)
  BY <1>0, <1>1 DEF IsLinked
<1>3. InUse(dent) /\ Orphans(dent)
  BY <1>2 DEF InUse, Orphans
<1>4. Ranked(dent)
  <2> DEFINE rank == [d \in Dentries |-> d]
  <2>1. rank \in [Dentries -> Nat] /\ \A d \in Dentries : rank[d] = d
    BY <1>0
  <2> HIDE DEF rank
  <2>2. Ranks(dent, rank)
    BY <1>0, <1>1, <2>1 DEF Ranks
  <2> QED BY <2>2 DEF Ranked
<1>5. DirsIn(dent, 1) = {2} /\ DirsIn(dent, 2) = {} /\ DirsIn(dent, 3) = {}
  <2>1. \A d, e \in Dentries : e \in DirsIn(dent, d) <=> e = 2 /\ d = 1
    BY <1>0, <1>1 DEF DirsIn
  <2>2. \A d \in Dentries : DirsIn(dent, d) \subseteq Dentries
    BY DEF DirsIn
  <2>3. 1 \in Dentries
    BY <1>0
  <2>4. DirsIn(dent, 1) = {2}
    BY <1>0, <2>1, <2>2, <2>3
  <2>5. \A d \in Dentries : d # 1 => DirsIn(dent, d) = {}
    BY <2>1, <2>2
  <2>6. 2 # 1 /\ 3 # 1
    OBVIOUS
  <2> QED BY <1>0, <2>4, <2>5, <2>6
<1>6. Cardinality(DirsIn(dent, 1)) = 1 /\ Cardinality(DirsIn(dent, 2)) = 0 /\ Cardinality(DirsIn(dent, 3)) = 0
  BY <1>5, FS_EmptySet, FS_Singleton
<1>7. LinkCounts(dent)
  BY <1>1, <1>2, <1>6 DEF LinkCounts
<1> QED BY <1>3, <1>4, <1>7 DEF LinksOK

\* Every step of the system keeps the links.
LEMMA LinksNext ==
    ASSUME Inv, unmounted \/ clobbered \/ LinksOK(dent), [TreeNext]_treeVars
    PROVE  unmounted' \/ clobbered' \/ LinksOK(dent')
<1> SUFFICES ASSUME ~clobbered' PROVE unmounted' \/ LinksOK(dent')
  OBVIOUS
<1>0. ~clobbered
  BY StaysClobbered
<1>1. CASE UNCHANGED <<dent, unmounted>>
  BY <1>0, <1>1
<1>2. ASSUME NEW t \in TreeThreads, TreeStep(t) PROVE unmounted' \/ LinksOK(dent')
  <2>1. thr[t].pc # "idle" /\ UNCHANGED unmounted
    BY <1>2, BusyStep
  <2>2. ~unmounted
    <3>1. CASE unmounted
      <4>1. thr[t].pc = "idle"
        BY <1>0, <3>1, QuietOK DEF Inv, Ended, NulOr
      <4> QED BY <2>1, <4>1
    <3> QED BY <3>1
  <2>3. TreeInv /\ LinksOK(dent)
    BY <1>0, <2>2 DEF Inv
  <2> QED BY <1>2, <2>3, LinksStep
<1>3. ASSUME NEW t \in TreeThreads, StartRelease(t) \/ \E c \in Workload : StartCall(t, c[1], c[2], c[3])
      PROVE  UNCHANGED <<dent, unmounted>>
  BY <1>3 DEF StartRelease, StartCall, SameTree, SameRest
<1>4. CASE Unmount
  BY <1>4 DEF Unmount
<1>5. CASE UNCHANGED treeVars
  BY <1>1, <1>5 DEF treeVars
<1> QED BY <1>1, <1>2, <1>3, <1>4, <1>5 DEF TreeNext

\* When no call is in progress the name tables and the parent pointers agree, every linked
\* dentry is reached from the root, one that is not linked is deleted and open, and link_count
\* is the number of links: whatever lookups, creates, unlinks and renames went before and
\* however they overlapped, unless a refused rmdir has overwritten a count.
THEOREM LinksExactWhenQuiet == TreeSpec => []LinksExact
<1>1. TreeSpec => []Inv
  BY TreeInvariant
<1>2. TreeInit => unmounted \/ clobbered \/ LinksOK(dent)
  BY InitLinks
<1>3. Inv /\ (unmounted \/ clobbered \/ LinksOK(dent)) /\ [TreeNext]_treeVars => (unmounted \/ clobbered \/ LinksOK(dent))'
  BY LinksNext
<1>4. Inv /\ (unmounted \/ clobbered \/ LinksOK(dent)) => LinksExact
  BY InvLinksExact
<1> QED BY <1>1, <1>2, <1>3, <1>4, PTL DEF TreeSpec

=============================================================================
