-------------------------------- MODULE Tree --------------------------------
(***************************************************************************)
(* The directory tree of libltfs (fs.c) under the path operations of       *)
(* ltfs_fsops.c and the file table of ltfs_fuse.c: reference counts, link  *)
(* counts, the two locks of every dentry and the rename lock.  One step of *)
(* a thread is one section between two lock operations that may wait.      *)
(*                                                                         *)
(* Every call below runs under the volume lock for reading, so the volume  *)
(* lock never separates two of them and is left out (see Revalidation).    *)
(* Paths are sequences of names; pathname_format and the read-only tests   *)
(* come before the first step and only decide whether a call starts.       *)
(***************************************************************************)
EXTENDS Integers, Sequences, FiniteSets, FiniteSetsExt, SequencesExt, TLC

CONSTANTS
    TreeThreads,      \* threads of the FUSE session
    Dentries,         \* memory for dentries; 1 is the root
    FileNames,        \* platform_safe_name
    TreeCalls,        \* bound: calls of all threads together
    Workload,         \* calls of the run: operation, path and second path
    UidLimit          \* uid_number is an unsigned integer below this value

Operations == {"open", "getattr", "create", "mkdir", "unlink", "rename"}
Paths == {p \in Seq(FileNames) : Len(p) <= 2}
NoThread == "none"

ASSUME TreeAssumption ==
    /\ IsFiniteSet(TreeThreads) /\ NoThread \notin TreeThreads
    /\ Dentries = 1..Cardinality(Dentries) /\ IsFiniteSet(Dentries)
    /\ Cardinality(Dentries) > 2
    /\ FileNames # {} /\ Workload \subseteq Operations \X Paths \X Paths
    /\ \A c \in Workload :
          /\ c[1] \in {"create", "mkdir", "unlink", "rename"} => c[2] # <<>>
          /\ c[1] = "rename" <=> c[3] # <<>>
    /\ TreeCalls \in Nat /\ UidLimit \in Nat /\ UidLimit > 4

VARIABLES
    dent,        \* struct dentry of every piece of memory
    contents,    \* contents_lock: the writer and the readers
    meta,        \* meta_lock: the thread that holds it for writing
    renameLock,  \* index->rename_lock
    fileCount,   \* index->file_count
    uidNumber,   \* index->uid_number
    thr,         \* the call every thread is in
    table,       \* priv->file_table: open_count of the file_info of a dentry
    treeCalls,   \* calls started so far
    unmounted,   \* ltfs_index_free has run
    clobbered    \* history: a release without the meta_lock has undone another
                 \* thread's change of a count or opened the lock it held

treeVars == <<dent, contents, meta, renameLock, fileCount, uidNumber, thr,
              table, treeCalls, unmounted, clobbered>>

Null == 0
Root == 1

Blank == [alive |-> FALSE, isdir |-> FALSE, parent |-> Null, name |-> "",
          kids |-> [n \in FileNames |-> Null], nh |-> 0, lc |-> 0,
          deleted |-> FALSE, uid |-> 0]

\* A thread between two calls; fh is the dentry of its open file handle.
Quiet(fh) == [op |-> "none", pc |-> "idle", path |-> <<>>, to |-> <<>>,
              want |-> <<>>, cur |-> Null, par |-> Null, fromdir |-> Null,
              todir |-> Null, fromdent |-> Null, todent |-> Null,
              val |-> 0, ok |-> FALSE, fh |-> fh]

Idle(t) == thr[t].pc = "idle"
Kids(D, d) == {D[d].kids[n] : n \in FileNames} \ {Null}

\* The dentry a path of at most two names stands for in a tree.
ResolveIn(D, p) ==
    IF p = <<>> THEN Root
    ELSE IF Len(p) = 1 THEN D[Root].kids[p[1]]
    ELSE LET d == D[Root].kids[p[1]]
         IN  IF d = Null THEN Null ELSE D[d].kids[p[2]]
Resolve(p) == ResolveIn(dent, p)

-----------------------------------------------------------------------------
(* Reference counting: operators on the dentry table.                      *)

\* fs_is_predecessor: d1 is d2 or one of its ancestors.
IsPredecessor(d1, d2) ==
    LET Up[n \in 0..Cardinality(Dentries)] ==
            IF n = 0 THEN d2
            ELSE IF Up[n - 1] = Null THEN Null ELSE dent[Up[n - 1]].parent
    IN  d1 # Null /\ d2 # Null /\ \E n \in 0..Cardinality(Dentries) : Up[n] = d1

\* _fs_dispose_dentry_contents: d goes with every descendant that only the
\* tree holds; a child that is still in use loses its parent and stays.
Doomed(D, d) ==
    LET Below[n \in 0..Cardinality(Dentries)] ==
            IF n = 0 THEN {d}
            ELSE Below[n - 1] \cup
                 {c \in UNION {Kids(D, e) : e \in Below[n - 1]} : D[c].nh = 1}
    IN  Below[Cardinality(Dentries)]

Dispose(D, d) ==
    LET gone == Doomed(D, d)
        p == D[d].parent
    IN  [e \in Dentries |->
            IF e \in gone THEN Blank
            ELSE IF D[e].parent \in gone THEN [D[e] EXCEPT !.parent = Null]
            ELSE IF e = p THEN [D[e] EXCEPT !.kids =
                     [n \in FileNames |-> IF @[n] = d THEN Null ELSE @[n]]]
            ELSE D[e]]

ReleaseDeleted(D, d) ==
    IF D[d].nh # 1 /\ ~D[d].deleted THEN [D EXCEPT ![d].nh = @ - 1]
    ELSE Dispose(D, d)

\* fs_release_dentry_unlocked
Release(D, d) ==
    IF D[d].nh # 1 THEN [D EXCEPT ![d].nh = @ - 1] ELSE Dispose(D, d)

\* fs_allocate_uid: zero, once reached, stays.
AllocateUid(n) == IF n = 0 THEN 0 ELSE (n + 1) % UidLimit

-----------------------------------------------------------------------------
(* Locks.                                                                  *)

MetaFree(d) == meta[d] = NoThread

CanRead(d) == contents[d].w = NoThread
CanWrite(d) == contents[d].w = NoThread /\ contents[d].r = {}

LockR(C, d, t) == [C EXCEPT ![d].r = @ \cup {t}]
LockW(C, d, t) == [C EXCEPT ![d].w = t]
UnlockR(C, d, t) == IF d = Null THEN C ELSE [C EXCEPT ![d].r = @ \ {t}]
UnlockW(C, d) == [C EXCEPT ![d].w = NoThread]

Goto(t, call) == thr' = [thr EXCEPT ![t] = call]
End(t) == thr' = [thr EXCEPT ![t] = Quiet(@.fh)]

\* The tree and the locks a step leaves alone.
SameTree == UNCHANGED <<dent, fileCount, uidNumber>>
SameLocks == UNCHANGED <<contents, meta, renameLock>>
SameRest == UNCHANGED <<table, treeCalls, unmounted, clobbered>>

-----------------------------------------------------------------------------
(* The start of a call.                                                    *)

\* Directories that the kernel keeps locked for the whole of a call: those it
\* changes and the entry itself (external: inode locks of the VFS).
Busy(op, p, q) ==
    CASE op \in {"create", "mkdir", "unlink"} -> {Front(p), p}
      [] op = "rename" -> {Front(p), Front(q), p, q}
      [] OTHER -> {}

VfsAllows(t, op, p, q) ==
    /\ \A u \in TreeThreads \ {t} :
          ~Idle(u) => Busy(op, p, q)
                      \cap Busy(thr[u].op, thr[u].path, thr[u].to) = {}
    /\ \A r \in ({p, q} \ {<<>>}) :
          (Busy(op, p, q) # {} /\ Resolve(Front(r)) # Null)
             => dent[Resolve(Front(r))].isdir

StartCall(t, op, p, q) ==
    /\ Idle(t) /\ ~unmounted /\ treeCalls < TreeCalls
    /\ op \in {"open", "create"} => thr[t].fh = Null
    /\ VfsAllows(t, op, p, q)
    /\ Goto(t, [thr[t] EXCEPT !.op = op, !.path = p, !.to = q,
                !.want = IF op \in {"create", "mkdir", "rename"} THEN Front(p) ELSE p,
                !.pc = IF op = "rename" THEN "rn0" ELSE "lk0"])
    /\ treeCalls' = treeCalls + 1
    /\ SameTree /\ SameLocks /\ UNCHANGED <<table, unmounted, clobbered>>

-----------------------------------------------------------------------------
(* fs_path_lookup, hand over hand.                                         *)

LastName(t) == Len(thr[t].want) = 1

\* LOCK_PARENT_CONTENTS_W is asked for by unlink, LOCK_DENTRY_CONTENTS_W by
\* create.
ParentW(t) == thr[t].op = "unlink" /\ LastName(t)

LookupRoot(t) ==
    /\ thr[t].pc = "lk0" /\ MetaFree(Root)
    /\ dent' = [dent EXCEPT ![Root].nh = @ + 1]
    /\ Goto(t, [thr[t] EXCEPT !.cur = Root, !.par = Null,
                !.pc = IF thr[t].want = <<>> THEN "found" ELSE "lk1"])
    /\ UNCHANGED <<fileCount, uidNumber>> /\ SameLocks /\ SameRest

LookupLock(t) ==
    LET d == thr[t].cur IN
    /\ thr[t].pc = "lk1"
    /\ IF ParentW(t) THEN CanWrite(d) ELSE CanRead(d)
    /\ contents' = UnlockR(IF ParentW(t) THEN LockW(contents, d, t)
                           ELSE LockR(contents, d, t), thr[t].par, t)
    /\ Goto(t, [thr[t] EXCEPT !.par = d, !.cur = Null, !.pc = "lk2"])
    /\ SameTree /\ UNCHANGED <<meta, renameLock>> /\ SameRest

\* fs_directory_lookup finds the name and takes a handle.
LookupEntry(t) ==
    LET d == dent[thr[t].par].kids[Head(thr[t].want)] IN
    /\ thr[t].pc = "lk2" /\ d # Null /\ MetaFree(d)
    /\ dent' = [dent EXCEPT ![d].nh = @ + 1]
    /\ Goto(t, [thr[t] EXCEPT !.cur = d, !.pc = "lk3"])
    /\ UNCHANGED <<fileCount, uidNumber>> /\ SameLocks /\ SameRest

LookupMissing(t) ==
    LET p == thr[t].par IN
    /\ thr[t].pc = "lk2" /\ dent[p].kids[Head(thr[t].want)] = Null
    /\ contents' = IF ParentW(t) THEN UnlockW(contents, p)
                   ELSE UnlockR(contents, p, t)
    /\ Goto(t, [thr[t] EXCEPT !.pc = "lkno"])
    /\ SameTree /\ UNCHANGED <<meta, renameLock>> /\ SameRest

LookupFails(t) ==
    /\ thr[t].pc = "lkno" /\ MetaFree(thr[t].par)
    /\ dent' = Release(dent, thr[t].par)
    /\ IF thr[t].op = "rename" /\ thr[t].fromdir # Null
       THEN Goto(t, [thr[t] EXCEPT !.par = Null, !.pc = "rnf"]) /\ UNCHANGED renameLock
       ELSE /\ End(t)
            /\ renameLock' = IF thr[t].op = "rename" THEN NoThread ELSE renameLock
    /\ UNCHANGED <<fileCount, uidNumber, contents, meta>> /\ SameRest

\* The parent's handle is given back unless the caller wants its locks.
LookupStep(t) ==
    LET p == thr[t].par
        last == LastName(t) IN
    /\ thr[t].pc = "lk3"
    /\ IF ParentW(t) THEN UNCHANGED dent
       ELSE MetaFree(p) /\ dent' = [dent EXCEPT ![p].nh = @ - 1]
    /\ contents' = IF last /\ ~ParentW(t) THEN UnlockR(contents, p, t) ELSE contents
    /\ Goto(t, [thr[t] EXCEPT !.want = Tail(thr[t].want),
                !.par = IF last /\ ~ParentW(t) THEN Null ELSE p,
                !.pc = IF last THEN "found" ELSE "lk1"])
    /\ UNCHANGED <<fileCount, uidNumber, meta, renameLock>> /\ SameRest

-----------------------------------------------------------------------------
(* ltfs_fsops_create and what ltfs_fuse_create and ltfs_fuse_mkdir do next. *)

CreateLock(t) ==
    /\ thr[t].pc = "found" /\ thr[t].op \in {"create", "mkdir"}
    /\ CanWrite(thr[t].cur)
    /\ contents' = LockW(contents, thr[t].cur, t)
    /\ Goto(t, [thr[t] EXCEPT !.par = thr[t].cur, !.cur = Null, !.pc = "cr1"])
    /\ SameTree /\ UNCHANGED <<meta, renameLock>> /\ SameRest

\* The name is taken: its handle is taken and given back, -LTFS_DENTRY_EXISTS.
CreateExists(t) ==
    LET d == dent[thr[t].par].kids[Last(thr[t].path)] IN
    /\ thr[t].pc = "cr1" /\ d # Null /\ MetaFree(d)
    /\ dent' = [dent EXCEPT ![d].nh = @ + 1]
    /\ contents' = UnlockW(contents, thr[t].par)
    /\ Goto(t, [thr[t] EXCEPT !.cur = d, !.pc = "cr3"])
    /\ UNCHANGED <<fileCount, uidNumber, meta, renameLock>> /\ SameRest

CreateExistsRelease(t) ==
    /\ thr[t].pc = "cr3" /\ MetaFree(thr[t].cur)
    /\ dent' = Release(dent, thr[t].cur)
    /\ Goto(t, [thr[t] EXCEPT !.cur = Null, !.pc = "cr4"])
    /\ UNCHANGED <<fileCount, uidNumber>> /\ SameLocks /\ SameRest

FreeDentries == {d \in Dentries : ~dent[d].alive}

\* A new dentry with one handle for the tree and one for the caller.
NewDentry(t, isdir) ==
    [Blank EXCEPT !.alive = TRUE, !.isdir = isdir, !.parent = thr[t].par,
                  !.name = Last(thr[t].path), !.nh = 2,
                  !.lc = IF isdir THEN 2 ELSE 1, !.uid = AllocateUid(uidNumber)]

CreateEntry(t) ==
    LET p == thr[t].par
        d == Min(FreeDentries)
        isdir == thr[t].op = "mkdir" IN
    /\ thr[t].pc = "cr1" /\ dent[p].kids[Last(thr[t].path)] = Null
    /\ FreeDentries # {} /\ AllocateUid(uidNumber) # 0
    /\ MetaFree(p)
    /\ uidNumber' = AllocateUid(uidNumber)
    /\ dent' = [dent EXCEPT ![d] = NewDentry(t, isdir),
                            ![p].kids[Last(thr[t].path)] = d,
                            ![p].lc = IF isdir THEN @ + 1 ELSE @]
    /\ fileCount' = IF isdir THEN fileCount ELSE fileCount + 1
    /\ contents' = UnlockW(contents, p)
    /\ Goto(t, [thr[t] EXCEPT !.cur = d, !.ok = TRUE, !.pc = "cr4"])
    /\ UNCHANGED <<meta, renameLock>> /\ SameRest

\* No uid (or no memory) is left: -LTFS_NO_MEMORY.
CreateFails(t) ==
    /\ thr[t].pc = "cr1" /\ dent[thr[t].par].kids[Last(thr[t].path)] = Null
    /\ FreeDentries = {} \/ AllocateUid(uidNumber) = 0
    /\ uidNumber' = IF FreeDentries = {} THEN uidNumber ELSE AllocateUid(uidNumber)
    /\ contents' = UnlockW(contents, thr[t].par)
    /\ Goto(t, [thr[t] EXCEPT !.pc = "cr4"])
    /\ UNCHANGED <<dent, fileCount, meta, renameLock>> /\ SameRest

CreateRelease(t) ==
    /\ thr[t].pc = "cr4" /\ MetaFree(thr[t].par)
    /\ dent' = Release(dent, thr[t].par)
    /\ IF ~thr[t].ok THEN End(t)
       ELSE Goto(t, [thr[t] EXCEPT !.par = Null,
                     !.pc = IF thr[t].op = "create" THEN "fopen" ELSE "close"])
    /\ UNCHANGED <<fileCount, uidNumber>> /\ SameLocks /\ SameRest

-----------------------------------------------------------------------------
(* open, release, and the calls that look a path up, use the dentry's meta *)
(* lock for a moment and close it again.                                   *)

OpenFound(t) ==
    /\ thr[t].pc = "found" /\ thr[t].op = "open"
    /\ Goto(t, [thr[t] EXCEPT !.pc = "fopen"])
    /\ SameTree /\ SameLocks /\ SameRest

\* _file_open: join the file_info of this dentry or make one.
FileOpen(t) ==
    /\ thr[t].pc = "fopen"
    /\ table' = [table EXCEPT ![thr[t].cur] = @ + 1]
    /\ thr' = [thr EXCEPT ![t] = Quiet(@.cur)]
    /\ SameTree /\ SameLocks /\ UNCHANGED <<treeCalls, unmounted, clobbered>>

PathCall(t) ==
    /\ thr[t].pc = "found" /\ thr[t].op = "getattr" /\ MetaFree(thr[t].cur)
    /\ Goto(t, [thr[t] EXCEPT !.pc = "close"])
    /\ SameTree /\ SameLocks /\ SameRest

\* ltfs_fsops_close: the handle goes, and the dentry with the last one.
CloseDentry(t) ==
    /\ thr[t].pc = "close" /\ MetaFree(thr[t].cur)
    /\ dent' = Release(dent, thr[t].cur)
    /\ IF thr[t].op = "release"
       THEN Goto(t, [thr[t] EXCEPT !.val = thr[t].cur, !.cur = Null, !.fh = Null,
                                   !.pc = "fclose"])
       ELSE End(t)
    /\ UNCHANGED <<fileCount, uidNumber>> /\ SameLocks /\ SameRest

\* ltfs_fuse_release
StartRelease(t) ==
    /\ Idle(t) /\ ~unmounted /\ thr[t].fh # Null
    /\ Goto(t, [thr[t] EXCEPT !.op = "release", !.cur = thr[t].fh, !.pc = "close"])
    /\ SameTree /\ SameLocks /\ SameRest

\* _file_close: the file_info goes with its last user; its key may by now be
\* the address of another dentry.
FileClose(t) ==
    /\ thr[t].pc = "fclose"
    /\ table' = [table EXCEPT ![thr[t].val] = @ - 1]
    /\ End(t)
    /\ SameTree /\ SameLocks /\ UNCHANGED <<treeCalls, unmounted, clobbered>>

-----------------------------------------------------------------------------
(* ltfs_fsops_unlink, for files and directories.                           *)

\* A directory is looked into under its own contents_lock, which is given
\* back before anything is changed.
UnlinkCheck(t) ==
    LET d == thr[t].cur IN
    /\ thr[t].pc = "found" /\ thr[t].op = "unlink"
    /\ dent[d].isdir => CanRead(d)
    /\ IF dent[d].isdir /\ Kids(dent, d) # {}
       THEN /\ contents' = UnlockW(contents, thr[t].par)
            /\ Goto(t, [thr[t] EXCEPT !.pc = "un_ne"])
       ELSE Goto(t, [thr[t] EXCEPT !.pc = "un1"]) /\ UNCHANGED contents
    /\ SameTree /\ UNCHANGED <<meta, renameLock>> /\ SameRest

UnlinkLock(t) ==
    /\ thr[t].pc = "un1" /\ MetaFree(thr[t].par)
    /\ meta' = [meta EXCEPT ![thr[t].par] = t]
    /\ Goto(t, [thr[t] EXCEPT !.pc = "un2"])
    /\ SameTree /\ UNCHANGED <<contents, renameLock>> /\ SameRest

\* The entry leaves its directory; the tree's handle and link go.
Detach(D, p, d) ==
    [D EXCEPT ![p].kids[D[d].name] = Null,
              ![p].lc = IF D[d].isdir THEN @ - 1 ELSE @,
              ![d].deleted = TRUE, ![d].parent = Null,
              ![d].lc = @ - 1, ![d].nh = @ - 1]

UnlinkEntry(t) ==
    LET d == thr[t].cur IN
    /\ thr[t].pc = "un2" /\ MetaFree(d)
    /\ dent' = Detach(dent, thr[t].par, d)
    /\ fileCount' = IF dent[d].isdir THEN fileCount ELSE fileCount - 1
    /\ contents' = UnlockW(contents, thr[t].par)
    /\ Goto(t, [thr[t] EXCEPT !.pc = "un3"])
    /\ UNCHANGED <<uidNumber, meta, renameLock>> /\ SameRest

UnlinkRelease(t) ==
    /\ thr[t].pc = "un3"
    /\ dent' = Release(dent, thr[t].par)
    /\ meta' = [meta EXCEPT ![thr[t].par] = NoThread]
    /\ Goto(t, [thr[t] EXCEPT !.par = Null, !.pc = "close"])
    /\ UNCHANGED <<fileCount, uidNumber, contents, renameLock>> /\ SameRest

\* -LTFS_DIRNOTEMPTY leaves through the same exit without having taken the
\* parent's meta_lock: the count is read and written back unprotected, and
\* the lock of whoever holds it is opened.
UnlinkNotEmptyRead(t) ==
    /\ thr[t].pc = "un_ne"
    /\ Goto(t, [thr[t] EXCEPT !.val = dent[thr[t].par].nh, !.pc = "un_ne2"])
    /\ SameTree /\ SameLocks /\ SameRest

UnlinkNotEmptyWrite(t) ==
    LET p == thr[t].par IN
    /\ thr[t].pc = "un_ne2"
    /\ dent' = IF thr[t].val # 1 THEN [dent EXCEPT ![p].nh = thr[t].val - 1]
               ELSE Dispose(dent, p)
    /\ meta' = [meta EXCEPT ![p] = NoThread]
    /\ clobbered' = (clobbered \/ dent[p].nh # thr[t].val \/ ~MetaFree(p))
    /\ Goto(t, [thr[t] EXCEPT !.par = Null, !.pc = "close"])
    /\ UNCHANGED <<fileCount, uidNumber, contents, renameLock>>
    /\ UNCHANGED <<table, treeCalls, unmounted>>

-----------------------------------------------------------------------------
(* ltfs_fsops_rename.                                                      *)

RenameBegin(t) ==
    /\ thr[t].pc = "rn0" /\ renameLock = NoThread
    /\ renameLock' = t
    /\ Goto(t, [thr[t] EXCEPT !.pc = "lk0"])
    /\ SameTree /\ UNCHANGED <<contents, meta>> /\ SameRest

\* The source directory is found, then the destination directory.
RenameFound(t) ==
    /\ thr[t].pc = "found" /\ thr[t].op = "rename"
    /\ IF thr[t].fromdir = Null
       THEN Goto(t, [thr[t] EXCEPT !.fromdir = thr[t].cur, !.cur = Null,
                     !.want = Front(thr[t].to), !.pc = "lk0"])
       ELSE Goto(t, [thr[t] EXCEPT !.todir = thr[t].cur, !.cur = Null, !.pc = "rn1"])
    /\ SameTree /\ SameLocks /\ SameRest

RenameNoTarget(t) ==
    /\ thr[t].pc = "rnf" /\ MetaFree(thr[t].fromdir)
    /\ dent' = Release(dent, thr[t].fromdir)
    /\ renameLock' = NoThread
    /\ End(t)
    /\ UNCHANGED <<fileCount, uidNumber, contents, meta>> /\ SameRest

ToFirstNever(t) == thr[t].todir = thr[t].fromdir

\* Locks go from the top of the tree downwards.
ToFirst(t) == thr[t].todir = thr[t].fromdir \/ IsPredecessor(thr[t].todir, thr[t].fromdir)

FirstDir(t) == IF ToFirst(t) THEN thr[t].todir ELSE thr[t].fromdir
SecondDir(t) == IF ToFirst(t) THEN thr[t].fromdir ELSE thr[t].todir
NameIn(t, first) == IF first = ToFirst(t) THEN Last(thr[t].to) ELSE Last(thr[t].path)

LockDir(t, pc, mid, d, next) ==
    \/ /\ thr[t].pc = pc /\ CanWrite(d)
       /\ contents' = LockW(contents, d, t)
       /\ Goto(t, [thr[t] EXCEPT !.pc = mid])
       /\ SameTree /\ UNCHANGED <<meta, renameLock>> /\ SameRest
    \/ /\ thr[t].pc = mid /\ MetaFree(d)
       /\ meta' = [meta EXCEPT ![d] = t]
       /\ Goto(t, [thr[t] EXCEPT !.pc = next])
       /\ SameTree /\ UNCHANGED <<contents, renameLock>> /\ SameRest

RenameLockFirst(t) == LockDir(t, "rn1", "rn1m", FirstDir(t), "rn2")

\* fs_directory_lookup in the first directory.
RenameLookFirst(t) ==
    LET d == dent[FirstDir(t)].kids[NameIn(t, TRUE)] IN
    /\ thr[t].pc = "rn2"
    /\ IF d = Null THEN UNCHANGED dent
       ELSE MetaFree(d) /\ dent' = [dent EXCEPT ![d].nh = @ + 1]
    /\ Goto(t, [thr[t] EXCEPT !.todent = IF ToFirst(t) THEN d ELSE @,
                              !.fromdent = IF ToFirst(t) THEN @ ELSE d,
                              !.pc = IF SecondDir(t) = FirstDir(t) THEN "rn4" ELSE "rn3"])
    /\ UNCHANGED <<fileCount, uidNumber>> /\ SameLocks /\ SameRest

RenameLockSecond(t) == LockDir(t, "rn3", "rn3m", SecondDir(t), "rn4")

\* And in the second, unless the source is already known to be missing.
RenameLookSecond(t) ==
    LET d == dent[SecondDir(t)].kids[NameIn(t, FALSE)]
        hit == d # Null /\ (ToFirst(t) \/ thr[t].fromdent # Null) IN
    /\ thr[t].pc = "rn4"
    /\ IF hit THEN MetaFree(d) /\ dent' = [dent EXCEPT ![d].nh = @ + 1]
       ELSE UNCHANGED dent
    /\ Goto(t, [thr[t] EXCEPT !.fromdent = IF hit /\ ToFirst(t) THEN d ELSE @,
                              !.todent = IF hit /\ ~ToFirst(t) THEN d ELSE @,
                              !.pc = "rn5"])
    /\ UNCHANGED <<fileCount, uidNumber>> /\ SameLocks /\ SameRest

\* The errors found so far: no source, a loop, or a destination above the
\* source.
RenameLoop(t) ==
    LET c == thr[t] IN
    \/ c.fromdent = c.todir \/ IsPredecessor(c.fromdent, c.todir)
    \/ c.todent # Null /\ (c.todent = c.fromdir \/ IsPredecessor(c.todent, c.fromdir))

\* The destination is a directory with entries.
RenameNotEmpty(t) ==
    LET c == thr[t] IN
    /\ c.todent # Null /\ c.todent # c.fromdent
    /\ dent[c.todent].isdir /\ Kids(dent, c.todent) # {}

RenameError(t) ==
    \/ thr[t].fromdent = Null
    \/ RenameLoop(t)
    \/ RenameNotEmpty(t)

RenameCheck(t) ==
    LET c == thr[t] IN
    /\ c.pc = "rn5"
    /\ (~RenameError(t) /\ c.todent # Null /\ c.todent # c.fromdent
          /\ dent[c.todent].isdir) => CanRead(c.todent)
    /\ Goto(t, [thr[t] EXCEPT !.pc = IF RenameError(t) THEN "rne1" ELSE "rn6"])
    /\ SameTree /\ SameLocks /\ SameRest

GiveBackSkipsDir(t, d, dir) ==
    IF d = Null \/ d = dir THEN UNCHANGED dent
    ELSE MetaFree(d) /\ dent' = Release(dent, d)

\* Giving back a handle on a dentry that may be one of the two directories,
\* whose meta_lock this thread already holds: then the count alone goes down.
GiveBack(t, d, dir) ==
    IF d = Null THEN UNCHANGED dent
    ELSE IF d = dir THEN dent' = [dent EXCEPT ![d].nh = @ - 1]
    ELSE MetaFree(d) /\ dent' = Release(dent, d)

\* The handle goes, the pointer stays in the call: val.
RenameErrorFrom(t) ==
    /\ thr[t].pc = "rne1" /\ GiveBack(t, thr[t].fromdent, thr[t].todir)
    /\ Goto(t, [thr[t] EXCEPT !.val = thr[t].fromdent, !.fromdent = Null, !.pc = "rne2"])
    /\ UNCHANGED <<fileCount, uidNumber>> /\ SameLocks /\ SameRest

RenameErrorTo(t) ==
    /\ thr[t].pc = "rne2" /\ GiveBack(t, thr[t].todent, thr[t].fromdir)
    /\ Goto(t, [thr[t] EXCEPT !.todent = Null, !.pc = "rn8"])
    /\ UNCHANGED <<fileCount, uidNumber>> /\ SameLocks /\ SameRest

\* An entry in the way is detached and released; renaming an entry to itself
\* gives the second handle back.  file_count goes down only for a destination
\* directory that is not a directory.
RenameReplace(t) ==
    LET c == thr[t] IN
    /\ c.pc = "rn6"
    /\ CASE c.todent = Null -> UNCHANGED dent
         [] c.todent = c.fromdent ->
               MetaFree(c.todent) /\ dent' = Release(dent, c.todent)
         [] OTHER ->
               /\ MetaFree(c.todent)
               /\ dent' = Release(Detach(dent, c.todir, c.todent), c.todent)
    /\ fileCount' = IF c.todent \notin {Null, c.fromdent} /\ ~dent[c.todir].isdir
                    THEN fileCount - 1 ELSE fileCount
    /\ Goto(t, [thr[t] EXCEPT !.todent = Null, !.pc = "rn7"])
    /\ UNCHANGED uidNumber /\ SameLocks /\ SameRest

MoveKeepsLinks(D, d, p, q, n) ==
    LET out == [D EXCEPT ![p].kids[D[d].name] = Null]
    IN  [out EXCEPT ![q].kids[n] = d, ![d].parent = q, ![d].name = n]

\* The source moves: name, parent, and the links of a moved directory.
Move(D, d, p, q, n) ==
    LET out == [D EXCEPT ![p].kids[D[d].name] = Null,
                         ![p].lc = IF D[d].isdir THEN @ - 1 ELSE @]
    IN  [out EXCEPT ![q].kids[n] = d,
                    ![q].lc = IF D[d].isdir THEN @ + 1 ELSE @,
                    ![d].parent = q, ![d].name = n]

RenameMove(t) ==
    LET c == thr[t] IN
    /\ c.pc = "rn7" /\ MetaFree(c.fromdent)
    /\ dent' = Move(dent, c.fromdent, c.fromdir, c.todir, Last(c.to))
    /\ Goto(t, [thr[t] EXCEPT !.ok = TRUE, !.pc = "rn8"])
    /\ UNCHANGED <<fileCount, uidNumber>> /\ SameLocks /\ SameRest

RenameUnlock(t) ==
    /\ thr[t].pc = "rn8"
    /\ contents' = UnlockW(UnlockW(contents, thr[t].fromdir), thr[t].todir)
    /\ Goto(t, [thr[t] EXCEPT !.pc = "rn9"])
    /\ SameTree /\ UNCHANGED <<meta, renameLock>> /\ SameRest

\* The directories are released, meta_lock and handle. A common directory has
\* two handles and one lock: the lock is taken once more for the second one.
RenameReleaseFrom(t) ==
    LET c == thr[t] IN
    /\ c.pc = "rn9"
    /\ dent' = Release(dent, c.fromdir)
    /\ meta' = [meta EXCEPT ![c.fromdir] = NoThread]
    /\ Goto(t, [c EXCEPT !.fromdir = Null,
                         !.pc = IF c.todir = c.fromdir THEN "rn10w" ELSE "rn10"])
    /\ UNCHANGED <<fileCount, uidNumber, contents, renameLock>> /\ SameRest

RenameReleaseTo(t) ==
    LET c == thr[t] IN
    /\ c.pc = "rn10" \/ (c.pc = "rn10w" /\ MetaFree(c.todir))
    /\ dent' = Release(dent, c.todir)
    /\ meta' = [meta EXCEPT ![c.todir] = NoThread]
    /\ renameLock' = NoThread
    /\ IF c.ok THEN Goto(t, [c EXCEPT !.cur = c.fromdent, !.fromdent = Null, !.todir = Null,
                                      !.pc = "close"])
       ELSE Goto(t, [c EXCEPT !.todir = Null, !.pc = "rn11"])
    /\ UNCHANGED <<fileCount, uidNumber, contents>> /\ SameRest

\* id->uid is read from the source, without a handle (ltfs_fsops.c:828).
RenameId(t) ==
    /\ thr[t].pc = "rn11"
    /\ End(t)
    /\ SameTree /\ SameLocks /\ SameRest

-----------------------------------------------------------------------------
\* ltfs_index_free at the end of the session releases the root.
Unmount ==
    /\ ~unmounted /\ \A t \in TreeThreads : Idle(t) /\ thr[t].fh = Null
    /\ dent' = Release(dent, Root)
    /\ unmounted' = TRUE
    /\ UNCHANGED <<fileCount, uidNumber, thr, table, treeCalls, clobbered>> /\ SameLocks

TreeStep(t) ==
    \/ LookupRoot(t) \/ LookupLock(t) \/ LookupEntry(t) \/ LookupMissing(t)
    \/ LookupFails(t) \/ LookupStep(t)
    \/ CreateLock(t) \/ CreateExists(t) \/ CreateExistsRelease(t)
    \/ CreateEntry(t) \/ CreateFails(t) \/ CreateRelease(t)
    \/ OpenFound(t) \/ FileOpen(t) \/ PathCall(t) \/ CloseDentry(t) \/ FileClose(t)
    \/ UnlinkCheck(t) \/ UnlinkLock(t) \/ UnlinkEntry(t) \/ UnlinkRelease(t)
    \/ UnlinkNotEmptyRead(t) \/ UnlinkNotEmptyWrite(t)
    \/ RenameBegin(t) \/ RenameFound(t) \/ RenameNoTarget(t)
    \/ RenameLockFirst(t) \/ RenameLookFirst(t) \/ RenameLockSecond(t)
    \/ RenameLookSecond(t) \/ RenameCheck(t) \/ RenameErrorFrom(t)
    \/ RenameErrorTo(t) \/ RenameReplace(t) \/ RenameMove(t)
    \/ RenameUnlock(t) \/ RenameReleaseFrom(t) \/ RenameReleaseTo(t) \/ RenameId(t)

\* A mounted volume: a directory "a" with a file in it.
TreeInit ==
    /\ LET n == CHOOSE x \in FileNames : TRUE
       IN  dent = [d \in Dentries |->
             CASE d = Root -> [Blank EXCEPT !.alive = TRUE, !.isdir = TRUE, !.nh = 1,
                                !.lc = 3, !.uid = 1, !.kids[n] = 2]
               [] d = 2 -> [Blank EXCEPT !.alive = TRUE, !.isdir = TRUE, !.nh = 1,
                                !.lc = 2, !.uid = 2, !.kids[n] = 3, !.parent = Root,
                                !.name = n]
               [] d = 3 -> [Blank EXCEPT !.alive = TRUE, !.nh = 1, !.lc = 1, !.uid = 3,
                                !.parent = 2, !.name = n]
               [] OTHER -> Blank]
    /\ contents = [d \in Dentries |-> [w |-> NoThread, r |-> {}]]
    /\ meta = [d \in Dentries |-> NoThread]
    /\ renameLock = NoThread
    /\ fileCount = 1
    /\ uidNumber = 3
    /\ thr = [t \in TreeThreads |-> Quiet(Null)]
    /\ table = [d \in Dentries |-> 0]
    /\ treeCalls = 0
    /\ unmounted = FALSE
    /\ clobbered = FALSE

TreeNext ==
    \/ \E t \in TreeThreads :
          \/ TreeStep(t)
          \/ StartRelease(t)
          \/ \E c \in Workload : StartCall(t, c[1], c[2], c[3])
    \/ Unmount

\* A thread in a call is scheduled again and again, and a lock it waits for
\* is handed on.
TreeSpec == TreeInit /\ [][TreeNext]_treeVars
            /\ \A t \in TreeThreads : WF_treeVars(TreeStep(t))

-----------------------------------------------------------------------------
(* Properties.                                                             *)

\* Pointers in use; val is one in a rename that has failed.
Refs(t) == ({thr[t].cur, thr[t].par, thr[t].fromdir, thr[t].todir,
             thr[t].fromdent, thr[t].todent, thr[t].fh}
            \cup IF thr[t].op = "rename" THEN {thr[t].val} ELSE {}) \ {Null}

Handles(d) == Cardinality({t \in TreeThreads : thr[t].fh = d})
AllQuiet == ~unmounted /\ \A t \in TreeThreads : Idle(t)
Linked(d) == dent[d].alive /\ (d = Root \/ dent[d].parent # Null)
SubDirs(d) == {e \in Dentries : dent[e].alive /\ dent[e].isdir /\ dent[e].parent = d}

\* Types; counts are unsigned and never wrap below zero, handles unless a count
\* was overwritten.
TreeTypeOK ==
    /\ \A d \in Dentries :
          /\ dent[d].lc \in Nat /\ (~clobbered => dent[d].nh \in Nat)
          /\ dent[d].uid \in 0..(UidLimit - 1)
          /\ dent[d].parent \in Dentries \cup {Null}
          /\ meta[d] \in TreeThreads \cup {NoThread}
          /\ table[d] \in Nat
    /\ renameLock \in TreeThreads \cup {NoThread}
    /\ fileCount \in Nat

\* No dangling dentry: whatever a call holds a pointer to, a lookup in the
\* middle of its path, both directories of a rename, an open file, has not
\* been freed by another thread's release (fs.c:713), however the calls
\* interleave. The one exception is what follows a refused rmdir that, without
\* the lock, undid another thread's count or opened its lock (clobbered).
NoDangling == ~clobbered => \A t \in TreeThreads : \A d \in Refs(t) : dent[d].alive

\* When no call is running the reference counts are exact: one for a linked
\* entry and one per open handle, and no lock is left behind, whichever error
\* exits the calls took (ltfs_fsops.c:674-689, 808-838) and however they
\* interleaved, unless a refused rmdir has overwritten a count.
HandlesExact ==
    AllQuiet /\ ~clobbered =>
       /\ \A d \in Dentries : dent[d].alive =>
             dent[d].nh = Handles(d) + IF Linked(d) THEN 1 ELSE 0
       /\ \A d \in Dentries : contents[d].w = NoThread /\ contents[d].r = {}
                              /\ meta[d] = NoThread
       /\ renameLock = NoThread

\* When no call is running the name tables and the parents agree, a
\* directory's link count is its two links and its subdirectories', and every
\* linked entry can be reached from the root (st_nlink and fs_dentry_lookup),
\* unless a refused rmdir has overwritten a count before.
LinksExact ==
    AllQuiet /\ ~clobbered => \A d \in Dentries : dent[d].alive =>
       /\ \A n \in FileNames : dent[d].kids[n] # Null =>
             dent[dent[d].kids[n]].parent = d /\ dent[dent[d].kids[n]].name = n
       /\ Linked(d) => /\ IsPredecessor(Root, d)
                       /\ d # Root => dent[dent[d].parent].kids[dent[d].name] = d
       /\ ~Linked(d) => dent[d].deleted /\ Handles(d) > 0
       /\ dent[d].lc = Cardinality(SubDirs(d)) + (IF dent[d].isdir THEN 1 ELSE 0)
                       + (IF Linked(d) THEN 1 ELSE 0)

\* No two entries of the file system share a uid, also after the counter has
\* run out (fs.c:354).
UidsUnique ==
    \A d, e \in Dentries : (dent[d].alive /\ dent[e].alive /\ d # e)
                           => dent[d].uid # dent[e].uid

\* The file table counts the handles that use a file_info, an entry that is
\* being closed included, even when the memory of a deleted dentry is used
\* again between the two halves of a release (ltfs_fuse.c:500-504).
TableExact ==
    \A d \in Dentries :
       table[d] = Cardinality({t \in TreeThreads :
                     thr[t].fh = d \/ (thr[t].pc = "fclose" /\ thr[t].val = d)})

\* After the unmount everything has been freed, unless a count was overwritten.
UnmountFreesAll == unmounted /\ ~clobbered => \A d \in Dentries : ~dent[d].alive

\* Every call returns: the locks of the tree are taken in an order that never
\* leaves two calls waiting for each other (ltfs_fsops.c:601-659).
TreeCallsReturn == \A t \in TreeThreads : (~Idle(t)) ~> Idle(t)

\* fs_release_dentry_unlocked is only called with the meta_lock of the dentry
\* held, as fs.h:93 demands; contradicted by unlink of a directory that is
\* not empty.
MetaLockHeld ==
    \A t \in TreeThreads : thr[t].pc = "un_ne2" => meta[thr[t].par] = t

\* file_count is the number of files in the file system (ltfs.h:486);
\* contradicted by a rename over an existing file.
FilesCounted ==
    AllQuiet => fileCount = Cardinality({d \in Dentries : ~dent[d].isdir /\ Linked(d)})
=============================================================================
