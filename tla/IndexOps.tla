------------------------------ MODULE IndexOps ------------------------------
(* Operations on an index in memory: the tree, extended attributes, times, the
   recovery of links, and reading an index from the blocks of a document.

   Paths are sequences of names below the root. *)
EXTENDS IndexXml

NoDentry == fs_allocate_dentry("", FALSE, 0)
Result(r, i) == [rc |-> r, idx |-> i]

----------------------------------------------------------------------------
(* The tree. *)
Named(d, name) == {i \in DOMAIN d.kids : d.kids[i].name = name}
RECURSIVE fs_path_lookup(_, _)
fs_path_lookup(d, path) ==
    IF path = <<>> THEN d
    ELSE LET s == Named(d, Head(path))
         IN  IF s = {} THEN NoDentry ELSE fs_path_lookup(d.kids[CHOOSE i \in s : TRUE], Tail(path))
Exists(i, path) == fs_path_lookup(i.root, path).uid # 0

\* The tree d with the dentry at path replaced by new; the path exists.
RECURSIVE Put(_, _, _)
Put(d, path, new) ==
    IF path = <<>> THEN new
    ELSE LET i == CHOOSE j \in Named(d, Head(path)) : TRUE
         IN  [d EXCEPT !.kids[i] = Put(@, Tail(path), new)]
PutAt(i, path, new) == [i EXCEPT !.root = Put(@, path, new)]
Touched(d, now) == [d EXCEPT !.times.modify = now, !.times.change = now]

pathname_format(path) == [k \in DOMAIN path |-> pathname_normalize(path[k])]
_pathname_validate(path) == \A k \in DOMAIN path : pathname_validate_file(path[k])

ltfs_fsops_create(i, p, isdir, readonly, now) ==
    LET path == pathname_format(p)
        up == Front(path)
        parent == fs_path_lookup(i.root, up)
        next == fs_allocate_uid(i)
        d == [fs_allocate_dentry(Last(path), isdir, next.uid_number) EXCEPT
                !.readonly = readonly,
                !.times = [creation |-> now, change |-> now, modify |-> now, access |-> now, backup |-> now]]
    IN  CASE ~_pathname_validate(path) -> Result("INVALID_PATH", i)
          [] OTHER ->
             IF parent.uid = 0 \/ ~parent.isdir THEN Result("NO_DENTRY", i)
             ELSE IF Named(parent, Last(path)) # {} THEN Result("DENTRY_EXISTS", i)
             ELSE IF next.uid_number = 0 THEN Result("NO_MEMORY", next)
             ELSE Result("ok", [PutAt(next, up, [Touched(parent, now) EXCEPT !.kids = Append(@, d)]) EXCEPT
                                  !.file_count = IF isdir THEN @ ELSE @ + 1])

ltfs_fsops_unlink(i, p, now) ==
    LET path == pathname_format(p)
        d == fs_path_lookup(i.root, path)
        up == Front(path)
        parent == fs_path_lookup(i.root, up)
        gone == CHOOSE j \in Named(parent, Last(path)) : TRUE
    IN  IF ~_pathname_validate(path) THEN Result("INVALID_SRC_PATH", i)
        ELSE IF path = <<>> THEN Result("UNLINKROOT", i)
        ELSE IF d.uid = 0 THEN Result("NO_DENTRY", i)
        ELSE IF d.isdir /\ d.kids # <<>> THEN Result("DIRNOTEMPTY", i)
        ELSE Result("ok", [PutAt(i, up, [Touched(parent, now) EXCEPT !.kids = RemoveAt(@, gone)]) EXCEPT
                             !.file_count = IF d.isdir THEN @ ELSE @ - 1,
                             !.valid_blocks = @ - UsedBlocks(d)])

\* A write behind the end of the file, with a hole before it.
ltfs_fsops_write(i, path, now) ==
    LET d == fs_path_lookup(i.root, path)
        xt == [partition |-> "b", block |-> 20, byteoffset |-> 1, bytecount |-> 2, fileoffset |-> d.size + 1]
    IN  IF d.uid = 0 \/ d.isdir \/ d.isslink THEN Result("NO_DENTRY", i)
        ELSE Result("ok", PutAt(i, path, [Touched(d, now) EXCEPT
                                            !.extents = Append(@, xt), !.size = @ + 3]))

----------------------------------------------------------------------------
(* Extended attributes.  The names "ltfs..." belong to the file system. *)
_xattr_seek(d, name) == SelectInSeq(d.xattrs, LAMBDA x : x.key = name)
xattr_do_set(d, name, value) ==
    LET k == _xattr_seek(d, name)
    IN  IF k # 0 THEN [d EXCEPT !.xattrs[k].value = value]
        ELSE [d EXCEPT !.xattrs = << [key |-> name, value |-> value] >> \o @]
xattr_set_mountpoint_length(d, value) == xattr_do_set(d, LTFS_LIVELINK_EA_NAME, value)
TimeNames == {"ltfs.createTime", "ltfs.modifyTime", "ltfs.changeTime", "ltfs.accessTime", "ltfs.backupTime"}
LtfsNames == TimeNames \cup {LTFS_LIVELINK_EA_NAME, "ltfs.x", "ltfs.commitMessage", "ltfs.volumeName"}
Reserved(name) == name \in LtfsNames
_xattr_is_virtual(path, name) ==
    name \in TimeNames \cup {"ltfs.volumeName"}
    \/ (path = <<>> /\ name \in {"ltfs.commitMessage", LTFS_LIVELINK_EA_NAME})

_xattr_set_time(i, path, field, t) ==
    IF t < 0 THEN Result("BAD_ARG", i)
    ELSE Result("ok", PutAt(i, path, [fs_path_lookup(i.root, path) EXCEPT !.times[field] = NormalTime(t)]))

\* Setting the modify time also moves the change time, even when the value does not parse.
SetTimeAttribute(i, path, name, value, now) ==
    CASE name = "ltfs.createTime" -> _xattr_set_time(i, path, "creation", value)
      [] name = "ltfs.modifyTime" ->
            _xattr_set_time(PutAt(i, path, [fs_path_lookup(i.root, path) EXCEPT !.times.change = now]),
                            path, "modify", value)
      [] name = "ltfs.changeTime" -> _xattr_set_time(i, path, "change", value)
      [] name = "ltfs.accessTime" -> _xattr_set_time(i, path, "access", value)
      [] name = "ltfs.backupTime" -> _xattr_set_time(i, path, "backup", value)

\* The commit message is normalised, the volume name also validated.  A message
\* above INDEX_MAX_COMMENT_LEN is stored too (the error is overwritten), but
\* ltfs_fsops_setxattr lets nothing through that is over LTFS_MAX_XATTR_SIZE.
_xattr_set_virtual(i, path, name, value, now) ==
    CASE name = "ltfs.commitMessage" -> Result("ok", [i EXCEPT !.comment = pathname_normalize(value)])
      [] name = "ltfs.volumeName" /\ path = <<>> ->
            IF value # "" /\ ~xml_parse_filename(value) THEN Result("INVALID_PATH", i)
            ELSE Result("ok", [i EXCEPT !.volume_name = pathname_normalize(value)])
      [] name \in TimeNames -> SetTimeAttribute(i, path, name, value, now)
      [] OTHER -> Result("RDONLY_XATTR", i)

_xattr_remove_virtual(i, path, name) ==
    CASE name = "ltfs.commitMessage" /\ path = <<>> -> Result("ok", [i EXCEPT !.comment = ""])
      [] name = "ltfs.volumeName" /\ path = <<>> -> Result("ok", [i EXCEPT !.volume_name = ""])
      [] OTHER -> Result("RDONLY_XATTR", i)

xattr_set(i, path, name, value, flags, now) ==
    LET d == fs_path_lookup(i.root, path)
        have == _xattr_seek(d, name) # 0
    IN  IF _xattr_is_virtual(path, name) THEN _xattr_set_virtual(i, path, name, value, now)
        ELSE IF Reserved(name) THEN Result("RDONLY_XATTR", i)
        ELSE IF flags = "create" /\ have THEN Result("XATTR_EXISTS", i)
        ELSE IF flags = "replace" /\ ~have THEN Result("NO_XATTR", i)
        ELSE Result("ok", PutAt(i, path, [xattr_do_set(d, name, value) EXCEPT !.times.change = now]))

xattr_do_remove(d, name, now) ==
    [d EXCEPT !.xattrs = SelectSeq(@, LAMBDA x : x.key # name), !.times.change = now]
xattr_remove(i, path, name, now) ==
    LET d == fs_path_lookup(i.root, path)
    IN  IF _xattr_is_virtual(path, name) THEN _xattr_remove_virtual(i, path, name)
        ELSE IF _xattr_seek(d, name) = 0 THEN Result("NO_XATTR", i)
        ELSE IF Reserved(name) THEN Result("RDONLY_XATTR", i)
        ELSE Result("ok", PutAt(i, path, xattr_do_remove(d, name, now)))

ltfs_fsops_setxattr(i, p, key, value, flags, now) ==
    LET path == pathname_format(p)
        name == pathname_normalize(key)
    IN  IF name \notin TimeNames /\ value = "long" THEN Result("LARGE_XATTR", i)
        ELSE IF ~pathname_validate_file(name) THEN Result("INVALID_PATH", i)
        ELSE IF ~Exists(i, path) THEN Result("NO_DENTRY", i)
        ELSE xattr_set(i, path, name, value, flags, now)

ltfs_fsops_removexattr(i, p, key, now) ==
    LET path == pathname_format(p)
        name == pathname_normalize(key)
    IN  IF ~pathname_validate_file(name) THEN Result("INVALID_PATH", i)
        ELSE IF ~Exists(i, path) THEN Result("NO_DENTRY", i)
        ELSE xattr_remove(i, path, name, now)

ltfs_fsops_symlink_path(i, to, from, now) ==
    LET r == ltfs_fsops_create(i, from, FALSE, TRUE, now)
        path == pathname_format(from)
        d == [fs_path_lookup(r.idx.root, path) EXCEPT !.target = to, !.isslink = TRUE]
    IN  IF r.rc # "ok" THEN r
        ELSE Result("ok", PutAt(r.idx, path, xattr_set_mountpoint_length(d, "0")))

ltfs_fsops_utimens(i, p, t, now) ==
    LET path == pathname_format(p)
        d == fs_path_lookup(i.root, path)
    IN  IF d.uid = 0 THEN Result("NO_DENTRY", i)
        ELSE IF d.times.access = t /\ d.times.modify = t THEN Result("ok", i)
        ELSE Result("ok", PutAt(i, path, [d EXCEPT !.times.access = NormalTime(t),
                                                   !.times.modify = NormalTime(t), !.times.change = now]))

ltfs_fsops_set_readonly(i, p, readonly, now) ==
    LET path == pathname_format(p)
        d == fs_path_lookup(i.root, path)
    IN  IF d.uid = 0 THEN Result("NO_DENTRY", i)
        ELSE Result("ok", IF d.readonly = readonly THEN i
                          ELSE PutAt(i, path, [d EXCEPT !.readonly = readonly, !.times.change = now]))

----------------------------------------------------------------------------
(* Files that are both a symlink and have data, as a known defect of other
   writers leaves them: the data stays, the link moves to lost and found under the
   same path.  acc.base says that the directories so far were there already. *)
LTFS_LOSTANDFOUND_DIR == "_ltfs_lostandfound"
FailedSplit(acc, r) == [acc EXCEPT !.rc = r]
MakeDir(acc, dir, now) ==
    LET there == acc.base /\ Exists(acc.idx, dir)
        r == ltfs_fsops_create(acc.idx, dir, TRUE, FALSE, now)
    IN  IF acc.rc # "ok" \/ there THEN acc
        ELSE [acc EXCEPT !.rc = r.rc, !.idx = r.idx, !.base = FALSE]
MoveLink(acc, path, now) ==
    LET to == << LTFS_LOSTANDFOUND_DIR >> \o path
        d == fs_path_lookup(acc.idx.root, path)
        cleared == IF Exists(acc.idx, to) THEN ltfs_fsops_unlink(acc.idx, to, now) ELSE Result("ok", acc.idx)
        linked == ltfs_fsops_symlink_path(cleared.idx, d.target, to, now)
        ea == _xattr_seek(d, LTFS_LIVELINK_EA_NAME)
        value == IF ea = 0 THEN "" ELSE d.xattrs[ea].value
        moved == IF value \in {"", "long"} THEN linked.idx
                 ELSE PutAt(linked.idx, to, xattr_set_mountpoint_length(fs_path_lookup(linked.idx.root, to), value))
        file == IF value \in {"", "long"} THEN d ELSE xattr_do_remove(d, LTFS_LIVELINK_EA_NAME, now)
    IN  CASE acc.rc # "ok" -> acc
          [] OTHER ->
             IF cleared.rc # "ok" THEN FailedSplit(acc, cleared.rc)
             ELSE IF linked.rc # "ok" THEN FailedSplit(acc, linked.rc)
             ELSE [acc EXCEPT !.idx = PutAt(moved, path, [file EXCEPT !.isslink = FALSE, !.target = ""]),
                              !.last = CASE ea = 0 -> "NO_XATTR"
                                         [] value = "long" -> "SMALL_BUFFER"   \* over 32 bytes
                                         [] OTHER -> "ok"]
\* Mutant: the next conflict still believes that its directories have to be made.
NextConflict_KeepsBase(acc) == acc
\* basedir is set for the next conflict.
NextConflict(acc) == [acc EXCEPT !.base = TRUE]
SplitOne(acc, path, now) ==
    LET dirs == [k \in 1 .. Len(path) - 1 |-> << LTFS_LOSTANDFOUND_DIR >> \o SubSeq(path, 1, k)]
    IN  NextConflict(MoveLink(FoldLeft(LAMBDA a, dir : MakeDir(a, dir, now), acc, dirs), path, now))
\* A changed index will be written in the current version.
ltfs_set_index_dirty(i) == [i EXCEPT !.version = LTFS_INDEX_VERSION]
\* The result of the last xattr_get is what the function returns.
ltfs_split_symlink(i, now) ==
    LET start == MakeDir([rc |-> "ok", idx |-> i, base |-> TRUE, last |-> "ok"], << LTFS_LOSTANDFOUND_DIR >>, now)
        end == FoldLeft(LAMBDA a, path : SplitOne(a, Tail(path), now), start, i.conflicts)
    IN  Result(IF end.rc = "ok" THEN end.last ELSE end.rc, ltfs_set_index_dirty(end.idx))

----------------------------------------------------------------------------
(* Reading.  libxml asks for len bytes at a time until the document is complete,
   and maybe once more. *)
Reading(blocks, n, len, more) ==
    LET Step(acc, k) ==
            LET c == xml_input_tape_read_callback(acc.ctx, blocks, len)
            IN  IF Len(acc.got) >= n /\ ~(more /\ k = n + 1) THEN acc
                ELSE [ctx |-> c, got |-> acc.got \o c.out]
    IN  FoldLeft(Step, [ctx |-> NewInput, got |-> <<>>], [k \in 1 .. n + 1 |-> k])
\* Whether all bytes came back in their order, and whether the file mark was seen.
ReadOutcomes(t) ==
    { [whole |-> r.got = [k \in 1 .. t.n |-> k], fm |-> r.ctx.fm] :
        r \in { Reading(t.blocks, t.n, len, more) : len \in 1 .. 2 * Blocksize + 1, more \in BOOLEAN } }
xml_schema_from_tape(doc, read) ==
    LET p == _xml_parse_schema(doc)
    IN  IF ~read.whole THEN Result("INDEX_INVALID", ltfs_index_alloc)
        ELSE Result(IF p.rc = "ok" /\ ~read.fm THEN "ok_no_fm" ELSE p.rc, p.idx)

ltfs_read_labels(ls) ==
    LET l0 == _xml_parse_label(ls[1])
        l1 == _xml_parse_label(ls[2])
    IN  CASE ~l0.ok \/ ~l1.ok -> "LABEL_INVALID"
          [] l0.ok /\ l1.ok /\ ~label_compare(l0, l1) -> "LABEL_MISMATCH"
          [] OTHER -> "ok"

Readable(r) == r \in {"ok", "ok_no_fm"}
PointersOk(i, label, pos) ==
    /\ i.uuid = label.uuid /\ i.selfptr = pos
    /\ i.backptr.partition \in {"", label.dp}
    /\ ~(/\ i.backptr.partition = i.selfptr.partition /\ i.selfptr.block # 5
         /\ i.backptr.block # i.selfptr.block /\ i.backptr.block >= i.selfptr.block - 2)
    /\ i.backptr.partition # "" => i.backptr.block >= 5
ltfs_read_index(t, label, read, recover_symlink, now) ==
    LET x == xml_schema_from_tape(t.doc, read)
        s == ltfs_split_symlink(x.idx, now)
        r == IF x.idx.conflicts # <<>> /\ recover_symlink THEN s ELSE x
        i == [r.idx EXCEPT !.conflicts = <<>>]
    IN  IF Readable(r.rc) /\ ~PointersOk(i, label, t.pos) THEN Result("INDEX_INVALID", i)
        ELSE Result(r.rc, i)

----------------------------------------------------------------------------
(* The operation a client asks for. *)
Answer(i, q, now) ==
    LET op == q.op
    IN  CASE op = "create" -> ltfs_fsops_create(i, q.path, q.isdir, FALSE, now)
          [] op = "symlink" -> ltfs_fsops_symlink_path(i, q.target, q.path, now)
          [] op = "unlink" -> ltfs_fsops_unlink(i, q.path, now)
          [] op = "write" -> ltfs_fsops_write(i, q.path, now)
          [] op = "setxattr" -> ltfs_fsops_setxattr(i, q.path, q.name, q.value, q.flags, now)
          [] op = "removexattr" -> ltfs_fsops_removexattr(i, q.path, q.name, now)
          [] op = "utimens" -> ltfs_fsops_utimens(i, q.path, q.time, now)
          [] op = "readonly" -> ltfs_fsops_set_readonly(i, q.path, TRUE, now)
=============================================================================
