---------------------------- MODULE IndexFormat -----------------------------
(* A volume through its index document: a cartridge that this or another
   implementation has written is mounted (or recovered by ltfsck), its tree and
   extended attributes are changed, the index is written as blocks, memory is
   lost, and the cartridge is mounted again.

   Where the tape holds the blocks is IndexCommit's and TapeVolume's subject; here
   every index goes to the data partition, behind the one before it. *)
EXTENDS IndexOps

\* libltfs as the sessions below call it, from IndexOps and IndexXml.
CONSTANTS read_index(_, _, _, _, _), parse_schema(_), serve(_, _, _)

CONSTANTS Cartridges,   \* what the first mount may find, and how many operations follow: [doc, labels, own, ops]
          Requests,     \* the operations a client may ask for
          UnknownTags,  \* tags of foreign documents this version does not know
          DocSizes,     \* lengths of a document, in bytes
          MaxMounts     \* mounts; the last session only reads, nobody would see its changes

VARIABLES tape,      \* [doc, n, blocks, pos]: the last index, its length, blocks and position
          labels,    \* the label documents of both partitions
          idx,       \* the index in memory (of no meaning while ~mounted)
          mounted, dirty,
          rc,        \* result of the last mount
          fresh,     \* nothing has happened since the last mount
          ops,       \* operations that may still be asked for
          mounts,
          \* history
          written,   \* <<index>> as the last writer of this implementation had it, or <<>>
          shared,    \* the uids that the first document gives to several dentries
          foreign,   \* the unknown tags that must still be there: path -> tags
          split      \* the conflicts of the document that the last mount had to split
vars == <<tape, labels, idx, mounted, dirty, rc, fresh, ops, mounts, written, shared, foreign, split>>

----------------------------------------------------------------------------
Now == mounts
Cut(n) == [k \in 1 .. (n + Blocksize - 1) \div Blocksize |->
             [b \in 1 .. (IF k * Blocksize <= n THEN Blocksize ELSE n - (k - 1) * Blocksize) |->
                (k - 1) * Blocksize + b]]

\* The unknown tags of a document, by path; a directory's under the path of the directory.
RECURSIVE ForeignOf(_, _)
ForeignOf(e, path) ==
    LET own == SelectSeq(e.kids, LAMBDA k : k.tag \in UnknownTags)
        entries == IF Has(e, "contents") THEN Kid(e, "contents").kids ELSE <<>>
    IN  { << path, own >> } \cup UNION { ForeignOf(entries[k], Append(path, pathname_normalize(Kid(entries[k], "name").val))) :
                                         k \in {m \in DOMAIN entries : entries[m].tag \in {"file", "directory"}} }
\* The uids of a document, and those it has more than once; older documents have none.
RECURSIVE UidsOf(_)
UidsOf(e) ==
    (IF Has(e, "fileuid") THEN << Kid(e, "fileuid").val >> ELSE <<>>)
    \o FlattenSeq([k \in DOMAIN e.kids |-> UidsOf(e.kids[k])])
SharedUids(doc) ==
    LET us == UidsOf(doc.e)
    IN  IF Old(doc.version) THEN {}
        ELSE {us[k] : k \in {m \in DOMAIN us : \E n \in DOMAIN us : n # m /\ us[n] = us[m]}}
\* The conflicts of a document that carry the length of their mount point.
RECURSIVE ConflictsOf(_, _)
ConflictsOf(d, path) ==
    (IF d.isslink /\ d.extents # <<>> THEN { << path, d >> } ELSE {})
    \cup UNION { ConflictsOf(d.kids[k], Append(path, d.kids[k].name)) : k \in DOMAIN d.kids }

NoIndex == ltfs_index_alloc
Init ==
    \E c \in Cartridges :
       /\ tape = [doc |-> c.doc, n |-> 4, blocks |-> Cut(4), pos |-> [partition |-> "b", block |-> 8]]
       /\ labels = c.labels
       /\ written = c.own /\ shared = SharedUids(c.doc)
       /\ foreign = ForeignOf(Kid(c.doc.e, "directory"), <<>>)
                       \cup { << <<"index">>, SelectSeq(c.doc.e.kids, LAMBDA k : k.tag \in UnknownTags) >> }
       /\ split = {} /\ idx = NoIndex /\ mounted = FALSE /\ dirty = FALSE
       /\ rc = "none" /\ fresh = FALSE /\ ops = c.ops /\ mounts = 0

\* ltfs_mount, or ltfsck with recovery of symlinks; the commit message is forgotten.
Mount(read, recover) ==
    LET l == ltfs_read_labels(labels)
        r == IF l # "ok" THEN Result(l, NoIndex)
             ELSE read_index(tape, _xml_parse_label(labels[1]), read, recover, Now)
        parsed == parse_schema(tape.doc)
    IN  /\ ~mounted /\ mounts < MaxMounts
        /\ mounts' = mounts + 1 /\ rc' = r.rc
        /\ mounted' = Readable(r.rc) /\ fresh' = Readable(r.rc)
        /\ idx' = IF Readable(r.rc) THEN [r.idx EXCEPT !.comment = ""] ELSE NoIndex
        /\ split' = IF l = "ok" /\ recover /\ parsed.rc = "SYMLINK_CONFLICT" THEN ConflictsOf(parsed.idx.root, <<>>) ELSE {}
        /\ dirty' = (parsed.rc = "SYMLINK_CONFLICT" /\ Readable(r.rc))
        /\ UNCHANGED <<tape, labels, ops, written, shared, foreign>>

\* Whether the operation marks the index dirty: a failed removal does, a change of nothing to a time or flag does not.
Dirties(q, r) ==
    CASE q.op = "utimens" ->
            LET d == fs_path_lookup(idx.root, pathname_format(q.path))
            IN  d.uid # 0 /\ {d.times.access, d.times.modify} # {q.time}
      [] q.op = "readonly" -> r.idx # idx
      [] q.op = "removexattr" /\ _xattr_is_virtual(q.path, q.name) -> r.idx # idx
      [] q.op = "removexattr" -> Exists(idx, pathname_format(q.path))
      [] OTHER -> r.rc = "ok"
Change(q) ==
    LET r == serve(idx, q, Now)
    IN  /\ mounted /\ ops > 0 /\ mounts < MaxMounts
        /\ ops' = ops - 1
        /\ idx' = IF Dirties(q, r) THEN ltfs_set_index_dirty(r.idx) ELSE r.idx
        /\ dirty' = (dirty \/ Dirties(q, r)) /\ fresh' = FALSE
        /\ foreign' = IF q.op = "unlink" /\ r.rc = "ok" THEN {f \in foreign : f[1] # pathname_format(q.path)}
                      ELSE foreign
        /\ UNCHANGED <<tape, labels, mounted, rc, mounts, written, shared, split>>

\* xml_schema_to_tape: the entries of every directory are sorted while they are written.
RECURSIVE SortedTree(_)
SortedTree(d) ==
    LET ks == ByUid(d.kids) IN [d EXCEPT !.kids = [k \in DOMAIN ks |-> SortedTree(ks[k])]]
\* The document in the pieces that libxml hands over: it may stop after any byte in ends.
xml_schema_to_tape(n, ends) ==
    LET Byte(acc, k) ==
            IF k \notin ends \cup {n} THEN [acc EXCEPT !.piece = Append(@, k)]
            ELSE [ctx |-> xml_output_tape_write_callback(acc.ctx, Append(acc.piece, k)), piece |-> <<>>]
    IN  xml_output_tape_close_callback(
            FoldLeft(Byte, [ctx |-> NewOutput, piece |-> <<>>], [k \in 1 .. n |-> k]).ctx)

\* ltfs_sync_index and ltfs_write_index, to the data partition.
Sync(n, blocks) ==
    LET pos == [partition |-> "b", block |-> tape.pos.block + Len(tape.blocks) + 2]
        i == [idx EXCEPT !.generation = @ + 1, !.mod_time = Now, !.selfptr = pos,
                         !.backptr = IF idx.selfptr.partition = "b" THEN idx.selfptr ELSE @]
        after == [i EXCEPT !.root = SortedTree(@), !.creator = "ltfs"]
    IN  /\ mounted /\ dirty /\ mounts < MaxMounts
        /\ tape' = [doc |-> _xml_write_schema(i, "ltfs - sync"), n |-> n, blocks |-> blocks, pos |-> pos]
        /\ idx' = after /\ written' = << after >>
        /\ dirty' = FALSE /\ fresh' = FALSE
        /\ UNCHANGED <<labels, mounted, rc, ops, mounts, shared, foreign, split>>

\* Unmounted, or the machine has stopped: what was not written is gone.
Lose ==
    /\ mounted
    /\ mounted' = FALSE /\ fresh' = FALSE /\ dirty' = FALSE /\ idx' = NoIndex
    /\ UNCHANGED <<tape, labels, rc, ops, mounts, written, shared, foreign, split>>

Next ==
    \/ \E read \in ReadOutcomes(tape), recover \in BOOLEAN : Mount(read, recover)
    \/ \E q \in Requests : Change(q)
    \/ \E n \in DocSizes : \E blocks \in { xml_schema_to_tape(n, ends) : ends \in SUBSET (1 .. n - 1) } : Sync(n, blocks)
    \/ Lose
Spec == Init /\ [][Next]_vars

----------------------------------------------------------------------------
(* What a mount may change of the index that was written: who wrote it and in
   which version, the commit message, which is given up, the running count of
   blocks, and a uid number that has run out, which is computed anew. *)
Kept(i, number) ==
    [i EXCEPT !.creator = "", !.version = 0, !.comment = "", !.valid_blocks = 0,
              !.uid_number = IF number = 0 THEN 0 ELSE @]

(* An index that this implementation has written can always be read back, in
   whatever pieces it went out and comes in, and is the same index: names, times,
   attributes with any bytes, extents, links, policy, pointers and uids. *)
IndexKept ==
    written # <<>> /\ mounts > 0 =>
        /\ Readable(rc)
        /\ fresh => Kept(idx, Head(written).uid_number) = Kept(Head(written), Head(written).uid_number)

(* Tags this version does not know are still on the index, the directories and
   the files that had them, in their order, after any number of sessions. *)
TagsKept ==
    mounted => \A f \in foreign :
        f[2] = IF f[1] = <<"index">> THEN idx.tags ELSE fs_path_lookup(idx.root, f[1]).tags

RECURSIVE Dentries(_)
Dentries(d) == << d >> \o FlattenSeq([k \in DOMAIN d.kids |-> Dentries(d.kids[k])])
ExtentsSound(d) ==
    /\ \A k \in 1 .. Len(d.extents) - 1 : XtEnd(d.extents[k]) <= d.extents[k + 1].fileoffset
    /\ d.extents # <<>> => XtEnd(Last(d.extents)) <= d.size
\* No extent reaches beyond the largest offset: the sums of the reader are exact.
Representable(d) == \A k \in DOMAIN d.extents : d.extents[k].fileoffset + d.extents[k].bytecount <= MaxOffset
(* Every index in use, from whatever document and after whatever changes: two
   dentries have the same uid only when the document gave it to both of them (the
   reader does not look for that), so that no uid is handed out twice and every new
   one is above all others; only the root is a directory with uid 1; and a file
   whose extents are representable has them in order, without overlap, and within
   its length.  An extent whose end wraps around in 64 bits passes the reader's
   checks, see the README. *)
IndexSound ==
    mounted =>
        LET ds == Dentries(idx.root)
        IN  /\ \A k, m \in DOMAIN ds : ds[k].uid = ds[m].uid => k = m \/ ds[k].uid \in shared
            /\ \A k \in DOMAIN ds : /\ ds[k].uid # 0 /\ (ds[k].uid <= idx.uid_number \/ idx.uid_number = 0)
                                    /\ ds[k].isdir => (ds[k].uid = 1 <=> k = 1)
                                    /\ Representable(ds[k]) => ExtentsSound(ds[k])

(* ltfsck, asked to recover symlinks, leaves the data of every file that was also
   a link at its place, and the link with its attribute in lost and found; it succeeds
   when every one of them carries the LiveLink attribute, in at most 32 bytes. *)
LiveLink(d) == _xattr_seek(d, LTFS_LIVELINK_EA_NAME)
Carried(d) == LiveLink(d) # 0 /\ d.xattrs[LiveLink(d)].value # "long"
SplitKeepsBoth ==
    split # {} =>
        /\ (\A c \in split : Carried(c[2])) => Readable(rc)
        /\ fresh => \A c \in split :
             LET d == c[2]
                 file == fs_path_lookup(idx.root, c[1])
                 link == fs_path_lookup(idx.root, << LTFS_LOSTANDFOUND_DIR >> \o c[1])
             IN  /\ ~file.isslink /\ file.extents = d.extents /\ file.uid = d.uid
                 /\ link.isslink /\ link.target = d.target
                 /\ Carried(d) => link.xattrs[LiveLink(link)] = d.xattrs[LiveLink(d)]
=============================================================================
