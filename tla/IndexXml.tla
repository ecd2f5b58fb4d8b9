------------------------------ MODULE IndexXml ------------------------------
(* The documents an LTFS volume consists of: the index (xml_writer_libltfs.c
   writes it, xml_reader_libltfs.c reads it back), the label of a partition, and
   the blocks an index is cut into on the tape (xml_writer.c, xml_reader.c).

   A document is a tree of elements.  An element has a tag, a text (an integer
   for the tags that hold numbers and times, a string for the others), the value
   of its "type" attribute and its children.  Texts are members of small sets:
   "ctl" stands for any text with a character XML cannot carry, "a_nfd" for a
   decomposed spelling of "a", "long" for a text longer than its reader allows,
   -1 for digits that do not parse. *)
EXTENDS Integers, Sequences, FiniteSets, SequencesExt

CONSTANTS MaxUid,      \* largest file uid (2^64 - 1 in the code)
          MaxOffset,   \* largest offset or length of a file (2^64 - 1 in the code)
          MaxTime,     \* latest time xml_format_time can express
          Blocksize    \* blocksize of the volume, in bytes

Leaf(t, v) == [tag |-> t, val |-> v, type |-> "", kids |-> <<>>]
Node(t, ks) == [tag |-> t, val |-> "", type |-> "", kids |-> ks]
Document(version, top, ks) == [version |-> version, e |-> Node(top, ks)]

LTFS_INDEX_VERSION == 20200
SupportedVersions == 10000..29999
IDX_VERSION_UID == 20000          \* first version with fileuid, backuptime, fileoffset
LTFS_LIVELINK_EA_NAME == "ltfs.vendor.IBM.prefixLength"

(* Texts.  libxml copies a text it cannot represent as it is, and refuses the
   document when it reads it. *)
InXml(v) == v # "ctl"
Base64 == [ctl |-> "Y3Rs"]
base64_decode(v) == IF v = Base64.ctl THEN "ctl" ELSE ""
pathname_normalize(n) == IF n = "a_nfd" THEN "a" ELSE n
pathname_validate_file(n) == n # "" /\ InXml(n) /\ n # "a:b"
NormalTime(t) == IF t > MaxTime THEN MaxTime ELSE t
Lower(u) == IF u = "UUID1" THEN "uuid1" ELSE u

----------------------------------------------------------------------------
(* The index in memory.  A dentry is one record for files and directories. *)
NoTimes == [creation |-> 0, change |-> 0, modify |-> 0, access |-> 0, backup |-> 0]
fs_allocate_dentry(name, isdir, uid) ==
    [isdir |-> isdir, name |-> name, uid |-> uid, readonly |-> FALSE, times |-> NoTimes,
     xattrs |-> <<>>, tags |-> <<>>, size |-> 0, isslink |-> FALSE, target |-> "",
     extents |-> <<>>, kids |-> <<>>]
NoPolicy == [have |-> FALSE, size |-> 0, names |-> <<>>]
NoPos == [partition |-> "", block |-> 0]
ltfs_index_alloc ==
    [version |-> LTFS_INDEX_VERSION, creator |-> "", uuid |-> "", generation |-> 0, mod_time |-> 0,
     selfptr |-> NoPos, backptr |-> NoPos, allow |-> FALSE, policy |-> NoPolicy, comment |-> "",
     volume_name |-> "", uid_number |-> 1, root |-> fs_allocate_dentry("", TRUE, 1), tags |-> <<>>,
     file_count |-> 0, valid_blocks |-> 0, conflicts |-> <<>>]

\* A uid number that has wrapped around to 0 gives out no more uids.
fs_allocate_uid(idx) ==
    IF idx.uid_number = 0 THEN idx ELSE [idx EXCEPT !.uid_number = (@ + 1) % (MaxUid + 1)]

\* Offsets and lengths are uint64_t: a sum may wrap around.
Sum64(m, n) == (m + n) % (MaxOffset + 1)
BlocksOf(xt) == (Sum64(xt.byteoffset, xt.bytecount) + Blocksize - 1) \div Blocksize
UsedBlocks(d) == FoldLeft(LAMBDA n, xt : n + BlocksOf(xt), 0, d.extents)

----------------------------------------------------------------------------
(* Writing. *)
BoolText(b) == IF b THEN "true" ELSE "false"
xml_format_time(t) == NormalTime(t)

_xml_write_dentry_times(d) ==
    << Leaf("creationtime", xml_format_time(d.times.creation)),
       Leaf("changetime", xml_format_time(d.times.change)),
       Leaf("modifytime", xml_format_time(d.times.modify)),
       Leaf("accesstime", xml_format_time(d.times.access)),
       Leaf("backuptime", xml_format_time(d.times.backup)) >>

(* A value that is not legal XML text is written in base64. *)
XattrValue(v) ==
    IF v = "" \/ InXml(v) THEN Leaf("value", v)
    ELSE [Leaf("value", Base64[v]) EXCEPT !.type = "base64"]
_xml_write_xattr(d) ==
    IF d.xattrs = <<>> THEN <<>>
    ELSE << Node("extendedattributes",
                 [i \in DOMAIN d.xattrs |->
                    Node("xattr", <<Leaf("key", d.xattrs[i].key), XattrValue(d.xattrs[i].value)>>)]) >>

WriteExtent(xt) ==
    Node("extent", << Leaf("fileoffset", xt.fileoffset), Leaf("partition", xt.partition),
                      Leaf("startblock", xt.block), Leaf("byteoffset", xt.byteoffset),
                      Leaf("bytecount", xt.bytecount) >>)

_xml_write_file(f) ==
    Node("file",
         << Leaf("name", f.name), Leaf("length", f.size), Leaf("readonly", BoolText(f.readonly)) >>
         \o _xml_write_dentry_times(f) \o << Leaf("fileuid", f.uid) >> \o _xml_write_xattr(f)
         \o (CASE f.isslink -> << Leaf("symlink", f.target) >>
               [] ~f.isslink /\ f.extents # <<>> ->
                    << Node("extentinfo", [i \in DOMAIN f.extents |-> WriteExtent(f.extents[i])]) >>
               [] OTHER -> <<>>)
         \o f.tags)

(* Entries are written in the order of their uids, which also sorts the table
   of the directory; preserved tags come last. *)
ByUid(ks) == SortSeq(ks, LAMBDA a, b : a.uid < b.uid)
RECURSIVE _xml_write_dirtree(_, _)
_xml_write_dirtree(d, name) ==
    LET ks == ByUid(d.kids)
    IN  Node("directory",
             << Leaf("name", name), Leaf("readonly", BoolText(d.readonly)) >>
             \o _xml_write_dentry_times(d) \o << Leaf("fileuid", d.uid) >> \o _xml_write_xattr(d)
             \o << Node("contents", [i \in DOMAIN ks |->
                                       IF ks[i].isdir THEN _xml_write_dirtree(ks[i], ks[i].name)
                                       ELSE _xml_write_file(ks[i])]) >>
             \o d.tags)

TapePos(tag, p) == Node(tag, << Leaf("partition", p.partition), Leaf("startblock", p.block) >>)
WritePolicy(p) ==
    IF ~p.have THEN <<>>
    ELSE << Node("dataplacementpolicy",
                 << Node("indexpartitioncriteria",
                         << Leaf("size", p.size) >> \o [i \in DOMAIN p.names |-> Leaf("name", p.names[i])]) >>) >>

_xml_write_schema(idx, creator) ==
    Document(LTFS_INDEX_VERSION, "ltfsindex",
         << Leaf("creator", creator) >>
         \o (IF idx.comment = "" THEN <<>> ELSE << Leaf("comment", idx.comment) >>)
         \o << Leaf("volumeuuid", idx.uuid), Leaf("generationnumber", idx.generation),
               Leaf("updatetime", xml_format_time(idx.mod_time)), TapePos("location", idx.selfptr) >>
         \o (IF idx.backptr.block = 0 THEN <<>> ELSE << TapePos("previousgenerationlocation", idx.backptr) >>)
         \o << Leaf("allowpolicyupdate", BoolText(idx.allow)) >> \o WritePolicy(idx.policy)
         \o << Leaf("highestfileuid", idx.uid_number), _xml_write_dirtree(idx.root, idx.volume_name) >>
         \o idx.tags)

(* One label per partition; partition is the id of the one it is written to. *)
xml_make_label(label, partition) ==
    Document(LTFS_INDEX_VERSION, "ltfslabel",
         << Leaf("creator", label.creator), Leaf("formattime", xml_format_time(label.format_time)),
            Leaf("volumeuuid", label.uuid),
            Node("location", << Leaf("partition", partition) >>),
            Node("partitions", << Leaf("index", label.ip), Leaf("data", label.dp) >>),
            Leaf("blocksize", label.blocksize), Leaf("compression", BoolText(label.compression)) >>)

----------------------------------------------------------------------------
(* Reading: what the macros of xml.h do with the children of an element. *)
Kids(e, t) == SelectSeq(e.kids, LAMBDA k : k.tag = t)
Has(e, t) == Len(Kids(e, t)) > 0
Kid(e, t) == Head(Kids(e, t))

\* check_required_tag, check_required_tags and check_optional_tag
Complete(e, required, optional) ==
    /\ \A t \in required : Len(Kids(e, t)) = 1
    /\ \A t \in optional : Len(Kids(e, t)) <= 1

\* xml_save_tag: unrecognised tags are kept as they are, in their order.
xml_save_tag_first(e, known) ==
    LET u == SelectSeq(e.kids, LAMBDA k : k.tag \notin known)
    IN  IF u = <<>> THEN u ELSE << Head(u) >>
xml_save_tag(e, known) == SelectSeq(e.kids, LAMBDA k : k.tag \notin known)

\* get_tag_text and the value parsers of xml_reader.c
xml_scan_text(e, t) == Has(e, t) => Kid(e, t).val # "" /\ InXml(Kid(e, t).val)
xml_parse_uuid(e) == Kid(e, "volumeuuid").val \in {"uuid1", "UUID1", "uuid2"}
xml_parse_filename(v) == pathname_validate_file(pathname_normalize(v))
xml_parse_ull(e, ts) == \A t \in ts : Has(e, t) => Kid(e, t).val >= 0
xml_parse_bool(e, t) == Kid(e, t).val \in {"true", "1", "false", "0"}
BoolOf(e, t) == Kid(e, t).val \in {"true", "1"}
xml_parse_time(e, ts) == \A t \in ts : Kid(e, t).val >= 0
TimeOf(e, t) == NormalTime(Kid(e, t).val)
_xml_parse_partition(v) == v \in {"a", "b", "c"}

\* _xml_parse_version and _xml_parser_init
_xml_parser_init(doc, top) == doc.e.tag = top /\ doc.version \in SupportedVersions

BadPos == [partition |-> "", block |-> -1]
_xml_scan_tapepos(e) ==
    IF /\ Complete(e, {"partition", "startblock"}, {})
       /\ _xml_parse_partition(Kid(e, "partition").val)
       /\ xml_parse_ull(e, {"startblock"})
    THEN [partition |-> Kid(e, "partition").val, block |-> Kid(e, "startblock").val] ELSE BadPos

----------------------------------------------------------------------------
(* Extents and extended attributes.  A reader returns ok and what it has read. *)
Old(version) == version < IDX_VERSION_UID
XtEnd(xt) == Sum64(xt.fileoffset, xt.bytecount)

(* Documents before 2.0 have no sparse files: an extent starts where the one
   before it ends.  An extent goes behind the last one that ends before it
   starts, and must not reach into the next. *)
InsertExtent(xts, xt) ==
    LET before == {i \in DOMAIN xts : XtEnd(xts[i]) <= xt.fileoffset}
        at == IF before = {} THEN 0 ELSE CHOOSE i \in before : \A j \in before : j <= i
    IN  [ok |-> \A j \in at + 1 .. Len(xts) : XtEnd(xt) <= xts[j].fileoffset,
         xts |-> SubSeq(xts, 1, at) \o << xt >> \o SubSeq(xts, at + 1, Len(xts))]
_xml_parse_one_extent(acc, e, version) ==
    LET nums == {"startblock", "byteoffset", "bytecount"} \cup (IF Old(version) THEN {} ELSE {"fileoffset"})
        xt == [partition |-> Kid(e, "partition").val, block |-> Kid(e, "startblock").val,
               byteoffset |-> Kid(e, "byteoffset").val, bytecount |-> Kid(e, "bytecount").val,
               fileoffset |-> CASE ~Old(version) -> Kid(e, "fileoffset").val
                                [] Old(version) /\ acc.xts = <<>> -> 0
                                [] OTHER -> XtEnd(Last(acc.xts))]
    IN  IF /\ acc.ok /\ Complete(e, nums \cup {"partition"}, {})
           /\ _xml_parse_partition(Kid(e, "partition").val) /\ xml_parse_ull(e, nums)
        THEN InsertExtent(acc.xts, xt) ELSE [acc EXCEPT !.ok = FALSE]
_xml_parse_extents(es, version) ==
    FoldLeft(LAMBDA acc, e : _xml_parse_one_extent(acc, e, version), [ok |-> TRUE, xts |-> <<>>],
             IF es = <<>> THEN <<>> ELSE Kids(Head(es), "extent"))

_xml_parse_one_xattr(acc, e) ==
    LET v == Kid(e, "value")
        decoded == IF v.type = "base64" THEN base64_decode(v.val) ELSE v.val
    IN  IF /\ acc.ok /\ Complete(e, {"key", "value"}, {})
           /\ xml_parse_filename(Kid(e, "key").val) /\ v.type \in {"", "text", "base64"}
           /\ InXml(v.val) /\ (v.type = "base64" => v.val = "" \/ decoded # "")
        THEN [acc EXCEPT !.xattrs = Append(@, [key |-> pathname_normalize(Kid(e, "key").val), value |-> decoded])]
        ELSE [acc EXCEPT !.ok = FALSE]
_xml_parse_xattrs(es) ==
    FoldLeft(_xml_parse_one_xattr, [ok |-> TRUE, xattrs |-> <<>>],
             IF es = <<>> THEN <<>> ELSE Kids(Head(es), "xattr"))

----------------------------------------------------------------------------
(* Dentries.  The readers thread the index through, for what it counts: uids,
   files, blocks, and the dentries that are both a symlink and have extents. *)
DentryTimes == {"modifytime", "creationtime", "accesstime", "changetime"}
SinceUid(version) == IF Old(version) THEN {} ELSE {"fileuid", "backuptime"}
CommonTags(version) == {"name", "readonly"} \cup DentryTimes \cup SinceUid(version)
\* The tags a reader does not save: the known ones, and the newer ones in an old document.
DentryKnown == {"name", "readonly", "fileuid", "backuptime", "extendedattributes"} \cup DentryTimes
CommonOk(e, version) ==
    /\ xml_parse_bool(e, "readonly")
    /\ xml_parse_time(e, DentryTimes \cup (SinceUid(version) \ {"fileuid"}))
    /\ xml_parse_ull(e, SinceUid(version) \ {"backuptime"})
    /\ _xml_parse_xattrs(Kids(e, "extendedattributes")).ok
CommonDentry(e, isdir, version, known) ==
    [fs_allocate_dentry(pathname_normalize(Kid(e, "name").val), isdir, 1) EXCEPT
        !.readonly = BoolOf(e, "readonly"),
        !.times = [creation |-> TimeOf(e, "creationtime"), change |-> TimeOf(e, "changetime"),
                   modify |-> TimeOf(e, "modifytime"), access |-> TimeOf(e, "accesstime"),
                   backup |-> TimeOf(e, IF Old(version) THEN "creationtime" ELSE "backuptime")],
        !.xattrs = _xml_parse_xattrs(Kids(e, "extendedattributes")).xattrs,
        !.tags = xml_save_tag(e, known)]

\* The uid of an entry: from the document, or a new one for an old document.
RaiseUid_Ignored(idx, uid) == idx
RaiseUid(idx, uid) == [idx EXCEPT !.uid_number = IF uid > @ THEN uid ELSE @]
TakeUid(idx, e) ==
    IF Old(idx.version) THEN LET a == fs_allocate_uid(idx) IN [uid |-> a.uid_number, idx |-> a]
    ELSE [uid |-> Kid(e, "fileuid").val, idx |-> RaiseUid(idx, Kid(e, "fileuid").val)]

_xml_save_symlink_conflict(idx, path) == [idx EXCEPT !.conflicts = Append(@, path)]

Failed(idx) == [ok |-> FALSE, d |-> fs_allocate_dentry("", FALSE, 0), idx |-> idx]
_xml_parse_file(e, path, idx) ==
    LET version == idx.version
        known == DentryKnown \cup {"length", "extentinfo", "symlink"}
        xts == _xml_parse_extents(Kids(e, "extentinfo"), version)
        uid == TakeUid(idx, e)
        link == Has(e, "symlink")
        d == [CommonDentry(e, FALSE, version, known) EXCEPT
                !.size = Kid(e, "length").val, !.extents = xts.xts, !.uid = uid.uid,
                !.isslink = link, !.target = IF link THEN Kid(e, "symlink").val ELSE ""]
        counted == [uid.idx EXCEPT !.file_count = @ + 1, !.valid_blocks = @ + UsedBlocks(d)]
    IN  IF /\ Complete(e, CommonTags(version) \cup {"length"}, {"extendedattributes", "extentinfo", "symlink"})
           /\ CommonOk(e, version) /\ xml_parse_ull(e, {"length"}) /\ xml_scan_text(e, "symlink")
           /\ xml_parse_filename(Kid(e, "name").val)
           /\ xts.ok /\ (xts.xts # <<>> => XtEnd(Last(xts.xts)) <= d.size)
           /\ d.uid # 0
        THEN [ok |-> TRUE, d |-> d,
              idx |-> IF link /\ Has(e, "extentinfo")
                      THEN _xml_save_symlink_conflict(counted, Append(path, d.name)) ELSE counted]
        ELSE Failed(idx)

(* _xml_parse_dirtree and _xml_parse_dir_contents.  The entries of a directory
   are numbered before the directory itself; the root has uid 1, and only it. *)
RECURSIVE _xml_parse_dirtree(_, _, _)
_xml_parse_dir_contents(e, path, idx) ==
    LET Entry(acc, k) ==
            LET r == IF k.tag = "file" THEN _xml_parse_file(k, path, acc.idx)
                     ELSE _xml_parse_dirtree(k, path, acc.idx)
            IN  CASE ~acc.ok \/ k.tag \notin {"file", "directory"} -> acc
                  [] OTHER -> [ok |-> r.ok, idx |-> r.idx, kids |-> Append(acc.kids, r.d)]
    IN  FoldLeft(Entry, [ok |-> TRUE, idx |-> idx, kids |-> <<>>], e.kids)
_xml_parse_dirtree(e, path, idx) ==
    LET version == idx.version
        isroot == path = << >>
        name == Kid(e, "name").val
        here == IF isroot THEN << "/" >> ELSE Append(path, pathname_normalize(name))
        contents == _xml_parse_dir_contents(Kid(e, "contents"), here, idx)
        uid == IF isroot /\ Old(version) THEN [uid |-> 1, idx |-> contents.idx]
               ELSE TakeUid(contents.idx, e)
        d == [CommonDentry(e, TRUE, version, DentryKnown \cup {"contents"}) EXCEPT
                !.kids = contents.kids, !.uid = uid.uid, !.name = IF isroot THEN "" ELSE @]
    IN  IF /\ Complete(e, CommonTags(version) \cup {"contents"}, {"extendedattributes"})
           /\ CommonOk(e, version)
           /\ xml_parse_filename(name) \/ (isroot /\ name = "")
           /\ contents.ok
           /\ d.uid # 0 /\ isroot = (d.uid = 1)
        THEN [ok |-> TRUE, d |-> d,
              idx |-> IF isroot THEN [uid.idx EXCEPT !.volume_name = pathname_normalize(name)] ELSE uid.idx]
        ELSE Failed(idx)

----------------------------------------------------------------------------
(* The index and the label. *)
_xml_parse_ip_criteria(e) ==
    LET names == Kids(e, "name")
    IN  IF /\ Complete(e, {"size"}, {}) /\ xml_parse_ull(e, {"size"})
           /\ \A i \in DOMAIN names : pathname_validate_file(names[i].val)
        THEN [have |-> TRUE, size |-> Kid(e, "size").val,
              names |-> [i \in DOMAIN names |-> pathname_normalize(names[i].val)]]
        ELSE NoPolicy
_xml_parse_policy(e) ==
    IF Complete(e, {"indexpartitioncriteria"}, {})
    THEN _xml_parse_ip_criteria(Kid(e, "indexpartitioncriteria")) ELSE NoPolicy

IndexTags == {"creator", "volumeuuid", "generationnumber", "updatetime", "location",
              "allowpolicyupdate", "directory"}
IndexOptional == {"previousgenerationlocation", "dataplacementpolicy", "comment"}
IndexRequired(version) == IndexTags \cup (IF Old(version) THEN {} ELSE {"highestfileuid"})
SchemaOk(e, version) ==
    /\ Complete(e, IndexRequired(version), IndexOptional)
    /\ xml_scan_text(e, "creator") /\ xml_scan_text(e, "comment") /\ xml_parse_uuid(e)
    /\ Has(e, "comment") => Kid(e, "comment").val # "long"        \* INDEX_MAX_COMMENT_LEN
    /\ xml_parse_ull(e, IndexRequired(version) \cap {"generationnumber", "highestfileuid"})
    /\ xml_parse_time(e, {"updatetime"}) /\ xml_parse_bool(e, "allowpolicyupdate")
    /\ _xml_scan_tapepos(Kid(e, "location")) # BadPos
    /\ Has(e, "previousgenerationlocation") => _xml_scan_tapepos(Kid(e, "previousgenerationlocation")) # BadPos
    /\ Has(e, "dataplacementpolicy") => _xml_parse_policy(Kid(e, "dataplacementpolicy")).have

(* The highest uid of the document only counts when it is above those met so far. *)
_xml_parse_schema(doc) ==
    LET e == doc.e
        version == doc.version
        fresh == [ltfs_index_alloc EXCEPT !.version = version]
        tree == _xml_parse_dirtree(Kid(e, "directory"), << >>,
                    IF Old(version) THEN fresh ELSE RaiseUid(fresh, Kid(e, "highestfileuid").val))
        idx == [tree.idx EXCEPT
                  !.root = tree.d, !.creator = Kid(e, "creator").val, !.uuid = Lower(Kid(e, "volumeuuid").val),
                  !.generation = Kid(e, "generationnumber").val, !.mod_time = TimeOf(e, "updatetime"),
                  !.selfptr = _xml_scan_tapepos(Kid(e, "location")), !.allow = BoolOf(e, "allowpolicyupdate"),
                  !.backptr = IF Has(e, "previousgenerationlocation")
                              THEN _xml_scan_tapepos(Kid(e, "previousgenerationlocation")) ELSE NoPos,
                  !.policy = IF Has(e, "dataplacementpolicy")
                             THEN _xml_parse_policy(Kid(e, "dataplacementpolicy")) ELSE NoPolicy,
                  !.comment = IF Has(e, "comment") THEN Kid(e, "comment").val ELSE "",
                  !.tags = xml_save_tag(e, IndexTags \cup IndexOptional \cup {"highestfileuid"})]
    IN  CASE ~_xml_parser_init(doc, "ltfsindex") -> [rc |-> "UNSUPPORTED_INDEX_VERSION", idx |-> fresh]
          [] OTHER ->
             IF ~SchemaOk(e, version) THEN [rc |-> "INDEX_INVALID", idx |-> fresh]
             ELSE CASE ~tree.ok -> [rc |-> "INDEX_INVALID", idx |-> fresh]
                    [] tree.ok /\ idx.conflicts # <<>> -> [rc |-> "SYMLINK_CONFLICT", idx |-> idx]
                    [] OTHER -> [rc |-> "ok", idx |-> idx]

NoLabel == [ok |-> FALSE, creator |-> "", format_time |-> 0, uuid |-> "", ip |-> "", dp |-> "", this |-> "",
            blocksize |-> 0, compression |-> FALSE, version |-> 0]
_xml_parse_label_location(e) == Complete(e, {"partition"}, {}) /\ _xml_parse_partition(Kid(e, "partition").val)
_xml_parse_partition_map(e) ==
    /\ Complete(e, {"index", "data"}, {})
    /\ _xml_parse_partition(Kid(e, "index").val) /\ _xml_parse_partition(Kid(e, "data").val)
_xml_parse_label(doc) ==
    LET e == doc.e
        tags == {"creator", "formattime", "volumeuuid", "location", "partitions", "blocksize", "compression"}
    IN  IF /\ _xml_parser_init(doc, "ltfslabel") /\ Complete(e, tags, {})
           /\ xml_scan_text(e, "creator") /\ xml_parse_time(e, {"formattime"}) /\ xml_parse_uuid(e)
           /\ _xml_parse_label_location(Kid(e, "location"))
           /\ _xml_parse_partition_map(Kid(e, "partitions"))
           /\ Kid(e, "blocksize").val > 0 /\ xml_parse_bool(e, "compression")
        THEN [ok |-> TRUE, creator |-> Kid(e, "creator").val, format_time |-> TimeOf(e, "formattime"),
              uuid |-> Lower(Kid(e, "volumeuuid").val), this |-> Kid(Kid(e, "location"), "partition").val,
              ip |-> Kid(Kid(e, "partitions"), "index").val, dp |-> Kid(Kid(e, "partitions"), "data").val,
              blocksize |-> Kid(e, "blocksize").val, compression |-> BoolOf(e, "compression"),
              version |-> doc.version]
        ELSE NoLabel

\* Both labels describe the same volume, and each names its own partition.
label_compare(l1, l2) ==
    /\ l1.uuid = l2.uuid /\ l1.format_time = l2.format_time /\ l1.blocksize = l2.blocksize
    /\ l1.compression = l2.compression /\ l1.version = l2.version
    /\ l1.dp # l1.ip /\ l2.dp = l1.dp /\ l2.ip = l1.ip
    /\ {l1.this, l2.this} = {l1.dp, l1.ip}

----------------------------------------------------------------------------
(* The blocks of a document of n bytes.  libxml hands the bytes over in pieces of
   its own choosing; bytes are numbered. *)
NewOutput == [buf |-> <<>>, blocks |-> <<>>]
\* Mutant: a piece that ends with a block leaves nothing in the buffer, even of an earlier piece.
WriteBlocks_Rounded(ctx, all) ==
    LET full == Len(all) \div Blocksize
    IN  [buf |-> <<>>, blocks |-> ctx.blocks \o
            [i \in 1..full |-> SubSeq(all, (i - 1) * Blocksize + 1, i * Blocksize)]]
\* At least one block goes out; the last piece, up to a whole block, stays in the buffer.
WriteBlocks(ctx, all) ==
    LET full == IF Len(all) = Blocksize THEN 1 ELSE (Len(all) - 1) \div Blocksize
    IN  [buf |-> SubSeq(all, full * Blocksize + 1, Len(all)),
         blocks |-> ctx.blocks \o [i \in 1..full |-> SubSeq(all, (i - 1) * Blocksize + 1, i * Blocksize)]]
xml_output_tape_write_callback(ctx, piece) ==
    IF Len(ctx.buf) + Len(piece) < Blocksize THEN [ctx EXCEPT !.buf = @ \o piece]
    ELSE WriteBlocks(ctx, ctx.buf \o piece)
xml_output_tape_close_callback(ctx) ==
    IF ctx.buf = <<>> THEN ctx.blocks ELSE Append(ctx.blocks, ctx.buf)

(* Reading len bytes of a file of blocks that ends with a file mark.  A block
   shorter than the others is the last one; after it the reader looks for the
   file mark and steps back in front of it. *)
NewInput == [out |-> <<>>, buf |-> <<>>, next |-> 1, small |-> FALSE, fm |-> FALSE]
TapeRead(blocks, i) == IF i > Len(blocks) THEN <<>> ELSE blocks[i]
ReadBlock(ctx, blocks, len) ==
    LET b == TapeRead(blocks, ctx.next)
        small == Len(b) < Blocksize
        fits == IF len - Len(ctx.out) > Len(b) THEN Len(b) ELSE len - Len(ctx.out)
    IN  IF Len(ctx.out) = len \/ ctx.small THEN ctx
        ELSE [out |-> ctx.out \o SubSeq(b, 1, fits), buf |-> SubSeq(b, fits + 1, Len(b)), next |-> ctx.next + 1,
              small |-> small, fm |-> small /\ (b = <<>> \/ TapeRead(blocks, ctx.next + 1) = <<>>)]
xml_input_tape_read_callback(ctx, blocks, len) ==
    IF len <= Len(ctx.buf)
    THEN [ctx EXCEPT !.out = SubSeq(ctx.buf, 1, len), !.buf = SubSeq(ctx.buf, len + 1, Len(ctx.buf))]
    ELSE FoldLeft(LAMBDA c, i : ReadBlock(c, blocks, len), [ctx EXCEPT !.out = ctx.buf, !.buf = <<>>],
                  [i \in 1 .. Len(blocks) + 1 |-> i])
=============================================================================
