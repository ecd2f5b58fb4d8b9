--------------------------- MODULE MCIndexFormat ----------------------------
(* The cartridges: an index of this implementation, and the ways in which a
   document of another one, or of another version, may differ from it. *)
EXTENDS IndexFormat

File(name, uid) == fs_allocate_dentry(name, FALSE, uid)
Xt(at, n, block) == [partition |-> "b", block |-> block, byteoffset |-> 0, bytecount |-> n, fileoffset |-> at]
FileA == [File("a", 2) EXCEPT !.extents = << Xt(0, 2, 5), Xt(2, 3, 6) >>, !.size = 6,
             !.xattrs = << [key |-> "k", value |-> "v"] >>]
FileB == [File("b", 4) EXCEPT !.extents = << Xt(0, 1, 7) >>, !.size = 1]
DirD == [fs_allocate_dentry("d", TRUE, 3) EXCEPT !.kids = << FileB >>]
Tree(ks) == [fs_allocate_dentry("", TRUE, 1) EXCEPT !.kids = ks]
Base == [ltfs_index_alloc EXCEPT !.uuid = "uuid1", !.generation = 2, !.selfptr = [partition |-> "b", block |-> 8],
            !.uid_number = 4, !.root = Tree(<< FileA, DirD >>), !.file_count = 2,
            !.backptr = [partition |-> "b", block |-> 5],
            !.policy = [have |-> TRUE, size |-> 1, names |-> <<"a">>]]
Late == [Base EXCEPT !.uid_number = MaxUid - 1]
Doc(i) == _xml_write_schema(i, "other")

\* Edits of a document, at every element with the tag.
RECURSIVE Strip(_, _)
Strip(e, tags) == LET ks == SelectSeq(e.kids, LAMBDA k : k.tag \notin tags)
                  IN  [e EXCEPT !.kids = [k \in DOMAIN ks |-> Strip(ks[k], tags)]]
RECURSIVE Set(_, _, _, _)
Set(e, tag, v, w) ==
    IF e.tag = tag /\ e.kids = <<>> THEN IF e.val = v THEN [e EXCEPT !.val = w] ELSE e
    ELSE [e EXCEPT !.kids = [k \in DOMAIN e.kids |-> Set(e.kids[k], tag, v, w)]]
RECURSIVE Add(_, _, _)
Add(e, tags, x) ==
    LET ks == [k \in DOMAIN e.kids |-> Add(e.kids[k], tags, x)]
    IN  [e EXCEPT !.kids = IF e.tag \in tags THEN ks \o x ELSE ks]
RECURSIVE Reversed(_, _)
Reversed(e, tag) ==
    LET ks == [k \in DOMAIN e.kids |-> Reversed(e.kids[k], tag)]
    IN  [e EXCEPT !.kids = IF e.tag = tag THEN Reverse(ks) ELSE ks]
BaseDoc == Doc(Base)
Edited(e) == [BaseDoc EXCEPT !.e = e]
E0 == BaseDoc.e
NewerTags == {"fileuid", "backuptime", "fileoffset", "highestfileuid"}
Unknown == << Leaf("x1", "one"), Leaf("x2", "two") >>

Label == [creator |-> "ltfs", format_time |-> 1, uuid |-> "uuid1", ip |-> "a", dp |-> "b", blocksize |-> Blocksize,
          compression |-> TRUE]
Labels == << xml_make_label(Label, "a"), xml_make_label(Label, "b") >>
Cartridge(doc) == [doc |-> doc, labels |-> Labels, own |-> <<>>, ops |-> 1]
Labelled(l0, l1) == [doc |-> BaseDoc, labels |-> << l0, l1 >>, own |-> <<>>, ops |-> 0]

WithEA(d) == [d EXCEPT !.xattrs = << [key |-> LTFS_LIVELINK_EA_NAME, value |-> "4"] >>]
RECURSIVE BothTags(_, _)
BothTags(e, ds) ==
    LET ks == [k \in DOMAIN e.kids |-> BothTags(e.kids[k], ds)]
    IN  [e EXCEPT !.kids = IF e.tag = "file" /\ Kid(e, "name").val \in ds
                           THEN Append(ks, Leaf("symlink", "tgt")) ELSE ks]
Split(ks, ds) ==
    LET doc == Doc([Base EXCEPT !.root = Tree(ks), !.uid_number = 5])
    IN  [doc EXCEPT !.e = BothTags(@, ds)]
DirOf(ks) == [DirD EXCEPT !.kids = ks]
FileC == [FileB EXCEPT !.name = "c", !.uid = 5]

Documents ==
    { [BaseDoc EXCEPT !.version = 10000, !.e = Strip(E0, NewerTags)],
      [BaseDoc EXCEPT !.version = 10000],
      [BaseDoc EXCEPT !.version = 20300, !.e = Add(E0, {"ltfsindex", "directory", "file", "contents", "extent"}, Unknown)],
      [BaseDoc EXCEPT !.version = 10000, !.e = Add(Strip(E0, NewerTags), {"ltfsindex", "file"}, Unknown)],
      [BaseDoc EXCEPT !.version = 30000],
      Edited(Reversed(E0, "extentinfo")), Edited(Set(E0, "fileoffset", 2, 1)), Edited(Set(E0, "length", 6, 4)),
      Edited(Set(E0, "highestfileuid", 4, 2)),
      Edited(Set(E0, "fileuid", 4, 2)), Edited(Set(E0, "fileuid", 2, 1)),
      Edited(Set(E0, "bytecount", 3, MaxOffset)),
      [BaseDoc EXCEPT !.version = 10000, !.e = Strip(Set(E0, "bytecount", 2, MaxOffset), NewerTags)],
      Edited(Add(E0, {"ltfsindex"}, << Leaf("comment", "long") >>)),
      Edited(Set(E0, "fileuid", 2, 0)), Edited(Set(E0, "fileuid", 1, 6)), Edited(Set(E0, "fileuid", 3, 1)),
      Edited(Strip(E0, {"readonly"})), Edited(Add(E0, {"file"}, << Leaf("length", 9) >>)),
      Edited(Strip(E0, {"volumeuuid"})), Edited(Set(E0, "name", "b", "a_nfd")), Edited(Set(E0, "name", "b", "a:b")),
      Edited(Set(E0, "volumeuuid", "uuid1", "UUID1")), Edited(Set(E0, "volumeuuid", "uuid1", "uuid2")),
      Edited(Set(E0, "startblock", 8, 9)), Edited(Set(E0, "startblock", 5, 7)), Edited(Set(E0, "value", "v", "ctl")),
      Edited(Set(E0, "creationtime", 0, MaxTime + 2)), Edited(Strip(E0, {"dataplacementpolicy"})),
      Split(<< WithEA(FileA), DirD >>, {"a"}), Split(<< FileA, DirD >>, {"a"}),
      Split(<< [WithEA(FileA) EXCEPT !.xattrs[1].value = "long"], DirD >>, {"a"}),
      Split(<< WithEA(FileA), DirOf(<< FileB >>) >>, {"a", "b"}),
      Split(<< FileA, DirOf(<< WithEA(FileB) >>) >>, {"a", "b"}),
      Split(<< FileA, DirOf(<< WithEA(FileB), WithEA(FileC) >>) >>, {"b", "c"}) }
OldLabel(p) == [xml_make_label(Label, p) EXCEPT !.version = 10000, !.e = Add(@, {"ltfslabel"}, Unknown)]
MCCartridges ==
    { Cartridge(doc) : doc \in Documents }
    \cup { [Cartridge(BaseDoc) EXCEPT !.own = << Base >>],
           [Cartridge(Doc(Late)) EXCEPT !.own = << Late >>, !.ops = 2],
           Labelled(OldLabel("a"), OldLabel("b")), Labelled(OldLabel("a"), Labels[2]),
           Labelled(Labels[1], Labels[1]), Labelled(Labels[1], xml_make_label([Label EXCEPT !.uuid = "uuid2"], "b")),
           Labelled(Labels[1], xml_make_label([Label EXCEPT !.ip = "b"], "b")),
           Labelled(Labels[1], [Labels[2] EXCEPT !.e = Strip(@, {"blocksize"})]) }

(* Link targets and commit messages are texts that XML can carry: the code does
   not check them, see the README. *)
Request(op, path) == [op |-> op, path |-> path]
XattrRequest(path, name, value, flags) ==
    [op |-> "setxattr", path |-> path, name |-> name, value |-> value, flags |-> flags]
MCRequests ==
    { [op |-> "create", path |-> p, isdir |-> FALSE] : p \in {<<"c">>, <<"a_nfd">>, <<"ctl">>} }
    \cup { [op |-> "create", path |-> <<"d", "e">>, isdir |-> TRUE] }
    \cup { [op |-> "symlink", path |-> <<"l">>, target |-> "tgt"] }
    \cup { Request("unlink", p) : p \in {<<"a">>, <<"d", "b">>, <<"d">>, <<>>, <<"ctl">>} }
    \cup { Request("write", <<"a">>), Request("readonly", <<"d">>) }
    \cup { XattrRequest(<<"a">>, "k", v, f) : v \in {"", "ctl", "long"}, f \in {"create", "replace"} }
    \cup { XattrRequest(<<"d">>, "a_nfd", "w", "any"), XattrRequest(<<"a">>, "ltfs.x", "w", "any"),
           XattrRequest(<<>>, "ltfs.commitMessage", "a_nfd", "any"), XattrRequest(<<>>, "ltfs.volumeName", "a_nfd", "any"),
           XattrRequest(<<>>, "ltfs.volumeName", "ctl", "any"),
           XattrRequest(<<"a">>, "ltfs.createTime", MaxTime + 1, "any"), XattrRequest(<<"a">>, "ltfs.modifyTime", -1, "any") }
    \cup { XattrRequest(<<"d">>, n, 1, "any") : n \in {"ltfs.changeTime", "ltfs.accessTime", "ltfs.backupTime"} }
    \cup { [op |-> "removexattr", path |-> p[1], name |-> p[2]] :
             p \in {<< <<"a">>, "k" >>, << <<>>, "ltfs.volumeName" >>, << <<"l">>, LTFS_LIVELINK_EA_NAME >>} }
    \cup { [op |-> "utimens", path |-> <<"a">>, time |-> MaxTime + 1] }
=============================================================================
