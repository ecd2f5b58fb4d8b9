------------------------------ MODULE FileBytes ------------------------------
(***************************************************************************)
(* The bytes of one file: the write requests the unified scheduler caches  *)
(* for it, the extent lists that say where its bytes are on tape, and the  *)
(* arithmetic that keeps them apart.  A client writes and truncates, the   *)
(* scheduler moves cached requests to the data partition (DP) and, for a   *)
(* file placed on the index partition (IP), from there to the IP.  The     *)
(* locks that make each of these calls atomic for one file are the subject *)
(* of module Unified; here a call is one step and the data is exact.       *)
(*                                                                         *)
(* A byte is the number of the write that stored it, 0 a zero byte.        *)
(***************************************************************************)
EXTENDS Integers, Sequences, SequencesExt, FiniteSetsExt

CONSTANTS
    BlockSizes,   \* block sizes of the volume
    MaxSize,      \* bound: no write ends, no truncate points, past this offset
    WriteSizes,   \* bound: sizes of the writes clients make
    MaxWrites,    \* bound: number of writes
    TruncateSizes,\* bound: lengths clients truncate or extend the file to
    MaxTruncates, \* bound: number of truncates
    MaxIpSize,    \* index_criteria_get_max_filesize: 0 if no placement rule
    IpBlocks      \* blocks the index partition has room for

ASSUME FileBytesAssumption ==
    /\ BlockSizes \subseteq Nat \ {0}
    /\ MaxSize \in Nat /\ MaxWrites \in Nat /\ MaxTruncates \in Nat
    /\ WriteSizes \subseteq Nat \ {0} /\ TruncateSizes \subseteq 0..MaxSize
    /\ MaxIpSize \in Nat /\ IpBlocks \in Nat

VARIABLES
    blocksize,  \* label->blocksize, also the scheduler's cache_size
    requests,   \* dpr->requests: cached writes, by file offset
    extentlist, \* d->extentlist: where the file's bytes are
    alt,        \* dpr->alt_extentlist: the copies on the IP, not yet in force
    fsize,      \* dpr->file_size
    writeip,    \* dpr->write_ip
    priv,       \* d->iosched_priv # NULL
    size,       \* d->size
    realsize,   \* d->realsize
    tape,       \* the blocks of each partition
    ipfull,     \* ltfs_get_partition_readonly(IP): out of space was met
    up,         \* the scheduler has not been destroyed
    content,    \* observer: what clients wrote, in full
    stale,      \* observer: bytes two requests held at once when one was processed
    writes,     \* number of writes so far
    truncates   \* number of truncates so far

vars == <<blocksize, requests, extentlist, alt, fsize, writeip, priv, size, realsize,
          tape, ipfull, up, content, stale, writes, truncates>>

Zeros(n) == [i \in 1..n |-> 0]
Offsets  == 0..MaxSize
Take(s, n) == SubSeq(s, 1, n)
Drop(s, n) == SubSeq(s, n + 1, Len(s))
Lesser(a, b) == IF a <= b THEN a ELSE b

(***************************************************************************)
(* Extents                                                                 *)
(***************************************************************************)
ExtEnd(e) == e.fileoffset + e.bytecount

\* mutant of TrimFront: the offset in the first block is not recomputed
TrimFrontKeepsOffset(e, n) ==
    [e EXCEPT !.block = @ + ((n + e.byteoffset) \div blocksize),
              !.bytecount = @ - n, !.fileoffset = @ + n]

\* An extent loses its first n bytes: its start moves to a later block and to
\* an offset in that block.
TrimFront(e, n) ==
    LET mod == n + e.byteoffset
    IN  [e EXCEPT !.block = @ + (mod \div blocksize),
                  !.byteoffset = mod % blocksize,
                  !.bytecount = @ - n,
                  !.fileoffset = @ + n]

\* What is left of an extent when new overwrites part of it: nothing, its
\* tail, its head, or both.
Remains(e, new) ==
    IF new.fileoffset <= e.fileoffset /\ ExtEnd(new) > e.fileoffset
    THEN IF ExtEnd(e) <= ExtEnd(new) THEN <<>>
         ELSE <<TrimFront(e, ExtEnd(new) - e.fileoffset)>>
    ELSE IF new.fileoffset > e.fileoffset /\ new.fileoffset < ExtEnd(e)
    THEN LET head == [e EXCEPT !.bytecount = new.fileoffset - e.fileoffset]
         IN  IF ExtEnd(new) >= ExtEnd(e) THEN <<head>>
             ELSE <<head, TrimFront(e, ExtEnd(new) - e.fileoffset)>>
    ELSE <<e>>

\* new starts in the block after the last one of e: both can be one extent.
Contiguous(e, new) ==
    LET last == e.byteoffset + e.bytecount
    IN  /\ ExtEnd(e) = new.fileoffset
        /\ e.partition = new.partition
        /\ last % blocksize = 0
        /\ e.block + (last \div blocksize) = new.block
        /\ new.byteoffset = 0

\* The walk from the last extent to the first that makes room for new and
\* puts it in its place.
RECURSIVE AddExtentAt(_, _, _)
AddExtentAt(list, i, new) ==
    IF i = 0 THEN <<new>> \o list
    ELSE LET left  == Remains(list[i], new)
             cut   == Take(list, i - 1) \o left \o Drop(list, i)
         IN  IF left = <<>> THEN AddExtentAt(cut, i - 1, new)
             ELSE IF Contiguous(left[1], new)
             THEN [cut EXCEPT ![i].bytecount = @ + new.bytecount]
             ELSE IF new.fileoffset >= ExtEnd(left[1])
             THEN InsertAt(cut, i + 1, new)
             ELSE AddExtentAt(cut, i - 1, new)

AddExtent(list, new) == AddExtentAt(list, Len(list), new)

\* mutant of RealsizeAfter: overwritten bytes still counted
RealsizeOnlyGrows(rs, list, new) == rs + new.bytecount

\* realsize follows the list: what the walk cut off is subtracted, what it
\* added is added.
RealsizeAfter(rs, list, new) ==
    LET gone(e) == e.bytecount - FoldLeft(LAMBDA a, r: a + r.bytecount, 0, Remains(e, new))
    IN  rs - FoldLeft(LAMBDA a, e: a + gone(e), 0, list) + new.bytecount

\* Adding an extent also lets the file grow.
State(list, sz, rs) == [list |-> list, size |-> sz, realsize |-> rs]
PushExtent(s, new) ==
    State(AddExtent(s.list, new),
          IF ExtEnd(new) > s.size THEN ExtEnd(new) ELSE s.size,
          RealsizeAfter(s.realsize, s.list, new))

\* ltfs_fsraw_truncate on the list: the walk stops at the first extent that
\* ends before the new size.
RECURSIVE CutExtents(_, _)
CutExtents(list, len) ==
    IF list = <<>> THEN list
    ELSE LET e == Last(list)
         IN  IF e.fileoffset >= len \/ len = 0 THEN CutExtents(Front(list), len)
             ELSE IF ExtEnd(e) > len
             THEN Append(CutExtents(Front(list), len),
                         [e EXCEPT !.bytecount = len - e.fileoffset])
             ELSE list

Bytecount(list) == FoldLeft(LAMBDA a, e: a + e.bytecount, 0, list)

\* _unified_update_alt_extentlist: a walk from the first extent.  An extent
\* that new lies strictly inside is left whole; new comes after it and so
\* takes effect later.
RECURSIVE UpdateAltAt(_, _, _, _)
UpdateAltAt(list, i, new, used) ==
    IF i > Len(list) THEN IF used THEN list ELSE Append(list, new)
    ELSE LET ins == ~used /\ new.fileoffset <= list[i].fileoffset
             l   == IF ins THEN InsertAt(list, i, new) ELSE list
             j   == IF ins THEN i + 1 ELSE i
             u   == used \/ ins
             e   == l[j]
         IN  CASE ExtEnd(e) < new.fileoffset -> UpdateAltAt(l, j + 1, new, u)
               [] ExtEnd(e) = new.fileoffset ->
                    IF Contiguous(e, new)
                    THEN UpdateAltAt([l EXCEPT ![j].bytecount = @ + new.bytecount],
                                     j + 1, new, TRUE)
                    ELSE UpdateAltAt(l, j + 1, new, u)
               [] ExtEnd(e) > new.fileoffset /\ e.fileoffset < new.fileoffset ->
                    IF ExtEnd(e) <= ExtEnd(new)
                    THEN UpdateAltAt([l EXCEPT ![j].bytecount = new.fileoffset - e.fileoffset],
                                     j + 1, new, u)
                    ELSE UpdateAltAt(l, j + 1, new, u)
               [] e.fileoffset >= new.fileoffset /\ ExtEnd(e) <= ExtEnd(new)
                    /\ ExtEnd(e) > new.fileoffset ->
                    UpdateAltAt(RemoveAt(l, j), j, new, u)
               [] e.fileoffset >= new.fileoffset /\ ExtEnd(e) > ExtEnd(new)
                    /\ e.fileoffset < ExtEnd(new) ->
                    UpdateAltAt([l EXCEPT ![j] = TrimFront(e, ExtEnd(new) - e.fileoffset)],
                                j + 1, new, u)
               [] OTHER -> IF u THEN l ELSE Append(l, new)

\* mutant of UpdateAlt: the newest copy is put first, so that older ones win
UpdateAltFront(list, new) == <<new>> \o list

UpdateAlt(list, new) == IF list = <<>> THEN <<new>> ELSE UpdateAltAt(list, 1, new, FALSE)

\* unified_truncate on the alternate list: no order is assumed.
CutAlt(list, len) ==
    LET kept == SelectSeq(list, LAMBDA e: e.fileoffset < len)
    IN  [i \in DOMAIN kept |->
            IF ExtEnd(kept[i]) > len
            THEN [kept[i] EXCEPT !.bytecount = len - kept[i].fileoffset] ELSE kept[i]]

(***************************************************************************)
(* Write requests: [offset, data, state], state PARTIAL, DP or IP.         *)
(***************************************************************************)
ReqEnd(r) == r.offset + Len(r.data)

\* _unified_update_request: bytes of buf that fit in request i's block.  A
\* request that fills its block becomes ready, and so do the partial ones
\* before the written offset.
FitCount(r, off, buf) == Lesser(r.offset + blocksize - off, Len(buf))

UpdateRequest(l, i, off, buf) ==
    LET r    == l[i]
        n    == FitCount(r, off, buf)
        data == Take(r.data, off - r.offset) \o Take(buf, n) \o Drop(r.data, off - r.offset + n)
        l1   == [l EXCEPT ![i].data = data]
    IN  IF r.state = "PARTIAL" /\ Len(data) = blocksize
        THEN [k \in DOMAIN l1 |-> IF l1[k].state = "PARTIAL" /\ l1[k].offset <= off
                                  THEN [l1[k] EXCEPT !.state = "DP"] ELSE l1[k]]
        ELSE l1

\* _unified_insert_new_request: a request for the first block of buf, before
\* position i of the list.
NewRequest(off, buf, ip) ==
    LET data == Take(buf, Lesser(Len(buf), blocksize))
    IN  [offset |-> off, data |-> data,
         state |-> IF ip THEN "IP" ELSE IF Len(data) = blocksize THEN "DP" ELSE "PARTIAL"]

\* _unified_merge_requests(l[p], l[i]), p = 0 for no previous request: bytes
\* move to the earlier request while it has room, overlapping ones are
\* dropped.  The result says whether request i was left alone, changed or
\* removed.
MergeRequests(l, p, i) ==
    IF p = 0 \/ l[i].offset > ReqEnd(l[p]) THEN [l |-> l, did |-> 0]
    ELSE LET dest == l[p]
             src  == l[i]
             over == ReqEnd(dest) - src.offset
             move == /\ dest.state = src.state \/ "IP" \notin {dest.state, src.state}
                     /\ Len(dest.data) < blocksize
                     /\ Len(src.data) > over
             buf  == Drop(src.data, over)
             n    == IF move THEN FitCount(dest, src.offset + over, buf) ELSE 0
             l1   == IF move THEN UpdateRequest(l, p, src.offset + over, buf) ELSE l
             cut  == over + n
         IN  IF cut <= 0 THEN [l |-> l1, did |-> 0]
             ELSE IF cut < Len(src.data)
             THEN [l |-> [l1 EXCEPT ![i] =
                            [offset |-> src.offset + cut, data |-> Drop(src.data, cut),
                             state |-> IF @.state = "DP" THEN "PARTIAL" ELSE @.state]],
                   did |-> 1]
             ELSE [l |-> RemoveAt(l1, i), did |-> 2]

\* unified_write on the request list.  AppendRequests: past the last request.
RECURSIVE AppendRequests(_, _, _)
AppendRequests(l, off, buf) ==
    IF buf = <<>> THEN l
    ELSE LET r == NewRequest(off, buf, FALSE)
         IN  AppendRequests(Append(l, r), off + Len(r.data), Drop(buf, Len(r.data)))

\* Requests before position i, until the write reaches that request.
RECURSIVE InsertBefore(_, _, _, _, _)
InsertBefore(l, i, p, off, buf) ==
    IF buf = <<>> \/ off >= l[i].offset
    THEN [l |-> l, i |-> i, p |-> p, off |-> off, buf |-> buf]
    ELSE LET r == NewRequest(off, buf, FALSE)
         IN  InsertBefore(InsertAt(l, i, r), i + 1, i, off + Len(r.data), Drop(buf, Len(r.data)))

\* The walk: request i is next, p is the previous request it may merge into,
\* buf is still to be written at off.  A request that ends before off is
\* skipped.
RECURSIVE WriteFrom(_, _, _, _, _), WriteAt(_, _, _, _, _), WriteRequests(_, _, _)
WriteFrom(l, i, p, off, buf) ==
    IF i > Len(l) THEN IF buf = <<>> THEN l ELSE WriteRequests(l, off, buf)
    ELSE IF off > ReqEnd(l[i]) THEN WriteFrom(l, i + 1, p, off, buf)
    ELSE WriteAt(l, i, p, off, buf)

WriteAt(l0, i0, p0, off0, buf0) ==
    LET w   == InsertBefore(l0, i0, p0, off0, buf0)
        m   == MergeRequests(w.l, w.p, w.i)
        l   == m.l
        i   == w.i
        off == w.off
        buf == w.buf
        r   == l[i]
        n   == FitCount(r, off, buf)
        \* the request has been dealt with: go on to the next one, or stop
        Step(ll, oo, bb, merged) ==
            IF bb = <<>> /\ ~merged THEN ll ELSE WriteFrom(ll, i + 1, i, oo, bb)
    IN  IF m.did = 2 THEN WriteFrom(l, i, w.p, off, buf)
        ELSE IF buf = <<>> THEN Step(l, off, buf, m.did # 0)
        ELSE IF off < r.offset THEN WriteAt(l, i, w.p, off, buf)
        ELSE IF /\ r.state # "IP"
                /\ \/ off < ReqEnd(r)
                   \/ off = ReqEnd(r) /\ Len(r.data) < blocksize
        THEN Step(UpdateRequest(l, i, off, buf), off + n, Drop(buf, n), TRUE)
        ELSE IF r.state = "IP" /\ off < ReqEnd(r)
        THEN IF off = r.offset /\ Len(buf) >= Len(r.data)
             THEN WriteFrom(RemoveAt(l, i), i, w.p, off, buf)
             ELSE IF off = r.offset
             THEN WriteAt([l EXCEPT ![i].offset = @ + Len(buf), ![i].data = Drop(@, Len(buf))],
                          i, w.p, off, buf)
             ELSE LET head == [l EXCEPT ![i].data = Take(@, off - r.offset)]
                      skip == off - r.offset + Len(buf)
                  IN  IF off + Len(buf) >= ReqEnd(r) THEN Step(head, off, buf, m.did # 0)
                      ELSE WriteAt(InsertAt(head, i + 1,
                                       NewRequest(r.offset + skip, Drop(r.data, skip), TRUE)),
                                   i + 1, w.p, off, buf)
        ELSE Step(l, off, buf, m.did # 0)

\* do_append: the fast path for a write at or past the end of the list, which
\* first fills up the last request.
WriteRequests(l, off, buf) ==
    LET end == IF l = <<>> THEN 0 ELSE ReqEnd(Last(l))
        k   == Len(l)
    IN  IF off < end THEN WriteFrom(l, 1, 0, off, buf)
        ELSE IF /\ k > 0 /\ off = end
                /\ Len(l[k].data) < blocksize /\ l[k].state # "IP"
        THEN LET n == FitCount(l[k], off, buf)
             IN  AppendRequests(UpdateRequest(l, k, off, buf), off + n, Drop(buf, n))
        ELSE AppendRequests(l, off, buf)

(***************************************************************************)
(* Reading                                                                 *)
(***************************************************************************)
\* The byte of extent e at file offset p, from its block on tape.
TapeByte(e, p) ==
    LET at == p - e.fileoffset + e.byteoffset
    IN  tape[e.partition][e.block + (at \div blocksize)][1 + (at % blocksize)]

\* ltfs_fsraw_read: bytes of the extents in list order, zeros between them and
\* up to the file size.
RawEnd == Max({size} \cup {ExtEnd(extentlist[k]) : k \in DOMAIN extentlist})
RawByte(p) ==
    LET in == {k \in DOMAIN extentlist :
                   extentlist[k].fileoffset <= p /\ p < ExtEnd(extentlist[k])}
    IN  IF in = {} THEN 0 ELSE TapeByte(extentlist[Min(in)], p)
RawRead(off, n) == [i \in 1..Lesser(n, RawEnd - off) |-> RawByte(off + i - 1)]

\* unified_read: cached bytes first, the tape for the holes before a request
\* (zeros where the tape has less) and for what follows the last request.
RECURSIVE ReadFrom(_, _, _)
ReadFrom(l, off, n) ==
    IF n = 0 THEN <<>>
    ELSE IF l = <<>> THEN RawRead(off, n)
    ELSE LET r == Head(l)
         IN  IF off < r.offset
             THEN LET k   == Lesser(r.offset - off, n)
                      raw == RawRead(off, k)
                  IN  raw \o Zeros(k - Len(raw)) \o ReadFrom(l, off + k, n - k)
             ELSE IF off < ReqEnd(r)
             THEN LET k == Lesser(ReqEnd(r) - off, n)
                  IN  SubSeq(r.data, off - r.offset + 1, off - r.offset + k)
                      \o ReadFrom(Tail(l), off + k, n - k)
             ELSE ReadFrom(Tail(l), off, n)
Read(off, n) == ReadFrom(requests, off, n)

(***************************************************************************)
(* Steps                                                                   *)
(***************************************************************************)
File == State(extentlist, size, realsize)
SetFile(s) == /\ extentlist' = s.list
              /\ size' = s.size
              /\ realsize' = s.realsize

\* One request goes to a partition of the tape as one block.
Extent(part, r, blocks) ==
    [partition |-> part, block |-> Len(blocks) + 1, byteoffset |-> 0,
     bytecount |-> Len(r.data), fileoffset |-> r.offset]

DpRequests(l) == SelectSeq(l, LAMBDA r: r.state # "IP")

\* _unified_flush_unlocked (all = TRUE) and _unified_process_data_queue: the
\* requests from position i on go to the DP; those of an IP file stay cached
\* for the IP, joined to the one before.
RECURSIVE ProcessData(_, _, _, _, _)
ProcessData(l, i, s, blocks, all) ==
    IF i > Len(l) THEN [l |-> l, s |-> s, blocks |-> blocks]
    ELSE LET r    == l[i]
             Join(ll) == LET m == MergeRequests(ll, i - 1, i)
                         IN  [l |-> m.l, i |-> IF m.did = 2 THEN i ELSE i + 1]
         IN  IF r.state = "IP"
             THEN LET j == Join(l) IN ProcessData(j.l, j.i, s, blocks, all)
             ELSE IF r.state = "PARTIAL" /\ ~all
             THEN ProcessData(l, i + 1, s, blocks, all)
             ELSE LET s1 == PushExtent(s, Extent("DP", r, blocks))
                      b1 == Append(blocks, r.data)
                  IN  IF writeip
                      THEN LET j == Join([l EXCEPT ![i].state = "IP"])
                           IN  ProcessData(j.l, j.i, s1, b1, all)
                      ELSE ProcessData(RemoveAt(l, i), i, s1, b1, all)

\* _unified_process_index_queue: the IP requests go to the IP and their
\* extents to the alternate list.  Without space the remaining ones are
\* dropped (_unified_handle_write_error): the DP has the bytes.
RECURSIVE ProcessIndex(_, _, _)
ProcessIndex(l, a, blocks) ==
    LET ips == {k \in DOMAIN l : l[k].state = "IP"}
    IN  IF ips = {} THEN [l |-> l, alt |-> a, blocks |-> blocks, full |-> FALSE]
        ELSE IF Len(blocks) >= IpBlocks
        THEN [l |-> DpRequests(l), alt |-> a, blocks |-> blocks, full |-> TRUE]
        ELSE LET k == Min(ips)
             IN  ProcessIndex(RemoveAt(l, k), UpdateAlt(a, Extent("IP", l[k], blocks)),
                              Append(blocks, l[k].data))

\* _unified_get_dentry_priv: what a new dentry_priv starts with.
PrivSize == IF priv THEN fsize ELSE size
PrivIp   == IF priv THEN writeip ELSE MaxIpSize > 0 /\ size <= MaxIpSize

\* Bytes that a request of the list holds, and bytes that two of them hold.
Holders(l, p) == {k \in DOMAIN l : l[k].offset <= p /\ p < ReqEnd(l[k])}
Held(l) == {p \in Offsets : Holders(l, p) # {}}
Apart(l) == \A k \in 1 .. Len(l) - 1 : ReqEnd(l[k]) <= l[k + 1].offset
Shared(l) == IF Apart(l) THEN {} ELSE {p \in Offsets : Cardinality(Holders(l, p)) > 1}

UnifiedWrite(off, n) ==
    LET buf   == [i \in 1..n |-> writes + 1]
        unset == PrivIp /\ (off + n > MaxIpSize \/ ipfull)
        old   == IF unset THEN DpRequests(requests) ELSE requests
    IN  /\ up
        /\ writes < MaxWrites
        /\ requests' = WriteRequests(old, off, buf)
        /\ stale' = (stale \ (off .. off + n - 1))
                    \cup IF Apart(requests) THEN {} ELSE Shared(requests) \cup Shared(requests')
        /\ alt' = IF unset THEN <<>> ELSE alt
        /\ writeip' = (PrivIp /\ ~unset)
        /\ fsize' = Max({PrivSize, off + n})
        /\ priv' = TRUE
        /\ content' = [i \in 1..Max({Len(content), off + n}) |->
                          IF i \in off + 1 .. off + n THEN writes + 1
                          ELSE IF i <= Len(content) THEN content[i] ELSE 0]
        /\ writes' = writes + 1
        /\ UNCHANGED <<extentlist, size, realsize, tape, ipfull, up, truncates>>

\* mutant of CutRequests: a request across the new end keeps its bytes
CutRequestsWhole(l, len) == SelectSeq(l, LAMBDA r: r.offset < len)

\* unified_truncate on the request list, from its end.
RECURSIVE CutRequests(_, _)
CutRequests(l, len) ==
    IF l = <<>> THEN l
    ELSE IF Last(l).offset >= len THEN CutRequests(Front(l), len)
    ELSE IF ReqEnd(Last(l)) > len
    THEN Append(CutRequests(Front(l), len),
                [Last(l) EXCEPT !.data = Take(@, len - Last(l).offset)])
    ELSE l

RawTruncate(len) ==
    LET cut == IF len < size THEN CutExtents(extentlist, len) ELSE extentlist
    IN  SetFile(State(cut, len, realsize - (Bytecount(extentlist) - Bytecount(cut))))

UnifiedTruncate(len) ==
    LET cutq  == IF len < fsize THEN CutRequests(requests, len) ELSE requests
        cuta  == IF len < fsize THEN CutAlt(alt, len) ELSE alt
        unset == writeip /\ len > MaxIpSize
    IN  /\ up
        /\ truncates < MaxTruncates
        /\ requests' = IF priv THEN IF unset THEN DpRequests(cutq) ELSE cutq ELSE requests
        /\ alt' = IF priv THEN IF unset THEN <<>> ELSE cuta ELSE alt
        /\ fsize' = IF priv THEN len ELSE fsize
        /\ writeip' = IF priv THEN (writeip \/ (MaxIpSize > 0 /\ len = 0)) /\ ~unset
                      ELSE writeip
        /\ RawTruncate(len)
        /\ content' = [i \in 1..len |-> IF i <= Len(content) THEN content[i] ELSE 0]
        /\ stale' = stale \cup IF Apart(requests) THEN {} ELSE {p \in Held(requests) : p >= len}
        /\ truncates' = truncates + 1
        /\ UNCHANGED <<priv, tape, ipfull, up, writes>>

\* unified_flush, and the writer thread on the DP queue (all = FALSE) or, under
\* cache pressure, on the working set too (all = TRUE).
Flush(all) ==
    LET p == ProcessData(requests, 1, File, tape["DP"], all)
    IN  /\ up
        /\ requests # <<>>
        /\ requests' = p.l
        /\ SetFile(p.s)
        /\ tape' = [tape EXCEPT !["DP"] = p.blocks]
        /\ stale' = stale \cup Shared(requests)
        /\ UNCHANGED <<alt, fsize, writeip, priv, ipfull, up, content,
                       writes, truncates>>

FlushIndex ==
    LET p == ProcessIndex(requests, alt, tape["IP"])
        ends == {ReqEnd(p.l[k]) : k \in DOMAIN p.l}
    IN  /\ up
        /\ \E k \in DOMAIN requests : requests[k].state = "IP"
        /\ requests' = p.l
        /\ alt' = p.alt
        /\ tape' = [tape EXCEPT !["IP"] = p.blocks]
        /\ ipfull' = (ipfull \/ p.full)
        /\ fsize' = IF p.full THEN Max({size} \cup ends) ELSE fsize
        /\ stale' = stale \cup Shared(requests)
        /\ UNCHANGED <<extentlist, writeip, priv, size, realsize, up, content,
                       writes, truncates>>

\* unified_close: flush, then _unified_free_dentry_priv_conditional.
Close ==
    LET p == ProcessData(requests, 1, File, tape["DP"], TRUE)
        free == p.l = <<>> /\ alt = <<>>
    IN  /\ up
        /\ priv
        /\ requests' = p.l
        /\ SetFile(p.s)
        /\ tape' = [tape EXCEPT !["DP"] = p.blocks]
        /\ priv' = ~free
        /\ fsize' = IF free THEN 0 ELSE fsize
        /\ writeip' = (writeip /\ ~free)
        /\ stale' = stale \cup Shared(requests)
        /\ UNCHANGED <<alt, ipfull, up, content,
                       writes, truncates>>

\* unified_destroy: everything to the DP, IP requests to the IP, and the IP
\* copies of an IP file take effect (_unified_free_dentry_priv).
Destroy ==
    LET p == ProcessData(requests, 1, File, tape["DP"], TRUE)
        q == ProcessIndex(p.l, alt, tape["IP"])
        save == writeip /\ q.alt # <<>>
    IN  /\ up
        /\ up' = FALSE
        /\ requests' = q.l
        /\ alt' = IF save THEN <<>> ELSE q.alt
        /\ SetFile(IF save THEN FoldLeft(PushExtent, p.s, q.alt) ELSE p.s)
        /\ tape' = [tape EXCEPT !["DP"] = p.blocks, !["IP"] = q.blocks]
        /\ ipfull' = (ipfull \/ q.full)
        /\ stale' = stale \cup Shared(requests)
        /\ UNCHANGED <<fsize, writeip, priv, content, writes, truncates>>

Init ==
    /\ blocksize \in BlockSizes
    /\ requests = <<>> /\ extentlist = <<>> /\ alt = <<>>
    /\ fsize = 0 /\ writeip = FALSE /\ priv = FALSE
    /\ size = 0 /\ realsize = 0
    /\ tape = [p \in {"DP", "IP"} |-> <<>>]
    /\ ipfull = FALSE /\ up = TRUE
    /\ content = <<>> /\ stale = {}
    /\ writes = 0 /\ truncates = 0

Next ==
    /\ UNCHANGED blocksize
    /\ \/ \E off \in Offsets, n \in WriteSizes : off + n <= MaxSize /\ UnifiedWrite(off, n)
       \/ \E len \in TruncateSizes : UnifiedTruncate(len)
       \/ \E all \in BOOLEAN : Flush(all)
       \/ FlushIndex
       \/ Close
       \/ Destroy

Spec == Init /\ [][Next]_vars
-----------------------------------------------------------------------------
IsExtent(e) ==
    /\ e.partition \in {"DP", "IP"}
    /\ e.block \in 1..Len(tape[e.partition])
    /\ e.byteoffset \in 0..blocksize - 1
    /\ e.bytecount \in Nat \ {0}
    /\ e.fileoffset \in Nat

\* State has the shape the code keeps.
TypeOK ==
    /\ \A k \in DOMAIN requests :
          /\ requests[k].offset \in Offsets
          /\ Len(requests[k].data) \in 1..blocksize
          /\ requests[k].state \in {"PARTIAL", "DP", "IP"}
    /\ \A k \in DOMAIN extentlist : IsExtent(extentlist[k])
    /\ \A k \in DOMAIN alt : IsExtent(alt[k]) /\ alt[k].partition = "IP"
    /\ fsize \in Nat /\ size \in Nat /\ realsize \in Nat
    /\ {writeip, priv, ipfull, up} \subseteq BOOLEAN

\* got is what want says, byte for byte and in length, but for the bytes of
\* stale: those that two requests held at once when one of them was written
\* out, cut or written over, which is where the code can bring old bytes back.
\* got and want start at offset off of the file.
Exact(got, off, want) ==
    got = want \/ \A i \in DOMAIN got \cup DOMAIN want :
        \/ off + i - 1 \in stale
        \/ i \in DOMAIN got \cap DOMAIN want /\ got[i] = want[i]

\* Any read, at any offset and of any length, returns what was last written
\* there, zeros where nothing was, and stops at the end of the file, whatever
\* mix of cached requests, extents and holes the range covers, and also while
\* requests overlap.  Of a file whose overlapping requests were processed only
\* the bytes they shared are left out, until they are written again.
ReadsExact ==
    up =>
        \A off \in Offsets : \A n \in 1 .. MaxSize + 1 - off :
            Exact(Read(off, n), off, SubSeq(content, off + 1, Lesser(off + n, Len(content))))

\* When no request is waiting for the data partition, the extent list alone
\* gives the whole file but for its stale bytes: what a flush or a close
\* reports as written is.
OnTape == Exact(RawRead(0, MaxSize + 1), 0, content)
Flushed == \A k \in DOMAIN requests : requests[k].state = "IP"
FlushedIsOnTape == up /\ Flushed => OnTape

\* After unmount the extent list, with the IP copies of an IP file in force,
\* gives the whole file, and the size is the file's unless its last byte is
\* stale.
DestroySaves ==
    ~up => OnTape /\ (size = Len(content) \/ Max({size, Len(content)}) - 1 \in stale)

\* The comment of unified_write's walk: "Resolve any overlap between the
\* requests using bytes from the previous request".  The newest bytes are the
\* ones a flush puts on tape, stale ones included.
NewestBytesWin == up /\ Flushed => RawRead(0, MaxSize + 1) = content

\* The extents of a file never overlap, are in file order, lie within blocks
\* that are on tape and long enough, and add up to the size on tape that
\* d->realsize reports.
ExtentsSound ==
    /\ \A k \in 1..Len(extentlist) - 1 : ExtEnd(extentlist[k]) <= extentlist[k + 1].fileoffset
    /\ \A k \in DOMAIN extentlist :
          LET e == extentlist[k]
              last == e.byteoffset + e.bytecount - 1
              b == e.block + (last \div blocksize)
          IN  /\ b \in DOMAIN tape[e.partition]
              /\ last % blocksize < Len(tape[e.partition][b])
              /\ \A c \in e.block .. b - 1 : Len(tape[e.partition][c]) = blocksize
    /\ realsize = Bytecount(extentlist)
=============================================================================
