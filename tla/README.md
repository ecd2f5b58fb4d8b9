# TLA+ verification of LTFS

LTFS presents a tape cartridge as a file system. The cartridge has two
partitions: file data goes to the *data partition* (DP), and small files that
match a rule also go to the *index partition* (IP). The directory tree is kept
in memory and written to tape as an *index*, a document that lists every file
with the blocks (extents) that hold its data. This directory holds TLA+ models
of LTFS from the FUSE callbacks down to the tape drivers, the TLC
configurations that check them, and TLAPS proofs.

Paths below are relative to `src/ltfs/src/`.

## 1. Inventory

| Component | State | Operations | Interacts with |
|---|---|---|---|
| Multi-reader single-writer lock, `libltfs/ltfs_locking.h` | three mutexes, reader count, writer and long-lock flags | acquire for read (blocking, short), for write (blocking, long, try), downgrade, release | every volume, every dentry and the scheduler use it |
| Unified I/O scheduler, `iosched/unified.c` | per file: request list, queue memberships, recorded error, placement flag, alternate extents; global: three queues with counters, extent queue, cache pool, writer thread | open, write, read, flush, truncate, close, rename and unlink (placement), flush of everything, destroy; the writer thread | FUSE callbacks above; raw file operations below; shares files with a background thread |
| Raw file operations, `libltfs/ltfs_fsops_raw.c` | extent lists of dentries | write data, add extent, read, truncate | scheduler above, tape layer below |
| Volume and index commit, `libltfs/ltfs.c`, `libltfs/ltfs_internal.c` | current index with generation, self and back pointer, dirty flag; which partitions end in an index; coherency attributes in the cartridge memory | format, mount, full check with repair, write index, conditional write, sync, unmount, walks over the generations | raw file operations ask for an index before data; the utilities call the repair |
| Revalidation, `libltfs/ltfs.c` | `reval` state, fence | wait, revalidate, take volume lock | every operation that meets a unit attention |
| Directory tree, `libltfs/fs.c`, `libltfs/ltfs_fsops.c` | dentries, handle and link counts, name tables, two locks each, rename lock | lookup, allocate, release, create, unlink, rename, open, getattr | FUSE above; the index is written from it |
| Index and label documents, `libltfs/xml_*.c`, `libltfs/xattr.c` | document, unknown tags, uids, extended attributes | write, parse, cut into blocks, set and get attributes, split of symlink conflicts | volume, tape layer |
| Tape layer, `libltfs/tape.c` | position, append position, space and error state per partition, fence, reservation, medium lock | write, write file mark, seek, read, format, attributes, end-of-data recovery | one drive, through a backend |
| File backend, `tape_drivers/generic/file` | a directory of record files | the operations of `struct tape_ops` | tape layer |
| Drivers `linux/ibmtape`, `osx/iokit`, `osx/ltotape` with `linux/ltotape` | what the driver remembers of the drive | the operations of `struct tape_ops` | tape layer above, a SCSI drive below |
| Utilities, `utils/` | | mkltfs, ltfsck, unltfs | volume |
| Cache pool, FCFS scheduler, periodic sync, FUSE layer, placement rules, path names, keys, configuration, logging | | | `PROJECT.json`, and section 13 |

### Behaviours that are hard

* The lock is assembled from three mutexes, and a writer can turn its lock into
  a read lock while readers and writers are arriving.
* The scheduler's writer thread takes requests off a file's list into a private
  list, drops its locks and writes; clients read, flush, truncate, unlink and
  close the file meanwhile. Writers wait for cache blocks that only this thread
  can free. Errors happen in the background and must reach some later call.
* Cached requests, extents and alternate extents of one file are cut at block
  and file boundaries by five different pieces of arithmetic.
* An index is not written atomically, and on the IP it overwrites its
  predecessor. What a crash leaves has to be enough for the next mount, which
  either trusts two attributes in the cartridge memory or reads both
  partitions. `ltfs_sync_index` decides under one lock and acts under another.
* A drive may fail a write for good or announce that a partition is nearly full,
  and each driver learns of that in another way.
* A unit attention (reset, changed cartridge) is told to one command only. It has
  to survive the driver, stop every thread and be followed by a check that the
  cartridge and its end of data are what they were.
* A path operation locks several dentries one after the other, and another thread
  may rename, remove and free any of them in between.
* An index written by another implementation, or one of another version, comes
  back with tags nobody knows, conflicts and holes, and has to survive a rewrite.

`PROJECT.json` lists these as hazards, each at its line, with the properties that
would catch them going wrong.

## 2. Modules

| Module | Stands for |
|---|---|
| `RWLock` | the lock as its users see it: abstract specification |
| `Mrsw`, `MrswProofs`, `MCMrsw` | the lock of `ltfs_locking.h`, one step per mutex call; theorems; instance |
| `Unified`, `MCUnified` | the scheduler, its clients and its writer thread; uses the volume-wide lock in the form of `RWLock` |
| `UnifiedInductive`, `UnifiedSteps`, `UnifiedProofs` | proofs: the inductive invariant and the hypotheses; what the scheduler does to the requests of files; the steps of clients and writer thread, and theorems |
| `FileBytes` | the bytes of one file: request list, extent lists, blocks |
| `IndexStore` | a store whose contents are committed atomically: abstract specification |
| `IndexCommit`, `MCIndexCommit` | index writes, data writes, sync, unmount, crash, mount and repair |
| `IndexCommitSteps`, `IndexCommitProofs` | proofs: what is on the tape and what a check of it finds, the inductive invariant and the writes; mounts and theorems |
| `Revalidation` | threads of libltfs, unit attentions, the fence and `ltfs_revalidate`; uses `RWLock` |
| `RevalidationProofs` | proofs: types, locks, fence and command lists; positions, losses and theorems |
| `Tree`, `MCTree` | dentries, their counts and locks, under path operations and the FUSE file table |
| `TreeInductive`, `TreeSteps`, `TreeProofs` | proofs: the inductive invariant; handles, locks and lookups; renames, changes of name tables and theorems |
| `FileDrive` | the file backend |
| `TapeLayer` (extends `FileDrive`) | `tape.c` on the file backend |
| `LtfsVolume` (extends `TapeLayer`) | the functions of the volume, of mkltfs, ltfsck and unltfs |
| `TapeVolume`, `MCTapeVolume` (extend `LtfsVolume`) | processes that run them on a cartridge, errors and crashes |
| `ScsiDrive` | a tape drive with sense data, unit attentions and faults; external |
| `Ibmtape`, `Iokit`, `Ltotape` (extend `ScsiDrive`) | the three drivers |
| `DriveSession`, `MCDriveSession` | `tape.c` on any driver: the operations of `struct tape_ops` are constants |
| `TapeOps` | the handler tables: values of those constants, from the three drivers |
| `IndexXml` | index and label documents, their reader and writer, blocks |
| `IndexOps` (extends `IndexXml`) | reading an index, changes through the tree and extended attributes, ltfsck's split |
| `IndexFormat`, `MCIndexFormat` (extend `IndexOps`) | mounts, changes, writing and losing the memory |

Three modules model `tape.c` or `ltfs.c` from different sides: `IndexCommit` has every
interleaving of two steps of an index write but no block numbers of labels; `TapeVolume`
has every file of the cartridge but one thread; `Revalidation` has several threads and a
tape in between. `DriveSession` leaves the volume out altogether.

Operators whose name has a suffix such as `_NoIoLock`, or a name such as `GuessPosition`
that says what it gets wrong, are variants of the operator defined after them with a
plausible mistake in it. They are used by no specification; with one of them in place of
the original the named property fails (`mutants` in `PROJECT.json`).

In the modules that model sequential code (`FileDrive`, `TapeLayer`, `LtfsVolume`, the
drivers, `DriveSession`) a C function is an operator from a state record to a state
record with a return code `rc`; a fault falls at one of the file system calls or SCSI
commands made on the way, counted down in `left`. An action applies one such operator.

The state machines of sections 9 and 10 take these operators as CONSTANTS, in the way the
code takes a driver as a table of function pointers: `backend_write` of `DriveSession` is the
entry `write` of `struct tape_ops`, `mkltfs` of `TapeVolume` the program of that name, `read_index`
of `IndexFormat` the function libltfs calls. The configuration names the operator for each
(`ops_write`, `format_tape`, `ltfs_read_index`, ...).

## 3. The lock: Mrsw and RWLock

`Mrsw` keeps the mutexes, `read_count`, `writer` and `long_lock` of the struct.
`pc` says where a thread is in the function named by `op`. `reading_mutex` is a
flag and not an owner because the first reader locks it and the last one unlocks
it. Plain assignments between two mutex calls are one step; those made under no
mutex that another thread reads (`writer` in `release_mrsw`) are steps of
their own. `RWLock` has one variable, what each thread holds, and the mapping is
`heldMap`.

Checked (`mrsw`, three threads, no symmetry because liveness is checked): `IInv`, the
inductive invariant of section 11; `MutualExclusion`; `DowngradePremise`, the argument
written in `writetoread_mrsw` that at most one reader can be waiting inside; `Implements`,
that `Mrsw` is a refinement of `RWLock`; and `Granted`, that every blocking call returns.
Three threads give two readers and a writer, or two writers and a reader that
downgrades; a fourth would only repeat one of these roles. `ReleaseTellsWriter`, that
`release_mrsw` may decide from the flag alone, is proved in `LockSafe`.

Fairness: `SF` on the steps of each thread, that is, mutexes that do not starve a
waiter for ever. Without it `Granted` fails for any lock built from mutexes.

## 4. The scheduler: Unified

A step is a critical section of `unified.c`. Locks are named as in the code:
`held` is `priv->lock` (an `RWLock`), `iosched_lock` and `io_lock` belong to a
file. `queue_lock`, `cache_lock` and `write_error_lock` protect parts of single
steps and are left out; releases, and acquisitions that no other step can
disturb, are merged with their neighbours. The record `s` is what the locks
protect: `dpr` (the `dentry_priv`), `queue`, `count`, `ext_queue`, `free` blocks,
the file contents on `tape`, and the state of the drive. `w` is the writer
thread with its private list `w.local`.

Clients append and truncate to nothing; offsets in the middle are `FileBytes`' subject.
Offsets are in half cache blocks, so a write fills a block or leaves a partial one. Each
write has a number and data is the set of writes it consists of. Request lists keep their
order; the order between files in a queue is left open.

`tape_write` is called for data with `ignore_nospc` and without `ignore_less`, so
the failures a data write can report are: less space (persistent for the
partition), a hard error (`write_error`, both partitions), and a transient one.

| Run | Instance | Question |
|---|---|---|
| `unified_files` | 2 clients, 1 file, 2 blocks, 3 writes, 1 truncation | `ReadSeesWrites`, `NoResurrection`: do reads, truncation and closing see the right data around the private list |
| `unified_live` | 2 clients, 1 file on the IP with limit 3, 2 blocks, 3 writes, destroy | `CallsReturn`, `SavedAtDestroy`: does every call return when the pool is exhausted, and does shutdown end with everything on tape |
| `unified_placement` | 2 clients, 1 file on the IP with limit 4, 2 blocks, 3 writes, 1 rename or unlink, 1 failure of any kind, flush of everything | `CountersExact` (queue counters and `ext_queue`), `NoSilentLoss`, `FlushAllComplete`: do counters, data and errors survive moves into and out of the IP |
| `unified_v_close` | 1 client, 1 write, 1 transient error, close | violation of `NoSilentLoss`: the last close tests for an error and frees the `dentry_priv` while the write that will fail is under way; nobody hears of it |

Two clients and the writer thread are three actors on one file, the smallest
number at which a client overtakes another client's wait on the writer. A pool of
two blocks is exhausted by two full writes; three writes make a request list with
a full, a partial and a filled-up request; a file of four half blocks grows past
its limit with two full writes and one more.

Fairness (`FairSpec`): weak fairness for a running thread, strong fairness for
taking locks. For `priv->lock` this is `Granted` of the lock; for the others it is
fair mutexes.

Passing runs leave out combinations in which the code does not have the
property; these are described in section 12: truncation of files on the IP, unlink
together with close, faults together with close, faults together with an exhausted pool.

## 5. The bytes of a file: FileBytes

`requests` is the request list with its offsets, sizes and states, `extentlist` and `alt` are
the extents in force and the copies on the IP, `tape` the blocks. A byte is the number of
the write that stored it. `WriteRequests` is the walk of `unified_write` (overlap with the
previous and the next request, filling up a block), `AddExtent` is `ltfs_fsraw_add_extent` with
all its splitting cases, `UpdateAlt` and `CutAlt` keep the alternate extents, `CutExtents` and
`CutRequests` truncate, `RawRead` and `ReadFrom` are `ltfs_fsraw_read` and `unified_read`;
a call is one step. `content` is the reference: a sequence of bytes that clients wrote.

`file_bytes` (block size 2 or 4, files of up to 5 bytes, writes of 1 or 3 bytes, 3 writes, 1
truncate to 0 or 3, IP limit 4, room for 9 IP blocks; 169 thousand states) checks `ReadsExact` (any read at any offset and
length returns the reference), `FlushedIsOnTape` (what a flush reports as written, the extents
alone give back), `DestroySaves` and `ExtentsSound`. A write can leave two overlapping requests in the
list. Reads of such a file have to be exact all the same; what the code does get wrong comes later, when
the requests are written out, cut or written over, and may hit the bytes that both held (section 12).
The observer `stale` collects those bytes, and those that a truncation cuts off overlapping requests, until they are
written again; the properties except them, byte by byte, and nothing else. Three
requests are the most that one write can touch, and five bytes are two and a half blocks:
every alignment of a request with a block, with the end of the file and with both happens.
With blocks of 4 bytes a write of 3 grows a request over a gap and over the next one.
A write of one byte fills part of a block, one of three covers a whole block and part of another.
The length 3 is inside a block of either size; it cuts longer files and extends shorter ones, and 0 is
the length at which the code decides about the IP anew. With all lengths from 0 to 5 (361 thousand states) TLC finds
the same. The calls are bounded, so behaviours end and deadlock is not checked.

## 6. Index commit: IndexCommit and IndexStore

`tape[p]` is the sequence of records on partition p behind the label (blocks 0 to
3; record i is block i + 3). Writing in the middle cuts off the rest, as a drive
does. A record is a file mark, a data block, an index, or a torn index. An index
is one record; that a document takes several blocks is the separate step
`IndexPart`, which leaves a torn record. A tree is a version and the set of blocks
it refers to. `mam[p]` is the coherency attribute; the comparison of volume change
references becomes the flag `fresh`, cleared for both partitions by any write.
`vol` is `struct ltfs_volume` with its index and the append positions of the
device. `todo` is the rest of the operation that holds the volume lock, so that a
crash, a failed write or another thread can come between any two steps. `best`
records, for each state of the tape, the index that the searches of `ltfs_check_medium` pick
(`Picked`: `ltfs_seek_index` on both partitions and `_ltfs_check_pointers`). What the check then accepts
(`Checked`) is less: a plain mount refuses blocks behind the last index (`ltfs_internal.c:1069`),
and `_ltfs_check_extents` (1093-1106) refuses, when a partition had no index, extents that reach the end of data.

Correspondence: `ltfs_write_index` is `CallIndex`, `IndexMark`, `IndexPart`,
`IndexDoc`, `IndexClose`, `Coherency` (once per partition), `IndexDone`;
`_ltfs_fsraw_write_data_unlocked` is `WriteData` and `DataBlock` or
`DataLessSpace`; the flag "ends in an index" is cleared together with the block,
which commutes with everything that can come between. `ltfs_sync_index` is
`SyncLook` and `SyncWrite`. `ltfs_mount` is `MountQuick` or `MountFull`,
`FillMark`, `CheckMedium` or `MountRefused`, `RecoverLost`, and `MountFinish`.
`AddExtent` adds a block of the DP before the volume lock is given up, and a block
of the IP whenever the scheduler hands it over; `DiscardExtent` is the scheduler
giving one up (the operation that makes it do so dirties the index in a step of
its own, which the model does not tie to it). A session of ltfsck only unmounts.

A crash is the end of the process; what was written is on the tape. A hard fault
during a mount or an unmount also ends the process, so one crash and one fault
include a crash during the repair after a crash.

`index_commit` (2 data blocks, 1 change without data, 1 crash, 1 fault, mounts and
ltfsck with lost-and-found) checks:

* `Recoverable`: in every state the searches of a full check pick an index, and
  every block it refers to is in place; when a mount or ltfsck comes to its check, it loads the
  picked tree, or refuses the volume on one of the two grounds above (`TurnedAway`), and on no other.
* `CleanIsPermanent`: while the index in memory is not dirty, the picked index is the
  tree in memory. That the next mount also accepts it is not claimed (`UnmountConsistent`, section 12).
* `QuickMountAgrees`: when a mount may trust the attributes, both name the last
  index of their partition and the newer one is what the full check would pick.
* `AtomicCommit`: refinement of `IndexStore`. The contents as a crash would leave
  them change only by becoming the contents in memory, all at once, although an
  index takes up to fourteen steps; a mount brings back exactly these contents.

Two blocks are enough for data on both partitions in either order and for an index
forced out between them; the one change gives an index without data. Each index
that a session writes can be interrupted at each step. `CHECK_DEADLOCK` is on: a
volume in "off" can always be mounted or is refused and stays off, and TLC finds no
state without a step.

## 7. Revalidation

A call of libltfs is the list of commands it has still to send; one step sends one command, so
that a unit attention (`Reset`, `Swap`, `RemovalRequest`) falls between any two. The thread whose
command is told of it fences the device, gives up its lock and takes the volume for writing
(`ltfs_revalidate`): wait for the drive, label, cartridge memory, end of data against the append
positions. The others meet the fence and wait. `tape.safe` is what had left the drive's
buffer: a reset costs the rest. `seen` observes which extents were acknowledged, which
attention was dropped and whether a record went to the wrong place.

`revalidation` (2 threads, 2 calls out of read, write to either partition, sync, unmount; 2
attentions) checks that nothing is written to a cartridge that has not been checked
(`NoForeignWrite`), that lost records stop the volume (`LossIsNoticed`), that a write retried
after revalidation records its own blocks (`ExtentsPointAtData`), and that every call returns
(`RevalCallsReturn`). All but the last except the one attention the code drops, the one
that answers the update of the cartridge memory (section 12). Two attentions are needed so that
one can fall into the revalidation started by the other. Fairness: a thread inside libltfs keeps
running; the volume lock and the device mutex are in the model, so a wait that never ends would
show.

## 8. The directory tree

`dent` is the memory of the dentries: name table, parent, `numhandles`, link count, deleted
and freed. A step is a section between two lock operations that may wait: `contents_lock` (readers
and a writer), `meta_lock` and the rename lock. Lookup hand over hand, create and mkdir, unlink
and rmdir, rename with its order of locks for the two directories, open, getattr and release with
the FUSE file table are followed lock by lock; memory for dentries is finite and uids run out at
`UidLimit`. The volume lock is held for reading by all of them and is left out.

`tree` (2 threads, 5 dentries, names a and b, 3 calls out of the 16 of `MCTree`, which start from
a directory with one file) checks `NoDangling` (no pointer a call holds has been freed),
`HandlesExact` and `LinksExact` (when no call is running the counts and tables are exact, whichever
error exits the calls took), and `TreeCallsReturn`. Two threads with two paths each are enough for
every order of two locks; the third call is what finds the leftovers of the first two.
`rmdir` of a directory with entries gives its parent back without the `meta_lock`; overlapping
another call it can write over that call's count or open its lock (section 12). The model has all these
schedules. The history variable `clobbered` records that the damage has happened, and the first three properties
hold as long as it has not: such an `rmdir` that overlaps others harmlessly is included. A rename gives its two
directories back in two steps and afterwards reads the uid of a source it has no handle on any more (`RenameId`);
`NoDangling` covers that pointer too. 192 thousand states.
Fairness: a thread in a call is scheduled again and again, and a lock it waits for is handed on.

## 9. The tape: FileDrive, TapeLayer, LtfsVolume, TapeVolume

`FileDrive` models the file backend file by file: a cartridge is a set of files
(partition, block, record or mark). A record or an attribute is written by opening, writing and
closing its file, so that a crash can leave it empty: an empty record reads as a file mark, an empty
attribute is an error to libltfs, and the backend takes an empty volume change reference for 0. (The code compares the
uninitialised bytes of an empty reference; the model takes them to match no other.) `TapeLayer` is `tape.c` on top of it, with the position it
believes in, append positions and space states. `LtfsVolume` has labels, indexes with generation,
self and back pointer, the cartridge memory, `ltfs_format_tape`, `ltfs_mount` with quick and full
check, `ltfs_write_index`, recovery of a lost end of data, the three walks over the generations,
and the utilities. `TapeVolume` runs them as processes: `Format` (mkltfs), `Unformat` (unltfs), `Check`, `Rollback` and
`List` (ltfsck), `Mount`, `WriteData`, `SyncIndex`, `Unmount`. One operation is one step, but it may be
cut at any of its calls to the file system, by an error it reports or by a crash.

The branch of `ltfs_recover_eod` for attributes of version 0 (`_ltfs_detect_final_rec_dp`, `_ip`) needs a cartridge
of an earlier program; no run has one.

`allowed` is the set of contents that the next mount may present, `history` every generation that
was completed and not erased on request.

`tape` checks `PositionTrue` (what the tape layer believes of the drive is true; `tape_seek` relies
on it), `MountedContent`, `DataIntact` and `HistoryListed`. Bounds: 2 data records, 5 generations,
1 error or crash, 5 sessions that write, 2 formats; partitions of up to 30 blocks with programmable
early warning at 14 and early warning at 18 on the DP, so that the volume fills up; `MaxCalls` 200 is
more than any operation's calls; 18 thousand states. Five generations allow two indexes of data, an unmount, a
rollback and an index after it. `EraseAfterFault` is FALSE: `--erase-history` on a cartridge that
has met a crash is excluded (section 12).

## 10. Drivers and documents

### Drivers: ScsiDrive, Ibmtape, Iokit, Ltotape, TapeOps, DriveSession

`ScsiDrive` is a drive as the drivers see it: records and marks per partition, a queue of unit
attentions, sense data, early warning points, reservation, key, block protection. It is
external, modelled from the commands sent and the sense decoded. Each driver module has the
operations of the driver's handler table, command by command with its retries, dumps, trailing read
position and sense tables; `TapeOps` selects the driver a session was opened with. `DriveSession` has the functions of `tape.c` that call them, open, load,
revalidation and close, and applies any of them with a fault (reset, power cycle, exchanged
cartridge, permanent error, a time out before or after the drive has done its work) at any one command. A variable the code reads
uninitialised is a free choice (`junk`).

`drivers` (one partition holds 3 blocks, warnings at 1 and 2; one value; 1 fault among the first
31 commands of an operation; 3 operations after the load; 66 thousand states; six setups: each driver with two drive
types, with and without checksums and dumps) checks:

* `FaultTold`: a fault makes the operation fail whatever it sends afterwards, and a reset or an
  exchanged cartridge comes out as a code for which libltfs revalidates. `Unreported` names the
  commands whose failure the code drops by design or otherwise (section 12); ltotape has no
  such codes at all.
* `MediumAsTold`: the medium holds what the return codes said, once and without checksum bytes. A failed
  operation left the medium as it was, or did exactly what it was asked (`last.kept`); in the second case no write can follow
  unchecked: the cartridge is read-only (`write_error`), or the code asks for revalidation, or it was an erase or a format.
* `PositionFilled`: an operation that no fault struck leaves the caller with the drive's position.
* `WarnedInTime`: the write that crosses the programmable early warning point, and every write behind
  early warning, tells libltfs.

A fault behind the 31st command of one operation is not explored. Three operations are a write
that fails, one that repairs and one that shows the effect.

### Documents: IndexXml, IndexOps, IndexFormat

`IndexXml` has the index as a tree of elements, `xml_writer_libltfs.c` and
`xml_reader_libltfs.c` as operators between that tree and the index in memory (required, optional and
unknown tags, versions, uids, extents, pointers, labels), and the cutting into blocks and reading back
of `xml_writer.c` and `xml_reader.c`. Texts are members of small sets that keep the distinctions the
code makes. `IndexOps` has what is done to an index: reading it with the checks of `ltfs_read_index`, file
operations, extended attributes (`xattr.c`), ltfsck's split. `IndexFormat` mounts a cartridge (or lets
ltfsck recover it), changes it, writes it in blocks with any boundaries, loses memory
and mounts again.

`index_format` (43 cartridges: this implementation's, older and newer versions, documents of others
with unknown tags, missing and invalid parts, duplicate uids, extents whose end wraps around, link conflicts; block size 3, documents of 3 or 5 bytes after a
first one of 4; 3 mounts, at most 2 changes per cartridge; 12 uids, offsets modulo 16 for the 64 bits, times up to 4; 34 thousand states) checks `IndexKept`
(what was written is readable and the same), `TagsKept` (unknown tags of index, directories and files
survive), `IndexSound` (two entries share a uid only if the document
gave it to both, and no new entry gets one in use; only the root is a directory with uid 1; extents without wrap-around are ordered, disjoint
and within the file) and `SplitKeepsBoth` (ltfsck's split
of a file that is both link and data loses neither). Inputs are restricted where the code does not hold
up (section 12): link targets and commit messages are legal XML, and the
names in a directory are distinct. The last session only reads, since nobody would see its changes.

These three modules use RECURSIVE operators and are for TLC only.

## 11. Proofs

Every theorem holds for every value of the constants of its module that satisfies the
assumptions named below: any set of threads, any number of calls, blocks, crashes and
faults. The runs of the same properties are instances. Each inductive invariant was first
checked with TLC, as an invariant, on the instance of the run and on larger ones.

| Module | Theorem | Statement |
|---|---|---|
| `MrswProofs` | `TypeCorrect` | `Spec => []IInv /\ []TypeOK` |
| | `LockSafe` | `Spec => []MutualExclusion /\ []ReleaseTellsWriter` |
| | `DowngradeSafe` | `Spec => []DowngradePremise` |
| | `LockRefines` | `Spec => Implements`, the refinement of `RWLock` |
| `RevalidationProofs` | `RevalInvariant` | `RevalSpec => []RevalInv` |
| | `RevalTypeCorrect` | `RevalSpec => []RevalTypeOK` |
| | `ForeignWritesExcluded` | `RevalSpec => []NoForeignWrite` |
| | `LossesNoticed` | `RevalSpec => []LossIsNoticed` |
| | `AcknowledgedExtents` | `RevalSpec => []ExtentsPointAtData` |
| | `FenceOwned` | `RevalSpec => []FenceHasOwner`: no fence without an owner in `ltfs_revalidate` |
| `IndexCommitProofs` | `CommitInvariant` | `Spec => []CommitInv` |
| | `RecoverableAlways` | `Spec => []Recoverable` |
| | `CleanIndexPermanent` | `Spec => []CleanIsPermanent` |
| | `QuickMountFindsNewest` | `Spec => []QuickMountAgrees` |
| | `ImplementsStore` | `Spec => AtomicCommit`, the refinement of `IndexStore` |
| `TreeProofs` | `TreeInvariant` | `TreeSpec => []Inv` |
| | `NothingDangles` | `TreeSpec => []NoDangling` |
| | `CountsExactWhenQuiet` | `TreeSpec => []HandlesExact` |
| | `FileTableExact` | `TreeSpec => []TableExact`: the file table counts the open handles, also between the two halves of a release |
| | `LinksExactWhenQuiet` | `TreeSpec => []LinksExact` |
| | `UidsNeverShared` | `TreeSpec => []UidsUnique`: no two dentries have the same uid, also after the counter ran out |
| `UnifiedProofs` | `UnifiedInvariant` | `Spec => []UInv` |
| | `CountersExactAlways` | `Spec => []CountersExact`, if `AltTracked` |
| | `NothingLostSilently` | `Spec => []NoSilentLoss`, if `ErrorsReach` |
| | `FlushAllReachesTape` | `Spec => []FlushAllComplete`, if `ErrorsReach` |
| | `ReadsSeeWrites` | `Spec => []ReadSeesWrites`, if `NoFaults` |
| | `TruncatedStaysGone` | `Spec => []NoResurrection`, if `NoFaults` |
| | `DestroySavesAll` | `Spec => []SavedAtDestroy`, if `NoFaults` and `AltTracked` |

### The lock

Assumptions: the set of threads is finite, and `None` is not a thread.
Mutual exclusion is not inductive: it says nothing about who owns the mutexes. `IInv`
adds, as named conjuncts, which call each program point belongs to (`OpsMatch`), which
points own `write_exclusive_mutex` and `read_count_mutex` (`Owners`), that `read_count`
is the number of threads between counting themselves in and out (`ReadCountExact`), that
a thread about to lock `reading_mutex` as first reader is the only reader and one about
to unlock it finds none (`EndsOfReading`), that `reading_mutex` is locked exactly when
there is a writer or a reader past that point (`ReadingOwned`), and when the writer flag
is raised (`WriterFlag`). TLC checks `IInv` in the run `mrsw`. The induction has one
lemma for each group of steps (`WriteSteps`, `ReadSteps`, `ReleaseSteps`); counting is
isolated in `ReadersChange`. For the refinement, `InvisibleSteps` shows which steps leave
`heldMap` alone and `VisibleSteps` that the six others are steps of `RWLock`.

### Revalidation

Assumption: `RevalAssumption` of `Revalidation` (the owner of a free backend is not a thread; the
calls are those of the model). `RevalInv` has two halves. The first needs no tape:
`Types`; `Discipline`, who may hold which lock at which program point, that the fence has
an owner on its way through `ltfs_revalidate` and that `vol->reval` says so to the others; `Scripts`, which
commands a thread can still have to send. The second adds the tape. A write goes
wrong when it is sent to a cartridge, or with the head in a place, that libltfs does not
know; so the invariant says that in normal use both are known (`Trust`), and what each
check of a revalidation has established so far (`Checked`). A loss must be seen by
comparing the end of data with an append position, so the append position is never past the end of
the tape while nothing has been lost, and equals it on the DP where a check relies on it
(`Positions`, `DpEnd`); after a loss it is past the end, and stays so until it is noticed (`Caught`). An extent goes wrong when a later write
cuts off its blocks; all acknowledged ones lie below the append position and below any
write under way, also while a revalidation has set that position aside (`Extents`).
`NoForeignWrite` is part of the invariant since a spoiled cartridge would void the rest.
TLC: 2 threads, 2 calls and 3 events exhaustively (1.9 million states); 3 threads, 8 calls and 4
events by simulation.

### Index commit

Assumptions: `BoundsAssumption` (the bounds are numbers), `NoneAssumption` (`None` is none of the records, trees
and partitions), and, in each theorem, that `MountKinds` does not contain "erase". With
ltfsck in that mode the statement is false: it may cut a partition below blocks that the
chosen index refers to (`OnlyExtraErased`, section 12), so the hypothesis cannot go.

`Recoverable` and `CleanIsPermanent` speak of the index the code's searches pick and, at the check itself, of what it loads or refuses
(section 6). Below, the chosen index is the picked one.

None of the properties is inductive. That the chosen index survives a write depends on
where the write lands, and that depends on how the session got there. `CommitInv` says

* about the tape: every index stands behind a file mark and knows its place, no two indexes of
  one generation have different trees, and the chosen one is the last of the DP or the index of the IP that
  names that one and ends the IP (`Sound`: `IndexesTrue`, `Gens`, `Newest`);
* about the next write: it lands at the end of the DP, or on the IP anywhere above the
  label (`Ready`), and above every block of the chosen tree, the tree in memory and the
  scheduler (`Files`, `Below`);
* about the index in memory: between index writes, while a document is half written, and
  between document and `IndexDone`, how its generation, self and back pointers relate to the chosen one (`Memory`),
  and that it is the chosen one unless dirty (`Clean`);
* about the flags the code decides by: the two end flags and the coherency data name the
  last index of their partition (`Ends`), so do current attributes in the cartridge
  memory (`MamTrue`), and the IP is written only while the newest index is on the DP and ends it (`Order`);
* about operations under way: which step may follow which (`Queue`), and that what
  `ltfs_check_medium` has found is still what is on the tape (`Found`).

The first part of `IndexCommitSteps` is about the operators: what `ltfs_seek_index` finds (`SeekFinds`), which index `_ltfs_check_pointers`
chooses (`PickedIs`), and that a file mark, a torn document or a data block leaves the choice alone while a
document becomes it (`KeepDp`, `KeepIp`, `CloseIp`, `CommitDp`, `CommitIp`). Its second part and `IndexCommitProofs` have one lemma for
each action. For the refinement each lemma also says what becomes of the tree in memory and of the
chosen index; only `IndexDoc` moves the latter. TLC: the instance of the run exhaustively (1.1 million states), 4 blocks, 3 changes,
3 crashes and 3 faults by simulation.

### The directory tree

Assumptions: `TreeAssumption` of `Tree` (finitely many threads and dentries, paths of at most two
names, a workload of the operations the model has). No interleaving is assumed away: the properties end
where an `rmdir` of a directory with entries has written over the count of another thread (`clobbered`, section 12), and
so does `Inv`, which says nothing of the states after that.
The number of threads, calls, dentries and names is arbitrary, and so is the workload.

That a pointer's dentry is alive rests on a count, the count on what every other call holds, and
which dentry a call holds on what the other calls do to the name tables on its path. `Inv` says

* which pointers and which part of its path each program point has (`OpsMatch`, `Pointers`, `Walk`);
* that name tables and parents agree, freed memory is blank and only a linked directory has
  entries (`GoodTree`);
* that `numhandles` of every live dentry is the number of pointers with a handle and one
  for its place in the tree, and nobody points to a freed one (`Counts`). The parent that a lookup has
  just left has no handle; it is the root. The dentry of a release is counted once, for the call;
* who holds every `contents_lock`, `meta_lock` and `rename_lock`, as a function of the program
  points (`LocksTrue`);
* that the calls the kernel keeps apart are apart (`Apart`), and that
  each call that changes the tree is at the dentry its path names, as long as it needs that: unlink at an entry without
  entries, rename at its directories, its source and its target (`PlaceOK`).

Most steps are *lean*: they change counts or free a dentry that is in no directory; `LeanStep` does them
all, from how pointers, handles and locks change (`SameSlots`, `TakeSlot`, `GiveSlot`, `PassSlot`,
`LockChange`). Create, unlink and the two halves of a rename change name tables: `ShapeStep`
shows that a change at the ends of one call's paths (`Local`) leaves every other call where it
is. `Doomed` and `IsPredecessor` are recursive functions; the lemmas about them, of a dentry
without entries and of one at most one name below the root, follow from the least number at which
a statement fails (`LeastNat`) instead of an induction. TLC: the instance of the run, with `Inv` as an
invariant (192 thousand states). `TableExact` and `UidsUnique` need one more conjunct each: the type of the table,
and that the counter is above every uid in use (`UidInv`).

`LinksExact` needs `LinksOK` besides `Inv`: a dentry outside the tree that is still allocated is deleted
and in use (`InUse`, `Orphans`), the link count of a directory is two and the number of directories
among its entries, counted as a set (`LinkCounts`), and there is a rank of the dentries in which every
dentry is above the directory it is in (`Ranked`). A create gives the new dentry the rank after its
directory's. A rename goes to the root or to a directory right below it, paths being of two names: those
two get the ranks 0 and 1 and all others move up, which fails only for a directory moved
into itself, and that the code refuses. With a rank, the way up from a dentry never meets
the same dentry twice; if it missed the root it would meet more dentries than there are.

### The scheduler

Assumptions of `Unified`: finitely many clients and files, the writer thread and `None` are none of them, writes
of one or two half blocks, the bounds are numbers. The numbers of clients, files, cache blocks and writes are arbitrary, and
so is the mix of calls (`Ops`). What the code does not guarantee in general is a hypothesis of the theorem:

* `NoFaults`: the drive does not fail. `ReadSeesWrites`, `NoResurrection` and `SavedAtDestroy` are about data that has not failed.
* `AltTracked`: no truncation together with files on the IP, and no shutdown after a fault. `unified_truncate` leaves
  such a file in `ext_queue` (section 12), and `unified_destroy` frees a `dentry_priv` whose requests could not be written, so
  after them `CountersExact` is false.
* `ErrorsReach`: `NoFaults`; or any faults, without close and destroy, which free the place where an error
  would be recorded (that is the run `unified_v_close`), and not with both partitions short of space, when an error of the IP
  that nobody is told of costs requests for the DP (section 12).

The passing runs are instances of these hypotheses: `unified_files` and `unified_live` have no faults, `unified_placement` has faults of every
kind and neither close nor truncation.

None of the properties is inductive. A counter is right because every path that takes a request off a list takes it off
the queues in the same critical section, or has just cleared the queue; data is safe because of what
other threads may not do meanwhile. `UInv` says

* where threads are: which call, file and arguments each program point has (`Places`), which of the three kinds of locks it holds
  (`Locks`), that the kernel admits one writer or truncator per file (`Serial`), what the writer thread has in its private list
  and that the `dentry_priv` stays while `io_lock` is held (`WriterOK`), what a close or a truncation still finds
  when it takes its second lock (`Between`), how many threads wait for a block (`Waiting`), and how far a shutdown is (`Shutdown`);
* that the books are right: queues and totals match the counters of the files (`Books`), these match the request
  list (`Listed`), every IP request is on the DP already (`IpSaved`), no request ends behind the file (`Sized`), a file without a
  `dentry_priv` has nothing (`FileOK`), a partition short of space has cost a fault (`Drive`), `ext_queue` (`AltOK`);
* where data is: `NoSilentLoss`; what a read has still to find is on the tape, in flight, or no longer anybody's (`ReadOK`);
  numbers of writes are not used before they are given out (`Numbered`); `NoResurrection`.

TLC checked `UInv` as an invariant on eight instances, with and without faults, truncation, close, placement and shutdown.

`UnifiedSteps` goes through the operators. The loop of `_unified_flush_unlocked` is a recursive function of the model; `Walked`
is its loop invariant, one lemma for each way a round can go (`WalkedKeep` to `WalkedBoth`), and `WalkResult` what it has done
at the end. The same for dropping requests (`Purged`), flushing all files (`FlushRun`), the index queue (`IndexRun`) and
truncation (`EmptyRun`). Induction over the places of a list is `Stepwise`, from the least place at which a statement
fails; `FoldRuns` shows that such a loop can be run at all. `UnifiedProofs` puts every client step into one frame: `Did(c)` says which
locks the step moves, what it leaves to others and what it does to the data, `DidInv` that such a step keeps `UInv`, and each
action is shown to be one. Steps of the writer thread have a frame of their own (`Tends`), since they
work on files that no client of theirs names, and so have the steps under the write lock (`Served`).

### Only model-checked

* Liveness (`Granted`, `CallsReturn`, `RevalCallsReturn`, `TreeCallsReturn`): fairness and ENABLED are beyond the prover.
* `FileBytes`, `TapeVolume` and `IndexFormat`: their operators walk extent lists, tapes and documents with
  RECURSIVE definitions, and what those compute for every input takes an induction over
  data that the provers cannot do.
* `DriveSession`: the driver is a constant of the module, so that a theorem would rest on
  assumptions about a driver which only TLC can check for the three there are.

## 12. Further observations

The runs hold under the restrictions named above. What follows is what the restrictions leave out: where
a property is named, it is defined in its module and TLC refutes it in the instance given; the rest was met while
modelling.

### Scheduler and files

* `FlushMeetsTape` (Unified): a flush (an `fsync`) returns success with data still in the
  private list, because `_unified_flush_unlocked` looks at the request list only.
* `WriterDentryAlive` (Unified, unlink together with close): the writer thread locks a dentry that an
  unlink and a close have freed since it was picked.
* `WaiterServed` (Unified): a write that waited for a cache block comes back with it and,
  if an error was recorded meanwhile, returns at `unified.c:723` without freeing it. With a
  pool of 2 blocks and 2 transient errors the pool is empty and the next write waits for
  ever, although `_unified_cache_alloc` (`unified.c:1734`) promises to return. With a pool of 1
  block the high watermark `unified.c:1180` is 0 and the same happens.
* `NoSilentLoss` with 2 files, 3 blocks, f1 on the IP with limit 4, 1 client, 4 writes and 2
  less-space failures: an IP failure also drops the file's DP requests (`unified.c:2274`),
  contrary to the comment at `unified.c:2257`.
* `CountersExact` with 1 client that writes and truncates, 1 file on the IP with limit 6, 2 blocks
  and writes of 2: `unified_truncate` (`unified.c:1003`) can leave a file in
  `ext_queue` without alternate extents.
* Two overlapping last closes can each see the other's handle (`unified.c:2128`) and leave
  the `dentry_priv` allocated.
* `NewestBytesWin` (FileBytes): `unified_write` skips every request that ends before the offset it has reached
  (`unified.c:800`). A write that grows one request over a gap and over the whole of the next leaves the
  next one in the list, and the flush writes its old bytes last: writes at 0, at 2 and of [1, 4), with the bounds of the
  run. These are the `stale` bytes of section 5.
* `DestroySaves` (FileBytes, `IpBlocks` small enough to run out): `_unified_handle_write_error` drops the IP requests but
  leaves `write_ip` and the alternate extents (`unified.c:2262`), which replace newer DP extents at unmount. The run
  has room for all copies and does not show it.
* `_ltfs_fuse_do_flush` clears the dirty flag of a handle after the flush (`ltfs_fuse.c:611`), so a write that comes
  in between is not flushed by the close.

### Index commit and revalidation

* `OnlyExtraErased` (IndexCommit, ltfsck without lost-and-found): on a volume whose IP holds data and no index,
  the repaired index is written at block 4 over data that the very index refers to.
* `LtfsckAccepts` (IndexCommit): `_ltfs_check_extents` refuses an extent whose last block is the
  last block before EOD. Such a volume is left behind when `ltfs_sync_index` chose
  the DP before data went to the IP, and the process crashed.
* `UnmountConsistent` (IndexCommit, `Faults = {"less"}`): a less-space report on the first
  block after a sync or a mount leaves that block behind the last index while the index is clean;
  unmount writes nothing and the next mount refuses the volume.
* `LostFoundComplete` (3 data blocks, 1 change, 1 crash): `_ltfs_make_lost_found` starts one block
  late after a partition whose last index is followed by referenced blocks.
* `BackPointerPrior` (3 data blocks, 1 change, 1 crash): after a crash between the two copies of a generation
  the quick mount picks the IP copy, and the next index on the DP points back past the newer
  generation there.
* `NoAttentionIgnored` (Revalidation): `ltfs_write_index` says "can't ignore POR, tape could have changed", but the
  result of updating the cartridge memory is dropped and with it a unit attention.
* `ltfs_unmount` releases the write lock a second time after `ltfs_revalidate(true)` (`ltfs.c:1811`);
  `reval` set to failed by an eject request may be overwritten by a revalidation that passes;
  `ltfs.h:639` describes `reacquire` where the function has `have_write_lock`.

### Tree

* `MetaLockHeld`: `ltfs_fsops_unlink` of a directory that is not empty (`ltfs_fsops.c:440`, `492`) calls
  `fs_release_dentry_unlocked` on the parent without the `meta_lock` that `fs.h:93` demands.
* `FilesCounted`: a rename over an existing file asks `todir`, not the entry, whether it is a directory
  (`ltfs_fsops.c:742`) and does not lower `file_count`, the "number of files" of `ltfs.h:486`.
* Without `~clobbered` TLC finds `HandlesExact` and `NoDangling` violated: that release reads and writes
  `numhandles` of the parent while another call changes it (a lookup takes its handle on the root in between), and the count stays wrong.
* The test `ret != A || ret != B` at `ltfs_fsops.c:81` is always true; `_ltfs_fsops_read_direntry` (1425)
  uses its entry after releasing the lock; `ltfs_fsops_readlink_path` returns `SMALL_BUFFER` without closing (1876, 1890).

### Tape and volume

* `LabelsKept` (TapeVolume): deep recovery of a partition of which nothing behind the label can be read erases from the
  block before the unreadable one (`tape.c:1729`), the label's file mark included, although `doc/README` offers the option
  for exactly such cartridges.
* `EraseAfterFault = TRUE` with 6 sessions refutes `MountedContent` and `DataIntact`: after a crash between an index on the IP and the coherency
  update the quick mount (`ltfs.c:1601`) goes on from the older one; `--erase-history` (`ltfsck.c:1293`) leaves the
  later generation on the IP, and a rollback by generation (`ltfsck.c:1375`) brings it back after its data was overwritten.
* `MaxFaults = 2` refutes `HistoryListed`: an error in the retry after an error leaves a generation outside the chain.
* `ltfs_recover_eod` compares no uuid before it uses the coherency (`ltfs.c:3720`); the early warning flags of
  a position are cleared by a rewind only; `tape_format` does not reset the append positions; error exits of mkltfs
  and ltfsck before setup skip `ltfs_device_close`; a failed load of the file backend leaves it `ready`;
  `ltfs_write_label` returns a positive error (`ltfs.c:2662`); `filedebug_format` ignores errors of its erases.
* On the file backend mkltfs without `--force` and with kept capacity fails, and unltfs without `noask` is always refused.

### Drivers

* ltotape never returns a code for which libltfs revalidates: a unit attention comes back as -1, the cached
  position stays, and `tape_seek` to it sends nothing (`tape.c:988`, against `tape_ops.h:365`). Its state of the
  early warning is reset only at open; sense and errno of an earlier command are read after one that left none
  (`ltotape.c:458`, `608`, `828`).
* `ibmtape_writefm` takes any failure behind early warning for success (`ibmtape_tc.c:735`);
  `ibmtape_set_default` reads `retry` uninitialised (1946, 1962); `ibmtape_space` returns a positive error (884, 891);
  with checksums and a short record `ibmtape_read` loses four bytes.
* `iokitosx_space` falls through to INVALID_ARG for two directions (1524) and leaves the position; the read
  position of iokit reports no early warning, which its writes do.
* In all drivers the read position at the end of an operation, and several optional queries, drop the unit attention they
  are told (`Unreported`, `Disguised`); dumps can consume one.
* `update_mam_attr` exists in ltotape only, and `tape_device_open` (`tape.c:219`) rejects a handler table with a
  missing entry; the configuration builds only ltotape. The other two are modelled against the contract of `tape_ops.h`.

### Documents

* A symlink target is stored unchecked (`ltfs_fsops.c:1819`) and a commit message only normalised (`xattr.c:1103`); a
  character illegal in XML is written as it is and the next mount refuses the index.
* That uids have run out is written as 0 but read as 1 and raised to the largest (`xml_reader_libltfs.c:761`), so
  the warning of `ltfs.c:1690` cannot come after a mount. Duplicate uids (the TODO at 1078), uid 1 on a file
  (1341-1345) and duplicate names are accepted.
* `fileoffset + bytecount` wraps in 64 bits (1335, 1462, 1475, 1479): an extent whose end wraps passes the checks for overlap
  and for the length of the file.
* `ltfs_split_symlink` returns NO_XATTR when the last conflict has no LiveLink attribute (`ltfs_internal.c:1365`), and the
  recovery that asked for it fails; it frees `target` without clearing it (1383).
* Unknown tags inside `contents`, `extent`, `xattr` and the location and policy elements are dropped. The failure of the
  last block is not reported by `xml_schema_to_tape`. Setting a time attribute to a value that does not parse still moves the change time
  (`xattr.c:1215`); removing a missing attribute dirties the index (`xattr.c:459`).

## 13. Not modelled

* Allocation failures, except for dentries in `Tree`.
* In index commit: WORM cartridges, a missing EOD (in `TapeVolume`), an unreadable cartridge memory, and data lost
  from the drive's buffer when power fails (in `Revalidation`).
* In the drivers: DAT drives, the Windows variant of ltotape, device enumeration, the contents of dumps, logs and density
  reports.
* Growth and shrinking of the cache pool and the thread handshake of periodic sync.
* The FCFS scheduler, which has no state and passes calls through; key management; placement rules other than "on the IP or not";
  configuration, plugin loading, logging, tracing and SNMP; command line parsing: formatting, parsing and I/O without state
  that another part depends on.
* Character encodings and path name normalisation, except for one pair of spellings in `IndexXml`.

`PROJECT.json` has the status of every component.

## 14. Plan

The models are complete as far as the plan went. Left is a proof:

* `ExtentsSound` for `FileBytes`: the list stays sorted and disjoint under `AddExtent` and `CutExtents`, which
  have to become recursive functions first.

## 15. Running

In this directory, `tlc -workers 2 -config Unified_files.cfg MCUnified` (module and
configuration of each run are in `PROJECT.json`). Proofs: `tlapm M.tla` for M one of `MrswProofs`,
`RevalidationProofs`, `IndexCommitSteps`, `IndexCommitProofs`, `TreeSteps`, `TreeProofs`,
`UnifiedSteps` and `UnifiedProofs`; each takes up to fifteen minutes.
