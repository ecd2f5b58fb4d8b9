----------------------------- MODULE IndexStore -----------------------------
(* What ltfs_write_index and ltfs_mount promise together: the contents of a
   volume (mem) change in memory, are made permanent (disk) all at once, are
   forgotten at a crash or an unmount, and come back as they were made
   permanent. None stands for a volume that is not loaded. *)
CONSTANT None
VARIABLES mem, disk

Init == mem = None /\ disk # None

\* A file operation, or the recovery of lost blocks.
Change == mem # None /\ mem' # None /\ UNCHANGED disk
\* An index becomes the newest index of the volume.
Commit == mem # None /\ disk' = mem /\ UNCHANGED mem
\* Crash, failed mount, unmount.
Lose == mem # None /\ mem' = None /\ UNCHANGED disk
Load == mem = None /\ mem' = disk /\ UNCHANGED disk

Next == Change \/ Commit \/ Lose \/ Load
Spec == Init /\ [][Next]_<<mem, disk>>
=============================================================================
