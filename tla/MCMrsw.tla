------------------------------- MODULE MCMrsw -------------------------------
(* Three threads: enough for a writer, a reader it waits for and a newcomer. *)
EXTENDS Mrsw
=============================================================================
