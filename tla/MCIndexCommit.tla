--------------------------- MODULE MCIndexCommit ---------------------------
(* Model-checking instance of IndexCommit. *)
EXTENDS IndexCommit
=============================================================================
