--------------------------- MODULE MCReplaceFile ---------------------------
(* Model-checking instance of ReplaceFile. *)
EXTENDS ReplaceFile
=============================================================================
