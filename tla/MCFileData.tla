------------------------------ MODULE MCFileData ------------------------------
(* Values for TLC. *)
EXTENDS FileData
=============================================================================
