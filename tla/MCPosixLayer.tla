----------------------------- MODULE MCPosixLayer -----------------------------
(* TLC instance of PosixLayer: its constants are model values of the .cfg. *)
EXTENDS PosixLayer
=============================================================================
