--------------------------- MODULE MCToolCalling ---------------------------
(* TLC instances of ToolCalling. *)
EXTENDS ToolCalling, TLC
=============================================================================
