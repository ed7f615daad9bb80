------------------------- MODULE MCRequestBatcher -------------------------
(* TLC instances of RequestBatcher. *)
EXTENDS RequestBatcher, TLC
=============================================================================
