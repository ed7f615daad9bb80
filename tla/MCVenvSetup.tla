---------------------------- MODULE MCVenvSetup ----------------------------
(* TLC instances of VenvSetup. *)
EXTENDS VenvSetup, TLC
=============================================================================
