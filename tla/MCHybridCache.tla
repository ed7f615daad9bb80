-------------------------- MODULE MCHybridCache --------------------------
(* TLC instances of HybridCache. *)
EXTENDS HybridCache, TLC
=============================================================================
