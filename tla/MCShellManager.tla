--------------------------- MODULE MCShellManager ---------------------------
(* TLC instances of ShellManager. *)
EXTENDS ShellManager, TLC

ShellSymmetry == Permutations(Sessions) \cup Permutations(Procs) \cup Permutations(Threads)
=============================================================================
