------------------------ MODULE MCChunkedGeneration ------------------------
(* TLC instances of ChunkedGeneration. *)
EXTENDS ChunkedGeneration, TLC

M(s, m, n) == [sequential |-> s, submits |-> m, stops |-> n]

\* One job at a time, stopped and resubmitted; jobs at once, none of them stopped.
MCModes == {M(TRUE, 2, 3), M(FALSE, 1, 0)}

MCOneStop == {M(TRUE, 1, 1)}
=============================================================================
