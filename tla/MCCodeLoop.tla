----------------------------- MODULE MCCodeLoop -----------------------------
(* TLC instances of CodeLoop. *)
EXTENDS CodeLoop, TLC

S == INSTANCE SequencesExt

\* A template of one token per list and one per message.
MCCount(p) == S!FoldLeft(LAMBDA sum, n : sum + n + 1, 1, p)

MCPrompts == {<<2>>, <<10>>, <<1, 5>>, <<5, 1>>}
=============================================================================
