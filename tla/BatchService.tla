--------------------------- MODULE BatchService ---------------------------
(***************************************************************************)
(* What the unified server's batcher promises to the handlers of           *)
(* /v1/chat/completions, without its tasks and timers: requests are taken  *)
(* in the order they came in, at most limit at a time, a batch only when   *)
(* the one before it is over, and a request that is still awaited ends     *)
(* with the result computed for it or with an error.                       *)
(***************************************************************************)
EXTENDS Naturals, Sequences

CONSTANT Requests      \* distinct from the states of a request, "new" and so on

VARIABLES
    limit,      \* largest batch
    queue,      \* requests not yet taken, oldest first
    serving,    \* the batch in service
    answer      \* a request's state, or the request whose result it was given

vars == <<limit, queue, serving, answer>>

Init ==
    /\ limit \in Nat \ {0}
    /\ queue = <<>>
    /\ serving = {}
    /\ answer = [r \in Requests |-> "new"]

Submit(r) ==
    /\ answer[r] = "new"
    /\ answer' = [answer EXCEPT ![r] = "waiting"]
    /\ queue' = Append(queue, r)
    /\ UNCHANGED <<limit, serving>>

Abandon(r) ==
    /\ answer[r] = "waiting"
    /\ answer' = [answer EXCEPT ![r] = "cancelled"]
    /\ UNCHANGED <<limit, queue, serving>>

Serve ==
    /\ serving = {}
    /\ \E n \in 1..Len(queue) :
        /\ n <= limit
        /\ serving' = {queue[i] : i \in 1..n}
        /\ queue' = SubSeq(queue, n + 1, Len(queue))
    /\ UNCHANGED <<limit, answer>>

\* The whole batch succeeds or the whole batch fails.
Complete ==
    /\ serving # {}
    /\ \E failed \in BOOLEAN :
        answer' = [r \in Requests |->
            IF r \in serving /\ answer[r] = "waiting"
            THEN IF failed THEN "error" ELSE r
            ELSE answer[r]]
    /\ serving' = {}
    /\ UNCHANGED <<limit, queue>>

Next ==
    \/ \E r \in Requests : Submit(r) \/ Abandon(r)
    \/ Serve
    \/ Complete

Spec == Init /\ [][Next]_vars

FairSpec == Spec /\ WF_vars(Serve) /\ WF_vars(Complete)
=============================================================================
