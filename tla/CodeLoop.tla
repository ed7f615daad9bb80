------------------------------ MODULE CodeLoop ------------------------------
(***************************************************************************)
(* A generation that runs the code it writes: CodeExecutionWrapper.        *)
(* _generate_single and its streaming twin (nemo_skills/inference/model/   *)
(* code_execution.py).  Every turn of the loop is a call of the model      *)
(* client, hence of ContextRetry, whose request is the loop's own: the     *)
(* prompt that grows and the budget that shrinks with every turn.          *)
(*                                                                         *)
(* SandboxSession has what happens in the session, this module only that   *)
(* it is opened and closed.                                                *)
(***************************************************************************)
EXTENDS ContextRetry

CONSTANTS
    Rounds,         \* values of max_code_executions to consider
    CodeEnd,        \* tokens of code_end, when the loop has to add it
    Continue,       \* tokens of the user message "continue"
    MaxOutput       \* bound: tokens of the formatted output of one code block

ASSUME CodeLoopAssumption ==
    /\ Rounds \subseteq Nat
    /\ CodeEnd \in Nat /\ Continue \in Nat /\ MaxOutput \in Nat

VARIABLES
    stream, rounds,         \* configuration
    given,                  \* the tokens_to_generate of the generation
    at,
    round,                  \* generation_index
    executed, total,        \* code_rounds_executed, total_num_generated_tokens
    session,                \* session_id is None, names a session, or the session is deleted
    result,
    ended,                  \* why the loop was left
    word                    \* history: whose turn ends the text that the caller gets

setup == <<stream, rounds, given>>
loop  == <<at, round, executed, total, session, result, ended, word>>
vars  == <<config, request, call, setup, loop>>

LoopTypeOK ==
    /\ TypeOK
    /\ stream \in BOOLEAN /\ rounds \in Rounds /\ given \in Budgets
    /\ at \in {"head", "call", "sandbox", "cleanup", "end"}
    /\ round \in 0..rounds /\ executed \in 0..round
    /\ total \in Nat
    /\ session \in {"none", "open", "deleted", "kept"}
    /\ result \in {"none", "ok", "raised"}
    /\ ended \in {"none", "time", "rounds", "budget", "no code", "exception"}
    /\ word \in {"none", "model", "sandbox"}

LoopInit ==
    /\ Init
    /\ stream \in BOOLEAN /\ rounds \in Rounds /\ given = tokens
    /\ at = "head" /\ round = 0
    /\ executed = 0 /\ total = 0
    /\ session = "none" /\ result = "none" /\ ended = "none" /\ word = "none"

\* The loop is left: a break or an exception, and the finally clause is next.
Leave(how, why) == at' = "cleanup" /\ result' = how /\ ended' = why

\* The top of the loop: the time that is left, unless streaming, and the next call.
TimeOut ==
    /\ at = "head" /\ ~stream /\ round > 0
    /\ Leave("ok", "time")
    /\ UNCHANGED <<config, request, call, setup, round, executed, total, session, word>>

Ask ==
    /\ at = "head"
    /\ sent' = prompt /\ budget' = tokens
    /\ retried' = FALSE /\ attempts' = 0
    /\ pc' = "server" /\ outcome' = "none" /\ num' = 0
    /\ at' = "call"
    /\ UNCHANGED <<config, request, setup, round, executed, total, session, result, ended, word>>

\* The model client works on the call.
Call ==
    /\ at = "call"
    /\ Answer
    /\ UNCHANGED <<setup, loop>>

\* The reply, or the code's output, joins the prompt: as messages, or at the string's end.
Reply(p, n)  == IF list THEN p \o <<n, Continue>> ELSE [p EXCEPT ![1] = @ + n]
Output(p, o) == LET i == IF list THEN Len(p) - 1 ELSE 1 IN [p EXCEPT ![i] = @ + o]

\* The call raises; streaming, so does the loop over the dictionary that soft fail or a
\* given-up request returns; and a budget of None cannot be reduced.
CallRaises ==
    /\ at = "call" /\ pc = "done"
    /\ \/ outcome = "raised"
       \/ stream /\ outcome \in {"error", "gave up"}
       \/ tokens = None
    /\ Leave("raised", "exception")
    /\ UNCHANGED <<config, request, call, setup, round, executed, total, session, word>>

\* A stream may break after the client has returned it.
StreamRaises ==
    /\ at = "call" /\ pc = "done" /\ stream /\ outcome = "generated"
    /\ Leave("raised", "exception")
    /\ UNCHANGED <<config, request, call, setup, round, executed, total, session, word>>

\* How the output ends: with code_end, in a code block that the loop closes, or in text.
Endings == IF outcome = "generated" THEN {"closed", "open", "text"} ELSE {"text"}

Spend(n) == tokens' = tokens - n /\ total' = total + n

CallReturns(ending) ==
    /\ at = "call" /\ pc = "done"
    /\ outcome # "raised" /\ (stream => outcome = "generated") /\ tokens # None
    /\ LET n == num + (IF ending = "open" THEN CodeEnd ELSE 0) IN
        /\ Spend(n)
        /\ IF stream /\ (tokens' <= 0 \/ n = 0)                    \* tested first in a stream
           THEN Leave("ok", IF tokens' <= 0 THEN "budget" ELSE "no code") /\ UNCHANGED prompt
           ELSE /\ prompt' = Reply(prompt, n)
                /\ IF round = rounds THEN Leave("ok", "rounds")
                   ELSE IF tokens' <= 0 THEN Leave("ok", "budget")
                   ELSE IF ending = "text" THEN Leave("ok", "no code")
                   ELSE at' = "sandbox" /\ UNCHANGED <<result, ended>>
    /\ word' = "model"
    /\ UNCHANGED <<config, call, setup, round, executed, session>>

\* Mutants: the output is not taken off the budget; it is shown before the budget is tested.
ExecuteFree ==
    /\ at = "sandbox"
    /\ session' = "open"
    /\ \E o \in 0..MaxOutput :
        /\ total' = total + o
        /\ prompt' = Output(prompt, o)
    /\ round' = round + 1 /\ executed' = executed + 1
    /\ word' = "sandbox"
    /\ at' = "head"
    /\ UNCHANGED <<config, call, setup, tokens, result, ended>>
ExecuteShown ==
    /\ at = "sandbox"
    /\ session' = "open"
    /\ \E o \in 0..MaxOutput : Spend(o) /\ prompt' = Output(prompt, o)
    /\ round' = round + 1 /\ executed' = executed + 1
    /\ word' = "sandbox"
    /\ IF tokens' <= 0 THEN Leave("ok", "budget") ELSE at' = "head" /\ UNCHANGED <<result, ended>>
    /\ UNCHANGED <<config, call, setup>>

\* execute_code returns; the session is named by its first reply.  A stream yields the output
\* before the budget is tested, the other twin appends it only after that.
Execute ==
    /\ at = "sandbox"
    /\ session' = "open"
    /\ \E o \in 0..MaxOutput :
        /\ Spend(o)
        /\ IF tokens' <= 0
           THEN /\ Leave("ok", "budget")
                /\ word' = IF stream THEN "sandbox" ELSE word
                /\ UNCHANGED <<prompt, round, executed>>
           ELSE /\ prompt' = Output(prompt, o)
                /\ round' = round + 1 /\ executed' = executed + 1
                /\ word' = "sandbox"
                /\ at' = "head"
                /\ UNCHANGED <<result, ended>>
    /\ UNCHANGED <<config, call, setup>>

ExecuteRaises ==
    /\ at = "sandbox"
    /\ Leave("raised", "exception")
    /\ UNCHANGED <<config, request, call, setup, round, executed, total, session, word>>

\* Mutant: the session is deleted only after a result.
CleanupOnSuccess ==
    /\ at = "cleanup"
    /\ at' = "end"
    /\ IF session = "open" /\ result = "ok" THEN session' \in {"deleted", "kept"} ELSE UNCHANGED session
    /\ UNCHANGED <<config, request, call, setup, round, executed, total, result, ended, word>>

\* The finally clause; delete_session gives up, quietly, after its attempts.
Cleanup ==
    /\ at = "cleanup"
    /\ at' = "end"
    /\ IF session = "open" THEN session' \in {"deleted", "kept"} ELSE UNCHANGED session
    /\ UNCHANGED <<config, request, call, setup, round, executed, total, result, ended, word>>

Work ==
    \/ Ask \/ Call \/ CallRaises
    \/ \E ending \in Endings : CallReturns(ending)
    \/ Execute \/ Cleanup

Next == Work \/ TimeOut \/ StreamRaises \/ ExecuteRaises

LoopSpec == LoopInit /\ [][Next]_vars

\* Server and sandbox answer, and the event loop resumes the coroutine.
FairSpec == LoopSpec /\ WF_vars(Work)

-----------------------------------------------------------------------------
(* Properties.                                                             *)

(* What the generation reports as num_generated_tokens and what is left of *)
(* its budget are the budget it was given, over every turn, code output    *)
(* and reduced request; and the model is never asked for no tokens.        *)
Accounted ==
    given # None =>
        /\ total + tokens = given
        /\ at = "call" /\ pc = "server" => budget > 0

(* "adding plus one to make sure there is always some completion after the *)
(* last requested code block": output of a code block that the caller gets *)
(* is followed by a turn of the model, in whatever turn the executions or  *)
(* the budget end.  Two exceptions: time ran out or something raised; and  *)
(* in a stream, output that itself uses up the budget has been yielded.    *)
LastWord ==
    at = "end" /\ word = "sandbox" => ended \in {"time", "exception"} \/ (stream /\ ended = "budget")

(* The loop ends, and with it the session it has opened.                   *)
Ends == <>(at = "end" /\ session # "open")
=============================================================================
