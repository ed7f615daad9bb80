---------------------------- MODULE ContextRetry ----------------------------
(***************************************************************************)
(* One call of a model client: BaseModel.generate_async                    *)
(* (nemo_skills/inference/model/base.py) under with_context_retry          *)
(* (nemo_skills/inference/model/context_retry.py), which answers a prompt  *)
(* that does not fit the server's context window by reducing the request   *)
(* and sending it once more.                                               *)
(*                                                                         *)
(* A prompt is a list of messages, or one string, and only the number of   *)
(* tokens of each content is kept.  Everything between two answers of the  *)
(* server is synchronous, and one step here.                               *)
(***************************************************************************)
EXTENDS Integers, Sequences

CONSTANTS
    Prompts,        \* prompts to consider: sequences of content lengths
    Budgets,        \* values of tokens_to_generate; None lets the server choose
    Windows,        \* context lengths
    Special,        \* num_special_tokens_budget
    Overhead,       \* tokens that the chat template and the tools add to a first message
    Count(_),       \* tokenizer.encode of a list of messages
    None

First(p, n) == SubSeq(p, 1, n)
Last(p, n)  == SubSeq(p, Len(p) - n + 1, Len(p))

\* Tokens of a part of a prompt; an empty part has none, not even the template's.
Size(p) == IF p = <<>> THEN 0 ELSE Count(p)

\* The template adds at most Overhead to what a shortened message adds to its neighbours.
ASSUME ContextRetryAssumption ==
    /\ Prompts \subseteq Seq(Nat) \ {<<>>}
    /\ Budgets \subseteq (Nat \ {0}) \cup {None}
    /\ Windows \subseteq Nat /\ Special \in Nat /\ Overhead \in Nat
    /\ None \notin Int
    /\ \A p \in Prompts : \A n \in 0..Len(p) :
        /\ n > 0 => Count(First(p, n)) \in Nat /\ Count(Last(p, n)) \in Nat
        /\ n < Len(p) =>
            /\ \A t \in 1..p[n + 1] :
                /\ Count(Append(First(p, n), t)) \in Nat
                /\ Count(Append(First(p, n), t)) <= Size(First(p, n)) + t + Overhead
            /\ \A t \in 1..p[Len(p) - n] :
                /\ Count(<<t>> \o Last(p, n)) \in Nat
                /\ Count(<<t>> \o Last(p, n)) <= Size(Last(p, n)) + t + Overhead

VARIABLES
    soft, strategy, list, tokenizer, window,    \* configuration
    prompt, tokens,     \* the caller's request
    sent, budget,       \* the request as it was sent
    retried,            \* has it been reduced?
    attempts,           \* retry_count
    pc,
    outcome, num        \* of the call; num is num_generated_tokens

config  == <<soft, strategy, list, tokenizer, window>>
request == <<prompt, tokens>>
call    == <<sent, budget, retried, attempts, pc, outcome, num>>

Strategies == {None, "reduce_generation", "reduce_prompt_from_start", "reduce_prompt_from_end"}
MaxRetries == 2

Configured ==
    /\ soft \in BOOLEAN /\ strategy \in Strategies
    /\ list \in BOOLEAN /\ tokenizer \in BOOLEAN
    /\ window \in Windows

TypeOK ==
    /\ Configured
    /\ prompt \in Seq(Nat) \ {<<>>} /\ tokens \in Int \cup {None}
    /\ sent \in Seq(Nat) \ {<<>>} /\ budget \in (Nat \ {0}) \cup {None}
    /\ retried \in BOOLEAN
    /\ attempts \in 0..MaxRetries
    /\ pc \in {"server", "done"}
    /\ outcome \in {"none", "generated", "error", "gave up", "raised"}
    /\ num \in Nat

Init ==
    /\ Configured
    /\ prompt \in Prompts /\ tokens \in Budgets
    /\ ~list => Len(prompt) = 1
    /\ sent = prompt /\ budget = tokens
    /\ retried = FALSE /\ attempts = 0
    /\ pc = "server" /\ outcome = "none" /\ num = 0

-----------------------------------------------------------------------------
(* The reduced request.                                                    *)

Least(a, b) == IF a <= b THEN a ELSE b

Length(p) == IF list THEN Count(p) ELSE p[1]
Safe      == window - Special

TrimsPrompt == strategy \in {"reduce_prompt_from_start", "reduce_prompt_from_end"}

\* _trim_messages_from_end: the messages that fit, and of the next one what still fits.
FromEnd(p, keep) ==
    LET fit  == {n \in 0..Len(p) : \A m \in 1..n : Count(First(p, m)) <= keep}
        n    == CHOOSE k \in fit : \A m \in fit : m <= k
        room == keep - Size(First(p, n))
    IN  IF n < Len(p) /\ room > 0 /\ p[n + 1] > 0
        THEN Append(First(p, n), Least(p[n + 1], room))
        ELSE First(p, n)

\* _trim_messages_from_start: likewise from the other side, but nothing if all fit.
FromStart(p, keep) ==
    LET fit  == {n \in 0..Len(p) : \A m \in 1..n : Count(Last(p, m)) <= keep}
        n    == CHOOSE k \in fit : \A m \in fit : m <= k
        room == keep - Size(Last(p, n))
    IN  IF n = Len(p) THEN <<>>
        ELSE IF room > 0 /\ p[Len(p) - n] > 0
             THEN <<Least(p[Len(p) - n], room)>> \o Last(p, n)
             ELSE Last(p, n)

\* _trim_string_prompt: tokens[-keep:] and tokens[:keep] of n tokens, keep of any sign
Sliced(n, keep) ==
    CASE keep > 0                                                -> Least(n, keep)
      [] keep = 0 /\ strategy = "reduce_prompt_from_start"       -> n
      [] keep = 0 /\ strategy = "reduce_prompt_from_end"         -> 0
      [] keep < 0                                                -> IF n + keep > 0 THEN n + keep ELSE 0

Trimmed(keep) ==
    IF ~list THEN <<Sliced(prompt[1], keep)>>
    ELSE IF strategy = "reduce_prompt_from_start" THEN FromStart(prompt, keep)
    ELSE FromEnd(prompt, keep)

\* Mutant: the budget for special tokens is not taken off.
KeepUnsafe(form) ==
    IF form = "overflow"
    THEN Length(prompt) - ((Length(prompt) - window) + tokens)
    ELSE window - tokens

\* num_prompt_tokens_to_keep; an overflow message tells how far the prompt is beyond the window.
Keep(form) ==
    IF form = "overflow"
    THEN Length(prompt) - ((Length(prompt) - window) + tokens + Special)
    ELSE Safe - tokens

\* What _prepare_context_error_retry cannot do anything about: an exception ...
PrepareRaises(form) ==
    \/ form = "unparsed"
    \/ /\ TrimsPrompt
       /\ \/ ~tokenizer
          \/ tokens = None
          \/ form = "sizes" /\ tokens >= Safe

\* ... or None
PrepareRefuses(form) ==
    IF TrimsPrompt THEN list /\ Trimmed(Keep(form)) = <<>>
    ELSE form = "overflow" \/ Length(prompt) >= Safe

Reduced(form) ==
    IF TrimsPrompt
    THEN sent' = Trimmed(Keep(form)) /\ budget' = tokens
    ELSE LET rest == Safe - Length(prompt) IN
         sent' = prompt /\ budget' = IF tokens = None THEN rest ELSE Least(tokens, rest)

-----------------------------------------------------------------------------
(* The server's answers.                                                   *)

Demand == Length(sent) + (IF budget = None THEN 1 ELSE budget)

Returns(how, n) ==
    /\ pc' = "done" /\ outcome' = how /\ num' = n
    /\ UNCHANGED <<sent, budget, retried, attempts>>

Generates ==
    /\ pc = "server" /\ Demand <= window
    /\ \E n \in 1..(IF budget = None THEN window - Length(sent) ELSE budget) : Returns("generated", n)
    /\ UNCHANGED <<config, request>>

\* "output messages (reasoning and final)": the same request again, three times in all.
BadRequest ==
    /\ pc = "server"
    /\ IF attempts < MaxRetries
       THEN attempts' = attempts + 1 /\ UNCHANGED <<sent, budget, retried, pc, outcome, num>>
       ELSE Returns("gave up", 0)
    /\ UNCHANGED <<config, request>>

\* Any other error, of the reduced request too, ends the call.
Fails ==
    /\ pc = "server"
    /\ Returns(IF soft THEN "error" ELSE "raised", 0)
    /\ UNCHANGED <<config, request>>

\* The context window is exceeded; some servers refuse a request that just fits.
Exceeded(form) ==
    /\ pc = "server" /\ ~retried /\ Demand >= window
    /\ form = "overflow" => Length(sent) > window
    /\ IF ~soft THEN Returns("raised", 0)
       ELSE IF strategy = None THEN Returns("error", 0)
       ELSE IF PrepareRaises(form) THEN Returns("raised", 0)
       ELSE IF PrepareRefuses(form) THEN Returns("error", 0)
       ELSE /\ Reduced(form)
            /\ retried' = TRUE /\ attempts' = 0
            /\ UNCHANGED <<pc, outcome, num>>
    /\ UNCHANGED <<config, request>>

Forms == {"sizes", "overflow", "unparsed"}

Answer == Generates \/ BadRequest \/ Fails \/ \E form \in Forms : Exceeded(form)

Spec == Init /\ [][Answer]_<<config, request, call>>

-----------------------------------------------------------------------------
(* Properties.                                                             *)

(* A reduced request fits the window, with num_special_tokens_budget to    *)
(* spare, of which a shortened message takes its share of the template.    *)
(* The one exception is a string whose generation budget alone fills the   *)
(* window, when the server reports an overflow: the slice's bound is then  *)
(* not positive.                                                           *)
Fits ==
    retried /\ (TrimsPrompt /\ ~list => tokens < Safe) =>
        Length(sent) + budget <= Safe + (IF TrimsPrompt /\ list THEN Overhead ELSE 0)
=============================================================================
