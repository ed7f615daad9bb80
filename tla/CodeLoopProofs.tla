--------------------------- MODULE CodeLoopProofs ---------------------------
(***************************************************************************)
(* Proofs about CodeLoop and the calls it makes, those of ContextRetry: a  *)
(* reduced request fits the context window, whatever the prompt, the       *)
(* budgets and the chat template, and the loop accounts for its tokens.    *)
(***************************************************************************)
EXTENDS CodeLoop, FiniteSetTheorems, WellFoundedInduction, TLAPS

-----------------------------------------------------------------------------
(* The longest part of a prompt that fits.                                 *)

(* A set of numbers up to L that has zero in it has a greatest number: the *)
(* choice of the two trimming functions is one.                            *)
LEMMA Greatest ==
    ASSUME NEW L \in Nat, NEW fit \in SUBSET (0..L), 0 \in fit
    PROVE  \E k \in fit : \A m \in fit : m <= k
<1> DEFINE Above(k) == (k + 1)..L
           T == {Above(k) : k \in fit}
           R == StrictSubsetOrdering(0..L)
           S == FiniteSubsetsOf(0..L)
<1>1. T \subseteq S /\ T # {}
    <2> SUFFICES ASSUME NEW k \in fit
                 PROVE  Above(k) \in SUBSET (0..L) /\ IsFiniteSet(Above(k))
        BY DEF FiniteSubsetsOf
    <2>1. Above(k) \subseteq 0..L  OBVIOUS
    <2> QED  BY <2>1, FS_Interval
<1>2. PICK t \in T : \A u \in T : ~(<<u, t>> \in R)
    <2>1. IsWellFoundedOn(R, S)  BY FS_StrictSubsetOrderingWellFounded
    <2> HIDE DEF T, R, S
    <2> QED  BY <1>1, <2>1, WFMin
<1>3. PICK k \in fit : t = Above(k)  OBVIOUS
<1>4. ASSUME NEW m \in fit, k < m
      PROVE  FALSE
    <2>1. k \in Int /\ m \in Int /\ k < m /\ m <= L /\ 0 <= k  BY <1>4
    <2>2. Above(m) \subseteq Above(k)  BY <2>1
    <2>3. m \in Above(k) /\ m \notin Above(m)  BY <2>1
    <2>4. Above(m) \in SUBSET (0..L) /\ Above(k) \in SUBSET (0..L)  BY <2>1
    <2> HIDE DEF Above
    <2>5. <<Above(m), Above(k)>> \in R  BY <2>2, <2>3, <2>4 DEF StrictSubsetOrdering
    <2> QED  BY <2>5, <1>2, <1>3
<1>5. \A m \in fit : m <= k  BY <1>4
<1> QED  BY <1>5

(* The constants' types, and what the template costs, from the assumption. *)
LEMMA Constants ==
    /\ Prompts \subseteq Seq(Nat) \ {<<>>}
    /\ Budgets \subseteq (Nat \ {0}) \cup {None}
    /\ Windows \subseteq Nat /\ Special \in Nat /\ Overhead \in Nat
    /\ None \notin Int
BY ContextRetryAssumption

LEMMA Appended ==
    ASSUME NEW p \in Prompts, NEW n \in 0..Len(p), n < Len(p), NEW t \in 1..p[n + 1]
    PROVE  /\ Count(Append(First(p, n), t)) \in Nat
           /\ Count(Append(First(p, n), t)) <= Size(First(p, n)) + t + Overhead
BY ContextRetryAssumption

LEMMA Prepended ==
    ASSUME NEW p \in Prompts, NEW n \in 0..Len(p), n < Len(p), NEW t \in 1..p[Len(p) - n]
    PROVE  /\ Count(<<t>> \o Last(p, n)) \in Nat
           /\ Count(<<t>> \o Last(p, n)) <= Size(Last(p, n)) + t + Overhead
BY ContextRetryAssumption

(* First and Last of a prompt, and their sizes.                            *)
LEMMA Parts ==
    ASSUME NEW p \in Prompts, NEW n \in 0..Len(p)
    PROVE  /\ p \in Seq(Nat) /\ p # <<>> /\ Len(p) \in Nat
           /\ First(p, n) \in Seq(Nat) /\ Last(p, n) \in Seq(Nat)
           /\ First(p, 0) = <<>> /\ Last(p, 0) = <<>>
           /\ Size(First(p, n)) \in Nat /\ Size(Last(p, n)) \in Nat
<1>1. p \in Seq(Nat) /\ p # <<>> /\ Len(p) \in Nat  BY ContextRetryAssumption
<1>2. First(p, n) \in Seq(Nat) /\ Last(p, n) \in Seq(Nat)
    BY <1>1 DEF First, Last
<1>3. First(p, 0) = <<>> /\ Last(p, 0) = <<>>
    BY <1>1 DEF First, Last
<1>4. Size(First(p, n)) \in Nat /\ Size(Last(p, n)) \in Nat
    <2>1. CASE n = 0  BY <2>1, <1>3 DEF Size
    <2>2. CASE n > 0  BY <2>2, ContextRetryAssumption DEF Size
    <2> QED  BY <2>1, <2>2
<1> QED  BY <1>1, <1>2, <1>3, <1>4
LEMMA WholePrompt ==
    ASSUME NEW p \in Prompts
    PROVE  p \in Seq(Nat) /\ p # <<>> /\ Len(p) \in Nat \ {0} /\ Count(p) \in Nat
<1>1. p \in Seq(Nat) /\ p # <<>> /\ Len(p) \in Nat \ {0} /\ First(p, Len(p)) = p
    BY Constants DEF First
<1>2. Len(p) \in 0..Len(p) /\ Len(p) > 0  BY <1>1
<1>3. Count(First(p, Len(p))) \in Nat  BY <1>2, ContextRetryAssumption
<1> QED  BY <1>1, <1>3

-----------------------------------------------------------------------------
(* The trimmed prompts.                                                    *)

(* _trim_messages_from_end keeps a list within the tokens to keep, but for *)
(* the template's share of the message it shortens.                        *)
LEMMA TrimmedFromEnd ==
    ASSUME NEW p \in Prompts, NEW keep \in Int, FromEnd(p, keep) # <<>>
    PROVE  /\ FromEnd(p, keep) \in Seq(Nat)
           /\ Count(FromEnd(p, keep)) \in Nat
           /\ Count(FromEnd(p, keep)) <= keep + Overhead
<1> DEFINE fit  == {n \in 0..Len(p) : \A m \in 1..n : Count(First(p, m)) <= keep}
           n    == CHOOSE k \in fit : \A m \in fit : m <= k
           room == keep - Size(First(p, n))
<1>1. p \in Seq(Nat) /\ Len(p) \in Nat /\ Overhead \in Nat
    BY Parts, Constants
<1>2. n \in fit
    <2>1. 0 \in fit /\ fit \in SUBSET (0..Len(p))  BY <1>1
    <2> HIDE DEF fit
    <2> QED  BY <1>1, <2>1, Greatest
<1> HIDE DEF n
<1>3. n \in 0..Len(p) /\ (n > 0 => Count(First(p, n)) <= keep)  BY <1>1, <1>2
<1> HIDE DEF fit
<1>4. First(p, n) \in Seq(Nat) /\ First(p, 0) = <<>> /\ Size(First(p, n)) \in Nat
    BY <1>3, Parts
<1>5. CASE n < Len(p) /\ room > 0 /\ p[n + 1] > 0
    <2> DEFINE t == Least(p[n + 1], room)
    <2>1. p[n + 1] \in Nat /\ room \in Int  BY <1>1, <1>3, <1>4, <1>5
    <2>2. t \in 1..p[n + 1] /\ t <= room  BY <1>5, <2>1 DEF Least
    <2>3. FromEnd(p, keep) = Append(First(p, n), t)  BY <1>5 DEF FromEnd, fit, n
    <2> HIDE DEF t
    <2>4. /\ Count(Append(First(p, n), t)) \in Nat
          /\ Count(Append(First(p, n), t)) <= Size(First(p, n)) + t + Overhead
        BY <1>3, <1>5, <2>2, Appended
    <2>5. Append(First(p, n), t) \in Seq(Nat)  BY <1>4, <2>1, <2>2
    <2> QED  BY <1>1, <1>4, <2>1, <2>2, <2>3, <2>4, <2>5
<1>6. CASE ~(n < Len(p) /\ room > 0 /\ p[n + 1] > 0)
    <2>1. FromEnd(p, keep) = First(p, n)  BY <1>6 DEF FromEnd, fit, n
    <2>2. n > 0  BY <1>3, <1>4, <2>1
    <2>3. Count(First(p, n)) \in Nat  BY <1>3, <2>2, ContextRetryAssumption
    <2> QED  BY <1>1, <1>3, <1>4, <2>1, <2>2, <2>3
<1> QED  BY <1>5, <1>6

(* So does _trim_messages_from_start.                                      *)
LEMMA TrimmedFromStart ==
    ASSUME NEW p \in Prompts, NEW keep \in Int, FromStart(p, keep) # <<>>
    PROVE  /\ FromStart(p, keep) \in Seq(Nat)
           /\ Count(FromStart(p, keep)) \in Nat
           /\ Count(FromStart(p, keep)) <= keep + Overhead
<1> DEFINE fit  == {n \in 0..Len(p) : \A m \in 1..n : Count(Last(p, m)) <= keep}
           n    == CHOOSE k \in fit : \A m \in fit : m <= k
           room == keep - Size(Last(p, n))
<1>1. p \in Seq(Nat) /\ Len(p) \in Nat /\ Overhead \in Nat
    BY Parts, Constants
<1>2. n \in fit
    <2>1. 0 \in fit /\ fit \in SUBSET (0..Len(p))  BY <1>1
    <2> HIDE DEF fit
    <2> QED  BY <1>1, <2>1, Greatest
<1> HIDE DEF n
<1>3. n \in 0..Len(p) /\ (n > 0 => Count(Last(p, n)) <= keep)  BY <1>1, <1>2
<1> HIDE DEF fit
<1>4. Last(p, n) \in Seq(Nat) /\ Last(p, 0) = <<>> /\ Size(Last(p, n)) \in Nat
    BY <1>3, Parts
<1>5. n # Len(p)  BY DEF FromStart, fit, n
<1>6. CASE room > 0 /\ p[Len(p) - n] > 0
    <2> DEFINE t == Least(p[Len(p) - n], room)
    <2>1. p[Len(p) - n] \in Nat /\ room \in Int  BY <1>1, <1>3, <1>4, <1>5
    <2>2. t \in 1..p[Len(p) - n] /\ t <= room  BY <1>6, <2>1 DEF Least
    <2>3. FromStart(p, keep) = <<t>> \o Last(p, n)  BY <1>5, <1>6 DEF FromStart, fit, n
    <2> HIDE DEF t
    <2>4. /\ Count(<<t>> \o Last(p, n)) \in Nat
          /\ Count(<<t>> \o Last(p, n)) <= Size(Last(p, n)) + t + Overhead
        <3>1. n < Len(p)  BY <1>1, <1>3, <1>5
        <3> QED  BY <1>3, <2>2, <3>1, Prepended
    <2>5. <<t>> \o Last(p, n) \in Seq(Nat)  BY <1>4, <2>1, <2>2
    <2> QED  BY <1>1, <1>4, <2>1, <2>2, <2>3, <2>4, <2>5
<1>7. CASE ~(room > 0 /\ p[Len(p) - n] > 0)
    <2>1. FromStart(p, keep) = Last(p, n)  BY <1>5, <1>7 DEF FromStart, fit, n
    <2>2. n > 0  BY <1>3, <1>4, <2>1
    <2>3. Count(Last(p, n)) \in Nat  BY <1>3, <2>2, ContextRetryAssumption
    <2> QED  BY <1>1, <1>3, <1>4, <2>1, <2>2, <2>3
<1> QED  BY <1>6, <1>7

-----------------------------------------------------------------------------
(* The invariant of a call.                                                *)

(* A request that was not reduced is the caller's, and one that was has a  *)
(* generation budget.                                                      *)
Requested ==
    /\ prompt \in Prompts /\ tokens \in (Nat \ {0}) \cup {None}
    /\ ~list => Len(prompt) = 1
    /\ ~retried => sent = prompt /\ budget = tokens
    /\ retried => budget # None
    /\ list => Count(sent) \in Nat

Inv == TypeOK /\ Requested /\ Fits

NewRequest ==
    /\ Configured
    /\ prompt \in Prompts /\ tokens \in (Nat \ {0}) \cup {None}
    /\ ~list => Len(prompt) = 1
    /\ sent = prompt /\ budget = tokens
    /\ retried = FALSE /\ attempts = 0
    /\ pc = "server" /\ outcome = "none" /\ num = 0

LEMMA NewCall == NewRequest => Inv
<1> SUFFICES ASSUME NewRequest PROVE Inv  OBVIOUS
<1> USE DEF NewRequest
<1>1. prompt \in Seq(Nat) /\ prompt # <<>> /\ Count(prompt) \in Nat  BY WholePrompt
<1>2. TypeOK
    <2>1. tokens \in Int \cup {None}  OBVIOUS
    <2>2. attempts \in 0..MaxRetries  BY DEF MaxRetries
    <2> QED  BY <1>1, <2>1, <2>2 DEF TypeOK
<1>3. Requested  BY <1>1 DEF Requested
<1>4. Fits  BY DEF Fits
<1> QED  BY <1>2, <1>3, <1>4 DEF Inv

LEMMA NextCall == NewRequest' => Inv'
BY NewCall, PTL

LEMMA InvInit == Init => Inv
BY NewCall, Constants DEF Init, NewRequest

(* What the invariant says of the configuration and of the request.        *)
LEMMA Known ==
    ASSUME Inv
    PROVE  /\ window \in Nat /\ Special \in Nat /\ Overhead \in Nat /\ Safe \in Int
           /\ list \in BOOLEAN /\ retried \in BOOLEAN
           /\ prompt \in Prompts /\ prompt \in Seq(Nat) /\ prompt # <<>>
           /\ prompt[1] \in Nat /\ Length(prompt) \in Nat
           /\ (tokens = None \/ tokens \in Nat \ {0}) /\ None \notin Int
           /\ sent \in Seq(Nat) /\ sent # <<>> /\ Length(sent) \in Nat
           /\ (budget = None \/ budget \in Nat \ {0})
<1>1. window \in Nat /\ list \in BOOLEAN /\ retried \in BOOLEAN
    BY Constants DEF Inv, TypeOK, Configured
<1>2. Safe \in Int  BY <1>1, Constants DEF Safe
<1>3. prompt \in Prompts /\ tokens \in (Nat \ {0}) \cup {None}  BY DEF Inv, Requested
<1>4. prompt \in Seq(Nat) /\ prompt # <<>> /\ Len(prompt) \in Nat \ {0} /\ Count(prompt) \in Nat
    BY <1>3, WholePrompt
<1>5. prompt[1] \in Nat /\ Length(prompt) \in Nat  BY <1>4 DEF Length
<1>6. /\ sent \in Seq(Nat) /\ sent # <<>> /\ (list => Count(sent) \in Nat)
      /\ (budget = None \/ budget \in Nat \ {0})
    BY DEF Inv, TypeOK, Requested
<1>7. sent[1] \in Nat  BY <1>6
<1>8. Length(sent) \in Nat  BY <1>6, <1>7 DEF Length
<1> QED  BY <1>1, <1>2, <1>3, <1>4, <1>5, <1>6, <1>8, Constants

(* The reduced prompt of a strategy that trims it.                         *)
LEMMA TrimmedFits ==
    ASSUME Inv, TrimsPrompt, NEW keep \in Int, list => Trimmed(keep) # <<>>
    PROVE  /\ Trimmed(keep) \in Seq(Nat) \ {<<>>}
           /\ (list => Count(Trimmed(keep)) \in Nat)
           /\ Length(Trimmed(keep)) \in Nat
           /\ (list => Length(Trimmed(keep)) <= keep + Overhead)
           /\ (~list /\ keep > 0 => Length(Trimmed(keep)) <= keep)
<1>1. CASE list
    <2>1. prompt \in Prompts  BY Known
    <2>2. CASE strategy = "reduce_prompt_from_start"
        <3>1. Trimmed(keep) = FromStart(prompt, keep)  BY <1>1, <2>2 DEF Trimmed
        <3> QED  BY <1>1, <2>1, <3>1, TrimmedFromStart DEF Length
    <2>3. CASE strategy # "reduce_prompt_from_start"
        <3>1. Trimmed(keep) = FromEnd(prompt, keep)  BY <1>1, <2>3 DEF Trimmed
        <3> QED  BY <1>1, <2>1, <3>1, TrimmedFromEnd DEF Length
    <2> QED  BY <2>2, <2>3
<1>2. CASE ~list
    <2>1. prompt[1] \in Nat  BY Known
    <2>2. Sliced(prompt[1], keep) \in Nat /\ (keep > 0 => Sliced(prompt[1], keep) <= keep)
        <3>1. CASE keep > 0  BY <2>1, <3>1 DEF Sliced, Least
        <3>2. CASE keep < 0  BY <2>1, <3>2 DEF Sliced
        <3>3. CASE keep = 0  BY <2>1, <3>3 DEF Sliced, TrimsPrompt
        <3> QED  BY <3>1, <3>2, <3>3
    <2>3. Trimmed(keep) = <<Sliced(prompt[1], keep)>>  BY <1>2 DEF Trimmed
    <2>4. Trimmed(keep) \in Seq(Nat) \ {<<>>} /\ Trimmed(keep)[1] = Sliced(prompt[1], keep)
        BY <2>2, <2>3
    <2> QED  BY <1>2, <2>2, <2>4 DEF Length
<1>3. list \in BOOLEAN  BY Known
<1> QED  BY <1>1, <1>2, <1>3

(* The reduced request is typed, has a budget and fits.                    *)
LEMMA ReducedFits ==
    ASSUME Inv, NEW form \in Forms,
           ~PrepareRaises(form), ~PrepareRefuses(form),
           Reduced(form), UNCHANGED <<config, request>>
    PROVE  /\ sent' \in Seq(Nat) \ {<<>>} /\ budget' \in Nat \ {0}
           /\ (list => Count(sent') \in Nat)
           /\ Fits'
<1>1. /\ window' = window /\ list' = list /\ strategy' = strategy
      /\ prompt' = prompt /\ tokens' = tokens
      /\ Safe' = Safe /\ TrimsPrompt' = TrimsPrompt
      /\ Length(sent)' = Length(sent')
    BY DEF config, request, Safe, TrimsPrompt, Length
<1>2. CASE TrimsPrompt
    <2>1. tokens \in Nat \ {0} /\ (form = "sizes" => tokens < Safe)
        <3>1. tokens # None /\ (form = "sizes" => ~(tokens >= Safe))
            BY <1>2 DEF PrepareRaises
        <3> QED  BY <3>1, Known
    <2> DEFINE keep == Safe - tokens
    <2>2. Keep(form) = keep
        <3>1. window \in Nat /\ Special \in Nat /\ Length(prompt) \in Nat  BY Known
        <3> QED  BY <2>1, <3>1 DEF Keep, Safe
    <2>3. keep \in Int  BY <2>1, Known
    <2>4. sent' = Trimmed(keep) /\ budget' = tokens  BY <1>2, <2>2 DEF Reduced
    <2>5. list => Trimmed(keep) # <<>>  BY <1>2, <2>2 DEF PrepareRefuses
    <2>6. /\ Trimmed(keep) \in Seq(Nat) \ {<<>>}
          /\ (list => Count(Trimmed(keep)) \in Nat)
          /\ Length(Trimmed(keep)) \in Nat
          /\ (list => Length(Trimmed(keep)) <= keep + Overhead)
          /\ (~list /\ keep > 0 => Length(Trimmed(keep)) <= keep)
        <3> HIDE DEF keep
        <3> QED  BY <1>2, <2>3, <2>5, TrimmedFits
    <2>7. Fits'
        <3>1. /\ Safe \in Int /\ Overhead \in Nat /\ tokens \in Nat
              /\ sent' = Trimmed(keep) /\ Length(sent') \in Nat
            BY <2>1, <2>4, <2>6, Known
        <3>4. list => Length(sent') + tokens <= Safe + Overhead
            BY <2>6, <3>1
        <3>5. ~list /\ tokens < Safe => Length(sent') + tokens <= Safe
            BY <2>6, <3>1
        <3>2. list \in BOOLEAN  BY Known
        <3>3. Safe \in Int /\ Length(sent') \in Nat  BY <2>4, <2>6, Known
        <3> QED  BY <1>1, <1>2, <2>1, <2>4, <3>2, <3>3, <3>4, <3>5 DEF Fits
    <2> QED  BY <2>1, <2>4, <2>6, <2>7
<1>3. CASE ~TrimsPrompt
    <2>1. Length(prompt) < Safe
        <3>1. ~(Length(prompt) >= Safe)  BY <1>3 DEF PrepareRefuses
        <3> QED  BY <3>1, Known
    <2> DEFINE rest == Safe - Length(prompt)
    <2>2. sent' = prompt /\ budget' = IF tokens = None THEN rest ELSE Least(tokens, rest)
        BY <1>3 DEF Reduced
    <2>3. budget' \in Nat \ {0} /\ budget' <= rest
        BY <2>1, <2>2, Known DEF Least
    <2>4. list => Count(sent') \in Nat
        BY <2>2, Known DEF Length
    <2>5. Length(sent') + budget' <= Safe
        BY <2>2, <2>3, Known
    <2>6. Fits'  BY <1>1, <1>3, <2>5, Known DEF Fits
    <2> QED  BY <2>2, <2>3, <2>4, <2>6, Known
<1> QED  BY <1>2, <1>3

(* A step that leaves what was sent alone keeps all of it.                 *)
LEMMA InvSame ==
    ASSUME Inv, UNCHANGED <<config, request>>, sent' = sent, budget' = budget, retried' = retried,
           attempts' \in 0..MaxRetries, pc' \in {"server", "done"},
           outcome' \in {"none", "generated", "error", "gave up", "raised"}, num' \in Nat
    PROVE  Inv'
<1>1. TypeOK'  BY DEF Inv, TypeOK, Configured, config, request
<1>2. Requested'  BY DEF Inv, Requested, config, request
<1>3. Fits'  BY DEF Inv, Fits, Length, Safe, TrimsPrompt, config, request
<1> QED  BY <1>1, <1>2, <1>3 DEF Inv

LEMMA InvNext == Inv /\ [Answer]_<<config, request, call>> => Inv'
<1> SUFFICES ASSUME Inv, [Answer]_<<config, request, call>> PROVE Inv'  OBVIOUS
<1>1. /\ attempts \in 0..MaxRetries /\ pc \in {"server", "done"} /\ num \in Nat
      /\ outcome \in {"none", "generated", "error", "gave up", "raised"}
    BY DEF Inv, TypeOK
<1>2. CASE Generates
    <2>1. num' \in Nat  BY <1>2 DEF Generates, Returns
    <2> QED  BY <1>1, <1>2, <2>1, InvSame DEF Generates, Returns
<1>3. CASE BadRequest
    <2>1. UNCHANGED <<config, request>>  BY <1>3 DEF BadRequest
    <2>2. CASE attempts < MaxRetries
        <3>1. attempts' = attempts + 1 /\ UNCHANGED <<sent, budget, retried, pc, outcome, num>>
            BY <1>3, <2>2 DEF BadRequest
        <3>2. attempts \in 0..MaxRetries /\ attempts' = attempts + 1  BY <1>1, <3>1
        <3>3. attempts' \in 0..MaxRetries  BY <2>2, <3>2 DEF MaxRetries
        <3> QED  BY <1>1, <2>1, <3>1, <3>3, InvSame
    <2>3. CASE ~(attempts < MaxRetries)
        <3>1. Returns("gave up", 0)  BY <1>3, <2>3 DEF BadRequest
        <3> QED  BY <1>1, <2>1, <3>1, InvSame DEF Returns
    <2> QED  BY <2>2, <2>3
<1>4. CASE Fails
    BY <1>1, <1>4, InvSame DEF Fails, Returns
<1>5. ASSUME NEW form \in Forms, Exceeded(form)
      PROVE  Inv'
    <2>1. CASE \E how \in {"raised", "error"} : Returns(how, 0)
        <3>1. UNCHANGED <<config, request>>  BY <1>5 DEF Exceeded
        <3>2. PICK how \in {"raised", "error"} : Returns(how, 0)  BY <2>1
        <3>3. /\ sent' = sent /\ budget' = budget /\ retried' = retried /\ attempts' = attempts
              /\ pc' = "done" /\ outcome' = how /\ num' = 0
            BY <3>2 DEF Returns
        <3> QED  BY <1>1, <3>1, <3>3, InvSame
    <2>2. CASE /\ ~PrepareRaises(form) /\ ~PrepareRefuses(form)
               /\ Reduced(form)
               /\ retried' = TRUE /\ attempts' = 0
               /\ UNCHANGED <<pc, outcome, num>>
        <3>1. UNCHANGED <<config, request>>  BY <1>5 DEF Exceeded
        <3>2. /\ sent' \in Seq(Nat) \ {<<>>} /\ budget' \in Nat \ {0}
              /\ (list => Count(sent') \in Nat)
              /\ Fits'
            BY <2>2, <3>1, ReducedFits
        <3>3. TypeOK'
            <4>1. Configured'  BY <3>1 DEF Inv, TypeOK, Configured, config
            <4>2. /\ prompt' \in Seq(Nat) \ {<<>>} /\ tokens' \in Int \cup {None}
                  /\ pc' \in {"server", "done"} /\ num' \in Nat
                  /\ outcome' \in {"none", "generated", "error", "gave up", "raised"}
                BY <1>1, <2>2, <3>1 DEF Inv, TypeOK, request
            <4>3. retried' \in BOOLEAN /\ attempts' \in 0..MaxRetries
                BY <2>2 DEF MaxRetries
            <4> QED  BY <3>2, <4>1, <4>2, <4>3 DEF TypeOK
        <3>4. Requested'
            BY <2>2, <3>1, <3>2, Constants DEF Inv, Requested, config, request
        <3> QED  BY <3>2, <3>3, <3>4 DEF Inv
    <2> QED  BY <1>5, <2>1, <2>2 DEF Exceeded
<1>6. CASE UNCHANGED <<config, request, call>>
    BY <1>1, <1>6, InvSame DEF call
<1> QED  BY <1>2, <1>3, <1>4, <1>5, <1>6 DEF Answer

LEMMA InvHolds == Spec => []Inv
BY InvInit, InvNext, PTL DEF Spec

(* The variables of a call keep their types: what is sent always has a     *)
(* message and a positive budget.                                          *)
THEOREM TypeCorrect == Spec => []TypeOK
BY InvHolds, PTL DEF Inv

(* A request that _prepare_context_error_retry has reduced fits the        *)
(* context window, for every prompt, budget, window and tokenizer whose    *)
(* template adds at most Overhead to a shortened message.                  *)
THEOREM ReducedRequestFits == Spec => []Fits
BY InvHolds, PTL DEF Inv

-----------------------------------------------------------------------------
(* What a call leaves to the loop.  The loop takes the tokens of an answer *)
(* off the caller's budget, so that the exception of Fits may no longer    *)
(* hold: an answer that has tokens must come from a request that fits.     *)

Total  == Length(sent) + budget
Within == Total <= Safe + (IF TrimsPrompt /\ list THEN Overhead ELSE 0)

Answered ==
    /\ outcome = "generated" => pc = "done"
    /\ outcome # "generated" => num = 0
    /\ retried => Within \/ Total > window
    /\ retried /\ outcome = "generated" => Within

(* A string is cut to a request that fits, or to one that still overflows. *)
LEMMA SlicedFits ==
    ASSUME NEW n \in Nat, window \in Nat, Special \in Nat, Special <= window, n > window,
           NEW t \in Nat \ {0}, TrimsPrompt
    PROVE  \/ Sliced(n, Safe - t) + t <= Safe
           \/ Sliced(n, Safe - t) + t > window
<1>1. Safe \in Nat
    BY DEF Safe
<1>2. CASE Safe - t > 0
    BY <1>1, <1>2 DEF Sliced, Least
<1>3. CASE Safe - t = 0
    BY <1>1, <1>3 DEF Sliced, TrimsPrompt
<1>4. CASE Safe - t < 0
    BY <1>1, <1>4 DEF Sliced
<1> QED  BY <1>1, <1>2, <1>3, <1>4

LEMMA AnsweredNext ==
    ASSUME Inv, Answered, Answer, Special <= window
    PROVE  Answered'
<1>1. UNCHANGED <<config, request>>
    BY DEF Answer, Generates, BadRequest, Fails, Exceeded
<1>2. /\ list' = list /\ Safe' = Safe /\ TrimsPrompt' = TrimsPrompt /\ window' = window
      /\ Length(sent)' = Length(sent')
    BY <1>1 DEF config, Safe, TrimsPrompt, Length
<1>3. ASSUME sent' = sent, budget' = budget
      PROVE  Within' = Within /\ Total' = Total
    BY <1>2, <1>3 DEF Within, Total
<1>4. CASE Generates
    <2>1. /\ Demand <= window /\ pc' = "done" /\ outcome' = "generated"
          /\ UNCHANGED <<sent, budget, retried>>
        BY <1>4 DEF Generates, Returns
    <2>2. retried => Total = Demand
        BY DEF Inv, Requested, Total, Demand
    <2>3. retried => Within
        BY <2>1, <2>2, Known DEF Answered, Total, Demand
    <2> QED  BY <1>2, <1>3, <2>1, <2>3 DEF Answered
<1>5. ASSUME UNCHANGED <<sent, budget, retried>>,
             UNCHANGED <<pc, outcome, num>> \/ (pc' = "done" /\ outcome' # "generated" /\ num' = 0)
      PROVE  Answered'
    BY <1>2, <1>3, <1>5 DEF Answered
<1>6. CASE BadRequest
    <2>1. UNCHANGED <<sent, budget, retried, pc, outcome, num>> \/ Returns("gave up", 0)
        BY <1>6 DEF BadRequest
    <2> QED  BY <1>5, <2>1 DEF Returns
<1>7. CASE Fails
    BY <1>5, <1>7 DEF Fails, Returns
<1>8. ASSUME NEW form \in Forms, Exceeded(form)
      PROVE  Answered'
    <2>1. CASE Returns("raised", 0) \/ Returns("error", 0)
        BY <1>5, <2>1 DEF Returns
    <2>2. CASE /\ soft /\ strategy # None /\ ~PrepareRaises(form) /\ ~PrepareRefuses(form)
               /\ Reduced(form) /\ retried' = TRUE /\ UNCHANGED <<pc, outcome, num>>
        <3>1. Fits'
            BY <1>1, <2>2, ReducedFits
        <3>2. CASE TrimsPrompt /\ ~list /\ ~(tokens < Safe)
            \* The server has reported an overflow: the string is longer than the window.
            <4>1. form = "overflow" /\ tokens \in Nat \ {0}
                BY <2>2, <3>2, Known DEF PrepareRaises, Forms
            <4>2. sent = prompt /\ Length(sent) > window
                BY <1>8, <4>1 DEF Exceeded, Inv, Requested
            <4>3. prompt[1] > window /\ prompt[1] \in Nat /\ window \in Nat /\ Special \in Nat
                BY <3>2, <4>2, Known DEF Length
            <4>4. Keep(form) = Safe - tokens
                BY <4>1, Known DEF Keep, Safe
            <4>5. sent' = <<Sliced(prompt[1], Safe - tokens)>> /\ budget' = tokens
                BY <2>2, <3>2, <4>4 DEF Reduced, Trimmed
            <4>6. Total' = Sliced(prompt[1], Safe - tokens) + tokens
                BY <1>2, <3>2, <4>5 DEF Total, Length
            <4>7. Within' \/ Total' > window'
                <5>1. \/ Sliced(prompt[1], Safe - tokens) + tokens <= Safe
                      \/ Sliced(prompt[1], Safe - tokens) + tokens > window
                    BY <3>2, <4>1, <4>3, SlicedFits
                <5>2. Within' <=> Total' <= Safe
                    <6>1. Safe + 0 = Safe  BY Known
                    <6>2. ~(TrimsPrompt /\ list)'  BY <1>2, <3>2
                    <6> QED  BY <1>2, <6>1, <6>2 DEF Within
                <5> QED  BY <1>2, <4>6, <5>1, <5>2
            <4> QED  BY <2>2, <4>7, <1>8 DEF Answered, Exceeded
        <3>3. CASE ~(TrimsPrompt /\ ~list /\ ~(tokens < Safe))
            <4>1. Within'
                BY <1>1, <1>2, <2>2, <3>1, <3>3 DEF Fits, Within, Total, request
            <4> QED  BY <2>2, <4>1, <1>8 DEF Answered, Exceeded
        <3> QED  BY <3>2, <3>3
    <2> QED  BY <1>8, <2>1, <2>2 DEF Exceeded
<1> QED  BY <1>4, <1>6, <1>7, <1>8 DEF Answer

-----------------------------------------------------------------------------
(* The loop.  A prompt grows in it by any number of tokens: the loop is    *)
(* considered with every prompt there is.                                  *)

AnyPrompt == Prompts = Seq(Nat) \ {<<>>}

(* The window has room for the special tokens.                             *)
Roomy == \A w \in Windows : Special <= w

(* The configuration and the loop's own variables, at each point of a turn *)
Turn ==
    /\ Configured
    /\ stream \in BOOLEAN /\ rounds \in Rounds /\ given \in Budgets
    /\ at \in {"head", "call", "sandbox", "cleanup", "end"}
    /\ round \in 0..rounds /\ executed \in 0..round
    /\ session \in {"none", "open", "deleted", "kept"}
    /\ result \in {"none", "ok", "raised"}
    /\ ended \in {"none", "time", "rounds", "budget", "no code", "exception"}
    /\ word \in {"none", "model", "sandbox"}
    /\ at = "sandbox" => round # rounds

(* The prompt has a message, and in the sandbox the reply and "continue".  *)
Prompted ==
    /\ prompt \in Seq(Nat) \ {<<>>}
    /\ ~list => Len(prompt) = 1
    /\ at = "sandbox" /\ list => Len(prompt) > 1

(* The budget that is left                                                 *)
Balanced ==
    /\ total \in Nat
    /\ tokens = None <=> given = None
    /\ given # None => tokens \in Int /\ total + tokens = given
    /\ at \in {"head", "call", "sandbox"} => tokens = None \/ tokens > 0
    /\ at = "sandbox" => tokens # None

(* The last call, while it runs and after its answer has been used         *)
Called ==
    /\ TypeOK
    /\ at = "call" => Inv /\ (Roomy => Answered)
    /\ at \in {"head", "sandbox"} /\ retried /\ Roomy => Within
    /\ Roomy => Fits

LoopInv == Turn /\ Prompted /\ Balanced /\ Called

(* What the loop makes of a prompt is a prompt of the same kind.           *)
LEMMA Grown ==
    ASSUME AnyPrompt, prompt \in Seq(Nat) \ {<<>>}, list \in BOOLEAN, ~list => Len(prompt) = 1,
           NEW n \in Nat
    PROVE  /\ Reply(prompt, n) \in Seq(Nat) \ {<<>>}
           /\ list => Len(Reply(prompt, n)) > 1
           /\ ~list => Len(Reply(prompt, n)) = 1
           /\ (list /\ Len(prompt) > 1) \/ ~list =>
                /\ Output(prompt, n) \in Seq(Nat) \ {<<>>}
                /\ ~list => Len(Output(prompt, n)) = 1
<1>1. Continue \in Nat
    BY CodeLoopAssumption
<1>2. CASE list
    BY <1>1, <1>2 DEF Reply, Output
<1>3. CASE ~list
    BY <1>3 DEF Reply, Output
<1> QED  BY <1>2, <1>3

LEMMA LoopInitInv == ASSUME AnyPrompt, LoopInit  PROVE LoopInv
<1>1. /\ Configured /\ prompt \in Prompts /\ tokens \in Budgets /\ given = tokens
      /\ ~list => Len(prompt) = 1
      /\ retried = FALSE /\ at = "head"
    BY DEF LoopInit, Init
<1>2. Inv
    BY InvInit DEF LoopInit
<1>3. Turn
    <2>1. /\ stream \in BOOLEAN /\ rounds \in Rounds /\ round = 0 /\ executed = 0
          /\ session = "none" /\ result = "none" /\ ended = "none" /\ word = "none"
        BY DEF LoopInit
    <2>2. rounds \in Nat
        BY <2>1, CodeLoopAssumption
    <2>3. round \in 0..rounds /\ executed \in 0..round
        BY <2>1, <2>2
    <2> QED  BY <1>1, <2>1, <2>3 DEF Turn
<1>4. Prompted
    BY <1>1, Constants DEF Prompted
<1>5. Balanced
    <2>1. total = 0 /\ (tokens = None \/ tokens \in Nat \ {0})
        BY <1>1, Constants DEF LoopInit
    <2> QED  BY <1>1, <2>1 DEF Balanced
<1>6. Called
    BY <1>1, <1>2 DEF Called, Inv
<1> QED  BY <1>3, <1>4, <1>5, <1>6 DEF LoopInv

(* A step that leaves the request and its answer alone                     *)
LEMMA CallKept ==
    ASSUME UNCHANGED <<config, request, call>>
    PROVE  /\ Inv' = Inv /\ Answered' = Answered /\ TypeOK' = TypeOK
           /\ Within' = Within /\ Fits' = Fits /\ Configured' = Configured
BY DEF Inv, Answered, Requested, TypeOK, Configured, Fits, Within, Total, Length, Safe, TrimsPrompt,
       config, request, call

(* The answer's tokens, or the output's, are taken off the budget.         *)
LEMMA Spent ==
    ASSUME Balanced, NEW n \in Nat, tokens # None, Spend(n), given' = given
    PROVE  /\ total' \in Nat /\ tokens' \in Int /\ tokens' # None /\ given # None
           /\ total' + tokens' = given'
BY Constants DEF Balanced, Spend

(* The last request, when the loop goes on with another prompt and budget  *)
LEMMA CallUsed ==
    ASSUME TypeOK, UNCHANGED <<config, call>>,
           prompt' \in Seq(Nat) \ {<<>>}, tokens' \in Int
    PROVE  /\ TypeOK' /\ Within' = Within
           /\ (retried => Within) => Fits'
           /\ tokens' = tokens => Fits' = Fits
<1>1. TypeOK'
    BY DEF TypeOK, Configured, config, call
<1>2. Within' = Within
    BY DEF Within, Total, Length, Safe, TrimsPrompt, config, call
<1>3. (retried => Within) => Fits'
    BY <1>2 DEF Fits, Within, Total, Length, Safe, TrimsPrompt, config, call
<1>4. tokens' = tokens => Fits' = Fits
    BY DEF Fits, Length, Safe, TrimsPrompt, config, call
<1> QED  BY <1>1, <1>2, <1>3, <1>4

LEMMA LoopNextInv ==
    ASSUME AnyPrompt, LoopInv, [Next]_vars
    PROVE  LoopInv'
<1> USE DEF LoopInv
<1>1. CASE UNCHANGED vars
    <2>1. UNCHANGED <<config, request, call, setup, loop>>
        BY <1>1 DEF vars
    <2>2. Turn'
        BY <2>1, CallKept DEF Turn, setup, loop
    <2>3. Prompted'
        BY <2>1 DEF Prompted, request, config, loop
    <2>4. Balanced'
        BY <2>1 DEF Balanced, request, setup, loop
    <2>5. Called'
        BY <2>1, CallKept DEF Called, call, loop
    <2> QED  BY <2>2, <2>3, <2>4, <2>5
<1>2. ASSUME UNCHANGED <<config, request, call, setup, round, executed, total, word>>,
             at' \in {"cleanup", "end"},
             session' \in {"none", "open", "deleted", "kept"},
             result' \in {"none", "ok", "raised"},
             ended' \in {"none", "time", "rounds", "budget", "no code", "exception"}
      PROVE  LoopInv'
    <2>1. Turn'
        BY <1>2, CallKept DEF Turn, setup
    <2>2. Prompted' /\ Balanced'
        BY <1>2 DEF Prompted, Balanced, request, config, setup
    <2>3. Called'
        BY <1>2, CallKept DEF Called, Inv
    <2> QED  BY <2>1, <2>2, <2>3
<1>3. CASE TimeOut
    BY <1>2, <1>3 DEF TimeOut, Leave, Turn
<1>4. CASE CallRaises \/ StreamRaises
    BY <1>2, <1>4 DEF CallRaises, StreamRaises, Leave, Turn
<1>5. CASE ExecuteRaises
    BY <1>2, <1>5 DEF ExecuteRaises, Leave, Turn
<1>6. CASE Cleanup
    BY <1>2, <1>6 DEF Cleanup, Turn
<1>7. CASE Ask
    <2>1. /\ at = "head" /\ at' = "call"
          /\ sent' = prompt /\ budget' = tokens
          /\ retried' = FALSE /\ attempts' = 0
          /\ pc' = "server" /\ outcome' = "none" /\ num' = 0
          /\ UNCHANGED <<config, request, setup, round, executed, total, session, result, ended, word>>
        BY <1>7 DEF Ask
    <2>2. Configured' /\ Turn'
        <3>1. Configured'
            BY <2>1 DEF Turn, Configured, config
        <3> QED  BY <2>1, <3>1 DEF Turn, setup
    <2>3. Prompted' /\ Balanced'
        BY <2>1 DEF Prompted, Balanced, request, config, setup
    <2>4. tokens \in (Nat \ {0}) \cup {None}
        <3>1. tokens = None \/ (tokens \in Int /\ tokens > 0)
            BY <2>1 DEF Balanced
        <3> QED  BY <3>1
    <2>5. NewRequest'
        BY <2>1, <2>2, <2>4 DEF NewRequest, AnyPrompt, Prompted, request, config
    <2>6. Answered'
        BY <2>1 DEF Answered
    <2> QED  BY <2>1, <2>2, <2>3, <2>5, <2>6, NextCall DEF Called, Inv
<1>8. CASE Call
    <2>1. at = "call" /\ Answer /\ UNCHANGED <<setup, loop>>
        BY <1>8 DEF Call
    <2>2. UNCHANGED <<config, request>>
        BY <2>1 DEF Answer, Generates, BadRequest, Fails, Exceeded
    <2>3. Inv'
        BY <2>1, InvNext DEF Called
    <2>4. Roomy => Answered'
        BY <2>1, AnsweredNext DEF Called, Roomy, Turn, Configured
    <2>5. Turn' /\ Prompted' /\ Balanced'
        <3>1. UNCHANGED <<config, request, setup, loop>> /\ Configured'
            BY <2>1, <2>2 DEF Turn, Configured, config
        <3>2. Turn'
            BY <3>1 DEF Turn, setup, loop
        <3>3. Prompted'
            BY <3>1 DEF Prompted, request, config, loop
        <3>4. Balanced'
            BY <3>1 DEF Balanced, request, setup, loop
        <3> QED  BY <3>2, <3>3, <3>4
    <2>6. at' = "call"
        BY <2>1 DEF loop
    <2> QED  BY <2>3, <2>4, <2>5, <2>6 DEF Called, Inv
<1>9. ASSUME NEW ending \in Endings, CallReturns(ending)
      PROVE  LoopInv'
    <2> DEFINE n == num + (IF ending = "open" THEN CodeEnd ELSE 0)
    <2>1. /\ at = "call" /\ pc = "done" /\ tokens # None
          /\ Spend(n) /\ prompt' \in {prompt, Reply(prompt, n)} /\ word' = "model"
          /\ UNCHANGED <<config, call, setup, round, executed, session>>
        BY <1>9 DEF CallReturns
    <2>2. n \in Nat /\ (outcome # "generated" /\ Roomy => n = 0)
        <3>1. num \in Nat /\ CodeEnd \in Nat
            BY CodeLoopAssumption DEF Called, TypeOK
        <3>2. outcome # "generated" => ending # "open"
            BY DEF Endings
        <3>3. outcome # "generated" /\ Roomy => num = 0
            BY <2>1 DEF Called, Answered
        <3> QED  BY <3>1, <3>2, <3>3
    \* The loop is left, or has code to execute and something left to spend.
    <2>3. \/ /\ at' = "cleanup" /\ result' = "ok"
             /\ ended' \in {"rounds", "budget", "no code"}
          \/ /\ at' = "sandbox" /\ UNCHANGED <<result, ended>>
             /\ round # rounds /\ ~(tokens' <= 0) /\ outcome = "generated"
             /\ prompt' = Reply(prompt, n)
        BY <1>9 DEF CallReturns, Leave, Endings
    <2> HIDE DEF n
    <2>4. /\ total' \in Nat /\ tokens' \in Int /\ tokens' # None /\ given # None
          /\ total' + tokens' = given'
        BY <2>1, <2>2, Spent DEF setup
    <2>5. Turn'
        BY <2>1, <2>3 DEF Turn, Configured, config, setup
    <2>6. Prompted'
        BY <2>1, <2>2, <2>3, Grown DEF Prompted, Turn, Configured, config
    <2>7. Balanced'
        <3>1. at' = "cleanup" \/ (at' = "sandbox" /\ ~(tokens' <= 0))
            BY <2>3
        <3>2. given' = given
            BY <2>1 DEF setup
        <3>3. at' \in {"head", "call", "sandbox"} => tokens' > 0
            BY <2>4, <3>1
        <3> QED  BY <2>4, <3>2, <3>3 DEF Balanced
    <2>8. Called'
        <3>1. /\ TypeOK' /\ Within' = Within
              /\ (retried => Within) => Fits'
              /\ tokens' = tokens => Fits' = Fits
            BY <2>1, <2>4, <2>6, CallUsed DEF Called, Prompted
        <3>2. ASSUME Roomy
              PROVE  Fits'
            <4>1. CASE outcome = "generated"
                BY <2>1, <3>1, <3>2, <4>1 DEF Called, Answered
            <4>2. CASE outcome # "generated"
                <5>1. tokens' = tokens
                    BY <2>1, <2>2, <3>2, <4>2 DEF Spend, Balanced
                <5> QED  BY <3>1, <3>2, <5>1 DEF Called
            <4> QED  BY <4>1, <4>2
        <3>3. at' = "sandbox" /\ retried' /\ Roomy => Within'
            BY <2>1, <2>3, <3>1 DEF Called, Answered, call
        <3> QED  BY <2>3, <3>1, <3>2, <3>3 DEF Called
    <2> QED  BY <2>5, <2>6, <2>7, <2>8
<1>10. CASE Execute
    <2>1. PICK o \in 0..MaxOutput :
            /\ Spend(o)
            /\ \/ /\ at' = "cleanup" /\ result' = "ok" /\ ended' = "budget"
                  /\ word' \in {word, "sandbox"} /\ UNCHANGED <<prompt, round, executed>>
               \/ /\ ~(tokens' <= 0)
                  /\ prompt' = Output(prompt, o)
                  /\ round' = round + 1 /\ executed' = executed + 1
                  /\ word' = "sandbox" /\ at' = "head"
                  /\ UNCHANGED <<result, ended>>
        BY <1>10 DEF Execute, Leave
    <2>2. at = "sandbox" /\ session' = "open" /\ UNCHANGED <<config, call, setup>>
        BY <1>10 DEF Execute
    <2>3. o \in Nat /\ tokens # None
        BY <2>2, CodeLoopAssumption DEF Balanced
    <2>4. /\ total' \in Nat /\ tokens' \in Int /\ tokens' # None /\ given # None
          /\ total' + tokens' = given'
        BY <2>1, <2>2, <2>3, Spent DEF setup
    <2>5. Turn'
        <3>1. rounds \in Nat
            BY CodeLoopAssumption DEF Turn
        <3>2. round' \in 0..rounds' /\ executed' \in 0..round'
            <4>1. round \in 0..rounds /\ executed \in 0..round /\ round # rounds /\ rounds' = rounds
                BY <2>2 DEF Turn, setup
            <4>2. \/ round' = round /\ executed' = executed
                  \/ round' = round + 1 /\ executed' = executed + 1
                BY <2>1
            <4> QED  BY <3>1, <4>1, <4>2
        <3> QED  BY <2>1, <2>2, <3>2 DEF Turn, Configured, config, setup
    <2>6. Prompted'
        BY <2>1, <2>2, <2>3, Grown DEF Prompted, Turn, Configured, config
    <2>7. Balanced'
        BY <2>1, <2>2, <2>4 DEF Balanced, setup
    <2>8. Called'
        <3>1. TypeOK' /\ Within' = Within /\ ((retried => Within) => Fits')
            BY <2>2, <2>4, <2>6, CallUsed DEF Called, Prompted
        <3> QED  BY <2>1, <2>2, <3>1 DEF Called, call
    <2> QED  BY <2>5, <2>6, <2>7, <2>8
<1> QED  BY <1>1, <1>3, <1>4, <1>5, <1>6, <1>7, <1>8, <1>9, <1>10 DEF Next, Work

LEMMA LoopInvHolds == ASSUME AnyPrompt  PROVE LoopSpec => []LoopInv
<1>1. LoopInit => LoopInv
    BY LoopInitInv
<1>2. LoopInv /\ [Next]_vars => LoopInv'
    BY LoopNextInv
<1> QED  BY <1>1, <1>2, PTL DEF LoopSpec

(* The state of the loop is well formed, whatever the model and the        *)
(* sandbox answer: every request has a message, and a budget above zero.   *)
THEOREM LoopTypeCorrect == ASSUME AnyPrompt  PROVE LoopSpec => []LoopTypeOK
<1>1. LoopInv => LoopTypeOK
    BY DEF LoopInv, Turn, Balanced, Called, LoopTypeOK
<1> QED  BY LoopInvHolds, <1>1, PTL

(* Every token the generation reports, of the model or of an output, is    *)
(* taken off its budget, and no turn asks the model for nothing.           *)
THEOREM TokensAccounted == ASSUME AnyPrompt  PROVE LoopSpec => []Accounted
<1>1. LoopInv => Accounted
    <2> SUFFICES ASSUME LoopInv, given # None
                 PROVE  /\ total + tokens = given
                        /\ at = "call" /\ pc = "server" => budget > 0
        BY DEF Accounted
    <2>1. total + tokens = given /\ tokens # None
        BY DEF LoopInv, Balanced
    <2>2. at = "call" => budget \in Nat \ {0}
        BY <2>1, Known DEF LoopInv, Called, Inv, Requested
    <2> QED  BY <2>1, <2>2
<1> QED  BY LoopInvHolds, <1>1, PTL

(* A request that is reduced in any turn of the loop fits the window, as   *)
(* the budget shrinks and the prompt grows.                                *)
THEOREM EveryTurnFits == ASSUME AnyPrompt, Roomy  PROVE LoopSpec => []Fits
<1>1. LoopInv => Fits
    BY DEF LoopInv, Called
<1> QED  BY LoopInvHolds, <1>1, PTL

-----------------------------------------------------------------------------
(* The last word, which needs nothing of the calls or of the tokens.       *)

LastWordInv ==
    /\ at = "sandbox" => word = "model"
    /\ at \in {"cleanup", "end"} /\ word = "sandbox" =>
          ended \in {"time", "exception"} \/ (stream /\ ended = "budget")

(* The output of a code block that the caller gets is followed by a turn   *)
(* of the model, unless time ran out or something raised, or a stream has  *)
(* yielded output that uses up the budget.                                 *)
THEOREM ModelSpeaksLast == LoopSpec => []LastWord
<1>1. LoopInit => LastWordInv
    BY DEF LoopInit, LastWordInv
<1>2. LastWordInv /\ [Next]_vars => LastWordInv'
    BY DEF LastWordInv, Next, Work, vars, setup, loop, Ask, Call, CallRaises, CallReturns, Execute, Cleanup,
           TimeOut, StreamRaises, ExecuteRaises, Leave
<1>3. LastWordInv => LastWord
    BY DEF LastWordInv, LastWord
<1> QED  BY <1>1, <1>2, <1>3, PTL DEF LoopSpec
=============================================================================
