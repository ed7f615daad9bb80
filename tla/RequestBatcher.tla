-------------------------- MODULE RequestBatcher --------------------------
(***************************************************************************)
(* RequestBatcher of the unified server                                    *)
(* (recipes/multimodal/server/unified_server.py): handlers, timer and      *)
(* batch tasks on one asyncio event loop, the backend in an executor.      *)
(*                                                                         *)
(* The lock is never held across an await, so nothing ever waits for it:   *)
(* the code between two awaits that do suspend is one step.                *)
(*                                                                         *)
(* The names Batcher... leave the plain ones to HybridCache, the other     *)
(* module of CacheBatcherProofs.                                           *)
(***************************************************************************)
EXTENDS Naturals, Sequences, SequencesExt

CONSTANTS
    Requests,       \* requests in a behaviour, each made once
    Sizes, Timeouts \* values of the constructor's arguments to consider

ASSUME RequestBatcherAssumption ==
    /\ Requests \cap {"new", "waiting", "error", "cancelled"} = {}
    /\ Sizes \subseteq Nat \ {0}
    /\ Timeouts \subseteq Nat

VARIABLES
    batch_size, batch_timeout,
    pending_requests,
    timer,          \* timeout_task is set and not done
    processing,
    tasks,          \* _process_batch tasks created and not yet run
    in_backend,     \* batches for which backend.generate runs in the executor
    answer          \* the request's future: who its result was computed for, or its state

config      == <<batch_size, batch_timeout>>
batcherVars == <<config, pending_requests, timer, processing, tasks, in_backend, answer>>

BatcherTypeOK ==
    /\ batch_size \in Nat \ {0}
    /\ batch_timeout \in Nat
    /\ pending_requests \in Seq(Requests)
    /\ timer \in BOOLEAN
    /\ processing \in BOOLEAN
    /\ tasks \in Nat
    /\ in_backend \subseteq Seq(Requests)
    /\ \A b \in in_backend : Len(b) \in 1..batch_size
    /\ answer \in [Requests -> Requests \cup {"new", "waiting", "error", "cancelled"}]

BatcherInit ==
    /\ batch_size \in Sizes
    /\ batch_timeout \in Timeouts
    /\ pending_requests = <<>>
    /\ timer = FALSE
    /\ processing = FALSE
    /\ tasks = 0
    /\ in_backend = {}
    /\ answer = [r \in Requests |-> "new"]

(* A batch task for a full batch or without a timeout, otherwise the timer, *)
(* which is left alone if it runs.                                          *)
Schedule(pending) ==
    IF Len(pending) >= batch_size \/ batch_timeout = 0
    THEN tasks' = tasks + 1 /\ UNCHANGED timer
    ELSE timer' = TRUE /\ UNCHANGED tasks

add_request(r) ==
    /\ answer[r] = "new"
    /\ answer' = [answer EXCEPT ![r] = "waiting"]
    /\ pending_requests' = Append(pending_requests, r)
    /\ Schedule(pending_requests')
    /\ UNCHANGED <<config, processing, in_backend>>

\* The handler awaiting the future is cancelled; the request stays where it is.
Cancel(r) ==
    /\ answer[r] = "waiting"
    /\ answer' = [answer EXCEPT ![r] = "cancelled"]
    /\ UNCHANGED <<config, pending_requests, timer, processing, tasks, in_backend>>

\* The sleep is over: the handler checks under the lock and ends.
timeout_handler ==
    /\ timer
    /\ timer' = FALSE
    /\ tasks' = IF pending_requests # <<>> /\ ~processing THEN tasks + 1 ELSE tasks
    /\ UNCHANGED <<config, pending_requests, processing, in_backend, answer>>

BatchLen == IF Len(pending_requests) < batch_size THEN Len(pending_requests) ELSE batch_size

\* A batch task runs up to run_in_executor.
TakeBatch ==
    /\ tasks > 0
    /\ pending_requests # <<>>
    /\ ~processing
    /\ tasks' = tasks - 1
    /\ processing' = TRUE
    /\ in_backend' = in_backend \cup {SubSeq(pending_requests, 1, BatchLen)}
    /\ pending_requests' = SubSeq(pending_requests, BatchLen + 1, Len(pending_requests))
    /\ UNCHANGED <<config, timer, answer>>

\* It finds nothing to do, or another batch in progress.
SkipBatch ==
    /\ tasks > 0
    /\ pending_requests = <<>> \/ processing
    /\ tasks' = tasks - 1
    /\ UNCHANGED <<config, pending_requests, timer, processing, in_backend, answer>>

(* What the backend may return: a result per request, in order, or some    *)
(* request left out.  A result is named after the request it is for.       *)
Results(b) == {b} \cup {RemoveAt(b, i) : i \in 1..Len(b)}

\* Mutant: results are paired with requests from the front, however many there are.
ResolvedZip(b, results) ==
    [r \in Requests |->
        IF r \in Range(b) /\ answer[r] = "waiting"
        THEN LET i == CHOOSE j \in 1..Len(b) : b[j] = r
             IN  IF i <= Len(results) THEN results[i] ELSE "error"
        ELSE answer[r]]

\* The futures after results were set, or the exception of a wrong number of them.
Resolved(b, results) ==
    [r \in Requests |->
        IF r \in Range(b) /\ answer[r] = "waiting"
        THEN IF Len(results) = Len(b)
             THEN results[CHOOSE i \in 1..Len(b) : b[i] = r]
             ELSE "error"
        ELSE answer[r]]

\* Mutant: the end of a batch relies on the timer for what is still pending.
ReleaseOnly(b) ==
    /\ processing' = FALSE
    /\ in_backend' = in_backend \ {b}
    /\ UNCHANGED <<config, pending_requests, tasks, timer>>

\* The finally clause.
Release(b) ==
    /\ processing' = FALSE
    /\ in_backend' = in_backend \ {b}
    /\ IF pending_requests = <<>> THEN UNCHANGED <<tasks, timer>> ELSE Schedule(pending_requests)
    /\ UNCHANGED <<config, pending_requests>>

\* backend.generate returned, rightly or not; the rest of _process_batch does not suspend.
BackendReturns(b) ==
    /\ b \in in_backend
    /\ \E results \in Results(b) : answer' = Resolved(b, results)
    /\ Release(b)

BackendRaises(b) ==
    /\ b \in in_backend
    /\ answer' = Resolved(b, <<>>)
    /\ Release(b)

process_batch == TakeBatch \/ SkipBatch

BatcherNext ==
    \/ \E r \in Requests : add_request(r) \/ Cancel(r)
    \/ timeout_handler
    \/ process_batch
    \/ \E b \in in_backend : BackendReturns(b) \/ BackendRaises(b)

BatcherSpec == BatcherInit /\ [][BatcherNext]_batcherVars

(* The event loop runs every task that is ready, a sleep ends, and the     *)
(* backend returns or raises.                                              *)
BatcherFairSpec ==
    /\ BatcherSpec
    /\ WF_batcherVars(timeout_handler)
    /\ WF_batcherVars(process_batch)
    /\ WF_batcherVars(\E b \in in_backend : BackendReturns(b) \/ BackendRaises(b))

(***************************************************************************)
(* Properties.                                                             *)
(***************************************************************************)

(* While no batch is being processed, pending requests have a task coming  *)
(* for them, or the timer if they do not fill a batch: no interleaving of  *)
(* arrivals, a timer that fires in vain and the end of a batch leaves them *)
(* to the next arrival.                                                    *)
Scheduled ==
    pending_requests # <<>> /\ ~processing =>
        \/ tasks > 0
        \/ timer /\ Len(pending_requests) < batch_size /\ batch_timeout > 0

Service == INSTANCE BatchService WITH
    limit <- batch_size,
    queue <- pending_requests,
    serving <- UNION {Range(b) : b \in in_backend},
    answer <- answer

(* The batcher is a first-in first-out service with one batch at a time,   *)
(* its own result or an error for each request, and it answers every       *)
(* request that is still awaited.                                          *)
Implements == Service!FairSpec

=============================================================================
