---------------------------- MODULE ToolCalling ----------------------------
(***************************************************************************)
(* Generations that call tools: ToolCallingWrapper.generate_async and its  *)
(* streaming twin (nemo_skills/inference/model/tool_call.py), the          *)
(* ToolManager they share (nemo_skills/mcp/tool_manager.py), and the       *)
(* sandbox sessions of DirectPythonTool                                    *)
(* (nemo_skills/mcp/servers/python_tool.py).                               *)
(*                                                                         *)
(* Everything runs on one event loop, so a step is the code between two    *)
(* awaits.  Of a session only its existence matters here: SandboxSession   *)
(* has what happens in it.                                                 *)
(***************************************************************************)
EXTENDS Integers

CONSTANTS
    Requests,       \* generations; each has its own request_id
    Providers,      \* tool classes; each offers one tool
    Names,          \* raw tool names
    Budgets,        \* values of tokens_to_generate to consider; None is no budget
    Limits,         \* values of max_tool_calls to consider; None is -1
    Streams,        \* values of stream to consider
    MaxCalls,       \* bound: tool calls in one turn of the model
    MaxOutput,      \* bound: tokens of a turn's tool output
    MaxSessions,    \* bound: sandbox sessions
    None

ASSUME ToolCallingAssumption ==
    /\ None \notin Requests \cup Providers \cup Nat
    /\ Budgets \subseteq (Nat \ {0}) \cup {None}
    /\ Limits \subseteq Nat \cup {None}
    /\ Streams \subseteq BOOLEAN
    /\ {MaxCalls, MaxOutput, MaxSessions} \subseteq Nat

Sessions == 1..MaxSessions
Labels   == {"new", "lock", "list", "turn", "model", "tools", "call", "cleanup", "end"}

VARIABLES
    raw, limit, stream,         \* each provider's tool; the wrapper's settings
    \* ToolManager
    lock,                       \* holder of _list_lock
    loads,                      \* load_provider tasks that await their provider
    raw_to_qualified_map,       \* raw name -> provider
    cached,                     \* is _tool_list_cache set?
    \* generate_async, per request
    pc, left, executed,         \* left is tokens_to_generate
    asked, todo,                \* tool calls of this turn, and those not executed yet
    outcome,
    \* DirectPythonTool and the sandbox
    requests_to_sessions,
    calling,                    \* session of the execute_code call under way
    opened,                     \* sessions named so far
    queued, live,               \* requests on their way to the sandbox; sessions it holds
    excused                     \* history: sessions whose deletion was given up or made impossible

config  == <<raw, limit, stream>>
manager == <<lock, loads, raw_to_qualified_map, cached>>
loop    == <<pc, left, executed, asked, todo, outcome>>
sandbox == <<requests_to_sessions, calling, opened, queued, live, excused>>
vars    == <<config, manager, loop, sandbox>>

TypeOK ==
    /\ raw \in [Providers -> Names] /\ limit \in Limits /\ stream \in BOOLEAN
    /\ lock \in Requests \cup {None}
    /\ \A r \in Requests : lock = r <=> pc[r] = "list"
    /\ loads \subseteq Requests \X Providers
    /\ raw_to_qualified_map \in [Names -> Providers \cup {None}]
    /\ cached \in BOOLEAN
    /\ pc \in [Requests -> Labels]
    /\ left \in [Requests -> Int \cup {None}]
    /\ executed \in [Requests -> Nat]
    /\ limit # None => \A r \in Requests : executed[r] <= limit
    /\ asked \in [Requests -> 0..MaxCalls] /\ todo \in [Requests -> 0..MaxCalls]
    /\ outcome \in [Requests -> {"none", "ok", "raised", "cancelled"}]
    /\ requests_to_sessions \in [Requests -> Sessions \cup {None}]
    /\ calling \in [Requests -> Sessions \cup {None}]
    /\ \A r \in Requests : calling[r] # None <=> pc[r] = "call"
    /\ opened \in 0..MaxSessions
    /\ queued \subseteq Sessions /\ live \subseteq Sessions /\ excused \subseteq Sessions

Init ==
    /\ raw \in [Providers -> Names] /\ limit \in Limits /\ stream \in Streams
    /\ lock = None /\ loads = {} /\ cached = FALSE
    /\ raw_to_qualified_map = [n \in Names |-> None]
    /\ pc = [r \in Requests |-> "new"]
    /\ \E budget \in Budgets : left = [r \in Requests |-> budget]
    /\ executed = [r \in Requests |-> 0]
    /\ asked = [r \in Requests |-> 0] /\ todo = [r \in Requests |-> 0]
    /\ outcome = [r \in Requests |-> "none"]
    /\ requests_to_sessions = [r \in Requests |-> None]
    /\ calling = [r \in Requests |-> None]
    /\ opened = 0 /\ queued = {} /\ live = {} /\ excused = {}

Goto(r, label) == pc' = [pc EXCEPT ![r] = label]

\* The loop is left with a result or with an exception: the finally clause is next.
Leave(r, how) ==
    /\ Goto(r, "cleanup")
    /\ outcome' = [outcome EXCEPT ![r] = how]
    /\ asked' = [asked EXCEPT ![r] = 0]
    /\ todo' = [todo EXCEPT ![r] = 0]

(***************************************************************************)
(* list_all_tools, with the lock held until gather returns or raises.      *)
(***************************************************************************)

Begin(r) ==
    /\ pc[r] = "new"
    /\ Goto(r, "lock")
    /\ UNCHANGED <<config, manager, left, executed, asked, todo, outcome, sandbox>>

ListCached(r) ==
    /\ pc[r] = "lock" /\ lock = None /\ cached
    /\ Goto(r, "turn")
    /\ UNCHANGED <<config, manager, left, executed, asked, todo, outcome, sandbox>>

ListProviders(r) ==
    /\ pc[r] = "lock" /\ lock = None /\ ~cached
    /\ lock' = r
    /\ loads' = loads \cup ({r} \X Providers)
    /\ Goto(r, "list")
    /\ UNCHANGED <<config, raw_to_qualified_map, cached, left, executed, asked, todo, outcome, sandbox>>

\* gather passes on the first exception and forgets the other tasks, which go on.
ListRaises(r) ==
    IF pc[r] = "list"
    THEN /\ lock' = None
         /\ Goto(r, "end")
         /\ outcome' = [outcome EXCEPT ![r] = "raised"]
    ELSE UNCHANGED <<lock, pc, outcome>>

\* Mutant: the last provider that offers a name gets it.
LoadOverwrites(r, p) ==
    /\ <<r, p>> \in loads
    /\ raw_to_qualified_map' = [raw_to_qualified_map EXCEPT ![raw[p]] = p]
    /\ loads' = loads \ {<<r, p>>}
    /\ IF pc[r] = "list" /\ loads \cap ({r} \X Providers) = {<<r, p>>}
       THEN cached' = TRUE /\ lock' = None /\ Goto(r, "turn")
       ELSE UNCHANGED <<cached, lock, pc>>
    /\ UNCHANGED <<config, left, executed, asked, todo, outcome, sandbox>>

\* A provider has answered, and its tool's raw name is free.
Load(r, p) ==
    /\ <<r, p>> \in loads
    /\ raw_to_qualified_map[raw[p]] = None
    /\ raw_to_qualified_map' = [raw_to_qualified_map EXCEPT ![raw[p]] = p]
    /\ loads' = loads \ {<<r, p>>}
    /\ IF pc[r] = "list" /\ loads \cap ({r} \X Providers) = {<<r, p>>}
       THEN cached' = TRUE /\ lock' = None /\ Goto(r, "turn")
       ELSE UNCHANGED <<cached, lock, pc>>
    /\ UNCHANGED <<config, left, executed, asked, todo, outcome, sandbox>>

\* "Duplicate raw tool name across providers", or the provider itself raises.
LoadRaises(r, p) ==
    /\ <<r, p>> \in loads
    /\ loads' = loads \ {<<r, p>>}
    /\ ListRaises(r)
    /\ UNCHANGED <<config, raw_to_qualified_map, cached, left, executed, asked, todo, sandbox>>

(***************************************************************************)
(* The loop of generate_async.                                             *)
(***************************************************************************)

Spent(r) == left[r] # None /\ left[r] <= 0

Turn(r) ==
    /\ pc[r] = "turn"
    /\ IF Spent(r) THEN Leave(r, "ok") ELSE Goto(r, "model") /\ UNCHANGED <<asked, todo, outcome>>
    /\ UNCHANGED <<config, manager, left, executed, sandbox>>

Less(r, n) == left' = IF left[r] = None THEN left ELSE [left EXCEPT ![r] = @ - n]

\* Mutant: the calls of this turn are not counted.
OverLimitLate(r, calls) == limit # None /\ executed[r] > limit

OverLimit(r, calls) == limit # None /\ executed[r] + calls > limit

(* The model's turn: n tokens, and the tool calls it asks for.  Streaming  *)
(* counts the tokens of the text alone, and a turn of tool calls may have  *)
(* none.                                                                   *)
ModelReplies(r) ==
    /\ pc[r] = "model"
    /\ \E n \in IF left[r] = None THEN {1} ELSE (IF stream THEN 0 ELSE 1)..left[r] : Less(r, n)
    /\ \E calls \in 0..MaxCalls :
        IF calls = 0 \/ OverLimit(r, calls)
        THEN Leave(r, "ok")
        ELSE /\ asked' = [asked EXCEPT ![r] = calls]
             /\ todo' = [todo EXCEPT ![r] = calls]
             /\ Goto(r, "tools")
             /\ UNCHANGED outcome
    /\ UNCHANGED <<config, manager, executed, sandbox>>

\* The model raises, or returns an error that soft fail has made of an exception.
ModelFails(r) ==
    /\ pc[r] = "model"
    /\ \E how \in IF stream THEN {"raised"} ELSE {"ok", "raised"} : Leave(r, how)
    /\ UNCHANGED <<config, manager, left, executed, sandbox>>

Executed(r) == todo' = [todo EXCEPT ![r] = @ - 1]

\* A call that reaches no sandbox: malformed or unknown, without code, or of another tool.
CallOther(r) ==
    /\ pc[r] = "tools" /\ todo[r] > 0
    /\ Executed(r)
    /\ UNCHANGED <<config, manager, pc, left, executed, asked, outcome, sandbox>>

CallFatal(r) ==
    /\ pc[r] = "tools" /\ todo[r] > 0
    /\ Leave(r, "raised")
    /\ UNCHANGED <<config, manager, left, executed, sandbox>>

\* DirectPythonTool.execute up to its await; execute_code names the session if there is none.
CallPython(r) ==
    /\ pc[r] = "tools" /\ todo[r] > 0
    /\ IF requests_to_sessions[r] = None
       THEN /\ opened < MaxSessions
            /\ opened' = opened + 1
            /\ calling' = [calling EXCEPT ![r] = opened']
       ELSE /\ calling' = [calling EXCEPT ![r] = requests_to_sessions[r]]
            /\ UNCHANGED opened
    /\ queued' = queued \cup {calling'[r]}
    /\ Goto(r, "call")
    /\ UNCHANGED <<config, manager, left, executed, asked, todo, outcome, requests_to_sessions, live, excused>>

SandboxServes(s) ==
    /\ s \in queued
    /\ queued' = queued \ {s}
    /\ live' = live \cup {s}
    /\ UNCHANGED <<config, manager, loop, requests_to_sessions, calling, opened, excused>>

\* With the sandbox's reply, or with the client's timeout while the request is still queued.
CallReturns(r) ==
    /\ pc[r] = "call"
    /\ requests_to_sessions' = [requests_to_sessions EXCEPT ![r] = calling[r]]
    /\ calling' = [calling EXCEPT ![r] = None]
    /\ Executed(r)
    /\ Goto(r, "tools")
    /\ UNCHANGED <<config, manager, left, executed, asked, outcome, opened, queued, live, excused>>

\* execute_code raises: whatever session there was is forgotten.
CallRaises(r) ==
    /\ pc[r] = "call"
    /\ requests_to_sessions' = [requests_to_sessions EXCEPT ![r] = None]
    /\ calling' = [calling EXCEPT ![r] = None]
    /\ excused' = excused \cup {calling[r]}
    /\ Executed(r)
    /\ Goto(r, "tools")
    /\ UNCHANGED <<config, manager, left, executed, asked, outcome, opened, queued, live>>

\* Mutant: a turn of tool calls starts without being counted.
TurnEndsUncounted(r) ==
    /\ pc[r] = "tools" /\ todo[r] = 0
    /\ \E t \in 0..MaxOutput : Less(r, t)
    /\ asked' = [asked EXCEPT ![r] = 0]
    /\ Goto(r, "turn")
    /\ UNCHANGED <<config, manager, executed, todo, outcome, sandbox>>

\* The outputs join the conversation and count against the budget.
TurnEnds(r) ==
    /\ pc[r] = "tools" /\ todo[r] = 0
    /\ \E t \in 0..MaxOutput : Less(r, t)
    /\ executed' = IF limit = None THEN executed ELSE [executed EXCEPT ![r] = @ + asked[r]]
    /\ asked' = [asked EXCEPT ![r] = 0]
    /\ Goto(r, "turn")
    /\ UNCHANGED <<config, manager, todo, outcome, sandbox>>

(***************************************************************************)
(* The finally clause, and cancellation.                                   *)
(***************************************************************************)

Pop(r) == requests_to_sessions' = [requests_to_sessions EXCEPT ![r] = None]

\* Mutant: only a generation that succeeds cleans up.
CleanupOnSuccess(r) ==
    /\ pc[r] = "cleanup"
    /\ Pop(r)
    /\ LET s == IF outcome[r] = "ok" THEN {requests_to_sessions[r]} \ {None} ELSE {} IN
        \/ live' = live \ s /\ queued' = queued \ s /\ UNCHANGED excused
        \/ excused' = excused \cup s /\ UNCHANGED <<live, queued>>
    /\ Goto(r, "end")
    /\ UNCHANGED <<config, manager, left, executed, asked, todo, outcome, calling, opened>>

\* delete_session; the sandbox serves it after what is queued for the session.
Cleanup(r) ==
    /\ pc[r] = "cleanup"
    /\ Pop(r)
    /\ LET s == {requests_to_sessions[r]} \ {None} IN
        \/ live' = live \ s /\ queued' = queued \ s /\ UNCHANGED excused
        \/ excused' = excused \cup s /\ UNCHANGED <<live, queued>>
    /\ Goto(r, "end")
    /\ UNCHANGED <<config, manager, left, executed, asked, todo, outcome, calling, opened>>

\* An exception of one generation makes the event loop cancel the others before it closes.
Stopping(r) == \E q \in Requests \ {r} : outcome[q] = "raised" /\ pc[q] = "end"

CancelList(r) ==
    /\ Stopping(r) /\ pc[r] \in {"lock", "list"}
    /\ lock' = IF lock = r THEN None ELSE lock
    /\ loads' = loads \ ({r} \X Providers)
    /\ Goto(r, "end")
    /\ outcome' = [outcome EXCEPT ![r] = "cancelled"]
    /\ UNCHANGED <<config, raw_to_qualified_map, cached, left, executed, asked, todo, sandbox>>

\* The name of a session that execute_code was about to create is lost with the call.
CancelLoop(r) ==
    /\ Stopping(r) /\ pc[r] \in {"model", "tools", "call"}
    /\ Leave(r, "cancelled")
    /\ calling' = [calling EXCEPT ![r] = None]
    /\ excused' = IF requests_to_sessions[r] = None THEN excused \cup ({calling[r]} \ {None}) ELSE excused
    /\ UNCHANGED <<config, manager, left, executed, requests_to_sessions, opened, queued, live>>

CancelCleanup(r) ==
    /\ Stopping(r) /\ pc[r] = "cleanup" /\ outcome[r] # "cancelled"
    /\ excused' = excused \cup ({requests_to_sessions[r]} \ {None})
    /\ Goto(r, "end")
    /\ UNCHANGED <<config, manager, left, executed, asked, todo, outcome, requests_to_sessions, calling, opened, queued, live>>

Step(r) ==
    \/ ListCached(r) \/ ListProviders(r)
    \/ Turn(r) \/ ModelReplies(r) \/ ModelFails(r)
    \/ CallOther(r) \/ CallFatal(r) \/ CallPython(r) \/ CallReturns(r) \/ CallRaises(r)
    \/ TurnEnds(r) \/ Cleanup(r)

Next ==
    \/ \E r \in Requests :
        \/ Begin(r) \/ Step(r)
        \/ \E p \in Providers : Load(r, p) \/ LoadRaises(r, p)
        \/ CancelList(r) \/ CancelLoop(r) \/ CancelCleanup(r)
    \/ \E s \in Sessions : SandboxServes(s)

Spec == Init /\ [][Next]_vars

\* Providers, model and sandbox answer, and the event loop runs what is ready.
FairSpec ==
    /\ Spec
    /\ \A r \in Requests :
        /\ WF_vars(Step(r))
        /\ \A p \in Providers : WF_vars(Load(r, p) \/ LoadRaises(r, p))

(***************************************************************************)
(* Properties.                                                             *)
(***************************************************************************)

(* A tool list that is served routes every name in it to the one provider  *)
(* that offers it, although loads of failed listings go on and write into  *)
(* the same map.                                                           *)
Routed == cached => \A p \in Providers : raw_to_qualified_map[raw[p]] = p

(* A session that the sandbox holds belongs to a generation that is not    *)
(* over, unless its deletion was given up after the retries, its call      *)
(* raised, or it was cancelled before the name was known: results,         *)
(* exceptions, fatal tools, timeouts and limits all clean up.              *)
NoLeak ==
    \A s \in (live \cup queued) \ excused :
        \E r \in Requests : pc[r] # "end" /\ s \in {requests_to_sessions[r], calling[r]}

(* A generation ends, when it has a budget that every turn uses up, or a   *)
(* limit on its calls; in streaming, a turn of calls alone is free and the *)
(* budget does not bound it.                                               *)
Ends ==
    \A r \in Requests :
        (pc[r] = "lock" /\ (limit # None \/ (~stream /\ left[r] # None))) ~> pc[r] = "end"
=============================================================================
