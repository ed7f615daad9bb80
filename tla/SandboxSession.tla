--------------------------- MODULE SandboxSession ---------------------------
(***************************************************************************)
(* One stateful session of the sandbox client: Sandbox.execute_code with   *)
(* its replay of the session's history, and LocalSandbox.delete_session    *)
(* (nemo_skills/code_execution/sandbox.py), against one server worker.     *)
(*                                                                         *)
(* The worker serves requests one at a time and in order (uWSGI with       *)
(* processes = 1), so a request is one step here; ShellManager has the     *)
(* steps inside it.  What a shell remembers is the sequence of cells that  *)
(* ran to completion in it: the partial effects of a cell that raised are  *)
(* outside what the client restores, as its NOTE says.                     *)
(***************************************************************************)
EXTENDS Naturals, Sequences, SequencesExt

CONSTANTS
    Tasks,          \* coroutines that call execute_code with this session id
    MaxCells,       \* bound: calls in a behaviour; each execute_code brings a new cell
    Environments,   \* what may go wrong around the client; see Environment
    Nobody, NoReply

\* calls: a bound on this behaviour's calls.  timeouts: a request may outlive the client's
\* wait for it.  sigint: a cell may survive the timeout's SIGINT and report it.
\* loss: the session may vanish from the worker during a replay or a deletion, too.
Environment ==
    [calls : 1..MaxCells, restore : BOOLEAN, timeouts : BOOLEAN, sigint : BOOLEAN, loss : BOOLEAN]

VARIABLES
    env,            \* the environment of this behaviour
    \* client
    restore,        \* ~disable_session_restore
    history,        \* session_histories[session_id]
    calls,          \* calls so far; a cell is its call's number
    given,          \* did the call name the session, or does it open a new one?
    pc, cell, saved, index, tries,     \* locals of execute_code and delete_session
    \* network and worker
    queue,          \* requests not served yet
    reply,          \* what the task waiting for it will receive
    shell,          \* entry of the session: "none", "live", or "dead" behind the entry
    mem,            \* cells completed by the live shell
    pending,        \* restart_pending
    \* history variable: the cells the caller may take to be in the session's state
    believed

client == <<env, restore, history, calls, given, pc, cell, saved, index, tries, believed>>
worker == <<shell, mem, pending>>
vars   == <<client, queue, reply, worker>>

Cells      == 1..MaxCells
MaxRetries == 3
Statuses   == {"completed", "error", "timeout", "deleted", "lost"}
Labels     == {"idle", "exec", "predelete", "replay", "reexec", "cleardelete", "delete"}
Requests   == [task : Tasks \cup {Nobody}, kind : {"exec", "delete"}, cell : Cells]
Replies    == [status : Statuses, fresh : BOOLEAN, ran : Seq(Cells)]

ASSUME SandboxSessionAssumption ==
    /\ MaxCells \in Nat \ {0}
    /\ Environments \subseteq Environment
    /\ Nobody \notin Tasks
    /\ NoReply \notin Replies

TypeOK ==
    /\ env \in Environments
    /\ restore \in BOOLEAN
    /\ history \in Seq(Cells)
    /\ calls \in 0..MaxCells
    /\ given \in [Tasks -> BOOLEAN]
    /\ pc \in [Tasks -> Labels]
    /\ cell \in [Tasks -> Cells]
    /\ saved \in [Tasks -> Seq(Cells)]
    /\ index \in [Tasks -> Nat]
    /\ tries \in [Tasks -> 0..MaxRetries]
    /\ queue \in Seq(Requests)
    /\ reply \in [Tasks -> Replies \cup {NoReply}]
    /\ shell \in {"none", "live", "dead"}
    /\ mem \in Seq(Cells)
    /\ pending \in BOOLEAN
    /\ believed \in Seq(Cells)

Init ==
    /\ env \in Environments
    /\ restore = env.restore
    /\ history = <<>>
    /\ calls = 0
    /\ given = [t \in Tasks |-> TRUE]
    /\ pc = [t \in Tasks |-> "idle"]
    /\ cell = [t \in Tasks |-> 1]
    /\ saved = [t \in Tasks |-> <<>>]
    /\ index = [t \in Tasks |-> 0]
    /\ tries = [t \in Tasks |-> 0]
    /\ queue = <<>>
    /\ reply = [t \in Tasks |-> NoReply]
    /\ shell = "none" /\ mem = <<>> /\ pending = FALSE
    /\ believed = <<>>

-----------------------------------------------------------------------------
(* The client.  Every label but "idle" is an await on a request.           *)

Goto(t, l) == pc' = [pc EXCEPT ![t] = l]

\* _send_request, or one DELETE: the reply of the previous await is consumed
Ask(t, kind, c) ==
    /\ queue' = Append(queue, [task |-> t, kind |-> kind, cell |-> c])
    /\ reply' = [reply EXCEPT ![t] = NoReply]

Answered(t) == reply[t] # NoReply

\* A lost reply reads "Client timed out" and carries no new_session_created.
Status(t) == IF reply[t].status = "lost" THEN "timeout" ELSE reply[t].status
Fresh(t)  == reply[t].status # "lost" /\ reply[t].fresh

\* execute_code starts: the cell is sent before anything is known of the shell.
Call(t) ==
    /\ pc[t] = "idle" /\ calls < env.calls
    /\ calls' = calls + 1
    /\ cell' = [cell EXCEPT ![t] = calls']
    /\ \E g \in BOOLEAN :                        \* a new session has no earlier call
          (calls = 0 \/ g) /\ given' = [given EXCEPT ![t] = g]
    /\ Ask(t, "exec", calls')
    /\ Goto(t, "exec")
    /\ UNCHANGED <<env, restore, history, saved, index, tries, believed, worker>>

\* Mutant: the index of the replayed cell, not the new cell, is appended.
FinishIndex(t, warned) ==
    LET done == IF Status(t) = "completed" THEN <<cell[t]>> ELSE <<>> IN
    /\ history' = IF restore THEN Append(history, index[t]) ELSE IF warned THEN <<>> ELSE history
    /\ believed' = (IF warned THEN <<>> ELSE believed) \o done
    /\ reply' = [reply EXCEPT ![t] = NoReply]
    /\ saved' = [saved EXCEPT ![t] = <<>>]
    /\ index' = [index EXCEPT ![t] = 0]
    /\ tries' = [tries EXCEPT ![t] = 0]
    /\ Goto(t, "idle")
    /\ UNCHANGED <<env, restore, calls, given, cell, queue, worker>>

\* execute_code returns, and a completed cell joins the history.  The caller adds
\* the cell to what it believes, or forgets all when it reads the warning.
Finish(t, warned) ==
    LET done == IF Status(t) = "completed" THEN <<cell[t]>> ELSE <<>> IN
    /\ history' = IF restore THEN history \o done ELSE IF warned THEN <<>> ELSE history
    /\ believed' = (IF warned THEN <<>> ELSE believed) \o done
    /\ reply' = [reply EXCEPT ![t] = NoReply]
    /\ saved' = [saved EXCEPT ![t] = <<>>]
    /\ index' = [index EXCEPT ![t] = 0]
    /\ tries' = [tries EXCEPT ![t] = 0]
    /\ Goto(t, "idle")
    /\ UNCHANGED <<env, restore, calls, given, cell, queue, worker>>

MustRestore(t) == given[t] /\ Fresh(t) /\ Status(t) # "timeout" /\ restore
MustWarn(t)    == given[t] /\ Fresh(t) /\ ~restore

\* The first answer is final, unless it says the session is new.  With restoration
\* disabled the caller is warned instead, in stderr.
ReturnFirst(t) ==
    /\ pc[t] = "exec" /\ Answered(t) /\ ~MustRestore(t)
    /\ Finish(t, MustWarn(t))

\* Otherwise the history is copied and the restarted session deleted ...
BeginRestore(t) ==
    /\ pc[t] = "exec" /\ Answered(t) /\ MustRestore(t)
    /\ saved' = [saved EXCEPT ![t] = history]
    /\ tries' = [tries EXCEPT ![t] = 1]
    /\ Ask(t, "delete", cell[t])
    /\ Goto(t, "predelete")
    /\ UNCHANGED <<env, restore, history, calls, given, cell, index, believed, worker>>

\* delete_session, called by a generation that has ended
EndSession(t) ==
    /\ pc[t] = "idle" /\ calls \in 1..(env.calls - 1)
    /\ calls' = calls + 1
    /\ tries' = [tries EXCEPT ![t] = 1]
    /\ Ask(t, "delete", cell[t])
    /\ Goto(t, "delete")
    /\ UNCHANGED <<env, restore, history, given, cell, saved, index, believed, worker>>

Deleting(t)  == pc[t] \in {"predelete", "cleardelete", "delete"} /\ Answered(t)
Deleted(t)   == Deleting(t) /\ Status(t) = "deleted"                    \* 200 or 404
GivenUp(t)   == Deleting(t) /\ Status(t) # "deleted" /\ tries[t] = MaxRetries

RetryDelete(t) ==
    /\ Deleting(t) /\ Status(t) # "deleted" /\ tries[t] < MaxRetries
    /\ tries' = [tries EXCEPT ![t] = @ + 1]
    /\ Ask(t, "delete", cell[t])
    /\ UNCHANGED <<env, restore, history, calls, given, pc, cell, saved, index, believed, worker>>

\* Mutant: the last cell of the history is not replayed.
ProceedShort(t, i) ==
    IF i < Len(saved[t])
    THEN /\ Ask(t, "exec", saved[t][i])
         /\ index' = [index EXCEPT ![t] = i]
         /\ Goto(t, "replay")
    ELSE /\ Ask(t, "exec", cell[t])
         /\ index' = [index EXCEPT ![t] = 0]
         /\ Goto(t, "reexec")

\* Cell i of the copied history is replayed, or past its end the new cell runs.
Proceed(t, i) ==
    IF i <= Len(saved[t])
    THEN /\ Ask(t, "exec", saved[t][i])
         /\ index' = [index EXCEPT ![t] = i]
         /\ Goto(t, "replay")
    ELSE /\ Ask(t, "exec", cell[t])
         /\ index' = [index EXCEPT ![t] = 0]
         /\ Goto(t, "reexec")

\* Mutant: the history that delete_session forgot is not put back.
BeginReplayForgets(t) ==
    /\ pc[t] = "predelete" /\ (Deleted(t) \/ GivenUp(t))
    /\ history' = IF Deleted(t) THEN <<>> ELSE history
    /\ tries' = [tries EXCEPT ![t] = 0]
    /\ Proceed(t, 1)
    /\ UNCHANGED <<env, restore, calls, given, cell, saved, believed, worker>>

\* ... the copy is put back, whether or not the deletion succeeded,
BeginReplay(t) ==
    /\ pc[t] = "predelete" /\ (Deleted(t) \/ GivenUp(t))
    /\ history' = saved[t]
    /\ tries' = [tries EXCEPT ![t] = 0]
    /\ Proceed(t, 1)
    /\ UNCHANGED <<env, restore, calls, given, cell, saved, believed, worker>>

\* and replayed cell by cell; new_session_created of these replies is not read.
ReplayNext(t) ==
    /\ pc[t] = "replay" /\ Answered(t) /\ Status(t) = "completed"
    /\ Proceed(t, index[t] + 1)
    /\ UNCHANGED <<env, restore, history, calls, given, cell, saved, tries, believed, worker>>

\* A cell that does not complete ends the restoration: the session is deleted
ReplayFails(t) ==
    /\ pc[t] = "replay" /\ Answered(t) /\ Status(t) # "completed"
    /\ tries' = [tries EXCEPT ![t] = 1]
    /\ Ask(t, "delete", cell[t])
    /\ Goto(t, "cleardelete")
    /\ UNCHANGED <<env, restore, history, calls, given, cell, saved, index, believed, worker>>

\* Mutant: only a confirmed deletion lets the call return.
ReturnClearedConfirmed(t) ==
    /\ pc[t] \in {"cleardelete", "delete"} /\ Deleted(t)
    /\ history' = <<>>
    /\ believed' = <<>>
    /\ reply' = [reply EXCEPT ![t] = NoReply]
    /\ saved' = [saved EXCEPT ![t] = <<>>]
    /\ index' = [index EXCEPT ![t] = 0]
    /\ tries' = [tries EXCEPT ![t] = 0]
    /\ Goto(t, "idle")
    /\ UNCHANGED <<env, restore, calls, given, cell, queue, worker>>

\* and the caller reads "The interactive session history has been cleared".  Here as
\* in EndSession the history goes only with a deletion that was confirmed.
ReturnCleared(t) ==
    /\ pc[t] \in {"cleardelete", "delete"} /\ (Deleted(t) \/ GivenUp(t))
    /\ history' = IF Deleted(t) THEN <<>> ELSE history
    /\ believed' = <<>>
    /\ reply' = [reply EXCEPT ![t] = NoReply]
    /\ saved' = [saved EXCEPT ![t] = <<>>]
    /\ index' = [index EXCEPT ![t] = 0]
    /\ tries' = [tries EXCEPT ![t] = 0]
    /\ Goto(t, "idle")
    /\ UNCHANGED <<env, restore, calls, given, cell, queue, worker>>

\* The answer to the new cell is final, new_session_created or not.
ReturnRestored(t) ==
    /\ pc[t] = "reexec" /\ Answered(t)
    /\ Finish(t, FALSE)

-----------------------------------------------------------------------------
(* The worker.                                                             *)

Respond(t, status, fresh) ==
    reply' = IF t = Nobody THEN reply
             ELSE [reply EXCEPT ![t] = [status |-> status, fresh |-> fresh, ran |-> mem']]

Restarted == shell' = "live" /\ mem' = <<>> /\ pending' = TRUE          \* _finish_restart

Head1 == Head(queue)
Serving(kind) == queue # <<>> /\ Head1.kind = kind

\* The shell is created or reused, the flag of an earlier restart is consumed, and
\* the cell completes, raises, or is interrupted without taking the shell down.
ServeCell(status) ==
    /\ Serving("exec") /\ shell # "dead"
    /\ status \in {"completed", "error"} \cup (IF env.sigint THEN {"timeout"} ELSE {})
    /\ shell' = "live"
    /\ mem' = (IF shell = "none" THEN <<>> ELSE mem)
                \o (IF status = "completed" THEN <<Head1.cell>> ELSE <<>>)
    /\ pending' = FALSE
    /\ Respond(Head1.task, status, shell = "none" \/ pending)
    /\ queue' = Tail(queue)
    /\ UNCHANGED client

\* The cell takes the shell down, is killed with it after the timeout, or finds it dead;
\* a shell is started in its place.
ServeKilled(status) ==
    /\ Serving("exec")
    /\ status \in {"error", "timeout"}
    /\ Restarted
    /\ Respond(Head1.task, status, TRUE)
    /\ queue' = Tail(queue)
    /\ UNCHANGED client

\* The shell dies with the request unread: "Session error", no restart, no flag.
ServeBroken ==
    /\ Serving("exec")
    /\ shell' = "dead" /\ mem' = <<>> /\ pending' = FALSE
    /\ Respond(Head1.task, "error", FALSE)
    /\ queue' = Tail(queue)
    /\ UNCHANGED client

ServeDelete ==
    /\ Serving("delete")
    /\ shell' = "none" /\ mem' = <<>> /\ pending' = FALSE
    /\ Respond(Head1.task, "deleted", FALSE)
    /\ queue' = Tail(queue)
    /\ UNCHANGED client

Serve ==
    \/ \E status \in {"completed", "error", "timeout"} : ServeCell(status)
    \/ \E status \in {"error", "timeout"} : ServeKilled(status)
    \/ ServeBroken
    \/ ServeDelete

-----------------------------------------------------------------------------
(* What goes wrong around them.                                            *)

Restoring == \E t \in Tasks : pc[t] \in Labels \ {"idle", "exec"}

\* An idle shell dies behind its entry.
ShellDies ==
    /\ shell = "live"
    /\ shell' = "dead" /\ mem' = <<>>
    /\ UNCHANGED <<client, queue, reply, pending>>

\* cleanup_expired_sessions, run by a request for another session
Expire ==
    /\ shell # "none" /\ (env.loss \/ ~Restoring)
    /\ shell' = "none" /\ mem' = <<>> /\ pending' = FALSE
    /\ UNCHANGED <<client, queue, reply>>

\* The worker dies and the monitor starts another: the requests it held end in a
\* transport error or a 502.
WorkerCrash ==
    /\ env.loss \/ ~Restoring
    /\ shell # "none" \/ queue # <<>>
    /\ shell' = "none" /\ mem' = <<>> /\ pending' = FALSE
    /\ queue' = <<>>
    /\ reply' = [t \in Tasks |->
                   IF \E i \in DOMAIN queue : queue[i].task = t
                   THEN [status |-> "lost", fresh |-> FALSE, ran |-> <<>>] ELSE reply[t]]
    /\ UNCHANGED client

\* The client stops waiting; the request stays with the worker, which will serve it,
\* or has served it already.
ClientTimeout(t) ==
    /\ env.timeouts
    /\ pc[t] # "idle" /\ (Answered(t) => reply[t].status # "lost")
    /\ reply' = [reply EXCEPT ![t] = [status |-> "lost", fresh |-> FALSE, ran |-> <<>>]]
    /\ queue' = [i \in DOMAIN queue |->
                   IF queue[i].task = t THEN [queue[i] EXCEPT !.task = Nobody] ELSE queue[i]]
    /\ UNCHANGED <<client, worker>>

-----------------------------------------------------------------------------
Resume(t) ==
    \/ ReturnFirst(t) \/ BeginRestore(t) \/ RetryDelete(t) \/ BeginReplay(t)
    \/ ReplayNext(t) \/ ReplayFails(t) \/ ReturnCleared(t) \/ ReturnRestored(t)

Next ==
    \/ \E t \in Tasks : Call(t) \/ EndSession(t) \/ Resume(t) \/ ClientTimeout(t)
    \/ Serve
    \/ ShellDies \/ Expire \/ WorkerCrash

Spec == Init /\ [][Next]_vars

\* The worker serves what is queued, which ShellManager's Answered shows of it, and
\* the event loop resumes a coroutine whose await is over.
FairSpec == Spec /\ WF_vars(Serve) /\ \A t \in Tasks : WF_vars(Resume(t))

-----------------------------------------------------------------------------
(* Properties.                                                             *)

\* The reply execute_code is about to hand on as the outcome of the caller's cell,
\* with no word about lost state.
Final(t) ==
    /\ Answered(t) /\ reply[t].status = "completed"
    /\ \/ pc[t] = "reexec"
       \/ pc[t] = "exec" /\ ~MustRestore(t) /\ ~MustWarn(t)

\* Replies arrive, no interrupt is survived, and no session vanishes in the middle of its
\* restoration, where the client could not know: it reads no new_session_created there.
Calm == ~env.timeouts /\ ~env.sigint /\ ~env.loss

\* A cell reported completed ran in a shell that holds exactly the cells the caller
\* believes in, each run once and in order, whatever kills, restarts and replays
\* happened since they ran.
Faithful == Calm => \A t \in Tasks : Final(t) => reply[t].ran = Append(believed, cell[t])

\* The weaker half: every cell the caller believes in has run in the shell that
\* completed the new one.
StateHeld ==
    \A t \in Tasks : Final(t) => ToSet(believed) \subseteq ToSet(reply[t].ran)

\* Where replies are lost and sessions vanish at any moment, the history may keep cells
\* the caller was told to forget, never miss one the caller believes in.
HistoryCovers ==
    restore /\ (\A t \in Tasks : pc[t] = "idle") => IsSuffix(believed, history)

\* Every call returns, through a replay and its failure too.
CallReturns == \A t \in Tasks : pc[t] # "idle" ~> pc[t] = "idle"
=============================================================================
