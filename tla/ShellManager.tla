---------------------------- MODULE ShellManager ----------------------------
(***************************************************************************)
(* The sandbox server's table of IPython shells: class ShellManager, the   *)
(* child loop shell_worker, and the request handlers that call them        *)
(* (nemo_skills/code_execution/local_sandbox/local_sandbox_server.py).     *)
(*                                                                         *)
(* Each request thread walks run_cell or stop_shell one critical section   *)
(* or blocking call at a time; each shell is a forked process behind a     *)
(* duplex pipe.  A cell's text, its output and every clock are abstracted: *)
(* a poll may time out whenever no reply is waiting, a session may expire  *)
(* whenever expiry is enabled.  An entry of the table is identified with   *)
(* its process, since process, pipe and lock are created together.         *)
(***************************************************************************)
EXTENDS Naturals, Sequences

CONSTANTS
    Threads,        \* threads that serve requests: one under uWSGI, several under app.run
    Sessions,       \* values of the X-Session-ID header
    Procs,          \* slots for shell processes; the bound on processes at one time
    Masks,          \* signal dispositions that a cell's code may leave behind
    SessionExpiry,  \* SESSION_TIMEOUT > 0
    NoProc, NoSession, Nobody, Idle

ASSUME ShellManagerAssumption ==
    /\ NoProc \notin Procs
    /\ NoSession \notin Sessions
    /\ Nobody \notin Threads
    /\ Idle \notin Threads \cup {Nobody}
    /\ Masks \subseteq {"default", "noint", "noterm"}
    /\ "default" \in Masks
    /\ SessionExpiry \in BOOLEAN

VARIABLES
    \* the manager's table, under manager_lock
    shells,     \* session -> process of its entry, or NoProc
    pending,    \* restart_pending of the session's entry
    lock,       \* holder of the entry's lock, or Nobody
    \* shell processes and their pipes
    alive, mask,
    deaf,       \* history: processes that live on after their SIGTERM
    open,       \* the parent's end of the pipe is open
    inbox,      \* exec messages not yet received: whose request each belongs to
    running,    \* request being executed, or Idle
    outbox,     \* replies not yet received by the parent
    \* locals of each request thread
    pc, op, sid, entry, fresh, proc, doomed, outcome,
    \* history: the process whose memory the session's client has been told of
    home

manager == <<shells, pending, lock>>
process == <<alive, mask, deaf, open, inbox, running, outbox>>
locals  == <<pc, op, sid, entry, fresh, proc, doomed, outcome>>
vars    == <<manager, process, locals, home>>

Owners   == Threads \cup {Nobody}
Answers  == {"completed", "raised", "interrupted"}      \* what a shell sends back
Outcomes == Answers \cup {"none", "restarted", "killed", "failed", "deleted"}
Labels   == {"idle", "sweep", "delcheck", "pop", "stop", "lookup", "present",
             "pending", "fork", "register", "refetch", "acquire", "send", "await",
             "sigint", "grace", "cleanup", "unlist", "refork", "reregister",
             "mark", "return"}

TypeOK ==
    /\ shells \in [Sessions -> Procs \cup {NoProc}]
    /\ pending \in [Sessions -> BOOLEAN]
    /\ lock \in [Procs -> Owners]
    /\ alive \in [Procs -> BOOLEAN]
    /\ mask \in [Procs -> Masks]
    /\ deaf \subseteq Procs
    /\ open \in [Procs -> BOOLEAN]
    /\ inbox \in [Procs -> Seq(Owners)]
    /\ running \in [Procs -> Owners \cup {Idle}]
    /\ outbox \in [Procs -> Seq(Owners \X Answers)]
    /\ pc \in [Threads -> Labels]
    /\ op \in [Threads -> {"none", "exec", "delete"}]
    /\ sid \in [Threads -> Sessions \cup {NoSession}]
    /\ entry \in [Threads -> Procs \cup {NoProc}]
    /\ fresh \in [Threads -> BOOLEAN]
    /\ proc \in [Threads -> Procs \cup {NoProc}]
    /\ doomed \in [Threads -> SUBSET Sessions]
    /\ outcome \in [Threads -> Outcomes]
    /\ home \in [Sessions -> Procs \cup {NoProc}]

Init ==
    /\ shells = [s \in Sessions |-> NoProc]
    /\ pending = [s \in Sessions |-> FALSE]
    /\ lock = [p \in Procs |-> Nobody]
    /\ alive = [p \in Procs |-> FALSE]
    /\ mask = [p \in Procs |-> "default"]
    /\ deaf = {}
    /\ open = [p \in Procs |-> FALSE]
    /\ inbox = [p \in Procs |-> <<>>]
    /\ running = [p \in Procs |-> Idle]
    /\ outbox = [p \in Procs |-> <<>>]
    /\ pc = [t \in Threads |-> "idle"]
    /\ op = [t \in Threads |-> "none"]
    /\ sid = [t \in Threads |-> NoSession]
    /\ entry = [t \in Threads |-> NoProc]
    /\ fresh = [t \in Threads |-> FALSE]
    /\ proc = [t \in Threads |-> NoProc]
    /\ doomed = [t \in Threads |-> {}]
    /\ outcome = [t \in Threads |-> "none"]
    /\ home = [s \in Sessions |-> NoProc]

-----------------------------------------------------------------------------
At(t, l)   == pc[t] = l
Goto(t, l) == pc' = [pc EXCEPT ![t] = l]

\* SIGTERM, or the default action of SIGINT: the process is gone unless its
\* user code has taken that signal over.
Killed(p) ==
    /\ alive' = [alive EXCEPT ![p] = FALSE]
    /\ mask' = [mask EXCEPT ![p] = "default"]
    /\ deaf' = deaf \ {p}
    /\ running' = [running EXCEPT ![p] = Idle]
Terminated(p) ==
    IF mask[p] = "noterm"
       THEN deaf' = deaf \cup {p} /\ UNCHANGED <<alive, mask, running>>
       ELSE Killed(p)
Interrupted(p) ==
    IF mask[p] = "default" THEN Killed(p) ELSE UNCHANGED <<alive, mask, deaf, running>>

\* conn.close on the parent's end, which drops the replies that were not read
Closed(p) ==
    /\ open' = [open EXCEPT ![p] = FALSE]
    /\ outbox' = [outbox EXCEPT ![p] = <<>>]

\* shells.pop(session, None); the flag goes with the entry
Unlisted(s) ==
    /\ shells' = [shells EXCEPT ![s] = NoProc]
    /\ pending' = [pending EXCEPT ![s] = FALSE]

-----------------------------------------------------------------------------
(* Requests: POST /execute for ipython and DELETE /sessions/<id>.          *)

ExecRequest(t, s) ==
    /\ At(t, "idle")
    /\ op' = [op EXCEPT ![t] = "exec"]
    /\ sid' = [sid EXCEPT ![t] = s]
    /\ Goto(t, IF SessionExpiry THEN "sweep" ELSE "lookup")
    /\ UNCHANGED <<manager, process, entry, fresh, proc, doomed, outcome, home>>

DeleteRequest(t, s) ==
    /\ At(t, "idle")
    /\ op' = [op EXCEPT ![t] = "delete"]
    /\ sid' = [sid EXCEPT ![t] = s]
    /\ Goto(t, "delcheck")
    /\ UNCHANGED <<manager, process, entry, fresh, proc, doomed, outcome, home>>

\* delete_session: the 404 and the 200 tell the client the same, that the
\* session holds no state any more.
DeleteCheck(t) ==
    /\ At(t, "delcheck")
    /\ doomed' = [doomed EXCEPT ![t] = {s \in {sid[t]} : shells[s] # NoProc}]
    /\ Goto(t, "pop")
    /\ UNCHANGED <<manager, process, op, sid, entry, fresh, proc, outcome, home>>

\* cleanup_expired_sessions collects the expired ids under the lock ...
Sweep(t) ==
    /\ At(t, "sweep")
    /\ \E expired \in SUBSET {s \in Sessions : shells[s] # NoProc} :
          doomed' = [doomed EXCEPT ![t] = expired]
    /\ Goto(t, "pop")
    /\ UNCHANGED <<manager, process, op, sid, entry, fresh, proc, outcome, home>>

\* ... and stops them one by one after releasing it.  stop_shell takes the
\* entry out of the table under manager_lock, never the entry's own lock,
PopShell(t, s) ==
    /\ At(t, "pop")
    /\ s \in doomed[t]
    /\ doomed' = [doomed EXCEPT ![t] = @ \ {s}]
    /\ proc' = [proc EXCEPT ![t] = shells[s]]
    /\ Unlisted(s)
    /\ Goto(t, IF shells[s] = NoProc THEN "pop" ELSE "stop")
    /\ UNCHANGED <<lock, process, op, sid, entry, fresh, outcome, home>>

\* and tears the process down: shutdown message, close, terminate, join.
StopShell(t) ==
    /\ At(t, "stop")
    /\ Closed(proc[t])
    /\ Terminated(proc[t])
    /\ proc' = [proc EXCEPT ![t] = NoProc]
    /\ Goto(t, "pop")
    /\ UNCHANGED <<manager, inbox, op, sid, entry, fresh, doomed, outcome, home>>

PopDone(t) ==
    /\ At(t, "pop")
    /\ doomed[t] = {}
    /\ IF op[t] = "delete"
          THEN outcome' = [outcome EXCEPT ![t] = "deleted"] /\ Goto(t, "return")
          ELSE UNCHANGED outcome /\ Goto(t, "lookup")
    /\ UNCHANGED <<manager, process, op, sid, entry, fresh, proc, doomed, home>>

-----------------------------------------------------------------------------
(* run_cell, up to the entry's lock.                                       *)

Lookup(t) ==
    /\ At(t, "lookup")
    /\ entry' = [entry EXCEPT ![t] = shells[sid[t]]]
    /\ fresh' = [fresh EXCEPT ![t] = shells[sid[t]] = NoProc]      \* shell_was_created
    /\ Goto(t, IF shells[sid[t]] = NoProc THEN "fork" ELSE "present")
    /\ UNCHANGED <<manager, process, op, sid, proc, doomed, outcome, home>>

\* `shell_id in self.shells`, read without manager_lock
CheckPresent(t) ==
    /\ At(t, "present")
    /\ Goto(t, IF shells[sid[t]] = NoProc THEN "acquire" ELSE "pending")
    /\ UNCHANGED <<manager, process, op, sid, entry, fresh, proc, doomed, outcome, home>>

\* An exception that leaves run_cell: execute_ipython_session answers
\* "Session error" with new_session_created False.
Fails(t) ==
    /\ fresh' = [fresh EXCEPT ![t] = FALSE]
    /\ outcome' = [outcome EXCEPT ![t] = "failed"]
    /\ Goto(t, "return")

TakePending(t) ==
    /\ At(t, "pending")
    /\ IF shells[sid[t]] = NoProc
          THEN Fails(t) /\ UNCHANGED pending                       \* KeyError
          ELSE /\ fresh' = [fresh EXCEPT ![t] = pending[sid[t]]]   \* recently_restarted
               /\ pending' = [pending EXCEPT ![sid[t]] = FALSE]
               /\ Goto(t, "acquire")
               /\ UNCHANGED outcome
    /\ UNCHANGED <<shells, lock, process, op, sid, entry, proc, doomed, home>>

\* A slot may be reused once nothing in the server refers to its process, which is gone, or
\* has outlived its SIGTERM and is followed no further: its pipe is closed.
Spare(p) ==
    /\ ~alive[p] \/ p \in deaf
    /\ \A s \in Sessions : shells[s] # p
    /\ \A t \in Threads : entry[t] # p /\ proc[t] # p

\* start_shell: the pipe and the forked process, outside manager_lock
Fork(t) ==
    /\ pc[t] \in {"fork", "refork"}
    /\ \E p \in Procs :
          /\ Spare(p)
          /\ alive' = [alive EXCEPT ![p] = TRUE]
          /\ mask' = [mask EXCEPT ![p] = "default"]
          /\ deaf' = deaf \ {p}
          /\ open' = [open EXCEPT ![p] = TRUE]
          /\ inbox' = [inbox EXCEPT ![p] = <<>>]
          /\ running' = [running EXCEPT ![p] = Idle]
          /\ outbox' = [outbox EXCEPT ![p] = <<>>]
          /\ proc' = [proc EXCEPT ![t] = p]
          /\ home' = [s \in Sessions |-> IF home[s] = p THEN NoProc ELSE home[s]]
    /\ Goto(t, IF At(t, "fork") THEN "register" ELSE "reregister")
    /\ UNCHANGED <<manager, op, sid, entry, fresh, doomed, outcome>>

\* start_shell: the new entry, under manager_lock
Register(t) ==
    /\ pc[t] \in {"register", "reregister"}
    /\ shells' = [shells EXCEPT ![sid[t]] = proc[t]]
    /\ pending' = [pending EXCEPT ![sid[t]] = FALSE]
    /\ proc' = [proc EXCEPT ![t] = NoProc]
    /\ Goto(t, IF At(t, "register") THEN "refetch" ELSE "mark")
    /\ UNCHANGED <<lock, process, op, sid, entry, fresh, doomed, outcome, home>>

Refetch(t) ==
    /\ At(t, "refetch")
    /\ IF shells[sid[t]] = NoProc
          THEN Fails(t) /\ UNCHANGED entry                         \* KeyError
          ELSE /\ entry' = [entry EXCEPT ![t] = shells[sid[t]]]
               /\ Goto(t, "acquire")
               /\ UNCHANGED <<fresh, outcome>>
    /\ UNCHANGED <<manager, process, op, sid, proc, doomed, home>>

\* Mutant: run_cell without `with lock`.
AcquireHeld(t) ==
    /\ At(t, "acquire")
    /\ lock' = [lock EXCEPT ![entry[t]] = t]
    /\ Goto(t, "send")
    /\ UNCHANGED <<shells, pending, process, op, sid, entry, fresh, proc, doomed, outcome, home>>

Acquire(t) ==
    /\ At(t, "acquire")
    /\ lock[entry[t]] = Nobody
    /\ lock' = [lock EXCEPT ![entry[t]] = t]
    /\ Goto(t, "send")
    /\ UNCHANGED <<shells, pending, process, op, sid, entry, fresh, proc, doomed, outcome, home>>

-----------------------------------------------------------------------------
(* run_cell, under the entry's lock.                                       *)

\* The shell is found dead: restart it and report the restart.
MustRestart(t, why) ==
    /\ fresh' = [fresh EXCEPT ![t] = TRUE]                         \* shell_was_restarted
    /\ outcome' = [outcome EXCEPT ![t] = why]
    /\ Goto(t, "cleanup")

\* A dead shell's pipe takes a message only while a process that inherited the child's
\* end, a sibling or what the cells forked, still holds it; a message nobody read means
\* that nobody does (its request ended in ECONNRESET).
Reachable(p) == open[p] /\ (alive[p] \/ inbox[p] = <<>>)

Send(t) ==
    LET p == entry[t] IN
    /\ At(t, "send")
    /\ \/ /\ Reachable(p)
          /\ inbox' = [inbox EXCEPT ![p] = Append(@, t)]
          /\ Goto(t, "await")
          /\ UNCHANGED <<fresh, outcome>>
       \/ /\ ~open[p] \/ ~alive[p]
          /\ MustRestart(t, "restarted")
          /\ UNCHANGED inbox
    /\ UNCHANGED <<manager, alive, mask, deaf, open, running, outbox, op, sid, entry, proc, doomed, home>>

Waiting(t) == pc[t] \in {"await", "grace"}

\* Mutant: the whole message is kept where its status is meant.
ReceiveMessage(t) ==
    LET p == entry[t] IN
    /\ Waiting(t)
    /\ open[p] /\ outbox[p] # <<>>
    /\ outcome' = [outcome EXCEPT ![t] = Head(outbox[p])]
    /\ outbox' = [outbox EXCEPT ![p] = Tail(@)]
    /\ Goto(t, "return")
    /\ UNCHANGED <<manager, alive, mask, deaf, open, inbox, running, op, sid, entry, fresh, proc, doomed, home>>

\* conn.poll found a message and conn.recv returned it, whatever its id says
ReceiveReply(t) ==
    LET p == entry[t] IN
    /\ Waiting(t)
    /\ open[p] /\ outbox[p] # <<>>
    /\ outcome' = [outcome EXCEPT ![t] = Head(outbox[p])[2]]
    /\ outbox' = [outbox EXCEPT ![p] = Tail(@)]
    /\ Goto(t, "return")
    /\ UNCHANGED <<manager, alive, mask, deaf, open, inbox, running, op, sid, entry, fresh, proc, doomed, home>>

\* conn.recv raised EOFError: the child had read all it was sent and is gone
ReceiveEOF(t) ==
    LET p == entry[t] IN
    /\ Waiting(t)
    /\ open[p] /\ ~alive[p] /\ outbox[p] = <<>> /\ inbox[p] = <<>>
    /\ MustRestart(t, "restarted")
    /\ UNCHANGED <<manager, process, op, sid, entry, proc, doomed, home>>

\* Any other exception of poll or recv is not caught in run_cell: the handle was
\* closed by stop_shell in another thread, or the child died with the request
\* unread (ECONNRESET).
ReceiveBroken(t) ==
    LET p == entry[t] IN
    /\ Waiting(t)
    /\ ~open[p] \/ (~alive[p] /\ outbox[p] = <<>> /\ inbox[p] # <<>>)
    /\ Fails(t)
    /\ UNCHANGED <<manager, process, op, sid, entry, proc, doomed, home>>

\* A poll may time out on a dead shell too, while another process holds the child's end
\* of the pipe and no EOF arrives.
Silent(p) == open[p] /\ outbox[p] = <<>>

PollTimeout(t) ==
    /\ At(t, "await") /\ Silent(entry[t])
    /\ Goto(t, "sigint")
    /\ UNCHANGED <<manager, process, op, sid, entry, fresh, proc, doomed, outcome, home>>

SendSigint(t) ==
    /\ At(t, "sigint")
    /\ Interrupted(entry[t])
    /\ Goto(t, "grace")
    /\ UNCHANGED <<manager, open, inbox, outbox, op, sid, entry, fresh, proc, doomed, outcome, home>>

\* Mutant: the timeout is reported and the shell is kept.
GraceKeepsShell(t) ==
    /\ At(t, "grace") /\ Silent(entry[t])
    /\ outcome' = [outcome EXCEPT ![t] = "interrupted"]
    /\ Goto(t, "return")
    /\ UNCHANGED <<manager, process, op, sid, entry, fresh, proc, doomed, home>>

GraceTimeout(t) ==
    /\ At(t, "grace") /\ Silent(entry[t])
    /\ MustRestart(t, "killed")
    /\ UNCHANGED <<manager, process, op, sid, entry, proc, doomed, home>>

\* Mutants: the pipe is closed and the process left to itself; join has no timeout.
CleanupPipeOnly(t) ==
    /\ At(t, "cleanup")
    /\ Closed(entry[t])
    /\ Goto(t, "unlist")
    /\ UNCHANGED <<manager, alive, mask, deaf, inbox, running, op, sid, entry, fresh, proc, doomed,
                   outcome, home>>

CleanupJoins(t) ==
    /\ At(t, "cleanup") /\ mask[entry[t]] # "noterm"
    /\ Terminated(entry[t])
    /\ Closed(entry[t])
    /\ Goto(t, "unlist")
    /\ UNCHANGED <<manager, inbox, op, sid, entry, fresh, proc, doomed, outcome, home>>

\* _cleanup_shell_resources: terminate, join(timeout=2.0), close
Cleanup(t) ==
    /\ At(t, "cleanup")
    /\ Terminated(entry[t])
    /\ Closed(entry[t])
    /\ Goto(t, "unlist")
    /\ UNCHANGED <<manager, inbox, op, sid, entry, fresh, proc, doomed, outcome, home>>

\* self.shells.pop(shell_id, None), whichever entry is there by now
Unlist(t) ==
    /\ At(t, "unlist")
    /\ Unlisted(sid[t])
    /\ Goto(t, "refork")
    /\ UNCHANGED <<lock, process, op, sid, entry, fresh, proc, doomed, outcome, home>>

\* Mutant: restart_pending is not set.
MarkNothing(t) ==
    /\ At(t, "mark")
    /\ Goto(t, "return")
    /\ UNCHANGED <<manager, process, op, sid, entry, fresh, proc, doomed, outcome, home>>

\* _finish_restart, after start_shell
MarkPending(t) ==
    /\ At(t, "mark")
    /\ pending' = [pending EXCEPT ![sid[t]] = shells[sid[t]] # NoProc]
    /\ Goto(t, "return")
    /\ UNCHANGED <<shells, lock, process, op, sid, entry, fresh, proc, doomed, outcome, home>>

-----------------------------------------------------------------------------
Disown(t, o) == IF o = t THEN Nobody ELSE o

\* The entry's lock is released and the response goes out.  What is still in the
\* pipe on behalf of this request belongs to nobody from here on.
Return(t) ==
    LET p == entry[t] IN
    /\ At(t, "return")
    /\ lock' = [q \in Procs |-> IF q = p THEN Disown(t, lock[q]) ELSE lock[q]]
    /\ inbox' = [q \in Procs |-> IF q = p THEN [i \in DOMAIN inbox[q] |-> Disown(t, inbox[q][i])]
                                          ELSE inbox[q]]
    /\ running' = [q \in Procs |-> IF q = p THEN Disown(t, running[q]) ELSE running[q]]
    /\ outbox' = [q \in Procs |-> IF q = p
                     THEN [i \in DOMAIN outbox[q] |-> <<Disown(t, outbox[q][i][1]), outbox[q][i][2]>>]
                     ELSE outbox[q]]
    /\ home' = [home EXCEPT ![sid[t]] =
                  CASE outcome[t] \in {"restarted", "killed", "deleted"} -> NoProc
                    [] outcome[t] \in Answers /\ fresh[t]                -> p
                    [] OTHER                                             -> @]
    /\ op' = [op EXCEPT ![t] = "none"]
    /\ sid' = [sid EXCEPT ![t] = NoSession]
    /\ entry' = [entry EXCEPT ![t] = NoProc]
    /\ fresh' = [fresh EXCEPT ![t] = FALSE]
    /\ outcome' = [outcome EXCEPT ![t] = "none"]
    /\ Goto(t, "idle")
    /\ UNCHANGED <<shells, pending, alive, mask, deaf, open, proc, doomed>>

-----------------------------------------------------------------------------
(* shell_worker: the loop of a shell process.                              *)

\* conn.recv, then the cell starts; its code may rebind signal handlers
ChildReceive(p) ==
    /\ alive[p] /\ running[p] = Idle /\ inbox[p] # <<>>
    /\ running' = [running EXCEPT ![p] = Head(inbox[p])]
    /\ inbox' = [inbox EXCEPT ![p] = Tail(@)]
    /\ \E m \in Masks : mask' = [mask EXCEPT ![p] = m]
    /\ UNCHANGED <<manager, alive, deaf, open, outbox, locals, home>>

\* The cell ends and conn.send reports it; KeyboardInterrupt reaches the except
\* clause only where user code has replaced SIG_DFL.
ChildReply(p, a) ==
    /\ alive[p] /\ running[p] # Idle /\ open[p]
    /\ a = "interrupted" => mask[p] # "default"
    /\ outbox' = [outbox EXCEPT ![p] = Append(@, <<running[p], a>>)]
    /\ running' = [running EXCEPT ![p] = Idle]
    /\ UNCHANGED <<manager, alive, mask, deaf, open, inbox, locals, home>>

\* os._exit, a segfault or the OOM killer; EOF or a broken pipe on the child's side
ChildExit(p) ==
    /\ alive[p]
    /\ Killed(p)
    /\ UNCHANGED <<manager, open, inbox, outbox, locals, home>>

-----------------------------------------------------------------------------
Serve(t) ==
    \/ DeleteCheck(t) \/ Sweep(t) \/ (\E s \in Sessions : PopShell(t, s))
    \/ StopShell(t) \/ PopDone(t)
    \/ Lookup(t) \/ CheckPresent(t) \/ TakePending(t)
    \/ Fork(t) \/ Register(t) \/ Refetch(t) \/ Acquire(t)
    \/ Send(t) \/ ReceiveReply(t) \/ ReceiveEOF(t) \/ ReceiveBroken(t)
    \/ PollTimeout(t) \/ SendSigint(t) \/ GraceTimeout(t)
    \/ Cleanup(t) \/ Unlist(t) \/ MarkPending(t) \/ Return(t)

Request(t) == \E s \in Sessions : ExecRequest(t, s) \/ DeleteRequest(t, s)

Child(p) ==
    \/ ChildReceive(p)
    \/ \E a \in Answers : ChildReply(p, a)
    \/ ChildExit(p)

Next ==
    \/ \E t \in Threads : Request(t) \/ Serve(t)
    \/ \E p \in Procs : Child(p)

Spec == Init /\ [][Next]_vars

\* A thread that holds a request keeps running; nothing is assumed of clients,
\* and nothing of the shells, whose code may loop forever.
FairSpec == Spec /\ \A t \in Threads : WF_vars(Serve(t))
-----------------------------------------------------------------------------
(* Properties.                                                             *)

\* run_cell never compares the id of a reply with exec_id.  Still, whatever
\* timeouts, interrupts and kills came before, the reply a thread is about to take
\* from its shell's pipe answers its own request.
OwnReply ==
    \A t \in Threads :
        LET p == entry[t] IN
        Waiting(t) /\ open[p] /\ outbox[p] # <<>> => Head(outbox[p])[1] = t

\* A shell is never handed a cell while another one is still in its pipe or
\* running: cells of one session do not overlap (the entry's lock, and the kill of a
\* shell that did not answer in time).
OneCell ==
    \A p \in Procs :
        open[p] => Len(inbox[p]) + Len(outbox[p]) + (IF running[p] = Idle THEN 0 ELSE 1) <= 1

\* new_session_created is the only way a client learns that a session's memory is
\* gone.  A cell that ran to its end and is answered without the flag ran in the
\* very process the client was last told about, across kills, crashes of the shell,
\* expiry, deletion and restart_pending handed from one request to the next.
NoSilentLoss ==
    \A t \in Threads :
        At(t, "return") /\ outcome[t] \in Answers /\ ~fresh[t] => entry[t] = home[sid[t]]

\* Between requests every shell process that is alive is reachable through the
\* table, so that a later request, an expiry or a deletion can still end it; or it has been
\* told to end (_cleanup_shell_resources, stop_shell) and its cells had taken SIGTERM over.
NoOrphan ==
    (\A t \in Threads : At(t, "idle")) =>
        \A p \in Procs : alive[p] => p \in deaf \/ \E s \in Sessions : shells[s] = p

\* Every request is answered, whatever the cells do: loop forever, ignore SIGINT, ignore
\* SIGINT and SIGTERM.  The polls are bounded, and the shell that outlives both signals is
\* abandoned.
Answered == \A t \in Threads : ~At(t, "idle") ~> At(t, "idle")

-----------------------------------------------------------------------------
(* The inductive strengthening of OwnReply and OneCell.                    *)

Holding == {"send", "await", "sigint", "grace", "cleanup", "unlist", "refork",
            "reregister", "mark"}

LocalsOK ==
    \A t \in Threads :
        /\ ~At(t, "idle") => sid[t] \in Sessions
        /\ pc[t] \in {"stop", "register", "reregister"} => proc[t] \in Procs
        /\ pc[t] \in {"present", "pending", "acquire"} \cup Holding => entry[t] \in Procs

\* Who holds the lock of which entry.
LockOK ==
    \A t \in Threads :
        /\ pc[t] \in Holding => lock[entry[t]] = t
        /\ \A p \in Procs : lock[p] = t => entry[t] = p /\ pc[t] \in Holding \cup {"return"}

Quiet(p) == inbox[p] = <<>> /\ running[p] = Idle /\ outbox[p] = <<>>

\* The one request in p's pipe: sent, being executed, or answered.
Carries(p, t) ==
    \/ inbox[p] = <<t>> /\ running[p] = Idle /\ outbox[p] = <<>>
    \/ inbox[p] = <<>> /\ running[p] = t /\ outbox[p] = <<>>
    \/ inbox[p] = <<>> /\ running[p] = Idle /\ \E a \in Answers : outbox[p] = <<<<t, a>>>>

\* An open pipe is empty, or its process died with a request unread, or it carries
\* the request of the thread that holds the lock and has not given up on it.
Following == {"await", "sigint", "grace", "cleanup"}

Broken(p) ==
    /\ ~alive[p] /\ running[p] = Idle /\ outbox[p] = <<>>
    /\ \E o \in Owners : inbox[p] = <<o>>

Followed(p) == \E t \in Threads : lock[p] = t /\ pc[t] \in Following /\ Carries(p, t)

PipeOK == \A p \in Procs : open[p] => Quiet(p) \/ Broken(p) \/ Followed(p)

PipeInv == TypeOK /\ LocalsOK /\ LockOK /\ PipeOK
=============================================================================
