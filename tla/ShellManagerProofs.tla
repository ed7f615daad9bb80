------------------------- MODULE ShellManagerProofs -------------------------
(***************************************************************************)
(* What ShellManager guarantees for every number of request threads,       *)
(* sessions and shell processes.                                           *)
(***************************************************************************)
EXTENDS ShellManager, SequenceTheorems, TLAPS

Typed == TypeOK /\ LocalsOK

\* A free lock is told from a held one.
LEMMA NobodyApart == Nobody \notin Threads
  BY ShellManagerAssumption DEF ShellManagerAssumption

\* An idle shell is told from one that runs a request, abandoned ones included.
LEMMA IdleApart == Idle \notin Owners
  BY ShellManagerAssumption DEF ShellManagerAssumption, Owners

\* A forked shell starts with a disposition that Masks allows.
LEMMA DefaultMask == "default" \in Masks
  BY ShellManagerAssumption DEF ShellManagerAssumption

\* However a process ends, or survives, its state keeps its type.
LEMMA SignalTyped ==
    ASSUME TypeOK, NEW p \in Procs, Killed(p) \/ Terminated(p) \/ Interrupted(p)
    PROVE  /\ alive' \in [Procs -> BOOLEAN]
           /\ mask' \in [Procs -> Masks]
           /\ deaf' \subseteq Procs
           /\ running' \in [Procs -> Owners \cup {Idle}]
  <1>1. CASE Killed(p)
    BY <1>1, DefaultMask DEF TypeOK, Killed
  <1>2. CASE UNCHANGED <<alive, mask, running>> /\ deaf' \in {deaf, deaf \cup {p}}
    BY <1>2 DEF TypeOK
  <1> QED BY <1>1, <1>2 DEF Terminated, Interrupted

\* An exception that leaves run_cell is an outcome like any other.
LEMMA FailsTyped ==
    ASSUME TypeOK, NEW t \in Threads, Fails(t)
    PROVE  /\ fresh' \in [Threads -> BOOLEAN]
           /\ outcome' \in [Threads -> Outcomes]
           /\ pc' \in [Threads -> Labels]
  BY DEF TypeOK, Fails, Goto, Outcomes, Labels

\* Disowning a request keeps a pipe a sequence of requests.
LEMMA DisownSeq ==
    ASSUME NEW s \in Seq(Owners), NEW t \in Threads
    PROVE  [i \in DOMAIN s |-> Disown(t, s[i])] \in Seq(Owners)
  <1>1. DOMAIN s = 1..Len(s) /\ Len(s) \in Nat
    OBVIOUS
  <1>2. \A i \in 1..Len(s) : Disown(t, s[i]) \in Owners
    BY ElementOfSeq DEF Disown, Owners
  <1> QED BY <1>1, <1>2, IsASeq

\* And it keeps the pipe back a sequence of replies.
LEMMA DisownReplies ==
    ASSUME NEW s \in Seq(Owners \X Answers), NEW t \in Threads
    PROVE  [i \in DOMAIN s |-> <<Disown(t, s[i][1]), s[i][2]>>] \in Seq(Owners \X Answers)
  <1>1. DOMAIN s = 1..Len(s) /\ Len(s) \in Nat
    OBVIOUS
  <1>2. ASSUME NEW i \in 1..Len(s)
        PROVE  <<Disown(t, s[i][1]), s[i][2]>> \in Owners \X Answers
    <2>1. s[i] \in Owners \X Answers
      BY ElementOfSeq
    <2> QED BY <2>1 DEF Disown, Owners
  <1> QED BY <1>1, <1>2, IsASeq

\* The server starts with an empty table and idle threads, all of the right type.
LEMMA TypedInit == Init => Typed
  <1> SUFFICES ASSUME Init PROVE TypeOK /\ LocalsOK
    BY DEF Typed
  <1>1. TypeOK
    BY DefaultMask DEF Init, TypeOK, Labels, Owners, Outcomes
  <1>2. LocalsOK
    BY DEF Init, LocalsOK, At, Holding
  <1> QED BY <1>1, <1>2

\* No step of a thread or of a shell leaves the types: where a session, a process or an
\* entry is looked up, there is one.
LEMMA TypedNext == Typed /\ [Next]_vars => Typed'
  <1> SUFFICES ASSUME Typed, [Next]_vars PROVE Typed'
    OBVIOUS
  <1> USE DEF Typed, TypeOK, LocalsOK, At, Goto, Holding, Labels, Owners, Outcomes,
              manager, process, locals
  <1>1. CASE UNCHANGED vars
    BY <1>1 DEF vars
  <1>2. ASSUME NEW t \in Threads, NEW s \in Sessions, ExecRequest(t, s) PROVE Typed'
    BY <1>2 DEF ExecRequest
  <1>3. ASSUME NEW t \in Threads, NEW s \in Sessions, DeleteRequest(t, s) PROVE Typed'
    BY <1>3 DEF DeleteRequest
  <1>4. ASSUME NEW t \in Threads, DeleteCheck(t) PROVE Typed'
    BY <1>4 DEF DeleteCheck
  <1>5. ASSUME NEW t \in Threads, Sweep(t) PROVE Typed'
    BY <1>5 DEF Sweep
  <1>6. ASSUME NEW t \in Threads, NEW s \in Sessions, PopShell(t, s) PROVE Typed'
    BY <1>6 DEF PopShell, Unlisted
  <1>7. ASSUME NEW t \in Threads, StopShell(t) PROVE Typed'
    <2>1. TypeOK'
      <3>1. proc[t] \in Procs
        BY <1>7 DEF StopShell
      <3> QED BY <1>7, <3>1, SignalTyped DEF StopShell, Closed
    <2>2. LocalsOK'
      BY <1>7 DEF StopShell, Closed, Terminated, Killed
    <2> QED BY <2>1, <2>2
  <1>8. ASSUME NEW t \in Threads, PopDone(t) PROVE Typed'
    <2>1. TypeOK'
      BY <1>8 DEF PopDone
    <2>2. LocalsOK'
      BY <1>8 DEF PopDone
    <2> QED BY <2>1, <2>2
  <1>9. ASSUME NEW t \in Threads, Lookup(t) PROVE Typed'
    BY <1>9 DEF Lookup
  <1>10. ASSUME NEW t \in Threads, CheckPresent(t) PROVE Typed'
    BY <1>10 DEF CheckPresent
  <1>11. ASSUME NEW t \in Threads, TakePending(t) PROVE Typed'
    <2>1. TypeOK'
      <3>1. CASE shells[sid[t]] = NoProc
        BY <1>11, <3>1, FailsTyped DEF TakePending
      <3>2. CASE shells[sid[t]] # NoProc
        <4>1. pending[sid[t]] \in BOOLEAN
          BY <1>11 DEF TakePending
        <4> QED BY <1>11, <3>2, <4>1 DEF TakePending
      <3> QED BY <3>1, <3>2
    <2>2. LocalsOK'
      BY <1>11 DEF TakePending, Fails
    <2> QED BY <2>1, <2>2
  <1>12. ASSUME NEW t \in Threads, Fork(t) PROVE Typed'
    BY <1>12, DefaultMask DEF Fork
  <1>13. ASSUME NEW t \in Threads, Register(t) PROVE Typed'
    BY <1>13 DEF Register
  <1>14. ASSUME NEW t \in Threads, Refetch(t) PROVE Typed'
    <2>1. TypeOK'
      <3>1. CASE shells[sid[t]] = NoProc
        BY <1>14, <3>1, FailsTyped DEF Refetch
      <3>2. CASE shells[sid[t]] # NoProc
        BY <1>14, <3>2 DEF Refetch
      <3> QED BY <3>1, <3>2
    <2>2. LocalsOK'
      BY <1>14 DEF Refetch, Fails
    <2> QED BY <2>1, <2>2
  <1>15. ASSUME NEW t \in Threads, Acquire(t) PROVE Typed'
    BY <1>15 DEF Acquire
  <1>16. ASSUME NEW t \in Threads, Send(t) PROVE Typed'
    <2>1. inbox' \in [Procs -> Seq(Owners)]
      <3>1. Append(inbox[entry[t]], t) \in Seq(Owners)
        BY <1>16, AppendProperties DEF Send
      <3> QED BY <1>16, <3>1 DEF Send
    <2>2. TypeOK'
      BY <1>16, <2>1 DEF Send, MustRestart
    <2>3. LocalsOK'
      BY <1>16 DEF Send, MustRestart
    <2> QED BY <2>2, <2>3
  <1>17. ASSUME NEW t \in Threads, ReceiveReply(t) PROVE Typed'
    BY <1>17, HeadTailProperties DEF ReceiveReply, Waiting, Answers
  <1>18. ASSUME NEW t \in Threads, ReceiveEOF(t) PROVE Typed'
    BY <1>18 DEF ReceiveEOF, Waiting, MustRestart
  <1>19. ASSUME NEW t \in Threads, ReceiveBroken(t) PROVE Typed'
    BY <1>19 DEF ReceiveBroken, Waiting, Fails
  <1>20. ASSUME NEW t \in Threads, PollTimeout(t) PROVE Typed'
    BY <1>20 DEF PollTimeout
  <1>21. ASSUME NEW t \in Threads, SendSigint(t) PROVE Typed'
    <2>1. TypeOK'
      <3>1. entry[t] \in Procs
        BY <1>21 DEF SendSigint, Holding
      <3> QED BY <1>21, <3>1, SignalTyped DEF SendSigint
    <2>2. LocalsOK'
      BY <1>21 DEF SendSigint, Interrupted, Killed
    <2> QED BY <2>1, <2>2
  <1>22. ASSUME NEW t \in Threads, GraceTimeout(t) PROVE Typed'
    BY <1>22 DEF GraceTimeout, MustRestart
  <1>23. ASSUME NEW t \in Threads, Cleanup(t) PROVE Typed'
    <2>1. TypeOK'
      <3>1. entry[t] \in Procs
        BY <1>23 DEF Cleanup, Holding
      <3> QED BY <1>23, <3>1, SignalTyped DEF Cleanup, Closed
    <2>2. LocalsOK'
      BY <1>23 DEF Cleanup, Closed, Terminated, Killed
    <2> QED BY <2>1, <2>2
  <1>24. ASSUME NEW t \in Threads, Unlist(t) PROVE Typed'
    BY <1>24 DEF Unlist, Unlisted
  <1>25. ASSUME NEW t \in Threads, MarkPending(t) PROVE Typed'
    BY <1>25 DEF MarkPending
  <1>26. ASSUME NEW t \in Threads, Return(t) PROVE Typed'
    <2>1. ASSUME NEW q \in Procs
          PROVE  inbox'[q] \in Seq(Owners) /\ outbox'[q] \in Seq(Owners \X Answers)
      <3>1. inbox[q] \in Seq(Owners) /\ outbox[q] \in Seq(Owners \X Answers)
        OBVIOUS
      <3>2. CASE q = entry[t]
        <4>1. inbox'[q] = [i \in DOMAIN inbox[q] |-> Disown(t, inbox[q][i])]
          BY <1>26, <3>2 DEF Return
        <4>2. outbox'[q] = [i \in DOMAIN outbox[q] |->
                               <<Disown(t, outbox[q][i][1]), outbox[q][i][2]>>]
          BY <1>26, <3>2 DEF Return
        <4>3. [i \in DOMAIN inbox[q] |-> Disown(t, inbox[q][i])] \in Seq(Owners)
          BY <3>1, DisownSeq
        <4>4. [i \in DOMAIN outbox[q] |-> <<Disown(t, outbox[q][i][1]), outbox[q][i][2]>>]
                 \in Seq(Owners \X Answers)
          BY <3>1, DisownReplies
        <4> QED BY <4>1, <4>2, <4>3, <4>4
      <3>3. CASE q # entry[t]
        BY <1>26, <3>1, <3>3 DEF Return
      <3> QED BY <3>2, <3>3
    <2>2. inbox' \in [Procs -> Seq(Owners)] /\ outbox' \in [Procs -> Seq(Owners \X Answers)]
      BY <1>26, <2>1 DEF Return
    <2>3. lock' \in [Procs -> Owners] /\ running' \in [Procs -> Owners \cup {Idle}]
      BY <1>26 DEF Return, Disown
    <2>4. home' \in [Sessions -> Procs \cup {NoProc}]
      BY <1>26 DEF Return
    <2>5. TypeOK'
      BY <1>26, <2>2, <2>3, <2>4 DEF Return
    <2>6. LocalsOK'
      BY <1>26 DEF Return
    <2> QED BY <2>5, <2>6
  <1>27. ASSUME NEW p \in Procs, ChildReceive(p) PROVE Typed'
    BY <1>27, HeadTailProperties DEF ChildReceive
  <1>28. ASSUME NEW p \in Procs, NEW a \in Answers, ChildReply(p, a) PROVE Typed'
    BY <1>28, AppendProperties DEF ChildReply
  <1>29. ASSUME NEW p \in Procs, ChildExit(p) PROVE Typed'
    BY <1>29, SignalTyped DEF ChildExit
  <1> QED
    BY <1>1, <1>2, <1>3, <1>4, <1>5, <1>6, <1>7, <1>8, <1>9, <1>10, <1>11, <1>12, <1>13,
       <1>14, <1>15, <1>16, <1>17, <1>18, <1>19, <1>20, <1>21, <1>22, <1>23, <1>24, <1>25,
       <1>26, <1>27, <1>28, <1>29
    DEF Next, Request, Serve, Child

\* Every variable keeps its type, and a thread's locals are bound where run_cell and
\* stop_shell use them: no step looks up a missing session, process or entry.
THEOREM TypeCorrect == Spec => []TypeOK
  <1>1. Spec => []Typed
    BY TypedInit, TypedNext, PTL DEF Spec
  <1>2. Typed => TypeOK
    BY DEF Typed
  <1> QED BY <1>1, <1>2, PTL

-----------------------------------------------------------------------------
(* The entry's lock.                                                       *)

\* No lock is held at the start.
LEMMA LockInit == Init => LockOK
  <1> SUFFICES ASSUME Init, NEW t \in Threads
               PROVE  /\ pc[t] \in Holding => lock[entry[t]] = t
                      /\ \A p \in Procs : lock[p] # t
    BY DEF LockOK
  <1>1. pc[t] \notin Holding
    BY DEF Init, Holding
  <1>2. \A p \in Procs : lock[p] # t
    BY NobodyApart DEF Init
  <1> QED BY <1>1, <1>2

\* From acquire to return a thread holds the lock of its entry and no other: stop_shell,
\* which takes none, cannot release it.
LEMMA LockNext == Typed /\ LockOK /\ [Next]_vars => LockOK'
  <1> SUFFICES ASSUME TypeOK, LocalsOK, LockOK, [Next]_vars PROVE LockOK'
    BY DEF Typed
  <1> USE DEF TypeOK, LocalsOK, LockOK, At, Goto, Holding, Owners, manager, process, locals
  <1>1. CASE UNCHANGED vars
    BY <1>1 DEF vars
  <1>2. ASSUME NEW t \in Threads, NEW s \in Sessions, ExecRequest(t, s) PROVE LockOK'
    BY <1>2 DEF ExecRequest
  <1>3. ASSUME NEW t \in Threads, NEW s \in Sessions, DeleteRequest(t, s) PROVE LockOK'
    BY <1>3 DEF DeleteRequest
  <1>4. ASSUME NEW t \in Threads, DeleteCheck(t) PROVE LockOK'
    BY <1>4 DEF DeleteCheck
  <1>5. ASSUME NEW t \in Threads, Sweep(t) PROVE LockOK'
    BY <1>5 DEF Sweep
  <1>6. ASSUME NEW t \in Threads, NEW s \in Sessions, PopShell(t, s) PROVE LockOK'
    BY <1>6 DEF PopShell, Unlisted
  <1>7. ASSUME NEW t \in Threads, StopShell(t) PROVE LockOK'
    BY <1>7 DEF StopShell
  <1>8. ASSUME NEW t \in Threads, PopDone(t) PROVE LockOK'
    BY <1>8 DEF PopDone
  <1>9. ASSUME NEW t \in Threads, Lookup(t) PROVE LockOK'
    BY <1>9 DEF Lookup
  <1>10. ASSUME NEW t \in Threads, CheckPresent(t) PROVE LockOK'
    BY <1>10 DEF CheckPresent
  <1>11. ASSUME NEW t \in Threads, TakePending(t) PROVE LockOK'
    BY <1>11 DEF TakePending, Fails
  <1>12. ASSUME NEW t \in Threads, Fork(t) PROVE LockOK'
    BY <1>12 DEF Fork
  <1>13. ASSUME NEW t \in Threads, Register(t) PROVE LockOK'
    BY <1>13 DEF Register
  <1>14. ASSUME NEW t \in Threads, Refetch(t) PROVE LockOK'
    BY <1>14 DEF Refetch, Fails
  <1>15. ASSUME NEW t \in Threads, Acquire(t) PROVE LockOK'
    BY <1>15, NobodyApart DEF Acquire
  <1>16. ASSUME NEW t \in Threads, Send(t) PROVE LockOK'
    BY <1>16 DEF Send, MustRestart
  <1>17. ASSUME NEW t \in Threads, ReceiveReply(t) PROVE LockOK'
    BY <1>17 DEF ReceiveReply, Waiting
  <1>18. ASSUME NEW t \in Threads, ReceiveEOF(t) PROVE LockOK'
    BY <1>18 DEF ReceiveEOF, Waiting, MustRestart
  <1>19. ASSUME NEW t \in Threads, ReceiveBroken(t) PROVE LockOK'
    BY <1>19 DEF ReceiveBroken, Waiting, Fails
  <1>20. ASSUME NEW t \in Threads, PollTimeout(t) PROVE LockOK'
    BY <1>20 DEF PollTimeout
  <1>21. ASSUME NEW t \in Threads, SendSigint(t) PROVE LockOK'
    BY <1>21 DEF SendSigint
  <1>22. ASSUME NEW t \in Threads, GraceTimeout(t) PROVE LockOK'
    BY <1>22 DEF GraceTimeout, MustRestart
  <1>23. ASSUME NEW t \in Threads, Cleanup(t) PROVE LockOK'
    BY <1>23 DEF Cleanup
  <1>24. ASSUME NEW t \in Threads, Unlist(t) PROVE LockOK'
    BY <1>24 DEF Unlist, Unlisted
  <1>25. ASSUME NEW t \in Threads, MarkPending(t) PROVE LockOK'
    BY <1>25 DEF MarkPending
  <1>26. ASSUME NEW t \in Threads, Return(t) PROVE LockOK'
    BY <1>26, NobodyApart DEF Return, Disown
  <1>27. ASSUME NEW p \in Procs, ChildReceive(p) PROVE LockOK'
    BY <1>27 DEF ChildReceive
  <1>28. ASSUME NEW p \in Procs, NEW a \in Answers, ChildReply(p, a) PROVE LockOK'
    BY <1>28 DEF ChildReply
  <1>29. ASSUME NEW p \in Procs, ChildExit(p) PROVE LockOK'
    BY <1>29 DEF ChildExit
  <1> QED
    BY <1>1, <1>2, <1>3, <1>4, <1>5, <1>6, <1>7, <1>8, <1>9, <1>10, <1>11, <1>12, <1>13,
       <1>14, <1>15, <1>16, <1>17, <1>18, <1>19, <1>20, <1>21, <1>22, <1>23, <1>24,
       <1>25, <1>26, <1>27, <1>28, <1>29
    DEF Next, Request, Serve, Child

-----------------------------------------------------------------------------
(* The pipes.                                                              *)

\* No pipe is open at the start.
LEMMA PipeInit == Init => PipeOK
  BY DEF Init, PipeOK

\* A step that touches no process, no pipe and no lock, and makes no thread stop
\* following its request, changes the state of no pipe.
LEMMA PipeKept ==
    ASSUME PipeOK, UNCHANGED <<process, lock>>,
           \A t \in Threads : pc[t] \in Following => pc'[t] \in Following
    PROVE  PipeOK'
  <1> USE DEF process
  <1>1. ASSUME NEW p \in Procs, Followed(p) PROVE Followed(p)'
    BY <1>1 DEF Followed, Carries
  <1> QED
    BY <1>1 DEF PipeOK, Quiet, Broken

\* A step that changes one process and its pipe, and lets every thread that follows a
\* request elsewhere go on, leaves the other pipes as they are.
LEMMA PipeElsewhere ==
    ASSUME PipeOK, NEW p, NEW q \in Procs, q # p, open'[q],
           open'[q] = open[q], alive'[q] = alive[q], inbox'[q] = inbox[q],
           running'[q] = running[q], outbox'[q] = outbox[q], lock'[q] = lock[q],
           \A t \in Threads : lock[q] = t /\ pc[t] \in Following => pc'[t] \in Following
    PROVE  Quiet(q)' \/ Broken(q)' \/ Followed(q)'
  <1>1. Quiet(q) \/ Broken(q) \/ Followed(q)
    BY DEF PipeOK
  <1>2. CASE Quiet(q)
    BY <1>2 DEF Quiet
  <1>3. CASE Broken(q)
    BY <1>3 DEF Broken
  <1>4. CASE Followed(q)
    <2>1. PICK t \in Threads : lock[q] = t /\ pc[t] \in Following /\ Carries(q, t)
      BY <1>4 DEF Followed
    <2>2. Carries(q, t)'
      BY <2>1 DEF Carries
    <2> QED BY <2>1, <2>2 DEF Followed
  <1> QED BY <1>1, <1>2, <1>3, <1>4

\* A process that ends leaves its pipe empty, broken or answered.
LEMMA PipeKilled ==
    ASSUME TypeOK, PipeOK, NEW p, Killed(p), UNCHANGED <<inbox, outbox, lock>>,
           \A q \in Procs : open'[q] => open[q],
           \A t \in Threads : pc[t] \in Following => pc'[t] \in Following
    PROVE  PipeOK'
  <1> SUFFICES ASSUME NEW q \in Procs, open'[q]
               PROVE  Quiet(q)' \/ Broken(q)' \/ Followed(q)'
    BY DEF PipeOK
  <1>1. CASE q # p
    BY <1>1, PipeElsewhere DEF Killed, TypeOK
  <1>2. CASE q = p
    <2>1. alive'[q] = FALSE /\ running'[q] = Idle /\ inbox'[q] = inbox[q] /\ outbox'[q] = outbox[q]
      BY <1>2 DEF Killed, TypeOK
    <2>2. Quiet(q) \/ Broken(q) \/ Followed(q)
      BY DEF PipeOK
    <2>3. CASE Quiet(q)
      BY <2>1, <2>3 DEF Quiet
    <2>4. CASE Broken(q)
      BY <2>1, <2>4 DEF Broken
    <2>5. CASE Followed(q)
      <3>1. PICK t \in Threads : lock[q] = t /\ pc[t] \in Following /\ Carries(q, t)
        BY <2>5 DEF Followed
      <3>2. CASE inbox[q] = <<t>> /\ running[q] = Idle /\ outbox[q] = <<>>
        BY <2>1, <3>2 DEF Broken, Owners
      <3>3. CASE inbox[q] = <<>> /\ running[q] = t /\ outbox[q] = <<>>
        BY <2>1, <3>3 DEF Quiet
      <3>4. CASE inbox[q] = <<>> /\ running[q] = Idle /\ \E a \in Answers : outbox[q] = <<<<t, a>>>>
        BY <2>1, <3>1, <3>4 DEF Followed, Carries
      <3> QED BY <3>1, <3>2, <3>3, <3>4 DEF Carries
    <2> QED BY <2>2, <2>3, <2>4, <2>5
  <1> QED BY <1>1, <1>2

\* Disowning leaves the requests of other threads alone.
LEMMA DisownPipe ==
    ASSUME NEW t \in Threads, NEW o, NEW a
    PROVE  /\ [i \in DOMAIN <<>> |-> Disown(t, <<>>[i])] = <<>>
           /\ [i \in DOMAIN <<>> |-> <<Disown(t, <<>>[i][1]), <<>>[i][2]>>] = <<>>
           /\ [i \in DOMAIN <<o>> |-> Disown(t, <<o>>[i])] = <<Disown(t, o)>>
           /\ [i \in DOMAIN <<<<o, a>>>> |-> <<Disown(t, <<<<o, a>>>>[i][1]), <<<<o, a>>>>[i][2]>>]
                 = <<<<Disown(t, o), a>>>>
  OBVIOUS

\* No step leaves in an open pipe a request that the holder of the lock does not follow.
LEMMA PipeNext == Typed /\ LockOK /\ PipeOK /\ [Next]_vars => PipeOK'
  <1> SUFFICES ASSUME TypeOK, LocalsOK, LockOK, PipeOK, [Next]_vars PROVE PipeOK'
    BY DEF Typed
  <1> DEFINE Goes == \A u \in Threads : pc[u] \in Following => pc'[u] \in Following
             Fine(q) == Quiet(q) \/ Broken(q) \/ Followed(q)
  <1> USE DEF At, Goto, manager, process
  <1>1. CASE UNCHANGED vars
    BY <1>1, PipeKept DEF vars, locals
  <1>2. ASSUME NEW t \in Threads, NEW s \in Sessions, ExecRequest(t, s) PROVE PipeOK'
    <2>1. Goes
      BY <1>2 DEF ExecRequest, Following, TypeOK
    <2> QED BY <1>2, <2>1, PipeKept DEF ExecRequest
  <1>3. ASSUME NEW t \in Threads, NEW s \in Sessions, DeleteRequest(t, s) PROVE PipeOK'
    <2>1. Goes
      BY <1>3 DEF DeleteRequest, Following, TypeOK
    <2> QED BY <1>3, <2>1, PipeKept DEF DeleteRequest
  <1>4. ASSUME NEW t \in Threads, DeleteCheck(t) PROVE PipeOK'
    <2>1. Goes
      BY <1>4 DEF DeleteCheck, Following, TypeOK
    <2> QED BY <1>4, <2>1, PipeKept DEF DeleteCheck
  <1>5. ASSUME NEW t \in Threads, Sweep(t) PROVE PipeOK'
    <2>1. Goes
      BY <1>5 DEF Sweep, Following, TypeOK
    <2> QED BY <1>5, <2>1, PipeKept DEF Sweep
  <1>6. ASSUME NEW t \in Threads, NEW s \in Sessions, PopShell(t, s) PROVE PipeOK'
    <2>1. Goes
      BY <1>6 DEF PopShell, Following, TypeOK
    <2> QED BY <1>6, <2>1, PipeKept DEF PopShell
  <1>7. ASSUME NEW t \in Threads, PopDone(t) PROVE PipeOK'
    <2>1. Goes
      BY <1>7 DEF PopDone, Following, TypeOK
    <2> QED BY <1>7, <2>1, PipeKept DEF PopDone
  <1>8. ASSUME NEW t \in Threads, Lookup(t) PROVE PipeOK'
    <2>1. Goes
      BY <1>8 DEF Lookup, Following, TypeOK
    <2> QED BY <1>8, <2>1, PipeKept DEF Lookup
  <1>9. ASSUME NEW t \in Threads, CheckPresent(t) PROVE PipeOK'
    <2>1. Goes
      BY <1>9 DEF CheckPresent, Following, TypeOK
    <2> QED BY <1>9, <2>1, PipeKept DEF CheckPresent
  <1>10. ASSUME NEW t \in Threads, TakePending(t) PROVE PipeOK'
    <2>1. Goes
      BY <1>10 DEF TakePending, Fails, Following, TypeOK
    <2> QED BY <1>10, <2>1, PipeKept DEF TakePending, Fails
  <1>11. ASSUME NEW t \in Threads, Register(t) PROVE PipeOK'
    <2>1. Goes
      BY <1>11 DEF Register, Following, TypeOK
    <2> QED BY <1>11, <2>1, PipeKept DEF Register
  <1>12. ASSUME NEW t \in Threads, Refetch(t) PROVE PipeOK'
    <2>1. Goes
      BY <1>12 DEF Refetch, Fails, Following, TypeOK
    <2> QED BY <1>12, <2>1, PipeKept DEF Refetch, Fails
  <1>13. ASSUME NEW t \in Threads, ReceiveEOF(t) PROVE PipeOK'
    <2>1. Goes
      BY <1>13 DEF ReceiveEOF, Waiting, MustRestart, Following, TypeOK
    <2> QED BY <1>13, <2>1, PipeKept DEF ReceiveEOF, Waiting, MustRestart
  <1>14. ASSUME NEW t \in Threads, PollTimeout(t) PROVE PipeOK'
    <2>1. Goes
      BY <1>14 DEF PollTimeout, Following, TypeOK
    <2> QED BY <1>14, <2>1, PipeKept DEF PollTimeout
  <1>15. ASSUME NEW t \in Threads, GraceTimeout(t) PROVE PipeOK'
    <2>1. Goes
      BY <1>15 DEF GraceTimeout, MustRestart, Following, TypeOK
    <2> QED BY <1>15, <2>1, PipeKept DEF GraceTimeout, MustRestart
  <1>16. ASSUME NEW t \in Threads, Unlist(t) PROVE PipeOK'
    <2>1. Goes
      BY <1>16 DEF Unlist, Following, TypeOK
    <2> QED BY <1>16, <2>1, PipeKept DEF Unlist
  <1>17. ASSUME NEW t \in Threads, MarkPending(t) PROVE PipeOK'
    <2>1. Goes
      BY <1>17 DEF MarkPending, Following, TypeOK
    <2> QED BY <1>17, <2>1, PipeKept DEF MarkPending
  <1>18. ASSUME NEW t \in Threads, StopShell(t) PROVE PipeOK'
    <2>1. Goes
      BY <1>18 DEF StopShell, Following, TypeOK
    <2>2. ASSUME NEW q \in Procs, open'[q] PROVE Fine(q)'
      <3>1. q # proc[t]
        BY <1>18, <2>2 DEF StopShell, Closed, TypeOK
      <3> QED
        BY <1>18, <2>1, <2>2, <3>1, PipeElsewhere DEF StopShell, Closed, Terminated, Killed, TypeOK
    <2> QED BY <2>2 DEF PipeOK
  <1>19. ASSUME NEW t \in Threads, Cleanup(t) PROVE PipeOK'
    <2>1. ASSUME NEW q \in Procs, open'[q] PROVE Fine(q)'
      <3>1. q # entry[t]
        BY <1>19, <2>1 DEF Cleanup, Closed, TypeOK
      <3>2. \A u \in Threads : lock[q] = u /\ pc[u] \in Following => pc'[u] \in Following
        BY <1>19, <3>1 DEF Cleanup, LockOK, TypeOK
      <3> QED
        BY <1>19, <2>1, <3>1, <3>2, PipeElsewhere DEF Cleanup, Closed, Terminated, Killed, TypeOK
    <2> QED BY <2>1 DEF PipeOK
  <1>20. ASSUME NEW t \in Threads, Fork(t) PROVE PipeOK'
    <2>1. Goes
      BY <1>20 DEF Fork, Following, TypeOK
    <2>2. PICK p \in Procs :
             /\ alive' = [alive EXCEPT ![p] = TRUE] /\ open' = [open EXCEPT ![p] = TRUE]
             /\ inbox' = [inbox EXCEPT ![p] = <<>>] /\ running' = [running EXCEPT ![p] = Idle]
             /\ outbox' = [outbox EXCEPT ![p] = <<>>]
      BY <1>20 DEF Fork
    <2>3. ASSUME NEW q \in Procs, open'[q] PROVE Fine(q)'
      <3>1. CASE q = p
        BY <2>2, <3>1 DEF Quiet, TypeOK
      <3>2. CASE q # p
        BY <1>20, <2>1, <2>2, <2>3, <3>2, PipeElsewhere DEF Fork, TypeOK
      <3> QED BY <3>1, <3>2
    <2> QED BY <2>3 DEF PipeOK
  <1>21. ASSUME NEW t \in Threads, Acquire(t) PROVE PipeOK'
    <2>1. Goes
      BY <1>21 DEF Acquire, Following, TypeOK
    <2>2. ASSUME NEW q \in Procs, open'[q] PROVE Fine(q)'
      <3>1. CASE q = entry[t]
        <4>1. ~Followed(q)
          BY <1>21, <3>1, NobodyApart DEF Acquire, Followed
        <4>2. Quiet(q) \/ Broken(q)
          BY <1>21, <2>2, <4>1 DEF PipeOK, Acquire
        <4> QED BY <1>21, <4>2 DEF Acquire, Quiet, Broken
      <3>2. CASE q # entry[t]
        BY <1>21, <2>1, <2>2, <3>2, PipeElsewhere DEF Acquire, TypeOK
      <3> QED BY <3>1, <3>2
    <2> QED BY <2>2 DEF PipeOK
  <1>22. ASSUME NEW t \in Threads, Send(t) PROVE PipeOK'
    <2> DEFINE p == entry[t]
    <2>1. Goes
      BY <1>22 DEF Send, MustRestart, Following, TypeOK
    <2>2. CASE UNCHANGED inbox
      BY <1>22, <2>1, <2>2, PipeKept DEF Send
    <2>3. CASE /\ Reachable(p)
               /\ inbox' = [inbox EXCEPT ![p] = Append(@, t)]
               /\ Goto(t, "await")
      <3>1. p \in Procs /\ lock[p] = t
        BY <1>22 DEF Send, LocalsOK, LockOK, Holding
      <3>2. Quiet(p)
        <4>1. ~Followed(p)
          BY <1>22, <3>1 DEF Send, Followed, Following
        <4> QED BY <2>3, <3>1, <4>1 DEF PipeOK, Broken, Reachable
      <3>3. ASSUME NEW q \in Procs, open'[q] PROVE Fine(q)'
        <4>1. CASE q = p
          <5>1. inbox'[q] = <<t>>
            BY <1>22, <2>3, <3>1, <3>2, <4>1 DEF Send, Quiet, TypeOK
          <5>2. Carries(q, t)'
            BY <1>22, <2>3, <3>2, <4>1, <5>1 DEF Send, Quiet, Carries
          <5>3. pc'[t] \in Following /\ lock'[q] = t
            BY <1>22, <2>3, <3>1, <4>1 DEF Send, Goto, Following, TypeOK
          <5> QED BY <5>2, <5>3 DEF Followed
        <4>2. CASE q # p
          BY <1>22, <2>1, <2>3, <3>3, <4>2, PipeElsewhere DEF Send, TypeOK
        <4> QED BY <4>1, <4>2
      <3> QED BY <3>3 DEF PipeOK
    <2> QED BY <1>22, <2>2, <2>3 DEF Send
  <1>23. ASSUME NEW t \in Threads, ReceiveReply(t) PROVE PipeOK'
    <2> DEFINE p == entry[t]
    <2>1. p \in Procs /\ lock[p] = t
      BY <1>23 DEF ReceiveReply, Waiting, LocalsOK, LockOK, Holding
    <2>2. ASSUME NEW q \in Procs, open'[q] PROVE Fine(q)'
      <3>1. CASE q = p
        <4>1. Followed(p)
          BY <1>23, <2>1 DEF ReceiveReply, PipeOK, Quiet, Broken
        <4>2. inbox[p] = <<>> /\ running[p] = Idle /\ \E a \in Answers : outbox[p] = <<<<t, a>>>>
          BY <1>23, <2>1, <4>1 DEF ReceiveReply, Followed, Carries
        <4>3. outbox'[p] = <<>>
          BY <1>23, <2>1, <4>2 DEF ReceiveReply, TypeOK
        <4> QED BY <1>23, <3>1, <4>2, <4>3 DEF ReceiveReply, Quiet
      <3>2. CASE q # p
        <4>1. \A u \in Threads : lock[q] = u /\ pc[u] \in Following => pc'[u] \in Following
          BY <1>23, <3>2 DEF ReceiveReply, LockOK, TypeOK
        <4> QED BY <1>23, <2>2, <3>2, <4>1, PipeElsewhere DEF ReceiveReply, TypeOK
      <3> QED BY <3>1, <3>2
    <2> QED BY <2>2 DEF PipeOK
  <1>24. ASSUME NEW t \in Threads, ReceiveBroken(t) PROVE PipeOK'
    <2> DEFINE p == entry[t]
    <2>1. ASSUME NEW q \in Procs, open'[q] PROVE Fine(q)'
      <3>1. CASE q = p
        <4>1. ~alive[q] /\ outbox[q] = <<>> /\ inbox[q] # <<>>
          BY <1>24, <2>1, <3>1 DEF ReceiveBroken
        <4>2. Broken(q) \/ Followed(q)
          BY <1>24, <2>1, <4>1 DEF PipeOK, Quiet, ReceiveBroken
        <4>3. Broken(q)
          <5>1. CASE Followed(q)
            BY <4>1, <5>1 DEF Followed, Carries, Broken, Owners
          <5> QED BY <4>2, <5>1
        <4> QED BY <1>24, <4>3 DEF ReceiveBroken, Broken
      <3>2. CASE q # p
        <4>1. \A u \in Threads : lock[q] = u /\ pc[u] \in Following => pc'[u] \in Following
          BY <1>24, <3>2 DEF ReceiveBroken, Fails, LockOK, TypeOK
        <4> QED BY <1>24, <2>1, <3>2, <4>1, PipeElsewhere DEF ReceiveBroken
      <3> QED BY <3>1, <3>2
    <2> QED BY <2>1 DEF PipeOK
  <1>25. ASSUME NEW t \in Threads, SendSigint(t) PROVE PipeOK'
    <2>1. Goes
      BY <1>25 DEF SendSigint, Following, TypeOK
    <2>2. CASE mask[entry[t]] = "default"
      BY <1>25, <2>1, <2>2, PipeKilled DEF SendSigint, Interrupted
    <2>3. CASE mask[entry[t]] # "default"
      BY <1>25, <2>1, <2>3, PipeKept DEF SendSigint, Interrupted
    <2> QED BY <2>2, <2>3
  <1>26. ASSUME NEW t \in Threads, Return(t) PROVE PipeOK'
    <2> DEFINE p == entry[t]
    <2>1. Goes
      BY <1>26 DEF Return, Following, TypeOK
    <2>2. ASSUME NEW q \in Procs, open'[q] PROVE Fine(q)'
      <3>1. CASE q = p
        <4>1. /\ alive'[q] = alive[q] /\ running'[q] = Disown(t, running[q])
              /\ lock'[q] = Disown(t, lock[q])
              /\ inbox'[q] = [i \in DOMAIN inbox[q] |-> Disown(t, inbox[q][i])]
              /\ outbox'[q] = [i \in DOMAIN outbox[q] |->
                                  <<Disown(t, outbox[q][i][1]), outbox[q][i][2]>>]
          BY <1>26, <3>1 DEF Return
        <4>2. Disown(t, Idle) = Idle
          BY IdleApart DEF Disown, Owners
        <4>3. Fine(q)
          BY <1>26, <2>2 DEF Return, PipeOK
        <4>4. CASE Quiet(q)
          BY <4>1, <4>2, <4>4, DisownPipe DEF Quiet
        <4>5. CASE Broken(q)
          <5>1. PICK o \in Owners : inbox[q] = <<o>>
            BY <4>5 DEF Broken
          <5>2. inbox'[q] = <<Disown(t, o)>> /\ outbox'[q] = <<>>
            BY <4>1, <4>5, <5>1, DisownPipe DEF Broken
          <5>3. Disown(t, o) \in Owners
            BY DEF Disown, Owners
          <5> QED BY <4>1, <4>2, <4>5, <5>2, <5>3 DEF Broken
        <4>6. CASE Followed(q)
          <5>1. PICK u \in Threads : lock[q] = u /\ pc[u] \in Following /\ Carries(q, u)
            BY <4>6 DEF Followed
          <5>2. Disown(t, u) = u
            BY <1>26, <5>1 DEF Disown, Return, Following
          <5>3. lock'[q] = u /\ pc'[u] \in Following
            BY <2>1, <4>1, <5>1, <5>2
          <5>4. CASE inbox[q] = <<u>> /\ running[q] = Idle /\ outbox[q] = <<>>
            BY <4>1, <4>2, <5>2, <5>3, <5>4, DisownPipe DEF Followed, Carries
          <5>5. CASE inbox[q] = <<>> /\ running[q] = u /\ outbox[q] = <<>>
            BY <4>1, <5>2, <5>3, <5>5, DisownPipe DEF Followed, Carries
          <5>6. CASE inbox[q] = <<>> /\ running[q] = Idle /\ \E a \in Answers : outbox[q] = <<<<u, a>>>>
            <6>1. PICK a \in Answers : outbox[q] = <<<<u, a>>>>
              BY <5>6
            <6>2. inbox'[q] = <<>> /\ running'[q] = Idle /\ outbox'[q] = <<<<u, a>>>>
              BY <4>1, <4>2, <5>2, <5>6, <6>1, DisownPipe
            <6> QED BY <5>3, <6>2 DEF Followed, Carries
          <5> QED BY <5>1, <5>4, <5>5, <5>6 DEF Carries
        <4> QED BY <4>3, <4>4, <4>5, <4>6
      <3>2. CASE q # p
        BY <1>26, <2>1, <2>2, <3>2, PipeElsewhere DEF Return
      <3> QED BY <3>1, <3>2
    <2> QED BY <2>2 DEF PipeOK
  <1>27. ASSUME NEW p \in Procs, ChildReceive(p) PROVE PipeOK'
    <2>1. Goes
      BY <1>27 DEF ChildReceive, locals
    <2>2. ASSUME NEW q \in Procs, open'[q] PROVE Fine(q)'
      <3>1. CASE q = p
        <4>1. Followed(p)
          BY <1>27, <2>2, <3>1 DEF ChildReceive, PipeOK, Quiet, Broken
        <4>2. PICK t \in Threads : lock[p] = t /\ pc[t] \in Following /\ Carries(p, t)
          BY <4>1 DEF Followed
        <4>3. inbox[p] = <<t>> /\ outbox[p] = <<>>
          BY <1>27, <4>2 DEF ChildReceive, Carries
        <4>4. inbox'[p] = <<>> /\ running'[p] = t /\ outbox'[p] = <<>>
          BY <1>27, <4>3 DEF ChildReceive, TypeOK
        <4>5. lock'[p] = t /\ pc'[t] \in Following
          BY <1>27, <2>1, <4>2 DEF ChildReceive
        <4> QED BY <3>1, <4>4, <4>5 DEF Followed, Carries
      <3>2. CASE q # p
        BY <1>27, <2>1, <2>2, <3>2, PipeElsewhere DEF ChildReceive, TypeOK
      <3> QED BY <3>1, <3>2
    <2> QED BY <2>2 DEF PipeOK
  <1>28. ASSUME NEW p \in Procs, NEW a \in Answers, ChildReply(p, a) PROVE PipeOK'
    <2>1. Goes
      BY <1>28 DEF ChildReply, locals
    <2>2. ASSUME NEW q \in Procs, open'[q] PROVE Fine(q)'
      <3>1. CASE q = p
        <4>1. Followed(p)
          BY <1>28, <2>2, <3>1 DEF ChildReply, PipeOK, Quiet, Broken
        <4>2. PICK t \in Threads : lock[p] = t /\ pc[t] \in Following /\ Carries(p, t)
          BY <4>1 DEF Followed
        <4>3. inbox[p] = <<>> /\ running[p] = t /\ outbox[p] = <<>>
          BY <1>28, <4>2 DEF ChildReply, Carries
        <4>4. inbox'[p] = <<>> /\ running'[p] = Idle /\ outbox'[p] = <<<<t, a>>>>
          BY <1>28, <4>3 DEF ChildReply, TypeOK
        <4>5. lock'[p] = t /\ pc'[t] \in Following
          BY <1>28, <2>1, <4>2 DEF ChildReply
        <4> QED BY <3>1, <4>4, <4>5 DEF Followed, Carries
      <3>2. CASE q # p
        BY <1>28, <2>1, <2>2, <3>2, PipeElsewhere DEF ChildReply, TypeOK
      <3> QED BY <3>1, <3>2
    <2> QED BY <2>2 DEF PipeOK
  <1>29. ASSUME NEW p \in Procs, ChildExit(p) PROVE PipeOK'
    <2>1. Goes
      BY <1>29 DEF ChildExit, locals
    <2> QED BY <1>29, <2>1, PipeKilled DEF ChildExit
  <1> QED
    BY <1>1, <1>2, <1>3, <1>4, <1>5, <1>6, <1>7, <1>8, <1>9, <1>10, <1>11, <1>12, <1>13,
       <1>14, <1>15, <1>16, <1>17, <1>18, <1>19, <1>20, <1>21, <1>22, <1>23, <1>24,
       <1>25, <1>26, <1>27, <1>28, <1>29
    DEF Next, Request, Serve, Child

\* The inductive invariant holds in every reachable state.
LEMMA PipeInvariant == Spec => []PipeInv
  <1>1. Init => Typed /\ LockOK /\ PipeOK
    BY TypedInit, LockInit, PipeInit
  <1>2. Typed /\ LockOK /\ PipeOK /\ [Next]_vars => (Typed /\ LockOK /\ PipeOK)'
    BY TypedNext, LockNext, PipeNext
  <1>3. Typed /\ LockOK /\ PipeOK => PipeInv
    BY DEF Typed, PipeInv
  <1> QED BY <1>1, <1>2, <1>3, PTL DEF Spec

\* No reply goes to the wrong request, although run_cell compares no ids: the lock keeps
\* other threads off the pipe, and a thread that gives up on a reply takes the shell
\* down before it lets go of the lock.
THEOREM ReplyIsOwn == Spec => []OwnReply
  <1>1. PipeInv => OwnReply
    <2> SUFFICES ASSUME PipeInv, NEW t \in Threads, Waiting(t), open[entry[t]],
                        outbox[entry[t]] # <<>>
                 PROVE  Head(outbox[entry[t]])[1] = t
      BY DEF OwnReply
    <2>1. entry[t] \in Procs /\ lock[entry[t]] = t
      BY DEF PipeInv, LocalsOK, LockOK, Waiting, Holding
    <2>2. Followed(entry[t])
      BY <2>1 DEF PipeInv, PipeOK, Quiet, Broken
    <2>3. PICK a \in Answers : outbox[entry[t]] = <<<<t, a>>>>
      BY <2>1, <2>2 DEF Followed, Carries
    <2> QED BY <2>3
  <1> QED BY <1>1, PipeInvariant, PTL

\* Cells of one session never overlap in its shell.
THEOREM CellsDoNotOverlap == Spec => []OneCell
  <1>1. PipeInv => OneCell
    <2> SUFFICES ASSUME PipeInv, NEW p \in Procs, open[p]
                 PROVE  Len(inbox[p]) + Len(outbox[p]) + (IF running[p] = Idle THEN 0 ELSE 1) <= 1
      BY DEF OneCell
    <2>1. CASE Quiet(p)
      BY <2>1 DEF Quiet
    <2>2. CASE Broken(p)
      BY <2>2 DEF Broken
    <2>3. CASE Followed(p)
      <3>1. PICK t \in Threads : Carries(p, t)
        BY <2>3 DEF Followed
      <3>2. CASE inbox[p] = <<t>> /\ running[p] = Idle /\ outbox[p] = <<>>
        BY <3>2
      <3>3. CASE inbox[p] = <<>> /\ running[p] = t /\ outbox[p] = <<>>
        BY <3>3
      <3>4. CASE inbox[p] = <<>> /\ running[p] = Idle /\ \E a \in Answers : outbox[p] = <<<<t, a>>>>
        BY <3>4
      <3> QED BY <3>1, <3>2, <3>3, <3>4 DEF Carries
    <2> QED BY <2>1, <2>2, <2>3 DEF PipeInv, PipeOK
  <1> QED BY <1>1, PipeInvariant, PTL

-----------------------------------------------------------------------------
(* One request at a time.  With several threads both theorems fail:        *)
(* stop_shell and a restart take the entry away under another request.     *)

\* A uWSGI process without enable-threads serves one request at a time.
Alone == \E t : Threads = {t}

\* Where a request stands towards the entry of its session.
Listed == {"present", "pending", "acquire", "send", "await", "sigint", "grace", "cleanup", "unlist"}
Vacant == {"fork", "register", "refork", "reregister"}
Tabled(t) ==
    /\ pc[t] \in Listed => shells[sid[t]] = entry[t]
    /\ pc[t] \in Vacant => shells[sid[t]] = NoProc
    /\ pc[t] = "refetch" => shells[sid[t]] # NoProc
    /\ pc[t] = "sweep" => op[t] = "exec"
    /\ pc[t] \in {"pop", "stop"} /\ op[t] = "delete" =>
          shells[sid[t]] = NoProc \/ sid[t] \in doomed[t]

\* A process has one session at most, and its pipe is open until it is cleaned up.
Apart ==
    /\ \A s, r \in Sessions : shells[s] = shells[r] /\ shells[s] # NoProc => s = r
    /\ \A t \in Threads : pc[t] \in {"stop", "register", "reregister"} =>
          \A s \in Sessions : shells[s] # proc[t]
    /\ \A t \in Threads : pc[t] \in {"register", "reregister"} => open[proc[t]]
    /\ \A s \in Sessions : shells[s] # NoProc =>
          open[shells[s]] \/ \E t \in Threads : pc[t] = "unlist" /\ sid[t] = s

\* A shell that can answer without a flag is the one that the client knows.
Taken == {"refetch", "acquire", "send", "await", "sigint", "grace", "cleanup",
          "unlist", "mark", "return"}
Known(s) == shells[s] # NoProc /\ ~pending[s] /\ alive[shells[s]] => home[s] = shells[s]
Told ==
    \A s \in Sessions : Known(s) \/ \E t \in Threads : pc[t] \in Taken /\ sid[t] = s

Trusts(t) == fresh[t] \/ home[sid[t]] = entry[t]
Heard(t) ==
    /\ pc[t] \in {"fork", "register", "refetch"} => fresh[t]
    /\ pc[t] \in {"acquire", "send", "await", "sigint", "grace"} =>
          Trusts(t) \/ (~alive[entry[t]] /\ outbox[entry[t]] = <<>>)
    /\ pc[t] \in {"cleanup", "unlist", "refork", "reregister", "mark"} =>
          outcome[t] \in {"restarted", "killed"}
    /\ pc[t] = "return" =>
          \/ outcome[t] \in Answers /\ shells[sid[t]] = entry[t] /\ Trusts(t)
          \/ outcome[t] = "failed" /\ shells[sid[t]] = entry[t] /\ ~alive[entry[t]]
          \/ outcome[t] \in {"restarted", "killed"} /\ (pending[sid[t]] \/ shells[sid[t]] = NoProc)
          \/ outcome[t] = "deleted" /\ shells[sid[t]] = NoProc

\* The mark of a missing entry is no process.
LEMMA NoneApart == NoProc \notin Procs /\ NoSession \notin Sessions
  BY ShellManagerAssumption DEF ShellManagerAssumption

\* The entry that a request found stays its session's until it unlists it; no process is in
\* the table twice, nor both in it and on its way.
LEMMA TableNext ==
    ASSUME NEW t \in Threads, \A u \in Threads : u = t, TypeOK, LocalsOK,
           Tabled(t), Apart, [Next]_vars
    PROVE  Tabled(t)' /\ Apart'
  <1> USE NoneApart DEF TypeOK, LocalsOK, Tabled, Apart, At, Goto, Holding, Listed, Vacant, manager,
                        process, locals
  <1>1. CASE UNCHANGED vars
    BY <1>1 DEF vars
  <1>2. ASSUME NEW s \in Sessions, ExecRequest(t, s) PROVE Tabled(t)' /\ Apart'
    <2>1. Tabled(t)'
      BY <1>2 DEF ExecRequest
    <2>2. Apart'
      BY <1>2 DEF ExecRequest
    <2> QED BY <2>1, <2>2
  <1>3. ASSUME NEW s \in Sessions, DeleteRequest(t, s) PROVE Tabled(t)' /\ Apart'
    <2>1. Tabled(t)'
      BY <1>3 DEF DeleteRequest
    <2>2. Apart'
      BY <1>3 DEF DeleteRequest
    <2> QED BY <2>1, <2>2
  <1>4. ASSUME DeleteCheck(t) PROVE Tabled(t)' /\ Apart'
    <2>1. Tabled(t)'
      BY <1>4 DEF DeleteCheck
    <2>2. Apart'
      BY <1>4 DEF DeleteCheck
    <2> QED BY <2>1, <2>2
  <1>5. ASSUME Sweep(t) PROVE Tabled(t)' /\ Apart'
    <2>1. Tabled(t)'
      BY <1>5 DEF Sweep
    <2>2. Apart'
      BY <1>5 DEF Sweep
    <2> QED BY <2>1, <2>2
  <1>6. ASSUME NEW s \in Sessions, PopShell(t, s) PROVE Tabled(t)' /\ Apart'
    <2>1. Tabled(t)'
      BY <1>6 DEF PopShell, Unlisted
    <2>2. Apart'
      BY <1>6 DEF PopShell, Unlisted
    <2> QED BY <2>1, <2>2
  <1>7. ASSUME StopShell(t) PROVE Tabled(t)' /\ Apart'
    <2>1. Tabled(t)'
      BY <1>7 DEF StopShell, Closed
    <2>2. Apart'
      BY <1>7 DEF StopShell, Closed
    <2> QED BY <2>1, <2>2
  <1>8. ASSUME PopDone(t) PROVE Tabled(t)' /\ Apart'
    <2>1. Tabled(t)'
      BY <1>8 DEF PopDone
    <2>2. Apart'
      BY <1>8 DEF PopDone
    <2> QED BY <2>1, <2>2
  <1>9. ASSUME Lookup(t) PROVE Tabled(t)' /\ Apart'
    <2>1. Tabled(t)'
      BY <1>9 DEF Lookup
    <2>2. Apart'
      BY <1>9 DEF Lookup
    <2> QED BY <2>1, <2>2
  <1>10. ASSUME CheckPresent(t) PROVE Tabled(t)' /\ Apart'
    <2>1. Tabled(t)'
      BY <1>10 DEF CheckPresent
    <2>2. Apart'
      BY <1>10 DEF CheckPresent
    <2> QED BY <2>1, <2>2
  <1>11. ASSUME TakePending(t) PROVE Tabled(t)' /\ Apart'
    <2>1. Tabled(t)'
      BY <1>11 DEF TakePending, Fails
    <2>2. Apart'
      BY <1>11 DEF TakePending, Fails
    <2> QED BY <2>1, <2>2
  <1>12. ASSUME Fork(t) PROVE Tabled(t)' /\ Apart'
    <2>1. Tabled(t)'
      BY <1>12 DEF Fork
    <2>2. Apart'
      <3>1. PICK p \in Procs :
               /\ Spare(p) /\ open' = [open EXCEPT ![p] = TRUE] /\ proc' = [proc EXCEPT ![t] = p]
        BY <1>12 DEF Fork
      <3>2. \A r \in Sessions : shells[r] # p
        BY <3>1 DEF Spare
      <3>3. UNCHANGED shells /\ pc'[t] \in {"register", "reregister"} /\ pc[t] # "unlist"
        BY <1>12 DEF Fork
      <3> QED BY <3>1, <3>2, <3>3
    <2> QED BY <2>1, <2>2
  <1>13. ASSUME Register(t) PROVE Tabled(t)' /\ Apart'
    <2>1. Tabled(t)'
      BY <1>13 DEF Register
    <2>2. Apart'
      BY <1>13 DEF Register
    <2> QED BY <2>1, <2>2
  <1>14. ASSUME Refetch(t) PROVE Tabled(t)' /\ Apart'
    <2>1. Tabled(t)'
      BY <1>14 DEF Refetch, Fails
    <2>2. Apart'
      BY <1>14 DEF Refetch, Fails
    <2> QED BY <2>1, <2>2
  <1>15. ASSUME Acquire(t) PROVE Tabled(t)' /\ Apart'
    <2>1. Tabled(t)'
      BY <1>15 DEF Acquire
    <2>2. Apart'
      BY <1>15 DEF Acquire
    <2> QED BY <2>1, <2>2
  <1>16. ASSUME Send(t) PROVE Tabled(t)' /\ Apart'
    <2>1. Tabled(t)'
      BY <1>16 DEF Send, MustRestart
    <2>2. Apart'
      BY <1>16 DEF Send, MustRestart
    <2> QED BY <2>1, <2>2
  <1>17. ASSUME ReceiveReply(t) PROVE Tabled(t)' /\ Apart'
    <2>1. Tabled(t)'
      BY <1>17 DEF ReceiveReply, Waiting
    <2>2. Apart'
      BY <1>17 DEF ReceiveReply, Waiting
    <2> QED BY <2>1, <2>2
  <1>18. ASSUME ReceiveEOF(t) PROVE Tabled(t)' /\ Apart'
    <2>1. Tabled(t)'
      BY <1>18 DEF ReceiveEOF, Waiting, MustRestart
    <2>2. Apart'
      BY <1>18 DEF ReceiveEOF, Waiting, MustRestart
    <2> QED BY <2>1, <2>2
  <1>19. ASSUME ReceiveBroken(t) PROVE Tabled(t)' /\ Apart'
    <2>1. Tabled(t)'
      BY <1>19 DEF ReceiveBroken, Waiting, Fails
    <2>2. Apart'
      BY <1>19 DEF ReceiveBroken, Waiting, Fails
    <2> QED BY <2>1, <2>2
  <1>20. ASSUME PollTimeout(t) PROVE Tabled(t)' /\ Apart'
    <2>1. Tabled(t)'
      BY <1>20 DEF PollTimeout
    <2>2. Apart'
      BY <1>20 DEF PollTimeout
    <2> QED BY <2>1, <2>2
  <1>21. ASSUME SendSigint(t) PROVE Tabled(t)' /\ Apart'
    <2>1. Tabled(t)'
      BY <1>21 DEF SendSigint
    <2>2. Apart'
      BY <1>21 DEF SendSigint
    <2> QED BY <2>1, <2>2
  <1>22. ASSUME GraceTimeout(t) PROVE Tabled(t)' /\ Apart'
    <2>1. Tabled(t)'
      BY <1>22 DEF GraceTimeout, MustRestart
    <2>2. Apart'
      BY <1>22 DEF GraceTimeout, MustRestart
    <2> QED BY <2>1, <2>2
  <1>23. ASSUME Cleanup(t) PROVE Tabled(t)' /\ Apart'
    <2>1. Tabled(t)'
      BY <1>23 DEF Cleanup, Closed
    <2>2. Apart'
      BY <1>23 DEF Cleanup, Closed
    <2> QED BY <2>1, <2>2
  <1>24. ASSUME Unlist(t) PROVE Tabled(t)' /\ Apart'
    <2>1. Tabled(t)'
      BY <1>24 DEF Unlist, Unlisted
    <2>2. Apart'
      BY <1>24 DEF Unlist, Unlisted
    <2> QED BY <2>1, <2>2
  <1>25. ASSUME MarkPending(t) PROVE Tabled(t)' /\ Apart'
    <2>1. Tabled(t)'
      BY <1>25 DEF MarkPending
    <2>2. Apart'
      BY <1>25 DEF MarkPending
    <2> QED BY <2>1, <2>2
  <1>26. ASSUME Return(t) PROVE Tabled(t)' /\ Apart'
    <2>1. Tabled(t)'
      BY <1>26 DEF Return
    <2>2. Apart'
      BY <1>26 DEF Return
    <2> QED BY <2>1, <2>2

  <1>27. ASSUME NEW p \in Procs, Child(p) PROVE Tabled(t)' /\ Apart'
    BY <1>27 DEF Child, ChildReceive, ChildReply, ChildExit
  <1> QED
    BY <1>1, <1>2, <1>3, <1>4, <1>5, <1>6, <1>7, <1>8, <1>9, <1>10, <1>11, <1>12, <1>13,
       <1>14, <1>15, <1>16, <1>17, <1>18, <1>19, <1>20, <1>21, <1>22, <1>23, <1>24, <1>25,
       <1>26, <1>27
    DEF Next, Request, Serve

\* A shell that died holds no reply while no request is under way in it.
LEMMA DeadSilent ==
    ASSUME PipeOK, NEW t \in Threads, \A u \in Threads : u = t, pc[t] \notin Following,
           NEW p \in Procs, open[p]
    PROVE  outbox[p] = <<>>
  <1>1. ~Followed(p)
    BY DEF Followed
  <1> QED BY <1>1 DEF PipeOK, Quiet, Broken

\* Without a flag, the shell is the one the client knows, or it is dead.
LEMMA TakePendingHeard ==
    ASSUME NEW t \in Threads, \A u \in Threads : u = t, TypeOK, LocalsOK, PipeOK,
           Tabled(t), Apart, Told, TakePending(t)
    PROVE  Heard(t)'
  <1>1. /\ pc[t] = "pending" /\ entry[t] \in Procs /\ sid[t] \in Sessions
        /\ shells[sid[t]] = entry[t] /\ entry[t] # NoProc
    BY NoneApart DEF TakePending, At, LocalsOK, Tabled, Listed
  <1>2. /\ fresh' = [fresh EXCEPT ![t] = pending[sid[t]]] /\ pc' = [pc EXCEPT ![t] = "acquire"]
        /\ UNCHANGED <<sid, entry, home, alive, outbox>>
    BY <1>1 DEF TakePending, Goto, process
  <1>3. pc'[t] = "acquire" /\ fresh'[t] = pending[sid[t]]
    BY <1>2 DEF TypeOK
  <1>4. open[entry[t]]
    BY <1>1 DEF Apart
  <1>5. outbox[entry[t]] = <<>>
    BY <1>1, <1>4, DeadSilent DEF Following
  <1>6. Known(sid[t])
    BY <1>1 DEF Told, Taken
  <1>7. Trusts(t)' \/ ~alive[entry[t]]
    BY <1>1, <1>2, <1>3, <1>6 DEF Known, Trusts
  <1> QED BY <1>2, <1>3, <1>5, <1>7 DEF Heard

\* A flag that a request has consumed reaches its client, or its shell is dead and gives no
\* answer any more.
LEMMA HeardNext ==
    ASSUME NEW t \in Threads, \A u \in Threads : u = t, TypeOK, LocalsOK, PipeOK,
           Tabled(t), Apart, Told, Heard(t), [Next]_vars
    PROVE  Heard(t)'
  <1> USE NoneApart DEF TypeOK, LocalsOK, Tabled, Apart, At, Goto, Holding, Listed, Vacant,
                        Trusts, Heard, manager, process, locals
  <1>1. CASE UNCHANGED vars
    BY <1>1 DEF vars
  <1>2. ASSUME NEW s \in Sessions, ExecRequest(t, s) PROVE Heard(t)'
    BY <1>2 DEF ExecRequest
  <1>3. ASSUME NEW s \in Sessions, DeleteRequest(t, s) PROVE Heard(t)'
    BY <1>3 DEF DeleteRequest
  <1>4. ASSUME DeleteCheck(t) PROVE Heard(t)'
    BY <1>4 DEF DeleteCheck
  <1>5. ASSUME Sweep(t) PROVE Heard(t)'
    BY <1>5 DEF Sweep
  <1>6. ASSUME NEW s \in Sessions, PopShell(t, s) PROVE Heard(t)'
    BY <1>6 DEF PopShell, Unlisted
  <1>7. ASSUME StopShell(t) PROVE Heard(t)'
    BY <1>7 DEF StopShell, Closed, Terminated, Killed
  <1>8. ASSUME PopDone(t) PROVE Heard(t)'
    BY <1>8 DEF PopDone
  <1>9. ASSUME Lookup(t) PROVE Heard(t)'
    BY <1>9 DEF Lookup
  <1>10. ASSUME CheckPresent(t) PROVE Heard(t)'
    BY <1>10 DEF CheckPresent
  <1>11. ASSUME TakePending(t) PROVE Heard(t)'
    BY <1>11, TakePendingHeard
  <1>12. ASSUME Fork(t) PROVE Heard(t)'
    BY <1>12 DEF Fork
  <1>13. ASSUME Register(t) PROVE Heard(t)'
    BY <1>13 DEF Register
  <1>14. ASSUME Refetch(t) PROVE Heard(t)'
    BY <1>14 DEF Refetch, Fails
  <1>15. ASSUME Acquire(t) PROVE Heard(t)'
    BY <1>15 DEF Acquire
  <1>16. ASSUME Send(t) PROVE Heard(t)'
    BY <1>16 DEF Send, MustRestart
  <1>17. ASSUME ReceiveReply(t) PROVE Heard(t)'
    BY <1>17 DEF ReceiveReply, Waiting
  <1>18. ASSUME ReceiveEOF(t) PROVE Heard(t)'
    BY <1>18 DEF ReceiveEOF, Waiting, MustRestart
  <1>19. ASSUME ReceiveBroken(t) PROVE Heard(t)'
    BY <1>19 DEF ReceiveBroken, Waiting, Fails
  <1>20. ASSUME PollTimeout(t) PROVE Heard(t)'
    BY <1>20 DEF PollTimeout
  <1>21. ASSUME SendSigint(t) PROVE Heard(t)'
    BY <1>21 DEF SendSigint, Interrupted, Killed
  <1>22. ASSUME GraceTimeout(t) PROVE Heard(t)'
    BY <1>22 DEF GraceTimeout, MustRestart
  <1>23. ASSUME Cleanup(t) PROVE Heard(t)'
    BY <1>23 DEF Cleanup, Closed, Terminated, Killed
  <1>24. ASSUME Unlist(t) PROVE Heard(t)'
    BY <1>24 DEF Unlist, Unlisted
  <1>25. ASSUME MarkPending(t) PROVE Heard(t)'
    BY <1>25 DEF MarkPending
  <1>26. ASSUME Return(t) PROVE Heard(t)'
    BY <1>26 DEF Return
  <1>27. ASSUME NEW p \in Procs, ChildReceive(p) PROVE Heard(t)'
    BY <1>27 DEF ChildReceive
  <1>28. ASSUME NEW p \in Procs, NEW a \in Answers, ChildReply(p, a) PROVE Heard(t)'
    BY <1>28 DEF ChildReply
  <1>29. ASSUME NEW p \in Procs, ChildExit(p) PROVE Heard(t)'
    BY <1>29 DEF ChildExit, Killed
  <1> HIDE DEF TypeOK, LocalsOK, Tabled, Apart, Heard
  <1> QED
    BY <1>1, <1>2, <1>3, <1>4, <1>5, <1>6, <1>7, <1>8, <1>9, <1>10, <1>11, <1>12, <1>13,
       <1>14, <1>15, <1>16, <1>17, <1>18, <1>19, <1>20, <1>21, <1>22, <1>23, <1>24, <1>25,
       <1>26, <1>27, <1>28, <1>29
    DEF Next, Request, Serve, Child

\* What clients know survives a step that leaves the table alone and revives no shell.
LEMMA ToldKept ==
    ASSUME Told, TypeOK, NEW t \in Threads, \A u \in Threads : u = t,
           UNCHANGED <<shells, pending, home>>, \A p \in Procs : alive'[p] => alive[p],
           pc[t] \in Taken => pc'[t] \in Taken /\ sid'[t] = sid[t]
    PROVE  Told'
  <1> SUFFICES ASSUME NEW s \in Sessions
               PROVE  Known(s)' \/ (pc'[t] \in Taken /\ sid'[t] = s)
    BY DEF Told
  <1>1. CASE Known(s)
    BY <1>1 DEF Known, TypeOK
  <1>2. CASE pc[t] \in Taken /\ sid[t] = s
    BY <1>2
  <1> QED BY <1>1, <1>2 DEF Told

\* And a step that changes one session, which the request answers for if it must.
LEMMA ToldElsewhere ==
    ASSUME Told, TypeOK, NEW t \in Threads, \A u \in Threads : u = t, NEW s \in Sessions,
           \A r \in Sessions \ {s} :
              shells'[r] = shells[r] /\ pending'[r] = pending[r] /\ home'[r] = home[r],
           UNCHANGED alive, pc[t] \in Taken => sid[t] = s,
           \/ shells'[s] = NoProc \/ pending'[s] \/ ~alive[shells'[s]] \/ home'[s] = shells'[s]
           \/ pc'[t] \in Taken /\ sid'[t] = s
    PROVE  Told'
  <1> SUFFICES ASSUME NEW r \in Sessions
               PROVE  Known(r)' \/ (pc'[t] \in Taken /\ sid'[t] = r)
    BY DEF Told
  <1>1. CASE r = s
    BY <1>1 DEF Known
  <1>2. CASE r # s
    <2>1. Known(r)
      BY <1>2 DEF Told
    <2> QED BY <1>2, <2>1 DEF Known
  <1> QED BY <1>1, <1>2

\* The flag and the home of a session change together.
LEMMA ToldNext ==
    ASSUME NEW t \in Threads, \A u \in Threads : u = t, TypeOK, LocalsOK,
           Tabled(t), Told, Heard(t), [Next]_vars
    PROVE  Told'
  <1> USE DEF At, Goto, manager, process, locals
  <1>1. CASE UNCHANGED vars
    BY <1>1, ToldKept DEF vars
  <1>2. ASSUME NEW s \in Sessions, ExecRequest(t, s) PROVE Told'
    BY <1>2, ToldKept DEF ExecRequest, Taken, TypeOK
  <1>3. ASSUME NEW s \in Sessions, DeleteRequest(t, s) PROVE Told'
    BY <1>3, ToldKept DEF DeleteRequest, Taken, TypeOK
  <1>4. ASSUME DeleteCheck(t) PROVE Told'
    BY <1>4, ToldKept DEF DeleteCheck, Taken, TypeOK
  <1>5. ASSUME Sweep(t) PROVE Told'
    BY <1>5, ToldKept DEF Sweep, Taken, TypeOK
  <1>6. ASSUME NEW s \in Sessions, PopShell(t, s) PROVE Told'
    <2>1. /\ \A r \in Sessions \ {s} : shells'[r] = shells[r] /\ pending'[r] = pending[r]
          /\ UNCHANGED <<alive, home>> /\ pc[t] \notin Taken /\ shells'[s] = NoProc
      BY <1>6 DEF PopShell, Unlisted, TypeOK, Taken
    <2> QED BY <2>1, ToldElsewhere
  <1>7. ASSUME StopShell(t) PROVE Told'
    <2>1. \A p \in Procs : alive'[p] => alive[p]
      BY <1>7 DEF StopShell, Terminated, Killed, TypeOK
    <2> QED BY <1>7, <2>1, ToldKept DEF StopShell, Taken, TypeOK
  <1>8. ASSUME PopDone(t) PROVE Told'
    BY <1>8, ToldKept DEF PopDone, Taken, TypeOK
  <1>9. ASSUME Lookup(t) PROVE Told'
    BY <1>9, ToldKept DEF Lookup, Taken, TypeOK
  <1>10. ASSUME CheckPresent(t) PROVE Told'
    BY <1>10, ToldKept DEF CheckPresent, Taken, TypeOK
  <1>11. ASSUME TakePending(t) PROVE Told'
    <2>1. /\ UNCHANGED <<shells, alive, home, sid>> /\ pc[t] \notin Taken /\ pc'[t] \in Taken
          /\ sid[t] \in Sessions
      BY <1>11 DEF TakePending, Fails, TypeOK, LocalsOK, Taken
    <2>2. \A r \in Sessions \ {sid[t]} : pending'[r] = pending[r]
      BY <1>11 DEF TakePending, Fails, TypeOK
    <2> QED BY <2>1, <2>2, ToldElsewhere
  <1>12. ASSUME Fork(t) PROVE Told'
    <2>1. UNCHANGED <<shells, pending>> /\ pc[t] \notin Taken
      BY <1>12 DEF Fork, Taken
    <2>2. PICK p \in Procs :
             /\ Spare(p) /\ alive' = [alive EXCEPT ![p] = TRUE]
             /\ home' = [s \in Sessions |-> IF home[s] = p THEN NoProc ELSE home[s]]
      BY <1>12 DEF Fork
    <2>3. ASSUME NEW s \in Sessions PROVE Known(s)'
      <3>1. Known(s) /\ shells[s] # p
        BY <2>1, <2>2 DEF Told, Spare
      <3> QED BY <2>1, <2>2, <3>1 DEF Known, TypeOK
    <2> QED BY <2>3 DEF Told
  <1>13. ASSUME Register(t) PROVE Told'
    <2>1. /\ UNCHANGED <<alive, home, sid>> /\ pc[t] \notin Taken /\ pc'[t] \in Taken
          /\ sid[t] \in Sessions
      BY <1>13 DEF Register, TypeOK, LocalsOK, Taken
    <2>2. \A r \in Sessions \ {sid[t]} : shells'[r] = shells[r] /\ pending'[r] = pending[r]
      BY <1>13 DEF Register, TypeOK
    <2> QED BY <2>1, <2>2, ToldElsewhere
  <1>14. ASSUME Refetch(t) PROVE Told'
    BY <1>14, ToldKept DEF Refetch, Fails, Taken, TypeOK
  <1>15. ASSUME Acquire(t) PROVE Told'
    BY <1>15, ToldKept DEF Acquire, Taken, TypeOK
  <1>16. ASSUME Send(t) PROVE Told'
    BY <1>16, ToldKept DEF Send, MustRestart, Taken, TypeOK
  <1>17. ASSUME ReceiveReply(t) PROVE Told'
    BY <1>17, ToldKept DEF ReceiveReply, Waiting, Taken, TypeOK
  <1>18. ASSUME ReceiveEOF(t) PROVE Told'
    BY <1>18, ToldKept DEF ReceiveEOF, Waiting, MustRestart, Taken, TypeOK
  <1>19. ASSUME ReceiveBroken(t) PROVE Told'
    BY <1>19, ToldKept DEF ReceiveBroken, Waiting, Fails, Taken, TypeOK
  <1>20. ASSUME PollTimeout(t) PROVE Told'
    BY <1>20, ToldKept DEF PollTimeout, Taken, TypeOK
  <1>21. ASSUME SendSigint(t) PROVE Told'
    <2>1. \A p \in Procs : alive'[p] => alive[p]
      BY <1>21 DEF SendSigint, Interrupted, Killed, TypeOK
    <2> QED BY <1>21, <2>1, ToldKept DEF SendSigint, Taken, TypeOK
  <1>22. ASSUME GraceTimeout(t) PROVE Told'
    BY <1>22, ToldKept DEF GraceTimeout, MustRestart, Taken, TypeOK
  <1>23. ASSUME Cleanup(t) PROVE Told'
    <2>1. \A p \in Procs : alive'[p] => alive[p]
      BY <1>23 DEF Cleanup, Terminated, Killed, TypeOK
    <2> QED BY <1>23, <2>1, ToldKept DEF Cleanup, Taken, TypeOK
  <1>24. ASSUME Unlist(t) PROVE Told'
    <2>1. /\ UNCHANGED <<alive, home>> /\ sid[t] \in Sessions /\ shells'[sid[t]] = NoProc
          /\ \A r \in Sessions \ {sid[t]} : shells'[r] = shells[r] /\ pending'[r] = pending[r]
      BY <1>24 DEF Unlist, Unlisted, TypeOK, LocalsOK
    <2> QED BY <2>1, ToldElsewhere
  <1>25. ASSUME MarkPending(t) PROVE Told'
    <2>1. /\ UNCHANGED <<shells, alive, home, sid>> /\ sid[t] \in Sessions /\ pc'[t] \in Taken
          /\ \A r \in Sessions \ {sid[t]} : pending'[r] = pending[r]
      BY <1>25 DEF MarkPending, TypeOK, LocalsOK, Taken
    <2> QED BY <2>1, ToldElsewhere
  <1>26. ASSUME Return(t) PROVE Told'
    <2>1. /\ pc[t] = "return" /\ UNCHANGED <<shells, pending, alive>> /\ sid[t] \in Sessions
          /\ home' = [home EXCEPT ![sid[t]] =
                CASE outcome[t] \in {"restarted", "killed", "deleted"} -> NoProc
                  [] outcome[t] \in Answers /\ fresh[t]                -> entry[t]
                  [] OTHER                                             -> @]
      BY <1>26 DEF Return, LocalsOK
    <2>2. \A r \in Sessions \ {sid[t]} : home'[r] = home[r]
      BY <2>1 DEF TypeOK
    <2>3. \/ shells[sid[t]] = NoProc \/ pending[sid[t]] \/ ~alive[shells[sid[t]]]
          \/ home'[sid[t]] = shells[sid[t]]
      <3>1. CASE outcome[t] \in Answers /\ shells[sid[t]] = entry[t] /\ Trusts(t)
        BY <2>1, <3>1 DEF Answers, Trusts, TypeOK
      <3>2. CASE ~(outcome[t] \in Answers /\ shells[sid[t]] = entry[t] /\ Trusts(t))
        BY <2>1, <3>2 DEF Heard
      <3> QED BY <3>1, <3>2
    <2> QED BY <2>1, <2>2, <2>3, ToldElsewhere
  <1>27. ASSUME NEW p \in Procs, ChildReceive(p) PROVE Told'
    BY <1>27, ToldKept DEF ChildReceive
  <1>28. ASSUME NEW p \in Procs, NEW a \in Answers, ChildReply(p, a) PROVE Told'
    BY <1>28, ToldKept DEF ChildReply
  <1>29. ASSUME NEW p \in Procs, ChildExit(p) PROVE Told'
    <2>1. \A q \in Procs : alive'[q] => alive[q]
      BY <1>29 DEF ChildExit, Killed, TypeOK
    <2> QED BY <1>29, <2>1, ToldKept DEF ChildExit
  <1> QED
    BY <1>1, <1>2, <1>3, <1>4, <1>5, <1>6, <1>7, <1>8, <1>9, <1>10, <1>11, <1>12, <1>13,
       <1>14, <1>15, <1>16, <1>17, <1>18, <1>19, <1>20, <1>21, <1>22, <1>23, <1>24, <1>25,
       <1>26, <1>27, <1>28, <1>29
    DEF Next, Request, Serve, Child

\* A process that runs and has not outlived its SIGTERM
Live(p) == alive[p] /\ p \notin deaf

\* Such a process is in the table, or on its way into it or out of it.
Rooted ==
    /\ \A p \in Procs : Live(p) =>
          \/ \E s \in Sessions : shells[s] = p
          \/ \E t \in Threads : pc[t] \in {"stop", "register", "reregister"} /\ proc[t] = p
    /\ \A t \in Threads : pc[t] = "unlist" => ~Live(entry[t])

\* A thread that holds a process the table does not have
OnTheWay == {"stop", "register", "reregister"}

\* A step that leaves the table alone and revives no shell orphans none.
LEMMA RootedKept ==
    ASSUME Rooted, TypeOK, NEW t \in Threads, \A u \in Threads : u = t, UNCHANGED shells,
           \A p \in Procs : Live(p)' => Live(p),
           pc[t] \in OnTheWay => pc'[t] \in OnTheWay /\ proc'[t] = proc[t],
           pc'[t] = "unlist" => pc[t] = "unlist" /\ entry'[t] = entry[t] /\ entry[t] \in Procs
    PROVE  Rooted'
  <1>1. ASSUME NEW p \in Procs, Live(p)'
        PROVE  (\E s \in Sessions : shells'[s] = p) \/ (pc'[t] \in OnTheWay /\ proc'[t] = p)
    BY <1>1 DEF Rooted, OnTheWay
  <1>2. pc'[t] = "unlist" => ~Live(entry[t])'
    BY DEF Rooted
  <1> QED BY <1>1, <1>2 DEF Rooted, OnTheWay

\* A process is ended, or has outlived its SIGTERM, before its entry is forgotten.
LEMMA RootedNext ==
    ASSUME NEW t \in Threads, \A u \in Threads : u = t,
           TypeOK, LocalsOK, Tabled(t), Rooted, [Next]_vars
    PROVE  Rooted'
  <1> USE DEF At, Goto, manager, process, locals, Live
  <1>1. CASE UNCHANGED vars
    <2>1. pc[t] = "unlist" => entry[t] \in Procs
      BY DEF LocalsOK, Holding
    <2> QED BY <1>1, <2>1, RootedKept DEF vars
  <1>2. ASSUME NEW s \in Sessions, ExecRequest(t, s) PROVE Rooted'
    <2>1. UNCHANGED shells /\ \A p \in Procs : Live(p)' => Live(p)
      BY <1>2 DEF ExecRequest, TypeOK
    <2>2. pc[t] \notin OnTheWay /\ pc'[t] # "unlist"
      BY <1>2 DEF ExecRequest, OnTheWay, TypeOK
    <2> QED BY <2>1, <2>2, RootedKept
  <1>3. ASSUME NEW s \in Sessions, DeleteRequest(t, s) PROVE Rooted'
    <2>1. UNCHANGED shells /\ \A p \in Procs : Live(p)' => Live(p)
      BY <1>3 DEF DeleteRequest, TypeOK
    <2>2. pc[t] \notin OnTheWay /\ pc'[t] # "unlist"
      BY <1>3 DEF DeleteRequest, OnTheWay, TypeOK
    <2> QED BY <2>1, <2>2, RootedKept
  <1>4. ASSUME DeleteCheck(t) PROVE Rooted'
    <2>1. UNCHANGED shells /\ \A p \in Procs : Live(p)' => Live(p)
      BY <1>4 DEF DeleteCheck, TypeOK
    <2>2. pc[t] \notin OnTheWay /\ pc'[t] # "unlist"
      BY <1>4 DEF DeleteCheck, OnTheWay, TypeOK
    <2> QED BY <2>1, <2>2, RootedKept
  <1>5. ASSUME Sweep(t) PROVE Rooted'
    <2>1. UNCHANGED shells /\ \A p \in Procs : Live(p)' => Live(p)
      BY <1>5 DEF Sweep, TypeOK
    <2>2. pc[t] \notin OnTheWay /\ pc'[t] # "unlist"
      BY <1>5 DEF Sweep, OnTheWay, TypeOK
    <2> QED BY <2>1, <2>2, RootedKept
  <1>6. ASSUME NEW s \in Sessions, PopShell(t, s) PROVE Rooted'
    <2>1. /\ \A r \in Sessions : r # s => shells'[r] = shells[r]
          /\ proc'[t] = shells[s] /\ UNCHANGED <<alive, deaf>> /\ pc[t] = "pop"
          /\ pc'[t] = IF shells[s] = NoProc THEN "pop" ELSE "stop"
      BY <1>6 DEF PopShell, Unlisted, TypeOK
    <2>2. ASSUME NEW p \in Procs, Live(p)'
          PROVE  (\E r \in Sessions : shells'[r] = p) \/ (pc'[t] = "stop" /\ proc'[t] = p)
      <3>1. PICK r \in Sessions : shells[r] = p
        BY <2>1, <2>2 DEF Rooted
      <3> QED BY <2>1, <3>1, NoneApart
    <2> QED BY <2>1, <2>2 DEF Rooted
  <1>7. ASSUME StopShell(t) PROVE Rooted'
    <2>1. UNCHANGED <<shells, entry>> /\ pc[t] = "stop" /\ pc'[t] = "pop" /\ proc[t] \in Procs
      BY <1>7 DEF StopShell, TypeOK, LocalsOK
    <2>2. Terminated(proc[t])
      BY <1>7 DEF StopShell
    <2>3. \A p \in Procs : Live(p)' => Live(p) /\ p # proc[t]
      BY <2>1, <2>2 DEF Terminated, Killed, TypeOK
    <2>4. ASSUME NEW p \in Procs, Live(p)' PROVE \E s \in Sessions : shells'[s] = p
      BY <2>1, <2>3, <2>4 DEF Rooted
    <2> QED BY <2>1, <2>4 DEF Rooted
  <1>8. ASSUME PopDone(t) PROVE Rooted'
    <2>1. UNCHANGED shells /\ \A p \in Procs : Live(p)' => Live(p)
      BY <1>8 DEF PopDone, TypeOK
    <2>2. pc[t] \notin OnTheWay /\ pc'[t] # "unlist"
      BY <1>8 DEF PopDone, OnTheWay, TypeOK
    <2> QED BY <2>1, <2>2, RootedKept
  <1>9. ASSUME Lookup(t) PROVE Rooted'
    <2>1. UNCHANGED shells /\ \A p \in Procs : Live(p)' => Live(p)
      BY <1>9 DEF Lookup, TypeOK
    <2>2. pc[t] \notin OnTheWay /\ pc'[t] # "unlist"
      BY <1>9 DEF Lookup, OnTheWay, TypeOK
    <2> QED BY <2>1, <2>2, RootedKept
  <1>10. ASSUME CheckPresent(t) PROVE Rooted'
    <2>1. UNCHANGED shells /\ \A p \in Procs : Live(p)' => Live(p)
      BY <1>10 DEF CheckPresent, TypeOK
    <2>2. pc[t] \notin OnTheWay /\ pc'[t] # "unlist"
      BY <1>10 DEF CheckPresent, OnTheWay, TypeOK
    <2> QED BY <2>1, <2>2, RootedKept
  <1>11. ASSUME TakePending(t) PROVE Rooted'
    <2>1. UNCHANGED shells /\ \A p \in Procs : Live(p)' => Live(p)
      BY <1>11 DEF TakePending, Fails, TypeOK
    <2>2. pc[t] \notin OnTheWay /\ pc'[t] # "unlist"
      BY <1>11 DEF TakePending, Fails, OnTheWay, TypeOK
    <2> QED BY <2>1, <2>2, RootedKept
  <1>12. ASSUME Fork(t) PROVE Rooted'
    <2>1. UNCHANGED shells /\ pc[t] \notin OnTheWay /\ pc'[t] \in {"register", "reregister"}
      BY <1>12 DEF Fork, TypeOK, OnTheWay
    <2>2. PICK p \in Procs :
             alive' = [alive EXCEPT ![p] = TRUE] /\ deaf' = deaf \ {p} /\ proc'[t] = p
      BY <1>12 DEF Fork, TypeOK
    <2>3. ASSUME NEW q \in Procs, Live(q)', q # p PROVE \E s \in Sessions : shells'[s] = q
      <3>1. Live(q)
        BY <2>2, <2>3 DEF TypeOK
      <3> QED BY <2>1, <3>1 DEF Rooted, OnTheWay
    <2> QED BY <2>1, <2>2, <2>3 DEF Rooted
  <1>13. ASSUME Register(t) PROVE Rooted'
    <2>1. /\ UNCHANGED <<alive, deaf>> /\ pc[t] \in {"register", "reregister"} /\ pc'[t] \in {"refetch", "mark"}
          /\ sid[t] \in Sessions /\ shells' = [shells EXCEPT ![sid[t]] = proc[t]]
      BY <1>13 DEF Register, TypeOK, LocalsOK
    <2>2. shells'[sid[t]] = proc[t] /\ \A s \in Sessions : s # sid[t] => shells'[s] = shells[s]
      BY <2>1 DEF TypeOK
    <2>3. shells[sid[t]] = NoProc
      BY <2>1 DEF Tabled, Vacant
    <2>4. ASSUME NEW p \in Procs, Live(p)' PROVE \E s \in Sessions : shells'[s] = p
      <3>1. CASE proc[t] = p
        BY <2>1, <2>2, <3>1
      <3>2. CASE proc[t] # p
        <4>1. PICK s \in Sessions : shells[s] = p
          BY <2>1, <2>4, <3>2 DEF Rooted
        <4> QED BY <2>2, <2>3, <4>1, NoneApart
      <3> QED BY <3>1, <3>2
    <2> QED BY <2>1, <2>4 DEF Rooted
  <1>14. ASSUME Refetch(t) PROVE Rooted'
    <2>1. UNCHANGED shells /\ \A p \in Procs : Live(p)' => Live(p)
      BY <1>14 DEF Refetch, Fails, TypeOK
    <2>2. pc[t] \notin OnTheWay /\ pc'[t] # "unlist"
      BY <1>14 DEF Refetch, Fails, OnTheWay, TypeOK
    <2> QED BY <2>1, <2>2, RootedKept
  <1>15. ASSUME Acquire(t) PROVE Rooted'
    <2>1. UNCHANGED shells /\ \A p \in Procs : Live(p)' => Live(p)
      BY <1>15 DEF Acquire, TypeOK
    <2>2. pc[t] \notin OnTheWay /\ pc'[t] # "unlist"
      BY <1>15 DEF Acquire, OnTheWay, TypeOK
    <2> QED BY <2>1, <2>2, RootedKept
  <1>16. ASSUME Send(t) PROVE Rooted'
    <2>1. UNCHANGED shells /\ \A p \in Procs : Live(p)' => Live(p)
      BY <1>16 DEF Send, MustRestart, TypeOK
    <2>2. pc[t] \notin OnTheWay /\ pc'[t] # "unlist"
      BY <1>16 DEF Send, MustRestart, OnTheWay, TypeOK
    <2> QED BY <2>1, <2>2, RootedKept
  <1>17. ASSUME ReceiveReply(t) PROVE Rooted'
    <2>1. UNCHANGED shells /\ \A p \in Procs : Live(p)' => Live(p)
      BY <1>17 DEF ReceiveReply, Waiting, TypeOK
    <2>2. pc[t] \notin OnTheWay /\ pc'[t] # "unlist"
      BY <1>17 DEF ReceiveReply, Waiting, OnTheWay, TypeOK
    <2> QED BY <2>1, <2>2, RootedKept
  <1>18. ASSUME ReceiveEOF(t) PROVE Rooted'
    <2>1. UNCHANGED shells /\ \A p \in Procs : Live(p)' => Live(p)
      BY <1>18 DEF ReceiveEOF, Waiting, MustRestart, TypeOK
    <2>2. pc[t] \notin OnTheWay /\ pc'[t] # "unlist"
      BY <1>18 DEF ReceiveEOF, Waiting, MustRestart, OnTheWay, TypeOK
    <2> QED BY <2>1, <2>2, RootedKept
  <1>19. ASSUME ReceiveBroken(t) PROVE Rooted'
    <2>1. UNCHANGED shells /\ \A p \in Procs : Live(p)' => Live(p)
      BY <1>19 DEF ReceiveBroken, Waiting, Fails, TypeOK
    <2>2. pc[t] \notin OnTheWay /\ pc'[t] # "unlist"
      BY <1>19 DEF ReceiveBroken, Waiting, Fails, OnTheWay, TypeOK
    <2> QED BY <2>1, <2>2, RootedKept
  <1>20. ASSUME PollTimeout(t) PROVE Rooted'
    <2>1. UNCHANGED shells /\ \A p \in Procs : Live(p)' => Live(p)
      BY <1>20 DEF PollTimeout, TypeOK
    <2>2. pc[t] \notin OnTheWay /\ pc'[t] # "unlist"
      BY <1>20 DEF PollTimeout, OnTheWay, TypeOK
    <2> QED BY <2>1, <2>2, RootedKept
  <1>21. ASSUME SendSigint(t) PROVE Rooted'
    <2>1. UNCHANGED shells /\ \A p \in Procs : Live(p)' => Live(p)
      BY <1>21 DEF SendSigint, Interrupted, Killed, TypeOK
    <2>2. pc[t] \notin OnTheWay /\ pc'[t] # "unlist"
      BY <1>21 DEF SendSigint, Interrupted, Killed, OnTheWay, TypeOK
    <2> QED BY <2>1, <2>2, RootedKept
  <1>22. ASSUME GraceTimeout(t) PROVE Rooted'
    <2>1. UNCHANGED shells /\ \A p \in Procs : Live(p)' => Live(p)
      BY <1>22 DEF GraceTimeout, MustRestart, TypeOK
    <2>2. pc[t] \notin OnTheWay /\ pc'[t] # "unlist"
      BY <1>22 DEF GraceTimeout, MustRestart, OnTheWay, TypeOK
    <2> QED BY <2>1, <2>2, RootedKept
  <1>23. ASSUME Cleanup(t) PROVE Rooted'
    <2>1. /\ UNCHANGED <<shells, entry>> /\ pc[t] = "cleanup" /\ pc'[t] = "unlist" /\ entry[t] \in Procs
      BY <1>23 DEF Cleanup, TypeOK, LocalsOK, Holding
    <2>2. Terminated(entry[t])
      BY <1>23 DEF Cleanup
    <2>3. ~Live(entry[t])' /\ \A p \in Procs : Live(p)' => Live(p)
      BY <2>1, <2>2 DEF Terminated, Killed, TypeOK
    <2>4. ASSUME NEW p \in Procs, Live(p)' PROVE \E s \in Sessions : shells'[s] = p
      BY <2>1, <2>3, <2>4 DEF Rooted
    <2> QED BY <2>1, <2>3, <2>4 DEF Rooted
  <1>24. ASSUME Unlist(t) PROVE Rooted'
    <2>1. /\ UNCHANGED <<alive, deaf>> /\ pc[t] = "unlist" /\ pc'[t] = "refork"
          /\ \A s \in Sessions : s # sid[t] => shells'[s] = shells[s]
      BY <1>24 DEF Unlist, Unlisted, TypeOK
    <2>2. shells[sid[t]] = entry[t] /\ ~Live(entry[t])
      BY <2>1 DEF Tabled, Listed, Rooted
    <2>3. ASSUME NEW p \in Procs, Live(p)' PROVE \E s \in Sessions : shells'[s] = p
      BY <2>1, <2>2, <2>3 DEF Rooted
    <2> QED BY <2>1, <2>3 DEF Rooted
  <1>25. ASSUME MarkPending(t) PROVE Rooted'
    <2>1. UNCHANGED shells /\ \A p \in Procs : Live(p)' => Live(p)
      BY <1>25 DEF MarkPending, TypeOK
    <2>2. pc[t] \notin OnTheWay /\ pc'[t] # "unlist"
      BY <1>25 DEF MarkPending, OnTheWay, TypeOK
    <2> QED BY <2>1, <2>2, RootedKept
  <1>26. ASSUME Return(t) PROVE Rooted'
    <2>1. UNCHANGED shells /\ \A p \in Procs : Live(p)' => Live(p)
      BY <1>26 DEF Return, TypeOK
    <2>2. pc[t] \notin OnTheWay /\ pc'[t] # "unlist"
      BY <1>26 DEF Return, OnTheWay, TypeOK
    <2> QED BY <2>1, <2>2, RootedKept

  <1>27. ASSUME NEW p \in Procs, ChildReceive(p) PROVE Rooted'
    <2>1. UNCHANGED <<shells, pc, proc, entry>> /\ \A q \in Procs : Live(q)' => Live(q)
      BY <1>27 DEF ChildReceive, TypeOK
    <2>2. pc[t] = "unlist" => entry[t] \in Procs
      BY DEF LocalsOK, Holding
    <2> QED BY <2>1, <2>2, RootedKept
  <1>28. ASSUME NEW p \in Procs, NEW a \in Answers, ChildReply(p, a) PROVE Rooted'
    <2>1. UNCHANGED <<shells, pc, proc, entry>> /\ \A q \in Procs : Live(q)' => Live(q)
      BY <1>28 DEF ChildReply, TypeOK
    <2>2. pc[t] = "unlist" => entry[t] \in Procs
      BY DEF LocalsOK, Holding
    <2> QED BY <2>1, <2>2, RootedKept
  <1>29. ASSUME NEW p \in Procs, ChildExit(p) PROVE Rooted'
    <2>1. UNCHANGED <<shells, pc, proc, entry>> /\ \A q \in Procs : Live(q)' => Live(q)
      BY <1>29 DEF ChildExit, Killed, TypeOK
    <2>2. pc[t] = "unlist" => entry[t] \in Procs
      BY DEF LocalsOK, Holding
    <2> QED BY <2>1, <2>2, RootedKept
  <1> QED
    BY <1>1, <1>2, <1>3, <1>4, <1>5, <1>6, <1>7, <1>8, <1>9, <1>10, <1>11, <1>12, <1>13,
       <1>14, <1>15, <1>16, <1>17, <1>18, <1>19, <1>20, <1>21, <1>22, <1>23, <1>24, <1>25,
       <1>26, <1>27, <1>28, <1>29
    DEF Next, Request, Serve, Child

AloneInv == (\A t \in Threads : Tabled(t) /\ Heard(t)) /\ Apart /\ Told

\* The table is empty at the start.
LEMMA AloneInit == Init => AloneInv /\ Rooted
  BY NoneApart DEF Init, AloneInv, Tabled, Listed, Vacant, Heard, Apart, Told, Known, Rooted, Live

\* One request at a time keeps what its client knows and what the table has together.
LEMMA AloneNext == Alone /\ PipeInv /\ AloneInv /\ [Next]_vars => AloneInv'
  <1> SUFFICES ASSUME Alone, PipeInv, AloneInv, [Next]_vars PROVE AloneInv'
    OBVIOUS
  <1>1. TypeOK /\ LocalsOK /\ PipeOK
    BY DEF PipeInv
  <1>2. PICK t \in Threads : \A u \in Threads : u = t
    BY DEF Alone
  <1>3. Tabled(t) /\ Heard(t) /\ Apart /\ Told
    BY DEF AloneInv
  <1>4. Tabled(t)' /\ Apart'
    BY <1>1, <1>2, <1>3, TableNext
  <1>5. Heard(t)'
    BY <1>1, <1>2, <1>3, HeardNext
  <1>6. Told'
    BY <1>1, <1>2, <1>3, ToldNext
  <1> QED BY <1>2, <1>4, <1>5, <1>6 DEF AloneInv

\* And in every reachable state.
LEMMA AloneInvariant ==
    ASSUME Alone
    PROVE  Spec => []AloneInv
  BY AloneInit, AloneNext, PipeInvariant, PTL DEF Spec

\* A client that is answered without new_session_created still has the memory it was told
\* of, across timeouts, kills, crashes, expiry, deletion and restart_pending; whatever the
\* cells do to the signals.
THEOREM MemoryLossIsTold ==
    ASSUME Alone
    PROVE  Spec => []NoSilentLoss
  <1>1. AloneInv => NoSilentLoss
    BY DEF AloneInv, Heard, Trusts, NoSilentLoss, At, Answers
  <1> QED BY <1>1, AloneInvariant, PTL

\* No shell is left running out of reach, except one that was sent SIGTERM and whose cells
\* had taken it over; whatever the cells do to the signals.
THEOREM NoShellOrphaned ==
    ASSUME Alone
    PROVE  Spec => []NoOrphan
  <1>1. PipeInv /\ AloneInv /\ Rooted /\ [Next]_vars => Rooted'
    <2> SUFFICES ASSUME PipeInv, AloneInv, Rooted, [Next]_vars PROVE Rooted'
      OBVIOUS
    <2>1. TypeOK /\ LocalsOK
      BY DEF PipeInv
    <2>2. PICK t \in Threads : \A u \in Threads : u = t
      BY DEF Alone
    <2> QED BY <2>1, <2>2, RootedNext DEF AloneInv
  <1>2. Rooted => NoOrphan
    BY DEF Rooted, Live, NoOrphan, At
  <1> QED BY <1>1, <1>2, AloneInit, AloneInvariant, PipeInvariant, PTL DEF Spec
=============================================================================
