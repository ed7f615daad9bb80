------------------------ MODULE SandboxSessionProofs ------------------------
(***************************************************************************)
(* Proofs about SandboxSession: for the one coroutine a session belongs    *)
(* to, the history it keeps covers what its caller believes in, and a cell *)
(* reported completed ran on exactly the state the caller believes in.     *)
(***************************************************************************)
EXTENDS SandboxSession, SequenceTheorems, TLAPS

USE DEF Labels, Statuses, MaxRetries

LEMMA Constants ==
    /\ MaxCells \in Nat \ {0}
    /\ Nobody \notin Tasks /\ NoReply \notin Replies
    /\ \A e \in Environments : /\ e.calls \in 1..MaxCells /\ e.restore \in BOOLEAN
                               /\ e.timeouts \in BOOLEAN /\ e.sigint \in BOOLEAN /\ e.loss \in BOOLEAN
BY SandboxSessionAssumption DEF Environment

-----------------------------------------------------------------------------
(* Sequences of cells.                                                     *)

LEMMA Emptiness ==
    ASSUME NEW s \in Seq(Cells)
    PROVE  <<>> \in Seq(Cells) /\ <<>> \o s = s /\ s \o <<>> = s
BY EmptySeq, ConcatEmptySeq

\* What a completed cell adds, and an incomplete one does not.
LEMMA Added ==
    ASSUME NEW s \in Seq(Cells), NEW d \in {<<>>} \cup {<<c>> : c \in Cells}
    PROVE  d \in Seq(Cells) /\ s \o d \in Seq(Cells)
<1>1. d \in Seq(Cells)
    <2>1. \A c \in Cells : <<c>> \in Seq(Cells)
        OBVIOUS
    <2> QED  BY <2>1, EmptySeq
<1> QED  BY <1>1, ConcatProperties

LEMMA Single == ASSUME NEW c \in Cells  PROVE <<c>> \in Seq(Cells)
OBVIOUS

\* A replay lengthens what ran by the next cell of the copied history.
LEMMA FirstCells ==
    ASSUME NEW s \in Seq(Cells)
    PROVE  /\ SubSeq(s, 1, 0) = <<>> /\ SubSeq(s, 1, Len(s)) = s
           /\ \A i \in 1..Len(s) : s[i] \in Cells /\ SubSeq(s, 1, i) = SubSeq(s, 1, i - 1) \o <<s[i]>>
<1>1. SubSeq(s, 1, 0) = <<>>
    BY SubSeqEmpty
<1>2. SubSeq(s, 1, Len(s)) = s
    BY SubSeqFull
<1>3. ASSUME NEW i \in 1..Len(s)  PROVE s[i] \in Cells /\ SubSeq(s, 1, i) = SubSeq(s, 1, i - 1) \o <<s[i]>>
    <2>1. Len(s) \in Nat
        BY LenProperties
    <2>2. 1 \in 1..Len(s) /\ i \in 1..Len(s)
        BY <2>1
    <2> QED  BY <2>2, SubSeqRecursiveSecond, ElementOfSeq
<1> QED  BY <1>1, <1>2, <1>3

-----------------------------------------------------------------------------
(* Types, for any number of coroutines.                                    *)

LEMMA InitTypes == Init => TypeOK
<1> SUFFICES ASSUME Init  PROVE TypeOK
    OBVIOUS
<1>1. <<>> \in Seq(Cells) /\ <<>> \in Seq(Requests)
    BY EmptySeq
<1>2. 1 \in Cells /\ 0 \in 0..MaxCells /\ 0 \in 0..MaxRetries
    BY Constants DEF Cells
<1>3. env.restore \in BOOLEAN
    BY Constants DEF Init
<1> QED  BY <1>1, <1>2, <1>3 DEF Init, TypeOK

LEMMA AskTypes ==
    ASSUME TypeOK, NEW t \in Tasks, NEW k \in {"exec", "delete"}, NEW c \in Cells, Ask(t, k, c)
    PROVE  queue' \in Seq(Requests) /\ reply' \in [Tasks -> Replies \cup {NoReply}]
<1>1. [task |-> t, kind |-> k, cell |-> c] \in Requests
    BY DEF Requests
<1> QED  BY <1>1, AppendProperties DEF Ask, TypeOK

LEMMA FinishTypes ==
    ASSUME TypeOK, NEW t \in Tasks, NEW w \in BOOLEAN, Finish(t, w)
    PROVE  TypeOK'
<1> DEFINE done == IF Status(t) = "completed" THEN <<cell[t]>> ELSE <<>>
<1>1. done \in {<<>>} \cup {<<c>> : c \in Cells}
    BY DEF TypeOK
<1>2. history' \in Seq(Cells) /\ believed' \in Seq(Cells)
    <2> HIDE DEF done
    <2>1. history' = IF restore THEN history \o done ELSE IF w THEN <<>> ELSE history
        BY DEF Finish, done
    <2>2. believed' = (IF w THEN <<>> ELSE believed) \o done
        BY DEF Finish, done
    <2>3. <<>> \in Seq(Cells)
        BY EmptySeq
    <2>4. history \in Seq(Cells) /\ believed \in Seq(Cells)
        BY DEF TypeOK
    <2> QED  BY <1>1, <2>1, <2>2, <2>3, <2>4, Added
<1>3. saved' \in [Tasks -> Seq(Cells)] /\ index' \in [Tasks -> Nat] /\ tries' \in [Tasks -> 0..MaxRetries]
    BY EmptySeq DEF Finish, TypeOK
<1>4. reply' \in [Tasks -> Replies \cup {NoReply}] /\ pc' \in [Tasks -> Labels]
    BY DEF Finish, TypeOK, Goto
<1> QED  BY <1>2, <1>3, <1>4 DEF Finish, TypeOK, worker

LEMMA ProceedTypes ==
    ASSUME TypeOK, NEW t \in Tasks, NEW i \in Nat \ {0}, Proceed(t, i)
    PROVE  /\ queue' \in Seq(Requests) /\ reply' \in [Tasks -> Replies \cup {NoReply}]
           /\ index' \in [Tasks -> Nat] /\ pc' \in [Tasks -> Labels]
<1>1. CASE i <= Len(saved[t])
    <2>1. saved[t] \in Seq(Cells)
        BY DEF TypeOK
    <2>2. saved[t][i] \in Cells
        BY <1>1, <2>1, ElementOfSeq, LenProperties
    <2>3. Ask(t, "exec", saved[t][i]) /\ index' = [index EXCEPT ![t] = i] /\ Goto(t, "replay")
        BY <1>1 DEF Proceed
    <2> QED  BY <2>2, <2>3, AskTypes DEF Goto, TypeOK
<1>2. CASE ~(i <= Len(saved[t]))
    <2>1. Ask(t, "exec", cell[t]) /\ index' = [index EXCEPT ![t] = 0] /\ Goto(t, "reexec")
        BY <1>2 DEF Proceed
    <2>2. cell[t] \in Cells
        BY DEF TypeOK
    <2> QED  BY <2>1, <2>2, AskTypes DEF Goto, TypeOK
<1> QED  BY <1>1, <1>2

LEMMA RespondTypes ==
    ASSUME TypeOK, NEW t, NEW s \in Statuses, NEW f \in BOOLEAN, mem' \in Seq(Cells), Respond(t, s, f)
    PROVE  reply' \in [Tasks -> Replies \cup {NoReply}]
<1>1. [status |-> s, fresh |-> f, ran |-> mem'] \in Replies
    BY DEF Replies
<1>2. reply' = reply \/ reply' = [reply EXCEPT ![t] = [status |-> s, fresh |-> f, ran |-> mem']]
    BY DEF Respond
<1> HIDE DEF Statuses
<1> QED  BY <1>1, <1>2 DEF TypeOK

LEMMA NextTypes == TypeOK /\ [Next]_vars => TypeOK'
<1> SUFFICES ASSUME TypeOK, [Next]_vars  PROVE TypeOK'
    OBVIOUS
<1>T. \A t \in Tasks : cell[t] \in Cells /\ saved[t] \in Seq(Cells)
    BY DEF TypeOK
<1>N. <<>> \in Seq(Cells)
    BY EmptySeq
<1>E. env.calls \in 1..MaxCells /\ MaxCells \in Nat
    BY Constants DEF TypeOK
<1>1. ASSUME NEW t \in Tasks, Call(t)  PROVE TypeOK'
    <2>1. calls' = calls + 1 /\ calls' \in Cells
        BY <1>1, <1>E DEF Call, TypeOK, Cells
    <2>2. queue' \in Seq(Requests) /\ reply' \in [Tasks -> Replies \cup {NoReply}]
        BY <1>1, <2>1, AskTypes DEF Call
    <2>3. calls' \in 0..MaxCells
        BY <2>1, <1>E DEF Cells
    <2>4. cell' \in [Tasks -> Cells] /\ given' \in [Tasks -> BOOLEAN] /\ pc' \in [Tasks -> Labels]
        BY <1>1, <2>1 DEF Call, TypeOK, Goto
    <2> QED  BY <1>1, <2>2, <2>3, <2>4 DEF Call, TypeOK, worker
<1>2. ASSUME NEW t \in Tasks, EndSession(t)  PROVE TypeOK'
    <2>1. calls' \in 0..MaxCells
        BY <1>2, <1>E DEF EndSession, TypeOK
    <2>2. queue' \in Seq(Requests) /\ reply' \in [Tasks -> Replies \cup {NoReply}]
        BY <1>2, <1>T, AskTypes DEF EndSession
    <2>T. tries' \in [Tasks -> 0..MaxRetries]
        BY <1>2 DEF EndSession, TypeOK
    <2> QED  BY <1>2, <2>1, <2>2, <2>T DEF EndSession, TypeOK, worker, Goto
<1>3. ASSUME NEW t \in Tasks, ReturnFirst(t)  PROVE TypeOK'
    <2>1. MustWarn(t) \in BOOLEAN
        BY DEF MustWarn
    <2> QED  BY <1>3, <2>1, FinishTypes DEF ReturnFirst
<1>4. ASSUME NEW t \in Tasks, BeginRestore(t)  PROVE TypeOK'
    <2>1. queue' \in Seq(Requests) /\ reply' \in [Tasks -> Replies \cup {NoReply}]
        BY <1>4, <1>T, AskTypes DEF BeginRestore
    <2>T. tries' \in [Tasks -> 0..MaxRetries]
        BY <1>4 DEF BeginRestore, TypeOK
    <2> QED  BY <1>4, <2>1, <2>T DEF BeginRestore, TypeOK, worker, Goto
<1>5. ASSUME NEW t \in Tasks, RetryDelete(t)  PROVE TypeOK'
    <2>1. queue' \in Seq(Requests) /\ reply' \in [Tasks -> Replies \cup {NoReply}]
        BY <1>5, <1>T, AskTypes DEF RetryDelete
    <2>2. tries' \in [Tasks -> 0..MaxRetries]
        <3>1. tries[t] \in 0..3 /\ tries[t] < 3
            BY <1>5 DEF RetryDelete, TypeOK
        <3>2. tries' = [tries EXCEPT ![t] = tries[t] + 1]
            BY <1>5 DEF RetryDelete
        <3>3. tries[t] + 1 \in 0..3
            BY <3>1
        <3> QED  BY <3>2, <3>3 DEF TypeOK
    <2> QED  BY <1>5, <2>1, <2>2 DEF RetryDelete, TypeOK, worker
<1>6. ASSUME NEW t \in Tasks, BeginReplay(t)  PROVE TypeOK'
    <2>1. /\ queue' \in Seq(Requests) /\ reply' \in [Tasks -> Replies \cup {NoReply}]
          /\ index' \in [Tasks -> Nat] /\ pc' \in [Tasks -> Labels]
        BY <1>6, ProceedTypes DEF BeginReplay
    <2>T. tries' \in [Tasks -> 0..MaxRetries]
        BY <1>6 DEF BeginReplay, TypeOK
    <2> QED  BY <1>6, <1>T, <2>1, <2>T DEF BeginReplay, TypeOK, worker
<1>7. ASSUME NEW t \in Tasks, ReplayNext(t)  PROVE TypeOK'
    <2>1. index[t] + 1 \in Nat \ {0}
        BY DEF TypeOK
    <2>2. /\ queue' \in Seq(Requests) /\ reply' \in [Tasks -> Replies \cup {NoReply}]
          /\ index' \in [Tasks -> Nat] /\ pc' \in [Tasks -> Labels]
        BY <1>7, <2>1, ProceedTypes DEF ReplayNext
    <2> QED  BY <1>7, <2>2 DEF ReplayNext, TypeOK, worker
<1>8. ASSUME NEW t \in Tasks, ReplayFails(t)  PROVE TypeOK'
    <2>1. queue' \in Seq(Requests) /\ reply' \in [Tasks -> Replies \cup {NoReply}]
        BY <1>8, <1>T, AskTypes DEF ReplayFails
    <2>T. tries' \in [Tasks -> 0..MaxRetries]
        BY <1>8 DEF ReplayFails, TypeOK
    <2> QED  BY <1>8, <2>1, <2>T DEF ReplayFails, TypeOK, worker, Goto
<1>9. ASSUME NEW t \in Tasks, ReturnCleared(t)  PROVE TypeOK'
    BY <1>9, <1>N DEF ReturnCleared, TypeOK, worker, Goto
<1>10. ASSUME NEW t \in Tasks, ReturnRestored(t)  PROVE TypeOK'
    BY <1>10, FinishTypes DEF ReturnRestored
<1>11. ASSUME NEW t \in Tasks, ClientTimeout(t)  PROVE TypeOK'
    <2>1. [status |-> "lost", fresh |-> FALSE, ran |-> <<>>] \in Replies
        BY <1>N DEF Replies
    <2>2. queue' \in Seq(Requests)
        <3>1. queue \in [1..Len(queue) -> Requests] /\ Len(queue) \in Nat /\ DOMAIN queue = 1..Len(queue)
            BY LenProperties DEF TypeOK
        <3>2. \A i \in 1..Len(queue) :
                  (IF queue[i].task = t THEN [queue[i] EXCEPT !.task = Nobody] ELSE queue[i]) \in Requests
            BY <3>1 DEF Requests
        <3>3. queue' \in [1..Len(queue) -> Requests]
            BY <1>11, <3>1, <3>2 DEF ClientTimeout
        <3> QED  BY <3>1, <3>3, SeqDef
    <2> QED  BY <1>11, <2>1, <2>2 DEF ClientTimeout, TypeOK, client, worker
<1>12. ASSUME queue # <<>>  PROVE Head1 \in Requests /\ Tail(queue) \in Seq(Requests) /\ Head1.cell \in Cells
    <2>1. Head1 \in Requests /\ Tail(queue) \in Seq(Requests)
        BY <1>12, HeadTailProperties DEF Head1, TypeOK
    <2> QED  BY <2>1 DEF Requests
<1>13. ASSUME NEW s \in {"completed", "error", "timeout"}, ServeCell(s)  PROVE TypeOK'
    <2>1. mem' \in Seq(Cells)
        <3> DEFINE d == IF s = "completed" THEN <<Head1.cell>> ELSE <<>>
                   m == IF shell = "none" THEN <<>> ELSE mem
        <3>1. d \in {<<>>} \cup {<<c>> : c \in Cells} /\ m \in Seq(Cells)
            BY <1>12, <1>13, <1>N DEF ServeCell, Serving, TypeOK
        <3>2. mem' = m \o d
            BY <1>13 DEF ServeCell
        <3> HIDE DEF d, m
        <3> QED  BY <3>1, <3>2, Added
    <2>2. reply' \in [Tasks -> Replies \cup {NoReply}]
        BY <1>13, <2>1, RespondTypes DEF ServeCell, TypeOK
    <2> QED  BY <1>12, <1>13, <2>1, <2>2 DEF ServeCell, Serving, TypeOK, client
<1>14. ASSUME NEW s \in {"error", "timeout"}, ServeKilled(s)  PROVE TypeOK'
    <2>1. mem' \in Seq(Cells)
        BY <1>14, <1>N DEF ServeKilled, Restarted
    <2>2. reply' \in [Tasks -> Replies \cup {NoReply}]
        BY <1>14, <2>1, RespondTypes DEF ServeKilled
    <2> QED  BY <1>12, <1>14, <2>1, <2>2 DEF ServeKilled, Serving, Restarted, TypeOK, client
<1>15. ASSUME ServeBroken  PROVE TypeOK'
    <2>1. reply' \in [Tasks -> Replies \cup {NoReply}]
        BY <1>15, <1>N, RespondTypes DEF ServeBroken
    <2> QED  BY <1>12, <1>15, <1>N, <2>1 DEF ServeBroken, Serving, TypeOK, client
<1>16. ASSUME ServeDelete  PROVE TypeOK'
    <2>1. reply' \in [Tasks -> Replies \cup {NoReply}]
        BY <1>16, <1>N, RespondTypes DEF ServeDelete
    <2> QED  BY <1>12, <1>16, <1>N, <2>1 DEF ServeDelete, Serving, TypeOK, client
<1>17. ASSUME ShellDies \/ Expire  PROVE TypeOK'
    BY <1>17, <1>N DEF ShellDies, Expire, TypeOK, client
<1>18. ASSUME WorkerCrash  PROVE TypeOK'
    <2>1. [status |-> "lost", fresh |-> FALSE, ran |-> <<>>] \in Replies
        BY <1>N DEF Replies
    <2>2. queue' \in Seq(Requests)
        BY <1>18, EmptySeq DEF WorkerCrash
    <2>3. reply' \in [Tasks -> Replies \cup {NoReply}]
        BY <1>18, <2>1 DEF WorkerCrash, TypeOK
    <2> QED  BY <1>18, <1>N, <2>2, <2>3 DEF WorkerCrash, TypeOK, client
<1>19. ASSUME UNCHANGED vars  PROVE TypeOK'
    BY <1>19 DEF vars, client, worker, TypeOK
<1> HIDE DEF Labels, Statuses
<1> QED  BY <1>1, <1>2, <1>3, <1>4, <1>5, <1>6, <1>7, <1>8, <1>9, <1>10, <1>11, <1>13, <1>14, <1>15, <1>16,
            <1>17, <1>18, <1>19 DEF Next, Resume, Serve

\* Every variable keeps its type, whatever requests, replies and crashes happen.
THEOREM TypeCorrect == Spec => []TypeOK
BY InitTypes, NextTypes, PTL DEF Spec

-----------------------------------------------------------------------------
(* The history covers what the caller believes in.                         *)

\* A session id belongs to one generation, which awaits one call at a time.
Alone == \E t : Tasks = {t}

Covered ==
    /\ restore => \E p \in Seq(Cells) : history = p \o believed
    /\ \A t \in Tasks : pc[t] = "predelete" => saved[t] = history

LEMMA Suffix ==
    ASSUME NEW p \in Seq(Cells), NEW s \in Seq(Cells)
    PROVE  IsSuffix(s, p \o s)
<1> DEFINE q == p \o s
<1>1. /\ q \in Seq(Cells) /\ Len(q) = Len(p) + Len(s) /\ Len(p) \in Nat /\ Len(s) \in Nat
      /\ \A i \in 1..Len(s) : q[Len(p) + i] = s[i]
    BY ConcatProperties, LenProperties
<1> HIDE DEF q
<1>2. \A i \in 1..Len(s) : Reverse(q)[i] = Reverse(s)[i]
    <2> TAKE i \in 1..Len(s)
    <2>1. (Len(s) - i) + 1 \in 1..Len(s) /\ (Len(q) - i) + 1 = Len(p) + ((Len(s) - i) + 1) /\ i \in 1..Len(q)
        BY <1>1
    <2> QED  BY <1>1, <2>1 DEF Reverse
<1>3. Len(Reverse(s)) = Len(s) /\ Len(Reverse(q)) = Len(q)
    BY <1>1 DEF Reverse
<1>4. SubSeq(Reverse(s), 1, Len(s)) = SubSeq(Reverse(q), 1, Len(s))
    BY <1>1, <1>2
<1> QED  BY <1>1, <1>3, <1>4 DEF IsPrefix, IsSuffix, q

LEMMA FinishCovered ==
    ASSUME TypeOK, Covered, NEW t, Tasks = {t}, NEW w \in BOOLEAN, restore => ~w, Finish(t, w)
    PROVE  Covered'
<1> DEFINE done == IF Status(t) = "completed" THEN <<cell[t]>> ELSE <<>>
<1>1. done \in {<<>>} \cup {<<c>> : c \in Cells}
    BY DEF TypeOK
<1>2. restore => history' = history \o done /\ believed' = believed \o done
    BY DEF Finish
<1>3. restore' = restore /\ \A u \in Tasks : pc'[u] = "idle"
    BY DEF Finish, Goto, TypeOK
<1> HIDE DEF done
<1>4. ASSUME restore  PROVE \E p \in Seq(Cells) : history' = p \o believed'
    <2>1. PICK p \in Seq(Cells) : history = p \o believed
        BY <1>4 DEF Covered
    <2>2. history' = p \o (believed \o done)
        <3>1. believed \in Seq(Cells) /\ done \in Seq(Cells)
            BY <1>1, Added, EmptySeq DEF TypeOK
        <3>2. (p \o believed) \o done = p \o (believed \o done)
            BY <3>1, ConcatAssociative
        <3> QED  BY <1>2, <1>4, <2>1, <3>2
    <2> QED  BY <1>2, <1>4, <2>2
<1> QED  BY <1>3, <1>4 DEF Covered

LEMMA NextCovered ==
    ASSUME NEW t, Tasks = {t}
    PROVE  TypeOK /\ Covered /\ [Next]_vars => Covered'
<1> SUFFICES ASSUME TypeOK, Covered, [Next]_vars  PROVE Covered'
    OBVIOUS
<1>P. pc \in [Tasks -> Labels]
    BY DEF TypeOK
<1>1. ASSUME Call(t) \/ EndSession(t)  PROVE Covered'
    <2>1. pc'[t] # "predelete" /\ UNCHANGED <<restore, history, believed>>
        BY <1>1, <1>P DEF Call, EndSession, Goto
    <2> QED  BY <2>1 DEF Covered
<1>2. ASSUME ReturnFirst(t)  PROVE Covered'
    BY <1>2, FinishCovered DEF ReturnFirst, MustWarn
<1>3. ASSUME BeginRestore(t)  PROVE Covered'
    BY <1>3 DEF BeginRestore, Goto, Covered, TypeOK
<1>4. ASSUME RetryDelete(t) \/ ReplayFails(t)  PROVE Covered'
    <2>1. /\ pc'[t] = pc[t] \/ pc'[t] = "cleardelete"
          /\ UNCHANGED <<restore, history, saved, believed>>
        BY <1>4, <1>P DEF RetryDelete, ReplayFails, Goto
    <2> QED  BY <2>1 DEF Covered
<1>5. ASSUME BeginReplay(t)  PROVE Covered'
    <2>1. history' = history /\ UNCHANGED <<restore, believed>>
        BY <1>5 DEF BeginReplay, Covered
    <2>2. pc'[t] # "predelete"
        BY <1>5, <1>P DEF BeginReplay, Proceed, Goto
    <2> QED  BY <2>1, <2>2 DEF Covered
<1>6. ASSUME ReplayNext(t)  PROVE Covered'
    BY <1>6, <1>P DEF ReplayNext, Proceed, Goto, Covered
<1>7. ASSUME ReturnCleared(t)  PROVE Covered'
    <2>1. history' \in Seq(Cells) /\ believed' = <<>> /\ pc'[t] = "idle"
        BY <1>7, EmptySeq DEF ReturnCleared, Goto, TypeOK
    <2>2. history' = history' \o believed'
        BY <2>1, Emptiness
    <2> QED  BY <2>1, <2>2 DEF Covered
<1>8. ASSUME ReturnRestored(t)  PROVE Covered'
    BY <1>8, FinishCovered DEF ReturnRestored
<1>9. ASSUME UNCHANGED client  PROVE Covered'
    BY <1>9 DEF client, Covered
<1>10. Next => \/ Call(t) \/ EndSession(t) \/ Resume(t)
               \/ UNCHANGED client
    BY DEF Next, Serve, ServeCell, ServeKilled, ServeBroken, ServeDelete, ShellDies, Expire,
           WorkerCrash, ClientTimeout
<1> QED  BY <1>1, <1>2, <1>3, <1>4, <1>5, <1>6, <1>7, <1>8, <1>9, <1>10 DEF Resume, vars

\* Where replies are lost, sessions vanish and deletions fail, the history the client would
\* replay still ends with every cell its caller believes in.
THEOREM HistoryIsKept == ASSUME Alone PROVE Spec => []HistoryCovers
<1> PICK t : Tasks = {t}
    BY DEF Alone
<1>1. Init => Covered
    <2> SUFFICES ASSUME Init  PROVE Covered
        OBVIOUS
    <2>1. <<>> \in Seq(Cells) /\ <<>> = <<>> \o <<>>
        BY Emptiness, EmptySeq
    <2> QED  BY <2>1 DEF Init, Covered
<1>2. TypeOK /\ Covered => HistoryCovers
    <2> SUFFICES ASSUME TypeOK, Covered, restore  PROVE IsSuffix(believed, history)
        BY DEF HistoryCovers
    <2>1. PICK p \in Seq(Cells) : history = p \o believed
        BY DEF Covered
    <2> QED  BY <2>1, Suffix DEF TypeOK
<1>3. TypeOK /\ Covered /\ [Next]_vars => Covered'
    BY NextCovered
<1> QED  BY InitTypes, NextTypes, <1>1, <1>2, <1>3, PTL DEF Spec

-----------------------------------------------------------------------------
(* A completed cell ran on the state its caller believes in.               *)

Usable == shell = "live" /\ ~pending

\* The one request under way is for the operation the coroutine stands at.
Awaited(t) ==
    [task |-> t,
     kind |-> IF pc[t] \in {"exec", "replay", "reexec"} THEN "exec" ELSE "delete",
     cell |-> IF pc[t] = "replay" THEN saved[t][index[t]] ELSE cell[t]]

Line(t) ==
    /\ pc[t] = "idle" => ~Answered(t) /\ queue = <<>>
    /\ pc[t] # "idle" => queue = IF Answered(t) THEN <<>> ELSE <<Awaited(t)>>

\* A restoration replays what the caller believes in; only a first call opens a session.
Recorded(t) ==
    /\ restore => history = believed
    /\ pc[t] \in {"predelete", "replay", "reexec"} => restore /\ saved[t] = history
    /\ pc[t] = "replay" => index[t] \in 1..Len(saved[t])
    /\ pc[t] = "exec" /\ ~given[t] => believed = <<>>
    /\ calls = 0 => pc[t] = "idle" /\ believed = <<>>

\* Before an answer: a shell that would not announce itself as new has what the caller
\* believes in, and one under restoration what was replayed so far.
Known(t) ==
    /\ ~Usable => mem = <<>>
    /\ (pc[t] = "idle" \/ (pc[t] = "exec" /\ ~Answered(t))) /\ Usable => mem = believed
    /\ pc[t] = "replay" /\ ~Answered(t) /\ shell # "dead" => mem = SubSeq(saved[t], 1, index[t] - 1)
    /\ pc[t] = "reexec" /\ ~Answered(t) /\ shell # "dead" => mem = believed

\* After it: the answer says what the shell has now.
Outcome(t) ==
    (IF pc[t] = "exec" /\ reply[t].fresh THEN <<>> ELSE believed)
        \o (IF reply[t].status = "completed" THEN <<cell[t]>> ELSE <<>>)

Told(t) == Answered(t) =>
    /\ pc[t] \in {"predelete", "cleardelete", "delete"} => reply[t].status = "deleted" /\ shell = "none"
    /\ pc[t] = "replay" /\ reply[t].status = "completed" /\ shell # "dead"
            => mem = SubSeq(saved[t], 1, index[t])
    /\ pc[t] \in {"exec", "reexec"} =>
          /\ Usable => mem = Outcome(t)
          /\ reply[t].status = "completed" => reply[t].ran = Outcome(t)
    /\ pc[t] = "exec" /\ reply[t].status \in {"timeout", "lost"} => ~Usable

Sound(t) == Line(t) /\ Recorded(t) /\ Known(t) /\ Told(t)

IInv == TypeOK /\ (Calm => \A t \in Tasks : Sound(t))

\* A call returns: the caller's belief and the usable shell agree.
LEMMA FinishSound ==
    ASSUME NEW t \in Tasks, TypeOK, Sound(t), NEW w \in BOOLEAN, Finish(t, w), restore => ~w,
           pc[t] # "idle", queue = <<>>, Usable => mem = believed'
    PROVE  Sound(t)'
<1>1. pc'[t] = "idle" /\ ~Answered(t)' /\ queue' = <<>>
    BY DEF Finish, Goto, TypeOK, Answered
<1>2. UNCHANGED <<restore, shell, mem, pending>>
    BY DEF Finish, worker
<1>3. (restore => history' = believed') /\ calls' # 0
    BY DEF Finish, Sound, Recorded
<1>4. Line(t)'
    BY <1>1 DEF Line
<1>5. Recorded(t)'
    BY <1>1, <1>2, <1>3 DEF Recorded
<1>6. Known(t)'
    BY <1>1, <1>2 DEF Known, Usable, Sound
<1>7. Told(t)'
    BY <1>1 DEF Told
<1> QED  BY <1>4, <1>5, <1>6, <1>7 DEF Sound

\* A request is sent when none is under way.
LEMMA Asked ==
    ASSUME NEW t \in Tasks, TypeOK, NEW k, NEW c, Ask(t, k, c), queue = <<>>
    PROVE  queue' = <<[task |-> t, kind |-> k, cell |-> c]>> /\ reply'[t] = NoReply
BY DEF Ask, TypeOK

\* The restoration goes on with cell i when the cells before it are in the shell.
LEMMA ProceedSound ==
    ASSUME NEW t \in Tasks, TypeOK, Sound(t), NEW i \in Nat \ {0}, Proceed(t, i), queue = <<>>,
           pc[t] # "idle", restore, i <= Len(saved[t]) + 1, saved[t] = believed,
           shell # "dead" => mem = SubSeq(saved[t], 1, i - 1),
           history' = believed, UNCHANGED <<restore, calls, cell, saved, believed, worker>>
    PROVE  Sound(t)'
<1>1. saved[t] \in Seq(Cells) /\ Len(saved[t]) \in Nat
    BY LenProperties DEF TypeOK
<1>2. UNCHANGED <<shell, mem, pending>> /\ calls' # 0
    BY DEF worker, Sound, Recorded
<1>3. CASE i <= Len(saved[t])
    <2>1. Ask(t, "exec", saved[t][i]) /\ pc'[t] = "replay" /\ index'[t] = i
        BY <1>3 DEF Proceed, Goto, TypeOK
    <2>2. queue' = <<[task |-> t, kind |-> "exec", cell |-> saved[t][i]]>> /\ reply'[t] = NoReply
        BY <2>1, Asked
    <2>3. Line(t)'
        BY <2>1, <2>2 DEF Line, Awaited, Answered
    <2>4. Recorded(t)'
        BY <1>1, <1>2, <1>3, <2>1 DEF Recorded
    <2>5. Known(t)'
        BY <1>2, <2>1 DEF Known, Usable, Sound
    <2>6. Told(t)'
        BY <2>2 DEF Told, Answered
    <2> QED  BY <2>3, <2>4, <2>5, <2>6 DEF Sound
<1>4. CASE ~(i <= Len(saved[t]))
    <2>1. Ask(t, "exec", cell[t]) /\ pc'[t] = "reexec"
        BY <1>4 DEF Proceed, Goto, TypeOK
    <2>2. queue' = <<[task |-> t, kind |-> "exec", cell |-> cell[t]]>> /\ reply'[t] = NoReply
        BY <2>1, Asked
    <2>3. i - 1 = Len(saved[t])
        BY <1>1, <1>4
    <2>4. shell # "dead" => mem = believed
        BY <1>1, <2>3, FirstCells
    <2>5. Line(t)'
        BY <2>1, <2>2 DEF Line, Awaited, Answered
    <2>6. Recorded(t)'
        BY <1>2, <2>1 DEF Recorded
    <2>7. Known(t)'
        BY <1>2, <2>1, <2>4 DEF Known, Usable, Sound
    <2>8. Told(t)'
        BY <2>2 DEF Told, Answered
    <2> QED  BY <2>5, <2>6, <2>7, <2>8 DEF Sound
<1> QED  BY <1>3, <1>4

\* The steps of the coroutine.
LEMMA ClientSound ==
    ASSUME NEW t, Tasks = {t}, TypeOK, Calm, Sound(t),
           Call(t) \/ EndSession(t) \/ Resume(t)
    PROVE  Sound(t)'
<1>P. pc[t] \in Labels /\ t \in Tasks
    BY DEF TypeOK
<1>Q. Answered(t) => queue = <<>>
    BY DEF Sound, Line
<1>R. reply[t] = NoReply \/ reply[t] \in Replies
    BY DEF TypeOK
<1>1. ASSUME Call(t)  PROVE Sound(t)'
    <2>1. pc[t] = "idle" /\ queue = <<>> /\ pc'[t] = "exec" /\ cell'[t] = calls'
        BY <1>1 DEF Call, Goto, TypeOK, Sound, Line
    <2>2. queue' = <<[task |-> t, kind |-> "exec", cell |-> cell'[t]]>> /\ reply'[t] = NoReply
        BY <1>1, <2>1, Asked DEF Call
    <2>3. UNCHANGED <<restore, history, believed, shell, mem, pending>>
        BY <1>1 DEF Call, worker
    <2>4. (~given'[t] => believed = <<>>) /\ calls' # 0
        BY <1>1 DEF Call, Sound, Recorded, TypeOK
    <2>5. Line(t)'
        BY <2>1, <2>2 DEF Line, Awaited, Answered
    <2>6. Recorded(t)'
        BY <2>1, <2>3, <2>4 DEF Recorded, Sound
    <2>7. Known(t)'
        BY <2>1, <2>3 DEF Known, Usable, Sound
    <2>8. Told(t)'
        BY <2>2 DEF Told, Answered
    <2> QED  BY <2>5, <2>6, <2>7, <2>8 DEF Sound
<1>2. ASSUME EndSession(t)  PROVE Sound(t)'
    <2>1. pc[t] = "idle" /\ queue = <<>> /\ pc'[t] = "delete" /\ cell' = cell
        BY <1>2 DEF EndSession, Goto, TypeOK, Sound, Line
    <2>2. queue' = <<[task |-> t, kind |-> "delete", cell |-> cell'[t]]>> /\ reply'[t] = NoReply
        BY <1>2, <2>1, Asked DEF EndSession
    <2>3. UNCHANGED <<restore, history, believed, shell, mem, pending>> /\ calls' # 0
        BY <1>2 DEF EndSession, worker, TypeOK
    <2>4. Line(t)'
        BY <2>1, <2>2 DEF Line, Awaited, Answered
    <2>5. Recorded(t)'
        BY <2>1, <2>3 DEF Recorded, Sound
    <2>6. Known(t)'
        BY <2>1, <2>3 DEF Known, Usable, Sound
    <2>7. Told(t)'
        BY <2>2 DEF Told, Answered
    <2> QED  BY <2>4, <2>5, <2>6, <2>7 DEF Sound
<1>3. ASSUME ReturnFirst(t)  PROVE Sound(t)'
    <2>1. pc[t] = "exec" /\ Answered(t) /\ ~MustRestore(t) /\ Finish(t, MustWarn(t))
        BY <1>3 DEF ReturnFirst
    <2>2. reply[t] \in Replies
        BY <1>R, <2>1 DEF Answered
    <2>3. Usable => reply[t].status \notin {"timeout", "lost"} /\ mem = Outcome(t)
        BY <2>1 DEF Sound, Told
    <2>4. believed' = (IF MustWarn(t) THEN <<>> ELSE believed)
                        \o (IF Status(t) = "completed" THEN <<cell[t]>> ELSE <<>>)
        BY <2>1 DEF Finish
    <2>5. ~given[t] => believed = <<>>
        BY <2>1 DEF Sound, Recorded
    <2>6. ASSUME Usable  PROVE mem = believed'
        <3>1. Status(t) = reply[t].status /\ (Fresh(t) <=> reply[t].fresh)
            BY <2>2, <2>3, <2>6 DEF Status, Fresh, Replies
        <3>2. Outcome(t) = (IF reply[t].fresh THEN <<>> ELSE believed)
                             \o (IF reply[t].status = "completed" THEN <<cell[t]>> ELSE <<>>)
            BY <2>1 DEF Outcome
        <3>3. (IF MustWarn(t) THEN <<>> ELSE believed) = (IF reply[t].fresh THEN <<>> ELSE believed)
            BY <2>1, <2>3, <2>5, <2>6, <3>1 DEF MustWarn, MustRestore
        <3> QED  BY <2>3, <2>4, <2>6, <3>1, <3>2, <3>3
    <2>7. MustWarn(t) \in BOOLEAN /\ (restore => ~MustWarn(t))
        BY DEF MustWarn
    <2> QED  BY <1>P, <1>Q, <2>1, <2>6, <2>7, FinishSound
<1>4. ASSUME BeginRestore(t)  PROVE Sound(t)'
    <2>1. pc[t] = "exec" /\ queue = <<>> /\ pc'[t] = "predelete" /\ cell' = cell /\ saved'[t] = history /\ restore
        BY <1>4, <1>Q DEF BeginRestore, Goto, TypeOK, MustRestore
    <2>2. queue' = <<[task |-> t, kind |-> "delete", cell |-> cell'[t]]>> /\ reply'[t] = NoReply
        BY <1>4, <2>1, Asked DEF BeginRestore
    <2>3. UNCHANGED <<restore, history, believed, shell, mem, pending, calls>>
        BY <1>4 DEF BeginRestore, worker
    <2>4. Line(t)'
        BY <2>1, <2>2 DEF Line, Awaited, Answered
    <2>5. Recorded(t)'
        BY <2>1, <2>3 DEF Recorded, Sound
    <2>6. Known(t)'
        BY <2>1, <2>3 DEF Known, Usable, Sound
    <2>7. Told(t)'
        BY <2>2 DEF Told, Answered
    <2> QED  BY <2>4, <2>5, <2>6, <2>7 DEF Sound
<1>5. Deleting(t) => Deleted(t) /\ shell = "none" /\ ~GivenUp(t)
    BY DEF Deleting, Deleted, GivenUp, Status, Sound, Told
<1>6. ~RetryDelete(t)
    BY <1>5 DEF RetryDelete, Deleted
<1>7. ASSUME BeginReplay(t)  PROVE Sound(t)'
    <2>1. pc[t] = "predelete" /\ queue = <<>> /\ shell = "none" /\ Proceed(t, 1)
        BY <1>7, <1>5, <1>Q DEF BeginReplay, Deleted, Deleting, GivenUp
    <2>2. restore /\ saved[t] = believed /\ mem = <<>>
        BY <2>1 DEF Sound, Recorded, Known, Usable
    <2>3. history' = believed /\ UNCHANGED <<restore, calls, cell, saved, believed, worker>>
        BY <1>7, <2>2 DEF BeginReplay
    <2>4. saved[t] \in Seq(Cells) /\ Len(saved[t]) \in Nat /\ 1 <= Len(saved[t]) + 1 /\ 1 - 1 = 0
        BY LenProperties DEF TypeOK
    <2>5. mem = SubSeq(saved[t], 1, 1 - 1)
        BY <2>2, <2>4, FirstCells
    <2> QED  BY <1>P, <2>1, <2>2, <2>3, <2>4, <2>5, ProceedSound
<1>8. ASSUME ReplayNext(t)  PROVE Sound(t)'
    <2>1. pc[t] = "replay" /\ queue = <<>> /\ Proceed(t, index[t] + 1) /\ reply[t].status = "completed" /\ Answered(t)
        BY <1>8, <1>Q DEF ReplayNext, Status
    <2>2. restore /\ saved[t] = believed /\ history = believed /\ index[t] \in 1..Len(saved[t])
        BY <2>1 DEF Sound, Recorded
    <2>3. history' = believed /\ UNCHANGED <<restore, calls, cell, saved, believed, worker>>
        BY <1>8, <2>2 DEF ReplayNext
    <2>4. saved[t] \in Seq(Cells) /\ Len(saved[t]) \in Nat
        BY LenProperties DEF TypeOK
    <2>5. index[t] + 1 \in Nat \ {0} /\ index[t] + 1 <= Len(saved[t]) + 1 /\ (index[t] + 1) - 1 = index[t]
        BY <2>2, <2>4
    <2>6. shell # "dead" => mem = SubSeq(saved[t], 1, (index[t] + 1) - 1)
        BY <2>1, <2>5 DEF Sound, Told
    <2> QED  BY <1>P, <2>1, <2>2, <2>3, <2>5, <2>6, ProceedSound
<1>9. ASSUME ReplayFails(t)  PROVE Sound(t)'
    <2>1. pc[t] = "replay" /\ queue = <<>> /\ pc'[t] = "cleardelete" /\ cell' = cell
        BY <1>9, <1>Q DEF ReplayFails, Goto, TypeOK
    <2>2. queue' = <<[task |-> t, kind |-> "delete", cell |-> cell'[t]]>> /\ reply'[t] = NoReply
        BY <1>9, <2>1, Asked DEF ReplayFails
    <2>3. UNCHANGED <<restore, history, believed, shell, mem, pending, calls>>
        BY <1>9 DEF ReplayFails, worker
    <2>4. Line(t)'
        BY <2>1, <2>2 DEF Line, Awaited, Answered
    <2>5. Recorded(t)'
        BY <2>1, <2>3 DEF Recorded, Sound
    <2>6. Known(t)'
        BY <2>1, <2>3 DEF Known, Usable, Sound
    <2>7. Told(t)'
        BY <2>2 DEF Told, Answered
    <2> QED  BY <2>4, <2>5, <2>6, <2>7 DEF Sound
<1>10. ASSUME ReturnCleared(t)  PROVE Sound(t)'
    <2>1. pc[t] # "idle" /\ Deleted(t) /\ shell = "none" /\ queue = <<>>
        BY <1>10, <1>5, <1>Q DEF ReturnCleared, Deleted, Deleting, GivenUp
    <2>2. pc'[t] = "idle" /\ ~Answered(t)' /\ queue' = <<>> /\ history' = <<>> /\ believed' = <<>>
        BY <1>10, <2>1 DEF ReturnCleared, Goto, TypeOK, Answered
    <2>3. UNCHANGED <<shell, mem, pending, calls>>
        BY <1>10 DEF ReturnCleared, worker
    <2>4. Line(t)' /\ Recorded(t)' /\ Told(t)'
        BY <2>2 DEF Line, Recorded, Told
    <2>5. Known(t)'
        BY <2>1, <2>2, <2>3 DEF Known, Usable, Sound
    <2> QED  BY <2>4, <2>5 DEF Sound
<1>11. ASSUME ReturnRestored(t)  PROVE Sound(t)'
    <2>1. pc[t] = "reexec" /\ Answered(t) /\ Finish(t, FALSE)
        BY <1>11 DEF ReturnRestored
    <2>2. Usable => mem = Outcome(t)
        BY <2>1 DEF Sound, Told
    <2>3. believed' = believed \o (IF Status(t) = "completed" THEN <<cell[t]>> ELSE <<>>)
        BY <2>1 DEF Finish
    <2>4. believed' = Outcome(t)
        BY <2>1, <2>3 DEF Outcome, Status
    <2> QED  BY <1>P, <1>Q, <2>1, <2>2, <2>4, FinishSound
<1> QED  BY <1>1, <1>2, <1>3, <1>4, <1>6, <1>7, <1>8, <1>9, <1>10, <1>11 DEF Resume

\* The worker serves the request under way.
LEMMA ServeSound ==
    ASSUME NEW t, Tasks = {t}, TypeOK, Calm, Sound(t), Serve
    PROVE  Sound(t)'
<1>1. queue # <<>> /\ UNCHANGED client /\ queue' = Tail(queue)
    BY DEF Serve, ServeCell, ServeKilled, ServeBroken, ServeDelete, Serving
<1>2. pc[t] # "idle" /\ ~Answered(t) /\ queue = <<Awaited(t)>>
    BY <1>1 DEF Sound, Line
<1>3. Head1 = Awaited(t) /\ queue' = <<>>
    BY <1>1, <1>2 DEF Head1
<1>4. Head1.task = t /\ Head1.kind = Awaited(t).kind /\ Head1.cell = Awaited(t).cell /\ t # Nobody /\ t \in Tasks
    BY <1>3, Constants DEF Awaited
<1>5. UNCHANGED <<env, restore, history, calls, given, pc, cell, saved, index, tries, believed>>
    BY <1>1 DEF client
<1>6. mem \in Seq(Cells) /\ believed \in Seq(Cells) /\ saved[t] \in Seq(Cells) /\ cell[t] \in Cells
    BY <1>4 DEF TypeOK
<1>7. mem' \in Seq(Cells)
    BY NextTypes DEF Next, TypeOK
<1>8. ASSUME NEW s \in Statuses, NEW f \in BOOLEAN, Respond(t, s, f)
      PROVE  reply'[t] = [status |-> s, fresh |-> f, ran |-> mem'] /\ Answered(t)'
    <2>1. reply'[t] = [status |-> s, fresh |-> f, ran |-> mem']
        BY <1>4, <1>8 DEF Respond, TypeOK
    <2>2. [status |-> s, fresh |-> f, ran |-> mem'] \in Replies
        BY <1>7 DEF Replies
    <2> QED  BY <2>1, <2>2, Constants DEF Answered
<1>9. Recorded(t)'
    BY <1>5 DEF Sound, Recorded
<1>10. ASSUME Answered(t)'  PROVE Line(t)'
    BY <1>2, <1>3, <1>5, <1>10 DEF Line
<1>11. ASSUME NEW s \in {"completed", "error", "timeout"}, ServeCell(s)  PROVE Sound(t)'
    <2>1. s \in {"completed", "error"} /\ Awaited(t).kind = "exec" /\ shell # "dead"
        BY <1>4, <1>11 DEF ServeCell, Serving, Calm
    <2>2. pc[t] \in {"exec", "replay", "reexec"}
        BY <2>1 DEF Awaited
    <2> DEFINE f == shell = "none" \/ pending
    <2>3. reply'[t] = [status |-> s, fresh |-> f, ran |-> mem'] /\ Answered(t)'
        <3>1. Respond(t, s, f) /\ f \in BOOLEAN
            BY <1>4, <1>11 DEF ServeCell
        <3> HIDE DEF f
        <3> QED  BY <2>1, <3>1, <1>8
    <2>4. shell' = "live" /\ pending' = FALSE /\ Usable'
        BY <1>11 DEF ServeCell, Usable
    <2>5. mem' = mem \o (IF s = "completed" THEN <<Awaited(t).cell>> ELSE <<>>)
        <3>1. (IF shell = "none" THEN <<>> ELSE mem) = mem
            BY DEF Sound, Known, Usable
        <3> QED  BY <1>4, <1>11, <3>1 DEF ServeCell
    <2>6. (f <=> ~Usable) /\ pending \in BOOLEAN
        BY <2>1 DEF Usable, TypeOK
    <2>7. Known(t)'
        BY <1>2, <1>5, <2>2, <2>3, <2>4 DEF Known
    <2>8. CASE pc[t] = "exec"
        <3>1. Awaited(t).cell = cell[t]
            BY <2>8 DEF Awaited
        <3>2. mem = IF f THEN <<>> ELSE believed
            BY <1>2, <2>6, <2>8 DEF Sound, Known
        <3>3. Outcome(t)' = (IF f THEN <<>> ELSE believed) \o (IF s = "completed" THEN <<cell[t]>> ELSE <<>>)
            <4> HIDE DEF f
            <4>1. reply'[t].fresh = f /\ reply'[t].status = s /\ pc'[t] = "exec" /\ cell'[t] = cell[t]
                BY <1>5, <2>3, <2>8
            <4> QED  BY <1>5, <4>1 DEF Outcome
        <3>4. mem' = Outcome(t)'
            BY <2>5, <3>1, <3>2, <3>3
        <3>5. Told(t)'
            BY <1>5, <2>1, <2>3, <2>8, <3>4 DEF Told
        <3> QED  BY <1>9, <1>10, <2>3, <2>7, <3>5 DEF Sound
    <2>9. CASE pc[t] = "reexec"
        <3>1. Awaited(t).cell = cell[t]
            BY <2>9 DEF Awaited
        <3>2. mem = believed
            BY <1>2, <2>1, <2>9 DEF Sound, Known
        <3>3. Outcome(t)' = believed \o (IF s = "completed" THEN <<cell[t]>> ELSE <<>>)
            BY <1>5, <2>3, <2>9 DEF Outcome
        <3>4. mem' = Outcome(t)'
            BY <2>5, <3>1, <3>2, <3>3
        <3>5. Told(t)'
            BY <1>5, <2>1, <2>3, <2>9, <3>4 DEF Told
        <3> QED  BY <1>9, <1>10, <2>3, <2>7, <3>5 DEF Sound
    <2>10. CASE pc[t] = "replay"
        <3>1. Awaited(t).cell = saved[t][index[t]]
            BY <2>10 DEF Awaited
        <3>2. mem = SubSeq(saved[t], 1, index[t] - 1) /\ index[t] \in 1..Len(saved[t])
            BY <1>2, <2>1, <2>10 DEF Sound, Known, Recorded
        <3>3. s = "completed" => mem' = SubSeq(saved[t], 1, index[t])
            <4>1. SubSeq(saved[t], 1, index[t]) = SubSeq(saved[t], 1, index[t] - 1) \o <<saved[t][index[t]]>>
                BY <1>6, <3>2, FirstCells
            <4> QED  BY <2>5, <3>1, <3>2, <4>1
        <3>4. Told(t)'
            BY <1>5, <2>3, <2>10, <3>3 DEF Told
        <3> QED  BY <1>9, <1>10, <2>3, <2>7, <3>4 DEF Sound
    <2> QED  BY <2>2, <2>8, <2>9, <2>10
<1>12. ASSUME NEW s \in {"error", "timeout"}, ServeKilled(s)  PROVE Sound(t)'
    <2>1. reply'[t] = [status |-> s, fresh |-> TRUE, ran |-> mem'] /\ Answered(t)'
        BY <1>4, <1>8, <1>12 DEF ServeKilled
    <2>2. pc[t] \in {"exec", "replay", "reexec"}
        BY <1>4, <1>12 DEF ServeKilled, Serving, Awaited
    <2>3. ~Usable' /\ mem' = <<>>
        BY <1>12 DEF ServeKilled, Restarted, Usable
    <2>4. Known(t)' /\ Told(t)'
        BY <1>5, <2>1, <2>2, <2>3 DEF Known, Told
    <2> QED  BY <1>9, <1>10, <2>1, <2>4 DEF Sound
<1>13. ASSUME ServeBroken  PROVE Sound(t)'
    <2>1. reply'[t] = [status |-> "error", fresh |-> FALSE, ran |-> mem'] /\ Answered(t)'
        BY <1>4, <1>8, <1>13 DEF ServeBroken
    <2>2. pc[t] \in {"exec", "replay", "reexec"}
        BY <1>4, <1>13 DEF ServeBroken, Serving, Awaited
    <2>3. ~Usable' /\ mem' = <<>>
        BY <1>13 DEF ServeBroken, Usable
    <2>4. Known(t)' /\ Told(t)'
        BY <1>5, <2>1, <2>2, <2>3 DEF Known, Told
    <2> QED  BY <1>9, <1>10, <2>1, <2>4 DEF Sound
<1>14. ASSUME ServeDelete  PROVE Sound(t)'
    <2>1. reply'[t] = [status |-> "deleted", fresh |-> FALSE, ran |-> mem'] /\ Answered(t)'
        BY <1>4, <1>8, <1>14 DEF ServeDelete
    <2>2. pc[t] \notin {"exec", "replay", "reexec"}
        BY <1>4, <1>14 DEF ServeDelete, Serving, Awaited
    <2>3. ~Usable' /\ mem' = <<>> /\ shell' = "none"
        BY <1>14 DEF ServeDelete, Usable
    <2>4. Known(t)' /\ Told(t)'
        BY <1>2, <1>5, <2>1, <2>2, <2>3 DEF Known, Told
    <2> QED  BY <1>9, <1>10, <2>1, <2>4 DEF Sound
<1> QED  BY <1>11, <1>12, <1>13, <1>14 DEF Serve

\* What goes wrong around them: a shell that is lost has nothing the caller believes in.
LEMMA FaultSound ==
    ASSUME NEW t, Tasks = {t}, TypeOK, Calm, Sound(t),
           ShellDies \/ Expire \/ WorkerCrash \/ ClientTimeout(t)
    PROVE  Sound(t)'
<1>1. ~ClientTimeout(t)
    BY DEF ClientTimeout, Calm
<1>2. UNCHANGED <<env, restore, history, calls, given, pc, cell, saved, index, tries, believed>>
    BY <1>1 DEF ShellDies, Expire, WorkerCrash, client
<1>3. ~Usable' /\ mem' = <<>>
    BY <1>1 DEF ShellDies, Expire, WorkerCrash, Usable
<1>4. Recorded(t)'
    BY <1>2 DEF Sound, Recorded
<1>5. ASSUME ShellDies  PROVE Sound(t)'
    <2>1. UNCHANGED <<queue, reply>> /\ shell' = "dead" /\ shell = "live"
        BY <1>5 DEF ShellDies
    <2>2. Line(t)'
        BY <1>2, <2>1 DEF Sound, Line, Answered, Awaited
    <2>3. Known(t)' /\ Told(t)'
        BY <1>2, <1>3, <2>1 DEF Sound, Known, Told, Answered, Outcome
    <2> QED  BY <1>4, <2>2, <2>3 DEF Sound
<1>6. ASSUME Expire \/ WorkerCrash  PROVE pc[t] \in {"idle", "exec"} /\ shell' = "none"
    <2>1. ~Restoring /\ shell' = "none" /\ t \in Tasks
        BY <1>6 DEF Expire, WorkerCrash, Calm
    <2>2. pc[t] \in Labels
        BY <2>1 DEF TypeOK
    <2> QED  BY <2>1, <2>2 DEF Restoring
<1>7. ASSUME Expire  PROVE Sound(t)'
    <2>1. UNCHANGED <<queue, reply>>
        BY <1>7 DEF Expire
    <2>2. Line(t)'
        BY <1>2, <2>1 DEF Sound, Line, Answered, Awaited
    <2>3. Known(t)' /\ Told(t)'
        BY <1>2, <1>3, <1>6, <1>7, <2>1 DEF Sound, Known, Told, Answered, Outcome
    <2> QED  BY <1>4, <2>2, <2>3 DEF Sound
<1>8. ASSUME WorkerCrash  PROVE Sound(t)'
    <2> DEFINE lost == [status |-> "lost", fresh |-> FALSE, ran |-> <<>>]
    <2>1. queue' = <<>> /\ t \in Tasks
        BY <1>8 DEF WorkerCrash
    <2>2. lost \in Replies /\ lost # NoReply
        <3>1. lost \in Replies
            BY EmptySeq DEF Replies
        <3> QED  BY <3>1, Constants
    <2>3. CASE queue = <<>>
        <3>1. reply'[t] = reply[t]
            BY <1>8, <2>1, <2>3 DEF WorkerCrash
        <3>2. Line(t)'
            BY <1>2, <2>1, <2>3, <3>1 DEF Sound, Line, Answered, Awaited
        <3>3. Known(t)' /\ Told(t)'
            BY <1>2, <1>3, <1>6, <1>8, <3>1 DEF Sound, Known, Told, Answered, Outcome
        <3> QED  BY <1>4, <3>2, <3>3 DEF Sound
    <2>4. CASE queue # <<>>
        <3>1. pc[t] # "idle" /\ queue = <<Awaited(t)>>
            BY <2>4 DEF Sound, Line
        <3>2. 1 \in DOMAIN queue /\ queue[1].task = t
            BY <3>1 DEF Awaited
        <3>3. reply'[t] = lost
            BY <1>8, <2>1, <3>2 DEF WorkerCrash
        <3>4. Line(t)'
            BY <1>2, <2>1, <2>2, <3>1, <3>3 DEF Line, Answered
        <3>5. Known(t)' /\ Told(t)'
            BY <1>2, <1>3, <1>6, <1>8, <2>2, <3>1, <3>3 DEF Known, Told, Answered
        <3> QED  BY <1>4, <3>4, <3>5 DEF Sound
    <2> QED  BY <2>3, <2>4
<1> QED  BY <1>1, <1>5, <1>7, <1>8

LEMMA AloneInvariant ==
    ASSUME NEW t, Tasks = {t}
    PROVE  /\ Init => IInv
           /\ IInv /\ [Next]_vars => IInv'
           /\ IInv => Faithful
<1>1. ASSUME Init  PROVE IInv
    <2>1. Sound(t)
        BY <1>1 DEF Init, Sound, Line, Recorded, Known, Told, Answered, Usable
    <2> QED  BY <1>1, <2>1, InitTypes DEF IInv
<1>2. ASSUME IInv, [Next]_vars  PROVE IInv'
    <2>1. TypeOK'
        BY <1>2, NextTypes DEF IInv
    <2>2. env' = env
        BY <1>2 DEF Next, Serve, ServeCell, ServeKilled, ServeBroken, ServeDelete, ShellDies, Expire,
                    WorkerCrash, ClientTimeout, Call, EndSession, Resume, ReturnFirst, BeginRestore,
                    RetryDelete, BeginReplay, ReplayNext, ReplayFails, ReturnCleared, ReturnRestored,
                    Finish, vars, client
    <2>3. ASSUME Calm  PROVE Sound(t)'
        <3>1. Sound(t) /\ TypeOK
            BY <1>2, <2>3 DEF IInv
        <3>2. CASE UNCHANGED vars
            BY <3>1, <3>2 DEF vars, client, worker, Sound, Line, Recorded, Known, Told, Answered,
                              Usable, Awaited, Outcome
        <3>3. Next => \/ Call(t) \/ EndSession(t) \/ Resume(t)
                      \/ Serve
                      \/ ShellDies \/ Expire \/ WorkerCrash \/ ClientTimeout(t)
            BY DEF Next
        <3> QED  BY <1>2, <2>3, <3>1, <3>2, <3>3, ClientSound, ServeSound, FaultSound
    <2>4. Calm' => Calm
        BY <2>2 DEF Calm
    <2> QED  BY <2>1, <2>3, <2>4 DEF IInv
<1>3. ASSUME IInv  PROVE Faithful
    <2> SUFFICES ASSUME Calm, Final(t)  PROVE reply[t].ran = Append(believed, cell[t])
        BY DEF Faithful
    <2>1. TypeOK /\ Sound(t) /\ t \in Tasks
        BY <1>3 DEF IInv
    <2>2. Answered(t) /\ reply[t].status = "completed" /\ pc[t] \in {"exec", "reexec"}
        BY DEF Final
    <2>3. reply[t].ran = Outcome(t)
        BY <2>1, <2>2 DEF Sound, Told
    <2>4. pc[t] = "exec" /\ reply[t].fresh => believed = <<>>
        BY <2>1, <2>2 DEF Final, MustRestore, MustWarn, Fresh, Status, Sound, Recorded
    <2>5. Outcome(t) = believed \o <<cell[t]>>
        BY <2>2, <2>4 DEF Outcome
    <2>6. believed \in Seq(Cells) /\ cell[t] \in Cells
        BY <2>1 DEF TypeOK
    <2> QED  BY <2>3, <2>5, <2>6, AppendIsConcat
<1> QED  BY <1>1, <1>2, <1>3

\* In a quiet environment, whatever kills, restarts, expiries, crashes and replays happened,
\* a cell reported completed ran in a shell with exactly the cells its caller believes in.
THEOREM StateIsFaithful == ASSUME Alone PROVE Spec => []Faithful
<1> PICK t : Tasks = {t}
    BY DEF Alone
<1>1. Init => IInv
    BY AloneInvariant
<1>2. IInv /\ [Next]_vars => IInv'
    BY AloneInvariant
<1>3. IInv => Faithful
    BY AloneInvariant
<1> QED  BY <1>1, <1>2, <1>3, PTL DEF Spec
=============================================================================
