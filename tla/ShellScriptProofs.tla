-------------------------- MODULE ShellScriptProofs --------------------------
(***************************************************************************)
(* Proofs about the two shell scripts.  SandboxStartup: where the script   *)
(* foresees what happens, nginx has the right endpoint for each worker,    *)
(* for any number of nodes, workers, retries, crashes and ports taken by   *)
(* others.  VenvSetup: tasks use a whole environment, for any number of    *)
(* tasks, failures and kills.                                              *)
(***************************************************************************)
EXTENDS SandboxStartup, VenvSetup, FiniteSetTheorems, TLAPS

LEMMA Constants ==
    /\ NODE_COUNT \in Nat /\ NODE_COUNT > 0 /\ NUM_WORKERS \in Nat /\ NUM_WORKERS > 0
    /\ PORT_INCREMENT \in Nat /\ PORT_INCREMENT > 0 /\ MAX_STARTUP_RETRIES \in Nat
    /\ NoPort \notin Ports
    /\ Environments \subseteq Environment
    /\ Master \in Nodes
BY SandboxStartupAssumption DEF Master, Nodes

-----------------------------------------------------------------------------
(* The ports that a worker may be given.                                   *)

LEMMA Monotone ==
    ASSUME NEW r \in Nat, NEW s \in Nat, r <= s, NEW k \in Nat
    PROVE  r * k \in Nat /\ s * k \in Nat /\ r * k <= s * k
<1>1. PICK d \in Nat : s = r + d
    BY s - r \in Nat
<1>2. s * k = r * k + d * k
    BY <1>1
<1>3. r * k \in Nat /\ d * k \in Nat /\ s * k \in Nat
    OBVIOUS
<1> QED  BY <1>2, <1>3

\* The ports of a worker, one for each round
Offered(i) == {Port(i, r * PORT_INCREMENT) : r \in 0..MAX_STARTUP_RETRIES}

LEMMA PortsInRange ==
    ASSUME NEW i \in Workers
    PROVE  Offered(i) \subseteq Ports
<1> SUFFICES ASSUME NEW r \in 0..MAX_STARTUP_RETRIES
             PROVE  Port(i, r * PORT_INCREMENT) \in Ports
    BY DEF Offered
<1>1. r * PORT_INCREMENT \in Nat /\ r * PORT_INCREMENT <= MAX_STARTUP_RETRIES * PORT_INCREMENT
        /\ MAX_STARTUP_RETRIES * PORT_INCREMENT \in Nat
    BY Monotone, Constants
<1> QED  BY <1>1, Constants DEF Port, Ports, MaxPort, Workers

(* Two workers are never given the same port, in whichever rounds.         *)
LEMMA PortsDiffer ==
    ASSUME NUM_WORKERS <= PORT_INCREMENT,
           NEW i \in Workers, NEW j \in Workers, Offered(i) \cap Offered(j) # {}
    PROVE  i = j
<1> PICK r \in Nat, s \in Nat : Port(i, r * PORT_INCREMENT) = Port(j, s * PORT_INCREMENT)
    BY DEF Offered
<1>0. /\ i \in Nat /\ j \in Nat /\ i >= 1 /\ j >= 1 /\ i <= PORT_INCREMENT /\ j <= PORT_INCREMENT
      /\ PORT_INCREMENT \in Nat /\ r * PORT_INCREMENT \in Nat /\ s * PORT_INCREMENT \in Nat
    BY Constants DEF Workers
<1>1. ASSUME NEW x \in Nat, NEW y \in Nat, x < y
      PROVE  y * PORT_INCREMENT >= x * PORT_INCREMENT + PORT_INCREMENT
    <2>1. (x + 1) * PORT_INCREMENT <= y * PORT_INCREMENT
        BY <1>1, <1>0, Monotone
    <2>2. (x + 1) * PORT_INCREMENT = x * PORT_INCREMENT + PORT_INCREMENT
        BY <1>0
    <2> QED  BY <2>1, <2>2, <1>0
<1>2. CASE r = s
    BY <1>2, <1>0 DEF Port
<1>3. CASE r < s
    <2>1. s * PORT_INCREMENT >= r * PORT_INCREMENT + PORT_INCREMENT
        BY <1>1, <1>3
    <2> QED  BY <2>1, <1>0 DEF Port
<1>4. CASE s < r
    <2>1. r * PORT_INCREMENT >= s * PORT_INCREMENT + PORT_INCREMENT
        BY <1>1, <1>4
    <2> QED  BY <2>1, <1>0 DEF Port
<1> QED  BY <1>2, <1>3, <1>4

-----------------------------------------------------------------------------
(* Types, places and holders: the first layer of the invariant.            *)

Fresh == {"off", "spawn"}

\* No process before phase 1; from then on every worker has a port of one of the rounds.
Placed ==
    \A n \in Nodes :
        /\ pc[n] \in Fresh => WORKER_READY[n] = {} /\ \A i \in Workers : proc[n][i] = "none"
        /\ pc[n] \notin Fresh => \A i \in Workers : ACTUAL_WORKER_PORTS[n][i] \in Offered(i)

\* A port has one holder.
OneHolder ==
    \A n \in Nodes : \A i \in Workers : proc[n][i] = "up" =>
        /\ ACTUAL_WORKER_PORTS[n][i] \notin foreign[n]
        /\ \A j \in Workers :
            proc[n][j] = "up" /\ ACTUAL_WORKER_PORTS[n][i] = ACTUAL_WORKER_PORTS[n][j] => i = j

LEMMA PlacedPorts ==
    ASSUME Placed, NEW n \in Nodes, pc[n] \notin Fresh, NEW i \in Workers
    PROVE  ACTUAL_WORKER_PORTS[n][i] \in Ports
BY PortsInRange DEF Placed

LEMMA InitTypes == Init => TypeOK /\ Placed /\ OneHolder
<1> SUFFICES ASSUME Init  PROVE TypeOK /\ Placed /\ OneHolder
    OBVIOUS
<1>1. OldFiles \subseteq [Workers -> Ports]
    <2> SUFFICES ASSUME NEW i \in Workers, NEW r \in {0, MAX_STARTUP_RETRIES}
                 PROVE  Port(i, r * PORT_INCREMENT) \in Ports
        BY DEF OldFiles
    <2>1. Port(i, r * PORT_INCREMENT) \in Offered(i)
        BY Constants DEF Offered
    <2> QED  BY <2>1, PortsInRange
<1>2. file \in [Nodes -> [Workers -> Ports] \cup {NoFile}]
    BY <1>1 DEF Init
<1>3. TypeOK
    BY <1>2, Constants DEF Init, TypeOK
<1> QED  BY <1>3 DEF Init, Placed, OneHolder, Fresh

(* Starting workers at one of the rounds' offsets                          *)
LEMMA Started ==
    ASSUME TypeOK, NEW n \in Nodes, NEW set \in SUBSET Workers, NEW r \in 0..MAX_STARTUP_RETRIES,
           StartWorkers(n, set, r * PORT_INCREMENT)
    PROVE  /\ proc' \in [Nodes -> [Workers -> {"none", "starting", "up", "conflict", "dead"}]]
           /\ ACTUAL_WORKER_PORTS' \in [Nodes -> [Workers -> Ports \cup {NoPort}]]
           /\ \A m \in Nodes \ {n} : proc'[m] = proc[m] /\ ACTUAL_WORKER_PORTS'[m] = ACTUAL_WORKER_PORTS[m]
           /\ \A i \in set : proc'[n][i] = "starting" /\ ACTUAL_WORKER_PORTS'[n][i] \in Offered(i)
           /\ \A i \in Workers \ set :
                proc'[n][i] = proc[n][i] /\ ACTUAL_WORKER_PORTS'[n][i] = ACTUAL_WORKER_PORTS[n][i]
<1> DEFINE P(i) == Port(i, r * PORT_INCREMENT)
<1>1. \A i \in set : P(i) \in Offered(i) /\ P(i) \in Ports
    BY PortsInRange DEF Offered
<1>2. /\ proc' = [proc EXCEPT ![n] = [i \in Workers |-> IF i \in set THEN "starting" ELSE proc[n][i]]]
      /\ ACTUAL_WORKER_PORTS' = [ACTUAL_WORKER_PORTS EXCEPT ![n] =
            [i \in Workers |-> IF i \in set THEN P(i) ELSE ACTUAL_WORKER_PORTS[n][i]]]
    BY DEF StartWorkers
<1> HIDE DEF P
<1> QED  BY <1>1, <1>2 DEF TypeOK

LEMMA NextTypes ==
    ASSUME TypeOK, Placed, OneHolder, [Next]_vars
    PROVE  TypeOK' /\ Placed' /\ OneHolder'
<1> USE DEF TypeOK, Placed, OneHolder, Fresh
<1>1. CASE UNCHANGED vars
    BY <1>1 DEF vars
<1>2. ASSUME NEW n \in Nodes, Begin(n)
      PROVE  TypeOK' /\ Placed' /\ OneHolder'
    BY <1>2 DEF Begin, Goto
<1>3. ASSUME NEW n \in Nodes, Spawn(n)
      PROVE  TypeOK' /\ Placed' /\ OneHolder'
    <2>1. 0 \in 0..MAX_STARTUP_RETRIES /\ 0 * PORT_INCREMENT = 0
        BY Constants
    <2>2. StartWorkers(n, Workers, 0 * PORT_INCREMENT)
        BY <1>3, <2>1 DEF Spawn
    <2>3. /\ proc' \in [Nodes -> [Workers -> {"none", "starting", "up", "conflict", "dead"}]]
          /\ ACTUAL_WORKER_PORTS' \in [Nodes -> [Workers -> Ports \cup {NoPort}]]
          /\ \A m \in Nodes \ {n} : proc'[m] = proc[m] /\ ACTUAL_WORKER_PORTS'[m] = ACTUAL_WORKER_PORTS[m]
          /\ \A i \in Workers : proc'[n][i] = "starting" /\ ACTUAL_WORKER_PORTS'[n][i] \in Offered(i)
        BY <2>1, <2>2, Started
    <2>4. /\ pc' = [pc EXCEPT ![n] = "retry"]
          /\ UNCHANGED <<env, foreign, retry_round, WORKER_READY, file, upstream, crashed>>
        BY <1>3 DEF Spawn, Goto
    <2>5. TypeOK'
        BY <2>3, <2>4
    <2>6. Placed'
        BY <2>3, <2>4
    <2>7. ASSUME NEW m \in Nodes, NEW i \in Workers, proc'[m][i] = "up"
          PROVE  m # n
        BY <2>3, <2>7
    <2>8. OneHolder'
        BY <2>3, <2>4, <2>7
    <2> QED  BY <2>5, <2>6, <2>8
<1>4. ASSUME NEW n \in Nodes, Retry(n)
      PROVE  TypeOK' /\ Placed' /\ OneHolder'
    <2>1. CASE retry_round[n] < MAX_STARTUP_RETRIES /\ FAILED_WORKERS(n) # {}
        <3> DEFINE r == retry_round[n] + 1
        <3>1. r \in 0..MAX_STARTUP_RETRIES /\ retry_round' = [retry_round EXCEPT ![n] = r]
            BY <1>4, <2>1, Constants DEF Retry
        <3>2. StartWorkers(n, FAILED_WORKERS(n), r * PORT_INCREMENT)
            BY <1>4, <2>1, <3>1 DEF Retry
        <3>3. FAILED_WORKERS(n) \in SUBSET Workers
            BY DEF FAILED_WORKERS
        <3>4. UNCHANGED <<env, foreign, pc, WORKER_READY, file, upstream, crashed>> /\ pc[n] = "retry"
            BY <1>4, <2>1 DEF Retry
        <3> HIDE DEF r
        <3>5. /\ proc' \in [Nodes -> [Workers -> {"none", "starting", "up", "conflict", "dead"}]]
              /\ ACTUAL_WORKER_PORTS' \in [Nodes -> [Workers -> Ports \cup {NoPort}]]
              /\ \A m \in Nodes \ {n} : proc'[m] = proc[m] /\ ACTUAL_WORKER_PORTS'[m] = ACTUAL_WORKER_PORTS[m]
              /\ \A i \in FAILED_WORKERS(n) :
                    proc'[n][i] = "starting" /\ ACTUAL_WORKER_PORTS'[n][i] \in Offered(i)
              /\ \A i \in Workers \ FAILED_WORKERS(n) :
                    proc'[n][i] = proc[n][i] /\ ACTUAL_WORKER_PORTS'[n][i] = ACTUAL_WORKER_PORTS[n][i]
            BY <3>1, <3>2, <3>3, Started
        <3>6. TypeOK'
            BY <3>1, <3>4, <3>5
        <3>7. Placed'
            <4>1. ASSUME NEW m \in Nodes \ {n}
                  PROVE  /\ pc'[m] \in Fresh => WORKER_READY'[m] = {} /\ \A i \in Workers : proc'[m][i] = "none"
                         /\ pc'[m] \notin Fresh => \A i \in Workers : ACTUAL_WORKER_PORTS'[m][i] \in Offered(i)
                BY <3>4, <3>5
            <4>2. pc'[n] \notin Fresh /\ \A i \in Workers : ACTUAL_WORKER_PORTS'[n][i] \in Offered(i)
                BY <3>4, <3>5
            <4> QED  BY <4>1, <4>2
        <3>8. OneHolder'
            <4>1. ASSUME NEW m \in Nodes, NEW i \in Workers, proc'[m][i] = "up"
                  PROVE  proc[m][i] = "up" /\ ACTUAL_WORKER_PORTS'[m][i] = ACTUAL_WORKER_PORTS[m][i]
                BY <3>5, <4>1
            <4> QED  BY <3>4, <4>1
        <3> QED  BY <3>6, <3>7, <3>8
    <2>2. CASE ~(retry_round[n] < MAX_STARTUP_RETRIES /\ FAILED_WORKERS(n) # {})
        <3>1. UNCHANGED <<env, foreign, proc, ACTUAL_WORKER_PORTS, retry_round, WORKER_READY, file, upstream, crashed>>
              /\ pc' = [pc EXCEPT ![n] = "health"] /\ pc[n] = "retry"
            BY <1>4, <2>2 DEF Retry, Goto
        <3> QED  BY <3>1
    <2> QED  BY <2>1, <2>2
<1>5. ASSUME NEW n \in Nodes, NEW i \in Workers, CheckHealth(n, i)
      PROVE  TypeOK' /\ Placed' /\ OneHolder'
    BY <1>5 DEF CheckHealth
<1>6. ASSUME NEW n \in Nodes, AllReady(n)
      PROVE  TypeOK' /\ Placed' /\ OneHolder'
    BY <1>6 DEF AllReady, Goto
<1>7. ASSUME NEW n \in Nodes, Report(n)
      PROVE  TypeOK' /\ Placed' /\ OneHolder'
    <2>1. ACTUAL_WORKER_PORTS[n] \in [Workers -> Ports]
        BY <1>7, PlacedPorts DEF Report
    <2> QED  BY <1>7, <2>1 DEF Report, Goto
<1>8. CASE Collect
    <2>1. UNCHANGED <<env, foreign, proc, ACTUAL_WORKER_PORTS, retry_round, WORKER_READY, file, upstream, crashed>>
          /\ pc' = [pc EXCEPT ![Master] = "nginx"] /\ pc[Master] = "collect" /\ Master \in Nodes
        BY <1>8, Constants DEF Collect, Goto
    <2> HIDE DEF Master
    <2> QED  BY <2>1
<1>9. CASE StartNginx
    <2>1. upstream' \subseteq Nodes \X Ports
        <3>1. \A i \in Workers : ACTUAL_WORKER_PORTS[Master][i] \in Ports
            BY <1>9, PlacedPorts, Constants DEF StartNginx
        <3>2. \A n \in Nodes : \A i \in Workers : file[n] # NoFile => file[n][i] \in Ports
            OBVIOUS
        <3> QED  BY <1>9, <3>1, <3>2, Constants DEF StartNginx
    <2> QED  BY <1>9, <2>1, Constants DEF StartNginx, Goto
<1>10. ASSUME NEW n \in Nodes, Timeout(n) \/ NginxDies(n)
       PROVE  TypeOK' /\ Placed' /\ OneHolder'
    <2>1. /\ pc' = [pc EXCEPT ![n] = "exit"] /\ pc[n] \notin Fresh
          /\ proc' = [proc EXCEPT ![n] = [i \in Workers |-> "none"]]
          /\ UNCHANGED <<env, foreign, ACTUAL_WORKER_PORTS, retry_round, WORKER_READY, file, upstream, crashed>>
        BY <1>10 DEF Timeout, NginxDies, Hopeless, Exit, Goto
    <2>2. TypeOK'
        BY <2>1
    <2>3. Placed'
        BY <2>1
    <2>4. OneHolder'
        BY <2>1
    <2> QED  BY <2>2, <2>3, <2>4
<1>11. ASSUME NEW n \in Nodes, NEW i \in Workers, Bind(n, i)
       PROVE  TypeOK' /\ Placed' /\ OneHolder'
    BY <1>11 DEF Bind, InUse, Holders
<1>12. ASSUME NEW n \in Nodes, NEW i \in Workers, Crash(n, i)
       PROVE  TypeOK' /\ Placed' /\ OneHolder'
    BY <1>12 DEF Crash
<1>13. ASSUME NEW n \in Nodes, NEW i \in Workers, Monitor(n, i)
       PROVE  TypeOK' /\ Placed' /\ OneHolder'
    BY <1>13 DEF Monitor
<1>14. ASSUME NEW n \in Nodes, NEW p \in Ports, OtherBinds(n, p)
       PROVE  TypeOK' /\ Placed' /\ OneHolder'
    BY <1>14 DEF OtherBinds, InUse, Holders
<1> QED
    BY <1>1, <1>2, <1>3, <1>4, <1>5, <1>6, <1>7, <1>8, <1>9, <1>10, <1>11, <1>12, <1>13, <1>14
    DEF Next, Script

-----------------------------------------------------------------------------
(* What the script knows: the second layer of the invariant.               *)

Serves   == {"collect", "nginx", "serve"}
Reported == Serves \cup {"exit"}

Endpoints == {<<n, ACTUAL_WORKER_PORTS[n][i]>> : n \in Nodes, i \in Workers}

\* A worker that passed the health check is up.
ReadyIsUp ==
    \A n \in Nodes : \A i \in WORKER_READY[n] : pc[n] # "exit" /\ <<n, i>> \notin crashed => proc[n][i] = "up"

\* A node reports when all its workers are ready, and reports their ports, which stay.
ReportIsTrue ==
    \A n \in Nodes :
        /\ pc[n] \in Serves \cup {"report"} => WORKER_READY[n] = Workers
        /\ file[n] # NoFile => pc[n] \in Reported /\ file[n] = ACTUAL_WORKER_PORTS[n]

\* The master goes on when all have reported.
AllCollected ==
    /\ pc[Master] \in {"nginx", "serve"} => NODE_COUNT = 1 \/ \A n \in Nodes : file[n] # NoFile
    /\ pc[Master] = "serve" => upstream = Endpoints

Known == ReadyIsUp /\ ReportIsTrue /\ AllCollected

IInv ==
    /\ TypeOK /\ Placed /\ OneHolder
    /\ Foreseen => Known

LEMMA InitIInv == Init => IInv
<1> SUFFICES ASSUME Init, Foreseen  PROVE Known
    BY InitTypes DEF IInv
<1>1. \A n \in Nodes : file[n] = NoFile /\ WORKER_READY[n] = {} /\ pc[n] = "off"
    BY DEF Init, Foreseen
<1> QED  BY <1>1, Constants DEF Known, ReadyIsUp, ReportIsTrue, AllCollected, Serves

(* Once the master goes on, no node starts workers of its script any more. *)
LEMMA Settled ==
    ASSUME ReportIsTrue, AllCollected, pc[Master] \in {"nginx", "serve"}, NEW n \in Nodes
    PROVE  pc[n] \in Reported
<1>1. CASE NODE_COUNT = 1
    BY <1>1 DEF Nodes, Master, Reported, Serves
<1>2. CASE file[n] # NoFile
    BY <1>2 DEF ReportIsTrue
<1> QED  BY <1>1, <1>2 DEF AllCollected

(* Whoever answers at the port of a worker is that worker.                 *)
LEMMA OwnAnswer ==
    ASSUME TypeOK, Placed, OneHolder, Foreseen, NEW n \in Nodes, NEW i \in Workers, CheckHealth(n, i)
    PROVE  proc[n][i] = "up"
<1>1. pc[n] \notin Fresh
    BY DEF CheckHealth, Fresh
<1>2. PICK j \in Workers : proc[n][j] = "up" /\ ACTUAL_WORKER_PORTS[n][j] = ACTUAL_WORKER_PORTS[n][i]
    BY DEF CheckHealth, Healthy, Foreseen, Holders
<1>3. ACTUAL_WORKER_PORTS[n][i] \in Offered(i) /\ ACTUAL_WORKER_PORTS[n][j] \in Offered(j)
    BY <1>1 DEF Placed
<1>4. NUM_WORKERS <= PORT_INCREMENT
    BY DEF Foreseen
<1>5. i = j
    BY <1>2, <1>3, <1>4, PortsDiffer
<1> QED  BY <1>2, <1>5

LEMMA NextKnown ==
    ASSUME TypeOK, Placed, OneHolder, Foreseen, Known, [Next]_vars
    PROVE  Known'
<1>0. Master \in Nodes
    BY Constants
<1> USE <1>0 DEF TypeOK, Known, ReadyIsUp, ReportIsTrue, AllCollected, Serves, Reported
<1>1. CASE UNCHANGED vars
    BY <1>1 DEF vars, Endpoints
<1>2. ASSUME NEW n \in Nodes, Begin(n)
      PROVE  Known'
    <2>1. pc[n] = "off" /\ pc' = [pc EXCEPT ![n] = "spawn"] /\ file' = [file EXCEPT ![n] = NoFile]
          /\ UNCHANGED <<env, foreign, proc, ACTUAL_WORKER_PORTS, retry_round, WORKER_READY, upstream, crashed>>
        BY <1>2 DEF Begin, Goto
    <2>2. pc[Master] \notin {"nginx", "serve"}
        BY <2>1, Settled
    <2> QED  BY <2>1, <2>2
<1>3. ASSUME NEW n \in Nodes, Spawn(n) \/ Retry(n)
      PROVE  Known'
    <2>1. pc[n] \in {"spawn", "retry"} /\ UNCHANGED <<WORKER_READY, file, upstream, crashed>>
          /\ (pc' = [pc EXCEPT ![n] = "retry"] \/ pc' = [pc EXCEPT ![n] = "health"] \/ pc' = pc)
        BY <1>3 DEF Spawn, Retry, Goto
    <2>2. pc[Master] \notin {"nginx", "serve"}
        BY <2>1, Settled
    <2>3. \A m \in Nodes \ {n} : proc'[m] = proc[m] /\ ACTUAL_WORKER_PORTS'[m] = ACTUAL_WORKER_PORTS[m]
        BY <1>3 DEF Spawn, Retry, StartWorkers
    <2>4. \A i \in WORKER_READY[n] : proc[n][i] = "up" => proc'[n][i] = "up"
        <3>1. CASE Spawn(n)
            BY <3>1 DEF Spawn, Placed, Fresh
        <3>2. CASE Retry(n)
            BY <3>2 DEF Retry, StartWorkers, FAILED_WORKERS
        <3> QED  BY <1>3, <3>1, <3>2
    <2>5. ReadyIsUp'
        <3>1. \A m \in Nodes : pc'[m] # "exit" => pc[m] # "exit"
            BY <2>1
        <3> SUFFICES ASSUME NEW m \in Nodes, NEW i \in WORKER_READY[m], pc[m] # "exit", <<m, i>> \notin crashed
                     PROVE  proc'[m][i] = "up"
            BY <2>1, <3>1
        <3>2. proc[m][i] = "up"
            OBVIOUS
        <3> QED  BY <2>3, <2>4, <3>2
    <2>6. ReportIsTrue'
        BY <2>1, <2>3
    <2>7. AllCollected'
        BY <2>1, <2>2
    <2> QED  BY <2>5, <2>6, <2>7
<1>4. ASSUME NEW n \in Nodes, NEW i \in Workers, CheckHealth(n, i)
      PROVE  Known'
    <2>1. proc[n][i] = "up"
        BY <1>4, OwnAnswer
    <2> QED  BY <1>4, <2>1 DEF CheckHealth, Endpoints
<1>5. ASSUME NEW n \in Nodes, AllReady(n)
      PROVE  Known'
    <2>1. pc[n] = "health" /\ WORKER_READY[n] = Workers
          /\ pc' = [pc EXCEPT ![n] = IF NODE_COUNT > 1 THEN "report" ELSE "nginx"]
          /\ UNCHANGED <<env, foreign, proc, ACTUAL_WORKER_PORTS, retry_round, WORKER_READY, file, upstream, crashed>>
        BY <1>5 DEF AllReady, Goto
    <2>2. NODE_COUNT > 1 \/ NODE_COUNT = 1
        BY Constants
    <2> QED  BY <2>1, <2>2 DEF Endpoints
<1>6. ASSUME NEW n \in Nodes, Report(n)
      PROVE  Known'
    <2>1. pc[n] = "report" /\ file' = [file EXCEPT ![n] = ACTUAL_WORKER_PORTS[n]]
          /\ pc' = [pc EXCEPT ![n] = IF n = Master THEN "collect" ELSE "serve"]
          /\ UNCHANGED <<env, foreign, proc, ACTUAL_WORKER_PORTS, retry_round, WORKER_READY, upstream, crashed>>
        BY <1>6 DEF Report, Goto
    <2>2. pc[Master] \notin {"nginx", "serve"}
        BY <2>1, Settled
    <2>3. pc'[Master] \notin {"nginx", "serve"}
        BY <2>1, <2>2
    <2> QED  BY <2>1, <2>3
<1>7. CASE Collect
    BY <1>7 DEF Collect, Goto, Endpoints
<1>8. CASE StartNginx
    <2>1. pc[Master] = "nginx" /\ pc' = [pc EXCEPT ![Master] = "serve"]
          /\ UNCHANGED <<env, foreign, proc, ACTUAL_WORKER_PORTS, retry_round, WORKER_READY, file, crashed>>
        BY <1>8 DEF StartNginx, Goto
    <2>2. upstream' = Endpoints
        <3>1. CASE NODE_COUNT = 1
            BY <1>8, <3>1 DEF StartNginx, Endpoints, Nodes, Master
        <3>2. CASE NODE_COUNT # 1
            <4>1. \A n \in Nodes : file[n] # NoFile /\ file[n] = ACTUAL_WORKER_PORTS[n]
                BY <2>1, <3>2
            <4>2. upstream' = UNION {{<<n, file[n][i]>> : i \in Workers} : n \in Nodes}
                BY <1>8, <3>2, <4>1 DEF StartNginx
            <4> QED  BY <4>1, <4>2 DEF Endpoints
        <3> QED  BY <3>1, <3>2
    <2> QED  BY <2>1, <2>2 DEF Endpoints
<1>9. ASSUME NEW n \in Nodes, Timeout(n) \/ NginxDies(n)
      PROVE  Known'
    <2>1. pc' = [pc EXCEPT ![n] = "exit"] /\ pc[n] \in {"health", "collect", "nginx", "serve"}
          /\ proc' = [proc EXCEPT ![n] = [i \in Workers |-> "none"]]
          /\ UNCHANGED <<env, foreign, ACTUAL_WORKER_PORTS, retry_round, WORKER_READY, file, upstream, crashed>>
        BY <1>9 DEF Timeout, NginxDies, Hopeless, Exit, Goto
    <2> QED  BY <2>1 DEF Endpoints
<1>10. ASSUME NEW n \in Nodes, NEW i \in Workers, Bind(n, i) \/ Crash(n, i) \/ Monitor(n, i)
       PROVE  Known'
    <2>1. UNCHANGED <<env, foreign, ACTUAL_WORKER_PORTS, pc, retry_round, WORKER_READY, file, upstream>>
        BY <1>10 DEF Bind, Crash, Monitor
    <2>2. /\ crashed \subseteq crashed'
          /\ \A m \in Nodes : \A j \in Workers :
                proc[m][j] = "up" /\ <<m, j>> \notin crashed' => proc'[m][j] = "up"
        <3>1. CASE Bind(n, i)
            BY <3>1 DEF Bind
        <3>2. CASE Crash(n, i)
            BY <3>2 DEF Crash
        <3>3. CASE Monitor(n, i)
            BY <3>3 DEF Monitor
        <3> QED  BY <1>10, <3>1, <3>2, <3>3
    <2>3. ReadyIsUp'
        BY <2>1, <2>2
    <2> QED  BY <2>1, <2>3 DEF Endpoints
<1>11. ASSUME NEW n \in Nodes, NEW p \in Ports, OtherBinds(n, p)
       PROVE  Known'
    BY <1>11 DEF OtherBinds, Endpoints
<1> QED
    BY <1>1, <1>2, <1>3, <1>4, <1>5, <1>6, <1>7, <1>8, <1>9, <1>10, <1>11
    DEF Next, Script

LEMMA NextIInv == IInv /\ [Next]_vars => IInv'
<1> SUFFICES ASSUME IInv, [Next]_vars  PROVE IInv'
    OBVIOUS
<1>1. TypeOK' /\ Placed' /\ OneHolder'
    BY NextTypes DEF IInv
\* The environment does not change.
<1>2. Foreseen' => Foreseen
    BY DEF Foreseen, Next, Script, vars, Begin, Spawn, Retry, CheckHealth, AllReady, Report, Collect, StartNginx,
           Timeout, NginxDies, Exit, Bind, Crash, Monitor, OtherBinds
<1>3. Foreseen' => Known'
    BY <1>2, NextKnown DEF IInv
<1> QED  BY <1>1, <1>3 DEF IInv

(* As many endpoints as workers, since no two of a node share a port       *)
LEMMA EndpointsCount ==
    ASSUME Placed, NUM_WORKERS <= PORT_INCREMENT, \A n \in Nodes : pc[n] \notin Fresh
    PROVE  Cardinality(Endpoints) = NODE_COUNT * NUM_WORKERS
<1> DEFINE S == Nodes \X Workers
           f == [x \in S |-> <<x[1], ACTUAL_WORKER_PORTS[x[1]][x[2]]>>]
<1>1. IsFiniteSet(S) /\ Cardinality(S) = NODE_COUNT * NUM_WORKERS
    <2>1. IsFiniteSet(Nodes) /\ Cardinality(Nodes) = NODE_COUNT
        BY FS_Interval, Constants DEF Nodes
    <2>2. IsFiniteSet(Workers) /\ Cardinality(Workers) = NUM_WORKERS
        BY FS_Interval, Constants DEF Workers
    <2> QED  BY <2>1, <2>2, FS_Product
<1>2. ASSUME NEW x \in S, NEW y \in S, f[x] = f[y]
      PROVE  x = y
    <2>1. x[1] = y[1] /\ ACTUAL_WORKER_PORTS[x[1]][x[2]] = ACTUAL_WORKER_PORTS[y[1]][y[2]]
        BY <1>2
    <2>2. /\ ACTUAL_WORKER_PORTS[x[1]][x[2]] \in Offered(x[2])
          /\ ACTUAL_WORKER_PORTS[y[1]][y[2]] \in Offered(y[2])
        BY DEF Placed
    <2>3. x[2] = y[2]
        BY <2>1, <2>2, PortsDiffer
    <2> QED  BY <2>1, <2>3
<1>3. f \in [S -> Endpoints]
    BY DEF Endpoints
<1>4. ASSUME NEW e \in Endpoints
      PROVE  \E x \in S : f[x] = e
    <2>1. PICK n \in Nodes, i \in Workers : e = <<n, ACTUAL_WORKER_PORTS[n][i]>>
        BY DEF Endpoints
    <2>2. <<n, i>> \in S /\ f[<<n, i>>] = e
        BY <2>1
    <2> QED  BY <2>2
<1> HIDE DEF f, S
<1>5. f \in Bijection(S, Endpoints)
    BY <1>2, <1>3, <1>4 DEF Bijection, Injection, Surjection, IsInjective
<1>6. ExistsBijection(S, Endpoints)
    BY <1>5 DEF ExistsBijection
<1> QED  BY <1>1, <1>6, FS_Bijection

-----------------------------------------------------------------------------
(* The theorems.                                                           *)

(* Every variable has its type: no port outside the range of the rounds is *)
(* given out, reported or routed to.                                       *)
THEOREM TypeCorrect == Spec => []TypeOK
<1>1. IInv => TypeOK
    BY DEF IInv
<1> QED  BY InitIInv, NextIInv, <1>1, PTL DEF Spec

(* Where nobody else answers, no file is left of a run before and a node   *)
(* has at most PORT_INCREMENT workers, nginx has one endpoint for each     *)
(* worker, where it listens unless it has crashed.                         *)
THEOREM RoutedRight == Spec => []Routed
<1>1. IInv => Routed
    <2> SUFFICES ASSUME IInv, Foreseen, Serving
                 PROVE  /\ upstream = Endpoints
                        /\ Cardinality(upstream) = NODE_COUNT * NUM_WORKERS
                        /\ \A n \in Nodes : \A i \in Workers :
                            pc[n] # "exit" /\ <<n, i>> \notin crashed => proc[n][i] = "up"
        BY DEF Routed, Endpoints
    <2>1. upstream = Endpoints
        BY DEF IInv, Known, AllCollected, Serving
    <2>2. \A n \in Nodes : pc[n] \in Reported
        BY Settled DEF IInv, Known, Serving
    <2>3. Cardinality(upstream) = NODE_COUNT * NUM_WORKERS
        <3>1. \A n \in Nodes : pc[n] \notin Fresh
            BY <2>2 DEF Reported, Serves, Fresh
        <3> QED  BY <2>1, <3>1, EndpointsCount DEF IInv, Foreseen
    <2>4. \A n \in Nodes : pc[n] # "exit" => WORKER_READY[n] = Workers
        BY <2>2 DEF IInv, Known, ReportIsTrue, Reported
    <2> QED  BY <2>1, <2>3, <2>4 DEF IInv, Known, ReadyIsUp
<1> QED  BY InitIInv, NextIInv, <1>1, PTL DEF Spec

-----------------------------------------------------------------------------
(* VenvSetup: the inductive invariant.                                     *)

\* Who installs holds the lock, alone.  A killed installer leaves the lock to nobody.
Exclusive ==
    /\ \A t \in Tasks : place[t] \in Installing => lock
    /\ \A s, t \in Tasks : place[s] \in Installing /\ place[t] \in Installing => s = t

\* What the ready file and the installer's place in the script say about the environment
Sound ==
    /\ ready => venv = "whole"
    /\ \A t \in Tasks : place[t] \in {"venv", "install", "touch"} => ~ready
    /\ \A t \in Tasks : place[t] \in {"touch", "unlock"} => venv = "whole"
    /\ \A t \in Tasks : place[t] \in {"unlock", "use"} => ready

VenvInv ==
    /\ VenvTypeOK
    /\ Exclusive
    /\ ~late /\ ~short => Sound

LEMMA VenvInitInv == VenvInit => VenvInv
<1> SUFFICES ASSUME VenvInit  PROVE VenvInv
    OBVIOUS
<1>1. faults \in 0..MaxFaults
    BY VenvSetupAssumption DEF VenvInit
<1>2. VenvTypeOK
    BY <1>1 DEF VenvInit, VenvTypeOK
<1>3. Exclusive /\ Sound
    BY DEF VenvInit, Exclusive, Sound, Installing
<1> QED  BY <1>2, <1>3 DEF VenvInv

LEMMA VenvNextType == VenvTypeOK /\ [VenvNext]_venvVars => VenvTypeOK'
<1> SUFFICES ASSUME VenvTypeOK, [VenvNext]_venvVars  PROVE VenvTypeOK'
    OBVIOUS
<1>1. CASE UNCHANGED venvVars
    BY <1>1 DEF VenvTypeOK, venvVars
<1>2. ASSUME NEW t \in Tasks, Step(t)
      PROVE  VenvTypeOK'
    BY <1>2 DEF VenvTypeOK, Step, TestReqs, OpenReqs, WriteReqs, CheckReady, Mkdir, Wait, UvVenv, Install,
                Touch, Rmdir, End, GoOn, Installing, Over
<1>3. ASSUME NEW t \in Tasks, UvFails(t) \/ Kill(t)
      PROVE  VenvTypeOK'
    <2>1. faults' \in 0..MaxFaults
        BY <1>3, VenvSetupAssumption DEF VenvTypeOK, UvFails, Kill
    <2>2. place' = [place EXCEPT ![t] = "failed"] \/ place' = [place EXCEPT ![t] = "killed"]
        BY <1>3 DEF UvFails, Kill, Abort, GoOn
    <2>3. lock' \in BOOLEAN /\ UNCHANGED <<reqs, ready, venv, late, short>>
        BY <1>3 DEF VenvTypeOK, UvFails, Kill, Abort
    <2> QED  BY <2>1, <2>2, <2>3 DEF VenvTypeOK, Over
<1> QED  BY <1>1, <1>2, <1>3 DEF VenvNext

LEMMA NextExclusive == VenvInv /\ [VenvNext]_venvVars => Exclusive'
<1> SUFFICES ASSUME VenvTypeOK, Exclusive, [VenvNext]_venvVars  PROVE Exclusive'
    BY DEF VenvInv
<1> USE DEF VenvTypeOK, Exclusive, Installing
<1>1. CASE UNCHANGED venvVars
    BY <1>1 DEF venvVars
<1>2. ASSUME NEW t \in Tasks, Step(t)
      PROVE  Exclusive'
    <2>1. CASE TestReqs(t) \/ OpenReqs(t) \/ WriteReqs(t) \/ CheckReady(t)
        BY <2>1 DEF TestReqs, OpenReqs, WriteReqs, CheckReady, GoOn
    <2>2. CASE Mkdir(t)
        BY <2>2 DEF Mkdir, GoOn
    <2>3. CASE Wait(t) \/ UvVenv(t) \/ Install(t) \/ Touch(t) \/ End(t)
        BY <2>3 DEF Wait, UvVenv, Install, Touch, End, GoOn
    <2>4. CASE Rmdir(t)
        BY <2>4 DEF Rmdir, GoOn
    <2> QED  BY <1>2, <2>1, <2>2, <2>3, <2>4 DEF Step
<1>3. ASSUME NEW t \in Tasks, UvFails(t)
      PROVE  Exclusive'
    BY <1>3 DEF UvFails, Abort, GoOn
<1>4. ASSUME NEW t \in Tasks, Kill(t)
      PROVE  Exclusive'
    BY <1>4 DEF Kill, GoOn, Over
<1> QED  BY <1>1, <1>2, <1>3, <1>4 DEF VenvNext

LEMMA NextSound == VenvInv /\ [VenvNext]_venvVars => (~late /\ ~short => Sound)'
<1> SUFFICES ASSUME VenvTypeOK, Exclusive, ~late /\ ~short => Sound, [VenvNext]_venvVars, ~late', ~short'
             PROVE  Sound'
    BY DEF VenvInv
\* The histories do not go back.
<1>1. ~late /\ ~short
    BY DEF VenvTypeOK, VenvNext, Step, venvVars, TestReqs, OpenReqs, WriteReqs, CheckReady, Mkdir, Wait, UvVenv,
           Install, Touch, Rmdir, End, UvFails, Kill
<1> Sound
    BY <1>1
<1> USE DEF VenvTypeOK, Sound
<1>2. CASE UNCHANGED venvVars
    BY <1>2 DEF venvVars
<1>3. ASSUME NEW t \in Tasks, Step(t)
      PROVE  Sound'
    <2>1. CASE TestReqs(t) \/ OpenReqs(t) \/ WriteReqs(t) \/ CheckReady(t)
        BY <2>1 DEF TestReqs, OpenReqs, WriteReqs, CheckReady, GoOn
    \* The lock is free, and the environment was not made meanwhile: late would be set.
    <2>2. CASE Mkdir(t)
        BY <2>2 DEF Mkdir, GoOn
    <2>3. CASE Wait(t) \/ End(t)
        BY <2>3 DEF Wait, End, GoOn
    \* Nobody is in the environment, as it is not ready, and nobody else installs.
    <2>4. CASE UvVenv(t)
        BY <2>4 DEF UvVenv, GoOn, Exclusive, Installing
    \* The requirements were whole: short would be set.
    <2>5. CASE Install(t)
        BY <2>5 DEF Install, GoOn
    <2>6. CASE Touch(t)
        BY <2>6 DEF Touch, GoOn, Exclusive, Installing
    <2>7. CASE Rmdir(t)
        BY <2>7 DEF Rmdir, GoOn
    <2> QED  BY <1>3, <2>1, <2>2, <2>3, <2>4, <2>5, <2>6, <2>7 DEF Step
<1>4. ASSUME NEW t \in Tasks, UvFails(t) \/ Kill(t)
      PROVE  Sound'
    BY <1>4 DEF UvFails, Kill, Abort, GoOn, Over
<1> QED  BY <1>2, <1>3, <1>4 DEF VenvNext

LEMMA VenvNextInv == VenvInv /\ [VenvNext]_venvVars => VenvInv'
BY VenvNextType, NextExclusive, NextSound DEF VenvInv

-----------------------------------------------------------------------------
(* VenvSetup: the theorems.                                                *)

(* The state of the environment, the lock and every task is well formed.   *)
THEOREM EnvironmentTyped == VenvSpec => []VenvTypeOK
<1>1. VenvInv => VenvTypeOK
    BY DEF VenvInv
<1> QED  BY VenvInitInv, VenvNextInv, <1>1, PTL DEF VenvSpec

(* At most one task builds the environment at a time, though any of them   *)
(* may fail or be killed: mkdir is the lock.                               *)
THEOREM OneInstaller == VenvSpec => []Exclusive
<1>1. VenvInv => Exclusive
    BY DEF VenvInv
<1> QED  BY VenvInitInv, VenvNextInv, <1>1, PTL DEF VenvSpec

(* A task runs in an environment that has all its packages, unless an      *)
(* installer came late or read a requirements file that was not whole.     *)
THEOREM EnvironmentWhole == VenvSpec => []WholeInUse
<1>1. VenvInv => WholeInUse
    BY DEF VenvInv, Sound, WholeInUse
<1> QED  BY VenvInitInv, VenvNextInv, <1>1, PTL DEF VenvSpec
=============================================================================
