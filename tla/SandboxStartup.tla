--------------------------- MODULE SandboxStartup ---------------------------
(***************************************************************************)
(* The start of a sandbox on one or several nodes, and the supervision of  *)
(* its workers: dockerfiles/sandbox/start-with-nginx.sh, one script per    *)
(* node.  The first node is the master: it collects the ports of all       *)
(* workers from files on a shared file system, and its nginx routes the    *)
(* sessions to them.                                                       *)
(*                                                                         *)
(* uWSGI, nginx and the other programs on a node are external: a process   *)
(* binds its port or finds it in use and ends, and whoever holds a port    *)
(* may answer /health.                                                     *)
(***************************************************************************)
EXTENDS Naturals, FiniteSets

CONSTANTS
    NODE_COUNT, NUM_WORKERS,
    PORT_INCREMENT, MAX_STARTUP_RETRIES,
    Environments,   \* what the nodes are like; see Environment
    NoFile, NoPort

Nodes   == 1..NODE_COUNT
Workers == 1..NUM_WORKERS
Master  == 1

\* Ports are counted from SANDBOX_WORKER_BASE_PORT.
Port(i, offset) == i + offset
MaxPort == NUM_WORKERS + MAX_STARTUP_RETRIES * PORT_INCREMENT
Ports   == 1..MaxPort

\* others: bound on ports that other programs take; alike: those answer /health, being
\* sandboxes too; crashes: bound on workers that crash; hasty: timeouts come before their
\* time; stale: a port file is left of a run before, with the same SLURM_JOB_ID;
\* block: NEMO_SKILLS_SANDBOX_BLOCK_NETWORK.
Environment ==
    [others : Nat, alike : BOOLEAN, crashes : Nat, hasty : BOOLEAN, stale : BOOLEAN, block : BOOLEAN]

ASSUME SandboxStartupAssumption ==
    /\ {NODE_COUNT, NUM_WORKERS, PORT_INCREMENT} \subseteq Nat \ {0}
    /\ MAX_STARTUP_RETRIES \in Nat
    /\ Environments \subseteq Environment
    /\ NoPort \notin Ports

VARIABLES
    env,
    foreign,        \* per node: ports held by other programs
    proc,           \* per worker: its process
    ACTUAL_WORKER_PORTS,
    pc,             \* per node: where its script is
    retry_round,
    WORKER_READY,   \* per node: workers that passed the health check
    file,           \* per node: its port file, a port for each worker
    upstream,       \* the endpoints in the master's nginx.conf
    crashed         \* history: workers that have crashed

vars == <<env, foreign, proc, ACTUAL_WORKER_PORTS, pc, retry_round, WORKER_READY, file, upstream, crashed>>

TypeOK ==
    /\ env \in Environments
    /\ foreign \in [Nodes -> SUBSET Ports]
    /\ proc \in [Nodes -> [Workers -> {"none", "starting", "up", "conflict", "dead"}]]
    /\ ACTUAL_WORKER_PORTS \in [Nodes -> [Workers -> Ports \cup {NoPort}]]
    /\ pc \in [Nodes -> {"off", "spawn", "retry", "health", "report", "collect", "nginx", "serve", "exit"}]
    /\ retry_round \in [Nodes -> 0..MAX_STARTUP_RETRIES]
    /\ WORKER_READY \in [Nodes -> SUBSET Workers]
    /\ file \in [Nodes -> [Workers -> Ports] \cup {NoFile}]
    /\ upstream \subseteq Nodes \X Ports
    /\ crashed \subseteq Nodes \X Workers

\* What a run before reported: the same ports, if it met the same conflicts, or others.
OldFiles == {[i \in Workers |-> Port(i, r * PORT_INCREMENT)] : r \in {0, MAX_STARTUP_RETRIES}}

Init ==
    /\ env \in Environments
    /\ foreign = [n \in Nodes |-> {}]
    /\ proc = [n \in Nodes |-> [i \in Workers |-> "none"]]
    /\ ACTUAL_WORKER_PORTS = [n \in Nodes |-> [i \in Workers |-> NoPort]]
    /\ pc = [n \in Nodes |-> "off"]
    /\ retry_round = [n \in Nodes |-> 0]
    /\ WORKER_READY = [n \in Nodes |-> {}]
    /\ file \in [Nodes -> IF env.stale THEN OldFiles ELSE {NoFile}]
    /\ upstream = {}
    /\ crashed = {}

Goto(n, label) == pc' = [pc EXCEPT ![n] = label]

(***************************************************************************)
(* External: worker processes and other programs.                          *)
(***************************************************************************)

\* The processes of a node that hold port p
Holders(n, p) == {i \in Workers : proc[n][i] = "up" /\ ACTUAL_WORKER_PORTS[n][i] = p}

InUse(n, p) == p \in foreign[n] \/ Holders(n, p) # {}

\* A process started with the network blocked cannot have a socket.
Blocked(n) == env.block /\ pc[n] = "serve"

Bind(n, i) ==
    /\ proc[n][i] = "starting"
    /\ proc' = [proc EXCEPT ![n][i] =
            IF Blocked(n) THEN "dead"
            ELSE IF InUse(n, ACTUAL_WORKER_PORTS[n][i]) THEN "conflict" ELSE "up"]
    /\ UNCHANGED <<env, foreign, ACTUAL_WORKER_PORTS, pc, retry_round, WORKER_READY, file, upstream, crashed>>

Crash(n, i) ==
    /\ proc[n][i] = "up" /\ Cardinality(crashed) < env.crashes
    /\ proc' = [proc EXCEPT ![n][i] = "dead"]
    /\ crashed' = crashed \cup {<<n, i>>}
    /\ UNCHANGED <<env, foreign, ACTUAL_WORKER_PORTS, pc, retry_round, WORKER_READY, file, upstream>>

OtherBinds(n, p) ==
    /\ ~InUse(n, p)
    /\ Cardinality(UNION {{m} \X foreign[m] : m \in Nodes}) < env.others
    /\ foreign' = [foreign EXCEPT ![n] = @ \cup {p}]
    /\ UNCHANGED <<env, proc, ACTUAL_WORKER_PORTS, pc, retry_round, WORKER_READY, file, upstream, crashed>>

(***************************************************************************)
(* The script.                                                             *)
(***************************************************************************)

Begin(n) ==
    /\ pc[n] = "off"
    /\ file' = [file EXCEPT ![n] = NoFile]
    /\ Goto(n, "spawn")
    /\ UNCHANGED <<env, foreign, proc, ACTUAL_WORKER_PORTS, retry_round, WORKER_READY, upstream, crashed>>

\* start_worker_fast for a set of workers of a node; the log of each starts empty.
StartWorkers(n, set, offset) ==
    /\ proc' = [proc EXCEPT ![n] = [i \in Workers |-> IF i \in set THEN "starting" ELSE @[i]]]
    /\ ACTUAL_WORKER_PORTS' = [ACTUAL_WORKER_PORTS EXCEPT ![n] =
            [i \in Workers |-> IF i \in set THEN Port(i, offset) ELSE @[i]]]

\* Phase 1
Spawn(n) ==
    /\ pc[n] = "spawn"
    /\ StartWorkers(n, Workers, 0)
    /\ Goto(n, "retry")
    /\ UNCHANGED <<env, foreign, retry_round, WORKER_READY, file, upstream, crashed>>

\* Dead, with "Address already in use" in its log
FAILED_WORKERS(n) == {i \in Workers : proc[n][i] = "conflict"}

\* Phase 2, a second later: workers that are starting count as started.
Retry(n) ==
    /\ pc[n] = "retry"
    /\ IF retry_round[n] < MAX_STARTUP_RETRIES /\ FAILED_WORKERS(n) # {}
       THEN /\ retry_round' = [retry_round EXCEPT ![n] = @ + 1]
            /\ StartWorkers(n, FAILED_WORKERS(n), retry_round'[n] * PORT_INCREMENT)
            /\ UNCHANGED pc
       ELSE /\ Goto(n, "health")
            /\ UNCHANGED <<retry_round, proc, ACTUAL_WORKER_PORTS>>
    /\ UNCHANGED <<env, foreign, WORKER_READY, file, upstream, crashed>>

\* Somebody answers /health at the port.
Healthy(n, p) == Holders(n, p) # {} \/ (env.alike /\ p \in foreign[n])

CheckHealth(n, i) ==
    /\ pc[n] = "health" /\ i \notin WORKER_READY[n]
    /\ Healthy(n, ACTUAL_WORKER_PORTS[n][i])
    /\ WORKER_READY' = [WORKER_READY EXCEPT ![n] = @ \cup {i}]
    /\ UNCHANGED <<env, foreign, proc, ACTUAL_WORKER_PORTS, pc, retry_round, file, upstream, crashed>>

AllReady(n) ==
    /\ pc[n] = "health" /\ WORKER_READY[n] = Workers
    /\ Goto(n, IF NODE_COUNT > 1 THEN "report" ELSE "nginx")
    /\ UNCHANGED <<env, foreign, proc, ACTUAL_WORKER_PORTS, retry_round, WORKER_READY, file, upstream, crashed>>

\* The port file counts once its last line, PORT_REPORT_COMPLETE, is there.
Report(n) ==
    /\ pc[n] = "report"
    /\ file' = [file EXCEPT ![n] = ACTUAL_WORKER_PORTS[n]]
    /\ Goto(n, IF n = Master THEN "collect" ELSE "serve")
    /\ UNCHANGED <<env, foreign, proc, ACTUAL_WORKER_PORTS, retry_round, WORKER_READY, upstream, crashed>>

\* wait_for_port_reports
Collect ==
    /\ pc[Master] = "collect"
    /\ \A n \in Nodes : file[n] # NoFile
    /\ Goto(Master, "nginx")
    /\ UNCHANGED <<env, foreign, proc, ACTUAL_WORKER_PORTS, retry_round, WORKER_READY, file, upstream, crashed>>

\* Mutant: a port is looked up where the worker was first started.
StartNginxFirstPorts ==
    /\ pc[Master] = "nginx"
    /\ upstream' = {<<n, Port(i, 0)>> : n \in Nodes, i \in Workers}
    /\ Goto(Master, "serve")
    /\ UNCHANGED <<env, foreign, proc, ACTUAL_WORKER_PORTS, retry_round, WORKER_READY, file, crashed>>

\* nginx.conf is made from the files as they are now, or from the only node's ports; nginx
\* starts with it, whether or not verify_remote_workers has reached all of them.
StartNginx ==
    /\ pc[Master] = "nginx"
    /\ upstream' =
        IF NODE_COUNT = 1
        THEN {<<Master, ACTUAL_WORKER_PORTS[Master][i]>> : i \in Workers}
        ELSE UNION {{<<n, file[n][i]>> : i \in Workers} : n \in {m \in Nodes : file[m] # NoFile}}
    /\ Goto(Master, "serve")
    /\ UNCHANGED <<env, foreign, proc, ACTUAL_WORKER_PORTS, retry_round, WORKER_READY, file, crashed>>

\* exit 1, and the container's processes with it
Exit(n) ==
    /\ Goto(n, "exit")
    /\ proc' = [proc EXCEPT ![n] = [i \in Workers |-> "none"]]
    /\ UNCHANGED <<env, foreign, ACTUAL_WORKER_PORTS, retry_round, WORKER_READY, file, upstream, crashed>>

\* Mutant: reports are waited for without a timeout.
HopelessLocal(n) ==
    pc[n] = "health" /\ \E i \in Workers \ WORKER_READY[n] :
        proc[n][i] # "starting" /\ ~Healthy(n, ACTUAL_WORKER_PORTS[n][i])

\* A worker that will never be ready, or a node that will not report, unless the timeout is
\* shorter than what is waited for.
Hopeless(n) ==
    \/ pc[n] = "health" /\ \E i \in Workers \ WORKER_READY[n] :
        proc[n][i] # "starting" /\ ~Healthy(n, ACTUAL_WORKER_PORTS[n][i])
    \/ n = Master /\ pc[n] = "collect" /\ \E m \in Nodes : file[m] = NoFile /\ pc[m] \in {"off", "exit"}

Timeout(n) ==
    /\ Hopeless(n) \/ (env.hasty /\ pc[n] \in {"health", "collect"})
    /\ Exit(n)

\* Mutant: only the master looks after its workers.
MonitorMaster(n, i) ==
    /\ n = Master /\ pc[n] = "serve" /\ proc[n][i] \in {"dead", "conflict"}
    /\ proc' = [proc EXCEPT ![n][i] = "starting"]
    /\ UNCHANGED <<env, foreign, ACTUAL_WORKER_PORTS, pc, retry_round, WORKER_READY, file, upstream, crashed>>

\* The monitoring loop: a worker that has died is started again, at the port it had.
Monitor(n, i) ==
    /\ pc[n] = "serve" /\ proc[n][i] \in {"dead", "conflict"}
    /\ proc' = [proc EXCEPT ![n][i] = "starting"]
    /\ UNCHANGED <<env, foreign, ACTUAL_WORKER_PORTS, pc, retry_round, WORKER_READY, file, upstream, crashed>>

\* nginx does not start, or "Nginx died unexpectedly".
NginxDies(n) ==
    /\ pc[n] \in {"nginx", "serve"} /\ env.crashes > 0
    /\ Exit(n)

Script(n) ==
    \/ Spawn(n) \/ Retry(n)
    \/ \E i \in Workers : CheckHealth(n, i)
    \/ AllReady(n) \/ Report(n)
    \/ n = Master /\ (Collect \/ StartNginx)
    \/ Timeout(n)

Next ==
    \/ \E n \in Nodes :
        \/ Begin(n) \/ Script(n) \/ NginxDies(n)
        \/ \E i \in Workers : Bind(n, i) \/ Crash(n, i) \/ Monitor(n, i)
        \/ \E p \in Ports : OtherBinds(n, p)

Spec == Init /\ [][Next]_vars

\* Scripts run, each check and each loop in its turn, and a process that starts binds its
\* port or ends; nothing makes a node start.
FairSpec ==
    /\ Spec
    /\ \A n \in Nodes :
        /\ WF_vars(Script(n))
        /\ \A i \in Workers : WF_vars(Bind(n, i)) /\ WF_vars(Monitor(n, i))

(***************************************************************************)
(* Properties.                                                             *)
(***************************************************************************)

\* Nobody but the workers answers /health, no file is left of a run before, and no retry
\* reaches the port of another worker.
Foreseen == ~env.alike /\ ~env.stale /\ NUM_WORKERS <= PORT_INCREMENT

Serving == pc[Master] = "serve"

(* nginx has one endpoint for each worker, the one where it listens,       *)
(* whatever conflicts and retries went before; and so it stays: a worker   *)
(* that crashes comes back to its port, or not at all.                     *)
Routed ==
    Foreseen /\ Serving =>
        /\ upstream = {<<n, ACTUAL_WORKER_PORTS[n][i]>> : n \in Nodes, i \in Workers}
        /\ Cardinality(upstream) = NODE_COUNT * NUM_WORKERS
        /\ \A n \in Nodes : \A i \in Workers :
            pc[n] # "exit" /\ <<n, i>> \notin crashed => proc[n][i] = "up"

(* No script waits forever, whatever becomes of workers and other nodes:   *)
(* it serves or gives up.  All of them serve when they start, no port is   *)
(* taken and no worker crashes.                                            *)
Starts ==
    /\ \A n \in Nodes : pc[n] = "spawn" ~> pc[n] \in {"serve", "exit"}
    /\ (\A n \in Nodes : pc[n] # "off") /\ env.others = 0 /\ env.crashes = 0 /\ ~env.hasty ~>
            \A n \in Nodes : pc[n] = "serve"

(* A worker that has crashed is up again, at its port, unless the network  *)
(* is blocked or another program has taken the port meanwhile.             *)
Restored ==
    \A n \in Nodes : \A i \in Workers :
        pc[n] = "serve" /\ proc[n][i] = "dead" /\ ~env.block ~>
            \/ proc[n][i] = "up" \/ pc[n] = "exit"
            \/ ACTUAL_WORKER_PORTS[n][i] \in foreign[n]
=============================================================================
