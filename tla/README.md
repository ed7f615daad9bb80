# A TLA+ model of Nemo-Skills

Nemo-Skills generates, executes and evaluates LLM outputs at scale.  Most of its
code is sequential data processing that unit tests reach well.  What is hard to
test is the part that keeps state across requests, jobs and crashes:

* the **sandbox server**, which keeps one IPython process per session and must
  survive cells that hang, crash or fight back;
* the **sandbox client**, which rebuilds a session that the server lost by
  replaying its history;
* the **loops around the model**: code execution, tool calls, and requests that are
  shortened when they do not fit the context window;
* **chunked generation**, in which many cluster jobs share a directory, are
  stopped at any moment, resubmitted, and merge their outputs without a lock;
* the **response cache** of such a job, saved by two threads and loaded by the next job;
* the **evaluation pipeline**, a graph of tasks that generate, judge and summarize;
* the **request batcher** of a model server;
* the **shell scripts** that start the sandbox on several nodes and build the Python
  environment that tasks share, which coordinate through ports, files and directories.

These are modelled, model-checked with TLC, and in part proved with TLAPS.

## 1. Inventory

| Part | State | Operations | Hard behaviour | Correct when |
|---|---|---|---|---|
| Sandbox server sessions (`local_sandbox_server.py`: `ShellManager`, `shell_worker`, `cleanup_expired_sessions`, `execute`, `delete_session`) | `shells` table with a lock, per entry a process, a pipe, a lock, `restart_pending` | execute a cell, delete, expire, restart after timeout or crash | request threads, forked processes, signals, timeouts, several critical sections per request | replies go to their requests; cells of a session do not overlap; the loss of a session's memory is announced; no process is forgotten; every request is answered |
| Sandbox client sessions (`sandbox.py`: `execute_code`, `delete_session`) | `session_histories` | execute with restoration, delete with retries | lost replies, client timeouts, requests left behind in the server's queue, worker crashes | a completed cell ran on the state its caller believes in; the history follows what the caller was told |
| Load balancer (`start-with-nginx.sh`, one per node) | worker processes and their ports, port files on a shared file system, nginx's endpoints | start workers, retry port conflicts, check health, report and collect ports, supervise | other programs on the node, late conflicts, nodes that fail or come late, files of an earlier run, crashes | nginx has one endpoint for each worker, where that worker listens; no script waits forever; workers that die come back |
| Shared environment (`build_requirements_venv_cmd`) | requirements file, lock directory, ready file, environment | write, lock, install, wait, use | tasks on one machine, tested and then written files, killed tasks | a task runs in a whole environment; every task gets one |
| Stateless execution (`execute_python`, `execute_lean4`, `execute_shell`) | none | run a subprocess under a timeout | - | - |
| Generation task (`inference/generate.py`) | output file, `-async` file, cache directory | load chunk, skip completed samples, generate concurrently, restore order | tasks finish in any order; the job is stopped anywhere | no record is lost or repeated; output in order |
| Merging (`merge_chunks.py`) | chunk outputs, `.done` files, merged output | check, concatenate, mark, remove | several jobs merge at once | the merged file is the data file |
| Job submission (`pipeline/generate.py`, `pipeline/utils/generation.py`) | `.done` files | find remaining jobs, chain dependent jobs | resubmission after partial failure | everything missing, and nothing else, is run again |
| Response cache (`litellm_hybrid_cache.py`) | dictionary, dirty flag, pickle file | get, set, background save, force save, shutdown | saver thread, shared temporary file, removal of the directory | a saved entry stays saved |
| Request batcher (`recipes/multimodal/server/unified_server.py`) | pending list, timer task, `processing` | add request, timer, process batch | interleaving at every `await` | every request answered once, in order |
| Tool calling (`tool_call.py`, `tool_manager.py`, `python_tool.py`) | tool list cache, request-to-session table | list tools, execute, clean up | a provider fails; retries | the list can be fetched again; one session per request |
| Model clients (`model/base.py`, `context_retry.py`) | semaphore, token counts | generate, retry with a shorter context | bounded retries | never asks for more than the window |
| Code-execution loop (`model/code_execution.py`) | budget of executions and tokens, session | generate, execute, append | budget ends inside a cell | the session is always deleted |
| Pipelines (`pipeline/utils/exp.py`, `declarative.py`, `eval.py`) | job graph | build, submit | dependencies between experiments | order of jobs |
| Prover, evaluators, metrics, datasets, training, recipes, prompts | files | batch processing | - | unit-testable |

Who talks to whom: a submission (`ns eval`, `ns generate`) makes a graph of cluster
tasks; a generation task runs the code-execution loop or the tool caller for each
sample, which call a model client (through the cache) and the sandbox client; the
client talks HTTP to nginx, which keeps each `X-Session-ID` on one uWSGI worker; the
worker runs `ShellManager`, which talks to shell processes over pipes and signals.  Jobs
of one seed share only the file system.  `PROJECT.json` lists every component with
its status and every hazard at its line.

## 2. Modules

| Module | Models | Composes |
|---|---|---|
| `ShellManager`, `MCShellManager` | the server's session table, its request threads and the shell processes | - |
| `ShellManagerProofs` | theorems | `ShellManager`, TLAPS |
| `SandboxSession`, `MCSandboxSession` | one session of the client, the network, one worker seen from outside | summary of `ShellManager` |
| `SandboxSessionProofs` | theorems | `SandboxSession`, TLAPS |
| `ChunkedGeneration`, `MCChunkedGeneration` | the jobs of one seed and their files | - |
| `ChunkedGenerationProofs` | theorems | `ChunkedGeneration`, TLAPS |
| `BatchService` | what the batcher promises: a first-in first-out service | - |
| `RequestBatcher`, `MCRequestBatcher` | the batcher with its tasks and timer | `Service == INSTANCE BatchService WITH ...` |
| `HybridCache`, `MCHybridCache` | the cache over several jobs on one file, two threads each | - |
| `CacheBatcherProofs` | theorems about the cache and the batcher, among them the refinement | `HybridCache`, `RequestBatcher`, TLAPS |
| `ToolCalling`, `MCToolCalling` | generations that share a tool manager and open sandbox sessions | - |
| `ToolCallingProofs` | theorems | `ToolCalling`, TLAPS |
| `ContextRetry` | one call of a model client with its retries | - |
| `CodeLoop`, `MCCodeLoop` | a generation that runs its code | `EXTENDS ContextRetry`: each turn is one of its calls |
| `CodeLoopProofs` | theorems about one call and about the loop | `CodeLoop`, TLAPS |
| `EvalPipeline`, `MCEvalPipeline` | building and running the task graph of `ns eval` | - |
| `EvalPipelineProofs` | theorems | `EvalPipeline`, TLAPS |
| `SandboxStartup`, `MCSandboxStartup` | the start scripts of a sandbox's nodes, their workers and ports | the cause of `WorkerCrash` in `SandboxSession`, seen from the node |
| `VenvSetup`, `MCVenvSetup` | tasks that set up one environment | - |
| `ShellScriptProofs` | theorems about the two shell scripts | `SandboxStartup`, `VenvSetup`, TLAPS |

Definitions called "Mutant" in a module are variants with a plausible bug.  They are
part of no specification; each shows that a property would notice that bug.

Where a property holds only in some environments, the environment is part of the state:
chosen in the initial state and never changed (`env` in `SandboxSession` and `SandboxStartup`, `mode` in
`ChunkedGeneration`, `conf` in `EvalPipeline`, the settings of `ToolCalling` and
`ContextRetry`), or recorded by a history variable (`halfway`, `raced`, `excused`, `late`, `short`), and
named in the property.  One run then covers all of them.

### ShellManager

A request thread is a program counter and the locals of `run_cell`, `stop_shell` and
`cleanup_expired_sessions`.  One action stands for one critical section of
`manager_lock` or one blocking call, with everything the code does up to the next:

| Code | Actions |
|---|---|
| `execute`, endpoint `delete_session` | `ExecRequest`, `DeleteRequest`, `DeleteCheck` |
| `cleanup_expired_sessions`, `stop_shell` | `Sweep`, `PopShell`, `StopShell`, `PopDone` |
| `run_cell` before the lock | `Lookup`, `CheckPresent`, `TakePending`, `Fork`, `Register`, `Refetch` |
| `run_cell` under the lock | `Acquire`, `Send`, `ReceiveReply`, `ReceiveEOF`, `ReceiveBroken`, `PollTimeout`, `SendSigint`, `GraceTimeout` |
| restart | `Cleanup`, `Unlist`, `Fork`, `Register`, `MarkPending` |
| response | `Return` |
| `shell_worker` | `ChildReceive`, `ChildReply`, `ChildExit` |

`start_shell` is two actions because the fork happens outside `manager_lock`;
`_finish_restart` is three, because the flag is set in a critical section of its own.
The unlocked test in `run_cell` (line 269) is an action of its own as well.  A cell is
abstracted to what it can do to the manager: finish, raise, run forever, rebind
signal handlers (`mask`), or end the process.  Time is abstracted: a poll may time out
whenever no reply is waiting, a session may be found expired at any sweep.  So the
model has more behaviours than the code with its clocks; a property that holds in it
holds for any timeout.  An entry is identified with its process: process, pipe and lock
are created and dropped together.  `home` is a history variable: the process whose memory
the session's client was last told of; and so is `deaf`, the processes that live on although
they were sent SIGTERM, because a cell has made them ignore it.  Nobody follows such a process
any more.  A slot in `Procs` is used again when its process is gone, or deaf, and nothing
refers to it, so that shells may be abandoned any number of times.

The pipe is a Unix socket pair.  `ReceiveEOF` is the end of a shell that had read all it
was sent; a shell that dies with a request unread resets the connection, which
`run_cell` does not catch (`ReceiveBroken`, answered as "Session error").  A dead shell
may also stay silent, and even accept a message, while a process that inherited the
child's end of the pipe lives; then only the timeout finds out (`Reachable`, `Silent`).

### SandboxSession

One session id, the coroutines that use it, the requests in the worker's queue and the
worker.  Every label of `pc` but "idle" is an `await` of a request; between two awaits
the code is one action.  A worker serves one request at a time and in order (uWSGI with
one process), so a request is one action, which takes from `ShellManager` only what the
client can see: `ServeCell`, `ServeKilled` (the shell was replaced, or was found dead),
`ServeBroken`, `ServeDelete`.  Around them the shell may die, the session expire, the
worker crash and be replaced by the monitor of `start-with-nginx.sh`, and a client may
stop waiting while its request stays in the queue.  What a shell remembers is the
sequence of cells that completed in it; effects of a cell that raised half-way are
outside what the client restores, as the NOTE in `execute_code` says.  `believed` is a
history variable: the cells a caller may take to be part of the session's state, given
the answers it has read.

### ChunkedGeneration

The files of one seed (`-async`, output and `.done` of each chunk, merged output and its
`.done`) and, for each chunk, the chain of jobs that `dependent_jobs` makes.  A record is
the index of its sample in the data file.  `StartFilled`, `StartTorn` and
`StartRemaining` are the three outcomes of `skip_completed_samples`; `Generate` is one
task appending its record under `output_lock`; `RestoreOpen`, `RestoreWrite`,
`RestoreUnlink` are `restore_async_order`; `Touch` to `MergeRemove` are the shell command
after it.  `cat` writes at an offset of its own, so that two merges can interfere as two
file descriptions do (`Written`, with `Hole` for bytes nobody wrote).  `Stop` ends a job
at any step and may cut its last line short (`torn`).  Files survive.

### RequestBatcher and BatchService

Handlers, timer and batch tasks share one event loop, so a step is the code between two
awaits that suspend; the asyncio lock is never held across one.  `add_request` appends
and schedules (`Schedule` is the choice between a batch task at once and the timer);
`timeout_handler` is the end of the timer's sleep; `TakeBatch` and `SkipBatch` are
`_process_batch` up to `run_in_executor`; `BackendReturns` and `BackendRaises` are the
rest of it with its `finally` clause (`Release`).  The backend may leave out a result:
then the whole batch is given the exception.  `Cancel` is a handler whose client has gone; its
request stays queued.  `BatchService` knows neither tasks nor timers.  It takes requests
in the order of arrival, at most `limit` at a time and one batch after the other, and
gives every request its own result or an error.

### HybridCache

The dictionary is abstracted to its version, the number of the last change, and a file
to the version in it, or to `None` if it is torn.  `BgWakes` and `MainSaves` are the
critical section at the head of `_save_to_disk`; `Mkdir`, `Open`, `Write` and `Replace`
are its system calls, each of the two threads at its own.  Names and files are distinct
(`files`, `Inodes`): a second `open` of the temporary name truncates the file the
other thread is still writing (`shared`).  `SaveFails` is a failing write, or a name
that is gone; the exception ends the background loop for good, or the job.  `ForceSave`,
`RmtreeList`, `RmtreeUnlink`, `RmtreeRmdir` are `cleanup_litellm_cache`; `Exit`,
`SetStop`, `Join` the exit handler; `Kill` the time limit.  Then the next process starts
from the file.

### ToolCalling

One request is one generation: `Begin` to `TurnEnds` are the code of `generate_async`
and of its streaming twin between two awaits.  The list of tools is fetched under
`_list_lock` (`ListCached`, `ListProviders`); each provider's task ends by `Load` or
`LoadRaises`; `gather` passes on the first exception, and the tasks of a failed listing
go on and write into the map (`loads` outlives its request).  `CallPython`,
`CallReturns` and `CallRaises` are `DirectPythonTool.execute`, with the sandbox's side
in `SandboxServes`; `Cleanup` is the `finally` clause.  When a generation raises, the
event loop cancels the others (`CancelList`, `CancelLoop`, `CancelCleanup`).  Streaming
differs where the code does: a turn of tool calls alone costs no tokens, and errors
are not turned into results.

### ContextRetry and CodeLoop

A prompt is a sequence of token counts.  `Generates`, `BadRequest`, `Fails` and
`Exceeded` are the server's answers, each with all that the client does until its next
request: `_prepare_context_error_retry` is `PrepareRaises` (an exception),
`PrepareRefuses` (it returns `None`) and `Reduced`; `FromEnd`, `FromStart` and `Sliced`
are the three trimming functions, slices with a bound that is not positive included.
`Forms` are the three kinds of error text that the code tells apart.  The tokenizer is
the constant operator `Count`; the assumption on it is what any chat template
satisfies: shortening one message changes the count by that message and a bounded overhead.

`CodeLoop` extends it.  `Ask` starts a call with the loop's prompt and budget, `Call` is
any step of `ContextRetry`, `CallReturns` and `CallRaises` are what the loop does with
the result, `Execute` a code block in the sandbox, `Cleanup` the `finally` clause.  `word` says
whose contribution ends the text that the caller gets.  There the two twins differ: a stream
yields the output of code before the budget test (`code_execution.py:431`, `:436`), the other
one returns what was appended to the prompt after it.

### EvalPipeline

`Submit` is `prepare_eval_commands`: the evaluations whose `.done` file is missing are
spread over jobs: each has a position (`Position` is `cur_eval`), and a job takes those after
the last one of the job before it up to its own (`UpTo` stands for `eval_to_job_map`, `Batches`
for `job_batches`).  `AddMain`, `MainDone`, `SkipJudge`,
`AddStepJudge`, `AddLlmJudge`, `AddSummary` and `AddScore` are the loops of `eval`, one
action per iteration, each adding its tasks with their dependencies; `Run` submits
the experiment.  A judge step is created by a function of the user's, whose task judges the seeds
left or all of them again, or by one of `pipeline/judges` (`packaged`): these do not take all the
arguments that `eval` passes, so that the call raises and the experiment is never run
(`StepJudgeRaises`).  The cluster starts a task when those it depends on are over, whatever
became of them, as the "afterany" dependency of Slurm does; elsewhere than on Slurm a
task waits for every earlier one.  `Evaluate`, `Judge`, `Summarize` and `Score` are the
commands of the tasks, `Fail` a command whose inputs are missing, `Stop` a time limit or
preemption.  A file is the number of the submission its contents go back to, so that
stale results are visible.

### SandboxStartup

One script per node, the first node being the master.  `Begin` removes the node's port
file; `Spawn` is phase 1 and `Retry` one round of phase 2, with `FAILED_WORKERS` (dead, and
"Address already in use" in the log) started again at the next offset; `CheckHealth` is one
answered `/health`; `Report` writes the port file, whose last line makes it count, and
`Collect` is the end of `wait_for_port_reports`; `StartNginx` makes nginx's endpoints out of
the files as they then are, or of the only node's ports; `Timeout` is either timeout, with
`exit 1`; `Monitor` is the monitoring loop finding a dead worker, and `NginxDies` its other
test.  A process that was started binds its port or finds it in use at any later moment
(`Bind`): the script looks for conflicts after one second, and a slow one escapes it.  What
else may happen on a node is `env`: how many ports other programs take and whether those
answer `/health`, how many workers crash, whether a timeout may come early, whether port
files are left of an earlier run of the same Slurm job, whether the network gets blocked.
Ports are counted from the base port.

### VenvSetup

A task's place in the shell command that `build_requirements_venv_cmd` returns, one action
per test or command: `TestReqs`, `OpenReqs` and `WriteReqs` (the shell truncates the
file before `cat` writes it), `CheckReady`, `Mkdir` (the lock), `Wait`, `UvVenv`, `Install`,
`Touch`, `Rmdir`, `End`.  `UvFails` is a `uv` command that fails, with the `rmdir` and `exit 1`
after it; `uv venv` on an environment that is there clears it or fails, depending on the
version of `uv`.  `Kill` ends a task anywhere and leaves its files, the lock directory
included.  Two history variables record what the command does not exclude: an
installer that got the lock after the environment had been made (`late`), and one that read
a requirements file that was not whole (`short`).

## 3. Runs

| Run | Instance | Shows |
|---|---|---|
| `ShellUwsgi` | 1 thread, 2 sessions, 3 processes, expiry, cells that catch SIGINT, or SIGINT and SIGTERM | `OwnReply`, `OneCell`, `NoSilentLoss`, `NoOrphan`, and `Answered` under fairness |
| `Session` | 1 caller; 7 calls in a quiet environment, 5 with lost replies, survived interrupts and vanishing sessions | `Faithful`, `HistoryCovers`, `CallReturns` |
| `Chunk` | 3 chunks, 4 samples, chains of 2 jobs; one at a time with 2 submissions and 3 stopped jobs, or all at once and undisturbed | `InOrder`, `MergeExact`, `DoneIsTrue`, `NothingLost`, `Merged` |
| `Batcher` | 4 requests, batches of 1 to 3, with and without timeout | `Scheduled`, `Implements` (the refinement, with liveness) |
| `Cache` | 3 changes, 3 processes | `Loadable`, `Synced`, `CleanedUp`, `NeverOlder`, `Persisted` |
| `Tools` | 2 generations, 2 providers, 2 names, 2 calls a turn, 2 sessions | `Routed`, `NoLeak`, `Ends` |
| `Generation` | window of 8, special budget 2, four prompts, budgets 3, 7 and none, 0 to 2 executions | `Fits`, `Accounted`, `LastWord`, `Ends` |
| `Eval` | 2 benchmarks with 1 and 2 seeds, 94 choices of judges, grouping and cluster, 2 submissions, 1 stopped task | `ReadsSettled`, `Consistent` |
| `Startup` | 2 nodes of 2 workers, 2 retries, 6 kinds of environment: up to 2 ports taken, a crash, early timeouts, a blocked network, neighbours that answer `/health`, old port files | `Routed`, `Starts`, `Restored` |
| `Venv` | 3 tasks, 3 failures or kills | `WholeInUse`, `SetUp` |
| `SessionLostReply` | 1 caller, 3 calls | finding 1 |
| `ChunkTruncated` | 2 chunks, 3 samples | finding 2 |

The type invariants of `RequestBatcher`, `ContextRetry`, `CodeLoop`, `VenvSetup` and `SandboxStartup` are
proved (section 4) and not repeated in the runs; the other runs have theirs.

Why the bounds are enough to be interesting.  Three process slots let a request hold a
dead shell, restart it and meet the shell that another request has started.  Seven calls let
a session be built, lost, restored, lost again during the replay and used afterwards.
Three chunks of unequal sizes (4 = 2 + 1 + 1) with three stops let a chunk be
interrupted while generating, while restoring and while merging in one behaviour.  Four
requests over batches of up to three let a timer fire while a batch is in flight and a
rest be left behind it.  Three processes let a job be killed in the middle of a save, the
next one load what is there, and a third one what that has made of it.  In `Generation`
a prompt alone exceeds the window, or only with its budget, or only after a turn, and
a message is cut in its middle.  In `Eval` one job holds evaluations of two benchmarks
while one benchmark is spread over two jobs, which is where dependencies could be missed.
In `Startup` a worker meets two conflicts in a row, or two workers one each, so that ports
of all offsets are given out; in `Venv` an installer fails while one task waits, and another
comes late.

Every bound is a constant: `Procs`, `MaxCells`, `calls`, `submits` and `stops` in the
environments and modes, `MaxChanges`, `MaxStarts`, `MaxCalls`, `MaxOutput`,
`MaxSessions`, `Rounds`, `MaxSubmits`, `MaxStops`, `MaxSeeds`, `MaxFaults`, `others` and
`crashes` in the environments, `MAX_STARTUP_RETRIES` (5 in the script, 2 in the run).  The retry limits of the code
(`MaxRetries` and those of `delete_session`) are the code's own.

Deadlock is checked for the server, where some request is always possible, and for
the evaluation pipeline, whose tasks must never wait on each other (`Idle` is its only
way to stop).  The other systems stop when their calls, submissions or requests are used up.

**What is assumed.**
* `NoSilentLoss` and `NoOrphan` are about one request thread, the deployed
  configuration (`processes = 1`); with several threads both fail (section 5).
  `NoOrphan` excepts a shell that ignored the SIGTERM it was sent (`deaf`): nothing kills it,
  and it outlives its session.  `OwnReply` and `OneCell` hold for any number of threads, and
  `Answered` whatever signals the cells ignore.
* `LastWord` excepts a loop that ran out of time, in which something raised, or, streaming, in
  which the output of code used up the budget (section 5).
* `Faithful` and `HistoryCovers` are about one coroutine, as a session id belongs to one
  generation, whose calls are awaited one after the other; two that shared a session would
  run cells in a state neither of them knows.
* `Faithful` is about `Calm` environments:
  replies arrive and no session vanishes between two requests of one restoration.
  Without the first it fails (finding 1); without the second the client cannot
  know, because it does not read `new_session_created` of replies to replayed cells.
* `MergeExact` and `NothingLost` are about jobs that run one at a time; with two, the
  merge can destroy the outputs (section 5).  `DoneIsTrue` excepts jobs stopped while they
  put their records in order (`halfway`, finding 2).
* The properties of the cache that mention `raced` except behaviours in which the main
  thread entered a save while the background one was in its own.
* `NoLeak` excepts sessions whose deletion was given up after its retries, whose call
  raised, or whose name was not known yet when the generation was cancelled (`excused`).
* `Ends` of `ToolCalling` needs a limit on calls, or a budget without streaming: a
  streamed turn of tool calls alone uses up no budget (`tool_call.py:378`).
* `Fits` excepts a string prompt whose budget alone fills the window; `Consistent` excepts
  an LLM judge under `--rerun_done` (section 5) and submissions in which a task failed.
* `Routed` is about what the script foresees (`Foreseen`): nobody but the workers answers
  `/health`, no port file is left of an earlier run, and a node has no more workers than
  `PORT_INCREMENT` (200).  `Restored` excepts a blocked network, as the script announces, and a
  port that another program has taken.
* `WholeInUse` excepts behaviours with a late installer or a requirements file that was not
  whole; `SetUp` is about behaviours in which nothing fails and nobody is killed.

**Fairness.**  Weak fairness is enough everywhere: no actor is disabled for good and
enabled again forever by another.
* `ShellManager`: a thread which holds a request keeps running (`WF_vars(Serve(t))`);
  nothing is assumed of clients or of shells, whose cells may loop forever.
* `SandboxSession`: the worker serves its queue, which is `Answered` of `ShellManager`, and
  the event loop resumes a coroutine whose reply is there.
* `ChunkedGeneration`: a job which may run makes progress; nothing makes a user submit.
* `RequestBatcher`: a sleep ends, a task that is ready runs, and the backend returns or raises.
* `HybridCache`: the background thread keeps waking up, and its system calls return.
* `ToolCalling`: a generation's own steps, and each provider answers or raises.
* `CodeLoop`: server and sandbox answer (`Work`), which leaves out timeouts and exceptions.
* `SandboxStartup`: each script goes on (`Script`), a process that was started binds its port or
  ends, and the monitoring loop comes to each worker; nothing makes a node start.
* `VenvSetup`: a task that is not killed goes on, and `uv` ends.
* `EvalPipeline`: none.

## 4. What is proved

All proofs are for every value of the constants that satisfies the module's assumption.

**`ShellManagerProofs`**, from `ShellManagerAssumption` (the special values are distinct
from threads, sessions and processes, and `Masks` has "default"):

* `TypeCorrect`: `TypeOK` always holds, with `LocalsOK`, which says that a label at which
  a session, an entry or a new process is used is reached only with one.
* `ReplyIsOwn`: `OwnReply` always holds.
* `CellsDoNotOverlap`: `OneCell` always holds.
* `MemoryLossIsTold`: with one thread (`Alone`), `NoSilentLoss` always holds, whatever cells
  do to signals.
* `NoShellOrphaned`: with one thread, `NoOrphan` always holds, whatever cells do to signals.  TLC
  finds both violated with two threads.

`OwnReply` is not inductive: it speaks of the head of one pipe at the moment of a poll.
The invariant that is, `PipeInv`, says of every open pipe that it is empty and its shell
idle (`Quiet`), or that its shell died with one request unread (`Broken`), or that it
holds exactly one request or reply, that of the thread which holds the entry's lock and
has not given up on it (`Followed`).  It needs `LockOK`: from `Acquire` to `Return` a
thread holds the lock of the entry in its locals, and no other.  The argument per action:
`Send` finds a quiet pipe because its thread has just taken the lock and nobody else
follows a request there; a receive empties the pipe; the only ways out of `Following`
without a receive close the pipe (`Cleanup`) or find it broken; `stop_shell`, which takes
no lock, closes the pipe too.  The induction is done in three layers (types, locks,
pipes), each with one step per action.

For one thread, `AloneInv` adds where the entries are and what the client knows.  The entry a
request has found stays its session's until the request itself unlists it, and no process
is in the table twice or both in it and on its way (`Tabled`, `Apart`).  A shell that would
answer without a flag is the one whose memory the client was last told of, or a request for
its session is under way that will tell (`Told`); such a request either has the flag
already, or its shell is the known one, or that shell is dead and has no reply left to give
(`Heard`).  For `NoOrphan`, a live process is in the table, or held by the request that is
about to list or stop it, or deaf (`Rooted`).

**`SandboxSessionProofs`**, from `SandboxSessionAssumption` (the special values are no tasks and no
replies), for any environments and number of calls:

* `TypeCorrect`: `TypeOK` always holds, for any number of coroutines.
* `HistoryIsKept`: with one coroutine (`Alone`), `HistoryCovers` always holds, lost replies,
  vanishing sessions and unconfirmed deletions included.
* `StateIsFaithful`: with one coroutine, `Faithful` always holds.

`HistoryCovers` speaks of a coroutine between two calls.  `Covered` holds all the time: what the
caller believes in is a suffix of the history, and the copy that will be put back is the
history itself.  `Faithful` speaks of the moment a reply is handed on, and needs to know
everything before it.  `Sound` says: at most one request is under way, the one the coroutine
stands at (`Line`); in a calm environment history and belief agree, and a restoration
replays them (`Recorded`); a shell that would not announce itself as new holds what the
caller believes in, and one under restoration the cells replayed so far (`Known`); and an answer
that is there tells what the shell holds now (`Told`), unless the shell has died since.
Both fail with two coroutines on one session, as TLC shows.

**`CacheBatcherProofs`** has the theorems about the batcher and about the cache.  About
`RequestBatcher`, from `RequestBatcherAssumption` (requests are distinct from the
states of a request, sizes are positive, timeouts natural), for any number of requests:

* `BatcherTyped`: `BatcherTypeOK` always holds.
* `NeverForgotten`: `Scheduled` always holds, so no interleaving of arrivals, timers that
  fire in vain and batches leaves requests without a task or timer that will come for them.
* `FirstInFirstOut`: `BatcherSpec => Service!Spec`, the safety half of `Implements`: every step of
  the batcher is a step of `BatchService` or a stutter of it.

`Scheduled` is inductive only with `OneBatch`: the `processing` flag stands for exactly
one batch in the backend.  It makes the batch in the `finally` clause the only one, so
that clearing the flag does not hide another, and it makes the abstract `serving` (the
union of all batches) the batch itself.  `BatchOK` says that a batch taken from the queue
is a non-empty prefix of it, `ShortResults` that a list with one entry missing has another
length, which is why such results never reach a request.

About `HybridCache`, from `HybridCacheAssumption` (the bounds are numbers, `None` is no version),
for any number of changes, processes, failing writes and kills:

* `TypeCorrect`, `AlwaysLoadable`, `NoChangeForgotten`, `StaysRemoved`: `TypeOK`, `Loadable`, `Synced` and
  `CleanedUp` always hold.
* `Monotone`: every step satisfies `NeverOlder`.

All of them rest on one fact about two threads that share a name for their temporary file: in
a process that has not raced, one thread at a time has to do with the files, and it finds
them as it left them (`Turns`).  Then the file that is renamed holds the saver's own copy
(`ReplacePublishes`), the versions on disk, in the copies under way and in memory are in
order (`Ordered`), and a change is marked dirty, in a copy under way, or on disk (`Kept`).  `Clean`
is weaker than the absence of races: a new process starts clean after a raced one.

**`CodeLoopProofs`**, from `ContextRetryAssumption` (what a chat template may add), for any
budgets, windows and tokenizer, first about one call:

* `TypeCorrect`: `TypeOK` always holds; in particular a reduced request has a positive
  budget and a prompt.
* `ReducedRequestFits`: `Fits` always holds.

and then about the loop, whose prompt grows by whatever model and sandbox write, so that the
hypothesis `AnyPrompt` takes every non-empty sequence of token counts to be a prompt (a tokenizer that
adds one token per message and one in all is an instance):

* `LoopTypeCorrect`: `LoopTypeOK` always holds.
* `TokensAccounted`: `Accounted` always holds.
* `EveryTurnFits`: `Fits` always holds in the loop too, when no window is smaller than the reserve for
  special tokens (`Roomy`).  In a smaller one the exception that `Fits` makes for a budget as
  large as the window may cease to apply once part of the budget has been spent.
* `ModelSpeaksLast`: `LastWord` always holds, in the loop and in its streaming twin, for any
  prompts.

The invariant adds `Requested`: until the one reduction, the request that is sent is
the caller's own.  Lemma `Greatest` supplies the longest fitting part that `FromEnd` and
`FromStart` choose (a non-empty set of numbers below a bound has a greatest one);
`TrimmedFromEnd` and `TrimmedFromStart` bound the count of the trimmed prompt, by cases on
whether a part of the next message is kept.
`LoopInv` says of each point of a turn how the loop's budget and the call's are related
(`Turn`, `Called`) and that what was generated and what is left make up the budget asked for
(`Balanced`); a step of the call inside a turn preserves it by the lemmas about one call.

**`ToolCallingProofs`**, from `ToolCallingAssumption` (`None` is no request, provider or number, and
budgets and limits are numbers or `None`), for any number of generations, providers, names and calls:

* `TypeCorrect`: `TypeOK` always holds, which includes that the list lock is held exactly by the
  request that is listing, and that no more calls are executed than the limit allows.
* `ListsRoute`: `Routed` always holds.
* `SessionsCleanedUp`: `NoLeak` always holds.

The limit is tested before a turn's calls, so `Weighed` adds the calls of a turn to those
executed.  `Routed` is about lists that are served; `Listing` follows one that is being made: each
provider has written its name or will, and what a failed listing's tasks still write is the
same.  `NoLeak` needs `Owned`: a call works in the session its request has, or opens the first.

**`ShellScriptProofs`** has the theorems about both shell scripts.  About `VenvSetup`, from
`VenvSetupAssumption` (`MaxFaults` is a number), for any number of tasks, failures and kills:

* `EnvironmentTyped`: `VenvTypeOK` always holds.
* `OneInstaller`: at most one task is building the environment, and the lock directory is
  there while it is.
* `EnvironmentWhole`: `WholeInUse` always holds.

`WholeInUse` speaks only of tasks in the environment.  The invariant `Sound` ties the ready
file to the installer's place: until it touches the file the environment is not ready, so
nobody is in it while it is cleared; after `uv pip install` it is whole, and stays so because
there is no other installer (`Exclusive`).

About `SandboxStartup`, from `SandboxStartupAssumption` (there is at least one node, worker and
port of increment), for any number of nodes, workers, retries, conflicts and crashes:

* `TypeCorrect`: `TypeOK` always holds, in every environment.
* `RoutedRight`: `Routed` always holds.

The first layer of the invariant says where things are: once a node has spawned its workers
each has a port of one of the rounds (`Placed`), and a port that is bound has one holder
(`OneHolder`).  When `NUM_WORKERS <= PORT_INCREMENT` the ports that two workers may be offered
are disjoint (`PortsDiffer`), so whoever answers at a worker's port is that worker
(`OwnAnswer`).  The second layer says what the script knows: a worker that passed the health
check is up unless it has crashed (`ReadyIsUp`), a port file is what its node still uses
(`ReportIsTrue`), and the master goes on when all have reported, so that no node moves its
workers afterwards (`AllCollected`, `Settled`).  That there are as many endpoints as workers
is a bijection (`EndpointsCount`).

**`ChunkedGenerationProofs`**, from `ChunkedGenerationAssumption` (there is a chunk; an unwritten byte is
no sample and no file is not a file), for any numbers of chunks, samples, dependent jobs,
submissions and stopped jobs:

* `TypeCorrect`: `TypeOK` always holds, with jobs one at a time or all at once.
* `OutputsInOrder`: `InOrder` always holds, in either case.
* `DoneTellsTheTruth`: `DoneIsTrue` always holds, in either case, when there are at least as many samples
  as chunks (`Full`): an empty chunk is marked done without an output.
* `MergeIsExact`: `MergeExact` always holds.
* `RecordsAreKept`: every step satisfies `NothingLost`.

`Partition` shows that the chunks divide the data for any numbers, each beginning where the one before
ends, and `Counted` that a file with each sample of a chunk once is as long as the chunk, which is
what `restore_async_order` relies on when it writes as many lines as it has read.  The invariant has
three layers.  `Kept`, `Placed` and `Merging` say what a job may rely on at its place in the
script: a chunk that is done does not generate again, and a merge begins when all are done.
`Complete` adds, until a job is stopped halfway, that an output which nobody writes is whole and
that no -async file has all records of its chunk except while they are put in order; so no job
finds nothing left to do and marks the chunk done without an output.  `Alone`, for jobs one
at a time, follows the merge: every output is there until its turn to be removed, and what has
been written is the concatenation of the outputs so far.  That this grows by one
output with each turn is a fact about the recursive `FlattenSeq` (`FlattenAppend`), proved by induction
in the form that the prover accepts: a non-empty set of numbers has a least one (`Least`).

**`EvalPipelineProofs`**, from `EvalPipelineAssumption` (there is a benchmark and a seed, a command line
has as many jobs as it has evaluations or a positive number), for any benchmarks, seeds, jobs, dependent
jobs, judges, submissions and stopped tasks:

* `PipelineTypes`: `TypeOK` always holds; in particular a task only waits for tasks added before it.
* `ReadsAreSettled`: `ReadsSettled` always holds.
* `NothingIsStale`: `Consistent` always holds.

`ReadsSettled` speaks of a task that runs; whether it holds is decided when the task is added.  `Shape`
says of the experiment, while it is being built and afterwards, that a task which reads what another one
writes (`Needs`) waits for it, itself or along the chain of dependent jobs that ends in a task it
waits for (`Ordered`, `WaitsFor`).  For that, each generation is in the chain of a job, whose last
task is the one in `main` (`MainShape`), and the judges of a benchmark are those its summary waits for
(`JudgeShape`).  `Waited` carries the order over to the run: when a task of a chain has started, all
before it are over, by one step of the chain at a time and no induction.  Together they give
`NeedsOver`: what a task reads is settled from its start on.

`Consistent` speaks of the moment a submission is over.  `Covered` says that its tasks cover the
evaluations, unless a judge step raised (then `clean` is false), and except for outputs that are kept: each remaining evaluation has a position from 1 to `Total`,
`UpTo` of the last job is `Total` (`UpToFacts`, division with its remainder), so the first job
whose `UpTo` reaches the position has it (`BatchesCover`).  `Done` says what the files
hold of a task that has ended; nobody spoils it later, because the task that could is one
whose files it reads, and is over (`NoWriter`).  `OldFiles` covers what an earlier submission left:
without `--rerun_done` a judgement that is there is that of the output that is there, since outputs
are never generated twice.

The first attempt at `Ordered` failed for the LLM judge elsewhere than on Slurm, where the model let
its tasks for several seeds wait only for those added before the call, and `generate`, like every
other caller of `add_task`, makes each wait for all before it (`pipeline/generate.py:654`); the model
now does the same.

Only model-checked: liveness (`Answered`, `CallReturns`, `Merged`, `Persisted`, the `Ends` of
`ToolCalling` and `CodeLoop`, `Starts`, `Restored`, `SetUp`, and the fairness half of `Implements`), which
is outside what the prover supports, as is ENABLED.  Every invariant of a passing run is proved, some of
them under the hypotheses named above, and so are the action properties `NeverOlder` and `NothingLost`.

## 5. Disagreements with the documentation

Each has a run, and the lines and the sentences they contradict are in `PROJECT.json`.

1. `SessionLostReply`: a request abandoned by its client creates the session anew and
   spends `new_session_created`; the next cell completes without the earlier state.
2. `ChunkTruncated`: a job stopped between its last record and `restore_async_order` makes the
   next one mark the chunk done with no output; one stopped while writing the output
   leaves a prefix that later jobs take for the whole.

Other things noticed while modelling, which the models have but no run is spent on:

* Two jobs of a seed that finish together both see all `.done` files and both merge, without a
  lock (`merge_chunks.py:58`): the second truncates the merged file while, or after, the first
  removes the chunks, although `docs/pipelines/generation.md:319` says that the file is merged
  back "when all jobs are finished".
* `--rerun_done` is not passed on to the LLM judge (`pipeline/eval.py:94`), so new outputs are scored
  by old judgements; its help (`:257`) says that it "will re-run jobs even if a corresponding
  '.done' file already exists", and a judge step does receive it (`:520`).
* `build_requirements_venv_cmd`: an installer that fails, or is killed with the lock held, leaves
  the tasks that wait for the ready file waiting forever (`pipeline/utils/generation.py:145`), and
  after a kill all later ones.  A task that tested the ready file before another one
  touched it, and the lock after it was given back, builds the environment again while tasks
  run in it, or fails (`:137`).  A requirements file that is still being written, or whose
  writer was killed, is installed as it is (`:128`).
* `start-with-nginx.sh`: with more than `PORT_INCREMENT` workers a retry can reach the port of
  another worker of the node, and a health check then takes one for the other.  A conflict that
  shows later than the second the script waits, at a port where another sandbox answers
  `/health`, is not noticed, and nginx sends sessions there, although the header (line 21)
  says that a port in use is retried.  A port file left by an earlier run of the same Slurm job
  counts as a report.
* With several request threads, `_finish_restart` publishes the new shell before it marks it
  `restart_pending` (`local_sandbox_server.py:224`): a request of another thread in
  between runs in it unannounced.  Two threads that create one session at once leave
  a process behind.
* When the deletion after a failed replay is not confirmed, the caller is told that the
  history has been cleared, and it is not (`sandbox.py:377`).
* Preparing a reduced request can raise even under soft fail (`context_retry.py:265`,
  `:282`, `:342`, `:348`), although `docs/pipelines/generation.md:350` says that errors are
  returned; `_trim_string_prompt` with a bound that is not positive slices from the
  wrong end (`:375`); `_trim_messages_from_start` returns nothing when all messages fit.
* Two savers of one cache share the name of the temporary file (`litellm_hybrid_cache.py:78`)
  and can put a torn file in place; and the saver can recreate the directory that the job's
  cleanup is removing (`generate.py:950`).
* `code_execution.py`: the error of a soft-failed call is dropped (`:220`), streaming with soft
  fail or a budget of `None` raises (`:377`, `:168`), and output of the sandbox that is not
  shown is counted as generated (`:201`).
* In a stream the output of code is yielded before its tokens are taken off the budget
  (`code_execution.py:431`, `:436`): when it uses up the rest, the loop ends and the output has
  the last word, although the comment at `:136` promises "always some completion after the last
  requested code block".
* `python_tool.py:241` forgets a session when `execute_code` raises.
* `pipeline/eval.py:497`: a judge step that one benchmark sets stays set for those after it, in
  place of their LLM judge.
* `pipeline/eval.py:515` passes `account` and `judge_container`, which neither creator in
  `pipeline/judges` accepts (`comet_judge.py:26`, `nvembed_judge.py:26`): the command that
  `docs/evaluation/multilingual.md:372` gives for COMET raises a `TypeError`, and so does the
  benchmark `mmau-pro.closed_form`, before anything is run.

## 6. Not modelled, and why

Most of the repository's lines are data and one-shot scripts: few-shot examples, dataset
preparation, recipes, training conversion, metrics.  They keep no state from step to step
and nothing runs beside them, so a model would repeat them line by line; that is why the
models stand for a small share of all lines, and for most of the lines that keep
state.  Further:

* Stateless execution (`execute_python`, `execute_lean4`, `execute_shell`), prompts, provers,
  parallel thinking: no state between steps, or a subclass that replaces what is generated.
* nginx, uWSGI, uv, Slurm and nemo_run are external; only what the code relies on is modelled
  (session affinity, one process per worker, dependencies that are over however they end).
* In the client of the sandbox: the ssh tunnel, and errors of `delete_session` that are not
  httpx errors.
* In generation: several seeds (they share no file), `rerun_done`, `skip_filled=False`,
  evaluation inside the job, the post-merge command, and empty chunks, which write no
  output and so block the merge.
* Model clients: how each server's requests are built and its responses parsed, and the
  texts by which errors are recognised.
* Tools: MCP transports (an external library) and `PythonTool` behind them, which has no
  `cleanup_request`; the shutdown of tools.
* Pipelines: dependencies on other experiments (`run_after`), heterogeneous jobs, containers,
  reuse of packaged code, and pipelines other than `eval` and `generate`.

## 7. Plan

1. An abstract session service, what the server promises to one client: refined by
   `ShellManager` with one thread, and the worker that `SandboxSession` assumes.
2. Several callers of one session; the post-merge command and empty chunks.
