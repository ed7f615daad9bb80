---------------------------- MODULE EvalPipeline ----------------------------
(***************************************************************************)
(* `ns eval`: a submission groups the evaluations of its benchmarks into   *)
(* jobs, and adds to one experiment the jobs that generate, judge,         *)
(* summarize and score, each with the tasks it depends on                  *)
(* (nemo_skills/pipeline/eval.py, utils/eval.py, utils/exp.py, and         *)
(* pipeline/generate.py with utils/declarative.py for the LLM judge).  The *)
(* cluster then runs the tasks; the user may submit again.                 *)
(*                                                                         *)
(* A file is identified with the number of the submission that generated   *)
(* what it is made from, 0 for no file.  One evaluation is one seed of a   *)
(* benchmark; what happens inside it is ChunkedGeneration.                 *)
(***************************************************************************)
EXTENDS Integers, Sequences, FiniteSets, SequencesExt

CONSTANTS
    NumBenchmarks,
    MaxSeeds,       \* bound: seeds of a benchmark (num_samples)
    Configs,        \* command lines to consider; see Config
    MaxSubmits,     \* bound: times the user submits the command
    MaxStops,       \* bound: tasks that are stopped before their end
    NoFile

Benchmarks == 1..NumBenchmarks
Seeds      == 1..MaxSeeds

\* seeds, judge and grouped describe the benchmarks; step: --judge_step_fn is given;
\* rerun: --rerun_done, with ++skip_filled=False; packaged: the judge steps are those of
\* pipeline/judges, and not functions of the user's.
Config ==
    [seeds : [Benchmarks -> Seeds], judge : [Benchmarks -> {"none", "llm", "step"}],
     grouped : SUBSET Benchmarks, step : BOOLEAN, num_jobs : Int, dependent : Nat,
     slurm : BOOLEAN, rerun : BOOLEAN, packaged : BOOLEAN]

ASSUME EvalPipelineAssumption ==
    /\ {NumBenchmarks, MaxSeeds} \subseteq Nat \ {0}
    /\ {MaxSubmits, MaxStops} \subseteq Nat
    /\ Configs \subseteq Config
    /\ \A c \in Configs : c.num_jobs = -1 \/ c.num_jobs > 0

VARIABLES
    conf,
    \* files
    out,            \* generated and evaluated output of a seed
    judged,         \* judged output of a seed
    metrics,        \* metrics.json of a benchmark: the outputs it was computed from
    score,          \* metrics.json of the group: the metrics it was computed from
    \* eval, while it builds the experiment
    pc, at,         \* what is added next, and for which job or benchmark
    jobs,           \* job_batches: the evaluations of each job
    main,           \* job_id_to_tasks: the last task of each job's chain
    judges,         \* benchmark_to_judge_tasks
    step,           \* judge_step_fn
    tasks,          \* the experiment
    \* the cluster
    state,          \* of each task
    todo,           \* evaluations a running task has still to do
    clean,          \* nothing of this submission has failed
    \* bounds
    submits, stops

files   == <<out, judged, metrics, score>>
builder == <<pc, at, jobs, main, judges, step, tasks>>
cluster == <<state, todo, clean>>
vars    == <<conf, files, builder, cluster, submits, stops>>

Evals    == Benchmarks \X Seeds
Versions == 0..MaxSubmits
Kinds    == {"main", "judge", "summarize", "score"}

\* A task reads what is named by its kind, for the evaluations in its command.
Tasks == [kind : Kinds, evals : SUBSET Evals, after : SUBSET Nat]

TypeOK ==
    /\ conf \in Configs
    /\ out \in [Evals -> Versions]
    /\ judged \in [Evals -> Versions]
    /\ metrics \in [Benchmarks -> [Seeds -> Versions] \cup {NoFile}]
    /\ score \in [Benchmarks -> [Seeds -> Versions] \cup {NoFile}]
    /\ pc \in {"idle", "run"} \cup Kinds
    /\ at \in IF pc = "main" THEN 1..(Len(jobs) + 1) ELSE Benchmarks
    /\ jobs \in Seq(SUBSET Evals)
    /\ main \in Seq(DOMAIN tasks)
    /\ judges \in [Benchmarks -> SUBSET DOMAIN tasks]
    /\ step \in BOOLEAN
    /\ tasks \in Seq(Tasks)
    /\ \A i \in DOMAIN tasks : tasks[i].after \subseteq 1..(i - 1)     \* no cycle
    /\ state \in Seq({"added", "running", "ended", "failed"})
    /\ DOMAIN state \in {{}, DOMAIN tasks}                              \* after Run
    /\ todo \in [DOMAIN state -> SUBSET Evals]
    /\ clean \in BOOLEAN
    /\ submits \in 0..MaxSubmits
    /\ stops \in 0..MaxStops

Init ==
    /\ conf \in Configs
    /\ out = [x \in Evals |-> 0]
    /\ judged = [x \in Evals |-> 0]
    /\ metrics = [b \in Benchmarks |-> NoFile]
    /\ score = [b \in Benchmarks |-> NoFile]
    /\ pc = "idle" /\ at = 1 /\ jobs = <<>> /\ main = <<>>
    /\ judges = [b \in Benchmarks |-> {}]
    /\ step = conf.step
    /\ tasks = <<>> /\ state = <<>> /\ todo = <<>> /\ clean = TRUE
    /\ submits = 0 /\ stops = 0

-----------------------------------------------------------------------------
(* prepare_eval_commands: which evaluations go into which job.             *)

Of(b)        == {<<b, e>> : e \in 1..conf.seeds[b]}
NeedsJudge(b) == conf.step \/ conf.judge[b] # "none"

\* get_remaining_jobs, on the .done files of the outputs
Remaining == {x \in UNION {Of(b) : b \in Benchmarks} : conf.rerun \/ out[x] = 0}

Total   == Cardinality(Remaining)
NumJobs == IF conf.num_jobs < 0 THEN Total ELSE conf.num_jobs

\* cur_eval + 1: benchmark by benchmark, and seed by seed
Position(x) == Cardinality({y \in Remaining : y[1] < x[1] \/ (y[1] = x[1] /\ y[2] <= x[2])})

Lesser(m, n) == IF m < n THEN m ELSE n

\* Mutant: the remainder is left out.
UpToEven(i) == i * (Total \div NumJobs)

\* eval_to_job_map: the last position in one of the first i jobs.  The first
\* Total % NumJobs jobs have one evaluation more.
UpTo(i) == i * (Total \div NumJobs) + Lesser(i, Total % NumJobs)

\* More jobs than evaluations: the last jobs have none, and make no batch.
Batches ==
    [i \in 1..Lesser(NumJobs, Total) |->
        {x \in Remaining : UpTo(i - 1) < Position(x) /\ Position(x) <= UpTo(i)}]

\* benchmark_args.job_ids
JobIds(b) == {i \in DOMAIN jobs : jobs[i] \cap Of(b) # {}}

-----------------------------------------------------------------------------
(* eval: the experiment is built task by task.                             *)

\* The user submits when nothing of the last submission runs any more.
Submit ==
    /\ pc = "idle" /\ submits < MaxSubmits
    /\ submits' = submits + 1
    /\ jobs' = Batches
    /\ tasks' = <<>> /\ state' = <<>> /\ todo' = <<>> /\ clean' = TRUE
    /\ main' = <<>> /\ judges' = [b \in Benchmarks |-> {}]
    /\ step' = conf.step
    /\ pc' = "main" /\ at' = 1
    /\ UNCHANGED <<conf, files, stops>>

All == DOMAIN tasks

\* add_task, n times.  On Slurm the task waits for what it needs, elsewhere for all before it.
Add(kind, evals, needs) ==
    LET waits == IF conf.slurm THEN needs ELSE All IN
    tasks' = Append(tasks, [kind |-> kind, evals |-> evals, after |-> waits])

\* The loop over jobs or benchmarks goes on, or the next one starts.
Turn(last, next) ==
    IF at = last THEN pc' = next /\ at' = 1 ELSE pc' = pc /\ at' = at + 1

\* Mutant: off by one.
ChainOfSelf(evals) ==
    [k \in 1..(conf.dependent + 1) |->
        [kind |-> "main", evals |-> evals,
         after |-> IF ~conf.slurm THEN 1..(Len(tasks) + k - 1)
                   ELSE IF k = 1 THEN {} ELSE {Len(tasks) + k}]]

\* The chain of dependent_jobs + 1 tasks of a job
ChainOf(evals) ==
    [k \in 1..(conf.dependent + 1) |->
        [kind |-> "main", evals |-> evals,
         after |-> IF ~conf.slurm THEN 1..(Len(tasks) + k - 1)
                   ELSE IF k = 1 THEN {} ELSE {Len(tasks) + k - 1}]]

\* Mutant: judges and summaries wait for the first task of a chain.
AddMainFirst ==
    /\ pc = "main" /\ at <= Len(jobs)
    /\ tasks' = tasks \o ChainOf(jobs[at])
    /\ main' = Append(main, Len(tasks) + 1)
    /\ pc' = pc /\ at' = at + 1
    /\ UNCHANGED <<conf, files, jobs, judges, step, cluster, submits, stops>>
AddMain ==
    /\ pc = "main" /\ at <= Len(jobs)
    /\ tasks' = tasks \o ChainOf(jobs[at])
    /\ main' = Append(main, Len(tasks'))
    /\ pc' = pc /\ at' = at + 1
    /\ UNCHANGED <<conf, files, jobs, judges, step, cluster, submits, stops>>

MainDone ==
    /\ pc = "main" /\ at > Len(jobs)
    /\ pc' = "judge" /\ at' = 1
    /\ UNCHANGED <<conf, files, jobs, main, judges, step, tasks, cluster, submits, stops>>

MainOf(b) == {main[i] : i \in JobIds(b)}

\* A benchmark that needs no judge is passed over.
SkipJudge ==
    /\ pc = "judge" /\ ~NeedsJudge(at)
    /\ Turn(NumBenchmarks, "summarize")
    /\ UNCHANGED <<conf, files, jobs, main, judges, step, tasks, cluster, submits, stops>>

\* judge_pipeline_args.pop("judge_step_fn", judge_step_fn): what one benchmark sets stays
\* set for those after it.
StepOf(b) == step \/ conf.judge[b] = "step"

\* The judge step: one task, if a judged output is missing.  It judges the seeds that lack
\* one (as nvembed does), or all of them again (as comet does).
AddStepJudge ==
    /\ pc = "judge" /\ NeedsJudge(at) /\ StepOf(at) /\ ~conf.packaged
    /\ step' = TRUE
    /\ LET left == {x \in Of(at) : conf.rerun \/ judged[x] = 0} IN
          IF left = {} THEN UNCHANGED <<tasks, judges>>
          ELSE /\ \E evals \in {left, Of(at)} : Add("judge", evals, MainOf(at))
               /\ judges' = [judges EXCEPT ![at] = {Len(tasks')}]
    /\ Turn(NumBenchmarks, "summarize")
    /\ UNCHANGED <<conf, files, jobs, main, cluster, submits, stops>>

\* The creators of pipeline/judges do not take the account and judge_container that eval
\* passes: the call raises, and nothing of the experiment is run.
StepJudgeRaises ==
    /\ pc = "judge" /\ NeedsJudge(at) /\ StepOf(at) /\ conf.packaged
    /\ pc' = "idle" /\ clean' = FALSE
    /\ UNCHANGED <<conf, files, at, jobs, main, judges, step, tasks, state, todo, submits, stops>>

\* The LLM judge: generate, called on the outputs, adds a task for each seed without a
\* judged output, whatever --rerun_done says.
AddLlmJudge ==
    /\ pc = "judge" /\ NeedsJudge(at) /\ ~StepOf(at)
    /\ LET left == SetToSeq({x \in Of(at) : judged[x] = 0})
           wait(k) == IF conf.slurm THEN MainOf(at) ELSE 1..(Len(tasks) + k - 1) IN
          /\ tasks' = tasks \o
                [k \in DOMAIN left |-> [kind |-> "judge", evals |-> {left[k]}, after |-> wait(k)]]
          /\ judges' = [judges EXCEPT ![at] = (Len(tasks) + 1)..(Len(tasks) + Len(left))]
    /\ Turn(NumBenchmarks, "summarize")
    /\ UNCHANGED <<conf, files, jobs, main, step, cluster, submits, stops>>

\* Summaries of judged benchmarks wait for the judge, if it has anything to do.
AddSummary ==
    /\ pc = "summarize"
    /\ Add("summarize", Of(at), IF judges[at] # {} THEN judges[at] ELSE MainOf(at))
    /\ Turn(NumBenchmarks, IF conf.grouped = {} THEN "run" ELSE "score")
    /\ UNCHANGED <<conf, files, jobs, main, judges, step, cluster, submits, stops>>

SummariesOf(group) ==
    {i \in All : tasks[i].kind = "summarize" /\ \E b \in group : tasks[i].evals = Of(b)}

AddScore ==
    /\ pc = "score"
    /\ Add("score", UNION {Of(b) : b \in conf.grouped}, SummariesOf(conf.grouped))
    /\ pc' = "run" /\ at' = 1
    /\ UNCHANGED <<conf, files, jobs, main, judges, step, cluster, submits, stops>>

\* run_exp
Run ==
    /\ pc = "run" /\ state = <<>>
    /\ state' = [i \in All |-> "added"]
    /\ todo' = [i \in All |-> tasks[i].evals]
    /\ UNCHANGED <<conf, files, builder, clean, submits, stops>>

-----------------------------------------------------------------------------
(* The cluster.                                                            *)

Over(i) == state[i] \in {"ended", "failed"}

\* A task starts when those it depends on are over, whatever became of them ("afterany").
Start(i) ==
    /\ state[i] = "added" /\ \A j \in tasks[i].after : Over(j)
    /\ state' = [state EXCEPT ![i] = "running"]
    /\ UNCHANGED <<conf, files, builder, todo, clean, submits, stops>>

Running(i, kind) == state[i] = "running" /\ tasks[i].kind = kind

End(i) == state' = [state EXCEPT ![i] = "ended"]

\* The commands of a job run one after the other or at once (--single_node_mode); an
\* output that is there is left alone.
Evaluate(i, x) ==
    /\ Running(i, "main") /\ x \in todo[i]
    /\ out' = [out EXCEPT ![x] = IF conf.rerun \/ @ = 0 THEN submits ELSE @]
    /\ todo' = [todo EXCEPT ![i] = @ \ {x}]
    /\ IF todo'[i] = {} THEN End(i) ELSE UNCHANGED state
    /\ UNCHANGED <<conf, judged, metrics, score, builder, clean, submits, stops>>

Judge(i, x) ==
    /\ Running(i, "judge") /\ x \in todo[i] /\ out[x] # 0
    /\ judged' = [judged EXCEPT ![x] = out[x]]
    /\ todo' = [todo EXCEPT ![i] = @ \ {x}]
    /\ IF todo'[i] = {} THEN End(i) ELSE UNCHANGED state
    /\ UNCHANGED <<conf, out, metrics, score, builder, clean, submits, stops>>

\* The folder whose output*.jsonl files are summarized
Result(b) == IF NeedsJudge(b) THEN judged ELSE out

Summarize(i, b) ==
    /\ Running(i, "summarize") /\ tasks[i].evals = Of(b)
    /\ \E x \in Of(b) : Result(b)[x] # 0
    /\ metrics' = [metrics EXCEPT ![b] = [e \in Seeds |-> Result(b)[<<b, e>>]]]
    /\ End(i)
    /\ UNCHANGED <<conf, out, judged, score, builder, todo, clean, submits, stops>>

Score(i) ==
    /\ Running(i, "score")
    /\ \A b \in conf.grouped : metrics[b] # NoFile
    /\ score' = [b \in Benchmarks |-> IF b \in conf.grouped THEN metrics[b] ELSE NoFile]
    /\ End(i)
    /\ UNCHANGED <<conf, out, judged, metrics, builder, todo, clean, submits, stops>>

\* What the task's command reads is not there.
Lacks(i) ==
    \/ Running(i, "judge") /\ \E x \in todo[i] : out[x] = 0
    \/ Running(i, "summarize") /\ \E b \in Benchmarks :
          tasks[i].evals = Of(b) /\ \A x \in Of(b) : Result(b)[x] = 0
    \/ Running(i, "score") /\ \E b \in conf.grouped : metrics[b] = NoFile

Fails(i) ==
    /\ state' = [state EXCEPT ![i] = "failed"]
    /\ clean' = FALSE
    /\ UNCHANGED <<conf, files, builder, todo, submits>>

Fail(i) == Lacks(i) /\ Fails(i) /\ UNCHANGED stops

\* A time limit, a preemption or an error ends the task between two of its commands.
Stop(i) == state[i] = "running" /\ stops < MaxStops /\ Fails(i) /\ stops' = stops + 1

\* Elsewhere than on Slurm a task may be given up with one it depends on.
Drop(i) ==
    /\ ~conf.slurm /\ state[i] = "added"
    /\ \E j \in tasks[i].after : state[j] = "failed"
    /\ Fails(i) /\ UNCHANGED stops

\* The submission is over.
Finish ==
    /\ pc = "run" /\ state # <<>> /\ \A i \in DOMAIN state : Over(i)
    /\ pc' = "idle"
    /\ UNCHANGED <<conf, files, at, jobs, main, judges, step, tasks, cluster, submits, stops>>

Build ==
    \/ AddMain \/ MainDone
    \/ SkipJudge \/ AddStepJudge \/ StepJudgeRaises \/ AddLlmJudge
    \/ AddSummary \/ AddScore \/ Run

Cluster ==
    \E i \in DOMAIN state :
        \/ Start(i) \/ Score(i) \/ Fail(i) \/ Stop(i) \/ Drop(i)
        \/ \E x \in todo[i] : Evaluate(i, x) \/ Judge(i, x)
        \/ \E b \in Benchmarks : Summarize(i, b)

\* Nobody submits any more.
Idle == pc = "idle" /\ submits = MaxSubmits /\ UNCHANGED vars

Next == Submit \/ Build \/ Cluster \/ Finish \/ Idle

Spec == Init /\ [][Next]_vars

-----------------------------------------------------------------------------
(* Properties.                                                             *)

\* The files a task reads and writes
Judged(evals) == {x \in evals : NeedsJudge(x[1])}
Reads(t) ==
    CASE t.kind = "main"      -> {}
      [] t.kind = "judge"     -> {"out"} \X t.evals
      [] t.kind = "summarize" -> ({"judged"} \X Judged(t.evals)) \cup ({"out"} \X (t.evals \ Judged(t.evals)))
      [] t.kind = "score"     -> {"metrics"} \X t.evals
Writes(t) ==
    CASE t.kind = "main"      -> {"out"} \X t.evals
      [] t.kind = "judge"     -> {"judged"} \X t.evals
      [] t.kind = "summarize" -> {"metrics"} \X t.evals
      [] t.kind = "score"     -> {}

\* However evaluations are grouped into jobs and jobs into chains, no task runs while one
\* that writes what it reads is still to run, directly or through the tasks in between.
ReadsSettled ==
    \A i, j \in DOMAIN state :
        state[i] = "running" /\ Reads(tasks[i]) \cap Writes(tasks[j]) # {} => Over(j)

\* Every benchmark's metrics stand for its latest outputs, all of them, and so does the score.
UpToDate ==
    /\ \A b \in Benchmarks :
          /\ \A x \in Of(b) : out[x] # 0
          /\ metrics[b] = [e \in Seeds |-> out[<<b, e>>]]
    /\ conf.grouped # {} => \A b \in conf.grouped : score[b] = metrics[b]

Settled == pc = "idle" /\ submits > 0 /\ clean

\* A submission in which nothing fails leaves nothing stale or missing, whatever an earlier
\* one left behind.  The exception: --rerun_done does not reach the LLM judge, whose old
\* outputs then count for the new generations.
Consistent ==
    Settled /\ (conf.rerun => \A b \in Benchmarks : conf.judge[b] # "llm") => UpToDate
=============================================================================
