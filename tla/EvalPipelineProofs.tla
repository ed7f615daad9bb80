------------------------- MODULE EvalPipelineProofs -------------------------
(***************************************************************************)
(* However the evaluations are grouped into jobs and whatever judges them, *)
(* no task reads what another has still to write, and a submission in      *)
(* which nothing fails leaves the metrics of the latest outputs: for every *)
(* set of benchmarks, every command line and every number of submissions.  *)
(***************************************************************************)
EXTENDS EvalPipeline, FiniteSetTheorems, SequenceTheorems, WellFoundedInduction, TLAPS

-----------------------------------------------------------------------------
(* The inductive invariant: what the builder has put together, what the    *)
(* cluster does with it, and what the files then hold.                     *)

\* Every evaluation of the command
Planned == UNION {Of(b) : b \in Benchmarks}

\* The kinds of the tasks added so far
Added == CASE pc = "main"      -> {"main"}
           [] pc = "judge"     -> {"main", "judge"}
           [] pc = "summarize" -> Kinds \ {"score"}
           [] OTHER            -> Kinds

\* Task t reads what task u writes: Reads(t) \cap Writes(u) # {}, by kinds.
Needs(t, u) ==
    \E x \in t.evals \cap u.evals :
        \/ t.kind = "judge" /\ u.kind = "main"
        \/ t.kind = "summarize" /\ u.kind = "judge" /\ NeedsJudge(x[1])
        \/ t.kind = "summarize" /\ u.kind = "main" /\ ~NeedsJudge(x[1])
        \/ t.kind = "score" /\ u.kind = "summarize"

\* Each of the tasks k + 1 to l of ts waits for the one before it.
Linked(ts, k, l) == \A n \in (k + 1)..l : n - 1 \in ts[n].after

\* Task i waits for task j, itself or along a chain that ends in j.
WaitsFor(i, j) ==
    IF conf.slurm THEN \E m \in tasks[i].after : j <= m /\ Linked(tasks, j, m) ELSE j \in tasks[i].after

\* The loop of this phase has gone past benchmark b.
Reached(phase, b) == (pc = phase /\ b < at) \/ pc \notin {"main", "judge", phase}

\* The conjuncts of TypeOK, by who writes the variables
BuildTypes ==
    /\ conf \in Configs
    /\ pc \in {"idle", "run"} \cup Kinds
    /\ at \in IF pc = "main" THEN 1..(Len(jobs) + 1) ELSE Benchmarks
    /\ jobs \in Seq(SUBSET Evals)
    /\ main \in Seq(DOMAIN tasks)
    /\ judges \in [Benchmarks -> SUBSET DOMAIN tasks]
    /\ step \in BOOLEAN
    /\ tasks \in Seq(Tasks)
    /\ \A i \in DOMAIN tasks : tasks[i].after \subseteq 1..(i - 1)
    /\ submits \in 0..MaxSubmits
FileTypes ==
    /\ out \in [Evals -> Versions]
    /\ judged \in [Evals -> Versions]
    /\ metrics \in [Benchmarks -> [Seeds -> Versions] \cup {NoFile}]
    /\ score \in [Benchmarks -> [Seeds -> Versions] \cup {NoFile}]
ClusterTypes ==
    /\ state \in Seq({"added", "running", "ended", "failed"})
    /\ DOMAIN state \in {{}, DOMAIN tasks}
    /\ todo \in [DOMAIN state -> SUBSET Evals]
    /\ clean \in BOOLEAN
    /\ stops \in 0..MaxStops

\* What the builder has put together so far
JobsShape ==
    /\ \A m \in DOMAIN jobs : jobs[m] \subseteq Planned
    /\ IF pc = "main" THEN Len(main) = at - 1 ELSE Len(main) = Len(jobs)
    /\ conf.step => step

TasksShape ==
    /\ \A i \in All : tasks[i].kind \in Added /\ tasks[i].evals \subseteq Planned
    /\ ~conf.slurm => \A i \in All : tasks[i].after = 1..(i - 1)

MainShape ==
    /\ \A m \in DOMAIN main : tasks[main[m]].kind = "main" /\ tasks[main[m]].evals = jobs[m]
    /\ \A i \in All : tasks[i].kind = "main" =>
          \E m \in DOMAIN main :
              /\ tasks[i].evals = jobs[m]
              /\ i <= main[m]
              /\ conf.slurm => Linked(tasks, i, main[m])

JudgeShape ==
    /\ \A i \in All : tasks[i].kind = "judge" =>
          \E b \in Benchmarks : i \in judges[b] /\ tasks[i].evals \subseteq Of(b)
    /\ \A b \in Benchmarks : judges[b] # {} => NeedsJudge(b) /\ Reached("judge", b)

SummaryShape ==
    /\ \A i \in All : tasks[i].kind = "summarize" => \E b \in Benchmarks : tasks[i].evals = Of(b)
    /\ \A i \in All : tasks[i].kind = "score" => tasks[i].evals = UNION {Of(b) : b \in conf.grouped}

Ordered == \A i, j \in All : Needs(tasks[i], tasks[j]) => WaitsFor(i, j)

Shape ==
    /\ BuildTypes
    /\ JobsShape
    /\ TasksShape
    /\ MainShape
    /\ JudgeShape
    /\ SummaryShape
    /\ Ordered

\* What the cluster does to the tasks
Waited ==
    /\ \A i \in DOMAIN state : state[i] \in {"running", "ended"} => \A j \in tasks[i].after : Over(j)
    /\ conf.slurm =>
          \A k, l \in DOMAIN state : k < l /\ Linked(tasks, k, l) /\ state[l] # "added" => Over(k)

Phased ==
    /\ state # <<>> => pc \in {"run", "idle"}
    /\ submits = 0 => pc = "idle" /\ state = <<>>
    /\ pc = "idle" /\ submits > 0 => (clean => state # <<>>) /\ \A i \in DOMAIN state : Over(i)

SInv == Shape /\ FileTypes /\ ClusterTypes /\ Phased /\ Waited

\* The case that Consistent leaves out is not there.
LlmIsKept == conf.rerun => \A b \in Benchmarks : conf.judge[b] # "llm"

\* The tasks of a submission cover its evaluations, except for what is there already.  (The
\* experiment of a submission that raised is not run, and then clean is FALSE.)
JobsCover ==
    submits > 0 => \A x \in Planned : (\E m \in DOMAIN jobs : x \in jobs[m]) \/ (~conf.rerun /\ out[x] # 0)
JudgesCover ==
    \A b \in Benchmarks : LlmIsKept /\ submits > 0 /\ clean /\ Reached("judge", b) /\ NeedsJudge(b) =>
        \A x \in Of(b) :
            \/ \E i \in All : tasks[i].kind = "judge" /\ x \in tasks[i].evals
            \/ ~conf.rerun /\ judged[x] # 0
SummariesCover ==
    \A b \in Benchmarks : submits > 0 /\ clean /\ Reached("summarize", b) =>
        \E i \in All : tasks[i].kind = "summarize" /\ tasks[i].evals = Of(b)
ScoreCovers ==
    submits > 0 /\ clean /\ pc \in {"run", "idle"} /\ conf.grouped # {} => \E i \in All : tasks[i].kind = "score"

Covered == JobsCover /\ JudgesCover /\ SummariesCover /\ ScoreCovers

\* Nothing is generated beyond the command, and a judgement that may be kept is of the output
\* that is kept.
OldFiles ==
    /\ \A x \in Evals \ Planned : out[x] = 0 /\ judged[x] = 0
    /\ ~conf.rerun => \A x \in Evals : judged[x] \in {0, out[x]}

\* What a task has done still stands.
Progress ==
    \A i \in DOMAIN state :
        /\ todo[i] \subseteq tasks[i].evals
        /\ state[i] = "added" => todo[i] = tasks[i].evals
        /\ state[i] = "ended" /\ tasks[i].kind \in {"main", "judge"} => todo[i] = {}
        /\ clean => state[i] # "failed"
MainDid ==
    \A i \in DOMAIN state : tasks[i].kind = "main" =>
        \A x \in tasks[i].evals \ todo[i] : out[x] # 0
JudgeDid ==
    \A i \in DOMAIN state : tasks[i].kind = "judge" /\ state[i] \in {"running", "ended"} =>
        \A x \in tasks[i].evals \ todo[i] : judged[x] = out[x]
SummaryDid ==
    \A i \in DOMAIN state : tasks[i].kind = "summarize" /\ state[i] = "ended" =>
        \A b \in Benchmarks : tasks[i].evals = Of(b) =>
            metrics[b] = [e \in Seeds |-> Result(b)[<<b, e>>]]
ScoreDid ==
    \A i \in DOMAIN state : tasks[i].kind = "score" /\ state[i] = "ended" =>
        \A b \in conf.grouped : score[b] = metrics[b]

Done == Progress /\ MainDid /\ JudgeDid /\ SummaryDid /\ ScoreDid

CInv == SInv /\ Covered /\ OldFiles /\ Done
-----------------------------------------------------------------------------
(* What the constants and the command line are.                            *)

LEMMA Constants ==
    /\ NumBenchmarks \in Nat \ {0} /\ MaxSeeds \in Nat \ {0}
    /\ MaxSubmits \in Nat /\ MaxStops \in Nat
    /\ 1 \in Benchmarks /\ NumBenchmarks \in Benchmarks
  BY EvalPipelineAssumption DEF Benchmarks

LEMMA ConfType ==
    ASSUME conf \in Configs
    PROVE  /\ conf.seeds \in [Benchmarks -> Seeds]
           /\ conf.grouped \subseteq Benchmarks
           /\ conf.judge \in [Benchmarks -> {"none", "llm", "step"}]
           /\ conf.num_jobs \in Int /\ (conf.num_jobs = -1 \/ conf.num_jobs > 0)
           /\ conf.dependent \in Nat
           /\ conf.step \in BOOLEAN /\ conf.slurm \in BOOLEAN /\ conf.rerun \in BOOLEAN
<1>1. conf \in Config  BY EvalPipelineAssumption
<1>2. conf.num_jobs = -1 \/ conf.num_jobs > 0  BY EvalPipelineAssumption
<1> QED  BY <1>1, <1>2 DEF Config

\* The evaluations of a benchmark
LEMMA OfType ==
    ASSUME conf \in Configs, NEW b \in Benchmarks
    PROVE  /\ Of(b) \subseteq Evals
           /\ <<b, 1>> \in Of(b)
           /\ \A x \in Of(b) : x[1] = b
           /\ \A e \in Seeds : <<b, e>> \in Planned => <<b, e>> \in Of(b)
<1>1. conf.seeds \in [Benchmarks -> Seeds]  BY ConfType
<1>2. conf.seeds[b] \in 1..MaxSeeds  BY <1>1 DEF Seeds
<1>3. \A e \in 1..conf.seeds[b] : e \in Seeds  BY <1>2, Constants DEF Seeds
<1>4. 1 \in 1..conf.seeds[b]  BY <1>2, Constants
<1>5. ASSUME NEW e \in Seeds, <<b, e>> \in Planned  PROVE <<b, e>> \in Of(b)
    <2>1. PICK c \in Benchmarks : <<b, e>> \in Of(c)  BY <1>5 DEF Planned
    <2>2. PICK d \in 1..conf.seeds[c] : <<b, e>> = <<c, d>>  BY <2>1 DEF Of
    <2> QED  BY <2>1, <2>2
<1> QED  BY <1>3, <1>4, <1>5 DEF Of, Evals

LEMMA OfInjective ==
    ASSUME conf \in Configs, NEW b \in Benchmarks, NEW c \in Benchmarks, Of(b) \cap Of(c) # {}
    PROVE  b = c
  BY OfType

LEMMA PlannedType ==
    ASSUME conf \in Configs
    PROVE  Planned \subseteq Evals /\ \A b \in Benchmarks : Of(b) \subseteq Planned
  BY OfType DEF Planned

LEMMA EvalsFinite == IsFiniteSet(Evals)
<1>1. IsFiniteSet(Benchmarks) /\ IsFiniteSet(Seeds)
    BY Constants, FS_Interval DEF Benchmarks, Seeds
<1> QED  BY <1>1, FS_Product DEF Evals

-----------------------------------------------------------------------------
(* The batches: every remaining evaluation is in one.                      *)

LEMMA Least ==
    ASSUME NEW T, T \subseteq Nat, T # {}
    PROVE  \E n \in T : \A m \in T : n <= m
<1> DEFINE R == {p \in Nat \X Nat : p[1] < p[2]}
<1>1. IsWellFoundedOn(R, Nat)
    BY NatLessThanWellFounded DEF OpToRel
<1>2. PICK n \in T : \A m \in T : <<m, n>> \notin R
    <2> HIDE DEF R
    <2> QED  BY <1>1, WFMin
<1>3. ASSUME NEW m \in T  PROVE n <= m
    <2>1. m \in Nat /\ n \in Nat /\ ~(m < n)
        BY <1>2
    <2> QED  BY <2>1
<1> QED  BY <1>3

LEMMA RemainingFinite ==
    ASSUME conf \in Configs
    PROVE  Remaining \subseteq Evals /\ IsFiniteSet(Remaining) /\ Total \in Nat
<1>1. Remaining \subseteq Evals  BY PlannedType DEF Remaining, Planned
<1>2. IsFiniteSet(Remaining)  BY <1>1, EvalsFinite, FS_Subset
<1> QED  BY <1>1, <1>2, FS_CardinalityType DEF Total

LEMMA PositionType ==
    ASSUME conf \in Configs, NEW x \in Remaining
    PROVE  Position(x) \in 1..Total
<1> DEFINE P == {y \in Remaining : y[1] < x[1] \/ (y[1] = x[1] /\ y[2] <= x[2])}
<1>1. Remaining \subseteq Evals /\ IsFiniteSet(Remaining) /\ Total \in Nat  BY RemainingFinite
<1>2. P \in SUBSET Remaining  OBVIOUS
<1>3. x[2] \in Nat
    <2>1. x \in Benchmarks \X Seeds  BY <1>1 DEF Evals
    <2> QED  BY <2>1, Constants DEF Seeds
<1>4. x \in P  BY <1>3
<1>5. P # {}  BY <1>4
<1>6. IsFiniteSet(P) /\ Cardinality(P) <= Cardinality(Remaining)
    <2> HIDE DEF P
    <2> QED  BY <1>1, <1>2, FS_Subset
<1>7. Cardinality(P) \in Nat /\ Cardinality(P) # 0
    <2> HIDE DEF P
    <2> QED  BY <1>5, <1>6, FS_CardinalityType, FS_EmptySet
<1>8. Position(x) = Cardinality(P)  BY DEF Position
<1> HIDE DEF P
<1> QED  BY <1>1, <1>6, <1>7, <1>8 DEF Total

LEMMA JobsNumber ==
    ASSUME conf \in Configs
    PROVE  /\ NumJobs \in Nat
           /\ Lesser(NumJobs, Total) \in Nat
           /\ Total > 0 => NumJobs > 0
<1>1. Total \in Nat  BY RemainingFinite
<1>2. conf.num_jobs \in Int /\ (conf.num_jobs = -1 \/ conf.num_jobs > 0)  BY ConfType
<1>3. NumJobs \in Nat /\ (Total > 0 => NumJobs > 0)  BY <1>1, <1>2 DEF NumJobs
<1> QED  BY <1>1, <1>3 DEF Lesser

LEMMA BatchesType ==
    ASSUME conf \in Configs
    PROVE  /\ Batches \in Seq(SUBSET Evals)
           /\ \A m \in DOMAIN Batches : Batches[m] \subseteq Planned
<1> DEFINE L == Lesser(NumJobs, Total)
<1>1. L \in Nat  BY JobsNumber
<1>2. Batches \in [1..L -> SUBSET Remaining]  BY DEF Batches
<1>3. Remaining \subseteq Planned /\ Remaining \subseteq Evals
    BY RemainingFinite DEF Remaining, Planned
<1>4. Batches \in [1..L -> SUBSET Evals]  BY <1>2, <1>3
<1> HIDE DEF L
<1>5. Batches \in Seq(SUBSET Evals)  BY <1>1, <1>4, SeqDef
<1> QED  BY <1>2, <1>3, <1>5

\* The jobs' shares add up to all evaluations.
LEMMA Shares ==
    ASSUME NEW t \in Nat \ {0}, NEW n \in Nat \ {0}
    PROVE  /\ t \div n \in Nat /\ t % n \in 0..(n - 1)
           /\ n * (t \div n) + (t % n) = t
           /\ n > t => t \div n = 0
<1>1. t \div n \in Int /\ t % n \in 0..(n - 1)
    OBVIOUS
<1>3. n * (t \div n) + (t % n) = t
    OBVIOUS
<1>4. t \div n >= 0
    OBVIOUS
<1>2. ASSUME n > t  PROVE t \div n = 0
    BY <1>2
<1> QED  BY <1>1, <1>2, <1>3, <1>4

LEMMA UpToFacts ==
    ASSUME conf \in Configs, Total > 0
    PROVE  /\ \A i \in Nat : UpTo(i) \in Nat
           /\ UpTo(0) = 0
           /\ UpTo(Lesser(NumJobs, Total)) = Total
<1> DEFINE q == Total \div NumJobs
           r == Total % NumJobs
<1>1. Total \in Nat \ {0} /\ NumJobs \in Nat \ {0}  BY RemainingFinite, JobsNumber
<1>2. q \in Nat /\ r \in 0..(NumJobs - 1) /\ NumJobs * q + r = Total /\ (NumJobs > Total => q = 0)
    BY <1>1, Shares
<1>3. \A i \in Int : UpTo(i) = i * q + Lesser(i, r)  BY DEF UpTo
<1> HIDE DEF q, r
<1>4. \A i \in Nat : i * q \in Nat /\ Lesser(i, r) \in Nat  BY <1>2 DEF Lesser
<1>5. \A i \in Nat : UpTo(i) \in Nat  BY <1>3, <1>4
<1>6. UpTo(0) = 0  BY <1>2, <1>3 DEF Lesser
<1>7. UpTo(Lesser(NumJobs, Total)) = Total
    <2>1. CASE NumJobs > Total
        <3>1. q = 0 /\ r = Total  BY <2>1, <1>1, <1>2
        <3>2. Lesser(NumJobs, Total) = Total /\ Lesser(Total, r) = r  BY <2>1, <3>1, <1>1 DEF Lesser
        <3>3. Total * q = 0  BY <3>1, <1>1
        <3> QED  BY <3>1, <3>2, <3>3, <1>1, <1>3
    <2>2. CASE ~(NumJobs > Total)
        <3>1. Lesser(NumJobs, Total) = NumJobs  BY <2>2, <1>1 DEF Lesser
        <3>2. Lesser(NumJobs, r) = r  BY <1>1, <1>2 DEF Lesser
        <3> QED  BY <3>1, <3>2, <1>1, <1>2, <1>3
    <2> QED  BY <2>1, <2>2
<1> QED  BY <1>5, <1>6, <1>7

LEMMA BatchesCover ==
    ASSUME conf \in Configs, NEW x \in Remaining
    PROVE  \E m \in DOMAIN Batches : x \in Batches[m]
<1> DEFINE L == Lesser(NumJobs, Total)
           T == {i \in Nat : Position(x) <= UpTo(i)}
<1>1. Position(x) \in 1..Total /\ Total \in Nat /\ Total > 0
    BY PositionType, RemainingFinite
<1>2. L \in Nat  BY JobsNumber
<1>3. UpTo(0) = 0 /\ UpTo(L) = Total /\ \A i \in Nat : UpTo(i) \in Nat  BY <1>1, UpToFacts
<1>4. L \in T  BY <1>1, <1>2, <1>3
<1>5. PICK m \in T : \A i \in T : m <= i  BY <1>4, Least
<1>6. m \in Nat /\ m <= L /\ Position(x) <= UpTo(m)  BY <1>4, <1>5
<1>7. m # 0  BY <1>1, <1>3, <1>6
<1>8. m - 1 \in Nat /\ m - 1 \notin T  BY <1>5, <1>6, <1>7
<1>9. UpTo(m - 1) < Position(x)  BY <1>8, <1>3, <1>1
<1>10. m \in 1..L  BY <1>2, <1>6, <1>7
<1> QED  BY <1>6, <1>9, <1>10 DEF Batches

-----------------------------------------------------------------------------
(* What a task reads, and what it waits for.                               *)

LEMMA TypeParts == TypeOK <=> BuildTypes /\ FileTypes /\ ClusterTypes
  BY DEF TypeOK, BuildTypes, FileTypes, ClusterTypes

LEMMA NeedsKinds ==
    ASSUME NEW t, NEW u, Needs(t, u)
    PROVE  \/ t.kind = "judge" /\ u.kind = "main"
           \/ t.kind = "summarize" /\ u.kind \in {"judge", "main"}
           \/ t.kind = "score" /\ u.kind = "summarize"
  BY DEF Needs

LEMMA NeedsSame ==
    ASSUME conf' = conf, NEW i, NEW j
    PROVE  (Needs(tasks[i], tasks[j]))' <=> Needs(tasks'[i], tasks'[j])
<1>1. \A b : NeedsJudge(b)' <=> NeedsJudge(b)  BY DEF NeedsJudge
<1> QED  BY <1>1 DEF Needs

LEMMA ReadsNeeds ==
    ASSUME NEW t \in Tasks, NEW u \in Tasks, Reads(t) \cap Writes(u) # {}
    PROVE  Needs(t, u)
<1>1. PICK f \in Reads(t) \cap Writes(u) : TRUE  OBVIOUS
<1>2. t.kind \in Kinds /\ u.kind \in Kinds  BY DEF Tasks
<1>3. Judged(t.evals) \subseteq t.evals  BY DEF Judged
<1>4. CASE t.kind = "main"
    BY <1>1, <1>4 DEF Reads
<1>5. CASE t.kind = "judge"
    <2>1. f[1] = "out" /\ f[2] \in t.evals  BY <1>1, <1>5 DEF Reads
    <2>2. u.kind = "main" /\ f[2] \in u.evals  BY <1>1, <1>2, <2>1 DEF Writes, Kinds
    <2> QED  BY <1>5, <2>1, <2>2 DEF Needs
<1>6. CASE t.kind = "summarize"
    <2>1. \/ f[1] = "judged" /\ f[2] \in Judged(t.evals)
          \/ f[1] = "out" /\ f[2] \in t.evals \ Judged(t.evals)
        BY <1>1, <1>6 DEF Reads
    <2>2. CASE f[1] = "judged" /\ f[2] \in Judged(t.evals)
        <3>1. u.kind = "judge" /\ f[2] \in u.evals  BY <1>1, <1>2, <2>2 DEF Writes, Kinds
        <3> QED  BY <1>6, <2>2, <3>1 DEF Needs, Judged
    <2>3. CASE f[1] = "out" /\ f[2] \in t.evals \ Judged(t.evals)
        <3>1. u.kind = "main" /\ f[2] \in u.evals  BY <1>1, <1>2, <2>3 DEF Writes, Kinds
        <3> QED  BY <1>6, <2>3, <3>1 DEF Needs, Judged
    <2> QED  BY <2>1, <2>2, <2>3
<1>7. CASE t.kind = "score"
    <2>1. f[1] = "metrics" /\ f[2] \in t.evals  BY <1>1, <1>7 DEF Reads
    <2>2. u.kind = "summarize" /\ f[2] \in u.evals  BY <1>1, <1>2, <2>1 DEF Writes, Kinds
    <2> QED  BY <1>7, <2>1, <2>2 DEF Needs
<1> QED  BY <1>2, <1>4, <1>5, <1>6, <1>7 DEF Kinds

\* The tasks of a chain that is there stay linked.
LEMMA LinkedStays ==
    ASSUME tasks \in Seq(Tasks), All \subseteq All', \A i \in All : tasks'[i] = tasks[i],
           NEW k \in Nat, NEW l \in All
    PROVE  Linked(tasks', k, l) <=> Linked(tasks, k, l)
<1>1. \A n \in (k + 1)..l : n \in All  BY DEF All
<1> QED  BY <1>1 DEF Linked

LEMMA WaitsStays ==
    ASSUME BuildTypes, conf' = conf, All \subseteq All', \A i \in All : tasks'[i] = tasks[i],
           NEW i \in All, NEW j \in All, WaitsFor(i, j)
    PROVE  WaitsFor(i, j)'
<1>1. tasks \in Seq(Tasks) /\ tasks[i].after \subseteq 1..(i - 1)  BY DEF BuildTypes, All
<1>2. i \in Nat /\ j \in Nat /\ \A m \in 1..(i - 1) : m \in All  BY <1>1 DEF All
<1>3. \A m \in tasks[i].after : m \in All /\ (Linked(tasks, j, m) => Linked(tasks', j, m))
    BY <1>1, <1>2, LinkedStays
<1> QED  BY <1>3 DEF WaitsFor

\* The tasks that are added read what those before them write, never the other way.
LEMMA OrderedGrows ==
    ASSUME Shape, conf' = conf, All \subseteq All', \A i \in All : tasks'[i] = tasks[i],
           \A i \in All, j \in All' \ All : ~Needs(tasks'[i], tasks'[j]),
           \A i \in All' \ All, j \in All' : Needs(tasks'[i], tasks'[j]) => WaitsFor(i, j)'
    PROVE  Ordered'
<1> SUFFICES ASSUME NEW i \in All', NEW j \in All', Needs(tasks'[i], tasks'[j])
             PROVE  WaitsFor(i, j)'
    BY NeedsSame DEF Ordered
<1>1. CASE i \in All /\ j \in All
    <2>1. Needs(tasks[i], tasks[j])  BY <1>1
    <2>2. WaitsFor(i, j)  BY <1>1, <2>1 DEF Shape, Ordered
    <2> QED  BY <1>1, <2>2, WaitsStays DEF Shape
<1> QED  BY <1>1

LEMMA Appended ==
    ASSUME BuildTypes, NEW new \in Seq(Tasks), tasks' = tasks \o new,
           \A k \in 1..Len(new) : new[k].after \subseteq 1..(Len(tasks) + k - 1)
    PROVE  /\ tasks' \in Seq(Tasks)
           /\ Len(tasks) \in Nat /\ Len(tasks') = Len(tasks) + Len(new)
           /\ All = 1..Len(tasks) /\ All' = 1..Len(tasks') /\ All \subseteq All'
           /\ \A i \in All : tasks'[i] = tasks[i]
           /\ \A i \in All' \ All :
                 i - Len(tasks) \in 1..Len(new) /\ tasks'[i] = new[i - Len(tasks)]
           /\ \A i \in All' : tasks'[i].after \subseteq 1..(i - 1)
<1>1. tasks \in Seq(Tasks) /\ \A i \in DOMAIN tasks : tasks[i].after \subseteq 1..(i - 1)
    BY DEF BuildTypes
<1>2. /\ tasks' \in Seq(Tasks)
      /\ Len(tasks') = Len(tasks) + Len(new)
      /\ \A i \in 1..(Len(tasks) + Len(new)) :
            tasks'[i] = IF i <= Len(tasks) THEN tasks[i] ELSE new[i - Len(tasks)]
    BY <1>1, ConcatProperties
<1>3. Len(tasks) \in Nat /\ Len(new) \in Nat /\ All = 1..Len(tasks) /\ All' = 1..Len(tasks')
    BY <1>1, <1>2, LenProperties DEF All
<1>4. \A i \in All : i \in All' /\ tasks'[i] = tasks[i]  BY <1>2, <1>3
<1>5. \A i \in All' \ All : i - Len(tasks) \in 1..Len(new) /\ tasks'[i] = new[i - Len(tasks)]
    BY <1>2, <1>3
<1>6. ASSUME NEW i \in All'  PROVE tasks'[i].after \subseteq 1..(i - 1)
    <2>1. CASE i \in All  BY <1>1, <1>4, <2>1 DEF All
    <2>2. CASE i \notin All
        <3>1. i - Len(tasks) \in 1..Len(new) /\ tasks'[i] = new[i - Len(tasks)]  BY <1>5, <2>2
        <3>2. new[i - Len(tasks)].after \subseteq 1..(Len(tasks) + (i - Len(tasks)) - 1)  BY <3>1
        <3>3. Len(tasks) + (i - Len(tasks)) - 1 = i - 1  BY <1>2, <1>3
        <3> QED  BY <3>1, <3>2, <3>3
    <2> QED  BY <2>1, <2>2
<1> QED  BY <1>2, <1>3, <1>4, <1>5, <1>6

LEMMA AddedOne ==
    ASSUME BuildTypes, NEW kind \in Kinds, NEW evals \in SUBSET Evals, NEW needs \in SUBSET All,
           Add(kind, evals, needs)
    PROVE  /\ tasks' \in Seq(Tasks)
           /\ Len(tasks) \in Nat /\ Len(tasks') = Len(tasks) + 1
           /\ All = 1..Len(tasks) /\ All' = 1..Len(tasks') /\ All \subseteq All'
           /\ \A i \in All : tasks'[i] = tasks[i]
           /\ \A i \in All' \ All :
                 i = Len(tasks') /\ tasks'[i] = [kind |-> kind, evals |-> evals,
                                                 after |-> IF conf.slurm THEN needs ELSE All]
           /\ \A i \in All' : tasks'[i].after \subseteq 1..(i - 1)
<1> DEFINE t == [kind |-> kind, evals |-> evals, after |-> IF conf.slurm THEN needs ELSE All]
<1>1. tasks \in Seq(Tasks)  BY DEF BuildTypes
<1>2. Len(tasks) \in Nat /\ All = 1..Len(tasks)  BY <1>1, LenProperties DEF All
<1>3. t \in Tasks  BY <1>2 DEF Tasks
<1>4. tasks' = Append(tasks, t)  BY DEF Add
<1>5. t.after \subseteq 1..Len(tasks)  BY <1>2
<1>7. t.kind = kind /\ t.evals = evals  OBVIOUS
<1> HIDE DEF t
<1>6. tasks' = tasks \o <<t>> /\ <<t>> \in Seq(Tasks) /\ Len(<<t>>) = 1 /\ <<t>>[1] = t
    BY <1>1, <1>3, <1>4, AppendIsConcat
<1>8. \A k \in 1..Len(<<t>>) : k = 1 /\ <<t>>[k].after \subseteq 1..(Len(tasks) + k - 1)
    BY <1>2, <1>5, <1>6
<1>9. /\ tasks' \in Seq(Tasks)
      /\ Len(tasks') = Len(tasks) + 1
      /\ All' = 1..Len(tasks') /\ All \subseteq All'
      /\ \A i \in All : tasks'[i] = tasks[i]
      /\ \A i \in All' \ All : i - Len(tasks) \in 1..1 /\ tasks'[i] = <<t>>[i - Len(tasks)]
      /\ \A i \in All' : tasks'[i].after \subseteq 1..(i - 1)
    BY <1>6, <1>8, Appended
<1>10. ASSUME NEW i \in All' \ All  PROVE i = Len(tasks') /\ tasks'[i] = t
    <2>1. i - Len(tasks) = 1 /\ i \in Int  BY <1>9, <1>2
    <2> QED  BY <2>1, <1>2, <1>6, <1>9
<1> QED  BY <1>2, <1>9, <1>10 DEF t

-----------------------------------------------------------------------------
(* The builder: each task waits for what it reads.                         *)

\* The tasks that a judge or a summary waits for are those of the jobs that evaluate the
\* benchmark, to the last of the chain.
LEMMA MainsAwaited ==
    ASSUME Shape, pc # "main", NEW b \in Benchmarks
    PROVE  /\ MainOf(b) \subseteq All
           /\ \A j \in All :
                 tasks[j].kind = "main" /\ tasks[j].evals \cap Of(b) # {} /\ conf.slurm
                 => \E m \in MainOf(b) : j <= m /\ Linked(tasks, j, m)
<1>1. main \in Seq(All) /\ Len(main) = Len(jobs) /\ jobs \in Seq(SUBSET Evals)
    BY DEF Shape, BuildTypes, JobsShape, All
<1>2. DOMAIN main = DOMAIN jobs /\ \A m \in DOMAIN main : main[m] \in All
    BY <1>1, LenProperties, ElementOfSeq
<1>3. MainOf(b) \subseteq All  BY <1>2 DEF MainOf, JobIds
<1>4. ASSUME NEW j \in All, tasks[j].kind = "main", tasks[j].evals \cap Of(b) # {}, conf.slurm
      PROVE  \E m \in MainOf(b) : j <= m /\ Linked(tasks, j, m)
    <2>1. PICK m \in DOMAIN main :
             tasks[j].evals = jobs[m] /\ j <= main[m] /\ Linked(tasks, j, main[m])
        BY <1>4 DEF Shape, MainShape
    <2>2. m \in JobIds(b)  BY <1>2, <1>4, <2>1 DEF JobIds
    <2> QED  BY <2>1, <2>2 DEF MainOf
<1> QED  BY <1>3, <1>4

\* What a step on the judges' and summaries' tasks leaves alone
LEMMA MainsStay ==
    ASSUME Shape, UNCHANGED <<conf, main, jobs>>, tasks' \in Seq(Tasks), All \subseteq All',
           \A i \in All : tasks'[i] = tasks[i],
           \A i \in All' \ All : tasks'[i].kind # "main"
    PROVE  MainShape' /\ main' \in Seq(All')
<1>1. main \in Seq(All) /\ tasks \in Seq(Tasks)  BY DEF Shape, BuildTypes, All
<1>2. DOMAIN main = 1..Len(main) /\ \A m \in DOMAIN main : main[m] \in All
    BY <1>1, LenProperties, ElementOfSeq
<1>3. main' \in Seq(All')  BY <1>1, SeqMonotonic
<1>4. \A m \in DOMAIN main' : tasks'[main'[m]].kind = "main" /\ tasks'[main'[m]].evals = jobs'[m]
    BY <1>2 DEF Shape, MainShape
<1>5. ASSUME NEW i \in All', tasks'[i].kind = "main"
      PROVE  \E m \in DOMAIN main' :
                 /\ tasks'[i].evals = jobs'[m]
                 /\ i <= main'[m]
                 /\ conf'.slurm => Linked(tasks', i, main'[m])
    <2>1. i \in All /\ tasks'[i] = tasks[i]  BY <1>5
    <2>2. PICK m \in DOMAIN main :
             tasks[i].evals = jobs[m] /\ i <= main[m] /\ (conf.slurm => Linked(tasks, i, main[m]))
        BY <1>5, <2>1 DEF Shape, MainShape
    <2>3. i \in Nat  BY <2>1, <1>1, LenProperties DEF All
    <2>4. Linked(tasks', i, main[m]) <=> Linked(tasks, i, main[m])  BY <1>1, <1>2, <2>3, LinkedStays
    <2> QED  BY <2>1, <2>2, <2>4
<1> QED  BY <1>3, <1>4, <1>5 DEF MainShape

LEMMA SummariesStay ==
    ASSUME Shape, UNCHANGED conf, All \subseteq All', \A i \in All : tasks'[i] = tasks[i],
           \A i \in All' \ All : tasks'[i].kind \in {"main", "judge"}
    PROVE  SummaryShape'
<1>1. \A b : Of(b)' = Of(b)  BY DEF Of
<1> QED  BY <1>1 DEF Shape, SummaryShape

LEMMA ChainType ==
    ASSUME BuildTypes, NEW evals \in SUBSET Evals
    PROVE  /\ ChainOf(evals) \in Seq(Tasks)
           /\ Len(ChainOf(evals)) = conf.dependent + 1
           /\ \A k \in 1..(conf.dependent + 1) :
                 /\ ChainOf(evals)[k].kind = "main"
                 /\ ChainOf(evals)[k].evals = evals
                 /\ ChainOf(evals)[k].after \subseteq 1..(Len(tasks) + k - 1)
                 /\ ~conf.slurm => ChainOf(evals)[k].after = 1..(Len(tasks) + k - 1)
                 /\ conf.slurm /\ k > 1 => ChainOf(evals)[k].after = {Len(tasks) + k - 1}
<1> DEFINE n == conf.dependent + 1
           c == ChainOf(evals)
<1>1. n \in Nat /\ Len(tasks) \in Nat /\ n >= 1
    BY ConfType, LenProperties DEF BuildTypes
<1>2. \A k \in 1..n : c[k] = [kind |-> "main", evals |-> evals,
          after |-> IF ~conf.slurm THEN 1..(Len(tasks) + k - 1)
                    ELSE IF k = 1 THEN {} ELSE {Len(tasks) + k - 1}]
    BY DEF ChainOf
<1>3. ASSUME NEW k \in 1..n
      PROVE  /\ c[k].after \subseteq 1..(Len(tasks) + k - 1)
             /\ ~conf.slurm => c[k].after = 1..(Len(tasks) + k - 1)
             /\ conf.slurm /\ k > 1 => c[k].after = {Len(tasks) + k - 1}
             /\ c[k] \in Tasks /\ c[k].kind = "main" /\ c[k].evals = evals
    <2> DEFINE a == IF ~conf.slurm THEN 1..(Len(tasks) + k - 1)
                    ELSE IF k = 1 THEN {} ELSE {Len(tasks) + k - 1}
               p == Len(tasks) + k - 1
    <2>1. k \in Nat /\ k >= 1 /\ p \in Nat /\ (k # 1 => p \in 1..p)  BY <1>1
    <2>2. c[k] = [kind |-> "main", evals |-> evals, after |-> a]  BY <1>2
    <2>3. a \subseteq 1..p  BY <2>1
    <2>4. a \subseteq Nat  BY <2>3
    <2>5. (~conf.slurm => a = 1..p) /\ (conf.slurm /\ k > 1 => a = {p})  BY <2>1
    <2> HIDE DEF a, p
    <2>6. c[k] \in Tasks  BY <2>2, <2>4 DEF Tasks, Kinds
    <2>7. c[k].after = a /\ c[k].kind = "main" /\ c[k].evals = evals  BY <2>2
    <2> QED  BY <2>3, <2>5, <2>6, <2>7 DEF p
<1>4. c = [k \in 1..n |-> c[k]]  BY DEF ChainOf
<1>5. c \in [1..n -> Tasks]
    <2> HIDE DEF c
    <2> QED  BY <1>3, <1>4
<1>6. c \in Seq(Tasks) /\ Len(c) = n
    <2> HIDE DEF c, n
    <2>1. c \in Seq(Tasks)  BY <1>1, <1>5, SeqDef
    <2>2. DOMAIN c = 1..n /\ DOMAIN c = 1..Len(c) /\ Len(c) \in Nat  BY <1>5, <2>1, LenProperties
    <2> QED  BY <1>1, <2>1, <2>2
<1> HIDE DEF c
<1> QED  BY <1>3, <1>6 DEF c

LEMMA AddMainShape == ASSUME Shape, AddMain  PROVE Shape'
<1> DEFINE new == ChainOf(jobs[at])
           d   == conf.dependent + 1
<1>0. /\ pc = "main" /\ at \in 1..(Len(jobs) + 1) /\ at <= Len(jobs)
      /\ jobs \in Seq(SUBSET Evals) /\ main \in Seq(All) /\ tasks \in Seq(Tasks)
      /\ conf \in Configs /\ Len(main) = at - 1
    BY DEF Shape, BuildTypes, JobsShape, AddMain, All
<1>1. Len(jobs) \in Nat /\ DOMAIN jobs = 1..Len(jobs) /\ at \in DOMAIN jobs
    BY <1>0, LenProperties
<1>2. jobs[at] \in SUBSET Evals /\ jobs[at] \subseteq Planned
    BY <1>0, <1>1, ElementOfSeq DEF Shape, JobsShape
<1>3. /\ UNCHANGED <<conf, jobs, judges, step, submits, pc>>
      /\ tasks' = tasks \o new /\ main' = Append(main, Len(tasks')) /\ at' = at + 1
    BY DEF AddMain
<1>4. /\ new \in Seq(Tasks) /\ Len(new) = d
      /\ \A k \in 1..d :
            /\ new[k].kind = "main" /\ new[k].evals = jobs[at]
            /\ new[k].after \subseteq 1..(Len(tasks) + k - 1)
            /\ ~conf.slurm => new[k].after = 1..(Len(tasks) + k - 1)
            /\ conf.slurm /\ k > 1 => new[k].after = {Len(tasks) + k - 1}
    BY <1>2, ChainType DEF Shape
<1>5. d \in Nat /\ d >= 1  BY <1>0, ConfType
<1> HIDE DEF new, d
<1>6. /\ tasks' \in Seq(Tasks)
      /\ Len(tasks) \in Nat /\ Len(tasks') = Len(tasks) + d
      /\ All = 1..Len(tasks) /\ All' = 1..Len(tasks') /\ All \subseteq All'
      /\ \A i \in All : tasks'[i] = tasks[i]
      /\ \A i \in All' \ All : i - Len(tasks) \in 1..d /\ tasks'[i] = new[i - Len(tasks)]
      /\ \A i \in All' : tasks'[i].after \subseteq 1..(i - 1)
    BY <1>3, <1>4, Appended DEF Shape
<1>7. Len(tasks') \in All' /\ main \in Seq(All')
    BY <1>0, <1>5, <1>6, SeqMonotonic
<1>8. /\ main' \in Seq(All') /\ Len(main') = at
      /\ \A m \in 1..(at - 1) : main'[m] = main[m] /\ main[m] \in All
      /\ main'[at] = Len(tasks')
    <2>1. Append(main, Len(tasks')) \in Seq(All') /\ Len(main') = Len(main) + 1
        BY <1>3, <1>7, AppendProperties
    <2>2. \A m \in 1..Len(main) : main'[m] = main[m]  BY <1>3, <1>7, AppendProperties
    <2>3. main'[Len(main) + 1] = Len(tasks')  BY <1>3, <1>7, AppendProperties
    <2>4. \A m \in 1..Len(main) : main[m] \in All  BY <1>0, ElementOfSeq
    <2>5. at \in Nat /\ Len(main) = at - 1 /\ Len(main) + 1 = at  BY <1>0, <1>1
    <2> QED  BY <1>3, <2>1, <2>2, <2>3, <2>4, <2>5
<1>9. DOMAIN main' = 1..at /\ DOMAIN main = 1..(at - 1)  BY <1>0, <1>8, LenProperties
<1>10. \A b : Of(b)' = Of(b) /\ (NeedsJudge(b)' <=> NeedsJudge(b))  BY <1>3 DEF Of, NeedsJudge
<1>11. Planned' = Planned  BY <1>10 DEF Planned
<1>12. \A i \in All' \ All : tasks'[i].kind = "main" /\ tasks'[i].evals = jobs[at]
    BY <1>4, <1>6
<1>13. BuildTypes'
    <2>1. judges' \in [Benchmarks -> SUBSET All']
        BY <1>3, <1>6 DEF Shape, BuildTypes, All
    <2>2. at' \in 1..(Len(jobs') + 1)  BY <1>0, <1>1, <1>3
    <2> QED  BY <1>0, <1>3, <1>6, <1>8, <2>1, <2>2 DEF Shape, BuildTypes, All
<1>14. JobsShape'
    BY <1>0, <1>1, <1>3, <1>8, <1>11 DEF Shape, JobsShape
<1>15. TasksShape'
    <2>1. \A i \in All' : tasks'[i].kind \in Added' /\ tasks'[i].evals \subseteq Planned'
        BY <1>0, <1>2, <1>3, <1>6, <1>11, <1>12 DEF Shape, TasksShape, Added
    <2>2. ASSUME ~conf.slurm, NEW i \in All'  PROVE tasks'[i].after = 1..(i - 1)
        <3>1. CASE i \in All  BY <1>6, <2>2, <3>1 DEF Shape, TasksShape
        <3>2. CASE i \notin All
            <4>1. i - Len(tasks) \in 1..d /\ tasks'[i] = new[i - Len(tasks)]  BY <1>6, <3>2
            <4>2. new[i - Len(tasks)].after = 1..(Len(tasks) + (i - Len(tasks)) - 1)
                BY <1>4, <2>2, <4>1
            <4>3. Len(tasks) + (i - Len(tasks)) - 1 = i - 1  BY <1>6
            <4> QED  BY <4>1, <4>2, <4>3
        <3> QED  BY <3>1, <3>2
    <2> QED  BY <1>3, <2>1, <2>2 DEF TasksShape
<1>16. MainShape'
    <2>1. ASSUME NEW m \in DOMAIN main'
          PROVE  tasks'[main'[m]].kind = "main" /\ tasks'[main'[m]].evals = jobs'[m]
        <3>1. CASE m = at
            <4>1. main'[m] \in All' \ All  BY <3>1, <1>5, <1>6, <1>7, <1>8
            <4> QED  BY <3>1, <4>1, <1>3, <1>12
        <3>2. CASE m # at
            <4>1. m \in DOMAIN main /\ main'[m] = main[m] /\ main[m] \in All
                BY <3>2, <1>0, <1>8, <1>9
            <4> QED  BY <4>1, <1>3, <1>6 DEF Shape, MainShape
        <3> QED  BY <3>1, <3>2
    <2>2. ASSUME NEW i \in All', tasks'[i].kind = "main"
          PROVE  \E m \in DOMAIN main' :
                     /\ tasks'[i].evals = jobs'[m]
                     /\ i <= main'[m]
                     /\ conf'.slurm => Linked(tasks', i, main'[m])
        <3>1. CASE i \in All
            <4>1. tasks'[i] = tasks[i] /\ i \in Nat  BY <3>1, <1>6
            <4>2. PICK m \in DOMAIN main :
                     tasks[i].evals = jobs[m] /\ i <= main[m] /\ (conf.slurm => Linked(tasks, i, main[m]))
                BY <2>2, <3>1, <4>1 DEF Shape, MainShape
            <4>3. m \in DOMAIN main' /\ main'[m] = main[m] /\ main[m] \in All
                BY <1>0, <1>8, <1>9
            <4>4. Linked(tasks', i, main[m]) <=> Linked(tasks, i, main[m])
                BY <1>0, <1>6, <4>1, <4>3, LinkedStays
            <4> QED  BY <4>1, <4>2, <4>3, <4>4, <1>3
        <3>2. CASE i \notin All
            <4>1. tasks'[i].evals = jobs'[at] /\ i <= main'[at] /\ at \in DOMAIN main'
                BY <3>2, <1>0, <1>3, <1>6, <1>8, <1>9, <1>12
            <4>2. ASSUME conf.slurm, NEW n \in (i + 1)..Len(tasks')
                  PROVE  n - 1 \in tasks'[n].after
                <5>1. n \in All' \ All /\ n - Len(tasks) > 1  BY <3>2, <1>6
                <5>2. n - Len(tasks) \in 1..d /\ tasks'[n] = new[n - Len(tasks)]  BY <5>1, <1>6
                <5>3. new[n - Len(tasks)].after = {Len(tasks) + (n - Len(tasks)) - 1}
                    BY <4>2, <5>1, <5>2, <1>4
                <5>4. Len(tasks) + (n - Len(tasks)) - 1 = n - 1  BY <1>6, <5>1
                <5> QED  BY <5>2, <5>3, <5>4
            <4>3. conf'.slurm => Linked(tasks', i, main'[at])  BY <4>2, <1>3, <1>8 DEF Linked
            <4> QED  BY <4>1, <4>3
        <3> QED  BY <3>1, <3>2
    <2> QED  BY <2>1, <2>2 DEF MainShape
<1>17. JudgeShape'
    BY <1>0, <1>3, <1>6, <1>10, <1>12 DEF Shape, JudgeShape, TasksShape, Added, Reached
<1>18. SummaryShape'
    BY <1>3, <1>6, <1>12, SummariesStay
<1>19. Ordered'
    <2>1. \A i \in All : ~(tasks'[i].kind \in {"judge", "summarize", "score"})
        BY <1>0, <1>6 DEF Shape, TasksShape, Added
    <2>2. \A i \in All' : ~(tasks'[i].kind \in {"judge", "summarize", "score"})
        BY <1>12, <2>1
    <2>3. \A i, j \in All' : ~Needs(tasks'[i], tasks'[j])
        BY <2>2, NeedsKinds
    <2> QED  BY <1>3, <1>6, <2>3, OrderedGrows
<1> QED  BY <1>13, <1>14, <1>15, <1>16, <1>17, <1>18, <1>19 DEF Shape

\* The loop over the benchmarks goes on.
LEMMA TurnFacts ==
    ASSUME at \in Benchmarks, NEW phase \in {"judge", "summarize"}, pc = phase,
           NEW next, next \notin {"main", "judge", phase}, Turn(NumBenchmarks, next)
    PROVE  /\ pc' \in {phase, next} /\ at' \in Benchmarks
           /\ \A b \in Benchmarks : Reached(phase, b)' <=> (Reached(phase, b) \/ b = at)
<1>1. at \in 1..NumBenchmarks /\ NumBenchmarks \in Nat \ {0}  BY Constants DEF Benchmarks
<1>2. CASE at = NumBenchmarks
    <2>1. pc' = next /\ at' = 1  BY <1>2 DEF Turn
    <2>2. \A b \in Benchmarks : Reached(phase, b)'  BY <2>1 DEF Reached
    <2>3. \A b \in Benchmarks : b < at \/ b = at  BY <1>1, <1>2 DEF Benchmarks
    <2> QED  BY <2>1, <2>2, <2>3, Constants DEF Reached
<1>3. CASE at # NumBenchmarks
    <2>1. pc' = phase /\ at' = at + 1  BY <1>3 DEF Turn
    <2>2. at' \in Benchmarks  BY <1>1, <1>3, <2>1 DEF Benchmarks
    <2>3. \A b \in Benchmarks : b < at' <=> b < at \/ b = at  BY <1>1, <2>1 DEF Benchmarks
    <2> QED  BY <2>1, <2>2, <2>3 DEF Reached
<1> QED  BY <1>2, <1>3

\* A judge, whatever kind it is of, adds tasks for evaluations of one benchmark.
JudgeTasks ==
    /\ tasks' \in Seq(Tasks) /\ All \subseteq All'
    /\ \A i \in All : tasks'[i] = tasks[i]
    /\ judges' = [judges EXCEPT ![at] = All' \ All]
    /\ \A i \in All' : tasks'[i].after \subseteq 1..(i - 1)
    /\ \A i \in All' \ All :
          /\ tasks'[i].kind = "judge" /\ tasks'[i].evals \subseteq Of(at)
          /\ tasks'[i].after = IF conf.slurm THEN MainOf(at) ELSE 1..(i - 1)
          /\ All \subseteq 1..(i - 1)

LEMMA JudgesShape ==
    ASSUME Shape, pc = "judge", NeedsJudge(at), Turn(NumBenchmarks, "summarize"),
           UNCHANGED <<conf, jobs, main, submits>>, step' \in BOOLEAN, step => step', JudgeTasks
    PROVE  Shape'
<1>0. /\ tasks' \in Seq(Tasks) /\ All \subseteq All'
      /\ \A i \in All : tasks'[i] = tasks[i]
      /\ judges' = [judges EXCEPT ![at] = All' \ All]
      /\ \A i \in All' : tasks'[i].after \subseteq 1..(i - 1)
      /\ \A i \in All' \ All :
            /\ tasks'[i].kind = "judge" /\ tasks'[i].evals \subseteq Of(at)
            /\ tasks'[i].after = IF conf.slurm THEN MainOf(at) ELSE 1..(i - 1)
            /\ All \subseteq 1..(i - 1)
    BY DEF JudgeTasks
<1> USE <1>0
<1>1. /\ at \in Benchmarks /\ conf \in Configs /\ tasks \in Seq(Tasks)
      /\ judges \in [Benchmarks -> SUBSET All]
    BY DEF Shape, BuildTypes, All
<1>2. /\ pc' \in {"judge", "summarize"} /\ at' \in Benchmarks
      /\ \A b \in Benchmarks : Reached("judge", b)' <=> (Reached("judge", b) \/ b = at)
    BY <1>1, TurnFacts
<1>3. \A b : Of(b)' = Of(b) /\ (NeedsJudge(b)' <=> NeedsJudge(b))  BY DEF Of, NeedsJudge
<1>4. Planned' = Planned /\ Of(at) \subseteq Planned  BY <1>1, <1>3, PlannedType DEF Planned
<1>5. MainShape' /\ main' \in Seq(All')  BY MainsStay
<1>6. SummaryShape'  BY SummariesStay
<1>7. /\ judges' \in [Benchmarks -> SUBSET All'] /\ judges'[at] = All' \ All
      /\ \A b \in Benchmarks \ {at} : judges'[b] = judges[b]
    BY <1>1
<1>8. judges[at] = {}
    <2>1. ~Reached("judge", at)  BY <1>1, Constants DEF Reached, Benchmarks
    <2> QED  BY <1>1, <2>1 DEF Shape, JudgeShape
<1>9. BuildTypes'
    <2>1. pc' # "main" /\ pc' \in {"idle", "run"} \cup Kinds  BY <1>2 DEF Kinds
    <2> QED  BY <1>2, <1>5, <1>7, <2>1 DEF Shape, BuildTypes, All
<1>10. JobsShape'  BY <1>2, <1>4 DEF Shape, JobsShape
<1>11. TasksShape'
    <2>1. \A i \in All' : tasks'[i].kind \in Added' /\ tasks'[i].evals \subseteq Planned'
        <3>1. \A i \in All : tasks[i].kind \in {"main", "judge"} /\ tasks[i].evals \subseteq Planned
            BY DEF Shape, TasksShape, Added
        <3>2. {"main", "judge"} \subseteq Added'  BY <1>2 DEF Added, Kinds
        <3> QED  BY <3>1, <3>2, <1>4
    <2>2. ASSUME ~conf.slurm, NEW i \in All'  PROVE tasks'[i].after = 1..(i - 1)
        BY <2>2 DEF Shape, TasksShape
    <2> QED  BY <2>1, <2>2 DEF TasksShape
<1>12. JudgeShape'
    <2>1. ASSUME NEW i \in All', tasks'[i].kind = "judge"
          PROVE  \E b \in Benchmarks : i \in judges'[b] /\ tasks'[i].evals \subseteq Of(b)
        <3>1. CASE i \in All
            <4>1. PICK b \in Benchmarks : i \in judges[b] /\ tasks[i].evals \subseteq Of(b)
                BY <2>1, <3>1 DEF Shape, JudgeShape
            <4>2. b # at  BY <4>1, <1>8
            <4> QED  BY <3>1, <4>1, <4>2, <1>7
        <3>2. CASE i \notin All  BY <3>2, <1>1, <1>7
        <3> QED  BY <3>1, <3>2
    <2>2. ASSUME NEW b \in Benchmarks, judges'[b] # {}
          PROVE  NeedsJudge(b) /\ Reached("judge", b)'
        <3>1. CASE b = at  BY <3>1, <1>2
        <3>2. CASE b # at  BY <2>2, <3>2, <1>2, <1>7 DEF Shape, JudgeShape
        <3> QED  BY <3>1, <3>2
    <2> QED  BY <2>1, <2>2, <1>3 DEF JudgeShape
<1>13. Ordered'
    <2>1. \A i \in All : tasks'[i].kind \in {"main", "judge"}
        BY DEF Shape, TasksShape, Added
    <2>2. \A i \in All' \ All : tasks'[i].kind = "judge"  OBVIOUS
    <2>3. ASSUME NEW i \in All, NEW j \in All' \ All  PROVE ~Needs(tasks'[i], tasks'[j])
        BY <2>1, <2>2, NeedsKinds
    <2>4. ASSUME NEW i \in All' \ All, NEW j \in All', Needs(tasks'[i], tasks'[j])
          PROVE  WaitsFor(i, j)'
        <3>1. tasks'[j].kind = "main" /\ tasks'[i].evals \cap tasks'[j].evals # {}
            BY <2>2, <2>4 DEF Needs
        <3>2. j \in All /\ tasks'[j] = tasks[j]  BY <2>2, <3>1
        <3>3. tasks[j].evals \cap Of(at) # {}  BY <3>1, <3>2
        <3>4. CASE conf.slurm
            <4>1. PICK m \in MainOf(at) : j <= m /\ Linked(tasks, j, m)
                BY <1>1, <3>1, <3>2, <3>3, <3>4, MainsAwaited
            <4>2. m \in All  BY <1>1, MainsAwaited
            <4>3. j \in Nat  BY <1>1, <3>2, LenProperties DEF All
            <4>4. Linked(tasks', j, m)  BY <1>1, <4>1, <4>2, <4>3, LinkedStays
            <4>5. m \in tasks'[i].after  BY <3>4
            <4> QED  BY <3>4, <4>1, <4>4, <4>5 DEF WaitsFor
        <3>5. CASE ~conf.slurm
            <4>1. j \in tasks'[i].after  BY <3>2, <3>5
            <4> QED  BY <3>5, <4>1 DEF WaitsFor
        <3> QED  BY <3>4, <3>5
    <2> QED  BY <2>3, <2>4, OrderedGrows
<1> QED  BY <1>5, <1>6, <1>9, <1>10, <1>11, <1>12, <1>13 DEF Shape

LEMMA StepJudgeTasks ==
    ASSUME Shape, AddStepJudge
    PROVE  JudgeTasks /\ \A x \in Of(at) :
               (\E i \in All' \ All : x \in tasks'[i].evals) \/ (~conf.rerun /\ judged[x] # 0)
<1> DEFINE left == {x \in Of(at) : conf.rerun \/ judged[x] = 0}
<1>1. /\ pc = "judge" /\ NeedsJudge(at) /\ Turn(NumBenchmarks, "summarize")
      /\ UNCHANGED <<conf, jobs, main, submits>> /\ step' = TRUE
    BY DEF AddStepJudge
<1>2. /\ at \in Benchmarks /\ conf \in Configs /\ tasks \in Seq(Tasks)
      /\ judges \in [Benchmarks -> SUBSET All] /\ BuildTypes
    BY <1>1 DEF Shape, BuildTypes, All
<1>3. CASE left = {}
    <2>1. UNCHANGED <<tasks, judges>>  BY <1>3 DEF AddStepJudge
    <2>2. All' = All  BY <2>1 DEF All
    <2>3. judges[at] = {}
        <3>1. ~Reached("judge", at)  BY <1>1, <1>2, Constants DEF Reached, Benchmarks
        <3> QED  BY <1>2, <3>1 DEF Shape, JudgeShape
    <2>4. judges' = [judges EXCEPT ![at] = All' \ All]  BY <2>1, <2>2, <2>3, <1>2
    <2>5. \A i \in All' : tasks'[i].after \subseteq 1..(i - 1)
        BY <1>2, <2>1 DEF BuildTypes, All
    <2>6. JudgeTasks  BY <1>2, <2>1, <2>2, <2>4, <2>5 DEF JudgeTasks
    <2> QED  BY <1>3, <2>6
<1>4. CASE left # {}
    <2>1. PICK evals \in {left, Of(at)} :
            Add("judge", evals, MainOf(at)) /\ judges' = [judges EXCEPT ![at] = {Len(tasks')}]
        BY <1>4 DEF AddStepJudge
    <2>2. MainOf(at) \in SUBSET All  BY <1>1, <1>2, MainsAwaited
    <2>3. evals \in SUBSET Evals /\ "judge" \in Kinds  BY <1>2, <2>1, OfType DEF Kinds
    <2>4. evals \subseteq Of(at) /\ \A x \in Of(at) : x \in evals \/ (~conf.rerun /\ judged[x] # 0)
        BY <2>1
    <2> HIDE DEF left
    <2>5. /\ tasks' \in Seq(Tasks)
          /\ Len(tasks) \in Nat /\ Len(tasks') = Len(tasks) + 1
          /\ All = 1..Len(tasks) /\ All' = 1..Len(tasks') /\ All \subseteq All'
          /\ \A i \in All : tasks'[i] = tasks[i]
          /\ \A i \in All' \ All :
                i = Len(tasks') /\ tasks'[i] = [kind |-> "judge", evals |-> evals,
                                                after |-> IF conf.slurm THEN MainOf(at) ELSE All]
          /\ \A i \in All' : tasks'[i].after \subseteq 1..(i - 1)
        BY <1>2, <2>1, <2>2, <2>3, AddedOne
    <2>6. All' \ All = {Len(tasks')}  BY <2>5
    <2>7. ASSUME NEW i \in All' \ All
          PROVE  /\ tasks'[i].kind = "judge" /\ tasks'[i].evals \subseteq Of(at)
                 /\ tasks'[i].after = IF conf.slurm THEN MainOf(at) ELSE 1..(i - 1)
                 /\ All \subseteq 1..(i - 1)
        <3>1. All = 1..(i - 1)  BY <2>5
        <3> QED  BY <2>4, <2>5, <3>1
    <2>8. JudgeTasks  BY <2>1, <2>5, <2>6, <2>7 DEF JudgeTasks
    <2>9. \A x \in evals : \E i \in All' \ All : x \in tasks'[i].evals  BY <2>5, <2>6
    <2> QED  BY <2>4, <2>8, <2>9
<1> QED  BY <1>3, <1>4

\* SetToSeq lists the elements of a finite set, each of them once.
LEMMA Listed ==
    ASSUME NEW S, IsFiniteSet(S)
    PROVE  /\ SetToSeq(S) \in Seq(S)
           /\ DOMAIN SetToSeq(S) = 1..Len(SetToSeq(S))
           /\ \A x \in S : \E k \in DOMAIN SetToSeq(S) : SetToSeq(S)[k] = x
<1> DEFINE n == Cardinality(S)
           s == SetToSeq(S)
<1>1. n \in Nat /\ ExistsBijection(1..n, S)  BY FS_CardinalityType
<1>2. \E f \in [1..n -> S] : IsInjective(f)
    BY <1>1 DEF ExistsBijection, Bijection, Injection
<1>3. s \in [1..n -> S] /\ IsInjective(s)  BY <1>2 DEF SetToSeq
<1> HIDE DEF s
<1>4. s \in Injection(1..n, S)  BY <1>3 DEF Injection
<1>5. IsFiniteSet(1..n) /\ Cardinality(1..n) = n  BY <1>1, FS_Interval
<1>6. s \in Surjection(1..n, S)  BY <1>4, <1>5, FS_Injection
<1>7. \A x \in S : \E k \in 1..n : s[k] = x  BY <1>6 DEF Surjection
<1>8. s \in Seq(S) /\ DOMAIN s = 1..n  BY <1>1, <1>3, SeqDef
<1> QED  BY <1>7, <1>8, LenProperties DEF s

LEMMA LlmJudgeTasks ==
    ASSUME Shape, AddLlmJudge
    PROVE  JudgeTasks /\ \A x \in Of(at) :
               (\E i \in All' \ All : x \in tasks'[i].evals) \/ judged[x] # 0
<1> DEFINE S    == {x \in Of(at) : judged[x] = 0}
           left == SetToSeq(S)
           aft(k) == IF conf.slurm THEN MainOf(at) ELSE 1..(Len(tasks) + k - 1)
           new  == [k \in DOMAIN left |-> [kind |-> "judge", evals |-> {left[k]}, after |-> aft(k)]]
<1>1. /\ pc = "judge" /\ tasks' = tasks \o new
      /\ judges' = [judges EXCEPT ![at] = (Len(tasks) + 1)..(Len(tasks) + Len(left))]
    BY DEF AddLlmJudge
<1>2. /\ at \in Benchmarks /\ conf \in Configs /\ tasks \in Seq(Tasks)
      /\ judges \in [Benchmarks -> SUBSET All] /\ BuildTypes
    BY <1>1 DEF Shape, BuildTypes, All
<1>3. Len(tasks) \in Nat /\ All = 1..Len(tasks)  BY <1>2, LenProperties DEF All
<1>4. S \subseteq Evals /\ S \subseteq Of(at) /\ \A x \in Of(at) : x \in S \/ judged[x] # 0
    BY <1>2, OfType
<1>5. IsFiniteSet(S)
    <2> HIDE DEF S
    <2> QED  BY <1>4, EvalsFinite, FS_Subset
<1> HIDE DEF S
<1>6. /\ left \in Seq(S) /\ DOMAIN left = 1..Len(left) /\ Len(left) \in Nat
      /\ \A x \in S : \E k \in DOMAIN left : left[k] = x
    BY <1>5, Listed, LenProperties
<1> HIDE DEF left
<1>7. \A k \in DOMAIN left : left[k] \in S  BY <1>6, ElementOfSeq
<1>8. MainOf(at) \subseteq All  BY <1>1, <1>2, MainsAwaited
<1>9. ASSUME NEW k \in 1..Len(left)
      PROVE  aft(k) \subseteq 1..(Len(tasks) + k - 1) /\ aft(k) \in SUBSET Nat
    BY <1>3, <1>6, <1>8
<1> HIDE DEF aft
<1>10. \A k \in 1..Len(left) :
          /\ new[k] = [kind |-> "judge", evals |-> {left[k]}, after |-> aft(k)]
          /\ new[k] \in Tasks
    <2> SUFFICES ASSUME NEW k \in 1..Len(left)
                 PROVE  /\ new[k] = [kind |-> "judge", evals |-> {left[k]}, after |-> aft(k)]
                        /\ new[k] \in Tasks
        OBVIOUS
    <2>1. {left[k]} \in SUBSET Evals  BY <1>4, <1>6, <1>7
    <2>2. new[k] = [kind |-> "judge", evals |-> {left[k]}, after |-> aft(k)]  BY <1>6
    <2> HIDE DEF new
    <2>3. new[k] \in Tasks  BY <1>9, <2>1, <2>2 DEF Tasks, Kinds
    <2> QED  BY <2>2, <2>3
<1>11. DOMAIN new = 1..Len(left) /\ new = [k \in 1..Len(left) |-> new[k]]  BY <1>6
<1> HIDE DEF new
<1>12. new \in [1..Len(left) -> Tasks]  BY <1>10, <1>11
<1>13. new \in Seq(Tasks)  BY <1>6, <1>12, SeqDef
<1>14. Len(new) = Len(left)  BY <1>6, <1>11, <1>13, LenProperties
<1>15. \A k \in 1..Len(new) :
          /\ new[k].kind = "judge" /\ new[k].evals = {left[k]} /\ new[k].after = aft(k)
          /\ new[k].after \subseteq 1..(Len(tasks) + k - 1)
    <2> SUFFICES ASSUME NEW k \in 1..Len(new)
                 PROVE  /\ new[k].kind = "judge" /\ new[k].evals = {left[k]}
                        /\ new[k].after = aft(k)
                        /\ new[k].after \subseteq 1..(Len(tasks) + k - 1)
        OBVIOUS
    <2>1. k \in 1..Len(left)  BY <1>14
    <2>2. new[k] = [kind |-> "judge", evals |-> {left[k]}, after |-> aft(k)]  BY <1>10, <2>1
    <2>3. new[k].kind = "judge" /\ new[k].evals = {left[k]} /\ new[k].after = aft(k)  BY <2>2
    <2>4. aft(k) \subseteq 1..(Len(tasks) + k - 1)  BY <1>9, <2>1
    <2> QED  BY <2>3, <2>4
<1>16. /\ tasks' \in Seq(Tasks)
       /\ Len(tasks') = Len(tasks) + Len(left)
       /\ All' = 1..Len(tasks') /\ All \subseteq All'
       /\ \A i \in All : tasks'[i] = tasks[i]
       /\ \A i \in All' \ All : i - Len(tasks) \in 1..Len(left) /\ tasks'[i] = new[i - Len(tasks)]
       /\ \A i \in All' : tasks'[i].after \subseteq 1..(i - 1)
    BY <1>1, <1>2, <1>13, <1>14, <1>15, Appended
<1>17. All' \ All = (Len(tasks) + 1)..(Len(tasks) + Len(left))  BY <1>3, <1>6, <1>16
<1>18. ASSUME NEW i \in All' \ All
       PROVE  /\ tasks'[i].kind = "judge" /\ tasks'[i].evals \subseteq Of(at)
              /\ tasks'[i].after = IF conf.slurm THEN MainOf(at) ELSE 1..(i - 1)
              /\ All \subseteq 1..(i - 1)
    <2> DEFINE k == i - Len(tasks)
    <2>1. k \in 1..Len(new) /\ tasks'[i] = new[k] /\ i = Len(tasks) + k /\ i \in Nat
        BY <1>3, <1>14, <1>16
    <2> HIDE DEF k
    <2>2. new[k].kind = "judge" /\ new[k].evals = {left[k]} /\ new[k].after = aft(k)  BY <2>1, <1>15
    <2>3. left[k] \in Of(at)  BY <2>1, <1>4, <1>6, <1>7, <1>14
    <2>4. aft(k) = IF conf.slurm THEN MainOf(at) ELSE 1..(i - 1)  BY <2>1 DEF aft
    <2>5. All \subseteq 1..(i - 1)  BY <1>3, <1>17
    <2> QED  BY <2>1, <2>2, <2>3, <2>4, <2>5
<1>19. JudgeTasks  BY <1>1, <1>16, <1>17, <1>18 DEF JudgeTasks
<1>20. ASSUME NEW x \in S  PROVE \E i \in All' \ All : x \in tasks'[i].evals
    <2>1. PICK k \in 1..Len(left) : left[k] = x  BY <1>6
    <2> DEFINE i == Len(tasks) + k
    <2>2. i \in All' \ All /\ i - Len(tasks) = k  BY <1>3, <1>6, <1>17
    <2> HIDE DEF i
    <2>3. tasks'[i] = new[k]  BY <1>16, <2>2
    <2> QED  BY <2>1, <2>2, <2>3, <1>14, <1>15
<1> QED  BY <1>4, <1>19, <1>20

LEMMA JudgeShapes ==
    ASSUME Shape, AddStepJudge \/ AddLlmJudge
    PROVE  Shape' /\ JudgeTasks
<1>1. /\ pc = "judge" /\ NeedsJudge(at) /\ Turn(NumBenchmarks, "summarize")
      /\ UNCHANGED <<conf, jobs, main, submits>>
    BY DEF AddStepJudge, AddLlmJudge
<1>2. step' \in BOOLEAN /\ (step => step')
    <2>1. step \in BOOLEAN  BY DEF Shape, BuildTypes
    <2>2. step' = TRUE \/ step' = step  BY DEF AddStepJudge, AddLlmJudge
    <2> QED  BY <2>1, <2>2
<1>3. JudgeTasks  BY StepJudgeTasks, LlmJudgeTasks
<1> QED  BY <1>1, <1>2, <1>3, JudgesShape

LEMMA AddSummaryShape == ASSUME Shape, AddSummary  PROVE Shape'
<1> DEFINE needs == IF judges[at] # {} THEN judges[at] ELSE MainOf(at)
           next  == IF conf.grouped = {} THEN "run" ELSE "score"
<1>1. /\ pc = "summarize" /\ Add("summarize", Of(at), needs) /\ Turn(NumBenchmarks, next)
      /\ UNCHANGED <<conf, jobs, main, judges, step, submits>>
    BY DEF AddSummary
<1>2. /\ at \in Benchmarks /\ conf \in Configs /\ tasks \in Seq(Tasks)
      /\ judges \in [Benchmarks -> SUBSET All] /\ BuildTypes
    BY <1>1 DEF Shape, BuildTypes, All
<1>3. needs \in SUBSET All  BY <1>1, <1>2, MainsAwaited
<1>4. Of(at) \in SUBSET Evals /\ Of(at) \subseteq Planned  BY <1>2, OfType, PlannedType
<1>5. next \in {"run", "score"}  OBVIOUS
<1> HIDE DEF needs, next
<1>6. /\ tasks' \in Seq(Tasks)
      /\ Len(tasks) \in Nat /\ Len(tasks') = Len(tasks) + 1
      /\ All = 1..Len(tasks) /\ All' = 1..Len(tasks') /\ All \subseteq All'
      /\ \A i \in All : tasks'[i] = tasks[i]
      /\ \A i \in All' \ All :
            i = Len(tasks') /\ tasks'[i] = [kind |-> "summarize", evals |-> Of(at),
                                            after |-> IF conf.slurm THEN needs ELSE All]
      /\ \A i \in All' : tasks'[i].after \subseteq 1..(i - 1)
    BY <1>1, <1>2, <1>3, <1>4, AddedOne DEF Kinds
<1>7. \A i \in All' \ All :
          /\ tasks'[i].kind = "summarize" /\ tasks'[i].evals = Of(at)
          /\ tasks'[i].after = IF conf.slurm THEN needs ELSE 1..(i - 1)
          /\ All = 1..(i - 1)
    BY <1>6
<1>8. pc' \in {"summarize", "run", "score"} /\ at' \in Benchmarks
    BY <1>1, <1>2, <1>5, TurnFacts
<1>9. \A b : Of(b)' = Of(b) /\ (NeedsJudge(b)' <=> NeedsJudge(b))  BY <1>1 DEF Of, NeedsJudge
<1>10. Planned' = Planned  BY <1>9 DEF Planned
<1>11. MainShape' /\ main' \in Seq(All')  BY <1>1, <1>6, <1>7, MainsStay
<1>12. BuildTypes'
    <2>1. pc' # "main" /\ pc' \in {"idle", "run"} \cup Kinds  BY <1>8 DEF Kinds
    <2>2. judges' \in [Benchmarks -> SUBSET All']  BY <1>1, <1>2, <1>6
    <2> QED  BY <1>1, <1>6, <1>8, <1>11, <2>1, <2>2 DEF Shape, BuildTypes, All
<1>13. JobsShape'  BY <1>1, <1>8, <1>10 DEF Shape, JobsShape
<1>14. TasksShape'
    <2>1. \A i \in All' : tasks'[i].kind \in Added' /\ tasks'[i].evals \subseteq Planned'
        <3>1. \A i \in All : tasks[i].kind \in Kinds \ {"score"} /\ tasks[i].evals \subseteq Planned
            BY <1>1 DEF Shape, TasksShape, Added
        <3>2. Kinds \ {"score"} \subseteq Added' /\ "summarize" \in Added'
            BY <1>8 DEF Added, Kinds
        <3> QED  BY <3>1, <3>2, <1>4, <1>6, <1>7, <1>10
    <2>2. ASSUME ~conf.slurm, NEW i \in All'  PROVE tasks'[i].after = 1..(i - 1)
        BY <2>2, <1>6, <1>7 DEF Shape, TasksShape
    <2> QED  BY <2>1, <2>2, <1>1 DEF TasksShape
<1>15. JudgeShape'
    <2>1. \A b \in Benchmarks : Reached("judge", b)'  BY <1>8 DEF Reached
    <2> QED  BY <2>1, <1>1, <1>6, <1>7, <1>9 DEF Shape, JudgeShape
<1>16. SummaryShape'
    <2>1. ASSUME NEW i \in All', tasks'[i].kind = "summarize"
          PROVE  \E b \in Benchmarks : tasks'[i].evals = Of(b)'
        <3>1. CASE i \in All  BY <2>1, <3>1, <1>6, <1>9 DEF Shape, SummaryShape
        <3>2. CASE i \notin All  BY <3>2, <1>2, <1>7, <1>9
        <3> QED  BY <3>1, <3>2
    <2>2. \A i \in All' : tasks'[i].kind # "score"
        BY <1>1, <1>6, <1>7 DEF Shape, TasksShape, Added
    <2> QED  BY <2>1, <2>2 DEF SummaryShape
<1>17. Ordered'
    <2>1. \A i \in All : tasks'[i].kind # "score"
        BY <1>1, <1>6 DEF Shape, TasksShape, Added
    <2>2. ASSUME NEW i \in All, NEW j \in All' \ All  PROVE ~Needs(tasks'[i], tasks'[j])
        BY <2>1, <1>7, NeedsKinds
    <2>3. ASSUME NEW i \in All' \ All, NEW j \in All', Needs(tasks'[i], tasks'[j])
          PROVE  WaitsFor(i, j)'
        <3>1. tasks'[j].kind \in {"judge", "main"}  BY <1>7, <2>3, NeedsKinds
        <3>2. j \in All /\ tasks'[j] = tasks[j]  BY <1>6, <1>7, <3>1
        <3>3. PICK x \in Of(at) \cap tasks[j].evals :
                 \/ tasks[j].kind = "judge" /\ NeedsJudge(x[1])
                 \/ tasks[j].kind = "main" /\ ~NeedsJudge(x[1])
            BY <1>7, <2>3, <3>2 DEF Needs
        <3>4. x[1] = at  BY <1>2, <3>3, OfType
        <3>5. j \in Nat /\ tasks'[i].after = IF conf.slurm THEN needs ELSE 1..(i - 1)
            BY <1>6, <1>7, <3>2
        <3>6. CASE ~conf.slurm
            <4>1. j \in tasks'[i].after  BY <3>2, <3>5, <3>6, <1>7
            <4> QED  BY <4>1, <3>6, <1>1 DEF WaitsFor
        <3>7. CASE conf.slurm /\ tasks[j].kind = "judge" /\ NeedsJudge(at)
            <4>1. PICK b \in Benchmarks : j \in judges[b] /\ tasks[j].evals \subseteq Of(b)
                BY <3>2, <3>7 DEF Shape, JudgeShape
            <4>2. b = at  BY <1>2, <3>3, <4>1, OfInjective
            <4>3. j \in tasks'[i].after  BY <3>5, <3>7, <4>1, <4>2 DEF needs
            <4>4. j <= j /\ Linked(tasks', j, j)  BY <3>5 DEF Linked
            <4> QED  BY <4>3, <4>4, <3>7, <1>1 DEF WaitsFor
        <3>8. CASE conf.slurm /\ tasks[j].kind = "main" /\ ~NeedsJudge(at)
            <4>1. judges[at] = {}  BY <1>2, <3>8 DEF Shape, JudgeShape
            <4>2. PICK m \in MainOf(at) : j <= m /\ Linked(tasks, j, m)
                BY <1>1, <1>2, <3>2, <3>3, <3>8, MainsAwaited
            <4>3. m \in All  BY <1>1, <1>2, MainsAwaited
            <4>4. Linked(tasks', j, m)  BY <1>2, <1>6, <4>2, <4>3, <3>5, LinkedStays
            <4>5. m \in tasks'[i].after  BY <3>5, <3>8, <4>1, <4>2 DEF needs
            <4> QED  BY <4>2, <4>4, <4>5, <3>8, <1>1 DEF WaitsFor
        <3> QED  BY <3>3, <3>4, <3>6, <3>7, <3>8
    <2> QED  BY <2>2, <2>3, <1>1, <1>6, OrderedGrows
<1> QED  BY <1>11, <1>12, <1>13, <1>14, <1>15, <1>16, <1>17 DEF Shape

LEMMA AddScoreShape == ASSUME Shape, AddScore  PROVE Shape'
<1> DEFINE needs == SummariesOf(conf.grouped)
           evals == UNION {Of(b) : b \in conf.grouped}
<1>1. /\ pc = "score" /\ Add("score", evals, needs) /\ pc' = "run" /\ at' = 1
      /\ UNCHANGED <<conf, jobs, main, judges, step, submits>>
    BY DEF AddScore
<1>2. /\ at \in Benchmarks /\ conf \in Configs /\ tasks \in Seq(Tasks)
      /\ judges \in [Benchmarks -> SUBSET All] /\ BuildTypes
    BY <1>1 DEF Shape, BuildTypes, All
<1>3. needs \in SUBSET All  BY DEF SummariesOf
<1>4. evals \in SUBSET Evals /\ evals \subseteq Planned
    BY <1>2, ConfType, PlannedType DEF Planned
<1> HIDE DEF needs, evals
<1>6. /\ tasks' \in Seq(Tasks)
      /\ Len(tasks) \in Nat /\ Len(tasks') = Len(tasks) + 1
      /\ All = 1..Len(tasks) /\ All' = 1..Len(tasks') /\ All \subseteq All'
      /\ \A i \in All : tasks'[i] = tasks[i]
      /\ \A i \in All' \ All :
            i = Len(tasks') /\ tasks'[i] = [kind |-> "score", evals |-> evals,
                                            after |-> IF conf.slurm THEN needs ELSE All]
      /\ \A i \in All' : tasks'[i].after \subseteq 1..(i - 1)
    BY <1>1, <1>2, <1>3, <1>4, AddedOne DEF Kinds
<1>7. \A i \in All' \ All :
          /\ tasks'[i].kind = "score" /\ tasks'[i].evals = evals
          /\ tasks'[i].after = IF conf.slurm THEN needs ELSE 1..(i - 1)
          /\ All = 1..(i - 1)
    BY <1>6
<1>9. \A b : Of(b)' = Of(b) /\ (NeedsJudge(b)' <=> NeedsJudge(b))  BY <1>1 DEF Of, NeedsJudge
<1>10. Planned' = Planned  BY <1>9 DEF Planned
<1>11. MainShape' /\ main' \in Seq(All')  BY <1>1, <1>6, <1>7, MainsStay
<1>12. BuildTypes'
    <2>1. judges' \in [Benchmarks -> SUBSET All']  BY <1>1, <1>2, <1>6
    <2> QED  BY <1>1, <1>6, <1>11, <2>1, Constants DEF Shape, BuildTypes, All
<1>13. JobsShape'  BY <1>1, <1>10 DEF Shape, JobsShape
<1>14. TasksShape'
    <2>1. \A i \in All' : tasks'[i].kind \in Added' /\ tasks'[i].evals \subseteq Planned'
        <3>1. \A i \in All : tasks[i].kind \in Kinds /\ tasks[i].evals \subseteq Planned
            BY <1>1 DEF Shape, TasksShape, Added
        <3>2. Added' = Kinds  BY <1>1 DEF Added, Kinds
        <3> QED  BY <3>1, <3>2, <1>4, <1>6, <1>7, <1>10 DEF Kinds
    <2>2. ASSUME ~conf.slurm, NEW i \in All'  PROVE tasks'[i].after = 1..(i - 1)
        BY <2>2, <1>6, <1>7 DEF Shape, TasksShape
    <2> QED  BY <2>1, <2>2, <1>1 DEF TasksShape
<1>15. JudgeShape'
    <2>1. \A b \in Benchmarks : Reached("judge", b)'  BY <1>1 DEF Reached
    <2> QED  BY <2>1, <1>1, <1>6, <1>7, <1>9 DEF Shape, JudgeShape
<1>16. SummaryShape'
    <2>1. evals = (UNION {Of(b) : b \in conf.grouped})'  BY <1>1, <1>9 DEF evals
    <2> QED  BY <2>1, <1>1, <1>6, <1>7, <1>9 DEF Shape, SummaryShape
<1>17. Ordered'
    <2>1. ASSUME NEW i \in All, NEW j \in All' \ All  PROVE ~Needs(tasks'[i], tasks'[j])
        BY <1>7, NeedsKinds
    <2>2. ASSUME NEW i \in All' \ All, NEW j \in All', Needs(tasks'[i], tasks'[j])
          PROVE  WaitsFor(i, j)'
        <3>1. tasks'[j].kind = "summarize"  BY <1>7, <2>2, NeedsKinds
        <3>2. j \in All /\ tasks'[j] = tasks[j]  BY <1>6, <1>7, <3>1
        <3>3. PICK x \in evals : x \in tasks[j].evals  BY <1>7, <2>2, <3>2 DEF Needs
        <3>4. PICK b \in conf.grouped : x \in Of(b)  BY <3>3 DEF evals
        <3>5. PICK c \in Benchmarks : tasks[j].evals = Of(c)
            BY <3>1, <3>2 DEF Shape, SummaryShape
        <3>6. b = c  BY <1>2, <3>3, <3>4, <3>5, OfInjective, ConfType
        <3>7. j \in needs  BY <3>1, <3>2, <3>4, <3>5, <3>6 DEF needs, SummariesOf
        <3>8. j \in Nat /\ tasks'[i].after = IF conf.slurm THEN needs ELSE 1..(i - 1)
            BY <1>6, <1>7, <3>2
        <3>9. j \in tasks'[i].after  BY <3>2, <3>7, <3>8, <1>7
        <3>10. j <= j /\ Linked(tasks', j, j)  BY <3>8 DEF Linked
        <3> QED  BY <3>9, <3>10 DEF WaitsFor
    <2> QED  BY <2>1, <2>2, <1>1, <1>6, OrderedGrows
<1> QED  BY <1>11, <1>12, <1>13, <1>14, <1>15, <1>16, <1>17 DEF Shape

\* Steps that add no task
LEMMA SameTasksShape ==
    ASSUME Shape, UNCHANGED <<conf, jobs, main, judges, step, tasks, submits>>,
           pc' \in {"idle", "run"} \cup Kinds,
           at' \in IF pc' = "main" THEN 1..(Len(jobs) + 1) ELSE Benchmarks,
           IF pc' = "main" THEN Len(main) = at' - 1 ELSE Len(main) = Len(jobs),
           Added \subseteq Added',
           \A b \in Benchmarks : Reached("judge", b) => Reached("judge", b)'
    PROVE  Shape'
<1>1. \A b : Of(b)' = Of(b) /\ (NeedsJudge(b)' <=> NeedsJudge(b))  BY DEF Of, NeedsJudge
<1>2. Planned' = Planned /\ All' = All  BY <1>1 DEF Planned, All
<1>3. BuildTypes'  BY DEF Shape, BuildTypes
<1>4. JobsShape'  BY <1>2 DEF Shape, JobsShape
<1>5. TasksShape'  BY <1>2 DEF Shape, TasksShape
<1>6. MainShape'  BY <1>2 DEF Shape, MainShape, Linked
<1>7. JudgeShape'  BY <1>1, <1>2 DEF Shape, JudgeShape
<1>8. SummaryShape'  BY <1>1, <1>2 DEF Shape, SummaryShape
<1>9. Ordered'  BY <1>2, OrderedGrows
<1> QED  BY <1>3, <1>4, <1>5, <1>6, <1>7, <1>8, <1>9 DEF Shape

LEMMA MainDoneShape == ASSUME Shape, MainDone  PROVE Shape'
<1>1. pc = "main" /\ at > Len(jobs) /\ pc' = "judge" /\ at' = 1
    BY DEF MainDone
<1>2. UNCHANGED <<conf, jobs, main, judges, step, tasks, submits>>  BY DEF MainDone
<1>3. at \in 1..(Len(jobs) + 1) /\ Len(main) = at - 1 /\ Len(jobs) \in Nat
    BY <1>1, LenProperties DEF Shape, BuildTypes, JobsShape
<1>4. Len(main) = Len(jobs)  BY <1>1, <1>3
<1>5. Added \subseteq Added'  BY <1>1 DEF Added
<1>6. \A b \in Benchmarks : ~Reached("judge", b)  BY <1>1 DEF Reached
<1>7. pc' \in {"idle", "run"} \cup Kinds /\ at' \in Benchmarks
    BY <1>1, Constants DEF Kinds
<1> QED  BY <1>1, <1>2, <1>4, <1>5, <1>6, <1>7, SameTasksShape

LEMMA SkipJudgeShape == ASSUME Shape, SkipJudge  PROVE Shape'
<1>1. pc = "judge" /\ Turn(NumBenchmarks, "summarize")  BY DEF SkipJudge
<1>2. UNCHANGED <<conf, jobs, main, judges, step, tasks, submits>>  BY DEF SkipJudge
<1>3. at \in Benchmarks /\ Len(main) = Len(jobs)
    BY <1>1 DEF Shape, BuildTypes, JobsShape
<1>4. /\ pc' \in {"judge", "summarize"} /\ at' \in Benchmarks
      /\ \A b \in Benchmarks : Reached("judge", b)' <=> (Reached("judge", b) \/ b = at)
    BY <1>1, <1>3, TurnFacts
<1>5. Added \subseteq Added'  BY <1>1, <1>4 DEF Added, Kinds
<1> QED  BY <1>2, <1>3, <1>4, <1>5, SameTasksShape DEF Kinds

LEMMA FinishShape == ASSUME Shape, Finish  PROVE Shape'
<1>1. pc = "run" /\ pc' = "idle" /\ UNCHANGED <<conf, at, jobs, main, judges, step, tasks, submits>>
    BY DEF Finish
<1>2. at' \in Benchmarks /\ Len(main) = Len(jobs)
    BY <1>1 DEF Shape, BuildTypes, JobsShape
<1>3. Added \subseteq Added'  BY <1>1 DEF Added
<1>4. \A b \in Benchmarks : Reached("judge", b)'  BY <1>1 DEF Reached
<1> QED  BY <1>1, <1>2, <1>3, <1>4, SameTasksShape

LEMMA RaisesShape == ASSUME Shape, StepJudgeRaises  PROVE Shape'
<1>1. pc = "judge" /\ pc' = "idle" /\ UNCHANGED <<conf, at, jobs, main, judges, step, tasks, submits>>
    BY DEF StepJudgeRaises
<1>2. at' \in Benchmarks /\ Len(main) = Len(jobs)
    BY <1>1 DEF Shape, BuildTypes, JobsShape
<1>3. Added \subseteq Added'  BY <1>1 DEF Added, Kinds
<1>4. \A b \in Benchmarks : Reached("judge", b)'  BY <1>1 DEF Reached
<1> QED  BY <1>1, <1>2, <1>3, <1>4, SameTasksShape

LEMMA NoBuildShape ==
    ASSUME Shape, UNCHANGED <<conf, builder, submits>>
    PROVE  Shape'
<1>1. UNCHANGED <<conf, pc, at, jobs, main, judges, step, tasks, submits>>  BY DEF builder
<1>2. Added' = Added /\ \A b \in Benchmarks : Reached("judge", b)' <=> Reached("judge", b)
    BY <1>1 DEF Added, Reached
<1>3. /\ pc' \in {"idle", "run"} \cup Kinds
      /\ at' \in IF pc' = "main" THEN 1..(Len(jobs) + 1) ELSE Benchmarks
      /\ IF pc' = "main" THEN Len(main) = at' - 1 ELSE Len(main) = Len(jobs)
    BY <1>1 DEF Shape, BuildTypes, JobsShape
<1> QED  BY <1>1, <1>2, <1>3, SameTasksShape

LEMMA SubmitShape == ASSUME Shape, Submit  PROVE Shape'
<1>1. /\ pc' = "main" /\ at' = 1 /\ conf' = conf /\ jobs' = Batches
      /\ tasks' = <<>> /\ main' = <<>> /\ judges' = [b \in Benchmarks |-> {}]
      /\ step' = conf.step /\ submits' = submits + 1 /\ submits < MaxSubmits
    BY DEF Submit
<1>2. conf \in Configs /\ submits \in 0..MaxSubmits  BY DEF Shape, BuildTypes
<1>3. Batches \in Seq(SUBSET Evals) /\ \A m \in DOMAIN Batches : Batches[m] \subseteq Planned
    BY <1>2, BatchesType
<1>4. \A b : Of(b)' = Of(b)  BY <1>1 DEF Of
<1>5. Planned' = Planned  BY <1>4 DEF Planned
<1>6. All' = {} /\ DOMAIN main' = {} /\ Len(main') = 0  BY <1>1 DEF All
<1>7. tasks' \in Seq(Tasks) /\ main' \in Seq(All')  BY <1>1
<1>8. BuildTypes'
    <2>1. submits' \in 0..MaxSubmits  BY <1>1, <1>2, Constants
    <2>2. at' \in 1..(Len(jobs') + 1)  BY <1>1, <1>3, LenProperties
    <2>3. judges' \in [Benchmarks -> SUBSET All']  BY <1>1
    <2>4. step' \in BOOLEAN  BY <1>1, <1>2, ConfType
    <2>5. pc' = "main" /\ pc' \in Kinds  BY <1>1 DEF Kinds
    <2> QED  BY <1>1, <1>2, <1>3, <1>6, <1>7, <2>1, <2>2, <2>3, <2>4, <2>5 DEF BuildTypes, All
<1>9. JobsShape'  BY <1>1, <1>3, <1>5, <1>6 DEF JobsShape
<1>10. TasksShape' /\ MainShape' /\ SummaryShape' /\ Ordered'
    BY <1>6 DEF TasksShape, MainShape, SummaryShape, Ordered
<1>11. JudgeShape'  BY <1>1, <1>6 DEF JudgeShape
<1> QED  BY <1>8, <1>9, <1>10, <1>11 DEF Shape

LEMMA ShapeNext == Shape /\ Next => Shape'
<1> SUFFICES ASSUME Shape, Next  PROVE Shape'
    OBVIOUS
<1>1. CASE Submit  BY <1>1, SubmitShape
<1>2. CASE AddMain  BY <1>2, AddMainShape
<1>3. CASE MainDone  BY <1>3, MainDoneShape
<1>4. CASE SkipJudge  BY <1>4, SkipJudgeShape
<1>5. CASE AddStepJudge \/ AddLlmJudge  BY <1>5, JudgeShapes
<1>6. CASE AddSummary  BY <1>6, AddSummaryShape
<1>7. CASE AddScore  BY <1>7, AddScoreShape
<1>8. CASE Run
    <2>1. UNCHANGED <<conf, builder, submits>>  BY <1>8 DEF Run
    <2> QED  BY <2>1, NoBuildShape
<1>9. CASE Cluster
    <2>1. UNCHANGED <<conf, builder, submits>>
        BY <1>9 DEF Cluster, Start, Evaluate, Judge, Summarize, Score, Fail, Stop, Drop, Fails
    <2> QED  BY <2>1, NoBuildShape
<1>10. CASE Finish  BY <1>10, FinishShape
<1>11. CASE Idle
    <2>1. UNCHANGED <<conf, builder, submits>>  BY <1>11 DEF Idle, vars
    <2> QED  BY <2>1, NoBuildShape
<1>12. CASE StepJudgeRaises  BY <1>12, RaisesShape
<1> QED
  BY <1>1, <1>2, <1>3, <1>4, <1>5, <1>6, <1>7, <1>8, <1>9, <1>10, <1>11, <1>12 DEF Next, Build

-----------------------------------------------------------------------------
(* The cluster: a task runs when what it waits for is over.                *)

\* A step of the cluster, as far as the state of a task shows it: task i moves on, and is
\* over for good.
Moves(i) ==
    /\ i \in DOMAIN state /\ ~Over(i)
    /\ UNCHANGED <<conf, builder, submits>>
    /\ \E s \in {"running", "ended", "failed"} : state' = [state EXCEPT ![i] = s]
    /\ state'[i] = "running" /\ state[i] # "running" => \A j \in tasks[i].after : Over(j)
    /\ state'[i] = "ended" => state[i] = "running"
    /\ state'[i] = "failed" => state[i] = "running" \/ ~conf.slurm

\* A step of a task that goes on running
Works(i) == i \in DOMAIN state /\ state[i] = "running" /\ UNCHANGED <<conf, builder, submits, state>>

LEMMA ClusterMoves ==
    ASSUME Shape, ClusterTypes, Cluster
    PROVE  \E i \in DOMAIN state : Moves(i) \/ Works(i)
<1>1. PICK i \in DOMAIN state :
        \/ Start(i) \/ Score(i) \/ Fail(i) \/ Stop(i) \/ Drop(i)
        \/ \E x \in todo[i] : Evaluate(i, x) \/ Judge(i, x)
        \/ \E b \in Benchmarks : Summarize(i, b)
    BY DEF Cluster
<1>2. i \in DOMAIN state /\ \A s : [state EXCEPT ![i] = s][i] = s
    BY <1>1
<1>3. CASE Start(i)
    BY <1>2, <1>3 DEF Start, Moves, Over
<1>4. CASE Score(i)
    BY <1>2, <1>4 DEF Score, Running, End, Moves, Over
<1>5. CASE Fail(i)
    <2>1. state[i] = "running"  BY <1>5 DEF Fail, Lacks, Running
    <2> QED  BY <1>2, <1>5, <2>1 DEF Fail, Fails, Moves, Over
<1>6. CASE Stop(i)
    BY <1>2, <1>6 DEF Stop, Fails, Moves, Over
<1>7. CASE Drop(i)
    BY <1>2, <1>7 DEF Drop, Fails, Moves, Over
<1>8. ASSUME NEW x \in todo[i], Evaluate(i, x) \/ Judge(i, x)
      PROVE  Moves(i) \/ Works(i)
    <2>1. state[i] = "running" /\ UNCHANGED <<conf, builder, submits>>
        BY <1>8 DEF Evaluate, Judge, Running
    <2>2. End(i) \/ UNCHANGED state  BY <1>8 DEF Evaluate, Judge
    <2> QED  BY <1>2, <2>1, <2>2 DEF End, Moves, Works, Over
<1>9. ASSUME NEW b \in Benchmarks, Summarize(i, b)
      PROVE  Moves(i)
    BY <1>2, <1>9 DEF Summarize, Running, End, Moves, Over
<1> QED  BY <1>1, <1>3, <1>4, <1>5, <1>6, <1>7, <1>8, <1>9

\* While the experiment is built, it does not run.
Building == state = <<>> /\ UNCHANGED <<state, todo, clean, stops>>

LEMMA BuildSteps ==
    ASSUME Phased,
           AddMain \/ MainDone \/ SkipJudge \/ AddStepJudge \/ AddLlmJudge \/ AddSummary \/ AddScore
    PROVE  Building /\ UNCHANGED <<conf, files, submits, stops>>
<1>1. pc \in {"main", "judge", "summarize", "score"}
    BY DEF AddMain, MainDone, SkipJudge, AddStepJudge, AddLlmJudge, AddSummary, AddScore
<1>2. state = <<>>  BY <1>1 DEF Phased
<1>3. UNCHANGED <<conf, files, cluster, submits, stops>>
    BY DEF AddMain, MainDone, SkipJudge, AddStepJudge, AddLlmJudge, AddSummary, AddScore
<1> QED  BY <1>2, <1>3 DEF Building, cluster

\* The judge step raises: what has been added is never run.
LEMMA RaiseSteps ==
    ASSUME Phased, StepJudgeRaises
    PROVE  /\ state = <<>> /\ submits # 0 /\ clean' = FALSE
           /\ UNCHANGED <<conf, files, jobs, tasks, state, todo, submits, stops>>
<1>1. pc = "judge" /\ clean' = FALSE /\ UNCHANGED <<conf, files, jobs, tasks, state, todo, submits, stops>>
    BY DEF StepJudgeRaises
<1> QED  BY <1>1 DEF Phased

LEMMA ClusterTypesNext ==
    ASSUME Shape, Shape', ClusterTypes, Phased, Next
    PROVE  ClusterTypes'
<1>1. CASE Submit
    <2>1. state' = <<>> /\ todo' = <<>> /\ clean' = TRUE /\ UNCHANGED stops  BY <1>1 DEF Submit
    <2>2. DOMAIN state' = {}  BY <2>1
    <2>3. todo' \in [DOMAIN state' -> SUBSET Evals]  BY <2>1, <2>2
    <2> QED  BY <2>1, <2>2, <2>3 DEF ClusterTypes
<1>2. CASE AddMain \/ MainDone \/ SkipJudge \/ AddStepJudge \/ AddLlmJudge \/ AddSummary \/ AddScore
    <2>1. state = <<>> /\ UNCHANGED <<state, todo, clean, stops>>  BY <1>2, BuildSteps DEF Building
    <2>2. DOMAIN state' = {}  BY <2>1
    <2> QED  BY <2>1, <2>2 DEF ClusterTypes
<1>3. CASE Run
    <2>1. /\ state' = [i \in All |-> "added"] /\ todo' = [i \in All |-> tasks[i].evals]
          /\ UNCHANGED <<tasks, clean, stops>>
        BY <1>3 DEF Run, builder
    <2>2. tasks \in Seq(Tasks)  BY DEF Shape, BuildTypes
    <2>3. Len(tasks) \in Nat /\ All = 1..Len(tasks) /\ \A i \in All : tasks[i] \in Tasks
        BY <2>2, LenProperties, ElementOfSeq DEF All
    <2>4. state' \in [1..Len(tasks) -> {"added", "running", "ended", "failed"}]  BY <2>1, <2>3
    <2>5. state' \in Seq({"added", "running", "ended", "failed"})  BY <2>3, <2>4, SeqDef
    <2>6. todo' \in [DOMAIN state' -> SUBSET Evals]  BY <2>1, <2>3 DEF Tasks
    <2> QED  BY <2>1, <2>5, <2>6 DEF ClusterTypes, All
<1>4. CASE Cluster
    <2>1. PICK i \in DOMAIN state : Moves(i) \/ Works(i)  BY <1>4, ClusterMoves
    <2>2. UNCHANGED tasks  BY <2>1 DEF Moves, Works, builder
    <2>3. state' \in Seq({"added", "running", "ended", "failed"}) /\ DOMAIN state' = DOMAIN state
        <3>1. CASE Works(i)  BY <3>1 DEF Works, ClusterTypes
        <3>2. CASE Moves(i)
            <4>1. PICK s \in {"running", "ended", "failed"} : state' = [state EXCEPT ![i] = s]
                BY <3>2 DEF Moves
            <4>2. i \in 1..Len(state)  BY <2>1, LenProperties DEF ClusterTypes
            <4> QED  BY <4>1, <4>2, ExceptSeq DEF ClusterTypes
        <3> QED  BY <2>1, <3>1, <3>2
    <2>4. PICK n \in DOMAIN state :
            \/ Start(n) \/ Score(n) \/ Fail(n) \/ Stop(n) \/ Drop(n)
            \/ \E x \in todo[n] : Evaluate(n, x) \/ Judge(n, x)
            \/ \E b \in Benchmarks : Summarize(n, b)
        BY <1>4 DEF Cluster
    <2>5. todo' \in [DOMAIN state -> SUBSET Evals]
        <3>1. UNCHANGED todo \/ \E x : todo' = [todo EXCEPT ![n] = @ \ {x}]
            BY <2>4 DEF Start, Score, Fail, Stop, Drop, Fails, Evaluate, Judge, Summarize
        <3> QED  BY <3>1, <2>4 DEF ClusterTypes
    <2>6. clean' \in BOOLEAN
        <3>1. UNCHANGED clean \/ clean' = FALSE
            BY <2>4 DEF Start, Score, Fail, Stop, Drop, Fails, Evaluate, Judge, Summarize
        <3> QED  BY <3>1 DEF ClusterTypes
    <2>7. stops' \in 0..MaxStops
        <3>1. UNCHANGED stops \/ (stops < MaxStops /\ stops' = stops + 1)
            BY <2>4 DEF Start, Score, Fail, Stop, Drop, Fails, Evaluate, Judge, Summarize
        <3> QED  BY <3>1, Constants DEF ClusterTypes
    <2> QED  BY <2>2, <2>3, <2>5, <2>6, <2>7 DEF ClusterTypes
<1>5. CASE Finish \/ Idle
    <2>1. UNCHANGED <<tasks, cluster, stops>>  BY <1>5 DEF Finish, Idle, vars, builder
    <2> QED  BY <2>1 DEF ClusterTypes, cluster
<1>6. CASE StepJudgeRaises
    <2>1. clean' = FALSE /\ UNCHANGED <<tasks, state, todo, stops>>  BY <1>6, RaiseSteps
    <2> QED  BY <2>1 DEF ClusterTypes
<1> QED  BY <1>1, <1>2, <1>3, <1>4, <1>5, <1>6 DEF Next, Build

LEMMA FileTypesNext ==
    ASSUME Shape, ClusterTypes, FileTypes, Phased, Next
    PROVE  FileTypes'
<1>0. conf \in Configs /\ submits \in Versions  BY DEF Shape, BuildTypes, Versions
<1>1. CASE UNCHANGED files
    BY <1>1 DEF files, FileTypes
<1>2. CASE Cluster
    <2>1. PICK i \in DOMAIN state :
            \/ Start(i) \/ Score(i) \/ Fail(i) \/ Stop(i) \/ Drop(i)
            \/ \E x \in todo[i] : Evaluate(i, x) \/ Judge(i, x)
            \/ \E b \in Benchmarks : Summarize(i, b)
        BY <1>2 DEF Cluster
    <2>2. todo[i] \subseteq Evals  BY <2>1 DEF ClusterTypes
    <2>3. CASE Start(i) \/ Fail(i) \/ Stop(i) \/ Drop(i)
        BY <1>1, <2>3 DEF Start, Fail, Stop, Drop, Fails
    <2>4. ASSUME NEW x \in todo[i], Evaluate(i, x)  PROVE FileTypes'
        <3>1. UNCHANGED <<judged, metrics, score>>  BY <2>4 DEF Evaluate
        <3>2. out' = [out EXCEPT ![x] = IF conf.rerun \/ @ = 0 THEN submits ELSE @]
            BY <2>4 DEF Evaluate
        <3>3. out' \in [Evals -> Versions]  BY <1>0, <2>2, <3>2 DEF FileTypes
        <3> QED  BY <3>1, <3>3 DEF FileTypes
    <2>5. ASSUME NEW x \in todo[i], Judge(i, x)  PROVE FileTypes'
        <3>1. UNCHANGED <<out, metrics, score>> /\ judged' = [judged EXCEPT ![x] = out[x]]
            BY <2>5 DEF Judge
        <3>2. judged' \in [Evals -> Versions]  BY <2>2, <3>1 DEF FileTypes
        <3> QED  BY <3>1, <3>2 DEF FileTypes
    <2>6. ASSUME NEW b \in Benchmarks, Summarize(i, b)  PROVE FileTypes'
        <3>1. /\ UNCHANGED <<out, judged, score>>
              /\ metrics' = [metrics EXCEPT ![b] = [e \in Seeds |-> Result(b)[<<b, e>>]]]
            BY <2>6 DEF Summarize
        <3>2. Result(b) \in [Evals -> Versions]  BY DEF FileTypes, Result
        <3>3. [e \in Seeds |-> Result(b)[<<b, e>>]] \in [Seeds -> Versions]
            BY <3>2 DEF Evals
        <3>4. metrics' \in [Benchmarks -> [Seeds -> Versions] \cup {NoFile}]
            BY <3>1, <3>3 DEF FileTypes
        <3> QED  BY <3>1, <3>4 DEF FileTypes
    <2>7. CASE Score(i)
        <3>1. /\ UNCHANGED <<out, judged, metrics>>
              /\ score' = [b \in Benchmarks |-> IF b \in conf.grouped THEN metrics[b] ELSE NoFile]
            BY <2>7 DEF Score
        <3>2. score' \in [Benchmarks -> [Seeds -> Versions] \cup {NoFile}]
            BY <3>1 DEF FileTypes
        <3> QED  BY <3>1, <3>2 DEF FileTypes
    <2> QED  BY <2>1, <2>3, <2>4, <2>5, <2>6, <2>7
<1>3. CASE AddMain \/ MainDone \/ SkipJudge \/ AddStepJudge \/ AddLlmJudge \/ AddSummary \/ AddScore
    BY <1>1, <1>3, BuildSteps
<1>4. CASE Submit \/ Run \/ Finish \/ Idle \/ StepJudgeRaises
    BY <1>1, <1>4 DEF Submit, Run, Finish, Idle, StepJudgeRaises, vars
<1> QED  BY <1>2, <1>3, <1>4 DEF Next, Build

LEMMA PhasedNext ==
    ASSUME Shape, ClusterTypes, Phased, Next
    PROVE  Phased'
<1>0. submits \in Nat  BY Constants DEF Shape, BuildTypes
<1>1. CASE Submit
    <2>1. state' = <<>> /\ pc' = "main" /\ submits' = submits + 1  BY <1>1 DEF Submit
    <2> QED  BY <2>1, <1>0 DEF Phased
<1>2. CASE AddMain \/ MainDone \/ SkipJudge \/ AddStepJudge \/ AddLlmJudge \/ AddSummary \/ AddScore
    <2>1. state' = <<>> /\ submits' = submits  BY <1>2, BuildSteps DEF Building
    <2>2. pc \in {"main", "judge", "summarize", "score"}
        BY <1>2 DEF AddMain, MainDone, SkipJudge, AddStepJudge, AddLlmJudge, AddSummary, AddScore
    <2>3. pc' # "idle"
        BY <1>2, <2>2
        DEF AddMain, MainDone, SkipJudge, AddStepJudge, AddLlmJudge, AddSummary, AddScore, Turn
    <2>4. submits # 0  BY <2>2 DEF Phased
    <2> QED  BY <2>1, <2>3, <2>4 DEF Phased
<1>3. CASE Run
    <2>1. pc = "run" /\ pc' = "run" /\ submits' = submits  BY <1>3 DEF Run, builder
    <2> QED  BY <2>1 DEF Phased
<1>4. CASE Cluster
    <2>1. PICK i \in DOMAIN state : Moves(i) \/ Works(i)  BY <1>4, ClusterMoves
    <2>2. UNCHANGED <<pc, submits>>  BY <2>1 DEF Moves, Works, builder
    <2>3. state # <<>>  BY <2>1
    <2>4. ~Over(i)  BY <2>1 DEF Moves, Works, Over
    <2>5. submits # 0 /\ pc = "run"  BY <2>1, <2>3, <2>4, <1>0 DEF Phased
    <2> QED  BY <2>2, <2>5 DEF Phased
<1>5. CASE Finish
    <2>1. /\ state # <<>> /\ \A i \in DOMAIN state : Over(i)
          /\ pc' = "idle" /\ UNCHANGED <<state, submits>> /\ pc = "run"
        BY <1>5 DEF Finish, cluster
    <2> QED  BY <2>1 DEF Phased, Over
<1>6. CASE Idle
    <2>1. UNCHANGED <<pc, state, clean, submits>>  BY <1>6 DEF Idle, vars, builder, cluster
    <2> QED  BY <2>1 DEF Phased, Over
<1>7. CASE StepJudgeRaises
    <2>1. state' = <<>> /\ submits' # 0 /\ ~clean'  BY <1>7, RaiseSteps
    <2>2. DOMAIN state' = {}  BY <2>1
    <2> QED  BY <2>1, <2>2 DEF Phased
<1> QED  BY <1>1, <1>2, <1>3, <1>4, <1>5, <1>6, <1>7 DEF Next, Build

LEMMA WaitedNext ==
    ASSUME Shape, Shape', ClusterTypes, Phased, Waited, Next
    PROVE  Waited'
<1>1. CASE state' = <<>>
    <2>1. DOMAIN state' = {}  BY <1>1
    <2> QED  BY <2>1 DEF Waited
<1>2. CASE Run
    <2>1. state' = [i \in All |-> "added"]  BY <1>2 DEF Run
    <2>2. \A i \in DOMAIN state' : state'[i] = "added"  BY <2>1
    <2> QED  BY <2>2 DEF Waited
<1>3. CASE UNCHANGED <<conf, tasks, state>>
    BY <1>3 DEF Waited, Over, Linked
<1>4. CASE Cluster
    <2>1. PICK i \in DOMAIN state : Moves(i) \/ Works(i)  BY <1>4, ClusterMoves
    <2>2. CASE Works(i)
        <3>1. UNCHANGED <<conf, tasks, state>>  BY <2>2 DEF Works, builder
        <3> QED  BY <1>3, <3>1
    <2>3. CASE Moves(i)
        <3>1. UNCHANGED <<conf, tasks>>  BY <2>3 DEF Moves, builder
        <3>2. PICK s \in {"running", "ended", "failed"} : state' = [state EXCEPT ![i] = s]
            BY <2>3 DEF Moves
        <3>3. /\ DOMAIN state' = DOMAIN state /\ state'[i] = s
              /\ \A k \in DOMAIN state \ {i} : state'[k] = state[k]
            BY <2>1, <3>2
        <3>4. DOMAIN state = All /\ tasks \in Seq(Tasks)
            BY <2>1 DEF ClusterTypes, All, Shape, BuildTypes
        <3>5. \A k \in All : k \in Nat /\ 1..k \subseteq All /\ tasks[k].after \subseteq 1..(k - 1)
            <4>1. All = 1..Len(tasks) /\ Len(tasks) \in Nat  BY <3>4, LenProperties DEF All
            <4>2. \A k \in All : tasks[k].after \subseteq 1..(k - 1)  BY DEF All, Shape, BuildTypes
            <4> QED  BY <4>1, <4>2
        <3>6. \A k \in All : Over(k) => Over(k)'
            BY <2>3, <3>3, <3>4 DEF Over, Moves
        <3>7. ASSUME NEW k \in DOMAIN state', state'[k] \in {"running", "ended"}, NEW j \in tasks'[k].after
              PROVE  Over(j)'
            <4>1. k \in All /\ j \in tasks[k].after /\ j \in All  BY <3>1, <3>3, <3>4, <3>5, <3>7
            <4>2. Over(j)
                <5>1. CASE state[k] \in {"running", "ended"}
                    BY <3>3, <3>4, <4>1, <5>1 DEF Waited
                <5>2. CASE state[k] \notin {"running", "ended"}
                    <6>1. k = i  BY <3>3, <3>4, <3>7, <4>1, <5>2
                    <6>2. state'[i] = "running" /\ state[i] # "running"  BY <2>3, <3>7, <5>2, <6>1 DEF Moves
                    <6> QED  BY <2>3, <4>1, <6>1, <6>2 DEF Moves
                <5> QED  BY <5>1, <5>2
            <4> QED  BY <3>6, <4>1, <4>2
        <3>8. ASSUME conf.slurm, NEW k \in All, NEW l \in All,
                     k < l, Linked(tasks, k, l), state'[l] # "added"
              PROVE  Over(k)'
            <4>1. CASE state[l] # "added"
                <5>1. Over(k)  BY <3>4, <3>8, <4>1 DEF Waited
                <5> QED  BY <3>6, <5>1
            <4>2. CASE state[l] = "added"
                <5>1. l = i  BY <3>3, <3>4, <3>8, <4>2
                <5>2. state'[i] = "running"  BY <2>3, <3>2, <3>3, <3>8, <4>2, <5>1 DEF Moves
                <5>3. \A j \in tasks[l].after : Over(j)  BY <2>3, <4>2, <5>1, <5>2 DEF Moves
                <5>4. k \in Nat /\ l \in Nat /\ l \in (k + 1)..l /\ l - 1 \in All  BY <3>5, <3>8
                <5>5. Over(l - 1)  BY <3>8, <5>3, <5>4 DEF Linked
                <5>6. CASE k = l - 1  BY <3>6, <5>5, <5>6
                <5>7. CASE k # l - 1
                    <6>1. k < l - 1 /\ Linked(tasks, k, l - 1)  BY <3>8, <5>4, <5>7 DEF Linked
                    <6>2. state[l - 1] # "added"  BY <5>5 DEF Over
                    <6>3. Over(k)  BY <3>4, <3>8, <5>4, <6>1, <6>2 DEF Waited
                    <6> QED  BY <3>6, <6>3
                <5> QED  BY <5>6, <5>7
            <4> QED  BY <4>1, <4>2
        <3> QED  BY <3>1, <3>3, <3>4, <3>7, <3>8 DEF Waited
    <2> QED  BY <2>1, <2>2, <2>3
<1>5. CASE Submit
    BY <1>1, <1>5 DEF Submit
<1>6. CASE AddMain \/ MainDone \/ SkipJudge \/ AddStepJudge \/ AddLlmJudge \/ AddSummary \/ AddScore
    <2>1. state' = <<>>  BY <1>6, BuildSteps DEF Building
    <2> QED  BY <1>1, <2>1
<1>7. CASE Finish \/ Idle \/ StepJudgeRaises
    BY <1>3, <1>7 DEF Finish, Idle, StepJudgeRaises, vars, builder, cluster
<1> QED  BY <1>2, <1>4, <1>5, <1>6, <1>7 DEF Next, Build

\* What a task reads is settled from its start on.
LEMMA NeedsOver ==
    ASSUME Shape, ClusterTypes, Waited, NEW i \in DOMAIN state, NEW j \in DOMAIN state,
           state[i] \in {"running", "ended"}, Needs(tasks[i], tasks[j])
    PROVE  Over(j)
<1>1. DOMAIN state = All /\ tasks \in Seq(Tasks)
    BY DEF ClusterTypes, All, Shape, BuildTypes
<1>2. WaitsFor(i, j)  BY <1>1 DEF Shape, Ordered
<1>3. \A m \in tasks[i].after : m \in All /\ m \in Nat /\ Over(m)
    <2>1. tasks[i].after \subseteq 1..(i - 1) /\ \A m \in tasks[i].after : Over(m)
        BY <1>1 DEF Shape, BuildTypes, All, Waited
    <2>2. 1..(i - 1) \subseteq All /\ 1..(i - 1) \subseteq Nat  BY <1>1, LenProperties DEF All
    <2> QED  BY <2>1, <2>2
<1>4. j \in Nat  BY <1>1, LenProperties DEF All
<1>5. CASE ~conf.slurm  BY <1>2, <1>3, <1>5 DEF WaitsFor
<1>6. CASE conf.slurm
    <2>1. PICK m \in tasks[i].after : j <= m /\ Linked(tasks, j, m)  BY <1>2, <1>6 DEF WaitsFor
    <2>2. m \in All /\ m \in Nat /\ Over(m) /\ state[m] # "added"  BY <1>3, <2>1 DEF Over
    <2> QED  BY <1>1, <1>4, <1>6, <2>1, <2>2 DEF Waited
<1> QED  BY <1>5, <1>6

LEMMA SInvInit == Init => SInv
<1> SUFFICES ASSUME Init  PROVE SInv
    OBVIOUS
<1>1. /\ conf \in Configs /\ pc = "idle" /\ at = 1 /\ jobs = <<>> /\ main = <<>>
      /\ judges = [b \in Benchmarks |-> {}] /\ step = conf.step
      /\ tasks = <<>> /\ state = <<>> /\ todo = <<>> /\ clean = TRUE /\ submits = 0 /\ stops = 0
    BY DEF Init
<1>2. All = {} /\ DOMAIN state = {} /\ DOMAIN main = {} /\ DOMAIN jobs = {}  BY <1>1 DEF All
<1>3. BuildTypes
    <2>1. step \in BOOLEAN  BY <1>1, ConfType
    <2>2. judges \in [Benchmarks -> SUBSET All]  BY <1>1
    <2>3. jobs \in Seq(SUBSET Evals) /\ main \in Seq(All) /\ tasks \in Seq(Tasks)  BY <1>1
    <2> QED  BY <1>1, <1>2, <2>1, <2>2, <2>3, Constants DEF BuildTypes, All
<1>4. FileTypes
    BY Constants DEF Init, FileTypes, Versions
<1>5. ClusterTypes
    <2>1. todo \in [DOMAIN state -> SUBSET Evals]  BY <1>1, <1>2
    <2>2. state \in Seq({"added", "running", "ended", "failed"})  BY <1>1
    <2> QED  BY <1>1, <1>2, <2>1, <2>2, Constants DEF ClusterTypes
<1>6. JobsShape  BY <1>1, <1>2 DEF JobsShape
<1>7. TasksShape /\ MainShape /\ SummaryShape /\ Ordered
    BY <1>2 DEF TasksShape, MainShape, SummaryShape, Ordered
<1>8. JudgeShape  BY <1>1, <1>2 DEF JudgeShape
<1>9. Phased /\ Waited  BY <1>1, <1>2 DEF Phased, Waited
<1> QED  BY <1>3, <1>4, <1>5, <1>6, <1>7, <1>8, <1>9 DEF SInv, Shape

LEMMA SInvNext == SInv /\ [Next]_vars => SInv'
<1>1. SInv /\ Next => SInv'
    <2> SUFFICES ASSUME Shape, FileTypes, ClusterTypes, Phased, Waited, Next  PROVE SInv'
        BY DEF SInv
    <2>1. Shape'  BY ShapeNext
    <2> QED
      BY <2>1, ClusterTypesNext, FileTypesNext, PhasedNext, WaitedNext DEF SInv
<1>2. SInv /\ UNCHANGED vars => SInv'
    <2> SUFFICES ASSUME SInv, UNCHANGED vars  PROVE SInv'
        OBVIOUS
    <2>1. UNCHANGED <<conf, builder, submits, files, cluster, stops>>  BY DEF vars
    <2>2. Shape'  BY <2>1, NoBuildShape DEF SInv
    <2>3. FileTypes' /\ ClusterTypes' /\ Phased' /\ Waited'
        BY <2>1 DEF SInv, files, cluster, builder, FileTypes, ClusterTypes, Phased, Waited, Over, Linked
    <2> QED  BY <2>2, <2>3 DEF SInv
<1> QED  BY <1>1, <1>2

LEMMA SInvHolds == Spec => []SInv
  BY SInvInit, SInvNext, PTL DEF Spec

\* Every variable keeps its type; in particular a task only waits for tasks added before it,
\* so that no tasks wait for each other in a circle.
THEOREM PipelineTypes == Spec => []TypeOK
<1>1. SInv => TypeOK  BY TypeParts DEF SInv, Shape
<1> QED  BY <1>1, SInvHolds, PTL

\* A running task never reads what a task that is not over yet writes, however the
\* evaluations are grouped into jobs, and through every chain of dependent jobs.
THEOREM ReadsAreSettled == Spec => []ReadsSettled
<1>1. SInv => ReadsSettled
    <2> SUFFICES ASSUME SInv, NEW i \in DOMAIN state, NEW j \in DOMAIN state, state[i] = "running",
                        Reads(tasks[i]) \cap Writes(tasks[j]) # {}
                 PROVE  Over(j)
        BY DEF ReadsSettled
    <2>1. tasks[i] \in Tasks /\ tasks[j] \in Tasks
        <3>1. DOMAIN state = All /\ tasks \in Seq(Tasks)
            BY DEF SInv, ClusterTypes, All, Shape, BuildTypes
        <3> QED  BY <3>1, LenProperties, ElementOfSeq DEF All
    <2>2. Needs(tasks[i], tasks[j])  BY <2>1, ReadsNeeds
    <2> QED  BY <2>2, NeedsOver DEF SInv
<1> QED  BY <1>1, SInvHolds, PTL

-----------------------------------------------------------------------------
(* A submission covers what is left to do.                                 *)

\* Steps of a submission add tasks, and files are never taken away.
Grows ==
    /\ UNCHANGED <<conf, submits>> /\ All \subseteq All'
    /\ \A i \in All : tasks'[i] = tasks[i]
FilesGrow ==
    \A x \in Evals : (out[x] # 0 => out'[x] # 0) /\ (judged[x] # 0 => judged'[x] # 0)

LEMMA MainGrows == ASSUME Shape, AddMain  PROVE Grows /\ UNCHANGED jobs
<1>1. /\ UNCHANGED <<conf, jobs, submits>> /\ at <= Len(jobs) /\ pc = "main"
      /\ tasks' = tasks \o ChainOf(jobs[at])
    BY DEF AddMain
<1>2. at \in 1..(Len(jobs) + 1) /\ jobs \in Seq(SUBSET Evals)
    BY <1>1 DEF Shape, BuildTypes
<1>3. jobs[at] \in SUBSET Evals
    <2>1. at \in 1..Len(jobs)  BY <1>1, <1>2, LenProperties
    <2> QED  BY <1>2, <2>1, ElementOfSeq
<1> DEFINE new == ChainOf(jobs[at])
<1>4. new \in Seq(Tasks) /\ \A k \in 1..Len(new) : new[k].after \subseteq 1..(Len(tasks) + k - 1)
    BY <1>3, ChainType DEF Shape
<1> HIDE DEF new
<1>5. tasks' = tasks \o new  BY <1>1 DEF new
<1>6. All \subseteq All' /\ \A i \in All : tasks'[i] = tasks[i]
    BY <1>4, <1>5, Appended DEF Shape
<1> QED  BY <1>1, <1>6 DEF Grows

LEMMA JudgeGrows == ASSUME Shape, AddStepJudge \/ AddLlmJudge  PROVE Grows /\ UNCHANGED jobs
<1>1. UNCHANGED <<conf, jobs, submits>>  BY DEF AddStepJudge, AddLlmJudge
<1> QED  BY <1>1, JudgeShapes DEF Grows, JudgeTasks

LEMMA SummaryGrows ==
    ASSUME Shape, AddSummary
    PROVE  /\ Grows /\ UNCHANGED jobs
           /\ \E i \in All' : tasks'[i].kind = "summarize" /\ tasks'[i].evals = Of(at)
<1> DEFINE needs == IF judges[at] # {} THEN judges[at] ELSE MainOf(at)
<1>1. /\ pc = "summarize" /\ Add("summarize", Of(at), needs)
      /\ UNCHANGED <<conf, jobs, submits>>
    BY DEF AddSummary
<1>2. /\ at \in Benchmarks /\ conf \in Configs /\ judges \in [Benchmarks -> SUBSET All] /\ BuildTypes
    BY <1>1 DEF Shape, BuildTypes, All
<1>3. needs \in SUBSET All  BY <1>1, <1>2, MainsAwaited
<1>4. Of(at) \in SUBSET Evals /\ "summarize" \in Kinds  BY <1>2, OfType DEF Kinds
<1> HIDE DEF needs
<1>5. /\ Len(tasks) \in Nat /\ Len(tasks') = Len(tasks) + 1
      /\ All = 1..Len(tasks) /\ All' = 1..Len(tasks') /\ All \subseteq All'
      /\ \A i \in All : tasks'[i] = tasks[i]
      /\ \A i \in All' \ All :
            i = Len(tasks') /\ tasks'[i] = [kind |-> "summarize", evals |-> Of(at),
                                            after |-> IF conf.slurm THEN needs ELSE All]
    BY <1>1, <1>2, <1>3, <1>4, AddedOne
<1>6. Len(tasks') \in All' \ All  BY <1>5
<1>7. tasks'[Len(tasks')].kind = "summarize" /\ tasks'[Len(tasks')].evals = Of(at)
    BY <1>5, <1>6
<1> QED  BY <1>1, <1>5, <1>6, <1>7 DEF Grows

LEMMA ScoreGrows ==
    ASSUME Shape, AddScore
    PROVE  Grows /\ UNCHANGED jobs /\ \E i \in All' : tasks'[i].kind = "score"
<1> DEFINE needs == SummariesOf(conf.grouped)
           evals == UNION {Of(b) : b \in conf.grouped}
<1>1. Add("score", evals, needs) /\ UNCHANGED <<conf, jobs, submits>>
    BY DEF AddScore
<1>2. conf \in Configs /\ BuildTypes  BY DEF Shape, BuildTypes
<1>3. needs \in SUBSET All  BY DEF SummariesOf
<1>4. evals \in SUBSET Evals /\ "score" \in Kinds  BY <1>2, ConfType, PlannedType DEF Planned, Kinds
<1> HIDE DEF needs, evals
<1>5. /\ Len(tasks) \in Nat /\ Len(tasks') = Len(tasks) + 1
      /\ All = 1..Len(tasks) /\ All' = 1..Len(tasks') /\ All \subseteq All'
      /\ \A i \in All : tasks'[i] = tasks[i]
      /\ \A i \in All' \ All :
            i = Len(tasks') /\ tasks'[i] = [kind |-> "score", evals |-> evals,
                                            after |-> IF conf.slurm THEN needs ELSE All]
    BY <1>1, <1>2, <1>3, <1>4, AddedOne
<1>6. Len(tasks') \in All' \ All  BY <1>5
<1>7. tasks'[Len(tasks')].kind = "score"  BY <1>5, <1>6
<1> QED  BY <1>1, <1>5, <1>6, <1>7 DEF Grows

LEMMA StepsGrow ==
    ASSUME SInv, Next, ~Submit
    PROVE  Grows /\ UNCHANGED jobs
<1>1. CASE AddMain  BY <1>1, MainGrows DEF SInv
<1>2. CASE AddStepJudge \/ AddLlmJudge  BY <1>2, JudgeGrows DEF SInv
<1>3. CASE AddSummary  BY <1>3, SummaryGrows DEF SInv
<1>4. CASE AddScore  BY <1>4, ScoreGrows DEF SInv
<1>5. CASE MainDone \/ SkipJudge \/ StepJudgeRaises \/ Run \/ Finish \/ Idle
    <2>1. UNCHANGED <<conf, jobs, tasks, submits>>
        BY <1>5 DEF MainDone, SkipJudge, StepJudgeRaises, Run, Finish, Idle, vars, builder
    <2> QED  BY <2>1 DEF Grows, All
<1>6. CASE Cluster
    <2>1. UNCHANGED <<conf, builder, submits>>
        BY <1>6, ClusterMoves DEF SInv, Moves, Works
    <2> QED  BY <2>1 DEF Grows, All, builder
<1> QED  BY <1>1, <1>2, <1>3, <1>4, <1>5, <1>6 DEF Next, Build

LEMMA CleanBefore ==
    ASSUME SInv, Next, ~Submit, clean'
    PROVE  clean
<1>1. CASE UNCHANGED clean
    BY <1>1
<1>2. CASE Cluster
    <2>1. PICK i \in DOMAIN state :
            \/ Start(i) \/ Score(i) \/ Fail(i) \/ Stop(i) \/ Drop(i)
            \/ \E x \in todo[i] : Evaluate(i, x) \/ Judge(i, x)
            \/ \E b \in Benchmarks : Summarize(i, b)
        BY <1>2 DEF Cluster
    <2> QED  BY <2>1 DEF Start, Score, Fail, Stop, Drop, Fails, Evaluate, Judge, Summarize
<1>3. CASE AddMain \/ MainDone \/ SkipJudge \/ AddStepJudge \/ AddLlmJudge \/ AddSummary \/ AddScore
    BY <1>1, <1>3, BuildSteps DEF SInv, Building
<1>4. CASE Run \/ Finish \/ Idle \/ StepJudgeRaises
    BY <1>4 DEF Run, Finish, Idle, StepJudgeRaises, vars, cluster
<1> QED  BY <1>2, <1>3, <1>4 DEF Next, Build

LEMMA StepsKeepFiles ==
    ASSUME SInv, Next
    PROVE  FilesGrow
<1>1. CASE UNCHANGED <<out, judged>>
    BY <1>1 DEF FilesGrow
<1>2. CASE Cluster
    <2>1. PICK i \in DOMAIN state :
            \/ Start(i) \/ Score(i) \/ Fail(i) \/ Stop(i) \/ Drop(i)
            \/ \E x \in todo[i] : Evaluate(i, x) \/ Judge(i, x)
            \/ \E b \in Benchmarks : Summarize(i, b)
        BY <1>2 DEF Cluster
    <2>2. submits # 0  BY <2>1 DEF SInv, Phased
    <2>3. CASE Start(i) \/ Fail(i) \/ Stop(i) \/ Drop(i) \/ Score(i)
        BY <1>1, <2>3 DEF Start, Fail, Stop, Drop, Fails, files, Score
    <2>4. ASSUME NEW x \in todo[i], Evaluate(i, x)  PROVE FilesGrow
        <3>1. UNCHANGED judged /\ out' = [out EXCEPT ![x] = IF conf.rerun \/ @ = 0 THEN submits ELSE @]
            BY <2>4 DEF Evaluate
        <3> QED  BY <2>2, <3>1 DEF FilesGrow, SInv, FileTypes
    <2>5. ASSUME NEW x \in todo[i], Judge(i, x)  PROVE FilesGrow
        <3>1. UNCHANGED out /\ judged' = [judged EXCEPT ![x] = out[x]] /\ out[x] # 0
            BY <2>5 DEF Judge
        <3> QED  BY <3>1 DEF FilesGrow, SInv, FileTypes
    <2>6. ASSUME NEW b \in Benchmarks, Summarize(i, b)  PROVE FilesGrow
        BY <1>1, <2>6 DEF Summarize
    <2> QED  BY <2>1, <2>3, <2>4, <2>5, <2>6
<1>3. CASE AddMain \/ MainDone \/ SkipJudge \/ AddStepJudge \/ AddLlmJudge \/ AddSummary \/ AddScore
    BY <1>1, <1>3, BuildSteps DEF SInv, files
<1>4. CASE Submit \/ Run \/ Finish \/ Idle \/ StepJudgeRaises
    BY <1>1, <1>4 DEF Submit, Run, Finish, Idle, StepJudgeRaises, vars, files
<1> QED  BY <1>2, <1>3, <1>4 DEF Next, Build

LEMMA JobsCoverNext ==
    ASSUME SInv, JobsCover, Next
    PROVE  JobsCover'
<1>0. conf \in Configs /\ submits \in Nat  BY Constants DEF SInv, Shape, BuildTypes
<1>1. CASE Submit
    <2>1. UNCHANGED <<conf, out>> /\ jobs' = Batches /\ submits' = submits + 1
        BY <1>1 DEF Submit, files
    <2>2. Planned' = Planned  BY <2>1 DEF Planned, Of
    <2>3. ASSUME NEW x \in Planned
          PROVE  (\E m \in DOMAIN Batches : x \in Batches[m]) \/ (~conf.rerun /\ out[x] # 0)
        <3>1. CASE x \in Remaining  BY <1>0, <3>1, BatchesCover
        <3>2. CASE x \notin Remaining  BY <3>2 DEF Remaining, Planned
        <3> QED  BY <3>1, <3>2
    <2> QED  BY <2>1, <2>2, <2>3 DEF JobsCover
<1>2. CASE ~Submit
    <2>1. UNCHANGED <<conf, jobs, submits>> /\ FilesGrow
        BY <1>2, StepsGrow, StepsKeepFiles DEF Grows
    <2>2. Planned' = Planned  BY <2>1 DEF Planned, Of
    <2>3. Planned \subseteq Evals  BY <1>0, PlannedType
    <2> QED  BY <2>1, <2>2, <2>3 DEF JobsCover, FilesGrow
<1> QED  BY <1>1, <1>2

\* The steps by which a loop goes past a benchmark
LEMMA ReachedNext ==
    ASSUME SInv, Next, ~Submit, clean', NEW b \in Benchmarks
    PROVE  /\ Reached("judge", b)' => Reached("judge", b) \/ ((SkipJudge \/ AddStepJudge \/ AddLlmJudge) /\ b = at)
           /\ Reached("summarize", b)' => Reached("summarize", b) \/ (AddSummary /\ b = at)
<1>0. at \in IF pc = "main" THEN 1..(Len(jobs) + 1) ELSE Benchmarks  BY DEF SInv, Shape, BuildTypes
<1>1. b >= 1 /\ b \in Nat  BY Constants DEF Benchmarks
<1>2. CASE AddMain
    <2>1. pc' = "main"  BY <1>2 DEF AddMain
    <2> QED  BY <2>1 DEF Reached
<1>3. CASE MainDone
    <2>1. pc' = "judge" /\ at' = 1  BY <1>3 DEF MainDone
    <2> QED  BY <1>1, <2>1 DEF Reached
<1>4. CASE SkipJudge \/ AddStepJudge \/ AddLlmJudge
    <2>1. pc = "judge" /\ Turn(NumBenchmarks, "summarize")
        BY <1>4 DEF SkipJudge, AddStepJudge, AddLlmJudge
    <2>2. at \in Benchmarks  BY <1>0, <2>1
    <2>3. Reached("judge", b)' <=> (Reached("judge", b) \/ b = at)  BY <2>1, <2>2, TurnFacts
    <2>4. pc' = "judge" \/ (pc' = "summarize" /\ at' = 1)  BY <2>1 DEF Turn
    <2>5. ~Reached("summarize", b)'  BY <1>1, <2>4 DEF Reached
    <2> QED  BY <1>4, <2>3, <2>5
<1>5. CASE AddSummary
    <2> DEFINE next == IF conf.grouped = {} THEN "run" ELSE "score"
    <2>1. pc = "summarize" /\ Turn(NumBenchmarks, next) /\ next \in {"run", "score"}
        BY <1>5 DEF AddSummary
    <2> HIDE DEF next
    <2>2. at \in Benchmarks  BY <1>0, <2>1
    <2>3. Reached("summarize", b)' <=> (Reached("summarize", b) \/ b = at)  BY <2>1, <2>2, TurnFacts
    <2>4. Reached("judge", b)  BY <2>1 DEF Reached
    <2> QED  BY <1>5, <2>3, <2>4
<1>6. CASE AddScore \/ Run \/ Finish \/ Cluster
    <2>1. CASE AddScore \/ Run \/ Finish
        <3>1. pc \in {"score", "run"}  BY <2>1 DEF AddScore, Run, Finish
        <3> QED  BY <3>1 DEF Reached
    <2>2. CASE Cluster
        <3>1. UNCHANGED <<pc, at>>  BY <2>2, ClusterMoves DEF SInv, Moves, Works, builder
        <3> QED  BY <3>1 DEF Reached
    <2> QED  BY <1>6, <2>1, <2>2
<1>7. CASE Idle
    <2>1. UNCHANGED <<pc, at>>  BY <1>7 DEF Idle, vars, builder
    <2> QED  BY <2>1 DEF Reached
<1>8. ~StepJudgeRaises  BY DEF StepJudgeRaises
<1> QED  BY <1>2, <1>3, <1>4, <1>5, <1>6, <1>7, <1>8 DEF Next, Build

LEMMA JudgesCoverNext ==
    ASSUME SInv, JudgesCover, Next
    PROVE  JudgesCover'
<1>0. conf \in Configs /\ submits \in Nat  BY Constants DEF SInv, Shape, BuildTypes
<1>1. CASE Submit
    <2>1. pc' = "main"  BY <1>1 DEF Submit
    <2> QED  BY <2>1 DEF JudgesCover, Reached
<1>2. CASE ~Submit
    <2>1. Grows /\ FilesGrow  BY <1>2, StepsGrow, StepsKeepFiles
    <2>2. UNCHANGED <<conf, submits>>  BY <2>1 DEF Grows
    <2>3. /\ LlmIsKept' <=> LlmIsKept
          /\ \A b : Of(b)' = Of(b) /\ (NeedsJudge(b)' <=> NeedsJudge(b))
        BY <2>2 DEF LlmIsKept, Of, NeedsJudge
    <2> SUFFICES ASSUME NEW b \in Benchmarks, LlmIsKept, submits > 0, clean', Reached("judge", b)',
                        NeedsJudge(b), NEW x \in Of(b)
                 PROVE  \/ \E i \in All' : tasks'[i].kind = "judge" /\ x \in tasks'[i].evals
                        \/ ~conf.rerun /\ judged'[x] # 0
        BY <2>2, <2>3 DEF JudgesCover
    <2>4. x \in Evals  BY <1>0, OfType
    <2>5. CASE Reached("judge", b)
        <3>1. \/ \E i \in All : tasks[i].kind = "judge" /\ x \in tasks[i].evals
              \/ ~conf.rerun /\ judged[x] # 0
            BY <1>2, <2>5, CleanBefore DEF JudgesCover
        <3> QED  BY <2>1, <2>4, <3>1 DEF Grows, FilesGrow
    <2>6. CASE AddStepJudge /\ b = at
        <3>1. JudgeTasks /\ ((\E i \in All' \ All : x \in tasks'[i].evals) \/ (~conf.rerun /\ judged[x] # 0))
            BY <2>6, StepJudgeTasks DEF SInv
        <3>2. (\E i \in All' \ All : x \in tasks'[i].evals)
              => \E i \in All' : tasks'[i].kind = "judge" /\ x \in tasks'[i].evals
            BY <3>1 DEF JudgeTasks
        <3> QED  BY <2>1, <2>4, <3>1, <3>2 DEF FilesGrow
    <2>7. CASE AddLlmJudge /\ b = at
        <3>1. JudgeTasks /\ ((\E i \in All' \ All : x \in tasks'[i].evals) \/ judged[x] # 0)
            BY <2>7, LlmJudgeTasks DEF SInv
        <3>2. (\E i \in All' \ All : x \in tasks'[i].evals)
              => \E i \in All' : tasks'[i].kind = "judge" /\ x \in tasks'[i].evals
            BY <3>1 DEF JudgeTasks
        <3>3. ~step /\ conf.judge[b] # "step"  BY <2>7 DEF AddLlmJudge, StepOf
        <3>4. ~conf.step  BY <3>3 DEF SInv, Shape, JobsShape
        <3>5. conf.judge[b] \in {"none", "llm", "step"}  BY <1>0, ConfType
        <3>6. conf.judge[b] = "llm"  BY <3>3, <3>4, <3>5 DEF NeedsJudge
        <3>7. ~conf.rerun  BY <3>6 DEF LlmIsKept
        <3> QED  BY <2>1, <2>4, <3>1, <3>2, <3>7 DEF FilesGrow
    <2>8. ~(SkipJudge /\ b = at)  BY DEF SkipJudge
    <2> QED  BY <1>2, <2>5, <2>6, <2>7, <2>8, ReachedNext
<1> QED  BY <1>1, <1>2

LEMMA SummariesCoverNext ==
    ASSUME SInv, SummariesCover, Next
    PROVE  SummariesCover'
<1>1. CASE Submit
    <2>1. pc' = "main"  BY <1>1 DEF Submit
    <2> QED  BY <2>1 DEF SummariesCover, Reached
<1>2. CASE ~Submit
    <2>1. Grows  BY <1>2, StepsGrow
    <2>2. UNCHANGED <<conf, submits>>  BY <2>1 DEF Grows
    <2>3. \A b : Of(b)' = Of(b)  BY <2>2 DEF Of
    <2> SUFFICES ASSUME NEW b \in Benchmarks, submits > 0, clean', Reached("summarize", b)'
                 PROVE  \E i \in All' : tasks'[i].kind = "summarize" /\ tasks'[i].evals = Of(b)
        BY <2>2, <2>3 DEF SummariesCover
    <2>4. CASE Reached("summarize", b)
        BY <1>2, <2>1, <2>4, CleanBefore DEF SummariesCover, Grows
    <2>5. CASE AddSummary /\ b = at
        BY <2>5, SummaryGrows DEF SInv
    <2> QED  BY <1>2, <2>4, <2>5, ReachedNext
<1> QED  BY <1>1, <1>2

LEMMA ScoreCoversNext ==
    ASSUME SInv, ScoreCovers, Next
    PROVE  ScoreCovers'
<1>1. CASE Submit
    <2>1. pc' = "main"  BY <1>1 DEF Submit
    <2> QED  BY <2>1 DEF ScoreCovers
<1>2. CASE AddScore
    BY <1>2, ScoreGrows DEF SInv, ScoreCovers, Grows
<1>3. CASE AddSummary
    <2>1. conf' = conf /\ (conf.grouped # {} => pc' \in {"summarize", "score"})
        BY <1>3 DEF AddSummary, Turn
    <2> QED  BY <2>1 DEF ScoreCovers
<1>4. CASE AddMain \/ MainDone \/ SkipJudge \/ AddStepJudge \/ AddLlmJudge
    <2>1. pc' \in {"main", "judge", "summarize"}
        BY <1>4 DEF AddMain, MainDone, SkipJudge, AddStepJudge, AddLlmJudge, Turn
    <2> QED  BY <2>1 DEF ScoreCovers
<1>5. CASE Run \/ Finish \/ Cluster \/ Idle
    <2>1. Grows
        <3>1. CASE Run \/ Finish \/ Idle
            <4>1. UNCHANGED <<conf, tasks, submits>>  BY <3>1 DEF Run, Finish, Idle, vars, builder
            <4> QED  BY <4>1 DEF Grows, All
        <3>2. CASE Cluster
            <4>1. UNCHANGED <<conf, builder, submits>>
                BY <3>2, ClusterMoves DEF SInv, Moves, Works
            <4> QED  BY <4>1 DEF Grows, All, builder
        <3> QED  BY <1>5, <3>1, <3>2
    <2>2. pc' \in {"run", "idle"} => pc \in {"run", "idle"}
        <3>1. CASE Run \/ Finish  BY <3>1 DEF Run, Finish
        <3>2. CASE Idle  BY <3>2 DEF Idle
        <3>3. CASE Cluster  BY <3>3, ClusterMoves DEF SInv, Moves, Works, builder
        <3> QED  BY <1>5, <3>1, <3>2, <3>3
    <2>3. CASE ~Submit /\ clean'
        <3>1. clean  BY <2>3, CleanBefore
        <3> QED  BY <2>1, <2>2, <3>1 DEF ScoreCovers, Grows
    <2>4. CASE ~clean'  BY <2>4 DEF ScoreCovers
    <2> QED  BY <1>1, <2>3, <2>4
<1>6. CASE StepJudgeRaises
    <2>1. ~clean'  BY <1>6 DEF StepJudgeRaises
    <2> QED  BY <2>1 DEF ScoreCovers
<1> QED  BY <1>1, <1>2, <1>3, <1>4, <1>5, <1>6 DEF Next, Build

LEMMA CoveredNext ==
    ASSUME SInv, Covered, Next
    PROVE  Covered'
  BY JobsCoverNext, JudgesCoverNext, SummariesCoverNext, ScoreCoversNext DEF Covered


-----------------------------------------------------------------------------
(* What a task has done still stands.                                      *)

\* What a task that has started reads is written by no task that runs.
LEMMA NoWriter ==
    ASSUME SInv, NEW i \in DOMAIN state, state[i] = "running",
           NEW k \in DOMAIN state, state[k] \in {"running", "ended"}
    PROVE  ~Needs(tasks[k], tasks[i])
<1>1. ~Over(i)  BY DEF Over
<1> QED  BY <1>1, NeedsOver DEF SInv

LEMMA TodoPlanned ==
    ASSUME SInv, Progress, NEW i \in DOMAIN state, NEW x \in todo[i]
    PROVE  /\ conf \in Configs /\ submits # 0
           /\ x \in tasks[i].evals /\ x \in Planned /\ x \in Evals
<1>1. conf \in Configs  BY DEF SInv, Shape, BuildTypes
<1>2. i \in All /\ submits # 0  BY DEF SInv, ClusterTypes, All, Phased
<1>3. x \in tasks[i].evals  BY DEF Progress
<1>4. x \in Planned  BY <1>2, <1>3 DEF SInv, Shape, TasksShape
<1> QED  BY <1>1, <1>2, <1>3, <1>4, PlannedType

LEMMA StartDone ==
    ASSUME SInv, Done, NEW i \in DOMAIN state, Start(i)
    PROVE  Done'
<1>1. /\ state[i] = "added" /\ state' = [state EXCEPT ![i] = "running"]
      /\ UNCHANGED <<conf, out, judged, metrics, score, tasks, todo, clean>>
    BY DEF Start, files, builder
<1>2. /\ DOMAIN state' = DOMAIN state /\ state'[i] = "running"
      /\ \A k \in DOMAIN state \ {i} : state'[k] = state[k]
    BY <1>1
<1>3. todo[i] = tasks[i].evals  BY <1>1 DEF Done, Progress
<1>4. Progress'  BY <1>1, <1>2 DEF Done, Progress
<1>5. MainDid'  BY <1>1, <1>2 DEF Done, MainDid
<1>6. JudgeDid'  BY <1>1, <1>2, <1>3 DEF Done, JudgeDid
<1>7. SummaryDid'  BY <1>1, <1>2 DEF Done, SummaryDid, Of, Result, NeedsJudge
<1>8. ScoreDid'  BY <1>1, <1>2 DEF Done, ScoreDid
<1> QED  BY <1>4, <1>5, <1>6, <1>7, <1>8 DEF Done

LEMMA FailsDone ==
    ASSUME SInv, Done, NEW i \in DOMAIN state, Fails(i)
    PROVE  Done'
<1>1. /\ state' = [state EXCEPT ![i] = "failed"] /\ clean' = FALSE
      /\ UNCHANGED <<conf, out, judged, metrics, score, tasks, todo>>
    BY DEF Fails, files, builder
<1>2. /\ DOMAIN state' = DOMAIN state /\ state'[i] = "failed"
      /\ \A k \in DOMAIN state \ {i} : state'[k] = state[k]
    BY <1>1
<1>3. Progress'  BY <1>1, <1>2 DEF Done, Progress
<1>4. MainDid'  BY <1>1, <1>2 DEF Done, MainDid
<1>5. JudgeDid'  BY <1>1, <1>2 DEF Done, JudgeDid
<1>6. SummaryDid'  BY <1>1, <1>2 DEF Done, SummaryDid, Of, Result, NeedsJudge
<1>7. ScoreDid'  BY <1>1, <1>2 DEF Done, ScoreDid
<1> QED  BY <1>3, <1>4, <1>5, <1>6, <1>7 DEF Done

\* Task i has done x.
LEMMA ProgressMade ==
    ASSUME ClusterTypes, Progress, NEW i \in DOMAIN state, state[i] = "running", NEW x \in todo[i],
           UNCHANGED <<tasks, clean>>, todo' = [todo EXCEPT ![i] = @ \ {x}],
           IF todo'[i] = {} THEN End(i) ELSE UNCHANGED state
    PROVE  /\ Progress'
           /\ DOMAIN state' = DOMAIN state /\ state'[i] \in {"running", "ended"}
           /\ todo'[i] = todo[i] \ {x}
           /\ \A k \in DOMAIN state \ {i} : state'[k] = state[k] /\ todo'[k] = todo[k]
<1>1. /\ i \in DOMAIN todo /\ DOMAIN todo = DOMAIN state  BY DEF ClusterTypes
<1>2. /\ todo'[i] = todo[i] \ {x}
      /\ \A k \in DOMAIN state \ {i} : todo'[k] = todo[k]
    BY <1>1
<1>3. /\ DOMAIN state' = DOMAIN state
      /\ \A k \in DOMAIN state \ {i} : state'[k] = state[k]
      /\ state'[i] = IF todo'[i] = {} THEN "ended" ELSE "running"
    BY DEF End
<1>4. Progress'  BY <1>2, <1>3 DEF Progress
<1> QED  BY <1>2, <1>3, <1>4

LEMMA EvaluateDone ==
    ASSUME SInv, Done, NEW i \in DOMAIN state, NEW x \in todo[i], Evaluate(i, x)
    PROVE  Done'
<1>1. /\ state[i] = "running" /\ tasks[i].kind = "main"
      /\ UNCHANGED <<conf, tasks, judged, metrics, score, clean>>
      /\ todo' = [todo EXCEPT ![i] = @ \ {x}]
      /\ IF todo'[i] = {} THEN End(i) ELSE UNCHANGED state
      /\ out' = [out EXCEPT ![x] = IF conf.rerun \/ @ = 0 THEN submits ELSE @]
    BY DEF Evaluate, Running, builder
<1>2. /\ Progress'
      /\ DOMAIN state' = DOMAIN state /\ state'[i] \in {"running", "ended"}
      /\ todo'[i] = todo[i] \ {x}
      /\ \A k \in DOMAIN state \ {i} : state'[k] = state[k] /\ todo'[k] = todo[k]
    BY <1>1, ProgressMade DEF Done, SInv
<1>3. conf \in Configs /\ submits # 0 /\ x \in tasks[i].evals /\ x \in Planned /\ x \in Evals
    BY TodoPlanned DEF Done
<1>4. /\ out'[x] # 0 /\ \A y : y # x => out'[y] = out[y]
    BY <1>1, <1>3 DEF SInv, FileTypes
<1>5. MainDid'
    <2> SUFFICES ASSUME NEW k \in DOMAIN state, tasks[k].kind = "main",
                        NEW y \in tasks[k].evals \ todo'[k]
                 PROVE  out'[y] # 0
        BY <1>1, <1>2 DEF MainDid
    <2> QED  BY <1>2, <1>4 DEF Done, MainDid
<1>6. JudgeDid'
    <2> SUFFICES ASSUME NEW k \in DOMAIN state, tasks[k].kind = "judge", state'[k] \in {"running", "ended"},
                        NEW y \in tasks[k].evals \ todo'[k]
                 PROVE  judged[y] = out'[y]
        BY <1>1, <1>2 DEF JudgeDid
    <2>1. k # i /\ state[k] \in {"running", "ended"} /\ y \in tasks[k].evals \ todo[k]
        BY <1>1, <1>2
    <2>2. ~Needs(tasks[k], tasks[i])  BY <1>1, <2>1, NoWriter
    <2>3. y # x  BY <1>1, <1>3, <2>2 DEF Needs
    <2> QED  BY <1>4, <2>1, <2>3 DEF Done, JudgeDid
<1>7. SummaryDid'
    <2>1. \A b : Of(b)' = Of(b) /\ Result(b)' = IF NeedsJudge(b) THEN judged ELSE out'
        BY <1>1 DEF Of, Result, NeedsJudge
    <2> SUFFICES ASSUME NEW k \in DOMAIN state, tasks[k].kind = "summarize", state'[k] = "ended",
                        NEW b \in Benchmarks, tasks[k].evals = Of(b)
                 PROVE  metrics[b] = [e \in Seeds |-> Result(b)'[<<b, e>>]]
        BY <1>1, <1>2, <2>1 DEF SummaryDid
    <2>2. k # i /\ state[k] = "ended"  BY <1>1, <1>2
    <2>3. ~Needs(tasks[k], tasks[i])  BY <1>1, <2>2, NoWriter
    <2>4. ASSUME NEW e \in Seeds  PROVE Result(b)'[<<b, e>>] = Result(b)[<<b, e>>]
        <3>1. CASE NeedsJudge(b)  BY <2>1, <3>1 DEF Result
        <3>2. CASE ~NeedsJudge(b)
            <4>0. <<b, e>> \in Planned => <<b, e>> \in Of(b)  BY <1>3, OfType
            <4>1. x = <<b, e>> => x \in Of(b)  BY <1>3, <4>0
            <4>2. x = <<b, e>> => x[1] = b  OBVIOUS
            <4>3. x # <<b, e>>  BY <1>1, <1>3, <2>3, <3>2, <4>1, <4>2 DEF Needs
            <4> QED  BY <1>4, <2>1, <3>2, <4>3 DEF Result
        <3> QED  BY <3>1, <3>2
    <2>5. metrics[b] = [e \in Seeds |-> Result(b)[<<b, e>>]]  BY <2>2 DEF Done, SummaryDid
    <2> QED  BY <2>4, <2>5
<1>8. ScoreDid'  BY <1>1, <1>2 DEF Done, ScoreDid
<1> QED  BY <1>2, <1>5, <1>6, <1>7, <1>8 DEF Done

LEMMA JudgeDone ==
    ASSUME SInv, Done, NEW i \in DOMAIN state, NEW x \in todo[i], Judge(i, x)
    PROVE  Done'
<1>1. /\ state[i] = "running" /\ tasks[i].kind = "judge"
      /\ UNCHANGED <<conf, tasks, out, metrics, score, clean>>
      /\ todo' = [todo EXCEPT ![i] = @ \ {x}]
      /\ IF todo'[i] = {} THEN End(i) ELSE UNCHANGED state
      /\ judged' = [judged EXCEPT ![x] = out[x]]
    BY DEF Judge, Running, builder
<1>2. /\ Progress'
      /\ DOMAIN state' = DOMAIN state /\ state'[i] \in {"running", "ended"}
      /\ todo'[i] = todo[i] \ {x}
      /\ \A k \in DOMAIN state \ {i} : state'[k] = state[k] /\ todo'[k] = todo[k]
    BY <1>1, ProgressMade DEF Done, SInv
<1>3. conf \in Configs /\ x \in tasks[i].evals /\ x \in Planned /\ x \in Evals
    BY TodoPlanned DEF Done
<1>4. judged'[x] = out[x] /\ \A y : y # x => judged'[y] = judged[y]
    BY <1>1, <1>3 DEF SInv, FileTypes
<1>5. MainDid'  BY <1>1, <1>2 DEF Done, MainDid
<1>6. JudgeDid'
    <2> SUFFICES ASSUME NEW k \in DOMAIN state, tasks[k].kind = "judge", state'[k] \in {"running", "ended"},
                        NEW y \in tasks[k].evals \ todo'[k], y # x
                 PROVE  judged[y] = out[y]
        BY <1>1, <1>2, <1>4 DEF JudgeDid
    <2>1. state[k] \in {"running", "ended"} /\ y \in tasks[k].evals \ todo[k]
        BY <1>1, <1>2
    <2> QED  BY <2>1 DEF Done, JudgeDid
<1>7. SummaryDid'
    <2>1. \A b : Of(b)' = Of(b) /\ Result(b)' = IF NeedsJudge(b) THEN judged' ELSE out
        BY <1>1 DEF Of, Result, NeedsJudge
    <2> SUFFICES ASSUME NEW k \in DOMAIN state, tasks[k].kind = "summarize", state'[k] = "ended",
                        NEW b \in Benchmarks, tasks[k].evals = Of(b)
                 PROVE  metrics[b] = [e \in Seeds |-> Result(b)'[<<b, e>>]]
        BY <1>1, <1>2, <2>1 DEF SummaryDid
    <2>2. k # i /\ state[k] = "ended"  BY <1>1, <1>2
    <2>3. ~Needs(tasks[k], tasks[i])  BY <1>1, <2>2, NoWriter
    <2>4. ASSUME NEW e \in Seeds  PROVE Result(b)'[<<b, e>>] = Result(b)[<<b, e>>]
        <3>1. CASE ~NeedsJudge(b)  BY <2>1, <3>1 DEF Result
        <3>2. CASE NeedsJudge(b)
            <4>0. <<b, e>> \in Planned => <<b, e>> \in Of(b)  BY <1>3, OfType
            <4>1. x = <<b, e>> => x \in Of(b)  BY <1>3, <4>0
            <4>2. x = <<b, e>> => x[1] = b  OBVIOUS
            <4>3. x # <<b, e>>  BY <1>1, <1>3, <2>3, <3>2, <4>1, <4>2 DEF Needs
            <4> QED  BY <1>4, <2>1, <3>2, <4>3 DEF Result
        <3> QED  BY <3>1, <3>2
    <2>5. metrics[b] = [e \in Seeds |-> Result(b)[<<b, e>>]]  BY <2>2 DEF Done, SummaryDid
    <2> QED  BY <2>4, <2>5
<1>8. ScoreDid'  BY <1>1, <1>2 DEF Done, ScoreDid
<1> QED  BY <1>2, <1>5, <1>6, <1>7, <1>8 DEF Done

LEMMA SummarizeDone ==
    ASSUME SInv, Done, NEW i \in DOMAIN state, NEW b \in Benchmarks, Summarize(i, b)
    PROVE  Done'
<1>1. /\ state[i] = "running" /\ tasks[i].kind = "summarize" /\ tasks[i].evals = Of(b)
      /\ UNCHANGED <<conf, tasks, out, judged, score, todo, clean>>
      /\ state' = [state EXCEPT ![i] = "ended"]
      /\ metrics' = [metrics EXCEPT ![b] = [e \in Seeds |-> Result(b)[<<b, e>>]]]
    BY DEF Summarize, Running, End, builder
<1>2. /\ DOMAIN state' = DOMAIN state /\ state'[i] = "ended"
      /\ \A k \in DOMAIN state \ {i} : state'[k] = state[k]
    BY <1>1
<1>3. conf \in Configs  BY DEF SInv, Shape, BuildTypes
<1>4. /\ metrics'[b] = [e \in Seeds |-> Result(b)[<<b, e>>]]
      /\ \A c : c # b => metrics'[c] = metrics[c]
    BY <1>1 DEF SInv, FileTypes
<1>5. Progress'  BY <1>1, <1>2 DEF Done, Progress
<1>6. MainDid'  BY <1>1, <1>2 DEF Done, MainDid
<1>7. JudgeDid'  BY <1>1, <1>2 DEF Done, JudgeDid
<1>8. SummaryDid'
    <2>1. \A c : Of(c)' = Of(c) /\ Result(c)' = Result(c)
        BY <1>1 DEF Of, Result, NeedsJudge
    <2> SUFFICES ASSUME NEW k \in DOMAIN state, tasks[k].kind = "summarize", state'[k] = "ended",
                        NEW c \in Benchmarks, tasks[k].evals = Of(c)
                 PROVE  metrics'[c] = [e \in Seeds |-> Result(c)[<<c, e>>]]
        BY <1>1, <1>2, <2>1 DEF SummaryDid
    <2>2. CASE c = b  BY <1>4, <2>2
    <2>3. CASE c # b
        <3>1. Of(b) # {}  BY <1>3, OfType
        <3>2. k # i  BY <1>1, <1>3, <2>3, <3>1, OfInjective
        <3>3. metrics[c] = [e \in Seeds |-> Result(c)[<<c, e>>]]  BY <1>2, <3>2 DEF Done, SummaryDid
        <3> QED  BY <1>4, <2>3, <3>3
    <2> QED  BY <2>2, <2>3
<1>9. ScoreDid'
    <2> SUFFICES ASSUME NEW k \in DOMAIN state, tasks[k].kind = "score", state'[k] = "ended",
                        NEW c \in conf.grouped
                 PROVE  score[c] = metrics'[c]
        BY <1>1, <1>2 DEF ScoreDid
    <2>1. k # i /\ state[k] = "ended"  BY <1>1, <1>2
    <2>2. ~Needs(tasks[k], tasks[i])  BY <1>1, <2>1, NoWriter
    <2>3. tasks[k].evals = UNION {Of(d) : d \in conf.grouped}
        BY DEF SInv, ClusterTypes, Shape, SummaryShape, All
    <2>4. c # b
        <3>1. <<b, 1>> \in Of(b)  BY <1>3, OfType
        <3> QED  BY <1>1, <2>2, <2>3, <3>1 DEF Needs
    <2> QED  BY <1>4, <2>1, <2>4 DEF Done, ScoreDid
<1> QED  BY <1>5, <1>6, <1>7, <1>8, <1>9 DEF Done

LEMMA ScoreDone ==
    ASSUME SInv, Done, NEW i \in DOMAIN state, Score(i)
    PROVE  Done'
<1>1. /\ state[i] = "running" /\ tasks[i].kind = "score"
      /\ UNCHANGED <<conf, tasks, out, judged, metrics, todo, clean>>
      /\ state' = [state EXCEPT ![i] = "ended"]
      /\ score' = [b \in Benchmarks |-> IF b \in conf.grouped THEN metrics[b] ELSE NoFile]
    BY DEF Score, Running, End, builder
<1>2. /\ DOMAIN state' = DOMAIN state /\ state'[i] = "ended"
      /\ \A k \in DOMAIN state \ {i} : state'[k] = state[k]
    BY <1>1
<1>3. conf.grouped \subseteq Benchmarks  BY ConfType DEF SInv, Shape, BuildTypes
<1>4. Progress'  BY <1>1, <1>2 DEF Done, Progress
<1>5. MainDid'  BY <1>1, <1>2 DEF Done, MainDid
<1>6. JudgeDid'  BY <1>1, <1>2 DEF Done, JudgeDid
<1>7. SummaryDid'  BY <1>1, <1>2 DEF Done, SummaryDid, Of, Result, NeedsJudge
<1>8. ScoreDid'  BY <1>1, <1>3 DEF ScoreDid
<1> QED  BY <1>4, <1>5, <1>6, <1>7, <1>8 DEF Done

LEMMA DoneNext ==
    ASSUME SInv, Done, Next
    PROVE  Done'
<1>1. CASE state' = <<>>
    <2>1. DOMAIN state' = {}  BY <1>1
    <2> QED  BY <2>1 DEF Done, Progress, MainDid, JudgeDid, SummaryDid, ScoreDid
<1>2. CASE Submit  BY <1>1, <1>2 DEF Submit
<1>3. CASE AddMain \/ MainDone \/ SkipJudge \/ AddStepJudge \/ AddLlmJudge \/ AddSummary \/ AddScore
    BY <1>1, <1>3, BuildSteps DEF SInv, Building
<1>4. CASE Run
    <2>1. /\ state' = [i \in All |-> "added"] /\ todo' = [i \in All |-> tasks[i].evals]
          /\ UNCHANGED tasks
        BY <1>4 DEF Run, builder
    <2>2. DOMAIN state' = All /\ \A i \in All : state'[i] = "added" /\ todo'[i] = tasks'[i].evals
        BY <2>1
    <2> QED  BY <2>2 DEF Done, Progress, MainDid, JudgeDid, SummaryDid, ScoreDid
<1>5. CASE Finish \/ Idle
    <2>1. UNCHANGED <<conf, out, judged, metrics, score, tasks, state, todo, clean>>
        BY <1>5 DEF Finish, Idle, vars, files, builder, cluster
    <2> QED
      BY <2>1 DEF Done, Progress, MainDid, JudgeDid, SummaryDid, ScoreDid, Of, Result, NeedsJudge
<1>6. CASE Cluster
    <2>1. PICK i \in DOMAIN state :
            \/ Start(i) \/ Score(i) \/ Fail(i) \/ Stop(i) \/ Drop(i)
            \/ \E x \in todo[i] : Evaluate(i, x) \/ Judge(i, x)
            \/ \E b \in Benchmarks : Summarize(i, b)
        BY <1>6 DEF Cluster
    <2>2. CASE Start(i)  BY <2>2, StartDone
    <2>3. CASE Score(i)  BY <2>3, ScoreDone
    <2>4. CASE Fail(i) \/ Stop(i) \/ Drop(i)  BY <2>4, FailsDone DEF Fail, Stop, Drop
    <2>5. CASE \E x \in todo[i] : Evaluate(i, x) \/ Judge(i, x)  BY <2>5, EvaluateDone, JudgeDone
    <2>6. CASE \E b \in Benchmarks : Summarize(i, b)  BY <2>6, SummarizeDone
    <2> QED  BY <2>1, <2>2, <2>3, <2>4, <2>5, <2>6
<1>7. CASE StepJudgeRaises
    BY <1>1, <1>7, RaiseSteps DEF SInv
<1> QED  BY <1>2, <1>3, <1>4, <1>5, <1>6, <1>7 DEF Next, Build

LEMMA OldFilesNext ==
    ASSUME SInv, Progress, OldFiles, Next
    PROVE  OldFiles'
<1>1. CASE UNCHANGED <<conf, out, judged>>
    <2>1. Planned' = Planned  BY <1>1 DEF Planned, Of
    <2> QED  BY <1>1, <2>1 DEF OldFiles
<1>2. CASE Cluster
    <2>1. PICK i \in DOMAIN state :
            \/ Start(i) \/ Score(i) \/ Fail(i) \/ Stop(i) \/ Drop(i)
            \/ \E x \in todo[i] : Evaluate(i, x) \/ Judge(i, x)
            \/ \E b \in Benchmarks : Summarize(i, b)
        BY <1>2 DEF Cluster
    <2>2. CASE Start(i) \/ Fail(i) \/ Stop(i) \/ Drop(i) \/ Score(i)
        BY <1>1, <2>2 DEF Start, Fail, Stop, Drop, Fails, files, Score
    <2>3. ASSUME NEW x \in todo[i], Evaluate(i, x)  PROVE OldFiles'
        <3>1. /\ UNCHANGED <<conf, judged>>
              /\ out' = [out EXCEPT ![x] = IF conf.rerun \/ @ = 0 THEN submits ELSE @]
            BY <2>3 DEF Evaluate
        <3>2. Planned' = Planned  BY <3>1 DEF Planned, Of
        <3>3. x \in Planned /\ x \in Evals  BY TodoPlanned
        <3>4. out \in [Evals -> Versions]  BY DEF SInv, FileTypes
        <3> QED  BY <3>1, <3>2, <3>3, <3>4 DEF OldFiles
    <2>4. ASSUME NEW x \in todo[i], Judge(i, x)  PROVE OldFiles'
        <3>1. UNCHANGED <<conf, out>> /\ judged' = [judged EXCEPT ![x] = out[x]]
            BY <2>4 DEF Judge
        <3>2. Planned' = Planned  BY <3>1 DEF Planned, Of
        <3>3. x \in Planned /\ x \in Evals  BY TodoPlanned
        <3>4. judged \in [Evals -> Versions]  BY DEF SInv, FileTypes
        <3> QED  BY <3>1, <3>2, <3>3, <3>4 DEF OldFiles
    <2>5. ASSUME NEW b \in Benchmarks, Summarize(i, b)  PROVE OldFiles'
        BY <1>1, <2>5 DEF Summarize
    <2> QED  BY <2>1, <2>2, <2>3, <2>4, <2>5
<1>3. CASE AddMain \/ MainDone \/ SkipJudge \/ AddStepJudge \/ AddLlmJudge \/ AddSummary \/ AddScore
    BY <1>1, <1>3, BuildSteps DEF SInv, files
<1>4. CASE Submit \/ Run \/ Finish \/ Idle \/ StepJudgeRaises
    BY <1>1, <1>4 DEF Submit, Run, Finish, Idle, StepJudgeRaises, vars, files
<1> QED  BY <1>2, <1>3, <1>4 DEF Next, Build

-----------------------------------------------------------------------------
(* Nothing is stale or missing when everything has been done.              *)

LEMMA CInvInit == Init => CInv
<1> SUFFICES ASSUME Init  PROVE CInv
    OBVIOUS
<1>1. /\ conf \in Configs /\ pc = "idle" /\ tasks = <<>> /\ state = <<>> /\ submits = 0
      /\ out = [x \in Evals |-> 0] /\ judged = [x \in Evals |-> 0]
    BY DEF Init
<1>2. DOMAIN state = {}  BY <1>1
<1>3. Covered
    BY <1>1 DEF Covered, JobsCover, JudgesCover, SummariesCover, ScoreCovers
<1>4. OldFiles  BY <1>1 DEF OldFiles
<1>5. Done  BY <1>2 DEF Done, Progress, MainDid, JudgeDid, SummaryDid, ScoreDid
<1> QED  BY <1>3, <1>4, <1>5, SInvInit DEF CInv

LEMMA CInvNext == CInv /\ [Next]_vars => CInv'
<1>1. CInv /\ Next => CInv'
    <2> SUFFICES ASSUME SInv, Covered, OldFiles, Done, Next  PROVE CInv'
        BY DEF CInv
    <2>1. SInv'  BY SInvNext
    <2>2. OldFiles'  BY OldFilesNext DEF Done
    <2> QED  BY <2>1, <2>2, CoveredNext, DoneNext DEF CInv
<1>2. CInv /\ UNCHANGED vars => CInv'
    <2> SUFFICES ASSUME CInv, UNCHANGED vars  PROVE CInv'
        OBVIOUS
    <2>1. UNCHANGED <<conf, files, builder, cluster, submits, stops>>  BY DEF vars
    <2>2. SInv'  BY SInvNext DEF CInv
    <2>3. UNCHANGED <<conf, out, judged, metrics, score, pc, at, jobs, tasks, state, todo, clean, submits>>
        BY <2>1 DEF files, builder, cluster
    <2>4. Covered'
        BY <2>3 DEF CInv, Covered, JobsCover, JudgesCover, SummariesCover, ScoreCovers, Reached,
                    LlmIsKept, Planned, Of, NeedsJudge, All
    <2>5. OldFiles'  BY <2>3 DEF CInv, OldFiles, Planned, Of
    <2>6. Done'
        BY <2>3 DEF CInv, Done, Progress, MainDid, JudgeDid, SummaryDid, ScoreDid, Of, Result, NeedsJudge
    <2> QED  BY <2>2, <2>4, <2>5, <2>6 DEF CInv
<1> QED  BY <1>1, <1>2

\* When a submission in which nothing has failed is over, its tasks have done all there is.
LEMMA AllDone ==
    ASSUME CInv, Settled
    PROVE  /\ conf \in Configs /\ submits > 0 /\ DOMAIN state = All
           /\ \A i \in All : /\ state[i] = "ended"
                             /\ tasks[i].kind \in {"main", "judge"} => todo[i] = {}
<1>1. pc = "idle" /\ submits > 0 /\ clean  BY DEF Settled
<1>2. conf \in Configs  BY DEF CInv, SInv, Shape, BuildTypes
<1>3. state # <<>> /\ \A i \in DOMAIN state : Over(i)  BY <1>1 DEF CInv, SInv, Phased
<1>4. DOMAIN state = All
    <2>1. state \in Seq({"added", "running", "ended", "failed"}) /\ DOMAIN state \in {{}, All}
        BY DEF CInv, SInv, ClusterTypes, All
    <2>2. DOMAIN state = 1..Len(state) /\ Len(state) \in Nat  BY <2>1, LenProperties
    <2>3. Len(state) # 0  BY <1>3, <2>1, EmptySeq
    <2>4. 1 \in DOMAIN state  BY <2>2, <2>3
    <2> QED  BY <2>1, <2>4
<1>5. \A i \in All : state[i] = "ended"
    BY <1>1, <1>3, <1>4 DEF CInv, Done, Progress, Over
<1> QED  BY <1>1, <1>2, <1>4, <1>5 DEF CInv, Done, Progress

LEMMA AllGenerated ==
    ASSUME CInv, Settled, NEW x \in Planned
    PROVE  out[x] # 0
<1>1. (\E m \in DOMAIN jobs : x \in jobs[m]) \/ out[x] # 0
    BY AllDone DEF CInv, Covered, JobsCover
<1>2. ASSUME NEW m \in DOMAIN jobs, x \in jobs[m]  PROVE out[x] # 0
    <2>1. jobs \in Seq(SUBSET Evals) /\ main \in Seq(All) /\ Len(main) = Len(jobs)
        BY DEF Settled, CInv, SInv, Shape, BuildTypes, JobsShape, All
    <2>2. m \in DOMAIN main /\ main[m] \in All
        <3>1. m \in 1..Len(main) /\ m \in DOMAIN main  BY <2>1, LenProperties
        <3> QED  BY <2>1, <3>1, ElementOfSeq
    <2>3. tasks[main[m]].kind = "main" /\ tasks[main[m]].evals = jobs[m]
        BY <2>2 DEF CInv, SInv, Shape, MainShape
    <2>4. main[m] \in DOMAIN state /\ todo[main[m]] = {}  BY <2>2, <2>3, AllDone
    <2> QED  BY <1>2, <2>3, <2>4 DEF CInv, Done, MainDid
<1> QED  BY <1>1, <1>2

LEMMA AllJudged ==
    ASSUME CInv, Settled, LlmIsKept, NEW b \in Benchmarks, NeedsJudge(b), NEW x \in Of(b)
    PROVE  judged[x] = out[x]
<1>1. conf \in Configs /\ submits > 0 /\ clean /\ Reached("judge", b)
    BY AllDone DEF Settled, Reached
<1>2. x \in Evals  BY <1>1, OfType
<1>3. \/ \E i \in All : tasks[i].kind = "judge" /\ x \in tasks[i].evals
      \/ ~conf.rerun /\ judged[x] # 0
    BY <1>1 DEF CInv, Covered, JudgesCover
<1>4. ASSUME NEW i \in All, tasks[i].kind = "judge", x \in tasks[i].evals
      PROVE  judged[x] = out[x]
    <2>1. i \in DOMAIN state /\ state[i] = "ended" /\ todo[i] = {}  BY <1>4, AllDone
    <2> QED  BY <1>4, <2>1 DEF CInv, Done, JudgeDid
<1>5. ASSUME ~conf.rerun, judged[x] # 0  PROVE judged[x] = out[x]
    BY <1>2, <1>5 DEF CInv, OldFiles
<1> QED  BY <1>3, <1>4, <1>5

\* A submission in which nothing fails leaves nothing stale or missing: the metrics of each
\* benchmark stand for its latest outputs, all of them, and the score for these metrics.
THEOREM NothingIsStale == Spec => []Consistent
<1>1. CInv => Consistent
    <2> SUFFICES ASSUME CInv, Settled, LlmIsKept  PROVE UpToDate
        BY DEF Consistent, LlmIsKept
    <2>1. conf \in Configs /\ submits > 0 /\ clean /\ pc = "idle"  BY AllDone DEF Settled
    <2>2. ASSUME NEW b \in Benchmarks  PROVE \A x \in Of(b) : out[x] # 0
        BY <2>1, PlannedType, AllGenerated
    <2>3. ASSUME NEW b \in Benchmarks  PROVE metrics[b] = [e \in Seeds |-> out[<<b, e>>]]
        <3>1. PICK i \in All : tasks[i].kind = "summarize" /\ tasks[i].evals = Of(b)
            BY <2>1 DEF CInv, Covered, SummariesCover, Reached
        <3>2. i \in DOMAIN state /\ state[i] = "ended"  BY AllDone
        <3>3. metrics[b] = [e \in Seeds |-> Result(b)[<<b, e>>]]
            BY <3>1, <3>2 DEF CInv, Done, SummaryDid
        <3>4. ASSUME NEW e \in Seeds  PROVE Result(b)[<<b, e>>] = out[<<b, e>>]
            <4>1. CASE ~NeedsJudge(b)  BY <4>1 DEF Result
            <4>2. CASE NeedsJudge(b) /\ <<b, e>> \in Planned
                <5>1. <<b, e>> \in Of(b)  BY <2>1, <4>2, OfType
                <5>2. judged[<<b, e>>] = out[<<b, e>>]  BY <4>2, <5>1, AllJudged
                <5> QED  BY <4>2, <5>2 DEF Result
            <4>3. CASE NeedsJudge(b) /\ <<b, e>> \notin Planned
                <5>1. <<b, e>> \in Evals \ Planned  BY <4>3 DEF Evals
                <5> QED  BY <4>3, <5>1 DEF Result, CInv, OldFiles
            <4> QED  BY <4>1, <4>2, <4>3
        <3> QED  BY <3>3, <3>4
    <2>4. ASSUME conf.grouped # {}, NEW b \in conf.grouped  PROVE score[b] = metrics[b]
        <3>1. PICK i \in All : tasks[i].kind = "score"
            BY <2>1, <2>4 DEF CInv, Covered, ScoreCovers
        <3>2. i \in DOMAIN state /\ state[i] = "ended"  BY AllDone
        <3> QED  BY <3>1, <3>2 DEF CInv, Done, ScoreDid
    <2> QED  BY <2>2, <2>3, <2>4 DEF UpToDate
<1>2. Spec => []CInv
    BY CInvInit, CInvNext, PTL DEF Spec
<1> QED  BY <1>1, <1>2, PTL
=====
