-------------------------- MODULE ChunkedGeneration --------------------------
(***************************************************************************)
(* One seed of `ns generate --num_chunks=N --dependent_jobs=D`: the jobs   *)
(* that generate the chunks of a data file (nemo_skills/inference/         *)
(* generate.py), mark themselves done and merge the chunks                 *)
(* (nemo_skills/inference/merge_chunks.py), as chained by                  *)
(* nemo_skills/pipeline/utils/generation.py, over a shared file system     *)
(* that survives the jobs.                                                 *)
(*                                                                         *)
(* A record is identified with the index of its sample in the whole data   *)
(* file; what the model generates for it is abstracted.  A job may stop at *)
(* any step (time limit, preemption, an exception); its files stay.        *)
(***************************************************************************)
EXTENDS Integers, Sequences, SequencesExt

CONSTANTS
    NumChunks,
    NumSamples,     \* lines of the input file
    DependentJobs,  \* --dependent_jobs
    Modes,          \* how the jobs are run, and what may happen to them; see Mode
    NoFile,
    Hole            \* bytes of a file that nobody has written

\* sequential: one job at a time (executor "local" or "none").  submits and stops bound
\* how often the user submits the command and how many jobs are stopped before their end.
Mode == [sequential : BOOLEAN, submits : Nat, stops : Nat]

ASSUME ChunkedGenerationAssumption ==
    /\ NumChunks \in Nat \ {0}
    /\ {NumSamples, DependentJobs} \subseteq Nat
    /\ Modes \subseteq Mode
    /\ Hole \notin Nat /\ NoFile \notin Seq(Nat \cup {Hole})

VARIABLES
    \* files
    async,          \* output-async of a chunk: records in the order they were finished
    torn,           \* its last line was cut short
    out,            \* output of a chunk
    done,           \* the chunk's .done exists
    merged,         \* output of the seed
    mergedDone,     \* its .done exists
    \* jobs
    left,           \* jobs of the chunk's chain that have not started
    pc,
    todo,           \* samples whose task is not finished
    at,             \* loop counter of merge_chunks
    offset, failed, \* cat: where it writes next, and whether it missed a file
    mode,
    submits, stops,
    \* history variable: a job was stopped after its last record, before RestoreUnlink
    halfway

files == <<async, torn, out, done, merged, mergedDone>>
local == <<todo, at, offset, failed>>
run   == <<mode, submits, stops, halfway>>
vars  == <<files, left, pc, local, run>>

Chunks  == 0..(NumChunks - 1)
Samples == 0..(NumSamples - 1)
Labels  == {"idle", "generate", "restore", "write", "touch", "check", "open", "cat",
            "mark", "remove"}

TypeOK ==
    /\ async \in [Chunks -> Seq(Samples) \cup {NoFile}]
    /\ torn \in [Chunks -> BOOLEAN]
    /\ out \in [Chunks -> Seq(Samples) \cup {NoFile}]
    /\ done \in [Chunks -> BOOLEAN]
    /\ merged \in Seq(Samples \cup {Hole}) \cup {NoFile}
    /\ mergedDone \in BOOLEAN
    /\ left \in [Chunks -> 0..(DependentJobs + 1)]
    /\ pc \in [Chunks -> Labels]
    /\ todo \in [Chunks -> SUBSET Samples]
    /\ at \in [Chunks -> Chunks]
    /\ offset \in [Chunks -> 0..NumSamples]
    /\ failed \in [Chunks -> BOOLEAN]
    /\ mode \in Modes
    /\ submits \in 0..mode.submits
    /\ stops \in 0..mode.stops
    /\ halfway \in BOOLEAN

Init ==
    /\ async = [c \in Chunks |-> NoFile]
    /\ torn = [c \in Chunks |-> FALSE]
    /\ out = [c \in Chunks |-> NoFile]
    /\ done = [c \in Chunks |-> FALSE]
    /\ merged = NoFile
    /\ mergedDone = FALSE
    /\ left = [c \in Chunks |-> 0]
    /\ pc = [c \in Chunks |-> "idle"]
    /\ todo = [c \in Chunks |-> {}]
    /\ at = [c \in Chunks |-> 0]
    /\ offset = [c \in Chunks |-> 0]
    /\ failed = [c \in Chunks |-> FALSE]
    /\ mode \in Modes
    /\ submits = 0
    /\ stops = 0
    /\ halfway = FALSE

-----------------------------------------------------------------------------
(* calculate_chunk_indices: chunk c is data[Start(c) : End(c)].            *)

Remainder == NumSamples % NumChunks
BaseSize  == NumSamples \div NumChunks

Start(c) ==
    IF c < Remainder THEN c * (BaseSize + 1)
                     ELSE Remainder * (BaseSize + 1) + (c - Remainder) * BaseSize
End(c)   == Start(c) + BaseSize + (IF c < Remainder THEN 1 ELSE 0)

Chunk(c) == Start(c)..(End(c) - 1)

-----------------------------------------------------------------------------
(* Submission and the start of a job.                                      *)

At(c, l)   == pc[c] = l
Goto(c, l) == pc' = [pc EXCEPT ![c] = l]
Idle       == \A c \in Chunks : At(c, "idle")

\* get_remaining_jobs: the chunks without .done get a chain of jobs.  The user
\* submits again when the chains of the last submission have run.
Submit ==
    /\ Idle /\ \A c \in Chunks : left[c] = 0
    /\ submits < mode.submits
    /\ submits' = submits + 1
    /\ left' = [c \in Chunks |-> IF done[c] THEN 0 ELSE DependentJobs + 1]
    /\ UNCHANGED <<files, pc, local, mode, stops, halfway>>

\* A chain runs one job after the other, whatever became of the last one ("afterany").
Starts(c) ==
    /\ At(c, "idle") /\ left[c] > 0
    /\ mode.sequential => Idle
    /\ left' = [left EXCEPT ![c] = @ - 1]

\* skip_completed_samples: with the chunk's output or the merged one in place there is
\* nothing to generate, and nothing to restore.
StartFilled(c) ==
    /\ Starts(c)
    /\ out[c] # NoFile \/ merged # NoFile
    /\ Goto(c, "touch")
    /\ UNCHANGED <<files, local, run>>

\* json.loads raises on a line that was cut short, in this job and in every later one.
StartTorn(c) ==
    /\ Starts(c)
    /\ out[c] = NoFile /\ merged = NoFile /\ torn[c]
    /\ UNCHANGED <<files, pc, local, run>>

Filled(c) == IF async[c] = NoFile THEN {} ELSE ToSet(async[c])

\* Otherwise the samples that the -async file lacks are generated.  With none left,
\* generate() skips async_loop and restore_async_order with it.
StartRemaining(c) ==
    /\ Starts(c)
    /\ out[c] = NoFile /\ merged = NoFile /\ ~torn[c]
    /\ todo' = [todo EXCEPT ![c] = Chunk(c) \ Filled(c)]
    /\ async' = [async EXCEPT ![c] = IF todo'[c] # {} /\ @ = NoFile THEN <<>> ELSE @]
    /\ Goto(c, IF todo'[c] = {} THEN "touch" ELSE "generate")
    /\ UNCHANGED <<torn, out, done, merged, mergedDone, at, offset, failed, run>>

-----------------------------------------------------------------------------
(* async_loop and restore_async_order.                                     *)

\* Mutant: async_loop ends without restore_async_order.
GenerateOnly(c, i) ==
    /\ At(c, "generate") /\ i \in todo[c]
    /\ async' = [async EXCEPT ![c] = Append(@, i)]
    /\ todo' = [todo EXCEPT ![c] = @ \ {i}]
    /\ Goto(c, IF todo'[c] = {} THEN "touch" ELSE "generate")
    /\ UNCHANGED <<torn, out, done, merged, mergedDone, left, at, offset, failed, run>>

\* A task finishes and appends its record under output_lock, in any order.
Generate(c, i) ==
    /\ At(c, "generate") /\ i \in todo[c]
    /\ async' = [async EXCEPT ![c] = Append(@, i)]
    /\ todo' = [todo EXCEPT ![c] = @ \ {i}]
    /\ Goto(c, IF todo'[c] = {} THEN "restore" ELSE "generate")
    /\ UNCHANGED <<torn, out, done, merged, mergedDone, left, at, offset, failed, run>>

\* The records are put where async_position says: k-th in the file is sample Start(c) + k - 1.
Ordered(c) == [k \in DOMAIN async[c] |-> CHOOSE i \in ToSet(async[c]) : i = Start(c) + k - 1]

\* open(output_file, "wt")
RestoreOpen(c) ==
    /\ At(c, "restore")
    /\ out' = [out EXCEPT ![c] = <<>>]
    /\ Goto(c, "write")
    /\ UNCHANGED <<async, torn, done, merged, mergedDone, left, local, run>>

\* Mutant: the records are copied in the order they were finished.
RestoreWriteAsIs(c) ==
    /\ At(c, "write") /\ Len(out[c]) < Len(async[c])
    /\ out' = [out EXCEPT ![c] = Append(@, async[c][Len(@) + 1])]
    /\ UNCHANGED <<async, torn, done, merged, mergedDone, left, pc, local, run>>
RestoreWrite(c) ==
    /\ At(c, "write") /\ Len(out[c]) < Len(async[c])
    /\ out' = [out EXCEPT ![c] = Append(@, Ordered(c)[Len(@) + 1])]
    /\ UNCHANGED <<async, torn, done, merged, mergedDone, left, pc, local, run>>

\* Mutant: the -async file is gone before the output is written.
UnlinkEarly(c) ==
    /\ At(c, "write")
    /\ async' = [async EXCEPT ![c] = NoFile]
    /\ Goto(c, "touch")
    /\ UNCHANGED <<torn, out, done, merged, mergedDone, left, local, run>>
RestoreUnlink(c) ==
    /\ At(c, "write") /\ Len(out[c]) = Len(async[c])
    /\ async' = [async EXCEPT ![c] = NoFile]
    /\ Goto(c, "touch")
    /\ UNCHANGED <<torn, out, done, merged, mergedDone, left, local, run>>

-----------------------------------------------------------------------------
(* The end of a job's command: touch <chunk>.done && merge_chunks.         *)

\* Mutant: the .done file is not created.
TouchNothing(c) ==
    /\ At(c, "touch")
    /\ at' = [at EXCEPT ![c] = 0]
    /\ Goto(c, "check")
    /\ UNCHANGED <<files, left, todo, offset, failed, run>>
Touch(c) ==
    /\ At(c, "touch")
    /\ done' = [done EXCEPT ![c] = TRUE]
    /\ at' = [at EXCEPT ![c] = 0]
    /\ Goto(c, "check")
    /\ UNCHANGED <<async, torn, out, merged, mergedDone, left, todo, offset, failed, run>>

\* Mutant: one turn too many.
LastTurnLate(c) == at[c] = NumChunks
LastTurn(c) == at[c] = NumChunks - 1

\* The next turn of a loop over the input files, and what follows the last one.
Advance(c, here, next) ==
    /\ at' = [at EXCEPT ![c] = IF LastTurn(c) THEN 0 ELSE @ + 1]
    /\ Goto(c, IF LastTurn(c) THEN next ELSE here)

\* A chunk whose .done or output is missing ends the script, with exit code 0.
Check(c) ==
    /\ At(c, "check")
    /\ IF done[at[c]] /\ out[at[c]] # NoFile
          THEN Advance(c, "check", "open")
          ELSE Goto(c, "idle") /\ UNCHANGED at
    /\ UNCHANGED <<files, left, todo, offset, failed, run>>

\* Mutant: the output is opened for appending.
MergeOpenAppend(c) ==
    /\ At(c, "open")
    /\ merged' = IF merged = NoFile THEN <<>> ELSE merged
    /\ at' = [at EXCEPT ![c] = 0]
    /\ offset' = [offset EXCEPT ![c] = Len(merged')]
    /\ failed' = [failed EXCEPT ![c] = FALSE]
    /\ Goto(c, "cat")
    /\ UNCHANGED <<async, torn, out, done, mergedDone, left, todo, run>>

\* open(output_file, "w") truncates what another job may have merged.
MergeOpen(c) ==
    /\ At(c, "open")
    /\ merged' = <<>>
    /\ at' = [at EXCEPT ![c] = 0]
    /\ offset' = [offset EXCEPT ![c] = 0]
    /\ failed' = [failed EXCEPT ![c] = FALSE]
    /\ Goto(c, "cat")
    /\ UNCHANGED <<async, torn, out, done, mergedDone, left, todo, run>>

\* A write at an offset of its own, into a file that another job may have cut.
Written(file, off, data) ==
    LET end == off + Len(data) IN
    [k \in 1..(IF Len(file) > end THEN Len(file) ELSE end) |->
        IF k \in (off + 1)..end THEN data[k - off]
        ELSE IF k <= Len(file) THEN file[k] ELSE Hole]

\* cat goes on after a file it cannot open, and fails in the end: exit code 1.
MergeCat(c) ==
    LET k == at[c]
        missing == out[k] = NoFile
        data == IF missing THEN <<>> ELSE out[k] IN
    /\ At(c, "cat")
    /\ merged' = Written(merged, offset[c], data)
    /\ offset' = [offset EXCEPT ![c] = @ + Len(data)]
    /\ failed' = [failed EXCEPT ![c] = @ \/ missing]
    /\ Advance(c, "cat", IF failed[c] \/ missing THEN "idle" ELSE "mark")
    /\ UNCHANGED <<async, torn, out, done, mergedDone, left, todo, run>>

MergeMark(c) ==
    /\ At(c, "mark")
    /\ mergedDone' = TRUE
    /\ Goto(c, "remove")
    /\ UNCHANGED <<async, torn, out, done, merged, left, local, run>>

\* os.remove of each input; FileNotFoundError ends the script
MergeRemove(c) ==
    /\ At(c, "remove")
    /\ out' = [out EXCEPT ![at[c]] = NoFile]
    /\ IF out[at[c]] = NoFile THEN Goto(c, "idle") /\ UNCHANGED at
                              ELSE Advance(c, "remove", "idle")
    /\ UNCHANGED <<async, torn, done, merged, mergedDone, left, todo, offset, failed, run>>

-----------------------------------------------------------------------------
\* The scheduler's time limit, a preemption, or an exception ends a job.  A task may be
\* in the middle of its line.
Stop(c) ==
    /\ ~At(c, "idle") /\ stops < mode.stops
    /\ stops' = stops + 1
    /\ \E cut \in BOOLEAN :
          /\ cut => At(c, "generate")
          /\ torn' = [torn EXCEPT ![c] = @ \/ cut]
    /\ halfway' = (halfway \/ At(c, "restore") \/ At(c, "write"))
    /\ Goto(c, "idle")
    /\ todo' = [todo EXCEPT ![c] = {}]
    /\ at' = [at EXCEPT ![c] = 0]
    /\ UNCHANGED <<async, out, done, merged, mergedDone, left, offset, failed, mode, submits>>

Job(c) ==
    \/ StartFilled(c) \/ StartTorn(c) \/ StartRemaining(c)
    \/ \E i \in Samples : Generate(c, i)
    \/ RestoreOpen(c) \/ RestoreWrite(c) \/ RestoreUnlink(c)
    \/ Touch(c) \/ Check(c)
    \/ MergeOpen(c) \/ MergeCat(c) \/ MergeMark(c) \/ MergeRemove(c)

Next == Submit \/ \E c \in Chunks : Job(c) \/ Stop(c)

Spec == Init /\ [][Next]_vars

\* A job that may run makes progress; nothing makes the user submit.
FairSpec == Spec /\ \A c \in Chunks : WF_vars(Job(c))

-----------------------------------------------------------------------------
(* Properties.                                                             *)

Records(file) == IF file = NoFile THEN {} ELSE ToSet(file) \ {Hole}
Stored ==
    Records(merged) \cup UNION {Records(async[c]) \cup Records(out[c]) : c \in Chunks}

\* Jobs one at a time: a record that has been written once stays in one of the files,
\* wherever jobs are stopped while records move from -async to the chunk's output to the
\* merged one.  (Jobs at once may both merge, and one truncates what the other has merged.)
NothingLost == [][mode.sequential => Stored \subseteq Stored']_vars

\* A chunk's output is in the order of the data, however its tasks finished and however
\* often the job was restarted.
InOrder ==
    \A c \in Chunks : out[c] # NoFile => \A k \in DOMAIN out[c] : out[c][k] = Start(c) + k - 1

\* Jobs one at a time: the merged file, when it is marked done and its inputs are about to
\* be removed, is the concatenation of the chunks' outputs.
MergeExact ==
    \A c \in Chunks :
        mode.sequential /\ At(c, "mark") =>
            /\ \A d \in Chunks : out[d] # NoFile
            /\ merged = FlattenSeq([k \in 1..NumChunks |-> out[k - 1]])

\* A .done file, on which resubmission relies to leave the chunk alone, stands for an
\* output that exists until it is merged and has every sample of the chunk ...
DoneIsComplete ==
    \A c \in Chunks : done[c] /\ ~mergedDone => out[c] # NoFile /\ ToSet(out[c]) = Chunk(c)

\* ... provided that no job was stopped while it put its records in order; a job may be
\* stopped anywhere else, in the middle of a line, of the merge or of the removals.
DoneIsTrue == ~halfway => DoneIsComplete

\* Without stopped jobs, one submission ends with a merged file, whichever job finishes last.
Merged == submits > 0 /\ mode.stops = 0 ~> mergedDone
=============================================================================
