--------------------------- MODULE MCEvalPipeline ---------------------------
(* TLC instances of EvalPipeline. *)
EXTENDS EvalPipeline, TLC

\* One seed of the first benchmark and two of the second: with two jobs the first job has
\* an evaluation of each, and the second benchmark is spread over both.
MCSpread ==
    [seeds : {<<1, 2>>}, judge : [Benchmarks -> {"none", "llm", "step"}], grouped : {{}, {1, 2}},
     step : {FALSE}, num_jobs : {2}, dependent : {1}, slurm : BOOLEAN, rerun : BOOLEAN,
     packaged : {FALSE}]

\* Every evaluation a job of its own; the judge step is named on the command line.
MCApart ==
    [seeds : {<<1, 2>>}, judge : [Benchmarks -> {"none", "llm"}], grouped : {{2}},
     step : BOOLEAN, num_jobs : {-1}, dependent : {0}, slurm : {TRUE}, rerun : BOOLEAN,
     packaged : {FALSE}]

\* A judge step of the repository's, behind a benchmark that an LLM judges or none does.
MCPackaged ==
    [seeds : {<<1, 2>>}, judge : {<<"llm", "step">>, <<"none", "step">>, <<"step", "none">>},
     grouped : {{}}, step : {FALSE}, num_jobs : {2}, dependent : {0}, slurm : BOOLEAN,
     rerun : {FALSE}, packaged : {TRUE}]

MCConfigs == MCSpread \cup MCApart \cup MCPackaged
=============================================================================
