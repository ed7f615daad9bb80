----------------------------- MODULE VenvSetup -----------------------------
(***************************************************************************)
(* The virtual environment that tasks with the same requirements share on  *)
(* a machine: the shell command of build_requirements_venv_cmd             *)
(* (nemo_skills/pipeline/utils/generation.py), which each task runs before *)
(* its own.  A directory serves as the lock, and files, tested and then    *)
(* written, as flags.                                                      *)
(*                                                                         *)
(* uv is external.  `uv venv` on a directory that is there clears it or    *)
(* refuses, depending on its version.                                      *)
(*                                                                         *)
(* The names Venv... and place leave the plain ones to SandboxStartup, the *)
(* other script of ShellScriptProofs.                                      *)
(***************************************************************************)
EXTENDS Naturals

CONSTANTS
    Tasks,
    MaxFaults       \* bound: tasks that are killed, and uv commands that fail

ASSUME VenvSetupAssumption == MaxFaults \in Nat

VARIABLES
    reqs,           \* REQS_FILE: absent, opened and not yet written, or whole
    lock,           \* does LOCK_DIR exist?
    ready,          \* READY_FILE, inside the environment
    venv,           \* VENV_DIR: absent, with packages missing, or whole
    place,
    faults,
    late, short     \* history: an installer came after ready was set; it read no whole REQS_FILE

venvVars == <<reqs, lock, ready, venv, place, faults, late, short>>

Installing == {"venv", "install", "touch", "unlock"}
Over       == {"end", "failed", "killed"}

VenvTypeOK ==
    /\ reqs \in {"absent", "part", "whole"}
    /\ lock \in BOOLEAN /\ ready \in BOOLEAN
    /\ venv \in {"absent", "part", "whole"}
    /\ place \in [Tasks -> {"test", "open", "write", "check", "lock", "wait", "use"} \cup Installing \cup Over]
    /\ faults \in 0..MaxFaults
    /\ late \in BOOLEAN /\ short \in BOOLEAN

VenvInit ==
    /\ reqs = "absent" /\ lock = FALSE /\ ready = FALSE /\ venv = "absent"
    /\ place = [t \in Tasks |-> "test"]
    /\ faults = 0
    /\ late = FALSE /\ short = FALSE

GoOn(t, label) == place' = [place EXCEPT ![t] = label]

\* if [ ! -f "$REQS_FILE" ]
TestReqs(t) ==
    /\ place[t] = "test"
    /\ GoOn(t, IF reqs = "absent" THEN "open" ELSE "check")
    /\ UNCHANGED <<reqs, lock, ready, venv, faults, late, short>>

\* cat > "$REQS_FILE": the shell truncates the file, then cat writes it.
OpenReqs(t) ==
    /\ place[t] = "open"
    /\ reqs' = "part"
    /\ GoOn(t, "write")
    /\ UNCHANGED <<lock, ready, venv, faults, late, short>>

WriteReqs(t) ==
    /\ place[t] = "write"
    /\ reqs' = "whole"
    /\ GoOn(t, "check")
    /\ UNCHANGED <<lock, ready, venv, faults, late, short>>

\* if [ ! -f "$READY_FILE" ]
CheckReady(t) ==
    /\ place[t] = "check"
    /\ GoOn(t, IF ready THEN "use" ELSE "lock")
    /\ UNCHANGED <<reqs, lock, ready, venv, faults, late, short>>

\* if mkdir "$LOCK_DIR"
Mkdir(t) ==
    /\ place[t] = "lock"
    /\ lock' = TRUE
    /\ GoOn(t, IF lock THEN "wait" ELSE "venv")
    /\ late' = (late \/ (~lock /\ ready))
    /\ UNCHANGED <<reqs, ready, venv, faults, short>>

\* while [ ! -f "$READY_FILE" ]; do sleep 1
Wait(t) ==
    /\ place[t] = "wait" /\ ready
    /\ GoOn(t, "use")
    /\ UNCHANGED <<reqs, lock, ready, venv, faults, late, short>>

\* uv venv
UvVenv(t) ==
    /\ place[t] = "venv"
    /\ venv' = "part" /\ ready' = FALSE
    /\ GoOn(t, "install")
    /\ UNCHANGED <<reqs, lock, faults, late, short>>

\* Mutants: nothing says that the environment is ready; the lock is given back before it is.
TouchNothing(t) ==
    /\ place[t] = "touch"
    /\ GoOn(t, "unlock")
    /\ UNCHANGED <<reqs, lock, ready, venv, faults, late, short>>
InstallUnlocks(t) ==
    /\ place[t] = "install"
    /\ venv' = IF reqs = "whole" THEN "whole" ELSE venv
    /\ short' = (short \/ reqs # "whole")
    /\ lock' = FALSE
    /\ GoOn(t, "touch")
    /\ UNCHANGED <<reqs, ready, faults, late>>

\* uv pip install -r "$REQS_FILE"; a file without requirements is installed without an error.
Install(t) ==
    /\ place[t] = "install"
    /\ venv' = IF reqs = "whole" THEN "whole" ELSE venv
    /\ short' = (short \/ reqs # "whole")
    /\ GoOn(t, "touch")
    /\ UNCHANGED <<reqs, lock, ready, faults, late>>

Touch(t) ==
    /\ place[t] = "touch"
    /\ ready' = TRUE
    /\ GoOn(t, "unlock")
    /\ UNCHANGED <<reqs, lock, venv, faults, late, short>>

Rmdir(t) ==
    /\ place[t] = "unlock"
    /\ lock' = FALSE
    /\ GoOn(t, "use")
    /\ UNCHANGED <<reqs, ready, venv, faults, late, short>>

\* rmdir "$LOCK_DIR"; exit 1
Abort(t) ==
    /\ lock' = FALSE
    /\ GoOn(t, "failed")

\* uv fails; or it will not have a directory that is there.
UvFails(t) ==
    /\ place[t] \in {"venv", "install"}
    /\ Abort(t)
    /\ \/ faults < MaxFaults /\ faults' = faults + 1
       \/ place[t] = "venv" /\ venv # "absent" /\ UNCHANGED faults
    /\ UNCHANGED <<reqs, ready, venv, late, short>>

\* The task's own command, in the activated environment
End(t) ==
    /\ place[t] = "use"
    /\ GoOn(t, "end")
    /\ UNCHANGED <<reqs, lock, ready, venv, faults, late, short>>

\* A time limit or a preemption, at any moment
Kill(t) ==
    /\ place[t] \notin Over /\ faults < MaxFaults
    /\ GoOn(t, "killed")
    /\ faults' = faults + 1
    /\ UNCHANGED <<reqs, lock, ready, venv, late, short>>

Step(t) ==
    \/ TestReqs(t) \/ OpenReqs(t) \/ WriteReqs(t) \/ CheckReady(t)
    \/ Mkdir(t) \/ Wait(t)
    \/ UvVenv(t) \/ Install(t) \/ Touch(t) \/ Rmdir(t)
    \/ End(t)

VenvNext == \E t \in Tasks : Step(t) \/ UvFails(t) \/ Kill(t)

VenvSpec == VenvInit /\ [][VenvNext]_venvVars

\* A task that is not killed goes on, and its commands end.
VenvFairSpec == VenvSpec /\ \A t \in Tasks : WF_venvVars(Step(t) \/ UvFails(t))

(***************************************************************************)
(* Properties.                                                             *)
(***************************************************************************)

(* Tasks in the environment have all their packages, as long as they are   *)
(* in it: no two tasks install, whatever fails or is killed.  Two things   *)
(* break it: an installer that tested the ready file before, and the lock  *)
(* after, another one had finished (late), and a requirements file whose   *)
(* writer is slow or dead (short).                                         *)
WholeInUse ==
    ~late /\ ~short => \A t \in Tasks : place[t] = "use" => ready /\ venv = "whole"

(* Without failures, every task gets to its own command, except for a late *)
(* installer that uv refuses.                                              *)
SetUp == \A t \in Tasks : place[t] = "test" ~> place[t] \in {"use", "end"} \/ faults > 0 \/ late
=============================================================================
