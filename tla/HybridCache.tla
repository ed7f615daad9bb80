---------------------------- MODULE HybridCache ----------------------------
(***************************************************************************)
(* The LLM response cache of a generation job: HybridCache                 *)
(* (nemo_skills/inference/litellm_hybrid_cache.py) with its background     *)
(* saver, its atexit handler and the job's own cleanup_litellm_cache       *)
(* (nemo_skills/inference/generate.py), over the life of one cache file:   *)
(* jobs that end, fail or are killed, and the jobs that continue them.     *)
(*                                                                         *)
(* The dictionary is its version, the number of the last change: whatever  *)
(* set, delete, flush or increment did, a file is as good as the version   *)
(* in it.                                                                  *)
(***************************************************************************)
EXTENDS Naturals

CONSTANTS
    MaxChanges,     \* bound: changes to the dictionary
    MaxStarts,      \* bound: processes, one after the other
    None

ASSUME HybridCacheAssumption ==
    /\ MaxChanges \in Nat
    /\ MaxStarts \in Nat
    /\ None \notin Nat

Savers  == {"main", "bg"}
Names   == {"cache.pkl", "cache.pkl.tmp"}
Inodes  == 1..3      \* one per name and one that a saver holds open without a name
Saving  == {"mkdir", "open", "write", "replace"}
Versions == 0..MaxChanges

VARIABLES
    mem, dirty,     \* cache_dict's version, _dirty
    stop,           \* _stop_event
    pc, snap, fd,   \* per saver: where it is, the copy it writes, the file it has open
    last,           \* is the main thread's save the one of _shutdown?
    listing,        \* names rmtree has yet to unlink
    dir, files,     \* the cache directory, and the file behind each name in it
    data, shared,   \* per file: the version in it or None if it is torn; opened by two at once
    clock, starts,  \* bounds; clock numbers the changes
    \* history variables
    end,            \* how the last process ended
    raised,         \* did a save of this process raise?
    raced           \* did the main thread enter a save while the background one was under way?

memory == <<mem, dirty, stop>>
thread == <<pc, snap, fd, last, listing>>
disk   == <<dir, files, data, shared>>
past   == <<clock, starts, end, raised, raced>>
vars   == <<memory, thread, disk, past>>

\* Version 0 is the empty dictionary: what a job without a cache file starts from.
OnDisk == IF files["cache.pkl"] = None THEN 0 ELSE data[files["cache.pkl"]]

TypeOK ==
    /\ mem \in Versions /\ dirty \in BOOLEAN /\ stop \in BOOLEAN
    /\ pc \in [Savers -> Saving \cup {"down", "work", "force", "save", "list", "unlink", "rmdir", "join", "wait", "ended"}]
    /\ pc["bg"] \in Saving \cup {"wait", "ended"}
    /\ snap \in [Savers -> Versions] /\ fd \in [Savers -> Inodes \cup {None}]
    /\ \A s \in Savers : pc[s] = "write" <=> fd[s] # None
    /\ last \in BOOLEAN /\ listing \subseteq Names
    /\ dir \in BOOLEAN /\ files \in [Names -> Inodes \cup {None}]
    /\ ~dir => \A n \in Names : files[n] = None
    /\ data \in [Inodes -> Versions \cup {None}] /\ shared \in [Inodes -> BOOLEAN]
    /\ clock \in Versions /\ starts \in 0..MaxStarts
    /\ end \in {"none", "killed", "exit", "cleaned"}
    /\ raised \in BOOLEAN /\ raced \in BOOLEAN

Init ==
    /\ mem = 0 /\ dirty = FALSE /\ stop = FALSE
    /\ pc = [s \in Savers |-> IF s = "main" THEN "down" ELSE "ended"]
    /\ snap = [s \in Savers |-> 0] /\ fd = [s \in Savers |-> None]
    /\ last = FALSE /\ listing = {}
    /\ dir = FALSE /\ files = [n \in Names |-> None]
    /\ data = [i \in Inodes |-> None] /\ shared = [i \in Inodes |-> FALSE]
    /\ clock = 0 /\ starts = 0
    /\ end = "none" /\ raised = FALSE /\ raced = FALSE

Goto(s, label) == pc' = [pc EXCEPT ![s] = label]

\* Mutant: the file is not loaded.
StartEmpty ==
    /\ pc["main"] = "down" /\ starts < MaxStarts
    /\ starts' = starts + 1
    /\ mem' = 0
    /\ dirty' = FALSE /\ stop' = FALSE
    /\ pc' = [pc EXCEPT !["main"] = "work", !["bg"] = "wait"]
    /\ end' = "none" /\ raised' = FALSE
    /\ UNCHANGED <<snap, fd, last, listing, disk, clock, raced>>

\* setup_litellm_cache: the constructor loads the file and starts the background thread.
Start ==
    /\ pc["main"] = "down" /\ starts < MaxStarts
    /\ starts' = starts + 1
    /\ OnDisk # None
    /\ mem' = OnDisk
    /\ dirty' = FALSE /\ stop' = FALSE
    /\ pc' = [pc EXCEPT !["main"] = "work", !["bg"] = "wait"]
    /\ end' = "none" /\ raised' = FALSE
    /\ UNCHANGED <<snap, fd, last, listing, disk, clock, raced>>

\* pickle.load raises on a torn file: the job never gets past its constructor.
StartFails ==
    /\ pc["main"] = "down" /\ starts < MaxStarts
    /\ starts' = starts + 1
    /\ OnDisk = None
    /\ UNCHANGED <<memory, thread, disk, clock, end, raised, raced>>

\* set_cache, delete_cache, flush_cache, increment_cache: under the lock.
Change ==
    /\ pc["main"] = "work" /\ clock < MaxChanges
    /\ clock' = clock + 1
    /\ mem' = clock + 1
    /\ dirty' = TRUE
    /\ UNCHANGED <<stop, thread, disk, starts, end, raised, raced>>

(***************************************************************************)
(* _save_to_disk, by either thread.                                        *)
(***************************************************************************)

Other(s) == IF s = "main" THEN "bg" ELSE "main"

\* The critical section: copy the dictionary and clear the flag.
Copy(s) ==
    /\ dirty
    /\ dirty' = FALSE
    /\ snap' = [snap EXCEPT ![s] = mem]
    /\ Goto(s, "mkdir")

BgWakes ==
    /\ pc["bg"] = "wait" /\ ~stop
    /\ Copy("bg")
    /\ UNCHANGED <<mem, stop, fd, last, listing, disk, past>>

BgStops ==
    /\ pc["bg"] = "wait" /\ stop
    /\ Goto("bg", "ended")
    /\ UNCHANGED <<memory, snap, fd, last, listing, disk, past>>

\* Mutant: the background thread saves once.
SavedOnce(s) == IF s = "bg" THEN "ended" ELSE IF last THEN "down" ELSE "list"

\* Where a thread goes when _save_to_disk is over, and when it raises: the background loop
\* ends for good; the job fails, and its exit handler is next; the exit handler gives up.
Saved(s)  == IF s = "bg" THEN "wait" ELSE IF last THEN "down" ELSE "list"
Failed(s) == IF s = "bg" THEN "ended" ELSE IF last THEN "down" ELSE "join"

\* The end of the process takes the daemon thread with it.
Gone(how) ==
    /\ pc' = [s \in Savers |-> IF s = "main" THEN "down" ELSE "ended"]
    /\ fd' = [s \in Savers |-> None]
    /\ end' = how

Leave(s, label) ==
    IF label = "down"
    THEN Gone(IF end = "cleaned" THEN "cleaned" ELSE "exit")
    ELSE Goto(s, label) /\ fd' = [fd EXCEPT ![s] = None] /\ UNCHANGED end

Raise(s) ==
    /\ raised' = TRUE
    /\ Leave(s, Failed(s))

\* Mutant: the flag is not looked at.
MainSavesAlways ==
    /\ pc["main"] = "save"
    /\ raced' = (raced \/ pc["bg"] \in Saving)
    /\ dirty' = FALSE
    /\ snap' = [snap EXCEPT !["main"] = mem]
    /\ Goto("main", "mkdir")
    /\ UNCHANGED <<mem, stop, fd, last, listing, disk, clock, starts, end, raised>>

\* The main thread's save, from force_save or from _shutdown.
MainSaves ==
    /\ pc["main"] = "save"
    /\ raced' = (raced \/ pc["bg"] \in Saving)
    /\ \/ Copy("main") /\ UNCHANGED <<fd, end>>
       \/ ~dirty /\ Leave("main", Saved("main")) /\ UNCHANGED <<dirty, snap>>
    /\ UNCHANGED <<mem, stop, last, listing, disk, clock, starts, raised>>

Mkdir(s) ==
    /\ pc[s] = "mkdir"
    /\ dir' = TRUE
    /\ Goto(s, "open")
    /\ UNCHANGED <<memory, snap, fd, last, listing, files, data, shared, past>>

\* Mutant: the cache file itself is opened for writing.
OpenInPlace(s) ==
    /\ pc[s] = "open" /\ dir
    /\ LET old == files["cache.pkl"]
           i   == IF old # None THEN old ELSE CHOOSE j \in Inodes : j # fd[Other(s)]
       IN   /\ files' = [n \in Names |-> i]
            /\ fd' = [fd EXCEPT ![s] = i]
            /\ data' = [data EXCEPT ![i] = None]
            /\ shared' = [shared EXCEPT ![i] = fd[Other(s)] = i]
    /\ Goto(s, "write")
    /\ UNCHANGED <<memory, snap, last, listing, dir, past>>

\* open(temp_path, "wb"): the file behind the name is truncated, whoever else writes to it.
Open(s) ==
    /\ pc[s] = "open" /\ dir
    /\ LET tmp == files["cache.pkl.tmp"]
           i   == IF tmp # None THEN tmp
                  ELSE CHOOSE j \in Inodes : j \notin {files["cache.pkl"], fd[Other(s)]}
       IN   /\ files' = [files EXCEPT !["cache.pkl.tmp"] = i]
            /\ fd' = [fd EXCEPT ![s] = i]
            /\ data' = [data EXCEPT ![i] = None]
            /\ shared' = [shared EXCEPT ![i] = fd[Other(s)] = i]
    /\ Goto(s, "write")
    /\ UNCHANGED <<memory, snap, last, listing, dir, past>>

\* Two writers of one file leave the work of the one that finishes, or a mixture.
Write(s) ==
    /\ pc[s] = "write"
    /\ \E v \in IF shared[fd[s]] THEN {snap[s], None} ELSE {snap[s]} :
        data' = [data EXCEPT ![fd[s]] = v]
    /\ fd' = [fd EXCEPT ![s] = None]
    /\ Goto(s, "replace")
    /\ UNCHANGED <<memory, snap, last, listing, dir, files, shared, past>>

\* Mutant: the flag is cleared once the file is in place.
ReplaceClears(s) ==
    /\ pc[s] = "replace" /\ files["cache.pkl.tmp"] # None
    /\ files' = [files EXCEPT !["cache.pkl"] = files["cache.pkl.tmp"], !["cache.pkl.tmp"] = None]
    /\ dirty' = FALSE
    /\ Leave(s, Saved(s))
    /\ UNCHANGED <<mem, stop, snap, last, listing, dir, data, shared, clock, starts, raised, raced>>

Replace(s) ==
    /\ pc[s] = "replace" /\ files["cache.pkl.tmp"] # None
    /\ files' = [files EXCEPT !["cache.pkl"] = files["cache.pkl.tmp"], !["cache.pkl.tmp"] = None]
    /\ Leave(s, Saved(s))
    /\ UNCHANGED <<memory, snap, last, listing, dir, data, shared, clock, starts, raised, raced>>

\* The directory or the .tmp file is gone, or the write fails (no space, no quota).
SaveFails(s) ==
    /\ \/ pc[s] = "open" /\ ~dir
       \/ pc[s] = "write"
       \/ pc[s] = "replace" /\ files["cache.pkl.tmp"] = None
    /\ Raise(s)
    /\ UNCHANGED <<memory, snap, last, listing, disk, clock, starts, raced>>

(***************************************************************************)
(* The job's end: cleanup_litellm_cache, then the exit handler; or the     *)
(* handler alone, when the job failed or had nothing to do.                *)
(***************************************************************************)

\* force_save sets the flag without the lock.
ForceSave ==
    /\ pc["main"] = "work"
    /\ dirty' = TRUE
    /\ last' = FALSE
    /\ Goto("main", "save")
    /\ UNCHANGED <<mem, stop, snap, fd, listing, disk, past>>

RmtreeList ==
    /\ pc["main"] = "list"
    /\ IF dir
       THEN listing' = {n \in Names : files[n] # None} /\ Goto("main", "unlink")
       ELSE Goto("main", "join") /\ UNCHANGED listing
    /\ UNCHANGED <<memory, snap, fd, last, disk, past>>

RmtreeUnlink ==
    /\ pc["main"] = "unlink"
    /\ \E n \in listing :
        IF files[n] # None
        THEN /\ files' = [files EXCEPT ![n] = None]
             /\ listing' = listing \ {n}
             /\ UNCHANGED pc
        ELSE /\ listing' = {}
             /\ Goto("main", "join")
             /\ UNCHANGED files
    /\ UNCHANGED <<memory, snap, fd, last, dir, data, shared, past>>

\* Mutant: a file that has come in meanwhile does not keep the directory.
RmtreeRmdirForced ==
    /\ pc["main"] = "unlink" /\ listing = {}
    /\ dir' = FALSE /\ end' = "cleaned"
    /\ Goto("main", "join")
    /\ UNCHANGED <<memory, snap, fd, last, listing, files, data, shared, clock, starts, raised, raced>>

RmtreeRmdir ==
    /\ pc["main"] = "unlink" /\ listing = {}
    /\ IF \A n \in Names : files[n] = None
       THEN dir' = FALSE /\ end' = "cleaned"
       ELSE UNCHANGED <<dir, end>>
    /\ Goto("main", "join")
    /\ UNCHANGED <<memory, snap, fd, last, listing, files, data, shared, clock, starts, raised, raced>>

Exit ==
    /\ pc["main"] = "work"
    /\ Goto("main", "join")
    /\ UNCHANGED <<memory, snap, fd, last, listing, disk, past>>

\* _shutdown begins, or has begun: the thread is told to stop.
SetStop ==
    /\ pc["main"] = "join" /\ ~stop
    /\ stop' = TRUE
    /\ UNCHANGED <<mem, dirty, thread, disk, past>>

\* join returns when the thread has ended, or after its five seconds with a save under way.
Join ==
    /\ pc["main"] = "join" /\ stop
    /\ pc["bg"] # "wait"
    /\ last' = TRUE
    /\ Goto("main", "save")
    /\ UNCHANGED <<memory, snap, fd, listing, disk, past>>

\* The time limit, at any moment.
Kill ==
    /\ pc["main"] # "down"
    /\ Gone("killed")
    /\ UNCHANGED <<memory, snap, last, listing, disk, clock, starts, raised, raced>>

Bg == BgWakes \/ BgStops \/ Mkdir("bg") \/ Open("bg") \/ Write("bg") \/ Replace("bg")

Next ==
    \/ Start \/ StartFails \/ Change
    \/ BgWakes \/ BgStops \/ MainSaves
    \/ \E s \in Savers : Mkdir(s) \/ Open(s) \/ Write(s) \/ Replace(s) \/ SaveFails(s)
    \/ ForceSave \/ RmtreeList \/ RmtreeUnlink \/ RmtreeRmdir
    \/ Exit \/ SetStop \/ Join \/ Kill

Spec == Init /\ [][Next]_vars

\* The background thread wakes up again and again, and its system calls return.
FairSpec == Spec /\ WF_vars(Bg)

(***************************************************************************)
(* Properties.  Once the main thread enters a save while the background    *)
(* one is under way, the file may be torn or old, and changes may be lost: *)
(* what is conditional below is what that race, and nothing else, breaks.  *)
(***************************************************************************)

\* At whatever moment a job is stopped, the next one can load the cache file: a write that
\* was cut short, or failed, never reaches the name cache.pkl.
Loadable == ~raced => OnDisk # None

\* A flag that is clear means that the file has every change, while the job works and after
\* a job that failed or had nothing to do has ended in order.
Synced ==
    /\ pc["main"] = "work" /\ pc["bg"] = "wait" /\ ~dirty /\ ~raised => OnDisk = mem
    /\ pc["main"] = "down" /\ end = "exit" /\ ~raised /\ ~raced => OnDisk = mem

\* A save never replaces the file by an older version of the dictionary.
NeverOlder ==
    [][~raced' /\ files["cache.pkl"] # None /\ files'["cache.pkl"] # None => OnDisk' >= OnDisk]_vars

\* A job that has cleaned up leaves no cache directory behind: a later run of the same output
\* would answer from it.
CleanedUp == pc["main"] = "down" /\ end = "cleaned" /\ ~raced => ~dir

\* While a job works, every change reaches the disk, unless a save has raised: that ends the
\* background thread.
Persisted ==
    \A v \in Versions :
        (pc["main"] = "work" /\ mem = v) ~>
            (pc["main"] # "work" \/ raised \/ OnDisk \in v..MaxChanges)
=============================================================================
