-------------------------- MODULE CacheBatcherProofs -------------------------
(***************************************************************************)
(* Proofs about two parts through which requests to a model pass.          *)
(* HybridCache: what a job that is stopped at any moment leaves behind,    *)
(* for any number of changes and of processes.  RequestBatcher: it         *)
(* implements BatchService and never forgets a pending request, for every  *)
(* number of requests and every batch size and timeout.                    *)
(***************************************************************************)
EXTENDS HybridCache, RequestBatcher, SequenceTheorems, TLAPS

-----------------------------------------------------------------------------
(* The inductive invariant.                                                *)

\* Where the two threads can be, and when; the two names are never one file.
Control ==
    /\ pc["main"] = "down" => pc["bg"] = "ended"
    /\ pc["main"] = "work" => ~stop
    /\ pc["bg"] = "ended" /\ ~raised /\ pc["main"] # "down" => stop
    /\ \/ end = "none"
       \/ pc["main"] = "down"
       \/ end = "cleaned" /\ pc["main"] = "join"
       \/ end = "cleaned" /\ last /\ pc["main"] \in Saving \cup {"save"}
    /\ files["cache.pkl"] # None => files["cache.pkl"] # files["cache.pkl.tmp"]

\* A process that has not raced: while its main thread works, only the background one saves.
Clean == ~raced \/ pc["main"] \in {"down", "work"}

\* One thread at a time has to do with the files, and finds them as it left them.
Turns ==
    /\ pc["main"] \in Saving \cup {"list", "unlink"} => ~dirty /\ pc["bg"] \notin Saving
    /\ \A s \in Savers : pc[s] = "open" => dir
    /\ \A s \in Savers : pc[s] \in {"write", "replace"} => dir /\ files["cache.pkl.tmp"] # None
    /\ \A s \in Savers : pc[s] = "write" => fd[s] = files["cache.pkl.tmp"] /\ ~shared[fd[s]]
    /\ \A s \in Savers : pc[s] = "replace" => data[files["cache.pkl.tmp"]] = snap[s]
    /\ pc["main"] = "unlink" => listing = {n \in Names : files[n] # None}

\* Nothing comes back after the directory was removed.
Removed ==
    end = "cleaned" => ~dir /\ ~dirty /\ pc["bg"] \notin Saving /\ pc["main"] \notin Saving

\* The cache file is whole while a job works on it, and always if there was no race.
Whole == pc["main"] = "work" \/ ~raced => OnDisk \in Versions

\* The versions on disk, in the copies under way and in memory are in this order.
Ordered ==
    /\ OnDisk <= clock
    /\ mem <= clock
    /\ pc["main"] # "down" => OnDisk <= mem
    /\ \A s \in Savers : pc[s] \in Saving => OnDisk <= snap[s] /\ snap[s] <= mem

\* A change is marked, on its way to the disk, or there.
Kept ==
    \/ dirty
    \/ \E s \in Savers : pc[s] \in Saving /\ snap[s] = mem
    \/ (\A s \in Savers : pc[s] \notin Saving) /\ OnDisk = mem

\* The same at each point of a process none of whose saves has raised
Current ==
    /\ pc["main"] = "work" => Kept
    /\ ~raced /\ pc["main"] \notin {"down", "unlink"} /\ end = "none" => Kept
    /\ ~raced /\ pc["main"] = "down" /\ end = "exit" => OnDisk = mem

IInv ==
    /\ TypeOK
    /\ Control
    /\ Clean => Turns
    /\ ~raced => Removed /\ Ordered
    /\ Whole
    /\ ~raised => Current

-----------------------------------------------------------------------------
(* What an action does to the control state.                               *)

LEMMA OtherSaver == ASSUME NEW s \in Savers  PROVE Other(s) \in Savers \ {s}
BY DEF Savers, Other

\* There is always a file that neither the cache's name nor the other saver has.
LEMMA FreshInode ==
    ASSUME NEW a, NEW b
    PROVE  (CHOOSE j \in Inodes : j \notin {a, b}) \in Inodes \ {a, b}
<1>1. \E j \in Inodes : j \notin {a, b}
    BY DEF Inodes
<1> QED  BY <1>1

\* The end of the process, from wherever it comes
LEMMA GoneAll ==
    ASSUME NEW how, Gone(how)
    PROVE  /\ pc' = [s \in Savers |-> IF s = "main" THEN "down" ELSE "ended"]
           /\ pc'["main"] = "down" /\ pc'["bg"] = "ended"
           /\ fd' = [s \in Savers |-> None]
           /\ end' = how
BY DEF Gone, Savers

\* Leaving a save: the process is over, or the thread goes on to the label.
LEMMA LeaveOne ==
    ASSUME TypeOK, NEW s \in Savers, NEW label, Leave(s, label)
    PROVE  \/ /\ label = "down"
              /\ pc' = [t \in Savers |-> IF t = "main" THEN "down" ELSE "ended"]
              /\ fd' = [t \in Savers |-> None]
              /\ end' = IF end = "cleaned" THEN "cleaned" ELSE "exit"
           \/ /\ label # "down"
              /\ pc' = [pc EXCEPT ![s] = label]
              /\ fd' = [fd EXCEPT ![s] = None]
              /\ end' = end
BY DEF Leave, Gone, Goto

\* The file that Open truncates is the temporary file, or one that nobody has.
LEMMA OpenOne ==
    ASSUME TypeOK, NEW s \in Savers, Open(s)
    PROVE  \E i \in Inodes :
              /\ files' = [files EXCEPT !["cache.pkl.tmp"] = i]
              /\ fd' = [fd EXCEPT ![s] = i]
              /\ data' = [data EXCEPT ![i] = None]
              /\ shared' = [shared EXCEPT ![i] = fd[Other(s)] = i]
              /\ \/ i = files["cache.pkl.tmp"]
                 \/ i # files["cache.pkl"] /\ i # fd[Other(s)]
<1> DEFINE tmp   == files["cache.pkl.tmp"]
           fresh == CHOOSE j \in Inodes : j \notin {files["cache.pkl"], fd[Other(s)]}
           i     == IF tmp # None THEN tmp ELSE fresh
<1>1. fresh \in Inodes \ {files["cache.pkl"], fd[Other(s)]}
    BY FreshInode
<1>2. /\ files' = [files EXCEPT !["cache.pkl.tmp"] = i]
      /\ fd' = [fd EXCEPT ![s] = i]
      /\ data' = [data EXCEPT ![i] = None]
      /\ shared' = [shared EXCEPT ![i] = fd[Other(s)] = i]
    BY DEF Open
<1>3. tmp \in Inodes \cup {None}
    BY DEF TypeOK, Names
<1> HIDE DEF fresh
<1>4. i \in Inodes /\ (i = tmp \/ i = fresh)
    BY <1>1, <1>3
<1> HIDE DEF i
<1>5. i = files["cache.pkl.tmp"] \/ (i # files["cache.pkl"] /\ i # fd[Other(s)])
    BY <1>1, <1>4
<1> QED  BY <1>2, <1>4, <1>5

LEMMA InitIInv == Init => IInv
<1> SUFFICES ASSUME Init  PROVE IInv
    OBVIOUS
<1> USE HybridCacheAssumption DEF Init
<1>1. TypeOK
    <2>1. 0 \in Versions /\ 0 \in 0..MaxStarts
        BY DEF Versions
    <2>2. pc \in [Savers -> {"down", "ended"}] /\ pc["bg"] = "ended"
        BY DEF Savers
    <2>3. \A s \in Savers : pc[s] # "write" /\ fd[s] = None
        BY DEF Savers
    <2> QED  BY <2>1, <2>2, <2>3 DEF TypeOK, Saving
<1>2. Control /\ Turns /\ Removed
    BY DEF Control, Turns, Removed, Savers, Saving, Names
<1>3. OnDisk = 0
    BY DEF OnDisk, Names
<1>4. Whole /\ Ordered /\ Current
    BY <1>3 DEF Whole, Ordered, Current, Versions, Savers, Saving
<1> QED  BY <1>1, <1>2, <1>4 DEF IInv

LEMMA NextType == TypeOK /\ Control /\ [Next]_vars => TypeOK'
<1> SUFFICES ASSUME TypeOK, Control, [Next]_vars  PROVE TypeOK'
    OBVIOUS
<1> USE HybridCacheAssumption DEF TypeOK, Saving, Savers
<1>1. CASE UNCHANGED vars
    BY <1>1 DEF vars, memory, thread, disk, past
<1>2. CASE Start \/ StartFails
    <2>1. starts' \in 0..MaxStarts
        BY <1>2 DEF Start, StartFails
    <2>2. CASE Start
        <3>1. OnDisk \in Versions
            BY <2>2 DEF Start, OnDisk, Names, Inodes, Versions
        <3>2. pc' = [pc EXCEPT !["main"] = "work", !["bg"] = "wait"] /\ pc["main"] = "down"
            BY <2>2 DEF Start
        <3>3. /\ pc' \in [Savers -> Saving \cup {"down", "work", "force", "save", "list", "unlink", "rmdir", "join", "wait", "ended"}]
              /\ pc'["bg"] = "wait"
            BY <3>2
        <3>4. fd' = fd /\ \A s \in Savers : pc'[s] # "write" /\ fd[s] = None
            BY <2>2, <3>2 DEF Start, Control
        <3> QED  BY <2>1, <2>2, <3>1, <3>3, <3>4 DEF Start, disk
    <2>3. CASE StartFails
        BY <2>1, <2>3 DEF StartFails, memory, thread, disk
    <2> QED  BY <1>2, <2>2, <2>3
<1>3. CASE Change
    <2>1. clock' \in Versions /\ mem' \in Versions
        BY <1>3 DEF Change, Versions
    <2> QED  BY <1>3, <2>1 DEF Change, thread, disk
<1>4. CASE BgWakes \/ BgStops
    <2>1. CASE BgWakes
        BY <2>1 DEF BgWakes, Copy, Goto, disk, past
    <2>2. CASE BgStops
        BY <2>2 DEF BgStops, Goto, memory, disk, past
    <2> QED  BY <1>4, <2>1, <2>2
<1>5. CASE MainSaves
    <2>1. CASE Copy("main") /\ UNCHANGED <<fd, end>>
        BY <1>5, <2>1 DEF MainSaves, Copy, Goto, disk
    <2>2. CASE ~dirty /\ Leave("main", Saved("main")) /\ UNCHANGED <<dirty, snap>>
        <3>1. Saved("main") \in {"down", "list"}
            BY DEF Saved
        <3> QED  BY <1>5, <2>2, <3>1, LeaveOne DEF MainSaves, disk
    <2> QED  BY <1>5, <2>1, <2>2 DEF MainSaves
<1>6. ASSUME NEW s \in Savers, Mkdir(s)
      PROVE  TypeOK'
    BY <1>6 DEF Mkdir, Goto, memory, past
<1>7. ASSUME NEW s \in Savers, Open(s)
      PROVE  TypeOK'
    <2>1. PICK i \in Inodes :
            /\ files' = [files EXCEPT !["cache.pkl.tmp"] = i]
            /\ fd' = [fd EXCEPT ![s] = i]
            /\ data' = [data EXCEPT ![i] = None]
            /\ shared' = [shared EXCEPT ![i] = fd[Other(s)] = i]
        BY <1>7, OpenOne
    <2>2. i # None
        BY DEF Inodes
    <2>3. pc' = [pc EXCEPT ![s] = "write"] /\ dir
        BY <1>7 DEF Open, Goto
    <2>4. \A t \in Savers : pc'[t] = "write" <=> fd'[t] # None
        BY <2>1, <2>2, <2>3
    <2>5. (fd[Other(s)] = i) \in BOOLEAN
        OBVIOUS
    <2>6. /\ files' \in [Names -> Inodes \cup {None}] /\ fd' \in [Savers -> Inodes \cup {None}]
          /\ data' \in [Inodes -> Versions \cup {None}] /\ shared' \in [Inodes -> BOOLEAN]
        BY <2>1, <2>5 DEF Names
    <2> QED  BY <1>7, <2>3, <2>4, <2>6 DEF Open, memory, past
<1>8. ASSUME NEW s \in Savers, Write(s)
      PROVE  TypeOK'
    <2>1. data' \in [Inodes -> Versions \cup {None}]
        BY <1>8 DEF Write
    <2> QED  BY <1>8, <2>1 DEF Write, Goto, memory, past
<1>9. ASSUME NEW s \in Savers, Replace(s)
      PROVE  TypeOK'
    <2>1. Saved(s) \in {"wait", "down", "list"} /\ (s = "bg" => Saved(s) = "wait")
        BY DEF Saved
    <2>2. files' \in [Names -> Inodes \cup {None}]
        BY <1>9 DEF Replace, Names
    <2>3. dir
        BY <1>9 DEF Replace, Names
    <2> QED  BY <1>9, <2>1, <2>2, <2>3, LeaveOne DEF Replace, memory
<1>10. ASSUME NEW s \in Savers, SaveFails(s)
       PROVE  TypeOK'
    <2>1. Failed(s) \in {"ended", "down", "join"} /\ (s = "bg" => Failed(s) = "ended")
        BY DEF Failed
    <2> QED  BY <1>10, <2>1, LeaveOne DEF SaveFails, Raise, memory, disk
<1>11. CASE ForceSave \/ Exit
    <2>1. pc["main"] = "work" /\ pc' \in {[pc EXCEPT !["main"] = l] : l \in {"save", "join"}} /\ fd' = fd
        BY <1>11 DEF ForceSave, Exit, Goto
    <2>2. last' \in BOOLEAN /\ dirty' \in BOOLEAN
        BY <1>11 DEF ForceSave, Exit, memory
    <2> QED  BY <1>11, <2>1, <2>2 DEF ForceSave, Exit, memory, disk, past
<1>12. CASE RmtreeList
    BY <1>12 DEF RmtreeList, Goto, memory, disk, past
<1>13. CASE RmtreeUnlink
    BY <1>13 DEF RmtreeUnlink, Goto, memory, past
<1>14. CASE RmtreeRmdir
    BY <1>14 DEF RmtreeRmdir, Goto, memory
<1>15. CASE SetStop \/ Join
    <2>1. CASE SetStop
        BY <2>1 DEF SetStop, thread, disk, past
    <2>2. CASE Join
        BY <2>2 DEF Join, Goto, memory, disk, past
    <2> QED  BY <1>15, <2>1, <2>2
<1>16. CASE Kill
    BY <1>16, GoneAll DEF Kill, memory, disk
<1> QED
    BY <1>1, <1>2, <1>3, <1>4, <1>5, <1>6, <1>7, <1>8, <1>9, <1>10, <1>11, <1>12, <1>13, <1>14, <1>15, <1>16
    DEF Next

LEMMA NextControl == TypeOK /\ Control /\ [Next]_vars => Control'
<1> SUFFICES ASSUME TypeOK, Control, [Next]_vars  PROVE Control'
    OBVIOUS
<1> USE DEF TypeOK, Control, Saving, Savers
<1>1. CASE UNCHANGED vars
    BY <1>1 DEF vars, memory, thread, disk, past
<1>2. CASE Start
    BY <1>2 DEF Start, disk
<1>3. CASE StartFails \/ Change
    BY <1>3 DEF StartFails, Change, memory, thread, disk
<1>4. CASE BgWakes
    BY <1>4 DEF BgWakes, Copy, Goto, disk, past
<1>5. CASE BgStops
    BY <1>5 DEF BgStops, Goto, memory, disk, past
<1>6. CASE MainSaves
    <2>1. CASE Copy("main") /\ UNCHANGED <<fd, end>>
        BY <1>6, <2>1 DEF MainSaves, Copy, Goto, disk
    <2>2. CASE ~dirty /\ Leave("main", Saved("main")) /\ UNCHANGED <<dirty, snap>>
        <3>1. \/ pc'["main"] = "down" /\ pc'["bg"] = "ended"
              \/ pc' = [pc EXCEPT !["main"] = "list"] /\ end' = end /\ ~last
            BY <2>2, LeaveOne DEF Saved
        <3>2. pc["main"] = "save" /\ UNCHANGED <<stop, disk, raised>>
            BY <1>6 DEF MainSaves
        <3> QED  BY <3>1, <3>2 DEF disk
    <2> QED  BY <1>6, <2>1, <2>2 DEF MainSaves
<1>7. ASSUME NEW s \in Savers, Mkdir(s)
      PROVE  Control'
    BY <1>7 DEF Mkdir, Goto, memory, past
<1>8. ASSUME NEW s \in Savers, Open(s)
      PROVE  Control'
    <2>1. PICK i \in Inodes :
            /\ files' = [files EXCEPT !["cache.pkl.tmp"] = i]
            /\ i = files["cache.pkl.tmp"] \/ i # files["cache.pkl"]
        BY <1>8, OpenOne
    <2>2. pc' = [pc EXCEPT ![s] = "write"] /\ pc[s] = "open" /\ UNCHANGED <<memory, last, past>>
        BY <1>8 DEF Open, Goto
    <2>3. i # None
        BY HybridCacheAssumption DEF Inodes
    <2> QED  BY <2>1, <2>2, <2>3 DEF memory, past, Names
<1>9. ASSUME NEW s \in Savers, Write(s)
      PROVE  Control'
    BY <1>9 DEF Write, Goto, memory, past
<1>10. ASSUME NEW s \in Savers, Replace(s)
       PROVE  Control'
    <2>1. Saved(s) = IF s = "bg" THEN "wait" ELSE IF last THEN "down" ELSE "list"
        BY DEF Saved
    <2>2. /\ files' = [files EXCEPT !["cache.pkl"] = files["cache.pkl.tmp"], !["cache.pkl.tmp"] = None]
          /\ pc[s] = "replace" /\ UNCHANGED <<memory, last, raised>>
        BY <1>10 DEF Replace
    <2>3. files'["cache.pkl"] # None => files'["cache.pkl"] # files'["cache.pkl.tmp"]
        BY <2>2 DEF Names
    <2>4. \/ pc'["main"] = "down" /\ pc'["bg"] = "ended"
          \/ pc' = [pc EXCEPT ![s] = Saved(s)] /\ Saved(s) # "down" /\ end' = end
        BY <1>10, LeaveOne DEF Replace
    <2> QED  BY <2>1, <2>2, <2>3, <2>4 DEF memory
<1>11. ASSUME NEW s \in Savers, SaveFails(s)
       PROVE  Control'
    <2>1. Failed(s) = IF s = "bg" THEN "ended" ELSE IF last THEN "down" ELSE "join"
        BY DEF Failed
    <2>2. \/ pc'["main"] = "down" /\ pc'["bg"] = "ended"
          \/ pc' = [pc EXCEPT ![s] = Failed(s)] /\ Failed(s) # "down" /\ end' = end
        BY <1>11, LeaveOne DEF SaveFails, Raise
    <2>3. pc[s] \in Saving /\ raised' /\ UNCHANGED <<memory, last, disk>>
        BY <1>11 DEF SaveFails, Raise
    <2> QED  BY <2>1, <2>2, <2>3 DEF memory, disk
<1>12. CASE ForceSave \/ Exit
    <2>1. /\ pc["main"] = "work" /\ pc' \in {[pc EXCEPT !["main"] = l] : l \in {"save", "join"}}
          /\ UNCHANGED <<stop, files, end, raised>>
        BY <1>12 DEF ForceSave, Exit, Goto, memory, disk, past
    <2> QED  BY <2>1
<1>13. CASE RmtreeList
    BY <1>13 DEF RmtreeList, Goto, memory, disk, past
<1>14. CASE RmtreeUnlink
    <2>1. /\ pc["main"] = "unlink" /\ pc'["main"] \in {"unlink", "join"} /\ pc'["bg"] = pc["bg"]
          /\ UNCHANGED <<stop, end, raised>>
        BY <1>14 DEF RmtreeUnlink, Goto, memory, past
    <2>2. files' = files \/ \E n \in Names : files' = [files EXCEPT ![n] = None]
        BY <1>14 DEF RmtreeUnlink
    <2>3. files'["cache.pkl"] # None => files'["cache.pkl"] # files'["cache.pkl.tmp"]
        BY <2>2 DEF Names
    <2> QED  BY <2>1, <2>3
<1>15. CASE RmtreeRmdir
    BY <1>15 DEF RmtreeRmdir, Goto, memory
<1>16. CASE SetStop
    BY <1>16 DEF SetStop, thread, disk, past
<1>17. CASE Join
    BY <1>17 DEF Join, Goto, memory, disk, past
<1>18. CASE Kill
    BY <1>18, GoneAll DEF Kill, memory, disk
<1> QED
    BY <1>1, <1>2, <1>3, <1>4, <1>5, <1>6, <1>7, <1>8, <1>9, <1>10, <1>11, <1>12, <1>13, <1>14, <1>15, <1>16,
       <1>17, <1>18
    DEF Next

-----------------------------------------------------------------------------
(* One thread at a time has to do with the files.                          *)

\* A race is not forgotten, and is over when the process is.
LEMMA StaysClean ==
    ASSUME TypeOK, Control, [Next]_vars
    PROVE  /\ ~raced' => ~raced
           /\ Clean' => Clean \/ (pc'["main"] = "down" /\ pc'["bg"] = "ended")
           /\ pc'["main"] = "work" => Start \/ pc["main"] = "work"
<1> USE DEF TypeOK, Control, Saving, Savers, Clean
<1>1. CASE MainSaves
    <2>1. pc["main"] = "save" /\ (raced => raced')
        BY <1>1 DEF MainSaves
    <2>2. \/ pc'["main"] \in {"mkdir", "list"}
          \/ pc'["main"] = "down" /\ pc'["bg"] = "ended"
        BY <1>1, <2>1, LeaveOne DEF MainSaves, Copy, Goto, Saved
    <2> QED  BY <2>1, <2>2
<1>2. ASSUME NEW s \in Savers, Replace(s) \/ SaveFails(s)
      PROVE  /\ raced' = raced /\ pc[s] \in Saving
             /\ \/ pc'["main"] = "down" /\ pc'["bg"] = "ended"
                \/ pc'["main"] = pc["main"]
                \/ pc'["main"] \in {"list", "join"} /\ s = "main"
    BY <1>2, LeaveOne DEF Replace, SaveFails, Raise, Saved, Failed
<1>3. ASSUME NEW s \in Savers, Mkdir(s) \/ Open(s) \/ Write(s)
      PROVE  /\ raced' = raced /\ pc[s] \in Saving
             /\ pc'["main"] = pc["main"] \/ (s = "main" /\ pc'["main"] \in Saving)
    BY <1>3 DEF Mkdir, Open, Write, Goto, past
<1>4. CASE BgWakes \/ BgStops \/ Change \/ StartFails \/ SetStop \/ UNCHANGED vars
    BY <1>4 DEF BgWakes, BgStops, Change, StartFails, SetStop, Copy, Goto, vars, thread, past
<1>5. CASE Start
    BY <1>5 DEF Start
<1>6. CASE ForceSave \/ RmtreeList \/ RmtreeUnlink \/ RmtreeRmdir \/ Exit \/ Join
    BY <1>6 DEF ForceSave, RmtreeList, RmtreeUnlink, RmtreeRmdir, Exit, Join, Goto, past
<1>7. CASE Kill
    BY <1>7, GoneAll DEF Kill
<1> QED  BY <1>1, <1>2, <1>3, <1>4, <1>5, <1>6, <1>7 DEF Next

LEMMA NextTurns == TypeOK /\ Control /\ (Clean => Turns) /\ [Next]_vars => (Clean => Turns)'
<1> SUFFICES ASSUME TypeOK, Control, Clean => Turns, [Next]_vars, Clean'  PROVE Turns'
    OBVIOUS
<1>1. CASE pc'["main"] = "down" /\ pc'["bg"] = "ended"
    BY <1>1 DEF Turns, Savers, Saving
<1> SUFFICES ASSUME Turns  PROVE Turns'
    BY <1>1, StaysClean
<1> USE DEF TypeOK, Control, Turns, Saving, Savers
<1>2. CASE UNCHANGED vars
    BY <1>2 DEF vars, memory, thread, disk, past
<1>3. CASE Start
    BY <1>3 DEF Start, disk
<1>4. CASE StartFails
    BY <1>4 DEF StartFails, memory, thread, disk
<1>5. CASE Change
    BY <1>5 DEF Change, thread, disk
<1>6. CASE BgWakes
    BY <1>6 DEF BgWakes, Copy, Goto, disk
<1>7. CASE BgStops
    BY <1>7 DEF BgStops, Goto, memory, disk
<1>8. CASE MainSaves
    <2>1. pc["main"] = "save" /\ UNCHANGED <<listing, disk>> /\ raced' = (raced \/ pc["bg"] \in Saving)
        BY <1>8 DEF MainSaves
    \* The flag is clear either way; if the process goes on, the background thread is not saving.
    <2>2. \/ /\ pc' = [pc EXCEPT !["main"] = "mkdir"] /\ fd' = fd /\ ~dirty'
             /\ snap' = [snap EXCEPT !["main"] = mem]
          \/ /\ pc' = [pc EXCEPT !["main"] = "list"] /\ fd' = [fd EXCEPT !["main"] = None] /\ ~dirty'
             /\ snap' = snap
          \/ pc'["main"] = "down" /\ pc'["bg"] = "ended"
        BY <1>8, LeaveOne DEF MainSaves, Copy, Goto, Saved
    <2>3. CASE pc' = [pc EXCEPT !["main"] = "mkdir"] /\ fd' = fd /\ ~dirty' /\ snap' = [snap EXCEPT !["main"] = mem]
        BY <2>1, <2>3 DEF disk, Clean
    <2>4. CASE pc' = [pc EXCEPT !["main"] = "list"] /\ fd' = [fd EXCEPT !["main"] = None] /\ ~dirty' /\ snap' = snap
        BY <2>1, <2>4 DEF disk, Clean
    <2> QED  BY <1>1, <2>2, <2>3, <2>4
<1>9. ASSUME NEW s \in Savers, Mkdir(s)
      PROVE  Turns'
    BY <1>9 DEF Mkdir, Goto, memory
<1>10. ASSUME NEW s \in Savers, Open(s)
       PROVE  Turns'
    <2>1. PICK i \in Inodes :
            /\ files' = [files EXCEPT !["cache.pkl.tmp"] = i]
            /\ fd' = [fd EXCEPT ![s] = i]
            /\ shared' = [shared EXCEPT ![i] = fd[Other(s)] = i]
        BY <1>10, OpenOne
    <2>2. /\ pc[s] = "open" /\ dir /\ pc' = [pc EXCEPT ![s] = "write"]
          /\ UNCHANGED <<memory, snap, listing, dir>>
        BY <1>10 DEF Open, Goto
    \* The other thread is not saving.
    <2>3. pc[Other(s)] \notin Saving /\ fd[Other(s)] = None
        BY <2>2, OtherSaver DEF Clean, Other
    <2>4. i # None /\ ~shared'[i]
        <3>1. i # None
            BY HybridCacheAssumption DEF Inodes
        <3>2. (fd[Other(s)] = i) = FALSE
            BY <2>3, <3>1
        <3> QED  BY <2>1, <3>1, <3>2
    <2>5. pc'["main"] # "unlink"
        BY <2>2, <2>3 DEF Other
    <2>6. \A t \in Savers : pc'[t] \in Saving => t = s
        BY <2>2, <2>3 DEF Other
    <2> QED  BY <2>1, <2>2, <2>4, <2>5, <2>6 DEF memory, Names
<1>11. ASSUME NEW s \in Savers, Write(s)
       PROVE  Turns'
    <2>1. /\ pc[s] = "write" /\ pc' = [pc EXCEPT ![s] = "replace"]
          /\ fd' = [fd EXCEPT ![s] = None]
          /\ UNCHANGED <<memory, snap, listing, dir, files, shared>>
        BY <1>11 DEF Write, Goto
    <2>2. data' = [data EXCEPT ![files["cache.pkl.tmp"]] = snap[s]]
        BY <1>11, <2>1 DEF Write
    <2>3. pc[Other(s)] \notin Saving
        BY <2>1, OtherSaver DEF Clean, Other
    <2>4. \A t \in Savers : pc'[t] \in Saving => t = s
        BY <2>1, <2>3 DEF Other
    <2>5. files["cache.pkl.tmp"] \in Inodes
        BY <2>1
    <2> QED  BY <2>1, <2>2, <2>3, <2>4, <2>5 DEF memory, Other
<1>12. ASSUME NEW s \in Savers, Replace(s)
       PROVE  Turns'
    <2>1. /\ pc[s] = "replace"
          /\ UNCHANGED <<memory, snap, listing, dir>>
        BY <1>12 DEF Replace
    <2>2. \/ pc'["main"] = "down" /\ pc'["bg"] = "ended"
          \/ /\ pc' = [pc EXCEPT ![s] = Saved(s)] /\ Saved(s) \in {"wait", "list"}
             /\ s = "bg" => Saved(s) = "wait"
        BY <1>12, LeaveOne DEF Replace, Saved
    <2>3. pc[Other(s)] \notin Saving
        BY <2>1, OtherSaver DEF Clean, Other
    <2>4. CASE /\ pc' = [pc EXCEPT ![s] = Saved(s)] /\ Saved(s) \in {"wait", "list"}
               /\ s = "bg" => Saved(s) = "wait"
        <3>1. \A t \in Savers : pc'[t] \notin Saving
            BY <2>3, <2>4 DEF Other
        <3> QED  BY <2>1, <2>4, <3>1 DEF memory
    <2> QED  BY <1>1, <2>2, <2>4
<1>13. ASSUME NEW s \in Savers, SaveFails(s)
       PROVE  Turns'
    <2>1. pc[s] \in Saving /\ UNCHANGED <<memory, snap, listing, disk>>
        BY <1>13 DEF SaveFails
    <2>2. \/ pc'["main"] = "down" /\ pc'["bg"] = "ended"
          \/ /\ pc' = [pc EXCEPT ![s] = Failed(s)] /\ Failed(s) \in {"ended", "join"}
        BY <1>13, LeaveOne DEF SaveFails, Raise, Failed
    <2>3. pc[Other(s)] \notin Saving
        BY <2>1, OtherSaver DEF Clean, Other
    <2>4. CASE pc' = [pc EXCEPT ![s] = Failed(s)] /\ Failed(s) \in {"ended", "join"}
        <3>1. \A t \in Savers : pc'[t] \notin Saving
            BY <2>3, <2>4 DEF Other
        <3> QED  BY <2>1, <2>4, <3>1 DEF memory, disk
    <2> QED  BY <1>1, <2>2, <2>4
<1>14. CASE ForceSave \/ Exit
    <2>1. /\ pc["main"] = "work" /\ pc' \in {[pc EXCEPT !["main"] = l] : l \in {"save", "join"}}
          /\ UNCHANGED <<snap, fd, listing, disk>>
        BY <1>14 DEF ForceSave, Exit, Goto
    <2> QED  BY <2>1 DEF disk
<1>15. CASE RmtreeList
    BY <1>15 DEF RmtreeList, Goto, memory, disk
<1>16. CASE RmtreeUnlink
    <2>1. /\ pc["main"] = "unlink" /\ UNCHANGED <<memory, snap, fd, dir, data, shared>>
          /\ \A s \in Savers : pc[s] \notin Saving
        BY <1>16 DEF RmtreeUnlink
    <2>2. PICK n \in listing :
            \/ /\ files' = [files EXCEPT ![n] = None] /\ listing' = listing \ {n} /\ pc' = pc
            \/ pc' = [pc EXCEPT !["main"] = "join"]
        BY <1>16 DEF RmtreeUnlink, Goto
    <2>3. \A s \in Savers : pc'[s] \notin Saving
        BY <2>1, <2>2
    <2>4. pc'["main"] = "unlink" => listing' = {m \in Names : files'[m] # None}
        BY <2>1, <2>2
    <2> QED  BY <2>1, <2>2, <2>3, <2>4 DEF memory
<1>17. CASE RmtreeRmdir
    <2>1. /\ pc["main"] = "unlink" /\ pc' = [pc EXCEPT !["main"] = "join"]
          /\ UNCHANGED <<memory, snap, fd, listing, files, data, shared>>
          /\ \A s \in Savers : pc[s] \notin Saving
        BY <1>17 DEF RmtreeRmdir, Goto
    <2>2. \A s \in Savers : pc'[s] \notin Saving
        BY <2>1
    <2> QED  BY <2>1, <2>2
<1>18. CASE SetStop
    BY <1>18 DEF SetStop, thread, disk
<1>19. CASE Join
    BY <1>19 DEF Join, Goto, memory, disk
<1>20. CASE Kill
    BY <1>1, <1>20, GoneAll DEF Kill
<1> QED
    BY <1>2, <1>3, <1>4, <1>5, <1>6, <1>7, <1>8, <1>9, <1>10, <1>11, <1>12, <1>13, <1>14, <1>15, <1>16,
       <1>17, <1>18, <1>19, <1>20
    DEF Next

-----------------------------------------------------------------------------
(* What a step does to the cache file.                                     *)

\* Up to the replacement, a save keeps away from the cache file.
LEMMA SaveKeepsDisk ==
    ASSUME TypeOK, Control, Turns,
           NEW s \in Savers, Mkdir(s) \/ Open(s) \/ Write(s) \/ SaveFails(s)
    PROVE  OnDisk' = OnDisk
<1> USE DEF TypeOK, Saving, Savers
<1>1. CASE Mkdir(s) \/ SaveFails(s)
    BY <1>1 DEF Mkdir, SaveFails, disk, OnDisk
<1>2. CASE Open(s)
    <2>1. PICK i \in Inodes :
            /\ files' = [files EXCEPT !["cache.pkl.tmp"] = i]
            /\ data' = [data EXCEPT ![i] = None]
            /\ i = files["cache.pkl.tmp"] \/ i # files["cache.pkl"]
        BY <1>2, OpenOne
    <2>2. files'["cache.pkl"] = files["cache.pkl"]
        BY <2>1 DEF Names
    <2>3. files["cache.pkl"] # None => files["cache.pkl"] \in Inodes /\ files["cache.pkl"] # i
        BY <2>1 DEF Control, Names
    <2> QED  BY <2>1, <2>2, <2>3 DEF OnDisk
<1>3. CASE Write(s)
    <2>1. pc[s] = "write" /\ files' = files /\ \E v : data' = [data EXCEPT ![files["cache.pkl.tmp"]] = v]
        BY <1>3 DEF Write, Turns
    <2>2. files["cache.pkl"] # None => files["cache.pkl"] \in Inodes /\ files["cache.pkl"] # files["cache.pkl.tmp"]
        BY DEF Control, Names
    <2> QED  BY <2>1, <2>2 DEF OnDisk
<1> QED  BY <1>1, <1>2, <1>3

LEMMA ReplacePublishes ==
    ASSUME TypeOK, Turns, NEW s \in Savers, Replace(s)
    PROVE  OnDisk' = snap[s]
<1>1. /\ files'["cache.pkl"] = files["cache.pkl.tmp"] /\ files["cache.pkl.tmp"] # None
      /\ data' = data /\ pc[s] = "replace"
    BY DEF TypeOK, Replace, Names
<1>2. data[files["cache.pkl.tmp"]] = snap[s]
    BY <1>1 DEF Turns
<1> QED  BY <1>1, <1>2 DEF OnDisk

LEMMA UnlinkForgets ==
    ASSUME TypeOK, RmtreeUnlink
    PROVE  OnDisk' = OnDisk \/ (files'["cache.pkl"] = None /\ OnDisk' = 0)
<1>1. data' = data /\ (files' = files \/ \E n \in Names : files' = [files EXCEPT ![n] = None])
    BY DEF RmtreeUnlink, TypeOK
<1>2. files'["cache.pkl"] \in {files["cache.pkl"], None}
    BY <1>1 DEF Names, TypeOK
<1> QED  BY <1>1, <1>2 DEF OnDisk

\* Only a replacement changes the file, or the job's own cleanup.
LEMMA DiskStep ==
    ASSUME TypeOK, Control, Turns, [Next]_vars
    PROVE  \/ OnDisk' = OnDisk
           \/ \E s \in Savers : Replace(s) /\ OnDisk' = snap[s]
           \/ files'["cache.pkl"] = None /\ OnDisk' = 0
<1>1. CASE \/ Start \/ StartFails \/ Change \/ BgWakes \/ BgStops \/ MainSaves \/ UNCHANGED vars
           \/ ForceSave \/ RmtreeList \/ RmtreeRmdir \/ Exit \/ SetStop \/ Join \/ Kill
    BY <1>1 DEF Start, StartFails, Change, BgWakes, BgStops, MainSaves, ForceSave, RmtreeList, RmtreeRmdir,
                Exit, SetStop, Join, Kill, disk, vars, OnDisk
<1> QED  BY <1>1, SaveKeepsDisk, ReplacePublishes, UnlinkForgets DEF Next

LEMMA NextWhole ==
    TypeOK /\ Control /\ (Clean => Turns) /\ Whole /\ [Next]_vars => Whole'
<1> SUFFICES ASSUME TypeOK, Control, Clean => Turns, Whole, [Next]_vars,
                    pc'["main"] = "work" \/ ~raced'
             PROVE  OnDisk' \in Versions
    BY DEF Whole
<1>1. CASE Start
    <2>1. OnDisk' = OnDisk
        BY <1>1 DEF Start, OnDisk, disk
    <2>2. OnDisk \in Versions
        BY <1>1, HybridCacheAssumption DEF Start, OnDisk, TypeOK, Names, Versions
    <2> QED  BY <2>1, <2>2
<1>2. CASE ~Start
    \* The job was working already, or has not raced.
    <2>1. pc["main"] = "work" \/ ~raced
        BY <1>2, StaysClean DEF TypeOK
    <2>2. OnDisk \in Versions /\ Clean /\ Turns
        BY <2>1 DEF Whole, Clean
    <2>3. 0 \in Versions /\ \A s \in Savers : snap[s] \in Versions
        BY HybridCacheAssumption DEF TypeOK, Versions
    <2>4. OnDisk' \in {OnDisk, 0} \/ \E s \in Savers : OnDisk' = snap[s]
        BY <2>2, DiskStep
    <2> QED  BY <2>2, <2>3, <2>4
<1> QED  BY <1>1, <1>2

-----------------------------------------------------------------------------
(* Without a race: the removed directory stays away, versions are in order. *)

LEMMA NextRemoved ==
    ASSUME TypeOK, Control, Turns, Removed, [Next]_vars, ~raced, ~raced'
    PROVE  Removed'
<1> USE DEF TypeOK, Control, Turns, Removed, Saving, Savers
<1>1. CASE UNCHANGED vars
    BY <1>1 DEF vars, memory, thread, disk, past
<1>2. CASE Start
    BY <1>2 DEF Start, disk
<1>3. CASE StartFails \/ Change
    BY <1>3 DEF StartFails, Change, memory, thread, disk
<1>4. CASE BgWakes \/ BgStops
    BY <1>4 DEF BgWakes, BgStops, Copy, Goto, memory, disk, past
<1>5. CASE MainSaves
    <2>1. UNCHANGED dir /\ pc["main"] = "save"
        BY <1>5 DEF MainSaves, disk
    <2>2. CASE Copy("main") /\ UNCHANGED <<fd, end>>
        BY <2>1, <2>2 DEF Copy, Goto
    <2>3. CASE ~dirty /\ Leave("main", Saved("main")) /\ UNCHANGED <<dirty, snap>>
        BY <2>1, <2>3, LeaveOne DEF Saved
    <2> QED  BY <1>5, <2>2, <2>3 DEF MainSaves
<1>6. ASSUME NEW s \in Savers, Mkdir(s) \/ Open(s) \/ Write(s)
      PROVE  end' = end /\ pc[s] \in Saving
    BY <1>6 DEF Mkdir, Open, Write, past
<1>7. ASSUME NEW s \in Savers, Replace(s) \/ SaveFails(s)
      PROVE  (end' = "cleaned" => end = "cleaned") /\ pc[s] \in Saving
    BY <1>7, LeaveOne DEF Replace, SaveFails, Raise
<1>8. CASE ForceSave \/ Exit
    BY <1>8 DEF ForceSave, Exit, past
<1>9. CASE RmtreeList \/ RmtreeUnlink
    BY <1>9 DEF RmtreeList, RmtreeUnlink, past
<1>10. CASE RmtreeRmdir
    BY <1>10 DEF RmtreeRmdir, Goto, memory
<1>11. CASE SetStop \/ Join
    BY <1>11 DEF SetStop, Join, Goto, memory, thread, disk, past
<1>12. CASE Kill
    BY <1>12, GoneAll DEF Kill
<1> QED
    BY <1>1, <1>2, <1>3, <1>4, <1>5, <1>6, <1>7, <1>8, <1>9, <1>10, <1>11, <1>12 DEF Next

\* A saver's copy, and the memory it is taken from, are never behind the disk.
LEMMA NextOrdered ==
    ASSUME TypeOK, Control, Turns, Whole, Ordered, [Next]_vars, ~raced, ~raced'
    PROVE  Ordered'
<1>0. /\ OnDisk \in Nat /\ clock \in Nat /\ mem \in Nat
      /\ \A s \in Savers : snap[s] \in Nat
    BY HybridCacheAssumption DEF TypeOK, Whole, Versions
<1> USE <1>0 DEF Ordered, Saving, Savers
<1>a. ASSUME UNCHANGED <<files, data>>
      PROVE  OnDisk' = OnDisk
    BY <1>a DEF OnDisk
<1>1. CASE UNCHANGED vars
    BY <1>a, <1>1 DEF vars, memory, thread, disk, past
<1>2. CASE Start
    <2>1. \A s \in Savers : pc'[s] \notin Saving
        BY <1>2 DEF Start, TypeOK
    <2> QED  BY <1>a, <1>2, <2>1 DEF Start, disk
<1>3. CASE StartFails
    BY <1>a, <1>3 DEF StartFails, memory, thread, disk
<1>4. CASE Change
    BY <1>a, <1>4 DEF Change, thread, disk
<1>5. CASE BgWakes \/ BgStops
    BY <1>a, <1>5 DEF BgWakes, BgStops, Copy, Goto, memory, disk, past, TypeOK, Control
<1>6. CASE MainSaves
    <2>1. UNCHANGED <<mem, files, data, clock>> /\ pc["main"] = "save"
        BY <1>6 DEF MainSaves, disk
    <2>2. CASE Copy("main") /\ UNCHANGED <<fd, end>>
        BY <1>a, <2>1, <2>2 DEF Copy, Goto, TypeOK
    <2>3. CASE ~dirty /\ Leave("main", Saved("main")) /\ UNCHANGED <<dirty, snap>>
        BY <1>a, <2>1, <2>3, LeaveOne DEF Saved, TypeOK
    <2> QED  BY <1>6, <2>2, <2>3 DEF MainSaves
<1>7. ASSUME NEW s \in Savers, Mkdir(s) \/ Open(s) \/ Write(s)
      PROVE  Ordered'
    <2>1. /\ pc[s] \in Saving /\ pc' \in {[pc EXCEPT ![s] = l] : l \in Saving}
          /\ UNCHANGED <<mem, snap, clock>>
        BY <1>7 DEF Mkdir, Open, Write, Goto, memory, past
    <2>2. OnDisk' = OnDisk
        BY <1>7, SaveKeepsDisk
    <2> QED  BY <2>1, <2>2 DEF TypeOK
<1>8. ASSUME NEW s \in Savers, Replace(s)
      PROVE  Ordered'
    <2>1. OnDisk' = snap[s] /\ pc[s] \in Saving /\ UNCHANGED <<mem, snap, clock>>
        BY <1>8, ReplacePublishes DEF Replace, memory
    \* Nobody else is saving.
    <2>2. \A t \in Savers : pc'[t] \notin Saving
        BY <1>8, LeaveOne DEF Replace, Saved, TypeOK, Turns
    <2>3. pc["main"] # "down"
        BY <2>1 DEF Control
    <2> QED  BY <2>1, <2>2, <2>3
<1>9. ASSUME NEW s \in Savers, SaveFails(s)
      PROVE  Ordered'
    <2>1. OnDisk' = OnDisk /\ pc[s] \in Saving /\ UNCHANGED <<mem, snap, clock>>
        BY <1>9, SaveKeepsDisk DEF SaveFails, memory
    <2>2. /\ \A t \in Savers : pc'[t] \in Saving => pc[t] \in Saving
          /\ pc'["main"] # "down" => pc["main"] # "down"
        BY <1>9, LeaveOne DEF SaveFails, Raise, Failed, TypeOK
    <2> QED  BY <2>1, <2>2
<1>10. ASSUME UNCHANGED <<mem, snap, clock, files, data>>,
              \A t \in Savers : pc'[t] \in Saving => pc[t] \in Saving,
              pc'["main"] # "down" => pc["main"] # "down"
       PROVE  Ordered'
    BY <1>a, <1>10
<1>11. CASE ForceSave \/ Exit \/ RmtreeList \/ RmtreeRmdir \/ SetStop \/ Join
    <2>1. UNCHANGED <<mem, snap, clock, files, data>>
        BY <1>11 DEF ForceSave, Exit, RmtreeList, RmtreeRmdir, SetStop, Join, memory, thread, disk, past
    <2>2. pc' = pc \/ (\E l \in {"save", "unlink", "join"} : pc' = [pc EXCEPT !["main"] = l] /\ pc["main"] # "down")
        BY <1>11 DEF ForceSave, Exit, RmtreeList, RmtreeRmdir, SetStop, Join, Goto, thread
    <2> QED  BY <1>10, <2>1, <2>2 DEF TypeOK
<1>12. CASE RmtreeUnlink
    <2>1. UNCHANGED <<mem, snap, clock>> /\ (pc' = pc \/ pc' = [pc EXCEPT !["main"] = "join"]) /\ pc["main"] = "unlink"
        BY <1>12 DEF RmtreeUnlink, Goto, memory, past
    <2>2. OnDisk' = OnDisk \/ OnDisk' = 0
        BY <1>12, UnlinkForgets
    <2> QED  BY <2>1, <2>2 DEF TypeOK
<1>13. CASE Kill
    BY <1>a, <1>13, GoneAll DEF Kill, memory, disk
<1> QED
    BY <1>1, <1>2, <1>3, <1>4, <1>5, <1>6, <1>7, <1>8, <1>9, <1>11, <1>12, <1>13 DEF Next

-----------------------------------------------------------------------------
(* No change is forgotten.                                                 *)

LEMMA NextCurrent ==
    ASSUME TypeOK, Control, Clean => Turns, ~raised => Current, [Next]_vars, ~raised'
    PROVE  Current'
<1> USE DEF TypeOK, Saving, Savers, Current
<1>0. ~raised' /\ ~Start => ~raised
    BY LeaveOne
    DEF Next, vars, past, StartFails, Change, BgWakes, BgStops, MainSaves, Mkdir, Open, Write, Replace,
        SaveFails, Raise, ForceSave, RmtreeList, RmtreeUnlink, RmtreeRmdir, Exit, SetStop, Join, Kill
<1>r. ~raced' => ~raced
    BY StaysClean
<1>k. ASSUME Kept, UNCHANGED <<dirty, mem, snap, files, data>>,
             \A s \in Savers : pc'[s] \in Saving <=> pc[s] \in Saving
      PROVE  Kept'
    BY <1>k DEF Kept, OnDisk
<1>1. CASE UNCHANGED vars
    BY <1>0, <1>1 DEF vars, memory, thread, disk, past, Kept, OnDisk, Start
<1>2. CASE Start
    <2>1. pc'["main"] = "work" /\ (\A s \in Savers : pc'[s] \notin Saving)
        BY <1>2 DEF Start
    <2>2. OnDisk' = mem'
        BY <1>2 DEF Start, OnDisk, disk
    <2> QED  BY <2>1, <2>2 DEF Kept
<1> SUFFICES ASSUME ~Start, ~raised  PROVE Current'
    BY <1>0, <1>2
<1>3. CASE StartFails
    BY <1>3 DEF StartFails, memory, thread, disk, Kept, OnDisk
<1>4. CASE Change
    BY <1>4 DEF Change, thread, Kept
<1>5. CASE BgWakes
    BY <1>5 DEF BgWakes, Copy, Goto, Kept, Control
<1>6. CASE BgStops
    <2>1. /\ pc["bg"] = "wait" /\ pc' = [pc EXCEPT !["bg"] = "ended"]
          /\ UNCHANGED <<memory, snap, disk, end>>
        BY <1>6 DEF BgStops, Goto, past
    <2>2. Kept => Kept'
        BY <2>1, <1>k DEF memory, disk
    <2> QED  BY <2>1, <2>2, <1>r DEF Control
<1>7. CASE MainSaves
    <2>1. /\ pc["main"] = "save" /\ UNCHANGED <<mem, files, data>>
          /\ raced' = (raced \/ pc["bg"] \in Saving)
        BY <1>7 DEF MainSaves, disk
    <2>2. CASE Copy("main") /\ UNCHANGED <<fd, end>>
        BY <2>1, <2>2 DEF Copy, Goto, Kept
    <2>3. CASE ~dirty /\ Leave("main", Saved("main")) /\ UNCHANGED <<dirty, snap>>
        <3>1. /\ pc'["main"] \in {"down", "list"} /\ pc'["bg"] \in {pc["bg"], "ended"}
              /\ pc'["main"] # "down" => end' = end
              /\ end' = "exit" => end # "cleaned"
            BY <2>3, LeaveOne DEF Saved
        \* Nobody is saving, and what was pending is on disk.
        <3>2. ASSUME ~raced', end = "none"
              PROVE  Kept' /\ OnDisk' = mem'
            <4>1. ~raced /\ \A s \in Savers : pc[s] \notin Saving /\ pc'[s] \notin Saving
                BY <2>1, <3>1, <3>2
            <4>2. OnDisk = mem
                BY <2>1, <2>3, <3>2, <4>1 DEF Kept
            <4> QED  BY <2>1, <4>1, <4>2 DEF Kept, OnDisk
        <3>3. end \in {"none", "cleaned"}
            BY <2>1 DEF Control
        <3> QED  BY <3>1, <3>2, <3>3
    <2> QED  BY <1>7, <2>2, <2>3 DEF MainSaves
<1>8. ASSUME NEW s \in Savers, Mkdir(s) \/ Open(s) \/ Write(s)
      PROVE  Current'
    <2>1. /\ pc[s] \in Saving /\ pc' \in {[pc EXCEPT ![s] = l] : l \in Saving}
          /\ UNCHANGED <<dirty, mem, snap, end, raced>>
        BY <1>8 DEF Mkdir, Open, Write, Goto, memory, past
    <2>2. ASSUME Kept, Clean
          PROVE  Kept'
        <3>1. OnDisk' = OnDisk
            BY <1>8, <2>2, SaveKeepsDisk
        <3> QED  BY <2>1, <2>2, <3>1 DEF Kept
    <2> QED  BY <2>1, <2>2 DEF Clean, Control
<1>9. ASSUME NEW s \in Savers, Replace(s)
      PROVE  Current'
    <2>1. pc[s] \in Saving /\ UNCHANGED <<dirty, mem, raced>>
        BY <1>9 DEF Replace, memory
    <2>2. \/ /\ pc'["main"] = "down" /\ pc'["bg"] = "ended"
             /\ end' = IF end = "cleaned" THEN "cleaned" ELSE "exit"
             /\ s = "main"
          \/ pc' = [pc EXCEPT ![s] = Saved(s)] /\ Saved(s) \in {"wait", "list"} /\ end' = end
        BY <1>9, LeaveOne DEF Replace, Saved
    \* Nobody else is saving: the copy is pending, and now on disk.
    <2>3. ASSUME Kept, Clean
          PROVE  /\ dirty' \/ OnDisk' = mem'
                 /\ pc["main"] \in Saving => ~dirty'
                 /\ \A t \in Savers : pc'[t] \notin Saving
        <3>1. OnDisk' = snap[s]
            BY <1>9, <2>3, ReplacePublishes
        <3>2. \A t \in Savers : t # s => pc[t] \notin Saving
            BY <2>1, <2>3 DEF Turns
        <3>3. dirty \/ snap[s] = mem
            BY <2>1, <2>3, <3>2 DEF Kept
        <3>4. \A t \in Savers : pc'[t] \notin Saving
            BY <2>2, <3>2
        <3> QED  BY <2>1, <2>3, <3>1, <3>3, <3>4 DEF Turns
    <2>4. ~raced \/ pc["main"] = "work" => Clean
        BY DEF Clean
    <2>5. pc["main"] # "down" /\ (pc["main"] \in Saving => end \in {"none", "cleaned"})
        BY <2>1 DEF Control
    <2> QED  BY <2>1, <2>2, <2>3, <2>4, <2>5 DEF Kept
<1>10. ASSUME NEW s \in Savers, SaveFails(s)
       PROVE  FALSE
    BY <1>10 DEF SaveFails, Raise
<1>11. CASE ForceSave
    BY <1>11 DEF ForceSave, Goto, Kept
<1>12. CASE Exit \/ RmtreeList
    <2>1. /\ pc["main"] \in {"work", "list"} /\ \E l \in {"unlink", "join"} : pc' = [pc EXCEPT !["main"] = l]
          /\ UNCHANGED <<memory, snap, disk, past>>
        BY <1>12 DEF Exit, RmtreeList, Goto
    <2>2. Kept => Kept'
        BY <2>1, <1>k DEF memory, disk
    <2> QED  BY <2>1, <2>2 DEF past
<1>13. CASE RmtreeUnlink
    <2>1. /\ pc["main"] = "unlink"
          /\ \/ pc' = pc
             \/ pc' = [pc EXCEPT !["main"] = "join"] /\ (\E n \in listing : files[n] = None)
          /\ UNCHANGED <<raced>>
        BY <1>13 DEF RmtreeUnlink, Goto, past
    <2>2. ~raced => pc' = pc
        BY <2>1 DEF Clean, Turns
    <2> QED  BY <2>1, <2>2
<1>14. CASE RmtreeRmdir
    <2>1. pc["main"] = "unlink" /\ pc'["main"] = "join" /\ raced' = raced /\ listing = {}
        BY <1>14 DEF RmtreeRmdir, Goto
    <2>2. ~raced => \A n \in Names : files[n] = None
        BY <2>1 DEF Clean, Turns
    <2> QED  BY <1>14, <2>1, <2>2 DEF RmtreeRmdir
<1>15. CASE SetStop
    BY <1>15, <1>k DEF SetStop, thread, disk, past
<1>16. CASE Join
    <2>1. /\ pc["main"] = "join" /\ pc' = [pc EXCEPT !["main"] = "save"]
          /\ UNCHANGED <<memory, snap, disk, past>>
        BY <1>16 DEF Join, Goto
    <2>2. Kept => Kept'
        BY <2>1, <1>k DEF memory, disk
    <2> QED  BY <2>1, <2>2 DEF past
<1>17. CASE Kill
    BY <1>17, GoneAll DEF Kill
<1> QED
    BY <1>1, <1>2, <1>3, <1>4, <1>5, <1>6, <1>7, <1>8, <1>9, <1>10, <1>11, <1>12, <1>13, <1>14, <1>15, <1>16,
       <1>17
    DEF Next

LEMMA NextIInv == IInv /\ [Next]_vars => IInv'
<1> SUFFICES ASSUME IInv, [Next]_vars  PROVE IInv'
    OBVIOUS
<1> USE DEF IInv
<1>1. TypeOK' /\ Control' /\ (Clean => Turns)' /\ Whole'
    BY NextType, NextControl, NextTurns, NextWhole
<1>2. ASSUME ~raced'  PROVE Removed' /\ Ordered'
    <2>1. ~raced /\ Turns
        BY <1>2, StaysClean DEF Clean
    <2> QED  BY <1>2, <2>1, NextRemoved, NextOrdered
<1>3. ASSUME ~raised'  PROVE Current'
    BY <1>3, NextCurrent
<1> QED  BY <1>1, <1>2, <1>3

-----------------------------------------------------------------------------
(* The theorems.                                                           *)

(* The state of the dictionary, the threads and the files is well formed:  *)
(* a thread has a file open exactly while it writes.                       *)
THEOREM TypeCorrect == Spec => []TypeOK
<1>1. IInv => TypeOK
    BY DEF IInv
<1> QED  BY InitIInv, NextIInv, <1>1, PTL DEF Spec

(* Whenever a job is stopped, even by a kill within a save, the next one   *)
(* can load the cache file.                                                *)
THEOREM AlwaysLoadable == Spec => []Loadable
<1>1. IInv => Loadable
    BY HybridCacheAssumption DEF IInv, Whole, Loadable, Versions
<1> QED  BY InitIInv, NextIInv, <1>1, PTL DEF Spec

(* A clear flag means that the file has every change, as long as no save   *)
(* has raised: while the job works, and after its exit handler.            *)
THEOREM NoChangeForgotten == Spec => []Synced
<1>1. IInv => Synced
    <2> SUFFICES ASSUME IInv  PROVE Synced
        OBVIOUS
    <2>1. CASE pc["main"] = "work" /\ pc["bg"] = "wait" /\ ~dirty /\ ~raised
        BY <2>1 DEF IInv, Synced, Current, Kept, Savers, Saving
    <2>2. CASE pc["main"] = "down" /\ end = "exit" /\ ~raised /\ ~raced
        BY <2>2 DEF IInv, Synced, Current
    <2> QED  BY <2>1, <2>2 DEF Synced
<1> QED  BY InitIInv, NextIInv, <1>1, PTL DEF Spec

(* A job that has cleaned up leaves no directory behind, though its exit   *)
(* handler saves after the cleanup.                                        *)
THEOREM StaysRemoved == Spec => []CleanedUp
<1>1. IInv => CleanedUp
    BY DEF IInv, Removed, CleanedUp
<1> QED  BY InitIInv, NextIInv, <1>1, PTL DEF Spec

(* No save, of this process or a later one, replaces the file by an older  *)
(* version of the dictionary.                                              *)
THEOREM Monotone == Spec => NeverOlder
<1>1. IInv /\ [Next]_vars => [~raced' /\ files["cache.pkl"] # None /\ files'["cache.pkl"] # None => OnDisk' >= OnDisk]_vars
    <2> SUFFICES ASSUME IInv, [Next]_vars, ~raced', files'["cache.pkl"] # None
                 PROVE  OnDisk' >= OnDisk
        OBVIOUS
    <2>1. TypeOK /\ Control /\ ~raced /\ Turns /\ Ordered /\ OnDisk \in Versions
        BY StaysClean DEF IInv, Clean, Whole
    <2>2. OnDisk \in Nat
        BY <2>1, HybridCacheAssumption DEF Versions
    <2>3. OnDisk' = OnDisk \/ \E s \in Savers : Replace(s) /\ OnDisk' = snap[s]
        BY <2>1, DiskStep
    <2>4. \A s \in Savers : Replace(s) => OnDisk <= snap[s] /\ snap[s] \in Nat
        BY <2>1, HybridCacheAssumption DEF Replace, Ordered, Saving, TypeOK, Versions
    <2> QED  BY <2>2, <2>3, <2>4
<1> QED  BY InitIInv, NextIInv, <1>1, PTL DEF Spec, NeverOlder

-----------------------------------------------------------------------------
(* RequestBatcher.                                                         *)

\* The flag stands for exactly one batch in the backend.
OneBatch ==
    /\ ~processing => in_backend = {}
    /\ processing => \E b \in Seq(Requests) : in_backend = {b}

BatcherInv == BatcherTypeOK /\ OneBatch /\ Scheduled

\* The conjuncts of BatcherTypeOK that a step keeps for different reasons.
FlagsOK   == timer \in BOOLEAN /\ processing \in BOOLEAN
QueueOK   == pending_requests \in Seq(Requests) /\ tasks \in Nat
BackendOK ==
    /\ batch_size \in Nat \ {0}
    /\ batch_timeout \in Nat
    /\ in_backend \subseteq Seq(Requests)
    /\ \A b \in in_backend : Len(b) \in 1..batch_size
AnswerOK  == answer \in [Requests -> Requests \cup {"new", "waiting", "error", "cancelled"}]

LEMMA BatcherTypeParts == BatcherTypeOK <=> FlagsOK /\ QueueOK /\ BackendOK /\ AnswerOK
  BY DEF BatcherTypeOK, FlagsOK, QueueOK, BackendOK, AnswerOK

\* A batch is a non-empty prefix of the pending requests, no longer than allowed.
LEMMA BatchOK ==
    ASSUME BatcherTypeOK, pending_requests # <<>>
    PROVE  /\ BatchLen \in 1..Len(pending_requests)
           /\ BatchLen <= batch_size
           /\ SubSeq(pending_requests, 1, BatchLen) \in Seq(Requests)
           /\ Len(SubSeq(pending_requests, 1, BatchLen)) = BatchLen
           /\ \A i \in 1..BatchLen : SubSeq(pending_requests, 1, BatchLen)[i] = pending_requests[i]
           /\ SubSeq(pending_requests, BatchLen + 1, Len(pending_requests)) \in Seq(Requests)
  <1>1. Len(pending_requests) \in Nat \ {0}
    BY EmptySeq DEF BatcherTypeOK
  <1>2. BatchLen \in 1..Len(pending_requests) /\ BatchLen <= batch_size
    BY <1>1 DEF BatchLen, BatcherTypeOK
  <1>3. pending_requests \in Seq(Requests)
    BY DEF BatcherTypeOK
  <1> QED BY <1>1, <1>2, <1>3, SubSeqProperties

\* A list with a request left out never has the right length.
LEMMA ShortResults ==
    ASSUME NEW b \in Seq(Requests), NEW results \in Results(b)
    PROVE  results = b \/ Len(results) # Len(b)
  <1> SUFFICES ASSUME NEW i \in 1..Len(b), results = RemoveAt(b, i)
               PROVE  Len(results) # Len(b)
    BY DEF Results
  <1>1. /\ SubSeq(b, 1, i - 1) \in Seq(Requests)
        /\ Len(SubSeq(b, 1, i - 1)) = i - 1
    BY SubSeqProperties
  <1>2. /\ SubSeq(b, i + 1, Len(b)) \in Seq(Requests)
        /\ Len(SubSeq(b, i + 1, Len(b))) = Len(b) - i
    BY SubSeqProperties
  <1>3. Len(results) = Len(SubSeq(b, 1, i - 1)) + Len(SubSeq(b, i + 1, Len(b)))
    BY <1>1, <1>2, ConcatProperties DEF RemoveAt
  <1>4. Len(results) = (i - 1) + (Len(b) - i)
    BY <1>1, <1>2, <1>3
  <1>5. Len(b) \in Nat /\ i \in Nat
    BY LenProperties
  <1> QED BY <1>4, <1>5

\* Setting results gives every awaited request of the batch its own, or an error to all.
LEMMA OwnResults ==
    ASSUME NEW b \in Seq(Requests), b # <<>>, NEW results \in Results(b) \cup {<<>>}
    PROVE  \E failed \in BOOLEAN :
             Resolved(b, results) = [r \in Requests |->
                IF r \in Range(b) /\ answer[r] = "waiting"
                THEN IF failed THEN "error" ELSE r
                ELSE answer[r]]
  <1>1. CASE results = b
    <2>1. ASSUME NEW r \in Range(b) PROVE results[CHOOSE i \in 1..Len(b) : b[i] = r] = r
      BY <1>1, RangeEquality
    <2> QED BY <1>1, <2>1 DEF Resolved
  <1>2. CASE Len(results) # Len(b)
    BY <1>2 DEF Resolved
  <1>3. results = b \/ Len(results) # Len(b)
    BY ShortResults, EmptySeq
  <1> QED BY <1>1, <1>2, <1>3

\* The futures keep their type whatever the backend did.
LEMMA ResolvedTyped ==
    ASSUME BatcherTypeOK, NEW b \in Seq(Requests), b # <<>>, NEW results \in Results(b) \cup {<<>>}
    PROVE  Resolved(b, results) \in [Requests -> Requests \cup {"new", "waiting", "error", "cancelled"}]
  BY OwnResults DEF BatcherTypeOK

\* The constructor's values satisfy the invariant.
LEMMA BatcherInvInit == BatcherInit => BatcherInv
  <1> SUFFICES ASSUME BatcherInit PROVE BatcherInv
    OBVIOUS
  <1>1. FlagsOK /\ QueueOK
    BY EmptySeq DEF BatcherInit, FlagsOK, QueueOK
  <1>2. BackendOK /\ AnswerOK
    BY RequestBatcherAssumption DEF RequestBatcherAssumption, BatcherInit, BackendOK, AnswerOK
  <1>3. OneBatch /\ Scheduled
    BY DEF BatcherInit, OneBatch, Scheduled
  <1> QED BY <1>1, <1>2, <1>3, BatcherTypeParts DEF BatcherInv

\* The end of a batch, however it ended.
LEMMA BatcherInvRelease ==
    ASSUME BatcherInv, NEW b \in in_backend, NEW results \in Results(b) \cup {<<>>},
           answer' = Resolved(b, results), Release(b)
    PROVE  BatcherInv'
  <1>1. b \in Seq(Requests) /\ b # <<>>
    BY EmptySeq DEF BatcherInv, BatcherTypeOK
  <1>2. processing /\ in_backend = {b}
    BY DEF BatcherInv, OneBatch
  <1>3. in_backend' = {} /\ ~processing'
    BY <1>2 DEF Release
  <1>4. BatcherTypeOK'
    <2>1. answer' \in [Requests -> Requests \cup {"new", "waiting", "error", "cancelled"}]
      BY <1>1, ResolvedTyped DEF BatcherInv
    <2>2. FlagsOK /\ QueueOK /\ BackendOK
      BY BatcherTypeParts DEF BatcherInv
    <2>3. FlagsOK'
      BY <1>3, <2>2 DEF FlagsOK, Release, Schedule
    <2>4. QueueOK' /\ BackendOK'
      BY <1>3, <2>2 DEF QueueOK, BackendOK, Release, Schedule, config
    <2> QED BY <2>1, <2>3, <2>4 DEF BatcherTypeOK, FlagsOK, QueueOK, BackendOK, AnswerOK
  <1>5. OneBatch'
    BY <1>3 DEF OneBatch
  <1>6. Scheduled'
    BY DEF BatcherInv, BatcherTypeOK, Scheduled, Release, Schedule, config
  <1> QED BY <1>4, <1>5, <1>6 DEF BatcherInv

\* Every step keeps it.
LEMMA BatcherInvNext == BatcherInv /\ [BatcherNext]_batcherVars => BatcherInv'
  <1> SUFFICES ASSUME BatcherInv, [BatcherNext]_batcherVars PROVE BatcherInv'
    OBVIOUS
  <1>1. ASSUME NEW r \in Requests, add_request(r) PROVE BatcherInv'
    <2>1. /\ Append(pending_requests, r) \in Seq(Requests)
          /\ Len(Append(pending_requests, r)) \in Nat
      BY AppendProperties, LenProperties DEF BatcherInv, BatcherTypeOK
    <2>0. FlagsOK /\ QueueOK /\ BackendOK /\ AnswerOK
      BY BatcherTypeParts DEF BatcherInv
    <2>a. FlagsOK'
      BY <1>1, <2>0 DEF FlagsOK, add_request, Schedule
    <2>b. QueueOK' /\ BackendOK'
      BY <1>1, <2>0, <2>1 DEF QueueOK, BackendOK, add_request, Schedule, config
    <2>c. AnswerOK'
      BY <1>1, <2>0 DEF AnswerOK, add_request
    <2>2. BatcherTypeOK'
      BY <2>a, <2>b, <2>c DEF BatcherTypeOK, FlagsOK, QueueOK, BackendOK, AnswerOK
    <2>3. OneBatch'
      BY <1>1 DEF BatcherInv, OneBatch, add_request
    <2>4. Scheduled'
      BY <1>1, <2>1 DEF BatcherInv, BatcherTypeOK, Scheduled, add_request, Schedule, config
    <2> QED BY <2>2, <2>3, <2>4 DEF BatcherInv
  <1>2. ASSUME NEW r \in Requests, Cancel(r) PROVE BatcherInv'
    BY <1>2 DEF BatcherInv, BatcherTypeOK, OneBatch, Scheduled, Cancel, config
  <1>3. CASE timeout_handler
    <2>1. FlagsOK /\ QueueOK /\ BackendOK /\ AnswerOK
      BY BatcherTypeParts DEF BatcherInv
    <2>2. FlagsOK'
      BY <1>3, <2>1 DEF FlagsOK, timeout_handler
    <2>3. QueueOK' /\ BackendOK' /\ AnswerOK'
      BY <1>3, <2>1 DEF QueueOK, BackendOK, AnswerOK, timeout_handler, config
    <2>4. BatcherTypeOK'
      BY <2>2, <2>3 DEF BatcherTypeOK, FlagsOK, QueueOK, BackendOK, AnswerOK
    <2>5. OneBatch'
      BY <1>3 DEF BatcherInv, OneBatch, timeout_handler
    <2>6. Scheduled'
      BY <1>3 DEF BatcherInv, BatcherTypeOK, Scheduled, timeout_handler, config
    <2> QED BY <2>4, <2>5, <2>6 DEF BatcherInv
  <1>4. CASE TakeBatch
    <2> DEFINE b == SubSeq(pending_requests, 1, BatchLen)
    <2>1. /\ b \in Seq(Requests)
          /\ Len(b) \in 1..batch_size
          /\ pending_requests' \in Seq(Requests)
      BY <1>4, BatchOK DEF BatcherInv, BatcherTypeOK, TakeBatch
    <2>2. in_backend' = {b} /\ processing'
      BY <1>4 DEF BatcherInv, OneBatch, TakeBatch
    <2> HIDE DEF b
    <2>3. BatcherTypeOK'
      <3>1. FlagsOK /\ QueueOK /\ BackendOK /\ AnswerOK
        BY BatcherTypeParts DEF BatcherInv
      <3>2. FlagsOK'
        BY <1>4, <3>1 DEF FlagsOK, TakeBatch
      <3>3. QueueOK'
        BY <1>4, <2>1, <3>1 DEF QueueOK, TakeBatch
      <3>4. BackendOK' /\ AnswerOK'
        BY <1>4, <2>1, <2>2, <3>1 DEF BackendOK, AnswerOK, TakeBatch, config
      <3> QED BY <3>2, <3>3, <3>4 DEF BatcherTypeOK, FlagsOK, QueueOK, BackendOK, AnswerOK
    <2>4. OneBatch' /\ Scheduled'
      BY <2>1, <2>2 DEF OneBatch, Scheduled
    <2> QED BY <2>3, <2>4 DEF BatcherInv
  <1>5. CASE SkipBatch
    BY <1>5 DEF BatcherInv, BatcherTypeOK, OneBatch, Scheduled, SkipBatch, config
  <1>6. ASSUME NEW b \in in_backend, BackendReturns(b) PROVE BatcherInv'
    BY <1>6, BatcherInvRelease DEF BackendReturns
  <1>7. ASSUME NEW b \in in_backend, BackendRaises(b) PROVE BatcherInv'
    BY <1>7, BatcherInvRelease DEF BackendRaises
  <1>8. CASE UNCHANGED batcherVars
    BY <1>8 DEF BatcherInv, BatcherTypeOK, OneBatch, Scheduled, batcherVars, config
  <1> QED BY <1>1, <1>2, <1>3, <1>4, <1>5, <1>6, <1>7, <1>8 DEF BatcherNext, process_batch

LEMMA BatcherInvHolds == BatcherSpec => []BatcherInv
  <1> QED BY BatcherInvInit, BatcherInvNext, PTL DEF BatcherSpec

\* The state variables keep their types, and no batch is larger than batch_size.
THEOREM BatcherTyped == BatcherSpec => []BatcherTypeOK
  <1>1. BatcherInv => BatcherTypeOK
    BY DEF BatcherInv
  <1> QED BY <1>1, BatcherInvHolds, PTL

\* Pending requests are never left to the next arrival: a task or the timer is there for
\* them whenever no batch is being processed.
THEOREM NeverForgotten == BatcherSpec => []Scheduled
  <1>1. BatcherInv => Scheduled
    BY DEF BatcherInv
  <1> QED BY <1>1, BatcherInvHolds, PTL

\* The mapped batch in service is the one in the backend.
LEMMA Serving ==
    ASSUME NEW b, in_backend = {b}
    PROVE  UNION {Range(c) : c \in in_backend} = Range(b)
  BY Zenon

\* The end of a batch is the service's Complete.
LEMMA CompleteStep ==
    ASSUME BatcherInv, NEW b \in in_backend, NEW results \in Results(b) \cup {<<>>},
           answer' = Resolved(b, results), Release(b)
    PROVE  Service!Complete
  <1>1. b \in Seq(Requests) /\ b # <<>> /\ Len(b) \in 1..batch_size
    BY EmptySeq DEF BatcherInv, BatcherTypeOK
  <1>2. in_backend = {b} /\ in_backend' = {}
    BY DEF BatcherInv, OneBatch, Release
  <1>3. UNION {Range(c) : c \in in_backend} = Range(b)
    BY <1>2, Serving
  <1>4. UNION {Range(c) : c \in in_backend'} = {}
    BY <1>2
  <1>5. Range(b) # {}
    <2>1. b[1] \in Range(b)
      BY <1>1, RangeEquality
    <2> QED BY <2>1
  <1>6. PICK failed \in BOOLEAN :
          answer' = [r \in Requests |->
            IF r \in Range(b) /\ answer[r] = "waiting"
            THEN IF failed THEN "error" ELSE r
            ELSE answer[r]]
    BY <1>1, OwnResults
  <1>7. UNCHANGED <<batch_size, pending_requests>>
    BY DEF Release, config
  <1> QED BY <1>3, <1>4, <1>5, <1>6, <1>7 DEF Service!Complete

\* Every step of the batcher is a step of the service or none.
LEMMA ServiceStep == BatcherInv /\ [BatcherNext]_batcherVars => [Service!Next]_Service!vars
  <1> SUFFICES ASSUME BatcherInv, [BatcherNext]_batcherVars PROVE [Service!Next]_Service!vars
    OBVIOUS
  <1>1. ASSUME NEW r \in Requests, add_request(r) PROVE Service!Submit(r)
    BY <1>1 DEF add_request, Service!Submit, config
  <1>2. ASSUME NEW r \in Requests, Cancel(r) PROVE Service!Abandon(r)
    BY <1>2 DEF Cancel, Service!Abandon, config
  <1>3. CASE timeout_handler \/ SkipBatch \/ UNCHANGED batcherVars
    BY <1>3 DEF timeout_handler, SkipBatch, batcherVars, config, Service!vars
  <1>4. CASE TakeBatch
    <2> DEFINE b == SubSeq(pending_requests, 1, BatchLen)
    <2>1. /\ BatchLen \in 1..Len(pending_requests)
          /\ BatchLen <= batch_size
          /\ b \in Seq(Requests)
          /\ Len(b) = BatchLen
          /\ \A i \in 1..BatchLen : b[i] = pending_requests[i]
      BY <1>4, BatchOK DEF BatcherInv, TakeBatch
    <2>2. in_backend = {} /\ in_backend' = {b}
      BY <1>4 DEF BatcherInv, OneBatch, TakeBatch
    <2>3. Range(b) = {pending_requests[i] : i \in 1..BatchLen}
      <3> HIDE DEF b
      <3>1. Range(b) = {b[i] : i \in 1..Len(b)}
        BY <2>1, RangeEquality
      <3> QED BY <2>1, <3>1
    <2> HIDE DEF b
    <2>4. UNION {Range(c) : c \in in_backend'} = {pending_requests[i] : i \in 1..BatchLen}
      <3>1. UNION {Range(c) : c \in {b}} = Range(b)
        BY Zenon
      <3> QED BY <2>2, <2>3, <3>1
    <2>5. UNION {Range(c) : c \in in_backend} = {}
      BY <2>2
    <2>6. /\ pending_requests' = SubSeq(pending_requests, BatchLen + 1, Len(pending_requests))
          /\ UNCHANGED <<batch_size, answer>>
      BY <1>4 DEF TakeBatch, config
    <2>7. Service!Serve
      BY <2>1, <2>4, <2>5, <2>6 DEF Service!Serve
    <2> QED BY <2>7 DEF Service!Next
  <1>5. ASSUME NEW b \in in_backend, BackendReturns(b) PROVE Service!Complete
    BY <1>5, CompleteStep DEF BackendReturns
  <1>6. ASSUME NEW b \in in_backend, BackendRaises(b) PROVE Service!Complete
    BY <1>6, CompleteStep DEF BackendRaises
  <1> QED BY <1>1, <1>2, <1>3, <1>4, <1>5, <1>6 DEF BatcherNext, process_batch, Service!Next

\* The batcher starts as an idle service.
LEMMA ServiceInit == BatcherInit => Service!Init
  BY RequestBatcherAssumption DEF RequestBatcherAssumption, BatcherInit, Service!Init

\* The batcher behaves as a first-in first-out service: in order, one batch at a time, at
\* most batch_size requests in it, and to each request its own result or an error.
THEOREM FirstInFirstOut == BatcherSpec => Service!Spec
  <1> QED BY BatcherInvHolds, ServiceInit, ServiceStep, PTL DEF BatcherSpec, Service!Spec
=============================================================================
