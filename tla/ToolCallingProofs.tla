------------------------- MODULE ToolCallingProofs -------------------------
(***************************************************************************)
(* Proofs about ToolCalling: the limit on tool calls is kept, a tool list  *)
(* that is served routes every name, and no session of a generation that   *)
(* is over stays behind, for any number of generations and tools.          *)
(***************************************************************************)
EXTENDS ToolCalling, TLAPS

USE DEF Sessions, Labels

LEMMA Constants ==
    /\ None \notin Requests /\ None \notin Providers /\ None \notin Nat
    /\ Budgets \subseteq Int \cup {None} /\ Limits \subseteq Nat \cup {None}
    /\ Streams \subseteq BOOLEAN
    /\ MaxCalls \in Nat /\ MaxOutput \in Nat /\ MaxSessions \in Nat
BY ToolCallingAssumption

USE Constants

-----------------------------------------------------------------------------
(* The inductive invariant.                                                *)

\* The calls of a turn were weighed against the limit before the first one.
Weighed ==
    \A r \in Requests :
        /\ limit # None => executed[r] + asked[r] <= limit
        /\ pc[r] = "call" => todo[r] > 0

\* A listing under way has routed each tool, or still waits for its provider.
Listing ==
    \A r \in Requests : pc[r] = "list" =>
        \A p \in Providers : <<r, p>> \in loads \/ raw_to_qualified_map[raw[p]] = p

\* No session before the loop; a call uses the session there is, or a new one.
Owned ==
    \A r \in Requests :
        /\ pc[r] \in {"new", "lock", "list"} => requests_to_sessions[r] = None
        /\ pc[r] = "call" => requests_to_sessions[r] \in {None, calling[r]}

IInv == TypeOK /\ Weighed /\ Listing /\ Routed /\ Owned /\ NoLeak

LEMMA InitIInv == Init => IInv
<1> SUFFICES ASSUME Init  PROVE IInv
    OBVIOUS
<1>1. TypeOK
    <2>1. lock \in Requests \cup {None} /\ (\A r \in Requests : lock = r <=> pc[r] = "list")
        BY DEF Init
    <2>2. \A r \in Requests : calling[r] # None <=> pc[r] = "call"
        BY Zenon DEF Init
    <2>3. left \in [Requests -> Int \cup {None}]
        BY DEF Init
    <2>4. raw_to_qualified_map \in [Names -> Providers \cup {None}] /\ raw \in [Providers -> Names]
        BY DEF Init
    <2>5. limit \in Limits /\ stream \in BOOLEAN /\ cached \in BOOLEAN
        BY DEF Init
    <2>6. executed \in [Requests -> Nat] /\ (limit # None => \A r \in Requests : executed[r] <= limit)
        BY DEF Init
    <2>7. asked \in [Requests -> 0..MaxCalls] /\ todo \in [Requests -> 0..MaxCalls]
        BY DEF Init
    <2>8. opened \in 0..MaxSessions
        BY DEF Init
    <2> QED  BY <2>1, <2>2, <2>3, <2>4, <2>5, <2>6, <2>7, <2>8 DEF Init, TypeOK
<1> QED  BY <1>1 DEF IInv, Init, Weighed, Listing, Routed, Owned, NoLeak

-----------------------------------------------------------------------------
(* Types and the limit.                                                    *)

LEMMA NextTypes == TypeOK /\ Weighed /\ Owned /\ [Next]_vars => TypeOK' /\ Weighed'
<1> SUFFICES ASSUME TypeOK, Weighed, Owned, [Next]_vars
             PROVE  TypeOK' /\ Weighed'
    OBVIOUS
<1> USE DEF TypeOK, Weighed, config, manager, loop, sandbox, Goto
<1>1. ASSUME NEW r \in Requests, Begin(r)  PROVE TypeOK' /\ Weighed'
    BY <1>1 DEF Begin
<1>2. ASSUME NEW r \in Requests, ListCached(r)  PROVE TypeOK' /\ Weighed'
    BY <1>2 DEF ListCached
<1>3. ASSUME NEW r \in Requests, ListProviders(r)  PROVE TypeOK' /\ Weighed'
    BY <1>3 DEF ListProviders
<1>4. ASSUME NEW r \in Requests, NEW p \in Providers, Load(r, p)  PROVE TypeOK' /\ Weighed'
    <2>1. raw_to_qualified_map' \in [Names -> Providers \cup {None}] /\ raw[p] \in Names
        BY <1>4 DEF Load
    <2>2. loads' \subseteq Requests \X Providers /\ cached' \in BOOLEAN
        BY <1>4 DEF Load
    <2>3. pc' \in [Requests -> Labels] /\ lock' \in Requests \cup {None}
        BY <1>4 DEF Load
    <2>4. \A q \in Requests : lock' = q <=> pc'[q] = "list"
        BY <1>4 DEF Load
    <2>5. \A q \in Requests : (pc'[q] = "call" <=> pc[q] = "call")
        BY <1>4 DEF Load
    <2> QED  BY <1>4, <2>1, <2>2, <2>3, <2>4, <2>5 DEF Load
<1>5. ASSUME NEW r \in Requests, NEW p \in Providers, LoadRaises(r, p)  PROVE TypeOK' /\ Weighed'
    BY <1>5 DEF LoadRaises, ListRaises
<1>6. ASSUME NEW r \in Requests, Turn(r)  PROVE TypeOK' /\ Weighed'
    BY <1>6 DEF Turn, Leave
<1>7. ASSUME NEW r \in Requests, ModelReplies(r)  PROVE TypeOK' /\ Weighed'
    BY <1>7 DEF ModelReplies, Leave, Less, OverLimit
<1>8. ASSUME NEW r \in Requests, ModelFails(r)  PROVE TypeOK' /\ Weighed'
    BY <1>8 DEF ModelFails, Leave
<1>9. ASSUME NEW r \in Requests, CallOther(r)  PROVE TypeOK' /\ Weighed'
    BY <1>9 DEF CallOther, Executed
<1>10. ASSUME NEW r \in Requests, CallFatal(r)  PROVE TypeOK' /\ Weighed'
    BY <1>10 DEF CallFatal, Leave
<1>11. ASSUME NEW r \in Requests, CallPython(r)  PROVE TypeOK' /\ Weighed'
    <2>1. \A q \in Requests : lock' = q <=> pc'[q] = "list"
        BY <1>11 DEF CallPython
    <2>2. \A q \in Requests : calling'[q] # None <=> pc'[q] = "call"
        BY <1>11 DEF CallPython
    <2>3. Weighed'
        BY <1>11 DEF CallPython
    <2>4. /\ pc' \in [Requests -> Labels] /\ outcome' \in [Requests -> {"none", "ok", "raised", "cancelled"}]
          /\ asked' \in [Requests -> 0..MaxCalls] /\ todo' \in [Requests -> 0..MaxCalls]
        BY <1>11 DEF CallPython
    <2>5. /\ requests_to_sessions' \in [Requests -> Sessions \cup {None}]
          /\ calling' \in [Requests -> Sessions \cup {None}] /\ opened' \in 0..MaxSessions
        BY <1>11 DEF CallPython
    <2>6. queued' \subseteq Sessions /\ live' \subseteq Sessions /\ excused' \subseteq Sessions
        <3>1. calling'[r] \in Sessions
            BY <1>11, <2>5 DEF CallPython
        <3>2. queued' = queued \cup {calling'[r]} /\ UNCHANGED <<live, excused>>
            BY <1>11 DEF CallPython
        <3> QED  BY <3>1, <3>2
    <2> QED  BY <1>11, <2>1, <2>2, <2>3, <2>4, <2>5, <2>6 DEF CallPython
<1>12. ASSUME NEW r \in Requests, CallReturns(r)  PROVE TypeOK' /\ Weighed'
    BY <1>12 DEF CallReturns, Executed
<1>13. ASSUME NEW r \in Requests, CallRaises(r)  PROVE TypeOK' /\ Weighed'
    <2>1. \A q \in Requests : lock' = q <=> pc'[q] = "list"
        BY <1>13 DEF CallRaises, Executed
    <2>2. \A q \in Requests : calling'[q] # None <=> pc'[q] = "call"
        BY <1>13 DEF CallRaises, Executed
    <2>3. Weighed'
        BY <1>13 DEF CallRaises, Executed
    <2>4. /\ pc' \in [Requests -> Labels] /\ outcome' \in [Requests -> {"none", "ok", "raised", "cancelled"}]
          /\ asked' \in [Requests -> 0..MaxCalls] /\ todo' \in [Requests -> 0..MaxCalls]
        BY <1>13 DEF CallRaises, Executed
    <2>5. /\ requests_to_sessions' \in [Requests -> Sessions \cup {None}]
          /\ calling' \in [Requests -> Sessions \cup {None}] /\ opened' \in 0..MaxSessions
        BY <1>13 DEF CallRaises, Executed
    <2>6. queued' \subseteq Sessions /\ live' \subseteq Sessions /\ excused' \subseteq Sessions
        <3>1. calling[r] \in Sessions
            BY <1>13, <2>5 DEF CallRaises, Executed
        <3> QED  BY <1>13, <3>1 DEF CallRaises, Executed
    <2> QED  BY <1>13, <2>1, <2>2, <2>3, <2>4, <2>5, <2>6 DEF CallRaises, Executed
<1>14. ASSUME NEW r \in Requests, TurnEnds(r)  PROVE TypeOK' /\ Weighed'
    BY <1>14 DEF TurnEnds, Less
<1>15. ASSUME NEW r \in Requests, Cleanup(r)  PROVE TypeOK' /\ Weighed'
    <2>1. \A q \in Requests : lock' = q <=> pc'[q] = "list"
        BY <1>15 DEF Cleanup, Pop
    <2>2. \A q \in Requests : calling'[q] # None <=> pc'[q] = "call"
        BY <1>15 DEF Cleanup, Pop
    <2>3. Weighed'
        BY <1>15 DEF Cleanup, Pop
    <2>4. /\ pc' \in [Requests -> Labels] /\ outcome' \in [Requests -> {"none", "ok", "raised", "cancelled"}]
          /\ asked' \in [Requests -> 0..MaxCalls] /\ todo' \in [Requests -> 0..MaxCalls]
        BY <1>15 DEF Cleanup, Pop
    <2>5. /\ requests_to_sessions' \in [Requests -> Sessions \cup {None}]
          /\ calling' \in [Requests -> Sessions \cup {None}] /\ opened' \in 0..MaxSessions
        BY <1>15 DEF Cleanup, Pop
    <2>6. queued' \subseteq Sessions /\ live' \subseteq Sessions /\ excused' \subseteq Sessions
        <3>1. {requests_to_sessions[r]} \ {None} \subseteq Sessions
            BY <1>15, <2>5 DEF Cleanup, Pop
        <3> QED  BY <1>15, <3>1 DEF Cleanup, Pop
    <2> QED  BY <1>15, <2>1, <2>2, <2>3, <2>4, <2>5, <2>6 DEF Cleanup, Pop
<1>16. ASSUME NEW r \in Requests, CancelList(r)  PROVE TypeOK' /\ Weighed'
    BY <1>16 DEF CancelList
<1>17. ASSUME NEW r \in Requests, CancelLoop(r)  PROVE TypeOK' /\ Weighed'
    <2>1. \A q \in Requests : lock' = q <=> pc'[q] = "list"
        BY <1>17 DEF CancelLoop, Leave
    <2>2. \A q \in Requests : calling'[q] # None <=> pc'[q] = "call"
        BY <1>17 DEF CancelLoop, Leave
    <2>3. Weighed'
        BY <1>17 DEF CancelLoop, Leave
    <2>4. /\ pc' \in [Requests -> Labels] /\ outcome' \in [Requests -> {"none", "ok", "raised", "cancelled"}]
          /\ asked' \in [Requests -> 0..MaxCalls] /\ todo' \in [Requests -> 0..MaxCalls]
        BY <1>17 DEF CancelLoop, Leave
    <2>5. /\ requests_to_sessions' \in [Requests -> Sessions \cup {None}]
          /\ calling' \in [Requests -> Sessions \cup {None}] /\ opened' \in 0..MaxSessions
        BY <1>17 DEF CancelLoop, Leave
    <2>6. queued' \subseteq Sessions /\ live' \subseteq Sessions /\ excused' \subseteq Sessions
        <3>1. {calling[r]} \ {None} \subseteq Sessions
            BY <1>17, <2>5 DEF CancelLoop, Leave
        <3> QED  BY <1>17, <3>1 DEF CancelLoop, Leave
    <2> QED  BY <1>17, <2>1, <2>2, <2>3, <2>4, <2>5, <2>6 DEF CancelLoop, Leave
<1>18. ASSUME NEW r \in Requests, CancelCleanup(r)  PROVE TypeOK' /\ Weighed'
    <2>1. \A q \in Requests : lock' = q <=> pc'[q] = "list"
        BY <1>18 DEF CancelCleanup
    <2>2. \A q \in Requests : calling'[q] # None <=> pc'[q] = "call"
        BY <1>18 DEF CancelCleanup
    <2>3. Weighed'
        BY <1>18 DEF CancelCleanup
    <2>4. /\ pc' \in [Requests -> Labels] /\ outcome' \in [Requests -> {"none", "ok", "raised", "cancelled"}]
          /\ asked' \in [Requests -> 0..MaxCalls] /\ todo' \in [Requests -> 0..MaxCalls]
        BY <1>18 DEF CancelCleanup
    <2>5. /\ requests_to_sessions' \in [Requests -> Sessions \cup {None}]
          /\ calling' \in [Requests -> Sessions \cup {None}] /\ opened' \in 0..MaxSessions
        BY <1>18 DEF CancelCleanup
    <2>6. queued' \subseteq Sessions /\ live' \subseteq Sessions /\ excused' \subseteq Sessions
        <3>1. {requests_to_sessions[r]} \ {None} \subseteq Sessions
            BY <1>18, <2>5 DEF CancelCleanup
        <3> QED  BY <1>18, <3>1 DEF CancelCleanup
    <2> QED  BY <1>18, <2>1, <2>2, <2>3, <2>4, <2>5, <2>6 DEF CancelCleanup
<1>19. ASSUME NEW s \in Sessions, SandboxServes(s)  PROVE TypeOK' /\ Weighed'
    BY <1>19 DEF SandboxServes
<1>20. ASSUME UNCHANGED vars  PROVE TypeOK' /\ Weighed'
    BY <1>20 DEF vars
<1> HIDE DEF TypeOK, Weighed, config, manager, loop, sandbox, Goto
<1> QED  BY <1>1, <1>2, <1>3, <1>4, <1>5, <1>6, <1>7, <1>8, <1>9, <1>10, <1>11, <1>12, <1>13,
            <1>14, <1>15, <1>16, <1>17, <1>18, <1>19, <1>20 DEF Next, Step
-----------------------------------------------------------------------------
(* The tool list.  A name that has a provider keeps it; a load that finds  *)
(* it taken by another one fails its listing.                              *)

LEMMA NextRouted ==
    TypeOK /\ Listing /\ Routed /\ [Next]_vars => Listing' /\ Routed'
<1> SUFFICES ASSUME TypeOK, Listing, Routed, [Next]_vars
             PROVE  Listing' /\ Routed'
    OBVIOUS
<1> USE DEF Listing, Routed
<1>1. ASSUME UNCHANGED <<raw, loads, raw_to_qualified_map, cached>>,
             \A q \in Requests : pc'[q] = "list" => pc[q] = "list"
      PROVE  Listing' /\ Routed'
    BY <1>1
<1>2. ASSUME NEW r \in Requests, Goto(r, "lock") \/ Goto(r, "turn") \/ Goto(r, "model") \/ Goto(r, "tools")
                \/ Goto(r, "call") \/ Goto(r, "cleanup") \/ Goto(r, "end") \/ UNCHANGED pc
      PROVE  \A q \in Requests : pc'[q] = "list" => pc[q] = "list"
    BY <1>2 DEF TypeOK, Goto
<1>3. ASSUME NEW r \in Requests,
             Begin(r) \/ ListCached(r) \/ Turn(r) \/ ModelReplies(r) \/ ModelFails(r) \/ CallOther(r)
                \/ CallFatal(r) \/ CallPython(r) \/ CallReturns(r) \/ CallRaises(r) \/ TurnEnds(r)
                \/ Cleanup(r) \/ CancelLoop(r) \/ CancelCleanup(r)
      PROVE  Listing' /\ Routed'
    <2>1. UNCHANGED <<raw, loads, raw_to_qualified_map, cached>>
        BY <1>3 DEF Begin, ListCached, Turn, ModelReplies, ModelFails, CallOther, CallFatal, CallPython,
            CallReturns, CallRaises, TurnEnds, Cleanup, CancelLoop, CancelCleanup, config, manager
    <2>2. \/ Goto(r, "lock") \/ Goto(r, "turn") \/ Goto(r, "model") \/ Goto(r, "tools")
          \/ Goto(r, "call") \/ Goto(r, "cleanup") \/ Goto(r, "end") \/ UNCHANGED pc
        BY <1>3 DEF Begin, ListCached, Turn, ModelReplies, ModelFails, CallOther, CallFatal, CallPython,
            CallReturns, CallRaises, TurnEnds, Cleanup, CancelLoop, CancelCleanup, Leave
    <2> QED  BY <2>1, <2>2, <1>1, <1>2
<1>4. ASSUME NEW r \in Requests, ListProviders(r)  PROVE Listing' /\ Routed'
    BY <1>4 DEF ListProviders, TypeOK, Goto, config
<1>5. ASSUME NEW r \in Requests, NEW p \in Providers, Load(r, p)  PROVE Listing' /\ Routed'
    <2>1. /\ <<r, p>> \in loads /\ loads' = loads \ {<<r, p>>} /\ raw' = raw
          /\ raw_to_qualified_map[raw[p]] = None
          /\ raw_to_qualified_map' = [raw_to_qualified_map EXCEPT ![raw[p]] = p]
        BY <1>5 DEF Load, config
    <2>2. raw_to_qualified_map'[raw[p]] = p
        BY <2>1 DEF TypeOK
    <2>3. ASSUME NEW q \in Providers, raw_to_qualified_map[raw[q]] = q
          PROVE  raw_to_qualified_map'[raw[q]] = q
        BY <2>1, <2>3 DEF TypeOK
    <2>4. ASSUME NEW t \in Requests, pc[t] = "list", NEW q \in Providers
          PROVE  <<t, q>> \in loads' \/ raw_to_qualified_map'[raw[q]] = q
        BY <2>1, <2>2, <2>3, <2>4
    <2>5. CASE pc[r] = "list" /\ loads \cap ({r} \X Providers) = {<<r, p>>}
        <3>1. Goto(r, "turn")
            BY <1>5, <2>5 DEF Load
        <3>2. \A q \in Providers : <<r, q>> \notin loads'
            BY <2>1, <2>5
        <3>3. \A q \in Providers : raw_to_qualified_map'[raw[q]] = q
            BY <2>4, <2>5, <3>2
        <3>4. \A t \in Requests : pc'[t] = "list" => pc[t] = "list"
            BY <3>1, <1>2
        <3> QED  BY <3>3, <3>4, <2>1, <2>4
    <2>6. CASE ~(pc[r] = "list" /\ loads \cap ({r} \X Providers) = {<<r, p>>})
        <3>1. UNCHANGED <<cached, pc>>
            BY <1>5, <2>6 DEF Load
        <3> QED  BY <3>1, <2>1, <2>3, <2>4
    <2> QED  BY <2>5, <2>6
<1>6. ASSUME NEW r \in Requests, NEW p \in Providers, LoadRaises(r, p)  PROVE Listing' /\ Routed'
    <2>1. UNCHANGED <<raw, raw_to_qualified_map, cached>> /\ loads' = loads \ {<<r, p>>}
        BY <1>6 DEF LoadRaises, config
    <2>2. (\A q \in Requests : pc'[q] = "list" => pc[q] = "list") /\ pc'[r] # "list"
        BY <1>6 DEF LoadRaises, ListRaises, Goto, TypeOK
    <2> QED  BY <2>1, <2>2
<1>7. ASSUME NEW r \in Requests, CancelList(r)  PROVE Listing' /\ Routed'
    <2>1. /\ UNCHANGED <<raw, raw_to_qualified_map, cached>>
          /\ loads' = loads \ ({r} \X Providers)
        BY <1>7 DEF CancelList, config
    <2>2. (\A q \in Requests : pc'[q] = "list" => pc[q] = "list") /\ pc'[r] # "list"
        BY <1>7 DEF CancelList, Goto, TypeOK
    <2> QED  BY <2>1, <2>2
<1>8. ASSUME NEW s \in Sessions, SandboxServes(s)  PROVE Listing' /\ Routed'
    BY <1>1, <1>8 DEF SandboxServes, config, manager, loop
<1>9. ASSUME UNCHANGED vars  PROVE Listing' /\ Routed'
    BY <1>1, <1>9 DEF vars, config, manager, loop
<1> QED  BY <1>3, <1>4, <1>5, <1>6, <1>7, <1>8, <1>9 DEF Next, Step

-----------------------------------------------------------------------------
(* The sessions.                                                           *)

LEMMA Known ==
    TypeOK => /\ None \notin live \cup queued
              /\ \A r \in Requests : calling[r] = None <=> pc[r] # "call"
<1>1. None \notin Sessions
    OBVIOUS
<1> QED  BY <1>1 DEF TypeOK

(* A step of r leaks nothing when it drops no session of r that the        *)
(* sandbox still holds and nobody gave up.                                 *)
LEMMA NoneDropped ==
    ASSUME NoLeak, NEW r \in Requests, None \notin live' \cup queued',
           \A q \in Requests \ {r} :
               pc'[q] = pc[q] /\ requests_to_sessions'[q] = requests_to_sessions[q] /\ calling'[q] = calling[q],
           live' \cup queued' \subseteq live \cup queued \cup {calling'[r]},
           excused \subseteq excused',
           pc'[r] # "end" \/ calling'[r] = None,
           pc[r] # "end" =>
               \A s \in {requests_to_sessions[r], calling[r]} \cap (live' \cup queued') :
                   s \in excused' \/ (pc'[r] # "end" /\ s \in {requests_to_sessions'[r], calling'[r]})
    PROVE  NoLeak'
<1> SUFFICES ASSUME NEW s \in (live' \cup queued') \ excused'
             PROVE  \E q \in Requests : pc'[q] # "end" /\ s \in {requests_to_sessions'[q], calling'[q]}
    BY DEF NoLeak
<1>1. CASE s = calling'[r]
    BY <1>1
<1>2. CASE s # calling'[r]
    <2>1. PICK q \in Requests : pc[q] # "end" /\ s \in {requests_to_sessions[q], calling[q]}
        BY <1>2 DEF NoLeak
    <2>2. CASE q = r
        BY <2>1, <2>2
    <2>3. CASE q # r
        BY <2>1, <2>3
    <2> QED  BY <2>2, <2>3
<1> QED  BY <1>1, <1>2

LEMMA NextSessions ==
    TypeOK /\ TypeOK' /\ Owned /\ NoLeak /\ [Next]_vars => Owned' /\ NoLeak'
<1> SUFFICES ASSUME TypeOK, TypeOK', Owned, NoLeak, [Next]_vars
             PROVE  Owned' /\ NoLeak'
    OBVIOUS
<1>0. /\ None \notin live \cup queued /\ None \notin live' \cup queued'
      /\ \A r \in Requests : calling[r] = None <=> pc[r] # "call"
    <2>1. None \notin Sessions
        OBVIOUS
    <2>2. live' \subseteq Sessions /\ queued' \subseteq Sessions
        BY DEF TypeOK
    <2> QED  BY Known, <2>1, <2>2
\* Nothing is sent or forgotten, and the request goes on
<1>1. ASSUME UNCHANGED sandbox, NEW r \in Requests, NEW l \in Labels \ {"call", "end"}, Goto(r, l),
             l \in {"new", "lock", "list"} => pc[r] \in {"new", "lock", "list"}
      PROVE  Owned' /\ NoLeak'
    <2>1. (\A q \in Requests : q # r => pc'[q] = pc[q]) /\ pc'[r] = l
        BY <1>1 DEF Goto, TypeOK
    <2>2. UNCHANGED <<requests_to_sessions, calling, queued, live, excused>>
        BY <1>1 DEF sandbox
    <2>3. Owned'
        BY <2>1, <2>2, <1>1 DEF Owned
    <2>4. NoLeak'
        BY <1>0, <2>1, <2>2, NoneDropped
    <2> QED  BY <2>3, <2>4
<1>2. ASSUME NEW r \in Requests, Begin(r)  PROVE Owned' /\ NoLeak'
    BY <1>1, <1>2 DEF Begin
<1>3. ASSUME NEW r \in Requests, ListCached(r)  PROVE Owned' /\ NoLeak'
    BY <1>1, <1>3 DEF ListCached
<1>4. ASSUME NEW r \in Requests, ListProviders(r)  PROVE Owned' /\ NoLeak'
    BY <1>1, <1>4 DEF ListProviders
<1>5. ASSUME NEW r \in Requests, NEW p \in Providers, Load(r, p)  PROVE Owned' /\ NoLeak'
    <2>1. UNCHANGED sandbox /\ (Goto(r, "turn") \/ UNCHANGED pc)
        BY <1>5 DEF Load
    <2>2. CASE UNCHANGED pc
        BY <2>1, <2>2 DEF Owned, NoLeak, sandbox
    <2> QED  BY <1>1, <2>1, <2>2
\* The listing fails: there is no session yet
<1>6. ASSUME NEW r \in Requests, UNCHANGED sandbox, Goto(r, "end"), pc[r] \in {"new", "lock", "list"}
      PROVE  Owned' /\ NoLeak'
    <2>1. (\A q \in Requests : q # r => pc'[q] = pc[q]) /\ pc'[r] = "end"
        BY <1>6 DEF Goto, TypeOK
    <2>2. UNCHANGED <<requests_to_sessions, calling, queued, live, excused>>
        BY <1>6 DEF sandbox
    <2>3. requests_to_sessions[r] = None /\ calling[r] = None
        BY <1>6, <1>0 DEF Owned
    <2>4. Owned'
        BY <2>1, <2>2 DEF Owned
    <2>5. NoLeak'
        BY <1>0, <2>1, <2>2, <2>3, NoneDropped
    <2> QED  BY <2>4, <2>5
<1>7. ASSUME NEW r \in Requests, NEW p \in Providers, LoadRaises(r, p)  PROVE Owned' /\ NoLeak'
    <2>1. CASE pc[r] = "list"
        BY <1>6, <1>7, <2>1 DEF LoadRaises, ListRaises
    <2>2. CASE pc[r] # "list"
        BY <1>7, <2>2 DEF LoadRaises, ListRaises, Owned, NoLeak, sandbox
    <2> QED  BY <2>1, <2>2
<1>8. ASSUME NEW r \in Requests, CancelList(r)  PROVE Owned' /\ NoLeak'
    BY <1>6, <1>8 DEF CancelList
<1>9. ASSUME NEW r \in Requests, Turn(r)  PROVE Owned' /\ NoLeak'
    BY <1>1, <1>9 DEF Turn, Leave
<1>10. ASSUME NEW r \in Requests, ModelReplies(r)  PROVE Owned' /\ NoLeak'
    BY <1>1, <1>10 DEF ModelReplies, Leave
<1>11. ASSUME NEW r \in Requests, ModelFails(r)  PROVE Owned' /\ NoLeak'
    BY <1>1, <1>11 DEF ModelFails, Leave
<1>12. ASSUME NEW r \in Requests, CallOther(r)  PROVE Owned' /\ NoLeak'
    BY <1>12 DEF CallOther, sandbox, Owned, NoLeak
<1>13. ASSUME NEW r \in Requests, CallFatal(r)  PROVE Owned' /\ NoLeak'
    BY <1>1, <1>13 DEF CallFatal, Leave
<1>14. ASSUME NEW r \in Requests, TurnEnds(r)  PROVE Owned' /\ NoLeak'
    BY <1>1, <1>14 DEF TurnEnds
\* The session of the call is the request's own, or is new
<1>15. ASSUME NEW r \in Requests, CallPython(r)  PROVE Owned' /\ NoLeak'
    <2>1. /\ pc' = [pc EXCEPT ![r] = "call"]
          /\ queued' = queued \cup {calling'[r]}
          /\ UNCHANGED <<requests_to_sessions, live, excused>>
        BY <1>15 DEF CallPython, Goto
    <2>2. /\ calling'[r] \in Sessions
          /\ requests_to_sessions[r] \in {None, calling'[r]}
          /\ \A q \in Requests \ {r} : calling'[q] = calling[q]
        BY <1>15 DEF CallPython, TypeOK
    <2>3. calling[r] = None
        BY <1>15, <1>0 DEF CallPython
    <2>4. (\A q \in Requests : q # r => pc'[q] = pc[q]) /\ pc'[r] = "call"
        BY <2>1 DEF TypeOK
    <2>5. Owned'
        BY <2>1, <2>2, <2>4 DEF Owned
    <2>6. NoLeak'
        BY <1>0, <2>1, <2>2, <2>3, <2>4, NoneDropped
    <2> QED  BY <2>5, <2>6
<1>16. ASSUME NEW s \in Sessions, SandboxServes(s)  PROVE Owned' /\ NoLeak'
    BY <1>16 DEF SandboxServes, Owned, NoLeak, loop
\* The session of the call becomes the request's
<1>17. ASSUME NEW r \in Requests, CallReturns(r)  PROVE Owned' /\ NoLeak'
    <2>1. /\ pc' = [pc EXCEPT ![r] = "tools"] /\ pc[r] = "call"
          /\ requests_to_sessions' = [requests_to_sessions EXCEPT ![r] = calling[r]]
          /\ calling' = [calling EXCEPT ![r] = None]
          /\ UNCHANGED <<queued, live, excused>>
        BY <1>17 DEF CallReturns, Goto
    <2>2. requests_to_sessions[r] \in {None, calling[r]}
        BY <2>1 DEF Owned
    <2>3. /\ \A q \in Requests \ {r} : pc'[q] = pc[q] /\ calling'[q] = calling[q]
                /\ requests_to_sessions'[q] = requests_to_sessions[q]
          /\ pc'[r] = "tools" /\ requests_to_sessions'[r] = calling[r]
        BY <2>1 DEF TypeOK
    <2>4. Owned'
        BY <2>3 DEF Owned
    <2>5. NoLeak'
        BY <1>0, <2>1, <2>2, <2>3, NoneDropped
    <2> QED  BY <2>4, <2>5
\* It is forgotten, with whatever session there was: they are the same
<1>18. ASSUME NEW r \in Requests, CallRaises(r)  PROVE Owned' /\ NoLeak'
    <2>1. /\ pc' = [pc EXCEPT ![r] = "tools"] /\ pc[r] = "call"
          /\ requests_to_sessions' = [requests_to_sessions EXCEPT ![r] = None]
          /\ calling' = [calling EXCEPT ![r] = None]
          /\ excused' = excused \cup {calling[r]}
          /\ UNCHANGED <<queued, live>>
        BY <1>18 DEF CallRaises, Goto
    <2>2. requests_to_sessions[r] \in {None, calling[r]}
        BY <2>1 DEF Owned
    <2>3. /\ \A q \in Requests \ {r} : pc'[q] = pc[q] /\ calling'[q] = calling[q]
                /\ requests_to_sessions'[q] = requests_to_sessions[q]
          /\ pc'[r] = "tools" /\ requests_to_sessions'[r] = None
        BY <2>1 DEF TypeOK
    <2>4. Owned'
        BY <2>3 DEF Owned
    <2>5. NoLeak'
        BY <1>0, <2>1, <2>2, <2>3, NoneDropped
    <2> QED  BY <2>4, <2>5
\* The session is deleted, or its deletion is given up
<1>19. ASSUME NEW r \in Requests, Cleanup(r)  PROVE Owned' /\ NoLeak'
    <2>1. /\ pc' = [pc EXCEPT ![r] = "end"] /\ pc[r] = "cleanup"
          /\ requests_to_sessions' = [requests_to_sessions EXCEPT ![r] = None]
          /\ UNCHANGED calling
          /\ live' \cup queued' \subseteq live \cup queued
          /\ excused \subseteq excused'
          /\ requests_to_sessions[r] \in (live' \cup queued') \ {None} => requests_to_sessions[r] \in excused'
        BY <1>19 DEF Cleanup, Pop, Goto
    <2>2. calling[r] = None
        BY <2>1, <1>0
    <2>3. /\ \A q \in Requests \ {r} : pc'[q] = pc[q] /\ calling'[q] = calling[q]
                /\ requests_to_sessions'[q] = requests_to_sessions[q]
          /\ pc'[r] = "end"
        BY <2>1 DEF TypeOK
    <2>4. Owned'
        BY <2>3 DEF Owned
    <2>5. NoLeak'
        BY <1>0, <2>1, <2>2, <2>3, NoneDropped
    <2> QED  BY <2>4, <2>5
\* A call is abandoned: its session is the request's, or is excused
<1>20. ASSUME NEW r \in Requests, CancelLoop(r)  PROVE Owned' /\ NoLeak'
    <2>1. /\ pc' = [pc EXCEPT ![r] = "cleanup"] /\ pc[r] \in {"model", "tools", "call"}
          /\ calling' = [calling EXCEPT ![r] = None]
          /\ excused' = IF requests_to_sessions[r] = None THEN excused \cup ({calling[r]} \ {None}) ELSE excused
          /\ UNCHANGED <<requests_to_sessions, queued, live>>
        BY <1>20 DEF CancelLoop, Leave, Goto
    <2>2. calling[r] # None => requests_to_sessions[r] \in {None, calling[r]}
        BY <1>0 DEF Owned
    <2>3. /\ \A q \in Requests \ {r} : pc'[q] = pc[q] /\ calling'[q] = calling[q]
                /\ requests_to_sessions'[q] = requests_to_sessions[q]
          /\ pc'[r] = "cleanup" /\ requests_to_sessions'[r] = requests_to_sessions[r]
        BY <2>1 DEF TypeOK
    <2>4. Owned'
        BY <2>3 DEF Owned
    <2>5. excused \subseteq excused' /\ live' \cup queued' \subseteq live \cup queued
        BY <2>1
    <2>6. calling[r] \in {None, requests_to_sessions[r]} \cup excused'
        BY <2>1, <2>2
    <2>7. NoLeak'
        BY <1>0, <2>1, <2>3, <2>5, <2>6, NoneDropped
    <2> QED  BY <2>4, <2>7
<1>21. ASSUME NEW r \in Requests, CancelCleanup(r)  PROVE Owned' /\ NoLeak'
    <2>1. /\ pc' = [pc EXCEPT ![r] = "end"] /\ pc[r] = "cleanup"
          /\ excused' = excused \cup ({requests_to_sessions[r]} \ {None})
          /\ UNCHANGED <<requests_to_sessions, calling, queued, live>>
        BY <1>21 DEF CancelCleanup, Goto
    <2>2. calling[r] = None
        BY <2>1, <1>0
    <2>3. (\A q \in Requests \ {r} : pc'[q] = pc[q]) /\ pc'[r] = "end"
        BY <2>1 DEF TypeOK
    <2>4. Owned'
        BY <2>1, <2>3 DEF Owned
    <2>5. NoLeak'
        BY <1>0, <2>1, <2>2, <2>3, NoneDropped
    <2> QED  BY <2>4, <2>5
<1>22. ASSUME UNCHANGED vars  PROVE Owned' /\ NoLeak'
    BY <1>22 DEF vars, loop, sandbox, Owned, NoLeak
<1> QED  BY <1>2, <1>3, <1>4, <1>5, <1>7, <1>8, <1>9, <1>10, <1>11, <1>12, <1>13, <1>14, <1>15, <1>16,
            <1>17, <1>18, <1>19, <1>20, <1>21, <1>22 DEF Next, Step

-----------------------------------------------------------------------------
(* The theorems.                                                           *)

LEMMA NextIInv == IInv /\ [Next]_vars => IInv'
<1> SUFFICES ASSUME IInv, [Next]_vars  PROVE IInv'
    OBVIOUS
<1>1. TypeOK' /\ Weighed'
    BY NextTypes DEF IInv
<1> QED  BY <1>1, NextRouted, NextSessions DEF IInv

LEMMA Invariant == Spec => []IInv
BY InitIInv, NextIInv, PTL DEF Spec

(* Types; with them, the list lock is held exactly while its holder lists, *)
(* and no generation executes more calls than max_tool_calls.              *)
THEOREM TypeCorrect == Spec => []TypeOK
<1>1. IInv => TypeOK
    BY DEF IInv
<1> QED  BY Invariant, <1>1, PTL

(* ToolManager.list_all_tools: a cached list routes every name to the one  *)
(* provider that offers it, whatever the loads of failed listings write.   *)
THEOREM ListsRoute == Spec => []Routed
<1>1. IInv => Routed
    BY DEF IInv
<1> QED  BY Invariant, <1>1, PTL

(* The finally clause of generate_async and DirectPythonTool: a session in *)
(* the sandbox belongs to a generation under way, or its deletion failed,  *)
(* its call raised, or it was cancelled before it had a name.              *)
THEOREM SessionsCleanedUp == Spec => []NoLeak
<1>1. IInv => NoLeak
    BY DEF IInv
<1> QED  BY Invariant, <1>1, PTL
=============================================================================
