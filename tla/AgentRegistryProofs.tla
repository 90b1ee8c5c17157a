------------------------ MODULE AgentRegistryProofs ------------------------
(* Safety of AgentRegistry for every choice of its requests and limits: a  *)
(* session stays in the map until its ladder ends, two sessions of one id  *)
(* are never attached to a pi side by side, and a deleted id does not come *)
(* back.                                                                   *)
EXTENDS AgentRegistry, TLAPS

-----------------------------------------------------------------------------
(* Types.                                                                  *)

AgentType ==
  [closed : BOOLEAN, starting : SUBSET Sessions,
   sessions : [Ids -> Sessions \cup {None}],
   deleted : SUBSET Ids, ephemeral : SUBSET Ids, restores : SUBSET Ids]

RequestType ==
  [pc : RequestPoints, id : Ids \cup {None}, found : Sessions \cup {None}]

(* What the assumptions on the requests say of the sessions and ids.       *)
LEMMA Distinct ==
  /\ None \notin Sessions /\ None \notin Ids
  /\ Sessions \subseteq Requests /\ News \subseteq Sessions
  /\ Restores \subseteq Sessions /\ Closes \subseteq Requests
  /\ Deletes \subseteq Requests /\ Shutdown \in Requests
  /\ Sessions \cap (Closes \cup Deletes \cup {Shutdown}) = {}
  /\ Deletes \cap (Closes \cup {Shutdown}) = {} /\ Shutdown \notin Closes
  /\ News \cap Restores = {} /\ News \cap Stored = {}
  /\ News \subseteq Ids /\ Stored \subseteq Ids /\ Ephemeral \subseteq News
  BY RequestsAssumption DEF Sessions, Requests, Ids

(* Go moves one request to a point.                                        *)
LEMMA GoType ==
  ASSUME TypeOK, NEW r \in Requests, NEW p \in RequestPoints, Go(r, p)
  PROVE  requests' \in [Requests -> RequestType]
  BY DEF TypeOK, RequestType, Go

(* A request that also takes what it found keeps its type.                 *)
LEMMA FoundType ==
  ASSUME TypeOK, NEW r \in Requests, NEW p \in RequestPoints,
         NEW s \in Sessions \cup {None},
         requests' = [requests EXCEPT ![r].pc = p, ![r].found = s]
  PROVE  requests' \in [Requests -> RequestType]
<1>1. requests[r] \in RequestType /\ requests \in [Requests -> RequestType]
  BY DEF TypeOK, RequestType
<1>2. [requests[r] EXCEPT !.pc = p, !.found = s] \in RequestType
  BY <1>1 DEF RequestType
<1>3. requests' = [requests EXCEPT ![r] = [requests[r] EXCEPT !.pc = p, !.found = s]]
  OBVIOUS
<1> QED BY <1>1, <1>2, <1>3

(* Returned and Detached give an agent.                                    *)
LEMMA ReturnedType ==
  ASSUME TypeOK, NEW r \in Sessions
  PROVE  Returned(r) \in AgentType
  BY DEF TypeOK, AgentType, Returned

LEMMA DetachedType ==
  ASSUME TypeOK, NEW s
  PROVE  Detached(s) \in AgentType
<1>1. agent \in AgentType
  BY DEF TypeOK, AgentType
<1>2. [agent.sessions EXCEPT ![IdOf(s)] = IF @ = s THEN None ELSE @]
        \in [Ids -> Sessions \cup {None}]
  BY <1>1 DEF AgentType
<1> QED BY <1>1, <1>2 DEF AgentType, Detached

(* A request that refuses or answers gives back what it held.              *)
LEMMA RefuseType ==
  ASSUME TypeOK, NEW r \in Sessions, Refuse(r)
  PROVE  agent' \in AgentType /\ requests' \in [Requests -> RequestType]
  BY ReturnedType, GoType, Distinct DEF Refuse, RequestPoints

(* A session keeps its type when its ladder begins.                        *)
LEMMA BegunType ==
  ASSUME TypeOK, NEW s \in Sessions
  PROVE  Begun(s) \in SessionType
<1>1. sessions[s] \in SessionType
  BY DEF TypeOK
<1> DEFINE l == IF sessions[s].runtime = "bound" THEN "stop"
                ELSE Owed(~sessions[s].persisted)
           j == sessions[s].runtime = "bound" /\ ~sessions[s].persisted
<1>2. l \in {"stop", "join", "commit"} /\ j \in BOOLEAN
  BY DEF Owed
<1>3. Begun(s) = IF sessions[s].ladder = "open"
                   THEN [sessions[s] EXCEPT !.ladder = l, !.join = j]
                   ELSE sessions[s]
  BY DEF Begun
<1> HIDE DEF l, j
<1>4. [sessions[s] EXCEPT !.ladder = l, !.join = j] \in SessionType
  BY <1>1, <1>2 DEF SessionType
<1> QED BY <1>1, <1>3, <1>4

(* Every request but Agent.Close carries an id once it has begun.          *)
Named ==
  \A r \in Sessions \cup Closes \cup Deletes : ~At(r, "idle") => IdOf(r) \in Ids

(* Every step keeps every variable in its type.                            *)
LEMMA TypeStep == TypeOK /\ Named /\ [Next]_vars => TypeOK'
<1> SUFFICES ASSUME TypeOK, Named, [Next]_vars PROVE TypeOK'
  OBVIOUS
<1>1. /\ agent \in AgentType /\ sessions \in [Sessions -> SessionType]
      /\ requests \in [Requests -> RequestType]
      /\ lists \in [Lists -> ListType]
      /\ store \in [Ids -> {"absent", "stored", "tombstone"}]
      /\ shutdown \subseteq Sessions /\ installed \subseteq Sessions
      /\ \A r \in Sessions \cup Closes \cup Deletes :
           requests[r].pc # "idle" => IdOf(r) \in Ids
  BY DEF TypeOK, AgentType, RequestType, Named, At
<1>2. ASSUME agent' \in AgentType, sessions' \in [Sessions -> SessionType],
             requests' \in [Requests -> RequestType],
             lists' \in [Lists -> ListType],
             store' \in [Ids -> {"absent", "stored", "tombstone"}],
             shutdown' \subseteq Sessions, installed' \subseteq Sessions
      PROVE  TypeOK'
  BY <1>2 DEF TypeOK, AgentType, RequestType
<1>3. ASSUME NEW n \in News, New(n) PROVE TypeOK'
  BY <1>1, <1>2, <1>3, Distinct, GoType DEF New, RequestPoints
<1>4. ASSUME NEW r \in Restores, Restore(r) PROVE TypeOK'
  <2>1. requests' \in [Requests -> RequestType]
    BY <1>1, <1>4, Distinct DEF Restore, RequestType, RequestPoints
  <2> QED BY <1>1, <1>2, <1>4, <2>1 DEF Restore
<1>5. ASSUME NEW c \in Closes, CloseSession(c) PROVE TypeOK'
  <2>1. requests' \in [Requests -> RequestType]
    BY <1>1, <1>5, Distinct
    DEF CloseSession, RequestType, RequestPoints, AgentType, Resident
  <2> QED BY <1>1, <1>2, <1>5, <2>1 DEF CloseSession
<1>6. ASSUME NEW d \in Deletes, Delete(d) PROVE TypeOK'
  <2>1. requests' \in [Requests -> RequestType]
    BY <1>1, <1>6, Distinct DEF Delete, RequestType, RequestPoints
  <2> QED BY <1>1, <1>2, <1>6, <2>1 DEF Delete
<1>7. ASSUME AgentClose PROVE TypeOK'
  <2>1. requests' \in [Requests -> RequestType]
    BY <1>1, <1>7, Distinct, GoType DEF AgentClose, RequestPoints
  <2>2. agent' \in AgentType
    BY <1>1, <1>7, Distinct DEF AgentClose, AgentType
  <2>3. shutdown' \subseteq Sessions
    BY <1>1, <1>7, Distinct DEF AgentClose, AgentType, Resident
  <2> QED BY <1>1, <1>2, <1>7, <2>1, <2>2, <2>3 DEF AgentClose
<1>8. ASSUME NEW r \in Sessions, Reserve(r) PROVE TypeOK'
  <2>1. requests' \in [Requests -> RequestType]
    BY <1>1, <1>8, Distinct, GoType, RefuseType DEF Reserve, RequestPoints
  <2>2. agent' \in AgentType
    BY <1>1, <1>8, Distinct, RefuseType DEF Reserve, AgentType
  <2> QED BY <1>1, <1>2, <1>8, <2>1, <2>2 DEF Reserve
<1>9. ASSUME NEW r \in Sessions, Launch(r) PROVE TypeOK'
  <2>1. requests' \in [Requests -> RequestType]
    BY <1>1, <1>9, Distinct, GoType, RefuseType DEF Launch, RequestPoints
  <2>2. agent' \in AgentType
    BY <1>1, <1>9, Distinct, RefuseType DEF Launch
  <2>3. sessions' \in [Sessions -> SessionType]
    BY <1>1, <1>9, Distinct DEF Launch, SessionType
  <2> QED BY <1>1, <1>2, <1>9, <2>1, <2>2, <2>3 DEF Launch
<1>10. ASSUME NEW r \in Sessions, Configure(r) PROVE TypeOK'
  <2>1. requests' \in [Requests -> RequestType]
    BY <1>1, <1>10, Distinct, GoType, RefuseType DEF Configure, RequestPoints
  <2>2. agent' \in AgentType
    BY <1>1, <1>10, Distinct, RefuseType DEF Configure
  <2>3. sessions' \in [Sessions -> SessionType]
    BY <1>1, <1>10, Distinct DEF Configure, SessionType
  <2> QED BY <1>1, <1>2, <1>10, <2>1, <2>2, <2>3 DEF Configure
<1>11. ASSUME NEW r \in Sessions, InstallOrRefuse(r) PROVE TypeOK'
  <2>1. requests' \in [Requests -> RequestType]
    BY <1>1, <1>11, Distinct, GoType
    DEF InstallOrRefuse, Install, RequestPoints
  <2>2. [agent.sessions EXCEPT ![IdOf(r)] = r] \in [Ids -> Sessions \cup {None}]
    BY <1>1 DEF AgentType
  <2>3. \A f \in [Ids -> Sessions \cup {None}], e \in SUBSET Ids :
          [agent EXCEPT !.sessions = f, !.ephemeral = e] \in AgentType
    BY <1>1 DEF AgentType
  <2>4. agent.ephemeral \cup ({r} \cap Ephemeral) \in SUBSET Ids
    BY <1>1, Distinct DEF AgentType
  <2>5. ASSUME Install(r) PROVE agent' \in AgentType
    BY <2>2, <2>3, <2>4, <2>5 DEF Install
  <2>6. agent' \in AgentType
    BY <1>1, <1>11, <2>5 DEF InstallOrRefuse
  <2> QED BY <1>1, <1>2, <1>11, <2>1, <2>6 DEF InstallOrRefuse, Install
<1>12. ASSUME NEW r \in Sessions, ReleaseSlot(r) PROVE TypeOK'
  <2>1. requests' \in [Requests -> RequestType]
    BY <1>1, <1>12, Distinct, GoType DEF ReleaseSlot, RequestPoints
  <2>2. agent' \in AgentType
    BY <1>1, <1>12, Distinct DEF ReleaseSlot, AgentType
  <2> QED BY <1>1, <1>2, <1>12, <2>1, <2>2 DEF ReleaseSlot
<1>13. ASSUME NEW r \in Sessions, Commit(r) PROVE TypeOK'
  <2>1. requests' \in [Requests -> RequestType]
    BY <1>1, <1>13, Distinct, GoType DEF Commit, RequestPoints
  <2>2. \A b \in BOOLEAN : [sessions[r] EXCEPT !.persisted = b] \in SessionType
    BY <1>1 DEF SessionType
  <2>3. sessions' \in [Sessions -> SessionType]
    BY <1>1, <1>13, <2>2 DEF Commit
  <2>4. store' \in [Ids -> {"absent", "stored", "tombstone"}]
    BY <1>1, <1>13 DEF Commit
  <2> QED BY <1>1, <1>2, <1>13, <2>1, <2>3, <2>4 DEF Commit
<1>14. ASSUME NEW r \in Sessions, Open(r) PROVE TypeOK'
  <2>1. requests' \in [Requests -> RequestType]
    BY <1>1, <1>14, Distinct, GoType DEF Open, RequestPoints
  <2>2. sessions' \in [Sessions -> SessionType]
    BY <1>1, <1>14, Distinct DEF Open, SessionType
  <2> QED BY <1>1, <1>2, <1>14, <2>1, <2>2 DEF Open
<1>15. ASSUME NEW r \in Sessions, Release(r) PROVE TypeOK'
  <2>1. requests' \in [Requests -> RequestType]
    BY <1>1, <1>15, Distinct, GoType DEF Release, RequestPoints
  <2>2. agent' \in AgentType
    BY <1>1, <1>15, ReturnedType DEF Release
  <2>3. PICK held \in Sessions : sessions' = [sessions EXCEPT ![held].gate = "free"]
    BY <1>1, <1>15, Distinct DEF Release, Found, RequestType
  <2>4. sessions' \in [Sessions -> SessionType]
    BY <1>1, <2>3 DEF SessionType
  <2> QED BY <1>1, <1>2, <1>15, <2>1, <2>2, <2>4 DEF Release
<1>16. ASSUME NEW r \in Sessions, Abandon(r) PROVE TypeOK'
  <2>1. requests' \in [Requests -> RequestType]
    BY <1>1, <1>16, Distinct, FoundType DEF Abandon, RequestPoints
  <2>2. sessions' \in [Sessions -> SessionType]
    BY <1>1, <1>16, Distinct DEF Abandon, SessionType
  <2> QED BY <1>1, <1>2, <1>16, <2>1, <2>2 DEF Abandon
<1>17. ASSUME NEW r \in Sessions, Abandoned(r) PROVE TypeOK'
  <2>1. requests' \in [Requests -> RequestType]
    BY <1>1, <1>17, Distinct, RefuseType DEF Abandoned
  <2>2. agent' \in AgentType
    BY <1>1, <1>17, Distinct, RefuseType DEF Abandoned
  <2> QED BY <1>1, <1>2, <1>17, <2>1, <2>2 DEF Abandoned
<1>18. ASSUME NEW r \in Restores, RestoreAwait(r) PROVE TypeOK'
  BY <1>1, <1>2, <1>18, Distinct, GoType DEF RestoreAwait, RequestPoints
<1>19. ASSUME NEW r \in Restores, Acquire(r) PROVE TypeOK'
  <2>1. requests' \in [Requests -> RequestType]
    BY <1>1, <1>19, Distinct, GoType DEF Acquire, RequestPoints
  <2>2. IdOf(r) \in Ids
    BY <1>1, <1>19, Distinct DEF Acquire, At
  <2>3. agent' \in AgentType
    BY <1>1, <1>19, <2>2 DEF Acquire, AgentType
  <2> QED BY <1>1, <1>2, <1>19, <2>1, <2>3 DEF Acquire
<1>20. ASSUME NEW r \in Restores, Sample(r) PROVE TypeOK'
  <2>1. agent' \in AgentType
    BY <1>1, <1>20, Distinct, RefuseType DEF Sample
  <2>2. agent.sessions[IdOf(r)] \in Sessions \cup {None}
    BY <1>1, <1>20, Distinct DEF Sample, At, AgentType
  <2>3. ASSUME IdOf(r) \in agent.deleted
        PROVE  requests' \in [Requests -> RequestType]
    BY <1>20, <2>3, RefuseType, Distinct DEF Sample
  <2>4. ASSUME IdOf(r) \notin agent.deleted
        PROVE  requests' \in [Requests -> RequestType]
    BY <1>20, <2>2, <2>4, FoundType, Distinct DEF Sample, RequestPoints
  <2>5. requests' \in [Requests -> RequestType]
    BY <2>3, <2>4
  <2> QED BY <1>1, <1>2, <1>20, <2>1, <2>5 DEF Sample
<1>21. ASSUME NEW r \in Restores, RestoreGate(r) PROVE TypeOK'
  <2>1. requests' \in [Requests -> RequestType]
    BY <1>1, <1>21, Distinct, GoType, RefuseType DEF RestoreGate, RequestPoints
  <2>2. agent' \in AgentType
    BY <1>1, <1>21, Distinct, RefuseType DEF RestoreGate
  <2>3. sessions' \in [Sessions -> SessionType]
    BY <1>1, <1>21, Distinct DEF RestoreGate, SessionType
  <2> QED BY <1>1, <1>2, <1>21, <2>1, <2>2, <2>3 DEF RestoreGate
<1>22. ASSUME NEW r \in Restores, RestoreActive(r) PROVE TypeOK'
  <2>1. requests' \in [Requests -> RequestType]
    BY <1>1, <1>22, Distinct, GoType, RefuseType
    DEF RestoreActive, RequestPoints
  <2>2. agent' \in AgentType
    BY <1>1, <1>22, Distinct, RefuseType DEF RestoreActive
  <2>3. sessions' \in [Sessions -> SessionType]
    BY <1>1, <1>22, Distinct DEF RestoreActive, SessionType
  <2> QED BY <1>1, <1>2, <1>22, <2>1, <2>2, <2>3 DEF RestoreActive
<1>23. ASSUME NEW r \in Restores, Load(r) PROVE TypeOK'
  <2>1. requests' \in [Requests -> RequestType]
    BY <1>1, <1>23, Distinct, GoType, RefuseType DEF Load, RequestPoints
  <2>2. agent' \in AgentType
    BY <1>1, <1>23, Distinct, RefuseType DEF Load
  <2> QED BY <1>1, <1>2, <1>23, <2>1, <2>2 DEF Load
<1>24. ASSUME NEW c \in Closes, CloseAwait(c) PROVE TypeOK'
  BY <1>1, <1>2, <1>24, Distinct, GoType DEF CloseAwait, RequestPoints
<1>25. ASSUME NEW d \in Deletes, DeleteAwait(d) PROVE TypeOK'
  BY <1>1, <1>2, <1>25, Distinct, GoType DEF DeleteAwait, RequestPoints
<1>26. ASSUME NEW d \in Deletes, DeleteLookup(d) PROVE TypeOK'
  BY <1>1, <1>2, <1>26, Distinct, GoType DEF DeleteLookup, RequestPoints
<1>27. ASSUME NEW d \in Deletes, Tombstone(d) PROVE TypeOK'
  <2>1. requests' \in [Requests -> RequestType]
    BY <1>1, <1>27, Distinct, GoType DEF Tombstone, RequestPoints
  <2>2. store' \in [Ids -> {"absent", "stored", "tombstone"}]
    BY <1>1, <1>27, Distinct DEF Tombstone
  <2> QED BY <1>1, <1>2, <1>27, <2>1, <2>2 DEF Tombstone
<1>28. ASSUME NEW d \in Deletes, Mark(d) PROVE TypeOK'
  <2>1. IdOf(d) \in Ids /\ agent.sessions[IdOf(d)] \in Sessions \cup {None}
    BY <1>1, <1>28, Distinct DEF Mark, At, AgentType
  <2>2. requests' \in [Requests -> RequestType]
    <3>1. CASE agent.sessions[IdOf(d)] = None
      <4>1. requests' = [requests EXCEPT ![d].pc = "answered",
                                         ![d].found = None]
        BY <1>28, <3>1 DEF Mark
      <4> QED BY <2>1, <4>1, FoundType, Distinct DEF RequestPoints
    <3>2. CASE agent.sessions[IdOf(d)] # None
      <4>1. requests' = [requests EXCEPT ![d].pc = "close",
                                         ![d].found = agent.sessions[IdOf(d)]]
        BY <1>28, <3>2 DEF Mark
      <4> QED BY <2>1, <4>1, FoundType, Distinct DEF RequestPoints
    <3> QED BY <3>1, <3>2
  <2>3. agent' \in AgentType
    BY <1>1, <1>28, <2>1 DEF Mark, AgentType
  <2> QED BY <1>1, <1>2, <1>28, <2>2, <2>3 DEF Mark
<1>29. ASSUME ShutdownNext PROVE TypeOK'
  <2>1. ASSUME NEW s \in shutdown,
               requests' = [requests EXCEPT ![Shutdown].pc = "close",
                                            ![Shutdown].found = s]
        PROVE  requests' \in [Requests -> RequestType]
    BY <1>1, <2>1, FoundType, Distinct DEF RequestPoints
  <2>2. ASSUME Go(Shutdown, "answered")
        PROVE  requests' \in [Requests -> RequestType]
    BY <2>2, Distinct, GoType DEF RequestPoints
  <2>3. requests' \in [Requests -> RequestType]
    BY <1>29, <2>1, <2>2 DEF ShutdownNext
  <2> QED BY <1>1, <1>2, <1>29, <2>3 DEF ShutdownNext
<1>30. ASSUME NEW r \in Requests, CallClose(r) PROVE TypeOK'
  <2>1. requests' \in [Requests -> RequestType]
    BY <1>1, <1>30, GoType DEF CallClose, RequestPoints
  <2>2. sessions' \in [Sessions -> SessionType]
    BY <1>1, <1>30, BegunType DEF CallClose
  <2> QED BY <1>1, <1>2, <1>30, <2>1, <2>2 DEF CallClose
<1>31. ASSUME NEW r \in Requests, CloseReturns(r) PROVE TypeOK'
  <2>1. AfterClose(r) \in RequestPoints
    BY DEF AfterClose, RequestPoints
  <2>2. requests' \in [Requests -> RequestType]
    BY <1>31, <2>1, FoundType DEF CloseReturns
  <2>3. agent' \in AgentType
    BY <1>31, DetachedType DEF CloseReturns
  <2> QED BY <1>1, <1>2, <1>31, <2>2, <2>3 DEF CloseReturns
<1>32. ASSUME NEW s \in Sessions, HookStart(s) PROVE TypeOK'
  <2>1. sessions' \in [Sessions -> SessionType]
    BY <1>1, <1>32, Distinct DEF HookStart, SessionType
  <2> QED BY <1>1, <1>2, <1>32, <2>1 DEF HookStart
<1>33. ASSUME NEW s \in Sessions, HookOpen(s) PROVE TypeOK'
  <2>1. sessions' \in [Sessions -> SessionType]
    BY <1>1, <1>33, Distinct DEF HookOpen, SessionType
  <2> QED BY <1>1, <1>2, <1>33, <2>1 DEF HookOpen
<1>34. ASSUME NEW s \in Sessions, HookClose(s) PROVE TypeOK'
  <2>1. [Begun(s) EXCEPT !.hook = "closed"] \in SessionType
    BY BegunType DEF SessionType
  <2>2. sessions' \in [Sessions -> SessionType]
    BY <1>1, <1>34, <2>1 DEF HookClose
  <2> QED BY <1>1, <1>2, <1>34, <2>2 DEF HookClose
<1>35. ASSUME NEW s \in Sessions, HookDetach(s) PROVE TypeOK'
  <2>1. sessions' \in [Sessions -> SessionType]
    BY <1>1, <1>35, Distinct DEF HookDetach, SessionType
  <2>2. agent' \in AgentType
    BY <1>1, <1>35, Distinct, DetachedType DEF HookDetach
  <2> QED BY <1>1, <1>2, <1>35, <2>1, <2>2 DEF HookDetach
<1>36. ASSUME NEW s \in Sessions, UserTakes(s) PROVE TypeOK'
  <2>1. sessions' \in [Sessions -> SessionType]
    BY <1>1, <1>36, Distinct DEF UserTakes, SessionType
  <2> QED BY <1>1, <1>2, <1>36, <2>1 DEF UserTakes
<1>37. ASSUME NEW s \in Sessions, UserStarts(s) PROVE TypeOK'
  <2>1. sessions' \in [Sessions -> SessionType]
    BY <1>1, <1>37, Distinct DEF UserStarts, SessionType
  <2> QED BY <1>1, <1>2, <1>37, <2>1 DEF UserStarts
<1>38. ASSUME NEW s \in Sessions, UserReturns(s) PROVE TypeOK'
  <2>1. sessions' \in [Sessions -> SessionType]
    BY <1>1, <1>38, Distinct DEF UserReturns, SessionType
  <2> QED BY <1>1, <1>2, <1>38, <2>1 DEF UserReturns
<1>39. ASSUME NEW s \in Sessions, UserBinds(s) PROVE TypeOK'
  <2>1. sessions' \in [Sessions -> SessionType]
    BY <1>1, <1>39, Distinct DEF UserBinds, SessionType
  <2> QED BY <1>1, <1>2, <1>39, <2>1 DEF UserBinds
<1>40. ASSUME NEW s \in Sessions, LadderStop(s) PROVE TypeOK'
  <2>1. sessions' \in [Sessions -> SessionType]
    BY <1>1, <1>40, Distinct DEF LadderStop, SessionType, Owed
  <2> QED BY <1>1, <1>2, <1>40, <2>1 DEF LadderStop
<1>41. ASSUME NEW s \in Sessions, LadderJoin(s) PROVE TypeOK'
  <2>1. sessions' \in [Sessions -> SessionType]
    BY <1>1, <1>41, Distinct DEF LadderJoin, SessionType
  <2> QED BY <1>1, <1>2, <1>41, <2>1 DEF LadderJoin
<1>42. ASSUME NEW s \in Sessions, LadderCommit(s) PROVE TypeOK'
  <2> DEFINE Gates == {"free", "request", "user", "launching", "using", "hook",
                       "ladder"}
  <2>1. ASSUME NEW failed \in BOOLEAN PROVE Finished(s, failed) \in SessionType
    <3>1. sessions[s] \in SessionType
      BY <1>1
    <3>2. \A g \in Gates :
            [sessions[s] EXCEPT !.ladder = "closed", !.failed = failed, !.gate = g]
              \in SessionType
      BY <3>1 DEF SessionType
    <3>3. (IF sessions[s].gate = "ladder" THEN "free" ELSE sessions[s].gate) \in Gates
      BY <1>1 DEF SessionType
    <3> HIDE DEF Gates
    <3> QED BY <3>2, <3>3 DEF Finished
  <2>2. {FALSE, sessions[s].persisted} \subseteq BOOLEAN
    BY <1>1 DEF SessionType
  <2>3. sessions' \in [Sessions -> SessionType]
    BY <1>1, <1>42, <2>1, <2>2 DEF LadderCommit
  <2> QED BY <1>1, <1>2, <1>42, <2>3 DEF LadderCommit
<1>45. ASSUME NEW s \in Sessions, UserReaps(s) PROVE TypeOK'
  <2>1. sessions' \in [Sessions -> SessionType]
    BY <1>1, <1>45, Distinct DEF UserReaps, SessionType
  <2> QED BY <1>1, <1>2, <1>45, <2>1 DEF UserReaps
<1>46. ASSUME NEW s \in Sessions, Unbinds(s) PROVE TypeOK'
  <2>1. sessions' \in [Sessions -> SessionType]
    BY <1>1, <1>46, Distinct DEF Unbinds, SessionType
  <2> QED BY <1>1, <1>2, <1>46, <2>1 DEF Unbinds
<1>47. ASSUME NEW s \in Sessions, Reaped(s) PROVE TypeOK'
  <2>1. sessions' \in [Sessions -> SessionType]
    BY <1>1, <1>47, Distinct DEF Reaped, SessionType
  <2> QED BY <1>1, <1>2, <1>47, <2>1 DEF Reaped
<1>43. ASSUME NEW l \in Lists, ListBegin(l) \/ ListStep(l) PROVE TypeOK'
  <2>1. lists' \in [Lists -> ListType]
    BY <1>1, <1>43 DEF ListType, AgentType, ListBegin, ListStep, ListSnapshot,
                       ListStore, ListLoad, Listable, Resident
  <2> QED
    BY <1>1, <1>2, <1>43, <2>1
    DEF ListBegin, ListStep, ListSnapshot, ListStore, ListLoad
<1>44. CASE UNCHANGED vars
  BY <1>44 DEF vars, TypeOK
<1> QED
  BY <1>3, <1>4, <1>5, <1>6, <1>7, <1>8, <1>9, <1>10, <1>11, <1>12, <1>13,
     <1>14, <1>15, <1>16, <1>17, <1>18, <1>19, <1>20, <1>21, <1>22, <1>23,
     <1>24, <1>25, <1>26, <1>27, <1>28, <1>29, <1>30, <1>31, <1>32, <1>33,
     <1>34, <1>35, <1>36, <1>37, <1>38, <1>39, <1>40, <1>41, <1>42, <1>43,
     <1>44, <1>45, <1>46, <1>47
  DEF Next, RequestStep, EstablishStep, RestoreStep, DeleteStep, HookStep,
      LadderStep, UserStep, PumpStep

(* The session map and the locks start in their types.                     *)
LEMMA TypeInit == Init => TypeOK
  BY Distinct DEF Init, TypeOK, SessionType, ListType, RequestPoints

-----------------------------------------------------------------------------
(* The invariant.                                                          *)

(* An id names one request's session, and a restore names a session/new    *)
(* only once its session was installed.                                    *)
NamesInv ==
  /\ Named
  /\ \A n \in News : IdOf(n) = n
  /\ \A r \in Restores : IdOf(r) \in News => IdOf(r) \in installed

Ladders == {"close", "closed"}

(* A request that waits for the ladder of s, or is about to begin it.      *)
Closing(r, s) == requests[r].pc \in Ladders /\ Found(r) = s

(* Where an establishing request can be once its session is installed.     *)
InstalledInv ==
  \A s \in installed :
    \/ requests[s].pc \in {"slot", "commit", "open", "release", "abandon",
                           "refuse", "answered", "refused"}
    \/ Closing(s, s)

(* Only an installed session commits, opens, or is relaunched by a user.   *)
OwnedInv ==
  \A s \in Sessions :
    \/ requests[s].pc \in {"slot", "commit", "open"}
    \/ sessions[s].hook # "none"
    \/ sessions[s].gate \in {"user", "launching"}
    => s \in installed

(* The map holds installed sessions, under the ids they have.              *)
MapInv ==
  \A i \in Ids : agent.sessions[i] # None =>
    agent.sessions[i] \in installed /\ IdOf(agent.sessions[i]) = i

(* What a request found, other than its own session, was in the map.       *)
FoundInv ==
  /\ \A r \in Requests :
       /\ Found(r) # None => Found(r) = r \/ Found(r) \in installed
       /\ requests[r].pc \in {"gate", "active"} \cup Ladders => Found(r) # None
  /\ \A c \in Closes : At(c, "await") => Found(c) # None
  /\ shutdown \subseteq installed

(* Where a restore does not hold the entry of its id in agent.restores.    *)
Unlocked ==
  {"idle", "await", "acquire", "answered", "refused",
   "lookup", "tombstone", "mark", "next"}

Locks(r) == requests[r].pc \notin Unlocked

LockInv ==
  /\ \A r \in Restores : Locks(r) => IdOf(r) \in agent.restores
  /\ \A q, r \in Restores : Locks(q) /\ Locks(r) /\ IdOf(q) = IdOf(r) => q = r

(* A restore that builds a session of its own found the id's entry empty,  *)
(* and nothing fills it in the meantime.                                   *)
Building(r) ==
  \/ requests[r].pc \in {"load", "reserve", "launch", "configure", "install", "abandon"}
  \/ Closing(r, r)

FreshInv ==
  \A r \in Restores \ installed :
    Building(r) => agent.sessions[IdOf(r)] = None

(* A restore that holds on to the live session it found: the id's entry is *)
(* that session or empty.                                                  *)
Reusing(r) ==
  \/ requests[r].pc \in {"gate", "active"}
  \/ requests[r].pc \in Ladders /\ Found(r) # r

ReuseInv ==
  \A r \in Restores : Reusing(r) =>
    /\ Found(r) \in Sessions \ {r}
    /\ IdOf(Found(r)) = IdOf(r)
    /\ agent.sessions[IdOf(r)] \in {Found(r), None}

(* Behind the first rung of a ladder nothing is bound: a close that began  *)
(* with nothing bound skips that rung, and launch binds nothing any more.  *)
(* Only a failed establishment begins the ladder of a session that never   *)
(* was in the map.                                                         *)
LadderInv ==
  /\ \A s \in Sessions :
       sessions[s].runtime = "bound" =>
         /\ sessions[s].ladder \in {"open", "stop"}
         /\ sessions[s].gate # "launching"
  /\ \A s \in Sessions \ installed :
       sessions[s].ladder # "open" =>
         requests[s].pc \in {"refuse", "refused"} \/ (At(s, "closed") /\ Found(s) = s)

(* A process outside the map is in the hands of the request that started   *)
(* it, until its ladder has ended.                                         *)
LaunchedInv ==
  \A s \in Attached \ installed :
    requests[s].pc \in {"configure", "install", "abandon"} \/ Closing(s, s)

(* A delete marks its id before it looks for the session to close.         *)
DeleteInv ==
  \A d \in Deletes :
    /\ requests[d].pc \in Ladders \cup {"answered"} => IdOf(d) \in agent.deleted
    /\ requests[d].pc \in Ladders =>
         /\ Found(d) \in Sessions /\ IdOf(Found(d)) = IdOf(d)
         /\ agent.sessions[IdOf(d)] \in {Found(d), None}

IInv ==
  /\ TypeOK /\ NamesInv /\ InstalledInv /\ OwnedInv /\ MapInv /\ FoundInv
  /\ LockInv /\ FreshInv /\ ReuseInv /\ LadderInv /\ LaunchedInv
  /\ DeleteInv /\ ResidentUntilClosed /\ DeletedStaysGone

-----------------------------------------------------------------------------
(* The kinds of steps.  Most actions move one request, keep the map and at *)
(* most let a process or a gate go; what such a step keeps is shown here,  *)
(* once for each kind.                                                     *)

Moved(r, p) ==
  /\ \A q \in Requests \ {r} : requests'[q] = requests[q]
  /\ requests'[r].pc = p /\ requests'[r].id = requests[r].id
  /\ requests'[r].found = requests[r].found

SessionsKept ==
  \A s \in Sessions :
    /\ sessions'[s].ladder = sessions[s].ladder
    /\ sessions'[s].runtime \in {sessions[s].runtime, "none"}
    /\ sessions'[s].gate \in {"user", "launching"} => sessions'[s].gate = sessions[s].gate
    /\ sessions'[s].hook # "none" => sessions[s].hook # "none" \/ s \in installed

MapKept == agent'.sessions = agent.sessions /\ agent'.deleted = agent.deleted

LEMMA GoMoves ==
  ASSUME TypeOK, NEW r \in Requests, NEW p, Go(r, p)
  PROVE  Moved(r, p)
  BY DEF TypeOK, Go, Moved

(* One point of an establishment or a restore to the next.                 *)
Advances(r, q, p) ==
  \/ q = "idle" /\ p = "reserve" /\ r \in News
  \/ q = "await" /\ p = "acquire"
  \/ q = "acquire" /\ p = "refused"
  \/ q = "gate" /\ p \in {"active", "close"}
  \/ q = "active" /\ p = "release"
  \/ q = "load" /\ p = "reserve"
  \/ q = "reserve" /\ p = "launch"
  \/ q = "configure" /\ p = "install"
  \/ q = "install" /\ p = "abandon"
  \/ q = "slot" /\ p = "commit"
  \/ q = "commit" /\ p \in {"open", "abandon"}
  \/ q = "open" /\ p \in {"release", "abandon"}

(* A request that advances keeps the invariant.                            *)
LEMMA MoveKeeps ==
  ASSUME IInv, TypeOK', NEW r \in Sessions, NEW p, Moved(r, p),
         Advances(r, requests[r].pc, p), SessionsKept, MapKept,
         agent'.restores = agent.restores, UNCHANGED <<shutdown, installed>>
  PROVE  IInv'
<1>1. /\ \A q \in Requests : /\ requests'[q].id = requests[q].id
                               /\ requests'[q].found = requests[q].found
      /\ \A q \in Requests : q # r => requests'[q].pc = requests[q].pc
      /\ requests'[r].pc = p
  BY Distinct DEF Moved
<1>2. NamesInv'
  <2>1. Named'
    BY <1>1, Distinct DEF IInv, NamesInv, Named, At, IdOf, Advances
  <2>2. /\ \A n \in News : IdOf(n)' = n
        /\ \A q \in Restores : IdOf(q)' \in News => IdOf(q)' \in installed'
    BY <1>1, Distinct DEF IInv, NamesInv, IdOf
  <2> QED BY <2>1, <2>2 DEF NamesInv
<1>3. InstalledInv'
  <2>1. r \in installed =>
          requests[r].pc \in {"slot", "commit", "open", "abandon", "release"}
    BY DEF IInv, InstalledInv, Closing, Ladders, Advances
  <2>2. r \in installed => p \in {"commit", "open", "abandon", "release"}
    BY <2>1 DEF Advances
  <2> QED
    BY <1>1, <2>2, Distinct
    DEF IInv, TypeOK, InstalledInv, Closing, Ladders, Found
<1>4. OwnedInv'
  BY <1>1, Distinct DEF IInv, TypeOK, OwnedInv, InstalledInv, Closing, Ladders,
         Advances, SessionsKept, MapKept
<1>5. MapInv'
  BY <1>1, Distinct DEF IInv, TypeOK, MapInv, InstalledInv, Closing, Ladders,
         IdOf, Advances, SessionsKept, MapKept
<1>6. FoundInv'
  BY Distinct DEF IInv, FoundInv, Ladders, Found, At, Moved, Advances
<1>7. LockInv'
  <2>1. \A q \in Restores : Locks(q)' => Locks(q)
    BY <1>1, Distinct DEF Locks, Unlocked, Advances
  <2>2. \A q \in Restores : IdOf(q)' = IdOf(q)
    BY <1>1, Distinct DEF IdOf
  <2> QED BY <2>1, <2>2 DEF IInv, LockInv
<1>8. FreshInv'
  BY <1>1, Distinct DEF IInv, FreshInv, Building, Closing, Ladders, IdOf,
      Found, ReuseInv, Reusing, OwnedInv, Advances, SessionsKept, MapKept
<1>9. ReuseInv'
  <2>1. \A q \in Restores : Reusing(q)' => Reusing(q)
    BY <1>1, Distinct DEF IInv, ReuseInv, Reusing, Ladders, Found, Advances
  <2>2. \A q \in Restores : Reusing(q) =>
          Found(q)' = Found(q) /\ Found(q) \in Requests
    BY <1>1, Distinct DEF IInv, TypeOK, Reusing, FoundInv, Found
  <2>3. \A q \in Requests : IdOf(q)' = IdOf(q)
    BY <1>1 DEF IdOf
  <2>4. \A q \in Restores : Reusing(q) => IdOf(Found(q))' = IdOf(Found(q))
    BY <1>1, <2>2 DEF IdOf, Found
  <2> QED BY <2>1, <2>2, <2>3, <2>4, Distinct DEF IInv, ReuseInv, MapKept
<1>10. LadderInv'
  <2>1. \A s \in Sessions : sessions'[s].runtime = "bound" =>
          /\ sessions'[s].ladder \in {"open", "stop"}
          /\ sessions'[s].gate # "launching"
    BY DEF IInv, LadderInv, SessionsKept
  <2>2. ASSUME NEW s \in Sessions \ installed', sessions'[s].ladder # "open"
        PROVE  requests'[s].pc \in {"refuse", "refused"}
               \/ (At(s, "closed") /\ Found(s) = s)'
    <3>1. requests[s].pc \in {"refuse", "refused"} \/ (At(s, "closed") /\ Found(s) = s)
      BY <2>2 DEF IInv, LadderInv, SessionsKept
    <3> QED
      BY <1>1, <2>2, <3>1, Distinct
      DEF IInv, OwnedInv, At, Found, Advances
  <2> QED BY <2>1, <2>2 DEF LadderInv
<1>11. LaunchedInv'
  BY <1>1, Distinct DEF IInv, TypeOK, LaunchedInv, Attached, Ended, OwnedInv,
         InstalledInv, Closing, Ladders, Found, Advances, SessionsKept, MapKept
<1>12. DeleteInv'
  <2>1. \A d \in Deletes : requests'[d].pc = requests[d].pc
    BY <1>1, Distinct
  <2>2. \A d \in Deletes : requests[d].pc \in Ladders =>
          Found(d)' = Found(d) /\ Found(d) \in Requests
    BY <1>1, Distinct DEF IInv, TypeOK, FoundInv, Found
  <2>3. \A q \in Requests : IdOf(q)' = IdOf(q)
    BY <1>1 DEF IdOf
  <2>4. \A d \in Deletes : requests[d].pc \in Ladders => IdOf(Found(d))' = IdOf(Found(d))
    BY <1>1, <2>2 DEF IdOf, Found
  <2> QED BY <2>1, <2>2, <2>3, <2>4, Distinct DEF IInv, DeleteInv, MapKept
<1>13. ResidentUntilClosed'
  BY <1>1, Distinct DEF IInv, TypeOK, ResidentUntilClosed, Ended, IdOf,
         Advances, SessionsKept, MapKept
<1>14. DeletedStaysGone'
  BY <1>1, Distinct DEF IInv, DeletedStaysGone, At, IdOf, MapKept
<1> QED
  BY <1>2, <1>3, <1>4, <1>5, <1>6, <1>7, <1>8, <1>9, <1>10, <1>11, <1>12,
     <1>13, <1>14
  DEF IInv

(* So does one that answers or refuses and gives its id back.              *)
LEMMA ReturnKeeps ==
  ASSUME IInv, TypeOK', NEW r \in Sessions, NEW p \in {"answered", "refused"},
         Moved(r, p), SessionsKept, MapKept,
         agent'.restores = Returned(r).restores,
         requests[r].pc \in {"sample", "gate", "active", "load", "reserve", "launch",
                            "configure", "release", "refuse"},
         p = "answered" => requests[r].pc = "release",
         requests[r].pc = "configure" => sessions'[r].runtime = "none",
         UNCHANGED <<shutdown, installed>>
  PROVE  IInv'
<1>1. /\ \A q \in Requests : /\ requests'[q].id = requests[q].id
                               /\ requests'[q].found = requests[q].found
      /\ \A q \in Requests : q # r => requests'[q].pc = requests[q].pc
      /\ requests'[r].pc = p
  BY Distinct DEF Moved
<1>2. agent'.restores = IF r \in Restores THEN agent.restores \ {IdOf(r)}
                                           ELSE agent.restores
  BY DEF IInv, TypeOK, Returned
<1>3. NamesInv'
  <2>1. Named'
    BY <1>1, Distinct DEF IInv, NamesInv, Named, At, IdOf
  <2>2. /\ \A n \in News : IdOf(n)' = n
        /\ \A q \in Restores : IdOf(q)' \in News => IdOf(q)' \in installed'
    BY <1>1, Distinct DEF IInv, NamesInv, IdOf
  <2> QED BY <2>1, <2>2 DEF NamesInv
<1>4. InstalledInv'
  BY <1>1, <1>2, Distinct DEF IInv, TypeOK, InstalledInv, Closing, Ladders,
         OwnedInv, Found, SessionsKept, MapKept
<1>5. OwnedInv'
  BY <1>1, <1>2, Distinct DEF IInv, OwnedInv, InstalledInv, Closing, Ladders,
      SessionsKept, MapKept
<1>6. MapInv'
  BY <1>1, <1>2, Distinct DEF IInv, TypeOK, MapInv, InstalledInv, Closing,
         Ladders, IdOf, SessionsKept, MapKept
<1>7. FoundInv'
  BY <1>1, <1>2, Distinct DEF IInv, FoundInv, Ladders, MapInv, Found, At,
      SessionsKept, MapKept
<1>8. LockInv'
  <2>1. \A q \in Restores : Locks(q)' => Locks(q) /\ (q = r => FALSE)
    BY <1>1, Distinct DEF Locks, Unlocked
  <2>2. \A q \in Restores : IdOf(q)' = IdOf(q)
    BY <1>1, Distinct DEF IdOf
  <2>3. \A q \in Restores : Locks(q)' => IdOf(q) \in agent'.restores
    BY <1>2, <2>1, <2>2, Distinct DEF IInv, LockInv, Locks, Unlocked
  <2> QED BY <2>1, <2>2, <2>3 DEF IInv, LockInv
<1>9. FreshInv'
  BY <1>1, <1>2, Distinct DEF IInv, FreshInv, Building, Closing, Ladders, IdOf,
      Found, ReuseInv, Reusing, OwnedInv, SessionsKept, MapKept
<1>10. ReuseInv'
  <2>1. \A q \in Restores : Reusing(q)' => Reusing(q)
    BY <1>1, Distinct DEF IInv, ReuseInv, Reusing, Ladders, Found
  <2>2. \A q \in Restores : Reusing(q) =>
          Found(q)' = Found(q) /\ Found(q) \in Requests
    BY <1>1, Distinct DEF IInv, TypeOK, Reusing, FoundInv, Found
  <2>3. \A q \in Requests : IdOf(q)' = IdOf(q)
    BY <1>1 DEF IdOf
  <2>4. \A q \in Restores : Reusing(q) => IdOf(Found(q))' = IdOf(Found(q))
    BY <1>1, <2>2 DEF IdOf, Found
  <2> QED BY <2>1, <2>2, <2>3, <2>4, Distinct DEF IInv, ReuseInv, MapKept
<1>11. LadderInv'
  <2>1. \A s \in Sessions : sessions'[s].runtime = "bound" =>
          /\ sessions'[s].ladder \in {"open", "stop"}
          /\ sessions'[s].gate # "launching"
    BY DEF IInv, LadderInv, SessionsKept
  <2>2. ASSUME NEW s \in Sessions \ installed', sessions'[s].ladder # "open"
        PROVE  requests'[s].pc \in {"refuse", "refused"}
               \/ (At(s, "closed") /\ Found(s) = s)'
    <3>1. requests[s].pc \in {"refuse", "refused"} \/ (At(s, "closed") /\ Found(s) = s)
      BY <2>2 DEF IInv, LadderInv, SessionsKept
    <3> QED BY <1>1, <2>2, <3>1, Distinct DEF IInv, OwnedInv, At, Found
  <2> QED BY <2>1, <2>2 DEF LadderInv
<1>12. LaunchedInv'
  <2>1. Attached' \subseteq Attached
    BY DEF Attached, Ended, SessionsKept
  <2>2. requests[r].pc = "configure" => r \notin Attached'
    BY DEF Attached
  <2>3. \A s \in Attached' \ installed' : s # r
    BY <2>1, <2>2 DEF IInv, LaunchedInv, Closing, Ladders
  <2>4. \A s \in Attached' \ installed' :
          requests[s].pc \in {"configure", "install", "abandon"} \/ Closing(s, s)
    BY <2>1 DEF IInv, LaunchedInv
  <2>5. Attached' \subseteq Requests
    BY Distinct DEF Attached
  <2> QED BY <1>1, <2>3, <2>4, <2>5 DEF LaunchedInv, Closing, Found
<1>13. DeleteInv'
  <2>1. \A d \in Deletes : requests'[d].pc = requests[d].pc
    BY <1>1, Distinct
  <2>2. \A d \in Deletes : requests[d].pc \in Ladders =>
          Found(d)' = Found(d) /\ Found(d) \in Requests
    BY <1>1, Distinct DEF IInv, TypeOK, FoundInv, Found
  <2>3. \A q \in Requests : IdOf(q)' = IdOf(q)
    BY <1>1 DEF IdOf
  <2>4. \A d \in Deletes : requests[d].pc \in Ladders => IdOf(Found(d))' = IdOf(Found(d))
    BY <1>1, <2>2 DEF IdOf, Found
  <2> QED BY <2>1, <2>2, <2>3, <2>4, Distinct DEF IInv, DeleteInv, MapKept
<1>14. ResidentUntilClosed'
  BY <1>1, <1>2, Distinct DEF IInv, TypeOK, ResidentUntilClosed, Ended, IdOf,
         SessionsKept, MapKept
<1>15. DeletedStaysGone'
  BY <1>1, Distinct DEF IInv, DeletedStaysGone, At, IdOf, MapKept
<1> QED
  BY <1>3, <1>4, <1>5, <1>6, <1>7, <1>8, <1>9, <1>10, <1>11, <1>12, <1>13,
     <1>14, <1>15
  DEF IInv

(* A step of a close, a delete or Agent.Close disturbs only what concerns  *)
(* what it found and what was deleted.                                     *)
LEMMA OtherKeeps ==
  ASSUME IInv, TypeOK', NEW r \in Closes \cup Deletes \cup {Shutdown},
         \A q \in Requests \ {r} : requests'[q] = requests[q],
         r # Shutdown /\ requests'[r].pc # "idle" => requests'[r].id \in Ids,
         agent'.sessions = agent.sessions, agent'.restores = agent.restores,
         UNCHANGED <<sessions, installed>>, FoundInv', DeleteInv', DeletedStaysGone'
  PROVE  IInv'
<1>1. \A q \in Sessions : requests'[q] = requests[q]
  BY Distinct
<1>2. NamesInv'
  <2>1. Named'
    BY Distinct DEF IInv, NamesInv, Named, At, IdOf
  <2>2. /\ \A n \in News : IdOf(n)' = n
        /\ \A q \in Restores : IdOf(q)' \in News => IdOf(q)' \in installed'
    BY Distinct DEF IInv, NamesInv, IdOf
  <2> QED BY <2>1, <2>2 DEF NamesInv
<1>3. InstalledInv'
  BY <1>1, Distinct DEF IInv, TypeOK, InstalledInv, Closing, Ladders, OwnedInv,
         Found
<1>4. OwnedInv'
  BY <1>1, Distinct DEF IInv, TypeOK, OwnedInv, InstalledInv, Closing, Ladders
<1>5. MapInv'
  BY <1>1, Distinct DEF IInv, TypeOK, MapInv, InstalledInv, Closing, Ladders,
         IdOf
<1>6. LockInv'
  BY <1>1, Distinct DEF IInv, LockInv, Locks, IdOf
<1>7. FreshInv'
  BY <1>1, Distinct DEF IInv, TypeOK, FreshInv, Building, Closing, Ladders,
         IdOf, Found, ReuseInv, Reusing, OwnedInv
<1>8. ReuseInv'
  <2>1. \A q \in Restores : Reusing(q) => Found(q) \in Sessions
    BY Distinct DEF IInv, TypeOK, Reusing, FoundInv, Found
  <2>2. \A q \in Restores : Reusing(q)' = Reusing(q) /\ Found(q)' = Found(q)
    BY <1>1, Distinct DEF Reusing, Ladders, Found
  <2> QED BY <1>1, <2>1, <2>2, Distinct DEF IInv, ReuseInv, IdOf
<1>9. LadderInv'
  BY <1>1, Distinct DEF IInv, TypeOK, LadderInv, Attached, Ended, OwnedInv, Closing,
         Ladders, Found, At
<1>10. LaunchedInv'
  BY <1>1, Distinct DEF IInv, TypeOK, LaunchedInv, Attached, Ended, OwnedInv,
         InstalledInv, Closing, Ladders, Found
<1>11. ResidentUntilClosed'
  BY <1>1, Distinct DEF IInv, TypeOK, ResidentUntilClosed, Ended, IdOf
<1> QED
  BY <1>2, <1>3, <1>4, <1>5, <1>6, <1>7, <1>8, <1>9, <1>10, <1>11
  DEF IInv

(* A step of a session disturbs only what concerns its process, its gate   *)
(* and its ladder.                                                         *)
LEMMA SessionKeeps ==
  ASSUME IInv, TypeOK', UNCHANGED <<agent, requests, shutdown, installed>>,
         OwnedInv', LadderInv', LaunchedInv', ResidentUntilClosed'
  PROVE  IInv'
<1>1. NamesInv'
  BY Distinct DEF IInv, TypeOK, NamesInv, Named, At, IdOf
<1>2. InstalledInv'
  BY Distinct DEF IInv, TypeOK, InstalledInv, Closing, Ladders, OwnedInv, Found
<1>3. MapInv'
  BY Distinct DEF IInv, TypeOK, MapInv, InstalledInv, Closing, Ladders, IdOf
<1>4. FoundInv'
  BY Distinct DEF IInv, TypeOK, FoundInv, Ladders, MapInv, Found, At
<1>5. LockInv'
  BY Distinct DEF IInv, TypeOK, LockInv, Locks, Unlocked, IdOf
<1>6. FreshInv'
  BY Distinct DEF IInv, TypeOK, FreshInv, Building, Closing, Ladders, IdOf,
         Found, ReuseInv, Reusing, OwnedInv
<1>7. ReuseInv'
  BY Distinct DEF IInv, TypeOK, ReuseInv, Reusing, Ladders, FoundInv,
         InstalledInv, Closing, IdOf, Found, MapInv
<1>8. DeleteInv'
  BY Distinct DEF IInv, TypeOK, DeleteInv, Ladders, FoundInv, IdOf, Found
<1>9. DeletedStaysGone'
  BY Distinct DEF IInv, TypeOK, DeletedStaysGone, At, IdOf
<1> QED BY <1>1, <1>2, <1>3, <1>4, <1>5, <1>6, <1>7, <1>8, <1>9 DEF IInv

-----------------------------------------------------------------------------
(* The actions, in the order of the actions in AgentRegistry.              *)

(* Refuse is one kind of return, whatever gate or process it leaves behind.*)
LEMMA RefuseKeeps ==
  ASSUME IInv, TypeOK', NEW r \in Sessions, Refuse(r), SessionsKept,
         requests[r].pc \in {"sample", "gate", "active", "load", "reserve", "launch",
                            "configure", "release", "refuse"},
         requests[r].pc = "configure" => sessions'[r].runtime = "none",
         UNCHANGED <<shutdown, installed>>
  PROVE  IInv'
<1>1. Moved(r, "refused")
  BY GoMoves, Distinct DEF IInv, Refuse
<1>2. MapKept /\ agent'.restores = Returned(r).restores
  BY DEF IInv, TypeOK, Refuse, Returned, MapKept
<1> QED BY <1>1, <1>2, ReturnKeeps

(* A session/new request begins.                                           *)
LEMMA NewKeeps ==
  ASSUME IInv, TypeOK', NEW n \in News, New(n)
  PROVE  IInv'
<1>1. Moved(n, "reserve")
  BY GoMoves, Distinct DEF IInv, New
<1>2. SessionsKept /\ MapKept /\ agent'.restores = agent.restores
  BY DEF New, SessionsKept, MapKept, IInv, TypeOK, SessionType
<1> QED BY <1>1, <1>2, MoveKeeps, Distinct DEF New, At, Advances

(* reserveSlot counts the request or refuses it.                           *)
LEMMA ReserveKeeps ==
  ASSUME IInv, TypeOK', NEW r \in Sessions, Reserve(r)
  PROVE  IInv'
<1>1. CASE agent' = [agent EXCEPT !.starting = @ \cup {r}] /\ Go(r, "launch")
  <2>1. Moved(r, "launch")
    BY <1>1, GoMoves, Distinct DEF IInv, Reserve
  <2>2. SessionsKept /\ MapKept /\ agent'.restores = agent.restores
    BY <1>1 DEF Reserve, SessionsKept, MapKept, IInv, TypeOK, SessionType
  <2> QED BY <1>1, <2>1, <2>2, MoveKeeps, Distinct DEF Reserve, At, Advances
<1>2. CASE Refuse(r)
  <2>1. SessionsKept
    BY <1>2 DEF Reserve, SessionsKept, IInv, TypeOK, SessionType, Found
  <2> QED
    BY <1>2, <2>1, RefuseKeeps, Distinct
    DEF Reserve, At, IInv, TypeOK, SessionType
<1> QED BY <1>1, <1>2 DEF Reserve

(* A launch starts a process for a session that is not in the map.         *)
LEMMA LaunchKeeps ==
  ASSUME IInv, TypeOK', NEW r \in Sessions, Launch(r)
  PROVE  IInv'
<1>1. CASE sessions' = [sessions EXCEPT ![r].runtime = "bound"] /\ Go(r, "configure")
          /\ UNCHANGED agent
  <2>1. Moved(r, "configure")
    BY <1>1, GoMoves, Distinct DEF IInv
  <2>2. requests[r].pc = "launch"
    BY DEF Launch, At
  <2>3. /\ \A s \in Sessions : sessions'[s].ladder = sessions[s].ladder
        /\ \A s \in Sessions : sessions'[s].gate = sessions[s].gate
        /\ \A s \in Sessions : sessions'[s].hook = sessions[s].hook
        /\ \A s \in Sessions \ {r} : sessions'[s].runtime = sessions[s].runtime
    BY <1>1 DEF IInv, TypeOK, SessionType
  <2>4. /\ \A q \in Requests : requests'[q].id = requests[q].id
        /\ \A q \in Requests : requests'[q].found = requests[q].found
        /\ \A q \in Requests : q # r => requests'[q].pc = requests[q].pc
        /\ requests'[r].pc = "configure"
    BY <2>1, Distinct DEF Moved
  <2>5. agent' = agent /\ shutdown' = shutdown /\ installed' = installed
    BY <1>1 DEF Launch
  <2>6. NamesInv'
    BY <1>1, <2>1, <2>2, <2>3, <2>4, <2>5, Distinct DEF IInv, NamesInv, Named,
        At, IdOf, Launch
  <2>7. InstalledInv'
    BY <1>1, <2>1, <2>2, <2>3, <2>4, <2>5, Distinct DEF IInv, TypeOK,
           InstalledInv, Closing, Ladders, OwnedInv, Found, Launch
  <2>8. OwnedInv'
    BY <1>1, <2>1, <2>2, <2>3, <2>4, <2>5, Distinct DEF IInv, TypeOK, OwnedInv,
           InstalledInv, Closing, Ladders, Launch
  <2>9. MapInv'
    BY <1>1, <2>1, <2>2, <2>3, <2>4, <2>5, Distinct DEF IInv, TypeOK, MapInv,
           InstalledInv, Closing, Ladders, IdOf, Launch
  <2>10. FoundInv'
    BY <1>1, <2>1, <2>2, <2>3, <2>4, <2>5, Distinct DEF IInv, FoundInv,
        Ladders, MapInv, Found, At, Launch
  <2>11. LockInv'
    BY <1>1, <2>1, <2>2, <2>3, <2>4, <2>5, Distinct DEF IInv, LockInv, Locks,
        Unlocked, IdOf, Launch
  <2>12. FreshInv'
    BY <1>1, <2>1, <2>2, <2>3, <2>4, <2>5, Distinct DEF IInv, FreshInv,
        Building, Closing, Ladders, IdOf, Found, ReuseInv, Reusing, OwnedInv,
        Launch
  <2>13. ReuseInv'
    BY <1>1, <2>1, <2>2, <2>3, <2>4, <2>5, Distinct DEF IInv, ReuseInv,
        Reusing, Ladders, FoundInv, InstalledInv, Closing, IdOf, Found, MapInv,
        Launch
  <2>14. LadderInv'
    BY <1>1, <2>1, <2>2, <2>3, <2>4, <2>5, Distinct DEF IInv, LadderInv, Attached, Ended,
        OwnedInv, Closing, Ladders, Found, At, Launch, InstalledInv
  <2>15. LaunchedInv'
    BY <1>1, <2>1, <2>2, <2>3, <2>4, <2>5, Distinct
    DEF IInv, TypeOK, LaunchedInv,
           Attached, Ended, OwnedInv, InstalledInv, Closing, Ladders, Found, Launch
  <2>16. DeleteInv'
    BY <1>1, <2>1, <2>2, <2>3, <2>4, <2>5, Distinct DEF IInv, DeleteInv,
        Ladders, FoundInv, IdOf, Found, Launch
  <2>17. ResidentUntilClosed'
    BY <1>1, <2>1, <2>2, <2>3, <2>4, <2>5, Distinct DEF IInv, TypeOK,
           ResidentUntilClosed, Ended, IdOf, Launch
  <2>18. DeletedStaysGone'
    BY <1>1, <2>1, <2>2, <2>3, <2>4, <2>5, Distinct DEF IInv, TypeOK,
           DeletedStaysGone, At, IdOf, Launch
  <2> QED
    BY <2>6, <2>7, <2>8, <2>9, <2>10, <2>11, <2>12, <2>13, <2>14, <2>15, <2>16,
       <2>17, <2>18
    DEF IInv
<1>2. CASE Refuse(r) /\ UNCHANGED sessions
  <2>1. SessionsKept
    BY <1>2 DEF Launch, SessionsKept, IInv, TypeOK, SessionType, Found
  <2> QED
    BY <1>2, <2>1, RefuseKeeps, Distinct
    DEF Launch, At, IInv, TypeOK, SessionType
<1> QED BY <1>1, <1>2 DEF Launch

(* configureRuntime keeps the process or stops it.                         *)
LEMMA ConfigureKeeps ==
  ASSUME IInv, TypeOK', NEW r \in Sessions, Configure(r)
  PROVE  IInv'
<1>1. CASE sessions' = [sessions EXCEPT ![r].gate = "request"] /\ Go(r, "install")
          /\ UNCHANGED agent
  <2>1. Moved(r, "install")
    BY <1>1, GoMoves, Distinct DEF IInv, Configure
  <2>2. SessionsKept /\ MapKept /\ agent'.restores = agent.restores
    BY <1>1 DEF Configure, SessionsKept, MapKept, IInv, TypeOK, SessionType
  <2> QED BY <1>1, <2>1, <2>2, MoveKeeps, Distinct DEF Configure, At, Advances
<1>2. CASE sessions' = [sessions EXCEPT ![r].runtime = "none"] /\ Refuse(r)
  <2>1. SessionsKept
    BY <1>2 DEF Configure, SessionsKept, IInv, TypeOK, SessionType, Found
  <2> QED
    BY <1>2, <2>1, RefuseKeeps, Distinct
    DEF Configure, At, IInv, TypeOK, SessionType
<1> QED BY <1>1, <1>2 DEF Configure

(* install fills an entry that is empty, for an id that is not deleted.    *)
LEMMA InstallOrRefuseKeeps ==
  ASSUME IInv, TypeOK', NEW r \in Sessions, InstallOrRefuse(r)
  PROVE  IInv'
<1>1. CASE Go(r, "abandon") /\ UNCHANGED <<agent, installed>>
  <2>1. Moved(r, "abandon")
    BY <1>1, GoMoves, Distinct DEF IInv, InstallOrRefuse
  <2>2. SessionsKept /\ MapKept /\ agent'.restores = agent.restores
    BY <1>1 DEF InstallOrRefuse, SessionsKept, MapKept, IInv, TypeOK,
           SessionType
  <2> QED
    BY <1>1, <2>1, <2>2, MoveKeeps, Distinct
    DEF InstallOrRefuse, At, Advances
<1>2. CASE Install(r) /\ IdOf(r) \notin agent.deleted /\ agent.sessions[IdOf(r)] = None
  <2>1. Moved(r, "slot")
    BY <1>2, GoMoves, Distinct DEF IInv, Install
  <2>2. requests[r].pc = "install" /\ r \notin installed /\ IdOf(r) \in Ids
    BY Distinct DEF InstallOrRefuse, At, IInv, InstalledInv, Closing, Ladders,
                    NamesInv, Named
  <2>3. /\ \A q \in Requests : requests'[q].id = requests[q].id
        /\ \A q \in Requests : requests'[q].found = requests[q].found
        /\ \A q \in Requests : q # r => requests'[q].pc = requests[q].pc
        /\ requests'[r].pc = "slot"
    BY <2>1, Distinct DEF Moved
  <2>4. /\ agent'.sessions = [agent.sessions EXCEPT ![IdOf(r)] = r]
        /\ agent'.deleted = agent.deleted /\ agent'.restores = agent.restores
        /\ sessions' = sessions /\ shutdown' = shutdown
        /\ installed' = installed \cup {r}
    BY <1>2 DEF InstallOrRefuse, Install, IInv, TypeOK
  <2>5. \A q \in Restores \ {r} : Locks(q) => IdOf(q) # IdOf(r)
    <3>1. CASE r \in Restores
      BY <2>2, <3>1 DEF IInv, LockInv, Locks, Unlocked
    <3>2. CASE r \in News
      BY <2>2, <3>2 DEF IInv, NamesInv
    <3> QED BY <3>1, <3>2 DEF Sessions
  <2>6. NamesInv'
    BY <1>2, <2>1, <2>2, <2>3, <2>4, <2>5, Distinct DEF IInv, TypeOK, NamesInv,
           Named, At, IdOf, InstallOrRefuse, Install
  <2>7. InstalledInv'
    BY <1>2, <2>1, <2>2, <2>3, <2>4, <2>5, Distinct DEF IInv, TypeOK,
           InstalledInv, Closing, Ladders, OwnedInv, Found, InstallOrRefuse,
           Install
  <2>8. OwnedInv'
    BY <1>2, <2>1, <2>2, <2>3, <2>4, <2>5, Distinct DEF IInv, TypeOK, OwnedInv,
           InstalledInv, Closing, Ladders, InstallOrRefuse, Install
  <2>9. MapInv'
    BY <1>2, <2>1, <2>2, <2>3, <2>4, <2>5, Distinct DEF IInv, TypeOK, MapInv,
           InstalledInv, Closing, Ladders, IdOf, InstallOrRefuse, Install
  <2>10. FoundInv'
    BY <1>2, <2>1, <2>2, <2>3, <2>4, <2>5, Distinct DEF IInv, TypeOK, FoundInv,
           Ladders, MapInv, Found, At, InstallOrRefuse, Install
  <2>11. LockInv'
    BY <1>2, <2>1, <2>2, <2>3, <2>4, <2>5, Distinct DEF IInv, LockInv, Locks,
        Unlocked, IdOf, InstallOrRefuse, Install
  <2>12. FreshInv'
    BY <1>2, <2>1, <2>2, <2>3, <2>4, <2>5, Distinct DEF IInv, FreshInv,
        Building, Closing, Ladders, IdOf, Found, ReuseInv, Reusing, OwnedInv,
        InstallOrRefuse, Install, Locks, Unlocked
  <2>13. ReuseInv'
    BY <1>2, <2>1, <2>2, <2>3, <2>4, <2>5, Distinct DEF IInv, ReuseInv,
        Reusing, Ladders, FoundInv, InstalledInv, Closing, IdOf, Found, MapInv,
        InstallOrRefuse, Install, Locks, Unlocked
  <2>14. LadderInv'
    BY <1>2, <2>1, <2>2, <2>3, <2>4, <2>5, Distinct
    DEF IInv, TypeOK, LadderInv,
           Attached, Ended, OwnedInv, Closing, Ladders, Found, At, InstallOrRefuse,
           Install
  <2>15. LaunchedInv'
    BY <1>2, <2>1, <2>2, <2>3, <2>4, <2>5, Distinct
    DEF IInv, TypeOK, LaunchedInv,
           Attached, Ended, OwnedInv, InstalledInv, Closing, Ladders, Found,
           InstallOrRefuse, Install
  <2>16. DeleteInv'
    BY <1>2, <2>1, <2>2, <2>3, <2>4, <2>5, Distinct
    DEF IInv, TypeOK, DeleteInv,
           Ladders, FoundInv, IdOf, Found, InstallOrRefuse, Install
  <2>17. ResidentUntilClosed'
    BY <1>2, <2>1, <2>2, <2>3, <2>4, <2>5, Distinct DEF IInv, TypeOK,
           ResidentUntilClosed, Ended, IdOf, InstallOrRefuse, Install
  <2>18. DeletedStaysGone'
    BY <1>2, <2>1, <2>2, <2>3, <2>4, <2>5, Distinct DEF IInv, DeletedStaysGone,
        At, IdOf, InstallOrRefuse, Install, DeleteInv
  <2> QED
    BY <2>6, <2>7, <2>8, <2>9, <2>10, <2>11, <2>12, <2>13, <2>14, <2>15, <2>16,
       <2>17, <2>18
    DEF IInv
<1> QED BY <1>1, <1>2 DEF InstallOrRefuse

(* The slot is given up; nothing else moves.                               *)
LEMMA ReleaseSlotKeeps ==
  ASSUME IInv, TypeOK', NEW r \in Sessions, ReleaseSlot(r)
  PROVE  IInv'
<1>1. Moved(r, "commit")
  BY GoMoves, Distinct DEF IInv, ReleaseSlot
<1>2. SessionsKept /\ MapKept /\ agent'.restores = agent.restores
  BY DEF ReleaseSlot, SessionsKept, MapKept, IInv, TypeOK, SessionType
<1> QED BY <1>1, <1>2, MoveKeeps, Distinct DEF ReleaseSlot, At, Advances

(* The first commit goes on or fails.                                      *)
LEMMA CommitKeeps ==
  ASSUME IInv, TypeOK', NEW r \in Sessions, Commit(r)
  PROVE  IInv'
<1>1. CASE Go(r, "open")
  <2>1. Moved(r, "open")
    BY <1>1, GoMoves, Distinct DEF IInv, Commit
  <2>2. SessionsKept /\ MapKept /\ agent'.restores = agent.restores
    BY <1>1 DEF Commit, SessionsKept, MapKept, IInv, TypeOK, SessionType
  <2> QED BY <1>1, <2>1, <2>2, MoveKeeps, Distinct DEF Commit, At, Advances
<1>2. CASE Go(r, "abandon")
  <2>1. Moved(r, "abandon")
    BY <1>2, GoMoves, Distinct DEF IInv, Commit
  <2>2. SessionsKept /\ MapKept /\ agent'.restores = agent.restores
    BY <1>2 DEF Commit, SessionsKept, MapKept, IInv, TypeOK, SessionType
  <2> QED BY <1>2, <2>1, <2>2, MoveKeeps, Distinct DEF Commit, At, Advances
<1> QED BY <1>1, <1>2 DEF Commit

(* Only an installed session registers its hook.                           *)
LEMMA OpenKeeps ==
  ASSUME IInv, TypeOK', NEW r \in Sessions, Open(r)
  PROVE  IInv'
<1>1. CASE sessions' = [sessions EXCEPT ![r].hook = "registered"] /\ Go(r, "release")
  <2>1. Moved(r, "release")
    BY <1>1, GoMoves, Distinct DEF IInv, Open
  <2>2. SessionsKept /\ MapKept /\ agent'.restores = agent.restores
    BY <1>1 DEF Open, SessionsKept, MapKept, IInv, TypeOK, SessionType,
           OwnedInv, At
  <2> QED BY <1>1, <2>1, <2>2, MoveKeeps, Distinct DEF Open, At, Advances
<1>2. CASE Go(r, "abandon") /\ UNCHANGED sessions
  <2>1. Moved(r, "abandon")
    BY <1>2, GoMoves, Distinct DEF IInv, Open
  <2>2. SessionsKept /\ MapKept /\ agent'.restores = agent.restores
    BY <1>2 DEF Open, SessionsKept, MapKept, IInv, TypeOK, SessionType
  <2> QED BY <1>2, <2>1, <2>2, MoveKeeps, Distinct DEF Open, At, Advances
<1> QED BY <1>1, <1>2 DEF Open

(* A request that answers gives its gate and its id back.                  *)
LEMMA ReleaseKeeps ==
  ASSUME IInv, TypeOK', NEW r \in Sessions, Release(r)
  PROVE  IInv'
<1>1. Moved(r, "answered")
  BY GoMoves, Distinct DEF IInv, Release
<1>2. SessionsKept
  BY DEF Release, SessionsKept, IInv, TypeOK, SessionType
<1>3. MapKept /\ agent'.restores = Returned(r).restores
  BY DEF IInv, TypeOK, Release, Returned, MapKept
<1> QED BY <1>1, <1>2, <1>3, ReturnKeeps DEF Release, At

(* A failed establishment turns to the ladder of its own session.          *)
LEMMA AbandonKeeps ==
  ASSUME IInv, TypeOK', NEW r \in Sessions, Abandon(r)
  PROVE  IInv'
<1>1. /\ \A q \in Requests : q # r => requests'[q] = requests[q]
      /\ requests'[r].pc = "close" /\ requests'[r].found = r
      /\ requests'[r].id = requests[r].id /\ requests[r].pc = "abandon"
  BY Distinct DEF Abandon, At, IInv, TypeOK
<1>2. SessionsKept /\ UNCHANGED <<agent, shutdown, installed>>
  BY DEF Abandon, SessionsKept, IInv, TypeOK, SessionType
<1>3. NamesInv'
  BY <1>1, <1>2, Distinct DEF IInv, NamesInv, Named, At, IdOf, SessionsKept
<1>4. InstalledInv'
  BY <1>1, <1>2, Distinct DEF IInv, TypeOK, InstalledInv, Closing, Ladders,
         OwnedInv, Found, SessionsKept
<1>5. OwnedInv'
  BY <1>1, <1>2, Distinct DEF IInv, TypeOK, OwnedInv, InstalledInv, Closing,
         Ladders, SessionsKept
<1>6. MapInv'
  BY <1>1, <1>2, Distinct DEF IInv, TypeOK, MapInv, InstalledInv, Closing,
         Ladders, IdOf, SessionsKept
<1>7. FoundInv'
  BY <1>1, <1>2, Distinct DEF IInv, FoundInv, Ladders, MapInv, Found, At,
      SessionsKept
<1>8. LockInv'
  BY <1>1, <1>2, Distinct DEF IInv, LockInv, Locks, Unlocked, IdOf,
      SessionsKept
<1>9. FreshInv'
  BY <1>1, <1>2, Distinct DEF IInv, TypeOK, FreshInv, Building, Closing,
         Ladders, IdOf, Found, ReuseInv, Reusing, OwnedInv, SessionsKept
<1>10. ReuseInv'
  BY <1>1, <1>2, Distinct DEF IInv, ReuseInv, Reusing, Ladders, FoundInv,
      InstalledInv, Closing, IdOf, Found, MapInv, SessionsKept
<1>11. LadderInv'
  BY <1>1, <1>2, Distinct DEF IInv, LadderInv, Attached, Ended, OwnedInv, Closing,
      Ladders, Found, At, SessionsKept
<1>12. LaunchedInv'
  BY <1>1, <1>2, Distinct DEF IInv, TypeOK, LaunchedInv, Attached, Ended, OwnedInv,
         InstalledInv, Closing, Ladders, Found, SessionsKept
<1>13. DeleteInv'
  BY <1>1, <1>2, Distinct DEF IInv, DeleteInv, Ladders, FoundInv, IdOf, Found,
      SessionsKept
<1>14. ResidentUntilClosed'
  BY <1>1, <1>2, Distinct DEF IInv, TypeOK, ResidentUntilClosed, Ended, IdOf,
         SessionsKept
<1>15. DeletedStaysGone'
  BY <1>1, <1>2, Distinct DEF IInv, TypeOK, DeletedStaysGone, At, IdOf,
         SessionsKept
<1> QED
  BY <1>3, <1>4, <1>5, <1>6, <1>7, <1>8, <1>9, <1>10, <1>11, <1>12, <1>13,
     <1>14, <1>15
  DEF IInv

(* A failed establishment refuses.                                         *)
LEMMA AbandonedKeeps ==
  ASSUME IInv, TypeOK', NEW r \in Sessions, Abandoned(r)
  PROVE  IInv'
<1>1. SessionsKept
  BY Distinct DEF Abandoned, SessionsKept, IInv, TypeOK, SessionType, Found
<1> QED
  BY <1>1, RefuseKeeps, Distinct
  DEF Abandoned, At, IInv, TypeOK, SessionType

(* A restore names an id a client can know.                                *)
LEMMA RestoreKeeps ==
  ASSUME IInv, TypeOK', NEW r \in Restores, Restore(r)
  PROVE  IInv'
<1>1. PICK i \in Ids :
        /\ Known(i)
        /\ requests' = [requests EXCEPT ![r].pc = "await", ![r].id = i]
  BY DEF Restore
<1>2. /\ \A q \in Requests : q # r => requests'[q] = requests[q]
      /\ requests'[r].pc = "await" /\ requests'[r].id = i
      /\ requests'[r].found = requests[r].found
      /\ requests[r].pc = "idle" /\ r \notin installed
  BY <1>1, Distinct
  DEF Restore, At, IInv, TypeOK, InstalledInv, Closing, Ladders
<1>3. UNCHANGED <<agent, sessions, shutdown, installed>>
  BY DEF Restore
<1>4. NamesInv'
  BY <1>1, <1>2, <1>3, Distinct DEF IInv, TypeOK, NamesInv, Named, At, IdOf,
         Known
<1>5. InstalledInv'
  BY <1>1, <1>2, <1>3, Distinct DEF IInv, TypeOK, InstalledInv, Closing,
         Ladders, OwnedInv, Found
<1>6. OwnedInv'
  BY <1>1, <1>2, <1>3, Distinct DEF IInv, TypeOK, OwnedInv, InstalledInv,
         Closing, Ladders
<1>7. MapInv'
  BY <1>1, <1>2, <1>3, Distinct DEF IInv, TypeOK, MapInv, InstalledInv,
         Closing, Ladders, IdOf
<1>8. FoundInv'
  BY <1>1, <1>2, <1>3, Distinct DEF IInv, TypeOK, FoundInv, Ladders, MapInv,
         Found, At
<1>9. LockInv'
  BY <1>1, <1>2, <1>3, Distinct DEF IInv, TypeOK, LockInv, Locks, Unlocked,
         IdOf
<1>10. FreshInv'
  BY <1>1, <1>2, <1>3, Distinct DEF IInv, TypeOK, FreshInv, Building, Closing,
         Ladders, IdOf, Found, ReuseInv, Reusing, OwnedInv
<1>11. ReuseInv'
  BY <1>1, <1>2, <1>3, Distinct DEF IInv, TypeOK, ReuseInv, Reusing, Ladders,
         FoundInv, InstalledInv, Closing, IdOf, Found, MapInv
<1>12. LadderInv'
  BY <1>1, <1>2, <1>3, Distinct DEF IInv, TypeOK, LadderInv, Attached, Ended, OwnedInv,
         Closing, Ladders, Found, At
<1>13. LaunchedInv'
  BY <1>1, <1>2, <1>3, Distinct DEF IInv, TypeOK, LaunchedInv, Attached, Ended, OwnedInv,
         InstalledInv, Closing, Ladders, Found
<1>14. DeleteInv'
  BY <1>1, <1>2, <1>3, Distinct DEF IInv, TypeOK, DeleteInv, Ladders, FoundInv,
         IdOf, Found
<1>15. ResidentUntilClosed'
  BY <1>1, <1>2, <1>3, Distinct DEF IInv, TypeOK, ResidentUntilClosed, Ended,
         IdOf
<1>16. DeletedStaysGone'
  BY <1>1, <1>2, <1>3, Distinct DEF IInv, TypeOK, DeletedStaysGone, At, IdOf
<1> QED
  BY <1>4, <1>5, <1>6, <1>7, <1>8, <1>9, <1>10, <1>11, <1>12, <1>13, <1>14,
     <1>15, <1>16
  DEF IInv

(* A restore waits for the opening of its id.                              *)
LEMMA RestoreAwaitKeeps ==
  ASSUME IInv, TypeOK', NEW r \in Restores, RestoreAwait(r)
  PROVE  IInv'
<1>1. Moved(r, "acquire")
  BY GoMoves, Distinct DEF IInv, RestoreAwait
<1>2. SessionsKept /\ MapKept /\ agent'.restores = agent.restores
  BY DEF RestoreAwait, SessionsKept, MapKept, IInv, TypeOK, SessionType
<1> QED BY <1>1, <1>2, MoveKeeps, Distinct DEF RestoreAwait, At, Advances

(* One restore of an id at a time.                                         *)
LEMMA AcquireKeeps ==
  ASSUME IInv, TypeOK', NEW r \in Restores, Acquire(r)
  PROVE  IInv'
<1>1. CASE Go(r, "refused") /\ UNCHANGED agent
  <2>1. Moved(r, "refused")
    BY <1>1, GoMoves, Distinct DEF IInv, Acquire
  <2>2. SessionsKept /\ MapKept /\ agent'.restores = agent.restores
    BY <1>1 DEF Acquire, SessionsKept, MapKept, IInv, TypeOK, SessionType
  <2> QED BY <1>1, <2>1, <2>2, MoveKeeps, Distinct DEF Acquire, At, Advances
<1>2. CASE /\ IdOf(r) \notin agent.restores
          /\ agent' = [agent EXCEPT !.restores = @ \cup {IdOf(r)}]
          /\ Go(r, "sample")
  <2>1. /\ \A q \in Requests : requests'[q].id = requests[q].id
        /\ \A q \in Requests : requests'[q].found = requests[q].found
        /\ \A q \in Requests : q # r => requests'[q].pc = requests[q].pc
        /\ requests'[r].pc = "sample" /\ requests[r].pc = "acquire"
    BY <1>2, GoMoves, Distinct DEF IInv, Acquire, At, Moved
  <2>2. /\ agent'.restores = agent.restores \cup {IdOf(r)}
        /\ agent'.sessions = agent.sessions /\ agent'.deleted = agent.deleted
    BY <1>2 DEF IInv, TypeOK
  <2>3. UNCHANGED <<sessions, shutdown, installed>>
    BY DEF Acquire
  <2>4. NamesInv'
    BY <2>1, <2>2, <2>3, Distinct DEF IInv, TypeOK, NamesInv, Named, At, IdOf
  <2>5. InstalledInv'
    BY <2>1, <2>2, <2>3, Distinct DEF IInv, TypeOK, InstalledInv, Closing,
           Ladders, OwnedInv, Found
  <2>6. OwnedInv'
    BY <2>1, <2>2, <2>3, Distinct DEF IInv, TypeOK, OwnedInv, InstalledInv,
           Closing, Ladders
  <2>7. MapInv'
    BY <2>1, <2>2, <2>3, Distinct DEF IInv, TypeOK, MapInv, InstalledInv,
           Closing, Ladders, IdOf
  <2>8. FoundInv'
    BY <2>1, <2>2, <2>3, Distinct DEF IInv, FoundInv, Ladders, MapInv, Found,
        At
  <2>9. LockInv'
    BY <2>1, <2>2, <2>3, Distinct, <1>2 DEF IInv, LockInv, Locks, Unlocked,
        IdOf
  <2>10. FreshInv'
    BY <2>1, <2>2, <2>3, Distinct DEF IInv, TypeOK, FreshInv, Building,
           Closing, Ladders, IdOf, Found, ReuseInv, Reusing, OwnedInv
  <2>11. ReuseInv'
    BY <2>1, <2>2, <2>3, Distinct DEF IInv, ReuseInv, Reusing, Ladders,
        FoundInv, InstalledInv, Closing, IdOf, Found, MapInv
  <2>12. LadderInv'
    BY <2>1, <2>2, <2>3, Distinct DEF IInv, TypeOK, LadderInv, Attached, Ended, OwnedInv,
           Closing, Ladders, Found, At
  <2>13. LaunchedInv'
    BY <2>1, <2>2, <2>3, Distinct DEF IInv, TypeOK, LaunchedInv, Attached, Ended,
           OwnedInv, InstalledInv, Closing, Ladders, Found
  <2>14. DeleteInv'
    BY <2>1, <2>2, <2>3, Distinct DEF IInv, TypeOK, DeleteInv, Ladders,
           FoundInv, IdOf, Found
  <2>15. ResidentUntilClosed'
    BY <2>1, <2>2, <2>3, Distinct DEF IInv, TypeOK, ResidentUntilClosed, Ended,
           IdOf
  <2>16. DeletedStaysGone'
    BY <2>1, <2>2, <2>3, Distinct DEF IInv, TypeOK, DeletedStaysGone, At, IdOf
  <2> QED
    BY <2>4, <2>5, <2>6, <2>7, <2>8, <2>9, <2>10, <2>11, <2>12, <2>13, <2>14,
       <2>15, <2>16
    DEF IInv
<1> QED BY <1>1, <1>2 DEF Acquire

(* restore samples the live session of its id, under the same hold of a.mu.*)
LEMMA SampleKeeps ==
  ASSUME IInv, TypeOK', NEW r \in Restores, Sample(r)
  PROVE  IInv'
<1>1. CASE Refuse(r)
  <2>1. SessionsKept
    BY <1>1 DEF Sample, SessionsKept, IInv, TypeOK, SessionType, Found
  <2> QED
    BY <1>1, <2>1, RefuseKeeps, Distinct
    DEF Sample, At, IInv, TypeOK, SessionType
<1>2. CASE /\ UNCHANGED agent
          /\ requests' = [requests EXCEPT
               ![r].pc = IF agent.sessions[IdOf(r)] = None THEN "load"
                                                           ELSE "gate",
               ![r].found = agent.sessions[IdOf(r)]]
  <2>1. IdOf(r) \in Ids /\ requests[r].pc = "sample" /\ r \notin installed
    BY Distinct
    DEF Sample, At, IInv, NamesInv, Named, InstalledInv, Closing, Ladders
  <2>2. /\ \A q \in Requests : requests'[q].id = requests[q].id
        /\ \A q \in Requests : q # r => requests'[q] = requests[q]
        /\ requests'[r].found = agent.sessions[IdOf(r)]
    BY <1>2, Distinct DEF IInv, TypeOK
  <2>3. \/ requests'[r].pc = "load" /\ agent.sessions[IdOf(r)] = None
        \/ requests'[r].pc = "gate" /\ agent.sessions[IdOf(r)] # None
    BY <1>2, Distinct DEF IInv, TypeOK
  <2>4. UNCHANGED <<agent, sessions, shutdown, installed>>
    BY <1>2 DEF Sample
  <2>5. NamesInv'
    BY <2>1, <2>2, <2>3, <2>4, Distinct DEF IInv, TypeOK, NamesInv, Named, At,
           IdOf
  <2>6. InstalledInv'
    BY <2>1, <2>2, <2>3, <2>4, Distinct DEF IInv, TypeOK, InstalledInv,
           Closing, Ladders, OwnedInv, Found
  <2>7. OwnedInv'
    BY <2>1, <2>2, <2>3, <2>4, Distinct DEF IInv, TypeOK, OwnedInv,
           InstalledInv, Closing, Ladders
  <2>8. MapInv'
    BY <2>1, <2>2, <2>3, <2>4, Distinct DEF IInv, TypeOK, MapInv, InstalledInv,
           Closing, Ladders, IdOf
  <2>9. FoundInv'
    BY <2>1, <2>2, <2>3, <2>4, Distinct DEF IInv, TypeOK, FoundInv, Ladders,
           MapInv, Found, At
  <2>10. LockInv'
    BY <2>1, <2>2, <2>3, <2>4, Distinct DEF IInv, LockInv, Locks, Unlocked,
        IdOf
  <2>11. FreshInv'
    BY <2>1, <2>2, <2>3, <2>4, Distinct DEF IInv, TypeOK, FreshInv, Building,
           Closing, Ladders, IdOf, Found, ReuseInv, Reusing, OwnedInv
  <2>12. ReuseInv'
    BY <2>1, <2>2, <2>3, <2>4, Distinct DEF IInv, TypeOK, ReuseInv, Reusing,
           Ladders, FoundInv, InstalledInv, Closing, IdOf, Found, MapInv
  <2>13. LadderInv'
    BY <2>1, <2>2, <2>3, <2>4, Distinct DEF IInv, TypeOK, LadderInv, Attached, Ended,
           OwnedInv, Closing, Ladders, Found, At
  <2>14. LaunchedInv'
    BY <2>1, <2>2, <2>3, <2>4, Distinct DEF IInv, TypeOK, LaunchedInv, Attached, Ended,
           OwnedInv, InstalledInv, Closing, Ladders, Found
  <2>15. DeleteInv'
    BY <2>1, <2>2, <2>3, <2>4, Distinct DEF IInv, TypeOK, DeleteInv, Ladders,
           FoundInv, IdOf, Found
  <2>16. ResidentUntilClosed'
    BY <2>1, <2>2, <2>3, <2>4, Distinct DEF IInv, TypeOK, ResidentUntilClosed,
           Ended, IdOf
  <2>17. DeletedStaysGone'
    BY <2>1, <2>2, <2>3, <2>4, Distinct DEF IInv, TypeOK, DeletedStaysGone, At,
           IdOf
  <2> QED
    BY <2>5, <2>6, <2>7, <2>8, <2>9, <2>10, <2>11, <2>12, <2>13, <2>14, <2>15,
       <2>16, <2>17
    DEF IInv
<1> QED BY <1>1, <1>2 DEF Sample

(* A restore takes the gate of the session it found, or turns to its ladder.*)
LEMMA RestoreGateKeeps ==
  ASSUME IInv, TypeOK', NEW r \in Restores, RestoreGate(r)
  PROVE  IInv'
<1>1. CASE Refuse(r) /\ UNCHANGED sessions
  <2>1. SessionsKept
    BY <1>1 DEF RestoreGate, SessionsKept, IInv, TypeOK, SessionType, Found
  <2> QED
    BY <1>1, <2>1, RefuseKeeps, Distinct
    DEF RestoreGate, At, IInv, TypeOK, SessionType
<1>2. CASE /\ sessions' = [sessions EXCEPT ![Found(r)].gate = "request"]
          /\ Go(r, "active") /\ UNCHANGED agent
  <2>1. Moved(r, "active")
    BY <1>2, GoMoves, Distinct DEF IInv, RestoreGate
  <2>2. SessionsKept /\ MapKept /\ agent'.restores = agent.restores
    BY <1>2 DEF RestoreGate, SessionsKept, MapKept, IInv, TypeOK, SessionType
  <2> QED
    BY <1>2, <2>1, <2>2, MoveKeeps, Distinct
    DEF RestoreGate, At, Advances
<1>3. CASE Go(r, "close") /\ UNCHANGED <<agent, sessions>>
  <2>1. Moved(r, "close")
    BY <1>3, GoMoves, Distinct DEF IInv, RestoreGate
  <2>2. SessionsKept /\ MapKept /\ agent'.restores = agent.restores
    BY <1>3 DEF RestoreGate, SessionsKept, MapKept, IInv, TypeOK, SessionType
  <2> QED
    BY <1>3, <2>1, <2>2, MoveKeeps, Distinct
    DEF RestoreGate, At, Advances
<1> QED BY <1>1, <1>2, <1>3 DEF RestoreGate

(* restoreActive answers with the gate it holds, or gives it up.           *)
LEMMA RestoreActiveKeeps ==
  ASSUME IInv, TypeOK', NEW r \in Restores, RestoreActive(r)
  PROVE  IInv'
<1>1. CASE Go(r, "release") /\ UNCHANGED <<agent, sessions>>
  <2>1. Moved(r, "release")
    BY <1>1, GoMoves, Distinct DEF IInv, RestoreActive
  <2>2. SessionsKept /\ MapKept /\ agent'.restores = agent.restores
    BY <1>1 DEF RestoreActive, SessionsKept, MapKept, IInv, TypeOK, SessionType
  <2> QED
    BY <1>1, <2>1, <2>2, MoveKeeps, Distinct
    DEF RestoreActive, At, Advances
<1>2. CASE sessions' = [sessions EXCEPT ![Found(r)].gate = "free"] /\ Refuse(r)
  <2>1. SessionsKept
    BY <1>2 DEF RestoreActive, SessionsKept, IInv, TypeOK, SessionType, Found
  <2> QED
    BY <1>2, <2>1, RefuseKeeps, Distinct
    DEF RestoreActive, At, IInv, TypeOK, SessionType
<1> QED BY <1>1, <1>2 DEF RestoreActive

(* loadStored finds a record or refuses.                                   *)
LEMMA LoadKeeps ==
  ASSUME IInv, TypeOK', NEW r \in Restores, Load(r)
  PROVE  IInv'
<1>1. CASE Go(r, "reserve") /\ UNCHANGED agent
  <2>1. Moved(r, "reserve")
    BY <1>1, GoMoves, Distinct DEF IInv, Load
  <2>2. SessionsKept /\ MapKept /\ agent'.restores = agent.restores
    BY <1>1 DEF Load, SessionsKept, MapKept, IInv, TypeOK, SessionType
  <2> QED BY <1>1, <2>1, <2>2, MoveKeeps, Distinct DEF Load, At, Advances
<1>2. CASE Refuse(r)
  <2>1. SessionsKept
    BY <1>2 DEF Load, SessionsKept, IInv, TypeOK, SessionType, Found
  <2> QED
    BY <1>2, <2>1, RefuseKeeps, Distinct
    DEF Load, At, IInv, TypeOK, SessionType
<1> QED BY <1>1, <1>2 DEF Load

(* A close resolves the live session of an id.                             *)
LEMMA CloseSessionKeeps ==
  ASSUME IInv, TypeOK', NEW c \in Closes, CloseSession(c)
  PROVE  IInv'
<1>1. PICK i \in Ids : 
        /\ agent.sessions[i] # None
        /\ requests' = [requests EXCEPT ![c] =
             [pc |-> "await", id |-> i, found |-> agent.sessions[i]]]
  BY DEF CloseSession, Resident
<1>2. /\ \A q \in Requests \ {c} : requests'[q] = requests[q]
      /\ requests'[c].pc = "await" /\ requests'[c].id = i /\ requests[c].pc = "idle"
      /\ requests'[c].found = agent.sessions[i]
  BY <1>1, Distinct DEF CloseSession, At, IInv, TypeOK
<1>3. UNCHANGED <<agent, sessions, shutdown, installed>>
  BY DEF CloseSession
<1>4. FoundInv'
  BY <1>1, <1>2, <1>3, Distinct DEF IInv, FoundInv, Ladders, MapInv, Found, At
<1>5. DeleteInv' /\ DeletedStaysGone'
  <2>1. DeleteInv'
    BY <1>1, <1>2, <1>3, Distinct DEF IInv, TypeOK, DeleteInv, Ladders,
           FoundInv, MapInv, IdOf, Found
  <2>2. DeletedStaysGone'
    BY <1>1, <1>2, <1>3, Distinct DEF IInv, TypeOK, DeletedStaysGone,
           DeleteInv, At, IdOf
  <2> QED BY <2>1, <2>2
<1> QED BY <1>1, <1>2, <1>3, Distinct, <1>4, <1>5, OtherKeeps

(* A close waits for the opening of its id.                                *)
LEMMA CloseAwaitKeeps ==
  ASSUME IInv, TypeOK', NEW c \in Closes, CloseAwait(c)
  PROVE  IInv'
<1>1. /\ \A q \in Requests \ {c} : requests'[q] = requests[q]
      /\ requests'[c].pc = "close" /\ requests[c].pc = "await"
      /\ requests'[c].id = requests[c].id
      /\ requests'[c].found = requests[c].found
  BY GoMoves, Distinct DEF IInv, CloseAwait, At, Moved
<1>2. UNCHANGED <<agent, sessions, shutdown, installed>>
  BY DEF CloseAwait
<1>3. requests[c].id \in Ids
  BY <1>1, Distinct DEF IInv, NamesInv, Named, At, IdOf
<1>4. FoundInv'
  BY <1>1, <1>2, <1>3, Distinct DEF IInv, TypeOK, FoundInv, Ladders, MapInv,
         Found, At
<1>5. DeleteInv' /\ DeletedStaysGone'
  <2>1. DeleteInv'
    BY <1>1, <1>2, <1>3, Distinct DEF IInv, DeleteInv, Ladders, FoundInv,
        MapInv, IdOf, Found
  <2>2. DeletedStaysGone'
    BY <1>1, <1>2, <1>3, Distinct DEF IInv, TypeOK, DeletedStaysGone,
           DeleteInv, At, IdOf
  <2> QED BY <2>1, <2>2
<1> QED BY <1>1, <1>2, <1>3, Distinct, <1>4, <1>5, OtherKeeps

(* A delete names an id.                                                   *)
LEMMA DeleteKeeps ==
  ASSUME IInv, TypeOK', NEW d \in Deletes, Delete(d)
  PROVE  IInv'
<1>1. PICK i \in Ids : requests' = [requests EXCEPT ![d].pc = "await", ![d].id = i]
  BY DEF Delete, Resident
<1>2. /\ \A q \in Requests \ {d} : requests'[q] = requests[q]
      /\ requests'[d].pc = "await" /\ requests'[d].id = i /\ requests[d].pc = "idle"
      /\ requests'[d].found = requests[d].found
  BY <1>1, Distinct DEF Delete, At, IInv, TypeOK
<1>3. UNCHANGED <<agent, sessions, shutdown, installed>>
  BY DEF Delete
<1>4. FoundInv'
  BY <1>1, <1>2, <1>3, Distinct DEF IInv, TypeOK, FoundInv, Ladders, MapInv,
         Found, At
<1>5. DeleteInv' /\ DeletedStaysGone'
  <2>1. DeleteInv'
    BY <1>1, <1>2, <1>3, Distinct DEF IInv, TypeOK, DeleteInv, Ladders,
           FoundInv, MapInv, IdOf, Found
  <2>2. DeletedStaysGone'
    BY <1>1, <1>2, <1>3, Distinct DEF IInv, TypeOK, DeletedStaysGone,
           DeleteInv, At, IdOf
  <2> QED BY <2>1, <2>2
<1> QED BY <1>1, <1>2, <1>3, Distinct, <1>4, <1>5, OtherKeeps

(* A delete waits for the opening of its id.                               *)
LEMMA DeleteAwaitKeeps ==
  ASSUME IInv, TypeOK', NEW d \in Deletes, DeleteAwait(d)
  PROVE  IInv'
<1>1. /\ \A q \in Requests \ {d} : requests'[q] = requests[q]
      /\ requests'[d].pc = "lookup" /\ requests[d].pc = "await"
      /\ requests'[d].id = requests[d].id
      /\ requests'[d].found = requests[d].found
  BY GoMoves, Distinct DEF IInv, DeleteAwait, At, Moved
<1>2. UNCHANGED <<agent, sessions, shutdown, installed>>
  BY DEF DeleteAwait
<1>3. requests[d].id \in Ids
  BY <1>1, Distinct DEF IInv, NamesInv, Named, At, IdOf
<1>4. FoundInv'
  BY <1>1, <1>2, <1>3, Distinct DEF IInv, TypeOK, FoundInv, Ladders, MapInv,
         Found, At
<1>5. DeleteInv' /\ DeletedStaysGone'
  <2>1. DeleteInv'
    BY <1>1, <1>2, <1>3, Distinct DEF IInv, DeleteInv, Ladders, FoundInv,
        MapInv, IdOf, Found
  <2>2. DeletedStaysGone'
    BY <1>1, <1>2, <1>3, Distinct DEF IInv, TypeOK, DeletedStaysGone,
           DeleteInv, At, IdOf
  <2> QED BY <2>1, <2>2
<1> QED BY <1>1, <1>2, <1>3, Distinct, <1>4, <1>5, OtherKeeps

(* A delete looks whether the id is ephemeral.                             *)
LEMMA DeleteLookupKeeps ==
  ASSUME IInv, TypeOK', NEW d \in Deletes, DeleteLookup(d)
  PROVE  IInv'
<1>1. /\ \A q \in Requests \ {d} : requests'[q] = requests[q]
      /\ requests'[d].pc \in {"mark", "tombstone"} /\ requests[d].pc = "lookup"
      /\ requests'[d].id = requests[d].id
      /\ requests'[d].found = requests[d].found
  BY GoMoves, Distinct DEF IInv, TypeOK, DeleteLookup, At, Moved
<1>2. UNCHANGED <<agent, sessions, shutdown, installed>>
  BY DEF DeleteLookup
<1>3. requests[d].id \in Ids /\ IdOf(d) = requests[d].id
  BY <1>1, Distinct DEF IInv, NamesInv, Named, At, IdOf
<1>4. FoundInv'
  BY <1>1, <1>2, <1>3, Distinct DEF IInv, FoundInv, Ladders, MapInv, Found, At
<1>5. DeleteInv'
  BY <1>1, <1>2, <1>3, Distinct DEF IInv, DeleteInv, Ladders, FoundInv, MapInv,
      IdOf, Found
<1>6. DeletedStaysGone'
  BY <1>1, <1>2, <1>3, Distinct DEF IInv, TypeOK, DeletedStaysGone, DeleteInv,
         At, IdOf
<1> QED BY <1>1, <1>2, <1>3, Distinct, <1>4, <1>5, <1>6, OtherKeeps

(* A delete writes its tombstone or fails.                                 *)
LEMMA TombstoneKeeps ==
  ASSUME IInv, TypeOK', NEW d \in Deletes, Tombstone(d)
  PROVE  IInv'
<1>1. /\ \A q \in Requests \ {d} : requests'[q] = requests[q]
      /\ requests'[d].pc \in {"mark", "refused"} /\ requests[d].pc = "tombstone"
      /\ requests'[d].id = requests[d].id
      /\ requests'[d].found = requests[d].found
  BY GoMoves, Distinct DEF IInv, TypeOK, Tombstone, At, Moved
<1>2. UNCHANGED <<agent, sessions, shutdown, installed>>
  BY DEF Tombstone
<1>3. requests[d].id \in Ids /\ IdOf(d) = requests[d].id
  BY <1>1, Distinct DEF IInv, NamesInv, Named, At, IdOf
<1>4. FoundInv'
  BY <1>1, <1>2, <1>3, Distinct DEF IInv, FoundInv, Ladders, MapInv, Found, At
<1>5. DeleteInv'
  BY <1>1, <1>2, <1>3, Distinct DEF IInv, DeleteInv, Ladders, FoundInv, MapInv,
      IdOf, Found
<1>6. DeletedStaysGone'
  BY <1>1, <1>2, <1>3, Distinct DEF IInv, TypeOK, DeletedStaysGone, DeleteInv,
         At, IdOf
<1> QED BY <1>1, <1>2, <1>3, Distinct, <1>4, <1>5, <1>6, OtherKeeps

(* A delete marks its id and samples the live session, under one hold.     *)
LEMMA MarkKeeps ==
  ASSUME IInv, TypeOK', NEW d \in Deletes, Mark(d)
  PROVE  IInv'
<1>1. /\ \A q \in Requests \ {d} : requests'[q] = requests[q]
      /\ requests'[d].pc \in {"answered", "close"} /\ requests[d].pc = "mark"
      /\ requests'[d].id = requests[d].id
      /\ requests'[d].found = agent.sessions[IdOf(d)]
  BY GoMoves, Distinct DEF IInv, TypeOK, Mark, At, Moved
<1>2. /\ agent'.sessions = agent.sessions /\ agent'.restores = agent.restores
      /\ agent'.deleted = agent.deleted \cup {IdOf(d)}
      /\ UNCHANGED <<sessions, shutdown, installed>>
  BY DEF Mark, IInv, TypeOK
<1>3. requests[d].id \in Ids /\ IdOf(d) = requests[d].id
  BY <1>1, Distinct DEF IInv, NamesInv, Named, At, IdOf
<1>4. /\ requests'[d].pc = "answered" <=> agent.sessions[IdOf(d)] = None
      /\ agent.sessions[IdOf(d)] \in Sessions \cup {None}
  BY <1>3, Distinct DEF Mark, IInv, TypeOK
<1>5. FoundInv'
  BY <1>1, <1>2, <1>3, <1>4, Distinct DEF IInv, FoundInv, Ladders, MapInv,
      Found, At
<1>6. DeleteInv'
  BY <1>1, <1>2, <1>3, <1>4, Distinct DEF IInv, DeleteInv, Ladders, FoundInv,
      MapInv, IdOf, Found
<1>7. DeletedStaysGone'
  BY <1>1, <1>2, <1>3, <1>4, Distinct DEF IInv, TypeOK, DeletedStaysGone,
         DeleteInv, At, IdOf
<1> QED BY <1>1, <1>2, <1>3, <1>4, Distinct, <1>5, <1>6, <1>7, OtherKeeps

(* Agent.Close takes the sessions of the map.                              *)
LEMMA AgentCloseKeeps ==
  ASSUME IInv, TypeOK', AgentClose
  PROVE  IInv'
<1>1. /\ \A q \in Requests \ {Shutdown} : requests'[q] = requests[q]
      /\ requests'[Shutdown].pc = "next"
      /\ requests'[Shutdown].found = requests[Shutdown].found
  BY GoMoves, Distinct DEF IInv, AgentClose, Moved
<1>2. /\ agent'.sessions = agent.sessions /\ agent'.restores = agent.restores
      /\ agent'.deleted = agent.deleted /\ UNCHANGED <<sessions, installed>>
      /\ shutdown' \subseteq installed
  BY DEF AgentClose, IInv, TypeOK, MapInv, Resident
<1>3. FoundInv'
  BY <1>1, <1>2, Distinct DEF IInv, TypeOK, FoundInv, Ladders, MapInv, Found,
         At
<1>4. DeleteInv'
  BY <1>1, <1>2, Distinct DEF IInv, TypeOK, DeleteInv, Ladders, FoundInv,
         MapInv, IdOf, Found
<1>5. DeletedStaysGone'
  BY <1>1, <1>2, Distinct DEF IInv, TypeOK, DeletedStaysGone, DeleteInv, At,
         IdOf
<1> QED BY <1>1, <1>2, Distinct, <1>3, <1>4, <1>5, OtherKeeps

(* Agent.Close turns to the next session it took, or returns.              *)
LEMMA ShutdownNextKeeps ==
  ASSUME IInv, TypeOK', ShutdownNext
  PROVE  IInv'
<1>1. /\ \A q \in Requests \ {Shutdown} : requests'[q] = requests[q]
      /\ \/ /\ requests'[Shutdown].pc = "close"
            /\ requests'[Shutdown].found \in shutdown
         \/ /\ requests'[Shutdown].pc = "answered"
            /\ requests'[Shutdown].found = requests[Shutdown].found
  <2>1. CASE Go(Shutdown, "answered")
    BY <2>1, GoMoves, Distinct DEF IInv, Moved
  <2>2. ASSUME NEW s \in shutdown,
               requests' = [requests EXCEPT ![Shutdown].pc = "close",
                                            ![Shutdown].found = s]
        PROVE  /\ \A q \in Requests \ {Shutdown} : requests'[q] = requests[q]
               /\ requests'[Shutdown].pc = "close"
               /\ requests'[Shutdown].found \in shutdown
    BY <2>2, Distinct DEF IInv, TypeOK
  <2> QED BY <2>1, <2>2 DEF ShutdownNext
<1>2. /\ shutdown' \subseteq installed /\ shutdown \subseteq installed
      /\ UNCHANGED <<agent, sessions, installed>> /\ None \notin shutdown
  BY Distinct DEF ShutdownNext, IInv, FoundInv, TypeOK
<1>3. FoundInv'
  BY <1>1, <1>2, Distinct DEF IInv, TypeOK, FoundInv, Ladders, MapInv, Found,
         At
<1>4. DeleteInv'
  BY <1>1, <1>2, Distinct DEF IInv, TypeOK, DeleteInv, Ladders, FoundInv,
         MapInv, IdOf, Found
<1>5. DeletedStaysGone'
  BY <1>1, <1>2, Distinct DEF IInv, TypeOK, DeletedStaysGone, DeleteInv, At,
         IdOf
<1> QED BY <1>1, <1>2, Distinct, <1>3, <1>4, <1>5, OtherKeeps

(* close: a request begins the ladder of the session it found.             *)
LEMMA CallCloseKeeps ==
  ASSUME IInv, TypeOK', NEW r \in Requests, CallClose(r)
  PROVE  IInv'
<1>1. /\ \A q \in Requests \ {r} : requests'[q] = requests[q]
      /\ requests'[r].pc = "closed" /\ requests[r].pc = "close"
      /\ requests'[r].id = requests[r].id
      /\ requests'[r].found = requests[r].found
  BY GoMoves, Distinct DEF IInv, CallClose, At, Moved
<1>2. UNCHANGED <<agent, shutdown, installed>> /\ installed \subseteq Sessions
  BY DEF CallClose, IInv, TypeOK
<1>3. Found(r) \in Sessions
  BY <1>1 DEF IInv, TypeOK, FoundInv, Ladders, Found
<1>4. \A s \in Sessions :
        /\ sessions'[s].runtime = sessions[s].runtime
        /\ sessions'[s].gate = sessions[s].gate /\ sessions'[s].hook = sessions[s].hook
        /\ \/ sessions'[s].ladder = sessions[s].ladder
           \/ /\ s = Found(r) /\ sessions[s].ladder = "open"
              /\ sessions'[s].ladder \in {"stop", "join", "commit"}
              /\ sessions[s].runtime = "bound" => sessions'[s].ladder = "stop"
  BY <1>3 DEF CallClose, Begun, Owed, IInv, TypeOK, SessionType
<1>5. NamesInv'
  BY <1>1, <1>2, <1>3, <1>4, Distinct DEF IInv, NamesInv, Named, At, IdOf
<1>6. InstalledInv'
  BY <1>1, <1>2, Distinct DEF IInv, InstalledInv, Closing, Ladders, Found
<1>7. OwnedInv'
  BY <1>1, <1>2, <1>3, <1>4, Distinct DEF IInv, TypeOK, OwnedInv, InstalledInv,
         Closing, Ladders
<1>8. MapInv'
  BY <1>1, <1>2, <1>3, <1>4, Distinct DEF IInv, TypeOK, MapInv, InstalledInv,
         Closing, Ladders, IdOf
<1>9. FoundInv'
  BY <1>1, <1>2, <1>3, <1>4, Distinct DEF IInv, FoundInv, Ladders, MapInv,
      Found, At
<1>10. LockInv'
  BY <1>1, <1>2, <1>3, <1>4, Distinct DEF IInv, LockInv, Locks, Unlocked, IdOf
<1>11. FreshInv'
  BY <1>1, <1>2, <1>3, <1>4, Distinct DEF IInv, FreshInv, Building, Closing,
      Ladders, IdOf, Found, ReuseInv, Reusing, OwnedInv
<1>12. ReuseInv'
  BY <1>1, <1>2, <1>3, <1>4, Distinct DEF IInv, ReuseInv, Reusing, Ladders,
      FoundInv, InstalledInv, Closing, IdOf, Found, MapInv
<1>13. LadderInv'
  BY <1>1, <1>2, <1>3, <1>4, Distinct DEF IInv, LadderInv, Attached, Ended, OwnedInv,
      Closing, Ladders, Found, At, FoundInv
<1>14. LaunchedInv'
  BY <1>1, <1>2, <1>3, <1>4, Distinct DEF IInv, LaunchedInv, Attached, Ended, OwnedInv,
      InstalledInv, Closing, Ladders, Found
<1>15. DeleteInv'
  BY <1>1, <1>2, <1>3, <1>4, Distinct DEF IInv, DeleteInv, Ladders, FoundInv,
      IdOf, Found
<1>16. ResidentUntilClosed'
  BY <1>1, <1>2, <1>3, <1>4, Distinct DEF IInv, ResidentUntilClosed, Ended,
      IdOf
<1>17. DeletedStaysGone'
  BY <1>1, <1>2, <1>3, <1>4, Distinct DEF IInv, DeletedStaysGone, At, IdOf
<1> QED
  BY <1>5, <1>6, <1>7, <1>8, <1>9, <1>10, <1>11, <1>12, <1>13, <1>14, <1>15,
     <1>16, <1>17
  DEF IInv

(* A request goes on once the ladder it waited for has ended.              *)
LEMMA CloseReturnsKeeps ==
  ASSUME IInv, TypeOK', NEW r \in Requests, CloseReturns(r)
  PROVE  IInv'
<1>1. /\ Found(r) \in Sessions /\ requests[r].pc = "closed"
      /\ sessions[Found(r)].ladder = "closed"
  BY DEF CloseReturns, At, Ended, IInv, TypeOK, FoundInv, Ladders, Found
<1>2. /\ \A q \in Requests \ {r} : requests'[q] = requests[q]
      /\ requests'[r].pc = AfterClose(r) /\ requests'[r].id = requests[r].id
      /\ requests'[r].found = None
  BY DEF CloseReturns, IInv, TypeOK
<1>3. /\ r \notin Sessions => requests'[r].pc \in {"next", "answered"}
      /\ r \in Sessions => requests'[r].pc \in {"refuse", "load"}
      /\ Found(r) = r => requests'[r].pc # "load"
  BY <1>2, Distinct DEF AfterClose
<1>4. /\ \A i \in Ids : agent'.sessions[i] =
             IF i = IdOf(Found(r)) /\ agent.sessions[i] = Found(r)
               THEN None ELSE agent.sessions[i]
      /\ agent'.deleted = agent.deleted /\ agent'.restores = agent.restores
  BY DEF CloseReturns, Detached, IInv, TypeOK
<1>5. UNCHANGED <<sessions, shutdown, installed>> /\ installed \subseteq Sessions
  BY DEF CloseReturns, IInv, TypeOK
<1>6. \A q \in Sessions : ~At(q, "idle") =>
        agent'.sessions[IdOf(q)] \in {agent.sessions[IdOf(q)], None}
  BY <1>4, Distinct DEF IInv, NamesInv, Named
<1>7. \A q \in Sessions \ {Found(r)} : ~At(q, "idle") /\ agent.sessions[IdOf(q)] = q =>
        agent'.sessions[IdOf(q)] = q
  BY <1>4, Distinct DEF IInv, NamesInv, Named
<1>8. NamesInv'
  BY <1>1, <1>2, <1>3, <1>4, <1>5, <1>6, <1>7, Distinct DEF IInv, NamesInv,
      Named, At, IdOf
<1>9. InstalledInv'
  BY <1>1, <1>2, <1>3, <1>4, <1>5, <1>6, <1>7, Distinct DEF IInv, TypeOK,
         InstalledInv, Closing, Ladders, OwnedInv, Found
<1>10. OwnedInv'
  BY <1>1, <1>2, <1>3, <1>4, <1>5, <1>6, <1>7, Distinct DEF IInv, TypeOK,
         OwnedInv, InstalledInv, Closing, Ladders
<1>11. MapInv'
  BY <1>1, <1>2, <1>3, <1>4, <1>5, <1>6, <1>7, Distinct DEF IInv, TypeOK,
         MapInv, InstalledInv, Closing, Ladders, IdOf
<1>12. FoundInv'
  BY <1>1, <1>2, <1>3, <1>4, <1>5, <1>6, <1>7, Distinct DEF IInv, FoundInv,
      Ladders, MapInv, Found, At
<1>13. LockInv'
  BY <1>1, <1>2, <1>3, <1>4, <1>5, <1>6, <1>7, Distinct DEF IInv, LockInv,
      Locks, Unlocked, IdOf
<1>14. FreshInv'
  <2>1. r \in Restores /\ Found(r) # r => agent'.sessions[IdOf(r)] = None
    BY <1>1, <1>4, Distinct
    DEF IInv, ReuseInv, Reusing, Ladders, NamesInv, Named, At
  <2>2. \A q \in Restores : Building(q)' =>
          (q # r /\ Building(q)) \/ (q = r /\ Found(r) # r)
    BY <1>2, <1>3, Distinct DEF Building, Closing, Ladders, Found
  <2>3. \A q \in Restores : Building(q) => ~At(q, "idle")
    BY DEF Building, Closing, Ladders, At
  <2>4. \A q \in Restores : IdOf(q)' = IdOf(q)
    BY <1>2, Distinct DEF IdOf
  <2> QED BY <1>5, <1>6, <2>1, <2>2, <2>3, <2>4, Distinct DEF IInv, FreshInv
<1>15. ReuseInv'
  BY <1>1, <1>2, <1>3, <1>4, <1>5, <1>6, <1>7, Distinct DEF IInv, ReuseInv,
      Reusing, Ladders, FoundInv, InstalledInv, Closing, IdOf, Found, MapInv,
      At
<1>16. LadderInv'
  BY <1>1, <1>2, <1>3, <1>4, <1>5, <1>6, <1>7, Distinct DEF IInv, LadderInv,
      Attached, Ended, OwnedInv, Closing, Ladders, Found, At
<1>17. LaunchedInv'
  BY <1>1, <1>2, <1>3, <1>4, <1>5, <1>6, <1>7, Distinct DEF IInv, LaunchedInv,
      Attached, Ended, OwnedInv, InstalledInv, Closing, Ladders, Found, LadderInv
<1>18. DeleteInv'
  BY <1>1, <1>2, <1>3, <1>4, <1>5, <1>6, <1>7, Distinct DEF IInv, TypeOK,
         DeleteInv, Ladders, FoundInv, IdOf, Found, NamesInv, Named
<1>19. ResidentUntilClosed'
  BY <1>1, <1>2, <1>3, <1>4, <1>5, <1>6, <1>7, Distinct DEF IInv,
      ResidentUntilClosed, Ended, IdOf, At, InstalledInv, Closing, Ladders
<1>20. DeletedStaysGone'
  BY <1>1, <1>2, <1>3, <1>4, <1>5, <1>6, <1>7, Distinct DEF IInv, TypeOK,
         DeletedStaysGone, At, IdOf, DeleteInv, Found, Ladders, NamesInv, Named
<1> QED
  BY <1>8, <1>9, <1>10, <1>11, <1>12, <1>13, <1>14, <1>15, <1>16, <1>17, <1>18,
     <1>19, <1>20
  DEF IInv

(* The hook takes the gate.                                                *)
LEMMA HookStartKeeps ==
  ASSUME IInv, TypeOK', NEW s \in Sessions, HookStart(s)
  PROVE  IInv'
<1>1. UNCHANGED <<agent, requests, shutdown, installed>>
  BY DEF HookStart
<1>2. OwnedInv'
  BY <1>1 DEF IInv, TypeOK, OwnedInv, InstalledInv, Closing, Ladders,
         HookStart, SessionType
<1>3. LadderInv'
  BY <1>1 DEF IInv, TypeOK, LadderInv, Attached, Ended, OwnedInv, Closing, Ladders, Found,
         At, HookStart, SessionType
<1>4. LaunchedInv'
  BY <1>1 DEF IInv, TypeOK, LaunchedInv, Attached, Ended, OwnedInv, InstalledInv, Closing,
         Ladders, Found, HookStart, SessionType
<1>5. ResidentUntilClosed'
  BY <1>1 DEF IInv, TypeOK, ResidentUntilClosed, Ended, IdOf, HookStart,
         SessionType
<1> QED BY <1>1, <1>2, <1>3, <1>4, <1>5, SessionKeeps

(* The opening is published, refused or failed.                            *)
LEMMA HookOpenKeeps ==
  ASSUME IInv, TypeOK', NEW s \in Sessions, HookOpen(s)
  PROVE  IInv'
<1>1. UNCHANGED <<agent, requests, shutdown, installed>>
  BY DEF HookOpen
<1>2. OwnedInv'
  BY <1>1 DEF IInv, TypeOK, OwnedInv, InstalledInv, Closing, Ladders, HookOpen,
         SessionType
<1>3. LadderInv'
  BY <1>1 DEF IInv, TypeOK, LadderInv, Attached, Ended, OwnedInv, Closing, Ladders, Found,
         At, HookOpen, SessionType
<1>4. LaunchedInv'
  BY <1>1 DEF IInv, TypeOK, LaunchedInv, Attached, Ended, OwnedInv, InstalledInv, Closing,
         Ladders, Found, HookOpen, SessionType
<1>5. ResidentUntilClosed'
  BY <1>1 DEF IInv, TypeOK, ResidentUntilClosed, Ended, IdOf, HookOpen,
         SessionType
<1> QED BY <1>1, <1>2, <1>3, <1>4, <1>5, SessionKeeps

(* A failed opening begins the ladder.                                     *)
LEMMA HookCloseKeeps ==
  ASSUME IInv, TypeOK', NEW s \in Sessions, HookClose(s)
  PROVE  IInv'
<1>1. UNCHANGED <<agent, requests, shutdown, installed>>
  BY DEF HookClose
<1>2. OwnedInv'
  BY <1>1 DEF IInv, TypeOK, OwnedInv, InstalledInv, Closing, Ladders,
         HookClose, SessionType, Begun, Owed
<1>3. LadderInv'
  BY <1>1 DEF IInv, TypeOK, LadderInv, Attached, Ended, OwnedInv, Closing, Ladders, Found,
         At, HookClose, SessionType, Begun, Owed
<1>4. LaunchedInv'
  BY <1>1 DEF IInv, TypeOK, LaunchedInv, Attached, Ended, OwnedInv, InstalledInv, Closing,
         Ladders, Found, HookClose, SessionType, Begun, Owed
<1>5. ResidentUntilClosed'
  BY <1>1 DEF IInv, TypeOK, ResidentUntilClosed, Ended, IdOf, HookClose,
         SessionType, Begun, Owed
<1> QED BY <1>1, <1>2, <1>3, <1>4, <1>5, SessionKeeps

(* A failed opening detaches its session once the ladder has ended.        *)
LEMMA HookDetachKeeps ==
  ASSUME IInv, TypeOK', NEW s \in Sessions, HookDetach(s)
  PROVE  IInv'
<1>1. /\ UNCHANGED <<requests, shutdown, installed>> /\ installed \subseteq Sessions
      /\ sessions[s].ladder = "closed"
  BY DEF HookDetach, Ended, IInv, TypeOK
<1>2. /\ \A i \in Ids : agent'.sessions[i] =
             IF i = IdOf(s) /\ agent.sessions[i] = s THEN None ELSE agent.sessions[i]
      /\ agent'.deleted = agent.deleted /\ agent'.restores = agent.restores
  BY DEF HookDetach, Detached, IInv, TypeOK
<1>3. \A t \in Sessions :
        /\ sessions'[t].runtime = sessions[t].runtime
        /\ sessions'[t].gate = sessions[t].gate
        /\ sessions'[t].ladder = sessions[t].ladder
        /\ sessions'[t].hook # "none" => sessions[t].hook # "none"
  BY DEF HookDetach, IInv, TypeOK, SessionType
<1>4. \A q \in Sessions : ~At(q, "idle") =>
        agent'.sessions[IdOf(q)] \in {agent.sessions[IdOf(q)], None}
  BY <1>2, Distinct DEF IInv, NamesInv, Named
<1>5. \A q \in Sessions \ {s} : ~At(q, "idle") /\ agent.sessions[IdOf(q)] = q =>
        agent'.sessions[IdOf(q)] = q
  BY <1>2, Distinct DEF IInv, NamesInv, Named
<1>6. NamesInv'
  BY <1>1, <1>2, <1>3, <1>4, <1>5, Distinct DEF IInv, TypeOK, NamesInv, Named,
         At, IdOf
<1>7. InstalledInv'
  BY <1>1, <1>2, <1>3, <1>4, <1>5, Distinct DEF IInv, TypeOK, InstalledInv,
         Closing, Ladders, OwnedInv, Found
<1>8. OwnedInv'
  BY <1>1, <1>2, <1>3, <1>4, <1>5, Distinct DEF IInv, TypeOK, OwnedInv,
         InstalledInv, Closing, Ladders
<1>9. MapInv'
  BY <1>1, <1>2, <1>3, <1>4, <1>5, Distinct DEF IInv, TypeOK, MapInv,
         InstalledInv, Closing, Ladders, IdOf
<1>10. FoundInv'
  BY <1>1, <1>2, <1>3, <1>4, <1>5, Distinct DEF IInv, TypeOK, FoundInv,
         Ladders, MapInv, Found, At
<1>11. LockInv'
  BY <1>1, <1>2, <1>3, <1>4, <1>5, Distinct DEF IInv, TypeOK, LockInv, Locks,
         Unlocked, IdOf
<1>12. FreshInv'
  BY <1>1, <1>2, <1>3, <1>4, <1>5, Distinct DEF IInv, FreshInv, Building,
      Closing, Ladders, IdOf, Found, ReuseInv, Reusing, OwnedInv, At
<1>13. ReuseInv'
  BY <1>1, <1>2, <1>3, <1>4, <1>5, Distinct DEF IInv, ReuseInv, Reusing,
      Ladders, FoundInv, InstalledInv, Closing, IdOf, Found, MapInv, At
<1>14. LadderInv'
  BY <1>1, <1>2, <1>3, <1>4, <1>5, Distinct DEF IInv, LadderInv, Attached, Ended,
      OwnedInv, Closing, Ladders, Found, At
<1>15. LaunchedInv'
  BY <1>1, <1>2, <1>3, <1>4, <1>5, Distinct DEF IInv, TypeOK, LaunchedInv,
         Attached, Ended, OwnedInv, InstalledInv, Closing, Ladders, Found
<1>16. DeleteInv'
  BY <1>1, <1>2, <1>3, <1>4, <1>5, Distinct DEF IInv, TypeOK, DeleteInv,
         Ladders, FoundInv, IdOf, Found, NamesInv, Named
<1>17. ResidentUntilClosed'
  BY <1>1, <1>2, <1>3, <1>4, <1>5, Distinct DEF IInv, ResidentUntilClosed,
      Ended, IdOf, At, InstalledInv, Closing, Ladders
<1>18. DeletedStaysGone'
  BY <1>1, <1>2, <1>3, <1>4, <1>5, Distinct DEF IInv, TypeOK, DeletedStaysGone,
         At, IdOf, NamesInv, Named
<1> QED
  BY <1>6, <1>7, <1>8, <1>9, <1>10, <1>11, <1>12, <1>13, <1>14, <1>15, <1>16,
     <1>17, <1>18
  DEF IInv

(* A user takes the gate of an installed session.                          *)
LEMMA UserTakesKeeps ==
  ASSUME IInv, TypeOK', NEW s \in Sessions, UserTakes(s)
  PROVE  IInv'
<1>1. UNCHANGED <<agent, requests, shutdown, installed>>
  BY DEF UserTakes
<1>2. OwnedInv'
  BY <1>1 DEF IInv, TypeOK, OwnedInv, InstalledInv, Closing, Ladders,
         UserTakes, SessionType
<1>3. LadderInv'
  BY <1>1 DEF IInv, TypeOK, LadderInv, Attached, Ended, OwnedInv, Closing, Ladders, Found,
         At, UserTakes, SessionType
<1>4. LaunchedInv'
  BY <1>1 DEF IInv, TypeOK, LaunchedInv, Attached, Ended, OwnedInv, InstalledInv, Closing,
         Ladders, Found, UserTakes, SessionType
<1>5. ResidentUntilClosed'
  BY <1>1 DEF IInv, TypeOK, ResidentUntilClosed, Ended, IdOf, UserTakes,
         SessionType
<1> QED BY <1>1, <1>2, <1>3, <1>4, <1>5, SessionKeeps

(* A user starts a new pi; its session was installed.                      *)
LEMMA UserStartsKeeps ==
  ASSUME IInv, TypeOK', NEW s \in Sessions, UserStarts(s)
  PROVE  IInv'
<1>1. UNCHANGED <<agent, requests, shutdown, installed>>
  BY DEF UserStarts
<1>2. OwnedInv'
  BY <1>1 DEF IInv, TypeOK, OwnedInv, UserStarts, SessionType
<1>3. LadderInv'
  BY <1>1 DEF IInv, TypeOK, LadderInv, Found, At, UserStarts, SessionType
<1>4. LaunchedInv'
  BY <1>1 DEF IInv, TypeOK, LaunchedInv, Attached, Ended, OwnedInv, Closing,
         Ladders, Found, UserStarts, SessionType
<1>5. ResidentUntilClosed'
  BY <1>1 DEF IInv, TypeOK, ResidentUntilClosed, Ended, IdOf, UserStarts,
         SessionType
<1> QED BY <1>1, <1>2, <1>3, <1>4, <1>5, SessionKeeps

(* Only a session whose ladder has not begun is bound to it.               *)
LEMMA UserBindsKeeps ==
  ASSUME IInv, TypeOK', NEW s \in Sessions, UserBinds(s)
  PROVE  IInv'
<1>1. UNCHANGED <<agent, requests, shutdown, installed>>
  BY DEF UserBinds
<1>2. OwnedInv'
  BY <1>1 DEF IInv, TypeOK, OwnedInv, UserBinds, SessionType
<1>3. LadderInv'
  BY <1>1 DEF IInv, TypeOK, LadderInv, Found, At, UserBinds, SessionType
<1>4. LaunchedInv'
  BY <1>1 DEF IInv, TypeOK, LaunchedInv, Attached, Ended, OwnedInv, Closing,
         Ladders, Found, UserBinds, SessionType
<1>5. ResidentUntilClosed'
  BY <1>1 DEF IInv, TypeOK, ResidentUntilClosed, Ended, IdOf, UserBinds,
         SessionType
<1> QED BY <1>1, <1>2, <1>3, <1>4, <1>5, SessionKeeps

(* A launch that met a close reaps its process.                            *)
LEMMA UserReapsKeeps ==
  ASSUME IInv, TypeOK', NEW s \in Sessions, UserReaps(s)
  PROVE  IInv'
<1>1. UNCHANGED <<agent, requests, shutdown, installed>>
  BY DEF UserReaps
<1>2. OwnedInv'
  BY <1>1 DEF IInv, TypeOK, OwnedInv, UserReaps, SessionType
<1>3. LadderInv'
  BY <1>1 DEF IInv, TypeOK, LadderInv, Found, At, UserReaps, SessionType
<1>4. LaunchedInv'
  BY <1>1 DEF IInv, TypeOK, LaunchedInv, Attached, Ended, OwnedInv, Closing,
         Ladders, Found, UserReaps, SessionType
<1>5. ResidentUntilClosed'
  BY <1>1 DEF IInv, TypeOK, ResidentUntilClosed, Ended, IdOf, UserReaps,
         SessionType
<1> QED BY <1>1, <1>2, <1>3, <1>4, <1>5, SessionKeeps

(* A user lets the gate go.                                                *)
LEMMA UserReturnsKeeps ==
  ASSUME IInv, TypeOK', NEW s \in Sessions, UserReturns(s)
  PROVE  IInv'
<1>1. UNCHANGED <<agent, requests, shutdown, installed>>
  BY DEF UserReturns
<1>2. OwnedInv'
  BY <1>1 DEF IInv, TypeOK, OwnedInv, InstalledInv, Closing, Ladders,
         UserReturns, SessionType
<1>3. LadderInv'
  <2>1. \A t \in Sessions :
          /\ sessions'[t].ladder = sessions[t].ladder
          /\ sessions'[t].runtime \in {sessions[t].runtime, "none"}
          /\ sessions'[t].gate \in {sessions[t].gate, "free"}
    <3>1. CASE sessions' = [sessions EXCEPT ![s].gate = "free"]
      BY <3>1 DEF IInv, TypeOK, SessionType
    <3>2. CASE sessions' = [sessions EXCEPT ![s].runtime = "none",
                                            ![s].gate = "free"]
      BY <3>2 DEF IInv, TypeOK, SessionType
    <3> QED BY <3>1, <3>2 DEF UserReturns
  <2> QED BY <1>1, <2>1 DEF IInv, LadderInv, Found, At
<1>4. LaunchedInv'
  BY <1>1 DEF IInv, TypeOK, LaunchedInv, Attached, Ended, OwnedInv, InstalledInv, Closing,
         Ladders, Found, UserReturns, SessionType
<1>5. ResidentUntilClosed'
  BY <1>1 DEF IInv, TypeOK, ResidentUntilClosed, Ended, IdOf, UserReturns,
         SessionType
<1> QED BY <1>1, <1>2, <1>3, <1>4, <1>5, SessionKeeps

(* A process is unbound; it still runs.                                    *)
LEMMA UnbindsKeeps ==
  ASSUME IInv, TypeOK', NEW s \in Sessions, Unbinds(s)
  PROVE  IInv'
<1>1. UNCHANGED <<agent, requests, shutdown, installed>>
  BY DEF Unbinds
<1>2. OwnedInv'
  BY <1>1 DEF IInv, TypeOK, OwnedInv, Unbinds, SessionType
<1>3. LadderInv'
  BY <1>1 DEF IInv, TypeOK, LadderInv, Found, At, Unbinds, SessionType
<1>4. LaunchedInv'
  BY <1>1 DEF IInv, TypeOK, LaunchedInv, Attached, Ended, OwnedInv, Closing,
         Ladders, Found, Unbinds, SessionType
<1>5. ResidentUntilClosed'
  BY <1>1 DEF IInv, TypeOK, ResidentUntilClosed, Ended, IdOf, Unbinds,
         SessionType
<1> QED BY <1>1, <1>2, <1>3, <1>4, <1>5, SessionKeeps

(* The pump reaps an unbound process.                                      *)
LEMMA ReapedKeeps ==
  ASSUME IInv, TypeOK', NEW s \in Sessions, Reaped(s)
  PROVE  IInv'
<1>1. UNCHANGED <<agent, requests, shutdown, installed>>
  BY DEF Reaped
<1>2. OwnedInv'
  BY <1>1 DEF IInv, TypeOK, OwnedInv, Reaped, SessionType
<1>3. LadderInv'
  BY <1>1 DEF IInv, TypeOK, LadderInv, Found, At, Reaped, SessionType
<1>4. LaunchedInv'
  BY <1>1 DEF IInv, TypeOK, LaunchedInv, Attached, Ended, OwnedInv, Closing,
         Ladders, Found, Reaped, SessionType
<1>5. ResidentUntilClosed'
  BY <1>1 DEF IInv, TypeOK, ResidentUntilClosed, Ended, IdOf, Reaped,
         SessionType
<1> QED BY <1>1, <1>2, <1>3, <1>4, <1>5, SessionKeeps

(* The ladder stops the process.                                           *)
LEMMA LadderStopKeeps ==
  ASSUME IInv, TypeOK', NEW s \in Sessions, LadderStop(s)
  PROVE  IInv'
<1>1. UNCHANGED <<agent, requests, shutdown, installed>> /\ installed \subseteq Sessions
  BY DEF LadderStop, IInv, TypeOK
<1>2. /\ \A t \in Sessions \ {s} : sessions'[t] = sessions[t]
      /\ sessions[s].ladder = "stop" /\ sessions'[s].ladder \in {"join", "commit"}
      /\ sessions'[s].gate = sessions[s].gate /\ sessions'[s].hook = sessions[s].hook
      /\ sessions'[s].runtime # "bound"
      /\ sessions'[s].runtime \in {sessions[s].runtime, "none"}
  BY DEF LadderStop, Owed, IInv, TypeOK, SessionType, LadderInv
<1>3. Attached' \subseteq Attached
  BY <1>2 DEF Attached, Ended
<1>4. OwnedInv'
  BY <1>1, <1>2, <1>3 DEF IInv, OwnedInv, InstalledInv, Closing,
         Ladders
<1>5. LadderInv'
  BY <1>1, <1>2, <1>3 DEF IInv, LadderInv, Attached, Ended, OwnedInv, Closing,
         Ladders, Found, At
<1>6. LaunchedInv'
  BY <1>1, <1>2, <1>3 DEF IInv, LaunchedInv, OwnedInv,
         InstalledInv, Closing, Ladders, Found
<1>7. ResidentUntilClosed'
  BY <1>1, <1>2, <1>3 DEF IInv, ResidentUntilClosed, Ended, IdOf
<1> QED BY <1>1, <1>4, <1>5, <1>6, <1>7, SessionKeeps

(* The ladder joins an establishment.                                      *)
LEMMA LadderJoinKeeps ==
  ASSUME IInv, TypeOK', NEW s \in Sessions, LadderJoin(s)
  PROVE  IInv'
<1>1. UNCHANGED <<agent, requests, shutdown, installed>>
  BY DEF LadderJoin
<1>2. OwnedInv'
  BY <1>1 DEF IInv, TypeOK, OwnedInv, InstalledInv, Closing, Ladders,
         LadderJoin, SessionType
<1>3. LadderInv'
  BY <1>1 DEF IInv, TypeOK, LadderInv, Attached, Ended, OwnedInv, Closing, Ladders, Found,
         At, LadderJoin, SessionType
<1>4. LaunchedInv'
  BY <1>1 DEF IInv, TypeOK, LaunchedInv, Attached, Ended, OwnedInv, InstalledInv, Closing,
         Ladders, Found, LadderJoin, SessionType
<1>5. ResidentUntilClosed'
  BY <1>1 DEF IInv, TypeOK, ResidentUntilClosed, Ended, IdOf, LadderJoin,
         SessionType
<1> QED BY <1>1, <1>2, <1>3, <1>4, <1>5, SessionKeeps

(* The ladder ends.                                                        *)
LEMMA LadderCommitKeeps ==
  ASSUME IInv, TypeOK', NEW s \in Sessions, LadderCommit(s)
  PROVE  IInv'
<1>1. UNCHANGED <<agent, requests, shutdown, installed>>
  BY DEF LadderCommit
<1>2. OwnedInv'
  BY <1>1 DEF IInv, TypeOK, OwnedInv, InstalledInv, Closing, Ladders,
         LadderCommit, SessionType, Finished
<1>3. LadderInv'
  BY <1>1 DEF IInv, TypeOK, LadderInv, Attached, Ended, OwnedInv, Closing, Ladders, Found,
         At, LadderCommit, SessionType, Finished
<1>4. LaunchedInv'
  BY <1>1 DEF IInv, TypeOK, LaunchedInv, Attached, Ended, OwnedInv, InstalledInv, Closing,
         Ladders, Found, LadderCommit, SessionType, Finished
<1>5. ResidentUntilClosed'
  BY <1>1 DEF IInv, TypeOK, ResidentUntilClosed, Ended, IdOf, LadderCommit,
         SessionType, Finished
<1> QED BY <1>1, <1>2, <1>3, <1>4, <1>5, SessionKeeps

-----------------------------------------------------------------------------
(* The theorems.                                                           *)

(* The invariant holds when the agent starts.                              *)
LEMMA InvInit == Init => IInv
<1> SUFFICES ASSUME Init PROVE IInv
  OBVIOUS
<1>1. TypeOK
  BY Distinct DEF Init, TypeOK, SessionType, ListType, RequestPoints
<1>2. \A r \in Requests : /\ requests[r].pc = "idle" /\ requests[r].found = None
                          /\ requests[r].id = IF r \in News THEN r ELSE None
  BY DEF Init
<1>3. \A s \in Sessions :
        /\ sessions[s].runtime = "none" /\ sessions[s].ladder = "open"
        /\ sessions[s].gate = "free" /\ sessions[s].hook = "none"
  BY DEF Init
<1>4. agent.sessions = [i \in Ids |-> None] /\ installed = {} /\ shutdown = {}
  BY DEF Init
<1>5. NamesInv /\ InstalledInv /\ OwnedInv /\ MapInv /\ FoundInv
  BY <1>2, <1>3, <1>4, Distinct
  DEF NamesInv, Named, InstalledInv, OwnedInv, MapInv, FoundInv, IdOf, At,
     Ladders, Found
<1>6. LockInv /\ FreshInv /\ ReuseInv /\ LadderInv /\ LaunchedInv
  BY <1>2, <1>3, <1>4, Distinct
  DEF LockInv, Locks, Unlocked, FreshInv, Building, ReuseInv, Reusing, Ladders,
      LadderInv, LaunchedInv, Attached, Ended, Closing
<1>7. DeleteInv /\ ResidentUntilClosed /\ DeletedStaysGone
  BY <1>2, <1>4, Distinct
  DEF DeleteInv, ResidentUntilClosed, DeletedStaysGone, Ladders, At
<1> QED BY <1>1, <1>5, <1>6, <1>7 DEF IInv

(* A listing reads the agent and the store, and changes neither.           *)
LEMMA ListKeeps ==
  ASSUME IInv, TypeOK', UNCHANGED <<agent, sessions, requests, shutdown, installed>>
  PROVE  IInv'
<1>1. OwnedInv' /\ LadderInv' /\ LaunchedInv' /\ ResidentUntilClosed'
  BY DEF IInv, OwnedInv, LadderInv, LaunchedInv, ResidentUntilClosed, Attached, Ended,
         Closing, Ladders, Found, At, IdOf, Ended
<1> QED BY <1>1, SessionKeeps

(* Every step keeps the invariant.                                         *)
LEMMA InvStep == IInv /\ [Next]_vars => IInv'
<1> SUFFICES ASSUME IInv, [Next]_vars PROVE IInv'
  OBVIOUS
<1>1. TypeOK'
  BY TypeStep DEF IInv, NamesInv
<1>2. ASSUME NEW r \in Sessions, EstablishStep(r) PROVE IInv'
  BY <1>1, <1>2, ReserveKeeps, LaunchKeeps, ConfigureKeeps,
     InstallOrRefuseKeeps,
     ReleaseSlotKeeps, CommitKeeps, OpenKeeps, ReleaseKeeps, AbandonKeeps,
     AbandonedKeeps
  DEF EstablishStep
<1>3. ASSUME NEW r \in Restores, RestoreStep(r) PROVE IInv'
  BY <1>1, <1>3, RestoreAwaitKeeps, AcquireKeeps, SampleKeeps,
     RestoreGateKeeps,
     RestoreActiveKeeps, LoadKeeps
  DEF RestoreStep
<1>4. ASSUME NEW d \in Deletes, DeleteStep(d) PROVE IInv'
  BY <1>1, <1>4, DeleteAwaitKeeps, DeleteLookupKeeps, TombstoneKeeps, MarkKeeps
  DEF DeleteStep
<1>5. ASSUME NEW r \in Requests, RequestStep(r) PROVE IInv'
  BY <1>1, <1>2, <1>3, <1>4, <1>5, CloseAwaitKeeps, ShutdownNextKeeps,
     CallCloseKeeps, CloseReturnsKeeps
  DEF RequestStep
<1>6. ASSUME NEW s \in Sessions,
             HookStep(s) \/ LadderStep(s) \/ UserStep(s) \/ PumpStep(s)
      PROVE  IInv'
  BY <1>1, <1>6, HookStartKeeps, HookOpenKeeps, HookCloseKeeps,
     HookDetachKeeps,
     LadderStopKeeps, LadderJoinKeeps, LadderCommitKeeps, UserTakesKeeps,
     UserStartsKeeps, UserBindsKeeps, UserReapsKeeps, UserReturnsKeeps,
     UnbindsKeeps, ReapedKeeps
  DEF HookStep, LadderStep, UserStep, PumpStep
<1>7. ASSUME NEW l \in Lists, ListBegin(l) \/ ListStep(l) PROVE IInv'
  BY <1>1, <1>7, ListKeeps
  DEF ListBegin, ListStep, ListSnapshot, ListStore, ListLoad
<1>8. CASE UNCHANGED vars
  BY <1>1, <1>8, ListKeeps DEF vars
<1> QED
  BY <1>1, <1>5, <1>6, <1>7, <1>8, NewKeeps, RestoreKeeps, CloseSessionKeeps,
     DeleteKeeps, AgentCloseKeeps
  DEF Next

(* The inductive invariant says what OneLive says: an attached session is  *)
(* the one its id resolves to, or it is still being built and its id       *)
(* resolves to none.                                                       *)
LEMMA InvImplies == IInv => OneLive
<1> SUFFICES ASSUME IInv, NEW s \in Attached, NEW t \in Attached, IdOf(s) = IdOf(t)
             PROVE  s = t
  BY DEF OneLive
<1>1. \A u \in Attached \cap installed : agent.sessions[IdOf(u)] = u
  BY DEF IInv, LadderInv, ResidentUntilClosed, Attached, Ended
<1>2. \A u \in Attached \ installed :
        requests[u].pc \in {"configure", "install", "abandon"} \cup Ladders /\ Building(u)
  BY DEF IInv, LaunchedInv, Building, Closing
<1>3. \A u \in Restores \cap (Attached \ installed) :
        /\ agent.sessions[IdOf(u)] = None /\ Locks(u)
        /\ IdOf(u) \notin News \ installed
  BY <1>2 DEF IInv, FreshInv, NamesInv, Locks, Unlocked, Ladders
<1>4. \A u \in News : IdOf(u) = u
  BY DEF IInv, NamesInv
<1>5. Attached \subseteq News \cup Restores
  BY DEF Attached, Ended, Sessions
<1>6. None \notin Sessions /\ Attached \subseteq Sessions
  BY Distinct DEF Attached
<1>7. \A u \in Restores : IdOf(u) \in News => IdOf(u) \in installed
  BY DEF IInv, NamesInv
<1>8. CASE s \in installed /\ t \in installed
  BY <1>1, <1>8
<1>9. ASSUME NEW u \in Attached, NEW v \in Attached, IdOf(u) = IdOf(v),
             u \in installed, v \notin installed
      PROVE  FALSE
  <2>1. agent.sessions[IdOf(u)] = u
    BY <1>1, <1>9
  <2>2. CASE v \in Restores
    BY <1>3, <1>6, <1>9, <2>1, <2>2
  <2>3. CASE v \in News
    BY <1>4, <1>5, <1>7, <1>9, <2>3
  <2> QED BY <1>5, <2>2, <2>3
<1>10. CASE s \notin installed /\ t \notin installed
  <2>1. CASE s \in Restores /\ t \in Restores
    BY <1>3, <1>10, <2>1 DEF IInv, LockInv
  <2>2. CASE s \in News \/ t \in News
    BY <1>4, <1>5, <1>7, <1>10, <2>2
  <2> QED BY <1>5, <2>1, <2>2
<1> QED BY <1>8, <1>9, <1>10

(* Type correctness of the agent: every variable keeps its type.           *)
THEOREM RegistryTypes == Spec => []TypeOK
<1>1. IInv => TypeOK
  BY DEF IInv
<1> QED BY InvInit, InvStep, <1>1, PTL DEF Spec

(* Two sessions of one id are never attached to a pi at the same time,     *)
(* whichever requests load, resume, close and delete it, and whether pi is *)
(* starting, bound, or unbound and not yet reaped when the close begins.   *)
THEOREM OneLiveTheorem == Spec => []OneLive
  BY InvInit, InvStep, InvImplies, PTL DEF Spec

(* A session stays in the map until its ladder has ended: detach removes   *)
(* that exact session, never the one restored after it.                    *)
THEOREM ResidentTheorem == Spec => []ResidentUntilClosed
<1>1. IInv => ResidentUntilClosed
  BY DEF IInv
<1> QED BY InvInit, InvStep, <1>1, PTL DEF Spec

(* Once session/delete was answered no request brings the id back.         *)
THEOREM DeletedTheorem == Spec => []DeletedStaysGone
<1>1. IInv => DeletedStaysGone
  BY DEF IInv
<1> QED BY InvInit, InvStep, <1>1, PTL DEF Spec

=============================================================================
