-------------------------- MODULE AgentLimitProofs --------------------------
(* Two more facts about the agent, for every choice of its requests and    *)
(* limits: never more sessions than MaxActiveSessions have a pi, and a     *)
(* listing misses no session that existed while it ran.                    *)
EXTENDS AgentRegistryProofs, FiniteSetTheorems, FunctionTheorems

-----------------------------------------------------------------------------
(* The invariants.                                                         *)

(* The sessions the limit counts: those in the map and those a request     *)
(* holds a slot for.                                                       *)
Held == {agent.sessions[i] : i \in Resident} \cup agent.starting

LimitInv == IsFiniteSet(Held) /\ Cardinality(Held) <= MaxActive

(* A session that never was in the map has its slot as long as its request *)
(* may have a process to answer for.                                       *)
Starting(r) ==
  \/ requests[r].pc \in {"launch", "configure", "install", "abandon"}
  \/ Closing(r, r)

SlotInv == \A r \in Sessions \ installed : Starting(r) => r \in agent.starting

(* Where a request holds the gate of the session it builds.                *)
Gated == {"install", "slot", "commit", "open"}

(* Where a request has found no live session to reuse.                     *)
Establishing == {"idle", "load", "reserve", "launch", "configure"} \cup Gated

(* Nobody else frees that gate: a restore frees only the gate it took, a   *)
(* hook runs only behind the response.                                     *)
GateInv ==
  /\ \A r \in Sessions : requests[r].pc \in Gated => sessions[r].gate = "request"
  /\ \A q \in Sessions :
       requests[q].pc \in {"active", "release"} /\ Found(q) # None =>
         requests[Found(q)].pc \notin Gated
  /\ \A s \in Sessions : sessions[s].hook # "none" => requests[s].pc \in {"release", "answered"}
  /\ \A r \in Sessions : requests[r].pc \in Establishing => Found(r) = None

(* A session that has yet to commit first is not persisted, and its ladder *)
(* joins the request that will.                                            *)
Uncommitted == {"slot", "commit"}

JoinInv ==
  /\ \A r \in Sessions :
       r \notin installed \/ requests[r].pc \in Uncommitted => ~sessions[r].persisted
  /\ \A r \in Sessions : requests[r].pc \in Uncommitted =>
       \/ sessions[r].ladder \in {"open", "join"}
       \/ sessions[r].ladder = "stop" /\ sessions[r].join

(* A restore goes on only with an id the store had, and a tombstone goes   *)
(* ahead of the mark of a delete.                                          *)
Restoring == {"reserve", "launch", "configure", "install", "slot", "commit"}

StoreInv ==
  /\ \A i \in Stored : store[i] # "absent"
  /\ agent.ephemeral \subseteq Ephemeral
  /\ \A i \in agent.deleted \ Ephemeral : store[i] = "tombstone"
  /\ \A d \in Deletes :
       At(d, "mark") /\ IdOf(d) \notin Ephemeral => store[IdOf(d)] = "tombstone"
  /\ \A r \in Restores : requests[r].pc \in Restoring => store[IdOf(r)] # "absent"

(* A session that left the map without a commit: no other takes its id.    *)
Gone(i) == store[i] = "absent" /\ agent.sessions[i] = None /\ i \in installed

(* What became of a due id by the point a listing is at.                   *)
Accounted(l, i) ==
  /\ lists[l].pc = "snapshot" => store[i] # "absent" \/ i \in installed
  /\ lists[l].pc = "store" =>
       i \in lists[l].listed \/ store[i] # "absent" \/ Gone(i)
  /\ lists[l].pc = "load" =>
       i \in lists[l].listed \cup lists[l].summaries \/ store[i] = "tombstone" \/ Gone(i)
  /\ lists[l].pc = "answered" =>
       i \in lists[l].listed \/ store[i] = "tombstone" \/ Gone(i)

ListsInv ==
  \A l \in Lists :
    /\ lists[l].due \cap Ephemeral = {}
    /\ \A i \in lists[l].due : Accounted(l, i)
    /\ \A i \in lists[l].summaries : store[i] # "absent"

LInv == LimitInv /\ SlotInv /\ GateInv /\ JoinInv /\ StoreInv /\ ListsInv

-----------------------------------------------------------------------------
(* What the steps with several outcomes change.                            *)

(* What a session is to the invariants above.                              *)
SameBut(s, g) ==
  /\ sessions'[s].gate = g /\ sessions'[s].hook = sessions[s].hook
  /\ sessions'[s].ladder = sessions[s].ladder /\ sessions'[s].join = sessions[s].join
  /\ sessions'[s].persisted = sessions[s].persisted

Same(s) == SameBut(s, sessions[s].gate)

AgentKept ==
  /\ agent'.sessions = agent.sessions /\ agent'.starting = agent.starting
  /\ agent'.deleted = agent.deleted /\ agent'.ephemeral = agent.ephemeral

(* A request that is refused gives its slot back.                          *)
Refused(r) ==
  /\ Moved(r, "refused") /\ agent'.starting = agent.starting \ {r}
  /\ MapKept /\ agent'.ephemeral = agent.ephemeral
  /\ UNCHANGED <<lists, store, installed>>

(* A request that goes on and changes neither agent nor store.             *)
GoesOn(r, p) ==
  Moved(r, p) /\ AgentKept /\ UNCHANGED <<lists, store, installed>>

(* Refuse moves the request and gives its slot back.                       *)
LEMMA RefuseMoves ==
  ASSUME TypeOK, NEW r \in Sessions, Refuse(r), UNCHANGED <<lists, store, installed>>
  PROVE  Refused(r)
<1>1. Moved(r, "refused")
  BY GoMoves, Distinct DEF Refuse
<1>2. agent'.starting = agent.starting \ {r} /\ MapKept /\ agent'.ephemeral = agent.ephemeral
  BY DEF Refuse, Returned, TypeOK, MapKept
<1> QED BY <1>1, <1>2 DEF Refused

(* A request that only moves on.                                           *)
LEMMA GoGoesOn ==
  ASSUME TypeOK, NEW r \in Requests, NEW p, Go(r, p),
         UNCHANGED <<agent, lists, store, installed>>
  PROVE  GoesOn(r, p)
  BY GoMoves DEF GoesOn, AgentKept

(* Untouched sessions stay the same.                                       *)
LEMMA UnchangedSame ==
  ASSUME UNCHANGED sessions
  PROVE  \A s \in Sessions : Same(s)
  BY DEF Same, SameBut

(* reserveSlot refuses or takes a slot the limit leaves.                   *)
LEMMA ReserveEffect ==
  ASSUME TypeOK, NEW r \in Sessions, Reserve(r)
  PROVE  /\ \A s \in Sessions : Same(s)
         /\ \/ Refused(r)
            \/ /\ Moved(r, "launch") /\ agent'.starting = agent.starting \cup {r}
               /\ MapKept /\ agent'.ephemeral = agent.ephemeral
               /\ UNCHANGED <<lists, store, installed>>
               /\ Cardinality(Resident) + Cardinality(agent.starting) < MaxActive
<1>1. UNCHANGED <<sessions, lists, store, installed>> /\ \A s \in Sessions : Same(s)
  BY UnchangedSame DEF Reserve
<1>2. CASE Refuse(r)
  BY <1>1, <1>2, RefuseMoves
<1>3. CASE ~Refuse(r)
  <2>1. agent' = [agent EXCEPT !.starting = @ \cup {r}] /\ Go(r, "launch")
        /\ Cardinality(Resident) + Cardinality(agent.starting) < MaxActive
    BY <1>3 DEF Reserve
  <2>2. Moved(r, "launch")
    BY <2>1, GoMoves, Distinct
  <2> QED BY <1>1, <2>1, <2>2 DEF TypeOK, MapKept
<1> QED BY <1>2, <1>3

(* A launch refuses or goes on.                                            *)
LEMMA LaunchEffect ==
  ASSUME TypeOK, NEW r \in Sessions, Launch(r)
  PROVE  /\ \A s \in Sessions : Same(s)
         /\ Refused(r) \/ GoesOn(r, "configure")
<1>1. CASE UNCHANGED sessions /\ Refuse(r)
  BY <1>1, UnchangedSame, RefuseMoves DEF Launch
<1>2. CASE sessions' = [sessions EXCEPT ![r].runtime = "bound"]
           /\ Go(r, "configure") /\ UNCHANGED agent
  <2>1. \A s \in Sessions : Same(s)
    BY <1>2 DEF TypeOK, SessionType, Same, SameBut
  <2> QED BY <1>2, <2>1, GoGoesOn, Distinct DEF Launch
<1> QED BY <1>1, <1>2 DEF Launch

(* A configuration refuses or takes the gate of the fresh session.         *)
LEMMA ConfigureEffect ==
  ASSUME TypeOK, NEW r \in Sessions, Configure(r)
  PROVE  /\ \A s \in Sessions \ {r} : Same(s)
         /\ \/ Refused(r) /\ Same(r)
            \/ GoesOn(r, "install") /\ SameBut(r, "request")
<1>1. CASE sessions' = [sessions EXCEPT ![r].gate = "request"]
           /\ Go(r, "install") /\ UNCHANGED agent
  <2>1. SameBut(r, "request") /\ \A s \in Sessions \ {r} : Same(s)
    BY <1>1 DEF TypeOK, SessionType, Same, SameBut
  <2> QED BY <1>1, <2>1, GoGoesOn, Distinct DEF Configure
<1>2. CASE sessions' = [sessions EXCEPT ![r].runtime = "none"] /\ Refuse(r)
  <2>1. \A s \in Sessions : Same(s)
    BY <1>2 DEF TypeOK, SessionType, Same, SameBut
  <2> QED BY <1>2, <2>1, RefuseMoves DEF Configure
<1> QED BY <1>1, <1>2 DEF Configure

(* An install puts the session under its id or gives it up.                *)
LEMMA InstallEffect ==
  ASSUME TypeOK, NEW r \in Sessions, InstallOrRefuse(r)
  PROVE  /\ \A s \in Sessions : Same(s)
         /\ \/ GoesOn(r, "abandon")
            \/ /\ Moved(r, "slot") /\ installed' = installed \cup {r}
               /\ agent'.sessions = [agent.sessions EXCEPT ![IdOf(r)] = r]
               /\ agent'.starting = agent.starting /\ agent'.deleted = agent.deleted
               /\ agent'.ephemeral = agent.ephemeral \cup ({r} \cap Ephemeral)
               /\ UNCHANGED <<lists, store>>
<1>1. \A s \in Sessions : Same(s)
  BY UnchangedSame DEF InstallOrRefuse
<1>2. CASE Go(r, "abandon") /\ UNCHANGED <<agent, installed>>
  BY <1>1, <1>2, GoGoesOn, Distinct DEF InstallOrRefuse
<1>3. CASE Install(r)
  <2>1. Moved(r, "slot")
    BY <1>3, GoMoves, Distinct DEF Install
  <2>2. /\ agent'.sessions = [agent.sessions EXCEPT ![IdOf(r)] = r]
        /\ agent'.starting = agent.starting /\ agent'.deleted = agent.deleted
        /\ agent'.ephemeral = agent.ephemeral \cup ({r} \cap Ephemeral)
    BY <1>3 DEF Install, TypeOK
  <2> QED BY <1>1, <1>3, <2>1, <2>2 DEF Install, InstallOrRefuse
<1> QED BY <1>2, <1>3 DEF InstallOrRefuse

(* The first commit writes the id's first row, or fails.                   *)
LEMMA CommitEffect ==
  ASSUME TypeOK, NEW r \in Sessions, Commit(r)
  PROVE  /\ AgentKept /\ UNCHANGED <<lists, installed>>
         /\ \A s \in Sessions \ {r} : Same(s)
         /\ sessions'[r].gate = sessions[r].gate /\ sessions'[r].hook = sessions[r].hook
         /\ Moved(r, "open") \/ Moved(r, "abandon")
         /\ \/ UNCHANGED store
            \/ store' = [store EXCEPT ![IdOf(r)] = IF @ = "absent" THEN "stored" ELSE @]
<1>1. Moved(r, "open") \/ Moved(r, "abandon")
  BY GoMoves, Distinct DEF Commit
<1>2. UNCHANGED sessions \/ sessions' = [sessions EXCEPT ![r].persisted = TRUE]
  BY DEF Commit
<1>3. /\ \A s \in Sessions \ {r} : Same(s)
      /\ sessions'[r].gate = sessions[r].gate /\ sessions'[r].hook = sessions[r].hook
  BY <1>2 DEF TypeOK, SessionType, Same, SameBut
<1> QED BY <1>1, <1>3 DEF Commit, AgentKept

(* An opening is registered behind the response, or fails.                 *)
LEMMA OpenEffect ==
  ASSUME TypeOK, NEW r \in Sessions, Open(r)
  PROVE  /\ \A s \in Sessions \ {r} : Same(s)
         /\ GoesOn(r, "release") \/ (GoesOn(r, "abandon") /\ Same(r))
         /\ sessions'[r].persisted = sessions[r].persisted
<1>1. CASE Go(r, "abandon") /\ UNCHANGED sessions
  BY <1>1, GoGoesOn, Distinct, UnchangedSame DEF Open, Same, SameBut
<1>2. CASE sessions' = [sessions EXCEPT ![r].hook = "registered"] /\ Go(r, "release")
  <2>1. /\ \A s \in Sessions \ {r} : Same(s)
        /\ sessions'[r].persisted = sessions[r].persisted
    BY <1>2 DEF TypeOK, SessionType, Same, SameBut
  <2>2. GoesOn(r, "release")
    BY <1>2, GoGoesOn, Distinct DEF Open
  <2> QED BY <2>1, <2>2
<1> QED BY <1>1, <1>2 DEF Open

(* A restore samples the map, or finds its id deleted.                     *)
LEMMA SampleEffect ==
  ASSUME TypeOK, NEW r \in Restores, Sample(r)
  PROVE  /\ \A s \in Sessions : Same(s)
         /\ \/ Refused(r)
            \/ /\ requests'[r].pc \in {"load", "gate"} /\ requests'[r].id = requests[r].id
               /\ \A q \in Requests \ {r} : requests'[q] = requests[q]
               /\ AgentKept /\ UNCHANGED <<lists, store, installed>>
<1>1. UNCHANGED <<lists, store, installed>> /\ \A s \in Sessions : Same(s)
  BY UnchangedSame DEF Sample
<1>2. CASE IdOf(r) \in agent.deleted
  BY <1>1, <1>2, RefuseMoves, Distinct DEF Sample
<1>3. CASE IdOf(r) \notin agent.deleted
  BY <1>1, <1>3, Distinct DEF Sample, TypeOK, AgentKept
<1> QED BY <1>2, <1>3

(* A restore takes a free gate, goes on to close, or is refused.           *)
LEMMA RestoreGateEffect ==
  ASSUME TypeOK, NEW r \in Restores, RestoreGate(r), Found(r) \in Sessions
  PROVE  \/ Refused(r) /\ \A s \in Sessions : Same(s)
         \/ GoesOn(r, "close") /\ \A s \in Sessions : Same(s)
         \/ /\ GoesOn(r, "active") /\ sessions[Found(r)].gate = "free"
            /\ \A s \in Sessions \ {Found(r)} : Same(s)
            /\ SameBut(Found(r), "request")
<1>1. UNCHANGED <<lists, store, installed>> /\ r \in Sessions /\ r \in Requests
  BY Distinct DEF RestoreGate
<1>2. CASE Refuse(r) /\ UNCHANGED sessions
  BY <1>1, <1>2, RefuseMoves, UnchangedSame
<1>3. CASE UNCHANGED <<agent, sessions>> /\ Go(r, "close")
  BY <1>1, <1>3, GoGoesOn, UnchangedSame
<1>4. CASE /\ UNCHANGED agent /\ sessions[Found(r)].gate = "free"
           /\ sessions' = [sessions EXCEPT ![Found(r)].gate = "request"]
           /\ Go(r, "active")
  <2>1. SameBut(Found(r), "request") /\ \A s \in Sessions \ {Found(r)} : Same(s)
    BY <1>4 DEF TypeOK, SessionType, Same, SameBut
  <2> QED BY <1>1, <1>4, <2>1, GoGoesOn
<1> QED BY <1>2, <1>3, <1>4 DEF RestoreGate

(* A reuse is answered, or refused with its gate given up.                 *)
LEMMA RestoreActiveEffect ==
  ASSUME TypeOK, NEW r \in Restores, RestoreActive(r), Found(r) \in Sessions
  PROVE  \/ GoesOn(r, "release") /\ \A s \in Sessions : Same(s)
         \/ /\ Refused(r) /\ \A s \in Sessions \ {Found(r)} : Same(s)
            /\ SameBut(Found(r), "free")
<1>1. UNCHANGED <<lists, store, installed>> /\ r \in Sessions /\ r \in Requests
  BY Distinct DEF RestoreActive
<1>2. CASE Go(r, "release") /\ UNCHANGED <<agent, sessions>>
  BY <1>1, <1>2, GoGoesOn, UnchangedSame
<1>3. CASE sessions' = [sessions EXCEPT ![Found(r)].gate = "free"] /\ Refuse(r)
  <2>1. /\ \A s \in Sessions \ {Found(r)} : Same(s)
        /\ SameBut(Found(r), "free")
    BY <1>3 DEF TypeOK, SessionType, Same, SameBut
  <2>2. Refused(r)
    BY <1>1, <1>3, RefuseMoves
  <2> QED BY <2>1, <2>2
<1> QED BY <1>2, <1>3 DEF RestoreActive

(* A load finds the id stored, or is refused.                              *)
LEMMA LoadEffect ==
  ASSUME TypeOK, NEW r \in Restores, Load(r)
  PROVE  /\ \A s \in Sessions : Same(s)
         /\ Refused(r) \/ (GoesOn(r, "reserve") /\ store[IdOf(r)] = "stored")
<1>1. /\ UNCHANGED <<lists, store, installed>> /\ r \in Sessions /\ r \in Requests
      /\ \A s \in Sessions : Same(s)
  BY Distinct, UnchangedSame DEF Load
<1>2. CASE store[IdOf(r)] = "stored" /\ Go(r, "reserve") /\ UNCHANGED agent
  BY <1>1, <1>2, GoGoesOn
<1>3. CASE Refuse(r)
  <2>1. Refused(r)
    BY <1>1, <1>3, RefuseMoves
  <2> QED BY <1>1, <2>1
<1> QED BY <1>2, <1>3 DEF Load

-----------------------------------------------------------------------------
(* What keeps each of the invariants, in a step that moves one request.    *)

Moves(r) == \A q \in Requests \ {r} : requests'[q] = requests[q]

(* Nobody loses a slot but the request that moves.                         *)
LEMMA SlotKept ==
  ASSUME SlotInv, NEW r \in Requests, Moves(r), installed \subseteq installed',
         \A q \in Sessions \ {r} : q \in agent.starting => q \in agent'.starting,
         r \in Sessions \ installed' => (Starting(r)' => r \in agent'.starting)
  PROVE  SlotInv'
<1> SUFFICES ASSUME NEW q \in Sessions \ installed', q # r, Starting(q)'
             PROVE  q \in agent'.starting
  BY DEF SlotInv
<1>1. q \in Requests \ {r} /\ q \in Sessions \ installed
  BY Distinct
<1>2. Starting(q)
  BY <1>1 DEF Moves, Starting, Closing, Ladders, Found
<1> QED BY <1>1, <1>2 DEF SlotInv

(* Nobody loses a gate but the request that moves.                         *)
LEMMA GateKept ==
  ASSUME GateInv, FoundInv, NEW r \in Requests, Moves(r),
         \A s \in Sessions \ {r} : /\ requests[s].pc \in Gated =>
                                        sessions'[s].gate = sessions[s].gate
                                   /\ sessions'[s].hook # "none" => sessions[s].hook # "none",
         r \in Sessions =>
           /\ requests'[r].pc \in Gated =>
                /\ sessions'[r].gate = "request"
                /\ r \notin installed \/ requests[r].pc \in Gated
           /\ sessions'[r].hook # "none" => requests'[r].pc \in {"release", "answered"}
           /\ requests'[r].pc \in Establishing => requests'[r].found = None,
         r \in Sessions /\ requests'[r].pc \in {"active", "release"}
           /\ requests'[r].found # None => requests'[requests'[r].found].pc \notin Gated,
         \A q \in Requests : Found(q) \in Sessions \cup {None}
  PROVE  GateInv'
<1>1. ASSUME NEW s \in Sessions, requests'[s].pc \in Gated PROVE sessions'[s].gate = "request"
  BY <1>1, Distinct DEF GateInv, Moves
<1>2. ASSUME NEW q \in Sessions, requests'[q].pc \in {"active", "release"},
             requests'[q].found # None
      PROVE  requests'[requests'[q].found].pc \notin Gated
  <2>1. CASE q = r
    BY <1>2, <2>1
  <2>2. CASE q # r
    <3>1. q \in Requests /\ requests'[q] = requests[q] /\ Found(q) \in Sessions
      BY <1>2, <2>2, Distinct DEF Moves, Found
    <3>2. requests[Found(q)].pc \notin Gated
      BY <1>2, <3>1 DEF GateInv, Found
    <3>3. CASE Found(q) # r
      BY <3>1, <3>2, <3>3, Distinct DEF Moves, Found
    <3>4. CASE Found(q) = r
      <4>1. r \in installed
        BY <1>2, <2>2, <3>1, <3>4 DEF FoundInv, Found
      <4> QED BY <3>1, <3>2, <3>4, <4>1 DEF Found
    <3> QED BY <3>3, <3>4
  <2> QED BY <2>1, <2>2
<1>3. ASSUME NEW s \in Sessions, sessions'[s].hook # "none"
      PROVE  requests'[s].pc \in {"release", "answered"}
  BY <1>3, Distinct DEF GateInv, Moves
<1>4. ASSUME NEW q \in Sessions, requests'[q].pc \in Establishing
      PROVE  requests'[q].found = None
  BY <1>4, Distinct DEF GateInv, Moves, Found
<1> QED BY <1>1, <1>2, <1>3, <1>4 DEF GateInv, Found

(* No ladder changes but that of the session whose request moves.          *)
LEMMA JoinKept ==
  ASSUME JoinInv, NEW r \in Requests, Moves(r), installed \subseteq installed',
         \A s \in Sessions \ {r} :
           /\ sessions'[s].persisted = sessions[s].persisted
           /\ sessions'[s].ladder = sessions[s].ladder
           /\ sessions'[s].join = sessions[s].join,
         r \in Sessions =>
           /\ r \notin installed' \/ requests'[r].pc \in Uncommitted =>
                ~sessions'[r].persisted
           /\ requests'[r].pc \in Uncommitted =>
                \/ sessions'[r].ladder \in {"open", "join"}
                \/ sessions'[r].ladder = "stop" /\ sessions'[r].join
  PROVE  JoinInv'
  BY Distinct DEF JoinInv, Moves

(* The store only goes from absent to stored to tombstone.                 *)
StoreGrows ==
  \A i \in Ids : /\ store[i] = "tombstone" => store'[i] = "tombstone"
                 /\ store[i] # "absent" => store'[i] # "absent"

(* The store grows and nobody is ahead of it.                              *)
LEMMA StoreKept ==
  ASSUME StoreInv, NEW r \in Sessions, Moves(r), StoreGrows,
         \A q \in Sessions \cup Closes \cup Deletes : IdOf(q) \in Ids \/ At(q, "idle"),
         agent.deleted \subseteq Ids,
         agent'.ephemeral \subseteq agent.ephemeral \cup Ephemeral,
         agent'.deleted = agent.deleted,
         r \in Restores /\ requests'[r].pc \in Restoring =>
           store'[requests'[r].id] # "absent"
  PROVE  StoreInv'
<1>1. agent'.ephemeral \subseteq Ephemeral
  BY DEF StoreInv
<1>2. \A i \in agent'.deleted \ Ephemeral : store'[i] = "tombstone"
  BY DEF StoreInv, StoreGrows
<1>3. ASSUME NEW d \in Deletes, requests'[d].pc = "mark", requests'[d].id \notin Ephemeral
      PROVE  store'[requests'[d].id] = "tombstone"
  <2>1. requests'[d] = requests[d]
    BY Distinct DEF Moves
  <2>2. requests[d].id \in Ids
    BY <1>3, <2>1 DEF At, IdOf
  <2> QED BY <1>3, <2>1, <2>2 DEF StoreInv, StoreGrows, At, IdOf
<1>4. ASSUME NEW q \in Restores, q # r, requests'[q].pc \in Restoring
      PROVE  store'[requests'[q].id] # "absent"
  <2>1. requests'[q] = requests[q] /\ q \in Sessions
    BY <1>4, Distinct DEF Moves
  <2>2. requests[q].id \in Ids
    BY <1>4, <2>1 DEF At, IdOf, Restoring
  <2> QED BY <1>4, <2>1, <2>2 DEF StoreInv, StoreGrows, IdOf
<1>5. \A i \in Stored : store'[i] # "absent"
  BY Distinct DEF StoreInv, StoreGrows, Ids
<1> QED BY <1>1, <1>2, <1>3, <1>4, <1>5 DEF StoreInv, At, IdOf

(* A listing's account survives a growing store.                           *)
LEMMA ListsKept ==
  ASSUME ListsInv, StoreGrows, UNCHANGED lists, installed \subseteq installed',
         \A l \in Lists : lists[l] \in ListType,
         \A i \in Ids : Gone(i) => Gone(i)' \/ store'[i] = "tombstone"
  PROVE  ListsInv'
<1> SUFFICES ASSUME NEW l \in Lists
             PROVE  /\ \A i \in lists[l].due : Accounted(l, i)'
                    /\ \A i \in lists[l].summaries : store'[i] # "absent"
  BY DEF ListsInv
<1>1. lists[l].due \subseteq Ids /\ lists[l].summaries \subseteq Ids
  BY DEF ListType
<1>2. \A i \in lists[l].summaries : store'[i] # "absent"
  BY <1>1 DEF ListsInv, StoreGrows
<1>3. ASSUME NEW i \in lists[l].due PROVE Accounted(l, i)'
  <2>1. Accounted(l, i) /\ i \in Ids
    BY <1>1 DEF ListsInv
  <2> QED BY <2>1 DEF Accounted, StoreGrows
<1> QED BY <1>2, <1>3

-----------------------------------------------------------------------------
(* The steps with several outcomes.                                        *)

(* All but the limit itself.                                               *)
RestInv == SlotInv /\ GateInv /\ JoinInv /\ StoreInv /\ ListsInv

(* The types these proofs read.                                            *)
LEMMA RestTypes ==
  ASSUME IInv
  PROVE  /\ \A q \in Requests : Found(q) \in Sessions \cup {None}
         /\ \A q \in Sessions \cup Closes \cup Deletes : IdOf(q) \in Ids \/ At(q, "idle")
         /\ agent.deleted \subseteq Ids /\ agent.ephemeral \subseteq Ids
         /\ \A l \in Lists : lists[l] \in ListType
         /\ \A r \in Sessions : agent.sessions[IdOf(r)] \in Sessions \cup {None} \/ At(r, "idle")
         /\ FoundInv
  BY Distinct DEF IInv, TypeOK, NamesInv, Named, Found

(* An untouched store has grown.                                           *)
LEMMA StoreSame ==
  ASSUME UNCHANGED store
  PROVE  StoreGrows
  BY DEF StoreGrows

(* A refused request leaves nothing behind.                                *)
LEMMA RefusedKeeps ==
  ASSUME IInv, RestInv, NEW r \in Sessions, Refused(r),
         requests[r].pc \notin {"release", "answered"},
         \A s \in Sessions : Same(s) \/ (requests[s].pc \notin Gated /\ SameBut(s, "free"))
  PROVE  RestInv'
<1>1. /\ Moves(r) /\ requests'[r].pc = "refused" /\ r \in Requests
      /\ agent'.starting = agent.starting \ {r} /\ agent'.sessions = agent.sessions
      /\ agent'.deleted = agent.deleted /\ agent'.ephemeral = agent.ephemeral
      /\ UNCHANGED <<lists, store, installed>>
  BY Distinct DEF Refused, Moved, Moves, MapKept
<1>2. \A s \in Sessions :
        /\ sessions'[s].persisted = sessions[s].persisted
        /\ sessions'[s].ladder = sessions[s].ladder /\ sessions'[s].join = sessions[s].join
        /\ sessions'[s].hook = sessions[s].hook
        /\ requests[s].pc \in Gated => sessions'[s].gate = sessions[s].gate
  BY DEF Same, SameBut
<1>3. SlotInv'
  BY <1>1, SlotKept DEF RestInv, Starting, Closing, Ladders
<1>4. sessions'[r].hook = "none"
  BY <1>2 DEF RestInv, GateInv
<1>5. GateInv'
  BY <1>1, <1>2, <1>4, RestTypes, GateKept DEF RestInv, Establishing, Gated
<1>6. JoinInv'
  <2>1. r \notin installed => ~sessions[r].persisted
    BY DEF RestInv, JoinInv
  <2> QED BY <1>1, <1>2, <2>1, JoinKept DEF RestInv, Uncommitted
<1>7. StoreGrows
  BY <1>1, StoreSame
<1>8. StoreInv'
  BY <1>1, <1>7, RestTypes, StoreKept DEF RestInv, Restoring
<1>9. ListsInv'
  BY <1>1, <1>7, RestTypes, ListsKept DEF RestInv, Gone
<1> QED BY <1>3, <1>5, <1>6, <1>8, <1>9 DEF RestInv

(* A request that goes on keeps the store and the listings; what it must   *)
(* not disturb is its own slot, gate and first commit.                     *)
LEMMA GoesOnKeeps ==
  ASSUME IInv, RestInv, NEW r \in Sessions, NEW p, GoesOn(r, p),
         \A s \in Sessions \ {r} :
           Same(s) \/ \E g : requests[s].pc \notin Gated /\ SameBut(s, g),
         sessions'[r].persisted = sessions[r].persisted, p \notin Uncommitted,
         r \in installed \/ Starting(r) \/ ~Starting(r)',
         sessions'[r].hook # "none" => p \in {"release", "answered"},
         p \in Gated => /\ sessions'[r].gate = "request"
                        /\ r \notin installed \/ requests[r].pc \in Gated,
         p \in {"active", "release"} /\ Found(r) # None =>
           requests'[Found(r)].pc \notin Gated,
         p \in Establishing => requests[r].pc \in Establishing,
         r \in Restores /\ p \in Restoring => store[IdOf(r)] # "absent"
  PROVE  RestInv'
<1>1. /\ Moves(r) /\ requests'[r].pc = p /\ r \in Requests
      /\ requests'[r].id = IdOf(r) /\ requests'[r].found = Found(r)
      /\ agent'.starting = agent.starting /\ agent'.sessions = agent.sessions
      /\ agent'.deleted = agent.deleted /\ agent'.ephemeral = agent.ephemeral
      /\ UNCHANGED <<lists, store, installed>>
  BY Distinct DEF GoesOn, Moved, Moves, AgentKept, IdOf, Found
<1>2. \A s \in Sessions \ {r} :
        /\ sessions'[s].persisted = sessions[s].persisted
        /\ sessions'[s].ladder = sessions[s].ladder /\ sessions'[s].join = sessions[s].join
        /\ sessions'[s].hook = sessions[s].hook
        /\ requests[s].pc \in Gated => sessions'[s].gate = sessions[s].gate
  BY DEF Same, SameBut
<1>3. SlotInv'
  BY <1>1, SlotKept DEF RestInv, SlotInv
<1>4. GateInv'
  BY <1>1, <1>2, RestTypes, GateKept DEF RestInv, GateInv
<1>5. JoinInv'
  <2>1. r \notin installed => ~sessions[r].persisted
    BY DEF RestInv, JoinInv
  <2> QED BY <1>1, <1>2, <2>1, JoinKept DEF RestInv
<1>6. StoreGrows
  BY <1>1, StoreSame
<1>7. StoreInv'
  BY <1>1, <1>6, RestTypes, StoreKept DEF RestInv
<1>8. ListsInv'
  BY <1>1, <1>6, RestTypes, ListsKept DEF RestInv, Gone
<1> QED BY <1>3, <1>4, <1>5, <1>7, <1>8 DEF RestInv

(* A reservation counts itself before it launches.                         *)
LEMMA ReserveRest ==
  ASSUME IInv, RestInv, NEW r \in Sessions, Reserve(r)
  PROVE  RestInv'
<1>1. TypeOK /\ At(r, "reserve") /\ r \in Requests
  BY Distinct DEF IInv, Reserve
<1>2. \A s \in Sessions : Same(s)
  BY <1>1, ReserveEffect
<1>3. CASE Refused(r)
  BY <1>1, <1>2, <1>3, RefusedKeeps DEF At
<1>4. CASE /\ Moved(r, "launch") /\ agent'.starting = agent.starting \cup {r}
           /\ MapKept /\ agent'.ephemeral = agent.ephemeral
           /\ UNCHANGED <<lists, store, installed>>
  <2>1. /\ Moves(r) /\ requests'[r].pc = "launch" /\ requests'[r].id = IdOf(r)
        /\ agent'.sessions = agent.sessions /\ agent'.deleted = agent.deleted
    BY <1>4 DEF Moved, Moves, MapKept, IdOf
  <2>2. \A s \in Sessions :
          /\ sessions'[s].persisted = sessions[s].persisted
          /\ sessions'[s].ladder = sessions[s].ladder /\ sessions'[s].join = sessions[s].join
          /\ sessions'[s].hook = sessions[s].hook /\ sessions'[s].gate = sessions[s].gate
    BY <1>2 DEF Same, SameBut
  <2>3. SlotInv'
    BY <1>1, <1>4, <2>1, SlotKept DEF RestInv
  <2>4. GateInv'
    BY <1>1, <1>4, <2>1, <2>2, RestTypes, GateKept
     DEF RestInv, Gated, Establishing, GateInv, At, Moved, Found
  <2>5. JoinInv'
    BY <1>1, <1>4, <2>1, <2>2, JoinKept DEF RestInv, Uncommitted, JoinInv
  <2>6. StoreGrows
    BY <1>4, StoreSame
  <2>7. StoreInv'
    BY <1>1, <1>4, <2>1, <2>6, RestTypes, StoreKept DEF RestInv, StoreInv, Restoring, At
  <2>8. ListsInv'
    BY <1>4, <2>1, <2>6, RestTypes, ListsKept DEF RestInv, Gone
  <2> QED BY <2>3, <2>4, <2>5, <2>7, <2>8 DEF RestInv
<1> QED BY <1>1, <1>3, <1>4, ReserveEffect

(* A launch, failed or not.                                                *)
LEMMA LaunchRest ==
  ASSUME IInv, RestInv, NEW r \in Sessions, Launch(r)
  PROVE  RestInv'
<1>1. TypeOK /\ At(r, "launch") /\ \A s \in Sessions : Same(s)
  BY LaunchEffect DEF IInv, Launch
<1>2. CASE Refused(r)
  BY <1>1, <1>2, RefusedKeeps DEF At
<1>3. CASE GoesOn(r, "configure")
  <2>1. Starting(r) /\ sessions[r].hook = "none"
    BY <1>1 DEF Starting, At, RestInv, GateInv
  <2>2. /\ sessions'[r].hook = "none" /\ sessions'[r].persisted = sessions[r].persisted
        /\ r \in Restores => store[IdOf(r)] # "absent"
    BY <1>1, <2>1 DEF Same, SameBut, RestInv, StoreInv, Restoring, At
  <2> QED BY <1>1, <1>3, <2>1, <2>2, GoesOnKeeps DEF Gated, Establishing, At, Uncommitted
<1> QED BY <1>1, <1>2, <1>3, LaunchEffect

(* The gate a fresh session is configured behind.                          *)
LEMMA ConfigureRest ==
  ASSUME IInv, RestInv, NEW r \in Sessions, Configure(r)
  PROVE  RestInv'
<1>1. TypeOK /\ At(r, "configure") /\ \A s \in Sessions \ {r} : Same(s)
  BY ConfigureEffect DEF IInv, Configure
<1>2. CASE Refused(r) /\ Same(r)
  BY <1>1, <1>2, RefusedKeeps DEF At
<1>3. CASE GoesOn(r, "install") /\ SameBut(r, "request")
  <2>1. /\ Starting(r) /\ sessions[r].hook = "none" /\ r \notin installed
        /\ r \in Restores => store[IdOf(r)] # "absent"
    BY <1>1 DEF Starting, At, RestInv, GateInv, StoreInv, Restoring, IInv, InstalledInv,
                Closing, Ladders
  <2>2. /\ sessions'[r].hook = "none" /\ sessions'[r].persisted = sessions[r].persisted
        /\ sessions'[r].gate = "request"
    BY <1>3, <2>1 DEF SameBut
  <2> QED BY <1>1, <1>3, <2>1, <2>2, GoesOnKeeps DEF Gated, Establishing, At, Uncommitted
<1> QED BY <1>1, <1>2, <1>3, ConfigureEffect

(* An installed session has its slot still; it is not gone, since its id   *)
(* is one nobody was installed under or one the store has.                 *)
LEMMA InstallRest ==
  ASSUME IInv, RestInv, NEW r \in Sessions, InstallOrRefuse(r)
  PROVE  RestInv'
<1>1. TypeOK /\ At(r, "install") /\ (\A s \in Sessions : Same(s)) /\ r \in Requests
  BY InstallEffect, Distinct DEF IInv, InstallOrRefuse
<1>2. /\ Starting(r) /\ sessions[r].hook = "none" /\ r \notin installed
      /\ r \in Restores => store[IdOf(r)] # "absent"
      /\ sessions[r].gate = "request" /\ ~sessions[r].persisted
  BY <1>1 DEF Starting, At, RestInv, GateInv, Gated, JoinInv, StoreInv, Restoring,
              IInv, InstalledInv, Closing, Ladders
<1>3. \A s \in Sessions :
        /\ sessions'[s].persisted = sessions[s].persisted
        /\ sessions'[s].ladder = sessions[s].ladder /\ sessions'[s].join = sessions[s].join
        /\ sessions'[s].hook = sessions[s].hook /\ sessions'[s].gate = sessions[s].gate
  BY <1>1 DEF Same, SameBut
<1>4. CASE GoesOn(r, "abandon")
  BY <1>1, <1>2, <1>3, <1>4, GoesOnKeeps DEF Gated, Establishing, At, Uncommitted, Restoring
<1>5. CASE /\ Moved(r, "slot") /\ installed' = installed \cup {r}
           /\ agent'.sessions = [agent.sessions EXCEPT ![IdOf(r)] = r]
           /\ agent'.starting = agent.starting /\ agent'.deleted = agent.deleted
           /\ agent'.ephemeral = agent.ephemeral \cup ({r} \cap Ephemeral)
           /\ UNCHANGED <<lists, store>>
  <2>1. Moves(r) /\ requests'[r].pc = "slot" /\ requests'[r].id = IdOf(r)
    BY <1>5 DEF Moved, Moves, IdOf
  <2>2. SlotInv'
    BY <1>1, <1>5, <2>1, SlotKept DEF RestInv
  <2>3. GateInv'
    BY <1>1, <1>2, <1>3, <1>5, <2>1, RestTypes, GateKept
     DEF RestInv, GateInv, Moved, Found, Gated, Establishing, At
  <2>4. sessions[r].ladder = "open"
    BY <1>1, <1>2 DEF IInv, LadderInv, At
  <2>5. JoinInv'
    BY <1>1, <1>2, <1>3, <1>5, <2>1, <2>4, JoinKept DEF RestInv
  <2>6. StoreGrows
    BY <1>5, StoreSame
  <2>7. StoreInv'
    BY <1>2, <1>5, <2>1, <2>6, RestTypes, StoreKept DEF RestInv
  <2>8. ASSUME NEW i \in Ids, Gone(i) PROVE Gone(i)'
    <3>1. i # IdOf(r)
      <4>1. CASE r \in Restores
        BY <1>2, <2>8, <4>1 DEF Gone
      <4>2. CASE r \in News
        BY <1>2, <2>8, <4>2 DEF Gone, IInv, NamesInv
      <4> QED BY <4>1, <4>2 DEF Sessions
    <3> QED BY <1>5, <2>8, <3>1 DEF Gone
  <2>9. ListsInv'
    BY <1>5, <2>6, <2>8, RestTypes, ListsKept DEF RestInv
  <2> QED BY <2>2, <2>3, <2>5, <2>7, <2>9 DEF RestInv
<1> QED BY <1>1, <1>4, <1>5, InstallEffect

(* The first commit of a session in the map: its ladder waits for it.      *)
LEMMA CommitRest ==
  ASSUME IInv, RestInv, NEW r \in Sessions, Commit(r)
  PROVE  RestInv'
<1>1. TypeOK /\ At(r, "commit") /\ r \in Requests
  BY Distinct DEF IInv, Commit
<1>2. /\ AgentKept /\ UNCHANGED <<lists, installed>>
      /\ \A s \in Sessions \ {r} : Same(s)
      /\ sessions'[r].gate = sessions[r].gate /\ sessions'[r].hook = sessions[r].hook
      /\ Moved(r, "open") \/ Moved(r, "abandon")
      /\ \/ UNCHANGED store
         \/ store' = [store EXCEPT ![IdOf(r)] = IF @ = "absent" THEN "stored" ELSE @]
  BY <1>1, CommitEffect
<1>3. /\ sessions[r].hook = "none" /\ sessions[r].gate = "request" /\ r \in installed
      /\ ~Ended(r) /\ IdOf(r) \in Ids
  BY <1>1, Distinct
     DEF At, RestInv, GateInv, Gated, JoinInv, Uncommitted, Ended, IInv, OwnedInv,
         NamesInv, Named
<1>4. Moves(r) /\ requests'[r].pc \in {"open", "abandon"} /\ requests'[r].id = IdOf(r)
  BY <1>2 DEF Moved, Moves, IdOf
<1>5. \A s \in Sessions \ {r} :
        /\ sessions'[s].persisted = sessions[s].persisted
        /\ sessions'[s].ladder = sessions[s].ladder /\ sessions'[s].join = sessions[s].join
        /\ sessions'[s].hook = sessions[s].hook /\ sessions'[s].gate = sessions[s].gate
  BY <1>2 DEF Same, SameBut
<1>6. SlotInv'
  BY <1>1, <1>2, <1>3, <1>4, SlotKept DEF RestInv, AgentKept
<1>7. GateInv'
  BY <1>1, <1>2, <1>3, <1>4, <1>5, RestTypes, GateKept
     DEF RestInv, Gated, Establishing, GateInv, Moved, Found, At
<1>8. JoinInv'
  BY <1>1, <1>2, <1>3, <1>4, <1>5, JoinKept DEF RestInv, Uncommitted
<1>9. StoreGrows
  BY <1>2 DEF StoreGrows, TypeOK, IInv
<1>10. StoreInv'
  BY <1>2, <1>4, <1>9, RestTypes, StoreKept DEF RestInv, AgentKept, Restoring
<1>11. agent.sessions[IdOf(r)] = r /\ r # None
  BY <1>3, Distinct DEF IInv, ResidentUntilClosed
<1>12. ASSUME NEW i \in Ids, Gone(i) PROVE Gone(i)'
  <2>1. i # IdOf(r)
    BY <1>11, <1>12 DEF Gone
  <2>2. store'[i] = store[i]
    BY <1>2, <2>1 DEF IInv, TypeOK
  <2> QED BY <1>2, <1>12, <2>2 DEF Gone, AgentKept
<1>13. ListsInv'
  BY <1>2, <1>9, <1>12, RestTypes, ListsKept DEF RestInv
<1> QED BY <1>6, <1>7, <1>8, <1>10, <1>13 DEF RestInv

(* A registered hook waits for the response.                               *)
LEMMA OpenRest ==
  ASSUME IInv, RestInv, NEW r \in Sessions, Open(r)
  PROVE  RestInv'
<1>1. TypeOK /\ At(r, "open") /\ \A s \in Sessions \ {r} : Same(s)
  BY OpenEffect DEF IInv, Open
<1>2. r \in installed /\ sessions[r].hook = "none" /\ Found(r) \in Sessions \cup {None}
  BY <1>1, RestTypes, Distinct DEF At, IInv, OwnedInv, RestInv, GateInv
<1>3. sessions'[r].persisted = sessions[r].persisted
  BY <1>1, OpenEffect
<1>4. CASE GoesOn(r, "abandon") /\ Same(r)
  BY <1>1, <1>2, <1>3, <1>4, GoesOnKeeps DEF Gated, Establishing, At, Uncommitted, Restoring, Same, SameBut
<1>5. CASE GoesOn(r, "release")
  <2>1. Found(r) = None
    BY <1>1 DEF RestInv, GateInv, Establishing, Gated, At
  <2> QED BY <2>1, <1>1, <1>2, <1>3, <1>5, GoesOnKeeps DEF Gated, Establishing, At, Uncommitted, Restoring
<1> QED BY <1>1, <1>4, <1>5, OpenEffect

(* What a restore samples decides where it goes.                           *)
LEMMA SampleRest ==
  ASSUME IInv, RestInv, NEW r \in Restores, Sample(r)
  PROVE  RestInv'
<1>1. TypeOK /\ At(r, "sample") /\ r \in Sessions /\ r \in Requests
  BY Distinct DEF IInv, Sample
<1>2. \A s \in Sessions : Same(s)
  BY <1>1, SampleEffect
<1>3. CASE Refused(r)
  BY <1>1, <1>2, <1>3, RefusedKeeps DEF At
<1>4. CASE ~Refused(r)
  <2>1. /\ Moves(r) /\ requests'[r].id = requests[r].id
        /\ AgentKept /\ UNCHANGED <<lists, store, installed>>
        /\ requests'[r].pc \in {"load", "gate"}
        /\ requests'[r].pc = "load" => requests'[r].found = None
    <3>1. IdOf(r) \notin agent.deleted
      BY <1>1, <1>4, RefuseMoves DEF Sample
    <3>2. requests' = [requests EXCEPT
            ![r].pc = IF agent.sessions[IdOf(r)] = None THEN "load" ELSE "gate",
            ![r].found = agent.sessions[IdOf(r)]]
      BY <3>1 DEF Sample
    <3> QED BY <1>1, <1>4, <3>2, SampleEffect DEF TypeOK, Moves
  <2>2. \A s \in Sessions :
          /\ sessions'[s].persisted = sessions[s].persisted
          /\ sessions'[s].ladder = sessions[s].ladder /\ sessions'[s].join = sessions[s].join
          /\ sessions'[s].hook = sessions[s].hook /\ sessions'[s].gate = sessions[s].gate
    BY <1>2 DEF Same, SameBut
  <2>3. SlotInv'
    BY <1>1, <2>1, SlotKept DEF RestInv, AgentKept, Starting, Closing, Ladders
  <2>4. GateInv'
    BY <1>1, <2>1, <2>2, RestTypes, GateKept DEF RestInv, Gated, Establishing, GateInv, At
  <2>5. JoinInv'
    BY <1>1, <2>1, <2>2, JoinKept DEF RestInv, Uncommitted, JoinInv
  <2>6. StoreGrows
    BY <2>1, StoreSame
  <2>7. StoreInv'
    BY <1>1, <2>1, <2>6, RestTypes, StoreKept DEF RestInv, AgentKept, Restoring
  <2>8. ListsInv'
    BY <2>1, <2>6, RestTypes, ListsKept DEF RestInv, AgentKept, Gone
  <2> QED BY <2>3, <2>4, <2>5, <2>7, <2>8 DEF RestInv
<1> QED BY <1>3, <1>4

(* A restore takes the free gate of the session it found, which therefore  *)
(* is not one that is being built.                                         *)
LEMMA RestoreGateRest ==
  ASSUME IInv, RestInv, NEW r \in Restores, RestoreGate(r)
  PROVE  RestInv'
<1>1. /\ TypeOK /\ At(r, "gate") /\ r \in Sessions /\ r \in Requests
      /\ Found(r) \in Sessions \ {r}
  BY Distinct DEF IInv, RestoreGate, ReuseInv, Reusing, At
<1>2. sessions[r].hook = "none"
  BY <1>1 DEF RestInv, GateInv, At
<1>3. CASE Refused(r) /\ \A s \in Sessions : Same(s)
  BY <1>1, <1>3, RefusedKeeps DEF At
<1>4. CASE GoesOn(r, "close") /\ \A s \in Sessions : Same(s)
  <2>1. sessions'[r].hook = "none" /\ sessions'[r].persisted = sessions[r].persisted
    BY <1>1, <1>2, <1>4 DEF Same, SameBut
  <2>2. ~Starting(r)'
    BY <1>1, <1>4 DEF GoesOn, Moved, Starting, Closing, Found
  <2> QED BY <1>1, <1>4, <2>1, <2>2, GoesOnKeeps
           DEF Gated, Establishing, Uncommitted, Restoring
<1>5. CASE /\ GoesOn(r, "active") /\ sessions[Found(r)].gate = "free"
           /\ \A s \in Sessions \ {Found(r)} : Same(s)
           /\ SameBut(Found(r), "request")
  <2>1. sessions'[r].hook = "none" /\ sessions'[r].persisted = sessions[r].persisted
    BY <1>1, <1>2, <1>5 DEF Same, SameBut
  <2>2. ~Starting(r)'
    BY <1>5 DEF GoesOn, Moved, Starting, Closing, Ladders
  <2>3. requests[Found(r)].pc \notin Gated
    BY <1>1, <1>5 DEF RestInv, GateInv
  <2>4. requests'[Found(r)].pc \notin Gated
    BY <1>1, <1>5, <2>3, Distinct DEF GoesOn, Moved
  <2> QED BY <1>1, <1>5, <2>1, <2>2, <2>3, <2>4, GoesOnKeeps
           DEF Gated, Establishing, Uncommitted, Restoring
<1> QED BY <1>1, <1>3, <1>4, <1>5, RestoreGateEffect

(* A restore frees only the gate it took.                                  *)
LEMMA RestoreActiveRest ==
  ASSUME IInv, RestInv, NEW r \in Restores, RestoreActive(r)
  PROVE  RestInv'
<1>1. /\ TypeOK /\ At(r, "active") /\ r \in Sessions /\ r \in Requests
      /\ Found(r) \in Sessions \ {r}
  BY Distinct DEF IInv, RestoreActive, ReuseInv, Reusing, At
<1>2. /\ sessions[r].hook = "none" /\ Found(r) # None
      /\ requests[Found(r)].pc \notin Gated
  BY <1>1, Distinct DEF RestInv, GateInv, At
<1>3. CASE Refused(r) /\ (\A s \in Sessions \ {Found(r)} : Same(s)) /\ SameBut(Found(r), "free")
  BY <1>1, <1>2, <1>3, RefusedKeeps DEF At
<1>4. CASE GoesOn(r, "release") /\ \A s \in Sessions : Same(s)
  <2>1. sessions'[r].hook = "none" /\ sessions'[r].persisted = sessions[r].persisted
    BY <1>1, <1>2, <1>4 DEF Same, SameBut
  <2>2. ~Starting(r)'
    BY <1>4 DEF GoesOn, Moved, Starting, Closing, Ladders
  <2>3. requests'[Found(r)].pc \notin Gated
    BY <1>1, <1>2, <1>4, Distinct DEF GoesOn, Moved
  <2> QED BY <1>1, <1>4, <2>1, <2>2, <2>3, GoesOnKeeps
           DEF Gated, Establishing, Uncommitted, Restoring
<1> QED BY <1>1, <1>3, <1>4, RestoreActiveEffect

(* A restore goes on with an id the store has.                             *)
LEMMA LoadRest ==
  ASSUME IInv, RestInv, NEW r \in Restores, Load(r)
  PROVE  RestInv'
<1>1. /\ TypeOK /\ At(r, "load") /\ r \in Sessions /\ \A s \in Sessions : Same(s)
  BY Distinct, LoadEffect DEF IInv, Load
<1>2. CASE Refused(r)
  BY <1>1, <1>2, RefusedKeeps DEF At
<1>3. CASE GoesOn(r, "reserve") /\ store[IdOf(r)] = "stored"
  <2>1. sessions'[r].hook = "none" /\ sessions'[r].persisted = sessions[r].persisted
    BY <1>1 DEF Same, SameBut, RestInv, GateInv, At
  <2>2. ~Starting(r)'
    BY <1>3 DEF GoesOn, Moved, Starting, Closing, Ladders
  <2> QED BY <1>1, <1>3, <2>1, <2>2, GoesOnKeeps
           DEF At, Gated, Establishing, Uncommitted
<1> QED BY <1>1, <1>2, <1>3, LoadEffect

-----------------------------------------------------------------------------
(* The other steps of a request.                                           *)

(* Where a request builds no session, or no longer.                        *)
Aside == {"await", "acquire", "sample", "load", "refuse", "close", "closed",
          "answered", "refused", "lookup", "tombstone", "mark", "next"}

(* A request that steps aside takes nothing from the one that builds.      *)
LEMMA AsideKeeps ==
  ASSUME IInv, RestInv, NEW r \in Requests, Moves(r), UNCHANGED <<lists, installed>>,
         \A q \in Sessions \ {r} : q \in agent.starting => q \in agent'.starting,
         \A s \in Sessions : Same(s) \/ \E g : requests[s].pc \notin Gated /\ SameBut(s, g),
         r \in Sessions =>
           /\ requests'[r].pc \in Aside
           /\ sessions[r].hook # "none" => requests'[r].pc = "answered"
           /\ requests'[r].pc = "load" => requests'[r].found = None
           /\ r \notin installed /\ Starting(r)' => r \in agent'.starting,
         StoreGrows, StoreInv',
         \A i \in Ids : Gone(i) => Gone(i)' \/ store'[i] = "tombstone"
  PROVE  RestInv'
<1>1. \A s \in Sessions :
        /\ sessions'[s].persisted = sessions[s].persisted
        /\ sessions'[s].ladder = sessions[s].ladder /\ sessions'[s].join = sessions[s].join
        /\ sessions'[s].hook = sessions[s].hook
        /\ requests[s].pc \in Gated => sessions'[s].gate = sessions[s].gate
  BY DEF Same, SameBut
<1>2. SlotInv'
  BY SlotKept DEF RestInv
<1>3. GateInv'
  <2>1. r \in Sessions =>
          /\ requests'[r].pc \notin Gated \cup {"active", "release"}
          /\ requests'[r].pc \in Establishing => requests'[r].found = None
    BY DEF Aside, Gated, Establishing
  <2> QED BY <1>1, <2>1, RestTypes, GateKept, Distinct DEF RestInv
<1>4. JoinInv'
  BY <1>1, JoinKept DEF RestInv, JoinInv, Aside, Uncommitted
<1>5. ListsInv'
  BY RestTypes, ListsKept DEF RestInv
<1> QED BY <1>2, <1>3, <1>4, <1>5 DEF RestInv

(* What such steps have in common: the store and the map as they were.     *)
LEMMA GoneKept ==
  ASSUME UNCHANGED <<store, installed>>, agent'.sessions = agent.sessions
  PROVE  \A i \in Ids : Gone(i) => Gone(i)'
  BY DEF Gone

(* Untouched sessions disturb no gate.                                     *)
LEMMA SameKept ==
  ASSUME UNCHANGED sessions
  PROVE  \A s \in Sessions : Same(s) \/ \E g : requests[s].pc \notin Gated /\ SameBut(s, g)
  BY UnchangedSame

(* A hook is registered only behind a request that has opened its stream.  *)
LEMMA HookRelease ==
  ASSUME RestInv, NEW r \in Sessions, requests[r].pc \notin {"release", "answered"}
  PROVE  sessions[r].hook = "none"
  BY DEF RestInv, GateInv

(* The steps of a request that change nothing but where it is.             *)
LEMMA PointRest ==
  ASSUME IInv, RestInv, NEW r \in Requests, Moves(r),
         UNCHANGED <<agent, sessions, lists, store, installed>>,
         r \in Sessions => /\ requests[r].pc \notin {"release", "answered"}
                           /\ requests'[r].pc \in {"await", "acquire", "sample", "refused"},
         r \in Deletes /\ requests'[r].pc = "mark" =>
           requests'[r].id \in Ephemeral \/ store[requests'[r].id] = "tombstone"
  PROVE  RestInv'
<1>1. StoreGrows /\ \A i \in Ids : Gone(i) => Gone(i)'
  BY StoreSame, GoneKept
<1>2. StoreInv'
  BY Distinct DEF RestInv, StoreInv, Moves, At, IdOf, Restoring
<1>3. r \in Sessions => sessions[r].hook = "none" /\ requests'[r].pc \in Aside /\ ~Starting(r)'
  BY HookRelease DEF Aside, Starting, Closing, Ladders
<1> QED BY <1>1, <1>2, <1>3, SameKept, AsideKeeps

(* They are the waits and lookups.                                         *)
LEMMA PointsRest ==
  ASSUME IInv, RestInv, NEW r \in Requests,
         \/ r \in Restores /\ Restore(r)
         \/ r \in Restores /\ RestoreAwait(r)
         \/ r \in Closes /\ CloseSession(r)
         \/ r \in Closes /\ CloseAwait(r)
         \/ r \in Deletes /\ Delete(r)
         \/ r \in Deletes /\ DeleteAwait(r)
         \/ r \in Deletes /\ DeleteLookup(r)
  PROVE  RestInv'
<1>1. CASE r \in Restores /\ Restore(r)
  <2>1. PICK i \in Ids : requests' = [requests EXCEPT ![r].pc = "await", ![r].id = i]
    BY <1>1 DEF Restore
  <2>2. Moves(r) /\ requests'[r].pc = "await"
    BY <2>1 DEF IInv, TypeOK, Moves
  <2> QED BY <1>1, <2>2, PointRest, Distinct DEF Restore, At
<1>2. CASE r \in Restores /\ RestoreAwait(r)
  BY <1>2, PointRest, Distinct DEF RestoreAwait, IInv, TypeOK, Moves, Go, At
<1>3. CASE r \in Closes /\ CloseSession(r)
  BY <1>3, PointRest, Distinct DEF CloseSession, IInv, TypeOK, Moves, Go, At
<1>4. CASE r \in Closes /\ CloseAwait(r)
  BY <1>4, PointRest, Distinct DEF CloseAwait, IInv, TypeOK, Moves, Go, At
<1>5. CASE r \in Deletes /\ Delete(r)
  <2>1. PICK i \in Ids : requests' = [requests EXCEPT ![r].pc = "await", ![r].id = i]
    BY <1>5 DEF Delete
  <2>2. Moves(r) /\ requests'[r].pc = "await"
    BY <2>1 DEF IInv, TypeOK, Moves
  <2> QED BY <1>5, <2>2, PointRest, Distinct DEF Delete
<1>6. CASE r \in Deletes /\ DeleteAwait(r)
  BY <1>6, PointRest, Distinct DEF DeleteAwait, IInv, TypeOK, Moves, Go, At
<1>7. CASE r \in Deletes /\ DeleteLookup(r)
  BY <1>7, PointRest, Distinct DEF DeleteLookup, IInv, TypeOK, Moves, Go, At, RestInv, StoreInv, IdOf
<1> QED BY <1>1, <1>2, <1>3, <1>4, <1>5, <1>6, <1>7

(* The entry of an id in agent.restores is none of these facts.            *)
LEMMA AcquireRest ==
  ASSUME IInv, RestInv, NEW r \in Restores, Acquire(r)
  PROVE  RestInv'
<1>1. /\ r \in Requests /\ r \in Sessions /\ r \notin Deletes /\ At(r, "acquire")
      /\ UNCHANGED <<sessions, lists, store, installed>>
  BY Distinct DEF Acquire
<1>2. AgentKept
  BY DEF Acquire, IInv, TypeOK, AgentKept
<1>3. Moves(r) /\ requests'[r].pc \in {"sample", "refused"}
  BY <1>1 DEF Acquire, Go, IInv, TypeOK, Moves
<1>4. StoreGrows /\ \A i \in Ids : Gone(i) => Gone(i)'
  BY <1>1, <1>2, StoreSame, GoneKept DEF AgentKept
<1>5. StoreInv'
  BY <1>1, <1>2, <1>3, <1>4, RestTypes, StoreKept DEF RestInv, AgentKept, Restoring
<1>6. sessions[r].hook = "none" /\ requests'[r].pc \in Aside /\ ~Starting(r)'
  BY <1>1, <1>3, HookRelease DEF Aside, Starting, Closing, Ladders, At
<1> QED BY <1>1, <1>2, <1>3, <1>4, <1>5, <1>6, SameKept, AsideKeeps DEF AgentKept, Aside

(* A session/new begins with nothing.                                      *)
LEMMA NewRest ==
  ASSUME IInv, RestInv, NEW r \in News, New(r)
  PROVE  RestInv'
<1>1. TypeOK /\ r \in Sessions /\ r \in Requests /\ r \notin Restores /\ At(r, "idle")
  BY Distinct DEF IInv, New
<1>2. GoesOn(r, "reserve") /\ \A s \in Sessions : Same(s)
  BY <1>1, GoGoesOn, UnchangedSame DEF New
<1>3. r \notin installed
  BY <1>1 DEF IInv, InstalledInv, Closing, Ladders, At
<1>4. Moves(r) /\ requests'[r].pc = "reserve" /\ UNCHANGED <<agent, sessions, lists, store, installed>>
  BY <1>1, <1>2 DEF GoesOn, Moved, Moves, New
<1>5. SlotInv'
  BY <1>1, <1>4, SlotKept DEF RestInv, Starting, Closing, Ladders
<1>6. requests'[r].found = None /\ sessions'[r].hook = "none"
  BY <1>1, <1>2 DEF GoesOn, Moved, RestInv, GateInv, Establishing, At, Found, Same, SameBut
<1>7. GateInv'
  BY <1>1, <1>2, <1>4, <1>6, RestTypes, GateKept DEF RestInv, Gated, Same, SameBut
<1>8. JoinInv'
  BY <1>1, <1>2, <1>3, <1>4, JoinKept DEF RestInv, JoinInv, Uncommitted, Same, SameBut
<1>9. StoreGrows /\ \A i \in Ids : Gone(i) => Gone(i)'
  BY <1>4, StoreSame, GoneKept
<1>10. StoreInv'
  BY <1>1, <1>4, <1>9, RestTypes, StoreKept DEF RestInv
<1>11. ListsInv'
  BY <1>4, <1>9, RestTypes, ListsKept DEF RestInv
<1> QED BY <1>5, <1>7, <1>8, <1>10, <1>11 DEF RestInv

(* A restore or an establishment returns: its slot may be given back, and  *)
(* the gate it frees is not one that a session is being built behind.      *)
LEMMA ReleaseSlotRest ==
  ASSUME IInv, RestInv, NEW r \in Sessions, ReleaseSlot(r)
  PROVE  RestInv'
<1>1. /\ TypeOK /\ At(r, "slot") /\ r \in Requests
      /\ UNCHANGED <<sessions, lists, store, installed>>
  BY Distinct DEF IInv, ReleaseSlot
<1>2. /\ agent'.starting = agent.starting \ {r} /\ agent'.sessions = agent.sessions
      /\ agent'.deleted = agent.deleted /\ agent'.ephemeral = agent.ephemeral
  BY <1>1 DEF ReleaseSlot, TypeOK
<1>3. Moved(r, "commit")
  BY <1>1, GoMoves DEF ReleaseSlot
<1>4. /\ Moves(r) /\ requests'[r].pc = "commit" /\ requests'[r].id = IdOf(r)
      /\ requests'[r].found = Found(r)
  BY <1>3 DEF Moved, Moves, IdOf, Found
<1>5. r \in installed /\ sessions[r].hook = "none" /\ sessions[r].gate = "request"
  BY <1>1, HookRelease DEF IInv, OwnedInv, RestInv, GateInv, Gated, At
<1>6. SlotInv'
  BY <1>1, <1>2, <1>4, <1>5, SlotKept DEF RestInv
<1>7. GateInv'
  BY <1>1, <1>4, <1>5, RestTypes, GateKept DEF RestInv, GateInv, Gated, Establishing, At
<1>8. JoinInv'
  BY <1>1, <1>4, JoinKept DEF RestInv, JoinInv, Uncommitted, At
<1>9. StoreGrows /\ \A i \in Ids : Gone(i) => Gone(i)'
  BY <1>1, <1>2, StoreSame, GoneKept
<1>10. StoreInv'
  BY <1>1, <1>2, <1>4, <1>9, RestTypes, StoreKept DEF RestInv, StoreInv, Restoring, At
<1>11. ListsInv'
  BY <1>1, <1>9, RestTypes, ListsKept DEF RestInv
<1> QED BY <1>6, <1>7, <1>8, <1>10, <1>11 DEF RestInv

(* The gate a returning handler frees is not one held by another.          *)
LEMMA ReleaseRest ==
  ASSUME IInv, RestInv, NEW r \in Sessions, Release(r)
  PROVE  RestInv'
<1> DEFINE held == IF Found(r) = None THEN r ELSE Found(r)
<1>1. /\ TypeOK /\ At(r, "release") /\ r \in Requests /\ r \notin Deletes
      /\ UNCHANGED <<lists, store, installed>> /\ held \in Sessions
      /\ Found(r) \in Sessions \cup {None}
  BY RestTypes, Distinct DEF IInv, Release
<1>2. requests[held].pc \notin Gated
  <2>1. CASE Found(r) = None
    BY <1>1, <2>1 DEF Gated, At
  <2>2. CASE Found(r) # None
    BY <1>1, <2>2 DEF RestInv, GateInv, At
  <2> QED BY <2>1, <2>2
<1>3. \A s \in Sessions : Same(s) \/ \E g : requests[s].pc \notin Gated /\ SameBut(s, g)
  <2>1. SameBut(held, "free") /\ \A s \in Sessions \ {held} : Same(s)
    BY <1>1 DEF Release, TypeOK, SessionType, Same, SameBut
  <2> QED BY <1>2, <2>1
<1>4. /\ agent'.starting = agent.starting \ {r} /\ agent'.sessions = agent.sessions
      /\ agent'.deleted = agent.deleted /\ agent'.ephemeral = agent.ephemeral
  BY <1>1 DEF Release, Returned, TypeOK
<1>5. Moved(r, "answered")
  BY <1>1, GoMoves DEF Release
<1>6. Moves(r) /\ requests'[r].pc = "answered" /\ ~Starting(r)'
  BY <1>5 DEF Moved, Moves, Starting, Closing, Ladders
<1>7. StoreGrows /\ \A i \in Ids : Gone(i) => Gone(i)'
  BY <1>1, <1>4, StoreSame, GoneKept
<1>8. StoreInv'
  BY <1>1, <1>4, <1>6, <1>7, RestTypes, StoreKept DEF RestInv, Restoring
<1> HIDE DEF held
<1> QED BY <1>1, <1>3, <1>4, <1>6, <1>7, <1>8, AsideKeeps DEF Aside

(* A failed establishment keeps its slot until its close is over.          *)
LEMMA AbandonRest ==
  ASSUME IInv, RestInv, NEW r \in Sessions, Abandon(r)
  PROVE  RestInv'
<1>1. /\ TypeOK /\ At(r, "abandon") /\ r \in Requests
      /\ UNCHANGED <<agent, lists, store, installed>>
  BY Distinct DEF IInv, Abandon
<1>2. \A s \in Sessions : Same(s) \/ \E g : requests[s].pc \notin Gated /\ SameBut(s, g)
  <2>1. SameBut(r, "free") /\ \A s \in Sessions \ {r} : Same(s)
    BY <1>1 DEF Abandon, TypeOK, SessionType, Same, SameBut
  <2>2. requests[r].pc \notin Gated
    BY <1>1 DEF Gated, At
  <2> QED BY <2>1, <2>2
<1>3. Moves(r) /\ requests'[r].pc = "close"
  BY <1>1 DEF Abandon, TypeOK, Moves
<1>4. sessions[r].hook = "none" /\ (r \notin installed => r \in agent.starting)
  BY <1>1, HookRelease DEF At, RestInv, SlotInv, Starting
<1>5. StoreGrows /\ \A i \in Ids : Gone(i) => Gone(i)'
  BY <1>1, StoreSame, GoneKept
<1>6. StoreInv'
  BY <1>1, <1>3, <1>5, RestTypes, StoreKept DEF RestInv, Restoring
<1> QED BY <1>1, <1>2, <1>3, <1>4, <1>5, <1>6, AsideKeeps DEF Aside

(* The slot of a failed establishment.                                     *)
LEMMA AbandonedRest ==
  ASSUME IInv, RestInv, NEW r \in Sessions, Abandoned(r)
  PROVE  RestInv'
<1>1. /\ TypeOK /\ At(r, "refuse") /\ UNCHANGED <<sessions, lists, store, installed>>
  BY DEF IInv, Abandoned
<1>2. Refused(r)
  BY <1>1, RefuseMoves DEF Abandoned
<1> QED BY <1>1, <1>2, UnchangedSame, RefusedKeeps DEF At

-----------------------------------------------------------------------------
(* A delete: the tombstone first, then the mark.                           *)
LEMMA TombstoneRest ==
  ASSUME IInv, RestInv, NEW r \in Deletes, Tombstone(r)
  PROVE  RestInv'
<1>1. /\ TypeOK /\ At(r, "tombstone") /\ r \in Requests /\ r \notin Sessions
      /\ UNCHANGED <<agent, sessions, lists, installed>> /\ IdOf(r) \in Ids
  BY RestTypes, Distinct DEF IInv, Tombstone, At
<1>2. /\ Moves(r) /\ requests'[r].id = IdOf(r)
      /\ \/ requests'[r].pc = "mark" /\ store' = [store EXCEPT ![IdOf(r)] = "tombstone"]
         \/ requests'[r].pc = "refused" /\ UNCHANGED store
  BY <1>1 DEF Tombstone, Go, TypeOK, Moves, IdOf
<1>3. /\ \A i \in Ids : store'[i] \in {store[i], "tombstone"}
      /\ \A i \in Ids \ {IdOf(r)} : store'[i] = store[i]
  BY <1>1, <1>2 DEF TypeOK
<1>4. StoreGrows
  BY <1>3 DEF StoreGrows
<1>5. StoreInv'
  <2>1. \A i \in agent.deleted \ Ephemeral : store'[i] = "tombstone"
    BY <1>1, <1>4, RestTypes DEF RestInv, StoreInv, StoreGrows
  <2>2. ASSUME NEW d \in Deletes, requests'[d].pc = "mark", requests'[d].id \notin Ephemeral
        PROVE  store'[requests'[d].id] = "tombstone"
    <3>1. CASE d = r
      BY <1>1, <1>2, <2>2, <3>1 DEF TypeOK
    <3>2. CASE d # r
      <4>1. requests'[d] = requests[d] /\ requests[d].id \in Ids
        BY <1>2, <2>2, <3>2, RestTypes, Distinct DEF Moves, At, IdOf
      <4> QED BY <1>4, <2>2, <4>1 DEF RestInv, StoreInv, StoreGrows, At, IdOf
    <3> QED BY <3>1, <3>2
  <2>3. ASSUME NEW q \in Restores, requests'[q].pc \in Restoring
        PROVE  store'[requests'[q].id] # "absent"
    <3>1. requests'[q] = requests[q] /\ requests[q].id \in Ids
      BY <1>1, <1>2, <2>3, RestTypes, Distinct DEF Moves, At, IdOf, Restoring
    <3> QED BY <1>4, <2>3, <3>1 DEF RestInv, StoreInv, StoreGrows, IdOf
  <2>4. \A i \in Stored : store'[i] # "absent"
    BY <1>4 DEF RestInv, StoreInv, StoreGrows, Ids
  <2> QED BY <1>1, <2>1, <2>2, <2>3, <2>4 DEF RestInv, StoreInv, At, IdOf
<1>6. \A i \in Ids : Gone(i) => Gone(i)' \/ store'[i] = "tombstone"
  BY <1>1, <1>3 DEF Gone
<1> QED BY <1>1, <1>2, <1>4, <1>5, <1>6, SameKept, AsideKeeps

(* A mark follows its tombstone.                                           *)
LEMMA MarkRest ==
  ASSUME IInv, RestInv, NEW r \in Deletes, Mark(r)
  PROVE  RestInv'
<1>1. /\ TypeOK /\ At(r, "mark") /\ r \in Requests /\ r \notin Sessions
      /\ UNCHANGED <<sessions, lists, store, installed>> /\ IdOf(r) \in Ids
  BY RestTypes, Distinct DEF IInv, Mark, At
<1>2. /\ agent'.starting = agent.starting /\ agent'.sessions = agent.sessions
      /\ agent'.deleted = agent.deleted \cup {IdOf(r)}
      /\ agent'.ephemeral \subseteq agent.ephemeral
  BY <1>1 DEF Mark, TypeOK
<1>3. /\ Moves(r) /\ requests'[r].pc \in {"answered", "close"}
  BY <1>1 DEF Mark, TypeOK, Moves
<1>4. StoreGrows /\ \A i \in Ids : Gone(i) => Gone(i)'
  BY <1>1, <1>2, StoreSame, GoneKept
<1>5. StoreInv'
  <2>1. \A i \in agent'.deleted \ Ephemeral : store'[i] = "tombstone"
    BY <1>1, <1>2 DEF RestInv, StoreInv
  <2>2. \A q \in Requests \ {r} : requests'[q] = requests[q]
    BY <1>3 DEF Moves
  <2> QED BY <1>1, <1>2, <1>3, <2>1, <2>2, Distinct DEF RestInv, StoreInv, At, IdOf, Restoring
<1> QED BY <1>1, <1>2, <1>3, <1>4, <1>5, SameKept, AsideKeeps

(* Agent.Close only reads the map.                                         *)
LEMMA ShutdownRest ==
  ASSUME IInv, RestInv, AgentClose \/ ShutdownNext
  PROVE  RestInv'
<1>1. /\ TypeOK /\ Shutdown \in Requests
      /\ Shutdown \notin Sessions \cup Deletes
      /\ UNCHANGED <<sessions, lists, store, installed>>
  BY Distinct DEF IInv, AgentClose, ShutdownNext
<1>2. AgentKept
  BY <1>1 DEF AgentClose, ShutdownNext, TypeOK, AgentKept
<1>3. Moves(Shutdown)
  <2>1. CASE AgentClose
    BY <1>1, <2>1 DEF AgentClose, Go, TypeOK, Moves
  <2>2. CASE ShutdownNext
    BY <1>1, <2>2 DEF ShutdownNext, Go, TypeOK, Moves
  <2> QED BY <2>1, <2>2
<1>4. StoreGrows /\ \A i \in Ids : Gone(i) => Gone(i)'
  BY <1>1, <1>2, StoreSame, GoneKept DEF AgentKept
<1>5. StoreInv'
  <2>1. \A q \in Requests \ {Shutdown} : requests'[q] = requests[q]
    BY <1>3 DEF Moves
  <2> QED BY <1>1, <1>2, <2>1, Distinct DEF RestInv, StoreInv, At, IdOf, AgentKept
<1> QED BY <1>1, <1>2, <1>3, <1>4, <1>5, SameKept, AsideKeeps DEF AgentKept

(* The ladder of a session that has yet to commit will join its request.   *)
LEMMA CallCloseRest ==
  ASSUME IInv, RestInv, NEW r \in Requests, CallClose(r)
  PROVE  RestInv'
<1>1. /\ TypeOK /\ At(r, "close") /\ Found(r) \in Sessions
      /\ UNCHANGED <<agent, lists, store, installed>>
  BY RestTypes DEF IInv, CallClose, FoundInv, Ladders, At
<1>2. Moved(r, "closed")
  BY <1>1, GoMoves DEF CallClose
<1>3. /\ Moves(r) /\ requests'[r].pc = "closed" /\ requests'[r].found = Found(r)
      /\ requests'[r].id = IdOf(r)
  BY <1>2 DEF Moved, Moves, Found, IdOf
<1>4. \A s \in Sessions :
        /\ sessions'[s].gate = sessions[s].gate /\ sessions'[s].hook = sessions[s].hook
        /\ sessions'[s].persisted = sessions[s].persisted
        /\ \/ /\ sessions'[s].ladder = sessions[s].ladder
              /\ sessions'[s].join = sessions[s].join
           \/ sessions'[s].ladder = "stop" /\ sessions'[s].join = ~sessions[s].persisted
           \/ sessions'[s].ladder = Owed(~sessions[s].persisted)
  BY <1>1 DEF CallClose, Begun, TypeOK, SessionType
<1>5. SlotInv'
  BY <1>1, <1>3, SlotKept DEF RestInv, SlotInv, Starting, Closing, Ladders, At, Found
<1>6. r \in Sessions => sessions[r].hook = "none"
  BY <1>1, HookRelease DEF At
<1>7. GateInv'
  BY <1>1, <1>3, <1>4, <1>6, RestTypes, GateKept DEF RestInv, Gated, Establishing
<1>8. JoinInv'
  <2>1. \A s \in Sessions : requests'[s].pc \in Uncommitted => requests[s].pc \in Uncommitted
    BY <1>3, Distinct DEF Moves, Uncommitted
  <2> QED BY <1>1, <1>4, <2>1 DEF RestInv, JoinInv, Owed
<1>9. StoreGrows /\ \A i \in Ids : Gone(i) => Gone(i)'
  BY <1>1, StoreSame, GoneKept
<1>10. StoreInv'
  <2>1. \A q \in Requests \ {r} : requests'[q] = requests[q]
    BY <1>3 DEF Moves
  <2> QED BY <1>1, <1>3, <2>1, Distinct DEF RestInv, StoreInv, At, IdOf, Restoring
<1>11. ListsInv'
  BY <1>1, <1>9, RestTypes, ListsKept DEF RestInv
<1> QED BY <1>5, <1>7, <1>8, <1>10, <1>11 DEF RestInv

(* A session that leaves the map stays out of it.                          *)
LEMMA DetachedGone ==
  ASSUME TypeOK, NEW s \in Sessions, agent' = Detached(s), UNCHANGED <<store, installed>>
  PROVE  /\ agent'.starting = agent.starting /\ agent'.deleted = agent.deleted
         /\ agent'.ephemeral = agent.ephemeral
         /\ \A i \in Ids : Gone(i) => Gone(i)'
<1>1. \A i \in Ids : agent'.sessions[i] \in {agent.sessions[i], None}
  BY DEF Detached, TypeOK
<1> QED BY <1>1 DEF Gone, Detached, TypeOK

(* A session leaves the map behind its ladder.                             *)
LEMMA CloseReturnsRest ==
  ASSUME IInv, RestInv, NEW r \in Requests, CloseReturns(r)
  PROVE  RestInv'
<1>1. /\ TypeOK /\ At(r, "closed") /\ Found(r) \in Sessions
      /\ UNCHANGED <<sessions, lists, store, installed>>
  BY RestTypes DEF IInv, CloseReturns, FoundInv, Ladders, At
<1>2. /\ Moves(r) /\ requests'[r].pc \in {"refuse", "load", "answered", "next"}
      /\ r \in Sessions => requests'[r].pc \in {"refuse", "load"}
      /\ requests'[r].found = None
  BY <1>1, Distinct DEF CloseReturns, AfterClose, TypeOK, Moves
<1>3. /\ agent'.starting = agent.starting /\ agent'.deleted = agent.deleted
      /\ agent'.ephemeral = agent.ephemeral
      /\ \A i \in Ids : Gone(i) => Gone(i)'
  BY <1>1, DetachedGone DEF CloseReturns
<1>4. StoreGrows
  BY <1>1, StoreSame
<1>5. StoreInv'
  <2>1. \A q \in Requests \ {r} : requests'[q] = requests[q]
    BY <1>2 DEF Moves
  <2> QED BY <1>1, <1>2, <1>3, <2>1, Distinct DEF RestInv, StoreInv, At, IdOf, Restoring
<1>6. r \in Sessions => sessions[r].hook = "none" /\ requests'[r].pc \in Aside /\ ~Starting(r)'
  BY <1>1, <1>2, HookRelease DEF At, Aside, Starting, Closing, Ladders
<1> QED BY <1>1, <1>2, <1>3, <1>4, <1>5, <1>6, SameKept, AsideKeeps

-----------------------------------------------------------------------------
(* The session's own steps, and the listings.                              *)

(* A session step leaves the requests, the store and the listings alone.   *)
LEMMA SessionKept ==
  ASSUME IInv, RestInv, UNCHANGED <<requests, lists, store, installed>>,
         agent'.starting = agent.starting, agent'.deleted = agent.deleted,
         agent'.ephemeral = agent.ephemeral,
         \A i \in Ids : Gone(i) => Gone(i)',
         \A s \in Sessions :
           /\ sessions'[s].persisted = sessions[s].persisted
           /\ requests[s].pc \in Gated => sessions'[s].gate = sessions[s].gate
           /\ sessions'[s].hook # "none" => sessions[s].hook # "none",
         \A s \in Sessions : requests[s].pc \in Uncommitted =>
           \/ sessions'[s].ladder \in {"open", "join"}
           \/ sessions'[s].ladder = "stop" /\ sessions'[s].join
  PROVE  RestInv'
<1>1. SlotInv'
  BY DEF RestInv, SlotInv, Starting, Closing, Found
<1>2. GateInv'
  BY DEF RestInv, GateInv, Found
<1>3. JoinInv'
  BY DEF RestInv, JoinInv
<1>4. StoreInv'
  BY DEF RestInv, StoreInv, At, IdOf
<1>5. ListsInv'
  <2>1. StoreGrows
    BY StoreSame
  <2> QED BY <2>1, RestTypes, ListsKept DEF RestInv
<1> QED BY <1>1, <1>2, <1>3, <1>4, <1>5 DEF RestInv

(* A step of one session that keeps its ladder and takes no gate a request *)
(* holds.                                                                  *)
LEMMA OneKept ==
  ASSUME IInv, RestInv, NEW s \in Sessions,
         UNCHANGED <<requests, lists, store, installed>>,
         agent'.starting = agent.starting, agent'.deleted = agent.deleted,
         agent'.ephemeral = agent.ephemeral,
         \A i \in Ids : Gone(i) => Gone(i)',
         \A t \in Sessions \ {s} : sessions'[t] = sessions[t],
         sessions'[s].persisted = sessions[s].persisted,
         sessions'[s].gate = sessions[s].gate \/ sessions[s].gate # "request",
         sessions'[s].hook # "none" => sessions[s].hook # "none",
         requests[s].pc \in Uncommitted =>
           \/ /\ sessions'[s].ladder = sessions[s].ladder
              /\ sessions'[s].join = sessions[s].join
           \/ sessions'[s].ladder \in {"open", "join"}
           \/ sessions'[s].ladder = "stop" /\ sessions'[s].join
  PROVE  RestInv'
<1>1. \A t \in Sessions :
        /\ sessions'[t].persisted = sessions[t].persisted
        /\ requests[t].pc \in Gated => sessions'[t].gate = sessions[t].gate
        /\ sessions'[t].hook # "none" => sessions[t].hook # "none"
  BY DEF RestInv, GateInv
<1>2. \A t \in Sessions : requests[t].pc \in Uncommitted =>
        \/ sessions'[t].ladder \in {"open", "join"}
        \/ sessions'[t].ladder = "stop" /\ sessions'[t].join
  BY DEF RestInv, JoinInv
<1> QED BY <1>1, <1>2, SessionKept

(* Each of them, in turn.                                                  *)
LEMMA SessionRest ==
  ASSUME IInv, RestInv, NEW s \in Sessions,
         HookStep(s) \/ LadderStep(s) \/ UserStep(s) \/ PumpStep(s)
  PROVE  RestInv'
<1>0. TypeOK /\ sessions \in [Sessions -> SessionType]
  BY DEF IInv, TypeOK
<1>a. ASSUME UNCHANGED <<agent, store, installed>>
      PROVE  \A i \in Ids : Gone(i) => Gone(i)'
  BY <1>a DEF Gone
<1>1. CASE HookStart(s)
  BY <1>0, <1>1, <1>a, OneKept DEF HookStart, SessionType
<1>2. CASE HookOpen(s)
  <2>1. PICK next \in {"none", "close"} :
          sessions' = [sessions EXCEPT ![s].gate = "free", ![s].hook = next]
    BY <1>2 DEF HookOpen
  <2>2. requests[s].pc \notin Gated \cup Uncommitted /\ sessions[s].hook # "none"
    BY <1>2 DEF HookOpen, RestInv, GateInv, Gated, Uncommitted
  <2> QED BY <1>0, <1>2, <1>a, <2>1, <2>2, SessionKept
          DEF HookOpen, SessionType, RestInv, JoinInv
<1>3. CASE HookClose(s)
  <2>1. sessions[s].hook # "none" /\ requests[s].pc \notin Gated \cup Uncommitted
    BY <1>3 DEF HookClose, RestInv, GateInv, Gated, Uncommitted
  <2> QED BY <1>0, <1>3, <1>a, <2>1, OneKept DEF HookClose, Begun, Gated, SessionType
<1>4. CASE HookDetach(s)
  <2>1. /\ agent'.starting = agent.starting /\ agent'.deleted = agent.deleted
        /\ agent'.ephemeral = agent.ephemeral
        /\ \A i \in Ids : Gone(i) => Gone(i)'
    BY <1>0, <1>4, DetachedGone DEF HookDetach
  <2> QED BY <1>0, <1>4, <2>1, OneKept DEF HookDetach, SessionType
<1>5. CASE UserTakes(s)
  BY <1>0, <1>5, <1>a, OneKept DEF UserTakes, SessionType
<1>6. CASE UserStarts(s) \/ UserBinds(s) \/ UserReaps(s)
  <2>1. CASE UserStarts(s)
    BY <1>0, <2>1, <1>a, OneKept DEF UserStarts, SessionType
  <2>2. CASE UserBinds(s)
    BY <1>0, <2>2, <1>a, OneKept DEF UserBinds, SessionType
  <2>3. CASE UserReaps(s)
    BY <1>0, <2>3, <1>a, OneKept DEF UserReaps, SessionType
  <2> QED BY <1>6, <2>1, <2>2, <2>3
<1>7. CASE UserReturns(s)
  <2>1. /\ \A t \in Sessions \ {s} : sessions'[t] = sessions[t]
        /\ sessions[s].gate # "request"
        /\ sessions'[s].persisted = sessions[s].persisted
        /\ sessions'[s].hook = sessions[s].hook
        /\ sessions'[s].ladder = sessions[s].ladder
        /\ sessions'[s].join = sessions[s].join
    BY <1>0, <1>7 DEF UserReturns, SessionType
  <2> QED BY <1>0, <1>7, <1>a, <2>1, OneKept DEF UserReturns
<1>8. CASE PumpStep(s)
  <2>1. CASE Unbinds(s)
    BY <1>0, <2>1, <1>a, OneKept DEF Unbinds, SessionType
  <2>2. CASE Reaped(s)
    BY <1>0, <2>2, <1>a, OneKept DEF Reaped, SessionType
  <2> QED BY <1>8, <2>1, <2>2 DEF PumpStep
<1>9. CASE LadderStop(s)
  <2>1. requests[s].pc \in Uncommitted => sessions[s].join
    BY <1>9 DEF LadderStop, RestInv, JoinInv
  <2>2. requests[s].pc \in Uncommitted => sessions'[s].ladder = "join"
    BY <1>0, <1>9, <2>1 DEF LadderStop, Owed, SessionType
  <2> QED BY <1>0, <1>9, <1>a, <2>2, OneKept DEF LadderStop, SessionType
<1>10. CASE LadderJoin(s)
  <2>1. requests[s].pc \notin Uncommitted
    BY <1>10 DEF LadderJoin, RestInv, GateInv, Gated, Uncommitted
  <2> QED BY <1>0, <1>10, <1>a, <2>1, OneKept DEF LadderJoin, SessionType
<1>11. CASE LadderCommit(s)
  <2>1. requests[s].pc \notin Uncommitted
    BY <1>11 DEF LadderCommit, RestInv, JoinInv
  <2>2. PICK failed \in {FALSE, sessions[s].persisted} :
          sessions' = [sessions EXCEPT ![s] = Finished(s, failed)]
    BY <1>11 DEF LadderCommit
  <2> QED BY <1>0, <1>11, <1>a, <2>1, <2>2, OneKept DEF LadderCommit, Finished, SessionType
<1> QED BY <1>1, <1>2, <1>3, <1>4, <1>5, <1>6, <1>7, <1>8, <1>9, <1>10, <1>11
        DEF HookStep, LadderStep, UserStep

(* A listing has what is due in its snapshot, or the store or nobody has   *)
(* it any more.                                                            *)
LEMMA ListRest ==
  ASSUME IInv, RestInv, NEW l \in Lists, ListBegin(l) \/ ListStep(l)
  PROVE  RestInv'
<1>1. TypeOK /\ UNCHANGED <<agent, sessions, requests, store, installed>>
  BY DEF IInv, ListBegin, ListStep, ListSnapshot, ListStore, ListLoad
<1>2. SlotInv' /\ GateInv' /\ JoinInv' /\ StoreInv'
  BY <1>1 DEF RestInv, SlotInv, Starting, Closing, Found, GateInv, JoinInv, StoreInv, At, IdOf
<1>3. \A m \in Lists \ {l} : lists'[m] = lists[m]
  BY <1>1 DEF ListBegin, ListStep, ListSnapshot, ListStore, ListLoad, TypeOK
<1>4. /\ lists[l] \in ListType /\ lists[l].due \cap Ephemeral = {}
      /\ \A i \in lists[l].due : i \in Ids /\ Accounted(l, i)
      /\ \A i \in lists[l].summaries : i \in Ids /\ store[i] # "absent"
  BY <1>1 DEF RestInv, ListsInv, TypeOK, ListType
<1>5. /\ \A i \in Ids : store[i] \in {"absent", "stored", "tombstone"}
      /\ \A i \in agent.deleted \ Ephemeral : store[i] = "tombstone"
  BY <1>1 DEF TypeOK, RestInv, StoreInv
<1>6. ASSUME NEW i \in Ids, agent.sessions[i] # None
      PROVE  i \in installed \/ store[i] # "absent"
  <2>1. agent.sessions[i] \in installed /\ IdOf(agent.sessions[i]) = i
    BY <1>6 DEF IInv, MapInv
  <2> QED BY <1>1, <2>1 DEF IInv, NamesInv, TypeOK, RestInv, StoreInv, Sessions, Ids
<1>7. /\ lists'[l].due \cap Ephemeral = {}
      /\ \A i \in lists'[l].due : Accounted(l, i)'
      /\ \A i \in lists'[l].summaries : store[i] # "absent"
  <2>1. CASE ListBegin(l)
    <3>1. /\ lists'[l].due = Listable /\ lists'[l].pc = "snapshot"
          /\ lists'[l].summaries = lists[l].summaries
      BY <1>1, <2>1 DEF ListBegin, TypeOK, ListType
    <3>2. \A i \in Listable : store[i] # "absent" \/ i \in installed
      BY <1>6 DEF Listable
    <3> QED BY <1>1, <1>4, <3>1, <3>2 DEF Accounted, Listable
  <2>2. CASE ListSnapshot(l)
    <3>1. /\ lists[l].pc = "snapshot" /\ lists'[l].pc = "store"
          /\ lists'[l].due = lists[l].due /\ lists'[l].summaries = lists[l].summaries
          /\ lists'[l].listed =
               {i \in Resident \ agent.deleted : agent.sessions[i] \notin Ephemeral}
      BY <1>1, <2>2 DEF ListSnapshot, TypeOK, ListType
    <3>2. ASSUME NEW i \in lists[l].due, i \notin lists'[l].listed, store[i] = "absent"
          PROVE  Gone(i)
      <4>1. i \in Ids /\ i \notin Ephemeral /\ i \in installed /\ i \notin agent.deleted
        BY <1>4, <1>5, <3>1, <3>2 DEF Accounted
      <4>2. agent.sessions[i] \in Ephemeral => agent.sessions[i] = i
        BY <4>1, Distinct DEF IInv, NamesInv, MapInv
      <4> QED BY <3>1, <3>2, <4>1, <4>2 DEF Resident, Gone
    <3> QED BY <1>1, <1>4, <3>1, <3>2 DEF Accounted, Gone
  <2>3. CASE ListStore(l)
    <3>1. /\ lists[l].pc = "store" /\ lists'[l].due = lists[l].due
          /\ lists'[l].listed = lists[l].listed
          /\ \/ /\ lists'[l].pc = "load"
                /\ lists'[l].summaries = {i \in Ids : store[i] = "stored"}
             \/ lists'[l].pc = "refused" /\ lists'[l].summaries = lists[l].summaries
      BY <1>1, <2>3 DEF ListStore, TypeOK, ListType
    <3> QED BY <1>1, <1>4, <1>5, <3>1 DEF Accounted, Gone
  <2>4. CASE ListLoad(l)
    <3>1. /\ lists[l].pc = "load" /\ lists'[l].due = lists[l].due
          /\ lists'[l].summaries = lists[l].summaries
          /\ \/ /\ lists'[l].pc = "answered"
                /\ lists'[l].listed = lists[l].listed \cup
                     {i \in lists[l].summaries \ agent.deleted : store[i] = "stored"}
             \/ lists'[l].pc = "refused" /\ lists'[l].listed = lists[l].listed
      BY <1>1, <2>4 DEF ListLoad, TypeOK, ListType
    <3> QED BY <1>1, <1>4, <1>5, <3>1 DEF Accounted, Gone
  <2> QED BY <2>1, <2>2, <2>3, <2>4 DEF ListStep
<1>8. ListsInv'
  <2>1. \A m \in Lists \ {l} : \A i \in lists'[m].due : Accounted(m, i)'
    BY <1>1, <1>3 DEF RestInv, ListsInv, Accounted, Gone
  <2> QED BY <1>1, <1>3, <1>7, <2>1 DEF RestInv, ListsInv
<1> QED BY <1>2, <1>8 DEF RestInv

-----------------------------------------------------------------------------
(* The limit.                                                              *)

(* Whatever holds no more sessions keeps the limit.                        *)
LEMMA FewerHeld ==
  ASSUME LimitInv, TypeOK, TypeOK',
         \A i \in Ids : agent'.sessions[i] \in {agent.sessions[i], None} \cup agent.starting,
         agent'.starting \subseteq agent.starting
  PROVE  LimitInv'
<1>1. Held' \subseteq Held
  BY DEF Held, Resident
<1>2. IsFiniteSet(Held) /\ Cardinality(Held) <= MaxActive /\ MaxActive \in Nat
  BY LimitAssumption DEF LimitInv
<1>3. IsFiniteSet(Held') /\ Cardinality(Held') <= Cardinality(Held)
  BY <1>1, <1>2, FS_Subset
<1>4. Cardinality(Held) \in Nat /\ Cardinality(Held') \in Nat
  BY <1>2, <1>3, FS_CardinalityType
<1> QED BY <1>2, <1>3, <1>4 DEF LimitInv

(* The map holds one session per id, so reserveSlot, which counts ids,     *)
(* counts the sessions.                                                    *)
LEMMA OneMoreHeld ==
  ASSUME IInv, LimitInv, NEW r \in Sessions, MapKept,
         agent'.starting = agent.starting \cup {r},
         Cardinality(Resident) + Cardinality(agent.starting) < MaxActive
  PROVE  LimitInv'
<1> DEFINE InMap == {agent.sessions[i] : i \in Resident}
<1> DEFINE f == [i \in Resident |-> agent.sessions[i]]
<1>1. IsFiniteSet(Held) /\ MaxActive \in Nat /\ InMap \subseteq Held /\ agent.starting \subseteq Held
  BY LimitAssumption DEF LimitInv, Held
<1>2. IsFiniteSet(InMap) /\ IsFiniteSet(agent.starting)
  BY <1>1, FS_Subset
<1>3. f \in Injection(Resident, InMap)
  <2>1. f \in [Resident -> InMap]
    OBVIOUS
  <2>2. \A i, j \in Resident : f[i] = f[j] => i = j
    BY DEF IInv, MapInv, Resident
  <2> QED BY <2>1, <2>2, Fun_IsInj
<1>4. f \in Surjection(Resident, InMap)
  <2>1. f \in [Resident -> InMap]
    OBVIOUS
  <2>2. \A t \in InMap : \E i \in Resident : f[i] = t
    OBVIOUS
  <2> QED BY <2>1, <2>2, Fun_IsSurj
<1> HIDE DEF f
<1>5. IsFiniteSet(Resident)
  BY <1>2, <1>3, FS_Injection
<1>6. Cardinality(InMap) <= Cardinality(Resident)
  BY <1>4, <1>5, FS_Surjection
<1>7. Held' = (InMap \cup agent.starting) \cup {r}
  BY DEF Held, MapKept, Resident
<1> HIDE DEF InMap
<1>8. /\ IsFiniteSet(InMap \cup agent.starting)
      /\ Cardinality(InMap \cup agent.starting) =
           Cardinality(InMap) + Cardinality(agent.starting)
             - Cardinality(InMap \cap agent.starting)
      /\ IsFiniteSet(InMap \cap agent.starting)
  BY <1>2, FS_Union, FS_Intersection
<1>9. /\ IsFiniteSet(Held')
      /\ Cardinality(Held') <= Cardinality(InMap \cup agent.starting) + 1
  <2>1. Cardinality(InMap \cup agent.starting) \in Nat
    BY <1>8, FS_CardinalityType
  <2>2. /\ IsFiniteSet(Held')
        /\ Cardinality(Held') =
             IF r \in InMap \cup agent.starting THEN Cardinality(InMap \cup agent.starting)
             ELSE Cardinality(InMap \cup agent.starting) + 1
    BY <1>7, <1>8, FS_AddElement, Zenon
  <2> QED BY <2>1, <2>2
<1>10. /\ Cardinality(InMap) \in Nat /\ Cardinality(agent.starting) \in Nat
       /\ Cardinality(Resident) \in Nat /\ Cardinality(Held') \in Nat
       /\ Cardinality(InMap \cap agent.starting) \in Nat
  BY <1>2, <1>5, <1>8, <1>9, FS_CardinalityType
<1>11. Cardinality(Held') <= MaxActive
  BY <1>1, <1>6, <1>8, <1>9, <1>10
<1> QED BY <1>9, <1>11 DEF LimitInv

(* Only reserveSlot takes a session more; install takes the one whose slot *)
(* it has.                                                                 *)
LEMMA LimitStep ==
  ASSUME IInv, RestInv, LimitInv, TypeOK', Next
  PROVE  LimitInv'
<1>1. TypeOK
  BY DEF IInv
<1>2. ASSUME NEW r \in Sessions, Reserve(r)
      PROVE  LimitInv'
  <2>1. CASE Refused(r)
    BY <1>1, <2>1, FewerHeld DEF Refused, MapKept
  <2>2. CASE ~Refused(r)
    BY <1>1, <1>2, <2>2, ReserveEffect, OneMoreHeld
  <2> QED BY <2>1, <2>2
<1>3. ASSUME NEW r \in Sessions, InstallOrRefuse(r)
      PROVE  LimitInv'
  <2>1. r \in agent.starting
    BY <1>1, <1>3 DEF IInv, InstalledInv, Closing, Ladders, RestInv, SlotInv, Starting,
       InstallOrRefuse, At
  <2> QED BY <1>1, <1>3, <2>1, InstallEffect, FewerHeld DEF GoesOn, AgentKept, TypeOK
<1>4. ASSUME NEW s \in Sessions, agent' = Detached(s)
      PROVE  LimitInv'
  <2>1. \A i \in Ids : agent'.sessions[i] \in {agent.sessions[i], None}
    BY <1>1, <1>4 DEF Detached, TypeOK
  <2>2. agent'.starting = agent.starting
    BY <1>1, <1>4 DEF Detached, TypeOK
  <2> QED BY <1>1, <2>1, <2>2, FewerHeld
<1>5. ASSUME agent'.sessions = agent.sessions, agent'.starting \subseteq agent.starting
      PROVE  LimitInv'
  BY <1>1, <1>5, FewerHeld
<1>6. ASSUME UNCHANGED agent PROVE LimitInv'
  BY <1>5, <1>6
<1>7. ASSUME NEW r \in Sessions, agent' = Returned(r) PROVE LimitInv'
  BY <1>1, <1>5, <1>7 DEF Returned, TypeOK
<1>8. ASSUME NEW r \in Sessions, EstablishStep(r) PROVE LimitInv'
  <2>1. CASE ReleaseSlot(r)
    BY <1>1, <1>5, <2>1 DEF ReleaseSlot, TypeOK
  <2>2. CASE Launch(r) \/ Configure(r) \/ Commit(r) \/ Open(r) \/ Release(r) \/ Abandon(r)
              \/ Abandoned(r)
    BY <1>6, <1>7, <2>2
    DEF Launch, Configure, Commit, Open, Release, Abandon, Abandoned, Refuse
  <2> QED BY <1>2, <1>3, <1>8, <2>1, <2>2 DEF EstablishStep
<1>9. ASSUME NEW r \in Restores, RestoreStep(r) PROVE LimitInv'
  <2>1. CASE Acquire(r)
    BY <1>1, <1>5, <2>1 DEF Acquire, TypeOK
  <2>2. CASE ~Acquire(r)
    BY <1>6, <1>7, <1>9, <2>2, Distinct
    DEF RestoreStep, RestoreAwait, Sample, RestoreGate, RestoreActive, Load, Refuse
  <2> QED BY <2>1, <2>2
<1>10. ASSUME NEW d \in Deletes, DeleteStep(d) PROVE LimitInv'
  <2>1. CASE Mark(d)
    BY <1>1, <1>5, <2>1 DEF Mark, TypeOK
  <2> QED BY <1>6, <1>10, <2>1 DEF DeleteStep, DeleteAwait, DeleteLookup, Tombstone
<1>11. ASSUME NEW r \in Requests, CallClose(r) \/ CloseReturns(r) PROVE LimitInv'
  <2>1. CASE CloseReturns(r)
    <3>1. Found(r) \in Sessions
      BY <2>1, RestTypes DEF CloseReturns, IInv, FoundInv, Ladders, At
    <3> QED BY <1>4, <2>1, <3>1 DEF CloseReturns
  <2> QED BY <1>6, <1>11, <2>1 DEF CallClose
<1>12. ASSUME NEW r \in Requests, RequestStep(r) PROVE LimitInv'
  BY <1>6, <1>8, <1>9, <1>10, <1>11, <1>12 DEF RequestStep, CloseAwait, ShutdownNext
<1>13. ASSUME NEW s \in Sessions, HookStep(s) \/ LadderStep(s) \/ UserStep(s) \/ PumpStep(s)
       PROVE  LimitInv'
  <2>1. CASE HookDetach(s)
    BY <1>4, <2>1 DEF HookDetach
  <2> QED BY <1>6, <1>13, <2>1
          DEF HookStep, HookStart, HookOpen, HookClose, LadderStep, LadderStop, LadderJoin,
              LadderCommit, UserStep, UserTakes, UserStarts, UserBinds, UserReaps,
              UserReturns, PumpStep, Unbinds, Reaped
<1>14. CASE AgentClose
  BY <1>1, <1>5, <1>14 DEF AgentClose, TypeOK
<1>15. ASSUME NEW r \in Requests, New(r) \/ Restore(r) \/ CloseSession(r) \/ Delete(r)
       PROVE  LimitInv'
  BY <1>6, <1>15 DEF New, Restore, CloseSession, Delete
<1>16. ASSUME NEW l \in Lists, ListBegin(l) \/ ListStep(l) PROVE LimitInv'
  BY <1>6, <1>16 DEF ListBegin, ListStep, ListSnapshot, ListStore, ListLoad
<1> QED BY <1>12, <1>13, <1>14, <1>15, <1>16, Distinct DEF Next

-----------------------------------------------------------------------------
(* The theorems.                                                           *)

(* Every step keeps the rest of the invariant.                             *)
LEMMA RestStep ==
  ASSUME IInv, RestInv, Next
  PROVE  RestInv'
<1>1. ASSUME NEW r \in Sessions, EstablishStep(r) PROVE RestInv'
  BY <1>1, ReserveRest, LaunchRest, ConfigureRest, InstallRest, ReleaseSlotRest,
     CommitRest, OpenRest, ReleaseRest, AbandonRest, AbandonedRest
  DEF EstablishStep
<1>2. ASSUME NEW r \in Restores, RestoreStep(r) PROVE RestInv'
  BY <1>2, PointsRest, AcquireRest, SampleRest, RestoreGateRest, RestoreActiveRest,
     LoadRest, Distinct
  DEF RestoreStep
<1>3. ASSUME NEW d \in Deletes, DeleteStep(d) PROVE RestInv'
  BY <1>3, PointsRest, TombstoneRest, MarkRest, Distinct DEF DeleteStep
<1>4. ASSUME NEW r \in Requests, RequestStep(r) PROVE RestInv'
  BY <1>1, <1>2, <1>3, <1>4, PointsRest, ShutdownRest, CallCloseRest, CloseReturnsRest
  DEF RequestStep
<1>5. ASSUME NEW r \in Requests,
             \/ r \in Restores /\ Restore(r)
             \/ r \in Closes /\ CloseSession(r)
             \/ r \in Deletes /\ Delete(r)
      PROVE  RestInv'
  BY <1>5, PointsRest
<1> QED BY <1>4, <1>5, NewRest, ShutdownRest, SessionRest, ListRest, Distinct DEF Next

(* At the start nothing is held.                                           *)
LEMMA LimitInvInit == Init => LInv
<1> SUFFICES ASSUME Init PROVE LInv
  OBVIOUS
<1>1. /\ \A r \in Requests : requests[r].pc = "idle" /\ requests[r].found = None
      /\ agent.starting = {} /\ Resident = {} /\ agent.deleted = {} /\ agent.ephemeral = {}
      /\ \A s \in Sessions : /\ sessions[s].hook = "none" /\ sessions[s].ladder = "open"
                             /\ ~sessions[s].persisted
      /\ \A l \in Lists : lists[l].due = {} /\ lists[l].summaries = {}
      /\ \A i \in Stored : store[i] = "stored"
  BY DEF Init, Resident, Ids
<1>2. LimitInv
  <2>1. Held = {}
    BY <1>1 DEF Held
  <2> QED BY <2>1, FS_EmptySet, LimitAssumption DEF LimitInv
<1>3. SlotInv /\ GateInv /\ JoinInv
  BY <1>1, Distinct DEF SlotInv, Starting, Closing, Ladders, GateInv, Gated, Establishing,
     JoinInv, Uncommitted, Found
<1>4. StoreInv /\ ListsInv
  BY <1>1, Distinct DEF StoreInv, At, Restoring, ListsInv
<1> QED BY <1>2, <1>3, <1>4 DEF LInv

(* Every step keeps the whole of it.                                       *)
LEMMA LimitInvStep == IInv /\ LInv /\ [Next]_vars => LInv'
<1> SUFFICES ASSUME IInv, LInv, [Next]_vars PROVE LInv'
  OBVIOUS
<1>1. RestInv /\ LimitInv
  BY DEF LInv, RestInv
<1>2. CASE Next
  <2>1. TypeOK'
    BY InvStep DEF IInv
  <2> QED BY <1>1, <1>2, <2>1, RestStep, LimitStep DEF LInv, RestInv
<1>3. CASE UNCHANGED vars
  BY <1>1, <1>3 DEF vars, LInv, LimitInv, Held, Resident, SlotInv, Starting, Closing, Ladders,
     GateInv, Gated, Establishing, JoinInv, Uncommitted, StoreInv, At, IdOf, Found, Restoring,
     ListsInv, Accounted, Gone
<1> QED BY <1>2, <1>3

(* A session with a pi is one the limit counts.                            *)
LEMMA AttachedHeld == IInv /\ LInv => Attached \subseteq Held
<1> SUFFICES ASSUME IInv, LInv, NEW s \in Attached PROVE s \in Held
  OBVIOUS
<1>1. s \in Sessions /\ s # None
  BY Distinct DEF Attached
<1>2. CASE s \in installed
  <2>1. agent.sessions[IdOf(s)] = s
    BY <1>1, <1>2 DEF IInv, LadderInv, Attached, Ended, ResidentUntilClosed
  <2>2. IdOf(s) \in Ids
    BY <1>1, <1>2, RestTypes DEF IInv, InstalledInv, Closing, Ladders, At
  <2> QED BY <1>1, <2>1, <2>2 DEF Held, Resident
<1>3. CASE s \notin installed
  <2>1. Starting(s)
    BY <1>3 DEF IInv, LaunchedInv, Starting
  <2> QED BY <1>1, <1>3, <2>1 DEF LInv, SlotInv, Held
<1> QED BY <1>2, <1>3

(* Never more sessions than MaxActiveSessions have a pi, bound to them or  *)
(* started and not yet bound, although starts overlap, a failed one gives  *)
(* its slot back late and a session may be closed while it relaunches.     *)
THEOREM LimitTheorem == Spec => []LiveWithinLimit
<1>1. IInv /\ LInv => LiveWithinLimit
  <2> SUFFICES ASSUME IInv, LInv PROVE LiveWithinLimit
    OBVIOUS
  <2>1. IsFiniteSet(Held) /\ Cardinality(Held) <= MaxActive /\ MaxActive \in Nat
    BY LimitAssumption DEF LInv, LimitInv
  <2>2. IsFiniteSet(Attached) /\ Cardinality(Attached) <= Cardinality(Held)
    BY <2>1, AttachedHeld, FS_Subset
  <2>3. Cardinality(Attached) \in Nat /\ Cardinality(Held) \in Nat
    BY <2>1, <2>2, FS_CardinalityType
  <2> QED BY <2>1, <2>2, <2>3 DEF LiveWithinLimit
<1> QED BY InvInit, InvStep, LimitInvInit, LimitInvStep, <1>1, PTL DEF Spec

(* An answered listing has every session that could be listed when it      *)
(* began and still can be, wherever it moved in between.                   *)
THEOREM ListTheorem == Spec => []ListComplete
<1>1. IInv /\ LInv => ListComplete
  BY DEF LInv, ListsInv, Accounted, Gone, ListComplete, Listable
<1> QED BY InvInit, InvStep, LimitInvInit, LimitInvStep, <1>1, PTL DEF Spec

=============================================================================
