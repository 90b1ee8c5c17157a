--------------------------- MODULE AgentRegistry ---------------------------
(***************************************************************************)
(* The agent: the map of live sessions and the requests that establish,    *)
(* restore, close, delete and list them (agent.go, agent_session.go).      *)
(*                                                                         *)
(* Each request is an actor and each critical section of a.mu one action;  *)
(* a native start, a store call or a wait ends an action.  A session is    *)
(* what the agent sees of it: its process and whether it is bound to it,   *)
(* its foreground gate and its shutdown ladder, whose inside is module     *)
(* Session.  The connection is the one Serve attaches, so the opening is a *)
(* hook behind the response.                                               *)
(***************************************************************************)
EXTENDS Naturals, FiniteSets

CONSTANTS
  News,      \* session/new requests; each also names the id pi reports
  Ephemeral, \* the new sessions their host opened as ephemeral
  Restores,  \* session/load and session/resume requests
  Closes,    \* session/close requests
  Deletes,   \* session/delete requests
  Lists,     \* session/list requests
  Stored,    \* ids the store holds when the agent starts
  Shutdown,  \* the one call of Agent.Close
  None,
  MaxActive  \* ConcurrencyLimits.MaxActiveSessions

ASSUME LimitAssumption == MaxActive \in Nat \ {0}

ASSUME RequestsAssumption ==
  /\ Ephemeral \subseteq News
  /\ News \cap Restores = {}
  /\ (News \cup Restores) \cap (Closes \cup Deletes) = {}
  /\ Closes \cap Deletes = {}
  /\ Stored \cap News = {}
  /\ None \notin News \cup Restores \cup Stored
  /\ Shutdown \notin News \cup Restores \cup Closes \cup Deletes

(* An establishing request names the session it builds.                    *)
Sessions == News \cup Restores
Requests == Sessions \cup Closes \cup Deletes \cup {Shutdown}
Ids      == News \cup Stored

VARIABLES
  agent,     \* the fields a.mu guards, and the ids being restored
  sessions,  \* every session built: process, gate, ladder, opening hook
  requests,  \* where each request is, its id and the live session it found
  lists,     \* the session/list requests
  store,     \* what the session store holds for an id
  shutdown,  \* the sessions Agent.Close has left to close
  installed  \* history: the sessions that were ever in the map

vars == <<agent, sessions, requests, lists, store, shutdown, installed>>

-----------------------------------------------------------------------------
RequestPoints ==
  {"idle", "await", "acquire", "sample", "gate", "active", "load", "reserve",
   "launch", "configure", "install", "slot", "commit", "open", "release",
   "abandon", "lookup", "tombstone", "mark", "next", "close", "closed",
   "refuse", "answered", "refused"}

(* The process of a session: none; "bound", s.runtime holds it (a pi that  *)
(* exited is bound until the pump notices); "loose", it runs but s.runtime *)
(* does not hold it, because launch has not bound it yet or because it was *)
(* unbound and is still to be reaped.  A relaunch waits until the retired  *)
(* process is gone, so a session never has two.                            *)
SessionType ==
  [runtime : {"none", "bound", "loose"},
   gate : {"free", "request", "user", "launching", "using", "hook", "ladder"},
   ladder : {"open", "stop", "join", "commit", "closed"},
   join : BOOLEAN, persisted : BOOLEAN, failed : BOOLEAN,
   hook : {"none", "registered", "opening", "close", "closed"}]

ListType ==
  [pc : {"idle", "snapshot", "store", "load", "answered", "refused"},
   due : SUBSET Ids, listed : SUBSET Ids, summaries : SUBSET Ids]

TypeOK ==
  /\ agent \in [closed : BOOLEAN, starting : SUBSET Sessions,
                sessions : [Ids -> Sessions \cup {None}],
                deleted : SUBSET Ids, ephemeral : SUBSET Ids,
                restores : SUBSET Ids]
  /\ sessions \in [Sessions -> SessionType]
  /\ requests \in [Requests -> [pc : RequestPoints, id : Ids \cup {None},
                                found : Sessions \cup {None}]]
  /\ lists \in [Lists -> ListType]
  /\ store \in [Ids -> {"absent", "stored", "tombstone"}]
  /\ shutdown \subseteq Sessions
  /\ installed \subseteq Sessions

Init ==
  /\ agent = [closed |-> FALSE, starting |-> {},
              sessions |-> [i \in Ids |-> None],
              deleted |-> {}, ephemeral |-> {}, restores |-> {}]
  /\ sessions = [s \in Sessions |->
                   [runtime |-> "none", gate |-> "free", ladder |-> "open",
                    join |-> FALSE, persisted |-> FALSE, failed |-> FALSE,
                    hook |-> "none"]]
  /\ requests = [r \in Requests |->
                   [pc |-> "idle", id |-> IF r \in News THEN r ELSE None,
                    found |-> None]]
  /\ lists = [l \in Lists |-> [pc |-> "idle", due |-> {}, listed |-> {},
                               summaries |-> {}]]
  /\ store = [i \in Ids |-> IF i \in Stored THEN "stored" ELSE "absent"]
  /\ shutdown = {}
  /\ installed = {}

-----------------------------------------------------------------------------
At(r, point) == requests[r].pc = point
IdOf(r)      == requests[r].id
Found(r)     == requests[r].found
Go(r, point) == requests' = [requests EXCEPT ![r].pc = point]

(* A client learns an id from its session/new response or from a listing.  *)
Known(i) == i \in Stored \cup installed

(* AwaitSession waits for the opening hook registered for an id.           *)
Opened(i) == \A s \in Sessions : IdOf(s) = i => sessions[s].hook = "none"

Resident == {i \in Ids : agent.sessions[i] # None}

(* A request that returns gives back its active-session slot and the       *)
(* restore of its id; it may hold neither.                                 *)
Returned(r) ==
  [agent EXCEPT !.starting = @ \ {r},
                !.restores = IF r \in Restores THEN @ \ {IdOf(r)} ELSE @]

Refuse(r) == agent' = Returned(r) /\ Go(r, "refused")

(* Mutant: detach does not compare the session it removes.                 *)
DetachedAny(s) == [agent EXCEPT !.sessions[IdOf(s)] = None]

(* detach: only while the id still resolves to this exact session.         *)
Detached(s) ==
  [agent EXCEPT !.sessions[IdOf(s)] = IF @ = s THEN None ELSE @]

-----------------------------------------------------------------------------
(* Establishment: session/new, and a session/load or session/resume that   *)
(* found no live session to reuse.                                         *)

New(n) ==
  /\ At(n, "idle") /\ ~agent.closed
  /\ Go(n, "reserve")
  /\ UNCHANGED <<agent, sessions, lists, store, shutdown, installed>>

(* Mutant: the limit counts only the sessions already in the map.          *)
ReserveUncounted(r) ==
  /\ At(r, "reserve")
  /\ IF ~agent.closed /\ Cardinality(Resident) < MaxActive
       THEN /\ agent' = [agent EXCEPT !.starting = @ \cup {r}]
            /\ Go(r, "launch")
       ELSE Refuse(r)
  /\ UNCHANGED <<sessions, lists, store, shutdown, installed>>

(* reserveSlot: the slot is held through the native start.                 *)
Reserve(r) ==
  /\ At(r, "reserve")
  /\ IF ~agent.closed
          /\ Cardinality(Resident) + Cardinality(agent.starting) < MaxActive
       THEN /\ agent' = [agent EXCEPT !.starting = @ \cup {r}]
            /\ Go(r, "launch")
       ELSE Refuse(r)
  /\ UNCHANGED <<sessions, lists, store, shutdown, installed>>

(* hydrate and launch, which reaps a process that did not start.  Nobody   *)
(* can close a session no map holds yet, so starting pi and binding it is  *)
(* one step here; a relaunch (UserStarts, UserBinds) takes two.            *)
Launch(r) ==
  /\ At(r, "launch")
  /\ \/ /\ sessions' = [sessions EXCEPT ![r].runtime = "bound"]
        /\ Go(r, "configure") /\ UNCHANGED agent
     \/ Refuse(r) /\ UNCHANGED sessions
  /\ UNCHANGED <<lists, store, shutdown, installed>>

(* configureRuntime stops the process it could not configure; on success   *)
(* the request takes the gate of its fresh session.                        *)
Configure(r) ==
  /\ At(r, "configure")
  /\ \/ /\ sessions[r].runtime = "bound"
        /\ sessions' = [sessions EXCEPT ![r].gate = "request"]
        /\ Go(r, "install") /\ UNCHANGED agent
     \/ /\ sessions' = [sessions EXCEPT ![r].runtime = "none"]
        /\ Refuse(r)
  /\ UNCHANGED <<lists, store, shutdown, installed>>

Install(r) ==
  /\ agent' = [agent EXCEPT !.sessions[IdOf(r)] = r,
                            !.ephemeral = @ \cup ({r} \cap Ephemeral)]
  /\ installed' = installed \cup {r}
  /\ Go(r, "slot")

(* Mutant: install does not look at the deleted ids.                       *)
InstallOrRefuseDeleted(r) ==
  /\ At(r, "install")
  /\ IF agent.closed \/ agent.sessions[IdOf(r)] # None
       THEN Go(r, "abandon") /\ UNCHANGED <<agent, installed>>
       ELSE Install(r)
  /\ UNCHANGED <<sessions, lists, store, shutdown>>

(* Mutant: install does not look at the closed flag again.                 *)
InstallOrRefuseClosed(r) ==
  /\ At(r, "install")
  /\ IF IdOf(r) \in agent.deleted \/ agent.sessions[IdOf(r)] # None
       THEN Go(r, "abandon") /\ UNCHANGED <<agent, installed>>
       ELSE Install(r)
  /\ UNCHANGED <<sessions, lists, store, shutdown>>

(* install refuses a closed agent, a deleted id and a taken one.           *)
InstallOrRefuse(r) ==
  /\ At(r, "install")
  /\ IF agent.closed \/ IdOf(r) \in agent.deleted
          \/ agent.sessions[IdOf(r)] # None
       THEN Go(r, "abandon") /\ UNCHANGED <<agent, installed>>
       ELSE Install(r)
  /\ UNCHANGED <<sessions, lists, store, shutdown>>

(* releaseSlot: from here on the map counts the session.                   *)
ReleaseSlot(r) ==
  /\ At(r, "slot")
  /\ agent' = [agent EXCEPT !.starting = @ \ {r}]
  /\ Go(r, "commit")
  /\ UNCHANGED <<sessions, lists, store, shutdown, installed>>

(* The first commitMirror.  A tombstoned id takes no write, though a       *)
(* restore may have none to make; an ephemeral session never writes.       *)
Commit(r) ==
  /\ At(r, "commit")
  /\ \/ /\ r \in Ephemeral
        /\ Go(r, "open") /\ UNCHANGED <<sessions, store>>
     \/ /\ r \notin Ephemeral
        /\ store[IdOf(r)] = "tombstone" => r \in Restores
        /\ store' = [store EXCEPT ![IdOf(r)] =
                       IF @ = "absent" THEN "stored" ELSE @]
        /\ sessions' = [sessions EXCEPT ![r].persisted = TRUE]
        /\ Go(r, "open")
     \/ /\ r \notin Ephemeral
        /\ Go(r, "abandon") /\ UNCHANGED <<sessions, store>>
  /\ UNCHANGED <<agent, lists, shutdown, installed>>

(* replay, then scheduleOpen registers the opening behind the response.    *)
Open(r) ==
  /\ At(r, "open")
  /\ \/ /\ sessions' = [sessions EXCEPT ![r].hook = "registered"]
        /\ Go(r, "release")
     \/ Go(r, "abandon") /\ UNCHANGED sessions
  /\ UNCHANGED <<agent, lists, store, shutdown, installed>>

(* The handler returns with the gate it holds: its own session's, or that  *)
(* of the live session it reused.                                          *)
Release(r) ==
  /\ At(r, "release")
  /\ LET held == IF Found(r) = None THEN r ELSE Found(r) IN
     sessions' = [sessions EXCEPT ![held].gate = "free"]
  /\ agent' = Returned(r)
  /\ Go(r, "answered")
  /\ UNCHANGED <<lists, store, shutdown, installed>>


(* A failed establishment releases its gate, then closes its session.      *)
Abandon(r) ==
  /\ At(r, "abandon")
  /\ sessions' = [sessions EXCEPT ![r].gate = "free"]
  /\ requests' = [requests EXCEPT ![r].pc = "close", ![r].found = r]
  /\ UNCHANGED <<agent, lists, store, shutdown, installed>>

Abandoned(r) ==
  /\ At(r, "refuse")
  /\ Refuse(r)
  /\ UNCHANGED <<sessions, lists, store, shutdown, installed>>

-----------------------------------------------------------------------------
(* session/load and session/resume: restore, restoreActive.                *)

Restore(r) ==
  /\ At(r, "idle") /\ ~agent.closed
  /\ \E i \in Ids :
       /\ Known(i)
       /\ requests' = [requests EXCEPT ![r].pc = "await", ![r].id = i]
  /\ UNCHANGED <<agent, sessions, lists, store, shutdown, installed>>

RestoreAwait(r) ==
  /\ At(r, "await") /\ Opened(IdOf(r))
  /\ Go(r, "acquire")
  /\ UNCHANGED <<agent, sessions, lists, store, shutdown, installed>>

(* Mutant: a restore is registered under its request, not its id.          *)
AcquireMiskeyed(r) ==
  /\ At(r, "acquire")
  /\ agent' = [agent EXCEPT !.restores = @ \cup {r}]
  /\ Go(r, "sample")
  /\ UNCHANGED <<sessions, lists, store, shutdown, installed>>

(* One restore of an id at a time: the second is refused.                  *)
Acquire(r) ==
  /\ At(r, "acquire")
  /\ IF IdOf(r) \in agent.restores
       THEN Go(r, "refused") /\ UNCHANGED agent
       ELSE /\ agent' = [agent EXCEPT !.restores = @ \cup {IdOf(r)}]
            /\ Go(r, "sample")
  /\ UNCHANGED <<sessions, lists, store, shutdown, installed>>

Sample(r) ==
  /\ At(r, "sample")
  /\ LET active == agent.sessions[IdOf(r)] IN
     IF IdOf(r) \in agent.deleted
       THEN Refuse(r)
       ELSE /\ requests' = [requests EXCEPT
                 ![r].pc = IF active = None THEN "load" ELSE "gate",
                 ![r].found = active]
            /\ UNCHANGED agent
  /\ UNCHANGED <<sessions, lists, store, shutdown, installed>>

(* acquireGate on the live session, then sameCarrier: the same carrier     *)
(* keeps the gate, a changed one gives it up and closes the session.       *)
RestoreGate(r) ==
  /\ At(r, "gate")
  /\ LET s == Found(r) IN
     IF sessions[s].ladder # "open" \/ sessions[s].gate # "free"
       THEN Refuse(r) /\ UNCHANGED sessions
       ELSE /\ UNCHANGED agent
            /\ \/ /\ sessions' = [sessions EXCEPT ![s].gate = "request"]
                  /\ Go(r, "active")
               \/ UNCHANGED sessions /\ Go(r, "close")
  /\ UNCHANGED <<lists, store, shutdown, installed>>

(* restoreActive: a session that began closing, or a replay that failed,   *)
(* refuses.                                                                *)
RestoreActive(r) ==
  /\ At(r, "active")
  /\ \/ /\ sessions[Found(r)].ladder = "open"
        /\ Go(r, "release") /\ UNCHANGED <<agent, sessions>>
     \/ /\ sessions' = [sessions EXCEPT ![Found(r)].gate = "free"]
        /\ Refuse(r)
  /\ UNCHANGED <<lists, store, shutdown, installed>>

(* loadStored, which may fail or find nothing.                             *)
Load(r) ==
  /\ At(r, "load")
  /\ \/ store[IdOf(r)] = "stored" /\ Go(r, "reserve") /\ UNCHANGED agent
     \/ Refuse(r)
  /\ UNCHANGED <<sessions, lists, store, shutdown, installed>>

-----------------------------------------------------------------------------
(* session/close, session/delete and Agent.Close.                          *)

(* session(): the live session an open agent resolves an id to.            *)
CloseSession(c) ==
  /\ At(c, "idle") /\ ~agent.closed
  /\ \E i \in Resident \ agent.deleted :
       requests' = [requests EXCEPT ![c] =
         [pc |-> "await", id |-> i, found |-> agent.sessions[i]]]
  /\ UNCHANGED <<agent, sessions, lists, store, shutdown, installed>>

CloseAwait(c) ==
  /\ At(c, "await") /\ Opened(IdOf(c))
  /\ Go(c, "close")
  /\ UNCHANGED <<agent, sessions, lists, store, shutdown, installed>>

Delete(d) ==
  /\ At(d, "idle") /\ ~agent.closed
  /\ \E i \in Ids :
       /\ Known(i)
       /\ requests' = [requests EXCEPT ![d].pc = "await", ![d].id = i]
  /\ UNCHANGED <<agent, sessions, lists, store, shutdown, installed>>

DeleteAwait(d) ==
  /\ At(d, "await") /\ Opened(IdOf(d))
  /\ Go(d, "lookup")
  /\ UNCHANGED <<agent, sessions, lists, store, shutdown, installed>>

(* An id the host opened as ephemeral has nothing to tombstone.            *)
DeleteLookup(d) ==
  /\ At(d, "lookup")
  /\ Go(d, IF IdOf(d) \in agent.ephemeral THEN "mark" ELSE "tombstone")
  /\ UNCHANGED <<agent, sessions, lists, store, shutdown, installed>>

Tombstone(d) ==
  /\ At(d, "tombstone")
  /\ \/ /\ store' = [store EXCEPT ![IdOf(d)] = "tombstone"]
        /\ Go(d, "mark")
     \/ UNCHANGED store /\ Go(d, "refused")
  /\ UNCHANGED <<agent, sessions, lists, shutdown, installed>>

Mark(d) ==
  /\ At(d, "mark")
  /\ agent' = [agent EXCEPT !.deleted = @ \cup {IdOf(d)},
                            !.ephemeral = @ \ {IdOf(d)}]
  /\ LET s == agent.sessions[IdOf(d)] IN
     requests' = [requests EXCEPT
       ![d].pc = IF s = None THEN "answered" ELSE "close", ![d].found = s]
  /\ UNCHANGED <<sessions, lists, store, shutdown, installed>>

(* Agent.Close refuses what comes later and closes what is in the map.     *)
AgentClose ==
  /\ At(Shutdown, "idle")
  /\ agent' = [agent EXCEPT !.closed = TRUE]
  /\ shutdown' = {agent.sessions[i] : i \in Resident}
  /\ Go(Shutdown, "next")
  /\ UNCHANGED <<sessions, lists, store, installed>>

ShutdownNext ==
  /\ At(Shutdown, "next")
  /\ \/ \E s \in shutdown :
          /\ shutdown' = shutdown \ {s}
          /\ requests' = [requests EXCEPT ![Shutdown].pc = "close",
                                          ![Shutdown].found = s]
     \/ shutdown = {} /\ Go(Shutdown, "answered") /\ UNCHANGED shutdown
  /\ UNCHANGED <<agent, sessions, lists, store, installed>>

(* close: the first caller begins the ladder; later ones only wait for it. *)
(* It samples the runtime to stop: with none bound there is nothing to     *)
(* stop.  A session without its first commit joins its establishment.      *)
Owed(join) == IF join THEN "join" ELSE "commit"

Begun(s) ==
  LET bound == sessions[s].runtime = "bound"
      join  == ~sessions[s].persisted
  IN IF sessions[s].ladder = "open"
       THEN [sessions[s] EXCEPT !.ladder = IF bound THEN "stop" ELSE Owed(join),
                                !.join = bound /\ join]
       ELSE sessions[s]

CallClose(r) ==
  /\ At(r, "close")
  /\ sessions' = [sessions EXCEPT ![Found(r)] = Begun(Found(r))]
  /\ Go(r, "closed")
  /\ UNCHANGED <<agent, lists, store, shutdown, installed>>

Ended(s) == sessions[s].ladder = "closed"

(* Where a request that waited for a ladder goes on: a changed carrier is  *)
(* re-prepared from the store unless the close failed.                     *)
AfterClose(r) ==
  IF r = Shutdown THEN "next"
  ELSE IF r \notin Sessions THEN "answered"
  ELSE IF Found(r) = r \/ sessions[Found(r)].failed THEN "refuse"
  ELSE "load"

CloseReturns(r) ==
  /\ At(r, "closed") /\ Ended(Found(r))
  /\ agent' = Detached(Found(r))
  /\ requests' = [requests EXCEPT ![r].pc = AfterClose(r), ![r].found = None]
  /\ UNCHANGED <<sessions, lists, store, shutdown, installed>>

-----------------------------------------------------------------------------
(* The session's own steps, as far as the agent depends on them.           *)

(* The hook takes the gate once the response is written.                   *)
HookStart(s) ==
  /\ sessions[s].hook = "registered" /\ At(s, "answered")
  /\ sessions[s].gate = "free"
  /\ sessions' = [sessions EXCEPT ![s].gate = "hook", ![s].hook = "opening"]
  /\ UNCHANGED <<agent, requests, lists, store, shutdown, installed>>

(* openStream: published, refused by a closing session or failed; a        *)
(* failure on the runtime it was meant for closes the session.             *)
HookOpen(s) ==
  /\ sessions[s].hook = "opening"
  /\ \E next \in {"none", "close"} :
       /\ next = "close" => sessions[s].ladder = "open"
                              /\ sessions[s].runtime = "bound"
       /\ sessions' = [sessions EXCEPT ![s].gate = "free", ![s].hook = next]
  /\ UNCHANGED <<agent, requests, lists, store, shutdown, installed>>

HookClose(s) ==
  /\ sessions[s].hook = "close"
  /\ sessions' = [sessions EXCEPT ![s] = [Begun(s) EXCEPT !.hook = "closed"]]
  /\ UNCHANGED <<agent, requests, lists, store, shutdown, installed>>

HookDetach(s) ==
  /\ sessions[s].hook = "closed" /\ Ended(s)
  /\ agent' = Detached(s)
  /\ sessions' = [sessions EXCEPT ![s].hook = "none"]
  /\ UNCHANGED <<requests, lists, store, shutdown, installed>>

(* A prompt, config change or usage read that resolved the session, maybe  *)
(* before it was deleted or detached, holds the gate.                      *)
UserTakes(s) ==
  /\ s \in installed
  /\ sessions[s].ladder = "open" /\ sessions[s].gate = "free"
  /\ sessions' = [sessions EXCEPT ![s].gate = "user"]
  /\ UNCHANGED <<agent, requests, lists, store, shutdown, installed>>

(* ensureRuntime starts a new pi once the retired one has exited; it does  *)
(* not look whether the session closes.                                    *)
UserStarts(s) ==
  /\ sessions[s].gate = "user" /\ sessions[s].runtime = "none"
  /\ sessions' = [sessions EXCEPT ![s].runtime = "loose",
                                  ![s].gate = "launching"]
  /\ UNCHANGED <<agent, requests, lists, store, shutdown, installed>>

(* Mutant: a launch binds its process though a close has begun.            *)
UserBindsAnyway(s) ==
  /\ sessions[s].gate = "launching"
  /\ sessions' = [sessions EXCEPT ![s].runtime = "bound", ![s].gate = "using"]
  /\ UNCHANGED <<agent, requests, lists, store, shutdown, installed>>

(* launch binds the process it started unless a close has begun, which     *)
(* sampled the runtime it stops before this one was there.                 *)
UserBinds(s) ==
  /\ sessions[s].gate = "launching" /\ sessions[s].ladder = "open"
  /\ sessions' = [sessions EXCEPT ![s].runtime = "bound", ![s].gate = "using"]
  /\ UNCHANGED <<agent, requests, lists, store, shutdown, installed>>

(* Otherwise launch reaps it and the user returns.                         *)
UserReaps(s) ==
  /\ sessions[s].gate = "launching" /\ sessions[s].ladder # "open"
  /\ sessions' = [sessions EXCEPT ![s].runtime = "none", ![s].gate = "free"]
  /\ UNCHANGED <<agent, requests, lists, store, shutdown, installed>>

(* A relaunch that could not be configured stops its process first.        *)
UserReturns(s) ==
  /\ \/ /\ sessions[s].gate \in {"user", "using"}
        /\ sessions' = [sessions EXCEPT ![s].gate = "free"]
     \/ /\ sessions[s].gate = "using"
        /\ sessions' = [sessions EXCEPT ![s].runtime = "none", ![s].gate = "free"]
  /\ UNCHANGED <<agent, requests, lists, store, shutdown, installed>>

(* runtimeEnded when pi's output ends, dropRuntime when the stream cannot  *)
(* be published to: the session is unbound, and a pi that has not exited   *)
(* runs on until the pump has reaped it.                                   *)
Unbinds(s) ==
  /\ sessions[s].runtime = "bound"
  /\ sessions' = [sessions EXCEPT ![s].runtime = "loose"]
  /\ UNCHANGED <<agent, requests, lists, store, shutdown, installed>>

(* releaseRuntime: the pump signals the unbound process and waits for it.  *)
Reaped(s) ==
  /\ sessions[s].runtime = "loose" /\ sessions[s].gate # "launching"
  /\ sessions' = [sessions EXCEPT ![s].runtime = "none"]
  /\ UNCHANGED <<agent, requests, lists, store, shutdown, installed>>

(* The ladder stops the runtime it sampled, joins an establishment that    *)
(* has not made its first commit, and commits what is owed.  A process     *)
(* still being launched was started after the sampled one was gone.        *)
LadderStop(s) ==
  /\ sessions[s].ladder = "stop"
  /\ sessions' = [sessions EXCEPT
       ![s].runtime = IF sessions[s].gate = "launching" THEN @ ELSE "none",
       ![s].ladder = Owed(sessions[s].join), ![s].join = FALSE]
  /\ UNCHANGED <<agent, requests, lists, store, shutdown, installed>>

LadderJoin(s) ==
  /\ sessions[s].ladder = "join" /\ sessions[s].gate = "free"
  /\ sessions' = [sessions EXCEPT ![s].gate = "ladder", ![s].ladder = "commit"]
  /\ UNCHANGED <<agent, requests, lists, store, shutdown, installed>>

Finished(s, failed) ==
  [sessions[s] EXCEPT !.ladder = "closed", !.failed = failed,
                      !.gate = IF @ = "ladder" THEN "free" ELSE @]

LadderCommit(s) ==
  /\ sessions[s].ladder = "commit"
  /\ \E failed \in {FALSE, sessions[s].persisted} :
       sessions' = [sessions EXCEPT ![s] = Finished(s, failed)]
  /\ UNCHANGED <<agent, requests, lists, store, shutdown, installed>>

-----------------------------------------------------------------------------
(* session/list.                                                           *)

(* What a listing must not miss: it is in the store, or live and not yet   *)
(* committed.                                                              *)
Listable ==
  {i \in Ids \ Ephemeral :
     store[i] = "stored" \/ (store[i] = "absent" /\ agent.sessions[i] # None)}

ListBegin(l) ==
  /\ lists[l].pc = "idle" /\ ~agent.closed
  /\ lists' = [lists EXCEPT ![l].pc = "snapshot", ![l].due = Listable]
  /\ UNCHANGED <<agent, sessions, requests, store, shutdown, installed>>

(* Mutant: only what the store lists is remembered.                        *)
ListSnapshotNone(l) ==
  /\ lists[l].pc = "snapshot"
  /\ lists' = [lists EXCEPT ![l].pc = "store"]
  /\ UNCHANGED <<agent, sessions, requests, store, shutdown, installed>>

(* The live sessions are sampled first, the store is listed after them.    *)
ListSnapshot(l) ==
  /\ lists[l].pc = "snapshot"
  /\ lists' = [lists EXCEPT ![l].pc = "store", ![l].listed =
       {i \in Resident \ agent.deleted : agent.sessions[i] \notin Ephemeral}]
  /\ UNCHANGED <<agent, sessions, requests, store, shutdown, installed>>

ListStore(l) ==
  /\ lists[l].pc = "store"
  /\ \/ lists' = [lists EXCEPT ![l].pc = "load",
                               ![l].summaries = {i \in Ids : store[i] = "stored"}]
     \/ lists' = [lists EXCEPT ![l].pc = "refused"]
  /\ UNCHANGED <<agent, sessions, requests, store, shutdown, installed>>

(* The record of every summary not yet listed is loaded; one deleted since *)
(* is passed over.                                                         *)
ListLoad(l) ==
  /\ lists[l].pc = "load"
  /\ \/ lists' = [lists EXCEPT ![l].pc = "answered", ![l].listed =
          @ \cup {i \in lists[l].summaries \ agent.deleted : store[i] = "stored"}]
     \/ lists' = [lists EXCEPT ![l].pc = "refused"]
  /\ UNCHANGED <<agent, sessions, requests, store, shutdown, installed>>

-----------------------------------------------------------------------------
EstablishStep(r) ==
  \/ Reserve(r) \/ Launch(r) \/ Configure(r) \/ InstallOrRefuse(r)
  \/ ReleaseSlot(r) \/ Commit(r) \/ Open(r) \/ Release(r) \/ Abandon(r) \/ Abandoned(r)

RestoreStep(r) ==
  \/ RestoreAwait(r) \/ Acquire(r) \/ Sample(r)
  \/ RestoreGate(r) \/ RestoreActive(r) \/ Load(r)

DeleteStep(d) == DeleteAwait(d) \/ DeleteLookup(d) \/ Tombstone(d) \/ Mark(d)

RequestStep(r) ==
  \/ r \in Sessions /\ EstablishStep(r)
  \/ r \in Restores /\ RestoreStep(r)
  \/ r \in Closes /\ CloseAwait(r)
  \/ r \in Deletes /\ DeleteStep(r)
  \/ r = Shutdown /\ ShutdownNext
  \/ CallClose(r) \/ CloseReturns(r)

HookStep(s) == HookStart(s) \/ HookOpen(s) \/ HookClose(s) \/ HookDetach(s)

LadderStep(s) == LadderStop(s) \/ LadderJoin(s) \/ LadderCommit(s)

UserStep(s) ==
  \/ UserTakes(s) \/ UserStarts(s) \/ UserBinds(s)
  \/ UserReaps(s) \/ UserReturns(s)

PumpStep(s) == Unbinds(s) \/ Reaped(s)

ListStep(l) == ListSnapshot(l) \/ ListStore(l) \/ ListLoad(l)

Next ==
  \/ \E n \in News : New(n)
  \/ \E r \in Restores : Restore(r)
  \/ \E c \in Closes : CloseSession(c)
  \/ \E d \in Deletes : Delete(d)
  \/ AgentClose
  \/ \E r \in Requests : RequestStep(r)
  \/ \E s \in Sessions : HookStep(s) \/ LadderStep(s) \/ UserStep(s) \/ PumpStep(s)
  \/ \E l \in Lists : ListBegin(l) \/ ListStep(l)

Spec == Init /\ [][Next]_vars

(* The adapter's goroutines run and the host's store answers.  Nothing     *)
(* bounds a pi command: a request or a user that waits for a bound pi goes *)
(* on only once pi answers or its end is noticed.  A process being bound   *)
(* or reaped waits for nobody.  The hook waits in the gate's queue and     *)
(* users only try it, so the hook is next whenever the gate is freed.      *)
WaitsForPi(r) == At(r, "configure") /\ sessions[r].runtime = "bound"

Fairness ==
  /\ \A r \in Requests : WF_vars(RequestStep(r) /\ ~WaitsForPi(r))
  /\ \A s \in Sessions :
       /\ WF_vars(HookStep(s)) /\ SF_vars(HookStart(s))
       /\ WF_vars(LadderStep(s))
       /\ WF_vars(UserBinds(s) \/ UserReaps(s)) /\ WF_vars(Reaped(s))
       /\ WF_vars(UserReturns(s) /\ sessions[s].runtime # "bound")
  /\ \A l \in Lists : WF_vars(ListStep(l))

FairSpec == Spec /\ Fairness

-----------------------------------------------------------------------------
(* Safety.                                                                 *)

(* The sessions that have a pi: bound to one, or not ended while one they  *)
(* started runs.  A pi bound to nobody when the close of its session began *)
(* may outlive that close until it is reaped: it is not counted here.      *)
Attached ==
  {s \in Sessions :
     \/ sessions[s].runtime = "bound"
     \/ sessions[s].runtime = "loose" /\ ~Ended(s)}

(* Two sessions of one id never have a pi side by side on its one session  *)
(* file: restores of an id exclude one another, a session leaves the map   *)
(* only after its ladder, and it is bound to none from then on, though the *)
(* close may have begun between the start of a relaunched pi and its       *)
(* binding, or after the pump unbound one.                                 *)
OneLive == \A s, t \in Attached : IdOf(s) = IdOf(t) => s = t

(* The sessions with a pi never exceed MaxActiveSessions: the slot         *)
(* reserveSlot holds covers the native start until install or the failed   *)
(* close is over, and a session has none once it no longer counts.         *)
LiveWithinLimit == Cardinality(Attached) <= MaxActive

(* A session leaves the map only once its ladder has ended: detach never   *)
(* removes the successor a restore installed under the same id.            *)
ResidentUntilClosed ==
  \A s \in installed : ~Ended(s) => agent.sessions[IdOf(s)] = s

(* Once a delete was answered, no request in flight, a restore past its    *)
(* entry check included, has or brings a session of that id back.          *)
DeletedStaysGone ==
  \A d \in Deletes :
    At(d, "answered") => agent.sessions[IdOf(d)] = None

(* ListSessions misses no session that existed while it ran, though one    *)
(* may be committed, closed and detached between its two samples.          *)
ListComplete ==
  \A l \in Lists :
    lists[l].pc = "answered" => lists[l].due \cap Listable \subseteq lists[l].listed

-----------------------------------------------------------------------------
(* Liveness.                                                               *)

(* A request is kept waiting by a pi that neither answers nor ends: its    *)
(* own, or the one a user of the gate waits for while the opening hook of  *)
(* its session waits for the gate.                                         *)
KeptWaiting(r) ==
  \/ WaitsForPi(r)
  \/ /\ At(r, "await")
     /\ \E s \in Sessions :
          /\ IdOf(s) = IdOf(r) /\ sessions[s].hook = "registered"
          /\ sessions[s].gate \in {"user", "using"}
          /\ sessions[s].runtime = "bound"


(* Agent.Close takes its sessions from the map once; a session still being *)
(* established then is stopped by its own request, a pi being relaunched   *)
(* by its user and an unbound one by its pump.  Only a pi that leaves an   *)
(* establishing request without an answer runs on.                         *)
ClosedAgentStops ==
  agent.closed ~>
    [](\A s \in Sessions : sessions[s].runtime # "none" => WaitsForPi(s))

=============================================================================
