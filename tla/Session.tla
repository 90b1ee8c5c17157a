------------------------------ MODULE Session ------------------------------
(***************************************************************************)
(* One ACP session: one pi conversation driven by one live pi process at a *)
(* time (session.go, session_prompt.go, session_lifecycle.go).             *)
(*                                                                         *)
(* The actors are the gate operations (prompts, config changes and usage   *)
(* reads, and the establishment that publishes the opening), the pump of   *)
(* every process generation, the detached aborts session/cancel starts,    *)
(* the shutdown ladder, and pi itself.  Every critical section of s.mu is  *)
(* one action; a wait, a native call or a publication between two critical *)
(* sections ends an action.  A timer may fire whenever its wait has begun. *)
(***************************************************************************)
EXTENDS Naturals, Sequences, FiniteSets

CONSTANTS
  Turns,      \* prompts the client sends; each also names pi's run for it
  AgentRuns,  \* runs pi starts on its own between prompts
  Configs,    \* config changes
  UsageReads, \* account usage reads
  Opening,    \* the establishment that commits the first mirror and opens
  Closer,     \* the shutdown ladder as a holder of the gate
  None,
  MaxGen,     \* bound: pi processes this session may launch
  MaxOut,     \* bound: records in one process's stdout
  HoldBound   \* settleRecordBound

ASSUME BoundsAssumption ==
  /\ MaxGen \in Nat \ {0}
  /\ MaxOut \in Nat \ {0}
  /\ HoldBound \in Nat \ {0}

Controls == Configs \cup UsageReads

ASSUME NamesAssumption ==
  /\ Turns \cap AgentRuns = {}
  /\ (Turns \cup AgentRuns) \cap Controls = {}
  /\ {Opening, Closer, None} \cap (Turns \cup AgentRuns \cup Controls) = {}
  /\ Opening # Closer /\ Opening # None /\ Closer # None

Runs == Turns \cup AgentRuns
Ops  == Turns \cup Controls \cup {Opening}
Gens == 1 .. MaxGen

(* A foreground is an accepted prompt or an agent-origin cycle, named by   *)
(* the run its owner believes it covers: the prompt's own run, or the run  *)
(* whose agent_start opened the cycle.                                     *)
Prompted(t) == [origin |-> "prompt", run |-> t]
Agent(r)    == [origin |-> "agent", run |-> r]
Foreground  == {Prompted(t) : t \in Turns} \cup {Agent(r) : r \in Runs}

Record == [kind : {"start", "settled"}, run : Runs]

VARIABLES
  session,   \* the fields s.mu guards, the gate and openMu
  op,        \* every gate operation: where it is and the runtime it holds
  turns,     \* struct turn
  marks,     \* struct cycle: the foregrounds cancelled, settling, terminal
  runtimes,  \* struct runtime and its process
  pi,        \* the native side of every generation
  pumps,     \* the pump of every generation
  aborts,    \* s.callbacks: interrupts session/cancel left running
  closer,    \* the shutdown ladder
  stream,    \* the lifecycle publisher: generation of the open incarnation
  log        \* history: what was published, committed and interrupted

vars == <<session, op, turns, marks, runtimes, pi, pumps, aborts, closer,
          stream, log>>

-----------------------------------------------------------------------------
OpPoints ==
  {"idle", "install", "map", "ensure", "ending", "retired", "launch", "bind",
   "configure", "stopUnconfigured", "openCheck", "openPublish", "use", "dispatch",
   "send", "reply", "lost", "lostFence", "accept", "wait", "grace",
   "stopGrace", "settle", "join", "commit", "stopCommit", "commitFence",
   "terminal", "claim", "claimFence", "return", "release", "hook", "abandon",
   "done"}

PumpPoints ==
  {"none", "read", "route", "hold", "cycleSettle", "cycleJoin", "stats",
   "cycleCommit", "cycleFence", "cycleDrop", "cycleIdle", "cycleClear",
   "endJoin", "endUnbind", "endRelease", "done"}

ClosePoints ==
  {"none", "join", "abort", "waitTurn", "stop", "stopJoin", "gate", "commit",
   "idle", "fence", "done"}

Outcomes == {"success", "cancelled", "failed"}

SessionType ==
  [gate : Ops \cup {Closer, None}, openMu : Ops \cup {None},
   closing : BOOLEAN, persisted : BOOLEAN,
   runtime : 0 .. MaxGen, retired : 0 .. MaxGen,
   turn : Turns \cup {None}, cycle : Runs \cup {None}]

OpType == [pc : OpPoints, at : 0 .. MaxGen]

TurnType ==
  [rt : 0 .. MaxGen, accepted : BOOLEAN,
   ended : {"running", "settled", "transport"}, ctxDone : BOOLEAN,
   lcSettled : BOOLEAN, commitFailed : BOOLEAN, finished : BOOLEAN,
   reply : {"none", "ok", "rejected", "lost"}]

MarksType ==
  [cancelled : SUBSET Foreground, settling : SUBSET Foreground,
   terminal : SUBSET Foreground]

RuntimeType ==
  [proc : {"unborn", "alive", "dead"}, killed : BOOLEAN, eof : BOOLEAN,
   ending : BOOLEAN, done : BOOLEAN]

PiType == [run : Runs \cup {None}, out : Seq(Record)]

PumpType ==
  [pc : PumpPoints, turn : Turns \cup {None}, cycle : Runs \cup {None},
   rec : Record \cup {None}, hold : Seq(Record), todo : Seq(Record)]

CloserType ==
  [pc : ClosePoints, turn : Turns \cup {None}, rt : 0 .. MaxGen,
   join : BOOLEAN, failed : BOOLEAN]

LogType ==
  [began : SUBSET Runs, ran : SUBSET Runs, durable : SUBSET Runs,
   accepted : [Foreground -> 0 .. MaxGen],
   idles : [Foreground -> Seq([on : Gens, outcome : Outcomes])]]

TypeOK ==
  /\ session \in SessionType
  /\ op \in [Ops -> OpType]
  /\ turns \in [Turns -> TurnType]
  /\ marks \in MarksType
  /\ runtimes \in [Gens -> RuntimeType]
  /\ pi \in [Gens -> PiType]
  /\ pumps \in [Gens -> PumpType]
  /\ aborts \subseteq [fg : Foreground, gen : Gens]
  /\ closer \in CloserType
  /\ stream \in 0 .. MaxGen
  /\ log \in LogType

(* A session as its establishment installs it: pi launched, bound and      *)
(* configured, the establishment holding the gate for the first mirror.    *)
Init ==
  /\ session = [gate |-> Opening, openMu |-> None, closing |-> FALSE,
                persisted |-> FALSE, runtime |-> 1, retired |-> 0,
                turn |-> None, cycle |-> None]
  /\ op = [o \in Ops |-> [pc |-> IF o = Opening THEN "commit" ELSE "idle",
                          at |-> 0]]
  /\ turns = [t \in Turns |-> [rt |-> 0, accepted |-> FALSE,
                               ended |-> "running", ctxDone |-> FALSE,
                               lcSettled |-> FALSE, commitFailed |-> FALSE,
                               finished |-> FALSE, reply |-> "none"]]
  /\ marks = [cancelled |-> {}, settling |-> {}, terminal |-> {}]
  /\ runtimes = [g \in Gens |-> [proc |-> IF g = 1 THEN "alive" ELSE "unborn",
                                 killed |-> FALSE, eof |-> FALSE,
                                 ending |-> FALSE, done |-> FALSE]]
  /\ pi = [g \in Gens |-> [run |-> None, out |-> <<>>]]
  /\ pumps = [g \in Gens |-> [pc |-> IF g = 1 THEN "read" ELSE "none",
                              turn |-> None, cycle |-> None, rec |-> None,
                              hold |-> <<>>, todo |-> <<>>]]
  /\ aborts = {}
  /\ closer = [pc |-> "none", turn |-> None, rt |-> 0, join |-> FALSE,
               failed |-> FALSE]
  /\ stream = 0
  /\ log = [began |-> {}, ran |-> {}, durable |-> {},
            accepted |-> [f \in Foreground |-> 0],
            idles |-> [f \in Foreground |-> <<>>]]

-----------------------------------------------------------------------------
(* Steps several actors share.                                             *)

Alive(g) == g # 0 /\ runtimes[g].proc = "alive"

(* pi may close its stdout and keep running; the client then fails calls.  *)
Talks(g) == Alive(g) /\ ~runtimes[g].eof

Go(o, point) == op' = [op EXCEPT ![o].pc = point]

(* Shutdown returns once the child has exited, which ends its stdout.      *)
Exited(g) ==
  runtimes' = [runtimes EXCEPT ![g].proc = "dead", ![g].eof = TRUE]

(* A generation leaves the binding only while it is the bound one.         *)
Unbound(g) ==
  IF g # 0 /\ session.runtime = g
    THEN [session EXCEPT !.runtime = 0, !.retired = g] ELSE session

(* lc.Accept and lc.OpenAgentCycle reach the client on an open incarnation.*)
Accepted(f) ==
  IF stream # 0 THEN [log EXCEPT !.accepted[f] = stream] ELSE log

(* lc.Idle: dropped once the incarnation is fenced.                        *)
Idled(f, outcome) ==
  IF stream # 0
    THEN [log EXCEPT !.idles[f] =
            Append(@, [on |-> stream, outcome |-> outcome])]
    ELSE log

(* Mutant: the fence does not join an opening in flight.                   *)
FenceUnjoined == stream' = 0

(* fenceStream joins an opening publication before it fences.              *)
FenceStream == session.openMu = None /\ stream' = 0

(* commitMirror stores every row pi has written to the session file.       *)
CommitMirror ==
  /\ log' = [log EXCEPT !.durable = @ \cup log.ran]
  /\ session' = [session EXCEPT !.persisted = TRUE]

(* turn.settle: the first end wins.                                        *)
SettledAs(t, end) ==
  IF turns[t].ended = "running" THEN [turns EXCEPT ![t].ended = end] ELSE turns

-----------------------------------------------------------------------------
(* Admission.  session() awaits the opening publication, so no operation   *)
(* of the client begins before the establishment is over.                  *)

Admit(o) ==
  /\ op[o].pc = "idle" /\ op[Opening].pc = "done"
  /\ ~session.closing /\ session.gate = None
  /\ session' = [session EXCEPT !.gate = o]
  /\ Go(o, IF o \in Turns THEN "install" ELSE "map")
  /\ UNCHANGED <<turns, marks, runtimes, pi, pumps, aborts, closer, stream, log>>

(* Mutant: a prompt ignores an open agent-origin cycle.                    *)
PromptInstallUnchecked(t) ==
  /\ op[t].pc = "install"
  /\ session' = [session EXCEPT !.turn = t]
  /\ Go(t, "map")
  /\ UNCHANGED <<turns, marks, runtimes, pi, pumps, aborts, closer, stream, log>>

(* prompt: the turn is the session's unless an agent-origin cycle is open. *)
PromptInstall(t) ==
  /\ op[t].pc = "install"
  /\ IF session.cycle # None
       THEN UNCHANGED session /\ Go(t, "return")
       ELSE session' = [session EXCEPT !.turn = t] /\ Go(t, "map")
  /\ UNCHANGED <<turns, marks, runtimes, pi, pumps, aborts, closer, stream, log>>

(* A prompt maps its content, a config change refuses to run beside an     *)
(* agent-origin cycle, and a usage read does neither.                      *)
Prepare(o) ==
  /\ op[o].pc = "map"
  /\ \/ /\ o \in Turns => ~turns[o].ctxDone
        /\ o \in Configs => session.cycle = None
        /\ Go(o, "ensure")
     \/ /\ o \in Turns \/ (o \in Configs /\ session.cycle # None)
        /\ Go(o, "return")
  /\ UNCHANGED <<session, turns, marks, runtimes, pi, pumps, aborts, closer,
                 stream, log>>

-----------------------------------------------------------------------------
(* ensureRuntime, launch, configureRuntime and openStream.                 *)

(* A control's request may end at any time, a turn's context only through  *)
(* the session.                                                            *)
CtxDone(o) == IF o \in Turns THEN turns[o].ctxDone ELSE o \in Controls

Ensured(o) ==
  IF o \in Turns THEN "dispatch" ELSE IF o \in Controls THEN "use" ELSE "return"

EnsureRuntime(o) ==
  /\ op[o].pc = "ensure"
  /\ LET rt == session.runtime IN
     op' = [op EXCEPT ![o] =
              [at |-> rt,
               pc |-> IF rt = 0 THEN "retired"
                      ELSE IF runtimes[rt].ending THEN "ending"
                      ELSE Ensured(o)]]
  /\ UNCHANGED <<session, turns, marks, runtimes, pi, pumps, aborts, closer,
                 stream, log>>

AwaitEnding(o) ==
  /\ op[o].pc = "ending"
  /\ \/ runtimes[op[o].at].done /\ Go(o, "ensure")
     \/ CtxDone(o) /\ Go(o, "return")
  /\ UNCHANGED <<session, turns, marks, runtimes, pi, pumps, aborts, closer,
                 stream, log>>

(* Mutant: a relaunch does not wait for the retired process.               *)
AwaitRetiredNever(o) ==
  /\ op[o].pc = "retired"
  /\ session' = [session EXCEPT !.retired = 0]
  /\ Go(o, "launch")
  /\ UNCHANGED <<turns, marks, runtimes, pi, pumps, aborts, closer, stream, log>>

(* awaitRetired: the last unbound process must exit before a relaunch; the *)
(* timer or the context may still end the wait with an error.              *)
AwaitRetired(o) ==
  /\ op[o].pc = "retired"
  /\ \/ /\ ~Alive(session.retired)
        /\ session' = [session EXCEPT !.retired = 0]
        /\ Go(o, "launch")
     \/ session.retired # 0 /\ UNCHANGED session /\ Go(o, "return")
  /\ UNCHANGED <<turns, marks, runtimes, pi, pumps, aborts, closer, stream, log>>

(* Mutant: a launch miscounts the generation it started.                   *)
LaunchMiscounted(o) ==
  /\ op[o].pc = "launch"
  /\ \/ \E g \in Gens :
          /\ runtimes[g].proc = "unborn"
          /\ \A h \in 1 .. (g - 1) : runtimes[h].proc # "unborn"
          /\ runtimes' = [runtimes EXCEPT ![g].proc = "alive"]
          /\ op' = [op EXCEPT ![o] = [pc |-> "bind", at |-> g + 1]]
     \/ UNCHANGED runtimes /\ Go(o, "return")
  /\ UNCHANGED <<session, turns, marks, pi, pumps, aborts, closer, stream, log>>

(* cutTornTail and launch start the next generation's process, or fail to. *)
Launch(o) ==
  /\ op[o].pc = "launch"
  /\ \/ \E g \in Gens :
          /\ runtimes[g].proc = "unborn"
          /\ \A h \in 1 .. (g - 1) : runtimes[h].proc # "unborn"
          /\ runtimes' = [runtimes EXCEPT ![g].proc = "alive"]
          /\ op' = [op EXCEPT ![o] = [pc |-> "bind", at |-> g]]
     \/ UNCHANGED runtimes /\ Go(o, "return")
  /\ UNCHANGED <<session, turns, marks, pi, pumps, aborts, closer, stream, log>>

(* launch binds the process, or reaps it itself once a close has begun.    *)
Bind(o) ==
  /\ op[o].pc = "bind"
  /\ LET g == op[o].at IN
     IF session.closing
       THEN /\ Exited(g) /\ Go(o, "return")
            /\ UNCHANGED <<session, pumps>>
       ELSE /\ session' = [session EXCEPT !.runtime = g]
            /\ pumps' = [pumps EXCEPT ![g].pc = "read"]
            /\ Go(o, "configure")
            /\ UNCHANGED runtimes
  /\ UNCHANGED <<turns, marks, pi, aborts, closer, stream, log>>

(* configureRuntime: a failure runs stopRuntime.                           *)
Configure(o) ==
  /\ op[o].pc = "configure"
  /\ \/ UNCHANGED runtimes /\ Go(o, "openCheck")
     \/ Exited(op[o].at) /\ Go(o, "stopUnconfigured")
  /\ UNCHANGED <<session, turns, marks, pi, pumps, aborts, closer, stream, log>>

(* stopRuntime's last rungs: join the pump, then give the binding up.      *)
StopUnconfigured(o) ==
  /\ op[o].pc = "stopUnconfigured" /\ runtimes[op[o].at].done
  /\ session' = Unbound(op[o].at)
  /\ Go(o, "return")
  /\ UNCHANGED <<turns, marks, runtimes, pi, pumps, aborts, closer, stream, log>>

(* Whether openStream may publish for generation g.                        *)
MayOpen(g) ==
  /\ ~session.closing
  /\ g # 0 /\ session.runtime = g
  /\ ~runtimes[g].ending /\ Alive(g)

(* A failed opening returns its error; the establishment's deferred one    *)
(* closes the session unless another close or generation has taken over.   *)
OpenRefused(o) ==
  IF o = Opening /\ ~session.closing /\ session.runtime = op[o].at
    THEN "abandon" ELSE "return"

OpenCheck(o) ==
  /\ op[o].pc = "openCheck" /\ session.openMu = None
  /\ IF MayOpen(op[o].at)
       THEN session' = [session EXCEPT !.openMu = o] /\ Go(o, "openPublish")
       ELSE UNCHANGED session /\ Go(o, OpenRefused(o))
  /\ UNCHANGED <<turns, marks, runtimes, pi, pumps, aborts, closer, stream, log>>

OpenPublish(o) ==
  /\ op[o].pc = "openPublish"
  /\ session' = [session EXCEPT !.openMu = None]
  /\ \/ stream' = op[o].at /\ Go(o, Ensured(o))
     \/ UNCHANGED stream /\ Go(o, OpenRefused(o))
  /\ UNCHANGED <<turns, marks, runtimes, pi, pumps, aborts, closer, log>>

-----------------------------------------------------------------------------
(* The other gate operations.                                              *)

(* A config change commits the mirror, a usage read only reads.            *)
ControlUse(c) ==
  /\ op[c].pc = "use"
  /\ (c \in Configs /\ CommitMirror) \/ UNCHANGED <<log, session>>
  /\ Go(c, "return")
  /\ UNCHANGED <<turns, marks, runtimes, pi, pumps, aborts, closer, stream>>

(* The establishment commits the first mirror.  Its opening publication    *)
(* runs behind the response, so it lets the gate go and takes it again.    *)
EstablishCommit ==
  /\ op[Opening].pc = "commit"
  /\ \/ /\ CommitMirror
        /\ op' = [op EXCEPT ![Opening] = [pc |-> "release",
                                          at |-> session.runtime]]
     \/ UNCHANGED <<log, session>> /\ Go(Opening, "abandon")
  /\ UNCHANGED <<turns, marks, runtimes, pi, pumps, aborts, closer, stream>>

EstablishRelease ==
  /\ op[Opening].pc = "release"
  /\ session' = [session EXCEPT !.gate = None]
  /\ Go(Opening, "hook")
  /\ UNCHANGED <<turns, marks, runtimes, pi, pumps, aborts, closer, stream, log>>

EstablishHook ==
  /\ op[Opening].pc = "hook" /\ session.gate = None
  /\ session' = [session EXCEPT !.gate = Opening]
  /\ Go(Opening, "openCheck")
  /\ UNCHANGED <<turns, marks, runtimes, pi, pumps, aborts, closer, stream, log>>

-----------------------------------------------------------------------------
(* prompt, from dispatch to the response.                                  *)

(* The turn becomes visible to its generation's pump.                      *)
Dispatch(t) ==
  /\ op[t].pc = "dispatch"
  /\ \/ /\ ~turns[t].ctxDone
        /\ turns' = [turns EXCEPT ![t].rt = op[t].at]
        /\ Go(t, "send")
     \/ UNCHANGED turns /\ Go(t, "return")
  /\ UNCHANGED <<session, marks, runtimes, pi, pumps, aborts, closer, stream, log>>

(* client.Prompt writes the command.  An idle pi starts the run or rejects *)
(* the prompt, a busy one rejects it; a dead one never answers.            *)
Send(t) ==
  /\ op[t].pc = "send"
  /\ LET g == op[t].at IN
     \/ /\ Talks(g) /\ pi[g].run = None /\ Len(pi[g].out) < MaxOut
        /\ pi' = [pi EXCEPT ![g] =
                    [run |-> t, out |-> Append(@.out, [kind |-> "start", run |-> t])]]
        /\ turns' = [turns EXCEPT ![t].reply = "ok"]
        /\ log' = [log EXCEPT !.began = @ \cup {t}]
     \/ /\ turns' = [turns EXCEPT ![t].reply =
                       IF Talks(g) THEN "rejected" ELSE "lost"]
        /\ UNCHANGED <<pi, log>>
  /\ Go(t, "reply")
  /\ UNCHANGED <<session, marks, runtimes, pumps, aborts, closer, stream>>

(* The command answered, or its call failed first: the context ended or    *)
(* the stream did.  A failed call of an accepted turn goes on as accepted. *)
Reply(t) ==
  /\ op[t].pc = "reply"
  /\ turns' = [turns EXCEPT ![t].reply = "none"]
  /\ \/ turns[t].reply = "ok" /\ Go(t, "accept")
     \/ \E err \in {"rejected", "lost", "ctx"} :
          /\ err = "rejected" => turns[t].reply = "rejected"
          /\ err = "lost" => turns[t].reply = "lost" \/ runtimes[op[t].at].eof
          /\ err = "ctx" => turns[t].ctxDone
          /\ Go(t, IF turns[t].accepted THEN "accept"
                   ELSE IF Prompted(t) \in marks.cancelled THEN "return"
                   ELSE IF err = "rejected" THEN "return" ELSE "lost")
  /\ UNCHANGED <<session, marks, runtimes, pi, pumps, aborts, closer, stream, log>>

(* claimFence: the turn has published its last event; it owes the fence if *)
(* its generation has already left the binding.                            *)
ClaimFence(t, owed) ==
  /\ turns' = [turns EXCEPT ![t].lcSettled = TRUE]
  /\ Go(t, IF session.runtime # op[t].at THEN owed ELSE "return")

(* dispatchFailure of a lost transport waits for the pump, or a grace.     *)
Lost(t) ==
  /\ op[t].pc = "lost"
  /\ ClaimFence(t, "lostFence")
  /\ UNCHANGED <<session, marks, runtimes, pi, pumps, aborts, closer, stream, log>>

OwedFence(t) ==
  /\ op[t].pc \in {"lostFence", "claimFence"}
  /\ FenceStream
  /\ Go(t, "return")
  /\ UNCHANGED <<session, turns, marks, runtimes, pi, pumps, aborts, closer, log>>

(* acceptTurn: the pump and the prompt both reach it, the first publishes. *)
AcceptTurn(t) ==
  /\ turns' = [turns EXCEPT ![t].accepted = TRUE]
  /\ log' = IF turns[t].accepted THEN log ELSE Accepted(Prompted(t))

Accept(t) ==
  /\ op[t].pc = "accept"
  /\ AcceptTurn(t)
  /\ Go(t, "wait")
  /\ UNCHANGED <<session, marks, runtimes, pi, pumps, aborts, closer, stream>>

(* Mutant: a cancelled turn waits for pi without a bound.                  *)
WaitWithoutGrace(t) ==
  /\ op[t].pc \in {"wait", "grace"} /\ UNCHANGED runtimes
  /\ \/ turns[t].ended # "running" /\ Go(t, "settle")
     \/ op[t].pc = "wait" /\ turns[t].ctxDone /\ Go(t, "grace")
  /\ UNCHANGED <<session, turns, marks, pi, pumps, aborts, closer, stream, log>>

(* The run settles, or the turn's context ends and the grace for settling  *)
(* begins; outlasting it stops the generation.                             *)
Wait(t) ==
  /\ op[t].pc \in {"wait", "grace"}
  /\ \/ turns[t].ended # "running" /\ Go(t, "settle") /\ UNCHANGED runtimes
     \/ /\ op[t].pc = "wait" /\ turns[t].ctxDone
        /\ Go(t, "grace") /\ UNCHANGED runtimes
     \/ op[t].pc = "grace" /\ Exited(op[t].at) /\ Go(t, "stopGrace")
  /\ UNCHANGED <<session, turns, marks, pi, pumps, aborts, closer, stream, log>>

StopGrace(t) ==
  /\ op[t].pc = "stopGrace" /\ runtimes[op[t].at].done
  /\ session' = Unbound(op[t].at)
  /\ turns' = SettledAs(t, "transport")
  /\ Go(t, "settle")
  /\ UNCHANGED <<marks, runtimes, pi, pumps, aborts, closer, stream, log>>

(* settleTurn: beginSettlement closes callback admission, then joins.      *)
Settle(t) ==
  /\ op[t].pc = "settle"
  /\ marks' = [marks EXCEPT !.settling = @ \cup {Prompted(t)}]
  /\ Go(t, "join")
  /\ UNCHANGED <<session, turns, runtimes, pi, pumps, aborts, closer, stream, log>>

Join(t) ==
  /\ op[t].pc = "join" /\ aborts = {}
  /\ Go(t, IF turns[t].ended = "settled" THEN "commit" ELSE "terminal")
  /\ UNCHANGED <<session, turns, marks, runtimes, pi, pumps, aborts, closer,
                 stream, log>>

(* A failed commit stops the generation and fences before the terminal.    *)
TurnCommit(t) ==
  /\ op[t].pc = "commit"
  /\ \/ CommitMirror /\ Go(t, "terminal") /\ UNCHANGED <<turns, runtimes>>
     \/ /\ turns' = [turns EXCEPT ![t].commitFailed = TRUE]
        /\ Exited(op[t].at) /\ Go(t, "stopCommit")
        /\ UNCHANGED <<session, log>>
  /\ UNCHANGED <<marks, pi, pumps, aborts, closer, stream>>

StopCommit(t) ==
  /\ op[t].pc = "stopCommit" /\ runtimes[op[t].at].done
  /\ session' = Unbound(op[t].at)
  /\ Go(t, "commitFence")
  /\ UNCHANGED <<turns, marks, runtimes, pi, pumps, aborts, closer, stream, log>>

CommitFence(t) ==
  /\ op[t].pc = "commitFence"
  /\ FenceStream
  /\ Go(t, "terminal")
  /\ UNCHANGED <<session, turns, marks, runtimes, pi, pumps, aborts, closer, log>>

(* claimCancellation fixes the verdict; a cancel that came first wins      *)
(* unless the commit failed.  Then the terminal idle is published.         *)
TurnOutcome(t) ==
  IF turns[t].commitFailed THEN "failed"
  ELSE IF Prompted(t) \in marks.cancelled THEN "cancelled"
  ELSE IF turns[t].ended = "transport" THEN "failed" ELSE "success"

Terminal(t) ==
  /\ op[t].pc = "terminal"
  /\ marks' = [marks EXCEPT !.terminal = @ \cup {Prompted(t)}]
  /\ log' = Idled(Prompted(t), TurnOutcome(t))
  /\ Go(t, "claim")
  /\ UNCHANGED <<session, turns, runtimes, pi, pumps, aborts, closer, stream>>

Claim(t) ==
  /\ op[t].pc = "claim"
  /\ ClaimFence(t, "claimFence")
  /\ UNCHANGED <<session, marks, runtimes, pi, pumps, aborts, closer, stream, log>>

(* The response, then prompt's deferred calls: the turn leaves the session,*)
(* finished closes, its context ends and the gate opens.                   *)
Return(o) ==
  /\ op[o].pc = "return"
  /\ session' = [session EXCEPT !.gate = None,
                                !.turn = IF @ = o THEN None ELSE @]
  /\ turns' = IF o \in Turns
                THEN [turns EXCEPT ![o].finished = TRUE, ![o].ctxDone = TRUE,
                                   ![o].commitFailed = FALSE]
                ELSE turns
  /\ op' = [op EXCEPT ![o] = [pc |-> "done", at |-> 0]]
  /\ UNCHANGED <<marks, runtimes, pi, pumps, aborts, closer, stream, log>>

-----------------------------------------------------------------------------
(* The pump: the sole reader of one generation's records.                  *)

PumpAt(g, point) == pumps' = [pumps EXCEPT ![g].pc = point]

(* The pump returns to its loop, with held records to deliver first.       *)
Rested(p, todo) ==
  [p EXCEPT !.pc = "read", !.turn = None, !.cycle = None, !.rec = None,
            !.hold = <<>>, !.todo = todo]

PumpRests(g) == pumps' = [pumps EXCEPT ![g] = Rested(@, @.todo)]

PumpDelivers(g) == pumps' = [pumps EXCEPT ![g] = Rested(@, @.hold \o @.todo)]

(* Held records that a settlement let through come before stdout.          *)
HasRecord(g) == pumps[g].todo # <<>> \/ pi[g].out # <<>>

NextRecord(g) ==
  IF pumps[g].todo # <<>> THEN Head(pumps[g].todo) ELSE Head(pi[g].out)

(* handleEvent reads the owner under s.mu; a generation that is no longer  *)
(* bound drops the record.                                                 *)
DispatchedTurn(g) ==
  IF session.turn # None /\ turns[session.turn].rt = g THEN session.turn ELSE None

PumpRead(g) ==
  /\ pumps[g].pc = "read" /\ HasRecord(g)
  /\ LET p    == pumps[g]
         rest == IF p.todo # <<>> THEN Tail(p.todo) ELSE <<>>
     IN pumps' = [pumps EXCEPT ![g] =
          IF session.runtime = g
            THEN [@ EXCEPT !.pc = "route", !.todo = rest, !.rec = NextRecord(g),
                           !.turn = DispatchedTurn(g), !.cycle = session.cycle]
            ELSE [@ EXCEPT !.todo = rest]]
  /\ pi' = IF pumps[g].todo = <<>> THEN [pi EXCEPT ![g].out = Tail(@)] ELSE pi
  /\ UNCHANGED <<session, op, turns, marks, runtimes, aborts, closer, stream, log>>

(* A dispatched turn owns the record: every modelled record bears work.    *)
RouteToTurn(g, t) ==
  /\ LET rec == pumps[g].rec IN
     /\ turns' = [turns EXCEPT ![t].accepted = TRUE,
                    ![t].ended = IF rec.kind = "settled" /\ @ = "running"
                                   THEN "settled" ELSE @]
     /\ IF rec.kind = "settled" THEN PumpAt(g, "hold") ELSE PumpRests(g)
  /\ log' = IF turns[t].accepted THEN log ELSE Accepted(Prompted(t))
  /\ UNCHANGED session

(* Otherwise the open agent-origin cycle does.                             *)
RouteToCycle(g) ==
  /\ IF pumps[g].rec.kind = "settled" THEN PumpAt(g, "cycleSettle") ELSE PumpRests(g)
  /\ UNCHANGED <<session, turns, log>>

(* openAgentCycle reserves the foreground before publishing it.            *)
OpenAgentCycle(g) ==
  LET r == pumps[g].rec.run IN
  /\ IF /\ pumps[g].rec.kind = "start"
        /\ session.turn = None /\ session.cycle = None
        /\ ~session.closing /\ session.runtime = g
       THEN session' = [session EXCEPT !.cycle = r] /\ log' = Accepted(Agent(r))
       ELSE UNCHANGED <<session, log>>
  /\ PumpRests(g)
  /\ UNCHANGED turns

PumpRoute(g) ==
  /\ pumps[g].pc = "route"
  /\ IF pumps[g].turn # None THEN RouteToTurn(g, pumps[g].turn)
     ELSE IF pumps[g].cycle # None THEN RouteToCycle(g)
     ELSE OpenAgentCycle(g)
  /\ UNCHANGED <<op, marks, runtimes, pi, aborts, closer, stream>>

(* holdRecords drains stdout while a settlement runs.                      *)
Holding(g) == pumps[g].pc \in {"hold", "stats"}

PumpHold(g) ==
  /\ Holding(g) /\ pi[g].out # <<>> /\ Len(pumps[g].hold) < HoldBound
  /\ pumps' = [pumps EXCEPT ![g].hold = Append(@, Head(pi[g].out))]
  /\ pi' = [pi EXCEPT ![g].out = Tail(@)]
  /\ UNCHANGED <<session, op, turns, marks, runtimes, aborts, closer, stream, log>>

(* A stream that outruns the bound ends its process; a process that ended, *)
(* for whatever reason, leaves nothing to deliver.                         *)
PumpHoldLost(g) ==
  /\ Holding(g)
  /\ Len(pumps[g].hold) >= HoldBound \/ ~Alive(g)
  /\ runtimes' = [runtimes EXCEPT ![g].killed =
                    @ \/ Len(pumps[g].hold) >= HoldBound]
  /\ pumps' = [pumps EXCEPT ![g] =
                 IF @.pc = "hold" THEN Rested(@, @.todo)
                 ELSE [@ EXCEPT !.pc = "cycleCommit", !.hold = <<>>]]
  /\ UNCHANGED <<session, op, turns, marks, pi, aborts, closer, stream, log>>

(* deliverRecords: what was held while the prompt settled comes next.      *)
PumpHoldDone(g) ==
  /\ pumps[g].pc = "hold" /\ turns[pumps[g].turn].finished
  /\ Len(pumps[g].hold) < HoldBound
  /\ PumpDelivers(g)
  /\ UNCHANGED <<session, op, turns, marks, runtimes, pi, aborts, closer,
                 stream, log>>

(* settleAgentCycle, on the pump.                                          *)
CycleSettle(g) ==
  /\ pumps[g].pc = "cycleSettle"
  /\ marks' = [marks EXCEPT !.settling = @ \cup {Agent(pumps[g].cycle)}]
  /\ PumpAt(g, "cycleJoin")
  /\ UNCHANGED <<session, op, turns, runtimes, pi, aborts, closer, stream, log>>

CycleJoin(g) ==
  /\ pumps[g].pc = "cycleJoin" /\ aborts = {}
  /\ PumpAt(g, IF Agent(pumps[g].cycle) \in marks.cancelled
                 THEN "cycleCommit" ELSE "stats")
  /\ UNCHANGED <<session, op, turns, marks, runtimes, pi, aborts, closer,
                 stream, log>>

CycleStats(g) ==
  /\ pumps[g].pc = "stats" /\ Len(pumps[g].hold) < HoldBound
  /\ PumpAt(g, "cycleCommit")
  /\ UNCHANGED <<session, op, turns, marks, runtimes, pi, aborts, closer,
                 stream, log>>

(* Mutant: a cycle whose commit failed is settled all the same.            *)
CycleCommitForgiven(g) ==
  /\ pumps[g].pc = "cycleCommit"
  /\ \/ CommitMirror /\ PumpAt(g, "cycleIdle")
     \/ UNCHANGED <<session, log>> /\ PumpAt(g, "cycleIdle")
  /\ UNCHANGED <<op, turns, marks, runtimes, pi, aborts, closer, stream>>

CycleCommit(g) ==
  /\ pumps[g].pc = "cycleCommit"
  /\ \/ CommitMirror /\ PumpAt(g, "cycleIdle")
     \/ UNCHANGED <<session, log>> /\ PumpAt(g, "cycleFence")
  /\ UNCHANGED <<op, turns, marks, runtimes, pi, aborts, closer, stream>>

CycleFence(g) ==
  /\ pumps[g].pc = "cycleFence"
  /\ FenceStream
  /\ PumpAt(g, "cycleDrop")
  /\ UNCHANGED <<session, op, turns, marks, runtimes, pi, aborts, closer, log>>

(* dropRuntime gives the binding up and signals the child without waiting. *)
CycleDrop(g) ==
  /\ pumps[g].pc = "cycleDrop"
  /\ session' = Unbound(g)
  /\ runtimes' = [runtimes EXCEPT ![g].killed = TRUE]
  /\ PumpAt(g, "cycleIdle")
  /\ UNCHANGED <<op, turns, marks, pi, aborts, closer, stream, log>>

CycleIdle(g) ==
  /\ pumps[g].pc = "cycleIdle"
  /\ LET f == Agent(pumps[g].cycle) IN
     /\ marks' = [marks EXCEPT !.terminal = @ \cup {f}]
     /\ log' = Idled(f, IF f \in marks.cancelled THEN "cancelled" ELSE "success")
  /\ PumpAt(g, "cycleClear")
  /\ UNCHANGED <<session, op, turns, runtimes, pi, aborts, closer, stream>>

(* The session gives the cycle up, then deliverRecords.                    *)
CycleClear(g) ==
  /\ pumps[g].pc = "cycleClear"
  /\ session' = [session EXCEPT !.cycle = IF @ = pumps[g].cycle THEN None ELSE @]
  /\ PumpDelivers(g)
  /\ UNCHANGED <<op, turns, marks, runtimes, pi, aborts, closer, stream, log>>

(* Mutant: the end of a generation leaves its cycle open.                  *)
RuntimeEndedUncleared(g) ==
  /\ pumps[g].pc = "read" /\ ~HasRecord(g) /\ runtimes[g].eof
  /\ LET bound == session.runtime = g
         takes == bound /\ ~session.closing
     IN /\ runtimes' = IF bound THEN [runtimes EXCEPT ![g].ending = TRUE]
                       ELSE runtimes
        /\ pumps' = [pumps EXCEPT ![g].pc = IF bound THEN "endJoin" ELSE "endUnbind",
                       ![g].turn = DispatchedTurn(g),
                       ![g].cycle = IF takes THEN session.cycle ELSE None]
  /\ UNCHANGED <<session, op, turns, marks, pi, aborts, closer, stream, log>>

(* runtimeEnded: the bound generation hands back its cycle unless the      *)
(* shutdown ladder owns it, and drains the callbacks before it lets go.    *)
RuntimeEnded(g) ==
  /\ pumps[g].pc = "read" /\ ~HasRecord(g) /\ runtimes[g].eof
  /\ LET bound == session.runtime = g
         takes == bound /\ ~session.closing
     IN /\ session' = IF takes THEN [session EXCEPT !.cycle = None] ELSE session
        /\ runtimes' = IF bound THEN [runtimes EXCEPT ![g].ending = TRUE]
                       ELSE runtimes
        /\ pumps' = [pumps EXCEPT ![g].pc = IF bound THEN "endJoin" ELSE "endUnbind",
                       ![g].turn = DispatchedTurn(g),
                       ![g].cycle = IF takes THEN session.cycle ELSE None]
  /\ UNCHANGED <<op, turns, marks, pi, aborts, closer, stream, log>>

EndJoin(g) ==
  /\ pumps[g].pc = "endJoin" /\ aborts = {}
  /\ log' = IF pumps[g].cycle = None THEN log
            ELSE Idled(Agent(pumps[g].cycle), "failed")
  /\ PumpAt(g, "endUnbind")
  /\ UNCHANGED <<session, op, turns, marks, runtimes, pi, aborts, closer, stream>>

(* Mutant: a turn is not told that its transport ended.                    *)
EndUnbindSilent(g) ==
  /\ pumps[g].pc = "endUnbind" /\ session.openMu = None
  /\ LET t == pumps[g].turn IN
     /\ IF session.runtime = g
          THEN /\ session' = Unbound(g)
               /\ stream' = IF ~session.closing /\ (t = None \/ turns[t].lcSettled)
                              THEN 0 ELSE stream
          ELSE UNCHANGED <<session, stream>>
  /\ PumpAt(g, "endRelease")
  /\ UNCHANGED <<op, turns, marks, runtimes, pi, aborts, closer, log>>

(* The fence is this generation's unless a close owns it or the turn still *)
(* has to publish; then the turn learns that its transport ended.          *)
EndUnbind(g) ==
  /\ pumps[g].pc = "endUnbind" /\ session.openMu = None
  /\ LET t == pumps[g].turn IN
     /\ IF session.runtime = g
          THEN /\ session' = Unbound(g)
               /\ stream' = IF ~session.closing /\ (t = None \/ turns[t].lcSettled)
                              THEN 0 ELSE stream
          ELSE UNCHANGED <<session, stream>>
     /\ turns' = IF t = None THEN turns
                 ELSE [SettledAs(t, "transport") EXCEPT ![t].ctxDone = TRUE]
  /\ PumpAt(g, "endRelease")
  /\ UNCHANGED <<op, marks, runtimes, pi, aborts, closer, log>>

(* Mutant: the pump ends without closing the generation's done.            *)
EndReleaseUnjoined(g) ==
  /\ pumps[g].pc = "endRelease"
  /\ runtimes' = [runtimes EXCEPT ![g].proc = "dead"]
  /\ pumps' = [pumps EXCEPT ![g].pc = "done", ![g].turn = None, ![g].cycle = None]
  /\ UNCHANGED <<session, op, turns, marks, pi, aborts, closer, stream, log>>

(* releaseRuntime reaps the child, which may have outlived its stdout.     *)
EndRelease(g) ==
  /\ pumps[g].pc = "endRelease"
  /\ runtimes' = [runtimes EXCEPT ![g].proc = "dead", ![g].done = TRUE]
  /\ pumps' = [pumps EXCEPT ![g].pc = "done", ![g].turn = None, ![g].cycle = None]
  /\ UNCHANGED <<session, op, turns, marks, pi, aborts, closer, stream, log>>

-----------------------------------------------------------------------------
(* session/cancel and the interrupts it leaves running.                    *)

Current ==
  IF session.turn # None THEN {Prompted(session.turn)}
  ELSE IF session.cycle # None THEN {Agent(session.cycle)} ELSE {}

(* Mutant: a cancel reaches a foreground whose verdict is out.             *)
CancelLate ==
  /\ op[Opening].pc = "done"
  /\ \E f \in Current \ marks.cancelled :
       /\ marks' = [marks EXCEPT !.cancelled = @ \cup {f}]
       /\ turns' = IF session.turn = None THEN turns
                   ELSE [turns EXCEPT ![session.turn].ctxDone = TRUE]
       /\ LET g == session.runtime IN
          aborts' = IF /\ f \notin marks.settling /\ g # 0
                       /\ ~session.closing /\ ~runtimes[g].ending
                      THEN aborts \cup {[fg |-> f, gen |-> g]} ELSE aborts
  /\ UNCHANGED <<session, op, runtimes, pi, pumps, closer, stream, log>>

(* Mutant: a cancel starts an interrupt while its target settles.          *)
CancelUnadmitted ==
  /\ op[Opening].pc = "done"
  /\ \E f \in Current \ (marks.cancelled \cup marks.terminal) :
       /\ marks' = [marks EXCEPT !.cancelled = @ \cup {f}]
       /\ turns' = IF session.turn = None THEN turns
                   ELSE [turns EXCEPT ![session.turn].ctxDone = TRUE]
       /\ LET g == session.runtime IN
          aborts' = IF /\ g # 0
                       /\ ~session.closing /\ ~runtimes[g].ending
                      THEN aborts \cup {[fg |-> f, gen |-> g]} ELSE aborts
  /\ UNCHANGED <<session, op, runtimes, pi, pumps, closer, stream, log>>

Cancel ==
  /\ op[Opening].pc = "done"
  /\ \E f \in Current \ (marks.cancelled \cup marks.terminal) :
       /\ marks' = [marks EXCEPT !.cancelled = @ \cup {f}]
       /\ turns' = IF session.turn = None THEN turns
                   ELSE [turns EXCEPT ![session.turn].ctxDone = TRUE]
       /\ LET g == session.runtime IN
          aborts' = IF /\ f \notin marks.settling /\ g # 0
                       /\ ~session.closing /\ ~runtimes[g].ending
                      THEN aborts \cup {[fg |-> f, gen |-> g]} ELSE aborts
  /\ UNCHANGED <<session, op, runtimes, pi, pumps, closer, stream, log>>

(* abort waits out a compaction, interrupts whatever pi then runs, and the *)
(* callback is over.                                                       *)
Abort(a) ==
  /\ a \in aborts
  /\ aborts' = aborts \ {a}
  /\ UNCHANGED <<session, op, turns, marks, runtimes, pi, pumps, closer, stream, log>>

-----------------------------------------------------------------------------
(* close: the shutdown ladder.                                             *)

CloseAt(point) == closer' = [closer EXCEPT !.pc = point]

(* The first closer marks the session and its turn; a later one waits.     *)
BeginClose(base) ==
  /\ ~session.closing
  /\ session' = [base EXCEPT !.closing = TRUE]
  /\ closer' = [pc |-> "join", turn |-> session.turn, rt |-> session.runtime,
                join |-> ~session.persisted, failed |-> FALSE]
  /\ IF session.turn = None THEN UNCHANGED <<turns, marks>>
     ELSE /\ turns' = [turns EXCEPT ![session.turn].ctxDone = TRUE]
          /\ marks' = [marks EXCEPT !.cancelled =
                         @ \cup {Prompted(session.turn)}]

Close ==
  /\ BeginClose(session)
  /\ UNCHANGED <<op, runtimes, pi, pumps, aborts, stream, log>>

(* A failed establishment lets the gate go and closes its session.         *)
EstablishAbandon ==
  /\ op[Opening].pc = "abandon"
  /\ LET released == [session EXCEPT !.gate = None] IN
     \/ BeginClose(released)
     \/ /\ session.closing /\ session' = released
        /\ UNCHANGED <<closer, turns, marks>>
  /\ Go(Opening, "done")
  /\ UNCHANGED <<runtimes, pi, pumps, aborts, stream, log>>

AfterTurn == IF closer.rt # 0 THEN "stop" ELSE "gate"

CloseJoin ==
  /\ closer.pc = "join" /\ aborts = {}
  /\ CloseAt(IF closer.turn = None THEN AfterTurn
             ELSE IF closer.rt # 0 THEN "abort" ELSE "waitTurn")
  /\ UNCHANGED <<session, op, turns, marks, runtimes, pi, pumps, aborts,
                 stream, log>>

CloseAbort ==
  /\ closer.pc = "abort"
  /\ CloseAt("waitTurn")
  /\ UNCHANGED <<session, op, turns, marks, runtimes, pi, pumps, aborts, stream, log>>

(* The turn finishes, or the settle timeout passes.                        *)
CloseWait ==
  /\ closer.pc = "waitTurn"
  /\ CloseAt(AfterTurn)
  /\ UNCHANGED <<session, op, turns, marks, runtimes, pi, pumps, aborts,
                 stream, log>>

CloseStop ==
  /\ closer.pc = "stop"
  /\ Exited(closer.rt)
  /\ CloseAt("stopJoin")
  /\ UNCHANGED <<session, op, turns, marks, pi, pumps, aborts, stream, log>>

CloseStopJoin ==
  /\ closer.pc = "stopJoin" /\ runtimes[closer.rt].done
  /\ session' = Unbound(closer.rt)
  /\ CloseAt("gate")
  /\ UNCHANGED <<op, turns, marks, runtimes, pi, pumps, aborts, stream, log>>

(* An establishment that had not persisted anything owns the gate.         *)
CloseGate ==
  /\ closer.pc = "gate"
  /\ IF closer.join
       THEN session.gate = None /\ session' = [session EXCEPT !.gate = Closer]
       ELSE UNCHANGED session
  /\ CloseAt("commit")
  /\ UNCHANGED <<op, turns, marks, runtimes, pi, pumps, aborts, stream, log>>

CloseCommit ==
  /\ closer.pc = "commit"
  /\ \/ ~session.persisted /\ CloseAt("idle") /\ UNCHANGED <<session, log>>
     \/ session.persisted /\ CommitMirror /\ CloseAt("idle")
     \/ /\ session.persisted
        /\ closer' = [closer EXCEPT !.pc = "idle", !.failed = TRUE]
        /\ UNCHANGED <<session, log>>
  /\ UNCHANGED <<op, turns, marks, runtimes, pi, pumps, aborts, stream>>

(* The ladder terminalizes the agent-origin cycle the stream still owns.   *)
CloseIdle ==
  /\ closer.pc = "idle"
  /\ session' = [session EXCEPT !.cycle = None]
  /\ log' = IF closer.failed \/ session.cycle = None THEN log
            ELSE Idled(Agent(session.cycle), "cancelled")
  /\ CloseAt("fence")
  /\ UNCHANGED <<op, turns, marks, runtimes, pi, pumps, aborts, stream>>

CloseFence ==
  /\ closer.pc = "fence"
  /\ FenceStream
  /\ session' = [session EXCEPT !.gate = IF @ = Closer THEN None ELSE @]
  /\ closer' = [closer EXCEPT !.pc = "done", !.turn = None, !.rt = 0]
  /\ UNCHANGED <<op, turns, marks, runtimes, pi, pumps, aborts, log>>

-----------------------------------------------------------------------------
(* pi: runs it starts on its own, the settlement of a run, and its end.    *)

PiStarts(g, r) ==
  /\ Talks(g) /\ pi[g].run = None /\ Len(pi[g].out) < MaxOut
  /\ r \in AgentRuns \ log.began
  /\ pi' = [pi EXCEPT ![g] =
              [run |-> r, out |-> Append(@.out, [kind |-> "start", run |-> r])]]
  /\ log' = [log EXCEPT !.began = @ \cup {r}]
  /\ UNCHANGED <<session, op, turns, marks, runtimes, pumps, aborts, closer, stream>>

PiSettles(g) ==
  /\ Talks(g) /\ pi[g].run # None /\ Len(pi[g].out) < MaxOut
  /\ LET r == pi[g].run IN
     /\ pi' = [pi EXCEPT ![g] =
                 [run |-> None, out |-> Append(@.out, [kind |-> "settled", run |-> r])]]
     /\ log' = [log EXCEPT !.ran = @ \cup {r}]
  /\ UNCHANGED <<session, op, turns, marks, runtimes, pumps, aborts, closer, stream>>

(* The process dies, of itself or because it was signalled.                *)
PiExits(g) ==
  /\ Alive(g)
  /\ Exited(g)
  /\ UNCHANGED <<session, op, turns, marks, pi, pumps, aborts, closer, stream, log>>

PiClosesStdout(g) ==
  /\ Talks(g)
  /\ runtimes' = [runtimes EXCEPT ![g].eof = TRUE]
  /\ UNCHANGED <<session, op, turns, marks, pi, pumps, aborts, closer, stream, log>>

-----------------------------------------------------------------------------
EnsureStep(o) ==
  \/ EnsureRuntime(o) \/ AwaitEnding(o) \/ AwaitRetired(o) \/ Launch(o)
  \/ Bind(o) \/ Configure(o) \/ StopUnconfigured(o)
  \/ OpenCheck(o) \/ OpenPublish(o)

PromptStep(t) ==
  \/ PromptInstall(t) \/ Dispatch(t) \/ Send(t) \/ Reply(t) \/ Lost(t) \/ OwedFence(t)
  \/ Accept(t) \/ Wait(t) \/ StopGrace(t) \/ Settle(t) \/ Join(t)
  \/ TurnCommit(t) \/ StopCommit(t) \/ CommitFence(t) \/ Terminal(t) \/ Claim(t)

EstablishStep ==
  EstablishCommit \/ EstablishRelease \/ EstablishHook \/ EstablishAbandon

PumpStep(g) ==
  \/ PumpRead(g) \/ PumpRoute(g) \/ PumpHold(g) \/ PumpHoldLost(g)
  \/ PumpHoldDone(g) \/ CycleSettle(g) \/ CycleJoin(g) \/ CycleStats(g)
  \/ CycleCommit(g) \/ CycleFence(g) \/ CycleDrop(g) \/ CycleIdle(g)
  \/ CycleClear(g) \/ RuntimeEnded(g) \/ EndJoin(g) \/ EndUnbind(g)
  \/ EndRelease(g)

CloseStep ==
  \/ CloseJoin \/ CloseAbort \/ CloseWait \/ CloseStop \/ CloseStopJoin
  \/ CloseGate \/ CloseCommit \/ CloseIdle \/ CloseFence

PiStep(g) ==
  \/ \E r \in AgentRuns : PiStarts(g, r)
  \/ PiSettles(g) \/ PiExits(g) \/ PiClosesStdout(g)

Next ==
  \/ \E o \in Ops \ {Opening} : Admit(o)
  \/ \E t \in Turns : PromptStep(t)
  \/ \E c \in Controls : ControlUse(c)
  \/ \E o \in Ops : Prepare(o) \/ EnsureStep(o) \/ Return(o)
  \/ EstablishStep
  \/ \E g \in Gens : PumpStep(g) \/ PiStep(g)
  \/ \E a \in aborts : Abort(a)
  \/ Cancel \/ Close \/ CloseStep

Spec == Init /\ [][Next]_vars

(* Fairness.  The adapter's goroutines run and its timers fire.  pi is only *)
(* held to dying once it was signalled: it may never answer a command,     *)
(* never settle a run and never start one, and the client may never cancel *)
(* or close.                                                               *)
OpStep(o) ==
  \/ o \in Turns /\ PromptStep(o)
  \/ o \in Controls /\ ControlUse(o)
  \/ Prepare(o) \/ EnsureStep(o) \/ Return(o)

OpMoves(o) ==
  /\ op[o].pc \in {"reply", "configure"} =>
       CtxDone(o) \/ ~Talks(op[o].at)
  /\ OpStep(o)

PiDies(g) == runtimes[g].killed /\ PiExits(g)

Fairness ==
  /\ \A o \in Ops : WF_vars(OpMoves(o))
  /\ \A g \in Gens : WF_vars(PumpStep(g)) /\ WF_vars(PiDies(g))
  /\ WF_vars(EstablishStep) /\ WF_vars(CloseStep)
  /\ WF_vars(\E a \in aborts : Abort(a))

FairSpec == Spec /\ Fairness

-----------------------------------------------------------------------------
(* Safety.                                                                 *)

(* A prompt and an agent-origin cycle never hold the foreground together:  *)
(* prompt and openAgentCycle each check the other under s.mu before they   *)
(* reserve it, whatever the gate says.                                     *)
OneForeground == session.turn = None \/ session.cycle = None

(* At most one pi of this session is alive, so no dying pi writes into the *)
(* session file another continues: awaitRetired, the joins of stopRuntime  *)
(* and the reaping of a launch that lost to a close together keep it so.   *)
OneProcess ==
  \A g, h \in Gens : Alive(g) /\ Alive(h) => g = h

(* The idles of a foreground on the incarnation that carried its opening.  *)
Carried(f) ==
  {i \in DOMAIN log.idles[f] : log.idles[f][i].on = log.accepted[f]}

(* The incarnation that carried a foreground's opening carries at most one *)
(* terminal idle of it, whoever terminalizes it: its own settlement, the   *)
(* end of its generation (runtimeEnded), or the shutdown ladder; and no    *)
(* later incarnation carries the idle of an accepted prompt.               *)
IdleOnce ==
  /\ \A f \in Foreground : \A i, j \in Carried(f) : i = j
  /\ \A t \in Turns :
       log.accepted[Prompted(t)] # 0 =>
         Carried(Prompted(t)) = DOMAIN log.idles[Prompted(t)]

(* claimCancellation: a cancel that reached the foreground before its      *)
(* verdict was fixed is never answered with a success.                     *)
CancelWins ==
  \A f \in marks.cancelled : \A i \in DOMAIN log.idles[f] :
    log.idles[f][i].outcome = "success" => session.closing

(* beginSettlement joins every interrupt and admits no more: no interrupt  *)
(* session/cancel started for a foreground outlives its terminal idle.     *)
SettledIsJoined ==
  \A a \in aborts : log.idles[a.fg] = <<>>

(* "The incarnation cannot publish what the store does not hold": a cycle  *)
(* whose idle is about to reach the incarnation that opened it has the run *)
(* whose record ended it in the store (settleAgentCycle commits, or fences,*)
(* first).                                                                 *)
SuccessIsDurable ==
  \A g \in Gens :
    LET p == pumps[g] IN
      p.pc = "cycleIdle" /\ stream # 0 /\ stream = log.accepted[Agent(p.cycle)]
        => p.rec.run \in log.durable

(* "nativeRecord preserves event and dialog order": a pump that handles the*)
(* settlement of a run has nothing left to handle of the run's start.      *)
RecordsInOrder ==
  \A g \in Gens : \A r \in Runs :
    pumps[g].rec = [kind |-> "settled", run |-> r] =>
      \A s \in {pumps[g].hold, pumps[g].todo, pi[g].out} :
        \A i \in DOMAIN s : s[i] # [kind |-> "start", run |-> r]

(* "None can reach a later foreground on this runtime" (beginSettlement):  *)
(* the interrupt of a foreground never interrupts another one's run.       *)
NoStrayAbort ==
  [][\A a \in aborts \ aborts' :
       Talks(a.gen) => pi[a.gen].run \in {None, a.fg.run}]_aborts

(* close fences last and openStream refuses a closing session under openMu:*)
(* nothing reopens the stream of a closed session.                         *)
ClosedIsFenced == closer.pc = "done" => stream = 0

-----------------------------------------------------------------------------
(* Liveness.                                                               *)

(* A prompt whose context ended is answered, though pi may stay silent and *)
(* keep running: every wait of prompt has a timer or a join that ends.     *)
CancelledIsAnswered == \A t \in Turns : turns[t].ctxDone ~> turns[t].finished

(* A prompt whose process is gone is answered: the pump settles the turn   *)
(* or the failed call does, though the two learn of it in either order.    *)
LostIsAnswered ==
  \A t \in Turns :
    op[t].pc \in {"send", "reply", "accept", "wait"} /\ ~Talks(op[t].at)
      ~> turns[t].finished

(* An agent-origin cycle whose process is gone is given up, by the pump or *)
(* by the shutdown ladder, so it never refuses prompts for good.           *)
LostCycleEnds ==
  \A r \in Runs :
    session.cycle = r /\ ~Talks(session.runtime) ~> session.cycle # r

(* close returns: the ladder joins prompts, pumps, interrupts and gate     *)
(* holders that in turn wait for one another.                              *)
CloseCompletes == session.closing ~> closer.pc = "done"

=============================================================================
