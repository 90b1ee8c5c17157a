---------------------------- MODULE SessionProofs ----------------------------
(* Safety of Session for every choice of prompts, runs, controls and       *)
(* bounds: every variable keeps its type; at most one pi is alive; the     *)
(* prompt and the agent-origin cycle exclude each other; a closed session  *)
(* stays fenced; and a cancelled foreground does not succeed.              *)
EXTENDS Session, SequenceTheorems, TLAPS

-----------------------------------------------------------------------------
(* TypeOK.  The first part says what the shared steps return; the second   *)
(* has one lemma per action, in the order of the actions in Session.       *)

(* What a pump holds while it handles a record: TypeOK alone would let a   *)
(* pump settle a cycle it does not have.                                   *)
CyclePoints ==
  {"cycleSettle", "cycleJoin", "stats", "cycleCommit", "cycleFence",
   "cycleDrop", "cycleIdle", "cycleClear"}

Owns(p) ==
  /\ p.pc = "route" => p.rec \in Record
  /\ p.pc = "hold" => p.turn \in Turns
  /\ p.pc \in CyclePoints => p.cycle \in Runs

PumpOwns == \A g \in Gens : Owns(pumps[g])

-----------------------------------------------------------------------------
(* The shared steps.                                                       *)

(* Go moves one operation and leaves the others where they are.            *)
LEMMA GoType ==
  ASSUME TypeOK, NEW o \in Ops, NEW p \in OpPoints, Go(o, p)
  PROVE  op' \in [Ops -> OpType]
  BY DEF TypeOK, OpType, Go

(* Exited records the end of one process.                                  *)
LEMMA ExitedType ==
  ASSUME TypeOK, NEW g, Exited(g)
  PROVE  runtimes' \in [Gens -> RuntimeType]
  BY DEF TypeOK, RuntimeType, Exited

(* Unbound gives a binding up, if the session still has it.                *)
LEMMA UnboundType ==
  ASSUME TypeOK, NEW g \in 0 .. MaxGen
  PROVE  Unbound(g) \in SessionType
<1>1. session \in SessionType /\ 0 \in 0 .. MaxGen
  BY BoundsAssumption DEF BoundsAssumption, TypeOK
<1>2. [session EXCEPT !.runtime = 0, !.retired = g] \in SessionType
  BY <1>1 DEF SessionType
<1> QED BY <1>1, <1>2 DEF Unbound

(* CommitMirror touches the durable rows and the persisted mark only.      *)
LEMMA CommitMirrorType ==
  ASSUME TypeOK, CommitMirror
  PROVE  log' \in LogType /\ session' \in SessionType
<1> DEFINE durable == log.durable \cup log.ran
<1>1. log \in LogType /\ durable \in SUBSET Runs
  BY DEF TypeOK, LogType
<1>2. log' = [log EXCEPT !.durable = durable]
  BY DEF CommitMirror
<1> HIDE DEF durable
<1>3. log' \in LogType
  BY <1>1, <1>2 DEF LogType
<1>4. session' \in SessionType
  BY DEF TypeOK, CommitMirror, SessionType
<1> QED BY <1>3, <1>4

(* SettledAs ends a turn at most once.                                     *)
LEMMA SettledAsType ==
  ASSUME TypeOK, NEW t \in Turns, NEW end \in {"settled", "transport"}
  PROVE  SettledAs(t, end) \in [Turns -> TurnType]
  BY DEF TypeOK, SettledAs, TurnType

(* The end of a turn's context.                                            *)
LEMMA CtxEndsType ==
  ASSUME TypeOK, NEW t \in Turns
  PROVE  [turns EXCEPT ![t].ctxDone = TRUE] \in [Turns -> TurnType]
  BY DEF TypeOK, TurnType

(* Accepted notes the incarnation that published an acceptance.            *)
LEMMA AcceptedType ==
  ASSUME TypeOK, NEW f \in Foreground
  PROVE  Accepted(f) \in LogType
<1> DEFINE accepted == [log.accepted EXCEPT ![f] = stream]
<1>1. log \in LogType /\ accepted \in [Foreground -> 0 .. MaxGen]
  BY DEF TypeOK, LogType
<1>2. [log EXCEPT !.accepted[f] = stream] = [log EXCEPT !.accepted = accepted]
  BY <1>1 DEF LogType
<1> HIDE DEF accepted
<1>3. [log EXCEPT !.accepted = accepted] \in LogType
  BY <1>1 DEF LogType
<1> QED BY <1>1, <1>2, <1>3 DEF Accepted

(* Idled appends one terminal idle, on the open incarnation.               *)
LEMMA IdledType ==
  ASSUME TypeOK, NEW f \in Foreground, NEW out \in Outcomes
  PROVE  Idled(f, out) \in LogType
<1> DEFINE Idle == [on : Gens, outcome : Outcomes]
<1> DEFINE idle == [on |-> stream, outcome |-> out]
<1> DEFINE idles == [log.idles EXCEPT ![f] = Append(@, idle)]
<1>1. log \in LogType /\ log.idles \in [Foreground -> Seq(Idle)]
  BY DEF TypeOK, LogType
<1>2. CASE stream = 0
  BY <1>1, <1>2 DEF Idled
<1>3. CASE stream # 0
  <2>1. idle \in Idle
    BY <1>3 DEF TypeOK, Gens
  <2>2. Append(log.idles[f], idle) \in Seq(Idle)
    BY <2>1, <1>1, AppendProperties
  <2>3. idles \in [Foreground -> Seq(Idle)]
    BY <1>1, <2>2
  <2>4. Idled(f, out) = [log EXCEPT !.idles = idles]
    BY <1>1, <1>3 DEF Idled, LogType
  <2> HIDE DEF idles
  <2> QED BY <1>1, <2>3, <2>4 DEF LogType
<1> QED BY <1>2, <1>3

(* A foreground is named by its run.                                       *)
LEMMA ForegroundNames ==
  /\ \A t \in Turns : Prompted(t) \in Foreground
  /\ \A r \in Runs : Agent(r) \in Foreground
  BY DEF Foreground

(* PumpAt moves one pump.                                                  *)
LEMMA PumpAtType ==
  ASSUME TypeOK, NEW g \in Gens, NEW p \in PumpPoints, PumpAt(g, p)
  PROVE  pumps' \in [Gens -> PumpType]
  BY DEF TypeOK, PumpType, PumpAt

(* Rested returns a pump to its loop with records still to deliver.        *)
LEMMA RestedType ==
  ASSUME NEW p \in PumpType, NEW todo \in Seq(Record)
  PROVE  Rested(p, todo) \in PumpType
  BY EmptySeq DEF Rested, PumpType, PumpPoints

(* A pump that rests holds no record and no foreground.                    *)
LEMMA PumpRestsType ==
  ASSUME TypeOK, NEW g \in Gens, PumpRests(g)
  PROVE  pumps' \in [Gens -> PumpType]
<1>1. pumps[g].todo \in Seq(Record)
  BY DEF TypeOK, PumpType
<1> QED BY <1>1, RestedType DEF TypeOK, PumpRests

(* A pump that delivers queues its held records before the others.         *)
LEMMA PumpDeliversType ==
  ASSUME TypeOK, NEW g \in Gens, PumpDelivers(g)
  PROVE  pumps' \in [Gens -> PumpType]
<1>1. pumps[g].hold \in Seq(Record) /\ pumps[g].todo \in Seq(Record)
  BY DEF TypeOK, PumpType
<1>2. pumps[g].hold \o pumps[g].todo \in Seq(Record)
  BY <1>1, ConcatProperties
<1> QED BY <1>2, RestedType DEF TypeOK, PumpDelivers

(* The owner a pump reads is a turn of the session or nobody.              *)
LEMMA DispatchedType ==
  ASSUME TypeOK, NEW g
  PROVE  DispatchedTurn(g) \in Turns \cup {None}
  BY DEF TypeOK, SessionType, DispatchedTurn

-----------------------------------------------------------------------------
(* Admission and ensureRuntime.                                            *)

(* The gate is taken by a known operation.                                 *)
LEMMA AdmitType ==
  ASSUME TypeOK, NEW o \in Ops, Admit(o)
  PROVE  TypeOK'
<1>1. op' \in [Ops -> OpType]
  BY GoType DEF Admit, OpPoints
<1>2. session' \in SessionType
  BY DEF TypeOK, Admit, SessionType
<1> QED BY <1>1, <1>2 DEF TypeOK, Admit

(* The prompt becomes the session's turn, or is refused.                   *)
LEMMA PromptInstallType ==
  ASSUME TypeOK, NEW t \in Turns, PromptInstall(t)
  PROVE  TypeOK'
<1>1. op' \in [Ops -> OpType]
  BY GoType DEF PromptInstall, OpPoints, Ops
<1>2. session' \in SessionType
  BY DEF TypeOK, PromptInstall, SessionType
<1> QED BY <1>1, <1>2 DEF TypeOK, PromptInstall

(* Mapping the content moves the operation only.                           *)
LEMMA PrepareType ==
  ASSUME TypeOK, NEW o \in Ops, Prepare(o)
  PROVE  TypeOK'
<1>1. op' \in [Ops -> OpType]
  BY GoType DEF Prepare, OpPoints
<1> QED BY <1>1 DEF TypeOK, Prepare

(* An operation notes the bound generation, which exists.                  *)
LEMMA EnsureRuntimeType ==
  ASSUME TypeOK, NEW o \in Ops, EnsureRuntime(o)
  PROVE  TypeOK'
<1>1. Ensured(o) \in OpPoints /\ session.runtime \in 0 .. MaxGen
  BY DEF TypeOK, Ensured, OpPoints, SessionType
<1>2. op' \in [Ops -> OpType]
  BY <1>1 DEF TypeOK, EnsureRuntime, OpType, OpPoints
<1> QED BY <1>2 DEF TypeOK, EnsureRuntime

(* Waiting for an ending generation moves the operation only.              *)
LEMMA AwaitEndingType ==
  ASSUME TypeOK, NEW o \in Ops, AwaitEnding(o)
  PROVE  TypeOK'
<1>1. op' \in [Ops -> OpType]
  BY GoType DEF AwaitEnding, OpPoints
<1> QED BY <1>1 DEF TypeOK, AwaitEnding

(* The retired generation is forgotten once it is dead.                    *)
LEMMA AwaitRetiredType ==
  ASSUME TypeOK, NEW o \in Ops, AwaitRetired(o)
  PROVE  TypeOK'
<1>1. op' \in [Ops -> OpType]
  BY GoType DEF AwaitRetired, OpPoints
<1>2. session' \in SessionType
  BY BoundsAssumption DEF BoundsAssumption, TypeOK, AwaitRetired, SessionType
<1> QED BY <1>1, <1>2 DEF TypeOK, AwaitRetired

(* The generation a launch starts is one of Gens.                          *)
LEMMA LaunchType ==
  ASSUME TypeOK, NEW o \in Ops, Launch(o)
  PROVE  TypeOK'
<1>1. op' \in [Ops -> OpType]
  <2>1. ASSUME NEW g \in Gens, op' = [op EXCEPT ![o] = [pc |-> "bind", at |-> g]]
        PROVE  op' \in [Ops -> OpType]
    BY <2>1 DEF TypeOK, OpType, OpPoints, Gens
  <2>2. ASSUME Go(o, "return")
        PROVE  op' \in [Ops -> OpType]
    BY <2>2, GoType DEF OpPoints
  <2> QED BY <2>1, <2>2 DEF Launch
<1>2. runtimes' \in [Gens -> RuntimeType]
  BY DEF TypeOK, Launch, RuntimeType
<1> QED BY <1>1, <1>2 DEF TypeOK, Launch

(* A launch binds its own generation or reaps it.                          *)
LEMMA BindType ==
  ASSUME TypeOK, NEW o \in Ops, Bind(o)
  PROVE  TypeOK'
<1>1. op' \in [Ops -> OpType]
  BY GoType DEF Bind, OpPoints
<1>2. op[o].at \in 0 .. MaxGen
  BY DEF TypeOK, OpType
<1>3. session' \in SessionType
  BY <1>2 DEF TypeOK, Bind, SessionType
<1>4. pumps' \in [Gens -> PumpType]
  <2>1. CASE session.closing
    BY <2>1 DEF TypeOK, Bind
  <2>2. CASE ~session.closing
    <3>1. PumpAt(op[o].at, "read")
      BY <2>2 DEF Bind, PumpAt
    <3>2. CASE op[o].at \in Gens
      BY <3>1, <3>2, PumpAtType DEF PumpPoints
    <3>3. CASE op[o].at \notin Gens
      BY <3>1, <3>3 DEF TypeOK, PumpAt
    <3> QED BY <3>2, <3>3
  <2> QED BY <2>1, <2>2
<1>5. runtimes' \in [Gens -> RuntimeType]
  BY ExitedType DEF TypeOK, Bind
<1> QED BY <1>1, <1>3, <1>4, <1>5 DEF TypeOK, Bind

(* Configuration ends well or badly, and moves the operation only.         *)
LEMMA ConfigureType ==
  ASSUME TypeOK, NEW o \in Ops, Configure(o)
  PROVE  TypeOK'
<1>1. op' \in [Ops -> OpType]
  BY GoType DEF Configure, OpPoints
<1>2. runtimes' \in [Gens -> RuntimeType]
  BY ExitedType DEF TypeOK, Configure
<1> QED BY <1>1, <1>2 DEF TypeOK, Configure

(* A generation that was not configured is stopped and unbound.            *)
LEMMA StopUnconfiguredType ==
  ASSUME TypeOK, NEW o \in Ops, StopUnconfigured(o)
  PROVE  TypeOK'
<1>1. op' \in [Ops -> OpType]
  BY GoType DEF StopUnconfigured, OpPoints
<1>2. session' \in SessionType
  BY UnboundType DEF TypeOK, OpType, StopUnconfigured
<1> QED BY <1>1, <1>2 DEF TypeOK, StopUnconfigured

(* openMu is taken by the operation that opens the stream.                 *)
LEMMA OpenCheckType ==
  ASSUME TypeOK, NEW o \in Ops, OpenCheck(o)
  PROVE  TypeOK'
<1>1. op' \in [Ops -> OpType]
  BY GoType DEF OpenCheck, OpenRefused, OpPoints
<1>2. session' \in SessionType
  BY DEF TypeOK, OpenCheck, SessionType
<1> QED BY <1>1, <1>2 DEF TypeOK, OpenCheck

(* The stream opens on the generation the operation holds.                 *)
LEMMA OpenPublishType ==
  ASSUME TypeOK, NEW o \in Ops, OpenPublish(o)
  PROVE  TypeOK'
<1>1. op' \in [Ops -> OpType]
  BY GoType DEF OpenPublish, OpenRefused, Ensured, OpPoints
<1>2. session' \in SessionType
  BY DEF TypeOK, OpenPublish, SessionType
<1>3. stream' \in 0 .. MaxGen
  BY DEF TypeOK, OpenPublish, OpType
<1> QED BY <1>1, <1>2, <1>3 DEF TypeOK, OpenPublish

(* A config change or usage read uses its runtime and returns.             *)
LEMMA ControlUseType ==
  ASSUME TypeOK, NEW c \in Controls, ControlUse(c)
  PROVE  TypeOK'
<1>1. op' \in [Ops -> OpType]
  BY GoType DEF ControlUse, OpPoints, Ops
<1>2. log' \in LogType /\ session' \in SessionType
  BY CommitMirrorType DEF TypeOK, ControlUse
<1> QED BY <1>1, <1>2 DEF TypeOK, ControlUse

(* Every step of the establishment keeps the types.                        *)
LEMMA EstablishType ==
  ASSUME TypeOK, EstablishCommit \/ EstablishRelease \/ EstablishHook
  PROVE  TypeOK'
<1>1. Opening \in Ops
  BY DEF Ops
<1>2. CASE EstablishCommit
  <2>1. op' \in [Ops -> OpType]
    BY <1>1, <1>2, GoType DEF TypeOK, EstablishCommit, OpType, OpPoints, SessionType
  <2>2. log' \in LogType /\ session' \in SessionType
    BY <1>2, CommitMirrorType DEF TypeOK, EstablishCommit
  <2> QED BY <1>2, <2>1, <2>2 DEF TypeOK, EstablishCommit
<1>3. CASE EstablishRelease
  <2>1. op' \in [Ops -> OpType]
    BY <1>1, <1>3, GoType DEF EstablishRelease, OpPoints
  <2>2. session' \in SessionType
    BY <1>3 DEF TypeOK, EstablishRelease, SessionType
  <2> QED BY <1>3, <2>1, <2>2 DEF TypeOK, EstablishRelease
<1>4. CASE EstablishHook
  <2>1. op' \in [Ops -> OpType]
    BY <1>1, <1>4, GoType DEF EstablishHook, OpPoints
  <2>2. session' \in SessionType
    BY <1>1, <1>4 DEF TypeOK, EstablishHook, SessionType
  <2> QED BY <1>4, <2>1, <2>2 DEF TypeOK, EstablishHook
<1> QED BY <1>2, <1>3, <1>4

-----------------------------------------------------------------------------
(* prompt, from dispatch to the response.                                  *)

(* A prompt's turn receives the generation its operation holds.            *)
LEMMA DispatchType ==
  ASSUME TypeOK, NEW t \in Turns, Dispatch(t)
  PROVE  TypeOK'
<1>1. op' \in [Ops -> OpType]
  BY GoType DEF Dispatch, OpPoints, Ops
<1>2. op[t].at \in 0 .. MaxGen
  BY DEF TypeOK, OpType, Ops
<1>3. turns' \in [Turns -> TurnType]
  BY <1>2 DEF TypeOK, Dispatch, TurnType
<1> QED BY <1>1, <1>3 DEF TypeOK, Dispatch

(* pi takes up a prompt's run, or the call fails.                          *)
LEMMA SendType ==
  ASSUME TypeOK, NEW t \in Turns, Send(t)
  PROVE  TypeOK'
<1> DEFINE g == op[t].at
<1> DEFINE start == [kind |-> "start", run |-> t]
<1>1. op' \in [Ops -> OpType]
  BY GoType DEF Send, OpPoints, Ops
<1>2. turns' \in [Turns -> TurnType]
  <2>1. \E reply \in {"ok", "rejected", "lost"} :
          turns' = [turns EXCEPT ![t].reply = reply]
    BY DEF Send
  <2> QED BY <2>1 DEF TypeOK, TurnType
<1>3. start \in Record
  BY DEF Record, Runs
<1>4. pi' \in [Gens -> PiType]
  <2>1. ASSUME NEW h \in Gens
        PROVE  [run |-> t, out |-> Append(pi[h].out, start)] \in PiType
    <3>1. pi[h].out \in Seq(Record)
      BY DEF TypeOK, PiType
    <3>2. Append(pi[h].out, start) \in Seq(Record)
      BY <1>3, <3>1, AppendProperties
    <3> QED BY <3>2 DEF PiType, Runs
  <2>2. \/ pi' = [pi EXCEPT ![g] = [run |-> t, out |-> Append(pi[g].out, start)]]
        \/ pi' = pi
    BY DEF Send
  <2> HIDE DEF start, g
  <2> QED BY <2>1, <2>2 DEF TypeOK
<1>5. log' \in LogType
  <2>1. log' = [log EXCEPT !.began = @ \cup {t}] \/ log' = log
    BY DEF Send
  <2> QED BY <2>1 DEF TypeOK, LogType, Runs
<1> QED BY <1>1, <1>2, <1>4, <1>5 DEF TypeOK, Send

(* An answer in TurnType's range is all a prompt can receive.              *)
LEMMA ReplyType ==
  ASSUME TypeOK, NEW t \in Turns, Reply(t)
  PROVE  TypeOK'
<1>1. op' \in [Ops -> OpType]
  BY GoType DEF Reply, OpPoints, Ops
<1>2. turns' \in [Turns -> TurnType]
  BY DEF TypeOK, Reply, TurnType
<1> QED BY <1>1, <1>2 DEF TypeOK, Reply

(* claimFence marks the turn and moves the operation.                      *)
LEMMA ClaimFenceType ==
  ASSUME TypeOK, NEW t \in Turns, NEW owed \in OpPoints, ClaimFence(t, owed)
  PROVE  op' \in [Ops -> OpType] /\ turns' \in [Turns -> TurnType]
<1>1. op' \in [Ops -> OpType]
  BY GoType DEF ClaimFence, OpPoints, Ops
<1>2. turns' \in [Turns -> TurnType]
  BY DEF TypeOK, ClaimFence, TurnType
<1> QED BY <1>1, <1>2

(* A fenced stream is the generation 0 of no incarnation.                  *)
LEMMA FenceStreamType ==
  ASSUME TypeOK, FenceStream
  PROVE  stream' \in 0 .. MaxGen
  BY BoundsAssumption DEF BoundsAssumption, FenceStream

(* A prompt whose dispatch was lost claims the fence.                      *)
LEMMA LostType ==
  ASSUME TypeOK, NEW t \in Turns, Lost(t)
  PROVE  TypeOK'
<1>1. "lostFence" \in OpPoints
  BY DEF OpPoints
<1> QED BY <1>1, ClaimFenceType DEF TypeOK, Lost

(* The fence a prompt owes closes the stream.                              *)
LEMMA OwedFenceType ==
  ASSUME TypeOK, NEW t \in Turns, OwedFence(t)
  PROVE  TypeOK'
<1>1. op' \in [Ops -> OpType]
  BY GoType DEF OwedFence, OpPoints, Ops
<1> QED BY <1>1, FenceStreamType DEF TypeOK, OwedFence

(* A published acceptance names the open incarnation.                      *)
LEMMA AcceptType ==
  ASSUME TypeOK, NEW t \in Turns, Accept(t)
  PROVE  TypeOK'
<1>1. op' \in [Ops -> OpType]
  BY GoType DEF Accept, OpPoints, Ops
<1>2. turns' \in [Turns -> TurnType]
  BY DEF TypeOK, Accept, AcceptTurn, TurnType
<1>3. log' \in LogType
  BY AcceptedType, ForegroundNames DEF TypeOK, Accept, AcceptTurn
<1> QED BY <1>1, <1>2, <1>3 DEF TypeOK, Accept

(* A prompt's wait ends by settlement, by its grace or by its context.     *)
LEMMA WaitType ==
  ASSUME TypeOK, NEW t \in Turns, Wait(t)
  PROVE  TypeOK'
<1>1. op' \in [Ops -> OpType]
  BY GoType DEF Wait, OpPoints, Ops
<1>2. runtimes' \in [Gens -> RuntimeType]
  BY ExitedType DEF TypeOK, Wait
<1> QED BY <1>1, <1>2 DEF TypeOK, Wait

(* A prompt past its grace stops its generation.                           *)
LEMMA StopGraceType ==
  ASSUME TypeOK, NEW t \in Turns, StopGrace(t)
  PROVE  TypeOK'
<1>1. op' \in [Ops -> OpType]
  BY GoType DEF StopGrace, OpPoints, Ops
<1>2. session' \in SessionType
  BY UnboundType DEF TypeOK, OpType, StopGrace, Ops
<1>3. turns' \in [Turns -> TurnType]
  BY SettledAsType DEF StopGrace
<1> QED BY <1>1, <1>2, <1>3 DEF TypeOK, StopGrace

(* A settling foreground is one of Foreground.                             *)
LEMMA SettleType ==
  ASSUME TypeOK, NEW t \in Turns, Settle(t)
  PROVE  TypeOK'
<1>1. op' \in [Ops -> OpType]
  BY GoType DEF Settle, OpPoints, Ops
<1>2. marks' \in MarksType
  BY ForegroundNames DEF TypeOK, Settle, MarksType
<1> QED BY <1>1, <1>2 DEF TypeOK, Settle

(* The join of the interrupts moves the operation only.                    *)
LEMMA JoinType ==
  ASSUME TypeOK, NEW t \in Turns, Join(t)
  PROVE  TypeOK'
<1>1. op' \in [Ops -> OpType]
  BY GoType DEF Join, OpPoints, Ops
<1> QED BY <1>1 DEF TypeOK, Join

(* A settling prompt commits, or notes that it could not.                  *)
LEMMA TurnCommitType ==
  ASSUME TypeOK, NEW t \in Turns, TurnCommit(t)
  PROVE  TypeOK'
<1>1. op' \in [Ops -> OpType]
  BY GoType DEF TurnCommit, OpPoints, Ops
<1>2. turns' \in [Turns -> TurnType]
  <2>1. turns' = turns \/ turns' = [turns EXCEPT ![t].commitFailed = TRUE]
    BY DEF TurnCommit
  <2>2. turns[t] \in TurnType
    BY DEF TypeOK
  <2>3. [turns[t] EXCEPT !.commitFailed = TRUE] \in TurnType
    BY <2>2 DEF TurnType
  <2> QED BY <2>1, <2>3 DEF TypeOK
<1>3. runtimes' \in [Gens -> RuntimeType]
  BY ExitedType DEF TypeOK, TurnCommit
<1>4. log' \in LogType /\ session' \in SessionType
  BY CommitMirrorType DEF TypeOK, TurnCommit
<1> QED BY <1>1, <1>2, <1>3, <1>4 DEF TypeOK, TurnCommit

(* A failed commit stops the generation.                                   *)
LEMMA StopCommitType ==
  ASSUME TypeOK, NEW t \in Turns, StopCommit(t)
  PROVE  TypeOK'
<1>1. op' \in [Ops -> OpType]
  BY GoType DEF StopCommit, OpPoints, Ops
<1>2. session' \in SessionType
  BY UnboundType DEF TypeOK, OpType, StopCommit, Ops
<1> QED BY <1>1, <1>2 DEF TypeOK, StopCommit

(* A failed commit fences the stream.                                      *)
LEMMA CommitFenceType ==
  ASSUME TypeOK, NEW t \in Turns, CommitFence(t)
  PROVE  TypeOK'
<1>1. op' \in [Ops -> OpType]
  BY GoType DEF CommitFence, OpPoints, Ops
<1> QED BY <1>1, FenceStreamType DEF TypeOK, CommitFence

(* The terminal idle of a prompt has an outcome of Outcomes.               *)
LEMMA TerminalType ==
  ASSUME TypeOK, NEW t \in Turns, Terminal(t)
  PROVE  TypeOK'
<1>1. op' \in [Ops -> OpType]
  BY GoType DEF Terminal, OpPoints, Ops
<1>2. marks' \in MarksType
  BY ForegroundNames DEF TypeOK, Terminal, MarksType
<1>3. TurnOutcome(t) \in Outcomes
  BY DEF TurnOutcome, Outcomes
<1>4. log' \in LogType
  BY <1>3, IdledType, ForegroundNames DEF Terminal
<1> QED BY <1>1, <1>2, <1>4 DEF TypeOK, Terminal

(* A settled prompt claims the fence.                                      *)
LEMMA ClaimType ==
  ASSUME TypeOK, NEW t \in Turns, Claim(t)
  PROVE  TypeOK'
<1>1. "claimFence" \in OpPoints
  BY DEF OpPoints
<1> QED BY <1>1, ClaimFenceType DEF TypeOK, Claim

(* A returning operation gives its gate and its turn back.                 *)
LEMMA ReturnType ==
  ASSUME TypeOK, NEW o \in Ops, Return(o)
  PROVE  TypeOK'
<1>1. op' \in [Ops -> OpType]
  BY BoundsAssumption DEF BoundsAssumption, TypeOK, Return, OpType, OpPoints
<1>2. session' \in SessionType
  BY DEF TypeOK, Return, SessionType
<1>3. turns' \in [Turns -> TurnType]
  <2>1. CASE o \in Turns
    <3>1. turns[o] \in TurnType
      BY <2>1 DEF TypeOK
    <3>2. [turns[o] EXCEPT !.finished = TRUE, !.ctxDone = TRUE,
                           !.commitFailed = FALSE] \in TurnType
      BY <3>1 DEF TurnType
    <3> QED BY <2>1, <3>2 DEF TypeOK, Return
  <2>2. CASE o \notin Turns
    BY <2>2 DEF TypeOK, Return
  <2> QED BY <2>1, <2>2
<1> QED BY <1>1, <1>2, <1>3 DEF TypeOK, Return

-----------------------------------------------------------------------------
(* The pump.                                                               *)

(* The record a pump takes is the head of a queue of records.              *)
LEMMA PumpReadType ==
  ASSUME TypeOK, NEW g \in Gens, PumpRead(g)
  PROVE  TypeOK'
<1> DEFINE p == pumps[g]
<1> DEFINE rest == IF p.todo # <<>> THEN Tail(p.todo) ELSE <<>>
<1> DEFINE routed == [p EXCEPT !.pc = "route", !.todo = rest,
                        !.rec = NextRecord(g), !.turn = DispatchedTurn(g),
                        !.cycle = session.cycle]
<1> DEFINE dropped == [p EXCEPT !.todo = rest]
<1>1. pumps[g] \in PumpType /\ pi[g] \in PiType
  BY DEF TypeOK
<1>2. DispatchedTurn(g) \in Turns \cup {None} /\ session.cycle \in Runs \cup {None}
  BY DispatchedType DEF TypeOK, SessionType
<1>3. NextRecord(g) \in Record /\ rest \in Seq(Record)
  BY <1>1, HeadTailProperties, EmptySeq
     DEF PumpRead, HasRecord, NextRecord, PumpType, PiType
<1>4. routed \in PumpType /\ dropped \in PumpType
  <2> HIDE DEF rest
  <2> QED BY <1>1, <1>2, <1>3 DEF PumpType, PumpPoints
<1>5. pumps' \in [Gens -> PumpType]
  <2>1. pumps' = [pumps EXCEPT ![g] = IF session.runtime = g THEN routed
                                      ELSE dropped]
    BY DEF PumpRead
  <2> HIDE DEF routed, dropped, rest, p
  <2> QED BY <1>4, <2>1 DEF TypeOK
<1>6. pi' \in [Gens -> PiType]
  <2>1. CASE pumps[g].todo # <<>>
    BY <2>1 DEF PumpRead, TypeOK
  <2>2. CASE pumps[g].todo = <<>>
    <3>1. Tail(pi[g].out) \in Seq(Record)
      BY <1>1, <2>2, HeadTailProperties DEF PumpRead, HasRecord, PiType
    <3> QED BY <2>2, <3>1 DEF PumpRead, TypeOK, PiType
  <2> QED BY <2>1, <2>2
<1> QED BY <1>5, <1>6 DEF TypeOK, PumpRead

(* Whatever the pump routes a record to exists.                            *)
LEMMA PumpRouteType ==
  ASSUME TypeOK, PumpOwns, NEW g \in Gens, PumpRoute(g)
  PROVE  TypeOK'
<1>1. /\ pumps[g].turn \in Turns \cup {None}
      /\ pumps[g].rec \in Record \cup {None}
  BY DEF TypeOK, PumpType
<1>2. CASE pumps[g].turn # None
  <2> DEFINE t == pumps[g].turn
  <2>1. t \in Turns /\ RouteToTurn(g, t)
    BY <1>1, <1>2 DEF PumpRoute
  <2>2. turns' \in [Turns -> TurnType]
    <3>1. turns[t] \in TurnType
      BY <2>1 DEF TypeOK
    <3>2. \E end \in {"running", "settled", "transport"} :
            turns' = [turns EXCEPT ![t] = [@ EXCEPT !.accepted = TRUE, !.ended = end]]
      BY <2>1, <3>1 DEF RouteToTurn, TurnType
    <3>3. \A end \in {"running", "settled", "transport"} :
            [turns[t] EXCEPT !.accepted = TRUE, !.ended = end] \in TurnType
      BY <3>1 DEF TurnType
    <3> QED BY <3>2, <3>3 DEF TypeOK
  <2>3. pumps' \in [Gens -> PumpType]
    BY <2>1, PumpAtType, PumpRestsType DEF RouteToTurn, PumpPoints
  <2>4. log' \in LogType
    BY <2>1, AcceptedType, ForegroundNames DEF TypeOK, RouteToTurn
  <2> QED BY <2>1, <2>2, <2>3, <2>4 DEF TypeOK, PumpRoute, RouteToTurn
<1>3. CASE pumps[g].turn = None /\ pumps[g].cycle # None
  <2>1. RouteToCycle(g)
    BY <1>3 DEF PumpRoute
  <2>2. pumps' \in [Gens -> PumpType]
    BY <2>1, PumpAtType, PumpRestsType DEF RouteToCycle, PumpPoints
  <2> QED BY <2>1, <2>2 DEF TypeOK, PumpRoute, RouteToCycle
<1>4. CASE pumps[g].turn = None /\ pumps[g].cycle = None
  <2>1. OpenAgentCycle(g)
    BY <1>4 DEF PumpRoute
  <2>2. pumps' \in [Gens -> PumpType]
    BY <2>1, PumpRestsType DEF OpenAgentCycle
  <2>3. CASE session' = session /\ log' = log
    BY <2>1, <2>2, <2>3 DEF TypeOK, PumpRoute, OpenAgentCycle
  <2>4. CASE ~(session' = session /\ log' = log)
    <3> DEFINE r == pumps[g].rec.run
    <3>1. /\ pumps[g].rec.kind = "start"
          /\ session' = [session EXCEPT !.cycle = r]
          /\ log' = Accepted(Agent(r))
      BY <2>1, <2>4 DEF OpenAgentCycle
    <3>2. r \in Runs
      BY DEF PumpRoute, PumpOwns, Owns, Record
    <3>3. session' \in SessionType
      BY <3>1, <3>2 DEF TypeOK, SessionType
    <3>4. log' \in LogType
      BY <3>1, <3>2, AcceptedType, ForegroundNames
    <3> QED BY <2>1, <2>2, <3>3, <3>4 DEF TypeOK, PumpRoute, OpenAgentCycle
  <2> QED BY <2>3, <2>4
<1> QED BY <1>2, <1>3, <1>4

(* A record taken while a cycle settles joins the held ones.               *)
LEMMA PumpHoldType ==
  ASSUME TypeOK, NEW g \in Gens, PumpHold(g)
  PROVE  TypeOK'
<1> DEFINE held == Append(pumps[g].hold, Head(pi[g].out))
<1>1. pumps[g].hold \in Seq(Record) /\ pi[g].out \in Seq(Record)
  BY DEF TypeOK, PumpType, PiType
<1>2. held \in Seq(Record) /\ Tail(pi[g].out) \in Seq(Record)
  BY <1>1, HeadTailProperties, AppendProperties DEF PumpHold
<1>3. pumps' = [pumps EXCEPT ![g].hold = held]
  BY DEF PumpHold
<1>4. pumps' \in [Gens -> PumpType]
  <2> HIDE DEF held
  <2> QED BY <1>2, <1>3 DEF TypeOK, PumpType
<1>5. pi' \in [Gens -> PiType]
  BY <1>2 DEF TypeOK, PumpHold, PiType
<1> QED BY <1>4, <1>5 DEF TypeOK, PumpHold

(* A pump that outran its bound, or lost its pi, drops what it held.       *)
LEMMA PumpHoldLostType ==
  ASSUME TypeOK, NEW g \in Gens, PumpHoldLost(g)
  PROVE  TypeOK'
<1>1. runtimes' \in [Gens -> RuntimeType]
  BY DEF TypeOK, PumpHoldLost, RuntimeType
<1>2. pumps[g] \in PumpType
  BY DEF TypeOK
<1>3. Rested(pumps[g], pumps[g].todo) \in PumpType
  BY <1>2, RestedType DEF PumpType
<1>4. [pumps[g] EXCEPT !.pc = "cycleCommit", !.hold = <<>>] \in PumpType
  BY <1>2, EmptySeq DEF PumpType, PumpPoints
<1>5. pumps' \in [Gens -> PumpType]
  BY <1>3, <1>4 DEF TypeOK, PumpHoldLost
<1> QED BY <1>1, <1>5 DEF TypeOK, PumpHoldLost

(* The held records are delivered once the settlement is over.             *)
LEMMA PumpHoldDoneType ==
  ASSUME TypeOK, NEW g \in Gens, PumpHoldDone(g)
  PROVE  TypeOK'
<1>1. pumps' \in [Gens -> PumpType]
  BY PumpDeliversType DEF PumpHoldDone
<1> QED BY <1>1 DEF TypeOK, PumpHoldDone

(* The foreground a settling pump publishes for.                           *)
LEMMA CycleForeground ==
  ASSUME PumpOwns, NEW g \in Gens, pumps[g].pc \in CyclePoints
  PROVE  Agent(pumps[g].cycle) \in Foreground
  BY ForegroundNames DEF PumpOwns, Owns

(* A settling agent-origin cycle is one of Foreground.                     *)
LEMMA CycleSettleType ==
  ASSUME TypeOK, PumpOwns, NEW g \in Gens, CycleSettle(g)
  PROVE  TypeOK'
<1>1. pumps' \in [Gens -> PumpType]
  BY PumpAtType DEF CycleSettle, PumpPoints
<1>2. Agent(pumps[g].cycle) \in Foreground
  BY CycleForeground DEF CycleSettle, CyclePoints
<1>3. marks' \in MarksType
  BY <1>2 DEF TypeOK, CycleSettle, MarksType
<1> QED BY <1>1, <1>3 DEF TypeOK, CycleSettle

(* The join of a cycle's interrupts moves the pump only.                   *)
LEMMA CycleJoinType ==
  ASSUME TypeOK, NEW g \in Gens, CycleJoin(g)
  PROVE  TypeOK'
<1>1. pumps' \in [Gens -> PumpType]
  BY PumpAtType DEF CycleJoin, PumpPoints
<1> QED BY <1>1 DEF TypeOK, CycleJoin

(* The final statistics of a cycle move the pump only.                     *)
LEMMA CycleStatsType ==
  ASSUME TypeOK, NEW g \in Gens, CycleStats(g)
  PROVE  TypeOK'
<1>1. pumps' \in [Gens -> PumpType]
  BY PumpAtType DEF CycleStats, PumpPoints
<1> QED BY <1>1 DEF TypeOK, CycleStats

(* A cycle commits, or goes to the fence.                                  *)
LEMMA CycleCommitType ==
  ASSUME TypeOK, NEW g \in Gens, CycleCommit(g)
  PROVE  TypeOK'
<1>1. pumps' \in [Gens -> PumpType]
  BY PumpAtType DEF CycleCommit, PumpPoints
<1>2. log' \in LogType /\ session' \in SessionType
  BY CommitMirrorType DEF TypeOK, CycleCommit
<1> QED BY <1>1, <1>2 DEF TypeOK, CycleCommit

(* A cycle that could not commit fences the stream.                        *)
LEMMA CycleFenceType ==
  ASSUME TypeOK, NEW g \in Gens, CycleFence(g)
  PROVE  TypeOK'
<1>1. pumps' \in [Gens -> PumpType]
  BY PumpAtType DEF CycleFence, PumpPoints
<1> QED BY <1>1, FenceStreamType DEF TypeOK, CycleFence

(* The generation of such a cycle is unbound and signalled.                *)
LEMMA CycleDropType ==
  ASSUME TypeOK, NEW g \in Gens, CycleDrop(g)
  PROVE  TypeOK'
<1>1. pumps' \in [Gens -> PumpType]
  BY PumpAtType DEF CycleDrop, PumpPoints
<1>2. session' \in SessionType
  BY UnboundType DEF CycleDrop, Gens
<1>3. runtimes' \in [Gens -> RuntimeType]
  BY DEF TypeOK, CycleDrop, RuntimeType
<1> QED BY <1>1, <1>2, <1>3 DEF TypeOK, CycleDrop

(* The terminal idle of a cycle has an outcome of Outcomes.                *)
LEMMA CycleIdleType ==
  ASSUME TypeOK, PumpOwns, NEW g \in Gens, CycleIdle(g)
  PROVE  TypeOK'
<1>1. pumps' \in [Gens -> PumpType]
  BY PumpAtType DEF CycleIdle, PumpPoints
<1>2. Agent(pumps[g].cycle) \in Foreground
  BY CycleForeground DEF CycleIdle, CyclePoints
<1>3. marks' \in MarksType
  BY <1>2 DEF TypeOK, CycleIdle, MarksType
<1>4. log' \in LogType
  BY <1>2, IdledType DEF CycleIdle, Outcomes
<1> QED BY <1>1, <1>3, <1>4 DEF TypeOK, CycleIdle

(* The cycle leaves the session.                                           *)
LEMMA CycleClearType ==
  ASSUME TypeOK, NEW g \in Gens, CycleClear(g)
  PROVE  TypeOK'
<1>1. pumps' \in [Gens -> PumpType]
  BY PumpDeliversType DEF CycleClear
<1>2. session' \in SessionType
  BY DEF TypeOK, CycleClear, SessionType
<1> QED BY <1>1, <1>2 DEF TypeOK, CycleClear

(* The end of a stream clears the session's cycle and marks the turn.      *)
LEMMA RuntimeEndedType ==
  ASSUME TypeOK, NEW g \in Gens, RuntimeEnded(g)
  PROVE  TypeOK'
<1>1. session' \in SessionType
  BY DEF TypeOK, RuntimeEnded, SessionType
<1>2. runtimes' \in [Gens -> RuntimeType]
  BY DEF TypeOK, RuntimeEnded, RuntimeType
<1>3. pumps[g] \in PumpType /\ session.cycle \in Runs \cup {None}
  BY DEF TypeOK, SessionType
<1>4. DispatchedTurn(g) \in Turns \cup {None}
  BY DispatchedType
<1>5. \A pc \in PumpPoints, cycle \in Runs \cup {None} :
        [pumps[g] EXCEPT !.pc = pc, !.turn = DispatchedTurn(g), !.cycle = cycle]
          \in PumpType
  BY <1>3, <1>4 DEF PumpType
<1>6. \E pc \in PumpPoints, cycle \in Runs \cup {None} :
        pumps' = [pumps EXCEPT ![g] =
                    [@ EXCEPT !.pc = pc, !.turn = DispatchedTurn(g), !.cycle = cycle]]
  <2> DEFINE pc == IF session.runtime = g THEN "endJoin" ELSE "endUnbind"
  <2> DEFINE cycle == IF session.runtime = g /\ ~session.closing
                        THEN session.cycle ELSE None
  <2>1. pc \in PumpPoints /\ cycle \in Runs \cup {None}
    BY <1>3 DEF PumpPoints
  <2>2. pumps' = [pumps EXCEPT ![g] =
                    [@ EXCEPT !.pc = pc, !.turn = DispatchedTurn(g), !.cycle = cycle]]
    BY DEF RuntimeEnded
  <2> HIDE DEF pc, cycle
  <2> QED BY <2>1, <2>2
<1>7. pumps' \in [Gens -> PumpType]
  BY <1>5, <1>6 DEF TypeOK
<1> QED BY <1>1, <1>2, <1>7 DEF TypeOK, RuntimeEnded

(* The join before a fence moves the pump only.                            *)
LEMMA EndJoinType ==
  ASSUME TypeOK, NEW g \in Gens, EndJoin(g)
  PROVE  TypeOK'
<1>1. pumps' \in [Gens -> PumpType]
  BY PumpAtType DEF EndJoin, PumpPoints
<1>2. pumps[g].cycle \in Runs \cup {None}
  BY DEF TypeOK, PumpType
<1>3. log' \in LogType
  BY <1>2, IdledType, ForegroundNames DEF TypeOK, EndJoin, Outcomes
<1> QED BY <1>1, <1>3 DEF TypeOK, EndJoin

(* The pump fences and unbinds its generation.                             *)
LEMMA EndUnbindType ==
  ASSUME TypeOK, NEW g \in Gens, EndUnbind(g)
  PROVE  TypeOK'
<1>1. pumps' \in [Gens -> PumpType]
  BY PumpAtType DEF EndUnbind, PumpPoints
<1>2. session' \in SessionType
  BY UnboundType DEF TypeOK, EndUnbind, Gens
<1>3. stream' \in 0 .. MaxGen
  BY BoundsAssumption DEF BoundsAssumption, TypeOK, EndUnbind
<1>4. turns' \in [Turns -> TurnType]
  <2>1. CASE pumps[g].turn = None
    BY <2>1 DEF TypeOK, EndUnbind
  <2>2. CASE pumps[g].turn # None
    <3> DEFINE t == pumps[g].turn
    <3> DEFINE after == SettledAs(t, "transport")
    <3>1. t \in Turns
      BY <2>2 DEF TypeOK, PumpType
    <3>2. after \in [Turns -> TurnType]
      BY <3>1, SettledAsType
    <3>3. turns' = [after EXCEPT ![t].ctxDone = TRUE]
      BY <2>2 DEF EndUnbind
    <3> HIDE DEF after
    <3> QED BY <3>1, <3>2, <3>3 DEF TurnType
  <2> QED BY <2>1, <2>2
<1> QED BY <1>1, <1>2, <1>3, <1>4 DEF TypeOK, EndUnbind

(* The pump reaps its generation and is done.                              *)
LEMMA EndReleaseType ==
  ASSUME TypeOK, NEW g \in Gens, EndRelease(g)
  PROVE  TypeOK'
<1>1. pumps' \in [Gens -> PumpType]
  <2>1. pumps[g] \in PumpType
    BY DEF TypeOK
  <2>2. [pumps[g] EXCEPT !.pc = "done", !.turn = None, !.cycle = None] \in PumpType
    BY <2>1 DEF PumpType, PumpPoints
  <2> QED BY <2>2 DEF TypeOK, EndRelease
<1>2. runtimes' \in [Gens -> RuntimeType]
  BY DEF TypeOK, EndRelease, RuntimeType
<1> QED BY <1>1, <1>2 DEF TypeOK, EndRelease

-----------------------------------------------------------------------------
(* session/cancel, close and pi.                                           *)

(* session/cancel marks the current foreground and starts an interrupt.    *)
LEMMA CancelType ==
  ASSUME TypeOK, Cancel
  PROVE  TypeOK'
<1>1. PICK f \in Current :
        /\ marks' = [marks EXCEPT !.cancelled = @ \cup {f}]
        /\ turns' = IF session.turn = None THEN turns
                    ELSE [turns EXCEPT ![session.turn].ctxDone = TRUE]
        /\ \/ aborts' = aborts
           \/ /\ session.runtime # 0
              /\ aborts' = aborts \cup {[fg |-> f, gen |-> session.runtime]}
  BY DEF Cancel
<1>2. f \in Foreground
  BY ForegroundNames DEF TypeOK, SessionType, Current
<1>3. marks' \in MarksType
  BY <1>1, <1>2 DEF TypeOK, MarksType
<1>4. turns' \in [Turns -> TurnType]
  <2>1. session.turn \in Turns \cup {None}
    BY DEF TypeOK, SessionType
  <2> QED BY <1>1, <2>1, CtxEndsType DEF TypeOK
<1>5. aborts' \subseteq [fg : Foreground, gen : Gens]
  BY <1>1, <1>2 DEF TypeOK, SessionType, Gens
<1> QED BY <1>3, <1>4, <1>5 DEF TypeOK, Cancel

(* A written interrupt leaves the set of interrupts.                       *)
LEMMA AbortType ==
  ASSUME TypeOK, NEW a \in aborts, Abort(a)
  PROVE  TypeOK'
  BY DEF TypeOK, Abort

(* The ladder begins with what close sampled.                              *)
LEMMA BeginCloseType ==
  ASSUME TypeOK, NEW base \in SessionType, BeginClose(base)
  PROVE  /\ session' \in SessionType
         /\ closer' \in CloserType
         /\ turns' \in [Turns -> TurnType]
         /\ marks' \in MarksType
<1>1. session' \in SessionType
  BY DEF BeginClose, SessionType
<1>2. closer' \in CloserType
  BY DEF TypeOK, BeginClose, SessionType, CloserType, ClosePoints
<1>3. turns' \in [Turns -> TurnType]
  <2>1. \/ turns' = turns
        \/ /\ session.turn \in Turns
           /\ turns' = [turns EXCEPT ![session.turn].ctxDone = TRUE]
    BY DEF TypeOK, BeginClose, SessionType
  <2> QED BY <2>1, CtxEndsType DEF TypeOK
<1>4. marks' \in MarksType
  <2>1. \/ marks' = marks
        \/ /\ session.turn \in Turns
           /\ marks' = [marks EXCEPT !.cancelled = @ \cup {Prompted(session.turn)}]
    BY DEF TypeOK, BeginClose, SessionType
  <2> QED BY <2>1, ForegroundNames DEF TypeOK, MarksType
<1> QED BY <1>1, <1>2, <1>3, <1>4

(* The host begins the ladder.                                             *)
LEMMA CloseType ==
  ASSUME TypeOK, Close
  PROVE  TypeOK'
  BY BeginCloseType DEF TypeOK, Close

(* An establishment whose opening failed begins the ladder.                *)
LEMMA EstablishAbandonType ==
  ASSUME TypeOK, EstablishAbandon
  PROVE  TypeOK'
<1> DEFINE released == [session EXCEPT !.gate = None]
<1>1. op' \in [Ops -> OpType]
  BY GoType DEF EstablishAbandon, OpPoints, Ops
<1>2. released \in SessionType
  BY DEF TypeOK, SessionType
<1>3. /\ session' \in SessionType /\ closer' \in CloserType
      /\ turns' \in [Turns -> TurnType] /\ marks' \in MarksType
  <2>1. \/ BeginClose(released)
        \/ session' = released /\ UNCHANGED <<closer, turns, marks>>
    BY DEF EstablishAbandon
  <2> HIDE DEF released
  <2> QED BY <1>2, <2>1, BeginCloseType DEF TypeOK
<1> QED BY <1>1, <1>3 DEF TypeOK, EstablishAbandon

(* CloseAt moves the shutdown ladder.                                      *)
LEMMA CloseAtType ==
  ASSUME TypeOK, NEW p \in ClosePoints, CloseAt(p)
  PROVE  closer' \in CloserType
  BY DEF TypeOK, CloserType, CloseAt

(* Every step of the ladder keeps the types.                               *)
LEMMA CloseStepType ==
  ASSUME TypeOK, CloseStep
  PROVE  TypeOK'
<1>1. CASE CloseJoin
  <2>1. closer' \in CloserType
    BY <1>1, CloseAtType DEF CloseJoin, AfterTurn, ClosePoints
  <2> QED BY <1>1, <2>1 DEF TypeOK, CloseJoin
<1>2. CASE CloseAbort
  <2>1. closer' \in CloserType
    BY <1>2, CloseAtType DEF CloseAbort, ClosePoints
  <2> QED BY <1>2, <2>1 DEF TypeOK, CloseAbort
<1>3. CASE CloseWait
  <2>1. closer' \in CloserType
    BY <1>3, CloseAtType DEF CloseWait, AfterTurn, ClosePoints
  <2> QED BY <1>3, <2>1 DEF TypeOK, CloseWait
<1>4. CASE CloseStop
  <2>1. closer' \in CloserType /\ runtimes' \in [Gens -> RuntimeType]
    BY <1>4, CloseAtType, ExitedType DEF CloseStop, ClosePoints
  <2> QED BY <1>4, <2>1 DEF TypeOK, CloseStop
<1>5. CASE CloseStopJoin
  <2>1. closer' \in CloserType
    BY <1>5, CloseAtType DEF CloseStopJoin, ClosePoints
  <2>2. session' \in SessionType
    BY <1>5, UnboundType DEF TypeOK, CloserType, CloseStopJoin
  <2> QED BY <1>5, <2>1, <2>2 DEF TypeOK, CloseStopJoin
<1>6. CASE CloseGate
  <2>1. closer' \in CloserType
    BY <1>6, CloseAtType DEF CloseGate, ClosePoints
  <2>2. session' \in SessionType
    BY <1>6 DEF TypeOK, SessionType, CloseGate
  <2> QED BY <1>6, <2>1, <2>2 DEF TypeOK, CloseGate
<1>7. CASE CloseCommit
  <2>1. closer' \in CloserType
    BY <1>7 DEF TypeOK, CloserType, CloseCommit, CloseAt, ClosePoints
  <2>2. log' \in LogType /\ session' \in SessionType
    BY <1>7, CommitMirrorType DEF TypeOK, CloseCommit
  <2> QED BY <1>7, <2>1, <2>2 DEF TypeOK, CloseCommit
<1>8. CASE CloseIdle
  <2>1. closer' \in CloserType
    BY <1>8, CloseAtType DEF CloseIdle, ClosePoints
  <2>2. session' \in SessionType /\ session.cycle \in Runs \cup {None}
    BY <1>8 DEF TypeOK, SessionType, CloseIdle
  <2>3. log' \in LogType
    BY <1>8, <2>2, IdledType, ForegroundNames DEF TypeOK, CloseIdle, Outcomes
  <2> QED BY <1>8, <2>1, <2>2, <2>3 DEF TypeOK, CloseIdle
<1>9. CASE CloseFence
  <2>1. closer' \in CloserType
    <3>1. closer \in CloserType /\ 0 \in 0 .. MaxGen
      BY BoundsAssumption DEF BoundsAssumption, TypeOK
    <3> QED BY <1>9, <3>1 DEF CloserType, CloseFence, ClosePoints
  <2>2. session' \in SessionType
    BY <1>9 DEF TypeOK, SessionType, CloseFence
  <2> QED BY <1>9, <2>1, <2>2, FenceStreamType DEF TypeOK, CloseFence
<1> QED
  BY <1>1, <1>2, <1>3, <1>4, <1>5, <1>6, <1>7, <1>8, <1>9 DEF CloseStep

(* pi appends to its stdout only records of its runs.                      *)
LEMMA PiAppends ==
  ASSUME TypeOK, NEW g \in Gens, NEW rec \in Record, NEW run \in Runs \cup {None},
         pi' = [pi EXCEPT ![g] = [run |-> run, out |-> Append(@.out, rec)]]
  PROVE  pi' \in [Gens -> PiType]
<1>1. pi[g].out \in Seq(Record)
  BY DEF TypeOK, PiType
<1>2. Append(pi[g].out, rec) \in Seq(Record)
  BY <1>1, AppendProperties
<1> QED BY <1>2 DEF TypeOK, PiType

(* pi's own steps emit records of its run and change its process.          *)
LEMMA PiStepType ==
  ASSUME TypeOK, NEW g \in Gens, PiStep(g)
  PROVE  TypeOK'
<1>1. ASSUME NEW r \in AgentRuns, PiStarts(g, r)
      PROVE  TypeOK'
  <2>1. r \in Runs /\ [kind |-> "start", run |-> r] \in Record
    BY DEF Runs, Record
  <2>2. pi' \in [Gens -> PiType]
    BY <1>1, <2>1, PiAppends DEF PiStarts
  <2>3. log' \in LogType
    BY <1>1, <2>1 DEF TypeOK, PiStarts, LogType
  <2> QED BY <1>1, <2>2, <2>3 DEF TypeOK, PiStarts
<1>2. CASE PiSettles(g)
  <2>1. pi[g].run \in Runs
    BY <1>2 DEF TypeOK, PiSettles, PiType
  <2>2. [kind |-> "settled", run |-> pi[g].run] \in Record
    BY <2>1 DEF Record
  <2>3. pi' \in [Gens -> PiType]
    BY <1>2, <2>2, PiAppends DEF PiSettles
  <2>4. log' \in LogType
    BY <1>2, <2>1 DEF TypeOK, PiSettles, LogType
  <2> QED BY <1>2, <2>3, <2>4 DEF TypeOK, PiSettles
<1>3. CASE PiExits(g)
  BY <1>3, ExitedType DEF TypeOK, PiExits
<1>4. CASE PiClosesStdout(g)
  <2>1. runtimes' \in [Gens -> RuntimeType]
    BY <1>4 DEF TypeOK, PiClosesStdout, RuntimeType
  <2> QED BY <1>4, <2>1 DEF TypeOK, PiClosesStdout
<1> QED BY <1>1, <1>2, <1>3, <1>4 DEF PiStep

-----------------------------------------------------------------------------
(* What the pumps hold, and the theorem.                                   *)

(* One pump moves, and holds what its new point needs.                     *)
LEMMA OwnsOne ==
  ASSUME TypeOK, PumpOwns, NEW g \in Gens, NEW q, Owns(q),
         pumps' = [pumps EXCEPT ![g] = q]
  PROVE  PumpOwns'
  BY DEF TypeOK, PumpOwns

(* A pump that only moves keeps what it holds.                             *)
LEMMA OwnsMoved ==
  ASSUME TypeOK, PumpOwns, NEW g \in Gens, NEW p, PumpAt(g, p),
         p # "route", p # "hold",
         p \in CyclePoints => pumps[g].pc \in CyclePoints
  PROVE  PumpOwns'
<1> DEFINE q == [pumps[g] EXCEPT !.pc = p]
<1>1. pumps[g] \in PumpType
  BY DEF TypeOK
<1>2. Owns(q)
  BY <1>1 DEF PumpOwns, Owns, PumpType
<1>3. pumps' = [pumps EXCEPT ![g] = q]
  BY DEF PumpAt
<1> QED BY <1>2, <1>3, OwnsOne

(* A pump back in its loop holds nothing.                                  *)
LEMMA OwnsRested ==
  ASSUME TypeOK, PumpOwns, NEW g \in Gens, NEW todo,
         pumps' = [pumps EXCEPT ![g] = Rested(@, todo)]
  PROVE  PumpOwns'
<1>1. pumps[g] \in PumpType
  BY DEF TypeOK
<1>2. Owns(Rested(pumps[g], todo))
  BY <1>1 DEF Rested, Owns, PumpType, CyclePoints
<1> QED BY <1>2, OwnsOne

(* A routed record leaves the pump at a point that owns its foreground.    *)
LEMMA PumpRouteOwns ==
  ASSUME TypeOK, PumpOwns, NEW g \in Gens, PumpRoute(g)
  PROVE  PumpOwns'
<1>1. pumps[g] \in PumpType /\ pumps[g].pc = "route"
  BY DEF TypeOK, PumpRoute
<1>2. CASE PumpRests(g)
  BY <1>2, OwnsRested DEF PumpRests
<1>3. CASE PumpAt(g, "hold") /\ pumps[g].turn # None
  <2>1. Owns([pumps[g] EXCEPT !.pc = "hold"])
    BY <1>1, <1>3 DEF Owns, PumpType, CyclePoints
  <2> QED BY <1>3, <2>1, OwnsOne DEF PumpAt
<1>4. CASE PumpAt(g, "cycleSettle") /\ pumps[g].cycle # None
  <2>1. Owns([pumps[g] EXCEPT !.pc = "cycleSettle"])
    BY <1>1, <1>4 DEF Owns, PumpType, CyclePoints
  <2> QED BY <1>4, <2>1, OwnsOne DEF PumpAt
<1> QED BY <1>2, <1>3, <1>4
        DEF PumpRoute, RouteToTurn, RouteToCycle, OpenAgentCycle

(* A pump routes only a record it took.                                    *)
LEMMA PumpReadOwns ==
  ASSUME TypeOK, PumpOwns, NEW g \in Gens, PumpRead(g)
  PROVE  PumpOwns'
<1> DEFINE rest == IF pumps[g].todo # <<>> THEN Tail(pumps[g].todo) ELSE <<>>
<1>1. pumps[g] \in PumpType /\ pi[g] \in PiType /\ pumps[g].pc = "read"
  BY DEF TypeOK, PumpRead
<1>2. NextRecord(g) \in Record
  BY <1>1, HeadTailProperties DEF PumpRead, HasRecord, NextRecord, PumpType, PiType
<1>3. CASE session.runtime = g
  <2> DEFINE q == [pumps[g] EXCEPT !.pc = "route", !.todo = rest,
                     !.rec = NextRecord(g), !.turn = DispatchedTurn(g),
                     !.cycle = session.cycle]
  <2>1. pumps' = [pumps EXCEPT ![g] = q]
    BY <1>3 DEF PumpRead
  <2>2. Owns(q)
    <3> HIDE DEF rest
    <3> QED BY <1>1, <1>2 DEF Owns, PumpType, CyclePoints
  <2> QED BY <2>1, <2>2, OwnsOne
<1>4. CASE session.runtime # g
  <2> DEFINE q == [pumps[g] EXCEPT !.todo = rest]
  <2>1. pumps' = [pumps EXCEPT ![g] = q]
    BY <1>4 DEF PumpRead
  <2>2. Owns(q)
    <3> HIDE DEF rest
    <3> QED BY <1>1 DEF Owns, PumpType, CyclePoints
  <2> QED BY <2>1, <2>2, OwnsOne
<1> QED BY <1>3, <1>4

(* A holding pump keeps its turn or its cycle.                             *)
LEMMA PumpHoldsOwns ==
  ASSUME TypeOK, PumpOwns, NEW g \in Gens,
         PumpHold(g) \/ PumpHoldLost(g) \/ PumpHoldDone(g)
  PROVE  PumpOwns'
<1>1. pumps[g] \in PumpType /\ Owns(pumps[g])
  BY DEF TypeOK, PumpOwns
<1>2. CASE PumpHold(g)
  <2> DEFINE held == Append(pumps[g].hold, Head(pi[g].out))
  <2>1. pumps' = [pumps EXCEPT ![g] = [@ EXCEPT !.hold = held]]
    BY <1>2 DEF PumpHold
  <2>2. Owns([pumps[g] EXCEPT !.hold = held])
    <3> HIDE DEF held
    <3> QED BY <1>1 DEF Owns, PumpType
  <2> QED BY <2>1, <2>2, OwnsOne
<1>3. CASE PumpHoldLost(g)
  <2>1. CASE pumps[g].pc = "hold"
    <3>1. pumps' = [pumps EXCEPT ![g] = Rested(@, pumps[g].todo)]
      BY <1>3, <2>1 DEF PumpHoldLost
    <3> QED BY <3>1, OwnsRested
  <2>2. CASE pumps[g].pc = "stats"
    <3>1. pumps' = [pumps EXCEPT ![g] = [@ EXCEPT !.pc = "cycleCommit", !.hold = <<>>]]
      BY <1>3, <2>2 DEF PumpHoldLost
    <3>2. Owns([pumps[g] EXCEPT !.pc = "cycleCommit", !.hold = <<>>])
      BY <1>1, <2>2 DEF Owns, PumpType, CyclePoints
    <3> QED BY <3>1, <3>2, OwnsOne
  <2> QED BY <1>3, <2>1, <2>2 DEF PumpHoldLost, Holding
<1>4. CASE PumpHoldDone(g)
  BY <1>4, OwnsRested DEF PumpHoldDone, PumpDelivers
<1> QED BY <1>2, <1>3, <1>4

(* A pump inside a settlement keeps its cycle.                             *)
LEMMA CycleOwns ==
  ASSUME TypeOK, PumpOwns, NEW g \in Gens,
         \/ CycleSettle(g) \/ CycleJoin(g) \/ CycleStats(g) \/ CycleCommit(g)
         \/ CycleFence(g) \/ CycleDrop(g) \/ CycleIdle(g) \/ CycleClear(g)
  PROVE  PumpOwns'
<1>1. CASE CycleClear(g)
  BY <1>1, OwnsRested DEF CycleClear, PumpDelivers
<1>2. CASE ~CycleClear(g)
  <2>1. \E p \in CyclePoints : PumpAt(g, p) /\ pumps[g].pc \in CyclePoints
    BY <1>2 DEF CycleSettle, CycleJoin, CycleStats, CycleCommit, CycleFence,
                CycleDrop, CycleIdle, CyclePoints
  <2> QED BY <2>1, OwnsMoved DEF CyclePoints
<1> QED BY <1>1, <1>2

(* A pump at the end of its stream owns nothing more.                      *)
LEMMA EndOwns ==
  ASSUME TypeOK, PumpOwns, NEW g \in Gens,
         RuntimeEnded(g) \/ EndJoin(g) \/ EndUnbind(g) \/ EndRelease(g)
  PROVE  PumpOwns'
<1>1. pumps[g] \in PumpType
  BY DEF TypeOK
<1>2. CASE RuntimeEnded(g)
  <2> DEFINE pc == IF session.runtime = g THEN "endJoin" ELSE "endUnbind"
  <2> DEFINE cycle == IF session.runtime = g /\ ~session.closing
                        THEN session.cycle ELSE None
  <2> DEFINE q == [pumps[g] EXCEPT !.pc = pc, !.turn = DispatchedTurn(g),
                                   !.cycle = cycle]
  <2>1. pumps' = [pumps EXCEPT ![g] = q]
    BY <1>2 DEF RuntimeEnded
  <2>2. Owns(q)
    <3>1. pc \in {"endJoin", "endUnbind"}
      OBVIOUS
    <3> HIDE DEF pc, cycle
    <3> QED BY <1>1, <3>1 DEF Owns, PumpType, CyclePoints
  <2> QED BY <2>1, <2>2, OwnsOne
<1>3. CASE EndJoin(g) \/ EndUnbind(g)
  <2>1. PumpAt(g, "endUnbind") \/ PumpAt(g, "endRelease")
    BY <1>3 DEF EndJoin, EndUnbind
  <2> QED BY <2>1, OwnsMoved DEF CyclePoints
<1>4. CASE EndRelease(g)
  <2> DEFINE q == [pumps[g] EXCEPT !.pc = "done", !.turn = None, !.cycle = None]
  <2>1. pumps' = [pumps EXCEPT ![g] = q]
    BY <1>4 DEF EndRelease
  <2>2. Owns(q)
    BY <1>1 DEF Owns, PumpType, CyclePoints
  <2> QED BY <2>1, <2>2, OwnsOne
<1> QED BY <1>2, <1>3, <1>4

(* The pump of a fresh generation owns nothing yet.                        *)
LEMMA BindOwns ==
  ASSUME TypeOK, PumpOwns, NEW o \in Ops, Bind(o)
  PROVE  PumpOwns'
<1> DEFINE g == op[o].at
<1>1. CASE session.closing
  BY <1>1 DEF PumpOwns, Bind
<1>2. CASE ~session.closing /\ g \in Gens
  <2>1. PumpAt(g, "read")
    BY <1>2 DEF Bind, PumpAt
  <2> HIDE DEF g
  <2> QED BY <1>2, <2>1, OwnsMoved DEF CyclePoints
<1>3. CASE ~session.closing /\ g \notin Gens
  <2>1. pumps' = pumps
    BY <1>3 DEF TypeOK, Bind
  <2> QED BY <2>1 DEF PumpOwns
<1> QED BY <1>1, <1>2, <1>3

(* All the pump's steps together.                                          *)
LEMMA PumpStepType ==
  ASSUME TypeOK, PumpOwns, NEW g \in Gens, PumpStep(g)
  PROVE  TypeOK' /\ PumpOwns'
  BY PumpReadType, PumpRouteType, PumpHoldType, PumpHoldLostType,
     PumpHoldDoneType, CycleSettleType, CycleJoinType, CycleStatsType,
     CycleCommitType, CycleFenceType, CycleDropType, CycleIdleType,
     CycleClearType, RuntimeEndedType, EndJoinType, EndUnbindType,
     EndReleaseType, PumpReadOwns, PumpRouteOwns, PumpHoldsOwns, CycleOwns,
     EndOwns
     DEF PumpStep

(* All the prompt's steps together.                                        *)
LEMMA PromptStepType ==
  ASSUME TypeOK, NEW t \in Turns, PromptStep(t)
  PROVE  TypeOK'
  BY PromptInstallType, DispatchType, SendType, ReplyType, LostType,
     OwedFenceType, AcceptType, WaitType, StopGraceType, SettleType, JoinType,
     TurnCommitType, StopCommitType, CommitFenceType, TerminalType, ClaimType
     DEF PromptStep

(* All the steps of ensureRuntime and openStream together.                 *)
LEMMA EnsureStepType ==
  ASSUME TypeOK, NEW o \in Ops, EnsureStep(o)
  PROVE  TypeOK'
  BY EnsureRuntimeType, AwaitEndingType, AwaitRetiredType, LaunchType, BindType,
     ConfigureType, StopUnconfiguredType, OpenCheckType, OpenPublishType
     DEF EnsureStep

(* Only the pumps and the binding of a process move a pump.                *)
LEMMA PumpsSame ==
  ASSUME [Next]_vars,
         ~ \E g \in Gens : PumpStep(g),
         ~ \E o \in Ops : Bind(o)
  PROVE  pumps' = pumps
<1>1. ASSUME NEW t \in Turns, PromptStep(t)
      PROVE  pumps' = pumps
  BY <1>1 DEF PromptStep, PromptInstall, Dispatch, Send, Reply, Lost,
       OwedFence, Accept, Wait, StopGrace, Settle, Join, TurnCommit,
       StopCommit, CommitFence, Terminal, Claim
<1>2. ASSUME NEW o \in Ops, Admit(o) \/ Prepare(o) \/ Return(o)
      PROVE  pumps' = pumps
  BY <1>2 DEF Admit, Prepare, Return
<1>3. ASSUME NEW o \in Ops, EnsureStep(o)
      PROVE  pumps' = pumps
  BY <1>3 DEF EnsureStep, EnsureRuntime, AwaitEnding, AwaitRetired, Launch,
       Configure, StopUnconfigured, OpenCheck, OpenPublish
<1>4. ASSUME NEW c \in Controls, ControlUse(c)
      PROVE  pumps' = pumps
  BY <1>4 DEF ControlUse
<1>5. CASE EstablishStep
  BY <1>5 DEF EstablishStep, EstablishCommit, EstablishRelease,
       EstablishHook, EstablishAbandon
<1>6. CASE CloseStep
  BY <1>6 DEF CloseStep, CloseJoin, CloseAbort, CloseWait, CloseStop,
       CloseStopJoin, CloseGate, CloseCommit, CloseIdle, CloseFence
<1>7. CASE Cancel \/ Close \/ \E a \in aborts : Abort(a)
  BY <1>7 DEF Cancel, Close, Abort
<1>8. ASSUME NEW g \in Gens, PiStep(g)
      PROVE  pumps' = pumps
  BY <1>8 DEF PiStep, PiStarts, PiSettles, PiExits, PiClosesStdout
<1>9. CASE UNCHANGED vars
  BY <1>9 DEF vars
<1> QED BY <1>1, <1>2, <1>3, <1>4, <1>5, <1>6, <1>7, <1>8, <1>9 DEF Next

TypeInv == TypeOK /\ PumpOwns

(* The established session satisfies the type invariant.                   *)
LEMMA TypeInit == Init => TypeInv
<1> SUFFICES ASSUME Init PROVE TypeInv
  OBVIOUS
<1>1. 0 \in 0 .. MaxGen /\ 1 \in 0 .. MaxGen
  BY BoundsAssumption DEF BoundsAssumption
<1>2. session \in SessionType
  BY <1>1 DEF Init, SessionType, Ops
<1>3. op \in [Ops -> OpType]
  BY <1>1 DEF Init, OpType, OpPoints
<1>4. turns \in [Turns -> TurnType] /\ marks \in MarksType
  BY <1>1 DEF Init, TurnType, MarksType
<1>5. runtimes \in [Gens -> RuntimeType] /\ pi \in [Gens -> PiType]
  BY EmptySeq DEF Init, RuntimeType, PiType
<1>6. pumps \in [Gens -> PumpType] /\ PumpOwns
  BY EmptySeq DEF Init, PumpType, PumpPoints, PumpOwns, Owns, CyclePoints
<1>7. closer \in CloserType /\ log \in LogType
  BY <1>1, EmptySeq DEF Init, CloserType, ClosePoints, LogType
<1> QED BY <1>1, <1>2, <1>3, <1>4, <1>5, <1>6, <1>7 DEF TypeInv, TypeOK, Init

(* Every step keeps the type invariant.                                    *)
LEMMA TypeStep == TypeInv /\ [Next]_vars => TypeInv'
<1> SUFFICES ASSUME TypeInv, [Next]_vars PROVE TypeInv'
  OBVIOUS
<1> USE DEF TypeInv
<1>1. ASSUME NEW o \in Ops, Admit(o) \/ Prepare(o) \/ EnsureStep(o) \/ Return(o)
      PROVE  TypeOK'
  BY <1>1, AdmitType, PrepareType, EnsureStepType, ReturnType
<1>2. ASSUME NEW t \in Turns, PromptStep(t)
      PROVE  TypeOK'
  BY <1>2, PromptStepType
<1>3. ASSUME NEW c \in Controls, ControlUse(c)
      PROVE  TypeOK'
  BY <1>3, ControlUseType
<1>4. ASSUME EstablishStep
      PROVE  TypeOK'
  BY <1>4, EstablishType, EstablishAbandonType DEF EstablishStep
<1>5. ASSUME NEW g \in Gens, PumpStep(g)
      PROVE  TypeInv'
  BY <1>5, PumpStepType
<1>6. ASSUME NEW g \in Gens, PiStep(g)
      PROVE  TypeOK'
  BY <1>6, PiStepType
<1>7. ASSUME Cancel \/ Close \/ CloseStep \/ \E a \in aborts : Abort(a)
      PROVE  TypeOK'
  BY <1>7, CancelType, CloseType, CloseStepType, AbortType
<1>8. ASSUME NEW o \in Ops, Bind(o)
      PROVE  PumpOwns'
  BY <1>8, BindOwns
<1>9. CASE UNCHANGED vars
  BY <1>9 DEF vars, TypeOK, PumpOwns
<1>10. ASSUME Next
       PROVE  TypeOK'
  BY <1>10, <1>1, <1>2, <1>3, <1>4, <1>5, <1>6, <1>7 DEF Next
<1>11. ASSUME Next
       PROVE  PumpOwns'
  <2>1. pumps' = pumps => PumpOwns'
    BY DEF PumpOwns
  <2> QED BY <1>11, <1>5, <1>8, <2>1, PumpsSame
<1> QED BY <1>9, <1>10, <1>11

(* Every variable keeps its type, whatever the interleaving.               *)
THEOREM TypeCorrect == Spec => []TypeOK
<1>1. TypeInv => TypeOK
  BY DEF TypeInv
<1> QED BY <1>1, TypeInit, TypeStep, PTL DEF Spec

(* The type invariant with what the pumps own, of which TypeOK is a part.  *)
THEOREM TypeInvariant == Spec => []TypeInv
  BY TypeInit, TypeStep, PTL DEF Spec

-----------------------------------------------------------------------------
(* OneProcess.  A process is alive only while the session is bound to it,  *)
(* while it is the retired one, or in the hands of the launch that has not *)
(* bound it yet.  The gate makes that launch unique, and a launch starts   *)
(* only after the binding and the retired generation are both gone.        *)

(* Where an operation does not hold the gate.                              *)
GateFree == {"idle", "hook", "done"}

Relaunching == {"retired", "launch", "bind"}

GateHeld ==
  \A o \in Ops : op[o].pc \notin GateFree => session.gate = o

NothingBound ==
  \A o \in Ops : op[o].pc \in Relaunching => session.runtime = 0

NothingRetired ==
  \A o \in Ops : op[o].pc \in {"launch", "bind"} => session.retired = 0

RetiredDead == session.runtime # 0 => ~Alive(session.retired)

Launched(g) == \E o \in Ops : op[o].pc = "bind" /\ op[o].at = g

AliveIsHeld ==
  \A g \in Gens :
    Alive(g) => g = session.runtime \/ g = session.retired \/ Launched(g)

ProcInv ==
  GateHeld /\ NothingBound /\ NothingRetired /\ RetiredDead /\ AliveIsHeld

(* The inductive invariant says what OneProcess says.                      *)
LEMMA ProcImplies == TypeOK /\ ProcInv => OneProcess
<1> SUFFICES ASSUME TypeOK, ProcInv,
                    NEW g \in Gens, NEW h \in Gens, Alive(g), Alive(h)
             PROVE  g = h
  BY DEF OneProcess
<1>1. ASSUME NEW k \in Gens, NEW o \in Ops, Alive(k),
             op[o].pc = "bind", op[o].at = k
      PROVE  /\ session.runtime = 0 /\ session.retired = 0
             /\ session.gate = o
  BY <1>1 DEF ProcInv, NothingBound, NothingRetired, GateHeld, GateFree, Relaunching
<1>2. ASSUME NEW k \in Gens, Alive(k), k = session.retired
      PROVE  session.runtime = 0
  BY <1>2 DEF ProcInv, RetiredDead
<1>3. \A k \in Gens : k # 0
  BY DEF Gens
<1>4. CASE Launched(g)
  <2>1. PICK o \in Ops : op[o].pc = "bind" /\ op[o].at = g
    BY <1>4 DEF Launched
  <2>2. Launched(h)
    BY <1>1, <1>3, <2>1 DEF ProcInv, AliveIsHeld
  <2> QED BY <1>1, <2>1, <2>2 DEF Launched
<1>5. CASE Launched(h)
  <2>1. PICK o \in Ops : op[o].pc = "bind" /\ op[o].at = h
    BY <1>5 DEF Launched
  <2>2. Launched(g)
    BY <1>1, <1>3, <2>1 DEF ProcInv, AliveIsHeld
  <2> QED BY <1>1, <2>1, <2>2 DEF Launched
<1> QED BY <1>2, <1>3, <1>4, <1>5 DEF ProcInv, AliveIsHeld

(* Most actions start no process, take or leave no gate, and at most give  *)
(* the binding up.                                                         *)
StaysInGate ==
  \A o \in Ops :
    \/ op'[o] = op[o]
    \/ op[o].pc \notin GateFree \cup {"bind"} /\ op'[o].pc \notin Relaunching

NothingBorn ==
  \A g \in Gens : runtimes'[g].proc = "alive" => runtimes[g].proc = "alive"

BindingKept ==
  \/ session'.runtime = session.runtime /\ session'.retired = session.retired
  \/ session.runtime # 0 /\ session'.runtime = 0 /\ session'.retired = session.runtime

Quiet ==
  StaysInGate /\ NothingBorn /\ BindingKept /\ session'.gate = session.gate

(* A step that is quiet about processes keeps the process invariant.       *)
LEMMA QuietKeepsProc ==
  ASSUME TypeOK, ProcInv, Quiet
  PROVE  ProcInv'
<1>1. GateHeld'
  BY DEF ProcInv, GateHeld, Quiet, StaysInGate, GateFree
<1>2. NothingBound'
  BY DEF ProcInv, NothingBound, Quiet, StaysInGate, BindingKept
<1>3. NothingRetired'
  <2> SUFFICES ASSUME NEW o \in Ops, op'[o].pc \in {"launch", "bind"}
               PROVE  session'.retired = 0
    BY DEF NothingRetired
  <2>1. op[o].pc \in {"launch", "bind"}
    BY DEF Quiet, StaysInGate, Relaunching
  <2> QED BY <2>1 DEF ProcInv, NothingBound, NothingRetired, Relaunching, Quiet, BindingKept
<1>4. RetiredDead'
  <2> SUFFICES ASSUME session'.runtime # 0, Alive(session.retired)'
               PROVE  FALSE
    BY DEF RetiredDead
  <2>1. session'.runtime = session.runtime /\ session'.retired = session.retired
    BY DEF Quiet, BindingKept
  <2>2. session'.retired \in Gens
    BY <2>1 DEF Alive, TypeOK, SessionType, Gens
  <2> QED BY <2>1, <2>2 DEF ProcInv, RetiredDead, Quiet, NothingBorn, Alive
<1>5. AliveIsHeld'
  <2> SUFFICES ASSUME NEW g \in Gens, Alive(g)'
               PROVE  g = session'.runtime \/ g = session'.retired \/ Launched(g)'
    BY DEF AliveIsHeld
  <2>1. Alive(g) /\ g # 0
    BY DEF Quiet, NothingBorn, Alive
  <2>2. CASE g = session.runtime
    BY <2>1, <2>2 DEF Quiet, BindingKept
  <2>3. CASE g = session.retired
    BY <2>1, <2>3 DEF ProcInv, RetiredDead, Quiet, BindingKept
  <2>4. CASE Launched(g)
    <3>1. PICK o \in Ops : op[o].pc = "bind" /\ op[o].at = g
      BY <2>4 DEF Launched
    <3>2. op'[o] = op[o]
      BY <3>1 DEF Quiet, StaysInGate
    <3> QED BY <3>1, <3>2 DEF Launched
  <2> QED BY <2>1, <2>2, <2>3, <2>4 DEF ProcInv, AliveIsHeld
<1> QED BY <1>1, <1>2, <1>3, <1>4, <1>5 DEF ProcInv

(* The shared steps are quiet.                                             *)
LEMMA GoStays ==
  ASSUME TypeOK, NEW o \in Ops, NEW p \in OpPoints \ Relaunching, Go(o, p),
         op[o].pc \notin GateFree \cup {"bind"}
  PROVE  StaysInGate
  BY DEF TypeOK, OpType, Go, StaysInGate

(* No operation moved: each stays in or out of the gate.                   *)
LEMMA SameStays == op' = op => StaysInGate
  BY DEF StaysInGate

(* A process that exits is not a process that is born.                     *)
LEMMA ExitedBorn ==
  ASSUME TypeOK, NEW g, Exited(g)
  PROVE  NothingBorn
  BY DEF TypeOK, RuntimeType, Exited, NothingBorn

(* Untouched runtimes: no process is born.                                 *)
LEMMA SameBorn == runtimes' = runtimes => NothingBorn
  BY DEF NothingBorn

(* A binding given up becomes the retired one, or stays another's.         *)
LEMMA UnboundKept ==
  ASSUME TypeOK, NEW g, session' = Unbound(g)
  PROVE  BindingKept /\ session'.gate = session.gate
<1>1. CASE g # 0 /\ session.runtime = g
  <2>1. session' = [session EXCEPT !.runtime = 0, !.retired = g]
    BY <1>1 DEF Unbound
  <2> QED BY <1>1, <2>1 DEF TypeOK, SessionType, BindingKept
<1>2. CASE ~(g # 0 /\ session.runtime = g)
  BY <1>2 DEF Unbound, BindingKept
<1> QED BY <1>1, <1>2

(* An untouched session keeps its gate and binding.                        *)
LEMMA SameKept ==
  session' = session => BindingKept /\ session'.gate = session.gate
  BY DEF BindingKept

(* A commit keeps gate and binding.                                        *)
LEMMA CommitKept ==
  ASSUME TypeOK, CommitMirror
  PROVE  BindingKept /\ session'.gate = session.gate
  BY DEF TypeOK, SessionType, CommitMirror, BindingKept

-----------------------------------------------------------------------------
(* The quiet actions.                                                      *)

(* A prompt's own steps are quiet about processes.                         *)
LEMMA PromptQuiet ==
  ASSUME TypeOK, NEW t \in Turns, PromptStep(t)
  PROVE  Quiet
<1>1. t \in Ops
  BY DEF Ops
<1>2. StaysInGate
  <2> USE GoStays, <1>1 DEF GateFree, Relaunching, OpPoints
  <2>1. CASE PromptInstall(t)
    BY <2>1 DEF PromptInstall
  <2>2. CASE Dispatch(t)
    BY <2>2 DEF Dispatch
  <2>3. CASE Send(t)
    BY <2>3 DEF Send
  <2>4. CASE Reply(t)
    BY <2>4 DEF Reply
  <2>5. CASE Lost(t)
    BY <2>5 DEF Lost, ClaimFence
  <2>6. CASE OwedFence(t)
    BY <2>6 DEF OwedFence
  <2>7. CASE Accept(t)
    BY <2>7 DEF Accept
  <2>8. CASE Wait(t)
    BY <2>8 DEF Wait
  <2>9. CASE StopGrace(t)
    BY <2>9 DEF StopGrace
  <2>10. CASE Settle(t)
    BY <2>10 DEF Settle
  <2>11. CASE Join(t)
    BY <2>11 DEF Join
  <2>12. CASE TurnCommit(t)
    BY <2>12 DEF TurnCommit
  <2>13. CASE StopCommit(t)
    BY <2>13 DEF StopCommit
  <2>14. CASE CommitFence(t)
    BY <2>14 DEF CommitFence
  <2>15. CASE Terminal(t)
    BY <2>15 DEF Terminal
  <2>16. CASE Claim(t)
    BY <2>16 DEF Claim, ClaimFence
  <2> QED BY <2>1, <2>2, <2>3, <2>4, <2>5, <2>6, <2>7, <2>8, <2>9, <2>10,
             <2>11, <2>12, <2>13, <2>14, <2>15, <2>16 DEF PromptStep
<1>3. NothingBorn
  BY ExitedBorn, SameBorn
     DEF PromptStep, PromptInstall, Dispatch, Send, Reply, Lost, OwedFence,
         Accept, Wait, StopGrace, Settle, Join, TurnCommit, StopCommit,
         CommitFence, Terminal, Claim
<1>4. BindingKept /\ session'.gate = session.gate
  <2>1. CASE PromptInstall(t)
    BY <2>1 DEF PromptInstall, TypeOK, SessionType, BindingKept
  <2>2. CASE StopGrace(t) \/ StopCommit(t)
    BY <2>2, UnboundKept DEF StopGrace, StopCommit
  <2>3. CASE TurnCommit(t)
    BY <2>3, CommitKept, SameKept DEF TurnCommit
  <2>4. CASE session' = session
    BY <2>4, SameKept
  <2> QED BY <2>1, <2>2, <2>3, <2>4
          DEF PromptStep, Dispatch, Send, Reply, Lost, OwedFence, Accept, Wait,
              Settle, Join, CommitFence, Terminal, Claim
<1> QED BY <1>2, <1>3, <1>4 DEF Quiet

(* So are the waits and publications of ensureRuntime.                     *)
LEMMA EnsureQuiet ==
  ASSUME TypeOK, NEW o \in Ops,
         \/ Prepare(o) \/ AwaitEnding(o) \/ Configure(o) \/ StopUnconfigured(o)
         \/ OpenCheck(o) \/ OpenPublish(o)
  PROVE  Quiet
<1>1. StaysInGate
  BY GoStays
     DEF Prepare, AwaitEnding, Configure, StopUnconfigured, OpenCheck,
         OpenPublish, OpenRefused, Ensured, GateFree, Relaunching, OpPoints
<1>2. NothingBorn
  BY ExitedBorn, SameBorn
     DEF Prepare, AwaitEnding, Configure, StopUnconfigured, OpenCheck, OpenPublish
<1>3. BindingKept /\ session'.gate = session.gate
  <2>1. CASE StopUnconfigured(o)
    BY <2>1, UnboundKept DEF StopUnconfigured
  <2>2. CASE OpenCheck(o) \/ OpenPublish(o)
    BY <2>2 DEF OpenCheck, OpenPublish, TypeOK, SessionType, BindingKept
  <2>3. CASE Prepare(o) \/ AwaitEnding(o) \/ Configure(o)
    BY <2>3, SameKept DEF Prepare, AwaitEnding, Configure
  <2> QED BY <2>1, <2>2, <2>3
<1> QED BY <1>1, <1>2, <1>3 DEF Quiet

(* So is the use of the runtime by a control.                              *)
LEMMA ControlQuiet ==
  ASSUME TypeOK, NEW c \in Controls, ControlUse(c)
  PROVE  Quiet
<1>1. StaysInGate
  BY GoStays DEF ControlUse, GateFree, Relaunching, OpPoints, Ops
<1>2. BindingKept /\ session'.gate = session.gate
  BY CommitKept, SameKept DEF ControlUse
<1> QED BY <1>1, <1>2, SameBorn DEF Quiet, ControlUse

(* So is the first commit of an establishment.                             *)
LEMMA EstablishCommitQuiet ==
  ASSUME TypeOK, EstablishCommit
  PROVE  Quiet
<1>1. Opening \in Ops
  BY DEF Ops
<1>2. StaysInGate
  <2>1. CASE Go(Opening, "abandon")
    BY <1>1, <2>1, GoStays DEF EstablishCommit, GateFree, Relaunching, OpPoints
  <2>2. CASE op' = [op EXCEPT ![Opening] = [pc |-> "release",
                                            at |-> session.runtime]]
    BY <1>1, <2>2
       DEF TypeOK, EstablishCommit, GateFree, Relaunching, StaysInGate
  <2> QED BY <2>1, <2>2 DEF EstablishCommit
<1>3. BindingKept /\ session'.gate = session.gate
  BY CommitKept, SameKept DEF EstablishCommit
<1> QED BY <1>2, <1>3, SameBorn DEF Quiet, EstablishCommit

(* A pump gives bindings up and ends processes, and starts none.           *)
LEMMA PumpQuiet ==
  ASSUME TypeOK, NEW g \in Gens, PumpStep(g)
  PROVE  Quiet
<1>1. StaysInGate
  BY SameStays
     DEF PumpStep, PumpRead, PumpRoute, PumpHold, PumpHoldLost, PumpHoldDone,
         CycleSettle, CycleJoin, CycleStats, CycleCommit, CycleFence, CycleDrop,
         CycleIdle, CycleClear, RuntimeEnded, EndJoin, EndUnbind, EndRelease
<1>2. NothingBorn
  <2>1. CASE PumpHoldLost(g)
    BY <2>1 DEF PumpHoldLost, TypeOK, RuntimeType, NothingBorn
  <2>2. CASE CycleDrop(g)
    BY <2>2 DEF CycleDrop, TypeOK, RuntimeType, NothingBorn
  <2>3. CASE RuntimeEnded(g)
    BY <2>3 DEF RuntimeEnded, TypeOK, RuntimeType, NothingBorn
  <2>4. CASE EndRelease(g)
    BY <2>4 DEF EndRelease, TypeOK, RuntimeType, NothingBorn
  <2>5. CASE runtimes' = runtimes
    BY <2>5, SameBorn
  <2> QED BY <2>1, <2>2, <2>3, <2>4, <2>5
      DEF PumpStep, PumpRead, PumpRoute, PumpHold, PumpHoldDone, CycleSettle,
          CycleJoin, CycleStats, CycleCommit, CycleFence, CycleIdle, CycleClear,
          EndJoin, EndUnbind
<1>3. BindingKept /\ session'.gate = session.gate
  <2>1. CASE PumpRoute(g)
    BY <2>1 DEF PumpRoute, RouteToTurn, RouteToCycle, OpenAgentCycle, TypeOK,
                SessionType, BindingKept
  <2>2. CASE CycleCommit(g)
    BY <2>2, CommitKept, SameKept DEF CycleCommit
  <2>3. CASE CycleDrop(g) \/ EndUnbind(g)
    BY <2>3, UnboundKept, SameKept DEF CycleDrop, EndUnbind
  <2>4. CASE CycleClear(g) \/ RuntimeEnded(g)
    BY <2>4 DEF CycleClear, RuntimeEnded, TypeOK, SessionType, BindingKept
  <2>5. CASE session' = session
    BY <2>5, SameKept
  <2> QED BY <2>1, <2>2, <2>3, <2>4, <2>5
      DEF PumpStep, PumpRead, PumpHold, PumpHoldLost, PumpHoldDone, CycleSettle,
          CycleJoin, CycleStats, CycleFence, CycleIdle, EndJoin, EndRelease
<1> QED BY <1>1, <1>2, <1>3 DEF Quiet

(* pi starts no pi.                                                        *)
LEMMA PiQuiet ==
  ASSUME TypeOK, NEW g \in Gens, PiStep(g)
  PROVE  Quiet
<1>1. op' = op /\ session' = session
  BY DEF PiStep, PiStarts, PiSettles, PiExits, PiClosesStdout
<1>2. NothingBorn
  <2>1. CASE PiExits(g)
    BY <2>1, ExitedBorn DEF PiExits
  <2>2. CASE PiClosesStdout(g)
    BY <2>2 DEF PiClosesStdout, TypeOK, RuntimeType, NothingBorn
  <2>3. CASE runtimes' = runtimes
    BY <2>3, SameBorn
  <2> QED BY <2>1, <2>2, <2>3 DEF PiStep, PiStarts, PiSettles
<1> QED BY <1>1, <1>2, SameStays, SameKept DEF Quiet

(* The ladder starts no process.                                           *)
LEMMA CloseQuiet ==
  ASSUME TypeOK, CloseStep, ~CloseGate, ~CloseFence
  PROVE  Quiet
<1>1. StaysInGate
  BY SameStays
     DEF CloseStep, CloseJoin, CloseAbort, CloseWait, CloseStop, CloseStopJoin,
         CloseCommit, CloseIdle
<1>2. NothingBorn
  BY ExitedBorn, SameBorn
     DEF CloseStep, CloseJoin, CloseAbort, CloseWait, CloseStop, CloseStopJoin,
         CloseCommit, CloseIdle
<1>3. BindingKept /\ session'.gate = session.gate
  <2>1. CASE CloseStopJoin
    BY <2>1, UnboundKept DEF CloseStopJoin
  <2>2. CASE CloseCommit
    BY <2>2, CommitKept, SameKept DEF CloseCommit
  <2>3. CASE CloseIdle
    <3>1. session' = [session EXCEPT !.cycle = None]
      BY <2>3 DEF CloseIdle
    <3> QED BY <3>1 DEF TypeOK, SessionType, BindingKept
  <2>4. CASE session' = session
    BY <2>4, SameKept
  <2> QED BY <2>1, <2>2, <2>3, <2>4
      DEF CloseStep, CloseJoin, CloseAbort, CloseWait, CloseStop
<1> QED BY <1>1, <1>2, <1>3 DEF Quiet

(* Neither do session/cancel, an interrupt or the start of a close.        *)
LEMMA ClientQuiet ==
  ASSUME TypeOK, Cancel \/ Close \/ \E a \in aborts : Abort(a)
  PROVE  Quiet
<1>1. op' = op /\ runtimes' = runtimes
  BY DEF Cancel, Close, Abort
<1>2. BindingKept /\ session'.gate = session.gate
  <2>1. CASE Close
    BY <2>1 DEF Close, BeginClose, TypeOK, SessionType, BindingKept
  <2>2. CASE session' = session
    BY <2>2, SameKept
  <2> QED BY <2>1, <2>2 DEF Cancel, Abort
<1> QED BY <1>1, <1>2, SameStays, SameBorn DEF Quiet

-----------------------------------------------------------------------------
(* The actions that take or leave the gate, and the relaunch.              *)

(* No operation is named like the closer or like nobody.                   *)
LEMMA OpNames == \A o \in Ops : o # None /\ o # Closer
  BY NamesAssumption DEF NamesAssumption, Ops

(* One operation moves and no process or binding changes.                  *)
LEMMA GateMove ==
  ASSUME TypeOK, ProcInv, NEW o \in Ops, NEW p \in OpPoints \ Relaunching,
         NEW at \in 0 .. MaxGen,
         op' = [op EXCEPT ![o] = [pc |-> p, at |-> at]], op[o].pc # "bind",
         runtimes' = runtimes,
         session'.runtime = session.runtime, session'.retired = session.retired,
         \/ /\ p \in GateFree /\ op[o].pc \notin GateFree
         \/ /\ session.gate = None /\ session'.gate = o
  PROVE  ProcInv'
<1>1. \A q \in Ops : q # o => op'[q] = op[q]
  BY DEF TypeOK
<1>2. op'[o].pc = p
  BY DEF TypeOK
<1>3. GateHeld'
  <2> SUFFICES ASSUME NEW q \in Ops, op'[q].pc \notin GateFree
               PROVE  session'.gate = q
    BY DEF GateHeld
  <2>1. CASE q = o
    BY <1>2, <2>1
  <2>2. CASE q # o
    BY <1>1, <2>2, OpNames DEF ProcInv, GateHeld
  <2> QED BY <2>1, <2>2
<1>4. NothingBound' /\ NothingRetired'
  BY <1>1, <1>2 DEF ProcInv, NothingBound, NothingRetired, Relaunching
<1>5. RetiredDead'
  BY DEF ProcInv, RetiredDead, Alive
<1>6. AliveIsHeld'
  <2> SUFFICES ASSUME NEW g \in Gens, Alive(g)'
               PROVE  g = session'.runtime \/ g = session'.retired \/ Launched(g)'
    BY DEF AliveIsHeld
  <2>1. Alive(g)
    BY DEF Alive
  <2>2. CASE Launched(g)
    <3>1. PICK q \in Ops : op[q].pc = "bind" /\ op[q].at = g
      BY <2>2 DEF Launched
    <3> QED BY <3>1, <1>1 DEF Launched
  <2> QED BY <2>1, <2>2 DEF ProcInv, AliveIsHeld
<1> QED BY <1>3, <1>4, <1>5, <1>6 DEF ProcInv

(* Go changes the point of its own operation only.                         *)
LEMMA GoMoves ==
  ASSUME TypeOK, NEW o \in Ops, NEW p, Go(o, p)
  PROVE  op' = [op EXCEPT ![o] = [pc |-> p, at |-> op[o].at]]
<1>1. op[o] \in OpType
  BY DEF TypeOK
<1>2. [op[o] EXCEPT !.pc = p] = [pc |-> p, at |-> op[o].at]
  BY <1>1 DEF OpType
<1>3. op' = [op EXCEPT ![o] = [op[o] EXCEPT !.pc = p]]
  BY DEF Go
<1> QED BY <1>2, <1>3

(* Admission gives a free gate to one operation that holds nothing.        *)
LEMMA AdmitProc ==
  ASSUME TypeOK, ProcInv, NEW o \in Ops, Admit(o)
  PROVE  ProcInv'
<1> DEFINE p == IF o \in Turns THEN "install" ELSE "map"
<1>1. op[o] \in OpType /\ op[o].pc = "idle"
  BY DEF TypeOK, Admit
<1>2. op' = [op EXCEPT ![o] = [pc |-> p, at |-> op[o].at]]
  BY GoMoves DEF Admit
<1>3. p \in OpPoints \ Relaunching /\ op[o].at \in 0 .. MaxGen
  BY <1>1 DEF OpPoints, Relaunching, OpType
<1>4. /\ session.gate = None /\ session'.gate = o
      /\ session'.runtime = session.runtime /\ session'.retired = session.retired
  BY DEF TypeOK, SessionType, Admit
<1>5. runtimes' = runtimes
  BY DEF Admit
<1> HIDE DEF p
<1> QED BY <1>1, <1>2, <1>3, <1>4, <1>5, GateMove

(* A returning operation leaves no process unbound behind.                 *)
LEMMA ReturnProc ==
  ASSUME TypeOK, ProcInv, NEW o \in Ops, Return(o)
  PROVE  ProcInv'
<1>1. op' = [op EXCEPT ![o] = [pc |-> "done", at |-> 0]] /\ op[o].pc = "return"
  BY DEF Return
<1>2. "done" \in OpPoints \ Relaunching /\ 0 \in 0 .. MaxGen
  BY BoundsAssumption DEF BoundsAssumption, OpPoints, Relaunching
<1>3. session'.runtime = session.runtime /\ session'.retired = session.retired
  BY DEF TypeOK, SessionType, Return
<1>4. runtimes' = runtimes
  BY DEF Return
<1> QED BY <1>1, <1>2, <1>3, <1>4, GateMove DEF GateFree

(* ensureRuntime: awaitRetired, launch and bind keep one process.          *)
LEMMA EstablishProc ==
  ASSUME TypeOK, ProcInv, EstablishRelease \/ EstablishHook \/ EstablishAbandon
  PROVE  ProcInv'
<1>1. Opening \in Ops /\ op[Opening] \in OpType
  BY DEF TypeOK, Ops
<1>2. op[Opening].at \in 0 .. MaxGen
  BY <1>1 DEF OpType
<1>3. runtimes' = runtimes
  BY DEF EstablishRelease, EstablishHook, EstablishAbandon
<1>4. session'.runtime = session.runtime /\ session'.retired = session.retired
  <2>1. CASE EstablishRelease \/ EstablishHook
    BY <2>1 DEF TypeOK, SessionType, EstablishRelease, EstablishHook
  <2>2. CASE EstablishAbandon
    <3> DEFINE released == [session EXCEPT !.gate = None]
    <3>1. session' = released \/ session' = [released EXCEPT !.closing = TRUE]
      BY <2>2 DEF EstablishAbandon, BeginClose
    <3> QED BY <3>1 DEF TypeOK, SessionType
  <2> QED BY <2>1, <2>2
<1>5. ASSUME NEW p \in OpPoints, Go(Opening, p)
      PROVE  op' = [op EXCEPT ![Opening] = [pc |-> p, at |-> op[Opening].at]]
  BY <1>1, <1>5, GoMoves
<1>6. CASE EstablishRelease
  <2>1. Go(Opening, "hook") /\ op[Opening].pc = "release"
    BY <1>6 DEF EstablishRelease
  <2>2. "hook" \in OpPoints \ Relaunching
    BY DEF OpPoints, Relaunching
  <2> QED BY <1>1, <1>2, <1>3, <1>4, <1>5, <2>1, <2>2, GateMove DEF GateFree
<1>7. CASE EstablishHook
  <2>1. Go(Opening, "openCheck") /\ op[Opening].pc = "hook"
    BY <1>7 DEF EstablishHook
  <2>2. "openCheck" \in OpPoints \ Relaunching
    BY DEF OpPoints, Relaunching
  <2>3. session.gate = None /\ session'.gate = Opening
    BY <1>7 DEF TypeOK, SessionType, EstablishHook
  <2> QED BY <1>1, <1>2, <1>3, <1>4, <1>5, <2>1, <2>2, <2>3, GateMove
<1>8. CASE EstablishAbandon
  <2>1. Go(Opening, "done") /\ op[Opening].pc = "abandon"
    BY <1>8 DEF EstablishAbandon
  <2>2. "done" \in OpPoints \ Relaunching
    BY DEF OpPoints, Relaunching
  <2> QED BY <1>1, <1>2, <1>3, <1>4, <1>5, <2>1, <2>2, GateMove DEF GateFree
<1> QED BY <1>6, <1>7, <1>8

(* The closer takes the gate nobody has, and leaves the one it has.        *)
LEMMA CloserProc ==
  ASSUME TypeOK, ProcInv, CloseGate \/ CloseFence
  PROVE  ProcInv'
<1>1. op' = op /\ runtimes' = runtimes
  BY DEF CloseGate, CloseFence
<1>2. session'.runtime = session.runtime /\ session'.retired = session.retired
  BY DEF TypeOK, SessionType, CloseGate, CloseFence
<1>3. session'.gate = session.gate \/ session.gate \in {None, Closer}
  BY DEF TypeOK, SessionType, CloseGate, CloseFence
<1>4. GateHeld'
  BY <1>1, <1>3, OpNames DEF ProcInv, GateHeld
<1>5. NothingBound' /\ NothingRetired' /\ RetiredDead' /\ AliveIsHeld'
  BY <1>1, <1>2
     DEF ProcInv, NothingBound, NothingRetired, RetiredDead, AliveIsHeld,
         Alive, Launched
<1> QED BY <1>4, <1>5 DEF ProcInv

(* ensureRuntime goes on to relaunch only when nothing is bound.           *)
LEMMA EnsureRuntimeProc ==
  ASSUME TypeOK, ProcInv, NEW o \in Ops, EnsureRuntime(o)
  PROVE  ProcInv'
<1>1. op[o].pc = "ensure" /\ runtimes' = runtimes /\ session' = session
  BY DEF EnsureRuntime
<1>2. \A q \in Ops : q # o => op'[q] = op[q]
  BY DEF TypeOK, EnsureRuntime
<1>3. op'[o].pc \notin {"launch", "bind"}
      /\ (op'[o].pc = "retired" => session.runtime = 0)
  BY DEF TypeOK, EnsureRuntime, Ensured
<1>4. GateHeld'
  BY <1>1, <1>2 DEF ProcInv, GateHeld, GateFree
<1>5. NothingBound' /\ NothingRetired'
  BY <1>1, <1>2, <1>3 DEF ProcInv, NothingBound, NothingRetired, Relaunching
<1>6. AliveIsHeld'
  <2>1. ASSUME NEW g \in Gens, Launched(g)
        PROVE  Launched(g)'
    BY <1>1, <1>2, <2>1 DEF Launched
  <2> QED BY <1>1, <2>1 DEF ProcInv, AliveIsHeld, Alive
<1>7. RetiredDead'
  BY <1>1 DEF ProcInv, RetiredDead, Alive
<1> QED BY <1>4, <1>5, <1>6, <1>7 DEF ProcInv

(* awaitRetired forgets a generation only once its process has exited.     *)
LEMMA AwaitRetiredProc ==
  ASSUME TypeOK, ProcInv, NEW o \in Ops, AwaitRetired(o)
  PROVE  ProcInv'
<1>1. CASE session' = session /\ Go(o, "return")
  <2>1. StaysInGate
    BY <1>1, GoStays DEF AwaitRetired, GateFree, Relaunching, OpPoints
  <2> QED BY <1>1, <2>1, SameBorn, SameKept, QuietKeepsProc DEF AwaitRetired, Quiet
<1>2. CASE /\ ~Alive(session.retired)
           /\ session' = [session EXCEPT !.retired = 0]
           /\ Go(o, "launch")
  <2>1. /\ op[o].pc = "retired" /\ session.runtime = 0 /\ runtimes' = runtimes
    BY DEF AwaitRetired, ProcInv, NothingBound, Relaunching
  <2>2. /\ session'.runtime = session.runtime /\ session'.retired = 0
        /\ session'.gate = session.gate
    BY <1>2 DEF TypeOK, SessionType
  <2>3. op'[o].pc = "launch" /\ \A q \in Ops : q # o => op'[q] = op[q]
    BY <1>2 DEF TypeOK, OpType, Go
  <2>4. GateHeld'
    BY <2>1, <2>2, <2>3 DEF ProcInv, GateHeld, GateFree
  <2>5. NothingBound' /\ NothingRetired' /\ RetiredDead'
    BY <2>1, <2>2, <2>3
       DEF ProcInv, NothingBound, NothingRetired, RetiredDead, Relaunching
  <2>6. AliveIsHeld'
    <3>1. ASSUME NEW g \in Gens, Launched(g)
          PROVE  Launched(g)'
      BY <2>1, <2>3, <3>1 DEF Launched
    <3> QED BY <1>2, <2>1, <2>2, <3>1 DEF ProcInv, AliveIsHeld, Alive
  <2> QED BY <2>4, <2>5, <2>6 DEF ProcInv
<1> QED BY <1>1, <1>2 DEF AwaitRetired

(* A launch finds nothing alive: whatever was is neither bound nor retired,*)
(* and no other operation is launching.                                    *)
LEMMA LaunchProc ==
  ASSUME TypeOK, ProcInv, NEW o \in Ops, Launch(o)
  PROVE  ProcInv'
<1>1. CASE runtimes' = runtimes /\ Go(o, "return")
  <2>1. StaysInGate
    BY <1>1, GoStays DEF Launch, GateFree, Relaunching, OpPoints
  <2> QED BY <1>1, <2>1, SameBorn, SameKept, QuietKeepsProc DEF Launch, Quiet
<1>2. ASSUME NEW g \in Gens,
             runtimes' = [runtimes EXCEPT ![g].proc = "alive"],
             op' = [op EXCEPT ![o] = [pc |-> "bind", at |-> g]]
      PROVE  ProcInv'
  <2>1. /\ op[o].pc = "launch" /\ session' = session
        /\ session.runtime = 0 /\ session.retired = 0 /\ session.gate = o
    BY DEF Launch, ProcInv, NothingBound, NothingRetired, GateHeld, GateFree,
           Relaunching
  <2>2. /\ op'[o].pc = "bind" /\ op'[o].at = g
        /\ \A q \in Ops : q # o => op'[q] = op[q]
    BY <1>2 DEF TypeOK
  <2>3. GateHeld'
    BY <2>1, <2>2 DEF ProcInv, GateHeld, GateFree
  <2>4. NothingBound' /\ NothingRetired' /\ RetiredDead'
    BY <2>1, <2>2
       DEF ProcInv, NothingBound, NothingRetired, RetiredDead, Relaunching
  <2>5. \A h \in Gens : ~Alive(h)
    <3> SUFFICES ASSUME NEW h \in Gens, Alive(h) PROVE FALSE
      OBVIOUS
    <3>1. Launched(h)
      BY <2>1 DEF ProcInv, AliveIsHeld, Gens
    <3>2. PICK q \in Ops : op[q].pc = "bind"
      BY <3>1 DEF Launched
    <3> QED BY <2>1, <3>2 DEF ProcInv, GateHeld, GateFree
  <2>6. AliveIsHeld'
    <3>1. ASSUME NEW h \in Gens, Alive(h)'
          PROVE  h = g
      BY <1>2, <2>5, <3>1 DEF TypeOK, RuntimeType, Alive
    <3> QED BY <2>2, <3>1 DEF AliveIsHeld, Launched
  <2> QED BY <2>3, <2>4, <2>6 DEF ProcInv
<1> QED BY <1>1, <1>2 DEF Launch

(* Bind hands the process to the session, or reaps it.                     *)
LEMMA BindProc ==
  ASSUME TypeOK, ProcInv, NEW o \in Ops, Bind(o)
  PROVE  ProcInv'
<1> DEFINE g == op[o].at
<1>1. /\ op[o].pc = "bind" /\ session.runtime = 0 /\ session.retired = 0
      /\ session.gate = o
  BY DEF Bind, ProcInv, NothingBound, NothingRetired, GateHeld, GateFree,
         Relaunching
<1>2. op'[o].pc \in {"return", "configure"} /\ \A q \in Ops : q # o => op'[q] = op[q]
  BY DEF TypeOK, OpType, Bind, Go
<1>3. \A q \in Ops : q # o => op[q].pc \in GateFree
  BY <1>1 DEF ProcInv, GateHeld
<1>4. \A h \in Gens : Alive(h) => h = g
  BY <1>1, <1>3 DEF ProcInv, AliveIsHeld, Launched, GateFree, Gens
<1>5. session'.retired = 0 /\ session'.gate = o
  BY <1>1 DEF TypeOK, SessionType, Bind
<1>6. GateHeld' /\ NothingBound' /\ NothingRetired' /\ RetiredDead'
  BY <1>2, <1>3, <1>5
     DEF GateHeld, NothingBound, NothingRetired, RetiredDead, GateFree,
         Relaunching, Alive
<1>7. AliveIsHeld'
  <2>1. CASE session.closing
    <3>1. \A h \in Gens : ~Alive(h)'
      BY <1>4, <2>1 DEF TypeOK, RuntimeType, Bind, Exited, Alive
    <3> QED BY <3>1 DEF AliveIsHeld
  <2>2. CASE ~session.closing
    <3>1. session'.runtime = g /\ runtimes' = runtimes
      BY <2>2 DEF TypeOK, SessionType, Bind
    <3> QED BY <1>4, <3>1 DEF AliveIsHeld, Alive
  <2> QED BY <2>1, <2>2
<1> QED BY <1>6, <1>7 DEF ProcInv

(* The established session has the one process it bound.                   *)
LEMMA ProcInit == Init => ProcInv
  BY DEF Init, ProcInv, GateHeld, NothingBound, NothingRetired, RetiredDead,
         AliveIsHeld, Alive, Launched, Ops, GateFree, Relaunching

(* Every step keeps the process invariant.                                 *)
LEMMA ProcStep == TypeOK /\ ProcInv /\ [Next]_vars => ProcInv'
<1> SUFFICES ASSUME TypeOK, ProcInv, [Next]_vars PROVE ProcInv'
  OBVIOUS
<1>1. ASSUME NEW o \in Ops, Admit(o) \/ Prepare(o) \/ EnsureStep(o) \/ Return(o)
      PROVE  ProcInv'
  BY <1>1, AdmitProc, ReturnProc, EnsureRuntimeProc, AwaitRetiredProc,
     LaunchProc, BindProc, EnsureQuiet, QuietKeepsProc DEF EnsureStep
<1>2. ASSUME NEW t \in Turns, PromptStep(t)
      PROVE  ProcInv'
  BY <1>2, PromptQuiet, QuietKeepsProc
<1>3. ASSUME NEW c \in Controls, ControlUse(c)
      PROVE  ProcInv'
  BY <1>3, ControlQuiet, QuietKeepsProc
<1>4. CASE EstablishStep
  BY <1>4, EstablishCommitQuiet, EstablishProc, QuietKeepsProc DEF EstablishStep
<1>5. ASSUME NEW g \in Gens, PumpStep(g) \/ PiStep(g)
      PROVE  ProcInv'
  BY <1>5, PumpQuiet, PiQuiet, QuietKeepsProc
<1>6. CASE CloseStep
  BY <1>6, CloserProc, CloseQuiet, QuietKeepsProc
<1>7. CASE Cancel \/ Close \/ \E a \in aborts : Abort(a)
  BY <1>7, ClientQuiet, QuietKeepsProc
<1>8. CASE UNCHANGED vars
  BY <1>8, SameStays, SameBorn, SameKept, QuietKeepsProc DEF vars, Quiet
<1> QED BY <1>1, <1>2, <1>3, <1>4, <1>5, <1>6, <1>7, <1>8 DEF Next

(* At most one pi of a session is alive, for any number of operations and  *)
(* relaunches.                                                             *)
THEOREM OneProcessAlways == Spec => []OneProcess
<1>1. TypeInv /\ ProcInv => OneProcess
  BY ProcImplies DEF TypeInv
<1>2. Init => ProcInv
  BY ProcInit
<1>3. TypeInv /\ ProcInv /\ [Next]_vars => ProcInv'
  BY ProcStep DEF TypeInv
<1>4. Spec => []TypeInv
  BY TypeInvariant
<1> QED BY <1>1, <1>2, <1>3, <1>4, PTL DEF Spec

-----------------------------------------------------------------------------
(* OneForeground and ClosedIsFenced.  Most actions leave the foreground or *)
(* clear it, leave openMu alone, never reopen a closing session, move no   *)
(* operation into a publication, and at most fence the stream.             *)

SessionKept ==
  /\ session'.turn \in {session.turn, None}
  /\ session'.cycle \in {session.cycle, None}
  /\ session'.openMu = session.openMu
  /\ session.closing => session'.closing

NothingOpens ==
  /\ \A o \in Ops : op'[o].pc = "openPublish" => op[o].pc = "openPublish"
  /\ stream' \in {stream, 0}

(* A session that did not change is kept.                                  *)
LEMMA SameSession == session' = session => SessionKept
  BY DEF SessionKept

(* Giving the binding up keeps the rest of the session.                    *)
LEMMA UnboundSession ==
  ASSUME TypeOK, NEW g, session' = Unbound(g)
  PROVE  SessionKept
<1>1. CASE g # 0 /\ session.runtime = g
  <2>1. session' = [session EXCEPT !.runtime = 0, !.retired = g]
    BY <1>1 DEF Unbound
  <2> QED BY <2>1 DEF TypeOK, SessionType, SessionKept
<1>2. CASE ~(g # 0 /\ session.runtime = g)
  BY <1>2 DEF Unbound, SessionKept
<1> QED BY <1>1, <1>2

(* A mirror commit keeps all of the session but the persisted mark.        *)
LEMMA CommitSession ==
  ASSUME TypeOK, CommitMirror
  PROVE  SessionKept
  BY DEF TypeOK, SessionType, CommitMirror, SessionKept

(* Go moves one operation.                                                 *)
LEMMA GoOpens ==
  ASSUME TypeOK, NEW o \in Ops, NEW p, p # "openPublish", Go(o, p)
  PROVE  \A q \in Ops : op'[q].pc = "openPublish" => op[q].pc = "openPublish"
  BY GoMoves DEF TypeOK

(* The operations, but for PromptInstall and the opening of the stream.    *)
LEMMA PromptKept ==
  ASSUME TypeOK, NEW t \in Turns, PromptStep(t), ~PromptInstall(t)
  PROVE  SessionKept
<1>1. CASE StopGrace(t) \/ StopCommit(t)
  BY <1>1, UnboundSession DEF StopGrace, StopCommit
<1>2. CASE TurnCommit(t)
  BY <1>2, CommitSession, SameSession DEF TurnCommit
<1>3. CASE session' = session
  BY <1>3, SameSession
<1> QED BY <1>1, <1>2, <1>3
        DEF PromptStep, Dispatch, Send, Reply, Lost, OwedFence, Accept, Wait,
            Settle, Join, CommitFence, Terminal, Claim

(* No step of a prompt opens the stream.                                   *)
LEMMA PromptOpens ==
  ASSUME TypeOK, NEW t \in Turns, PromptStep(t)
  PROVE  NothingOpens /\ closer' = closer
<1>1. t \in Ops
  BY DEF Ops
<1>2. stream' \in {stream, 0} /\ closer' = closer
  BY DEF PromptStep, PromptInstall, Dispatch, Send, Reply, Lost, OwedFence,
         Accept, Wait, StopGrace, Settle, Join, TurnCommit, StopCommit,
         CommitFence, Terminal, Claim, FenceStream
<1>3. PICK p : p # "openPublish" /\ Go(t, p)
  BY DEF PromptStep, PromptInstall, Dispatch, Send, Reply, Lost, OwedFence,
         Accept, Wait, StopGrace, Settle, Join, TurnCommit, StopCommit,
         CommitFence, Terminal, Claim, ClaimFence
<1> QED BY <1>1, <1>2, <1>3, GoOpens DEF NothingOpens

(* The steps of ensureRuntime before the stream opens.                     *)
LEMMA EnsureKept ==
  ASSUME TypeOK, NEW o \in Ops,
         Prepare(o) \/ EnsureStep(o), ~OpenCheck(o), ~OpenPublish(o)
  PROVE  SessionKept /\ NothingOpens /\ closer' = closer
<1>1. SessionKept
  <2>1. CASE StopUnconfigured(o)
    BY <2>1, UnboundSession DEF StopUnconfigured
  <2>2. CASE AwaitRetired(o)
    BY <2>2, SameSession DEF AwaitRetired, TypeOK, SessionType, SessionKept
  <2>3. CASE Bind(o)
    BY <2>3, SameSession DEF Bind, TypeOK, SessionType, SessionKept
  <2>4. CASE session' = session
    BY <2>4, SameSession
  <2> QED BY <2>1, <2>2, <2>3, <2>4
          DEF EnsureStep, Prepare, EnsureRuntime, AwaitEnding, Launch, Configure
<1>2. \A q \in Ops : op'[q].pc = "openPublish" => op[q].pc = "openPublish"
  <2>1. CASE EnsureRuntime(o)
    BY <2>1 DEF EnsureRuntime, Ensured, TypeOK
  <2>2. CASE Launch(o)
    BY <2>2, GoOpens DEF Launch, TypeOK
  <2>3. CASE \E p : p # "openPublish" /\ Go(o, p)
    BY <2>3, GoOpens
  <2>4. CASE Bind(o)
    BY <2>4, GoOpens DEF Bind
  <2> QED BY <2>1, <2>2, <2>3, <2>4
          DEF EnsureStep, Prepare, AwaitEnding, AwaitRetired, Configure,
              StopUnconfigured
<1>3. stream' = stream /\ closer' = closer
  BY DEF EnsureStep, Prepare, EnsureRuntime, AwaitEnding, AwaitRetired, Launch,
         Bind, Configure, StopUnconfigured
<1> QED BY <1>1, <1>2, <1>3 DEF NothingOpens

(* Admission, the response and the control operations.                     *)
LEMMA GateKept ==
  ASSUME TypeOK, NEW o \in Ops, Admit(o) \/ Return(o) \/ ControlUse(o)
  PROVE  SessionKept /\ NothingOpens /\ closer' = closer
<1>1. CASE Admit(o)
  <2>1. SessionKept
    BY <1>1 DEF Admit, TypeOK, SessionType, SessionKept
  <2> QED BY <1>1, <2>1, GoOpens DEF Admit, NothingOpens
<1>2. CASE Return(o)
  <2>1. SessionKept
    BY <1>2 DEF Return, TypeOK, SessionType, SessionKept
  <2> QED BY <1>2, <2>1 DEF Return, NothingOpens, TypeOK
<1>3. CASE ControlUse(o)
  BY <1>3, CommitSession, SameSession, GoOpens DEF ControlUse, NothingOpens
<1> QED BY <1>1, <1>2, <1>3

(* The establishment, but for the close a failed one begins.               *)
LEMMA EstablishKept ==
  ASSUME TypeOK, EstablishCommit \/ EstablishRelease \/ EstablishHook
  PROVE  SessionKept /\ NothingOpens /\ closer' = closer
<1>1. Opening \in Ops
  BY DEF Ops
<1>2. SessionKept
  BY CommitSession, SameSession
     DEF EstablishCommit, EstablishRelease, EstablishHook, TypeOK, SessionType,
         SessionKept
<1>3. \A q \in Ops : op'[q].pc = "openPublish" => op[q].pc = "openPublish"
  <2>1. CASE EstablishCommit
    BY <1>1, <2>1, GoOpens DEF EstablishCommit, TypeOK
  <2>2. CASE EstablishRelease \/ EstablishHook
    BY <1>1, <2>2, GoOpens DEF EstablishRelease, EstablishHook
  <2> QED BY <2>1, <2>2
<1> QED BY <1>2, <1>3
        DEF EstablishCommit, EstablishRelease, EstablishHook, NothingOpens

(* The pump, but for the cycle it opens.                                   *)
LEMMA PumpKept ==
  ASSUME TypeOK, NEW g \in Gens, PumpStep(g)
  PROVE  /\ PumpRoute(g) \/ SessionKept
         /\ NothingOpens /\ closer' = closer
<1>1. SessionKept \/ PumpRoute(g)
  <2>1. CASE CycleCommit(g)
    BY <2>1, CommitSession, SameSession DEF CycleCommit
  <2>2. CASE CycleDrop(g) \/ EndUnbind(g)
    BY <2>2, UnboundSession, SameSession DEF CycleDrop, EndUnbind
  <2>3. CASE CycleClear(g)
    BY <2>3 DEF CycleClear, TypeOK, SessionType, SessionKept
  <2>4. CASE RuntimeEnded(g)
    <3>1. session' = session \/ session' = [session EXCEPT !.cycle = None]
      BY <2>4 DEF RuntimeEnded
    <3> QED BY <3>1 DEF TypeOK, SessionType, SessionKept
  <2>5. CASE session' = session
    BY <2>5, SameSession
  <2> QED BY <2>1, <2>2, <2>3, <2>4, <2>5
      DEF PumpStep, PumpRead, PumpHold, PumpHoldLost, PumpHoldDone, CycleSettle,
          CycleJoin, CycleStats, CycleFence, CycleIdle, EndJoin, EndRelease
<1>2. op' = op /\ closer' = closer
  BY DEF PumpStep, PumpRead, PumpRoute, PumpHold, PumpHoldLost, PumpHoldDone,
         CycleSettle, CycleJoin, CycleStats, CycleCommit, CycleFence, CycleDrop,
         CycleIdle, CycleClear, RuntimeEnded, EndJoin, EndUnbind, EndRelease
<1>3. stream' \in {stream, 0}
  BY DEF PumpStep, PumpRead, PumpRoute, PumpHold, PumpHoldLost, PumpHoldDone,
         CycleSettle, CycleJoin, CycleStats, CycleCommit, CycleFence, CycleDrop,
         CycleIdle, CycleClear, RuntimeEnded, EndJoin, EndUnbind, EndRelease,
         FenceStream
<1> QED BY <1>1, <1>2, <1>3 DEF NothingOpens

(* The shutdown ladder clears the cycle and leaves the rest.               *)
LEMMA LadderKept ==
  ASSUME TypeOK, CloseStep
  PROVE  SessionKept /\ NothingOpens
<1>1. SessionKept
  <2>1. CASE CloseStopJoin
    BY <2>1, UnboundSession DEF CloseStopJoin
  <2>2. CASE CloseCommit
    BY <2>2, CommitSession, SameSession DEF CloseCommit
  <2>3. CASE CloseGate
    BY <2>3, SameSession DEF CloseGate, TypeOK, SessionType, SessionKept
  <2>4. CASE CloseIdle
    <3>1. session' = [session EXCEPT !.cycle = None]
      BY <2>4 DEF CloseIdle
    <3> QED BY <3>1 DEF TypeOK, SessionType, SessionKept
  <2>5. CASE CloseFence
    BY <2>5 DEF CloseFence, TypeOK, SessionType, SessionKept
  <2>6. CASE session' = session
    BY <2>6, SameSession
  <2> QED BY <2>1, <2>2, <2>3, <2>4, <2>5, <2>6
          DEF CloseStep, CloseJoin, CloseAbort, CloseWait, CloseStop
<1>2. NothingOpens
  BY DEF CloseStep, CloseJoin, CloseAbort, CloseWait, CloseStop, CloseStopJoin,
         CloseGate, CloseCommit, CloseIdle, CloseFence, FenceStream, NothingOpens
<1> QED BY <1>1, <1>2

(* A close marks the session and leaves its foreground to the ladder.      *)
LEMMA BeginCloseKept ==
  ASSUME TypeOK, Close \/ EstablishAbandon
  PROVE  /\ SessionKept /\ NothingOpens
         /\ closer' = closer \/ (closer'.pc = "join" /\ session'.closing)
<1>1. CASE Close
  <2>1. SessionKept /\ closer'.pc = "join" /\ session'.closing
    BY <1>1 DEF Close, BeginClose, TypeOK, SessionType, SessionKept
  <2> QED BY <1>1, <2>1 DEF Close, NothingOpens
<1>2. CASE EstablishAbandon
  <2> DEFINE released == [session EXCEPT !.gate = None]
  <2>1. \/ session' = [released EXCEPT !.closing = TRUE] /\ closer'.pc = "join"
        \/ session' = released /\ closer' = closer
    BY <1>2 DEF EstablishAbandon, BeginClose
  <2>2. SessionKept /\ (closer' = closer \/ (closer'.pc = "join" /\ session'.closing))
    BY <2>1 DEF TypeOK, SessionType, SessionKept
  <2>3. Opening \in Ops /\ Go(Opening, "done") /\ stream' = stream
    BY <1>2 DEF Ops, EstablishAbandon
  <2> QED BY <2>2, <2>3, GoOpens DEF NothingOpens
<1> QED BY <1>1, <1>2

(* session/cancel, its interrupts and pi leave the session alone.          *)
LEMMA OthersKept ==
  ASSUME \/ Cancel \/ \E a \in aborts : Abort(a)
         \/ \E g \in Gens : PiStep(g)
         \/ UNCHANGED vars
  PROVE  SessionKept /\ NothingOpens /\ closer' = closer
  BY SameSession
     DEF Cancel, Abort, PiStep, PiStarts, PiSettles, PiExits, PiClosesStdout,
         vars, NothingOpens

-----------------------------------------------------------------------------
(* Each side reserves the foreground only while the other has none, and a  *)
(* kept session only gives it up.                                          *)
LEMMA KeptForeground == OneForeground /\ SessionKept => OneForeground'
  BY DEF OneForeground, SessionKept

(* Every step keeps prompt and cycle apart.                                *)
LEMMA ForegroundStep == TypeOK /\ OneForeground /\ [Next]_vars => OneForeground'
<1> SUFFICES ASSUME TypeOK, OneForeground, [Next]_vars PROVE OneForeground'
  OBVIOUS
<1>1. ASSUME NEW t \in Turns, PromptInstall(t)
      PROVE  OneForeground'
  BY <1>1 DEF PromptInstall, OneForeground, TypeOK, SessionType
<1>2. ASSUME NEW g \in Gens, PumpRoute(g)
      PROVE  OneForeground'
  BY <1>2 DEF PumpRoute, RouteToTurn, RouteToCycle, OpenAgentCycle,
              OneForeground, TypeOK, SessionType
<1>3. ASSUME NEW o \in Ops, OpenCheck(o) \/ OpenPublish(o)
      PROVE  OneForeground'
  BY <1>3 DEF OpenCheck, OpenPublish, OneForeground, TypeOK, SessionType
<1>4. ASSUME NEW t \in Turns, PromptStep(t)
      PROVE  OneForeground'
  BY <1>1, <1>4, PromptKept, KeptForeground
<1>5. ASSUME NEW c \in Controls, ControlUse(c)
      PROVE  OneForeground'
  BY <1>5, GateKept, KeptForeground DEF Ops
<1>6. ASSUME NEW o \in Ops, Admit(o) \/ Prepare(o) \/ EnsureStep(o) \/ Return(o)
      PROVE  OneForeground'
  BY <1>3, <1>6, GateKept, EnsureKept, KeptForeground
<1>7. ASSUME NEW g \in Gens, PumpStep(g)
      PROVE  OneForeground'
  BY <1>2, <1>7, PumpKept, KeptForeground
<1>8. CASE EstablishStep \/ Close \/ CloseStep
  BY <1>8, EstablishKept, BeginCloseKept, LadderKept, KeptForeground
     DEF EstablishStep
<1>9. CASE \/ Cancel \/ \E a \in aborts : Abort(a)
           \/ \E g \in Gens : PiStep(g)
           \/ UNCHANGED vars
  BY <1>9, OthersKept, KeptForeground
<1> QED BY <1>4, <1>5, <1>6, <1>7, <1>8, <1>9 DEF Next

(* A prompt and an agent-origin cycle never hold the foreground together,  *)
(* for any number of prompts, runs and relaunches.                         *)
THEOREM OneForegroundAlways == Spec => []OneForeground
<1>1. Init => OneForeground
  BY DEF Init, OneForeground
<1>2. TypeInv /\ OneForeground /\ [Next]_vars => OneForeground'
  BY ForegroundStep DEF TypeInv
<1>3. Spec => []TypeInv
  BY TypeInvariant
<1> QED BY <1>1, <1>2, <1>3, PTL DEF Spec

-----------------------------------------------------------------------------
(* ClosedIsFenced.  Only the holder of openMu publishes an opening, and a  *)
(* closing session lets no operation take openMu.                          *)

OpenHeld ==
  \A o \in Ops : op[o].pc = "openPublish" => session.openMu = o

LadderMarks == closer.pc # "none" => session.closing

StaysFenced == closer.pc = "done" => session.openMu = None /\ stream = 0

FenceInv == OpenHeld /\ LadderMarks /\ StaysFenced

(* Every action that opens nothing keeps the invariant.                    *)
LEMMA KeptFence ==
  ASSUME FenceInv, SessionKept, NothingOpens,
         closer' = closer \/ (closer'.pc = "join" /\ session'.closing)
  PROVE  FenceInv'
<1>1. OpenHeld'
  BY DEF FenceInv, OpenHeld, SessionKept, NothingOpens
<1>2. LadderMarks' /\ StaysFenced'
  BY DEF FenceInv, LadderMarks, StaysFenced, SessionKept, NothingOpens
<1> QED BY <1>1, <1>2 DEF FenceInv

(* Every step keeps the fence invariant.                                   *)
LEMMA FenceStep == TypeOK /\ FenceInv /\ [Next]_vars => FenceInv'
<1> SUFFICES ASSUME TypeOK, FenceInv, [Next]_vars PROVE FenceInv'
  OBVIOUS
<1>1. ASSUME NEW t \in Turns, PromptStep(t)
      PROVE  FenceInv'
  <2>1. SessionKept \/ PromptInstall(t)
    BY <1>1, PromptKept
  <2>2. NothingOpens /\ closer' = closer
    BY <1>1, PromptOpens
  <2>3. \/ session'.openMu = session.openMu /\ session'.closing = session.closing
        \/ SessionKept
    BY <2>1 DEF PromptInstall, TypeOK, SessionType
  <2> QED BY <2>2, <2>3 
          DEF FenceInv, OpenHeld, LadderMarks, StaysFenced, NothingOpens, SessionKept
<1>2. ASSUME NEW g \in Gens, PumpStep(g)
      PROVE  FenceInv'
  <2>1. SessionKept \/ PumpRoute(g)
    BY <1>2, PumpKept
  <2>2. NothingOpens /\ closer' = closer
    BY <1>2, PumpKept
  <2>3. \/ session'.openMu = session.openMu /\ session'.closing = session.closing
        \/ SessionKept
    BY <2>1 DEF PumpRoute, RouteToTurn, RouteToCycle, OpenAgentCycle, TypeOK,
                SessionType
  <2> QED BY <2>2, <2>3
          DEF FenceInv, OpenHeld, LadderMarks, StaysFenced, NothingOpens, SessionKept
<1>3. ASSUME NEW o \in Ops, OpenCheck(o)
      PROVE  FenceInv'
  <2>1. CASE MayOpen(op[o].at)
    <3>1. /\ session' = [session EXCEPT !.openMu = o] /\ Go(o, "openPublish")
          /\ ~session.closing /\ session.openMu = None
      BY <1>3, <2>1 DEF OpenCheck, MayOpen
    <3>2. session'.openMu = o /\ session'.closing = session.closing
      BY <3>1 DEF TypeOK, SessionType
    <3>3. \A q \in Ops : q # o => op'[q] = op[q]
      BY <3>1, GoMoves DEF TypeOK
    <3>4. OpenHeld'
      BY <3>1, <3>2, <3>3, OpNames DEF FenceInv, OpenHeld
    <3>5. LadderMarks' /\ StaysFenced'
      BY <1>3, <3>1, <3>2 DEF OpenCheck, FenceInv, LadderMarks, StaysFenced
    <3> QED BY <3>4, <3>5 DEF FenceInv
  <2>2. CASE ~MayOpen(op[o].at)
    <3>1. session' = session /\ Go(o, OpenRefused(o))
      BY <1>3, <2>2 DEF OpenCheck
    <3>2. NothingOpens /\ closer' = closer
      BY <1>3, <3>1, GoOpens DEF OpenCheck, OpenRefused, NothingOpens
    <3> QED BY <3>1, <3>2, SameSession, KeptFence
  <2> QED BY <2>1, <2>2
<1>4. ASSUME NEW o \in Ops, OpenPublish(o)
      PROVE  FenceInv'
  <2>1. session.openMu = o
    BY <1>4 DEF OpenPublish, FenceInv, OpenHeld
  <2>2. session'.openMu = None /\ session'.closing = session.closing
    BY <1>4 DEF OpenPublish, TypeOK, SessionType
  <2>3. PICK p : p # "openPublish" /\ Go(o, p)
    BY <1>4 DEF OpenPublish, Ensured, OpenRefused
  <2>4. OpenHeld'
    BY <2>1, <2>3, GoMoves DEF FenceInv, OpenHeld, TypeOK
  <2>5. LadderMarks' /\ StaysFenced'
    BY <1>4, <2>1, <2>2, OpNames
       DEF OpenPublish, FenceInv, LadderMarks, StaysFenced
  <2> QED BY <2>4, <2>5 DEF FenceInv
<1>5. ASSUME NEW o \in Ops, Admit(o) \/ Prepare(o) \/ EnsureStep(o) \/ Return(o)
      PROVE  FenceInv'
  BY <1>3, <1>4, <1>5, GateKept, EnsureKept, KeptFence
<1>6. ASSUME NEW c \in Controls, ControlUse(c)
      PROVE  FenceInv'
  BY <1>6, GateKept, KeptFence DEF Ops
<1>7. CASE EstablishStep \/ Close
  BY <1>7, EstablishKept, BeginCloseKept, KeptFence DEF EstablishStep
<1>8. CASE CloseStep
  <2>1. SessionKept /\ NothingOpens
    BY <1>8, LadderKept
  <2>2. OpenHeld'
    BY <2>1 DEF FenceInv, OpenHeld, SessionKept, NothingOpens
  <2>3. closer.pc \notin {"none", "done"}
    BY <1>8 DEF CloseStep, CloseJoin, CloseAbort, CloseWait, CloseStop,
                CloseStopJoin, CloseGate, CloseCommit, CloseIdle, CloseFence
  <2>4. LadderMarks'
    BY <2>1, <2>3 DEF FenceInv, LadderMarks, SessionKept
  <2>5. CASE CloseFence
    <3>1. session.openMu = None /\ stream' = 0
      BY <2>5 DEF CloseFence, FenceStream
    <3> QED BY <2>1, <2>2, <2>4, <3>1 DEF FenceInv, StaysFenced, SessionKept
  <2>6. CASE ~CloseFence
    <3>1. closer'.pc # "done"
      BY <1>8, <2>6
         DEF CloseStep, CloseJoin, CloseAbort, CloseWait, CloseStop,
             CloseStopJoin, CloseGate, CloseCommit, CloseIdle, CloseAt,
             AfterTurn, TypeOK, CloserType
    <3> QED BY <2>2, <2>4, <3>1 DEF FenceInv, StaysFenced
  <2> QED BY <2>5, <2>6
<1>9. CASE \/ Cancel \/ \E a \in aborts : Abort(a)
           \/ \E g \in Gens : PiStep(g)
           \/ UNCHANGED vars
  BY <1>9, OthersKept, KeptFence
<1> QED BY <1>1, <1>2, <1>5, <1>6, <1>7, <1>8, <1>9 DEF Next

(* Nothing reopens the stream of a closed session.                         *)
THEOREM ClosedIsFencedAlways == Spec => []ClosedIsFenced
<1>1. Init => FenceInv
  BY DEF Init, FenceInv, OpenHeld, LadderMarks, StaysFenced
<1>2. TypeInv /\ FenceInv /\ [Next]_vars => FenceInv'
  BY FenceStep DEF TypeInv
<1>3. FenceInv => ClosedIsFenced
  BY DEF FenceInv, StaysFenced, ClosedIsFenced
<1>4. Spec => []TypeInv
  BY TypeInvariant
<1> QED BY <1>1, <1>2, <1>3, <1>4, PTL DEF Spec

-----------------------------------------------------------------------------
(* Who publishes a terminal idle, who marks a foreground and who starts an *)
(* interrupt.                                                              *)

(* The actions that publish a terminal idle.                               *)
Idling ==
  \/ \E t \in Turns : Terminal(t)
  \/ \E g \in Gens : CycleIdle(g) \/ EndJoin(g)
  \/ CloseIdle

(* No other action publishes one.                                          *)
LEMMA IdleSources ==
  ASSUME TypeOK, [Next]_vars, ~Idling
  PROVE  log'.idles = log.idles
<1> USE DEF TypeOK, LogType
<1>1. ASSUME NEW t \in Turns, PromptStep(t)
      PROVE  log'.idles = log.idles
  <2>1. CASE TurnCommit(t)
    BY <2>1 DEF TurnCommit, CommitMirror
  <2>2. CASE Send(t) \/ Accept(t)
    BY <2>2 DEF Send, Accept, AcceptTurn, Accepted
  <2> QED BY <1>1, <2>1, <2>2
          DEF PromptStep, PromptInstall, Dispatch, Reply, Lost, OwedFence, Wait,
              StopGrace, Settle, Join, StopCommit, CommitFence, Claim, Idling
<1>2. ASSUME NEW g \in Gens, PumpStep(g)
      PROVE  log'.idles = log.idles
  <2>1. CASE PumpRoute(g)
    BY <2>1 DEF PumpRoute, RouteToTurn, RouteToCycle, OpenAgentCycle, Accepted
  <2>2. CASE CycleCommit(g)
    BY <2>2 DEF CycleCommit, CommitMirror
  <2> QED BY <1>2, <2>1, <2>2
          DEF PumpStep, PumpRead, PumpHold, PumpHoldLost, PumpHoldDone,
              CycleSettle, CycleJoin, CycleStats, CycleFence, CycleDrop,
              CycleClear, RuntimeEnded, EndUnbind, EndRelease, Idling
<1>3. ASSUME NEW o \in Ops, Admit(o) \/ Prepare(o) \/ EnsureStep(o) \/ Return(o)
      PROVE  log'.idles = log.idles
  BY <1>3 DEF Admit, Prepare, EnsureStep, Return, EnsureRuntime, AwaitEnding,
     AwaitRetired, Launch, Bind, Configure, StopUnconfigured, OpenCheck, OpenPublish
<1>4. ASSUME NEW c \in Controls, ControlUse(c)
      PROVE  log'.idles = log.idles
  BY <1>4 DEF ControlUse, CommitMirror
<1>5. CASE EstablishStep
  BY <1>5 DEF EstablishStep, EstablishCommit, EstablishRelease, EstablishHook,
     EstablishAbandon, CommitMirror
<1>6. ASSUME NEW g \in Gens, PiStep(g)
      PROVE  log'.idles = log.idles
  BY <1>6 DEF PiStep, PiStarts, PiSettles, PiExits, PiClosesStdout
<1>7. CASE CloseStep
  BY <1>7 DEF CloseStep, CloseJoin, CloseAbort, CloseWait, CloseStop,
     CloseStopJoin, CloseGate, CloseCommit, CloseFence, CommitMirror, Idling
<1>8. CASE Cancel \/ Close \/ (\E a \in aborts : Abort(a)) \/ UNCHANGED vars
  BY <1>8 DEF Cancel, Close, Abort, vars
<1> QED BY <1>1, <1>2, <1>3, <1>4, <1>5, <1>6, <1>7, <1>8 DEF Next

(* The actions that mark a foreground cancelled, settling or terminal.     *)
Marking ==
  \/ \E t \in Turns : Settle(t) \/ Terminal(t)
  \/ \E g \in Gens : CycleSettle(g) \/ CycleIdle(g)
  \/ Cancel \/ Close \/ EstablishAbandon

(* No other action marks one.                                              *)
LEMMA MarkSources ==
  ASSUME [Next]_vars, ~Marking
  PROVE  marks' = marks
<1>1. ASSUME NEW t \in Turns, PromptStep(t)
      PROVE  marks' = marks
  BY <1>1 DEF PromptStep, PromptInstall, Dispatch, Send, Reply, Lost, OwedFence,
     Accept, Wait, StopGrace, Join, TurnCommit, StopCommit, CommitFence, Claim,
     Marking
<1>2. ASSUME NEW g \in Gens, PumpStep(g)
      PROVE  marks' = marks
  BY <1>2 DEF PumpStep, PumpRead, PumpRoute, PumpHold, PumpHoldLost,
     PumpHoldDone, CycleJoin, CycleStats, CycleCommit, CycleFence, CycleDrop,
     CycleClear, RuntimeEnded, EndJoin, EndUnbind, EndRelease, Marking
<1>3. ASSUME NEW o \in Ops, Admit(o) \/ Prepare(o) \/ EnsureStep(o) \/ Return(o)
      PROVE  marks' = marks
  BY <1>3 DEF Admit, Prepare, EnsureStep, Return, EnsureRuntime, AwaitEnding,
     AwaitRetired, Launch, Bind, Configure, StopUnconfigured, OpenCheck, OpenPublish
<1>4. ASSUME NEW c \in Controls, ControlUse(c)
      PROVE  marks' = marks
  BY <1>4 DEF ControlUse
<1>5. CASE EstablishStep
  BY <1>5 DEF EstablishStep, EstablishCommit, EstablishRelease, EstablishHook, Marking
<1>6. ASSUME NEW g \in Gens, PiStep(g)
      PROVE  marks' = marks
  BY <1>6 DEF PiStep, PiStarts, PiSettles, PiExits, PiClosesStdout
<1>7. CASE CloseStep
  BY <1>7 DEF CloseStep, CloseJoin, CloseAbort, CloseWait, CloseStop,
     CloseStopJoin, CloseGate, CloseCommit, CloseIdle, CloseFence
<1>8. CASE (\E a \in aborts : Abort(a)) \/ UNCHANGED vars
  BY <1>8 DEF Abort, vars
<1> QED BY <1>1, <1>2, <1>3, <1>4, <1>5, <1>6, <1>7, <1>8 DEF Next, Marking

(* A session that began to close is closing for good.                      *)
LEMMA ClosingStays ==
  ASSUME TypeOK, [Next]_vars, session.closing
  PROVE  session'.closing
<1>1. ASSUME NEW t \in Turns, PromptStep(t)
      PROVE  session'.closing
  BY <1>1, PromptKept DEF SessionKept, PromptInstall, TypeOK, SessionType
<1>2. ASSUME NEW g \in Gens, PumpStep(g)
      PROVE  session'.closing
  BY <1>2, PumpKept DEF SessionKept, PumpRoute, RouteToTurn, RouteToCycle,
     OpenAgentCycle
<1>3. ASSUME NEW o \in Ops, Admit(o) \/ Prepare(o) \/ EnsureStep(o) \/ Return(o)
      PROVE  session'.closing
  <2>1. CASE OpenCheck(o) \/ OpenPublish(o)
    BY <2>1 DEF OpenCheck, OpenPublish, TypeOK, SessionType
  <2> QED BY <1>3, <2>1, GateKept, EnsureKept DEF SessionKept
<1>4. ASSUME NEW c \in Controls, ControlUse(c)
      PROVE  session'.closing
  BY <1>4, GateKept DEF SessionKept, Ops
<1>5. CASE EstablishStep \/ Close \/ CloseStep
  BY <1>5, EstablishKept, BeginCloseKept, LadderKept DEF EstablishStep, SessionKept
<1>6. CASE \/ Cancel \/ \E a \in aborts : Abort(a)
           \/ \E g \in Gens : PiStep(g)
           \/ UNCHANGED vars
  BY <1>6, OthersKept DEF SessionKept
<1> QED BY <1>1, <1>2, <1>3, <1>4, <1>5, <1>6 DEF Next

(* One foreground gets at most one idle more, and the others none.         *)
LEMMA IdledOne ==
  ASSUME TypeOK, NEW f \in Foreground, NEW out, log' = Idled(f, out)
  PROVE  /\ \A h \in Foreground \ {f} : log'.idles[h] = log.idles[h]
         /\ \/ log'.idles[f] = log.idles[f]
            \/ /\ stream # 0
               /\ log'.idles[f] = Append(log.idles[f], [on |-> stream, outcome |-> out])
  BY DEF TypeOK, LogType, Idled

-----------------------------------------------------------------------------
(* CancelWins.  A success is published with the mark that refuses later    *)
(* cancels, so a cancelled foreground with a success was marked by the     *)
(* close that ends it anyway.                                              *)

Succeeded(f) ==
  \E i \in DOMAIN log.idles[f] : log.idles[f][i].outcome = "success"

VerdictInv ==
  /\ \A f \in marks.cancelled : Succeeded(f) => session.closing
  /\ \A f \in Foreground : Succeeded(f) => f \in marks.terminal

(* What an idle adds to the successes.                                     *)
LEMMA IdledSucceeds ==
  ASSUME TypeOK, NEW f \in Foreground, NEW out, log' = Idled(f, out),
         NEW h \in Foreground, Succeeded(h)'
  PROVE  Succeeded(h) \/ (h = f /\ out = "success")
<1>1. CASE log'.idles[h] = log.idles[h]
  BY <1>1 DEF Succeeded
<1>2. CASE log'.idles[h] # log.idles[h]
  <2> DEFINE idle == [on |-> stream, outcome |-> out]
  <2>1. h = f /\ log'.idles[f] = Append(log.idles[f], idle)
    BY <1>2, IdledOne
  <2>2. log.idles[f] \in Seq([on : Gens, outcome : Outcomes])
    BY DEF TypeOK, LogType
  <2>3. PICK i \in DOMAIN log'.idles[f] : log'.idles[f][i].outcome = "success"
    BY <2>1 DEF Succeeded
  <2>4. CASE i \in DOMAIN log.idles[f]
    <3>1. log'.idles[f][i] = log.idles[f][i]
      BY <2>1, <2>2, <2>4
    <3> QED BY <2>1, <2>3, <2>4, <3>1 DEF Succeeded
  <2>5. CASE i \notin DOMAIN log.idles[f]
    <3>1. log'.idles[f][i] = idle
      BY <2>1, <2>2, <2>3, <2>5
    <3> QED BY <2>1, <2>3, <3>1
  <2> QED BY <2>4, <2>5
<1> QED BY <1>1, <1>2

(* Every step keeps the verdicts.                                          *)
LEMMA VerdictStep == TypeInv /\ VerdictInv /\ [Next]_vars => VerdictInv'
<1> SUFFICES ASSUME TypeInv, VerdictInv, [Next]_vars PROVE VerdictInv'
  OBVIOUS
<1>1. TypeOK /\ PumpOwns
  BY DEF TypeInv
<1>2. marks \in MarksType
  BY <1>1 DEF TypeOK
<1>3. session.closing => session'.closing
  BY <1>1, ClosingStays
<1>4. ASSUME NEW t \in Turns, Terminal(t)
      PROVE  VerdictInv'
  <2>1. Prompted(t) \in Foreground
    BY ForegroundNames
  <2>2. log' = Idled(Prompted(t), TurnOutcome(t))
    BY <1>4 DEF Terminal
  <2>3. /\ marks'.cancelled = marks.cancelled
        /\ marks'.terminal = marks.terminal \cup {Prompted(t)}
    BY <1>2, <1>4 DEF Terminal, MarksType
  <2>4. Prompted(t) \in marks.cancelled => TurnOutcome(t) # "success"
    BY DEF TurnOutcome
  <2>5. \A h \in Foreground :
          Succeeded(h)' => Succeeded(h) \/ (h = Prompted(t) /\ TurnOutcome(t) = "success")
    BY <1>1, <2>1, <2>2, IdledSucceeds
  <2> QED BY <1>2, <1>3, <2>3, <2>4, <2>5 DEF VerdictInv, MarksType
<1>5. ASSUME NEW g \in Gens, CycleIdle(g)
      PROVE  VerdictInv'
  <2> DEFINE f == Agent(pumps[g].cycle)
             out == IF f \in marks.cancelled THEN "cancelled" ELSE "success"
  <2>1. f \in Foreground
    BY <1>1, <1>5, ForegroundNames DEF CycleIdle, PumpOwns, Owns, CyclePoints
  <2>2. log' = Idled(f, out)
    BY <1>5 DEF CycleIdle
  <2>3. /\ marks'.cancelled = marks.cancelled
        /\ marks'.terminal = marks.terminal \cup {f}
    BY <1>2, <1>5 DEF CycleIdle, MarksType
  <2>4. f \in marks.cancelled => out # "success"
    OBVIOUS
  <2> HIDE DEF f, out
  <2>5. \A h \in Foreground :
          Succeeded(h)' => Succeeded(h) \/ (h = f /\ out = "success")
    BY <1>1, <2>1, <2>2, IdledSucceeds
  <2> QED BY <1>2, <1>3, <2>3, <2>4, <2>5 DEF VerdictInv, MarksType
<1>6. ASSUME marks' = marks, \A h \in Foreground : Succeeded(h)' => Succeeded(h)
      PROVE  VerdictInv'
  BY <1>2, <1>3, <1>6 DEF VerdictInv, MarksType
<1>7. ASSUME NEW g \in Gens, EndJoin(g)
      PROVE  VerdictInv'
  <2>1. marks' = marks
    BY <1>7 DEF EndJoin
  <2>2. CASE pumps[g].cycle = None
    BY <1>6, <1>7, <2>1, <2>2 DEF EndJoin, Succeeded
  <2>3. CASE pumps[g].cycle # None
    <3>1. Agent(pumps[g].cycle) \in Foreground
      BY <1>1, <2>3, ForegroundNames DEF TypeOK, PumpType
    <3>2. log' = Idled(Agent(pumps[g].cycle), "failed")
      BY <1>7, <2>3 DEF EndJoin
    <3> QED BY <1>1, <1>6, <2>1, <3>1, <3>2, IdledSucceeds
  <2> QED BY <2>2, <2>3
<1>8. CASE CloseIdle
  <2>1. marks' = marks
    BY <1>8 DEF CloseIdle
  <2>2. CASE log' = log
    BY <1>6, <2>1, <2>2 DEF Succeeded
  <2>3. CASE log' # log
    <3>1. session.cycle # None /\ log' = Idled(Agent(session.cycle), "cancelled")
      BY <1>8, <2>3 DEF CloseIdle
    <3>2. Agent(session.cycle) \in Foreground
      BY <1>1, <3>1, ForegroundNames DEF TypeOK, SessionType
    <3> QED BY <1>1, <1>6, <2>1, <3>1, <3>2, IdledSucceeds
  <2> QED BY <2>2, <2>3
<1>9. ASSUME log'.idles = log.idles
      PROVE  VerdictInv'
  <2>1. \A h \in Foreground : Succeeded(h)' <=> Succeeded(h)
    BY <1>9 DEF Succeeded
  <2>2. CASE marks' = marks
    BY <1>6, <2>1, <2>2
  <2>3. CASE Cancel
    <3>1. PICK f \in Current \ (marks.cancelled \cup marks.terminal) :
            marks' = [marks EXCEPT !.cancelled = @ \cup {f}]
      BY <2>3 DEF Cancel
    <3>2. /\ marks'.cancelled = marks.cancelled \cup {f}
          /\ marks'.terminal = marks.terminal
      BY <1>2, <3>1 DEF MarksType
    <3>3. f \in Foreground
      BY <1>1, ForegroundNames DEF Current, TypeOK, SessionType
    <3> QED BY <1>2, <1>3, <2>1, <3>1, <3>2, <3>3 DEF VerdictInv, MarksType
  <2>4. CASE Close \/ EstablishAbandon
    <3>1. marks'.terminal = marks.terminal /\ (marks' = marks \/ session'.closing)
      BY <1>1, <1>2, <2>4
         DEF Close, EstablishAbandon, BeginClose, MarksType, TypeOK, SessionType
    <3> QED BY <1>2, <1>6, <2>1, <3>1 DEF VerdictInv, MarksType
  <2>5. CASE \/ \E t \in Turns : Settle(t)
             \/ \E g \in Gens : CycleSettle(g)
    <3>1. marks'.cancelled = marks.cancelled /\ marks'.terminal = marks.terminal
      BY <1>2, <2>5 DEF Settle, CycleSettle, MarksType
    <3> QED BY <1>2, <1>3, <2>1, <3>1 DEF VerdictInv, MarksType
  <2> QED BY <1>4, <1>5, <2>2, <2>3, <2>4, <2>5, MarkSources DEF Marking
<1> QED BY <1>1, <1>4, <1>5, <1>7, <1>8, <1>9, IdleSources DEF Idling

(* A cancel that reached a foreground before its verdict was fixed is not  *)
(* answered with a success, for any number of foregrounds and cancels.     *)
THEOREM CancelWinsAlways == Spec => []CancelWins
<1>1. Init => VerdictInv
  BY DEF Init, VerdictInv, Succeeded
<1>2. VerdictInv => CancelWins
  BY DEF VerdictInv, CancelWins, Succeeded
<1>3. Spec => []TypeInv
  BY TypeInvariant
<1> QED BY <1>1, <1>2, <1>3, VerdictStep, PTL DEF Spec

=============================================================================
