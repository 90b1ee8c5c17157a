-------------------------- MODULE InterruptsProofs --------------------------
(***************************************************************************)
(* Proofs about interrupts, compaction waits and dialogs: every dialog is  *)
(* answered once and before its foreground's terminal idle, an interrupt   *)
(* spares the compaction it waited for, and its deadline is its own        *)
(* foreground's.                                                           *)
(***************************************************************************)
EXTENDS Interrupts, TLAPS

Asked    == {"budget", "call", "answered", "respond"}
Settling == {"settle", "dialogs", "join", "idle"}
Ending   == {"endDialogs", "endJoin"}

AbortsIdle     == \A k \in Interrupters : aborts[k].pc = "idle"
NoneRegistered == \A d \in Dialogs : ~dialogs[d].registered

(* A prompt in progress owns the turn; it settles once it was told that the*)
(* turn ended, and from then on pi's stream brings no dialog.              *)
PromptInv ==
  /\ prompt.pc # "none" => Turn
  /\ prompt.pc \in Settling => prompt.ended
  /\ prompt.pc \in {"dialogs", "join", "idle"} => session.settling
  /\ prompt.ended => pump.pc \in {"hold", "done"} \/ ~runtime.alive

(* What the pump holds at each of its points.                              *)
PumpInv ==
  /\ pump.pc = "register" =>
       /\ pump.dialog \in Dialogs /\ dialogs[pump.dialog].pc = "unasked"
       /\ ~prompt.ended
       /\ pump.fg = 0 \/ pump.fg = session.current \/ session.closing
  /\ pump.pc \in {"dialogs", "join", "idle"} /\ Cycle => session.settling
  /\ runtime.done => pump.pc = "done"
  /\ runtime.ending => pump.pc \in {"endDialogs", "endJoin", "endUnbind", "done"}

LadderInv == closer.pc # "none" => session.closing

(* A registered dialog belongs to the open foreground, or to the cycle that*)
(* an ending pump took over.                                               *)
DialogOK(d) ==
  /\ dialogs[d].registered <=> dialogs[d].pc \in Asked
  /\ dialogs[d].pc = "unasked" => dialogs[d].fg = 0
  /\ dialogs[d].action = "pending" => dialogs[d].pc \in {"call", "answered"}
  /\ dialogs[d].responses = IF dialogs[d].pc = "done" THEN 1 ELSE 0

Belongs(d) ==
  dialogs[d].registered =>
    /\ dialogs[d].fg # 0
    /\ \/ dialogs[d].fg = session.current
       \/ dialogs[d].fg = pump.fg /\ pump.pc \in Ending

DialogInv == \A d \in Dialogs : DialogOK(d) /\ Belongs(d)

(* A foreground that is over is neither open nor in an ending pump's hands.*)
OverInv ==
  /\ session.current <= session.opened
  /\ \A f \in over : f <= session.opened /\ f # session.current
  /\ pump.pc \in Ending /\ pump.fg # 0 =>
       pump.fg \notin over /\ pump.fg # session.current /\ pump.fg <= session.opened

(* What a join found stays until the idle it is for, and a foreground that *)
(* may open finds no interrupt under way.                                  *)
JoinedInv ==
  /\ prompt.pc = "idle" => NoneRegistered /\ AbortsIdle
  /\ pump.pc = "idle" => NoneRegistered /\ (Cycle => AbortsIdle)
  /\ closer.pc \notin {"none", "dialogs", "join", "done"} => NoneRegistered
  /\ session.current = 0 /\ session.bound /\ ~runtime.ending /\ ~session.closing
       => AbortsIdle
  /\ canceller.interrupts => aborts["cancel"].pc = "starting"

(* A wait is for a compaction that has started.                            *)
CompactionInv ==
  /\ runtime.compacting <= runtime.compactions
  /\ \A k \in Interrupters : aborts[k].on <= runtime.compactions
  /\ closer.on <= runtime.compactions

ControlInv == PromptInv /\ PumpInv /\ LadderInv

IInv ==
  /\ TypeOK /\ ControlInv /\ DialogInv /\ OverInv /\ JoinedInv
  /\ CompactionInv /\ InterruptSparesCompaction /\ DeadlineIsFresh

-----------------------------------------------------------------------------
(* What the shared pieces do.                                              *)

(* Everything but the end of its context stays as it was.                  *)
Same(d) ==
  /\ dialogs'[d].pc = dialogs[d].pc /\ dialogs'[d].fg = dialogs[d].fg
  /\ dialogs'[d].registered = dialogs[d].registered
  /\ dialogs'[d].action = dialogs[d].action
  /\ dialogs'[d].responses = dialogs[d].responses

LEMMA CancelDialogsFacts ==
  ASSUME TypeOK, CancelDialogs
  PROVE  dialogs' \in [Dialogs -> DialogType] /\ \A d \in Dialogs : Same(d)
<1>1. ASSUME NEW d \in Dialogs PROVE [dialogs[d] EXCEPT !.cancelled = TRUE] \in DialogType
  BY DEF TypeOK, DialogType
<1>2. dialogs' \in [Dialogs -> DialogType]
  BY <1>1 DEF TypeOK, CancelDialogs
<1>3. ASSUME NEW d \in Dialogs PROVE Same(d)
  <2>1. dialogs[d] \in DialogType
    BY DEF TypeOK
  <2>2. dialogs'[d] = dialogs[d] \/ dialogs'[d] = [dialogs[d] EXCEPT !.cancelled = TRUE]
    BY DEF CancelDialogs
  <2> QED
    BY <2>1, <2>2 DEF Same, DialogType
<1> QED
  BY <1>2, <1>3

(* One dialog takes the state e and the others keep theirs.                *)
LEMMA DialogBecomes ==
  ASSUME TypeOK, NEW d \in Dialogs, NEW e \in DialogType,
         dialogs' = [dialogs EXCEPT ![d] = e]
  PROVE  /\ dialogs' \in [Dialogs -> DialogType]
         /\ dialogs'[d] = e
         /\ \A o \in Dialogs \ {d} : dialogs'[o] = dialogs[o]
BY DEF TypeOK

LEMMA AnsweredState ==
  ASSUME NEW s \in DialogType, NEW e,
         e = [s EXCEPT !.pc = "done", !.registered = FALSE, !.cancelled = FALSE,
                       !.prompted = FALSE, !.responses = 1]
  PROVE  /\ e \in DialogType /\ e.pc = "done" /\ ~e.registered
         /\ e.fg = s.fg /\ e.responses = 1 /\ e.action = s.action
<1>1. e = [pc |-> "done", fg |-> s.fg, registered |-> FALSE, cancelled |-> FALSE,
           prompted |-> FALSE, action |-> s.action, responses |-> 1]
  BY DEF DialogType
<1>2. s.fg \in 0 .. MaxForegrounds /\ s.action \in {"none", "pending", "resolved"}
      /\ 1 \in 0 .. 2
  BY DEF DialogType
<1> QED
  BY <1>1, <1>2 DEF DialogType

LEMMA AnsweredFacts ==
  ASSUME TypeOK, NEW d \in Dialogs, dialogs[d].responses = 0, Answered(d)
  PROVE  /\ dialogs' \in [Dialogs -> DialogType]
         /\ dialogs'[d].pc = "done" /\ ~dialogs'[d].registered
         /\ dialogs'[d].fg = dialogs[d].fg /\ dialogs'[d].responses = 1
         /\ dialogs'[d].action = dialogs[d].action
         /\ \A o \in Dialogs \ {d} : dialogs'[o] = dialogs[o]
<1>1. PICK e : e = [dialogs[d] EXCEPT
                      !.pc = "done", !.registered = FALSE, !.cancelled = FALSE,
                      !.prompted = FALSE, !.responses = 1]
  OBVIOUS
<1>2. dialogs[d] \in DialogType /\ dialogs[d].responses + 1 = 1
  BY DEF TypeOK
<1>3. e \in DialogType /\ e.pc = "done" /\ ~e.registered /\ e.fg = dialogs[d].fg
      /\ e.responses = 1 /\ e.action = dialogs[d].action
  BY <1>1, <1>2, AnsweredState
<1>4. dialogs' = [dialogs EXCEPT ![d] = e]
  BY <1>1, <1>2 DEF Answered
<1> QED
  BY <1>3, <1>4, DialogBecomes

(* A dialog's own goroutine between registration and response: only its    *)
(* point and its action change.                                            *)
Works(d) ==
  /\ dialogs' \in [Dialogs -> DialogType]
  /\ dialogs[d].pc \in Asked /\ dialogs'[d].pc \in Asked
  /\ dialogs'[d].action = "pending" => dialogs'[d].pc \in {"call", "answered"}
  /\ dialogs'[d].registered = dialogs[d].registered
  /\ dialogs'[d].fg = dialogs[d].fg /\ dialogs'[d].responses = dialogs[d].responses
  /\ \A o \in Dialogs \ {d} : dialogs'[o] = dialogs[o]

LEMMA Sets ==
  ASSUME TypeOK, NEW d \in Dialogs, NEW pc \in {"call", "answered", "respond"},
         NEW action \in {"none", "pending", "resolved"},
         dialogs' = [dialogs EXCEPT ![d] = [dialogs[d] EXCEPT !.pc = pc, !.action = action]],
         dialogs[d].pc \in Asked,
         action = "pending" => pc \in {"call", "answered"}
  PROVE  Works(d)
<1>1. PICK e : e = [dialogs[d] EXCEPT !.pc = pc, !.action = action]
  OBVIOUS
<1>2. dialogs[d] \in DialogType
  BY DEF TypeOK
<1>a. e = [pc |-> pc, fg |-> dialogs[d].fg, registered |-> dialogs[d].registered,
           cancelled |-> dialogs[d].cancelled, prompted |-> dialogs[d].prompted,
           action |-> action, responses |-> dialogs[d].responses]
  BY <1>1, <1>2 DEF DialogType
<1>b. /\ dialogs[d].cancelled \in BOOLEAN /\ dialogs[d].prompted \in BOOLEAN
      /\ dialogs[d].registered \in BOOLEAN /\ dialogs[d].responses \in 0 .. 2
      /\ dialogs[d].fg \in 0 .. MaxForegrounds
  BY <1>2 DEF DialogType
<1>3. /\ e \in DialogType /\ e.pc = pc /\ e.action = action
      /\ e.registered = dialogs[d].registered /\ e.fg = dialogs[d].fg
      /\ e.responses = dialogs[d].responses
  BY <1>a, <1>b DEF DialogType
<1>4. dialogs' = [dialogs EXCEPT ![d] = e]
  BY <1>1
<1>5. pc \in Asked
  BY DEF Asked
<1> QED
  BY <1>3, <1>4, <1>5, DialogBecomes DEF Works

LEMMA DialogWorks ==
  ASSUME TypeOK, DialogInv, NEW d \in Dialogs,
         DialogCalls(d) \/ DialogEnds(d) \/ DialogResolves(d) \/ ClientAnswers(d)
  PROVE  Works(d)
<1>1. /\ DialogOK(d) /\ dialogs[d] \in DialogType
      /\ dialogs[d].action \in {"none", "pending", "resolved"}
  BY DEF DialogInv, TypeOK, DialogType
<1>2. CASE dialogs[d].pc = "budget" /\
           dialogs' = [dialogs EXCEPT ![d] = [dialogs[d] EXCEPT !.pc = "call", !.action = "pending"]]
  BY <1>2, Sets DEF Asked
<1>3. CASE dialogs[d].pc = "budget" /\ dialogs' = [dialogs EXCEPT ![d].pc = "respond"]
  <2>1. [dialogs[d] EXCEPT !.pc = "respond"]
        = [dialogs[d] EXCEPT !.pc = "respond", !.action = dialogs[d].action]
    BY <1>1 DEF DialogType
  <2>2. dialogs' = [dialogs EXCEPT ![d] =
                      [dialogs[d] EXCEPT !.pc = "respond", !.action = dialogs[d].action]]
    BY <1>3, <2>1
  <2> QED
    BY <1>1, <1>3, <2>2, Sets DEF Asked, DialogOK
<1>4. CASE dialogs[d].pc = "call" /\ dialogs' = [dialogs EXCEPT ![d].pc = "answered"]
  <2>1. [dialogs[d] EXCEPT !.pc = "answered"]
        = [dialogs[d] EXCEPT !.pc = "answered", !.action = dialogs[d].action]
    BY <1>1 DEF DialogType
  <2>2. dialogs' = [dialogs EXCEPT ![d] =
                      [dialogs[d] EXCEPT !.pc = "answered", !.action = dialogs[d].action]]
    BY <1>4, <2>1
  <2> QED
    BY <1>1, <1>4, <2>2, Sets DEF Asked, DialogOK
<1>5. CASE dialogs[d].pc = "answered" /\
           dialogs' = [dialogs EXCEPT ![d] = [dialogs[d] EXCEPT !.pc = "respond", !.action = "resolved"]]
  BY <1>5, Sets DEF Asked
<1> QED
  BY <1>2, <1>3, <1>4, <1>5
  DEF DialogCalls, DialogEnds, DialogResolves, ClientAnswers, Returned

LEMMA SetDeadlineType == TypeOK /\ SetDeadline => deadline' \in DeadlineType
BY DEF TypeOK, SetDeadline, DeadlineType, SessionType

(* The pump registers the dialog in its hands or answers it.               *)
Registers == Admits /\ pump.fg # 0 /\ ~pump.closing

LEMMA DialogRegistersFacts ==
  ASSUME TypeOK, PumpInv, DialogInv, DialogRegisters, NEW d, d = pump.dialog
  PROVE  /\ pump' \in PumpType /\ pump'.pc = "read" /\ pump'.fg = 0
         /\ dialogs' \in [Dialogs -> DialogType]
         /\ d \in Dialogs /\ DialogOK(d)'
         /\ \A o \in Dialogs \ {d} : dialogs'[o] = dialogs[o]
         /\ dialogs'[d].registered <=> Registers
         /\ Registers => dialogs'[d].fg = pump.fg
         /\ ~Registers => dialogs'[d].fg = 0
<1>2. d \in Dialogs /\ dialogs[d].pc = "unasked" /\ DialogOK(d) /\ dialogs[d] \in DialogType
  BY DEF PumpInv, DialogRegisters, DialogInv, TypeOK
<1>3. dialogs[d].fg = 0 /\ dialogs[d].responses = 0 /\ dialogs[d].action # "pending"
  BY <1>2 DEF DialogOK
<1>4. pump \in PumpType /\ pump.fg \in 0 .. MaxForegrounds
  BY DEF TypeOK, PumpType
<1>5. pump' \in PumpType /\ pump'.pc = "read" /\ pump'.fg = 0
  <2>1. pump' = [pc |-> "read", dialog |-> None, fg |-> 0, closing |-> FALSE]
    BY <1>4 DEF DialogRegisters, PumpType
  <2> QED
    BY <2>1, InterruptsAssumption DEF PumpType
<1>6. CASE Registers
  <2>1. PICK e : e = [dialogs[d] EXCEPT !.pc = "budget", !.registered = TRUE,
                                        !.fg = pump.fg, !.prompted = Turn]
    OBVIOUS
  <2>2. e = [pc |-> "budget", fg |-> pump.fg, registered |-> TRUE,
             cancelled |-> dialogs[d].cancelled, prompted |-> Turn,
             action |-> dialogs[d].action, responses |-> dialogs[d].responses]
    BY <1>2, <2>1 DEF DialogType
  <2>3. /\ dialogs[d].cancelled \in BOOLEAN /\ Turn \in BOOLEAN
        /\ dialogs[d].action \in {"none", "pending", "resolved"}
        /\ dialogs[d].responses \in 0 .. 2
    BY <1>2 DEF DialogType, Turn
  <2>4. e \in DialogType
    BY <1>4, <2>2, <2>3 DEF DialogType
  <2>5. dialogs' = [dialogs EXCEPT ![d] = e]
    BY <1>6, <2>1 DEF DialogRegisters, Registers
  <2>6. /\ dialogs' \in [Dialogs -> DialogType] /\ dialogs'[d] = e
        /\ \A o \in Dialogs \ {d} : dialogs'[o] = dialogs[o]
    BY <1>2, <2>4, <2>5, DialogBecomes
  <2>7. /\ dialogs'[d].registered /\ dialogs'[d].pc = "budget"
        /\ dialogs'[d].responses = 0 /\ dialogs'[d].action # "pending"
        /\ dialogs'[d].fg = pump.fg
    BY <1>3, <2>2, <2>6
  <2>8. DialogOK(d)'
    BY <2>7 DEF DialogOK, Asked
  <2> QED
    BY <1>2, <1>5, <1>6, <2>6, <2>7, <2>8
<1>7. CASE ~Registers
  <2>1. Answered(d)
    BY <1>7 DEF DialogRegisters, Registers
  <2>2. /\ dialogs' \in [Dialogs -> DialogType]
        /\ dialogs'[d].pc = "done" /\ ~dialogs'[d].registered
        /\ dialogs'[d].fg = 0 /\ dialogs'[d].responses = 1
        /\ dialogs'[d].action # "pending"
        /\ \A o \in Dialogs \ {d} : dialogs'[o] = dialogs[o]
    BY <1>2, <1>3, <2>1, AnsweredFacts
  <2>3. DialogOK(d)'
    BY <2>2 DEF DialogOK, Asked
  <2> QED
    BY <1>2, <1>5, <1>7, <2>2, <2>3
<1> QED
  BY <1>6, <1>7

(* A foreground opens, and the session gives one up.                       *)
LEMMA OpenFacts ==
  ASSUME TypeOK, NEW origin \in {"prompt", "agent"}, Open(origin)
  PROVE  /\ session' \in SessionType /\ deadline' \in DeadlineType
         /\ session.current = 0 /\ session'.current = session.opened + 1
         /\ session'.opened = session.opened + 1 /\ session'.origin = origin
         /\ session'.closing = session.closing /\ session'.bound = session.bound
         /\ session'.settling = session.settling
         /\ session'.cancelled = session.cancelled
         /\ deadline'.at = "unset"
<1>1. session \in SessionType
  BY DEF TypeOK
<1>2. session' = [closing |-> session.closing, bound |-> session.bound,
        current |-> session.opened + 1, opened |-> session.opened + 1,
        origin |-> origin, cancelled |-> session.cancelled,
        settling |-> session.settling, turnDone |-> session.turnDone]
  BY <1>1 DEF Open, SessionType
<1>3. /\ session.closing \in BOOLEAN /\ session.bound \in BOOLEAN
      /\ session.opened + 1 \in 0 .. MaxForegrounds
      /\ session.cancelled \in BOOLEAN /\ session.settling \in BOOLEAN
      /\ session.turnDone \in BOOLEAN
  BY <1>1, InterruptsAssumption DEF Open, SessionType
<1>4. session' \in SessionType
  BY <1>2, <1>3 DEF SessionType
<1>5. deadline' \in DeadlineType /\ deadline'.at = "unset"
  BY InterruptsAssumption DEF Open, DeadlineType
<1> QED
  BY <1>2, <1>4, <1>5 DEF Open

LEMMA IdleFacts ==
  ASSUME TypeOK, session.current # 0, Idle
  PROVE  /\ session' \in SessionType /\ over' \subseteq Foregrounds
         /\ session'.current = 0 /\ session'.opened = session.opened
         /\ session'.closing = session.closing /\ session'.bound = session.bound
         /\ session'.settling = FALSE /\ session'.cancelled = FALSE
         /\ over' = over \cup {session.current}
<1>1. session \in SessionType
  BY DEF TypeOK
<1>2. session' = [closing |-> session.closing, bound |-> session.bound,
        current |-> 0, opened |-> session.opened, origin |-> "prompt",
        cancelled |-> FALSE, settling |-> FALSE, turnDone |-> FALSE]
  BY <1>1 DEF Idle, SessionType
<1>3. /\ session.closing \in BOOLEAN /\ session.bound \in BOOLEAN
      /\ session.opened \in 0 .. MaxForegrounds /\ 0 \in 0 .. MaxForegrounds
  BY <1>1, InterruptsAssumption DEF SessionType
<1>4. session' \in SessionType
  BY <1>2, <1>3 DEF SessionType
<1>5. session.current \in Foregrounds
  BY <1>1, InterruptsAssumption DEF SessionType, Foregrounds
<1> QED
  BY <1>2, <1>4, <1>5 DEF Idle, TypeOK

(* The ending pump takes the cycle over or leaves the session as it is.    *)
Takes == session.bound /\ ~session.closing /\ Cycle

LEMMA RuntimeEndsFacts ==
  ASSUME TypeOK, RuntimeEnds
  PROVE  /\ session' \in SessionType /\ pump' \in PumpType
         /\ pump'.pc = IF session.bound THEN "endDialogs" ELSE "endUnbind"
         /\ pump'.fg = IF Takes THEN session.current ELSE 0
         /\ session'.current = IF Takes THEN 0 ELSE session.current
         /\ session'.opened = session.opened /\ session'.origin = session.origin
         /\ session'.closing = session.closing /\ session'.bound = session.bound
         /\ session'.settling = session.settling
<1>1. session \in SessionType /\ pump \in PumpType
  BY DEF TypeOK
<1>2. pump' = [pc |-> IF session.bound THEN "endDialogs" ELSE "endUnbind",
               dialog |-> pump.dialog, fg |-> IF Takes THEN session.current ELSE 0,
               closing |-> pump.closing]
  BY <1>1 DEF RuntimeEnds, PumpType, Takes
<1>3. session.current \in 0 .. MaxForegrounds /\ 0 \in 0 .. MaxForegrounds
      /\ pump.dialog \in Dialogs \cup {None} /\ pump.closing \in BOOLEAN
  BY <1>1, InterruptsAssumption DEF SessionType, PumpType
<1>4. pump' \in PumpType
  BY <1>2, <1>3 DEF PumpType
<1>a. session' = IF Takes THEN [session EXCEPT !.current = 0, !.cancelled = FALSE]
                 ELSE session
  BY DEF RuntimeEnds, Takes
<1>5. Takes => session' =
        [closing |-> session.closing, bound |-> session.bound, current |-> 0,
         opened |-> session.opened, origin |-> session.origin, cancelled |-> FALSE,
         settling |-> session.settling, turnDone |-> session.turnDone]
  <2>1. SUFFICES ASSUME session' = [session EXCEPT !.current = 0, !.cancelled = FALSE]
        PROVE session' =
        [closing |-> session.closing, bound |-> session.bound, current |-> 0,
         opened |-> session.opened, origin |-> session.origin, cancelled |-> FALSE,
         settling |-> session.settling, turnDone |-> session.turnDone]
    BY <1>a
  <2> QED
    BY <1>1, <2>1 DEF SessionType
<1>6. /\ session.closing \in BOOLEAN /\ session.bound \in BOOLEAN
      /\ session.opened \in 0 .. MaxForegrounds /\ session.origin \in {"prompt", "agent"}
      /\ session.settling \in BOOLEAN /\ session.turnDone \in BOOLEAN
  BY <1>1 DEF SessionType
<1>7. session' \in SessionType
  BY <1>1, <1>3, <1>a, <1>5, <1>6 DEF SessionType
<1> QED
  BY <1>2, <1>4, <1>a, <1>5, <1>7

LEMMA EndJoinsFacts ==
  ASSUME TypeOK, EndJoins
  PROVE  pump' \in PumpType /\ pump'.pc = "endUnbind" /\ pump'.fg = 0
<1>1. pump \in PumpType
  BY DEF TypeOK
<1>2. pump' = [pc |-> "endUnbind", dialog |-> pump.dialog, fg |-> 0,
               closing |-> pump.closing]
  BY <1>1 DEF EndJoins, PumpType
<1>3. pump.dialog \in Dialogs \cup {None} /\ pump.closing \in BOOLEAN
      /\ 0 \in 0 .. MaxForegrounds
  BY <1>1, InterruptsAssumption DEF PumpType
<1> QED
  BY <1>2, <1>3 DEF PumpType

LEMMA CompactionStartsFacts ==
  ASSUME TypeOK, CompactionStarts
  PROVE  /\ runtime' \in RuntimeType
         /\ runtime'.compacting = runtime.compactions + 1
         /\ runtime'.compactions = runtime.compactions + 1
         /\ runtime'.alive = runtime.alive /\ runtime'.ending = runtime.ending
         /\ runtime'.done = runtime.done /\ runtime'.ctxDone = runtime.ctxDone
<1>1. runtime \in RuntimeType
  BY DEF TypeOK
<1>2. PICK n : n = runtime.compactions + 1
  OBVIOUS
<1>3. runtime' = [runtime EXCEPT !.compactions = n, !.compacting = n]
  BY <1>2 DEF CompactionStarts
<1>4. runtime' = [alive |-> runtime.alive, ending |-> runtime.ending,
                  done |-> runtime.done, ctxDone |-> runtime.ctxDone,
                  compacting |-> n, compactions |-> n]
  BY <1>1, <1>3 DEF RuntimeType
<1>5. n \in Compactions
  BY <1>1, <1>2, InterruptsAssumption DEF CompactionStarts, RuntimeType, Compactions
<1>6. /\ runtime.alive \in BOOLEAN /\ runtime.ending \in BOOLEAN
      /\ runtime.done \in BOOLEAN /\ runtime.ctxDone \in BOOLEAN
  BY <1>1 DEF RuntimeType
<1>7. runtime' \in RuntimeType
  BY <1>4, <1>5, <1>6 DEF RuntimeType
<1> QED
  BY <1>2, <1>4, <1>7

LEMMA CloserFacts ==
  ASSUME TypeOK, CloseWrites \/ CloseStops
  PROVE  closer' \in CloserType
<1>1. closer \in CloserType
  BY DEF TypeOK
<1>2. closer.turn \in BOOLEAN /\ closer.bound \in BOOLEAN /\ closer.ctxDone \in BOOLEAN
      /\ 0 \in Compactions
  BY <1>1, InterruptsAssumption DEF CloserType, Compactions
<1>3. CASE CloseWrites
  <2>1. closer' = [pc |-> AfterTurn, turn |-> closer.turn, bound |-> closer.bound,
                   ctxDone |-> closer.ctxDone, on |-> 0]
    <3>1. PICK pc : pc = AfterTurn
      OBVIOUS
    <3>2. closer' = [closer EXCEPT !.pc = pc, !.on = 0]
      BY <1>3, <3>1 DEF CloseWrites
    <3> QED
      BY <1>1, <3>1, <3>2 DEF CloserType
  <2>2. AfterTurn \in {"stopCheck", "idle"}
    BY DEF AfterTurn
  <2> QED
    BY <1>2, <2>1, <2>2 DEF CloserType
<1>4. CASE CloseStops
  <2>1. closer' = [pc |-> "stopJoin", turn |-> closer.turn, bound |-> closer.bound,
                   ctxDone |-> FALSE, on |-> 0]
    BY <1>1, <1>4 DEF CloseStops, CloserType
  <2> QED
    BY <1>2, <2>1 DEF CloserType
<1> QED
  BY <1>3, <1>4

LEMMA TypePrompt == TypeOK /\ PromptInv /\ PromptStep => TypeOK'
<1> SUFFICES ASSUME TypeOK, PromptInv, PromptStep PROVE TypeOK'
  OBVIOUS
<1>1. ASSUME PromptWaits PROVE TypeOK'
  <2>1. prompt' \in PromptType
    BY <1>1, InterruptsAssumption DEF TypeOK, PromptWaits, PromptAt, PromptType, Compactions
  <2> QED
    BY <1>1, <2>1 DEF PromptWaits, TypeOK
<1>2. ASSUME PromptChecks PROVE TypeOK'
  <2>1. deadline' \in DeadlineType
    BY <1>2, SetDeadlineType DEF PromptChecks
  <2>2. prompt' \in PromptType
    BY <1>2, InterruptsAssumption DEF TypeOK, PromptChecks, PromptType, RuntimeType, Compactions
  <2> QED
    BY <1>2, <2>1, <2>2 DEF PromptChecks, TypeOK
<1>3. ASSUME PromptAwaits PROVE TypeOK'
  <2>1. prompt' \in PromptType
    <3>1. prompt \in PromptType
      BY DEF TypeOK
    <3>2. prompt' = [pc |-> "grace", on |-> 0, ended |-> prompt.ended]
      BY <1>3, <3>1 DEF PromptAwaits, PromptType
    <3>3. prompt.ended \in BOOLEAN /\ 0 \in Compactions
      BY <3>1, InterruptsAssumption DEF PromptType, Compactions
    <3> QED
      BY <3>2, <3>3 DEF PromptType
  <2> QED
    BY <1>3, <2>1 DEF PromptAwaits, TypeOK
<1>4. ASSUME PromptGrace PROVE TypeOK'
  <2>1. runtime' \in RuntimeType
    BY <1>4, InterruptsAssumption DEF TypeOK, PromptGrace, RuntimeType, Compactions
  <2>2. prompt' \in PromptType
    BY <1>4, InterruptsAssumption DEF TypeOK, PromptGrace, PromptAt, PromptType, Compactions
  <2> QED
    BY <1>4, <2>1, <2>2 DEF PromptGrace, TypeOK
<1>5. ASSUME PromptStopped PROVE TypeOK'
  <2>1. session' \in SessionType
    BY <1>5 DEF TypeOK, PromptStopped, SessionType
  <2>2. prompt' \in PromptType
    BY <1>5, InterruptsAssumption DEF TypeOK, PromptStopped, PromptType, RuntimeType, Compactions
  <2> QED
    BY <1>5, <2>1, <2>2 DEF PromptStopped, TypeOK
<1>6. ASSUME PromptSettles PROVE TypeOK'
  <2>1. session' \in SessionType
    BY <1>6 DEF TypeOK, PromptSettles, SessionType
  <2>2. prompt' \in PromptType
    BY <1>6, InterruptsAssumption DEF TypeOK, PromptSettles, PromptAt, PromptType, Compactions
  <2> QED
    BY <1>6, <2>1, <2>2 DEF PromptSettles, TypeOK
<1>7. ASSUME PromptCancelsDialogs PROVE TypeOK'
  <2>1. prompt' \in PromptType
    BY <1>7, InterruptsAssumption DEF TypeOK, PromptCancelsDialogs, PromptAt, PromptType, Compactions
  <2>2. dialogs' \in [Dialogs -> DialogType]
    BY <1>7, CancelDialogsFacts DEF PromptCancelsDialogs
  <2> QED
    BY <1>7, <2>1, <2>2 DEF PromptCancelsDialogs, TypeOK
<1>8. ASSUME PromptJoins PROVE TypeOK'
  <2>1. prompt' \in PromptType
    BY <1>8, InterruptsAssumption DEF TypeOK, PromptJoins, PromptAt, PromptType, Compactions
  <2> QED
    BY <1>8, <2>1 DEF PromptJoins, TypeOK
<1>9. ASSUME PromptEnds PROVE TypeOK'
  <2>1. session' \in SessionType /\ over' \subseteq Foregrounds
    BY <1>9, IdleFacts DEF PromptEnds, PromptInv, Turn
  <2>2. prompt' \in PromptType
    BY <1>9, InterruptsAssumption DEF TypeOK, PromptEnds, PromptType, Compactions
  <2> QED
    BY <1>9, <2>1, <2>2 DEF PromptEnds, TypeOK
<1> QED
  BY <1>1, <1>2, <1>3, <1>4, <1>5, <1>6, <1>7, <1>8, <1>9 DEF PromptStep

LEMMA TypeClose == TypeOK /\ CloseStep => TypeOK'
<1> SUFFICES ASSUME TypeOK, CloseStep PROVE TypeOK'
  OBVIOUS
<1>1. ASSUME CloseCancelsDialogs PROVE TypeOK'
  <2>1. closer' \in CloserType
    BY <1>1, InterruptsAssumption DEF TypeOK, CloseCancelsDialogs, CloseAt, CloserType, Compactions
  <2>2. dialogs' \in [Dialogs -> DialogType]
    BY <1>1, CancelDialogsFacts DEF CloseCancelsDialogs
  <2> QED
    BY <1>1, <2>1, <2>2 DEF CloseCancelsDialogs, TypeOK
<1>2. ASSUME CloseJoins PROVE TypeOK'
  <2>1. closer' \in CloserType
    BY <1>2, InterruptsAssumption DEF TypeOK, CloseJoins, AfterTurn, CloserType, Compactions
  <2> QED
    BY <1>2, <2>1 DEF CloseJoins, TypeOK
<1>3. ASSUME CloseChecks PROVE TypeOK'
  <2>1. deadline' \in DeadlineType
    BY <1>3, SetDeadlineType DEF CloseChecks
  <2>2. closer' \in CloserType
    BY <1>3, InterruptsAssumption DEF TypeOK, CloseChecks, CloserType, RuntimeType, Compactions
  <2> QED
    BY <1>3, <2>1, <2>2 DEF CloseChecks, TypeOK
<1>4. ASSUME CloseAwaits PROVE TypeOK'
  <2>1. closer' \in CloserType
    BY <1>4, InterruptsAssumption DEF TypeOK, CloseAwaits, CloseAt, CloserType, Compactions
  <2> QED
    BY <1>4, <2>1 DEF CloseAwaits, TypeOK
<1>5. ASSUME CloseWrites PROVE TypeOK'
  <2>1. closer' \in CloserType
    BY <1>5, CloserFacts
  <2> QED
    BY <1>5, <2>1 DEF CloseWrites, TypeOK
<1>6. ASSUME CloseStops PROVE TypeOK'
  <2>1. runtime' \in RuntimeType
    BY <1>6, InterruptsAssumption DEF TypeOK, CloseStops, RuntimeType, Compactions
  <2>2. closer' \in CloserType
    BY <1>6, CloserFacts
  <2> QED
    BY <1>6, <2>1, <2>2 DEF CloseStops, TypeOK
<1>7. ASSUME CloseStopped PROVE TypeOK'
  <2>1. closer' \in CloserType
    BY <1>7, InterruptsAssumption DEF TypeOK, CloseStopped, CloseAt, CloserType, RuntimeType, Compactions
  <2> QED
    BY <1>7, <2>1 DEF CloseStopped, TypeOK
<1>8. ASSUME CloseIdles PROVE TypeOK'
  <2>1. session' \in SessionType /\ over' \subseteq Foregrounds
    BY <1>8, IdleFacts DEF CloseIdles, TypeOK, Cycle
  <2>2. closer' \in CloserType
    BY <1>8, InterruptsAssumption DEF TypeOK, CloseIdles, Cycle, CloserType, Compactions
  <2> QED
    BY <1>8, <2>1, <2>2 DEF CloseIdles, TypeOK
<1> QED
  BY <1>1, <1>2, <1>3, <1>4, <1>5, <1>6, <1>7, <1>8 DEF CloseStep

LEMMA TypeEnvironment == TypeOK /\ DialogInv /\ Environment => TypeOK'
<1> SUFFICES ASSUME TypeOK, DialogInv, Environment PROVE TypeOK'
  OBVIOUS
<1>1. ASSUME PromptBegins PROVE TypeOK'
  <2>1. session' \in SessionType /\ deadline' \in DeadlineType
    BY <1>1, OpenFacts DEF PromptBegins
  <2>2. prompt' \in PromptType
    BY <1>1, InterruptsAssumption DEF TypeOK, PromptBegins, PromptType, RuntimeType, Compactions
  <2> QED
    BY <1>1, <2>1, <2>2 DEF PromptBegins, TypeOK
<1>2. ASSUME Cancel PROVE TypeOK'
  <2>1. session' \in SessionType
    BY <1>2 DEF TypeOK, Cancel, Turn, SessionType
  <2>2. canceller' \in CancellerType
    BY <1>2 DEF TypeOK, Cancel, Turn, CancellerType, SessionType, RuntimeType
  <2>3. aborts' \in [Interrupters -> AbortType]
    BY <1>2 DEF TypeOK, Cancel, Turn, AbortType, Interrupters, RuntimeType, Compactions
  <2> QED
    BY <1>2, <2>1, <2>2, <2>3 DEF Cancel, TypeOK
<1>3. ASSUME Close PROVE TypeOK'
  <2>1. session' \in SessionType
    BY <1>3 DEF TypeOK, Close, Turn, SessionType
  <2>2. closer' \in CloserType
    BY <1>3, InterruptsAssumption DEF TypeOK, Close, Turn, CloserType, SessionType, Compactions
  <2> QED
    BY <1>3, <2>1, <2>2 DEF Close, TypeOK
<1>4. ASSUME CloseCtxEnds PROVE TypeOK'
  <2>1. closer' \in CloserType
    BY <1>4, InterruptsAssumption DEF TypeOK, CloseCtxEnds, CloserType, Compactions
  <2> QED
    BY <1>4, <2>1 DEF CloseCtxEnds, TypeOK
<1>5. ASSUME AgentStarts PROVE TypeOK'
  <2>1. session' \in SessionType /\ deadline' \in DeadlineType
    BY <1>5, OpenFacts DEF AgentStarts
  <2> QED
    BY <1>5, <2>1 DEF AgentStarts, TypeOK
<1>6. ASSUME CompactionStarts PROVE TypeOK'
  <2>1. runtime' \in RuntimeType
    BY <1>6, CompactionStartsFacts
  <2> QED
    BY <1>6, <2>1 DEF CompactionStarts, TypeOK
<1>7. ASSUME CompactionEnds PROVE TypeOK'
  <2>1. runtime' \in RuntimeType
    BY <1>7, InterruptsAssumption DEF TypeOK, CompactionEnds, RuntimeType, SessionType, Compactions
  <2> QED
    BY <1>7, <2>1 DEF CompactionEnds, TypeOK
<1>8. ASSUME Settled PROVE TypeOK'
  <2>1. runtime' \in RuntimeType
    BY <1>8, InterruptsAssumption DEF TypeOK, Settled, SettledTracks, Turn, RuntimeType, SessionType, Compactions
  <2>2. prompt' \in PromptType
    BY <1>8, InterruptsAssumption DEF TypeOK, Settled, Turn, PromptType, Compactions
  <2>3. pump' \in PumpType
    BY <1>8, InterruptsAssumption DEF TypeOK, Settled, PumpAt, Turn, PumpType, SessionType
  <2> QED
    BY <1>8, <2>1, <2>2, <2>3 DEF Settled, TypeOK
<1>9. ASSUME PiDies PROVE TypeOK'
  <2>1. runtime' \in RuntimeType
    BY <1>9, InterruptsAssumption DEF TypeOK, PiDies, RuntimeType, Compactions
  <2> QED
    BY <1>9, <2>1 DEF PiDies, TypeOK
<1>10. ASSUME ExtensionFails PROVE TypeOK'
  <2>1. aborts' \in [Interrupters -> AbortType]
    BY <1>10 DEF TypeOK, ExtensionFails, AbortType, Interrupters, Compactions
  <2> QED
    BY <1>10, <2>1 DEF ExtensionFails, TypeOK
<1>11. ASSUME NEW d \in Dialogs, PiAsks(d) PROVE TypeOK'
  <2>1. pump' \in PumpType
    BY <1>11 DEF TypeOK, PiAsks, PumpType, SessionType
  <2> QED
    BY <1>11, <2>1 DEF PiAsks, TypeOK
<1>12. ASSUME NEW d \in Dialogs, ClientAnswers(d) PROVE TypeOK'
  <2>1. dialogs' \in [Dialogs -> DialogType]
    BY <1>12, DialogWorks DEF Works
  <2> QED
    BY <1>12, <2>1 DEF ClientAnswers, Returned, TypeOK
<1> QED
  BY <1>1, <1>2, <1>3, <1>4, <1>5, <1>6, <1>7, <1>8, <1>9, <1>10, <1>11, <1>12
  DEF Environment

LEMMA TypePump == TypeOK /\ PumpInv /\ DialogInv /\ PumpStep => TypeOK'
<1> SUFFICES ASSUME TypeOK, PumpInv, DialogInv, PumpStep PROVE TypeOK'
  OBVIOUS
<1>1. ASSUME HoldEnds PROVE TypeOK'
  <2>1. pump' \in PumpType
    BY <1>1, InterruptsAssumption DEF TypeOK, HoldEnds, PumpAt, PumpType
  <2> QED
    BY <1>1, <2>1 DEF HoldEnds, TypeOK
<1>2. ASSUME CycleSettles PROVE TypeOK'
  <2>1. session' \in SessionType
    BY <1>2 DEF TypeOK, CycleSettles, Cycle, SessionType
  <2>2. pump' \in PumpType
    BY <1>2, InterruptsAssumption DEF TypeOK, CycleSettles, PumpAt, Cycle, PumpType
  <2> QED
    BY <1>2, <2>1, <2>2 DEF CycleSettles, TypeOK
<1>3. ASSUME CycleCancelsDialogs PROVE TypeOK'
  <2>1. pump' \in PumpType
    BY <1>3, InterruptsAssumption DEF TypeOK, CycleCancelsDialogs, PumpAt, PumpType
  <2>2. dialogs' \in [Dialogs -> DialogType]
    BY <1>3, CancelDialogsFacts DEF CycleCancelsDialogs
  <2> QED
    BY <1>3, <2>1, <2>2 DEF CycleCancelsDialogs, TypeOK
<1>4. ASSUME CycleJoins PROVE TypeOK'
  <2>1. pump' \in PumpType
    BY <1>4, InterruptsAssumption DEF TypeOK, CycleJoins, PumpAt, PumpType
  <2> QED
    BY <1>4, <2>1 DEF CycleJoins, TypeOK
<1>5. ASSUME CycleEnds PROVE TypeOK'
  <2>1. session' \in SessionType /\ over' \subseteq Foregrounds
    BY <1>5, IdleFacts DEF CycleEnds, TypeOK, Cycle
  <2>2. pump' \in PumpType
    BY <1>5, InterruptsAssumption DEF TypeOK, CycleEnds, PumpAt, Cycle, PumpType
  <2> QED
    BY <1>5, <2>1, <2>2 DEF CycleEnds, TypeOK
<1>6. ASSUME RuntimeEnds PROVE TypeOK'
  <2>1. session' \in SessionType /\ pump' \in PumpType
    BY <1>6, RuntimeEndsFacts
  <2>2. runtime' \in RuntimeType
    BY <1>6, InterruptsAssumption DEF TypeOK, RuntimeEnds, Cycle, RuntimeType, SessionType, Compactions
  <2> QED
    BY <1>6, <2>1, <2>2 DEF RuntimeEnds, TypeOK
<1>7. ASSUME EndCancelsDialogs PROVE TypeOK'
  <2>1. pump' \in PumpType
    BY <1>7, InterruptsAssumption DEF TypeOK, EndCancelsDialogs, PumpAt, PumpType
  <2>2. dialogs' \in [Dialogs -> DialogType]
    BY <1>7, CancelDialogsFacts DEF EndCancelsDialogs
  <2> QED
    BY <1>7, <2>1, <2>2 DEF EndCancelsDialogs, TypeOK
<1>8. ASSUME EndJoins PROVE TypeOK'
  <2>1. pump' \in PumpType /\ over' \subseteq Foregrounds
    BY <1>8, EndJoinsFacts, InterruptsAssumption DEF EndJoins, TypeOK, PumpType, Foregrounds
  <2> QED
    BY <1>8, <2>1 DEF EndJoins, TypeOK
<1>9. ASSUME EndUnbinds PROVE TypeOK'
  <2>1. session' \in SessionType
    BY <1>9 DEF TypeOK, EndUnbinds, Turn, SessionType
  <2>2. runtime' \in RuntimeType
    BY <1>9, InterruptsAssumption DEF TypeOK, EndUnbinds, Turn, RuntimeType, Compactions
  <2>3. prompt' \in PromptType
    BY <1>9, InterruptsAssumption DEF TypeOK, EndUnbinds, Turn, PromptType, Compactions
  <2>4. pump' \in PumpType
    BY <1>9, InterruptsAssumption DEF TypeOK, EndUnbinds, PumpAt, Turn, PumpType
  <2> QED
    BY <1>9, <2>1, <2>2, <2>3, <2>4 DEF EndUnbinds, TypeOK
<1>10. ASSUME DialogRegisters PROVE TypeOK'
  <2>1. pump' \in PumpType /\ dialogs' \in [Dialogs -> DialogType]
    BY <1>10, DialogRegistersFacts
  <2> QED
    BY <1>10, <2>1 DEF DialogRegisters, TypeOK
<1> QED
  BY <1>1, <1>2, <1>3, <1>4, <1>5, <1>6, <1>7, <1>8, <1>9, <1>10 DEF PumpStep

LEMMA TypeRest == TypeOK /\ (DeadlinePasses \/ StopTimesOut \/ CancelReachesDialogs) => TypeOK'
<1> SUFFICES ASSUME TypeOK, (DeadlinePasses \/ StopTimesOut \/ CancelReachesDialogs) PROVE TypeOK'
  OBVIOUS
<1>1. ASSUME DeadlinePasses PROVE TypeOK'
  <2>1. deadline' \in DeadlineType
    BY <1>1, InterruptsAssumption DEF TypeOK, DeadlinePasses, DeadlineType
  <2> QED
    BY <1>1, <2>1 DEF DeadlinePasses, TypeOK
<1>2. ASSUME StopTimesOut PROVE TypeOK'
  <2>1. runtime' \in RuntimeType
    BY <1>2, InterruptsAssumption DEF TypeOK, StopTimesOut, RuntimeType, Compactions
  <2> QED
    BY <1>2, <2>1 DEF StopTimesOut, TypeOK
<1>3. ASSUME CancelReachesDialogs PROVE TypeOK'
  <2>1. canceller' \in CancellerType
    BY <1>3 DEF TypeOK, CancelReachesDialogs, CancellerType
  <2>2. aborts' \in [Interrupters -> AbortType]
    BY <1>3 DEF TypeOK, CancelReachesDialogs, AbortType, Interrupters, Compactions
  <2>3. dialogs' \in [Dialogs -> DialogType]
    BY <1>3, CancelDialogsFacts DEF CancelReachesDialogs
  <2> QED
    BY <1>3, <2>1, <2>2, <2>3 DEF CancelReachesDialogs, TypeOK
<1> QED
  BY <1>1, <1>2, <1>3

LEMMA TypeDialog ==
  ASSUME TypeOK, DialogInv, NEW d \in Dialogs, DialogStep(d)
  PROVE  TypeOK'
<1>1. CASE DialogCalls(d) \/ DialogEnds(d) \/ DialogResolves(d)
  <2>1. dialogs' \in [Dialogs -> DialogType]
    BY <1>1, DialogWorks DEF Works
  <2> QED
    BY <1>1, <2>1 DEF DialogCalls, DialogEnds, DialogResolves, Returned, TypeOK
<1>2. CASE DialogDismissed(d) \/ DialogResponds(d)
  <2>1. Answered(d) /\ dialogs[d].responses = 0
    BY <1>2 DEF DialogDismissed, DialogResponds, DialogInv, DialogOK
  <2>2. dialogs' \in [Dialogs -> DialogType]
    BY <2>1, AnsweredFacts
  <2> QED
    BY <1>2, <2>2 DEF DialogDismissed, DialogResponds, TypeOK
<1> QED
  BY <1>1, <1>2 DEF DialogStep

LEMMA TypeAbort ==
  ASSUME TypeOK, NEW k \in Interrupters, AbortStep(k)
  PROVE  TypeOK'
<1>1. runtime.compacting \in Compactions /\ 0 \in Compactions
  BY InterruptsAssumption DEF TypeOK, RuntimeType, Compactions
<1>2. CASE AbortChecks(k)
  <2>1. aborts' \in [Interrupters -> AbortType]
    BY <1>1, <1>2 DEF AbortChecks, TypeOK, AbortType
  <2> QED
    BY <1>2, <2>1, SetDeadlineType DEF AbortChecks, TypeOK
<1>3. CASE AbortAwaits(k)
  <2>1. aborts' \in [Interrupters -> AbortType]
    BY <1>3 DEF AbortAwaits, TypeOK, AbortType
  <2> QED
    BY <1>3, <2>1 DEF AbortAwaits, TypeOK
<1>4. CASE AbortWrites(k)
  <2>1. aborts' \in [Interrupters -> AbortType]
    BY <1>1, <1>4 DEF AbortWrites, TypeOK, AbortType
  <2> QED
    BY <1>4, <2>1 DEF AbortWrites, TypeOK
<1> QED
  BY <1>2, <1>3, <1>4 DEF AbortStep

LEMMA TypeStep ==
  TypeOK /\ PromptInv /\ PumpInv /\ DialogInv /\ [Next]_vars => TypeOK'
<1>1. TypeOK /\ UNCHANGED vars => TypeOK'
  BY DEF vars, TypeOK
<1> QED
  BY <1>1, TypePrompt, TypeClose, TypeEnvironment, TypePump, TypeRest, TypeDialog,
     TypeAbort
  DEF Next

-----------------------------------------------------------------------------
(* One lemma for each part of the invariant.                               *)

(* A prompt is told that it ended only while the pump stands still, and   *)
(* settles only then.                                                      *)
LEMMA PromptStepInv ==
  TypeOK /\ PromptInv /\ PumpInv /\ LadderInv /\ [Next]_vars => PromptInv'
<1> SUFFICES ASSUME TypeOK, PromptInv, PumpInv, LadderInv, [Next]_vars
    PROVE  PromptInv'
  OBVIOUS
<1>0. ASSUME UNCHANGED <<session, prompt, pump, runtime>> PROVE PromptInv'
  BY <1>0 DEF PromptInv, Turn
<1>1. ASSUME PromptWaits PROVE PromptInv'
  BY <1>1
  DEF PromptWaits, PromptAt, PromptInv, Turn, Settling, TypeOK, SessionType,
     PromptType, PumpType, RuntimeType
<1>2. ASSUME PromptChecks PROVE PromptInv'
  BY <1>2
  DEF PromptChecks, PromptInv, Turn, Settling, TypeOK, SessionType, PromptType,
     PumpType, RuntimeType
<1>3. ASSUME PromptAwaits PROVE PromptInv'
  BY <1>3
  DEF PromptAwaits, PromptInv, Turn, Settling, TypeOK, SessionType, PromptType,
     PumpType, RuntimeType
<1>4. ASSUME PromptGrace PROVE PromptInv'
  BY <1>4
  DEF PromptGrace, PromptAt, PromptInv, Turn, Settling, TypeOK, SessionType,
     PromptType, PumpType, RuntimeType
<1>5. ASSUME PromptStopped PROVE PromptInv'
  BY <1>5
  DEF PromptStopped, PumpInv, PromptInv, Turn, Settling, TypeOK, SessionType,
     PromptType, PumpType, RuntimeType
<1>6. ASSUME PromptSettles PROVE PromptInv'
  BY <1>6
  DEF PromptSettles, PromptAt, PromptInv, Turn, Settling, TypeOK, SessionType,
     PromptType, PumpType, RuntimeType
<1>7. ASSUME PromptCancelsDialogs PROVE PromptInv'
  BY <1>7
  DEF PromptCancelsDialogs, PromptAt, PromptInv, Turn, Settling, TypeOK,
     SessionType, PromptType, PumpType, RuntimeType
<1>8. ASSUME PromptJoins PROVE PromptInv'
  BY <1>8
  DEF PromptJoins, PromptAt, PromptInv, Turn, Settling, TypeOK, SessionType,
     PromptType, PumpType, RuntimeType
<1>9. ASSUME PromptEnds PROVE PromptInv'
  BY <1>9
  DEF PromptEnds, Idle, PromptInv, Turn, Settling, TypeOK, SessionType,
     PromptType, PumpType, RuntimeType
<1>10. ASSUME HoldEnds PROVE PromptInv'
  BY <1>10
  DEF HoldEnds, PumpAt, PromptInv, Turn, Settling, TypeOK, SessionType,
     PromptType, PumpType, RuntimeType
<1>11. ASSUME CycleSettles PROVE PromptInv'
  BY <1>11
  DEF CycleSettles, PumpAt, Cycle, PromptInv, Turn, Settling, TypeOK,
     SessionType, PromptType, PumpType, RuntimeType
<1>12. ASSUME CycleCancelsDialogs PROVE PromptInv'
  BY <1>12
  DEF CycleCancelsDialogs, PumpAt, PromptInv, Turn, Settling, TypeOK,
     SessionType, PromptType, PumpType, RuntimeType
<1>13. ASSUME CycleJoins PROVE PromptInv'
  BY <1>13
  DEF CycleJoins, PumpAt, PromptInv, Turn, Settling, TypeOK, SessionType,
     PromptType, PumpType, RuntimeType
<1>14. ASSUME CycleEnds PROVE PromptInv'
  BY <1>14
  DEF CycleEnds, PumpAt, Idle, Cycle, PumpInv, PromptInv, Turn, Settling,
     TypeOK, SessionType, PromptType, PumpType, RuntimeType
<1>15. ASSUME RuntimeEnds PROVE PromptInv'
  BY <1>15
  DEF RuntimeEnds, Cycle, PromptInv, Turn, Settling, TypeOK, SessionType,
     PromptType, PumpType, RuntimeType
<1>16. ASSUME EndCancelsDialogs PROVE PromptInv'
  BY <1>16
  DEF EndCancelsDialogs, PumpAt, PromptInv, Turn, Settling, TypeOK, SessionType,
     PromptType, PumpType, RuntimeType
<1>17. ASSUME EndJoins PROVE PromptInv'
  BY <1>17
  DEF EndJoins, PromptInv, Turn, Settling, TypeOK, SessionType, PromptType,
     PumpType, RuntimeType
<1>18. ASSUME EndUnbinds PROVE PromptInv'
  BY <1>18
  DEF EndUnbinds, PumpAt, PromptInv, Turn, Settling, TypeOK, SessionType,
     PromptType, PumpType, RuntimeType
<1>19. ASSUME DialogRegisters PROVE PromptInv'
  BY <1>19
  DEF DialogRegisters, PumpInv, PromptInv, Turn, Settling, TypeOK, SessionType,
     PromptType, PumpType, RuntimeType
<1>20. ASSUME CloseStops PROVE PromptInv'
  BY <1>20
  DEF CloseStops, PromptInv, Turn, Settling, TypeOK, SessionType, PromptType,
     PumpType, RuntimeType
<1>21. ASSUME CloseIdles PROVE PromptInv'
  BY <1>21
  DEF CloseIdles, Idle, Cycle, PromptInv, Turn, Settling, TypeOK, SessionType,
     PromptType, PumpType, RuntimeType
<1>22. ASSUME PromptBegins PROVE PromptInv'
  BY <1>22
  DEF PromptBegins, Open, PromptInv, Turn, Settling, TypeOK, SessionType,
     PromptType, PumpType, RuntimeType
<1>23. ASSUME Cancel PROVE PromptInv'
  BY <1>23
  DEF Cancel, PromptInv, Turn, Settling, TypeOK, SessionType, PromptType,
     PumpType, RuntimeType
<1>24. ASSUME Close PROVE PromptInv'
  BY <1>24
  DEF Close, PromptInv, Turn, Settling, TypeOK, SessionType, PromptType,
     PumpType, RuntimeType
<1>25. ASSUME AgentStarts PROVE PromptInv'
  BY <1>25
  DEF AgentStarts, Open, Reads, PromptInv, Turn, Settling, TypeOK, SessionType,
     PromptType, PumpType, RuntimeType
<1>26. ASSUME CompactionStarts PROVE PromptInv'
  BY <1>26
  DEF CompactionStarts, Reads, PromptInv, Turn, Settling, TypeOK, SessionType,
     PromptType, PumpType, RuntimeType
<1>27. ASSUME CompactionEnds PROVE PromptInv'
  BY <1>27
  DEF CompactionEnds, Reads, PromptInv, Turn, Settling, TypeOK, SessionType,
     PromptType, PumpType, RuntimeType
<1>28. ASSUME Settled PROVE PromptInv'
  BY <1>28
  DEF Settled, Reads, PumpAt, SettledTracks, PromptInv, Turn, Settling, TypeOK,
     SessionType, PromptType, PumpType, RuntimeType
<1>29. ASSUME PiDies PROVE PromptInv'
  BY <1>29
  DEF PiDies, PromptInv, Turn, Settling, TypeOK, SessionType, PromptType,
     PumpType, RuntimeType
<1>30. ASSUME StopTimesOut PROVE PromptInv'
  BY <1>30
  DEF StopTimesOut, PromptInv, Turn, Settling, TypeOK, SessionType, PromptType,
     PumpType, RuntimeType
<1>31. ASSUME NEW d \in Dialogs, PiAsks(d) PROVE PromptInv'
  BY <1>31
  DEF PiAsks, Reads, PromptInv, Turn, Settling, TypeOK, SessionType, PromptType,
     PumpType, RuntimeType
<1> QED
  BY <1>0, <1>1, <1>2, <1>3, <1>4, <1>5, <1>6, <1>7, <1>8, <1>9, <1>10, <1>11,
     <1>12, <1>13, <1>14, <1>15, <1>16, <1>17, <1>18, <1>19, <1>20, <1>21,
     <1>22, <1>23, <1>24, <1>25, <1>26, <1>27, <1>28, <1>29, <1>30, <1>31
  DEF Next, Environment, PromptStep, PumpStep, CloseStep, DialogStep,
      AbortStep, vars, CloseCancelsDialogs, CloseJoins, CloseChecks,
      CloseAwaits, CloseWrites, CloseStopped, CloseCtxEnds, ExtensionFails,
      DeadlinePasses, CancelReachesDialogs, ClientAnswers, DialogDismissed,
      DialogCalls, DialogEnds, DialogResolves, DialogResponds, AbortChecks,
      AbortAwaits, AbortWrites, Returned

(* The pump keeps what it holds until it moves on.                         *)
LEMMA PumpStepInv ==
  TypeOK /\ PromptInv /\ PumpInv /\ LadderInv /\ DialogInv /\ [Next]_vars =>
    PumpInv'
<1> SUFFICES ASSUME TypeOK, PromptInv, PumpInv, LadderInv, DialogInv,
                    [Next]_vars
    PROVE  PumpInv'
  OBVIOUS
<1>0. ASSUME UNCHANGED <<session, prompt, pump, runtime, dialogs>> PROVE PumpInv'
  BY <1>0 DEF PumpInv, Cycle
<1>1. ASSUME PromptWaits PROVE PumpInv'
  BY <1>1
  DEF PromptWaits, PromptAt, PumpInv, Cycle, TypeOK, SessionType, PromptType,
     PumpType, RuntimeType
<1>2. ASSUME PromptChecks PROVE PumpInv'
  BY <1>2
  DEF PromptChecks, PumpInv, Cycle, TypeOK, SessionType, PromptType, PumpType,
     RuntimeType
<1>3. ASSUME PromptAwaits PROVE PumpInv'
  BY <1>3
  DEF PromptAwaits, PumpInv, Cycle, TypeOK, SessionType, PromptType, PumpType,
     RuntimeType
<1>4. ASSUME PromptGrace PROVE PumpInv'
  BY <1>4
  DEF PromptGrace, PromptAt, PumpInv, Cycle, TypeOK, SessionType, PromptType,
     PumpType, RuntimeType
<1>5. ASSUME PromptStopped PROVE PumpInv'
  BY <1>5
  DEF PromptStopped, PumpInv, Cycle, TypeOK, SessionType, PromptType, PumpType,
     RuntimeType
<1>6. ASSUME PromptSettles PROVE PumpInv'
  BY <1>6
  DEF PromptSettles, PromptAt, PumpInv, Cycle, TypeOK, SessionType, PromptType,
     PumpType, RuntimeType
<1>7. ASSUME PromptCancelsDialogs PROVE PumpInv'
  <2>1. dialogs[pump.dialog].pc = "unasked" /\ pump.dialog \in Dialogs
        => dialogs'[pump.dialog].pc = "unasked"
    BY <1>7, CancelDialogsFacts DEF Same, PromptCancelsDialogs
  <2> QED
    BY <1>7, <2>1
    DEF PromptCancelsDialogs, PromptAt, PromptType, TypeOK, PumpInv, Cycle
<1>8. ASSUME PromptJoins PROVE PumpInv'
  BY <1>8
  DEF PromptJoins, PromptAt, PumpInv, Cycle, TypeOK, SessionType, PromptType,
     PumpType, RuntimeType
<1>9. ASSUME PromptEnds PROVE PumpInv'
  BY <1>9
  DEF PromptEnds, Idle, PromptInv, Turn, Settling, PumpInv, Cycle, TypeOK,
     SessionType, PromptType, PumpType, RuntimeType
<1>10. ASSUME HoldEnds PROVE PumpInv'
  BY <1>10
  DEF HoldEnds, PumpAt, PumpInv, Cycle, TypeOK, SessionType, PromptType,
     PumpType, RuntimeType
<1>11. ASSUME CycleSettles PROVE PumpInv'
  BY <1>11
  DEF CycleSettles, PumpAt, PumpInv, Cycle, TypeOK, SessionType, PromptType,
     PumpType, RuntimeType
<1>12. ASSUME CycleCancelsDialogs PROVE PumpInv'
  BY <1>12
  DEF CycleCancelsDialogs, PumpAt, PumpInv, Cycle, TypeOK, SessionType,
     PromptType, PumpType, RuntimeType
<1>13. ASSUME CycleJoins PROVE PumpInv'
  BY <1>13
  DEF CycleJoins, PumpAt, PumpInv, Cycle, TypeOK, SessionType, PromptType,
     PumpType, RuntimeType
<1>14. ASSUME CycleEnds PROVE PumpInv'
  BY <1>14
  DEF CycleEnds, PumpAt, Idle, PumpInv, Cycle, TypeOK, SessionType, PromptType,
     PumpType, RuntimeType
<1>15. ASSUME RuntimeEnds PROVE PumpInv'
  BY <1>15
  DEF RuntimeEnds, PumpInv, Cycle, TypeOK, SessionType, PromptType, PumpType,
     RuntimeType
<1>16. ASSUME EndCancelsDialogs PROVE PumpInv'
  BY <1>16
  DEF EndCancelsDialogs, PumpAt, PumpInv, Cycle, TypeOK, SessionType,
     PromptType, PumpType, RuntimeType
<1>17. ASSUME EndJoins PROVE PumpInv'
  BY <1>17
  DEF EndJoins, PumpInv, Cycle, TypeOK, SessionType, PromptType, PumpType,
     RuntimeType
<1>18. ASSUME EndUnbinds PROVE PumpInv'
  BY <1>18
  DEF EndUnbinds, PumpAt, PumpInv, Cycle, TypeOK, SessionType, PromptType,
     PumpType, RuntimeType
<1>19. ASSUME DialogRegisters PROVE PumpInv'
  BY <1>19
  DEF DialogRegisters, PumpInv, Cycle, TypeOK, SessionType, PromptType,
     PumpType, RuntimeType
<1>20. ASSUME CloseCancelsDialogs PROVE PumpInv'
  <2>1. dialogs[pump.dialog].pc = "unasked" /\ pump.dialog \in Dialogs
        => dialogs'[pump.dialog].pc = "unasked"
    BY <1>20, CancelDialogsFacts DEF Same, CloseCancelsDialogs
  <2> QED
    BY <1>20, <2>1 DEF CloseCancelsDialogs, CloseAt, PumpInv, Cycle
<1>21. ASSUME CloseStops PROVE PumpInv'
  BY <1>21
  DEF CloseStops, PumpInv, Cycle, TypeOK, SessionType, PromptType, PumpType,
     RuntimeType
<1>22. ASSUME CloseIdles PROVE PumpInv'
  BY <1>22
  DEF CloseIdles, Idle, LadderInv, PumpInv, Cycle, TypeOK, SessionType,
     PromptType, PumpType, RuntimeType
<1>23. ASSUME PromptBegins PROVE PumpInv'
  BY <1>23
  DEF PromptBegins, Open, PumpInv, Cycle, TypeOK, SessionType, PromptType,
     PumpType, RuntimeType
<1>24. ASSUME Cancel PROVE PumpInv'
  BY <1>24
  DEF Cancel, PumpInv, Cycle, TypeOK, SessionType, PromptType, PumpType,
     RuntimeType
<1>25. ASSUME Close PROVE PumpInv'
  BY <1>25
  DEF Close, PumpInv, Cycle, TypeOK, SessionType, PromptType, PumpType,
     RuntimeType
<1>26. ASSUME AgentStarts PROVE PumpInv'
  BY <1>26
  DEF AgentStarts, Open, Reads, PumpInv, Cycle, TypeOK, SessionType, PromptType,
     PumpType, RuntimeType
<1>27. ASSUME CompactionStarts PROVE PumpInv'
  BY <1>27
  DEF CompactionStarts, Reads, PumpInv, Cycle, TypeOK, SessionType, PromptType,
     PumpType, RuntimeType
<1>28. ASSUME CompactionEnds PROVE PumpInv'
  BY <1>28
  DEF CompactionEnds, Reads, PumpInv, Cycle, TypeOK, SessionType, PromptType,
     PumpType, RuntimeType
<1>29. ASSUME Settled PROVE PumpInv'
  BY <1>29
  DEF Settled, Reads, PumpAt, SettledTracks, Cycle, Turn, PumpInv, TypeOK,
     SessionType, PromptType, PumpType, RuntimeType
<1>30. ASSUME PiDies PROVE PumpInv'
  BY <1>30
  DEF PiDies, PumpInv, Cycle, TypeOK, SessionType, PromptType, PumpType,
     RuntimeType
<1>31. ASSUME StopTimesOut PROVE PumpInv'
  BY <1>31
  DEF StopTimesOut, PumpInv, Cycle, TypeOK, SessionType, PromptType, PumpType,
     RuntimeType
<1>32. ASSUME CancelReachesDialogs PROVE PumpInv'
  <2>1. dialogs[pump.dialog].pc = "unasked" /\ pump.dialog \in Dialogs
        => dialogs'[pump.dialog].pc = "unasked"
    BY <1>32, CancelDialogsFacts DEF Same, CancelReachesDialogs
  <2> QED
    BY <1>32, <2>1 DEF CancelReachesDialogs, PumpInv, Cycle
<1>33. ASSUME NEW d \in Dialogs, PiAsks(d) PROVE PumpInv'
  BY <1>33
  DEF PiAsks, Reads, PromptInv, PumpInv, Cycle, TypeOK, SessionType, PromptType,
     PumpType, RuntimeType
<1>34. ASSUME NEW d \in Dialogs, ClientAnswers(d) PROVE PumpInv'
  <2>1. dialogs[pump.dialog].pc = "unasked" /\ pump.dialog \in Dialogs
        => dialogs'[pump.dialog].pc = "unasked"
    BY <1>34, DialogWorks DEF Works, Asked
  <2> QED
    BY <1>34, <2>1 DEF ClientAnswers, Returned, PumpInv, Cycle
<1>35. ASSUME NEW d \in Dialogs, DialogDismissed(d) PROVE PumpInv'
  <2>1. dialogs[pump.dialog].pc = "unasked" /\ pump.dialog \in Dialogs
        => dialogs'[pump.dialog].pc = "unasked"
    BY <1>35, AnsweredFacts DEF DialogDismissed, DialogInv, DialogOK
  <2> QED
    BY <1>35, <2>1 DEF DialogDismissed, PumpInv, Cycle
<1>36. ASSUME NEW d \in Dialogs, DialogCalls(d) PROVE PumpInv'
  <2>1. dialogs[pump.dialog].pc = "unasked" /\ pump.dialog \in Dialogs
        => dialogs'[pump.dialog].pc = "unasked"
    BY <1>36, DialogWorks DEF Works, Asked
  <2> QED
    BY <1>36, <2>1 DEF DialogCalls, PumpInv, Cycle
<1>37. ASSUME NEW d \in Dialogs, DialogEnds(d) PROVE PumpInv'
  <2>1. dialogs[pump.dialog].pc = "unasked" /\ pump.dialog \in Dialogs
        => dialogs'[pump.dialog].pc = "unasked"
    BY <1>37, DialogWorks DEF Works, Asked
  <2> QED
    BY <1>37, <2>1 DEF DialogEnds, Returned, PumpInv, Cycle
<1>38. ASSUME NEW d \in Dialogs, DialogResolves(d) PROVE PumpInv'
  <2>1. dialogs[pump.dialog].pc = "unasked" /\ pump.dialog \in Dialogs
        => dialogs'[pump.dialog].pc = "unasked"
    BY <1>38, DialogWorks DEF Works, Asked
  <2> QED
    BY <1>38, <2>1 DEF DialogResolves, PumpInv, Cycle
<1>39. ASSUME NEW d \in Dialogs, DialogResponds(d) PROVE PumpInv'
  <2>1. dialogs[pump.dialog].pc = "unasked" /\ pump.dialog \in Dialogs
        => dialogs'[pump.dialog].pc = "unasked"
    BY <1>39, AnsweredFacts DEF DialogResponds, DialogInv, DialogOK
  <2> QED
    BY <1>39, <2>1 DEF DialogResponds, PumpInv, Cycle
<1> QED
  BY <1>0, <1>1, <1>2, <1>3, <1>4, <1>5, <1>6, <1>7, <1>8, <1>9, <1>10, <1>11,
     <1>12, <1>13, <1>14, <1>15, <1>16, <1>17, <1>18, <1>19, <1>20, <1>21,
     <1>22, <1>23, <1>24, <1>25, <1>26, <1>27, <1>28, <1>29, <1>30, <1>31,
     <1>32, <1>33, <1>34, <1>35, <1>36, <1>37, <1>38, <1>39
  DEF Next, Environment, PromptStep, PumpStep, CloseStep, DialogStep,
      AbortStep, vars, CloseJoins, CloseChecks, CloseAwaits, CloseWrites,
      CloseStopped, CloseCtxEnds, ExtensionFails, DeadlinePasses, AbortChecks,
      AbortAwaits, AbortWrites

(* A shutdown ladder that began leaves the session closing.                *)
LEMMA LadderStepInv == TypeOK /\ LadderInv /\ [Next]_vars => LadderInv'
<1> SUFFICES ASSUME TypeOK, LadderInv, [Next]_vars PROVE LadderInv'
  OBVIOUS
<1>0. ASSUME UNCHANGED <<session, closer>> PROVE LadderInv'
  BY <1>0 DEF LadderInv
<1>1. ASSUME PromptStopped PROVE LadderInv'
  BY <1>1 DEF PromptStopped, LadderInv, TypeOK, SessionType, CloserType
<1>2. ASSUME PromptSettles PROVE LadderInv'
  BY <1>2
  DEF PromptSettles, PromptAt, LadderInv, TypeOK, SessionType, CloserType
<1>3. ASSUME PromptEnds PROVE LadderInv'
  BY <1>3 DEF PromptEnds, Idle, LadderInv, TypeOK, SessionType, CloserType
<1>4. ASSUME CycleSettles PROVE LadderInv'
  BY <1>4 DEF CycleSettles, PumpAt, LadderInv, TypeOK, SessionType, CloserType
<1>5. ASSUME CycleEnds PROVE LadderInv'
  BY <1>5
  DEF CycleEnds, PumpAt, Idle, LadderInv, TypeOK, SessionType, CloserType
<1>6. ASSUME RuntimeEnds PROVE LadderInv'
  BY <1>6 DEF RuntimeEnds, LadderInv, TypeOK, SessionType, CloserType
<1>7. ASSUME EndUnbinds PROVE LadderInv'
  BY <1>7 DEF EndUnbinds, PumpAt, LadderInv, TypeOK, SessionType, CloserType
<1>8. ASSUME CloseCancelsDialogs PROVE LadderInv'
  BY <1>8
  DEF CloseCancelsDialogs, CloseAt, LadderInv, TypeOK, SessionType, CloserType
<1>9. ASSUME CloseJoins PROVE LadderInv'
  BY <1>9 DEF CloseJoins, AfterTurn, LadderInv, TypeOK, SessionType, CloserType
<1>10. ASSUME CloseChecks PROVE LadderInv'
  BY <1>10 DEF CloseChecks, LadderInv, TypeOK, SessionType, CloserType
<1>11. ASSUME CloseAwaits PROVE LadderInv'
  BY <1>11 DEF CloseAwaits, CloseAt, LadderInv, TypeOK, SessionType, CloserType
<1>12. ASSUME CloseWrites PROVE LadderInv'
  BY <1>12
  DEF CloseWrites, AfterTurn, LadderInv, TypeOK, SessionType, CloserType
<1>13. ASSUME CloseStops PROVE LadderInv'
  BY <1>13 DEF CloseStops, LadderInv, TypeOK, SessionType, CloserType
<1>14. ASSUME CloseStopped PROVE LadderInv'
  BY <1>14 DEF CloseStopped, CloseAt, LadderInv, TypeOK, SessionType, CloserType
<1>15. ASSUME CloseIdles PROVE LadderInv'
  BY <1>15 DEF CloseIdles, Idle, LadderInv, TypeOK, SessionType, CloserType
<1>16. ASSUME PromptBegins PROVE LadderInv'
  BY <1>16 DEF PromptBegins, Open, LadderInv, TypeOK, SessionType, CloserType
<1>17. ASSUME Cancel PROVE LadderInv'
  BY <1>17 DEF Cancel, LadderInv, TypeOK, SessionType, CloserType
<1>18. ASSUME Close PROVE LadderInv'
  BY <1>18 DEF Close, LadderInv, TypeOK, SessionType, CloserType
<1>19. ASSUME CloseCtxEnds PROVE LadderInv'
  BY <1>19 DEF CloseCtxEnds, LadderInv, TypeOK, SessionType, CloserType
<1>20. ASSUME AgentStarts PROVE LadderInv'
  BY <1>20
  DEF AgentStarts, Open, Reads, LadderInv, TypeOK, SessionType, CloserType
<1> QED
  BY <1>0, <1>1, <1>2, <1>3, <1>4, <1>5, <1>6, <1>7, <1>8, <1>9, <1>10, <1>11,
     <1>12, <1>13, <1>14, <1>15, <1>16, <1>17, <1>18, <1>19, <1>20
  DEF Next, Environment, PromptStep, PumpStep, CloseStep, DialogStep,
      AbortStep, vars, PromptWaits, PromptChecks, PromptAwaits, PromptGrace,
      PromptCancelsDialogs, PromptJoins, HoldEnds, CycleCancelsDialogs,
      CycleJoins, EndCancelsDialogs, EndJoins, DialogRegisters,
      CompactionStarts, CompactionEnds, Settled, PiDies, ExtensionFails,
      DeadlinePasses, StopTimesOut, CancelReachesDialogs, PiAsks,
      ClientAnswers, DialogDismissed, DialogCalls, DialogEnds, DialogResolves,
      DialogResponds, AbortChecks, AbortAwaits, AbortWrites, Returned

(* The terminal idle of the open foreground.                               *)
LEMMA IdleOver ==
  ASSUME TypeOK, OverInv, session.current # 0, Idle,
         pump'.pc \in Ending => pump' = pump
  PROVE  OverInv'
<1>1. /\ session'.current = 0 /\ session'.opened = session.opened
      /\ over' = over \cup {session.current} /\ over' \subseteq Foregrounds
  BY IdleFacts
<1>2. session.current \in Nat /\ session.opened \in Nat
  BY InterruptsAssumption DEF TypeOK, SessionType
<1>3. 0 <= session'.opened
  BY <1>1, <1>2
<1>4. \A f \in over' : f <= session'.opened /\ f # session'.current
  BY <1>1 DEF OverInv, Foregrounds
<1>5. ASSUME pump'.pc \in Ending, pump'.fg # 0
      PROVE  pump'.fg \notin over' /\ pump'.fg # session'.current
             /\ pump'.fg <= session'.opened
  BY <1>1, <1>5 DEF OverInv
<1> QED
  BY <1>1, <1>3, <1>4, <1>5 DEF OverInv

(* A dialog is answered once, and belongs to a foreground until then.      *)
LEMMA DialogStepInv ==
  TypeOK /\ PumpInv /\ DialogInv /\ JoinedInv /\ [Next]_vars => DialogInv'
<1> SUFFICES ASSUME TypeOK, PumpInv, DialogInv, JoinedInv, [Next]_vars
    PROVE  DialogInv'
  OBVIOUS
<1>0. ASSUME UNCHANGED <<session, pump, dialogs>> PROVE DialogInv'
  BY <1>0 DEF DialogInv, DialogOK, Belongs
<1>1. ASSUME PromptStopped PROVE DialogInv'
  BY <1>1
  DEF PromptStopped, DialogInv, DialogOK, Belongs, Ending, TypeOK, SessionType,
     PromptType, PumpType
<1>2. ASSUME PromptSettles PROVE DialogInv'
  BY <1>2
  DEF PromptSettles, PromptAt, DialogInv, DialogOK, Belongs, Ending, TypeOK,
     SessionType, PromptType, PumpType
<1>3. ASSUME PromptCancelsDialogs PROVE DialogInv'
  BY <1>3, CancelDialogsFacts
  DEF PromptCancelsDialogs, PromptAt, DialogInv, DialogOK, Belongs, Same,
      Ending, TypeOK, PumpType
<1>4. ASSUME PromptEnds PROVE DialogInv'
  BY <1>4
  DEF PromptEnds, Idle, JoinedInv, NoneRegistered, DialogInv, DialogOK, Belongs,
     Ending, TypeOK, SessionType, PromptType, PumpType
<1>5. ASSUME HoldEnds PROVE DialogInv'
  BY <1>5
  DEF HoldEnds, PumpAt, DialogInv, DialogOK, Belongs, Ending, TypeOK,
     SessionType, PromptType, PumpType
<1>6. ASSUME CycleSettles PROVE DialogInv'
  BY <1>6
  DEF CycleSettles, PumpAt, DialogInv, DialogOK, Belongs, Ending, TypeOK,
     SessionType, PromptType, PumpType
<1>7. ASSUME CycleCancelsDialogs PROVE DialogInv'
  BY <1>7, CancelDialogsFacts
  DEF CycleCancelsDialogs, PumpAt, DialogInv, DialogOK, Belongs, Same, Ending,
      TypeOK, PumpType
<1>8. ASSUME CycleJoins PROVE DialogInv'
  BY <1>8
  DEF CycleJoins, PumpAt, DialogInv, DialogOK, Belongs, Ending, TypeOK,
     SessionType, PromptType, PumpType
<1>9. ASSUME CycleEnds PROVE DialogInv'
  BY <1>9
  DEF CycleEnds, PumpAt, Idle, JoinedInv, NoneRegistered, Cycle, DialogInv,
     DialogOK, Belongs, Ending, TypeOK, SessionType, PromptType, PumpType
<1>10. ASSUME RuntimeEnds PROVE DialogInv'
  BY <1>10, RuntimeEndsFacts
  DEF RuntimeEnds, Takes, DialogInv, DialogOK, Belongs, Ending
<1>11. ASSUME EndCancelsDialogs PROVE DialogInv'
  BY <1>11, CancelDialogsFacts
  DEF EndCancelsDialogs, PumpAt, DialogInv, DialogOK, Belongs, Same, Ending,
      TypeOK, PumpType
<1>12. ASSUME EndJoins PROVE DialogInv'
  BY <1>12
  DEF EndJoins, Joined, DialogInv, DialogOK, Belongs, Ending, TypeOK,
     SessionType, PromptType, PumpType
<1>13. ASSUME EndUnbinds PROVE DialogInv'
  BY <1>13
  DEF EndUnbinds, PumpAt, DialogInv, DialogOK, Belongs, Ending, TypeOK,
     SessionType, PromptType, PumpType
<1>14. ASSUME DialogRegisters PROVE DialogInv'
  <2>1. PICK d : d = pump.dialog
    OBVIOUS
  <2>2. d \in Dialogs /\ DialogOK(d)'
        /\ \A o \in Dialogs \ {d} : dialogs'[o] = dialogs[o]
    BY <1>14, <2>1, DialogRegistersFacts
  <2>3. Belongs(d)'
    BY <1>14, <2>1, DialogRegistersFacts
    DEF DialogRegisters, Registers, Admits, Belongs, PumpInv
  <2>4. \A o \in Dialogs \ {d} : DialogOK(o)' /\ Belongs(o)'
    BY <1>14, <2>2 DEF DialogRegisters, DialogInv, DialogOK, Belongs, Ending
  <2> QED
    BY <2>2, <2>3, <2>4 DEF DialogInv
<1>15. ASSUME CloseCancelsDialogs PROVE DialogInv'
  BY <1>15, CancelDialogsFacts
  DEF CloseCancelsDialogs, CloseAt, DialogInv, DialogOK, Belongs, Same, Ending,
      TypeOK, PumpType
<1>16. ASSUME CloseIdles PROVE DialogInv'
  BY <1>16
  DEF CloseIdles, Idle, JoinedInv, NoneRegistered, Cycle, DialogInv, DialogOK,
     Belongs, Ending, TypeOK, SessionType, PromptType, PumpType
<1>17. ASSUME PromptBegins PROVE DialogInv'
  BY <1>17
  DEF PromptBegins, Open, DialogInv, DialogOK, Belongs, Ending, TypeOK,
     SessionType, PromptType, PumpType
<1>18. ASSUME Cancel PROVE DialogInv'
  BY <1>18
  DEF Cancel, DialogInv, DialogOK, Belongs, Ending, TypeOK, SessionType,
     PromptType, PumpType
<1>19. ASSUME Close PROVE DialogInv'
  BY <1>19
  DEF Close, DialogInv, DialogOK, Belongs, Ending, TypeOK, SessionType,
     PromptType, PumpType
<1>20. ASSUME AgentStarts PROVE DialogInv'
  BY <1>20
  DEF AgentStarts, Open, Reads, DialogInv, DialogOK, Belongs, Ending, TypeOK,
     SessionType, PromptType, PumpType
<1>21. ASSUME Settled PROVE DialogInv'
  BY <1>21
  DEF Settled, Reads, PumpAt, SettledTracks, DialogInv, DialogOK, Belongs,
     Ending, TypeOK, SessionType, PromptType, PumpType
<1>22. ASSUME CancelReachesDialogs PROVE DialogInv'
  BY <1>22, CancelDialogsFacts
  DEF CancelReachesDialogs, DialogInv, DialogOK, Belongs, Same, Ending, TypeOK,
      PumpType
<1>23. ASSUME NEW d \in Dialogs, PiAsks(d) PROVE DialogInv'
  BY <1>23
  DEF PiAsks, Reads, DialogInv, DialogOK, Belongs, Ending, TypeOK, SessionType,
     PromptType, PumpType
<1>24. ASSUME NEW d \in Dialogs, ClientAnswers(d) PROVE DialogInv'
  <2>1. Works(d) /\ UNCHANGED <<session, pump>>
    BY <1>24, DialogWorks DEF ClientAnswers, Returned
  <2>2. DialogOK(d)' /\ Belongs(d)'
    BY <2>1 DEF Works, DialogInv, DialogOK, Belongs, Asked
  <2>3. \A o \in Dialogs \ {d} : DialogOK(o)' /\ Belongs(o)'
    BY <2>1 DEF Works, DialogInv, DialogOK, Belongs
  <2> QED
    BY <2>2, <2>3 DEF DialogInv
<1>25. ASSUME NEW d \in Dialogs, DialogDismissed(d) PROVE DialogInv'
  <2>1. /\ dialogs'[d].pc = "done" /\ ~dialogs'[d].registered
        /\ dialogs'[d].responses = 1 /\ dialogs'[d].action # "pending"
        /\ \A o \in Dialogs \ {d} : dialogs'[o] = dialogs[o]
    BY <1>25, AnsweredFacts DEF DialogDismissed, DialogInv, DialogOK
  <2>2. DialogOK(d)' /\ Belongs(d)'
    BY <2>1 DEF DialogOK, Belongs, Asked
  <2>3. \A o \in Dialogs \ {d} : DialogOK(o)' /\ Belongs(o)'
    BY <1>25, <2>1 DEF DialogDismissed, DialogInv, DialogOK, Belongs
  <2> QED
    BY <2>2, <2>3 DEF DialogInv
<1>26. ASSUME NEW d \in Dialogs, DialogCalls(d) PROVE DialogInv'
  <2>1. Works(d) /\ UNCHANGED <<session, pump>>
    BY <1>26, DialogWorks DEF DialogCalls
  <2>2. DialogOK(d)' /\ Belongs(d)'
    BY <2>1 DEF Works, DialogInv, DialogOK, Belongs, Asked
  <2>3. \A o \in Dialogs \ {d} : DialogOK(o)' /\ Belongs(o)'
    BY <2>1 DEF Works, DialogInv, DialogOK, Belongs
  <2> QED
    BY <2>2, <2>3 DEF DialogInv
<1>27. ASSUME NEW d \in Dialogs, DialogEnds(d) PROVE DialogInv'
  <2>1. Works(d) /\ UNCHANGED <<session, pump>>
    BY <1>27, DialogWorks DEF DialogEnds, Returned
  <2>2. DialogOK(d)' /\ Belongs(d)'
    BY <2>1 DEF Works, DialogInv, DialogOK, Belongs, Asked
  <2>3. \A o \in Dialogs \ {d} : DialogOK(o)' /\ Belongs(o)'
    BY <2>1 DEF Works, DialogInv, DialogOK, Belongs
  <2> QED
    BY <2>2, <2>3 DEF DialogInv
<1>28. ASSUME NEW d \in Dialogs, DialogResolves(d) PROVE DialogInv'
  <2>1. Works(d) /\ UNCHANGED <<session, pump>>
    BY <1>28, DialogWorks DEF DialogResolves
  <2>2. DialogOK(d)' /\ Belongs(d)'
    BY <2>1 DEF Works, DialogInv, DialogOK, Belongs, Asked
  <2>3. \A o \in Dialogs \ {d} : DialogOK(o)' /\ Belongs(o)'
    BY <2>1 DEF Works, DialogInv, DialogOK, Belongs
  <2> QED
    BY <2>2, <2>3 DEF DialogInv
<1>29. ASSUME NEW d \in Dialogs, DialogResponds(d) PROVE DialogInv'
  <2>1. /\ dialogs'[d].pc = "done" /\ ~dialogs'[d].registered
        /\ dialogs'[d].responses = 1 /\ dialogs'[d].action # "pending"
        /\ \A o \in Dialogs \ {d} : dialogs'[o] = dialogs[o]
    BY <1>29, AnsweredFacts DEF DialogResponds, DialogInv, DialogOK
  <2>2. DialogOK(d)' /\ Belongs(d)'
    BY <2>1 DEF DialogOK, Belongs, Asked
  <2>3. \A o \in Dialogs \ {d} : DialogOK(o)' /\ Belongs(o)'
    BY <1>29, <2>1 DEF DialogResponds, DialogInv, DialogOK, Belongs
  <2> QED
    BY <2>2, <2>3 DEF DialogInv
<1> QED
  BY <1>0, <1>1, <1>2, <1>3, <1>4, <1>5, <1>6, <1>7, <1>8, <1>9, <1>10, <1>11,
     <1>12, <1>13, <1>14, <1>15, <1>16, <1>17, <1>18, <1>19, <1>20, <1>21,
     <1>22, <1>23, <1>24, <1>25, <1>26, <1>27, <1>28, <1>29
  DEF Next, Environment, PromptStep, PumpStep, CloseStep, DialogStep,
      AbortStep, vars, PromptWaits, PromptChecks, PromptAwaits, PromptGrace,
      PromptJoins, CloseJoins, CloseChecks, CloseAwaits, CloseWrites,
      CloseStops, CloseStopped, CloseCtxEnds, CompactionStarts,
      CompactionEnds, PiDies, ExtensionFails, DeadlinePasses, StopTimesOut,
      AbortChecks, AbortAwaits, AbortWrites

(* A foreground that is over stays over.                                   *)
LEMMA OverStepInv == TypeOK /\ PromptInv /\ OverInv /\ [Next]_vars => OverInv'
<1> SUFFICES ASSUME TypeOK, PromptInv, OverInv, [Next]_vars PROVE OverInv'
  OBVIOUS
<1>0. ASSUME UNCHANGED <<session, pump, over>> PROVE OverInv'
  BY <1>0 DEF OverInv
<1>1. ASSUME PromptStopped PROVE OverInv'
  BY <1>1
  DEF PromptStopped, OverInv, Ending, Foregrounds, TypeOK, SessionType, PumpType
<1>2. ASSUME PromptSettles PROVE OverInv'
  BY <1>2
  DEF PromptSettles, PromptAt, OverInv, Ending, Foregrounds, TypeOK,
     SessionType, PumpType
<1>3. ASSUME PromptEnds PROVE OverInv'
  BY <1>3, IdleOver DEF PromptEnds, PromptInv, Turn
<1>4. ASSUME HoldEnds PROVE OverInv'
  BY <1>4
  DEF HoldEnds, PumpAt, OverInv, Ending, Foregrounds, TypeOK, SessionType,
     PumpType
<1>5. ASSUME CycleSettles PROVE OverInv'
  BY <1>5
  DEF CycleSettles, PumpAt, OverInv, Ending, Foregrounds, TypeOK, SessionType,
     PumpType
<1>6. ASSUME CycleCancelsDialogs PROVE OverInv'
  BY <1>6
  DEF CycleCancelsDialogs, PumpAt, OverInv, Ending, Foregrounds, TypeOK,
     SessionType, PumpType
<1>7. ASSUME CycleJoins PROVE OverInv'
  BY <1>7
  DEF CycleJoins, PumpAt, OverInv, Ending, Foregrounds, TypeOK, SessionType,
     PumpType
<1>8. ASSUME CycleEnds PROVE OverInv'
  <2>1. CASE Cycle
    <3>1. Idle /\ session.current # 0 /\ (pump'.pc \in Ending => pump' = pump)
      BY <1>8, <2>1 DEF CycleEnds, Cycle, Ending, PumpAt, TypeOK, PumpType
    <3> QED
      BY <3>1, IdleOver
  <2>2. CASE ~Cycle
    BY <1>8, <2>2 DEF CycleEnds, OverInv, Ending, PumpAt, TypeOK, PumpType
  <2> QED
    BY <2>1, <2>2
<1>9. ASSUME RuntimeEnds PROVE OverInv'
  BY <1>9, RuntimeEndsFacts
  DEF RuntimeEnds, Takes, OverInv, Ending, TypeOK, SessionType, PumpType,
      Foregrounds
<1>10. ASSUME EndCancelsDialogs PROVE OverInv'
  BY <1>10
  DEF EndCancelsDialogs, PumpAt, OverInv, Ending, Foregrounds, TypeOK,
     SessionType, PumpType
<1>11. ASSUME EndJoins PROVE OverInv'
  BY <1>11
  DEF EndJoins, OverInv, Ending, Foregrounds, TypeOK, SessionType, PumpType
<1>12. ASSUME EndUnbinds PROVE OverInv'
  BY <1>12
  DEF EndUnbinds, PumpAt, OverInv, Ending, Foregrounds, TypeOK, SessionType,
     PumpType
<1>13. ASSUME DialogRegisters PROVE OverInv'
  BY <1>13
  DEF DialogRegisters, OverInv, Ending, Foregrounds, TypeOK, SessionType,
     PumpType
<1>14. ASSUME CloseIdles PROVE OverInv'
  <2>1. CASE Cycle
    <3>1. Idle /\ session.current # 0 /\ (pump'.pc \in Ending => pump' = pump)
      BY <1>14, <2>1 DEF CloseIdles, Cycle, Ending
    <3> QED
      BY <3>1, IdleOver
  <2>2. CASE ~Cycle
    BY <1>14, <2>2 DEF CloseIdles, OverInv, Ending
  <2> QED
    BY <2>1, <2>2
<1>15. ASSUME PromptBegins PROVE OverInv'
  BY <1>15
  DEF PromptBegins, Open, OverInv, Ending, Foregrounds, TypeOK, SessionType,
     PumpType
<1>16. ASSUME Cancel PROVE OverInv'
  BY <1>16
  DEF Cancel, OverInv, Ending, Foregrounds, TypeOK, SessionType, PumpType
<1>17. ASSUME Close PROVE OverInv'
  BY <1>17
  DEF Close, OverInv, Ending, Foregrounds, TypeOK, SessionType, PumpType
<1>18. ASSUME AgentStarts PROVE OverInv'
  BY <1>18
  DEF AgentStarts, Open, Reads, OverInv, Ending, Foregrounds, TypeOK,
     SessionType, PumpType
<1>19. ASSUME Settled PROVE OverInv'
  BY <1>19
  DEF Settled, Reads, PumpAt, SettledTracks, OverInv, Ending, Foregrounds,
     TypeOK, SessionType, PumpType
<1>20. ASSUME NEW d \in Dialogs, PiAsks(d) PROVE OverInv'
  BY <1>20
  DEF PiAsks, Reads, OverInv, Ending, Foregrounds, TypeOK, SessionType, PumpType
<1> QED
  BY <1>0, <1>1, <1>2, <1>3, <1>4, <1>5, <1>6, <1>7, <1>8, <1>9, <1>10, <1>11,
     <1>12, <1>13, <1>14, <1>15, <1>16, <1>17, <1>18, <1>19, <1>20
  DEF Next, Environment, PromptStep, PumpStep, CloseStep, DialogStep,
      AbortStep, vars, PromptWaits, PromptChecks, PromptAwaits, PromptGrace,
      PromptCancelsDialogs, PromptJoins, CloseCancelsDialogs, CloseJoins,
      CloseChecks, CloseAwaits, CloseWrites, CloseStops, CloseStopped,
      CloseCtxEnds, CompactionStarts, CompactionEnds, PiDies, ExtensionFails,
      DeadlinePasses, StopTimesOut, CancelReachesDialogs, ClientAnswers,
      DialogDismissed, DialogCalls, DialogEnds, DialogResolves,
      DialogResponds, AbortChecks, AbortAwaits, AbortWrites, Returned

(* Nothing joins a foreground between its join and its idle.               *)
LEMMA JoinedStepInv ==
  TypeOK /\ PromptInv /\ PumpInv /\ LadderInv /\ DialogInv /\ JoinedInv /\
    [Next]_vars => JoinedInv'
<1> SUFFICES ASSUME TypeOK, PromptInv, PumpInv, LadderInv, DialogInv, JoinedInv,
                    [Next]_vars
    PROVE  JoinedInv'
  OBVIOUS
<1>0. ASSUME UNCHANGED <<session, prompt, pump, runtime, closer, canceller, aborts, dialogs>> PROVE JoinedInv'
  BY <1>0 DEF JoinedInv, NoneRegistered, AbortsIdle, Cycle
<1>1. ASSUME PromptWaits PROVE JoinedInv'
  BY <1>1
  DEF PromptWaits, PromptAt, JoinedInv, NoneRegistered, AbortsIdle, Cycle,
     TypeOK, SessionType, PromptType, PumpType, CloserType, RuntimeType,
     CancellerType, AbortType
<1>2. ASSUME PromptChecks PROVE JoinedInv'
  BY <1>2
  DEF PromptChecks, JoinedInv, NoneRegistered, AbortsIdle, Cycle, TypeOK,
     SessionType, PromptType, PumpType, CloserType, RuntimeType, CancellerType,
     AbortType
<1>3. ASSUME PromptAwaits PROVE JoinedInv'
  BY <1>3
  DEF PromptAwaits, JoinedInv, NoneRegistered, AbortsIdle, Cycle, TypeOK,
     SessionType, PromptType, PumpType, CloserType, RuntimeType, CancellerType,
     AbortType
<1>4. ASSUME PromptGrace PROVE JoinedInv'
  BY <1>4
  DEF PromptGrace, PromptAt, JoinedInv, NoneRegistered, AbortsIdle, Cycle,
     TypeOK, SessionType, PromptType, PumpType, CloserType, RuntimeType,
     CancellerType, AbortType
<1>5. ASSUME PromptStopped PROVE JoinedInv'
  BY <1>5
  DEF PromptStopped, JoinedInv, NoneRegistered, AbortsIdle, Cycle, TypeOK,
     SessionType, PromptType, PumpType, CloserType, RuntimeType, CancellerType,
     AbortType
<1>6. ASSUME PromptSettles PROVE JoinedInv'
  BY <1>6
  DEF PromptSettles, PromptAt, JoinedInv, NoneRegistered, AbortsIdle, Cycle,
     TypeOK, SessionType, PromptType, PumpType, CloserType, RuntimeType,
     CancellerType, AbortType
<1>7. ASSUME PromptCancelsDialogs PROVE JoinedInv'
  <2>1. NoneRegistered => NoneRegistered'
    BY <1>7, CancelDialogsFacts DEF NoneRegistered, Same, PromptCancelsDialogs
  <2> QED
    BY <1>7, <2>1
    DEF PromptCancelsDialogs, PromptAt, JoinedInv, AbortsIdle, Turn, Cycle,
       TypeOK, PromptType
<1>8. ASSUME PromptJoins PROVE JoinedInv'
  <2>1. NoneRegistered /\ AbortsIdle /\ UNCHANGED <<dialogs, aborts>>
    BY <1>8 DEF PromptJoins, Joined, NoneRegistered, AbortsIdle
  <2> QED
    BY <1>8, <2>1
    DEF PromptJoins, PromptAt, JoinedInv, NoneRegistered, AbortsIdle, Cycle
<1>9. ASSUME PromptEnds PROVE JoinedInv'
  BY <1>9
  DEF PromptEnds, Idle, PromptInv, JoinedInv, NoneRegistered, AbortsIdle, Cycle,
     TypeOK, SessionType, PromptType, PumpType, CloserType, RuntimeType,
     CancellerType, AbortType
<1>10. ASSUME HoldEnds PROVE JoinedInv'
  BY <1>10
  DEF HoldEnds, PumpAt, JoinedInv, NoneRegistered, AbortsIdle, Cycle, TypeOK,
     SessionType, PromptType, PumpType, CloserType, RuntimeType, CancellerType,
     AbortType
<1>11. ASSUME CycleSettles PROVE JoinedInv'
  BY <1>11
  DEF CycleSettles, PumpAt, JoinedInv, NoneRegistered, AbortsIdle, Cycle,
     TypeOK, SessionType, PromptType, PumpType, CloserType, RuntimeType,
     CancellerType, AbortType
<1>12. ASSUME CycleCancelsDialogs PROVE JoinedInv'
  <2>1. NoneRegistered => NoneRegistered'
    BY <1>12, CancelDialogsFacts DEF NoneRegistered, Same, CycleCancelsDialogs
  <2> QED
    BY <1>12, <2>1
    DEF CycleCancelsDialogs, PumpAt, JoinedInv, AbortsIdle, Turn, Cycle, TypeOK,
       PumpType
<1>13. ASSUME CycleJoins PROVE JoinedInv'
  <2>1. NoneRegistered /\ AbortsIdle /\ UNCHANGED <<dialogs, aborts>>
    BY <1>13 DEF CycleJoins, Joined, NoneRegistered, AbortsIdle
  <2> QED
    BY <1>13, <2>1
    DEF CycleJoins, PumpAt, JoinedInv, NoneRegistered, AbortsIdle, Cycle
<1>14. ASSUME CycleEnds PROVE JoinedInv'
  BY <1>14
  DEF CycleEnds, PumpAt, Idle, JoinedInv, NoneRegistered, AbortsIdle, Cycle,
     TypeOK, SessionType, PromptType, PumpType, CloserType, RuntimeType,
     CancellerType, AbortType
<1>15. ASSUME RuntimeEnds PROVE JoinedInv'
  <2>1. pump'.pc # "idle"
    BY <1>15, RuntimeEndsFacts
  <2>2. session'.current = 0 /\ session'.bound /\ ~session'.closing
          => runtime'.ending \/ session.current = 0
    BY <1>15, RuntimeEndsFacts DEF RuntimeEnds, Takes, TypeOK, RuntimeType
  <2>3. session'.closing = session.closing /\ session'.bound = session.bound
        /\ (~runtime'.ending => ~runtime.ending)
    BY <1>15, RuntimeEndsFacts DEF RuntimeEnds, TypeOK, RuntimeType
  <2> QED
    BY <1>15, <2>1, <2>2, <2>3
    DEF RuntimeEnds, JoinedInv, NoneRegistered, AbortsIdle
<1>16. ASSUME EndCancelsDialogs PROVE JoinedInv'
  <2>1. NoneRegistered => NoneRegistered'
    BY <1>16, CancelDialogsFacts DEF NoneRegistered, Same, EndCancelsDialogs
  <2> QED
    BY <1>16, <2>1
    DEF EndCancelsDialogs, PumpAt, JoinedInv, AbortsIdle, Turn, Cycle, TypeOK,
       PumpType
<1>17. ASSUME EndJoins PROVE JoinedInv'
  BY <1>17
  DEF EndJoins, JoinedInv, NoneRegistered, AbortsIdle, Cycle, TypeOK,
     SessionType, PromptType, PumpType, CloserType, RuntimeType, CancellerType,
     AbortType
<1>18. ASSUME EndUnbinds PROVE JoinedInv'
  BY <1>18
  DEF EndUnbinds, PumpAt, JoinedInv, NoneRegistered, AbortsIdle, Cycle, TypeOK,
     SessionType, PromptType, PumpType, CloserType, RuntimeType, CancellerType,
     AbortType
<1>19. ASSUME DialogRegisters PROVE JoinedInv'
  <2>1. PICK d : d = pump.dialog
    OBVIOUS
  <2>2. Registers \/ (NoneRegistered => NoneRegistered')
    BY <1>19, <2>1, DialogRegistersFacts DEF NoneRegistered
  <2>3. pump'.pc = "read"
    BY <1>19, <2>1, DialogRegistersFacts
  <2>4. Registers => prompt.pc # "idle" /\ closer.pc = "none"
    BY DEF Registers, Admits, PromptInv, Turn, LadderInv
  <2> QED
    BY <1>19, <2>2, <2>3, <2>4 DEF DialogRegisters, JoinedInv, AbortsIdle
<1>20. ASSUME CloseCancelsDialogs PROVE JoinedInv'
  <2>1. NoneRegistered => NoneRegistered'
    BY <1>20, CancelDialogsFacts DEF NoneRegistered, Same, CloseCancelsDialogs
  <2> QED
    BY <1>20, <2>1
    DEF CloseCancelsDialogs, CloseAt, JoinedInv, AbortsIdle, Turn, Cycle,
       TypeOK, CloserType
<1>21. ASSUME CloseJoins PROVE JoinedInv'
  <2>1. NoneRegistered /\ AbortsIdle /\ UNCHANGED <<dialogs, aborts>>
    BY <1>21 DEF CloseJoins, Joined, NoneRegistered, AbortsIdle
  <2> QED
    BY <1>21, <2>1 DEF CloseJoins, JoinedInv, NoneRegistered, AbortsIdle, Cycle
<1>22. ASSUME CloseChecks PROVE JoinedInv'
  BY <1>22
  DEF CloseChecks, JoinedInv, NoneRegistered, AbortsIdle, Cycle, TypeOK,
     SessionType, PromptType, PumpType, CloserType, RuntimeType, CancellerType,
     AbortType
<1>23. ASSUME CloseAwaits PROVE JoinedInv'
  BY <1>23
  DEF CloseAwaits, CloseAt, JoinedInv, NoneRegistered, AbortsIdle, Cycle,
     TypeOK, SessionType, PromptType, PumpType, CloserType, RuntimeType,
     CancellerType, AbortType
<1>24. ASSUME CloseWrites PROVE JoinedInv'
  BY <1>24
  DEF CloseWrites, AfterTurn, JoinedInv, NoneRegistered, AbortsIdle, Cycle,
     TypeOK, SessionType, PromptType, PumpType, CloserType, RuntimeType,
     CancellerType, AbortType
<1>25. ASSUME CloseStops PROVE JoinedInv'
  BY <1>25
  DEF CloseStops, JoinedInv, NoneRegistered, AbortsIdle, Cycle, TypeOK,
     SessionType, PromptType, PumpType, CloserType, RuntimeType, CancellerType,
     AbortType
<1>26. ASSUME CloseStopped PROVE JoinedInv'
  BY <1>26
  DEF CloseStopped, CloseAt, JoinedInv, NoneRegistered, AbortsIdle, Cycle,
     TypeOK, SessionType, PromptType, PumpType, CloserType, RuntimeType,
     CancellerType, AbortType
<1>27. ASSUME CloseIdles PROVE JoinedInv'
  <2>1. session'.closing
    BY <1>27, IdleFacts DEF CloseIdles, LadderInv, Cycle
  <2>2. Cycle' => Cycle
    BY <1>27, IdleFacts DEF CloseIdles, Cycle
  <2>3. closer'.pc = "done"
    BY <1>27 DEF CloseIdles
  <2> QED
    BY <1>27, <2>1, <2>2, <2>3
    DEF CloseIdles, JoinedInv, NoneRegistered, AbortsIdle
<1>28. ASSUME PromptBegins PROVE JoinedInv'
  BY <1>28
  DEF PromptBegins, Open, JoinedInv, NoneRegistered, AbortsIdle, Cycle, TypeOK,
     SessionType, PromptType, PumpType, CloserType, RuntimeType, CancellerType,
     AbortType
<1>29. ASSUME Cancel PROVE JoinedInv'
  BY <1>29
  DEF Cancel, PromptInv, PumpInv, Turn, Cycle, Interrupters, JoinedInv,
     NoneRegistered, AbortsIdle, TypeOK, SessionType, PromptType, PumpType,
     CloserType, RuntimeType, CancellerType, AbortType
<1>30. ASSUME Close PROVE JoinedInv'
  BY <1>30
  DEF Close, JoinedInv, NoneRegistered, AbortsIdle, Cycle, TypeOK, SessionType,
     PromptType, PumpType, CloserType, RuntimeType, CancellerType, AbortType
<1>31. ASSUME CloseCtxEnds PROVE JoinedInv'
  BY <1>31
  DEF CloseCtxEnds, JoinedInv, NoneRegistered, AbortsIdle, Cycle, TypeOK,
     SessionType, PromptType, PumpType, CloserType, RuntimeType, CancellerType,
     AbortType
<1>32. ASSUME AgentStarts PROVE JoinedInv'
  BY <1>32
  DEF AgentStarts, Open, Reads, JoinedInv, NoneRegistered, AbortsIdle, Cycle,
     TypeOK, SessionType, PromptType, PumpType, CloserType, RuntimeType,
     CancellerType, AbortType
<1>33. ASSUME CompactionStarts PROVE JoinedInv'
  BY <1>33
  DEF CompactionStarts, Reads, JoinedInv, NoneRegistered, AbortsIdle, Cycle,
     TypeOK, SessionType, PromptType, PumpType, CloserType, RuntimeType,
     CancellerType, AbortType
<1>34. ASSUME CompactionEnds PROVE JoinedInv'
  BY <1>34
  DEF CompactionEnds, Reads, JoinedInv, NoneRegistered, AbortsIdle, Cycle,
     TypeOK, SessionType, PromptType, PumpType, CloserType, RuntimeType,
     CancellerType, AbortType
<1>35. ASSUME Settled PROVE JoinedInv'
  BY <1>35
  DEF Settled, Reads, PumpAt, SettledTracks, JoinedInv, NoneRegistered,
     AbortsIdle, Cycle, TypeOK, SessionType, PromptType, PumpType, CloserType,
     RuntimeType, CancellerType, AbortType
<1>36. ASSUME PiDies PROVE JoinedInv'
  BY <1>36
  DEF PiDies, JoinedInv, NoneRegistered, AbortsIdle, Cycle, TypeOK, SessionType,
     PromptType, PumpType, CloserType, RuntimeType, CancellerType, AbortType
<1>37. ASSUME ExtensionFails PROVE JoinedInv'
  BY <1>37
  DEF ExtensionFails, Reads, PromptInv, PumpInv, Turn, Cycle, Interrupters,
     JoinedInv, NoneRegistered, AbortsIdle, TypeOK, SessionType, PromptType,
     PumpType, CloserType, RuntimeType, CancellerType, AbortType
<1>38. ASSUME StopTimesOut PROVE JoinedInv'
  BY <1>38
  DEF StopTimesOut, JoinedInv, NoneRegistered, AbortsIdle, Cycle, TypeOK,
     SessionType, PromptType, PumpType, CloserType, RuntimeType, CancellerType,
     AbortType
<1>39. ASSUME CancelReachesDialogs PROVE JoinedInv'
  <2>1. NoneRegistered => NoneRegistered'
    BY <1>39, CancelDialogsFacts DEF NoneRegistered, Same, CancelReachesDialogs
  <2> QED
    BY <1>39, <2>1
    DEF CancelReachesDialogs, JoinedInv, AbortsIdle, Turn, Cycle, TypeOK,
       CancellerType, AbortType, Interrupters
<1>40. ASSUME NEW d \in Dialogs, PiAsks(d) PROVE JoinedInv'
  BY <1>40
  DEF PiAsks, Reads, JoinedInv, NoneRegistered, AbortsIdle, Cycle, TypeOK,
     SessionType, PromptType, PumpType, CloserType, RuntimeType, CancellerType,
     AbortType
<1>41. ASSUME NEW d \in Dialogs, ClientAnswers(d) PROVE JoinedInv'
  <2>1. NoneRegistered => NoneRegistered'
    BY <1>41, DialogWorks DEF NoneRegistered, Works
  <2> QED
    BY <1>41, <2>1 DEF ClientAnswers, Returned, JoinedInv, AbortsIdle, Cycle
<1>42. ASSUME NEW d \in Dialogs, DialogDismissed(d) PROVE JoinedInv'
  <2>1. NoneRegistered => NoneRegistered'
    BY <1>42, AnsweredFacts
    DEF NoneRegistered, DialogInv, DialogOK, DialogDismissed
  <2> QED
    BY <1>42, <2>1 DEF DialogDismissed, JoinedInv, AbortsIdle, Cycle
<1>43. ASSUME NEW d \in Dialogs, DialogCalls(d) PROVE JoinedInv'
  <2>1. NoneRegistered => NoneRegistered'
    BY <1>43, DialogWorks DEF NoneRegistered, Works
  <2> QED
    BY <1>43, <2>1 DEF DialogCalls, JoinedInv, AbortsIdle, Cycle
<1>44. ASSUME NEW d \in Dialogs, DialogEnds(d) PROVE JoinedInv'
  <2>1. NoneRegistered => NoneRegistered'
    BY <1>44, DialogWorks DEF NoneRegistered, Works
  <2> QED
    BY <1>44, <2>1 DEF DialogEnds, Returned, JoinedInv, AbortsIdle, Cycle
<1>45. ASSUME NEW d \in Dialogs, DialogResolves(d) PROVE JoinedInv'
  <2>1. NoneRegistered => NoneRegistered'
    BY <1>45, DialogWorks DEF NoneRegistered, Works
  <2> QED
    BY <1>45, <2>1 DEF DialogResolves, JoinedInv, AbortsIdle, Cycle
<1>46. ASSUME NEW d \in Dialogs, DialogResponds(d) PROVE JoinedInv'
  <2>1. NoneRegistered => NoneRegistered'
    BY <1>46, AnsweredFacts
    DEF NoneRegistered, DialogInv, DialogOK, DialogResponds
  <2> QED
    BY <1>46, <2>1 DEF DialogResponds, JoinedInv, AbortsIdle, Cycle
<1>47. ASSUME NEW k \in Interrupters, AbortChecks(k) PROVE JoinedInv'
  BY <1>47
  DEF AbortChecks, Interrupters, JoinedInv, NoneRegistered, AbortsIdle, Cycle,
     TypeOK, SessionType, PromptType, PumpType, CloserType, RuntimeType,
     CancellerType, AbortType
<1>48. ASSUME NEW k \in Interrupters, AbortAwaits(k) PROVE JoinedInv'
  BY <1>48
  DEF AbortAwaits, Interrupters, JoinedInv, NoneRegistered, AbortsIdle, Cycle,
     TypeOK, SessionType, PromptType, PumpType, CloserType, RuntimeType,
     CancellerType, AbortType
<1>49. ASSUME NEW k \in Interrupters, AbortWrites(k) PROVE JoinedInv'
  BY <1>49
  DEF AbortWrites, Interrupters, JoinedInv, NoneRegistered, AbortsIdle, Cycle,
     TypeOK, SessionType, PromptType, PumpType, CloserType, RuntimeType,
     CancellerType, AbortType
<1> QED
  BY <1>0, <1>1, <1>2, <1>3, <1>4, <1>5, <1>6, <1>7, <1>8, <1>9, <1>10, <1>11,
     <1>12, <1>13, <1>14, <1>15, <1>16, <1>17, <1>18, <1>19, <1>20, <1>21,
     <1>22, <1>23, <1>24, <1>25, <1>26, <1>27, <1>28, <1>29, <1>30, <1>31,
     <1>32, <1>33, <1>34, <1>35, <1>36, <1>37, <1>38, <1>39, <1>40, <1>41,
     <1>42, <1>43, <1>44, <1>45, <1>46, <1>47, <1>48, <1>49
  DEF Next, Environment, PromptStep, PumpStep, CloseStep, DialogStep,
      AbortStep, vars, DeadlinePasses

(* Compactions are numbered in their order.                                *)
LEMMA CompactionStepInv ==
  TypeOK /\ CompactionInv /\ [Next]_vars => CompactionInv'
<1> SUFFICES ASSUME TypeOK, CompactionInv, [Next]_vars PROVE CompactionInv'
  OBVIOUS
<1>0. ASSUME UNCHANGED <<runtime, aborts, closer>> PROVE CompactionInv'
  BY <1>0 DEF CompactionInv
<1>1. ASSUME PromptGrace PROVE CompactionInv'
  BY <1>1
  DEF PromptGrace, PromptAt, CompactionInv, TypeOK, RuntimeType, CloserType,
     AbortType, Compactions
<1>2. ASSUME RuntimeEnds PROVE CompactionInv'
  BY <1>2
  DEF RuntimeEnds, CompactionInv, TypeOK, RuntimeType, CloserType, AbortType,
     Compactions
<1>3. ASSUME EndUnbinds PROVE CompactionInv'
  BY <1>3
  DEF EndUnbinds, PumpAt, CompactionInv, TypeOK, RuntimeType, CloserType,
     AbortType, Compactions
<1>4. ASSUME CloseCancelsDialogs PROVE CompactionInv'
  BY <1>4
  DEF CloseCancelsDialogs, CloseAt, CompactionInv, TypeOK, RuntimeType,
     CloserType, AbortType, Compactions
<1>5. ASSUME CloseJoins PROVE CompactionInv'
  BY <1>5
  DEF CloseJoins, AfterTurn, CompactionInv, TypeOK, RuntimeType, CloserType,
     AbortType, Compactions
<1>6. ASSUME CloseChecks PROVE CompactionInv'
  BY <1>6
  DEF CloseChecks, CompactionInv, TypeOK, RuntimeType, CloserType, AbortType,
     Compactions
<1>7. ASSUME CloseAwaits PROVE CompactionInv'
  BY <1>7
  DEF CloseAwaits, CloseAt, CompactionInv, TypeOK, RuntimeType, CloserType,
     AbortType, Compactions
<1>8. ASSUME CloseWrites PROVE CompactionInv'
  BY <1>8
  DEF CloseWrites, AfterTurn, CompactionInv, TypeOK, RuntimeType, CloserType,
     AbortType, Compactions
<1>9. ASSUME CloseStops PROVE CompactionInv'
  BY <1>9
  DEF CloseStops, CompactionInv, TypeOK, RuntimeType, CloserType, AbortType,
     Compactions
<1>10. ASSUME CloseStopped PROVE CompactionInv'
  BY <1>10
  DEF CloseStopped, CloseAt, CompactionInv, TypeOK, RuntimeType, CloserType,
     AbortType, Compactions
<1>11. ASSUME CloseIdles PROVE CompactionInv'
  BY <1>11
  DEF CloseIdles, Idle, CompactionInv, TypeOK, RuntimeType, CloserType,
     AbortType, Compactions
<1>12. ASSUME Cancel PROVE CompactionInv'
  BY <1>12
  DEF Cancel, CompactionInv, TypeOK, RuntimeType, CloserType, AbortType,
     Compactions
<1>13. ASSUME Close PROVE CompactionInv'
  BY <1>13
  DEF Close, CompactionInv, TypeOK, RuntimeType, CloserType, AbortType,
     Compactions
<1>14. ASSUME CloseCtxEnds PROVE CompactionInv'
  BY <1>14
  DEF CloseCtxEnds, CompactionInv, TypeOK, RuntimeType, CloserType, AbortType,
     Compactions
<1>15. ASSUME CompactionStarts PROVE CompactionInv'
  BY <1>15, CompactionStartsFacts, InterruptsAssumption
  DEF CompactionStarts, CompactionInv, TypeOK, RuntimeType, CloserType,
      AbortType, Compactions
<1>16. ASSUME CompactionEnds PROVE CompactionInv'
  BY <1>16
  DEF CompactionEnds, Reads, CompactionInv, TypeOK, RuntimeType, CloserType,
     AbortType, Compactions
<1>17. ASSUME Settled PROVE CompactionInv'
  BY <1>17
  DEF Settled, Reads, PumpAt, SettledTracks, CompactionInv, TypeOK, RuntimeType,
     CloserType, AbortType, Compactions
<1>18. ASSUME PiDies PROVE CompactionInv'
  BY <1>18
  DEF PiDies, CompactionInv, TypeOK, RuntimeType, CloserType, AbortType,
     Compactions
<1>19. ASSUME ExtensionFails PROVE CompactionInv'
  BY <1>19
  DEF ExtensionFails, Reads, CompactionInv, TypeOK, RuntimeType, CloserType,
     AbortType, Compactions
<1>20. ASSUME StopTimesOut PROVE CompactionInv'
  BY <1>20
  DEF StopTimesOut, CompactionInv, TypeOK, RuntimeType, CloserType, AbortType,
     Compactions
<1>21. ASSUME CancelReachesDialogs PROVE CompactionInv'
  BY <1>21
  DEF CancelReachesDialogs, CompactionInv, TypeOK, RuntimeType, CloserType,
     AbortType, Compactions
<1>22. ASSUME NEW k \in Interrupters, AbortChecks(k) PROVE CompactionInv'
  BY <1>22
  DEF AbortChecks, CompactionInv, TypeOK, RuntimeType, CloserType, AbortType,
     Compactions
<1>23. ASSUME NEW k \in Interrupters, AbortAwaits(k) PROVE CompactionInv'
  BY <1>23
  DEF AbortAwaits, CompactionInv, TypeOK, RuntimeType, CloserType, AbortType,
     Compactions
<1>24. ASSUME NEW k \in Interrupters, AbortWrites(k) PROVE CompactionInv'
  BY <1>24
  DEF AbortWrites, CompactionInv, TypeOK, RuntimeType, CloserType, AbortType,
     Compactions
<1> QED
  BY <1>0, <1>1, <1>2, <1>3, <1>4, <1>5, <1>6, <1>7, <1>8, <1>9, <1>10, <1>11,
     <1>12, <1>13, <1>14, <1>15, <1>16, <1>17, <1>18, <1>19, <1>20, <1>21,
     <1>22, <1>23, <1>24
  DEF Next, Environment, PromptStep, PumpStep, CloseStep, DialogStep,
      AbortStep, vars, PromptWaits, PromptChecks, PromptAwaits, PromptStopped,
      PromptSettles, PromptCancelsDialogs, PromptJoins, PromptEnds, HoldEnds,
      CycleSettles, CycleCancelsDialogs, CycleJoins, CycleEnds,
      EndCancelsDialogs, EndJoins, DialogRegisters, PromptBegins, AgentStarts,
      DeadlinePasses, PiAsks, ClientAnswers, DialogDismissed, DialogCalls,
      DialogEnds, DialogResolves, DialogResponds, Returned

(* A waiter goes on only when its compaction is over or its time is up.    *)
LEMMA SparesStepInv ==
  TypeOK /\ PumpInv /\ LadderInv /\ JoinedInv /\ CompactionInv /\
    InterruptSparesCompaction /\ [Next]_vars => InterruptSparesCompaction'
<1> SUFFICES ASSUME TypeOK, PumpInv, LadderInv, JoinedInv, CompactionInv,
                    InterruptSparesCompaction, [Next]_vars
    PROVE  InterruptSparesCompaction'
  OBVIOUS
<1>0. ASSUME UNCHANGED <<deadline, runtime, aborts, closer>> PROVE InterruptSparesCompaction'
  BY <1>0 DEF InterruptSparesCompaction
<1>1. ASSUME PromptChecks PROVE InterruptSparesCompaction'
  BY <1>1
  DEF PromptChecks, SetDeadline, InterruptSparesCompaction, TypeOK, RuntimeType,
     CloserType, AbortType, DeadlineType, Interrupters
<1>2. ASSUME PromptGrace PROVE InterruptSparesCompaction'
  BY <1>2
  DEF PromptGrace, PromptAt, InterruptSparesCompaction, TypeOK, RuntimeType,
     CloserType, AbortType, DeadlineType, Interrupters
<1>3. ASSUME RuntimeEnds PROVE InterruptSparesCompaction'
  BY <1>3
  DEF RuntimeEnds, InterruptSparesCompaction, TypeOK, RuntimeType, CloserType,
     AbortType, DeadlineType, Interrupters
<1>4. ASSUME EndUnbinds PROVE InterruptSparesCompaction'
  BY <1>4
  DEF EndUnbinds, PumpAt, InterruptSparesCompaction, TypeOK, RuntimeType,
     CloserType, AbortType, DeadlineType, Interrupters
<1>5. ASSUME CloseCancelsDialogs PROVE InterruptSparesCompaction'
  BY <1>5
  DEF CloseCancelsDialogs, CloseAt, InterruptSparesCompaction, TypeOK,
     RuntimeType, CloserType, AbortType, DeadlineType, Interrupters
<1>6. ASSUME CloseJoins PROVE InterruptSparesCompaction'
  BY <1>6
  DEF CloseJoins, AfterTurn, InterruptSparesCompaction, TypeOK, RuntimeType,
     CloserType, AbortType, DeadlineType, Interrupters
<1>7. ASSUME CloseChecks PROVE InterruptSparesCompaction'
  BY <1>7
  DEF CloseChecks, SetDeadline, InterruptSparesCompaction, TypeOK, RuntimeType,
     CloserType, AbortType, DeadlineType, Interrupters
<1>8. ASSUME CloseAwaits PROVE InterruptSparesCompaction'
  BY <1>8
  DEF CloseAwaits, CloseAt, WaitOver, InterruptSparesCompaction, TypeOK,
     RuntimeType, CloserType, AbortType, DeadlineType, Interrupters
<1>9. ASSUME CloseWrites PROVE InterruptSparesCompaction'
  BY <1>9
  DEF CloseWrites, AfterTurn, InterruptSparesCompaction, TypeOK, RuntimeType,
     CloserType, AbortType, DeadlineType, Interrupters
<1>10. ASSUME CloseStops PROVE InterruptSparesCompaction'
  BY <1>10
  DEF CloseStops, InterruptSparesCompaction, TypeOK, RuntimeType, CloserType,
     AbortType, DeadlineType, Interrupters
<1>11. ASSUME CloseStopped PROVE InterruptSparesCompaction'
  BY <1>11
  DEF CloseStopped, CloseAt, InterruptSparesCompaction, TypeOK, RuntimeType,
     CloserType, AbortType, DeadlineType, Interrupters
<1>12. ASSUME CloseIdles PROVE InterruptSparesCompaction'
  BY <1>12
  DEF CloseIdles, Idle, InterruptSparesCompaction, TypeOK, RuntimeType,
     CloserType, AbortType, DeadlineType, Interrupters
<1>13. ASSUME PromptBegins PROVE InterruptSparesCompaction'
  <2>1. AbortsIdle /\ closer.pc = "none"
    BY <1>13 DEF PromptBegins, Open, JoinedInv, LadderInv, PumpInv
  <2> QED
    BY <1>13, <2>1 DEF PromptBegins, AbortsIdle, InterruptSparesCompaction
<1>14. ASSUME Cancel PROVE InterruptSparesCompaction'
  BY <1>14
  DEF Cancel, InterruptSparesCompaction, TypeOK, RuntimeType, CloserType,
     AbortType, DeadlineType, Interrupters
<1>15. ASSUME Close PROVE InterruptSparesCompaction'
  BY <1>15
  DEF Close, InterruptSparesCompaction, TypeOK, RuntimeType, CloserType,
     AbortType, DeadlineType, Interrupters
<1>16. ASSUME CloseCtxEnds PROVE InterruptSparesCompaction'
  BY <1>16
  DEF CloseCtxEnds, InterruptSparesCompaction, TypeOK, RuntimeType, CloserType,
     AbortType, DeadlineType, Interrupters
<1>17. ASSUME AgentStarts PROVE InterruptSparesCompaction'
  <2>1. AbortsIdle /\ closer.pc = "none"
    BY <1>17 DEF AgentStarts, Open, Reads, JoinedInv, LadderInv, PumpInv
  <2> QED
    BY <1>17, <2>1 DEF AgentStarts, AbortsIdle, InterruptSparesCompaction
<1>18. ASSUME CompactionStarts PROVE InterruptSparesCompaction'
  <2>1. \A n \in Nat : n <= runtime.compactions => n # runtime'.compacting
    BY <1>18, CompactionStartsFacts DEF TypeOK, RuntimeType, Compactions
  <2>2. closer.on \in Nat /\ \A k \in Interrupters : aborts[k].on \in Nat
    BY DEF TypeOK, CloserType, AbortType, Compactions
  <2>3. runtime'.done = runtime.done /\ runtime'.ctxDone = runtime.ctxDone
    BY <1>18, CompactionStartsFacts
  <2> QED
    BY <1>18, <2>1, <2>2, <2>3
    DEF CompactionStarts, CompactionInv, InterruptSparesCompaction
<1>19. ASSUME CompactionEnds PROVE InterruptSparesCompaction'
  BY <1>19
  DEF CompactionEnds, Reads, InterruptSparesCompaction, TypeOK, RuntimeType,
     CloserType, AbortType, DeadlineType, Interrupters
<1>20. ASSUME Settled PROVE InterruptSparesCompaction'
  BY <1>20
  DEF Settled, Reads, PumpAt, SettledTracks, InterruptSparesCompaction, TypeOK,
     RuntimeType, CloserType, AbortType, DeadlineType, Interrupters
<1>21. ASSUME PiDies PROVE InterruptSparesCompaction'
  BY <1>21
  DEF PiDies, InterruptSparesCompaction, TypeOK, RuntimeType, CloserType,
     AbortType, DeadlineType, Interrupters
<1>22. ASSUME ExtensionFails PROVE InterruptSparesCompaction'
  BY <1>22
  DEF ExtensionFails, Reads, InterruptSparesCompaction, TypeOK, RuntimeType,
     CloserType, AbortType, DeadlineType, Interrupters
<1>23. ASSUME DeadlinePasses PROVE InterruptSparesCompaction'
  BY <1>23
  DEF DeadlinePasses, InterruptSparesCompaction, TypeOK, RuntimeType,
     CloserType, AbortType, DeadlineType, Interrupters
<1>24. ASSUME StopTimesOut PROVE InterruptSparesCompaction'
  BY <1>24
  DEF StopTimesOut, InterruptSparesCompaction, TypeOK, RuntimeType, CloserType,
     AbortType, DeadlineType, Interrupters
<1>25. ASSUME CancelReachesDialogs PROVE InterruptSparesCompaction'
  BY <1>25
  DEF CancelReachesDialogs, InterruptSparesCompaction, TypeOK, RuntimeType,
     CloserType, AbortType, DeadlineType, Interrupters
<1>26. ASSUME NEW k \in Interrupters, AbortChecks(k) PROVE InterruptSparesCompaction'
  BY <1>26
  DEF AbortChecks, SetDeadline, InterruptSparesCompaction, TypeOK, RuntimeType,
     CloserType, AbortType, DeadlineType, Interrupters
<1>27. ASSUME NEW k \in Interrupters, AbortAwaits(k) PROVE InterruptSparesCompaction'
  BY <1>27
  DEF AbortAwaits, WaitOver, InterruptSparesCompaction, TypeOK, RuntimeType,
     CloserType, AbortType, DeadlineType, Interrupters
<1>28. ASSUME NEW k \in Interrupters, AbortWrites(k) PROVE InterruptSparesCompaction'
  BY <1>28
  DEF AbortWrites, InterruptSparesCompaction, TypeOK, RuntimeType, CloserType,
     AbortType, DeadlineType, Interrupters
<1> QED
  BY <1>0, <1>1, <1>2, <1>3, <1>4, <1>5, <1>6, <1>7, <1>8, <1>9, <1>10, <1>11,
     <1>12, <1>13, <1>14, <1>15, <1>16, <1>17, <1>18, <1>19, <1>20, <1>21,
     <1>22, <1>23, <1>24, <1>25, <1>26, <1>27, <1>28
  DEF Next, Environment, PromptStep, PumpStep, CloseStep, DialogStep,
      AbortStep, vars, PromptWaits, PromptAwaits, PromptStopped,
      PromptSettles, PromptCancelsDialogs, PromptJoins, PromptEnds, HoldEnds,
      CycleSettles, CycleCancelsDialogs, CycleJoins, CycleEnds,
      EndCancelsDialogs, EndJoins, DialogRegisters, PiAsks, ClientAnswers,
      DialogDismissed, DialogCalls, DialogEnds, DialogResolves,
      DialogResponds, Returned

(* The deadline follows the open foreground.                               *)
LEMMA FreshStepInv ==
  TypeOK /\ DeadlineIsFresh /\ [Next]_vars => DeadlineIsFresh'
<1> SUFFICES ASSUME TypeOK, DeadlineIsFresh, [Next]_vars PROVE DeadlineIsFresh'
  OBVIOUS
<1>0. ASSUME UNCHANGED <<session, deadline>> PROVE DeadlineIsFresh'
  BY <1>0 DEF DeadlineIsFresh
<1>1. ASSUME PromptChecks PROVE DeadlineIsFresh'
  BY <1>1
  DEF PromptChecks, SetDeadline, DeadlineIsFresh, TypeOK, SessionType,
     DeadlineType
<1>2. ASSUME PromptStopped PROVE DeadlineIsFresh'
  BY <1>2 DEF PromptStopped, DeadlineIsFresh, TypeOK, SessionType, DeadlineType
<1>3. ASSUME PromptSettles PROVE DeadlineIsFresh'
  BY <1>3
  DEF PromptSettles, PromptAt, DeadlineIsFresh, TypeOK, SessionType,
     DeadlineType
<1>4. ASSUME PromptEnds PROVE DeadlineIsFresh'
  BY <1>4
  DEF PromptEnds, Idle, DeadlineIsFresh, TypeOK, SessionType, DeadlineType
<1>5. ASSUME CycleSettles PROVE DeadlineIsFresh'
  BY <1>5
  DEF CycleSettles, PumpAt, DeadlineIsFresh, TypeOK, SessionType, DeadlineType
<1>6. ASSUME CycleEnds PROVE DeadlineIsFresh'
  BY <1>6
  DEF CycleEnds, PumpAt, Idle, DeadlineIsFresh, TypeOK, SessionType,
     DeadlineType
<1>7. ASSUME RuntimeEnds PROVE DeadlineIsFresh'
  BY <1>7, RuntimeEndsFacts DEF RuntimeEnds, DeadlineIsFresh
<1>8. ASSUME EndUnbinds PROVE DeadlineIsFresh'
  BY <1>8
  DEF EndUnbinds, PumpAt, DeadlineIsFresh, TypeOK, SessionType, DeadlineType
<1>9. ASSUME CloseChecks PROVE DeadlineIsFresh'
  BY <1>9
  DEF CloseChecks, SetDeadline, DeadlineIsFresh, TypeOK, SessionType,
     DeadlineType
<1>10. ASSUME CloseIdles PROVE DeadlineIsFresh'
  BY <1>10
  DEF CloseIdles, Idle, DeadlineIsFresh, TypeOK, SessionType, DeadlineType
<1>11. ASSUME PromptBegins PROVE DeadlineIsFresh'
  BY <1>11
  DEF PromptBegins, Open, DeadlineIsFresh, TypeOK, SessionType, DeadlineType
<1>12. ASSUME Cancel PROVE DeadlineIsFresh'
  BY <1>12 DEF Cancel, DeadlineIsFresh, TypeOK, SessionType, DeadlineType
<1>13. ASSUME Close PROVE DeadlineIsFresh'
  BY <1>13 DEF Close, DeadlineIsFresh, TypeOK, SessionType, DeadlineType
<1>14. ASSUME AgentStarts PROVE DeadlineIsFresh'
  BY <1>14
  DEF AgentStarts, Open, Reads, DeadlineIsFresh, TypeOK, SessionType,
     DeadlineType
<1>15. ASSUME DeadlinePasses PROVE DeadlineIsFresh'
  BY <1>15
  DEF DeadlinePasses, DeadlineIsFresh, TypeOK, SessionType, DeadlineType
<1>16. ASSUME NEW k \in Interrupters, AbortChecks(k) PROVE DeadlineIsFresh'
  BY <1>16
  DEF AbortChecks, SetDeadline, DeadlineIsFresh, TypeOK, SessionType,
     DeadlineType
<1> QED
  BY <1>0, <1>1, <1>2, <1>3, <1>4, <1>5, <1>6, <1>7, <1>8, <1>9, <1>10, <1>11,
     <1>12, <1>13, <1>14, <1>15, <1>16
  DEF Next, Environment, PromptStep, PumpStep, CloseStep, DialogStep,
      AbortStep, vars, PromptWaits, PromptAwaits, PromptGrace,
      PromptCancelsDialogs, PromptJoins, HoldEnds, CycleCancelsDialogs,
      CycleJoins, EndCancelsDialogs, EndJoins, DialogRegisters,
      CloseCancelsDialogs, CloseJoins, CloseAwaits, CloseWrites, CloseStops,
      CloseStopped, CloseCtxEnds, CompactionStarts, CompactionEnds, Settled,
      PiDies, ExtensionFails, StopTimesOut, CancelReachesDialogs, PiAsks,
      ClientAnswers, DialogDismissed, DialogCalls, DialogEnds, DialogResolves,
      DialogResponds, AbortAwaits, AbortWrites, Returned

-----------------------------------------------------------------------------
(* The invariant holds at first and every step keeps it.                   *)
LEMMA InitIInv == Init => IInv
<1> SUFFICES ASSUME Init PROVE IInv
  OBVIOUS
<1>1. TypeOK
  BY InterruptsAssumption
  DEF Init, TypeOK, SessionType, DeadlineType, RuntimeType, PromptType, PumpType,
      CancellerType, AbortType, CloserType, DialogType, Compactions, Foregrounds
<1>2. ControlInv
  BY DEF Init, ControlInv, PromptInv, PumpInv, LadderInv, Settling
<1>3. DialogInv
  BY DEF Init, DialogInv, DialogOK, Belongs, Asked
<1>4. OverInv
  BY DEF Init, OverInv, Ending
<1>5. JoinedInv
  BY DEF Init, JoinedInv, AbortsIdle
<1>6. CompactionInv
  BY DEF Init, CompactionInv
<1>7. InterruptSparesCompaction /\ DeadlineIsFresh
  BY DEF Init, InterruptSparesCompaction, DeadlineIsFresh
<1> QED
  BY <1>1, <1>2, <1>3, <1>4, <1>5, <1>6, <1>7 DEF IInv

LEMMA StepIInv == IInv /\ [Next]_vars => IInv'
<1> SUFFICES ASSUME IInv, [Next]_vars PROVE IInv'
  OBVIOUS
<1>1. TypeOK'
  BY TypeStep DEF IInv, ControlInv
<1>2. PromptInv' /\ PumpInv' /\ LadderInv'
  BY PromptStepInv, PumpStepInv, LadderStepInv DEF IInv, ControlInv
<1>3. DialogInv' /\ OverInv'
  BY DialogStepInv, OverStepInv DEF IInv, ControlInv
<1>4. JoinedInv' /\ CompactionInv'
  BY JoinedStepInv, CompactionStepInv DEF IInv, ControlInv
<1>5. InterruptSparesCompaction' /\ DeadlineIsFresh'
  BY SparesStepInv, FreshStepInv DEF IInv, ControlInv
<1> QED
  BY <1>1, <1>2, <1>3, <1>4, <1>5 DEF IInv, ControlInv

(* The parts hold in every reachable state, each on the strength of the   *)
(* others.                                                                 *)
THEOREM Invariance == Spec => []IInv
BY InitIInv, StepIInv, PTL DEF Spec

(* The state of every actor keeps its type.                                *)
THEOREM TypeCorrect == Spec => []TypeOK
<1>1. IInv => TypeOK
  BY DEF IInv
<1> QED
  BY <1>1, Invariance, PTL

(* Every dialog is answered exactly once, its action resolved, before the  *)
(* terminal idle of the foreground pi opened it in, however settlement,    *)
(* cancel, close and pi's death race with it (handleDialog,                *)
(* registerDialog, beginSettlement).                                       *)
THEOREM DialogsAlwaysEnd == Spec => []DialogsEndWithForeground
<1>1. IInv => DialogsEndWithForeground
  <2> SUFFICES ASSUME IInv, NEW d \in Dialogs
      PROVE  /\ dialogs[d].fg \in over => dialogs[d].pc = "done"
             /\ dialogs[d].pc = "done" => dialogs[d].action # "pending"
             /\ dialogs[d].responses = IF dialogs[d].pc = "done" THEN 1 ELSE 0
    BY DEF DialogsEndWithForeground
  <2>1. DialogOK(d) /\ Belongs(d)
    BY DEF IInv, DialogInv
  <2>2. dialogs[d].fg \in over => dialogs[d].fg # 0
    BY DEF IInv, TypeOK, Foregrounds
  <2>3. dialogs[d].fg \in over => ~dialogs[d].registered
    BY <2>1, <2>2 DEF Belongs, IInv, OverInv
  <2>4. dialogs[d] \in DialogType
    BY DEF IInv, TypeOK
  <2>5. dialogs[d].pc \in Asked \cup {"unasked", "done"}
    BY <2>4 DEF DialogType, Asked
  <2> QED
    BY <2>1, <2>2, <2>3, <2>5 DEF DialogOK
<1> QED
  BY <1>1, Invariance, PTL

(* An interrupt is not written, and a close does not stop pi, in the very  *)
(* compaction it waited for before the deadline or the waiter's context    *)
(* ended (awaitCompaction).                                                *)
THEOREM CompactionsAlwaysSpared == Spec => []InterruptSparesCompaction
<1>1. IInv => InterruptSparesCompaction
  BY DEF IInv
<1> QED
  BY <1>1, Invariance, PTL

(* No foreground inherits the deadline of an earlier one                   *)
(* (interruptDeadline, cleared as a foreground opens).                     *)
THEOREM DeadlineAlwaysFresh == Spec => []DeadlineIsFresh
<1>1. IInv => DeadlineIsFresh
  BY DEF IInv
<1> QED
  BY <1>1, Invariance, PTL

=============================================================================
