----------------------------- MODULE Interrupts -----------------------------
(***************************************************************************)
(* Interrupts, compaction waits and client dialogs of one pi generation    *)
(* (session.go, session_permissions.go, session_compaction.go): who is     *)
(* told to stop, who waits for whom, and what every foreground leaves      *)
(* behind.                                                                 *)
(*                                                                         *)
(* The actors are the prompt, the pump, session/cancel and the interrupts  *)
(* it and the pump start, the goroutine of every dialog, the shutdown      *)
(* ladder and pi.  Every critical section of s.mu is one action and so is  *)
(* every wait.  pi's stream is unbuffered and read in order, so a record   *)
(* is emitted when the pump takes it.  How foregrounds dispatch, commit    *)
(* and relaunch is Session's; here a prompt is dispatched as it begins.    *)
(***************************************************************************)
EXTENDS Naturals, FiniteSets

CONSTANTS
  Dialogs,        \* dialogs pi opens; each has an id of its own
  MaxCalls,       \* MaxConcurrentClientCalls
  MaxForegrounds, \* bound: prompts and agent-origin cycles
  MaxCompactions, \* bound: compactions
  None

ASSUME InterruptsAssumption ==
  /\ MaxCalls \in Nat /\ MaxForegrounds \in Nat /\ MaxCompactions \in Nat
  /\ None \notin Dialogs

Foregrounds == 1 .. MaxForegrounds

(* The two interrupts the callbacks count: session/cancel's and the one a  *)
(* failed wrapper extension starts from the pump.                          *)
Interrupters == {"cancel", "extension"}

VARIABLES
  session,   \* the fields s.mu guards
  deadline,  \* interruptDeadline, and the foreground it was set under
  runtime,   \* the generation and its process
  prompt,    \* the prompt request
  pump,      \* the generation's pump
  canceller, \* the handler of session/cancel
  aborts,    \* the interrupts under way
  closer,    \* the shutdown ladder
  dialogs,   \* every dialog and its goroutine
  over       \* history: foregrounds whose terminal idle was published

vars == <<session, deadline, runtime, prompt, pump, canceller, aborts, closer,
          dialogs, over>>

-----------------------------------------------------------------------------
Compactions == 0 .. MaxCompactions

(* The open foreground is the session's turn or its cycle, by origin.      *)
SessionType ==
  [closing : BOOLEAN, bound : BOOLEAN, current : 0 .. MaxForegrounds,
   opened : 0 .. MaxForegrounds, origin : {"prompt", "agent"},
   cancelled : BOOLEAN, settling : BOOLEAN, turnDone : BOOLEAN]

DeadlineType ==
  [at : {"unset", "running", "passed"}, under : 0 .. MaxForegrounds]

(* compacting is the compaction in progress, 0 while there is none.        *)
RuntimeType ==
  [alive : BOOLEAN, ending : BOOLEAN, done : BOOLEAN, ctxDone : BOOLEAN,
   compacting : Compactions, compactions : Compactions]

PromptType ==
  [pc : {"none", "wait", "compaction", "grace", "stop", "settle",
         "dialogs", "join", "idle"},
   on : Compactions, ended : BOOLEAN]

PumpType ==
  [pc : {"read", "register", "hold", "settle", "dialogs", "join",
         "idle", "endDialogs", "endJoin", "endUnbind", "done"},
   dialog : Dialogs \cup {None}, fg : 0 .. MaxForegrounds, closing : BOOLEAN]

CancellerType == [pc : {"idle", "dialogs"}, interrupts : BOOLEAN]

AbortType ==
  [pc : {"idle", "starting", "check", "wait", "write"}, on : Compactions]

CloserType ==
  [pc : {"none", "dialogs", "join", "check", "wait", "write",
         "stopCheck", "stopWait", "stop", "stopJoin", "idle", "done"},
   turn : BOOLEAN, bound : BOOLEAN, ctxDone : BOOLEAN, on : Compactions]

DialogType ==
  [pc : {"unasked", "budget", "call", "answered", "respond", "done"},
   fg : 0 .. MaxForegrounds, registered : BOOLEAN, cancelled : BOOLEAN,
   prompted : BOOLEAN, action : {"none", "pending", "resolved"},
   responses : 0 .. 2]

TypeOK ==
  /\ session \in SessionType
  /\ deadline \in DeadlineType
  /\ runtime \in RuntimeType
  /\ prompt \in PromptType
  /\ pump \in PumpType
  /\ canceller \in CancellerType
  /\ aborts \in [Interrupters -> AbortType]
  /\ closer \in CloserType
  /\ dialogs \in [Dialogs -> DialogType]
  /\ over \subseteq Foregrounds

Init ==
  /\ session = [closing |-> FALSE, bound |-> TRUE, current |-> 0,
                opened |-> 0, origin |-> "prompt", cancelled |-> FALSE,
                settling |-> FALSE, turnDone |-> FALSE]
  /\ deadline = [at |-> "unset", under |-> 0]
  /\ runtime = [alive |-> TRUE, ending |-> FALSE, done |-> FALSE,
                ctxDone |-> FALSE, compacting |-> 0, compactions |-> 0]
  /\ prompt = [pc |-> "none", on |-> 0, ended |-> FALSE]
  /\ pump = [pc |-> "read", dialog |-> None, fg |-> 0, closing |-> FALSE]
  /\ canceller = [pc |-> "idle", interrupts |-> FALSE]
  /\ aborts = [k \in Interrupters |-> [pc |-> "idle", on |-> 0]]
  /\ closer = [pc |-> "none", turn |-> FALSE, bound |-> FALSE,
               ctxDone |-> FALSE, on |-> 0]
  /\ dialogs = [d \in Dialogs |->
                 [pc |-> "unasked", fg |-> 0, registered |-> FALSE,
                  cancelled |-> FALSE, prompted |-> FALSE, action |-> "none",
                  responses |-> 0]]
  /\ over = {}

-----------------------------------------------------------------------------
(* What several actors share.                                              *)

Turn  == session.current # 0 /\ session.origin = "prompt"
Cycle == session.current # 0 /\ session.origin = "agent"

(* Mutant: a settlement joins the interrupts but not the dialogs.          *)
JoinedInterrupts == \A k \in Interrupters : aborts[k].pc = "idle"

(* s.callbacks: registered dialogs and interrupts not yet over.            *)
Joined ==
  /\ \A d \in Dialogs : ~dialogs[d].registered
  /\ \A k \in Interrupters : aborts[k].pc = "idle"

(* cancelDialogs: every registered dialog's context ends.                  *)
CancelDialogs ==
  dialogs' = [d \in Dialogs |->
    IF dialogs[d].registered THEN [dialogs[d] EXCEPT !.cancelled = TRUE]
    ELSE dialogs[d]]

(* awaitCompaction, first: an interrupt that finds a compaction in progress*)
(* sets the deadline unless this interrupt already has one.                *)
SetDeadline ==
  deadline' = IF runtime.compacting # 0 /\ deadline.at = "unset"
                THEN [at |-> "running", under |-> session.current]
                ELSE deadline

(* Mutant: an interrupt waits for a compaction without a deadline.         *)
WaitOverUnbounded(on) == runtime.compacting # on \/ runtime.done

(* Mutant: an interrupt does not wait for a compaction.                    *)
WaitOverAtOnce(on) == TRUE

(* Its wait: the compaction it found ends, the pump does, or the deadline  *)
(* passes.                                                                 *)
WaitOver(on) ==
  runtime.compacting # on \/ runtime.done \/ deadline.at = "passed"

DeadlinePasses ==
  /\ deadline.at = "running"
  /\ deadline' = [deadline EXCEPT !.at = "passed"]
  /\ UNCHANGED <<session, runtime, prompt, pump, canceller, aborts, closer,
                 dialogs, over>>

(* The terminal idle of the foreground, and the session gives it up.       *)
Idle ==
  /\ over' = over \cup {session.current}
  /\ session' = [session EXCEPT !.current = 0, !.origin = "prompt",
                                !.settling = FALSE, !.cancelled = FALSE,
                                !.turnDone = FALSE]

(* Mutant: a new foreground keeps the deadline of the last interrupt.      *)
OpenStale(origin) ==
  /\ session.current = 0 /\ session.opened < MaxForegrounds
  /\ session' = [session EXCEPT !.current = session.opened + 1,
                                !.opened = @ + 1, !.origin = origin]
  /\ UNCHANGED deadline

(* A new foreground clears the deadline.                                   *)
Open(origin) ==
  /\ session.current = 0 /\ session.opened < MaxForegrounds
  /\ session' = [session EXCEPT !.current = session.opened + 1,
                                !.opened = @ + 1, !.origin = origin]
  /\ deadline' = [at |-> "unset", under |-> 0]

-----------------------------------------------------------------------------
(* The prompt.                                                             *)

PromptAt(point) == prompt' = [prompt EXCEPT !.pc = point]

PromptBegins ==
  /\ prompt.pc = "none" /\ ~session.closing
  /\ session.bound /\ ~runtime.ending
  /\ Open("prompt")
  /\ prompt' = [pc |-> "wait", on |-> 0, ended |-> FALSE]
  /\ UNCHANGED <<runtime, pump, canceller, aborts, closer, dialogs, over>>

PromptWaits ==
  /\ prompt.pc = "wait" /\ prompt.ended
  /\ PromptAt("settle")
  /\ UNCHANGED <<session, deadline, runtime, pump, canceller, aborts, closer,
                 dialogs, over>>

(* Woken by its turn's context, the prompt waits for a compaction first.   *)
PromptChecks ==
  /\ prompt.pc = "wait" /\ session.turnDone
  /\ SetDeadline
  /\ prompt' = [prompt EXCEPT !.pc = IF runtime.compacting = 0 THEN "grace"
                                     ELSE "compaction",
                              !.on = runtime.compacting]
  /\ UNCHANGED <<session, runtime, pump, canceller, aborts, closer, dialogs,
                 over>>

(* The wait also ends with the turn.                                       *)
PromptAwaits ==
  /\ prompt.pc = "compaction"
  /\ WaitOver(prompt.on) \/ prompt.ended
  /\ prompt' = [prompt EXCEPT !.pc = "grace", !.on = 0]
  /\ UNCHANGED <<session, deadline, runtime, pump, canceller, aborts, closer,
                 dialogs, over>>

(* The turn settles, or outlasts its grace and loses its process.          *)
PromptGrace ==
  /\ prompt.pc = "grace"
  /\ \/ prompt.ended /\ PromptAt("settle") /\ UNCHANGED runtime
     \/ /\ PromptAt("stop")
        /\ runtime' = [runtime EXCEPT !.alive = FALSE]
  /\ UNCHANGED <<session, deadline, pump, canceller, aborts, closer, dialogs,
                 over>>

PromptStopped ==
  /\ prompt.pc = "stop" /\ runtime.done
  /\ prompt' = [prompt EXCEPT !.pc = "settle", !.ended = TRUE]
  /\ session' = [session EXCEPT !.bound = FALSE]
  /\ UNCHANGED <<deadline, runtime, pump, canceller, aborts, closer, dialogs,
                 over>>

(* settleTurn: beginSettlement in its three steps, then the terminal idle. *)
PromptSettles ==
  /\ prompt.pc = "settle"
  /\ session' = [session EXCEPT !.settling = TRUE]
  /\ PromptAt("dialogs")
  /\ UNCHANGED <<deadline, runtime, pump, canceller, aborts, closer, dialogs,
                 over>>

PromptCancelsDialogs ==
  /\ prompt.pc = "dialogs"
  /\ CancelDialogs
  /\ PromptAt("join")
  /\ UNCHANGED <<session, deadline, runtime, pump, canceller, aborts, closer,
                 over>>

PromptJoins ==
  /\ prompt.pc = "join" /\ Joined
  /\ PromptAt("idle")
  /\ UNCHANGED <<session, deadline, runtime, pump, canceller, aborts, closer,
                 dialogs, over>>

(* claimCancellation, the idle and the response; prompt's deferred calls   *)
(* end the turn.                                                           *)
PromptEnds ==
  /\ prompt.pc = "idle"
  /\ Idle
  /\ prompt' = [prompt EXCEPT !.pc = "none", !.ended = FALSE]
  /\ UNCHANGED <<deadline, runtime, pump, canceller, aborts, closer, dialogs>>

-----------------------------------------------------------------------------
(* The pump.                                                               *)

PumpAt(point) == pump' = [pump EXCEPT !.pc = point]

Reads == pump.pc = "read" /\ runtime.alive

AgentStarts ==
  /\ Reads /\ session.current = 0 /\ ~session.closing /\ session.bound
  /\ Open("agent")
  /\ UNCHANGED <<runtime, prompt, pump, canceller, aborts, closer, dialogs, over>>

(* trackCompaction: a second start continues the same compaction.          *)
CompactionStarts ==
  /\ Reads /\ session.bound /\ runtime.compacting = 0
  /\ runtime.compactions < MaxCompactions
  /\ runtime' = [runtime EXCEPT !.compactions = @ + 1,
                                !.compacting = runtime.compactions + 1]
  /\ UNCHANGED <<session, deadline, prompt, pump, canceller, aborts, closer,
                 dialogs, over>>

CompactionEnds ==
  /\ Reads /\ session.bound /\ runtime.compacting # 0
  /\ runtime' = [runtime EXCEPT !.compacting = 0]
  /\ UNCHANGED <<session, deadline, prompt, pump, canceller, aborts, closer,
                 dialogs, over>>

(* pi settles only once idle, so a compaction still tracked is over.       *)
SettledTracks == runtime' = [runtime EXCEPT !.compacting = 0]

(* agent_settled: the turn is told and finishes while the pump holds its   *)
(* records; a cycle is settled by the pump itself.                         *)
Settled ==
  /\ Reads /\ session.bound /\ session.current # 0 /\ ~prompt.ended
  /\ SettledTracks
  /\ IF Turn
       THEN /\ prompt' = [prompt EXCEPT !.ended = TRUE]
            /\ pump' = [pump EXCEPT !.pc = "hold"]
       ELSE PumpAt("settle") /\ UNCHANGED prompt
  /\ UNCHANGED <<session, deadline, canceller, aborts, closer, dialogs, over>>

HoldEnds ==
  /\ pump.pc = "hold" /\ (~prompt.ended \/ ~runtime.alive)
  /\ PumpAt("read")
  /\ UNCHANGED <<session, deadline, runtime, prompt, canceller, aborts, closer,
                 dialogs, over>>

CycleSettles ==
  /\ pump.pc = "settle"
  /\ session' = [session EXCEPT !.settling = Cycle \/ @]
  /\ PumpAt("dialogs")
  /\ UNCHANGED <<deadline, runtime, prompt, canceller, aborts, closer, dialogs,
                 over>>

CycleCancelsDialogs ==
  /\ pump.pc = "dialogs"
  /\ CancelDialogs
  /\ PumpAt("join")
  /\ UNCHANGED <<session, deadline, runtime, prompt, canceller, aborts, closer,
                 over>>

CycleJoins ==
  /\ pump.pc = "join" /\ Joined
  /\ PumpAt("idle")
  /\ UNCHANGED <<session, deadline, runtime, prompt, canceller, aborts, closer,
                 dialogs, over>>

CycleEnds ==
  /\ pump.pc = "idle"
  /\ IF Cycle THEN Idle ELSE UNCHANGED <<session, over>>
  /\ PumpAt("read")
  /\ UNCHANGED <<deadline, runtime, prompt, canceller, aborts, closer, dialogs>>

(* runtimeEnded: the bound generation takes its cycle over unless a close  *)
(* owns it.                                                                *)
RuntimeEnds ==
  /\ pump.pc = "read" /\ ~runtime.alive
  /\ LET takes == session.bound /\ ~session.closing /\ Cycle IN
     /\ runtime' = [runtime EXCEPT !.ending = @ \/ session.bound]
     /\ pump' = [pump EXCEPT !.pc = IF session.bound THEN "endDialogs"
                                    ELSE "endUnbind",
                             !.fg = IF takes THEN session.current ELSE 0]
     /\ session' = IF takes
                     THEN [session EXCEPT !.current = 0, !.cancelled = FALSE]
                     ELSE session
  /\ UNCHANGED <<deadline, prompt, canceller, aborts, closer, dialogs, over>>

EndCancelsDialogs ==
  /\ pump.pc = "endDialogs"
  /\ CancelDialogs
  /\ PumpAt("endJoin")
  /\ UNCHANGED <<session, deadline, runtime, prompt, canceller, aborts, closer,
                 over>>

EndJoins ==
  /\ pump.pc = "endJoin" /\ Joined
  /\ over' = IF pump.fg = 0 THEN over ELSE over \cup {pump.fg}
  /\ pump' = [pump EXCEPT !.pc = "endUnbind", !.fg = 0]
  /\ UNCHANGED <<session, deadline, runtime, prompt, canceller, aborts, closer,
                 dialogs>>

(* The turn learns that its transport ended, and the pump is done.         *)
EndUnbinds ==
  /\ pump.pc = "endUnbind"
  /\ session' = [session EXCEPT !.bound = FALSE, !.turnDone = @ \/ Turn]
  /\ prompt' = [prompt EXCEPT !.ended = @ \/ Turn]
  /\ runtime' = [runtime EXCEPT !.done = TRUE]
  /\ PumpAt("done")
  /\ UNCHANGED <<deadline, canceller, aborts, closer, dialogs, over>>

-----------------------------------------------------------------------------
(* Dialogs.                                                                *)

(* handleDialog reads the foreground in one critical section ...           *)
PiAsks(d) ==
  /\ Reads /\ dialogs[d].pc = "unasked"
  /\ pump' = [pc |-> "register", dialog |-> d, fg |-> session.current,
              closing |-> session.closing]
  /\ UNCHANGED <<session, deadline, runtime, prompt, canceller, aborts, closer,
                 dialogs, over>>

(* ... and registerDialog admits it in another.                            *)
Admits ==
  /\ ~session.closing /\ session.bound
  /\ session.current # 0 => ~session.cancelled /\ ~session.settling

(* Mutant: a dialog that was answered is not taken off.                    *)
AnsweredAgain(d) ==
  dialogs' = [dialogs EXCEPT
    ![d] = [dialogs[d] EXCEPT !.registered = FALSE,
                              !.responses = dialogs[d].responses + 1]]

(* respond, and the dialog leaves the callbacks.                           *)
Answered(d) ==
  dialogs' = [dialogs EXCEPT
    ![d] = [dialogs[d] EXCEPT !.pc = "done", !.registered = FALSE,
                              !.cancelled = FALSE, !.prompted = FALSE,
                              !.responses = dialogs[d].responses + 1]]

(* A refused dialog is answered as cancelled by the pump itself.           *)
DialogRegisters ==
  /\ pump.pc = "register"
  /\ LET d == pump.dialog IN
     IF Admits /\ pump.fg # 0 /\ ~pump.closing
       THEN dialogs' = [dialogs EXCEPT
              ![d] = [dialogs[d] EXCEPT !.pc = "budget", !.registered = TRUE,
                                        !.fg = pump.fg, !.prompted = Turn]]
       ELSE Answered(d)
  /\ pump' = [pump EXCEPT !.pc = "read", !.dialog = None, !.fg = 0,
                          !.closing = FALSE]
  /\ UNCHANGED <<session, deadline, runtime, prompt, canceller, aborts, closer,
                 over>>

(* The pump dismisses a dialog it cannot announce or whose context has     *)
(* ended meanwhile; nobody can overtake it before the dialog is answered.  *)
DialogDismissed(d) ==
  /\ dialogs[d].pc = "budget"
  /\ Answered(d)
  /\ UNCHANGED <<session, deadline, runtime, prompt, pump, canceller, aborts,
                 closer, over>>

Calling == {d \in Dialogs : dialogs[d].pc \in {"call", "answered"}}

(* acquireClientCall without waiting; the request goes out and its action  *)
(* is announced.  A client that takes no such request is not asked.        *)
DialogCalls(d) ==
  /\ dialogs[d].pc = "budget"
  /\ \/ /\ Cardinality(Calling) < MaxCalls
        /\ dialogs' = [dialogs EXCEPT
                         ![d] = [dialogs[d] EXCEPT !.pc = "call", !.action = "pending"]]
     \/ dialogs' = [dialogs EXCEPT ![d].pc = "respond"]
  /\ UNCHANGED <<session, deadline, runtime, prompt, pump, canceller, aborts,
                 closer, over>>

(* A dialog's context ends with its cancellation, a prompt's also with the *)
(* turn.                                                                   *)
DialogOver(d) ==
  \/ dialogs[d].cancelled
  \/ dialogs[d].prompted /\ session.turnDone /\ dialogs[d].fg = session.current

Returned(d) ==
  /\ dialogs' = [dialogs EXCEPT ![d].pc = "answered"]
  /\ UNCHANGED <<session, deadline, runtime, prompt, pump, canceller, aborts,
                 closer, over>>

ClientAnswers(d) == dialogs[d].pc = "call" /\ Returned(d)

DialogEnds(d) == dialogs[d].pc = "call" /\ DialogOver(d) /\ Returned(d)

(* announcedRequest resolves the action before the response goes to pi.    *)
DialogResolves(d) ==
  /\ dialogs[d].pc = "answered"
  /\ dialogs' = [dialogs EXCEPT
                   ![d] = [dialogs[d] EXCEPT !.pc = "respond", !.action = "resolved"]]
  /\ UNCHANGED <<session, deadline, runtime, prompt, pump, canceller, aborts,
                 closer, over>>

DialogResponds(d) ==
  /\ dialogs[d].pc = "respond"
  /\ Answered(d)
  /\ UNCHANGED <<session, deadline, runtime, prompt, pump, canceller, aborts,
                 closer, over>>

-----------------------------------------------------------------------------
(* session/cancel, and the interrupts.                                     *)

(* cancel marks the foreground and counts its interrupt in one section ... *)
Cancel ==
  /\ canceller.pc = "idle" /\ session.current # 0 /\ ~session.cancelled
  /\ LET interrupts == /\ ~session.settling /\ session.bound
                       /\ ~session.closing /\ ~runtime.ending
     IN /\ canceller' = [pc |-> "dialogs", interrupts |-> interrupts]
        /\ aborts' = IF interrupts THEN [aborts EXCEPT !["cancel"].pc = "starting"]
                     ELSE aborts
  /\ session' = [session EXCEPT !.cancelled = TRUE, !.turnDone = Turn]
  /\ UNCHANGED <<deadline, runtime, prompt, pump, closer, dialogs, over>>

(* ... and ends the dialogs registered by then before it starts it.        *)
CancelReachesDialogs ==
  /\ canceller.pc = "dialogs"
  /\ CancelDialogs
  /\ canceller' = [pc |-> "idle", interrupts |-> FALSE]
  /\ aborts' = IF canceller.interrupts
                 THEN [aborts EXCEPT !["cancel"].pc = "check"] ELSE aborts
  /\ UNCHANGED <<session, deadline, runtime, prompt, pump, closer, over>>

(* abortAsync, on the failure of a wrapper extension the pump projects.    *)
ExtensionFails ==
  /\ Reads /\ session.current # 0 /\ ~session.cancelled
  /\ session.bound /\ ~session.closing /\ ~session.settling
  /\ aborts["extension"].pc = "idle"
  /\ aborts' = [aborts EXCEPT !["extension"].pc = "check"]
  /\ UNCHANGED <<session, deadline, runtime, prompt, pump, canceller, closer,
                 dialogs, over>>

AbortChecks(k) ==
  /\ aborts[k].pc = "check"
  /\ SetDeadline
  /\ aborts' = [aborts EXCEPT ![k] =
                  [pc |-> IF runtime.compacting = 0 THEN "write" ELSE "wait",
                   on |-> runtime.compacting]]
  /\ UNCHANGED <<session, runtime, prompt, pump, canceller, closer, dialogs, over>>

(* The pump's own interrupt runs under the generation's context.           *)
AbortAwaits(k) ==
  /\ aborts[k].pc = "wait"
  /\ WaitOver(aborts[k].on) \/ (k = "extension" /\ runtime.ctxDone)
  /\ aborts' = [aborts EXCEPT ![k].pc = "write"]
  /\ UNCHANGED <<session, deadline, runtime, prompt, pump, canceller, closer,
                 dialogs, over>>

(* The abort command is answered or times out.                             *)
AbortWrites(k) ==
  /\ aborts[k].pc = "write"
  /\ aborts' = [aborts EXCEPT ![k] = [pc |-> "idle", on |-> 0]]
  /\ UNCHANGED <<session, deadline, runtime, prompt, pump, canceller, closer,
                 dialogs, over>>

-----------------------------------------------------------------------------
(* close.                                                                  *)

CloseAt(point) == closer' = [closer EXCEPT !.pc = point]

Close ==
  /\ ~session.closing
  /\ session' = [session EXCEPT !.closing = TRUE,
                   !.cancelled = @ \/ Turn, !.turnDone = @ \/ Turn]
  /\ closer' = [pc |-> "dialogs", turn |-> Turn, bound |-> session.bound,
                ctxDone |-> FALSE, on |-> 0]
  /\ UNCHANGED <<deadline, runtime, prompt, pump, canceller, aborts, dialogs, over>>

CloseCancelsDialogs ==
  /\ closer.pc = "dialogs"
  /\ CancelDialogs
  /\ CloseAt("join")
  /\ UNCHANGED <<session, deadline, runtime, prompt, pump, canceller, aborts, over>>

AfterTurn == IF closer.bound THEN "stopCheck" ELSE "idle"

CloseJoins ==
  /\ closer.pc = "join" /\ Joined
  /\ closer' = [closer EXCEPT
       !.pc = IF closer.turn /\ closer.bound THEN "check" ELSE AfterTurn,
       !.turn = FALSE]
  /\ UNCHANGED <<session, deadline, runtime, prompt, pump, canceller, aborts,
                 dialogs, over>>

(* The turn's interrupt and the stop wait for a compaction each, under the *)
(* same deadline and close's own context.                                  *)
CloseChecks ==
  /\ closer.pc \in {"check", "stopCheck"}
  /\ SetDeadline
  /\ LET waits == runtime.compacting # 0 IN
     closer' = [closer EXCEPT
       !.on = runtime.compacting,
       !.pc = IF closer.pc = "check" THEN (IF waits THEN "wait" ELSE "write")
              ELSE IF waits THEN "stopWait" ELSE "stop"]
  /\ UNCHANGED <<session, runtime, prompt, pump, canceller, aborts, dialogs, over>>

CloseAwaits ==
  /\ closer.pc \in {"wait", "stopWait"}
  /\ WaitOver(closer.on) \/ closer.ctxDone
  /\ CloseAt(IF closer.pc = "wait" THEN "write" ELSE "stop")
  /\ UNCHANGED <<session, deadline, runtime, prompt, pump, canceller, aborts,
                 dialogs, over>>

(* The turn then finishes, or the settle timeout passes.                   *)
CloseWrites ==
  /\ closer.pc = "write"
  /\ closer' = [closer EXCEPT !.pc = AfterTurn, !.on = 0]
  /\ UNCHANGED <<session, deadline, runtime, prompt, pump, canceller, aborts,
                 dialogs, over>>

CloseStops ==
  /\ closer.pc = "stop"
  /\ runtime' = [runtime EXCEPT !.alive = FALSE]
  /\ closer' = [closer EXCEPT !.pc = "stopJoin", !.on = 0, !.ctxDone = FALSE]
  /\ UNCHANGED <<session, deadline, prompt, pump, canceller, aborts, dialogs, over>>

CloseStopped ==
  /\ closer.pc = "stopJoin" /\ runtime.done
  /\ CloseAt("idle")
  /\ UNCHANGED <<session, deadline, runtime, prompt, pump, canceller, aborts,
                 dialogs, over>>

CloseIdles ==
  /\ closer.pc = "idle"
  /\ IF Cycle THEN Idle ELSE UNCHANGED <<session, over>>
  /\ closer' = [pc |-> "done", turn |-> FALSE, bound |-> FALSE,
                ctxDone |-> FALSE, on |-> 0]
  /\ UNCHANGED <<deadline, runtime, prompt, pump, canceller, aborts, dialogs>>

CloseCtxEnds ==
  /\ closer.pc \in {"wait", "stopWait"} /\ ~closer.ctxDone
  /\ closer' = [closer EXCEPT !.ctxDone = TRUE]
  /\ UNCHANGED <<session, deadline, runtime, prompt, pump, canceller, aborts,
                 dialogs, over>>

(* stopRuntime: a pump that outlives the shutdown loses its context.       *)
StopTimesOut ==
  /\ prompt.pc = "stop" \/ closer.pc = "stopJoin"
  /\ ~runtime.done /\ ~runtime.ctxDone
  /\ runtime' = [runtime EXCEPT !.ctxDone = TRUE]
  /\ UNCHANGED <<session, deadline, prompt, pump, canceller, aborts, closer,
                 dialogs, over>>

PiDies ==
  /\ runtime.alive
  /\ runtime' = [runtime EXCEPT !.alive = FALSE]
  /\ UNCHANGED <<session, deadline, prompt, pump, canceller, aborts, closer,
                 dialogs, over>>

-----------------------------------------------------------------------------
PromptStep ==
  \/ PromptWaits \/ PromptChecks \/ PromptAwaits \/ PromptGrace \/ PromptStopped
  \/ PromptSettles \/ PromptCancelsDialogs \/ PromptJoins \/ PromptEnds

PumpStep ==
  \/ HoldEnds \/ CycleSettles \/ CycleCancelsDialogs \/ CycleJoins \/ CycleEnds
  \/ RuntimeEnds \/ EndCancelsDialogs \/ EndJoins \/ EndUnbinds
  \/ DialogRegisters

DialogStep(d) ==
  DialogDismissed(d) \/ DialogCalls(d) \/ DialogEnds(d) \/ DialogResolves(d) \/ DialogResponds(d)

AbortStep(k) == AbortChecks(k) \/ AbortAwaits(k) \/ AbortWrites(k)

CloseStep ==
  \/ CloseCancelsDialogs \/ CloseJoins \/ CloseChecks \/ CloseAwaits
  \/ CloseWrites \/ CloseStops \/ CloseStopped \/ CloseIdles

(* What the client and pi may do, or never do.                             *)
Environment ==
  \/ PromptBegins \/ Cancel \/ Close \/ CloseCtxEnds
  \/ AgentStarts \/ CompactionStarts \/ CompactionEnds \/ Settled \/ PiDies
  \/ ExtensionFails
  \/ \E d \in Dialogs : PiAsks(d) \/ ClientAnswers(d)

Next ==
  \/ Environment \/ DeadlinePasses \/ StopTimesOut
  \/ PromptStep \/ PumpStep \/ CancelReachesDialogs \/ CloseStep
  \/ \E d \in Dialogs : DialogStep(d)
  \/ \E k \in Interrupters : AbortStep(k)

Spec == Init /\ [][Next]_vars

(* Every goroutine of the adapter runs and every timer fires.  Nothing is  *)
(* owed by the client or by pi: a dialog may never be answered, a          *)
(* compaction may never end and a run may never settle.                    *)
Fairness ==
  /\ WF_vars(DeadlinePasses)
  /\ WF_vars(PromptStep) /\ WF_vars(PumpStep) /\ WF_vars(CancelReachesDialogs)
  /\ \A d \in Dialogs : WF_vars(DialogStep(d))
  /\ \A k \in Interrupters : WF_vars(AbortStep(k))

FairSpec == Spec /\ Fairness

-----------------------------------------------------------------------------
(* Properties.                                                             *)

(* Once the terminal idle of a foreground is out, every dialog pi opened   *)
(* in it was answered exactly once and its action resolved: registration,  *)
(* cancellation and the joins race, and no path may leave a dialog behind  *)
(* or answer it twice (handleDialog: "Exactly one response reaches pi").   *)
DialogsEndWithForeground ==
  \A d \in Dialogs :
    /\ dialogs[d].fg \in over => dialogs[d].pc = "done"
    /\ dialogs[d].pc = "done" => dialogs[d].action # "pending"
    /\ dialogs[d].responses = IF dialogs[d].pc = "done" THEN 1 ELSE 0

(* No interrupt is written, and no close stops the process, in the very    *)
(* compaction it waited for, before the shared deadline passed or the      *)
(* waiter's own context ended (awaitCompaction).                           *)
InterruptSparesCompaction ==
  LET spared(on) ==
        on = 0 \/ on # runtime.compacting \/ runtime.done \/ deadline.at = "passed"
  IN /\ \A k \in Interrupters :
          aborts[k].pc = "write"
            => spared(aborts[k].on) \/ (k = "extension" /\ runtime.ctxDone)
     /\ closer.pc \in {"write", "stop"} => spared(closer.on) \/ closer.ctxDone

(* A foreground's interrupts are never cut short by the deadline of an     *)
(* earlier foreground's: nobody sets it again once a new one has opened.   *)
DeadlineIsFresh ==
  session.current # 0 /\ deadline.at # "unset"
    => deadline.under = session.current

(* The open foreground settles, or is a prompt that was cancelled.         *)
ToldToEnd == session.settling \/ (Turn /\ session.cancelled)

(* A foreground that settles, a cancelled prompt and a cycle whose pi died *)
(* reach their terminal idle, although the client may never answer a       *)
(* dialog, pi may never end a compaction, never settle and die at any      *)
(* point: again and again every foreground is over, or open and left alone.*)
ForegroundsEnd ==
  []<>(\A f \in 1 .. session.opened :
         f \in over \/ (session.current = f /\ ~ToldToEnd))

=============================================================================
