----------------------------- MODULE Projection -----------------------------
(***************************************************************************)
(* How the pump projects pi's events to the client (session_updates.go,    *)
(* image_output.go, session_compaction.go): one cycle after another, its   *)
(* assistant text, its tool calls and their images, and its usage.         *)
(*                                                                         *)
(* The pump reads pi's stream in order and handles one event at a time, so *)
(* an event pi emits and its projection are one action.  session/cancel    *)
(* falls between two events.  A delivery the client refuses is recorded as *)
(* the cycle's failure and the next event is projected all the same.       *)
(***************************************************************************)
EXTENDS Naturals, FiniteSets

CONSTANTS
  Tools,     \* tool call ids; pi uses each for one call
  Texts,     \* texts a tool reports
  Images,    \* image blocks, of one byte each
  Refused,   \* the images DecodeOutput refuses with guidance for the model
  Fatal,     \* the images whose refusal ends the turn
  PerCall,   \* EffectiveOutputPerToolCall
  None,
  Guidance,  \* the text that takes the place of a refused image
  MaxCycles, \* bound: cycles
  MaxEpoch,  \* bound: contexts pi goes through, one more than its compactions
  MaxText,   \* bound: length of an assistant text
  MaxLost    \* bound: updates the client refuses

ASSUME ProjectionAssumption ==
  /\ IsFiniteSet(Images) /\ Refused \subseteq Images /\ Fatal \subseteq Images
  /\ Refused \cap Fatal = {}
  /\ {None, Guidance} \cap (Texts \cup Images) = {} /\ None # Guidance
  /\ {PerCall, MaxCycles, MaxEpoch, MaxText, MaxLost} \subseteq Nat
  /\ MaxEpoch >= 1

VARIABLES
  cycle,   \* the open cycle: its mark and its failure
  state,   \* struct cycleState of that cycle
  pi,      \* what pi has emitted, from which its next event follows
  client,  \* what the client has been told
  lost     \* updates it refused

vars == <<cycle, state, pi, client, lost>>

-----------------------------------------------------------------------------
(* What a tool reports: pi's blocks as at most one text and some images.   *)
Content == [text : Texts \cup {None}, images : SUBSET Images]
Empty   == [text |-> None, images |-> {}]

(* How many items a snapshot has.                                          *)
Size(content) ==
  Cardinality(content.images) + IF content.text = None THEN 0 ELSE 1

ToolState == [published : BOOLEAN, terminal : BOOLEAN, content : Content]
NewTool   == [published |-> FALSE, terminal |-> FALSE, content |-> Empty]

(* stopReason "error" fails the cycle, "aborted" is a cancel of pi's own, *)
(* and "stop" stands for every other one, for limits and for none yet.     *)
StopReasons == {"stop", "error", "aborted"}

CycleType == [open : BOOLEAN, count : 0 .. MaxCycles,
              cancelled : BOOLEAN, failed : BOOLEAN]

(* A context figure is the context it was measured in; 0 is no figure.     *)
StateType ==
  [context : 0 .. MaxEpoch, stop : StopReasons, imagesEmitted : BOOLEAN,
   inputPending : BOOLEAN, streamed : 0 .. MaxText,
   tools : [Tools -> ToolState]]

NewState ==
  [context |-> 0, stop |-> "stop", imagesEmitted |-> FALSE,
   inputPending |-> FALSE, streamed |-> 0, tools |-> [t \in Tools |-> NewTool]]

PiType ==
  [streaming : BOOLEAN, text : 0 .. MaxText, epoch : 1 .. MaxEpoch,
   measured : BOOLEAN, asked : SUBSET Tools, started : SUBSET Tools,
   ended : SUBSET Tools]

Statuses == {"unknown", "pending", "in_progress", "completed", "failed"}

Shown == Content \cup [text : {Guidance}, images : {{}}]

ClientType ==
  [text : 0 .. MaxText, images : BOOLEAN, used : 0 .. MaxEpoch,
   verdict : {"none", "success", "cancelled", "failed"},
   tools : [Tools -> [status : Statuses, content : Shown]]]

TypeOK ==
  /\ cycle \in CycleType
  /\ state \in StateType
  /\ pi \in PiType
  /\ client \in ClientType
  /\ lost \in 0 .. MaxLost

(* A restored pi may hold an estimate of its context from the start.       *)
Init ==
  /\ cycle = [open |-> FALSE, count |-> 0, cancelled |-> FALSE, failed |-> FALSE]
  /\ state = NewState
  /\ pi \in [streaming : {FALSE}, text : {0}, epoch : {1}, measured : BOOLEAN,
             asked : {{}}, started : {{}}, ended : {{}}]
  /\ client = [text |-> 0, images |-> FALSE, used |-> 0, verdict |-> "none",
               tools |-> [t \in Tools |-> [status |-> "unknown",
                                           content |-> Empty]]]
  /\ lost = 0

-----------------------------------------------------------------------------
(* Delivery.                                                               *)

(* Whether the client takes the next update.                               *)
Takes == IF lost < MaxLost THEN BOOLEAN ELSE {TRUE}

Count(taken) == lost' = IF taken THEN lost ELSE lost + 1

(* recordFailure keeps that an update of the cycle was refused.            *)
RecordFailure(failure) == cycle' = [cycle EXCEPT !.failed = @ \/ failure]

(* A cancelled cycle projects nothing but compactions and its settlement.  *)
Projects == cycle.open /\ ~cycle.cancelled

Unprojected == UNCHANGED <<cycle, state, client, lost>>

(* The calls of this run that pi has yet to end.                           *)
Pending == (pi.asked \cup pi.started) \ pi.ended
Running == pi.started \ pi.ended

-----------------------------------------------------------------------------
(* Cycles.                                                                 *)

OpenCycle ==
  /\ ~cycle.open /\ cycle.count < MaxCycles
  /\ cycle' = [open |-> TRUE, count |-> cycle.count + 1,
               cancelled |-> FALSE, failed |-> FALSE]
  /\ pi' = [pi EXCEPT !.text = 0, !.asked = {}, !.started = {}]
  /\ client' = [client EXCEPT !.text = 0, !.verdict = "none"]
  /\ UNCHANGED <<state, lost>>

Cancel ==
  /\ Projects
  /\ cycle' = [cycle EXCEPT !.cancelled = TRUE]
  /\ UNCHANGED <<state, pi, client, lost>>

(* A wrapper extension failed: the cycle fails closed.                     *)
ExtensionError ==
  /\ Projects
  /\ RecordFailure(TRUE)
  /\ UNCHANGED <<state, pi, client, lost>>

(* judgeCycle: the cancel guard runs before every failure mapping.         *)
Verdict ==
  IF cycle.cancelled THEN "cancelled"
  ELSE IF cycle.failed \/ state.stop = "error" THEN "failed"
  ELSE IF state.stop = "aborted" THEN "cancelled" ELSE "success"

(* pi's estimate of its context, when it has one.                          *)
Estimates == IF pi.measured THEN {0, pi.epoch} ELSE {0}

(* emitSettledUsage: pi's estimate, else what the last response left.      *)
SettledUsage(estimate) == IF estimate # 0 THEN estimate ELSE state.context

(* agent_settled: pi has ended every message and running call of the run;  *)
(* one it was interrupted in may drop a call it had only asked for.        *)
(* Statistics are read and reported for a cycle nobody cancelled; the      *)
(* cycle and its state go.                                                 *)
Settle ==
  /\ cycle.open /\ ~pi.streaming /\ Running = {}
  /\ Pending = {} \/ cycle.cancelled \/ cycle.failed
  /\ \E estimate \in Estimates, taken \in Takes, stats \in BOOLEAN :
       LET used == SettledUsage(estimate)
           told == ~cycle.cancelled /\ stats /\ used # 0
       IN /\ client' = [client EXCEPT !.verdict = Verdict,
                                      !.used = IF told /\ taken THEN used ELSE @,
                                      !.images = FALSE]
          /\ IF told THEN Count(taken) ELSE UNCHANGED lost
  /\ cycle' = [cycle EXCEPT !.open = FALSE, !.cancelled = FALSE, !.failed = FALSE]
  /\ pi' = [pi EXCEPT !.ended = @ \cup pi.asked]
  /\ state' = NewState

-----------------------------------------------------------------------------
(* Assistant messages.                                                     *)

MessageStart ==
  /\ cycle.open /\ ~pi.streaming /\ Pending = {}
  /\ pi' = [pi EXCEPT !.streaming = TRUE, !.text = 0]
  /\ IF Projects
       THEN /\ state' = [state EXCEPT !.streamed = 0, !.inputPending = TRUE]
            /\ client' = [client EXCEPT !.text = 0]
            /\ UNCHANGED <<cycle, lost>>
       ELSE Unprojected

(* emitResponseInput: the figure of the input, if pi has one, goes ahead of*)
(* the first delta of a message.                                           *)
InputIsDue(figure) == state.inputPending /\ figure

(* emitAssistantDelta: what was streamed counts even if it was refused, but*)
(* a refused input figure keeps its delta from being streamed.             *)
Streamed(said, refused) == IF refused = "usage" THEN 0 ELSE said

(* What the client may refuse of the updates an event sends.               *)
Refusable(sends) == {"none"} \cup (IF lost < MaxLost THEN sends ELSE {})

MessageUpdate ==
  /\ pi.streaming
  /\ \E said \in {0, 1}, figure \in BOOLEAN :
       LET sends == {u \in {"usage", "text"} :
                       \/ u = "usage" /\ InputIsDue(figure)
                       \/ u = "text" /\ said = 1}
       IN /\ pi.text + said <= MaxText
          /\ pi' = [pi EXCEPT !.text = @ + said]
          /\ IF Projects
               THEN \E refused \in Refusable(sends) :
                      /\ Count(refused = "none") /\ RecordFailure(refused # "none")
                      /\ state' = [state EXCEPT
                           !.inputPending = FALSE,
                           !.streamed = @ + Streamed(said, refused)]
                      /\ client' = [client EXCEPT
                           !.text = IF refused = "none" THEN @ + said ELSE @,
                           !.used = IF "usage" \in sends \ {refused}
                                      THEN pi.epoch ELSE @]
               ELSE Unprojected

(* Mutant: the terminal frame repeats the text the deltas carried.         *)
SuffixWhole(length) == length

(* emitAssistantTextSuffix: what the deltas of the message did not carry.  *)
Suffix(length) == length - state.streamed

(* emitAssistantImages: an image of the message, or the guidance in place  *)
(* of one that is refused.                                                 *)
AssistantImages == {"none", "decoded", "refused"}

(* observeAssistantMessageEnd: a message may carry no reason.              *)
StopAfter(stop) == IF stop = None THEN state.stop ELSE stop

(* contextTokens: an aborted or failed response has no usable figure.      *)
Measurable(stop) == IF stop \in {"aborted", "error"} THEN {FALSE} ELSE BOOLEAN

(* emitResponseUsage: the figure is kept before it is sent.                *)
ContextAfter(tried) == IF "usage" \in tried THEN pi.epoch ELSE state.context

(* The updates message_end may send, in the order it sends them.           *)
Order == [text |-> 1, image |-> 2, usage |-> 3, none |-> 4]

(* message_end: the rest of the text, the image, then the usage.  A refused*)
(* update keeps the later ones from being sent.                            *)
MessageEnd ==
  /\ pi.streaming
  /\ \E length \in pi.text .. MaxText, image \in AssistantImages,
        stop \in StopReasons \cup {None} : \E measured \in Measurable(stop) :
       LET sends == {u \in {"text", "image", "usage"} :
                       \/ u = "text" /\ Suffix(length) > 0
                       \/ u = "image" /\ image # "none"
                       \/ u = "usage" /\ measured}
       IN /\ pi' = [pi EXCEPT !.streaming = FALSE, !.text = length,
                              !.measured = @ \/ measured]
          /\ IF Projects
               THEN \E refused \in Refusable(sends) :
                      LET tried == {u \in sends : Order[u] <= Order[refused]}
                          taken == tried \ {refused}
                          shown == "image" \in taken /\ image = "decoded"
                      IN /\ Count(refused = "none")
                         /\ RecordFailure(refused # "none")
                         /\ state' = [state EXCEPT
                              !.inputPending = FALSE, !.streamed = 0,
                              !.stop = StopAfter(stop),
                              !.imagesEmitted = @ \/ shown,
                              !.context = ContextAfter(tried)]
                         /\ client' = [client EXCEPT
                              !.text = IF "text" \in taken THEN @ + Suffix(length) ELSE @,
                              !.images = @ \/ shown,
                              !.used = IF "usage" \in taken THEN pi.epoch ELSE @]
               ELSE Unprojected

-----------------------------------------------------------------------------
(* Compactions.                                                            *)

(* Mutant: a compaction leaves the cycle's context figure in place.        *)
CompactedKept == state

(* The figure of the context that was replaced is forgotten.               *)
Compacted == [state EXCEPT !.context = 0]

(* compaction_end with a result.  It is published for a cancelled cycle and*)
(* between cycles too, where a refused notification is only logged.        *)
CompactionEnd ==
  /\ ~pi.streaming /\ pi.epoch < MaxEpoch
  /\ pi' = [pi EXCEPT !.epoch = @ + 1, !.measured = FALSE]
  /\ state' = Compacted
  /\ \E taken \in Takes : Count(taken) /\ RecordFailure(cycle.open /\ ~taken)
  /\ client' = [client EXCEPT !.used = 0]

-----------------------------------------------------------------------------
(* Tool calls.                                                             *)

(* Mutant: nobody remembers that a call has ended.                         *)
IsTerminalNever(t) == FALSE

(* A call whose terminal status was sent is sent nothing more.             *)
IsTerminal(t) == state.tools[t].terminal

Tell(t, status) == client' = [client EXCEPT !.tools[t].status = status]

(* publishPendingTool, on a permission dialog pi opened before it runs the *)
(* call.  A refused announcement dismisses the dialog and is no failure.   *)
ToolAsked(t) ==
  /\ cycle.open /\ ~pi.streaming /\ t \notin pi.asked \cup pi.started \cup pi.ended
  /\ pi' = [pi EXCEPT !.asked = @ \cup {t}]
  /\ IF Projects
       THEN \E taken \in Takes :
              /\ Count(taken)
              /\ state' = [state EXCEPT !.tools[t].published = taken]
              /\ IF taken THEN Tell(t, "pending") ELSE UNCHANGED client
              /\ UNCHANGED cycle
       ELSE Unprojected

(* publishToolStart: an update of a call that was announced, or its start. *)
ToolStart(t) ==
  /\ cycle.open /\ ~pi.streaming /\ t \notin pi.started \cup pi.ended
  /\ pi' = [pi EXCEPT !.started = @ \cup {t}]
  /\ IF Projects
       THEN \E taken \in Takes :
              /\ Count(taken) /\ RecordFailure(~taken)
              /\ state' = [state EXCEPT !.tools[t].published = @ \/ taken]
              /\ IF taken THEN Tell(t, "in_progress") ELSE UNCHANGED client
       ELSE Unprojected

(* mergeToolContent: the latest text stands, delivered images stay.        *)
Merge(previous, next) ==
  [next EXCEPT !.images = @ \cup previous.images]

(* mapToolContent's refusals: whether the model can act on each.           *)
Refusals(t, content) ==
  LET merged == Merge(state.tools[t].content, content).images
      decode == {TRUE : i \in content.images \cap Refused}
                  \cup {FALSE : i \in content.images \cap Fatal}
  IN IF decode # {} THEN decode
     ELSE IF Cardinality(merged) > PerCall THEN {TRUE} ELSE {}

(* failToolImage: the call fails with its guidance and the turn goes on,   *)
(* unless nobody can act on it.                                            *)
FailToolImage(t, recoverable, taken) ==
  /\ Count(taken) /\ RecordFailure(~taken \/ ~recoverable)
  /\ client' = IF ~taken THEN client
               ELSE [client EXCEPT !.tools[t] =
                       [status |-> "failed",
                        content |-> IF recoverable
                                      THEN [text |-> Guidance, images |-> {}]
                                      ELSE @.content]]

(* Mutant: a result no longer than the last snapshot is not sent with it.  *)
EndedShort(t, status, snapshot) ==
  [client EXCEPT
    !.tools[t] = [status |-> status,
                  content |-> IF Size(snapshot) <= Size(@.content)
                                THEN @.content ELSE snapshot],
    !.images = @ \/ snapshot.images # {}]

(* The terminal update, whose snapshot replaces the array unless it is     *)
(* empty.                                                                  *)
Ended(t, status, snapshot) ==
  [client EXCEPT
    !.tools[t] = [status |-> status,
                  content |-> IF Size(snapshot) = 0 THEN @.content ELSE snapshot],
    !.images = @ \/ snapshot.images # {}]

(* publishToolUpdate: a snapshot as long as the last one is not sent.      *)
UpdateSent(t, snapshot) ==
  Size(snapshot) # 0 /\ Size(snapshot) # Size(state.tools[t].content)

(* Mutant: a tool's images are not counted among the cycle's.              *)
RecordToolContentOnly(t, snapshot) ==
  IF Size(snapshot) = 0 THEN state
  ELSE [state EXCEPT !.tools[t].content = snapshot]

RecordToolContent(t, snapshot) ==
  IF Size(snapshot) = 0 THEN state
  ELSE [state EXCEPT !.tools[t].content = snapshot,
                     !.imagesEmitted = @ \/ snapshot.images # {}]

ToolUpdate(t) ==
  /\ t \in Running
  /\ UNCHANGED pi
  /\ \E content \in Content :
       IF ~Projects \/ IsTerminal(t)
         THEN Unprojected
       ELSE IF Refusals(t, content) # {}
         THEN \E recoverable \in Refusals(t, content), taken \in Takes :
                /\ FailToolImage(t, recoverable, taken)
                /\ state' = [state EXCEPT !.tools[t].terminal = TRUE]
       ELSE LET snapshot == Merge(state.tools[t].content, content) IN
            IF ~UpdateSent(t, snapshot) THEN Unprojected
            ELSE \E taken \in Takes :
                   /\ Count(taken) /\ RecordFailure(~taken)
                   /\ IF taken
                        THEN /\ state' = RecordToolContent(t, snapshot)
                             /\ client' = [client EXCEPT
                                  !.tools[t].content = snapshot,
                                  !.images = @ \/ snapshot.images # {}]
                        ELSE UNCHANGED <<state, client>>

(* publishToolTerminal, and pi says nothing more about the call.  A result *)
(* that carries nothing leaves the client's array alone.                   *)
Ends(t, result, status) ==
  LET content  == IF result = None THEN Empty ELSE result
      snapshot == IF result = None THEN Empty
                  ELSE Merge(state.tools[t].content, content)
      refusals == IF result = None THEN {} ELSE Refusals(t, content)
      emitted  == [RecordToolContent(t, snapshot) EXCEPT !.tools[t] = NewTool]
  IN /\ pi' = [pi EXCEPT !.ended = @ \cup {t}]
     /\ IF ~Projects THEN Unprojected
        ELSE IF IsTerminal(t)
          THEN /\ state' = [state EXCEPT !.tools[t] = NewTool]
               /\ UNCHANGED <<cycle, client, lost>>
        ELSE \E taken \in Takes :
               IF refusals # {}
                 THEN /\ \E recoverable \in refusals :
                           FailToolImage(t, recoverable, taken)
                      /\ state' = [state EXCEPT !.tools[t] = NewTool]
                 ELSE /\ Count(taken) /\ RecordFailure(~taken)
                      /\ client' = IF taken THEN Ended(t, status, snapshot)
                                   ELSE client
                      /\ state' = IF taken THEN emitted
                                  ELSE [state EXCEPT !.tools[t] = NewTool]

Results == Content \cup {None}

ToolEnd(t) ==
  /\ t \in Running
  /\ \E result \in Results, status \in {"completed", "failed"} : Ends(t, result, status)

-----------------------------------------------------------------------------
(* session/load reads the same result from its native row.                 *)

(* What replayUpdates sends for it.                                        *)
Replayed(result) == IF result = None THEN Empty ELSE result

(* An image of the row that would not be sent now fails the whole load.    *)
ReplayRefuses(result) ==
  \/ Replayed(result).images \cap (Refused \cup Fatal) # {}
  \/ Cardinality(Replayed(result).images) > PerCall

-----------------------------------------------------------------------------
Next ==
  \/ OpenCycle \/ Cancel \/ ExtensionError \/ Settle
  \/ MessageStart \/ MessageUpdate \/ MessageEnd \/ CompactionEnd
  \/ \E t \in Tools : ToolAsked(t) \/ ToolStart(t) \/ ToolUpdate(t) \/ ToolEnd(t)

Spec == Init /\ [][Next]_vars

-----------------------------------------------------------------------------
(* Properties.                                                             *)

(* No usage report carries a figure from before the last compaction: not   *)
(* the one a cycle kept from a response, when it settles after pi replaced *)
(* the context and has no estimate of its own (emitSettledUsage).          *)
UsageIsCurrent == client.used \in {0, pi.epoch}

Delivered == (Projects /\ ~cycle.failed) \/ client.verdict = "success"

(* The client's copy of an assistant message is pi's: deltas and terminal  *)
(* frame together carry each part of the text once, through restarted      *)
(* messages, as long as nobody cancelled the cycle and the client refused  *)
(* nothing that was recorded.                                              *)
TextIsExact == Delivered => client.text = pi.text

(* A mirror failure is blamed on lost images exactly when an image of this *)
(* cycle reached the client, by whichever of the three paths               *)
(* (mirrorFailure reads imagesEmitted).                                    *)
ImageLossIsNamed == state.imagesEmitted <=> client.images

Rank == [unknown |-> 0, pending |-> 1, in_progress |-> 2, completed |-> 3,
         failed |-> 3]

(* A call only moves forward at the client, ends once and keeps the images *)
(* that were shown until it fails on another one: parallel calls,          *)
(* permission dialogs, image failures and partial results, whose arrays    *)
(* replace one another, never reopen it or withdraw an image.              *)
CallsMoveForward ==
  [][\A t \in Tools : client'.tools[t] # client.tools[t] =>
       LET before == client.tools[t]
           after  == client'.tools[t]
       IN /\ before.status = after.status \/ Rank[before.status] < Rank[after.status]
          /\ \/ before.content.images \subseteq after.content.images
             \/ after.content.text = Guidance]_vars

(* A load replays no more of a call than the client was shown when it      *)
(* ended, under the same status, and is refused for none of its images,    *)
(* unless the client was told that the call failed on one: the live array  *)
(* is built from every partial result, the replayed one from the result    *)
(* row alone (replay: "Replay runs the same image validation as live       *)
(* emission").                                                             *)
ReplayShowsWhatWasShown ==
  [][\A t \in Running :
       LET shown == client'.tools[t] IN
       /\ t \in pi'.ended /\ Projects /\ ~cycle'.failed
       /\ shown.content.text # Guidance
       => \A result \in Results, status \in {"completed", "failed"} :
            Ends(t, result, status)
            => /\ ~ReplayRefuses(result)
               /\ shown.status = status
               /\ Replayed(result).images \subseteq shown.content.images
               /\ Replayed(result).text \in {None, shown.content.text}]_vars

=============================================================================
