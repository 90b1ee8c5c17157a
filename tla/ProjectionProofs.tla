--------------------------- MODULE ProjectionProofs ---------------------------
(***************************************************************************)
(* Proofs about the projection of pi's events: usage, text and images      *)
(* survive refused updates, cancels, compactions and failed images, a call *)
(* only moves forward at the client, and a load shows what was shown.      *)
(***************************************************************************)
EXTENDS Projection, FiniteSetTheorems, TLAPS

(* Between two cycles no call is left of the last one, and pi has ended    *)
(* whatever it had asked for or started.                                   *)
IdleInv ==
  /\ pi.streaming => cycle.open
  /\ cycle.open => client.verdict = "none"
  /\ ~cycle.open => /\ \A t \in Tools : state.tools[t] = NewTool
                    /\ ~cycle.cancelled /\ ~cycle.failed
                    /\ pi.asked \cup pi.started \subseteq pi.ended

(* The figure a cycle keeps for its settlement is as current as the one    *)
(* the client was told.                                                    *)
UsageInv == UsageIsCurrent /\ state.context \in {0, pi.epoch}

(* While a message streams, the count of what was streamed lies between    *)
(* the client's text and pi's, and meets pi's as long as nothing failed.   *)
TextInv ==
  /\ pi.streaming /\ Projects => /\ client.text <= state.streamed
                                 /\ state.streamed <= pi.text
                                 /\ ~cycle.failed => state.streamed = pi.text
  /\ TextIsExact

(* The client's copy of a call that runs is the one the cycle keeps, until *)
(* the call failed on an image, which the client was then told.            *)
CallInv(t) ==
  LET told == client.tools[t]
      kept == state.tools[t]
  IN /\ t \notin pi.started \cup pi.ended =>
          /\ kept.content = Empty /\ ~kept.terminal
          /\ told.content = Empty /\ told.status \in {"unknown", "pending"}
     /\ t \notin pi.asked \cup pi.started \cup pi.ended => told.status = "unknown"
     /\ t \notin pi.ended /\ ~kept.terminal =>
          /\ told.status \in {"unknown", "pending", "in_progress"}
          /\ told.content = kept.content
     /\ t \notin pi.ended /\ kept.terminal /\ Projects /\ ~cycle.failed =>
          told.content.text = Guidance

CallsInv == \A t \in Tools : CallInv(t)

IInv ==
  TypeOK /\ IdleInv /\ UsageInv /\ TextInv /\ ImageLossIsNamed /\ CallsInv

-----------------------------------------------------------------------------
(* Constants and small records.                                            *)

LEMMA Bounds ==
  /\ MaxCycles \in Nat /\ MaxEpoch \in Nat /\ MaxText \in Nat /\ MaxLost \in Nat
  /\ PerCall \in Nat
  /\ Guidance \notin Texts /\ None # Guidance /\ IsFiniteSet(Images)
  /\ 0 \in 0 .. MaxText /\ 0 \in 0 .. MaxEpoch /\ MaxEpoch >= 1
  BY ProjectionAssumption

(* The fields the proofs calculate with.                                   *)
LEMMA Figures ==
  ASSUME TypeOK
  PROVE  /\ pi.text \in 0 .. MaxText /\ pi.epoch \in 0 .. MaxEpoch
         /\ state.streamed \in 0 .. MaxText /\ client.text \in 0 .. MaxText
         /\ state.context \in 0 .. MaxEpoch /\ client.used \in 0 .. MaxEpoch
<1>1. pi.text \in 0 .. MaxText /\ pi.epoch \in 0 .. MaxEpoch
  BY DEF TypeOK, PiType
<1>2. state.streamed \in 0 .. MaxText /\ state.context \in 0 .. MaxEpoch
  BY DEF TypeOK, StateType
<1>3. client.text \in 0 .. MaxText /\ client.used \in 0 .. MaxEpoch
  BY DEF TypeOK, ClientType
<1> QED BY <1>1, <1>2, <1>3

LEMMA NewTyped ==
  /\ Empty \in Content /\ NewTool \in ToolState /\ NewState \in StateType
  BY Bounds DEF Empty, Content, NewTool, ToolState, NewState, StateType, StopReasons

(* A snapshot of no items has no image and no text.                        *)
LEMMA SizeZero ==
  ASSUME NEW content \in Content, Size(content) = 0
  PROVE  content.images = {} /\ content.text = None
<1>1. IsFiniteSet(content.images)
  BY Bounds, FS_Subset DEF Content
<1>2. Cardinality(content.images) \in Nat
  BY <1>1, FS_CardinalityType
<1>3. Cardinality(content.images) = 0
  BY <1>2 DEF Size
<1>4. content.images = {}
  BY <1>1, <1>3, FS_EmptySet
<1>5. content.text = None
  BY <1>3 DEF Size
<1> QED BY <1>4, <1>5

LEMMA SizeEmpty == Size(Empty) = 0
  BY FS_EmptySet DEF Size, Empty

LEMMA MergeTyped ==
  ASSUME NEW previous \in Content, NEW next \in Content
  PROVE  /\ Merge(previous, next) \in Content
         /\ previous.images \subseteq Merge(previous, next).images
         /\ next.images \subseteq Merge(previous, next).images
         /\ Merge(previous, next).text = next.text
  BY DEF Merge, Content

-----------------------------------------------------------------------------
(* Delivery.                                                               *)

LEMMA TakesBoolean == ASSUME NEW taken \in Takes PROVE taken \in BOOLEAN
  BY DEF Takes

(* A refusal is counted only while another one is allowed.                 *)
LEMMA Counted ==
  ASSUME lost \in 0 .. MaxLost, NEW taken \in Takes, Count(taken)
  PROVE  lost' \in 0 .. MaxLost
<1>1. CASE lost < MaxLost
  BY <1>1, Bounds DEF Count
<1>2. CASE ~(lost < MaxLost)
  BY <1>2 DEF Takes, Count
<1> QED BY <1>1, <1>2

LEMMA RefusalCounted ==
  ASSUME lost \in 0 .. MaxLost, NEW sends, NEW refused \in Refusable(sends),
         Count(refused = "none")
  PROVE  lost' \in 0 .. MaxLost /\ refused \in {"none"} \cup sends
<1>1. CASE lost < MaxLost
  BY <1>1, Bounds DEF Refusable, Count
<1>2. CASE ~(lost < MaxLost)
  BY <1>2 DEF Refusable, Count
<1> QED BY <1>1, <1>2

(* A recorded failure changes nothing else of the cycle.                   *)
LEMMA FailureRecorded ==
  ASSUME cycle \in CycleType, NEW failure \in BOOLEAN, RecordFailure(failure)
  PROVE  /\ cycle' \in CycleType
         /\ cycle'.open = cycle.open /\ cycle'.cancelled = cycle.cancelled
         /\ cycle'.failed = (cycle.failed \/ failure)
  BY DEF CycleType, RecordFailure

-----------------------------------------------------------------------------
(* Cycles.                                                                 *)

(* The calls are not touched by what is not an event of one.               *)
CallsKept ==
  /\ client'.tools = client.tools /\ state'.tools = state.tools
  /\ pi'.asked = pi.asked /\ pi'.started = pi.started /\ pi'.ended = pi.ended
  /\ Projects' => Projects
  /\ cycle.failed => cycle'.failed

LEMMA KeptCalls ==
  ASSUME CallsInv, CallsKept
  PROVE  CallsInv'
  BY DEF CallsInv, CallInv, CallsKept

LEMMA OpenCycleStep == IInv /\ OpenCycle => IInv'
<1> SUFFICES ASSUME IInv, OpenCycle PROVE IInv'
  OBVIOUS
<1> USE DEF IInv, TypeOK
<1>1. cycle' \in CycleType /\ cycle'.open /\ ~cycle'.cancelled /\ ~cycle'.failed
  BY Bounds DEF OpenCycle, CycleType
<1>2. /\ pi' \in PiType /\ pi'.text = 0 /\ pi'.asked = {} /\ pi'.started = {}
      /\ pi'.ended = pi.ended /\ pi'.epoch = pi.epoch
      /\ pi'.streaming = pi.streaming
  BY Bounds DEF OpenCycle, PiType
<1>3. /\ client' \in ClientType /\ client'.text = 0 /\ client'.verdict = "none"
      /\ client'.tools = client.tools /\ client'.used = client.used
      /\ client'.images = client.images
  BY Bounds DEF OpenCycle, ClientType
<1>4. state' = state /\ lost' = lost /\ ~cycle.open
  BY DEF OpenCycle
<1>5. IdleInv' /\ ~pi'.streaming
  BY <1>1, <1>2, <1>3, <1>4 DEF IdleInv
<1>6. UsageInv' /\ ImageLossIsNamed'
  BY <1>2, <1>3, <1>4 DEF UsageInv, UsageIsCurrent, ImageLossIsNamed
<1>7. TextInv'
  BY <1>2, <1>3, <1>5 DEF TextInv, TextIsExact
<1>8. CallsInv'
  <2> SUFFICES ASSUME NEW t \in Tools PROVE CallInv(t)'
    BY DEF CallsInv
  <2>1. pi.asked \cup pi.started \subseteq pi.ended /\ state.tools[t] = NewTool
    BY <1>4 DEF IdleInv
  <2> QED BY <1>2, <1>3, <1>4, <2>1 DEF CallsInv, CallInv, NewTool
<1> QED BY <1>1, <1>2, <1>3, <1>4, <1>5, <1>6, <1>7, <1>8

LEMMA CancelStep == IInv /\ Cancel => IInv'
<1> SUFFICES ASSUME IInv, Cancel PROVE IInv'
  OBVIOUS
<1>1. /\ cycle' \in CycleType /\ cycle'.open /\ cycle.open /\ cycle'.cancelled
      /\ cycle'.failed = cycle.failed
  BY DEF IInv, TypeOK, Cancel, CycleType, Projects
<1>2. UNCHANGED <<state, pi, client, lost>>
  BY DEF Cancel
<1>3. ~Projects'
  BY <1>1 DEF Projects
<1>4. CallsKept
  BY <1>1, <1>2, <1>3 DEF CallsKept
<1>5. TypeOK' /\ IdleInv'
  BY <1>1, <1>2 DEF IInv, TypeOK, IdleInv
<1>6. UsageInv' /\ ImageLossIsNamed'
  BY <1>2 DEF IInv, UsageInv, UsageIsCurrent, ImageLossIsNamed
<1>7. TextInv'
  BY <1>1, <1>2, <1>3 DEF IInv, TextInv, TextIsExact, Delivered
<1> QED BY <1>4, <1>5, <1>6, <1>7, KeptCalls DEF IInv

LEMMA ExtensionErrorStep == IInv /\ ExtensionError => IInv'
<1> SUFFICES ASSUME IInv, ExtensionError PROVE IInv'
  OBVIOUS
<1>1. /\ cycle' \in CycleType /\ cycle'.open /\ cycle.open /\ cycle'.failed
      /\ cycle'.cancelled = cycle.cancelled
  BY FailureRecorded DEF IInv, TypeOK, ExtensionError, Projects
<1>2. UNCHANGED <<state, pi, client, lost>>
  BY DEF ExtensionError
<1>3. Projects' => Projects
  BY <1>1 DEF Projects
<1>4. CallsKept
  BY <1>1, <1>2, <1>3 DEF CallsKept
<1>5. TypeOK' /\ IdleInv'
  BY <1>1, <1>2 DEF IInv, TypeOK, IdleInv
<1>6. UsageInv' /\ ImageLossIsNamed'
  BY <1>2 DEF IInv, UsageInv, UsageIsCurrent, ImageLossIsNamed
<1>7. TextInv'
  BY <1>1, <1>2, <1>3 DEF IInv, TextInv, TextIsExact, Delivered
<1> QED BY <1>4, <1>5, <1>6, <1>7, KeptCalls DEF IInv

(* A success is given only to a cycle that projected everything.           *)
LEMMA SettleStep == IInv /\ Settle => IInv'
<1> SUFFICES ASSUME IInv, Settle PROVE IInv'
  OBVIOUS
<1>1. PICK estimate \in Estimates, taken \in Takes, stats \in BOOLEAN :
        LET used == SettledUsage(estimate)
            told == ~cycle.cancelled /\ stats /\ used # 0
        IN /\ client' = [client EXCEPT !.verdict = Verdict,
                                       !.used = IF told /\ taken THEN used ELSE @,
                                       !.images = FALSE]
           /\ IF told THEN Count(taken) ELSE UNCHANGED lost
  BY DEF Settle
<1>2. SettledUsage(estimate) \in {0, pi.epoch}
  BY DEF SettledUsage, Estimates, IInv, UsageInv
<1>3. Verdict \in {"success", "cancelled", "failed"}
  BY DEF Verdict
<1>4. /\ client' \in ClientType /\ client'.verdict = Verdict /\ ~client'.images
      /\ client'.text = client.text /\ client'.tools = client.tools
      /\ client'.used \in {0, pi.epoch}
  <2>1. PICK used \in {0, pi.epoch} :
          client' = [client EXCEPT !.verdict = Verdict, !.used = used,
                                   !.images = FALSE]
    BY <1>1, <1>2 DEF IInv, TypeOK, ClientType, UsageInv, UsageIsCurrent
  <2>2. used \in 0 .. MaxEpoch
    BY <2>1, Bounds DEF IInv, TypeOK, PiType
  <2> QED BY <1>3, <2>1, <2>2 DEF IInv, TypeOK, ClientType
<1>5. lost' \in 0 .. MaxLost
  <2>1. CASE ~cycle.cancelled /\ stats /\ SettledUsage(estimate) # 0
    BY <1>1, <2>1, Counted DEF IInv, TypeOK
  <2>2. CASE ~(~cycle.cancelled /\ stats /\ SettledUsage(estimate) # 0)
    BY <1>1, <2>2 DEF IInv, TypeOK
  <2> QED BY <2>1, <2>2
<1>6. /\ cycle' \in CycleType /\ ~cycle'.open /\ ~cycle'.cancelled /\ ~cycle'.failed
      /\ cycle.open
  BY DEF Settle, IInv, TypeOK, CycleType
<1>7. /\ pi' \in PiType /\ pi'.text = pi.text /\ pi'.epoch = pi.epoch
      /\ ~pi'.streaming /\ pi'.asked = pi.asked /\ pi'.started = pi.started
      /\ pi'.ended = pi.ended \cup pi.asked
  BY DEF Settle, IInv, TypeOK, PiType
<1>8. pi.started \subseteq pi.ended /\ state' = NewState
  BY DEF Settle, Running
<1>9. TypeOK'
  BY <1>4, <1>5, <1>6, <1>7, <1>8, NewTyped DEF TypeOK
<1>10. IdleInv' /\ UsageInv' /\ ImageLossIsNamed'
  BY <1>4, <1>6, <1>7, <1>8
     DEF IdleInv, UsageInv, UsageIsCurrent, ImageLossIsNamed, NewState
<1>11. TextInv'
  <2>1. client'.verdict = "success" => Projects /\ ~cycle.failed
    BY <1>4, <1>6 DEF Verdict, Projects
  <2> QED BY <1>4, <1>6, <1>7, <2>1 DEF IInv, TextInv, TextIsExact, Delivered, Projects
<1>12. CallsInv'
  BY <1>4, <1>7, <1>8 DEF IInv, CallsInv, CallInv, NewState, NewTool
<1> QED BY <1>9, <1>10, <1>11, <1>12 DEF IInv

-----------------------------------------------------------------------------
(* Assistant messages and compactions.                                     *)

LEMMA MessageStartStep == IInv /\ MessageStart => IInv'
<1> SUFFICES ASSUME IInv, MessageStart PROVE IInv'
  OBVIOUS
<1>1. /\ pi' \in PiType /\ pi'.text = 0 /\ pi'.epoch = pi.epoch /\ pi'.streaming
      /\ pi'.asked = pi.asked /\ pi'.started = pi.started /\ pi'.ended = pi.ended
  BY Bounds DEF MessageStart, IInv, TypeOK, PiType
<1>2. cycle' = cycle /\ lost' = lost /\ cycle.open
  BY DEF MessageStart, Unprojected
<1>3. CASE ~Projects
  <2>1. UNCHANGED <<state, client>>
    BY <1>3 DEF MessageStart, Unprojected
  <2>2. ~Projects'
    BY <1>2, <1>3 DEF Projects
  <2>3. CallsKept
    BY <1>1, <1>2, <2>1, <2>2 DEF CallsKept
  <2>4. TypeOK' /\ IdleInv' /\ UsageInv' /\ ImageLossIsNamed'
    BY <1>1, <1>2, <2>1 DEF IInv, TypeOK, IdleInv, UsageInv, UsageIsCurrent, ImageLossIsNamed
  <2>5. TextInv'
    BY <1>1, <1>2, <2>1, <2>2 DEF IInv, IdleInv, TextInv, TextIsExact, Delivered
  <2> QED BY <2>3, <2>4, <2>5, KeptCalls DEF IInv
<1>4. CASE Projects
  <2>1. /\ state' \in StateType /\ state'.streamed = 0 /\ state'.tools = state.tools
        /\ state'.context = state.context
        /\ state'.imagesEmitted = state.imagesEmitted
    BY <1>4, Bounds DEF MessageStart, IInv, TypeOK, StateType
  <2>2. /\ client' \in ClientType /\ client'.text = 0 /\ client'.tools = client.tools
        /\ client'.used = client.used /\ client'.images = client.images
        /\ client'.verdict = client.verdict
    BY <1>4, Bounds DEF MessageStart, IInv, TypeOK, ClientType
  <2>3. CallsKept
    BY <1>1, <1>2, <1>4, <2>1, <2>2 DEF CallsKept
  <2>4. TypeOK' /\ IdleInv' /\ UsageInv' /\ ImageLossIsNamed'
    BY <1>1, <1>2, <2>1, <2>2
       DEF IInv, TypeOK, IdleInv, UsageInv, UsageIsCurrent, ImageLossIsNamed
  <2>5. TextInv'
    BY <1>1, <2>1, <2>2 DEF TextInv, TextIsExact
  <2> QED BY <2>3, <2>4, <2>5, KeptCalls DEF IInv
<1> QED BY <1>3, <1>4

(* A delta the client refused counts as streamed, one that never left      *)
(* because its usage was refused does not.                                 *)
LEMMA MessageUpdateStep == IInv /\ MessageUpdate => IInv' /\ CallsKept
<1> SUFFICES ASSUME IInv, MessageUpdate PROVE IInv' /\ CallsKept
  OBVIOUS
<1> DEFINE Sends(said, figure) ==
             {u \in {"usage", "text"} : \/ u = "usage" /\ InputIsDue(figure)
                                        \/ u = "text" /\ said = 1}
<1>1. PICK said \in {0, 1}, figure \in BOOLEAN :
        /\ pi.text + said <= MaxText
        /\ pi' = [pi EXCEPT !.text = @ + said]
        /\ IF Projects
             THEN \E refused \in Refusable(Sends(said, figure)) :
                    /\ Count(refused = "none") /\ RecordFailure(refused # "none")
                    /\ state' = [state EXCEPT
                         !.inputPending = FALSE,
                         !.streamed = @ + Streamed(said, refused)]
                    /\ client' = [client EXCEPT
                         !.text = IF refused = "none" THEN @ + said ELSE @,
                         !.used = IF "usage" \in Sends(said, figure) \ {refused}
                                    THEN pi.epoch ELSE @]
             ELSE Unprojected
  BY DEF MessageUpdate
<1>2. /\ pi.text \in 0 .. MaxText /\ pi.epoch \in 0 .. MaxEpoch
      /\ state.streamed \in 0 .. MaxText /\ client.text \in 0 .. MaxText
      /\ client.used \in 0 .. MaxEpoch
      /\ pi.streaming /\ cycle.open /\ client.verdict = "none"
  BY Figures DEF MessageUpdate, IInv, IdleInv
<1>3. pi.text + said \in 0 .. MaxText
  <2>1. pi.text + said <= MaxText
    BY <1>1
  <2> QED BY <1>2, <2>1, Bounds
<1>4. /\ pi' \in PiType /\ pi'.text = pi.text + said /\ pi'.epoch = pi.epoch
      /\ pi'.streaming /\ pi'.asked = pi.asked /\ pi'.started = pi.started
      /\ pi'.ended = pi.ended
  BY <1>1, <1>2, <1>3 DEF IInv, TypeOK, PiType
<1>5. CASE ~Projects
  <2>1. UNCHANGED <<cycle, state, client, lost>>
    BY <1>1, <1>5 DEF Unprojected
  <2>2. ~Projects'
    BY <1>5, <2>1 DEF Projects
  <2>3. CallsKept
    BY <1>4, <2>1, <2>2 DEF CallsKept
  <2>4. TypeOK' /\ IdleInv' /\ UsageInv' /\ ImageLossIsNamed'
    BY <1>2, <1>4, <2>1 DEF IInv, TypeOK, IdleInv, UsageInv, UsageIsCurrent, ImageLossIsNamed
  <2>5. TextInv'
    BY <1>2, <2>1, <2>2 DEF IInv, IdleInv, TextInv, TextIsExact, Delivered
  <2> QED BY <2>3, <2>4, <2>5, KeptCalls DEF IInv
<1>6. CASE Projects
  <2>1. PICK refused \in Refusable(Sends(said, figure)) :
          /\ Count(refused = "none") /\ RecordFailure(refused # "none")
          /\ state' = [state EXCEPT !.inputPending = FALSE,
                                    !.streamed = @ + Streamed(said, refused)]
          /\ client' = [client EXCEPT
               !.text = IF refused = "none" THEN @ + said ELSE @,
               !.used = IF "usage" \in Sends(said, figure) \ {refused}
                          THEN pi.epoch ELSE @]
    BY <1>1, <1>6
  <2>2. lost' \in 0 .. MaxLost /\ refused \in {"none", "usage", "text"}
    BY <2>1, RefusalCounted DEF IInv, TypeOK
  <2>3. /\ cycle' \in CycleType /\ cycle'.open /\ cycle'.cancelled = cycle.cancelled
        /\ cycle'.failed = (cycle.failed \/ refused # "none")
    BY <1>2, <2>1, FailureRecorded DEF IInv, TypeOK
  <2>4. /\ client.text <= state.streamed /\ state.streamed <= pi.text
        /\ ~cycle.failed => client.text = pi.text /\ state.streamed = pi.text
    BY <1>2, <1>6 DEF IInv, TextInv, TextIsExact, Delivered
  <2>5. PICK streamed \in {0, said} :
          streamed = Streamed(said, refused)
    BY DEF Streamed
  <2>6. state.streamed + streamed \in 0 .. MaxText
    BY <1>2, <1>3, <2>4, <2>5, Bounds
  <2>7. /\ state' \in StateType /\ state'.streamed = state.streamed + streamed
        /\ state'.tools = state.tools /\ state'.context = state.context
        /\ state'.imagesEmitted = state.imagesEmitted
    BY <2>1, <2>5, <2>6 DEF IInv, TypeOK, StateType
  <2>8. PICK text \in {client.text, client.text + said}, used \in {client.used, pi.epoch} :
          /\ client' = [client EXCEPT !.text = text, !.used = used]
          /\ refused = "none" => text = client.text + said
          /\ refused # "none" => text = client.text
    <3> DEFINE text == IF refused = "none" THEN client.text + said ELSE client.text
               used == IF "usage" \in Sends(said, figure) \ {refused}
                         THEN pi.epoch ELSE client.used
    <3>1. client' = [client EXCEPT !.text = text, !.used = used]
      BY <2>1 DEF IInv, TypeOK, ClientType
    <3>2. text \in {client.text, client.text + said} /\ used \in {client.used, pi.epoch}
      OBVIOUS
    <3> QED BY <3>1, <3>2
  <2>9. text \in 0 .. MaxText /\ used \in 0 .. MaxEpoch
    BY <1>2, <1>3, <2>4, <2>8, Bounds
  <2>10. /\ client' \in ClientType /\ client'.text = text /\ client'.used = used
         /\ client'.tools = client.tools /\ client'.images = client.images
         /\ client'.verdict = client.verdict
    BY <2>8, <2>9 DEF IInv, TypeOK, ClientType
  <2>11. CallsKept
    BY <1>4, <1>6, <2>3, <2>7, <2>10 DEF CallsKept
  <2>12. TypeOK' /\ IdleInv' /\ UsageInv' /\ ImageLossIsNamed'
    BY <1>2, <1>4, <2>2, <2>3, <2>7, <2>10
       DEF IInv, TypeOK, IdleInv, UsageInv, UsageIsCurrent, ImageLossIsNamed
  <2>13. refused = "none" => text = client.text + said /\ streamed = said
    BY <2>5, <2>8 DEF Streamed
  <2>14. client'.text <= state'.streamed /\ state'.streamed <= pi'.text
    <3>1. text = client.text \/ (text = client.text + said /\ streamed = said)
      BY <2>8, <2>13
    <3> QED BY <1>2, <1>4, <2>4, <2>5, <2>7, <2>10, <3>1
  <2>15. ~cycle'.failed => client'.text = pi'.text /\ state'.streamed = pi'.text
    BY <1>4, <2>3, <2>4, <2>7, <2>10, <2>13
  <2>16. client'.verdict = "none"
    BY <1>2, <2>10
  <2>17. TextInv'
    BY <1>4, <2>14, <2>15, <2>16 DEF TextInv, TextIsExact, Delivered
  <2> QED BY <2>11, <2>12, <2>17, KeptCalls DEF IInv
<1> QED BY <1>5, <1>6

(* The terminal frame sends what the deltas did not carry.                 *)
LEMMA MessageEndStep == IInv /\ MessageEnd => IInv' /\ CallsKept
<1> SUFFICES ASSUME IInv, MessageEnd PROVE IInv' /\ CallsKept
  OBVIOUS
<1> DEFINE Sends(length, image, measured) ==
             {u \in {"text", "image", "usage"} : \/ u = "text" /\ Suffix(length) > 0
                                                 \/ u = "image" /\ image # "none"
                                                 \/ u = "usage" /\ measured}
           Tried(sends, refused) == {u \in sends : Order[u] <= Order[refused]}
           Projected(length, image, stop, measured, refused) ==
             LET tried == Tried(Sends(length, image, measured), refused)
                 taken == tried \ {refused}
                 shown == "image" \in taken /\ image = "decoded"
             IN /\ Count(refused = "none")
                /\ RecordFailure(refused # "none")
                /\ state' = [state EXCEPT
                     !.inputPending = FALSE, !.streamed = 0,
                     !.stop = StopAfter(stop),
                     !.imagesEmitted = @ \/ shown,
                     !.context = ContextAfter(tried)]
                /\ client' = [client EXCEPT
                     !.text = IF "text" \in taken THEN @ + Suffix(length) ELSE @,
                     !.images = @ \/ shown,
                     !.used = IF "usage" \in taken THEN pi.epoch ELSE @]
<1>0. PICK length \in pi.text .. MaxText, image \in AssistantImages,
           stop \in StopReasons \cup {None} :
        \E measured \in Measurable(stop) :
          /\ pi' = [pi EXCEPT !.streaming = FALSE, !.text = length,
                              !.measured = @ \/ measured]
          /\ IF Projects
               THEN \E refused \in Refusable(Sends(length, image, measured)) :
                      Projected(length, image, stop, measured, refused)
               ELSE Unprojected
  BY DEF MessageEnd
<1>1. PICK measured \in Measurable(stop) :
        /\ pi' = [pi EXCEPT !.streaming = FALSE, !.text = length,
                            !.measured = @ \/ measured]
        /\ IF Projects
             THEN \E refused \in Refusable(Sends(length, image, measured)) :
                    Projected(length, image, stop, measured, refused)
             ELSE Unprojected
  BY <1>0
<1> HIDE DEF Projected
<1>2. /\ pi.text \in 0 .. MaxText /\ pi.epoch \in 0 .. MaxEpoch
      /\ state.streamed \in 0 .. MaxText /\ client.text \in 0 .. MaxText
      /\ state.context \in 0 .. MaxEpoch /\ client.used \in 0 .. MaxEpoch
      /\ pi.streaming /\ cycle.open /\ client.verdict = "none"
  BY Figures DEF MessageEnd, IInv, IdleInv
<1>3. /\ length \in 0 .. MaxText /\ pi.text <= length
      /\ measured \in BOOLEAN
  <2>1. length \in pi.text .. MaxText /\ measured \in Measurable(stop)
    OBVIOUS
  <2>2. measured \in BOOLEAN
    BY <2>1 DEF Measurable
  <2> QED BY <1>2, <2>1, <2>2, Bounds
<1>4. /\ pi' \in PiType /\ pi'.text = length /\ pi'.epoch = pi.epoch
      /\ ~pi'.streaming /\ pi'.asked = pi.asked /\ pi'.started = pi.started
      /\ pi'.ended = pi.ended
  <2>1. (pi.measured \/ measured) \in BOOLEAN
    OBVIOUS
  <2> QED BY <1>1, <1>3, <2>1 DEF IInv, TypeOK, PiType
<1>5. CASE ~Projects
  <2>1. UNCHANGED <<cycle, state, client, lost>>
    BY <1>1, <1>5 DEF Unprojected
  <2>2. ~Projects'
    BY <1>5, <2>1 DEF Projects
  <2>3. CallsKept
    BY <1>4, <2>1, <2>2 DEF CallsKept
  <2>4. TypeOK' /\ IdleInv' /\ UsageInv' /\ ImageLossIsNamed'
    BY <1>2, <1>4, <2>1 DEF IInv, TypeOK, IdleInv, UsageInv, UsageIsCurrent, ImageLossIsNamed
  <2>5. TextInv'
    BY <1>2, <1>4, <2>1, <2>2 DEF TextInv, TextIsExact, Delivered
  <2> QED BY <2>3, <2>4, <2>5, KeptCalls DEF IInv
<1>6. CASE Projects
  <2>1. PICK refused \in Refusable(Sends(length, image, measured)) :
          Projected(length, image, stop, measured, refused)
    BY <1>1, <1>6
  <2>2. lost' \in 0 .. MaxLost
    BY <2>1, RefusalCounted DEF IInv, TypeOK, Projected
  <2>3. refused \in {"none"} \cup Sends(length, image, measured)
    BY <2>1 DEF Refusable
  <2>4. /\ cycle' \in CycleType /\ cycle'.open /\ cycle'.cancelled = cycle.cancelled
        /\ cycle'.failed = (cycle.failed \/ refused # "none")
    BY <1>2, <2>1, FailureRecorded DEF IInv, TypeOK, Projected
  <2>5. /\ client.text <= state.streamed /\ state.streamed <= pi.text
        /\ ~cycle.failed => client.text = pi.text /\ state.streamed = pi.text
    BY <1>2, <1>6 DEF IInv, TextInv, TextIsExact, Delivered
  <2>6. /\ Suffix(length) \in 0 .. MaxText
        /\ client.text + Suffix(length) \in 0 .. MaxText
    BY <1>2, <1>3, <2>5, Bounds DEF Suffix
  <2>7. StopAfter(stop) \in StopReasons
    BY <1>1 DEF StopAfter, IInv, TypeOK, StateType
  <2>8. PICK shown \in BOOLEAN, context \in {state.context, pi.epoch} :
          state' = [state EXCEPT
                      !.inputPending = FALSE, !.streamed = 0,
                      !.stop = StopAfter(stop), !.imagesEmitted = @ \/ shown,
                      !.context = context]
          /\ \E text \in {client.text, client.text + Suffix(length)},
                used \in {client.used, pi.epoch} :
               /\ client' = [client EXCEPT !.text = text, !.images = @ \/ shown,
                                           !.used = used]
               /\ refused = "none" => text = client.text + Suffix(length)
    <3>1. refused = "none" /\ Suffix(length) > 0
            => "text" \in Tried(Sends(length, image, measured), refused) \ {refused}
      BY DEF Order
    <3>2. ~(Suffix(length) > 0) => client.text + Suffix(length) = client.text
      BY <1>2, <2>6
    <3> HIDE DEF Tried, Sends
    <3>3. ContextAfter(Tried(Sends(length, image, measured), refused)) \in
            {state.context, pi.epoch}
      BY DEF ContextAfter
    <3> DEFINE tried == Tried(Sends(length, image, measured), refused)
               shown == "image" \in tried \ {refused} /\ image = "decoded"
               text  == IF "text" \in tried \ {refused}
                          THEN client.text + Suffix(length) ELSE client.text
               used  == IF "usage" \in tried \ {refused} THEN pi.epoch ELSE client.used
    <3>4. /\ shown \in BOOLEAN
          /\ text \in {client.text, client.text + Suffix(length)}
          /\ used \in {client.used, pi.epoch}
      OBVIOUS
    <3>5. refused = "none" => text = client.text + Suffix(length)
      BY <3>1, <3>2
    <3>6. state' = [state EXCEPT
                      !.inputPending = FALSE, !.streamed = 0,
                      !.stop = StopAfter(stop), !.imagesEmitted = @ \/ shown,
                      !.context = ContextAfter(tried)]
      BY <2>1 DEF Projected
    <3>7. client' = [client EXCEPT !.text = text, !.images = @ \/ shown, !.used = used]
      BY <2>1 DEF Projected, IInv, TypeOK, ClientType
    <3> WITNESS shown \in BOOLEAN,
                ContextAfter(tried) \in {state.context, pi.epoch}
    <3>8. \E t \in {client.text, client.text + Suffix(length)},
             u \in {client.used, pi.epoch} :
            /\ client' = [client EXCEPT !.text = t, !.images = @ \/ shown, !.used = u]
            /\ refused = "none" => t = client.text + Suffix(length)
      <4> HIDE DEF shown, text, used
      <4> QED BY <3>4, <3>5, <3>7
    <3> QED BY <3>6, <3>8
  <2>9. PICK text \in {client.text, client.text + Suffix(length)},
             used \in {client.used, pi.epoch} :
               /\ client' = [client EXCEPT !.text = text, !.images = @ \/ shown,
                                           !.used = used]
               /\ refused = "none" => text = client.text + Suffix(length)
    BY <2>8
  <2>10. /\ state' \in StateType /\ state'.tools = state.tools
         /\ state'.context = context /\ state'.imagesEmitted = (state.imagesEmitted \/ shown)
    <3>1. context \in 0 .. MaxEpoch /\ (state.imagesEmitted \/ shown) \in BOOLEAN
      BY <1>2
    <3> QED BY <2>7, <2>8, <3>1, Bounds DEF IInv, TypeOK, StateType
  <2>11. /\ client' \in ClientType /\ client'.text = text /\ client'.used = used
         /\ client'.tools = client.tools /\ client'.images = (client.images \/ shown)
         /\ client'.verdict = client.verdict
    <3>1. /\ text \in 0 .. MaxText /\ used \in 0 .. MaxEpoch
          /\ (client.images \/ shown) \in BOOLEAN
      BY <1>2, <2>6
    <3> QED BY <2>9, <3>1 DEF IInv, TypeOK, ClientType
  <2>12. CallsKept
    BY <1>4, <1>6, <2>4, <2>10, <2>11 DEF CallsKept
  <2>13. TypeOK' /\ IdleInv'
    BY <1>2, <1>4, <2>2, <2>4, <2>10, <2>11 DEF IInv, TypeOK, IdleInv
  <2>14. UsageInv' /\ ImageLossIsNamed'
    BY <1>4, <2>10, <2>11 DEF IInv, UsageInv, UsageIsCurrent, ImageLossIsNamed
  <2>15. ~cycle'.failed => client'.text = pi'.text
    <3>1. ~cycle'.failed => text = client.text + Suffix(length) /\ ~cycle.failed
      BY <2>4, <2>9
    <3>2. ~cycle.failed => client.text + Suffix(length) = length
      BY <1>2, <1>3, <2>5 DEF Suffix
    <3> QED BY <1>4, <2>11, <3>1, <3>2
  <2>16. TextInv'
    BY <1>2, <1>4, <2>11, <2>15 DEF TextInv, TextIsExact, Delivered
  <2> QED BY <2>12, <2>13, <2>14, <2>16, KeptCalls DEF IInv
<1> QED BY <1>5, <1>6

(* A compaction forgets the figure the cycle kept, and pi's moves on.      *)
LEMMA CompactionEndStep == IInv /\ CompactionEnd => IInv'
<1> SUFFICES ASSUME IInv, CompactionEnd PROVE IInv'
  OBVIOUS
<1>1. PICK taken \in Takes : Count(taken) /\ RecordFailure(cycle.open /\ ~taken)
  BY DEF CompactionEnd
<1>2. lost' \in 0 .. MaxLost
  BY <1>1, Counted DEF IInv, TypeOK
<1>3. /\ cycle' \in CycleType /\ cycle'.open = cycle.open
      /\ cycle'.cancelled = cycle.cancelled
      /\ cycle'.failed = (cycle.failed \/ (cycle.open /\ ~taken))
  <2>1. (cycle.open /\ ~taken) \in BOOLEAN
    OBVIOUS
  <2> QED BY <1>1, <2>1, FailureRecorded DEF IInv, TypeOK
<1>4. /\ pi' \in PiType /\ pi'.text = pi.text /\ ~pi'.streaming /\ ~pi.streaming
      /\ pi'.asked = pi.asked /\ pi'.started = pi.started /\ pi'.ended = pi.ended
  <2>1. pi.epoch + 1 \in 1 .. MaxEpoch
    BY Bounds DEF CompactionEnd, IInv, TypeOK, PiType
  <2> QED BY <2>1 DEF CompactionEnd, IInv, TypeOK, PiType
<1>5. /\ state' \in StateType /\ state'.context = 0 /\ state'.tools = state.tools
      /\ state'.imagesEmitted = state.imagesEmitted
  BY Bounds DEF CompactionEnd, Compacted, IInv, TypeOK, StateType
<1>6. /\ client' \in ClientType /\ client'.used = 0 /\ client'.text = client.text
      /\ client'.tools = client.tools /\ client'.images = client.images
      /\ client'.verdict = client.verdict
  BY Bounds DEF CompactionEnd, IInv, TypeOK, ClientType
<1>7. CallsKept
  BY <1>3, <1>4, <1>5, <1>6 DEF CallsKept, Projects
<1>8. TypeOK' /\ IdleInv'
  BY <1>2, <1>3, <1>4, <1>5, <1>6 DEF IInv, TypeOK, IdleInv
<1>9. UsageInv' /\ ImageLossIsNamed'
  BY <1>5, <1>6 DEF IInv, UsageInv, UsageIsCurrent, ImageLossIsNamed
<1>10. TextInv'
  BY <1>3, <1>4, <1>6 DEF IInv, TextInv, TextIsExact, Delivered, Projects
<1> QED BY <1>7, <1>8, <1>9, <1>10, KeptCalls DEF IInv

-----------------------------------------------------------------------------
(* Tool calls.                                                             *)

(* What an event of call t leaves alone.                                   *)
CycleFrame ==
  /\ cycle' \in CycleType /\ cycle'.open = cycle.open
  /\ cycle'.cancelled = cycle.cancelled /\ (cycle.failed => cycle'.failed)
  /\ lost' \in 0 .. MaxLost

StateFrame(t) ==
  /\ state' \in StateType
  /\ state'.context = state.context /\ state'.streamed = state.streamed
  /\ \A u \in Tools \ {t} : state'.tools[u] = state.tools[u]

PiFrame(t) ==
  /\ pi' \in PiType
  /\ pi'.text = pi.text /\ pi'.epoch = pi.epoch /\ pi'.streaming = pi.streaming
  /\ \A u \in Tools \ {t} : /\ u \in pi'.asked <=> u \in pi.asked
                            /\ u \in pi'.started <=> u \in pi.started
                            /\ u \in pi'.ended <=> u \in pi.ended

ClientFrame(t) ==
  /\ client' \in ClientType
  /\ client'.text = client.text /\ client'.used = client.used
  /\ client'.verdict = client.verdict
  /\ \A u \in Tools \ {t} : client'.tools[u] = client.tools[u]

CallFrame(t) == CycleFrame /\ StateFrame(t) /\ PiFrame(t) /\ ClientFrame(t)

LEMMA FramedCall ==
  ASSUME IInv, cycle.open, NEW t \in Tools, CallFrame(t), CallInv(t)', ImageLossIsNamed'
  PROVE  IInv' /\ ClientFrame(t)
<1> USE DEF CallFrame
<1>1. TypeOK'
  BY DEF TypeOK, CycleFrame, StateFrame, PiFrame, ClientFrame
<1>2. IdleInv'
  BY DEF IInv, IdleInv, CycleFrame, ClientFrame
<1>3. UsageInv'
  BY DEF IInv, UsageInv, UsageIsCurrent, StateFrame, PiFrame, ClientFrame
<1>4. (Projects' <=> Projects) /\ (~cycle'.failed => ~cycle.failed)
  BY DEF CycleFrame, Projects
<1>5. TextInv'
  BY <1>4 DEF IInv, TextInv, TextIsExact, Delivered, StateFrame, PiFrame, ClientFrame
<1>6. CallsInv'
  <2> SUFFICES ASSUME NEW u \in Tools, u # t PROVE CallInv(u)'
    BY DEF CallsInv
  <2>1. CallInv(u) /\ client'.tools[u] = client.tools[u] /\ state'.tools[u] = state.tools[u]
    BY DEF IInv, CallsInv, StateFrame, ClientFrame
  <2> QED BY <1>4, <2>1 DEF CallInv, PiFrame
<1> QED BY <1>1, <1>2, <1>3, <1>5, <1>6 DEF IInv

(* An event that is not projected changes pi alone.                        *)
LEMMA UnprojectedFrame ==
  ASSUME TypeOK, NEW t \in Tools, Unprojected
  PROVE  CycleFrame /\ StateFrame(t) /\ ClientFrame(t)
  BY DEF Unprojected, TypeOK, CycleFrame, StateFrame, ClientFrame

(* A delivery, and the failure its refusal may be.                         *)
LEMMA DeliveryFrame ==
  ASSUME TypeOK, NEW taken \in Takes, Count(taken),
         NEW failure \in BOOLEAN, RecordFailure(failure)
  PROVE  CycleFrame /\ (failure => cycle'.failed)
  BY Counted, FailureRecorded DEF TypeOK, CycleFrame

(* The kept copy of one call changes.                                      *)
LEMMA KeptChanges ==
  ASSUME TypeOK, NEW t \in Tools, NEW tool \in ToolState,
         state' = [state EXCEPT !.tools[t] = tool]
  PROVE  /\ StateFrame(t) /\ state'.tools[t] = tool
         /\ state'.imagesEmitted = state.imagesEmitted
  BY DEF TypeOK, StateType, StateFrame

(* The client's copy of one call changes.                                  *)
LEMMA ToldChanges ==
  ASSUME TypeOK, NEW t \in Tools, NEW status \in Statuses, NEW content \in Shown,
         client' = [client EXCEPT !.tools[t] = [status |-> status, content |-> content]]
  PROVE  /\ ClientFrame(t) /\ client'.images = client.images
         /\ client'.tools[t].status = status /\ client'.tools[t].content = content
  BY DEF TypeOK, ClientType, ClientFrame

LEMMA CallTypes ==
  ASSUME TypeOK, NEW t \in Tools
  PROVE  /\ state.tools[t] \in ToolState /\ state.tools[t].content \in Content
         /\ client.tools[t].status \in Statuses /\ client.tools[t].content \in Shown
         /\ state.tools[t] = [published |-> state.tools[t].published,
                              terminal |-> state.tools[t].terminal,
                              content |-> state.tools[t].content]
         /\ client.tools[t] = [status |-> client.tools[t].status,
                               content |-> client.tools[t].content]
  BY DEF TypeOK, StateType, ToolState, ClientType

(* Only the client's view of the status changes.                           *)
LEMMA Told ==
  ASSUME TypeOK, NEW t \in Tools, NEW status \in Statuses, Tell(t, status)
  PROVE  /\ ClientFrame(t) /\ client'.images = client.images
         /\ client'.tools[t].status = status
         /\ client'.tools[t].content = client.tools[t].content
<1>1. client' = [client EXCEPT !.tools[t] =
                   [status |-> status, content |-> client.tools[t].content]]
  BY DEF Tell, TypeOK, ClientType
<1>2. client.tools[t].content \in Shown
  BY CallTypes
<1> QED BY <1>1, <1>2, ToldChanges

(* What a step may do to the client's copy of a call.                      *)

Forward(t) ==
  LET before == client.tools[t]
      after  == client'.tools[t]
  IN /\ before.status = after.status \/ Rank[before.status] < Rank[after.status]
     /\ \/ before.content.images \subseteq after.content.images
        \/ after.content.text = Guidance

LEMMA ToolAskedStep ==
  ASSUME IInv, NEW t \in Tools, ToolAsked(t)
  PROVE  IInv' /\ ClientFrame(t) /\ Forward(t)
<1>1. /\ pi' = [pi EXCEPT !.asked = @ \cup {t}] /\ cycle.open
      /\ t \notin pi.asked \cup pi.started \cup pi.ended
  BY DEF ToolAsked
<1>2. PiFrame(t) /\ t \notin pi'.started \cup pi'.ended /\ t \in pi'.asked
  BY <1>1 DEF IInv, TypeOK, PiType, PiFrame
<1>3. /\ client.tools[t].status = "unknown" /\ client.tools[t].content = Empty
      /\ state.tools[t].content = Empty /\ ~state.tools[t].terminal
  BY <1>1 DEF IInv, CallsInv, CallInv
<1>4. CASE ~Projects
  <2>1. Unprojected
    BY <1>4 DEF ToolAsked
  <2>2. CallFrame(t) /\ client' = client /\ state' = state
    BY <1>2, <2>1, UnprojectedFrame DEF IInv, CallFrame, Unprojected
  <2>3. CallInv(t)' /\ ImageLossIsNamed'
    BY <1>2, <1>3, <2>2 DEF IInv, CallInv, ImageLossIsNamed
  <2> QED BY <1>1, <2>2, <2>3, FramedCall DEF Forward
<1>5. CASE Projects
  <2>1. PICK taken \in Takes :
          /\ Count(taken)
          /\ state' = [state EXCEPT !.tools[t].published = taken]
          /\ IF taken THEN Tell(t, "pending") ELSE UNCHANGED client
          /\ UNCHANGED cycle
    BY <1>5 DEF ToolAsked
  <2>2. CycleFrame
    BY <2>1, Counted DEF IInv, TypeOK, CycleFrame
  <2>3. /\ StateFrame(t) /\ state'.imagesEmitted = state.imagesEmitted
        /\ state'.tools[t].content = Empty /\ ~state'.tools[t].terminal
    <3> DEFINE tool == [state.tools[t] EXCEPT !.published = taken]
    <3>1. state' = [state EXCEPT !.tools[t] = tool]
      BY <2>1
    <3>2. tool \in ToolState
      BY TakesBoolean, CallTypes DEF IInv, ToolState
    <3>3. tool.content = Empty /\ ~tool.terminal
      BY <1>3, CallTypes DEF IInv, ToolState
    <3> HIDE DEF tool
    <3> QED BY <3>1, <3>2, <3>3, KeptChanges DEF IInv
  <2>4. /\ ClientFrame(t) /\ client'.images = client.images
        /\ client'.tools[t].status \in {"unknown", "pending"}
        /\ client'.tools[t].content = Empty
    <3>1. CASE taken
      BY <1>3, <2>1, <3>1, Told DEF IInv, Statuses
    <3>2. CASE ~taken
      BY <1>3, <2>1, <3>2 DEF IInv, TypeOK, ClientFrame
    <3> QED BY <3>1, <3>2
  <2>5. CallFrame(t) /\ CallInv(t)' /\ ImageLossIsNamed'
    BY <1>2, <2>2, <2>3, <2>4 DEF IInv, CallFrame, CallInv, ImageLossIsNamed
  <2>6. Forward(t)
    BY <1>3, <2>4 DEF Forward, Rank
  <2> QED BY <1>1, <2>5, <2>6, FramedCall
<1> QED BY <1>4, <1>5

LEMMA ToolStartStep ==
  ASSUME IInv, NEW t \in Tools, ToolStart(t)
  PROVE  IInv' /\ ClientFrame(t) /\ Forward(t)
<1>1. /\ pi' = [pi EXCEPT !.started = @ \cup {t}] /\ cycle.open
      /\ t \notin pi.started \cup pi.ended
  BY DEF ToolStart
<1>2. PiFrame(t) /\ t \in pi'.started /\ t \notin pi'.ended
  BY <1>1 DEF IInv, TypeOK, PiType, PiFrame
<1>3. /\ client.tools[t].status \in {"unknown", "pending"}
      /\ client.tools[t].content = Empty
      /\ state.tools[t].content = Empty /\ ~state.tools[t].terminal
  BY <1>1 DEF IInv, CallsInv, CallInv
<1>4. CASE ~Projects
  <2>1. Unprojected
    BY <1>4 DEF ToolStart
  <2>2. CallFrame(t) /\ client' = client /\ state' = state
    BY <1>2, <2>1, UnprojectedFrame DEF IInv, CallFrame, Unprojected
  <2>3. CallInv(t)' /\ ImageLossIsNamed'
    BY <1>2, <1>3, <2>2 DEF IInv, CallInv, ImageLossIsNamed
  <2> QED BY <1>1, <2>2, <2>3, FramedCall DEF Forward
<1>5. CASE Projects
  <2>1. PICK taken \in Takes :
          /\ Count(taken) /\ RecordFailure(~taken)
          /\ state' = [state EXCEPT !.tools[t].published = @ \/ taken]
          /\ IF taken THEN Tell(t, "in_progress") ELSE UNCHANGED client
    BY <1>5 DEF ToolStart
  <2>2. CycleFrame
    BY <2>1, TakesBoolean, DeliveryFrame DEF IInv
  <2>3. /\ StateFrame(t) /\ state'.imagesEmitted = state.imagesEmitted
        /\ state'.tools[t].content = Empty /\ ~state'.tools[t].terminal
    <3> DEFINE tool == [state.tools[t] EXCEPT !.published = @ \/ taken]
    <3>1. state' = [state EXCEPT !.tools[t] = tool]
      BY <2>1
    <3>2. tool \in ToolState
      BY TakesBoolean, CallTypes DEF IInv, ToolState
    <3>3. tool.content = Empty /\ ~tool.terminal
      BY <1>3, CallTypes DEF IInv, ToolState
    <3> HIDE DEF tool
    <3> QED BY <3>1, <3>2, <3>3, KeptChanges DEF IInv
  <2>4. /\ ClientFrame(t) /\ client'.images = client.images
        /\ client'.tools[t].status \in {client.tools[t].status, "in_progress"}
        /\ client'.tools[t].content = Empty
    <3>1. CASE taken
      BY <1>3, <2>1, <3>1, Told DEF IInv, Statuses
    <3>2. CASE ~taken
      BY <1>3, <2>1, <3>2 DEF IInv, TypeOK, ClientFrame
    <3> QED BY <3>1, <3>2
  <2>5. CallFrame(t) /\ CallInv(t)' /\ ImageLossIsNamed'
    BY <1>2, <1>3, <2>2, <2>3, <2>4 DEF IInv, CallFrame, CallInv, ImageLossIsNamed
  <2>6. Forward(t)
    BY <1>3, <2>4 DEF Forward, Rank
  <2> QED BY <1>1, <2>5, <2>6, FramedCall
<1> QED BY <1>4, <1>5

(* A failed image: the client that takes the update is told the guidance,  *)
(* or, when nobody can act on it, keeps its array in a failed cycle.       *)
LEMMA ImageFailed ==
  ASSUME TypeOK, NEW t \in Tools, NEW recoverable \in BOOLEAN, NEW taken \in Takes,
         FailToolImage(t, recoverable, taken),
         client.tools[t].status \in {"unknown", "pending", "in_progress"}
  PROVE  /\ CycleFrame /\ ClientFrame(t) /\ client'.images = client.images
         /\ Forward(t)
         /\ ~cycle'.failed => client'.tools[t].content.text = Guidance
<1>1. taken \in BOOLEAN
  BY TakesBoolean
<1>2. CycleFrame /\ (~taken \/ ~recoverable => cycle'.failed)
  <2>1. (~taken \/ ~recoverable) \in BOOLEAN
    OBVIOUS
  <2> QED BY <2>1, DeliveryFrame DEF FailToolImage
<1>3. CASE ~taken
  <2>1. client' = client
    BY <1>3 DEF FailToolImage
  <2> QED BY <1>2, <1>3, <2>1 DEF TypeOK, ClientFrame, Forward
<1>4. CASE taken /\ recoverable
  <2> DEFINE content == [text |-> Guidance, images |-> {}]
  <2>1. client' = [client EXCEPT !.tools[t] = [status |-> "failed", content |-> content]]
    BY <1>4 DEF FailToolImage
  <2>2. content \in Shown /\ content.text = Guidance /\ "failed" \in Statuses
    BY DEF Shown, Statuses
  <2> HIDE DEF content
  <2>3. /\ ClientFrame(t) /\ client'.images = client.images
        /\ client'.tools[t].status = "failed" /\ client'.tools[t].content = content
    BY <2>1, <2>2, ToldChanges
  <2> QED BY <1>2, <2>2, <2>3 DEF Forward, Rank
<1>5. CASE taken /\ ~recoverable
  <2>1. client' = [client EXCEPT !.tools[t] =
                     [status |-> "failed", content |-> client.tools[t].content]]
    BY <1>5 DEF FailToolImage, TypeOK, ClientType
  <2>2. client.tools[t].content \in Shown /\ "failed" \in Statuses
    BY CallTypes DEF Statuses
  <2>3. /\ ClientFrame(t) /\ client'.images = client.images
        /\ client'.tools[t].status = "failed"
        /\ client'.tools[t].content = client.tools[t].content
    BY <2>1, <2>2, ToldChanges
  <2> QED BY <1>2, <1>5, <2>3 DEF Forward, Rank
<1> QED BY <1>1, <1>3, <1>4, <1>5

(* A refusal is recoverable or not.                                        *)
LEMMA RefusalsBoolean ==
  ASSUME NEW t, NEW content, NEW refusal \in Refusals(t, content)
  PROVE  refusal \in BOOLEAN
<1> DEFINE decode == {TRUE : i \in content.images \cap Refused}
                       \cup {FALSE : i \in content.images \cap Fatal}
<1>1. decode \subseteq BOOLEAN
  OBVIOUS
<1> QED BY <1>1 DEF Refusals

(* A snapshot that was recorded.                                           *)
LEMMA Recorded ==
  ASSUME TypeOK, NEW t \in Tools, NEW snapshot \in Content, Size(snapshot) # 0,
         state' = RecordToolContent(t, snapshot)
  PROVE  /\ StateFrame(t) /\ state'.tools[t].content = snapshot
         /\ state'.tools[t].terminal = state.tools[t].terminal
         /\ state'.imagesEmitted = (state.imagesEmitted \/ snapshot.images # {})
<1> DEFINE tool == [state.tools[t] EXCEPT !.content = snapshot]
           emitted == state.imagesEmitted \/ snapshot.images # {}
<1>1. state' = [state EXCEPT !.tools[t] = tool, !.imagesEmitted = emitted]
  BY DEF RecordToolContent
<1>2. /\ tool \in ToolState /\ tool.content = snapshot
      /\ tool.terminal = state.tools[t].terminal /\ emitted \in BOOLEAN
  BY CallTypes DEF ToolState
<1> HIDE DEF tool, emitted
<1>3. /\ state' \in StateType /\ state'.tools = [state.tools EXCEPT ![t] = tool]
      /\ state'.imagesEmitted = emitted /\ state'.context = state.context
      /\ state'.streamed = state.streamed
  <2>1. [state.tools EXCEPT ![t] = tool] \in [Tools -> ToolState]
    BY <1>2 DEF TypeOK, StateType
  <2>2. state' = [state EXCEPT !.tools = [state.tools EXCEPT ![t] = tool],
                               !.imagesEmitted = emitted]
    BY <1>1
  <2> QED BY <1>2, <2>1, <2>2 DEF TypeOK, StateType
<1>4. StateFrame(t) /\ state'.tools[t] = tool
  BY <1>3 DEF TypeOK, StateType, StateFrame
<1> QED BY <1>2, <1>3, <1>4 DEF emitted

(* A partial result: nothing, a failed image, or a longer or shorter       *)
(* snapshot in place of the last one.                                      *)
LEMMA ToolUpdateStep ==
  ASSUME IInv, NEW t \in Tools, ToolUpdate(t)
  PROVE  IInv' /\ ClientFrame(t) /\ Forward(t)
<1>1. PICK content \in Content :
       /\ UNCHANGED pi
       /\ IF ~Projects \/ IsTerminal(t)
            THEN Unprojected
          ELSE IF Refusals(t, content) # {}
            THEN \E recoverable \in Refusals(t, content), taken \in Takes :
                   /\ FailToolImage(t, recoverable, taken)
                   /\ state' = [state EXCEPT !.tools[t].terminal = TRUE]
          ELSE LET snapshot == Merge(state.tools[t].content, content) IN
               IF ~UpdateSent(t, snapshot) THEN Unprojected
               ELSE \E taken \in Takes :
                      /\ Count(taken) /\ RecordFailure(~taken)
                      /\ IF taken
                           THEN /\ state' = RecordToolContent(t, snapshot)
                                /\ client' = [client EXCEPT
                                     !.tools[t].content = snapshot,
                                     !.images = @ \/ snapshot.images # {}]
                           ELSE UNCHANGED <<state, client>>
  BY DEF ToolUpdate
<1> DEFINE snapshot == Merge(state.tools[t].content, content)
<1>2. t \in pi.started /\ t \notin pi.ended
  BY DEF ToolUpdate, Running
<1>3. cycle.open
  BY <1>2 DEF IInv, IdleInv
<1>4. PiFrame(t) /\ t \in pi'.started /\ t \notin pi'.ended
  <2>1. content.text \in Texts \cup {None}
    BY DEF Content
  <2>2. /\ pi' \in PiType /\ pi'.text = pi.text /\ pi'.epoch = pi.epoch
        /\ pi'.streaming = pi.streaming /\ pi'.asked = pi.asked
        /\ pi'.started = pi.started /\ pi'.ended = pi.ended
    BY <1>1, <2>1 DEF IInv, TypeOK, PiType
  <2> QED BY <1>2, <2>2 DEF PiFrame
<1>5. CallInv(t) /\ ImageLossIsNamed
  BY DEF IInv, CallsInv
<1>6. snapshot \in Content /\ state.tools[t].content.images \subseteq snapshot.images
  BY CallTypes, MergeTyped DEF IInv
<1> HIDE DEF snapshot
<1>7. CASE Unprojected
  <2>1. CallFrame(t) /\ client' = client /\ state' = state /\ cycle' = cycle
    BY <1>4, <1>7, UnprojectedFrame DEF IInv, CallFrame, Unprojected
  <2>2. Projects' <=> Projects
    BY <2>1 DEF Projects
  <2>3. CallInv(t)' /\ ImageLossIsNamed'
    BY <1>2, <1>4, <1>5, <2>1, <2>2 DEF CallInv, ImageLossIsNamed
  <2> QED BY <1>3, <2>1, <2>3, FramedCall DEF Forward
<1>8. CASE /\ ~(~Projects \/ IsTerminal(t)) /\ Refusals(t, content) # {}
  <2>1. PICK recoverable \in Refusals(t, content), taken \in Takes :
                   /\ FailToolImage(t, recoverable, taken)
                   /\ state' = [state EXCEPT !.tools[t].terminal = TRUE]
    BY <1>1, <1>8
  <2>2. client.tools[t].status \in {"unknown", "pending", "in_progress"}
    BY <1>2, <1>5, <1>8 DEF CallInv, IsTerminal
  <2>3. /\ CycleFrame /\ ClientFrame(t) /\ client'.images = client.images
        /\ Forward(t)
        /\ ~cycle'.failed => client'.tools[t].content.text = Guidance
    BY <2>1, <2>2, ImageFailed, RefusalsBoolean DEF IInv
  <2>4. /\ StateFrame(t) /\ state'.tools[t].terminal
        /\ state'.imagesEmitted = state.imagesEmitted
    <3> DEFINE tool == [state.tools[t] EXCEPT !.terminal = TRUE]
    <3>1. state' = [state EXCEPT !.tools[t] = tool]
      BY <2>1
    <3>2. tool \in ToolState /\ tool.terminal
      BY CallTypes DEF IInv, ToolState
    <3> HIDE DEF tool
    <3> QED BY <3>1, <3>2, KeptChanges DEF IInv
  <2>5. CallFrame(t) /\ ImageLossIsNamed' /\ CallInv(t)'
    BY <1>4, <1>5, <2>3, <2>4 DEF CallFrame, ImageLossIsNamed, CallInv
  <2> QED BY <1>3, <2>3, <2>5, FramedCall
<1>9. CASE /\ ~(~Projects \/ IsTerminal(t)) /\ Refusals(t, content) = {}
           /\ UpdateSent(t, snapshot)
  <2>1. PICK taken \in Takes :
                      /\ Count(taken) /\ RecordFailure(~taken)
                      /\ IF taken
                           THEN /\ state' = RecordToolContent(t, snapshot)
                                /\ client' = [client EXCEPT
                                     !.tools[t].content = snapshot,
                                     !.images = @ \/ snapshot.images # {}]
                           ELSE UNCHANGED <<state, client>>
    BY <1>1, <1>9 DEF snapshot
  <2>2. CycleFrame
    BY <2>1, TakesBoolean, DeliveryFrame DEF IInv
  <2>3. /\ ~state.tools[t].terminal
        /\ client.tools[t].status \in {"unknown", "pending", "in_progress"}
        /\ client.tools[t].content = state.tools[t].content
    BY <1>2, <1>5, <1>9 DEF CallInv, IsTerminal
  <2>4. CASE ~taken
    <3>1. client' = client /\ state' = state
      BY <2>1, <2>4
    <3>2. StateFrame(t) /\ ClientFrame(t)
      BY <3>1 DEF IInv, TypeOK, StateFrame, ClientFrame
    <3>3. CallFrame(t) /\ ImageLossIsNamed' /\ CallInv(t)' /\ Forward(t)
      BY <1>2, <1>4, <1>5, <2>2, <2>3, <3>1, <3>2
         DEF CallFrame, ImageLossIsNamed, CallInv, Forward
    <3> QED BY <1>3, <3>3, FramedCall
  <2>5. CASE taken
    <3>1. /\ StateFrame(t) /\ state'.tools[t].content = snapshot
          /\ state'.tools[t].terminal = state.tools[t].terminal
          /\ state'.imagesEmitted = (state.imagesEmitted \/ snapshot.images # {})
      BY <1>6, <1>9, <2>1, <2>5, Recorded DEF IInv, UpdateSent
    <3>2. /\ ClientFrame(t) /\ client'.tools[t].content = snapshot
          /\ client'.tools[t].status = client.tools[t].status
          /\ client'.images = (client.images \/ snapshot.images # {})
      <4> DEFINE call == [client.tools[t] EXCEPT !.content = snapshot]
                 images == client.images \/ snapshot.images # {}
      <4>1. client' = [client EXCEPT !.tools[t] = call, !.images = images]
        BY <2>1, <2>5
      <4>2. /\ call \in [status : Statuses, content : Shown] /\ call.content = snapshot
            /\ call.status = client.tools[t].status /\ images \in BOOLEAN
        BY <1>6, CallTypes DEF IInv, TypeOK, ClientType, Shown
      <4> HIDE DEF call, images
      <4>3. /\ client' \in ClientType /\ client'.tools = [client.tools EXCEPT ![t] = call]
            /\ client'.images = images /\ client'.text = client.text
            /\ client'.used = client.used /\ client'.verdict = client.verdict
        BY <4>1, <4>2 DEF IInv, TypeOK, ClientType
      <4>4. ClientFrame(t) /\ client'.tools[t] = call
        BY <4>3 DEF IInv, TypeOK, ClientType, ClientFrame
      <4> QED BY <4>2, <4>3, <4>4 DEF images
    <3>3. CallFrame(t) /\ ImageLossIsNamed' /\ CallInv(t)'
      BY <1>4, <1>5, <2>2, <2>3, <3>1, <3>2 DEF CallFrame, ImageLossIsNamed, CallInv
    <3>4. Forward(t)
      BY <1>6, <2>3, <3>2 DEF Forward
    <3> QED BY <1>3, <3>3, <3>4, FramedCall
  <2> QED BY <2>1, <2>4, <2>5, TakesBoolean
<1> QED BY <1>1, <1>7, <1>8, <1>9 DEF snapshot

(* The terminal update.                                                    *)
LEMMA ToolEnded ==
  ASSUME TypeOK, NEW t \in Tools, NEW status \in {"completed", "failed"},
         NEW snapshot \in Content, client' = Ended(t, status, snapshot)
  PROVE  /\ ClientFrame(t) /\ client'.tools[t].status = status
         /\ client'.images = (client.images \/ snapshot.images # {})
         /\ client'.tools[t].content =
              IF Size(snapshot) = 0 THEN client.tools[t].content ELSE snapshot
<1> DEFINE content == IF Size(snapshot) = 0 THEN client.tools[t].content ELSE snapshot
           call    == [status |-> status, content |-> content]
           images  == client.images \/ snapshot.images # {}
<1>1. client' = [client EXCEPT !.tools[t] = call, !.images = images]
  BY DEF Ended, TypeOK, ClientType
<1>2. content \in Shown /\ status \in Statuses
  BY CallTypes DEF Shown, Statuses
<1>3. call \in [status : Statuses, content : Shown] /\ images \in BOOLEAN
  BY <1>2
<1> HIDE DEF images, content
<1>4. /\ client' \in ClientType /\ client'.tools = [client.tools EXCEPT ![t] = call]
      /\ client'.images = images /\ client'.text = client.text
      /\ client'.used = client.used /\ client'.verdict = client.verdict
  <2> HIDE DEF call
  <2>1. [client.tools EXCEPT ![t] = call] \in [Tools -> [status : Statuses, content : Shown]]
    BY <1>3 DEF TypeOK, ClientType
  <2>2. client' = [client EXCEPT !.tools = [client.tools EXCEPT ![t] = call],
                                 !.images = images]
    BY <1>1
  <2> QED BY <1>3, <2>1, <2>2 DEF TypeOK, ClientType
<1>5. ClientFrame(t) /\ client'.tools[t] = call
  <2> HIDE DEF call
  <2> QED BY <1>4 DEF TypeOK, ClientType, ClientFrame
<1> QED BY <1>4, <1>5 DEF images, content

(* What the cycle keeps of a call that ended: nothing but its images.      *)
LEMMA KeptEnds ==
  ASSUME TypeOK, NEW t \in Tools, NEW snapshot \in Content,
         state' = [RecordToolContent(t, snapshot) EXCEPT !.tools[t] = NewTool]
  PROVE  /\ StateFrame(t)
         /\ state'.imagesEmitted = (state.imagesEmitted \/ snapshot.images # {})
<1> DEFINE emitted == state.imagesEmitted \/ snapshot.images # {}
<1>1. NewTool \in ToolState
  BY NewTyped
<1>2. CASE Size(snapshot) = 0
  <2>1. state' = [state EXCEPT !.tools[t] = NewTool]
    BY <1>2 DEF RecordToolContent
  <2>2. emitted = state.imagesEmitted
    BY <1>2, SizeZero DEF TypeOK, StateType
  <2> QED BY <1>1, <2>1, <2>2, KeptChanges
<1>3. CASE Size(snapshot) # 0
  <2>1. [state.tools EXCEPT ![t] = NewTool] \in [Tools -> ToolState]
    BY <1>1 DEF TypeOK, StateType
  <2>2. state' = [state EXCEPT !.tools = [state.tools EXCEPT ![t] = NewTool],
                               !.imagesEmitted = emitted]
    <3>1. RecordToolContent(t, snapshot) =
            [state EXCEPT !.tools = [state.tools EXCEPT ![t] =
                                       [state.tools[t] EXCEPT !.content = snapshot]],
                          !.imagesEmitted = emitted]
      BY <1>3 DEF RecordToolContent
    <3> QED BY <3>1 DEF TypeOK, StateType
  <2>3. emitted \in BOOLEAN
    BY DEF TypeOK, StateType
  <2> HIDE DEF emitted
  <2>4. /\ state' \in StateType /\ state'.tools = [state.tools EXCEPT ![t] = NewTool]
        /\ state'.imagesEmitted = emitted /\ state'.context = state.context
        /\ state'.streamed = state.streamed
    BY <2>1, <2>2, <2>3 DEF TypeOK, StateType
  <2>5. StateFrame(t)
    BY <2>4 DEF TypeOK, StateType, StateFrame
  <2> QED BY <2>4, <2>5 DEF emitted
<1> QED BY <1>2, <1>3

(* The snapshot a call ends with.                                          *)
Snapshot(t, result) ==
  IF result = None THEN Empty ELSE Merge(state.tools[t].content, result)

LEMMA SnapshotTyped ==
  ASSUME TypeOK, NEW t \in Tools, NEW result \in Results
  PROVE  Snapshot(t, result) \in Content
<1>1. CASE result = None
  BY <1>1, NewTyped DEF Snapshot
<1>2. CASE result # None
  <2>1. result \in Content
    BY <1>2 DEF Results
  <2> QED BY <1>2, <2>1, CallTypes, MergeTyped DEF Snapshot
<1> QED BY <1>1, <1>2

(* The images a client was shown are among those of the snapshot.          *)
LEMMA SnapshotKeeps ==
  ASSUME TypeOK, NEW t \in Tools, NEW result \in Results, Size(Snapshot(t, result)) # 0
  PROVE  state.tools[t].content.images \subseteq Snapshot(t, result).images
<1>1. CASE result = None
  BY <1>1, SizeEmpty DEF Snapshot
<1>2. CASE result # None
  <2>1. result \in Content
    BY <1>2 DEF Results
  <2> QED BY <1>2, <2>1, CallTypes, MergeTyped DEF Snapshot
<1> QED BY <1>1, <1>2

(* The branches of publishToolTerminal for a call that still reports.      *)
LEMMA EndsCases ==
  ASSUME TypeOK, NEW t \in Tools, NEW result \in Results,
         NEW status \in {"completed", "failed"}, Ends(t, result, status),
         Projects, ~IsTerminal(t)
  PROVE  \E taken \in Takes :
           \/ \E recoverable \in BOOLEAN :
                /\ FailToolImage(t, recoverable, taken)
                /\ state' = [state EXCEPT !.tools[t] = NewTool]
           \/ /\ result # None => Refusals(t, result) = {}
              /\ Count(taken) /\ RecordFailure(~taken)
              /\ client' = IF taken THEN Ended(t, status, Snapshot(t, result)) ELSE client
              /\ state' = IF taken
                            THEN [RecordToolContent(t, Snapshot(t, result)) EXCEPT
                                    !.tools[t] = NewTool]
                            ELSE [state EXCEPT !.tools[t] = NewTool]
<1> DEFINE content  == IF result = None THEN Empty ELSE result
           refusals == IF result = None THEN {} ELSE Refusals(t, content)
<1>1. PICK taken \in Takes :
        IF refusals # {}
          THEN /\ \E recoverable \in refusals : FailToolImage(t, recoverable, taken)
               /\ state' = [state EXCEPT !.tools[t] = NewTool]
          ELSE /\ Count(taken) /\ RecordFailure(~taken)
               /\ client' = IF taken THEN Ended(t, status, Snapshot(t, result)) ELSE client
               /\ state' = IF taken
                             THEN [RecordToolContent(t, Snapshot(t, result)) EXCEPT
                                     !.tools[t] = NewTool]
                             ELSE [state EXCEPT !.tools[t] = NewTool]
  <2>1. CASE result = None
    BY <2>1 DEF Ends, Snapshot
  <2>2. CASE result # None
    BY <2>2 DEF Ends, Snapshot
  <2> QED BY <2>1, <2>2
<1>2. CASE refusals # {}
  <2>1. PICK recoverable \in refusals : FailToolImage(t, recoverable, taken)
    BY <1>1, <1>2
  <2>2. recoverable \in BOOLEAN
    BY <2>1, RefusalsBoolean
  <2> QED BY <1>1, <1>2, <2>1, <2>2
<1>3. CASE refusals = {}
  <2>1. result # None => Refusals(t, result) = {}
    BY <1>3
  <2> QED BY <1>1, <1>3, <2>1
<1> QED BY <1>2, <1>3

(* pi's result ends the call, whatever was sent of it.                     *)
LEMMA ToolEndStep ==
  ASSUME IInv, NEW t \in Tools, ToolEnd(t)
  PROVE  IInv' /\ ClientFrame(t) /\ Forward(t)
<1>1. PICK result \in Results, status \in {"completed", "failed"} : Ends(t, result, status)
  BY DEF ToolEnd
<1>2. t \in pi.started /\ t \notin pi.ended
  BY DEF ToolEnd, Running
<1>3. cycle.open
  BY <1>2 DEF IInv, IdleInv
<1>4. PiFrame(t) /\ t \in pi'.ended
  <2>1. pi' = [pi EXCEPT !.ended = @ \cup {t}]
    BY <1>1 DEF Ends
  <2>2. /\ pi' \in PiType /\ pi'.text = pi.text /\ pi'.epoch = pi.epoch
        /\ pi'.streaming = pi.streaming /\ pi'.asked = pi.asked
        /\ pi'.started = pi.started /\ pi'.ended = pi.ended \cup {t}
    BY <2>1 DEF IInv, TypeOK, PiType
  <2> QED BY <2>2 DEF PiFrame
<1>5. /\ CallInv(t) /\ ImageLossIsNamed
      /\ t \in pi'.started
  <2>1. pi'.started = pi.started
    BY <1>1 DEF Ends, IInv, TypeOK, PiType
  <2> QED BY <1>2, <2>1 DEF IInv, CallsInv
<1>6. CASE ~Projects
  <2>1. Unprojected
    BY <1>1, <1>6 DEF Ends
  <2>2. CallFrame(t) /\ client' = client /\ state' = state
    BY <1>4, <2>1, UnprojectedFrame DEF IInv, CallFrame, Unprojected
  <2>3. CallInv(t)' /\ ImageLossIsNamed'
    BY <1>4, <1>5, <2>2 DEF CallInv, ImageLossIsNamed
  <2> QED BY <1>3, <2>2, <2>3, FramedCall DEF Forward
<1>7. CASE Projects /\ IsTerminal(t)
  <2>1. state' = [state EXCEPT !.tools[t] = NewTool] /\ UNCHANGED <<cycle, client, lost>>
    BY <1>1, <1>7 DEF Ends
  <2>2. StateFrame(t) /\ state'.imagesEmitted = state.imagesEmitted
    BY <2>1, KeptChanges, NewTyped DEF IInv
  <2>3. CycleFrame /\ ClientFrame(t)
    BY <2>1 DEF IInv, TypeOK, CycleFrame, ClientFrame
  <2>4. CallFrame(t) /\ CallInv(t)' /\ ImageLossIsNamed'
    BY <1>4, <1>5, <2>1, <2>2, <2>3 DEF CallFrame, CallInv, ImageLossIsNamed
  <2> QED BY <1>3, <2>1, <2>4, FramedCall DEF Forward
<1>8. CASE Projects /\ ~IsTerminal(t)
  <2>1. PICK taken \in Takes :
           \/ \E recoverable \in BOOLEAN :
                /\ FailToolImage(t, recoverable, taken)
                /\ state' = [state EXCEPT !.tools[t] = NewTool]
           \/ /\ Count(taken) /\ RecordFailure(~taken)
              /\ client' = IF taken THEN Ended(t, status, Snapshot(t, result)) ELSE client
              /\ state' = IF taken
                            THEN [RecordToolContent(t, Snapshot(t, result)) EXCEPT
                                    !.tools[t] = NewTool]
                            ELSE [state EXCEPT !.tools[t] = NewTool]
    BY <1>1, <1>8, EndsCases DEF IInv
  <2>2. /\ client.tools[t].status \in {"unknown", "pending", "in_progress"}
        /\ client.tools[t].content = state.tools[t].content
    BY <1>2, <1>5, <1>8 DEF CallInv, IsTerminal
  <2>3. ASSUME NEW recoverable \in BOOLEAN, FailToolImage(t, recoverable, taken),
               state' = [state EXCEPT !.tools[t] = NewTool]
        PROVE  IInv' /\ ClientFrame(t) /\ Forward(t)
    <3>1. /\ CycleFrame /\ ClientFrame(t) /\ client'.images = client.images
          /\ Forward(t)
      BY <2>2, <2>3, ImageFailed DEF IInv
    <3>2. StateFrame(t) /\ state'.imagesEmitted = state.imagesEmitted
      BY <2>3, KeptChanges, NewTyped DEF IInv
    <3>3. CallFrame(t) /\ CallInv(t)' /\ ImageLossIsNamed'
      BY <1>4, <1>5, <3>1, <3>2 DEF CallFrame, CallInv, ImageLossIsNamed
    <3> QED BY <1>3, <3>1, <3>3, FramedCall
  <2>4. ASSUME taken, Count(taken), RecordFailure(~taken),
               client' = Ended(t, status, Snapshot(t, result)),
               state' = [RecordToolContent(t, Snapshot(t, result)) EXCEPT
                           !.tools[t] = NewTool]
        PROVE  IInv' /\ ClientFrame(t) /\ Forward(t)
    <3>1. Snapshot(t, result) \in Content
      BY SnapshotTyped DEF IInv
    <3>2. CycleFrame
      BY <2>4, TakesBoolean, DeliveryFrame DEF IInv
    <3>3. /\ ClientFrame(t) /\ client'.tools[t].status = status
          /\ client'.images = (client.images \/ Snapshot(t, result).images # {})
          /\ client'.tools[t].content =
               IF Size(Snapshot(t, result)) = 0 THEN client.tools[t].content
               ELSE Snapshot(t, result)
      BY <2>4, <3>1, ToolEnded DEF IInv
    <3>4. /\ StateFrame(t)
          /\ state'.imagesEmitted =
               (state.imagesEmitted \/ Snapshot(t, result).images # {})
      BY <2>4, <3>1, KeptEnds DEF IInv
    <3>5. CallFrame(t) /\ CallInv(t)' /\ ImageLossIsNamed'
      BY <1>4, <1>5, <3>2, <3>3, <3>4 DEF CallFrame, CallInv, ImageLossIsNamed
    <3>6. client.tools[t].content.images \subseteq client'.tools[t].content.images
      BY <2>2, <3>3, SnapshotKeeps DEF IInv
    <3>7. Forward(t)
      BY <2>2, <3>3, <3>6 DEF Forward, Rank
    <3> QED BY <1>3, <3>5, <3>7, FramedCall
  <2>5. ASSUME ~taken, Count(taken), RecordFailure(~taken), client' = client,
               state' = [state EXCEPT !.tools[t] = NewTool]
        PROVE  IInv' /\ ClientFrame(t) /\ Forward(t)
    <3>1. StateFrame(t) /\ state'.imagesEmitted = state.imagesEmitted
      BY <2>5, KeptChanges, NewTyped DEF IInv
    <3>2. CycleFrame
      BY <2>5, TakesBoolean, DeliveryFrame DEF IInv
    <3>3. CallFrame(t) /\ CallInv(t)' /\ ImageLossIsNamed'
      BY <1>4, <1>5, <2>5, <3>1, <3>2
         DEF IInv, TypeOK, ClientFrame, CallFrame, CallInv, ImageLossIsNamed
    <3> QED BY <1>3, <2>5, <3>3, FramedCall DEF Forward
  <2> QED BY <2>1, <2>3, <2>4, <2>5, TakesBoolean
<1> QED BY <1>6, <1>7, <1>8

-----------------------------------------------------------------------------
(* The inductive invariant.                                                *)

LEMMA Starts == Init => IInv
<1> SUFFICES ASSUME Init PROVE IInv
  OBVIOUS
<1>1. /\ ~cycle.open /\ ~cycle.cancelled /\ ~cycle.failed
      /\ cycle \in CycleType /\ lost \in 0 .. MaxLost
  BY Bounds DEF Init, CycleType
<1>2. /\ state \in StateType /\ state.context = 0 /\ ~state.imagesEmitted
      /\ \A t \in Tools : state.tools[t] = NewTool
  BY NewTyped DEF Init, NewState
<1>3. /\ pi \in PiType /\ pi.text = 0 /\ ~pi.streaming
      /\ pi.asked = {} /\ pi.started = {} /\ pi.ended = {}
  <2>1. 1 \in 1 .. MaxEpoch
    BY Bounds
  <2>2. /\ pi.streaming \in BOOLEAN /\ pi.text \in 0 .. MaxText /\ pi.epoch \in 1 .. MaxEpoch
        /\ pi.measured \in BOOLEAN
    BY <2>1, Bounds DEF Init
  <2> QED BY <2>2 DEF Init, PiType
<1>4. /\ client \in ClientType /\ client.text = 0 /\ ~client.images
      /\ client.used = 0 /\ client.verdict = "none"
      /\ \A t \in Tools : /\ client.tools[t].status = "unknown"
                          /\ client.tools[t].content = Empty
  BY NewTyped, Bounds DEF Init, ClientType, Statuses, Shown
<1>5. TypeOK
  BY <1>1, <1>2, <1>3, <1>4 DEF TypeOK
<1>6. IdleInv /\ UsageInv /\ TextInv /\ ImageLossIsNamed
  BY <1>1, <1>2, <1>3, <1>4
     DEF IdleInv, UsageInv, UsageIsCurrent, TextInv, TextIsExact, ImageLossIsNamed
<1>7. CallsInv
  BY <1>2, <1>3, <1>4 DEF CallsInv, CallInv, NewTool
<1> QED BY <1>5, <1>6, <1>7 DEF IInv

(* What is not an event of a call tells the client nothing of one.         *)
LEMMA OtherEventsKeepCalls ==
  ASSUME IInv,
         \/ OpenCycle \/ Cancel \/ ExtensionError \/ Settle
         \/ MessageStart \/ MessageUpdate \/ MessageEnd \/ CompactionEnd
  PROVE  client'.tools = client.tools
<1> USE DEF IInv
<1>1. CASE OpenCycle \/ Cancel \/ ExtensionError \/ CompactionEnd
  BY <1>1 DEF TypeOK, ClientType, OpenCycle, Cancel, ExtensionError, CompactionEnd
<1>2. CASE Settle
  BY <1>2 DEF TypeOK, ClientType, Settle
<1>3. CASE MessageStart
  BY <1>3 DEF TypeOK, ClientType, MessageStart, Unprojected
<1>4. CASE MessageUpdate \/ MessageEnd
  BY <1>4, MessageUpdateStep, MessageEndStep DEF CallsKept
<1> QED BY <1>1, <1>2, <1>3, <1>4

LEMMA Preserved == IInv /\ [Next]_vars => IInv'
<1> SUFFICES ASSUME IInv, [Next]_vars PROVE IInv'
  OBVIOUS
<1>1. CASE OpenCycle \/ Cancel \/ ExtensionError \/ Settle
  BY <1>1, OpenCycleStep, CancelStep, ExtensionErrorStep, SettleStep
<1>2. CASE MessageStart \/ MessageUpdate \/ MessageEnd \/ CompactionEnd
  BY <1>2, MessageStartStep, MessageUpdateStep, MessageEndStep, CompactionEndStep
<1>3. ASSUME NEW t \in Tools, ToolAsked(t) \/ ToolStart(t) \/ ToolUpdate(t) \/ ToolEnd(t)
      PROVE  IInv'
  BY <1>3, ToolAskedStep, ToolStartStep, ToolUpdateStep, ToolEndStep
<1>4. CASE UNCHANGED vars
  BY <1>4 DEF vars, IInv, TypeOK, IdleInv, UsageInv, UsageIsCurrent, TextInv, TextIsExact,
     Delivered, Projects, ImageLossIsNamed, CallsInv, CallInv
<1> QED BY <1>1, <1>2, <1>3, <1>4 DEF Next

(* Every state between two events satisfies the inductive invariant.       *)
THEOREM Invariance == Spec => []IInv
BY Starts, Preserved, PTL DEF Spec

-----------------------------------------------------------------------------
(* The invariants the runs check.                                          *)

(* Records of cycles, calls and reports are of their types.                *)
THEOREM ProjectionTyped == Spec => []TypeOK
<1>1. IInv => TypeOK
  BY DEF IInv
<1> QED BY <1>1, Invariance, PTL

(* A compaction leaves no figure of the old context to be reported, at     *)
(* whichever point of a message or a settlement it falls                   *)
(* (emitSettledUsage, forgetContext).                                      *)
THEOREM UsageStaysCurrent == Spec => []UsageIsCurrent
<1>1. IInv => UsageIsCurrent
  BY DEF IInv, UsageInv
<1> QED BY <1>1, Invariance, PTL

(* Deltas and the suffix of the terminal frame carry each part of a        *)
(* message once (emitAssistantDelta, emitAssistantTextSuffix).             *)
THEOREM TextStaysExact == Spec => []TextIsExact
<1>1. IInv => TextIsExact
  BY DEF IInv, TextInv
<1> QED BY <1>1, Invariance, PTL

(* imagesEmitted, which decides what a mirror failure is blamed on, is set *)
(* exactly by the images the client took (mirrorFailure).                  *)
THEOREM ImageLossStaysNamed == Spec => []ImageLossIsNamed
<1>1. IInv => ImageLossIsNamed
  BY DEF IInv
<1> QED BY <1>1, Invariance, PTL

-----------------------------------------------------------------------------
(* What a step may never do.                                               *)

(* One step takes every call the client knows forward, or leaves it.       *)
LEMMA StepForward ==
  ASSUME IInv, [Next]_vars, NEW t \in Tools, client'.tools[t] # client.tools[t]
  PROVE  Forward(t)
<1>1. ~ UNCHANGED vars
  BY DEF vars
<1>2. CASE \/ OpenCycle \/ Cancel \/ ExtensionError \/ Settle
           \/ MessageStart \/ MessageUpdate \/ MessageEnd \/ CompactionEnd
  BY <1>2, OtherEventsKeepCalls
<1>3. ASSUME NEW u \in Tools, ToolAsked(u) \/ ToolStart(u) \/ ToolUpdate(u) \/ ToolEnd(u)
      PROVE  Forward(t)
  <2>1. ClientFrame(u) /\ Forward(u)
    BY <1>3, ToolAskedStep, ToolStartStep, ToolUpdateStep, ToolEndStep
  <2>2. t = u
    BY <2>1 DEF ClientFrame
  <2> QED BY <2>1, <2>2
<1> QED BY <1>1, <1>2, <1>3 DEF Next

(* Whatever order asks, starts, partial results, failed images and results *)
(* of parallel calls come in, the client sees each call go forward, end    *)
(* once, and lose no image (publishToolStart, publishToolUpdate,           *)
(* publishToolTerminal, failToolImage).                                    *)
THEOREM CallsOnlyMoveForward == Spec => CallsMoveForward
<1>1. IInv /\ [Next]_vars =>
        [\A t \in Tools : client'.tools[t] # client.tools[t] =>
           LET before == client.tools[t]
               after  == client'.tools[t]
           IN /\ before.status = after.status \/ Rank[before.status] < Rank[after.status]
              /\ \/ before.content.images \subseteq after.content.images
                 \/ after.content.text = Guidance]_vars
  BY StepForward DEF Forward
<1> QED BY <1>1, Invariance, PTL DEF Spec, CallsMoveForward

(* A result that was delivered would not be refused by a load: its images  *)
(* were decoded, and are no more than the snapshot they were merged into.  *)
LEMMA DeliveredIsReplayed ==
  ASSUME TypeOK, NEW t \in Tools, NEW result \in Results,
         result # None => Refusals(t, result) = {}
  PROVE  ~ReplayRefuses(result)
<1>1. CASE result = None
  BY <1>1, FS_EmptySet, Bounds DEF ReplayRefuses, Replayed, Empty
<1>2. CASE result # None
  <2>1. result \in Content /\ Replayed(result) = result
    BY <1>2 DEF Results, Replayed
  <2> DEFINE merged == Merge(state.tools[t].content, result).images
             decode == {TRUE : i \in result.images \cap Refused}
                         \cup {FALSE : i \in result.images \cap Fatal}
  <2>2. result.images \subseteq merged /\ merged \subseteq Images
    <3>1. Merge(state.tools[t].content, result) \in Content
      BY <2>1, CallTypes, MergeTyped
    <3>2. result.images \subseteq merged
      BY <2>1, CallTypes, MergeTyped
    <3> QED BY <3>1, <3>2 DEF Content
  <2>3. decode = {} /\ ~(Cardinality(merged) > PerCall)
    BY <1>2 DEF Refusals
  <2>4. result.images \cap (Refused \cup Fatal) = {}
    BY <2>3
  <2>5. IsFiniteSet(merged) /\ IsFiniteSet(result.images)
    BY <2>2, Bounds, FS_Subset
  <2>6. Cardinality(result.images) <= Cardinality(merged)
    BY <2>2, <2>5, FS_Subset
  <2>7. Cardinality(result.images) \in Nat /\ Cardinality(merged) \in Nat
    BY <2>5, FS_CardinalityType
  <2> HIDE DEF merged
  <2>8. ~(Cardinality(result.images) > PerCall)
    BY <2>3, <2>6, <2>7, Bounds
  <2> QED BY <2>1, <2>4, <2>8 DEF ReplayRefuses
<1> QED BY <1>1, <1>2

(* The end of a call in a cycle that is still intact: what the client sees *)
(* is its guidance or all that a load shows of it.                         *)
LEMMA EndShowsReplay ==
  ASSUME IInv, NEW t \in Running, NEW result \in Results,
         NEW status \in {"completed", "failed"}, Ends(t, result, status),
         Projects, ~cycle'.failed, client'.tools[t].content.text # Guidance
  PROVE  /\ ~ReplayRefuses(result)
         /\ client'.tools[t].status = status
         /\ Replayed(result).images \subseteq client'.tools[t].content.images
         /\ Replayed(result).text \in {None, client'.tools[t].content.text}
<1>1. t \in Tools /\ t \in pi.started /\ t \notin pi.ended
  BY DEF Running, IInv, TypeOK, PiType
<1>2. CallInv(t)
  BY <1>1 DEF IInv, CallsInv
<1>3. ~IsTerminal(t)
  <2> SUFFICES ASSUME IsTerminal(t) PROVE FALSE
    OBVIOUS
  <2>1. client' = client /\ cycle' = cycle
    BY DEF Ends
  <2> QED BY <1>1, <1>2, <2>1 DEF CallInv, IsTerminal
<1>4. PICK taken \in Takes :
         \/ \E recoverable \in BOOLEAN :
              /\ FailToolImage(t, recoverable, taken)
              /\ state' = [state EXCEPT !.tools[t] = NewTool]
         \/ /\ result # None => Refusals(t, result) = {}
            /\ Count(taken) /\ RecordFailure(~taken)
            /\ client' = IF taken THEN Ended(t, status, Snapshot(t, result)) ELSE client
            /\ state' = IF taken
                          THEN [RecordToolContent(t, Snapshot(t, result)) EXCEPT
                                  !.tools[t] = NewTool]
                          ELSE [state EXCEPT !.tools[t] = NewTool]
  BY <1>1, <1>3, EndsCases DEF IInv
<1>5. client.tools[t].status \in {"unknown", "pending", "in_progress"}
  BY <1>1, <1>2, <1>3 DEF CallInv, IsTerminal
<1>6. ~ \E recoverable \in BOOLEAN : FailToolImage(t, recoverable, taken)
  BY <1>1, <1>5, ImageFailed DEF IInv
<1>7. taken
  BY <1>4, <1>6, TakesBoolean, DeliveryFrame DEF IInv
<1>8. /\ client'.tools[t].status = status
      /\ client'.tools[t].content =
           IF Size(Snapshot(t, result)) = 0 THEN client.tools[t].content
           ELSE Snapshot(t, result)
  <2>1. client' = Ended(t, status, Snapshot(t, result))
    BY <1>4, <1>6, <1>7
  <2>2. Snapshot(t, result) \in Content
    BY <1>1, SnapshotTyped DEF IInv
  <2> QED BY <1>1, <2>1, <2>2, ToolEnded DEF IInv
<1>9. ~ReplayRefuses(result)
  BY <1>1, <1>4, <1>6, DeliveredIsReplayed DEF IInv
<1>10. CASE result = None
  BY <1>8, <1>9, <1>10 DEF Replayed, Empty
<1>11. CASE result # None
  <2>1. result \in Content /\ Replayed(result) = result
    BY <1>11 DEF Results, Replayed
  <2>2. /\ Snapshot(t, result) \in Content
        /\ result.images \subseteq Snapshot(t, result).images
        /\ Snapshot(t, result).text = result.text
    BY <1>1, <1>11, <2>1, CallTypes, MergeTyped DEF IInv, Snapshot
  <2>3. CASE Size(Snapshot(t, result)) = 0
    BY <1>8, <1>9, <2>1, <2>2, <2>3, SizeZero
  <2>4. CASE Size(Snapshot(t, result)) # 0
    BY <1>8, <1>9, <2>1, <2>2, <2>4
  <2> QED BY <2>3, <2>4
<1> QED BY <1>10, <1>11

(* A load shows of a call what the client was shown when it ended, and     *)
(* refuses none of its images (replayUpdates, mapToolContent).             *)
THEOREM LoadShowsWhatWasShown == Spec => ReplayShowsWhatWasShown
<1>1. IInv /\ [Next]_vars =>
        [\A t \in Running :
           LET shown == client'.tools[t] IN
           /\ t \in pi'.ended /\ Projects /\ ~cycle'.failed
           /\ shown.content.text # Guidance
           => \A result \in Results, status \in {"completed", "failed"} :
                Ends(t, result, status)
                => /\ ~ReplayRefuses(result)
                   /\ shown.status = status
                   /\ Replayed(result).images \subseteq shown.content.images
                   /\ Replayed(result).text \in {None, shown.content.text}]_vars
  BY EndShowsReplay
<1> QED BY <1>1, Invariance, PTL DEF Spec, ReplayShowsWhatWasShown

====
