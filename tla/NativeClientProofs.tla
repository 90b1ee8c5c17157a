------------------------- MODULE NativeClientProofs -------------------------
(***************************************************************************)
(* Proofs about the native client: no caller is forgotten, the read loop   *)
(* never blocks on a response channel, and the client implements the       *)
(* sequential promise of NativeCalls.                                      *)
(***************************************************************************)
EXTENDS NativeClient, TLAPS

Called(c) == calls[c] \in {"write", "writing", "wait", "withdraw"}
Fresh(c)  == calls[c] \in {"new", "register"}

(* A pending call is in Call, its channel is empty and the read loop, which*)
(* has not failed the calls yet, has no answer for it in hand.             *)
PendingInv ==
  \A c \in client.pending :
    Called(c) /\ slots[c] = "empty" /\ reader.to # c /\ ~client.failed

(* Conversely a call that has not returned can be woken: NobodyForgotten,  *)
(* and the same for a caller about to withdraw.                            *)
TrackedInv ==
  \A c \in Calls : Called(c) =>
    c \in client.pending \/ slots[c] # "empty" \/ reader.to = c

(* A call that is not registered has left no trace.                        *)
FreshInv ==
  \A c \in Calls : Fresh(c) => slots[c] = "empty" /\ reader.to # c

(* What the read loop holds at each of its points.                         *)
ReaderInv ==
  /\ reader.pc = "send" <=> reader.to # None
  /\ reader.pc \in {"read", "send"} => reader.rec = None
  /\ reader.pc = "lookup" => reader.rec \in Records /\ reader.rec.kind = "response"
  /\ reader.pc = "deliver" => reader.rec \in Records /\ reader.rec.kind \in {"event", "ui"}
  /\ client.failed <=> reader.pc = "closed"

CallsInv == PendingInv /\ TrackedInv /\ FreshInv /\ ReaderInv /\ AnswersFit

IInv == TypeOK /\ CallsInv

-----------------------------------------------------------------------------
(* Types.                                                                  *)

(* The pump keeps its type when it takes a record, held or handled.        *)
LEMMA PumpReceives ==
  ASSUME NEW p \in PumpStates, NEW h \in Seq({"event", "ui"}), NEW pc \in PumpPoints
  PROVE  /\ [p EXCEPT !.held = h, !.received = @ + 1] \in PumpStates
         /\ [p EXCEPT !.pc = pc, !.received = @ + 1] \in PumpStates
<1>1. p.received + 1 \in Nat
  BY DEF PumpStates
<1>2. [p EXCEPT !.held = h, !.received = @ + 1] \in PumpStates
  BY <1>1 DEF PumpStates
<1>3. [p EXCEPT !.pc = pc, !.received = @ + 1] \in PumpStates
  BY <1>1 DEF PumpStates
<1> QED
  BY <1>2, <1>3

LEMMA TypeStep == TypeOK /\ ReaderInv /\ [Next]_vars => TypeOK'
<1> SUFFICES ASSUME TypeOK, ReaderInv, [Next]_vars PROVE TypeOK'
  OBVIOUS
<1> USE ActorsAssumption DEF TypeOK
<1>1. ASSUME NEW c \in Calls, Begin(c) \/ Lock(c) \/ GiveUp(c) PROVE TypeOK'
  <2>1. calls' \in [Calls -> CallPoints]
    BY <1>1 DEF Begin, Lock, GiveUp, CallGoes, CallPoints
  <2>2. client' \in [pending : SUBSET Calls, failed : BOOLEAN, writer : Calls \cup {Pump, None}]
    BY <1>1 DEF Begin, Lock, GiveUp
  <2> QED
    BY <1>1, <2>1, <2>2 DEF Begin, Lock, GiveUp
<1>2. ASSUME NEW c \in Calls, Register(c) PROVE TypeOK'
  <2>1. calls' \in [Calls -> CallPoints]
    BY <1>2 DEF Register, CallGoes, CallPoints
  <2>2. client' \in [pending : SUBSET Calls, failed : BOOLEAN, writer : Calls \cup {Pump, None}]
    <3>1. CASE client' = client
      BY <3>1
    <3>2. CASE client' = [client EXCEPT !.pending = @ \cup {c}]
      BY <3>2
    <3> QED
      BY <1>2, <3>1, <3>2 DEF Register
  <2> QED
    BY <1>2, <2>1, <2>2 DEF Register
<1>3. ASSUME NEW c \in Calls, WriteLine(c) PROVE TypeOK'
  <2>1. calls' \in [Calls -> CallPoints]
    BY <1>3 DEF WriteLine, CallGoes, CallPoints
  <2>2. pipes' \in [stdin : Seq(Calls \cup {Pump}), broken : BOOLEAN,
                    stdout : Seq(Records), closed : BOOLEAN]
    <3>1. Append(pipes.stdin, c) \in Seq(Calls \cup {Pump})
      OBVIOUS
    <3> QED
      BY <1>3, <3>1 DEF WriteLine, Line
  <2>3. client' \in [pending : SUBSET Calls, failed : BOOLEAN, writer : Calls \cup {Pump, None}]
    BY <1>3 DEF WriteLine
  <2> QED
    BY <1>3, <2>1, <2>2, <2>3 DEF WriteLine
<1>4. ASSUME NEW c \in Calls, ReceiveAnswer(c) \/ ReceiveClosed(c) \/ Unregister(c)
      PROVE TypeOK'
  <2>1. calls' \in [Calls -> CallPoints]
    BY <1>4 DEF ReceiveAnswer, ReceiveClosed, Unregister, CallGoes, CallPoints
  <2>2. client' \in [pending : SUBSET Calls, failed : BOOLEAN, writer : Calls \cup {Pump, None}]
    BY <1>4 DEF ReceiveAnswer, ReceiveClosed, Unregister
  <2>3. slots' \in [Calls -> {"empty", "answer", "closed"}]
    BY <1>4 DEF ReceiveAnswer, ReceiveClosed, Unregister
  <2> QED
    BY <1>4, <2>1, <2>2, <2>3 DEF ReceiveAnswer, ReceiveClosed, Unregister
<1>5. CASE Read
  <2>1. Head(pipes.stdout) \in Records /\ Tail(pipes.stdout) \in Seq(Records)
    BY <1>5 DEF Read
  <2>2. Stage(Head(pipes.stdout)) \in {"lookup", "finish", "deliver"}
    BY DEF Stage
  <2>3. /\ reader'.pc \in ReaderPoints /\ reader'.pc # "send"
        /\ reader' \in [pc : ReaderPoints, rec : Records \cup {None}, to : Calls \cup {None}]
    BY <1>5, <2>1, <2>2 DEF Read, ReaderPoints
  <2>4. pipes' \in [stdin : Seq(Calls \cup {Pump}), broken : BOOLEAN,
                    stdout : Seq(Records), closed : BOOLEAN]
    BY <1>5, <2>1 DEF Read
  <2> QED
    BY <1>5, <2>3, <2>4 DEF Read
<1>6. CASE ReadEnd \/ Cancelled
  <2>1. /\ reader' = [reader EXCEPT !.pc = "finish"]
        /\ UNCHANGED <<calls, client, slots, pump, pipes, pi>>
    BY <1>6 DEF ReadEnd, Cancelled
  <2>2. /\ reader' \in [pc : ReaderPoints, rec : Records \cup {None}, to : Calls \cup {None}]
        /\ reader'.pc # "send"
    BY <2>1 DEF ReaderPoints
  <2> QED
    BY <2>1, <2>2
<1>7. CASE Lookup
  <2>1. CASE /\ reader.rec.of \in client.pending
             /\ client' = [client EXCEPT !.pending = @ \ {reader.rec.of}]
             /\ reader' = [pc |-> "send", rec |-> None, to |-> reader.rec.of]
    BY <1>7, <2>1 DEF Lookup, ReaderPoints
  <2>2. CASE reader' = [pc |-> "read", rec |-> None, to |-> None] /\ client' = client
    BY <1>7, <2>2 DEF Lookup, ReaderPoints
  <2> QED
    BY <1>7, <2>1, <2>2 DEF Lookup
<1>8. CASE Send
  BY <1>8 DEF Send, ReaderPoints
<1>9. CASE Deliver
  <2>1. reader.rec.kind \in {"event", "ui"} /\ reader.rec.kind \in PumpPoints
    BY <1>9 DEF Deliver, ReaderInv, PumpPoints
  <2>2. Append(pump.held, reader.rec.kind) \in Seq({"event", "ui"})
    BY <2>1 DEF PumpStates
  <2>3. pump' = [pump EXCEPT !.held = Append(@, reader.rec.kind), !.received = @ + 1]
        \/ pump' = [pump EXCEPT !.pc = reader.rec.kind, !.received = @ + 1]
    BY <1>9 DEF Deliver, Receives
  <2>4. pump' \in PumpStates
    <3>1. pump \in PumpStates
      OBVIOUS
    <3>2. /\ [pump EXCEPT !.held = Append(pump.held, reader.rec.kind), !.received = @ + 1]
               \in PumpStates
          /\ [pump EXCEPT !.pc = reader.rec.kind, !.received = @ + 1] \in PumpStates
      BY <2>1, <2>2, <3>1, PumpReceives
    <3> QED
      BY <2>3, <3>2, Zenon
  <2> QED
    BY <1>9, <2>4 DEF Deliver, ReaderPoints
<1>10. CASE Finish
  BY <1>10 DEF Finish, ReaderPoints
<1>11. CASE Handled \/ Settle \/ HoldDone \/ Dismiss \/ ReplyLock \/ PumpEnds
  <2>1. \E pc \in {"receive", "callbacks", "reply", "replying", "ended"} :
          pump' = [pump EXCEPT !.pc = pc]
    BY <1>11 DEF Handled, Settle, HoldDone, Dismiss, ReplyLock, PumpEnds, PumpGoes
  <2>2. pump' \in PumpStates
    BY <2>1 DEF PumpStates, PumpPoints
  <2> QED
    BY <1>11, <2>2 DEF Handled, Settle, HoldDone, Dismiss, ReplyLock, PumpEnds
<1>12. CASE Joined
  <2>1. calls' \in [Calls -> CallPoints]
    BY <1>12 DEF Joined, CallGoes, CallPoints
  <2>2. \E pc \in {"hold", "receive"} : pump' = [pump EXCEPT !.pc = pc]
    BY <1>12 DEF Joined, PumpGoes
  <2>3. pump' \in PumpStates
    BY <2>2 DEF PumpStates, PumpPoints
  <2> QED
    BY <1>12, <2>1, <2>3 DEF Joined
<1>13. CASE HoldLost \/ HandleHeld
  <2>1. CASE HoldLost
    <3>1. pump' = [pump EXCEPT !.pc = "join", !.held = <<>>]
      BY <2>1 DEF HoldLost
    <3>2. <<>> \in Seq({"event", "ui"})
      OBVIOUS
    <3>3. pump' \in PumpStates
      BY <3>1, <3>2 DEF PumpStates, PumpPoints
    <3> QED
      BY <2>1, <3>3 DEF HoldLost
  <2>2. CASE HandleHeld
    <3>1. pump' = [pump EXCEPT !.pc = Head(pump.held), !.held = Tail(@)] /\ pump.held # <<>>
      BY <2>2 DEF HandleHeld
    <3>2. Head(pump.held) \in {"event", "ui"} /\ Tail(pump.held) \in Seq({"event", "ui"})
      BY <3>1 DEF PumpStates
    <3>3. pump' \in PumpStates
      BY <3>1, <3>2 DEF PumpStates, PumpPoints
    <3> QED
      BY <2>2, <3>3 DEF HandleHeld
  <2> QED
    BY <1>13, <2>1, <2>2
<1>14. CASE ReplyLine
  <2>1. Append(pipes.stdin, Pump) \in Seq(Calls \cup {Pump})
    OBVIOUS
  <2>2. pipes' \in [stdin : Seq(Calls \cup {Pump}), broken : BOOLEAN,
                    stdout : Seq(Records), closed : BOOLEAN]
    BY <1>14, <2>1 DEF ReplyLine, Line
  <2>3. pump' \in PumpStates
    BY <1>14 DEF ReplyLine, PumpGoes, PumpStates, PumpPoints
  <2> QED
    BY <1>14, <2>2, <2>3 DEF ReplyLine
<1>15. CASE PiReads
  <2>1. /\ Head(pipes.stdin) \in Calls \cup {Pump}
        /\ Tail(pipes.stdin) \in Seq(Calls \cup {Pump})
    BY <1>15 DEF PiReads
  <2>2. pipes' \in [stdin : Seq(Calls \cup {Pump}), broken : BOOLEAN,
                    stdout : Seq(Records), closed : BOOLEAN]
    BY <1>15, <2>1 DEF PiReads
  <2>3. pi' \in [read : SUBSET Calls, written : 0..MaxWritten]
    BY <1>15, <2>1 DEF PiReads
  <2> QED
    BY <1>15, <2>2, <2>3 DEF PiReads
<1>16. ASSUME NEW r \in Records, PiWrites(r) PROVE TypeOK'
  <2>1. Append(pipes.stdout, r) \in Seq(Records)
    OBVIOUS
  <2>2. pipes' \in [stdin : Seq(Calls \cup {Pump}), broken : BOOLEAN,
                    stdout : Seq(Records), closed : BOOLEAN]
    BY <1>16, <2>1 DEF PiWrites
  <2>3. pi' \in [read : SUBSET Calls, written : 0..MaxWritten]
    <3>1. pi.written + 1 \in 0..MaxWritten
      BY <1>16, BoundsAssumption DEF PiWrites
    <3> QED
      BY <1>16, <3>1 DEF PiWrites
  <2> QED
    BY <1>16, <2>2, <2>3 DEF PiWrites
<1>17. CASE PiClosesStdout \/ PiExits
  <2>1. pipes' \in [stdin : Seq(Calls \cup {Pump}), broken : BOOLEAN,
                    stdout : Seq(Records), closed : BOOLEAN]
    <3>1. CASE PiClosesStdout
      BY <3>1 DEF PiClosesStdout
    <3>2. CASE PiExits
      BY <3>2 DEF PiExits
    <3> QED
      BY <1>17, <3>1, <3>2
  <2>2. UNCHANGED <<calls, client, slots, reader, pump, pi>>
    BY <1>17 DEF PiClosesStdout, PiExits
  <2> QED
    BY <2>1, <2>2
<1>18. CASE UNCHANGED vars
  BY <1>18 DEF vars
<1> QED
  BY <1>1, <1>2, <1>3, <1>4, <1>5, <1>6, <1>7, <1>8, <1>9, <1>10, <1>11, <1>12,
     <1>13, <1>14, <1>15, <1>16, <1>17, <1>18
  DEF Next, CallStep, ReaderStep, PumpStep, PiStep

-----------------------------------------------------------------------------
(* The invariant.                                                          *)

(* Most steps neither register, answer nor return a call and leave the read*)
(* loop alone.                                                             *)
Quiet ==
  /\ slots' = slots /\ reader' = reader
  /\ client'.pending = client.pending /\ client'.failed = client.failed
  /\ \A c \in Calls : (Called(c)' <=> Called(c)) /\ (Fresh(c)' <=> Fresh(c))

LEMMA QuietKeeps == IInv /\ Quiet => CallsInv'
<1> SUFFICES ASSUME IInv, Quiet PROVE CallsInv'
  OBVIOUS
<1> USE DEF IInv, CallsInv, Quiet
<1>1. PendingInv'
  BY DEF PendingInv, TypeOK
<1>2. TrackedInv'
  BY DEF TrackedInv
<1>3. FreshInv'
  BY DEF FreshInv
<1>4. ReaderInv' /\ AnswersFit'
  BY DEF ReaderInv, AnswersFit
<1> QED
  BY <1>1, <1>2, <1>3, <1>4

LEMMA QuietCalls ==
  \A c \in Calls : IInv /\ (Begin(c) \/ Lock(c) \/ WriteLine(c) \/ GiveUp(c)) => Quiet
<1> SUFFICES ASSUME NEW c \in Calls, IInv, Begin(c) \/ Lock(c) \/ WriteLine(c) \/ GiveUp(c)
             PROVE Quiet
  OBVIOUS
<1>1. /\ calls \in [Calls -> CallPoints]
      /\ client \in [pending : SUBSET Calls, failed : BOOLEAN, writer : Calls \cup {Pump, None}]
  BY DEF IInv, TypeOK
<1>2. client'.pending = client.pending /\ client'.failed = client.failed
  BY <1>1 DEF Begin, Lock, WriteLine, GiveUp
<1>3. \E to \in CallPoints : /\ calls' = [calls EXCEPT ![c] = to]
                             /\ (to \in {"new", "register"}) <=> Fresh(c)
                             /\ (to \in {"write", "writing", "wait", "withdraw"}) <=> Called(c)
  BY DEF Begin, Lock, WriteLine, GiveUp, CallAt, CallGoes, CallPoints, Fresh, Called
<1>4. \A d \in Calls : (Called(d)' <=> Called(d)) /\ (Fresh(d)' <=> Fresh(d))
  BY <1>1, <1>3 DEF Called, Fresh
<1> QED
  BY <1>2, <1>4 DEF Begin, Lock, WriteLine, GiveUp, Quiet

LEMMA QuietPump == IInv /\ (PumpStep \/ PiStep) => Quiet
<1> SUFFICES ASSUME IInv, PumpStep \/ PiStep PROVE Quiet
  OBVIOUS
<1> USE DEF IInv, TypeOK
<1>1. CASE Joined
  <2>1. \A c \in Calls : (Called(c)' <=> Called(c)) /\ (Fresh(c)' <=> Fresh(c))
    BY <1>1, ActorsAssumption DEF Joined, CallAt, CallGoes, CallPoints, Called, Fresh
  <2> QED
    BY <1>1, <2>1 DEF Joined, Quiet
<1>2. CASE ReplyLock \/ ReplyLine
  BY <1>2 DEF ReplyLock, ReplyLine, Quiet, Called, Fresh
<1>3. CASE Handled \/ Settle \/ HoldDone \/ HoldLost \/ HandleHeld \/ Dismiss \/ PumpEnds
  BY <1>3 DEF Handled, Settle, HoldDone, HoldLost, HandleHeld, Dismiss, PumpEnds, Quiet, Called, Fresh
<1>4. CASE PiStep
  BY <1>4 DEF PiStep, PiReads, PiWrites, PiClosesStdout, PiExits, Quiet, Called, Fresh
<1> QED
  BY <1>1, <1>2, <1>3, <1>4 DEF PumpStep

LEMMA RegisterKeeps == \A c \in Calls : IInv /\ Register(c) => CallsInv'
<1> SUFFICES ASSUME NEW c \in Calls, IInv, Register(c) PROVE CallsInv'
  OBVIOUS
<1> USE DEF IInv, CallsInv, TypeOK, Register, CallAt, CallGoes
<1>1. CASE client.failed
  BY <1>1 DEF PendingInv, TrackedInv, FreshInv, ReaderInv, AnswersFit, Called, Fresh
<1>2. CASE ~client.failed
  <2>1. /\ client'.pending = client.pending \cup {c} /\ client'.failed = client.failed
        /\ calls' = [calls EXCEPT ![c] = "write"] /\ slots' = slots /\ reader' = reader
    BY <1>2
  <2>2. slots[c] = "empty" /\ reader.to # c
    BY DEF FreshInv, Fresh
  <2>3. PendingInv'
    BY <1>2, <2>1, <2>2 DEF PendingInv, Called
  <2>4. TrackedInv'
    BY <2>1 DEF TrackedInv, Called
  <2>5. FreshInv'
    BY <2>1 DEF FreshInv, Fresh
  <2>6. ReaderInv' /\ AnswersFit'
    BY <2>1 DEF ReaderInv, AnswersFit
  <2> QED
    BY <2>3, <2>4, <2>5, <2>6
<1> QED
  BY <1>1, <1>2

LEMMA ReturnKeeps ==
  \A c \in Calls :
    IInv /\ (ReceiveAnswer(c) \/ ReceiveClosed(c) \/ Unregister(c)) => CallsInv'
<1> SUFFICES ASSUME NEW c \in Calls, IInv,
                    ReceiveAnswer(c) \/ ReceiveClosed(c) \/ Unregister(c)
             PROVE CallsInv'
  OBVIOUS
<1> USE DEF IInv, CallsInv, TypeOK, ReceiveAnswer, ReceiveClosed, Unregister, CallAt, CallGoes
<1>1. PendingInv'
  BY DEF PendingInv, Called
<1>2. TrackedInv'
  BY DEF TrackedInv, Called
<1>3. FreshInv'
  BY DEF FreshInv, Fresh
<1>4. reader' = reader /\ client'.failed = client.failed
  OBVIOUS
<1>5. ReaderInv'
  BY <1>4 DEF ReaderInv
<1>6. AnswersFit'
  BY <1>4 DEF AnswersFit
<1> QED
  BY <1>1, <1>2, <1>3, <1>5, <1>6

(* The read loop between two answers.                                      *)
LEMMA ReadKeeps ==
  IInv /\ TypeOK' /\ (Read \/ ReadEnd \/ Deliver \/ Cancelled) => CallsInv'
<1> SUFFICES ASSUME IInv, TypeOK', Read \/ ReadEnd \/ Deliver \/ Cancelled PROVE CallsInv'
  OBVIOUS
<1> USE DEF IInv, CallsInv
<1>1. /\ slots' = slots /\ calls' = calls /\ client' = client /\ reader'.to = None
      /\ reader.to = None /\ reader'.pc # "send"
  <2>1. reader.to = None
    BY DEF Read, ReadEnd, Deliver, Cancelled, ReaderInv
  <2>2. Stage(Head(pipes.stdout)) # "send"
    BY DEF Stage
  <2>3. reader \in [pc : ReaderPoints, rec : Records \cup {None}, to : Calls \cup {None}]
    BY DEF TypeOK
  <2>4. CASE Read
    BY <2>1, <2>2, <2>3, <2>4 DEF Read
  <2>5. CASE ReadEnd \/ Cancelled
    BY <2>1, <2>3, <2>5 DEF ReadEnd, Cancelled
  <2>6. CASE Deliver
    BY <2>1, <2>6 DEF Deliver
  <2> QED
    BY <2>4, <2>5, <2>6
<1>2. PendingInv' /\ TrackedInv' /\ FreshInv' /\ AnswersFit'
  BY <1>1 DEF PendingInv, TrackedInv, FreshInv, AnswersFit, Called, Fresh
<1>3. ReaderInv'
  <2>1. CASE Read
    <3>1. Head(pipes.stdout) \in Records
      BY <2>1 DEF Read, TypeOK
    <3> QED
      BY <1>1, <2>1, <3>1 DEF Read, Stage, ReaderInv, TypeOK, Records
  <2>2. CASE ReadEnd \/ Deliver \/ Cancelled
    BY <1>1, <2>2 DEF ReadEnd, Deliver, Cancelled, ReaderInv, TypeOK
  <2> QED
    BY <2>1, <2>2
<1> QED
  BY <1>2, <1>3

LEMMA LookupKeeps == IInv /\ Lookup => CallsInv'
<1> SUFFICES ASSUME IInv, Lookup PROVE CallsInv'
  OBVIOUS
<1> USE NoneAssumption, ActorsAssumption DEF IInv, CallsInv, TypeOK
<1> DEFINE c == reader.rec.of
<1>1. CASE c \in client.pending
  <2>1. /\ client'.pending = client.pending \ {c} /\ client'.failed = client.failed
        /\ reader' = [pc |-> "send", rec |-> None, to |-> c]
        /\ calls' = calls /\ slots' = slots /\ c \in Calls
    BY <1>1 DEF Lookup
  <2>2. slots[c] = "empty" /\ Called(c) /\ ~client.failed
    BY <1>1 DEF PendingInv
  <2>3. reader.to = None
    BY DEF Lookup, ReaderInv
  <2> HIDE DEF c
  <2>4. PendingInv'
    BY <2>1 DEF PendingInv, Called
  <2>5. TrackedInv'
    BY <2>1, <2>3 DEF TrackedInv, Called
  <2>6. FreshInv'
    BY <2>1, <2>2 DEF FreshInv, Fresh, Called
  <2>7. ReaderInv' /\ AnswersFit'
    BY <2>1, <2>2 DEF ReaderInv, AnswersFit
  <2> QED
    BY <2>4, <2>5, <2>6, <2>7
<1>2. CASE c \notin client.pending
  <2>1. /\ client' = client /\ reader' = [pc |-> "read", rec |-> None, to |-> None]
        /\ calls' = calls /\ slots' = slots /\ reader.to = None /\ ~client.failed
    BY <1>2 DEF Lookup, ReaderInv
  <2> QED
    BY <2>1 DEF PendingInv, TrackedInv, FreshInv, ReaderInv, AnswersFit, Called, Fresh
<1> QED
  BY <1>1, <1>2

LEMMA SendKeeps == IInv /\ Send => CallsInv'
<1> SUFFICES ASSUME IInv, Send PROVE CallsInv'
  OBVIOUS
<1> USE ActorsAssumption DEF IInv, CallsInv, TypeOK, Send
<1>1. PendingInv'
  BY DEF PendingInv, Called
<1>2. TrackedInv'
  BY DEF TrackedInv, Called
<1>3. FreshInv'
  BY DEF FreshInv, Fresh
<1>4. ReaderInv' /\ AnswersFit'
  BY DEF ReaderInv, AnswersFit
<1> QED
  BY <1>1, <1>2, <1>3, <1>4

LEMMA FinishKeeps == IInv /\ Finish => CallsInv'
<1> SUFFICES ASSUME IInv, Finish PROVE CallsInv'
  OBVIOUS
<1> USE DEF IInv, CallsInv, TypeOK, Finish
<1>1. PendingInv'
  BY DEF PendingInv
<1>2. TrackedInv'
  BY DEF TrackedInv, Called
<1>3. FreshInv'
  BY DEF FreshInv, PendingInv, Fresh, Called
<1>4. ReaderInv' /\ AnswersFit'
  BY DEF ReaderInv, AnswersFit
<1> QED
  BY <1>1, <1>2, <1>3, <1>4

LEMMA InitHolds == Init => IInv
<1> SUFFICES ASSUME Init PROVE IInv
  OBVIOUS
<1>1. TypeOK
  <2>1. pump \in PumpStates
    BY DEF Init, PumpStates, PumpPoints
  <2>2. client.pending \subseteq Calls /\ pi \in [read : SUBSET Calls, written : 0..MaxWritten]
    BY BoundsAssumption DEF Init
  <2> QED
    BY <2>1, <2>2 DEF Init, TypeOK, CallPoints, ReaderPoints
<1>2. CallsInv
  <2>1. PendingInv /\ TrackedInv /\ FreshInv
    BY ActorsAssumption DEF Init, PendingInv, TrackedInv, FreshInv, Called, Fresh
  <2>2. ReaderInv /\ AnswersFit
    BY DEF Init, ReaderInv, AnswersFit
  <2> QED
    BY <2>1, <2>2 DEF CallsInv
<1> QED
  BY <1>1, <1>2 DEF IInv

LEMMA StepKeeps == IInv /\ [Next]_vars => IInv'
<1> SUFFICES ASSUME IInv, [Next]_vars PROVE IInv'
  OBVIOUS
<1>1. TypeOK'
  BY TypeStep DEF IInv, CallsInv
<1>2. CallsInv'
  <2>1. ASSUME NEW c \in Calls, Begin(c) \/ CallStep(c) \/ GiveUp(c) PROVE CallsInv'
    BY <2>1, QuietCalls, QuietKeeps, RegisterKeeps, ReturnKeeps DEF CallStep
  <2>2. CASE ReaderStep \/ Deliver \/ Cancelled
    BY <1>1, <2>2, ReadKeeps, LookupKeeps, SendKeeps, FinishKeeps DEF ReaderStep
  <2>3. CASE PumpStep \/ PiStep
    BY <2>3, QuietPump, QuietKeeps
  <2>4. CASE UNCHANGED vars
    <3>1. Quiet
      BY <2>4 DEF vars, Quiet, Called, Fresh
    <3> QED
      BY <3>1, QuietKeeps
  <2> QED
    BY <2>1, <2>2, <2>3, <2>4 DEF Next
<1> QED
  BY <1>1, <1>2 DEF IInv

LEMMA IInvAlways == Spec => []IInv
<1>1. Init => IInv
  BY InitHolds
<1>2. IInv /\ [Next]_vars => IInv'
  BY StepKeeps
<1> QED
  BY <1>1, <1>2, PTL DEF Spec

-----------------------------------------------------------------------------
(* The theorems of the invariant.                                          *)

(* Every variable of the client keeps its type: pending names calls, the   *)
(* read loop answers a call and nothing else.                              *)
THEOREM ClientTypes == Spec => []TypeOK
<1>1. IInv => TypeOK
  BY DEF IInv
<1> QED
  BY <1>1, IInvAlways, PTL

(* Whatever registerPending, writes, ended contexts, answers and finish do *)
(* to one another, a caller that waits in Call can still be woken.         *)
THEOREM NobodyForgottenAlways == Spec => []NobodyForgotten
<1>1. IInv => NobodyForgotten
  BY DEF IInv, CallsInv, TrackedInv, PendingInv, Called, NobodyForgotten
<1> QED
  BY <1>1, IInvAlways, PTL

(* dispatch never blocks on a response channel, nor sends on a closed one, *)
(* however often pi answers.                                               *)
THEOREM AnswersFitAlways == Spec => []AnswersFit
<1>1. IInv => AnswersFit
  BY DEF IInv, CallsInv
<1> QED
  BY <1>1, IInvAlways, PTL

-----------------------------------------------------------------------------
(* The refinement: each step of the client is a step of NativeCalls, or    *)
(* changes nothing there.                                                  *)

(* What NativeCalls sees.                                                  *)
SameStatus == \A c \in Calls : CallStatus(c)' = CallStatus(c)

LEMMA Unseen ==
  ASSUME SameStatus, Stream' = Stream, pump'.received = pump.received,
         client'.failed = client.failed
  PROVE  UNCHANGED Promise!vars
BY DEF SameStatus, Promise!vars

(* An open call is pending and a pending call is open.                     *)
LEMMA OpenIsPending ==
  IInv => \A c \in Calls : CallStatus(c) = "open" <=> c \in client.pending
<1> SUFFICES ASSUME IInv, NEW c \in Calls
             PROVE  CallStatus(c) = "open" <=> c \in client.pending
  OBVIOUS
<1> USE DEF IInv, CallsInv, TypeOK, CallPoints
<1>1. ASSUME c \in client.pending PROVE CallStatus(c) = "open"
  BY <1>1 DEF PendingInv, Called, CallStatus
<1>2. ASSUME c \notin client.pending PROVE CallStatus(c) # "open"
  BY <1>2 DEF TrackedInv, Called, CallStatus
<1> QED
  BY <1>1, <1>2

LEMMA QuietUnseen ==
  ASSUME IInv, Quiet, pump'.received = pump.received, pipes'.stdout = pipes.stdout,
         \A c \in Calls : Called(c) \/ Fresh(c) \/ calls'[c] = calls[c]
  PROVE  UNCHANGED Promise!vars
<1>1. SameStatus
  BY DEF SameStatus, CallStatus, Quiet, Called, Fresh
<1>2. Stream' = Stream
  BY DEF Stream, Quiet
<1> QED
  BY <1>1, <1>2, Unseen DEF Quiet

(* A step of the caller c: Open, Refuse, Return, Fail, or nothing.         *)
LEMMA CallRefines ==
  ASSUME IInv, NEW c \in Calls, Begin(c) \/ CallStep(c) \/ GiveUp(c)
  PROVE  [Promise!Next]_Promise!vars
<1> USE DEF IInv, CallsInv
<1> DEFINE st == [d \in Calls |-> CallStatus(d)]
<1>1. CASE Begin(c) \/ Lock(c) \/ WriteLine(c) \/ GiveUp(c)
  <2>1. Quiet
    BY <1>1, QuietCalls
  <2>2. /\ pump' = pump /\ pipes'.stdout = pipes.stdout
        /\ \A d \in Calls : Called(d) \/ Fresh(d) \/ calls'[d] = calls[d]
    BY <1>1 DEF Begin, Lock, WriteLine, GiveUp, Line, CallAt, CallGoes, Called, Fresh, TypeOK
  <2> QED
    BY <2>1, <2>2, QuietUnseen
<1>2. ASSUME NEW from, NEW to, CallStatus(c) = from, CallStatus(c)' = to,
             \A d \in Calls \ {c} : CallStatus(d)' = CallStatus(d)
      PROVE  st' = [st EXCEPT ![c] = to] /\ st[c] = from
  BY <1>2
<1>3. CASE Register(c)
  <2>1. CallStatus(c) = "new"
    BY <1>3 DEF Register, CallAt, CallStatus
  <2>2. \A d \in Calls \ {c} : CallStatus(d)' = CallStatus(d)
    BY <1>3 DEF Register, CallGoes, CallStatus, TypeOK
  <2>3. pump' = pump /\ Stream' = Stream
    BY <1>3 DEF Register, Stream
  <2>4. CASE client.failed
    <3>1. CallStatus(c)' = "failed" /\ client' = client
      BY <1>3, <2>4 DEF Register, CallGoes, CallStatus, TypeOK
    <3>2. Promise!Refuse(c)
      BY <1>2, <2>1, <2>2, <2>3, <2>4, <3>1 DEF Promise!Refuse, Promise!Becomes
    <3> QED
      BY <3>2 DEF Promise!Next
  <2>5. CASE ~client.failed
    <3>1. slots[c] = "empty" /\ reader.to # c
      BY <1>3 DEF Register, CallAt, FreshInv, Fresh
    <3>2. CallStatus(c)' = "open" /\ client'.failed = client.failed
      BY <1>3, <2>5, <3>1 DEF Register, CallGoes, CallStatus, TypeOK
    <3>3. Promise!Open(c)
      BY <1>2, <2>1, <2>2, <2>3, <2>5, <3>2 DEF Promise!Open, Promise!Becomes
    <3> QED
      BY <3>3 DEF Promise!Next
  <2> QED
    BY <2>4, <2>5
<1>4. CASE ReceiveAnswer(c)
  <2>1. CallStatus(c) = "answered" /\ CallStatus(c)' = "done"
    BY <1>4 DEF ReceiveAnswer, CallAt, CallGoes, CallStatus, TypeOK
  <2>2. \A d \in Calls \ {c} : CallStatus(d)' = CallStatus(d)
    BY <1>4 DEF ReceiveAnswer, CallGoes, CallStatus, TypeOK
  <2>3. pump' = pump /\ Stream' = Stream /\ client' = client
    BY <1>4 DEF ReceiveAnswer, Stream
  <2>4. Promise!Return(c)
    BY <1>2, <2>1, <2>2, <2>3 DEF Promise!Return, Promise!Becomes
  <2> QED
    BY <2>4 DEF Promise!Next
<1>5. CASE ReceiveClosed(c) \/ Unregister(c)
  <2>1. CallStatus(c) \in {"open", "answered", "lost"} /\ CallStatus(c)' = "failed"
    BY <1>5 DEF ReceiveClosed, Unregister, CallAt, CallGoes, CallStatus, TypeOK
  <2>2. \A d \in Calls \ {c} : CallStatus(d)' = CallStatus(d)
    BY <1>5 DEF ReceiveClosed, Unregister, CallGoes, CallStatus, TypeOK
  <2>3. pump' = pump /\ Stream' = Stream /\ client'.failed = client.failed
    BY <1>5 DEF ReceiveClosed, Unregister, Stream, TypeOK
  <2>4. Promise!Fail(c)
    BY <1>2, <2>1, <2>2, <2>3 DEF Promise!Fail, Promise!Becomes
  <2> QED
    BY <2>4 DEF Promise!Next
<1> QED
  BY <1>1, <1>3, <1>4, <1>5 DEF CallStep

(* A step of the read loop: it takes a record, ends, or changes nothing.   *)
LEMMA ReaderRefines ==
  ASSUME IInv, ReaderStep \/ Deliver \/ Cancelled
  PROVE  [Promise!Next]_Promise!vars
<1> USE NoneAssumption, ActorsAssumption DEF IInv, CallsInv
<1>1. CASE Read
  <2>1. /\ reader.rec = None /\ reader'.rec = Head(pipes.stdout) /\ reader'.rec # None
        /\ pipes'.stdout = Tail(pipes.stdout) /\ reader'.to = reader.to
    BY <1>1 DEF Read, ReaderInv, TypeOK
  <2>2. <<Head(pipes.stdout)>> \o Tail(pipes.stdout) = pipes.stdout
    BY <1>1 DEF Read, TypeOK
  <2>3. Stream' = Stream
    BY <2>1, <2>2 DEF Stream
  <2>4. SameStatus
    BY <1>1, <2>1 DEF Read, SameStatus, CallStatus
  <2> QED
    BY <1>1, <2>3, <2>4, Unseen DEF Read
<1>2. CASE ReadEnd \/ Cancelled
  <2>1. reader'.rec = reader.rec /\ reader'.to = reader.to
    BY <1>2 DEF ReadEnd, Cancelled, TypeOK
  <2>2. SameStatus /\ Stream' = Stream
    BY <1>2, <2>1 DEF ReadEnd, Cancelled, SameStatus, CallStatus, Stream
  <2> QED
    BY <1>2, <2>2, Unseen DEF ReadEnd, Cancelled
<1>3. ASSUME Lookup \/ Deliver
      PROVE  /\ Stream # <<>> /\ Head(Stream) = reader.rec /\ ~client.failed
             /\ reader.to = None /\ reader.rec \in Records
             /\ reader'.rec = None => Stream' = Tail(Stream)
  <2>1. /\ reader.rec \in Records /\ reader.rec # None /\ ~client.failed
        /\ reader.to = None /\ pipes' = pipes
    BY <1>3 DEF Lookup, Deliver, ReaderInv
  <2>2. /\ <<reader.rec>> \o pipes.stdout # <<>>
        /\ Head(<<reader.rec>> \o pipes.stdout) = reader.rec
        /\ Tail(<<reader.rec>> \o pipes.stdout) = pipes.stdout
    BY <2>1 DEF TypeOK
  <2> QED
    BY <2>1, <2>2 DEF Stream
<1>4. CASE Lookup
  <2>1. /\ Head(Stream).kind = "response" /\ reader'.rec = None
        /\ calls' = calls /\ slots' = slots /\ pump' = pump
        /\ client'.failed = client.failed
    BY <1>3, <1>4 DEF Lookup, ReaderInv, TypeOK
  <2>2. ASSUME NEW d \in client.pending, d = reader.rec.of PROVE Promise!TakeAnswer
    <3>1. d \in Calls /\ reader'.to = d /\ slots[d] = "empty" /\ Called(d)
      BY <1>4, <2>2 DEF Lookup, PendingInv, TypeOK
    <3>2. CallStatus(d) = "open" /\ CallStatus(d)' = "answered"
      BY <1>3, <1>4, <2>1, <3>1, ActorsAssumption DEF CallStatus, Called
    <3>3. \A e \in Calls \ {d} : CallStatus(e)' = CallStatus(e)
      BY <1>3, <1>4, <2>1, <3>1 DEF CallStatus
    <3>4. [e \in Calls |-> CallStatus(e)'] = [[e \in Calls |-> CallStatus(e)] EXCEPT ![d] = "answered"]
      BY <3>2, <3>3
    <3>5. d = Head(Stream).of
      BY <1>3, <1>4, <2>2
    <3> QED
      BY <1>3, <1>4, <2>1, <3>1, <3>2, <3>4, <3>5 DEF Promise!TakeAnswer, Promise!Becomes
  <2>3. CASE reader.rec.of \notin client.pending
    <3>1. reader'.to = None
      BY <1>4, <2>3 DEF Lookup
    <3>2. SameStatus
      BY <1>3, <1>4, <2>1, <3>1 DEF SameStatus, CallStatus
    <3>3. \A d \in Calls : d = reader.rec.of => CallStatus(d) # "open"
      BY <2>3, OpenIsPending
    <3>4. Promise!TakeAnswer
      BY <1>3, <1>4, <2>1, <3>2, <3>3 DEF Promise!TakeAnswer, SameStatus
    <3> QED
      BY <3>4 DEF Promise!Next
  <2> QED
    BY <2>2, <2>3 DEF Promise!Next
<1>5. CASE Deliver
  <2>1. /\ Head(Stream).kind \in {"event", "ui"} /\ reader'.rec = None /\ reader'.to = None
        /\ calls' = calls /\ slots' = slots /\ client' = client
        /\ pump'.received = pump.received + 1
    BY <1>3, <1>5 DEF Deliver, Receives, ReaderInv, TypeOK, PumpStates
  <2>2. SameStatus
    BY <1>3, <1>5, <2>1 DEF SameStatus, CallStatus
  <2>3. Promise!TakeRecord
    BY <1>3, <1>5, <2>1, <2>2 DEF Promise!TakeRecord, SameStatus
  <2> QED
    BY <2>3 DEF Promise!Next
<1>6. CASE Send
  <2>1. /\ reader.rec = None /\ reader'.rec = None /\ reader.to \in Calls
        /\ reader'.to = None /\ pipes' = pipes /\ pump' = pump /\ client' = client
        /\ calls' = calls /\ slots' = [slots EXCEPT ![reader.to] = "answer"]
        /\ slots[reader.to] = "empty"
    BY <1>6 DEF Send, ReaderInv, TypeOK
  <2>2. SameStatus
    BY <2>1 DEF SameStatus, CallStatus, TypeOK
  <2> QED
    BY <2>1, <2>2, Unseen DEF Stream
<1>7. CASE Finish
  <2>1. /\ ~client.failed /\ client'.failed /\ calls' = calls /\ pump' = pump
        /\ reader'.rec = reader.rec /\ reader'.to = reader.to /\ pipes' = pipes
        /\ slots' = [c \in Calls |-> IF c \in client.pending THEN "closed" ELSE slots[c]]
    BY <1>7 DEF Finish, ReaderInv, TypeOK
  <2>2. \A c \in Calls :
          CallStatus(c)' = IF CallStatus(c) = "open" THEN "lost" ELSE CallStatus(c)
    <3> SUFFICES ASSUME NEW c \in Calls
                 PROVE  CallStatus(c)' = IF CallStatus(c) = "open" THEN "lost" ELSE CallStatus(c)
      OBVIOUS
    <3>1. CASE c \in client.pending
      BY <2>1, <3>1, OpenIsPending DEF PendingInv, Called, CallStatus
    <3>2. CASE c \notin client.pending
      BY <2>1, <3>2, OpenIsPending DEF CallStatus
    <3> QED
      BY <3>1, <3>2
  <2>3. Stream' = Stream
    BY <2>1 DEF Stream
  <2>4. Promise!End
    BY <2>1, <2>2, <2>3 DEF Promise!End
  <2> QED
    BY <2>4 DEF Promise!Next
<1> QED
  BY <1>1, <1>2, <1>4, <1>5, <1>6, <1>7 DEF ReaderStep

(* A step of the pump or of pi writes a record or changes nothing.         *)
LEMMA OthersRefine ==
  ASSUME IInv, PumpStep \/ PiStep
  PROVE  [Promise!Next]_Promise!vars
<1> USE DEF IInv, TypeOK
<1>1. Quiet
  BY QuietPump
<1>2. ASSUME NEW r \in Records, PiWrites(r) PROVE Promise!Write(r)
  <2>1. SameStatus
    BY <1>2 DEF PiWrites, SameStatus, CallStatus
  <2>2. Append(<<reader.rec>> \o pipes.stdout, r) = <<reader.rec>> \o Append(pipes.stdout, r)
        \/ reader.rec = None
    OBVIOUS
  <2>3. Stream' = Append(Stream, r)
    BY <1>2, <2>2 DEF PiWrites, Stream
  <2> QED
    BY <1>2, <2>1, <2>3 DEF PiWrites, Promise!Write, SameStatus
<1>3. CASE PumpStep \/ PiReads \/ PiClosesStdout \/ PiExits
  <2>1. pump'.received = pump.received /\ pipes'.stdout = pipes.stdout
    BY <1>3 DEF PumpStates, PumpStep, Handled, Settle, Joined, HoldDone, HoldLost, HandleHeld,
                Dismiss, ReplyLock, ReplyLine, PumpEnds, PumpGoes, Line, PiReads, PiClosesStdout, PiExits
  <2>2. \A c \in Calls : Called(c) \/ Fresh(c) \/ calls'[c] = calls[c]
    BY <1>3 DEF PumpStep, Handled, Settle, Joined, HoldDone, HoldLost, HandleHeld, Dismiss, ReplyLock,
                ReplyLine, PumpEnds, CallAt, CallGoes, Fresh, PiReads, PiClosesStdout, PiExits
  <2> QED
    BY <1>1, <2>1, <2>2, QuietUnseen DEF IInv
<1> QED
  BY <1>2, <1>3 DEF PiStep, Promise!Next

(* The client implements NativeCalls: answers and session records leave    *)
(* pi's stream one at a time and in order, a call is answered only by the  *)
(* record that names it and only while it is open, and once the stream has *)
(* been given up nothing is taken and nothing opens.                       *)
THEOREM KeepsPromiseAlways == Spec => KeepsPromise
<1>1. Init => Promise!Init
  BY DEF Init, Promise!Init, CallStatus, Stream
<1>2. IInv /\ [Next]_vars => [Promise!Next]_Promise!vars
  <2> SUFFICES ASSUME IInv, [Next]_vars PROVE [Promise!Next]_Promise!vars
    OBVIOUS
  <2>1. CASE UNCHANGED vars
    <3>1. SameStatus /\ Stream' = Stream
      BY <2>1 DEF vars, SameStatus, CallStatus, Stream
    <3> QED
      BY <2>1, <3>1, Unseen DEF vars
  <2>2. CASE Next
    BY <2>2, CallRefines, ReaderRefines, OthersRefine DEF Next
  <2> QED
    BY <2>1, <2>2
<1> QED
  BY <1>1, <1>2, IInvAlways, PTL DEF Spec, KeepsPromise, Promise!Spec

=============================================================================
