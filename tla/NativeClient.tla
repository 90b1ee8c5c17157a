---------------------------- MODULE NativeClient ----------------------------
(***************************************************************************)
(* pi.Client (internal/pi/client.go): concurrent calls over one process's  *)
(* stdin and stdout, and the pump that receives what is not an answer.     *)
(*                                                                         *)
(* Each critical section of pendingMu, each write under writeMu and each   *)
(* channel operation is one action.  Callers, the read loop and the pump   *)
(* are actors; pi and the pipes are external.  A cycle that settles makes  *)
(* the pump join the interrupts in flight, receiving nothing meanwhile;    *)
(* then a call of its own (settledStats) runs beside it while it holds     *)
(* what it receives.                                                       *)
(***************************************************************************)
EXTENDS Naturals, Sequences

CONSTANTS
  Calls,      \* the calls ever made: a fresh id each
  Stats,      \* the call the pump makes while it settles a cycle
  Aborts,     \* the calls that interrupt a cycle
  Expiring,   \* the calls whose context may end while they wait
  Strays,     \* {None} if pi also writes answers that name no call
  Pump,       \* the pump as a writer of dialog answers
  None,
  MaxWritten, \* bound: records pi writes
  StdinRoom   \* bound: lines pi's stdin holds unread

ASSUME ActorsAssumption ==
  /\ Stats \in Calls /\ Aborts \subseteq Calls \ {Stats}
  /\ Aborts \subseteq Expiring /\ Expiring \subseteq Calls
  /\ Pump \notin Calls /\ None \notin Calls /\ None # Pump
  /\ Strays \subseteq {None}
ASSUME BoundsAssumption == MaxWritten \in Nat /\ StdinRoom \in Nat \ {0}

VARIABLES
  calls,  \* where each call is
  client, \* what pendingMu guards, and the holder of writeMu
  slots,  \* the response channel of each call
  reader, \* the read loop
  pump,   \* where the pump is, what it holds, how many records it received
  pipes,  \* pi's stdin and stdout
  pi      \* the commands pi has read, and how much it has written

vars == <<calls, client, slots, reader, pump, pipes, pi>>

-----------------------------------------------------------------------------
(* One stdout line, as DecodeMessage classifies it; of is the call a       *)
(* response names, None for one that names no call of this client.         *)
Records ==
  [kind : {"response"}, of : Calls \cup {None}]
    \cup [kind : {"event", "ui", "broken"}, of : {None}]

ASSUME NoneAssumption == None \notin Records

CallPoints   == {"new", "register", "write", "writing", "wait", "withdraw", "done", "failed"}
ReaderPoints == {"read", "lookup", "send", "deliver", "finish", "closed"}
PumpPoints   ==
  {"receive", "event", "ui", "reply", "replying", "callbacks", "hold", "join", "ended"}

PumpStates ==
  [pc : PumpPoints, held : Seq({"event", "ui"}), received : Nat]

TypeOK ==
  /\ calls \in [Calls -> CallPoints]
  /\ client \in [pending : SUBSET Calls, failed : BOOLEAN, writer : Calls \cup {Pump, None}]
  /\ slots \in [Calls -> {"empty", "answer", "closed"}]
  /\ reader \in [pc : ReaderPoints, rec : Records \cup {None}, to : Calls \cup {None}]
  /\ reader.pc = "send" => reader.to \in Calls
  /\ pump \in PumpStates
  /\ pipes \in [stdin : Seq(Calls \cup {Pump}), broken : BOOLEAN,
                stdout : Seq(Records), closed : BOOLEAN]
  /\ pi \in [read : SUBSET Calls, written : 0..MaxWritten]

Init ==
  /\ calls = [c \in Calls |-> "new"]
  /\ client = [pending |-> {}, failed |-> FALSE, writer |-> None]
  /\ slots = [c \in Calls |-> "empty"]
  /\ reader = [pc |-> "read", rec |-> None, to |-> None]
  /\ pump = [pc |-> "receive", held |-> <<>>, received |-> 0]
  /\ pipes = [stdin |-> <<>>, broken |-> FALSE, stdout |-> <<>>, closed |-> FALSE]
  /\ pi = [read |-> {}, written |-> 0]

CallAt(c, pc) == calls[c] = pc
CallGoes(c, pc) == calls' = [calls EXCEPT ![c] = pc]

-----------------------------------------------------------------------------
(* Client.Call.                                                            *)

(* A cycle that settles admits no further interrupt (cancel, abortAsync).  *)
Settling == pump.pc \in {"callbacks", "hold", "join"}

Begin(c) ==
  /\ c # Stats /\ CallAt(c, "new")
  /\ c \in Aborts => ~Settling
  /\ CallGoes(c, "register")
  /\ UNCHANGED <<client, slots, reader, pump, pipes, pi>>

(* Mutant: registerPending does not ask whether the read loop has failed.  *)
RegisterUnchecked(c) ==
  /\ CallAt(c, "register")
  /\ CallGoes(c, "write")
  /\ client' = [client EXCEPT !.pending = @ \cup {c}]
  /\ UNCHANGED <<slots, reader, pump, pipes, pi>>

(* registerPending: refused once the read loop has failed every call.      *)
Register(c) ==
  /\ CallAt(c, "register")
  /\ \/ /\ client.failed
        /\ CallGoes(c, "failed") /\ UNCHANGED client
     \/ /\ ~client.failed
        /\ CallGoes(c, "write")
        /\ client' = [client EXCEPT !.pending = @ \cup {c}]
  /\ UNCHANGED <<slots, reader, pump, pipes, pi>>

(* writeEncodedLine: one line at a time; a full pipe blocks the writer,    *)
(* whatever its context says.                                              *)
Lock(c) ==
  /\ CallAt(c, "write") /\ client.writer = None
  /\ CallGoes(c, "writing") /\ client' = [client EXCEPT !.writer = c]
  /\ UNCHANGED <<slots, reader, pump, pipes, pi>>

Line(w) ==
  /\ ~pipes.broken /\ Len(pipes.stdin) < StdinRoom
  /\ pipes' = [pipes EXCEPT !.stdin = Append(@, w)]

(* Mutant: a failed write keeps writeMu.                                   *)
WriteLineLocked(c) ==
  /\ CallAt(c, "writing")
  /\ \/ /\ Line(c) /\ CallGoes(c, "wait")
        /\ client' = [client EXCEPT !.writer = None]
     \/ pipes.broken /\ CallGoes(c, "withdraw") /\ UNCHANGED <<pipes, client>>
  /\ UNCHANGED <<slots, reader, pump, pi>>

WriteLine(c) ==
  /\ CallAt(c, "writing")
  /\ client' = [client EXCEPT !.writer = None]
  /\ \/ Line(c) /\ CallGoes(c, "wait")
     \/ pipes.broken /\ CallGoes(c, "withdraw") /\ UNCHANGED pipes
  /\ UNCHANGED <<slots, reader, pump, pi>>

(* The select of Call: the response channel yields an answer or is closed. *)
ReceiveAnswer(c) ==
  /\ CallAt(c, "wait") /\ slots[c] = "answer"
  /\ CallGoes(c, "done") /\ slots' = [slots EXCEPT ![c] = "empty"]
  /\ UNCHANGED <<client, reader, pump, pipes, pi>>

ReceiveClosed(c) ==
  /\ CallAt(c, "wait") /\ slots[c] = "closed"
  /\ CallGoes(c, "failed")
  /\ UNCHANGED <<client, slots, reader, pump, pipes, pi>>

(* ... or the context of the call ends, even beside an answer.             *)
GiveUp(c) ==
  /\ c \in Expiring /\ CallAt(c, "wait")
  /\ CallGoes(c, "withdraw")
  /\ UNCHANGED <<client, slots, reader, pump, pipes, pi>>

(* unregisterPending: after a failed write and after an ended context.     *)
Unregister(c) ==
  /\ CallAt(c, "withdraw")
  /\ CallGoes(c, "failed")
  /\ client' = [client EXCEPT !.pending = @ \ {c}]
  /\ UNCHANGED <<slots, reader, pump, pipes, pi>>

-----------------------------------------------------------------------------
(* readLoop, dispatch and finish.                                          *)

(* Mutant: a record that could not be decoded is delivered as an event.    *)
StageLenient(r) == IF r.kind = "response" THEN "lookup" ELSE "deliver"

(* DecodeMessage: where a record of a kind is dispatched; one that is not  *)
(* an object of a known shape ends the stream.                             *)
Stage(r) == CASE r.kind = "response" -> "lookup"
              [] r.kind = "broken"   -> "finish"
              [] OTHER               -> "deliver"

Read ==
  /\ reader.pc = "read" /\ pipes.stdout # <<>>
  /\ reader' = [reader EXCEPT !.pc = Stage(Head(pipes.stdout)), !.rec = Head(pipes.stdout)]
  /\ pipes' = [pipes EXCEPT !.stdout = Tail(@)]
  /\ UNCHANGED <<calls, client, slots, pump, pi>>

ReadEnd ==
  /\ reader.pc = "read" /\ pipes.stdout = <<>> /\ pipes.closed
  /\ reader' = [reader EXCEPT !.pc = "finish"]
  /\ UNCHANGED <<calls, client, slots, pump, pipes, pi>>

(* Mutant: the waiter is looked up but left in pending.                    *)
LookupKept ==
  /\ reader.pc = "lookup"
  /\ reader' = IF reader.rec.of \in client.pending
               THEN [pc |-> "send", rec |-> None, to |-> reader.rec.of]
               ELSE [pc |-> "read", rec |-> None, to |-> None]
  /\ UNCHANGED <<calls, client, slots, pump, pipes, pi>>

(* The waiter is taken out of pending under the lock ...                   *)
Lookup ==
  /\ reader.pc = "lookup"
  /\ LET c == reader.rec.of IN
     \/ /\ c \in client.pending
        /\ client' = [client EXCEPT !.pending = @ \ {c}]
        /\ reader' = [pc |-> "send", rec |-> None, to |-> c]
     \/ /\ c \notin client.pending
        /\ reader' = [pc |-> "read", rec |-> None, to |-> None] /\ UNCHANGED client
  /\ UNCHANGED <<calls, slots, pump, pipes, pi>>

(* ... and answered after it: a channel of capacity one.                   *)
Send ==
  /\ reader.pc = "send" /\ slots[reader.to] = "empty"
  /\ slots' = [slots EXCEPT ![reader.to] = "answer"]
  /\ reader' = [pc |-> "read", rec |-> None, to |-> None]
  /\ UNCHANGED <<calls, client, pump, pipes, pi>>

Receiving == pump.pc = "receive" /\ pump.held = <<>>

(* A pump that holds keeps the record and goes on holding.                 *)
Receives(kind) ==
  pump' = IF pump.pc = "hold"
          THEN [pump EXCEPT !.held = Append(@, kind), !.received = @ + 1]
          ELSE [pump EXCEPT !.pc = kind, !.received = @ + 1]

(* Mutants: a pump that holds does not drain; a record nobody is receiving *)
(* is dropped.                                                             *)
DeliverUnheld ==
  /\ reader.pc = "deliver" /\ Receiving
  /\ Receives(reader.rec.kind)
  /\ reader' = [pc |-> "read", rec |-> None, to |-> None]
  /\ UNCHANGED <<calls, client, slots, pipes, pi>>

DeliverOrDrop ==
  /\ reader.pc = "deliver"
  /\ IF Receiving \/ pump.pc = "hold" THEN Receives(reader.rec.kind) ELSE UNCHANGED pump
  /\ reader' = [pc |-> "read", rec |-> None, to |-> None]
  /\ UNCHANGED <<calls, client, slots, pipes, pi>>

(* Events and dialogs go over unbuffered channels: the pump receives.      *)
Deliver ==
  /\ reader.pc = "deliver"
  /\ Receiving \/ pump.pc = "hold"
  /\ Receives(reader.rec.kind)
  /\ reader' = [pc |-> "read", rec |-> None, to |-> None]
  /\ UNCHANGED <<calls, client, slots, pipes, pi>>

(* The ladder cancels the read loop of a pump that outlived the shutdown.  *)
Cancelled ==
  /\ reader.pc = "deliver"
  /\ reader' = [reader EXCEPT !.pc = "finish"]
  /\ UNCHANGED <<calls, client, slots, pump, pipes, pi>>

Finish ==
  /\ reader.pc = "finish"
  /\ client' = [client EXCEPT !.failed = TRUE, !.pending = {}]
  /\ slots' = [c \in Calls |-> IF c \in client.pending THEN "closed" ELSE slots[c]]
  /\ reader' = [reader EXCEPT !.pc = "closed"]
  /\ UNCHANGED <<calls, pump, pipes, pi>>

-----------------------------------------------------------------------------
(* The pump.                                                               *)

PumpGoes(pc) == pump' = [pump EXCEPT !.pc = pc]

(* An event is projected.                                                  *)
Handled ==
  /\ pump.pc \in {"event", "ui"}
  /\ PumpGoes("receive")
  /\ UNCHANGED <<calls, client, slots, reader, pipes, pi>>

(* settleAgentCycle: beginSettlement admits no further interrupt and waits *)
(* for those in flight.  The pump receives nothing while it does.          *)
Settle ==
  /\ pump.pc = "event" /\ CallAt(Stats, "new")
  /\ PumpGoes("callbacks")
  /\ UNCHANGED <<calls, client, slots, reader, pipes, pi>>

Returned(c) == calls[c] \in {"done", "failed"}

(* Then it reads statistics from pi, holding what pi writes meanwhile; a   *)
(* cancelled cycle reads none.                                             *)
Joined ==
  /\ pump.pc = "callbacks"
  /\ \A a \in Aborts : CallAt(a, "new") \/ Returned(a)
  /\ \/ CallAt(Stats, "new") /\ PumpGoes("hold") /\ CallGoes(Stats, "register")
     \/ PumpGoes("receive") /\ UNCHANGED calls
  /\ UNCHANGED <<client, slots, reader, pipes, pi>>

HoldDone ==
  /\ pump.pc \in {"hold", "join"} /\ Returned(Stats)
  /\ PumpGoes("receive")
  /\ UNCHANGED <<calls, client, slots, reader, pipes, pi>>

(* The process ended: nothing is held any more, the call is still joined.  *)
HoldLost ==
  /\ pump.pc = "hold" /\ pipes.broken
  /\ pump' = [pump EXCEPT !.pc = "join", !.held = <<>>]
  /\ UNCHANGED <<calls, client, slots, reader, pipes, pi>>

(* deliverRecords: what was held is handled before anything is received.   *)
HandleHeld ==
  /\ pump.pc = "receive" /\ pump.held # <<>>
  /\ pump' = [pump EXCEPT !.pc = Head(pump.held), !.held = Tail(@)]
  /\ UNCHANGED <<calls, client, slots, reader, pipes, pi>>

(* A dialog without a foreground is dismissed on the pump (RespondUI).     *)
Dismiss ==
  /\ pump.pc = "ui"
  /\ PumpGoes("reply")
  /\ UNCHANGED <<calls, client, slots, reader, pipes, pi>>

ReplyLock ==
  /\ pump.pc = "reply" /\ client.writer = None
  /\ PumpGoes("replying") /\ client' = [client EXCEPT !.writer = Pump]
  /\ UNCHANGED <<calls, slots, reader, pipes, pi>>

ReplyLine ==
  /\ pump.pc = "replying"
  /\ PumpGoes("receive") /\ client' = [client EXCEPT !.writer = None]
  /\ Line(Pump) \/ (pipes.broken /\ UNCHANGED pipes)
  /\ UNCHANGED <<calls, slots, reader, pi>>

PumpEnds ==
  /\ Receiving /\ reader.pc = "closed"
  /\ PumpGoes("ended")
  /\ UNCHANGED <<calls, client, slots, reader, pipes, pi>>

-----------------------------------------------------------------------------
(* pi and the pipes (external).                                            *)

PiReads ==
  /\ pipes.stdin # <<>> /\ ~pipes.broken
  /\ pipes' = [pipes EXCEPT !.stdin = Tail(@)]
  /\ pi' = [pi EXCEPT !.read = @ \cup ({Head(pipes.stdin)} \ {Pump})]
  /\ UNCHANGED <<calls, client, slots, reader, pump>>

(* pi answers what it has read, in any order and perhaps twice.            *)
PiWrites(r) ==
  /\ ~pipes.closed /\ pi.written < MaxWritten
  /\ r.kind = "response" => r.of \in pi.read \cup Strays
  /\ pipes' = [pipes EXCEPT !.stdout = Append(@, r)]
  /\ pi' = [pi EXCEPT !.written = @ + 1]
  /\ UNCHANGED <<calls, client, slots, reader, pump>>

PiClosesStdout ==
  /\ ~pipes.closed /\ pipes' = [pipes EXCEPT !.closed = TRUE]
  /\ UNCHANGED <<calls, client, slots, reader, pump, pi>>

PiExits ==
  /\ ~pipes.broken /\ pipes' = [pipes EXCEPT !.closed = TRUE, !.broken = TRUE]
  /\ UNCHANGED <<calls, client, slots, reader, pump, pi>>

-----------------------------------------------------------------------------
CallStep(c) ==
  \/ Register(c) \/ Lock(c) \/ WriteLine(c) \/ ReceiveAnswer(c)
  \/ ReceiveClosed(c) \/ Unregister(c)

ReaderStep == Read \/ ReadEnd \/ Lookup \/ Send \/ Finish

PumpStep ==
  \/ Handled \/ Settle \/ Joined \/ HoldDone \/ HoldLost \/ HandleHeld
  \/ Dismiss \/ ReplyLock \/ ReplyLine \/ PumpEnds

PiStep ==
  \/ PiReads \/ PiClosesStdout \/ PiExits
  \/ \E r \in Records : PiWrites(r)

Next ==
  \/ \E c \in Calls : Begin(c) \/ CallStep(c) \/ GiveUp(c)
  \/ ReaderStep \/ Deliver \/ Cancelled
  \/ PumpStep
  \/ PiStep

Spec == Init /\ [][Next]_vars

(* Fairness: the adapter's goroutines run, a pi that lives reads its stdin,*)
(* and the wait of an interrupt ends (sessionAbortTimeout).  pi may never  *)
(* answer, no other context need ever end and nobody need cancel the read  *)
(* loop.  writeMu needs no fairness: the lines to be written are finite.   *)
Fairness ==
  /\ \A c \in Calls : WF_vars(CallStep(c) \/ (c \in Aborts /\ GiveUp(c)))
  /\ WF_vars(ReaderStep \/ Deliver)
  /\ WF_vars(PumpStep)
  /\ WF_vars(PiReads)

FairSpec == Spec /\ Fairness

-----------------------------------------------------------------------------
(* Properties.                                                             *)

(* Whoever waits in Call can still be woken: its entry is pending with a   *)
(* read loop that will see it, its answer or its close is in its channel,  *)
(* or the read loop is about to answer it.  registerPending and finish race*)
(* for the same map.                                                       *)
NobodyForgotten ==
  \A c \in Calls : calls[c] \in {"write", "writing", "wait"} =>
    \/ c \in client.pending /\ ~client.failed
    \/ slots[c] # "empty"
    \/ reader.to = c

(* The read loop never blocks on a response channel nor sends on a closed  *)
(* one, though pi repeats an answer or its caller is gone: dispatch removes*)
(* the waiter under the lock before it sends.                              *)
AnswersFit == reader.pc = "send" => slots[reader.to] = "empty"

(* finish: once the stream has been given up and the process is gone, every*)
(* call that was made returns, also one that registers meanwhile (the      *)
(* premise is stable: calls yet to be made are made under it or never).    *)
EndedCallsReturn ==
  (client.failed /\ pipes.broken) ~> \A c \in Calls : CallAt(c, "new") \/ Returned(c)

Answered(c) ==
  \/ \E i \in DOMAIN pipes.stdout : pipes.stdout[i].of = c
  \/ reader.rec # None /\ reader.rec.of = c

(* "The consumer must keep draining both channels while commands are in    *)
(* flight": a call pi answered returns without a timeout of its own, the   *)
(* pump's own call included, unless the process or the read loop ends      *)
(* first.  The pump does stop draining while it joins interrupts, and the  *)
(* answer of one may stand behind a record only the pump receives: an      *)
(* interrupt itself may need its timeout, and whatever is behind it waits  *)
(* that long.                                                              *)
AnsweredCallsReturn ==
  \A c \in Calls \ Aborts :
    (calls[c] = "wait" /\ Answered(c)) ~> (Returned(c) \/ pipes.broken \/ client.failed)

(* The client implements NativeCalls: the record in the read loop's hands  *)
(* is still in the stream until it is handed over, and a call is answered  *)
(* when its waiter leaves pending.                                         *)
CallStatus(c) ==
  IF calls[c] \in {"new", "register"} THEN "new"
  ELSE IF calls[c] \in {"done", "failed"} THEN calls[c]
  ELSE IF slots[c] = "closed" THEN "lost"
  ELSE IF slots[c] = "answer" \/ reader.to = c THEN "answered"
  ELSE "open"

Stream == IF reader.rec = None THEN pipes.stdout ELSE <<reader.rec>> \o pipes.stdout

Promise == INSTANCE NativeCalls WITH
  status   <- [c \in Calls |-> CallStatus(c)],
  stream   <- Stream,
  received <- pump.received,
  ended    <- client.failed

KeepsPromise == Promise!Spec

=============================================================================
