---------------------------- MODULE NativeCalls ----------------------------
(***************************************************************************)
(* What the native client promises the session it serves.                  *)
(*                                                                         *)
(* pi's stdout is one stream of records, taken whole and in order: an      *)
(* answer settles the call it names, if that call is still open, and any   *)
(* other record is in the session's hands when it leaves the stream.  A    *)
(* call that returns an answer was therefore answered after everything pi  *)
(* wrote before the answer had been received ("the terminal events for the *)
(* aborted turn precede the response").  When the stream ends, every open  *)
(* call is lost and no call opens any more.                                *)
(***************************************************************************)
EXTENDS Naturals, Sequences

CONSTANTS Calls, Records, None

VARIABLES
  status,   \* each call: new, open, answered, lost, then done or failed
  stream,   \* the records pi wrote and the client has not taken
  received, \* how many records the session was handed
  ended     \* whether the client gave the stream up

vars == <<status, stream, received, ended>>

Statuses == {"new", "open", "answered", "lost", "done", "failed"}

TypeOK ==
  /\ status \in [Calls -> Statuses]
  /\ stream \in Seq(Records) /\ received \in Nat /\ ended \in BOOLEAN

Init ==
  /\ status = [c \in Calls |-> "new"]
  /\ stream = <<>> /\ received = 0 /\ ended = FALSE

Becomes(c, from, to) ==
  /\ status[c] \in from
  /\ status' = [status EXCEPT ![c] = to]

(* pi writes a record.                                                     *)
Write(r) ==
  /\ stream' = Append(stream, r)
  /\ UNCHANGED <<status, received, ended>>

(* A call opens only while the stream does.                                *)
Open(c) ==
  /\ ~ended /\ Becomes(c, {"new"}, "open")
  /\ UNCHANGED <<stream, received, ended>>

Refuse(c) ==
  /\ ended /\ Becomes(c, {"new"}, "failed")
  /\ UNCHANGED <<stream, received, ended>>

(* The next record leaves the stream: the answer of an open call.          *)
TakeAnswer ==
  /\ ~ended /\ stream # <<>> /\ Head(stream).kind = "response"
  /\ \/ \E c \in Calls : c = Head(stream).of /\ Becomes(c, {"open"}, "answered")
     \/ /\ \A c \in Calls : c = Head(stream).of => status[c] # "open"
        /\ UNCHANGED status
  /\ stream' = Tail(stream)
  /\ UNCHANGED <<received, ended>>

(* ... or a record for the session, which receives it in the same step.    *)
TakeRecord ==
  /\ ~ended /\ stream # <<>> /\ Head(stream).kind \in {"event", "ui"}
  /\ stream' = Tail(stream) /\ received' = received + 1
  /\ UNCHANGED <<status, ended>>

(* The stream is given up and with it every open call.                     *)
End ==
  /\ ~ended /\ ended' = TRUE
  /\ status' = [c \in Calls |-> IF status[c] = "open" THEN "lost" ELSE status[c]]
  /\ UNCHANGED <<stream, received>>

(* A call returns its answer, or fails: its transport was lost, its command*)
(* could not be written, or its context ended.                             *)
Return(c) ==
  /\ Becomes(c, {"answered"}, "done")
  /\ UNCHANGED <<stream, received, ended>>

Fail(c) ==
  /\ Becomes(c, {"open", "answered", "lost"}, "failed")
  /\ UNCHANGED <<stream, received, ended>>

Next ==
  \/ \E r \in Records : Write(r)
  \/ \E c \in Calls : Open(c) \/ Refuse(c) \/ Return(c) \/ Fail(c)
  \/ TakeAnswer \/ TakeRecord \/ End

Spec == Init /\ [][Next]_vars

=============================================================================
