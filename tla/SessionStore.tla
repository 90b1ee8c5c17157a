---------------------------- MODULE SessionStore ----------------------------
(***************************************************************************)
(* One stored session across process lives (session_store.go,              *)
(* session_models.go, agent_session.go, configureRuntime): pi's session    *)
(* file, its mirror in the session store with the record beside the rows,  *)
(* and the configuration that the adapter holds, pi runs and the client    *)
(* was told.                                                               *)
(*                                                                         *)
(* pi may die between any two steps and tear the line it writes; the       *)
(* adapter may die too; a commit may fail, or be stored and reported as    *)
(* failed; between two lives of the session its file may lose rows or gain *)
(* some.  The foreground gate serialises the operations of a live session  *)
(* (module Session), so one is under way at a time.  Configuring pi is one *)
(* step: pi switches its model or its level on its own before or after it. *)
(***************************************************************************)
EXTENDS Naturals, Sequences

CONSTANTS
  Models,   \* pi's model catalog
  Plain,    \* the models that do not reason: they clamp the level to Off
  Levels,   \* thinking levels
  Off,
  Contents, \* what a row may say
  Torn,     \* what a torn line that was completed says
  None,
  MaxRows   \* bound: rows of a session file

ASSUME StoreAssumption ==
  /\ Plain \subseteq Models /\ Off \in Levels
  /\ None \notin Models \cup Levels
  /\ Torn \notin Contents /\ MaxRows \in Nat

VARIABLES
  native,   \* pi's session file: its rows, a torn tail, pi's selection
  alive,    \* a pi of this session runs
  store,    \* what the session store holds
  session,  \* the adapter's session
  told,     \* history: the configuration the client was last answered with
  doubts,   \* history: where these may no longer agree
  acked     \* history: the rows when a turn was last answered as committed

vars == <<native, alive, store, session, told, doubts, acked>>

-----------------------------------------------------------------------------
Selections == [model : Models, level : Levels]

Rows == Seq(Contents \cup {Torn})

NativeType == [rows : Rows, torn : BOOLEAN, selection : Selections]

Fields == {"model", "level"}

(* What the last answer says may be outdated in the fields of .told, what  *)
(* the adapter holds in those of .native, which pi may have changed since  *)
(* the adapter learned them, and the record in those of .record, which the *)
(* adapter changed since it last stored them.                              *)
DoubtsType ==
  [native : SUBSET Fields, record : SUBSET Fields, told : SUBSET Fields]

StoreType == [found : BOOLEAN, rows : Rows, record : Selections \cup {None}]

(* model is options.Model, level options.ThinkingLevel, and selection what *)
(* s.model and s.thinkingLevel say.                                        *)
SessionType ==
  [pc : {"none", "hydrate", "configure", "commit", "answer", "ready", "turn",
         "settle", "state", "record", "close"},
   model : Models \cup {None}, level : Levels \cup {None},
   selection : Selections]

TypeOK ==
  /\ native \in NativeType
  /\ alive \in BOOLEAN
  /\ store \in StoreType
  /\ session \in SessionType
  /\ told \in Selections \cup {None}
  /\ doubts \in DoubtsType
  /\ acked \in Rows

(* No file and nothing stored; pi has a selection of its own.              *)
Init ==
  \E own \in Selections :
    /\ own.model \in Plain => own.level = Off
    /\ native = [rows |-> <<>>, torn |-> FALSE, selection |-> own]
    /\ alive = FALSE
    /\ store = [found |-> FALSE, rows |-> <<>>, record |-> None]
    /\ session = [pc |-> "none", model |-> None, level |-> None,
                  selection |-> own]
    /\ told = None /\ acked = <<>>
    /\ doubts = [native |-> {}, record |-> {}, told |-> {}]

-----------------------------------------------------------------------------
At(point) == session.pc = point
Go(point) == session' = [session EXCEPT !.pc = point]

(* Mutant: what a request leaves out stays empty.                          *)
OrNothing(choice, default) == choice

Or(choice, default) == IF choice = None THEN default ELSE choice

(* pi clamps the level to what the model can do.                           *)
Clamp(model, level) == IF model \in Plain THEN Off ELSE level

(* pi's selection once it was asked for a model and a level; a session     *)
(* file keeps it, as a relaunch that names no model relies on.             *)
Chosen(model, level) ==
  LET chosen == Or(model, native.selection.model)
  IN [model |-> chosen, level |-> Clamp(chosen, Or(level, native.selection.level))]

(* inheritCarrier: a field the request leaves out is the record's.         *)
Inherit(request, record) ==
  [model |-> Or(request.model, record.model),
   level |-> Or(request.level, record.level)]

Differing(one, other) == {f \in Fields : one[f] # other[f]}

(* A model asked for clamps the level.                                     *)
Touched(request) == IF request.model = None THEN {"level"} ELSE Fields

(* commitMirror: the rows of the file, and the session's record.           *)
Commit ==
  store' = [found |-> TRUE, rows |-> native.rows, record |-> session.selection]

Recorded == [doubts EXCEPT !.record = {}]

(* A commit that is reported as failed may have been stored.               *)
CommitFails == Commit \/ UNCHANGED store

(* Mutant: a torn tail is left in the file.                                *)
CutNothing(file) == file

CutTornTail(file) == [file EXCEPT !.torn = FALSE]

(* pi completes a torn last line when it loads the file.                   *)
Loaded(file) ==
  IF file.torn THEN [file EXCEPT !.rows = Append(file.rows, Torn), !.torn = FALSE]
  ELSE file

(* pi ends; one that ran may leave its last line torn.                     *)
PiEnds ==
  /\ alive' = FALSE
  /\ \E torn \in {native.torn, native.torn \/ alive} :
       native' = [native EXCEPT !.torn = torn]

-----------------------------------------------------------------------------
(* session/new, and what it shares with a restore.                         *)

(* A request names a model and a level or leaves them out.                 *)
Requests == [model : Models \cup {None}, level : Levels \cup {None}]

(* A new session has a file of its own.                                    *)
NewSession(request) ==
  /\ At("none") /\ ~store.found /\ native.rows = <<>>
  /\ session' = [session EXCEPT !.pc = "configure", !.model = request.model,
                                !.level = request.level]
  /\ native' = [native EXCEPT !.torn = FALSE]
  /\ UNCHANGED <<alive, store, told, doubts, acked>>

(* launch and configureRuntime under the model and the level asked for.    *)
Configure ==
  /\ At("configure")
  /\ alive' = TRUE
  /\ LET chosen == Chosen(session.model, session.level) IN
     /\ native' = [Loaded(native) EXCEPT !.selection = chosen]
     /\ session' = [session EXCEPT !.pc = "commit", !.selection = chosen]
  /\ doubts' = [doubts EXCEPT !.native = {}]
  /\ UNCHANGED <<store, told, acked>>

(* The launch or one of its commands fails: pi is stopped and nothing is   *)
(* committed.                                                              *)
ConfigureFails ==
  /\ At("configure")
  /\ \E selection \in {native.selection, Chosen(session.model, session.level)} :
       native' = [Loaded(native) EXCEPT !.selection = selection]
  /\ Go("none")
  /\ UNCHANGED <<alive, store, told, doubts, acked>>

(* What the record of the opening changes and no answer has told yet.      *)
Untold ==
  doubts.told \cup (IF told = None THEN Fields ELSE Differing(session.selection, told))

OpeningCommits ==
  /\ At("commit")
  /\ Commit
  /\ Go("answer")
  /\ doubts' = [Recorded EXCEPT !.told = Untold]
  /\ UNCHANGED <<native, alive, told, acked>>

(* The session was never persisted, so its close commits nothing.          *)
OpeningCommitFails ==
  /\ At("commit")
  /\ CommitFails
  /\ PiEnds
  /\ Go("none")
  /\ doubts' = [doubts EXCEPT !.told = Untold]
  /\ UNCHANGED <<told, acked>>

(* An answer tells the client what the adapter holds.                      *)
Tells(before) ==
  /\ told' = session.selection
  /\ doubts' = [before EXCEPT !.told = before.native]

(* The response carries the configuration.                                 *)
OpeningAnswers ==
  /\ At("answer")
  /\ Go("ready")
  /\ Tells(doubts)
  /\ UNCHANGED <<native, alive, store, acked>>

(* The replay or the opening publication fails and the session closes.     *)
OpeningFails ==
  /\ At("answer")
  /\ Go("close")
  /\ PiEnds
  /\ UNCHANGED <<store, told, doubts, acked>>

-----------------------------------------------------------------------------
(* session/load and session/resume.                                        *)

Restore(request) ==
  /\ At("none") /\ store.found
  /\ LET options == Inherit(request, store.record) IN
     session' = [session EXCEPT !.pc = "hydrate", !.model = options.model,
                                !.level = options.level]
  /\ UNCHANGED <<native, alive, store, told, doubts, acked>>

PrefixOf(s, t) == Len(s) <= Len(t) /\ \A i \in 1 .. Len(s) : s[i] = t[i]

(* Mutant: pi's file wins however short it is.                             *)
HeldByFile == native.rows

(* A file at least as long as the store wins; a shorter one is rewritten.  *)
Held == IF Len(native.rows) >= Len(store.rows) THEN native.rows ELSE store.rows

(* Two histories that differ at a shared position are refused.             *)
Agree == PrefixOf(store.rows, native.rows) \/ PrefixOf(native.rows, store.rows)

(* hydrate: file and store hold the same rows under the stored record; a   *)
(* rewritten file has whatever selection its rows say.                     *)
Hydrate ==
  /\ At("hydrate") /\ Agree
  /\ store' = [store EXCEPT !.rows = Held]
  /\ \E selection \in (IF Held = native.rows THEN {native.selection} ELSE Selections) :
       native' = [CutTornTail(native) EXCEPT !.rows = Held, !.selection = selection]
  /\ Go("configure")
  /\ UNCHANGED <<alive, told, doubts, acked>>

(* A disagreement, or a commit of the newer rows that fails.               *)
HydrateFails ==
  /\ At("hydrate")
  /\ UNCHANGED store \/ (Agree /\ store' = [store EXCEPT !.rows = Held])
  /\ Go("none")
  /\ UNCHANGED <<native, alive, told, doubts, acked>>

(* sameCarrier: a restore of a live session under the configuration it has *)
(* is answered from it, which asks pi and stores nothing; under another it *)
(* is closed and restored.                                                 *)
Reuse(request) ==
  /\ At("ready")
  /\ Inherit(request, session.selection) = session.selection
  /\ Tells(doubts)
  /\ UNCHANGED <<native, alive, store, session, acked>>

-----------------------------------------------------------------------------
(* The live session.                                                       *)

(* What a relaunch changes beside what pi changed: with the model its level*)
(* may be another, for it is set again.                                    *)
Reset(fields) == IF "model" \in fields THEN Fields ELSE fields

(* ensureRuntime: the tail is cut before pi loads the file; no model is    *)
(* named and the level is set again.  The adapter adopts the model of the  *)
(* file, and the client is not told.                                       *)
Relaunch ==
  /\ At("ready") /\ ~alive
  /\ alive' = TRUE
  /\ LET chosen == Chosen(None, session.level) IN
     /\ native' = [Loaded(CutTornTail(native)) EXCEPT !.selection = chosen]
     /\ session' = [session EXCEPT !.selection = chosen]
  /\ doubts' = [native |-> {}, record |-> doubts.record \cup Reset(doubts.native),
                told |-> Reset(doubts.told)]
  /\ UNCHANGED <<store, told, acked>>

(* It may fail after pi was told the level.                                *)
RelaunchFails ==
  /\ At("ready") /\ ~alive
  /\ \E selection \in {native.selection, Chosen(None, session.level)}, torn \in BOOLEAN :
       native' = [native EXCEPT !.selection = selection, !.torn = torn]
  /\ doubts' = [doubts EXCEPT !.native = Reset(@), !.told = Reset(@)]
  /\ UNCHANGED <<alive, store, session, told, acked>>

Prompt ==
  /\ At("ready") /\ alive
  /\ Go("turn")
  /\ UNCHANGED <<native, alive, store, told, doubts, acked>>

PiAppends(content) ==
  /\ At("turn") /\ alive /\ Len(native.rows) < MaxRows
  /\ native' = [native EXCEPT !.rows = Append(@, content)]
  /\ UNCHANGED <<alive, store, session, told, doubts, acked>>

(* A pi that runs may switch its model or its level on its own.            *)
PiSwitches(selection) ==
  /\ alive /\ (selection.model \in Plain => selection.level = Off)
  /\ native' = [native EXCEPT !.selection = selection]
  /\ LET switched == Differing(selection, native.selection) IN
     doubts' = [doubts EXCEPT !.native = @ \cup switched, !.told = @ \cup switched]
  /\ UNCHANGED <<alive, store, session, told, acked>>

PiSettles ==
  /\ At("turn") /\ alive
  /\ Go("settle")
  /\ UNCHANGED <<native, alive, store, told, doubts, acked>>

(* A turn that lost its pi fails and commits nothing.                      *)
TurnIsLost ==
  /\ At("turn") /\ ~alive
  /\ Go("ready")
  /\ UNCHANGED <<native, alive, store, told, doubts, acked>>

TurnCommits ==
  /\ At("settle")
  /\ Commit
  /\ Go("ready")
  /\ acked' = native.rows
  /\ doubts' = Recorded
  /\ UNCHANGED <<native, alive, told>>

TurnCommitFails ==
  /\ At("settle")
  /\ CommitFails
  /\ PiEnds
  /\ Go("ready")
  /\ UNCHANGED <<told, doubts, acked>>

(* session/set_config_option asks pi for a model or for a level.           *)
Asked ==
  {[model |-> m, level |-> None] : m \in Models} \cup
  {[model |-> None, level |-> l] : l \in Levels}

(* The answer names the model; the level is still to be read.              *)
SetSelection(request) ==
  /\ At("ready") /\ alive
  /\ native' = [native EXCEPT !.selection = Chosen(request.model, request.level)]
  /\ session' = [session EXCEPT !.pc = "state",
                   !.selection.model = Or(request.model, session.selection.model)]
  /\ doubts' = [native |-> (IF request.model = None THEN doubts.native ELSE {}) \cup {"level"},
                record |-> doubts.record \cup Touched(request),
                told |-> doubts.told \cup Touched(request)]
  /\ UNCHANGED <<alive, store, told, acked>>

(* The request ends without pi's answer; pi may have done it.              *)
SetSelectionLost(request) ==
  /\ At("ready") /\ alive
  /\ \E selection \in {native.selection, Chosen(request.model, request.level)} :
       native' = [native EXCEPT !.selection = selection]
  /\ doubts' = [doubts EXCEPT !.native = @ \cup Touched(request),
                              !.told = @ \cup Touched(request)]
  /\ UNCHANGED <<alive, store, session, told, acked>>

(* Mutant: the effective level is not kept for the next launch.            *)
ReadStateUnkept ==
  /\ At("state") /\ alive
  /\ session' = [session EXCEPT !.pc = "record",
                   !.selection.level = native.selection.level]
  /\ doubts' = [doubts EXCEPT !.native = @ \ {"level"}]
  /\ UNCHANGED <<native, alive, store, told, acked>>

(* The effective level is read back and kept for the next launch; the model*)
(* pi reports beside it is not looked at.                                  *)
ReadState ==
  /\ At("state") /\ alive
  /\ session' = [session EXCEPT !.pc = "record",
                   !.level = native.selection.level,
                   !.selection.level = native.selection.level]
  /\ doubts' = [doubts EXCEPT !.native = @ \ {"level"}]
  /\ UNCHANGED <<native, alive, store, told, acked>>

ReadStateFails ==
  /\ At("state")
  /\ Go("ready")
  /\ UNCHANGED <<native, alive, store, told, doubts, acked>>

SelectionCommits ==
  /\ At("record")
  /\ Commit
  /\ Go("ready")
  /\ Tells(Recorded)
  /\ UNCHANGED <<native, alive, acked>>

SelectionCommitFails ==
  /\ At("record")
  /\ CommitFails
  /\ Go("ready")
  /\ UNCHANGED <<native, alive, told, doubts, acked>>

(* close: pi is stopped before the last commit.                            *)
Close ==
  /\ At("ready")
  /\ PiEnds
  /\ Go("close")
  /\ UNCHANGED <<store, told, doubts, acked>>

CloseCommits ==
  /\ At("close")
  /\ \/ Commit /\ doubts' = Recorded
     \/ CommitFails /\ UNCHANGED doubts
  /\ Go("none")
  /\ UNCHANGED <<native, alive, told, acked>>

-----------------------------------------------------------------------------
(* Faults, and what happens to the file while nobody runs the session.     *)

PiDies ==
  /\ alive
  /\ PiEnds
  /\ UNCHANGED <<store, session, told, doubts, acked>>

AdapterDies ==
  /\ ~At("none")
  /\ PiEnds
  /\ Go("none")
  /\ UNCHANGED <<store, told, doubts, acked>>

FileLosesRows ==
  /\ At("none")
  /\ \E n \in 0 .. Len(native.rows) :
       native' = [native EXCEPT !.rows = SubSeq(@, 1, n)]
  /\ UNCHANGED <<alive, store, session, told, doubts, acked>>

(* Another pi continues a file that ends with a whole line.  One that loads*)
(* a torn tail outside of the adapter completes it into a row, as pi does; *)
(* nothing here cuts it then, so that is not modelled.                     *)
FileGainsRow(content) ==
  /\ At("none") /\ store.found /\ ~native.torn
  /\ Len(native.rows) < MaxRows
  /\ native' = [native EXCEPT !.rows = Append(@, content)]
  /\ UNCHANGED <<alive, store, session, told, doubts, acked>>

-----------------------------------------------------------------------------
Opening ==
  \/ \E request \in Requests : NewSession(request) \/ Restore(request)
  \/ Hydrate \/ HydrateFails \/ Configure \/ ConfigureFails
  \/ OpeningCommits \/ OpeningCommitFails \/ OpeningAnswers \/ OpeningFails

Live ==
  \/ \E request \in Requests : Reuse(request)
  \/ Relaunch \/ RelaunchFails \/ Prompt \/ PiSettles \/ TurnIsLost \/ TurnCommits
  \/ TurnCommitFails \/ Close \/ CloseCommits
  \/ \E request \in Asked : SetSelection(request) \/ SetSelectionLost(request)
  \/ ReadState \/ ReadStateFails \/ SelectionCommits \/ SelectionCommitFails

Next ==
  \/ Opening \/ Live \/ PiDies \/ AdapterDies \/ FileLosesRows
  \/ \E content \in Contents : PiAppends(content) \/ FileGainsRow(content)
  \/ \E selection \in Selections : PiSwitches(selection)

Spec == Init /\ [][Next]_vars

-----------------------------------------------------------------------------
(* Properties.                                                             *)

(* No row of a history is a torn line that was completed.                  *)
NoTorn(rows) == \A i \in 1 .. Len(rows) : rows[i] # Torn

(* The rows of a turn answered after its commit stay in the store, and in  *)
(* every life of the session in pi's file, however pi, the adapter, the    *)
(* store and the file fail in between; no line a dying pi left torn ever   *)
(* becomes a row (hydrate, cutTornTail).                                   *)
AckedRowsStand ==
  /\ PrefixOf(acked, store.rows)
  /\ ~At("none") /\ ~At("hydrate") => PrefixOf(acked, native.rows)
  /\ NoTorn(store.rows) /\ NoTorn(native.rows)

(* What the client was last told is what a running pi runs under and what *)
(* the record restores, across relaunches, restores and clamped levels, but*)
(* for what pi or a request without an answer may have changed since the   *)
(* adapter learned it, and for what it changed and could not store.  An    *)
(* answer ends every doubt about the level, which is read back, and about  *)
(* the model only if it names it: after a SetModel whose answer was lost or*)
(* a switch of pi's own, the answer to a later request for a level may name*)
(* a model pi does not run, and so may a restore of the live session.      *)
SelectionStands ==
  told # None =>
    /\ alive /\ session.pc \in {"ready", "turn", "settle"} =>
         Differing(native.selection, told) \subseteq doubts.told
    /\ At("none") =>
         Differing(store.record, told) \subseteq doubts.told \cup doubts.record

=============================================================================
