------------------------- MODULE SessionStoreProofs -------------------------
(***************************************************************************)
(* Proofs about one stored session: acknowledged rows and the selection    *)
(* the client was told survive every sequence of lives, crashes, failed    *)
(* commits and damaged files.                                              *)
(***************************************************************************)
EXTENDS SessionStore, SequenceTheorems, TLAPS

(* What the store holds of a session that is there is whole.               *)
StoreInv ==
  /\ store.found => store.record \in Selections
  /\ ~store.found => store.rows = <<>> /\ ~At("hydrate")

(* pi runs only between a launch and the end of a life, and the file it    *)
(* loads has no torn tail: hydrate, or the new session's own file.         *)
FileInv ==
  /\ alive => session.pc \notin {"none", "hydrate", "configure", "close"}
  /\ At("configure") => ~native.torn

RowsInv == StoreInv /\ FileInv /\ AckedRowsStand

(* Where a life of the session may be.                                     *)
Lives == {"none", "hydrate", "configure", "commit", "answer", "ready", "turn",
          "settle", "state", "record", "close"}

Clamped(selection) == selection.model \in Plain => selection.level = Off

(* A life that was configured, and one whose opening was committed.        *)
Opened == Lives \ {"none", "hydrate", "configure"}
Stored == Opened \ {"commit"}

(* pi runs what the adapter believes but for what is in doubt; with nothing*)
(* in doubt the next launch asks for the level again and pi clamps it to   *)
(* the same.                                                               *)
BeliefInv ==
  session.pc \in Opened =>
    /\ Clamped(native.selection)
    /\ Differing(native.selection, session.selection) \subseteq doubts.native
    /\ doubts.native = {} /\ session.level # None =>
         Clamp(session.selection.model, session.level) = session.selection.level

(* The client was told what the adapter believes.                          *)
ToldInv ==
  /\ doubts.native \subseteq doubts.told
  /\ session.pc \in Stored /\ told # None =>
       Differing(session.selection, told) \subseteq doubts.told

(* So says the record; between two lives it says what the client was told. *)
RecordInv ==
  /\ At("state") => "level" \in doubts.native \cap doubts.record
  /\ session.pc \in Stored =>
       Differing(store.record, session.selection) \subseteq doubts.record
  /\ session.pc \notin Stored /\ told # None =>
       Differing(store.record, told) \subseteq doubts.told \cup doubts.record

SelectionInv == BeliefInv /\ ToldInv /\ RecordInv

IInv == TypeOK /\ RowsInv /\ SelectionInv

-----------------------------------------------------------------------------
(* Rows.                                                                   *)

LEMMA EmptyRows == <<>> \in Rows /\ NoTorn(<<>>)
BY DEF Rows, NoTorn

LEMMA AppendedRows ==
  ASSUME NEW rows \in Rows, NEW content \in Contents \cup {Torn}
  PROVE  /\ Append(rows, content) \in Rows
         /\ NoTorn(rows) /\ content # Torn => NoTorn(Append(rows, content))
BY DEF Rows, NoTorn

LEMMA ShortenedRows ==
  ASSUME NEW rows \in Rows, NEW n \in 0 .. Len(rows)
  PROVE  SubSeq(rows, 1, n) \in Rows /\ (NoTorn(rows) => NoTorn(SubSeq(rows, 1, n)))
BY DEF Rows, NoTorn

LEMMA PrefixEmpty == ASSUME NEW t \in Rows PROVE PrefixOf(<<>>, t)
BY DEF PrefixOf, Rows

LEMMA PrefixSelf == ASSUME NEW t \in Rows PROVE PrefixOf(t, t)
BY DEF PrefixOf, Rows

LEMMA PrefixTransitive ==
  ASSUME NEW r \in Rows, NEW s \in Rows, NEW t \in Rows,
         PrefixOf(r, s), PrefixOf(s, t)
  PROVE  PrefixOf(r, t)
BY DEF PrefixOf, Rows

LEMMA PrefixAppend ==
  ASSUME NEW s \in Rows, NEW t \in Rows, NEW content, PrefixOf(s, t)
  PROVE  PrefixOf(s, Append(t, content))
BY DEF PrefixOf, Rows

(* Of two histories that agree the one hydrate keeps holds the other.      *)
LEMMA HeldExtends ==
  ASSUME TypeOK, Agree
  PROVE  /\ Held \in Rows
         /\ PrefixOf(store.rows, Held)
         /\ AckedRowsStand => NoTorn(Held)
<1> USE DEF TypeOK, NativeType, StoreType
<1>1. store.rows \in Rows /\ native.rows \in Rows
  OBVIOUS
<1>2. Len(store.rows) \in Nat /\ Len(native.rows) \in Nat
  BY <1>1 DEF Rows
<1>3. CASE Len(native.rows) >= Len(store.rows)
  <2>1. PrefixOf(store.rows, native.rows)
    BY <1>1, <1>2, <1>3 DEF Agree, PrefixOf
  <2> QED
    BY <1>1, <1>3, <2>1 DEF Held, AckedRowsStand, NoTorn
<1>4. CASE ~(Len(native.rows) >= Len(store.rows))
  BY <1>1, <1>4, PrefixSelf DEF Held, AckedRowsStand, NoTorn
<1> QED
  BY <1>3, <1>4

-----------------------------------------------------------------------------
(* Types.                                                                  *)

LEMMA ChosenTypes ==
  ASSUME TypeOK, NEW model \in Models \cup {None}, NEW level \in Levels \cup {None}
  PROVE  /\ Chosen(model, level) \in Selections
         /\ Clamped(Chosen(model, level))
BY StoreAssumption
DEF TypeOK, NativeType, Selections, Chosen, Or, Clamp, Clamped

LEMMA InheritTypes ==
  ASSUME NEW request \in Requests, NEW record \in Selections
  PROVE  /\ Inherit(request, record).model \in Models \cup {None}
         /\ Inherit(request, record).level \in Levels \cup {None}
BY DEF Requests, Selections, Inherit, Or

LEMMA LoadedTypes ==
  ASSUME NEW file \in NativeType
  PROVE  Loaded(file) \in NativeType /\ CutTornTail(file) \in NativeType
<1>1. Append(file.rows, Torn) \in Rows
  BY AppendedRows DEF NativeType
<1>2. [file EXCEPT !.rows = Append(file.rows, Torn), !.torn = FALSE] \in NativeType
  BY <1>1 DEF NativeType
<1>3. [file EXCEPT !.torn = FALSE] \in NativeType
  BY DEF NativeType
<1> QED
  BY <1>2, <1>3 DEF Loaded, CutTornTail

LEMMA DoubtsTypes ==
  ASSUME TypeOK
  PROVE  /\ Untold \subseteq Fields
         /\ Recorded \in DoubtsType
         /\ \A fields \in SUBSET Fields : Reset(fields) \subseteq Fields
         /\ \A request : Touched(request) \subseteq Fields
BY DEF TypeOK, DoubtsType, Untold, Differing, Recorded, Reset, Touched, Fields

LEMMA TellsTypes ==
  ASSUME TypeOK, NEW before \in DoubtsType, Tells(before)
  PROVE  told' \in Selections /\ doubts' \in DoubtsType
BY DEF TypeOK, SessionType, DoubtsType, Tells

LEMMA CommitTypes == TypeOK /\ (Commit \/ CommitFails) => store' \in StoreType
<1> SUFFICES ASSUME TypeOK, Commit \/ UNCHANGED store PROVE store' \in StoreType
  BY DEF CommitFails
<1>1. native.rows \in Rows /\ session.selection \in Selections
  BY DEF TypeOK, NativeType, SessionType
<1>2. CASE Commit
  BY <1>1, <1>2 DEF Commit, StoreType
<1>3. CASE UNCHANGED store
  BY <1>3 DEF TypeOK
<1> QED
  BY <1>2, <1>3

LEMMA PiEndsTypes == TypeOK /\ PiEnds => native' \in NativeType /\ alive' \in BOOLEAN
BY DEF TypeOK, PiEnds, NativeType

LEMMA GoTypes ==
  ASSUME TypeOK, NEW point \in Lives, Go(point)
  PROVE  session' \in SessionType /\ session'.pc = point
         /\ session'.selection = session.selection
         /\ session'.level = session.level
BY DEF TypeOK, Go, SessionType, Lives

(* The actions that open a session, and those of a live one.               *)
LEMMA TypeOpening == TypeOK /\ StoreInv /\ Opening => TypeOK'
<1> SUFFICES ASSUME TypeOK, StoreInv, Opening PROVE TypeOK'
  OBVIOUS
<1>1. ASSUME NEW request \in Requests, NewSession(request) PROVE TypeOK'
  BY <1>1 DEF NewSession, TypeOK, Requests, SessionType, NativeType
<1>2. ASSUME NEW request \in Requests, Restore(request) PROVE TypeOK'
  <2>1. store.record \in Selections
    BY <1>2 DEF Restore, StoreInv, TypeOK, StoreType
  <2>2. session' \in SessionType
    BY <1>2, <2>1, InheritTypes DEF Restore, TypeOK, SessionType
  <2> QED
    BY <1>2, <2>2 DEF Restore, TypeOK
<1>3. ASSUME Hydrate PROVE TypeOK'
  <2>1. Held \in Rows
    BY <1>3, HeldExtends DEF Hydrate
  <2>2. store' \in StoreType
    BY <1>3, <2>1 DEF Hydrate, TypeOK, StoreType
  <2>3. PICK selection \in Selections :
          native' = [CutTornTail(native) EXCEPT !.rows = Held, !.selection = selection]
    BY <1>3 DEF Hydrate, TypeOK, NativeType
  <2>4. native' \in NativeType
    BY <2>1, <2>3, LoadedTypes DEF TypeOK, NativeType
  <2> QED
    BY <1>3, <2>2, <2>4, GoTypes DEF Lives, Hydrate, TypeOK
<1>4. ASSUME HydrateFails PROVE TypeOK'
  <2>1. store' \in StoreType
    BY <1>4, HeldExtends DEF HydrateFails, TypeOK, StoreType
  <2> QED
    BY <1>4, <2>1, GoTypes DEF Lives, HydrateFails, TypeOK
<1>5. ASSUME Configure PROVE TypeOK'
  <2>1. Chosen(session.model, session.level) \in Selections
    BY ChosenTypes DEF TypeOK, SessionType
  <2>2. native' \in NativeType /\ session' \in SessionType
    BY <1>5, <2>1, LoadedTypes DEF Configure, TypeOK, SessionType, NativeType
  <2>3. doubts' \in DoubtsType
    BY <1>5 DEF Configure, TypeOK, DoubtsType
  <2> QED
    BY <1>5, <2>2, <2>3 DEF Configure, TypeOK
<1>6. ASSUME ConfigureFails PROVE TypeOK'
  <2>1. Chosen(session.model, session.level) \in Selections
    BY ChosenTypes DEF TypeOK, SessionType
  <2>2. native' \in NativeType
    BY <1>6, <2>1, LoadedTypes DEF ConfigureFails, TypeOK, NativeType
  <2> QED
    BY <1>6, <2>2, GoTypes DEF Lives, ConfigureFails, TypeOK
<1>7. ASSUME OpeningCommits \/ OpeningCommitFails PROVE TypeOK'
  <2>1. doubts' \in DoubtsType
    BY <1>7, DoubtsTypes DEF OpeningCommits, OpeningCommitFails, TypeOK, DoubtsType
  <2> QED
    BY <1>7, <2>1, CommitTypes, PiEndsTypes, GoTypes
    DEF Lives, OpeningCommits, OpeningCommitFails, TypeOK
<1>8. ASSUME OpeningAnswers PROVE TypeOK'
  BY <1>8, GoTypes, TellsTypes DEF Lives, OpeningAnswers, TypeOK
<1>9. ASSUME OpeningFails PROVE TypeOK'
  BY <1>9, PiEndsTypes, GoTypes DEF Lives, OpeningFails, TypeOK
<1> QED
  BY <1>1, <1>2, <1>3, <1>4, <1>5, <1>6, <1>7, <1>8, <1>9 DEF Opening

LEMMA AskedTypes ==
  ASSUME NEW request \in Asked
  PROVE  request.model \in Models \cup {None} /\ request.level \in Levels \cup {None}
BY DEF Asked

LEMMA TypeLive == TypeOK /\ Live => TypeOK'
<1> SUFFICES ASSUME TypeOK, Live PROVE TypeOK'
  OBVIOUS
<1>1. ASSUME NEW request \in Requests, Reuse(request) PROVE TypeOK'
  BY <1>1, TellsTypes DEF Reuse, TypeOK
<1>2. ASSUME Relaunch PROVE TypeOK'
  <2>1. Chosen(None, session.level) \in Selections
    BY ChosenTypes DEF TypeOK, SessionType
  <2>2. Loaded(CutTornTail(native)) \in NativeType
    BY LoadedTypes DEF TypeOK
  <2>3. native' \in NativeType /\ session' \in SessionType
    BY <1>2, <2>1, <2>2 DEF Relaunch, TypeOK, SessionType, NativeType
  <2>4. doubts' \in DoubtsType
    BY <1>2, DoubtsTypes DEF Relaunch, TypeOK, DoubtsType
  <2> QED
    BY <1>2, <2>3, <2>4 DEF Relaunch, TypeOK
<1>3. ASSUME Prompt \/ PiSettles \/ TurnIsLost PROVE TypeOK'
  BY <1>3, GoTypes DEF Lives, Prompt, PiSettles, TurnIsLost, TypeOK
<1>4. ASSUME TurnCommits \/ TurnCommitFails PROVE TypeOK'
  BY <1>4, GoTypes, CommitTypes, PiEndsTypes, DoubtsTypes
  DEF Lives, TurnCommits, TurnCommitFails, TypeOK, NativeType
<1>5. ASSUME Close \/ CloseCommits PROVE TypeOK'
  BY <1>5, GoTypes, CommitTypes, PiEndsTypes, DoubtsTypes
  DEF Lives, Close, CloseCommits, TypeOK
<1>6. ASSUME NEW request \in Asked, SetSelection(request) PROVE TypeOK'
  <2>1. native' \in NativeType
    BY <1>6, AskedTypes, ChosenTypes DEF SetSelection, TypeOK, NativeType
  <2>2. Or(request.model, session.selection.model) \in Models
    BY AskedTypes DEF Or, TypeOK, SessionType, Selections
  <2>3. session' \in SessionType
    BY <1>6, <2>2 DEF SetSelection, TypeOK, SessionType, Selections
  <2>4. doubts' \in DoubtsType
    BY <1>6, DoubtsTypes DEF SetSelection, TypeOK, DoubtsType, Fields
  <2> QED
    BY <1>6, <2>1, <2>3, <2>4 DEF SetSelection, TypeOK
<1>7. ASSUME NEW request \in Asked, SetSelectionLost(request) PROVE TypeOK'
  <2>1. native' \in NativeType
    BY <1>7, AskedTypes, ChosenTypes DEF SetSelectionLost, TypeOK, NativeType
  <2>2. doubts' \in DoubtsType
    BY <1>7, DoubtsTypes DEF SetSelectionLost, TypeOK, DoubtsType
  <2> QED
    BY <1>7, <2>1, <2>2 DEF SetSelectionLost, TypeOK
<1>8. ASSUME ReadState \/ ReadStateFails PROVE TypeOK'
  <2>1. CASE ReadState
    <3>1. native.selection.level \in Levels
      BY DEF TypeOK, NativeType, Selections
    <3>2. session' \in SessionType
      BY <2>1, <3>1 DEF ReadState, TypeOK, SessionType, Selections
    <3>3. doubts' \in DoubtsType
      BY <2>1 DEF ReadState, TypeOK, DoubtsType
    <3> QED
      BY <2>1, <3>2, <3>3 DEF ReadState, TypeOK
  <2>2. CASE ReadStateFails
    BY <2>2, GoTypes DEF Lives, ReadStateFails, TypeOK
  <2> QED
    BY <1>8, <2>1, <2>2
<1>9. ASSUME SelectionCommits \/ SelectionCommitFails PROVE TypeOK'
  BY <1>9, GoTypes, CommitTypes, DoubtsTypes, TellsTypes
  DEF Lives, SelectionCommits, SelectionCommitFails, TypeOK
<1>10. ASSUME RelaunchFails PROVE TypeOK'
  <2>1. Chosen(None, session.level) \in Selections
    BY ChosenTypes DEF TypeOK, SessionType
  <2>2. native' \in NativeType
    BY <1>10, <2>1 DEF RelaunchFails, TypeOK, NativeType
  <2>3. doubts' \in DoubtsType
    BY <1>10, DoubtsTypes DEF RelaunchFails, TypeOK, DoubtsType
  <2> QED
    BY <1>10, <2>2, <2>3 DEF RelaunchFails, TypeOK
<1> QED
  BY <1>1, <1>2, <1>3, <1>4, <1>5, <1>6, <1>7, <1>8, <1>9, <1>10 DEF Live

(* The steps of nobody's making.                                           *)
Elsewhere ==
  \/ PiDies \/ AdapterDies \/ FileLosesRows
  \/ \E content \in Contents : PiAppends(content) \/ FileGainsRow(content)
  \/ \E selection \in Selections : PiSwitches(selection)

LEMMA TypeElsewhere == TypeOK /\ Elsewhere => TypeOK'
<1> SUFFICES ASSUME TypeOK, Elsewhere PROVE TypeOK'
  OBVIOUS
<1>1. ASSUME PiDies \/ AdapterDies PROVE TypeOK'
  BY <1>1, PiEndsTypes, GoTypes DEF Lives, PiDies, AdapterDies, TypeOK
<1>2. ASSUME FileLosesRows PROVE TypeOK'
  <2>1. native' \in NativeType
    BY <1>2, ShortenedRows DEF FileLosesRows, TypeOK, NativeType
  <2> QED
    BY <1>2, <2>1 DEF FileLosesRows, TypeOK
<1>3. ASSUME NEW content \in Contents, PiAppends(content) \/ FileGainsRow(content)
      PROVE TypeOK'
  <2>1. native' \in NativeType
    BY <1>3, AppendedRows DEF PiAppends, FileGainsRow, TypeOK, NativeType
  <2> QED
    BY <1>3, <2>1 DEF PiAppends, FileGainsRow, TypeOK
<1>4. ASSUME NEW selection \in Selections, PiSwitches(selection) PROVE TypeOK'
  <2>1. native' \in NativeType
    BY <1>4 DEF PiSwitches, TypeOK, NativeType
  <2>2. doubts' \in DoubtsType
    BY <1>4 DEF PiSwitches, TypeOK, DoubtsType, Differing
  <2> QED
    BY <1>4, <2>1, <2>2 DEF PiSwitches, TypeOK
<1> QED
  BY <1>1, <1>2, <1>3, <1>4 DEF Elsewhere

LEMMA StepIsNamed == [Next]_vars => Opening \/ Live \/ Elsewhere \/ UNCHANGED vars
BY DEF Next, Elsewhere

LEMMA TypeStep == TypeOK /\ StoreInv /\ [Next]_vars => TypeOK'
BY StepIsNamed, TypeOpening, TypeLive, TypeElsewhere DEF TypeOK, vars

-----------------------------------------------------------------------------
(* Files and rows.                                                         *)

(* A commit writes a record and the file's rows; one that fails may have.  *)
LEMMA CommitWrites ==
  TypeOK /\ (Commit \/ CommitFails) =>
    \/ UNCHANGED store
    \/ /\ store'.found /\ store'.rows = native.rows
       /\ store'.record = session.selection /\ store'.record \in Selections
BY DEF Commit, CommitFails, TypeOK, SessionType

LEMMA PiEndsKeepsRows ==
  TypeOK /\ PiEnds =>
    ~alive' /\ native'.rows = native.rows /\ native'.selection = native.selection
BY DEF TypeOK, PiEnds, NativeType

(* Wherever a commit may happen the file holds the acknowledged rows, and  *)
(* a step that leaves file and life alone keeps what is held.              *)
LEMMA RowsCommitted ==
  ASSUME TypeOK, RowsInv, NEW point \in Lives \ {"hydrate", "configure"},
         session'.pc = point,
         session.pc \notin {"none", "hydrate"},
         acked' = acked, native'.rows = native.rows,
         store' = store \/ Commit,
         alive' => alive /\ point \notin {"none", "close"}
  PROVE  RowsInv'
<1>1. \/ store'.found /\ store'.record \in Selections /\ store'.rows = native.rows
      \/ store' = store
  BY CommitWrites
<1>2. StoreInv'
  BY <1>1 DEF RowsInv, StoreInv, Lives, At
<1>3. FileInv'
  BY DEF RowsInv, FileInv, Lives, At
<1>4. AckedRowsStand'
  BY <1>1 DEF RowsInv, AckedRowsStand, Lives, At
<1> QED
  BY <1>2, <1>3, <1>4 DEF RowsInv

LEMMA RowsOpening == TypeOK /\ RowsInv /\ Opening => RowsInv'
<1> SUFFICES ASSUME TypeOK, RowsInv, Opening PROVE RowsInv'
  OBVIOUS
<1>a. acked \in Rows /\ store.rows \in Rows /\ native.rows \in Rows
  BY DEF TypeOK, StoreType, NativeType
<1>1. ASSUME NEW request \in Requests, NewSession(request) PROVE RowsInv'
  <2>1. session'.pc = "configure" /\ native'.rows = native.rows /\ ~native'.torn
    BY <1>1 DEF NewSession, TypeOK, SessionType, NativeType
  <2>2. PrefixOf(acked, native.rows)
    BY <1>1 DEF NewSession, RowsInv, StoreInv, AckedRowsStand
  <2> QED
    BY <1>1, <2>1, <2>2
    DEF NewSession, RowsInv, StoreInv, FileInv, AckedRowsStand, At
<1>2. ASSUME NEW request \in Requests, Restore(request) PROVE RowsInv'
  <2>1. session'.pc = "hydrate"
    BY <1>2 DEF Restore, TypeOK, SessionType
  <2> QED
    BY <1>2, <2>1 DEF Restore, RowsInv, StoreInv, FileInv, AckedRowsStand, At
<1>3. ASSUME Hydrate PROVE RowsInv'
  <2>1. session'.pc = "configure"
    BY <1>3, GoTypes DEF Lives, Hydrate
  <2>2. native'.rows = Held /\ ~native'.torn
    BY <1>3 DEF Hydrate, CutTornTail, TypeOK, NativeType
  <2>3. store'.rows = Held /\ store'.found = store.found /\ store'.record = store.record
    BY <1>3 DEF Hydrate, TypeOK, StoreType
  <2>4. PrefixOf(acked, Held) /\ NoTorn(Held)
    BY <1>a, <1>3, HeldExtends, PrefixTransitive DEF Hydrate, RowsInv, AckedRowsStand
  <2> QED
    BY <1>3, <2>1, <2>2, <2>3, <2>4
    DEF Hydrate, RowsInv, StoreInv, FileInv, AckedRowsStand, At
<1>4. ASSUME HydrateFails PROVE RowsInv'
  <2>1. session'.pc = "none"
    BY <1>4, GoTypes DEF Lives, HydrateFails
  <2>2. CASE store' = store
    BY <1>4, <2>1, <2>2 DEF HydrateFails, RowsInv, StoreInv, FileInv, AckedRowsStand, At
  <2>3. CASE Agree /\ store' = [store EXCEPT !.rows = Held]
    <3>1. store'.rows = Held /\ store'.found = store.found /\ store'.record = store.record
      BY <2>3 DEF TypeOK, StoreType
    <3>2. PrefixOf(acked, Held) /\ NoTorn(Held)
      BY <1>a, <2>3, HeldExtends, PrefixTransitive DEF RowsInv, AckedRowsStand
    <3> QED
      BY <1>4, <2>1, <3>1, <3>2
      DEF HydrateFails, RowsInv, StoreInv, FileInv, AckedRowsStand, At
  <2> QED
    BY <1>4, <2>2, <2>3 DEF HydrateFails
<1>5. ASSUME Configure PROVE RowsInv'
  <2>1. session'.pc = "commit"
    BY <1>5 DEF Configure, TypeOK, SessionType
  <2>2. native'.rows = native.rows
    BY <1>5 DEF Configure, Loaded, RowsInv, FileInv, TypeOK, NativeType
  <2> QED
    BY <1>5, <2>1, <2>2
    DEF Configure, RowsInv, StoreInv, FileInv, AckedRowsStand, At
<1>6. ASSUME ConfigureFails PROVE RowsInv'
  <2>1. session'.pc = "none"
    BY <1>6, GoTypes DEF Lives, ConfigureFails
  <2>2. native'.rows = native.rows
    BY <1>6 DEF ConfigureFails, Loaded, RowsInv, FileInv, TypeOK, NativeType
  <2> QED
    BY <1>6, <2>1, <2>2
    DEF ConfigureFails, RowsInv, StoreInv, FileInv, AckedRowsStand, At
<1>7. ASSUME OpeningCommits \/ OpeningAnswers PROVE RowsInv'
  BY <1>7, RowsCommitted, GoTypes
  DEF OpeningCommits, OpeningAnswers, Lives, At, TypeOK, SessionType
<1>8. ASSUME OpeningCommitFails \/ OpeningFails PROVE RowsInv'
  <2>1. native'.rows = native.rows /\ ~alive'
    BY <1>8, PiEndsKeepsRows DEF OpeningCommitFails, OpeningFails
  <2>2. store' = store \/ Commit
    BY <1>8 DEF OpeningCommitFails, OpeningFails, CommitFails
  <2> QED
    BY <1>8, <2>1, <2>2, RowsCommitted, GoTypes
    DEF OpeningCommitFails, OpeningFails, Lives, At
<1> QED
  BY <1>1, <1>2, <1>3, <1>4, <1>5, <1>6, <1>7, <1>8 DEF Opening

LEMMA RowsLive == TypeOK /\ RowsInv /\ Live => RowsInv'
<1> SUFFICES ASSUME TypeOK, RowsInv, Live PROVE RowsInv'
  OBVIOUS
<1>a. acked \in Rows /\ store.rows \in Rows /\ native.rows \in Rows
  BY DEF TypeOK, StoreType, NativeType
<1>1. ASSUME NEW request \in Requests, Reuse(request) PROVE RowsInv'
  BY <1>1 DEF Reuse, RowsInv, StoreInv, FileInv, AckedRowsStand, At
<1>2. ASSUME Relaunch PROVE RowsInv'
  <2>1. session'.pc = "ready"
    BY <1>2 DEF Relaunch, TypeOK, SessionType, At
  <2>2. native'.rows = native.rows
    BY <1>2 DEF Relaunch, Loaded, CutTornTail, TypeOK, NativeType
  <2> QED
    BY <1>2, <2>1, <2>2 DEF Relaunch, RowsInv, StoreInv, FileInv, AckedRowsStand, At
<1>3. ASSUME Prompt \/ PiSettles \/ TurnIsLost PROVE RowsInv'
  BY <1>3, GoTypes, RowsCommitted DEF Prompt, PiSettles, TurnIsLost, Lives, At
<1>4. ASSUME TurnCommits PROVE RowsInv'
  <2>1. session'.pc = "ready"
    BY <1>4, GoTypes DEF Lives, TurnCommits
  <2>2. store'.rows = native.rows /\ store'.found /\ store'.record \in Selections
    BY <1>4 DEF TurnCommits, Commit, TypeOK, SessionType
  <2> QED
    BY <1>a, <1>4, <2>1, <2>2, PrefixSelf
    DEF TurnCommits, RowsInv, StoreInv, FileInv, AckedRowsStand, At
<1>5. ASSUME TurnCommitFails \/ Close \/ CloseCommits PROVE RowsInv'
  <2>1. native'.rows = native.rows /\ (alive' => alive /\ At("close"))
    BY <1>5, PiEndsKeepsRows DEF TurnCommitFails, Close, CloseCommits
  <2>2. store' = store \/ Commit
    BY <1>5 DEF TurnCommitFails, Close, CloseCommits, CommitFails
  <2>3. ~alive'
    BY <1>5, <2>1 DEF RowsInv, FileInv, At
  <2> QED
    BY <1>5, <2>1, <2>2, <2>3, RowsCommitted, GoTypes
    DEF TurnCommitFails, Close, CloseCommits, Lives, At
<1>6. ASSUME NEW request \in Asked, SetSelection(request) PROVE RowsInv'
  <2>1. session'.pc = "state" /\ native'.rows = native.rows
    BY <1>6 DEF SetSelection, TypeOK, SessionType, NativeType
  <2> QED
    BY <1>6, <2>1, RowsCommitted DEF SetSelection, Lives, At
<1>7. ASSUME NEW request \in Asked, SetSelectionLost(request) PROVE RowsInv'
  <2>1. native'.rows = native.rows
    BY <1>7 DEF SetSelectionLost, TypeOK, NativeType
  <2> QED
    BY <1>7, <2>1, RowsCommitted DEF SetSelectionLost, Lives, At
<1>8. ASSUME ReadState PROVE RowsInv'
  <2>1. session'.pc = "record"
    BY <1>8 DEF ReadState, TypeOK, SessionType
  <2> QED
    BY <1>8, <2>1, RowsCommitted DEF ReadState, Lives, At
<1>9. ASSUME ReadStateFails \/ SelectionCommits \/ SelectionCommitFails PROVE RowsInv'
  BY <1>9, GoTypes, RowsCommitted
  DEF ReadStateFails, SelectionCommits, SelectionCommitFails, CommitFails, Lives, At
<1>10. ASSUME RelaunchFails PROVE RowsInv'
  <2>1. native'.rows = native.rows
    BY <1>10 DEF RelaunchFails, TypeOK, NativeType
  <2> QED
    BY <1>10, <2>1 DEF RelaunchFails, RowsInv, StoreInv, FileInv, AckedRowsStand, At
<1> QED
  BY <1>1, <1>2, <1>3, <1>4, <1>5, <1>6, <1>7, <1>8, <1>9, <1>10 DEF Live

LEMMA RowsElsewhere == TypeOK /\ RowsInv /\ Elsewhere => RowsInv'
<1> SUFFICES ASSUME TypeOK, RowsInv, Elsewhere PROVE RowsInv'
  OBVIOUS
<1>a. acked \in Rows /\ store.rows \in Rows /\ native.rows \in Rows
  BY DEF TypeOK, StoreType, NativeType
<1>1. ASSUME PiDies \/ AdapterDies PROVE RowsInv'
  <2>1. native'.rows = native.rows /\ ~alive' /\ store' = store /\ acked' = acked
    BY <1>1, PiEndsKeepsRows DEF PiDies, AdapterDies
  <2>2. session' = session \/ session'.pc = "none"
    BY <1>1, GoTypes DEF Lives, PiDies, AdapterDies
  <2>3. PiDies => ~At("configure")
    BY DEF PiDies, RowsInv, FileInv, At
  <2> QED
    BY <1>1, <2>1, <2>2, <2>3, GoTypes
    DEF Lives, RowsInv, StoreInv, FileInv, AckedRowsStand, AdapterDies, PiDies, At
<1>2. ASSUME FileLosesRows PROVE RowsInv'
  <2>1. NoTorn(native'.rows)
    BY <1>a, <1>2, ShortenedRows
    DEF FileLosesRows, RowsInv, AckedRowsStand, TypeOK, NativeType
  <2> QED
    BY <1>2, <2>1 DEF FileLosesRows, RowsInv, StoreInv, FileInv, AckedRowsStand, At
<1>3. ASSUME NEW content \in Contents, PiAppends(content) \/ FileGainsRow(content)
      PROVE RowsInv'
  <2>1. native'.rows = Append(native.rows, content)
    BY <1>3 DEF PiAppends, FileGainsRow, TypeOK, NativeType
  <2>2. NoTorn(native'.rows)
    BY <1>a, <2>1, AppendedRows, StoreAssumption DEF RowsInv, AckedRowsStand
  <2>3. PrefixOf(acked, native.rows) => PrefixOf(acked, native'.rows)
    BY <1>a, <2>1, PrefixAppend
  <2> QED
    BY <1>3, <2>2, <2>3
    DEF PiAppends, FileGainsRow, RowsInv, StoreInv, FileInv, AckedRowsStand, At
<1>4. ASSUME NEW selection \in Selections, PiSwitches(selection) PROVE RowsInv'
  <2>1. native'.rows = native.rows
    BY <1>4 DEF PiSwitches, TypeOK, NativeType
  <2> QED
    BY <1>4, <2>1 DEF PiSwitches, RowsInv, StoreInv, FileInv, AckedRowsStand, At
<1> QED
  BY <1>1, <1>2, <1>3, <1>4 DEF Elsewhere

LEMMA RowsStep == TypeOK /\ RowsInv /\ [Next]_vars => RowsInv'
<1>1. TypeOK /\ RowsInv /\ UNCHANGED vars => RowsInv'
  BY DEF vars, RowsInv, StoreInv, FileInv, AckedRowsStand, At
<1> QED
  BY <1>1, StepIsNamed, RowsOpening, RowsLive, RowsElsewhere

-----------------------------------------------------------------------------
(* The selection.                                                          *)

(* Where two selections differ.                                            *)
LEMMA DifferingFields ==
  ASSUME NEW one \in Selections, NEW other \in Selections
  PROVE  /\ Differing(one, other) \subseteq Fields
         /\ "model" \in Differing(one, other) <=> one.model # other.model
         /\ "level" \in Differing(one, other) <=> one.level # other.level
BY DEF Differing, Fields, Selections

LEMMA DifferingSelf == ASSUME NEW one PROVE Differing(one, one) = {}
BY DEF Differing

LEMMA DifferingTriangle ==
  ASSUME NEW one, NEW other, NEW third
  PROVE  Differing(one, third) \subseteq Differing(one, other) \cup Differing(other, third)
BY DEF Differing

(* Nothing the selection depends on changed but where the session is.      *)
Untouched ==
  /\ native'.selection = native.selection
  /\ session'.selection = session.selection /\ session'.level = session.level

LEMMA PiEndsTouchesNothing ==
  ASSUME TypeOK, PiEnds, NEW point \in Lives, Go(point)
  PROVE  Untouched
BY PiEndsKeepsRows, GoTypes DEF Untouched

(* A step between two points of an opened life that leaves pi, the adapter *)
(* and every doubt but the record's alone keeps what is believed and told. *)
LEMMA UntouchedKeeps ==
  ASSUME Untouched, BeliefInv, ToldInv, doubts'.native = doubts.native,
         session.pc \in Opened \/ session'.pc \notin Opened,
         session.pc \in Stored \/ session'.pc \notin Stored,
         told' = told, doubts'.told = doubts.told
  PROVE  BeliefInv' /\ ToldInv'
BY DEF Untouched, BeliefInv, ToldInv, Clamped, Clamp

(* A commit stores what is believed; one that fails may have stored it.    *)
LEMMA CommitKeepsRecord ==
  ASSUME TypeOK, SelectionInv, session.pc \in Stored \ {"state"}, session'.pc # "state",
         session'.selection = session.selection,
         told' = told, doubts'.told = doubts.told,
         \/ Commit
         \/ UNCHANGED store /\ doubts'.record = doubts.record
  PROVE  RecordInv'
<1>1. \/ store'.record = session.selection
      \/ store'.record = store.record /\ doubts'.record = doubts.record
  BY DEF Commit
<1>2. CASE session'.pc \in Stored
  BY <1>1, <1>2, DifferingSelf DEF SelectionInv, RecordInv, At
<1>3. CASE session'.pc \notin Stored
  <2>1. told # None => Differing(session.selection, told) \subseteq doubts.told
    BY DEF SelectionInv, ToldInv
  <2>2. Differing(store.record, session.selection) \subseteq doubts.record
    BY DEF SelectionInv, RecordInv
  <2> QED
    BY <1>1, <1>3, <2>1, <2>2, DifferingTriangle DEF RecordInv, At
<1> QED
  BY <1>2, <1>3

(* A life that ends before its opening is answered.                        *)
LEMMA NothingKept ==
  ASSUME TypeOK, SelectionInv, session'.pc \notin Opened, session.pc \notin Stored,
         told' = told, doubts' = doubts, store'.record = store.record
  PROVE  SelectionInv'
BY DEF SelectionInv, BeliefInv, ToldInv, RecordInv, Opened, Stored, Lives, At

(* An answer tells what is believed.                                       *)
LEMMA TellsKeeps ==
  ASSUME TypeOK, BeliefInv, Untouched, NEW before \in DoubtsType, Tells(before),
         before.native = doubts.native,
         session.pc \in Opened, session'.pc \in Stored \ {"state"},
         Differing(store'.record, session.selection) \subseteq before.record
  PROVE  SelectionInv'
<1>1. /\ told' = session.selection /\ doubts'.native = before.native
      /\ doubts'.told = before.native /\ doubts'.record = before.record
  BY DEF Tells, DoubtsType
<1>2. BeliefInv'
  BY <1>1 DEF BeliefInv, Untouched, Clamped, Clamp, Stored
<1>3. ToldInv'
  BY <1>1, DifferingSelf DEF ToldInv, Untouched
<1>4. RecordInv'
  BY <1>1 DEF RecordInv, Untouched, At
<1> QED
  BY <1>2, <1>3, <1>4 DEF SelectionInv

(* What pi chose for a launch it chooses again for the same level.         *)
LEMMA ChosenIsStable ==
  ASSUME TypeOK, NEW model \in Models \cup {None}, NEW level \in Levels \cup {None}
  PROVE  level # None => Clamp(Chosen(model, level).model, level) = Chosen(model, level).level
BY DEF Chosen, Or

(* A relaunch changes at most what is in doubt of pi, and the level if the *)
(* model is.                                                               *)
LEMMA RelaunchChooses ==
  ASSUME TypeOK, BeliefInv, session.pc \in Opened
  PROVE  LET chosen == Chosen(None, session.level)
         IN /\ Differing(chosen, session.selection) \subseteq Reset(doubts.native)
            /\ chosen \in Selections /\ Clamped(chosen)
<1> DEFINE chosen == Chosen(None, session.level)
<1>1. session.selection \in Selections /\ native.selection \in Selections
  BY DEF TypeOK, SessionType, NativeType
<1>2. chosen \in Selections /\ Clamped(chosen)
  BY ChosenTypes DEF TypeOK, SessionType
<1>3. chosen.model = native.selection.model
  BY DEF Chosen, Or
<1>4. chosen.level = IF session.level = None
                     THEN Clamp(native.selection.model, native.selection.level)
                     ELSE Clamp(native.selection.model, session.level)
  BY DEF Chosen, Or
<1> HIDE DEF chosen
<1>5. ASSUME "model" \notin doubts.native
      PROVE  chosen.model = session.selection.model
  BY <1>1, <1>3, <1>5, DifferingFields DEF BeliefInv
<1>6. ASSUME "model" \notin doubts.native, "level" \notin doubts.native
      PROVE  chosen.level = session.selection.level
  <2>1. doubts.native = {}
    BY <1>6 DEF TypeOK, DoubtsType, Fields
  <2>2. /\ native.selection.model = session.selection.model
        /\ native.selection.level = session.selection.level
    BY <1>1, <1>6, DifferingFields DEF BeliefInv
  <2> QED
    BY <1>4, <2>1, <2>2 DEF BeliefInv, Clamped, Clamp
<1>7. Differing(chosen, session.selection) \subseteq Reset(doubts.native)
  <2>1. CASE "model" \in doubts.native
    BY <1>1, <1>2, <2>1, DifferingFields DEF Reset
  <2>2. CASE "model" \notin doubts.native
    BY <1>1, <1>2, <1>5, <1>6, <2>2, DifferingFields DEF Reset, Fields
  <2> QED
    BY <2>1, <2>2
<1> QED
  BY <1>2, <1>7 DEF chosen

LEMMA SelectionOpening == TypeOK /\ RowsInv /\ SelectionInv /\ Opening => SelectionInv'
<1> SUFFICES ASSUME TypeOK, RowsInv, SelectionInv, Opening PROVE SelectionInv'
  OBVIOUS
<1>1. ASSUME NEW request \in Requests, NewSession(request) PROVE SelectionInv'
  <2>1. session'.pc = "configure" /\ session.pc = "none"
    BY <1>1 DEF NewSession, TypeOK, SessionType, At
  <2> QED
    BY <1>1, <2>1, NothingKept DEF NewSession, Opened, Stored
<1>2. ASSUME NEW request \in Requests, Restore(request) PROVE SelectionInv'
  <2>1. session'.pc = "hydrate" /\ session.pc = "none"
    BY <1>2 DEF Restore, TypeOK, SessionType, At
  <2> QED
    BY <1>2, <2>1, NothingKept DEF Restore, Opened, Stored
<1>3. ASSUME Hydrate \/ HydrateFails PROVE SelectionInv'
  <2>1. session'.pc \in {"configure", "none"} /\ session.pc = "hydrate"
    BY <1>3, GoTypes DEF Hydrate, HydrateFails, Lives, At
  <2>2. store'.record = store.record
    BY <1>3 DEF Hydrate, HydrateFails, TypeOK, StoreType
  <2> QED
    BY <1>3, <2>1, <2>2, NothingKept DEF Hydrate, HydrateFails, Opened, Stored
<1>4. ASSUME Configure PROVE SelectionInv'
  <2> DEFINE chosen == Chosen(session.model, session.level)
  <2>1. /\ session'.pc = "commit" /\ session'.selection = chosen
        /\ session'.level = session.level /\ session.pc = "configure"
    BY <1>4 DEF Configure, TypeOK, SessionType, At
  <2>2. native'.selection = chosen
    BY <1>4, LoadedTypes DEF Configure, TypeOK, NativeType
  <2>3. /\ doubts'.native = {} /\ doubts'.told = doubts.told
        /\ doubts'.record = doubts.record
    BY <1>4 DEF Configure, TypeOK, DoubtsType
  <2>4. session.model \in Models \cup {None} /\ session.level \in Levels \cup {None}
    BY DEF TypeOK, SessionType
  <2>5. Clamped(chosen) /\ (session.level # None => Clamp(chosen.model, session.level) = chosen.level)
    BY <2>4, ChosenTypes, ChosenIsStable
  <2> HIDE DEF chosen
  <2>6. BeliefInv'
    BY <2>1, <2>2, <2>5, DifferingSelf DEF BeliefInv, Clamped, Clamp
  <2>7. ToldInv'
    BY <2>1, <2>3 DEF ToldInv, Stored
  <2>8. RecordInv'
    BY <1>4, <2>1, <2>3 DEF Configure, SelectionInv, RecordInv, Stored, Opened, At
  <2> QED
    BY <2>6, <2>7, <2>8 DEF SelectionInv
<1>5. ASSUME ConfigureFails PROVE SelectionInv'
  <2>1. session'.pc = "none" /\ session.pc = "configure"
    BY <1>5, GoTypes DEF ConfigureFails, Lives, At
  <2> QED
    BY <1>5, <2>1, NothingKept DEF ConfigureFails, Opened, Stored
<1>6. ASSUME OpeningCommits PROVE SelectionInv'
  <2>1. session'.pc = "answer" /\ session.pc = "commit" /\ Untouched
    BY <1>6, GoTypes DEF OpeningCommits, Untouched, Lives, At
  <2>2. /\ doubts'.native = doubts.native /\ doubts'.told = Untold
        /\ store'.record = session.selection /\ told' = told
    BY <1>6 DEF OpeningCommits, Commit, Recorded, TypeOK, DoubtsType
  <2>3. BeliefInv'
    BY <2>1, <2>2 DEF SelectionInv, BeliefInv, Untouched, Opened, Lives
  <2>4. ToldInv'
    BY <2>1, <2>2 DEF SelectionInv, ToldInv, Untouched, Untold
  <2>5. RecordInv'
    BY <2>1, <2>2, DifferingSelf DEF RecordInv, Untouched, At, Stored, Opened, Lives
  <2> QED
    BY <2>3, <2>4, <2>5 DEF SelectionInv
<1>7. ASSUME OpeningCommitFails PROVE SelectionInv'
  <2>1. session'.pc = "none" /\ session.pc = "commit"
    BY <1>7, GoTypes DEF OpeningCommitFails, Lives, At
  <2>2. /\ doubts'.native = doubts.native /\ doubts'.told = Untold
        /\ doubts'.record = doubts.record /\ told' = told
    BY <1>7 DEF OpeningCommitFails, TypeOK, DoubtsType
  <2>3. store'.record = store.record \/ store'.record = session.selection
    BY <1>7 DEF OpeningCommitFails, CommitFails, Commit
  <2>4. BeliefInv' /\ ToldInv'
    BY <2>1, <2>2 DEF SelectionInv, BeliefInv, ToldInv, Untold, Opened, Stored
  <2>5. RecordInv'
    BY <2>1, <2>2, <2>3 DEF SelectionInv, RecordInv, Untold, Stored, Opened, At
  <2> QED
    BY <2>4, <2>5 DEF SelectionInv
<1>8. ASSUME OpeningAnswers PROVE SelectionInv'
  <2>1. session'.pc = "ready" /\ session.pc = "answer" /\ Untouched
    BY <1>8, GoTypes DEF OpeningAnswers, Untouched, Lives, At
  <2>2. Differing(store'.record, session.selection) \subseteq doubts.record
    BY <1>8, <2>1 DEF OpeningAnswers, SelectionInv, RecordInv, Stored, Opened, Lives
  <2> QED
    BY <1>8, <2>1, <2>2, TellsKeeps
    DEF OpeningAnswers, SelectionInv, Stored, Opened, Lives, TypeOK
<1>9. ASSUME OpeningFails PROVE SelectionInv'
  <2>1. session'.pc = "close" /\ session.pc = "answer" /\ Untouched
    BY <1>9, GoTypes, PiEndsTouchesNothing DEF OpeningFails, Lives, At
  <2>2. BeliefInv' /\ ToldInv'
    BY <1>9, <2>1, UntouchedKeeps DEF OpeningFails, SelectionInv, Stored, Opened, Lives
  <2>3. RecordInv'
    BY <1>9, <2>1, CommitKeepsRecord DEF OpeningFails, Untouched, Stored, Opened, Lives
  <2> QED
    BY <2>2, <2>3 DEF SelectionInv
<1> QED
  BY <1>1, <1>2, <1>3, <1>4, <1>5, <1>6, <1>7, <1>8, <1>9 DEF Opening

LEMMA SelectionLive == TypeOK /\ RowsInv /\ SelectionInv /\ Live => SelectionInv'
<1> SUFFICES ASSUME TypeOK, RowsInv, SelectionInv, Live PROVE SelectionInv'
  OBVIOUS
<1>a. /\ session.selection \in Selections /\ native.selection \in Selections
      /\ doubts \in DoubtsType
  BY DEF TypeOK, SessionType, NativeType
<1>b. {"ready", "turn", "settle", "state", "record", "close"} \subseteq Stored
  BY DEF Stored, Opened, Lives
<1>c. Stored \subseteq Opened
  BY DEF Stored
<1>1. ASSUME NEW request \in Requests, Reuse(request) PROVE SelectionInv'
  <2>1. session'.pc = "ready" /\ session.pc = "ready" /\ Untouched
    BY <1>1 DEF Reuse, Untouched, At
  <2>2. Differing(store'.record, session.selection) \subseteq doubts.record
    BY <1>1, <1>b, <2>1 DEF Reuse, SelectionInv, RecordInv
  <2> QED
    BY <1>1, <1>a, <1>b, <1>c, <2>1, <2>2, TellsKeeps DEF Reuse, SelectionInv
<1>2. ASSUME Relaunch PROVE SelectionInv'
  <2> DEFINE chosen == Chosen(None, session.level)
  <2>1. /\ session'.pc = "ready" /\ session'.selection = chosen
        /\ session'.level = session.level /\ session.pc = "ready"
    BY <1>2 DEF Relaunch, TypeOK, SessionType, At
  <2>2. native'.selection = chosen
    BY <1>2, LoadedTypes DEF Relaunch, TypeOK, NativeType
  <2>3. /\ doubts'.native = {} /\ doubts'.told = Reset(doubts.told)
        /\ doubts'.record = doubts.record \cup Reset(doubts.native)
        /\ told' = told /\ store' = store
    BY <1>2 DEF Relaunch
  <2>4. session.level # None => Clamp(chosen.model, session.level) = chosen.level
    BY ChosenIsStable DEF TypeOK, SessionType
  <2>5. Differing(chosen, session.selection) \subseteq Reset(doubts.native) /\ Clamped(chosen)
    BY <1>b, <1>c, <2>1, RelaunchChooses DEF SelectionInv
  <2>6. Differing(session.selection, chosen) = Differing(chosen, session.selection)
    BY DEF Differing
  <2> HIDE DEF chosen
  <2>7. BeliefInv'
    BY <2>1, <2>2, <2>4, <2>5, DifferingSelf DEF BeliefInv, Clamped, Clamp
  <2>8. /\ doubts.native \subseteq doubts.told
        /\ told # None => Differing(session.selection, told) \subseteq doubts.told
        /\ Differing(store.record, session.selection) \subseteq doubts.record
    BY <1>b, <2>1 DEF SelectionInv, ToldInv, RecordInv
  <2>9. ToldInv'
    <3>1. Reset(doubts.native) \subseteq Reset(doubts.told) /\ doubts.told \subseteq Reset(doubts.told)
      BY <1>a, <2>8 DEF Reset, DoubtsType
    <3>2. told # None => Differing(chosen, told) \subseteq Reset(doubts.told)
      BY <2>5, <2>8, <3>1, DifferingTriangle
    <3> QED
      BY <2>1, <2>3, <3>2 DEF ToldInv
  <2>10. RecordInv'
    <3>1. Differing(store.record, chosen) \subseteq doubts.record \cup Reset(doubts.native)
      BY <2>5, <2>6, <2>8, DifferingTriangle
    <3> QED
      BY <1>b, <2>1, <2>3, <3>1 DEF RecordInv, At
  <2> QED
    BY <2>7, <2>9, <2>10 DEF SelectionInv
<1>3. ASSUME RelaunchFails PROVE SelectionInv'
  <2> DEFINE chosen == Chosen(None, session.level)
  <2>1. session'.pc = "ready" /\ session.pc = "ready" /\ session' = session
    BY <1>3 DEF RelaunchFails, At
  <2>2. native'.selection = native.selection \/ native'.selection = chosen
    BY <1>3 DEF RelaunchFails, TypeOK, NativeType
  <2>3. /\ doubts'.native = Reset(doubts.native) /\ doubts'.told = Reset(doubts.told)
        /\ doubts'.record = doubts.record /\ told' = told /\ store' = store
    BY <1>3, <1>a DEF RelaunchFails, DoubtsType
  <2>4. Differing(chosen, session.selection) \subseteq Reset(doubts.native) /\ Clamped(chosen)
    BY <1>b, <1>c, <2>1, RelaunchChooses DEF SelectionInv
  <2> HIDE DEF chosen
  <2>5. /\ doubts.native \subseteq Reset(doubts.native)
        /\ Reset(doubts.native) = {} => doubts.native = {}
        /\ doubts.told \subseteq Reset(doubts.told)
        /\ doubts.native \subseteq doubts.told => Reset(doubts.native) \subseteq Reset(doubts.told)
    BY <1>a DEF Reset, DoubtsType
  <2>6. BeliefInv'
    BY <1>b, <1>c, <2>1, <2>2, <2>3, <2>4, <2>5 DEF SelectionInv, BeliefInv, Clamped, Clamp
  <2>7. ToldInv' /\ RecordInv'
    BY <1>b, <2>1, <2>3, <2>5 DEF SelectionInv, ToldInv, RecordInv, At
  <2> QED
    BY <2>6, <2>7 DEF SelectionInv
<1>4. ASSUME Prompt \/ PiSettles \/ TurnIsLost PROVE SelectionInv'
  <2>1. /\ session'.pc \in {"turn", "settle", "ready"} /\ Untouched
        /\ session.pc \in {"turn", "ready"}
    BY <1>4, GoTypes DEF Prompt, PiSettles, TurnIsLost, Untouched, Lives, At
  <2>2. told' = told /\ doubts' = doubts /\ store' = store
    BY <1>4 DEF Prompt, PiSettles, TurnIsLost
  <2>3. BeliefInv' /\ ToldInv'
    BY <1>b, <1>c, <2>1, <2>2, UntouchedKeeps DEF SelectionInv
  <2>4. RecordInv'
    BY <1>b, <2>1, <2>2, CommitKeepsRecord DEF Untouched
  <2> QED
    BY <2>3, <2>4 DEF SelectionInv
<1>5. ASSUME TurnCommits \/ TurnCommitFails \/ Close \/ CloseCommits PROVE SelectionInv'
  <2>1. /\ session'.pc \in {"ready", "close", "none"} /\ Untouched
        /\ session.pc \in {"settle", "ready", "close"}
    BY <1>5, GoTypes, PiEndsTouchesNothing
    DEF TurnCommits, TurnCommitFails, Close, CloseCommits, Untouched, Lives, At
  <2>2. /\ told' = told /\ doubts'.native = doubts.native /\ doubts'.told = doubts.told
        /\ Commit \/ (UNCHANGED store /\ doubts'.record = doubts.record)
    BY <1>5, <1>a
    DEF TurnCommits, TurnCommitFails, Close, CloseCommits, CommitFails, Recorded, DoubtsType
  <2>3. BeliefInv' /\ ToldInv'
    BY <1>b, <1>c, <2>1, <2>2, UntouchedKeeps DEF SelectionInv
  <2>4. RecordInv'
    BY <1>b, <2>1, <2>2, CommitKeepsRecord DEF Untouched
  <2> QED
    BY <2>3, <2>4 DEF SelectionInv
<1>6. ASSUME NEW request \in Asked, SetSelection(request) PROVE SelectionInv'
  <2>1. /\ session'.pc = "state" /\ session.pc = "ready"
        /\ session'.selection = [session.selection EXCEPT
             !.model = Or(request.model, session.selection.model)]
    BY <1>6 DEF SetSelection, TypeOK, SessionType, At
  <2>2. native'.selection = Chosen(request.model, request.level)
    BY <1>6 DEF SetSelection, TypeOK, NativeType
  <2>3. /\ doubts'.native = (IF request.model = None THEN doubts.native ELSE {}) \cup {"level"}
        /\ doubts'.record = doubts.record \cup Touched(request)
        /\ doubts'.told = doubts.told \cup Touched(request)
        /\ told' = told /\ store' = store
    BY <1>6 DEF SetSelection
  <2>4. Clamped(native'.selection) /\ native'.selection \in Selections
    BY <2>2, AskedTypes, ChosenTypes
  <2>5. /\ native'.selection.model = Or(request.model, native.selection.model)
        /\ session'.selection.model = Or(request.model, session.selection.model)
        /\ session'.selection.level = session.selection.level
        /\ session'.selection \in Selections
    BY <1>a, <2>1, <2>2, AskedTypes DEF Chosen, Selections, Or
  <2>6. "level" \in Touched(request) /\ (request.model # None => "model" \in Touched(request))
    BY DEF Touched, Fields
  <2>7. Differing(native'.selection, session'.selection) \subseteq doubts'.native
    <3>1. "model" \notin doubts.native => native.selection.model = session.selection.model
      BY <1>a, <1>b, <1>c, <2>1, DifferingFields DEF SelectionInv, BeliefInv
    <3> QED
      BY <2>3, <2>4, <2>5, <3>1, DifferingFields DEF Or, Fields
  <2>8. BeliefInv'
    BY <1>a, <2>3, <2>4, <2>7 DEF BeliefInv
  <2>9. Differing(session.selection, session'.selection) \subseteq Touched(request)
    BY <1>a, <2>5, <2>6, DifferingFields DEF Or, Fields
  <2>10. Differing(session'.selection, session.selection) \subseteq Touched(request)
    BY <2>9 DEF Differing
  <2>11. ToldInv'
    <3>1. told # None => Differing(session.selection, told) \subseteq doubts.told
      BY <1>b, <2>1 DEF SelectionInv, ToldInv
    <3>2. told # None => Differing(session'.selection, told) \subseteq doubts'.told
      BY <2>3, <2>10, <3>1, DifferingTriangle
    <3> QED
      BY <2>3, <2>6, <3>2 DEF SelectionInv, ToldInv
  <2>12. RecordInv'
    <3>1. Differing(store.record, session.selection) \subseteq doubts.record
      BY <1>b, <2>1 DEF SelectionInv, RecordInv
    <3>2. Differing(store.record, session'.selection) \subseteq doubts'.record
      BY <2>3, <2>9, <3>1, DifferingTriangle
    <3> QED
      BY <1>b, <2>1, <2>3, <2>6, <3>2 DEF RecordInv, At
  <2> QED
    BY <2>8, <2>11, <2>12 DEF SelectionInv
<1>7. ASSUME NEW request \in Asked, SetSelectionLost(request) PROVE SelectionInv'
  <2>1. session' = session /\ session.pc = "ready" /\ told' = told /\ store' = store
    BY <1>7 DEF SetSelectionLost, At
  <2>2. \/ native'.selection = native.selection
        \/ native'.selection = Chosen(request.model, request.level)
    BY <1>7 DEF SetSelectionLost, TypeOK, NativeType
  <2>3. /\ doubts'.native = doubts.native \cup Touched(request)
        /\ doubts'.told = doubts.told \cup Touched(request)
        /\ doubts'.record = doubts.record
    BY <1>7, <1>a DEF SetSelectionLost, DoubtsType
  <2>4. "level" \in Touched(request) /\ (request.model # None => "model" \in Touched(request))
    BY DEF Touched, Fields
  <2>5. /\ Chosen(request.model, request.level) \in Selections
        /\ Clamped(Chosen(request.model, request.level))
    BY AskedTypes, ChosenTypes
  <2>6. Chosen(request.model, request.level).model = Or(request.model, native.selection.model)
    BY DEF Chosen
  <2>7. Differing(native'.selection, session.selection) \subseteq doubts'.native
    <3>1. Differing(native.selection, session.selection) \subseteq doubts.native
      BY <1>b, <1>c, <2>1 DEF SelectionInv, BeliefInv
    <3>2. CASE native'.selection = native.selection
      BY <2>3, <3>1, <3>2
    <3>3. CASE native'.selection = Chosen(request.model, request.level)
      <4>1. request.model = None => native'.selection.model = native.selection.model
        BY <2>6, <3>3 DEF Or
      <4> QED
        BY <1>a, <2>3, <2>4, <2>5, <3>1, <3>3, <4>1, DifferingFields DEF Fields
    <3> QED
      BY <2>2, <3>2, <3>3
  <2>8. Clamped(native'.selection)
    BY <1>b, <1>c, <2>1, <2>2, <2>5 DEF SelectionInv, BeliefInv
  <2>9. BeliefInv'
    BY <2>1, <2>3, <2>4, <2>7, <2>8 DEF BeliefInv
  <2>10. ToldInv' /\ RecordInv'
    BY <1>b, <2>1, <2>3 DEF SelectionInv, ToldInv, RecordInv, At
  <2> QED
    BY <2>9, <2>10 DEF SelectionInv
<1>8. ASSUME ReadState PROVE SelectionInv'
  <2>1. /\ session'.pc = "record" /\ session'.level = native.selection.level
        /\ session'.selection = [session.selection EXCEPT !.level = native.selection.level]
        /\ session.pc = "state"
    BY <1>8 DEF ReadState, TypeOK, SessionType, At
  <2>2. /\ doubts'.native = doubts.native \ {"level"} /\ doubts'.told = doubts.told
        /\ doubts'.record = doubts.record /\ native' = native /\ told' = told /\ store' = store
    BY <1>8, <1>a DEF ReadState, DoubtsType
  <2>3. /\ session'.selection.model = session.selection.model
        /\ session'.selection.level = native.selection.level
        /\ session'.selection \in Selections
    BY <1>a, <2>1 DEF Selections
  <2>4. /\ Clamped(native.selection)
        /\ "model" \notin doubts.native => native.selection.model = session.selection.model
    BY <1>a, <1>b, <1>c, <2>1, DifferingFields DEF SelectionInv, BeliefInv
  <2>5. Differing(native.selection, session'.selection) \subseteq doubts'.native
    BY <1>a, <2>2, <2>3, <2>4, DifferingFields DEF Fields
  <2>6. BeliefInv'
    <3>1. doubts'.native = {} => "model" \notin doubts.native
      BY <2>2
    <3> QED
      BY <2>1, <2>2, <2>3, <2>4, <2>5, <3>1 DEF BeliefInv, Clamped, Clamp
  <2>7. /\ Differing(session.selection, session'.selection) \subseteq {"level"}
        /\ Differing(session'.selection, session.selection) \subseteq {"level"}
    BY <1>a, <2>3, DifferingFields DEF Fields
  <2>8. "level" \in doubts.told /\ "level" \in doubts.record
    BY <2>1 DEF SelectionInv, ToldInv, RecordInv, At
  <2>9. /\ told # None => Differing(session.selection, told) \subseteq doubts.told
        /\ Differing(store.record, session.selection) \subseteq doubts.record
        /\ doubts.native \subseteq doubts.told
    BY <1>b, <2>1 DEF SelectionInv, ToldInv, RecordInv
  <2>10. /\ told # None => Differing(session'.selection, told) \subseteq doubts.told
         /\ Differing(store.record, session'.selection) \subseteq doubts.record
    BY <2>7, <2>8, <2>9, DifferingTriangle
  <2>11. ToldInv' /\ RecordInv'
    BY <1>b, <2>1, <2>2, <2>9, <2>10 DEF ToldInv, RecordInv, At
  <2> QED
    BY <2>6, <2>11 DEF SelectionInv
<1>9. ASSUME ReadStateFails PROVE SelectionInv'
  <2>1. session'.pc = "ready" /\ session.pc = "state" /\ Untouched
    BY <1>9, GoTypes DEF ReadStateFails, Untouched, Lives, At
  <2>2. told' = told /\ doubts' = doubts /\ store' = store
    BY <1>9 DEF ReadStateFails
  <2>3. BeliefInv' /\ ToldInv'
    BY <1>b, <1>c, <2>1, <2>2, UntouchedKeeps DEF SelectionInv
  <2>4. RecordInv'
    BY <1>b, <2>1, <2>2 DEF SelectionInv, RecordInv, Untouched, At
  <2> QED
    BY <2>3, <2>4 DEF SelectionInv
<1>10. ASSUME SelectionCommits PROVE SelectionInv'
  <2>1. session'.pc = "ready" /\ session.pc = "record" /\ Untouched
    BY <1>10, GoTypes DEF SelectionCommits, Untouched, Lives, At
  <2>2. Differing(store'.record, session.selection) = {}
    BY <1>10, DifferingSelf DEF SelectionCommits, Commit
  <2>3. Recorded \in DoubtsType /\ Recorded.native = doubts.native
    BY <1>a, DoubtsTypes DEF Recorded, DoubtsType
  <2> QED
    BY <1>10, <1>b, <1>c, <2>1, <2>2, <2>3, TellsKeeps DEF SelectionCommits, SelectionInv
<1>11. ASSUME SelectionCommitFails PROVE SelectionInv'
  <2>1. session'.pc = "ready" /\ session.pc = "record" /\ Untouched
    BY <1>11, GoTypes DEF SelectionCommitFails, Untouched, Lives, At
  <2>2. told' = told /\ doubts' = doubts /\ (Commit \/ UNCHANGED store)
    BY <1>11 DEF SelectionCommitFails, CommitFails
  <2>3. BeliefInv' /\ ToldInv'
    BY <1>b, <1>c, <2>1, <2>2, UntouchedKeeps DEF SelectionInv
  <2>4. RecordInv'
    BY <1>b, <2>1, <2>2, CommitKeepsRecord DEF Untouched
  <2> QED
    BY <2>3, <2>4 DEF SelectionInv
<1> QED
  BY <1>1, <1>2, <1>3, <1>4, <1>5, <1>6, <1>7, <1>8, <1>9, <1>10, <1>11 DEF Live

LEMMA SelectionElsewhere ==
  TypeOK /\ RowsInv /\ SelectionInv /\ Elsewhere => SelectionInv'
<1> SUFFICES ASSUME TypeOK, RowsInv, SelectionInv, Elsewhere PROVE SelectionInv'
  OBVIOUS
<1>1. ASSUME PiDies PROVE SelectionInv'
  <2>1. native'.selection = native.selection /\ session' = session
    BY <1>1, PiEndsKeepsRows DEF PiDies
  <2> QED
    BY <1>1, <2>1 DEF PiDies, SelectionInv, BeliefInv, ToldInv, RecordInv, At
<1>2. ASSUME AdapterDies PROVE SelectionInv'
  <2>1. session'.pc = "none" /\ told' = told /\ doubts' = doubts /\ store' = store
    BY <1>2, GoTypes DEF AdapterDies, Lives
  <2>2. BeliefInv' /\ ToldInv'
    BY <2>1 DEF SelectionInv, BeliefInv, ToldInv, Opened, Stored
  <2>3. RecordInv'
    <3>1. CASE session.pc \in Stored
      <4>1. /\ told # None => Differing(session.selection, told) \subseteq doubts.told
            /\ Differing(store.record, session.selection) \subseteq doubts.record
        BY <3>1 DEF SelectionInv, ToldInv, RecordInv
      <4>2. told # None => Differing(store.record, told) \subseteq doubts.told \cup doubts.record
        BY <4>1, DifferingTriangle
      <4> QED
        BY <2>1, <4>2 DEF RecordInv, Stored, Opened, At
    <3>2. CASE session.pc \notin Stored
      BY <2>1, <3>2 DEF SelectionInv, RecordInv, Stored, Opened, At
    <3> QED
      BY <3>1, <3>2
  <2> QED
    BY <2>2, <2>3 DEF SelectionInv
<1>3. ASSUME FileLosesRows \/ \E content \in Contents : PiAppends(content) \/ FileGainsRow(content)
      PROVE SelectionInv'
  <2>1. native'.selection = native.selection /\ session' = session
    BY <1>3 DEF FileLosesRows, PiAppends, FileGainsRow, TypeOK, NativeType
  <2>2. told' = told /\ doubts' = doubts /\ store' = store
    BY <1>3 DEF FileLosesRows, PiAppends, FileGainsRow
  <2> QED
    BY <2>1, <2>2 DEF SelectionInv, BeliefInv, ToldInv, RecordInv, At
<1>4. ASSUME NEW selection \in Selections, PiSwitches(selection) PROVE SelectionInv'
  <2> DEFINE switched == Differing(selection, native.selection)
  <2>1. /\ native'.selection = selection /\ session' = session
        /\ told' = told /\ store' = store /\ Clamped(selection)
    BY <1>4 DEF PiSwitches, TypeOK, NativeType, Clamped
  <2>2. /\ doubts'.native = doubts.native \cup switched
        /\ doubts'.told = doubts.told \cup switched /\ doubts'.record = doubts.record
    BY <1>4 DEF PiSwitches, TypeOK, DoubtsType
  <2>3. BeliefInv'
    <3> HIDE DEF switched
    <3>1. doubts'.native = {} => doubts.native = {}
      BY <2>2
    <3>2. Differing(native.selection, session.selection) \subseteq doubts.native
          => Differing(selection, session.selection) \subseteq doubts'.native
      BY <2>2, DifferingTriangle DEF switched
    <3> QED
      BY <2>1, <3>1, <3>2 DEF SelectionInv, BeliefInv
  <2>4. ToldInv' /\ RecordInv'
    <3> HIDE DEF switched
    <3> QED
      BY <2>1, <2>2 DEF SelectionInv, ToldInv, RecordInv, At
  <2> QED
    BY <2>3, <2>4 DEF SelectionInv
<1> QED
  BY <1>1, <1>2, <1>3, <1>4 DEF Elsewhere

LEMMA SelectionStep == TypeOK /\ RowsInv /\ SelectionInv /\ [Next]_vars => SelectionInv'
<1>1. SelectionInv /\ UNCHANGED vars => SelectionInv'
  BY DEF vars, SelectionInv, BeliefInv, ToldInv, RecordInv, At
<1> QED
  BY <1>1, StepIsNamed, SelectionOpening, SelectionLive, SelectionElsewhere

-----------------------------------------------------------------------------
(* The results.                                                            *)

LEMMA InitIInv == Init => IInv
<1> SUFFICES ASSUME Init PROVE IInv
  OBVIOUS
<1>1. TypeOK
  <2>1. native \in NativeType /\ session \in SessionType
    BY EmptyRows DEF Init, NativeType, SessionType
  <2>2. store \in StoreType /\ acked \in Rows /\ doubts \in DoubtsType
    BY EmptyRows DEF Init, StoreType, DoubtsType
  <2> QED
    BY <2>1, <2>2 DEF Init, TypeOK
<1>2. PrefixOf(<<>>, <<>>)
  BY EmptyRows, PrefixSelf
<1>3. RowsInv
  BY <1>2, EmptyRows DEF Init, RowsInv, StoreInv, FileInv, AckedRowsStand, At
<1>4. SelectionInv
  BY DEF Init, SelectionInv, BeliefInv, ToldInv, RecordInv, Opened, Stored, At
<1> QED
  BY <1>1, <1>3, <1>4 DEF IInv

LEMMA IInvStep == IInv /\ [Next]_vars => IInv'
BY TypeStep, RowsStep, SelectionStep DEF IInv, RowsInv

(* Every variable keeps its type, for any catalog, levels, contents and    *)
(* bound.                                                                  *)
THEOREM StoreTypes == Spec => []TypeOK
<1>1. IInv => TypeOK
  BY DEF IInv
<1> QED
  BY <1>1, InitIInv, IInvStep, PTL DEF Spec

(* AckedRowsStand: no acknowledged row is lost and no torn line becomes a  *)
(* row, whatever fails in whichever order.                                 *)
THEOREM AckedRowsAlwaysStand == Spec => []AckedRowsStand
<1>1. IInv => AckedRowsStand
  BY DEF IInv, RowsInv
<1> QED
  BY <1>1, InitIInv, IInvStep, PTL DEF Spec

(* SelectionStands: but for what pi or an unanswered request may have      *)
(* changed since, and what could not be stored, what the client was told is*)
(* what pi runs under and what a restore brings back.                      *)
THEOREM SelectionAlwaysStands == Spec => []SelectionStands
<1>1. IInv => SelectionStands
  <2> SUFFICES ASSUME SelectionInv, told # None PROVE SelectionStands
    BY DEF IInv, SelectionStands
  <2>1. ASSUME session.pc \in {"ready", "turn", "settle"}
        PROVE  Differing(native.selection, told) \subseteq doubts.told
    <3>1. session.pc \in Stored /\ session.pc \in Opened
      BY <2>1 DEF Stored, Opened, Lives
    <3>2. /\ Differing(native.selection, session.selection) \subseteq doubts.told
          /\ Differing(session.selection, told) \subseteq doubts.told
      BY <3>1 DEF SelectionInv, BeliefInv, ToldInv
    <3> QED
      BY <3>2, DifferingTriangle
  <2>2. ASSUME At("none")
        PROVE  Differing(store.record, told) \subseteq doubts.told \cup doubts.record
    BY <2>2 DEF SelectionInv, RecordInv, Stored, Opened, At
  <2> QED
    BY <2>1, <2>2 DEF SelectionStands
<1> QED
  BY <1>1, InitIInv, IInvStep, PTL DEF Spec

=============================================================================
