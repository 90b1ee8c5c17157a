----------------------- MODULE SessionForegroundProofs -----------------------
(* What becomes of a foreground of Session, a prompt or an agent-origin    *)
(* cycle, for every choice of prompts, runs, controls and bounds: no       *)
(* interrupt outlives its terminal idle, a cycle that reaches its own      *)
(* incarnation is stored, and that incarnation gets one idle.              *)
EXTENDS SessionProofs

-----------------------------------------------------------------------------
(* A run is opened once.  pi writes one start of a run; wherever that      *)
(* record is on its way to the foreground, it is there once, and a cycle   *)
(* that was opened has no start left to open it again.                     *)

Start(r) == [kind |-> "start", run |-> r]

Spots == {"rec", "hold", "todo", "out"}

(* The records of a generation that are still to handle, by where they are.*)
Pile(g) ==
  [rec  |-> IF pumps[g].pc = "route" THEN <<pumps[g].rec>> ELSE <<>>,
   hold |-> pumps[g].hold,
   todo |-> pumps[g].todo,
   out  |-> pi[g].out]

StartsIn(s, r) == \E i \in DOMAIN s : s[i] = Start(r)

Once(s, r) == \A i, j \in DOMAIN s : s[i] = Start(r) /\ s[j] = Start(r) => i = j

Has(g, w, r) == StartsIn(Pile(g)[w], r)

Pending(r) == \E g \in Gens : \E w \in Spots : Has(g, w, r)

StartsOnce ==
  \A r \in Runs : \A g \in Gens : \A v \in Spots :
    /\ Once(Pile(g)[v], r)
    /\ \A h \in Gens : \A w \in Spots :
         Has(g, v, r) /\ Has(h, w, r) => g = h /\ v = w

(* How the operators on sequences move a start.                            *)
LEMMA AppendStarts ==
  ASSUME NEW s \in Seq(Record), NEW x \in Record, NEW r
  PROVE  /\ StartsIn(Append(s, x), r) <=> StartsIn(s, r) \/ x = Start(r)
         /\ Once(s, r) /\ (x = Start(r) => ~StartsIn(s, r)) => Once(Append(s, x), r)
<1> DEFINE q == Append(s, x)
<1>1. /\ DOMAIN s = 1 .. Len(s) /\ Len(s) \in Nat
      /\ DOMAIN q = 1 .. (Len(s) + 1)
      /\ \A i \in 1 .. Len(s) : q[i] = s[i]
      /\ q[Len(s) + 1] = x
  OBVIOUS
<1> HIDE DEF q
<1>2. \A i \in DOMAIN q : i \in DOMAIN s \/ i = Len(s) + 1
  BY <1>1
<1>3. StartsIn(q, r) <=> StartsIn(s, r) \/ x = Start(r)
  <2>1. ASSUME StartsIn(q, r)
        PROVE  StartsIn(s, r) \/ x = Start(r)
    BY <1>1, <1>2, <2>1 DEF StartsIn
  <2>2. ASSUME StartsIn(s, r)
        PROVE  StartsIn(q, r)
    BY <1>1, <2>2 DEF StartsIn
  <2>3. ASSUME x = Start(r)
        PROVE  StartsIn(q, r)
    <3>1. Len(s) + 1 \in DOMAIN q
      BY <1>1
    <3> QED BY <1>1, <2>3, <3>1 DEF StartsIn
  <2> QED BY <2>1, <2>2, <2>3
<1>4. ASSUME Once(s, r), x = Start(r) => ~StartsIn(s, r)
      PROVE  Once(q, r)
  <2> SUFFICES ASSUME NEW i \in DOMAIN q, NEW j \in DOMAIN q,
                      q[i] = Start(r), q[j] = Start(r)
               PROVE  i = j
    BY DEF Once
  <2> QED BY <1>1, <1>2, <1>4 DEF Once, StartsIn
<1> QED BY <1>3, <1>4 DEF q

(* A tail has the starts of its sequence but the head.                     *)
LEMMA TailStarts ==
  ASSUME NEW s \in Seq(Record), s # <<>>, NEW r
  PROVE  /\ StartsIn(Tail(s), r) => StartsIn(s, r)
         /\ Head(s) = Start(r) => StartsIn(s, r)
         /\ Once(s, r) => Once(Tail(s), r)
         /\ Once(s, r) /\ Head(s) = Start(r) => ~StartsIn(Tail(s), r)
<1> DEFINE q == Tail(s)
<1>1. /\ DOMAIN s = 1 .. Len(s) /\ Len(s) \in Nat /\ Len(s) # 0
      /\ DOMAIN q = 1 .. (Len(s) - 1)
      /\ \A i \in 1 .. (Len(s) - 1) : q[i] = s[i + 1]
      /\ Head(s) = s[1]
  OBVIOUS
<1> HIDE DEF q
<1>2. \A i \in DOMAIN q : i + 1 \in DOMAIN s /\ i \in Nat /\ q[i] = s[i + 1] /\ i + 1 # 1
  BY <1>1
<1>3. 1 \in DOMAIN s
  BY <1>1
<1>4. Once(s, r) => Once(q, r)
  <2> SUFFICES ASSUME Once(s, r), NEW i \in DOMAIN q, NEW j \in DOMAIN q,
                      q[i] = Start(r), q[j] = Start(r)
               PROVE  i = j
    BY DEF Once
  <2>1. i + 1 = j + 1
    BY <1>2 DEF Once
  <2> QED BY <1>2, <2>1
<1>5. Once(s, r) /\ Head(s) = Start(r) => ~StartsIn(q, r)
  BY <1>1, <1>2, <1>3 DEF Once, StartsIn
<1>6. StartsIn(q, r) => StartsIn(s, r)
  BY <1>2 DEF StartsIn
<1>7. Head(s) = Start(r) => StartsIn(s, r)
  BY <1>1, <1>3 DEF StartsIn
<1> QED BY <1>4, <1>5, <1>6, <1>7 DEF q

(* Two sequences joined have the starts of both.                           *)
LEMMA JoinedStarts ==
  ASSUME NEW s \in Seq(Record), NEW q \in Seq(Record), NEW r
  PROVE  /\ StartsIn(s \o q, r) => StartsIn(s, r) \/ StartsIn(q, r)
         /\ Once(s, r) /\ Once(q, r) /\ ~(StartsIn(s, r) /\ StartsIn(q, r))
              => Once(s \o q, r)
<1> DEFINE b == s \o q
<1>1. /\ DOMAIN s = 1 .. Len(s) /\ Len(s) \in Nat
      /\ DOMAIN q = 1 .. Len(q) /\ Len(q) \in Nat
      /\ DOMAIN b = 1 .. (Len(s) + Len(q))
      /\ \A i \in 1 .. (Len(s) + Len(q)) :
           b[i] = IF i <= Len(s) THEN s[i] ELSE q[i - Len(s)]
  OBVIOUS
<1> HIDE DEF b
<1>2. \A i \in DOMAIN b :
        /\ i \in Nat
        /\ \/ i \in DOMAIN s /\ b[i] = s[i]
           \/ i - Len(s) \in DOMAIN q /\ b[i] = q[i - Len(s)]
  BY <1>1
<1>3. StartsIn(b, r) => StartsIn(s, r) \/ StartsIn(q, r)
  BY <1>2 DEF StartsIn
<1>4. ASSUME Once(s, r), Once(q, r), ~(StartsIn(s, r) /\ StartsIn(q, r))
      PROVE  Once(b, r)
  <2> SUFFICES ASSUME NEW i \in DOMAIN b, NEW j \in DOMAIN b,
                      b[i] = Start(r), b[j] = Start(r)
               PROVE  i = j
    BY DEF Once
  <2>1. CASE i \in DOMAIN s /\ b[i] = s[i] /\ j \in DOMAIN s /\ b[j] = s[j]
    BY <1>4, <2>1 DEF Once
  <2>2. CASE /\ i - Len(s) \in DOMAIN q /\ b[i] = q[i - Len(s)]
             /\ j - Len(s) \in DOMAIN q /\ b[j] = q[j - Len(s)]
    <3>1. i - Len(s) = j - Len(s)
      BY <1>4, <2>2 DEF Once
    <3> QED BY <1>1, <1>2, <3>1
  <2>3. ASSUME NEW k \in DOMAIN s, s[k] = Start(r),
               NEW l \in DOMAIN q, q[l] = Start(r)
        PROVE  FALSE
    BY <1>4, <2>3 DEF StartsIn
  <2> QED BY <1>2, <2>1, <2>2, <2>3
<1> QED BY <1>3, <1>4 DEF b

(* Nothing starts in an empty sequence, and a single record starts once.   *)
LEMMA ShortStarts ==
  ASSUME NEW r
  PROVE  /\ ~StartsIn(<<>>, r) /\ Once(<<>>, r)
         /\ \A x : /\ StartsIn(<<x>>, r) <=> x = Start(r)
                   /\ Once(<<x>>, r)
<1>1. ~StartsIn(<<>>, r) /\ Once(<<>>, r)
  BY DEF StartsIn, Once
<1>2. ASSUME NEW x
      PROVE  /\ StartsIn(<<x>>, r) <=> x = Start(r)
             /\ Once(<<x>>, r)
  <2>1. DOMAIN <<x>> = {1} /\ <<x>>[1] = x
    OBVIOUS
  <2> QED BY <2>1 DEF StartsIn, Once
<1> QED BY <1>1, <1>2

-----------------------------------------------------------------------------
(* How a step moves the records.                                           *)

(* A pile stays as it was or is dropped.                                   *)
PileKept(g, w) == Pile(g)'[w] \in {Pile(g)[w], <<>>}

PilesKept == \A g \in Gens : \A w \in Spots : PileKept(g, w)

(* The records of a generation are sequences of records.                   *)
LEMMA PileType ==
  ASSUME TypeInv, NEW g \in Gens, NEW w \in Spots
  PROVE  Pile(g)[w] \in Seq(Record)
<1>1. /\ pumps[g].hold \in Seq(Record) /\ pumps[g].todo \in Seq(Record)
      /\ pi[g].out \in Seq(Record)
  BY DEF TypeInv, TypeOK, PumpType, PiType
<1>2. pumps[g].pc = "route" => <<pumps[g].rec>> \in Seq(Record)
  BY DEF TypeInv, PumpOwns, Owns
<1>3. <<>> \in Seq(Record)
  BY EmptySeq
<1>4. CASE w = "rec"
  <2>1. Pile(g)[w] = IF pumps[g].pc = "route" THEN <<pumps[g].rec>> ELSE <<>>
    BY <1>4 DEF Pile
  <2> QED BY <1>2, <1>3, <2>1
<1>5. CASE w # "rec"
  <2>1. Pile(g)[w] \in {pumps[g].hold, pumps[g].todo, pi[g].out}
    BY <1>5 DEF Pile, Spots
  <2> QED BY <1>1, <2>1
<1> QED BY <1>4, <1>5

(* Only the pump and pi touch the records.                                 *)
LEMMA SamePiles ==
  ASSUME pumps' = pumps, pi' = pi
  PROVE  PilesKept
  BY DEF PilesKept, PileKept, Pile

(* A pump that moves on without a record at hand keeps the others' piles.  *)
LEMMA PumpPile ==
  ASSUME TypeOK, NEW g \in Gens, NEW q, q.pc # "route",
         pumps' = [pumps EXCEPT ![g] = q]
  PROVE  /\ \A h \in Gens \ {g} : pumps'[h] = pumps[h]
         /\ Pile(g)' = [rec |-> <<>>, hold |-> q.hold, todo |-> q.todo,
                        out |-> pi'[g].out]
<1>1. \A h \in Gens \ {g} : pumps'[h] = pumps[h]
  BY DEF TypeOK
<1>2. pumps'[g] = q
  BY DEF TypeOK
<1> QED BY <1>1, <1>2 DEF Pile

(* So does one that also drops what it held.                              *)
LEMMA QuietPump ==
  ASSUME TypeOK, NEW g \in Gens, NEW q, q.pc # "route", pi' = pi,
         pumps' = [pumps EXCEPT ![g] = q],
         q.hold \in {pumps[g].hold, <<>>}, q.todo = pumps[g].todo
  PROVE  PilesKept
<1>1. /\ \A h \in Gens \ {g} : pumps'[h] = pumps[h]
      /\ Pile(g)' = [rec |-> <<>>, hold |-> q.hold, todo |-> q.todo,
                     out |-> pi'[g].out]
  BY PumpPile
<1>2. ASSUME NEW w \in Spots PROVE PileKept(g, w)
  BY <1>1 DEF PileKept, Pile, Spots
<1>3. ASSUME NEW h \in Gens \ {g}, NEW w \in Spots PROVE PileKept(h, w)
  BY <1>1 DEF PileKept, Pile
<1> QED BY <1>2, <1>3 DEF PilesKept

(* The pump's steps that neither read, hold nor deliver a record.          *)
LEMMA PumpKeepsPiles ==
  ASSUME TypeOK, NEW g \in Gens, PumpStep(g), ~PumpRead(g), ~PumpHold(g),
         ~PumpHoldDone(g), ~CycleClear(g)
  PROVE  PilesKept
<1>1. pumps[g] \in PumpType
  BY DEF TypeOK
<1>2. ASSUME NEW p, p # "route", PumpAt(g, p), pi' = pi
      PROVE  PilesKept
  BY <1>1, <1>2, QuietPump DEF PumpAt, PumpType
<1>3. ASSUME PumpRests(g), pi' = pi
      PROVE  PilesKept
  BY <1>1, <1>3, QuietPump DEF PumpRests, Rested, PumpType
<1>4. CASE PumpRoute(g)
  BY <1>2, <1>3, <1>4 DEF PumpRoute, RouteToTurn, RouteToCycle, OpenAgentCycle
<1>5. CASE PumpHoldLost(g)
  <2> DEFINE q == IF pumps[g].pc = "hold" THEN Rested(pumps[g], pumps[g].todo)
                  ELSE [pumps[g] EXCEPT !.pc = "cycleCommit", !.hold = <<>>]
  <2>1. q.pc # "route" /\ q.hold = <<>> /\ q.todo = pumps[g].todo
    BY <1>1 DEF Rested, PumpType
  <2>2. pumps' = [pumps EXCEPT ![g] = q] /\ pi' = pi
    BY <1>5 DEF PumpHoldLost
  <2> HIDE DEF q
  <2> QED BY <2>1, <2>2, QuietPump
<1>6. CASE RuntimeEnded(g) \/ EndRelease(g)
  BY <1>1, <1>6, QuietPump DEF RuntimeEnded, EndRelease, PumpType
<1>7. CASE CycleJoin(g)
  BY <1>2, <1>7 DEF CycleJoin
<1>8. CASE \E p : p # "route" /\ PumpAt(g, p) /\ pi' = pi
  BY <1>2, <1>8
<1> QED BY <1>4, <1>5, <1>6, <1>7, <1>8
        DEF PumpStep, CycleSettle, CycleStats, CycleCommit, CycleFence,
            CycleDrop, CycleIdle, EndJoin, EndUnbind

(* A pump that is bound reads nothing yet.                                 *)
LEMMA BindKeepsPiles ==
  ASSUME TypeOK, NEW o \in Ops, Bind(o)
  PROVE  PilesKept
<1>1. CASE pumps' = pumps
  BY <1>1, SamePiles DEF Bind
<1>2. CASE pumps' # pumps
  <2> DEFINE g == op[o].at
  <2>1. PumpAt(g, "read") /\ pi' = pi
    BY <1>2 DEF Bind, PumpAt
  <2>2. CASE g \in Gens
    <3> DEFINE q == [pumps[g] EXCEPT !.pc = "read"]
    <3>1. q.pc # "route" /\ q.hold = pumps[g].hold /\ q.todo = pumps[g].todo
      BY <2>2 DEF TypeOK, PumpType
    <3>2. pumps' = [pumps EXCEPT ![g] = q] /\ pi' = pi
      BY <2>1 DEF PumpAt
    <3> HIDE DEF q, g
    <3> QED BY <2>2, <3>1, <3>2, QuietPump
  <2>3. CASE g \notin Gens
    <3>1. pumps' = pumps
      BY <2>1, <2>3 DEF PumpAt, TypeOK
    <3> QED BY <1>2, <3>1
  <2> QED BY <2>2, <2>3
<1> QED BY <1>1, <1>2

-----------------------------------------------------------------------------
(* A record passes from one spot to another of its generation.             *)

Passes(g, v, w) ==
  /\ \A h \in Gens : \A x \in Spots :
       ~(h = g /\ x \in {v, w}) => PileKept(h, x)
  /\ \A r \in Runs :
       /\ StartsIn(Pile(g)'[v], r) => StartsIn(Pile(g)[v], r)
       /\ StartsIn(Pile(g)'[w], r) =>
            \/ StartsIn(Pile(g)[w], r)
            \/ StartsIn(Pile(g)[v], r) /\ ~StartsIn(Pile(g)'[v], r)
       /\ Once(Pile(g)'[v], r) /\ Once(Pile(g)'[w], r)

(* Passing keeps a start where it can only be handled once.                *)
LEMMA PassKeepsOnce ==
  ASSUME StartsOnce, NEW g \in Gens, NEW v \in Spots, NEW w \in Spots, v # w,
         Passes(g, v, w)
  PROVE  StartsOnce' /\ \A r \in Runs : Pending(r)' => Pending(r)
<1>1. ASSUME NEW r \in Runs, NEW h \in Gens, NEW x \in Spots, Has(h, x, r)'
      PROVE  \/ Has(h, x, r)
             \/ h = g /\ x = w /\ Has(g, v, r) /\ ~Has(g, v, r)'
  <2>1. StartsIn(Pile(h)'[x], r)
    BY <1>1 DEF Has
  <2>2. CASE ~(h = g /\ x \in {v, w})
    <3>1. Pile(h)'[x] \in {Pile(h)[x], <<>>}
      BY <2>2 DEF Passes, PileKept
    <3> QED BY <2>1, <3>1, ShortStarts DEF Has
  <2>3. CASE h = g /\ x \in {v, w}
    BY <2>1, <2>3 DEF Passes, Has
  <2> QED BY <2>2, <2>3
<1>2. ASSUME NEW r \in Runs, NEW h \in Gens, NEW x \in Spots
      PROVE  Once(Pile(h)'[x], r)
  <2>1. CASE ~(h = g /\ x \in {v, w})
    <3>1. Pile(h)'[x] \in {Pile(h)[x], <<>>}
      BY <2>1 DEF Passes, PileKept
    <3> QED BY <3>1, ShortStarts DEF StartsOnce
  <2>2. CASE h = g /\ x \in {v, w}
    BY <2>2 DEF Passes
  <2> QED BY <2>1, <2>2
<1>3. ASSUME NEW r \in Runs, NEW h \in Gens, NEW x \in Spots, Has(h, x, r)',
             NEW k \in Gens, NEW y \in Spots, Has(k, y, r)'
      PROVE  h = k /\ x = y
  BY <1>1, <1>3 DEF StartsOnce
<1>4. StartsOnce'
  BY <1>2, <1>3 DEF StartsOnce
<1>5. \A r \in Runs : Pending(r)' => Pending(r)
  BY <1>1 DEF Pending
<1> QED BY <1>4, <1>5

(* So do the steps that move nothing.                                      *)
LEMMA KeptOnce ==
  ASSUME StartsOnce, PilesKept
  PROVE  StartsOnce' /\ \A r \in Runs : Pending(r)' => Pending(r)
<1>1. ASSUME NEW r \in Runs, NEW h \in Gens, NEW x \in Spots
      PROVE  /\ Has(h, x, r)' => Has(h, x, r)
             /\ Once(Pile(h)'[x], r)
  <2>1. Pile(h)'[x] \in {Pile(h)[x], <<>>}
    BY DEF PilesKept, PileKept
  <2> QED BY <2>1, ShortStarts DEF Has, StartsOnce
<1>2. StartsOnce'
  BY <1>1 DEF StartsOnce
<1> QED BY <1>1, <1>2 DEF Pending

-----------------------------------------------------------------------------
(* The steps that pass a record on.                                        *)

(* The pump takes the head of what it had put aside, or of stdout.         *)
LEMMA ReadPasses ==
  ASSUME TypeInv, StartsOnce, NEW g \in Gens, PumpRead(g)
  PROVE  \E v \in Spots \ {"rec"} : Passes(g, v, "rec")
<1>1. TypeOK /\ pumps[g] \in PumpType /\ pumps[g].pc = "read"
  BY DEF TypeInv, TypeOK, PumpRead
<1> DEFINE v    == IF pumps[g].todo # <<>> THEN "todo" ELSE "out"
           rest == IF pumps[g].todo # <<>> THEN Tail(pumps[g].todo) ELSE <<>>
           q == IF session.runtime = g
                  THEN [pumps[g] EXCEPT !.pc = "route", !.todo = rest,
                          !.rec = NextRecord(g), !.turn = DispatchedTurn(g),
                          !.cycle = session.cycle]
                  ELSE [pumps[g] EXCEPT !.todo = rest]
<1>2. /\ pumps' = [pumps EXCEPT ![g] = q]
      /\ pi' = IF pumps[g].todo = <<>> THEN [pi EXCEPT ![g].out = Tail(@)] ELSE pi
  BY DEF PumpRead
<1>3. /\ q.hold = pumps[g].hold /\ q.todo = rest
      /\ (q.pc = "route" /\ q.rec = NextRecord(g)) \/ q.pc = "read"
  BY <1>1 DEF PumpType
<1>4. /\ Pile(g)[v] \in Seq(Record) /\ Pile(g)[v] # <<>>
      /\ NextRecord(g) = Head(Pile(g)[v])
  <2>1. Pile(g)[v] \in Seq(Record)
    BY PileType DEF Spots
  <2>2. Pile(g)[v] # <<>> /\ NextRecord(g) = Head(Pile(g)[v])
    BY DEF PumpRead, HasRecord, NextRecord, Pile
  <2> QED BY <2>1, <2>2
<1>5. pi[g].out \in Seq(Record) /\ pi[g] \in PiType
  BY <1>1 DEF TypeOK, PiType
<1>6. /\ Pile(g)'["hold"] = Pile(g)["hold"]
      /\ Pile(g)'[v] = Tail(Pile(g)[v])
      /\ \A x \in {"todo", "out"} \ {v} : Pile(g)'[x] = Pile(g)[x]
      /\ Pile(g)'["rec"] \in {<<Head(Pile(g)[v])>>, <<>>}
  <2>1. pumps'[g] = q
    BY <1>1, <1>2 DEF TypeOK
  <2>2. pi'[g].out = IF pumps[g].todo = <<>> THEN Tail(pi[g].out) ELSE pi[g].out
    BY <1>1, <1>2 DEF TypeOK, PiType
  <2> HIDE DEF q
  <2>3. /\ Pile(g)' = [rec |-> IF q.pc = "route" THEN <<q.rec>> ELSE <<>>,
                       hold |-> pumps[g].hold, todo |-> rest, out |-> pi'[g].out]
        /\ q.pc = "route" => q.rec = Head(Pile(g)[v])
    BY <1>3, <1>4, <2>1 DEF Pile
  <2>4. /\ Pile(g)'["hold"] = Pile(g)["hold"]
        /\ Pile(g)'["rec"] \in {<<Head(Pile(g)[v])>>, <<>>}
    BY <2>3 DEF Pile
  <2>5. CASE pumps[g].todo # <<>>
    <3>1. Pile(g)'["todo"] = Tail(Pile(g)["todo"]) /\ Pile(g)'["out"] = Pile(g)["out"]
      BY <2>2, <2>3, <2>5 DEF Pile
    <3> QED BY <2>4, <2>5, <3>1
  <2>6. CASE pumps[g].todo = <<>>
    <3>1. Pile(g)'["todo"] = Pile(g)["todo"] /\ Pile(g)'["out"] = Tail(Pile(g)["out"])
      BY <2>2, <2>3, <2>6 DEF Pile
    <3> QED BY <2>4, <2>6, <3>1
  <2> QED BY <2>5, <2>6
<1>7. \A h \in Gens \ {g} : pumps'[h] = pumps[h] /\ pi'[h] = pi[h]
  BY <1>1, <1>2 DEF TypeOK
<1>8. Pile(g)["rec"] = <<>>
  BY <1>1 DEF Pile
<1>9. v \in Spots \ {"rec"}
  BY DEF Spots
<1> HIDE DEF v, q, rest
<1>10. ASSUME NEW h \in Gens, NEW x \in Spots, ~(h = g /\ x \in {v, "rec"})
       PROVE  PileKept(h, x)
  BY <1>6, <1>7, <1>9, <1>10 DEF PileKept, Pile, Spots
<1>11. ASSUME NEW r \in Runs
       PROVE  /\ StartsIn(Pile(g)'[v], r) => StartsIn(Pile(g)[v], r)
              /\ StartsIn(Pile(g)'["rec"], r) =>
                   StartsIn(Pile(g)[v], r) /\ ~StartsIn(Pile(g)'[v], r)
              /\ Once(Pile(g)'[v], r) /\ Once(Pile(g)'["rec"], r)
  <2>1. Once(Pile(g)[v], r)
    BY <1>9 DEF StartsOnce
  <2> QED BY <1>4, <1>6, <2>1, TailStarts, ShortStarts
<1> QED BY <1>9, <1>10, <1>11 DEF Passes

(* While a settlement runs the pump puts aside what it takes from stdout.  *)
LEMMA HoldPasses ==
  ASSUME TypeInv, StartsOnce, NEW g \in Gens, PumpHold(g)
  PROVE  Passes(g, "out", "hold")
<1>1. TypeOK /\ pumps[g] \in PumpType /\ pi[g] \in PiType /\ pi[g].out # <<>>
  BY DEF TypeInv, TypeOK, PumpHold
<1>2. pumps[g].pc # "route"
  BY DEF PumpHold, Holding
<1>3. /\ pi[g].out \in Seq(Record) /\ pumps[g].hold \in Seq(Record)
      /\ Head(pi[g].out) \in Record
  BY <1>1 DEF PumpType, PiType
<1>4. /\ Pile(g)'["hold"] = Append(pumps[g].hold, Head(pi[g].out))
      /\ Pile(g)'["out"] = Tail(pi[g].out)
      /\ Pile(g)'["todo"] = Pile(g)["todo"]
      /\ Pile(g)'["rec"] = <<>>
  BY <1>1, <1>2 DEF PumpHold, Pile, TypeOK, PumpType, PiType
<1>5. \A h \in Gens \ {g} : pumps'[h] = pumps[h] /\ pi'[h] = pi[h]
  BY <1>1 DEF TypeOK, PumpHold
<1>6. /\ Pile(g)["hold"] = pumps[g].hold /\ Pile(g)["out"] = pi[g].out
  BY DEF Pile
<1>7. ASSUME NEW h \in Gens, NEW x \in Spots, ~(h = g /\ x \in {"out", "hold"})
      PROVE  PileKept(h, x)
  BY <1>4, <1>5, <1>7 DEF PileKept, Pile, Spots
<1>8. ASSUME NEW r \in Runs
      PROVE  /\ StartsIn(Pile(g)'["out"], r) => StartsIn(Pile(g)["out"], r)
             /\ StartsIn(Pile(g)'["hold"], r) =>
                  \/ StartsIn(Pile(g)["hold"], r)
                  \/ StartsIn(Pile(g)["out"], r) /\ ~StartsIn(Pile(g)'["out"], r)
             /\ Once(Pile(g)'["out"], r) /\ Once(Pile(g)'["hold"], r)
  <2>1. /\ Once(pumps[g].hold, r) /\ Once(pi[g].out, r)
        /\ ~(StartsIn(pumps[g].hold, r) /\ StartsIn(pi[g].out, r))
    BY <1>6 DEF StartsOnce, Has, Spots
  <2> QED BY <1>1, <1>3, <1>4, <1>6, <2>1, TailStarts, AppendStarts
<1> QED BY <1>7, <1>8 DEF Passes

(* What was put aside comes before the rest.                               *)
LEMMA DeliverPasses ==
  ASSUME TypeInv, StartsOnce, NEW g \in Gens, PumpDelivers(g), pi' = pi
  PROVE  Passes(g, "hold", "todo")
<1>1. TypeOK /\ pumps[g] \in PumpType
  BY DEF TypeInv, TypeOK
<1>2. pumps[g].hold \in Seq(Record) /\ pumps[g].todo \in Seq(Record)
  BY <1>1 DEF PumpType
<1> DEFINE q == Rested(pumps[g], pumps[g].hold \o pumps[g].todo)
<1>3. pumps' = [pumps EXCEPT ![g] = q]
  BY DEF PumpDelivers
<1>4. q.pc # "route" /\ q.hold = <<>> /\ q.todo = pumps[g].hold \o pumps[g].todo
  BY <1>1 DEF Rested, PumpType
<1> HIDE DEF q
<1>5. /\ \A h \in Gens \ {g} : pumps'[h] = pumps[h]
      /\ Pile(g)' = [rec |-> <<>>, hold |-> q.hold, todo |-> q.todo,
                     out |-> pi'[g].out]
  BY <1>1, <1>3, <1>4, PumpPile
<1>6. Pile(g)["hold"] = pumps[g].hold /\ Pile(g)["todo"] = pumps[g].todo
  BY DEF Pile
<1>7. ASSUME NEW h \in Gens, NEW x \in Spots, ~(h = g /\ x \in {"hold", "todo"})
      PROVE  PileKept(h, x)
  BY <1>5, <1>7 DEF PileKept, Pile, Spots
<1>8. ASSUME NEW r \in Runs
      PROVE  /\ ~StartsIn(Pile(g)'["hold"], r) /\ Once(Pile(g)'["hold"], r)
             /\ StartsIn(Pile(g)'["todo"], r) =>
                  StartsIn(Pile(g)["todo"], r) \/ StartsIn(Pile(g)["hold"], r)
             /\ Once(Pile(g)'["todo"], r)
  <2>1. /\ Once(pumps[g].hold, r) /\ Once(pumps[g].todo, r)
        /\ ~(StartsIn(pumps[g].hold, r) /\ StartsIn(pumps[g].todo, r))
    BY <1>6 DEF StartsOnce, Has, Spots
  <2> QED BY <1>2, <1>4, <1>5, <1>6, <2>1, JoinedStarts, ShortStarts
<1> QED BY <1>7, <1>8 DEF Passes

(* pi writes one record more.                                              *)
PiWrites(g, x) == pi'[g].out = Append(pi[g].out, x) /\ \A h \in Gens \ {g} : pi'[h] = pi[h]

(* A settlement it writes starts nothing.                                  *)
LEMMA SettledPasses ==
  ASSUME TypeInv, StartsOnce, NEW g \in Gens, NEW r \in Runs,
         PiWrites(g, [kind |-> "settled", run |-> r]), pumps' = pumps
  PROVE  Passes(g, "hold", "out")
<1> DEFINE x == [kind |-> "settled", run |-> r]
<1>1. pi[g].out \in Seq(Record) /\ x \in Record
  BY DEF TypeInv, TypeOK, PiType, Record
<1>2. \A w \in Spots \ {"out"} : Pile(g)'[w] = Pile(g)[w]
  BY DEF Pile, Spots
<1>3. /\ Pile(g)["out"] = pi[g].out
      /\ Pile(g)'["out"] = Append(pi[g].out, x)
  BY DEF Pile, PiWrites
<1>4. ASSUME NEW h \in Gens, NEW y \in Spots, ~(h = g /\ y \in {"hold", "out"})
      PROVE  PileKept(h, y)
  BY <1>2, <1>4 DEF PileKept, Pile, Spots, PiWrites
<1>5. ASSUME NEW s \in Runs
      PROVE  /\ Pile(g)'["hold"] = Pile(g)["hold"]
             /\ StartsIn(Pile(g)'["out"], s) => StartsIn(Pile(g)["out"], s)
             /\ Once(Pile(g)'["hold"], s) /\ Once(Pile(g)'["out"], s)
  <2>1. x # Start(s)
    BY DEF Start
  <2>2. Once(Pile(g)["hold"], s) /\ Once(pi[g].out, s)
    BY <1>3 DEF StartsOnce, Spots
  <2> HIDE DEF x
  <2> QED BY <1>1, <1>2, <1>3, <2>1, <2>2, AppendStarts DEF Spots
<1> QED BY <1>4, <1>5 DEF Passes

(* The start of a run that had none to handle.                             *)
LEMMA BirthOnce ==
  ASSUME TypeInv, StartsOnce, NEW g \in Gens, NEW r \in Runs, ~Pending(r),
         PiWrites(g, Start(r)), pumps' = pumps
  PROVE  StartsOnce' /\ \A s \in Runs : Pending(s)' => Pending(s) \/ s = r
<1>1. pi[g].out \in Seq(Record) /\ Start(r) \in Record
  BY DEF TypeInv, TypeOK, PiType, Record, Start
<1>2. /\ Pile(g)["out"] = pi[g].out
      /\ Pile(g)'["out"] = Append(pi[g].out, Start(r))
  BY DEF Pile, PiWrites
<1>3. \A h \in Gens : \A w \in Spots :
        ~(h = g /\ w = "out") => Pile(h)'[w] = Pile(h)[w]
  BY DEF Pile, Spots, PiWrites
<1>4. \A s \in Runs : Start(r) = Start(s) <=> r = s
  BY DEF Start
<1>5. \A s \in Runs : StartsIn(Pile(g)'["out"], s) <=> StartsIn(pi[g].out, s) \/ s = r
  BY <1>1, <1>2, <1>4, AppendStarts
<1>6. ASSUME NEW s \in Runs, NEW h \in Gens, NEW w \in Spots
      PROVE  /\ Has(h, w, s)' <=> Has(h, w, s) \/ (h = g /\ w = "out" /\ s = r)
             /\ Once(Pile(h)'[w], s)
  <2>1. CASE h = g /\ w = "out"
    <3>1. Has(h, w, s)' <=> Has(h, w, s) \/ s = r
      BY <1>2, <1>5, <2>1 DEF Has
    <3>2. Once(pi[g].out, s) /\ (s = r => ~StartsIn(pi[g].out, s))
      BY <1>2, <2>1 DEF StartsOnce, Pending, Has, Spots
    <3>3. Once(Pile(g)'["out"], s)
      BY <1>1, <1>2, <1>4, <3>2, AppendStarts
    <3> QED BY <2>1, <3>1, <3>3
  <2>2. CASE ~(h = g /\ w = "out")
    <3>1. Pile(h)'[w] = Pile(h)[w]
      BY <1>3, <2>2
    <3> QED BY <2>2, <3>1 DEF Has, StartsOnce
  <2> QED BY <2>1, <2>2
<1>7. \A h \in Gens : \A w \in Spots : ~Has(h, w, r)
  BY DEF Pending
<1>8. StartsOnce'
  BY <1>6, <1>7 DEF StartsOnce
<1>9. \A s \in Runs : Pending(s)' => Pending(s) \/ s = r
  BY <1>6 DEF Pending
<1> QED BY <1>8, <1>9

-----------------------------------------------------------------------------
(* Where records and runs come from.                                       *)

Beginning ==
  \/ \E t \in Turns : Send(t)
  \/ \E g \in Gens : \E r \in AgentRuns : PiStarts(g, r)

Passing ==
  \E g \in Gens : PumpRead(g) \/ PumpHold(g) \/ PumpHoldDone(g) \/ CycleClear(g)
                  \/ PiSettles(g)

(* Only a command or pi itself begins a run.                               *)
LEMMA BeganSources ==
  ASSUME TypeOK, [Next]_vars, ~Beginning
  PROVE  log'.began = log.began
<1> USE DEF TypeOK, LogType
<1>1. ASSUME NEW t \in Turns, PromptStep(t)
      PROVE  log'.began = log.began
  <2>1. CASE TurnCommit(t) \/ Terminal(t)
    BY <2>1 DEF TurnCommit, CommitMirror, Terminal, Idled
  <2>2. CASE Accept(t)
    BY <2>2 DEF Accept, AcceptTurn, Accepted
  <2> QED BY <1>1, <2>1, <2>2
          DEF PromptStep, PromptInstall, Dispatch, Reply, Lost, OwedFence, Wait,
              StopGrace, Settle, Join, StopCommit, CommitFence, Claim, Beginning
<1>2. ASSUME NEW g \in Gens, PumpStep(g)
      PROVE  log'.began = log.began
  <2>1. CASE PumpRoute(g)
    BY <2>1 DEF PumpRoute, RouteToTurn, RouteToCycle, OpenAgentCycle, Accepted
  <2>2. CASE CycleCommit(g) \/ CycleIdle(g) \/ EndJoin(g)
    BY <2>2 DEF CycleCommit, CommitMirror, CycleIdle, EndJoin, Idled
  <2> QED BY <1>2, <2>1, <2>2
          DEF PumpStep, PumpRead, PumpHold, PumpHoldLost, PumpHoldDone,
              CycleSettle, CycleJoin, CycleStats, CycleFence, CycleDrop,
              CycleClear, RuntimeEnded, EndUnbind, EndRelease
<1>3. ASSUME NEW o \in Ops, Admit(o) \/ Prepare(o) \/ EnsureStep(o) \/ Return(o)
      PROVE  log'.began = log.began
  BY <1>3 DEF Admit, Prepare, EnsureStep, Return, EnsureRuntime, AwaitEnding,
     AwaitRetired, Launch, Bind, Configure, StopUnconfigured, OpenCheck, OpenPublish
<1>4. ASSUME NEW c \in Controls, ControlUse(c)
      PROVE  log'.began = log.began
  BY <1>4 DEF ControlUse, CommitMirror
<1>5. CASE EstablishStep
  BY <1>5 DEF EstablishStep, EstablishCommit, EstablishRelease, EstablishHook,
     EstablishAbandon, CommitMirror
<1>6. ASSUME NEW g \in Gens, PiStep(g)
      PROVE  log'.began = log.began
  BY <1>6 DEF PiStep, PiSettles, PiExits, PiClosesStdout, Beginning
<1>7. CASE CloseStep
  <2>1. CASE CloseCommit \/ CloseIdle
    BY <2>1 DEF CloseCommit, CloseIdle, CommitMirror, Idled
  <2> QED BY <1>7, <2>1 DEF CloseStep, CloseJoin, CloseAbort, CloseWait,
     CloseStop, CloseStopJoin, CloseGate, CloseFence
<1>8. CASE Cancel \/ Close \/ (\E a \in aborts : Abort(a)) \/ UNCHANGED vars
  BY <1>8 DEF Cancel, Close, Abort, vars
<1> QED BY <1>1, <1>2, <1>3, <1>4, <1>5, <1>6, <1>7, <1>8 DEF Next

(* What moves a record passes it on or is a start of a run.                *)
LEMMA RecordSources ==
  ASSUME TypeOK, [Next]_vars, ~Beginning, ~Passing
  PROVE  PilesKept
<1>1. ASSUME NEW t \in Turns, PromptStep(t)
      PROVE  PilesKept
  <2>1. pumps' = pumps /\ pi' = pi
    BY <1>1 DEF PromptStep, PromptInstall, Dispatch, Reply, Lost, OwedFence,
       Accept, Wait, StopGrace, Settle, Join, TurnCommit, StopCommit,
       CommitFence, Terminal, Claim, Beginning
  <2> QED BY <2>1, SamePiles
<1>2. ASSUME NEW g \in Gens, PumpStep(g)
      PROVE  PilesKept
  BY <1>2, PumpKeepsPiles DEF Passing
<1>3. ASSUME NEW o \in Ops, Admit(o) \/ Prepare(o) \/ EnsureStep(o) \/ Return(o)
      PROVE  PilesKept
  <2>1. CASE Bind(o)
    BY <2>1, BindKeepsPiles
  <2>2. CASE ~Bind(o)
    <3>1. pumps' = pumps /\ pi' = pi
      BY <1>3, <2>2 DEF Admit, Prepare, EnsureStep, Return, EnsureRuntime,
         AwaitEnding, AwaitRetired, Launch, Configure, StopUnconfigured,
         OpenCheck, OpenPublish
    <3> QED BY <3>1, SamePiles
  <2> QED BY <2>1, <2>2
<1>4. ASSUME NEW c \in Controls, ControlUse(c)
      PROVE  PilesKept
  BY <1>4, SamePiles DEF ControlUse
<1>5. CASE EstablishStep
  BY <1>5, SamePiles DEF EstablishStep, EstablishCommit, EstablishRelease,
     EstablishHook, EstablishAbandon
<1>6. ASSUME NEW g \in Gens, PiStep(g)
      PROVE  PilesKept
  BY <1>6, SamePiles DEF PiStep, PiExits, PiClosesStdout, Beginning, Passing
<1>7. CASE CloseStep
  BY <1>7, SamePiles DEF CloseStep, CloseJoin, CloseAbort, CloseWait, CloseStop,
     CloseStopJoin, CloseGate, CloseCommit, CloseIdle, CloseFence
<1>8. CASE Cancel \/ Close \/ (\E a \in aborts : Abort(a)) \/ UNCHANGED vars
  BY <1>8, SamePiles DEF Cancel, Close, Abort, vars
<1> QED BY <1>1, <1>2, <1>3, <1>4, <1>5, <1>6, <1>7, <1>8 DEF Next

(* A prompt that has not sent its command yet.                             *)
BeforeSend ==
  {"idle", "install", "map", "ensure", "ending", "retired", "launch", "bind",
   "configure", "stopUnconfigured", "openCheck", "openPublish", "dispatch", "send"}

(* A step of one operation leaves the others where they are.               *)
LEMMA GoesAlone ==
  ASSUME TypeOK, NEW u \in Ops, NEW t \in Ops, NEW p, Go(u, p)
  PROVE  op'[t].pc = IF t = u THEN p ELSE op[t].pc
  BY DEF TypeOK, OpType, Go

(* It sends one: no step leads back.                                       *)
LEMMA SendsOnce ==
  ASSUME TypeOK, [Next]_vars, NEW t \in Turns, op'[t].pc \in BeforeSend
  PROVE  op[t].pc \in BeforeSend /\ ~Send(t)
<1>1. op \in [Ops -> OpType] /\ t \in Ops
  BY DEF TypeOK, Ops
<1>2. ~Send(t)
  BY <1>1, GoesAlone DEF Send, BeforeSend
<1> SUFFICES op[t].pc \in BeforeSend
  BY <1>2
<1>3. ASSUME NEW u \in Turns, PromptStep(u)
      PROVE  op[t].pc \in BeforeSend
  <2>1. u \in Ops
    BY DEF Ops
  <2>2. CASE PromptInstall(u) \/ Dispatch(u) \/ Send(u)
    <3>1. op[u].pc \in BeforeSend /\ \E p : Go(u, p)
      BY <2>2 DEF PromptInstall, Dispatch, Send, BeforeSend
    <3> QED BY <1>1, <2>1, <3>1, GoesAlone
  <2>3. CASE ~(PromptInstall(u) \/ Dispatch(u) \/ Send(u))
    <3>1. \E p : p \notin BeforeSend /\ Go(u, p)
      <4>1. CASE Reply(u) \/ Lost(u) \/ OwedFence(u) \/ Claim(u)
        BY <4>1 DEF Reply, Lost, OwedFence, Claim, ClaimFence, BeforeSend
      <4>2. CASE Accept(u) \/ Wait(u) \/ StopGrace(u) \/ Settle(u) \/ Join(u)
        BY <4>2 DEF Accept, Wait, StopGrace, Settle, Join, BeforeSend
      <4>3. CASE TurnCommit(u) \/ StopCommit(u) \/ CommitFence(u) \/ Terminal(u)
        BY <4>3 DEF TurnCommit, StopCommit, CommitFence, Terminal, BeforeSend
      <4> QED BY <1>3, <2>3, <4>1, <4>2, <4>3 DEF PromptStep
    <3> QED BY <1>1, <2>1, <3>1, GoesAlone
  <2> QED BY <2>2, <2>3
<1>4. ASSUME NEW o \in Ops, Admit(o) \/ Prepare(o) \/ EnsureStep(o) \/ Return(o)
      PROVE  op[t].pc \in BeforeSend
  <2>1. CASE t # o
    <3>1. op'[t] = op[t]
      BY <1>1, <1>4, <2>1 DEF Admit, Prepare, EnsureStep, Return, EnsureRuntime,
         AwaitEnding, AwaitRetired, Launch, Bind, Configure, StopUnconfigured,
         OpenCheck, OpenPublish, Go
    <3> QED BY <3>1
  <2>2. CASE t = o
    <3>1. CASE Return(o)
      BY <1>1, <2>2, <3>1 DEF Return, BeforeSend
    <3>2. CASE ~Return(o)
      BY <1>4, <2>2, <3>2 DEF Admit, Prepare, EnsureStep, EnsureRuntime,
         AwaitEnding, AwaitRetired, Launch, Bind, Configure, StopUnconfigured,
         OpenCheck, OpenPublish, BeforeSend
    <3> QED BY <3>1, <3>2
  <2> QED BY <2>1, <2>2
<1>5. ASSUME NEW c \in Controls, ControlUse(c)
      PROVE  op[t].pc \in BeforeSend
  <2>1. c \in Ops /\ c # t
    BY NamesAssumption DEF Ops
  <2> QED BY <1>1, <1>5, <2>1, GoesAlone DEF ControlUse
<1>6. CASE EstablishStep
  <2>1. Opening \in Ops /\ Opening # t
    BY NamesAssumption DEF Ops
  <2>2. ASSUME NEW p, Go(Opening, p) PROVE op[t].pc \in BeforeSend
    BY <1>1, <2>1, <2>2, GoesAlone
  <2>3. ASSUME NEW q, op' = [op EXCEPT ![Opening] = q]
        PROVE  op[t].pc \in BeforeSend
    BY <1>1, <2>1, <2>3
  <2> QED BY <1>6, <2>2, <2>3 DEF EstablishStep, EstablishCommit,
             EstablishRelease, EstablishHook, EstablishAbandon
<1>7. CASE op' = op
  BY <1>7
<1>8. ASSUME NEW g \in Gens, PumpStep(g) \/ PiStep(g)
      PROVE  op' = op
  BY <1>8 DEF PumpStep, PumpRead, PumpRoute, PumpHold, PumpHoldLost,
     PumpHoldDone, CycleSettle, CycleJoin, CycleStats, CycleCommit, CycleFence,
     CycleDrop, CycleIdle, CycleClear, RuntimeEnded, EndJoin, EndUnbind,
     EndRelease, PiStep, PiStarts, PiSettles, PiExits, PiClosesStdout
<1>9. CASE CloseStep
  BY <1>7, <1>9 DEF CloseStep, CloseJoin, CloseAbort, CloseWait, CloseStop,
     CloseStopJoin, CloseGate, CloseCommit, CloseIdle, CloseFence
<1>10. CASE Cancel \/ Close \/ (\E a \in aborts : Abort(a)) \/ UNCHANGED vars
  BY <1>7, <1>10 DEF Cancel, Close, Abort, vars
<1> QED BY <1>3, <1>4, <1>5, <1>6, <1>7, <1>8, <1>9, <1>10 DEF Next

-----------------------------------------------------------------------------
(* Who opens a cycle, who takes it over and who idles it.                  *)

(* The pump of g opens the cycle of run r.                                 *)
Opens(g, r) ==
  /\ PumpRoute(g) /\ OpenAgentCycle(g)
  /\ pumps[g].turn = None /\ pumps[g].cycle = None
  /\ pumps[g].rec = Start(r)
  /\ session.turn = None /\ session.cycle = None
  /\ ~session.closing /\ session.runtime = g
  /\ session' = [session EXCEPT !.cycle = r] /\ log' = Accepted(Agent(r))

(* What a record does beside opening a cycle.                              *)
LEMMA RouteOpens ==
  ASSUME NEW g \in Gens, TypeInv, PumpRoute(g)
  PROVE  \/ session' = session /\ log' = log
         \/ session' = session /\ \E t \in Turns : log' = Accepted(Prompted(t))
         \/ \E r \in Runs : Opens(g, r)
<1>1. pumps[g] \in PumpType /\ pumps[g].rec \in Record
  BY DEF TypeInv, TypeOK, PumpOwns, Owns, PumpRoute
<1>2. CASE pumps[g].turn # None
  <2>1. pumps[g].turn \in Turns
    BY <1>1, <1>2 DEF PumpType
  <2> QED BY <1>2, <2>1 DEF PumpRoute, RouteToTurn
<1>3. CASE pumps[g].turn = None /\ pumps[g].cycle # None
  BY <1>3 DEF PumpRoute, RouteToCycle
<1>4. CASE pumps[g].turn = None /\ pumps[g].cycle = None
  <2>1. OpenAgentCycle(g)
    BY <1>4 DEF PumpRoute
  <2> DEFINE r == pumps[g].rec.run
  <2>2. r \in Runs /\ (pumps[g].rec.kind = "start" => pumps[g].rec = Start(r))
    BY <1>1 DEF Record, Start
  <2> QED BY <1>4, <2>1, <2>2 DEF OpenAgentCycle, Opens
<1> QED BY <1>2, <1>3, <1>4

(* Nothing else opens one.                                                 *)
LEMMA CycleSources ==
  ASSUME TypeInv, [Next]_vars, NEW r \in Runs, session'.cycle = r, session.cycle # r
  PROVE  \E g \in Gens : Opens(g, r)
<1>1. TypeOK /\ r # None
  BY NamesAssumption DEF TypeInv, Runs
<1>2. ~SessionKept
  BY <1>1 DEF SessionKept
<1>3. ASSUME NEW g \in Gens, PumpRoute(g)
      PROVE  Opens(g, r)
  <2>1. PICK s \in Runs : Opens(g, s)
    BY <1>3, RouteOpens
  <2>2. s = r
    BY <1>1, <2>1 DEF Opens, TypeOK, SessionType
  <2> QED BY <2>1, <2>2
<1>4. ASSUME NEW t \in Turns, PromptStep(t)
      PROVE  FALSE
  BY <1>1, <1>2, <1>4, PromptKept DEF PromptInstall, TypeOK, SessionType
<1>5. ASSUME NEW o \in Ops, Admit(o) \/ Prepare(o) \/ EnsureStep(o) \/ Return(o)
      PROVE  FALSE
  <2>1. CASE OpenCheck(o) \/ OpenPublish(o)
    BY <1>1, <2>1 DEF OpenCheck, OpenPublish, TypeOK, SessionType
  <2> QED BY <1>1, <1>2, <1>5, <2>1, GateKept, EnsureKept
<1>6. ASSUME NEW c \in Controls, ControlUse(c)
      PROVE  FALSE
  BY <1>1, <1>2, <1>6, GateKept DEF Ops
<1>7. CASE EstablishStep \/ Close \/ CloseStep
  BY <1>1, <1>2, <1>7, EstablishKept, BeginCloseKept, LadderKept DEF EstablishStep
<1>8. CASE \/ Cancel \/ \E a \in aborts : Abort(a)
           \/ \E g \in Gens : PiStep(g)
           \/ UNCHANGED vars
  BY <1>2, <1>8, OthersKept
<1>9. ASSUME NEW g \in Gens, PumpStep(g), ~PumpRoute(g)
      PROVE  FALSE
  BY <1>1, <1>2, <1>9, PumpKept
<1> QED BY <1>3, <1>4, <1>5, <1>6, <1>7, <1>8, <1>9 DEF Next

(* A pump takes a cycle over from the session, with a record or at its end.*)
LEMMA PumpCycleSources ==
  ASSUME TypeInv, [Next]_vars, NEW g \in Gens,
         pumps'[g].cycle # None, pumps'[g].cycle # pumps[g].cycle
  PROVE  pumps'[g].cycle = session.cycle /\ (PumpRead(g) \/ RuntimeEnded(g))
<1>1. TypeOK /\ pumps \in [Gens -> PumpType]
  BY DEF TypeInv, TypeOK
<1>2. ASSUME NEW h \in Gens, NEW q, pumps' = [pumps EXCEPT ![h] = q],
             q.cycle \in {pumps[h].cycle, None}
      PROVE  FALSE
  BY <1>1, <1>2
<1>3. ASSUME NEW h \in Gens, NEW p, PumpAt(h, p)
      PROVE  FALSE
  <2>1. [pumps[h] EXCEPT !.pc = p].cycle = pumps[h].cycle
    BY <1>1 DEF PumpType
  <2> QED BY <1>2, <1>3, <2>1 DEF PumpAt
<1>4. ASSUME NEW h \in Gens, NEW todo, pumps' = [pumps EXCEPT ![h] = Rested(@, todo)]
      PROVE  FALSE
  <2>1. Rested(pumps[h], todo).cycle = None
    BY <1>1 DEF Rested, PumpType
  <2> QED BY <1>2, <1>4, <2>1
<1>5. ASSUME NEW h \in Gens, PumpRead(h)
      PROVE  h = g /\ pumps'[g].cycle = session.cycle
  BY <1>1, <1>5 DEF PumpRead, PumpType
<1>6. ASSUME NEW h \in Gens, RuntimeEnded(h)
      PROVE  h = g /\ pumps'[g].cycle = session.cycle
  BY <1>1, <1>6 DEF RuntimeEnded, PumpType
<1>7. ASSUME NEW h \in Gens, PumpRoute(h)
      PROVE  FALSE
  BY <1>3, <1>4, <1>7 DEF PumpRoute, RouteToTurn, RouteToCycle, OpenAgentCycle,
     PumpRests
<1>8. ASSUME NEW h \in Gens, PumpHold(h)
      PROVE  FALSE
  <2>1. [pumps[h] EXCEPT !.hold = Append(@, Head(pi[h].out))].cycle = pumps[h].cycle
    BY <1>1 DEF PumpType
  <2> QED BY <1>2, <1>8, <2>1 DEF PumpHold
<1>9. ASSUME NEW h \in Gens, PumpHoldLost(h)
      PROVE  FALSE
  <2>1. [pumps[h] EXCEPT !.pc = "cycleCommit", !.hold = <<>>].cycle = pumps[h].cycle
    BY <1>1 DEF PumpType
  <2> QED BY <1>2, <1>4, <1>9, <2>1 DEF PumpHoldLost
<1>10. ASSUME NEW h \in Gens, EndRelease(h)
       PROVE  FALSE
  <2> DEFINE q == [pumps[h] EXCEPT !.pc = "done", !.turn = None, !.cycle = None]
  <2>1. q.cycle = None
    BY <1>1 DEF PumpType
  <2>2. pumps' = [pumps EXCEPT ![h] = q]
    BY <1>10 DEF EndRelease
  <2> HIDE DEF q
  <2> QED BY <1>2, <2>1, <2>2
<1>11. ASSUME NEW h \in Gens, PumpHoldDone(h) \/ CycleClear(h)
       PROVE  FALSE
  BY <1>4, <1>11 DEF PumpHoldDone, CycleClear, PumpDelivers
<1>12. ASSUME NEW h \in Gens, PumpStep(h), ~PumpRead(h), ~RuntimeEnded(h)
       PROVE  FALSE
  BY <1>3, <1>7, <1>8, <1>9, <1>10, <1>11, <1>12
     DEF PumpStep, CycleSettle, CycleJoin, CycleStats, CycleCommit, CycleFence,
         CycleDrop, CycleIdle, EndJoin, EndUnbind
<1>13. ASSUME NEW o \in Ops, Bind(o)
       PROVE  FALSE
  <2>1. PumpAt(op[o].at, "read")
    BY <1>13 DEF Bind, PumpAt
  <2>2. op[o].at \in Gens
    BY <1>1, <2>1 DEF PumpAt
  <2> QED BY <1>3, <2>1, <2>2
<1>14. pumps' # pumps
  OBVIOUS
<1>15. ASSUME ~ \E h \in Gens : PumpStep(h), ~ \E o \in Ops : Bind(o)
       PROVE  FALSE
  BY <1>14, <1>15, PumpsSame
<1> QED BY <1>5, <1>6, <1>12, <1>13, <1>15

(* A foreground that gets an idle more gets it from its owner.             *)
LEMMA IdleOwner ==
  ASSUME TypeInv, [Next]_vars, NEW f \in Foreground, log'.idles[f] # log.idles[f]
  PROVE  \/ \E t \in Turns : Terminal(t) /\ f = Prompted(t)
         \/ \E g \in Gens : CycleIdle(g) /\ f = Agent(pumps[g].cycle)
         \/ \E g \in Gens : /\ EndJoin(g) /\ pumps[g].cycle # None
                           /\ f = Agent(pumps[g].cycle)
         \/ CloseIdle /\ session.cycle # None /\ f = Agent(session.cycle)
<1>1. TypeOK /\ PumpOwns
  BY DEF TypeInv
<1>2. Idling
  BY <1>1, IdleSources
<1>3. ASSUME NEW h \in Foreground, NEW out, log' = Idled(h, out)
      PROVE  f = h
  BY <1>1, <1>3, IdledOne
<1>4. ASSUME NEW t \in Turns, Terminal(t)
      PROVE  f = Prompted(t)
  BY <1>3, <1>4, ForegroundNames DEF Terminal
<1>5. ASSUME NEW g \in Gens, CycleIdle(g)
      PROVE  f = Agent(pumps[g].cycle)
  <2>1. pumps[g].cycle \in Runs
    BY <1>1, <1>5 DEF CycleIdle, PumpOwns, Owns, CyclePoints
  <2> QED BY <1>3, <1>5, <2>1, ForegroundNames DEF CycleIdle
<1>6. ASSUME NEW g \in Gens, EndJoin(g)
      PROVE  pumps[g].cycle # None /\ f = Agent(pumps[g].cycle)
  <2>1. pumps[g].cycle # None
    BY <1>6 DEF EndJoin
  <2>2. pumps[g].cycle \in Runs
    BY <1>1, <2>1 DEF TypeOK, PumpType
  <2> QED BY <1>3, <1>6, <2>1, <2>2, ForegroundNames DEF EndJoin
<1>7. CASE CloseIdle
  <2>1. session.cycle # None /\ log' = Idled(Agent(session.cycle), "cancelled")
    BY <1>7 DEF CloseIdle
  <2>2. session.cycle \in Runs
    BY <1>1, <2>1 DEF TypeOK, SessionType
  <2> QED BY <1>3, <1>7, <2>1, <2>2, ForegroundNames
<1> QED BY <1>2, <1>4, <1>5, <1>6, <1>7 DEF Idling

(* Only a prompt that reads its answer and a record at hand accept.        *)
LEMMA AcceptSources ==
  ASSUME TypeOK, [Next]_vars, ~ \E t \in Turns : Accept(t), ~ \E g \in Gens : PumpRoute(g)
  PROVE  log'.accepted = log.accepted
<1> USE DEF TypeOK, LogType
<1>1. ASSUME NEW t \in Turns, PromptStep(t)
      PROVE  log'.accepted = log.accepted
  <2>1. CASE TurnCommit(t) \/ Terminal(t)
    BY <2>1 DEF TurnCommit, CommitMirror, Terminal, Idled
  <2>2. CASE Send(t)
    BY <2>2 DEF Send
  <2> QED BY <1>1, <2>1, <2>2
          DEF PromptStep, PromptInstall, Dispatch, Reply, Lost, OwedFence, Wait,
              StopGrace, Settle, Join, StopCommit, CommitFence, Claim
<1>2. ASSUME NEW g \in Gens, PumpStep(g)
      PROVE  log'.accepted = log.accepted
  <2>1. CASE CycleCommit(g) \/ CycleIdle(g) \/ EndJoin(g)
    BY <2>1 DEF CycleCommit, CommitMirror, CycleIdle, EndJoin, Idled
  <2> QED BY <1>2, <2>1
          DEF PumpStep, PumpRead, PumpHold, PumpHoldLost, PumpHoldDone,
              CycleSettle, CycleJoin, CycleStats, CycleFence, CycleDrop,
              CycleClear, RuntimeEnded, EndUnbind, EndRelease
<1>3. ASSUME NEW o \in Ops, Admit(o) \/ Prepare(o) \/ EnsureStep(o) \/ Return(o)
      PROVE  log'.accepted = log.accepted
  BY <1>3 DEF Admit, Prepare, EnsureStep, Return, EnsureRuntime, AwaitEnding,
     AwaitRetired, Launch, Bind, Configure, StopUnconfigured, OpenCheck, OpenPublish
<1>4. ASSUME NEW c \in Controls, ControlUse(c)
      PROVE  log'.accepted = log.accepted
  BY <1>4 DEF ControlUse, CommitMirror
<1>5. CASE EstablishStep
  BY <1>5 DEF EstablishStep, EstablishCommit, EstablishRelease, EstablishHook,
     EstablishAbandon, CommitMirror
<1>6. ASSUME NEW g \in Gens, PiStep(g)
      PROVE  log'.accepted = log.accepted
  BY <1>6 DEF PiStep, PiStarts, PiSettles, PiExits, PiClosesStdout
<1>7. CASE CloseStep
  <2>1. CASE CloseCommit \/ CloseIdle
    BY <2>1 DEF CloseCommit, CloseIdle, CommitMirror, Idled
  <2> QED BY <1>7, <2>1 DEF CloseStep, CloseJoin, CloseAbort, CloseWait,
     CloseStop, CloseStopJoin, CloseGate, CloseFence
<1>8. CASE Cancel \/ Close \/ (\E a \in aborts : Abort(a)) \/ UNCHANGED vars
  BY <1>8 DEF Cancel, Close, Abort, vars
<1> QED BY <1>1, <1>2, <1>3, <1>4, <1>5, <1>6, <1>7, <1>8 DEF Next

(* Only a run that opens a cycle has the cycle's opening published.        *)
LEMMA AcceptOwner ==
  ASSUME TypeInv, [Next]_vars, NEW r \in Runs,
         log'.accepted[Agent(r)] # log.accepted[Agent(r)]
  PROVE  \E g \in Gens : Opens(g, r)
<1>1. TypeOK /\ log \in LogType
  BY DEF TypeInv, TypeOK
<1>2. Agent(r) \in Foreground
  BY ForegroundNames
<1>3. ASSUME NEW f \in Foreground, f # Agent(r), log' = Accepted(f)
      PROVE  FALSE
  BY <1>1, <1>2, <1>3 DEF Accepted, LogType
<1>4. ASSUME NEW t \in Turns, log' = Accepted(Prompted(t))
      PROVE  FALSE
  <2>1. Prompted(t) # Agent(r) /\ Prompted(t) \in Foreground
    BY ForegroundNames DEF Prompted, Agent
  <2> QED BY <1>3, <1>4, <2>1
<1>5. ASSUME NEW g \in Gens, PumpRoute(g)
      PROVE  Opens(g, r)
  <2>1. PICK s \in Runs : Opens(g, s)
    BY <1>4, <1>5, RouteOpens
  <2>2. Agent(s) = Agent(r)
    BY <1>3, <2>1, ForegroundNames DEF Opens
  <2>3. s = r
    BY <2>2 DEF Agent
  <2> QED BY <2>1, <2>3
<1>6. ASSUME NEW t \in Turns, Accept(t)
      PROVE  FALSE
  BY <1>4, <1>6 DEF Accept, AcceptTurn
<1> QED BY <1>1, <1>5, <1>6, AcceptSources

Opened(r) ==
  \/ session.cycle = r
  \/ \E g \in Gens : pumps[g].cycle = r
  \/ log.idles[Agent(r)] # <<>>
  \/ log.accepted[Agent(r)] # 0

(* A run whose cycle was never open is not handled, idled or accepted.     *)
LEMMA OpenedSources ==
  ASSUME TypeInv, [Next]_vars, NEW r \in Runs, Opened(r)', ~Opened(r)
  PROVE  \E g \in Gens : Opens(g, r)
<1>1. r # None /\ Agent(r) \in Foreground
  BY NamesAssumption, ForegroundNames DEF Runs
<1>2. CASE session'.cycle = r
  BY <1>2, CycleSources DEF Opened
<1>3. ASSUME NEW g \in Gens, pumps'[g].cycle = r
      PROVE  FALSE
  BY <1>1, <1>3, PumpCycleSources DEF Opened
<1>4. CASE log'.idles[Agent(r)] # <<>>
  <2>1. \A s : Agent(r) = Agent(s) => s = r
    BY DEF Agent
  <2>2. \A t : Agent(r) # Prompted(t)
    BY DEF Agent, Prompted
  <2> QED BY <1>1, <1>4, <2>1, <2>2, IdleOwner DEF Opened
<1>5. CASE log'.accepted[Agent(r)] # 0
  BY <1>5, AcceptOwner DEF Opened
<1> QED BY <1>2, <1>3, <1>4, <1>5 DEF Opened

-----------------------------------------------------------------------------
(* A cycle is opened once.                                                 *)

StartInv ==
  /\ StartsOnce
  /\ \A r \in Runs : Pending(r) => r \in log.began
  /\ \A r \in Runs : Opened(r) => r \in log.began /\ ~Pending(r)
  /\ \A t \in Turns : op[t].pc \in BeforeSend => t \notin log.began

(* A run that begins has one start, written by its process.                *)
LEMMA BeginsWith ==
  ASSUME TypeInv, StartInv, [Next]_vars, Beginning
  PROVE  /\ StartsOnce'
         /\ log.began \subseteq log'.began
         /\ \A r \in Runs : Pending(r)' => Pending(r) \/ r \in log'.began \ log.began
         /\ \A t \in Turns : t \in log'.began => t \in log.began \/ Send(t)
<1>1. TypeOK
  BY DEF TypeInv
<1>2. ASSUME NEW g \in Gens, NEW r \in Runs \ log.began,
             PiWrites(g, Start(r)), pumps' = pumps,
             log' = [log EXCEPT !.began = @ \cup {r}]
      PROVE  /\ StartsOnce'
             /\ log.began \subseteq log'.began
             /\ \A s \in Runs : Pending(s)' => Pending(s) \/ s \in log'.began \ log.began
             /\ \A t \in log'.began : t \in log.began \/ t = r
  <2>1. StartsOnce' /\ \A s \in Runs : Pending(s)' => Pending(s) \/ s = r
    BY <1>2, BirthOnce DEF StartInv
  <2>2. log'.began = log.began \cup {r}
    BY <1>1, <1>2 DEF TypeOK, LogType
  <2> QED BY <2>1, <2>2
<1>3. ASSUME NEW g \in Gens, NEW r \in AgentRuns, PiStarts(g, r)
      PROVE  /\ StartsOnce'
             /\ log.began \subseteq log'.began
             /\ \A s \in Runs : Pending(s)' => Pending(s) \/ s \in log'.began \ log.began
             /\ \A t \in Turns : t \in log'.began => t \in log.began \/ Send(t)
  <2>1. r \in Runs \ log.began /\ \A t \in Turns : t # r
    BY <1>3, NamesAssumption DEF PiStarts, Runs
  <2>2. PiWrites(g, Start(r)) /\ pumps' = pumps
    BY <1>1, <1>3 DEF PiStarts, PiWrites, Start, TypeOK, PiType
  <2>3. log' = [log EXCEPT !.began = @ \cup {r}]
    BY <1>3 DEF PiStarts
  <2> QED BY <1>2, <2>1, <2>2, <2>3
<1>4. ASSUME NEW t \in Turns, Send(t)
      PROVE  /\ StartsOnce'
             /\ log.began \subseteq log'.began
             /\ \A s \in Runs : Pending(s)' => Pending(s) \/ s \in log'.began \ log.began
             /\ \A u \in Turns : u \in log'.began => u \in log.began \/ Send(u)
  <2>1. CASE pi' = pi /\ log' = log
    <3>1. pumps' = pumps
      BY <1>4 DEF Send
    <3> QED BY <2>1, <3>1, SamePiles, KeptOnce DEF StartInv
  <2>2. CASE ~(pi' = pi /\ log' = log)
    <3> DEFINE g == op[t].at
    <3>1. /\ Talks(g)
          /\ pi' = [pi EXCEPT ![g] =
                      [run |-> t, out |-> Append(@.out, [kind |-> "start", run |-> t])]]
          /\ log' = [log EXCEPT !.began = @ \cup {t}]
          /\ pumps' = pumps
      BY <1>4, <2>2 DEF Send
    <3>2. g \in Gens
      BY <1>1, <3>1, BoundsAssumption DEF Talks, Alive, TypeOK, OpType, Ops, Gens
    <3>3. t \in Runs \ log.began
      BY <1>4 DEF Runs, StartInv, Send, BeforeSend
    <3>4. PiWrites(g, Start(t))
      BY <1>1, <3>1, <3>2 DEF PiWrites, Start, TypeOK, PiType
    <3> QED BY <1>2, <1>4, <3>1, <3>2, <3>3, <3>4
  <2> QED BY <2>1, <2>2
<1> QED BY <1>3, <1>4 DEF Beginning

(* No other step makes a start.                                            *)
LEMMA RestKeepsOnce ==
  ASSUME TypeInv, StartInv, [Next]_vars, ~Beginning
  PROVE  StartsOnce' /\ \A r \in Runs : Pending(r)' => Pending(r)
<1>1. TypeOK
  BY DEF TypeInv
<1>2. ASSUME NEW g \in Gens, NEW v \in Spots, NEW w \in Spots, v # w, Passes(g, v, w)
      PROVE  StartsOnce' /\ \A r \in Runs : Pending(r)' => Pending(r)
  BY <1>2, PassKeepsOnce DEF StartInv
<1>3. ASSUME NEW g \in Gens, PumpRead(g)
      PROVE  StartsOnce' /\ \A r \in Runs : Pending(r)' => Pending(r)
  <2>1. PICK v \in Spots \ {"rec"} : Passes(g, v, "rec")
    BY <1>3, ReadPasses DEF StartInv
  <2> QED BY <1>2, <2>1 DEF Spots
<1>4. ASSUME NEW g \in Gens, PumpHold(g)
      PROVE  StartsOnce' /\ \A r \in Runs : Pending(r)' => Pending(r)
  BY <1>2, <1>4, HoldPasses DEF StartInv, Spots
<1>5. ASSUME NEW g \in Gens, PumpHoldDone(g) \/ CycleClear(g)
      PROVE  StartsOnce' /\ \A r \in Runs : Pending(r)' => Pending(r)
  <2>1. PumpDelivers(g) /\ pi' = pi
    BY <1>5 DEF PumpHoldDone, CycleClear
  <2> QED BY <1>2, <2>1, DeliverPasses DEF StartInv, Spots
<1>6. ASSUME NEW g \in Gens, PiSettles(g)
      PROVE  StartsOnce' /\ \A r \in Runs : Pending(r)' => Pending(r)
  <2> DEFINE r == pi[g].run
  <2>1. r \in Runs
    BY <1>1, <1>6 DEF PiSettles, TypeOK, PiType
  <2>2. PiWrites(g, [kind |-> "settled", run |-> r]) /\ pumps' = pumps
    BY <1>1, <1>6 DEF PiSettles, PiWrites, TypeOK, PiType
  <2> QED BY <1>2, <2>1, <2>2, SettledPasses DEF StartInv, Spots
<1>7. CASE ~Passing
  BY <1>1, <1>7, RecordSources, KeptOnce DEF StartInv
<1> QED BY <1>3, <1>4, <1>5, <1>6, <1>7 DEF Passing

(* A cycle is opened with the only start of its run.                       *)
LEMMA OpensLast ==
  ASSUME TypeInv, StartsOnce, NEW g \in Gens, NEW r \in Runs, Opens(g, r)
  PROVE  Pending(r) /\ ~Pending(r)'
<1>1. TypeOK /\ pumps[g] \in PumpType /\ PumpRoute(g) /\ pumps[g].pc = "route"
  BY DEF TypeInv, TypeOK, Opens, PumpRoute
<1>2. Has(g, "rec", r)
  BY <1>1, ShortStarts DEF Has, Pile, Opens
<1>3. PilesKept
  BY <1>1, PumpKeepsPiles DEF PumpStep, PumpRead, PumpHold, PumpHoldDone,
     CycleClear, Holding
<1>4. Pile(g)'["rec"] = <<>>
  <2>1. pumps'[g] = Rested(pumps[g], pumps[g].todo)
    BY <1>1 DEF Opens, OpenAgentCycle, PumpRests, TypeOK
  <2>2. pumps'[g].pc = "read"
    BY <1>1, <2>1 DEF Rested, PumpType
  <2> QED BY <2>2 DEF Pile
<1>5. ASSUME NEW h \in Gens, NEW w \in Spots, Has(h, w, r)'
      PROVE  FALSE
  <2>1. Pile(h)'[w] \in {Pile(h)[w], <<>>}
    BY <1>3 DEF PilesKept, PileKept
  <2>2. Has(h, w, r)
    BY <1>5, <2>1, ShortStarts DEF Has
  <2>3. h = g /\ w = "rec"
    BY <1>2, <2>2 DEF StartsOnce, Spots
  <2> QED BY <1>4, <1>5, <2>3, ShortStarts DEF Has
<1> QED BY <1>2, <1>5 DEF Pending, Spots

(* Every step keeps this.                                                  *)
LEMMA StartStep == TypeInv /\ StartInv /\ [Next]_vars => StartInv'
<1> SUFFICES ASSUME TypeInv, StartInv, [Next]_vars PROVE StartInv'
  OBVIOUS
<1>1. TypeOK
  BY DEF TypeInv
<1>2. /\ StartsOnce'
      /\ log.began \subseteq log'.began
      /\ \A r \in Runs : Pending(r)' => Pending(r) \/ r \in log'.began \ log.began
      /\ \A t \in Turns : t \in log'.began => t \in log.began \/ Send(t)
  BY <1>1, BeginsWith, RestKeepsOnce, BeganSources
<1>3. ASSUME NEW r \in Runs, Pending(r)'
      PROVE  r \in log'.began
  BY <1>2, <1>3 DEF StartInv
<1>4. ASSUME NEW r \in Runs, Opened(r)'
      PROVE  r \in log'.began /\ ~Pending(r)'
  <2>1. CASE Opened(r)
    BY <1>2, <2>1 DEF StartInv
  <2>2. CASE ~Opened(r)
    <3>1. PICK g \in Gens : Opens(g, r)
      BY <1>4, <2>2, OpenedSources
    <3> QED BY <1>2, <3>1, OpensLast DEF StartInv
  <2> QED BY <2>1, <2>2
<1>5. ASSUME NEW t \in Turns, op'[t].pc \in BeforeSend
      PROVE  t \notin log'.began
  BY <1>1, <1>2, <1>5, SendsOnce DEF StartInv
<1> QED BY <1>2, <1>3, <1>4, <1>5 DEF StartInv

(* Nothing has begun at first.                                             *)
LEMMA StartInit == Init => StartInv
<1> SUFFICES ASSUME Init PROVE StartInv
  OBVIOUS
<1>1. ASSUME NEW g \in Gens, NEW w \in Spots
      PROVE  Pile(g)[w] = <<>>
  BY DEF Init, Pile, Spots
<1>2. \A r \in Runs : ~Pending(r) /\ r # None
  BY <1>1, ShortStarts, NamesAssumption DEF Pending, Has, Runs
<1>3. StartsOnce
  BY <1>1, ShortStarts DEF StartsOnce, Has
<1>4. \A r \in Runs : ~Opened(r)
  BY <1>2, ForegroundNames DEF Opened, Init
<1> QED BY <1>2, <1>3, <1>4 DEF StartInv, Init

-----------------------------------------------------------------------------
(* SettledIsJoined.  A foreground is marked settling before its settlement *)
(* joins the interrupts, so the join is the last moment one is under way;  *)
(* an idle of a foreground follows that join, the join of the ending pump, *)
(* or the join of the ladder.                                              *)

Joined == {"commit", "stopCommit", "commitFence", "terminal"}

CycleJoined == {"stats", "cycleCommit", "cycleFence", "cycleDrop", "cycleIdle"}

Interrupted(f) == \E a \in aborts : a.fg = f

PromptJoined ==
  \A t \in Turns :
    /\ op[t].pc \in {"join"} \cup Joined => Prompted(t) \in marks.settling
    /\ op[t].pc \in Joined => ~Interrupted(Prompted(t))
    /\ log.idles[Prompted(t)] # <<>> => Prompted(t) \in marks.settling

CyclesJoined ==
  \A g \in Gens :
    /\ pumps[g].pc \in {"cycleJoin"} \cup CycleJoined =>
         Agent(pumps[g].cycle) \in marks.settling
    /\ pumps[g].pc \in CycleJoined => ~Interrupted(Agent(pumps[g].cycle))
    /\ pumps[g].pc = "endJoin" /\ pumps[g].cycle # None =>
         session.cycle # pumps[g].cycle

OpenUnidled ==
  \A r \in Runs :
    session.cycle = r /\ log.idles[Agent(r)] # <<>> =>
      Agent(r) \in marks.settling \/ session.closing

LadderJoined == closer.pc \notin {"none", "join"} => aborts = {}

JoinInv ==
  /\ PromptJoined /\ CyclesJoined /\ OpenUnidled /\ LadderJoined
  /\ LadderMarks /\ SettledIsJoined

(* Only session/cancel starts an interrupt, of what is not settling.       *)
LEMMA AbortSources ==
  ASSUME TypeInv, [Next]_vars, NEW a \in aborts' \ aborts
  PROVE  /\ a.fg \in Current /\ a.fg \notin marks.settling
         /\ ~session.closing /\ Cancel
<1>1. ASSUME aborts' \subseteq aborts
      PROVE  FALSE
  BY <1>1
<1>2. ASSUME NEW t \in Turns, PromptStep(t)
      PROVE  FALSE
  BY <1>1, <1>2 DEF PromptStep, PromptInstall, Dispatch, Send, Reply, Lost,
     OwedFence, Accept, Wait, StopGrace, Settle, Join, TurnCommit, StopCommit,
     CommitFence, Terminal, Claim
<1>3. ASSUME NEW g \in Gens, PumpStep(g) \/ PiStep(g)
      PROVE  FALSE
  BY <1>1, <1>3 DEF PumpStep, PumpRead, PumpRoute, PumpHold, PumpHoldLost,
     PumpHoldDone, CycleSettle, CycleJoin, CycleStats, CycleCommit, CycleFence,
     CycleDrop, CycleIdle, CycleClear, RuntimeEnded, EndJoin, EndUnbind,
     EndRelease, PiStep, PiStarts, PiSettles, PiExits, PiClosesStdout
<1>4. ASSUME NEW o \in Ops, Admit(o) \/ Prepare(o) \/ EnsureStep(o) \/ Return(o)
      PROVE  FALSE
  BY <1>1, <1>4 DEF Admit, Prepare, EnsureStep, Return, EnsureRuntime,
     AwaitEnding, AwaitRetired, Launch, Bind, Configure, StopUnconfigured,
     OpenCheck, OpenPublish
<1>5. ASSUME NEW c \in Controls, ControlUse(c)
      PROVE  FALSE
  BY <1>1, <1>5 DEF ControlUse
<1>6. CASE EstablishStep
  BY <1>1, <1>6 DEF EstablishStep, EstablishCommit, EstablishRelease,
     EstablishHook, EstablishAbandon
<1>7. CASE CloseStep
  BY <1>1, <1>7 DEF CloseStep, CloseJoin, CloseAbort, CloseWait, CloseStop,
     CloseStopJoin, CloseGate, CloseCommit, CloseIdle, CloseFence
<1>8. CASE Close \/ (\E b \in aborts : Abort(b)) \/ UNCHANGED vars
  BY <1>1, <1>8 DEF Close, Abort, vars
<1>9. CASE Cancel
  <2>1. PICK f \in Current \ (marks.cancelled \cup marks.terminal) :
          aborts' = IF /\ f \notin marks.settling /\ session.runtime # 0
                       /\ ~session.closing /\ ~runtimes[session.runtime].ending
                      THEN aborts \cup {[fg |-> f, gen |-> session.runtime]}
                      ELSE aborts
    BY <1>9 DEF Cancel
  <2>2. a = [fg |-> f, gen |-> session.runtime]
    BY <2>1
  <2> QED BY <1>9, <2>1, <2>2
<1> QED BY <1>2, <1>3, <1>4, <1>5, <1>6, <1>7, <1>8, <1>9 DEF Next

(* A foreground that settles goes on to.                                   *)
LEMMA SettlingStays ==
  ASSUME TypeOK, [Next]_vars
  PROVE  marks.settling \subseteq marks'.settling
<1>1. marks \in MarksType
  BY DEF TypeOK
<1>2. ASSUME NEW t \in Turns, Settle(t) \/ Terminal(t)
      PROVE  marks.settling \subseteq marks'.settling
  BY <1>1, <1>2 DEF Settle, Terminal, MarksType
<1>3. ASSUME NEW g \in Gens, CycleSettle(g) \/ CycleIdle(g)
      PROVE  marks.settling \subseteq marks'.settling
  BY <1>1, <1>3 DEF CycleSettle, CycleIdle, MarksType
<1>4. CASE Cancel
  BY <1>1, <1>4 DEF Cancel, MarksType
<1>5. CASE Close \/ EstablishAbandon
  BY <1>1, <1>5 DEF Close, EstablishAbandon, BeginClose, MarksType
<1> QED BY <1>2, <1>3, <1>4, <1>5, MarkSources DEF Marking

(* A prompt past its wait moves by its own steps.                          *)
LEMMA SettlesAlone ==
  ASSUME TypeOK, [Next]_vars, NEW t \in Turns, op'[t].pc \in {"join"} \cup Joined
  PROVE  op'[t].pc = op[t].pc \/ Settle(t) \/ Join(t) \/ op[t].pc \in Joined
<1>1. op \in [Ops -> OpType] /\ t \in Ops
  BY DEF TypeOK, Ops
<1> SUFFICES ASSUME op'[t].pc # op[t].pc
             PROVE  Settle(t) \/ Join(t) \/ op[t].pc \in Joined
  OBVIOUS
<1>3. ASSUME NEW u \in Turns, PromptStep(u)
      PROVE  Settle(t) \/ Join(t) \/ op[t].pc \in Joined
  <2>1. \E p : Go(u, p)
    BY <1>3 DEF PromptStep, PromptInstall, Dispatch, Send, Reply, Lost,
       OwedFence, Accept, Wait, StopGrace, Settle, Join, TurnCommit, StopCommit,
       CommitFence, Terminal, Claim, ClaimFence
  <2>2. u = t
    BY <1>1, <2>1, GoesAlone DEF Ops
  <2>3. ASSUME NEW p, Go(t, p), p \notin {"join"} \cup Joined
        PROVE  FALSE
    BY <1>1, <2>3, GoesAlone
  <2>4. CASE PromptInstall(t) \/ Dispatch(t) \/ Send(t) \/ Reply(t) \/ Lost(t)
    BY <2>3, <2>4 DEF PromptInstall, Dispatch, Send, Reply, Lost, ClaimFence, Joined
  <2>5. CASE OwedFence(t) \/ Accept(t) \/ Wait(t) \/ StopGrace(t) \/ Claim(t)
    BY <2>3, <2>5 DEF OwedFence, Accept, Wait, StopGrace, Claim, ClaimFence, Joined
  <2>6. CASE Join(t) \/ TurnCommit(t) \/ StopCommit(t) \/ CommitFence(t) \/ Terminal(t)
    BY <2>6 DEF Join, TurnCommit, StopCommit, CommitFence, Terminal, Joined
  <2> QED BY <1>3, <2>2, <2>4, <2>5, <2>6 DEF PromptStep
<1>4. ASSUME NEW o \in Ops, Admit(o) \/ Prepare(o) \/ EnsureStep(o) \/ Return(o)
      PROVE  FALSE
  <2>1. ASSUME NEW p, Go(o, p), p \notin {"join"} \cup Joined
        PROVE  FALSE
    BY <1>1, <2>1, GoesAlone
  <2>2. ASSUME NEW q, op' = [op EXCEPT ![o] = q], q.pc \notin {"join"} \cup Joined
        PROVE  FALSE
    BY <1>1, <2>2
  <2>3. CASE Return(o) \/ EnsureRuntime(o) \/ Launch(o)
    BY <2>1, <2>2, <2>3 DEF Return, EnsureRuntime, Launch, Ensured, Joined
  <2>4. CASE Bind(o) \/ OpenCheck(o) \/ OpenPublish(o)
    BY <2>1, <2>4 DEF Bind, OpenCheck, OpenPublish, Ensured, OpenRefused, Joined
  <2> QED BY <1>4, <2>1, <2>3, <2>4 DEF Admit, Prepare, EnsureStep, AwaitEnding,
     AwaitRetired, Configure, StopUnconfigured, Joined
<1>5. ASSUME NEW c \in Controls, ControlUse(c)
      PROVE  FALSE
  <2>1. c \in Ops /\ c # t
    BY NamesAssumption DEF Ops
  <2> QED BY <1>1, <1>5, <2>1, GoesAlone DEF ControlUse
<1>6. CASE EstablishStep
  <2>1. Opening \in Ops /\ Opening # t
    BY NamesAssumption DEF Ops
  <2>2. ASSUME NEW p, Go(Opening, p) PROVE FALSE
    BY <1>1, <2>1, <2>2, GoesAlone
  <2>3. ASSUME NEW q, op' = [op EXCEPT ![Opening] = q] PROVE FALSE
    BY <1>1, <2>1, <2>3
  <2> QED BY <1>6, <2>2, <2>3 DEF EstablishStep, EstablishCommit,
             EstablishRelease, EstablishHook, EstablishAbandon
<1>8. ASSUME NEW g \in Gens, PumpStep(g) \/ PiStep(g)
      PROVE  FALSE
  BY <1>8 DEF PumpStep, PumpRead, PumpRoute, PumpHold, PumpHoldLost,
     PumpHoldDone, CycleSettle, CycleJoin, CycleStats, CycleCommit, CycleFence,
     CycleDrop, CycleIdle, CycleClear, RuntimeEnded, EndJoin, EndUnbind,
     EndRelease, PiStep, PiStarts, PiSettles, PiExits, PiClosesStdout
<1>9. CASE CloseStep
  BY <1>9 DEF CloseStep, CloseJoin, CloseAbort, CloseWait, CloseStop,
     CloseStopJoin, CloseGate, CloseCommit, CloseIdle, CloseFence
<1>10. CASE Cancel \/ Close \/ (\E a \in aborts : Abort(a)) \/ UNCHANGED vars
  BY <1>10 DEF Cancel, Close, Abort, vars
<1> QED BY <1>3, <1>4, <1>5, <1>6, <1>8, <1>9, <1>10 DEF Next

(* A pump moves by its own steps, or starts to read when it is bound.      *)
LEMMA PumpAlone ==
  ASSUME TypeOK, [Next]_vars, NEW g \in Gens, pumps'[g] # pumps[g]
  PROVE  \/ PumpStep(g)
         \/ pumps'[g].pc = "read" /\ \E o \in Ops : Bind(o) /\ op[o].at = g
<1>1. pumps \in [Gens -> PumpType]
  BY DEF TypeOK
<1>2. ASSUME NEW h \in Gens, PumpStep(h)
      PROVE  h = g
  <2>1. ASSUME NEW q, pumps' = [pumps EXCEPT ![h] = q]
        PROVE  h = g
    BY <1>1, <2>1
  <2>2. ASSUME NEW p, PumpAt(h, p)
        PROVE  h = g
    BY <2>1, <2>2 DEF PumpAt
  <2>3. CASE PumpRoute(h)
    BY <2>1, <2>2, <2>3 DEF PumpRoute, RouteToTurn, RouteToCycle, OpenAgentCycle,
       PumpRests
  <2>4. CASE PumpRead(h) \/ PumpHold(h) \/ PumpHoldLost(h) \/ PumpHoldDone(h)
    BY <1>1, <2>1, <2>4 DEF PumpRead, PumpHold, PumpHoldLost, PumpHoldDone, PumpDelivers
  <2>5. CASE CycleClear(h) \/ RuntimeEnded(h) \/ EndRelease(h)
    BY <1>1, <2>1, <2>5 DEF CycleClear, PumpDelivers, RuntimeEnded, EndRelease
  <2> QED BY <1>2, <2>2, <2>3, <2>4, <2>5
     DEF PumpStep, CycleSettle, CycleJoin, CycleStats, CycleCommit, CycleFence,
         CycleDrop, CycleIdle, EndJoin, EndUnbind
<1>3. ASSUME NEW o \in Ops, Bind(o)
      PROVE  pumps'[g].pc = "read" /\ op[o].at = g
  BY <1>1, <1>3 DEF Bind, PumpType
<1>4. CASE pumps' = pumps
  BY <1>4
<1> QED BY <1>2, <1>3, <1>4, PumpsSame

(* How a pump comes past the join of the cycle it settles.                 *)
LEMMA CycleSettlesAlone ==
  ASSUME TypeOK, [Next]_vars, NEW g \in Gens, pumps'[g] # pumps[g],
         pumps'[g].pc \in {"cycleJoin", "endJoin"} \cup CycleJoined
  PROVE  \/ RuntimeEnded(g) /\ pumps'[g].pc = "endJoin"
         \/ /\ pumps'[g].cycle = pumps[g].cycle
            /\ \/ CycleSettle(g) /\ pumps'[g].pc = "cycleJoin"
               \/ CycleJoin(g) /\ pumps'[g].pc \in CycleJoined
               \/ pumps[g].pc \in CycleJoined /\ pumps'[g].pc \in CycleJoined
<1>1. pumps \in [Gens -> PumpType] /\ PumpStep(g)
  BY PumpAlone DEF TypeOK, CycleJoined
<1>2. ASSUME NEW p, PumpAt(g, p)
      PROVE  pumps'[g].pc = p /\ pumps'[g].cycle = pumps[g].cycle
  BY <1>1, <1>2 DEF PumpAt, PumpType
<1>3. ASSUME NEW q, pumps' = [pumps EXCEPT ![g] = q], q.pc \in {"read", "route", "done"}
      PROVE  FALSE
  BY <1>1, <1>3 DEF CycleJoined
<1>4. ASSUME NEW todo
      PROVE  Rested(pumps[g], todo).pc = "read"
  BY <1>1 DEF Rested, PumpType
<1>5. CASE PumpRoute(g)
  BY <1>2, <1>3, <1>4, <1>5 DEF PumpRoute, RouteToTurn, RouteToCycle,
     OpenAgentCycle, PumpRests, CycleJoined
<1>6. CASE PumpRead(g)
  BY <1>1, <1>6 DEF PumpRead, PumpType, CycleJoined
<1>7. CASE PumpHold(g)
  BY <1>1, <1>7 DEF PumpHold, Holding, PumpType, CycleJoined
<1>8. CASE PumpHoldLost(g)
  BY <1>1, <1>3, <1>4, <1>8 DEF PumpHoldLost, Holding, PumpType, CycleJoined
<1>9. CASE PumpHoldDone(g) \/ CycleClear(g)
  BY <1>3, <1>4, <1>9 DEF PumpHoldDone, CycleClear, PumpDelivers
<1>10. CASE RuntimeEnded(g)
  BY <1>1, <1>10 DEF RuntimeEnded, PumpType, CycleJoined
<1>11. CASE EndRelease(g)
  BY <1>1, <1>11 DEF EndRelease, PumpType, CycleJoined
<1>12. CASE CycleSettle(g) \/ CycleJoin(g)
  BY <1>2, <1>12 DEF CycleSettle, CycleJoin, CycleJoined
<1>13. CASE CycleStats(g) \/ CycleCommit(g) \/ CycleFence(g) \/ CycleDrop(g)
  BY <1>2, <1>13 DEF CycleStats, CycleCommit, CycleFence, CycleDrop, CycleJoined
<1>14. CASE CycleIdle(g) \/ EndJoin(g) \/ EndUnbind(g)
  BY <1>2, <1>14 DEF CycleIdle, EndJoin, EndUnbind, CycleJoined
<1> QED BY <1>1, <1>5, <1>6, <1>7, <1>8, <1>9, <1>10, <1>11, <1>12, <1>13, <1>14
        DEF PumpStep

(* The ladder passes its join when no interrupt is under way.              *)
LEMMA LadderAlone ==
  ASSUME TypeOK, [Next]_vars, closer'.pc \notin {"none", "join"}
  PROVE  closer.pc \notin {"none", "join"} \/ CloseJoin
<1>1. ASSUME closer' = closer
      PROVE  closer.pc \notin {"none", "join"}
  BY <1>1
<1>2. ASSUME NEW t \in Turns, PromptStep(t)
      PROVE  closer' = closer
  BY <1>2, PromptOpens
<1>3. ASSUME NEW g \in Gens, PumpStep(g)
      PROVE  closer' = closer
  BY <1>3, PumpKept
<1>4. ASSUME NEW o \in Ops, Admit(o) \/ Prepare(o) \/ EnsureStep(o) \/ Return(o)
      PROVE  closer' = closer
  <2>1. CASE OpenCheck(o) \/ OpenPublish(o)
    BY <2>1 DEF OpenCheck, OpenPublish
  <2> QED BY <1>4, <2>1, GateKept, EnsureKept
<1>5. ASSUME NEW c \in Controls, ControlUse(c)
      PROVE  closer' = closer
  BY <1>5, GateKept DEF Ops
<1>6. CASE EstablishStep \/ Close
  BY <1>6, EstablishKept, BeginCloseKept DEF EstablishStep
<1>7. CASE CloseStep
  BY <1>7 DEF CloseStep, CloseAbort, CloseWait, CloseStop, CloseStopJoin,
     CloseGate, CloseCommit, CloseIdle, CloseFence
<1>8. CASE \/ Cancel \/ \E a \in aborts : Abort(a)
           \/ \E g \in Gens : PiStep(g)
           \/ UNCHANGED vars
  BY <1>8, OthersKept
<1> QED BY <1>1, <1>2, <1>3, <1>4, <1>5, <1>6, <1>7, <1>8 DEF Next

(* A run that opens a cycle opens its only one.                            *)
LEMMA OpensFresh ==
  ASSUME TypeInv, StartInv, NEW g \in Gens, NEW r \in Runs, Opens(g, r)
  PROVE  ~Opened(r) /\ log'.idles = log.idles /\ pumps'[g].pc = "read"
<1>1. ~Opened(r)
  BY OpensLast DEF StartInv
<1>2. log'.idles = log.idles
  BY DEF Opens, Accepted, TypeInv, TypeOK, LogType
<1>3. pumps'[g] = Rested(pumps[g], pumps[g].todo) /\ pumps[g] \in PumpType
  BY DEF Opens, OpenAgentCycle, PumpRests, TypeInv, TypeOK
<1>4. pumps'[g].pc = "read"
  BY <1>3 DEF Rested, PumpType
<1> QED BY <1>1, <1>2, <1>4

(* The names of foregrounds tell them apart.                               *)
LEMMA Apart ==
  /\ \A r, s : Agent(r) = Agent(s) <=> r = s
  /\ \A t, u : Prompted(t) = Prompted(u) <=> t = u
  /\ \A r, t : Agent(r) # Prompted(t)
  BY DEF Agent, Prompted

(* Every step keeps what the joins found.                                  *)
LEMMA JoinStep ==
  TypeInv /\ StartInv /\ FenceInv /\ JoinInv /\ [Next]_vars => JoinInv'
<1> SUFFICES ASSUME TypeInv, StartInv, FenceInv, JoinInv, [Next]_vars
             PROVE  JoinInv'
  OBVIOUS
<1>1. TypeOK
  BY DEF TypeInv
<1>2. marks.settling \subseteq marks'.settling
  BY <1>1, SettlingStays
<1>3. session.closing => session'.closing
  BY <1>1, ClosingStays
<1>4. ASSUME NEW a \in aborts', a.fg \in marks.settling \/ session.closing
      PROVE  a \in aborts
  BY <1>4, AbortSources
<1>5. PromptJoined'
  <2> SUFFICES ASSUME NEW t \in Turns
               PROVE  /\ op'[t].pc \in {"join"} \cup Joined =>
                           Prompted(t) \in marks'.settling
                      /\ op'[t].pc \in Joined => ~Interrupted(Prompted(t))'
                      /\ log'.idles[Prompted(t)] # <<>> =>
                           Prompted(t) \in marks'.settling
    BY DEF PromptJoined
  <2>1. ASSUME op'[t].pc \in {"join"} \cup Joined
        PROVE  Prompted(t) \in marks'.settling
    <3>1. CASE Settle(t)
      BY <1>1, <3>1 DEF Settle, TypeOK, MarksType
    <3>2. CASE Join(t) \/ op[t].pc \in {"join"} \cup Joined
      BY <1>2, <3>2 DEF Join, JoinInv, PromptJoined
    <3> QED BY <1>1, <2>1, <3>1, <3>2, SettlesAlone
  <2>2. ASSUME op'[t].pc \in Joined
        PROVE  ~Interrupted(Prompted(t))'
    <3>1. CASE Settle(t)
      <4>1. op'[t].pc = "join"
        BY <1>1, <3>1, GoesAlone DEF Settle, Ops
      <4> QED BY <2>2, <4>1 DEF Joined
    <3>2. CASE Join(t)
      BY <3>2 DEF Join, Interrupted
    <3>3. CASE op[t].pc \in Joined
      BY <1>4, <3>3 DEF JoinInv, PromptJoined, Interrupted
    <3> QED BY <1>1, <2>2, <3>1, <3>2, <3>3, SettlesAlone
  <2>3. ASSUME log'.idles[Prompted(t)] # <<>>
        PROVE  Prompted(t) \in marks'.settling
    <3>1. CASE log.idles[Prompted(t)] # <<>>
      BY <1>2, <3>1 DEF JoinInv, PromptJoined
    <3>2. CASE log.idles[Prompted(t)] = <<>>
      <4>1. Terminal(t)
        BY <2>3, <3>2, IdleOwner, Apart, ForegroundNames
      <4> QED BY <1>2, <4>1 DEF Terminal, JoinInv, PromptJoined, Joined
    <3> QED BY <3>1, <3>2
  <2> QED BY <2>1, <2>2, <2>3
<1>6. CyclesJoined'
  <2> SUFFICES ASSUME NEW g \in Gens
               PROVE  /\ pumps'[g].pc \in {"cycleJoin"} \cup CycleJoined =>
                           Agent(pumps'[g].cycle) \in marks'.settling
                      /\ pumps'[g].pc \in CycleJoined =>
                           ~Interrupted(Agent(pumps[g].cycle))'
                      /\ pumps'[g].pc = "endJoin" /\ pumps'[g].cycle # None =>
                           session'.cycle # pumps'[g].cycle
    BY DEF CyclesJoined, Interrupted
  <2>1. CASE pumps'[g] = pumps[g]
    <3>1. pumps[g].pc \in {"cycleJoin"} \cup CycleJoined =>
            Agent(pumps[g].cycle) \in marks'.settling
      BY <1>2 DEF JoinInv, CyclesJoined
    <3>2. ASSUME pumps[g].pc \in CycleJoined
          PROVE  ~Interrupted(Agent(pumps[g].cycle))'
      BY <1>4, <2>1, <3>2 DEF JoinInv, CyclesJoined, Interrupted
    <3>3. ASSUME pumps[g].pc = "endJoin", pumps[g].cycle # None
          PROVE  session'.cycle # pumps[g].cycle
      <4>1. pumps[g].cycle \in Runs
        BY <1>1, <3>3 DEF TypeOK, PumpType
      <4>2. session.cycle # pumps[g].cycle /\ Opened(pumps[g].cycle)
        BY <3>3 DEF JoinInv, CyclesJoined, Opened
      <4> QED BY <4>1, <4>2, CycleSources, OpensFresh
    <3> QED BY <2>1, <3>1, <3>2, <3>3
  <2>2. CASE pumps'[g] # pumps[g] /\ RuntimeEnded(g) /\ pumps'[g].pc = "endJoin"
    <3>1. pumps'[g].cycle # None => session'.cycle = None
      BY <1>1, <2>2 DEF RuntimeEnded, TypeOK, PumpType, SessionType
    <3> QED BY <2>2, <3>1 DEF CycleJoined
  <2>3. CASE /\ pumps'[g] # pumps[g] /\ pumps'[g].cycle = pumps[g].cycle
             /\ CycleSettle(g) /\ pumps'[g].pc = "cycleJoin"
    <3>1. Agent(pumps[g].cycle) \in marks'.settling
      BY <1>1, <2>3 DEF CycleSettle, TypeOK, MarksType
    <3> QED BY <2>3, <3>1 DEF CycleJoined
  <2>4. CASE /\ pumps'[g] # pumps[g] /\ pumps'[g].cycle = pumps[g].cycle
             /\ CycleJoin(g) /\ pumps'[g].pc \in CycleJoined
    <3>1. aborts' = {}
      BY <2>4 DEF CycleJoin
    <3>2. Agent(pumps[g].cycle) \in marks'.settling
      BY <1>2, <2>4 DEF CycleJoin, JoinInv, CyclesJoined
    <3> QED BY <2>4, <3>1, <3>2 DEF CycleJoined, Interrupted
  <2>5. CASE /\ pumps'[g] # pumps[g] /\ pumps'[g].cycle = pumps[g].cycle
             /\ pumps[g].pc \in CycleJoined /\ pumps'[g].pc \in CycleJoined
    <3>1. /\ Agent(pumps[g].cycle) \in marks.settling
          /\ ~Interrupted(Agent(pumps[g].cycle))
      BY <2>5 DEF JoinInv, CyclesJoined
    <3>2. ~ \E a \in aborts' : a.fg = Agent(pumps'[g].cycle)
      BY <1>4, <2>5, <3>1 DEF Interrupted
    <3> QED BY <1>2, <2>5, <3>1, <3>2 DEF CycleJoined, Interrupted
  <2>6. CASE pumps'[g].pc \notin {"cycleJoin", "endJoin"} \cup CycleJoined
    BY <2>6
  <2> QED BY <1>1, <2>1, <2>2, <2>3, <2>4, <2>5, <2>6, CycleSettlesAlone
<1>7. OpenUnidled'
  <2> SUFFICES ASSUME NEW r \in Runs, session'.cycle = r, log'.idles[Agent(r)] # <<>>
               PROVE  Agent(r) \in marks'.settling \/ session'.closing
    BY DEF OpenUnidled
  <2>1. session.cycle = r
    <3> SUFFICES ASSUME session.cycle # r PROVE FALSE
      OBVIOUS
    <3>1. PICK g \in Gens : Opens(g, r)
      BY CycleSources
    <3> QED BY <3>1, OpensFresh DEF Opened
  <2>2. CASE log.idles[Agent(r)] # <<>>
    BY <1>2, <1>3, <2>1, <2>2 DEF JoinInv, OpenUnidled
  <2>3. CASE log.idles[Agent(r)] = <<>>
    <3>1. CASE \E g \in Gens : CycleIdle(g) /\ Agent(r) = Agent(pumps[g].cycle)
      BY <1>2, <3>1 DEF CycleIdle, JoinInv, CyclesJoined, CycleJoined
    <3>2. CASE \E g \in Gens : EndJoin(g) /\ pumps[g].cycle # None
                               /\ Agent(r) = Agent(pumps[g].cycle)
      BY <2>1, <3>2, Apart DEF EndJoin, JoinInv, CyclesJoined
    <3>3. CASE CloseIdle
      BY <1>3, <3>3 DEF CloseIdle, JoinInv, LadderMarks
    <3> QED BY <2>3, <3>1, <3>2, <3>3, IdleOwner, Apart, ForegroundNames
  <2> QED BY <2>2, <2>3
<1>8. LadderJoined'
  <2> SUFFICES ASSUME closer'.pc \notin {"none", "join"}
               PROVE  aborts' = {}
    BY DEF LadderJoined
  <2>1. CASE CloseJoin
    BY <2>1 DEF CloseJoin
  <2>2. CASE closer.pc \notin {"none", "join"}
    BY <1>4, <2>2 DEF JoinInv, LadderJoined, LadderMarks
  <2> QED BY <1>1, <2>1, <2>2, LadderAlone
<1>9. LadderMarks'
  BY <1>1, FenceStep DEF FenceInv
<1>10. SettledIsJoined'
  <2> SUFFICES ASSUME NEW a \in aborts', log'.idles[a.fg] # <<>>
               PROVE  FALSE
    BY DEF SettledIsJoined
  <2>1. CASE a \in aborts
    <3>1. log.idles[a.fg] = <<>> /\ a.fg \in Foreground
      BY <1>1, <2>1 DEF JoinInv, SettledIsJoined, TypeOK
    <3>2. aborts # {}
      BY <2>1
    <3>3. ASSUME NEW t \in Turns, Terminal(t), a.fg = Prompted(t)
          PROVE  FALSE
      BY <2>1, <3>3 DEF Terminal, JoinInv, PromptJoined, Joined, Interrupted
    <3>4. ASSUME NEW g \in Gens, CycleIdle(g), a.fg = Agent(pumps[g].cycle)
          PROVE  FALSE
      BY <2>1, <3>4 DEF CycleIdle, JoinInv, CyclesJoined, CycleJoined, Interrupted
    <3>5. ASSUME NEW g \in Gens, EndJoin(g)
          PROVE  FALSE
      BY <3>2, <3>5 DEF EndJoin
    <3>6. ~CloseIdle
      BY <3>2 DEF CloseIdle, JoinInv, LadderJoined
    <3> QED BY <3>1, <3>3, <3>4, <3>5, <3>6, IdleOwner
  <2>2. CASE a \notin aborts
    <3>1. /\ a.fg \in Current /\ a.fg \notin marks.settling
          /\ ~session.closing /\ Cancel
      BY <2>2, AbortSources
    <3>2. log.idles[a.fg] # <<>>
      BY <3>1 DEF Cancel
    <3>3. CASE session.turn # None
      <4>1. session.turn \in Turns /\ a.fg = Prompted(session.turn)
        BY <1>1, <3>1, <3>3 DEF Current, TypeOK, SessionType
      <4> QED BY <3>1, <3>2, <4>1 DEF JoinInv, PromptJoined
    <3>4. CASE session.turn = None
      <4>1. session.cycle \in Runs /\ a.fg = Agent(session.cycle)
        BY <1>1, <3>1, <3>4 DEF Current, TypeOK, SessionType
      <4> QED BY <3>1, <3>2, <4>1 DEF JoinInv, OpenUnidled
    <3> QED BY <3>3, <3>4
  <2> QED BY <2>1, <2>2
<1> QED BY <1>5, <1>6, <1>7, <1>8, <1>9, <1>10 DEF JoinInv

(* Nothing was joined at first.                                            *)
LEMMA JoinInit == Init => JoinInv
<1> SUFFICES ASSUME Init PROVE JoinInv
  OBVIOUS
<1>1. \A f \in Foreground : log.idles[f] = <<>>
  BY DEF Init
<1>2. ASSUME NEW t \in Turns
      PROVE  op[t].pc \notin {"join"} \cup Joined
  <2>1. t \in Ops /\ t # Opening
    BY NamesAssumption DEF Ops
  <2>2. op[t].pc = "idle"
    BY <2>1 DEF Init
  <2> QED BY <2>2 DEF Joined
<1>3. \A g \in Gens : pumps[g].pc \notin {"cycleJoin", "endJoin"} \cup CycleJoined
  BY DEF Init, CycleJoined
<1>4. aborts = {} /\ closer.pc = "none"
  BY DEF Init
<1>5. PromptJoined
  BY <1>1, <1>2, ForegroundNames DEF PromptJoined, Ops
<1>6. CyclesJoined
  BY <1>3 DEF CyclesJoined
<1>7. OpenUnidled
  BY <1>1, ForegroundNames DEF OpenUnidled
<1> QED BY <1>4, <1>5, <1>6, <1>7
        DEF JoinInv, LadderJoined, LadderMarks, SettledIsJoined

(* No interrupt session/cancel started for a foreground outlives its       *)
(* terminal idle, whoever publishes it.                                    *)
THEOREM SettledAlwaysJoined == Spec => []SettledIsJoined
<1>1. Init => StartInv /\ JoinInv
  BY StartInit, JoinInit
<1>2. Init => FenceInv
  BY DEF Init, FenceInv, OpenHeld, LadderMarks, StaysFenced
<1>3. TypeInv /\ FenceInv /\ [Next]_vars => FenceInv'
  BY FenceStep DEF TypeInv
<1>4. JoinInv => SettledIsJoined
  BY DEF JoinInv
<1>5. Spec => []TypeInv
  BY TypeInvariant
<1> QED BY <1>1, <1>2, <1>3, <1>4, <1>5, StartStep, JoinStep, PTL DEF Spec

-----------------------------------------------------------------------------
(* The generations.  An incarnation of the stream is opened for a process  *)
(* nobody has opened one for: an operation that launched it takes it to    *)
(* the opening, and nothing was accepted there before.                     *)

(* An operation moves by its own steps.                                    *)
LEMMA OpAlone ==
  ASSUME TypeOK, [Next]_vars, NEW o \in Ops, op'[o] # op[o]
  PROVE  \/ o \in Ops \ {Opening} /\ Admit(o)
         \/ o \in Turns /\ PromptStep(o)
         \/ o \in Controls /\ ControlUse(o)
         \/ Prepare(o) \/ EnsureStep(o) \/ Return(o)
         \/ o = Opening /\ EstablishStep
<1>1. op \in [Ops -> OpType]
  BY DEF TypeOK
<1>2. ASSUME NEW u \in Ops, NEW q, op' = [op EXCEPT ![u] = q]
      PROVE  u = o
  BY <1>1, <1>2
<1>3. ASSUME NEW u \in Ops, NEW p, Go(u, p)
      PROVE  u = o
  BY <1>1, <1>2, <1>3 DEF Go
<1>4. ASSUME NEW u \in Turns, PromptStep(u)
      PROVE  u = o
  <2>1. \E p : Go(u, p)
    BY <1>4 DEF PromptStep, PromptInstall, Dispatch, Send, Reply, Lost,
       OwedFence, Accept, Wait, StopGrace, Settle, Join, TurnCommit, StopCommit,
       CommitFence, Terminal, Claim, ClaimFence
  <2> QED BY <1>3, <2>1 DEF Ops
<1>5. ASSUME NEW u \in Ops, Admit(u) \/ Prepare(u) \/ EnsureStep(u) \/ Return(u)
      PROVE  u = o
  <2>1. CASE Return(u) \/ EnsureRuntime(u) \/ Launch(u)
    BY <1>2, <1>3, <2>1 DEF Return, EnsureRuntime, Launch
  <2> QED BY <1>3, <1>5, <2>1 DEF Admit, Prepare, EnsureStep, AwaitEnding,
     AwaitRetired, Bind, Configure, StopUnconfigured, OpenCheck, OpenPublish
<1>6. ASSUME NEW c \in Controls, ControlUse(c)
      PROVE  c = o
  BY <1>3, <1>6 DEF ControlUse, Ops
<1>7. CASE EstablishStep
  <2>1. Opening \in Ops
    BY DEF Ops
  <2>2. Opening = o
    BY <1>2, <1>3, <1>7, <2>1 DEF EstablishStep, EstablishCommit,
       EstablishRelease, EstablishHook, EstablishAbandon
  <2> QED BY <1>7, <2>2
<1>8. ASSUME NEW g \in Gens, PumpStep(g) \/ PiStep(g)
      PROVE  op' = op
  BY <1>8 DEF PumpStep, PumpRead, PumpRoute, PumpHold, PumpHoldLost,
     PumpHoldDone, CycleSettle, CycleJoin, CycleStats, CycleCommit, CycleFence,
     CycleDrop, CycleIdle, CycleClear, RuntimeEnded, EndJoin, EndUnbind,
     EndRelease, PiStep, PiStarts, PiSettles, PiExits, PiClosesStdout
<1>9. CASE CloseStep
  BY <1>9 DEF CloseStep, CloseJoin, CloseAbort, CloseWait, CloseStop,
     CloseStopJoin, CloseGate, CloseCommit, CloseIdle, CloseFence
<1>10. CASE Cancel \/ Close \/ (\E a \in aborts : Abort(a)) \/ UNCHANGED vars
  BY <1>10 DEF Cancel, Close, Abort, vars
<1> QED BY <1>4, <1>5, <1>6, <1>7, <1>8, <1>9, <1>10 DEF Next

(* Only openStream opens an incarnation, for the process of its operation. *)
LEMMA StreamSources ==
  ASSUME TypeOK, [Next]_vars, stream' \notin {stream, 0}
  PROVE  \E o \in Ops : OpenPublish(o) /\ stream' = op[o].at
<1>1. ~NothingOpens
  BY DEF NothingOpens
<1>2. ASSUME NEW t \in Turns, PromptStep(t)
      PROVE  FALSE
  BY <1>1, <1>2, PromptOpens
<1>3. ASSUME NEW g \in Gens, PumpStep(g)
      PROVE  FALSE
  BY <1>1, <1>3, PumpKept
<1>4. ASSUME NEW o \in Ops, Admit(o) \/ Prepare(o) \/ EnsureStep(o) \/ Return(o)
      PROVE  OpenPublish(o) /\ stream' = op[o].at
  <2>1. CASE OpenCheck(o)
    BY <2>1 DEF OpenCheck
  <2>2. CASE OpenPublish(o)
    BY <2>2 DEF OpenPublish
  <2> QED BY <1>1, <1>4, <2>1, <2>2, GateKept, EnsureKept
<1>5. ASSUME NEW c \in Controls, ControlUse(c)
      PROVE  FALSE
  BY <1>1, <1>5, GateKept DEF Ops
<1>6. CASE EstablishStep \/ Close \/ CloseStep
  BY <1>1, <1>6, EstablishKept, BeginCloseKept, LadderKept DEF EstablishStep
<1>7. CASE \/ Cancel \/ \E a \in aborts : Abort(a)
           \/ \E g \in Gens : PiStep(g)
           \/ UNCHANGED vars
  BY <1>1, <1>7, OthersKept
<1> QED BY <1>2, <1>3, <1>4, <1>5, <1>6, <1>7 DEF Next

(* An opening is accepted by the open incarnation.                         *)
LEMMA AcceptedThere ==
  ASSUME TypeInv, [Next]_vars, NEW f \in Foreground,
         log'.accepted[f] # log.accepted[f]
  PROVE  stream # 0 /\ log'.accepted[f] = stream
<1>1. TypeOK /\ log \in LogType
  BY DEF TypeInv, TypeOK
<1>2. ASSUME NEW h \in Foreground, log' = Accepted(h)
      PROVE  stream # 0 /\ log'.accepted[f] = stream
  BY <1>1, <1>2 DEF Accepted, LogType
<1>3. ASSUME NEW g \in Gens, PumpRoute(g)
      PROVE  stream # 0 /\ log'.accepted[f] = stream
  BY <1>2, <1>3, RouteOpens, ForegroundNames DEF Opens
<1>4. ASSUME NEW t \in Turns, Accept(t)
      PROVE  stream # 0 /\ log'.accepted[f] = stream
  BY <1>2, <1>4, ForegroundNames DEF Accept, AcceptTurn
<1> QED BY <1>1, <1>3, <1>4, AcceptSources

(* A process is launched once, and only a launch makes one.                *)
LEMMA BirthSources ==
  ASSUME TypeOK, [Next]_vars, NEW g \in Gens, runtimes'[g].proc = "unborn"
  PROVE  runtimes[g].proc = "unborn"
<1>1. runtimes \in [Gens -> RuntimeType]
  BY DEF TypeOK
<1>2. ASSUME NEW h, Exited(h)
      PROVE  runtimes[g].proc = "unborn"
  BY <1>1, <1>2 DEF Exited, RuntimeType
<1>3. CASE runtimes' = runtimes
  BY <1>3
<1>4. ASSUME NEW t \in Turns, PromptStep(t)
      PROVE  runtimes[g].proc = "unborn"
  BY <1>2, <1>3, <1>4 DEF PromptStep, PromptInstall, Dispatch, Send, Reply, Lost,
     OwedFence, Accept, Wait, StopGrace, Settle, Join, TurnCommit, StopCommit,
     CommitFence, Terminal, Claim
<1>5. ASSUME NEW h \in Gens, PumpStep(h)
      PROVE  runtimes[g].proc = "unborn"
  <2>1. CASE PumpHoldLost(h) \/ CycleDrop(h)
    <3>1. PICK k : runtimes' = [runtimes EXCEPT ![h].killed = k]
      BY <2>1 DEF PumpHoldLost, CycleDrop
    <3> QED BY <1>1, <3>1 DEF RuntimeType
  <2>2. CASE RuntimeEnded(h)
    <3>1. runtimes' = [runtimes EXCEPT ![h].ending = TRUE] \/ runtimes' = runtimes
      BY <2>2 DEF RuntimeEnded
    <3> QED BY <1>1, <3>1 DEF RuntimeType
  <2>3. CASE EndRelease(h)
    BY <1>1, <2>3 DEF EndRelease, RuntimeType
  <2> QED BY <1>3, <1>5, <2>1, <2>2, <2>3 DEF PumpStep, PumpRead, PumpRoute, PumpHold,
     PumpHoldDone, CycleSettle, CycleJoin, CycleStats, CycleCommit, CycleFence,
     CycleIdle, CycleClear, EndJoin, EndUnbind
<1>6. ASSUME NEW o \in Ops, Admit(o) \/ Prepare(o) \/ EnsureStep(o) \/ Return(o)
      PROVE  runtimes[g].proc = "unborn"
  <2>1. CASE Launch(o)
    BY <1>1, <2>1 DEF Launch, RuntimeType
  <2> QED BY <1>2, <1>3, <1>6, <2>1 DEF Admit, Prepare, EnsureStep, Return,
     EnsureRuntime, AwaitEnding, AwaitRetired, Bind, Configure,
     StopUnconfigured, OpenCheck, OpenPublish
<1>7. ASSUME NEW c \in Controls, ControlUse(c)
      PROVE  runtimes[g].proc = "unborn"
  BY <1>7 DEF ControlUse
<1>8. CASE EstablishStep
  BY <1>8 DEF EstablishStep, EstablishCommit, EstablishRelease, EstablishHook,
     EstablishAbandon
<1>9. ASSUME NEW h \in Gens, PiStep(h)
      PROVE  runtimes[g].proc = "unborn"
  <2>1. CASE PiClosesStdout(h)
    BY <1>1, <2>1 DEF PiClosesStdout, RuntimeType
  <2> QED BY <1>2, <1>3, <1>9, <2>1 DEF PiStep, PiStarts, PiSettles, PiExits
<1>10. CASE CloseStep
  BY <1>2, <1>3, <1>10 DEF CloseStep, CloseJoin, CloseAbort, CloseWait,
     CloseStop, CloseStopJoin, CloseGate, CloseCommit, CloseIdle, CloseFence
<1>11. CASE Cancel \/ Close \/ (\E a \in aborts : Abort(a)) \/ UNCHANGED vars
  BY <1>3, <1>11 DEF Cancel, Close, Abort, vars
<1> QED BY <1>4, <1>5, <1>6, <1>7, <1>8, <1>9, <1>10, <1>11 DEF Next

(* Only Bind binds a process.                                              *)
LEMMA BindingSources ==
  ASSUME TypeOK, [Next]_vars, session'.runtime \notin {session.runtime, 0}
  PROVE  \E o \in Ops : Bind(o) /\ session'.runtime = op[o].at
<1>1. ~BindingKept
  BY DEF BindingKept
<1>2. ASSUME NEW t \in Turns, PromptStep(t)
      PROVE  FALSE
  BY <1>1, <1>2, PromptQuiet DEF Quiet
<1>3. ASSUME NEW g \in Gens, PumpStep(g) \/ PiStep(g)
      PROVE  FALSE
  BY <1>1, <1>3, PumpQuiet, PiQuiet DEF Quiet
<1>4. ASSUME NEW o \in Ops, Admit(o) \/ Prepare(o) \/ EnsureStep(o) \/ Return(o)
      PROVE  Bind(o) /\ session'.runtime = op[o].at
  <2>1. CASE Bind(o)
    BY <2>1 DEF Bind, TypeOK, SessionType
  <2>2. CASE Admit(o) \/ Return(o) \/ AwaitRetired(o)
    BY <2>2 DEF Admit, Return, AwaitRetired, TypeOK, SessionType
  <2>3. CASE EnsureRuntime(o) \/ Launch(o)
    BY <2>3 DEF EnsureRuntime, Launch
  <2> QED BY <1>1, <1>4, <2>1, <2>2, <2>3, EnsureQuiet DEF EnsureStep, Quiet
<1>5. ASSUME NEW c \in Controls, ControlUse(c)
      PROVE  FALSE
  BY <1>1, <1>5, ControlQuiet DEF Quiet
<1>6. CASE EstablishStep
  <2>1. CASE EstablishRelease \/ EstablishHook
    BY <2>1 DEF EstablishRelease, EstablishHook, TypeOK, SessionType
  <2>2. CASE EstablishAbandon
    <3> DEFINE released == [session EXCEPT !.gate = None]
    <3>1. session' = [released EXCEPT !.closing = TRUE] \/ session' = released
      BY <2>2 DEF EstablishAbandon, BeginClose
    <3> QED BY <3>1 DEF TypeOK, SessionType
  <2> QED BY <1>1, <1>6, <2>1, <2>2, EstablishCommitQuiet DEF EstablishStep, Quiet
<1>7. CASE CloseStep
  <2>1. CASE CloseGate \/ CloseFence
    BY <2>1 DEF CloseGate, CloseFence, TypeOK, SessionType
  <2> QED BY <1>1, <1>7, <2>1, CloseQuiet DEF Quiet, CloseStep
<1>8. CASE Cancel \/ Close \/ (\E a \in aborts : Abort(a))
  BY <1>1, <1>8, ClientQuiet DEF Quiet
<1>9. CASE UNCHANGED vars
  BY <1>9 DEF vars
<1> QED BY <1>2, <1>3, <1>4, <1>5, <1>6, <1>7, <1>8, <1>9 DEF Next

Born(g) == g \in Gens /\ runtimes[g].proc # "unborn"

Unused(g) == stream # g /\ \A f \in Foreground : log.accepted[f] # g

(* Where an operation holds a process whose incarnation is yet to open.    *)
Launching == {"bind", "configure", "openCheck", "openPublish", "release", "hook"}

(* The way of the establishment, and its part before the opening.          *)
BeforeOpening == {"commit", "release", "hook", "openCheck", "openPublish"}

OpeningPath == BeforeOpening \cup {"abandon", "return", "done"}

LaunchesUnused ==
  \A o \in Ops :
    op[o].pc \in Launching => op[o].at = 0 \/ (Born(op[o].at) /\ Unused(op[o].at))

UnbornUnused ==
  \A g \in Gens :
    runtimes[g].proc = "unborn" => session.runtime # g /\ Unused(g)

OpeningFirst ==
  /\ op[Opening].pc \in OpeningPath
  /\ op[Opening].pc # "done" => \A o \in Ops \ {Opening} : op[o].pc = "idle"
  /\ op[Opening].pc \in BeforeOpening =>
       stream = 0 /\ \A f \in Foreground : log.accepted[f] = 0
  /\ \A o \in Ops \ {Opening} : op[o].pc \notin {"release", "hook"}

GenInv == LaunchesUnused /\ UnbornUnused /\ OpeningFirst

(* How an operation comes to hold an unopened process.                     *)
LEMMA LaunchPoints ==
  ASSUME TypeOK, [Next]_vars, NEW o \in Ops, op'[o].pc \in Launching
  PROVE  \/ /\ op[o].pc \in Launching /\ op'[o].at = op[o].at
            /\ ~OpenPublish(o)
         \/ /\ Launch(o) /\ op'[o].pc = "bind" /\ op'[o].at \in Gens
            /\ runtimes[op'[o].at].proc = "unborn"
            /\ runtimes'[op'[o].at].proc = "alive"
            /\ stream' = stream /\ log' = log
         \/ o = Opening /\ EstablishCommit /\ op'[o].at = session.runtime
<1>1. op \in [Ops -> OpType]
  BY DEF TypeOK
<1>2. ASSUME NEW p, Go(o, p)
      PROVE  op'[o].pc = p /\ op'[o].at = op[o].at
  BY <1>1, <1>2 DEF Go, OpType
<1>3. ASSUME OpenPublish(o)
      PROVE  FALSE
  BY <1>2, <1>3 DEF OpenPublish, Ensured, OpenRefused, Launching
<1>4. CASE op'[o] = op[o]
  BY <1>3, <1>4
<1>5. CASE o \in Turns /\ PromptStep(o)
  <2>1. \E p : p \notin Launching /\ Go(o, p)
    <3>1. CASE PromptInstall(o) \/ Dispatch(o) \/ Send(o) \/ Reply(o) \/ Lost(o)
      BY <3>1 DEF PromptInstall, Dispatch, Send, Reply, Lost, ClaimFence, Launching
    <3>2. CASE OwedFence(o) \/ Accept(o) \/ Wait(o) \/ StopGrace(o) \/ Claim(o)
      BY <3>2 DEF OwedFence, Accept, Wait, StopGrace, Claim, ClaimFence, Launching
    <3>3. CASE Settle(o) \/ Join(o) \/ TurnCommit(o) \/ StopCommit(o)
               \/ CommitFence(o) \/ Terminal(o)
      BY <3>3 DEF Settle, Join, TurnCommit, StopCommit, CommitFence, Terminal, Launching
    <3> QED BY <1>5, <3>1, <3>2, <3>3 DEF PromptStep
  <2> QED BY <1>2, <2>1
<1>6. CASE Admit(o) \/ Prepare(o) \/ Return(o)
  <2>1. CASE Return(o)
    BY <1>1, <2>1 DEF Return, Launching
  <2> QED BY <1>2, <1>6, <2>1 DEF Admit, Prepare, Launching
<1>7. CASE o \in Controls /\ ControlUse(o)
  BY <1>2, <1>7 DEF ControlUse, Launching
<1>8. CASE EnsureStep(o)
  <2>1. CASE EnsureRuntime(o)
    BY <1>1, <2>1 DEF EnsureRuntime, Ensured, Launching
  <2>2. CASE AwaitEnding(o) \/ AwaitRetired(o) \/ StopUnconfigured(o)
    BY <1>2, <2>2 DEF AwaitEnding, AwaitRetired, StopUnconfigured, Launching
  <2>3. CASE Launch(o)
    <3>1. CASE Go(o, "return")
      BY <1>2, <3>1 DEF Launching
    <3>2. CASE ~Go(o, "return")
      <4>1. PICK g \in Gens : /\ runtimes[g].proc = "unborn"
                              /\ runtimes' = [runtimes EXCEPT ![g].proc = "alive"]
                              /\ op' = [op EXCEPT ![o] = [pc |-> "bind", at |-> g]]
        BY <2>3, <3>2 DEF Launch
      <4>2. op'[o].pc = "bind" /\ op'[o].at = g
        BY <1>1, <4>1
      <4>3. runtimes'[g].proc = "alive"
        BY <4>1 DEF TypeOK, RuntimeType
      <4>4. stream' = stream /\ log' = log
        BY <2>3 DEF Launch
      <4> QED BY <2>3, <4>1, <4>2, <4>3, <4>4
    <3> QED BY <3>1, <3>2
  <2>4. CASE Bind(o) \/ Configure(o) \/ OpenCheck(o)
    BY <1>2, <1>3, <2>4 DEF Bind, Configure, OpenCheck, Launching
  <2> QED BY <1>3, <1>8, <2>1, <2>2, <2>3, <2>4 DEF EnsureStep
<1>9. CASE o = Opening /\ EstablishStep
  <2>1. CASE EstablishCommit
    <3>1. CASE Go(o, "abandon")
      BY <1>2, <3>1 DEF Launching
    <3>2. CASE op' = [op EXCEPT ![Opening] = [pc |-> "release", at |-> session.runtime]]
      BY <1>1, <1>9, <2>1, <3>2
    <3> QED BY <1>9, <2>1, <3>1, <3>2 DEF EstablishCommit
  <2>2. CASE EstablishRelease \/ EstablishHook
    BY <1>2, <1>3, <1>9, <2>2 DEF EstablishRelease, EstablishHook, Launching
  <2>3. CASE EstablishAbandon
    BY <1>2, <1>9, <2>3 DEF EstablishAbandon, Launching
  <2> QED BY <1>9, <2>1, <2>2, <2>3 DEF EstablishStep
<1> QED BY <1>4, <1>5, <1>6, <1>7, <1>8, <1>9, OpAlone

(* The establishment comes first.                                          *)
LEMMA OpeningMoves ==
  ASSUME TypeOK, [Next]_vars, op[Opening].pc \in OpeningPath
  PROVE  /\ op'[Opening].pc \in OpeningPath
         /\ op'[Opening].pc \in BeforeOpening =>
              op[Opening].pc \in BeforeOpening /\ ~OpenPublish(Opening)
         /\ op'[Opening].pc # "done" => op[Opening].pc # "done"
<1>1. op \in [Ops -> OpType] /\ Opening \in Ops /\ Opening \notin Turns \cup Controls
  BY NamesAssumption DEF TypeOK, Ops
<1>2. ASSUME NEW p, Go(Opening, p)
      PROVE  op'[Opening].pc = p
  BY <1>1, <1>2 DEF Go, OpType
<1> USE DEF OpeningPath, BeforeOpening
<1>3. OpenPublish(Opening) => op'[Opening].pc \in {"return", "abandon"}
  BY <1>1, <1>2 DEF OpenPublish, Ensured, OpenRefused
<1>4. CASE op'[Opening] = op[Opening]
  BY <1>3, <1>4
<1>5. CASE Prepare(Opening) \/ EnsureStep(Opening)
  <2>1. CASE OpenCheck(Opening)
    BY <1>2, <1>3, <2>1 DEF OpenCheck, OpenRefused
  <2> QED BY <1>3, <1>5, <2>1 DEF Prepare, EnsureStep, EnsureRuntime, AwaitEnding,
     AwaitRetired, Launch, Bind, Configure, StopUnconfigured, OpenPublish
<1>6. CASE Return(Opening)
  BY <1>1, <1>6 DEF Return
<1>7. CASE EstablishStep
  <2>1. CASE EstablishCommit
    BY <1>1, <1>2, <1>3, <2>1 DEF EstablishCommit
  <2> QED BY <1>2, <1>3, <1>7, <2>1 DEF EstablishStep, EstablishRelease,
     EstablishHook, EstablishAbandon
<1> QED BY <1>1, <1>4, <1>5, <1>6, <1>7, OpAlone

(* Only the establishment lets the gate go before its opening.             *)
LEMMA OnlyOpening ==
  ASSUME TypeOK, [Next]_vars, NEW o \in Ops, o # Opening,
         op'[o].pc \in {"release", "hook"}
  PROVE  op'[o] = op[o]
<1>1. op \in [Ops -> OpType]
  BY DEF TypeOK
<1>2. ASSUME NEW p, Go(o, p)
      PROVE  op'[o].pc = p
  BY <1>1, <1>2 DEF Go, OpType
<1>3. ASSUME PromptStep(o)
      PROVE  \E p : p \notin {"release", "hook"} /\ Go(o, p)
  <2>1. CASE PromptInstall(o) \/ Dispatch(o) \/ Send(o) \/ Reply(o) \/ Lost(o)
    BY <2>1 DEF PromptInstall, Dispatch, Send, Reply, Lost, ClaimFence
  <2>2. CASE OwedFence(o) \/ Accept(o) \/ Wait(o) \/ StopGrace(o) \/ Claim(o)
    BY <2>2 DEF OwedFence, Accept, Wait, StopGrace, Claim, ClaimFence
  <2>3. CASE Settle(o) \/ Join(o) \/ TurnCommit(o) \/ StopCommit(o)
             \/ CommitFence(o) \/ Terminal(o)
    BY <2>3 DEF Settle, Join, TurnCommit, StopCommit, CommitFence, Terminal
  <2> QED BY <1>3, <2>1, <2>2, <2>3 DEF PromptStep
<1>4. ASSUME Return(o) \/ EnsureRuntime(o)
      PROVE  FALSE
  BY <1>1, <1>4 DEF Return, EnsureRuntime, Ensured
<1>5. ASSUME Launch(o)
      PROVE  FALSE
  BY <1>1, <1>2, <1>5 DEF Launch
<1>6. ASSUME OpenCheck(o) \/ OpenPublish(o)
      PROVE  FALSE
  BY <1>2, <1>6 DEF OpenCheck, OpenPublish, OpenRefused, Ensured
<1>7. ASSUME \/ Admit(o) \/ Prepare(o) \/ ControlUse(o) \/ AwaitEnding(o)
             \/ AwaitRetired(o) \/ Bind(o) \/ Configure(o) \/ StopUnconfigured(o)
      PROVE  FALSE
  BY <1>2, <1>7 DEF Admit, Prepare, ControlUse, AwaitEnding, AwaitRetired, Bind,
     Configure, StopUnconfigured
<1> QED BY <1>2, <1>3, <1>4, <1>5, <1>6, <1>7, OpAlone DEF EnsureStep

(* Every step keeps what is known of the generations.                      *)
LEMMA GenStep == TypeInv /\ ProcInv /\ GenInv /\ [Next]_vars => GenInv'
<1> SUFFICES ASSUME TypeInv, ProcInv, GenInv, [Next]_vars PROVE GenInv'
  OBVIOUS
<1>1. TypeOK /\ Opening \in Ops
  BY DEF TypeInv, Ops
<1>2. \A g \in Gens : runtimes'[g].proc = "unborn" => runtimes[g].proc = "unborn"
  BY <1>1, BirthSources
<1>3. \A g : g \in Gens => g # 0
  BY DEF Gens
  (* Nobody publishes an opening beside an operation that is to publish one. *)
<1>4. ASSUME NEW o \in Ops, op[o].pc \in Launching, NEW u \in Ops, OpenPublish(u)
      PROVE  u = o
  <2>1. op[u].pc = "openPublish"
    BY <1>4 DEF OpenPublish
  <2>2. session.gate = u
    BY <2>1 DEF ProcInv, GateHeld, GateFree
  <2>3. CASE op[o].pc # "hook"
    BY <1>4, <2>2, <2>3 DEF ProcInv, GateHeld, GateFree, Launching
  <2>4. CASE op[o].pc = "hook" /\ o = Opening
    BY <2>1, <2>4 DEF GenInv, OpeningFirst
  <2>5. CASE op[o].pc = "hook" /\ o # Opening
    BY <2>5 DEF GenInv, OpeningFirst
  <2> QED BY <2>3, <2>4, <2>5
  (* What is unused is used only by the opening of its incarnation. *)
<1>5. ASSUME NEW g, g # 0, Unused(g),
             \A u \in Ops : OpenPublish(u) => op[u].at # g
      PROVE  Unused(g)'
  <2>1. stream' # g
    BY <1>1, <1>5, StreamSources DEF Unused
  <2>2. ASSUME NEW f \in Foreground
        PROVE  log'.accepted[f] # g
    BY <1>5, AcceptedThere DEF Unused
  <2> QED BY <2>1, <2>2 DEF Unused
<1>6. OpeningFirst'
  <2>1. op'[Opening].pc \in OpeningPath
    BY <1>1, OpeningMoves DEF GenInv, OpeningFirst
  <2>2. ASSUME op'[Opening].pc # "done", NEW o \in Ops \ {Opening}
        PROVE  op'[o].pc = "idle"
    <3>1. op[Opening].pc # "done" /\ op[o].pc = "idle"
      BY <1>1, <2>2, OpeningMoves DEF GenInv, OpeningFirst
    <3>2. op'[o] = op[o]
      <4>1. ~Admit(o) /\ ~Prepare(o) /\ ~EnsureStep(o) /\ ~Return(o)
        BY <3>1 DEF Admit, Prepare, EnsureStep, Return, EnsureRuntime,
           AwaitEnding, AwaitRetired, Launch, Bind, Configure, StopUnconfigured,
           OpenCheck, OpenPublish
      <4>2. ~PromptStep(o) /\ ~ControlUse(o)
        BY <3>1 DEF PromptStep, PromptInstall, Dispatch, Send, Reply, Lost,
           OwedFence, Accept, Wait, StopGrace, Settle, Join, TurnCommit,
           StopCommit, CommitFence, Terminal, Claim, ControlUse
      <4> QED BY <1>1, <4>1, <4>2, OpAlone
    <3> QED BY <3>1, <3>2
  <2>3. ASSUME op'[Opening].pc \in BeforeOpening
        PROVE  stream' = 0 /\ \A f \in Foreground : log'.accepted[f] = 0
    <3>1. /\ op[Opening].pc \in BeforeOpening /\ ~OpenPublish(Opening)
          /\ stream = 0 /\ \A f \in Foreground : log.accepted[f] = 0
      BY <1>1, <2>3, OpeningMoves DEF GenInv, OpeningFirst
    <3>2. \A o \in Ops \ {Opening} : ~OpenPublish(o)
      BY <3>1 DEF GenInv, OpeningFirst, BeforeOpening, OpenPublish
    <3>3. stream' = 0
      BY <1>1, <3>1, <3>2, StreamSources
    <3> QED BY <3>1, <3>3, AcceptedThere
  <2>4. ASSUME NEW o \in Ops \ {Opening}
        PROVE  op'[o].pc \notin {"release", "hook"}
    BY <1>1, <2>4, OnlyOpening DEF GenInv, OpeningFirst
  <2> QED BY <2>1, <2>2, <2>3, <2>4 DEF OpeningFirst
<1>7. LaunchesUnused'
  <2> SUFFICES ASSUME NEW o \in Ops, op'[o].pc \in Launching, NEW g,
                      g = op'[o].at, g # 0
               PROVE  /\ g \in Gens /\ runtimes'[g].proc # "unborn"
                      /\ stream' # g /\ \A f \in Foreground : log'.accepted[f] # g
    BY DEF LaunchesUnused, Born, Unused
  <2>1. CASE /\ op[o].pc \in Launching /\ op'[o].at = op[o].at
             /\ ~OpenPublish(o)
    <3>1. Born(g) /\ Unused(g)
      BY <2>1 DEF GenInv, LaunchesUnused
    <3>2. \A u \in Ops : OpenPublish(u) => op[u].at # g
      BY <1>4, <2>1
    <3>3. Unused(g)'
      BY <1>5, <3>1, <3>2
    <3> QED BY <1>2, <3>1, <3>3 DEF Born, Unused
  <2>2. CASE /\ Launch(o) /\ op'[o].pc = "bind" /\ op'[o].at \in Gens
             /\ runtimes[op'[o].at].proc = "unborn"
             /\ runtimes'[op'[o].at].proc = "alive"
             /\ stream' = stream /\ log' = log
    BY <2>2 DEF GenInv, UnbornUnused, Unused
  <2>3. CASE o = Opening /\ EstablishCommit /\ op'[o].at = session.runtime
    <3>1. g \in Gens /\ g = session.runtime
      BY <1>1, <2>3, BoundsAssumption DEF BoundsAssumption, TypeOK, SessionType, Gens
    <3>2. runtimes'[g].proc # "unborn"
      BY <1>2, <3>1 DEF GenInv, UnbornUnused
    <3>3. stream' = 0 /\ \A f \in Foreground : log'.accepted[f] = 0
      <4>1. op[Opening].pc = "commit" /\ stream' = stream
            /\ log'.accepted = log.accepted
        BY <1>1, <2>3 DEF EstablishCommit, CommitMirror, TypeOK, LogType
      <4> QED BY <4>1 DEF GenInv, OpeningFirst, BeforeOpening
    <3> QED BY <3>1, <3>2, <3>3
  <2> QED BY <1>1, <2>1, <2>2, <2>3, LaunchPoints
<1>8. UnbornUnused'
  <2> SUFFICES ASSUME NEW g \in Gens, runtimes'[g].proc = "unborn"
               PROVE  session'.runtime # g /\ Unused(g)'
    BY DEF UnbornUnused
  <2>1. runtimes[g].proc = "unborn" /\ session.runtime # g /\ Unused(g)
    BY <1>2 DEF GenInv, UnbornUnused
  <2>2. ASSUME NEW u \in Ops, op[u].pc \in Launching
        PROVE  op[u].at # g
    BY <2>1, <2>2, <1>3 DEF GenInv, LaunchesUnused, Born
  <2>3. Unused(g)'
    BY <1>3, <1>5, <2>1, <2>2 DEF OpenPublish, Launching
  <2>4. session'.runtime # g
    BY <1>1, <1>3, <2>1, <2>2, BindingSources DEF Bind, Launching
  <2> QED BY <2>3, <2>4
<1> QED BY <1>6, <1>7, <1>8 DEF GenInv

(* The first process is bound and its incarnation not open.                *)
LEMMA GenInit == Init => GenInv
<1> SUFFICES ASSUME Init PROVE GenInv
  OBVIOUS
<1>1. /\ Opening \in Ops /\ op[Opening].pc = "commit"
      /\ \A o \in Ops \ {Opening} : op[o].pc = "idle"
  BY DEF Init, Ops
<1>2. LaunchesUnused
  BY <1>1 DEF LaunchesUnused, Launching
<1>3. UnbornUnused
  BY ForegroundNames DEF Init, UnbornUnused, Unused, Gens
<1>4. OpeningFirst
  BY <1>1 DEF OpeningFirst, OpeningPath, BeforeOpening, Init
<1> QED BY <1>2, <1>3, <1>4 DEF GenInv

-----------------------------------------------------------------------------
(* SuccessIsDurable.  A pump has the settlement of a run only once pi has  *)
(* written the run's rows, so the commit of a cycle stores them; a cycle   *)
(* whose commit failed fences the incarnation it was opened on, and the    *)
(* next incarnation is another one.                                        *)

(* The records pi may have written.                                        *)
Told == {x \in Record : x.kind = "settled" => x.run \in log.ran}

Tells(p, K) ==
  /\ p.hold \in Seq(K) /\ p.todo \in Seq(K)
  /\ p.pc \in {"route"} \cup CyclePoints => p.rec \in K
  /\ p.pc \in CyclePoints => p.rec.kind = "settled"

RecordsRan == \A g \in Gens : Tells(pumps[g], Told) /\ pi[g].out \in Seq(Told)

(* The incarnation a cycle was opened on is no longer the open one.        *)
Fenced(r) == stream = 0 \/ stream # log.accepted[Agent(r)]

CyclesStored ==
  \A g \in Gens :
    /\ pumps[g].pc = "cycleDrop" => Fenced(pumps[g].cycle)
    /\ pumps[g].pc = "cycleIdle" =>
         pumps[g].rec.run \in log.durable \/ Fenced(pumps[g].cycle)

(* What pi ran and the store holds is not lost.                            *)
LEMMA LogGrows ==
  ASSUME TypeOK, [Next]_vars
  PROVE  log.ran \subseteq log'.ran /\ log.durable \subseteq log'.durable
<1> USE DEF TypeOK, LogType
<1> DEFINE Grows == log.ran \subseteq log'.ran /\ log.durable \subseteq log'.durable
<1>1. ASSUME NEW t \in Turns, PromptStep(t)
      PROVE  Grows
  <2>1. CASE TurnCommit(t) \/ Terminal(t)
    BY <2>1 DEF TurnCommit, CommitMirror, Terminal, Idled
  <2>2. CASE Send(t) \/ Accept(t)
    BY <2>2 DEF Send, Accept, AcceptTurn, Accepted
  <2> QED BY <1>1, <2>1, <2>2
          DEF PromptStep, PromptInstall, Dispatch, Reply, Lost, OwedFence, Wait,
              StopGrace, Settle, Join, StopCommit, CommitFence, Claim
<1>2. ASSUME NEW g \in Gens, PumpStep(g)
      PROVE  Grows
  <2>1. CASE PumpRoute(g)
    BY <2>1 DEF PumpRoute, RouteToTurn, RouteToCycle, OpenAgentCycle, Accepted
  <2>2. CASE CycleCommit(g) \/ CycleIdle(g) \/ EndJoin(g)
    BY <2>2 DEF CycleCommit, CommitMirror, CycleIdle, EndJoin, Idled
  <2> QED BY <1>2, <2>1, <2>2
          DEF PumpStep, PumpRead, PumpHold, PumpHoldLost, PumpHoldDone,
              CycleSettle, CycleJoin, CycleStats, CycleFence, CycleDrop,
              CycleClear, RuntimeEnded, EndUnbind, EndRelease
<1>3. ASSUME NEW o \in Ops, Admit(o) \/ Prepare(o) \/ EnsureStep(o) \/ Return(o)
      PROVE  Grows
  BY <1>3 DEF Admit, Prepare, EnsureStep, Return, EnsureRuntime, AwaitEnding,
     AwaitRetired, Launch, Bind, Configure, StopUnconfigured, OpenCheck, OpenPublish
<1>4. ASSUME NEW c \in Controls, ControlUse(c)
      PROVE  Grows
  BY <1>4 DEF ControlUse, CommitMirror
<1>5. CASE EstablishStep
  BY <1>5 DEF EstablishStep, EstablishCommit, EstablishRelease, EstablishHook,
     EstablishAbandon, CommitMirror
<1>6. ASSUME NEW g \in Gens, PiStep(g)
      PROVE  Grows
  BY <1>6 DEF PiStep, PiStarts, PiSettles, PiExits, PiClosesStdout
<1>7. CASE CloseStep
  <2>1. CASE CloseCommit \/ CloseIdle
    BY <2>1 DEF CloseCommit, CloseIdle, CommitMirror, Idled
  <2> QED BY <1>7, <2>1 DEF CloseStep, CloseJoin, CloseAbort, CloseWait,
     CloseStop, CloseStopJoin, CloseGate, CloseFence
<1>8. CASE Cancel \/ Close \/ (\E a \in aborts : Abort(a)) \/ UNCHANGED vars
  BY <1>8 DEF Cancel, Close, Abort, vars
<1> QED BY <1>1, <1>2, <1>3, <1>4, <1>5, <1>6, <1>7, <1>8 DEF Next

(* A record that pi may have written it has still written later.           *)
LEMMA TellsMore ==
  ASSUME NEW p, NEW K, NEW L, K \subseteq L, Tells(p, K)
  PROVE  Tells(p, L)
  BY SeqMonotonic DEF Tells

(* A pump that moves on keeps its records, and settles what was settled.   *)
LEMMA TellsAt ==
  ASSUME NEW p \in PumpType, NEW K, NEW q, Tells(p, K),
         \/ q \notin {"route"} \cup CyclePoints
         \/ p.pc \in CyclePoints
         \/ p.pc = "route" /\ p.rec.kind = "settled"
  PROVE  Tells([p EXCEPT !.pc = q], K)
<1> DEFINE n == [p EXCEPT !.pc = q]
<1>1. n.pc = q /\ n.hold = p.hold /\ n.todo = p.todo /\ n.rec = p.rec
  BY DEF PumpType
<1> HIDE DEF n
<1> QED BY <1>1 DEF Tells

(* A pump that rests has only what is left to deliver.                     *)
LEMMA TellsRested ==
  ASSUME NEW p \in PumpType, NEW K, NEW todo \in Seq(K)
  PROVE  Tells(Rested(p, todo), K)
<1> DEFINE n == Rested(p, todo)
<1>1. n.pc = "read" /\ n.hold = <<>> /\ n.todo = todo
  BY DEF Rested, PumpType
<1>2. <<>> \in Seq(K)
  BY EmptySeq
<1>3. n.pc \notin {"route"} \cup CyclePoints
  BY <1>1 DEF CyclePoints
<1> HIDE DEF n
<1>4. Tells(n, K)
  BY <1>1, <1>2, <1>3 DEF Tells
<1> QED BY <1>4 DEF n

(* What the pumps have after a step of one pump, pi has written before.    *)
LEMMA PumpTells ==
  ASSUME TypeInv, RecordsRan, NEW g \in Gens, PumpStep(g), NEW h \in Gens
  PROVE  Tells(pumps'[h], Told) /\ pi'[h].out \in Seq(Told)
<1> DEFINE p == pumps[g]
<1>1. pumps \in [Gens -> PumpType] /\ pi \in [Gens -> PiType] /\ p \in PumpType
  BY DEF TypeInv, TypeOK
<1>2. Tells(p, Told) /\ p.hold \in Seq(Told) /\ p.todo \in Seq(Told)
      /\ pi[g].out \in Seq(Told)
  BY DEF RecordsRan, Tells
<1>3. ASSUME NEW q, pumps' = [pumps EXCEPT ![g] = q], Tells(q, Told), pi' = pi
      PROVE  Tells(pumps'[h], Told) /\ pi'[h].out \in Seq(Told)
  BY <1>1, <1>3 DEF RecordsRan
<1>4. ASSUME NEW q, PumpAt(g, q), pi' = pi,
             \/ q \notin {"route"} \cup CyclePoints
             \/ p.pc \in CyclePoints
             \/ p.pc = "route" /\ p.rec.kind = "settled"
      PROVE  Tells(pumps'[h], Told) /\ pi'[h].out \in Seq(Told)
  BY <1>1, <1>2, <1>3, <1>4, TellsAt DEF PumpAt
<1>5. ASSUME NEW todo \in Seq(Told), pi' = pi,
             pumps' = [pumps EXCEPT ![g] = Rested(p, todo)]
      PROVE  Tells(pumps'[h], Told) /\ pi'[h].out \in Seq(Told)
  BY <1>1, <1>3, <1>5, TellsRested
<1>6. CASE PumpRead(g)
  <2> DEFINE rest == IF p.todo # <<>> THEN Tail(p.todo) ELSE <<>>
             q == IF session.runtime = g
                    THEN [p EXCEPT !.pc = "route", !.todo = rest,
                            !.rec = NextRecord(g), !.turn = DispatchedTurn(g),
                            !.cycle = session.cycle]
                    ELSE [p EXCEPT !.todo = rest]
  <2>1. /\ pumps' = [pumps EXCEPT ![g] = q] /\ p.pc = "read" /\ HasRecord(g)
        /\ pi' = IF p.todo = <<>> THEN [pi EXCEPT ![g].out = Tail(@)] ELSE pi
    BY <1>6 DEF PumpRead
  <2>2. rest \in Seq(Told)
    BY <1>2, EmptySeq, HeadTailProperties
  <2>3. NextRecord(g) \in Told
    BY <1>2, <2>1, HeadTailProperties DEF NextRecord, HasRecord
  <2>4. /\ q.hold = p.hold /\ q.todo = rest
        /\ (q.pc = "route" /\ q.rec = NextRecord(g)) \/ q.pc = "read"
    BY <1>1, <2>1 DEF PumpType
  <2> HIDE DEF q, rest
  <2>5. Tells(q, Told)
    BY <1>2, <2>2, <2>3, <2>4 DEF Tells, CyclePoints
  <2>6. Tells(pumps'[h], Told)
    BY <1>1, <2>1, <2>5 DEF RecordsRan
  <2>7. pi'[h].out \in Seq(Told)
    <3>1. CASE p.todo # <<>> \/ h # g
      BY <1>1, <2>1, <3>1 DEF RecordsRan
    <3>2. CASE p.todo = <<>> /\ h = g
      <4>1. pi[g].out # <<>> /\ pi'[g].out = Tail(pi[g].out)
        BY <1>1, <2>1, <3>2 DEF HasRecord, PiType
      <4> QED BY <1>2, <3>2, <4>1, HeadTailProperties
    <3> QED BY <3>1, <3>2
  <2> QED BY <2>6, <2>7
<1>7. CASE PumpRoute(g)
  <2>1. pi' = pi /\ p.pc = "route"
    BY <1>7 DEF PumpRoute
  <2>2. CASE PumpRests(g)
    BY <1>2, <1>5, <2>1, <2>2 DEF PumpRests
  <2>3. CASE p.rec.kind = "settled" /\ (PumpAt(g, "hold") \/ PumpAt(g, "cycleSettle"))
    BY <1>4, <2>1, <2>3
  <2> QED BY <1>7, <2>2, <2>3 DEF PumpRoute, RouteToTurn, RouteToCycle, OpenAgentCycle
<1>8. CASE PumpHold(g)
  <2> DEFINE q == [p EXCEPT !.hold = Append(@, Head(pi[g].out))]
  <2>1. /\ pumps' = [pumps EXCEPT ![g] = q] /\ pi[g].out # <<>>
        /\ pi' = [pi EXCEPT ![g].out = Tail(@)]
    BY <1>8 DEF PumpHold
  <2>2. Head(pi[g].out) \in Told /\ Tail(pi[g].out) \in Seq(Told)
    BY <1>2, <2>1, HeadTailProperties
  <2>3. Append(p.hold, Head(pi[g].out)) \in Seq(Told)
    BY <1>2, <2>2, AppendProperties
  <2>4. /\ q.hold = Append(p.hold, Head(pi[g].out)) /\ q.todo = p.todo
        /\ q.pc = p.pc /\ q.rec = p.rec
    BY <1>1 DEF PumpType
  <2> HIDE DEF q
  <2>5. Tells(q, Told)
    BY <1>2, <2>3, <2>4 DEF Tells
  <2>6. pi'[g].out = Tail(pi[g].out) /\ \A k \in Gens \ {g} : pi'[k] = pi[k]
    BY <1>1, <2>1 DEF PiType
  <2> QED BY <1>1, <2>1, <2>2, <2>5, <2>6 DEF RecordsRan
<1>9. CASE PumpHoldLost(g)
  <2>1. CASE p.pc = "hold"
    BY <1>2, <1>5, <1>9, <2>1 DEF PumpHoldLost
  <2>2. CASE p.pc # "hold"
    <3> DEFINE q == [p EXCEPT !.pc = "cycleCommit", !.hold = <<>>]
    <3>1. p.pc = "stats" /\ pumps' = [pumps EXCEPT ![g] = q] /\ pi' = pi
      BY <1>9, <2>2 DEF PumpHoldLost, Holding
    <3>2. q.pc = "cycleCommit" /\ q.hold = <<>> /\ q.todo = p.todo /\ q.rec = p.rec
      BY <1>1 DEF PumpType
    <3> HIDE DEF q
    <3>3. Tells(q, Told)
      BY <1>2, <3>1, <3>2, EmptySeq DEF Tells, CyclePoints
    <3> QED BY <1>3, <3>1, <3>3
  <2> QED BY <2>1, <2>2
<1>10. CASE PumpHoldDone(g) \/ CycleClear(g)
  <2>1. p.hold \o p.todo \in Seq(Told)
    BY <1>2, ConcatProperties
  <2> QED BY <1>5, <1>10, <2>1 DEF PumpHoldDone, CycleClear, PumpDelivers
<1>11. CASE RuntimeEnded(g) \/ EndRelease(g)
  <2> DEFINE bound == session.runtime = g
             e == [p EXCEPT !.pc = IF bound THEN "endJoin" ELSE "endUnbind",
                            !.turn = DispatchedTurn(g),
                            !.cycle = IF bound /\ ~session.closing
                                        THEN session.cycle ELSE None]
             d == [p EXCEPT !.pc = "done", !.turn = None, !.cycle = None]
  <2>1. e.hold = p.hold /\ e.todo = p.todo /\ e.pc \in {"endJoin", "endUnbind"}
    BY <1>1 DEF PumpType
  <2>2. d.hold = p.hold /\ d.todo = p.todo /\ d.pc = "done"
    BY <1>1 DEF PumpType
  <2>3. \/ pumps' = [pumps EXCEPT ![g] = e]
        \/ pumps' = [pumps EXCEPT ![g] = d]
    BY <1>11 DEF RuntimeEnded, EndRelease
  <2>4. pi' = pi
    BY <1>11 DEF RuntimeEnded, EndRelease
  <2> HIDE DEF e, d
  <2>5. Tells(e, Told) /\ Tells(d, Told)
    BY <1>2, <2>1, <2>2 DEF Tells, CyclePoints
  <2> QED BY <1>3, <2>3, <2>4, <2>5
<1>12. CASE \/ CycleSettle(g) \/ CycleJoin(g) \/ CycleStats(g) \/ CycleCommit(g)
            \/ CycleFence(g) \/ CycleDrop(g) \/ CycleIdle(g)
  <2>1. p.pc \in CyclePoints /\ pi' = pi
    BY <1>12 DEF CyclePoints, CycleSettle, CycleJoin, CycleStats, CycleCommit,
       CycleFence, CycleDrop, CycleIdle
  <2>2. \E q : PumpAt(g, q)
    BY <1>12 DEF CycleSettle, CycleJoin, CycleStats, CycleCommit,
       CycleFence, CycleDrop, CycleIdle
  <2> QED BY <1>4, <2>1, <2>2
<1>13. CASE EndJoin(g) \/ EndUnbind(g)
  BY <1>4, <1>13 DEF EndJoin, EndUnbind, CyclePoints
<1> QED BY <1>6, <1>7, <1>8, <1>9, <1>10, <1>11, <1>12, <1>13 DEF PumpStep

(* pi writes a start, or the settlement of a run whose rows it has written.*)
LEMMA PiTells ==
  ASSUME TypeInv, RecordsRan, [Next]_vars, NEW g \in Gens
  PROVE  pi'[g].out \in Seq(Told) \/ pi'[g].out \in Seq(Told')
<1>1. pi \in [Gens -> PiType] /\ log \in LogType
  BY DEF TypeInv, TypeOK
<1>2. Told \subseteq Told'
  BY LogGrows DEF Told, TypeInv
<1>3. pi[g].out \in Seq(Told) /\ pi[g].out \in Seq(Told')
  BY <1>2, SeqMonotonic DEF RecordsRan
<1>4. ASSUME NEW h \in Gens, NEW x \in Told', NEW run,
             pi' = [pi EXCEPT ![h] = [run |-> run, out |-> Append(@.out, x)]]
      PROVE  pi'[g].out \in Seq(Told')
  <2>1. CASE h = g
    <3>1. pi'[g].out = Append(pi[g].out, x)
      BY <1>1, <1>4, <2>1
    <3> QED BY <1>3, <3>1, AppendProperties
  <2>2. CASE h # g
    BY <1>1, <1>3, <1>4, <2>2
  <2> QED BY <2>1, <2>2
<1>5. ASSUME NEW r \in Runs
      PROVE  [kind |-> "start", run |-> r] \in Told'
  BY DEF Told, Record
<1>6. ASSUME NEW t \in Turns, Send(t)
      PROVE  pi'[g].out \in Seq(Told')
  <2>1. CASE pi' = pi
    BY <1>3, <2>1
  <2>2. CASE pi' # pi
    <3> DEFINE x == [kind |-> "start", run |-> t]
    <3>1. pi' = [pi EXCEPT ![op[t].at] = [run |-> t, out |-> Append(@.out, x)]]
      BY <1>6, <2>2 DEF Send
    <3>2. x \in Told'
      BY <1>5 DEF Runs
    <3>3. op[t].at \in Gens
      BY <1>1, <2>2, <3>1
    <3> HIDE DEF x
    <3> QED BY <1>4, <3>1, <3>2, <3>3
  <2> QED BY <2>1, <2>2
<1>7. ASSUME NEW h \in Gens, NEW r \in AgentRuns, PiStarts(h, r)
      PROVE  pi'[g].out \in Seq(Told')
  <2> DEFINE x == [kind |-> "start", run |-> r]
  <2>1. pi' = [pi EXCEPT ![h] = [run |-> r, out |-> Append(@.out, x)]]
    BY <1>7 DEF PiStarts
  <2>2. x \in Told'
    BY <1>5 DEF Runs
  <2> HIDE DEF x
  <2> QED BY <1>4, <2>1, <2>2
<1>8. ASSUME NEW h \in Gens, PiSettles(h)
      PROVE  pi'[g].out \in Seq(Told')
  <2> DEFINE r == pi[h].run
             x == [kind |-> "settled", run |-> r]
  <2>1. pi' = [pi EXCEPT ![h] = [run |-> None, out |-> Append(@.out, x)]]
        /\ log' = [log EXCEPT !.ran = @ \cup {r}] /\ r # None
    BY <1>8 DEF PiSettles
  <2>2. r \in Runs
    BY <1>1, <2>1 DEF PiType
  <2>3. r \in log'.ran
    BY <1>1, <2>1 DEF LogType
  <2>4. x \in Told'
    BY <2>2, <2>3 DEF Told, Record
  <2> HIDE DEF x
  <2> QED BY <1>4, <2>1, <2>4
<1>9. ASSUME NEW h \in Gens, PumpStep(h)
      PROVE  pi'[g].out \in Seq(Told)
  BY <1>9, PumpTells
<1>10. CASE pi' = pi
  BY <1>3, <1>10
<1>11. ASSUME NEW t \in Turns, PromptStep(t), ~Send(t)
       PROVE  pi' = pi
  BY <1>11 DEF PromptStep, PromptInstall, Dispatch, Reply, Lost, OwedFence,
     Accept, Wait, StopGrace, Settle, Join, TurnCommit, StopCommit, CommitFence,
     Terminal, Claim
<1>12. ASSUME NEW o \in Ops, Admit(o) \/ Prepare(o) \/ EnsureStep(o) \/ Return(o)
       PROVE  pi' = pi
  BY <1>12 DEF Admit, Prepare, EnsureStep, Return, EnsureRuntime, AwaitEnding,
     AwaitRetired, Launch, Bind, Configure, StopUnconfigured, OpenCheck, OpenPublish
<1>13. ASSUME NEW c \in Controls, ControlUse(c)
       PROVE  pi' = pi
  BY <1>13 DEF ControlUse
<1>14. CASE EstablishStep
  BY <1>10, <1>14 DEF EstablishStep, EstablishCommit, EstablishRelease,
     EstablishHook, EstablishAbandon
<1>15. CASE CloseStep
  BY <1>10, <1>15 DEF CloseStep, CloseJoin, CloseAbort, CloseWait, CloseStop,
     CloseStopJoin, CloseGate, CloseCommit, CloseIdle, CloseFence
<1>16. CASE Cancel \/ Close \/ (\E a \in aborts : Abort(a)) \/ UNCHANGED vars
  BY <1>10, <1>16 DEF Cancel, Close, Abort, vars
<1>17. ASSUME NEW h \in Gens, PiExits(h) \/ PiClosesStdout(h)
       PROVE  pi' = pi
  BY <1>17 DEF PiExits, PiClosesStdout
<1> QED BY <1>6, <1>7, <1>8, <1>9, <1>10, <1>11, <1>12, <1>13, <1>14, <1>15, <1>16,
        <1>17 DEF Next, PiStep

(* Every step keeps to what pi has written.                                *)
LEMMA RecordsStep == TypeInv /\ RecordsRan /\ [Next]_vars => RecordsRan'
<1> SUFFICES ASSUME TypeInv, RecordsRan, [Next]_vars, NEW g \in Gens
             PROVE  Tells(pumps'[g], Told') /\ pi'[g].out \in Seq(Told')
  BY DEF RecordsRan
<1>1. pumps \in [Gens -> PumpType] /\ TypeOK
  BY DEF TypeInv, TypeOK
<1>2. Told \subseteq Told'
  BY <1>1, LogGrows DEF Told
<1>3. pi'[g].out \in Seq(Told')
  BY <1>2, PiTells, SeqMonotonic
<1>4. Tells(pumps'[g], Told)
  <2>1. ASSUME NEW h \in Gens, PumpStep(h)
        PROVE  Tells(pumps'[g], Told)
    BY <2>1, PumpTells
  <2>2. ASSUME NEW o \in Ops, Bind(o)
        PROVE  Tells(pumps'[g], Told)
    <3>1. pumps'[g] = pumps[g] \/ pumps'[g] = [pumps[g] EXCEPT !.pc = "read"]
      BY <1>1, <2>2 DEF Bind
    <3>2. pumps[g] \in PumpType /\ Tells(pumps[g], Told)
      BY <1>1 DEF RecordsRan
    <3>3. "read" \notin {"route"} \cup CyclePoints
      BY DEF CyclePoints
    <3>4. Tells([pumps[g] EXCEPT !.pc = "read"], Told)
      BY <3>2, <3>3, TellsAt
    <3> QED BY <3>1, <3>2, <3>4
  <2>3. CASE pumps' = pumps
    BY <2>3 DEF RecordsRan
  <2> QED BY <2>1, <2>2, <2>3, PumpsSame
<1> QED BY <1>2, <1>3, <1>4, TellsMore

(* How a pump comes to publish the idle of the cycle it settles.           *)
LEMMA CycleEnds ==
  ASSUME TypeOK, [Next]_vars, NEW g \in Gens, pumps'[g] # pumps[g],
         pumps'[g].pc \in {"cycleDrop", "cycleIdle"}
  PROVE  /\ pumps'[g].cycle = pumps[g].cycle /\ pumps'[g].rec = pumps[g].rec
         /\ \/ CycleFence(g)
            \/ CycleCommit(g) /\ CommitMirror
            \/ CycleDrop(g)
<1>1. pumps \in [Gens -> PumpType] /\ PumpStep(g)
  BY PumpAlone DEF TypeOK
<1>2. ASSUME NEW p, PumpAt(g, p)
      PROVE  /\ pumps'[g].pc = p /\ pumps'[g].cycle = pumps[g].cycle
             /\ pumps'[g].rec = pumps[g].rec
  BY <1>1, <1>2 DEF PumpAt, PumpType
<1>3. ASSUME NEW todo, pumps' = [pumps EXCEPT ![g] = Rested(@, todo)]
      PROVE  FALSE
  <2>1. Rested(pumps[g], todo).pc = "read"
    BY <1>1 DEF Rested, PumpType
  <2> QED BY <1>1, <1>3, <2>1
<1>5. CASE PumpRoute(g)
  BY <1>2, <1>3, <1>5 DEF PumpRoute, RouteToTurn, RouteToCycle, OpenAgentCycle,
     PumpRests
<1>4. CASE PumpHold(g)
  BY <1>1, <1>4 DEF PumpHold, Holding, PumpType
<1>6. CASE PumpRead(g)
  BY <1>1, <1>6 DEF PumpRead, PumpType
<1>7. CASE PumpHoldLost(g)
  BY <1>1, <1>3, <1>7 DEF PumpHoldLost, Holding, PumpType
<1>8. CASE PumpHoldDone(g) \/ CycleClear(g)
  BY <1>3, <1>8 DEF PumpHoldDone, CycleClear, PumpDelivers
<1>9. CASE RuntimeEnded(g) \/ EndRelease(g)
  BY <1>1, <1>9 DEF RuntimeEnded, EndRelease, PumpType
<1>10. CASE CycleSettle(g) \/ CycleJoin(g) \/ CycleStats(g) \/ CycleIdle(g)
  BY <1>2, <1>10 DEF CycleSettle, CycleJoin, CycleStats, CycleIdle
<1>11. CASE CycleCommit(g) \/ CycleFence(g) \/ CycleDrop(g)
  BY <1>2, <1>11 DEF CycleCommit, CycleFence, CycleDrop
<1>12. CASE EndJoin(g) \/ EndUnbind(g)
  BY <1>2, <1>12 DEF EndJoin, EndUnbind
<1> QED BY <1>1, <1>4, <1>5, <1>6, <1>7, <1>8, <1>9, <1>10, <1>11, <1>12 DEF PumpStep

(* No incarnation is opened again once another one, or none, is open.      *)
LEMMA FencedStays ==
  ASSUME TypeInv, StartInv, GenInv, [Next]_vars, NEW r \in Runs, Opened(r), Fenced(r)
  PROVE  Fenced(r)'
<1>1. TypeOK /\ Agent(r) \in Foreground
  BY ForegroundNames DEF TypeInv
<1>2. log'.accepted[Agent(r)] = log.accepted[Agent(r)]
  <2>1. ASSUME NEW g \in Gens, Opens(g, r)
        PROVE  FALSE
    BY <2>1, OpensFresh
  <2> QED BY <2>1, AcceptOwner
<1>3. ASSUME NEW o \in Ops, OpenPublish(o)
      PROVE  op[o].at = 0 \/ log.accepted[Agent(r)] # op[o].at
  BY <1>1, <1>3 DEF GenInv, LaunchesUnused, Launching, OpenPublish, Unused
<1> QED BY <1>1, <1>2, <1>3, StreamSources DEF Fenced

(* Every step keeps what a cycle is idled with.                            *)
LEMMA StoredStep ==
  TypeInv /\ StartInv /\ GenInv /\ RecordsRan /\ CyclesStored /\ [Next]_vars
    => CyclesStored'
<1> SUFFICES ASSUME TypeInv, StartInv, GenInv, RecordsRan, CyclesStored, [Next]_vars,
                    NEW g \in Gens, pumps'[g].pc \in {"cycleDrop", "cycleIdle"}
             PROVE  \/ pumps'[g].pc = "cycleIdle" /\ pumps'[g].rec.run \in log'.durable
                    \/ stream' = 0
                    \/ stream' # log'.accepted[Agent(pumps'[g].cycle)]
  BY DEF CyclesStored, Fenced
<1> DEFINE p == pumps[g]
           r == p.cycle
<1>1. TypeOK /\ PumpOwns /\ log \in LogType
  BY DEF TypeInv, TypeOK
<1>2. log.durable \subseteq log'.durable
  BY <1>1, LogGrows
<1>3. ASSUME p.pc \in CyclePoints, Fenced(r)
      PROVE  stream' = 0 \/ stream' # log'.accepted[Agent(r)]
  <2>1. r \in Runs /\ Opened(r)
    BY <1>1, <1>3 DEF PumpOwns, Owns, Opened
  <2> QED BY <1>3, <2>1, FencedStays DEF Fenced
<1>4. CASE pumps'[g] = pumps[g]
  BY <1>2, <1>3, <1>4 DEF CyclesStored, CyclePoints
<1>5. CASE pumps'[g] # pumps[g]
  <2>1. pumps'[g].cycle = r /\ pumps'[g].rec = p.rec
    BY <1>1, <1>5, CycleEnds
  <2>2. CASE CycleFence(g)
    BY <2>2 DEF CycleFence, FenceStream
  <2>3. CASE CycleCommit(g) /\ CommitMirror
    <3>1. p.rec \in Told /\ p.rec.kind = "settled"
      BY <2>3 DEF RecordsRan, Tells, CycleCommit, CyclePoints
    <3>2. p.rec.run \in log'.durable
      BY <1>1, <2>3, <3>1 DEF Told, CommitMirror, LogType
    <3>3. pumps'[g].pc # "cycleDrop"
      BY <1>1, <2>3 DEF CycleCommit, PumpAt, TypeOK, PumpType
    <3> QED BY <2>1, <3>2, <3>3
  <2>4. CASE CycleDrop(g)
    <3>1. p.pc \in CyclePoints /\ Fenced(r)
      BY <2>4 DEF CycleDrop, CyclesStored, CyclePoints
    <3> QED BY <1>3, <2>1, <3>1
  <2> QED BY <1>1, <1>5, <2>2, <2>3, <2>4, CycleEnds
<1> QED BY <1>4, <1>5

(* No record has been written and no cycle settled.                        *)
LEMMA StoredInit == Init => RecordsRan /\ CyclesStored
<1> SUFFICES ASSUME Init PROVE RecordsRan /\ CyclesStored
  OBVIOUS
<1>1. \A g \in Gens : /\ pumps[g].pc \in {"read", "none"}
                      /\ pumps[g].hold = <<>> /\ pumps[g].todo = <<>>
                      /\ pi[g].out = <<>>
  BY DEF Init
<1>2. <<>> \in Seq(Told)
  BY EmptySeq
<1>3. RecordsRan
  BY <1>1, <1>2 DEF RecordsRan, Tells, CyclePoints
<1>4. CyclesStored
  BY <1>1 DEF CyclesStored
<1> QED BY <1>3, <1>4

(* The incarnation a cycle was opened on gets the cycle's idle only once   *)
(* the store holds the run whose settlement ended it.                      *)
THEOREM SuccessAlwaysDurable == Spec => []SuccessIsDurable
<1>1. Init => StartInv /\ GenInv /\ RecordsRan /\ CyclesStored
  BY StartInit, GenInit, StoredInit
<1>2. CyclesStored => SuccessIsDurable
  BY DEF CyclesStored, SuccessIsDurable, Fenced
<1>3. Init => ProcInv
  BY ProcInit
<1>4. TypeInv /\ ProcInv /\ [Next]_vars => ProcInv'
  BY ProcStep DEF TypeInv
<1>5. Spec => []TypeInv
  BY TypeInvariant
<1> QED BY <1>1, <1>2, <1>3, <1>4, <1>5, StartStep, GenStep, RecordsStep,
        StoredStep, PTL DEF Spec

-----------------------------------------------------------------------------
(* IdleOnce, for a prompt.  A prompt publishes its idle in one step, under *)
(* the gate, so nobody opens another incarnation between the acceptance    *)
(* and the idle of a prompt.                                               *)

(* A prompt before its dispatch, while it runs, and once it is accepted.   *)
Undispatched == BeforeSend \ {"send"}

Answering == {"wait", "grace", "stopGrace", "settle", "join"} \cup Joined

Underway == {"send", "reply", "accept"} \cup Answering

(* A pump hands a record to the prompt it read the record for.             *)
RoutedTo(t) == \E g \in Gens : PumpRoute(g) /\ pumps[g].turn = t

PromptOnce(t) ==
  LET f == Prompted(t) IN
  /\ op[t].pc \in Undispatched =>
       /\ turns[t].rt = 0 /\ ~turns[t].accepted /\ log.accepted[f] = 0
       /\ \A g \in Gens : pumps[g].turn # t
  /\ op[t].pc \in Answering \/ log.accepted[f] # 0 \/ log.idles[f] # <<>> =>
       turns[t].accepted
  /\ op[t].pc \in Underway /\ log.accepted[f] # 0 => stream \in {0, log.accepted[f]}
  /\ op[t].pc \in Undispatched \cup Underway => log.idles[f] = <<>>
  /\ \A i, j \in DOMAIN log.idles[f] : i = j
  /\ log.accepted[f] # 0 =>
       \A i \in DOMAIN log.idles[f] : log.idles[f][i].on = log.accepted[f]

PromptsOnce == \A t \in Turns : PromptOnce(t)

(* The way of a prompt.                                                    *)
LEMMA PromptMoves ==
  ASSUME TypeOK, [Next]_vars, NEW t \in Turns
  PROVE  /\ op'[t].pc \in Undispatched => op[t].pc \in Undispatched
         /\ op'[t].pc \in Underway =>
              \/ op[t].pc \in Underway /\ ~Terminal(t)
              \/ op[t].pc = "dispatch"
         /\ op'[t].pc \in Answering => op[t].pc \in Answering \/ Accept(t)
<1>1. op \in [Ops -> OpType] /\ t \in Ops /\ t # Opening /\ t \notin Controls
  BY NamesAssumption DEF TypeOK, Ops, Runs
<1>2. ASSUME NEW p, Go(t, p)
      PROVE  op'[t].pc = p
  BY <1>1, <1>2 DEF Go, OpType
<1>3. ~Terminal(t) \/ op'[t].pc = "claim"
  BY <1>2 DEF Terminal
<1> USE DEF Undispatched, BeforeSend, Underway, Answering, Joined
<1>4. CASE op'[t] = op[t]
  BY <1>3, <1>4
<1>5. CASE PromptStep(t)
  <2>1. CASE PromptInstall(t) \/ Dispatch(t) \/ Send(t)
    BY <1>2, <1>3, <2>1 DEF PromptInstall, Dispatch, Send
  <2>2. CASE Reply(t) \/ Lost(t) \/ OwedFence(t) \/ Accept(t) \/ Claim(t)
    BY <1>2, <1>3, <2>2 DEF Reply, Lost, OwedFence, Accept, Claim, ClaimFence
  <2>3. CASE Wait(t) \/ StopGrace(t) \/ Settle(t) \/ Join(t)
    BY <1>2, <1>3, <2>3 DEF Wait, StopGrace, Settle, Join
  <2>4. CASE TurnCommit(t) \/ StopCommit(t) \/ CommitFence(t) \/ Terminal(t)
    BY <1>2, <1>3, <2>4 DEF TurnCommit, StopCommit, CommitFence, Terminal
  <2> QED BY <1>5, <2>1, <2>2, <2>3, <2>4 DEF PromptStep
<1>6. CASE Admit(t) \/ Prepare(t) \/ Return(t)
  BY <1>1, <1>2, <1>3, <1>6 DEF Admit, Prepare, Return
<1>7. CASE EnsureStep(t)
  <2>1. CASE EnsureRuntime(t) \/ Launch(t)
    BY <1>1, <1>2, <1>3, <2>1 DEF EnsureRuntime, Ensured, Launch
  <2>2. CASE OpenCheck(t) \/ OpenPublish(t)
    BY <1>1, <1>2, <1>3, <2>2 DEF OpenCheck, OpenPublish, OpenRefused, Ensured
  <2> QED BY <1>2, <1>3, <1>7, <2>1, <2>2 DEF EnsureStep, AwaitEnding, AwaitRetired,
     Bind, Configure, StopUnconfigured
<1> QED BY <1>1, <1>4, <1>5, <1>6, <1>7, OpAlone

(* A prompt is dispatched by itself, and accepted by itself or by a record.*)
LEMMA TurnSources ==
  ASSUME TypeInv, [Next]_vars, NEW t \in Turns
  PROVE  /\ turns'[t].rt = turns[t].rt \/ Dispatch(t)
         /\ \/ turns'[t].accepted = turns[t].accepted
            \/ turns'[t].accepted /\ (Accept(t) \/ RoutedTo(t))
<1> DEFINE Same == turns'[t].rt = turns[t].rt /\ turns'[t].accepted = turns[t].accepted
<1>1. turns \in [Turns -> TurnType] /\ pumps \in [Gens -> PumpType] /\ TypeOK
  BY DEF TypeInv, TypeOK
<1>2. ASSUME turns' = turns
      PROVE  Same
  BY <1>2
<1>3. ASSUME NEW u, NEW end, turns' = SettledAs(u, end)
      PROVE  Same
  BY <1>1, <1>3 DEF SettledAs, TurnType
<1>4. ASSUME NEW u, turns' = [turns EXCEPT ![u].ctxDone = TRUE]
      PROVE  Same
  BY <1>1, <1>4 DEF TurnType
<1>5. ASSUME NEW u \in Turns, PromptStep(u)
      PROVE  Same \/ (Dispatch(u) /\ u = t /\ turns'[t].accepted = turns[t].accepted)
             \/ (Accept(u) /\ u = t /\ turns'[t].accepted /\ turns'[t].rt = turns[t].rt)
  <2>1. CASE Dispatch(u)
    BY <1>1, <2>1 DEF Dispatch, TurnType
  <2>2. CASE Send(u) \/ Reply(u)
    BY <1>1, <2>2 DEF Send, Reply, TurnType
  <2>3. CASE Lost(u) \/ Claim(u)
    BY <1>1, <2>3 DEF Lost, Claim, ClaimFence, TurnType
  <2>4. CASE Accept(u)
    BY <1>1, <2>4 DEF Accept, AcceptTurn, TurnType
  <2>5. CASE TurnCommit(u)
    BY <1>1, <2>5 DEF TurnCommit, TurnType
  <2>6. CASE StopGrace(u)
    BY <1>3, <2>6 DEF StopGrace
  <2> QED BY <1>2, <1>5, <2>1, <2>2, <2>3, <2>4, <2>5, <2>6 DEF PromptStep,
     PromptInstall, OwedFence, Wait, Settle, Join, StopCommit, CommitFence, Terminal
<1>6. ASSUME NEW g \in Gens, PumpStep(g)
      PROVE  Same \/ (turns'[t].rt = turns[t].rt /\ turns'[t].accepted /\ RoutedTo(t))
  <2>1. CASE PumpRoute(g)
    <3>1. CASE turns' = turns
      BY <3>1
    <3>2. CASE turns' # turns
      <4>1. RouteToTurn(g, pumps[g].turn)
        BY <2>1, <3>2 DEF PumpRoute, RouteToCycle, OpenAgentCycle
      <4>2. PICK end : turns' = [turns EXCEPT ![pumps[g].turn].accepted = TRUE,
                                              ![pumps[g].turn].ended = end]
        BY <4>1 DEF RouteToTurn
      <4>3. turns'[t].rt = turns[t].rt
            /\ (turns'[t].accepted = turns[t].accepted
                \/ (turns'[t].accepted /\ pumps[g].turn = t))
        BY <1>1, <4>2 DEF TurnType
      <4> QED BY <2>1, <4>3 DEF RoutedTo
    <3> QED BY <3>1, <3>2
  <2>2. CASE EndUnbind(g)
    <3> DEFINE u == pumps[g].turn
               s == SettledAs(u, "transport")
    <3>1. turns' = turns \/ turns' = [s EXCEPT ![u].ctxDone = TRUE]
      BY <2>2 DEF EndUnbind
    <3>2. s = turns \/ s = [turns EXCEPT ![u].ended = "transport"]
      BY DEF SettledAs
    <3>3. s \in [Turns -> TurnType] /\ s[t].rt = turns[t].rt
          /\ s[t].accepted = turns[t].accepted
      <4> HIDE DEF s
      <4>1. CASE s = turns
        BY <1>1, <4>1
      <4>2. CASE s = [turns EXCEPT ![u].ended = "transport"]
        BY <1>1, <4>2 DEF TurnType
      <4> QED BY <3>2, <4>1, <4>2
    <3> HIDE DEF s
    <3>4. [s EXCEPT ![u].ctxDone = TRUE][t].rt = s[t].rt
          /\ [s EXCEPT ![u].ctxDone = TRUE][t].accepted = s[t].accepted
      BY <3>3 DEF TurnType
    <3> QED BY <3>1, <3>3, <3>4
  <2> QED BY <1>2, <1>6, <2>1, <2>2 DEF PumpStep, PumpRead, PumpHold, PumpHoldLost,
     PumpHoldDone, CycleSettle, CycleJoin, CycleStats, CycleCommit, CycleFence,
     CycleDrop, CycleIdle, CycleClear, RuntimeEnded, EndJoin, EndRelease
<1>7. ASSUME NEW o \in Ops, Admit(o) \/ Prepare(o) \/ EnsureStep(o) \/ Return(o)
      PROVE  Same
  <2>1. CASE Return(o)
    BY <1>1, <2>1 DEF Return, TurnType
  <2> QED BY <1>2, <1>7, <2>1 DEF Admit, Prepare, EnsureStep, EnsureRuntime,
     AwaitEnding, AwaitRetired, Launch, Bind, Configure, StopUnconfigured,
     OpenCheck, OpenPublish
<1>8. ASSUME NEW c \in Controls, ControlUse(c)
      PROVE  Same
  BY <1>2, <1>8 DEF ControlUse
<1>9. CASE EstablishStep \/ Close
  BY <1>2, <1>4, <1>9 DEF EstablishStep, EstablishCommit, EstablishRelease,
     EstablishHook, EstablishAbandon, Close, BeginClose
<1>10. CASE CloseStep
  BY <1>2, <1>10 DEF CloseStep, CloseJoin, CloseAbort, CloseWait, CloseStop,
     CloseStopJoin, CloseGate, CloseCommit, CloseIdle, CloseFence
<1>11. CASE Cancel
  BY <1>2, <1>4, <1>11 DEF Cancel
<1>12. ASSUME NEW g \in Gens, PiStep(g)
       PROVE  Same
  BY <1>2, <1>12 DEF PiStep, PiStarts, PiSettles, PiExits, PiClosesStdout
<1>13. CASE (\E a \in aborts : Abort(a)) \/ UNCHANGED vars
  BY <1>2, <1>13 DEF Abort, vars
<1> QED BY <1>5, <1>6, <1>7, <1>8, <1>9, <1>10, <1>11, <1>12, <1>13 DEF Next

(* The acceptance of a prompt is published once.                           *)
LEMMA PromptAccepts ==
  ASSUME TypeInv, [Next]_vars, NEW t \in Turns,
         log'.accepted[Prompted(t)] # log.accepted[Prompted(t)]
  PROVE  ~turns[t].accepted /\ turns'[t].accepted /\ (Accept(t) \/ RoutedTo(t))
<1>1. /\ TypeOK /\ log \in LogType /\ turns \in [Turns -> TurnType]
      /\ pumps \in [Gens -> PumpType]
  BY DEF TypeInv, TypeOK
<1>2. Prompted(t) \in Foreground
  BY ForegroundNames
<1>3. ASSUME NEW f \in Foreground, f # Prompted(t), log' = Accepted(f)
      PROVE  FALSE
  BY <1>1, <1>2, <1>3 DEF Accepted, LogType
<1>4. ASSUME NEW u \in Turns, Accept(u)
      PROVE  u = t /\ ~turns[t].accepted /\ turns'[t].accepted
  <2>1. ~turns[u].accepted /\ log' = Accepted(Prompted(u))
    BY <1>4 DEF Accept, AcceptTurn
  <2>2. u = t
    BY <1>3, <2>1, Apart, ForegroundNames
  <2> QED BY <1>1, <1>4, <2>1, <2>2 DEF Accept, AcceptTurn, TurnType
<1>5. ASSUME NEW g \in Gens, PumpRoute(g)
      PROVE  pumps[g].turn = t /\ ~turns[t].accepted /\ turns'[t].accepted
  <2>1. CASE pumps[g].turn # None
    <3> DEFINE u == pumps[g].turn
    <3>1. u \in Turns /\ RouteToTurn(g, u)
      BY <1>1, <1>5, <2>1 DEF PumpRoute, PumpType
    <3>2. ~turns[u].accepted /\ log' = Accepted(Prompted(u))
      BY <3>1 DEF RouteToTurn
    <3>3. u = t
      BY <1>3, <3>1, <3>2, Apart, ForegroundNames
    <3> QED BY <1>1, <3>1, <3>2, <3>3 DEF RouteToTurn, TurnType
  <2>2. CASE pumps[g].turn = None
    <3>1. PICK r \in Runs : log' = Accepted(Agent(r))
      <4>1. pumps[g].rec \in Record
        BY <1>5 DEF TypeInv, PumpOwns, Owns, PumpRoute
      <4>2. pumps[g].rec.run \in Runs
        BY <4>1 DEF Record
      <4> QED BY <1>5, <2>2, <4>2 DEF PumpRoute, RouteToCycle, OpenAgentCycle
    <3> QED BY <1>3, <3>1, Apart, ForegroundNames
  <2> QED BY <2>1, <2>2
<1> QED BY <1>1, <1>4, <1>5, AcceptSources DEF RoutedTo

(* A pump takes a prompt over from the session, once it is dispatched.     *)
LEMMA PumpTurnSources ==
  ASSUME TypeInv, [Next]_vars, NEW g \in Gens,
         pumps'[g].turn # None, pumps'[g].turn # pumps[g].turn
  PROVE  turns[pumps'[g].turn].rt = g
<1>1. TypeOK /\ pumps \in [Gens -> PumpType]
  BY DEF TypeInv, TypeOK
<1>2. ASSUME NEW h \in Gens, NEW q, pumps' = [pumps EXCEPT ![h] = q],
             q.turn \in {pumps[h].turn, None}
      PROVE  FALSE
  BY <1>1, <1>2
<1>3. ASSUME NEW h \in Gens, NEW p, PumpAt(h, p)
      PROVE  FALSE
  <2>1. [pumps[h] EXCEPT !.pc = p].turn = pumps[h].turn
    BY <1>1 DEF PumpType
  <2> QED BY <1>2, <1>3, <2>1 DEF PumpAt
<1>4. ASSUME NEW h \in Gens, NEW todo, pumps' = [pumps EXCEPT ![h] = Rested(@, todo)]
      PROVE  FALSE
  <2>1. Rested(pumps[h], todo).turn = None
    BY <1>1 DEF Rested, PumpType
  <2> QED BY <1>2, <1>4, <2>1
<1>5. ASSUME NEW h \in Gens, PumpRead(h) \/ RuntimeEnded(h)
      PROVE  turns[pumps'[g].turn].rt = g
  <2>1. h = g /\ pumps'[g].turn = DispatchedTurn(g)
    <3>1. CASE PumpRead(h)
      BY <1>1, <3>1 DEF PumpRead, PumpType
    <3>2. CASE RuntimeEnded(h)
      BY <1>1, <3>2 DEF RuntimeEnded, PumpType
    <3> QED BY <1>5, <3>1, <3>2
  <2> QED BY <2>1 DEF DispatchedTurn
<1>7. ASSUME NEW h \in Gens, PumpRoute(h)
      PROVE  FALSE
  BY <1>3, <1>4, <1>7 DEF PumpRoute, RouteToTurn, RouteToCycle, OpenAgentCycle,
     PumpRests
<1>8. ASSUME NEW h \in Gens, PumpHold(h)
      PROVE  FALSE
  <2>1. [pumps[h] EXCEPT !.hold = Append(@, Head(pi[h].out))].turn = pumps[h].turn
    BY <1>1 DEF PumpType
  <2> QED BY <1>2, <1>8, <2>1 DEF PumpHold
<1>9. ASSUME NEW h \in Gens, PumpHoldLost(h)
      PROVE  FALSE
  <2>1. [pumps[h] EXCEPT !.pc = "cycleCommit", !.hold = <<>>].turn = pumps[h].turn
    BY <1>1 DEF PumpType
  <2> QED BY <1>2, <1>4, <1>9, <2>1 DEF PumpHoldLost
<1>10. ASSUME NEW h \in Gens, EndRelease(h)
       PROVE  FALSE
  <2> DEFINE q == [pumps[h] EXCEPT !.pc = "done", !.turn = None, !.cycle = None]
  <2>1. q.turn = None
    BY <1>1 DEF PumpType
  <2>2. pumps' = [pumps EXCEPT ![h] = q]
    BY <1>10 DEF EndRelease
  <2> HIDE DEF q
  <2> QED BY <1>2, <2>1, <2>2
<1>11. ASSUME NEW h \in Gens, PumpHoldDone(h) \/ CycleClear(h)
       PROVE  FALSE
  BY <1>4, <1>11 DEF PumpHoldDone, CycleClear, PumpDelivers
<1>12. ASSUME NEW h \in Gens, PumpStep(h), ~PumpRead(h), ~RuntimeEnded(h)
       PROVE  FALSE
  BY <1>3, <1>7, <1>8, <1>9, <1>10, <1>11, <1>12
     DEF PumpStep, CycleSettle, CycleJoin, CycleStats, CycleCommit, CycleFence,
         CycleDrop, CycleIdle, EndJoin, EndUnbind
<1>13. ASSUME NEW o \in Ops, Bind(o)
       PROVE  FALSE
  <2>1. PumpAt(op[o].at, "read")
    BY <1>13 DEF Bind, PumpAt
  <2>2. op[o].at \in Gens
    BY <1>1, <2>1 DEF PumpAt
  <2> QED BY <1>3, <2>1, <2>2
<1>14. pumps' # pumps
  OBVIOUS
<1>15. ASSUME ~ \E h \in Gens : PumpStep(h), ~ \E o \in Ops : Bind(o)
       PROVE  FALSE
  BY <1>14, <1>15, PumpsSame
<1> QED BY <1>5, <1>12, <1>13, <1>15

(* Every step keeps a prompt to one idle, where its acceptance went.       *)
LEMMA PromptOnceStep ==
  ASSUME TypeInv, ProcInv, [Next]_vars, NEW t \in Turns, PromptOnce(t)
  PROVE  PromptOnce(t)'
<1> DEFINE f == Prompted(t)
<1>1. TypeOK /\ f \in Foreground /\ t \in Ops
  BY ForegroundNames DEF TypeInv, Ops
<1>2. log.idles[f] \in Seq([on : Gens, outcome : Outcomes])
  BY <1>1 DEF TypeOK, LogType
<1>3. /\ op'[t].pc \in Undispatched => op[t].pc \in Undispatched
      /\ op'[t].pc \in Underway =>
           \/ op[t].pc \in Underway /\ ~Terminal(t)
           \/ op[t].pc = "dispatch"
      /\ op'[t].pc \in Answering => op[t].pc \in Answering \/ Accept(t)
  BY <1>1, PromptMoves
<1>4. /\ "dispatch" \in Undispatched /\ "send" \notin Undispatched
      /\ "accept" \notin Undispatched /\ "terminal" \in Underway
      /\ "terminal" \in Answering /\ "terminal" \notin Undispatched
  BY DEF Undispatched, BeforeSend, Underway, Answering, Joined
  (* Accepted once and for all. *)
<1>5. turns[t].accepted => turns'[t].accepted /\ log'.accepted[f] = log.accepted[f]
  BY TurnSources, PromptAccepts
  (* Nobody accepts a prompt that was not dispatched. *)
<1>6. ASSUME op[t].pc \in Undispatched
      PROVE  /\ ~turns'[t].accepted /\ log'.accepted[f] = 0
             /\ ~Accept(t) /\ ~RoutedTo(t)
  <2>1. ~Accept(t) /\ ~RoutedTo(t)
    BY <1>4, <1>6 DEF PromptOnce, Accept, RoutedTo
  <2> QED BY <1>6, <2>1, TurnSources, PromptAccepts DEF PromptOnce
  (* Only its own idle is published for a prompt. *)
<1>7. ASSUME log'.idles[f] # log.idles[f]
      PROVE  /\ op[t].pc = "terminal" /\ op'[t].pc = "claim" /\ stream # 0
             /\ log'.accepted = log.accepted
             /\ DOMAIN log'.idles[f] = {1} /\ log'.idles[f][1].on = stream
  <2>1. Terminal(t)
    BY <1>1, <1>7, IdleOwner, Apart
  <2>2. op[t].pc = "terminal" /\ op'[t].pc = "claim"
        /\ log' = Idled(f, TurnOutcome(t))
    BY <1>1, <2>1, GoesAlone DEF Terminal
  <2>3. log.idles[f] = <<>>
    BY <1>4, <2>2 DEF PromptOnce
  <2>4. stream # 0
        /\ log'.idles[f] = Append(<<>>, [on |-> stream, outcome |-> TurnOutcome(t)])
    BY <1>1, <1>7, <2>2, <2>3, IdledOne
  <2>5. log'.accepted = log.accepted
    BY <1>1, <2>2 DEF Idled, TypeOK, LogType
  <2> DEFINE idle == [on |-> stream, outcome |-> TurnOutcome(t)]
  <2>6. log'.idles[f] = <<idle>> /\ idle.on = stream
    BY <2>4
  <2> HIDE DEF idle
  <2>7. DOMAIN log'.idles[f] = {1} /\ log'.idles[f][1].on = stream
    BY <2>6
  <2> QED BY <2>2, <2>4, <2>5, <2>7
<1>8. ASSUME op'[t].pc \in Undispatched
      PROVE  /\ turns'[t].rt = 0 /\ ~turns'[t].accepted /\ log'.accepted[f] = 0
             /\ \A g \in Gens : pumps'[g].turn # t
  <2>1. op[t].pc \in Undispatched /\ turns[t].rt = 0
    BY <1>3, <1>8 DEF PromptOnce
  <2>2. ~Dispatch(t) \/ turns'[t].rt = turns[t].rt
    <3>1. Dispatch(t) => op'[t].pc = "send" \/ turns' = turns
      BY <1>1, GoesAlone DEF Dispatch
    <3> QED BY <1>4, <1>8, <3>1
  <2>3. turns'[t].rt = 0
    BY <2>1, <2>2, TurnSources
  <2>4. ASSUME NEW g \in Gens, pumps'[g].turn = t
        PROVE  FALSE
    <3>1. t # None /\ g # 0
      BY NamesAssumption DEF Gens
    <3> QED BY <2>1, <2>4, <3>1, PumpTurnSources DEF PromptOnce
  <2> QED BY <1>6, <2>1, <2>3, <2>4
<1>9. op'[t].pc \in Answering \/ log'.accepted[f] # 0 \/ log'.idles[f] # <<>> =>
        turns'[t].accepted
  <2>1. CASE op'[t].pc \in Answering
    <3>1. CASE Accept(t)
      BY <1>1, <3>1 DEF Accept, AcceptTurn, TypeOK, TurnType
    <3> QED BY <1>3, <1>5, <2>1, <3>1 DEF PromptOnce
  <2>2. CASE log'.accepted[f] # 0
    BY <1>5, <2>2, PromptAccepts DEF PromptOnce
  <2>3. CASE log'.idles[f] # <<>>
    BY <1>4, <1>5, <1>7, <2>3 DEF PromptOnce
  <2> QED BY <2>1, <2>2, <2>3
<1>10. ASSUME op'[t].pc \in Underway, log'.accepted[f] # 0
       PROVE  stream' \in {0, log'.accepted[f]}
  <2>1. op[t].pc \in Underway
    BY <1>3, <1>4, <1>6, <1>10
  <2>2. ASSUME NEW o \in Ops, OpenPublish(o)
        PROVE  FALSE
    <3>1. session.gate = o /\ op[o].pc = "openPublish"
      BY <2>2 DEF OpenPublish, ProcInv, GateHeld, GateFree
    <3>2. session.gate = t
      BY <1>1, <2>1 DEF ProcInv, GateHeld, GateFree, Underway, Answering, Joined
    <3> QED BY <2>1, <3>1, <3>2 DEF Underway, Answering, Joined
  <2>3. stream' \in {stream, 0}
    BY <1>1, <2>2, StreamSources
  <2>4. CASE log'.accepted[f] = log.accepted[f]
    BY <1>10, <2>1, <2>3, <2>4 DEF PromptOnce
  <2>5. CASE log'.accepted[f] # log.accepted[f]
    BY <1>1, <2>3, <2>5, AcceptedThere
  <2> QED BY <2>4, <2>5
<1>11. op'[t].pc \in Undispatched \cup Underway => log'.idles[f] = <<>>
  <2>1. "claim" \notin Undispatched \cup Underway
    BY DEF Undispatched, BeforeSend, Underway, Answering, Joined
  <2> QED BY <1>3, <1>4, <1>7, <2>1 DEF PromptOnce
<1>12. \A i, j \in DOMAIN log'.idles[f] : i = j
  BY <1>7 DEF PromptOnce
<1>13. log'.accepted[f] # 0 =>
         \A i \in DOMAIN log'.idles[f] : log'.idles[f][i].on = log'.accepted[f]
  <2>1. CASE log'.idles[f] # log.idles[f]
    BY <1>4, <1>7, <2>1 DEF PromptOnce
  <2>2. CASE log'.idles[f] = log.idles[f] /\ log.idles[f] # <<>>
    BY <1>5, <2>2 DEF PromptOnce
  <2>3. CASE log'.idles[f] = <<>>
    BY <2>3
  <2> QED BY <2>1, <2>2, <2>3
<1> QED BY <1>8, <1>9, <1>10, <1>11, <1>12, <1>13 DEF PromptOnce

-----------------------------------------------------------------------------
(* IdleOnce, for a cycle.  While the incarnation a cycle was opened on is  *)
(* the open one, the pump that handles the cycle is the bound generation's,*)
(* so there is one; the ladder idles the cycle only after it has unbound   *)
(* the generation; and the one that idles the cycle hands it on to nobody. *)

(* A pump that is to idle its cycle, and one that handles it at all.       *)
Idlers ==
  {"route", "cycleSettle", "cycleJoin", "stats", "cycleCommit", "cycleFence",
   "cycleDrop", "cycleIdle", "endJoin"}

Handling == Idlers \cup {"cycleClear"}

Handles(g, r) == pumps[g].cycle = r /\ pumps[g].pc \in Handling

(* A process is pumped once, and it is done once its pump is.              *)
PumpedOnce ==
  /\ \A g \in Gens :
       runtimes[g].proc = "unborn" => pumps[g].pc = "none" /\ ~runtimes[g].done
  /\ \A o \in Ops :
       op[o].pc = "bind" => /\ op[o].at \in Gens
                            /\ pumps[op[o].at].pc = "none"
                            /\ ~runtimes[op[o].at].done
  /\ \A g \in Gens : runtimes[g].done => pumps[g].pc = "done"

(* The ladder idles a cycle when no generation is bound any more.          *)
LadderUnbinds ==
  /\ closer.pc \in {"gate", "commit", "idle", "fence", "done"} => session.runtime = 0
  /\ closer.pc \in {"join", "abort", "waitTurn", "stop", "stopJoin"} =>
       session.runtime \in {0, closer.rt}

CycleOnce(r) ==
  /\ ~Fenced(r) =>
       /\ \A g \in Gens : Handles(g, r) => session.runtime = g
       /\ Carried(Agent(r)) # {} =>
            /\ \A g \in Gens : pumps[g].cycle = r => pumps[g].pc \notin Idlers
            /\ session.cycle = r =>
                 \E g \in Gens : pumps[g].cycle = r /\ pumps[g].pc = "cycleClear"
  /\ \A i, j \in Carried(Agent(r)) : i = j

CyclesOnce == \A r \in Runs : CycleOnce(r)

(* Only the end of its pump ends a process.                                *)
LEMMA DoneSources ==
  ASSUME TypeOK, [Next]_vars, NEW g \in Gens, runtimes'[g].done
  PROVE  runtimes[g].done \/ EndRelease(g)
<1>1. runtimes \in [Gens -> RuntimeType]
  BY DEF TypeOK
<1>2. ASSUME NEW h, Exited(h)
      PROVE  runtimes[g].done
  BY <1>1, <1>2 DEF Exited, RuntimeType
<1>3. CASE runtimes' = runtimes
  BY <1>3
<1>4. ASSUME NEW t \in Turns, PromptStep(t)
      PROVE  runtimes[g].done
  BY <1>2, <1>3, <1>4 DEF PromptStep, PromptInstall, Dispatch, Send, Reply, Lost,
     OwedFence, Accept, Wait, StopGrace, Settle, Join, TurnCommit, StopCommit,
     CommitFence, Terminal, Claim
<1>5. ASSUME NEW h \in Gens, PumpStep(h)
      PROVE  runtimes[g].done \/ EndRelease(g)
  <2>1. CASE PumpHoldLost(h) \/ CycleDrop(h)
    <3>1. PICK k : runtimes' = [runtimes EXCEPT ![h].killed = k]
      BY <2>1 DEF PumpHoldLost, CycleDrop
    <3> QED BY <1>1, <3>1 DEF RuntimeType
  <2>2. CASE RuntimeEnded(h)
    <3>1. runtimes' = [runtimes EXCEPT ![h].ending = TRUE] \/ runtimes' = runtimes
      BY <2>2 DEF RuntimeEnded
    <3> QED BY <1>1, <3>1 DEF RuntimeType
  <2>3. CASE EndRelease(h)
    BY <1>1, <2>3 DEF EndRelease, RuntimeType
  <2> QED BY <1>3, <1>5, <2>1, <2>2, <2>3 DEF PumpStep, PumpRead, PumpRoute, PumpHold,
     PumpHoldDone, CycleSettle, CycleJoin, CycleStats, CycleCommit, CycleFence,
     CycleIdle, CycleClear, EndJoin, EndUnbind
<1>6. ASSUME NEW o \in Ops, Admit(o) \/ Prepare(o) \/ EnsureStep(o) \/ Return(o)
      PROVE  runtimes[g].done
  <2>1. CASE Launch(o)
    BY <1>1, <2>1 DEF Launch, RuntimeType
  <2> QED BY <1>2, <1>3, <1>6, <2>1 DEF Admit, Prepare, EnsureStep, Return,
     EnsureRuntime, AwaitEnding, AwaitRetired, Bind, Configure,
     StopUnconfigured, OpenCheck, OpenPublish
<1>7. ASSUME NEW c \in Controls, ControlUse(c)
      PROVE  runtimes[g].done
  BY <1>7 DEF ControlUse
<1>8. CASE EstablishStep
  BY <1>8 DEF EstablishStep, EstablishCommit, EstablishRelease, EstablishHook,
     EstablishAbandon
<1>9. ASSUME NEW h \in Gens, PiStep(h)
      PROVE  runtimes[g].done
  <2>1. CASE PiClosesStdout(h)
    BY <1>1, <2>1 DEF PiClosesStdout, RuntimeType
  <2> QED BY <1>2, <1>3, <1>9, <2>1 DEF PiStep, PiStarts, PiSettles, PiExits
<1>10. CASE CloseStep
  BY <1>2, <1>3, <1>10 DEF CloseStep, CloseJoin, CloseAbort, CloseWait,
     CloseStop, CloseStopJoin, CloseGate, CloseCommit, CloseIdle, CloseFence
<1>11. CASE Cancel \/ Close \/ (\E a \in aborts : Abort(a)) \/ UNCHANGED vars
  BY <1>3, <1>11 DEF Cancel, Close, Abort, vars
<1> QED BY <1>4, <1>5, <1>6, <1>7, <1>8, <1>9, <1>10, <1>11 DEF Next

(* An operation comes to bind a process by launching it.                   *)
LEMMA BindPoints ==
  ASSUME TypeOK, [Next]_vars, NEW o \in Ops, op'[o].pc = "bind"
  PROVE  \/ op'[o] = op[o] /\ ~Bind(o)
         \/ /\ op'[o].at \in Gens /\ runtimes[op'[o].at].proc = "unborn"
            /\ pumps' = pumps
<1>1. op \in [Ops -> OpType]
  BY DEF TypeOK
<1>2. ASSUME NEW p, Go(o, p)
      PROVE  op'[o].pc = p
  BY <1>1, <1>2 DEF Go, OpType
<1>3. ~Bind(o)
  BY <1>2 DEF Bind
<1>4. ASSUME PromptStep(o)
      PROVE  \E p : p # "bind" /\ Go(o, p)
  <2>1. CASE PromptInstall(o) \/ Dispatch(o) \/ Send(o) \/ Reply(o) \/ Lost(o)
    BY <2>1 DEF PromptInstall, Dispatch, Send, Reply, Lost, ClaimFence
  <2>2. CASE OwedFence(o) \/ Accept(o) \/ Wait(o) \/ StopGrace(o) \/ Claim(o)
    BY <2>2 DEF OwedFence, Accept, Wait, StopGrace, Claim, ClaimFence
  <2>3. CASE Settle(o) \/ Join(o) \/ TurnCommit(o) \/ StopCommit(o)
             \/ CommitFence(o) \/ Terminal(o)
    BY <2>3 DEF Settle, Join, TurnCommit, StopCommit, CommitFence, Terminal
  <2> QED BY <1>4, <2>1, <2>2, <2>3 DEF PromptStep
<1>5. ASSUME Return(o) \/ EnsureRuntime(o)
      PROVE  FALSE
  BY <1>1, <1>5 DEF Return, EnsureRuntime, Ensured
<1>6. CASE Launch(o)
  BY <1>1, <1>2, <1>6 DEF Launch
<1>7. ASSUME OpenCheck(o) \/ OpenPublish(o)
      PROVE  FALSE
  BY <1>2, <1>7 DEF OpenCheck, OpenPublish, OpenRefused, Ensured
<1>8. ASSUME \/ Admit(o) \/ Prepare(o) \/ ControlUse(o) \/ AwaitEnding(o)
             \/ AwaitRetired(o) \/ Configure(o) \/ StopUnconfigured(o)
      PROVE  FALSE
  BY <1>2, <1>8 DEF Admit, Prepare, ControlUse, AwaitEnding, AwaitRetired,
     Configure, StopUnconfigured
<1>9. ASSUME o = Opening, EstablishStep
      PROVE  FALSE
  BY <1>1, <1>2, <1>9 DEF EstablishStep, EstablishCommit, EstablishRelease,
     EstablishHook, EstablishAbandon
<1> QED BY <1>2, <1>3, <1>4, <1>5, <1>6, <1>7, <1>8, <1>9, OpAlone DEF EnsureStep

(* Every step pumps a process once.                                        *)
LEMMA PumpedStep ==
  TypeInv /\ ProcInv /\ GenInv /\ PumpedOnce /\ [Next]_vars => PumpedOnce'
<1> SUFFICES ASSUME TypeInv, ProcInv, GenInv, PumpedOnce, [Next]_vars
             PROVE  PumpedOnce'
  OBVIOUS
<1>1. TypeOK /\ pumps \in [Gens -> PumpType] /\ runtimes \in [Gens -> RuntimeType]
  BY DEF TypeInv, TypeOK
<1>2. ASSUME NEW g \in Gens, pumps[g].pc \in {"none", "done"}
      PROVE  ~PumpStep(g)
  BY <1>2 DEF PumpStep, PumpRead, PumpRoute, PumpHold, PumpHoldLost, PumpHoldDone,
     Holding, CycleSettle, CycleJoin, CycleStats, CycleCommit, CycleFence,
     CycleDrop, CycleIdle, CycleClear, RuntimeEnded, EndJoin, EndUnbind, EndRelease
<1>3. ASSUME NEW g \in Gens, pumps[g].pc \in {"none", "done"},
             \A o \in Ops : Bind(o) => op[o].at # g
      PROVE  pumps'[g] = pumps[g]
  BY <1>1, <1>2, <1>3, PumpAlone
<1>4. ASSUME NEW g \in Gens, pumps[g].pc # "endRelease", ~runtimes[g].done
      PROVE  ~runtimes'[g].done
  BY <1>1, <1>4, DoneSources DEF EndRelease
<1>5. \A o \in Ops : Bind(o) => op[o].pc = "bind" /\ session.gate = o
  BY DEF Bind, ProcInv, GateHeld, GateFree
<1>6. ASSUME NEW g \in Gens, runtimes'[g].proc = "unborn"
      PROVE  pumps'[g].pc = "none" /\ ~runtimes'[g].done
  <2>1. runtimes[g].proc = "unborn" /\ pumps[g].pc = "none" /\ ~runtimes[g].done
    BY <1>1, <1>6, BirthSources DEF PumpedOnce
  <2>2. ASSUME NEW o \in Ops, Bind(o)
        PROVE  op[o].at # g
    <3>1. op[o].at \in Gens /\ op[o].at # 0
      BY <1>5, <2>2 DEF PumpedOnce, Gens
    <3> QED BY <1>5, <2>1, <2>2, <3>1 DEF GenInv, LaunchesUnused, Launching, Born
  <2> QED BY <1>3, <1>4, <2>1, <2>2
<1>7. ASSUME NEW o \in Ops, op'[o].pc = "bind", NEW g, g = op'[o].at
      PROVE  g \in Gens /\ pumps'[g].pc = "none" /\ ~runtimes'[g].done
  <2>1. CASE op'[o] = op[o] /\ ~Bind(o)
    <3>1. g \in Gens /\ pumps[g].pc = "none" /\ ~runtimes[g].done /\ session.gate = o
      BY <1>7, <2>1 DEF PumpedOnce, ProcInv, GateHeld, GateFree
    <3> QED BY <1>3, <1>4, <1>5, <2>1, <3>1
  <2>2. CASE g \in Gens /\ runtimes[g].proc = "unborn" /\ pumps' = pumps
    BY <1>4, <2>2 DEF PumpedOnce
  <2> QED BY <1>1, <1>7, <2>1, <2>2, BindPoints
<1>8. ASSUME NEW g \in Gens, runtimes'[g].done
      PROVE  pumps'[g].pc = "done"
  <2>1. CASE runtimes[g].done
    <3>1. pumps[g].pc = "done" /\ \A o \in Ops : Bind(o) => op[o].at # g
      BY <1>5, <2>1 DEF PumpedOnce
    <3> QED BY <1>3, <3>1
  <2>2. CASE EndRelease(g)
    BY <1>1, <2>2 DEF EndRelease, PumpType
  <2> QED BY <1>1, <1>8, <2>1, <2>2, DoneSources
<1> QED BY <1>6, <1>7, <1>8 DEF PumpedOnce

(* At first the only process is bound and pumped.                          *)
LEMMA PumpedInit == Init => PumpedOnce
<1> SUFFICES ASSUME Init PROVE PumpedOnce
  OBVIOUS
<1>1. \A o \in Ops : op[o].pc # "bind"
  BY DEF Init
<1>2. \A g \in Gens : /\ ~runtimes[g].done
                      /\ runtimes[g].proc = "unborn" => pumps[g].pc = "none"
  BY DEF Init
<1> QED BY <1>1, <1>2 DEF PumpedOnce

(* A binding is given up for a process whose pump is over, or by the pump. *)
LEMMA GivenUp ==
  ASSUME TypeInv, ProcInv, [Next]_vars, NEW g \in Gens,
         session.runtime = g, session'.runtime # g
  PROVE  CycleDrop(g) \/ EndUnbind(g) \/ runtimes[g].done
<1>1. TypeOK /\ session \in SessionType /\ g # 0
  BY DEF TypeInv, TypeOK, Gens
<1>2. ASSUME NEW h, session' = Unbound(h)
      PROVE  h = g
  BY <1>1, <1>2 DEF Unbound
<1>3. ASSUME CommitMirror
      PROVE  FALSE
  BY <1>1, <1>3 DEF CommitMirror, SessionType
<1>4. ASSUME NEW t \in Turns, PromptStep(t)
      PROVE  runtimes[g].done
  <2>1. CASE StopGrace(t) \/ StopCommit(t)
    BY <1>2, <2>1 DEF StopGrace, StopCommit
  <2>2. CASE PromptInstall(t)
    BY <1>1, <2>2 DEF PromptInstall, SessionType
  <2> QED BY <1>3, <1>4, <2>1, <2>2 DEF PromptStep, Dispatch, Send, Reply, Lost,
     OwedFence, Accept, Wait, Settle, Join, TurnCommit, CommitFence, Terminal, Claim
<1>5. ASSUME NEW h \in Gens, PumpStep(h)
      PROVE  CycleDrop(g) \/ EndUnbind(g)
  <2>1. CASE CycleDrop(h)
    BY <1>2, <2>1 DEF CycleDrop
  <2>2. CASE EndUnbind(h)
    BY <1>2, <2>2 DEF EndUnbind
  <2>3. CASE PumpRoute(h)
    BY <1>1, <2>3 DEF PumpRoute, RouteToTurn, RouteToCycle, OpenAgentCycle, SessionType
  <2>4. CASE CycleClear(h)
    BY <1>1, <2>4 DEF CycleClear, SessionType
  <2>5. CASE RuntimeEnded(h)
    BY <1>1, <2>5 DEF RuntimeEnded, SessionType
  <2> QED BY <1>3, <1>5, <2>1, <2>2, <2>3, <2>4, <2>5 DEF PumpStep, PumpRead, PumpHold,
     PumpHoldLost, PumpHoldDone, CycleSettle, CycleJoin, CycleStats, CycleCommit,
     CycleFence, CycleIdle, EndJoin, EndRelease
<1>6. ASSUME NEW o \in Ops, Admit(o) \/ Prepare(o) \/ EnsureStep(o) \/ Return(o)
      PROVE  runtimes[g].done
  <2>1. CASE StopUnconfigured(o)
    BY <1>2, <2>1 DEF StopUnconfigured
  <2>2. CASE Bind(o)
    BY <1>1, <2>2 DEF Bind, ProcInv, NothingBound, Relaunching
  <2>3. CASE Admit(o) \/ Return(o) \/ AwaitRetired(o)
    BY <1>1, <2>3 DEF Admit, Return, AwaitRetired, SessionType
  <2>4. CASE OpenCheck(o) \/ OpenPublish(o)
    BY <1>1, <2>4 DEF OpenCheck, OpenPublish, SessionType
  <2> QED BY <1>6, <2>1, <2>2, <2>3, <2>4 DEF Prepare, EnsureStep, EnsureRuntime,
     AwaitEnding, Launch, Configure
<1>7. ASSUME NEW c \in Controls, ControlUse(c)
      PROVE  FALSE
  BY <1>3, <1>7 DEF ControlUse
<1>8. ASSUME NEW base \in {session, [session EXCEPT !.gate = None]}, BeginClose(base)
      PROVE  FALSE
  <2>1. base.runtime = g /\ base \in SessionType
    BY <1>1, <1>8 DEF SessionType
  <2>2. session' = [base EXCEPT !.closing = TRUE]
    BY <1>8 DEF BeginClose
  <2> HIDE <1>8
  <2> QED BY <2>1, <2>2 DEF SessionType
<1>9. CASE EstablishStep
  <2>1. CASE EstablishAbandon
    <3>1. CASE session' = [session EXCEPT !.gate = None]
      BY <1>1, <3>1 DEF SessionType
    <3> QED BY <1>8, <2>1, <3>1 DEF EstablishAbandon
  <2>2. CASE EstablishRelease \/ EstablishHook
    BY <1>1, <2>2 DEF EstablishRelease, EstablishHook, SessionType
  <2> QED BY <1>3, <1>9, <2>1, <2>2 DEF EstablishStep, EstablishCommit
<1>10. CASE CloseStep
  <2>1. CASE CloseStopJoin
    BY <1>2, <2>1 DEF CloseStopJoin
  <2>2. CASE CloseGate \/ CloseIdle \/ CloseFence
    BY <1>1, <2>2 DEF CloseGate, CloseIdle, CloseFence, SessionType
  <2> QED BY <1>3, <1>10, <2>1, <2>2 DEF CloseStep, CloseJoin, CloseAbort, CloseWait,
     CloseStop, CloseCommit
<1>11. ASSUME NEW h \in Gens, PiStep(h)
       PROVE  FALSE
  BY <1>11 DEF PiStep, PiStarts, PiSettles, PiExits, PiClosesStdout
<1>12. CASE Cancel \/ Close \/ (\E a \in aborts : Abort(a)) \/ UNCHANGED vars
  BY <1>8, <1>12 DEF Cancel, Close, Abort, vars
<1> QED BY <1>4, <1>5, <1>6, <1>7, <1>9, <1>10, <1>11, <1>12 DEF Next

(* A close begins with the generation that is bound.                       *)
LEMMA LadderMoves ==
  ASSUME TypeOK, [Next]_vars, closer' # closer
  PROVE  \/ CloseStep
         \/ /\ ~session.closing /\ closer'.pc = "join"
            /\ closer'.rt = session.runtime /\ session'.runtime = session.runtime
<1>2. ASSUME NEW t \in Turns, PromptStep(t)
      PROVE  FALSE
  BY <1>2, PromptOpens
<1>3. ASSUME NEW g \in Gens, PumpStep(g)
      PROVE  FALSE
  BY <1>3, PumpKept
<1>4. ASSUME NEW o \in Ops, Admit(o) \/ Prepare(o) \/ EnsureStep(o) \/ Return(o)
      PROVE  FALSE
  <2>1. CASE OpenCheck(o) \/ OpenPublish(o)
    BY <2>1 DEF OpenCheck, OpenPublish
  <2> QED BY <1>4, <2>1, GateKept, EnsureKept
<1>5. ASSUME NEW c \in Controls, ControlUse(c)
      PROVE  FALSE
  BY <1>5, GateKept DEF Ops
<1>6. ASSUME NEW base \in {session, [session EXCEPT !.gate = None]}, BeginClose(base)
      PROVE  /\ ~session.closing /\ closer'.pc = "join"
             /\ closer'.rt = session.runtime /\ session'.runtime = session.runtime
  <2>1. base.runtime = session.runtime /\ base \in SessionType
    BY <1>6 DEF TypeOK, SessionType
  <2>2. session' = [base EXCEPT !.closing = TRUE]
    BY <1>6 DEF BeginClose
  <2>3. session'.runtime = session.runtime
    BY <2>1, <2>2 DEF SessionType
  <2> QED BY <1>6, <2>3 DEF BeginClose
<1>7. CASE EstablishStep \/ Close
  BY <1>6, <1>7 DEF EstablishStep, EstablishCommit, EstablishRelease, EstablishHook,
     EstablishAbandon, Close
<1>8. CASE \/ Cancel \/ \E a \in aborts : Abort(a)
           \/ \E g \in Gens : PiStep(g)
           \/ UNCHANGED vars
  BY <1>8, OthersKept
<1> QED BY <1>2, <1>3, <1>4, <1>5, <1>7, <1>8 DEF Next

(* Every step of the ladder unbinds before it idles.                       *)
LEMMA UnbindsStep ==
  TypeInv /\ LadderMarks /\ LadderUnbinds /\ [Next]_vars => LadderUnbinds'
<1> SUFFICES ASSUME TypeInv, LadderMarks, LadderUnbinds, [Next]_vars
             PROVE  LadderUnbinds'
  OBVIOUS
<1>1. TypeOK /\ session \in SessionType /\ closer \in CloserType
  BY DEF TypeInv, TypeOK
<1>2. session.closing => session'.runtime \in {session.runtime, 0}
  BY <1>1, BindingSources DEF Bind
<1>3. CASE closer' = closer
  BY <1>2, <1>3 DEF LadderUnbinds, LadderMarks
<1>4. CASE /\ ~session.closing /\ closer'.pc = "join"
           /\ closer'.rt = session.runtime /\ session'.runtime = session.runtime
  BY <1>4 DEF LadderUnbinds
<1>5. CASE CloseStep
  <2>1. closer.pc # "none" /\ session.closing
    BY <1>5 DEF LadderMarks, CloseStep, CloseJoin, CloseAbort, CloseWait, CloseStop,
       CloseStopJoin, CloseGate, CloseCommit, CloseIdle, CloseFence
  <2>2. ASSUME NEW p, CloseAt(p)
        PROVE  closer'.pc = p /\ closer'.rt = closer.rt
    BY <1>1, <2>2 DEF CloseAt, CloserType
  <2>3. CASE CloseStopJoin
    <3>1. session'.runtime = 0
      BY <1>1, <2>3 DEF CloseStopJoin, Unbound, LadderUnbinds, SessionType
    <3> QED BY <2>2, <2>3, <3>1 DEF CloseStopJoin, LadderUnbinds
  <2>4. CASE CloseJoin \/ CloseAbort \/ CloseWait
    BY <1>2, <2>1, <2>2, <2>4 DEF CloseJoin, CloseAbort, CloseWait, AfterTurn,
       LadderUnbinds
  <2>5. CASE CloseStop
    BY <1>2, <2>1, <2>2, <2>5 DEF CloseStop, LadderUnbinds
  <2>6. CASE CloseGate \/ CloseCommit \/ CloseIdle \/ CloseFence
    <3>1. closer.pc \in {"gate", "commit", "idle", "fence"}
          /\ closer'.pc \in {"commit", "idle", "fence", "done"}
      BY <1>1, <2>2, <2>6 DEF CloseGate, CloseCommit, CloseIdle, CloseFence, CloserType
    <3> QED BY <1>2, <2>1, <3>1 DEF LadderUnbinds
  <2> QED BY <1>5, <2>3, <2>4, <2>5, <2>6 DEF CloseStep
<1> QED BY <1>1, <1>3, <1>4, <1>5, LadderMoves

(* A pump handles a cycle from the record it reads for it on.              *)
LEMMA HandlingSources ==
  ASSUME TypeInv, [Next]_vars, NEW g \in Gens, NEW r \in Runs, Handles(g, r)'
  PROVE  \/ /\ Handles(g, r) /\ (pumps'[g].pc \in Idlers => pumps[g].pc \in Idlers)
            /\ ~CycleIdle(g) \/ pumps'[g].pc = "cycleClear"
         \/ /\ pumps[g].pc = "read" /\ session.runtime = g /\ session.cycle = r
            /\ session'.cycle = r \/ pumps'[g].pc = "endJoin"
<1>1. TypeOK /\ pumps \in [Gens -> PumpType] /\ r # None
  BY NamesAssumption DEF TypeInv, TypeOK, Runs
<1> USE DEF Idlers, Handling
<1>2. CASE pumps'[g] = pumps[g]
  <2>1. ~CycleIdle(g)
    <3>1. CycleIdle(g) => pumps[g].pc = "cycleIdle" /\ pumps'[g].pc = "cycleClear"
      BY <1>1 DEF CycleIdle, PumpAt, PumpType
    <3> QED BY <1>2, <3>1
  <2> QED BY <1>2, <2>1 DEF Handles
<1>3. CASE pumps'[g] # pumps[g]
  <2>1. PumpStep(g)
    BY <1>1, <1>3, PumpAlone DEF Handles
  <2>2. ASSUME NEW p, PumpAt(g, p)
        PROVE  pumps'[g].pc = p /\ pumps[g].cycle = r
    BY <1>1, <2>2 DEF PumpAt, PumpType, Handles
  <2>3. ASSUME NEW todo, pumps' = [pumps EXCEPT ![g] = Rested(@, todo)]
        PROVE  FALSE
    <3>1. Rested(pumps[g], todo).pc = "read"
      BY <1>1 DEF Rested, PumpType
    <3> QED BY <1>1, <2>3, <3>1 DEF Handles
  <2>4. CASE PumpRead(g)
    BY <1>1, <2>4 DEF PumpRead, PumpType, Handles
  <2>5. CASE RuntimeEnded(g)
    BY <1>1, <2>5 DEF RuntimeEnded, PumpType, Handles
  <2>6. CASE PumpRoute(g)
    BY <2>2, <2>3, <2>6 DEF PumpRoute, RouteToTurn, RouteToCycle, OpenAgentCycle,
       PumpRests, Handles, CycleIdle
  <2>7. CASE PumpHold(g)
    BY <1>1, <2>7 DEF PumpHold, Holding, PumpType, Handles, CycleIdle
  <2>8. CASE PumpHoldLost(g)
    BY <1>1, <2>3, <2>8 DEF PumpHoldLost, Holding, PumpType, Handles, CycleIdle
  <2>9. CASE PumpHoldDone(g) \/ CycleClear(g)
    BY <2>3, <2>9 DEF PumpHoldDone, CycleClear, PumpDelivers
  <2>10. CASE CycleSettle(g) \/ CycleJoin(g) \/ CycleStats(g) \/ CycleCommit(g)
    BY <2>2, <2>10 DEF CycleSettle, CycleJoin, CycleStats, CycleCommit, Handles, CycleIdle
  <2>11. CASE CycleFence(g) \/ CycleDrop(g) \/ CycleIdle(g)
    BY <2>2, <2>11 DEF CycleFence, CycleDrop, CycleIdle, Handles
  <2>12. CASE EndJoin(g) \/ EndUnbind(g)
    BY <2>2, <2>12 DEF EndJoin, EndUnbind, Handles
  <2>13. CASE EndRelease(g)
    BY <1>1, <2>13 DEF EndRelease, PumpType, Handles
  <2> QED BY <2>1, <2>4, <2>5, <2>6, <2>7, <2>8, <2>9, <2>10, <2>11, <2>12, <2>13
          DEF PumpStep
<1> QED BY <1>2, <1>3

(* An idle of a cycle goes to the incarnation that is open, and is one more.*)
LEMMA IdleAppends ==
  ASSUME TypeInv, [Next]_vars, NEW r \in Runs,
         log'.idles[Agent(r)] # log.idles[Agent(r)]
  PROVE  /\ stream # 0
         /\ \E out : log'.idles[Agent(r)]
                       = Append(log.idles[Agent(r)], [on |-> stream, outcome |-> out])
<1> DEFINE f == Agent(r)
<1>1. TypeOK /\ f \in Foreground /\ \A s \in Runs : Agent(s) \in Foreground
  BY ForegroundNames DEF TypeInv
<1>2. ASSUME NEW out, log' = Idled(f, out)
      PROVE  /\ stream # 0
             /\ \E x : log'.idles[f] = Append(log.idles[f], [on |-> stream, outcome |-> x])
  BY <1>1, <1>2, IdledOne
<1>3. CASE \E g \in Gens : CycleIdle(g) /\ f = Agent(pumps[g].cycle)
  BY <1>2, <1>3 DEF CycleIdle
<1>4. CASE \E g \in Gens : /\ EndJoin(g) /\ pumps[g].cycle # None
                          /\ f = Agent(pumps[g].cycle)
  BY <1>2, <1>4 DEF EndJoin
<1>5. CASE CloseIdle /\ session.cycle # None /\ f = Agent(session.cycle)
  BY <1>2, <1>5 DEF CloseIdle
<1>6. ~ \E t \in Turns : Terminal(t) /\ f = Prompted(t)
  BY Apart
<1>7. log'.idles[f] # log.idles[f]
  OBVIOUS
<1> HIDE DEF f
<1>8. \/ \E g \in Gens : CycleIdle(g) /\ f = Agent(pumps[g].cycle)
      \/ \E g \in Gens : /\ EndJoin(g) /\ pumps[g].cycle # None
                         /\ f = Agent(pumps[g].cycle)
      \/ CloseIdle /\ session.cycle # None /\ f = Agent(session.cycle)
  BY <1>1, <1>6, <1>7, IdleOwner
<1> QED BY <1>3, <1>4, <1>5, <1>8 DEF f

(* Only an idle on the incarnation that carried the opening adds to those  *)
(* the incarnation carried.                                                *)
LEMMA CarriedSources ==
  ASSUME TypeInv, [Next]_vars, NEW r \in Runs,
         log'.accepted[Agent(r)] = log.accepted[Agent(r)]
  PROVE  \/ Carried(Agent(r))' = Carried(Agent(r))
         \/ /\ log'.idles[Agent(r)] # log.idles[Agent(r)] /\ ~Fenced(r)
            /\ \A i \in Carried(Agent(r))' :
                 i \in Carried(Agent(r)) \/ i = Len(log.idles[Agent(r)]) + 1
<1> DEFINE s == log.idles[Agent(r)]
           q == log'.idles[Agent(r)]
           at == log.accepted[Agent(r)]
<1>1. s \in Seq([on : Gens, outcome : Outcomes])
  BY ForegroundNames DEF TypeInv, TypeOK, LogType
<1>2. /\ Carried(Agent(r)) = {i \in DOMAIN s : s[i].on = at}
      /\ Carried(Agent(r))' = {i \in DOMAIN q : q[i].on = at}
  BY DEF Carried
<1>3. CASE q = s
  BY <1>2, <1>3
<1>4. CASE q # s
  <2>1. PICK out : q = Append(s, [on |-> stream, outcome |-> out]) /\ stream # 0
    BY <1>4, IdleAppends
  <2> DEFINE idle == [on |-> stream, outcome |-> out]
  <2>2. idle.on = stream /\ q = Append(s, idle)
    BY <2>1
  <2> HIDE DEF idle
  <2>3. /\ DOMAIN s = 1 .. Len(s) /\ Len(s) \in Nat
        /\ DOMAIN q = 1 .. (Len(s) + 1)
        /\ \A i \in 1 .. Len(s) : q[i] = s[i]
        /\ q[Len(s) + 1] = idle
    BY <1>1, <2>2
  <2> HIDE DEF s, q
  <2>4. \A i \in DOMAIN q : i \in DOMAIN s \/ i = Len(s) + 1
    BY <2>3
  <2>5. \A i \in {i \in DOMAIN q : q[i].on = at} :
          i \in {j \in DOMAIN s : s[j].on = at} \/ i = Len(s) + 1
    BY <2>3, <2>4
  <2>6. CASE stream = at
    <3>1. ~Fenced(r)
      BY <2>1, <2>6 DEF Fenced
    <3> QED BY <1>2, <1>4, <2>5, <3>1 DEF s, q
  <2>7. CASE stream # at
    <3>1. {i \in DOMAIN q : q[i].on = at} = {j \in DOMAIN s : s[j].on = at}
      BY <2>2, <2>3, <2>4, <2>7
    <3> QED BY <1>2, <3>1
  <2> QED BY <2>6, <2>7
<1> QED BY <1>3, <1>4

(* A cycle stays with the bound generation while its incarnation is open.  *)
LEMMA HandlersBound ==
  ASSUME TypeInv, ProcInv, CyclesStored, PumpedOnce, [Next]_vars, NEW r \in Runs,
         CycleOnce(r), ~Fenced(r), NEW g \in Gens, Handles(g, r)'
  PROVE  session.runtime = g /\ session'.runtime = g
<1>1. session.runtime = g
  BY HandlingSources DEF CycleOnce
<1>2. ~CycleDrop(g)
  BY HandlingSources DEF CycleDrop, CyclesStored, Handles
<1>3. ~EndUnbind(g)
  <2>1. EndUnbind(g) => pumps'[g].pc = "endRelease"
    BY DEF EndUnbind, PumpAt, TypeInv, TypeOK, PumpType
  <2> QED BY <2>1 DEF Handles, Handling, Idlers
<1>4. ~runtimes[g].done
  BY HandlingSources DEF PumpedOnce, Handles, Handling, Idlers
<1> QED BY <1>1, <1>2, <1>3, <1>4, GivenUp

(* What an idle of the cycle leaves nobody to do again.                    *)
Idle(r) ==
  /\ \A g \in Gens : pumps[g].cycle = r => pumps[g].pc \notin Idlers
  /\ session.cycle = r =>
       \E g \in Gens : pumps[g].cycle = r /\ pumps[g].pc = "cycleClear"

(* Nobody takes an idled cycle up again.                                   *)
LEMMA IdleStays ==
  ASSUME TypeInv, ProcInv, StartInv, CyclesStored, PumpedOnce, [Next]_vars,
         NEW r \in Runs, Opened(r), CycleOnce(r), ~Fenced(r), Idle(r)
  PROVE  Idle(r)'
<1>1. TypeOK /\ r # None
  BY NamesAssumption DEF TypeInv, Runs
<1>2. ASSUME NEW g \in Gens, pumps'[g].cycle = r, pumps'[g].pc \in Idlers
      PROVE  FALSE
  <2>1. Handles(g, r)' /\ session.runtime = g
    BY <1>2, HandlersBound DEF Handles, Handling
  <2>2. CASE Handles(g, r) /\ pumps[g].pc \in Idlers
    BY <2>2 DEF Idle, Handles
  <2>3. CASE pumps[g].pc = "read" /\ session.cycle = r
    <3>1. PICK h \in Gens : pumps[h].cycle = r /\ pumps[h].pc = "cycleClear"
      BY <2>3 DEF Idle
    <3>2. session.runtime = h
      BY <3>1 DEF CycleOnce, Handles, Handling
    <3> QED BY <2>1, <2>3, <3>1, <3>2
  <2> QED BY <1>2, <2>1, <2>2, <2>3, HandlingSources
<1>3. ASSUME session'.cycle = r
      PROVE  \E g \in Gens : pumps'[g].cycle = r /\ pumps'[g].pc = "cycleClear"
  <2>1. session.cycle = r
    BY <1>3, CycleSources, OpensFresh
  <2>2. PICK h \in Gens : pumps[h].cycle = r /\ pumps[h].pc = "cycleClear"
    BY <2>1 DEF Idle
  <2>3. pumps'[h] = pumps[h]
    <3>1. ~PumpStep(h)
      <4>1. PumpStep(h) => CycleClear(h)
        BY <2>2 DEF PumpStep, PumpRead, PumpRoute, PumpHold, PumpHoldLost,
           PumpHoldDone, Holding, CycleSettle, CycleJoin, CycleStats, CycleCommit,
           CycleFence, CycleDrop, CycleIdle, RuntimeEnded, EndJoin, EndUnbind,
           EndRelease
      <4>2. CycleClear(h) => session'.cycle # r
        BY <1>1, <2>1, <2>2 DEF CycleClear, TypeOK, SessionType
      <4> QED BY <1>3, <4>1, <4>2
    <3>2. ~ \E o \in Ops : Bind(o) /\ op[o].at = h
      BY <2>2 DEF Bind, PumpedOnce
    <3> QED BY <1>1, <3>1, <3>2, PumpAlone
  <2> QED BY <2>2, <2>3
<1> QED BY <1>2, <1>3 DEF Idle

(* Who idles a cycle is the only one who could, and hands it on to nobody. *)
LEMMA IdlesLast ==
  ASSUME TypeInv, ProcInv, JoinInv, CyclesStored, PumpedOnce, LadderUnbinds,
         StartInv, [Next]_vars, NEW r \in Runs, Opened(r), CycleOnce(r), ~Fenced(r),
         log'.idles[Agent(r)] # log.idles[Agent(r)]
  PROVE  Carried(Agent(r)) = {} /\ Idle(r)'
<1>1. TypeOK /\ Agent(r) \in Foreground /\ r # None
  BY NamesAssumption, ForegroundNames DEF TypeInv, Runs
<1>2. ASSUME NEW g \in Gens, pumps'[g].cycle = r, pumps'[g].pc \in Idlers
      PROVE  /\ session.runtime = g
             /\ \/ Handles(g, r) /\ (~CycleIdle(g) \/ pumps'[g].pc = "cycleClear")
                \/ pumps[g].pc = "read"
  BY <1>2, HandlersBound, HandlingSources DEF Handles, Handling
<1>3. ASSUME session'.cycle = r
      PROVE  session.cycle = r
  BY <1>3, CycleSources, OpensFresh
<1>4. ASSUME NEW g \in Gens, pumps[g].cycle = r, pumps[g].pc \in Idlers
      PROVE  /\ Carried(Agent(r)) = {} /\ session.runtime = g
             /\ \A h \in Gens : pumps'[h].cycle = r /\ pumps'[h].pc \in Idlers => h = g
  <2>1. session.runtime = g
    BY <1>4 DEF CycleOnce, Handles, Handling
  <2> QED BY <1>2, <1>4, <2>1 DEF CycleOnce
<1>5. ASSUME NEW g \in Gens, CycleIdle(g), pumps[g].cycle = r
      PROVE  Carried(Agent(r)) = {} /\ Idle(r)'
  <2>1. pumps[g].pc \in Idlers /\ pumps'[g].pc = "cycleClear" /\ pumps'[g].cycle = r
    BY <1>1, <1>5 DEF CycleIdle, PumpAt, TypeOK, PumpType, Idlers
  <2>2. "cycleClear" \notin Idlers
    BY DEF Idlers
  <2> QED BY <1>4, <1>5, <2>1, <2>2 DEF Idle
<1>6. ASSUME NEW g \in Gens, EndJoin(g), pumps[g].cycle = r
      PROVE  Carried(Agent(r)) = {} /\ Idle(r)'
  <2>1. pumps[g].pc = "endJoin" /\ pumps'[g].pc = "endUnbind"
    BY <1>1, <1>6 DEF EndJoin, PumpAt, TypeOK, PumpType
  <2>2. "endUnbind" \notin Idlers /\ "endJoin" \in Idlers
    BY DEF Idlers
  <2>3. session'.cycle # r
    BY <1>1, <1>3, <1>6, <2>1 DEF JoinInv, CyclesJoined
  <2> QED BY <1>4, <1>6, <2>1, <2>2, <2>3 DEF Idle
<1>7. ASSUME CloseIdle, session.cycle = r
      PROVE  Carried(Agent(r)) = {} /\ Idle(r)'
  <2>1. session.runtime = 0 /\ 0 \notin Gens
    BY <1>7 DEF CloseIdle, LadderUnbinds, Gens
  <2>2. Carried(Agent(r)) = {}
    BY <1>7, <2>1 DEF CycleOnce, Handles, Handling
  <2>3. session'.cycle # r
    BY <1>1, <1>7 DEF CloseIdle, TypeOK, SessionType
  <2> QED BY <1>2, <2>1, <2>2, <2>3 DEF Idle
<1>8. ~ \E t \in Turns : Terminal(t) /\ Agent(r) = Prompted(t)
  BY Apart
<1>9. \/ \E g \in Gens : CycleIdle(g) /\ pumps[g].cycle = r
      \/ \E g \in Gens : EndJoin(g) /\ pumps[g].cycle = r
      \/ CloseIdle /\ session.cycle = r
  BY <1>1, <1>8, IdleOwner, Apart
<1> QED BY <1>5, <1>6, <1>7, <1>9

(* Every step keeps a cycle to one idle where its opening went.            *)
LEMMA CycleOnceStep ==
  ASSUME TypeInv, ProcInv, StartInv, GenInv, JoinInv, CyclesStored, PumpedOnce,
         LadderUnbinds, [Next]_vars, NEW r \in Runs, CycleOnce(r)
  PROVE  CycleOnce(r)'
<1> DEFINE f == Agent(r)
<1>1. TypeOK /\ r # None /\ f \in Foreground
  BY NamesAssumption, ForegroundNames DEF TypeInv, Runs
<1>2. ASSUME log'.idles[f] = <<>>, \A g \in Gens : pumps'[g].cycle # r
      PROVE  CycleOnce(r)'
  <2>1. Carried(f)' = {}
    BY <1>2 DEF Carried
  <2> QED BY <1>2, <2>1 DEF CycleOnce, Handles
<1>3. CASE ~Opened(r)'
  BY <1>2, <1>3 DEF Opened
<1>4. CASE Opened(r)' /\ ~Opened(r)
  <2>1. log'.idles = log.idles /\ log.idles[f] = <<>>
    BY <1>4, OpenedSources, OpensFresh DEF Opened
  <2>2. ASSUME NEW g \in Gens, pumps'[g].cycle = r
        PROVE  FALSE
    BY <1>1, <1>4, <2>2, PumpCycleSources DEF Opened
  <2> QED BY <1>2, <2>1, <2>2
<1>5. CASE Opened(r)
  <2>1. log'.accepted[f] = log.accepted[f]
    BY <1>5, AcceptOwner, OpensFresh
  <2>2. Fenced(r) => Fenced(r)'
    BY <1>5, FencedStays
  <2>3. ~Fenced(r) => \A g \in Gens : Handles(g, r)' => session'.runtime = g
    BY HandlersBound
  <2>4. ASSUME ~Fenced(r), Carried(f)' # {}
        PROVE  Idle(r)'
    <3>1. CASE log'.idles[f] # log.idles[f]
      BY <1>5, <2>4, <3>1, IdlesLast
    <3>2. CASE log'.idles[f] = log.idles[f]
      <4>1. Carried(f) # {}
        BY <2>1, <2>4, <3>2, CarriedSources
      <4>2. Idle(r)
        BY <2>4, <4>1 DEF CycleOnce, Idle
      <4> QED BY <1>5, <2>4, <4>2, IdleStays
    <3> QED BY <3>1, <3>2
  <2>5. \A i, j \in Carried(f)' : i = j
    <3>1. CASE Carried(f)' = Carried(f)
      BY <3>1 DEF CycleOnce
    <3>2. CASE /\ log'.idles[f] # log.idles[f] /\ ~Fenced(r)
               /\ \A i \in Carried(f)' : i \in Carried(f) \/ i = Len(log.idles[f]) + 1
      <4>1. Carried(f) = {}
        BY <1>5, <3>2, IdlesLast
      <4> QED BY <3>2, <4>1
    <3> QED BY <2>1, <3>1, <3>2, CarriedSources
  <2> QED BY <2>2, <2>3, <2>4, <2>5 DEF CycleOnce, Idle
<1> QED BY <1>3, <1>4, <1>5

(* At first nothing is accepted, idled, handled or closing.                *)
LEMMA OnceInit == Init => PromptsOnce /\ CyclesOnce /\ LadderUnbinds
<1> SUFFICES ASSUME Init PROVE PromptsOnce /\ CyclesOnce /\ LadderUnbinds
  OBVIOUS
<1>1. \A f \in Foreground : log.idles[f] = <<>> /\ log.accepted[f] = 0
  BY DEF Init
<1>2. \A f \in Foreground : Carried(f) = {}
  BY <1>1 DEF Carried
<1>3. \A g \in Gens : pumps[g].cycle = None /\ pumps[g].turn = None
  BY DEF Init
<1>4. ASSUME NEW t \in Turns
      PROVE  PromptOnce(t)
  <2>1. t \in Ops /\ t # Opening /\ t # None /\ Prompted(t) \in Foreground
    BY NamesAssumption, ForegroundNames DEF Ops, Runs
  <2>2. op[t].pc = "idle" /\ turns[t].rt = 0 /\ ~turns[t].accepted
    BY <2>1 DEF Init
  <2>3. "idle" \notin Answering /\ "idle" \notin Underway
    BY DEF Answering, Underway, Joined
  <2>4. log.idles[Prompted(t)] = <<>> /\ log.accepted[Prompted(t)] = 0
    BY <1>1, <2>1
  <2>5. DOMAIN log.idles[Prompted(t)] = {}
    BY <2>4
  <2> QED BY <1>3, <2>1, <2>2, <2>3, <2>4, <2>5 DEF PromptOnce
<1>5. ASSUME NEW r \in Runs
      PROVE  CycleOnce(r)
  <2>1. r # None /\ Carried(Agent(r)) = {}
    BY <1>2, NamesAssumption, ForegroundNames DEF Runs
  <2> QED BY <1>3, <2>1 DEF CycleOnce, Handles
<1>6. LadderUnbinds
  BY DEF Init, LadderUnbinds
<1> QED BY <1>4, <1>5, <1>6 DEF PromptsOnce, CyclesOnce

(* Every step keeps every foreground to one idle where its opening went.   *)
LEMMA OnceStep ==
  TypeInv /\ ProcInv /\ StartInv /\ GenInv /\ JoinInv /\ CyclesStored
    /\ PumpedOnce /\ LadderUnbinds /\ PromptsOnce /\ CyclesOnce /\ [Next]_vars
    => PromptsOnce' /\ CyclesOnce'
<1> SUFFICES ASSUME TypeInv, ProcInv, StartInv, GenInv, JoinInv, CyclesStored,
                    PumpedOnce, LadderUnbinds, PromptsOnce, CyclesOnce, [Next]_vars
             PROVE  PromptsOnce' /\ CyclesOnce'
  OBVIOUS
<1>1. ASSUME NEW t \in Turns
      PROVE  PromptOnce(t)'
  <2>1. PromptOnce(t)
    BY DEF PromptsOnce
  <2> QED BY <2>1, PromptOnceStep
<1>2. ASSUME NEW r \in Runs
      PROVE  CycleOnce(r)'
  <2>1. CycleOnce(r)
    BY DEF CyclesOnce
  <2> QED BY <2>1, CycleOnceStep
<1> QED BY <1>1, <1>2 DEF PromptsOnce, CyclesOnce

(* A foreground is idled once on the incarnation that carried its opening, *)
(* and an accepted prompt on that one alone.                               *)
LEMMA OnceImplies == PromptsOnce /\ CyclesOnce => IdleOnce
<1> SUFFICES ASSUME PromptsOnce, CyclesOnce PROVE IdleOnce
  OBVIOUS
<1>1. ASSUME NEW r \in Runs
      PROVE  \A i, j \in Carried(Agent(r)) : i = j
  BY DEF CyclesOnce, CycleOnce
<1>2. ASSUME NEW t \in Turns
      PROVE  /\ \A i, j \in Carried(Prompted(t)) : i = j
             /\ log.accepted[Prompted(t)] # 0 =>
                  Carried(Prompted(t)) = DOMAIN log.idles[Prompted(t)]
  BY DEF PromptsOnce, PromptOnce, Carried
<1> QED BY <1>1, <1>2 DEF IdleOnce, Foreground

(* The incarnation that carried a foreground's opening carries at most one *)
(* idle of it, and no other carries the idle of an accepted prompt.        *)
THEOREM IdleAlwaysOnce == Spec => []IdleOnce
<1>1. Init => /\ ProcInv /\ FenceInv /\ StartInv /\ GenInv /\ JoinInv
              /\ RecordsRan /\ CyclesStored /\ PumpedOnce
              /\ PromptsOnce /\ CyclesOnce /\ LadderUnbinds
  <2>1. Init => FenceInv
    BY DEF Init, FenceInv, OpenHeld, LadderMarks, StaysFenced
  <2> QED BY <2>1, ProcInit, StartInit, GenInit, JoinInit, StoredInit, PumpedInit,
          OnceInit
<1>2. TypeInv /\ ProcInv /\ FenceInv /\ [Next]_vars => ProcInv' /\ FenceInv'
  BY ProcStep, FenceStep DEF TypeInv
<1>3. TypeInv /\ FenceInv /\ LadderUnbinds /\ [Next]_vars => LadderUnbinds'
  BY UnbindsStep DEF FenceInv
<1>4. Spec => []TypeInv
  BY TypeInvariant
<1> QED BY <1>1, <1>2, <1>3, <1>4, StartStep, GenStep, JoinStep, RecordsStep,
        StoredStep, PumpedStep, OnceStep, OnceImplies, PTL DEF Spec

=============================================================================
