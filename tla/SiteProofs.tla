----------------------------- MODULE SiteProofs -----------------------------
(***************************************************************************)
(* Proofs about the seven parts of MCSite, for every value of the          *)
(* constants: each part keeps an inductive invariant, from which follow    *)
(* the properties that the parts state.  A section is one part: what its   *)
(* invariant adds to the property, why every step keeps it, and the        *)
(* theorems.                                                               *)
(***************************************************************************)
EXTENDS MCSite, FiniteSetTheorems, WellFoundedInduction, TLAPS

\* A set of numbers with a bound has a greatest one.
LEMMA Greatest ==
    ASSUME NEW n \in Nat, NEW S \in SUBSET (0..n), S # {}
    PROVE  \E w \in S : \A v \in S : v <= w
<1> DEFINE T == {n - w : w \in S}
<1>0. \A v \in S : v \in Nat /\ n - v \in Nat
  OBVIOUS
<1>1. T \subseteq Nat /\ T # {}
  BY <1>0
<1>2. PICK x \in T : \A y \in T : ~ (<<y, x>> \in OpToRel(<, Nat))
  <2> HIDE DEF T
  <2>1. QED
    BY <1>1, WFMin, NatLessThanWellFounded
<1>3. PICK w \in S : x = n - w
  BY <1>2
<1>4. \A v \in S : v <= w
  <2> TAKE v \in S
  <2>1. n - v \in T /\ n - v \in Nat /\ x \in Nat
    BY <1>0, <1>3
  <2>2. ~ (n - v < x)
    BY <1>2, <2>1 DEF OpToRel
  <2>3. QED
    BY <1>0, <1>3, <2>2
<1>5. QED
  BY <1>4

\* A set of numbers has a least one.
LEMMA TheFirst ==
    ASSUME NEW S \in SUBSET Nat, S # {}
    PROVE  Overlay!First(S) \in S /\ \A j \in S : Overlay!First(S) <= j
<1>1. PICK x \in S : \A y \in S : ~ (<<y, x>> \in OpToRel(<, Nat))
  BY WFMin, NatLessThanWellFounded
<1>2. \A y \in S : x <= y
  <2> TAKE y \in S
  <2>1. ~ (y < x)
    BY <1>1 DEF OpToRel
  <2>2. QED
    BY <2>1
<1>3. QED
  BY <1>2 DEF Overlay!First

----------------------------------------------------------------------------
(***************************************************************************)
(* The overlay of a registration.  Rows of one registration have their     *)
(* events in the order of their ids; the steps of the overlay are a ladder: *)
(* all before the running one are done; and whatever may still come to the *)
(* page is later than what it shows.                                       *)
(***************************************************************************)
Ids1 == 1..Len(rows)
FlowRecord == [state: {"waiting", "running", "ok", "failed"}, recorded: 0..8, writing: Nat]

RowTypes ==
    /\ rows \in Seq(Overlay!Row)
    /\ flow \in [Flows -> FlowRecord]

\* Rows of one registration have their events in the order of their ids, a failure comes
\* last, and all but the one that is being written are committed.
RowsInOrder ==
    /\ \A id \in Ids1 :
          LET row == rows[id]
              f == flow[row.flow]
          IN  /\ f.state # "waiting"
              /\ row.committed => row.event <= f.recorded
              /\ row.committed /\ row.event = 0 => f.state = "failed"
              /\ ~row.committed => f.writing = id /\ f.state = "running" /\ row.event \in {0, f.recorded + 1}
              /\ row.event = 0 => f.recorded \in Overlay!FailsAfter
    /\ \A f \in Flows :
          /\ flow[f].writing # 0 => /\ flow[f].writing \in Ids1
                                    /\ rows[flow[f].writing].flow = f
                                    /\ ~rows[flow[f].writing].committed
          /\ flow[f].state = "waiting" => flow[f].recorded = 0 /\ flow[f].writing = 0
          /\ flow[f].state = "ok" <=> flow[f].recorded = 8
    /\ \A x, y \in Ids1 : x < y /\ rows[x].flow = rows[y].flow =>
          /\ rows[x].event # 0 /\ rows[x].committed
          /\ rows[y].event # 0 => rows[x].event < rows[y].event

\* What a step of the server adds to what was recorded.
Grows ==
    /\ Len(rows) <= Len(rows')
    /\ \A id \in Ids1 : /\ rows'[id].flow = rows[id].flow /\ rows'[id].event = rows[id].event
                        /\ rows[id].committed => rows'[id].committed
    /\ \A f \in Flows : /\ flow'[f].recorded >= flow[f].recorded
                        /\ flow[f].state = "failed" => flow'[f].state = "failed"
                        /\ flow'[f].state = "waiting" => flow[f].state = "waiting"
    /\ flow[Mine].state = "waiting" => flow'[Mine].state = "waiting"
    /\ \A id \in 1..Len(rows') : id > Len(rows) =>
          LET f == rows'[id].flow
          IN  flow[f].state = "running" /\ rows'[id].event \in {0, flow[f].recorded + 1}

\* The types, field by field.
LEMMA RowFacts ==
    ASSUME RowTypes
    PROVE  /\ Len(rows) \in Nat
           /\ \A id \in Ids1 : /\ rows[id] \in Overlay!Row /\ rows[id].flow \in Flows
                               /\ rows[id].event \in 0..8 /\ rows[id].committed \in BOOLEAN
           /\ \A f \in Flows : /\ flow[f] \in FlowRecord /\ flow[f].recorded \in 0..8
                               /\ flow[f].writing \in Nat
                               /\ flow[f].state \in {"waiting", "running", "ok", "failed"}
<1>1. Len(rows) \in Nat /\ \A id \in Ids1 : rows[id] \in Overlay!Row
  BY DEF RowTypes, Ids1
<1>2. \A f \in Flows : flow[f] \in FlowRecord
  BY DEF RowTypes
<1>3. QED
  BY <1>1, <1>2 DEF Overlay!Row, FlowRecord

\* A registration that was waiting begins.
LEMMA Started ==
    ASSUME RowTypes, RowsInOrder, NEW f \in Flows, flow[f].state = "waiting",
           UNCHANGED rows,
           flow' \in [Flows -> FlowRecord],
           flow'[f].state = "running", flow'[f].recorded \in 0..7, flow'[f].writing = flow[f].writing,
           \A g \in Flows \ {f} : flow'[g] = flow[g]
    PROVE  RowTypes' /\ RowsInOrder' /\ (f # Mine => Grows)
<1>1. \A id \in Ids1 : rows[id].flow \in Flows \ {f} /\ flow'[rows[id].flow] = flow[rows[id].flow]
  BY RowFacts DEF RowsInOrder
<1>2. flow[f].writing = 0 /\ flow[f].recorded = 0 /\ Ids1' = Ids1
  BY DEF RowsInOrder, Ids1
<1>3. RowTypes'
  BY DEF RowTypes
<1>4. RowsInOrder'
  BY <1>1, <1>2 DEF RowsInOrder
<1>5. Len(rows') = Len(rows) /\ Len(rows) \in Nat
  BY RowFacts
<1>6. f # Mine => Grows
  BY <1>2, <1>5, RowFacts, OverlayAssumption DEF Grows, Ids1
<1>7. QED
  BY <1>3, <1>4, <1>6

\* The steps of the server keep the order of the rows, and only add to them: a beginning,
LEMMA NextBegin ==
    ASSUME RowTypes, RowsInOrder, NEW f \in Flows, Overlay!Begin(f)
    PROVE  RowTypes' /\ RowsInOrder' /\ Grows
<1>1. PICK e \in Joins : flow' = [flow EXCEPT ![f].state = "running", ![f].recorded = e]
  BY DEF Overlay!Begin
<1> DEFINE k == [flow[f] EXCEPT !.state = "running", !.recorded = e]
<1>2. f # Mine /\ flow[f].state = "waiting" /\ UNCHANGED rows
  BY DEF Overlay!Begin
<1>3. /\ k \in FlowRecord /\ k.state = "running" /\ k.recorded = e
      /\ k.writing = flow[f].writing
      /\ e \in 0..7
  <2>1. flow[f] \in FlowRecord /\ e \in 0..7 /\ e \in 0..8
    BY RowFacts, OverlayAssumption
  <2>2. QED
    BY <2>1 DEF FlowRecord
<1>4. flow' = [flow EXCEPT ![f] = k]
  BY <1>1 DEF RowTypes, FlowRecord
<1> HIDE DEF k
<1>5. flow' \in [Flows -> FlowRecord] /\ flow'[f] = k
      /\ \A g \in Flows \ {f} : flow'[g] = flow[g]
  BY <1>3, <1>4 DEF RowTypes
<1>6. QED
  BY <1>2, <1>3, <1>5, Started

\* the insert of a row,
LEMMA NextRecord ==
    ASSUME RowTypes, RowsInOrder, NEW f \in Flows, NEW e \in 0..8, Overlay!Record(f, e)
    PROVE  RowTypes' /\ RowsInOrder' /\ Grows
<1> DEFINE row == [flow |-> f, event |-> e, committed |-> FALSE]
           n == Len(rows)
           k == [flow[f] EXCEPT !.writing = n + 1]
<1>1. /\ flow[f].state = "running" /\ flow[f].writing = 0
      /\ \/ e = flow[f].recorded + 1
         \/ e = 0 /\ flow[f].recorded \in Overlay!FailsAfter
      /\ rows' = Append(rows, row)
      /\ flow' = [flow EXCEPT ![f].writing = Len(rows')]
  <2>1. flow[f].state = "running" /\ flow[f].writing = 0
    BY Zenon DEF Overlay!Record
  <2>2. e = flow[f].recorded + 1 \/ (e = 0 /\ flow[f].recorded \in Overlay!FailsAfter)
    BY Zenon DEF Overlay!Record
  <2>3. rows' = Append(rows, row) /\ flow' = [flow EXCEPT ![f].writing = Len(rows')]
    BY DEF Overlay!Record
  <2>4. QED
    BY <2>1, <2>2, <2>3
<1>2. row \in Overlay!Row /\ row.flow = f /\ row.event = e /\ row.committed = FALSE
  BY DEF Overlay!Row
<1> HIDE DEF row
<1>3. /\ rows' \in Seq(Overlay!Row) /\ Len(rows') = n + 1 /\ rows'[n + 1] = row
      /\ \A id \in Ids1 : rows'[id] = rows[id]
      /\ n \in Nat /\ Ids1' = Ids1 \cup {n + 1} /\ n + 1 \notin Ids1
  BY <1>1, <1>2 DEF RowTypes, Ids1
<1>4. /\ k \in FlowRecord /\ k.writing = n + 1 /\ k.state = "running"
      /\ k.recorded = flow[f].recorded
  <2>1. flow[f] \in FlowRecord /\ n + 1 \in Nat
    BY <1>3, RowFacts
  <2>2. k \in FlowRecord /\ k.writing = n + 1 /\ k.state = flow[f].state
        /\ k.recorded = flow[f].recorded
    <3> HIDE DEF n
    <3>1. QED
      BY <2>1 DEF FlowRecord
  <2>3. QED
    BY <1>1, <2>2
<1>5. flow' = [flow EXCEPT ![f] = k]
  BY <1>1, <1>3 DEF RowTypes, FlowRecord
<1> HIDE DEF k
<1>6. flow' \in [Flows -> FlowRecord] /\ flow'[f] = k
      /\ \A g \in Flows \ {f} : flow'[g] = flow[g]
  BY <1>4, <1>5 DEF RowTypes
<1>7. RowTypes'
  BY <1>3, <1>6 DEF RowTypes
\* Every row of f is committed, has an event, and one below e.
<1>8. \A id \in Ids1 : rows[id].flow = f => /\ rows[id].committed /\ rows[id].event # 0
                                            /\ rows[id].event <= flow[f].recorded
  <2> SUFFICES ASSUME NEW id \in Ids1, rows[id].flow = f
               PROVE  rows[id].committed /\ rows[id].event # 0 /\ rows[id].event <= flow[f].recorded
    OBVIOUS
  <2>1. id # 0
    BY DEF Ids1
  <2>2. QED
    BY <1>1, <2>1 DEF RowsInOrder
<1> HIDE DEF n
<1>9. ASSUME NEW id \in Ids1'
      PROVE  LET r == rows'[id]
                 g == flow'[r.flow]
             IN  /\ g.state # "waiting"
                 /\ r.committed => r.event <= g.recorded
                 /\ r.committed /\ r.event = 0 => g.state = "failed"
                 /\ ~r.committed => g.writing = id /\ g.state = "running" /\ r.event \in {0, g.recorded + 1}
                 /\ r.event = 0 => g.recorded \in Overlay!FailsAfter
  <2>1. CASE id = n + 1
    <3>1. rows'[id] = row /\ flow'[row.flow] = k
      BY <1>2, <1>3, <1>6, <2>1
    <3>2. e = k.recorded + 1 \/ (e = 0 /\ k.recorded \in Overlay!FailsAfter)
      BY <1>1, <1>4
    <3>3. e = 0 => k.recorded \in Overlay!FailsAfter
      <4>1. flow[f].recorded \in 0..8
        BY RowFacts
      <4>2. QED
        BY <1>4, <3>2, <4>1
    <3>4. QED
      BY <1>2, <1>4, <2>1, <3>1, <3>2, <3>3, Zenon
  <2>2. CASE id \in Ids1
    <3>1. rows'[id] = rows[id] /\ rows[id].flow \in Flows
      BY <1>3, <2>2, RowFacts
    <3>2. CASE rows[id].flow = f
      BY <1>1, <1>4, <1>6, <1>8, <2>2, <3>1, <3>2 DEF RowsInOrder
    <3>3. CASE rows[id].flow # f
      BY <1>6, <2>2, <3>1, <3>3 DEF RowsInOrder
    <3>4. QED
      BY <3>2, <3>3
  <2>3. QED
    BY <1>3, <2>1, <2>2
<1>10. ASSUME NEW g \in Flows
       PROVE  /\ flow'[g].writing # 0 => /\ flow'[g].writing \in Ids1'
                                         /\ rows'[flow'[g].writing].flow = g
                                         /\ ~rows'[flow'[g].writing].committed
              /\ flow'[g].state = "waiting" => flow'[g].recorded = 0 /\ flow'[g].writing = 0
              /\ flow'[g].state = "ok" <=> flow'[g].recorded = 8
  <2>1. CASE g = f
    BY <1>1, <1>2, <1>3, <1>4, <1>6, <2>1 DEF RowsInOrder
  <2>2. CASE g # f
    BY <1>3, <1>6, <2>2 DEF RowsInOrder
  <2>3. QED
    BY <2>1, <2>2
<1>11. ASSUME NEW x \in Ids1', NEW y \in Ids1', x < y, rows'[x].flow = rows'[y].flow
       PROVE  /\ rows'[x].event # 0 /\ rows'[x].committed
              /\ rows'[y].event # 0 => rows'[x].event < rows'[y].event
  <2>1. x \in Ids1
    BY <1>3, <1>11 DEF n, Ids1
  <2>2. CASE y \in Ids1
    BY <1>3, <1>11, <2>1, <2>2 DEF RowsInOrder
  <2>3. CASE y = n + 1
    <3>1. rows[x].flow = f /\ rows'[x] = rows[x] /\ rows'[y].event = e
      BY <1>2, <1>3, <1>11, <2>1, <2>3
    <3>2. rows[x].committed /\ rows[x].event # 0 /\ rows[x].event <= flow[f].recorded
      BY <1>8, <2>1, <3>1
    <3>3. rows[x].event \in 0..8 /\ flow[f].recorded \in 0..8
      BY <2>1, RowFacts
    <3>4. e # 0 => e = flow[f].recorded + 1
      BY <1>1
    <3>5. e # 0 => rows[x].event < e
      BY <3>2, <3>3, <3>4
    <3>6. QED
      BY <3>1, <3>2, <3>5
  <2>4. QED
    BY <1>3, <2>2, <2>3
<1>12. RowsInOrder'
  BY <1>9, <1>10, <1>11, Zenon DEF RowsInOrder
<1>13. Grows
  <2>1. Len(rows) <= Len(rows')
    BY <1>3 DEF n
  <2>2. \A id \in 1..Len(rows') : id > Len(rows) => id = n + 1
    BY <1>3 DEF n
  <2>3. flow[f].recorded \in 0..8
    BY RowFacts
  <2>4. \A g \in Flows : /\ flow'[g].recorded = flow[g].recorded /\ flow'[g].recorded \in 0..8
                         /\ flow'[g].state = flow[g].state
    BY <1>1, <1>4, <1>6, RowFacts
  <2>5. \A id \in Ids1 : rows'[id] = rows[id]
    BY <1>3
  <2>6. rows'[n + 1].flow = f /\ rows'[n + 1].event = e
    BY <1>2, <1>3
  <2>7. \A id \in 1..Len(rows') : id > Len(rows) =>
          LET g == rows'[id].flow
          IN  flow[g].state = "running" /\ rows'[id].event \in {0, flow[g].recorded + 1}
    BY <1>1, <2>2, <2>6
  <2>8. \A g \in Flows : flow'[g].recorded >= flow[g].recorded
    BY <2>4
  <2>9. QED
    BY <2>1, <2>4, <2>5, <2>7, <2>8, OverlayAssumption DEF Grows
<1>14. QED
  BY <1>7, <1>12, <1>13

\* its commit,
LEMMA NextCommit ==
    ASSUME RowTypes, RowsInOrder, NEW f \in Flows, Overlay!Commit(f)
    PROVE  RowTypes' /\ RowsInOrder' /\ Grows
<1> DEFINE w == flow[f].writing
           e == rows[w].event
           done == [rows[w] EXCEPT !.committed = TRUE]
           k == [state |-> IF e = 0 THEN "failed" ELSE IF e = 8 THEN "ok" ELSE flow[f].state,
                 recorded |-> IF e = 0 THEN flow[f].recorded ELSE e,
                 writing |-> 0]
<1>1. /\ w \in Ids1 /\ rows[w].flow = f /\ ~rows[w].committed
      /\ flow[f].state = "running" /\ e \in {0, flow[f].recorded + 1}
      /\ flow[f].recorded \in 0..8 /\ e \in 0..8
      /\ e = 0 => flow[f].recorded \in Overlay!FailsAfter
      /\ flow[f].recorded # 8
  <2>1. w # 0
    BY DEF Overlay!Commit
  <2>2. w \in Ids1 /\ rows[w].flow = f /\ ~rows[w].committed
    BY <2>1 DEF RowsInOrder
  <2>3. flow[f].state = "running" /\ e \in {0, flow[f].recorded + 1}
        /\ (e = 0 => flow[f].recorded \in Overlay!FailsAfter)
    BY <2>2 DEF RowsInOrder
  <2>4. flow[f].recorded # 8
    BY <2>3 DEF RowsInOrder
  <2>5. flow[f].recorded \in 0..8 /\ e \in 0..8
    BY <2>2, RowFacts
  <2>6. QED
    BY <2>2, <2>3, <2>4, <2>5
<1>2. rows' = [rows EXCEPT ![w] = done]
  BY DEF Overlay!Commit
<1>3. flow' = [flow EXCEPT ![f] = k]
  <2>1. Len(Overlay!Events) = 8
    BY DEF Overlay!Events
  <2>2. QED
    BY <2>1 DEF Overlay!Commit, RowTypes
<1>4. /\ k \in FlowRecord /\ k.writing = 0
      /\ e = 0 => k.state = "failed" /\ k.recorded = flow[f].recorded
      /\ e # 0 => k.recorded = e /\ k.state = IF e = 8 THEN "ok" ELSE "running"
      /\ k.state # "waiting" /\ (k.state = "ok" <=> k.recorded = 8)
  BY <1>1 DEF FlowRecord
<1>5. done \in Overlay!Row /\ done.committed /\ done.flow = f /\ done.event = e
  BY <1>1, RowFacts DEF Overlay!Row
<1> HIDE DEF k, done, w, e
<1>6. flow' \in [Flows -> FlowRecord] /\ flow'[f] = k
      /\ \A g \in Flows \ {f} : flow'[g] = flow[g]
  BY <1>3, <1>4 DEF RowTypes
<1>7. /\ rows' \in Seq(Overlay!Row) /\ Len(rows') = Len(rows) /\ rows'[w] = done
      /\ Ids1' = Ids1
      /\ \A id \in Ids1 \ {w} : rows'[id] = rows[id]
  BY <1>1, <1>2, <1>5 DEF RowTypes, Ids1
<1>8. RowTypes'
  BY <1>6, <1>7 DEF RowTypes
<1>9. \A id \in Ids1 : id # w /\ rows[id].flow = f =>
         /\ rows[id].committed /\ rows[id].event # 0
         /\ rows[id].event <= flow[f].recorded /\ id < w
  <2> SUFFICES ASSUME NEW id \in Ids1, id # w, rows[id].flow = f
               PROVE  /\ rows[id].committed /\ rows[id].event # 0 /\ rows[id].event <= flow[f].recorded
                      /\ id < w
    OBVIOUS
  <2>1. id \in Nat /\ w \in Nat
    BY <1>1, RowFacts DEF Ids1
  <2>2. ~ (w < id)
    BY <1>1 DEF RowsInOrder
  <2>3. id < w
    BY <2>1, <2>2
  <2>4. rows[id].event # 0 /\ rows[id].committed
    BY <1>1, <2>3 DEF RowsInOrder
  <2>5. rows[id].event <= flow[f].recorded
    BY <2>4 DEF RowsInOrder
  <2>6. QED
    BY <2>3, <2>4, <2>5
<1>10. ASSUME NEW id \in Ids1
      PROVE  LET r == rows'[id]
                 g == flow'[r.flow]
             IN  /\ g.state # "waiting"
                 /\ r.committed => r.event <= g.recorded
                 /\ r.committed /\ r.event = 0 => g.state = "failed"
                 /\ ~r.committed => g.writing = id /\ g.state = "running" /\ r.event \in {0, g.recorded + 1}
                 /\ r.event = 0 => g.recorded \in Overlay!FailsAfter
  <2>1. CASE id = w
    <3>1. rows'[id] = done /\ flow'[done.flow] = k
      BY <1>5, <1>6, <1>7, <2>1
    <3>2. e <= k.recorded /\ (e = 0 => k.recorded \in Overlay!FailsAfter)
      BY <1>1, <1>4
    <3>3. QED
      BY <1>4, <1>5, <3>1, <3>2
  <2>2. CASE id # w
    <3>1. rows'[id] = rows[id] /\ rows[id].flow \in Flows
      BY <1>7, <2>2, RowFacts
    <3>2. CASE rows[id].flow = f
      <4>1. rows[id].committed /\ rows[id].event # 0 /\ rows[id].event <= flow[f].recorded
        BY <1>9, <2>2, <3>2
      <4>2. flow[f].recorded <= k.recorded /\ k.recorded \in 0..8 /\ rows[id].event \in 0..8
        BY <1>1, <1>4, RowFacts
      <4>3. rows[id].event <= k.recorded
        BY <1>1, <4>1, <4>2
      <4>4. QED
        BY <1>4, <1>6, <3>1, <3>2, <4>1, <4>3
    <3>3. CASE rows[id].flow # f
      BY <1>6, <3>1, <3>3 DEF RowsInOrder
    <3>4. QED
      BY <3>2, <3>3
  <2>3. QED
    BY <2>1, <2>2
<1>11. ASSUME NEW g \in Flows
       PROVE  /\ flow'[g].writing # 0 => /\ flow'[g].writing \in Ids1
                                         /\ rows'[flow'[g].writing].flow = g
                                         /\ ~rows'[flow'[g].writing].committed
              /\ flow'[g].state = "waiting" => flow'[g].recorded = 0 /\ flow'[g].writing = 0
              /\ flow'[g].state = "ok" <=> flow'[g].recorded = 8
  <2>1. CASE g = f
    BY <1>4, <1>6, <2>1
  <2>2. CASE g # f
    BY <1>1, <1>6, <1>7, <2>2 DEF RowsInOrder
  <2>3. QED
    BY <2>1, <2>2
<1>12. ASSUME NEW x \in Ids1, NEW y \in Ids1, x < y, rows'[x].flow = rows'[y].flow
       PROVE  /\ rows'[x].event # 0 /\ rows'[x].committed
              /\ rows'[y].event # 0 => rows'[x].event < rows'[y].event
  <2>1. \A id \in Ids1 : rows'[id].flow = rows[id].flow /\ rows'[id].event = rows[id].event
    BY <1>1, <1>5, <1>7 DEF e
  <2>2. rows[x].committed => rows'[x].committed
    BY <1>5, <1>7
  <2>3. rows[x].flow = rows[y].flow
    BY <1>12, <2>1
  <2>4. QED
    BY <1>12, <2>1, <2>2, <2>3 DEF RowsInOrder
<1>13. RowsInOrder'
  BY <1>7, <1>10, <1>11, <1>12, Zenon DEF RowsInOrder
<1>14. Grows
  <2>1. \A id \in Ids1 : /\ rows'[id].flow = rows[id].flow /\ rows'[id].event = rows[id].event
                         /\ rows[id].committed => rows'[id].committed
    BY <1>1, <1>5, <1>7 DEF e
  <2>2. Len(rows) \in Nat /\ Len(rows') = Len(rows)
    BY <1>7, RowFacts
  <2>3. flow'[f].recorded >= flow[f].recorded
    BY <1>1, <1>4, <1>6
  <2>4. \A g \in Flows : flow'[g].recorded >= flow[g].recorded
    BY <1>6, <2>3, RowFacts
  <2>5. \A g \in Flows : /\ flow[g].state = "failed" => flow'[g].state = "failed"
                         /\ flow'[g].state = "waiting" => flow[g].state = "waiting"
                         /\ flow[g].state = "waiting" => flow'[g].state = "waiting"
    BY <1>1, <1>4, <1>6
  <2>6. QED
    BY <2>1, <2>2, <2>4, <2>5, OverlayAssumption DEF Grows
<1>15. QED
  BY <1>8, <1>13, <1>14

\* and a registration that ends without a word.
LEMMA NextAbort ==
    ASSUME RowTypes, RowsInOrder, NEW f \in Flows, Overlay!Abort(f)
    PROVE  RowTypes' /\ RowsInOrder' /\ Grows
<1> DEFINE k == [flow[f] EXCEPT !.state = "failed"]
<1>1. /\ flow[f].state = "running" /\ flow[f].writing = 0 /\ UNCHANGED rows
      /\ flow' = [flow EXCEPT ![f] = k]
  BY DEF Overlay!Abort
<1>2. k \in FlowRecord /\ k.state = "failed" /\ k.recorded = flow[f].recorded
      /\ k.writing = 0
  <2>1. flow[f] \in FlowRecord
    BY RowFacts
  <2>2. QED
    BY <1>1, <2>1 DEF FlowRecord
<1> HIDE DEF k
<1>3. flow' \in [Flows -> FlowRecord] /\ flow'[f] = k
      /\ \A g \in Flows \ {f} : flow'[g] = flow[g]
  BY <1>1, <1>2 DEF RowTypes
<1>4. RowTypes' /\ Ids1' = Ids1
  BY <1>1, <1>3 DEF RowTypes, Ids1
<1>5. \A id \in Ids1 : rows[id].flow = f => rows[id].committed
  BY <1>1 DEF RowsInOrder, Ids1
<1>6. ASSUME NEW id \in Ids1
      PROVE  LET r == rows'[id]
                 g == flow'[r.flow]
             IN  /\ g.state # "waiting"
                 /\ r.committed => r.event <= g.recorded
                 /\ r.committed /\ r.event = 0 => g.state = "failed"
                 /\ ~r.committed => g.writing = id /\ g.state = "running" /\ r.event \in {0, g.recorded + 1}
                 /\ r.event = 0 => g.recorded \in Overlay!FailsAfter
  <2>1. rows'[id] = rows[id] /\ rows[id].flow \in Flows
    BY <1>1, RowFacts
  <2>2. CASE rows[id].flow = f
    BY <1>2, <1>3, <1>5, <2>1, <2>2 DEF RowsInOrder
  <2>3. CASE rows[id].flow # f
    BY <1>3, <2>1, <2>3 DEF RowsInOrder
  <2>4. QED
    BY <2>2, <2>3
<1>7. ASSUME NEW g \in Flows
      PROVE  /\ flow'[g].writing # 0 => /\ flow'[g].writing \in Ids1
                                        /\ rows'[flow'[g].writing].flow = g
                                        /\ ~rows'[flow'[g].writing].committed
             /\ flow'[g].state = "waiting" => flow'[g].recorded = 0 /\ flow'[g].writing = 0
             /\ flow'[g].state = "ok" <=> flow'[g].recorded = 8
  <2>1. CASE g = f
    BY <1>1, <1>2, <1>3, <2>1 DEF RowsInOrder
  <2>2. CASE g # f
    BY <1>1, <1>3, <2>2 DEF RowsInOrder
  <2>3. QED
    BY <2>1, <2>2
<1>8. RowsInOrder'
  BY <1>1, <1>4, <1>6, <1>7 DEF RowsInOrder
<1>9. Grows
  <2>1. Len(rows) \in Nat /\ Len(rows') = Len(rows)
    BY <1>1, RowFacts
  <2>2. \A g \in Flows : flow'[g].recorded >= flow[g].recorded
    BY <1>2, <1>3, RowFacts
  <2>3. QED
    BY <1>1, <1>2, <1>3, <2>1, <2>2, OverlayAssumption DEF Grows, Ids1
<1>10. QED
  BY <1>4, <1>8, <1>9

\* The rules of the overlay: later events are about later steps, and an event that makes a
\* step done is at least the one after which that step is done.
LEMMA RuleFacts ==
    /\ \A e \in 1..8 : Overlay!Rule(e)[1] \in 4..9 /\ Overlay!Rule(e)[2] \in {"active", "done"}
    /\ \A d, e \in 1..8 : d < e => /\ Overlay!Rule(d)[1] <= Overlay!Rule(e)[1]
                                   /\ Overlay!Rule(d)[1] = Overlay!Rule(e)[1] => Overlay!Rule(d)[2] = "active"
    /\ \A e \in 1..8 : \A k \in 4..9 :
          /\ k < Overlay!Rule(e)[1] \/ (k = Overlay!Rule(e)[1] /\ Overlay!Rule(e)[2] = "done")
                => Overlay!EventOf[k - 3] <= e
          /\ k >= Overlay!Rule(e)[1] => Overlay!EventOf[k - 3] >= e
<1>1. \A e \in 1..8 : \/ e = 1 /\ Overlay!Rule(e) = <<4, "active">>
                      \/ e = 2 /\ Overlay!Rule(e) = <<4, "done">>
                      \/ e = 3 /\ Overlay!Rule(e) = <<5, "done">>
                      \/ e = 4 /\ Overlay!Rule(e) = <<6, "active">>
                      \/ e = 5 /\ Overlay!Rule(e) = <<6, "done">>
                      \/ e = 6 /\ Overlay!Rule(e) = <<7, "done">>
                      \/ e = 7 /\ Overlay!Rule(e) = <<8, "done">>
                      \/ e = 8 /\ Overlay!Rule(e) = <<9, "done">>
  BY DEF Overlay!Rule
<1>2. /\ Overlay!EventOf[1] = 2 /\ Overlay!EventOf[2] = 3 /\ Overlay!EventOf[3] = 5
      /\ Overlay!EventOf[4] = 6 /\ Overlay!EventOf[5] = 7 /\ Overlay!EventOf[6] = 8
  BY DEF Overlay!EventOf
<1>3. \A k \in 4..9 : k = 4 \/ k = 5 \/ k = 6 \/ k = 7 \/ k = 8 \/ k = 9
  OBVIOUS
<1>4. \A k \in 4..9 : \/ k = 4 /\ Overlay!EventOf[k - 3] = 2
                      \/ k = 5 /\ Overlay!EventOf[k - 3] = 3
                      \/ k = 6 /\ Overlay!EventOf[k - 3] = 5
                      \/ k = 7 /\ Overlay!EventOf[k - 3] = 6
                      \/ k = 8 /\ Overlay!EventOf[k - 3] = 7
                      \/ k = 9 /\ Overlay!EventOf[k - 3] = 8
  BY <1>2, <1>3
<1>5. \A e \in 1..8 : Overlay!Rule(e)[1] \in 4..9 /\ Overlay!Rule(e)[2] \in {"active", "done"}
  BY <1>1
<1>6. \A d, e \in 1..8 : d < e => /\ Overlay!Rule(d)[1] <= Overlay!Rule(e)[1]
                                  /\ Overlay!Rule(d)[1] = Overlay!Rule(e)[1] => Overlay!Rule(d)[2] = "active"
  BY <1>1
<1>7. \A e \in 1..8 : \A k \in 4..9 :
          /\ k < Overlay!Rule(e)[1] \/ (k = Overlay!Rule(e)[1] /\ Overlay!Rule(e)[2] = "done")
                => Overlay!EventOf[k - 3] <= e
          /\ k >= Overlay!Rule(e)[1] => Overlay!EventOf[k - 3] >= e
  BY <1>1, <1>4
<1>8. QED
  BY <1>5, <1>6, <1>7

\* Latest is the greatest id that is committed.
LEMMA LatestIs ==
    ASSUME RowTypes
    PROVE  /\ Overlay!Latest \in 0..Len(rows)
           /\ \A id \in Overlay!Committed : id <= Overlay!Latest
           /\ Overlay!Latest # 0 => Overlay!Latest \in Overlay!Committed
<1>1. Len(rows) \in Nat
  BY RowFacts
<1>2. Overlay!Committed \in SUBSET (0..Len(rows)) /\ 0 \notin Overlay!Committed
  BY <1>1 DEF Overlay!Committed
<1>3. CASE Overlay!Committed = {}
  BY <1>1, <1>3 DEF Overlay!Latest
<1>4. CASE Overlay!Committed # {}
  <2>1. \E id \in Overlay!Committed : \A j \in Overlay!Committed : j <= id
    BY <1>1, <1>2, <1>4, Greatest
  <2>2. Overlay!Latest \in Overlay!Committed
        /\ \A j \in Overlay!Committed : j <= Overlay!Latest
    BY <1>4, <2>1 DEF Overlay!Latest
  <2>3. QED
    BY <1>2, <2>2
<1>5. QED
  BY <1>3, <1>4

----------------------------------------------------------------------------
StreamRecord == [phase: {"off", "opening", "accepted", "live"}, cursor: Nat, frames: SUBSET Nat]

PageTypes ==
    /\ stream \in StreamRecord
    /\ stream.cursor <= Len(rows)
    /\ stream.frames \subseteq Overlay!Committed
    /\ overlay \in [phase: Overlay!Phases, follows: Flows \cup {None}]
    /\ nodes \in [Overlay!Steps -> {"pending", "active", "done", "error"}]
    /\ timely \in BOOLEAN

\* How the page and its stream go together.
PageAndStream ==
    /\ stream.phase # "live" => stream.frames = {}
    /\ overlay.phase \in {"preparing", "finished", "failed"} => stream.phase = "off"
    /\ overlay.phase = "connecting" => stream.phase \in {"opening", "accepted"}
    /\ overlay.phase \in {"preparing", "connecting"} =>
          flow[Mine].state = "waiting" /\ overlay.follows = None
    /\ overlay.phase = "finished" => flow[Mine].recorded = 8
    /\ overlay.follows # None => flow[overlay.follows].state # "waiting"
    /\ timely => stream.phase = "live" /\ overlay.phase = "uploading"
    /\ \A id \in stream.frames : id <= stream.cursor

\* The rows that may still come to the page.
Coming == IF stream.phase \in {"accepted", "live"}
          THEN stream.frames \cup {id \in Ids1 : id > stream.cursor}
          ELSE {}

\* Everything before a step that has begun is done, and the step after one that is done
\* has begun.
Ladder ==
    overlay.phase \in {"preparing", "connecting", "uploading"} =>
        /\ \A i, j \in Overlay!Steps : i < j /\ nodes[j] # "pending" => nodes[i] = "done"
        /\ \A i \in Overlay!Steps : nodes[i] = "pending" => i > 1 /\ nodes[i - 1] # "done"
        /\ overlay.phase = "preparing" => \E k \in 1..3 : nodes[k] = "active"
        /\ overlay.phase = "connecting" => nodes[4] = "active"

DoneIsRecorded ==
    overlay.phase # "finished" =>
      \A k \in 4..9 : nodes[k] = "done" =>
         overlay.follows # None /\ flow[overlay.follows].recorded >= Overlay!EventOf[k - 3]

\* The overlay shows an error only of a registration that has failed.
ErrorIsFailure ==
    overlay.phase = "uploading" =>
      \A k \in Overlay!Steps : nodes[k] = "error" =>
         overlay.follows # None /\ flow[overlay.follows].state = "failed"

\* What comes is later than what is shown.
ComingIsNew ==
    overlay.phase = "uploading" =>
      \A x \in Coming : rows[x].flow = overlay.follows =>
          /\ \A k \in Overlay!Steps : nodes[k] # "error"
          /\ rows[x].event # 0 =>
                \A k \in 4..9 : k >= Overlay!Rule(rows[x].event)[1] => nodes[k] # "done"

Passed ==
    (timely /\ Overlay!Alone) =>
        \A id \in 1..stream.cursor \ stream.frames :
            rows[id].event # 0 /\ Overlay!Rule(rows[id].event)[2] = "done" =>
                nodes[Overlay!Rule(rows[id].event)[1]] = "done"

PageInv == /\ PageTypes /\ PageAndStream /\ Ladder
           /\ DoneIsRecorded /\ ErrorIsFailure /\ ComingIsNew /\ Passed

\* Any phase, cursor and set of frames make a stream.
LEMMA StreamType ==
    ASSUME NEW p \in {"off", "opening", "accepted", "live"}, NEW c \in Nat,
           NEW S \in SUBSET Nat
    PROVE  [phase |-> p, cursor |-> c, frames |-> S] \in StreamRecord
BY DEF StreamRecord

\* The types of the page, field by field.
LEMMA PageFacts ==
    ASSUME PageTypes
    PROVE  /\ stream.phase \in {"off", "opening", "accepted", "live"} /\ stream.cursor \in Nat
           /\ stream.frames \in SUBSET Nat /\ stream.frames \subseteq Ids1
           /\ overlay.phase \in Overlay!Phases /\ overlay.follows \in Flows \cup {None}
           /\ \A k \in Overlay!Steps : nodes[k] \in {"pending", "active", "done", "error"}
           /\ Overlay!Steps = 1..9
<1>1. stream.phase \in {"off", "opening", "accepted", "live"} /\ stream.cursor \in Nat
      /\ stream.frames \in SUBSET Nat
  BY DEF PageTypes, StreamRecord
<1>2. stream.frames \subseteq Ids1
  BY DEF PageTypes, Overlay!Committed, Ids1
<1>3. overlay.phase \in Overlay!Phases /\ overlay.follows \in Flows \cup {None}
  BY DEF PageTypes
<1>4. Overlay!Steps = 1..9
  BY DEF Overlay!Steps
<1>5. QED
  BY <1>1, <1>2, <1>3, <1>4 DEF PageTypes

\* A step of the server leaves what is shown true.
LEMMA PageKeeps ==
    ASSUME RowTypes, RowsInOrder, PageInv, RowTypes', RowsInOrder', Grows,
           UNCHANGED <<stream, overlay, nodes, timely>>
    PROVE  PageInv'
<1>1. /\ PageTypes /\ PageAndStream /\ Ladder
      /\ DoneIsRecorded /\ ErrorIsFailure /\ ComingIsNew /\ Passed
  BY DEF PageInv
<1>2. /\ Len(rows) \in Nat /\ Len(rows') \in Nat /\ Len(rows) <= Len(rows')
      /\ \A id \in Ids1 : id \in Ids1' /\ rows'[id].flow = rows[id].flow /\ rows'[id].event = rows[id].event
      /\ \A id \in Ids1 : rows[id].committed => rows'[id].committed
  BY RowFacts DEF Grows, Ids1, RowTypes
<1>3. \A f \in Flows : flow[f].recorded \in 0..8 /\ flow'[f].recorded \in 0..8
  BY DEF RowTypes, FlowRecord
<1>4. PageTypes'
  <2>1. stream'.cursor <= Len(rows')
    BY <1>1, <1>2, PageFacts DEF PageTypes
  <2>2. stream'.frames \subseteq Overlay!Committed'
    BY <1>1, <1>2 DEF PageTypes, Overlay!Committed, Ids1
  <2>3. QED
    BY <1>1, <2>1, <2>2 DEF PageTypes
<1>5. PageAndStream'
  <2>1. overlay'.phase = "finished" => flow'[Mine].recorded = 8
    BY <1>1, <1>3, OverlayAssumption DEF PageAndStream, Grows
  <2>2. overlay'.follows # None => flow'[overlay'.follows].state # "waiting"
    BY <1>1, PageFacts DEF PageAndStream, Grows
  <2>3. overlay'.phase \in {"preparing", "connecting"} =>
          flow'[Mine].state = "waiting" /\ overlay'.follows = None
    BY <1>1 DEF PageAndStream, Grows
  <2>4. QED
    BY <1>1, <2>1, <2>2, <2>3 DEF PageAndStream
<1>6. Ladder'
  BY <1>1 DEF Ladder
<1>7. DoneIsRecorded'
  <2> SUFFICES ASSUME overlay.phase # "finished", NEW k \in 4..9, nodes[k] = "done"
               PROVE  overlay.follows # None /\ flow'[overlay.follows].recorded >= Overlay!EventOf[k - 3]
    BY DEF DoneIsRecorded
  <2>1. overlay.follows # None /\ flow[overlay.follows].recorded >= Overlay!EventOf[k - 3]
    BY <1>1 DEF DoneIsRecorded
  <2>2. Overlay!EventOf[k - 3] \in Nat
    BY RuleFacts DEF Overlay!EventOf
  <2>3. overlay.follows \in Flows
    BY <1>1, <2>1, PageFacts
  <2>4. flow'[overlay.follows].recorded >= flow[overlay.follows].recorded
    BY <2>3 DEF Grows
  <2>5. QED
    BY <1>3, <2>1, <2>2, <2>3, <2>4
<1>8. ErrorIsFailure'
  BY <1>1, PageFacts DEF ErrorIsFailure, Grows
<1>9. ComingIsNew'
  <2> SUFFICES ASSUME overlay.phase = "uploading", NEW x \in Coming',
                      rows'[x].flow = overlay.follows
               PROVE  /\ \A k \in Overlay!Steps : nodes[k] # "error"
                      /\ rows'[x].event # 0 =>
                            \A k \in 4..9 : k >= Overlay!Rule(rows'[x].event)[1] => nodes[k] # "done"
    BY DEF ComingIsNew
  <2>1. CASE x \in Ids1
    <3>1. x \in Coming
      BY <2>1, <1>2 DEF Coming, Ids1
    <3>2. QED
      BY <1>1, <1>2, <2>1, <3>1 DEF ComingIsNew
  <2>2. CASE x \notin Ids1
    <3>1. x \in Ids1' /\ x > Len(rows) /\ x \in Nat
      BY <1>1, <1>2, <2>2, PageFacts DEF Coming, Ids1
    <3>2. x \in 1..Len(rows')
      BY <3>1 DEF Ids1
    <3>r. rows'[x].flow \in Flows /\ rows'[x].event \in 0..8
      <4>1. rows'[x] \in Overlay!Row
        BY <3>2 DEF RowTypes
      <4>2. QED
        BY <4>1 DEF Overlay!Row
    <3>3. overlay.follows \in Flows /\ overlay.follows # None
      <4>1. rows'[x].flow = overlay.follows
        OBVIOUS
      <4>2. QED
        BY <3>r, <4>1, OverlayAssumption
    <3>4. /\ flow[overlay.follows].state = "running"
          /\ rows'[x].event \in {0, flow[overlay.follows].recorded + 1}
      BY <3>1, <3>2, Zenon DEF Grows
    <3>5. \A k \in Overlay!Steps : nodes[k] # "error"
      BY <1>1, <3>4 DEF ErrorIsFailure
    <3>6. rows'[x].event # 0 => rows'[x].event \in 1..8 /\ rows'[x].event > flow[overlay.follows].recorded
      <4>1. flow[overlay.follows].recorded \in 0..8
        BY <1>3, <3>3
      <4>2. QED
        BY <3>r, <3>4, <4>1
    <3>7. ASSUME rows'[x].event # 0, NEW k \in 4..9, k >= Overlay!Rule(rows'[x].event)[1]
          PROVE  nodes[k] # "done"
      <4>1. Overlay!EventOf[k - 3] >= rows'[x].event
        BY <3>6, <3>7, RuleFacts
      <4>2. Overlay!EventOf[k - 3] \in Nat
        BY DEF Overlay!EventOf
      <4>3. ~ (flow[overlay.follows].recorded >= Overlay!EventOf[k - 3])
        BY <1>3, <3>3, <3>6, <3>7, <4>1, <4>2
      <4>4. QED
        BY <1>1, <4>3 DEF DoneIsRecorded
    <3>8. QED
      BY <3>5, <3>7
  <2>3. QED
    BY <2>1, <2>2
<1>10. Passed'
  <2>1. Overlay!Alone' => Overlay!Alone
    BY DEF Overlay!Alone, Grows
  <2>2. \A id \in 1..stream.cursor : id \in Ids1
    BY <1>1, <1>2, PageFacts DEF PageTypes, Ids1
  <2>3. \A id \in 1..stream.cursor : rows'[id].event = rows[id].event
    BY <1>2, <2>2
  <2>4. QED
    BY <1>1, <2>1, <2>3 DEF Passed
<1>11. QED
  BY <1>4, <1>5, <1>6, <1>7, <1>8, <1>9, <1>10 DEF PageInv

----------------------------------------------------------------------------
\* The page begins to upload.
LEMMA Uploads ==
    ASSUME RowTypes, RowsInOrder, PageInv, overlay.phase = "connecting", Overlay!Upload,
           UNCHANGED <<rows, nodes>>,
           stream' \in [phase: {"off", "opening", "accepted", "live"}, cursor: {stream.cursor}, frames: {{}}]
    PROVE  /\ RowTypes' /\ RowsInOrder'
           /\ Ladder' /\ DoneIsRecorded' /\ ErrorIsFailure' /\ ComingIsNew'
           /\ overlay' = [phase |-> "uploading", follows |-> None]
           /\ \A id \in Ids1 : rows[id].flow # Mine /\ flow'[rows[id].flow].state # "waiting"
<1>1. PageTypes /\ PageAndStream /\ Ladder /\ DoneIsRecorded
  BY DEF PageInv
<1>2. flow[Mine].state = "waiting" /\ overlay.follows = None
  BY <1>1 DEF PageAndStream
<1>3. overlay' = [phase |-> "uploading", follows |-> None]
  BY <1>1, <1>2 DEF Overlay!Upload, PageTypes
<1> DEFINE k == [flow[Mine] EXCEPT !.state = "running"]
<1>4. k \in FlowRecord /\ k.state = "running" /\ k.recorded = 0
      /\ k.writing = flow[Mine].writing
  <2>1. flow[Mine] \in FlowRecord /\ flow[Mine].recorded = 0
    BY <1>2, RowFacts, OverlayAssumption DEF RowsInOrder
  <2>2. QED
    BY <2>1 DEF FlowRecord
<1>5. flow' = [flow EXCEPT ![Mine] = k]
  BY DEF Overlay!Upload, RowTypes
<1> HIDE DEF k
<1>6. flow' \in [Flows -> FlowRecord] /\ flow'[Mine] = k
      /\ \A g \in Flows \ {Mine} : flow'[g] = flow[g]
  BY <1>4, <1>5, OverlayAssumption DEF RowTypes
<1>7. RowTypes' /\ RowsInOrder'
  BY <1>2, <1>4, <1>6, Started, OverlayAssumption
<1>8. \A id \in Ids1 : rows[id].flow # Mine /\ flow'[rows[id].flow].state # "waiting" /\ rows[id].flow # None
  BY <1>2, <1>6, RowFacts, OverlayAssumption DEF RowsInOrder
<1>9. nodes[4] = "active" /\ \A i \in Overlay!Steps : /\ i < 4 => nodes[i] = "done"
                                                      /\ i > 4 => nodes[i] = "pending"
  <2>1. 4 \in Overlay!Steps /\ \A i \in Overlay!Steps : i \in Nat
    BY DEF Overlay!Steps
  <2>2. QED
    BY <1>1, <2>1 DEF Ladder
<1>10. \A i \in Overlay!Steps : nodes[i] # "error" /\ (i \in 4..9 => nodes[i] # "done")
  BY <1>9 DEF Overlay!Steps
<1>11. Ladder'
  BY <1>1, <1>3 DEF Ladder
<1>12. \A i \in 4..9 : i \in Overlay!Steps
  BY DEF Overlay!Steps
<1>13. DoneIsRecorded' /\ ErrorIsFailure'
  BY <1>10, <1>12 DEF DoneIsRecorded, ErrorIsFailure
<1>14. Coming' \subseteq Ids1
  BY DEF Coming, Ids1
<1>15. ComingIsNew'
  BY <1>3, <1>8, <1>14 DEF ComingIsNew
<1>16. QED
  BY <1>3, <1>7, <1>8, <1>11, <1>13, <1>15

\* The page uploads without the stream.
LEMMA NextTimeout ==
    ASSUME RowTypes, RowsInOrder, PageInv, Overlay!Timeout
    PROVE  RowTypes' /\ RowsInOrder' /\ PageInv'
<1>1. PageTypes /\ PageAndStream
  BY DEF PageInv
<1>2. overlay.phase = "connecting" /\ Overlay!Upload
      /\ UNCHANGED <<rows, stream, nodes, timely>>
  BY DEF Overlay!Timeout
<1>3. stream.frames = {} /\ stream.phase \in {"opening", "accepted"} /\ timely = FALSE
  BY <1>1, <1>2 DEF PageAndStream, PageTypes
<1>4. stream' \in [phase: {"off", "opening", "accepted", "live"}, cursor: {stream.cursor}, frames: {{}}]
  BY <1>1, <1>2, <1>3 DEF PageTypes, StreamRecord
<1>5. /\ RowTypes' /\ RowsInOrder'
      /\ Ladder' /\ DoneIsRecorded' /\ ErrorIsFailure' /\ ComingIsNew'
      /\ overlay' = [phase |-> "uploading", follows |-> None]
  BY <1>2, <1>4, Uploads
<1>6. PageTypes'
  BY <1>1, <1>2, <1>3, <1>5 DEF PageTypes, Overlay!Phases, Overlay!Committed
<1>7. PageAndStream'
  BY <1>2, <1>3, <1>5 DEF PageAndStream
<1>8. Passed'
  BY <1>2, <1>3 DEF Passed
<1>9. QED
  BY <1>5, <1>6, <1>7, <1>8 DEF PageInv

\* The page is told that the stream is there.
LEMMA NextReady ==
    ASSUME RowTypes, RowsInOrder, PageInv, Overlay!Ready
    PROVE  RowTypes' /\ RowsInOrder' /\ PageInv'
<1>1. /\ PageTypes /\ PageAndStream /\ Ladder
      /\ DoneIsRecorded /\ ErrorIsFailure /\ ComingIsNew /\ Passed
  BY DEF PageInv
<1>2. stream.phase = "accepted" /\ stream' = [stream EXCEPT !.phase = "live"]
      /\ UNCHANGED <<rows, nodes>>
  BY DEF Overlay!Ready
<1>3. stream.frames = {}
  BY <1>1, <1>2 DEF PageAndStream
<1>4. stream' = [phase |-> "live", cursor |-> stream.cursor, frames |-> {}]
  BY <1>1, <1>2, <1>3 DEF PageTypes, StreamRecord
<1>5. stream' \in [phase: {"off", "opening", "accepted", "live"}, cursor: {stream.cursor}, frames: {{}}]
      /\ stream.cursor \in Nat
  BY <1>1, <1>4, PageFacts
<1>6. CASE overlay.phase = "connecting"
  <2>1. Overlay!Upload /\ timely' = TRUE
    BY <1>6 DEF Overlay!Ready
  <2>2. /\ RowTypes' /\ RowsInOrder'
        /\ Ladder' /\ DoneIsRecorded' /\ ErrorIsFailure' /\ ComingIsNew'
        /\ overlay' = [phase |-> "uploading", follows |-> None]
        /\ \A id \in Ids1 : rows[id].flow # Mine /\ flow'[rows[id].flow].state # "waiting"
    BY <1>2, <1>5, <1>6, <2>1, Uploads
  <2>3. PageTypes'
    BY <1>1, <1>2, <1>4, <1>5, <2>1, <2>2 DEF PageTypes, Overlay!Phases, StreamRecord
  <2>4. PageAndStream'
    BY <1>4, <2>2 DEF PageAndStream
  <2>5. Passed'
    <3>1. \A id \in 1..stream.cursor : id \in Ids1
      BY <1>1, <1>5, RowFacts DEF PageTypes, Ids1
    <3>2. Overlay!Alone' => Ids1 = {}
      BY <2>2, RowFacts DEF Overlay!Alone
    <3>3. QED
      BY <1>4, <3>1, <3>2 DEF Passed
  <2>6. QED
    BY <2>2, <2>3, <2>4, <2>5 DEF PageInv
<1>7. CASE overlay.phase # "connecting"
  <2>1. UNCHANGED <<overlay, flow, timely>>
    BY <1>7 DEF Overlay!Ready
  <2>2. RowTypes' /\ RowsInOrder'
    BY <1>2, <2>1 DEF RowTypes, RowsInOrder, Ids1
  <2>3. PageTypes'
    BY <1>1, <1>2, <1>4, <1>5, <2>1 DEF PageTypes, StreamRecord
  <2>4. PageAndStream'
    BY <1>1, <1>2, <1>4, <1>7, <2>1 DEF PageAndStream
  <2>5. Coming' = Coming
    BY <1>2, <1>3, <1>4 DEF Coming, Ids1
  <2>6. Ladder' /\ DoneIsRecorded' /\ ErrorIsFailure'
    BY <1>1, <1>2, <2>1 DEF Ladder, DoneIsRecorded, ErrorIsFailure
  <2>7. ComingIsNew'
    BY <1>1, <1>2, <2>1, <2>5 DEF ComingIsNew
  <2>8. Passed'
    BY <1>1, <1>2, <2>1 DEF Passed, PageAndStream
  <2>9. QED
    BY <2>2, <2>3, <2>4, <2>6, <2>7, <2>8 DEF PageInv
<1>8. QED
  BY <1>6, <1>7

\* The stream closes or is opened anew, and nothing else happens.
LEMMA Cut ==
    ASSUME RowTypes, RowsInOrder, PageInv, NEW p \in {"off", "opening"},
           stream' = [phase |-> p, cursor |-> 0, frames |-> {}],
           timely' = FALSE, UNCHANGED <<rows, flow, overlay, nodes>>,
           overlay.phase \in {"preparing", "finished", "failed"} => p = "off",
           overlay.phase = "connecting" => p = "opening"
    PROVE  RowTypes' /\ RowsInOrder' /\ PageInv'
<1>1. /\ PageTypes /\ PageAndStream /\ Ladder
      /\ DoneIsRecorded /\ ErrorIsFailure /\ ComingIsNew /\ Passed
  BY DEF PageInv
<1>2. RowTypes' /\ RowsInOrder'
  BY DEF RowTypes, RowsInOrder, Ids1
<1>3. PageTypes'
  <2>1. stream'.cursor = 0 /\ stream'.frames = {} /\ Len(rows') \in Nat
    BY RowFacts
  <2>2. stream' \in StreamRecord
    BY DEF StreamRecord
  <2>3. stream'.cursor <= Len(rows') /\ stream'.frames \subseteq Overlay!Committed'
    BY <2>1
  <2>4. overlay' = overlay /\ nodes' = nodes /\ timely' \in BOOLEAN
    OBVIOUS
  <2>5. QED
    BY <1>1, <2>2, <2>3, <2>4 DEF PageTypes
<1>4. PageAndStream'
  BY <1>1 DEF PageAndStream
<1>5. Coming' = {}
  BY DEF Coming
<1>6. Ladder' /\ DoneIsRecorded' /\ ErrorIsFailure'
  BY <1>1 DEF Ladder, DoneIsRecorded, ErrorIsFailure
<1>7. ComingIsNew'
  BY <1>5 DEF ComingIsNew
<1>8. Passed'
  BY DEF Passed
<1>9. QED
  BY <1>2, <1>3, <1>4, <1>6, <1>7, <1>8 DEF PageInv

\* The connection breaks.
LEMMA NextBreak ==
    ASSUME RowTypes, RowsInOrder, PageInv, Overlay!Break
    PROVE  RowTypes' /\ RowsInOrder' /\ PageInv'
<1>1. /\ stream' = [phase |-> "opening", cursor |-> 0, frames |-> {}]
      /\ timely' = FALSE /\ UNCHANGED <<rows, flow, overlay, nodes>> /\ stream.phase # "off"
  BY DEF Overlay!Break, Overlay!Off
<1>2. overlay.phase \notin {"preparing", "finished", "failed"}
  BY <1>1 DEF PageInv, PageAndStream
<1>3. QED
  BY <1>1, <1>2, Cut

\* The server closes the stream.
LEMMA NextExpire ==
    ASSUME RowTypes, RowsInOrder, PageInv, Overlay!Expire
    PROVE  RowTypes' /\ RowsInOrder' /\ PageInv'
<1>1. /\ stream' = [phase |-> "off", cursor |-> 0, frames |-> {}]
      /\ timely' = FALSE /\ UNCHANGED <<rows, flow, overlay, nodes>>
      /\ stream.phase = "live"
  BY DEF Overlay!Expire, Overlay!Off
<1>2. overlay.phase # "connecting"
  BY <1>1 DEF PageInv, PageAndStream
<1>3. QED
  BY <1>1, <1>2, Cut

\* The server takes the cursor: what is behind it is not committed yet, and so is new.
LEMMA NextAccept ==
    ASSUME RowTypes, RowsInOrder, PageInv, Overlay!Accept
    PROVE  RowTypes' /\ RowsInOrder' /\ PageInv'
<1>1. /\ PageTypes /\ PageAndStream /\ Ladder
      /\ DoneIsRecorded /\ ErrorIsFailure /\ ComingIsNew /\ Passed
  BY DEF PageInv
<1>2. /\ stream.phase = "opening"
      /\ stream' = [phase |-> "accepted", cursor |-> Overlay!Latest, frames |-> {}]
      /\ UNCHANGED <<rows, flow, overlay, nodes, timely>>
  BY DEF Overlay!Accept
<1>3. RowTypes' /\ RowsInOrder'
  BY <1>2 DEF RowTypes, RowsInOrder, Ids1
<1>4. Len(rows) \in Nat /\ Overlay!Latest \in 0..Len(rows)
  BY RowFacts, LatestIs
<1>5. PageTypes'
  <2>1. stream'.cursor \in Nat /\ stream'.cursor <= Len(rows') /\ stream'.frames = {}
    BY <1>2, <1>4
  <2>2. stream' \in StreamRecord
    BY <1>2, <1>4 DEF StreamRecord
  <2>3. QED
    BY <1>1, <1>2, <2>1, <2>2 DEF PageTypes
<1>6. PageAndStream' /\ timely = FALSE
  BY <1>1, <1>2 DEF PageAndStream, PageTypes
<1>7. Ladder' /\ DoneIsRecorded' /\ ErrorIsFailure'
  BY <1>1, <1>2 DEF Ladder, DoneIsRecorded, ErrorIsFailure
<1>8. ComingIsNew'
  <2> SUFFICES ASSUME overlay.phase = "uploading", NEW x \in Ids1, x > Overlay!Latest,
                      rows[x].flow = overlay.follows
               PROVE  /\ \A k \in Overlay!Steps : nodes[k] # "error"
                      /\ rows[x].event # 0 =>
                            \A k \in 4..9 : k >= Overlay!Rule(rows[x].event)[1] => nodes[k] # "done"
    BY <1>2 DEF ComingIsNew, Coming, Ids1
  <2>1. ~ rows[x].committed
    BY <1>4, LatestIs DEF Overlay!Committed, Ids1
  <2> DEFINE f == overlay.follows
  <2>2. f \in Flows /\ rows[x].event \in 0..8 /\ flow[f].recorded \in 0..8
    BY RowFacts
  <2>3. flow[f].state = "running" /\ rows[x].event \in {0, flow[f].recorded + 1}
    BY <2>1 DEF RowsInOrder
  <2>4. \A k \in Overlay!Steps : nodes[k] # "error"
    BY <1>1, <2>3 DEF ErrorIsFailure
  <2>5. ASSUME rows[x].event # 0, NEW k \in 4..9, k >= Overlay!Rule(rows[x].event)[1]
        PROVE  nodes[k] # "done"
    <3>1. rows[x].event \in 1..8 /\ rows[x].event > flow[f].recorded
      BY <2>2, <2>3, <2>5
    <3>2. Overlay!EventOf[k - 3] >= rows[x].event
      BY <3>1, <2>5, RuleFacts
    <3>3. Overlay!EventOf[k - 3] \in Nat
      BY DEF Overlay!EventOf
    <3>4. ~ (flow[f].recorded >= Overlay!EventOf[k - 3])
      BY <2>2, <3>1, <3>2, <3>3
    <3>5. QED
      BY <1>1, <3>4 DEF DoneIsRecorded
  <2>6. QED
    BY <2>4, <2>5
<1>9. Passed'
  BY <1>2, <1>6 DEF Passed
<1>10. QED
  BY <1>3, <1>5, <1>6, <1>7, <1>8, <1>9 DEF PageInv

\* The server sends what is behind the cursor.
LEMMA NextPoll ==
    ASSUME RowTypes, RowsInOrder, PageInv, Overlay!Poll
    PROVE  RowTypes' /\ RowsInOrder' /\ PageInv'
<1>1. /\ PageTypes /\ PageAndStream /\ Ladder
      /\ DoneIsRecorded /\ ErrorIsFailure /\ ComingIsNew /\ Passed
  BY DEF PageInv
<1> DEFINE c == stream.cursor
           news == Overlay!After(c)
           latest == Overlay!Latest
<1>2. /\ stream.phase = "live" /\ stream.frames = {} /\ news # {}
      /\ stream' = [stream EXCEPT !.frames = news, !.cursor = latest]
      /\ UNCHANGED <<rows, flow, overlay, nodes, timely>>
  BY DEF Overlay!Poll
<1>3. Len(rows) \in Nat /\ latest \in 0..Len(rows) /\ c \in Nat
  BY <1>1, RowFacts, LatestIs, PageFacts
<1>4. /\ news \in SUBSET Nat /\ news \subseteq Overlay!Committed /\ news \subseteq Ids1
      /\ \A id \in news : id > c /\ id <= latest
      /\ c <= latest
  <2>1. news \in SUBSET Nat /\ news \subseteq Overlay!Committed /\ news \subseteq Ids1
        /\ \A id \in news : id > c
    BY DEF Overlay!After, Overlay!Committed, Ids1
  <2>2. \A id \in news : id <= latest
    BY <2>1, LatestIs
  <2>3. c <= latest
    BY <1>2, <1>3, <2>1, <2>2
  <2>4. QED
    BY <2>1, <2>2, <2>3
<1>5. stream' = [phase |-> "live", cursor |-> latest, frames |-> news]
  BY <1>1, <1>2 DEF PageTypes, StreamRecord
<1>6. \A id \in Ids1 : id > c /\ id <= latest /\ rows[id].committed => id \in news
  BY DEF Overlay!After, Overlay!Committed, Ids1
<1>7. latest # 0 => latest \in Ids1 /\ rows[latest].committed
  BY LatestIs DEF Overlay!Committed, Ids1
<1> HIDE DEF news, latest, c
<1>8. RowTypes' /\ RowsInOrder'
  BY <1>2 DEF RowTypes, RowsInOrder, Ids1
<1>9. PageTypes'
  <2>1. stream'.cursor \in Nat /\ stream'.cursor <= Len(rows') /\ stream'.frames = news
    BY <1>2, <1>3, <1>5
  <2>2. stream' \in StreamRecord
    BY <1>3, <1>4, <1>5 DEF StreamRecord
  <2>3. Overlay!Committed' = Overlay!Committed
    BY <1>2 DEF Overlay!Committed
  <2>4. QED
    BY <1>1, <1>2, <1>4, <2>1, <2>2, <2>3 DEF PageTypes
<1>10. PageAndStream'
  BY <1>1, <1>2, <1>4, <1>5 DEF PageAndStream
<1>11. Ladder' /\ DoneIsRecorded' /\ ErrorIsFailure'
  BY <1>1, <1>2 DEF Ladder, DoneIsRecorded, ErrorIsFailure
<1>12. Coming' \subseteq Coming
  <2>1. Coming' = news \cup {id \in Ids1 : id > latest}
    BY <1>2, <1>5 DEF Coming, Ids1
  <2>2. Coming = {id \in Ids1 : id > c}
    BY <1>2 DEF Coming, c
  <2>3. \A id \in Ids1 : id > latest => id > c
    BY <1>3, <1>4 DEF Ids1
  <2>4. QED
    BY <1>4, <2>1, <2>2, <2>3
<1>13. ComingIsNew'
  BY <1>1, <1>2, <1>12 DEF ComingIsNew
<1>14. Passed'
  <2> SUFFICES ASSUME timely, Overlay!Alone, NEW id \in 1..latest, id \notin news,
                      rows[id].event # 0, Overlay!Rule(rows[id].event)[2] = "done"
               PROVE  nodes[Overlay!Rule(rows[id].event)[1]] = "done"
    BY <1>2, <1>5 DEF Passed, Overlay!Alone
  <2>1. id \in Ids1 /\ id \in Nat
    BY <1>3 DEF Ids1
  <2>2. \A x \in Ids1 : rows[x].flow = Mine
    BY RowFacts DEF Overlay!Alone, RowsInOrder
  <2>3. rows[id].committed
    <3>1. CASE id = latest
      BY <1>7, <3>1, <1>3
    <3>2. CASE id < latest
      BY <1>3, <1>7, <2>1, <2>2, <3>2 DEF RowsInOrder
    <3>3. QED
      BY <1>3, <3>1, <3>2
  <2>4. id <= c
    BY <1>3, <1>6, <2>1, <2>3
  <2>5. id \in 1..stream.cursor \ stream.frames
    BY <1>2, <1>3, <2>4 DEF c
  <2>6. QED
    BY <1>1, <2>5 DEF Passed
<1>15. QED
  BY <1>8, <1>9, <1>10, <1>11, <1>13, <1>14 DEF PageInv

\* The step that is running: every step before it is done, and none after it has begun.
LEMMA TheActive ==
    ASSUME PageInv, overlay.phase \in {"preparing", "connecting", "uploading"},
           Overlay!Actives # {}
    PROVE  LET k == Overlay!First(Overlay!Actives)
           IN  /\ k \in Overlay!Steps /\ k \in Nat /\ nodes[k] = "active"
               /\ \A j \in Overlay!Steps : /\ j < k => nodes[j] = "done"
                                           /\ j > k => nodes[j] = "pending"
<1>1. Overlay!Actives \in SUBSET Nat /\ Overlay!Steps \in SUBSET Nat
  BY DEF Overlay!Actives, Overlay!Steps
<1>2. Overlay!First(Overlay!Actives) \in Overlay!Actives
  BY <1>1, TheFirst
<1> DEFINE k == Overlay!First(Overlay!Actives)
<1>3. k \in Overlay!Steps /\ nodes[k] = "active" /\ k \in Nat
  BY <1>1, <1>2 DEF Overlay!Actives
<1> HIDE DEF k
<1>4. \A j \in Overlay!Steps : j < k => nodes[j] = "done"
  BY <1>3 DEF PageInv, Ladder
<1>5. \A j \in Overlay!Steps : j > k => nodes[j] = "pending"
  BY <1>3 DEF PageInv, Ladder
<1>6. QED
  BY <1>3, <1>4, <1>5 DEF k

\* The overlay fails: nothing that is shown as done is taken back or added.
LEMMA Fails ==
    ASSUME RowTypes, RowsInOrder, PageInv, overlay.phase # "finished",
           Overlay!FailOverlay, UNCHANGED <<rows, flow>>
    PROVE  RowTypes' /\ RowsInOrder' /\ PageInv'
<1>1. PageTypes /\ PageAndStream /\ DoneIsRecorded
  BY DEF PageInv
<1>2. /\ overlay' = [phase |-> "failed", follows |-> overlay.follows] /\ timely' = FALSE
      /\ stream' = [phase |-> "off", cursor |-> 0, frames |-> {}]
  BY <1>1 DEF Overlay!FailOverlay, PageTypes, Overlay!Off
<1>3. /\ nodes' \in [Overlay!Steps -> {"pending", "active", "done", "error"}]
      /\ \A k \in Overlay!Steps : nodes'[k] = "done" => nodes[k] = "done"
  <2>1. CASE Overlay!Actives = {}
    BY <1>1, <2>1 DEF Overlay!FailOverlay, PageTypes
  <2>2. CASE Overlay!Actives # {}
    BY <1>1, <2>2 DEF Overlay!FailOverlay, PageTypes
  <2>3. QED
    BY <2>1, <2>2
<1>4. RowTypes' /\ RowsInOrder'
  BY DEF RowTypes, RowsInOrder, Ids1
<1>5. PageTypes'
  <2>1. stream'.cursor = 0 /\ stream'.frames = {} /\ Len(rows') \in Nat
    BY <1>2, RowFacts
  <2>2. stream' \in StreamRecord
    BY <1>2 DEF StreamRecord
  <2>3. stream'.cursor <= Len(rows') /\ stream'.frames \subseteq Overlay!Committed'
    BY <2>1
  <2>4. overlay' \in [phase: Overlay!Phases, follows: Flows \cup {None}]
    BY <1>1, <1>2, PageFacts DEF Overlay!Phases
  <2>5. QED
    BY <1>2, <1>3, <2>2, <2>3, <2>4 DEF PageTypes
<1>6. PageAndStream'
  BY <1>1, <1>2 DEF PageAndStream
<1>7. \A k \in 4..9 : k \in Overlay!Steps
  BY DEF Overlay!Steps
<1>8. DoneIsRecorded'
  BY <1>1, <1>2, <1>3, <1>7 DEF DoneIsRecorded
<1>9. Ladder' /\ ErrorIsFailure' /\ ComingIsNew' /\ Passed'
  BY <1>2 DEF Ladder, ErrorIsFailure, ComingIsNew, Passed
<1>10. QED
  BY <1>4, <1>5, <1>6, <1>8, <1>9 DEF PageInv

\* The registration is refused.
LEMMA NextRefused ==
    ASSUME RowTypes, RowsInOrder, PageInv, Overlay!Refused
    PROVE  RowTypes' /\ RowsInOrder' /\ PageInv'
<1>1. overlay.phase = "uploading" /\ Overlay!FailOverlay /\ UNCHANGED <<rows, flow>>
  BY DEF Overlay!Refused
<1>2. QED
  BY <1>1, Fails

\* The registration is answered.
LEMMA NextFinish ==
    ASSUME RowTypes, RowsInOrder, PageInv, Overlay!Finish
    PROVE  RowTypes' /\ RowsInOrder' /\ PageInv'
<1>1. PageTypes /\ PageAndStream
  BY DEF PageInv
<1>2. /\ flow[Mine].state = "ok" /\ UNCHANGED <<rows, flow>>
      /\ overlay' = [phase |-> "finished", follows |-> overlay.follows] /\ timely' = FALSE
      /\ stream' = [phase |-> "off", cursor |-> 0, frames |-> {}]
      /\ nodes' = [k \in Overlay!Steps |-> "done"]
  BY <1>1 DEF Overlay!Finish, Overlay!Off, PageTypes
<1>3. flow[Mine].recorded = 8
  BY <1>2, OverlayAssumption DEF RowsInOrder
<1>4. RowTypes' /\ RowsInOrder'
  BY <1>2 DEF RowTypes, RowsInOrder, Ids1
<1>5. PageTypes'
  <2>1. stream'.cursor = 0 /\ stream'.frames = {} /\ Len(rows') \in Nat
    BY <1>2, RowFacts
  <2>2. stream' \in StreamRecord
    BY <1>2 DEF StreamRecord
  <2>3. stream'.cursor <= Len(rows') /\ stream'.frames \subseteq Overlay!Committed'
    BY <2>1
  <2>4. overlay' \in [phase: Overlay!Phases, follows: Flows \cup {None}]
    BY <1>1, <1>2, PageFacts DEF Overlay!Phases
  <2>5. nodes' \in [Overlay!Steps -> {"pending", "active", "done", "error"}]
    BY <1>2
  <2>6. QED
    BY <1>2, <2>2, <2>3, <2>4, <2>5 DEF PageTypes
<1>6. PageAndStream'
  BY <1>1, <1>2, <1>3 DEF PageAndStream
<1>7. Ladder' /\ DoneIsRecorded' /\ ErrorIsFailure' /\ ComingIsNew' /\ Passed'
  BY <1>2 DEF Ladder, DoneIsRecorded, ErrorIsFailure, ComingIsNew, Passed
<1>8. QED
  BY <1>4, <1>5, <1>6, <1>7 DEF PageInv

\* The three steps of the page itself.
LEMMA NextPrepare ==
    ASSUME RowTypes, RowsInOrder, PageInv, Overlay!Prepare
    PROVE  RowTypes' /\ RowsInOrder' /\ PageInv'
<1>1. /\ PageTypes /\ PageAndStream /\ Ladder /\ DoneIsRecorded /\ ErrorIsFailure
  BY DEF PageInv
<1> DEFINE k == Overlay!First(Overlay!Actives)
<1>2. overlay.phase = "preparing" /\ UNCHANGED <<rows, flow>>
  BY DEF Overlay!Prepare
<1>3. CASE Overlay!FailOverlay
  BY <1>2, <1>3, Fails
<1>4. CASE /\ nodes' = Overlay!Stepped(k, "done")
           /\ IF k = Overlay!Confirm
                THEN /\ overlay' = [overlay EXCEPT !.phase = "connecting"]
                     /\ stream' = [Overlay!Off EXCEPT !.phase = "opening"]
                ELSE UNCHANGED <<overlay, stream>>
           /\ UNCHANGED timely
  <2>1. PICK a \in 1..3 : nodes[a] = "active"
    BY <1>1, <1>2 DEF Ladder
  <2>2. Overlay!Actives # {}
    BY <2>1 DEF Overlay!Actives, Overlay!Steps
  <2>3. /\ k \in Overlay!Steps /\ k \in Nat /\ nodes[k] = "active"
        /\ \A j \in Overlay!Steps : /\ j < k => nodes[j] = "done"
                                    /\ j > k => nodes[j] = "pending"
    BY <1>2, <2>2, TheActive
  <2> HIDE DEF k
  <2>4. k \in 1..3
    <3>1. a \in Overlay!Steps
      BY DEF Overlay!Steps
    <3>2. ~ (a < k)
      BY <2>1, <2>3, <3>1
    <3>3. QED
      BY <2>3, <3>2 DEF Overlay!Steps
  <2>5. /\ nodes' \in [Overlay!Steps -> {"pending", "active", "done", "error"}]
        /\ \A j \in Overlay!Steps : /\ j <= k => nodes'[j] = "done"
                                    /\ j = k + 1 => nodes'[j] = "active"
                                    /\ j > k + 1 => nodes'[j] = "pending"
    <3>1. nodes' = [j \in Overlay!Steps |->
                      IF j < k THEN "done" ELSE IF j = k THEN "done"
                      ELSE IF j = k + 1 /\ nodes[j] = "pending" THEN "active" ELSE nodes[j]]
      BY <1>4 DEF Overlay!Stepped
    <3>2. Overlay!Steps \in SUBSET Nat
      BY DEF Overlay!Steps
    <3>3. \A j \in Overlay!Steps : /\ j <= k => nodes'[j] = "done"
                                   /\ j = k + 1 => nodes'[j] = "active"
                                   /\ j > k + 1 => nodes'[j] = "pending"
      BY <2>3, <2>4, <3>1, <3>2
    <3>4. \A j \in Overlay!Steps : nodes'[j] \in {"pending", "active", "done", "error"}
      BY <2>4, <3>2, <3>3
    <3>5. QED
      BY <3>1, <3>3, <3>4
  <2>6. /\ UNCHANGED timely /\ stream'.frames = {}
        /\ \/ UNCHANGED <<overlay, stream>> /\ k < 3
           \/ /\ overlay' = [phase |-> "connecting", follows |-> None] /\ k = 3
              /\ stream' = [phase |-> "opening", cursor |-> 0, frames |-> {}]
    BY <1>1, <1>2, <1>4, <2>4 DEF Overlay!Confirm, PageTypes, PageAndStream, Overlay!Off
  <2>7. RowTypes' /\ RowsInOrder'
    BY <1>2 DEF RowTypes, RowsInOrder, Ids1
  <2>8. PageTypes'
    <3>1. stream'.cursor <= Len(rows')
      BY <1>1, <1>2, <2>6, RowFacts DEF PageTypes
    <3>2. stream' \in StreamRecord
      BY <1>1, <2>6 DEF PageTypes, StreamRecord
    <3>3. overlay' \in [phase: Overlay!Phases, follows: Flows \cup {None}]
      BY <1>1, <2>6 DEF PageTypes, Overlay!Phases
    <3>4. timely' \in BOOLEAN
      BY <1>1, <2>6 DEF PageTypes
    <3>5. stream'.frames \subseteq Overlay!Committed'
      BY <2>6
    <3>6. QED
      BY <2>5, <3>1, <3>2, <3>3, <3>4, <3>5 DEF PageTypes
  <2>9. PageAndStream' /\ timely' = FALSE
    BY <1>1, <1>2, <2>6 DEF PageAndStream, PageTypes
  <2>10. Ladder'
    <3>1. \A i, j \in Overlay!Steps : i < j /\ nodes'[j] # "pending" => nodes'[i] = "done"
      BY <2>4, <2>5 DEF Overlay!Steps
    <3>2. \A i \in Overlay!Steps : nodes'[i] = "pending" => i > 1 /\ nodes'[i - 1] # "done"
      <4> SUFFICES ASSUME NEW i \in Overlay!Steps, nodes'[i] = "pending"
                   PROVE  i > 1 /\ nodes'[i - 1] # "done"
        OBVIOUS
      <4>1. i \in 1..9 /\ i > k + 1
        BY <2>4, <2>5 DEF Overlay!Steps
      <4>2. i - 1 \in Overlay!Steps /\ i - 1 >= k + 1
        BY <2>4, <4>1 DEF Overlay!Steps
      <4>3. nodes'[i - 1] = "active" \/ nodes'[i - 1] = "pending"
        BY <2>4, <2>5, <4>1, <4>2
      <4>4. QED
        BY <2>4, <4>1, <4>3
    <3>3. overlay'.phase = "preparing" => \E i \in 1..3 : nodes'[i] = "active"
      <4>1. CASE k < 3
        <5>1. k + 1 \in 1..3 /\ k + 1 \in Overlay!Steps
          BY <2>4, <4>1 DEF Overlay!Steps
        <5>2. QED
          BY <2>5, <5>1
      <4>2. CASE ~ (k < 3)
        BY <2>6, <4>2
      <4>3. QED
        BY <4>1, <4>2
    <3>4. overlay'.phase = "connecting" => nodes'[4] = "active"
      <4>1. CASE k = 3
        BY <2>5, <4>1 DEF Overlay!Steps
      <4>2. CASE k # 3
        BY <1>2, <2>6, <4>2
      <4>3. QED
        BY <4>1, <4>2
    <3>5. QED
      BY <3>1, <3>2, <3>3, <3>4 DEF Ladder
  <2>11. DoneIsRecorded'
    <3>1. \A j \in 4..9 : nodes'[j] # "done"
      <4> SUFFICES ASSUME NEW j \in 4..9 PROVE nodes'[j] # "done"
        OBVIOUS
      <4>1. j \in Overlay!Steps /\ j \in Nat /\ (j = k + 1 \/ j > k + 1)
        BY <2>4 DEF Overlay!Steps
      <4>2. QED
        BY <2>5, <4>1
    <3>2. QED
      BY <3>1 DEF DoneIsRecorded
  <2>12. overlay'.phase # "uploading"
    BY <1>2, <2>6
  <2>13. ErrorIsFailure' /\ ComingIsNew' /\ Passed'
    BY <2>9, <2>12 DEF ErrorIsFailure, ComingIsNew, Passed
  <2>14. QED
    BY <2>7, <2>8, <2>9, <2>10, <2>11, <2>13 DEF PageInv
<1>5. QED
  BY <1>3, <1>4 DEF Overlay!Prepare

\* The page is told of an event.
LEMMA Shown ==
    ASSUME RowTypes, RowsInOrder, PageInv, NEW x \in stream.frames,
           \A y \in stream.frames : x <= y, overlay.phase = "uploading",
           overlay.follows \in {None, rows[x].flow},
           UNCHANGED <<rows, flow, timely>>,
           stream' = [stream EXCEPT !.frames = @ \ {x}],
           overlay' = [overlay EXCEPT !.follows = rows[x].flow],
           NEW k \in Overlay!Steps, NEW s \in {"active", "done", "error"},
           nodes' = Overlay!Stepped(k, s),
           \A j \in Overlay!Steps : nodes[j] # "error" /\ (j >= k => nodes[j] # "done"),
           \/ rows[x].event = 0 /\ s = "error" /\ nodes[k] = "active"
           \/ /\ rows[x].event # 0 /\ k = Overlay!Rule(rows[x].event)[1]
              /\ s = Overlay!Rule(rows[x].event)[2]
    PROVE  RowTypes' /\ RowsInOrder' /\ PageInv'
<1>1. /\ PageTypes /\ PageAndStream /\ Ladder
      /\ DoneIsRecorded /\ ErrorIsFailure /\ ComingIsNew /\ Passed
  BY DEF PageInv
<1> DEFINE g == rows[x].flow
           e == rows[x].event
<1>2. /\ stream.phase = "live" /\ x \in Ids1 /\ x \in Nat /\ x <= stream.cursor
      /\ rows[x].committed /\ g \in Flows /\ g # None /\ e \in 0..8
      /\ flow[g].recorded \in 0..8 /\ e <= flow[g].recorded
      /\ e = 0 => flow[g].state = "failed" /\ flow[g].recorded \in Overlay!FailsAfter
      /\ flow[g].state # "waiting"
  <2>1. stream.phase = "live" /\ x \in Ids1 /\ x \in Nat /\ x <= stream.cursor
    BY <1>1, PageFacts DEF PageAndStream
  <2>2. rows[x].committed
    BY <1>1 DEF PageTypes, Overlay!Committed
  <2>3. g \in Flows /\ g # None /\ e \in 0..8 /\ flow[g].recorded \in 0..8
    BY <2>1, RowFacts, OverlayAssumption
  <2>4. /\ e <= flow[g].recorded /\ flow[g].state # "waiting"
        /\ e = 0 => flow[g].state = "failed" /\ flow[g].recorded \in Overlay!FailsAfter
    BY <2>1, <2>2 DEF RowsInOrder
  <2>5. QED
    BY <2>1, <2>2, <2>3, <2>4
<1>3. k \in Nat /\ k \in 1..9 /\ Overlay!Steps \in SUBSET Nat
  BY DEF Overlay!Steps
<1>4. \A j \in Overlay!Steps : j > k => nodes[j] = "pending"
  <2> SUFFICES ASSUME NEW j \in Overlay!Steps, j > k, nodes[j] # "pending"
               PROVE  FALSE
    OBVIOUS
  <2>1. nodes[k] = "done"
    BY <1>1 DEF Ladder
  <2>2. k >= k
    BY <1>3
  <2>3. QED
    BY <2>1, <2>2
\* The overlay now is at step k.
<1>5. /\ nodes' \in [Overlay!Steps -> {"pending", "active", "done", "error"}]
      /\ \A j \in Overlay!Steps : /\ j < k => nodes'[j] = "done"
                                  /\ j = k => nodes'[j] = s
                                  /\ j = k + 1 => nodes'[j] = IF s = "done" THEN "active" ELSE "pending"
                                  /\ j > k + 1 => nodes'[j] = "pending"
  <2>1. nodes' = [j \in Overlay!Steps |->
                    IF j < k THEN "done" ELSE IF j = k THEN s
                    ELSE IF j = k + 1 /\ s = "done" /\ nodes[j] = "pending" THEN "active" ELSE nodes[j]]
    BY DEF Overlay!Stepped
  <2>2. \A j \in Overlay!Steps : /\ j < k => nodes'[j] = "done"
                                 /\ j = k => nodes'[j] = s
                                 /\ j = k + 1 => nodes'[j] = IF s = "done" THEN "active" ELSE "pending"
                                 /\ j > k + 1 => nodes'[j] = "pending"
    BY <1>3, <1>4, <2>1
  <2>3. \A j \in Overlay!Steps : nodes'[j] \in {"pending", "active", "done", "error"}
    <3> SUFFICES ASSUME NEW j \in Overlay!Steps
                 PROVE  nodes'[j] \in {"pending", "active", "done", "error"}
      OBVIOUS
    <3>1. j < k \/ j = k \/ j = k + 1 \/ j > k + 1
      BY <1>3
    <3>2. QED
      BY <2>2, <3>1
  <2>4. QED
    BY <2>1, <2>2, <2>3
<1>6. e # 0 => e \in 1..8 /\ k \in 4..9 /\ s \in {"active", "done"}
  BY <1>2, RuleFacts
<1>7. /\ stream' = [phase |-> "live", cursor |-> stream.cursor, frames |-> stream.frames \ {x}]
      /\ overlay' = [phase |-> "uploading", follows |-> g]
  BY <1>1, <1>2 DEF PageTypes, StreamRecord
<1>8. RowTypes' /\ RowsInOrder'
  BY DEF RowTypes, RowsInOrder, Ids1
<1>9. PageTypes'
  <2>1. stream' \in StreamRecord
    <3> DEFINE left == stream.frames \ {x}
               c == stream.cursor
    <3>1. left \in SUBSET Nat /\ c \in Nat
      <4>1. stream.frames \in SUBSET Nat /\ stream.cursor \in Nat
        BY <1>1, PageFacts
      <4>2. QED
        BY <4>1
    <3>2. stream' = [phase |-> "live", cursor |-> c, frames |-> left]
      BY <1>7
    <3> HIDE DEF left, c
    <3>3. [phase |-> "live", cursor |-> c, frames |-> left] \in StreamRecord
      BY <3>1, StreamType
    <3>4. QED
      BY <3>2, <3>3
  <2>2. stream'.cursor <= Len(rows') /\ stream'.frames \subseteq Overlay!Committed'
    BY <1>1, <1>7 DEF PageTypes, Overlay!Committed
  <2>3. overlay' \in [phase: Overlay!Phases, follows: Flows \cup {None}]
    BY <1>2, <1>7 DEF Overlay!Phases
  <2>4. QED
    BY <1>1, <1>5, <2>1, <2>2, <2>3 DEF PageTypes
<1>10. PageAndStream'
  BY <1>1, <1>2, <1>7 DEF PageAndStream
<1>11. Ladder'
  <2>1. \A i, j \in Overlay!Steps : i < j /\ nodes'[j] # "pending" => nodes'[i] = "done"
    <3> SUFFICES ASSUME NEW i \in Overlay!Steps, NEW j \in Overlay!Steps, i < j,
                        nodes'[j] # "pending"
                 PROVE  nodes'[i] = "done"
      OBVIOUS
    <3>1. i \in Nat /\ j \in Nat
      BY <1>3
    <3>2. j <= k \/ (j = k + 1 /\ s = "done")
      BY <1>3, <1>5, <3>1
    <3>3. i < k \/ (i = k /\ s = "done")
      BY <1>3, <3>1, <3>2
    <3>4. QED
      BY <1>5, <3>3
  <2>2. \A i \in Overlay!Steps : nodes'[i] = "pending" => i > 1 /\ nodes'[i - 1] # "done"
    <3> SUFFICES ASSUME NEW i \in Overlay!Steps, nodes'[i] = "pending"
                 PROVE  i > 1 /\ nodes'[i - 1] # "done"
      OBVIOUS
    <3>1. i \in Nat /\ i > k /\ (i = k + 1 => s # "done")
      BY <1>3, <1>5
    <3>2. i > 1 /\ i - 1 \in Overlay!Steps
      BY <1>3, <3>1 DEF Overlay!Steps
    <3>3. (i - 1 = k /\ s # "done") \/ i - 1 = k + 1 \/ i - 1 > k + 1
      BY <1>3, <3>1
    <3>4. nodes'[i - 1] # "done"
      <4>1. CASE i - 1 = k /\ s # "done"
        BY <1>5, <3>2, <4>1
      <4>2. CASE i - 1 = k + 1
        BY <1>5, <3>2, <4>2
      <4>3. CASE i - 1 > k + 1
        BY <1>5, <3>2, <4>3
      <4>4. QED
        BY <3>3, <4>1, <4>2, <4>3
    <3>5. QED
      BY <3>2, <3>4
  <2>3. overlay'.phase = "uploading"
    BY <1>7
  <2>4. QED
    BY <2>1, <2>2, <2>3 DEF Ladder
<1>12. DoneIsRecorded'
  <2> SUFFICES ASSUME NEW j \in 4..9, nodes'[j] = "done"
               PROVE  flow[g].recorded >= Overlay!EventOf[j - 3]
    BY <1>2, <1>7 DEF DoneIsRecorded
  <2>1. j \in Overlay!Steps /\ Overlay!EventOf[j - 3] \in Nat
    BY DEF Overlay!Steps, Overlay!EventOf
  <2>2. j < k \/ (j = k /\ s = "done")
    BY <1>3, <1>5, <2>1
  <2>3. CASE e # 0
    <3>1. Overlay!EventOf[j - 3] <= e
      BY <1>6, <2>2, <2>3, RuleFacts
    <3>2. QED
      BY <1>2, <2>1, <3>1
  <2>4. CASE e = 0
    <3>1. j < k /\ nodes[k] = "active"
      BY <2>2, <2>4
    <3>2. nodes[j] = "done"
      BY <1>1, <2>1, <3>1 DEF Ladder
    <3>3. overlay.follows # None /\ flow[overlay.follows].recorded >= Overlay!EventOf[j - 3]
      BY <1>1, <3>2 DEF DoneIsRecorded
    <3>4. QED
      BY <3>3
  <2>5. QED
    BY <2>3, <2>4
<1>13. ErrorIsFailure'
  <2> SUFFICES ASSUME NEW j \in Overlay!Steps, nodes'[j] = "error"
               PROVE  flow[g].state = "failed"
    BY <1>2, <1>7 DEF ErrorIsFailure
  <2>1. j = k /\ s = "error"
    <3>1. j < k \/ j = k \/ j = k + 1 \/ j > k + 1
      BY <1>3
    <3>2. QED
      BY <1>5, <3>1
  <2>2. e = 0
    BY <1>6, <2>1
  <2>3. QED
    BY <1>2, <2>2
<1>14. ComingIsNew'
  <2> SUFFICES ASSUME NEW y \in Coming', rows[y].flow = g
               PROVE  /\ \A j \in Overlay!Steps : nodes'[j] # "error"
                      /\ rows[y].event # 0 =>
                            \A j \in 4..9 : j >= Overlay!Rule(rows[y].event)[1] => nodes'[j] # "done"
    BY <1>7 DEF ComingIsNew
  <2>1. y \in Ids1 /\ y \in Nat /\ x < y
    <3>1. CASE y \in stream.frames \ {x}
      BY <1>1, <1>2, <3>1, PageFacts
    <3>2. CASE y \in Ids1 /\ y > stream.cursor
      <4>1. y \in Nat /\ stream.cursor \in Nat
        BY <1>1, <3>2, PageFacts DEF Ids1
      <4>2. QED
        BY <1>2, <3>2, <4>1
    <3>3. y \in stream.frames \ {x} \/ (y \in Ids1 /\ y > stream.cursor)
      BY <1>7 DEF Coming, Ids1
    <3>4. QED
      BY <3>1, <3>2, <3>3
  <2>2. e # 0 /\ (rows[y].event # 0 => e < rows[y].event)
    BY <1>2, <2>1 DEF RowsInOrder
  <2>3. \A j \in Overlay!Steps : nodes'[j] # "error"
    <3> SUFFICES ASSUME NEW j \in Overlay!Steps PROVE nodes'[j] # "error"
      OBVIOUS
    <3>1. j < k \/ j = k \/ j = k + 1 \/ j > k + 1
      BY <1>3
    <3>2. QED
      BY <1>5, <1>6, <2>2, <3>1
  <2>4. ASSUME rows[y].event # 0, NEW j \in 4..9, j >= Overlay!Rule(rows[y].event)[1]
        PROVE  nodes'[j] # "done"
    <3> DEFINE d == rows[y].event
    <3>1. d \in 1..8 /\ e < d /\ e \in 1..8
      <4>1. d \in 0..8
        BY <2>1, RowFacts
      <4>2. QED
        BY <1>6, <2>2, <2>4, <4>1
    <3>2. /\ Overlay!Rule(d)[1] \in 4..9 /\ k <= Overlay!Rule(d)[1]
          /\ k = Overlay!Rule(d)[1] => s = "active"
      BY <2>2, <3>1, RuleFacts
    <3>3. j > k \/ (j = k /\ s = "active")
      BY <1>3, <2>4, <3>2
    <3>4. j \in Overlay!Steps /\ (j = k \/ j = k + 1 \/ j > k + 1)
      BY <1>3, <3>3 DEF Overlay!Steps
    <3>5. QED
      BY <1>3, <1>5, <3>3, <3>4
  <2>5. QED
    BY <2>3, <2>4
<1>15. Passed'
  <2> SUFFICES ASSUME timely, Overlay!Alone, NEW id \in 1..stream.cursor,
                      id \notin stream.frames \ {x},
                      rows[id].event # 0, Overlay!Rule(rows[id].event)[2] = "done"
               PROVE  nodes'[Overlay!Rule(rows[id].event)[1]] = "done"
    BY <1>7 DEF Passed, Overlay!Alone
  <2> DEFINE j == Overlay!Rule(rows[id].event)[1]
  <2>1. j \in Overlay!Steps
    <3>1. id \in Ids1
      BY <1>1, RowFacts, PageFacts DEF PageTypes, Ids1
    <3>2. rows[id].event \in 1..8
      BY <3>1, RowFacts
    <3>3. QED
      BY <3>2, RuleFacts DEF Overlay!Steps
  <2>2. CASE id = x
    BY <1>5, <2>1, <2>2
  <2>3. CASE id # x
    <3>1. nodes[j] = "done"
      BY <1>1, <2>3 DEF Passed
    <3>2. j < k
      BY <1>3, <2>1, <3>1
    <3>3. QED
      BY <1>5, <2>1, <3>2
  <2>4. QED
    BY <2>2, <2>3
<1>16. QED
  BY <1>8, <1>9, <1>10, <1>11, <1>12, <1>13, <1>14, <1>15 DEF PageInv

\* The page gets the first of the rows that were sent.
LEMMA NextStage ==
    ASSUME RowTypes, RowsInOrder, PageInv, Overlay!Stage
    PROVE  RowTypes' /\ RowsInOrder' /\ PageInv'
<1>1. /\ PageTypes /\ PageAndStream /\ Ladder
      /\ DoneIsRecorded /\ ErrorIsFailure /\ ComingIsNew /\ Passed
  BY DEF PageInv
<1> DEFINE x == Overlay!First(stream.frames)
           skip == Overlay!Ended \/ (overlay.follows # None /\ rows[x].flow # overlay.follows)
<1>2. /\ stream.frames # {} /\ stream' = [stream EXCEPT !.frames = @ \ {x}]
      /\ UNCHANGED <<rows, flow, timely>>
      /\ IF skip
         THEN UNCHANGED <<overlay, nodes>>
         ELSE /\ overlay' = [overlay EXCEPT !.follows = rows[x].flow]
              /\ nodes' = IF rows[x].event # 0
                          THEN Overlay!Stepped(Overlay!Rule(rows[x].event)[1], Overlay!Rule(rows[x].event)[2])
                          ELSE Overlay!Stepped(IF Overlay!Actives = {} THEN Overlay!Asset
                                               ELSE Overlay!First(Overlay!Actives), "error")
  BY Zenon DEF Overlay!Stage
<1>3. x \in stream.frames /\ \A y \in stream.frames : x <= y
  BY <1>1, <1>2, PageFacts, TheFirst
<1>4. stream.phase = "live" /\ overlay.phase = "uploading"
  BY <1>1, <1>2, PageFacts DEF PageAndStream, Overlay!Phases
<1> HIDE DEF x
<1>5. /\ x \in Ids1 /\ x \in Coming /\ rows[x].flow \in Flows /\ rows[x].flow # None
      /\ rows[x].event \in 0..8 /\ rows[x].committed
  <2>1. x \in Ids1 /\ x \in Coming
    BY <1>1, <1>3, <1>4, PageFacts DEF Coming
  <2>2. rows[x].committed
    BY <1>1, <1>3 DEF PageTypes, Overlay!Committed
  <2>3. QED
    BY <2>1, <2>2, RowFacts, OverlayAssumption
<1>6. CASE skip
  <2>1. /\ stream' = [phase |-> "live", cursor |-> stream.cursor, frames |-> stream.frames \ {x}]
        /\ UNCHANGED <<overlay, nodes>>
    BY <1>1, <1>2, <1>4, <1>6 DEF PageTypes, StreamRecord
  <2>2. overlay.follows \in Flows /\ overlay.follows # rows[x].flow
    BY <1>1, <1>4, <1>6, PageFacts DEF Overlay!Ended
  <2>3. RowTypes' /\ RowsInOrder'
    BY <1>2 DEF RowTypes, RowsInOrder, Ids1
  <2>4. PageTypes'
    BY <1>1, <1>2, <2>1, PageFacts DEF PageTypes, Overlay!Committed, StreamRecord
  <2>5. PageAndStream'
    BY <1>1, <1>2, <1>4, <2>1 DEF PageAndStream
  <2>6. Ladder' /\ DoneIsRecorded' /\ ErrorIsFailure'
    BY <1>1, <1>2, <2>1 DEF Ladder, DoneIsRecorded, ErrorIsFailure
  <2>7. Coming' \subseteq Coming
    BY <1>2, <1>4, <2>1 DEF Coming, Ids1
  <2>8. ComingIsNew'
    BY <1>1, <1>2, <2>1, <2>7 DEF ComingIsNew
  <2>9. ~ Overlay!Alone
    <3>1. flow[rows[x].flow].state # "waiting" /\ flow[overlay.follows].state # "waiting"
      BY <1>1, <1>5, <2>2, OverlayAssumption DEF RowsInOrder, PageAndStream
    <3>2. QED
      BY <1>5, <2>2, <3>1 DEF Overlay!Alone
  <2>10. Overlay!Alone' = Overlay!Alone
    BY <1>2 DEF Overlay!Alone
  <2>11. Passed'
    BY <2>9, <2>10 DEF Passed
  <2>12. QED
    BY <2>3, <2>4, <2>5, <2>6, <2>8, <2>11 DEF PageInv
<1>7. CASE ~ skip
  <2>1. overlay.follows \in {None, rows[x].flow}
        /\ overlay' = [overlay EXCEPT !.follows = rows[x].flow]
    BY <1>2, <1>7
  <2>2. \A j \in Overlay!Steps : nodes[j] # "error"
    BY <1>1, <1>4, <1>5, <2>1 DEF ErrorIsFailure, ComingIsNew
  <2>3. CASE rows[x].event # 0
    <3> DEFINE k == Overlay!Rule(rows[x].event)[1]
               s == Overlay!Rule(rows[x].event)[2]
    <3>1. k \in 4..9 /\ s \in {"active", "done"} /\ k \in Overlay!Steps
      BY <1>5, <2>3, RuleFacts DEF Overlay!Steps
    <3>2. nodes' = Overlay!Stepped(k, s)
      BY <1>2, <1>7, <2>3
    <3> HIDE DEF k, s
    <3>3. \A j \in Overlay!Steps : j >= k => j \in 4..9
      BY <3>1 DEF Overlay!Steps
    <3>4. \A j \in Overlay!Steps : j >= k => nodes[j] # "done"
      <4>1. CASE overlay.follows = None
        BY <1>1, <1>4, <3>3, <4>1 DEF DoneIsRecorded
      <4>2. CASE overlay.follows = rows[x].flow
        BY <1>1, <1>4, <1>5, <2>3, <3>3, <4>2 DEF ComingIsNew, k
      <4>3. QED
        BY <2>1, <4>1, <4>2
    <3>5. k = Overlay!Rule(rows[x].event)[1] /\ s = Overlay!Rule(rows[x].event)[2]
      BY DEF k, s
    <3>6. QED
      BY <1>2, <1>3, <1>4, <2>1, <2>2, <2>3, <3>1, <3>2, <3>4, <3>5, Shown
  <2>4. CASE rows[x].event = 0
    \* Some step is running: not all are done, and none is marked.
    <3>1. nodes[9] # "done"
      <4>1. CASE overlay.follows = None
        BY <1>1, <1>4, <4>1 DEF DoneIsRecorded
      <4>2. CASE overlay.follows = rows[x].flow
        <5>1. flow[rows[x].flow].recorded \in {2, 4, 5, 6}
          BY <1>5, <2>4 DEF RowsInOrder, Overlay!FailsAfter
        <5>2. 9 \in 4..9 /\ Overlay!EventOf[9 - 3] = 8
          BY DEF Overlay!EventOf
        <5>3. ~ (flow[rows[x].flow].recorded >= Overlay!EventOf[9 - 3])
          BY <5>1, <5>2
        <5>4. QED
          BY <1>1, <1>4, <4>2, <5>2, <5>3 DEF DoneIsRecorded
      <4>3. QED
        BY <2>1, <4>1, <4>2
    <3> DEFINE open == {j \in Overlay!Steps : nodes[j] # "done"}
               a == Overlay!First(open)
    <3>2. open \in SUBSET Nat /\ open # {}
      BY <3>1 DEF Overlay!Steps
    <3>3. a \in open /\ \A j \in open : a <= j
      BY <3>2, TheFirst
    <3> HIDE DEF a
    <3>4. a \in Overlay!Steps /\ a \in 1..9 /\ nodes[a] # "done"
      BY <3>3 DEF Overlay!Steps
    <3>5. nodes[a] # "pending"
      <4> SUFFICES ASSUME nodes[a] = "pending" PROVE FALSE
        OBVIOUS
      <4>1. a > 1 /\ nodes[a - 1] # "done"
        BY <1>1, <1>4, <3>4 DEF Ladder
      <4>2. a - 1 \in Overlay!Steps /\ ~ (a <= a - 1)
        BY <3>4, <4>1 DEF Overlay!Steps
      <4>3. QED
        BY <3>3, <4>1, <4>2
    <3>6. nodes[a] = "active"
      BY <1>1, <2>2, <3>4, <3>5, PageFacts
    <3>7. Overlay!Actives # {}
      BY <3>4, <3>6 DEF Overlay!Actives
    <3> DEFINE k == Overlay!First(Overlay!Actives)
    <3>8. /\ k \in Overlay!Steps /\ k \in Nat /\ nodes[k] = "active"
          /\ \A j \in Overlay!Steps : j > k => nodes[j] = "pending"
      BY <1>4, <3>7, TheActive
    <3>9. nodes' = Overlay!Stepped(k, "error")
      BY <1>2, <1>7, <2>4, <3>7
    <3> HIDE DEF k, open
    <3>10. \A j \in Overlay!Steps : j >= k => nodes[j] # "done"
      <4>1. \A j \in Overlay!Steps : j >= k => j = k \/ j > k
        BY <3>8 DEF Overlay!Steps
      <4>2. QED
        BY <3>8, <4>1
    <3>11. QED
      BY <1>2, <1>3, <1>4, <2>1, <2>2, <2>4, <3>8, <3>9, <3>10, Shown
  <2>5. QED
    BY <2>3, <2>4
<1>8. QED
  BY <1>6, <1>7

----------------------------------------------------------------------------
OverlayInv == RowTypes /\ RowsInOrder /\ PageInv

\* The invariant of the overlay holds at first,
LEMMA OverlayBegins ==
    ASSUME Overlay!Init
    PROVE  OverlayInv
<1>1. /\ rows = <<>> /\ Len(rows) = 0 /\ Ids1 = {} /\ Overlay!Committed = {}
      /\ flow = [f \in Flows |-> [state |-> "waiting", recorded |-> 0, writing |-> 0]]
      /\ stream = [phase |-> "off", cursor |-> 0, frames |-> {}]
      /\ overlay = [phase |-> "preparing", follows |-> None]
      /\ nodes = [k \in Overlay!Steps |-> IF k = Overlay!Wallet THEN "active" ELSE "pending"]
      /\ timely = FALSE
  BY DEF Overlay!Init, Overlay!Off, Ids1, Overlay!Committed
<1>2. RowTypes
  BY <1>1 DEF RowTypes, FlowRecord
<1>3. \A f \in Flows : flow[f].state = "waiting" /\ flow[f].recorded = 0 /\ flow[f].writing = 0
  BY <1>1
<1>4. RowsInOrder
  BY <1>1, <1>3 DEF RowsInOrder
<1>5. PageTypes
  <2>1. stream \in StreamRecord /\ stream.cursor <= Len(rows)
        /\ stream.frames \subseteq Overlay!Committed
    BY <1>1 DEF StreamRecord
  <2>2. QED
    BY <1>1, <2>1 DEF PageTypes, Overlay!Phases
<1>6. PageAndStream
  BY <1>1, <1>3, OverlayAssumption DEF PageAndStream
<1>7. nodes[1] = "active" /\ \A k \in Overlay!Steps : k # 1 => nodes[k] = "pending"
  BY <1>1 DEF Overlay!Steps, Overlay!Wallet
<1>8. Ladder
  <2>1. \A i, j \in Overlay!Steps : i < j /\ nodes[j] # "pending" => nodes[i] = "done"
    BY <1>7 DEF Overlay!Steps
  <2>2. \A i \in Overlay!Steps : nodes[i] = "pending" => i > 1 /\ nodes[i - 1] # "done"
    <3> SUFFICES ASSUME NEW i \in Overlay!Steps, nodes[i] = "pending"
                 PROVE  i > 1 /\ nodes[i - 1] # "done"
      OBVIOUS
    <3>1. i \in 1..9 /\ i # 1
      BY <1>7 DEF Overlay!Steps
    <3>2. i - 1 \in Overlay!Steps
      BY <3>1 DEF Overlay!Steps
    <3>3. QED
      BY <1>7, <3>1, <3>2
  <2>3. QED
    BY <1>1, <1>7, <2>1, <2>2 DEF Ladder
<1>9. DoneIsRecorded
  <2>1. \A k \in 4..9 : k \in Overlay!Steps /\ k # 1
    BY DEF Overlay!Steps
  <2>2. QED
    BY <1>7, <2>1 DEF DoneIsRecorded
<1>10. ErrorIsFailure /\ ComingIsNew /\ Passed
  BY <1>1 DEF ErrorIsFailure, ComingIsNew, Passed
<1>11. QED
  BY <1>2, <1>4, <1>5, <1>6, <1>8, <1>9, <1>10 DEF OverlayInv, PageInv

\* every step of the overlay keeps it,
LEMMA OverlayGoesOn ==
    ASSUME OverlayInv, Overlay!Next
    PROVE  OverlayInv'
<1>1. RowTypes /\ RowsInOrder /\ PageInv
  BY DEF OverlayInv
<1>2. ASSUME NEW f \in Flows, Overlay!Begin(f) \/ Overlay!Server(f)
      PROVE  OverlayInv'
  <2>1. UNCHANGED <<stream, overlay, nodes, timely>>
    BY <1>2, Zenon
    DEF Overlay!Begin, Overlay!Server, Overlay!Record, Overlay!Commit, Overlay!Abort
  <2>2. RowTypes' /\ RowsInOrder' /\ Grows
    BY <1>1, <1>2, NextBegin, NextRecord, NextCommit, NextAbort, Zenon DEF Overlay!Server
  <2>3. QED
    BY <1>1, <2>1, <2>2, PageKeeps DEF OverlayInv
<1>3. CASE Overlay!Page \/ Overlay!Refused
  BY <1>1, <1>3, NextPrepare, NextTimeout, NextFinish, NextRefused
  DEF Overlay!Page, OverlayInv
<1>4. CASE Overlay!Accept \/ Overlay!Ready \/ Overlay!Poll \/ Overlay!Stage \/ Overlay!Break \/ Overlay!Expire
  BY <1>1, <1>4, NextAccept, NextReady, NextPoll, NextStage, NextBreak, NextExpire
  DEF OverlayInv
<1>5. QED
  BY <1>2, <1>3, <1>4 DEF Overlay!Next

\* and so do the steps of the other parts.
LEMMA OverlayKeeps ==
    ASSUME OverlayInv, UNCHANGED overlayVars
    PROVE  OverlayInv'
<1>1. UNCHANGED <<rows, flow, stream, overlay, nodes, timely>>
  BY DEF overlayVars
<1>2. (RowTypes /\ RowsInOrder)'
  BY <1>1 DEF OverlayInv, RowTypes, RowsInOrder, Ids1
<1>3. Coming' = Coming /\ Overlay!Committed' = Overlay!Committed
      /\ Overlay!Alone' = Overlay!Alone
  BY <1>1 DEF Coming, Ids1, Overlay!Committed, Overlay!Alone
<1>4. PageTypes' /\ PageAndStream' /\ Ladder'
  BY <1>1, <1>3 DEF OverlayInv, PageInv, PageTypes, PageAndStream, Ladder
<1>5. DoneIsRecorded' /\ ErrorIsFailure' /\ ComingIsNew' /\ Passed'
  BY <1>1, <1>3 DEF OverlayInv, PageInv, DoneIsRecorded, ErrorIsFailure, ComingIsNew, Passed
<1>6. QED
  BY <1>2, <1>4, <1>5 DEF OverlayInv, PageInv

\* The invariant of the part.
LEMMA OverlayIsSound == SiteSpec => []OverlayInv
<1>1. SiteInit => OverlayInv
  BY OverlayBegins DEF SiteInit
<1>2. OverlayInv /\ [SiteNext]_siteVars => OverlayInv'
  <2> SUFFICES ASSUME OverlayInv, [SiteNext]_siteVars PROVE OverlayInv'
    OBVIOUS
  <2>1. Overlay!Next \/ UNCHANGED overlayVars
    BY Zenon DEF SiteNext, siteVars
  <2>2. QED
    BY <2>1, OverlayGoesOn, OverlayKeeps
<1>3. QED
  BY <1>1, <1>2, PTL DEF SiteSpec

\* RegistrationFeed: when the page has waited for its stream and the owner registers
\* nothing else meanwhile, no event of its registration is passed over: everything below
\* the cursor of the stream that has come is shown.
THEOREM TheStreamIsComplete == SiteSpec => []NothingPassedOver
<1>1. OverlayInv => NothingPassedOver
  BY DEF OverlayInv, PageInv, Passed, NothingPassedOver, Overlay!NothingPassedOver
<1>2. QED
  BY <1>1, OverlayIsSound, PTL

\* RegistrationFeed: the overlay never says of a step that it is done before the
\* registration it follows, or its own, has got there.
THEOREM DoneWasDone == SiteSpec => []ShownIsDone
<1>1. OverlayInv => ShownIsDone
  <2> SUFFICES ASSUME OverlayInv, NEW k \in Overlay!Steps, nodes[k] = "done",
                      k > Overlay!Confirm
               PROVE  \E f \in {Mine, overlay.follows} \ {None} :
                         flow[f].recorded >= Overlay!EventOf[k - Overlay!Confirm]
    BY DEF ShownIsDone, Overlay!ShownIsDone
  <2>1. k \in 4..9 /\ Overlay!Confirm = 3
    BY DEF Overlay!Steps, Overlay!Confirm
  <2>2. CASE overlay.phase # "finished"
    BY <2>1, <2>2 DEF OverlayInv, PageInv, DoneIsRecorded
  <2>3. CASE overlay.phase = "finished"
    <3>1. flow[Mine].recorded = 8 /\ Mine # None
      BY <2>3, OverlayAssumption DEF OverlayInv, PageInv, PageAndStream
    <3>2. Overlay!EventOf[k - 3] \in 2..8
      BY <2>1 DEF Overlay!EventOf
    <3>3. QED
      BY <2>1, <3>1, <3>2
  <2>4. QED
    BY <2>2, <2>3
<1>2. QED
  BY <1>1, OverlayIsSound, PTL

----------------------------------------------------------------------------
(***************************************************************************)
(* The event feeds.  Every answer to a poll holds, with an event, all that *)
(* was committed in order before it.                                       *)
(***************************************************************************)
Due(t) == {e \in committed \ late : e <= t}

FeedInv ==
    /\ stamped \in 0..LastEvent
    /\ committed \subseteq 1..stamped
    /\ since = 0 \/ since \in committed
    /\ \A S \in answers : /\ S \subseteq committed
                          /\ \A f \in S : Due(f) \subseteq polled \cup S
    /\ Due(since) \subseteq polled

\* Every step of the feeds keeps what the polling page has.
LEMMA NextFeed == FeedInv /\ [Feeds!FeedsNext]_feedVars => FeedInv'
<1> SUFFICES ASSUME FeedInv, [Feeds!FeedsNext]_feedVars PROVE FeedInv'
  OBVIOUS
<1> USE FeedsAssumption
<1>0. /\ \A e \in committed : e \in Nat /\ e <= LastEvent
      /\ since \in Nat
      /\ \A S \in answers : S \subseteq committed /\ \A f \in S : Due(f) \subseteq polled \cup S
      /\ Due(since) \subseteq polled /\ (since = 0 \/ since \in committed)
  <2>1. stamped \in 0..LastEvent /\ committed \subseteq 1..stamped
    BY DEF FeedInv
  <2>2. \A e \in committed : e \in Nat /\ e <= LastEvent
    BY <2>1
  <2>3. since = 0 \/ since \in committed
    BY DEF FeedInv
  <2>4. since \in Nat
    BY <2>2, <2>3
  <2>5. QED
    BY <2>2, <2>3, <2>4, Zenon DEF FeedInv
<1>1. CASE Feeds!Stamp
  <2>1. stamped \in Nat /\ stamped' \in 0..LastEvent /\ stamped' = stamped + 1
        /\ committed \subseteq 1..stamped
    BY <1>1 DEF Feeds!Stamp, FeedInv
  <2>2. committed \subseteq 1..stamped'
    BY <2>1
  <2>3. UNCHANGED <<committed, late, since, polled, answers>>
    BY <1>1 DEF Feeds!Stamp, Feeds!pollVars
  <2>4. QED
    BY <2>1, <2>2, <2>3 DEF FeedInv, Due
<1>2. ASSUME NEW e \in Feeds!Recorded, Feeds!CommitRow(e) PROVE FeedInv'
  <2>1. /\ e \in (1..stamped) \ committed
        /\ committed' = committed \cup {e}
        /\ late' = IF \E f \in committed : f > e THEN late \cup {e} ELSE late
        /\ UNCHANGED <<stamped, since, polled, answers>>
    BY <1>2 DEF Feeds!CommitRow, Feeds!pollVars
  <2>2. \A f \in committed : e < f => e \in late'
    BY <2>1
  <2>3. ASSUME NEW t \in committed \cup {0} PROVE Due(t)' \subseteq Due(t)
    <3> SUFFICES ASSUME NEW x \in committed', x \notin late', x <= t
                 PROVE  x \in committed /\ x \notin late
      BY <2>1 DEF Due
    <3>1. x # e
      <4>1. t \in Nat /\ e \in Nat /\ 1 <= e /\ e # t
        BY <1>0, <2>1 DEF FeedInv
      <4>2. x = e => e < t /\ t \in committed
        BY <4>1
      <4>3. QED
        BY <2>2, <4>2
    <3>2. QED
      BY <2>1, <3>1
  <2>4. Due(since)' = {x \in committed' \ late' : x <= since}
    BY <2>1 DEF Due
  <2>5. stamped' \in 0..LastEvent /\ committed' \subseteq 1..stamped'
    BY <2>1 DEF FeedInv
  <2>6. Due(since)' \subseteq polled'
    BY <1>0, <2>1, <2>3
  <2>7. \A S \in answers' : S \subseteq committed' /\ \A f \in S : Due(f)' \subseteq polled' \cup S
    BY <1>0, <2>1, <2>3
  <2>8. QED
    BY <1>0, <2>1, <2>5, <2>6, <2>7 DEF FeedInv, Due
<1>3. ASSUME NEW e \in Feeds!Recorded, Feeds!Mirror(e) PROVE FeedInv'
  BY <1>3 DEF Feeds!Mirror, Feeds!pollVars, FeedInv, Due
<1>4. CASE Feeds!Tick
  <2> DEFINE T == {e \in committed : e > since}
  <2>1. /\ answers' = answers \cup {T}
        /\ UNCHANGED <<stamped, committed, late, since, polled>>
    BY <1>4 DEF Feeds!Tick, Feeds!Younger, Feeds!writerVars
  <2>2. ASSUME NEW f \in T PROVE Due(f) \subseteq polled \cup T
    <3> SUFFICES ASSUME NEW e \in committed, e \notin late PROVE e \in polled \cup T
      BY DEF Due
    <3>1. e <= since \/ e > since
      BY <1>0
    <3>2. e <= since => e \in Due(since)
      BY DEF Due
    <3>3. QED
      BY <1>0, <3>1, <3>2
  <2>3. T \subseteq committed
    OBVIOUS
  <2> HIDE DEF T
  <2>4. \A f : Due(f)' = Due(f)
    BY <2>1 DEF Due
  <2>5. Due(since)' \subseteq polled'
    BY <1>0, <2>1 DEF Due
  <2>6. \A R \in answers' : R \subseteq committed' /\ \A f \in R : Due(f)' \subseteq polled' \cup R
    BY <1>0, <2>1, <2>2, <2>3, <2>4
  <2>7. stamped' \in 0..LastEvent /\ committed' \subseteq 1..stamped' /\ (since' = 0 \/ since' \in committed')
    BY <2>1 DEF FeedInv
  <2>8. QED
    BY <2>5, <2>6, <2>7 DEF FeedInv
<1>5. CASE Feeds!Ingest
  <2>1. PICK S \in answers :
            /\ answers' = answers \ {S} /\ polled' = polled \cup S
            /\ since' = Feeds!Cursor(S)
            /\ UNCHANGED <<stamped, committed, late>>
    BY <1>5 DEF Feeds!Ingest, Feeds!writerVars
  <2>2. since' = since \/ since' \in S
    <3>1. CASE S = {}
      BY <2>1, <3>1 DEF Feeds!Cursor
    <3>2. CASE S # {}
      <4>1. S \in SUBSET (0..LastEvent)
        BY <1>0
      <4>2. \E w \in S : \A v \in S : v <= w
        BY <3>2, <4>1, Greatest
      <4>3. Feeds!Youngest(S) \in S
        BY <4>2 DEF Feeds!Youngest
      <4>4. QED
        BY <2>1, <3>2, <4>3 DEF Feeds!Cursor
    <3>3. QED
      BY <3>1, <3>2
  <2>3. Due(since') \subseteq polled' /\ (since' = 0 \/ since' \in committed)
    BY <1>0, <2>1, <2>2
  <2>4. \A R \in answers' : R \subseteq committed /\ \A f \in R : Due(f) \subseteq polled' \cup R
    BY <1>0, <2>1
  <2>5. Due(since)' = Due(since') /\ \A f : Due(f)' = Due(f)
    BY <2>1 DEF Due
  <2>6. Due(since)' \subseteq polled'
    BY <2>3, <2>5
  <2>7. \A R \in answers' : R \subseteq committed' /\ \A f \in R : Due(f)' \subseteq polled' \cup R
    BY <2>1, <2>4, <2>5
  <2>8. stamped' \in 0..LastEvent /\ committed' \subseteq 1..stamped' /\ (since' = 0 \/ since' \in committed')
    BY <2>1, <2>3 DEF FeedInv
  <2>9. QED
    BY <2>6, <2>7, <2>8 DEF FeedInv
<1>6. CASE Feeds!Snapshot \/ Feeds!Stream \/ Feeds!Break \/ UNCHANGED feedVars
  <2>1. UNCHANGED <<stamped, committed, late, since, polled, answers>>
    BY <1>6
    DEF Feeds!Snapshot, Feeds!Stream, Feeds!Watch, Feeds!Notify, Feeds!Deliver,
        Feeds!Refresh,
                Feeds!Break, Feeds!Closed, Feeds!writerVars, Feeds!pollVars, feedVars
  <2>2. QED
    BY <2>1 DEF FeedInv, Due
<1>7. QED
  BY <1>1, <1>2, <1>3, <1>4, <1>5, <1>6 DEF Feeds!FeedsNext

\* A polling page has every event below its cursor, but those committed out of order.
THEOREM PollingMissesNothing == SiteSpec => []NoneBelowCursor
<1>1. SiteInit => FeedInv
  BY FeedsAssumption DEF SiteInit, Feeds!FeedsInit, FeedInv, Due
<1>2. FeedInv /\ [SiteNext]_siteVars => FeedInv'
  BY NextFeed DEF SiteNext, siteVars
<1>3. FeedInv => NoneBelowCursor
  BY FeedsAssumption DEF FeedInv, Due, NoneBelowCursor, Feeds!NoneBelowCursor
<1>4. QED
  BY <1>1, <1>2, <1>3, PTL DEF SiteSpec

----------------------------------------------------------------------------
(***************************************************************************)
(* The wallets of an account.  With one worker, a half-done activation is  *)
(* only its own, and its steps are named by Under.                         *)
(***************************************************************************)
\* What the proofs use of the constants of the wallets.
LEMMA AccountsFacts ==
    /\ \E n \in Nat : Ids \subseteq 0..n
    /\ None \notin Accounts!Wallet /\ None \notin Ids /\ None \notin Addresses
    /\ IsFiniteSet(Clerks)
BY AccountsAssumption

\* Of the wallets of an account there is always a latest one.
LEMMA LatestRow ==
    ASSUME NEW S \in SUBSET Ids, S # {}
    PROVE  /\ Accounts!Latest(S) \in S
           /\ \A w \in S : S = {w} => Accounts!Latest(S) = w
<1>1. PICK n \in Nat : Ids \subseteq 0..n
  BY AccountsFacts
<1>2. \E w \in S : \A v \in S : v <= w
  BY <1>1, Greatest
<1>3. QED
  BY <1>2 DEF Accounts!Latest

\* The wallet that is shown signs, unless a page or a death has parted the two.
InStep ==
    ~drifted => /\ Accounts!Rows # {} => Accounts!Active # {}
                /\ shown = Accounts!Signer

\* What the one worker that runs, k, has done of an activation.
Under(t) ==
    \/ t = Accounts!Idle /\ InStep
    \/ t.at = "creating" /\ Accounts!Rows = {} /\ InStep
    \/ t.at = "clearing" /\ t.id \in Accounts!Rows /\ wallets[t.id].address = t.address /\ InStep
    \/ /\ t.at = "setting"
       /\ Accounts!Active = {}
       /\ t.id \in Accounts!Rows /\ wallets[t.id].address = t.address
    \/ /\ t.at = "showing"
       /\ Accounts!Active = {t.id}
       /\ wallets[t.id].address = t.address

OneClerk(k) ==
    /\ \A r \in Clerks \ {k} : task[r] = Accounts!Idle
    /\ \A v, w \in Accounts!Active : v = w
    /\ Under(task[k])

AccountsTypes ==
    /\ workers \subseteq Clerks
    /\ wallets \in [Ids -> Accounts!Wallet \cup {None}]
    /\ task \in [Clerks -> Accounts!Task]
    /\ \A r \in Clerks : task[r].at = "creating" => task[r].address \in Addresses
    /\ drifted \in BOOLEAN

AccountsInv ==
    /\ AccountsTypes
    /\ \A k \in Clerks : workers = {k} => OneClerk(k)

\* Active wallets are rows, and of one active wallet the address is the signer.
SignerFacts ==
    /\ Accounts!Rows \subseteq Ids /\ Accounts!Active \subseteq Accounts!Rows
    /\ \A w \in Ids : Accounts!Active = {w} => Accounts!Signer = wallets[w].address
    /\ Accounts!Active = {} => Accounts!Signer = None

\* The facts about the signer hold in every state.
LEMMA TheOneSigns == SignerFacts
<1>1. Accounts!Rows \subseteq Ids /\ Accounts!Active \subseteq Accounts!Rows
  BY DEF Accounts!Rows, Accounts!Active
<1>2. ASSUME NEW w \in Ids, Accounts!Active = {w} PROVE Accounts!Signer = wallets[w].address
  <2>1. Accounts!Latest(Accounts!Active) = w
    BY <1>1, <1>2, LatestRow
  <2>2. QED
    BY <1>2, <2>1 DEF Accounts!Signer
<1>3. Accounts!Active = {} => Accounts!Signer = None
  BY DEF Accounts!Signer
<1>4. QED
  BY <1>1, <1>2, <1>3 DEF SignerFacts

\* Who takes the place of a wallet that is deleted: the latest of the others.
LEMMA Deleted ==
    ASSUME NEW r \in Clerks, NEW w \in Ids, Accounts!DeleteWallet(r, w)
    PROVE  \E heir \in SUBSET (Accounts!Rows \ {w}) :
              /\ wallets' = [v \in Ids |-> IF v = w THEN None
                                           ELSE IF v \in heir THEN [wallets[v] EXCEPT !.active = TRUE]
                                           ELSE wallets[v]]
              /\ ~wallets[w].active => heir = {} /\ shown' = shown
              /\ wallets[w].active => \/ heir = {} /\ Accounts!Rows = {w} /\ shown' = None
                                      \/ \E h \in Ids : heir = {h} /\ shown' = wallets[h].address
<1> DEFINE S == Accounts!Rows \ {w}
           heir == IF wallets[w].active THEN Accounts!Heir(S) ELSE {}
<1>1. S \in SUBSET Ids /\ w \in Accounts!Rows
  BY DEF Accounts!Rows, Accounts!DeleteWallet
<1>2. /\ wallets' = [v \in Ids |-> IF v = w THEN None
                                   ELSE IF v \in heir THEN [wallets[v] EXCEPT !.active = TRUE]
                                   ELSE wallets[v]]
      /\ shown' = IF ~wallets[w].active THEN shown
                  ELSE IF heir = {} THEN None ELSE wallets[Accounts!Latest(heir)].address
  BY DEF Accounts!DeleteWallet
<1>3. CASE ~wallets[w].active
  BY <1>2, <1>3
<1>4. CASE wallets[w].active /\ S = {}
  <2>1. heir = {}
    BY <1>4 DEF Accounts!Heir
  <2>2. QED
    BY <1>1, <1>2, <1>4, <2>1
<1>5. CASE wallets[w].active /\ S # {}
  <2> DEFINE h == Accounts!Latest(S)
  <2>1. heir = {h} /\ h \in S
    BY <1>1, <1>5, LatestRow DEF Accounts!Heir
  <2>2. Accounts!Latest({h}) = h
    BY <1>1, <2>1, LatestRow
  <2>6. heir \in SUBSET (Accounts!Rows \ {w})
    BY <2>1
  <2> HIDE DEF h, heir, S
  <2>3. shown' = wallets[h].address
    BY <1>2, <1>5, <2>1, <2>2
  <2>4. h \in Ids
    BY <1>1, <2>1
  <2>5. QED
    BY <1>2, <1>5, <2>1, <2>3, <2>4, <2>6
<1>6. QED
  BY <1>3, <1>4, <1>5

\* The types of the wallets are kept.
LEMMA NextAccountsTypes == AccountsTypes /\ [Accounts!WalletsNext]_accountVars => AccountsTypes'
<1> SUFFICES ASSUME AccountsTypes, [Accounts!WalletsNext]_accountVars PROVE AccountsTypes'
  OBVIOUS
<1> USE AccountsFacts DEF AccountsTypes
<1>0. Accounts!Idle \in Accounts!Task
  BY DEF Accounts!Idle, Accounts!Task
<1>1. ASSUME NEW r \in Clerks, Accounts!Done(r)
      PROVE  /\ task' \in [Clerks -> Accounts!Task]
             /\ \A q \in Clerks : task'[q].at = "creating" => task'[q].address \in Addresses
  BY <1>0, <1>1 DEF Accounts!Done, Accounts!Idle
<1>2. ASSUME NEW r \in Clerks, NEW a \in Addresses, Accounts!EditWallet(r, a)
      PROVE  AccountsTypes'
  BY <1>2 DEF Accounts!EditWallet, Accounts!Wallet
<1>3. ASSUME NEW r \in Clerks, NEW a \in Addresses, Accounts!FindNone(r, a)
      PROVE  AccountsTypes'
  BY <1>3 DEF Accounts!FindNone, Accounts!Idle, Accounts!Task
<1>4. ASSUME NEW r \in Clerks, Accounts!CreateWallet(r) PROVE AccountsTypes'
  <2> DEFINE row == [address |-> task[r].address, active |-> TRUE]
  <2>1. CASE Accounts!Taken(task[r].address)
    BY <1>1, <1>4, <2>1 DEF Accounts!CreateWallet
  <2>2. CASE ~Accounts!Taken(task[r].address)
    <3>1. wallets' = [wallets EXCEPT ![lastId'] = row]
      BY <1>4, <2>2 DEF Accounts!CreateWallet
    <3>2. row \in Accounts!Wallet
      BY <1>4 DEF Accounts!CreateWallet, Accounts!Wallet, Accounts!Task
    <3> HIDE DEF row
    <3>3. wallets' \in [Ids -> Accounts!Wallet \cup {None}]
      BY <3>1, <3>2
    <3>4. QED
      BY <1>1, <1>4, <3>3 DEF Accounts!CreateWallet
  <2>3. QED
    BY <2>1, <2>2
<1>5. ASSUME NEW r \in Clerks, NEW w \in Ids, Accounts!ReadWallet(r, w) PROVE AccountsTypes'
  BY <1>5 DEF Accounts!ReadWallet, Accounts!Rows, Accounts!Wallet, Accounts!Task
<1>6. ASSUME NEW r \in Clerks, Accounts!ClearActive(r) PROVE AccountsTypes'
  BY <1>6
  DEF Accounts!ClearActive, Accounts!Cleared, Accounts!Rows, Accounts!Wallet, Accounts!Task
<1>7. ASSUME NEW r \in Clerks, Accounts!SetActive(r) PROVE AccountsTypes'
  <2>1. CASE task[r].id \in Accounts!Rows
    <3> DEFINE row == [wallets[task[r].id] EXCEPT !.active = TRUE]
               t == [task[r] EXCEPT !.at = "showing"]
    <3>1. wallets' = [wallets EXCEPT ![task[r].id] = row] /\ task' = [task EXCEPT ![r] = t]
      BY <1>7, <2>1 DEF Accounts!SetActive
    <3>2. row \in Accounts!Wallet /\ t \in Accounts!Task /\ t.at = "showing"
      BY <2>1 DEF Accounts!Rows, Accounts!Wallet, Accounts!Task
    <3> HIDE DEF row, t
    <3>3. QED
      BY <1>7, <3>1, <3>2 DEF Accounts!SetActive
  <2>2. CASE task[r].id \notin Accounts!Rows
    BY <1>1, <1>7, <2>2 DEF Accounts!SetActive
  <2>3. QED
    BY <2>1, <2>2
<1>8. ASSUME NEW r \in Clerks, Accounts!ShowActive(r) PROVE AccountsTypes'
  BY <1>1, <1>8 DEF Accounts!ShowActive
<1>9. ASSUME NEW r \in Clerks, NEW w \in Ids, Accounts!DeleteWallet(r, w)
      PROVE  AccountsTypes'
  <2>1. PICK heir \in SUBSET (Accounts!Rows \ {w}) :
              /\ wallets' = [v \in Ids |-> IF v = w THEN None
                                           ELSE IF v \in heir THEN [wallets[v] EXCEPT !.active = TRUE]
                                           ELSE wallets[v]]
              /\ ~wallets[w].active => heir = {} /\ shown' = shown
              /\ wallets[w].active => \/ heir = {} /\ Accounts!Rows = {w} /\ shown' = None
                                      \/ \E h \in Ids : heir = {h} /\ shown' = wallets[h].address
    BY <1>9, Deleted
  <2>2. \A v \in heir : [wallets[v] EXCEPT !.active = TRUE] \in Accounts!Wallet
    BY <2>1 DEF Accounts!Rows, Accounts!Wallet
  <2>3. wallets' \in [Ids -> Accounts!Wallet \cup {None}]
    BY <2>1, <2>2
  <2>4. QED
    BY <1>9, <2>3 DEF Accounts!DeleteWallet
<1>10. ASSUME NEW r \in Clerks, NEW a, Accounts!SavePreferences(r, a) PROVE AccountsTypes'
  BY <1>10 DEF Accounts!SavePreferences
<1>11. ASSUME NEW r \in Clerks, Accounts!ClerkDies(r) PROVE AccountsTypes'
  BY <1>1, <1>11 DEF Accounts!ClerkDies
<1>12. CASE Accounts!LoadPage \/ UNCHANGED accountVars
  BY <1>12 DEF Accounts!LoadPage, accountVars
<1>13. QED
  BY <1>2, <1>3, <1>4, <1>5, <1>6, <1>7, <1>8, <1>9, <1>10, <1>11, <1>12
  DEF Accounts!WalletsNext

\* With one worker only that worker does something, and its steps are those of Under.
LEMMA NextOneClerk ==
    ASSUME AccountsTypes, [Accounts!WalletsNext]_accountVars,
           NEW k \in Clerks, workers = {k}, OneClerk(k)
    PROVE  OneClerk(k)'
<1> USE AccountsFacts DEF AccountsTypes
<1>1. AccountsTypes' /\ SignerFacts /\ SignerFacts'
  BY NextAccountsTypes, TheOneSigns, PTL
<1>2. Accounts!Idle.at = "idle"
  BY DEF Accounts!Idle
<1>3. \A r \in Clerks : Accounts!Vacant(r) => r = k /\ task[k] = Accounts!Idle /\ InStep
  BY <1>2 DEF Accounts!Vacant, OneClerk, Under
<1>4. ASSUME NEW t, NEW r \in Clerks, r = k, task' = [task EXCEPT ![r] = t]
      PROVE  task'[k] = t /\ \A q \in Clerks \ {k} : task'[q] = Accounts!Idle
  BY <1>4 DEF OneClerk
<1>7. Accounts!Active = {} \/ \E v \in Ids : Accounts!Active = {v} /\ Accounts!Latest(Accounts!Active) = v
  <2> SUFFICES ASSUME NEW v \in Accounts!Active
               PROVE  v \in Ids /\ Accounts!Active = {v} /\ Accounts!Latest(Accounts!Active) = v
    BY <1>1 DEF SignerFacts
  <2>1. Accounts!Active \in SUBSET Ids /\ v \in Ids
    BY <1>1, Zenon DEF SignerFacts
  <2>2. Accounts!Active = {v}
    BY Zenon DEF OneClerk
  <2>3. QED
    BY <2>1, <2>2, LatestRow
<1>5. ASSUME UNCHANGED wallets
      PROVE  Accounts!Rows' = Accounts!Rows /\ Accounts!Active' = Accounts!Active /\ Accounts!Signer' = Accounts!Signer
  BY <1>5 DEF Accounts!Rows, Accounts!Active, Accounts!Signer
<1>6. ASSUME UNCHANGED <<wallets, shown, drifted>> PROVE InStep' <=> InStep
  BY <1>5, <1>6 DEF InStep
<1>10. ASSUME NEW r \in Clerks, NEW a \in Addresses, Accounts!EditWallet(r, a)
       PROVE  OneClerk(k)'
  <2> DEFINE w == Accounts!FirstRow
             row == [address |-> a, active |-> wallets[w].active \/ Accounts!Active = {}]
  <2>1. r = k /\ task[k] = Accounts!Idle /\ Accounts!Rows # {}
    BY <1>3, <1>10 DEF Accounts!EditWallet
  <2>2. w \in Accounts!Rows
    BY <1>1, <2>1, LatestRow DEF Accounts!FirstRow, SignerFacts
  <2>3. Accounts!Active # {} => Accounts!Active = {w}
    BY <1>7 DEF Accounts!FirstRow
  <2>4. wallets' = [wallets EXCEPT ![w] = row] /\ shown' = a /\ UNCHANGED <<task, drifted>>
    BY <1>10, Zenon DEF Accounts!EditWallet
  <2>5. row.address = a /\ row # None /\ row.active
    <3>1. wallets[w] \in Accounts!Wallet
      BY <1>1, <2>2 DEF SignerFacts, Accounts!Rows
    <3>2. row \in Accounts!Wallet
      BY <3>1 DEF Accounts!Wallet
    <3>3. wallets[w].active \/ Accounts!Active = {}
      BY <2>3 DEF Accounts!Active
    <3>4. QED
      BY <3>2, <3>3
  <2> HIDE DEF row, w
  <2>6. wallets'[w] = row /\ \A v \in Ids \ {w} : wallets'[v] = wallets[v]
    BY <1>1, <2>2, <2>4 DEF SignerFacts
  <2>7. Accounts!Active' = {w}
    <3>1. w \in Accounts!Active'
      BY <1>1, <2>2, <2>5, <2>6 DEF Accounts!Active, Accounts!Rows
    <3>2. \A v \in Accounts!Active' \ {w} : v \in Accounts!Active
      BY <2>6 DEF Accounts!Active, Accounts!Rows
    <3>3. QED
      BY <2>3, <3>1, <3>2
  <2>8. InStep'
    BY <1>1, <2>2, <2>4, <2>5, <2>6, <2>7 DEF InStep, SignerFacts
  <2>9. QED
    BY <2>1, <2>4, <2>7, <2>8 DEF OneClerk, Under
<1>11. ASSUME NEW r \in Clerks, NEW a \in Addresses, Accounts!FindNone(r, a)
       PROVE  OneClerk(k)'
  <2> DEFINE t == [Accounts!Idle EXCEPT !.at = "creating", !.address = a]
  <2>1. t.at = "creating"
    BY DEF Accounts!Idle
  <2>2. r = k /\ InStep /\ Accounts!Rows = {} /\ task' = [task EXCEPT ![r] = t]
        /\ UNCHANGED <<wallets, shown, drifted>>
    BY <1>3, <1>11 DEF Accounts!FindNone
  <2> HIDE DEF t
  <2>3. QED
    BY <1>4, <1>5, <1>6, <2>1, <2>2 DEF OneClerk, Under
<1>12. ASSUME NEW r \in Clerks, Accounts!CreateWallet(r) PROVE OneClerk(k)'
  <2> DEFINE a == task[r].address
             row == [address |-> a, active |-> TRUE]
  <2>1. r = k /\ Accounts!Rows = {}
    BY <1>2, <1>12 DEF Accounts!CreateWallet, OneClerk, Under
  <2>2. lastId' \in Ids /\ wallets' = [wallets EXCEPT ![lastId'] = row] /\ shown' = a
    BY <1>12, <2>1 DEF Accounts!CreateWallet, Accounts!Taken
  <2>3. UNCHANGED drifted /\ task' = [task EXCEPT ![r] = Accounts!Idle]
    BY <1>12 DEF Accounts!CreateWallet, Accounts!Done
  <2>4. row.active /\ row.address = a /\ row # None
    <3>1. a \in Addresses
      BY <1>12 DEF Accounts!CreateWallet
    <3>2. row \in Accounts!Wallet
      BY <3>1 DEF Accounts!Wallet
    <3>3. QED
      BY <3>2
  <2> HIDE DEF row, a
  <2>5. wallets'[lastId'] = row /\ \A v \in Ids \ {lastId'} : wallets'[v] = None
    BY <2>1, <2>2 DEF Accounts!Rows
  <2>6. Accounts!Active' = {lastId'}
    BY <2>2, <2>4, <2>5 DEF Accounts!Active, Accounts!Rows
  <2>7. InStep'
    BY <1>1, <2>2, <2>4, <2>5, <2>6 DEF InStep, SignerFacts
  <2>8. QED
    BY <1>4, <2>1, <2>3, <2>6, <2>7 DEF OneClerk, Under
<1>13. ASSUME NEW r \in Clerks, NEW w \in Ids, Accounts!ReadWallet(r, w) PROVE OneClerk(k)'
  <2> DEFINE t == [at |-> "clearing", id |-> w, address |-> wallets[w].address]
  <2>1. r = k /\ InStep /\ w \in Accounts!Rows /\ task' = [task EXCEPT ![r] = t]
        /\ UNCHANGED <<wallets, shown, drifted>>
    BY <1>3, <1>13 DEF Accounts!ReadWallet
  <2>2. t.at = "clearing" /\ t.id = w /\ t.address = wallets[w].address
    OBVIOUS
  <2> HIDE DEF t
  <2>3. QED
    BY <1>4, <1>5, <1>6, <2>1, <2>2 DEF OneClerk, Under
<1>14. ASSUME NEW r \in Clerks, Accounts!ClearActive(r) PROVE OneClerk(k)'
  <2> DEFINE t == [task[r] EXCEPT !.at = "setting"]
  <2>1. r = k /\ task[k].id \in Accounts!Rows
        /\ wallets[task[k].id].address = task[k].address
    BY <1>2, <1>14 DEF Accounts!ClearActive, OneClerk, Under
  <2>2. t.at = "setting" /\ t.id = task[r].id /\ t.address = task[r].address
    BY DEF Accounts!Task
  <2>3. task' = [task EXCEPT ![r] = t] /\ wallets' = Accounts!Cleared
    BY <1>14 DEF Accounts!ClearActive
  <2> HIDE DEF t
  <2>4. \A v \in Ids : IF v \in Accounts!Rows
                       THEN ~wallets'[v].active
                       /\ wallets'[v].address = wallets[v].address /\ wallets'[v] # None
                       ELSE wallets'[v] = None
    BY <1>1, <2>3 DEF Accounts!Cleared, Accounts!Rows, Accounts!Wallet
  <2>5. Accounts!Active' = {} /\ Accounts!Rows' = Accounts!Rows
    BY <2>4 DEF Accounts!Active, Accounts!Rows
  <2>6. task'[k] = t /\ \A q \in Clerks \ {k} : task'[q] = Accounts!Idle
    BY <1>4, <2>1, <2>3
  <2>7. task[k].id \in Accounts!Rows' /\ wallets'[task[k].id].address = task[k].address
    BY <1>1, <2>1, <2>4, <2>5 DEF SignerFacts
  <2>8. QED
    BY <2>1, <2>2, <2>5, <2>6, <2>7 DEF OneClerk, Under
<1>15. ASSUME NEW r \in Clerks, Accounts!SetActive(r) PROVE OneClerk(k)'
  <2> DEFINE i == task[r].id
             t == [task[r] EXCEPT !.at = "showing"]
             row == [wallets[i] EXCEPT !.active = TRUE]
  <2>1. r = k /\ Accounts!Active = {} /\ i \in Accounts!Rows
        /\ wallets[i].address = task[k].address
    BY <1>2, <1>15 DEF Accounts!SetActive, OneClerk, Under
  <2>2. wallets' = [wallets EXCEPT ![i] = row] /\ task' = [task EXCEPT ![r] = t]
    BY <1>15, <2>1 DEF Accounts!SetActive
  <2>3. t.at = "showing" /\ t.id = i /\ t.address = task[r].address
    BY DEF Accounts!Task
  <2>4. row.active /\ row.address = wallets[i].address /\ row # None /\ i \in Ids
    BY <2>1, AccountsFacts DEF Accounts!Wallet, Accounts!Rows
  <2> HIDE DEF t, row, i
  <2>5. wallets'[i] = row /\ \A v \in Ids \ {i} : wallets'[v] = wallets[v]
    BY <2>2, <2>4
  <2>6. Accounts!Active' = {i}
    BY <2>1, <2>4, <2>5 DEF Accounts!Active, Accounts!Rows
  <2>7. QED
    BY <1>4, <2>1, <2>2, <2>3, <2>4, <2>5, <2>6 DEF OneClerk, Under
<1>16. ASSUME NEW r \in Clerks, Accounts!ShowActive(r) PROVE OneClerk(k)'
  <2>1. /\ r = k /\ Accounts!Active = {task[k].id} /\ shown' = wallets[task[k].id].address
        /\ task' = [task EXCEPT ![r] = Accounts!Idle] /\ UNCHANGED <<wallets, drifted>>
    BY <1>2, <1>16 DEF Accounts!ShowActive, OneClerk, Under, Accounts!Done
  <2>2. Accounts!Signer = wallets[task[k].id].address
    BY <1>1, <2>1 DEF SignerFacts
  <2>3. InStep'
    BY <1>5, <2>1, <2>2 DEF InStep
  <2>4. QED
    BY <1>4, <1>5, <2>1, <2>3 DEF OneClerk, Under
<1>17. ASSUME NEW r \in Clerks, NEW w \in Ids, Accounts!DeleteWallet(r, w)
       PROVE  OneClerk(k)'
  <2>1. /\ r = k /\ task[k] = Accounts!Idle /\ InStep /\ w \in Accounts!Rows
        /\ UNCHANGED <<task, drifted>>
    BY <1>3, <1>17 DEF Accounts!DeleteWallet
  <2>2. PICK heir \in SUBSET (Accounts!Rows \ {w}) :
              /\ wallets' = [v \in Ids |-> IF v = w THEN None
                                           ELSE IF v \in heir THEN [wallets[v] EXCEPT !.active = TRUE]
                                           ELSE wallets[v]]
              /\ ~wallets[w].active => heir = {} /\ shown' = shown
              /\ wallets[w].active => \/ heir = {} /\ Accounts!Rows = {w} /\ shown' = None
                                      \/ \E h \in Ids : heir = {h} /\ shown' = wallets[h].address
    BY <1>17, Deleted
  <2>3. \A v \in heir : /\ wallets'[v] # None /\ wallets'[v].active
                        /\ wallets'[v].address = wallets[v].address
    <3> TAKE v \in heir
    <3> DEFINE row == [wallets[v] EXCEPT !.active = TRUE]
    <3>1. v \in Ids /\ v # w /\ wallets[v] \in Accounts!Wallet
      BY <1>1, <2>2 DEF Accounts!Rows, SignerFacts
    <3>2. row \in Accounts!Wallet /\ row.active /\ row.address = wallets[v].address
      BY <3>1 DEF Accounts!Wallet
    <3>3. wallets'[v] = row
      BY <2>2, <3>1
    <3> HIDE DEF row
    <3>4. QED
      BY <3>2, <3>3
  <2>4. wallets'[w] = None /\ \A v \in Ids \ (heir \cup {w}) : wallets'[v] = wallets[v]
    BY <2>2
  <2>5. Accounts!Active' = (Accounts!Active \ {w}) \cup heir
    BY <2>2, <2>3, <2>4 DEF Accounts!Active, Accounts!Rows
  <2>6. Accounts!Rows' = Accounts!Rows \ {w}
    BY <2>2, <2>3, <2>4 DEF Accounts!Rows
  <2>7. \A u, v \in Accounts!Active : u = v
    BY DEF OneClerk
  <2>8. CASE wallets[w].active
    <3>1. Accounts!Active = {w}
      BY <2>1, <2>7, <2>8 DEF Accounts!Active
    <3>2. Accounts!Active' = heir
      BY <2>2, <2>5, <3>1
    <3>3. CASE heir = {} /\ Accounts!Rows = {w} /\ shown' = None
      BY <1>1, <2>1, <2>6, <3>2, <3>3 DEF OneClerk, Under, InStep, SignerFacts
    <3>4. ASSUME NEW h \in Ids, heir = {h}, shown' = wallets[h].address PROVE OneClerk(k)'
      BY <1>1, <2>1, <2>3, <3>2, <3>4 DEF OneClerk, Under, InStep, SignerFacts
    <3>5. QED
      BY <2>2, <2>8, <3>3, <3>4
  <2>9. CASE ~wallets[w].active
    <3>1. heir = {} /\ shown' = shown /\ w \notin Accounts!Active
      BY <2>2, <2>9 DEF Accounts!Active
    <3>2. Accounts!Active' = Accounts!Active
      BY <2>5, <3>1
    <3>3. Accounts!Signer' = Accounts!Signer
      <4>1. CASE Accounts!Active = {}
        BY <1>1, <3>2, <4>1 DEF SignerFacts
      <4>2. ASSUME NEW v \in Ids, Accounts!Active = {v}
            PROVE  Accounts!Signer' = Accounts!Signer
        BY <1>1, <2>4, <3>1, <3>2, <4>2 DEF SignerFacts
      <4>3. QED
        BY <1>7, <4>1, <4>2
    <3>4. QED
      BY <2>1, <2>6, <2>7, <3>1, <3>2, <3>3 DEF OneClerk, Under, InStep
  <2>10. QED
    BY <2>8, <2>9
<1>18. ASSUME NEW r \in Clerks, NEW a, Accounts!SavePreferences(r, a) PROVE OneClerk(k)'
  <2>1. /\ r = k /\ task[k] = Accounts!Idle /\ InStep /\ UNCHANGED <<task, wallets>>
        /\ shown' = a /\ drifted' = (drifted \/ a # Accounts!Signer)
    BY <1>3, <1>18 DEF Accounts!SavePreferences
  <2>2. InStep'
    BY <1>5, <2>1 DEF InStep
  <2>3. QED
    BY <1>5, <2>1, <2>2 DEF OneClerk, Under
<1>19. ASSUME NEW r \in Clerks, Accounts!ClerkDies(r) PROVE OneClerk(k)'
  <2>1. /\ r = k /\ task' = [task EXCEPT ![r] = Accounts!Idle] /\ drifted'
        /\ UNCHANGED wallets
    BY <1>19 DEF Accounts!ClerkDies, Accounts!Done, OneClerk
  <2>2. QED
    BY <1>4, <1>5, <2>1 DEF OneClerk, Under, InStep
<1>20. CASE Accounts!LoadPage \/ UNCHANGED accountVars
  <2>1. UNCHANGED <<wallets, shown, task, drifted>>
    BY <1>20 DEF Accounts!LoadPage, accountVars
  <2>2. QED
    BY <1>5, <1>6, <2>1 DEF OneClerk, Under
<1>21. QED
  BY <1>10, <1>11, <1>12, <1>13, <1>14, <1>15, <1>16, <1>17, <1>18, <1>19, <1>20
  DEF Accounts!WalletsNext

\* The invariant of the wallets holds at first,
LEMMA InitAccounts == Accounts!WalletsInit => AccountsInv
<1> SUFFICES ASSUME Accounts!WalletsInit PROVE AccountsInv
  OBVIOUS
<1> USE AccountsFacts
<1>1. PICK a \in [Ids -> Addresses \cup {None}], i \in Ids \cup {None} :
          /\ IF \A w \in Ids : a[w] = None THEN i = None ELSE i # None /\ a[i] # None
          /\ wallets = [w \in Ids |-> IF a[w] = None THEN None
                                      ELSE [address |-> a[w], active |-> w = i]]
          /\ shown = IF i = None THEN None ELSE a[i]
  BY DEF Accounts!WalletsInit
<1>2. /\ workers \subseteq Clerks /\ drifted = FALSE
      /\ task = [r \in Clerks |-> Accounts!Idle]
  BY DEF Accounts!WalletsInit
<1>3. \A w \in Ids : /\ a[w] = None => wallets[w] = None
                     /\ a[w] # None => /\ wallets[w] \in Accounts!Wallet
                                       /\ wallets[w].address = a[w]
                                       /\ wallets[w].active <=> w = i
  BY <1>1 DEF Accounts!Wallet
<1>4. AccountsTypes
  BY <1>1, <1>2, <1>3 DEF AccountsTypes, Accounts!Idle, Accounts!Task
<1>5. Accounts!Rows = {w \in Ids : a[w] # None}
  BY <1>3 DEF Accounts!Rows
<1>6. Accounts!Active = IF i = None THEN {} ELSE {i}
  BY <1>1, <1>3, <1>5 DEF Accounts!Active
<1>7. i = None => Accounts!Rows = {}
  BY <1>1, <1>5
<1>8. InStep
  BY <1>1, <1>3, <1>6, <1>7, TheOneSigns DEF InStep, SignerFacts
<1>9. QED
  BY <1>2, <1>4, <1>6, <1>8 DEF AccountsInv, OneClerk, Under

\* and every step keeps it.
LEMMA NextAccounts == AccountsInv /\ [Accounts!WalletsNext]_accountVars => AccountsInv'
<1> SUFFICES ASSUME AccountsInv, [Accounts!WalletsNext]_accountVars PROVE AccountsInv'
  OBVIOUS
<1>1. AccountsTypes /\ AccountsTypes'
  BY NextAccountsTypes DEF AccountsInv
<1>2. workers' = workers
  BY
  DEF Accounts!WalletsNext, Accounts!EditWallet, Accounts!FindNone, Accounts!CreateWallet,
         Accounts!ReadWallet, Accounts!ClearActive, Accounts!SetActive, Accounts!ShowActive,
         Accounts!DeleteWallet, Accounts!LoadPage, Accounts!SavePreferences, Accounts!ClerkDies,
         accountVars
<1>3. ASSUME NEW k \in Clerks, workers' = {k} PROVE OneClerk(k)'
  BY <1>1, <1>2, <1>3, NextOneClerk DEF AccountsInv
<1>4. QED
  BY <1>1, <1>3 DEF AccountsInv

\* Wallets counts as the library does.
LEMMA AccountsCardinality == \A S : Accounts!Cardinality(S) = Cardinality(S)
BY DEF Accounts!Cardinality, Cardinality

\* The invariant says what the property says.
LEMMA AccountsInvShows == AccountsInv => SignerIsShown
<1> SUFFICES ASSUME AccountsInv, Cardinality(workers) = 1
             PROVE  /\ Cardinality(Accounts!Active) <= 1
                    /\ (~drifted /\ \A r \in Clerks : task[r] = Accounts!Idle) =>
                          /\ Accounts!Rows # {} => Accounts!Active # {}
                          /\ shown = Accounts!Signer
  BY AccountsCardinality DEF SignerIsShown, Accounts!SignerIsShown
<1>1. IsFiniteSet(workers)
  BY AccountsFacts, FS_Subset DEF AccountsInv, AccountsTypes
<1>2. PICK k : workers = {k}
  BY <1>1, FS_Singleton
<1>3. k \in Clerks /\ OneClerk(k)
  BY <1>2 DEF AccountsInv, AccountsTypes
<1>4. Accounts!Active = {} \/ \E w : Accounts!Active = {w}
  BY <1>3 DEF OneClerk
<1>5. Cardinality(Accounts!Active) = 0 \/ Cardinality(Accounts!Active) = 1
  BY <1>4, FS_EmptySet, FS_Singleton
<1>6. (\A r \in Clerks : task[r] = Accounts!Idle) => InStep
  BY <1>3 DEF OneClerk, Under, Accounts!Idle
<1>7. QED
  BY <1>5, <1>6 DEF InStep

\* The wallet the pages list works, drafts and sales by is the one that signs, when one
\* worker serves the account and no page or death has parted the two.
THEOREM TheSignerIsShown == SiteSpec => []SignerIsShown
<1>1. SiteInit => AccountsInv
  BY InitAccounts DEF SiteInit
<1>2. AccountsInv /\ [SiteNext]_siteVars => AccountsInv'
  BY NextAccounts DEF SiteNext, siteVars
<1>3. QED
  BY <1>1, <1>2, AccountsInvShows, PTL DEF SiteSpec

----------------------------------------------------------------------------
(***************************************************************************)
(* Passkeys and certificates.  A grant in any copy of the session stands for *)
(* a proof that is at least as recent.                                     *)
(***************************************************************************)
Copies == [ceremony: Ceremonies \cup {None}, grant: Grants \cup {None}]
Operations == {"options", "register", "authenticate", "verify", "password", "download", "delete", "none"}
Visits == [op: Operations, copy: Copies \cup {None}, about: Certificates \cup {None},
           signed: BOOLEAN, key: Passkeys \cup {None}]

ProofTypes ==
    /\ now \in Nat /\ nonce \in Nat
    /\ session \in Copies
    /\ visit \in [Proofs!Workers -> Visits]
    /\ \A r \in Proofs!Workers :
          /\ visit[r].op \notin {"none", "delete"} => visit[r].copy \in Copies
          /\ visit[r].op \in {"verify", "password", "download"} => visit[r].about \in Certificates
    /\ proved \in [Certificates -> Nat \cup {None}]

\* The proof a grant stands for is not older than the grant, as long as the grant counts.
Proven(s) ==
    s.grant # None =>
        /\ s.grant.at <= now
        /\ now - s.grant.at <= Lifetime => /\ proved[s.grant.about] # None
                                           /\ s.grant.at <= proved[s.grant.about]

ProvenInv ==
    /\ \A a \in Certificates : proved[a] # None => proved[a] <= now
    /\ Proven(session)
    /\ \A r \in Proofs!Workers : visit[r].copy # None => Proven(visit[r].copy)
    /\ DownloadsAreProven

\* One worker: no copy of the session holds a challenge that has been accepted.
Unused(s) == s.ceremony # None => s.ceremony.challenge \in (1..nonce) \ accepted

OneWorkerInv ==
    /\ \A r \in Proofs!Workers : r > 1 => visit[r] = Proofs!NoVisit
    /\ accepted \subseteq 1..nonce
    /\ ~reused
    /\ Unused(session)
    /\ \A r \in Proofs!Workers : visit[r].copy # None => Unused(visit[r].copy)
    /\ password \/ keys # {}
    /\ \A r \in Proofs!Workers : visit[r].op = "delete" => password \/ keys \ {visit[r].key} # {}

ProofsInv ==
    /\ ProofTypes
    /\ ProvenInv
    /\ servers = 1 => OneWorkerInv

\* What the helpers make of a copy of the session is a copy of the session.
LEMMA CopyHelpers ==
    ASSUME NEW s \in Copies
    PROVE  /\ Proofs!Popped(s) \in Copies
           /\ Proofs!Popped(s).ceremony = None /\ Proofs!Popped(s).grant = s.grant
           /\ \A a \in Certificates : now \in Nat =>
                 /\ Proofs!Granted(s, a) \in Copies
                 /\ Proofs!Granted(s, a).ceremony = s.ceremony
                 /\ Proofs!Granted(s, a).grant = [about |-> a, at |-> now]
           /\ \A k \in Proofs!Kinds, a \in Certificates \cup {None} : now \in Nat /\ nonce' \in Nat =>
                 LET c == [kind |-> k, challenge |-> nonce', about |-> a, at |-> now]
                     t == [s EXCEPT !.ceremony = c]
                 IN  t \in Copies /\ t.ceremony = c /\ t.ceremony # None
                 /\ t.grant = s.grant
<1> USE ProofsAssumption
<1>1. /\ Proofs!Popped(s) \in Copies
      /\ Proofs!Popped(s).ceremony = None /\ Proofs!Popped(s).grant = s.grant
  BY DEF Copies, Proofs!Popped
<1>2. ASSUME NEW a \in Certificates, now \in Nat
      PROVE  /\ Proofs!Granted(s, a) \in Copies
             /\ Proofs!Granted(s, a).ceremony = s.ceremony
             /\ Proofs!Granted(s, a).grant = [about |-> a, at |-> now]
  BY <1>2 DEF Copies, Grants, Proofs!Granted
<1>3. ASSUME NEW k \in Proofs!Kinds, NEW a \in Certificates \cup {None}, now \in Nat,
             nonce' \in Nat
      PROVE  LET c == [kind |-> k, challenge |-> nonce', about |-> a, at |-> now]
                 t == [s EXCEPT !.ceremony = c]
             IN  t \in Copies /\ t.ceremony = c /\ t.ceremony # None /\ t.grant = s.grant
  <2> DEFINE c == [kind |-> k, challenge |-> nonce', about |-> a, at |-> now]
             t == [s EXCEPT !.ceremony = c]
  <2>1. c \in Ceremonies /\ c # None
    BY <1>3 DEF Ceremonies
  <2> HIDE DEF c
  <2>2. t \in Copies /\ t.ceremony = c /\ t.grant = s.grant
    BY <2>1 DEF Copies
  <2>3. QED
    BY <2>1, <2>2 DEF c
<1>4. QED
  BY <1>1, <1>2, <1>3

\* A request that ends leaves the others as they were.
LEMMA Left ==
    ASSUME ProofTypes, NEW r \in Proofs!Workers, Proofs!Leave(r)
    PROVE  /\ visit' \in [Proofs!Workers -> Visits]
           /\ visit'[r] = Proofs!NoVisit
           /\ Proofs!NoVisit.op = "none" /\ Proofs!NoVisit.copy = None
           /\ \A q \in Proofs!Workers \ {r} : visit'[q] = visit[q]
<1>1. Proofs!NoVisit \in Visits /\ Proofs!NoVisit.op = "none" /\ Proofs!NoVisit.copy = None
  BY DEF Proofs!NoVisit, Visits, Operations
<1>2. QED
  BY <1>1 DEF ProofTypes, Proofs!Leave

\* A request that begins takes a copy of the session, or none.
LEMMA Came ==
    ASSUME ProofTypes, NEW r \in Proofs!Workers, Proofs!Visit(r)
    PROVE  \E v \in Visits :
              /\ r <= servers /\ visit[r] = Proofs!NoVisit
              /\ visit' = [visit EXCEPT ![r] = v]
              /\ UNCHANGED <<servers, now, nonce, session, keys, password, accepted, reused, proved>>
              /\ v.op = "delete" => /\ v.copy = None /\ v.key \in keys
                                    /\ ~Proofs!Last(v.key)
              /\ v.op # "delete" => v.copy \in Copies /\ v.copy # None
              /\ v.op \in {"verify", "password", "download"} => v.about \in Certificates
              /\ v.copy # None => /\ v.copy.grant = session.grant
                                  /\ v.copy.ceremony \in {session.ceremony, None}
<1> USE ProofsAssumption
<1>1. ASSUME NEW op \in Operations \ {"none"}, NEW about \in Certificates \cup {None},
             NEW signed \in BOOLEAN,
             NEW key \in Passkeys \cup {None}, Proofs!Come(r, op, about, signed, key),
             op \in {"verify", "password", "download"} => about \in Certificates,
             op = "delete" => key \in keys /\ ~Proofs!Last(key)
      PROVE  \E v \in Visits :
              /\ r <= servers /\ visit[r] = Proofs!NoVisit
              /\ visit' = [visit EXCEPT ![r] = v]
              /\ UNCHANGED <<servers, now, nonce, session, keys, password, accepted, reused, proved>>
              /\ v.op = "delete" => /\ v.copy = None /\ v.key \in keys
                                    /\ ~Proofs!Last(v.key)
              /\ v.op # "delete" => v.copy \in Copies /\ v.copy # None
              /\ v.op \in {"verify", "password", "download"} => v.about \in Certificates
              /\ v.copy # None => /\ v.copy.grant = session.grant
                                  /\ v.copy.ceremony \in {session.ceremony, None}
  <2> DEFINE c == IF op = "delete" THEN None
                  ELSE IF op = "download" THEN [session EXCEPT !.ceremony = None] ELSE session
             v == [op |-> op, about |-> about, signed |-> signed, key |-> key, copy |-> c]
  <2>1. IF op = "delete" THEN c = None
        ELSE c \in Copies /\ c # None /\ c.grant = session.grant
        /\ c.ceremony \in {session.ceremony, None}
    BY DEF ProofTypes, Copies
  <2>2. /\ r <= servers /\ visit[r] = Proofs!NoVisit
        /\ visit' = [visit EXCEPT ![r] = v]
        /\ UNCHANGED <<servers, now, nonce, session, keys, password, accepted, reused, proved>>
    BY <1>1, Zenon DEF Proofs!Come, Proofs!histories
  <2> HIDE DEF c
  <2>3. v \in Visits /\ v.op = op /\ v.about = about /\ v.key = key /\ v.copy = c
    BY <2>1 DEF Visits
  <2> HIDE DEF v
  <2>4. QED
    BY <1>1, <2>1, <2>2, <2>3
<1>2. CASE \E a \in Certificates \cup {None} : Proofs!Come(r, "options", a, FALSE, None)
  BY <1>1, <1>2 DEF Operations
<1>3. CASE \E signed \in BOOLEAN, k \in Passkeys :
              \/ Proofs!Come(r, "register", None, signed, k)
              \/ Proofs!Come(r, "authenticate", None, signed, k)
              \/ \E a \in Certificates : Proofs!Come(r, "verify", a, signed, k)
  BY <1>1, <1>3 DEF Operations
<1>4. CASE \E a \in Certificates, op \in {"password", "download"} : Proofs!Come(r, op, a, FALSE, None)
  BY <1>1, <1>4 DEF Operations
<1>5. CASE \E k \in Passkeys : Proofs!BeginDelete(r, k)
  BY <1>1, <1>5 DEF Operations, Proofs!BeginDelete
<1>6. QED
  BY <1>2, <1>3, <1>4, <1>5 DEF Proofs!Visit

\* A request that ends, whatever it has saved: what must hold of the saved session.
LEMMA Saved ==
    ASSUME ProofTypes, ProvenInv, NEW r \in Proofs!Workers, Proofs!Leave(r),
           UNCHANGED <<servers, now>>, nonce' \in Nat, session' \in Copies, Proven(session)',
           proved' \in [Certificates -> Nat \cup {None}],
           \A a \in Certificates : /\ proved'[a] # None => proved'[a] <= now
                                   /\ proved[a] # None => proved'[a] # None /\ proved[a] <= proved'[a],
           DownloadsAreProven'
    PROVE  ProofTypes' /\ ProvenInv'
<1> USE ProofsAssumption
<1>1. /\ visit' \in [Proofs!Workers -> Visits]
      /\ visit'[r] = Proofs!NoVisit /\ Proofs!NoVisit.op = "none"
      /\ Proofs!NoVisit.copy = None
      /\ \A q \in Proofs!Workers \ {r} : visit'[q] = visit[q]
  BY Left
<1>2. Proofs!Workers' = Proofs!Workers
  BY DEF Proofs!Workers
<1>3. ProofTypes'
  BY <1>1, <1>2 DEF ProofTypes
<1>4. ASSUME NEW q \in Proofs!Workers, visit'[q].copy # None PROVE Proven(visit[q].copy)'
  <2>1. q # r /\ visit'[q] = visit[q] /\ visit[q].copy \in Copies /\ Proven(visit[q].copy)
    BY <1>1, <1>4 DEF ProvenInv, ProofTypes, Visits
  <2>2. visit[q].copy.grant # None => visit[q].copy.grant \in Grants
    BY <2>1 DEF Copies
  <2>3. visit[q].copy.grant # None =>
            /\ visit[q].copy.grant.about \in Certificates /\ visit[q].copy.grant.at \in Nat
    BY <2>2 DEF Grants
  <2>4. \A a \in Certificates : /\ proved[a] # None => proved[a] \in Nat
                                /\ proved'[a] # None => proved'[a] \in Nat
    BY DEF ProofTypes
  <2> DEFINE g == visit[q].copy.grant
  <2>5. visit'[q].copy.grant = g
    BY <2>1
  <2> HIDE DEF g
  <2>6. QED
    BY <2>1, <2>3, <2>4, <2>5 DEF Proven, g
<1>5. QED
  BY <1>2, <1>3, <1>4 DEF ProvenInv, ProofTypes

\* The one worker ends a request and saves its copy.
LEMMA SavedAlone ==
    ASSUME ProofTypes, servers = 1, OneWorkerInv, NEW r \in Proofs!Workers, Proofs!Leave(r),
           visit[r] # Proofs!NoVisit, UNCHANGED password, nonce' \in Nat, nonce' >= nonce,
           accepted' \subseteq 1..nonce', ~reused', Unused(session)', password \/ keys' # {}
    PROVE  OneWorkerInv'
<1>1. /\ visit'[r] = Proofs!NoVisit /\ Proofs!NoVisit.op = "none"
      /\ Proofs!NoVisit.copy = None
      /\ \A q \in Proofs!Workers \ {r} : visit'[q] = visit[q]
  BY Left
<1>2. r = 1
  BY ProofsAssumption DEF OneWorkerInv, Proofs!Workers
<1>3. \A q \in Proofs!Workers : visit'[q] = Proofs!NoVisit
  BY <1>1, <1>2, ProofsAssumption DEF OneWorkerInv, Proofs!Workers
<1>4. Proofs!Workers' = Proofs!Workers
  BY DEF Proofs!Workers
<1>5. QED
  BY <1>1, <1>3, <1>4 DEF OneWorkerInv

\* Every step of the step-up keeps its invariant,
LEMMA NextProofs == ProofsInv /\ [Proofs!StepUpNext]_proofVars => ProofsInv'
<1> SUFFICES ASSUME ProofsInv, [Proofs!StepUpNext]_proofVars PROVE ProofsInv'
  OBVIOUS
<1> USE ProofsAssumption
<1>t. ProofTypes /\ ProvenInv /\ (servers = 1 => OneWorkerInv)
  BY DEF ProofsInv
<1>w. Proofs!Workers' = Proofs!Workers
  BY DEF Proofs!Workers
<1>d. ASSUME download' = None PROVE DownloadsAreProven'
  BY <1>d DEF DownloadsAreProven, Proofs!DownloadsAreProven
<1>n. Proofs!NoVisit.op = "none" /\ Proofs!NoVisit.copy = None
  BY DEF Proofs!NoVisit
<1>p. \A a \in Certificates : proved[a] # None => proved[a] \in Nat /\ proved[a] <= now
  BY <1>t DEF ProofTypes, ProvenInv
<1>1. ASSUME Proofs!Clock, download' = None PROVE ProofsInv'
  <2>1. /\ now' = now + 1
        /\ UNCHANGED <<servers, nonce, session, keys, password, visit, accepted, reused>>
        /\ proved' = [a \in Certificates |-> IF proved[a] = None \/ now' - proved[a] > Lifetime
                                             THEN None ELSE proved[a]]
    BY <1>1 DEF Proofs!Clock
  <2>2. ProofTypes'
    BY <1>t, <1>w, <2>1 DEF ProofTypes
  <2>3. ASSUME NEW s \in Copies, Proven(s)
        PROVE  s.grant # None =>
                  /\ s.grant.at <= now'
                  /\ now' - s.grant.at <= Lifetime => /\ proved'[s.grant.about] # None
                                                      /\ s.grant.at <= proved'[s.grant.about]
    <3> SUFFICES ASSUME s.grant # None
                 PROVE  /\ s.grant.at <= now'
                        /\ now' - s.grant.at <= Lifetime => /\ proved'[s.grant.about] # None
                                                            /\ s.grant.at <= proved'[s.grant.about]
      OBVIOUS
    <3> DEFINE a == s.grant.about
               g == s.grant.at
    <3>1. a \in Certificates /\ g \in Nat
      BY DEF Copies, Grants
    <3>2. g <= now /\ (now - g <= Lifetime => proved[a] # None /\ g <= proved[a])
      BY <2>3 DEF Proven
    <3>3. proved'[a] = IF proved[a] = None \/ now' - proved[a] > Lifetime THEN None ELSE proved[a]
      BY <2>1, <3>1
    <3> HIDE DEF a, g
    <3>4. now \in Nat /\ now' = now + 1 /\ (proved[a] # None => proved[a] \in Nat)
      BY <1>t, <1>p, <2>1, <3>1 DEF ProofTypes
    <3>5. g <= now' /\ (now' - g <= Lifetime => proved'[a] # None /\ g <= proved'[a])
      BY <3>1, <3>2, <3>3, <3>4
    <3>6. QED
      BY <3>5 DEF a, g
  <2>4. Proven(session)'
    BY <1>t, <2>1, <2>3 DEF ProofTypes, ProvenInv, Proven
  <2>5. \A r \in Proofs!Workers : visit'[r].copy # None => Proven(visit[r].copy)'
    <3> SUFFICES ASSUME NEW r \in Proofs!Workers, visit[r].copy # None
                 PROVE  Proven(visit[r].copy)'
      BY <2>1
    <3>1. visit[r].copy \in Copies /\ Proven(visit[r].copy)
      BY <1>t DEF ProofTypes, ProvenInv, Visits
    <3>2. QED
      BY <2>1, <2>3, <3>1 DEF Proven
  <2>6. \A a \in Certificates : proved'[a] # None => proved'[a] <= now'
    BY <1>t, <1>p, <2>1 DEF ProofTypes
  <2>7. servers' = 1 => OneWorkerInv'
    BY <1>t, <1>w, <2>1 DEF OneWorkerInv, Unused
  <2>8. QED
    BY <1>1, <1>d, <1>w, <2>2, <2>4, <2>5, <2>6, <2>7 DEF ProofsInv, ProvenInv
<1>2. ASSUME NEW r \in Proofs!Workers, Proofs!Visit(r), download' = None PROVE ProofsInv'
  <2>1. PICK v \in Visits :
              /\ r <= servers /\ visit[r] = Proofs!NoVisit
              /\ visit' = [visit EXCEPT ![r] = v]
              /\ UNCHANGED <<servers, now, nonce, session, keys, password, accepted, reused, proved>>
              /\ v.op = "delete" => /\ v.copy = None /\ v.key \in keys
                                    /\ ~Proofs!Last(v.key)
              /\ v.op # "delete" => v.copy \in Copies /\ v.copy # None
              /\ v.op \in {"verify", "password", "download"} => v.about \in Certificates
              /\ v.copy # None => /\ v.copy.grant = session.grant
                                  /\ v.copy.ceremony \in {session.ceremony, None}
    BY <1>t, <1>2, Came
  <2>2. /\ visit' \in [Proofs!Workers -> Visits] /\ visit'[r] = v
        /\ \A q \in Proofs!Workers \ {r} : visit'[q] = visit[q]
    BY <1>t, <2>1 DEF ProofTypes
  <2>3. ProofTypes'
    BY <1>t, <1>w, <2>1, <2>2 DEF ProofTypes
  <2>4. \A q \in Proofs!Workers : visit'[q].copy # None => Proven(visit[q].copy)'
    <3> SUFFICES ASSUME NEW q \in Proofs!Workers, visit'[q].copy # None
                 PROVE  Proven(visit[q].copy)'
      OBVIOUS
    <3>1. CASE q = r
      BY <1>t, <2>1, <2>2, <3>1 DEF ProvenInv, Proven
    <3>2. CASE q # r
      BY <1>t, <2>1, <2>2, <3>2 DEF ProvenInv, Proven
    <3>3. QED
      BY <3>1, <3>2
  <2>5. ProvenInv'
    BY <1>t, <1>2, <1>d, <1>w, <2>1, <2>4 DEF ProvenInv, Proven
  <2>6. servers' = 1 => OneWorkerInv'
    <3> SUFFICES ASSUME servers = 1 PROVE OneWorkerInv'
      BY <2>1
    <3>1. r = 1 /\ OneWorkerInv
      BY <1>t, <2>1 DEF Proofs!Workers
    <3>2. v.op = "delete" => password \/ keys \ {v.key} # {}
      <4> SUFFICES ASSUME v.op = "delete", ~password, keys \ {v.key} = {} PROVE FALSE
        OBVIOUS
      <4>1. keys = {v.key} /\ ~Proofs!Last(v.key)
        BY <2>1
      <4>2. Cardinality(keys) = 1
        BY <4>1, FS_Singleton
      <4>3. QED
        BY <4>1, <4>2 DEF Proofs!Last, Proofs!Cardinality, Cardinality
    <3>3. v.copy # None => Unused(v.copy)
      BY <2>1, <3>1 DEF OneWorkerInv, Unused
    <3>4. QED
      BY <1>w, <2>1, <2>2, <3>1, <3>2, <3>3 DEF OneWorkerInv, Unused
  <2>7. QED
    BY <2>3, <2>5, <2>6 DEF ProofsInv
<1>h. ASSUME NEW r \in Proofs!Workers, visit[r].op \notin {"none", "delete"}
      PROVE  /\ visit[r].copy \in Copies /\ visit[r].copy # None /\ visit[r] # Proofs!NoVisit
             /\ Proven(visit[r].copy)
             /\ servers = 1 => Unused(visit[r].copy)
             /\ visit[r].about \in Certificates \cup {None}
             /\ visit[r].key \in Passkeys \cup {None}
  <2>1. visit[r].copy \in Copies /\ visit[r] \in Visits
    BY <1>t, <1>h DEF ProofTypes
  <2>2. visit[r].copy # None
    BY <2>1 DEF Copies
  <2>3. QED
    BY <1>t, <1>n, <1>h, <2>1, <2>2 DEF ProvenInv, OneWorkerInv, Visits
<1>g. ASSUME NEW s \in Copies, Proven(s), UNCHANGED <<now, proved>>,
             session'.grant = s.grant
      PROVE  Proven(session)'
  BY <1>g DEF Proven
<1>q. ASSUME UNCHANGED <<now, proved>>
      PROVE  /\ proved' \in [Certificates -> Nat \cup {None}]
             /\ \A a \in Certificates :
                   /\ proved'[a] # None => proved'[a] <= now
                   /\ proved[a] # None => proved'[a] # None /\ proved[a] <= proved'[a]
  BY <1>t, <1>p, <1>q DEF ProofTypes
<1>v. ASSUME NEW a \in Certificates, UNCHANGED now, proved' = [proved EXCEPT ![a] = now]
      PROVE  /\ proved' \in [Certificates -> Nat \cup {None}]
             /\ \A b \in Certificates :
                   /\ proved'[b] # None => proved'[b] <= now
                   /\ proved[b] # None => proved'[b] # None /\ proved[b] <= proved'[b]
             /\ proved'[a] = now /\ now # None
  BY <1>t, <1>p, <1>v DEF ProofTypes
<1>a. ASSUME NEW r \in Proofs!Workers, visit[r].op \notin {"none", "delete"}, servers = 1,
             visit[r].copy.ceremony # None, Proofs!Accept(visit[r]), UNCHANGED nonce
      PROVE  accepted' \subseteq 1..nonce' /\ ~reused'
  BY <1>t, <1>h, <1>a DEF Proofs!Accept, Unused, OneWorkerInv
<1>o. servers = 1 => accepted \subseteq 1..nonce /\ ~reused /\ Unused(session) /\ (password \/ keys # {})
  BY <1>t DEF OneWorkerInv
<1>3. ASSUME NEW r \in Proofs!Workers, NEW kind \in Proofs!Kinds, Proofs!Options(r, kind),
             download' = None
      PROVE  ProofsInv'
  <2>1. /\ visit[r].op = "options" /\ Proofs!Leave(r)
        /\ UNCHANGED <<servers, now, keys, password, accepted, reused, proved>>
    BY <1>3 DEF Proofs!Options, Proofs!histories
  <2>2. CASE UNCHANGED <<nonce, session>>
    <3>1. ProofTypes' /\ ProvenInv'
      BY <1>t, <1>3, <1>d, <1>q, <2>1, <2>2, Saved DEF ProofTypes, ProvenInv, Proven
    <3>2. servers' = 1 => OneWorkerInv'
      BY <1>t, <1>h, <1>o, <2>1, <2>2, SavedAlone DEF ProofTypes, Unused
    <3>3. QED
      BY <3>1, <3>2 DEF ProofsInv
  <2>3. CASE ~UNCHANGED <<nonce, session>>
    <3> DEFINE c == [kind |-> kind, challenge |-> nonce', about |-> visit[r].about, at |-> now]
               t == [visit[r].copy EXCEPT !.ceremony = c]
    <3>1. nonce' = nonce + 1 /\ session' = t
      BY <1>3, <2>3 DEF Proofs!Options
    <3>2. t \in Copies /\ t.ceremony = c /\ t.ceremony # None
          /\ t.grant = visit[r].copy.grant
      <4>1. visit[r].copy \in Copies /\ visit[r].about \in Certificates \cup {None}
        BY <1>h, <2>1
      <4>2. now \in Nat /\ nonce' \in Nat
        BY <1>t, <3>1 DEF ProofTypes
      <4>3. QED
        BY <4>1, <4>2, CopyHelpers
    <3>3. c.challenge = nonce'
      OBVIOUS
    <3> HIDE DEF c, t
    <3>4. Proven(session)'
      BY <1>h, <1>g, <2>1, <3>1, <3>2
    <3>5. ProofTypes' /\ ProvenInv'
      BY <1>t, <1>3, <1>d, <1>q, <2>1, <3>1, <3>2, <3>4, Saved DEF ProofTypes
    <3>6. servers = 1 => Unused(session)' /\ accepted' \subseteq 1..nonce'
      BY <1>t, <1>o, <2>1, <3>1, <3>2, <3>3 DEF Unused, ProofTypes
    <3>7. servers' = 1 => OneWorkerInv'
      BY <1>t, <1>h, <1>o, <2>1, <3>1, <3>6, SavedAlone DEF ProofTypes
    <3>8. QED
      BY <3>5, <3>7 DEF ProofsInv
  <2>4. QED
    BY <2>2, <2>3
<1>4. ASSUME NEW r \in Proofs!Workers, Proofs!CompleteRegistration(r), download' = None
      PROVE  ProofsInv'
  <2>1. /\ visit[r].op = "register" /\ Proofs!Leave(r)
        /\ session' = Proofs!Popped(visit[r].copy)
        /\ UNCHANGED <<servers, now, nonce, password, proved>>
        /\ \/ UNCHANGED <<keys, accepted, reused>>
           \/ /\ visit[r].copy.ceremony # None
              /\ Proofs!Accept(visit[r]) /\ keys' = keys \cup {visit[r].key}
    BY <1>4, Zenon DEF Proofs!CompleteRegistration, Proofs!Live
  <2>2. session' \in Copies /\ session'.ceremony = None
        /\ session'.grant = visit[r].copy.grant
    BY <1>h, <2>1, CopyHelpers
  <2>3. ProofTypes' /\ ProvenInv'
    BY <1>t, <1>4, <1>d, <1>g, <1>h, <1>q, <2>1, <2>2, Saved DEF ProofTypes
  <2>4. ASSUME servers = 1 PROVE OneWorkerInv'
    <3>1. accepted' \subseteq 1..nonce' /\ ~reused' /\ (password \/ keys' # {})
      BY <1>o, <1>a, <2>1, <2>4
    <3>2. QED
      BY <1>t, <1>h, <2>1, <2>2, <2>4, <3>1, SavedAlone DEF ProofTypes, Unused
  <2>5. QED
    BY <2>1, <2>3, <2>4 DEF ProofsInv
<1>5. ASSUME NEW r \in Proofs!Workers, Proofs!CompleteLogin(r), download' = None
      PROVE  ProofsInv'
  <2>1. /\ visit[r].op = "authenticate" /\ Proofs!Leave(r)
        /\ UNCHANGED <<servers, now, nonce, keys, password, proved>>
        /\ \/ UNCHANGED <<session, accepted, reused>>
           \/ session' = Proofs!Popped(visit[r].copy) /\ UNCHANGED <<accepted, reused>>
           \/ /\ session' = Proofs!Popped(visit[r].copy)
              /\ visit[r].copy.ceremony # None /\ Proofs!Accept(visit[r])
    BY <1>5, Zenon DEF Proofs!CompleteLogin, Proofs!Live
  <2>2. \/ UNCHANGED <<session, accepted, reused>>
        \/ session' \in Copies /\ session'.ceremony = None /\ session'.grant = visit[r].copy.grant
    BY <1>h, <2>1, CopyHelpers
  <2>3. session' \in Copies /\ Proven(session)' /\ (servers = 1 => Unused(session)')
    <3>1. CASE UNCHANGED <<session, accepted, reused>>
      BY <1>t, <1>o, <2>1, <3>1 DEF ProofTypes, ProvenInv, Proven, Unused
    <3>2. CASE session' \in Copies /\ session'.ceremony = None
               /\ session'.grant = visit[r].copy.grant
      BY <1>g, <1>h, <2>1, <3>2 DEF Unused
    <3>3. QED
      BY <2>2, <3>1, <3>2
  <2>4. ProofTypes' /\ ProvenInv'
    BY <1>t, <1>5, <1>d, <1>q, <2>1, <2>3, Saved DEF ProofTypes
  <2>5. ASSUME servers = 1 PROVE OneWorkerInv'
    <3>1. accepted' \subseteq 1..nonce' /\ ~reused' /\ (password \/ keys' # {})
      BY <1>o, <1>a, <2>1, <2>5
    <3>2. QED
      BY <1>t, <1>h, <2>1, <2>3, <2>5, <3>1, SavedAlone DEF ProofTypes
  <2>6. QED
    BY <2>1, <2>4, <2>5 DEF ProofsInv
<1>6. ASSUME NEW r \in Proofs!Workers, Proofs!VerifyPasskey(r), download' = None
      PROVE  ProofsInv'
  <2> DEFINE s == visit[r].copy
             a == visit[r].about
  <2>1. /\ visit[r].op = "verify" /\ Proofs!Leave(r)
        /\ UNCHANGED <<servers, now, nonce, keys, password>>
        /\ \/ session' = Proofs!Popped(s) /\ UNCHANGED <<proved, accepted, reused>>
           \/ /\ session' = Proofs!Granted(Proofs!Popped(s), a)
              /\ proved' = [proved EXCEPT ![a] = now]
              /\ s.ceremony # None /\ Proofs!Accept(visit[r])
    BY <1>6, Zenon DEF Proofs!VerifyPasskey, Proofs!Live
  <2>2. /\ s \in Copies /\ Proven(s) /\ a \in Certificates
        /\ Proofs!Popped(s) \in Copies
        /\ Proofs!Popped(s).ceremony = None /\ Proofs!Popped(s).grant = s.grant
    BY <1>t, <1>h, <2>1, CopyHelpers DEF ProofTypes
  <2>3. /\ session' \in Copies /\ session'.ceremony = None /\ Proven(session)'
        /\ proved' \in [Certificates -> Nat \cup {None}]
        /\ \A b \in Certificates :
                   /\ proved'[b] # None => proved'[b] <= now
                   /\ proved[b] # None => proved'[b] # None /\ proved[b] <= proved'[b]
    <3>1. CASE session' = Proofs!Popped(s) /\ UNCHANGED <<proved, accepted, reused>>
      BY <1>g, <1>q, <2>1, <2>2, <3>1
    <3>2. CASE session' = Proofs!Granted(Proofs!Popped(s), a)
               /\ proved' = [proved EXCEPT ![a] = now]
      <4> DEFINE popped == Proofs!Popped(s)
      <4>p. popped \in Copies /\ popped.ceremony = None /\ a \in Certificates /\ now \in Nat
        BY <1>t, <2>2, CopyHelpers DEF ProofTypes
      <4>q. session' = Proofs!Granted(popped, a)
        BY <3>2
      <4> HIDE DEF popped
      <4>1. /\ session' \in Copies /\ session'.ceremony = None
            /\ session'.grant = [about |-> a, at |-> now]
        BY <4>p, <4>q, CopyHelpers
      <4>2. session'.grant.about = a /\ session'.grant.at = now
        BY <4>1
      <4>3. proved'[a] = now /\ now # None /\ now \in Nat
        BY <1>t, <1>v, <2>1, <2>2, <3>2 DEF ProofTypes
      <4>4. Proven(session)'
        BY <2>1, <4>2, <4>3 DEF Proven
      <4>5. QED
        BY <1>v, <2>1, <2>2, <3>2, <4>1, <4>4
    <3>3. QED
      BY <2>1, <3>1, <3>2
  <2>4. ProofTypes' /\ ProvenInv'
    BY <1>t, <1>6, <1>d, <2>1, <2>3, Saved DEF ProofTypes
  <2>5. ASSUME servers = 1 PROVE OneWorkerInv'
    <3>1. accepted' \subseteq 1..nonce' /\ ~reused' /\ (password \/ keys' # {})
      BY <1>o, <1>a, <2>1, <2>5
    <3>2. QED
      BY <1>t, <1>h, <2>1, <2>3, <2>5, <3>1, SavedAlone DEF ProofTypes, Unused
  <2>6. QED
    BY <2>1, <2>4, <2>5 DEF ProofsInv
<1>7. ASSUME NEW r \in Proofs!Workers, Proofs!VerifyPassword(r), download' = None
      PROVE  ProofsInv'
  <2> DEFINE s == visit[r].copy
             a == visit[r].about
  <2>1. /\ visit[r].op = "password" /\ Proofs!Leave(r)
        /\ UNCHANGED <<servers, now, nonce, keys, password, accepted, reused>>
        /\ \/ UNCHANGED <<session, proved>>
           \/ session' = Proofs!Granted(s, a) /\ proved' = [proved EXCEPT ![a] = now]
    BY <1>7, Zenon DEF Proofs!VerifyPassword
  <2>2. s \in Copies /\ a \in Certificates /\ (servers = 1 => Unused(s))
    BY <1>t, <1>h, <2>1 DEF ProofTypes
  <2>3. /\ session' \in Copies /\ Proven(session)' /\ (servers = 1 => Unused(session)')
        /\ proved' \in [Certificates -> Nat \cup {None}]
        /\ \A b \in Certificates :
                   /\ proved'[b] # None => proved'[b] <= now
                   /\ proved[b] # None => proved'[b] # None /\ proved[b] <= proved'[b]
    <3>1. CASE UNCHANGED <<session, proved>>
      BY <1>t, <1>o, <1>q, <2>1, <3>1 DEF ProofTypes, ProvenInv, Proven, Unused
    <3>2. CASE session' = Proofs!Granted(s, a) /\ proved' = [proved EXCEPT ![a] = now]
      <4>1. /\ session' \in Copies /\ session'.ceremony = s.ceremony
            /\ session'.grant = [about |-> a, at |-> now]
        <5>1. s \in Copies /\ a \in Certificates /\ now \in Nat
          BY <1>t, <2>2 DEF ProofTypes
        <5>2. QED
          BY <3>2, <5>1, CopyHelpers
      <4>2. session'.grant.about = a /\ session'.grant.at = now
        BY <4>1
      <4>3. proved'[a] = now /\ now # None /\ now \in Nat
        BY <1>t, <1>v, <2>1, <2>2, <3>2 DEF ProofTypes
      <4>4. Proven(session)' /\ (servers = 1 => Unused(session)')
        BY <2>1, <2>2, <4>1, <4>2, <4>3 DEF Proven, Unused
      <4>5. QED
        BY <1>v, <2>1, <2>2, <3>2, <4>1, <4>4
    <3>3. QED
      BY <2>1, <3>1, <3>2
  <2>4. ProofTypes' /\ ProvenInv'
    BY <1>t, <1>7, <1>d, <2>1, <2>3, Saved DEF ProofTypes
  <2>5. servers' = 1 => OneWorkerInv'
    BY <1>t, <1>h, <1>o, <2>1, <2>3, SavedAlone DEF ProofTypes
  <2>6. QED
    BY <2>4, <2>5 DEF ProofsInv
<1>8. ASSUME NEW r \in Proofs!Workers, Proofs!Download(r) PROVE ProofsInv'
  <2> DEFINE s == visit[r].copy
             a == visit[r].about
  <2>1. /\ visit[r].op = "download" /\ Proofs!Leave(r)
        /\ download' = IF Proofs!HasAccess(s, a) THEN [about |-> a, at |-> now] ELSE None
        /\ UNCHANGED <<servers, now, nonce, session, keys, password, accepted, reused, proved>>
    BY <1>8, Zenon DEF Proofs!Download
  <2>2. DownloadsAreProven'
    <3>1. CASE Proofs!HasAccess(s, a)
      <4>1. s.grant # None /\ s.grant.about = a /\ now - s.grant.at <= Lifetime
            /\ s.grant \in Grants
        BY <1>h, <2>1, <3>1 DEF Proofs!HasAccess, Copies
      <4>2. proved[a] # None /\ s.grant.at <= proved[a] /\ s.grant.at \in Nat
        BY <1>h, <2>1, <4>1 DEF Proven, Grants
      <4>3. a \in Certificates /\ now \in Nat
        BY <1>t, <2>1 DEF ProofTypes
      <4>4. download'.about = a /\ download'.at = now
        BY <2>1, <3>1
      <4> HIDE DEF a, s
      <4>5. now - proved[a] <= Lifetime
        BY <1>p, <4>1, <4>2, <4>3
      <4>6. QED
        BY <2>1, <4>2, <4>4, <4>5 DEF DownloadsAreProven, Proofs!DownloadsAreProven
    <3>2. CASE ~Proofs!HasAccess(s, a)
      BY <1>d, <2>1, <3>2
    <3>3. QED
      BY <3>1, <3>2
  <2>3. ProofTypes' /\ ProvenInv'
    BY <1>t, <1>q, <2>1, <2>2, Saved DEF ProofTypes, ProvenInv, Proven
  <2>4. servers' = 1 => OneWorkerInv'
    BY <1>t, <1>h, <1>o, <2>1, SavedAlone DEF ProofTypes, Unused
  <2>5. QED
    BY <2>3, <2>4 DEF ProofsInv
<1>9. ASSUME NEW r \in Proofs!Workers, Proofs!EndDelete(r), download' = None
      PROVE  ProofsInv'
  <2>1. /\ visit[r].op = "delete" /\ Proofs!Leave(r) /\ keys' = keys \ {visit[r].key}
        /\ UNCHANGED <<servers, now, nonce, session, password, accepted, reused, proved>>
    BY <1>9 DEF Proofs!EndDelete, Proofs!histories
  <2>2. ProofTypes' /\ ProvenInv'
    BY <1>t, <1>9, <1>d, <1>q, <2>1, Saved DEF ProofTypes, ProvenInv, Proven
  <2>3. ASSUME servers = 1 PROVE OneWorkerInv'
    <3>1. password \/ keys' # {}
      BY <1>t, <2>1, <2>3 DEF OneWorkerInv
    <3>2. visit[r] # Proofs!NoVisit
      BY <1>n, <2>1
    <3>3. QED
      BY <1>t, <1>o, <2>1, <2>3, <3>1, <3>2, SavedAlone DEF ProofTypes, Unused
  <2>4. QED
    BY <2>1, <2>2, <2>3 DEF ProofsInv
<1>10. CASE UNCHANGED proofVars
  <2>1. ProofTypes' /\ ProvenInv'
    BY <1>t, <1>w, <1>10 DEF proofVars, ProofTypes, ProvenInv, Proven, DownloadsAreProven,
                              Proofs!DownloadsAreProven
  <2>2. servers' = 1 => OneWorkerInv'
    BY <1>t, <1>w, <1>10 DEF proofVars, OneWorkerInv, Unused
  <2>3. QED
    BY <2>1, <2>2 DEF ProofsInv
<1>11. QED
  BY <1>1, <1>2, <1>3, <1>4, <1>5, <1>6, <1>7, <1>8, <1>9, <1>10
  DEF Proofs!StepUpNext, Proofs!Handle

\* which holds at first.
LEMMA InitProofs == Proofs!StepUpInit => ProofsInv
<1> SUFFICES ASSUME Proofs!StepUpInit PROVE ProofsInv
  OBVIOUS
<1> USE ProofsAssumption
<1>1. Proofs!NoVisit \in Visits /\ Proofs!NoVisit.op = "none" /\ Proofs!NoVisit.copy = None
  BY DEF Proofs!NoVisit, Visits, Operations
<1>2. /\ session \in Copies /\ session.grant = None /\ session.ceremony = None
      /\ now = 0 /\ nonce = 0 /\ accepted = {} /\ reused = FALSE /\ download = None
      /\ visit = [r \in Proofs!Workers |-> Proofs!NoVisit]
      /\ proved = [a \in Certificates |-> None]
      /\ password \/ keys # {}
  BY DEF Proofs!StepUpInit, Copies
<1>3. ProofTypes
  BY <1>1, <1>2 DEF ProofTypes
<1>4. ProvenInv
  BY <1>1, <1>2 DEF ProvenInv, Proven, DownloadsAreProven, Proofs!DownloadsAreProven
<1>5. OneWorkerInv
  BY <1>1, <1>2 DEF OneWorkerInv, Unused
<1>6. QED
  BY <1>3, <1>4, <1>5 DEF ProofsInv

\* The invariant of the step-up.
LEMMA ProofsAlways == SiteSpec => []ProofsInv
<1>1. SiteInit => ProofsInv
  BY InitProofs DEF SiteInit
<1>2. ProofsInv /\ [SiteNext]_siteVars => ProofsInv'
  BY NextProofs DEF SiteNext, siteVars
<1>3. QED
  BY <1>1, <1>2, PTL DEF SiteSpec

\* However requests at once overwrite each other's session, a certificate is downloaded
\* only within the lifetime of a proof that was about that certificate.
THEOREM CertificatesNeedAProof == SiteSpec => []DownloadsAreProven
<1>1. ProofsInv => DownloadsAreProven
  BY DEF ProofsInv, ProvenInv
<1>2. QED
  BY <1>1, ProofsAlways, PTL

\* One worker accepts no challenge twice, and no deletion of passkeys locks the account out.
THEOREM ChallengesProveOnce == SiteSpec => []ChallengesAreUsedOnce
<1>1. ProofsInv => ChallengesAreUsedOnce
  BY DEF ProofsInv, OneWorkerInv, ChallengesAreUsedOnce, Proofs!ChallengesAreUsedOnce
<1>2. QED
  BY <1>1, ProofsAlways, PTL

----------------------------------------------------------------------------
(***************************************************************************)
(* The assistant.  How far a request has come says what the audit log and  *)
(* the tables hold of it.                                                  *)
(***************************************************************************)
Changed == spent \cup wrote

\* How far a request is says what the audit log and the tables hold of it.
Audited(c) ==
    /\ call[c].at \in {"idle", "checked", "linking", "asking", "planned"} =>
          audit[c] = None /\ c \notin Changed
    /\ call[c].at = "acting" => audit[c] = "rejected" /\ c \notin Changed
    /\ call[c].at = "verifying" => audit[c] = "rejected" /\ c \in Changed
    /\ call[c].at = "finishing" =>
          /\ audit[c] = "rejected" /\ call[c].status \in Chat!Statuses
          /\ call[c].status = "completed" => c \in Changed
          /\ c \in Changed => call[c].status \in {"completed", "failed"}

ChatTypes ==
    /\ call \in [Calls -> Chat!Call]
    /\ said \subseteq Calls
    /\ audit \in [Calls -> Chat!Statuses \cup {None}]
    /\ files \in [Files -> Calls \cup {Chat!Absent, Chat!Unsent}]

\* One request at a time: nobody takes the files a request has found unsent.
StillUnsent ==
    parallel = 1 =>
        /\ \A c, d \in Calls : call[c].at \notin Chat!Ended /\ call[d].at \notin Chat!Ended => c = d
        /\ \A c \in Calls : call[c].at \in {"checked", "linking"} =>
              \A f \in call[c].files : files[f] = Chat!Unsent

ChatInv ==
    /\ ChatTypes
    /\ \A c \in Calls : Audited(c)
    /\ ChangesAreRecorded
    /\ StillUnsent

\* A request that moves on changes how far it is, and no other request.
LEMMA Moved ==
    ASSUME ChatTypes, NEW c \in Calls,
           NEW at \in {"linking", "asking", "acting", "verifying", "replying", "done", "dead"},
           Chat!Move(c, at)
    PROVE  /\ call' \in [Calls -> Chat!Call]
           /\ call'[c].at = at
           /\ at \notin Chat!Ended => /\ call'[c].files = call[c].files
                                      /\ call'[c].status = call[c].status
           /\ \A d \in Calls \ {c} : call'[d] = call[d]
<1> DEFINE k == IF at \in Chat!Ended THEN [Chat!Fresh EXCEPT !.at = at, !.dialog = call[c].dialog]
                ELSE [call[c] EXCEPT !.at = at]
<1>1. call[c] \in Chat!Call /\ call[c].dialog \in Dialogs \cup {None}
  BY DEF ChatTypes, Chat!Call
<1>2. /\ k \in Chat!Call /\ k.at = at
      /\ at \notin Chat!Ended => k.files = call[c].files /\ k.status = call[c].status
  BY <1>1 DEF Chat!Call, Chat!Fresh, Chat!Ended
<1>3. call' = [call EXCEPT ![c] = k]
  BY DEF Chat!Move
<1> HIDE DEF k
<1>4. QED
  BY <1>2, <1>3 DEF ChatTypes

\* A request that decides its status changes nothing else of itself.
LEMMA Decided ==
    ASSUME ChatTypes, NEW c \in Calls, NEW status \in Chat!Statuses, Chat!Decide(c, status)
    PROVE  /\ call' \in [Calls -> Chat!Call]
           /\ call'[c].at = "finishing" /\ call'[c].status = status
           /\ \A d \in Calls \ {c} : call'[d] = call[d]
<1> DEFINE k == [call[c] EXCEPT !.at = "finishing", !.status = status]
<1>1. k \in Chat!Call /\ k.at = "finishing" /\ k.status = status
  BY DEF ChatTypes, Chat!Call
<1>2. call' = [call EXCEPT ![c] = k]
  BY DEF ChatTypes, Chat!Call, Chat!Decide
<1> HIDE DEF k
<1>3. QED
  BY <1>1, <1>2 DEF ChatTypes

\* What request c has done is its own: the others keep what holds of them.
LEMMA OthersKeep ==
    ASSUME ChatInv, NEW c \in Calls, call' \in [Calls -> Chat!Call],
           audit' \in [Calls -> Chat!Statuses \cup {None}],
           said' \subseteq Calls,
           \A d \in Calls \ {c} : /\ call'[d] = call[d] /\ audit'[d] = audit[d]
                                  /\ d \in spent' <=> d \in spent
                                  /\ d \in wrote' <=> d \in wrote,
           UNCHANGED <<parallel, files>>,
           call[c].at \notin Chat!Ended,
           call'[c].at \in {"checked", "linking"} => call[c].at \in {"checked", "linking"} /\ call'[c].files = call[c].files,
           Audited(c)',
           /\ c \in Changed' => audit'[c] # None
           /\ audit'[c] = "completed" => c \in Changed'
           /\ audit'[c] = "rejected" /\ c \in Changed' => call'[c].at \in {"verifying", "finishing", "dead"}
    PROVE  ChatInv'
<1>1. ChatTypes'
  BY DEF ChatInv, ChatTypes
<1>2. \A d \in Calls : Audited(d)'
  BY DEF ChatInv, Audited, Changed
<1>3. ChangesAreRecorded'
  BY DEF ChatInv, ChangesAreRecorded, Chat!ChangesAreRecorded, Changed
<1>4. StillUnsent'
  BY DEF ChatInv, StillUnsent
<1>5. QED
  BY <1>1, <1>2, <1>3, <1>4 DEF ChatInv

\* Every step of the assistant keeps its invariant.
LEMMA NextChat == ChatInv /\ [Chat!ChatNext]_chatVars => ChatInv'
<1> SUFFICES ASSUME ChatInv, [Chat!ChatNext]_chatVars PROVE ChatInv'
  OBVIOUS
<1> USE ChatAssumption
<1>t. ChatTypes /\ call \in [Calls -> Chat!Call] /\ \A c \in Calls : Audited(c)
  BY DEF ChatInv, ChatTypes
<1>a. audit \in [Calls -> Chat!Statuses \cup {None}] /\ said \subseteq Calls
  BY DEF ChatInv, ChatTypes
<1>r. \A c \in Calls : /\ c \in Changed => audit[c] # None
                       /\ audit[c] = "completed" => c \in Changed
                       /\ audit[c] = "rejected" /\ c \in Changed => call[c].at \in {"verifying", "finishing", "dead"}
  BY DEF ChatInv, ChangesAreRecorded, Chat!ChangesAreRecorded, Changed
<1>s. "rejected" \in Chat!Statuses /\ "completed" \in Chat!Statuses
      /\ "failed" \in Chat!Statuses
      /\ "awaiting_input" \in Chat!Statuses
  BY DEF Chat!Statuses
<1>1. ASSUME NEW f \in Files, Chat!Upload(f) PROVE ChatInv'
  <2>1. /\ files[f] = Chat!Absent /\ files' = [files EXCEPT ![f] = Chat!Unsent]
        /\ UNCHANGED <<parallel, call, said, audit, spent, wrote>>
    BY <1>1 DEF Chat!Upload
  <2>2. ChatTypes'
    BY <1>t, <2>1 DEF ChatTypes
  <2>3. StillUnsent'
    BY <1>t, <2>1 DEF ChatInv, ChatTypes, StillUnsent, Chat!Call
  <2>4. QED
    BY <2>1, <2>2, <2>3
    DEF ChatInv, Audited, Changed, ChangesAreRecorded, Chat!ChangesAreRecorded
<1>2. ASSUME NEW c \in Calls, NEW d \in Dialogs, NEW fs \in SUBSET Files, Chat!Ask(c, d, fs)
      PROVE  ChatInv'
  <2> DEFINE k == IF Chat!Usable(fs) THEN [Chat!Fresh EXCEPT !.at = "checked", !.dialog = d, !.files = fs]
                                     ELSE [Chat!Fresh EXCEPT !.at = "done"]
  <2>1. /\ call[c].at = "idle" /\ call' = [call EXCEPT ![c] = k]
        /\ UNCHANGED <<parallel, said, files, audit, spent, wrote>>
    BY <1>2 DEF Chat!Ask
  <2>2. /\ k \in Chat!Call /\ k.at \in {"checked", "done"}
        /\ k.at = "checked" => k.files = fs /\ \A f \in fs : files[f] = Chat!Unsent
    BY DEF Chat!Fresh, Chat!Call, Chat!Usable, Chat!Ended
  <2> HIDE DEF k
  <2>3. /\ call' \in [Calls -> Chat!Call] /\ call'[c] = k
        /\ \A x \in Calls \ {c} : call'[x] = call[x]
    BY <1>t, <2>1, <2>2
  <2>4. ChatTypes' /\ \A x \in Calls : Audited(x)'
    BY <1>t, <2>1, <2>2, <2>3 DEF ChatTypes, Audited, Changed
  <2>5. ChangesAreRecorded'
    BY <1>r, <1>t, <2>1, <2>2, <2>3
    DEF ChangesAreRecorded, Chat!ChangesAreRecorded, Changed, Audited
  <2>6. StillUnsent'
    <3> SUFFICES ASSUME parallel = 1 PROVE StillUnsent'
      BY <2>1 DEF StillUnsent
    <3> DEFINE R == {x \in Calls : call[x].at \notin Chat!Ended}
    <3>1. Cardinality(R) < 1 /\ IsFiniteSet(R)
      BY <1>2, FS_Subset DEF Chat!Ask, Chat!Cardinality, Cardinality
    <3>2. R = {}
      <4> HIDE DEF R
      <4>1. QED
        BY <3>1, FS_EmptySet, FS_CardinalityType
    <3>3. QED
      BY <2>1, <2>2, <2>3, <3>2 DEF StillUnsent, Chat!Ended
  <2>7. QED
    BY <2>4, <2>5, <2>6 DEF ChatInv
<1>3. ASSUME NEW c \in Calls, Chat!Say(c) PROVE ChatInv'
  <2>1. PICK at \in {"asking", "linking"} : Chat!Move(c, at)
    BY <1>3 DEF Chat!Say
  <2>2. /\ call[c].at = "checked" /\ said' = said \cup {c}
        /\ UNCHANGED <<parallel, files, audit, spent, wrote>>
    BY <1>3 DEF Chat!Say
  <2>3. /\ call' \in [Calls -> Chat!Call]
        /\ call'[c].at = at
        /\ at \notin Chat!Ended => call'[c].files = call[c].files /\ call'[c].status = call[c].status
        /\ \A d \in Calls \ {c} : call'[d] = call[d]
    BY <1>t, <2>1, Moved
  <2>4. Audited(c)'
    BY <1>t, <2>2, <2>3 DEF Audited, Changed
  <2>5. QED
    BY <1>a, <1>r, <1>t, <2>2, <2>3, <2>4, OthersKeep DEF Changed, Audited, Chat!Ended
<1>4. ASSUME NEW c \in Calls, Chat!Link(c) PROVE ChatInv'
  <2>1. PICK at \in {"asking", "done"} : Chat!Move(c, at)
    BY <1>4 DEF Chat!Link
  <2>2. /\ call[c].at = "linking" /\ UNCHANGED <<parallel, said, audit, spent, wrote>>
        /\ \/ files' = [f \in Files |-> IF f \in call[c].files THEN c ELSE files[f]]
           \/ files' = files
    BY <1>4 DEF Chat!Link
  <2>3. /\ call' \in [Calls -> Chat!Call]
        /\ call'[c].at = at
        /\ \A d \in Calls \ {c} : call'[d] = call[d]
    BY <1>t, <2>1, Moved
  <2>4. ChatTypes'
    BY <1>t, <2>2, <2>3 DEF ChatTypes
  <2>5. \A x \in Calls : Audited(x)'
    BY <1>t, <2>2, <2>3 DEF Audited, Changed
  <2>6. ChangesAreRecorded'
    BY <1>r, <1>t, <2>2, <2>3
    DEF ChangesAreRecorded, Chat!ChangesAreRecorded, Changed, Audited
  <2>7. StillUnsent'
    BY <2>2, <2>3 DEF ChatInv, StillUnsent, Chat!Ended
  <2>8. QED
    BY <2>4, <2>5, <2>6, <2>7 DEF ChatInv
<1>5. ASSUME NEW c \in Calls, Chat!Answered(c) PROVE ChatInv'
  <2>1. PICK at \in {"replying", "done"} : Chat!Move(c, at)
    BY <1>5 DEF Chat!Answered
  <2>2. call[c].at = "asking" /\ UNCHANGED <<parallel, said, files, audit, spent, wrote>>
    BY <1>5 DEF Chat!Answered
  <2>3. /\ call' \in [Calls -> Chat!Call]
        /\ call'[c].at = at
        /\ \A d \in Calls \ {c} : call'[d] = call[d]
    BY <1>t, <2>1, Moved
  <2>4. QED
    BY <1>a, <1>r, <1>t, <2>2, <2>3, OthersKeep DEF Changed, Audited, Chat!Ended
<1>6. ASSUME NEW c \in Calls, NEW p \in Chat!Plans, NEW t \in Terms \cup {None}, Chat!Planned(c, p, t) PROVE ChatInv'
  <2> DEFINE k == [call[c] EXCEPT !.at = "planned", !.plan = p, !.terms = t]
  <2>1. k \in Chat!Call /\ k.at = "planned"
    BY <1>t DEF Chat!Call
  <2>2. /\ call[c].at = "asking" /\ call' = [call EXCEPT ![c] = k]
        /\ UNCHANGED <<parallel, said, files, audit, spent, wrote>>
    BY <1>t, <1>6 DEF Chat!Planned, Chat!Call
  <2> HIDE DEF k
  <2>3. /\ call' \in [Calls -> Chat!Call]
        /\ call'[c].at = "planned"
        /\ \A d \in Calls \ {c} : call'[d] = call[d]
    BY <1>t, <2>1, <2>2
  <2>4. QED
    BY <1>a, <1>r, <1>t, <2>2, <2>3, OthersKeep DEF Changed, Audited, Chat!Ended
<1>7. ASSUME NEW c \in Calls, Chat!Record(c) PROVE ChatInv'
  <2>1. /\ call[c].at = "planned" /\ UNCHANGED <<parallel, said, files, spent, wrote>>
        /\ \/ audit' = [audit EXCEPT ![c] = "rejected"] /\ Chat!Move(c, "acting")
           \/ audit' = audit /\ Chat!Move(c, "done")
    BY <1>7 DEF Chat!Record
  <2>2. /\ call' \in [Calls -> Chat!Call]
        /\ \/ call'[c].at = "acting" /\ audit'[c] = "rejected"
           \/ call'[c].at = "done" /\ audit'[c] = audit[c]
        /\ \A d \in Calls \ {c} : call'[d] = call[d]
    BY <1>a, <1>t, <2>1, Moved
  <2>3. audit' \in [Calls -> Chat!Statuses \cup {None}]
        /\ \A d \in Calls \ {c} : audit'[d] = audit[d]
    BY <1>a, <1>s, <2>1
  <2>4. QED
    BY <1>a, <1>r, <1>s, <1>t, <2>1, <2>2, <2>3, OthersKeep DEF Changed, Audited, Chat!Ended
<1>8. ASSUME NEW c \in Calls, Chat!Act(c) PROVE ChatInv'
  <2>1. call[c].at = "acting" /\ UNCHANGED <<parallel, said, files, audit>>
    BY <1>8 DEF Chat!Act
  <2>2. \/ /\ UNCHANGED <<spent, wrote>>
           /\ \E status \in {"rejected", "failed", "awaiting_input"} : Chat!Decide(c, status)
        \/ /\ spent' = spent \cup {c} /\ wrote' = wrote /\ Chat!Decide(c, "completed")
        \/ /\ wrote' = wrote \cup {c} /\ spent' = spent /\ Chat!Move(c, "verifying")
    BY <1>8 DEF Chat!Act, Chat!Refused, Chat!Spend, Chat!WriteTerms
  <2>3. /\ call' \in [Calls -> Chat!Call]
        /\ \A d \in Calls \ {c} : call'[d] = call[d]
        /\ \/ /\ UNCHANGED <<spent, wrote>>
              /\ call'[c].at = "finishing"
              /\ call'[c].status \in {"rejected", "failed", "awaiting_input"}
           \/ /\ spent' = spent \cup {c} /\ wrote' = wrote
              /\ call'[c].at = "finishing" /\ call'[c].status = "completed"
           \/ wrote' = wrote \cup {c} /\ spent' = spent /\ call'[c].at = "verifying"
    BY <1>s, <1>t, <2>2, Moved, Decided
  <2>4. Audited(c)'
    BY <1>s, <1>t, <2>1, <2>3 DEF Audited, Changed
  <2>5. QED
    BY <1>a, <1>r, <1>s, <1>t, <2>1, <2>3, <2>4, OthersKeep DEF Changed, Audited, Chat!Ended
<1>9. ASSUME NEW c \in Calls, Chat!VerifyTerms(c) PROVE ChatInv'
  <2>1. /\ call[c].at = "verifying"
        /\ UNCHANGED <<parallel, said, files, audit, spent, wrote>>
        /\ \E status \in {"completed", "failed"} : Chat!Decide(c, status)
    BY <1>9 DEF Chat!VerifyTerms
  <2>2. /\ call' \in [Calls -> Chat!Call]
        /\ \A d \in Calls \ {c} : call'[d] = call[d]
        /\ call'[c].at = "finishing" /\ call'[c].status \in {"completed", "failed"}
    BY <1>s, <1>t, <2>1, Decided
  <2>3. Audited(c)'
    BY <1>s, <1>t, <2>1, <2>2 DEF Audited, Changed
  <2>4. QED
    BY <1>a, <1>r, <1>t, <2>1, <2>2, <2>3, OthersKeep DEF Changed, Audited, Chat!Ended
<1>10. ASSUME NEW c \in Calls, Chat!Finish(c) PROVE ChatInv'
  <2>1. /\ call[c].at = "finishing" /\ UNCHANGED <<parallel, said, files, spent, wrote>>
        /\ audit' = [audit EXCEPT ![c] = call[c].status] /\ Chat!Move(c, "replying")
    BY <1>10 DEF Chat!Finish
  <2>2. call[c].status \in Chat!Statuses /\ (call[c].status = "completed" => c \in Changed)
        /\ (c \in Changed => call[c].status \in {"completed", "failed"})
    BY <1>t, <2>1 DEF Audited
  <2>3. /\ audit' \in [Calls -> Chat!Statuses \cup {None}] /\ audit'[c] = call[c].status
        /\ \A d \in Calls \ {c} : audit'[d] = audit[d]
    BY <1>a, <2>1, <2>2
  <2>4. /\ call' \in [Calls -> Chat!Call]
        /\ call'[c].at = "replying"
        /\ \A d \in Calls \ {c} : call'[d] = call[d]
    BY <1>t, <2>1, Moved
  <2>5. QED
    BY <1>a, <1>t, <2>1, <2>2, <2>3, <2>4, OthersKeep DEF Changed, Audited, Chat!Ended
<1>11. ASSUME NEW c \in Calls, Chat!Reply(c) PROVE ChatInv'
  <2>1. /\ call[c].at = "replying"
        /\ UNCHANGED <<parallel, said, files, audit, spent, wrote>>
        /\ Chat!Move(c, "done")
    BY <1>11 DEF Chat!Reply
  <2>2. /\ call' \in [Calls -> Chat!Call]
        /\ call'[c].at = "done"
        /\ \A d \in Calls \ {c} : call'[d] = call[d]
    BY <1>t, <2>1, Moved
  <2>3. QED
    BY <1>a, <1>r, <1>t, <2>1, <2>2, OthersKeep DEF Changed, Audited, Chat!Ended
<1>12. ASSUME NEW d \in Dialogs, Chat!DeleteConversation(d) PROVE ChatInv'
  <2> DEFINE gone == {c \in Calls : call[c].dialog = d}
  <2>1. /\ said' = said \ gone
        /\ files' = [f \in Files |-> IF files[f] \in gone \cap said THEN Chat!Unsent ELSE files[f]]
        /\ UNCHANGED <<parallel, call, audit, spent, wrote>>
    BY <1>12 DEF Chat!DeleteConversation
  <2> HIDE DEF gone
  <2>2. ChatTypes'
    BY <1>t, <2>1 DEF ChatTypes
  <2>3. StillUnsent'
    BY <1>t, <2>1 DEF ChatInv, ChatTypes, StillUnsent, Chat!Call
  <2>4. QED
    BY <2>1, <2>2, <2>3
    DEF ChatInv, Audited, Changed, ChangesAreRecorded, Chat!ChangesAreRecorded
<1>13. ASSUME NEW c \in Calls, Chat!WorkerDies(c) PROVE ChatInv'
  <2>1. /\ call[c].at \notin Chat!Ended
        /\ UNCHANGED <<parallel, said, files, audit, spent, wrote>>
        /\ Chat!Move(c, "dead")
    BY <1>13 DEF Chat!WorkerDies
  <2>2. /\ call' \in [Calls -> Chat!Call]
        /\ call'[c].at = "dead"
        /\ \A x \in Calls \ {c} : call'[x] = call[x]
    BY <1>t, <2>1, Moved
  <2>3. QED
    BY <1>a, <1>r, <1>t, <2>1, <2>2, OthersKeep DEF Changed, Audited, Chat!Ended
<1>14. CASE (\E t \in Terms : Chat!EditAsset(t)) \/ UNCHANGED chatVars
  <2>1. UNCHANGED <<parallel, call, said, files, audit, spent, wrote>>
    BY <1>14 DEF Chat!EditAsset, chatVars
  <2>2. QED
    BY <2>1
    DEF ChatInv, ChatTypes, StillUnsent, Audited, Changed, ChangesAreRecorded,
        Chat!ChangesAreRecorded
<1>15. QED
  <2>1. "update_asset_terms" \in Chat!Plans
    BY DEF Chat!Plans
  <2>2. QED
    BY <1>1, <1>2, <1>3, <1>4, <1>5, <1>6, <1>7, <1>8, <1>9, <1>10, <1>11, <1>12, <1>13,
       <1>14, <2>1
    DEF Chat!ChatNext

\* The invariant of the assistant holds at first,
LEMMA InitChat == Chat!ChatInit => ChatInv
<1> SUFFICES ASSUME Chat!ChatInit PROVE ChatInv
  OBVIOUS
<1>1. /\ call = [c \in Calls |-> Chat!Fresh] /\ said = {} /\ spent = {} /\ wrote = {}
      /\ audit = [c \in Calls |-> None] /\ files = [f \in Files |-> Chat!Absent]
  BY DEF Chat!ChatInit
<1>2. Chat!Fresh \in Chat!Call /\ Chat!Fresh.at = "idle"
  BY DEF Chat!Fresh, Chat!Call, Chat!Ended
<1>3. \A c \in Calls : call[c] = Chat!Fresh /\ audit[c] = None
  BY <1>1
<1>4. ChatTypes
  BY <1>1, <1>2 DEF ChatTypes
<1>5. \A c \in Calls : Audited(c)
  BY <1>1, <1>2, <1>3 DEF Audited, Changed
<1>6. ChangesAreRecorded
  BY <1>1, <1>3, ChatAssumption
  DEF ChangesAreRecorded, Chat!ChangesAreRecorded, Chat!Statuses
<1>7. StillUnsent
  BY <1>2, <1>3 DEF StillUnsent, Chat!Ended
<1>8. QED
  BY <1>4, <1>5, <1>6, <1>7 DEF ChatInv

\* The invariant of the assistant.
LEMMA ChatAlways == SiteSpec => []ChatInv
<1>1. SiteInit => ChatInv
  BY InitChat DEF SiteInit
<1>2. ChatInv /\ [SiteNext]_siteVars => ChatInv'
  BY NextChat DEF SiteNext, siteVars
<1>3. QED
  BY <1>1, <1>2, PTL DEF SiteSpec

\* The audit log says what the assistant has changed, whatever fails on the way and
\* whoever deletes the conversation.
THEOREM TheAuditLogIsRight == SiteSpec => []ChangesAreRecorded
<1>1. ChatInv => ChangesAreRecorded
  BY DEF ChatInv
<1>2. QED
  BY <1>1, ChatAlways, PTL

\* One request at a time: only the deletion of its message takes a file from it.
THEOREM FilesAreNotTaken == SiteSpec => FilesStayWithMessage
<1> DEFINE Stay == parallel = 1 => \A f \in Files : files[f] \in said' => files'[f] = files[f]
<1>1. ChatInv /\ [SiteNext]_siteVars => [Stay]_(Chat!chatVars)
  <2> SUFFICES ASSUME ChatInv, [Chat!ChatNext]_chatVars, parallel = 1, NEW f \in Files,
                      files[f] \in said'
               PROVE  files'[f] = files[f]
    BY DEF SiteNext, siteVars, chatVars, Chat!chatVars
  <2>1. files \in [Files -> Calls \cup {Chat!Absent, Chat!Unsent}] /\ said \subseteq Calls
    BY DEF ChatInv, ChatTypes
  <2>2. ASSUME NEW g \in Files, Chat!Upload(g) PROVE files'[f] = files[f]
    BY <2>1, <2>2, ChatAssumption DEF Chat!Upload
  <2>3. ASSUME NEW c \in Calls, Chat!Link(c) PROVE files'[f] = files[f]
    <3>1. \A g \in call[c].files : files[g] = Chat!Unsent
      BY <2>3 DEF ChatInv, StillUnsent, Chat!Link
    <3>2. f \notin call[c].files
      BY <2>1, <2>3, <3>1, ChatAssumption DEF Chat!Link
    <3>3. QED
      BY <2>3, <3>2 DEF Chat!Link
  <2>4. ASSUME NEW d \in Dialogs, Chat!DeleteConversation(d) PROVE files'[f] = files[f]
    BY <2>4 DEF Chat!DeleteConversation
  <2>5. CASE UNCHANGED files
    BY <2>5
  <2>6. QED
    BY <2>2, <2>3, <2>4, <2>5
    DEF Chat!ChatNext, Chat!Ask, Chat!Say, Chat!Answered, Chat!Planned, Chat!Record,
        Chat!Act, Chat!VerifyTerms,
        Chat!Finish, Chat!Reply, Chat!EditAsset, Chat!WorkerDies, chatVars
<1>2. QED
  BY <1>1, ChatAlways, PTL DEF SiteSpec, FilesStayWithMessage, Chat!FilesStayWithMessage

----------------------------------------------------------------------------
(***************************************************************************)
(* The sandbox.  A run that pays remembers which payment is its own.       *)
(***************************************************************************)
\* With one run at a time, nobody but the run that settles has changed what it agreed on.
OneRunAtATime ==
    limit = 1 => /\ \A r, q \in Show!Running : r = q
                 /\ \A r \in Runs : run[r].at = "settle" => run[r].deal = agreed

ShowInv ==
    /\ limit \in 1..2
    /\ paid \in [Payments -> [amount: Prices, session: BOOLEAN] \cup {None}]
    /\ run \in [Runs -> Show!Run]
    /\ \A r \in Runs : run[r].at \in {"get", "negotiate", "settle", "success"} => run[r].tx \in Payments
    /\ \A r \in Runs : run[r].at = "success" => paid[run[r].tx] # None
    /\ OneRunAtATime
    /\ SuccessIsTheDeal

\* A step of a run changes how far it is, and no other run.
LEMMA RunSteps ==
    ASSUME run \in [Runs -> Show!Run], NEW r \in Runs,
           NEW at \in {"negotiate", "failed", "success"}, Show!Step(r, at)
    PROVE  /\ run' \in [Runs -> Show!Run]
           /\ run'[r].at = at /\ run'[r].tx = run[r].tx /\ run'[r].deal = run[r].deal
           /\ \A q \in Runs \ {r} : run'[q] = run[q]
<1> DEFINE k == [run[r] EXCEPT !.at = at]
<1>1. run[r] \in Show!Run
  OBVIOUS
<1>2. k \in Show!Run /\ k.at = at /\ k.tx = run[r].tx /\ k.deal = run[r].deal
  BY <1>1 DEF Show!Run
<1>3. run' = [run EXCEPT ![r] = k]
  BY DEF Show!Step
<1> HIDE DEF k
<1>4. QED
  BY <1>2, <1>3

\* Every step of the sandbox keeps its invariant,
LEMMA NextShow == ShowInv /\ [Show!SandboxNext]_showVars => ShowInv'
<1> SUFFICES ASSUME ShowInv, [Show!SandboxNext]_showVars PROVE ShowInv'
  OBVIOUS
<1> USE ShowAssumption
    DEF ShowInv, OneRunAtATime, SuccessIsTheDeal, Show!SuccessIsTheDeal, Show!Running
<1>1. ASSUME NEW w, Show!ChangeWork(w) PROVE ShowInv'
  BY <1>1 DEF Show!ChangeWork
<1>2. ASSUME NEW t \in Payments, NEW p \in Prices, NEW s \in BOOLEAN, Show!Pay(t, p, s)
      PROVE  ShowInv'
  <2> DEFINE m == [amount |-> p, session |-> s]
  <2>1. m \in [amount: Prices, session: BOOLEAN] /\ paid' = [paid EXCEPT ![t] = m]
    BY <1>2, Zenon DEF Show!Pay
  <2>2. paid[t] = None
    BY <1>2 DEF Show!Pay
  <2>3. UNCHANGED <<limit, run, agreed, licensed>>
    BY <1>2 DEF Show!Pay
  <2> HIDE DEF m
  <2>4. \A x \in Payments : paid[x] # None => paid'[x] = paid[x] /\ paid'[x] # None
    BY <2>1, <2>2
  <2>5. QED
    BY <2>1, <2>3, <2>4
<1>3. ASSUME NEW r \in Runs, NEW t \in Payments, Show!Start(r, t) PROVE ShowInv'
  <2>1. PICK k \in Show!Run : /\ run' = [run EXCEPT ![r] = k]
                              /\ k.at \in {"get", "not found"}
                              /\ k.at = "get" => k.tx = t
    <3>1. [Show!Fresh EXCEPT !.at = "not found"] \in Show!Run /\ Show!Begun(t) \in Show!Run
      BY DEF Show!Fresh, Show!Run, Show!Begun
    <3>2. [Show!Fresh EXCEPT !.at = "not found"].at = "not found"
             /\ Show!Begun(t).at = "get" /\ Show!Begun(t).tx = t
      BY DEF Show!Fresh, Show!Begun
    <3>3. QED
      BY <1>3, <3>1, <3>2, Zenon DEF Show!Start
  <2>2. limit = 2 \/ Show!Running = {}
    BY <1>3 DEF Show!Start
  <2>3. UNCHANGED <<limit, paid, agreed, licensed>>
    BY <1>3 DEF Show!Start
  <2>4. /\ run' \in [Runs -> Show!Run] /\ run'[r] = k
        /\ \A q \in Runs \ {r} : run'[q] = run[q]
    BY <2>1
  <2>5. limit' \in 1..2 /\ SuccessIsTheDeal'
    <3>1. run'[r].at # "success"
      BY <2>1, <2>4
    <3>2. \A q \in Runs : run'[q].at = "success" => run'[q] = run[q]
      BY <2>4, <3>1
    <3>3. QED
      BY <2>3, <3>2
  <2>6. OneRunAtATime'
    <3> SUFFICES ASSUME limit = 1 PROVE OneRunAtATime'
      BY <2>3
    <3>1. \A q \in Runs \ {r} : run'[q].at \notin {"get", "negotiate", "settle"}
      BY <2>2, <2>4
    <3>2. run'[r].at # "settle"
      BY <2>1, <2>4
    <3>3. QED
      BY <3>1, <3>2
  <2>7. QED
    BY <2>1, <2>3, <2>4, <2>5, <2>6
<1>4. ASSUME NEW r \in Runs, NEW p \in Prices, Show!Accepted(r, p) PROVE ShowInv'
  <2> DEFINE k == [run[r] EXCEPT !.at = "settle", !.deal = p]
  <2>1. k \in Show!Run /\ k.at = "settle" /\ k.deal = p /\ k.tx = run[r].tx
    <3>1. run[r] \in Show!Run
      OBVIOUS
    <3>2. QED
      BY <3>1 DEF Show!Run
  <2>2. run' = [run EXCEPT ![r] = k]
    BY <1>4 DEF Show!Accepted
  <2>3. UNCHANGED <<limit, paid, licensed>> /\ agreed' = p /\ run[r].at = "negotiate"
    BY <1>4 DEF Show!Accepted
  <2> HIDE DEF k
  <2>4. QED
    BY <2>1, <2>2, <2>3
<1>5. ASSUME NEW r \in Runs, Show!Get(r) PROVE ShowInv'
  <2>1. \E at \in {"negotiate", "failed"} : Show!Step(r, at)
    BY <1>5 DEF Show!Get, Show!Fail
  <2>2. QED
    BY <1>5, <2>1, RunSteps DEF Show!Get
<1>6. ASSUME NEW r \in Runs, Show!NotAccepted(r) PROVE ShowInv'
  <2>1. Show!Step(r, "failed")
    BY <1>6 DEF Show!NotAccepted, Show!Fail
  <2>2. QED
    BY <1>6, <2>1, RunSteps DEF Show!NotAccepted
<1>7. ASSUME NEW r \in Runs, Show!Settle(r) PROVE ShowInv'
  <2>1. CASE Show!Step(r, "failed")
    BY <1>7, <2>1, RunSteps DEF Show!Settle
  <2>2. CASE ~ Show!Step(r, "failed") /\ Show!Step(r, "success")
    <3>1. /\ run[r].at = "settle" /\ run[r].tx \in Payments
          /\ licensed' = licensed \cup {run[r].tx}
          /\ UNCHANGED <<limit, agreed, paid>>
          /\ Show!Valid(run[r].tx)
      BY <1>7, <2>2, Zenon DEF Show!Settle, Show!Fail
    <3>2. paid[run[r].tx] # None /\ paid[run[r].tx] = [amount |-> agreed, session |-> TRUE]
      BY <3>1 DEF Show!Valid
    <3>3. /\ run' \in [Runs -> Show!Run]
          /\ run'[r].at = "success" /\ run'[r].tx = run[r].tx /\ run'[r].deal = run[r].deal
          /\ \A q \in Runs \ {r} : run'[q] = run[q]
      BY <2>2, RunSteps
    <3>4. SuccessIsTheDeal'
      <4> SUFFICES ASSUME NEW q \in Runs, run'[q].at = "success"
                   PROVE  /\ run'[q].tx \in licensed'
                          /\ limit = 1 => paid[run'[q].tx] = [amount |-> run'[q].deal, session |-> TRUE]
        BY <3>1
      <4>1. CASE q = r
        BY <3>1, <3>2, <3>3, <4>1
      <4>2. CASE q # r
        BY <3>1, <3>3, <4>2
      <4>3. QED
        BY <4>1, <4>2
    <3>5. OneRunAtATime'
      BY <3>1, <3>3
    <3>6. QED
      BY <3>1, <3>2, <3>3, <3>4, <3>5
  <2>3. QED
    BY <1>7, <2>1, <2>2 DEF Show!Settle, Show!Fail
<1>8. CASE UNCHANGED showVars
  BY <1>8 DEF showVars
<1>9. QED
  BY <1>1, <1>2, <1>3, <1>4, <1>5, <1>6, <1>7, <1>8 DEF Show!SandboxNext

\* which holds at first.
LEMMA InitShow == Show!SandboxInit => ShowInv
<1> SUFFICES ASSUME Show!SandboxInit PROVE ShowInv
  OBVIOUS
<1>1. /\ limit \in 1..2 /\ paid = [t \in Payments |-> None] /\ licensed = {}
      /\ run = [r \in Runs |-> Show!Fresh]
  BY DEF Show!SandboxInit
<1>2. Show!Fresh \in Show!Run /\ Show!Fresh.at = "idle"
  BY DEF Show!Fresh, Show!Run
<1>3. QED
  BY <1>1, <1>2
  DEF ShowInv, OneRunAtATime, Show!Running, SuccessIsTheDeal, Show!SuccessIsTheDeal

\* A run that shows success has a License, and with one run at a time the License was
\* bought with a payment of exactly the deal the run shows.
THEOREM SuccessShowsTheDeal == SiteSpec => []SuccessIsTheDeal
<1>1. SiteInit => ShowInv
  BY InitShow DEF SiteInit
<1>2. ShowInv /\ [SiteNext]_siteVars => ShowInv'
  BY NextShow DEF SiteNext, siteVars
<1>3. ShowInv => SuccessIsTheDeal
  BY DEF ShowInv
<1>4. QED
  BY <1>1, <1>2, <1>3, PTL DEF SiteSpec

----------------------------------------------------------------------------
(***************************************************************************)
(* Downloads.  A link opens a License for as long as the work is there, and *)
(* a download has read what its own steps have read.                       *)
(***************************************************************************)
Fetches == [at: Shelf!Ended \cup {"work", "cover", "gallery", "images"}, link: ToldLinks \cup {None},
            on: Nat, files: SUBSET Shelf!WholeWork, due: SUBSET Gallery]

ShelfTypes ==
    /\ day \in Nat
    /\ stored \subseteq Shelf!WholeWork
    /\ license \in [Sales -> Licenses \cup {None}]
    /\ links \subseteq ToldLinks
    /\ fetch \in Fetches

\* A License is the one of its payment and lasts the right it was granted for.
GrantedOnce ==
    \A s \in Sales : license[s] # None =>
        license[s].token.sale = s /\ license[s].expires = license[s].token.day + Right

\* Every link that was told opens a License, as long as the work is not deleted.
LinksOpen ==
    \A link \in links : offer # "deleted" =>
        license[link.token.sale] # None /\ license[link.token.sale].token = link.token

\* What the download has read so far.
Fetched ==
    LET token == fetch.link.token
        lapsed == fetch.on >= token.day + Right
    IN  /\ fetch.at # "none" => fetch.link \in links
        /\ fetch.at \in {"work", "cover", "gallery", "images", "served", "purged"} => ~lapsed
        /\ fetch.at \in {"gallery", "images"} => fetch.files = {Shelf!Cover}
        /\ fetch.at = "images" => fetch.due = Gallery \/ offer = "deleted"

ShelfInv == ShelfTypes /\ GrantedOnce /\ LinksOpen /\ Fetched /\ LinksServeTheWork

\* The parts of the invariant that speak of a step that leaves the download alone.
LEMMA NextShelfTypes == ShelfTypes /\ GrantedOnce /\ LinksOpen /\ [Shelf!DeliveryNext]_shelfVars =>
                            ShelfTypes' /\ GrantedOnce' /\ LinksOpen'
                            /\ links \subseteq links'
<1> SUFFICES ASSUME ShelfTypes, GrantedOnce, LinksOpen, [Shelf!DeliveryNext]_shelfVars
             PROVE  ShelfTypes' /\ GrantedOnce' /\ LinksOpen' /\ links \subseteq links'
  OBVIOUS
<1> USE ShelfAssumption
<1>f. fetch \in Fetches /\ fetch.link \in ToldLinks \cup {None}
  BY DEF ShelfTypes, Fetches
<1>1. CASE Shelf!Tomorrow
  BY <1>1 DEF Shelf!Tomorrow, ShelfTypes, GrantedOnce, LinksOpen
<1>2. ASSUME NEW v \in {"public", "private"}, Shelf!Expose(v)
      PROVE  ShelfTypes' /\ GrantedOnce' /\ LinksOpen' /\ links \subseteq links'
  BY <1>2 DEF Shelf!Expose, ShelfTypes, GrantedOnce, LinksOpen
<1>3. CASE Shelf!DeleteWork
  BY <1>3 DEF Shelf!DeleteWork, ShelfTypes, GrantedOnce, LinksOpen
<1>4. ASSUME NEW f \in Shelf!WholeWork, Shelf!Purge(f)
      PROVE  ShelfTypes' /\ GrantedOnce' /\ LinksOpen' /\ links \subseteq links'
  BY <1>4 DEF Shelf!Purge, ShelfTypes, GrantedOnce, LinksOpen
<1>5. ASSUME NEW s \in Sales, NEW u \in Shelf!Buyers, UNCHANGED <<day, offer, stored, fetch>>, Shelf!Told(s, u),
             license' \in [Sales -> Licenses \cup {None}], GrantedOnce', license'[s] # None,
             \A x \in Sales : license[x] # None => license'[x] = license[x]
      PROVE  ShelfTypes' /\ GrantedOnce' /\ LinksOpen' /\ links \subseteq links'
  <2> DEFINE l == [holder |-> u, token |-> license'[s].token]
  <2>1. links' = links \cup {l}
    BY <1>5, Zenon DEF Shelf!Told
  <2>2. license'[s] \in Licenses /\ license'[s].token \in Tokens
        /\ license'[s].token.sale = s
    BY <1>5 DEF GrantedOnce, Licenses
  <2>3. l \in ToldLinks /\ l.token = license'[s].token
    BY <2>2 DEF ToldLinks
  <2> HIDE DEF l
  <2>4. ShelfTypes'
    BY <1>5, <2>1, <2>3 DEF ShelfTypes
  <2>5. LinksOpen'
    <3> SUFFICES ASSUME NEW link \in links', offer # "deleted"
                 PROVE  license'[link.token.sale] # None /\ license'[link.token.sale].token = link.token
      BY <1>5 DEF LinksOpen
    <3>1. CASE link = l
      BY <1>5, <2>2, <2>3, <3>1
    <3>2. CASE link \in links
      <4>1. link \in ToldLinks
        BY <3>2 DEF ShelfTypes
      <4>2. link.token.sale \in Sales
        BY <4>1 DEF ToldLinks, Tokens
      <4>3. QED
        BY <1>5, <3>2, <4>2 DEF LinksOpen
    <3>3. QED
      BY <2>1, <3>1, <3>2
  <2>6. QED
    BY <1>5, <2>1, <2>4, <2>5
<1>6. ASSUME NEW s \in Sales, NEW u \in Shelf!Buyers, Shelf!Settle(s, u)
      PROVE  ShelfTypes' /\ GrantedOnce' /\ LinksOpen' /\ links \subseteq links'
  <2>1. license' = Shelf!Granted(s, u) /\ UNCHANGED <<day, offer, stored, fetch>>
        /\ Shelf!Told(s, u)
    BY <1>6 DEF Shelf!Settle
  <2>2. CASE license[s] # None
    BY <1>5, <2>1, <2>2 DEF Shelf!Granted, ShelfTypes, GrantedOnce
  <2>3. CASE license[s] = None
    <3> DEFINE k == Shelf!Fresh(s, u)
    <3>1. license' = [license EXCEPT ![s] = k]
      BY <2>1, <2>3 DEF Shelf!Granted
    <3>2. /\ k \in Licenses /\ k # None /\ k.token.sale = s
          /\ k.expires = k.token.day + Right
      BY DEF Shelf!Fresh, Licenses, Tokens, ShelfTypes
    <3> HIDE DEF k
    <3>3. /\ license' \in [Sales -> Licenses \cup {None}] /\ license'[s] = k
          /\ \A x \in Sales \ {s} : license'[x] = license[x]
      BY <3>1, <3>2 DEF ShelfTypes
    <3>4. GrantedOnce'
      BY <3>2, <3>3 DEF GrantedOnce
    <3>5. QED
      BY <1>5, <2>1, <2>3, <3>2, <3>3, <3>4
  <2>4. QED
    BY <2>2, <2>3
<1>7. ASSUME NEW s \in Sales, NEW u \in Shelf!Buyers, Shelf!Fulfil(s, u)
      PROVE  ShelfTypes' /\ GrantedOnce' /\ LinksOpen' /\ links \subseteq links'
  BY <1>5, <1>7 DEF Shelf!Fulfil, Shelf!Active, ShelfTypes, GrantedOnce
<1>8. ASSUME NEW u \in Users, Shelf!ShowPage(u)
      PROVE  ShelfTypes' /\ GrantedOnce' /\ LinksOpen' /\ links \subseteq links'
  <2>1. PICK s \in Sales : license' = license /\ Shelf!Told(s, u) /\ Shelf!Active(s)
    BY <1>8 DEF Shelf!ShowPage, Shelf!Newest
  <2>2. UNCHANGED <<day, offer, stored, fetch>> /\ u \in Shelf!Buyers /\ license[s] # None
    BY <1>8, <2>1 DEF Shelf!ShowPage, Shelf!Active, Shelf!Buyers
  <2>3. QED
    BY <1>5, <2>1, <2>2 DEF ShelfTypes, GrantedOnce
<1>9. ASSUME NEW k \in Fetches, UNCHANGED <<day, offer, stored, license, links>>, fetch' = k
      PROVE  ShelfTypes' /\ GrantedOnce' /\ LinksOpen' /\ links \subseteq links'
  BY <1>9 DEF ShelfTypes, GrantedOnce, LinksOpen
<1>10. ASSUME NEW link \in links, Shelf!Begin(link)
       PROVE  ShelfTypes' /\ GrantedOnce' /\ LinksOpen' /\ links \subseteq links'
  <2> DEFINE k == [Shelf!NoFetch EXCEPT !.at = IF Shelf!Valid(link) THEN "work" ELSE "refused",
                                        !.link = link, !.on = day]
  <2>1. fetch' = k /\ UNCHANGED <<day, offer, stored, license, links>>
    BY <1>10 DEF Shelf!Begin, Shelf!World
  <2>2. k \in Fetches
    <3>1. link \in ToldLinks /\ day \in Nat
      BY DEF ShelfTypes
    <3>2. QED
      BY <3>1 DEF Shelf!NoFetch, Fetches, Shelf!Ended
  <2>3. QED
    BY <1>9, <2>1, <2>2
<1>11. CASE Shelf!Download
  <2>1. ASSUME NEW at \in {"error", "cover", "purged"}, fetch' = [fetch EXCEPT !.at = at]
        PROVE  fetch' \in Fetches
    BY <1>f, <2>1 DEF Fetches, Shelf!Ended
  <2>2. ASSUME fetch' = [fetch EXCEPT !.at = "gallery", !.files = {Shelf!Cover}]
        PROVE  fetch' \in Fetches
    BY <1>f, <2>2 DEF Fetches, Shelf!WholeWork
  <2>3. ASSUME NEW due \in SUBSET Gallery, fetch' = [fetch EXCEPT !.at = "images", !.due = due] PROVE fetch' \in Fetches
    BY <1>f, <2>3 DEF Fetches
  <2>4. ASSUME fetch' = [fetch EXCEPT !.at = "served", !.files = @ \cup (fetch.due \cap stored)] PROVE fetch' \in Fetches
    BY <1>f, <2>4 DEF Fetches, Shelf!Ended, Shelf!WholeWork
  <2>5. UNCHANGED <<day, offer, stored, license, links>> /\ fetch' \in Fetches
    BY <1>11, <2>1, <2>2, <2>3, <2>4
    DEF Shelf!Download, Shelf!ReadWork, Shelf!ReadCover, Shelf!ListGallery,
        Shelf!ReadImages, Shelf!Reads, Shelf!World
  <2>6. QED
    BY <1>9, <2>5
<1>12. CASE UNCHANGED shelfVars
  BY <1>12 DEF shelfVars, ShelfTypes, GrantedOnce, LinksOpen
<1>13. QED
  BY <1>1, <1>2, <1>3, <1>4, <1>6, <1>7, <1>8, <1>10, <1>11, <1>12 DEF Shelf!DeliveryNext

\* What the world does meanwhile leaves what the download has read true.
LEMMA NextFetched == ShelfInv /\ [Shelf!DeliveryNext]_shelfVars => Fetched' /\ LinksServeTheWork'
<1> SUFFICES ASSUME ShelfInv, [Shelf!DeliveryNext]_shelfVars
             PROVE  Fetched' /\ LinksServeTheWork'
  OBVIOUS
<1> USE ShelfAssumption
<1>t. ShelfTypes /\ GrantedOnce /\ LinksOpen /\ Fetched /\ LinksServeTheWork
  BY DEF ShelfInv
<1>f. /\ stored \subseteq Shelf!WholeWork /\ links \subseteq ToldLinks
      /\ fetch \in Fetches /\ fetch.link \in ToldLinks \cup {None}
      /\ fetch.at # "none" => fetch.link \in links /\ fetch.link.token.sale \in Sales
  <2>1. stored \subseteq Shelf!WholeWork /\ links \subseteq ToldLinks /\ fetch \in Fetches
    BY <1>t DEF ShelfTypes
  <2>2. fetch.at # "none" => fetch.link \in links
    BY <1>t DEF Fetched
  <2>3. \A l \in ToldLinks : l.token.sale \in Sales
    BY DEF ToldLinks, Tokens
  <2>4. QED
    BY <2>1, <2>2, <2>3 DEF Fetches
<1>w. ASSUME fetch' = fetch, links \subseteq links', stored' \subseteq stored,
             offer = "deleted" => offer' = "deleted",
             \A s \in Sales : license[s] # None /\ offer' # "deleted" => license'[s] = license[s]
      PROVE  Fetched' /\ LinksServeTheWork'
  <2>1. Fetched'
    BY <1>t, <1>w DEF Fetched
  <2>2. fetch.at = "purged" => stored' # Shelf!WholeWork
    BY <1>t, <1>f, <1>w DEF LinksServeTheWork, Shelf!LinksServeTheWork
  <2>3. fetch.at = "refused" /\ offer' # "deleted" =>
            license'[fetch.link.token.sale] = license[fetch.link.token.sale]
    BY <1>t, <1>f, <1>w DEF LinksOpen
  <2>4. LinksServeTheWork'
    BY <1>t, <1>w, <2>2, <2>3
    DEF LinksServeTheWork, Shelf!LinksServeTheWork, Shelf!WholeWork, Shelf!Cover
  <2>5. QED
    BY <2>1, <2>4
<1>1. CASE Shelf!Tomorrow \/ Shelf!DeleteWork
  BY <1>1, <1>w DEF Shelf!Tomorrow, Shelf!DeleteWork
<1>2. ASSUME NEW v \in {"public", "private"}, Shelf!Expose(v)
      PROVE  Fetched' /\ LinksServeTheWork'
  BY <1>2, <1>w DEF Shelf!Expose
<1>3. ASSUME NEW f \in Shelf!WholeWork, Shelf!Purge(f) PROVE Fetched' /\ LinksServeTheWork'
  BY <1>3, <1>w DEF Shelf!Purge
<1>4. ASSUME NEW s \in Sales, NEW u \in Shelf!Buyers, Shelf!Settle(s, u)
      PROVE  Fetched' /\ LinksServeTheWork'
  <2>1. \A x \in Sales : license[x] # None => license'[x] = license[x]
    BY <1>t, <1>4 DEF Shelf!Settle, Shelf!Granted, ShelfTypes
  <2>2. fetch' = fetch /\ links \subseteq links' /\ UNCHANGED <<offer, stored>>
    BY <1>4 DEF Shelf!Settle, Shelf!Told
  <2>3. QED
    BY <1>w, <2>1, <2>2
<1>5. ASSUME NEW s \in Sales, NEW u \in Shelf!Buyers, Shelf!Fulfil(s, u)
      PROVE  Fetched' /\ LinksServeTheWork'
  BY <1>5, <1>w DEF Shelf!Fulfil, Shelf!Told
<1>6. ASSUME NEW u \in Users, Shelf!ShowPage(u) PROVE Fetched' /\ LinksServeTheWork'
  BY <1>6, <1>w DEF Shelf!ShowPage, Shelf!Told
<1>7. CASE UNCHANGED shelfVars
  BY <1>7, <1>w DEF shelfVars
<1>8. ASSUME NEW link \in links, Shelf!Begin(link) PROVE Fetched' /\ LinksServeTheWork'
  <2> DEFINE t == link.token
             sold == license[t.sale]
             k == [Shelf!NoFetch EXCEPT !.at = IF Shelf!Valid(link) THEN "work" ELSE "refused",
                                        !.link = link, !.on = day]
  <2>1. fetch' = k /\ UNCHANGED <<day, offer, stored, license, links>>
    BY <1>8 DEF Shelf!Begin, Shelf!World
  <2>2. k.at = (IF Shelf!Valid(link) THEN "work" ELSE "refused") /\ k.link = link /\ k.on = day
    BY DEF Shelf!NoFetch
  <2>3. link \in ToldLinks /\ t.sale \in Sales /\ t.day \in Nat /\ day \in Nat
    BY <1>f, <1>t DEF ToldLinks, Tokens, ShelfTypes
  <2>4. sold # None => sold.token.sale = t.sale /\ sold.expires = sold.token.day + Right
    BY <1>t, <2>3 DEF GrantedOnce
  <2>5. Shelf!Valid(link) <=> /\ sold # None /\ sold.expires > day
                              /\ sold.token = t /\ sold.buyer \in {None, link.holder}
    BY DEF Shelf!Valid, Shelf!Active
  <2>6. offer # "deleted" => sold # None /\ sold.token = t
    BY <1>t DEF LinksOpen
  <2> DEFINE lapsed == day >= t.day + Right
  <2>7. Shelf!Valid(link) => ~lapsed
    BY <2>3, <2>4, <2>5
  <2>8. ~Shelf!Valid(link) /\ ~lapsed /\ offer # "deleted" => sold.buyer \notin {None, link.holder}
    BY <2>3, <2>4, <2>5, <2>6
  <2>9. /\ fetch'.link = link /\ fetch'.on = day
        /\ fetch'.at = IF Shelf!Valid(link) THEN "work" ELSE "refused"
    BY <2>1, <2>2
  <2>10. Fetched'
    BY <2>1, <2>7, <2>9 DEF Fetched
  <2>11. LinksServeTheWork'
    BY <2>1, <2>8, <2>9 DEF LinksServeTheWork, Shelf!LinksServeTheWork
  <2>12. QED
    BY <2>10, <2>11
<1>d. ASSUME Shelf!Download
      PROVE  /\ fetch.at \in {"work", "cover", "gallery", "images"}
             /\ fetch.link \in links
             /\ ~(fetch.on >= fetch.link.token.day + Right)
             /\ UNCHANGED <<day, offer, stored, license, links>>
  BY <1>t, <1>d
  DEF Shelf!Download, Shelf!ReadWork, Shelf!ReadCover, Shelf!ListGallery, Shelf!ReadImages,
      Shelf!Reads,
                    Shelf!World, Fetched
<1>9. CASE Shelf!ReadWork
  <2>1. PICK at \in {"error", "cover"} : fetch' = [fetch EXCEPT !.at = at]
    BY <1>9 DEF Shelf!ReadWork, Shelf!Reads
  <2>2. fetch'.at = at /\ fetch'.link = fetch.link /\ fetch'.on = fetch.on
    BY <1>f, <2>1 DEF Fetches
  <2>3. QED
    BY <1>9, <1>d, <2>2
    DEF Shelf!Download, Fetched, LinksServeTheWork, Shelf!LinksServeTheWork
<1>10. CASE Shelf!ReadCover
  <2>1. CASE Shelf!Cover \in stored
    <3>1. fetch' = [fetch EXCEPT !.at = "gallery", !.files = {Shelf!Cover}]
      BY <1>10, <2>1 DEF Shelf!ReadCover, Shelf!Reads
    <3>2. fetch'.at = "gallery" /\ fetch'.link = fetch.link /\ fetch'.on = fetch.on
          /\ fetch'.files = {Shelf!Cover}
      BY <1>f, <3>1 DEF Fetches
    <3>3. QED
      BY <1>10, <1>d, <3>2
      DEF Shelf!Download, Fetched, LinksServeTheWork, Shelf!LinksServeTheWork, Shelf!Cover
  <2>2. CASE Shelf!Cover \notin stored
    <3>1. fetch' = [fetch EXCEPT !.at = "purged"] /\ stored # Shelf!WholeWork
      BY <1>10, <2>2 DEF Shelf!ReadCover, Shelf!Reads, Shelf!WholeWork
    <3>2. fetch'.at = "purged" /\ fetch'.link = fetch.link /\ fetch'.on = fetch.on
      BY <1>f, <3>1 DEF Fetches
    <3>3. QED
      BY <1>10, <1>d, <3>1, <3>2
      DEF Shelf!Download, Fetched, LinksServeTheWork, Shelf!LinksServeTheWork,
          Shelf!WholeWork,
                                     Shelf!Cover
  <2>3. QED
    BY <2>1, <2>2
<1>11. CASE Shelf!ListGallery
  <2> DEFINE due == IF offer = "deleted" THEN {} ELSE Gallery
  <2>1. fetch' = [fetch EXCEPT !.at = "images", !.due = due] /\ fetch.at = "gallery"
    BY <1>11 DEF Shelf!ListGallery, Shelf!Reads
  <2>2. /\ fetch'.at = "images" /\ fetch'.link = fetch.link /\ fetch'.on = fetch.on
        /\ fetch'.files = fetch.files /\ fetch'.due = due
    BY <1>f, <2>1 DEF Fetches
  <2>3. fetch.files = {Shelf!Cover}
    BY <1>t, <2>1 DEF Fetched
  <2>4. QED
    BY <1>11, <1>d, <2>2, <2>3
    DEF Shelf!Download, Fetched, LinksServeTheWork, Shelf!LinksServeTheWork, Shelf!Cover
<1>12. CASE Shelf!ReadImages
  <2>1. fetch.at = "images" /\ fetch.files = {Shelf!Cover} /\ (fetch.due = Gallery \/ offer = "deleted")
    BY <1>t, <1>12 DEF Shelf!ReadImages, Shelf!Reads, Fetched
  <2>2. CASE fetch.due \subseteq stored
    <3>1. fetch' = [fetch EXCEPT !.at = "served", !.files = @ \cup (fetch.due \cap stored)]
      BY <1>12, <2>2 DEF Shelf!ReadImages, Shelf!Reads, Shelf!Complete
    <3>2. /\ fetch'.at = "served" /\ fetch'.link = fetch.link /\ fetch'.on = fetch.on
          /\ fetch'.files = fetch.files \cup (fetch.due \cap stored)
      BY <1>f, <3>1 DEF Fetches
    <3>3. fetch.files \cup (fetch.due \cap stored) = Shelf!WholeWork \/ offer = "deleted"
      BY <2>1, <2>2 DEF Shelf!WholeWork
    <3>4. QED
      BY <1>12, <1>d, <3>2, <3>3
      DEF Shelf!Download, Fetched, LinksServeTheWork, Shelf!LinksServeTheWork,
          Shelf!WholeWork,
                                     Shelf!Cover
  <2>3. CASE ~(fetch.due \subseteq stored)
    <3>1. fetch' = [fetch EXCEPT !.at = "purged"]
      BY <1>12, <2>3 DEF Shelf!ReadImages, Shelf!Reads, Shelf!Complete
    <3>2. fetch'.at = "purged" /\ fetch'.link = fetch.link /\ fetch'.on = fetch.on
      BY <1>f, <3>1 DEF Fetches
    <3>3. stored # Shelf!WholeWork
      BY <1>f, <2>3 DEF Fetches, Shelf!WholeWork
    <3>4. QED
      BY <1>12, <1>d, <3>2, <3>3
      DEF Shelf!Download, Fetched, LinksServeTheWork, Shelf!LinksServeTheWork,
          Shelf!WholeWork,
                                     Shelf!Cover
  <2>4. QED
    BY <2>2, <2>3
<1>13. QED
  BY <1>1, <1>2, <1>3, <1>4, <1>5, <1>6, <1>7, <1>8, <1>9, <1>10, <1>11, <1>12
  DEF Shelf!DeliveryNext, Shelf!Download

\* The invariant of the downloads holds at first.
LEMMA InitShelf == Shelf!DeliveryInit => ShelfInv
<1> SUFFICES ASSUME Shelf!DeliveryInit PROVE ShelfInv
  OBVIOUS
<1>1. /\ day = 0 /\ stored = Shelf!WholeWork /\ license = [s \in Sales |-> None]
      /\ links = {}
      /\ fetch = Shelf!NoFetch
  BY DEF Shelf!DeliveryInit
<1>2. Shelf!NoFetch \in Fetches /\ Shelf!NoFetch.at = "none"
  BY DEF Shelf!NoFetch, Fetches, Shelf!Ended
<1>3. ShelfTypes
  BY <1>1, <1>2 DEF ShelfTypes
<1>4. QED
  BY <1>1, <1>2, <1>3
  DEF ShelfInv, GrantedOnce, LinksOpen, Fetched, LinksServeTheWork, Shelf!LinksServeTheWork

\* A link that was told serves its holder the whole work as long as its right lasts.
THEOREM LinksServe == SiteSpec => []LinksServeTheWork
<1>1. SiteInit => ShelfInv
  BY InitShelf DEF SiteInit
<1>2. ShelfInv /\ [SiteNext]_siteVars => ShelfInv'
  <2>1. ShelfInv /\ [Shelf!DeliveryNext]_shelfVars => ShelfInv'
    BY NextShelfTypes, NextFetched DEF ShelfInv
  <2>2. QED
    BY <2>1 DEF SiteNext, siteVars
<1>3. ShelfInv => LinksServeTheWork
  BY DEF ShelfInv
<1>4. QED
  BY <1>1, <1>2, <1>3, PTL DEF SiteSpec
=============================================================================
