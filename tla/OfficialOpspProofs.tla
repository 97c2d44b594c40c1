------------------------- MODULE OfficialOpspProofs -------------------------
(***************************************************************************)
(* Proofs about OfficialOpsp, for every canvas, set of answers and number  *)
(* of requests.  The inductive invariant says of a plan that a request has *)
(* computed and not yet inserted what the properties say of a row: it was  *)
(* built from a row that is there, and everything it publishes was offered *)
(* by the rows that are there.  Rows are only ever added, so this outlives *)
(* every other request.  The last section counts the rows of a version.    *)
(***************************************************************************)
EXTENDS OfficialOpsp, FiniteSetTheorems, TLAPS

(* The parts of the invariant, of any sequence of rows rs and any cleared  *)
(* sets cl, so that they can be carried from one state to the next.        *)
CellOK(cell, cl) ==
  /\ cell.draft # {} => cell.draft \in cl
  /\ cell.value.by = "planner" => cell.value.from \in cl

Offered(cell, c, n, rs) ==
  cell.value.by \in {"planner", "room"} =>
    /\ cell.sources = Credits(cell.value.from)
    /\ \E j \in 1..n : Offers(rs[j].cells[c], cell)

PlanOK(plan, n, rs, cl) ==
  \A c \in Cells : CellOK(plan[c], cl) /\ Offered(plan[c], c, n, rs)

BuiltFrom(t, base) ==
  /\ History!OneCellApart(base.cells, t.cells)
  /\ t.label => t.cells = base.cells
  /\ t.pc = "insert" => base.version < t.version

TaskOK(t, rs, cl) ==
  /\ t.pc \in {"classify", "draft", "storeDraft", "storeConflict"} => t.cards # {}
  /\ t.pc \in {"draft", "storeDraft"} => t.cards \in cl
  /\ t.pc \in {"number", "insert"} =>
       /\ PlanOK(t.cells, Len(rs), rs, cl)
       /\ \E i \in DOMAIN rs : BuiltFrom(t, rs[i])
  /\ t.pc = "insert" => \E i \in DOMAIN rs : t.version = rs[i].version + 1

RowsOK  == \A i \in DOMAIN rows : PlanOK(rows[i].cells, i - 1, rows, cleared)
TasksOK == \A q \in Reqs : TaskOK(task[q], rows, cleared)
IInv    == TypeOK /\ RowsOK /\ TasksOK

(* Rows and cleared sets are only ever added to.                           *)
Grows(rs, rt, cl, cm) ==
  /\ rt = rs \/ \E row \in Rows : rt = Append(rs, row)
  /\ cl \subseteq cm

-----------------------------------------------------------------------------
LEMMA EmptyCellTyped == EmptyCell \in CellStates
  BY OfficialAssumption DEF EmptyCell, CellStates, Blank, Texts

LEMMA IdleTyped == Idle \in Tasks
<1>1. (CHOOSE c \in Cells : TRUE) \in Cells
  BY OfficialAssumption
<1>2. EmptyPlan \in Plans
  BY EmptyCellTyped DEF EmptyPlan, Plans
<1> QED BY <1>1, <1>2 DEF Idle, Tasks

LEMMA IdleOK ==
  ASSUME NEW rs, NEW cl PROVE TaskOK(Idle, rs, cl)
  BY DEF TaskOK, Idle

LEMMA InitIInv == Init => IInv
<1> SUFFICES ASSUME Init PROVE IInv
  OBVIOUS
<1>1. TypeOK
  BY IdleTyped DEF Init, TypeOK
<1>2. RowsOK
  BY DEF Init, RowsOK
<1>3. TasksOK
  BY IdleOK DEF Init, TasksOK
<1> QED BY <1>1, <1>2, <1>3 DEF IInv

-----------------------------------------------------------------------------
(* What stays true of old rows and of plans on their way when rows grow.   *)
LEMMA OldRows ==
  ASSUME NEW rs \in Seq(Rows), NEW rt, NEW cl, NEW cm, Grows(rs, rt, cl, cm)
  PROVE  /\ Len(rs) \in Nat /\ Len(rt) \in Nat /\ Len(rs) <= Len(rt)
         /\ DOMAIN rs = 1..Len(rs)
         /\ \A i \in DOMAIN rs : i \in DOMAIN rt /\ rt[i] = rs[i]
<1>1. CASE rt = rs
  BY <1>1
<1>2. ASSUME NEW row \in Rows, rt = Append(rs, row)
      PROVE  /\ Len(rt) \in Nat /\ Len(rs) <= Len(rt)
             /\ \A i \in DOMAIN rs : i \in DOMAIN rt /\ rt[i] = rs[i]
  BY <1>2
<1>3. Len(rs) \in Nat /\ DOMAIN rs = 1..Len(rs)
  OBVIOUS
<1> QED BY <1>1, <1>2, <1>3 DEF Grows

LEMMA PlanOKGrows ==
  ASSUME NEW rs \in Seq(Rows), NEW rt, NEW cl, NEW cm, Grows(rs, rt, cl, cm),
         NEW plan, NEW n \in Nat, NEW m \in Nat, n <= Len(rs), n <= m,
         PlanOK(plan, n, rs, cl)
  PROVE  PlanOK(plan, m, rt, cm)
<1>1. \A j \in 1..n : rt[j] = rs[j] /\ j \in 1..m
  BY OldRows
<1>2. cl \subseteq cm
  BY DEF Grows
<1> QED BY <1>1, <1>2 DEF PlanOK, CellOK, Offered

LEMMA TaskOKGrows ==
  ASSUME NEW rs \in Seq(Rows), NEW rt, NEW cl, NEW cm, Grows(rs, rt, cl, cm),
         NEW t, TaskOK(t, rs, cl)
  PROVE  TaskOK(t, rt, cm)
<1>1. /\ Len(rs) \in Nat /\ Len(rt) \in Nat /\ Len(rs) <= Len(rt)
      /\ \A i \in DOMAIN rs : i \in DOMAIN rt /\ rt[i] = rs[i]
  BY OldRows
<1>2. t.pc \in {"draft", "storeDraft"} => t.cards \in cm
  BY DEF TaskOK, Grows
<1>3. ASSUME t.pc \in {"number", "insert"}
      PROVE  /\ PlanOK(t.cells, Len(rt), rt, cm)
             /\ \E i \in DOMAIN rt : BuiltFrom(t, rt[i])
  <2>1. PlanOK(t.cells, Len(rs), rs, cl)
    BY <1>3 DEF TaskOK
  <2>2. PlanOK(t.cells, Len(rt), rt, cm)
    BY <1>1, <2>1, PlanOKGrows
  <2>3. \E i \in DOMAIN rs : BuiltFrom(t, rs[i])
    BY <1>3 DEF TaskOK
  <2> QED BY <1>1, <2>2, <2>3
<1>4. t.pc = "insert" => \E i \in DOMAIN rt : t.version = rt[i].version + 1
  BY <1>1 DEF TaskOK
<1> QED BY <1>2, <1>3, <1>4 DEF TaskOK

-----------------------------------------------------------------------------
(* A step that only moves a request, and a step that inserts a row.        *)
LEMMA MoveKeepsIInv ==
  ASSUME IInv, NEW q \in Reqs, NEW t \in Tasks, task' = [task EXCEPT ![q] = t],
         rows' = rows, cleared \subseteq cleared',
         cleared' \in SUBSET (SUBSET Cards), TaskOK(t, rows, cleared')
  PROVE  IInv'
<1>1. rows \in Seq(Rows) /\ Grows(rows, rows', cleared, cleared')
  BY DEF IInv, TypeOK, Grows
<1>2. TypeOK'
  BY DEF IInv, TypeOK
<1>3. ASSUME NEW i \in DOMAIN rows
      PROVE  PlanOK(rows[i].cells, i - 1, rows', cleared')
  <2>1. i - 1 \in Nat /\ i - 1 <= Len(rows)
    BY <1>1
  <2>2. PlanOK(rows[i].cells, i - 1, rows, cleared)
    BY DEF IInv, RowsOK
  <2> QED BY <1>1, <2>1, <2>2, PlanOKGrows
<1>4. RowsOK'
  BY <1>3 DEF RowsOK
<1>5. ASSUME NEW p \in Reqs PROVE TaskOK(task'[p], rows', cleared')
  <2>1. TaskOK(task[p], rows, cleared) /\ task'[p] \in {t, task[p]}
    BY DEF IInv, TypeOK, TasksOK
  <2>2. TaskOK(task[p], rows', cleared')
    BY <1>1, <2>1, TaskOKGrows
  <2> QED BY <2>1, <2>2
<1>6. TasksOK'
  BY <1>5 DEF TasksOK
<1> QED BY <1>2, <1>4, <1>6 DEF IInv

LEMMA AppendKeepsIInv ==
  ASSUME IInv, NEW q \in Reqs, NEW row \in Rows, rows' = Append(rows, row),
         cleared' = cleared, Finish(q), PlanOK(row.cells, Len(rows), rows, cleared)
  PROVE  IInv'
<1>1. rows \in Seq(Rows) /\ Grows(rows, rows', cleared, cleared')
  BY DEF IInv, TypeOK, Grows
<1>2. TypeOK'
  BY <1>1, IdleTyped DEF IInv, TypeOK, Finish
<1>3. /\ Len(rows) \in Nat /\ DOMAIN rows = 1..Len(rows)
      /\ DOMAIN rows' = 1..(Len(rows) + 1) /\ rows'[Len(rows) + 1] = row
      /\ \A i \in DOMAIN rows : rows'[i] = rows[i]
  BY <1>1
<1>4. ASSUME NEW i \in DOMAIN rows'
      PROVE  PlanOK(rows'[i].cells, i - 1, rows', cleared')
  <2>1. CASE i \in DOMAIN rows
    <3>1. i - 1 \in Nat /\ i - 1 <= Len(rows)
      BY <1>3, <2>1
    <3>2. PlanOK(rows[i].cells, i - 1, rows, cleared)
      BY <2>1 DEF IInv, RowsOK
    <3>3. PlanOK(rows[i].cells, i - 1, rows', cleared')
      BY <1>1, <3>1, <3>2, PlanOKGrows
    <3> QED BY <1>3, <2>1, <3>3
  <2>2. CASE i = Len(rows) + 1
    <3>1. i - 1 = Len(rows)
      BY <1>3, <2>2
    <3>2. PlanOK(row.cells, Len(rows), rows', cleared')
      BY <1>1, <1>3, PlanOKGrows
    <3> QED BY <1>3, <2>2, <3>1, <3>2
  <2> QED BY <1>3, <2>1, <2>2
<1>5. RowsOK'
  BY <1>4 DEF RowsOK
<1>6. ASSUME NEW p \in Reqs PROVE TaskOK(task'[p], rows', cleared')
  <2>1. TaskOK(task[p], rows, cleared) /\ task'[p] \in {Idle, task[p]}
    BY DEF IInv, TypeOK, TasksOK, Finish
  <2>2. TaskOK(task[p], rows', cleared')
    BY <1>1, <2>1, TaskOKGrows
  <2>3. TaskOK(Idle, rows', cleared')
    BY IdleOK
  <2> QED BY <2>1, <2>2, <2>3
<1>7. TasksOK'
  BY <1>6 DEF TasksOK
<1> QED BY <1>2, <1>5, <1>7 DEF IInv
-----------------------------------------------------------------------------
(* A row of the plan, and where it stands.                                 *)
LEMMA RowAt ==
  ASSUME IInv, NEW i \in DOMAIN rows
  PROVE  /\ rows \in Seq(Rows) /\ rows[i].cells \in Plans
         /\ Len(rows) \in Nat /\ i \in 1..Len(rows)
         /\ cleared \in SUBSET (SUBSET Cards)
<1>1. rows \in Seq(Rows) /\ cleared \in SUBSET (SUBSET Cards)
  BY DEF IInv, TypeOK
<1>2. rows[i] \in Rows /\ Len(rows) \in Nat /\ i \in 1..Len(rows)
  BY <1>1
<1> QED BY <1>1, <1>2 DEF Rows

(* One cell of a row rewritten: the new plan is fit to be inserted when    *)
(* the new cell is.                                                        *)
LEMMA PrepareKeepsIInv ==
  ASSUME IInv, NEW q \in Reqs, NEW i \in DOMAIN rows, NEW c \in Cells,
         NEW new \in CellStates, CellOK(new, cleared),
         Offered(new, c, Len(rows), rows), Prepare(q, rows[i], c, new)
  PROVE  IInv'
<1>1. rows \in Seq(Rows) /\ rows[i].cells \in Plans /\ i \in 1..Len(rows)
      /\ Len(rows) \in Nat /\ cleared \in SUBSET (SUBSET Cards)
  BY RowAt
<1> DEFINE plan == [rows[i].cells EXCEPT ![c] = new]
           t    == [Idle EXCEPT !.pc = "number", !.cells = plan]
<1>2. plan \in Plans
  BY <1>1 DEF Plans
<1>3. t \in Tasks
  BY <1>2, IdleTyped DEF Tasks
<1>4. t.pc = "number" /\ t.cells = plan /\ t.label = FALSE
  BY IdleTyped DEF Idle
<1>5. PlanOK(plan, Len(rows), rows, cleared)
  <2>1. PlanOK(rows[i].cells, i - 1, rows, cleared)
    BY DEF IInv, RowsOK
  <2>2. PlanOK(rows[i].cells, Len(rows), rows, cleared)
    BY <1>1, <2>1, PlanOKGrows DEF Grows
  <2>3. \A d \in Cells : plan[d] = IF d = c THEN new ELSE rows[i].cells[d]
    BY <1>1 DEF Plans
  <2> QED BY <2>2, <2>3 DEF PlanOK
<1>6. BuiltFrom(t, rows[i])
  <2>1. \A d \in Cells \ {c} : plan[d] = rows[i].cells[d]
    BY <1>1 DEF Plans
  <2> QED BY <1>4, <2>1 DEF BuiltFrom, History!OneCellApart
<1>7. TaskOK(t, rows, cleared)
  BY <1>4, <1>5, <1>6 DEF TaskOK
<1> HIDE DEF t, plan
<1>8. task' = [task EXCEPT ![q] = t] /\ rows' = rows /\ cleared' = cleared
  BY DEF Prepare, t, plan
<1> QED BY <1>1, <1>3, <1>7, <1>8, MoveKeepsIInv

(* The cell an operation starts from, and what is known of it.             *)
LEMMA OldCell ==
  ASSUME IInv, NEW i \in DOMAIN rows, NEW c \in Cells
  PROVE  /\ rows[i].cells[c] \in CellStates
         /\ CellOK(rows[i].cells[c], cleared)
         /\ Offered(rows[i].cells[c], c, Len(rows), rows)
         /\ i \in 1..Len(rows)
<1>1. rows \in Seq(Rows) /\ rows[i].cells \in Plans /\ i \in 1..Len(rows)
  BY RowAt
<1>2. PlanOK(rows[i].cells, i - 1, rows, cleared)
  BY DEF IInv, RowsOK
<1>3. PlanOK(rows[i].cells, Len(rows), rows, cleared)
  BY <1>1, <1>2, PlanOKGrows DEF Grows
<1> QED BY <1>1, <1>3 DEF PlanOK, Plans

LEMMA EditKeepsIInv ==
  ASSUME IInv, NEW q \in Reqs, NEW i \in DOMAIN rows, NEW c \in Cells,
         Edit(q, rows[i], c)
  PROVE  IInv'
<1> DEFINE old == rows[i].cells[c]
<1>1. PICK text \in {old.value, Typed, Blank} :
        Prepare(q, rows[i], c, Edited(old, text))
  BY DEF Edit
<1>2. old \in CellStates /\ CellOK(old, cleared)
      /\ Offered(old, c, Len(rows), rows)
  BY OldCell
<1> HIDE DEF old
<1>3. text \in Texts
  BY <1>1, <1>2 DEF CellStates, Texts, Typed, Blank
<1>4. Edited(old, text) \in CellStates
  BY <1>2, <1>3 DEF Edited, CellStates
<1>5. /\ Edited(old, text).value = text /\ Edited(old, text).draft = {}
      /\ Edited(old, text).sources = old.sources
      /\ Edited(old, text).provenance = old.provenance
  BY <1>2 DEF Edited, CellStates
<1>6. CellOK(Edited(old, text), cleared)
  BY <1>1, <1>2, <1>5 DEF CellOK, Typed, Blank
<1>7. Offered(Edited(old, text), c, Len(rows), rows)
  BY <1>1, <1>2, <1>5 DEF Offered, Offers, Typed, Blank
<1> QED BY <1>1, <1>4, <1>6, <1>7, PrepareKeepsIInv

LEMMA CardsKeepIInv ==
  ASSUME IInv, NEW q \in Reqs, NEW i \in DOMAIN rows, NEW c \in Cells,
         \/ Attach(q, rows[i], c) \/ Detach(q, rows[i], c)
         \/ Discard(q, rows[i], c)
  PROVE  IInv'
<1> DEFINE old == rows[i].cells[c]
<1>1. old \in CellStates /\ CellOK(old, cleared)
      /\ Offered(old, c, Len(rows), rows)
  BY OldCell
<1>2. PICK new \in {Attached(old, card) : card \in Cards}
                   \union {Detached(old, card) : card \in old.cards}
                   \union {Discarded(old)} : Prepare(q, rows[i], c, new)
  BY OfficialAssumption DEF Attach, Detach, Discard
<1> HIDE DEF old
<1>3. new \in CellStates /\ new.value = old.value /\ new.sources = old.sources
      /\ new.provenance = old.provenance /\ new.draft \in {{}, old.draft}
  BY <1>1, <1>2 DEF Attached, Detached, Discarded, CellStates
<1>4. CellOK(new, cleared)
  BY <1>1, <1>3 DEF CellOK
<1>5. Offered(new, c, Len(rows), rows)
  BY <1>1, <1>3 DEF Offered, Offers
<1> QED BY <1>2, <1>3, <1>4, <1>5, PrepareKeepsIInv

LEMMA AcceptKeepsIInv ==
  ASSUME IInv, NEW q \in Reqs, NEW i \in DOMAIN rows, NEW c \in Cells,
         Accept(q, rows[i], c)
  PROVE  IInv'
<1> DEFINE old == rows[i].cells[c]
<1>1. old \in CellStates /\ CellOK(old, cleared) /\ i \in 1..Len(rows)
  BY OldCell
<1>2. old.draft # {} /\ Prepare(q, rows[i], c, Accepted(old))
  BY DEF Accept
<1>3. Accepted(old) \in CellStates
  <2>1. /\ Credits(old.draft) \in SUBSET Answers /\ Credits(old.cards) \in SUBSET Answers
        /\ [by |-> "planner", from |-> old.draft] \in Texts
    BY <1>1 DEF CellStates, Texts, Credits, Answers
  <2> QED BY <1>1, <2>1 DEF Accepted, CellStates
<1>4. /\ Accepted(old).value = [by |-> "planner", from |-> old.draft]
      /\ Accepted(old).draft = {} /\ Accepted(old).sources = Credits(old.draft)
      /\ Accepted(old).provenance = Credits(old.cards)
  BY <1>1 DEF Accepted, CellStates
<1>5. CellOK(Accepted(old), cleared)
  BY <1>1, <1>2, <1>4 DEF CellOK
<1>6. Offered(Accepted(old), c, Len(rows), rows)
  <2>1. Offers(old, Accepted(old))
    BY <1>4 DEF Offers
  <2> QED BY <1>1, <1>4, <2>1 DEF Offered
<1> QED BY <1>2, <1>3, <1>5, <1>6, PrepareKeepsIInv

LEMMA DecideKeepsIInv ==
  ASSUME IInv, NEW q \in Reqs, NEW i \in DOMAIN rows, NEW c \in Cells,
         Decide(q, rows[i], c)
  PROVE  IInv'
<1> DEFINE old == rows[i].cells[c]
<1>1. old \in CellStates /\ CellOK(old, cleared) /\ i \in 1..Len(rows)
  BY OldCell
<1>2. PICK card \in old.positions : Prepare(q, rows[i], c, Decided(old, card))
  BY DEF Decide
<1>3. card \in Cards /\ old.chosen = NoCard
  BY <1>1 DEF CellStates, Decide
<1>4. Decided(old, card) \in CellStates
  <2>1. /\ Credits({card}) \in SUBSET Answers
        /\ [by |-> "room", from |-> {card}] \in Texts
    BY <1>3 DEF Texts, Credits, Answers
  <2> QED BY <1>1, <1>3, <2>1 DEF Decided, CellStates
<1>5. /\ Decided(old, card).value = [by |-> "room", from |-> {card}]
      /\ Decided(old, card).draft = old.draft
      /\ Decided(old, card).sources = Credits({card})
      /\ Decided(old, card).provenance = Credits({card})
  BY <1>1 DEF Decided, CellStates
<1>6. CellOK(Decided(old, card), cleared)
  BY <1>1, <1>5 DEF CellOK
<1>7. Offered(Decided(old, card), c, Len(rows), rows)
  <2>1. Offers(old, Decided(old, card))
    BY <1>2, <1>3, <1>5 DEF Offers
  <2> QED BY <1>1, <1>5, <2>1 DEF Offered
<1> QED BY <1>2, <1>4, <1>6, <1>7, PrepareKeepsIInv

LEMMA SnapshotKeepsIInv ==
  ASSUME IInv, NEW q \in Reqs, NEW i \in DOMAIN rows, Snapshot(q, rows[i])
  PROVE  IInv'
<1> DEFINE t == [Idle EXCEPT !.pc = "number", !.label = TRUE,
                             !.cells = rows[i].cells]
<1>1. rows \in Seq(Rows) /\ rows[i].cells \in Plans /\ i \in 1..Len(rows)
      /\ cleared \in SUBSET (SUBSET Cards)
  BY RowAt
<1>2. t \in Tasks
  BY <1>1, IdleTyped DEF Tasks
<1>3. t.pc = "number" /\ t.cells = rows[i].cells
  BY IdleTyped DEF Idle
<1>4. PlanOK(t.cells, Len(rows), rows, cleared)
  BY <1>3, OldCell DEF PlanOK
<1>5. BuiltFrom(t, rows[i])
  BY <1>3, OfficialAssumption DEF BuiltFrom, History!OneCellApart
<1>6. TaskOK(t, rows, cleared)
  BY <1>3, <1>4, <1>5 DEF TaskOK
<1> HIDE DEF t
<1>7. task' = [task EXCEPT ![q] = t] /\ rows' = rows /\ cleared' = cleared
  BY DEF Snapshot, t
<1> QED BY <1>1, <1>2, <1>6, <1>7, MoveKeepsIInv

LEMMA OperateKeepsIInv ==
  ASSUME IInv, NEW q \in Reqs, Operate(q)
  PROVE  IInv'
<1>1. PICK i \in Newest :
        \/ Snapshot(q, rows[i])
        \/ \E c \in Cells :
             \/ Edit(q, rows[i], c)   \/ Attach(q, rows[i], c)
             \/ Detach(q, rows[i], c) \/ Accept(q, rows[i], c)
             \/ Discard(q, rows[i], c) \/ Decide(q, rows[i], c)
  BY DEF Operate
<1>2. i \in DOMAIN rows
  BY DEF Newest
<1> QED BY <1>1, <1>2, SnapshotKeepsIInv, EditKeepsIInv, CardsKeepIInv,
           AcceptKeepsIInv, DecideKeepsIInv

LEMMA StoreKeepsIInv ==
  ASSUME IInv, NEW q \in Reqs, Store(q)
  PROVE  IInv'
<1> DEFINE c == task[q].cell
<1>1. PICK i \in Newest :
        \/ At(q, "storeDraft")
           /\ Prepare(q, rows[i], c, Drafted(rows[i].cells[c], task[q].cards))
        \/ At(q, "storeConflict")
           /\ Prepare(q, rows[i], c, Conflicted(rows[i].cells[c], task[q].cards))
  BY DEF Store
<1>2. i \in DOMAIN rows
  BY DEF Newest
<1>3. task[q] \in Tasks /\ TaskOK(task[q], rows, cleared)
  BY DEF IInv, TypeOK, TasksOK
<1>4. c \in Cells /\ task[q].cards \in SUBSET Cards
  BY <1>3 DEF Tasks
<1>5. /\ rows[i].cells[c] \in CellStates
      /\ CellOK(rows[i].cells[c], cleared)
      /\ Offered(rows[i].cells[c], c, Len(rows), rows)
  BY <1>2, <1>4, OldCell
<1>6. ASSUME NEW old \in CellStates, NEW new, CellOK(old, cleared),
             \/ new = Drafted(old, task[q].cards) /\ At(q, "storeDraft")
             \/ new = Conflicted(old, task[q].cards) /\ At(q, "storeConflict")
      PROVE  /\ new \in CellStates /\ CellOK(new, cleared)
             /\ new.value = old.value /\ new.sources = old.sources
             /\ new.provenance = old.provenance
  <2>1. /\ new \in CellStates /\ new.value = old.value
        /\ new.sources = old.sources /\ new.provenance = old.provenance
        /\ new.draft = IF At(q, "storeDraft") THEN task[q].cards ELSE old.draft
    BY <1>4, <1>6 DEF Drafted, Conflicted, CellStates, At
  <2>2. At(q, "storeDraft") => task[q].cards \in cleared
    BY <1>3 DEF TaskOK, At
  <2> QED BY <1>6, <2>1, <2>2 DEF CellOK
<1>7. ASSUME NEW new, Prepare(q, rows[i], c, new),
             \/ new = Drafted(rows[i].cells[c], task[q].cards) /\ At(q, "storeDraft")
             \/ new = Conflicted(rows[i].cells[c], task[q].cards)
                /\ At(q, "storeConflict")
      PROVE  IInv'
  <2>1. /\ new \in CellStates /\ CellOK(new, cleared)
        /\ new.value = rows[i].cells[c].value
        /\ new.sources = rows[i].cells[c].sources
        /\ new.provenance = rows[i].cells[c].provenance
    BY <1>5, <1>6, <1>7
  <2>2. Offered(new, c, Len(rows), rows)
    BY <1>5, <2>1 DEF Offered, Offers
  <2> QED BY <1>2, <1>4, <1>7, <2>1, <2>2, PrepareKeepsIInv
<1> QED BY <1>1, <1>7
-----------------------------------------------------------------------------
(* The steps of a request outside the operations.                          *)
LEMMA FinishKeepsIInv ==
  ASSUME IInv, NEW q \in Reqs, Finish(q), rows' = rows,
         cleared \subseteq cleared', cleared' \in SUBSET (SUBSET Cards)
  PROVE  IInv'
  BY IdleTyped, IdleOK, MoveKeepsIInv DEF Finish

(* Moving on in the code, with the cards read before.                      *)
LEMMA GotoKeepsIInv ==
  ASSUME IInv, NEW q \in Reqs, rows' = rows, cleared \subseteq cleared',
         cleared' \in SUBSET (SUBSET Cards),
         NEW pc \in {"create", "draft", "storeDraft", "storeConflict"}, Goto(q, pc),
         pc # "create" => task[q].cards # {},
         pc \in {"draft", "storeDraft"} => task[q].cards \in cleared'
  PROVE  IInv'
<1> DEFINE t == [task[q] EXCEPT !.pc = pc]
<1>1. task[q] \in Tasks /\ task \in [Reqs -> Tasks]
  BY DEF IInv, TypeOK
<1>2. t \in Tasks /\ t.pc = pc /\ t.cards = task[q].cards
  BY <1>1 DEF Tasks
<1>3. TaskOK(t, rows, cleared')
  BY <1>2 DEF TaskOK
<1>4. task' = [task EXCEPT ![q] = t]
  BY <1>1 DEF Goto
<1> HIDE DEF t
<1> QED BY <1>2, <1>3, <1>4, MoveKeepsIInv

LEMMA ModelKeepsIInv ==
  ASSUME IInv, NEW q \in Reqs,
         \/ FindCompatible(q) \/ FindConflict(q) \/ DraftStatement(q)
         \/ ModelSilent(q) \/ OpenCanvas(q) \/ Abort(q)
  PROVE  IInv'
<1>1. task[q] \in Tasks /\ TaskOK(task[q], rows, cleared)
      /\ cleared \in SUBSET (SUBSET Cards)
  BY DEF IInv, TypeOK, TasksOK
<1>2. task[q].cards \in SUBSET Cards
  BY <1>1 DEF Tasks
<1>3. CASE FindCompatible(q)
  <2>1. task[q].cards # {} /\ rows' = rows
        /\ cleared' = cleared \union {task[q].cards}
    BY <1>1, <1>3 DEF FindCompatible, TaskOK, At
  <2>2. Goto(q, "draft") \/ Finish(q)
    BY <1>3 DEF FindCompatible
  <2> QED BY <1>1, <1>2, <2>1, <2>2, GotoKeepsIInv, FinishKeepsIInv
<1>4. CASE FindConflict(q)
  <2>1. task[q].cards # {}
    BY <1>1, <1>4 DEF FindConflict, TaskOK, At
  <2> QED BY <1>1, <1>4, <2>1, GotoKeepsIInv DEF FindConflict
<1>5. CASE DraftStatement(q)
  <2>1. task[q].cards # {} /\ task[q].cards \in cleared
    BY <1>1, <1>5 DEF DraftStatement, TaskOK, At
  <2> QED BY <1>1, <1>5, <2>1, GotoKeepsIInv DEF DraftStatement
<1>6. CASE ModelSilent(q) \/ Abort(q)
  BY <1>1, <1>6, FinishKeepsIInv DEF ModelSilent, Abort
<1>7. CASE OpenCanvas(q)
  BY <1>1, <1>7, GotoKeepsIInv DEF OpenCanvas
<1> QED BY <1>3, <1>4, <1>5, <1>6, <1>7

LEMMA ReadCardsKeepsIInv ==
  ASSUME IInv, NEW q \in Reqs, ReadCards(q)
  PROVE  IInv'
<1>1. PICK i \in Newest, c \in Cells, d \in BOOLEAN :
        /\ Cardinality(rows[i].cells[c].cards) >= 2
        /\ task' = [task EXCEPT ![q] = [Idle EXCEPT !.pc = "classify", !.cell = c,
                      !.cards = rows[i].cells[c].cards, !.drafts = d]]
  BY DEF ReadCards
<1> DEFINE t == [Idle EXCEPT !.pc = "classify", !.cell = c,
                             !.cards = rows[i].cells[c].cards, !.drafts = d]
<1>2. i \in DOMAIN rows
  BY DEF Newest
<1>3. rows[i].cells[c].cards \in SUBSET Cards
  <2>1. rows[i].cells[c] \in CellStates
    BY <1>2, OldCell
  <2> QED BY <2>1 DEF CellStates
<1>4. rows[i].cells[c].cards # {}
  <2>1. Cardinality({}) = 0
    BY FS_EmptySet
  <2>2. ~(0 >= 2)
    OBVIOUS
  <2> QED BY <1>1, <2>1, <2>2
<1>5. t \in Tasks /\ t.pc = "classify" /\ t.cards = rows[i].cells[c].cards
  BY <1>3, IdleTyped DEF Tasks
<1>6. TaskOK(t, rows, cleared)
  BY <1>4, <1>5 DEF TaskOK
<1>7. task' = [task EXCEPT ![q] = t] /\ rows' = rows /\ cleared' = cleared
  BY <1>1 DEF ReadCards
<1>8. cleared \in SUBSET (SUBSET Cards)
  BY DEF IInv, TypeOK
<1> HIDE DEF t
<1> QED BY <1>5, <1>6, <1>7, <1>8, MoveKeepsIInv

LEMMA TakeNumberKeepsIInv ==
  ASSUME IInv, NEW q \in Reqs, TakeNumber(q)
  PROVE  IInv'
<1>1. PICK i \in Newest :
        /\ At(q, "number")
        /\ task' = [task EXCEPT ![q].pc = "insert",
                                ![q].version = rows[i].version + 1]
        /\ UNCHANGED <<rows, cleared>>
  BY DEF TakeNumber
<1> DEFINE t == [task[q] EXCEPT !.pc = "insert", !.version = rows[i].version + 1]
<1>2. i \in DOMAIN rows /\ \A j \in DOMAIN rows : rows[j].version <= rows[i].version
  BY DEF Newest
<1>3. rows \in Seq(Rows) /\ task \in [Reqs -> Tasks]
      /\ cleared \in SUBSET (SUBSET Cards)
  BY DEF IInv, TypeOK
<1>4. \A j \in DOMAIN rows : rows[j].version \in Nat \ {0}
  <2>1. \A j \in DOMAIN rows : rows[j] \in Rows
    BY <1>3
  <2> QED BY <2>1 DEF Rows
<1>5. task[q] \in Tasks /\ TaskOK(task[q], rows, cleared)
  BY <1>3 DEF IInv, TasksOK
<1>6. /\ t \in Tasks /\ t.pc = "insert" /\ t.cells = task[q].cells
      /\ t.label = task[q].label /\ t.version = rows[i].version + 1
  <2>1. rows[i].version + 1 \in Nat \ {0}
    BY <1>2, <1>4
  <2> QED BY <1>5, <2>1 DEF Tasks
<1>7. PICK j \in DOMAIN rows : BuiltFrom(task[q], rows[j])
  BY <1>1, <1>5 DEF TaskOK, At
<1>8. BuiltFrom(t, rows[j])
  BY <1>2, <1>4, <1>6, <1>7 DEF BuiltFrom
<1>9. PlanOK(t.cells, Len(rows), rows, cleared)
  BY <1>1, <1>5, <1>6 DEF TaskOK, At
<1>10. TaskOK(t, rows, cleared)
  BY <1>2, <1>6, <1>8, <1>9 DEF TaskOK
<1>11. task' = [task EXCEPT ![q] = t]
  BY <1>1, <1>3
<1> HIDE DEF t
<1> QED BY <1>1, <1>3, <1>6, <1>10, <1>11, MoveKeepsIInv

(* The row an insert adds.                                                 *)
LEMMA InsertedRow ==
  ASSUME IInv, NEW q \in Reqs, Insert(q)
  PROVE  \E row \in Rows :
           /\ rows' = Append(rows, row)
           /\ PlanOK(row.cells, Len(rows), rows, cleared)
           /\ \E i \in DOMAIN rows : History!Builds(row, rows[i])
           /\ \E i \in DOMAIN rows : History!Numbered(row, rows[i])
<1> DEFINE row == [version |-> task[q].version, label |-> task[q].label,
                   cells |-> task[q].cells]
<1>1. task[q] \in Tasks /\ TaskOK(task[q], rows, cleared) /\ At(q, "insert")
  BY DEF IInv, TypeOK, TasksOK, Insert
<1>2. row \in Rows
  BY <1>1 DEF Rows, Tasks
<1>3. PlanOK(row.cells, Len(rows), rows, cleared)
  BY <1>1 DEF TaskOK, At
<1>4. \E i \in DOMAIN rows : History!Builds(row, rows[i])
  BY <1>1 DEF TaskOK, At, BuiltFrom, History!Builds
<1>5. \E i \in DOMAIN rows : History!Numbered(row, rows[i])
  BY <1>1 DEF TaskOK, At, History!Numbered
<1>6. rows' = Append(rows, row)
  BY DEF Insert
<1> HIDE DEF row
<1> QED BY <1>2, <1>3, <1>4, <1>5, <1>6

LEMMA InsertKeepsIInv ==
  ASSUME IInv, NEW q \in Reqs, Insert(q)
  PROVE  IInv'
<1>1. PICK row \in Rows : /\ rows' = Append(rows, row)
                          /\ PlanOK(row.cells, Len(rows), rows, cleared)
  BY InsertedRow
<1> QED BY <1>1, AppendKeepsIInv DEF Insert

LEMMA CreateKeepsIInv ==
  ASSUME IInv, NEW q \in Reqs, Create(q)
  PROVE  IInv'
<1> DEFINE row == [version |-> 1, label |-> FALSE, cells |-> EmptyPlan]
<1>1. row \in Rows
  BY EmptyCellTyped DEF Rows, EmptyPlan, Plans
<1>2. PlanOK(row.cells, Len(rows), rows, cleared)
  BY DEF PlanOK, CellOK, Offered, EmptyPlan, EmptyCell, Blank
<1>3. cleared \in SUBSET (SUBSET Cards)
  BY DEF IInv, TypeOK
<1>4. CASE rows' = rows
  BY <1>3, <1>4, FinishKeepsIInv DEF Create
<1>5. CASE rows' = Append(rows, row)
  BY <1>1, <1>2, <1>5, AppendKeepsIInv DEF Create
<1> QED BY <1>4, <1>5 DEF Create

LEMMA NextKeepsIInv == IInv /\ [Next]_vars => IInv'
<1> SUFFICES ASSUME IInv, [Next]_vars PROVE IInv'
  OBVIOUS
<1>1. CASE UNCHANGED vars
  BY <1>1 DEF vars, IInv, TypeOK, RowsOK, TasksOK
<1>2. ASSUME NEW q \in Reqs,
             \/ OpenCanvas(q) \/ Create(q)
             \/ Operate(q)    \/ ReadCards(q)
             \/ FindCompatible(q) \/ FindConflict(q) \/ DraftStatement(q)
             \/ ModelSilent(q) \/ Store(q) \/ TakeNumber(q) \/ Insert(q)
             \/ Abort(q)
      PROVE  IInv'
  BY <1>2, ModelKeepsIInv, CreateKeepsIInv, OperateKeepsIInv, ReadCardsKeepsIInv,
     StoreKeepsIInv, TakeNumberKeepsIInv, InsertKeepsIInv
<1> QED BY <1>1, <1>2 DEF Next

(* The invariant holds in every reachable state.                           *)
THEOREM Inductive == Spec => []IInv
<1> QED BY InitIInv, NextKeepsIInv, PTL DEF Spec

-----------------------------------------------------------------------------
(* The rows, the requests and the cleared sets have their types.           *)
THEOREM TypeCorrect == Spec => []TypeOK
<1>1. IInv => TypeOK
  BY DEF IInv
<1> QED BY <1>1, Inductive, PTL

(* The conflict guard holds for any number of requests and however the     *)
(* cards change while the model is asked.                                  *)
THEOREM GuardHolds == Spec => []StatementsCleared
<1>1. IInv => StatementsCleared
  BY DEF IInv, RowsOK, PlanOK, CellOK, StatementsCleared
<1> QED BY <1>1, Inductive, PTL

(* Nothing is published that was not offered to a human before, and those  *)
(* who were on the cell when the offer was taken up are credited for it.   *)
THEOREM NothingUnoffered == Spec => []PublishedWasOffered
<1>1. IInv => PublishedWasOffered
  BY DEF IInv, RowsOK, PlanOK, Offered, PublishedWasOffered
<1> QED BY <1>1, Inductive, PTL

-----------------------------------------------------------------------------
LEMMA StepOfHistory == IInv /\ [Next]_vars => [History!Next]_rows
<1> SUFFICES ASSUME IInv, [Next]_vars, rows' # rows PROVE History!Next
  OBVIOUS
<1>1. rows \in Seq(Rows)
  BY DEF IInv, TypeOK
<1>2. PICK q \in Reqs : Create(q) \/ Insert(q)
  <2>1. ASSUME NEW q \in Reqs, Operate(q)
        PROVE  rows' = rows
    <3>1. PICK i \in Newest :
            \/ Snapshot(q, rows[i])
            \/ \E c \in Cells :
                 \/ Edit(q, rows[i], c)   \/ Attach(q, rows[i], c)
                 \/ Detach(q, rows[i], c) \/ Accept(q, rows[i], c)
                 \/ Discard(q, rows[i], c) \/ Decide(q, rows[i], c)
      BY <2>1 DEF Operate
    <3>2. CASE Snapshot(q, rows[i])
      BY <3>2 DEF Snapshot
    <3>3. ASSUME NEW c \in Cells,
                 \/ Edit(q, rows[i], c)   \/ Attach(q, rows[i], c)
                 \/ Detach(q, rows[i], c) \/ Accept(q, rows[i], c)
                 \/ Discard(q, rows[i], c) \/ Decide(q, rows[i], c)
          PROVE  rows' = rows
      BY <3>3 DEF Edit, Attach, Detach, Accept, Discard, Decide, Prepare
    <3> QED BY <3>1, <3>2, <3>3
  <2>2. ASSUME NEW q \in Reqs,
               \/ OpenCanvas(q) \/ ReadCards(q) \/ FindCompatible(q)
               \/ FindConflict(q) \/ DraftStatement(q) \/ ModelSilent(q)
               \/ Store(q) \/ TakeNumber(q) \/ Abort(q)
        PROVE  rows' = rows
    BY <2>2 DEF OpenCanvas, ReadCards, FindCompatible, FindConflict,
         DraftStatement, ModelSilent, Store, Prepare, TakeNumber, Abort
  <2> QED BY <2>1, <2>2 DEF Next, vars
<1>3. \E row \in Rows : /\ rows' = Append(rows, row)
                        /\ History!First(row) \/ History!Follows(row)
  <2>1. CASE Insert(q)
    BY <2>1, InsertedRow DEF History!Follows
  <2>2. CASE Create(q)
    <3> DEFINE row == [version |-> 1, label |-> FALSE, cells |-> EmptyPlan]
    <3>1. row \in Rows
      BY EmptyCellTyped DEF Rows, EmptyPlan, Plans
    <3>2. rows' = Append(rows, row)
      BY <2>2 DEF Create
    <3>3. History!First(row)
      BY DEF History!First
    <3> HIDE DEF row
    <3> QED BY <3>1, <3>2, <3>3
  <2> QED BY <1>2, <2>1, <2>2
<1>4. PICK row \in Rows : /\ rows' = Append(rows, row)
                          /\ History!First(row) \/ History!Follows(row)
  BY <1>3
<1>5. Len(rows') = Len(rows) + 1 /\ rows'[Len(rows')] = row
  BY <1>1, <1>4
<1> QED BY <1>4, <1>5 DEF History!Next

(* The official plan is a draft history: every row is the first one or     *)
(* changes at most one cell of a row that is there, under the number after *)
(* one already given out.                                                  *)
THEOREM RefinesHistory == Spec => ImplementsHistory
<1>1. Init => History!Init
  BY DEF Init, History!Init
<1> QED BY <1>1, StepOfHistory, Inductive, PTL
        DEF Spec, ImplementsHistory, History!Spec

-----------------------------------------------------------------------------
(* How many rows share a version: as many as there are, and as many as may *)
(* still come from requests that have taken the number.  A number is taken *)
(* one above every row there is, so it is fresh when it is taken, and each *)
(* insert turns a holder into a row.  Only the first row does without.     *)
Sharing(v, rs) == {i \in DOMAIN rs : rs[i].version = v}
Holding(v, ts) == {q \in Reqs : ts[q].pc = "insert" /\ ts[q].version = v}

SharesOK(rs, ts) ==
  \A v \in Nat :
    Cardinality(Sharing(v, rs)) + Cardinality(Holding(v, ts)) <= Cardinality(Reqs)

FirstIsOne(rs) == rs # <<>> => 1 \in DOMAIN rs /\ rs[1].version = 1

ClashInv == IInv /\ SharesOK(rows, task) /\ FirstIsOne(rows)

(* Both are finite, and the holders are requests.                          *)
LEMMA SharesFinite ==
  ASSUME NEW rs \in Seq(Rows), NEW ts, NEW v
  PROVE  /\ IsFiniteSet(Sharing(v, rs)) /\ Cardinality(Sharing(v, rs)) \in Nat
         /\ IsFiniteSet(Holding(v, ts)) /\ Cardinality(Holding(v, ts)) \in Nat
         /\ Cardinality(Reqs) \in Nat
         /\ Cardinality(Holding(v, ts)) <= Cardinality(Reqs)
<1>1. DOMAIN rs = 1..Len(rs) /\ Len(rs) \in Nat
  OBVIOUS
<1>2. IsFiniteSet(1..Len(rs))
  BY <1>1, FS_Interval
<1>3. Sharing(v, rs) \in SUBSET (1..Len(rs)) /\ Holding(v, ts) \in SUBSET Reqs
  BY <1>1 DEF Sharing, Holding
<1>4. IsFiniteSet(Sharing(v, rs))
  BY <1>2, <1>3, FS_Subset
<1>5. /\ IsFiniteSet(Reqs) /\ IsFiniteSet(Holding(v, ts))
      /\ Cardinality(Holding(v, ts)) <= Cardinality(Reqs)
  BY <1>3, OfficialAssumption, FS_Subset
<1> QED BY <1>4, <1>5, FS_CardinalityType

(* What one more row does to the count.                                    *)
LEMMA AppendShares ==
  ASSUME NEW rs \in Seq(Rows), NEW row \in Rows, NEW v
  PROVE  Cardinality(Sharing(v, Append(rs, row))) =
           Cardinality(Sharing(v, rs)) + (IF row.version = v THEN 1 ELSE 0)
<1>1. /\ Len(rs) \in Nat /\ DOMAIN rs = 1..Len(rs)
      /\ DOMAIN Append(rs, row) = 1..(Len(rs) + 1)
      /\ \A i \in 1..Len(rs) : Append(rs, row)[i] = rs[i]
      /\ Append(rs, row)[Len(rs) + 1] = row
  OBVIOUS
<1>2. IsFiniteSet(Sharing(v, rs)) /\ Cardinality(Sharing(v, rs)) \in Nat
  BY SharesFinite
<1>3. CASE row.version = v
  <2>1. Sharing(v, Append(rs, row)) = Sharing(v, rs) \union {Len(rs) + 1}
    BY <1>1, <1>3 DEF Sharing
  <2>2. Len(rs) + 1 \notin Sharing(v, rs)
    BY <1>1 DEF Sharing
  <2>3. Cardinality(Sharing(v, rs) \union {Len(rs) + 1})
          = Cardinality(Sharing(v, rs)) + 1
    BY <1>2, <2>2, FS_AddElement
  <2> QED BY <1>3, <2>1, <2>3
<1>4. CASE row.version # v
  <2>1. Sharing(v, Append(rs, row)) = Sharing(v, rs)
    BY <1>1, <1>4 DEF Sharing
  <2> QED BY <1>2, <1>4, <2>1
<1> QED BY <1>3, <1>4

(* Every row has a number of its kind.                                     *)
LEMMA OldVersion ==
  ASSUME NEW rs \in Seq(Rows), NEW i \in DOMAIN rs
  PROVE  rs[i].version \in Nat \ {0}
<1>1. rs[i] \in Rows
  OBVIOUS
<1> QED BY <1>1 DEF Rows

(* A step after which the same requests hold numbers, or fewer.            *)
LEMMA FewerHold ==
  ASSUME NEW rs \in Seq(Rows), NEW ts, NEW tt, NEW v,
         Holding(v, tt) \subseteq Holding(v, ts)
  PROVE  Cardinality(Holding(v, tt)) <= Cardinality(Holding(v, ts))
  BY SharesFinite, FS_Subset

(* A step after which nobody else holds a number keeps the bound.          *)
LEMMA FewerHoldersKeep ==
  ASSUME NEW rs \in Seq(Rows), NEW ts, NEW tt, SharesOK(rs, ts),
         \A v \in Nat : Holding(v, tt) \subseteq Holding(v, ts)
  PROVE  SharesOK(rs, tt)
<1> SUFFICES ASSUME NEW v \in Nat
             PROVE  Cardinality(Sharing(v, rs)) + Cardinality(Holding(v, tt))
                      <= Cardinality(Reqs)
  BY DEF SharesOK
<1>1. Cardinality(Holding(v, tt)) <= Cardinality(Holding(v, ts))
  BY FewerHold
<1>2. Cardinality(Sharing(v, rs)) + Cardinality(Holding(v, ts))
        <= Cardinality(Reqs)
  BY DEF SharesOK
<1>3. /\ Cardinality(Sharing(v, rs)) \in Nat /\ Cardinality(Reqs) \in Nat
      /\ Cardinality(Holding(v, ts)) \in Nat
      /\ Cardinality(Holding(v, tt)) \in Nat
  BY SharesFinite
<1> QED BY <1>1, <1>2, <1>3

(* Every other step leaves the rows alone and gives nobody a number.       *)
LEMMA QuietSteps ==
  ASSUME IInv, NEW q \in Reqs,
         \/ OpenCanvas(q) \/ Operate(q) \/ ReadCards(q)
         \/ FindCompatible(q) \/ FindConflict(q) \/ DraftStatement(q)
         \/ ModelSilent(q) \/ Store(q) \/ Abort(q)
  PROVE  /\ rows' = rows
         /\ \A p \in Reqs : task'[p].pc = "insert" => task'[p] = task[p]
<1>1. task \in [Reqs -> Tasks]
  BY DEF IInv, TypeOK
<1>2. ASSUME NEW pc, pc # "insert", Goto(q, pc)
      PROVE  \A p \in Reqs : task'[p].pc = "insert" => task'[p] = task[p]
  BY <1>1, <1>2 DEF Goto, Tasks
<1>3. ASSUME Finish(q)
      PROVE  \A p \in Reqs : task'[p].pc = "insert" => task'[p] = task[p]
  BY <1>1, <1>3 DEF Finish, Idle
<1>4. ASSUME NEW base, NEW c, NEW new, Prepare(q, base, c, new)
      PROVE  /\ rows' = rows
             /\ \A p \in Reqs : task'[p].pc = "insert" => task'[p] = task[p]
  BY <1>1, <1>4 DEF Prepare, Idle
<1>5. CASE OpenCanvas(q)
  BY <1>2, <1>5 DEF OpenCanvas
<1>6. CASE Operate(q)
  <2>1. PICK i \in Newest :
          \/ Snapshot(q, rows[i])
          \/ \E c \in Cells :
               \/ Edit(q, rows[i], c)   \/ Attach(q, rows[i], c)
               \/ Detach(q, rows[i], c) \/ Accept(q, rows[i], c)
               \/ Discard(q, rows[i], c) \/ Decide(q, rows[i], c)
    BY <1>6 DEF Operate
  <2>2. CASE Snapshot(q, rows[i])
    BY <1>1, <2>2 DEF Snapshot, Idle
  <2>3. ASSUME NEW c \in Cells,
               \/ Edit(q, rows[i], c)   \/ Attach(q, rows[i], c)
               \/ Detach(q, rows[i], c) \/ Accept(q, rows[i], c)
               \/ Discard(q, rows[i], c) \/ Decide(q, rows[i], c)
        PROVE  \E new : Prepare(q, rows[i], c, new)
    BY <2>3 DEF Edit, Attach, Detach, Accept, Discard, Decide
  <2> QED BY <1>4, <2>1, <2>2, <2>3
<1>7. CASE ReadCards(q)
  BY <1>1, <1>7 DEF ReadCards, Idle
<1>8. CASE FindCompatible(q) \/ FindConflict(q) \/ DraftStatement(q)
  BY <1>2, <1>3, <1>8 DEF FindCompatible, FindConflict, DraftStatement
<1>9. CASE ModelSilent(q) \/ Abort(q)
  BY <1>3, <1>9 DEF ModelSilent, Abort
<1>10. CASE Store(q)
  BY <1>4, <1>10 DEF Store
<1> QED BY <1>5, <1>6, <1>7, <1>8, <1>9, <1>10

(* A number that is taken is above every row.                              *)
LEMMA TakeShares ==
  ASSUME ClashInv, NEW q \in Reqs, TakeNumber(q)
  PROVE  SharesOK(rows', task') /\ rows' = rows
<1>1. PICK i \in Newest :
        /\ At(q, "number")
        /\ task' = [task EXCEPT ![q].pc = "insert",
                                ![q].version = rows[i].version + 1]
        /\ rows' = rows
  BY DEF TakeNumber
<1>2. rows \in Seq(Rows) /\ task \in [Reqs -> Tasks]
  BY DEF ClashInv, IInv, TypeOK
<1>3. \A j \in DOMAIN rows : rows[j].version \in Nat \ {0}
  BY <1>2, OldVersion
<1>4. i \in DOMAIN rows /\ \A j \in DOMAIN rows : rows[j].version <= rows[i].version
  BY DEF Newest
<1>5. /\ task'[q].version = rows[i].version + 1
      /\ \A p \in Reqs \ {q} : task'[p] = task[p]
  BY <1>1, <1>2 DEF Tasks
<1>6. ASSUME NEW v \in Nat
      PROVE  Cardinality(Sharing(v, rows)) + Cardinality(Holding(v, task'))
               <= Cardinality(Reqs)
  <2>1. CASE v = rows[i].version + 1
    <3>1. \A j \in DOMAIN rows : rows[j].version # v
      BY <1>3, <1>4, <2>1
    <3>2. Sharing(v, rows) = {}
      BY <3>1 DEF Sharing
    <3>3. Cardinality(Sharing(v, rows)) = 0
      BY <3>2, FS_EmptySet
    <3> QED BY <1>2, <3>3, SharesFinite
  <2>2. CASE v # rows[i].version + 1
    <3>1. Holding(v, task') \subseteq Holding(v, task)
      BY <1>5, <2>2 DEF Holding
    <3>2. Cardinality(Holding(v, task')) <= Cardinality(Holding(v, task))
      BY <1>2, <3>1, FewerHold
    <3>3. Cardinality(Sharing(v, rows)) + Cardinality(Holding(v, task))
            <= Cardinality(Reqs)
      BY DEF ClashInv, SharesOK
    <3>4. /\ Cardinality(Sharing(v, rows)) \in Nat /\ Cardinality(Reqs) \in Nat
          /\ Cardinality(Holding(v, task)) \in Nat
          /\ Cardinality(Holding(v, task')) \in Nat
      BY <1>2, SharesFinite
    <3> QED BY <3>2, <3>3, <3>4
  <2> QED BY <2>1, <2>2
<1> QED BY <1>1, <1>6 DEF SharesOK

(* An insert turns a holder into a row.                                    *)
LEMMA InsertShares ==
  ASSUME ClashInv, NEW q \in Reqs, Insert(q)
  PROVE  SharesOK(rows', task') /\ FirstIsOne(rows')
<1> DEFINE row == [version |-> task[q].version, label |-> task[q].label,
                   cells |-> task[q].cells]
<1>1. /\ rows \in Seq(Rows) /\ task \in [Reqs -> Tasks]
      /\ TaskOK(task[q], rows, cleared) /\ task[q].pc = "insert"
  BY DEF ClashInv, IInv, TypeOK, TasksOK, Insert, At
<1>2. row \in Rows
  BY <1>1 DEF Rows, Tasks
<1>3. rows' = Append(rows, row) /\ row.version = task[q].version
  BY DEF Insert
<1> HIDE DEF row
<1>4. task'[q].pc # "insert" /\ \A p \in Reqs \ {q} : task'[p] = task[p]
  BY <1>1 DEF Insert, Finish, Idle
<1>5. ASSUME NEW v \in Nat
      PROVE  Cardinality(Sharing(v, rows')) + Cardinality(Holding(v, task'))
               <= Cardinality(Reqs)
  <2>1. Cardinality(Sharing(v, rows)) + Cardinality(Holding(v, task))
          <= Cardinality(Reqs)
    BY DEF ClashInv, SharesOK
  <2>2. /\ Cardinality(Sharing(v, rows)) \in Nat /\ Cardinality(Reqs) \in Nat
        /\ IsFiniteSet(Holding(v, task)) /\ Cardinality(Holding(v, task)) \in Nat
        /\ Cardinality(Holding(v, task')) \in Nat
    BY <1>1, SharesFinite
  <2>3. Holding(v, task') = Holding(v, task) \ {q}
    BY <1>4 DEF Holding
  <2>4. Cardinality(Holding(v, task')) =
          IF q \in Holding(v, task) THEN Cardinality(Holding(v, task)) - 1
          ELSE Cardinality(Holding(v, task))
    BY <2>2, <2>3, FS_RemoveElement
  <2>5. q \in Holding(v, task) <=> row.version = v
    BY <1>1, <1>3 DEF Holding
  <2>6. Cardinality(Sharing(v, rows')) =
          Cardinality(Sharing(v, rows)) + (IF row.version = v THEN 1 ELSE 0)
    BY <1>1, <1>2, <1>3, AppendShares
  <2> QED BY <2>1, <2>2, <2>4, <2>5, <2>6
<1>6. rows # <<>>
  BY <1>1 DEF TaskOK
<1>7. FirstIsOne(rows')
  BY <1>1, <1>2, <1>3, <1>6 DEF ClashInv, FirstIsOne
<1> QED BY <1>5, <1>7 DEF SharesOK

(* The first row is the only one that takes no number.                     *)
LEMMA CreateShares ==
  ASSUME ClashInv, NEW q \in Reqs, Create(q)
  PROVE  SharesOK(rows', task') /\ FirstIsOne(rows')
<1> DEFINE row == [version |-> 1, label |-> FALSE, cells |-> EmptyPlan]
<1>1. rows \in Seq(Rows) /\ task \in [Reqs -> Tasks]
  BY DEF ClashInv, IInv, TypeOK
<1>2. row \in Rows /\ row.version = 1
  BY EmptyCellTyped DEF Rows, EmptyPlan, Plans
<1>3. \A v \in Nat : Holding(v, task') \subseteq Holding(v, task)
  BY <1>1 DEF Holding, Create, Finish, Idle
<1>4. CASE rows' = rows
  BY <1>1, <1>3, <1>4, FewerHoldersKeep DEF ClashInv
<1>5. CASE rows' = Append(rows, row) /\ ~\E i \in DOMAIN rows : rows[i].version = 1
  <2>1. rows = <<>>
    BY <1>5 DEF ClashInv, FirstIsOne
  <2>2. \A p \in Reqs : task[p].pc # "insert"
    BY <2>1 DEF ClashInv, IInv, TasksOK, TaskOK
  <2>3. ASSUME NEW v \in Nat
        PROVE  Cardinality(Sharing(v, rows')) + Cardinality(Holding(v, task'))
                 <= Cardinality(Reqs)
    <3>1. Holding(v, task') = {} /\ Sharing(v, rows) = {}
      BY <1>3, <2>1, <2>2 DEF Holding, Sharing
    <3>2. Cardinality(Holding(v, task')) = 0 /\ Cardinality(Sharing(v, rows)) = 0
      BY <3>1, FS_EmptySet
    <3>3. Cardinality(Sharing(v, rows')) = 0 + (IF row.version = v THEN 1 ELSE 0)
      BY <1>1, <1>2, <1>5, <3>2, AppendShares
    <3>4. Cardinality(Reqs) \in Nat /\ Cardinality(Reqs) # 0
      BY OfficialAssumption, FS_CardinalityType, FS_EmptySet
    <3> QED BY <3>2, <3>3, <3>4
  <2>4. FirstIsOne(rows')
    BY <1>2, <1>5, <2>1 DEF FirstIsOne
  <2> QED BY <2>3, <2>4 DEF SharesOK
<1> QED BY <1>4, <1>5 DEF Create

(* Every step keeps the invariant.                                         *)
LEMMA ClashStep == ClashInv /\ [Next]_vars => ClashInv'
<1> SUFFICES ASSUME ClashInv, [Next]_vars PROVE ClashInv'
  OBVIOUS
<1>1. IInv /\ IInv' /\ rows \in Seq(Rows)
  BY NextKeepsIInv DEF ClashInv, IInv, TypeOK
<1>2. ASSUME NEW q \in Reqs, TakeNumber(q)
      PROVE  ClashInv'
  BY <1>1, <1>2, TakeShares DEF ClashInv
<1>3. ASSUME NEW q \in Reqs, Insert(q) \/ Create(q)
      PROVE  ClashInv'
  BY <1>1, <1>3, InsertShares, CreateShares DEF ClashInv
<1>4. ASSUME rows' = rows,
             \A p \in Reqs : task'[p].pc = "insert" => task'[p] = task[p]
      PROVE  ClashInv'
  <2>1. \A v \in Nat : Holding(v, task') \subseteq Holding(v, task)
    BY <1>4 DEF Holding
  <2> QED BY <1>1, <1>4, <2>1, FewerHoldersKeep DEF ClashInv
<1>5. ASSUME NEW q \in Reqs,
             \/ OpenCanvas(q) \/ Operate(q) \/ ReadCards(q)
             \/ FindCompatible(q) \/ FindConflict(q) \/ DraftStatement(q)
             \/ ModelSilent(q) \/ Store(q) \/ Abort(q)
      PROVE  ClashInv'
  BY <1>1, <1>4, <1>5, QuietSteps
<1>6. CASE UNCHANGED vars
  BY <1>4, <1>6 DEF vars
<1> QED BY <1>2, <1>3, <1>5, <1>6 DEF Next

(* No more rows share a version than requests run at a time, though nothing*)
(* is locked between writeOfficialCellsVersion's two statements.           *)
THEOREM ClashesNeverExceed == Spec => []ClashesBounded
<1>1. Init => ClashInv
  <2> SUFFICES ASSUME Init PROVE ClashInv
    OBVIOUS
  <2>1. IInv /\ rows \in Seq(Rows)
    BY InitIInv DEF IInv, TypeOK
  <2>2. ASSUME NEW v \in Nat
        PROVE  Cardinality(Sharing(v, rows)) + Cardinality(Holding(v, task))
                 <= Cardinality(Reqs)
    <3>1. Sharing(v, rows) = {}
      BY DEF Init, Sharing
    <3>2. Cardinality(Sharing(v, rows)) = 0
      BY <3>1, FS_EmptySet
    <3> QED BY <2>1, <3>2, SharesFinite
  <2> QED BY <2>1, <2>2 DEF Init, ClashInv, SharesOK, FirstIsOne
<1>2. ClashInv /\ [Next]_vars => ClashInv'
  BY ClashStep
<1>3. ClashInv => ClashesBounded
  <2> SUFFICES ASSUME ClashInv, NEW i \in DOMAIN rows
               PROVE  Cardinality({j \in DOMAIN rows :
                        rows[j].version = rows[i].version}) <= Cardinality(Reqs)
    BY DEF ClashesBounded
  <2>1. rows \in Seq(Rows)
    BY DEF ClashInv, IInv, TypeOK
  <2>2. rows[i].version \in Nat
    BY <2>1, OldVersion
  <2> DEFINE v == rows[i].version
  <2>3. Cardinality(Sharing(v, rows)) + Cardinality(Holding(v, task))
          <= Cardinality(Reqs)
    BY <2>2 DEF ClashInv, SharesOK
  <2>4. /\ Cardinality(Sharing(v, rows)) \in Nat /\ Cardinality(Reqs) \in Nat
        /\ Cardinality(Holding(v, task)) \in Nat
    BY <2>1, SharesFinite
  <2>5. Cardinality(Sharing(v, rows)) <= Cardinality(Reqs)
    BY <2>3, <2>4
  <2> QED BY <2>5 DEF Sharing
<1> QED BY <1>1, <1>2, <1>3, PTL DEF Spec
=============================================================================
