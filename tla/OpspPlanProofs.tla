--------------------------- MODULE OpspPlanProofs ---------------------------
(***************************************************************************)
(* Proofs about OpspPlan, for every choice of cells, answers and bounds.   *)
(* The inductive invariant says of a plan that an edit has computed and    *)
(* not inserted yet what the properties say of a row: each cell it did not *)
(* mark by hand carries the mark its submit derived, and it is one edit    *)
(* away from a row that is there.  Rows and submits are only ever added.   *)
(* A second invariant follows what each row was made from: the numbers     *)
(* grow along it, and past every row there was when the edit began.        *)
(***************************************************************************)
EXTENDS OpspPlan, TLAPS

Doubtful(c, answers) == Value(c, answers) = {} \/ LowConfidence(c, answers)

CellOK(cell, c, fz) ==
  /\ cell.from \in DOMAIN fz
  /\ ~cell.hand => cell.marking = ResolveMarking(CellSpecs[c].mark,
                                                 Doubtful(c, fz[cell.from]))

PlanOK(plan, fz) == \A c \in Cells : CellOK(plan[c], c, fz)

TaskOK(t, rs, fz) ==
  t.pc # "idle" =>
    /\ PlanOK(t.cells, fz)
    /\ \E i \in DOMAIN rs : /\ History!OneCellApart(rs[i].cells, t.cells)
                            /\ t.pc = "insert" => rs[i].version < t.version
    /\ t.pc = "insert" => \E i \in DOMAIN rs : t.version = rs[i].version + 1

RowsOK  == \A i \in DOMAIN rows : PlanOK(rows[i].cells, frozen)
TasksOK == \A q \in Reqs : TaskOK(task[q], rows, frozen)
IInv    == TypeOK /\ RowsOK /\ TasksOK

-----------------------------------------------------------------------------
(* What the mapping gives.                                                 *)

LEMMA MarksOfCells ==
  \A c \in Cells : CellSpecs[c].mark \in {"ink", "pencil", "split"}
  BY PlanAssumption DEF CellSpecs

LEMMA ResolvedTyped ==
  ASSUME NEW mark, NEW doubt \in BOOLEAN
  PROVE  ResolveMarking(mark, doubt) \in
           {Single("ink"), Single("pencil"), Parts("ink"), Parts("pencil")}
  BY DEF ResolveMarking

LEMMA DerivedOK ==
  ASSUME NEW c \in Cells, NEW answers \in Answered \cup {<<>>}, NEW n \in Nat
  PROVE  /\ DeriveCell(c, answers, n) \in CellStates
         /\ \A fz : n \in DOMAIN fz /\ fz[n] = answers
                      => CellOK(DeriveCell(c, answers, n), c, fz)
<1>1. Value(c, answers) \in CellValues
  BY DEF CellValues
<1>2. LowConfidence(c, answers) \in BOOLEAN
  BY DEF LowConfidence
<1>3. Doubtful(c, answers) \in BOOLEAN
  BY <1>2 DEF Doubtful
<1>4. DeriveCell(c, answers, n).marking \in
        {Single("ink"), Single("pencil"), Parts("ink"), Parts("pencil")}
  BY <1>3, ResolvedTyped DEF DeriveCell, Doubtful
<1>5. DeriveCell(c, answers, n) \in CellStates
  BY <1>1, <1>2, <1>4 DEF DeriveCell, CellStates
<1> QED BY <1>5 DEF DeriveCell, CellOK, Doubtful

LEMMA IdleTyped == Idle \in Tasks
<1>1. \A c \in Cells : DeriveCell(c, <<>>, 0) \in CellStates
  BY DerivedOK
<1>2. Mapped(<<>>, 0) \in [Cells -> CellStates]
  BY <1>1 DEF Mapped
<1> QED BY <1>2 DEF Idle, Tasks

LEMMA InitIInv == Init => IInv
<1> SUFFICES ASSUME Init PROVE IInv
  OBVIOUS
<1>1. TypeOK
  <2>1. rows \in Seq(Rows) /\ frozen \in Seq(Answered)
    BY DEF Init
  <2>2. task \in [Reqs -> Tasks]
    BY IdleTyped DEF Init
  <2> QED BY <2>1, <2>2 DEF Init, TypeOK
<1>2. RowsOK
  BY DEF Init, RowsOK
<1>3. TasksOK
  BY DEF Init, TasksOK, TaskOK, Idle
<1> QED BY <1>1, <1>2, <1>3 DEF IInv

LEMMA EditedOK ==
  ASSUME NEW c \in Cells, NEW cell \in CellStates, NEW edit \in Edits, NEW fz,
         CellOK(cell, c, fz)
  PROVE  /\ ApplyCellEdit(cell, edit) \in CellStates
         /\ CellOK(ApplyCellEdit(cell, edit), c, fz)
<1>1. /\ edit.content \in Typed \cup {{}, Same}
      /\ edit.mark \in {"ink", "pencil", "same"}
  BY DEF Edits
<1>2. (IF edit.content = Same THEN cell.value ELSE edit.content) \in CellValues
  BY <1>1 DEF CellValues, CellStates
<1>3. (IF edit.mark = "same" THEN cell.marking ELSE Single(edit.mark)) \in
        {Single("ink"), Single("pencil"), Parts("ink"), Parts("pencil")}
  BY <1>1 DEF CellStates
<1>4. ApplyCellEdit(cell, edit) \in CellStates
  BY <1>2, <1>3 DEF ApplyCellEdit, CellStates
<1>5. CellOK(ApplyCellEdit(cell, edit), c, fz)
  BY <1>1 DEF ApplyCellEdit, CellStates, CellOK
<1> QED BY <1>4, <1>5

-----------------------------------------------------------------------------
(* What stays true of old rows and of plans on their way.                  *)

Extends(old, new) ==
  \A i \in DOMAIN old : i \in DOMAIN new /\ new[i] = old[i]

LEMMA AppendExtends ==
  ASSUME NEW S, NEW s \in Seq(S), NEW x \in S
  PROVE  /\ Append(s, x) \in Seq(S)
         /\ Extends(s, Append(s, x))
         /\ DOMAIN Append(s, x) = DOMAIN s \cup {Len(s) + 1}
         /\ Append(s, x)[Len(s) + 1] = x
  BY DEF Extends

LEMMA TaskOKKept ==
  ASSUME NEW rs, NEW rt, NEW fz, NEW fy, Extends(rs, rt), Extends(fz, fy),
         NEW t, TaskOK(t, rs, fz)
  PROVE  TaskOK(t, rt, fy)
<1> SUFFICES ASSUME t.pc # "idle"
             PROVE  /\ PlanOK(t.cells, fy)
                    /\ \E i \in DOMAIN rt :
                         /\ History!OneCellApart(rt[i].cells, t.cells)
                         /\ t.pc = "insert" => rt[i].version < t.version
                    /\ t.pc = "insert" => \E i \in DOMAIN rt : t.version = rt[i].version + 1
  BY DEF TaskOK
<1>1. PlanOK(t.cells, fy)
  BY DEF TaskOK, PlanOK, CellOK, Extends
<1>2. \E i \in DOMAIN rt : /\ History!OneCellApart(rt[i].cells, t.cells)
                           /\ t.pc = "insert" => rt[i].version < t.version
  BY DEF TaskOK, Extends
<1>3. t.pc = "insert" => \E i \in DOMAIN rt : t.version = rt[i].version + 1
  BY DEF TaskOK, Extends
<1> QED BY <1>1, <1>2, <1>3

LEMMA IdleOK == ASSUME NEW rs, NEW fz PROVE TaskOK(Idle, rs, fz)
  BY DEF TaskOK, Idle

\* A row that is added, by an edit or by a submit.
LEMMA AddedRow ==
  ASSUME IInv, NEW row \in Rows, rows' = Append(rows, row), TypeOK',
         Extends(frozen, frozen'), PlanOK(row.cells, frozen'),
         \A q \in Reqs : task'[q] = task[q] \/ task'[q] = Idle
  PROVE  IInv'
<1>1. Extends(rows, rows') /\ DOMAIN rows' = DOMAIN rows \cup {Len(rows) + 1}
                           /\ rows'[Len(rows) + 1] = row
  BY AppendExtends DEF IInv, TypeOK
<1>2. RowsOK'
  BY <1>1 DEF IInv, RowsOK, PlanOK, CellOK, Extends
<1>3. TasksOK'
  <2> SUFFICES ASSUME NEW q \in Reqs PROVE TaskOK(task'[q], rows', frozen')
    BY DEF TasksOK
  <2> QED BY <1>1, TaskOKKept, IdleOK DEF IInv, TasksOK
<1> QED BY <1>2, <1>3 DEF IInv

-----------------------------------------------------------------------------
(* One lemma per action that touches rows, submits or tasks.               *)

LEMMA NewestRow ==
  ASSUME IInv, NEW i \in Newest
  PROVE  /\ i \in DOMAIN rows /\ rows[i] \in Rows
         /\ \A j \in DOMAIN rows : rows[j].version <= rows[i].version
  BY DEF IInv, TypeOK, Newest

LEMMA EditReadKeeps ==
  ASSUME IInv, NEW q \in Reqs, EditRead(q) PROVE IInv'
<1>1. PICK i \in Newest, c \in Cells, edit \in Edits :
        task' = [task EXCEPT ![q] =
                   [Idle EXCEPT !.pc = "number",
                      !.cells = [rows[i].cells EXCEPT ![c] = ApplyCellEdit(@, edit)],
                      !.line = rows[i].line, !.seen = Len(rows)]]
  BY DEF EditRead, EditFrom
<1>2. i \in DOMAIN rows /\ rows[i] \in Rows
  BY NewestRow
<1>3. rows[i].cells \in [Cells -> CellStates] /\ PlanOK(rows[i].cells, frozen)
  BY <1>2 DEF Rows, IInv, RowsOK
<1> DEFINE plan == [rows[i].cells EXCEPT ![c] = ApplyCellEdit(@, edit)]
<1>4. plan \in [Cells -> CellStates] /\ PlanOK(plan, frozen)
  BY <1>3, EditedOK DEF PlanOK
<1>5. History!OneCellApart(rows[i].cells, plan)
  BY <1>3 DEF History!OneCellApart
<1> DEFINE new == [Idle EXCEPT !.pc = "number", !.cells = plan,
                               !.line = rows[i].line, !.seen = Len(rows)]
<1> HIDE DEF plan
<1>6. new \in Tasks /\ new.pc = "number" /\ new.cells = plan
  <2>1. rows[i].line \in SUBSET Nat /\ Len(rows) \in Nat
    BY <1>2 DEF Rows, IInv, TypeOK
  <2> QED BY <1>4, <2>1, IdleTyped DEF Tasks
<1> HIDE DEF new
<1>7. task' = [task EXCEPT ![q] = new]
  BY <1>1 DEF plan, new
<1>8. TaskOK(new, rows, frozen)
  BY <1>2, <1>4, <1>5, <1>6 DEF TaskOK
<1>9. UNCHANGED <<rows, frozen, locked, open>>
  BY DEF EditRead, EditFrom
<1>10. TypeOK'
  BY <1>6, <1>7, <1>9 DEF IInv, TypeOK
<1>11. RowsOK'
  BY <1>9 DEF IInv, RowsOK
<1>12. TasksOK'
  BY <1>7, <1>8, <1>9 DEF IInv, TasksOK, TypeOK
<1> QED BY <1>10, <1>11, <1>12 DEF IInv

LEMMA Renumbered ==
  ASSUME NEW t \in Tasks, NEW n \in Nat
  PROVE  LET new == [t EXCEPT !.pc = "insert", !.version = n]
         IN  /\ new \in Tasks /\ new.cells = t.cells
             /\ new.pc = "insert" /\ new.version = n
  BY DEF Tasks

LEMMA EditNumberKeeps ==
  ASSUME IInv, NEW q \in Reqs, EditNumber(q) PROVE IInv'
<1>1. PICK i \in Newest :
        /\ At(q, "number")
        /\ task' = [task EXCEPT ![q].pc = "insert", ![q].version = rows[i].version + 1]
        /\ UNCHANGED <<rows, frozen, locked, open, read, jobs, reads>>
  BY DEF EditNumber
<1>2. /\ i \in DOMAIN rows /\ rows[i].version \in Nat
      /\ \A j \in DOMAIN rows : rows[j].version \in Nat /\ rows[j].version <= rows[i].version
  <2>1. \A j \in DOMAIN rows : rows[j] \in Rows
    BY DEF IInv, TypeOK
  <2> QED BY <2>1, NewestRow DEF Rows
<1>3. task[q] \in Tasks /\ TaskOK(task[q], rows, frozen) /\ task[q].pc = "number"
  BY <1>1 DEF IInv, TypeOK, TasksOK, At
<1> DEFINE new == [task[q] EXCEPT !.pc = "insert", !.version = rows[i].version + 1]
<1>4. /\ new \in Tasks /\ new.cells = task[q].cells /\ new.pc = "insert"
      /\ new.version = rows[i].version + 1
  <2>1. rows[i].version + 1 \in Nat
    BY <1>2
  <2> QED BY <1>3, <2>1, Renumbered
<1>5. task' = [task EXCEPT ![q] = new]
  BY <1>1 DEF IInv, TypeOK
<1> HIDE DEF new
<1>6. TaskOK(new, rows, frozen)
  BY <1>2, <1>3, <1>4 DEF TaskOK
<1>7. TypeOK'
  BY <1>1, <1>4, <1>5 DEF IInv, TypeOK
<1>8. RowsOK'
  BY <1>1 DEF IInv, RowsOK
<1>9. TasksOK'
  BY <1>1, <1>5, <1>6 DEF IInv, TasksOK, TypeOK
<1> QED BY <1>7, <1>8, <1>9 DEF IInv

LEMMA EditInsertKeeps ==
  ASSUME IInv, NEW q \in Reqs, EditInsert(q) PROVE IInv'
<1> DEFINE row == [version |-> task[q].version, label |-> FALSE,
                   cells |-> task[q].cells, seen |-> task[q].seen,
                   line |-> task[q].line \union {Len(rows) + 1}]
<1>1. task[q] \in Tasks /\ TaskOK(task[q], rows, frozen) /\ task[q].pc = "insert"
  BY DEF IInv, TypeOK, TasksOK, EditInsert, At
<1>2. row \in Rows /\ row.cells = task[q].cells
  <2>1. Len(rows) + 1 \in Nat
    BY DEF IInv, TypeOK
  <2>2. task[q].line \union {Len(rows) + 1} \in SUBSET Nat
    BY <1>1, <2>1 DEF Tasks
  <2> QED BY <1>1, <2>2 DEF Tasks, Rows
<1>3. rows' = Append(rows, row) /\ task' = [task EXCEPT ![q] = Idle]
      /\ UNCHANGED <<frozen, locked, open>>
  BY DEF EditInsert
<1> HIDE DEF row
<1>4. Append(rows, row) \in Seq(Rows)
  BY <1>2, AppendExtends DEF IInv, TypeOK
<1>5. TypeOK'
  BY <1>3, <1>4, IdleTyped DEF IInv, TypeOK
<1>6. PlanOK(row.cells, frozen')
  BY <1>1, <1>2, <1>3 DEF TaskOK
<1>7. Extends(frozen, frozen')
  BY <1>3 DEF Extends
<1>8. \A p \in Reqs : task'[p] = task[p] \/ task'[p] = Idle
  BY <1>3 DEF IInv, TypeOK
<1> QED BY <1>2, <1>3, <1>5, <1>6, <1>7, <1>8, AddedRow

LEMMA SubmitKeeps ==
  ASSUME IInv, Submit PROVE IInv'
<1>1. PICK answers \in Answered :
        /\ frozen' = Append(frozen, answers)
        /\ rows' = Append(rows, [version |-> 1, label |-> FALSE,
                                 cells |-> Mapped(answers, Len(frozen')),
                                 seen |-> Len(rows), line |-> {Len(rows) + 1}])
        /\ locked' = TRUE /\ UNCHANGED <<open, task>>
  BY DEF Submit
<1> DEFINE n == Len(frozen')
           row == [version |-> 1, label |-> FALSE, cells |-> Mapped(answers, n),
                   seen |-> Len(rows), line |-> {Len(rows) + 1}]
<1>2. /\ frozen' \in Seq(Answered) /\ Extends(frozen, frozen')
      /\ n \in Nat /\ n \in DOMAIN frozen' /\ frozen'[n] = answers
  <2>1. n = Len(frozen) + 1 /\ Len(frozen) \in Nat
    BY <1>1 DEF IInv, TypeOK
  <2> QED BY <1>1, <2>1, AppendExtends DEF IInv, TypeOK
<1> HIDE DEF n
<1>3. \A c \in Cells : /\ DeriveCell(c, answers, n) \in CellStates
                       /\ CellOK(DeriveCell(c, answers, n), c, frozen')
  BY <1>2, DerivedOK
<1>4. Mapped(answers, n) \in [Cells -> CellStates] /\ PlanOK(Mapped(answers, n), frozen')
  BY <1>3 DEF Mapped, PlanOK
<1>5. row \in Rows /\ row.cells = Mapped(answers, n)
  <2>1. Len(rows) \in Nat
    BY DEF IInv, TypeOK
  <2> QED BY <1>4, <2>1 DEF Rows
<1>6. rows' = Append(rows, row)
  BY <1>1 DEF n
<1> HIDE DEF row
<1>7. Append(rows, row) \in Seq(Rows)
  BY <1>5, AppendExtends DEF IInv, TypeOK
<1>8. TypeOK'
  BY <1>1, <1>2, <1>6, <1>7 DEF IInv, TypeOK
<1> QED BY <1>1, <1>2, <1>4, <1>5, <1>6, <1>8, AddedRow

LEMMA NextKeepsIInv == IInv /\ [Next]_vars => IInv'
<1> SUFFICES ASSUME IInv, [Next]_vars PROVE IInv'
  OBVIOUS
<1>1. CASE \E q \in Reqs : EditRead(q) \/ EditNumber(q) \/ EditInsert(q)
  BY <1>1, EditReadKeeps, EditNumberKeeps, EditInsertKeeps
<1>2. CASE Submit
  BY <1>2, SubmitKeeps
<1>3. ASSUME NEW q \in Reqs, Abort(q) PROVE IInv'
  <2>1. TypeOK'
    BY <1>3, IdleTyped DEF Abort, IInv, TypeOK
  <2>2. RowsOK'
    BY <1>3 DEF Abort, IInv, RowsOK
  <2>3. TasksOK'
    BY <1>3, IdleOK DEF Abort, IInv, TypeOK, TasksOK
  <2> QED BY <2>1, <2>2, <2>3 DEF IInv
<1>4. CASE Unlock \/ SetStatus \/ Ask \/ JobEnds \/ UNCHANGED vars
  <2>1. UNCHANGED <<rows, frozen, task>>
    BY <1>4 DEF Unlock, SetStatus, Ask, JobEnds, vars
  <2>2. locked' \in BOOLEAN /\ open' \in BOOLEAN
    BY <1>4 DEF Unlock, SetStatus, Ask, JobEnds, vars, IInv, TypeOK
  <2> QED BY <2>1, <2>2 DEF IInv, TypeOK, RowsOK, TasksOK
<1> QED BY <1>1, <1>2, <1>3, <1>4 DEF Next

THEOREM Inductive == Spec => []IInv
  BY InitIInv, NextKeepsIInv, PTL DEF Spec

-----------------------------------------------------------------------------
\* A cell with no sure answer behind it is in doubt.
LEMMA SureAnswer ==
  ASSUME NEW c \in Cells, NEW answers, ~Doubtful(c, answers)
  PROVE  /\ \A q \in {feed.q : feed \in CellSpecs[c].feeds} \cap ConfidenceQuestions :
              Answer(answers, q).conf \notin {1, 2}
         /\ \E q \in {feed.q : feed \in CellSpecs[c].feeds} : Answer(answers, q).has # {}
<1>1. ASSUME NEW feed \in CellSpecs[c].feeds, feed.q \in ConfidenceQuestions
      PROVE  Answer(answers, feed.q).conf \notin {1, 2}
  BY <1>1 DEF Doubtful, LowConfidence, SourceIsLow
<1>2. \E feed \in CellSpecs[c].feeds : Fragment(feed, Answer(answers, feed.q)) # {}
  BY DEF Doubtful, Value
<1>3. \E feed \in CellSpecs[c].feeds : Answer(answers, feed.q).has # {}
  BY <1>2 DEF Fragment
<1> QED BY <1>1, <1>3

LEMMA InkHolds == IInv => InkIsEarned
<1> SUFFICES ASSUME IInv, NEW i \in DOMAIN rows, NEW c \in Cells,
                    StateOf(rows[i].cells[c]) = "ink", ~rows[i].cells[c].hand
             PROVE  LET answers == frozen[rows[i].cells[c].from]
                        sources == {feed.q : feed \in CellSpecs[c].feeds}
                    IN  /\ CellSpecs[c].mark = "ink"
                        /\ \A q \in sources \cap ConfidenceQuestions :
                             Answer(answers, q).conf \notin {1, 2}
                        /\ \E q \in sources : Answer(answers, q).has # {}
  BY DEF InkIsEarned
<1> DEFINE answers == frozen[rows[i].cells[c].from]
           doubt   == Doubtful(c, answers)
<1>1. rows[i].cells[c].marking = ResolveMarking(CellSpecs[c].mark, doubt)
  BY DEF IInv, RowsOK, PlanOK, CellOK
<1>2. rows[i].cells[c].marking = Single("ink")
  BY DEF StateOf
<1>3. CellSpecs[c].mark \in {"ink", "pencil", "split"}
  BY MarksOfCells
<1> HIDE DEF doubt
<1>4. CellSpecs[c].mark = "ink" /\ ~doubt
  BY <1>1, <1>2, <1>3 DEF ResolveMarking, Single, Parts
<1> QED BY <1>4, SureAnswer DEF doubt

(* Of every plan, whatever its answers, edits, submits and unlocks: a cell *)
(* nobody marked by hand is in ink only where sure answers stand behind it.*)
THEOREM InkEarned == Spec => []InkIsEarned
  BY Inductive, InkHolds, PTL

-----------------------------------------------------------------------------
(* What a row was made from.                                               *)

\* Row b, which r was made from, was of the highest number when r's edit began.
Base(rs, r, b) ==
  /\ b \in r.line /\ b \in 1..r.seen
  /\ \A k \in 1..r.seen : rs[k].version <= rs[b].version

\* Past every row there was when the edit began.
Past(rs, r) == \A k \in 1..r.seen : rs[k].version < r.version

\* Number x is at or below row n and above what n was made from.
Crosses(rs, n, x) ==
  /\ x <= rs[n].version
  /\ \E c \in 1..n : Base(rs, rs[n], c) /\ rs[c].version < x

LineOK(rs, j) ==
  LET r == rs[j]
  IN  /\ r.version > 0 /\ r.seen < j
      /\ j \in r.line /\ r.line \subseteq 1..j
      /\ r.line # {j} => Past(rs, r) /\ r.version > 1
      /\ \A x \in 2..r.version : \E n \in r.line : Crosses(rs, n, x)

UnderWay(rs, t) ==
  t.pc # "idle" =>
    /\ t.seen <= Len(rs)
    /\ \E b \in 1..Len(rs) : Base(rs, t, b) /\ rs[b].line = t.line
    /\ t.pc = "insert" => Past(rs, t)

LinesOK   == \A j \in 1..Len(rows) : LineOK(rows, j)
TasksLine == \A q \in Reqs : UnderWay(rows, task[q])
LineInv   == IInv /\ LinesOK /\ TasksLine

\* Sequences of rows, and one with a row more.
LEMMA Longer ==
  ASSUME NEW s \in Seq(Rows), NEW row \in Rows
  PROVE  /\ Append(s, row) \in Seq(Rows) /\ Len(Append(s, row)) = Len(s) + 1
         /\ Len(s) \in Nat /\ Append(s, row)[Len(s) + 1] = row
         /\ \A k \in 1..Len(s) : Append(s, row)[k] = s[k] /\ s[k] \in Rows
  OBVIOUS

LEMMA UnderWayKept ==
  ASSUME NEW s \in Seq(Rows), NEW row \in Rows, NEW t \in Tasks, UnderWay(s, t)
  PROVE  UnderWay(Append(s, row), t)
<1> SUFFICES ASSUME t.pc # "idle" PROVE UnderWay(Append(s, row), t)
  BY DEF UnderWay
<1> DEFINE rt == Append(s, row)
<1>1. /\ Len(rt) = Len(s) + 1 /\ Len(s) \in Nat
      /\ \A k \in 1..Len(s) : rt[k] = s[k]
  BY Longer
<1>2. PICK b \in 1..Len(s) : Base(s, t, b) /\ s[b].line = t.line
  BY DEF UnderWay
<1>3. t.seen \in Nat /\ t.seen <= Len(s)
  BY DEF Tasks, UnderWay
<1> HIDE DEF rt
<1>4. b \in 1..Len(rt) /\ rt[b].line = t.line /\ t.seen <= Len(rt)
  BY <1>1, <1>2, <1>3
<1>5. \A k \in 1..t.seen : k \in 1..Len(s) /\ rt[k] = s[k]
  BY <1>1, <1>3
<1>6. Base(rt, t, b)
  BY <1>1, <1>2, <1>5 DEF Base
<1>7. t.pc = "insert" => Past(rt, t)
  BY <1>5 DEF Past, UnderWay
<1> QED BY <1>4, <1>6, <1>7 DEF UnderWay, rt

LEMMA LineKept ==
  ASSUME NEW s \in Seq(Rows), NEW row \in Rows, NEW j \in 1..Len(s),
         \A n \in 1..Len(s) : LineOK(s, n)
  PROVE  LineOK(Append(s, row), j)
<1> DEFINE rt == Append(s, row)
<1>1. /\ Len(rt) = Len(s) + 1 /\ Len(s) \in Nat
      /\ \A k \in 1..Len(s) : rt[k] = s[k] /\ s[k] \in Rows
  BY Longer
<1>2. rt[j] = s[j] /\ \A n \in 1..Len(s) : s[n].seen \in Nat /\ s[n].seen < n
  BY <1>1 DEF Rows, LineOK
<1> HIDE DEF rt
<1>3. \A n \in 1..Len(s) : \A k \in 1..s[n].seen : k \in 1..Len(s) /\ rt[k] = s[k]
  BY <1>1, <1>2
<1>4. s[j].line # {j} => Past(rt, s[j])
  BY <1>3 DEF LineOK, Past
<1>5. ASSUME NEW x, NEW n \in s[j].line, Crosses(s, n, x)
      PROVE  Crosses(rt, n, x)
  <2>1. n \in 1..Len(s) /\ rt[n] = s[n]
    BY <1>1 DEF LineOK
  <2>2. PICK c \in 1..n : Base(s, s[n], c) /\ s[c].version < x
    BY <1>5 DEF Crosses
  <2>3. c \in 1..s[n].seen
    BY <2>2 DEF Base
  <2>4. Base(rt, rt[n], c)
    BY <1>3, <2>1, <2>2, <2>3 DEF Base
  <2>5. rt[c].version < x
    BY <1>3, <2>1, <2>2, <2>3
  <2> QED BY <1>5, <2>1, <2>4, <2>5 DEF Crosses
<1>6. \A x \in 2..s[j].version : \E n \in s[j].line : Crosses(rt, n, x)
  <2>1. \A x \in 2..s[j].version : \E n \in s[j].line : Crosses(s, n, x)
    BY DEF LineOK
  <2> QED BY <1>5, <2>1
<1>7. /\ s[j].version > 0 /\ s[j].seen < j
      /\ j \in s[j].line /\ s[j].line \subseteq 1..j
      /\ s[j].line # {j} => s[j].version > 1
  BY DEF LineOK
<1> QED BY <1>2, <1>4, <1>6, <1>7 DEF LineOK, rt

\* A row that is added, in line itself, disturbs no other and no edit under way.
LEMMA AddedInLine ==
  ASSUME LineInv, IInv', NEW row \in Rows, rows' = Append(rows, row),
         LineOK(rows', Len(rows) + 1),
         \A q \in Reqs : task'[q] = task[q] \/ task'[q] = Idle
  PROVE  LineInv'
<1>1. rows \in Seq(Rows) /\ Len(rows) \in Nat /\ Len(rows') = Len(rows) + 1
  BY Longer DEF LineInv, IInv, TypeOK
<1>2. ASSUME NEW j \in 1..Len(rows') PROVE LineOK(rows', j)
  <2>1. CASE j \in 1..Len(rows)
    BY <1>1, <2>1, LineKept DEF LineInv, LinesOK
  <2>2. CASE j = Len(rows) + 1
    BY <2>2
  <2> QED BY <1>1, <2>1, <2>2
<1>3. ASSUME NEW q \in Reqs PROVE UnderWay(rows', task'[q])
  <2>1. CASE task'[q] = task[q]
    BY <1>1, <2>1, UnderWayKept DEF LineInv, TasksLine, IInv, TypeOK
  <2>2. CASE task'[q] = Idle
    BY <2>2 DEF UnderWay, Idle
  <2> QED BY <2>1, <2>2
<1> QED BY <1>2, <1>3 DEF LineInv, LinesOK, TasksLine

LEMMA EditReadInLine ==
  ASSUME LineInv, IInv', NEW q \in Reqs, EditRead(q) PROVE LineInv'
<1>1. PICK i \in Newest, c \in Cells, edit \in Edits :
        task' = [task EXCEPT ![q] =
                   [Idle EXCEPT !.pc = "number",
                      !.cells = [rows[i].cells EXCEPT ![c] = ApplyCellEdit(@, edit)],
                      !.line = rows[i].line, !.seen = Len(rows)]]
  BY DEF EditRead, EditFrom
<1>2. UNCHANGED rows
  BY DEF EditRead, EditFrom
<1>3. /\ rows \in Seq(Rows) /\ Len(rows) \in Nat /\ i \in 1..Len(rows)
      /\ \A j \in 1..Len(rows) : rows[j].version <= rows[i].version
  <2>1. DOMAIN rows = 1..Len(rows) /\ rows \in Seq(Rows) /\ Len(rows) \in Nat
    BY DEF LineInv, IInv, TypeOK
  <2> QED BY <2>1, NewestRow DEF LineInv
<1>4. i \in rows[i].line
  BY <1>3 DEF LineInv, LinesOK, LineOK
<1> DEFINE t == task'[q]
<1>5. t.pc = "number" /\ t.line = rows[i].line /\ t.seen = Len(rows)
  BY <1>1 DEF LineInv, IInv, TypeOK, Idle
<1>6. \A p \in Reqs \ {q} : task'[p] = task[p]
  BY <1>1 DEF LineInv, IInv, TypeOK
<1> HIDE DEF t
<1>7. Base(rows, t, i)
  BY <1>3, <1>4, <1>5 DEF Base
<1>8. UnderWay(rows, t)
  BY <1>3, <1>5, <1>7 DEF UnderWay
<1> QED BY <1>2, <1>6, <1>8 DEF t, LineInv, LinesOK, TasksLine

LEMMA EditNumberInLine ==
  ASSUME LineInv, IInv', NEW q \in Reqs, EditNumber(q) PROVE LineInv'
<1>1. PICK i \in Newest :
        /\ At(q, "number")
        /\ task' = [task EXCEPT ![q].pc = "insert", ![q].version = rows[i].version + 1]
        /\ UNCHANGED <<rows, frozen, locked, open, read, jobs, reads>>
  BY DEF EditNumber
<1>2. DOMAIN rows = 1..Len(rows) /\ Len(rows) \in Nat
  BY DEF LineInv, IInv, TypeOK
<1>3. \A j \in 1..Len(rows) : rows[j].version \in Nat /\ rows[j].version <= rows[i].version
  <2>1. \A j \in 1..Len(rows) : rows[j] \in Rows
    BY DEF LineInv, IInv, TypeOK
  <2> QED BY <1>2, <2>1, NewestRow DEF Rows, LineInv
<1>4. i \in 1..Len(rows) /\ task[q].pc = "number" /\ UnderWay(rows, task[q])
  BY <1>1, <1>2, NewestRow DEF LineInv, TasksLine, At
<1>5. task[q] \in Tasks /\ task \in [Reqs -> Tasks]
  BY DEF LineInv, IInv, TypeOK
<1> DEFINE t == task'[q]
<1>6. /\ t.pc = "insert" /\ t.line = task[q].line /\ t.seen = task[q].seen
      /\ t.version = rows[i].version + 1
  BY <1>1, <1>5 DEF Tasks
<1>7. \A p \in Reqs \ {q} : task'[p] = task[p]
  BY <1>1, <1>5
<1> HIDE DEF t
<1>8. task[q].seen \in Nat /\ task[q].seen <= Len(rows)
  BY <1>4, <1>5 DEF Tasks, UnderWay
<1>9. Past(rows, t)
  BY <1>2, <1>3, <1>4, <1>6, <1>8 DEF Past
<1>10. UnderWay(rows, t)
  <2>1. PICK b \in 1..Len(rows) : Base(rows, task[q], b) /\ rows[b].line = task[q].line
    BY <1>4 DEF UnderWay
  <2>2. Base(rows, t, b)
    BY <1>6, <2>1 DEF Base
  <2> QED BY <1>6, <1>8, <1>9, <2>1, <2>2 DEF UnderWay
<1> QED BY <1>1, <1>7, <1>10 DEF t, LineInv, LinesOK, TasksLine

LEMMA EditInsertInLine ==
  ASSUME LineInv, IInv', NEW q \in Reqs, EditInsert(q) PROVE LineInv'
<1> DEFINE n == Len(rows) + 1
           t == task[q]
           row == [version |-> t.version, label |-> FALSE, cells |-> t.cells,
                   seen |-> t.seen, line |-> t.line \union {n}]
<1>1. t \in Tasks /\ UnderWay(rows, t) /\ t.pc = "insert"
  BY DEF LineInv, TasksLine, IInv, TypeOK, EditInsert, At
<1>2. rows \in Seq(Rows) /\ Len(rows) \in Nat /\ n \in Nat
  BY DEF LineInv, IInv, TypeOK
<1>3. rows' = Append(rows, row) /\ task' = [task EXCEPT ![q] = Idle]
  BY DEF EditInsert
<1>4. row \in Rows
  <2>1. t.line \union {n} \in SUBSET Nat
    BY <1>1, <1>2 DEF Tasks
  <2> QED BY <1>1, <2>1 DEF Tasks, Rows
<1>5. /\ row.version = t.version /\ row.seen = t.seen /\ row.line = t.line \union {n}
      /\ t.version \in Nat /\ t.seen \in Nat
  BY <1>1 DEF Tasks
<1> HIDE DEF row, t
<1>6. /\ Len(rows') = n /\ rows'[n] = row
      /\ \A k \in 1..Len(rows) : rows'[k] = rows[k] /\ rows[k] \in Rows
  BY <1>2, <1>3, <1>4, Longer
<1>7. PICK b \in 1..Len(rows) : Base(rows, t, b) /\ rows[b].line = t.line
  BY <1>1 DEF UnderWay
<1>8. t.seen <= Len(rows) /\ Past(rows, t) /\ \A j \in 1..Len(rows) : LineOK(rows, j)
  BY <1>1 DEF UnderWay, LineInv, LinesOK
<1>9. b \in t.line /\ b \in 1..t.seen
  BY <1>7 DEF Base
<1>l. /\ n = Len(rows) + 1
      /\ LineOK(rows', b)
  <2>1. LineOK(rows', b)
    BY <1>2, <1>3, <1>4, <1>8, LineKept
  <2> QED BY <2>1
<1> HIDE DEF n
<1>10. \A k \in 1..t.seen : k \in 1..Len(rows) /\ rows'[k] = rows[k]
  BY <1>2, <1>5, <1>6, <1>8
<1>11. Past(rows', row)
  BY <1>5, <1>8, <1>10 DEF Past
<1>12. Base(rows', row, b)
  BY <1>5, <1>7, <1>10 DEF Base
<1>13. rows[b].version \in Nat /\ rows[b].version < t.version /\ rows[b].version > 0
  BY <1>6, <1>8, <1>9 DEF Past, Rows, LineOK
<1>14. b \in 1..n /\ b \in row.line /\ n \in row.line /\ row.seen < n
  BY <1>2, <1>5, <1>8, <1>9, <1>l
<1>15. rows'[b] = rows[b] /\ rows[b].line = t.line /\ t.line \subseteq 1..b
  BY <1>6, <1>7, <1>8 DEF LineOK
<1>16. row.line \subseteq 1..n
  BY <1>2, <1>5, <1>15, <1>l
<1>17. \A x \in 2..row.version : \E m \in row.line : Crosses(rows', m, x)
  <2> SUFFICES ASSUME NEW x \in 2..row.version
               PROVE  \E m \in row.line : Crosses(rows', m, x)
    OBVIOUS
  <2>1. CASE x <= rows[b].version
    <3>1. x \in 2..rows'[b].version
      BY <1>13, <1>15, <2>1
    <3>2. PICK m \in rows'[b].line : Crosses(rows', m, x)
      BY <1>l, <3>1 DEF LineOK
    <3> QED BY <1>5, <1>15, <3>2
  <2>2. CASE rows[b].version < x
    <3>1. Crosses(rows', n, x)
      BY <1>5, <1>6, <1>12, <1>14, <1>15, <2>2 DEF Crosses
    <3> QED BY <1>14, <3>1
  <2> QED BY <1>5, <1>13, <2>1, <2>2
<1>18. row.version > 0 /\ row.version > 1
  BY <1>5, <1>13
<1>19. LineOK(rows', n)
  BY <1>6, <1>11, <1>14, <1>16, <1>17, <1>18 DEF LineOK
<1>20. \A p \in Reqs : task'[p] = task[p] \/ task'[p] = Idle
  BY <1>3 DEF LineInv, IInv, TypeOK
<1> QED BY <1>3, <1>4, <1>l, <1>19, <1>20, AddedInLine

LEMMA SubmitInLine ==
  ASSUME LineInv, IInv', Submit PROVE LineInv'
<1>1. PICK answers \in Answered :
        /\ rows' = Append(rows, [version |-> 1, label |-> FALSE,
                                 cells |-> Mapped(answers, Len(frozen')),
                                 seen |-> Len(rows), line |-> {Len(rows) + 1}])
        /\ UNCHANGED task
  BY DEF Submit
<1> DEFINE n == Len(rows) + 1
           row == [version |-> 1, label |-> FALSE, cells |-> Mapped(answers, Len(frozen')),
                   seen |-> Len(rows), line |-> {n}]
<1>2. rows' = Append(rows, row) /\ rows \in Seq(Rows) /\ Len(rows) \in Nat
  BY <1>1 DEF LineInv, IInv, TypeOK
<1>3. row.version = 1 /\ row.seen = Len(rows) /\ row.line = {n}
  OBVIOUS
<1> HIDE DEF row
<1>4. Len(rows') = n /\ rows'[n] = row /\ rows' \in Seq(Rows)
  BY <1>2 DEF IInv, TypeOK
<1>5. row \in Rows
  BY <1>2, <1>4
<1>6. LineOK(rows', n)
  BY <1>2, <1>3, <1>4 DEF LineOK
<1> QED BY <1>1, <1>2, <1>5, <1>6, AddedInLine

LEMMA NextKeepsLines == LineInv /\ [Next]_vars => LineInv'
<1> SUFFICES ASSUME LineInv, [Next]_vars PROVE LineInv'
  OBVIOUS
<1>0. IInv'
  BY NextKeepsIInv DEF LineInv
<1>1. CASE \E q \in Reqs : EditRead(q) \/ EditNumber(q) \/ EditInsert(q)
  BY <1>0, <1>1, EditReadInLine, EditNumberInLine, EditInsertInLine
<1>2. CASE Submit
  BY <1>0, <1>2, SubmitInLine
<1>3. ASSUME NEW q \in Reqs, Abort(q) PROVE LineInv'
  <2>1. UNCHANGED rows /\ \A p \in Reqs : task'[p] = task[p] \/ task'[p] = Idle
    BY <1>3 DEF Abort, LineInv, IInv, TypeOK
  <2>2. UnderWay(rows, Idle)
    BY DEF UnderWay, Idle
  <2>3. \A p \in Reqs : UnderWay(rows, task'[p])
    BY <2>1, <2>2 DEF LineInv, TasksLine
  <2> QED BY <1>0, <2>1, <2>3 DEF LineInv, LinesOK, TasksLine
<1>4. CASE Unlock \/ SetStatus \/ Ask \/ JobEnds \/ UNCHANGED vars
  <2>1. UNCHANGED <<rows, task>>
    BY <1>4 DEF Unlock, SetStatus, Ask, JobEnds, vars
  <2> QED BY <1>0, <2>1 DEF LineInv, LinesOK, TasksLine
<1> QED BY <1>1, <1>2, <1>3, <1>4 DEF Next

\* The row that crosses i's number on the way to j is i itself, or overlaps it: it
\* was made from a row below that number, so i was not there when it was begun,
\* and i would have been given a higher number had it been there when i was.
LEMMA LinesHold == LineInv => LossNeedsOverlap
<1> SUFFICES ASSUME LineInv, NEW i \in DOMAIN rows, NEW j \in DOMAIN rows,
                    Edited(i), Edited(j), i <= rows[j].seen
             PROVE  \E k \in rows[j].line : k = i \/ (Edited(k) /\ Overlap(i, k))
  BY DEF LossNeedsOverlap
<1>1. /\ DOMAIN rows = 1..Len(rows) /\ Len(rows) \in Nat
      /\ \A k \in 1..Len(rows) : /\ rows[k].version \in Nat /\ rows[k].seen \in Nat
                                 /\ LineOK(rows, k)
  <2>1. rows \in Seq(Rows) /\ LinesOK
    BY DEF LineInv, IInv, TypeOK
  <2>2. DOMAIN rows = 1..Len(rows) /\ Len(rows) \in Nat
    BY <2>1
  <2>3. ASSUME NEW k \in 1..Len(rows)
        PROVE  rows[k].version \in Nat /\ rows[k].seen \in Nat
    <3>1. rows[k] \in Rows
      BY <2>1
    <3> QED BY <3>1 DEF Rows
  <2> QED BY <2>1, <2>2, <2>3 DEF LinesOK
<1> DEFINE v(k) == rows[k].version
<1>2. Past(rows, rows[i]) /\ v(i) > 1 /\ Past(rows, rows[j])
  BY <1>1 DEF LineOK, Edited
<1>3. v(i) < v(j)
  BY <1>1, <1>2 DEF Past
<1>4. v(i) \in 2..v(j)
  BY <1>1, <1>2, <1>3
<1>5. PICK n \in rows[j].line : Crosses(rows, n, v(i))
  BY <1>1, <1>4 DEF LineOK
<1>6. n \in 1..Len(rows)
  BY <1>1 DEF LineOK
<1>7. v(i) <= v(n)
  BY <1>5 DEF Crosses
<1>8. PICK c \in 1..n : Base(rows, rows[n], c) /\ v(c) < v(i)
  BY <1>5 DEF Crosses
<1>9. Edited(n)
  <2>1. c \in rows[n].line /\ c <= rows[n].seen
    BY <1>1, <1>6, <1>8 DEF Base
  <2>2. rows[n].seen < n
    BY <1>1, <1>6 DEF LineOK
  <2>3. c # n
    BY <1>1, <1>6, <2>1, <2>2
  <2> QED BY <2>1, <2>3 DEF Edited
<1>10. rows[n].seen < i
  <2> SUFFICES ASSUME i <= rows[n].seen PROVE FALSE
    BY <1>1, <1>6
  <2>1. i \in 1..rows[n].seen
    BY <1>1, <1>6
  <2>2. v(i) <= v(c)
    BY <1>8, <2>1 DEF Base
  <2> QED BY <1>1, <1>6, <1>8, <2>2
<1>11. rows[i].seen < n
  <2> SUFFICES ASSUME n <= rows[i].seen PROVE FALSE
    BY <1>1, <1>6
  <2>1. n \in 1..rows[i].seen
    BY <1>1, <1>6
  <2>2. v(n) < v(i)
    BY <1>2, <2>1 DEF Past
  <2> QED BY <1>1, <1>6, <1>7, <2>2
<1> QED BY <1>9, <1>10, <1>11 DEF Overlap

(* However many edits run at once, and however often the respondent        *)
(* submits anew: an edit that was stored before another began is missing   *)
(* from it only where a third one overlapped the first, and is there.      *)
THEOREM LossOverlaps == Spec => []LossNeedsOverlap
<1>1. Init => LineInv
  BY InitIInv DEF Init, LineInv, LinesOK, TasksLine, UnderWay, Idle
<1> QED BY <1>1, NextKeepsLines, LinesHold, PTL DEF Spec

-----------------------------------------------------------------------------
LEMMA StepOfHistory == IInv /\ [Next]_vars => [History!Next]_rows
<1> SUFFICES ASSUME IInv, [Next]_vars, rows' # rows PROVE History!Next
  OBVIOUS
<1>1. rows \in Seq(Rows)
  BY DEF IInv, TypeOK
<1>2. ASSUME NEW row \in Rows, rows' = Append(rows, row),
             History!First(row) \/ History!Follows(row)
      PROVE  History!Next
  <2>1. Len(rows') = Len(rows) + 1 /\ rows'[Len(rows')] = row
    BY <1>1, <1>2
  <2> QED BY <1>2, <2>1 DEF History!Next
<1>3. ASSUME NEW q \in Reqs, EditInsert(q) PROVE History!Next
  <2> DEFINE row == [version |-> task[q].version, label |-> FALSE,
                     cells |-> task[q].cells, seen |-> task[q].seen,
                     line |-> task[q].line \union {Len(rows) + 1}]
  <2>1. task[q] \in Tasks /\ TaskOK(task[q], rows, frozen) /\ task[q].pc = "insert"
    BY <1>3 DEF IInv, TypeOK, TasksOK, EditInsert, At
  <2>2. row \in Rows /\ rows' = Append(rows, row)
    <3>1. task[q].line \union {Len(rows) + 1} \in SUBSET Nat
      BY <1>1, <2>1 DEF Tasks
    <3> QED BY <1>3, <2>1, <3>1 DEF Tasks, Rows, EditInsert
  <2>3. \E i \in DOMAIN rows : History!Builds(row, rows[i])
    BY <2>1 DEF TaskOK, History!Builds
  <2>4. \E i \in DOMAIN rows : History!Numbered(row, rows[i])
    BY <2>1 DEF TaskOK, History!Numbered
  <2> QED BY <1>2, <2>2, <2>3, <2>4 DEF History!Follows
<1>4. CASE Submit
  <2>1. PICK answers \in Answered :
          rows' = Append(rows, [version |-> 1, label |-> FALSE,
                                cells |-> Mapped(answers, Len(frozen')),
                                seen |-> Len(rows), line |-> {Len(rows) + 1}])
    BY <1>4 DEF Submit
  <2> DEFINE row == [version |-> 1, label |-> FALSE, cells |-> Mapped(answers, Len(frozen')),
                     seen |-> Len(rows), line |-> {Len(rows) + 1}]
  <2>2. IInv'
    BY NextKeepsIInv
  <2>3. rows' \in Seq(Rows) /\ rows'[Len(rows')] = row /\ Len(rows') = Len(rows) + 1
    BY <1>1, <2>1, <2>2 DEF IInv, TypeOK
  <2>4. History!First(row)
    BY DEF History!First
  <2> QED BY <2>1, <2>3, <2>4 DEF History!Next
<1>5. CASE ~Submit /\ \A q \in Reqs : ~EditInsert(q)
  BY <1>5 DEF Next, EditRead, EditFrom, EditNumber, Abort, Unlock, SetStatus, Ask, JobEnds, vars
<1> QED BY <1>3, <1>4, <1>5

(* The own plan's rows are a draft history, for every number of edits that *)
(* run at once and every order of submits and unlocks.                     *)
THEOREM RefinesHistory == Spec => ImplementsHistory
<1>1. Init => History!Init
  BY DEF Init, History!Init
<1> QED BY <1>1, StepOfHistory, Inductive, PTL
        DEF Spec, ImplementsHistory, History!Spec

(* Every variable a plan is made of is of its kind.                        *)
THEOREM TypeCorrect == Spec => []TypeOK
<1>1. IInv => TypeOK
  BY DEF IInv
<1> QED BY <1>1, Inductive, PTL
=============================================================================
