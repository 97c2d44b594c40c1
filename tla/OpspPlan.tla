------------------------------ MODULE OpspPlan ------------------------------
(***************************************************************************)
(* One respondent's own plan: how the answers become its cells (lib/opsp), *)
(* its edits (lib/opsp-edit and the PATCH of app/api/opsp/[id]), what a    *)
(* submit and an unlock do to it, and what the facilitator has a model     *)
(* read of it (lib/opsp-analysis, POST /api/admin/opsp-analysis).          *)
(*                                                                         *)
(* A submit inserts a row mapped from the answers, always as version 1; an *)
(* edit reads the row of the highest version, then the highest number, and *)
(* inserts a row, whether or not the answers are unlocked at the time.     *)
(* The steps of a submit are those of AnswerLock, the call behind a read   *)
(* that of AiGateway; each is one step here.  An answer is the set of its  *)
(* fields that are filled in, with its confidence.                         *)
(***************************************************************************)
EXTENDS Naturals, Sequences, FiniteSets

CONSTANTS Cells,       \* the cells of the plan, of DOMAIN CellSpecs
          Given,       \* the answers each question may get by a submit
          Wanted,      \* the edits of the run
          Reqs,        \* request slots: how many edits run at a time
          Levels,      \* the levels a read may be served at
          MaxSubmits,  \* bound: submits of the respondent
          MaxRows,     \* bound: rows of the plan
          MaxReads     \* bound: reads the facilitator asks for

VARIABLES rows,      \* the respondent's rows of opsp_drafts; history: what each was
                     \* made from (line) and how many rows there were then (seen)
          frozen,    \* the answers of each submit
          locked,    \* respondents.submitted_at is not null
          open,      \* cohorts.status is open
          task,      \* the edit each slot is at
          read,      \* the facilitator's last read of the plan
          jobs,      \* what the queue has a model read: one job at most
          reads      \* history: how many there were

vars == <<rows, frozen, locked, open, task, read, jobs, reads>>

-----------------------------------------------------------------------------
(* Part B of the questions: what feeds each cell, and its default mark     *)

AllOf(q, fields) == [q |-> q, fields |-> fields, all |-> TRUE]
AnyOf(q, fields)   == [q |-> q, fields |-> fields, all |-> FALSE]

CellSpecs == [
  core_values           |-> [mark |-> "ink", feeds |-> {AllOf("q15", {"text"})}],
  purpose               |-> [mark |-> "ink", feeds |-> {AllOf("q1", {"text"}),
                                                        AllOf("q2", {"who", "because"})}],
  bhag                  |-> [mark |-> "pencil", feeds |-> {AllOf("q4", {"text"})}],
  three_year_targets    |-> [mark |-> "split",
                             feeds |-> {AllOf("q3", {"metric", "value", "unit"})}],
  sandbox_core_customer |-> [mark |-> "ink",
                             feeds |-> {AnyOf("q5", {"pays", "decides", "uses", "benefits"}),
                                        AllOf("q6", {"choice", "why"})}],
  sandbox_boundaries    |-> [mark |-> "ink", feeds |-> {AllOf("q9", {"items"})}],
  brand_promise         |-> [mark |-> "pencil", feeds |-> {AllOf("q7", {"text"})}],
  profit_per_x          |-> [mark |-> "pencil",
                             feeds |-> {AnyOf("q10", {"payer", "model", "amount", "unit",
                                                    "first_peso"})}],
  year1_critical_number |-> [mark |-> "pencil",
                             feeds |-> {AllOf("q10", {"first_peso"}),
                                        AllOf("q3", {"metric", "value", "unit"})}],
  key_initiatives       |-> [mark |-> "ink", feeds |-> {AllOf("q8", {"rank"})}],
  quarterly_theme       |-> [mark |-> "ink", feeds |-> {AllOf("q12", {"text"})}],
  quarterly_rocks       |-> [mark |-> "ink", feeds |-> {AllOf("q11", {"rocks"})}],
  number1_priority      |-> [mark |-> "ink", feeds |-> {AllOf("q11", {"rocks", "starred"})}],
  accountability_face   |-> [mark |-> "ink", feeds |-> {AnyOf("q14", {"wants", "others"})}],
  swt_threats           |-> [mark |-> "ink", feeds |-> {AllOf("q13", {"text", "cause"})}],
  capacity              |-> [mark |-> "ink", feeds |-> {AllOf("q14", {"hours"})}]]

ConfidenceQuestions == {"q3", "q4", "q7", "q8", "q10", "q11"}

\* confidence is 1..5, or 0 when the slider was not set (or the question has none).
Absent == [has |-> {}, conf |-> 0]

Answer(answers, q) == IF q \in DOMAIN answers THEN answers[q] ELSE Absent

ASSUME PlanAssumption ==
  /\ Cells \subseteq DOMAIN CellSpecs
  /\ \A q \in DOMAIN Given : \A a \in Given[q] : a.conf \in 0..5
  /\ Levels \subseteq {"L0", "L1", "L2", "L3"}
  /\ MaxSubmits \in Nat /\ MaxRows \in Nat /\ MaxReads \in Nat

\* What the answers may be at a submit.
Answered == {f \in [DOMAIN Given -> UNION {Given[q] : q \in DOMAIN Given}] :
               \A q \in DOMAIN Given : f[q] \in Given[q]}

\* What an answer shows in a cell: nothing when it lacks a field it must have.
Fragment(feed, answer) ==
  IF feed.all /\ ~(feed.fields \subseteq answer.has) THEN {}
  ELSE feed.fields \cap answer.has

\* single, combine: every source with something to show, under its id; the
\* empty set is the null of an empty cell.
Value(c, answers) ==
  {<<feed.q, Fragment(feed, Answer(answers, feed.q))>> :
     feed \in {f \in CellSpecs[c].feeds : Fragment(f, Answer(answers, f.q)) # {}}}

SourceIsLow(answers, q) ==
  q \in ConfidenceQuestions /\ Answer(answers, q).conf \in 1..2

LowConfidence(c, answers) == \E feed \in CellSpecs[c].feeds : SourceIsLow(answers, feed.q)

Single(mark) == [type |-> "single", metric |-> mark, number |-> mark]
Parts(mark)  == [type |-> "parts", metric |-> mark, number |-> "pencil"]

\* Mutant of ResolveMarking: confidence lifts a pencil default.
MutResolveMarking(default, doubt) ==
  LET mark == IF doubt THEN "pencil" ELSE "ink"
  IN  IF default = "split" THEN Parts(mark) ELSE Single(mark)

\* A pencil default is a floor; doubt, blank or low, makes pencil of ink.
ResolveMarking(default, doubt) ==
  LET mark == IF doubt THEN "pencil" ELSE "ink"
  IN  CASE default = "split"  -> Parts(mark)
        [] default = "pencil" -> Single("pencil")
        [] OTHER              -> Single(mark)

\* hand is history: whether an edit has set the mark.  from is history too.
DeriveCell(c, answers, n) ==
  [value   |-> Value(c, answers),
   marking |-> ResolveMarking(CellSpecs[c].mark,
                 Value(c, answers) = {} \/ LowConfidence(c, answers)),
   low     |-> LowConfidence(c, answers),
   from    |-> n,
   hand    |-> FALSE]

\* buildOpspCells: the plan of submit n.
Mapped(answers, n) == [c \in Cells |-> DeriveCell(c, answers, n)]

-----------------------------------------------------------------------------
(* How a cell is shown (lib/opsp-state)                                    *)

Blank(cell) == cell.value = {}

StateOf(cell) ==
  CASE Blank(cell)                     -> "empty"
    [] cell.marking = Single("ink")    -> "ink"
    [] OTHER                           -> "pencil"

-----------------------------------------------------------------------------
(* An edit of one cell (lib/opsp-edit)                                     *)

\* Rewritten text, the id of a respondent in it; Same leaves the value as it is.
Typed == {{<<"typed", {"words", "id"}>>}}
Same  == {<<"same", {}>>}

\* parseOpspEdit: text or a blank, a mark, or both; never neither.
Edits ==
  {e \in [content : Typed \cup {{}, Same}, mark : {"ink", "pencil", "same"}] :
     e.content # Same \/ e.mark # "same"}

ApplyCellEdit(cell, edit) ==
  [cell EXCEPT !.value   = IF edit.content = Same THEN @ ELSE edit.content,
               !.marking = IF edit.mark = "same" THEN @ ELSE Single(edit.mark),
               !.hand    = @ \/ edit.mark # "same"]

-----------------------------------------------------------------------------
(* What a model is shown of a plan (lib/opsp-analysis)                     *)

\* A teammate of q14 is told by id, and is rendered as a neutral label; an id
\* in edited text is struck out.
Redacted(field) ==
  CASE field = "others" -> "a teammate"
    [] field = "id"     -> "[id]"
    [] OTHER            -> field

Rendered(value) == {Redacted(field) : field \in UNION {part[2] : part \in value}}

\* The cells that are not blank, as readable text.
Context(draft) ==
  {<<c, Rendered(draft.cells[c].value)>> : c \in {d \in Cells : ~Blank(draft.cells[d])}}

\* The deterministic sibling: which cells are filled, how marked, how sure.
Summary(draft) ==
  [c \in Cells |-> [filled  |-> ~Blank(draft.cells[c]),
                    marking |-> draft.cells[c].marking,
                    low     |-> draft.cells[c].low]]

-----------------------------------------------------------------------------
Idle   == [pc |-> "idle", cells |-> Mapped(<<>>, 0), version |-> 0,
           line |-> {}, seen |-> 0]
NoRead == [level |-> "none", context |-> {}, summary |-> [c \in Cells |-> [filled |-> FALSE]]]

Init ==
  /\ rows = <<>>
  /\ frozen = <<>>
  /\ locked = FALSE
  /\ open = TRUE
  /\ task = [q \in Reqs |-> Idle]
  /\ read = NoRead
  /\ jobs = {}
  /\ reads = 0

At(q, pc) == task[q].pc = pc
Running   == {q \in Reqs : ~At(q, "idle")}
Room      == Len(rows) + Cardinality(Running) < MaxRows

(* order by version desc limit 1: any row of the highest version.          *)
Newest == {i \in DOMAIN rows : \A j \in DOMAIN rows :
             rows[j].version <= rows[i].version}

-----------------------------------------------------------------------------
(* PATCH /api/opsp/[id]: the id is some row of the caller's, not the one   *)
(* the edit is applied to.                                                 *)
EditFrom(q, bases) ==
  /\ At(q, "idle")
  /\ open
  /\ Room
  /\ \E i \in bases, c \in Cells, edit \in Edits \cap Wanted :
       task' = [task EXCEPT ![q] =
                  [Idle EXCEPT !.pc = "number",
                     !.cells = [rows[i].cells EXCEPT ![c] = ApplyCellEdit(@, edit)],
                     !.line = rows[i].line, !.seen = Len(rows)]]
  /\ UNCHANGED <<rows, frozen, locked, open, read, jobs, reads>>

\* Mutant of EditRead: the edit is applied to the row whose id it names.
MutEditRead(q) == EditFrom(q, DOMAIN rows)
EditRead(q)    == EditFrom(q, Newest)

\* Mutant of EditNumber: the rows are counted, which a second submit upsets.
MutEditNumber(q) ==
  /\ At(q, "number")
  /\ task' = [task EXCEPT ![q].pc = "insert", ![q].version = Len(rows) + 1]
  /\ UNCHANGED <<rows, frozen, locked, open, read, jobs, reads>>

EditNumber(q) ==
  \E i \in Newest :
    /\ At(q, "number")
    /\ task' = [task EXCEPT ![q].pc = "insert", ![q].version = rows[i].version + 1]
    /\ UNCHANGED <<rows, frozen, locked, open, read, jobs, reads>>

EditInsert(q) ==
  /\ At(q, "insert")
  /\ rows' = Append(rows, [version |-> task[q].version, label |-> FALSE,
                           cells |-> task[q].cells, seen |-> task[q].seen,
                           line |-> task[q].line \union {Len(rows) + 1}])
  /\ task' = [task EXCEPT ![q] = Idle]
  /\ UNCHANGED <<frozen, locked, open, read, jobs, reads>>

(* A lost connection or a killed function: nothing was committed yet.      *)
Abort(q) ==
  /\ ~At(q, "idle")
  /\ task' = [task EXCEPT ![q] = Idle]
  /\ UNCHANGED <<rows, frozen, locked, open, read, jobs, reads>>

-----------------------------------------------------------------------------
(* The respondent submits whatever the answers are by then.                *)
Submit ==
  /\ ~locked
  /\ open
  /\ Room
  /\ Len(frozen) < MaxSubmits
  /\ locked' = TRUE
  /\ \E answers \in Answered :
       /\ frozen' = Append(frozen, answers)
       /\ rows' = Append(rows, [version |-> 1, label |-> FALSE,
                                cells |-> Mapped(answers, Len(frozen')),
                                seen |-> Len(rows), line |-> {Len(rows) + 1}])
  /\ UNCHANGED <<open, task, read, jobs, reads>>

Unlock ==
  /\ locked
  /\ locked' = FALSE
  /\ UNCHANGED <<rows, frozen, open, task, read, jobs, reads>>

(* A closed cohort is read-only; what runs by then runs on.                *)
SetStatus ==
  /\ open' = ~open
  /\ UNCHANGED <<rows, frozen, locked, task, read, jobs, reads>>

-----------------------------------------------------------------------------
(* POST /api/admin/opsp-analysis, by the facilitator: the draft of the     *)
(* highest version is read.  At L1 its rendering waits for the background, *)
(* unless an earlier one still does; the job works on that rendering,      *)
(* whatever is edited meanwhile, and its output reaches nobody.            *)
Ask ==
  /\ reads < MaxReads
  /\ reads' = reads + 1
  /\ \E i \in Newest, level \in Levels :
       /\ read' = [level |-> level, context |-> Context(rows[i]),
                   summary |-> Summary(rows[i])]
       /\ jobs' = IF level = "L1" /\ jobs = {} THEN {Context(rows[i])} ELSE jobs
  /\ UNCHANGED <<rows, frozen, locked, open, task>>

JobEnds ==
  /\ jobs # {}
  /\ jobs' = {}
  /\ UNCHANGED <<rows, frozen, locked, open, task, read, reads>>

Next ==
  \/ \E q \in Reqs : EditRead(q) \/ EditNumber(q) \/ EditInsert(q) \/ Abort(q)
  \/ Submit \/ Unlock \/ SetStatus \/ Ask \/ JobEnds

Spec == Init /\ [][Next]_vars

-----------------------------------------------------------------------------
(* Properties *)

CellValues ==
  {Value(c, answers) : c \in Cells, answers \in Answered \cup {<<>>}}
    \cup Typed \cup {{}}
CellStates == [value : CellValues, low : BOOLEAN, from : Nat, hand : BOOLEAN,
               marking : {Single("ink"), Single("pencil"), Parts("ink"), Parts("pencil")}]
Rows  == [version : Nat, label : BOOLEAN, cells : [Cells -> CellStates],
          line : SUBSET Nat, seen : Nat]
Tasks == [pc : {"idle", "number", "insert"}, version : Nat,
          cells : [Cells -> CellStates], line : SUBSET Nat, seen : Nat]

\* Every variable that a plan is made of is of its kind.
TypeOK ==
  /\ rows \in Seq(Rows)
  /\ frozen \in Seq(Answered)
  /\ locked \in BOOLEAN /\ open \in BOOLEAN
  /\ task \in [Reqs -> Tasks]

\* What a plan in ink says: "I have answered this, and was not unsure".  Unless
\* she marked the cell herself, ink is shown only where the questions behind the
\* cell were answered and none of them with low confidence, and never in the
\* cells that are guesses by nature (bhag and its like) or for a number three
\* years out; editing text, clearing it and submitting anew do not change that.
InkIsEarned ==
  \A i \in DOMAIN rows : \A c \in Cells :
    LET cell == rows[i].cells[c]
        answers == frozen[cell.from]
        sources == {feed.q : feed \in CellSpecs[c].feeds}
    IN  StateOf(cell) = "ink" /\ ~cell.hand =>
          /\ CellSpecs[c].mark = "ink"
          /\ \A q \in sources \cap ConfidenceQuestions : Answer(answers, q).conf \notin {1, 2}
          /\ \E q \in sources : Answer(answers, q).has # {}

\* An edit that is stored is not lost to the next one: whoever reads the plan
\* after it was inserted builds on it, however often the respondent submits in
\* between.  Only where two edits were under way at once may one of them be
\* missing from what comes later, and then the other one is there.
Edited(i) == rows[i].line # {i}
Overlap(i, k) == rows[i].seen < k /\ rows[k].seen < i
LossNeedsOverlap ==
  \A i, j \in DOMAIN rows :
    Edited(i) /\ Edited(j) /\ i <= rows[j].seen =>
      \E k \in rows[j].line : k = i \/ (Edited(k) /\ Overlap(i, k))

\* Row by row, the plan is a draft history: an edit changes one cell of a row
\* that was there, under a number that follows one given out.
History == INSTANCE DraftHistory
ImplementsHistory == History!Spec
=============================================================================
