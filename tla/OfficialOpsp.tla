---------------------------- MODULE OfficialOpsp ----------------------------
(***************************************************************************)
(* The team's official plan (lib/official-opsp, lib/official-source-cards, *)
(* lib/synthesis, lib/synthesis-classify and the routes over them).  Every *)
(* operation reads the newest row of opsp_drafts, changes one cell of it,  *)
(* reads the next version number with a second statement and inserts a new *)
(* row, at READ COMMITTED and without any lock.  Synthesis reads a cell's  *)
(* source cards, asks the model twice, and only then does the same.        *)
(*                                                                         *)
(* A request of this module has passed the gates of AnswerLock: it is the  *)
(* facilitator's and the cohort is open.  A source card is a copy of one   *)
(* answer, and an answer may be copied more than once; a drafted statement *)
(* stands for the set of cards it was drafted from, an answer for its      *)
(* respondent and question; ink and pencil are left out.                   *)
(***************************************************************************)
EXTENDS Naturals, Sequences, FiniteSets

CONSTANTS Cells,    \* the cells of the plan
          Cards,    \* the source cards: each attachment is one of its own
          AnswerOf, \* the answer each card is a copy of
          Wanted,   \* the cards the facilitator may attach to each cell
          NoCard,   \* no position was chosen
          Reqs,     \* request slots: how many requests run at a time
          MaxRows   \* bound: rows of the plan

ASSUME OfficialAssumption ==
  /\ Cells # {}
  /\ NoCard \notin Cards
  /\ \A c \in Cells : Wanted[c] \subseteq Cards
  /\ MaxRows \in Nat
  /\ IsFiniteSet(Reqs)

VARIABLES rows,     \* the official rows of opsp_drafts, in order of insertion
          task,     \* what each request slot is doing
          cleared   \* the sets of cards a classification found compatible

vars == <<rows, task, cleared>>

(* A published text: who put it there and from which cards.                *)
Texts == [by : {"nobody", "hand", "planner", "room"}, from : SUBSET Cards]
Blank == [by |-> "nobody", from |-> {}]
Typed == [by |-> "hand", from |-> {}]

(* The respondents and questions behind cards.                             *)
Answers        == {AnswerOf[card] : card \in Cards}
Credits(cards) == {AnswerOf[card] : card \in cards}

(* cards: sourceCards; draft: the cards of the pending statement, none if  *)
(* empty; sources: the questions it lists, told apart here by respondent;  *)
(* positions, chosen: the conflict and its decision.                       *)
CellStates == [value : Texts, sources : SUBSET Answers, cards : SUBSET Cards,
               provenance : SUBSET Answers, draft : SUBSET Cards,
               positions : SUBSET Cards, chosen : Cards \union {NoCard}]

EmptyCell == [value |-> Blank, sources |-> {}, cards |-> {}, provenance |-> {},
              draft |-> {}, positions |-> {}, chosen |-> NoCard]

Plans     == [Cells -> CellStates]
EmptyPlan == [c \in Cells |-> EmptyCell]
Rows      == [version : Nat \ {0}, label : BOOLEAN, cells : Plans]

Idle == [pc |-> "idle", cell |-> CHOOSE c \in Cells : TRUE, cards |-> {},
         drafts |-> FALSE, cells |-> EmptyPlan, label |-> FALSE, version |-> 1]

Tasks == [pc : {"idle", "create", "classify", "draft", "storeDraft",
                "storeConflict", "number", "insert"},
          cell : Cells, cards : SUBSET Cards, drafts : BOOLEAN,
          cells : Plans, label : BOOLEAN, version : Nat \ {0}]

Init ==
  /\ rows = <<>>
  /\ task = [q \in Reqs |-> Idle]
  /\ cleared = {}

-----------------------------------------------------------------------------
At(q, pc)   == task[q].pc = pc
Goto(q, pc) == task' = [task EXCEPT ![q].pc = pc]
Finish(q)   == task' = [task EXCEPT ![q] = Idle]

Running == {q \in Reqs : ~At(q, "idle")}
Room(q) == At(q, "idle") /\ Len(rows) + Cardinality(Running) < MaxRows

(* order by version desc limit 1: any row of the highest version.          *)
Newest == {i \in DOMAIN rows : \A j \in DOMAIN rows :
             rows[j].version <= rows[i].version}

-----------------------------------------------------------------------------
(* Faulty variants of the definitions below, used by no specification.     *)
MutDrafted(c, cards) == [c EXCEPT !.draft = c.cards]

MutDraftedAccepts(c, cards) ==
  [c EXCEPT !.value = [by |-> "planner", from |-> cards], !.sources = Credits(cards)]

MutInsertInPlace(q) ==
  /\ At(q, "insert")
  /\ rows' = [rows EXCEPT ![Len(rows)] =
                [version |-> task[q].version, label |-> task[q].label,
                 cells |-> task[q].cells]]
  /\ Finish(q)
  /\ UNCHANGED cleared

-----------------------------------------------------------------------------
(* What each operation makes of the cell it is about.                      *)

(* applyCellEdit rebuilds the cell; only cards and provenance are put back *)
(* next to what it keeps.                                                  *)
Edited(c, text) ==
  [c EXCEPT !.value = text, !.draft = {}, !.positions = {}, !.chosen = NoCard]

Attached(c, card) == [c EXCEPT !.cards = @ \union {card}]
Detached(c, card) == [c EXCEPT !.cards = @ \ {card}]

Drafted(c, cards)  == [c EXCEPT !.draft = cards]
Discarded(c)       == [c EXCEPT !.draft = {}]

(* The sources are those of the draft, the provenance the cards of now.    *)
Accepted(c) ==
  [c EXCEPT !.value = [by |-> "planner", from |-> c.draft],
            !.sources = Credits(c.draft), !.provenance = Credits(c.cards), !.draft = {}]

Conflicted(c, cards) == [c EXCEPT !.positions = cards, !.chosen = NoCard]

Decided(c, card) ==
  [c EXCEPT !.value = [by |-> "room", from |-> {card}], !.chosen = card,
            !.sources = Credits({card}), !.provenance = Credits({card})]

-----------------------------------------------------------------------------
(* A transaction has read the row base and computed its own.               *)
Prepare(q, base, c, new) ==
  /\ task' = [task EXCEPT ![q] = [Idle EXCEPT !.pc = "number",
                                    !.cells = [base.cells EXCEPT ![c] = new]]]
  /\ UNCHANGED <<rows, cleared>>

(* Mutant of TakeNumber: a snapshot keeps the number of what it copies.    *)
MutTakeNumber(q) ==
  \E i \in Newest :
    /\ At(q, "number")
    /\ task' = [task EXCEPT ![q].pc = "insert", ![q].version =
                  IF task[q].label THEN rows[i].version ELSE rows[i].version + 1]
    /\ UNCHANGED <<rows, cleared>>

(* writeOfficialCellsVersion: max(version) + 1, then the insert.           *)
TakeNumber(q) ==
  \E i \in Newest :
    /\ At(q, "number")
    /\ task' = [task EXCEPT ![q].pc = "insert", ![q].version = rows[i].version + 1]
    /\ UNCHANGED <<rows, cleared>>

Insert(q) ==
  /\ At(q, "insert")
  /\ rows' = Append(rows, [version |-> task[q].version, label |-> task[q].label,
                           cells |-> task[q].cells])
  /\ Finish(q)
  /\ UNCHANGED cleared

(* The first visit of the canvas.  The unique index on version 1 turns the *)
(* second of two first visits away: the transaction is aborted, so the     *)
(* re-read fails too.                                                      *)
OpenCanvas(q) ==
  /\ Room(q)
  /\ rows = <<>>
  /\ Goto(q, "create")
  /\ UNCHANGED <<rows, cleared>>

Create(q) ==
  /\ At(q, "create")
  /\ IF \E i \in DOMAIN rows : rows[i].version = 1 THEN UNCHANGED rows
     ELSE rows' = Append(rows, [version |-> 1, label |-> FALSE, cells |-> EmptyPlan])
  /\ Finish(q)
  /\ UNCHANGED cleared

-----------------------------------------------------------------------------
(* PATCH: a new text, a cleared cell, or only the mark.                    *)
Edit(q, base, c) ==
  \E text \in {base.cells[c].value, Typed, Blank} :
    Prepare(q, base, c, Edited(base.cells[c], text))

(* A card of its own, whether or not its answer is on the cell already.    *)
Attach(q, base, c) ==
  \E card \in Wanted[c] \ base.cells[c].cards :
    Prepare(q, base, c, Attached(base.cells[c], card))

Detach(q, base, c) ==
  \E card \in base.cells[c].cards :
    Prepare(q, base, c, Detached(base.cells[c], card))

Accept(q, base, c) ==
  /\ base.cells[c].draft # {}
  /\ Prepare(q, base, c, Accepted(base.cells[c]))

Discard(q, base, c) ==
  /\ base.cells[c].draft # {}
  /\ Prepare(q, base, c, Discarded(base.cells[c]))

Decide(q, base, c) ==
  /\ base.cells[c].chosen = NoCard
  /\ \E card \in base.cells[c].positions :
       Prepare(q, base, c, Decided(base.cells[c], card))

(* A named snapshot: the same cells under a label.                         *)
Snapshot(q, base) ==
  /\ task' = [task EXCEPT ![q] = [Idle EXCEPT !.pc = "number", !.label = TRUE,
                                              !.cells = base.cells]]
  /\ UNCHANGED <<rows, cleared>>

Operate(q) ==
  /\ Room(q)
  /\ \E i \in Newest :
       \/ Snapshot(q, rows[i])
       \/ \E c \in Cells :
            \/ Edit(q, rows[i], c)   \/ Attach(q, rows[i], c)
            \/ Detach(q, rows[i], c) \/ Accept(q, rows[i], c)
            \/ Discard(q, rows[i], c) \/ Decide(q, rows[i], c)

-----------------------------------------------------------------------------
(* POST synthesise, and synthesise/classify, which stops at the verdict.   *)
(* The cards are read in a transaction of their own, before the model is   *)
(* asked; what comes out is stored on the cell as it is then.              *)
ReadCards(q) ==
  /\ Room(q)
  /\ \E i \in Newest, c \in Cells, d \in BOOLEAN :
       /\ Cardinality(rows[i].cells[c].cards) >= 2
       /\ task' = [task EXCEPT ![q] = [Idle EXCEPT !.pc = "classify", !.cell = c,
                     !.cards = rows[i].cells[c].cards, !.drafts = d]]
  /\ UNCHANGED <<rows, cleared>>

FindCompatible(q) ==
  /\ At(q, "classify")
  /\ cleared' = cleared \union {task[q].cards}
  /\ IF task[q].drafts THEN Goto(q, "draft") ELSE Finish(q)
  /\ UNCHANGED rows

FindConflict(q) ==
  /\ At(q, "classify")
  /\ Goto(q, "storeConflict")
  /\ UNCHANGED <<rows, cleared>>

DraftStatement(q) ==
  /\ At(q, "draft")
  /\ Goto(q, "storeDraft")
  /\ UNCHANGED <<rows, cleared>>

(* A degraded or unparsable reply: nothing is written.                     *)
ModelSilent(q) ==
  /\ At(q, "classify") \/ At(q, "draft")
  /\ Finish(q)
  /\ UNCHANGED <<rows, cleared>>

Store(q) ==
  \E i \in Newest :
    LET c   == task[q].cell
        old == rows[i].cells[c]
    IN  \/ At(q, "storeDraft") /\ Prepare(q, rows[i], c, Drafted(old, task[q].cards))
        \/ At(q, "storeConflict")
           /\ Prepare(q, rows[i], c, Conflicted(old, task[q].cards))

(* A lost connection or a killed function: nothing was committed yet.      *)
Abort(q) ==
  /\ ~At(q, "idle")
  /\ Finish(q)
  /\ UNCHANGED <<rows, cleared>>

-----------------------------------------------------------------------------
Next ==
  \E q \in Reqs :
    \/ OpenCanvas(q) \/ Create(q)
    \/ Operate(q)    \/ ReadCards(q)
    \/ FindCompatible(q) \/ FindConflict(q) \/ DraftStatement(q) \/ ModelSilent(q)
    \/ Store(q) \/ TakeNumber(q) \/ Insert(q)
    \/ Abort(q)

Spec == Init /\ [][Next]_vars

-----------------------------------------------------------------------------
TypeOK ==
  /\ rows \in Seq(Rows)
  /\ task \in [Reqs -> Tasks]
  /\ cleared \in SUBSET (SUBSET Cards)

(* The conflict guard (F15-T04): whatever was attached or removed while    *)
(* the model was thinking, a statement on the canvas, pending or           *)
(* published, was drafted from cards a classification cleared together.    *)
StatementsCleared ==
  \A i \in DOMAIN rows, c \in Cells :
    LET cell == rows[i].cells[c]
    IN  /\ cell.draft # {} => cell.draft \in cleared
        /\ cell.value.by = "planner" => cell.value.from \in cleared

(* What a cell offered for the text that another state of it publishes,    *)
(* and whom that state credits for it: for a statement those whose cards   *)
(* are on the cell when it is accepted, for a decision the one position.   *)
Offers(old, new) ==
  LET text == new.value
  IN  \/ /\ text.by = "planner"
         /\ old.draft = text.from
         /\ new.provenance = Credits(old.cards)
      \/ /\ text.by = "room"
         /\ text.from \subseteq old.positions /\ old.chosen = NoCard
         /\ new.provenance = Credits(text.from)

(* FR-40, FR-41: what is published and was not typed was a pending draft   *)
(* or an open position of that very cell, is published with the sources it *)
(* was made from, and credits those who were there when it was taken up -  *)
(* whatever other requests, and the cards that come and go, do meanwhile.  *)
PublishedWasOffered ==
  \A i \in DOMAIN rows, c \in Cells :
    LET cell == rows[i].cells[c]
    IN  cell.value.by \in {"planner", "room"} =>
          /\ cell.sources = Credits(cell.value.from)
          /\ \E j \in 1..(i - 1) : Offers(rows[j].cells[c], cell)

(* FR-41: the plan records which respondents' answers fed each cell.  Not  *)
(* so where a card came or went between the drafting of a statement and    *)
(* its acceptance: the answers credited are then those of the cards that   *)
(* are there when it is accepted.                                          *)
CreditsWhoFedIt ==
  \A i \in DOMAIN rows, c \in Cells :
    LET cell == rows[i].cells[c]
    IN  cell.value.by = "planner" => cell.provenance = Credits(cell.value.from)

(* Without a lock two requests may take the same number, but never more    *)
(* rows share one than there were requests running at a time: the edits of *)
(* a facilitator who waits for each answer are numbered 1, 2, 3, ...       *)
ClashesBounded ==
  \A i \in DOMAIN rows :
    Cardinality({j \in DOMAIN rows : rows[j].version = rows[i].version})
      <= Cardinality(Reqs)

(* Row by row, the plan is a draft history.                                *)
History == INSTANCE DraftHistory
ImplementsHistory == History!Spec
=============================================================================
