----------------------------- MODULE PlanEditor -----------------------------
(***************************************************************************)
(* The editor of the one-page plan (app/opsp/OpspEditView) in several      *)
(* browser tabs, and the single row per cell it writes                     *)
(* (app/api/opsp/cells, lib/opsp-plan-db).  The rules of the program:      *)
(*   - a change is sent two seconds after the last change of any cell, by  *)
(*     a timer that remembers the cell and the content it was set for;     *)
(*   - leaving the editor's pane clears the timer and sends the cell that  *)
(*     is active then, changed or not;                                     *)
(*   - the last write of a cell wins; nobody reads before writing;         *)
(*   - leaving the page by a link of the program unmounts the editor and   *)
(*     leaves its timer running: it still sends, over whatever was sent    *)
(*     since.  Only a full load of the page ends it.                       *)
(*                                                                         *)
(* The editors of metrics keep their rows in a state of their own, which   *)
(* starts from the cell they were first shown for and is kept when another *)
(* metrics cell is selected.                                               *)
(***************************************************************************)
EXTENDS Naturals, FiniteSets

CONSTANTS Tabs,      \* open editors
          Plain,     \* cells whose editor shows the cell's content
          Metrics,   \* cells whose editor keeps rows of its own
          NoCell,
          Gone,      \* the sender of a PATCH whose editor is unmounted
          MaxActs,   \* bound: edits and runs of the seed
          MaxWire    \* bound: PATCHes on their way at once

ASSUME EditorAssumption ==
  /\ Plain \intersect Metrics = {} /\ NoCell \notin Plain \union Metrics
  /\ Gone \notin Tabs
  /\ Plain # {} /\ MaxActs \in Nat /\ MaxWire \in Nat

Cells == Plain \union Metrics

VARIABLES
  tab,    \* the state of the OpspEditView mounted in each tab
  orphans, \* timers of editors that are unmounted
  wire,   \* PATCHes on their way
  stored, \* opsp_plan_cell_values over the seed
  page,   \* the plan as the page was last rendered on the server
  sent,   \* history: what each mounted editor has loaded or sent of each cell
  passed, \* history: cells whose timer another cell's edit or blur cleared
  acts

vars == <<tab, orphans, wire, stored, page, sent, passed, acts>>

(* A content is the act that made it and the cell whose content or rows it *)
(* was made from.                                                          *)
Seed(c)  == [act |-> 0, of |-> c]
Contents == [act : 0..MaxActs, of : Cells]
NoTimer  == [cell |-> NoCell]

Rows(c, kept) == IF c \in Plain THEN NoCell ELSE IF kept = NoCell THEN c ELSE kept

Mounted(c) == [cells |-> page, active |-> c, rows |-> Rows(c, NoCell),
               focus |-> FALSE, timer |-> NoTimer, status |-> "saved"]

Init ==
  /\ stored = [c \in Cells |-> Seed(c)] /\ page = stored
  /\ \E c \in Cells : tab = [t \in Tabs |-> Mounted(c)]
  /\ orphans = {} /\ wire = {} /\ acts = 0
  /\ sent = [t \in Tabs |-> [c \in Cells |-> {Seed(c)}]]
  /\ passed = [t \in Tabs |-> {}]

Act == acts < MaxActs /\ acts' = acts + 1

(* The server renders the page: for each request, or, as nothing marks the *)
(* page as dynamic, once when it is built.                                 *)
Render ==
  /\ page # stored /\ page' = stored
  /\ UNCHANGED <<tab, orphans, wire, stored, sent, passed, acts>>

(* The editor is mounted with the cell the hash names.  What the last one  *)
(* sent goes on, but its answer changes nothing that is shown.             *)
Mount(t, c) ==
  /\ tab' = [tab EXCEPT ![t] = Mounted(c)]
  /\ wire' = {[m EXCEPT !.tab = IF @ = t THEN Gone ELSE @] : m \in wire}
  /\ sent' = [sent EXCEPT ![t] = [d \in Cells |-> {page[d]}]]
  /\ passed' = [passed EXCEPT ![t] = {}]
  /\ UNCHANGED <<stored, page, acts>>

(* A full load of the page: the timers of the tab are gone.                *)
Load(t, c) ==
  /\ Mount(t, c)
  /\ orphans' = {o \in orphans : o.tab # t}

Running(t) == IF tab[t].timer = NoTimer THEN {}
              ELSE {[tab |-> t, cell |-> tab[t].timer.cell, content |-> tab[t].timer.content]}

(* To another view by a link of the program and back again: nothing clears *)
(* the timer of the editor that is unmounted.                              *)
\* Mutant of Navigate: the editor keeps the timer it finds.
MutNavigate(t, c) ==
  /\ tab' = [tab EXCEPT ![t] = [Mounted(c) EXCEPT !.timer = tab[t].timer]]
  /\ wire' = {[m EXCEPT !.tab = IF @ = t THEN Gone ELSE @] : m \in wire}
  /\ sent' = [sent EXCEPT ![t] = [d \in Cells |-> {page[d]}]]
  /\ passed' = [passed EXCEPT ![t] = {}]
  /\ UNCHANGED <<orphans, stored, page, acts>>

Navigate(t, c) ==
  /\ Mount(t, c)
  /\ orphans' = orphans \union Running(t)

(* The rail, Prev and Next, or the browser's history.                      *)
\* Mutant of Select: the timer is cleared with the cell.
MutSelect(t, c) ==
  /\ c # tab[t].active
  /\ tab' = [tab EXCEPT ![t].active = c, ![t].rows = Rows(c, @), ![t].timer = NoTimer]
  /\ UNCHANGED <<orphans, wire, stored, page, sent, passed, acts>>

Select(t, c) ==
  /\ c # tab[t].active
  /\ tab' = [tab EXCEPT ![t].active = c, ![t].rows = Rows(c, @)]
  /\ UNCHANGED <<orphans, wire, stored, page, sent, passed, acts>>

Passed(t) ==
  passed' = [passed EXCEPT ![t] = (@ \union {tab[t].timer.cell})
                                    \ {NoCell, tab[t].active}]

(* handleContentChange                                                     *)
Change(t, from) ==
  LET new == [act |-> acts + 1, of |-> from]
      c   == tab[t].active
  IN  /\ Act
      /\ tab' = [tab EXCEPT ![t].cells[c] = new, ![t].status = "unsaved",
                            ![t].timer = [cell |-> c, content |-> new]]
      /\ Passed(t)
      /\ UNCHANGED <<orphans, wire, stored, page, sent>>

(* An edit in the pane: of the content shown, or of the metrics' own rows. *)
TypeContent(t) == tab[t].focus /\ tab[t].active \in Plain /\ Change(t, tab[t].active)
TypeRows(t)    == tab[t].focus /\ tab[t].active \in Metrics /\ Change(t, tab[t].rows)

(* handleCopyIntoCell: from the panel into the cell's content.             *)
Copy(t) == ~tab[t].focus /\ Change(t, tab[t].active)

Focus(t) ==
  /\ ~tab[t].focus
  /\ tab' = [tab EXCEPT ![t].focus = TRUE]
  /\ UNCHANGED <<orphans, wire, stored, page, sent, passed, acts>>

(* persistCell                                                             *)
Send(from, c, content) ==
  /\ Cardinality(wire) < MaxWire
  /\ wire' = wire \union {[tab |-> from, cell |-> c, content |-> content]}

Persist(t, c, content) ==
  /\ Send(t, c, content)
  /\ sent' = [sent EXCEPT ![t][c] = @ \union {content}]

\* Mutant of TimerFires: the cell is the one active when the timer fires.
MutTimerFires(t) ==
  /\ tab[t].timer # NoTimer
  /\ tab' = [tab EXCEPT ![t].timer = NoTimer, ![t].status = "saving"]
  /\ Persist(t, tab[t].active, tab[t].timer.content)
  /\ UNCHANGED <<orphans, stored, page, passed, acts>>

TimerFires(t) ==
  /\ tab[t].timer # NoTimer
  /\ tab' = [tab EXCEPT ![t].timer = NoTimer, ![t].status = "saving"]
  /\ Persist(t, tab[t].timer.cell, tab[t].timer.content)
  /\ UNCHANGED <<orphans, stored, page, passed, acts>>

(* The timer of an editor that is unmounted.                               *)
OrphanFires(o) ==
  /\ o \in orphans /\ orphans' = orphans \ {o}
  /\ Send(Gone, o.cell, o.content)
  /\ UNCHANGED <<tab, stored, page, sent, passed, acts>>

(* handleBlurSave: the active cell is sent, changed or not.                *)
Blur(t) ==
  /\ tab[t].focus
  /\ tab' = [tab EXCEPT ![t].focus = FALSE, ![t].timer = NoTimer, ![t].status = "saving"]
  /\ Persist(t, tab[t].active, tab[t].cells[tab[t].active])
  /\ Passed(t)
  /\ UNCHANGED <<orphans, stored, page, acts>>

(* savePlanCell                                                            *)
Upsert(c, content) == stored' = [stored EXCEPT ![c] = content]

Shown(m, status) ==
  IF m.tab = Gone THEN UNCHANGED tab ELSE tab' = [tab EXCEPT ![m.tab].status = status]

(* PATCH /api/opsp/cells/[id]: an upsert. The answer is ok also when the   *)
(* database failed; only a lost request is shown as saved locally.         *)
HandlePatch(m) ==
  /\ m \in wire /\ wire' = wire \ {m}
  /\ \/ Upsert(m.cell, m.content)
     \/ UNCHANGED stored
  /\ Shown(m, "saved")
  /\ UNCHANGED <<orphans, page, sent, passed, acts>>

LosePatch(m) ==
  /\ m \in wire /\ wire' = wire \ {m}
  /\ Shown(m, "local")
  /\ UNCHANGED <<orphans, stored, page, sent, passed, acts>>

(* seedPlanCells, run again                                                *)
RunSeed ==
  /\ Act /\ stored' = [c \in Cells |-> Seed(c)]
  /\ UNCHANGED <<tab, orphans, wire, page, sent, passed>>

Next ==
  \/ \E t \in Tabs, c \in Cells : Load(t, c) \/ Navigate(t, c) \/ Select(t, c)
  \/ \E t \in Tabs : \/ TypeContent(t) \/ TypeRows(t) \/ Copy(t) \/ Focus(t) \/ Blur(t)
                     \/ TimerFires(t)
  \/ \E m \in wire : HandlePatch(m) \/ LosePatch(m)
  \/ \E o \in orphans : OrphanFires(o)
  \/ RunSeed \/ Render

Spec == Init /\ [][Next]_vars

-----------------------------------------------------------------------------
TabStates ==
  [cells : [Cells -> Contents], active : Cells, rows : Metrics \union {NoCell},
   focus : BOOLEAN, timer : {NoTimer} \union [cell : Cells, content : Contents],
   status : {"unsaved", "saving", "saved", "local"}]
Messages == [tab : Tabs \union {Gone}, cell : Cells, content : Contents]

(* Every variable is of its kind.                                          *)
TypeOK ==
  /\ tab \in [Tabs -> TabStates]
  /\ orphans \in SUBSET [tab : Tabs, cell : Cells, content : Contents]
  /\ wire \in SUBSET Messages
  /\ stored \in [Cells -> Contents] /\ page \in [Cells -> Contents]
  /\ sent \in [Tabs -> [Cells -> SUBSET Contents]]
  /\ passed \in [Tabs -> SUBSET Cells]
  /\ acts \in 0..MaxActs

(* Whatever is selected or mounted while a timer runs or a PATCH is on its *)
(* way, a cell is only ever written with content made for it.  Metrics     *)
(* cells are left out: their editor really does write one cell's rows into *)
(* another.                                                                *)
ContentStaysInItsCell == \A c \in Plain : stored[c].of = c

(* The timer of the mounted editor holds what its cell shows, and nothing  *)
(* newer than that was loaded or sent by this editor.  The timers of       *)
(* editors that are unmounted are left out: see NothingOlderIsSent.        *)
TimerIsCurrent ==
  \A t \in Tabs : LET timer == tab[t].timer IN
    timer # NoTimer =>
      /\ timer.content = tab[t].cells[timer.cell]
      /\ \A other \in sent[t][timer.cell] : other.act <= timer.content.act

(* The same of every timer of a tab.  It does not hold: a timer left behind *)
(* by navigation sends what the next editor has already replaced.          *)
NothingOlderIsSent ==
  \A o \in orphans : \A other \in sent[o.tab][o.cell] : other.act <= o.content.act

(* What an editor shows was loaded or sent, or a timer will send it, but   *)
(* for the cells whose timer an edit or a blur of another cell has         *)
(* cleared; selecting a cell alone loses nothing.                          *)
ShownIsSent ==
  \A t \in Tabs, c \in Cells :
    tab[t].cells[c] \in sent[t][c] \/ tab[t].timer.cell = c \/ c \in passed[t]

=============================================================================
