-------------------------- MODULE PlanEditorProofs --------------------------
(***************************************************************************)
(* Proofs about PlanEditor, for every number of tabs, cells, requests on   *)
(* their way and timers left behind.  The inductive invariant says of each *)
(* mounted editor that its plain cells hold what was made for them, that a *)
(* running timer holds what its cell shows and nothing newer was sent, and *)
(* what became of each content shown; of a PATCH on its way and of a timer *)
(* left behind, that it carries a plain cell's own content; and of all     *)
(* contents, that they were made no later than now, which is what makes an *)
(* edit newer than everything sent before it.                              *)
(***************************************************************************)
EXTENDS PlanEditor, TLAPS

Made(content, n) == content.act <= n

TabOK(tb, s, p, n) ==
  /\ \A c \in Plain : tb.cells[c].of = c
  /\ \A c \in Cells : Made(tb.cells[c], n) /\ \A k \in s[c] : Made(k, n)
  /\ tb.timer # NoTimer =>
       /\ tb.timer.content = tb.cells[tb.timer.cell]
       /\ \A k \in s[tb.timer.cell] : Made(k, tb.timer.content.act)
  /\ \A c \in Cells : tb.cells[c] \in s[c] \/ tb.timer.cell = c \/ c \in p
  /\ tb.active \in Metrics => tb.rows \in Metrics

MessageOK(m, n) == (m.cell \in Plain => m.content.of = m.cell) /\ Made(m.content, n)

PlanOK(plan, n) ==
  /\ \A c \in Plain : plan[c].of = c
  /\ \A c \in Cells : Made(plan[c], n)

IInv ==
  /\ TypeOK
  /\ \A t \in Tabs : TabOK(tab[t], sent[t], passed[t], acts)
  /\ \A m \in wire : MessageOK(m, acts)
  /\ \A o \in orphans : MessageOK(o, acts)
  /\ PlanOK(stored, acts) /\ PlanOK(page, acts)

-----------------------------------------------------------------------------
LEMMA CellKinds ==
  /\ Plain \subseteq Cells /\ Metrics \subseteq Cells /\ NoCell \notin Cells
  /\ \A c \in Cells : c \notin Plain => c \in Metrics
  BY EditorAssumption DEF Cells

LEMMA RowsTyped ==
  ASSUME NEW c \in Cells, NEW kept \in Metrics \union {NoCell}
  PROVE  /\ Rows(c, kept) \in Metrics \union {NoCell}
         /\ c \in Metrics => Rows(c, kept) \in Metrics
  BY EditorAssumption DEF Rows, Cells

LEMMA SeedTyped ==
  /\ [c \in Cells |-> Seed(c)] \in [Cells -> Contents]
  /\ \A n \in Nat : PlanOK([c \in Cells |-> Seed(c)], n)
  BY EditorAssumption, CellKinds DEF Seed, Contents, PlanOK, Made

\* What was made by then was made by any later time.
LEMMA Later ==
  ASSUME NEW n \in Nat, NEW k \in Nat, n <= k
  PROVE  /\ \A c \in Contents : Made(c, n) => Made(c, k)
         /\ \A m : m.content \in Contents /\ MessageOK(m, n) => MessageOK(m, k)
         /\ \A plan \in [Cells -> Contents] : PlanOK(plan, n) => PlanOK(plan, k)
         /\ \A tb \in TabStates, s \in [Cells -> SUBSET Contents] : \A p :
              TabOK(tb, s, p, n) => TabOK(tb, s, p, k)
<1>1. \A c \in Contents : Made(c, n) => Made(c, k)
  BY DEF Contents, Made
<1>2. \A m : m.content \in Contents /\ MessageOK(m, n) => MessageOK(m, k)
  BY <1>1 DEF MessageOK
<1>3. \A plan \in [Cells -> Contents] : PlanOK(plan, n) => PlanOK(plan, k)
  BY <1>1 DEF PlanOK
<1>4. ASSUME NEW tb \in TabStates, NEW s \in [Cells -> SUBSET Contents], NEW p,
             TabOK(tb, s, p, n)
      PROVE  TabOK(tb, s, p, k)
  <2>1. tb.cells \in [Cells -> Contents]
    BY DEF TabStates
  <2>2. \A c \in Cells : Made(tb.cells[c], k) /\ \A x \in s[c] : Made(x, k)
    BY <1>1, <1>4, <2>1 DEF TabOK
  <2> QED BY <1>4, <2>2 DEF TabOK
<1> QED BY <1>1, <1>2, <1>3, <1>4

\* An editor as it is mounted over the page that was rendered.
LEMMA MountedOK ==
  ASSUME page \in [Cells -> Contents], NEW n \in Nat, PlanOK(page, n), NEW c \in Cells
  PROVE  /\ Mounted(c) \in TabStates
         /\ TabOK(Mounted(c), [d \in Cells |-> {page[d]}], {}, n)
<1>1. /\ Rows(c, NoCell) \in Metrics \union {NoCell}
      /\ c \in Metrics => Rows(c, NoCell) \in Metrics
  BY RowsTyped
<1>2. Mounted(c) \in TabStates
  BY <1>1 DEF Mounted, TabStates
<1>3. TabOK(Mounted(c), [d \in Cells |-> {page[d]}], {}, n)
  BY <1>1, CellKinds DEF Mounted, TabOK, PlanOK
<1> QED BY <1>2, <1>3

LEMMA InitIInv == Init => IInv
<1> SUFFICES ASSUME Init PROVE IInv
  OBVIOUS
<1>1. stored \in [Cells -> Contents] /\ page = stored /\ acts = 0 /\ 0 \in Nat
      /\ wire = {} /\ orphans = {}
  BY SeedTyped DEF Init
<1>2. PlanOK(stored, acts) /\ PlanOK(page, acts)
  BY <1>1, SeedTyped DEF Init
<1>3. PICK c \in Cells : tab = [t \in Tabs |-> Mounted(c)]
  BY DEF Init
<1>4. sent = [t \in Tabs |-> [d \in Cells |-> {page[d]}]] /\ passed = [t \in Tabs |-> {}]
  BY <1>1 DEF Init
<1>5. Mounted(c) \in TabStates /\ TabOK(Mounted(c), [d \in Cells |-> {page[d]}], {}, acts)
  BY <1>1, <1>2, MountedOK
<1>6. tab \in [Tabs -> TabStates] /\ \A t \in Tabs : TabOK(tab[t], sent[t], passed[t], acts)
  BY <1>3, <1>4, <1>5
<1>7. sent \in [Tabs -> [Cells -> SUBSET Contents]] /\ passed \in [Tabs -> SUBSET Cells]
  BY <1>1, <1>4
<1>8. TypeOK
  BY <1>1, <1>6, <1>7, EditorAssumption DEF TypeOK
<1> QED BY <1>1, <1>2, <1>6, <1>8 DEF IInv

-----------------------------------------------------------------------------
Carried == [tab : Tabs, cell : Cells, content : Contents]

LEMMA Facts ==
  ASSUME IInv
  PROVE  /\ wire \in SUBSET Messages /\ \A m \in wire : MessageOK(m, acts)
         /\ orphans \in SUBSET Carried /\ \A o \in orphans : MessageOK(o, acts)
         /\ acts \in 0..MaxActs /\ acts \in Nat
         /\ stored \in [Cells -> Contents] /\ PlanOK(stored, acts)
         /\ page \in [Cells -> Contents] /\ PlanOK(page, acts)
  BY DEF IInv, TypeOK, Carried

LEMMA TabTyped ==
  ASSUME IInv, NEW t \in Tabs
  PROVE  /\ tab[t] \in TabStates /\ TabOK(tab[t], sent[t], passed[t], acts)
         /\ sent[t] \in [Cells -> SUBSET Contents] /\ passed[t] \in SUBSET Cells
         /\ [tab EXCEPT ![t] = tab[t]] = tab
         /\ [sent EXCEPT ![t] = sent[t]] = sent
         /\ [passed EXCEPT ![t] = passed[t]] = passed
  BY DEF IInv, TypeOK

LEMMA ActTyped ==
  ASSUME IInv, Act
  PROVE  acts' \in 0..MaxActs /\ acts' = acts + 1 /\ acts' \in Nat /\ acts <= acts'
  BY Facts, EditorAssumption DEF Act

\* What is enough for a step of one tab.
LEMMA TabStep ==
  ASSUME IInv, NEW t \in Tabs,
         NEW new \in TabStates, tab' = [tab EXCEPT ![t] = new],
         NEW s \in [Cells -> SUBSET Contents], sent' = [sent EXCEPT ![t] = s],
         NEW p \in SUBSET Cells, passed' = [passed EXCEPT ![t] = p],
         acts' \in 0..MaxActs, acts <= acts',
         TabOK(new, s, p, acts'),
         wire' \in SUBSET Messages, \A m \in wire' : MessageOK(m, acts'),
         orphans' \in SUBSET Carried, \A o \in orphans' : MessageOK(o, acts'),
         UNCHANGED <<stored, page>>
  PROVE  IInv'
<1>1. TypeOK'
  BY Facts DEF IInv, TypeOK, Carried
<1>2. acts \in Nat /\ acts' \in Nat
  BY Facts, EditorAssumption
<1>3. PlanOK(stored, acts') /\ PlanOK(page, acts')
  BY <1>2, Facts, Later
<1>4. \A u \in Tabs : TabOK(tab[u], sent[u], passed[u], acts')
  BY <1>2, TabTyped, Later
<1>5. ASSUME NEW u \in Tabs PROVE TabOK(tab'[u], sent'[u], passed'[u], acts')
  <2>1. CASE u = t
    BY <2>1 DEF IInv, TypeOK
  <2>2. CASE u # t
    <3>1. tab'[u] = tab[u] /\ sent'[u] = sent[u] /\ passed'[u] = passed[u]
      BY <2>2 DEF IInv, TypeOK
    <3> QED BY <1>4, <3>1
  <2> QED BY <2>1, <2>2
<1> QED BY <1>1, <1>3, <1>5 DEF IInv

\* What is enough for a step that leaves the tabs, the plan and the time.
LEMMA WireStep ==
  ASSUME IInv, UNCHANGED <<tab, sent, passed, stored, page, acts>>,
         wire' \in SUBSET Messages, \A m \in wire' : MessageOK(m, acts),
         orphans' \in SUBSET Carried, \A o \in orphans' : MessageOK(o, acts)
  PROVE  IInv'
  BY Facts DEF IInv, TypeOK, Carried

LEMMA MountKeeps ==
  ASSUME IInv, NEW t \in Tabs, NEW c \in Cells, Load(t, c) \/ Navigate(t, c) PROVE IInv'
<1> DEFINE s == [d \in Cells |-> {page[d]}]
           left(m) == [m EXCEPT !.tab = IF @ = t THEN Gone ELSE @]
<1>1. Mount(t, c)
  BY DEF Load, Navigate
<1>2. /\ tab' = [tab EXCEPT ![t] = Mounted(c)] /\ sent' = [sent EXCEPT ![t] = s]
      /\ passed' = [passed EXCEPT ![t] = {}] /\ UNCHANGED <<stored, page, acts>>
      /\ wire' = {left(m) : m \in wire}
  BY <1>1 DEF Mount
<1>3. s \in [Cells -> SUBSET Contents]
  BY Facts
<1>4. Mounted(c) \in TabStates /\ TabOK(Mounted(c), s, {}, acts)
  BY Facts, MountedOK
<1>5. \A m \in Messages : left(m) \in Messages
                         /\ left(m).cell = m.cell /\ left(m).content = m.content
  BY DEF Messages
<1>6. wire' \in SUBSET Messages /\ \A m \in wire' : MessageOK(m, acts)
  <2>1. \A m \in wire : m \in Messages /\ MessageOK(m, acts)
    BY Facts
  <2>2. \A m \in wire : left(m) \in Messages /\ MessageOK(left(m), acts)
    <3> HIDE DEF left
    <3> QED BY <1>5, <2>1 DEF MessageOK
  <2> HIDE DEF left
  <2> QED BY <1>2, <2>2
<1>7. orphans' \in SUBSET Carried /\ \A o \in orphans' : MessageOK(o, acts)
  <2>1. CASE Load(t, c)
    BY <2>1, Facts DEF Load
  <2>2. CASE Navigate(t, c)
    <3>1. orphans' = orphans \union Running(t)
      BY <2>2 DEF Navigate
    <3>2. ASSUME NEW o \in Running(t) PROVE o \in Carried /\ MessageOK(o, acts)
      <4>1. /\ tab[t].timer # NoTimer
            /\ o = [tab |-> t, cell |-> tab[t].timer.cell, content |-> tab[t].timer.content]
        BY DEF Running
      <4>2. tab[t].timer.cell \in Cells /\ tab[t].timer.content \in Contents
        BY <4>1, TabTyped DEF TabStates
      <4>3. /\ tab[t].timer.content = tab[t].cells[tab[t].timer.cell]
            /\ Made(tab[t].timer.content, acts)
            /\ tab[t].timer.cell \in Plain => tab[t].timer.content.of = tab[t].timer.cell
        BY <4>1, <4>2, TabTyped DEF TabOK
      <4> QED BY <4>1, <4>2, <4>3 DEF Carried, MessageOK
    <3> QED BY <3>1, <3>2, Facts
  <2> QED BY <2>1, <2>2
<1> HIDE DEF s, left
<1>8. acts' \in 0..MaxActs /\ acts <= acts' /\ UNCHANGED <<stored, page>>
      /\ TabOK(Mounted(c), s, {}, acts')
      /\ (\A m \in wire' : MessageOK(m, acts')) /\ \A o \in orphans' : MessageOK(o, acts')
  BY <1>2, <1>4, <1>6, <1>7, Facts
<1>9. {} \in SUBSET Cells
  OBVIOUS
<1> QED BY <1>2, <1>3, <1>4, <1>6, <1>7, <1>8, <1>9, TabStep

\* The messages and timers of a step that sends nothing.
LEMMA QuietStep ==
  ASSUME IInv, UNCHANGED <<orphans, wire>>, acts' = acts \/ Act
  PROVE  /\ acts' \in 0..MaxActs /\ acts <= acts' /\ acts' \in Nat
         /\ wire' \in SUBSET Messages /\ \A m \in wire' : MessageOK(m, acts')
         /\ orphans' \in SUBSET Carried /\ \A o \in orphans' : MessageOK(o, acts')
<1>1. acts' \in 0..MaxActs /\ acts <= acts' /\ acts' \in Nat /\ acts \in Nat
  BY Facts, ActTyped
<1>2. /\ \A m \in wire : m.content \in Contents
      /\ \A o \in orphans : o.content \in Contents
  BY Facts DEF Messages, Carried
<1> QED BY <1>1, <1>2, Facts, Later

LEMMA SelectKeeps ==
  ASSUME IInv, NEW t \in Tabs, NEW c \in Cells, Select(t, c) PROVE IInv'
<1> DEFINE new == [tab[t] EXCEPT !.active = c, !.rows = Rows(c, tab[t].rows)]
<1>1. tab[t] \in TabStates /\ TabOK(tab[t], sent[t], passed[t], acts)
  BY TabTyped
<1>2. /\ Rows(c, tab[t].rows) \in Metrics \union {NoCell}
      /\ c \in Metrics => Rows(c, tab[t].rows) \in Metrics
  BY <1>1, RowsTyped DEF TabStates
<1>3. /\ new \in TabStates /\ new.cells = tab[t].cells /\ new.timer = tab[t].timer
      /\ new.active = c /\ new.rows = Rows(c, tab[t].rows)
  BY <1>1, <1>2 DEF TabStates
<1>4. tab' = [tab EXCEPT ![t] = new]
      /\ UNCHANGED <<orphans, wire, stored, page, sent, passed, acts>>
  BY DEF Select, IInv, TypeOK
<1> HIDE DEF new
<1>5. TabOK(new, sent[t], passed[t], acts')
  BY <1>1, <1>2, <1>3, <1>4 DEF TabOK
<1> QED BY <1>3, <1>4, <1>5, TabTyped, QuietStep, TabStep

LEMMA FocusKeeps ==
  ASSUME IInv, NEW t \in Tabs, Focus(t) PROVE IInv'
<1> DEFINE new == [tab[t] EXCEPT !.focus = TRUE]
<1>1. tab[t] \in TabStates /\ TabOK(tab[t], sent[t], passed[t], acts)
  BY TabTyped
<1>2. /\ new \in TabStates /\ new.cells = tab[t].cells /\ new.timer = tab[t].timer
      /\ new.active = tab[t].active /\ new.rows = tab[t].rows
  BY <1>1 DEF TabStates
<1>3. tab' = [tab EXCEPT ![t] = new]
      /\ UNCHANGED <<orphans, wire, stored, page, sent, passed, acts>>
  BY DEF Focus
<1> HIDE DEF new
<1>4. TabOK(new, sent[t], passed[t], acts')
  BY <1>1, <1>2, <1>3 DEF TabOK
<1> QED BY <1>2, <1>3, <1>4, TabTyped, QuietStep, TabStep

\* The cells that an edit or a blur of the active cell leaves behind.
LEMMA PassedCells ==
  ASSUME IInv, NEW t \in Tabs, Passed(t)
  PROVE  \E p \in SUBSET Cells :
           /\ passed' = [passed EXCEPT ![t] = p]
           /\ \A c \in Cells \ {tab[t].active} :
                c \in passed[t] \/ tab[t].timer.cell = c => c \in p
<1> DEFINE p == (passed[t] \union {tab[t].timer.cell}) \ {NoCell, tab[t].active}
<1>1. tab[t] \in TabStates /\ passed[t] \in SUBSET Cells
  BY TabTyped
<1>2. tab[t].timer.cell \in Cells \union {NoCell}
  BY <1>1 DEF TabStates, NoTimer
<1>3. p \in SUBSET Cells
  BY <1>1, <1>2
<1>4. passed' = [passed EXCEPT ![t] = p]
  BY DEF Passed, IInv, TypeOK
<1>5. \A c \in Cells \ {tab[t].active} :
        c \in passed[t] \/ tab[t].timer.cell = c => c \in p
  BY CellKinds
<1> QED BY <1>3, <1>4, <1>5

LEMMA ChangeKeeps ==
  ASSUME IInv, NEW t \in Tabs, NEW from \in Cells,
         tab[t].active \in Plain => from = tab[t].active, Change(t, from)
  PROVE  IInv'
<1> DEFINE c == tab[t].active
           content == [act |-> acts + 1, of |-> from]
           timer == [cell |-> c, content |-> content]
           new == [tab[t] EXCEPT !.cells = [tab[t].cells EXCEPT ![c] = content],
                                 !.status = "unsaved", !.timer = timer]
<1>1. tab[t] \in TabStates /\ TabOK(tab[t], sent[t], passed[t], acts)
  BY TabTyped
<1>2. Act /\ acts' \in 0..MaxActs /\ acts' = acts + 1 /\ acts' \in Nat /\ acts \in Nat
  BY ActTyped, Facts DEF Change
<1>3. content \in Contents /\ content.of = from /\ content.act = acts'
  BY <1>2 DEF Contents
<1>4. c \in Cells /\ tab[t].cells \in [Cells -> Contents]
  BY <1>1 DEF TabStates
<1>5. /\ tab' = [tab EXCEPT ![t].cells[c] = content, ![t].status = "unsaved",
                            ![t].timer = timer]
      /\ Passed(t) /\ UNCHANGED <<orphans, wire, stored, page, sent>>
  BY DEF Change
<1> HIDE DEF content, c
<1>6. tab' = [tab EXCEPT ![t] = new]
  BY <1>5 DEF IInv, TypeOK
<1>7. /\ new \in TabStates /\ new.timer = timer
      /\ new.cells = [tab[t].cells EXCEPT ![c] = content]
      /\ new.active = tab[t].active /\ new.rows = tab[t].rows
  BY <1>1, <1>3, <1>4 DEF TabStates
<1>8. PICK p \in SUBSET Cells :
        /\ passed' = [passed EXCEPT ![t] = p]
        /\ \A d \in Cells \ {c} : d \in passed[t] \/ tab[t].timer.cell = d => d \in p
  BY <1>5, PassedCells DEF c
<1> HIDE DEF new
<1>9. TabOK(new, sent[t], p, acts')
  <2>1. \A d \in Plain : new.cells[d].of = d
    BY <1>1, <1>3, <1>4, <1>7, CellKinds DEF TabOK, c
  <2>2. /\ new.timer.cell = c /\ new.timer.content = content
        /\ new.timer.content = new.cells[new.timer.cell]
    BY <1>4, <1>7
  <2>4. TabOK(tab[t], sent[t], passed[t], acts') /\ acts <= acts'
    BY <1>1, <1>2, TabTyped, Later
  <2>5. \A k \in sent[t][c] : Made(k, content.act)
    BY <1>3, <1>4, <2>4 DEF TabOK
  <2>6. \A d \in Cells : Made(new.cells[d], acts') /\ \A k \in sent[t][d] : Made(k, acts')
    BY <1>2, <1>3, <1>4, <1>7, <2>4 DEF TabOK, Made
  <2>3. \A d \in Cells : new.cells[d] \in sent[t][d] \/ new.timer.cell = d \/ d \in p
    BY <1>1, <1>4, <1>7, <1>8 DEF TabOK
  <2> QED BY <1>1, <1>7, <2>1, <2>2, <2>3, <2>5, <2>6 DEF TabOK
<1> QED BY <1>2, <1>5, <1>6, <1>7, <1>8, <1>9, TabTyped, QuietStep, TabStep

LEMMA EditKeeps ==
  ASSUME IInv, NEW t \in Tabs, TypeContent(t) \/ TypeRows(t) \/ Copy(t) PROVE IInv'
<1>1. tab[t].active \in Cells /\ tab[t].rows \in Metrics \union {NoCell}
  BY TabTyped DEF TabStates
<1>2. CASE TypeContent(t) \/ Copy(t)
  BY <1>1, <1>2, ChangeKeeps DEF TypeContent, Copy
<1>3. CASE TypeRows(t)
  <2>1. tab[t].active \notin Plain /\ tab[t].active \in Metrics
    BY <1>3, EditorAssumption DEF TypeRows
  <2>2. tab[t].rows \in Cells
    BY <2>1, TabTyped, CellKinds DEF TabOK
  <2> QED BY <1>3, <2>1, <2>2, ChangeKeeps DEF TypeRows
<1> QED BY <1>2, <1>3

-----------------------------------------------------------------------------
\* A cell is sent with content of its own.
LEMMA SendOK ==
  ASSUME IInv, UNCHANGED acts, NEW from \in Tabs \union {Gone}, NEW c \in Cells,
         NEW content \in Contents, c \in Plain => content.of = c, Made(content, acts),
         Send(from, c, content)
  PROVE  wire' \in SUBSET Messages /\ \A m \in wire' : MessageOK(m, acts')
<1> DEFINE m == [tab |-> from, cell |-> c, content |-> content]
<1>1. m \in Messages /\ MessageOK(m, acts)
  BY DEF Messages, MessageOK
<1>2. wire' = wire \union {m}
  BY DEF Send
<1> HIDE DEF m
<1> QED BY <1>1, <1>2, Facts

LEMMA PersistOK ==
  ASSUME IInv, UNCHANGED acts, NEW t \in Tabs, NEW c \in Cells, NEW content \in Contents,
         c \in Plain => content.of = c, Made(content, acts), Persist(t, c, content)
  PROVE  /\ wire' \in SUBSET Messages /\ \A m \in wire' : MessageOK(m, acts')
         /\ sent' = [sent EXCEPT ![t] = [sent[t] EXCEPT ![c] = @ \union {content}]]
         /\ [sent[t] EXCEPT ![c] = @ \union {content}] \in [Cells -> SUBSET Contents]
<1>1. Send(t, c, content) /\ sent' = [sent EXCEPT ![t][c] = @ \union {content}]
  BY DEF Persist
<1>2. wire' \in SUBSET Messages /\ \A m \in wire' : MessageOK(m, acts')
  BY <1>1, SendOK
<1> QED BY <1>1, <1>2, TabTyped DEF IInv, TypeOK

LEMMA TimerKeeps ==
  ASSUME IInv, NEW t \in Tabs, TimerFires(t) PROVE IInv'
<1> DEFINE c == tab[t].timer.cell
           content == tab[t].timer.content
           new == [tab[t] EXCEPT !.timer = NoTimer, !.status = "saving"]
           s == [sent[t] EXCEPT ![c] = @ \union {content}]
<1>1. tab[t] \in TabStates /\ TabOK(tab[t], sent[t], passed[t], acts) /\ tab[t].timer # NoTimer
  BY TabTyped DEF TimerFires
<1>2. c \in Cells /\ content \in Contents /\ content = tab[t].cells[c]
  BY <1>1 DEF TabStates, TabOK
<1>3. (c \in Plain => content.of = c) /\ Made(content, acts)
  BY <1>1, <1>2 DEF TabOK
<1>4. tab' = [tab EXCEPT ![t] = new] /\ Persist(t, c, content)
      /\ UNCHANGED <<orphans, stored, page, passed, acts>>
  BY DEF TimerFires, IInv, TypeOK
<1>5. /\ wire' \in SUBSET Messages /\ \A m \in wire' : MessageOK(m, acts')
      /\ sent' = [sent EXCEPT ![t] = s] /\ s \in [Cells -> SUBSET Contents]
  BY <1>2, <1>3, <1>4, PersistOK
<1>6. /\ new \in TabStates /\ new.cells = tab[t].cells /\ new.timer = NoTimer
      /\ new.active = tab[t].active /\ new.rows = tab[t].rows
  BY <1>1 DEF TabStates
<1>7. /\ \A d \in Cells : sent[t][d] \subseteq s[d] /\ s[d] \subseteq sent[t][d] \union {content}
      /\ content \in s[c]
  BY <1>2, TabTyped
<1> HIDE DEF new, s, c, content
<1>8. TabOK(new, s, passed[t], acts')
  BY <1>1, <1>2, <1>3, <1>4, <1>6, <1>7 DEF TabOK, c
<1>9. /\ acts' \in 0..MaxActs /\ acts <= acts'
      /\ orphans' \in SUBSET Carried /\ \A o \in orphans' : MessageOK(o, acts')
  BY <1>4, Facts
<1> QED BY <1>4, <1>5, <1>6, <1>8, <1>9, TabTyped, TabStep

LEMMA BlurKeeps ==
  ASSUME IInv, NEW t \in Tabs, Blur(t) PROVE IInv'
<1> DEFINE c == tab[t].active
           content == tab[t].cells[c]
           new == [tab[t] EXCEPT !.focus = FALSE, !.timer = NoTimer, !.status = "saving"]
           s == [sent[t] EXCEPT ![c] = @ \union {content}]
<1>1. tab[t] \in TabStates /\ TabOK(tab[t], sent[t], passed[t], acts)
  BY TabTyped
<1>2. c \in Cells /\ content \in Contents
  BY <1>1 DEF TabStates
<1>3. (c \in Plain => content.of = c) /\ Made(content, acts)
  BY <1>1, <1>2 DEF TabOK
<1>4. tab' = [tab EXCEPT ![t] = new] /\ Persist(t, c, content) /\ Passed(t)
      /\ UNCHANGED <<orphans, stored, page, acts>>
  BY DEF Blur, IInv, TypeOK
<1>5. /\ wire' \in SUBSET Messages /\ \A m \in wire' : MessageOK(m, acts')
      /\ sent' = [sent EXCEPT ![t] = s] /\ s \in [Cells -> SUBSET Contents]
  BY <1>2, <1>3, <1>4, PersistOK
<1>6. /\ new \in TabStates /\ new.cells = tab[t].cells /\ new.timer = NoTimer
      /\ new.active = tab[t].active /\ new.rows = tab[t].rows
  BY <1>1 DEF TabStates
<1>7. /\ \A d \in Cells : sent[t][d] \subseteq s[d] /\ s[d] \subseteq sent[t][d] \union {content}
      /\ content \in s[c]
  BY <1>2, TabTyped
<1>8. PICK p \in SUBSET Cells :
        /\ passed' = [passed EXCEPT ![t] = p]
        /\ \A d \in Cells \ {c} : d \in passed[t] \/ tab[t].timer.cell = d => d \in p
  BY <1>4, PassedCells
<1> HIDE DEF new, s
<1>9. TabOK(new, s, p, acts')
  BY <1>1, <1>3, <1>4, <1>6, <1>7, <1>8 DEF TabOK
<1>10. /\ acts' \in 0..MaxActs /\ acts <= acts'
       /\ orphans' \in SUBSET Carried /\ \A o \in orphans' : MessageOK(o, acts')
  BY <1>4, Facts
<1> QED BY <1>4, <1>5, <1>6, <1>8, <1>9, <1>10, TabTyped, TabStep

LEMMA OrphanKeeps ==
  ASSUME IInv, NEW o \in orphans, OrphanFires(o) PROVE IInv'
<1>1. o \in Carried /\ MessageOK(o, acts)
  BY Facts
<1>2. /\ Send(Gone, o.cell, o.content) /\ orphans' = orphans \ {o}
      /\ UNCHANGED <<tab, stored, page, sent, passed, acts>>
  BY DEF OrphanFires
<1>3. /\ o.cell \in Cells /\ o.content \in Contents
      /\ (o.cell \in Plain => o.content.of = o.cell) /\ Made(o.content, acts)
  BY <1>1 DEF Carried, MessageOK
<1>4. wire' \in SUBSET Messages /\ \A m \in wire' : MessageOK(m, acts')
  BY <1>2, <1>3, SendOK
<1> QED BY <1>2, <1>4, Facts, WireStep

-----------------------------------------------------------------------------
\* Only the status line of a mounted editor and the plan change.
LEMMA AnswerStep ==
  ASSUME IInv, NEW m \in wire, wire' = wire \ {m}, NEW status \in {"saved", "local"},
         Shown(m, status), stored' \in [Cells -> Contents], PlanOK(stored', acts),
         UNCHANGED <<orphans, page, sent, passed, acts>>
  PROVE  IInv'
<1>1. tab' \in [Tabs -> TabStates]
  <2>1. m.tab \in Tabs \union {Gone}
    BY Facts DEF Messages
  <2>2. CASE m.tab = Gone
    BY <2>2 DEF Shown, IInv, TypeOK
  <2>3. CASE m.tab # Gone
    <3>1. m.tab \in Tabs /\ tab[m.tab] \in TabStates
      BY <2>1, <2>3, TabTyped
    <3>2. [tab[m.tab] EXCEPT !.status = status] \in TabStates
      BY <3>1 DEF TabStates
    <3>3. tab' = [tab EXCEPT ![m.tab] = [tab[m.tab] EXCEPT !.status = status]]
      BY <2>3, <3>1 DEF Shown, IInv, TypeOK
    <3> QED BY <3>1, <3>2, <3>3 DEF IInv, TypeOK
  <2> QED BY <2>2, <2>3
<1>2. ASSUME NEW u \in Tabs
      PROVE  /\ tab'[u].cells = tab[u].cells /\ tab'[u].timer = tab[u].timer
             /\ tab'[u].active = tab[u].active /\ tab'[u].rows = tab[u].rows
  <2>1. tab[u] \in TabStates /\ tab \in [Tabs -> TabStates]
    BY TabTyped DEF IInv, TypeOK
  <2> QED BY <2>1 DEF Shown, TabStates
<1>3. ASSUME NEW u \in Tabs PROVE TabOK(tab'[u], sent'[u], passed'[u], acts')
  <2>1. sent'[u] = sent[u] /\ passed'[u] = passed[u] /\ acts' = acts
    OBVIOUS
  <2>2. TabOK(tab[u], sent[u], passed[u], acts)
    BY TabTyped
  <2> QED BY <1>2, <2>1, <2>2 DEF TabOK
<1>4. TypeOK'
  BY <1>1, Facts DEF IInv, TypeOK
<1> QED BY <1>3, <1>4, Facts DEF IInv

LEMMA NetworkKeeps ==
  ASSUME IInv, NEW m \in wire, HandlePatch(m) \/ LosePatch(m) PROVE IInv'
<1>1. /\ m.cell \in Cells /\ m.content \in Contents /\ MessageOK(m, acts)
      /\ stored \in [Cells -> Contents] /\ PlanOK(stored, acts)
  BY Facts DEF Messages
<1>2. ASSUME Upsert(m.cell, m.content)
      PROVE  stored' \in [Cells -> Contents] /\ PlanOK(stored', acts)
  BY <1>1, <1>2, CellKinds DEF Upsert, MessageOK, PlanOK
<1>3. CASE HandlePatch(m)
  <2>1. /\ wire' = wire \ {m} /\ Shown(m, "saved")
        /\ UNCHANGED <<orphans, page, sent, passed, acts>>
        /\ stored' = stored \/ Upsert(m.cell, m.content)
    BY <1>3 DEF HandlePatch
  <2> QED BY <1>1, <1>2, <2>1, AnswerStep
<1>4. CASE LosePatch(m)
  <2>1. /\ wire' = wire \ {m} /\ Shown(m, "local")
        /\ UNCHANGED <<orphans, stored, page, sent, passed, acts>>
    BY <1>4 DEF LosePatch
  <2> QED BY <1>1, <2>1, AnswerStep
<1> QED BY <1>3, <1>4

LEMMA SeedKeeps == ASSUME IInv, RunSeed PROVE IInv'
<1>1. UNCHANGED <<tab, orphans, wire, page, sent, passed>> /\ Act
      /\ stored' = [c \in Cells |-> Seed(c)]
  BY DEF RunSeed
<1>2. /\ acts' \in 0..MaxActs /\ acts <= acts' /\ acts' \in Nat /\ acts \in Nat
      /\ \A m \in wire : MessageOK(m, acts')
      /\ \A o \in orphans : MessageOK(o, acts')
  BY <1>1, ActTyped, QuietStep, Facts
<1>3. stored' \in [Cells -> Contents] /\ PlanOK(stored', acts') /\ PlanOK(page, acts')
  BY <1>1, <1>2, SeedTyped, Facts, Later
<1>4. \A t \in Tabs : TabOK(tab[t], sent[t], passed[t], acts')
  BY <1>2, TabTyped, Later
<1>5. TypeOK'
  BY <1>1, <1>2, <1>3 DEF IInv, TypeOK
<1> QED BY <1>1, <1>2, <1>3, <1>4, <1>5 DEF IInv

LEMMA RenderKeeps == ASSUME IInv, Render PROVE IInv'
  BY Facts DEF Render, IInv, TypeOK

LEMMA NextKeepsIInv == IInv /\ [Next]_vars => IInv'
<1> SUFFICES ASSUME IInv, [Next]_vars PROVE IInv'
  OBVIOUS
<1>1. CASE \E t \in Tabs, c \in Cells : Load(t, c) \/ Navigate(t, c) \/ Select(t, c)
  BY <1>1, MountKeeps, SelectKeeps
<1>2. CASE \E t \in Tabs : TypeContent(t) \/ TypeRows(t) \/ Copy(t)
  BY <1>2, EditKeeps
<1>3. CASE \E t \in Tabs : Focus(t) \/ Blur(t) \/ TimerFires(t)
  BY <1>3, FocusKeeps, BlurKeeps, TimerKeeps
<1>4. CASE \E m \in wire : HandlePatch(m) \/ LosePatch(m)
  BY <1>4, NetworkKeeps
<1>5. CASE RunSeed \/ Render
  BY <1>5, SeedKeeps, RenderKeeps
<1>6. CASE UNCHANGED vars
  BY <1>6 DEF vars, IInv, TypeOK
<1>7. CASE \E o \in orphans : OrphanFires(o)
  BY <1>7, OrphanKeeps
<1> QED BY <1>1, <1>2, <1>3, <1>4, <1>5, <1>6, <1>7 DEF Next

THEOREM Inductive == Spec => []IInv
  BY InitIInv, NextKeepsIInv, PTL DEF Spec

(* Every variable is of its kind.                                          *)
THEOREM TypeCorrect == Spec => []TypeOK
<1>1. IInv => TypeOK
  BY DEF IInv
<1> QED BY <1>1, Inductive, PTL

(* However many tabs, timers and PATCHes there are, timers of editors that *)
(* are gone included, a plain cell is only ever stored with content that   *)
(* was made for it.                                                        *)
THEOREM ContentStays == Spec => []ContentStaysInItsCell
<1>1. IInv => ContentStaysInItsCell
  BY DEF IInv, PlanOK, ContentStaysInItsCell
<1> QED BY <1>1, Inductive, PTL

(* However the editor is left and mounted again, its timer holds what its  *)
(* cell shows, and nothing newer of that cell was loaded or sent by it.    *)
THEOREM TimersCurrent == Spec => []TimerIsCurrent
<1>1. IInv => TimerIsCurrent
  BY DEF IInv, TabOK, Made, TimerIsCurrent
<1> QED BY <1>1, Inductive, PTL

(* What is shown was sent or will be, but for the cells that an edit or a  *)
(* blur of another cell has passed over.                                   *)
THEOREM ShownSent == Spec => []ShownIsSent
<1>1. IInv => ShownIsSent
  BY DEF IInv, TabOK, ShownIsSent
<1> QED BY <1>1, Inductive, PTL
=============================================================================
