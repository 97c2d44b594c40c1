--------------------------- MODULE QuestionScreen ---------------------------
(***************************************************************************)
(* The screen of one coached question (app/q/[id]/QuestionShell) and the   *)
(* coach's trail in ai_interactions (app/api/interactions,                 *)
(* lib/interactions).  The rules of the program:                           *)
(*   - a required question without an answer, or without its confidence    *)
(*     ring, blocks Continue; the way to /review is never blocked;         *)
(*   - the coach nudges, it never gates: a second press of Continue on the *)
(*     text it just judged moves on;                                       *)
(*   - three nudges, then it steps aside.                                  *)
(*                                                                         *)
(* Every visit mounts a new screen with an empty form and a new count of   *)
(* nudges.  The set of retired coaches lives in the browser's module scope:*)
(* it survives client navigation and is gone after a full page load.       *)
(* Saves, the log of a nudge and the log of a requested example are        *)
(* separate requests; nothing orders them.                                 *)
(***************************************************************************)
EXTENDS Naturals, Sequences, FiniteSets

CONSTANTS Texts,      \* answers the validator fails
          Good,       \* an answer it passes
          Unsure,     \* "not sure yet": an answer with nothing to store
          Blank,      \* the empty form
          MaxNudges,  \* the coach's ceiling
          MaxVisits,  \* bound: mounts of the screen
          MaxEdits    \* bound: changes of the form

ASSUME ScreenAssumption ==
  /\ Good \notin Texts /\ Unsure \notin Texts /\ Blank \notin Texts
  /\ Good # Unsure /\ Good # Blank /\ Unsure # Blank
  /\ MaxNudges \in Nat \ {0} /\ MaxVisits \in Nat \ {0} /\ MaxEdits \in Nat

VARIABLES
  page,     \* what is on screen: visit 0 is any other page
  form,     \* the text and the ring of the mounted screen
  coach,    \* nudges shown, the card in the slot, the value last judged
  retired,  \* retiredCoach has this question
  over,     \* history: how many cards there were when the last of a visit was
            \* dismissed; 0 if none was since the page was loaded
  visit,    \* how many visits there were
  hook,     \* the autosave hook of each visit
  wire,     \* requests on their way
  rows,     \* the question's coach rows in ai_interactions, oldest first
  nudges,   \* history: every card shown, and what the respondent did after it
  presses,  \* history: presses of Continue on this text that did not move on
  edits

screen == <<page, form, coach, retired, over, visit>>
vars   == <<screen, hook, wire, rows, nudges, presses, edits>>

Answers == Texts \union {Good, Unsure, Blank}
Forms   == [text : Answers, ring : BOOLEAN]
Empty   == [text |-> Blank, ring |-> FALSE]
NoCard  == 0
Closed  == MaxNudges + 1

(* storableAnswerValue and the shape guard of the autosave hook.  A hook   *)
(* has nothing it could store, or its form is stored, or is yet to be sent.*)
Storable(f) == f.text \in Texts \union {Good}

(* answered, canAdvance and the confidence gate                            *)
CanContinue == form.text # Blank /\ form.ring

NewHook == [has |-> "nothing", busy |-> FALSE]
Fresh   == [shown |-> 0, card |-> NoCard, judged |-> Blank]

Init ==
  /\ page = [visit |-> 0, review |-> FALSE, level |-> "L2"]
  /\ form = Empty /\ coach = Fresh /\ retired = FALSE /\ over = 0 /\ visit = 0
  /\ hook = [v \in 1..MaxVisits |-> NewHook]
  /\ wire = {} /\ rows = <<>> /\ nudges = <<>> /\ presses = 0 /\ edits = 0

(* The question page is rendered: from the previous question, from Back, or*)
(* from an edit link of the review screen (?from=review).                  *)
\* Mutant of Open: what the coach knows of the question is the screen's own.
MutOpen(review, level) ==
  /\ page.visit = 0 /\ visit < MaxVisits
  /\ visit' = visit + 1
  /\ page' = [visit |-> visit + 1, review |-> review, level |-> level]
  /\ form' = Empty /\ coach' = Fresh /\ presses' = 0 /\ retired' = FALSE
  /\ UNCHANGED <<over, hook, wire, rows, nudges, edits>>

Open(review, level) ==
  /\ page.visit = 0 /\ visit < MaxVisits
  /\ visit' = visit + 1
  /\ page' = [visit |-> visit + 1, review |-> review, level |-> level]
  /\ form' = Empty /\ coach' = Fresh /\ presses' = 0
  /\ UNCHANGED <<retired, over, hook, wire, rows, nudges, edits>>

(* The inputs and the confidence ring; the latest card is left standing.   *)
Change(f) ==
  /\ page.visit > 0 /\ edits < MaxEdits /\ f # form
  /\ form' = f /\ edits' = edits + 1
  /\ hook' = [hook EXCEPT ![page.visit].has = IF Storable(f) THEN "unsent" ELSE "nothing"]
  /\ presses' = IF f.text = form.text THEN presses ELSE 0
  /\ nudges' = [n \in DOMAIN nudges |-> [nudges[n] EXCEPT !.edited = TRUE]]
  /\ UNCHANGED <<page, coach, retired, over, visit, wire, rows>>

Save(v) == [kind |-> "save", visit |-> v]

(* router.push: the screen is gone, its hook goes on saving.               *)
GoOn ==
  /\ page' = [page EXCEPT !.visit = 0]
  /\ form' = Empty /\ coach' = Fresh /\ presses' = 0
  /\ UNCHANGED <<visit, hook, rows, edits>>

Nudged(k) == [kind |-> "log", nudge |-> k, attempt |-> nudges'[k].attempt]

(* handleContinue with the coach at work: the four ways on and the two     *)
(* refusals of an answer it has not judged yet.                            *)
Coached == page.level # "L3" /\ ~retired /\ Storable(form)
\* Mutant of Judged: the last judged value is forgotten.
MutJudged == FALSE
Judged  == form.text = coach.judged

AtCeiling == coach.shown >= MaxNudges

(* The card that stands is dismissed: the last one for good.               *)
Dismissed ==
  /\ retired' = (retired \/ AtCeiling)
  /\ over' = IF AtCeiling THEN Len(nudges) ELSE over

Pass ==
  /\ ~Coached \/ Judged \/ form.text = Good
  /\ IF Coached /\ Judged THEN Dismissed ELSE UNCHANGED <<retired, over>>
  /\ GoOn /\ UNCHANGED <<wire, nudges>>

Nudge ==
  /\ Coached /\ ~Judged /\ form.text # Good /\ ~AtCeiling
  /\ coach' = [shown |-> coach.shown + 1, card |-> coach.shown + 1,
               judged |-> form.text]
  /\ nudges' = Append(nudges, [visit |-> page.visit, attempt |-> coach.shown + 1,
                               edited |-> FALSE, asked |-> FALSE])
  /\ wire' = wire \union {Nudged(Len(nudges'))}
  /\ presses' = presses + 1
  /\ UNCHANGED <<page, form, retired, over, visit, hook, rows, edits>>

StepAside ==
  /\ Coached /\ ~Judged /\ form.text # Good /\ AtCeiling
  /\ coach' = [coach EXCEPT !.card = Closed, !.judged = form.text]
  /\ Dismissed /\ presses' = presses + 1
  /\ UNCHANGED <<page, form, visit, hook, wire, rows, nudges, edits>>

Continue ==
  /\ page.visit > 0 /\ ~page.review /\ CanContinue
  /\ Pass \/ Nudge \/ StepAside

(* The buttons of the card. Only a nudge has them.                         *)
OnCard == page.visit > 0 /\ coach.card \in 1..MaxNudges

\* Mutant of Revise: hiding the card starts the count again.
MutRevise ==
  /\ OnCard
  /\ coach' = [coach EXCEPT !.shown = 0, !.card = NoCard]
  /\ UNCHANGED <<page, form, retired, over, visit, hook, wire, rows, nudges, presses, edits>>

Revise ==
  /\ OnCard /\ Dismissed
  /\ coach' = [coach EXCEPT !.card = IF AtCeiling THEN Closed ELSE NoCard]
  /\ UNCHANGED <<page, form, visit, hook, wire, rows, nudges, presses, edits>>

KeepAsIs ==
  /\ OnCard /\ Dismissed
  /\ GoOn /\ UNCHANGED <<wire, nudges>>

ShowExample ==
  /\ OnCard /\ ~nudges[Len(nudges)].asked
  /\ nudges' = [nudges EXCEPT ![Len(nudges)].asked = TRUE]
  /\ wire' = wire \union {[kind |-> "example", nudge |-> Len(nudges)]}
  /\ UNCHANGED <<screen, hook, rows, presses, edits>>

(* handleReview, on the last question and on a visit from the review       *)
GoToReview ==
  /\ page.visit > 0 /\ page.review
  /\ GoOn /\ UNCHANGED <<retired, over, wire, nudges>>

(* The Back link, an edit link or a reload: a full page load. What the     *)
(* hooks have not sent goes out once, with keepalive, or is lost.          *)
LoadPage ==
  /\ page' = [page EXCEPT !.visit = 0]
  /\ form' = Empty /\ coach' = Fresh /\ presses' = 0
  /\ retired' = FALSE /\ over' = 0
  /\ hook' = [v \in 1..MaxVisits |-> NewHook]
  /\ \E sent \in SUBSET {v \in 1..visit : hook[v].has = "unsent"} :
       wire' = wire \union {Save(v) : v \in sent}
  /\ UNCHANGED <<visit, rows, nudges, edits>>

(* the debounce, the retry or the flush of a hook: one save at a time      *)
Send(v) ==
  /\ hook[v] = [has |-> "unsent", busy |-> FALSE]
  /\ hook' = [hook EXCEPT ![v] = [has |-> "sent", busy |-> TRUE]]
  /\ wire' = wire \union {Save(v)}
  /\ UNCHANGED <<screen, rows, nudges, presses, edits>>

Settled(m, ok) ==
  hook' = IF m.kind # "save" \/ ~hook[m.visit].busy THEN hook
          ELSE [hook EXCEPT ![m.visit].busy = FALSE,
                            ![m.visit].has = IF ~ok /\ @ = "sent" THEN "unsent" ELSE @]

(* markCoachAnswerChanged, logCoachInteraction, setExampleShown            *)
SaveMarks(r)  == [i \in DOMAIN r |-> [r[i] EXCEPT !.changed = TRUE]]
Logged(r, m)  == Append(r, [nudge |-> m.nudge, attempt |-> m.attempt,
                            example |-> FALSE, changed |-> FALSE])
\* Mutant of Exampled: every coach row of the question is marked.
MutExampled(r) == [i \in DOMAIN r |-> [r[i] EXCEPT !.example = TRUE]]
Exampled(r)   == IF r = <<>> THEN r ELSE [r EXCEPT ![Len(r)].example = TRUE]

Handle(m) ==
  /\ rows' = CASE m.kind = "save"    -> SaveMarks(rows)
               [] m.kind = "log"     -> Logged(rows, m)
               [] m.kind = "example" -> Exampled(rows)
  /\ wire' = wire \ {m} /\ Settled(m, TRUE)
  /\ UNCHANGED <<screen, nudges, presses, edits>>

Lose(m) ==
  /\ wire' = wire \ {m} /\ Settled(m, FALSE)
  /\ UNCHANGED <<screen, rows, nudges, presses, edits>>

Next ==
  \/ \E r \in BOOLEAN, l \in {"L2", "L3"} : Open(r, l)
  \/ \E f \in Forms : Change(f)
  \/ Continue \/ Revise \/ KeepAsIs \/ ShowExample \/ GoToReview \/ LoadPage
  \/ \E v \in 1..MaxVisits : Send(v)
  \/ \E m \in wire : Handle(m) \/ Lose(m)

Spec == Init /\ [][Next]_vars

-----------------------------------------------------------------------------
Requests ==
  [kind : {"save"}, visit : 1..MaxVisits]
    \union [kind : {"log"}, nudge : Nat, attempt : 1..MaxNudges]
    \union [kind : {"example"}, nudge : Nat]
CoachRows == [nudge : Nat, attempt : 1..MaxNudges, example : BOOLEAN, changed : BOOLEAN]
Cards     == [visit : 1..MaxVisits, attempt : 1..MaxNudges, edited : BOOLEAN, asked : BOOLEAN]

(* Every variable is of its kind.                                          *)
TypeOK ==
  /\ page \in [visit : 0..MaxVisits, review : BOOLEAN, level : {"L2", "L3"}]
  /\ form \in Forms
  /\ coach \in [shown : 0..MaxNudges, card : 0..Closed, judged : Answers]
  /\ retired \in BOOLEAN /\ over \in Nat /\ visit \in 0..MaxVisits
  /\ hook \in [1..MaxVisits -> [has : {"nothing", "unsent", "sent"}, busy : BOOLEAN]]
  /\ wire \in SUBSET Requests
  /\ rows \in Seq(CoachRows)
  /\ nudges \in Seq(Cards)
  /\ presses \in Nat /\ edits \in 0..MaxEdits

(* The coach nudges, it never gates: a Continue that is not blocked is held *)
(* up at most once for one and the same text, with a card, a closing line  *)
(* or a revision in between.                                               *)
NeverGates == presses <= 1

(* The counter on the card is honest and ends: the nudges of one visit are *)
(* numbered from 1 without a gap, and there are at most MaxNudges.         *)
NudgesPerVisit ==
  \A n \in DOMAIN nudges :
    /\ nudges[n].attempt <= MaxNudges
    /\ IF nudges[n].attempt = 1
       THEN \A k \in 1..(n - 1) : nudges[k].visit < nudges[n].visit
       ELSE n > 1 /\ nudges[n - 1].visit = nudges[n].visit
                  /\ nudges[n - 1].attempt = nudges[n].attempt - 1

(* The last card of a visit is the last card: once it was dismissed, by    *)
(* "revise", "keep as is" or Continue, or has given way to the closing     *)
(* line, no later visit shows another one, until a full page load empties  *)
(* the module's set (comment on retiredCoach: "navigating away and back    *)
(* must not resurrect a coach that already retired").                      *)
RetiredIsSilent == over # 0 => Len(nudges) = over

(* However late a request lands, an example is marked on no more rows than *)
(* there were nudges whose example was asked for.                          *)
ExamplesCounted ==
  Cardinality({i \in DOMAIN rows : rows[i].example})
    <= Cardinality({n \in DOMAIN nudges : nudges[n].asked})

(* lib/interactions: answer_changed "flips to true when the respondent     *)
(* later edits the answer".                                                *)
FlaggedWasEdited ==
  \A i \in DOMAIN rows : rows[i].changed => nudges[rows[i].nudge].edited
=============================================================================
