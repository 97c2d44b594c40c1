------------------------ MODULE QuestionScreenProofs ------------------------
(***************************************************************************)
(* Proofs about QuestionScreen, for every number of texts, visits, edits   *)
(* and nudges.  The inductive invariant ties the coach of the mounted      *)
(* screen to the history: a press that was held up has left the text       *)
(* judged, so that the next one passes; the last card of this visit bears  *)
(* the coach's count.  Requests are counted besides: the examples marked   *)
(* and the marks on their way are together no more than the examples asked *)
(* for, whatever order they arrive in and however many are lost.           *)
(***************************************************************************)
EXTENDS QuestionScreen, FiniteSetTheorems, SequenceTheorems, TLAPS

PressesOK == presses <= 1 /\ (presses = 1 => form.text = coach.judged)

(* What the cards shown so far say of the visit at hand.                   *)
CountOK(ns) ==
  /\ \A n \in DOMAIN ns : ns[n].visit <= visit
  /\ page.visit \in {0, visit}
  /\ coach.shown = 0 =>
       (page.visit > 0 => \A n \in DOMAIN ns : ns[n].visit < page.visit)
  /\ coach.shown > 0 =>
       /\ page.visit > 0 /\ Len(ns) > 0
       /\ ns[Len(ns)].visit = page.visit
       /\ ns[Len(ns)].attempt = coach.shown
  /\ coach.card \in 1..MaxNudges => coach.shown > 0

Numbered(ns) ==
  \A n \in DOMAIN ns :
    IF ns[n].attempt = 1
    THEN \A k \in 1..(n - 1) : ns[k].visit < ns[n].visit
    ELSE n > 1 /\ ns[n - 1].visit = ns[n].visit
               /\ ns[n - 1].attempt = ns[n].attempt - 1

IInv == TypeOK /\ PressesOK /\ CountOK(nudges) /\ Numbered(nudges)

-----------------------------------------------------------------------------
(* Sequences whose elements change in a field.                             *)
LEMMA SameShape ==
  ASSUME NEW S, NEW s \in Seq(S), NEW f,
         f \in [DOMAIN s -> S]
  PROVE  f \in Seq(S) /\ Len(f) = Len(s) /\ DOMAIN f = DOMAIN s
<1>1. Len(s) \in Nat /\ DOMAIN s = 1..Len(s)
  BY LenProperties
<1>2. f \in [1..Len(s) -> S]
  BY <1>1
<1>3. f \in Seq(S)
  BY <1>1, <1>2, SeqDef
<1> QED BY <1>1, <1>2, <1>3

LEMMA CardsTyped ==
  ASSUME NEW ns \in Seq(Cards)
  PROVE  /\ Len(ns) \in Nat /\ DOMAIN ns = 1..Len(ns)
         /\ \A n \in DOMAIN ns : ns[n] \in Cards /\ ns[n].visit \in Nat
<1>1. Len(ns) \in Nat /\ DOMAIN ns = 1..Len(ns)
  BY LenProperties
<1>2. \A n \in DOMAIN ns : ns[n] \in Cards
  BY <1>1, ElementOfSeq
<1>3. \A card \in Cards : card.visit \in Nat
  BY ScreenAssumption DEF Cards
<1> QED BY <1>1, <1>2, <1>3

\* A change of the one field that nothing here depends on.
LEMMA EditedCard ==
  ASSUME NEW card \in Cards
  PROVE  /\ [card EXCEPT !.edited = TRUE] \in Cards
         /\ [card EXCEPT !.edited = TRUE].visit = card.visit
         /\ [card EXCEPT !.edited = TRUE].attempt = card.attempt
         /\ [card EXCEPT !.edited = TRUE].asked = card.asked
  BY DEF Cards

LEMMA AskedForCard ==
  ASSUME NEW card \in Cards
  PROVE  /\ [card EXCEPT !.asked = TRUE] \in Cards
         /\ [card EXCEPT !.asked = TRUE].visit = card.visit
         /\ [card EXCEPT !.asked = TRUE].attempt = card.attempt
         /\ [card EXCEPT !.asked = TRUE].asked = TRUE
  BY DEF Cards

CoachStates == [shown : 0..MaxNudges, card : 0..Closed, judged : Answers]
PageStates  == [visit : 0..MaxVisits, review : BOOLEAN, level : {"L2", "L3"}]

LEMMA ClosedCoach ==
  ASSUME NEW c \in CoachStates, NEW card \in {Closed, NoCard}, NEW judged \in Answers
  PROVE  LET new == [c EXCEPT !.card = card, !.judged = judged]
         IN  /\ new \in CoachStates /\ new.shown = c.shown /\ new.judged = judged
             /\ new.card \notin 1..MaxNudges
<1>1. card \in 0..Closed /\ card \notin 1..MaxNudges
  BY ScreenAssumption DEF Closed, NoCard
<1> QED BY <1>1 DEF CoachStates

LEMMA HiddenCoach ==
  ASSUME NEW c \in CoachStates, NEW card \in {Closed, NoCard}
  PROVE  LET new == [c EXCEPT !.card = card]
         IN  /\ new \in CoachStates /\ new.shown = c.shown /\ new.judged = c.judged
             /\ new.card \notin 1..MaxNudges
<1>1. card \in 0..Closed /\ card \notin 1..MaxNudges
  BY ScreenAssumption DEF Closed, NoCard
<1> QED BY <1>1 DEF CoachStates

LEMMA LeftPage ==
  ASSUME NEW p \in PageStates
  PROVE  [p EXCEPT !.visit = 0] \in PageStates /\ [p EXCEPT !.visit = 0].visit = 0
<1>1. 0 \in 0..MaxVisits
  BY ScreenAssumption
<1> QED BY <1>1 DEF PageStates

\* The same cards, but for what the respondent did after them.
SameCards(ns, ms) ==
  /\ Len(ms) = Len(ns) /\ DOMAIN ms = DOMAIN ns
  /\ \A n \in DOMAIN ns : ms[n].visit = ns[n].visit /\ ms[n].attempt = ns[n].attempt

LEMMA NumberedSame ==
  ASSUME NEW ns \in Seq(Cards), NEW ms, SameCards(ns, ms), Numbered(ns)
  PROVE  Numbered(ms)
<1>1. DOMAIN ns = 1..Len(ns) /\ Len(ns) \in Nat
  BY LenProperties
<1> SUFFICES ASSUME NEW n \in DOMAIN ns
             PROVE  IF ms[n].attempt = 1
                    THEN \A k \in 1..(n - 1) : ms[k].visit < ms[n].visit
                    ELSE n > 1 /\ ms[n - 1].visit = ms[n].visit
                               /\ ms[n - 1].attempt = ms[n].attempt - 1
  BY DEF Numbered, SameCards
<1>2. \A k \in 1..(n - 1) : k \in DOMAIN ns
  BY <1>1
<1>3. n > 1 => n - 1 \in DOMAIN ns
  BY <1>1
<1> QED BY <1>1, <1>2, <1>3 DEF Numbered, SameCards

LEMMA CountSame ==
  ASSUME NEW ns \in Seq(Cards), NEW ms, SameCards(ns, ms), CountOK(ns)
  PROVE  CountOK(ms)
<1>1. DOMAIN ns = 1..Len(ns) /\ Len(ns) \in Nat
  BY LenProperties
<1> QED BY <1>1 DEF CountOK, SameCards

-----------------------------------------------------------------------------
LEMMA FreshTyped ==
  /\ Empty \in Forms
  /\ Fresh \in [shown : 0..MaxNudges, card : 0..Closed, judged : Answers]
  BY ScreenAssumption DEF Empty, Forms, Answers, Fresh, NoCard, Closed

LEMMA InitIInv == Init => IInv
<1> SUFFICES ASSUME Init PROVE IInv
  OBVIOUS
<1>1. TypeOK
  <2>1. form \in Forms /\ coach \in CoachStates
    BY FreshTyped DEF Init, CoachStates
  <2>2. page \in PageStates
    BY ScreenAssumption DEF Init, PageStates
  <2>3. hook \in [1..MaxVisits -> [has : {"nothing", "unsent", "sent"}, busy : BOOLEAN]]
    BY DEF Init, NewHook
  <2>4. rows \in Seq(CoachRows) /\ nudges \in Seq(Cards)
    BY DEF Init
  <2>5. visit \in 0..MaxVisits /\ edits \in 0..MaxEdits
    BY ScreenAssumption DEF Init
  <2>6. retired \in BOOLEAN /\ over \in Nat /\ wire \in SUBSET Requests /\ presses \in Nat
    BY DEF Init
  <2> QED BY <2>1, <2>2, <2>3, <2>4, <2>5, <2>6 DEF TypeOK, CoachStates, PageStates
<1>2. PressesOK
  BY DEF Init, PressesOK
<1>3. CountOK(nudges)
  BY ScreenAssumption DEF Init, CountOK, Fresh, NoCard
<1>4. Numbered(nudges)
  BY DEF Init, Numbered
<1> QED BY <1>1, <1>2, <1>3, <1>4 DEF IInv

\* Any step that leaves the screen without a coach at work.
LEMMA FreshScreen ==
  ASSUME IInv, form' = Empty, coach' = Fresh, presses' = 0, UNCHANGED nudges,
         \/ page'.visit = 0 /\ UNCHANGED visit
         \/ visit' = visit + 1 /\ page'.visit = visit + 1
  PROVE  PressesOK' /\ CountOK(nudges)' /\ Numbered(nudges)'
<1>1. PressesOK'
  BY DEF PressesOK
<1>2. /\ nudges \in Seq(Cards) /\ visit \in Nat /\ coach'.shown = 0
      /\ coach'.card \notin 1..MaxNudges
  BY ScreenAssumption DEF IInv, TypeOK, Fresh, NoCard
<1>3. \A n \in DOMAIN nudges : nudges[n].visit \in Nat
  BY <1>2, CardsTyped
<1>4. CountOK(nudges)'
  BY <1>2, <1>3 DEF IInv, CountOK
<1>5. Numbered(nudges)'
  BY DEF IInv, Numbered
<1> QED BY <1>1, <1>4, <1>5

LEMMA OpenKeeps ==
  ASSUME IInv, NEW r \in BOOLEAN, NEW l \in {"L2", "L3"}, Open(r, l) PROVE IInv'
<1>1. /\ visit' = visit + 1 /\ visit < MaxVisits
      /\ page' = [visit |-> visit + 1, review |-> r, level |-> l]
      /\ form' = Empty /\ coach' = Fresh /\ presses' = 0
      /\ UNCHANGED <<retired, over, hook, wire, rows, nudges, edits>>
  BY DEF Open
<1>2. visit' \in 0..MaxVisits
  BY <1>1, ScreenAssumption DEF IInv, TypeOK
<1>3. TypeOK'
  BY <1>1, <1>2, FreshTyped DEF IInv, TypeOK
<1> QED BY <1>1, <1>3, FreshScreen DEF IInv

LEMMA ChangeKeeps ==
  ASSUME IInv, NEW f \in Forms, Change(f) PROVE IInv'
<1> DEFINE ns == [n \in DOMAIN nudges |-> [nudges[n] EXCEPT !.edited = TRUE]]
<1>1. /\ form' = f /\ edits' = edits + 1 /\ edits < MaxEdits
      /\ page.visit > 0
      /\ hook' = [hook EXCEPT ![page.visit].has = IF Storable(f) THEN "unsent" ELSE "nothing"]
      /\ presses' = IF f.text = form.text THEN presses ELSE 0
      /\ nudges' = ns
      /\ UNCHANGED <<page, coach, retired, over, visit, wire, rows>>
  BY DEF Change
<1>2. nudges \in Seq(Cards)
  BY DEF IInv, TypeOK
<1>3. /\ ns \in [DOMAIN nudges -> Cards]
      /\ \A n \in DOMAIN nudges : ns[n].visit = nudges[n].visit
                                  /\ ns[n].attempt = nudges[n].attempt
  BY <1>2, CardsTyped, EditedCard
<1> HIDE DEF ns
<1>4. ns \in Seq(Cards) /\ SameCards(nudges, ns)
  BY <1>2, <1>3, SameShape DEF SameCards
<1>5. hook' \in [1..MaxVisits -> [has : {"nothing", "unsent", "sent"}, busy : BOOLEAN]]
  <2>1. hook \in [1..MaxVisits -> [has : {"nothing", "unsent", "sent"}, busy : BOOLEAN]]
    BY DEF IInv, TypeOK
  <2>2. PICK h \in {"nothing", "unsent"} : hook' = [hook EXCEPT ![page.visit].has = h]
    <3>1. CASE Storable(f)
      BY <1>1, <3>1
    <3>2. CASE ~Storable(f)
      BY <1>1, <3>2
    <3> QED BY <3>1, <3>2
  <2> QED BY <2>1, <2>2
<1>6. edits' \in 0..MaxEdits
  BY <1>1, ScreenAssumption DEF IInv, TypeOK
<1>7. TypeOK'
  BY <1>1, <1>4, <1>5, <1>6 DEF IInv, TypeOK
<1>8. PressesOK'
  BY <1>1 DEF IInv, PressesOK
<1>9. CountOK(ns) /\ Numbered(ns)
  BY <1>2, <1>4, CountSame, NumberedSame DEF IInv
<1>10. CountOK(nudges)' /\ Numbered(nudges)'
  BY <1>1, <1>9 DEF CountOK, Numbered
<1> QED BY <1>7, <1>8, <1>10 DEF IInv

LEMMA DismissedTyped ==
  ASSUME IInv, Dismissed \/ UNCHANGED <<retired, over>>
  PROVE  retired' \in BOOLEAN /\ over' \in Nat
<1>1. nudges \in Seq(Cards) /\ retired \in BOOLEAN /\ over \in Nat
  BY DEF IInv, TypeOK
<1>2. Len(nudges) \in Nat
  BY <1>1, LenProperties
<1> QED BY <1>1, <1>2 DEF Dismissed, AtCeiling

LEMMA GoOnKeeps ==
  ASSUME IInv, GoOn, retired' \in BOOLEAN, over' \in Nat, UNCHANGED <<wire, nudges>> PROVE IInv'
<1>1. /\ page' = [page EXCEPT !.visit = 0]
      /\ form' = Empty /\ coach' = Fresh /\ presses' = 0
      /\ UNCHANGED <<visit, hook, rows, edits>>
  BY DEF GoOn
<1>2. page' \in PageStates /\ page'.visit = 0
  <2>1. page \in PageStates
    BY DEF IInv, TypeOK, PageStates
  <2> QED BY <1>1, <2>1, LeftPage
<1>3. TypeOK'
  BY <1>1, <1>2, FreshTyped DEF IInv, TypeOK, PageStates
<1> QED BY <1>1, <1>2, <1>3, FreshScreen DEF IInv

-----------------------------------------------------------------------------
\* A press that is held up finds none before it on this text.
LEMMA HeldUp ==
  ASSUME IInv, ~Judged, presses' = presses + 1, UNCHANGED form,
         coach'.judged = form.text
  PROVE  PressesOK'
  BY DEF IInv, TypeOK, PressesOK, Judged

LEMMA NudgeKeeps ==
  ASSUME IInv, page.visit > 0, Nudge PROVE IInv'
<1> DEFINE card == [visit |-> page.visit, attempt |-> coach.shown + 1,
                    edited |-> FALSE, asked |-> FALSE]
<1>1. /\ coach' = [shown |-> coach.shown + 1, card |-> coach.shown + 1,
                   judged |-> form.text]
      /\ nudges' = Append(nudges, card)
      /\ wire' = wire \union {Nudged(Len(nudges'))}
      /\ presses' = presses + 1
      /\ ~Judged /\ ~AtCeiling
      /\ UNCHANGED <<page, form, retired, over, visit, hook, rows, edits>>
  BY DEF Nudge
<1>2. /\ nudges \in Seq(Cards) /\ Len(nudges) \in Nat /\ DOMAIN nudges = 1..Len(nudges)
      /\ page.visit \in 1..MaxVisits /\ coach.shown \in 0..MaxNudges
      /\ coach.shown + 1 \in 1..MaxNudges
  BY <1>1, LenProperties, ScreenAssumption DEF IInv, TypeOK, AtCeiling
<1>3. card \in Cards
  BY <1>2 DEF Cards
<1>4. /\ card.visit = page.visit /\ card.attempt = coach.shown + 1
  OBVIOUS
<1> HIDE DEF card
<1>5. /\ nudges' \in Seq(Cards) /\ Len(nudges') = Len(nudges) + 1
      /\ DOMAIN nudges' = 1..(Len(nudges) + 1)
      /\ \A n \in DOMAIN nudges : nudges'[n] = nudges[n]
      /\ nudges'[Len(nudges) + 1] = card
  BY <1>1, <1>2, <1>3
<1>6. Nudged(Len(nudges')) \in Requests
  BY <1>2, <1>4, <1>5 DEF Nudged, Requests
<1>7. /\ coach' \in [shown : 0..MaxNudges, card : 0..Closed, judged : Answers]
      /\ coach'.shown = coach.shown + 1 /\ coach'.judged = form.text
  BY <1>1, <1>2, ScreenAssumption DEF IInv, TypeOK, Closed, Forms
<1>8. TypeOK'
  BY <1>1, <1>5, <1>6, <1>7 DEF IInv, TypeOK
<1>9. PressesOK'
  BY <1>1, <1>7, HeldUp
<1>10. CountOK(nudges)'
  <2>1. \A n \in DOMAIN nudges' : nudges'[n].visit <= visit'
    BY <1>1, <1>2, <1>4, <1>5 DEF IInv, TypeOK, CountOK
  <2> QED BY <1>1, <1>2, <1>4, <1>5, <1>7, <2>1 DEF IInv, CountOK
<1>11. Numbered(nudges')
  <2> SUFFICES ASSUME NEW n \in DOMAIN nudges'
               PROVE  IF nudges'[n].attempt = 1
                      THEN \A k \in 1..(n - 1) : nudges'[k].visit < nudges'[n].visit
                      ELSE n > 1 /\ nudges'[n - 1].visit = nudges'[n].visit
                                 /\ nudges'[n - 1].attempt = nudges'[n].attempt - 1
    BY DEF Numbered
  <2>1. CASE n \in DOMAIN nudges
    <3>1. \A k \in 1..n : k \in DOMAIN nudges /\ nudges'[k] = nudges[k]
      BY <1>2, <1>5, <2>1
    <3>2. n > 1 => n - 1 \in 1..n
      BY <1>2, <2>1
    <3>3. \A k \in 1..(n - 1) : k \in 1..n
      BY <1>2, <2>1
    <3>4. n \in 1..n
      BY <1>2, <2>1
    <3> QED BY <2>1, <3>1, <3>2, <3>3, <3>4 DEF IInv, Numbered
  <2>2. CASE n = Len(nudges) + 1
    <3>1. CASE coach.shown = 0
      BY <1>2, <1>4, <1>5, <2>2, <3>1 DEF IInv, CountOK
    <3>2. CASE coach.shown > 0
      <4>1. /\ Len(nudges) > 0 /\ Len(nudges) \in DOMAIN nudges
            /\ nudges[Len(nudges)].visit = page.visit
            /\ nudges[Len(nudges)].attempt = coach.shown
        BY <1>2, <3>2 DEF IInv, CountOK
      <4>2. n - 1 = Len(nudges) /\ n > 1 /\ nudges'[n] = card
        BY <1>2, <1>5, <2>2, <4>1
      <4>3. /\ nudges'[n - 1] = nudges[Len(nudges)]
            /\ card.attempt # 1 /\ card.attempt - 1 = coach.shown
        BY <1>2, <1>4, <1>5, <3>2, <4>1, <4>2
      <4> QED BY <1>4, <4>1, <4>2, <4>3
    <3> QED BY <1>2, <3>1, <3>2
  <2> QED BY <1>2, <1>5, <2>1, <2>2
<1>12. Numbered(nudges)'
  BY <1>11 DEF Numbered
<1> QED BY <1>8, <1>9, <1>10, <1>12 DEF IInv

LEMMA StepAsideKeeps ==
  ASSUME IInv, StepAside PROVE IInv'
<1>1. /\ coach' = [coach EXCEPT !.card = Closed, !.judged = form.text]
      /\ retired' \in BOOLEAN /\ over' \in Nat
      /\ presses' = presses + 1 /\ ~Judged
      /\ UNCHANGED <<page, form, visit, hook, wire, rows, nudges, edits>>
  BY DismissedTyped DEF StepAside
<1>2. /\ coach' \in CoachStates
      /\ coach'.shown = coach.shown /\ coach'.judged = form.text
      /\ coach'.card \notin 1..MaxNudges
  <2>1. coach \in CoachStates /\ form.text \in Answers
    BY DEF IInv, TypeOK, CoachStates, Forms
  <2> QED BY <1>1, <2>1, ClosedCoach
<1>3. TypeOK'
  BY <1>1, <1>2 DEF IInv, TypeOK, CoachStates
<1>4. PressesOK'
  BY <1>1, <1>2, HeldUp
<1>5. CountOK(nudges)' /\ Numbered(nudges)'
  BY <1>1, <1>2 DEF IInv, CountOK, Numbered
<1> QED BY <1>3, <1>4, <1>5 DEF IInv

LEMMA ContinueKeeps == ASSUME IInv, Continue PROVE IInv'
<1>1. CASE Pass
  BY <1>1, DismissedTyped, GoOnKeeps DEF Pass
<1>2. CASE Nudge
  BY <1>2, NudgeKeeps DEF Continue
<1>3. CASE StepAside
  BY <1>3, StepAsideKeeps
<1> QED BY <1>1, <1>2, <1>3 DEF Continue

LEMMA ReviseKeeps == ASSUME IInv, Revise PROVE IInv'
<1>1. /\ Dismissed
      /\ coach' = [coach EXCEPT !.card = IF AtCeiling THEN Closed ELSE NoCard]
      /\ UNCHANGED <<page, form, visit, hook, wire, rows, nudges, presses, edits>>
  BY DEF Revise
<1>2. /\ coach' \in CoachStates
      /\ coach'.shown = coach.shown /\ coach'.judged = coach.judged
      /\ coach'.card \notin 1..MaxNudges
  <2>1. coach \in CoachStates
    BY DEF IInv, TypeOK, CoachStates
  <2> QED BY <1>1, <2>1, HiddenCoach
<1>3. retired' \in BOOLEAN /\ over' \in Nat
  BY <1>1, DismissedTyped
<1>4. TypeOK'
  BY <1>1, <1>2, <1>3 DEF IInv, TypeOK, CoachStates
<1>5. PressesOK' /\ CountOK(nudges)' /\ Numbered(nudges)'
  BY <1>1, <1>2 DEF IInv, PressesOK, CountOK, Numbered
<1> QED BY <1>4, <1>5 DEF IInv

LEMMA LeaveKeeps == ASSUME IInv, KeepAsIs \/ GoToReview PROVE IInv'
<1>1. retired' \in BOOLEAN /\ over' \in Nat
  BY DismissedTyped DEF KeepAsIs, GoToReview
<1> QED BY <1>1, GoOnKeeps DEF KeepAsIs, GoToReview

LEMMA AskedCard ==
  ASSUME IInv, ShowExample
  PROVE  /\ nudges \in Seq(Cards) /\ Len(nudges) \in DOMAIN nudges
         /\ nudges' \in Seq(Cards) /\ SameCards(nudges, nudges')
         /\ \A n \in DOMAIN nudges :
              nudges'[n].asked = (nudges[n].asked \/ n = Len(nudges))
<1>1. nudges \in Seq(Cards) /\ Len(nudges) \in Nat /\ DOMAIN nudges = 1..Len(nudges)
  BY LenProperties DEF IInv, TypeOK
<1>2. nudges' = [nudges EXCEPT ![Len(nudges)].asked = TRUE]
  BY DEF ShowExample
<1>3. nudges' \in [DOMAIN nudges -> Cards]
  BY <1>1, <1>2, CardsTyped, AskedForCard
<1>4. nudges' \in Seq(Cards) /\ Len(nudges') = Len(nudges) /\ DOMAIN nudges' = DOMAIN nudges
  BY <1>1, <1>3, SameShape
<1>5. \A n \in DOMAIN nudges :
        /\ nudges[n] \in Cards
        /\ nudges'[n] = IF n = Len(nudges) THEN [nudges[n] EXCEPT !.asked = TRUE]
                                           ELSE nudges[n]
  BY <1>1, <1>2, CardsTyped
<1>6. \A n \in DOMAIN nudges :
        /\ nudges'[n].visit = nudges[n].visit /\ nudges'[n].attempt = nudges[n].attempt
        /\ nudges'[n].asked = (nudges[n].asked \/ n = Len(nudges))
  <2> SUFFICES ASSUME NEW n \in DOMAIN nudges
               PROVE  /\ nudges'[n].visit = nudges[n].visit
                      /\ nudges'[n].attempt = nudges[n].attempt
                      /\ nudges'[n].asked = (nudges[n].asked \/ n = Len(nudges))
    OBVIOUS
  <2>1. nudges[n] \in Cards /\ nudges[n].asked \in BOOLEAN
    BY <1>5 DEF Cards
  <2>2. CASE n = Len(nudges)
    BY <1>5, <2>1, <2>2, AskedForCard
  <2>3. CASE n # Len(nudges)
    BY <1>5, <2>1, <2>3
  <2> QED BY <2>2, <2>3
<1>7. Len(nudges) \in DOMAIN nudges
  BY <1>1 DEF ShowExample, OnCard, IInv, TypeOK, CountOK
<1> QED BY <1>1, <1>4, <1>6, <1>7 DEF SameCards

LEMMA ExampleKeeps == ASSUME IInv, ShowExample PROVE IInv'
<1>1. /\ nudges \in Seq(Cards) /\ Len(nudges) \in Nat
      /\ nudges' \in Seq(Cards) /\ SameCards(nudges, nudges')
  BY AskedCard, CardsTyped
<1>2. /\ wire' = wire \union {[kind |-> "example", nudge |-> Len(nudges)]}
      /\ UNCHANGED <<page, form, coach, retired, over, visit, hook, rows, presses, edits>>
  BY DEF ShowExample, screen
<1>3. [kind |-> "example", nudge |-> Len(nudges)] \in Requests
  BY <1>1 DEF Requests
<1>4. TypeOK'
  BY <1>1, <1>2, <1>3 DEF IInv, TypeOK
<1>5. CountOK(nudges') /\ Numbered(nudges')
  BY <1>1, CountSame, NumberedSame DEF IInv
<1>6. PressesOK' /\ CountOK(nudges)' /\ Numbered(nudges)'
  BY <1>2, <1>5 DEF IInv, PressesOK, CountOK, Numbered
<1> QED BY <1>4, <1>6 DEF IInv

-----------------------------------------------------------------------------
(* The network and the server touch neither the screen nor the cards.      *)
HookStates == [has : {"nothing", "unsent", "sent"}, busy : BOOLEAN]

LEMMA SaveTyped ==
  ASSUME NEW v \in 1..MaxVisits PROVE Save(v) \in Requests
  BY DEF Save, Requests

LEMMA LoadPageKeeps == ASSUME IInv, LoadPage PROVE IInv'
<1>1. PICK sent \in SUBSET {v \in 1..visit : hook[v].has = "unsent"} :
        wire' = wire \union {Save(v) : v \in sent}
  BY DEF LoadPage
<1>2. /\ page' = [page EXCEPT !.visit = 0]
      /\ form' = Empty /\ coach' = Fresh /\ presses' = 0
      /\ retired' = FALSE /\ over' = 0
      /\ hook' = [v \in 1..MaxVisits |-> NewHook]
      /\ UNCHANGED <<visit, rows, nudges, edits>>
  BY DEF LoadPage
<1>3. page' \in PageStates /\ page'.visit = 0
  <2>1. page \in PageStates
    BY DEF IInv, TypeOK, PageStates
  <2> QED BY <1>2, <2>1, LeftPage
<1>4. wire' \in SUBSET Requests
  <2>1. visit \in 0..MaxVisits /\ wire \in SUBSET Requests
    BY DEF IInv, TypeOK
  <2>2. \A v \in sent : v \in 1..MaxVisits
    BY <2>1, ScreenAssumption
  <2> QED BY <1>1, <2>1, <2>2, SaveTyped
<1>5. hook' \in [1..MaxVisits -> HookStates]
  BY <1>2 DEF HookStates, NewHook
<1>6. TypeOK'
  BY <1>2, <1>3, <1>4, <1>5, FreshTyped DEF IInv, TypeOK, PageStates, HookStates
<1> QED BY <1>2, <1>3, <1>6, FreshScreen DEF IInv

\* What is enough for a step behind the screen.
LEMMA BehindKeeps ==
  ASSUME IInv, UNCHANGED <<screen, nudges, presses, edits>>,
         hook' \in [1..MaxVisits -> HookStates],
         wire' \in SUBSET Requests, rows' \in Seq(CoachRows)
  PROVE  IInv'
<1>1. UNCHANGED <<page, form, coach, retired, over, visit>>
  BY DEF screen
<1>2. TypeOK'
  BY <1>1 DEF IInv, TypeOK, HookStates
<1> QED BY <1>1, <1>2 DEF IInv, PressesOK, CountOK, Numbered

LEMMA SendKeeps == ASSUME IInv, NEW v \in 1..MaxVisits, Send(v) PROVE IInv'
<1>1. /\ hook' = [hook EXCEPT ![v] = [has |-> "sent", busy |-> TRUE]]
      /\ wire' = wire \union {Save(v)}
      /\ UNCHANGED <<screen, rows, nudges, presses, edits>>
  BY DEF Send
<1>2. hook' \in [1..MaxVisits -> HookStates]
  BY <1>1 DEF IInv, TypeOK, HookStates
<1>3. wire' \in SUBSET Requests /\ rows' \in Seq(CoachRows)
  BY <1>1, SaveTyped DEF IInv, TypeOK
<1> QED BY <1>1, <1>2, <1>3, BehindKeeps

LEMMA SettledTyped ==
  ASSUME hook \in [1..MaxVisits -> HookStates], NEW m \in Requests,
         NEW ok \in BOOLEAN, Settled(m, ok)
  PROVE  hook' \in [1..MaxVisits -> HookStates]
<1>1. CASE m.kind # "save" \/ ~hook[m.visit].busy
  BY <1>1 DEF Settled
<1>2. CASE ~(m.kind # "save" \/ ~hook[m.visit].busy)
  <2>1. hook' = [hook EXCEPT ![m.visit].busy = FALSE,
                   ![m.visit].has = IF ~ok /\ @ = "sent" THEN "unsent" ELSE @]
    BY <1>2 DEF Settled
  <2> QED BY <2>1 DEF HookStates
<1> QED BY <1>1, <1>2

LEMMA HandledRows ==
  ASSUME rows \in Seq(CoachRows), NEW m \in Requests, Handle(m)
  PROVE  rows' \in Seq(CoachRows)
<1>1. /\ Len(rows) \in Nat /\ DOMAIN rows = 1..Len(rows)
      /\ \A i \in DOMAIN rows : rows[i] \in CoachRows
  BY LenProperties, ElementOfSeq
<1>2. CASE m.kind = "save"
  <2>1. rows' = [i \in DOMAIN rows |-> [rows[i] EXCEPT !.changed = TRUE]]
    BY <1>2 DEF Handle, SaveMarks
  <2>2. \A row \in CoachRows : [row EXCEPT !.changed = TRUE] \in CoachRows
    BY DEF CoachRows
  <2>3. rows' \in [DOMAIN rows -> CoachRows]
    BY <1>1, <2>1, <2>2
  <2> QED BY <2>3, SameShape
<1>3. CASE m.kind = "log"
  <2>1. rows' = Append(rows, [nudge |-> m.nudge, attempt |-> m.attempt,
                              example |-> FALSE, changed |-> FALSE])
    BY <1>3 DEF Handle, Logged
  <2>2. m.nudge \in Nat /\ m.attempt \in 1..MaxNudges
    BY <1>3 DEF Requests
  <2>3. [nudge |-> m.nudge, attempt |-> m.attempt,
         example |-> FALSE, changed |-> FALSE] \in CoachRows
    BY <2>2 DEF CoachRows
  <2> QED BY <2>1, <2>3
<1>4. CASE m.kind = "example"
  <2>1. rows' = IF rows = <<>> THEN rows
                ELSE [rows EXCEPT ![Len(rows)].example = TRUE]
    BY <1>4 DEF Handle, Exampled
  <2>2. \A row \in CoachRows : [row EXCEPT !.example = TRUE] \in CoachRows
    BY DEF CoachRows
  <2>3. rows' \in [DOMAIN rows -> CoachRows]
    BY <1>1, <2>1, <2>2
  <2> QED BY <2>3, SameShape
<1>5. m.kind \in {"save", "log", "example"}
  BY DEF Requests
<1> QED BY <1>2, <1>3, <1>4, <1>5

LEMMA NetworkKeeps ==
  ASSUME IInv, NEW m \in wire, Handle(m) \/ Lose(m) PROVE IInv'
<1>1. /\ m \in Requests /\ wire \in SUBSET Requests /\ rows \in Seq(CoachRows)
      /\ hook \in [1..MaxVisits -> HookStates]
  BY DEF IInv, TypeOK, HookStates
<1>2. /\ wire' = wire \ {m} /\ \E ok \in BOOLEAN : Settled(m, ok)
      /\ UNCHANGED <<screen, nudges, presses, edits>>
  BY DEF Handle, Lose
<1>3. rows' \in Seq(CoachRows)
  BY <1>1, HandledRows DEF Lose
<1>4. wire' \in SUBSET Requests /\ hook' \in [1..MaxVisits -> HookStates]
  BY <1>1, <1>2, SettledTyped
<1> QED BY <1>2, <1>3, <1>4, BehindKeeps

LEMMA NextKeepsIInv == IInv /\ [Next]_vars => IInv'
<1> SUFFICES ASSUME IInv, [Next]_vars PROVE IInv'
  OBVIOUS
<1>1. CASE \E r \in BOOLEAN, l \in {"L2", "L3"} : Open(r, l)
  BY <1>1, OpenKeeps
<1>2. CASE \E f \in Forms : Change(f)
  BY <1>2, ChangeKeeps
<1>3. CASE Continue \/ Revise \/ KeepAsIs \/ ShowExample \/ GoToReview \/ LoadPage
  BY <1>3, ContinueKeeps, ReviseKeeps, LeaveKeeps, ExampleKeeps, LoadPageKeeps
<1>4. CASE \E v \in 1..MaxVisits : Send(v)
  BY <1>4, SendKeeps
<1>5. CASE \E m \in wire : Handle(m) \/ Lose(m)
  BY <1>5, NetworkKeeps
<1>6. CASE UNCHANGED vars
  <2>1. /\ UNCHANGED <<screen, nudges, presses, edits>>
        /\ UNCHANGED <<hook, wire, rows>>
    BY <1>6 DEF vars
  <2> QED BY <2>1, BehindKeeps DEF IInv, TypeOK, HookStates
<1> QED BY <1>1, <1>2, <1>3, <1>4, <1>5, <1>6 DEF Next

THEOREM Inductive == Spec => []IInv
  BY InitIInv, NextKeepsIInv, PTL DEF Spec

(* Every variable is of its kind.                                          *)
THEOREM TypeCorrect == Spec => []TypeOK
<1>1. IInv => TypeOK
  BY DEF IInv
<1> QED BY <1>1, Inductive, PTL

(* The coach never gates: of two presses on one text the second moves on.  *)
THEOREM NoGate == Spec => []NeverGates
<1>1. IInv => NeverGates
  BY DEF IInv, PressesOK, NeverGates
<1> QED BY <1>1, Inductive, PTL

(* The cards of a visit count from 1 without a gap, up to MaxNudges.       *)
THEOREM CardsNumbered == Spec => []NudgesPerVisit
<1>1. IInv => NudgesPerVisit
  <2> SUFFICES ASSUME IInv PROVE NudgesPerVisit
    OBVIOUS
  <2>1. \A n \in DOMAIN nudges : nudges[n].attempt <= MaxNudges
    <3>1. nudges \in Seq(Cards)
      BY DEF IInv, TypeOK
    <3>2. \A card \in Cards : card.attempt <= MaxNudges
      BY ScreenAssumption DEF Cards
    <3> QED BY <3>1, <3>2, CardsTyped
  <2> QED BY <2>1 DEF IInv, Numbered, NudgesPerVisit
<1> QED BY <1>1, Inductive, PTL

(* What is dismissed for good is in the module's set, and no card follows. *)
OverOK == over # 0 => retired /\ over = Len(nudges)

LEMMA DismissedOver ==
  ASSUME IInv, OverOK, Dismissed \/ UNCHANGED <<retired, over>>, UNCHANGED nudges
  PROVE  OverOK'
  BY DEF OverOK, Dismissed, AtCeiling, IInv, TypeOK

LEMMA NextKeepsOver == IInv /\ OverOK /\ [Next]_vars => OverOK'
<1> SUFFICES ASSUME IInv, OverOK, [Next]_vars PROVE OverOK'
  OBVIOUS
<1>1. CASE \E f \in Forms : Change(f)
  <2>1. /\ nudges' = [n \in DOMAIN nudges |-> [nudges[n] EXCEPT !.edited = TRUE]]
        /\ UNCHANGED <<retired, over>>
    BY <1>1 DEF Change
  <2>2. nudges \in Seq(Cards)
    BY DEF IInv, TypeOK
  <2>3. nudges' \in [DOMAIN nudges -> Cards]
    BY <2>1, <2>2, CardsTyped, EditedCard
  <2>4. Len(nudges') = Len(nudges)
    BY <2>2, <2>3, SameShape
  <2> QED BY <2>1, <2>4 DEF OverOK
<1>2. CASE ShowExample
  BY <1>2, AskedCard DEF ShowExample, SameCards, screen, OverOK
<1>3. CASE Continue
  <2>1. CASE Pass
    BY <2>1, DismissedOver DEF Pass
  <2>2. CASE StepAside
    BY <2>2, DismissedOver DEF StepAside
  <2>3. CASE Nudge
    <3>1. ~retired /\ UNCHANGED <<retired, over>>
      BY <2>3 DEF Nudge, Coached
    <3> QED BY <3>1 DEF OverOK
  <2> QED BY <1>3, <2>1, <2>2, <2>3 DEF Continue
<1>4. CASE Revise \/ KeepAsIs \/ GoToReview \/ \E r \in BOOLEAN, l \in {"L2", "L3"} : Open(r, l)
  BY <1>4, DismissedOver DEF Revise, KeepAsIs, GoToReview, Open
<1>5. CASE LoadPage
  BY <1>5 DEF LoadPage, OverOK
<1>6. CASE \/ \E v \in 1..MaxVisits : Send(v)
           \/ \E m \in wire : Handle(m) \/ Lose(m)
           \/ UNCHANGED vars
  BY <1>6, DismissedOver DEF Send, Handle, Lose, vars, screen
<1> QED BY <1>1, <1>2, <1>3, <1>4, <1>5, <1>6 DEF Next

(* However the last card of a visit was dismissed and however often the    *)
(* screen is mounted since, no card is shown until a full page load.       *)
THEOREM RetiredSilent == Spec => []RetiredIsSilent
<1>1. Init => OverOK
  BY DEF Init, OverOK
<1>2. OverOK => RetiredIsSilent
  BY DEF OverOK, RetiredIsSilent
<1> QED BY <1>1, <1>2, Inductive, NextKeepsOver, PTL DEF Spec

-----------------------------------------------------------------------------
(* Counting examples: marked on rows, on their way, asked for.             *)
Marked(r)  == {i \in DOMAIN r : r[i].example}
OnWay(w)   == {m \in w : m.kind = "example"}
Asked(ns)  == {n \in DOMAIN ns : ns[n].asked}

CountInv ==
  /\ IsFiniteSet(OnWay(wire))
  /\ Cardinality(Marked(rows)) + Cardinality(OnWay(wire)) <= Cardinality(Asked(nudges))

LEMMA FiniteInSeq ==
  ASSUME NEW S, NEW s \in Seq(S), NEW T \in SUBSET DOMAIN s
  PROVE  IsFiniteSet(T) /\ Cardinality(T) \in Nat
<1>1. DOMAIN s = 1..Len(s) /\ Len(s) \in Int
  BY LenProperties
<1>2. IsFiniteSet(DOMAIN s)
  BY <1>1, FS_Interval
<1> QED BY <1>2, FS_Subset, FS_CardinalityType

LEMMA CountTyped ==
  ASSUME IInv, CountInv
  PROVE  /\ IsFiniteSet(Marked(rows)) /\ Cardinality(Marked(rows)) \in Nat
         /\ IsFiniteSet(Asked(nudges)) /\ Cardinality(Asked(nudges)) \in Nat
         /\ IsFiniteSet(OnWay(wire)) /\ Cardinality(OnWay(wire)) \in Nat
<1>1. rows \in Seq(CoachRows) /\ nudges \in Seq(Cards)
  BY DEF IInv, TypeOK
<1>2. Marked(rows) \in SUBSET DOMAIN rows /\ Asked(nudges) \in SUBSET DOMAIN nudges
  BY DEF Marked, Asked
<1>3. IsFiniteSet(OnWay(wire)) /\ Cardinality(OnWay(wire)) \in Nat
  BY FS_CardinalityType DEF CountInv
<1>4. IsFiniteSet(Marked(rows)) /\ Cardinality(Marked(rows)) \in Nat
  BY <1>1, <1>2, FiniteInSeq
<1>5. IsFiniteSet(Asked(nudges)) /\ Cardinality(Asked(nudges)) \in Nat
  BY <1>1, <1>2, FiniteInSeq
<1> QED BY <1>3, <1>4, <1>5

\* Nothing new is marked, on its way or asked for.
LEMMA SameCount ==
  ASSUME IInv, CountInv, Marked(rows') = Marked(rows),
         OnWay(wire') \subseteq OnWay(wire), Asked(nudges') = Asked(nudges)
  PROVE  CountInv'
<1>1. /\ IsFiniteSet(OnWay(wire'))
      /\ Cardinality(OnWay(wire')) <= Cardinality(OnWay(wire))
      /\ Cardinality(OnWay(wire')) \in Nat
  BY CountTyped, FS_Subset, FS_CardinalityType
<1>2. Cardinality(Marked(rows')) + Cardinality(OnWay(wire'))
        <= Cardinality(Asked(nudges'))
  BY <1>1, CountTyped DEF CountInv
<1> QED BY <1>1, <1>2 DEF CountInv, OnWay, Marked, Asked

LEMMA OneMore ==
  ASSUME NEW S, NEW x, IsFiniteSet(S)
  PROVE  /\ IsFiniteSet(S \union {x}) /\ Cardinality(S \union {x}) \in Nat
         /\ Cardinality(S \union {x}) <= Cardinality(S) + 1
<1>1. Cardinality(S) \in Nat
  BY FS_CardinalityType
<1>2. /\ IsFiniteSet(S \cup {x})
      /\ Cardinality(S \cup {x}) = IF x \in S THEN Cardinality(S) ELSE Cardinality(S) + 1
  BY FS_AddElement
<1> QED BY <1>1, <1>2

LEMMA AskCounts == ASSUME IInv, CountInv, ShowExample PROVE CountInv'
<1> DEFINE m == [kind |-> "example", nudge |-> Len(nudges)]
<1>1. wire' = wire \union {m} /\ UNCHANGED rows /\ ~nudges[Len(nudges)].asked
  BY DEF ShowExample
<1>2. m.kind = "example"
  OBVIOUS
<1> HIDE DEF m
<1>3. OnWay(wire') = OnWay(wire) \union {m}
  BY <1>1, <1>2 DEF OnWay
<1>4. Asked(nudges') = Asked(nudges) \union {Len(nudges)} /\ Len(nudges) \notin Asked(nudges)
  BY <1>1, AskedCard DEF Asked, SameCards
<1>5. /\ IsFiniteSet(OnWay(wire'))
      /\ Cardinality(OnWay(wire')) <= Cardinality(OnWay(wire)) + 1
      /\ Cardinality(OnWay(wire')) \in Nat
  BY <1>3, CountTyped, OneMore
<1>6. Cardinality(Asked(nudges')) = Cardinality(Asked(nudges)) + 1
  BY <1>4, CountTyped, FS_AddElement
<1>7. Cardinality(Marked(rows)) + Cardinality(OnWay(wire')) <= Cardinality(Asked(nudges'))
  BY <1>5, <1>6, CountTyped DEF CountInv
<1> QED BY <1>1, <1>5, <1>7 DEF CountInv, OnWay, Marked, Asked

LEMMA HandleCounts == ASSUME IInv, CountInv, NEW m \in wire, Handle(m) PROVE CountInv'
<1>1. /\ rows \in Seq(CoachRows) /\ m \in Requests
      /\ wire' = wire \ {m} /\ UNCHANGED nudges
  BY DEF IInv, TypeOK, Handle
<1>2. /\ Len(rows) \in Nat /\ DOMAIN rows = 1..Len(rows)
      /\ \A i \in DOMAIN rows : rows[i] \in CoachRows
  BY <1>1, LenProperties, ElementOfSeq
<1>3. OnWay(wire') \subseteq OnWay(wire) /\ Asked(nudges') = Asked(nudges)
  BY <1>1 DEF OnWay, Asked
<1>4. CASE m.kind = "save"
  <2>1. rows' = [i \in DOMAIN rows |-> [rows[i] EXCEPT !.changed = TRUE]]
    BY <1>4 DEF Handle, SaveMarks
  <2>2. \A row \in CoachRows : [row EXCEPT !.changed = TRUE].example = row.example
    BY DEF CoachRows
  <2>3. Marked(rows') = Marked(rows)
    BY <1>2, <2>1, <2>2 DEF Marked
  <2> QED BY <1>3, <2>3, SameCount
<1>5. CASE m.kind = "log"
  <2> DEFINE row == [nudge |-> m.nudge, attempt |-> m.attempt,
                     example |-> FALSE, changed |-> FALSE]
  <2>1. rows' = Append(rows, row)
    BY <1>5 DEF Handle, Logged
  <2>2. ~row.example /\ row \in CoachRows
    BY <1>1, <1>5 DEF Requests, CoachRows
  <2> HIDE DEF row
  <2>3. /\ DOMAIN rows' = DOMAIN rows \union {Len(rows) + 1}
        /\ rows'[Len(rows) + 1] = row
        /\ \A i \in DOMAIN rows : rows'[i] = rows[i]
    BY <1>1, <1>2, <2>1, <2>2
  <2>4. Marked(rows') = Marked(rows)
    BY <2>2, <2>3 DEF Marked
  <2> QED BY <1>3, <2>4, SameCount
<1>6. CASE m.kind = "example"
  <2>1. rows' = IF rows = <<>> THEN rows
                ELSE [rows EXCEPT ![Len(rows)].example = TRUE]
    BY <1>6 DEF Handle, Exampled
  <2>2. DOMAIN rows' = DOMAIN rows
        /\ \A i \in DOMAIN rows : i # Len(rows) => rows'[i] = rows[i]
    BY <1>2, <2>1
  <2>3. Marked(rows') \subseteq Marked(rows) \union {Len(rows)}
    BY <2>2 DEF Marked
  <2>4. OnWay(wire') = OnWay(wire) \ {m} /\ m \in OnWay(wire)
    BY <1>1, <1>6 DEF OnWay
  <2>5. /\ IsFiniteSet(OnWay(wire'))
        /\ Cardinality(OnWay(wire')) = Cardinality(OnWay(wire)) - 1
    BY <2>4, CountTyped, FS_RemoveElement
  <2>6. /\ IsFiniteSet(Marked(rows) \union {Len(rows)})
        /\ Cardinality(Marked(rows) \union {Len(rows)}) <= Cardinality(Marked(rows)) + 1
        /\ Cardinality(Marked(rows) \union {Len(rows)}) \in Nat
    BY CountTyped, OneMore
  <2>7. /\ Cardinality(Marked(rows')) <= Cardinality(Marked(rows) \union {Len(rows)})
        /\ Cardinality(Marked(rows')) \in Nat
    BY <2>3, <2>6, FS_Subset, FS_CardinalityType
  <2>8. Cardinality(Marked(rows')) + Cardinality(OnWay(wire'))
          <= Cardinality(Asked(nudges'))
    BY <1>3, <2>5, <2>6, <2>7, CountTyped DEF CountInv
  <2> QED BY <2>5, <2>8 DEF CountInv, OnWay, Marked, Asked
<1>7. m.kind \in {"save", "log", "example"}
  BY <1>1 DEF Requests
<1> QED BY <1>4, <1>5, <1>6, <1>7

\* A save or the log of a nudge goes on its way.
LEMMA OtherRequest ==
  ASSUME NEW w, NEW v, NEW k
  PROVE  /\ OnWay(w \union {Save(v)}) = OnWay(w)
         /\ OnWay(w \union {Nudged(k)}) = OnWay(w)
         /\ \A sent : OnWay(w \union {Save(u) : u \in sent}) = OnWay(w)
<1>1. Save(v).kind # "example" /\ Nudged(k).kind # "example"
  BY DEF Save, Nudged
<1>2. \A u : Save(u).kind # "example"
  BY DEF Save
<1> QED BY <1>1, <1>2 DEF OnWay

LEMMA ScreenCounts ==
  ASSUME IInv, CountInv, UNCHANGED rows,
         \/ \E f \in Forms : Change(f)
         \/ Continue
         \/ LoadPage
         \/ \E v \in 1..MaxVisits : Send(v)
         \/ UNCHANGED <<wire, nudges>>
         \/ \E m \in wire : Lose(m)
  PROVE  CountInv'
<1>1. nudges \in Seq(Cards)
  BY DEF IInv, TypeOK
<1>2. Marked(rows') = Marked(rows)
  BY DEF Marked
<1>3. CASE \E f \in Forms : Change(f)
  <2>1. /\ nudges' = [n \in DOMAIN nudges |-> [nudges[n] EXCEPT !.edited = TRUE]]
        /\ UNCHANGED wire
    BY <1>3 DEF Change
  <2>2. Asked(nudges') = Asked(nudges)
    BY <1>1, <2>1, CardsTyped, EditedCard DEF Asked
  <2> QED BY <1>2, <2>1, <2>2, SameCount
<1>4. CASE Continue
  <2>1. CASE Nudge
    <3> DEFINE card == [visit |-> page.visit, attempt |-> coach.shown + 1,
                        edited |-> FALSE, asked |-> FALSE]
    <3>1. /\ nudges' = Append(nudges, card)
          /\ wire' = wire \union {Nudged(Len(nudges'))}
      BY <2>1 DEF Nudge
    <3>2. ~card.asked
      OBVIOUS
    <3> HIDE DEF card
    <3>3. /\ DOMAIN nudges' = DOMAIN nudges \union {Len(nudges) + 1}
          /\ nudges'[Len(nudges) + 1] = card
          /\ \A n \in DOMAIN nudges : nudges'[n] = nudges[n]
      BY <1>1, <3>1, CardsTyped
    <3>4. Asked(nudges') = Asked(nudges)
      BY <3>2, <3>3 DEF Asked
    <3>5. OnWay(wire') \subseteq OnWay(wire)
      BY <3>1, OtherRequest
    <3> QED BY <1>2, <3>4, <3>5, SameCount
  <2>2. CASE ~Nudge
    <3>1. UNCHANGED <<wire, nudges>>
      BY <1>4, <2>2 DEF Continue, Pass, StepAside
    <3> QED BY <1>2, <3>1, SameCount
  <2> QED BY <2>1, <2>2
<1>5. CASE LoadPage
  <2>1. (\E sent : wire' = wire \union {Save(v) : v \in sent}) /\ UNCHANGED nudges
    BY <1>5 DEF LoadPage
  <2>2. OnWay(wire') \subseteq OnWay(wire)
    BY <2>1, OtherRequest
  <2> QED BY <1>2, <2>1, <2>2, SameCount
<1>6. CASE \E v \in 1..MaxVisits : Send(v)
  <2>1. (\E v : wire' = wire \union {Save(v)}) /\ UNCHANGED nudges
    BY <1>6 DEF Send
  <2>2. OnWay(wire') \subseteq OnWay(wire)
    BY <2>1, OtherRequest
  <2> QED BY <1>2, <2>1, <2>2, SameCount
<1>7. CASE UNCHANGED <<wire, nudges>>
  BY <1>2, <1>7, SameCount
<1>8. CASE \E m \in wire : Lose(m)
  <2>1. OnWay(wire') \subseteq OnWay(wire) /\ UNCHANGED nudges
    BY <1>8 DEF Lose, OnWay
  <2> QED BY <1>2, <2>1, SameCount
<1> QED BY <1>3, <1>4, <1>5, <1>6, <1>7, <1>8

LEMMA NextKeepsCount == IInv /\ CountInv /\ [Next]_vars => CountInv'
<1> SUFFICES ASSUME IInv, CountInv, [Next]_vars PROVE CountInv'
  OBVIOUS
<1>1. CASE ShowExample
  BY <1>1, AskCounts
<1>2. CASE \E m \in wire : Handle(m)
  BY <1>2, HandleCounts
<1>3. CASE \/ \E f \in Forms : Change(f)
           \/ Continue \/ LoadPage
           \/ \E v \in 1..MaxVisits : Send(v)
           \/ \E m \in wire : Lose(m)
  <2>1. UNCHANGED rows
    BY <1>3 DEF Change, Continue, Pass, Nudge, StepAside, GoOn, LoadPage, Send, Lose
  <2> QED BY <1>3, <2>1, ScreenCounts
<1>4. CASE \/ \E r \in BOOLEAN, l \in {"L2", "L3"} : Open(r, l)
           \/ Revise \/ KeepAsIs \/ GoToReview \/ UNCHANGED vars
  <2>1. UNCHANGED <<rows, wire, nudges>>
    BY <1>4 DEF Open, Revise, KeepAsIs, GoToReview, GoOn, vars
  <2> QED BY <2>1, ScreenCounts
<1> QED BY <1>1, <1>2, <1>3, <1>4 DEF Next

(* Late, lost or out of order, the examples marked in the trail are never  *)
(* more than the examples asked for.                                       *)
THEOREM ExamplesNeverExceed == Spec => []ExamplesCounted
<1>1. Init => CountInv
  <2> SUFFICES ASSUME Init PROVE CountInv
    OBVIOUS
  <2>1. OnWay(wire) = {} /\ Marked(rows) = {} /\ Asked(nudges) = {}
    BY DEF Init, OnWay, Marked, Asked
  <2> QED BY <2>1, FS_EmptySet DEF CountInv
<1>2. IInv /\ CountInv => ExamplesCounted
  <2> SUFFICES ASSUME IInv, CountInv PROVE ExamplesCounted
    OBVIOUS
  <2>1. Cardinality(Marked(rows)) <= Cardinality(Asked(nudges))
    BY CountTyped DEF CountInv
  <2> QED BY <2>1 DEF ExamplesCounted, Marked, Asked
<1>3. Spec => []CountInv
  BY <1>1, Inductive, NextKeepsCount, PTL DEF Spec
<1> QED BY <1>2, <1>3, Inductive, PTL
=============================================================================
