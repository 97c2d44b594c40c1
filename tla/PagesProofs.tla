---------------------------- MODULE PagesProofs ----------------------------
(***************************************************************************)
(* Proofs about the pages: who gets into the cohort and at which page of   *)
(* it, and how the codes are paced (Entry); the facilitator's comparison   *)
(* boards, panel and audit (Boards); the forms of the fifteen questions    *)
(* (Forms).  For every cohort, question and bound of theirs.               *)
(*                                                                         *)
(* Boards and Forms loop over rows, cards and lists by recursive functions.*)
(* What such a loop computes is shown by induction over its steps, which   *)
(* the first section derives from the least element of a set of naturals:  *)
(* an induction that is stated of a set, not of a predicate.               *)
(***************************************************************************)
EXTENDS Entry, Forms, Boards, FiniteSetTheorems, WellFoundedInduction,
        NaturalsInduction, TLAPS

-----------------------------------------------------------------------------
(* Loops                                                                   *)

\* The order of the naturals is well-founded.
LEMMA NatOrder == IsWellFoundedOn(OpToRel(<, Nat), Nat)
  BY NatLessThanWellFounded

\* Induction, stated of a set.
LEMMA SetInduction ==
  ASSUME NEW S, 0 \in S, \A n \in Nat : n \in S => n + 1 \in S
  PROVE  Nat \subseteq S
  <1> DEFINE T == {n \in Nat : n \notin S}
  <1> SUFFICES ASSUME T # {} PROVE FALSE
    OBVIOUS
  <1>1. T \subseteq Nat
    OBVIOUS
  <1> HIDE DEF T
  <1>2. PICK x \in T : \A y \in T : ~(<<y, x>> \in OpToRel(<, Nat))
    BY <1>1, NatOrder, WFMin
  <1>3. \A y \in T : ~(y < x)
    BY <1>1, <1>2 DEF OpToRel
  <1> USE DEF T
  <1>4. x # 0 /\ x - 1 \in Nat /\ x - 1 < x /\ (x - 1) + 1 = x
    OBVIOUS
  <1>5. x - 1 \in T
    BY <1>4
  <1> QED BY <1>3, <1>4, <1>5

\* Induction up to a bound.
LEMMA BoundedInduction ==
  ASSUME NEW k \in Nat, NEW S, 0 \in S,
         \A n \in 0..k : n < k /\ n \in S => n + 1 \in S
  PROVE  0..k \subseteq S
  <1> DEFINE T == {n \in Nat : n <= k => n \in S}
  <1>1. 0 \in T
    OBVIOUS
  <1>2. \A n \in Nat : n \in T => n + 1 \in T
    OBVIOUS
  <1> HIDE DEF T
  <1>3. Nat \subseteq T
    BY <1>1, <1>2, SetInduction
  <1> QED BY <1>3 DEF T

\* f holds the values of a loop over 1..k that starts at first and stays in X; its
\* step n is the function step[n].
IsLoop(f, k, X, first, step) ==
  /\ f \in [0..k -> X]
  /\ f[0] = first
  /\ \A n \in 1..k : f[n] = step[n][f[n - 1]]

\* There is such an f.
LEMMA LoopExists ==
  ASSUME NEW k \in Nat, NEW X, NEW first \in X, NEW step \in [1..k -> [X -> X]]
  PROVE  \E f : IsLoop(f, k, X, first, step)
  <1> DEFINE Loops(m) ==
        \E f \in [0..m -> X] : /\ f[0] = first
                               /\ \A n \in 1..m : f[n] = step[n][f[n - 1]]
             S == {m \in Nat : Loops(m)}
  <1>1. 0 \in S
    <2> DEFINE f == [n \in 0..0 |-> first]
    <2>1. f \in [0..0 -> X] /\ f[0] = first
      OBVIOUS
    <2> HIDE DEF f
    <2>2. \A n \in 1..0 : f[n] = step[n][f[n - 1]]
      OBVIOUS
    <2> QED BY <2>1, <2>2
  <1>2. ASSUME NEW m \in 0..k, m < k, m \in S PROVE m + 1 \in S
    <2>1. PICK f \in [0..m -> X] : /\ f[0] = first
                                   /\ \A n \in 1..m : f[n] = step[n][f[n - 1]]
      BY <1>2
    <2> DEFINE g == [n \in 0..(m + 1) |-> IF n = m + 1 THEN step[m + 1][f[m]] ELSE f[n]]
    <2>2. step[m + 1] \in [X -> X] /\ f[m] \in X
      BY <1>2
    <2>3. g \in [0..(m + 1) -> X]
      BY <2>2
    <2>4. g[0] = first /\ g[m + 1] = step[m + 1][g[m]]
      BY <2>1
    <2>5. ASSUME NEW n \in 1..m PROVE g[n] = step[n][g[n - 1]]
      <3>1. n \in 0..(m + 1) /\ n - 1 \in 0..(m + 1) /\ n # m + 1 /\ n - 1 # m + 1
        BY <1>2
      <3>2. g[n] = f[n] /\ g[n - 1] = f[n - 1]
        BY <3>1
      <3> QED BY <2>1, <3>2
    <2> HIDE DEF g
    <2>6. \A n \in 1..(m + 1) : n \in 1..m \/ n = m + 1
      BY <1>2
    <2>7. m = (m + 1) - 1
      BY <1>2
    <2>8. \A n \in 1..(m + 1) : g[n] = step[n][g[n - 1]]
      BY <2>4, <2>5, <2>6, <2>7
    <2> QED BY <1>2, <2>3, <2>4, <2>8
  <1> HIDE DEF S
  <1>3. 0..k \subseteq S
    BY <1>1, <1>2, BoundedInduction
  <1>4. k \in S
    BY <1>3
  <1>5. PICK f \in [0..k -> X] : /\ f[0] = first
                                 /\ \A n \in 1..k : f[n] = step[n][f[n - 1]]
    BY <1>4 DEF S
  <1>6. IsLoop(f, k, X, first, step)
    BY <1>5 DEF IsLoop
  <1> QED BY <1>6

-----------------------------------------------------------------------------
(* Entry                                                                   *)

\* Somebody who may have words anywhere has acknowledged the ground rules.
MayWrite(r) == r # NoOne /\ person[r].acked

\* An open question belongs to someone who may write, only a question holds
\* words that are not saved yet, and the mirror's are those of such a one.
AuthorsAcked ==
  /\ \A t \in Tabs : tab[t].page = "question" => MayWrite(tab[t].by)
  /\ \A t \in Tabs : tab[t].dirty => tab[t].page = "question"
  /\ mirror # NoOne => MayWrite(mirror)

EntryInv == TypeOK /\ AuthorsAcked /\ RulesBeforeWords

-----------------------------------------------------------------------------
\* What a page's gate renders is a page; the question only to someone who exists
\* and has acknowledged the rules.
LEMMA GateOfPages ==
  ASSUME TypeOK, NEW c \in Someone, NEW to
  PROVE  /\ Rendered(to, c) \in Pages
         /\ Rendered(to, c) = "question" => MayWrite(c)
  <1>1. CASE ~Known(c)
    BY <1>1 DEF Rendered, Pages
  <1>2. CASE Known(c) /\ to = "welcome"
    BY <1>2 DEF Rendered, Pages
  <1>3. CASE /\ Known(c) /\ to \in {"question", "review"}
             /\ ~person[c].locked /\ person[c].acked
    <2>1. Rendered(to, c) = to
      BY <1>3 DEF Rendered
    <2> QED BY <1>3, <2>1 DEF Pages, MayWrite, Known
  <1>4. CASE /\ Known(c) /\ to # "welcome"
             /\ ~(to \in {"question", "review"}
                    /\ ~person[c].locked /\ person[c].acked)
    <2>1. Rendered(to, c) = HomeOf(c)
      BY <1>4 DEF Rendered
    <2>2. HomeOf(c) \in {"rules", "done", "home"}
      BY DEF HomeOf
    <2> QED BY <2>1, <2>2 DEF Pages
  <1> QED BY <1>1, <1>2, <1>3, <1>4

\* A tab that is shown another page holds no words, and a question only if its
\* reader may write.
LEMMA Shown ==
  ASSUME TypeOK, AuthorsAcked, NEW t \in Tabs, NEW c \in Someone,
         NEW view \in Pages \union Claiming,
         view = "question" => MayWrite(c), Show(t, view, c)
  PROVE  /\ tab' \in [Tabs -> [page : Pages \union Claiming, by : Someone,
                                dirty : BOOLEAN]]
         /\ \A s \in Tabs : tab'[s].page = "question" => MayWrite(tab'[s].by)
         /\ \A s \in Tabs : tab'[s].dirty => tab'[s].page = "question"
         /\ \A s \in Tabs : tab'[s] = IF s = t THEN tab'[t] ELSE tab[s]
         /\ tab'[t].page = view
  <1> DEFINE new == [page |-> view, dirty |-> FALSE,
                     by |-> IF view \in {"question", "granted"} THEN c ELSE NoOne]
  <1>1. tab' = [tab EXCEPT ![t] = new]
    BY DEF Show
  <1>2. new \in [page : Pages \union Claiming, by : Someone, dirty : BOOLEAN]
    BY DEF Someone
  <1>3. view = "question" => new.by = c
    OBVIOUS
  <1>4. new.page = view /\ ~new.dirty
    OBVIOUS
  <1> HIDE DEF new
  <1>5. tab \in [Tabs -> [page : Pages \union Claiming, by : Someone, dirty : BOOLEAN]]
    BY DEF TypeOK
  <1>6. tab'[t] = new /\ \A s \in Tabs \ {t} : tab'[s] = tab[s]
    BY <1>1, <1>5
  <1>7. tab' \in [Tabs -> [page : Pages \union Claiming, by : Someone, dirty : BOOLEAN]]
    BY <1>1, <1>2, <1>5
  <1> QED BY <1>3, <1>4, <1>6, <1>7 DEF AuthorsAcked

\* Nobody takes back an acknowledgement: whoever might write may still.
LEMMA StillAcked ==
  ASSUME TypeOK', \A r \in Respondents : person[r].acked => person'[r].acked,
         \A s \in Tabs : tab'[s].page = "question" => MayWrite(tab'[s].by),
         \A s \in Tabs : tab'[s].dirty => tab'[s].page = "question",
         mirror' # NoOne => MayWrite(mirror'),
         \A r \in Respondents : stored'[r] # NoOne => MayWrite(stored'[r])
  PROVE  EntryInv'
  <1>1. \A r \in Someone : MayWrite(r) => MayWrite(r)'
    BY DEF MayWrite, Someone
  <1>2. /\ \A s \in Tabs : tab'[s].by \in Someone
        /\ \A r \in Respondents : stored'[r] \in Someone
        /\ mirror' \in Someone
    BY DEF TypeOK
  <1>3. \A s \in Tabs : tab'[s].page = "question" => MayWrite(tab[s].by)'
    BY <1>1, <1>2 DEF MayWrite
  <1>4. mirror' # NoOne => MayWrite(mirror)'
    BY <1>1, <1>2 DEF MayWrite
  <1>5. \A r \in Respondents : stored'[r] # NoOne => MayWrite(stored[r])'
    BY <1>1, <1>2 DEF MayWrite
  <1>6. AuthorsAcked'
    BY <1>3, <1>4 DEF AuthorsAcked
  <1>7. RulesBeforeWords'
    BY <1>5 DEF RulesBeforeWords, MayWrite
  <1> QED BY <1>6, <1>7 DEF EntryInv

\* The actions that only show another page to a tab of someone c, and may change
\* a name, an acknowledgement or a lock on the way.
LEMMA ShownInv ==
  ASSUME EntryInv, NEW t \in Tabs, NEW c \in Someone,
         NEW view \in Pages \union Claiming,
         view = "question" => MayWrite(c), Show(t, view, c),
         person' \in [Respondents ->
           [named : BOOLEAN, acked : BOOLEAN, locked : BOOLEAN]],
         \A r \in Respondents : person[r].acked => person'[r].acked,
         cookie' \in Someone, tries' \in Nat,
         UNCHANGED <<cohort, exports, stored, mirror, online>>
  PROVE  EntryInv'
  <1> USE DEF EntryInv
  <1>1. TypeOK'
    BY Shown DEF TypeOK
  <1>2. /\ \A s \in Tabs : tab'[s].page = "question" => MayWrite(tab'[s].by)
        /\ \A s \in Tabs : tab'[s].dirty => tab'[s].page = "question"
    BY Shown
  <1>3. \A r \in Respondents : stored'[r] # NoOne => MayWrite(stored'[r])
    BY DEF RulesBeforeWords, MayWrite
  <1> QED BY <1>1, <1>2, <1>3, StillAcked DEF AuthorsAcked

\* The actions of the server alone.
LEMMA ServerInv ==
  ASSUME EntryInv,
         person' \in [Respondents ->
           [named : BOOLEAN, acked : BOOLEAN, locked : BOOLEAN]],
         \A r \in Respondents : person[r].acked => person'[r].acked,
         cohort' \in {"draft", "open", "closed", "gone"}, exports' \in BOOLEAN,
         tries' \in Nat, online' \in BOOLEAN,
         UNCHANGED <<stored, cookie, mirror, tab>>
  PROVE  EntryInv'
  <1> USE DEF EntryInv
  <1>1. TypeOK'
    BY DEF TypeOK
  <1>2. \A r \in Respondents : stored'[r] # NoOne => MayWrite(stored'[r])
    BY DEF RulesBeforeWords, MayWrite
  <1> QED BY <1>1, <1>2, StillAcked DEF AuthorsAcked

\* Nobody has acknowledged, and nobody has words anywhere.
LEMMA EntryInit ==
  ASSUME Init
  PROVE  EntryInv
  BY EntryAssumption
     DEF Init, EntryInv, TypeOK, AuthorsAcked, RulesBeforeWords, Someone, Pages

\* Every step keeps it: the gates ask for the acknowledgement before the question
\* is shown, and only the question makes words.
LEMMA EntryStep ==
  ASSUME EntryInv, [Next]_vars
  PROVE  EntryInv'
  <1> USE DEF EntryInv
  <1>p. person \in [Respondents ->
          [named : BOOLEAN, acked : BOOLEAN, locked : BOOLEAN]]
    BY DEF TypeOK
  <1>c. cookie \in Someone /\ tries \in Nat
    BY DEF TypeOK
  <1>1. ASSUME NEW t \in Tabs, NEW to, Open(t, to) PROVE EntryInv'
    BY <1>1, <1>p, <1>c, GateOfPages, ShownInv DEF Open, server
  <1>2. ASSUME NEW t \in Tabs, NEW r \in Respondents, ClaimLink(t, r)
        PROVE  EntryInv'
    <2>1. CASE cohort = "open"
      BY <1>2, <1>p, <1>c, <2>1, ShownInv DEF ClaimLink, server, Claiming, Someone
    <2>2. CASE cohort # "open"
      BY <1>2, <1>p, <1>c, <2>2, ShownInv DEF ClaimLink, server, Pages, Someone
    <2> QED BY <2>1, <2>2
  <1>3. ASSUME NEW t \in Tabs, ResumeCheck(t) PROVE EntryInv'
    <2> DEFINE view == IF tries < MaxTries THEN "checked" ELSE "landing"
    <2>1. view \in Pages \union Claiming /\ view # "question"
      BY DEF Pages, Claiming
    <2>2. Show(t, view, NoOne)
      BY <1>3 DEF ResumeCheck
    <2> HIDE DEF view
    <2> QED BY <1>3, <1>p, <1>c, <2>1, <2>2, ShownInv DEF ResumeCheck, server, Someone
  <1>4. ASSUME NEW t \in Tabs, NEW r \in Someone, ResumeResolve(t, r)
        PROVE  EntryInv'
    <2>1. tries' \in Nat
      BY <1>4, <1>c DEF ResumeResolve
    <2>2. CASE Known(r)
      BY <1>4, <1>p, <1>c, <2>1, <2>2, ShownInv DEF ResumeResolve, Claiming
    <2>3. CASE ~Known(r)
      BY <1>4, <1>p, <1>c, <2>1, <2>3, ShownInv DEF ResumeResolve, Pages, Someone
    <2> QED BY <2>2, <2>3
  <1>5. ASSUME NEW t \in Tabs, ClaimArrives(t) PROVE EntryInv'
    <2>1. tab[t].by \in Someone
      BY DEF TypeOK
    <2> QED BY <1>5, <1>p, <1>c, <2>1, GateOfPages, ShownInv DEF ClaimArrives, server
  <1>6. ASSUME NEW t \in Tabs, SubmitName(t) PROVE EntryInv'
    <2>1. /\ person' \in [Respondents ->
                [named : BOOLEAN, acked : BOOLEAN, locked : BOOLEAN]]
          /\ \A r \in Respondents : person[r].acked => person'[r].acked
      BY <1>6, <1>p DEF SubmitName
    <2> QED BY <1>6, <1>c, <2>1, GateOfPages, ShownInv DEF SubmitName
  <1>7. ASSUME NEW t \in Tabs, Acknowledge(t) PROVE EntryInv'
    <2>1. /\ person' \in [Respondents ->
                [named : BOOLEAN, acked : BOOLEAN, locked : BOOLEAN]]
          /\ \A r \in Respondents : person[r].acked => person'[r].acked
      BY <1>7, <1>p DEF Acknowledge
    <2> DEFINE view == IF person[cookie].locked THEN "done" ELSE "home"
    <2>2. view \in Pages \union Claiming /\ view # "question"
      BY DEF Pages
    <2>3. Show(t, view, cookie)
      BY <1>7 DEF Acknowledge
    <2> HIDE DEF view
    <2> QED BY <1>7, <1>c, <2>1, <2>2, <2>3, ShownInv DEF Acknowledge
  <1>8. ASSUME NEW t \in Tabs, Submit(t) PROVE EntryInv'
    <2>1. /\ person' \in [Respondents ->
                [named : BOOLEAN, acked : BOOLEAN, locked : BOOLEAN]]
          /\ \A r \in Respondents : person[r].acked => person'[r].acked
      BY <1>8, <1>p DEF Submit
    <2> DEFINE view == IF person[cookie].acked THEN "done" ELSE "rules"
    <2>2. view \in Pages \union Claiming /\ view # "question"
      BY DEF Pages
    <2>3. Show(t, view, cookie)
      BY <1>8 DEF Submit
    <2> HIDE DEF view
    <2> QED BY <1>8, <1>c, <2>1, <2>2, <2>3, ShownInv DEF Submit
  <1>9. ASSUME NEW t \in Tabs, Type(t) PROVE EntryInv'
    <2>1. /\ tab' = [tab EXCEPT ![t].dirty = TRUE] /\ mirror' = tab[t].by
          /\ MayWrite(tab[t].by)
      BY <1>9 DEF Type, AuthorsAcked
    <2>2. TypeOK'
      BY <1>9 DEF Type, TypeOK, server
    <2>3. /\ \A s \in Tabs : tab'[s].page = "question" => MayWrite(tab'[s].by)
          /\ \A s \in Tabs : tab'[s].dirty => tab'[s].page = "question"
      BY <1>9, <2>1 DEF Type, TypeOK, AuthorsAcked
    <2>4. \A r \in Respondents : stored'[r] # NoOne => MayWrite(stored'[r])
      BY <1>9 DEF Type, server, RulesBeforeWords, MayWrite
    <2> QED BY <1>9, <2>1, <2>2, <2>3, <2>4, StillAcked DEF Type, server
  <1>10. ASSUME NEW t \in Tabs, Save(t) PROVE EntryInv'
    <2>1. MayWrite(tab[t].by)
      BY <1>10 DEF Save, AuthorsAcked
    <2>2. TypeOK'
      BY <1>10 DEF Save, TypeOK, Someone
    <2>3. /\ \A s \in Tabs : tab'[s].page = "question" => MayWrite(tab'[s].by)
          /\ \A s \in Tabs : tab'[s].dirty => tab'[s].page = "question"
      BY <1>10 DEF Save, TypeOK, AuthorsAcked
    <2>4. \A r \in Respondents : stored'[r] # NoOne => MayWrite(stored'[r])
      BY <1>10, <2>1 DEF Save, TypeOK, RulesBeforeWords, MayWrite
    <2> QED BY <1>10, <2>2, <2>3, <2>4, StillAcked DEF Save
  <1>11. CASE BackOnline
    <2>1. \A r \in Respondents : stored'[r] # NoOne => MayWrite(stored'[r])
      BY <1>11 DEF BackOnline, TypeOK, AuthorsAcked, RulesBeforeWords, MayWrite
    <2>2. TypeOK'
      BY <1>11 DEF BackOnline, TypeOK, Someone
    <2> QED BY <1>11, <2>1, <2>2, StillAcked DEF BackOnline, AuthorsAcked
  <1>12. CASE GoOffline
    BY <1>12, <1>p, <1>c, ServerInv DEF GoOffline, server, TypeOK
  <1>13. CASE AttemptAges
    <2>1. tries' \in Nat
      BY <1>13, <1>c DEF AttemptAges
    <2> QED BY <1>13, <1>p, <2>1, ServerInv DEF AttemptAges, browser, TypeOK
  <1>14. ASSUME NEW s \in Statuses, SetStatus(s) PROVE EntryInv'
    BY <1>14, <1>p, <1>c, EntryAssumption, ServerInv DEF SetStatus, browser, TypeOK
  <1>15. ASSUME NEW r \in Respondents, Unlock(r) PROVE EntryInv'
    <2>1. /\ person' \in [Respondents ->
                [named : BOOLEAN, acked : BOOLEAN, locked : BOOLEAN]]
          /\ \A s \in Respondents : person[s].acked => person'[s].acked
      BY <1>15, <1>p DEF Unlock
    <2> QED BY <1>15, <1>c, <2>1, ServerInv DEF Unlock, browser, TypeOK
  <1>16. CASE ExportPrivate \/ DeleteCohort
    BY <1>16, <1>p, <1>c, ServerInv DEF ExportPrivate, DeleteCohort, browser, TypeOK
  <1>17. CASE UNCHANGED vars
    BY <1>17, <1>p, <1>c, ServerInv DEF vars, server, browser, TypeOK
  <1> QED
    BY <1>1, <1>2, <1>3, <1>4, <1>5, <1>6, <1>7, <1>8, <1>9, <1>10, <1>11, <1>12,
       <1>13, <1>14, <1>15, <1>16, <1>17 DEF Next

-----------------------------------------------------------------------------
\* The requests between their check and their record.
Checked == {t \in Tabs : tab[t].page = "checked"}

\* They are counted by a natural number, no greater than that of the tabs.
LEMMA CheckedCount ==
  ASSUME NEW S, S \subseteq Tabs
  PROVE  /\ IsFiniteSet(S) /\ Cardinality(S) \in Nat /\ Cardinality(Tabs) \in Nat
         /\ Cardinality(S) <= Cardinality(Tabs)
         /\ \A T \in SUBSET S : Cardinality(T) \in Nat
                               /\ Cardinality(T) <= Cardinality(S)
         /\ \A t \in S : Cardinality(S \ {t}) = Cardinality(S) - 1
  <1>1. IsFiniteSet(Tabs)
    BY EntryAssumption
  <1>2. IsFiniteSet(S) /\ Cardinality(S) <= Cardinality(Tabs)
    BY <1>1, FS_Subset
  <1>3. \A T \in SUBSET S : IsFiniteSet(T) /\ Cardinality(T) <= Cardinality(S)
    BY <1>2, FS_Subset
  <1>4. \A t \in S : Cardinality(S \ {t}) = Cardinality(S) - 1
    BY <1>2, FS_RemoveElement
  <1> QED BY <1>1, <1>2, <1>3, <1>4, FS_CardinalityType

\* A step that adds no attempt and no request in between keeps the bound.
LEMMA NoMoreChecked ==
  ASSUME TypeOK, RateHolds, Checked' \subseteq Checked,
         tries' \in Nat, tries' <= tries
  PROVE  RateHolds'
  <1>1. /\ Cardinality(Checked) \in Nat /\ Cardinality(Checked') \in Nat
        /\ Cardinality(Checked') <= Cardinality(Checked)
        /\ Cardinality(Tabs) \in Nat
    BY CheckedCount DEF Checked
  <1>2. tries \in Nat /\ MaxTries \in Nat
    BY EntryAssumption DEF TypeOK
  <1>3. tries + Cardinality(Checked) <= MaxTries + Cardinality(Tabs) - 1
    BY DEF RateHolds, Checked
  <1>4. tries' + Cardinality(Checked') <= MaxTries + Cardinality(Tabs) - 1
    BY <1>1, <1>2, <1>3
  <1> QED BY <1>4 DEF RateHolds, Checked

\* A tab that is shown anything but the check leaves it, if it was there.
LEMMA ShownUnchecked ==
  ASSUME TypeOK, RateHolds, NEW t \in Tabs, NEW view, NEW c, Show(t, view, c),
         view # "checked", tries' = tries
  PROVE  RateHolds'
  <1>1. \A s \in Tabs : tab'[s].page = IF s = t THEN view ELSE tab[s].page
    BY DEF Show, TypeOK
  <1>2. Checked' \subseteq Checked
    BY <1>1 DEF Checked
  <1>3. tries' \in Nat /\ tries' <= tries
    BY DEF TypeOK
  <1> QED BY <1>2, <1>3, NoMoreChecked

\* A check passes below the limit only, and a record takes its own request from
\* those in between.
LEMMA RateStep ==
  ASSUME TypeOK, AuthorsAcked, RateHolds, [Next]_vars
  PROVE  RateHolds'
  <1>n. tries \in Nat /\ MaxTries \in Nat
    BY EntryAssumption DEF TypeOK
  <1>p. \A to, c : c \in Someone => Rendered(to, c) # "checked"
    BY GateOfPages DEF Pages
  <1>c. cookie \in Someone
    BY DEF TypeOK
  <1>1. ASSUME NEW t \in Tabs, NEW to, Open(t, to) PROVE RateHolds'
    <2>1. Rendered(to, cookie) # "checked"
      BY <1>p, <1>c
    <2> QED BY <1>1, <2>1, ShownUnchecked DEF Open, server
  <1>2. ASSUME NEW t \in Tabs, NEW r \in Respondents, ClaimLink(t, r)
        PROVE  RateHolds'
    <2>1. CASE cohort = "open"
      BY <1>2, <2>1, ShownUnchecked DEF ClaimLink, server
    <2>2. CASE cohort # "open"
      BY <1>2, <2>2, ShownUnchecked DEF ClaimLink, server
    <2> QED BY <2>1, <2>2
  <1>3. ASSUME NEW t \in Tabs, ResumeCheck(t) PROVE RateHolds'
    <2>1. CASE tries < MaxTries
      <3>1. /\ Checked' \subseteq Tabs /\ Cardinality(Checked') \in Nat
            /\ Cardinality(Tabs) \in Nat /\ Cardinality(Checked') <= Cardinality(Tabs)
        BY CheckedCount DEF Checked
      <3>2. tries' = tries
        BY <1>3 DEF ResumeCheck, server
      <3>3. tries' + Cardinality(Checked') <= MaxTries + Cardinality(Tabs) - 1
        BY <1>n, <2>1, <3>1, <3>2
      <3> QED BY <3>3 DEF RateHolds, Checked
    <2>2. CASE ~(tries < MaxTries)
      BY <1>3, <2>2, ShownUnchecked DEF ResumeCheck, server
    <2> QED BY <2>1, <2>2
  <1>4. ASSUME NEW t \in Tabs, NEW r \in Someone, ResumeResolve(t, r)
        PROVE  RateHolds'
    <2>1. t \in Checked /\ tries' = tries + 1
      BY <1>4 DEF ResumeResolve, Checked
    <2>2. \A s \in Tabs : tab'[s].page = IF s = t THEN tab'[t].page ELSE tab[s].page
      BY <1>4 DEF ResumeResolve, Show, TypeOK
    <2>3. tab'[t].page # "checked"
      BY <1>4 DEF ResumeResolve, Show, TypeOK
    <2>4. Checked' = Checked \ {t}
      BY <2>2, <2>3 DEF Checked
    <2>5. /\ Cardinality(Checked) \in Nat /\ Cardinality(Tabs) \in Nat
          /\ Cardinality(Checked') = Cardinality(Checked) - 1
      BY <2>1, <2>4, CheckedCount DEF Checked
    <2>6. tries + Cardinality(Checked) <= MaxTries + Cardinality(Tabs) - 1
      BY DEF RateHolds, Checked
    <2>7. tries' + Cardinality(Checked') <= MaxTries + Cardinality(Tabs) - 1
      BY <1>n, <2>1, <2>5, <2>6
    <2> QED BY <2>7 DEF RateHolds, Checked
  <1>5. ASSUME NEW t \in Tabs, ClaimArrives(t) PROVE RateHolds'
    <2>1. tab[t].by \in Someone
      BY DEF TypeOK
    <2>2. Rendered(Landing(tab[t].by), tab[t].by) # "checked"
      BY <1>p, <2>1
    <2> QED BY <1>5, <2>2, ShownUnchecked DEF ClaimArrives, server
  <1>6. ASSUME NEW t \in Tabs, SubmitName(t) PROVE RateHolds'
    <2>1. Rendered("rules", cookie) # "checked"
      BY <1>p, <1>c
    <2> QED BY <1>6, <2>1, ShownUnchecked DEF SubmitName
  <1>7. ASSUME NEW t \in Tabs, Acknowledge(t) \/ Submit(t) PROVE RateHolds'
    <2>1. \E view \in {"done", "home", "rules"} : Show(t, view, cookie)
      BY <1>7 DEF Acknowledge, Submit
    <2> QED BY <1>7, <2>1, ShownUnchecked DEF Acknowledge, Submit
  <1>8. ASSUME NEW t \in Tabs, Type(t) \/ Save(t) PROVE RateHolds'
    <2>1. Checked' = Checked
      BY <1>8 DEF Type, Save, Checked, TypeOK
    <2>2. tries' = tries
      BY <1>8 DEF Type, Save, server
    <2> QED BY <1>n, <2>1, <2>2, NoMoreChecked
  <1>9. CASE AttemptAges
    <2>1. Checked' = Checked /\ tries' \in Nat /\ tries' <= tries
      BY <1>9, <1>n DEF AttemptAges, Checked, browser
    <2> QED BY <2>1, NoMoreChecked
  <1>10. CASE \/ GoOffline \/ BackOnline \/ ExportPrivate \/ DeleteCohort
              \/ \E s \in Statuses : SetStatus(s)
              \/ \E r \in Respondents : Unlock(r)
              \/ UNCHANGED vars
    <2>1. Checked' = Checked /\ tries' = tries
      BY <1>10 DEF GoOffline, BackOnline, ExportPrivate, DeleteCohort, SetStatus,
                   Unlock, vars, server, browser, Checked
    <2> QED BY <1>n, <2>1, NoMoreChecked
  <1> QED
    BY <1>1, <1>2, <1>3, <1>4, <1>5, <1>6, <1>7, <1>8, <1>9, <1>10 DEF Next

\* No attempt has been counted, and no request is under way.
LEMMA RateInit ==
  ASSUME Init
  PROVE  RateHolds
  <1>1. Checked = {}
    BY DEF Init, Checked
  <1>2. Cardinality(Checked) = 0
    BY <1>1, FS_EmptySet
  <1>3. Cardinality(Tabs) \in Nat
    BY CheckedCount
  <1>4. tries + Cardinality(Checked) <= MaxTries + Cardinality(Tabs) - 1
    BY <1>2, <1>3, EntryAssumption DEF Init
  <1> QED BY <1>4 DEF RateHolds, Checked

-----------------------------------------------------------------------------
\* The variables of the way in are of their kinds.
THEOREM EntryTyped == Spec => []TypeOK
  <1>1. Spec => []EntryInv
    BY EntryInit, EntryStep, PTL DEF Spec
  <1>2. EntryInv => TypeOK
    BY DEF EntryInv
  <1> QED BY <1>1, <1>2, PTL

\* Words stored anywhere are of someone who has acknowledged the ground rules,
\* whichever cookie they travelled under (app/q/[id]/page, api/answers).
THEOREM RulesFirst == Spec => []RulesBeforeWords
  <1>1. Spec => []EntryInv
    BY EntryInit, EntryStep, PTL DEF Spec
  <1>2. EntryInv => RulesBeforeWords
    BY DEF EntryInv
  <1> QED BY <1>1, <1>2, PTL

\* The limit on resume codes is passed by no more than the requests that were
\* between their check and their record (lib/resume).
THEOREM RateLimited == Spec => []RateHolds
  <1>1. Spec => []EntryInv
    BY EntryInit, EntryStep, PTL DEF Spec
  <1>2. EntryInv /\ RateHolds /\ [Next]_vars => RateHolds'
    BY RateStep DEF EntryInv
  <1> QED BY <1>1, <1>2, RateInit, PTL DEF Spec

\* A facilitator who is unlocked while the cohort is not open is locked out for
\* good: what opens the cohort wants her lock, what locks her an open cohort.
THEOREM StrandedStays == Spec => StrandedForGood
  <1>1. Spec => []EntryInv
    BY EntryInit, EntryStep, PTL DEF Spec
  <1>2. EntryInv /\ [Next]_vars => [Stranded => Stranded']_vars
    <2> SUFFICES ASSUME EntryInv, [Next]_vars, Stranded PROVE Stranded'
      OBVIOUS
    <2>1. ~Admin
      BY DEF Stranded, Admin
    <2>2. ~Writable(cookie)
      BY DEF Stranded, Writable
    <2>3. cohort' = cohort
      BY <2>1 DEF Next, vars, server, browser, Open, ClaimLink, ResumeCheck,
                  ResumeResolve, AttemptAges, ClaimArrives, SubmitName, Acknowledge,
                  Type, Save, GoOffline, BackOnline, Submit, SetStatus, Unlock,
                  ExportPrivate, DeleteCohort
    <2>4. ~person'[Facilitator].locked
      <3>1. ASSUME NEW t \in Tabs, SubmitName(t) \/ Acknowledge(t)
            PROVE  ~person'[Facilitator].locked
        <4>1. ~person[Facilitator].locked /\ Facilitator \in Respondents
          BY EntryAssumption DEF Stranded
        <4>2. CASE SubmitName(t)
          BY <4>1, <4>2 DEF SubmitName, EntryInv, TypeOK
        <4>3. CASE Acknowledge(t)
          BY <4>1, <4>3 DEF Acknowledge, EntryInv, TypeOK
        <4> QED BY <3>1, <4>2, <4>3
      <3>2. person' = person \/ \E t \in Tabs : SubmitName(t) \/ Acknowledge(t)
        BY <2>1, <2>2 DEF Next, vars, server, browser, Open, ClaimLink, ResumeCheck,
                  ResumeResolve, AttemptAges, ClaimArrives, Type, Save, GoOffline,
                  BackOnline, Submit, SetStatus, Unlock, ExportPrivate, DeleteCohort
      <3> QED BY <3>1, <3>2 DEF Stranded
    <2> QED BY <2>3, <2>4 DEF Stranded
  <1> QED BY <1>1, <1>2, PTL DEF Spec, StrandedForGood

-----------------------------------------------------------------------------
(* Boards: the pages, the names and the panel                              *)

\* What the pages of the facilitator are made of.
Sheets      == [Members -> Values \cup {Absent}]
CardRows    == {PublicRows(a) : a \in Sheets} \cup {<<>>}
NamedCards  == [rows : CardRows, names : BOOLEAN] \cup {<<>>}
PageRecord  == [kind : {"dashboard", "board", "sheet"}, cards : CardRows,
                badge : {"none", "aligned", "hard split", "soft split"},
                mode : {"anonymised", "attributed"}, asking : BOOLEAN,
                loading : BOOLEAN, named : NamedCards]
LoadRecord  == [pc : {"none", "mint", "get", "reply"}, reply : CardRows,
                names : BOOLEAN]
Output      == [at : Nat, level : Levels \cup {"none"}]
PanelRecord == [open : BOOLEAN, runs : SUBSET Output, loading : BOOLEAN]
PostRecord  == [pc : {"idle", "sent", "asked", "record", "list", "reply"}, out : Output,
                history : SUBSET Output, mine : BOOLEAN]

BoardsTypeOK ==
  /\ answers \in Sheets /\ submitted \in [Members -> BOOLEAN]
  /\ page \in PageRecord /\ load \in LoadRecord /\ panel \in PanelRecord
  /\ posts \in [Posts -> PostRecord]
  /\ store \subseteq Output /\ IsFiniteSet(store)
  /\ consent \in BOOLEAN
  /\ count \in [edits : Nat, posts : Nat, loads : Nat]

\* The badge is the verdict of the cards' own reading.
BadgeOK ==
  page.kind # "dashboard" => page.badge = ClassifyDivergence(page.cards)

\* Names, and a fetch of them, are there by consent, and the page knows of the
\* fetch.
ConsentOK ==
  /\ page.loading <=> load.pc # "none"
  /\ load.pc # "none" \/ page.mode = "attributed" => consent

\* One post at most is the panel's own, for as long as it is loading; only an
\* open panel shows runs, all of them stored, and what its own post has listed
\* holds them.
PanelOK ==
  /\ panel.runs # {} => panel.open
  /\ \A p \in Posts : posts[p].mine => panel.open /\ panel.loading
  /\ \A o, p \in Posts : posts[o].mine /\ posts[p].mine => o = p
  /\ \A p \in Posts : posts[p].history \subseteq store
  /\ panel.runs \subseteq store
  /\ \A p \in Posts :
       posts[p].mine /\ posts[p].pc = "reply" => panel.runs \subseteq posts[p].history

BoardsInv == BoardsTypeOK /\ BadgeOK /\ ConsentOK /\ PanelOK

-----------------------------------------------------------------------------
\* A finite set of naturals has an upper bound.
LEMMA FiniteBound ==
  ASSUME NEW S, S \subseteq Nat, IsFiniteSet(S)
  PROVE  \E b \in Nat : \A x \in S : x <= b
  <1>1. PICK n \in Nat : \E f : f \in Bijection(1..n, S)
    BY FS_NatBijection DEF ExistsBijection
  <1>2. PICK f : f \in Bijection(1..n, S)
    BY <1>1
  <1>3. f \in [1..n -> S] /\ \A x \in S : \E i \in 1..n : f[i] = x
    BY <1>2 DEF Bijection, Injection, Surjection
  <1>n. \A i \in 1..n : f[i] \in Nat
    BY <1>3
  <1> DEFINE T == {k \in Nat : \E b \in Nat : \A i \in 1..k : i <= n => f[i] <= b}
  <1>4. 0 \in T
    <2>1. \A i \in 1..0 : i <= n => f[i] <= 0
      OBVIOUS
    <2>2. \E b \in Nat : \A i \in 1..0 : i <= n => f[i] <= b
      BY <2>1, 0 \in Nat
    <2> QED BY <2>2
  <1>5. ASSUME NEW k \in 0..n, k < n, k \in T PROVE k + 1 \in T
    <2>1. PICK b \in Nat : \A i \in 1..k : i <= n => f[i] <= b
      BY <1>5
    <2>2. f[k + 1] \in Nat
      <3>1. k + 1 \in 1..n
        BY <1>5
      <3> QED BY <1>n, <3>1
    <2> DEFINE c == IF f[k + 1] <= b THEN b ELSE f[k + 1]
    <2>3. c \in Nat /\ b <= c /\ f[k + 1] <= c
      BY <2>2
    <2> HIDE DEF c
    <2>4. ASSUME NEW i \in 1..(k + 1), i <= n PROVE f[i] <= c
      <3>1. f[i] \in Nat
        <4>1. i \in 1..n
          BY <1>5, <2>4
        <4> QED BY <1>n, <4>1
      <3>2. CASE i = k + 1
        BY <2>3, <3>2
      <3>3. CASE i \in 1..k
        <4>1. f[i] <= b
          BY <2>1, <2>4, <3>3
        <4> QED BY <2>3, <3>1, <4>1
      <3>4. i = k + 1 \/ i \in 1..k
        BY <1>5
      <3> QED BY <3>2, <3>3, <3>4
    <2>5. k + 1 \in Nat
      BY <1>5
    <2> QED BY <2>3, <2>4, <2>5
  <1> HIDE DEF T
  <1>6. n \in T
    BY <1>4, <1>5, BoundedInduction
  <1>7. PICK b \in Nat : \A i \in 1..n : f[i] <= b
    BY <1>6 DEF T
  <1> QED BY <1>3, <1>7

\* ... and a greatest element, when it is not empty.
LEMMA GreatestExists ==
  ASSUME NEW S, S \subseteq Nat, IsFiniteSet(S), S # {}
  PROVE  Max(S) \in Nat
  <1>1. PICK b \in Nat : \A x \in S : x <= b
    BY FiniteBound
  <1> DEFINE D == {d \in Nat : \E x \in S : d = b - x}
  <1>2. D \subseteq Nat /\ D # {}
    <2>1. PICK x \in S : TRUE
      OBVIOUS
    <2>2. b - x \in Nat
      BY <1>1
    <2> QED BY <2>1, <2>2
  <1> HIDE DEF D
  <1>3. PICK d \in D : \A e \in D : ~(<<e, d>> \in OpToRel(<, Nat))
    BY <1>2, NatOrder, WFMin
  <1>4. \A e \in D : ~(e < d)
    BY <1>2, <1>3 DEF OpToRel
  <1>5. PICK x \in S : d = b - x
    BY DEF D
  <1>6. ASSUME NEW y \in S PROVE x >= y
    <2>1. b - y \in D /\ b - x \in Nat /\ b - y \in Nat /\ x \in Nat /\ y \in Nat
      BY <1>1 DEF D
    <2>2. ~(b - y < b - x)
      BY <1>4, <1>5, <2>1
    <2> QED BY <2>1, <2>2
  <1>7. \E z \in S : \A y \in S : z >= y
    BY <1>6
  <1>8. Max(S) \in S
    BY <1>7 DEF Max
  <1> QED BY <1>8

\* The next date is a date.
LEMMA NowIsNat ==
  ASSUME BoardsTypeOK
  PROVE  Now \in Nat
  <1> DEFINE A == {o.at : o \in store}
             B == {posts[p].out.at : p \in Posts}
             S == {0} \cup A \cup B
  <1>1. IsFiniteSet(A) /\ A \subseteq Nat
    <2> DEFINE f == [o \in store |-> o.at]
    <2>1. f \in Surjection(store, A)
      BY DEF Surjection
    <2>2. IsFiniteSet(A)
      BY <2>1, FS_Surjection DEF BoardsTypeOK
    <2> QED BY <2>2 DEF BoardsTypeOK, Output
  <1>2. IsFiniteSet(B) /\ B \subseteq Nat
    <2> DEFINE f == [p \in Posts |-> posts[p].out.at]
    <2>1. f \in Surjection(Posts, B)
      BY DEF Surjection
    <2>2. IsFiniteSet(B)
      BY <2>1, BoardsAssumption, FS_Surjection
    <2> QED BY <2>2 DEF BoardsTypeOK, PostRecord, Output
  <1>3. IsFiniteSet({0}) /\ {0} \subseteq Nat
    BY FS_Singleton
  <1>4. IsFiniteSet({0} \cup A)
    BY <1>1, <1>3, FS_Union
  <1>5. IsFiniteSet(S)
    BY <1>2, <1>4, FS_Union
  <1>6. S \subseteq Nat /\ S # {}
    BY <1>1, <1>2, <1>3
  <1>7. Max(S) \in Nat
    BY <1>5, <1>6, GreatestExists
  <1> QED BY <1>7 DEF Now

-----------------------------------------------------------------------------
\* The rows of a sheet, the empty page, load, panel and post are of their types.
LEMMA BoardsDefaults ==
  /\ \A a \in Sheets : PublicRows(a) \in CardRows
  /\ Closed \in PageRecord /\ NoLoad \in LoadRecord
  /\ NoPanel \in PanelRecord /\ NoOutput \in Output /\ NoPost \in PostRecord
  <1>1. <<>> \in CardRows /\ <<>> \in NamedCards
    BY DEF CardRows, NamedCards
  <1>2. NoOutput \in Output
    BY DEF NoOutput, Output
  <1> QED BY <1>1, <1>2
       DEF CardRows, Closed, PageRecord, NoLoad, LoadRecord, NoPanel, PanelRecord,
           NoPost, PostRecord

\* A comparison board is a page, and its badge the verdict of its cards.
LEMMA ComparisonType ==
  ASSUME NEW a \in Sheets, NEW kind \in {"board", "sheet"}
  PROVE  /\ Comparison(a, kind) \in PageRecord
         /\ Comparison(a, kind).badge = ClassifyDivergence(Comparison(a, kind).cards)
         /\ Comparison(a, kind).kind = kind
         /\ ~Comparison(a, kind).loading
         /\ Comparison(a, kind).mode = "anonymised"
  <1>1. PublicRows(a) \in CardRows
    BY BoardsDefaults
  <1>2. ClassifyDivergence(PublicRows(a))
          \in {"none", "aligned", "hard split", "soft split"}
    BY DEF ClassifyDivergence
  <1> HIDE DEF CardRows, PublicRows, ClassifyDivergence
  <1>3. Closed \in PageRecord
    BY BoardsDefaults
  <1> QED BY <1>1, <1>2, <1>3 DEF Comparison, PageRecord, Closed

\* What a cancelled post is.
LEMMA CancelledType ==
  ASSUME BoardsTypeOK
  PROVE  /\ Cancelled(posts) \in [Posts -> PostRecord]
         /\ \A p \in Posts : /\ ~Cancelled(posts)[p].mine
                             /\ Cancelled(posts)[p].history = posts[p].history
  BY DEF BoardsTypeOK, Cancelled, PostRecord

\* The facilitator begins at her dashboard, with nothing asked for.
LEMMA BoardsStart ==
  ASSUME BoardsInit
  PROVE  BoardsInv
  <1>1. BoardsTypeOK
    BY BoardsDefaults, FS_EmptySet DEF BoardsInit, BoardsTypeOK, Sheets
  <1>2. BadgeOK /\ ConsentOK
    BY DEF BoardsInit, BadgeOK, ConsentOK, Closed, NoLoad
  <1>3. PanelOK
    BY DEF BoardsInit, PanelOK, NoPanel, NoPost
  <1> QED BY <1>1, <1>2, <1>3 DEF BoardsInv

\* A post is only asked for by a panel that has none of its own.
LEMMA AskKeeps ==
  ASSUME BoardsTypeOK, PanelOK, NEW p \in Posts, Ask(p),
         panel' \in PanelRecord, ~panel.open \/ ~panel.loading,
         panel'.open, panel'.loading, panel'.runs \subseteq store, store' = store
  PROVE  PanelOK' /\ posts' \in [Posts -> PostRecord]
         /\ count' \in [edits : Nat, posts : Nat, loads : Nat]
  <1> DEFINE new == [NoPost EXCEPT !.pc = "sent", !.mine = TRUE]
  <1>1. new \in PostRecord /\ new.pc = "sent" /\ new.history = {}
    BY BoardsDefaults DEF NoPost, PostRecord
  <1>2. posts' = [posts EXCEPT ![p] = new]
    BY DEF Ask
  <1> HIDE DEF new
  <1>3. posts' \in [Posts -> PostRecord]
    BY <1>1, <1>2 DEF BoardsTypeOK
  <1>4. \A o \in Posts : o # p => posts'[o] = posts[o] /\ ~posts[o].mine
    BY <1>2 DEF BoardsTypeOK, PanelOK
  <1>5. posts'[p] = new
    BY <1>2 DEF BoardsTypeOK
  <1>6. count' \in [edits : Nat, posts : Nat, loads : Nat]
    BY DEF Ask, BoardsTypeOK
  <1>7. PanelOK'
    BY <1>1, <1>3, <1>4, <1>5 DEF PanelOK
  <1> QED BY <1>3, <1>6, <1>7

\* A step of a post, other than its end, that adds to the store at most.
LEMMA PostMoves ==
  ASSUME BoardsTypeOK, PanelOK, NEW p \in Posts, NEW r \in PostRecord,
         posts' = [posts EXCEPT ![p] = r], r.mine = posts[p].mine,
         r.history \subseteq store', panel' = panel, store \subseteq store',
         r.pc = "reply" => r.history = store'
  PROVE  PanelOK' /\ posts' \in [Posts -> PostRecord]
  <1>1. posts' \in [Posts -> PostRecord]
    BY DEF BoardsTypeOK
  <1>2. posts'[p] = r /\ \A o \in Posts : o # p => posts'[o] = posts[o]
    BY DEF BoardsTypeOK
  <1>3. \A o \in Posts : posts'[o].mine = posts[o].mine
    BY <1>2
  <1>4. \A o \in Posts : posts'[o].mine => panel'.open /\ panel'.loading
    BY <1>3 DEF PanelOK
  <1>5. \A n, o \in Posts : posts'[n].mine /\ posts'[o].mine => n = o
    BY <1>3 DEF PanelOK
  <1>6. panel'.runs \subseteq store'
    BY DEF PanelOK
  <1>7. \A o \in Posts : posts'[o].history \subseteq store'
    BY <1>2 DEF PanelOK
  <1>8. \A o \in Posts : posts'[o].mine /\ posts'[o].pc = "reply"
                          => panel'.runs \subseteq posts'[o].history
    BY <1>2, <1>6 DEF PanelOK
  <1>9. panel'.runs # {} => panel'.open
    BY DEF PanelOK
  <1> QED BY <1>1, <1>4, <1>5, <1>6, <1>7, <1>8, <1>9 DEF PanelOK

\* The end of a post: its slot is free, the panel shows what the post has listed
\* if it was its own, and what it showed before otherwise.
LEMMA PostEnds ==
  ASSUME BoardsTypeOK, PanelOK, NEW p \in Posts, posts' = [posts EXCEPT ![p] = NoPost],
         panel' \in PanelRecord, panel'.open = panel.open,
         posts[p].mine \/ panel' = panel,
         panel'.runs \in {panel.runs, posts[p].history}, store' = store
  PROVE  PanelOK' /\ posts' \in [Posts -> PostRecord]
  <1>1. posts' \in [Posts -> PostRecord]
    BY BoardsDefaults DEF BoardsTypeOK
  <1>2. posts'[p] = NoPost /\ \A o \in Posts : o # p => posts'[o] = posts[o]
    BY DEF BoardsTypeOK
  <1>3. ~NoPost.mine /\ NoPost.history = {}
    BY DEF NoPost
  <1>4. panel'.runs \subseteq store'
    BY DEF PanelOK
  <1>5. \A o \in Posts : posts'[o].mine => o # p /\ posts[o].mine /\ panel' = panel
    BY <1>2, <1>3 DEF PanelOK
  <1>6. \A o \in Posts : posts'[o].history \subseteq store'
    BY <1>2, <1>3 DEF PanelOK
  <1>7. \A o \in Posts : posts'[o].mine /\ posts'[o].pc = "reply"
                          => panel'.runs \subseteq posts'[o].history
    BY <1>2, <1>3, <1>5 DEF PanelOK
  <1>8. \A n, o \in Posts : posts'[n].mine /\ posts'[o].mine => n = o
    BY <1>5 DEF PanelOK
  <1>9. \A o \in Posts : posts'[o].mine => panel'.open /\ panel'.loading
    BY <1>5 DEF PanelOK
  <1>r. panel'.runs # {} => panel'.open
    BY DEF PanelOK
  <1> QED BY <1>1, <1>4, <1>6, <1>7, <1>8, <1>9, <1>r DEF PanelOK

\* The steps on the page alone, and on the fetch of names.
LEMMA NamesStep ==
  ASSUME BoardsInv,
         \/ RequestAttributed \/ KeepAnonymised \/ ConfirmAttributed
         \/ Mint \/ Serve \/ ShowNames \/ NamesFail \/ SwitchToAnonymised
  PROVE  BoardsInv'
  <1> USE DEF BoardsInv
  <1>1. PanelOK' /\ UNCHANGED <<answers, submitted, panel, posts, store, count>>
    BY DEF RequestAttributed, KeepAnonymised, ConfirmAttributed, Mint, Serve,
           ShowNames, NamesFail, SwitchToAnonymised, PanelOK
  <1>p. page \in PageRecord /\ load \in LoadRecord
    BY DEF BoardsTypeOK
  <1> HIDE DEF BoardsInv
  <1>t. ASSUME page' \in PageRecord, load' \in LoadRecord, consent' \in BOOLEAN
        PROVE  BoardsTypeOK'
    BY <1>1, <1>t DEF BoardsInv, BoardsTypeOK
  <1>b. ASSUME page'.kind = page.kind, page'.badge = page.badge, page'.cards = page.cards
        PROVE  BadgeOK'
    BY <1>b DEF BoardsInv, BadgeOK
  <1>i. ASSUME BoardsTypeOK', BadgeOK', ConsentOK' PROVE BoardsInv'
    BY <1>1, <1>i DEF BoardsInv
  <1>c. ConsentOK /\ consent \in BOOLEAN
    BY DEF BoardsInv, BoardsTypeOK
  <1>l. NoLoad \in LoadRecord /\ NoLoad.pc = "none"
    BY BoardsDefaults DEF NoLoad
  <1>2. CASE RequestAttributed \/ KeepAnonymised
    <2>1. /\ page' \in PageRecord /\ page'.kind = page.kind
          /\ page'.badge = page.badge /\ page'.cards = page.cards
          /\ page'.loading = page.loading /\ page'.mode = page.mode
          /\ load' = load /\ consent' = consent
      BY <1>2, <1>p DEF RequestAttributed, KeepAnonymised, PageRecord
    <2>2. ConsentOK'
      BY <1>c, <2>1 DEF ConsentOK
    <2> QED BY <1>p, <1>c, <1>t, <1>b, <1>i, <2>1, <2>2
  <1>3. CASE ConfirmAttributed
    <2>1. /\ page' \in PageRecord /\ page'.kind = page.kind
          /\ page'.badge = page.badge /\ page'.cards = page.cards
          /\ page'.loading /\ consent' = TRUE
      BY <1>3, <1>p DEF ConfirmAttributed, PageRecord
    <2>2. load' \in LoadRecord /\ load'.pc = "mint"
      BY <1>3, <1>l DEF ConfirmAttributed, LoadRecord
    <2>3. ConsentOK'
      BY <2>1, <2>2 DEF ConsentOK
    <2> QED BY <1>t, <1>b, <1>i, <2>1, <2>2, <2>3
  <1>4. CASE Mint \/ Serve
    <2>0. PublicRows(answers) \in CardRows
      BY BoardsDefaults DEF BoardsInv, BoardsTypeOK
    <2> HIDE DEF PublicRows
    <2>1. load' \in LoadRecord /\ load'.pc # "none" /\ load.pc # "none"
      BY <1>4, <1>p, <2>0 DEF Mint, Serve, LoadRecord
    <2>2. page' = page /\ consent' = consent
      BY <1>4 DEF Mint, Serve
    <2>3. ConsentOK'
      BY <1>c, <2>1, <2>2 DEF ConsentOK
    <2> QED BY <1>p, <1>c, <1>t, <1>b, <1>i, <2>1, <2>2, <2>3
  <1>5. CASE ShowNames
    <2>1. [rows |-> load.reply, names |-> load.names] \in NamedCards
      BY <1>p DEF LoadRecord, NamedCards
    <2>2. /\ page' \in PageRecord /\ page'.kind = page.kind
          /\ page'.badge = page.badge /\ page'.cards = page.cards
          /\ ~page'.loading
      BY <1>5, <1>p, <2>1 DEF ShowNames, PageRecord
    <2>3. load' = NoLoad /\ consent' = consent /\ load.pc # "none"
      BY <1>5 DEF ShowNames
    <2>4. ConsentOK'
      BY <1>c, <1>l, <2>2, <2>3 DEF ConsentOK
    <2> QED BY <1>c, <1>l, <1>t, <1>b, <1>i, <2>2, <2>3, <2>4
  <1>6. CASE NamesFail
    <2>2. /\ page' \in PageRecord /\ page'.kind = page.kind
          /\ page'.badge = page.badge /\ page'.cards = page.cards
          /\ ~page'.loading /\ page'.mode = "anonymised"
      BY <1>6, <1>p DEF NamesFail, PageRecord
    <2>3. load' = NoLoad /\ consent' = consent
      BY <1>6 DEF NamesFail
    <2>4. ConsentOK'
      BY <1>l, <2>2, <2>3 DEF ConsentOK
    <2> QED BY <1>c, <1>l, <1>t, <1>b, <1>i, <2>2, <2>3, <2>4
  <1>7. CASE SwitchToAnonymised
    <2>1. <<>> \in NamedCards
      BY DEF NamedCards
    <2>2. /\ page' \in PageRecord /\ page'.kind = page.kind
          /\ page'.badge = page.badge /\ page'.cards = page.cards
          /\ page'.loading = page.loading /\ page'.mode = "anonymised"
      BY <1>7, <1>p, <2>1 DEF SwitchToAnonymised, PageRecord
    <2>3. load' = load /\ consent' = page.loading /\ page.loading \in BOOLEAN
      BY <1>7, <1>p DEF SwitchToAnonymised, PageRecord
    <2>4. ConsentOK'
      BY <1>c, <2>2, <2>3 DEF ConsentOK
    <2> QED BY <1>p, <1>t, <1>b, <1>i, <2>2, <2>3, <2>4
  <1> QED BY <1>2, <1>3, <1>4, <1>5, <1>6, <1>7

\* The steps of the panel and its posts.
LEMMA PanelStep ==
  ASSUME BoardsInv, NEW p \in Posts,
         \/ OpenPanel(p) \/ Rerun(p) \/ Gate(p) \/ Generate(p) \/ Record(p)
         \/ List(p) \/ Reply(p) \/ AnalysisFails(p)
  PROVE  BoardsInv'
  <1>0. /\ BoardsTypeOK /\ PanelOK /\ panel \in PanelRecord
        /\ posts \in [Posts -> PostRecord] /\ posts[p] \in PostRecord
        /\ store \subseteq Output /\ IsFiniteSet(store)
        /\ count \in [edits : Nat, posts : Nat, loads : Nat]
    BY DEF BoardsInv, BoardsTypeOK
  <1>1. UNCHANGED <<answers, submitted, page, load, consent>>
    BY DEF OpenPanel, Rerun, Gate, Generate, Record, List, Reply, AnalysisFails
  <1>2. BadgeOK' /\ ConsentOK'
    BY <1>1 DEF BoardsInv, BadgeOK, ConsentOK
  <1>i. ASSUME PanelOK', posts' \in [Posts -> PostRecord], panel' \in PanelRecord,
               store' \subseteq Output, IsFiniteSet(store'),
               count' \in [edits : Nat, posts : Nat, loads : Nat]
        PROVE  BoardsInv'
    BY <1>1, <1>2, <1>i DEF BoardsInv, BoardsTypeOK
  <1>3. CASE OpenPanel(p)
    <2>1. /\ panel' \in PanelRecord /\ panel'.open /\ panel'.loading
          /\ panel'.runs = {}
      BY <1>3, BoardsDefaults DEF OpenPanel, NoPanel, PanelRecord
    <2>2. Ask(p) /\ ~panel.open /\ store' = store
      BY <1>3 DEF OpenPanel
    <2>3. PanelOK' /\ posts' \in [Posts -> PostRecord]
          /\ count' \in [edits : Nat, posts : Nat, loads : Nat]
      BY <1>0, <2>1, <2>2, AskKeeps
    <2> QED BY <1>0, <1>i, <2>1, <2>2, <2>3
  <1>4. CASE Rerun(p)
    <2>0. Ask(p) /\ ~panel.loading /\ store' = store /\ panel.runs # {}
      BY <1>4 DEF Rerun
    <2>1. /\ panel' \in PanelRecord /\ panel'.open = panel.open /\ panel'.loading
          /\ panel'.runs = panel.runs
      BY <1>0, <1>4 DEF Rerun, PanelRecord
    <2>2. panel.open /\ panel.runs \subseteq store
      BY <1>0, <2>0 DEF PanelOK
    <2>3. PanelOK' /\ posts' \in [Posts -> PostRecord]
          /\ count' \in [edits : Nat, posts : Nat, loads : Nat]
      BY <1>0, <2>0, <2>1, <2>2, AskKeeps
    <2> QED BY <1>0, <1>i, <2>0, <2>1, <2>3
  <1>a. CASE Gate(p)
    <2> DEFINE r == [posts[p] EXCEPT !.pc = "asked"]
    <2>3. /\ r \in PostRecord /\ r.mine = posts[p].mine /\ r.pc = "asked"
          /\ r.history = posts[p].history
      BY <1>0 DEF PostRecord
    <2>4. posts' = [posts EXCEPT ![p] = r]
      BY <1>0, <1>a DEF Gate, PostRecord
    <2> HIDE DEF r
    <2>5. store' = store /\ panel' = panel /\ count' = count
      BY <1>a DEF Gate
    <2>6. r.history \subseteq store'
      BY <1>0, <2>3, <2>5 DEF PanelOK
    <2>7. PanelOK' /\ posts' \in [Posts -> PostRecord]
      BY <1>0, <2>3, <2>4, <2>5, <2>6, PostMoves
    <2> QED BY <1>0, <1>i, <2>5, <2>7
  <1>5. CASE Generate(p)
    <2>1. PICK level \in Levels :
            posts' = [posts EXCEPT ![p].pc = "record",
                        ![p].out = [at |-> Now, level |-> level]]
      BY <1>5 DEF Generate
    <2> DEFINE r == [posts[p] EXCEPT !.pc = "record",
                                     !.out = [at |-> Now, level |-> level]]
    <2>2. [at |-> Now, level |-> level] \in Output
      BY <1>0, NowIsNat DEF Output
    <2> HIDE DEF Now
    <2>3. /\ r \in PostRecord /\ r.mine = posts[p].mine /\ r.pc = "record"
          /\ r.history = posts[p].history
      BY <1>0, <2>2 DEF PostRecord
    <2>4. posts' = [posts EXCEPT ![p] = r]
      BY <1>0, <2>1 DEF PostRecord
    <2> HIDE DEF r
    <2>5. store' = store /\ panel' = panel /\ count' = count
      BY <1>5 DEF Generate
    <2>6. r.history \subseteq store'
      BY <1>0, <2>3, <2>5 DEF PanelOK
    <2>7. PanelOK' /\ posts' \in [Posts -> PostRecord]
      BY <1>0, <2>3, <2>4, <2>5, <2>6, PostMoves
    <2> QED BY <1>0, <1>i, <2>5, <2>7
  <1>6. CASE Record(p)
    <2> DEFINE r == [posts[p] EXCEPT !.pc = "list"]
    <2>3. /\ r \in PostRecord /\ r.mine = posts[p].mine /\ r.pc = "list"
          /\ r.history = posts[p].history
      BY <1>0 DEF PostRecord
    <2>4. posts' = [posts EXCEPT ![p] = r]
      BY <1>0, <1>6 DEF Record, PostRecord
    <2> HIDE DEF r
    <2>5. store' = store \cup {posts[p].out} /\ panel' = panel /\ count' = count
      BY <1>6 DEF Record
    <2>6. r.history \subseteq store'
      BY <1>0, <2>3, <2>5 DEF PanelOK
    <2>7. PanelOK' /\ posts' \in [Posts -> PostRecord]
      BY <1>0, <2>3, <2>4, <2>5, <2>6, PostMoves
    <2>8. store' \subseteq Output /\ IsFiniteSet(store')
      BY <1>0, <2>5, FS_AddElement DEF PostRecord
    <2> QED BY <1>0, <1>i, <2>5, <2>7, <2>8
  <1>7. CASE List(p)
    <2> DEFINE r == [posts[p] EXCEPT !.pc = "reply", !.history = store]
    <2>3. /\ r \in PostRecord /\ r.mine = posts[p].mine
          /\ r.history = store
      BY <1>0 DEF PostRecord
    <2>4. posts' = [posts EXCEPT ![p] = r]
      BY <1>0, <1>7 DEF List, PostRecord
    <2> HIDE DEF r
    <2>5. store' = store /\ panel' = panel /\ count' = count
      BY <1>7 DEF List
    <2>7. PanelOK' /\ posts' \in [Posts -> PostRecord]
      BY <1>0, <2>3, <2>4, <2>5, PostMoves
    <2> QED BY <1>0, <1>i, <2>5, <2>7
  <1>8. CASE Reply(p) \/ AnalysisFails(p)
    <2>1. posts' = [posts EXCEPT ![p] = NoPost] /\ store' = store /\ count' = count
      BY <1>8 DEF Reply, AnalysisFails
    <2>2. /\ panel' \in PanelRecord /\ panel'.open = panel.open
          /\ posts[p].mine \/ panel' = panel
          /\ panel'.runs \in {panel.runs, posts[p].history}
      BY <1>0, <1>8 DEF Reply, AnalysisFails, PanelRecord, PostRecord
    <2>3. PanelOK' /\ posts' \in [Posts -> PostRecord]
      BY <1>0, <2>1, <2>2, PostEnds
    <2> QED BY <1>0, <1>i, <2>1, <2>2, <2>3
  <1> QED BY <1>3, <1>4, <1>a, <1>5, <1>6, <1>7, <1>8

\* Every step keeps the invariant: a page reads cards and badge at once, names
\* come with the fetch that was confirmed, and a panel waits for its one post.
LEMMA BoardsStep ==
  ASSUME BoardsInv, [BoardsNext]_boardsVars
  PROVE  BoardsInv'
  <1>0. BoardsTypeOK /\ BadgeOK /\ ConsentOK /\ PanelOK
    BY DEF BoardsInv
  <1>1. ASSUME NEW kind \in {"dashboard", "board", "sheet"}, OpenPage(kind)
        PROVE  BoardsInv'
    <2> DEFINE ps == Cancelled(posts)
    <2>1. /\ ps \in [Posts -> PostRecord]
          /\ \A p \in Posts : ~ps[p].mine /\ ps[p].history = posts[p].history
      BY <1>0, CancelledType
    <2> HIDE DEF ps
    <2>2. /\ posts' = ps /\ panel' = NoPanel /\ load' = NoLoad /\ ~consent'
          /\ consent' \in BOOLEAN
          /\ UNCHANGED <<answers, submitted, store>>
      BY <1>1 DEF OpenPage, ps
    <2>3. NoPanel.runs = {} /\ NoLoad.pc = "none"
      BY DEF NoPanel, NoLoad
    <2>4. PanelOK'
      BY <1>0, <2>1, <2>2, <2>3 DEF PanelOK
    <2>5. /\ page' \in PageRecord /\ ~page'.loading /\ page'.mode = "anonymised"
          /\ page'.kind # "dashboard" => page'.badge = ClassifyDivergence(page'.cards)
      <3>1. CASE kind = "dashboard"
        BY <1>1, <3>1, BoardsDefaults DEF OpenPage, Closed
      <3>2. CASE kind # "dashboard"
        <4>1. page' = Comparison(answers, kind) /\ answers \in Sheets
          BY <1>0, <1>1, <3>2 DEF OpenPage, BoardsTypeOK
        <4> QED BY <3>2, <4>1, ComparisonType
      <3> QED BY <3>1, <3>2
    <2>6. BadgeOK'
      BY <2>5 DEF BadgeOK
    <2>7. ConsentOK'
      BY <2>2, <2>3, <2>5 DEF ConsentOK
    <2>8. count' \in [edits : Nat, posts : Nat, loads : Nat]
      BY <1>0, <1>1 DEF OpenPage, BoardsTypeOK
    <2>9. BoardsTypeOK'
      BY <1>0, <2>1, <2>2, <2>5, <2>8, BoardsDefaults DEF BoardsTypeOK
    <2> QED BY <2>4, <2>6, <2>7, <2>9 DEF BoardsInv
  <1>2. CASE ClosePanel
    <2> DEFINE ps == Cancelled(posts)
    <2>1. /\ ps \in [Posts -> PostRecord]
          /\ \A p \in Posts : ~ps[p].mine /\ ps[p].history = posts[p].history
      BY <1>0, CancelledType
    <2> HIDE DEF ps
    <2>2. /\ posts' = ps /\ panel' = NoPanel
          /\ UNCHANGED <<answers, submitted, page, load, store, consent, count>>
      BY <1>2 DEF ClosePanel, ps
    <2>3. NoPanel.runs = {}
      BY DEF NoPanel
    <2>4. PanelOK'
      BY <1>0, <2>1, <2>2, <2>3 DEF PanelOK
    <2>5. BadgeOK' /\ ConsentOK'
      BY <1>0, <2>2 DEF BadgeOK, ConsentOK
    <2>6. BoardsTypeOK'
      BY <1>0, <2>1, <2>2, BoardsDefaults DEF BoardsTypeOK
    <2> QED BY <2>4, <2>5, <2>6 DEF BoardsInv
  <1>3. ASSUME NEW m \in Members, SaveAnswer(m) \/ SubmitSheet(m) \/ UnlockMember(m)
        PROVE  BoardsInv'
    <2>1. UNCHANGED <<page, load, panel, posts, store, consent>>
      BY <1>3 DEF SaveAnswer, SubmitSheet, UnlockMember
    <2>2. answers' \in Sheets /\ submitted' \in [Members -> BOOLEAN]
      BY <1>0, <1>3 DEF SaveAnswer, SubmitSheet, UnlockMember, BoardsTypeOK, Sheets
    <2>3. count' \in [edits : Nat, posts : Nat, loads : Nat]
      BY <1>0, <1>3 DEF SaveAnswer, SubmitSheet, UnlockMember, Counted, BoardsTypeOK
    <2>4. BoardsTypeOK'
      BY <1>0, <2>1, <2>2, <2>3 DEF BoardsTypeOK
    <2>5. BadgeOK' /\ ConsentOK' /\ PanelOK'
      BY <1>0, <2>1 DEF BadgeOK, ConsentOK, PanelOK
    <2> QED BY <2>4, <2>5 DEF BoardsInv
  <1>4. CASE UNCHANGED boardsVars
    BY <1>0, <1>4 DEF boardsVars, BoardsInv, BoardsTypeOK, BadgeOK, ConsentOK, PanelOK
  <1> QED BY <1>1, <1>2, <1>3, <1>4, NamesStep, PanelStep DEF BoardsNext

-----------------------------------------------------------------------------
\* The pages keep their types, for every cohort.
THEOREM BoardsTyped == BoardsSpec => []BoardsTypeOK
  <1>1. BoardsInit => BoardsInv
    BY BoardsStart
  <1>2. BoardsInv /\ [BoardsNext]_boardsVars => BoardsInv'
    BY BoardsStep
  <1>3. BoardsInv => BoardsTypeOK
    BY DEF BoardsInv
  <1> QED BY <1>1, <1>2, <1>3, PTL DEF BoardsSpec

\* Names are on the wall by consent.
THEOREM NamesByConsent == BoardsSpec => []NamesNeedConsent
  <1>1. BoardsInit => BoardsInv
    BY BoardsStart
  <1>2. BoardsInv /\ [BoardsNext]_boardsVars => BoardsInv'
    BY BoardsStep
  <1>3. BoardsInv => NamesNeedConsent
    BY DEF BoardsInv, ConsentOK, NamesNeedConsent, NamesShown
  <1> QED BY <1>1, <1>2, <1>3, PTL DEF BoardsSpec

\* What a step does to an open panel: only the reply to its own post changes
\* what it shows.
LEMMA PanelGrows ==
  ASSUME BoardsInv, [BoardsNext]_boardsVars, panel.open, panel'.open
  PROVE  panel.runs \subseteq panel'.runs
  <1>0. PanelOK /\ panel \in PanelRecord
    BY DEF BoardsInv, BoardsTypeOK
  <1>1. ASSUME NEW kind \in {"dashboard", "board", "sheet"}, OpenPage(kind)
        PROVE  FALSE
    BY <1>1 DEF OpenPage, NoPanel
  <1>2. CASE ClosePanel
    BY <1>2 DEF ClosePanel, NoPanel
  <1>3. CASE \/ RequestAttributed \/ KeepAnonymised \/ ConfirmAttributed
             \/ Mint \/ Serve \/ ShowNames \/ NamesFail \/ SwitchToAnonymised
    BY <1>3 DEF RequestAttributed, KeepAnonymised, ConfirmAttributed, Mint, Serve,
                ShowNames, NamesFail, SwitchToAnonymised
  <1>4. ASSUME NEW m \in Members, SaveAnswer(m) \/ SubmitSheet(m) \/ UnlockMember(m)
        PROVE  panel' = panel
    BY <1>4 DEF SaveAnswer, SubmitSheet, UnlockMember
  <1>5. ASSUME NEW p \in Posts, Gate(p) \/ Generate(p) \/ Record(p) \/ List(p)
        PROVE  panel' = panel
    BY <1>5 DEF Gate, Generate, Record, List
  <1>6. ASSUME NEW p \in Posts, OpenPanel(p) PROVE FALSE
    BY <1>6 DEF OpenPanel
  <1>7. ASSUME NEW p \in Posts, Rerun(p) \/ AnalysisFails(p)
        PROVE  panel'.runs = panel.runs
    BY <1>0, <1>7 DEF Rerun, AnalysisFails, PanelRecord
  <1>8. ASSUME NEW p \in Posts, Reply(p) PROVE panel.runs \subseteq panel'.runs
    <2>1. CASE posts[p].mine
      <3>1. panel.runs \subseteq posts[p].history
        BY <1>0, <1>8, <2>1 DEF PanelOK, Reply
      <3>2. panel'.runs = posts[p].history
        BY <1>0, <1>8, <2>1 DEF Reply, PanelRecord
      <3> QED BY <3>1, <3>2
    <2>2. CASE ~posts[p].mine
      BY <1>8, <2>2 DEF Reply
    <2> QED BY <2>1, <2>2
  <1>9. CASE UNCHANGED boardsVars
    BY <1>9 DEF boardsVars
  <1> QED BY <1>1, <1>2, <1>3, <1>4, <1>5, <1>6, <1>7, <1>8, <1>9 DEF BoardsNext

\* What an open panel shows stays.
THEOREM PanelStays == BoardsSpec => PanelKeepsRuns
  <1>1. BoardsInit => BoardsInv
    BY BoardsStart
  <1>2. BoardsInv /\ [BoardsNext]_boardsVars => BoardsInv'
    BY BoardsStep
  <1>3. BoardsInv /\ [BoardsNext]_boardsVars
          => (panel.open /\ panel'.open => panel.runs \subseteq panel'.runs)
    BY PanelGrows
  <1> QED BY <1>1, <1>2, <1>3, PTL DEF BoardsSpec, PanelKeepsRuns

-----------------------------------------------------------------------------
(* Boards: what its loops compute                                          *)

\* How many of the first n places are in D.
UpTo(D, n) == Cardinality(D \cap (1..n))

\* Counting goes place by place.
LEMMA CountStep ==
  ASSUME NEW D, NEW n \in Nat
  PROVE  /\ UpTo(D, n) \in Nat /\ UpTo(D, 0) = 0
         /\ n + 1 \in D => UpTo(D, n + 1) = UpTo(D, n) + 1
         /\ n + 1 \notin D => UpTo(D, n + 1) = UpTo(D, n)
  <1>1. IsFiniteSet(1..n)
    BY FS_Interval
  <1>2. IsFiniteSet(D \cap (1..n))
    BY <1>1, FS_Subset
  <1>3. Cardinality(D \cap (1..n)) \in Nat
    BY <1>2, FS_CardinalityType
  <1>4. Cardinality(D \cap (1..0)) = 0
    <2>1. D \cap (1..0) = {}
      OBVIOUS
    <2> QED BY <2>1, FS_EmptySet
  <1>5. ASSUME n + 1 \in D
        PROVE  Cardinality(D \cap (1..(n + 1))) = Cardinality(D \cap (1..n)) + 1
    <2>1. D \cap (1..(n + 1)) = (D \cap (1..n)) \cup {n + 1}
      BY <1>5
    <2>2. n + 1 \notin D \cap (1..n)
      OBVIOUS
    <2> QED BY <1>2, <2>1, <2>2, FS_AddElement
  <1>6. ASSUME n + 1 \notin D PROVE D \cap (1..(n + 1)) = D \cap (1..n)
    BY <1>6
  <1> QED BY <1>3, <1>4, <1>5, <1>6 DEF UpTo

\* The loop behind PublicRows: member by member.
LEMMA RowsLoop ==
  ASSUME NEW a \in Sheets
  PROVE  \E f \in [0..Cardinality(Members) -> Seq(Values)] :
           /\ PublicRows(a) = f[Cardinality(Members)]
           /\ f[0] = <<>>
           /\ \A n \in Members : f[n] = IF a[n] = Absent THEN f[n - 1]
                                         ELSE Append(f[n - 1], a[n])
  <1> DEFINE N    == Cardinality(Members)
             X    == Seq(Values)
             step == [n \in 1..N |-> [x \in X |->
                       IF a[n] = Absent THEN x ELSE Append(x, a[n])]]
             rows == CHOOSE f : f = [n \in 0..N |->
                       IF n = 0 THEN <<>>
                       ELSE IF a[n] = Absent THEN f[n - 1] ELSE Append(f[n - 1], a[n])]
  <1>1. N \in Nat /\ Members = 1..N
    BY BoardsAssumption, FS_CardinalityType
  <1>2. PublicRows(a) = rows[N]
    BY DEF PublicRows
  <1>3. \A n \in 1..N : a[n] # Absent => a[n] \in Values
    BY <1>1 DEF Sheets
  <1>4. step \in [1..N -> [X -> X]] /\ <<>> \in X
    BY <1>3
  <1> HIDE DEF N, X, step, rows
  <1>p. \A n \in 1..N : n - 1 \in 0..N /\ n \in 0..N /\ n # 0
    BY <1>1
  <1>z. 0 \in 0..N
    BY <1>1
  <1>5. PICK f : IsLoop(f, N, X, <<>>, step)
    BY <1>1, <1>4, LoopExists
  <1>6. \A n \in 1..N : f[n] = IF a[n] = Absent THEN f[n - 1] ELSE Append(f[n - 1], a[n])
    <2> SUFFICES ASSUME NEW n \in 1..N
                 PROVE  f[n] = IF a[n] = Absent THEN f[n - 1] ELSE Append(f[n - 1], a[n])
      OBVIOUS
    <2>1. f[n - 1] \in X /\ f[n] = step[n][f[n - 1]]
      BY <1>5, <1>p DEF IsLoop
    <2> QED BY <2>1 DEF step
  <1>7. f = [n \in 0..N |-> IF n = 0 THEN <<>>
                            ELSE IF a[n] = Absent THEN f[n - 1] ELSE Append(f[n - 1], a[n])]
    <2> DEFINE h == [n \in 0..N |-> IF n = 0 THEN <<>>
                     ELSE IF a[n] = Absent THEN f[n - 1] ELSE Append(f[n - 1], a[n])]
    <2>1. f \in [0..N -> X] /\ f[0] = <<>>
      BY <1>5 DEF IsLoop
    <2>2. \A n \in 0..N : h[n] = IF n = 0 THEN <<>>
                     ELSE IF a[n] = Absent THEN f[n - 1] ELSE Append(f[n - 1], a[n])
      OBVIOUS
    <2>d. DOMAIN h = 0..N
      OBVIOUS
    <2> HIDE DEF h
    <2>3. \A n \in 0..N : n = 0 \/ n \in 1..N
      BY <1>1
    <2>4. \A n \in 0..N : f[n] = h[n]
      BY <1>6, <2>1, <2>2, <2>3
    <2> QED BY <2>1, <2>4, <2>d DEF h
  <1>8. rows = [n \in 0..N |-> IF n = 0 THEN <<>>
                      ELSE IF a[n] = Absent THEN rows[n - 1] ELSE Append(rows[n - 1], a[n])]
    BY <1>7 DEF rows
  <1>9. rows[0] = <<>>
    BY <1>8, <1>z
  <1>a. \A n \in 1..N : rows[n] = IF a[n] = Absent THEN rows[n - 1]
                                   ELSE Append(rows[n - 1], a[n])
    BY <1>8, <1>p
  <1>r. 0..N \subseteq {n \in 0..N : rows[n] \in X}
    <2> DEFINE S == {n \in 0..N : rows[n] \in X}
    <2>1. 0 \in S
      BY <1>z, <1>4, <1>9
    <2>2. ASSUME NEW n \in 0..N, n < N, n \in S PROVE n + 1 \in S
      <3>1. n + 1 \in 1..N /\ (n + 1) - 1 = n /\ n + 1 \in 0..N
        BY <1>1, <2>2
      <3>2. rows[n + 1] = IF a[n + 1] = Absent THEN rows[n] ELSE Append(rows[n], a[n + 1])
        BY <1>a, <3>1
      <3>3. rows[n] \in Seq(Values)
        BY <2>2 DEF X
      <3>4. rows[n + 1] \in Seq(Values)
        BY <1>3, <3>1, <3>2, <3>3
      <3> QED BY <3>1, <3>4 DEF X
    <2> HIDE DEF S
    <2> QED BY <1>1, <2>1, <2>2, BoundedInduction DEF S
  <1>t. rows \in [0..N -> X]
    BY <1>8, <1>r
  <1> QED BY <1>1, <1>2, <1>9, <1>a, <1>t DEF N, X

-----------------------------------------------------------------------------
Tally == [counts : [Signatures -> Nat], modal : Signatures \cup {"none"}, most : Nat]
Mean  == [set : Nat, sum : Nat]

\* What is counted of a card keeps its type.
LEMMA TallyType ==
  /\ NoTally \in Tally
  /\ \A t \in Tally : \A v \in Values : Tallied(t, v) \in Tally
  <1>1. NoTally \in Tally
    BY DEF NoTally, Tally
  <1>2. ASSUME NEW t \in Tally, NEW v \in Values PROVE Tallied(t, v) \in Tally
    <2>1. v.sig \in Signatures
      BY DEF Signatures
    <2> DEFINE c == t.counts[v.sig] + 1
    <2>2. c \in Nat
      BY <2>1 DEF Tally
    <2> HIDE DEF c
    <2>3. [t.counts EXCEPT ![v.sig] = c] \in [Signatures -> Nat]
      BY <2>1, <2>2 DEF Tally
    <2>4. Tallied(t, v) = [counts |-> [t.counts EXCEPT ![v.sig] = c],
                           modal  |-> IF c > t.most THEN v.sig ELSE t.modal,
                           most   |-> IF c > t.most THEN c ELSE t.most]
      BY DEF Tallied, c
    <2> QED BY <2>1, <2>2, <2>3, <2>4 DEF Tally
  <1> QED BY <1>1, <1>2

\* So does what is summed.
LEMMA MeanType ==
  /\ [set |-> 0, sum |-> 0] \in Mean
  /\ \A t \in Mean : \A v \in Values : Averaged(t, v) \in Mean
  BY BoardsAssumption DEF Mean, Averaged


\* The loop behind ComputeAgreement: card by card.
LEMMA TallyLoop ==
  ASSUME NEW cards \in Seq(Values)
  PROVE  \E f \in [0..Len(cards) -> Tally] :
           /\ ComputeAgreement(cards) = f[Len(cards)]
           /\ f[0] = NoTally
           /\ \A n \in 1..Len(cards) : f[n] = Tallied(f[n - 1], cards[n])
  <1> DEFINE N    == Len(cards)
             step == [n \in 1..N |-> [x \in Tally |-> Tallied(x, cards[n])]]
             loop == CHOOSE f : f = [n \in 0..N |->
                       IF n = 0 THEN NoTally ELSE Tallied(f[n - 1], cards[n])]
  <1>1. N \in Nat
    OBVIOUS
  <1>2. ComputeAgreement(cards) = loop[N]
    BY DEF ComputeAgreement
  <1>3. \A n \in 1..N : cards[n] \in Values
    OBVIOUS
  <1>4. NoTally \in Tally /\ \A n \in 1..N : \A x \in Tally : Tallied(x, cards[n]) \in Tally
    BY <1>3, TallyType
  <1> HIDE DEF N
  <1>s. step \in [1..N -> [Tally -> Tally]]
    BY <1>4
  <1> HIDE DEF step, loop
  <1>p. \A n \in 1..N : n - 1 \in 0..N /\ n \in 0..N /\ n # 0
    BY <1>1
  <1>z. 0 \in 0..N
    BY <1>1
  <1>5. PICK f : IsLoop(f, N, Tally, NoTally, step)
    BY <1>1, <1>4, <1>s, LoopExists
  <1>6. \A n \in 1..N : f[n] = Tallied(f[n - 1], cards[n])
    <2> SUFFICES ASSUME NEW n \in 1..N PROVE f[n] = Tallied(f[n - 1], cards[n])
      OBVIOUS
    <2>1. f[n - 1] \in Tally /\ f[n] = step[n][f[n - 1]]
      BY <1>5, <1>p DEF IsLoop
    <2> QED BY <2>1 DEF step
  <1>7. f = [n \in 0..N |-> IF n = 0 THEN NoTally ELSE Tallied(f[n - 1], cards[n])]
    <2> DEFINE h == [n \in 0..N |-> IF n = 0 THEN NoTally
                                    ELSE Tallied(f[n - 1], cards[n])]
    <2>1. f \in [0..N -> Tally] /\ f[0] = NoTally
      BY <1>5 DEF IsLoop
    <2>2. \A n \in 0..N : h[n] = IF n = 0 THEN NoTally
                                 ELSE Tallied(f[n - 1], cards[n])
      OBVIOUS
    <2>d. DOMAIN h = 0..N
      OBVIOUS
    <2> HIDE DEF h
    <2>3. \A n \in 0..N : n = 0 \/ n \in 1..N
      BY <1>1
    <2>4. \A n \in 0..N : f[n] = h[n]
      BY <1>6, <2>1, <2>2, <2>3
    <2> QED BY <2>1, <2>4, <2>d DEF h
  <1>8. loop = [n \in 0..N |-> IF n = 0 THEN NoTally
                               ELSE Tallied(loop[n - 1], cards[n])]
    BY <1>7 DEF loop
  <1>9. loop[0] = NoTally
    BY <1>8, <1>z
  <1>a. \A n \in 1..N : loop[n] = Tallied(loop[n - 1], cards[n])
    BY <1>8, <1>p
  <1>r. 0..N \subseteq {n \in 0..N : loop[n] \in Tally}
    <2> DEFINE S == {n \in 0..N : loop[n] \in Tally}
    <2>1. 0 \in S
      BY <1>z, <1>4, <1>9
    <2>2. ASSUME NEW n \in 0..N, n < N, n \in S PROVE n + 1 \in S
      <3>1. n + 1 \in 1..N /\ (n + 1) - 1 = n /\ n + 1 \in 0..N
        BY <1>1, <2>2
      <3>2. loop[n + 1] = Tallied(loop[n], cards[n + 1])
        BY <1>a, <3>1
      <3> QED BY <1>4, <2>2, <3>1, <3>2
    <2> HIDE DEF S
    <2> QED BY <1>1, <2>1, <2>2, BoundedInduction DEF S
  <1>t. loop \in [0..N -> Tally]
    BY <1>8, <1>r
  <1> QED BY <1>1, <1>2, <1>9, <1>a, <1>t DEF N

\* The loop behind MeanConfidence: card by card.
LEMMA MeanLoop ==
  ASSUME NEW cards \in Seq(Values)
  PROVE  \E f \in [0..Len(cards) -> Mean] :
           /\ MeanConfidence(cards) = f[Len(cards)]
           /\ f[0] = [set |-> 0, sum |-> 0]
           /\ \A n \in 1..Len(cards) : f[n] = Averaged(f[n - 1], cards[n])
  <1> DEFINE N    == Len(cards)
             step == [n \in 1..N |-> [x \in Mean |-> Averaged(x, cards[n])]]
             loop == CHOOSE f : f = [n \in 0..N |->
                       IF n = 0 THEN [set |-> 0, sum |-> 0] ELSE Averaged(f[n - 1], cards[n])]
  <1>1. N \in Nat
    OBVIOUS
  <1>2. MeanConfidence(cards) = loop[N]
    BY DEF MeanConfidence
  <1>3. \A n \in 1..N : cards[n] \in Values
    OBVIOUS
  <1>4. /\ [set |-> 0, sum |-> 0] \in Mean
        /\ \A n \in 1..N : \A x \in Mean : Averaged(x, cards[n]) \in Mean
    BY <1>3, MeanType
  <1> HIDE DEF N
  <1>s. step \in [1..N -> [Mean -> Mean]]
    BY <1>4
  <1> HIDE DEF step, loop
  <1>p. \A n \in 1..N : n - 1 \in 0..N /\ n \in 0..N /\ n # 0
    BY <1>1
  <1>z. 0 \in 0..N
    BY <1>1
  <1>5. PICK f : IsLoop(f, N, Mean, [set |-> 0, sum |-> 0], step)
    BY <1>1, <1>4, <1>s, LoopExists
  <1>6. \A n \in 1..N : f[n] = Averaged(f[n - 1], cards[n])
    <2> SUFFICES ASSUME NEW n \in 1..N PROVE f[n] = Averaged(f[n - 1], cards[n])
      OBVIOUS
    <2>1. f[n - 1] \in Mean /\ f[n] = step[n][f[n - 1]]
      BY <1>5, <1>p DEF IsLoop
    <2> QED BY <2>1 DEF step
  <1>7. f = [n \in 0..N |-> IF n = 0 THEN [set |-> 0, sum |-> 0]
                            ELSE Averaged(f[n - 1], cards[n])]
    <2> DEFINE h == [n \in 0..N |-> IF n = 0 THEN [set |-> 0, sum |-> 0]
                                    ELSE Averaged(f[n - 1], cards[n])]
    <2>1. f \in [0..N -> Mean] /\ f[0] = [set |-> 0, sum |-> 0]
      BY <1>5 DEF IsLoop
    <2>2. \A n \in 0..N : h[n] = IF n = 0 THEN [set |-> 0, sum |-> 0]
                                 ELSE Averaged(f[n - 1], cards[n])
      OBVIOUS
    <2>d. DOMAIN h = 0..N
      OBVIOUS
    <2> HIDE DEF h
    <2>3. \A n \in 0..N : n = 0 \/ n \in 1..N
      BY <1>1
    <2>4. \A n \in 0..N : f[n] = h[n]
      BY <1>6, <2>1, <2>2, <2>3
    <2> QED BY <2>1, <2>4, <2>d DEF h
  <1>8. loop = [n \in 0..N |-> IF n = 0 THEN [set |-> 0, sum |-> 0]
                               ELSE Averaged(loop[n - 1], cards[n])]
    BY <1>7 DEF loop
  <1>9. loop[0] = [set |-> 0, sum |-> 0]
    BY <1>8, <1>z
  <1>a. \A n \in 1..N : loop[n] = Averaged(loop[n - 1], cards[n])
    BY <1>8, <1>p
  <1>r. 0..N \subseteq {n \in 0..N : loop[n] \in Mean}
    <2> DEFINE S == {n \in 0..N : loop[n] \in Mean}
    <2>1. 0 \in S
      BY <1>z, <1>4, <1>9
    <2>2. ASSUME NEW n \in 0..N, n < N, n \in S PROVE n + 1 \in S
      <3>1. n + 1 \in 1..N /\ (n + 1) - 1 = n /\ n + 1 \in 0..N
        BY <1>1, <2>2
      <3>2. loop[n + 1] = Averaged(loop[n], cards[n + 1])
        BY <1>a, <3>1
      <3> QED BY <1>4, <2>2, <3>1, <3>2
    <2> HIDE DEF S
    <2> QED BY <1>1, <2>1, <2>2, BoundedInduction DEF S
  <1>t. loop \in [0..N -> Mean]
    BY <1>8, <1>r
  <1> QED BY <1>1, <1>2, <1>9, <1>a, <1>t DEF N

SigAt(cards, s)  == {i \in 1..Len(cards) : cards[i].sig = s}
ConfAt(cards, c) == {i \in 1..Len(cards) : cards[i].conf = c}
SetAt(cards)     == {i \in 1..Len(cards) : cards[i].conf > 0}

\* All the places are the first Len(cards) of them.
LEMMA UpToAll ==
  ASSUME NEW k \in Nat, NEW D, D \subseteq 1..k
  PROVE  UpTo(D, k) = Cardinality(D)
  <1>1. D \cap (1..k) = D
    OBVIOUS
  <1> QED BY <1>1 DEF UpTo

\* What ComputeAgreement counts: most is the greatest number of cards that say the
\* same.
LEMMA AgreementIs ==
  ASSUME NEW cards \in Seq(Values)
  PROVE  /\ ComputeAgreement(cards).most \in Nat
         /\ \A s \in Signatures :
              /\ Cardinality(SigAt(cards, s)) \in Nat
              /\ Cardinality(SigAt(cards, s)) <= ComputeAgreement(cards).most
         /\ cards = <<>> => ComputeAgreement(cards).most = 0
         /\ cards # <<>> =>
              \E s \in Signatures :
                ComputeAgreement(cards).most = Cardinality(SigAt(cards, s))
  <1> DEFINE N == Len(cards)
  <1>1. N \in Nat /\ \A i \in 1..N : cards[i] \in Values /\ cards[i].sig \in Signatures
    BY DEF Signatures
  <1>2. PICK f \in [0..N -> Tally] :
           /\ ComputeAgreement(cards) = f[N]
           /\ f[0] = NoTally
           /\ \A n \in 1..N : f[n] = Tallied(f[n - 1], cards[n])
    BY TallyLoop
  <1>e. cards = <<>> <=> N = 0
    OBVIOUS
  <1> HIDE DEF N
  <1> DEFINE Counts(n) == \A s \in Signatures : f[n].counts[s] = UpTo(SigAt(cards, s), n)
             Bounds(n) == \A s \in Signatures : f[n].counts[s] <= f[n].most
             Meets(n)  == IF n = 0 THEN f[n].most = 0
                          ELSE \E s \in Signatures : f[n].most = f[n].counts[s]
             S == {n \in 0..N : Counts(n) /\ Bounds(n) /\ Meets(n)}
  <1>3. 0 \in S
    <2>1. 0 \in 0..N
      BY <1>1
    <2>2. f[0].most = 0 /\ \A s \in Signatures : f[0].counts[s] = 0
      BY <1>2 DEF NoTally
    <2>3. \A D : UpTo(D, 0) = 0
      BY CountStep
    <2> QED BY <2>1, <2>2, <2>3
  <1>4. ASSUME NEW n \in 0..N, n < N, n \in S PROVE n + 1 \in S
    <2>1. n + 1 \in 1..N /\ (n + 1) - 1 = n /\ n + 1 \in 0..N /\ n \in Nat /\ n + 1 # 0
      BY <1>1, <1>4
    <2> DEFINE v == cards[n + 1]
               c == f[n].counts[v.sig] + 1
    <2>2. f[n + 1] = Tallied(f[n], v)
      BY <1>2, <2>1
    <2>3. v.sig \in Signatures /\ f[n] \in Tally /\ f[n + 1] \in Tally
      BY <1>1, <1>2, <2>1
    <2>4. f[n + 1].counts = [f[n].counts EXCEPT ![v.sig] = c]
          /\ f[n + 1].most = IF c > f[n].most THEN c ELSE f[n].most
      BY <2>2 DEF Tallied
    <2> HIDE DEF v
    <2>t. f[n].counts \in [Signatures -> Nat] /\ f[n].most \in Nat
      BY <2>3 DEF Tally
    <2>5. c \in Nat /\ f[n].most \in Nat /\ \A s \in Signatures : f[n].counts[s] \in Nat
      BY <2>3, <2>t
    <2>6. \A s \in Signatures :
            f[n + 1].counts[s] = IF s = v.sig THEN c ELSE f[n].counts[s]
      BY <2>3, <2>4 DEF Tally
    <2>7. Counts(n) /\ Bounds(n) /\ Meets(n)
      BY <1>4
    <2>8. Counts(n + 1)
      <3> SUFFICES ASSUME NEW s \in Signatures
                   PROVE  f[n + 1].counts[s] = UpTo(SigAt(cards, s), n + 1)
        OBVIOUS
      <3>1. n + 1 \in SigAt(cards, s) <=> s = v.sig
        BY <2>1 DEF SigAt, v, N
      <3>2. f[n].counts[s] = UpTo(SigAt(cards, s), n)
        BY <2>7
      <3>3. /\ s = v.sig => UpTo(SigAt(cards, s), n + 1) = UpTo(SigAt(cards, s), n) + 1
            /\ s # v.sig => UpTo(SigAt(cards, s), n + 1) = UpTo(SigAt(cards, s), n)
        BY <2>1, <3>1, CountStep
      <3> QED BY <2>6, <3>2, <3>3
    <2>9. Bounds(n + 1)
      <3> SUFFICES ASSUME NEW s \in Signatures
                   PROVE  f[n + 1].counts[s] <= f[n + 1].most
        OBVIOUS
      <3>1. f[n].counts[s] <= f[n].most /\ f[n].counts[s] \in Nat
        BY <2>5, <2>7
      <3> HIDE DEF c
      <3> QED BY <2>4, <2>5, <2>6, <3>1
    <2>a. Meets(n + 1)
      <3>1. CASE c > f[n].most
        <4>1. f[n + 1].most = f[n + 1].counts[v.sig]
          BY <2>3, <2>4, <2>6, <3>1
        <4> QED BY <2>1, <2>3, <4>1
      <3>2. CASE ~(c > f[n].most)
        <4>1. n # 0
          BY <2>5, <2>7, <3>2, <2>3
        <4>2. PICK s \in Signatures : f[n].most = f[n].counts[s]
          BY <2>7, <4>1
        <4>3. s # v.sig
          BY <2>3, <2>5, <3>2, <4>2
        <4>4. f[n + 1].most = f[n + 1].counts[s]
          BY <2>4, <2>6, <3>2, <4>2, <4>3
        <4> QED BY <2>1, <4>4
      <3> QED BY <3>1, <3>2
    <2> QED BY <2>1, <2>8, <2>9, <2>a
  <1> HIDE DEF S
  <1>5. N \in S
    <2>1. 0..N \subseteq S
      BY <1>1, <1>3, <1>4, BoundedInduction
    <2> QED BY <1>1, <2>1
  <1>6. Counts(N) /\ Bounds(N) /\ Meets(N)
    BY <1>5 DEF S
  <1>7. f[N] \in Tally
    BY <1>1, <1>2
  <1>8. \A s \in Signatures : f[N].counts[s] = Cardinality(SigAt(cards, s))
    <2>1. \A s \in Signatures : SigAt(cards, s) \subseteq 1..N
      BY DEF SigAt, N
    <2> QED BY <1>1, <1>6, <2>1, UpToAll
  <1>9. f[N].most \in Nat /\ \A s \in Signatures : f[N].counts[s] \in Nat
    BY <1>7 DEF Tally
  <1> QED BY <1>2, <1>6, <1>8, <1>9, <1>e

\* The sum over the five positions of the slider, a[c] times c.
Weighed(a) == a[1] + 2 * a[2] + 3 * a[3] + 4 * a[4] + 5 * a[5]

\* How often each position is set among the first n cards.
Marks(cards, n) == [c \in 1..5 |-> UpTo(ConfAt(cards, c), n)]

\* One more card at d adds d to the sum.
LEMMA SumStep ==
  ASSUME NEW a \in [1..5 -> Nat], NEW b \in [1..5 -> Nat], NEW d \in 0..5,
         \A c \in 1..5 : b[c] = IF d = c THEN a[c] + 1 ELSE a[c]
  PROVE  Weighed(b) = Weighed(a) + d
  <1>1. /\ a[1] \in Nat /\ a[2] \in Nat /\ a[3] \in Nat /\ a[4] \in Nat /\ a[5] \in Nat
        /\ b[1] = IF d = 1 THEN a[1] + 1 ELSE a[1]
        /\ b[2] = IF d = 2 THEN a[2] + 1 ELSE a[2]
        /\ b[3] = IF d = 3 THEN a[3] + 1 ELSE a[3]
        /\ b[4] = IF d = 4 THEN a[4] + 1 ELSE a[4]
        /\ b[5] = IF d = 5 THEN a[5] + 1 ELSE a[5]
    OBVIOUS
  <1> QED BY <1>1 DEF Weighed

\* What MeanConfidence sums: the sliders that are set, and what they are set to.
LEMMA MeanIs ==
  ASSUME NEW cards \in Seq(Values)
  PROVE  /\ MeanConfidence(cards).set = HowMany(cards)
         /\ MeanConfidence(cards).sum = AltogetherOf(cards)
  <1> DEFINE N == Len(cards)
  <1>1. N \in Nat /\ \A i \in 1..N : cards[i].conf \in 0..5
    BY BoardsAssumption
  <1>2. PICK f \in [0..N -> Mean] :
           /\ MeanConfidence(cards) = f[N]
           /\ f[0] = [set |-> 0, sum |-> 0]
           /\ \A n \in 1..N : f[n] = Averaged(f[n - 1], cards[n])
    BY MeanLoop
  <1>d. DOMAIN cards = 1..N
    OBVIOUS
  <1> HIDE DEF N
  <1> DEFINE S == {n \in 0..N : /\ f[n].set = UpTo(SetAt(cards), n)
                                /\ f[n].sum = Weighed(Marks(cards, n))}
  <1>3. 0 \in S
    <2>1. 0 \in 0..N
      BY <1>1
    <2>2. f[0].set = 0 /\ f[0].sum = 0
      BY <1>2
    <2>3. \A D : UpTo(D, 0) = 0
      BY CountStep
    <2>4. \A c \in 1..5 : Marks(cards, 0)[c] = 0
      BY <2>3 DEF Marks
    <2>5. Weighed(Marks(cards, 0)) = 0
      BY <2>4 DEF Weighed
    <2> QED BY <2>1, <2>2, <2>3, <2>5
  <1>4. ASSUME NEW n \in 0..N, n < N, n \in S PROVE n + 1 \in S
    <2>b. f[n].set = UpTo(SetAt(cards), n) /\ f[n].sum = Weighed(Marks(cards, n))
      BY <1>4
    <2> HIDE DEF S
    <2>1. n + 1 \in 1..N /\ (n + 1) - 1 = n /\ n + 1 \in 0..N /\ n \in Nat /\ n + 1 \in Nat
      BY <1>1, <1>4
    <2> DEFINE d == cards[n + 1].conf
    <2>2. d \in 0..5
      BY <1>1, <2>1
    <2>3. f[n + 1] = Averaged(f[n], cards[n + 1])
      BY <1>2, <2>1
    <2>4. f[n].set \in Nat /\ f[n].sum \in Nat
      BY <1>2 DEF Mean
    <2>5. /\ f[n + 1].set = IF d = 0 THEN f[n].set ELSE f[n].set + 1
          /\ f[n + 1].sum = f[n].sum + d
      BY <2>2, <2>3, <2>4 DEF Averaged
    <2>6. n + 1 \in SetAt(cards) <=> d > 0
      BY <2>1 DEF SetAt, N
    <2>7. \A c \in 1..5 : n + 1 \in ConfAt(cards, c) <=> d = c
      BY <2>1 DEF ConfAt, N
    <2> HIDE DEF d
    <2>8. \A c \in 1..5 : UpTo(ConfAt(cards, c), n + 1)
                = IF d = c THEN UpTo(ConfAt(cards, c), n) + 1 ELSE UpTo(ConfAt(cards, c), n)
      BY <2>1, <2>7, CountStep
    <2>9. UpTo(SetAt(cards), n + 1)
            = IF d = 0 THEN UpTo(SetAt(cards), n) ELSE UpTo(SetAt(cards), n) + 1
      BY <2>1, <2>2, <2>6, CountStep
    <2>a. \A c \in 1..5 : Marks(cards, n + 1)[c]
                            = IF d = c THEN Marks(cards, n)[c] + 1 ELSE Marks(cards, n)[c]
      BY <2>8 DEF Marks
    <2>e. Marks(cards, n) \in [1..5 -> Nat] /\ Marks(cards, n + 1) \in [1..5 -> Nat]
      BY <2>1, CountStep DEF Marks
    <2>f. Weighed(Marks(cards, n + 1)) = Weighed(Marks(cards, n)) + d
      BY <2>2, <2>a, <2>e, SumStep
    <2> QED BY <2>1, <2>5, <2>9, <2>b, <2>f DEF S
  <1> HIDE DEF S
  <1>5. N \in S
    <2>1. 0..N \subseteq S
      BY <1>1, <1>3, <1>4, BoundedInduction
    <2> QED BY <1>1, <2>1
  <1>6. f[N].set = UpTo(SetAt(cards), N) /\ f[N].sum = Weighed(Marks(cards, N))
    BY <1>5 DEF S
  <1>7. UpTo(SetAt(cards), N) = HowMany(cards)
    <2>1. /\ SetAt(cards) \subseteq 1..N
          /\ SetAt(cards) = {i \in DOMAIN cards : cards[i].conf > 0}
      BY <1>d DEF SetAt, N
    <2> QED BY <1>1, <2>1, UpToAll DEF HowMany
  <1>8. \A c \in 1..5 : Marks(cards, N)[c] = SetTo(cards, c)
    <2> SUFFICES ASSUME NEW c \in 1..5 PROVE UpTo(ConfAt(cards, c), N) = SetTo(cards, c)
      BY DEF Marks
    <2>1. ConfAt(cards, c) \subseteq 1..N
          /\ ConfAt(cards, c) = {i \in DOMAIN cards : cards[i].conf = c}
      BY <1>d DEF ConfAt, N
    <2> QED BY <1>1, <2>1, UpToAll DEF SetTo
  <1>9. f[N].sum = AltogetherOf(cards)
    BY <1>6, <1>8 DEF AltogetherOf, Weighed
  <1> QED BY <1>2, <1>6, <1>7, <1>9

\* There are k numbers in 1..k.
LEMMA PlacesCount ==
  ASSUME NEW k \in Nat
  PROVE  IsFiniteSet(1..k) /\ Cardinality(1..k) = k
  <1>1. IsFiniteSet(1..k) /\ Cardinality(1..k) = IF 1 > k THEN 0 ELSE k - 1 + 1
    BY FS_Interval
  <1> QED BY <1>1

\* The verdict the code computes is FR-31's.
LEMMA VerdictIs ==
  ASSUME NEW cards \in Seq(Values)
  PROVE  ClassifyDivergence(cards) = Verdict(cards)
  <1> DEFINE N == Len(cards)
             most == ComputeAgreement(cards).most
  <1>e. N \in Nat /\ DOMAIN cards = 1..N /\ (cards = <<>> <=> N = 0)
    OBVIOUS
  <1>0. N \in Nat /\ DOMAIN cards = 1..N /\ (cards = <<>> <=> N = 0)
        /\ IsFiniteSet(1..N) /\ Cardinality(1..N) = N
    BY <1>e, PlacesCount
  <1>1. SigsOf(cards) = {cards[i].sig : i \in 1..N}
    BY <1>0 DEF SigsOf
  <1>s. \A i \in 1..N : cards[i].sig \in Signatures
    BY DEF Signatures
  <1>f. IsFiniteSet(SigsOf(cards)) /\ Cardinality(SigsOf(cards)) \in Nat
    <2> DEFINE g == [i \in 1..N |-> cards[i].sig]
    <2>1. g \in Surjection(1..N, SigsOf(cards))
      BY <1>1 DEF Surjection
    <2> QED BY <1>0, <2>1, FS_Surjection, FS_CardinalityType
  <1>m. /\ most \in Nat
        /\ \A s \in Signatures : /\ Cardinality(SigAt(cards, s)) \in Nat
                                 /\ Cardinality(SigAt(cards, s)) <= most
        /\ cards # <<>> => \E s \in Signatures : most = Cardinality(SigAt(cards, s))
    BY AgreementIs
  <1>d. \A s : SigAt(cards, s) \subseteq 1..N
    BY DEF SigAt
  <1>w. Sure(cards) <=> HowMany(cards) > 0 /\ AltogetherOf(cards) >= 4 * HowMany(cards)
    BY MeanIs DEF Sure
  <1> HIDE DEF N, most
  <1>2. CASE cards = <<>>
    <2>1. SigsOf(cards) = {}
      BY <1>0, <1>1, <1>2
    <2>2. Cardinality(SigsOf(cards)) = 0
      BY <2>1, FS_EmptySet
    <2> QED BY <1>2, <2>2 DEF ClassifyDivergence, Verdict
  <1>3. CASE cards # <<>>
    <2>0. N > 0 /\ 1 \in 1..N
      BY <1>0, <1>3
    <2>1. Cardinality(SigsOf(cards)) # 0
      <3>1. cards[1].sig \in SigsOf(cards)
        BY <1>1, <2>0
      <3> QED BY <1>f, <3>1, FS_EmptySet
    <2>2. ASSUME Cardinality(SigsOf(cards)) = 1 PROVE most = N
      <3>1. PICK s : SigsOf(cards) = {s}
        BY <1>f, <2>2, FS_Singleton
      <3>2. \A i \in 1..N : cards[i].sig = s
        BY <1>1, <3>1
      <3>3. SigAt(cards, s) = 1..N /\ s \in Signatures
        BY <1>s, <2>0, <3>2 DEF SigAt, N
      <3>4. N <= most
        BY <1>0, <1>m, <3>3
      <3>5. PICK z \in Signatures : most = Cardinality(SigAt(cards, z))
        BY <1>3, <1>m
      <3>6. Cardinality(SigAt(cards, z)) <= Cardinality(1..N)
        BY <1>0, <1>d, FS_Subset
      <3> QED BY <1>0, <1>m, <3>4, <3>5, <3>6
    <2>3. ASSUME most = N PROVE Cardinality(SigsOf(cards)) = 1
      <3>1. PICK z \in Signatures : most = Cardinality(SigAt(cards, z))
        BY <1>3, <1>m
      <3>2. Cardinality(SigAt(cards, z)) = Cardinality(1..N)
        BY <1>0, <2>3, <3>1
      <3>3. SigAt(cards, z) = 1..N
        BY <1>0, <1>d, <3>2, FS_Subset
      <3>4. \A i \in 1..N : cards[i].sig = z
        BY <3>3 DEF SigAt
      <3>5. SigsOf(cards) = {z}
        BY <1>1, <2>0, <3>4
      <3> QED BY <3>5, FS_Singleton
    <2>4. ClassifyDivergence(cards)
            = IF most = N THEN "aligned"
              ELSE IF Sure(cards) THEN "hard split" ELSE "soft split"
      BY <1>3 DEF ClassifyDivergence, most, N
    <2>5. CASE most = N
      <3>1. Cardinality(SigsOf(cards)) = 1
        BY <2>3, <2>5
      <3> QED BY <1>3, <2>4, <2>5, <3>1 DEF Verdict
    <2>6. CASE most # N
      <3>1. Cardinality(SigsOf(cards)) # 1 /\ Cardinality(SigsOf(cards)) > 1
        BY <1>f, <2>1, <2>2, <2>6
      <3>2. Verdict(cards) = IF HowMany(cards) > 0 /\ AltogetherOf(cards) >= 4 * HowMany(cards)
                               THEN "hard split" ELSE "soft split"
        BY <1>3, <3>1 DEF Verdict
      <3>3. CASE Sure(cards)
        BY <1>w, <2>4, <2>6, <3>2, <3>3
      <3>4. CASE ~Sure(cards)
        BY <1>w, <2>4, <2>6, <3>2, <3>4
      <3> QED BY <3>3, <3>4
    <2> QED BY <2>5, <2>6
  <1> QED BY <1>2, <1>3

\* The rows of a sheet are cards.
LEMMA RowsAreCards ==
  ASSUME NEW a \in Sheets
  PROVE  PublicRows(a) \in Seq(Values)
  <1>1. Cardinality(Members) \in 0..Cardinality(Members)
    BY BoardsAssumption, FS_CardinalityType
  <1> QED BY <1>1, RowsLoop

\* The badge on the page is the verdict on its cards.
THEOREM BadgeIsVerdict == BoardsSpec => []BadgeMatchesCards
  <1>1. BoardsInit => BoardsInv
    BY BoardsStart
  <1>2. BoardsInv /\ [BoardsNext]_boardsVars => BoardsInv'
    BY BoardsStep
  <1>3. BoardsInv => BadgeMatchesCards
    <2> SUFFICES ASSUME BoardsInv, page.kind # "dashboard"
                 PROVE  page.badge = Verdict(page.cards)
      BY DEF BadgeMatchesCards
    <2>1. page.badge = ClassifyDivergence(page.cards)
      BY DEF BoardsInv, BadgeOK
    <2>2. page.cards \in CardRows
      BY DEF BoardsInv, BoardsTypeOK, PageRecord
    <2>3. page.cards \in Seq(Values)
      <3>1. <<>> \in Seq(Values)
        OBVIOUS
      <3> QED BY <2>2, <3>1, RowsAreCards DEF CardRows
    <2> QED BY <2>1, <2>3, VerdictIs
  <1> QED BY <1>1, <1>2, <1>3, PTL DEF BoardsSpec

-----------------------------------------------------------------------------
\* Who of the members has answered something in W, what they see of it.
Answerers(a, W) == {m \in Members : a[m] # Absent /\ a[m] \in W}
Showing(cards, W) == {i \in 1..Len(cards) : cards[i] \in W}

\* The rows of a sheet are its answers, each once.
LEMMA RowsCount ==
  ASSUME NEW a \in Sheets, NEW W
  PROVE  Cardinality(Showing(PublicRows(a), W)) = Cardinality(Answerers(a, W))
  <1> DEFINE N == Cardinality(Members)
  <1>1. N \in Nat /\ Members = 1..N
    BY BoardsAssumption, FS_CardinalityType
  <1>2. PICK f \in [0..N -> Seq(Values)] :
           /\ PublicRows(a) = f[N]
           /\ f[0] = <<>>
           /\ \A n \in Members : f[n] = IF a[n] = Absent THEN f[n - 1]
                                         ELSE Append(f[n - 1], a[n])
    BY RowsLoop
  <1> HIDE DEF N
  <1> DEFINE Holds(n) == Cardinality(Showing(f[n], W)) = UpTo(Answerers(a, W), n)
             S == {n \in 0..N : Holds(n)}
  <1>3. 0 \in S
    <2>1. Showing(f[0], W) = {}
      BY <1>2 DEF Showing
    <2>2. Cardinality(Showing(f[0], W)) = 0
      BY <2>1, FS_EmptySet
    <2>3. UpTo(Answerers(a, W), 0) = 0
      BY CountStep, 0 \in Nat
    <2> QED BY <1>1, <2>2, <2>3
  <1>4. ASSUME NEW n \in 0..N, n < N, n \in S PROVE n + 1 \in S
    <2>h. Holds(n)
      BY <1>4
    <2> HIDE DEF S
    <2>1. n + 1 \in 1..N /\ (n + 1) - 1 = n /\ n + 1 \in 0..N /\ n \in Nat
          /\ n + 1 \in Members
      BY <1>1, <1>4
    <2>2. f[n + 1] = IF a[n + 1] = Absent THEN f[n] ELSE Append(f[n], a[n + 1])
      BY <1>2, <2>1
    <2>3. f[n] \in Seq(Values)
      BY <1>2
    <2>4. n + 1 \in Answerers(a, W) <=> a[n + 1] # Absent /\ a[n + 1] \in W
      BY <2>1 DEF Answerers
    <2>5. CASE a[n + 1] = Absent
      <3>1. UpTo(Answerers(a, W), n + 1) = UpTo(Answerers(a, W), n)
        BY <2>1, <2>4, <2>5, CountStep
      <3> QED BY <2>1, <2>2, <2>5, <2>h, <3>1 DEF S
    <2>6. CASE a[n + 1] # Absent
      <3> DEFINE k == Len(f[n])
      <3>1. a[n + 1] \in Values
        BY <2>1, <2>6 DEF Sheets
      <3>2. /\ k \in Nat /\ Len(f[n + 1]) = k + 1 /\ f[n + 1][k + 1] = a[n + 1]
            /\ \A i \in 1..k : f[n + 1][i] = f[n][i]
        BY <2>2, <2>3, <2>6, <3>1
      <3> HIDE DEF k
      <3>3. \A i \in 1..(k + 1) : i \in 1..k \/ i = k + 1
        BY <3>2
      <3>4. Showing(f[n], W) \subseteq 1..k
        BY DEF Showing, k
      <3>5. Showing(f[n + 1], W) \cap (1..k) = Showing(f[n], W) \cap (1..k)
        BY <3>2 DEF Showing, k
      <3>6. k + 1 \in Showing(f[n + 1], W) <=> a[n + 1] \in W
        BY <3>2 DEF Showing
      <3>7. Showing(f[n + 1], W) \subseteq 1..(k + 1) /\ k + 1 \in Nat
        BY <3>2 DEF Showing
      <3>8. /\ UpTo(Showing(f[n + 1], W), k + 1) = Cardinality(Showing(f[n + 1], W))
            /\ UpTo(Showing(f[n], W), k) = Cardinality(Showing(f[n], W))
            /\ UpTo(Showing(f[n + 1], W), k) = UpTo(Showing(f[n], W), k)
        BY <3>2, <3>4, <3>5, <3>7, UpToAll DEF UpTo
      <3>9. CASE a[n + 1] \in W
        <4>1. UpTo(Showing(f[n + 1], W), k + 1) = UpTo(Showing(f[n + 1], W), k) + 1
          BY <3>2, <3>6, <3>9, CountStep
        <4>2. UpTo(Answerers(a, W), n + 1) = UpTo(Answerers(a, W), n) + 1
          BY <2>1, <2>4, <2>6, <3>9, CountStep
        <4> QED BY <2>1, <2>h, <3>8, <4>1, <4>2 DEF S
      <3>a. CASE a[n + 1] \notin W
        <4>1. UpTo(Showing(f[n + 1], W), k + 1) = UpTo(Showing(f[n + 1], W), k)
          BY <3>2, <3>6, <3>a, CountStep
        <4>2. UpTo(Answerers(a, W), n + 1) = UpTo(Answerers(a, W), n)
          BY <2>1, <2>4, <2>6, <3>a, CountStep
        <4> QED BY <2>1, <2>h, <3>8, <4>1, <4>2 DEF S
      <3> QED BY <3>9, <3>a
    <2> QED BY <2>5, <2>6
  <1> HIDE DEF S
  <1>5. N \in S
    <2>1. 0..N \subseteq S
      BY <1>1, <1>3, <1>4, BoundedInduction
    <2> QED BY <1>1, <2>1
  <1>6. Holds(N)
    BY <1>5 DEF S
  <1>7. Answerers(a, W) \subseteq 1..N
    BY <1>1 DEF Answerers
  <1>8. UpTo(Answerers(a, W), N) = Cardinality(Answerers(a, W))
    BY <1>1, <1>7, UpToAll
  <1> QED BY <1>2, <1>6, <1>8

\* The members who answered are those of the three groups, each once.
LEMMA GroupsPart ==
  ASSUME NEW a \in Sheets, NEW W, NEW groupOf \in [Members -> Groups]
  PROVE  LET part(g) == Cardinality({m \in Answerers(a, W) : groupOf[m] = g})
         IN  /\ \A g \in Groups : part(g) \in Nat
             /\ Cardinality(Answerers(a, W))
                  = part("example-shown") + part("hint-only") + part("uncoached")
  <1> DEFINE P(g) == {m \in Answerers(a, W) : groupOf[m] = g}
  <1>1. IsFiniteSet(Answerers(a, W))
    BY BoardsAssumption, FS_Subset DEF Answerers
  <1>2. \A g : IsFiniteSet(P(g)) /\ Cardinality(P(g)) \in Nat
    BY <1>1, FS_Subset, FS_CardinalityType
  <1>3. Answerers(a, W) = (P("example-shown") \cup P("hint-only")) \cup P("uncoached")
    BY DEF Answerers, Groups
  <1>4. /\ P("example-shown") \cap P("hint-only") = {}
        /\ (P("example-shown") \cup P("hint-only")) \cap P("uncoached") = {}
    OBVIOUS
  <1> DEFINE A == P("example-shown")
             B == P("hint-only")
             C == P("uncoached")
  <1>a. /\ IsFiniteSet(A) /\ IsFiniteSet(B) /\ IsFiniteSet(C)
        /\ Cardinality(A) \in Nat /\ Cardinality(B) \in Nat /\ Cardinality(C) \in Nat
    BY <1>2
  <1>b. A \cap B = {} /\ (A \cup B) \cap C = {} /\ Answerers(a, W) = (A \cup B) \cup C
    BY <1>3, <1>4
  <1> HIDE DEF A, B, C
  <1>5. IsFiniteSet(A \cup B) /\ Cardinality(A \cup B) = Cardinality(A) + Cardinality(B)
    <2>1. Cardinality(A \cup B)
            = Cardinality(A) + Cardinality(B) - Cardinality(A \cap B)
          /\ IsFiniteSet(A \cup B)
      BY <1>a, FS_Union
    <2>2. Cardinality(A \cap B) = 0
      BY <1>b, FS_EmptySet
    <2> QED BY <1>a, <2>1, <2>2
  <1>6. Cardinality((A \cup B) \cup C) = Cardinality(A \cup B) + Cardinality(C)
    <2>1. Cardinality((A \cup B) \cup C)
            = Cardinality(A \cup B) + Cardinality(C) - Cardinality((A \cup B) \cap C)
      BY <1>a, <1>5, FS_Union
    <2>2. Cardinality((A \cup B) \cap C) = 0
      BY <1>b, FS_EmptySet
    <2> QED BY <1>a, <1>5, <2>1, <2>2
  <1>7. Cardinality(Answerers(a, W)) = Cardinality(A) + Cardinality(B) + Cardinality(C)
    BY <1>b, <1>5, <1>6
  <1> QED BY <1>2, <1>7 DEF A, B, C

\* A group's board is the board of the answers of its members.
LEMMA GroupBoard ==
  ASSUME NEW a \in Sheets, NEW groupOf \in [Members -> Groups], NEW g, NEW W
  PROVE  /\ GroupRows(a, groupOf, g) \in Seq(Values)
         /\ Cardinality(Showing(GroupRows(a, groupOf, g), W))
              = Cardinality({m \in Answerers(a, W) : groupOf[m] = g})
  <1> DEFINE b == [m \in Members |-> IF groupOf[m] = g THEN a[m] ELSE Absent]
  <1>1. b \in Sheets
    BY DEF Sheets
  <1>2. Answerers(b, W) = {m \in Answerers(a, W) : groupOf[m] = g}
    BY DEF Answerers
  <1>3. GroupRows(a, groupOf, g) = PublicRows(b)
    BY DEF GroupRows
  <1> HIDE DEF b
  <1> QED BY <1>1, <1>2, <1>3, RowsAreCards, RowsCount

\* The audit leaves no answer out and makes no board look less agreed.
LEMMA AuditIs ==
  ASSUME NEW a \in Sheets, NEW groupOf \in [Members -> Groups]
  PROVE  /\ OverGroups([g \in Groups |-> Audit(a, groupOf)[g].included])
              = Cardinality({m \in Members : a[m] # Absent})
         /\ OverGroups([g \in Groups |-> Audit(a, groupOf)[g].most])
              >= ComputeAgreement(PublicRows(a)).most
  <1> DEFINE rows(g) == GroupRows(a, groupOf, g)
             P(W, g) == Cardinality({m \in Answerers(a, W) : groupOf[m] = g})
  <1>1. \A g, W : rows(g) \in Seq(Values) /\ Cardinality(Showing(rows(g), W)) = P(W, g)
    BY GroupBoard
  <1>2. \A W : /\ \A g \in Groups : P(W, g) \in Nat
               /\ Cardinality(Answerers(a, W))
                    = P(W, "example-shown") + P(W, "hint-only") + P(W, "uncoached")
    BY GroupsPart
  <1>3. {"example-shown", "hint-only", "uncoached"} = Groups
    BY DEF Groups
  <1>4. OverGroups([g \in Groups |-> Audit(a, groupOf)[g].included])
          = Len(rows("example-shown")) + Len(rows("hint-only")) + Len(rows("uncoached"))
    BY <1>3 DEF OverGroups, Audit
  <1>5. OverGroups([g \in Groups |-> Audit(a, groupOf)[g].most])
          = ComputeAgreement(rows("example-shown")).most
              + ComputeAgreement(rows("hint-only")).most
              + ComputeAgreement(rows("uncoached")).most
    BY <1>3 DEF OverGroups, Audit
  <1> HIDE DEF rows, P
  <1>6. \A g \in Groups : Len(rows(g)) = P(Values, g)
    <2> SUFFICES ASSUME NEW g \in Groups PROVE Len(rows(g)) = P(Values, g)
      OBVIOUS
    <2>1. rows(g) \in Seq(Values)
      BY <1>1
    <2>2. Len(rows(g)) \in Nat /\ Showing(rows(g), Values) = 1..Len(rows(g))
      BY <2>1 DEF Showing
    <2>3. Cardinality(1..Len(rows(g))) = Len(rows(g))
      BY <2>2, PlacesCount
    <2> QED BY <1>1, <2>2, <2>3
  <1>7. Answerers(a, Values) = {m \in Members : a[m] # Absent}
    BY DEF Answerers, Sheets
  <1>8. OverGroups([g \in Groups |-> Audit(a, groupOf)[g].included])
          = Cardinality({m \in Members : a[m] # Absent})
    BY <1>2, <1>3, <1>4, <1>6, <1>7
  <1> DEFINE most(g) == ComputeAgreement(rows(g)).most
             all == PublicRows(a)
  <1>9. \A g \in Groups : most(g) \in Nat
    BY <1>1, AgreementIs
  <1>a. all \in Seq(Values)
    BY RowsAreCards
  <1>b. most("example-shown") + most("hint-only") + most("uncoached")
          >= ComputeAgreement(all).most
    <2>1. CASE all = <<>>
      <3>1. ComputeAgreement(all).most = 0
        BY <1>a, <2>1, AgreementIs
      <3> HIDE DEF most, all
      <3> QED BY <1>3, <1>9, <3>1
    <2>2. CASE all # <<>>
      <3>1. PICK s \in Signatures : ComputeAgreement(all).most = Cardinality(SigAt(all, s))
        BY <1>a, <2>2, AgreementIs
      <3> DEFINE W == {v \in Values : v.sig = s}
      <3>2. \A cards \in Seq(Values) : SigAt(cards, s) = Showing(cards, W)
        BY DEF SigAt, Showing
      <3>3. Cardinality(SigAt(all, s)) = Cardinality(Answerers(a, W))
        BY <1>a, <3>2, RowsCount
      <3>4. \A g \in Groups : P(W, g) <= most(g)
        <4> SUFFICES ASSUME NEW g \in Groups PROVE P(W, g) <= most(g)
          OBVIOUS
        <4>1. rows(g) \in Seq(Values) /\ Cardinality(Showing(rows(g), W)) = P(W, g)
          BY <1>1
        <4>2. Cardinality(SigAt(rows(g), s)) = P(W, g)
          BY <3>2, <4>1
        <4> QED BY <4>1, <4>2, AgreementIs
      <3> HIDE DEF W, most, all
      <3>5. Cardinality(Answerers(a, W))
              = P(W, "example-shown") + P(W, "hint-only") + P(W, "uncoached")
            /\ P(W, "example-shown") \in Nat /\ P(W, "hint-only") \in Nat
            /\ P(W, "uncoached") \in Nat
        BY <1>2, <1>3
      <3>6. /\ P(W, "example-shown") <= most("example-shown")
            /\ P(W, "hint-only") <= most("hint-only")
            /\ P(W, "uncoached") <= most("uncoached")
            /\ most("example-shown") \in Nat /\ most("hint-only") \in Nat
            /\ most("uncoached") \in Nat
        BY <1>3, <1>9, <3>4
      <3> QED BY <3>1, <3>3, <3>5, <3>6
    <2> QED BY <2>1, <2>2
  <1> QED BY <1>5, <1>8, <1>b

\* The audit on the dashboard leaves no answer out, and splitting a board never
\* makes it look less agreed.
THEOREM AuditHolds == BoardsSpec => []AuditNeverLowersAgreement
  <1>1. BoardsInit => BoardsInv
    BY BoardsStart
  <1>2. BoardsInv /\ [BoardsNext]_boardsVars => BoardsInv'
    BY BoardsStep
  <1>3. BoardsInv => AuditNeverLowersAgreement
    <2> SUFFICES ASSUME BoardsInv, NEW groupOf \in [Members -> Groups]
                 PROVE  LET audit == Audit(answers, groupOf)
                        IN  /\ OverGroups([g \in Groups |-> audit[g].included])
                                 = Cardinality({m \in Members : answers[m] # Absent})
                            /\ OverGroups([g \in Groups |-> audit[g].most])
                                 >= ComputeAgreement(PublicRows(answers)).most
      BY DEF AuditNeverLowersAgreement
    <2>1. answers \in Sheets
      BY DEF BoardsInv, BoardsTypeOK
    <2> QED BY <2>1, AuditIs
  <1> QED BY <1>1, <1>2, <1>3, PTL DEF BoardsSpec

-----------------------------------------------------------------------------
(* Forms: filtering a list                                                 *)

\* f holds what Filtered has kept of the first n elements.
KeptBy(f, S, s, W) ==
  /\ f \in [0..Len(s) -> Seq(S)]
  /\ Filtered(s, W) = f[Len(s)]
  /\ f[0] = <<>>
  /\ \A n \in 1..Len(s) :
       f[n] = IF s[n] \in W THEN Append(f[n - 1], s[n]) ELSE f[n - 1]

\* The loop behind Filtered: element by element.
LEMMA FilteredLoop ==
  ASSUME NEW S, NEW s \in Seq(S), NEW W
  PROVE  \E f : KeptBy(f, S, s, W)
  <1> DEFINE N    == Len(s)
             X    == Seq(S)
             step == [n \in 1..N |-> [x \in X |->
                       IF s[n] \in W THEN Append(x, s[n]) ELSE x]]
             kept == CHOOSE f : f = [n \in 0..N |->
                       IF n = 0 THEN <<>>
                       ELSE IF s[n] \in W THEN Append(f[n - 1], s[n]) ELSE f[n - 1]]
  <1>1. N \in Nat
    OBVIOUS
  <1>2. Filtered(s, W) = kept[N]
    BY DEF Filtered
  <1>3. \A n \in 1..N : s[n] \in S
    OBVIOUS
  <1>4. step \in [1..N -> [X -> X]] /\ <<>> \in X
    BY <1>3
  <1> HIDE DEF N, X, step, kept
  <1>p. \A n \in 1..N : n - 1 \in 0..N /\ n \in 0..N /\ n # 0
    BY <1>1
  <1>z. 0 \in 0..N
    BY <1>1
  <1>5. PICK f : IsLoop(f, N, X, <<>>, step)
    BY <1>1, <1>4, LoopExists
  <1>6. \A n \in 1..N : f[n] = IF s[n] \in W THEN Append(f[n - 1], s[n]) ELSE f[n - 1]
    <2> SUFFICES ASSUME NEW n \in 1..N
                 PROVE  f[n] = IF s[n] \in W THEN Append(f[n - 1], s[n]) ELSE f[n - 1]
      OBVIOUS
    <2>1. f[n - 1] \in X /\ f[n] = step[n][f[n - 1]]
      BY <1>5, <1>p DEF IsLoop
    <2> QED BY <2>1 DEF step
  <1>7. f = [n \in 0..N |-> IF n = 0 THEN <<>>
                     ELSE IF s[n] \in W THEN Append(f[n - 1], s[n]) ELSE f[n - 1]]
    <2> DEFINE h == [n \in 0..N |-> IF n = 0 THEN <<>>
                     ELSE IF s[n] \in W THEN Append(f[n - 1], s[n]) ELSE f[n - 1]]
    <2>1. f \in [0..N -> X] /\ f[0] = <<>>
      BY <1>5 DEF IsLoop
    <2>2. \A n \in 0..N : h[n] = IF n = 0 THEN <<>>
                     ELSE IF s[n] \in W THEN Append(f[n - 1], s[n]) ELSE f[n - 1]
      OBVIOUS
    <2>d. DOMAIN h = 0..N
      OBVIOUS
    <2> HIDE DEF h
    <2>3. \A n \in 0..N : n = 0 \/ n \in 1..N
      BY <1>1
    <2>4. \A n \in 0..N : f[n] = h[n]
      BY <1>6, <2>1, <2>2, <2>3
    <2> QED BY <2>1, <2>4, <2>d DEF h
  <1>8. kept = [n \in 0..N |-> IF n = 0 THEN <<>>
                     ELSE IF s[n] \in W THEN Append(kept[n - 1], s[n]) ELSE kept[n - 1]]
    BY <1>7 DEF kept
  <1>9. kept[0] = <<>>
    BY <1>8, <1>z
  <1>a. \A n \in 1..N : kept[n] = IF s[n] \in W THEN Append(kept[n - 1], s[n])
                                   ELSE kept[n - 1]
    BY <1>8, <1>p
  <1>r. 0..N \subseteq {n \in 0..N : kept[n] \in X}
    <2> DEFINE T == {n \in 0..N : kept[n] \in X}
    <2>1. 0 \in T
      BY <1>z, <1>4, <1>9
    <2>2. ASSUME NEW n \in 0..N, n < N, n \in T PROVE n + 1 \in T
      <3>1. n + 1 \in 1..N /\ (n + 1) - 1 = n /\ n + 1 \in 0..N
        BY <1>1, <2>2
      <3>2. kept[n + 1] = IF s[n + 1] \in W THEN Append(kept[n], s[n + 1]) ELSE kept[n]
        BY <1>a, <3>1
      <3>3. kept[n] \in Seq(S)
        BY <2>2 DEF X
      <3>4. kept[n + 1] \in Seq(S)
        BY <1>3, <3>1, <3>2, <3>3
      <3> QED BY <3>1, <3>4 DEF X
    <2> HIDE DEF T
    <2> QED BY <1>1, <2>1, <2>2, BoundedInduction DEF T
  <1>t. kept \in [0..N -> X]
    BY <1>8, <1>r
  <1> QED BY <1>1, <1>2, <1>9, <1>a, <1>t DEF N, X, KeptBy

\* Two filters of a sequence that agree on its elements are one.
LEMMA FilteredSame ==
  ASSUME NEW S, NEW s \in Seq(S), NEW V, NEW W,
         \A i \in 1..Len(s) : s[i] \in V <=> s[i] \in W
  PROVE  Filtered(s, V) = Filtered(s, W)
  <1> DEFINE N == Len(s)
  <1>1p. PICK f : KeptBy(f, S, s, V)
    BY FilteredLoop
  <1>1. /\ f \in [0..N -> Seq(S)]
        /\ Filtered(s, V) = f[N]
        /\ f[0] = <<>>
        /\ \A n \in 1..N : f[n] = IF s[n] \in V THEN Append(f[n - 1], s[n]) ELSE f[n - 1]
    BY <1>1p DEF KeptBy
  <1>2p. PICK g : KeptBy(g, S, s, W)
    BY FilteredLoop
  <1>2. /\ g \in [0..N -> Seq(S)]
        /\ Filtered(s, W) = g[N]
        /\ g[0] = <<>>
        /\ \A n \in 1..N : g[n] = IF s[n] \in W THEN Append(g[n - 1], s[n]) ELSE g[n - 1]
    BY <1>2p DEF KeptBy
  <1>3. N \in Nat /\ \A i \in 1..N : s[i] \in V <=> s[i] \in W
    OBVIOUS
  <1> HIDE DEF N
  <1> DEFINE T == {n \in 0..N : f[n] = g[n]}
  <1>4. 0 \in T
    BY <1>1, <1>2, <1>3
  <1>5. ASSUME NEW n \in 0..N, n < N, n \in T PROVE n + 1 \in T
    <2>1. n + 1 \in 1..N /\ (n + 1) - 1 = n /\ n + 1 \in 0..N
      BY <1>3, <1>5
    <2>2. f[n] = g[n]
      BY <1>5
    <2> HIDE DEF T
    <2>3. f[n + 1] = IF s[n + 1] \in V THEN Append(f[n], s[n + 1]) ELSE f[n]
      BY <1>1, <2>1
    <2>4. g[n + 1] = IF s[n + 1] \in W THEN Append(g[n], s[n + 1]) ELSE g[n]
      BY <1>2, <2>1
    <2>5. f[n + 1] = g[n + 1]
      BY <1>3, <2>1, <2>2, <2>3, <2>4
    <2> QED BY <2>1, <2>5 DEF T
  <1> HIDE DEF T
  <1>6. 0..N \subseteq T
    BY <1>3, <1>4, <1>5, BoundedInduction
  <1>7. f[N] = g[N]
    BY <1>3, <1>6 DEF T
  <1> QED BY <1>1, <1>2, <1>7

\* One more element of a sequence.
LEMMA AppendIs ==
  ASSUME NEW S, NEW s \in Seq(S), NEW e \in S
  PROVE  /\ Append(s, e) \in Seq(S) /\ Len(Append(s, e)) = Len(s) + 1
         /\ Range(Append(s, e)) = Range(s) \cup {e}
         /\ IsInjective(s) /\ e \notin Range(s) => IsInjective(Append(s, e))
  <1> DEFINE t == Append(s, e)
             k == Len(s)
  <1>1. /\ k \in Nat /\ t \in Seq(S) /\ Len(t) = k + 1 /\ t[k + 1] = e
        /\ \A i \in 1..k : t[i] = s[i]
        /\ DOMAIN s = 1..k /\ DOMAIN t = 1..(k + 1)
    OBVIOUS
  <1> HIDE DEF t, k
  <1>2. \A i \in 1..(k + 1) : i \in 1..k \/ i = k + 1
    BY <1>1
  <1>3. \A i \in 1..k : i \in 1..(k + 1)
    BY <1>1
  <1>4. k + 1 \in 1..(k + 1)
    BY <1>1
  <1>5. Range(t) = Range(s) \cup {e}
    BY <1>1, <1>2, <1>3, <1>4 DEF Range
  <1>6. ASSUME IsInjective(s), e \notin Range(s) PROVE IsInjective(t)
    <2>1. \A i \in 1..k : s[i] # e
      BY <1>1, <1>6 DEF Range
    <2>2. \A i, j \in 1..k : s[i] = s[j] => i = j
      BY <1>1, <1>6 DEF IsInjective
    <2>3. \A i, j \in 1..(k + 1) : t[i] = t[j] => i = j
      BY <1>1, <1>2, <2>1, <2>2
    <2> QED BY <1>1, <2>3 DEF IsInjective
  <1> QED BY <1>1, <1>5, <1>6 DEF t, k

\* What a filter leaves of a sequence.
LEMMA FilteredIs ==
  ASSUME NEW S, NEW s \in Seq(S), NEW W
  PROVE  /\ Filtered(s, W) \in Seq(S) /\ Len(Filtered(s, W)) <= Len(s)
         /\ Range(Filtered(s, W)) = Range(s) \cap W
         /\ IsInjective(s) => IsInjective(Filtered(s, W))
  <1> DEFINE N == Len(s)
             First(n) == {s[i] : i \in 1..n} \cap W
  <1>1p. PICK f : KeptBy(f, S, s, W)
    BY FilteredLoop
  <1>1. /\ f \in [0..N -> Seq(S)]
        /\ Filtered(s, W) = f[N]
        /\ f[0] = <<>>
        /\ \A n \in 1..N : f[n] = IF s[n] \in W THEN Append(f[n - 1], s[n]) ELSE f[n - 1]
    BY <1>1p DEF KeptBy
  <1>3. N \in Nat /\ DOMAIN s = 1..N /\ \A i \in 1..N : s[i] \in S
    OBVIOUS
  <1> HIDE DEF N
  <1> DEFINE T == {n \in 0..N : /\ Range(f[n]) = First(n) /\ Len(f[n]) <= n
                                /\ IsInjective(s) => IsInjective(f[n])}
  <1>4. 0 \in T
    <2>1. 0 \in 0..N /\ First(0) = {} /\ f[0] = <<>>
      BY <1>1, <1>3
    <2>2. Range(<<>>) = {} /\ Len(<<>>) <= 0 /\ IsInjective(<<>>)
      BY DEF Range, IsInjective
    <2> QED BY <2>1, <2>2
  <1>5. ASSUME NEW n \in 0..N, n < N, n \in T PROVE n + 1 \in T
    <2>0. Range(f[n]) = First(n) /\ Len(f[n]) <= n /\ (IsInjective(s) => IsInjective(f[n]))
      BY <1>5
    <2> HIDE DEF T
    <2>1. n + 1 \in 1..N /\ (n + 1) - 1 = n /\ n + 1 \in 0..N /\ n \in Nat
      BY <1>3, <1>5
    <2>2. f[n + 1] = IF s[n + 1] \in W THEN Append(f[n], s[n + 1]) ELSE f[n]
      BY <1>1, <2>1
    <2>3. f[n] \in Seq(S) /\ s[n + 1] \in S /\ Len(f[n]) \in Nat
      BY <1>1, <1>3, <2>1
    <2>4. First(n + 1) = First(n) \cup ({s[n + 1]} \cap W)
      <3>1. \A i \in 1..(n + 1) : i \in 1..n \/ i = n + 1
        BY <2>1
      <3>2. n + 1 \in 1..(n + 1) /\ \A i \in 1..n : i \in 1..(n + 1)
        BY <2>1
      <3> QED BY <3>1, <3>2
    <2> HIDE DEF First
    <2>5. CASE s[n + 1] \in W
      <3>1. f[n + 1] = Append(f[n], s[n + 1])
        BY <2>2, <2>5
      <3>2. /\ Len(f[n + 1]) = Len(f[n]) + 1
            /\ Range(f[n + 1]) = Range(f[n]) \cup {s[n + 1]}
            /\ IsInjective(f[n]) /\ s[n + 1] \notin Range(f[n]) => IsInjective(f[n + 1])
        BY <2>3, <3>1, AppendIs
      <3>3. Range(f[n + 1]) = First(n + 1) /\ Len(f[n + 1]) <= n + 1
        BY <2>0, <2>1, <2>3, <2>4, <2>5, <3>2
      <3>4. ASSUME IsInjective(s) PROVE s[n + 1] \notin Range(f[n])
        <4>1. \A i \in 1..n : i \in 1..N /\ i # n + 1
          BY <1>3, <2>1
        <4>2. \A i \in 1..n : s[i] # s[n + 1]
          BY <1>3, <2>1, <3>4, <4>1 DEF IsInjective
        <4> QED BY <2>0, <4>2 DEF First
      <3> QED BY <2>0, <2>1, <3>2, <3>3, <3>4 DEF T
    <2>6. CASE s[n + 1] \notin W
      <3>1. f[n + 1] = f[n] /\ First(n + 1) = First(n)
        BY <2>2, <2>4, <2>6
      <3> QED BY <2>0, <2>1, <2>3, <3>1 DEF T
    <2> QED BY <2>5, <2>6
  <1> HIDE DEF T
  <1>6. 0..N \subseteq T
    BY <1>3, <1>4, <1>5, BoundedInduction
  <1>7. N \in T
    BY <1>3, <1>6
  <1>8. First(N) = Range(s) \cap W
    BY <1>3 DEF Range
  <1>9. f[N] \in Seq(S)
    BY <1>1, <1>3
  <1> QED BY <1>1, <1>7, <1>8, <1>9 DEF T, N

-----------------------------------------------------------------------------
\* Registry order, once taken, is kept.
LEMMA RegistryOnce ==
  ASSUME NEW s
  PROVE  RegistryOrder(RegistryOrder(s)) = RegistryOrder(s)
  <1>1. Roles \in Seq(Range(Roles))
    BY FormsAssumption
  <1>2. Range(RegistryOrder(s)) = Range(Roles) \cap Range(s)
    BY <1>1, FilteredIs DEF RegistryOrder
  <1>3. \A i \in 1..Len(Roles) : Roles[i] \in Range(Roles)
    BY <1>1 DEF Range
  <1>4. Filtered(Roles, Range(RegistryOrder(s))) = Filtered(Roles, Range(s))
    BY <1>1, <1>2, <1>3, FilteredSame
  <1> QED BY <1>4 DEF RegistryOrder

\* A tap on an element of a list without repetition leaves none, adds one at most,
\* and none if the element was there.
LEMMA ToggledIs ==
  ASSUME NEW S, NEW s \in Seq(S), NEW e \in S, IsInjective(s)
  PROVE  /\ Toggled(s, e) \in Seq(S) /\ IsInjective(Toggled(s, e))
         /\ Len(Toggled(s, e)) <= Len(s) + 1
         /\ Contains(s, e) => Len(Toggled(s, e)) <= Len(s)
  <1>0. Len(s) \in Nat /\ DOMAIN s = 1..Len(s)
    OBVIOUS
  <1>1. CASE Contains(s, e)
    <2>1. Toggled(s, e) = Filtered(s, Range(s) \ {e})
      BY <1>1 DEF Toggled
    <2>2. /\ Toggled(s, e) \in Seq(S) /\ IsInjective(Toggled(s, e))
          /\ Len(Toggled(s, e)) <= Len(s)
      BY <2>1, FilteredIs
    <2>3. Len(Toggled(s, e)) \in Nat
      BY <2>2
    <2> QED BY <1>0, <2>2, <2>3
  <1>2. CASE ~Contains(s, e)
    <2>1. Toggled(s, e) = Append(s, e)
      BY <1>2 DEF Toggled
    <2>2. e \notin Range(s)
      BY <1>0, <1>2 DEF Contains, Range
    <2>3. /\ Toggled(s, e) \in Seq(S) /\ IsInjective(Toggled(s, e))
          /\ Len(Toggled(s, e)) = Len(s) + 1
      BY <2>1, <2>2, AppendIs
    <2> QED BY <1>0, <1>2, <2>3
  <1> QED BY <1>1, <1>2

\* Nor does the move of an element past its neighbour bring a repetition.
LEMMA SwapKeeps ==
  ASSUME NEW S, NEW s \in Seq(S), IsInjective(s), NEW i \in 1..(Len(s) - 1)
  PROVE  LET t == [s EXCEPT ![i] = s[i + 1], ![i + 1] = s[i]]
         IN  t \in Seq(S) /\ IsInjective(t)
  <1> DEFINE k == Len(s)
             t == [s EXCEPT ![i] = s[i + 1], ![i + 1] = s[i]]
  <1>1. k \in Nat /\ DOMAIN s = 1..k /\ \A j \in 1..k : s[j] \in S
    OBVIOUS
  <1>2. s \in [1..k -> S]
    OBVIOUS
  <1>3. i \in 1..k /\ i + 1 \in 1..k /\ i # i + 1
    OBVIOUS
  <1>4. t \in [1..k -> S]
    BY <1>1, <1>2, <1>3
  <1>5. \A j \in 1..k : t[j] = IF j = i + 1 THEN s[i] ELSE IF j = i THEN s[i + 1] ELSE s[j]
    BY <1>1, <1>2, <1>3
  <1> HIDE DEF k, t
  <1>6. t \in Seq(S)
    BY <1>1, <1>4
  <1>7. \A j, l \in 1..k : s[j] = s[l] => j = l
    BY <1>1 DEF IsInjective
  <1>8. \A j, l \in 1..k : t[j] = t[l] => j = l
    BY <1>3, <1>5, <1>7
  <1>9. IsInjective(t)
    BY <1>4, <1>8 DEF IsInjective
  <1> QED BY <1>6, <1>9 DEF t

-----------------------------------------------------------------------------
(* Forms: the draft and the row                                            *)

\* A list one taps elements of S into and out of.
ListOf(S, s) == s \in Seq(S) /\ IsInjective(s)

\* A draft of question x whose lists are as their readers take for granted.
DraftOK(x, d) ==
  /\ DOMAIN d = DOMAIN EmptyDraft(x)
  /\ x = "q5"  => \A c \in {"pays", "uses"} : d[c] = RegistryOrder(d[c])
  /\ x = "q8"  => \A c \in {"rank", "predicted"} : ListOf(Apps, d[c])
  /\ x = "q14" => ListOf(Functions, d["wants"]) /\ Len(d["wants"]) <= MaxChips

\* The draft and the row are in order; no screen is open on what Continue passed;
\* what was saved last on this mount is the row, and an input that was not used
\* has no draft.
FormsInv ==
  /\ q \in Questions
  /\ draft # Nothing => DraftOK(q, draft)
  /\ answer # Nothing => DraftOK(q, answer.value)
  /\ open => left = Nothing
  /\ open /\ last.value # Nothing => answer = last
  /\ open /\ found # Used => draft = Nothing /\ answer = found
  /\ PassedIsStored

\* The lists of the four questions that have one.
LEMMA ListsAre ==
  /\ Lists["q5"] = {"pays", "uses"} /\ Lists["q8"] = {"rank", "predicted"}
  /\ Lists["q14"] = {"wants"}
  /\ DOMAIN Typed["q5"] = {} /\ DOMAIN Typed["q8"] = {"delete", "why"}
  /\ DOMAIN Typed["q14"] = {"mate", "hours", "note"}
  <1>1. /\ Lists["q5"] = {"pays", "uses"} /\ Lists["q8"] = {"rank", "predicted"}
        /\ Lists["q14"] = {"wants"}
    BY DEF Lists, AllQuestions
  <1>2. DOMAIN Typed["q5"] = {}
    BY DEF Typed
  <1>3. Typed["q8"] = DeleteOne /\ Typed["q14"] = Ownership
    BY DEF Typed
  <1>4. DOMAIN DeleteOne = {"delete", "why"} /\ DOMAIN Ownership = {"mate", "hours", "note"}
    BY DEF DeleteOne, Ownership
  <1> QED BY <1>1, <1>2, <1>3, <1>4

\* An empty form is in order.
LEMMA EmptyIsOK ==
  ASSUME NEW x
  PROVE  DraftOK(x, EmptyDraft(x))
  <1>1. \A f \in Lists[x] : EmptyDraft(x)[f] = <<>>
    BY DEF EmptyDraft
  <1>2. RegistryOrder(<<>>) = <<>>
    <2>1. RegistryOrder(<<>>) \in Seq(Range(Roles)) /\ Range(RegistryOrder(<<>>)) = {}
      <3>1. Roles \in Seq(Range(Roles))
        BY FormsAssumption
      <3>2. /\ Filtered(Roles, {}) \in Seq(Range(Roles))
            /\ Range(Filtered(Roles, {})) = Range(Roles) \cap {}
        BY <3>1, FilteredIs
      <3>3. Range(<<>>) = {}
        BY DEF Range
      <3> QED BY <3>2, <3>3 DEF RegistryOrder
    <2> DEFINE t == RegistryOrder(<<>>)
    <2>2. t \in Seq(Range(Roles)) /\ Range(t) = {}
      BY <2>1
    <2> HIDE DEF t
    <2>3. DOMAIN t = 1..Len(t) /\ Len(t) \in Nat
      BY <2>2
    <2>4. ~(1 \in DOMAIN t)
      BY <2>2 DEF Range
    <2>5. Len(t) = 0
      BY <2>3, <2>4
    <2>6. t = <<>>
      BY <2>2, <2>5
    <2> QED BY <2>6 DEF t
  <1>3. \A S : ListOf(S, <<>>)
    BY DEF ListOf, IsInjective
  <1>4. Len(<<>>) <= MaxChips
    BY FormsAssumption
  <1>5. x = "q5" => \A c \in {"pays", "uses"} : EmptyDraft(x)[c] = <<>>
    BY <1>1, ListsAre
  <1>6. x = "q8" => \A c \in {"rank", "predicted"} : EmptyDraft(x)[c] = <<>>
    BY <1>1, ListsAre
  <1>7. x = "q14" => EmptyDraft(x)["wants"] = <<>>
    BY <1>1, ListsAre
  <1> HIDE DEF EmptyDraft
  <1> QED BY <1>2, <1>3, <1>4, <1>5, <1>6, <1>7 DEF DraftOK

\* Neither what one types nor what one taps puts a draft out of order.
LEMMA EditsKeep ==
  ASSUME NEW x, NEW d, DraftOK(x, d), NEW e \in Edits(x, d)
  PROVE  DraftOK(x, e)
  <1>1. \/ \E f \in DOMAIN Typed[x] : \E v : e = [d EXCEPT ![f] = v]
        \/ \E f \in Lists[x] : \E s \in Taps(x, d[f]) : e = [d EXCEPT ![f] = s]
    BY DEF Edits
  <1>2. ASSUME NEW f \in DOMAIN Typed[x], NEW v, e = [d EXCEPT ![f] = v]
        PROVE  DraftOK(x, e)
    <2>1. DOMAIN e = DOMAIN d /\ \A c \in DOMAIN d : c # f => e[c] = d[c]
      BY <1>2
    <2>2. \A c \in Lists[x] : c \in DOMAIN d
      BY DEF DraftOK, EmptyDraft
    <2>3. CASE x = "q5"
      BY <2>3, ListsAre
    <2>4. CASE x = "q8"
      BY <2>1, <2>2, <2>4, ListsAre DEF DraftOK
    <2>5. CASE x = "q14"
      BY <2>1, <2>2, <2>5, ListsAre DEF DraftOK
    <2>6. CASE x \notin {"q5", "q8", "q14"}
      BY <2>1, <2>6 DEF DraftOK
    <2> QED BY <2>3, <2>4, <2>5, <2>6
  <1>3. ASSUME NEW f \in Lists[x], NEW s \in Taps(x, d[f]), e = [d EXCEPT ![f] = s]
        PROVE  DraftOK(x, e)
    <2>0. \A c \in Lists[x] : c \in DOMAIN d
      BY DEF DraftOK, EmptyDraft
    <2>1. DOMAIN e = DOMAIN d /\ e[f] = s /\ \A c \in DOMAIN d : c # f => e[c] = d[c]
      BY <1>3, <2>0
    <2>3. CASE x = "q5"
      <3>1. PICK r \in Range(Roles) : s = RegistryOrder(Toggled(d[f], r))
        BY <2>3 DEF Taps, Marked
      <3>2. s = RegistryOrder(s)
        BY <3>1, RegistryOnce
      <3> QED BY <2>0, <2>1, <2>3, <3>2, ListsAre DEF DraftOK
    <2>4. CASE x = "q8"
      <3>1. ListOf(Apps, d[f])
        BY <2>4, ListsAre DEF DraftOK
      <3>2. \/ \E a \in Apps : s = Toggled(d[f], a)
            \/ \E i \in 1..(Len(d[f]) - 1) :
                 s = [d[f] EXCEPT ![i] = d[f][i + 1], ![i + 1] = d[f][i]]
        BY <2>4 DEF Taps, Ranked
      <3>3. ListOf(Apps, s)
        <4>1. d[f] \in Seq(Apps) /\ IsInjective(d[f])
          BY <3>1 DEF ListOf
        <4>2. ASSUME NEW a \in Apps, s = Toggled(d[f], a) PROVE ListOf(Apps, s)
          BY <4>1, <4>2, ToggledIs DEF ListOf
        <4>3. ASSUME NEW i \in 1..(Len(d[f]) - 1),
                     s = [d[f] EXCEPT ![i] = d[f][i + 1], ![i + 1] = d[f][i]]
              PROVE  ListOf(Apps, s)
          BY <4>1, <4>3, SwapKeeps DEF ListOf
        <4> QED BY <3>2, <4>2, <4>3
      <3> QED BY <2>0, <2>1, <2>4, <3>3, ListsAre DEF DraftOK
    <2>5. CASE x = "q14"
      <3>0. f = "wants"
        BY <2>5, ListsAre
      <3>1. ListOf(Functions, d[f]) /\ Len(d[f]) <= MaxChips
        BY <2>5, <3>0 DEF DraftOK
      <3>2. PICK a \in Functions :
              s = IF ~Contains(d[f], a) /\ Len(d[f]) >= MaxChips THEN d[f]
                  ELSE Toggled(d[f], a)
        BY <2>5 DEF Taps, Chipped
      <3>3. ListOf(Functions, s) /\ Len(s) <= MaxChips
        <4>0. Len(d[f]) \in Nat /\ MaxChips \in Nat
          BY <3>1, FormsAssumption DEF ListOf
        <4>1. /\ ListOf(Functions, Toggled(d[f], a))
              /\ Len(Toggled(d[f], a)) <= Len(d[f]) + 1
              /\ Contains(d[f], a) => Len(Toggled(d[f], a)) <= Len(d[f])
          BY <3>1, ToggledIs DEF ListOf
        <4>2. Len(Toggled(d[f], a)) \in Nat
          BY <4>1 DEF ListOf
        <4>3. CASE ~Contains(d[f], a) /\ Len(d[f]) >= MaxChips
          BY <3>1, <3>2, <4>3
        <4>4. CASE Contains(d[f], a)
          BY <3>1, <3>2, <4>0, <4>1, <4>2, <4>4
        <4>5. CASE Len(d[f]) < MaxChips
          BY <3>2, <4>0, <4>1, <4>2, <4>5
        <4> QED BY <4>0, <4>3, <4>4, <4>5
      <3> QED BY <2>1, <2>5, <3>0, <3>3 DEF DraftOK
    <2>6. CASE x \notin {"q5", "q8", "q14"}
      BY <2>1, <2>6 DEF DraftOK
    <2> QED BY <2>3, <2>4, <2>5, <2>6
  <1> QED BY <1>1, <1>2, <1>3

\* What passes Continue has a stored form, two cases apart.
LEMMA PassingIsStorable ==
  ASSUME NEW x \in AllQuestions, NEW d, d # Nothing,
         Answered(x, d) \/ x = "q15", ~Homeless(x, d)
  PROVE  Storable(x, d)
  <1>1. CASE x = "q3"
    BY <1>1 DEF Answered, MetricIsAnswered, Storable, HasStorable
  <1>2. CASE x = "q6"
    BY <1>2 DEF Answered, ChoiceIsAnswered, Storable, HasStorable
  <1>3. CASE x = "q8"
    BY <1>3 DEF Answered, RankingIsAnswered, Storable, HasStorable
  <1>4. CASE x = "q10"
    BY <1>4 DEF Answered, Q10IsAnswered, Storable, HasStorable, Homeless
  <1>5. CASE x = "q11"
    BY <1>5 DEF Storable, HasStorable, Homeless
  <1>6. CASE x = "q14"
    BY <1>6 DEF Answered, Q14IsAnswered, Storable, HasStorable
  <1>7. CASE x \notin {"q3", "q6", "q8", "q10", "q11", "q14"}
    BY <1>7 DEF Storable, HasStorable
  <1> QED BY <1>1, <1>2, <1>3, <1>4, <1>5, <1>6, <1>7

\* The respondent begins with no screen open and no row.
LEMMA FormsStart ==
  ASSUME FormsInit
  PROVE  FormsInv
  BY DEF FormsInit, FormsInv, PassedIsStored

\* Of a form that reported nothing there is nothing to store.
LEMMA NothingToStore == draft = Nothing => ~Dirty
  BY DEF Dirty, Storable, HasStorable

\* Every step keeps the invariant.
LEMMA FormsStep ==
  ASSUME FormsInv, [FormsNext]_formsVars
  PROVE  FormsInv'
  <1>0. /\ q \in Questions /\ (draft # Nothing => DraftOK(q, draft))
        /\ (answer # Nothing => DraftOK(q, answer.value))
        /\ (open => left = Nothing) /\ PassedIsStored
        /\ (open /\ last.value # Nothing => answer = last)
        /\ (open /\ found # Used => draft = Nothing /\ answer = found)
    BY DEF FormsInv
  <1>q. q \in AllQuestions
    BY <1>0, FormsAssumption
  <1>e. DraftOK(q, EmptyDraft(q))
    BY EmptyIsOK
  <1>f. OnForm.value = draft /\ Fresh.value = Nothing
    BY DEF OnForm, Fresh
  <1>s. Saved = answer \/ (Saved = OnForm /\ draft # Nothing)
    BY NothingToStore DEF Saved
  <1>1. CASE OpenForm
    <2>1. /\ q' = q /\ answer' = answer /\ draft' = Nothing /\ left' = Nothing
          /\ last'.value = Nothing /\ found' = answer
      BY <1>1 DEF OpenForm, Blank
    <2> QED BY <1>0, <2>1 DEF FormsInv, PassedIsStored
  <1>2. CASE Edit
    <2>1. /\ q' = q /\ answer' = answer /\ open' = open /\ left' = left /\ open
          /\ last' = last /\ found' = Used /\ draft' \in Edits(q, OnInputs)
      BY <1>2 DEF Edit
    <2>2. DraftOK(q, OnInputs)
      BY <1>0, <1>e DEF OnInputs
    <2>3. DraftOK(q, draft')
      BY <2>1, <2>2, EditsKeep
    <2> QED BY <1>0, <2>1, <2>3 DEF FormsInv, PassedIsStored
  <1>3. CASE SetRing
    <2>1. /\ q' = q /\ draft' = draft /\ open' = open /\ left' = left
          /\ answer' = answer /\ last' = last /\ found' = found
      BY <1>3 DEF SetRing
    <2> QED BY <1>0, <2>1 DEF FormsInv, PassedIsStored
  <1>4. CASE Autosave
    <2>1. /\ q' = q /\ draft' = draft /\ open' = open /\ left' = left /\ open
          /\ found' = found /\ Dirty /\ answer' = Saved /\ last' = OnForm
      BY <1>4 DEF Autosave
    <2>2. answer' = OnForm /\ draft # Nothing
      BY <2>1, NothingToStore DEF Saved
    <2> QED BY <1>0, <1>f, <2>1, <2>2 DEF FormsInv, PassedIsStored
  <1>5. CASE Nudge
    <2>1. /\ q' = q /\ draft' = draft /\ open' = open /\ left' = left
          /\ answer' = answer /\ last' = last /\ found' = found
      BY <1>5 DEF Nudge
    <2> QED BY <1>0, <2>1 DEF FormsInv, PassedIsStored
  <1>6. CASE Continue \/ GoAway
    <2>1. q' = q /\ draft' = Nothing /\ ~open' /\ answer' = Saved /\ open
      BY <1>6 DEF Continue, GoAway, Leave
    <2>2. answer' # Nothing => DraftOK(q, answer'.value)
      BY <1>0, <1>f, <1>s, <2>1
    <2>3. left' # Nothing => Homeless(q, left'.value) \/ answer' = left'
      <3> SUFFICES ASSUME left' # Nothing, ~Homeless(q, left'.value)
                   PROVE  answer' = left'
        OBVIOUS
      <3>1. CanContinue /\ draft # Nothing /\ left' = OnForm
        BY <1>6 DEF Continue, GoAway
      <3>2. Answered(q, draft) \/ q = "q15"
        BY <3>1 DEF CanContinue
      <3>3. Storable(q, draft)
        BY <1>f, <1>q, <3>1, <3>2, PassingIsStorable
      <3>4. CASE OnForm = last
        BY <1>0, <1>f, <2>1, <3>1, <3>4 DEF Saved
      <3>5. CASE OnForm # last
        BY <2>1, <3>1, <3>3, <3>5 DEF Saved, Dirty
      <3> QED BY <3>4, <3>5
    <2> QED BY <1>0, <2>1, <2>2, <2>3 DEF FormsInv, PassedIsStored
  <1>7. CASE UNCHANGED formsVars
    BY <1>0, <1>7 DEF formsVars, FormsInv, PassedIsStored
  <1> QED BY <1>1, <1>2, <1>3, <1>4, <1>5, <1>6, <1>7 DEF FormsNext

\* What is kept of a form has the shape of its question's draft.
THEOREM FormsTyped == FormsSpec => []FormsTypeOK
  <1> DEFINE Rings == Degrees \union {Null}
             Shaped(d) == d = Nothing \/ DOMAIN d = DOMAIN EmptyDraft(q)
             Row(w) == w = Nothing
                         \/ (DOMAIN w.value = DOMAIN EmptyDraft(q) /\ w.ring \in Rings)
  <1>1. FormsInit => FormsInv /\ FormsTypeOK
    <2> SUFFICES ASSUME FormsInit PROVE FormsInv /\ FormsTypeOK
      OBVIOUS
    <2>1. FormsInv
      BY FormsStart
    <2>2. q \in Questions /\ visits \in 0..MaxVisits
      BY FormsAssumption DEF FormsInit
    <2>3. last.value = Nothing /\ last.ring = Null
      BY DEF FormsInit, Fresh
    <2> QED BY <2>1, <2>2, <2>3 DEF FormsInit, FormsTypeOK
  <1>2. FormsInv /\ FormsTypeOK /\ [FormsNext]_formsVars => FormsInv' /\ FormsTypeOK'
    <2> SUFFICES ASSUME FormsInv, FormsTypeOK, [FormsNext]_formsVars
                 PROVE  FormsInv' /\ FormsTypeOK'
      OBVIOUS
    <2>1. FormsInv'
      BY FormsStep
    <2>2. q' = q
      BY DEF FormsNext, OpenForm, Edit, SetRing, Autosave, Nudge, Continue, GoAway,
             Leave, formsVars
    <2>3. q' \in Questions /\ visits' \in 0..MaxVisits
      BY <2>2, FormsAssumption DEF FormsTypeOK, FormsNext, OpenForm, Edit, SetRing,
             Autosave, Nudge, Continue, GoAway, Leave, formsVars
    <2>4. open' \in BOOLEAN /\ coach' \in BOOLEAN
      BY DEF FormsTypeOK, FormsNext, OpenForm, Edit, SetRing, Autosave, Nudge,
             Continue, GoAway, Leave, formsVars
    <2>5. draft' = Nothing \/ DOMAIN draft' = DOMAIN EmptyDraft(q')
      BY <2>1 DEF FormsInv, DraftOK
    <2>6. Shaped(judged) /\ Shaped(last.value) /\ Shaped(draft)
          /\ Row(left) /\ Row(answer) /\ ring \in Rings /\ last.ring \in Rings
      BY DEF FormsTypeOK
    <2>7. judged' \in {judged, draft, Nothing}
      BY DEF FormsNext, OpenForm, Edit, SetRing, Autosave, Nudge, Continue, GoAway,
             Leave, formsVars
    <2>8. ring' \in Rings
      BY <2>6 DEF FormsNext, OpenForm, Edit, SetRing, Autosave, Nudge, Continue,
             GoAway, Leave, formsVars
    <2>9. last' \in {last, Fresh, OnForm}
      BY DEF FormsNext, OpenForm, Edit, SetRing, Autosave, Nudge, Continue, GoAway,
             Leave, formsVars, Blank, Fresh
    <2>10. OnForm.value = draft /\ OnForm.ring = ring
           /\ Fresh.value = Nothing /\ Fresh.ring = Null
      BY DEF OnForm, Fresh
    <2>11. Shaped(last.value)' /\ last'.ring \in Rings /\ Shaped(judged)'
      BY <2>2, <2>6, <2>7, <2>9, <2>10
    <2>12. Dirty => Row(OnForm)
      BY <2>6, <2>10, NothingToStore
    <2>13. Row(Saved)
      BY <2>6, <2>12 DEF Saved
    <2>14. answer' \in {answer, Saved}
      BY DEF FormsNext, OpenForm, Edit, SetRing, Autosave, Nudge, Continue, GoAway,
             Leave, formsVars
    <2>15. left' \in {left, Nothing} \/ (left' = OnForm /\ draft # Nothing)
      BY DEF FormsNext, OpenForm, Edit, SetRing, Autosave, Nudge, Continue, GoAway,
             Leave, formsVars
    <2>16. Row(left)'
      BY <2>2, <2>6, <2>10, <2>15
    <2>17. Row(answer)'
      BY <2>2, <2>6, <2>13, <2>14
    <2> QED BY <2>1, <2>3, <2>4, <2>5, <2>8, <2>11, <2>16, <2>17 DEF FormsTypeOK
  <1> QED BY <1>1, <1>2, PTL DEF FormsSpec

\* What Continue lets pass is what is stored, two cases apart.
THEOREM PassedStored == FormsSpec => []PassedIsStored
  <1>1. FormsInit => FormsInv
    BY FormsStart
  <1>2. FormsInv /\ [FormsNext]_formsVars => FormsInv'
    BY FormsStep
  <1>3. FormsInv => PassedIsStored
    BY DEF FormsInv
  <1> QED BY <1>1, <1>2, <1>3, PTL DEF FormsSpec

\* What is stored keeps the rules its readers rely on.
THEOREM StoredCanonical == FormsSpec => []StoredIsCanonical
  <1>1. FormsInit => FormsInv
    BY FormsStart
  <1>2. FormsInv /\ [FormsNext]_formsVars => FormsInv'
    BY FormsStep
  <1>3. FormsInv => StoredIsCanonical
    BY ListsAre DEF FormsInv, DraftOK, ListOf, StoredIsCanonical
  <1> QED BY <1>1, <1>2, <1>3, PTL DEF FormsSpec

\* Until its input is used a visit leaves the row as it found it.
THEOREM LookingHarmless == FormsSpec => []LookingIsHarmless
  <1>1. FormsInit => FormsInv
    BY FormsStart
  <1>2. FormsInv /\ [FormsNext]_formsVars => FormsInv'
    BY FormsStep
  <1>3. FormsInv => LookingIsHarmless
    BY DEF FormsInv, LookingIsHarmless
  <1> QED BY <1>1, <1>2, <1>3, PTL DEF FormsSpec
=============================================================================
