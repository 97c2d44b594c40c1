------------------------------- MODULE Forms -------------------------------
(***************************************************************************)
(* From a tap to a stored answer: the inputs of the fifteen questions      *)
(* (app/q/[id]/*Input), the draft each keeps, what Continue takes for an   *)
(* answer (the *IsAnswered of lib/), what autosave takes for storable      *)
(* (lib/to-stored-value, lib/answer-shape) and what the coach's validator  *)
(* says of the stored value (lib/validators).  Four predicates on one      *)
(* draft, in fifteen files: the module is about where they disagree.       *)
(*                                                                         *)
(* A draft is a record of typed fields (a text is one of a few classes of  *)
(* text), of radios and selects, and of lists the respondent toggles.  It  *)
(* is Nothing until the input reports one: the form is mounted without the *)
(* stored answer.  Six questions have a confidence ring beside the input.  *)
(* A save that is sent arrives: how one is lost is the matter of Autosave. *)
(***************************************************************************)
EXTENDS Naturals, FiniteSets, SequencesExt

CONSTANTS Questions,   \* the questions of the run
          Apps,        \* q8: the apps to rank
          Roles,       \* q5: the roles, in registry order
          Functions,   \* q14: the functions to pick from
          MaxChips,    \* q14: the chip cap
          Degrees,     \* what a confidence ring can be set to
          MaxVisits    \* bound: how often the question is opened

AllQuestions == {"q1", "q2", "q3", "q4", "q5", "q6", "q7", "q8", "q9", "q10",
                 "q11", "q12", "q13", "q14", "q15"}

ASSUME FormsAssumption ==
  /\ Questions \subseteq AllQuestions
  /\ IsFiniteSet(Apps) /\ IsFiniteSet(Functions)
  /\ Roles \in Seq(Range(Roles)) /\ IsInjective(Roles)
  /\ MaxChips \in Nat \ {0} /\ MaxVisits \in Nat \ {0}

VARIABLES
  q,        \* the question the respondent is at
  open,     \* its screen is mounted
  draft,    \* the draft the mounted input reports, or Nothing
  ring,     \* the confidence that is set, or Null
  last,     \* lastSavedRef: the value and confidence saved last on this mount
  coach,    \* a coach is at work on this visit: not at L3, not retired
  judged,   \* the value the coach judged last, or Nothing
  answer,   \* the answer row, value and confidence, or Nothing
  left,     \* history: what Continue last let pass since the screen was open
  found,    \* history: the row as this visit found it, until its input is used
  visits

formsVars ==
  <<q, open, draft, ring, last, coach, judged, answer, left, found, visits>>

Nothing == [none |-> TRUE]
Used    == [used |-> TRUE]
Null    == "null"       \* a choice not made, a number not there
Line    == {"", "fine"}
Said(t) == t # ""       \* the trimmed text is not empty

-----------------------------------------------------------------------------
(* The fields one types or picks, and what each can be set to.  A radio is *)
(* never unset again.  The caps of q4, q7 and q12 are enforced as one types*)
(* ("full" is a text cut at the cap); the number of hours is not: only the *)
(* slider ends at 60.                                                      *)
LongText           == [text |-> {"", "thin", "fine"}]
LongTextAndCause   == [text |-> Line, cause |-> {"price"}]
SentenceCompletion == [who |-> Line, because |-> Line]
MetricTriple       == [metric |-> Line, value |-> {Null, "number"},
                       unit |-> Line, why |-> Line]
ShortText          == [text |-> {"", "thin", "double", "full", "fine"}]
SingleChoiceReason == [choice |-> {"pedia", "parent"},
                       why |-> {"", "thin", "echo", "fine"}]
DeleteOne          == [delete |-> Apps, why |-> Line]
ThreeRefusals      == [f \in {"first", "second", "third"} |-> {"", "thin", "fine"}]
PayerModelAmount   == [model |-> {"rate", "unsure"}, amount |-> {"", "junk", "number"},
                       month |-> {"", "past", "next"}]
PairedRows         == [what1 |-> Line, done1 |-> {"", "vague", "fine"},
                       what2 |-> Line, done2 |-> {"", "vague", "fine"},
                       starred |-> {"1", "2"}]
Ownership          == [mate |-> Functions \union {Null},
                       hours |-> {Null, "inside", "beyond"}, note |-> Line]

Typed == [
  q1 |-> LongText, q2 |-> SentenceCompletion, q3 |-> MetricTriple,
  q4 |-> ShortText, q5 |-> <<>>, q6 |-> SingleChoiceReason, q7 |-> ShortText,
  q8 |-> DeleteOne, q9 |-> ThreeRefusals, q10 |-> PayerModelAmount,
  q11 |-> PairedRows, q12 |-> ShortText, q13 |-> LongTextAndCause,
  q14 |-> Ownership, q15 |-> LongText]

(* The lists: q5's columns, q10's payers, q14's chips, q8's two orders.    *)
Lists == [x \in AllQuestions |->
  CASE x = "q5"  -> {"pays", "uses"}
    [] x = "q8"  -> {"rank", "predicted"}
    [] x = "q10" -> {"payer"}
    [] x = "q14" -> {"wants"}
    [] OTHER     -> {}]

Unset == {"value", "choice", "delete", "model", "starred", "mate", "hours"}

EmptyDraft(x) ==
  [f \in DOMAIN Typed[x] \union Lists[x] |->
     IF f \in Lists[x] THEN <<>> ELSE IF f \in Unset THEN Null ELSE ""]

(* toggleRole, toggleFunction, togglePayer; assign, remove and move of q8. *)

\* s.filter: the elements of s that are in W, in the order of s.
Filtered(s, W) ==
  LET kept[n \in 0..Len(s)] ==
        IF n = 0 THEN <<>>
        ELSE IF s[n] \in W THEN Append(kept[n - 1], s[n]) ELSE kept[n - 1]
  IN  kept[Len(s)]

Toggled(s, e) ==
  IF Contains(s, e) THEN Filtered(s, Range(s) \ {e}) ELSE Append(s, e)

\* sortedRoleIds, of roles each there once.
RegistryOrder(s) == Filtered(Roles, Range(s))
Marked(s) == {RegistryOrder(Toggled(s, e)) : e \in Range(Roles)}

\* Mutant of Chipped: the cap is noticed one chip late.
MutChipped(s) == {IF Len(s) > MaxChips THEN s ELSE Toggled(s, e) : e \in Functions}
Chipped(s) ==
  {IF ~Contains(s, e) /\ Len(s) >= MaxChips THEN s ELSE Toggled(s, e) : e \in Functions}

Ranked(s) ==
  {Toggled(s, e) : e \in Apps}
    \union {[s EXCEPT ![i] = s[i + 1], ![i + 1] = s[i]] : i \in 1..(Len(s) - 1)}

Payers(s) == {Toggled(s, e) : e \in {"parents", "centers"}}

Taps(x, s) ==
  CASE x = "q5"  -> Marked(s)
    [] x = "q8"  -> Ranked(s)
    [] x = "q10" -> Payers(s)
    [] x = "q14" -> Chipped(s)

(* q6's reason is disabled until a side is chosen.                         *)
Enabled(x, d, f) == x = "q6" /\ f = "why" => d.choice # Null

Edits(x, d) ==
  UNION ({{[d EXCEPT ![f] = v] : v \in Typed[x][f]} :
            f \in {g \in DOMAIN Typed[x] : Enabled(x, d, g)}}
         \union {{[d EXCEPT ![f] = s] : s \in Taps(x, d[f])} : f \in Lists[x]})

-----------------------------------------------------------------------------
(* The *IsAnswered of the fifteen questions: what Continue lets pass.      *)
TextIsAnswered(d)     == Said(d.text)
SentenceIsAnswered(d) == Said(d.who) /\ Said(d.because)
MetricIsAnswered(d)   ==
  Said(d.metric) /\ d.value # Null /\ Said(d.unit) /\ Said(d.why)
MatrixIsAnswered(d)   == d.pays # <<>> \/ d.uses # <<>>
ChoiceIsAnswered(d)   == d.choice # Null /\ Said(d.why)
Q9IsAnswered(d)       == Said(d.first) /\ Said(d.second) /\ Said(d.third)
PairsIsAnswered(d)    == Said(d.what1) /\ Said(d.done1)
Q14IsAnswered(d)      == d.hours # Null

Complete(order) == Len(order) = Cardinality(Apps)
\* Mutant of RankingIsAnswered: the app to delete is not asked for.
MutRankingIsAnswered(d) ==
  Complete(d.rank) /\ Said(d.why) /\ Complete(d.predicted)
RankingIsAnswered(d) ==
  Complete(d.rank) /\ d.delete # Null /\ Said(d.why) /\ Complete(d.predicted)

Q10IsAnswered(d) ==
  /\ d.payer # <<>> /\ d.model # Null
  /\ d.model = "unsure" \/ (d.amount = "number" /\ d.month # "")

Answered(x, d) ==
  CASE x = "q2"  -> SentenceIsAnswered(d)
    [] x = "q3"  -> MetricIsAnswered(d)
    [] x = "q5"  -> MatrixIsAnswered(d)
    [] x = "q6"  -> ChoiceIsAnswered(d)
    [] x = "q8"  -> RankingIsAnswered(d)
    [] x = "q9"  -> Q9IsAnswered(d)
    [] x = "q10" -> Q10IsAnswered(d)
    [] x = "q11" -> PairsIsAnswered(d)
    [] x = "q14" -> Q14IsAnswered(d)
    [] OTHER     -> TextIsAnswered(d)

(* storableAnswerValue: nothing to store of a form that reported nothing,  *)
(* and of q10 and q14 there may be nothing either.                         *)
HasStorable(x, d) ==
  /\ d # Nothing
  /\ CASE x = "q10" -> d.payer # <<>> /\ d.model # Null /\ d.amount = "number"
       [] x = "q14" -> d.hours # Null
       [] OTHER     -> TRUE

(* ... under isValidAnswerShape, which takes no null for a choice or a     *)
(* number.  An answer that is not complete may well be storable.           *)
Storable(x, d) ==
  /\ HasStorable(x, d)
  /\ CASE x = "q3"  -> d.value # Null
       [] x = "q6"  -> d.choice # Null
       [] x = "q8"  -> d.delete # Null
       [] x = "q11" -> d.starred # Null
       [] OTHER     -> TRUE

(* The validators of the coached questions, on the value to store.         *)
ValidQ3(d)  == Said(d.metric) /\ d.value # Null /\ Said(d.unit)
ValidQ4(d)  == d.text \in {"thin", "full", "fine"}
ValidQ6(d)  == d.choice # Null /\ d.why = "fine"
ValidQ9(d)  == d.first = "fine" /\ d.second = "fine" /\ d.third = "fine"
ValidQ10(d) == d.model = "unsure" \/ (d.amount = "number" /\ d.month = "next")

Verifiable(what, done) == Said(what) \/ Said(done) => done = "fine"
ValidQ11(d) == Verifiable(d.what1, d.done1) /\ Verifiable(d.what2, d.done2)

(* Those the registry does not have coached have validators too, which no  *)
(* screen and no write asks.                                               *)
ValidQ1(d)  == d.text = "fine"
ValidQ12(d) == d.text \in {"double", "full", "fine"}
ValidQ14(d) == Len(d.wants) <= MaxChips /\ d.hours # "beyond"

Valid(x, d) ==
  CASE x = "q1"           -> ValidQ1(d)
    [] x = "q3"           -> ValidQ3(d)
    [] x \in {"q4", "q7"} -> ValidQ4(d)
    [] x = "q6"           -> ValidQ6(d)
    [] x = "q9"           -> ValidQ9(d)
    [] x = "q10"          -> ValidQ10(d)
    [] x = "q11"          -> ValidQ11(d)
    [] x = "q12"          -> ValidQ12(d)
    [] x = "q14"          -> ValidQ14(d)
    [] OTHER              -> TRUE

-----------------------------------------------------------------------------
Fresh == [value |-> Nothing, ring |-> Null]

FormsInit ==
  /\ q \in Questions
  /\ open = FALSE /\ draft = Nothing /\ ring = Null /\ last = Fresh
  /\ coach = FALSE /\ judged = Nothing
  /\ answer = Nothing /\ left = Nothing /\ found = Used /\ visits = 0

\* Mutant of Blank: the shell starts from the empty draft its inputs render.
MutBlank(x) == EmptyDraft(x)
(* useState({}): there is no draft yet, whatever is stored.                *)
Blank(x) == Nothing

(* The screen is mounted.                                                  *)
OpenForm ==
  /\ ~open /\ visits < MaxVisits
  /\ open' = TRUE /\ visits' = visits + 1
  /\ draft' = Blank(q) /\ ring' = Null
  /\ last' = [value |-> Blank(q), ring |-> Null]
  /\ coach' \in BOOLEAN /\ judged' = Nothing
  /\ left' = Nothing /\ found' = answer
  /\ UNCHANGED <<q, answer>>

(* What the inputs show, and what one makes of it.                         *)
OnInputs == IF draft = Nothing THEN EmptyDraft(q) ELSE draft

Edit ==
  /\ open
  /\ draft' \in Edits(q, OnInputs) \ {OnInputs}
  /\ found' = Used
  /\ UNCHANGED <<q, open, ring, last, coach, judged, answer, left, visits>>

(* The confidence slider and its number, which can be emptied again.       *)
Ringed == {"q3", "q4", "q7", "q8", "q10", "q11"}
SetRing ==
  /\ open /\ q \in Ringed
  /\ ring' \in (Degrees \union {Null}) \ {ring}
  /\ UNCHANGED <<q, open, draft, last, coach, judged, answer, left, found, visits>>

(* useAutosave: a value that is not storable leaves the row as it is, and  *)
(* so does one that was saved last; else both columns are written, the     *)
(* confidence also when there is none.                                     *)
OnForm == [value |-> draft, ring |-> ring]
Dirty  == Storable(q, draft) /\ OnForm # last
Saved  == IF Dirty THEN OnForm ELSE answer

Autosave ==
  /\ open /\ Dirty
  /\ answer' = Saved /\ last' = OnForm
  /\ UNCHANGED <<q, open, draft, ring, coach, judged, left, found, visits>>

Leave ==
  /\ open' = FALSE /\ answer' = Saved
  /\ draft' = Nothing /\ ring' = Null /\ last' = Fresh
  /\ coach' = FALSE /\ judged' = Nothing /\ found' = Used
  /\ UNCHANGED <<q, visits>>

(* canAdvance: the one optional question passes as it is.                  *)
ConfidenceMissing == q \in Ringed /\ ring = Null
CanContinue ==
  /\ q = "q15" \/ (draft # Nothing /\ Answered(q, draft))
  /\ ~ConfidenceMissing

(* handleContinue: the coach judges what storableAnswerValue makes of the  *)
(* draft, and of q10 that may be nothing.                                  *)
Coachable == {"q3", "q4", "q6", "q7", "q9", "q10", "q11"}
Judging   == coach /\ q \in Coachable /\ HasStorable(q, draft)

Nudge ==
  /\ open /\ CanContinue
  /\ Judging /\ judged # draft /\ ~Valid(q, draft)
  /\ judged' = draft
  /\ UNCHANGED <<q, open, draft, ring, last, coach, answer, left, found, visits>>

Continue ==
  /\ open /\ CanContinue
  /\ Judging => judged = draft \/ Valid(q, draft)
  /\ left' = IF draft = Nothing THEN Nothing ELSE OnForm
  /\ Leave

(* Back, or the way to the review: nothing is asked.                       *)
GoAway ==
  /\ open
  /\ left' = Nothing /\ Leave

FormsNext == OpenForm \/ Edit \/ SetRing \/ Autosave \/ Nudge \/ Continue \/ GoAway

FormsSpec == FormsInit /\ [][FormsNext]_formsVars

-----------------------------------------------------------------------------
FormsTypeOK ==
  /\ q \in Questions /\ visits \in 0..MaxVisits
  /\ {open, coach} \subseteq BOOLEAN
  /\ \A c \in {ring, last.ring} : c \in Degrees \union {Null}
  /\ \A d \in {draft, judged, last.value} :
       d = Nothing \/ DOMAIN d = DOMAIN EmptyDraft(q)
  /\ \A r \in {answer, left} :
       r = Nothing \/ ( /\ DOMAIN r.value = DOMAIN EmptyDraft(q)
                        /\ r.ring \in Degrees \union {Null} )

(* What Continue lets pass, the confidence with it, is the answer the      *)
(* review, the board and the plan will find: two cases apart, where a      *)
(* complete answer has no stored form: "not sure yet" without an amount,   *)
(* and priorities without a star.                                          *)
Homeless(x, d) ==
  \/ x = "q10" /\ d.model = "unsure" /\ d.amount # "number"
  \/ x = "q11" /\ d.starred = Null
PassedIsStored ==
  left # Nothing => Homeless(q, left.value) \/ answer = left

(* lib/q10 and lib/paired-rows: "not sure yet" is a complete and valid     *)
(* answer, a star is not required to pass.  So whatever passes is saved.   *)
PassedIsSaved == left # Nothing => answer = left

(* What the readers of an answer take for granted and neither the API nor  *)
(* the database checks: q5's columns in registry order (the same selection *)
(* is the same payload), q8's orders without an app twice, q14 within its  *)
(* cap.                                                                    *)
StoredIsCanonical ==
  answer # Nothing =>
    LET v == answer.value IN
    /\ q = "q5"  => \A c \in Lists[q] : v[c] = RegistryOrder(v[c])
    /\ q = "q8"  => IsInjective(v.rank) /\ IsInjective(v.predicted)
    /\ q = "q14" => IsInjective(v.wants) /\ Len(v.wants) <= MaxChips

(* The form opens empty over a stored answer, and its confidence ring can  *)
(* be moved before anything is typed.  Until the input itself is used the  *)
(* row stays as the visit found it: an edit link that is only looked at,   *)
(* and a ring on its own, blank no answer.                                 *)
LookingIsHarmless == open /\ found # Used => answer = found

(* FR-11: the confidence is required, and no Continue passes without it.   *)
(* So an answer that has one keeps one.  Not so: an edit link opens the    *)
(* form without its ring, and the first storable edit stores none.         *)
ConfidenceIsKept ==
  [][answer # Nothing /\ answer.ring # Null => answer'.ring # Null]_formsVars
=============================================================================
