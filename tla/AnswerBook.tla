----------------------------- MODULE AnswerBook -----------------------------
(***************************************************************************)
(* What the answer routes promise a respondent while many requests run     *)
(* (PR5).  A request is let in while the cohort is open, and admitted at a *)
(* moment when the sheet is not locked; an admission is good for one write *)
(* of the sheet, or for one copy of all of it that is frozen when the lock *)
(* falls.  Both may happen later, so that a sheet may still change, or be  *)
(* frozen again, under a lock that fell after the admission - and in no    *)
(* other way.  An unlock changes no answer and no frozen copy.             *)
(***************************************************************************)
EXTENDS Naturals, Sequences

CONSTANTS Respondents,  \* the members of the cohort
          Rows,         \* the rows of one respondent's sheet
          Values,       \* what a row may hold
          Absent,       \* a row that was never written
          NoOne,        \* no respondent
          Slots         \* how many requests run at a time

VARIABLES open,         \* is the cohort open?
          answers,      \* [Respondents -> [Rows -> Values or Absent]]
          submitted,    \* is the sheet locked?
          snapshots,    \* the frozen copies, oldest first
          ticket        \* what each request is admitted to

vars == <<open, answers, submitted, snapshots, ticket>>

Blank  == [row \in Rows |-> Absent]
Ticket(for, who, copy) == [for |-> for, who |-> who, copy |-> copy]
None   == Ticket("nothing", NoOne, Blank)

Init ==
  /\ open = TRUE
  /\ answers = [r \in Respondents |-> Blank]
  /\ submitted = [r \in Respondents |-> FALSE]
  /\ snapshots = [r \in Respondents |-> <<>>]
  /\ ticket = [s \in Slots |-> None]

Holds(s, for, r) == r \in Respondents /\ ticket[s].for = for /\ ticket[s].who = r
Take(s, t)       == ticket' = [ticket EXCEPT ![s] = t]

LetIn(s, r) ==
  /\ open
  /\ ticket[s] = None
  /\ Take(s, Ticket("ask", r, Blank))
  /\ UNCHANGED <<open, answers, submitted, snapshots>>

Admit(s, r) ==
  /\ Holds(s, "ask", r)
  /\ ~submitted[r]
  /\ \E for \in {"write", "copy"} : Take(s, Ticket(for, r, Blank))
  /\ UNCHANGED <<open, answers, submitted, snapshots>>

Write(s, r) ==
  /\ Holds(s, "write", r)
  /\ \E rows \in SUBSET Rows, v \in Values :
       answers' = [answers EXCEPT ![r] =
                     [row \in Rows |-> IF row \in rows THEN v
                                       ELSE answers[r][row]]]
  /\ Take(s, None)
  /\ UNCHANGED <<open, submitted, snapshots>>

Copy(s, r) ==
  /\ Holds(s, "copy", r)
  /\ Take(s, Ticket("freeze", r, answers[r]))
  /\ UNCHANGED <<open, answers, submitted, snapshots>>

Freeze(s, r) ==
  /\ Holds(s, "freeze", r)
  /\ submitted' = [submitted EXCEPT ![r] = TRUE]
  /\ snapshots' = [snapshots EXCEPT ![r] = Append(@, ticket[s].copy)]
  /\ Take(s, None)
  /\ UNCHANGED <<open, answers>>

Drop(s) ==
  /\ Take(s, None)
  /\ UNCHANGED <<open, answers, submitted, snapshots>>

Unlock(r) ==
  /\ submitted' = [submitted EXCEPT ![r] = FALSE]
  /\ UNCHANGED <<open, answers, snapshots, ticket>>

SetStatus ==
  /\ open' \in BOOLEAN
  /\ UNCHANGED <<answers, submitted, snapshots, ticket>>

Next ==
  \/ \E s \in Slots, r \in Respondents :
       \/ LetIn(s, r) \/ Admit(s, r) \/ Write(s, r) \/ Copy(s, r) \/ Freeze(s, r)
  \/ \E s \in Slots : Drop(s)
  \/ \E r \in Respondents : Unlock(r)
  \/ SetStatus

Spec == Init /\ [][Next]_vars
=============================================================================
