----------------------------- MODULE AnswerLock -----------------------------
(***************************************************************************)
(* The answer routes of one cohort over Postgres at READ COMMITTED:        *)
(*   PATCH /api/answers        (app/api/answers, lib/answers, lib/lock)    *)
(*   POST  /api/submit         (lib/submit)                                *)
(*   POST  /api/admin/unlock   (lib/unlock)                                *)
(*   POST  /api/admin/cohort   (lib/cohort-lifecycle, the status)          *)
(*   POST  /api/interactions   (lib/interactions, the coach rows)          *)
(*                                                                         *)
(* Each request runs its statements one at a time, each statement reads    *)
(* the rows committed when it starts, and nothing but the row locks of     *)
(* its own writes holds another request back.  What a transaction has      *)
(* written and not committed is held in the request, not in the tables.    *)
(* A request that is refused before its first write changes nothing and    *)
(* is a stuttering step.                                                   *)
(***************************************************************************)
EXTENDS Naturals, Sequences, FiniteSets

CONSTANTS Respondents,   \* the members of the cohort
          Facilitator,   \* the one respondent with is_facilitator
          Questions,     \* the questions a PATCH may name
          Q14,           \* the question that is stored as two rows
          Q14D,          \* ... the second of which is the private note
          Values,        \* answer contents
          Absent,        \* no row
          NoOne,         \* no respondent
          Reqs,          \* request slots: how many requests run at a time
          MaxSnapshots,  \* bound: submits of one respondent
          MaxNudges      \* bound: coach rows of one question

ASSUME LockAssumption ==
  /\ Facilitator \in Respondents
  /\ Q14D \notin Questions
  /\ Absent \notin Values
  /\ NoOne \notin Respondents
  /\ MaxSnapshots \in Nat
  /\ MaxNudges \in Nat

Statuses == {"draft", "open", "closed"}
Rows     == Questions \union {Q14D}
Sheets   == [Rows -> Values \union {Absent}]

VARIABLES answers,    \* answers: the rows of each respondent
          coach,      \* ai_interactions: coach rows not yet / already flagged
          submitted,  \* respondents.submitted_at is not null
          audit,      \* respondents.unlocked_by
          status,     \* cohorts.status
          snapshots,  \* answer_snapshots, in order of insertion
          drafts,     \* opsp_drafts written by submit, in order of insertion
          task        \* what each request slot is doing

tables == <<answers, coach, submitted, audit, status, snapshots, drafts>>
vars   == <<tables, task>>

PCs == {"idle", "saveCheck", "saveUpsert", "saveCommit",
        "submitCheck", "submitRead", "submitStamp", "submitCommit",
        "unlockRead", "unlockWrite", "statusWrite"}

Blank == [row \in Rows |-> Absent]

Idle == [pc |-> "idle", who |-> NoOne, question |-> Q14D, val |-> Absent,
         marks |-> 0, payload |-> Blank, to |-> "open"]

Tasks == [pc : PCs, who : Respondents \union {NoOne}, question : Rows,
          val : Values \union {Absent}, marks : Nat, payload : Sheets,
          to : Statuses]

Init ==
  /\ answers = [r \in Respondents |-> Blank]
  /\ coach = [r \in Respondents |-> [n \in Questions |->
                [unchanged |-> 0, changed |-> 0]]]
  /\ submitted = [r \in Respondents |-> FALSE]
  /\ audit = [r \in Respondents |-> NoOne]
  /\ status = "open"
  /\ snapshots = [r \in Respondents |-> <<>>]
  /\ drafts = [r \in Respondents |-> <<>>]
  /\ task = [q \in Reqs |-> Idle]

-----------------------------------------------------------------------------
At(q, pc)     == task[q].pc = pc
Goto(q, pc)   == task' = [task EXCEPT ![q].pc = pc]
Finish(q)     == task' = [task EXCEPT ![q] = Idle]
Start(q, t)   == At(q, "idle") /\ task' = [task EXCEPT ![q] = t]

MutRowsOfPublicOnly(n) == {n}

(* The rows one save writes: q14 and its private note go in together.      *)
RowsOf(n) == IF n = Q14 THEN {Q14, Q14D} ELSE {n}

(* The cells a draft is built from: every row that is not private.         *)
PublicCells(sheet) == [n \in Questions |-> sheet[n]]

(* Row locks: held from a transaction's first write to its end.            *)
AnswerRowLocked(r, n) ==
  \E p \in Reqs : At(p, "saveCommit") /\ task[p].who = r /\ task[p].question = n

RespondentRowLocked(r) ==
  \E p \in Reqs : At(p, "submitCommit") /\ task[p].who = r

-----------------------------------------------------------------------------
(* Faulty variants of the steps below, one for each way the handlers could *)
(* plausibly have been written wrong.  No specification uses them; each    *)
(* one makes one of the properties at the end of the module fail.          *)

MutSaveBeginAnyStatus(q, r, n, v) ==
  /\ ~submitted[r]
  /\ Start(q, [Idle EXCEPT !.pc = "saveCheck", !.who = r,
                           !.question = n, !.val = v])
  /\ UNCHANGED tables

MutSaveCheckUnguarded(q) ==
  /\ At(q, "saveCheck")
  /\ Goto(q, "saveUpsert")
  /\ UNCHANGED tables

MutUpsertNoRowLock(q) ==
  /\ At(q, "saveUpsert")
  /\ task' = [task EXCEPT ![q].pc = "saveCommit",
                          ![q].marks = coach[task[q].who][task[q].question].unchanged]
  /\ UNCHANGED tables

MutSubmitNoSnapshot(q) ==
  LET r == task[q].who
  IN  /\ At(q, "submitCommit")
      /\ submitted' = [submitted EXCEPT ![r] = TRUE]
      /\ Finish(q)
      /\ UNCHANGED <<answers, coach, audit, status, snapshots, drafts>>

MutSubmitDraftFromLiveRows(q) ==
  LET r == task[q].who
  IN  /\ At(q, "submitCommit")
      /\ submitted' = [submitted EXCEPT ![r] = TRUE]
      /\ snapshots' = [snapshots EXCEPT ![r] = Append(@, task[q].payload)]
      /\ drafts' = [drafts EXCEPT ![r] = Append(@, PublicCells(answers[r]))]
      /\ Finish(q)
      /\ UNCHANGED <<answers, coach, audit, status>>

MutSubmitKeepsLock(q) ==
  /\ At(q, "submitCommit")
  /\ submitted' = [submitted EXCEPT ![task[q].who] = TRUE]
  /\ UNCHANGED <<answers, coach, audit, status, snapshots, drafts, task>>

-----------------------------------------------------------------------------
(* PATCH /api/answers.  resolveSession reads the lock and the cohort's     *)
(* status once; the 403 and the 409 are answered from that reading.        *)
SaveBegin(q, r, n, v) ==
  /\ status = "open"
  /\ ~submitted[r]
  /\ Start(q, [Idle EXCEPT !.pc = "saveCheck", !.who = r,
                           !.question = n, !.val = v])
  /\ UNCHANGED tables

(* begin; set_config; assertAnswersWritable, which throws when locked.     *)
SaveCheck(q) ==
  /\ At(q, "saveCheck")
  /\ IF submitted[task[q].who] THEN Finish(q) ELSE Goto(q, "saveUpsert")
  /\ UNCHANGED tables

(* The upsert of the answer and the update of the coach rows it makes      *)
(* stale, both inside the transaction: a save of the same question waits.  *)
SaveUpsert(q) ==
  LET r == task[q].who
      n == task[q].question
  IN  /\ At(q, "saveUpsert")
      /\ ~AnswerRowLocked(r, n)
      /\ task' = [task EXCEPT ![q].pc = "saveCommit",
                              ![q].marks = coach[r][n].unchanged]
      /\ UNCHANGED tables

SaveCommit(q) ==
  LET r == task[q].who
      n == task[q].question
      m == task[q].marks
  IN  /\ At(q, "saveCommit")
      /\ answers' = [answers EXCEPT ![r] =
                       [row \in Rows |-> IF row \in RowsOf(n) THEN task[q].val
                                         ELSE answers[r][row]]]
      /\ coach' = [coach EXCEPT ![r][n] = [unchanged |-> @.unchanged - m,
                                           changed   |-> @.changed + m]]
      /\ Finish(q)
      /\ UNCHANGED <<submitted, audit, status, snapshots, drafts>>

-----------------------------------------------------------------------------
(* POST /api/submit.  The route refuses a cohort that is not open; whether *)
(* the respondent is already locked is decided inside the transaction.     *)
SubmitsUnderWay(r) ==
  {p \in Reqs : /\ task[p].who = r
                /\ task[p].pc \in {"submitCheck", "submitRead",
                                   "submitStamp", "submitCommit"}}

SubmitBegin(q, r) ==
  /\ status = "open"
  /\ Len(snapshots[r]) + Cardinality(SubmitsUnderWay(r)) < MaxSnapshots
  /\ Start(q, [Idle EXCEPT !.pc = "submitCheck", !.who = r])
  /\ UNCHANGED tables

SubmitCheck(q) ==
  /\ At(q, "submitCheck")
  /\ IF submitted[task[q].who] THEN Finish(q) ELSE Goto(q, "submitRead")
  /\ UNCHANGED tables

(* listOwnAnswers is one statement, so it reads one committed state.       *)
SubmitRead(q) ==
  /\ At(q, "submitRead")
  /\ task' = [task EXCEPT ![q].pc = "submitStamp",
                          ![q].payload = answers[task[q].who]]
  /\ UNCHANGED tables

(* update respondents set submitted_at: waits for the row, then holds it.  *)
SubmitStamp(q) ==
  /\ At(q, "submitStamp")
  /\ ~RespondentRowLocked(task[q].who)
  /\ Goto(q, "submitCommit")
  /\ UNCHANGED tables

(* The stamp, the snapshot and the version-1 draft become visible at once. *)
SubmitCommit(q) ==
  LET r == task[q].who
  IN  /\ At(q, "submitCommit")
      /\ submitted' = [submitted EXCEPT ![r] = TRUE]
      /\ snapshots' = [snapshots EXCEPT ![r] = Append(@, task[q].payload)]
      /\ drafts' = [drafts EXCEPT ![r] = Append(@, PublicCells(task[q].payload))]
      /\ Finish(q)
      /\ UNCHANGED <<answers, coach, audit, status>>

-----------------------------------------------------------------------------
(* POST /api/admin/unlock.  Admitted for a facilitator who is locked       *)
(* herself; the target's lock is read and cleared by two statements that   *)
(* share no transaction.                                                   *)
AdminAdmitted == submitted[Facilitator]

UnlockBegin(q, target) ==
  /\ AdminAdmitted
  /\ Start(q, [Idle EXCEPT !.pc = "unlockRead", !.who = target])
  /\ UNCHANGED tables

UnlockRead(q) ==
  /\ At(q, "unlockRead")
  /\ IF submitted[task[q].who] THEN Goto(q, "unlockWrite") ELSE Finish(q)
  /\ UNCHANGED tables

UnlockWrite(q) ==
  LET r == task[q].who
  IN  /\ At(q, "unlockWrite")
      /\ ~RespondentRowLocked(r)
      /\ submitted' = [submitted EXCEPT ![r] = FALSE]
      /\ audit' = [audit EXCEPT ![r] = Facilitator]
      /\ Finish(q)
      /\ UNCHANGED <<answers, coach, status, snapshots, drafts>>

(* POST /api/admin/cohort with a status.                                   *)
StatusBegin(q, s) ==
  /\ AdminAdmitted
  /\ Start(q, [Idle EXCEPT !.pc = "statusWrite", !.to = s])
  /\ UNCHANGED tables

StatusWrite(q) ==
  /\ At(q, "statusWrite")
  /\ status' = task[q].to
  /\ Finish(q)
  /\ UNCHANGED <<answers, coach, submitted, audit, snapshots, drafts>>

(* POST /api/interactions: one insert, whatever the lock and the status.   *)
LogNudge(r, n) ==
  /\ coach[r][n].unchanged + coach[r][n].changed < MaxNudges
  /\ coach' = [coach EXCEPT ![r][n].unchanged = @ + 1]
  /\ UNCHANGED <<answers, submitted, audit, status, snapshots, drafts, task>>

(* A lost connection or a killed function: the open transaction, if any,   *)
(* is rolled back and the request is gone.                                 *)
Abort(q) ==
  /\ ~At(q, "idle")
  /\ Finish(q)
  /\ UNCHANGED tables

-----------------------------------------------------------------------------
Begin(q) ==
  \/ \E r \in Respondents, n \in Questions, v \in Values : SaveBegin(q, r, n, v)
  \/ \E r \in Respondents : SubmitBegin(q, r) \/ UnlockBegin(q, r)
  \/ \E s \in Statuses : StatusBegin(q, s)

Step(q) ==
  \/ SaveCheck(q)   \/ SaveUpsert(q) \/ SaveCommit(q)
  \/ SubmitCheck(q) \/ SubmitRead(q) \/ SubmitStamp(q) \/ SubmitCommit(q)
  \/ UnlockRead(q)  \/ UnlockWrite(q)
  \/ StatusWrite(q)

Next ==
  \/ \E q \in Reqs : Begin(q) \/ Step(q) \/ Abort(q)
  \/ \E r \in Respondents, n \in Questions : LogNudge(r, n)

Spec == Init /\ [][Next]_vars

(* A running request goes on; one that waits for a row gets it in its turn *)
(* (Postgres queues the waiters of a row), hence strong fairness there.    *)
Fairness ==
  \A q \in Reqs : /\ WF_vars(Step(q))
                  /\ SF_vars(SaveUpsert(q))
                  /\ SF_vars(SubmitStamp(q))
                  /\ SF_vars(UnlockWrite(q))

FairSpec == Spec /\ Fairness

-----------------------------------------------------------------------------
TypeOK ==
  /\ answers \in [Respondents -> Sheets]
  /\ coach \in [Respondents -> [Questions -> [unchanged : Nat, changed : Nat]]]
  /\ submitted \in [Respondents -> BOOLEAN]
  /\ audit \in [Respondents -> {NoOne, Facilitator}]
  /\ status \in Statuses
  /\ snapshots \in [Respondents -> Seq(Sheets)]
  /\ drafts \in [Respondents -> Seq([Questions -> Values \union {Absent}])]
  /\ task \in [Reqs -> Tasks]

(* A locked respondent has a baseline, through every unlock, resubmit and  *)
(* rolled back transaction: performSubmit's "a partial baseline is worse   *)
(* than none".                                                             *)
LockedHasBaseline ==
  \A r \in Respondents : submitted[r] => snapshots[r] # <<>>

(* Every version-1 draft was derived from the very snapshot it was written *)
(* with, without the private note, even when saves commit in between.      *)
DraftMatchesSnapshot ==
  \A r \in Respondents :
    /\ Len(drafts[r]) = Len(snapshots[r])
    /\ \A i \in DOMAIN snapshots[r] : drafts[r][i] = PublicCells(snapshots[r][i])

(* Q14 and its private note come from the same save, in the live rows and  *)
(* in every frozen copy, although they are two rows and saves overlap.     *)
NoteTravelsWithQ14 ==
  Q14 \in Questions =>
    \A r \in Respondents :
      /\ answers[r][Q14] = answers[r][Q14D]
      /\ \A i \in DOMAIN snapshots[r] : snapshots[r][i][Q14] = snapshots[r][i][Q14D]

(* A coach row reads "answer changed" only when an answer was really       *)
(* written: a save that is rolled back takes its flags back with it.       *)
FlagNeedsAnswer ==
  \A r \in Respondents, n \in Questions :
    coach[r][n].changed > 0 => answers[r][n] # Absent

(* The requests in flight: each knows whom and what it writes, at most one *)
(* holds the row of an answer, the coach rows it is about to flag are      *)
(* still there to flag, and what a submit has read is one state of the     *)
(* sheet, never half of a save.                                            *)
RequestOK(t) ==
  /\ t.pc \in {"saveCheck", "saveUpsert", "saveCommit"} =>
       t.who \in Respondents /\ t.question \in Questions /\ t.val \in Values
  /\ t.pc \notin {"idle", "statusWrite"} => t.who \in Respondents
  /\ t.pc = "saveCommit" => t.marks <= coach[t.who][t.question].unchanged
  /\ t.pc \in {"submitStamp", "submitCommit"} /\ Q14 \in Questions =>
       t.payload[Q14] = t.payload[Q14D]

RequestsOK ==
  /\ \A q \in Reqs : RequestOK(task[q])
  /\ \A p, q \in Reqs :
       /\ At(p, "saveCommit") /\ At(q, "saveCommit")
       /\ task[p].who = task[q].who
       /\ task[p].question = task[q].question
       => p = q

(* No step changes or drops a snapshot that is already written: an unlock  *)
(* and a resubmit only ever add one (lib/unlock.ts).                       *)
SnapshotsAppendOnly ==
  [][\A r \in Respondents :
       /\ Len(snapshots'[r]) >= Len(snapshots[r])
       /\ \A i \in DOMAIN snapshots[r] : snapshots'[r][i] = snapshots[r][i]]_vars

(* What the two layers of the lock do guarantee under concurrency: once    *)
(* the saves that were past their check when the lock fell are finished,   *)
(* no answer of a locked respondent changes until an unlock.               *)
PastCheck(q, r) == task[q].who = r /\ task[q].pc \in {"saveUpsert", "saveCommit"}
Drained(r)      == submitted[r] /\ \A q \in Reqs : ~PastCheck(q, r)

DrainedLockHolds ==
  [][\A r \in Respondents :
       Drained(r) => /\ answers'[r] = answers[r]
                     /\ submitted'[r] => Drained(r)']_vars

(* Every request that started ends, whatever locks it has to wait for.     *)
RequestsEnd == \A q \in Reqs : ~At(q, "idle") ~> At(q, "idle")

(* What lib/lock.ts says of the lock: answers are immutable while it is    *)
(* set.  A save that passed its check before the submit committed breaks   *)
(* it.                                                                     *)
FrozenWhileLocked ==
  [][\A r \in Respondents :
       submitted[r] /\ submitted'[r] => answers'[r] = answers[r]]_vars

(* What lib/submit.ts says of a second submit: it finds the respondent     *)
(* locked and writes no snapshot.                                          *)
SubmitIdempotent ==
  [][\A r \in Respondents : submitted[r] => snapshots'[r] = snapshots[r]]_vars

(* However the requests interleave, the routes are the answer book: what   *)
(* is written or frozen under a lock, or in a cohort that is closed, was   *)
(* admitted before, once for each admission, and what is frozen is one     *)
(* state of the sheet.                                                     *)
AdmittedTo(t) ==
  CASE t.pc \in {"saveCheck", "submitCheck"}     -> "ask"
    [] t.pc \in {"saveUpsert", "saveCommit"}     -> "write"
    [] t.pc = "submitRead"                       -> "copy"
    [] t.pc \in {"submitStamp", "submitCommit"}  -> "freeze"
    [] OTHER                                     -> "nothing"

TicketOf(t) ==
  [for  |-> AdmittedTo(t),
   who  |-> IF AdmittedTo(t) = "nothing" THEN NoOne ELSE t.who,
   copy |-> IF AdmittedTo(t) = "freeze" THEN t.payload ELSE Blank]

Book == INSTANCE AnswerBook
          WITH Slots <- Reqs, open <- status = "open",
               ticket <- [q \in Reqs |-> TicketOf(task[q])]
ImplementsBook == Book!Spec
=============================================================================
