-------------------------- MODULE AnswerLockProofs --------------------------
(***************************************************************************)
(* Proofs about AnswerLock, for every cohort, question set and number of   *)
(* requests.  The inductive invariant adds RequestsOK to the properties    *)
(* themselves: a save may subtract the coach rows it marked only because   *)
(* it still holds the answer's row, and a snapshot is whole only because   *)
(* what the submit read was.  The last section maps each request to what   *)
(* it is admitted to: the routes implement AnswerBook.                     *)
(***************************************************************************)
EXTENDS AnswerLock, TLAPS

IInv ==
  /\ TypeOK
  /\ RequestsOK
  /\ LockedHasBaseline
  /\ DraftMatchesSnapshot
  /\ NoteTravelsWithQ14
  /\ FlagNeedsAnswer

(* A step of a request that writes no table.                               *)
Reading(q) ==
  \/ Begin(q) \/ Abort(q) \/ SaveCheck(q) \/ SaveUpsert(q)
  \/ SubmitCheck(q) \/ SubmitRead(q) \/ SubmitStamp(q) \/ UnlockRead(q)

LEMMA ReadingLeavesTables ==
  ASSUME NEW q \in Reqs, Reading(q)
  PROVE  UNCHANGED tables
  BY DEF Reading, Begin, SaveBegin, SubmitBegin, UnlockBegin, StatusBegin,
         Abort, SaveCheck, SaveUpsert, SubmitCheck, SubmitRead, SubmitStamp,
         UnlockRead, tables

(* Every step is a reading, one of the four writes of a request, an insert *)
(* of a coach row, or a stutter.                                           *)
LEMMA StepCases ==
  ASSUME [Next]_vars
  PROVE  \/ \E q \in Reqs : Reading(q)
         \/ \E q \in Reqs : SaveCommit(q) \/ SubmitCommit(q) \/ UnlockWrite(q)
                            \/ StatusWrite(q)
         \/ \E r \in Respondents, n \in Questions : LogNudge(r, n)
         \/ UNCHANGED vars
  BY DEF Next, Step, Reading

LEMMA IdleIsTask == Idle \in Tasks
  BY DEF Idle, Tasks, PCs, Rows, Statuses, Sheets, Blank

LEMMA InitIInv == Init => IInv
<1> SUFFICES ASSUME Init PROVE IInv
  OBVIOUS
<1>1. TypeOK
  BY IdleIsTask, LockAssumption
  DEF Init, TypeOK, Sheets, Blank, Rows, Statuses
<1>2. RequestsOK
  BY DEF Init, RequestsOK, RequestOK, Idle, At
<1>3. LockedHasBaseline /\ DraftMatchesSnapshot
  BY DEF Init, LockedHasBaseline, DraftMatchesSnapshot
<1>4. NoteTravelsWithQ14
  BY DEF Init, NoteTravelsWithQ14, Blank, Rows
<1>5. FlagNeedsAnswer
  BY DEF Init, FlagNeedsAnswer
<1> QED BY <1>1, <1>2, <1>3, <1>4, <1>5 DEF IInv

-----------------------------------------------------------------------------
(* The type of a request is kept by every reading.                         *)
LEMMA GotoTyped ==
  ASSUME task \in [Reqs -> Tasks], NEW q \in Reqs, NEW pc \in PCs, Goto(q, pc)
  PROVE  task' \in [Reqs -> Tasks]
  BY DEF Goto, Tasks

LEMMA FinishTyped ==
  ASSUME task \in [Reqs -> Tasks], NEW q \in Reqs, Finish(q)
  PROVE  task' \in [Reqs -> Tasks]
  BY IdleIsTask DEF Finish

LEMMA StartTyped ==
  ASSUME task \in [Reqs -> Tasks], NEW q \in Reqs, NEW t \in Tasks, Start(q, t)
  PROVE  task' \in [Reqs -> Tasks]
  BY DEF Start

LEMMA BeginTyped ==
  ASSUME task \in [Reqs -> Tasks], NEW q \in Reqs, Begin(q)
  PROVE  task' \in [Reqs -> Tasks]
<1>1. ASSUME NEW r \in Respondents, NEW n \in Questions, NEW v \in Values,
             SaveBegin(q, r, n, v)
      PROVE  task' \in [Reqs -> Tasks]
  <2>1. [Idle EXCEPT !.pc = "saveCheck", !.who = r, !.question = n, !.val = v]
          \in Tasks
    BY IdleIsTask DEF Tasks, PCs, Rows
  <2> QED BY <1>1, <2>1, StartTyped DEF SaveBegin
<1>2. ASSUME NEW r \in Respondents, SubmitBegin(q, r)
      PROVE  task' \in [Reqs -> Tasks]
  <2>1. [Idle EXCEPT !.pc = "submitCheck", !.who = r] \in Tasks
    BY IdleIsTask DEF Tasks, PCs
  <2> QED BY <1>2, <2>1, StartTyped DEF SubmitBegin
<1>3. ASSUME NEW r \in Respondents, UnlockBegin(q, r)
      PROVE  task' \in [Reqs -> Tasks]
  <2>1. [Idle EXCEPT !.pc = "unlockRead", !.who = r] \in Tasks
    BY IdleIsTask DEF Tasks, PCs
  <2> QED BY <1>3, <2>1, StartTyped DEF UnlockBegin
<1>4. ASSUME NEW s \in Statuses, StatusBegin(q, s)
      PROVE  task' \in [Reqs -> Tasks]
  <2>1. [Idle EXCEPT !.pc = "statusWrite", !.to = s] \in Tasks
    BY IdleIsTask DEF Tasks, PCs
  <2> QED BY <1>4, <2>1, StartTyped DEF StatusBegin
<1> QED BY <1>1, <1>2, <1>3, <1>4 DEF Begin

LEMMA ReadingTyped ==
  ASSUME TypeOK, RequestsOK, NEW q \in Reqs, Reading(q)
  PROVE  task' \in [Reqs -> Tasks]
<1>1. task \in [Reqs -> Tasks] /\ answers \in [Respondents -> Sheets]
      /\ coach \in [Respondents -> [Questions -> [unchanged : Nat, changed : Nat]]]
  BY DEF TypeOK
<1>2. CASE Begin(q)
  BY <1>1, <1>2, BeginTyped
<1>3. CASE Abort(q)
  BY <1>1, <1>3, FinishTyped DEF Abort
<1>4. CASE SaveCheck(q)
  <2>1. "saveUpsert" \in PCs
    BY DEF PCs
  <2> QED BY <1>1, <1>4, <2>1, GotoTyped, FinishTyped DEF SaveCheck
<1>5. CASE SubmitCheck(q)
  <2>1. "submitRead" \in PCs
    BY DEF PCs
  <2> QED BY <1>1, <1>5, <2>1, GotoTyped, FinishTyped DEF SubmitCheck
<1>6. CASE UnlockRead(q)
  <2>1. "unlockWrite" \in PCs
    BY DEF PCs
  <2> QED BY <1>1, <1>6, <2>1, GotoTyped, FinishTyped DEF UnlockRead
<1>7. CASE SubmitStamp(q)
  <2>1. "submitCommit" \in PCs
    BY DEF PCs
  <2> QED BY <1>1, <1>7, <2>1, GotoTyped DEF SubmitStamp
<1>8. CASE SaveUpsert(q)
  <2>1. task[q].who \in Respondents /\ task[q].question \in Questions
    BY <1>8 DEF SaveUpsert, At, RequestsOK, RequestOK
  <2>2. coach[task[q].who][task[q].question].unchanged \in Nat
    BY <1>1, <2>1
  <2>3. "saveCommit" \in PCs
    BY DEF PCs
  <2> QED BY <1>1, <1>8, <2>2, <2>3 DEF SaveUpsert, Tasks
<1>9. CASE SubmitRead(q)
  <2>1. answers[task[q].who] \in Sheets
    BY <1>1, <1>9 DEF SubmitRead, At, RequestsOK, RequestOK
  <2>2. "submitStamp" \in PCs
    BY DEF PCs
  <2> QED BY <1>1, <1>9, <2>1, <2>2 DEF SubmitRead, Tasks
<1> QED
  BY <1>2, <1>3, <1>4, <1>5, <1>6, <1>7, <1>8, <1>9 DEF Reading

-----------------------------------------------------------------------------
(* A reading moves its own request only, and only an upsert that found the *)
(* answer's row free takes a request to saveCommit.                        *)
LEMMA ReadingMovesOne ==
  ASSUME TypeOK, NEW q \in Reqs, Reading(q)
  PROVE  /\ \A p \in Reqs \ {q} : task'[p] = task[p]
         /\ task'[q].pc = "saveCommit" => SaveUpsert(q)
<1>1. task \in [Reqs -> Tasks]
  BY DEF TypeOK
<1>2. CASE Begin(q)
  BY <1>1, <1>2 DEF Begin, SaveBegin, SubmitBegin, UnlockBegin, StatusBegin,
     Start, Idle
<1>3. CASE Abort(q) \/ SaveCheck(q) \/ SubmitCheck(q) \/ UnlockRead(q)
  BY <1>1, <1>3 DEF Abort, SaveCheck, SubmitCheck, UnlockRead, Finish, Goto,
     Idle, Tasks
<1>4. CASE SubmitRead(q) \/ SubmitStamp(q) \/ SaveUpsert(q)
  BY <1>1, <1>4 DEF SubmitRead, SubmitStamp, SaveUpsert, Goto, Tasks
<1> QED BY <1>2, <1>3, <1>4 DEF Reading

(* The request that takes a reading is still well formed.                  *)
LEMMA ReadingRequestOK ==
  ASSUME IInv, NEW q \in Reqs, Reading(q)
  PROVE  RequestOK(task[q])'
<1>1. /\ task \in [Reqs -> Tasks]
      /\ RequestOK(task[q])
      /\ coach' = coach
      /\ coach \in [Respondents -> [Questions -> [unchanged : Nat, changed : Nat]]]
  BY ReadingLeavesTables DEF IInv, TypeOK, RequestsOK, tables
<1>2. CASE Begin(q)
  <2>1. ASSUME NEW r \in Respondents, NEW n \in Questions, NEW v \in Values,
               SaveBegin(q, r, n, v)
        PROVE  RequestOK(task[q])'
    BY <1>1, <2>1 DEF SaveBegin, Start, Idle, RequestOK
  <2>2. ASSUME NEW r \in Respondents, SubmitBegin(q, r)
        PROVE  RequestOK(task[q])'
    BY <1>1, <2>2 DEF SubmitBegin, Start, Idle, RequestOK
  <2>3. ASSUME NEW r \in Respondents, UnlockBegin(q, r)
        PROVE  RequestOK(task[q])'
    BY <1>1, <2>3 DEF UnlockBegin, Start, Idle, RequestOK
  <2>4. ASSUME NEW s \in Statuses, StatusBegin(q, s)
        PROVE  RequestOK(task[q])'
    BY <1>1, <2>4 DEF StatusBegin, Start, Idle, RequestOK
  <2> QED BY <1>2, <2>1, <2>2, <2>3, <2>4 DEF Begin
<1>3. CASE Abort(q)
  BY <1>1, <1>3 DEF Abort, Finish, Idle, RequestOK
<1>4. CASE SaveCheck(q)
  BY <1>1, <1>4 DEF SaveCheck, Finish, Goto, Idle, At, Tasks, RequestOK
<1>5. CASE SubmitCheck(q)
  BY <1>1, <1>5 DEF SubmitCheck, Finish, Goto, Idle, At, Tasks, RequestOK
<1>6. CASE UnlockRead(q)
  BY <1>1, <1>6 DEF UnlockRead, Finish, Goto, Idle, At, Tasks, RequestOK
<1>7. CASE SubmitStamp(q)
  BY <1>1, <1>7 DEF SubmitStamp, Goto, At, Tasks, RequestOK
<1>8. CASE SaveUpsert(q)
  BY <1>1, <1>8 DEF SaveUpsert, At, Tasks, RequestOK
<1>9. CASE SubmitRead(q)
  <2>1. task[q].who \in Respondents
    BY <1>1, <1>9 DEF SubmitRead, At, RequestOK
  <2>2. Q14 \in Questions =>
          answers[task[q].who][Q14] = answers[task[q].who][Q14D]
    BY <2>1 DEF IInv, NoteTravelsWithQ14
  <2>3. /\ task'[q].pc = "submitStamp"
        /\ task'[q].who = task[q].who
        /\ task'[q].payload = answers[task[q].who]
    BY <1>1, <1>9 DEF SubmitRead, Tasks
  <2> QED BY <2>1, <2>2, <2>3 DEF RequestOK
<1> QED
  BY <1>2, <1>3, <1>4, <1>5, <1>6, <1>7, <1>8, <1>9 DEF Reading

LEMMA ReadingRequests ==
  ASSUME IInv, NEW q \in Reqs, Reading(q)
  PROVE  RequestsOK'
<1>1. coach' = coach /\ TypeOK /\ RequestsOK
  BY ReadingLeavesTables DEF IInv, tables
<1>2. \A p \in Reqs : RequestOK(task[p])'
  BY <1>1, ReadingMovesOne, ReadingRequestOK DEF RequestsOK, RequestOK
<1>3. ASSUME NEW p \in Reqs, NEW o \in Reqs, p # o,
             At(p, "saveCommit")', At(o, "saveCommit")',
             task'[p].who = task'[o].who, task'[p].question = task'[o].question
      PROVE  FALSE
  <2>1. CASE p # q /\ o # q
    BY <1>1, <1>3, <2>1, ReadingMovesOne DEF RequestsOK, At
  <2>2. ASSUME NEW a \in Reqs, a # q, At(a, "saveCommit")', At(q, "saveCommit")',
               task'[a].who = task'[q].who, task'[a].question = task'[q].question
        PROVE  FALSE
    <3>1. SaveUpsert(q) /\ task'[a] = task[a]
      BY <1>1, <2>2, ReadingMovesOne DEF At
    <3>2. task'[q].who = task[q].who /\ task'[q].question = task[q].question
      BY <1>1, <3>1 DEF SaveUpsert, TypeOK, Tasks
    <3> QED BY <2>2, <3>1, <3>2 DEF SaveUpsert, AnswerRowLocked, At
  <2> QED BY <1>3, <2>1, <2>2
<1> QED BY <1>2, <1>3 DEF RequestsOK

LEMMA ReadingKeepsIInv ==
  ASSUME IInv, NEW q \in Reqs, Reading(q)
  PROVE  IInv'
<1>1. UNCHANGED <<answers, coach, submitted, audit, status, snapshots, drafts>>
  BY ReadingLeavesTables DEF tables
<1>2. task' \in [Reqs -> Tasks]
  BY ReadingTyped DEF IInv
<1>3. RequestsOK'
  BY ReadingRequests
<1> QED
  BY <1>1, <1>2, <1>3 DEF IInv, TypeOK, LockedHasBaseline,
     DraftMatchesSnapshot, NoteTravelsWithQ14, FlagNeedsAnswer

-----------------------------------------------------------------------------
(* A request that ends leaves the others alone.  RequestOK survives any    *)
(* change of the coach rows that takes nothing from a save under way.      *)
LEMMA FinishRequests ==
  ASSUME IInv, NEW q \in Reqs, Finish(q),
         \A p \in Reqs \ {q} : At(p, "saveCommit") =>
           task[p].marks <= coach'[task[p].who][task[p].question].unchanged
  PROVE  RequestsOK'
<1>1. /\ task \in [Reqs -> Tasks]
      /\ RequestsOK
  BY DEF IInv, TypeOK
<1>2. /\ task'[q] = Idle
      /\ \A p \in Reqs \ {q} : task'[p] = task[p]
  BY <1>1 DEF Finish
<1>3. RequestOK(task[q])'
  BY <1>2 DEF RequestOK, Idle
<1>4. ASSUME NEW p \in Reqs \ {q} PROVE RequestOK(task[p])'
  <2>1. task'[p] = task[p] /\ RequestOK(task[p])
    BY <1>1, <1>2 DEF RequestsOK
  <2>2. task[p].pc = "saveCommit" =>
          task[p].marks <= coach'[task[p].who][task[p].question].unchanged
    BY DEF At
  <2> QED BY <2>1, <2>2 DEF RequestOK
<1>5. ASSUME NEW p \in Reqs, NEW o \in Reqs,
             At(p, "saveCommit")', At(o, "saveCommit")',
             task'[p].who = task'[o].who, task'[p].question = task'[o].question
      PROVE  p = o
  <2>1. p # q /\ o # q
    BY <1>2, <1>5 DEF At, Idle
  <2> QED BY <1>1, <1>2, <1>5, <2>1 DEF RequestsOK, At
<1> QED BY <1>3, <1>4, <1>5 DEF RequestsOK

LEMMA SaveCommitKeepsIInv ==
  ASSUME IInv, NEW q \in Reqs, SaveCommit(q)
  PROVE  IInv'
<1> DEFINE r == task[q].who
           n == task[q].question
           m == task[q].marks
           v == task[q].val
<1>1. TypeOK /\ RequestsOK /\ RequestOK(task[q]) /\ At(q, "saveCommit")
  BY DEF IInv, RequestsOK, SaveCommit
<1>2. /\ r \in Respondents /\ n \in Questions /\ v \in Values
      /\ v # Absent /\ n \in Rows /\ m \in Nat
      /\ coach[r][n].unchanged \in Nat /\ coach[r][n].changed \in Nat
      /\ m <= coach[r][n].unchanged
  BY <1>1, LockAssumption DEF RequestOK, At, Rows, TypeOK, Tasks
<1>3. answers' = [answers EXCEPT ![r] =
                   [row \in Rows |-> IF row \in RowsOf(n) THEN v
                                     ELSE answers[r][row]]]
  BY DEF SaveCommit
<1>4. coach' = [coach EXCEPT ![r][n] = [unchanged |-> @.unchanged - m,
                                        changed   |-> @.changed + m]]
  BY DEF SaveCommit
<1>5. Finish(q) /\ UNCHANGED <<submitted, audit, status, snapshots, drafts>>
  BY DEF SaveCommit
<1>6. TypeOK'
  <2>1. task' \in [Reqs -> Tasks]
    BY <1>1, <1>5, FinishTyped DEF TypeOK
  <2>2. answers' \in [Respondents -> Sheets]
    BY <1>1, <1>2, <1>3 DEF TypeOK, Sheets
  <2>3. coach' \in [Respondents -> [Questions -> [unchanged : Nat, changed : Nat]]]
    <3>1. coach[r][n].unchanged - m \in Nat /\ coach[r][n].changed + m \in Nat
      BY <1>2
    <3> QED BY <1>1, <1>2, <1>4, <3>1 DEF TypeOK
  <2> QED BY <1>1, <1>5, <2>1, <2>2, <2>3 DEF TypeOK
<1>7. RequestsOK'
  <2>1. ASSUME NEW p \in Reqs \ {q}, At(p, "saveCommit")
        PROVE  task[p].marks <= coach'[task[p].who][task[p].question].unchanged
    <3>1. ~(task[p].who = r /\ task[p].question = n)
      BY <1>1, <2>1 DEF RequestsOK
    <3>2. /\ task[p].who \in Respondents /\ task[p].question \in Questions
          /\ task[p].marks <= coach[task[p].who][task[p].question].unchanged
      BY <1>1, <2>1 DEF RequestsOK, RequestOK, At
    <3>3. coach'[task[p].who][task[p].question]
            = coach[task[p].who][task[p].question]
      BY <1>1, <1>2, <1>4, <3>1, <3>2 DEF TypeOK
    <3> QED BY <3>2, <3>3
  <2> QED BY <1>5, <2>1, FinishRequests
<1>8. NoteTravelsWithQ14'
  <2> SUFFICES ASSUME Q14 \in Questions, NEW s \in Respondents
               PROVE  answers'[s][Q14] = answers'[s][Q14D]
    BY <1>5 DEF IInv, NoteTravelsWithQ14
  <2>1. answers[s][Q14] = answers[s][Q14D]
    BY DEF IInv, NoteTravelsWithQ14
  <2>2. CASE s # r
    BY <1>1, <1>2, <1>3, <2>1, <2>2 DEF TypeOK
  <2>3. CASE s = r
    <3>1. Q14 \in RowsOf(n) <=> Q14D \in RowsOf(n)
      BY <1>2, LockAssumption DEF RowsOf
    <3>2. Q14 \in Rows /\ Q14D \in Rows
      BY DEF Rows
    <3> QED BY <1>1, <1>2, <1>3, <2>1, <2>3, <3>1, <3>2 DEF TypeOK
  <2> QED BY <2>2, <2>3
<1>9. FlagNeedsAnswer'
  <2> SUFFICES ASSUME NEW s \in Respondents, NEW k \in Questions,
                      coach'[s][k].changed > 0
               PROVE  answers'[s][k] # Absent
    BY DEF FlagNeedsAnswer
  <2>1. k \in Rows
    BY DEF Rows
  <2>2. CASE s = r /\ k = n
    BY <1>1, <1>2, <1>3, <2>1, <2>2 DEF TypeOK, RowsOf
  <2>3. CASE ~(s = r /\ k = n)
    <3>1. coach'[s][k] = coach[s][k]
      BY <1>1, <1>2, <1>4, <2>3 DEF TypeOK
    <3>2. answers[s][k] # Absent
      BY <3>1 DEF IInv, FlagNeedsAnswer
    <3>3. answers'[s][k] = answers[s][k] \/ answers'[s][k] = v
      BY <1>1, <1>2, <1>3, <2>1 DEF TypeOK
    <3> QED BY <1>2, <3>2, <3>3
  <2> QED BY <2>2, <2>3
<1> QED
  BY <1>5, <1>6, <1>7, <1>8, <1>9
  DEF IInv, LockedHasBaseline, DraftMatchesSnapshot

(* What Append leaves in place and what it adds.                           *)
LEMMA AppendAt ==
  ASSUME NEW S, NEW s \in Seq(S), NEW e \in S
  PROVE  /\ Len(Append(s, e)) = Len(s) + 1
         /\ DOMAIN s = 1..Len(s)
         /\ DOMAIN Append(s, e) = 1..(Len(s) + 1)
         /\ \A i \in 1..Len(s) : Append(s, e)[i] = s[i]
         /\ Append(s, e)[Len(s) + 1] = e
         /\ Len(s) \in Nat
  OBVIOUS

LEMMA SubmitCommitKeepsIInv ==
  ASSUME IInv, NEW q \in Reqs, SubmitCommit(q)
  PROVE  IInv'
<1> DEFINE r == task[q].who
           sheet == task[q].payload
<1>1. TypeOK /\ RequestsOK /\ RequestOK(task[q])
  BY DEF IInv, RequestsOK
<1>2. /\ r \in Respondents
      /\ sheet \in Sheets
      /\ Q14 \in Questions => sheet[Q14] = sheet[Q14D]
  BY <1>1 DEF RequestOK, SubmitCommit, At, TypeOK, Tasks
<1>3. /\ submitted' = [submitted EXCEPT ![r] = TRUE]
      /\ snapshots' = [snapshots EXCEPT ![r] = Append(@, sheet)]
      /\ drafts' = [drafts EXCEPT ![r] = Append(@, PublicCells(sheet))]
      /\ Finish(q)
      /\ UNCHANGED <<answers, coach, audit, status>>
  BY DEF SubmitCommit
<1>4. PublicCells(sheet) \in [Questions -> Values \union {Absent}]
  BY <1>2 DEF PublicCells, Sheets, Rows
<1>5. /\ snapshots[r] \in Seq(Sheets) /\ snapshots'[r] = Append(snapshots[r], sheet)
      /\ drafts[r] \in Seq([Questions -> Values \union {Absent}])
      /\ drafts'[r] = Append(drafts[r], PublicCells(sheet))
  BY <1>1, <1>2, <1>3 DEF TypeOK
<1>6. \A s \in Respondents \ {r} : /\ snapshots'[s] = snapshots[s]
                                   /\ drafts'[s] = drafts[s]
                                   /\ submitted'[s] = submitted[s]
  BY <1>1, <1>3 DEF TypeOK
<1>5a. /\ Len(snapshots'[r]) = Len(snapshots[r]) + 1
       /\ DOMAIN snapshots[r] = 1..Len(snapshots[r])
       /\ DOMAIN snapshots'[r] = 1..(Len(snapshots[r]) + 1)
       /\ \A i \in 1..Len(snapshots[r]) : snapshots'[r][i] = snapshots[r][i]
       /\ snapshots'[r][Len(snapshots[r]) + 1] = sheet
       /\ Len(snapshots[r]) \in Nat
  BY <1>2, <1>5, AppendAt
<1>5b. /\ Len(drafts'[r]) = Len(drafts[r]) + 1
       /\ \A i \in 1..Len(drafts[r]) : drafts'[r][i] = drafts[r][i]
       /\ drafts'[r][Len(drafts[r]) + 1] = PublicCells(sheet)
  BY <1>4, <1>5, AppendAt
<1>7. TypeOK'
  <2>1. task' \in [Reqs -> Tasks]
    BY <1>1, <1>3, FinishTyped DEF TypeOK
  <2>2. submitted' \in [Respondents -> BOOLEAN]
    BY <1>1, <1>3 DEF TypeOK
  <2>3. snapshots' \in [Respondents -> Seq(Sheets)]
    BY <1>1, <1>2, <1>3, <1>5 DEF TypeOK
  <2>4. drafts' \in [Respondents -> Seq([Questions -> Values \union {Absent}])]
    BY <1>1, <1>3, <1>4, <1>5 DEF TypeOK
  <2> QED BY <1>1, <1>3, <2>1, <2>2, <2>3, <2>4 DEF TypeOK
<1>8. RequestsOK'
  <2>1. ASSUME NEW p \in Reqs \ {q}, At(p, "saveCommit")
        PROVE  task[p].marks <= coach'[task[p].who][task[p].question].unchanged
    BY <1>1, <1>3, <2>1 DEF RequestsOK, RequestOK, At
  <2> QED BY <1>3, <2>1, FinishRequests
<1>9. LockedHasBaseline'
  <2> SUFFICES ASSUME NEW s \in Respondents, submitted'[s]
               PROVE  snapshots'[s] # <<>>
    BY DEF LockedHasBaseline
  <2>1. CASE s = r
    BY <1>2, <1>5, <2>1
  <2>2. CASE s # r
    BY <1>6, <2>2 DEF IInv, LockedHasBaseline
  <2> QED BY <2>1, <2>2
<1>10. DraftMatchesSnapshot'
  <2> SUFFICES ASSUME NEW s \in Respondents
               PROVE  /\ Len(drafts'[s]) = Len(snapshots'[s])
                      /\ \A i \in DOMAIN snapshots'[s] :
                           drafts'[s][i] = PublicCells(snapshots'[s][i])
    BY DEF DraftMatchesSnapshot, PublicCells
  <2>1. /\ Len(drafts[s]) = Len(snapshots[s])
        /\ \A i \in DOMAIN snapshots[s] : drafts[s][i] = PublicCells(snapshots[s][i])
    BY DEF IInv, DraftMatchesSnapshot
  <2>2. CASE s # r
    BY <1>6, <2>1, <2>2
  <2>3. CASE s = r
    <3>3. Len(drafts'[s]) = Len(snapshots'[s])
      BY <1>5a, <1>5b, <2>1, <2>3
    <3>4. ASSUME NEW i \in DOMAIN snapshots'[s]
          PROVE  drafts'[s][i] = PublicCells(snapshots'[s][i])
      <4>1. CASE i \in 1..Len(snapshots[s])
        <5>1. drafts'[s][i] = drafts[s][i] /\ snapshots'[s][i] = snapshots[s][i]
          BY <1>5a, <1>5b, <2>1, <2>3, <4>1
        <5>2. drafts[s][i] = PublicCells(snapshots[s][i])
          BY <1>5a, <2>1, <2>3, <4>1
        <5> QED BY <5>1, <5>2
      <4>2. CASE i = Len(snapshots[s]) + 1
        BY <1>5a, <1>5b, <2>1, <2>3, <4>2
      <4>3. i \in 1..Len(snapshots[s]) \/ i = Len(snapshots[s]) + 1
        BY <1>5a, <2>3
      <4> QED BY <4>1, <4>2, <4>3
    <3> QED BY <3>3, <3>4
  <2> QED BY <2>2, <2>3
<1>11. NoteTravelsWithQ14'
  <2> SUFFICES ASSUME Q14 \in Questions, NEW s \in Respondents,
                      NEW i \in DOMAIN snapshots'[s]
               PROVE  snapshots'[s][i][Q14] = snapshots'[s][i][Q14D]
    BY <1>3 DEF IInv, NoteTravelsWithQ14
  <2>1. \A j \in DOMAIN snapshots[s] : snapshots[s][j][Q14] = snapshots[s][j][Q14D]
    BY DEF IInv, NoteTravelsWithQ14
  <2>2. CASE s # r
    BY <1>6, <2>1, <2>2
  <2>3. CASE s = r
    <3>2. i \in 1..Len(snapshots[s]) \/ i = Len(snapshots[s]) + 1
      BY <1>5a, <2>3
    <3>3. CASE i \in 1..Len(snapshots[s])
      BY <1>5a, <2>1, <2>3, <3>3
    <3>4. CASE i = Len(snapshots[s]) + 1
      BY <1>2, <1>5a, <2>3, <3>4
    <3> QED BY <3>2, <3>3, <3>4
  <2> QED BY <2>2, <2>3
<1> QED
  BY <1>3, <1>7, <1>8, <1>9, <1>10, <1>11 DEF IInv, FlagNeedsAnswer

LEMMA UnlockWriteKeepsIInv ==
  ASSUME IInv, NEW q \in Reqs, UnlockWrite(q)
  PROVE  IInv'
<1>1. TypeOK /\ RequestsOK /\ RequestOK(task[q])
  BY DEF IInv, RequestsOK
<1>2. /\ submitted' = [submitted EXCEPT ![task[q].who] = FALSE]
      /\ audit' = [audit EXCEPT ![task[q].who] = Facilitator]
      /\ Finish(q)
      /\ UNCHANGED <<answers, coach, status, snapshots, drafts>>
  BY DEF UnlockWrite
<1>3. task' \in [Reqs -> Tasks]
  BY <1>1, <1>2, FinishTyped DEF TypeOK
<1>4. TypeOK'
  BY <1>1, <1>2, <1>3 DEF TypeOK
<1>5. RequestsOK'
  <2>1. ASSUME NEW p \in Reqs \ {q}, At(p, "saveCommit")
        PROVE  task[p].marks <= coach'[task[p].who][task[p].question].unchanged
    BY <1>1, <1>2, <2>1 DEF RequestsOK, RequestOK, At
  <2> QED BY <1>2, <2>1, FinishRequests
<1>6. LockedHasBaseline'
  BY <1>1, <1>2 DEF IInv, LockedHasBaseline, TypeOK
<1> QED
  BY <1>2, <1>4, <1>5, <1>6
  DEF IInv, DraftMatchesSnapshot, NoteTravelsWithQ14, FlagNeedsAnswer

LEMMA StatusWriteKeepsIInv ==
  ASSUME IInv, NEW q \in Reqs, StatusWrite(q)
  PROVE  IInv'
<1>1. TypeOK /\ RequestsOK
  BY DEF IInv
<1>2. /\ status' = task[q].to
      /\ Finish(q)
      /\ UNCHANGED <<answers, coach, submitted, audit, snapshots, drafts>>
  BY DEF StatusWrite
<1>3. task' \in [Reqs -> Tasks] /\ status' \in Statuses
  BY <1>1, <1>2, FinishTyped DEF TypeOK, Tasks
<1>4. TypeOK'
  BY <1>1, <1>2, <1>3 DEF TypeOK
<1>5. RequestsOK'
  <2>1. ASSUME NEW p \in Reqs \ {q}, At(p, "saveCommit")
        PROVE  task[p].marks <= coach'[task[p].who][task[p].question].unchanged
    BY <1>1, <1>2, <2>1 DEF RequestsOK, RequestOK, At
  <2> QED BY <1>2, <2>1, FinishRequests
<1> QED
  BY <1>2, <1>4, <1>5 DEF IInv, LockedHasBaseline, DraftMatchesSnapshot,
     NoteTravelsWithQ14, FlagNeedsAnswer

LEMMA LogNudgeKeepsIInv ==
  ASSUME IInv, NEW r \in Respondents, NEW n \in Questions, LogNudge(r, n)
  PROVE  IInv'
<1>1. TypeOK /\ RequestsOK
  BY DEF IInv
<1>2. /\ coach' = [coach EXCEPT ![r][n].unchanged = @ + 1]
      /\ UNCHANGED <<answers, submitted, audit, status, snapshots, drafts, task>>
  BY DEF LogNudge
<1>3. coach' \in [Respondents -> [Questions -> [unchanged : Nat, changed : Nat]]]
  <2>1. coach[r][n] \in [unchanged : Nat, changed : Nat]
    BY <1>1 DEF TypeOK
  <2>2. [coach[r][n] EXCEPT !.unchanged = @ + 1]
          \in [unchanged : Nat, changed : Nat]
    BY <2>1
  <2> QED BY <1>1, <1>2, <2>2 DEF TypeOK
<1>4. \A s \in Respondents, k \in Questions :
        /\ coach'[s][k].changed = coach[s][k].changed
        /\ coach'[s][k].unchanged >= coach[s][k].unchanged
  BY <1>1, <1>2 DEF TypeOK
<1>5. ASSUME NEW q \in Reqs PROVE RequestOK(task[q])'
  <2>1. task'[q] = task[q] /\ RequestOK(task[q])
    BY <1>1, <1>2 DEF RequestsOK
  <2>2. ASSUME task[q].pc = "saveCommit"
        PROVE  task[q].marks <= coach'[task[q].who][task[q].question].unchanged
    <3>1. task[q].who \in Respondents /\ task[q].question \in Questions
          /\ task[q].marks <= coach[task[q].who][task[q].question].unchanged
          /\ task[q].marks \in Nat
      BY <1>1, <2>1, <2>2 DEF RequestOK, TypeOK, Tasks
    <3>2. /\ coach[task[q].who][task[q].question].unchanged \in Nat
          /\ coach'[task[q].who][task[q].question].unchanged \in Nat
      BY <1>1, <1>3, <3>1 DEF TypeOK
    <3> QED BY <1>4, <3>1, <3>2
  <2> QED BY <2>1, <2>2 DEF RequestOK
<1>6. RequestsOK'
  BY <1>1, <1>2, <1>5 DEF RequestsOK, At
<1> QED
  BY <1>1, <1>2, <1>3, <1>4, <1>6
  DEF IInv, TypeOK, LockedHasBaseline, DraftMatchesSnapshot,
      NoteTravelsWithQ14, FlagNeedsAnswer

LEMMA NextKeepsIInv == IInv /\ [Next]_vars => IInv'
<1> SUFFICES ASSUME IInv, [Next]_vars PROVE IInv'
  OBVIOUS
<1>1. ASSUME NEW q \in Reqs, Reading(q) PROVE IInv'
  BY <1>1, ReadingKeepsIInv
<1>2. ASSUME NEW q \in Reqs,
             SaveCommit(q) \/ SubmitCommit(q) \/ UnlockWrite(q) \/ StatusWrite(q)
      PROVE  IInv'
  BY <1>2, SaveCommitKeepsIInv, SubmitCommitKeepsIInv, UnlockWriteKeepsIInv,
     StatusWriteKeepsIInv
<1>3. ASSUME NEW r \in Respondents, NEW n \in Questions, LogNudge(r, n)
      PROVE  IInv'
  BY <1>3, LogNudgeKeepsIInv
<1>4. CASE UNCHANGED vars
  BY <1>4 DEF vars, tables, IInv, TypeOK, RequestsOK, RequestOK, At,
     LockedHasBaseline, DraftMatchesSnapshot, NoteTravelsWithQ14, FlagNeedsAnswer
<1> QED BY <1>1, <1>2, <1>3, <1>4, StepCases

-----------------------------------------------------------------------------
(* Whatever the requests interleave, IInv always holds.                    *)
THEOREM Inductive == Spec => []IInv
  BY InitIInv, NextKeepsIInv, PTL DEF Spec

(* The tables and the requests of the answer routes keep their types.      *)
THEOREM TypeCorrect == Spec => []TypeOK
<1>1. IInv => TypeOK
  BY DEF IInv
<1> QED BY <1>1, Inductive, PTL

(* No interleaving of saves, submits, unlocks and aborts leaves a locked   *)
(* respondent without the snapshot performSubmit writes.                   *)
THEOREM AlwaysBaseline == Spec => []LockedHasBaseline
<1>1. IInv => LockedHasBaseline
  BY DEF IInv
<1> QED BY <1>1, Inductive, PTL

(* Each draft performSubmit inserts is the public part of its snapshot.    *)
THEOREM DraftsFromSnapshots == Spec => []DraftMatchesSnapshot
<1>1. IInv => DraftMatchesSnapshot
  BY DEF IInv
<1> QED BY <1>1, Inductive, PTL

(* The two rows upsertQ14 writes are never seen torn, live or frozen.      *)
THEOREM NoteNeverTorn == Spec => []NoteTravelsWithQ14
<1>1. IInv => NoteTravelsWithQ14
  BY DEF IInv
<1> QED BY <1>1, Inductive, PTL

(* markCoachAnswerChanged flags a coach row only of an answered question.  *)
THEOREM FlagsNeedAnswers == Spec => []FlagNeedsAnswer
<1>1. IInv => FlagNeedsAnswer
  BY DEF IInv
<1> QED BY <1>1, Inductive, PTL

(* The requests in flight stay consistent with the tables.                 *)
THEOREM RequestsConsistent == Spec => []RequestsOK
<1>1. IInv => RequestsOK
  BY DEF IInv
<1> QED BY <1>1, Inductive, PTL

-----------------------------------------------------------------------------
(* A step that writes ends its request; any other table stays as it is.    *)
LEMMA AppendOnlyStep ==
  ASSUME IInv, [Next]_vars, NEW r \in Respondents
  PROVE  /\ Len(snapshots'[r]) >= Len(snapshots[r])
         /\ \A i \in DOMAIN snapshots[r] : snapshots'[r][i] = snapshots[r][i]
<1>1. /\ snapshots \in [Respondents -> Seq(Sheets)]
      /\ task \in [Reqs -> Tasks]
      /\ RequestsOK
  BY DEF IInv, TypeOK
<1>2. Len(snapshots[r]) \in Nat
  BY <1>1
<1>3. CASE snapshots' = snapshots
  BY <1>2, <1>3
<1>4. ASSUME NEW q \in Reqs, SubmitCommit(q)
      PROVE  /\ Len(snapshots'[r]) >= Len(snapshots[r])
             /\ \A i \in DOMAIN snapshots[r] : snapshots'[r][i] = snapshots[r][i]
  <2>1. task[q].payload \in Sheets
    BY <1>1 DEF Tasks
  <2>2. snapshots' = [snapshots EXCEPT ![task[q].who] = Append(@, task[q].payload)]
    BY <1>4 DEF SubmitCommit
  <2>3. CASE task[q].who # r
    <3>1. snapshots'[r] = snapshots[r]
      BY <1>1, <2>2, <2>3
    <3> QED BY <1>2, <3>1
  <2>4. CASE task[q].who = r
    <3>1. snapshots'[r] = Append(snapshots[r], task[q].payload)
      BY <1>1, <2>2, <2>4
    <3>2. snapshots[r] \in Seq(Sheets)
      BY <1>1
    <3> QED BY <2>1, <3>1, <3>2, AppendAt
  <2> QED BY <2>3, <2>4
<1>5. ASSUME NEW q \in Reqs, Reading(q) PROVE snapshots' = snapshots
  BY <1>5, ReadingLeavesTables DEF tables
<1>6. (\E q \in Reqs : SaveCommit(q) \/ UnlockWrite(q) \/ StatusWrite(q))
        => snapshots' = snapshots
  BY DEF SaveCommit, UnlockWrite, StatusWrite
<1>7. (\E s \in Respondents, n \in Questions : LogNudge(s, n))
        => snapshots' = snapshots
  BY DEF LogNudge
<1>8. UNCHANGED vars => snapshots' = snapshots
  BY DEF vars, tables
<1> QED BY <1>3, <1>4, <1>5, <1>6, <1>7, <1>8, StepCases

(* No unlock, resubmit or overlapping submit rewrites a frozen answer set. *)
THEOREM SnapshotsKept == Spec => SnapshotsAppendOnly
<1>1. IInv /\ [Next]_vars =>
        [\A r \in Respondents :
           /\ Len(snapshots'[r]) >= Len(snapshots[r])
           /\ \A i \in DOMAIN snapshots[r] : snapshots'[r][i] = snapshots[r][i]]_vars
  BY AppendOnlyStep
<1> QED BY <1>1, Inductive, PTL DEF Spec, SnapshotsAppendOnly

(* A new request starts before any check.                                  *)
LEMMA BeginPC ==
  ASSUME task \in [Reqs -> Tasks], NEW q \in Reqs, Begin(q)
  PROVE  task'[q].pc \in {"saveCheck", "submitCheck", "unlockRead", "statusWrite"}
<1>1. ASSUME NEW r \in Respondents, NEW n \in Questions, NEW v \in Values,
             SaveBegin(q, r, n, v)
      PROVE  task'[q].pc = "saveCheck"
  BY <1>1 DEF SaveBegin, Start, Idle
<1>2. ASSUME NEW r \in Respondents, SubmitBegin(q, r)
      PROVE  task'[q].pc = "submitCheck"
  BY <1>2 DEF SubmitBegin, Start, Idle
<1>3. ASSUME NEW r \in Respondents, UnlockBegin(q, r)
      PROVE  task'[q].pc = "unlockRead"
  BY <1>3 DEF UnlockBegin, Start, Idle
<1>4. ASSUME NEW s \in Statuses, StatusBegin(q, s)
      PROVE  task'[q].pc = "statusWrite"
  BY <1>4 DEF StatusBegin, Start, Idle
<1> QED BY <1>1, <1>2, <1>3, <1>4 DEF Begin

(* A reading takes its request past the check of the lock only while the   *)
(* respondent is not locked.                                               *)
LEMMA OnlyCheckPasses ==
  ASSUME IInv, NEW q \in Reqs, Reading(q), NEW r \in Respondents, Drained(r),
         NEW p \in Reqs
  PROVE  ~PastCheck(p, r)'
<1>1. /\ task \in [Reqs -> Tasks]
      /\ ~PastCheck(p, r) /\ ~PastCheck(q, r) /\ submitted[r]
  BY DEF IInv, TypeOK, Drained
<1>2. CASE p # q
  BY <1>1, <1>2, ReadingMovesOne DEF IInv, PastCheck
<1>3. CASE p = q
  <2>1. CASE Begin(q)
    BY <1>1, <1>3, <2>1, BeginPC DEF PastCheck
  <2>2. CASE Abort(q)
    BY <1>1, <1>3, <2>2 DEF Abort, Finish, Idle, PastCheck
  <2>3. CASE SaveCheck(q)
    BY <1>1, <1>3, <2>3 DEF SaveCheck, Finish, Goto, Idle, PastCheck, Tasks
  <2>4. CASE SaveUpsert(q)
    <3>1. task[q].who # r
      BY <1>1, <2>4 DEF SaveUpsert, At, PastCheck
    <3>2. task'[q].who = task[q].who
      BY <1>1, <2>4 DEF SaveUpsert, Tasks
    <3> QED BY <1>3, <3>1, <3>2 DEF PastCheck
  <2>5. CASE SubmitCheck(q)
    BY <1>1, <1>3, <2>5 DEF SubmitCheck, Finish, Goto, Idle, PastCheck, Tasks
  <2>6. CASE SubmitRead(q)
    BY <1>1, <1>3, <2>6 DEF SubmitRead, PastCheck, Tasks
  <2>7. CASE SubmitStamp(q)
    BY <1>1, <1>3, <2>7 DEF SubmitStamp, Goto, PastCheck, Tasks
  <2>8. CASE UnlockRead(q)
    BY <1>1, <1>3, <2>8 DEF UnlockRead, Finish, Goto, Idle, PastCheck, Tasks
  <2> QED BY <2>1, <2>2, <2>3, <2>4, <2>5, <2>6, <2>7, <2>8 DEF Reading
<1> QED BY <1>2, <1>3

LEMMA FinishPassesNone ==
  ASSUME task \in [Reqs -> Tasks], NEW q \in Reqs, Finish(q),
         NEW r \in Respondents, NEW p \in Reqs, ~PastCheck(p, r)
  PROVE  ~PastCheck(p, r)'
  BY DEF Finish, PastCheck, Idle

LEMMA DrainedStep ==
  ASSUME IInv, [Next]_vars, NEW r \in Respondents, Drained(r)
  PROVE  answers'[r] = answers[r] /\ (submitted'[r] => Drained(r)')
<1>1. /\ task \in [Reqs -> Tasks]
      /\ answers \in [Respondents -> Sheets]
      /\ \A p \in Reqs : ~PastCheck(p, r)
  BY DEF IInv, TypeOK, Drained
<1>2. ASSUME NEW q \in Reqs, Reading(q)
      PROVE  answers'[r] = answers[r] /\ (submitted'[r] => Drained(r)')
  <2>1. answers' = answers
    BY <1>2, ReadingLeavesTables DEF tables
  <2>2. \A p \in Reqs : ~PastCheck(p, r)'
    BY <1>2, OnlyCheckPasses
  <2> QED BY <2>1, <2>2 DEF Drained
<1>3. ASSUME NEW q \in Reqs, SaveCommit(q)
      PROVE  answers'[r] = answers[r] /\ (submitted'[r] => Drained(r)')
  <2>1. task[q].who # r
    BY <1>1, <1>3 DEF SaveCommit, At, PastCheck
  <2>2. answers'[r] = answers[r]
    BY <1>1, <1>3, <2>1 DEF SaveCommit
  <2>3. \A p \in Reqs : ~PastCheck(p, r)'
    BY <1>1, <1>3, FinishPassesNone DEF SaveCommit
  <2> QED BY <2>2, <2>3 DEF Drained
<1>4. ASSUME NEW q \in Reqs, SubmitCommit(q) \/ UnlockWrite(q) \/ StatusWrite(q)
      PROVE  answers'[r] = answers[r] /\ (submitted'[r] => Drained(r)')
  <2>1. answers' = answers /\ Finish(q)
    BY <1>4 DEF SubmitCommit, UnlockWrite, StatusWrite
  <2>2. \A p \in Reqs : ~PastCheck(p, r)'
    BY <1>1, <2>1, FinishPassesNone
  <2> QED BY <2>1, <2>2 DEF Drained
<1>5. CASE (\E s \in Respondents, n \in Questions : LogNudge(s, n)) \/ UNCHANGED vars
  <2>1. answers' = answers /\ task' = task
    BY <1>5 DEF LogNudge, vars, tables
  <2> QED BY <1>1, <2>1 DEF Drained, PastCheck
<1> QED BY <1>2, <1>3, <1>4, <1>5, StepCases

(* With the saves already past assertAnswersWritable finished, the answers *)
(* of a locked respondent stay as they are until an unlock.                *)
THEOREM LockHoldsOnceDrained == Spec => DrainedLockHolds
<1>1. IInv /\ [Next]_vars =>
        [\A r \in Respondents :
           Drained(r) => /\ answers'[r] = answers[r]
                         /\ submitted'[r] => Drained(r)']_vars
  BY DrainedStep
<1> QED BY <1>1, Inductive, PTL DEF Spec, DrainedLockHolds

-----------------------------------------------------------------------------
(* The routes are the answer book.  A request stands for a ticket, and     *)
(* nobody but the request itself moves it: whatever the others do between  *)
(* its statements, its own next step is the book's next step with that     *)
(* ticket, or none.                                                        *)
Tickets == [p \in Reqs |-> TicketOf(task[p])]

LEMMA TicketOfIdle == TicketOf(Idle) = Book!None
  BY DEF TicketOf, AdmittedTo, Idle, Book!None, Book!Ticket, Book!Blank, Blank

(* The ticket of a request, by where it is.                                *)
LEMMA TicketAt ==
  ASSUME NEW t
  PROVE  /\ t.pc \in {"saveCheck", "submitCheck"} =>
              TicketOf(t) = Book!Ticket("ask", t.who, Book!Blank)
         /\ t.pc \in {"saveUpsert", "saveCommit"} =>
              TicketOf(t) = Book!Ticket("write", t.who, Book!Blank)
         /\ t.pc = "submitRead" => TicketOf(t) = Book!Ticket("copy", t.who, Book!Blank)
         /\ t.pc \in {"submitStamp", "submitCommit"} =>
              TicketOf(t) = Book!Ticket("freeze", t.who, t.payload)
         /\ t.pc \in {"idle", "unlockRead", "unlockWrite", "statusWrite"} =>
              TicketOf(t) = Book!None
  BY DEF TicketOf, AdmittedTo, Book!None, Book!Ticket, Book!Blank, Blank

(* A step of one request moves one ticket.                                 *)
LEMMA TicketMoves ==
  ASSUME task \in [Reqs -> Tasks], NEW q \in Reqs, NEW t,
         task' = [task EXCEPT ![q] = t]
  PROVE  Tickets' = [Tickets EXCEPT ![q] = TicketOf(t)]
<1>1. \A p \in Reqs : task'[p] = IF p = q THEN t ELSE task[p]
  OBVIOUS
<1> QED BY <1>1 DEF Tickets

LEMMA TicketStays ==
  ASSUME task \in [Reqs -> Tasks], NEW q \in Reqs, NEW t,
         task' = [task EXCEPT ![q] = t], TicketOf(t) = TicketOf(task[q])
  PROVE  Tickets' = Tickets
<1>1. Tickets' = [Tickets EXCEPT ![q] = TicketOf(t)]
  BY TicketMoves
<1>2. Tickets[q] = TicketOf(task[q])
  BY DEF Tickets
<1> QED BY <1>1, <1>2 DEF Tickets

(* A request that ends drops its ticket.                                   *)
LEMMA TicketDropped ==
  ASSUME task \in [Reqs -> Tasks], NEW q \in Reqs, Finish(q)
  PROVE  Tickets' = [Tickets EXCEPT ![q] = Book!None]
  BY TicketMoves, TicketOfIdle DEF Finish

(* The book starts as the routes do.                                       *)
LEMMA BookInit == Init => Book!Init
<1> SUFFICES ASSUME Init PROVE Book!Init
  OBVIOUS
<1>1. Tickets = [q \in Reqs |-> Book!None]
  BY TicketOfIdle DEF Init, Tickets
<1> QED BY <1>1 DEF Init, Book!Init, Blank, Book!Blank, Tickets

(* A step that ends a request and leaves the sheets alone.                 *)
LEMMA DropStep ==
  ASSUME IInv, NEW q \in Reqs, Finish(q), UNCHANGED tables
  PROVE  [Book!Next]_(Book!vars)
<1>1. Tickets' = [Tickets EXCEPT ![q] = Book!None]
  BY TicketDropped DEF IInv, TypeOK
<1>2. Book!Drop(q)
  BY <1>1 DEF Book!Drop, Book!Take, Tickets, tables
<1> QED BY <1>2 DEF Book!Next

(* A request that begins at a route of the sheet is let in; one of the     *)
(* facilitator's is nothing in the book.                                   *)
LEMMA LetInStep ==
  ASSUME IInv, NEW q \in Reqs, UNCHANGED tables, NEW r \in Respondents,
         status = "open", NEW t, Start(q, t),
         t.pc \in {"saveCheck", "submitCheck"}, t.who = r
  PROVE  Book!LetIn(q, r)
<1>1. task \in [Reqs -> Tasks] /\ task' = [task EXCEPT ![q] = t]
  BY DEF IInv, TypeOK, Start
<1>2. TicketOf(t) = Book!Ticket("ask", r, Book!Blank)
  BY TicketAt
<1>3. Tickets' = [Tickets EXCEPT ![q] = TicketOf(t)]
  BY <1>1, TicketMoves
<1>4. Tickets[q] = Book!None
  BY TicketAt DEF Tickets, Start, At
<1> QED BY <1>2, <1>3, <1>4 DEF Book!LetIn, Book!Take, Tickets, tables

LEMMA FacilitatorStep ==
  ASSUME IInv, NEW q \in Reqs, UNCHANGED tables, NEW t, Start(q, t),
         t.pc \in {"unlockRead", "statusWrite"}
  PROVE  UNCHANGED Book!vars
<1>1. task \in [Reqs -> Tasks] /\ task' = [task EXCEPT ![q] = t]
  BY DEF IInv, TypeOK, Start
<1>2. TicketOf(t) = Book!None /\ TicketOf(task[q]) = Book!None
  BY TicketAt DEF Start, At
<1>3. Tickets' = Tickets
  BY <1>1, <1>2, TicketStays
<1> QED BY <1>3 DEF Book!vars, Tickets, tables

LEMMA BeginStep ==
  ASSUME IInv, NEW q \in Reqs, Begin(q)
  PROVE  [Book!Next]_(Book!vars)
<1>1. UNCHANGED tables
  BY DEF Begin, SaveBegin, SubmitBegin, UnlockBegin, StatusBegin
<1>2. ASSUME NEW r \in Respondents, NEW n \in Questions, NEW v \in Values,
             SaveBegin(q, r, n, v)
      PROVE  Book!LetIn(q, r)
  <2> DEFINE t == [Idle EXCEPT !.pc = "saveCheck", !.who = r, !.question = n, !.val = v]
  <2>1. status = "open" /\ Start(q, t)
    BY <1>2 DEF SaveBegin
  <2>2. t.pc \in {"saveCheck", "submitCheck"} /\ t.who = r
    BY DEF Idle
  <2> HIDE DEF t
  <2> QED BY <1>1, <2>1, <2>2, LetInStep
<1>3. ASSUME NEW r \in Respondents, SubmitBegin(q, r)
      PROVE  Book!LetIn(q, r)
  <2> DEFINE t == [Idle EXCEPT !.pc = "submitCheck", !.who = r]
  <2>1. status = "open" /\ Start(q, t)
    BY <1>3 DEF SubmitBegin
  <2>2. t.pc \in {"saveCheck", "submitCheck"} /\ t.who = r
    BY DEF Idle
  <2> HIDE DEF t
  <2> QED BY <1>1, <2>1, <2>2, LetInStep
<1>4. ASSUME NEW r \in Respondents, UnlockBegin(q, r)
      PROVE  UNCHANGED Book!vars
  <2> DEFINE t == [Idle EXCEPT !.pc = "unlockRead", !.who = r]
  <2>1. Start(q, t)
    BY <1>4 DEF UnlockBegin
  <2>2. t.pc \in {"unlockRead", "statusWrite"}
    BY DEF Idle
  <2> HIDE DEF t
  <2> QED BY <1>1, <2>1, <2>2, FacilitatorStep
<1>5. ASSUME NEW s \in Statuses, StatusBegin(q, s)
      PROVE  UNCHANGED Book!vars
  <2> DEFINE t == [Idle EXCEPT !.pc = "statusWrite", !.to = s]
  <2>1. Start(q, t)
    BY <1>5 DEF StatusBegin
  <2>2. t.pc \in {"unlockRead", "statusWrite"}
    BY DEF Idle
  <2> HIDE DEF t
  <2> QED BY <1>1, <2>1, <2>2, FacilitatorStep
<1> QED BY <1>2, <1>3, <1>4, <1>5 DEF Begin, Book!Next

(* The lock is checked inside the transaction: past the check, admitted.   *)
LEMMA CheckStep ==
  ASSUME IInv, NEW q \in Reqs, SaveCheck(q) \/ SubmitCheck(q)
  PROVE  [Book!Next]_(Book!vars)
<1> DEFINE r == task[q].who
<1>1. /\ task \in [Reqs -> Tasks] /\ RequestOK(task[q]) /\ UNCHANGED tables
      /\ task[q].pc \in {"saveCheck", "submitCheck"}
  BY DEF IInv, TypeOK, RequestsOK, SaveCheck, SubmitCheck, At
<1>2. r \in Respondents /\ Tickets[q] = Book!Ticket("ask", r, Book!Blank)
  BY <1>1, TicketAt DEF RequestOK, Tickets
<1>3. CASE Finish(q)
  BY <1>1, <1>3, DropStep
<1>4. ASSUME ~submitted[r], NEW pc \in {"saveUpsert", "submitRead"}, Goto(q, pc)
      PROVE  Book!Admit(q, r)
  <2> DEFINE t == [task[q] EXCEPT !.pc = pc]
  <2>1. t.pc = pc /\ t.who = r
    BY <1>1 DEF Tasks
  <2>2. task' = [task EXCEPT ![q] = t]
    BY <1>1, <1>4 DEF Goto
  <2> HIDE DEF t
  <2>3. Tickets' = [Tickets EXCEPT ![q] = TicketOf(t)]
    BY <1>1, <2>2, TicketMoves
  <2>4. \E for \in {"write", "copy"} : TicketOf(t) = Book!Ticket(for, r, Book!Blank)
    BY <1>4, <2>1, TicketAt
  <2>5. Book!Holds(q, "ask", r)
    BY <1>2 DEF Book!Holds, Book!Ticket, Tickets
  <2> QED BY <1>1, <1>4, <2>3, <2>4, <2>5 DEF Book!Admit, Book!Take, Tickets, tables
<1> QED BY <1>2, <1>3, <1>4 DEF SaveCheck, SubmitCheck, Book!Next

(* listOwnAnswers reads all of the sheet at once.                          *)
LEMMA CopyStep ==
  ASSUME IInv, NEW q \in Reqs, SubmitRead(q)
  PROVE  [Book!Next]_(Book!vars)
<1> DEFINE r == task[q].who
           t == [task[q] EXCEPT !.pc = "submitStamp", !.payload = answers[r]]
<1>1. /\ task \in [Reqs -> Tasks] /\ RequestOK(task[q]) /\ UNCHANGED tables
      /\ task[q].pc = "submitRead"
  BY DEF IInv, TypeOK, RequestsOK, SubmitRead, At
<1>2. r \in Respondents /\ Book!Holds(q, "copy", r)
  BY <1>1, TicketAt DEF RequestOK, Book!Holds, Book!Ticket
<1>3. t.pc = "submitStamp" /\ t.who = r /\ t.payload = answers[r]
  BY <1>1 DEF Tasks
<1>4. task' = [task EXCEPT ![q] = t]
  BY <1>1 DEF SubmitRead
<1> HIDE DEF t
<1>5. Tickets' = [Tickets EXCEPT ![q] = Book!Ticket("freeze", r, answers[r])]
  <2>1. Tickets' = [Tickets EXCEPT ![q] = TicketOf(t)]
    BY <1>1, <1>4, TicketMoves
  <2>2. TicketOf(t) = Book!Ticket("freeze", r, answers[r])
    BY <1>3, TicketAt
  <2> QED BY <2>1, <2>2
<1>6. Book!Copy(q, r)
  BY <1>1, <1>2, <1>5 DEF Book!Copy, Book!Take, Tickets, tables
<1> QED BY <1>2, <1>6 DEF Book!Next

(* Waiting for a row, and reading the lock of the one to be unlocked, are  *)
(* nothing in the book.                                                    *)
LEMMA WaitStep ==
  ASSUME IInv, NEW q \in Reqs, SaveUpsert(q) \/ SubmitStamp(q) \/ UnlockRead(q)
  PROVE  [Book!Next]_(Book!vars)
<1>1. task \in [Reqs -> Tasks] /\ UNCHANGED tables
  BY DEF IInv, TypeOK, SaveUpsert, SubmitStamp, UnlockRead
<1>2. ASSUME NEW t, task' = [task EXCEPT ![q] = t], TicketOf(t) = TicketOf(task[q])
      PROVE  UNCHANGED Book!vars
  <2>1. Tickets' = Tickets
    BY <1>1, <1>2, TicketStays
  <2> QED BY <1>1, <2>1 DEF Book!vars, Tickets, tables
<1>3. CASE SaveUpsert(q)
  <2> DEFINE m == coach[task[q].who][task[q].question].unchanged
             t == [task[q] EXCEPT !.pc = "saveCommit", !.marks = m]
  <2>1. t.pc = "saveCommit" /\ t.who = task[q].who /\ task[q].pc = "saveUpsert"
    BY <1>1, <1>3 DEF SaveUpsert, At, Tasks
  <2>2. task' = [task EXCEPT ![q] = t]
    BY <1>1, <1>3 DEF SaveUpsert
  <2> HIDE DEF t
  <2>3. TicketOf(t) = TicketOf(task[q])
    BY <2>1, TicketAt
  <2> QED BY <1>2, <2>2, <2>3
<1>4. CASE SubmitStamp(q)
  <2> DEFINE t == [task[q] EXCEPT !.pc = "submitCommit"]
  <2>1. /\ t.pc = "submitCommit" /\ t.who = task[q].who
        /\ t.payload = task[q].payload /\ task[q].pc = "submitStamp"
    BY <1>1, <1>4 DEF SubmitStamp, At, Tasks
  <2>2. task' = [task EXCEPT ![q] = t]
    BY <1>1, <1>4 DEF SubmitStamp, Goto
  <2> HIDE DEF t
  <2>3. TicketOf(t) = TicketOf(task[q])
    BY <2>1, TicketAt
  <2> QED BY <1>2, <2>2, <2>3
<1>5. CASE UnlockRead(q)
  <2> DEFINE t == [task[q] EXCEPT !.pc = "unlockWrite"]
  <2>1. CASE Finish(q)
    BY <1>1, <2>1, DropStep
  <2>2. CASE Goto(q, "unlockWrite")
    <3>1. t.pc = "unlockWrite" /\ task[q].pc = "unlockRead"
      BY <1>1, <1>5 DEF UnlockRead, At, Tasks
    <3>2. task' = [task EXCEPT ![q] = t]
      BY <1>1, <2>2 DEF Goto
    <3> HIDE DEF t
    <3>3. TicketOf(t) = TicketOf(task[q])
      BY <3>1, TicketAt
    <3> QED BY <1>2, <3>2, <3>3
  <2> QED BY <1>5, <2>1, <2>2 DEF UnlockRead
<1> QED BY <1>3, <1>4, <1>5

(* What a request writes, it writes with its ticket.                       *)
LEMMA WriteStep ==
  ASSUME IInv, NEW q \in Reqs,
         SaveCommit(q) \/ SubmitCommit(q) \/ UnlockWrite(q) \/ StatusWrite(q)
  PROVE  [Book!Next]_(Book!vars)
<1> DEFINE t == task[q]
<1>1. task \in [Reqs -> Tasks] /\ RequestOK(t) /\ Finish(q)
  BY DEF IInv, TypeOK, RequestsOK, SaveCommit, SubmitCommit, UnlockWrite, StatusWrite
<1>2. Tickets' = [Tickets EXCEPT ![q] = Book!None]
  BY <1>1, TicketDropped
<1>3. CASE SaveCommit(q)
  <2>1. t.pc = "saveCommit" /\ t.who \in Respondents /\ t.val \in Values
        /\ t.question \in Questions
    BY <1>1, <1>3 DEF SaveCommit, At, RequestOK
  <2>2. RowsOf(t.question) \in SUBSET Rows
    BY <2>1 DEF RowsOf, Rows
  <2>3. Book!Holds(q, "write", t.who)
    BY <2>1, TicketAt DEF Book!Holds, Book!Ticket
  <2>4. Book!Write(q, t.who)
    BY <1>2, <1>3, <2>1, <2>2, <2>3 DEF SaveCommit, Book!Write, Book!Take, Tickets
  <2> QED BY <2>1, <2>4 DEF Book!Next
<1>4. CASE SubmitCommit(q)
  <2>1. t.pc = "submitCommit" /\ t.who \in Respondents
    BY <1>1, <1>4 DEF SubmitCommit, At, RequestOK
  <2>2. Tickets[q] = Book!Ticket("freeze", t.who, t.payload)
    BY <2>1, TicketAt DEF Tickets
  <2>3. Book!Holds(q, "freeze", t.who) /\ Tickets[q].copy = t.payload
    BY <2>1, <2>2 DEF Book!Holds, Book!Ticket, Tickets
  <2>4. Book!Freeze(q, t.who)
    BY <1>2, <1>4, <2>3 DEF SubmitCommit, Book!Freeze, Book!Take, Tickets
  <2> QED BY <2>1, <2>4 DEF Book!Next
<1>5. ASSUME t.pc \in {"unlockWrite", "statusWrite"}
      PROVE  Tickets' = Tickets
  <2>1. Tickets[q] = Book!None
    BY <1>5, TicketAt DEF Tickets
  <2> QED BY <1>2, <2>1 DEF Tickets
<1>6. CASE UnlockWrite(q)
  <2>1. t.pc = "unlockWrite" /\ t.who \in Respondents
    BY <1>1, <1>6 DEF UnlockWrite, At, RequestOK
  <2>2. Tickets' = Tickets
    BY <1>5, <2>1
  <2>3. Book!Unlock(t.who)
    BY <1>6, <2>2 DEF UnlockWrite, Book!Unlock, Tickets
  <2> QED BY <2>1, <2>3 DEF Book!Next
<1>7. CASE StatusWrite(q)
  <2>1. Tickets' = Tickets
    BY <1>5, <1>7 DEF StatusWrite, At
  <2>2. Book!SetStatus
    BY <1>7, <2>1 DEF StatusWrite, Book!SetStatus, Tickets
  <2> QED BY <2>2 DEF Book!Next
<1> QED BY <1>3, <1>4, <1>6, <1>7

LEMMA BookStep == IInv /\ [Next]_vars => [Book!Next]_(Book!vars)
<1> SUFFICES ASSUME IInv, [Next]_vars PROVE [Book!Next]_(Book!vars)
  OBVIOUS
<1>1. ASSUME NEW q \in Reqs, Reading(q) PROVE [Book!Next]_(Book!vars)
  <2>1. CASE Abort(q)
    BY <2>1, DropStep DEF Abort
  <2> QED BY <1>1, <2>1, BeginStep, CheckStep, CopyStep, WaitStep DEF Reading
<1>2. CASE (\E r \in Respondents, n \in Questions : LogNudge(r, n)) \/ UNCHANGED vars
  <2>1. UNCHANGED <<status, answers, submitted, snapshots, task>>
    BY <1>2 DEF LogNudge, vars, tables
  <2> QED BY <2>1 DEF Book!vars
<1> QED BY <1>1, <1>2, StepCases, WriteStep

(* For any cohort, any questions and any number of requests at a time, the *)
(* statements of lib/answers, lib/lock, lib/submit and lib/unlock are the  *)
(* answer book.                                                            *)
THEOREM RoutesAreBook == Spec => ImplementsBook
<1>1. Init => Book!Init
  BY BookInit
<1> QED BY <1>1, BookStep, Inductive, PTL DEF Spec, ImplementsBook, Book!Spec
=============================================================================
