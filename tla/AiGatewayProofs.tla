-------------------------- MODULE AiGatewayProofs --------------------------
(* Theorems about AiGateway. *)
EXTENDS AiGateway, FiniteSetTheorems, SequenceTheorems, TLAPS

\* What a call holds at each point: a flag says whether it may be charged, and
\* only a call on its way to the row, or past it, has a cost.
RecordOK(r) ==
  /\ r.pc # "idle" => r.proc \in Processes
  /\ r.pc \in {"budget", "circuit", "record", "spent"} => r.kind \in Audited
  /\ r.pc \in {"asked", "backoff"} /\ r.kind # "ideate" => ~r.exhausted
  /\ r.pc \in {"dispatch", "asked", "backoff"} => r.kind # "none"
  /\ r.pc \in {"record", "spent"} /\ r.cost # Free => ~r.exhausted
  /\ r.pc \notin {"record", "spent", "reply"} => r.cost = Free
  /\ r.drafts => r.kind = "synthesis" /\ (r.pc = "reply" => r.cost = Free)

CallsOK == \A c \in Calls : RecordOK(call[c])

IInv == TypeOK /\ CallsOK

-----------------------------------------------------------------------------
\* The zero charge, the idle call and an unused job are of their types.
LEMMA Defaults ==
  /\ Free \in Costs
  /\ NoCall \in CallRecord
  /\ NoJob \in JobRecord
  BY GatewayAssumption
     DEF Free, Costs, NoCall, CallRecord, Levels, Pins, NoJob, JobRecord

\* The target of a call is a pin and its level one of the three.
LEMMA LevelTypes ==
  ASSUME NEW pin \in Pins, NEW r \in CallRecord
  PROVE  Target(pin) \in Pins /\ GatedLevel(r) \in Levels
  BY GatewayAssumption
     DEF Target, GatedLevel, SelectLevel, Pins, Levels, CallRecord

\* A call that the pipeline lets through to the provider saw budget left.
LEMMA GateHolds ==
  ASSUME NEW r \in CallRecord, GatedLevel(r) = "L0"
  PROVE  ~r.exhausted
  BY DEF GatedLevel, CallRecord

\* The latency window keeps its type and its length.
LEMMA PushedType ==
  ASSUME NEW w \in Seq(BOOLEAN), Len(w) <= Window, NEW slow \in BOOLEAN
  PROVE  Pushed(w, slow) \in Seq(BOOLEAN) /\ Len(Pushed(w, slow)) <= Window
  <1> DEFINE longer == Append(w, slow)
  <1>1. longer \in Seq(BOOLEAN) /\ Len(longer) = Len(w) + 1 /\ Len(w) \in Nat
    OBVIOUS
  <1>2. longer # <<>>
    BY AppendProperties
  <1>3. Tail(longer) \in Seq(BOOLEAN) /\ Len(Tail(longer)) = Len(longer) - 1
    BY <1>1, <1>2, HeadTailProperties
  <1>4. Pushed(w, slow) = IF Len(longer) > Window THEN Tail(longer) ELSE longer
    BY DEF Pushed
  <1>5. Window \in Nat
    BY GatewayAssumption
  <1> HIDE DEF longer
  <1>6. CASE Len(longer) > Window
    <2>1. Pushed(w, slow) = Tail(longer)
      BY <1>4, <1>6
    <2> QED BY <2>1, <1>1, <1>3
  <1>7. CASE ~(Len(longer) > Window)
    <2>1. Pushed(w, slow) = longer
      BY <1>4, <1>7
    <2>2. Len(longer) \in Nat
      BY <1>1
    <2> QED BY <2>1, <2>2, <1>1, <1>5, <1>7
  <1> QED BY <1>6, <1>7

\* One call of the function changes.
LEMMA OneCall ==
  ASSUME NEW c \in Calls, NEW r \in CallRecord,
         call \in [Calls -> CallRecord], call' = [call EXCEPT ![c] = r]
  PROVE  /\ call' \in [Calls -> CallRecord]
         /\ call'[c] = r
         /\ \A o \in Calls \ {c} : call'[o] = call[o]
  OBVIOUS

\* A step that gives one call a sound record keeps all records sound.
LEMMA Moves ==
  ASSUME IInv, NEW c \in Calls, NEW r \in CallRecord, RecordOK(r),
         call' = [call EXCEPT ![c] = r]
  PROVE  call' \in [Calls -> CallRecord] /\ CallsOK'
  BY OneCall DEF IInv, TypeOK, CallsOK, RecordOK

-----------------------------------------------------------------------------
\* The invariant holds initially.
LEMMA InvInit ==
  ASSUME Init
  PROVE  IInv
  <1>1. CallsOK
    BY Defaults DEF Init, CallsOK, RecordOK, NoCall
  <1>2. /\ used \in [Directions -> Nat] /\ breaker \in BOOLEAN
        /\ cohortPin \in Pins
        /\ seen \in [Processes -> {"none", "closed", "open"}]
    BY DEF Init, Free, Pins
  <1>3. /\ recent \in [Processes -> Seq(BOOLEAN)]
        /\ \A p \in Processes : Len(recent[p]) <= Window
    <2>1. <<>> \in Seq(BOOLEAN) /\ Len(<<>>) = 0 /\ 0 <= Window
      BY EmptySeq, GatewayAssumption
    <2> QED BY <2>1 DEF Init
  <1>4. /\ jobs \in [Jobs -> JobRecord] /\ call \in [Calls -> CallRecord]
        /\ faults \in 0..MaxFaults /\ outages \in 0..MaxOutages
    BY Defaults, GatewayAssumption DEF Init
  <1> QED BY <1>1, <1>2, <1>3, <1>4 DEF IInv, TypeOK

\* A step that only moves one call to a sound record keeps the invariant.
LEMMA MovesInv ==
  ASSUME IInv, NEW c \in Calls, NEW r \in CallRecord, RecordOK(r),
         call' = [call EXCEPT ![c] = r],
         UNCHANGED <<used, breaker, cohortPin, seen, recent, jobs, faults>>,
         outages' \in 0..MaxOutages
  PROVE  IInv'
  <1>1. call' \in [Calls -> CallRecord] /\ CallsOK'
    BY Moves
  <1> QED BY <1>1 DEF IInv, TypeOK

\* A settled call gets its level and cost, and its process a sample.
LEMMA SettleInv ==
  ASSUME IInv, NEW c \in Calls, NEW level \in Levels, NEW cost \in Costs,
         NEW slow \in BOOLEAN, call[c].pc = "asked",
         cost # Free => call[c].kind = "ideate" \/ ~call[c].exhausted,
         Settle(c, level, cost, slow), outages' \in 0..MaxOutages
  PROVE  IInv'
  <1> DEFINE r == [call[c] EXCEPT !.pc = After(c), !.level = level,
                                  !.cost = cost, !.retried = FALSE]
  <1>1. call[c] \in CallRecord /\ RecordOK(call[c])
    BY DEF IInv, TypeOK, CallsOK
  <1>2. After(c) = IF call[c].kind \in Audited THEN "record" ELSE "reply"
    BY DEF After
  <1>3. r \in CallRecord
    BY <1>1, <1>2 DEF CallRecord
  <1>4. RecordOK(r)
    BY <1>1, <1>2 DEF RecordOK, CallRecord, Audited
  <1>5. call' \in [Calls -> CallRecord] /\ CallsOK'
    BY <1>3, <1>4, Moves DEF Settle
  <1>6. /\ recent' \in [Processes -> Seq(BOOLEAN)]
        /\ \A p \in Processes : Len(recent'[p]) <= Window
    <2>1. /\ recent \in [Processes -> Seq(BOOLEAN)]
          /\ \A p \in Processes : Len(recent[p]) <= Window
          /\ call[c].proc \in Processes
      BY <1>1 DEF IInv, TypeOK, RecordOK
    <2>2. /\ Pushed(recent[call[c].proc], slow) \in Seq(BOOLEAN)
          /\ Len(Pushed(recent[call[c].proc], slow)) <= Window
      BY <2>1, PushedType
    <2>3. recent' = [recent EXCEPT ![call[c].proc] = Pushed(recent[call[c].proc], slow)]
      BY DEF Settle
    <2> QED BY <2>1, <2>2, <2>3
  <1> QED BY <1>5, <1>6 DEF Settle, IInv, TypeOK

\* Every step keeps the invariant.
LEMMA InvStep ==
  ASSUME IInv, [Next]_vars
  PROVE  IInv'
  <1>0. /\ call \in [Calls -> CallRecord] /\ outages \in 0..MaxOutages
        /\ \A c \in Calls : call[c] \in CallRecord /\ RecordOK(call[c])
        /\ faults \in 0..MaxFaults /\ jobs \in [Jobs -> JobRecord]
        /\ MaxOutages \in Nat /\ MaxFaults \in Nat
    BY GatewayAssumption DEF IInv, TypeOK, CallsOK
  <1>1. ASSUME NEW c \in Requests, NEW kind \in Audited,
               NEW p \in Processes, NEW k \in Keys \cup {None},
               Start(c, kind, p, k)
        PROVE  IInv'
    <2> DEFINE r == [NoCall EXCEPT !.pc = "budget", !.kind = kind, !.proc = p,
                                   !.key = k, !.target = Target(cohortPin),
                                   !.drafts = (kind = "synthesis")]
    <2>1. Target(cohortPin) \in Pins
      BY LevelTypes, Defaults DEF IInv, TypeOK
    <2>2. r \in CallRecord /\ RecordOK(r)
      BY <2>1, Defaults DEF NoCall, CallRecord, RecordOK, Audited
    <2> QED BY <1>0, <1>1, <2>2, MovesInv DEF Start, Calls
  <1>2. ASSUME NEW c \in Requests, NEW p \in Processes, StartIdeate(c, p)
        PROVE  IInv'
    <2> DEFINE r == [NoCall EXCEPT !.pc = "dispatch", !.kind = "ideate",
                                   !.proc = p, !.target = Boot]
    <2>1. r \in CallRecord /\ RecordOK(r)
      BY Defaults, GatewayAssumption DEF NoCall, CallRecord, RecordOK
    <2> QED BY <1>0, <1>2, <2>1, MovesInv DEF StartIdeate, Calls
  <1>3. ASSUME NEW j \in Jobs, Attempt(j) PROVE IInv'
    <2> DEFINE r == [NoCall EXCEPT !.pc = "budget", !.kind = "analysis",
                        !.proc = j[1], !.key = j[2], !.target = Target(cohortPin)]
    <2>1. Target(cohortPin) \in Pins /\ j[1] \in Processes /\ j[2] \in Keys
      BY LevelTypes, Defaults DEF IInv, TypeOK, Jobs
    <2>2. r \in CallRecord /\ RecordOK(r)
      BY <2>1, Defaults DEF NoCall, CallRecord, RecordOK, Audited
    <2>3. call' \in [Calls -> CallRecord] /\ CallsOK'
      BY <1>3, <2>2, Moves DEF Attempt, Calls
    <2>4. jobs' \in [Jobs -> JobRecord]
      BY <1>0, <1>3 DEF Attempt, JobRecord
    <2> QED BY <1>3, <2>3, <2>4 DEF Attempt, IInv, TypeOK
  <1>4. ASSUME NEW c \in Calls, ReadBudget(c) PROVE IInv'
    <2> DEFINE r == [call[c] EXCEPT !.pc = "circuit", !.exhausted = Exhausted(used)]
    <2>1. r \in CallRecord /\ RecordOK(r)
      BY <1>0, <1>4 DEF ReadBudget, CallRecord, RecordOK, Exhausted
    <2>2. call' = [call EXCEPT ![c] = r]
      BY <1>0, <1>4 DEF ReadBudget, CallRecord
    <2> QED BY <1>0, <1>4, <2>1, <2>2, MovesInv DEF ReadBudget
  <1>5. ASSUME NEW c \in Calls, ReadCircuit(c) PROVE IInv'
    <2> DEFINE p == call[c].proc
               open == IF seen[p] = "none" THEN breaker ELSE seen[p] = "open"
               r == [call[c] EXCEPT !.pc = "dispatch", !.open = open,
                                    !.degraded = Degraded(recent[p])]
    <2>a. Degraded(recent[p]) \in BOOLEAN
      BY DEF Degraded
    <2>b. open \in BOOLEAN
      <3>1. CASE seen[p] = "none"
        BY <3>1 DEF IInv, TypeOK
      <3>2. CASE seen[p] # "none"
        BY <3>2
      <3> QED BY <3>1, <3>2
    <2> HIDE DEF open
    <2>1. r \in CallRecord
      BY <1>0, <2>a, <2>b DEF CallRecord
    <2>2. r \in CallRecord /\ RecordOK(r)
      BY <1>0, <1>5, <2>1 DEF ReadCircuit, CallRecord, RecordOK, Audited
    <2>3. call' = [call EXCEPT ![c] = r]
      BY <1>0, <1>5 DEF ReadCircuit, CallRecord, open
    <2>4. call' \in [Calls -> CallRecord] /\ CallsOK'
      BY <2>2, <2>3, Moves
    <2>5. seen' \in [Processes -> {"none", "closed", "open"}]
      BY <1>5 DEF ReadCircuit, IInv, TypeOK, open
    <2> QED BY <1>5, <2>4, <2>5 DEF ReadCircuit, IInv, TypeOK
  <1>6. ASSUME NEW c \in Calls, Dispatch(c) PROVE IInv'
    <2> DEFINE level == GatedLevel(call[c])
               next == IF level = "L0" THEN "asked" ELSE After(c)
               r == [Forgotten(call[c]) EXCEPT !.pc = next, !.level = level]
    <2>1. level \in Levels /\ (level = "L0" => ~call[c].exhausted)
      BY <1>0, LevelTypes, GateHolds, Defaults DEF IInv, TypeOK
    <2>2. After(c) = IF call[c].kind \in Audited THEN "record" ELSE "reply"
      BY DEF After
    <2>3. call' = [call EXCEPT ![c] = r]
      BY <1>6 DEF Dispatch
    <2>n. /\ next \in {"asked", "record", "reply"}
          /\ next = "asked" => ~call[c].exhausted
          /\ next = "record" => call[c].kind \in Audited
          /\ next = "reply" => call[c].kind \notin Audited
      BY <2>1, <2>2
    <2> HIDE DEF level, next
    <2>f. /\ Forgotten(call[c]) \in CallRecord
          /\ \A f \in {"proc", "kind", "exhausted", "cost", "drafts"} :
               Forgotten(call[c])[f] = call[c][f]
      BY <1>0 DEF Forgotten, CallRecord, Pins
    <2>4. r \in CallRecord
      BY <2>f, <2>1, <2>n DEF CallRecord
    <2>k. /\ call[c].cost = Free /\ call[c].proc \in Processes
          /\ call[c].kind # "none" /\ (call[c].drafts => call[c].kind = "synthesis")
      BY <1>0, <1>6 DEF Dispatch, RecordOK
    <2>s. /\ r.pc = next /\ r.proc = call[c].proc /\ r.kind = call[c].kind
          /\ r.exhausted = call[c].exhausted /\ r.cost = call[c].cost
          /\ r.drafts = call[c].drafts
      BY <2>f DEF CallRecord
    <2>5. RecordOK(r)
      BY <2>n, <2>k, <2>s DEF RecordOK
    <2> QED BY <1>0, <1>6, <2>3, <2>4, <2>5, MovesInv DEF Dispatch
  <1>7. ASSUME NEW c \in Calls, Answered(c) PROVE IInv'
    <2>1. PICK cost \in Charges, slow \in BOOLEAN : Settle(c, "L0", cost, slow)
      BY <1>7 DEF Answered
    <2>2. cost \in Costs /\ "L0" \in Levels
      BY GatewayAssumption DEF Levels
    <2>3. call[c].kind = "ideate" \/ ~call[c].exhausted
      BY <1>0, <1>7 DEF Answered, RecordOK
    <2> QED BY <1>0, <1>7, <2>1, <2>2, <2>3, SettleInv DEF Answered
  <1>8. ASSUME NEW c \in Calls, GuardTrips(c) \/ Failed(c) PROVE IInv'
    <2>1. PICK slow \in BOOLEAN : Settle(c, "L2", Free, slow)
      BY <1>8 DEF GuardTrips, Failed
    <2>2. "L2" \in Levels /\ outages' \in 0..MaxOutages /\ call[c].pc = "asked"
      BY <1>0, <1>8 DEF Levels, GuardTrips, Failed
    <2> QED BY <2>1, <2>2, Defaults, SettleInv
  <1>9. ASSUME NEW c \in Calls, RateLimited(c) PROVE IInv'
    <2> DEFINE r == [call[c] EXCEPT !.pc = "backoff", !.retried = TRUE]
    <2>1. r \in CallRecord /\ RecordOK(r)
      BY <1>0, <1>9 DEF RateLimited, CallRecord, RecordOK
    <2>2. call' = [call EXCEPT ![c] = r]
      BY <1>0, <1>9 DEF RateLimited, CallRecord
    <2>3. outages' \in 0..MaxOutages
      BY <1>0, <1>9 DEF RateLimited
    <2> QED BY <1>9, <2>1, <2>2, <2>3, MovesInv DEF RateLimited
  <1>10. ASSUME NEW c \in Calls, AskAgain(c) PROVE IInv'
    <2> DEFINE r == [call[c] EXCEPT !.pc = "asked"]
    <2>1. r \in CallRecord /\ RecordOK(r)
      BY <1>0, <1>10 DEF AskAgain, CallRecord, RecordOK
    <2>2. call' = [call EXCEPT ![c] = r]
      BY <1>0, <1>10 DEF AskAgain, CallRecord
    <2> QED BY <1>0, <1>10, <2>1, <2>2, MovesInv DEF AskAgain
  <1>11. ASSUME NEW c \in Calls, Spend(c) PROVE IInv'
    <2> DEFINE r == [call[c] EXCEPT !.pc = "spent"]
    <2>1. r \in CallRecord /\ RecordOK(r)
      BY <1>0, <1>11 DEF Spend, CallRecord, RecordOK
    <2>2. call' = [call EXCEPT ![c] = r]
      BY <1>0, <1>11 DEF Spend, CallRecord
    <2> QED BY <1>0, <1>11, <2>1, <2>2, MovesInv DEF Spend
  <1>12. ASSUME NEW c \in Calls, Commit(c) PROVE IInv'
    <2> DEFINE r == [call[c] EXCEPT !.pc = "reply", !.cost = Free]
    <2>1. r \in CallRecord /\ RecordOK(r)
      BY <1>0, <1>12, Defaults DEF Commit, CallRecord, RecordOK
    <2>2. call' \in [Calls -> CallRecord] /\ CallsOK'
      BY <1>12, <2>1, Moves DEF Commit
    <2>3. used' \in [Directions -> Nat]
      <3>1. used \in [Directions -> Nat] /\ call[c].cost \in Costs
        BY <1>0 DEF IInv, TypeOK, CallRecord
      <3> QED BY <1>12, <3>1, GatewayAssumption DEF Commit, Plus, Costs
    <2>4. breaker' \in BOOLEAN /\ cohortPin' \in Pins
      BY <1>12 DEF Commit, IInv, TypeOK, Pins, Levels
    <2> QED BY <1>12, <2>2, <2>3, <2>4 DEF Commit, IInv, TypeOK
  <1>13. ASSUME NEW c \in Calls, RecordFails(c) PROVE IInv'
    <2> DEFINE r == [call[c] EXCEPT !.pc = "reply", !.cost = Free]
    <2>1. r \in CallRecord /\ RecordOK(r)
      BY <1>0, <1>13, Defaults DEF RecordFails, CallRecord, RecordOK
    <2>2. call' \in [Calls -> CallRecord] /\ CallsOK'
      BY <1>13, <2>1, Moves DEF RecordFails
    <2>3. faults' \in 0..MaxFaults
      BY <1>0, <1>13 DEF RecordFails
    <2> QED BY <1>13, <2>2, <2>3 DEF RecordFails, IInv, TypeOK
  <1>ended. RecordOK(NoCall) /\ NoCall \in CallRecord
    BY Defaults DEF NoCall, RecordOK
  <1>goon. ASSUME NEW j \in Jobs, GoOn(j) PROVE jobs' \in [Jobs -> JobRecord]
    BY <1>0, <1>goon, Defaults, GatewayAssumption DEF GoOn, JobRecord
  <1>draft. ASSUME NEW c \in Calls, Draft(c) PROVE IInv'
    <2> DEFINE r == [call[c] EXCEPT !.pc = "dispatch", !.drafts = FALSE]
    <2>1. r \in CallRecord /\ RecordOK(r)
      BY <1>0, <1>draft DEF Draft, CallRecord, RecordOK, Audited
    <2> QED BY <1>0, <1>draft, <2>1, MovesInv DEF Draft
  <1>14. ASSUME NEW c \in Requests, Respond(c) PROVE IInv'
    <2>1. call' \in [Calls -> CallRecord] /\ CallsOK'
      BY <1>14, <1>ended, Moves DEF Respond, Calls
    <2>2. jobs' \in [Jobs -> JobRecord]
      BY <1>0, <1>14, GatewayAssumption DEF Respond, JobRecord
    <2> QED BY <1>14, <2>1, <2>2 DEF Respond, IInv, TypeOK
  <1>15. ASSUME NEW j \in Jobs, RoundEnds(j) PROVE IInv'
    <2>1. call' \in [Calls -> CallRecord] /\ CallsOK'
      BY <1>15, <1>ended, Moves DEF RoundEnds, Calls
    <2>2. jobs' \in [Jobs -> JobRecord] /\ outages' \in 0..MaxOutages
      <3>1. CASE GoOn(j)
        BY <1>0, <1>15, <1>goon, <3>1 DEF RoundEnds
      <3>2. CASE jobs' = [jobs EXCEPT ![j] = [state |-> "done", attempt |-> 0]]
        BY <1>0, <1>15, <3>2, GatewayAssumption DEF RoundEnds, JobRecord
      <3> QED BY <1>15, <3>1, <3>2 DEF RoundEnds
    <2> QED BY <1>15, <2>1, <2>2 DEF RoundEnds, IInv, TypeOK
  <1>16. ASSUME NEW c \in Calls, Breaks(c) PROVE IInv'
    <2>1. call' \in [Calls -> CallRecord] /\ CallsOK'
      BY <1>16, <1>ended, Moves DEF Breaks
    <2>2. jobs' \in [Jobs -> JobRecord] /\ faults' \in 0..MaxFaults
      BY <1>0, <1>16 DEF Breaks, JobRecord
    <2> QED BY <1>16, <2>1, <2>2 DEF Breaks, IInv, TypeOK
  <1>17. ASSUME NEW pin \in PinChoices, SetPin(pin) PROVE IInv'
    BY <1>17, GatewayAssumption DEF SetPin, IInv, TypeOK, CallsOK
  <1>18. ASSUME NEW p \in Processes, Restart(p) PROVE IInv'
    <2>1. call' \in [Calls -> CallRecord] /\ CallsOK'
      BY <1>0, <1>18, <1>ended DEF Restart, CallsOK
    <2>2. jobs' \in [Jobs -> JobRecord] /\ faults' \in 0..MaxFaults
      BY <1>0, <1>18, Defaults DEF Restart
    <2>3. seen' \in [Processes -> {"none", "closed", "open"}]
      BY <1>18 DEF Restart, IInv, TypeOK
    <2>4. /\ recent' \in [Processes -> Seq(BOOLEAN)]
          /\ \A q \in Processes : Len(recent'[q]) <= Window
      <3>1. <<>> \in Seq(BOOLEAN) /\ Len(<<>>) = 0 /\ 0 <= Window
        BY EmptySeq, GatewayAssumption
      <3> QED BY <1>18, <3>1 DEF Restart, IInv, TypeOK
    <2> QED BY <1>18, <2>1, <2>2, <2>3, <2>4 DEF Restart, IInv, TypeOK
  <1>19. CASE UNCHANGED vars
    BY <1>19 DEF vars, IInv, TypeOK, CallsOK
  <1>20. ASSUME NEW c \in Calls, CallStep(c) PROVE IInv'
    BY <1>20, <1>4, <1>5, <1>6, <1>7, <1>8, <1>9, <1>10, <1>11, <1>12, <1>14,
       <1>15, <1>draft DEF CallStep
  <1> QED
    BY <1>1, <1>2, <1>3, <1>13, <1>16, <1>17, <1>18, <1>19, <1>20
    DEF Next, Audited

-----------------------------------------------------------------------------
\* A step that leaves the counters alone and admits nobody is one of the meter.
LEMMA Shrinks ==
  ASSUME used' = used, Admitted' \subseteq Admitted
  PROVE  [Meter!Next]_(Meter!meterVars)
  <1> DEFINE S == Admitted \ Admitted'
  <1>1. S \in SUBSET ModelCalls /\ Admitted' = Admitted \ S
    BY DEF Admitted
  <1>2. Meter!Release(S)
    BY <1>1 DEF Meter!Release
  <1> QED BY <1>2, <1>1 DEF Meter!Next

\* What is admitted when one call gets another record.
LEMMA AdmittedAfter ==
  ASSUME call \in [Calls -> CallRecord], NEW c \in Calls, NEW r,
         call' = [call EXCEPT ![c] = r]
  PROVE  /\ \A m \in ModelCalls : m \in Admitted <=> m[2] \in Owed(call[m[1]])
         /\ \A m \in ModelCalls :
              m \in Admitted' <=> IF m[1] = c THEN m[2] \in Owed(r)
                                              ELSE m \in Admitted
         /\ Admitted \subseteq ModelCalls /\ Admitted' \subseteq ModelCalls
  <1>1. \A m \in ModelCalls : m[1] \in Calls
    BY DEF ModelCalls
  <1>2. \A m \in ModelCalls : m \in Admitted <=> m[2] \in Owed(call[m[1]])
    BY DEF Admitted
  <1>3. \A m \in ModelCalls : m \in Admitted' <=> m[2] \in Owed(call'[m[1]])
    BY DEF Admitted, Owed, Chargeable, Awaited
  <1>4. Admitted \subseteq ModelCalls /\ Admitted' \subseteq ModelCalls
    BY DEF Admitted
  <1> QED BY <1>1, <1>2, <1>3, <1>4

\* One call gets a record that owes no more than the one before.
LEMMA OneShrinks ==
  ASSUME call \in [Calls -> CallRecord], NEW c \in Calls, NEW r,
         call' = [call EXCEPT ![c] = r], Owed(r) \subseteq Owed(call[c]),
         used' = used
  PROVE  [Meter!Next]_(Meter!meterVars)
  <1>1. Admitted' \subseteq Admitted
    BY AdmittedAfter
  <1> QED BY <1>1, Shrinks

\* A call moves on, and is chargeable only if it was.
LEMMA OwesNoMore ==
  ASSUME NEW r \in CallRecord, NEW s \in CallRecord,
         r.drafts = s.drafts, r.exhausted = s.exhausted,
         s.pc \notin {"idle", "budget"}, Chargeable(r) => Chargeable(s)
  PROVE  Owed(r) \subseteq Owed(s)
  BY DEF Owed, Awaited

\* A settled call was admitted, if its cost is to be charged.
LEMMA SettleMaps ==
  ASSUME IInv, NEW c \in Calls, NEW level \in Levels, NEW cost \in Costs, NEW slow,
         call[c].pc = "asked", Settle(c, level, cost, slow)
  PROVE  [Meter!Next]_(Meter!meterVars)
  <1> DEFINE r == [call[c] EXCEPT !.pc = After(c), !.level = level,
                                  !.cost = cost, !.retried = FALSE]
  <1>1. call \in [Calls -> CallRecord] /\ call[c] \in CallRecord
    BY DEF IInv, TypeOK
  <1>2. /\ r.kind = call[c].kind /\ r.exhausted = call[c].exhausted
        /\ r.drafts = call[c].drafts
    BY <1>1 DEF CallRecord
  <1>3. r \in CallRecord
    BY <1>1 DEF CallRecord, After
  <1>4. Chargeable(r) => Chargeable(call[c])
    BY <1>2 DEF Chargeable
  <1>5. Owed(r) \subseteq Owed(call[c])
    BY <1>1, <1>2, <1>3, <1>4, OwesNoMore
  <1> QED BY <1>1, <1>5, OneShrinks DEF Settle

\* The two readings of a reached cap, of the code and of the meter, agree.
LEMMA SameCap == \A u : Exhausted(u) <=> Meter!Exhausted(u)
  BY DEF Exhausted, Meter!Exhausted

\* Every step of the gateway is a step of the meter, or none.
LEMMA GatewayStep ==
  ASSUME IInv, [Next]_vars
  PROVE  [Meter!Next]_(Meter!meterVars)
  <1>0. /\ call \in [Calls -> CallRecord]
        /\ \A c \in Calls : call[c] \in CallRecord /\ RecordOK(call[c])
    BY DEF IInv, TypeOK, CallsOK
  <1>n. Owed(NoCall) = {}
    BY DEF Owed, Chargeable, Awaited, NoCall, Audited
  <1>1. ASSUME NEW c \in Requests, NEW kind, NEW p, NEW k, Start(c, kind, p, k)
        PROVE  [Meter!Next]_(Meter!meterVars)
    <2> DEFINE r == [NoCall EXCEPT !.pc = "budget", !.kind = kind, !.proc = p,
                                   !.key = k, !.target = Target(cohortPin),
                                   !.drafts = (kind = "synthesis")]
    <2>1. Owed(r) = {}
      BY DEF Owed, Chargeable, Awaited, NoCall
    <2> QED BY <1>0, <1>1, <2>1, OneShrinks DEF Start, Calls
  <1>2. ASSUME NEW c \in Requests, NEW p, StartIdeate(c, p)
        PROVE  [Meter!Next]_(Meter!meterVars)
    <2> DEFINE r == [NoCall EXCEPT !.pc = "dispatch", !.kind = "ideate",
                                   !.proc = p, !.target = Boot]
    <2>1. Owed(r) = {}
      BY DEF Owed, Chargeable, Awaited, NoCall, Audited
    <2> QED BY <1>0, <1>2, <2>1, OneShrinks DEF StartIdeate, Calls
  <1>3. ASSUME NEW j \in Jobs, Attempt(j) PROVE [Meter!Next]_(Meter!meterVars)
    <2> DEFINE r == [NoCall EXCEPT !.pc = "budget", !.kind = "analysis",
                        !.proc = j[1], !.key = j[2], !.target = Target(cohortPin)]
    <2>1. Owed(r) = {}
      BY DEF Owed, Chargeable, Awaited, NoCall
    <2> QED BY <1>0, <1>3, <2>1, OneShrinks DEF Attempt, Calls
  \* The one step that admits model calls, and only below the caps.
  <1>4. ASSUME NEW c \in Calls, ReadBudget(c)
        PROVE  [Meter!Next]_(Meter!meterVars)
    <2> DEFINE r == [call[c] EXCEPT !.pc = "circuit", !.exhausted = Exhausted(used)]
    <2>1. call' = [call EXCEPT ![c] = r] /\ r.exhausted = Exhausted(used)
      BY <1>0, <1>4 DEF ReadBudget, CallRecord
    <2>2. used' = used /\ Owed(call[c]) = {}
      BY <1>4 DEF ReadBudget, Owed, Chargeable, Awaited
    <2>3. CASE Exhausted(used)
      <3>1. Owed(r) = {}
        BY <2>1, <2>3 DEF Owed, Chargeable, Awaited
      <3> QED BY <1>0, <2>1, <2>2, <3>1, OneShrinks
    <2>4. CASE ~Exhausted(used)
      <3> DEFINE S == {m \in ModelCalls : m[1] = c /\ m[2] \in Owed(r)}
      <3>1. Admitted' = Admitted \cup S
        BY <1>0, <2>1, <2>2, AdmittedAfter
      <3>2. S \in SUBSET ModelCalls
        OBVIOUS
      <3> HIDE DEF S
      <3>3. Meter!Admit(S)
        BY <2>2, <2>4, <3>1, SameCap DEF Meter!Admit
      <3> QED BY <3>2, <3>3 DEF Meter!Next
    <2> QED BY <2>3, <2>4
  <1>5. ASSUME NEW c \in Calls, ReadCircuit(c)
        PROVE  [Meter!Next]_(Meter!meterVars)
    <2> DEFINE p == call[c].proc
               open == IF seen[p] = "none" THEN breaker ELSE seen[p] = "open"
               slow == Degraded(recent[p])
               r == [call[c] EXCEPT !.pc = "dispatch", !.open = open, !.degraded = slow]
    <2>1. call' = [call EXCEPT ![c] = r] /\ used' = used /\ call[c].pc = "circuit"
      BY <1>0, <1>5 DEF ReadCircuit, CallRecord
    <2> HIDE DEF open, slow
    <2>2. Owed(r) \subseteq Owed(call[c])
      BY <1>0, <2>1 DEF Owed, Chargeable, Awaited, CallRecord
    <2> QED BY <1>0, <2>1, <2>2, OneShrinks
  <1>6. ASSUME NEW c \in Calls, Dispatch(c) PROVE [Meter!Next]_(Meter!meterVars)
    <2> DEFINE next == IF GatedLevel(call[c]) = "L0" THEN "asked" ELSE After(c)
               r == [Forgotten(call[c]) EXCEPT !.pc = next, !.level = GatedLevel(call[c])]
    <2>1. call' = [call EXCEPT ![c] = r] /\ used' = used /\ call[c].pc = "dispatch"
      BY <1>6 DEF Dispatch
    <2>2. /\ r.kind = call[c].kind /\ r.exhausted = call[c].exhausted
          /\ r.drafts = call[c].drafts /\ r.cost = call[c].cost
      BY <1>0 DEF CallRecord, Forgotten
    <2>3. Owed(r) \subseteq Owed(call[c])
      BY <2>1, <2>2 DEF Owed, Chargeable, Awaited
    <2> QED BY <1>0, <2>1, <2>3, OneShrinks
  <1>7. ASSUME NEW c \in Calls, Answered(c) \/ GuardTrips(c) \/ Failed(c)
        PROVE  [Meter!Next]_(Meter!meterVars)
    BY <1>7, SettleMaps, Defaults, GatewayAssumption
       DEF Answered, GuardTrips, Failed, Levels
  <1>8. ASSUME NEW c \in Calls, RateLimited(c) \/ AskAgain(c) \/ Spend(c)
        PROVE  [Meter!Next]_(Meter!meterVars)
    <2>1. CASE RateLimited(c)
      <3> DEFINE r == [call[c] EXCEPT !.pc = "backoff", !.retried = TRUE]
      <3>1. Owed(r) \subseteq Owed(call[c])
        BY <1>0, <2>1 DEF RateLimited, Owed, Chargeable, Awaited, CallRecord
      <3>2. call' = [call EXCEPT ![c] = r]
        BY <1>0, <2>1 DEF RateLimited, CallRecord
      <3> QED BY <1>0, <2>1, <3>1, <3>2, OneShrinks DEF RateLimited
    <2>2. CASE AskAgain(c)
      <3> DEFINE r == [call[c] EXCEPT !.pc = "asked"]
      <3>1. Owed(r) \subseteq Owed(call[c])
        BY <1>0, <2>2 DEF AskAgain, Owed, Chargeable, Awaited, CallRecord
      <3>2. call' = [call EXCEPT ![c] = r]
        BY <1>0, <2>2 DEF AskAgain, CallRecord
      <3> QED BY <1>0, <2>2, <3>1, <3>2, OneShrinks DEF AskAgain
    <2>3. CASE Spend(c)
      <3> DEFINE r == [call[c] EXCEPT !.pc = "spent"]
      <3>1. Owed(r) \subseteq Owed(call[c])
        BY <1>0, <2>3 DEF Spend, Owed, Chargeable, Awaited, CallRecord
      <3>2. call' = [call EXCEPT ![c] = r]
        BY <1>0, <2>3 DEF Spend, CallRecord
      <3> QED BY <1>0, <2>3, <3>1, <3>2, OneShrinks DEF Spend
    <2> QED BY <1>8, <2>1, <2>2, <2>3
  \* The one step that charges a call, and only an admitted one.
  <1>9. ASSUME NEW c \in Calls, Commit(c) PROVE [Meter!Next]_(Meter!meterVars)
    <2> DEFINE r == [call[c] EXCEPT !.pc = "reply", !.cost = Free]
               m == <<c, IF call[c].drafts THEN 2 ELSE 1>>
    <2>1. /\ call' = [call EXCEPT ![c] = r] /\ call[c].pc = "spent"
          /\ used' = Plus(used, call[c].cost)
      BY <1>9 DEF Commit
    <2>2. /\ r.drafts = call[c].drafts /\ r.exhausted = call[c].exhausted
          /\ r.pc = "reply"
      BY <1>0 DEF CallRecord
    <2>3. ~Chargeable(r) /\ (Awaited(r) <=> Awaited(call[c]))
      BY <2>1, <2>2 DEF Chargeable, Awaited
    <2>4. CASE call[c].cost = Free
      <3>1. used' = used
        BY <2>1, <2>4 DEF Plus, Free, IInv, TypeOK
      <3>2. Owed(r) \subseteq Owed(call[c])
        BY <2>2, <2>3 DEF Owed
      <3> QED BY <1>0, <2>1, <3>1, <3>2, OneShrinks
    <2>5. CASE call[c].cost # Free
      <3>1. Chargeable(call[c])
        BY <1>0, <2>1, <2>5 DEF Chargeable, RecordOK
      <3>2. call[c].drafts \in BOOLEAN
        BY <1>0 DEF CallRecord
      <3>3. m \in ModelCalls /\ m[1] = c /\ m[2] = (IF call[c].drafts THEN 2 ELSE 1)
        BY <3>2 DEF ModelCalls
      <3>4. Owed(r) = Owed(call[c]) \ {m[2]} /\ m[2] \in Owed(call[c])
        BY <2>2, <2>3, <3>1, <3>2, <3>3 DEF Owed, Awaited
      <3>5. \A o \in ModelCalls : o = m <=> o[1] = c /\ o[2] = m[2]
        BY <3>3 DEF ModelCalls
      <3> HIDE DEF m, r
      <3>a. /\ \A o \in ModelCalls : o \in Admitted <=> o[2] \in Owed(call[o[1]])
            /\ \A o \in ModelCalls :
                 o \in Admitted' <=> IF o[1] = c THEN o[2] \in Owed(r)
                                               ELSE o \in Admitted
            /\ Admitted \subseteq ModelCalls /\ Admitted' \subseteq ModelCalls
        BY <1>0, <2>1, AdmittedAfter
      <3>6. m \in Admitted /\ Admitted' = Admitted \ {m}
        BY <3>3, <3>4, <3>5, <3>a
      <3>7. call[c].cost \in Meter!Costs
        BY <1>0 DEF CallRecord, Costs, Meter!Costs
      <3>8. Meter!Charge(m, call[c].cost)
        BY <2>1, <3>6 DEF Meter!Charge, Meter!Plus, Plus
      <3> QED BY <3>3, <3>7, <3>8 DEF Meter!Next
    <2> QED BY <2>4, <2>5
  <1>10. ASSUME NEW c \in Calls, RecordFails(c)
         PROVE  [Meter!Next]_(Meter!meterVars)
    <2> DEFINE r == [call[c] EXCEPT !.pc = "reply", !.cost = Free]
    <2>1. Owed(r) \subseteq Owed(call[c])
      BY <1>0, <1>10 DEF RecordFails, Owed, Chargeable, Awaited, CallRecord
    <2> QED BY <1>0, <1>10, <2>1, OneShrinks DEF RecordFails
  <1>11. ASSUME NEW c \in Calls, Respond(c) \/ RoundEnds(c) \/ Breaks(c)
         PROVE  [Meter!Next]_(Meter!meterVars)
    BY <1>0, <1>n, <1>11, OneShrinks DEF Respond, RoundEnds, Breaks
  <1>12. ASSUME NEW pin, SetPin(pin) PROVE [Meter!Next]_(Meter!meterVars)
    BY <1>12, Shrinks DEF SetPin, Admitted
  <1>13. ASSUME NEW p \in Processes, Restart(p)
         PROVE  [Meter!Next]_(Meter!meterVars)
    <2>1. \A c \in Calls : call'[c] \in {call[c], NoCall}
      BY <1>13 DEF Restart
    <2>2. \A m \in ModelCalls : m[1] \in Calls
      BY DEF ModelCalls
    <2>3. \A m \in ModelCalls : m \in Admitted' <=> m[2] \in Owed(call'[m[1]])
      BY DEF Admitted, Owed, Chargeable, Awaited
    <2>4. Admitted' \subseteq Admitted
      BY <1>n, <2>1, <2>2, <2>3 DEF Admitted
    <2> QED BY <1>13, <2>4, Shrinks DEF Restart
  <1>14. CASE UNCHANGED vars
    BY <1>14, Shrinks DEF vars, Admitted
  \* The second model call of a synthesis was admitted with the first.
  <1>15. ASSUME NEW c \in Calls, Draft(c) PROVE [Meter!Next]_(Meter!meterVars)
    <2> DEFINE r == [call[c] EXCEPT !.pc = "dispatch", !.drafts = FALSE]
    <2>1. Owed(r) \subseteq Owed(call[c])
      BY <1>0, <1>15 DEF Draft, Owed, Chargeable, Awaited, CallRecord
    <2> QED BY <1>0, <1>15, <2>1, OneShrinks DEF Draft
  <1>16. ASSUME NEW c \in Calls, CallStep(c) PROVE [Meter!Next]_(Meter!meterVars)
    BY <1>16, <1>4, <1>5, <1>6, <1>7, <1>8, <1>9, <1>11, <1>15 DEF CallStep
  <1> QED
    BY <1>1, <1>2, <1>3, <1>10, <1>11, <1>12, <1>13, <1>14, <1>16 DEF Next

\* No call is admitted at first, and nothing is used.
LEMMA GatewayInit ==
  ASSUME Init
  PROVE  Meter!Init
  <1>1. Owed(NoCall) = {}
    BY DEF Owed, Chargeable, Awaited, NoCall, Audited
  <1>2. \A m \in ModelCalls : call[m[1]] = NoCall
    BY DEF Init, ModelCalls
  <1>3. Admitted = {}
    BY <1>1, <1>2 DEF Admitted
  <1> QED BY <1>3 DEF Init, Meter!Init, Free

-----------------------------------------------------------------------------
\* There are finitely many model calls.
LEMMA ModelCallsFinite == IsFiniteSet(ModelCalls)
  <1>1. IsFiniteSet(Jobs)
    BY GatewayAssumption, FS_Product DEF Jobs
  <1>2. IsFiniteSet(Calls)
    BY <1>1, GatewayAssumption, FS_Union DEF Calls
  <1>3. IsFiniteSet({1, 2})
    <2>1. IsFiniteSet({1})
      BY FS_Singleton
    <2> QED BY <2>1, FS_AddElement, {1} \cup {2} = {1, 2}
  <1> QED BY <1>2, <1>3, FS_Product DEF ModelCalls

\* The constants are as the meter asks.
LEMMA ConstantsOK == Meter!MeterConstants
  BY ModelCallsFinite, GatewayAssumption
     DEF Meter!MeterConstants, Meter!IsFiniteSet, IsFiniteSet

Room(S) == Cardinality(S) * MaxCost

\* A counter that reached its cap has room for every admitted call's charge.
Reserved ==
  \A d \in Directions :
    used[d] >= Cap[d] => used[d] + Room(Admitted) < Cap[d] + Room(ModelCalls)

MeterInv == Meter!MeterTypeOK /\ Reserved

\* The calls of a set are counted by a natural number, and so is their room.
LEMMA RoomNat ==
  ASSUME NEW S, S \subseteq ModelCalls
  PROVE  /\ IsFiniteSet(S)
         /\ Cardinality(S) \in Nat /\ Room(S) \in Nat
         /\ Cardinality(S) <= Cardinality(ModelCalls)
  <1>1. IsFiniteSet(S) /\ Cardinality(S) <= Cardinality(ModelCalls)
    BY ModelCallsFinite, FS_Subset
  <1>2. Cardinality(S) \in Nat
    BY <1>1, FS_CardinalityType
  <1> QED BY <1>1, <1>2, ConstantsOK DEF Meter!MeterConstants, Room

\* A smaller set needs no more room.
LEMMA RoomMonotone ==
  ASSUME NEW S, NEW T, T \subseteq S, S \subseteq ModelCalls
  PROVE  Room(T) <= Room(S)
  <1>1. IsFiniteSet(S) /\ Cardinality(S) \in Nat /\ Cardinality(T) \in Nat
    BY RoomNat
  <1>2. Cardinality(T) <= Cardinality(S)
    BY <1>1, FS_Subset
  <1>3. \A m, n, k \in Nat : m <= n => m * k <= n * k
    OBVIOUS
  <1> QED BY <1>1, <1>2, <1>3, ConstantsOK DEF Meter!MeterConstants, Room

\* Without one of its calls a set needs one charge less.
LEMMA RoomWithout ==
  ASSUME NEW S, S \subseteq ModelCalls, NEW c \in S
  PROVE  Room(S) = Room(S \ {c}) + MaxCost
  <1>1. IsFiniteSet(S) /\ Cardinality(S) \in Nat
    BY RoomNat
  <1>2. Cardinality(S \ {c}) = Cardinality(S) - 1 /\ Cardinality(S \ {c}) \in Nat
    BY <1>1, FS_RemoveElement, RoomNat
  <1>3. \A n, k \in Nat : (n + 1) * k = n * k + k
    OBVIOUS
  <1>4. Cardinality(S) = Cardinality(S \ {c}) + 1
    BY <1>1, <1>2
  <1> QED BY <1>2, <1>3, <1>4, ConstantsOK DEF Meter!MeterConstants, Room

\* A step of the meter keeps the reservation of the admitted calls.
LEMMA MeterStep ==
  ASSUME MeterInv, [Meter!Next]_(Meter!meterVars)
  PROVE  MeterInv'
  <1> USE DEF MeterInv, Meter!MeterTypeOK
  <1>1. CASE UNCHANGED Meter!meterVars
    BY <1>1 DEF Meter!meterVars, Reserved
  <1>2. ASSUME NEW S \in SUBSET ModelCalls, Meter!Admit(S) PROVE MeterInv'
    BY <1>2, ConstantsOK DEF Meter!Admit, Meter!Exhausted, Reserved, Meter!MeterConstants
  <1>3. ASSUME NEW c \in ModelCalls, NEW cost \in Meter!Costs, Meter!Charge(c, cost)
        PROVE  MeterInv'
    <2>1. Meter!MeterTypeOK'
      BY <1>3, ConstantsOK DEF Meter!Charge, Meter!Plus, Meter!Costs, Meter!MeterConstants
    <2>2. Room(Admitted) = Room(Admitted') + MaxCost
      BY <1>3, RoomWithout DEF Meter!Charge
    <2>3. Room(ModelCalls) \in Nat /\ Room(Admitted) \in Nat /\ Room(Admitted') \in Nat
      BY <2>1, RoomNat
    <2>4. Room(Admitted) <= Room(ModelCalls)
      BY RoomMonotone
    <2>5. ASSUME NEW d \in Directions, used'[d] >= Cap[d]
          PROVE  used'[d] + Room(Admitted') < Cap[d] + Room(ModelCalls)
      <3>1. /\ used[d] \in Nat /\ cost[d] \in Nat /\ cost[d] <= MaxCost
            /\ used'[d] = used[d] + cost[d] /\ Cap[d] \in Nat /\ MaxCost \in Nat
        BY <1>3, ConstantsOK DEF Meter!Charge, Meter!Plus, Meter!Costs, Meter!MeterConstants
      <3>2. CASE used[d] >= Cap[d]
        <4>1. used[d] + Room(Admitted) < Cap[d] + Room(ModelCalls)
          BY <3>2 DEF Reserved
        <4> QED BY <3>1, <4>1, <2>2, <2>3
      <3>3. CASE used[d] < Cap[d]
        BY <3>1, <3>3, <2>2, <2>3, <2>4
      <3> QED BY <3>1, <3>2, <3>3
    <2>6. Reserved'
      <3> DEFINE R == Room(Admitted')
      <3>1. Reserved' <=> \A d \in Directions :
              used'[d] >= Cap[d] => used'[d] + R < Cap[d] + Room(ModelCalls)
        BY DEF Reserved, Room
      <3> QED BY <3>1, <2>5
    <2> QED BY <2>1, <2>6
  <1>4. ASSUME NEW S \in SUBSET ModelCalls, Meter!Release(S) PROVE MeterInv'
    <2>1. Meter!MeterTypeOK' /\ used' = used /\ Admitted' \subseteq Admitted
      BY <1>4 DEF Meter!Release
    <2>2. Room(Admitted') <= Room(Admitted)
      BY <2>1, RoomMonotone
    <2>3. Room(ModelCalls) \in Nat /\ Room(Admitted) \in Nat /\ Room(Admitted') \in Nat
      BY <2>1, RoomNat
    <2>4. ASSUME NEW d \in Directions, used'[d] >= Cap[d]
          PROVE  used'[d] + Room(Admitted') < Cap[d] + Room(ModelCalls)
      <3>1. used[d] + Room(Admitted) < Cap[d] + Room(ModelCalls)
        BY <2>1, <2>4 DEF Reserved
      <3>2. used[d] \in Nat /\ Cap[d] \in Nat
        BY <2>4, ConstantsOK DEF Meter!MeterConstants
      <3> QED BY <2>1, <2>2, <2>3, <3>1, <3>2
    <2>5. Reserved'
      <3> DEFINE R == Room(Admitted')
      <3>1. Reserved' <=> \A d \in Directions :
              used'[d] >= Cap[d] => used'[d] + R < Cap[d] + Room(ModelCalls)
        BY DEF Reserved, Room
      <3> QED BY <3>1, <2>4
    <2> QED BY <2>1, <2>5
  <1> QED BY <1>1, <1>2, <1>3, <1>4 DEF Meter!Next

\* The reservation starts empty, below every cap.
LEMMA MeterInit ==
  ASSUME Meter!Init
  PROVE  MeterInv
  BY ConstantsOK DEF Meter!MeterConstants, Meter!Init, MeterInv, Meter!MeterTypeOK, Reserved

\* What the reservation says of the counters alone.
LEMMA MeterBounds ==
  ASSUME MeterInv
  PROVE  Meter!OvershootBounded
  <1> SUFFICES ASSUME NEW d \in Directions, used[d] >= Cap[d]
               PROVE  used[d] < Cap[d] + Cardinality(ModelCalls) * MaxCost
    BY DEF Meter!OvershootBounded, Meter!Cardinality, Cardinality
  <1>1. used[d] + Room(Admitted) < Cap[d] + Room(ModelCalls)
    BY DEF MeterInv, Reserved
  <1>2. Room(Admitted) \in Nat /\ Room(ModelCalls) \in Nat
    BY RoomNat DEF MeterInv, Meter!MeterTypeOK
  <1>3. used[d] \in Nat /\ Cap[d] \in Nat
    BY ConstantsOK DEF MeterInv, Meter!MeterTypeOK, Meter!MeterConstants
  <1> QED BY <1>1, <1>2, <1>3 DEF Room

\* A meter passes a cap by less than a full charge per call: the promise about
\* lib/budget's flag that is read before a call and used after it.
THEOREM MeterOvershoot == Meter!Spec => []Meter!OvershootBounded
  <1>1. Meter!Init => MeterInv
    BY MeterInit
  <1>2. MeterInv /\ [Meter!Next]_(Meter!meterVars) => MeterInv'
    BY MeterStep
  <1>3. MeterInv => Meter!OvershootBounded
    BY MeterBounds
  <1> QED BY <1>1, <1>2, <1>3, PTL DEF Meter!Spec

-----------------------------------------------------------------------------
\* The variables, the records of the calls and the window have their types, and
\* a call is only charged on flags that let it through (lib/ai-gateway).
THEOREM Typed == Spec => []TypeOK
  <1>1. Spec => []IInv
    BY InvInit, InvStep, PTL DEF Spec
  <1>2. IInv => TypeOK
    BY DEF IInv
  <1> QED BY <1>1, <1>2, PTL

\* The gateway with all its interleavings, faults and restarts is a token meter.
THEOREM IsMeter == Spec => ImplementsMeter
  <1>1. Spec => []IInv
    BY InvInit, InvStep, PTL DEF Spec
  <1>2. IInv /\ [Next]_vars => [Meter!Next]_(Meter!meterVars)
    BY GatewayStep
  <1>3. Init => Meter!Init
    BY GatewayInit
  <1> QED BY <1>1, <1>2, <1>3, PTL DEF Spec, ImplementsMeter, Meter!Spec

\* However many calls read the flag before a cap was reached, the counters pass
\* it by less than one full charge for each call that can be under way: the
\* gateway is a meter, and a meter does (lib/budget).
THEOREM Overshoot == Spec => []OvershootBounded
  <1>1. Meter!Spec => []Meter!OvershootBounded
    BY MeterOvershoot
  <1>2. Spec => Meter!Spec
    BY IsMeter DEF ImplementsMeter
  <1> QED BY <1>1, <1>2, PTL DEF OvershootBounded

\* After a cap and the calls then under way, no pin and no stale cache of a
\* process lets anything be charged.
THEOREM Drained == Spec => DrainedBudgetHolds
  <1>1. Spec => []IInv
    BY InvInit, InvStep, PTL DEF Spec
  <1>2. IInv /\ [Next]_vars =>
          [Exhausted(used) /\ Admitted = {} => used' = used]_vars
    <2> SUFFICES ASSUME IInv, [Next]_vars, Exhausted(used), Admitted = {}
                 PROVE  used' = used
      OBVIOUS
    <2>1. [Meter!Next]_(Meter!meterVars)
      BY GatewayStep
    <2> QED BY <2>1 DEF Meter!Next, Meter!meterVars, Meter!Admit, Meter!Charge,
                        Meter!Release
  <1> QED BY <1>1, <1>2, PTL DEF Spec, DrainedBudgetHolds

\* The commit that reaches a cap opens the circuit and pins the cohort to L2.
THEOREM Halted == Spec => HaltedWithSpend
  <1>1. [Next]_vars =>
          [~Exhausted(used) /\ Exhausted(used') => breaker' /\ cohortPin' = "L2"]_vars
    <2> SUFFICES ASSUME [Next]_vars, ~Exhausted(used), Exhausted(used')
                 PROVE  breaker' /\ cohortPin' = "L2"
      OBVIOUS
    <2>1. ASSUME NEW c \in Calls, Commit(c) PROVE breaker' /\ cohortPin' = "L2"
      BY <2>1 DEF Commit
    <2>2. used' # used
      OBVIOUS
    <2>3. \E c \in Calls : Commit(c)
      BY <2>2 DEF Next, vars, CallStep, Start, StartIdeate, Attempt, ReadBudget,
                  ReadCircuit, Dispatch, Settle, Answered, GuardTrips, RateLimited,
                  AskAgain, Failed, Spend, Draft, Respond, RoundEnds, RecordFails, Breaks,
                  SetPin, Restart
    <2> QED BY <2>1, <2>3
  <1> QED BY <1>1, PTL DEF Spec, HaltedWithSpend
=============================================================================
