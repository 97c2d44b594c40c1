----------------------------- MODULE AiGateway -----------------------------
(***************************************************************************)
(* The gateway every model call passes (lib/ai-gateway), with the token    *)
(* budget and the halt (lib/budget), the circuit as the application uses   *)
(* it (lib/circuit), the latency window, the pin of the cohort, and the    *)
(* background queue of analyses (lib/analysis-queue).                      *)
(*                                                                         *)
(* A call reads its flags one statement at a time, then runs the pipeline  *)
(* on what it read: other calls, the facilitator and restarts come between.*)
(***************************************************************************)
EXTENDS Naturals, Sequences, FiniteSets

CONSTANTS Requests,     \* slots of the requests under way
          Processes,    \* instances of the server
          Keys,         \* scopes of an analysis: a question, or the cohort
          None,         \* no process, no scope
          Directions, Cap, MaxCost,   \* as in TokenMeter
          Charges,      \* what a reply may cost
          Boot,         \* the level the deployment is pinned to, or "auto"
          PinChoices,   \* the pins the facilitator sets
          Window,       \* LATENCY_WINDOW
          MaxAttempts,  \* ANALYSIS_QUEUE_MAX_ATTEMPTS
          MaxFaults,    \* bound: database errors and restarts
          MaxOutages    \* bound: calls the provider fails, delays or garbles

\* A process runs at most one round per queued scope.
Jobs == Processes \X Keys
Calls == Requests \cup Jobs

Levels == {"L0", "L1", "L2"}
Pins == Levels \cup {"L3", "auto"}   \* "auto" is the null of ai_level_pin

Costs == [Directions -> 0..MaxCost]
Free == [d \in Directions |-> 0]

ASSUME GatewayAssumption ==
  /\ IsFiniteSet(Requests) /\ IsFiniteSet(Processes) /\ IsFiniteSet(Keys)
  /\ Requests \cap Jobs = {}
  /\ None \notin Processes /\ None \notin Keys
  /\ MaxCost \in Nat
  /\ Cap \in [Directions -> Nat \ {0}]
  /\ Charges \subseteq Costs
  /\ Boot \in Pins /\ PinChoices \subseteq Pins
  /\ Window \in Nat \ {0} /\ MaxAttempts \in Nat \ {0}
  /\ MaxFaults \in Nat /\ MaxOutages \in Nat

VARIABLES used,       \* ai_budget.input_used, output_used
          breaker,    \* ai_budget.circuit_open; circuit_until is null
          cohortPin,  \* cohorts.ai_level_pin
          seen,       \* liveState: the circuit as each process first read it
          recent,     \* recentProviderLatencies: was each slower than 6 s
          jobs,       \* pending, completed and the timers of the queue
          call,       \* the calls under way
          faults, outages

vars == <<used, breaker, cohortPin, seen, recent, jobs, call, faults, outages>>

NoCall ==
  [pc |-> "idle", kind |-> "none", proc |-> None, key |-> None,
   target |-> "auto", exhausted |-> FALSE, open |-> FALSE, degraded |-> FALSE,
   retried |-> FALSE, level |-> "L2", cost |-> Free,
   drafts |-> FALSE]   \* a synthesis whose second model call is to come

NoJob == [state |-> "none", attempt |-> 0]

Init ==
  /\ used = Free
  /\ breaker = FALSE
  /\ cohortPin = "auto"
  /\ seen = [p \in Processes |-> "none"]
  /\ recent = [p \in Processes |-> <<>>]
  /\ jobs = [j \in Jobs |-> NoJob]
  /\ call = [c \in Calls |-> NoCall]
  /\ faults = 0
  /\ outages = 0

-----------------------------------------------------------------------------
\* Mutant of Exhausted: a cap is reached only when it is passed.
MutExhausted(u) == \E d \in Directions : u[d] > Cap[d]

Exhausted(u) == \E d \in Directions : u[d] >= Cap[d]

Plus(u, cost) == [d \in Directions |-> u[d] + cost[d]]

\* The pin a call is given: the cohort's, else the deployment's; L3 as L2.
Target(pin) ==
  LET served == IF pin = "auto" THEN Boot ELSE pin
  IN  IF served = "L3" THEN "L2" ELSE served

\* Nearest rank: with n samples, p95 is over the threshold when more than
\* n - ceil(0.95 n) of them are.
Degraded(samples) ==
  Cardinality({i \in DOMAIN samples : samples[i]}) > (5 * Len(samples)) \div 100

\* selectLevel: a pin wins over every automatic condition.
SelectLevel(flags) ==
  IF flags.target \in Levels THEN flags.target
  ELSE IF flags.exhausted \/ flags.open THEN "L2"
  ELSE IF flags.degraded THEN "L1" ELSE "L0"

\* Mutant of GatedLevel: no budget and circuit stages after the selection.
MutGatedLevel(flags) == SelectLevel(flags)

\* Mutant of GatedLevel: the circuit, which the halt opens, stands for the budget.
MutCircuitGate(flags) ==
  IF SelectLevel(flags) = "L0" /\ flags.open THEN "L2" ELSE SelectLevel(flags)

\* ... and the budget and circuit stages then look at the same flags again.
GatedLevel(flags) ==
  IF SelectLevel(flags) = "L0" /\ (flags.exhausted \/ flags.open)
  THEN "L2" ELSE SelectLevel(flags)

Pushed(samples, slow) ==
  LET longer == Append(samples, slow)
  IN  IF Len(longer) > Window THEN Tail(longer) ELSE longer

\* All but ideate pass a record: a row is written and the tokens are counted.
Audited == {"coach", "analysis", "synthesis"}

\* The update of ai_budget holds the row until its transaction ends.
BudgetRowLocked == \E c \in Calls : call[c].pc = "spent"

-----------------------------------------------------------------------------
(* The flags, one statement each *)

\* POST coach, analyse and synthesise: the session, then the cohort's pin.
Start(c, kind, p, k) ==
  /\ call[c].pc = "idle"
  /\ kind = "analysis" <=> k # None
  /\ call' = [call EXCEPT ![c] =
       [NoCall EXCEPT !.pc = "budget", !.kind = kind, !.proc = p, !.key = k,
                      !.target = Target(cohortPin),
                      !.drafts = (kind = "synthesis")]]
  /\ UNCHANGED <<used, breaker, cohortPin, seen, recent, jobs, faults, outages>>

\* POST ideate: the deployment's pin, and no flag is read at all.
StartIdeate(c, p) ==
  /\ call[c].pc = "idle"
  /\ Boot \notin {"L2", "L3"}
  /\ call' = [call EXCEPT ![c] =
       [NoCall EXCEPT !.pc = "dispatch", !.kind = "ideate", !.proc = p,
                      !.target = Boot]]
  /\ UNCHANGED <<used, breaker, cohortPin, seen, recent, jobs, faults, outages>>

\* A round of a queued analysis: the worker reads everything afresh.
Attempt(j) ==
  /\ jobs[j].state = "due"
  /\ jobs' = [jobs EXCEPT ![j].state = "running"]
  /\ call' = [call EXCEPT ![j] =
       [NoCall EXCEPT !.pc = "budget", !.kind = "analysis", !.proc = j[1],
                      !.key = j[2], !.target = Target(cohortPin)]]
  /\ UNCHANGED <<used, breaker, cohortPin, seen, recent, faults, outages>>

ReadBudget(c) ==
  /\ call[c].pc = "budget"
  /\ call' = [call EXCEPT ![c].pc = "circuit", ![c].exhausted = Exhausted(used)]
  /\ UNCHANGED <<used, breaker, cohortPin, seen, recent, jobs, faults, outages>>

\* loadCircuit prefers what this process read first; the latency is its own.
ReadCircuit(c) ==
  LET p == call[c].proc
      open == IF seen[p] = "none" THEN breaker ELSE seen[p] = "open"
  IN  /\ call[c].pc = "circuit"
      /\ seen' = [seen EXCEPT ![p] = IF open THEN "open" ELSE "closed"]
      /\ call' = [call EXCEPT ![c].pc = "dispatch", ![c].open = open,
                              ![c].degraded = Degraded(recent[p])]
      /\ UNCHANGED <<used, breaker, cohortPin, recent, jobs, faults, outages>>

-----------------------------------------------------------------------------
(* The pipeline *)

\* Where a call goes once the pipeline is over: the row, or the reply.
After(c) == IF call[c].kind \in Audited THEN "record" ELSE "reply"

\* The flags go with the context, unless a second call is to use it again.
Forgotten(r) ==
  IF r.drafts THEN r
  ELSE [r EXCEPT !.target = "auto", !.open = FALSE, !.degraded = FALSE]

\* The level, budget and circuit stages, and the request stage when it is L0.
Dispatch(c) ==
  /\ call[c].pc = "dispatch"
  /\ LET level == GatedLevel(call[c])
     IN  call' = [call EXCEPT ![c] =
           [Forgotten(call[c]) EXCEPT
              !.pc = IF level = "L0" THEN "asked" ELSE After(c),
              !.level = level]]
  /\ UNCHANGED <<used, breaker, cohortPin, seen, recent, jobs, faults, outages>>

\* The result is final: its latency is a sample, whatever became of it.
Settle(c, level, cost, slow) ==
  /\ call' = [call EXCEPT ![c] = [@ EXCEPT !.pc = After(c), !.level = level,
                                           !.cost = cost, !.retried = FALSE]]
  /\ recent' = [recent EXCEPT ![call[c].proc] = Pushed(@, slow)]
  /\ UNCHANGED <<used, breaker, cohortPin, seen, jobs, faults>>

\* The provider answers in time.  The clock started before the first attempt,
\* so a retry that succeeds may still be a slow sample.
Answered(c) ==
  /\ call[c].pc = "asked"
  /\ \E cost \in Charges, slow \in BOOLEAN :
       /\ slow => call[c].retried
       /\ Settle(c, "L0", cost, slow)
  /\ UNCHANGED outages

\* The output guard rejects a hint: the reply is discarded, and its cost too.
GuardTrips(c) ==
  /\ call[c].pc = "asked"
  /\ call[c].kind = "coach"
  /\ outages < MaxOutages
  /\ outages' = outages + 1
  /\ \E slow \in BOOLEAN : (slow => call[c].retried) /\ Settle(c, "L2", Free, slow)

\* 429 or 503: the one retry, after its backoff.
RateLimited(c) ==
  /\ call[c].pc = "asked"
  /\ ~call[c].retried
  /\ outages < MaxOutages
  /\ outages' = outages + 1
  /\ call' = [call EXCEPT ![c].pc = "backoff", ![c].retried = TRUE]
  /\ UNCHANGED <<used, breaker, cohortPin, seen, recent, jobs, faults>>

AskAgain(c) ==
  /\ call[c].pc = "backoff"
  /\ call' = [call EXCEPT ![c].pc = "asked"]
  /\ UNCHANGED <<used, breaker, cohortPin, seen, recent, jobs, faults, outages>>

\* A timeout (slow, give or take a millisecond) or any other failure.
Failed(c) ==
  /\ call[c].pc = "asked"
  /\ outages < MaxOutages
  /\ outages' = outages + 1
  /\ \E slow \in BOOLEAN : Settle(c, "L2", Free, slow)

-----------------------------------------------------------------------------
(* recordModelCall: the row and the counters in one transaction *)

\* Mutant of Spend: the transaction also waits for those that wait.
MutSpend(c) ==
  /\ call[c].pc = "record"
  /\ \A o \in Calls \ {c} : call[o].pc \notin {"record", "spent"}
  /\ call' = [call EXCEPT ![c].pc = "spent"]
  /\ UNCHANGED <<used, breaker, cohortPin, seen, recent, jobs, faults, outages>>

Spend(c) ==
  /\ call[c].pc = "record"
  /\ ~BudgetRowLocked
  /\ call' = [call EXCEPT ![c].pc = "spent"]
  /\ UNCHANGED <<used, breaker, cohortPin, seen, recent, jobs, faults, outages>>

\* The update returns the counters as they are now; at a cap the circuit
\* opens for good and the cohort is pinned to L2, by this commit.
Commit(c) ==
  LET total == Plus(used, call[c].cost)
  IN  /\ call[c].pc = "spent"
      /\ used' = total
      /\ IF Exhausted(total)
         THEN breaker' = TRUE /\ cohortPin' = "L2"
         ELSE UNCHANGED <<breaker, cohortPin>>
      /\ call' = [call EXCEPT ![c] = [@ EXCEPT !.pc = "reply", !.cost = Free]]
      /\ UNCHANGED <<seen, recent, jobs, faults, outages>>

\* recordRun swallows the error: the row and the charge are both lost.
RecordFails(c) ==
  /\ call[c].pc \in {"record", "spent"}
  /\ faults < MaxFaults
  /\ faults' = faults + 1
  /\ call' = [call EXCEPT ![c] = [@ EXCEPT !.pc = "reply", !.cost = Free]]
  /\ UNCHANGED <<used, breaker, cohortPin, seen, recent, jobs, outages>>

-----------------------------------------------------------------------------
(* What the caller does with the result *)

\* The classification cleared: the draft is asked for with the same context,
\* whose flags nobody reads again.
Draft(c) ==
  /\ call[c].pc = "reply"
  /\ call[c].drafts /\ call[c].level = "L0"
  /\ call' = [call EXCEPT ![c] = [@ EXCEPT !.pc = "dispatch", !.drafts = FALSE]]
  /\ UNCHANGED <<used, breaker, cohortPin, seen, recent, jobs, faults, outages>>

\* The response; an analysis served at L1 is queued unless its key is.
Respond(c) ==
  LET j == <<call[c].proc, call[c].key>>
  IN  /\ call[c].pc = "reply"
      /\ call' = [call EXCEPT ![c] = NoCall]
      /\ IF call[c].kind = "analysis" /\ call[c].level = "L1"
              /\ jobs[j].state = "none"
         THEN jobs' = [jobs EXCEPT ![j] = [state |-> "due", attempt |-> 1]]
         ELSE UNCHANGED jobs
      /\ UNCHANGED <<used, breaker, cohortPin, seen, recent, faults, outages>>

\* Mutant of GoOn: the attempts are not counted.
MutGoOn(j) == jobs' = [jobs EXCEPT ![j].state = "due"]

\* A round that produced no analysis: another one, or the job is given up.
GoOn(j) ==
  jobs' = [jobs EXCEPT ![j] =
    IF @.attempt >= MaxAttempts THEN NoJob
    ELSE [state |-> "due", attempt |-> @.attempt + 1]]

RoundEnds(j) ==
  /\ call[j].pc = "reply"
  /\ call' = [call EXCEPT ![j] = NoCall]
  /\ \/ /\ call[j].level = "L0"
        /\ jobs' = [jobs EXCEPT ![j] = [state |-> "done", attempt |-> 0]]
        /\ UNCHANGED outages
     \/ /\ call[j].level = "L0"     \* the reply does not parse
        /\ outages < MaxOutages
        /\ outages' = outages + 1
        /\ GoOn(j)
     \/ /\ call[j].level # "L0"
        /\ GoOn(j)
        /\ UNCHANGED outages
  /\ UNCHANGED <<used, breaker, cohortPin, seen, recent, faults>>

\* A statement of the caller fails.  Nobody catches what a round throws: its
\* job stays pending and is never run again.
Breaks(c) ==
  /\ call[c].kind \in Audited
  /\ \/ call[c].pc \in {"budget", "circuit", "dispatch"}
     \/ call[c].pc = "reply" /\ call[c].kind # "coach"
  /\ faults < MaxFaults
  /\ faults' = faults + 1
  /\ call' = [call EXCEPT ![c] = NoCall]
  /\ IF c \in Jobs THEN jobs' = [jobs EXCEPT ![c].state = "stuck"]
                   ELSE UNCHANGED jobs
  /\ UNCHANGED <<used, breaker, cohortPin, seen, recent, outages>>

-----------------------------------------------------------------------------
(* The facilitator, and the platform *)

SetPin(pin) ==
  /\ cohortPin' = pin
  /\ UNCHANGED <<used, breaker, seen, recent, jobs, call, faults, outages>>

\* What lives in a process goes with it: caches, window, queue and calls.
Restart(p) ==
  /\ faults < MaxFaults
  /\ faults' = faults + 1
  /\ seen' = [seen EXCEPT ![p] = "none"]
  /\ recent' = [recent EXCEPT ![p] = <<>>]
  /\ jobs' = [j \in Jobs |-> IF j[1] = p THEN NoJob ELSE jobs[j]]
  /\ call' = [c \in Calls |-> IF call[c].proc = p THEN NoCall ELSE call[c]]
  /\ UNCHANGED <<used, breaker, cohortPin, outages>>

CallStep(c) ==
  \/ ReadBudget(c) \/ ReadCircuit(c) \/ Dispatch(c)
  \/ Answered(c) \/ GuardTrips(c) \/ RateLimited(c) \/ AskAgain(c) \/ Failed(c)
  \/ Spend(c) \/ Commit(c)
  \/ c \in Requests /\ (Draft(c) \/ Respond(c))
  \/ c \in Jobs /\ RoundEnds(c)

Next ==
  \/ \E c \in Requests, p \in Processes :
       \/ \E kind \in {"coach", "synthesis"} : Start(c, kind, p, None)
       \/ \E k \in Keys : Start(c, "analysis", p, k)
       \/ StartIdeate(c, p)
  \/ \E j \in Jobs : Attempt(j)
  \/ \E c \in Calls : CallStep(c) \/ RecordFails(c) \/ Breaks(c)
  \/ \E pin \in PinChoices : SetPin(pin)
  \/ \E p \in Processes : Restart(p)

Spec == Init /\ [][Next]_vars

\* A call that runs goes on, and the row lock is given in turn; the timer of a
\* queued job fires.
Fairness ==
  /\ \A c \in Calls : WF_vars(CallStep(c)) /\ SF_vars(Spend(c))
  /\ \A j \in Jobs : WF_vars(Attempt(j))

FairSpec == Spec /\ Fairness

-----------------------------------------------------------------------------
(* Properties *)

CallRecord ==
  [pc : {"idle", "budget", "circuit", "dispatch", "asked", "backoff",
         "record", "spent", "reply"},
   kind : {"none", "ideate"} \cup Audited,
   proc : Processes \cup {None}, key : Keys \cup {None},
   target : Pins, exhausted : BOOLEAN, open : BOOLEAN, degraded : BOOLEAN,
   retried : BOOLEAN, level : Levels, cost : Costs, drafts : BOOLEAN]

JobRecord ==
  [state : {"none", "due", "running", "done", "stuck"}, attempt : 0..MaxAttempts]

TypeOK ==
  /\ used \in [Directions -> Nat]
  /\ breaker \in BOOLEAN
  /\ cohortPin \in Pins
  /\ seen \in [Processes -> {"none", "closed", "open"}]
  /\ recent \in [Processes -> Seq(BOOLEAN)]
  /\ \A p \in Processes : Len(recent[p]) <= Window
  /\ jobs \in [Jobs -> JobRecord]
  /\ call \in [Calls -> CallRecord]
  /\ faults \in 0..MaxFaults
  /\ outages \in 0..MaxOutages

\* The budget let the call through, and its running model call may be charged.
Chargeable(r) ==
  /\ r.kind \in Audited
  /\ ~r.exhausted
  /\ \/ r.pc \in {"circuit", "dispatch", "asked", "backoff"}
     \/ r.pc \in {"record", "spent"} /\ r.cost # Free

\* The model call of a synthesis that is still to come.
Awaited(r) == r.drafts /\ ~r.exhausted /\ r.pc \notin {"idle", "budget"}

\* The model calls of a request, by how many are left: 2 only in a synthesis.
Owed(r) ==
  {n \in {1, 2} : \/ Chargeable(r) /\ n = (IF r.drafts THEN 2 ELSE 1)
                  \/ Awaited(r) /\ n = 1}

ModelCalls == Calls \X {1, 2}

Admitted == {m \in ModelCalls : m[2] \in Owed(call[m[1]])}

Meter == INSTANCE TokenMeter WITH Calls <- ModelCalls, admitted <- Admitted

\* The gateway is a token meter: whatever the interleaving of the flags, the
\* calls and the commits, only admitted model calls are charged, and each once.
ImplementsMeter == Meter!Spec

\* A counter passes its cap by less than one full charge per model call that can
\* be under way (lib/budget, "exhausted" is read before the calls and used after).
OvershootBounded == Meter!OvershootBounded

\* Once a cap is reached and the admitted calls are settled the counters stand
\* still, whatever level the facilitator pins and whatever a process cached.
DrainedBudgetHolds ==
  [][Exhausted(used) /\ Admitted = {} => used' = used]_vars

\* The spend that reaches a cap, the open circuit and the pin are one commit
\* (lib/budget, "cannot be observed apart").
HaltedWithSpend ==
  [][~Exhausted(used) /\ Exhausted(used') => breaker' /\ cohortPin' = "L2"]_vars

\* Every call ends with some result, whatever the provider and the database do.
CallsEnd == \A c \in Calls : call[c].pc # "idle" ~> call[c].pc = "idle"

\* Every queued analysis is completed or given up, unless a round of it threw.
JobsSettle ==
  \A j \in Jobs :
    jobs[j].state = "due" ~> jobs[j].state \in {"none", "done", "stuck"}

\* F14-T02: at L1 a queued analysis eventually completes without user action.
QueuedCompletes ==
  \A j \in Jobs : jobs[j].state = "due" ~> jobs[j].state = "done"
=============================================================================
