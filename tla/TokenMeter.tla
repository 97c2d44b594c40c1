----------------------------- MODULE TokenMeter -----------------------------
(***************************************************************************)
(* What the token budget of a cohort promises to whoever pays for it.  A   *)
(* call is admitted only while the counters are below their caps; an       *)
(* admitted call is charged at most once, and everything between the two   *)
(* is left to the caller.  So the counters may pass a cap, but only by     *)
(* what the calls under way at that moment still cost.                     *)
(***************************************************************************)
EXTENDS Naturals, FiniteSets

CONSTANTS Calls,       \* the model calls, each under way once at a time
          Directions,  \* the two counters, input and output tokens
          Cap,         \* input_cap and output_cap
          MaxCost      \* the most one call is charged in one direction

VARIABLES used,        \* input_used and output_used
          admitted     \* the calls that passed and are not settled

meterVars == <<used, admitted>>

Costs == [Directions -> 0..MaxCost]

\* isBudgetExhausted: a cap is reached at >=, and either direction counts.
Exhausted(u) == \E d \in Directions : u[d] >= Cap[d]

Plus(u, cost) == [d \in Directions |-> u[d] + cost[d]]

Init ==
  /\ used = [d \in Directions |-> 0]
  /\ admitted = {}

\* One reading of the counters admits a call, or all calls of one request.
Admit(S) ==
  /\ ~Exhausted(used)
  /\ admitted' = admitted \cup S
  /\ UNCHANGED used

Charge(c, cost) ==
  /\ c \in admitted
  /\ used' = Plus(used, cost)
  /\ admitted' = admitted \ {c}

\* Calls that end uncharged: stopped, failed, or gone with their process.
Release(S) ==
  /\ admitted' = admitted \ S
  /\ UNCHANGED used

Next ==
  \/ \E S \in SUBSET Calls : Admit(S)
  \/ \E c \in Calls, cost \in Costs : Charge(c, cost)
  \/ \E S \in SUBSET Calls : Release(S)

Spec == Init /\ [][Next]_meterVars

-----------------------------------------------------------------------------
\* What the theorems ask of the constants.
MeterConstants ==
  /\ IsFiniteSet(Calls)
  /\ MaxCost \in Nat
  /\ Cap \in [Directions -> Nat \ {0}]

\* Counters are naturals and only calls are admitted.
MeterTypeOK ==
  /\ used \in [Directions -> Nat]
  /\ admitted \subseteq Calls

\* A counter passes its cap by less than one full charge for every call that
\* could be under way when it was reached.
OvershootBounded ==
  \A d \in Directions :
    used[d] >= Cap[d] => used[d] < Cap[d] + Cardinality(Calls) * MaxCost

\* Once a cap is reached and no admitted call is left, nothing is charged.
DrainedBudgetHolds ==
  [][Exhausted(used) /\ admitted = {} => used' = used]_meterVars
=============================================================================
