----------------------------- MODULE MCOpspPlan -----------------------------
(* OpspPlan for two of the sixteen cells, one of ink and one that is a     *)
(* guess: a slider at either side of low and a blank answer.               *)
EXTENDS OpspPlan, TLC

MCCells == {"year1_critical_number", "number1_priority"}

MCGiven ==
  [q3  |-> {Absent, [has |-> {"metric", "value", "unit"}, conf |-> 3]},
   q10 |-> {[has |-> {"payer"}, conf |-> 4]},
   q11 |-> {[has |-> {"rocks", "starred"}, conf |-> k] : k \in {2, 3}}]

\* New text, a blank, and a mark set by hand.
MCWanted ==
  {[content |-> {<<"typed", {"words", "id"}>>}, mark |-> "same"],
   [content |-> {}, mark |-> "same"], [content |-> Same, mark |-> "ink"]}

MCSymmetry == Permutations(Reqs)
=============================================================================
