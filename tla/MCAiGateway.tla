---------------------------- MODULE MCAiGateway ----------------------------
(* Small instances of AiGateway. *)
EXTENDS AiGateway, TLC

MCDirections == {"input", "output"}
MCCap == [input |-> 2, output |-> 1]
MCCharges == {[input |-> 1, output |-> 1]}

MCSymmetry == Permutations(Requests) \union Permutations(Processes)
=============================================================================
