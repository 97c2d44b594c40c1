------------------------------ MODULE MCEntry ------------------------------
(* Entry with the facilitator and one member in two tabs of one browser.   *)
EXTENDS Entry, TLC

CONSTANTS fac, mem, a, b
MCRespondents == {fac, mem}
MCNameless == {mem}
MCTabs == {a, b}
MCSymmetry == Permutations(MCTabs)
=============================================================================
