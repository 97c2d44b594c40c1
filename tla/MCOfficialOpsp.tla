--------------------------- MODULE MCOfficialOpsp ---------------------------
(* OfficialOpsp with two requests at a time on a canvas of two cells, one  *)
(* of which is given cards; and with one request at a time on one cell and *)
(* three cards, of which d copies the same answer as b.  An answer goes by *)
(* the name of a card, so that a and b are symmetric where there is no d.  *)
EXTENDS OfficialOpsp, TLC

CONSTANTS x, y, a, b, d, p, q

MCOneCell    == {x}
MCTwoCells   == {x, y}
MCTwoCards   == {a, b}
MCThreeCards == {a, b, d}
MCAnswerOf   == (a :> a @@ b :> b @@ d :> b)
MCOnOne      == (x :> MCThreeCards)
MCOnTwo      == (x :> MCTwoCards @@ y :> {})
MCOneReq     == {p}
MCTwoReqs    == {p, q}

MCSymmetry == Permutations(MCTwoCards) \union Permutations(MCTwoReqs)
=============================================================================
