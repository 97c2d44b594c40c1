---------------------------- MODULE MCAnswerLock ----------------------------
(* AnswerLock for the facilitator alone, who is a respondent like the      *)
(* others: two requests of hers meet in every order.                       *)
EXTENDS AnswerLock

CONSTANTS q14, q14d, fac, v1, v2

MCAlone    == {fac}
MCNoteOnly == {q14}
MCValues   == {v1, v2}
=============================================================================
