-------------------------- MODULE MCQuestionScreen --------------------------
(* The screen with two answers the validator fails, one it passes and the  *)
(* answer that has nothing to store.                                       *)
EXTENDS QuestionScreen

CONSTANTS t1, t2

MCTexts == {t1, t2}
=============================================================================
