----------------------------- MODULE MCAutosave -----------------------------
(* Autosave with two answers the respondent may type.                      *)
EXTENDS Autosave

CONSTANTS v1, v2

MCValues == {v1, v2}
=============================================================================
