------------------------------ MODULE MCForms ------------------------------
(* All fifteen questions, two apps, two roles, three functions under a cap *)
(* of two.                                                                 *)
EXTENDS Forms

MCRoles == <<"parent", "child">>
=============================================================================
