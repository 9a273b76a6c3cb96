----------------------------- MODULE MCService -----------------------------
(***************************************************************************)
(* Small instances of Service.                                             *)
(***************************************************************************)
EXTENDS Service

CONSTANTS a1, s1, q1, q2

OneApp     == {a1}
OneScript  == {s1}
TwoQueries == {q1, q2}

=============================================================================
