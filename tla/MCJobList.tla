----------------------------- MODULE MCJobList -----------------------------
(* JobList with a list that grows by two objects and fills are either      *)
(* transparent or opaque.                                                  *)
EXTENDS JobList

CONSTANTS n1, n2

MCNode == {n1, n2}
=============================================================================
