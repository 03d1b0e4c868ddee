---------------------------- MODULE MCHighlight ----------------------------
(* Highlight with two nodes and two jobs.  There are more temperature      *)
(* classes than statuses, as there are in the program.                     *)
EXTENDS Highlight

CONSTANTS n1, n2

MCNode == {n1, n2}
=============================================================================
