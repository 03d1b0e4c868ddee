--------------------------- MODULE MCFlybyReplay ---------------------------
(* Two nodes: each is the neighbour of the other, or, when a report has    *)
(* come that leaves the first out, the second is the neighbour of both.  A *)
(* reel shorter than most flybys and one that is longer than some.         *)
EXTENDS FlybyReplay, TLC

CONSTANTS n1, n2

TwoNodes == {n1, n2}
Neighbours == {n1 :> n2 @@ n2 :> n1, n1 :> n2 @@ n2 :> n2}
=============================================================================
