------------------------------- MODULE Scene -------------------------------
(***************************************************************************)
(* What the frames promise about the picture, without saying how.  Of the  *)
(* things shown, some may be wrong: not as the present state of the        *)
(* program would have them.  What is wrong is owed, and a frame pays       *)
(* everything it owes, except what takes several frames to glide to its    *)
(* place, which stays owed.                                                *)
(***************************************************************************)
CONSTANTS Thing,     \* what a picture is made of
          Gliding    \* those of them that move by themselves

VARIABLES shown, wrong, owed

vars == <<shown, wrong, owed>>

Init == shown \subseteq Thing /\ wrong \subseteq owed /\ owed \subseteq shown

(* The program's state changes: other things may be shown, more may be     *)
(* wrong, and no debt is forgotten but that of a thing no longer shown.    *)
Change == /\ shown' \subseteq Thing
          /\ owed \cap shown' \subseteq owed'
          /\ owed' \subseteq shown'
          /\ wrong' \subseteq owed'

(* A frame.                                                                *)
Draw == /\ shown' = shown
        /\ owed' \subseteq Gliding \cap shown
        /\ wrong' \subseteq owed'

Next == Change \/ Draw

Spec == Init /\ [][Next]_vars
=============================================================================
