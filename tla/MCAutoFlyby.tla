---------------------------- MODULE MCAutoFlyby ----------------------------
(* AutoFlyby with the lengths of the files given as definitions.           *)
EXTENDS AutoFlyby

MCOneFrame == {1}
=============================================================================
