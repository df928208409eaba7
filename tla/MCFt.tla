-------------------------------- MODULE MCFt --------------------------------
(* Instances of Ft for TLC; the configurations give the constants.         *)
EXTENDS Ft, TLC
=============================================================================
