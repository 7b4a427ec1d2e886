-------------------------- MODULE MCUpdateRecovery --------------------------
(***************************************************************************)
(* Instances of the update programs for TLC: v1 is the factory image, v2   *)
(* and v3 updates, f1 and f2 the firmware files they are uploaded as.      *)
(***************************************************************************)
EXTENDS UpdateProperties

CONSTANTS v1, v2, v3, f1, f2
=============================================================================
