---------------------------- MODULE MCServoOutput ----------------------------
(***************************************************************************)
(* Instances of the servo output for TLC.                                  *)
(***************************************************************************)
EXTENDS ServoOutputProperties
=============================================================================
