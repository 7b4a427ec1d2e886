----------------------------- MODULE MCJointTraj -----------------------------
(***************************************************************************)
(* Instances of the joint trajectory planner for TLC.                      *)
(***************************************************************************)
EXTENDS JointTrajProperties
=============================================================================
