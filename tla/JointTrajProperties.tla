------------------------- MODULE JointTrajProperties -------------------------
(***************************************************************************)
(* What the joint trajectory planner is meant to guarantee.                *)
(***************************************************************************)
EXTENDS JointTraj

\* However long the motor was off, the arm goes on from where it stopped: between
\* two poses lie no more ticks than fit into the time since the last pass.
NoJump == [][pc = "apply" => (tick' - tick) * TickLen < MaxGap + TickLen]_vars

\* A pose lies between the start and the target of the trajectory it belongs to,
\* also when a snapshot or a new target arrives while it is under way.
OnTrack ==
  active /\ pc # "commit" => pos = PosAt(tick)

\* The operator has made the last request and the motor stays on.
Settled == op = "idle" /\ motor

\* Also with the motor off a request is planned in the end: no notification is
\* lost between the task's look at the planner and its wait.
RequestPlanned == <>[](op = "idle" /\ ~motor) => <>[](~pending)

\* With the motor on and no more requests the arm comes to rest at its target,
\* however often it was re-planned, frozen or synchronised before.
ComesToRest == <>[]Settled => <>[](~active /\ pos = request)

\* The last target asked for is where the arm comes to rest, with two exceptions, the
\* ways in which the code loses a target.  It was asked for near the last tick of a
\* trajectory, or between the planner's reading of an earlier request and its taking
\* that as served (~inTime).  Or a snapshot of the Teensy was taken over within its
\* setting, or it was set between the snapshot's test and its writes (overrun).
TargetReached == <>[](Settled /\ inTime /\ ~overrun) => <>[](pos = wanted)
=============================================================================
