------------------------------ MODULE JointTraj ------------------------------
(***************************************************************************)
(* The joint trajectory planner of the S3: joint_traj_task turns requested *)
(* joint targets into poses, one per 20 ms tick, while web and shell tasks *)
(* request new targets and switch the motor, and snapshots of the Teensy   *)
(* bring the planner's idea of the pose in line with the measured one.     *)
(*                                                                         *)
(* The joints move together and are one position here.  A tick moves it by *)
(* one; the shape of the speed curve is left out.  The planner's fields    *)
(* and the request are shared without a lock: a step of the model lies     *)
(* between two places where a task of another core, or the T41 task above  *)
(* this one, may read or write them.  The T41 task is on the planner's     *)
(* core: the planner does not step while a snapshot is being taken over,   *)
(* but the setters, on the other core, do.                                 *)
(*                                                                         *)
(* Time passes while the task waits, but not inside a setter or while a    *)
(* snapshot is taken over; a notified task runs first.                     *)
(*                                                                         *)
(* Definitions whose name starts with Bug are not part of the model: each  *)
(* is a wrong version of the definition below it, kept to show that a      *)
(* property notices the mistake.                                           *)
(***************************************************************************)
EXTENDS Integers

CONSTANTS
  MaxPos,    \* positions are 0..MaxPos
  TickLen,   \* kJointTrajTickMs and kJointTickMs, in units of the model
  Debounce,  \* kJointTrajDebounceMs
  MaxLate,   \* bound: how late the task may wake from a timed wait
  Measured   \* positions that snapshots of the Teensy report

ASSUME JointTrajAssumption ==
  /\ MaxPos \in Nat /\ Measured \subseteq 0..MaxPos
  /\ {TickLen, Debounce} \subseteq Nat \ {0} /\ Debounce <= TickLen /\ MaxLate \in Nat

VARIABLES
  pc,       \* where joint_traj_task stands
  notified, \* its task notification
  timed,    \* it waits for a tick, not only to be notified
  slept,    \* how long it has waited
  pos,      \* g_cache_joints
  request,  \* g_joint_target_request
  pending,  \* g_joint_traj.pending_replan
  age,      \* time since pending_since_ms, up to Debounce
  active,   \* g_joint_traj.active
  from, to, \* start_deg and target_deg
  tick,     \* last_tick_idx
  phase,    \* time since start_ms
  gap,      \* time since last_update_ms
  motor,    \* g_cache_motor; a Teensy that reports motion counts as on
  held,     \* the last local command is less than kJointSyncHoldMs old
  op,       \* where spi_s3_set_target_joint stands: "idle" or "mark"
  sync,     \* the pose that parse_snapshot_payload is taking over, or NoSync
  wanted,   \* history: the last position asked for
  inTime,   \* history: it was asked for while the planner took no other as served
  overrun   \* history: it was overwritten by a snapshot that saw no local command

wait == <<notified, timed, slept>>
plan == <<from, to, tick>>
clocks == <<phase, gap>>
history == <<wanted, inTime, overrun>>
vars == <<pc, wait, pos, request, pending, age, active, plan, clocks, motor, held, op, sync,
          history>>

NoSync == -1

Positions == 0..MaxPos
Steps == IF from < to THEN to - from ELSE from - to
MaxGap == TickLen + MaxLate
MaxPhase == MaxPos * TickLen + MaxGap

TypeOK ==
  /\ pc \in {"check", "wait", "plan", "commit", "move", "apply", "finish"}
  /\ notified \in BOOLEAN /\ timed \in BOOLEAN /\ slept \in 0..MaxGap
  /\ {pos, request, from, to, wanted} \subseteq Positions
  /\ pending \in BOOLEAN /\ active \in BOOLEAN /\ motor \in BOOLEAN /\ held \in BOOLEAN
  /\ age \in 0..Debounce /\ tick \in 0..MaxPos
  /\ phase \in 0..MaxPhase /\ gap \in 0..MaxGap
  /\ op \in {"idle", "mark"} /\ sync \in Measured \cup {NoSync}
  /\ inTime \in BOOLEAN /\ overrun \in BOOLEAN

-----------------------------------------------------------------------------
\* joint_traj_task and joint_traj_update

Check ==
  /\ pc = "check" /\ pc' = "wait"
  /\ timed' = (active \/ pending) /\ slept' = 0
  /\ UNCHANGED <<notified, pos, request, pending, age, active, plan, clocks, motor, held,
                 op, sync, history>>

Wake ==
  /\ pc = "wait" /\ (notified \/ (timed /\ slept >= TickLen))
  /\ notified' = FALSE /\ pc' = "plan"
  /\ UNCHANGED <<timed, slept, pos, request, pending, age, active, plan, clocks, motor,
                 held, op, sync, history>>

\* joint_traj_start reads the targets and only then takes the request as served.
ReadTargets ==
  /\ pc = "plan"
  /\ IF pending /\ age >= Debounce
     THEN from' = pos /\ to' = request /\ pc' = "commit"
     ELSE pc' = "move" /\ UNCHANGED <<from, to>>
  /\ UNCHANGED <<tick, wait, pos, request, pending, age, active, clocks, motor, held, op,
                 sync, history>>

Commit ==
  /\ pc = "commit" /\ pending' = FALSE /\ pc' = "move"
  /\ active' = (from # to) /\ tick' = 0 /\ phase' = 0 /\ gap' = 0
  /\ request' = IF from = to THEN pos ELSE request
  /\ UNCHANGED <<wait, pos, age, from, to, motor, held, op, sync, history>>

Index == IF phase \div TickLen > Steps THEN Steps ELSE phase \div TickLen

\* With the motor off, the time since the last pass is taken out of the trajectory.
\* The time stays in.
BugFreeze ==
  /\ pc = "move" /\ active /\ ~motor /\ pc' = "check"
  /\ gap' = 0 /\ UNCHANGED phase
  /\ UNCHANGED <<wait, pos, request, pending, age, active, plan, motor, held, op, sync,
                 history>>
Freeze ==
  /\ pc = "move" /\ active /\ ~motor /\ pc' = "check"
  /\ phase' = phase - gap /\ gap' = 0
  /\ UNCHANGED <<wait, pos, request, pending, age, active, plan, motor, held, op, sync,
                 history>>

Move ==
  /\ pc = "move" /\ active /\ motor
  /\ pc' = IF Index > tick THEN "apply" ELSE "check"
  /\ gap' = 0
  /\ UNCHANGED <<wait, pos, request, pending, age, active, plan, phase, motor, held, op,
                 sync, history>>

Rest ==
  /\ pc = "move" /\ ~active /\ pc' = "check"
  /\ UNCHANGED <<wait, pos, request, pending, age, active, plan, clocks, motor, held, op,
                 sync, history>>

\* joint_traj_apply_tick
PosAt(i) == IF from < to THEN from + i ELSE from - i

ApplyTick ==
  /\ pc = "apply"
  /\ pos' = PosAt(Index) /\ tick' = Index
  /\ active' = (Index < Steps)
  /\ pc' = IF Index < Steps THEN "check" ELSE "finish"
  /\ IF Index < Steps THEN UNCHANGED clocks ELSE phase' = 0 /\ gap' = 0
  /\ UNCHANGED <<wait, request, pending, age, from, to, motor, held, op, sync, history>>

Finish ==
  /\ pc = "finish" /\ request' = pos /\ pc' = "check"
  /\ UNCHANGED <<wait, pos, pending, age, active, plan, clocks, motor, held, op, sync,
                 history>>

Task ==
  /\ sync = NoSync
  /\ Check \/ Wake \/ ReadTargets \/ Commit \/ Freeze \/ Move \/ Rest \/ ApplyTick \/ Finish

-----------------------------------------------------------------------------
\* Web and shell tasks.

\* The task is not between reading a request and taking it as served, nor between
\* the last tick and its end, and an arm that moves is more than the debounce time
\* and a pass away from its target.
FarFromEnd ==
  pc \notin {"commit", "finish"} /\ (active => phase + Debounce + MaxGap < Steps * TickLen)

\* spi_s3_set_target_joint: the request ...
SetTarget(v) ==
  /\ op = "idle" /\ op' = "mark"
  /\ request' = v /\ wanted' = v /\ inTime' = FarFromEnd /\ overrun' = FALSE
  /\ UNCHANGED <<pc, wait, pos, pending, age, active, plan, clocks, motor, held, sync>>

\* ... and joint_traj_mark_target_updated.
\* Notifies the task only when it is at rest.
BugMarkUpdated ==
  /\ op = "mark" /\ op' = "idle"
  /\ held' = TRUE /\ pending' = TRUE /\ age' = 0 /\ notified' = (notified \/ active)
  /\ UNCHANGED <<pc, timed, slept, pos, request, active, plan, clocks, motor, sync,
                 history>>
MarkUpdated ==
  /\ op = "mark" /\ op' = "idle"
  /\ held' = TRUE /\ pending' = TRUE /\ age' = 0 /\ notified' = TRUE
  /\ UNCHANGED <<pc, timed, slept, pos, request, active, plan, clocks, motor, sync,
                 history>>

\* spi_s3_set_motor_power
SetMotor ==
  /\ motor' = ~motor /\ notified' = TRUE
  /\ UNCHANGED <<pc, timed, slept, pos, request, pending, age, active, plan, clocks, held,
                 op, sync, history>>

-----------------------------------------------------------------------------
\* parse_snapshot_payload, in the T41 task: without a local command the measured
\* position is taken over.
\* Also while the arm moves.
BugLocalOverride == held
LocalOverride == active \/ pending \/ held

\* The test; nobody moves the arm between it ...
CheckSnapshot(v) ==
  /\ sync = NoSync /\ ~LocalOverride /\ v # pos /\ sync' = v
  /\ UNCHANGED <<pc, wait, pos, request, pending, age, active, plan, clocks, motor, held,
                 op, history>>

\* ... and the writes, which do not look again for a command given in between.
TakeSnapshot ==
  /\ sync # NoSync /\ sync' = NoSync
  /\ pos' = sync /\ request' = sync /\ notified' = TRUE
  /\ IF op = "idle" /\ ~LocalOverride
     THEN wanted' = sync /\ inTime' = TRUE /\ overrun' = FALSE
     ELSE overrun' = TRUE /\ UNCHANGED <<wanted, inTime>>
  /\ UNCHANGED <<pc, timed, slept, pending, age, active, plan, clocks, motor, held, op>>

HoldExpires ==
  /\ held /\ op = "idle" /\ sync = NoSync /\ held' = FALSE
  /\ UNCHANGED <<pc, wait, pos, request, pending, age, active, plan, clocks, motor, op,
                 sync, history>>

Tick ==
  /\ pc = "wait" /\ ~notified /\ op = "idle" /\ sync = NoSync
  /\ (timed => slept < MaxGap) /\ (timed \/ active \/ pending)
  /\ slept' = IF timed THEN slept + 1 ELSE slept
  /\ age' = IF pending /\ age < Debounce THEN age + 1 ELSE age
  /\ phase' = IF active THEN phase + 1 ELSE phase
  /\ gap' = IF active THEN gap + 1 ELSE gap
  /\ UNCHANGED <<pc, notified, timed, pos, request, pending, active, plan, motor, held, op,
                 sync, history>>

-----------------------------------------------------------------------------

Init ==
  /\ pc = "check" /\ notified = FALSE /\ timed = FALSE /\ slept = 0
  /\ pos = 0 /\ request = 0 /\ pending = FALSE /\ age = 0
  /\ active = FALSE /\ from = 0 /\ to = 0 /\ tick = 0 /\ phase = 0 /\ gap = 0
  /\ motor = FALSE /\ held = FALSE /\ op = "idle" /\ sync = NoSync
  /\ wanted = 0 /\ inTime = TRUE /\ overrun = FALSE

Next ==
  \/ Task \/ MarkUpdated \/ SetMotor \/ HoldExpires \/ Tick
  \/ \E v \in Positions : SetTarget(v)
  \/ \E v \in Measured : CheckSnapshot(v)
  \/ TakeSnapshot

Spec == Init /\ [][Next]_vars

\* The task runs when it is notified or its wait is over, time passes, and a
\* setter, or a snapshot's taking over, that has begun ends.
FairSpec ==
  Spec /\ WF_vars(Task) /\ WF_vars(MarkUpdated) /\ WF_vars(TakeSnapshot) /\ WF_vars(Tick)
=============================================================================
