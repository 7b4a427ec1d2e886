----------------------------- MODULE ServoOutput -----------------------------
(***************************************************************************)
(* How turret speeds, arm poses and the output enable reach the PCA9685:   *)
(* turret_pid_task, joint_traj_task and the web or shell tasks put         *)
(* commands into one queue, and servo_drive_pca9685_task takes them out,   *)
(* merges neighbours of a class and writes the chip over I2C.              *)
(*                                                                         *)
(* enqueue_pca_command has no lock: each step of it that touches shared    *)
(* state is an action, and between them other tasks step, inside it too,   *)
(* and the servo task takes commands out.  Copying and comparing the last  *)
(* command is one step each.  turret_pid_task is the highest task of its   *)
(* core, so the two others on that core do not step inside its pass; the   *)
(* web and shell tasks run on the other core.                              *)
(*                                                                         *)
(* A class is one group of channels or the OE pin; the channels of a group *)
(* are one value.  The per-channel fallback after a refused group, single  *)
(* channels set from the calibration page and set_frequency are left out.  *)
(*                                                                         *)
(* Definitions whose name starts with Bug are not part of the model: each  *)
(* is a wrong version of the definition below it, kept to show that a      *)
(* property notices the mistake.                                           *)
(***************************************************************************)
EXTENDS Naturals, Sequences, FiniteSets

CONSTANTS
  QueueCap,  \* kPcaQueueLength
  OEOps,     \* values the operator gives the OE pin
  MaxFaults, \* bound: I2C writes that fail
  MaxInside, \* bound: tasks that are in enqueue_pca_command at once
  Scenes     \* bound: what may come together in one behaviour: "race", tasks in
             \* enqueue_pca_command at once; "fault", failing writes; "oe", the OE pin;
             \* "lock", the lock of the turret

ASSUME ServoOutputAssumption ==
  /\ QueueCap \in Nat \ {0} /\ OEOps \subseteq BOOLEAN /\ MaxFaults \in Nat
  /\ MaxInside \in Nat \ {0}
  /\ Scenes \subseteq SUBSET {"race", "fault", "oe", "lock"}

Producers == {"turret", "joint", "operator"}
Classes == {"turret", "arm", "oe"}
Commands == [class : {"turret"}, value : {"stop", "run"}]
              \cup [class : {"arm"}, value : {"pose"}]
              \cup [class : {"oe"}, value : {"on", "off"}]
NoCommand == [class |-> "none", value |-> "none"]
Stop == [class |-> "turret", value |-> "stop"]
Run == [class |-> "turret", value |-> "run"]
Pose == [class |-> "arm", value |-> "pose"]
OE(on) == [class |-> "oe", value |-> IF on THEN "on" ELSE "off"]

VARIABLES
  pc,      \* where each producer stands in enqueue_pca_command
  cmd,     \* the command it hands over
  kept,    \* its buffered[]
  queue,   \* g_pca_cmd_queue
  last,    \* g_pca_last_enqueued_command, NoCommand if there is none
  serving, \* command of pca9685_process_queue, NoCommand while it waits
  ready,   \* g_pca_initialized
  shadow,  \* g_last_off and g_last_valid, "unknown" if not valid
  chip,    \* what the chip outputs; "none" is a channel without pulses
  motor,   \* g_cache_motor; a Teensy that reports motion counts as on
  lock,    \* g_turret_output_lock
  faults,  \* history: failed I2C writes
  scene,   \* bound: what may happen in this behaviour
  latest   \* history: of each class the last value taken over; "lost" if a full queue
           \* dropped it, "crossed" if it went in while another task was at work on
           \* the class, or on the whole queue

producer == <<pc, cmd, kept>>
device == <<ready, shadow, chip>>
vars == <<producer, queue, last, scene, serving, device, motor, lock, faults, latest>>

Outputs == [turret : {"none", "stop", "run"}, arm : {"none", "pose"}, oe : {"on", "off"}]

TypeOK ==
  /\ pc \in [Producers -> {"idle", "send", "drain", "restore", "settle", "drop",
                       "retry", "note"}]
  /\ cmd \in [Producers -> Commands \cup {NoCommand}]
  /\ kept \in [Producers -> Seq(Commands)] /\ \A p \in Producers : Len(kept[p]) <= QueueCap
  /\ queue \in Seq(Commands) /\ Len(queue) <= QueueCap
  /\ last \in Commands \cup {NoCommand} /\ serving \in Commands \cup {NoCommand}
  /\ ready \in BOOLEAN /\ chip \in Outputs
  /\ shadow \in [turret : {"unknown", "stop", "run"}, arm : {"unknown", "pose"}]
  /\ motor \in BOOLEAN /\ lock \in BOOLEAN
  /\ faults \in 0..MaxFaults /\ scene \in Scenes
  /\ latest \in [turret : {"none", "stop", "run", "lost", "crossed"},
                 arm : {"none", "pose", "lost", "crossed"},
                 oe : {"on", "off", "lost", "crossed"}]

-----------------------------------------------------------------------------
\* The scheduler: inside a pass of turret_pid_task its core runs nothing else.

TurretBusy == pc["turret"] # "idle"
MayRun(p) == p \in {"turret", "operator"} \/ ~TurretBusy
Step(p, from, to) == pc[p] = from /\ MayRun(p) /\ pc' = [pc EXCEPT ![p] = to]
Finish(p, from) == Step(p, from, "idle") /\ cmd' = [cmd EXCEPT ![p] = NoCommand]

-----------------------------------------------------------------------------
\* enqueue_pca_command

\* A command equal to the one enqueued before it is taken for a duplicate.
\* Compares the channels only.
BugDuplicate(c) == last.class = c.class
Duplicate(c) == last = c

\* Commands of one class supersede one another.
Supersedes(new, old) == new.class = old.class

Gone == {"lost", "crossed"}

\* Another task is handing over a command of class c, or refills the queue.
Alongside(p, c) == \E q \in Producers \ {p} : pc[q] # "idle" /\ cmd[q].class = c
Refilled(p) == \E q \in Producers \ {p} : pc[q] \in {"drain", "restore"}

\* A producer hands c over.
Enqueue(p, c) ==
  /\ LET inside == {q \in Producers : pc[q] # "idle"}
     IN  inside = {} \/ ("race" \in scene /\ Cardinality(inside) < MaxInside)
  /\ IF Duplicate(c)
     THEN /\ Step(p, "idle", "idle") /\ UNCHANGED cmd
          /\ latest' = [latest EXCEPT ![c.class] = IF Alongside(p, c.class) THEN "crossed"
                                                  ELSE IF @ \in Gone THEN @ ELSE c.value]
     ELSE /\ Step(p, "idle", "send") /\ cmd' = [cmd EXCEPT ![p] = c]
          /\ UNCHANGED latest
  /\ UNCHANGED <<kept, queue, last, scene, serving, device, faults>>

\* A full queue loses x, which the task that sent it may not have noted yet.
Lose(p, x) ==
  latest' = [latest EXCEPT ![x.class] = IF @ = "crossed" \/ Alongside(p, x.class)
                                        THEN "crossed" ELSE "lost"]

\* The command of p goes to the end of the queue.
Put(p) ==
  LET c == cmd[p].class
  IN  /\ Len(queue) < QueueCap /\ queue' = Append(queue, cmd[p])
      /\ latest' = [latest EXCEPT ![c] = IF Alongside(p, c) \/ Refilled(p) THEN "crossed"
                                         ELSE cmd[p].value]

Send(p) ==
  /\ \/ Step(p, "send", "note") /\ Put(p)
     \/ /\ Len(queue) = QueueCap /\ Step(p, "send", "drain")
        /\ latest' = IF Refilled(p) THEN [c \in Classes |-> "crossed"] ELSE latest
        /\ UNCHANGED queue
  /\ UNCHANGED <<cmd, kept, last, scene, serving, device, motor, lock, faults>>

\* A full queue is emptied, without what the new command supersedes; what other tasks
\* add meanwhile may be more than the buffer holds ...
Drain(p) ==
  /\ IF queue = <<>> THEN Step(p, "drain", "restore") /\ UNCHANGED <<queue, kept, latest>>
     ELSE /\ Step(p, "drain", "drain") /\ queue' = Tail(queue)
          /\ \/ Supersedes(cmd[p], Head(queue)) /\ UNCHANGED <<kept, latest>>
             \/ /\ ~Supersedes(cmd[p], Head(queue)) /\ Len(kept[p]) < QueueCap
                /\ kept' = [kept EXCEPT ![p] = Append(@, Head(queue))] /\ UNCHANGED latest
             \/ /\ ~Supersedes(cmd[p], Head(queue)) /\ Len(kept[p]) = QueueCap
                /\ Lose(p, Head(queue)) /\ UNCHANGED kept
  /\ UNCHANGED <<cmd, last, scene, serving, device, motor, lock, faults>>

\* ... and filled again.  What no longer fits is lost.
\* In the order it was taken out, newest first.
BugRestore(p) ==
  /\ IF kept[p] = <<>>
     THEN Step(p, "restore", "settle") /\ UNCHANGED <<queue, kept, latest>>
     ELSE /\ Step(p, "restore", "restore")
          /\ kept' = [kept EXCEPT ![p] = SubSeq(@, 1, Len(@) - 1)]
          /\ IF Len(queue) < QueueCap
             THEN queue' = Append(queue, kept[p][Len(kept[p])]) /\ UNCHANGED latest
             ELSE Lose(p, kept[p][Len(kept[p])]) /\ UNCHANGED queue
  /\ UNCHANGED <<cmd, last, scene, serving, device, motor, lock, faults>>
Restore(p) ==
  /\ IF kept[p] = <<>>
     THEN Step(p, "restore", "settle") /\ UNCHANGED <<queue, kept, latest>>
     ELSE /\ Step(p, "restore", "restore") /\ kept' = [kept EXCEPT ![p] = Tail(@)]
          /\ IF Len(queue) < QueueCap
             THEN queue' = Append(queue, Head(kept[p])) /\ UNCHANGED latest
             ELSE Lose(p, Head(kept[p])) /\ UNCHANGED queue
  /\ UNCHANGED <<cmd, last, scene, serving, device, motor, lock, faults>>

\* The new command goes in; if the queue is still full, the oldest goes ...
\* The queue has room, it is thought.
BugSettle(p) ==
  /\ Step(p, "settle", "note")
  /\ queue' = Append(queue, cmd[p])
  /\ latest' = [latest EXCEPT ![cmd[p].class] = cmd[p].value]
  /\ UNCHANGED <<cmd, kept, last, scene, serving, device, motor, lock, faults>>
Settle(p) ==
  /\ \/ Step(p, "settle", "note") /\ Put(p)
     \/ Len(queue) = QueueCap /\ Step(p, "settle", "drop") /\ UNCHANGED <<queue, latest>>
  /\ UNCHANGED <<cmd, kept, last, scene, serving, device, motor, lock, faults>>

\* ... unless the servo task has taken them all: then the new one is given up.
GiveUp(p, from) ==
  Finish(p, from) /\ Lose(p, cmd[p]) /\ UNCHANGED queue

DropOldest(p) ==
  /\ \/ queue = <<>> /\ GiveUp(p, "drop")
     \/ /\ queue # <<>> /\ Step(p, "drop", "retry")
        /\ queue' = Tail(queue) /\ Lose(p, Head(queue)) /\ UNCHANGED cmd
  /\ UNCHANGED <<kept, last, scene, serving, device, motor, lock, faults>>

\* Another task may have been quicker with what came free.
Retry(p) ==
  /\ \/ Step(p, "retry", "note") /\ Put(p) /\ UNCHANGED cmd
     \/ Len(queue) = QueueCap /\ GiveUp(p, "retry")
  /\ UNCHANGED <<kept, last, scene, serving, device, motor, lock, faults>>

NoteLast(p) ==
  /\ Finish(p, "note") /\ last' = cmd[p]
  /\ UNCHANGED <<kept, queue, scene, serving, device, motor, lock, faults, latest>>

Enqueueing(p) ==
  Send(p) \/ Drain(p) \/ Restore(p) \/ Settle(p) \/ DropOldest(p) \/ Retry(p) \/ NoteLast(p)

-----------------------------------------------------------------------------
\* turret_pid_task

\* spi_s3_service_turret_pid: the controller may ask for any speed, and asks for
\* none when the drive is off or C3 feedback is older than two seconds.  A pass
\* that skips a speed it handed over less than 40 ms ago changes nothing.
TurretPass(c) ==
  /\ ready /\ ~lock
  /\ c \in {Stop} \cup (IF motor THEN {Run} ELSE {})
  /\ Enqueue("turret", c) /\ UNCHANGED <<motor, lock>>

\* pca9685_init, once a second until it succeeds: the chip is reset and the OE
\* pin driven low.
TurretReinit ==
  /\ ~ready /\ ~TurretBusy
  /\ ready' = TRUE
  /\ chip' = [turret |-> "none", arm |-> "none", oe |-> "on"]
  /\ shadow' = [turret |-> "unknown", arm |-> "unknown"]
  /\ UNCHANGED <<producer, queue, last, scene, serving, motor, lock, faults, latest>>

-----------------------------------------------------------------------------
\* Other producers.

\* apply_arm_joint_batch, called by joint_traj_task at each tick of a trajectory.
ArmBatch ==
  /\ motor /\ ready /\ Enqueue("joint", Pose) /\ UNCHANGED <<motor, lock>>

Idle == UNCHANGED <<producer, queue, last, scene, serving, device, faults, latest>>

\* spi_s3_set_motor_power
MotorOn ==
  /\ pc["operator"] = "idle" /\ motor' = TRUE /\ lock' = FALSE /\ Idle
MotorOff ==
  /\ pc["operator"] = "idle" /\ motor' = FALSE /\ UNCHANGED lock
  /\ IF lock \/ ~ready THEN Idle ELSE Enqueue("operator", Stop)

\* spi_s3_set_turret_output_lock
Lock ==
  /\ "lock" \in scene /\ pc["operator"] = "idle" /\ lock' = TRUE /\ UNCHANGED motor
  /\ IF ready THEN Enqueue("operator", Stop) ELSE Idle
Unlock ==
  /\ pc["operator"] = "idle" /\ lock' = FALSE /\ UNCHANGED motor /\ Idle

\* pca9685_set_output_enable
SetOutputEnable(on) ==
  "oe" \in scene /\ Enqueue("operator", OE(on)) /\ UNCHANGED <<motor, lock>>

-----------------------------------------------------------------------------
\* servo_drive_pca9685_task

\* write_pwm_block: nothing is written when the shadow says so; a write that
\* fails may have reached the chip, and the recovery from it may lose the chip.
WriteGroup(c) ==
  IF ~ready \/ shadow[c.class] = c.value THEN UNCHANGED <<device, faults>>
  ELSE \/ /\ shadow' = [shadow EXCEPT ![c.class] = c.value]
          /\ chip' = [chip EXCEPT ![c.class] = c.value]
          /\ UNCHANGED <<ready, faults>>
       \/ /\ "fault" \in scene /\ faults < MaxFaults /\ faults' = faults + 1
          /\ ready' \in BOOLEAN /\ chip' \in {chip, [chip EXCEPT ![c.class] = c.value]}
          /\ UNCHANGED shadow

Execute(c) ==
  IF c.class = "oe"
  THEN chip' = [chip EXCEPT !.oe = c.value] /\ UNCHANGED <<ready, shadow, faults>>
  ELSE WriteGroup(c)

\* An older command of the class is in the hands of a task that empties the queue.
Overtakes(c) ==
  \E p \in Producers : pc[p] = "drain" /\ \E i \in 1..Len(kept[p]) : kept[p][i].class = c

\* Commands of one class in a row are merged into the last of them.
ServoTake ==
  /\ ~TurretBusy /\ queue # <<>>
  /\ queue' = Tail(queue) /\ serving' = Head(queue)
  /\ IF serving = NoCommand \/ Supersedes(Head(queue), serving)
     THEN UNCHANGED <<device, faults>>
     ELSE Execute(serving)
  /\ latest' = IF Overtakes(Head(queue).class)
               THEN [latest EXCEPT ![Head(queue).class] = "crossed"] ELSE latest
  /\ UNCHANGED <<producer, last, scene, motor, lock>>

ServoLast ==
  /\ ~TurretBusy /\ queue = <<>> /\ serving # NoCommand
  /\ Execute(serving) /\ serving' = NoCommand
  /\ UNCHANGED <<producer, queue, last, scene, motor, lock, latest>>

Servo == ServoTake \/ ServoLast

-----------------------------------------------------------------------------

Init ==
  /\ pc = [p \in Producers |-> "idle"] /\ cmd = [p \in Producers |-> NoCommand]
  /\ kept = [p \in Producers |-> <<>>]
  /\ queue = <<>> /\ last = NoCommand /\ serving = NoCommand
  /\ ready = TRUE /\ shadow = [turret |-> "unknown", arm |-> "unknown"]
  /\ chip = [turret |-> "none", arm |-> "none", oe |-> "on"]
  /\ motor = TRUE /\ lock = FALSE /\ scene \in Scenes
  /\ faults = 0 /\ latest = chip

Next ==
  \/ \E p \in Producers : Enqueueing(p)
  \/ \E c \in {Stop, Run} : TurretPass(c)
  \/ TurretReinit \/ ArmBatch
  \/ MotorOn \/ MotorOff \/ Lock \/ Unlock \/ \E on \in OEOps : SetOutputEnable(on)
  \/ Servo

Spec == Init /\ [][Next]_vars

\* The timer notifies the turret task every 2 or 20 ms, the queue wakes the
\* servo task, and a task in enqueue_pca_command gets to its end.  A pass that
\* finds nothing to drive asks for Stop.
FairSpec ==
  /\ Spec
  /\ \A p \in Producers : WF_vars(Enqueueing(p))
  /\ SF_vars(~motor /\ TurretPass(Stop)) /\ WF_vars(TurretReinit) /\ SF_vars(Servo)
=============================================================================
