# TLA+ models of the MROS ESP32-S3 firmware

This directory models, checks and proves parts of the firmware in `src/`: an
ESP32-S3 application (robot controller with a web UI, a shell and links to a
Teensy 4.1 and an ESP32-C3) and a separate recovery program that installs and
rolls back the application's firmware. Modelled are the update path, the link to
the Teensy with the motion commands and poses that pass it, the way to the servo
chip, the secure UART link and the Wi-Fi manager. What follows is the inventory of the
system, what is modelled, what each run and each theorem shows, and the plan.

## 1. The system

Paths are relative to `src/` of this repository's copy (`src/src` holds the
application, `src/recovery_app` the recovery program).

| Component | State it keeps | Operations | Interacts with |
|---|---|---|---|
| Recovery worker, `recovery_app/main/recovery_main.cpp` | its place in the procedure, local manifest and guard; shared progress | `recovery_worker_task`: rollback or install if one is pending, else count down to app0; copy app0 to a backup, install, restore, select the boot partition | portal (same chip, other task), flash, LittleFS, NVS |
| Recovery portal, `recovery_app/main/recovery_web.cpp` | `g_client_seen`, pairing token | install-file, upload, delete, reboot | manifest, boot guard, worker |
| Update storage, `components/mros_update_shared` | manifest file in LittleFS, boot guard in NVS, HMAC | load, save, clear, verify | all of the others |
| Application update runtime, `src/update/update_runtime.cpp` | `g_monitor_active`, `g_guard`, health window | `update_runtime_boot_guard`, `_mark_app_ready`, `_process` | manifest, guard, bootloader |
| `update-system`, `src/shell/commands/mros_shell_cmd_update_system.cpp` | none of its own | stage a manifest, select recovery, restart | manifest, guard |
| Task manager, `src/core/rtos/task_manager.cpp` | task handles and cycle statistics | `app_init`, `app_loop`, task bodies | everything |
| T41 SPI link, `src/comm_interfaces/spi/spi_t41_link.cpp` | command cache, pending command, answer slot, transaction flags, fragment buffer, joint trajectory, turret PID, fail-safe state | `spi_s3_service_comm`, SPI interrupt, setters | web, shell, servo and turret tasks, C3 master, Teensy |
| Joint planner, in `spi_t41_link.cpp` and `task_manager.cpp` | requested joints, trajectory (start, target, tick, clock), pending re-plan | set target, tick, synchronise with a snapshot of the Teensy | web, shell, T41 link, servo driver |
| Servo driver, `src/drivers/i2c_pca9685.cpp` | command queue, last command enqueued, shadow of the registers | enqueue, work off the queue, set output enable, initialise again | turret, joint and web tasks; I2C |
| C3 SPI master, `src/comm_interfaces/spi/spi_c3_master.cpp` | last frame, fail-safe option, counters | periodic exchange; its pins are -1 (`src/config/hw_config.h:43-47`), so it returns at once | T41 link, web |
| UART link, `src/comm_interfaces/uart`, `src/security/uart_secure.cpp` | COBS line buffers, log ring, send and receive numbers, reservation in NVS | encode/decode, seal, open, enable, log push and read | Teensy, remote shell |
| Device process manager, `src/core/rtos/device_process_manager.cpp` | policy, hold, trace ring | policy decision per task cycle | task manager |
| Shell service and remote shell, `src/shell/shell_service.cpp`, `mshell_remote.cpp` | sessions, queues, outstanding request | submit, poll, time-out | UART, web, SSH |
| Wi-Fi manager, `src/web/server/wifi_manager.cpp` | phase, scan in progress, candidate / saved / failed network, timers, access point, power lock | scan, choose, join, retry, fall back to a hotspot, test credentials | web, shell, driver's event task |
| Web server, `src/web/server`, `data` | HTTP sessions | routes over the other components | all |
| Trajectory handler and control, `src/web/server/trajectory_handler.cpp`, `src/control` | uploaded trajectory, PID state | upload, run, stop | T41 link |
| Logger, power, memory, health, kinematics, experimental worker, network services, platform layer | see `PROJECT.json` | | |

### What is hard here

* **Resets.** Four programs (recovery worker, portal, application runtime,
  `update-system`) change five pieces of stored state (app0, backups,
  manifest, boot guard, boot selection). None of these changes is atomic with
  another, and power can go at any point. A test on a bench hardly reaches a
  reset between two given NVS writes.
* **Two tasks on one store.** The portal's HTTP handlers and the worker run at
  the same time; `update-system` runs next to the health monitor.
* **Interrupt against task.** The SPI link's transaction flags are written by
  an interrupt on core 0 and a task on core 1, without a lock; the command
  cache by any task.
* **Queues without a lock.** Three tasks put commands into the servo queue,
  emptying and refilling it when it is full, while a fourth takes them out.
* **Late events.** The Wi-Fi driver reports from a task of its own what happened
  to an attempt the manager may have given up; snapshots of the Teensy change
  the pose the joint planner is computing with.
* **Numbers that survive a reset.** The S3 must not send a number twice although
  it writes NVS only once per window.
* **Time-outs and retries.** The health window against the boot counter;
  retries of an SPI command against late answers.

### What makes each component correct

* Update and recovery: the only bootable image is never given up; what a
  rollback would restore is what ran before; an unconfirmed image runs only
  under a guard; every trial ends; an image that does not become healthy is
  replaced.
* T41 link: the driver's buffer is never rewritten under it; commands arrive
  in order, a bounded number of times, and are given up only when answered or
  exhausted; what the operator set last arrives in the end.
* Joint planner: the arm never leaves its trajectory, never jumps, and comes to
  rest where it was told to.
* Servo driver: the last command of a class that was not dropped or crossed is
  what the chip does in the end; with the motor off the turret stops.
* UART: decoding undoes encoding; after noise the next frames are read; no number
  is sent twice and no frame taken twice.
* Wi-Fi manager: it joins a network that would take it, though one other refuses
  it, and offers the hotspot while there is none; the power lock is given back.

## 2. Modules

| Module | Contents |
|---|---|
| `UpdateRecovery` | worker, portal, runtime, `update-system`, stored state, resets |
| `UpdateProperties`, `MCUpdateRecovery` | what they guarantee together; instance for TLC |
| `UpdateProofs`, `UpdateBackupProofs`, `UpdateTrialProofs` | types; the guard names the right backup, a rollback finds it, and app0 is erased only next to a copy; trials are bounded and new images guarded |
| `T41Link` | link task, SPI interrupt, setters, Teensy |
| `CommandChannel` | what the link promises, without buffers, interrupts and time-outs |
| `T41LinkProperties`, `MCT41Link` | what the link guarantees, and its mapping to `CommandChannel`; instance |
| `T41LinkProofs` | safety of the link; the link implements the channel |
| `JointTraj` | `joint_traj_task`, its setters, snapshots, time |
| `JointTrajProperties`, `MCJointTraj`, `JointProofs` | what the planner guarantees; instance; proofs |
| `ServoOutput` | turret, joint, web and servo tasks around the command queue |
| `ServoOutputProperties`, `MCServoOutput`, `ServoProofs` | what it guarantees; instance; proofs |
| `UartSecure` | numbers of the frames sent and received, over resets |
| `CobsFraming` | COBS as functions, and the reading of frames from the line |
| `UartProperties`, `MCUart`, `UartProofs` | what the numbering guarantees; instance and proofs of both |
| `WifiManager` | the manager's task, its users, the driver's events |
| `WifiProperties`, `MCWifi`, `WifiProofs` | what it guarantees; instance; proofs |

The parts are checked one at a time. They meet in few places: the motor switch
is an input of `T41Link`, `JointTraj` and `ServoOutput`, which each let it change
at any time, and a snapshot of the Teensy is an input of `JointTraj`, which lets
it come at any time; so what holds of the parts holds of them together.

Operators whose name starts with `Bug` are wrong versions of the definition
that follows them: putting one in its place breaks the property that
`PROJECT.json` lists under `mutants`.

### 2.1 UpdateRecovery

An action is what one program does between two changes of stored state, so
that a reset or another task can come in between.

*Stored state.* `app0` holds an image, `Blank` (no readable description) or
`Torn` (the description is there, the rest is not: what
`partition_has_valid_app` takes for a valid app and the bootloader's checksum
refuses). `files` and `backup` are the two LittleFS directories. `manifest` and
`guard` are the two records; the guard is seven NVS keys written one after the
other, and `GuardPrefixes` is the set of mixtures a reset can leave. A manifest
whose write is cut short is lost (`fopen("wb")` truncates). `bootSel` is
otadata. `by` says which firmware signed the manifest; `SameKey` whether the
other one verifies it.

*Programs.* `wk` walks through `recovery_worker_task`: rollback
(`RollbackBegin` .. `BootApp0`), install (`AcceptInstall`, `BackupOpen`,
`BackupCopy`, `MarkCopied`, `InstallBegin`, `InstallWrite`, `InstallFinish`,
`ArmHealthcheck`, `MarkHealthcheck`), their failure paths, the fallback boot,
and the countdown. `web` is an install request of the portal between its
writes, `sh` one of `update-system`. `apc` is the application's main task:
`BootGuard` counts the boot, `BootLimit` asks for rollback, `AppInit` is
everything up to `update_runtime_mark_app_ready`, `Process(d)` one
`update_runtime_process` `d` units after the last, then confirmation
(`Confirm*`) or time-out (`Timeout*`). `am` is the manifest copy between load
and save of `update_manifest_state_if_possible`.

*Environment.* An image is `Healthy`, `CrashLooping` (resets during start),
`Stalling` (hangs during start) or else starts without ever mounting its
storage. `Crash` is a reset at any point; `faults` counts flash, NVS and file
operations that fail and report it; `SilentClose` and `ReadFaults` add those
that fail without a report.

*Parameters that restrict behaviour*, each only where a run's question needs
it: `OperatorAt` (portal used while the worker idles, is busy, or not),
`ShellOptions`, `StageInTrial`, `Uploads`.

*Left out.* Secure boot and anti-rollback; the direct upload handler, which
the default build compiles out (`MROS_RECOVERY_ALLOW_UNSIGNED_DIRECT_UPLOAD`);
progress reports and the portal's page. An upload to the inbox is one step: the
file appears whole, or stays as it was.

Three facts about the code that the model reflects: `partitions.csv` makes
app0 the factory partition while the tables of the smaller boards make recovery
it (`Init` starts from either); `esp_ota_begin` refuses the factory partition,
one of the ways `InstallBegin` fails; and the `rollbackGuard` setting that the
settings page shows (`data/settings-panel.js`) and recovery's diagnostics parse
is read by neither the runtime nor the worker, so the guard is always on.

### 2.2 T41Link

`pc` walks through one `spi_s3_service_comm`: `CheckNewData`, `ProcessRx`,
`Poll`, then in `queue_transaction` one of `BuildAnswer`, `BuildRetry`,
`BuildCommand` + `ClearReset`, `BuildHeartbeat`, then `Submit`, `FlagBusy`, and
at the end `ResetLine`. Between any two the interrupt may strike (`Exchange`:
one exchange of frames and `spi_s3_post_trans_cb`), and any task may change the
cache (`SetMotor`, `SetReset`). `Exchange` sets `spi_new_data` and
`spi_transaction_done` together; the interrupt does so in two consecutive
stores, and a task that sees only the first behaves as if it had polled earlier.

The Teensy is external. It clocks the bus and may send noise, reports, frames
that want an answer and fragments at will, but acknowledges, or rejects, only
the last command it received. What the S3 sends arrives intact or not at all
(CRC). Of the cached targets the model keeps the motor switch and the one-shot
encoder reset: every other target is carried the way the motor switch is.
`SlowTask` lets an exchange end at any point of the task's pass; with it FALSE
exchanges end only while the task waits to be notified.

Left out: telemetry, and what has no effect in this board's configuration: the
C3 fail-safe option, which the supervision of the link changes, reaches nobody
without the C3's pins; reassembled fragments are discarded (`:1092-1095`), so
here a fragment just produces an ACK or a NACK; the status code that the
supervision sets from a time difference that can wrap (`:1490`) is set again by
the next pass.

`CommandChannel` is the abstract specification: a command is a numbered snapshot
of the switch; only the last one issued is sent; it is replaced when the Teensy,
having heard it, has answered, or when it was sent `MaxSends` times.
`T41LinkProperties` instantiates it with a refinement mapping (`Channel ==
INSTANCE CommandChannel WITH ...`): a command is open from its build until the
task clears `pending`, and sent when an exchange with it ends. `ChannelKept ==
Channel!Spec` is checked by `LinkSafety` and proved in `T41LinkProofs`.

### 2.3 JointTraj

`pc` walks through `joint_traj_task`: look at the planner, wait (for a tick or
only to be notified: `Check`, `Wake`), then `joint_traj_update`: plan anew
(`ReadTargets`, then `Commit`), and move by the ticks that are due (`Move`, then
`ApplyTick`, `Finish`), freeze the clock with the motor off (`Freeze`), or
nothing (`Rest`). `SetTarget` and
`MarkUpdated` are the two halves of `spi_s3_set_target_joint`, which another task
may run between the task's steps. A snapshot of the Teensy is taken over unless the
planner is busy or a local command is recent (`kJointSyncHoldMs`): `CheckSnapshot`
is the test, `TakeSnapshot` the writes. The T41 task is above the planner on the
same core, so the planner stands still between the two; the setters, on the other
core, do not.

The joints move together and are one position; the shape of the curve is a line. The
time-scale setter only asks for a re-plan and is left out. `TargetReached` is
about targets that are not lost in one of two ways. `inTime` is false when the
target was asked for between the planner's reading of a request and its clearing of
the mark, or near the last tick. `overrun` is true when a snapshot was taken over
within the setter, or the setter ran between the snapshot's test and its writes.
Both are deviations.

### 2.4 ServoOutput

Each producer (turret, joint and operator's task) walks through
`enqueue_pca_command`: skip a duplicate, send, and when the queue is full take
everything out (`drain`), put back what is not superseded (`restore`), add its
own (`settle`), throw out the oldest if the queue is full again (`drop`) and try
once more (`retry`), and note the last command (`note`). There is no lock: other
producers may be in it at the same time, and the servo task may take a command
from the queue at any point. `ServoTake` and `ServoLast`
are `pca9685_process_queue`, which merges neighbours of a class;
`WriteGroup` writes the chip unless its shadow says it is up to date. A failed
write may have reached the chip and may lose it (`ready`), whereupon the turret
task initialises it again (`TurretReinit`).

`latest` is a history variable: what was last asked of each class. It is `lost`
when a full queue dropped a command of the class that may have been the last,
`crossed` when the command went in while another task was at work on its class or
had the queue's content in its hands, or when the servo task got it while a task
that empties the queue still held an older one. Where a command is neither, the
order is the code's to keep, and `LatestWins` says that it does. A next command
that goes in undisturbed ends either.

`turret_pid_task` is the highest task of its core, so the others on that core do
not step inside its pass (`TurretBusy`). A class is a group of channels with one
value. Left out: `set_frequency`, single channels set from the calibration page,
the per-channel fallback after a refused group. Copying
`g_pca_last_enqueued_command` is one step, and so is comparing with it; in the
code another task may step in the middle of either.

### 2.5 UartSecure and CobsFraming

`UartSecure`: `Load` and `LoadReserve` are `load_config`, `Seal` and `Use` the
two halves of `uart_secure_seal` around the write of a new reservation, `Open` is
`open` with `accept_sequence`, `Enable` the shell's new key. Its calls exclude
each other by a mutex, and a `Crash` comes between any two of these steps. The
writes of `Enable` to the NVS are one step; any of them may fail, so the NVS that
a reset among them leaves behind is also what a failed one leaves to a `Crash`
after it. `disable` is refused in this build (`MROS_REQUIRE_SECURE_UART` is 1).
Frames of any session of the Teensy arrive at any time, again or never. `count`,
`accepted` and `age` are histories. Left out: the cipher and the random salt of
the nonce; a frame that does not verify changes nothing.

`CobsFraming` has `Encode` and `Decode` as functions and `process_uart1_input` as
`Receive`. The line delivers the bytes of frames one by one, loses some, and puts
others in between. `clean` is a history: the frame began after a delimiter and
nothing has disturbed it. The longest group, 254 bytes in the code, is
`MaxCode - 1`. It shares no variable with `UartSecure`, and `MCUart` explores each
while the other has not begun.

### 2.6 WifiManager

`TaskScan` and `TaskPhase` are a pass of the manager's task before and after
`service_scan`, the two places between which users and events change its state;
`TaskHotspot` the task with the hotspot only. An attempt to join is split at the
20 ms that `begin_sta_attempt` waits (`Connect`). `Command(c)` is a call of a
user: try out credentials, connect, save, reconnect, scan, hotspot, off.
`Deliver` is the driver's event task, which hands over scan results and lost
links in the order in which they happened, but later. `Elapse` lets a timer run
out; a timer that a join or a scan under way would beat does not
(`kConnectTimeoutMs`, `kBootScanTimeoutMs`).

The calls of users take no lock, so they could also run in the middle of either
half of a pass. That is left out, but for what the deviation at `:2140` describes.
Passwords, signal strength, channel and BSSID, captive DNS and LEDs are left
out. Of the networks of equal rank any may be chosen.

## 3. Runs

Passing runs:

| Run | Question | Bounds and why they are enough |
|---|---|---|
| `UpdateFaults` | `TypeOK`; `GuardBackup`: does a backup path in the guard always name the copy of what app0 held? `NewImageGuarded`: before anything fails, is an unconfirmed image always on trial? `RollbackTarget`: over the first reset or failure, does a rollback find that copy? `WipeLeavesImage`: is a complete image erased only next to another? | one file, three images of which one resets during start, all staging options, 2 resets and 2 failed operations: an install, a second reset during its repair, and a failure in each. The theorems cover any numbers |
| `UpdateHostile` | `TrialBound`: with every disturbance on, does a trial ever boot more often than `MaxBoots + 1` plus the resets and failures that explain it? | 1 reset, 1 failure, a crash-looping and a stalling image, busy portal, mixed keys, unreadable guard, silent write failures, staging during a trial. Proved for all |
| `UpdateLive` | over a reset anywhere in an unattended update: `TrialResolves`; `UnhealthyRolledBack` after the last reset; `RecoveryRollsBack`: does recovery put the old image back? | 1 reset; two files, so that a second version exists to be confused with the first; a healthy, a crash-looping and a storage-less image |
| `LinkSafety` | `TypeOK`, `BufferFree`, `SendBound`, `OneShot`, `InOrder`, `AnsweredWhenHeard`, and `ChannelKept`: does the link implement `CommandChannel`? Under every interleaving | numbers up to 5, 2 retries, 1 reset request: a retried command, the answer to an earlier one, and a heartbeat or answer between them. The theorems cover any numbers |
| `LinkLive` | `MotorOffArrives` for an unbounded run | numbers wrap after 3; 2 retries |
| `Joint` | `TypeOK`, `OnTrack`, `NoJump`; `RequestPlanned`: is no notification lost? `ComesToRest`, `TargetReached`; for an unbounded run | 4 positions, a trajectory of up to 3 ticks of 2 units, so that requests, snapshots and the switch come before, between and at ticks; debounce 1; the task up to 1 unit late. Safety is proved for any |
| `Servo` | `TypeOK`; `LatestWins`: does skipping, merging, emptying a full queue and the shadow never let an older command win over one that was not dropped or crossed? `MotorOffStops`: however these meet, does a motor switched off for good stop the turret, unless its stop was crossed (`Misled`)? | a queue of two, which commands of two classes fill, so that it is emptied and refilled; one failed write. `OEOps = {FALSE}`: the pin is only switched off; a command of its class in the queue is what matters to the others. Two tasks at once in the queue code (`MaxInside`), with the servo task taking in between; a failed write and the OE pin come in behaviours of their own (`Scenes`), because the properties speak only of runs without a failed write, and the OE pin adds a third class to an otherwise equal queue. The turret's lock is kept apart from two tasks at once for the size of the run only: to the queue it is one more `Stop` of the operator, as `MotorOff` is, and it only keeps the turret task from adding to it; a lock that has been given back leaves the operator's `Stop` behind, as a switch off and on does. `LatestWins` is proved for queues of any length, any tasks at once and everything together |
| `Uart` | `TypeOK`, `WindowPerBoot`, `NumbersFresh`, `TakenOnce`; and `RoundTrip`, `Resynchronises` of the framing | windows of 3 with margin 1 up to number 14: several reservations in each of 3 boots and the cut at the largest number; one NVS fault; 4 sessions of which 2 are remembered, so that one is forgotten; messages of up to 4 bytes in groups of up to 2, some longer than the buffer of 5, any amount of noise and loss. The theorems cover any numbers and lengths |
| `Wifi` | `TypeOK`, `Reconnects`, `LockReleased`, `HotspotOffered`, `HotspotEnds` | two networks, one with a wrong password, so that a choice fails and the next one counts (two that refuse us, and a third that does not, are outside `Reconnects`: Deviations, `:608`); one retry; one command of a user and a scan, or two faults of the air |

`MaxBoots`, `ConfirmDelay`, `ConfirmTimeout`, `MaxStall`, `MaxCrashes`,
`MaxFaults`, `SeqCount` (with `SeqWraps = FALSE`), `MaxAsked`, `MaxPos`,
`MaxLate`, `MaxInside`, `Scenes`, `MaxCommands` and `MaxMsg` are the bounds of the
models.
`MaxBoots = 1` still distinguishes first, last and one-too-many boot;
`ConfirmDelay < ConfirmTimeout` with `MaxStall = 2` (`UpdateLive`) reaches a
confirmation, a time-out and the pass after a stall where both are due and the
code rolls a healthy image back. The properties that end in "in the end"
are checked after the bounded disturbances, which the bounds make finite, have
ceased; in `LinkLive` and `Joint` requests never cease unless the property says so.

Runs that find what the code does wrong (`findings` in `PROJECT.json`):

| Run | What TLC finds |
|---|---|
| `UpdateValidApp` | after power is lost during an install, recovery says app0 is valid and counts down to a torn image; nothing resumes the install |
| `ServoStop` | "Keep retrying on next cycle if I2C/PCA had a transient write failure": the repeated stop is equal to the last command enqueued and is skipped, so the turret keeps its speed |
| `WifiStuck` | Wi-Fi switched off, or to the hotspot, during a scan: the scan stays marked as started, and after "restart STA auto-connect flow" no scan begins and nothing is joined until the next restart |

Some properties hold only in a restricted setting, which their runs state by
their constants. Outside it: `GuardBackup` fails when the portal is used while
the worker is busy (`install_file_handler` does not ask; only the page disables
its button) and when `StageInTrial` and `ReadFaults` come together;
`RollbackTarget` fails with two resets, because the second can lose the
manifest that names the backup. `WipeLeavesImage` says nothing once an install
has replaced a torn image: when an operator asks for another install after a
reset, `handle_pending_install` does not look at what it backs up, and copies the
torn app0 over the only good backup of the same version; a rollback then erases
the only complete image. `TrialResolves` fails with a `Stalling` image: until
`update_runtime_mark_app_ready` has run, at the very end of `app_init`,
`update_runtime_process` returns at once, so an image that hangs before is
neither confirmed nor rolled back. `NewImageGuarded` fails after a reset between
the install and the storing of the guard: recovery then sees a manifest in
`installing`, and boots what is in app0.

### Deviations

Other places where the code does less than one would expect. The models contain
each of them; the properties above are stated so that they hold beside them.

Update and recovery:

* `recovery_main.cpp:572-573`: when the guard cannot be stored after an install,
  "booting previous valid app0" boots the new image, unguarded.
* `update_runtime.cpp:47`: a manifest staged during the health window is
  overwritten with `confirmed` and never installed.
* `update_runtime.cpp:103`: a reset after storing `rollback_pending` and before
  selecting recovery: the request is never served.
* `RollbackTarget` holds over one reset or one failed operation. Two of them can
  lose the manifest that names the backup, or the backup itself.

T41 link and planner:

* `spi_t41_link.cpp:1343`: an exchange that ends between
  `spi_slave_queue_trans` and `spi_transaction_done = false` is forgotten, and
  the link is silent until the next restart. It needs the task to be held up
  between the two statements for one exchange, by the turret or servo task,
  which have priority over it.
* `spi_t41_link.cpp:1302`: an encoder reset asked for while a command is being
  built is cleared with the one before.
* `spi_t41_link.cpp:950`: there is one slot for an answer; a second frame that
  wants one overwrites the first. The Teensy is left to ask again.
* `spi_t41_link.cpp:487`: a target set just before the last tick is overwritten
  by the pose; so is one set between the planner's reading of the request and its
  clearing of the mark.
* `spi_t41_link.cpp:998-1012`: a snapshot is tested against local commands first
  and written then. A target that a setter on the other core stores in between, or
  that is stored but not yet marked at the test, is overwritten with the measured
  pose; where it was marked, the planner plans a trajectory to where the arm stands.

Servo driver:

* `i2c_pca9685.cpp:763`: `pca9685_init` drives the OE pin low, as its comment
  says for start-up; the turret task calls it to recover a lost chip, so outputs
  that the operator disabled are enabled again.
* `i2c_pca9685.cpp:144-207`: there is no lock. Two tasks that are in
  `enqueue_pca_command` with commands of one class put them in in one order and may
  note the last one in the other; a command that goes in while another task
  empties or refills the queue ends up before what that task puts back; and the servo
  task may be handed it before the older ones that are in that task's hands. The older
  command then wins. `latest` marks these commands as `crossed`, and `LatestWins`
  says nothing of them.
* The same can leave the turret running with the motor off: a speed that was queued
  after the stop, or from before it when a full queue threw the stop out, while
  the stop is noted as the last command. The stops that the turret task repeats
  are then taken for duplicates, until another command is noted. `MotorOffStops`
  excepts this one case (`Misled`).

Wi-Fi manager (`wifi_manager.cpp`):

* `:1506`: the credentials of a test are saved although the link that stands is
  to another network, which a retry had joined meanwhile.
* `:2143`, `:1425`: the power lock of an attempt is not released when the Wi-Fi is
  switched off or to the hotspot during it, nor when a scan times out while
  connecting. `LockReleased` is stated without commands.
* `:1718`: a late "come back later" of an earlier attempt tears down the link that
  stands; it is joined again.
* `:2171-2182`: "reconnect" after "off" sets the manager going but not the
  driver's mode, so nothing is scanned until the Wi-Fi is enabled.
* `:608`: there is one slot for a candidate that failed. With two preferred
  networks that fail in turn, a third is never tried. `Reconnects` therefore says
  something only where at most one network refuses us (`OneRefuses`).
* `:1321`: the password of the last good network is not updated when the same
  access point is joined with a new one.
* `:2140` against `:1617`: a pass of the task that has looked at the mode before
  "off" starts the hotspot after it.

### Fairness

`UpdateRecovery!FairSpec`: weak fairness of the bootloader, the worker, the
application's main task, and of requests of the portal and of `update-system`
that are under way. The worker and the main loop are FreeRTOS tasks that never
wait for an event without a time-out, and a request runs in its own task.
Nothing is assumed of operators or resets.

`T41Link!FairSpec`: weak fairness of the link task (its notification wait has a
time-out, `kSpiT41IdleMs`) and of time. Two strong assumptions concern the
Teensy, without which no protocol could deliver: again and again an exchange
arrives in which it wants no answer (answers have priority over commands), and
a command that is on the bus again and again arrives. `LinkLive` also assumes
that the task is done with an exchange before the next one ends
(`SlowTask = FALSE`); the first deviation of the link shows that the code
depends on it.

`JointTraj!FairSpec`: weak fairness of the task, of a setter or a snapshot's
writes that have begun, and of time. `ServoOutput!FairSpec`: weak fairness of each task that is in
`enqueue_pca_command` and of the re-initialisation; strong fairness of the turret
task's pass with the motor off, which its timer starts again and again and
which other tasks' steps on the same core only put off, and of the servo task,
which the turret task preempts for a moment at a time. `WifiManager!Fairness`:
weak fairness of the manager's tasks, of an attempt that has begun, of the
driver and of every timer. Nothing is assumed of users, the air or the
operator's requests. `UartSecure` has safety properties only, and no fairness.

The `Update*` runs switch deadlock checking off because the system really
stops: with no image to boot (`mode = "dead"`), or idle in recovery with no
operator; the `Wifi*` runs, too: with the Wi-Fi off and no command left, the task
only looks at a flag. The other runs check it.

## 4. Proofs

All proofs are checked by TLAPS for every value of the constants that the
modules' assumptions allow: types, ranges and disjointness only, and for the planner
that the motor's debounce time is no longer than a tick (`JointTrajAssumption`).

* `UpdateProofs!TypeCorrect`: `Spec => []TypeOK`. `TypeOK` alone is not
  inductive: the worker reads `files[wm.target]` and `backup[wm.backup]`, which
  are contents only if the path is that of a file. `Consistent` adds that
  whoever stages, copies, installs or restores has named the file, that a
  backup being restored has been opened, and that what runs is a complete
  image. One lemma per program shows that each of its actions keeps
  `TypeInv == TypeOK /\ Consistent`.
* `UpdateBackupProofs!BackupKept`: `Spec => []GuardBackup`, assuming
  `Undisturbed` (portal not used while the worker is busy, nothing staged
  during a trial, guard readable, writes that fail say so), for any number of
  resets and failures. The invariant `GuardInv` says three more things: the
  programs' states exclude each other (`ProgramsApart`), an install is staged
  and carried out under a cleared guard (`StagedCleared`), and every copy of a
  guard, in the worker, the runtime and NVS, names the right backup while none
  names the one that is being replaced (`CopiesName`). A guard write that a
  reset cuts short mixes two guards, which is harmless exactly because both
  name the same backup or none.
* `UpdateBackupProofs!RollbackRestores` and `ImageKept`: `RollbackTarget` and
  `WipeLeavesImage`, under the same assumptions. A guard may be armed without a
  backup: its write was cut short, or failed. `restore_backup_and_boot` then
  looks in the manifest, so the invariant, `RollbackInv`, adds where that stands
  in: whoever keeps a manifest during a trial or a rollback keeps one that names
  the right backup or none (`ManifestNames`), and while no more than one reset or
  failure has come, a guard without a backup has cost that one, and the manifest
  has the path (`StandsIn`). `ImageKept` needs no such limit.
* `T41LinkProofs`: `LinkTypeCorrect`, `BufferAlwaysFree`, `SendsBounded`,
  `ResetOneShot` from one inductive invariant, `LinkInv`. `DoneMeansIdle`: the
  flag says "done" only while no transaction is queued, except between queueing
  and noting it, where the task does not read it. `SendsPaid`: exchanges so far,
  plus one if the command is in flight, are paid for by the build and the
  retries. `ResetPaid`: a request still in the cache has not been carried,
  except right after building.
* `CommandsInOrder` and `AnsweredOnlyWhenHeard`, assuming that the 32-bit
  numbers have not wrapped (`SeqWraps = FALSE`), add `OrderInv`: what is in
  flight is the pending command, numbers grow, and an answer is no newer than
  what the Teensy has heard.
* `T41LinkProofs!ChannelImplemented`: `Spec => Channel!Spec` under the same
  assumption. The invariant is `LinkInv`, `OrderInv`, the exact count of sends
  and that a number names one snapshot; one lemma per action says which step of the channel it is, most
  of them stutters: building is `Issue`, an exchange of the command is `Send`,
  taking an ACK or NACK that ends the wait is `Answered`.
* `UpdateTrialProofs`: `TrialsBounded`, without any assumption about portal,
  operator, images or storage. Its invariant bounds the counter in the guard and in
  the runtime's copy of it by the limit plus the resets and failures so far, and
  says that nothing comes between counting a boot and asking for rollback.
  `NewImagesGuarded` takes `BackupInv` and adds
  `Calm`: while nothing has failed, an image that is not the confirmed one is
  in app0 only between install and confirmation, with the guard armed before the
  boot is selected.
* `UartProofs`: `UartTypeCorrect`, `NumbersNeverReused`, `BootCostsOneWindow`,
  `FramesTakenOnce`. `NumbersNeverReused` rests on what is sent being at most
  what is stored, and on the memory's limit being at most what is stored.
  `FramesTakenOnce` rests on the list holding every session of age 1 to
  `Remembered` at its age, the session in use not being one of them, and frames
  taken being no newer than the last.
* `UartProofs`: `FramesDecoded` and `FramesTaken`, for messages, groups and a
  buffer of any length. `Encode` and `Decode` are recursive functions; that they
  exist (`EncoderExists`, `DecoderExists`) and what they compute is proved with an
  induction over sets of numbers, `SetInduction`. `EncoderHolds` goes up the
  message: after `i` bytes, those that are in no group are the block. `SaysBefore`
  goes down: read from the group that is begun there, the frame says what follows.
  At 0 this is `DecodeEncode`: decoding the encoding gives the message, and the
  encoding has no 0. For the reader of the line, `LineInv` says that what is gone of
  an undisturbed frame is in the buffer, as long as it fits.
* `JointProofs`: `PlannerTyped`, `ArmOnTrack`, `ArmDoesNotJump` from one
  inductive invariant, `TrajInv`: `GapBound` bounds the time since the last pass
  by what the task may sleep, `UnderWay` ties the clock to the tick, `Reading`
  says what stays true between two of its steps, and `Aside` that the arm rests
  while a snapshot is being taken over. Without `GapBound` the
  clock of a frozen trajectory could become negative.
* `ServoProofs`: `ServoTypeCorrect` and `LastCommandWins`, without any assumption,
  for a queue of any length and any tasks in the queue code at once. `LatestWins`
  speaks only of a queue that has been worked off; the invariant, `WinsInv`, says
  what must hold until then, of each class whose last command is neither lost nor
  crossed (`Live`). Where no write has failed, the queue, with what a producer has
  already taken out before it or has yet to put back behind it, sets the class to
  what was last asked of it, except while a task that found the queue full holds a
  newer command of that class (`Decided`). There is at most one such task in the
  loops over the queue, or nothing is `Live` (`OneRefill`). A command that is
  skipped as a duplicate is what was last asked of its class (`LastHolds`). What the
  shadow says is in the registers (`ShadowTrue`), so leaving out a write changes
  nothing.
* `WifiProofs`: `WifiTypeCorrect`; no step but `MayRetry` keeps the count of
  retries, and it stops at the limit. `LockOnlyForAttempt` is the safety
  counterpart of `LockReleased`: until a user's first call the lock is held only
  while an attempt is under way (`LockHeld`). Alone this is not inductive, since a
  scan that times out while connecting leaves the lock behind; `Unattended` says
  that without users no scan is begun during an attempt.

Only model-checked: every liveness property, also those of the Wi-Fi manager
(fairness and ENABLED are out of the prover's reach), and what a finding says.
Every invariant and every action property of a passing run is proved.

## 5. Not modelled

`PROJECT.json` lists every part with its status; the reasons in short.

* Floating-point numerics: kinematics, PID, power and health thresholds, the
  experimental worker's jobs, the shape of the trajectory's curve.
* C3 master: without pins in this configuration it does nothing.
* Shell service and remote shell: an answer belongs to a request only by the
  order of lines that the Teensy's shell writes, and that program is not in this
  repository.
* Device process manager: accounting, and longer waits for tasks that are not
  modelled here.
* Shell commands, HTTP routes, JSON, the browser code: parsing, formatting and
  text; where one changes shared state, it is an action of the component it
  acts on.
* Logger: loses lines by design when its buffer is full.
* SSH and MCP front ends, wolfSSL, wolfSSH and other vendored code (by far the
  most lines of the repository), build scripts.
* Of the modelled components: what sections 2.1 to 2.6 say is left out.

## 6. Plan

1. `GuardedUpdate`: an image is old, on trial, confirmed or rolled back, as the
   abstract specification of `UpdateRecovery`.
2. With a C3 on the board: supervision of the link and the fail-safe option
   against the user's choice.
3. `WifiManager` with three networks and without `OneRefuses`, once more than one
   candidate that failed is remembered.
