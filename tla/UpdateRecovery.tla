--------------------------- MODULE UpdateRecovery ---------------------------
(***************************************************************************)
(* Firmware update of the ESP32-S3: staging from mshell or the recovery    *)
(* portal, the recovery worker that backs up, installs and restores app0,  *)
(* and the boot guard with which the application confirms a new image or   *)
(* asks for its rollback.                                                  *)
(*                                                                         *)
(* What survives a reset is otadata, the app0 partition, the LittleFS      *)
(* files (firmware, backups, manifest) and the NVS boot guard.  Each step  *)
(* of a program between two writes of that state is an action, so that a   *)
(* reset (Crash) or another task can come between any two of them.         *)
(*                                                                         *)
(* Definitions whose name starts with Bug are not part of the model: each  *)
(* is a wrong version of the definition below it, kept to show that a      *)
(* property notices the mistake.                                           *)
(***************************************************************************)
EXTENDS Naturals

CONSTANTS
  Images,          \* complete firmware images
  Factory,         \* the image app0 holds at first
  Healthy,         \* images that start, keep running and mount their storage
  CrashLooping,    \* images that reset before the end of app_init
  Stalling,        \* images that never reach the end of app_init
                   \* (every other image starts but never mounts its storage)
  Blank, Torn,     \* flash contents without / with a readable app description
                   \* that are no complete image
  Files,           \* firmware files, one per version token
  NoFile,
  MaxBoots,        \* kDefaultMaxBoots
  ConfirmDelay,    \* kHealthConfirmDelaySec, in units of the model
  ConfirmTimeout,  \* kDefaultConfirmTimeoutSec, in the same units
  MaxStall,        \* most units between two runs of update_runtime_process
  RecoveryValid,   \* the recovery partition holds an image
  SameKey,         \* both firmwares were built with the same manifest key
  OperatorAt,      \* when the portal is used: subset of {"idle", "busy"}
  ShellOptions,    \* subset of {"reboot", "no-reboot", "prepare-only"}
  Uploads,         \* contents an operator may upload
  StageInTrial,    \* update-system may run while the health monitor is active
  ReadFaults,      \* the worker may fail to read the boot guard
  SilentClose,     \* a file write may fail in fclose, whose result is ignored
  MaxCrashes,      \* bound: power losses
  MaxFaults        \* bound: failed flash, NVS and file operations

Contents == Images \cup {Blank, Torn}
Paths == Files \cup {NoFile}

ManifestStates == {"absent", "pending_install", "installing", "failed",
  "signature_rejected", "pending_healthcheck", "rolling_back",
  "rollback_pending", "rolled_back", "confirmed"}
GuardStates == {"", "pending_healthcheck", "rollback_pending", "rolled_back"}

\* The backup file of version token f is written as path f: `backup' and
\* `files' are two directories.
Manifests == [state : ManifestStates, target : Paths, backup : Paths,
              digest : Contents, by : {"app", "recovery"}]
Guards == [armed : BOOLEAN, state : GuardStates, backup : Paths, count : Nat]

\* An unreadable or empty manifest file; the values a default-constructed
\* UpdateManifest has.
NoManifest == [state |-> "absent", target |-> NoFile, backup |-> NoFile,
               digest |-> Blank, by |-> "app"]
NoGuard == [armed |-> FALSE, state |-> "", backup |-> NoFile, count |-> 0]

ASSUME UpdateAssumption ==
  /\ Factory \in Images
  /\ Healthy \subseteq Images /\ CrashLooping \subseteq Images \ Healthy
  /\ Stalling \subseteq Images \ (Healthy \cup CrashLooping)
  /\ Blank \notin Images /\ Torn \notin Images /\ Blank # Torn
  /\ NoFile \notin Files \cup Contents
  /\ MaxBoots \in Nat /\ ConfirmDelay \in Nat /\ ConfirmTimeout \in Nat
  /\ MaxStall \in Nat /\ MaxCrashes \in Nat /\ MaxFaults \in Nat
  /\ {RecoveryValid, SameKey, StageInTrial, ReadFaults, SilentClose} \subseteq BOOLEAN
  /\ OperatorAt \subseteq {"idle", "busy"}
  /\ ShellOptions \subseteq {"reboot", "no-reboot", "prepare-only"}
  /\ Uploads \subseteq Contents

VARIABLES
  bootSel,   \* otadata: the partition selected for the next boot
  app0,      \* contents of the app0 partition
  files,     \* firmware files in LittleFS
  backup,    \* backup files in LittleFS
  manifest,  \* the manifest file
  guard,     \* the NVS boot guard
  mode,      \* "reset" (bootloader next), "app", "recovery" or "dead"
  wk,        \* where recovery_worker_task stands
  wm, wg,    \* its local manifest and guard
  onFail,    \* where restore_backup_and_boot returns to when it fails
  src,       \* what the open target file reads as
  web,       \* the portal's install request in progress
  seen,      \* g_client_seen
  apc,       \* where the application's main task stands
  mon, gg,   \* g_monitor_active, g_guard
  elapsed,   \* time since update_runtime_mark_app_ready
  am,        \* manifest copy of update_manifest_state_if_possible
  sh,        \* the update-system command in progress
  prior,     \* history: what app0 held when it was last backed up
  trusted,   \* history: the image last confirmed, Factory at first
  crashes, faults

flashVars == <<bootSel, app0, files, backup>>
savedVars == <<manifest, guard>>
workVars == <<wk, wm, wg, onFail, src>>
webVars == <<web, seen>>
appVars == <<apc, mon, gg, elapsed, am, sh>>
vars == <<flashVars, savedVars, mode, workVars, webVars, appVars,
          prior, trusted, crashes, faults>>

WorkerPCs == {"off", "start", "rb_begin", "rb_erase", "rb_write", "rb_finish",
  "rb_failed", "rb_disarm", "rb_clear", "rb_done", "boot", "sign", "mark",
  "copy_open", "copy", "copy_failed", "mark_copied", "begin", "write",
  "finish", "fail_arm", "fail_mark", "arm", "arm_failed", "mark_health",
  "fallback", "countdown", "restart", "idle"}
AppPCs == {"off", "guard", "over", "over_boot", "init", "loop", "to_save",
  "to_load", "to_write", "to_boot", "cf_clear", "cf_load", "cf_write"}
Request == [pc : {"free", "clear", "save", "select", "restart"},
            file : Paths, digest : Contents,
            opt : {"reboot", "no-reboot", "prepare-only"}]
NoRequest == [pc |-> "free", file |-> NoFile, digest |-> Blank, opt |-> "reboot"]

TypeOK ==
  /\ bootSel \in {"app0", "recovery"} /\ app0 \in Contents
  /\ files \in [Files -> Contents \cup {NoFile}]
  /\ backup \in [Files -> Contents \cup {NoFile}]
  /\ manifest \in Manifests /\ guard \in Guards
  /\ mode \in {"reset", "app", "recovery", "dead"}
  /\ wk \in WorkerPCs /\ wm \in Manifests /\ wg \in Guards
  /\ onFail \in {"idle", "fallback"} /\ src \in Contents
  /\ web \in Request /\ seen \in BOOLEAN
  /\ apc \in AppPCs /\ mon \in BOOLEAN /\ gg \in Guards
  /\ elapsed \in Nat /\ am \in Manifests /\ sh \in Request
  /\ prior \in Contents /\ trusted \in Images /\ crashes \in Nat /\ faults \in Nat

-----------------------------------------------------------------------------
\* Storage.  A failing operation costs one of MaxFaults.

\* boot_partition_and_restart checks the whole image; partition_has_valid_app
\* reads no more than the app description at its start.
HasDescription == app0 # Blank
Bootable == app0 \in Images

FaultOccurs == faults < MaxFaults /\ faults' = faults + 1

\* write_file: opening for writing truncates the file on flash, so a failed
\* write leaves the old manifest (nothing opened) or none.
WriteManifest(m, ok) ==
  \/ ok /\ manifest' = m /\ UNCHANGED faults
  \/ ~ok /\ FaultOccurs /\ manifest' \in {manifest, NoManifest}
  \/ ok /\ SilentClose /\ FaultOccurs /\ manifest' = NoManifest

\* save_boot_guard sets one NVS key after the other, armed first, and each key
\* is durable on its own; clear_boot_guard erases them in the same order.
GuardPrefixes(old, new) ==
  {old, [old EXCEPT !.armed = new.armed],
   [old EXCEPT !.armed = new.armed, !.state = new.state],
   [new EXCEPT !.count = old.count], new}

WriteGuard(g, ok) ==
  \/ ok /\ guard' = g /\ UNCHANGED faults
  \/ ~ok /\ FaultOccurs /\ guard' \in GuardPrefixes(guard, g)

\* esp_restart, or any reset: the bootloader runs next.
Restart ==
  /\ mode' = "reset"
  /\ wk' = "off" /\ wm' = NoManifest /\ wg' = NoGuard /\ onFail' = "idle"
  /\ src' = Blank /\ web' = NoRequest /\ seen' = FALSE
  /\ apc' = "off" /\ mon' = FALSE /\ gg' = NoGuard /\ elapsed' = 0
  /\ am' = NoManifest /\ sh' = NoRequest

\* The bootloader takes the selected partition if its image verifies, and the
\* other one otherwise.
Boot ==
  /\ mode = "reset"
  /\ LET toApp == Bootable /\ (bootSel = "app0" \/ ~RecoveryValid)
     IN  /\ mode' = IF toApp THEN "app"
                    ELSE IF RecoveryValid THEN "recovery" ELSE "dead"
         /\ apc' = IF toApp THEN "guard" ELSE "off"
         /\ wk' = IF ~toApp /\ RecoveryValid THEN "start" ELSE "off"
  /\ UNCHANGED <<flashVars, savedVars, wm, wg, onFail, src, webVars, mon, gg,
                 elapsed, am, sh, prior, trusted, crashes, faults>>

-----------------------------------------------------------------------------
\* The recovery worker.

Worker(pc) == mode = "recovery" /\ wk = pc

workRest == <<mode, webVars, appVars, trusted, crashes>>

\* The worker reads guard and manifest once; a guard that cannot be read counts
\* as not armed.
WorkerStart ==
  /\ Worker("start")
  /\ \/ wg' = guard /\ UNCHANGED faults
     \/ ReadFaults /\ wg' = NoGuard /\ FaultOccurs
  /\ LET rollback == wg'.armed /\ wg'.state = "rollback_pending"
     IN  /\ wm' = IF rollback /\ manifest.state = "absent"
                  THEN [manifest EXCEPT !.state = "rollback_pending",
                                        !.backup = wg'.backup]
                  ELSE manifest
         /\ wk' = IF rollback THEN "rb_begin"
                  ELSE IF manifest.state = "pending_install" THEN "sign"
                  ELSE IF HasDescription THEN "countdown" ELSE "idle"
         /\ onFail' = IF rollback THEN "idle" ELSE "fallback"
  /\ UNCHANGED <<flashVars, savedVars, src, prior, workRest>>

\* A step that only stores the worker's manifest in a new state.
MarkManifest(pc, state, next, failed) ==
  /\ Worker(pc)
  /\ wm' = [wm EXCEPT !.state = state]
  /\ \E ok \in BOOLEAN :
       WriteManifest(wm', ok) /\ wk' = IF ok THEN next ELSE failed
  /\ UNCHANGED <<flashVars, guard, wg, onFail, src, prior, workRest>>

\* restore_backup_and_boot.
RollbackPath == IF wg.backup # NoFile THEN wg.backup ELSE wm.backup

\* Withdraws the request before the image is back.
BugRollbackBegin ==
  /\ Worker("rb_begin") /\ RollbackPath # NoFile
  /\ wm' = [wm EXCEPT !.state = "rolling_back", !.backup = RollbackPath]
  /\ \E ok \in BOOLEAN : WriteManifest(wm', ok)
  /\ wk' = "rb_erase" /\ guard' = NoGuard
  /\ UNCHANGED <<flashVars, wg, onFail, src, prior, workRest>>

RollbackBegin ==
  /\ Worker("rb_begin")
  /\ IF RollbackPath = NoFile
     THEN wk' = onFail /\ UNCHANGED <<wm, manifest, faults>>
     ELSE /\ wm' = [wm EXCEPT !.state = "rolling_back", !.backup = RollbackPath]
          /\ \E ok \in BOOLEAN : WriteManifest(wm', ok)
          /\ wk' = "rb_erase"
  /\ UNCHANGED <<flashVars, guard, wg, onFail, src, prior, workRest>>

RestoreErase ==
  /\ Worker("rb_erase")
  /\ \/ /\ backup[wm.backup] # NoFile
        /\ app0' = Blank /\ wk' = "rb_write" /\ UNCHANGED faults
     \/ backup[wm.backup] = NoFile /\ wk' = "rb_failed" /\ UNCHANGED <<app0, faults>>
     \/ FaultOccurs /\ app0' \in {app0, Blank} /\ wk' = "rb_failed"
  /\ UNCHANGED <<bootSel, files, backup, savedVars, wm, wg, onFail, src, prior, workRest>>

RestoreWrite ==
  /\ Worker("rb_write")
  /\ \/ /\ app0' = IF backup[wm.backup] = Blank THEN Blank ELSE Torn
        /\ wk' = "rb_finish" /\ UNCHANGED faults
     \/ FaultOccurs /\ wk' = "rb_failed" /\ UNCHANGED app0
  /\ UNCHANGED <<bootSel, files, backup, savedVars, wm, wg, onFail, src, prior, workRest>>

RestoreFinish ==
  /\ Worker("rb_finish")
  /\ \/ /\ app0' = backup[wm.backup] /\ UNCHANGED faults
        /\ wk' = IF app0' = Blank THEN "rb_failed" ELSE "rb_disarm"
     \/ FaultOccurs /\ wk' = "rb_failed" /\ UNCHANGED app0
  /\ UNCHANGED <<bootSel, files, backup, savedVars, wm, wg, onFail, src, prior, workRest>>

RollbackFailed == MarkManifest("rb_failed", "rollback_pending", onFail, onFail)

\* Both results are ignored: persist_guard of the disarmed guard, clear_guard.
Disarm(pc, g, next) ==
  /\ Worker(pc)
  /\ wg' = g
  /\ \E ok \in BOOLEAN : WriteGuard(IF pc = "rb_clear" THEN NoGuard ELSE g, ok)
  /\ wk' = next
  /\ UNCHANGED <<flashVars, manifest, wm, onFail, src, prior, workRest>>

DisarmedGuard == [wg EXCEPT !.armed = FALSE, !.state = "rolled_back", !.count = 0]
RollbackDisarm == Disarm("rb_disarm", DisarmedGuard, "rb_clear")
RollbackClear == Disarm("rb_clear", wg, "rb_done")
RollbackDone == MarkManifest("rb_done", "rolled_back", "boot", "boot")

\* boot_partition_and_restart(app0): the restart follows 200 ms later.
SelectApp0(pc, failed) ==
  /\ Worker(pc)
  /\ \/ Bootable /\ bootSel' = "app0" /\ wk' = "restart" /\ UNCHANGED faults
     \/ ~Bootable /\ wk' = failed /\ UNCHANGED <<bootSel, faults>>
     \/ FaultOccurs /\ wk' = failed /\ UNCHANGED bootSel
  /\ UNCHANGED <<app0, files, backup, savedVars, wm, wg, onFail, src, prior, workRest>>

BootApp0 == SelectApp0("boot", onFail)

WorkerRestart ==
  /\ Worker("restart") /\ Restart
  /\ UNCHANGED <<flashVars, savedVars, prior, trusted, crashes, faults>>

\* handle_pending_install.
SignatureVerifies == SameKey \/ wm.by = "recovery"

RejectSignature ==
  ~SignatureVerifies /\ MarkManifest("sign", "signature_rejected", "fallback", "fallback")
\* Installs without a backup.
BugAcceptInstall ==
  SignatureVerifies /\ MarkManifest("sign", "installing", "begin", "fallback")

AcceptInstall ==
  SignatureVerifies /\ MarkManifest("sign", "installing", "copy_open", "fallback")

\* copy_partition_to_file: fopen("wb") empties an older backup of the version.
BackupOpen ==
  /\ Worker("copy_open")
  /\ wm' = IF wm.backup = NoFile THEN [wm EXCEPT !.backup = wm.target] ELSE wm
  /\ \/ /\ backup' = [backup EXCEPT ![wm'.backup] = Blank]
        /\ prior' = app0 /\ wk' = "copy" /\ UNCHANGED faults
     \/ FaultOccurs /\ wk' = "copy_failed" /\ UNCHANGED <<backup, prior>>
  /\ UNCHANGED <<bootSel, app0, files, savedVars, wg, onFail, src, workRest>>

BackupCopy ==
  /\ Worker("copy")
  /\ \/ /\ backup' = [backup EXCEPT ![wm.backup] = app0]
        /\ wk' = "mark_copied" /\ UNCHANGED faults
     \/ /\ FaultOccurs /\ wk' = "copy_failed"
        /\ backup' \in {backup, [backup EXCEPT ![wm.backup] = Torn]}
     \/ SilentClose /\ FaultOccurs /\ wk' = "mark_copied" /\ UNCHANGED backup
  /\ UNCHANGED <<bootSel, app0, files, savedVars, wm, wg, onFail, src, prior, workRest>>

BackupFailed == MarkManifest("copy_failed", "failed", "fallback", "fallback")
\* Goes on without storing the path of the backup.
BugMarkCopied ==
  /\ Worker("mark_copied") /\ wk' = "begin"
  /\ UNCHANGED <<flashVars, savedVars, wm, wg, onFail, src, prior, faults, workRest>>

MarkCopied == MarkManifest("mark_copied", "installing", "begin", "fallback")

\* install_file_to_partition: esp_ota_begin erases app0, the first chunk makes
\* its description readable, the digest is compared after the last one.
InstallBegin ==
  /\ Worker("begin")
  /\ \/ files[wm.target] = NoFile /\ wk' = "fail_arm" /\ UNCHANGED <<app0, src, faults>>
     \/ /\ files[wm.target] # NoFile
        /\ src' = files[wm.target] /\ app0' = Blank /\ wk' = "write" /\ UNCHANGED faults
     \/ FaultOccurs /\ app0' \in {app0, Blank} /\ wk' = "fail_arm" /\ UNCHANGED src
  /\ UNCHANGED <<bootSel, files, backup, savedVars, wm, wg, onFail, prior, workRest>>

InstallWrite ==
  /\ Worker("write")
  /\ \/ src = Blank /\ wk' = "fail_arm" /\ UNCHANGED <<app0, faults>>
     \/ src # Blank /\ app0' = Torn /\ wk' = "finish" /\ UNCHANGED faults
     \/ FaultOccurs /\ wk' = "fail_arm" /\ UNCHANGED app0
  /\ UNCHANGED <<bootSel, files, backup, savedVars, wm, wg, onFail, src, prior, workRest>>

InstallFinish ==
  /\ Worker("finish")
  /\ \/ /\ app0' = src /\ UNCHANGED faults
        /\ wk' = IF src \in Images /\ src = wm.digest THEN "arm" ELSE "fail_arm"
     \/ FaultOccurs /\ wk' = "fail_arm" /\ UNCHANGED app0
  /\ UNCHANGED <<bootSel, files, backup, savedVars, wm, wg, onFail, src, prior, workRest>>

\* The guard of an installed image, or of one to be rolled back.
ArmedGuard(state) ==
  [armed |-> TRUE, state |-> state, backup |-> wm.backup, count |-> 0]

ArmGuard(pc, state, next, failed) ==
  /\ Worker(pc)
  /\ wg' = ArmedGuard(state)
  /\ \E ok \in BOOLEAN : WriteGuard(wg', ok) /\ wk' = IF ok THEN next ELSE failed
  /\ UNCHANGED <<flashVars, manifest, wm, onFail, src, prior, workRest>>

InstallFailed == ArmGuard("fail_arm", "rollback_pending", "fail_mark", "fail_mark")
MarkRollback == MarkManifest("fail_mark", "rollback_pending", "rb_begin", "rb_begin")
\* Leaves the boot guard as it was.
BugArmHealthcheck ==
  /\ Worker("arm") /\ wk' = "mark_health"
  /\ UNCHANGED <<flashVars, savedVars, wm, wg, onFail, src, prior, faults, workRest>>
ArmHealthcheck == ArmGuard("arm", "pending_healthcheck", "mark_health", "arm_failed")
ArmFailed == MarkManifest("arm_failed", "failed", "fallback", "fallback")
MarkHealthcheck == MarkManifest("mark_health", "pending_healthcheck", "boot", "fallback")

\* recovery_worker_task after handle_pending_install returned false.
Fallback == SelectApp0("fallback", "idle")

\* The countdown ends in idle_forever as soon as a client was seen.
AutobootPaused ==
  /\ Worker("countdown") /\ seen /\ wk' = "idle"
  /\ UNCHANGED <<flashVars, savedVars, wm, wg, onFail, src, prior, faults, workRest>>
Autoboot == ~seen /\ SelectApp0("countdown", "idle")

WorkerNext ==
  \/ WorkerStart \/ RollbackBegin \/ RestoreErase \/ RestoreWrite \/ RestoreFinish
  \/ RollbackFailed \/ RollbackDisarm \/ RollbackClear \/ RollbackDone \/ BootApp0
  \/ WorkerRestart \/ RejectSignature \/ AcceptInstall \/ BackupOpen \/ BackupCopy
  \/ BackupFailed \/ MarkCopied \/ InstallBegin \/ InstallWrite \/ InstallFinish
  \/ InstallFailed \/ MarkRollback \/ ArmHealthcheck \/ ArmFailed \/ MarkHealthcheck
  \/ Fallback \/ AutobootPaused \/ Autoboot

-----------------------------------------------------------------------------
\* Staging, by the portal (`web') or by update-system in the application (`sh').

\* Stores the path in place of the digest.
BugStagedManifest(r, by) ==
  [state |-> "pending_install", target |-> r.file, backup |-> NoFile,
   digest |-> r.file, by |-> by]

StagedManifest(r, by) ==
  [state |-> "pending_install", target |-> r.file, backup |-> NoFile,
   digest |-> r.digest, by |-> by]

\* The portal's handlers run in one httpd task, next to the worker.
WebAllowed ==
  /\ mode = "recovery" /\ web.pc = "free"
  /\ IF wk = "idle" \/ wk = "countdown" THEN "idle" \in OperatorAt
     ELSE wk # "start" /\ "busy" \in OperatorAt

webRest == <<app0, backup, mode, workVars, appVars, prior, trusted, crashes>>

\* install_file_handler.
WebHash(f) ==
  /\ WebAllowed /\ files[f] # NoFile
  /\ web' = [pc |-> "clear", file |-> f, digest |-> files[f], opt |-> "reboot"]
  /\ seen' = TRUE
  /\ UNCHANGED <<bootSel, files, savedVars, faults, webRest>>

WebClear ==
  /\ web.pc = "clear"
  /\ \E ok \in BOOLEAN :
       /\ WriteGuard(NoGuard, ok)
       /\ web' = IF ok THEN [web EXCEPT !.pc = "save"] ELSE NoRequest
  /\ UNCHANGED <<bootSel, files, manifest, seen, webRest>>

WebSave ==
  /\ web.pc = "save"
  /\ \E ok \in BOOLEAN :
       /\ WriteManifest(StagedManifest(web, "recovery"), ok)
       /\ web' = IF ok THEN [web EXCEPT !.pc = "select"] ELSE NoRequest
  /\ UNCHANGED <<bootSel, files, guard, seen, webRest>>

\* reboot_handler, with or without target=app0, and the selection at the end of an install
\* request, which does not ask whether it was stored; esp_restart follows 250 ms later.
WebSelect ==
  /\ \/ /\ web.pc = "select" /\ web' = [web EXCEPT !.pc = "restart"] /\ UNCHANGED seen
        /\ \/ bootSel' = "recovery" /\ UNCHANGED faults
           \/ FaultOccurs /\ UNCHANGED bootSel
     \/ /\ WebAllowed /\ seen' = TRUE
        /\ (Bootable /\ bootSel' = "app0") \/ UNCHANGED bootSel
        /\ web' = [NoRequest EXCEPT !.pc = "restart"] /\ UNCHANGED faults
     \/ /\ WebAllowed /\ seen' = TRUE
        /\ Bootable /\ FaultOccurs /\ UNCHANGED <<bootSel, web>>
  /\ UNCHANGED <<files, savedVars, webRest>>

WebRestart ==
  /\ web.pc = "restart" /\ Restart
  /\ UNCHANGED <<flashVars, savedVars, prior, trusted, crashes, faults>>

\* files_upload_handler, or the file manager of the application.  A file that
\* the installer is reading loses its blocks.
Upload(f, c) ==
  /\ WebAllowed \/ (mode = "app" /\ apc = "loop")
  /\ files' = [files EXCEPT ![f] = c]
  /\ seen' = (seen \/ mode = "recovery")
  /\ src' = IF wk \in {"write", "finish"} /\ wm.target = f THEN Torn ELSE src
  /\ UNCHANGED <<bootSel, app0, backup, savedVars, mode, wk, wm, wg, onFail, web,
                 appVars, prior, trusted, crashes, faults>>

\* files_delete_handler; an open file cannot be removed.
WebDelete(f) ==
  /\ WebAllowed /\ files[f] # NoFile
  /\ ~(wk \in {"write", "finish"} /\ wm.target = f)
  /\ files' = [files EXCEPT ![f] = NoFile] /\ seen' = TRUE
  /\ UNCHANGED <<bootSel, savedVars, web, faults, webRest>>

\* shell_cmd_update_system.
shellRest == <<app0, files, backup, mode, workVars, webVars, apc, mon, gg, elapsed,
               am, prior, trusted, crashes>>

ShellHash(f, opt) ==
  /\ mode = "app" /\ apc \notin {"guard", "over", "over_boot", "init"}
  /\ sh.pc = "free" /\ files[f] # NoFile /\ (mon => StageInTrial)
  /\ sh' = [pc |-> "clear", file |-> f, digest |-> files[f], opt |-> opt]
  /\ UNCHANGED <<bootSel, savedVars, faults, shellRest>>

\* Leaves an earlier boot guard in place.
BugShellClear ==
  /\ sh.pc = "clear" /\ sh' = [sh EXCEPT !.pc = "save"]
  /\ UNCHANGED <<bootSel, savedVars, faults, shellRest>>

ShellClear ==
  /\ sh.pc = "clear"
  /\ \E ok \in BOOLEAN :
       /\ WriteGuard(NoGuard, ok)
       /\ sh' = IF ok THEN [sh EXCEPT !.pc = "save"] ELSE NoRequest
  /\ UNCHANGED <<bootSel, manifest, shellRest>>

ShellSave ==
  /\ sh.pc = "save"
  /\ \E ok \in BOOLEAN :
       /\ WriteManifest(StagedManifest(sh, "app"), ok)
       /\ sh' = IF ok /\ sh.opt # "prepare-only" THEN [sh EXCEPT !.pc = "select"]
                ELSE NoRequest
  /\ UNCHANGED <<bootSel, guard, shellRest>>

ShellSelect ==
  /\ sh.pc = "select"
  /\ \/ /\ RecoveryValid /\ bootSel' = "recovery" /\ UNCHANGED faults
        /\ sh' = IF sh.opt = "reboot" THEN [sh EXCEPT !.pc = "restart"] ELSE NoRequest
     \/ ~RecoveryValid /\ sh' = NoRequest /\ UNCHANGED <<bootSel, faults>>
     \/ RecoveryValid /\ FaultOccurs /\ sh' = NoRequest /\ UNCHANGED bootSel
  /\ UNCHANGED <<savedVars, shellRest>>

ShellRestart ==
  /\ sh.pc = "restart" /\ Restart
  /\ UNCHANGED <<flashVars, savedVars, prior, trusted, crashes, faults>>

StagingNext ==
  \/ \E f \in Files : WebHash(f) \/ WebDelete(f)
  \/ WebClear \/ WebSave \/ WebSelect \/ WebRestart
  \/ \E f \in Files, c \in Uploads : Upload(f, c)
  \/ \E f \in Files, opt \in ShellOptions : ShellHash(f, opt)
  \/ ShellClear \/ ShellSave \/ ShellSelect \/ ShellRestart

-----------------------------------------------------------------------------
\* The application: boot guard, health window, confirmation or rollback.

App(pc) == mode = "app" /\ apc = pc
appRest == <<files, backup, app0, workVars, webVars, prior, trusted, crashes>>

\* update_runtime_boot_guard, first half: count this boot.
InTrial == guard.armed /\ guard.state = "pending_healthcheck"
\* A boot that is not counted, and a limit that is off by one.
BugCountedGuard == guard
BugTooManyBoots(g) == g.count > MaxBoots + 1
CountedGuard == [guard EXCEPT !.count = @ + 1]
TooManyBoots(g) == g.count > MaxBoots

BootGuard ==
  /\ App("guard")
  /\ \/ /\ InTrial
        /\ \E ok \in BOOLEAN :
             /\ WriteGuard(CountedGuard, ok)
             /\ mon' = ok /\ gg' = IF ok THEN CountedGuard ELSE NoGuard
             /\ apc' = IF ok /\ TooManyBoots(CountedGuard) THEN "over" ELSE "init"
     \/ /\ ~InTrial
        /\ apc' = "init" /\ UNCHANGED <<guard, mon, gg, faults>>
     \/ FaultOccurs /\ apc' = "init" /\ UNCHANGED <<guard, mon, gg>>
  /\ UNCHANGED <<bootSel, manifest, mode, elapsed, am, sh, appRest>>

\* Store g_guard as rollback_pending; a failed store is only logged.
RollbackGuard == [gg EXCEPT !.armed = TRUE, !.state = "rollback_pending"]

ArmRollback(pc, next) ==
  /\ App(pc)
  /\ gg' = RollbackGuard
  /\ \E ok \in BOOLEAN : WriteGuard(gg', ok)
  /\ apc' = next
  /\ UNCHANGED <<bootSel, manifest, mode, mon, elapsed, am, sh, appRest>>

\* Select recovery and restart, or go on without.
BootRecovery(pc, failed) ==
  /\ App(pc)
  /\ \/ /\ RecoveryValid /\ bootSel' = "recovery" /\ Restart
        /\ UNCHANGED <<app0, files, backup, savedVars, prior, trusted, crashes, faults>>
     \/ /\ (~RecoveryValid /\ UNCHANGED faults) \/ FaultOccurs
        /\ apc' = failed
        /\ UNCHANGED <<bootSel, savedVars, mode, mon, gg, elapsed, am, sh, appRest>>

BootLimit == ArmRollback("over", "over_boot")
BootLimitRestart == BootRecovery("over_boot", "init")

\* app_init: ends in update_runtime_mark_app_ready, or in a reset, or never.
AppInit ==
  /\ App("init")
  /\ \/ /\ app0 \notin CrashLooping \cup Stalling
        /\ apc' = "loop"
        /\ UNCHANGED <<flashVars, savedVars, mode, workVars, webVars, mon, gg,
                       elapsed, am, sh, prior, trusted, crashes, faults>>
     \/ /\ app0 \in CrashLooping /\ Restart
        /\ UNCHANGED <<flashVars, savedVars, prior, trusted, crashes, faults>>

\* One update_runtime_process, d units after the one before.
StorageReady == app0 \in Healthy

Process(d) ==
  /\ App("loop") /\ mon
  /\ elapsed' = IF elapsed + d > ConfirmTimeout THEN ConfirmTimeout ELSE elapsed + d
  /\ apc' = IF ConfirmTimeout > 0 /\ elapsed' >= ConfirmTimeout THEN "to_save"
            ELSE IF elapsed' >= ConfirmDelay /\ StorageReady THEN "cf_clear"
            ELSE "loop"
  /\ UNCHANGED <<bootSel, savedVars, mode, mon, gg, am, sh, faults, appRest>>

\* update_manifest_state_if_possible: read the manifest, write it back.
ManifestLoad(pc, state, next, skip) ==
  /\ App(pc)
  /\ IF StorageReady /\ manifest.state # "absent"
     THEN am' = [manifest EXCEPT !.state = state] /\ apc' = next
     ELSE apc' = skip /\ UNCHANGED am
  /\ UNCHANGED <<bootSel, savedVars, mode, mon, gg, elapsed, sh, faults, appRest>>

Confirmed == mon' = FALSE /\ gg' = NoGuard /\ elapsed' = 0

HealthTimeout == ArmRollback("to_save", "to_load")
TimeoutLoad == ManifestLoad("to_load", "rollback_pending", "to_write", "to_boot")
TimeoutWrite ==
  /\ App("to_write")
  /\ \E ok \in BOOLEAN : WriteManifest(am, ok)
  /\ apc' = "to_boot" /\ am' = NoManifest
  /\ UNCHANGED <<bootSel, guard, mode, mon, gg, elapsed, sh, appRest>>
TimeoutRestart == BootRecovery("to_boot", "loop")

ConfirmClear ==
  /\ App("cf_clear")
  /\ \E ok \in BOOLEAN :
       /\ WriteGuard(NoGuard, ok)
       /\ apc' = IF ok THEN "cf_load" ELSE "loop"
       /\ trusted' = IF ok THEN app0 ELSE trusted
  /\ UNCHANGED <<flashVars, manifest, mode, workVars, webVars, mon, gg, elapsed, am,
                 sh, prior, crashes>>
ConfirmLoad == ManifestLoad("cf_load", "confirmed", "cf_write", "cf_write")
ConfirmWrite ==
  /\ App("cf_write")
  /\ IF am.state = "absent" THEN UNCHANGED <<manifest, faults>>
     ELSE \E ok \in BOOLEAN : WriteManifest(am, ok)
  /\ apc' = "loop" /\ am' = NoManifest /\ Confirmed
  /\ UNCHANGED <<bootSel, guard, mode, sh, appRest>>

AppNext ==
  \/ BootGuard \/ BootLimit \/ BootLimitRestart \/ AppInit
  \/ \E d \in 1..MaxStall : Process(d)
  \/ HealthTimeout \/ TimeoutLoad \/ TimeoutWrite \/ TimeoutRestart
  \/ ConfirmClear \/ ConfirmLoad \/ ConfirmWrite

-----------------------------------------------------------------------------
\* A reset at any point.  A write that was under way is left unfinished.

\* The guard writes that a reset can cut short.
GuardWrite(g) ==
  \/ /\ g = NoGuard
     /\ web.pc = "clear" \/ sh.pc = "clear" \/ wk = "rb_clear" \/ apc = "cf_clear"
  \/ wk = "fail_arm" /\ g = ArmedGuard("rollback_pending")
  \/ wk = "arm" /\ g = ArmedGuard("pending_healthcheck")
  \/ wk = "rb_disarm" /\ g = DisarmedGuard
  \/ apc \in {"over", "to_save"} /\ g = RollbackGuard
ManifestUnderWrite ==
  \/ web.pc = "save" \/ sh.pc = "save" \/ apc \in {"to_write", "cf_write"}
  \/ wk \in {"rb_begin", "rb_failed", "rb_done", "sign", "copy_failed",
             "mark_copied", "fail_mark", "arm_failed", "mark_health"}

Crash ==
  /\ mode \in {"app", "recovery"} /\ crashes < MaxCrashes
  /\ crashes' = crashes + 1
  /\ \/ UNCHANGED guard
     \/ \E g \in {NoGuard, ArmedGuard("rollback_pending"), DisarmedGuard,
                ArmedGuard("pending_healthcheck"), RollbackGuard} :
          GuardWrite(g) /\ guard' \in GuardPrefixes(guard, g)
  /\ manifest' \in {manifest} \cup (IF ManifestUnderWrite THEN {NoManifest} ELSE {})
  /\ Restart
  /\ UNCHANGED <<flashVars, prior, trusted, faults>>

\* A reset the operator asks for while nothing is pending.
AppReboot ==
  /\ App("loop") /\ sh.pc = "free" /\ Restart
  /\ UNCHANGED <<flashVars, savedVars, prior, trusted, crashes, faults>>

-----------------------------------------------------------------------------
\* With otadata blank the bootloader takes the factory partition: app0 in
\* partitions.csv, recovery in the tables of the smaller boards.
Init ==
  /\ bootSel \in {"app0", "recovery"} /\ app0 = Factory
  /\ files = [f \in Files |-> NoFile] /\ backup = [f \in Files |-> NoFile]
  /\ manifest = NoManifest /\ guard = NoGuard
  /\ mode = "reset" /\ wk = "off" /\ wm = NoManifest /\ wg = NoGuard
  /\ onFail = "idle" /\ src = Blank /\ web = NoRequest /\ seen = FALSE
  /\ apc = "off" /\ mon = FALSE /\ gg = NoGuard /\ elapsed = 0
  /\ am = NoManifest /\ sh = NoRequest
  /\ prior = Factory /\ trusted = Factory /\ crashes = 0 /\ faults = 0

Next == Boot \/ WorkerNext \/ StagingNext \/ AppNext \/ Crash \/ AppReboot

Spec == Init /\ [][Next]_vars

\* Every task that is not blocked runs again: FreeRTOS gives the worker, the
\* httpd task, the main loop and a shell command in progress CPU time.
FairSpec ==
  /\ Spec
  /\ WF_vars(Boot) /\ WF_vars(WorkerNext) /\ WF_vars(AppNext)
  /\ WF_vars(WebClear \/ WebSave \/ (web.pc = "select" /\ WebSelect) \/ WebRestart)
  /\ WF_vars(ShellClear \/ ShellSave \/ ShellSelect \/ ShellRestart)

RollbackArmed == guard.armed /\ guard.state = "rollback_pending"
EffectiveBackup == IF guard.backup # NoFile THEN guard.backup ELSE manifest.backup
=============================================================================
