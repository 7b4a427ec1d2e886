------------------------- MODULE UpdateBackupProofs -------------------------
(***************************************************************************)
(* Theorems about the backup that a rollback restores, for any number of   *)
(* images, files, power losses and failed operations: the boot guard names *)
(* the complete copy of what app0 held when the last install began, an     *)
(* armed rollback finds it, and app0 is erased only next to it.            *)
(***************************************************************************)
EXTENDS UpdateProofs

\* The setting in which it holds: nobody uses the portal while the worker is
\* busy, update-system does not run during a trial, the guard can be read, and
\* fclose reports what it could not write.
Undisturbed ==
  "busy" \notin OperatorAt /\ ~StageInTrial /\ ~ReadFaults /\ ~SilentClose

Cleared == ~guard.armed /\ guard.backup = NoFile

\* Each program keeps its state only while it runs, and a request of the portal
\* or of update-system is served only while the worker waits, or no trial is on.
ProgramsApart ==
  /\ mode # "recovery" => wk = "off" /\ web.pc = "free"
  /\ mode # "app" => apc = "off" /\ sh.pc = "free" /\ ~mon /\ gg = NoGuard
  /\ mode = "app" => apc # "off"
  /\ apc = "guard" => ~mon
  /\ web.pc # "free" => wk \in {"idle", "countdown", "restart"}
  /\ sh.pc # "free" => apc = "loop" /\ ~mon
  /\ apc \in {"over", "over_boot", "to_save", "to_load", "to_write", "to_boot",
              "cf_clear", "cf_load", "cf_write"} => mon

\* An install is staged, and then carried out, under a cleared guard; no trial
\* is under way while an install is staged.
StagedCleared ==
  /\ Staged \/ web.pc = "save" \/ sh.pc = "save" => Cleared
  /\ wk \in {"sign", "copy_open", "copy", "copy_failed", "mark_copied", "begin",
             "write", "finish", "fail_arm", "arm"} => Cleared
  /\ mon => ~Staged
  /\ Staged => wk \in {"off", "start", "sign", "idle", "countdown", "restart", "fallback"}

\* Every copy of a guard, not only the stored one, names the copy of what app0
\* held; while that copy is being replaced, no guard names it.
CopiesName ==
  /\ wk = "copy" => prior = app0
  /\ wk \in {"mark_copied", "begin", "write", "finish", "fail_arm", "arm"}
       => backup[wm.backup] = prior
  /\ wg.backup # NoFile => backup[wg.backup] = prior
  /\ wk \in {"sign", "copy_open", "copy"} => wg.backup = NoFile
  /\ gg.backup # NoFile => backup[gg.backup] = prior

GuardInv == ProgramsApart /\ StagedCleared /\ CopiesName /\ GuardBackup
BackupInv == TypeInv /\ GuardInv

LEMMA InitBackup == Init => BackupInv
<1> SUFFICES ASSUME Init PROVE BackupInv
  OBVIOUS
<1>1. GuardInv
  BY DEF Init, GuardInv, ProgramsApart, StagedCleared, CopiesName, GuardBackup, Staged,
         Cleared, NoGuard, NoManifest, NoRequest
<1>2. QED
  BY <1>1, InitTyped DEF BackupInv

LEMMA StutterBackup == GuardInv /\ UNCHANGED vars => GuardInv'
BY DEF GuardInv, ProgramsApart, StagedCleared, CopiesName, GuardBackup, Staged, Cleared,
       vars, flashVars, savedVars, workVars, webVars, appVars

LEMMA BootBackup == BackupInv /\ Boot => GuardInv'
BY DEF BackupInv, GuardInv, ProgramsApart, StagedCleared, CopiesName, GuardBackup, Staged,
       Cleared, Boot, flashVars, savedVars, webVars

\* A reset, whatever it leaves of the writes it cut short.
LEMMA ResetBackup ==
  ASSUME BackupInv, Restart, manifest' \in {manifest, NoManifest},
         Staged => ~guard'.armed /\ guard'.backup = NoFile,
         guard'.backup # NoFile => backup[guard'.backup] = prior,
         UNCHANGED <<backup, prior>>
  PROVE  GuardInv'
<1>1. ProgramsApart'
  BY DEF ProgramsApart, Restart, NoRequest
<1>2. StagedCleared'
  BY DEF StagedCleared, Staged, Cleared, Restart, NoManifest, NoRequest
<1>3. CopiesName'
  BY DEF CopiesName, Restart, NoGuard
<1>4. GuardBackup'
  BY DEF GuardBackup
<1>5. QED
  BY <1>1, <1>2, <1>3, <1>4 DEF GuardInv

-----------------------------------------------------------------------------
\* The worker.

\* A step that only stores the worker's manifest.
LEMMA MarkBackup ==
  ASSUME Undisturbed, BackupInv,
         \/ RollbackFailed \/ RollbackDone \/ RejectSignature \/ AcceptInstall
         \/ BackupFailed \/ MarkCopied \/ MarkRollback \/ ArmFailed \/ MarkHealthcheck
  PROVE  GuardInv'
<1> DEFINE Frame(pc, nexts) ==
      /\ mode = "recovery" /\ wk = pc /\ wk' \in nexts
      /\ manifest' \in {manifest, wm', NoManifest}
      /\ wm'.state # "pending_install" /\ wm'.backup = wm.backup
      /\ UNCHANGED <<backup, guard, wg, prior, mode, web, apc, mon, gg, sh>>
<1> USE DEF BackupInv, GuardInv, ProgramsApart, StagedCleared, CopiesName, GuardBackup,
        Staged, Cleared, NoManifest
<1>1. onFail \in {"idle", "fallback"} /\ TypeInv
  BY DEF BackupInv, TypeInv, TypeOK
<1>2. ASSUME NEW pc \in {"rb_failed", "rb_done", "copy_failed", "fail_mark", "arm_failed",
                        "mark_health"},
             Frame(pc, {"idle", "fallback", "boot", "rb_begin"})
      PROVE  GuardInv'
  <2>1. pc # "sign" /\ pc # "restart" /\ ~Staged /\ web.pc = "free"
    BY <1>2
  <2>2. ProgramsApart'
    BY <1>2, <2>1
  <2>3. StagedCleared'
    BY <1>2, <2>1
  <2>4. CopiesName' /\ GuardBackup'
    BY <1>2
  <2>5. QED
    BY <2>2, <2>3, <2>4
<1>3. ASSUME Frame("sign", {"copy_open", "fallback"}), wk' = "copy_open" => ~Staged'
      PROVE  GuardInv'
  <2>1. ProgramsApart'
    BY <1>3
  <2>2. StagedCleared'
    BY <1>3
  <2>3. CopiesName' /\ GuardBackup'
    BY <1>3
  <2>4. QED
    BY <2>1, <2>2, <2>3
<1>4. ASSUME Frame("mark_copied", {"begin", "fallback"}) PROVE GuardInv'
  BY <1>4
<1>5. ASSUME NEW pc, NEW state, NEW next, NEW failed, MarkManifest(pc, state, next, failed),
             state \in ManifestStates \ {"pending_install"}, next \in WorkerPCs,
             failed \in WorkerPCs
      PROVE  Frame(pc, {next, failed})
  BY <1>1, <1>5, MarkManifestTyped
  DEF MarkManifest, Worker, flashVars, workRest, webVars, appVars
<1>6. CASE RollbackFailed
  <2>1. Frame("rb_failed", {onFail, onFail})
    BY <1>1, <1>5, <1>6 DEF RollbackFailed, ManifestStates, WorkerPCs
  <2>2. QED
    BY <1>1, <1>2, <2>1
<1>7. CASE RollbackDone
  <2>1. Frame("rb_done", {"boot", "boot"})
    BY <1>5, <1>7 DEF RollbackDone, ManifestStates, WorkerPCs
  <2>2. QED
    BY <1>2, <2>1
<1>8. CASE RejectSignature
  <2>1. Frame("sign", {"copy_open", "fallback"}) /\ wk' # "copy_open"
    BY <1>5, <1>8 DEF RejectSignature, ManifestStates, WorkerPCs
  <2>2. QED
    BY <1>3, <2>1
<1>9. CASE AcceptInstall
  <2>1. Frame("sign", {"copy_open", "fallback"})
    BY <1>5, <1>9 DEF AcceptInstall, ManifestStates, WorkerPCs
  <2>2. wk' = "copy_open" => ~Staged'
    <3>1. PICK ok \in BOOLEAN : /\ WriteManifest(wm', ok)
                               /\ wk' = IF ok THEN "copy_open" ELSE "fallback"
      BY <1>9 DEF AcceptInstall, MarkManifest
    <3>2. ok => manifest' \in {wm', NoManifest}
      BY <3>1 DEF WriteManifest
    <3>3. QED
      BY <2>1, <3>1, <3>2
  <2>3. QED
    BY <1>3, <2>1, <2>2
<1>10. CASE BackupFailed
  <2>1. Frame("copy_failed", {"fallback", "fallback"})
    BY <1>5, <1>10 DEF BackupFailed, ManifestStates, WorkerPCs
  <2>2. QED
    BY <1>2, <2>1
<1>11. CASE MarkCopied
  <2>1. Frame("mark_copied", {"begin", "fallback"})
    BY <1>5, <1>11 DEF MarkCopied, ManifestStates, WorkerPCs
  <2>2. QED
    BY <1>4, <2>1
<1>12. CASE MarkRollback
  <2>1. Frame("fail_mark", {"rb_begin", "rb_begin"})
    BY <1>5, <1>12 DEF MarkRollback, ManifestStates, WorkerPCs
  <2>2. QED
    BY <1>2, <2>1
<1>13. CASE ArmFailed
  <2>1. Frame("arm_failed", {"fallback", "fallback"})
    BY <1>5, <1>13 DEF ArmFailed, ManifestStates, WorkerPCs
  <2>2. QED
    BY <1>2, <2>1
<1>14. CASE MarkHealthcheck
  <2>1. Frame("mark_health", {"boot", "fallback"})
    BY <1>5, <1>14 DEF MarkHealthcheck, ManifestStates, WorkerPCs
  <2>2. QED
    BY <1>2, <2>1
<1>15. QED
  BY <1>6, <1>7, <1>8, <1>9, <1>10, <1>11, <1>12, <1>13, <1>14

LEMMA StartBackup == Undisturbed /\ BackupInv /\ WorkerStart => GuardInv'
<1> SUFFICES ASSUME Undisturbed, BackupInv, WorkerStart PROVE GuardInv'
  OBVIOUS
<1> USE DEF BackupInv, GuardInv, ProgramsApart, StagedCleared, CopiesName, GuardBackup
<1>1. /\ mode = "recovery" /\ wk = "start" /\ wg' = guard
      /\ wk' \in {"rb_begin", "sign", "countdown", "idle"}
      /\ wk' = "rb_begin" => guard.armed
      /\ wk' = "sign" => Staged
      /\ UNCHANGED <<backup, guard, manifest, mode, web, apc, mon, gg, sh, prior>>
  BY DEF WorkerStart, Worker, Undisturbed, Staged, flashVars, savedVars, workRest, webVars,
     appVars
<1>2. web.pc = "free"
  BY <1>1
<1>3. Staged => wk' # "rb_begin"
  BY <1>1 DEF Cleared
<1>4. QED
  BY <1>1, <1>2, <1>3 DEF Staged, Cleared

LEMMA RollbackBeginBackup == BackupInv /\ RollbackBegin => GuardInv'
<1> SUFFICES ASSUME BackupInv, RollbackBegin PROVE GuardInv'
  OBVIOUS
<1> USE DEF BackupInv, GuardInv, ProgramsApart, StagedCleared, CopiesName, GuardBackup
<1>1. onFail \in {"idle", "fallback"}
  BY DEF TypeInv, TypeOK
<1>2. /\ mode = "recovery" /\ wk = "rb_begin" /\ wk' \in {"idle", "fallback", "rb_erase"}
      /\ UNCHANGED <<backup, guard, wg, mode, web, apc, mon, gg, sh, prior>>
  BY <1>1 DEF RollbackBegin, Worker, flashVars, workRest, webVars, appVars
<1>3. ~Staged'
  <2>1. ~Staged
    BY <1>2
  <2>2. CASE UNCHANGED manifest
    BY <2>1, <2>2 DEF Staged
  <2>3. CASE /\ wm' = [wm EXCEPT !.state = "rolling_back", !.backup = RollbackPath]
             /\ \E ok \in BOOLEAN : WriteManifest(wm', ok)
    <3>1. wm'.state = "rolling_back"
      BY <2>3 DEF TypeInv, TypeOK, Manifests
    <3>2. manifest' \in {manifest, wm', NoManifest}
      BY <2>3 DEF WriteManifest
    <3>3. QED
      BY <2>1, <3>1, <3>2 DEF Staged, NoManifest
  <2>4. QED
    BY <2>2, <2>3 DEF RollbackBegin
<1>4. QED
  BY <1>2, <1>3 DEF Staged, Cleared

LEMMA FlashBackup ==
  ASSUME BackupInv,
         \/ RestoreErase \/ RestoreWrite \/ RestoreFinish
         \/ InstallBegin \/ InstallWrite \/ InstallFinish
  PROVE  GuardInv'
<1> USE DEF BackupInv, GuardInv, ProgramsApart, StagedCleared, CopiesName, GuardBackup
<1>1. UNCHANGED <<backup, manifest, guard, wm, wg, prior, mode, web, apc, mon, gg, sh>>
  BY DEF RestoreErase, RestoreWrite, RestoreFinish, InstallBegin, InstallWrite,
     InstallFinish, savedVars, workRest, webVars, appVars
<1>2. CASE /\ mode = "recovery" /\ wk \in {"rb_erase", "rb_write", "rb_finish"}
           /\ wk' \in {"rb_write", "rb_finish", "rb_failed", "rb_disarm"}
  BY <1>1, <1>2 DEF Staged, Cleared
<1>3. CASE /\ mode = "recovery" /\ wk \in {"begin", "write", "finish"}
           /\ wk' \in {"write", "finish", "fail_arm", "arm"}
  BY <1>1, <1>3 DEF Staged, Cleared
<1>4. QED
  BY <1>2, <1>3 DEF RestoreErase, RestoreWrite, RestoreFinish, InstallBegin, InstallWrite,
     InstallFinish, Worker

LEMMA DisarmBackup == BackupInv /\ (RollbackDisarm \/ RollbackClear) => GuardInv'
<1> SUFFICES ASSUME BackupInv, RollbackDisarm \/ RollbackClear PROVE GuardInv'
  OBVIOUS
<1> USE DEF BackupInv, GuardInv, ProgramsApart, StagedCleared, CopiesName, GuardBackup
<1>1. /\ DisarmedGuard \in Guards /\ DisarmedGuard.backup = wg.backup
      /\ NoGuard \in Guards /\ NoGuard.backup = NoFile
  BY NoRecordsTyped DEF DisarmedGuard, NoGuard, TypeInv, TypeOK, Guards, GuardStates
<1>2. /\ mode = "recovery" /\ wk \in {"rb_disarm", "rb_clear"} /\ wk' \in {"rb_clear", "rb_done"}
      /\ wg'.backup = wg.backup
      /\ UNCHANGED <<backup, manifest, wm, prior, mode, web, apc, mon, gg, sh>>
  BY <1>1 DEF RollbackDisarm, RollbackClear, Disarm, Worker, flashVars, workRest, webVars,
     appVars
<1>3. guard'.backup \in {guard.backup, wg.backup, NoFile}
  BY <1>1, WriteGuardTyped DEF RollbackDisarm, RollbackClear, Disarm, TypeInv, TypeOK
<1>4. QED
  BY <1>2, <1>3 DEF Staged, Cleared

LEMMA ArmBackup == BackupInv /\ (InstallFailed \/ ArmHealthcheck) => GuardInv'
<1> SUFFICES ASSUME BackupInv, InstallFailed \/ ArmHealthcheck PROVE GuardInv'
  OBVIOUS
<1> USE DEF BackupInv, GuardInv, ProgramsApart, StagedCleared, CopiesName, GuardBackup
<1>1. \A s \in GuardStates : ArmedGuard(s) \in Guards /\ ArmedGuard(s).backup = wm.backup
  BY DEF ArmedGuard, TypeInv, TypeOK, Guards, Manifests
<1>2. PICK ok \in BOOLEAN :
        /\ mode = "recovery" /\ wk \in {"fail_arm", "arm"}
        /\ wg' \in Guards /\ wg'.backup = wm.backup /\ WriteGuard(wg', ok)
        /\ wk' \in {"fail_mark", "mark_health", "arm_failed"}
        /\ UNCHANGED <<backup, manifest, wm, prior, mode, web, apc, mon, gg, sh>>
  BY <1>1 DEF InstallFailed, ArmHealthcheck, ArmGuard, Worker, GuardStates, flashVars,
     workRest, webVars, appVars
<1>3. guard'.backup \in {guard.backup, wm.backup}
  BY <1>2, WriteGuardTyped DEF TypeInv, TypeOK
<1>4. backup[wm.backup] = prior
  BY <1>2
<1>5. QED
  BY <1>2, <1>3, <1>4 DEF Staged, Cleared

\* Only copying app0 changes backups, under a cleared guard.
LEMMA CopyBackup == Undisturbed /\ BackupInv /\ (BackupOpen \/ BackupCopy) => GuardInv'
<1> SUFFICES ASSUME Undisturbed, BackupInv, BackupOpen \/ BackupCopy PROVE GuardInv'
  OBVIOUS
<1> USE DEF BackupInv, GuardInv, ProgramsApart, StagedCleared, CopiesName, GuardBackup
<1>1. /\ mode = "recovery" /\ wk \in {"copy_open", "copy"}
      /\ wk' \in {"copy", "copy_failed", "mark_copied"}
      /\ UNCHANGED <<manifest, guard, wg, mode, web, apc, mon, gg, sh>>
  BY DEF BackupOpen, BackupCopy, Worker, savedVars, workRest, webVars, appVars
<1>2. wk' = "mark_copied" => backup'[wm'.backup] = prior'
  <2>1. CASE BackupOpen
    BY <2>1 DEF BackupOpen
  <2>2. CASE BackupCopy /\ wk' = "mark_copied"
    <3>1. wk = "copy" /\ backup' = [backup EXCEPT ![wm.backup] = app0]
          /\ UNCHANGED <<wm, prior>>
      BY <2>2 DEF BackupCopy, Worker, Undisturbed
    <3>2. wm.backup \in Files /\ backup \in [Files -> Contents \cup {NoFile}]
      BY <3>1 DEF TypeInv, TypeOK, Consistent, Manifests, Paths
    <3>3. QED
      BY <3>1, <3>2
  <2>3. QED
    BY <2>1, <2>2
<1>3. gg.backup = NoFile /\ wg.backup = NoFile /\ Cleared /\ ~Staged
  <2>1. gg = NoGuard
    BY <1>1
  <2>2. wg.backup = NoFile /\ Cleared /\ ~Staged
    BY <1>1
  <2>3. QED
    BY <2>1, <2>2 DEF NoGuard
<1>4. wk' = "copy" => prior' = app0'
  BY DEF BackupOpen, BackupCopy
<1>5. web.pc = "free"
  BY <1>1
<1>6. ProgramsApart' /\ StagedCleared'
  BY <1>1, <1>3, <1>5 DEF Staged, Cleared
<1>7. CopiesName' /\ GuardBackup'
  BY <1>1, <1>2, <1>3, <1>4 DEF Cleared
<1>8. QED
  BY <1>6, <1>7

LEMMA SelectBackup ==
  BackupInv /\ (BootApp0 \/ Fallback \/ Autoboot \/ AutobootPaused) => GuardInv'
<1> SUFFICES ASSUME BackupInv, BootApp0 \/ Fallback \/ Autoboot \/ AutobootPaused
             PROVE  GuardInv'
  OBVIOUS
<1> USE DEF BackupInv, GuardInv, ProgramsApart, StagedCleared, CopiesName, GuardBackup
<1>1. onFail \in {"idle", "fallback"}
  BY DEF TypeInv, TypeOK
<1>2. /\ mode = "recovery"
      /\ \/ wk = "boot" /\ wk' \in {"restart", "idle", "fallback"}
         \/ wk \in {"fallback", "countdown"} /\ wk' \in {"restart", "idle"}
      /\ UNCHANGED <<backup, manifest, guard, wg, wm, prior, mode, web, apc, mon, gg, sh>>
  BY <1>1 DEF BootApp0, Fallback, Autoboot, AutobootPaused, SelectApp0, Worker, flashVars,
     savedVars, workRest, webVars, appVars
<1>3. QED
  BY <1>2 DEF Staged, Cleared

LEMMA WorkerBackup == Undisturbed /\ BackupInv /\ WorkerNext => GuardInv'
<1> SUFFICES ASSUME Undisturbed, BackupInv, WorkerNext PROVE GuardInv'
  OBVIOUS
<1>1. CASE WorkerRestart
  BY <1>1, ResetBackup DEF WorkerRestart, flashVars, savedVars, BackupInv, GuardInv,
     StagedCleared, Cleared, GuardBackup
<1>2. QED
  BY <1>1, StartBackup, RollbackBeginBackup, FlashBackup, MarkBackup, DisarmBackup,
     ArmBackup, CopyBackup, SelectBackup DEF WorkerNext

-----------------------------------------------------------------------------
\* Staging.

\* The portal is used only while the worker waits.
LEMMA WebWhileIdle ==
  ASSUME Undisturbed, WebAllowed
  PROVE  mode = "recovery" /\ web.pc = "free" /\ wk \in {"idle", "countdown"}
BY DEF Undisturbed, WebAllowed

LEMMA WebBackup ==
  ASSUME Undisturbed, BackupInv,
         (\E f \in Files : WebHash(f) \/ WebDelete(f)) \/ WebClear \/ WebSave \/ WebSelect
  PROVE  GuardInv'
<1> USE DEF BackupInv, GuardInv, ProgramsApart, StagedCleared, CopiesName, GuardBackup
<1>1. UNCHANGED <<app0, backup, mode, wk, wm, wg, apc, mon, gg, sh, prior>>
  BY DEF WebHash, WebDelete, WebClear, WebSave, WebSelect, webRest, workVars, appVars
<1>2. CASE /\ WebAllowed /\ UNCHANGED <<manifest, guard>>
           /\ web'.pc \in {"clear", "free", "restart"}
  BY <1>1, <1>2, WebWhileIdle DEF Staged, Cleared
<1>3. CASE WebClear
  <2>1. PICK ok \in BOOLEAN :
          WriteGuard(NoGuard, ok) /\ web' = IF ok THEN [web EXCEPT !.pc = "save"]
                                            ELSE NoRequest
    BY <1>3 DEF WebClear
  <2>2. /\ guard'.backup \in {guard.backup, NoFile} /\ guard'.armed \in {guard.armed, FALSE}
        /\ ok => guard' = NoGuard
    BY <2>1, NoRecordsTyped, WriteGuardTyped DEF TypeInv, TypeOK, NoGuard
  <2>3. Cleared => Cleared'
    BY <2>2 DEF Cleared
  <2>4. web'.pc \in {"save", "free"} /\ (web'.pc = "save" => Cleared')
    <3>1. ok => Cleared'
      <4>1. NoGuard.armed = FALSE /\ NoGuard.backup = NoFile
        BY DEF NoGuard
      <4>2. QED
        BY ONLY <2>2, <4>1 DEF Cleared
    <3>2. web'.pc = IF ok THEN "save" ELSE "free"
      BY <2>1 DEF TypeInv, TypeOK, Request, NoRequest
    <3>3. QED
      BY <3>1, <3>2
  <2>5. web.pc = "clear" /\ UNCHANGED manifest
    BY <1>3 DEF WebClear
  <2>6. ProgramsApart'
    BY <1>1, <2>4, <2>5
  <2>7. StagedCleared'
    BY <1>1, <2>3, <2>4, <2>5 DEF Staged
  <2>8. CopiesName'
    BY <1>1
  <2>9. GuardBackup'
    BY <1>1, <2>2
  <2>10. QED
    BY <2>6, <2>7, <2>8, <2>9
<1>4. CASE WebSave
  <2>1. /\ web.pc = "save" /\ UNCHANGED guard /\ web'.pc \in {"select", "free"}
    BY <1>4 DEF WebSave, TypeInv, TypeOK, Request, NoRequest
  <2>2. QED
    BY <1>1, <2>1 DEF Staged, Cleared
<1>5. CASE web.pc = "select" /\ web'.pc = "restart" /\ UNCHANGED <<manifest, guard>>
  BY <1>1, <1>5 DEF Staged, Cleared
<1>6. CASE \E f \in Files : WebHash(f) \/ WebDelete(f)
  BY <1>2, <1>6 DEF WebHash, WebDelete, WebAllowed, savedVars
<1>7. CASE WebSelect
  <2>1. UNCHANGED <<manifest, guard>>
    BY <1>7 DEF WebSelect, savedVars
  <2>2. \/ web.pc = "select" /\ web'.pc = "restart"
        \/ WebAllowed /\ web'.pc \in {"free", "restart"}
    BY <1>7 DEF WebSelect, WebAllowed, TypeInv, TypeOK, Request, NoRequest
  <2>3. QED
    BY <1>2, <1>5, <2>1, <2>2
<1>8. QED
  BY <1>3, <1>4, <1>6, <1>7

LEMMA UploadBackup ==
  ASSUME BackupInv, NEW f \in Files, NEW c \in Uploads, Upload(f, c) PROVE GuardInv'
BY DEF Upload, BackupInv, GuardInv, ProgramsApart, StagedCleared, CopiesName, GuardBackup,
       Staged, Cleared, savedVars, appVars

LEMMA ShellBackup ==
  ASSUME Undisturbed, BackupInv,
         (\E f \in Files, opt \in ShellOptions : ShellHash(f, opt))
         \/ ShellClear \/ ShellSave \/ ShellSelect
  PROVE  GuardInv'
<1> USE DEF BackupInv, GuardInv, ProgramsApart, StagedCleared, CopiesName, GuardBackup
<1>1. UNCHANGED <<app0, backup, mode, wk, wm, wg, apc, mon, gg, web, prior>>
  BY DEF ShellHash, ShellClear, ShellSave, ShellSelect, shellRest, workVars, webVars
<1>2. ASSUME NEW f \in Files, NEW opt \in ShellOptions, ShellHash(f, opt) PROVE GuardInv'
  <2>1. /\ mode = "app" /\ ~mon /\ apc \notin {"guard", "over", "over_boot", "init"}
        /\ sh'.pc = "clear" /\ UNCHANGED <<manifest, guard>>
    BY <1>2 DEF ShellHash, Undisturbed, savedVars
  <2>2. apc = "loop"
    BY <2>1 DEF TypeInv, TypeOK, AppPCs
  <2>3. QED
    BY <1>1, <2>1, <2>2 DEF Staged, Cleared
<1>3. CASE ShellClear
  <2>1. PICK ok \in BOOLEAN :
          WriteGuard(NoGuard, ok) /\ sh' = IF ok THEN [sh EXCEPT !.pc = "save"]
                                           ELSE NoRequest
    BY <1>3 DEF ShellClear
  <2>2. /\ guard'.backup \in {guard.backup, NoFile} /\ guard'.armed \in {guard.armed, FALSE}
        /\ ok => guard' = NoGuard
    BY <2>1, NoRecordsTyped, WriteGuardTyped DEF TypeInv, TypeOK, NoGuard
  <2>3. Cleared => Cleared'
    BY <2>2 DEF Cleared
  <2>4. sh'.pc \in {"save", "free"} /\ (sh'.pc = "save" => Cleared')
    <3>1. ok => Cleared'
      <4>1. NoGuard.armed = FALSE /\ NoGuard.backup = NoFile
        BY DEF NoGuard
      <4>2. QED
        BY ONLY <2>2, <4>1 DEF Cleared
    <3>2. sh'.pc = IF ok THEN "save" ELSE "free"
      BY <2>1 DEF TypeInv, TypeOK, Request, NoRequest
    <3>3. QED
      BY <3>1, <3>2
  <2>5. sh.pc = "clear" /\ UNCHANGED manifest
    BY <1>3 DEF ShellClear
  <2>6. ProgramsApart'
    BY <1>1, <2>4, <2>5
  <2>7. StagedCleared'
    BY <1>1, <2>3, <2>4, <2>5 DEF Staged
  <2>8. CopiesName'
    BY <1>1
  <2>9. GuardBackup'
    BY <1>1, <2>2
  <2>10. QED
    BY <2>6, <2>7, <2>8, <2>9
<1>4. CASE ShellSave
  <2>1. sh.pc = "save" /\ UNCHANGED guard /\ sh'.pc \in {"select", "free"}
    BY <1>4 DEF ShellSave, TypeInv, TypeOK, Request, NoRequest
  <2>2. QED
    BY <1>1, <2>1 DEF Staged, Cleared
<1>5. CASE ShellSelect
  <2>1. sh.pc = "select" /\ sh'.pc \in {"restart", "free"} /\ UNCHANGED <<manifest, guard>>
    BY <1>5 DEF ShellSelect, TypeInv, TypeOK, Request, NoRequest, savedVars
  <2>2. QED
    BY <1>1, <2>1 DEF Staged, Cleared
<1>6. QED
  BY <1>2, <1>3, <1>4, <1>5

LEMMA StagingBackup == Undisturbed /\ BackupInv /\ StagingNext => GuardInv'
<1> SUFFICES ASSUME Undisturbed, BackupInv, StagingNext PROVE GuardInv'
  OBVIOUS
<1>1. CASE WebRestart \/ ShellRestart
  BY <1>1, ResetBackup DEF WebRestart, ShellRestart, flashVars, savedVars, BackupInv,
     GuardInv, StagedCleared, Cleared, GuardBackup
<1>2. QED
  BY <1>1, WebBackup, UploadBackup, ShellBackup DEF StagingNext

-----------------------------------------------------------------------------
\* The application, and resets.

LEMMA BootGuardBackup == BackupInv /\ BootGuard => GuardInv'
<1> SUFFICES ASSUME BackupInv, BootGuard PROVE GuardInv'
  OBVIOUS
<1> USE DEF BackupInv, GuardInv, ProgramsApart, StagedCleared, CopiesName, GuardBackup
<1>1. /\ mode = "app" /\ apc = "guard" /\ sh.pc = "free" /\ wk = "off" /\ web.pc = "free"
      /\ UNCHANGED <<app0, backup, manifest, mode, wk, wm, wg, web, sh, prior>>
  BY DEF BootGuard, App, appRest, workVars, webVars
<1>2. CASE /\ InTrial
           /\ \E ok \in BOOLEAN :
                /\ WriteGuard(CountedGuard, ok)
                /\ mon' = ok /\ gg' = IF ok THEN CountedGuard ELSE NoGuard
                /\ apc' = IF ok /\ TooManyBoots(CountedGuard) THEN "over" ELSE "init"
  <2>1. CountedGuard \in Guards /\ CountedGuard.backup = guard.backup
    BY DEF CountedGuard, TypeInv, TypeOK, Guards
  <2>2. PICK ok \in BOOLEAN :
          /\ WriteGuard(CountedGuard, ok)
          /\ mon' = ok /\ gg' = IF ok THEN CountedGuard ELSE NoGuard
          /\ apc' = IF ok /\ TooManyBoots(CountedGuard) THEN "over" ELSE "init"
    BY <1>2
  <2>3. guard'.backup = guard.backup
    BY <2>1, <2>2, WriteGuardTyped DEF TypeInv, TypeOK
  <2>4. ~Staged
    BY <1>2 DEF InTrial, Cleared
  <2>5. gg'.backup \in {guard.backup, NoFile}
    BY <2>1, <2>2 DEF NoGuard
  <2>6. ProgramsApart'
    BY <1>1, <2>2
  <2>7. StagedCleared'
    BY <1>1, <2>4 DEF Staged
  <2>8. CopiesName' /\ GuardBackup'
    BY <1>1, <2>3, <2>5
  <2>9. QED
    BY <2>6, <2>7, <2>8
<1>3. CASE apc' = "init" /\ UNCHANGED <<guard, mon, gg>>
  BY <1>1, <1>3 DEF Staged, Cleared
<1>4. QED
  BY <1>2, <1>3 DEF BootGuard

\* A trial that ends asks for rollback with the backup it was started with.
LEMMA ArmRollbackBackup == BackupInv /\ (BootLimit \/ HealthTimeout) => GuardInv'
<1> SUFFICES ASSUME BackupInv, BootLimit \/ HealthTimeout PROVE GuardInv'
  OBVIOUS
<1> USE DEF BackupInv, GuardInv, ProgramsApart, StagedCleared, CopiesName, GuardBackup
<1>1. RollbackGuard \in Guards /\ RollbackGuard.backup = gg.backup
  BY DEF RollbackGuard, TypeInv, TypeOK, Guards, GuardStates
<1>2. PICK ok \in BOOLEAN :
        /\ mode = "app" /\ apc \in {"over", "to_save"} /\ apc' \in {"over_boot", "to_load"}
        /\ gg' = RollbackGuard /\ WriteGuard(RollbackGuard, ok)
        /\ UNCHANGED <<app0, backup, manifest, mode, mon, wk, wm, wg, web, sh, prior>>
  BY DEF BootLimit, HealthTimeout, ArmRollback, App, appRest, workVars, webVars
<1>3. guard'.backup \in {guard.backup, gg.backup}
  BY <1>1, <1>2, WriteGuardTyped DEF TypeInv, TypeOK
<1>4. mon /\ ~Staged
  BY <1>2
<1>5. wk = "off" /\ web.pc = "free" /\ sh.pc = "free"
  BY <1>2, <1>4
<1>6. ProgramsApart'
  BY <1>2, <1>4, <1>5
<1>7. StagedCleared'
  BY <1>2, <1>4, <1>5 DEF Staged
<1>8. CopiesName' /\ GuardBackup'
  BY <1>1, <1>2, <1>3
<1>9. QED
  BY <1>6, <1>7, <1>8

\* A step of the application that leaves the guard alone, or clears it.
LEMMA AppStepBackup ==
  ASSUME BackupInv,
         mode = "app", wk = "off", web.pc = "free", apc # "off",
         UNCHANGED <<app0, backup, mode, wk, wm, wg, web, sh, prior>>,
         apc' # "off", apc' # "guard",
         guard'.backup \in {guard.backup, NoFile}, Cleared => Cleared',
         gg'.backup \in {gg.backup, NoFile}, Staged' => Staged, mon' => mon,
         sh.pc # "free" => apc' = "loop",
         apc' \in {"over", "over_boot", "to_save", "to_load", "to_write", "to_boot",
                  "cf_clear", "cf_load", "cf_write"} => mon'
  PROVE  GuardInv'
<1> USE DEF BackupInv, GuardInv, ProgramsApart, StagedCleared, CopiesName, GuardBackup
<1>1. ProgramsApart'
  OBVIOUS
<1>2. StagedCleared'
  OBVIOUS
<1>3. CopiesName' /\ GuardBackup'
  OBVIOUS
<1>4. QED
  BY <1>1, <1>2, <1>3

LEMMA AppRestBackup ==
  BackupInv /\ (AppInit \/ (\E d \in 1..MaxStall : Process(d)) \/ TimeoutLoad \/ TimeoutWrite
                \/ ConfirmClear \/ ConfirmLoad \/ ConfirmWrite
                \/ BootLimitRestart \/ TimeoutRestart) => GuardInv'
<1> SUFFICES ASSUME BackupInv,
                    AppInit \/ (\E d \in 1..MaxStall : Process(d)) \/ TimeoutLoad
                    \/ TimeoutWrite \/ ConfirmClear \/ ConfirmLoad \/ ConfirmWrite
                    \/ BootLimitRestart \/ TimeoutRestart
             PROVE  GuardInv'
  OBVIOUS
<1>1. NoGuard.backup = NoFile /\ NoGuard.armed = FALSE
  BY DEF NoGuard
<1>2. mode = "app" => wk = "off" /\ web.pc = "free" /\ apc # "off"
  BY DEF BackupInv, GuardInv, ProgramsApart
<1>3. /\ sh.pc # "free" => apc = "loop" /\ ~mon
      /\ apc \in {"over_boot", "to_load", "to_write", "to_boot", "cf_clear", "cf_load",
                 "cf_write"} => mon
  BY DEF BackupInv, GuardInv, ProgramsApart
<1>4. CASE Restart /\ UNCHANGED <<backup, guard, manifest, prior>>
  BY <1>4, ResetBackup DEF BackupInv, GuardInv, StagedCleared, Cleared, GuardBackup
<1>5. CASE AppInit
  <2>1. CASE UNCHANGED guard /\ apc' = "loop" /\ UNCHANGED <<flashVars, savedVars, mode,
               workVars, webVars, mon, gg, sh, prior>>
    BY <1>2, <1>3, <1>5, <2>1, AppStepBackup DEF AppInit, App, flashVars, savedVars,
       workVars, webVars, Staged, Cleared
  <2>2. QED
    BY <1>4, <1>5, <2>1 DEF AppInit, flashVars, savedVars
<1>6. ASSUME NEW d \in 1..MaxStall, Process(d) PROVE GuardInv'
  <2>1. /\ mode = "app" /\ apc = "loop" /\ mon
        /\ apc' \in {"to_save", "cf_clear", "loop"}
        /\ UNCHANGED <<app0, backup, guard, manifest, mode, wk, wm, wg, web, sh, prior, mon, gg>>
    BY <1>6 DEF Process, App, savedVars, appRest, workVars, webVars
  <2>2. QED
    BY <1>2, <1>3, <2>1, AppStepBackup DEF Staged, Cleared
<1>7. CASE TimeoutLoad \/ ConfirmLoad
  <2>1. /\ mode = "app" /\ apc \in {"to_load", "cf_load"}
        /\ apc' \in {"to_write", "to_boot", "cf_write"}
        /\ UNCHANGED <<app0, backup, guard, manifest, mode, wk, wm, wg, web, sh, prior, mon, gg>>
    BY <1>7 DEF TimeoutLoad, ConfirmLoad, ManifestLoad, App, savedVars, appRest, workVars,
       webVars
  <2>2. QED
    BY <1>2, <1>3, <2>1, AppStepBackup DEF Staged, Cleared
<1>8. CASE TimeoutWrite
  <2>1. /\ mode = "app" /\ apc = "to_write" /\ apc' = "to_boot"
        /\ UNCHANGED <<app0, backup, guard, mode, wk, wm, wg, web, sh, prior, mon, gg>>
    BY <1>8 DEF TimeoutWrite, App, appRest, workVars, webVars
  <2>2. Staged' => Staged
    BY <1>8 DEF TimeoutWrite, WriteManifest, Staged, NoManifest, BackupInv, TypeInv,
       Consistent
  <2>3. QED
    BY <1>2, <1>3, <2>1, <2>2, AppStepBackup DEF Cleared
<1>9. CASE ConfirmWrite
  <2>1. /\ mode = "app" /\ apc = "cf_write" /\ apc' = "loop" /\ mon' = FALSE /\ gg' = NoGuard
        /\ UNCHANGED <<app0, backup, guard, mode, wk, wm, wg, web, sh, prior>>
    BY <1>9 DEF ConfirmWrite, Confirmed, App, appRest, workVars, webVars
  <2>2. Staged' => Staged
    BY <1>9 DEF ConfirmWrite, WriteManifest, Staged, NoManifest, BackupInv, TypeInv,
       Consistent
  <2>3. QED
    BY <1>1, <1>2, <1>3, <2>1, <2>2, AppStepBackup DEF Cleared
<1>10. CASE ConfirmClear
  <2>1. /\ mode = "app" /\ apc = "cf_clear" /\ apc' \in {"cf_load", "loop"}
        /\ UNCHANGED <<app0, backup, manifest, mode, wk, wm, wg, web, sh, prior, mon, gg>>
    BY <1>10 DEF ConfirmClear, App, flashVars, workVars, webVars
  <2>2. /\ guard'.backup \in {guard.backup, NoFile}
        /\ guard'.armed \in {guard.armed, FALSE}
    BY <1>1, <1>10, NoRecordsTyped, WriteGuardTyped DEF ConfirmClear, BackupInv, TypeInv,
       TypeOK
  <2>3. Cleared => Cleared'
    BY <2>2 DEF Cleared
  <2>4. QED
    BY <1>2, <1>3, <2>1, <2>2, <2>3, AppStepBackup DEF Staged
<1>11. CASE BootLimitRestart \/ TimeoutRestart
  <2>1. CASE /\ mode = "app" /\ apc \in {"over_boot", "to_boot"} /\ apc' \in {"init", "loop"}
             /\ UNCHANGED <<app0, backup, guard, manifest, mode, wk, wm, wg, web, sh, prior,
                            mon, gg>>
    BY <1>2, <1>3, <2>1, AppStepBackup DEF Staged, Cleared
  <2>2. QED
    BY <1>4, <1>11, <2>1 DEF BootLimitRestart, TimeoutRestart, BootRecovery, App, savedVars,
       appRest, workVars, webVars
<1>12. QED
  BY <1>5, <1>6, <1>7, <1>8, <1>9, <1>10, <1>11

LEMMA AppBackup == BackupInv /\ AppNext => GuardInv'
BY BootGuardBackup, ArmRollbackBackup, AppRestBackup DEF AppNext

\* A guard that a reset leaves half-written names the old backup or the new one,
\* and either is the copy.
LEMMA CrashBackup == BackupInv /\ (Crash \/ AppReboot) => GuardInv'
<1> SUFFICES ASSUME BackupInv, Crash \/ AppReboot PROVE GuardInv'
  OBVIOUS
<1> USE DEF BackupInv, GuardInv
<1>1. GuardBackup /\ (Staged => ~guard.armed /\ guard.backup = NoFile)
  BY DEF StagedCleared, Cleared
<1>2. CASE AppReboot
  BY <1>1, <1>2, ResetBackup DEF AppReboot, flashVars, savedVars, GuardBackup
<1>3. CASE Crash
  <2>1. Restart /\ manifest' \in {manifest, NoManifest} /\ UNCHANGED <<backup, prior>>
    BY <1>3 DEF Crash, flashVars
  <2>2. CASE guard' = guard
    BY <1>1, <2>1, <2>2, ResetBackup DEF GuardBackup
  <2>3. ASSUME NEW g \in Guards, GuardWrite(g), guard' \in GuardPrefixes(guard, g)
        PROVE  GuardInv'
    <3>1. guard'.backup \in {guard.backup, g.backup} /\ guard'.armed \in {guard.armed, g.armed}
      BY <2>3, PrefixTyped DEF TypeInv, TypeOK
    <3>2. CASE g = NoGuard
      <4>1. g.backup = NoFile /\ g.armed = FALSE
        BY <3>2 DEF NoGuard
      <4>2. Staged => ~guard'.armed /\ guard'.backup = NoFile
        BY <1>1, <3>1, <4>1
      <4>3. guard'.backup # NoFile => backup[guard'.backup] = prior
        BY <1>1, <3>1, <4>1 DEF GuardBackup
      <4>4. QED
        BY <2>1, <4>2, <4>3, ResetBackup
    <3>3. CASE ~Staged /\ (g.backup # NoFile => backup[g.backup] = prior)
      <4>1. guard'.backup # NoFile => backup[guard'.backup] = prior
        BY <1>1, <3>1, <3>3 DEF GuardBackup
      <4>2. QED
        BY <2>1, <3>3, <4>1, ResetBackup
    <3>4. CASE wk \in {"fail_arm", "arm"} /\ g.backup = wm.backup
      BY <3>3, <3>4 DEF StagedCleared, CopiesName
    <3>5. CASE wk = "rb_disarm" /\ g = DisarmedGuard
      <4>1. g.backup = wg.backup
        BY <3>5 DEF DisarmedGuard, TypeInv, TypeOK, Guards
      <4>2. QED
        BY <3>3, <3>5, <4>1 DEF StagedCleared, CopiesName
    <3>6. CASE apc \in {"over", "to_save"} /\ g = RollbackGuard
      <4>1. g.backup = gg.backup
        BY <3>6 DEF RollbackGuard, TypeInv, TypeOK, Guards
      <4>2. QED
        BY <3>3, <3>6, <4>1 DEF ProgramsApart, StagedCleared, CopiesName
    <3>7. QED
      BY <2>3, <3>2, <3>4, <3>5, <3>6 DEF GuardWrite, ArmedGuard
  <2>4. QED
    BY <1>3, <2>2, <2>3, CrashGuard
<1>4. QED
  BY <1>2, <1>3

-----------------------------------------------------------------------------
LEMMA NextBackup == Undisturbed /\ BackupInv /\ [Next]_vars => BackupInv'
<1> SUFFICES ASSUME Undisturbed, BackupInv, [Next]_vars PROVE BackupInv'
  OBVIOUS
<1>1. TypeInv'
  BY NextTyped DEF BackupInv
<1>2. GuardInv'
  BY StutterBackup, BootBackup, WorkerBackup, StagingBackup, AppBackup, CrashBackup
  DEF Next, BackupInv
<1>3. QED
  BY <1>1, <1>2 DEF BackupInv

\* In the setting of Undisturbed, a backup path in the boot guard always names
\* the complete copy of what app0 held when the last install began: the worker,
\* the boot guard, update-system and the portal never disagree about it, however
\* often power is lost and whatever writes fail.
THEOREM BackupKept == ASSUME Undisturbed PROVE Spec => []GuardBackup
<1>1. Init => BackupInv
  BY InitBackup
<1>2. BackupInv /\ [Next]_vars => BackupInv'
  BY NextBackup
<1>3. BackupInv => GuardBackup
  BY DEF BackupInv, GuardInv
<1>4. QED
  BY <1>1, <1>2, <1>3, PTL DEF Spec

-----------------------------------------------------------------------------
\* Where a rollback finds the image it restores.

\* A manifest that names a backup names the copy of what app0 held.
NamesPrior(m) == m.backup # NoFile => backup[m.backup] = prior

Installing == {"begin", "write", "finish", "fail_arm", "arm"}
Restoring == {"fail_mark", "mark_health", "arm_failed", "rb_begin", "rb_erase", "rb_write",
              "rb_finish", "rb_failed", "rb_disarm", "rb_clear", "rb_done"}

\* While a rollback is asked for, or may be, the manifest and its copies name no other
\* backup; what is installed has its backup in the stored manifest.
ManifestNames ==
  /\ guard.armed \/ mon => NamesPrior(manifest)
  /\ apc \in {"to_write", "cf_write"} => NamesPrior(am)
  /\ apc = "to_write" => am.state # "absent"
  /\ apc \notin {"to_write", "cf_write"} => am = NoManifest
  /\ wk \in Installing => manifest.backup = wm.backup /\ manifest.state # "absent"
  /\ wk \in Restoring => NamesPrior(wm)

Disturbances == crashes + faults

\* An armed guard without a backup, and a manifest that can stand in for it.
Pathless(g) == g.armed /\ g.backup = NoFile
HasPath(m) == m.state # "absent" /\ m.backup # NoFile

\* The first disturbance may leave a guard without a backup; then the manifest has it,
\* wherever it is kept.  Before it, the guard has it.
StandsIn ==
  Disturbances <= 1 =>
    /\ Pathless(guard) \/ (mon /\ gg.backup = NoFile) => Disturbances = 1 /\ HasPath(manifest)
    /\ Pathless(guard) /\ wk \in Restoring => wm.backup # NoFile
    /\ apc \in {"to_write", "cf_write"} /\ am.state # "absent"
       /\ (Pathless(guard) \/ gg.backup = NoFile) => am.backup # NoFile
    /\ Disturbances = 0 /\ mon /\ apc \notin {"cf_load", "cf_write"} => guard.backup # NoFile

RollbackInv == BackupInv /\ ManifestNames /\ StandsIn

\* Once disturbed, always disturbed.
LEMMA FaultsGrow == TypeInv /\ Next => faults' \in {faults, faults + 1} /\ crashes' \in {crashes, crashes + 1}
<1> SUFFICES ASSUME TypeInv, Next
             PROVE  faults' \in {faults, faults + 1} /\ crashes' \in {crashes, crashes + 1}
  OBVIOUS
<1> USE DEF FaultOccurs, WriteGuard, WriteManifest, savedVars, workRest, webRest, shellRest, appRest
<1>1. CASE WorkerNext
  <2>1. CASE \/ WorkerStart \/ RollbackBegin \/ RestoreErase \/ RestoreWrite \/ RestoreFinish
             \/ RollbackFailed \/ RollbackDisarm \/ RollbackClear \/ RollbackDone \/ BootApp0
             \/ WorkerRestart \/ RejectSignature \/ AcceptInstall \/ BackupOpen \/ BackupCopy
    BY <2>1 DEF WorkerStart, RollbackBegin, RestoreErase, RestoreWrite, RestoreFinish,
       RollbackFailed, RollbackDisarm, RollbackClear, RollbackDone, BootApp0, WorkerRestart,
       RejectSignature, AcceptInstall, BackupOpen, BackupCopy, MarkManifest, Disarm, SelectApp0
  <2>2. CASE \/ BackupFailed \/ MarkCopied \/ InstallBegin \/ InstallWrite \/ InstallFinish
             \/ InstallFailed \/ MarkRollback \/ ArmHealthcheck \/ ArmFailed \/ MarkHealthcheck
             \/ Fallback \/ AutobootPaused \/ Autoboot
    BY <2>2 DEF BackupFailed, MarkCopied, InstallBegin, InstallWrite, InstallFinish,
       InstallFailed, MarkRollback, ArmHealthcheck, ArmFailed, MarkHealthcheck, Fallback,
       AutobootPaused, Autoboot, MarkManifest, SelectApp0, ArmGuard
  <2>3. QED
    BY <1>1, <2>1, <2>2 DEF WorkerNext
<1>2. CASE StagingNext
  BY <1>2 DEF StagingNext, WebHash, WebDelete, WebClear, WebSave, WebSelect, WebRestart, Upload,
     ShellHash, ShellClear, ShellSave, ShellSelect, ShellRestart
<1>3. CASE AppNext
  BY <1>3 DEF AppNext, BootGuard, BootLimit, BootLimitRestart, AppInit, Process, HealthTimeout,
     TimeoutLoad, TimeoutWrite, TimeoutRestart, ConfirmClear, ConfirmLoad, ConfirmWrite,
     ArmRollback, BootRecovery, ManifestLoad
<1>4. CASE Boot \/ Crash \/ AppReboot
  BY <1>4 DEF Boot, Crash, AppReboot
<1>5. QED
  BY <1>1, <1>2, <1>3, <1>4 DEF Next

\* What a step can do to the number of disturbances, as far as it matters.
Grows ==
  /\ Disturbances' <= 1 => Disturbances <= 1
  /\ Disturbances = 1 /\ Disturbances' <= 1
       => Disturbances' = 1 /\ faults' # faults + 1 /\ crashes' # crashes + 1
  /\ Disturbances' <= 1 /\ (faults' = faults + 1 \/ crashes' = crashes + 1)
       => Disturbances = 0 /\ Disturbances' = 1
  /\ Disturbances' = 0
       => Disturbances = 0 /\ faults' # faults + 1 /\ crashes' # crashes + 1
  /\ Disturbances' = 1 => Disturbances' <= 1
  /\ Disturbances = 0 => Disturbances # 1

LEMMA DisturbancesGrow == TypeInv /\ Next => Grows
<1> SUFFICES ASSUME TypeInv, Next PROVE Grows
  OBVIOUS
<1>1. crashes \in Nat /\ faults \in Nat
  BY DEF TypeInv, TypeOK
<1>2. faults' \in {faults, faults + 1} /\ crashes' \in {crashes, crashes + 1}
  BY FaultsGrow
<1>3. ASSUME NEW c \in Nat, NEW f \in Nat, NEW d, NEW e, d = c \/ d = c + 1, e = f \/ e = f + 1
      PROVE  /\ d + e <= 1 => c + f <= 1
             /\ c + f = 1 /\ d + e <= 1 => d + e = 1 /\ e # f + 1 /\ d # c + 1
             /\ d + e <= 1 /\ (e = f + 1 \/ d = c + 1) => c + f = 0 /\ d + e = 1
             /\ d + e = 0 => c + f = 0 /\ e # f + 1 /\ d # c + 1
             /\ d + e = 1 => d + e <= 1
             /\ c + f = 0 => c + f # 1
  BY ONLY <1>3
<1>4. faults' = faults \/ faults' = faults + 1
  BY <1>2
<1>5. crashes' = crashes \/ crashes' = crashes + 1
  BY <1>2
<1> QED BY ONLY <1>1, <1>3, <1>4, <1>5 DEF Grows, Disturbances

\* A guard write that disarms leaves the old guard, or one that is not armed.
LEMMA PrefixDisarms ==
  ASSUME NEW old \in Guards, NEW new \in Guards, ~new.armed, NEW g \in GuardPrefixes(old, new)
  PROVE  g = old \/ ~g.armed
BY DEF Guards, GuardPrefixes

LEMMA ClearDisarms ==
  ASSUME guard \in Guards, NEW ok \in BOOLEAN, WriteGuard(NoGuard, ok)
  PROVE  guard' = guard \/ ~guard'.armed
<1>1. NoGuard \in Guards /\ ~NoGuard.armed
  BY NoRecordsTyped DEF NoGuard
<1>2. guard' = NoGuard \/ guard' \in GuardPrefixes(guard, NoGuard)
  BY DEF WriteGuard
<1> QED BY <1>1, <1>2, PrefixDisarms

\* Writes of the manifest and the guard that succeed cost no fault.
LEMMA ManifestCosts ==
  ASSUME NEW m, NEW ok \in BOOLEAN, ~SilentClose, WriteManifest(m, ok)
  PROVE  /\ (manifest' = m /\ ok) \/ faults' = faults + 1
         /\ ok => manifest' = m
BY DEF WriteManifest, FaultOccurs

LEMMA GuardCosts ==
  ASSUME NEW g, NEW ok \in BOOLEAN, WriteGuard(g, ok)
  PROVE  \/ ok /\ guard' = g
         \/ ~ok /\ faults' = faults + 1 /\ guard' \in GuardPrefixes(guard, g)
BY ZenonT(30) DEF WriteGuard, FaultOccurs

LEMMA RollbackInit == Init => RollbackInv
<1> SUFFICES ASSUME Init PROVE RollbackInv
  OBVIOUS
<1>1. BackupInv
  BY InitBackup
<1>2. guard.armed = FALSE /\ mon = FALSE /\ apc = "off" /\ wk = "off" /\ am = NoManifest
  BY DEF Init, NoGuard
<1> QED BY <1>1, <1>2 DEF RollbackInv, ManifestNames, StandsIn, Pathless, Installing, Restoring

-----------------------------------------------------------------------------
\* What a step of each program has to show.

\* In recovery the application keeps nothing.
LEMMA InRecovery ==
  ASSUME RollbackInv, mode = "recovery", UNCHANGED appVars,
         guard'.armed => NamesPrior(manifest)',
         wk' \in Installing => manifest'.backup = wm'.backup /\ manifest'.state # "absent",
         wk' \in Restoring => NamesPrior(wm)',
         Disturbances' <= 1 /\ Pathless(guard)'
           => /\ Disturbances' = 1 /\ HasPath(manifest)'
              /\ wk' \in Restoring => wm'.backup # NoFile
  PROVE  ManifestNames' /\ StandsIn'
<1>1. apc' = "off" /\ ~mon' /\ am' = NoManifest
  BY DEF RollbackInv, BackupInv, GuardInv, ProgramsApart, ManifestNames, appVars
<1> QED BY <1>1 DEF ManifestNames, StandsIn

\* After a reset only guard and manifest are left.
LEMMA AfterReset ==
  ASSUME Restart, guard'.armed => NamesPrior(manifest)',
         Disturbances' <= 1 /\ Pathless(guard)' => Disturbances' = 1 /\ HasPath(manifest)'
  PROVE  ManifestNames' /\ StandsIn'
<1>1. apc' = "off" /\ mon' = FALSE /\ wk' = "off" /\ am' = NoManifest
  BY DEF Restart
<1> QED BY <1>1 DEF ManifestNames, StandsIn, Installing, Restoring

\* In the application the worker has no part.
LEMMA InApplication ==
  ASSUME RollbackInv, wk' \notin Installing \cup Restoring,
         guard'.armed \/ mon' => NamesPrior(manifest)',
         apc' \in {"to_write", "cf_write"} => NamesPrior(am)',
         apc' = "to_write" => am'.state # "absent",
         apc' \notin {"to_write", "cf_write"} => am' = NoManifest,
         Disturbances' <= 1 /\ (Pathless(guard)' \/ (mon' /\ gg'.backup = NoFile))
           => Disturbances' = 1 /\ HasPath(manifest)',
         Disturbances' <= 1 /\ apc' \in {"to_write", "cf_write"} /\ am'.state # "absent"
           /\ (Pathless(guard)' \/ gg'.backup = NoFile) => am'.backup # NoFile,
         Disturbances' = 0 /\ mon' /\ apc' \notin {"cf_load", "cf_write"}
           => guard'.backup # NoFile
  PROVE  ManifestNames' /\ StandsIn'
BY DEF ManifestNames, StandsIn

\* A reset that leaves guard and manifest as they were.
LEMMA ResetRollback ==
  ASSUME RollbackInv, Grows, Restart, UNCHANGED <<savedVars, backup, prior>>
  PROVE  ManifestNames' /\ StandsIn'
<1>1. guard'.armed => NamesPrior(manifest)'
  BY DEF RollbackInv, ManifestNames, NamesPrior, savedVars
<1>2. Disturbances' <= 1 /\ Pathless(guard)' => Disturbances' = 1 /\ HasPath(manifest)'
  BY DEF RollbackInv, StandsIn, Pathless, HasPath, Grows, savedVars
<1> QED BY <1>1, <1>2, AfterReset

\* A step that none of this sees.
LEMMA UnseenRollback ==
  ASSUME RollbackInv, Grows, UNCHANGED <<savedVars, backup, prior, wk, wm, apc, am, mon, gg>>
  PROVE  ManifestNames' /\ StandsIn'
<1>1. ManifestNames'
  BY DEF RollbackInv, ManifestNames, NamesPrior, savedVars
<1>2. StandsIn'
  BY DEF RollbackInv, StandsIn, Pathless, HasPath, Grows, savedVars
<1> QED BY <1>1, <1>2

\* A step of the worker, or of the boot loader, that stores nothing.
LEMMA WorkerOnly ==
  ASSUME RollbackInv, Grows, mode = "recovery",
         UNCHANGED <<savedVars, backup, prior, wm, appVars>>,
         wk' \in Installing => wk \in Installing, wk' \in Restoring => wk \in Restoring
  PROVE  ManifestNames' /\ StandsIn'
<1>1. guard'.armed => NamesPrior(manifest)'
  BY DEF RollbackInv, ManifestNames, NamesPrior, savedVars
<1>2. /\ wk' \in Installing => manifest'.backup = wm'.backup /\ manifest'.state # "absent"
      /\ wk' \in Restoring => NamesPrior(wm)'
  BY DEF RollbackInv, ManifestNames, NamesPrior, savedVars
<1>3. Disturbances' <= 1 /\ Pathless(guard)'
        => /\ Disturbances' = 1 /\ HasPath(manifest)'
           /\ wk' \in Restoring => wm'.backup # NoFile
  BY DEF RollbackInv, StandsIn, Pathless, HasPath, Grows, savedVars
<1> QED BY <1>1, <1>2, <1>3, InRecovery

-----------------------------------------------------------------------------
\* The worker.

LEMMA StartRollback ==
  ASSUME Undisturbed, RollbackInv, Grows, WorkerStart PROVE ManifestNames' /\ StandsIn'
<1>1. /\ mode = "recovery" /\ wg' = guard
      /\ wk' \in {"rb_begin", "sign", "countdown", "idle"}
      /\ wk' = "rb_begin"
           => /\ guard.armed
              /\ wm' = IF manifest.state = "absent"
                       THEN [manifest EXCEPT !.state = "rollback_pending",
                                             !.backup = guard.backup]
                       ELSE manifest
      /\ UNCHANGED <<savedVars, backup, prior, appVars>>
  BY DEF WorkerStart, Worker, Undisturbed, flashVars, workRest
<1>2. wk' \notin Installing /\ (wk' \in Restoring => wk' = "rb_begin")
  BY <1>1 DEF Installing, Restoring
<1>3. guard'.armed => NamesPrior(manifest)'
  BY <1>1 DEF RollbackInv, ManifestNames, NamesPrior, savedVars
<1>4. ASSUME wk' = "rb_begin"
      PROVE  /\ wm'.backup = IF manifest.state = "absent" THEN guard.backup
                             ELSE manifest.backup
             /\ NamesPrior(wm)'
  <2>1. wm'.backup = IF manifest.state = "absent" THEN guard.backup ELSE manifest.backup
    BY <1>1, <1>4 DEF RollbackInv, BackupInv, TypeInv, TypeOK, Manifests
  <2>2. NamesPrior(manifest) /\ GuardBackup
    BY <1>1, <1>4 DEF RollbackInv, ManifestNames, BackupInv, GuardInv
  <2>3. QED
    BY <1>1, <2>1, <2>2 DEF NamesPrior, GuardBackup
<1>5. Disturbances' <= 1 /\ Pathless(guard)'
        => /\ Disturbances' = 1 /\ HasPath(manifest)'
           /\ wk' \in Restoring => wm'.backup # NoFile
  BY <1>1, <1>2, <1>4 DEF RollbackInv, StandsIn, Pathless, HasPath, Grows, savedVars
<1> QED BY <1>1, <1>2, <1>3, <1>4, <1>5, InRecovery

\* A step that only stores the worker's manifest.
LEMMA MarkRollbacks ==
  ASSUME Undisturbed, RollbackInv, Grows,
         NEW pc, NEW state \in ManifestStates \ {"pending_install", "absent"},
         NEW next \in WorkerPCs, NEW failed \in WorkerPCs \ Installing,
         MarkManifest(pc, state, next, failed),
         \/ pc \in {"sign", "copy_failed"} /\ {next, failed} \cap (Installing \cup Restoring) = {}
         \/ pc = "mark_copied" /\ next = "begin" /\ failed \notin Restoring
         \/ pc \in Restoring /\ next \notin Installing
  PROVE  ManifestNames' /\ StandsIn'
<1>1. /\ mode = "recovery" /\ wk = pc /\ wk' \in {next, failed}
      /\ wm'.state = state /\ wm'.backup = wm.backup
      /\ manifest' \in {manifest, wm', NoManifest}
      /\ UNCHANGED <<guard, backup, prior, appVars>>
  BY MarkManifestTyped DEF MarkManifest, Worker, RollbackInv, BackupInv, flashVars, workRest
<1>2. PICK ok \in BOOLEAN : WriteManifest(wm', ok) /\ wk' = IF ok THEN next ELSE failed
  BY DEF MarkManifest
<1>3. ((manifest' = wm' /\ ok) \/ faults' = faults + 1) /\ (ok => manifest' = wm')
  BY <1>2, ManifestCosts DEF Undisturbed
<1>4. CASE pc \in {"sign", "copy_failed"}
           /\ {next, failed} \cap (Installing \cup Restoring) = {}
  <2>1. ~guard'.armed
    BY <1>1, <1>4 DEF RollbackInv, BackupInv, GuardInv, StagedCleared, Cleared
  <2>2. QED
    BY <1>1, <1>4, <2>1, InRecovery DEF Pathless
<1>5. CASE pc = "mark_copied" /\ next = "begin" /\ failed \notin Restoring
  <2>1. ~guard'.armed
    BY <1>1, <1>5 DEF RollbackInv, BackupInv, GuardInv, StagedCleared, Cleared
  <2>2. wk' \in Installing => manifest'.backup = wm'.backup /\ manifest'.state # "absent"
    BY <1>1, <1>2, <1>3
  <2>3. wk' \notin Restoring
    BY <1>1, <1>5 DEF Restoring
  <2>4. QED
    BY <1>1, <2>1, <2>2, <2>3, InRecovery DEF Pathless
<1>6. CASE pc \in Restoring /\ next \notin Installing
  <2>1. NamesPrior(wm)'
    BY <1>1, <1>6 DEF RollbackInv, ManifestNames, NamesPrior
  <2>2. guard'.armed => NamesPrior(manifest)'
    BY <1>1, <2>1 DEF RollbackInv, ManifestNames, NamesPrior, NoManifest
  <2>3. Disturbances' <= 1 /\ Pathless(guard)'
          => /\ Disturbances' = 1 /\ HasPath(manifest)'
             /\ wk' \in Restoring => wm'.backup # NoFile
    <3>1. SUFFICES ASSUME Disturbances' <= 1, Pathless(guard)'
                   PROVE  Disturbances' = 1 /\ HasPath(manifest)' /\ wm'.backup # NoFile
      OBVIOUS
    <3>2. Disturbances = 1 /\ wm.backup # NoFile
      BY <1>1, <1>6, <3>1 DEF RollbackInv, StandsIn, Pathless, Grows
    <3>3. Disturbances' = 1 /\ manifest' = wm'
      BY <1>3, <3>1, <3>2 DEF Grows
    <3>4. QED
      BY <1>1, <3>2, <3>3 DEF HasPath
  <2>4. wk' \notin Installing
    BY <1>1, <1>6
  <2>5. QED
    BY <1>1, <2>1, <2>2, <2>3, <2>4, InRecovery
<1> QED BY <1>4, <1>5, <1>6

LEMMA MarksRollback ==
  ASSUME Undisturbed, RollbackInv, Grows,
         \/ RollbackFailed \/ RollbackDone \/ RejectSignature \/ AcceptInstall
         \/ BackupFailed \/ MarkCopied \/ MarkRollback \/ ArmFailed \/ MarkHealthcheck
  PROVE  ManifestNames' /\ StandsIn'
<1>1. onFail \in {"idle", "fallback"}
  BY DEF RollbackInv, BackupInv, TypeInv, TypeOK
<1> USE DEF ManifestStates, WorkerPCs, Installing, Restoring
<1>2. CASE RollbackFailed
  BY <1>1, <1>2, MarkRollbacks DEF RollbackFailed
<1>3. CASE RollbackDone
  BY <1>3, MarkRollbacks DEF RollbackDone
<1>4. CASE RejectSignature
  BY <1>4, MarkRollbacks DEF RejectSignature
<1>5. CASE AcceptInstall
  BY <1>5, MarkRollbacks DEF AcceptInstall
<1>6. CASE BackupFailed
  BY <1>6, MarkRollbacks DEF BackupFailed
<1>7. CASE MarkCopied
  BY <1>7, MarkRollbacks DEF MarkCopied
<1>8. CASE MarkRollback
  BY <1>8, MarkRollbacks DEF MarkRollback
<1>9. CASE ArmFailed
  BY <1>9, MarkRollbacks DEF ArmFailed
<1>10. CASE MarkHealthcheck
  BY <1>10, MarkRollbacks DEF MarkHealthcheck
<1> QED BY <1>2, <1>3, <1>4, <1>5, <1>6, <1>7, <1>8, <1>9, <1>10

LEMMA BeginRollback ==
  ASSUME Undisturbed, RollbackInv, Grows, RollbackBegin PROVE ManifestNames' /\ StandsIn'
<1>1. /\ mode = "recovery" /\ wk = "rb_begin"
      /\ UNCHANGED <<guard, backup, prior, appVars>>
  BY DEF RollbackBegin, Worker, flashVars, workRest
<1>2. CASE wk' = onFail /\ UNCHANGED <<wm, manifest, faults>>
  <2>1. wk' \in {"idle", "fallback"}
    BY <1>2 DEF RollbackInv, BackupInv, TypeInv, TypeOK
  <2>2. QED
    BY <1>1, <1>2, <2>1, WorkerOnly DEF savedVars, Installing, Restoring
<1>3. CASE /\ RollbackPath # NoFile
           /\ wm' = [wm EXCEPT !.state = "rolling_back", !.backup = RollbackPath]
           /\ \E ok \in BOOLEAN : WriteManifest(wm', ok)
           /\ wk' = "rb_erase"
  <2>1. wm'.state = "rolling_back" /\ wm'.backup = RollbackPath
    BY <1>3 DEF RollbackInv, BackupInv, TypeInv, TypeOK, Manifests
  <2>2. NamesPrior(wm) /\ (wg.backup # NoFile => backup[wg.backup] = prior)
    BY <1>1 DEF RollbackInv, ManifestNames, BackupInv, GuardInv, CopiesName, Restoring
  <2>3. NamesPrior(wm)'
    BY <1>1, <2>1, <2>2 DEF NamesPrior, RollbackPath
  <2>4. PICK ok \in BOOLEAN : WriteManifest(wm', ok)
    BY <1>3
  <2>5. manifest' \in {manifest, wm', NoManifest} /\ (manifest' = wm' \/ faults' = faults + 1)
    BY <2>4, ManifestCosts DEF WriteManifest, Undisturbed
  <2>6. guard'.armed => NamesPrior(manifest)'
    BY <1>1, <2>3, <2>5 DEF RollbackInv, ManifestNames, NamesPrior, NoManifest
  <2>7. Disturbances' <= 1 /\ Pathless(guard)'
          => Disturbances' = 1 /\ HasPath(manifest)' /\ wm'.backup # NoFile
    <3>1. SUFFICES ASSUME Disturbances' <= 1, Pathless(guard)'
                   PROVE  Disturbances' = 1 /\ HasPath(manifest)' /\ wm'.backup # NoFile
      OBVIOUS
    <3>2. Disturbances = 1
      BY <1>1, <3>1 DEF RollbackInv, StandsIn, Pathless, Grows
    <3>3. Disturbances' = 1 /\ manifest' = wm'
      BY <2>5, <3>1, <3>2 DEF Grows
    <3>4. QED
      BY <1>3, <2>1, <3>3 DEF HasPath
  <2>8. wk' \notin Installing
    BY <1>3 DEF Installing
  <2>9. QED
    BY <1>1, <2>3, <2>6, <2>7, <2>8, InRecovery
<1> QED BY <1>2, <1>3 DEF RollbackBegin

\* Nothing is stored while app0 is erased and written, nor when a partition is selected.
LEMMA FlashRollback ==
  ASSUME RollbackInv, Grows,
         \/ RestoreErase \/ RestoreWrite \/ RestoreFinish
         \/ InstallBegin \/ InstallWrite \/ InstallFinish
         \/ BootApp0 \/ Fallback \/ Autoboot \/ AutobootPaused
  PROVE  ManifestNames' /\ StandsIn'
<1>1. onFail \in {"idle", "fallback"}
  BY DEF RollbackInv, BackupInv, TypeInv, TypeOK
<1>2. mode = "recovery" /\ UNCHANGED <<savedVars, backup, prior, wm, appVars>>
  BY DEF RestoreErase, RestoreWrite, RestoreFinish, InstallBegin, InstallWrite, InstallFinish,
     BootApp0, Fallback, Autoboot, AutobootPaused, SelectApp0, Worker, flashVars, workRest
<1>3. \/ {wk, wk'} \subseteq Installing
      \/ {wk, wk'} \subseteq Restoring
      \/ wk' \notin Installing \cup Restoring
  <2>1. CASE RestoreErase \/ RestoreWrite \/ RestoreFinish
    BY <2>1 DEF RestoreErase, RestoreWrite, RestoreFinish, Worker, Restoring
  <2>2. CASE InstallBegin \/ InstallWrite \/ InstallFinish
    BY <2>2 DEF InstallBegin, InstallWrite, InstallFinish, Worker, Installing
  <2>3. CASE BootApp0 \/ Fallback \/ Autoboot \/ AutobootPaused
    BY <1>1, <2>3 DEF BootApp0, Fallback, Autoboot, AutobootPaused, SelectApp0, Installing,
       Restoring
  <2>4. QED
    BY <2>1, <2>2, <2>3
<1>4. Installing \cap Restoring = {}
  BY DEF Installing, Restoring
<1> QED BY <1>2, <1>3, <1>4, WorkerOnly

LEMMA DisarmRollback ==
  ASSUME RollbackInv, Grows, RollbackDisarm \/ RollbackClear PROVE ManifestNames' /\ StandsIn'
<1>1. /\ mode = "recovery" /\ wk \in Restoring /\ wk' \in Restoring /\ wk' \notin Installing
      /\ UNCHANGED <<manifest, backup, prior, wm, appVars>>
  BY DEF RollbackDisarm, RollbackClear, Disarm, Worker, flashVars, workRest, Installing,
     Restoring
<1>2. guard' = guard \/ ~guard'.armed
  <2>1. DisarmedGuard \in Guards /\ ~DisarmedGuard.armed
    BY DEF DisarmedGuard, RollbackInv, BackupInv, TypeInv, TypeOK, Guards, GuardStates
  <2>2. NoGuard \in Guards /\ ~NoGuard.armed
    BY NoRecordsTyped DEF NoGuard
  <2>3. PICK g \in {DisarmedGuard, NoGuard}, ok \in BOOLEAN : WriteGuard(g, ok)
    BY DEF RollbackDisarm, RollbackClear, Disarm
  <2>4. guard \in Guards /\ g \in Guards /\ ~g.armed
    BY <2>1, <2>2 DEF RollbackInv, BackupInv, TypeInv, TypeOK
  <2>5. guard' = g \/ guard' \in GuardPrefixes(guard, g)
    BY <2>3 DEF WriteGuard
  <2>6. QED
    BY <2>4, <2>5, PrefixDisarms
<1>3. guard'.armed => NamesPrior(manifest)'
  BY <1>1, <1>2 DEF RollbackInv, ManifestNames, NamesPrior
<1>4. NamesPrior(wm)'
  BY <1>1 DEF RollbackInv, ManifestNames, NamesPrior
<1>5. Disturbances' <= 1 /\ Pathless(guard)'
        => Disturbances' = 1 /\ HasPath(manifest)' /\ wm'.backup # NoFile
  BY <1>1, <1>2 DEF RollbackInv, StandsIn, Pathless, HasPath, Grows
<1> QED BY <1>1, <1>3, <1>4, <1>5, InRecovery

\* The guard is armed with the path that the manifest has stored already.
LEMMA ArmRollbacks ==
  ASSUME Undisturbed, RollbackInv, Grows, InstallFailed \/ ArmHealthcheck
  PROVE  ManifestNames' /\ StandsIn'
<1>1. PICK state \in GuardStates, ok \in BOOLEAN : WriteGuard(ArmedGuard(state), ok)
  BY DEF InstallFailed, ArmHealthcheck, ArmGuard, GuardStates
<1>2. /\ mode = "recovery" /\ wk \in {"fail_arm", "arm"} /\ wk' \in Restoring \ Installing
      /\ UNCHANGED <<manifest, backup, prior, wm, appVars>>
  BY DEF InstallFailed, ArmHealthcheck, ArmGuard, Worker, flashVars, workRest, Restoring,
     Installing
<1>3. /\ wm.backup # NoFile /\ backup[wm.backup] = prior
      /\ manifest.backup = wm.backup /\ manifest.state # "absent"
  BY <1>2 DEF RollbackInv, ManifestNames, BackupInv, TypeInv, Consistent, GuardInv, CopiesName,
     Installing
<1>4. NamesPrior(manifest)' /\ NamesPrior(wm)' /\ HasPath(manifest)'
  BY <1>2, <1>3 DEF NamesPrior, HasPath
<1>5. Pathless(guard)' => faults' = faults + 1
  <2>1. ArmedGuard(state).backup = wm.backup
    BY DEF ArmedGuard
  <2>2. guard' = ArmedGuard(state) \/ faults' = faults + 1
    BY <1>1, GuardCosts
  <2>3. QED
    BY <1>3, <2>1, <2>2 DEF Pathless
<1> QED BY <1>2, <1>3, <1>4, <1>5, InRecovery DEF Grows

LEMMA CopyRollback ==
  ASSUME RollbackInv, Grows, BackupOpen \/ BackupCopy PROVE ManifestNames' /\ StandsIn'
<1>1. /\ mode = "recovery" /\ wk \in {"copy_open", "copy"} /\ UNCHANGED <<guard, appVars>>
      /\ wk' \notin Installing \cup Restoring
  BY DEF BackupOpen, BackupCopy, Worker, savedVars, workRest, Installing, Restoring
<1>2. ~guard'.armed
  BY <1>1 DEF RollbackInv, BackupInv, GuardInv, StagedCleared, Cleared
<1> QED BY <1>1, <1>2, InRecovery DEF Pathless

LEMMA WorkerRollback ==
  ASSUME Undisturbed, RollbackInv, Grows, WorkerNext PROVE ManifestNames' /\ StandsIn'
<1>1. CASE WorkerRestart
  BY <1>1, ResetRollback DEF WorkerRestart, flashVars
<1> QED BY <1>1, StartRollback, MarksRollback, BeginRollback, FlashRollback, DisarmRollback,
           ArmRollbacks, CopyRollback DEF WorkerNext

-----------------------------------------------------------------------------
\* Staging.

LEMMA WebRollback ==
  ASSUME RollbackInv, Grows, WebClear \/ WebSave PROVE ManifestNames' /\ StandsIn'
<1>1. /\ mode = "recovery" /\ wk' \in {"idle", "countdown", "restart"}
      /\ UNCHANGED <<backup, prior, appVars>>
  BY DEF WebClear, WebSave, webRest, workVars, RollbackInv, BackupInv, GuardInv, ProgramsApart
<1>2. wk' \notin Installing \cup Restoring
  BY <1>1 DEF Installing, Restoring
<1>3. CASE WebClear
  <2>1. PICK ok \in BOOLEAN : WriteGuard(NoGuard, ok)
    BY <1>3 DEF WebClear
  <2>2. guard' = guard \/ ~guard'.armed
    BY <2>1, ClearDisarms DEF RollbackInv, BackupInv, TypeInv, TypeOK
  <2>3. UNCHANGED manifest
    BY <1>3 DEF WebClear
  <2>4. guard'.armed => NamesPrior(manifest)'
    BY <1>1, <2>2, <2>3 DEF RollbackInv, ManifestNames, NamesPrior
  <2>5. Disturbances' <= 1 /\ Pathless(guard)' => Disturbances' = 1 /\ HasPath(manifest)'
    BY <2>2, <2>3 DEF RollbackInv, StandsIn, Pathless, HasPath, Grows
  <2>6. QED
    BY <1>1, <1>2, <2>4, <2>5, InRecovery
<1>4. CASE WebSave
  <2>1. ~guard'.armed
    BY <1>4 DEF WebSave, RollbackInv, BackupInv, GuardInv, StagedCleared, Cleared
  <2>2. QED
    BY <1>1, <1>2, <2>1, InRecovery DEF Pathless
<1> QED BY <1>3, <1>4

LEMMA ShellRollback ==
  ASSUME RollbackInv, Grows, ShellClear \/ ShellSave PROVE ManifestNames' /\ StandsIn'
<1>1. /\ wk = "off" /\ apc = "loop" /\ ~mon
      /\ UNCHANGED <<backup, prior, wk, apc, mon, gg, am>>
  BY DEF ShellClear, ShellSave, shellRest, workVars, RollbackInv, BackupInv, GuardInv,
     ProgramsApart
<1>2. wk' \notin Installing \cup Restoring
  BY <1>1 DEF Installing, Restoring
<1>3. am' = NoManifest
  BY <1>1 DEF RollbackInv, ManifestNames
<1>4. CASE ShellClear
  <2>1. PICK ok \in BOOLEAN : WriteGuard(NoGuard, ok)
    BY <1>4 DEF ShellClear
  <2>2. guard' = guard \/ ~guard'.armed
    BY <2>1, ClearDisarms DEF RollbackInv, BackupInv, TypeInv, TypeOK
  <2>3. UNCHANGED manifest
    BY <1>4 DEF ShellClear
  <2>4. guard'.armed => NamesPrior(manifest)'
    BY <1>1, <2>2, <2>3 DEF RollbackInv, ManifestNames, NamesPrior
  <2>5. Disturbances' <= 1 /\ Pathless(guard)' => Disturbances' = 1 /\ HasPath(manifest)'
    BY <2>2, <2>3 DEF RollbackInv, StandsIn, Pathless, HasPath, Grows
  <2>6. QED
    BY <1>1, <1>2, <1>3, <2>4, <2>5, InApplication
<1>5. CASE ShellSave
  <2>1. ~guard'.armed
    BY <1>5 DEF ShellSave, RollbackInv, BackupInv, GuardInv, StagedCleared, Cleared
  <2>2. QED
    BY <1>1, <1>2, <1>3, <2>1, InApplication DEF Pathless
<1> QED BY <1>4, <1>5

LEMMA StagingRollback ==
  ASSUME RollbackInv, Grows, StagingNext PROVE ManifestNames' /\ StandsIn'
<1>1. CASE WebRestart \/ ShellRestart
  BY <1>1, ResetRollback DEF WebRestart, ShellRestart, flashVars
<1>2. CASE \/ \E f \in Files : WebHash(f) \/ WebDelete(f)
           \/ WebSelect
           \/ \E f \in Files, c \in Uploads : Upload(f, c)
           \/ \E f \in Files, opt \in ShellOptions : ShellHash(f, opt)
           \/ ShellSelect
  BY <1>2, UnseenRollback DEF WebHash, WebDelete, WebSelect, Upload, ShellHash, ShellSelect,
     webRest, shellRest, workVars, appVars
<1> QED BY <1>1, <1>2, WebRollback, ShellRollback DEF StagingNext

-----------------------------------------------------------------------------
\* The application, and resets.

\* A step that stores nothing and keeps what the application knows of the guard.
LEMMA ApplicationOnly ==
  ASSUME RollbackInv, Grows, wk' \notin Installing \cup Restoring,
         apc \notin {"to_write", "cf_load", "cf_write"},
         apc' \notin {"to_write", "cf_load", "cf_write"},
         UNCHANGED <<savedVars, backup, prior, mon, gg, am>>
  PROVE  ManifestNames' /\ StandsIn'
<1>1. am' = NoManifest
  BY DEF RollbackInv, ManifestNames
<1>2. guard'.armed \/ mon' => NamesPrior(manifest)'
  BY DEF RollbackInv, ManifestNames, NamesPrior, savedVars
<1>3. Disturbances' <= 1 /\ (Pathless(guard)' \/ (mon' /\ gg'.backup = NoFile))
        => Disturbances' = 1 /\ HasPath(manifest)'
  BY DEF RollbackInv, StandsIn, Pathless, HasPath, Grows, savedVars
<1>4. Disturbances' = 0 /\ mon' => guard'.backup # NoFile
  <2>1. Disturbances = 0 => Disturbances <= 1
    BY DEF Disturbances
  <2>2. QED
    BY <2>1 DEF RollbackInv, StandsIn, Grows, savedVars
<1> QED BY <1>1, <1>2, <1>3, <1>4, InApplication

LEMMA BootRollback ==
  ASSUME RollbackInv, Grows, Boot PROVE ManifestNames' /\ StandsIn'
<1>1. /\ apc = "off" /\ apc' \in {"guard", "off"} /\ wk' \in {"start", "off"}
      /\ UNCHANGED <<savedVars, backup, prior, mon, gg, am>>
  BY DEF Boot, flashVars, RollbackInv, BackupInv, GuardInv, ProgramsApart
<1> QED BY <1>1, ApplicationOnly DEF Installing, Restoring

\* While the application runs the worker is off.
LEMMA WorkerOff ==
  ASSUME RollbackInv, mode = "app", UNCHANGED workVars
  PROVE  wk' \notin Installing \cup Restoring
BY DEF RollbackInv, BackupInv, GuardInv, ProgramsApart, workVars, Installing, Restoring

LEMMA BootGuardRollback ==
  ASSUME RollbackInv, Grows, BootGuard PROVE ManifestNames' /\ StandsIn'
<1>1. /\ mode = "app" /\ apc = "guard" /\ apc' \in {"over", "init"}
      /\ UNCHANGED <<manifest, backup, prior, am, workVars>>
  BY DEF BootGuard, App, appRest
<1>2. wk' \notin Installing \cup Restoring /\ am' = NoManifest /\ ~mon
  BY <1>1, WorkerOff DEF RollbackInv, ManifestNames, BackupInv, GuardInv, ProgramsApart
<1>3. CASE /\ InTrial
           /\ \E ok \in BOOLEAN :
                /\ WriteGuard(CountedGuard, ok)
                /\ mon' = ok /\ gg' = IF ok THEN CountedGuard ELSE NoGuard
  <2>1. PICK ok \in BOOLEAN :
          /\ WriteGuard(CountedGuard, ok)
          /\ mon' = ok /\ gg' = IF ok THEN CountedGuard ELSE NoGuard
    BY <1>3
  <2>2. guard \in Guards /\ faults \in Nat
    BY DEF RollbackInv, BackupInv, TypeInv, TypeOK
  <2>3. /\ CountedGuard \in Guards /\ CountedGuard.backup = guard.backup
        /\ CountedGuard.armed = guard.armed
    BY <2>2 DEF CountedGuard, Guards
  <2>4. guard'.backup = guard.backup /\ guard'.armed = guard.armed /\ guard.armed
    BY <1>3, <2>1, <2>2, <2>3, WriteGuardTyped DEF InTrial
  <2>5. mon' => gg'.backup = guard.backup
    BY <2>1, <2>3
  <2>6. NamesPrior(manifest)'
    BY <1>1, <2>4 DEF RollbackInv, ManifestNames, NamesPrior
  <2>7. Disturbances' <= 1 /\ guard.backup = NoFile => Disturbances' = 1 /\ HasPath(manifest)'
    BY <1>1, <2>4 DEF RollbackInv, StandsIn, Pathless, HasPath, Grows
  <2>8. Disturbances' = 0 => guard'.backup # NoFile
    <3>1. Disturbances' = 0 => Disturbances = 0 /\ Disturbances <= 1
      BY DEF Grows, Disturbances
    <3>2. QED
      BY <2>4, <3>1 DEF RollbackInv, StandsIn, Pathless, Grows
  <2>9. QED
    BY <1>1, <1>2, <2>4, <2>5, <2>6, <2>7, <2>8, InApplication DEF Pathless
<1>4. CASE UNCHANGED <<guard, mon, gg>>
  BY <1>1, <1>2, <1>4, ApplicationOnly DEF savedVars
<1> QED BY <1>1, <1>3, <1>4 DEF BootGuard

\* The guard asks for rollback with the path it had on trial.
LEMMA ArmRollbackRollback ==
  ASSUME RollbackInv, Grows, BootLimit \/ HealthTimeout PROVE ManifestNames' /\ StandsIn'
<1>1. /\ mode = "app" /\ apc \in {"over", "to_save"} /\ apc' \in {"over_boot", "to_load"}
      /\ gg' = RollbackGuard /\ \E ok \in BOOLEAN : WriteGuard(RollbackGuard, ok)
      /\ UNCHANGED <<manifest, backup, prior, mon, am, workVars>>
  BY DEF BootLimit, HealthTimeout, ArmRollback, App, appRest
<1>2. wk' \notin Installing \cup Restoring /\ am' = NoManifest /\ mon
  BY <1>1, WorkerOff DEF RollbackInv, ManifestNames, BackupInv, GuardInv, ProgramsApart
<1>3. NamesPrior(manifest)'
  BY <1>1, <1>2 DEF RollbackInv, ManifestNames, NamesPrior
<1>4. RollbackGuard \in Guards /\ RollbackGuard.backup = gg.backup
  BY DEF RollbackGuard, RollbackInv, BackupInv, TypeInv, TypeOK, Guards, GuardStates
<1>5. PICK ok \in BOOLEAN : WriteGuard(RollbackGuard, ok)
  BY <1>1
<1>6. /\ guard'.backup \in {guard.backup, gg.backup}
      /\ guard' = RollbackGuard \/ faults' = faults + 1
  BY <1>4, <1>5, WriteGuardTyped, GuardCosts DEF RollbackInv, BackupInv, TypeInv, TypeOK
<1>7. Disturbances' <= 1 /\ gg.backup = NoFile => Disturbances' = 1 /\ HasPath(manifest)'
  BY <1>1, <1>2 DEF RollbackInv, StandsIn, HasPath, Grows
<1>8. Disturbances' <= 1 /\ gg.backup # NoFile => guard'.backup # NoFile
  <2>1. CASE guard' = RollbackGuard
    BY <1>4, <2>1
  <2>2. CASE faults' = faults + 1 /\ Disturbances' <= 1
    <3>1. Disturbances = 0 /\ Disturbances <= 1
      BY <2>2 DEF Grows
    <3>2. guard.backup # NoFile
      BY <1>1, <1>2, <3>1 DEF RollbackInv, StandsIn
    <3>3. QED
      BY <1>6, <3>2
  <2>3. QED
    BY <1>6, <2>1, <2>2
<1>9. Disturbances' = 0 => Disturbances' <= 1 /\ Disturbances' # 1
  BY DEF Disturbances
<1>10. gg'.backup = gg.backup
  BY <1>1, <1>4
<1> QED BY <1>1, <1>2, <1>3, <1>7, <1>8, <1>9, <1>10, InApplication DEF Pathless

LEMMA ApplicationSteps ==
  ASSUME RollbackInv, Grows,
         \/ AppInit \/ (\E d \in 1..MaxStall : Process(d))
         \/ BootLimitRestart \/ TimeoutRestart
  PROVE  ManifestNames' /\ StandsIn'
<1>1. CASE Restart /\ UNCHANGED <<savedVars, backup, prior>>
  BY <1>1, ResetRollback
<1>2. CASE /\ mode = "app" /\ apc \in {"init", "loop", "over_boot", "to_boot"}
           /\ apc' \in {"init", "loop", "to_save", "cf_clear"}
           /\ UNCHANGED <<savedVars, backup, prior, mon, gg, am, workVars>>
  BY <1>2, WorkerOff, ApplicationOnly
<1> QED BY <1>1, <1>2 DEF AppInit, Process, BootLimitRestart, TimeoutRestart, BootRecovery, App,
     appRest, flashVars

LEMMA LoadRollback ==
  ASSUME RollbackInv, Grows, TimeoutLoad \/ ConfirmLoad PROVE ManifestNames' /\ StandsIn'
<1>1. /\ mode = "app" /\ apc \in {"to_load", "cf_load"}
      /\ apc' \in {"to_write", "to_boot", "cf_write"}
      /\ UNCHANGED <<savedVars, backup, prior, mon, gg, workVars>>
      /\ apc = "to_load" \/ apc' = "cf_write"
  BY DEF TimeoutLoad, ConfirmLoad, ManifestLoad, App, appRest
<1>2. wk' \notin Installing \cup Restoring /\ am = NoManifest /\ mon
  BY <1>1, WorkerOff DEF RollbackInv, ManifestNames, BackupInv, GuardInv, ProgramsApart
<1>3. NamesPrior(manifest)
  BY <1>2 DEF RollbackInv, ManifestNames
<1> DEFINE Loaded == \/ am' = NoManifest /\ apc' # "to_write"
                     \/ /\ am'.backup = manifest.backup /\ am'.state # "absent"
                        /\ apc' \in {"to_write", "cf_write"}
<1>4. Loaded
  <2>1. ASSUME NEW pc, NEW state \in {"rollback_pending", "confirmed"},
               NEW next \in {"to_write", "cf_write"}, NEW skip \in {"to_boot", "cf_write"},
               ManifestLoad(pc, state, next, skip)
        PROVE  Loaded
    BY <1>2, <2>1 DEF ManifestLoad, RollbackInv, BackupInv, TypeInv, TypeOK, Manifests
  <2>2. QED
    BY <2>1 DEF TimeoutLoad, ConfirmLoad
<1>5. NamesPrior(manifest)' /\ NamesPrior(am)'
  BY <1>1, <1>3, <1>4 DEF NamesPrior, savedVars, NoManifest
<1>6. Disturbances' <= 1 /\ (Pathless(guard)' \/ gg'.backup = NoFile)
        => Disturbances' = 1 /\ HasPath(manifest)'
  BY <1>1, <1>2 DEF RollbackInv, StandsIn, Pathless, HasPath, Grows, savedVars
<1>7. HasPath(manifest)' /\ am'.state # "absent" => am'.backup # NoFile
  BY <1>1, <1>4 DEF HasPath, savedVars, NoManifest
<1>8. Disturbances' = 0 /\ apc' \notin {"cf_load", "cf_write"} => guard'.backup # NoFile
  <2>1. Disturbances = 0 => Disturbances <= 1
    BY DEF Disturbances
  <2>2. QED
    BY <1>1, <1>2, <2>1 DEF RollbackInv, StandsIn, Grows, savedVars
<1>9. /\ apc' = "to_write" => am'.state # "absent"
      /\ apc' \notin {"to_write", "cf_write"} => am' = NoManifest
  BY <1>4
<1> QED BY <1>2, <1>5, <1>6, <1>7, <1>8, <1>9, InApplication

LEMMA StoreRollback ==
  ASSUME Undisturbed, RollbackInv, Grows, TimeoutWrite \/ ConfirmWrite
  PROVE  ManifestNames' /\ StandsIn'
<1>1. /\ mode = "app" /\ apc \in {"to_write", "cf_write"} /\ am' = NoManifest
      /\ \/ apc = "to_write" /\ apc' = "to_boot" /\ UNCHANGED <<mon, gg>>
         \/ apc = "cf_write" /\ apc' = "loop" /\ mon' = FALSE
      /\ UNCHANGED <<guard, backup, prior, workVars>>
  BY DEF TimeoutWrite, ConfirmWrite, Confirmed, App, appRest
<1>2. \/ am.state = "absent" /\ apc = "cf_write" /\ UNCHANGED manifest
      \/ am.state # "absent" /\ \E ok \in BOOLEAN : WriteManifest(am, ok)
  BY DEF TimeoutWrite, ConfirmWrite, App, RollbackInv, ManifestNames
<1>3. wk' \notin Installing \cup Restoring /\ mon
  BY <1>1, WorkerOff DEF RollbackInv, BackupInv, GuardInv, ProgramsApart
<1>4. /\ manifest' \in {manifest, am, NoManifest}
      /\ (UNCHANGED manifest /\ am.state = "absent")
         \/ (manifest' = am /\ am.state # "absent") \/ faults' = faults + 1
  <2>1. ASSUME NEW ok \in BOOLEAN, WriteManifest(am, ok)
        PROVE  manifest' \in {manifest, am, NoManifest}
               /\ (manifest' = am \/ faults' = faults + 1)
    BY <2>1, ManifestCosts DEF WriteManifest, Undisturbed
  <2>2. QED
    BY <1>2, <2>1
<1>5. NamesPrior(manifest) /\ NamesPrior(am)
  BY <1>1, <1>3 DEF RollbackInv, ManifestNames
<1>6. NamesPrior(manifest)'
  BY <1>1, <1>4, <1>5 DEF NamesPrior, NoManifest
<1>7. Disturbances' <= 1 /\ (Pathless(guard)' \/ (mon' /\ gg'.backup = NoFile))
        => Disturbances' = 1 /\ HasPath(manifest)'
  <2>1. SUFFICES ASSUME Disturbances' <= 1, Pathless(guard)' \/ (mon' /\ gg'.backup = NoFile)
                 PROVE  Disturbances' = 1 /\ HasPath(manifest)'
    OBVIOUS
  <2>2. Disturbances <= 1 /\ (Pathless(guard) \/ gg.backup = NoFile)
        /\ (Pathless(guard) \/ (mon /\ gg.backup = NoFile))
    BY <1>1, <1>3, <2>1 DEF Pathless, Grows
  <2>3. /\ Disturbances = 1 /\ HasPath(manifest)
        /\ am.state # "absent" => am.backup # NoFile
    BY <1>1, <2>2 DEF RollbackInv, StandsIn
  <2>4. Disturbances' = 1 /\ faults' # faults + 1
    BY <2>1, <2>3 DEF Grows
  <2>5. QED
    BY <1>4, <2>3, <2>4 DEF HasPath
<1>8. Disturbances' = 0 /\ mon' => guard'.backup # NoFile
  <2>1. Disturbances = 0 => Disturbances <= 1
    BY DEF Disturbances
  <2>2. QED
    BY <1>1, <2>1 DEF RollbackInv, StandsIn, Grows
<1> QED BY <1>1, <1>3, <1>6, <1>7, <1>8, InApplication

LEMMA ConfirmRollback ==
  ASSUME RollbackInv, Grows, ConfirmClear PROVE ManifestNames' /\ StandsIn'
<1>1. /\ mode = "app" /\ apc = "cf_clear"
      /\ UNCHANGED <<manifest, backup, prior, mon, gg, am, workVars>>
  BY DEF ConfirmClear, App, flashVars
<1>2. wk' \notin Installing \cup Restoring /\ am' = NoManifest /\ mon
  BY <1>1, WorkerOff DEF RollbackInv, ManifestNames, BackupInv, GuardInv, ProgramsApart
<1>3. PICK ok \in BOOLEAN :
        WriteGuard(NoGuard, ok) /\ apc' = IF ok THEN "cf_load" ELSE "loop"
  BY DEF ConfirmClear
<1>4. guard' = guard \/ ~guard'.armed
  BY <1>3, ClearDisarms DEF RollbackInv, BackupInv, TypeInv, TypeOK
<1>5. NamesPrior(manifest)'
  BY <1>1, <1>2 DEF RollbackInv, ManifestNames, NamesPrior
<1>6. Disturbances' <= 1 /\ (Pathless(guard)' \/ gg'.backup = NoFile)
        => Disturbances' = 1 /\ HasPath(manifest)'
  BY <1>1, <1>2, <1>4 DEF RollbackInv, StandsIn, Pathless, HasPath, Grows
<1>7. Disturbances' = 0 => apc' = "cf_load"
  <2>1. ok \/ faults' = faults + 1
    BY <1>3, GuardCosts
  <2>2. QED
    BY <1>3, <2>1 DEF Grows
<1>8. apc' \notin {"to_write", "cf_write"}
  BY <1>3
<1> QED BY <1>2, <1>5, <1>6, <1>7, <1>8, InApplication

LEMMA AppRollback ==
  ASSUME Undisturbed, RollbackInv, Grows, AppNext PROVE ManifestNames' /\ StandsIn'
BY BootGuardRollback, ArmRollbackRollback, ApplicationSteps, LoadRollback, StoreRollback,
   ConfirmRollback DEF AppNext

\* A reset cannot cut short a guard write and lose the manifest at once.
LEMMA CrashRollback ==
  ASSUME RollbackInv, Grows, Crash PROVE ManifestNames' /\ StandsIn'
<1>1. /\ Restart /\ manifest' \in {manifest, NoManifest} /\ crashes' = crashes + 1
      /\ ~ManifestUnderWrite => manifest' = manifest
      /\ UNCHANGED <<backup, prior>>
  BY DEF Crash, flashVars
<1>2. Disturbances' <= 1 => Disturbances' = 1 /\ Disturbances = 0 /\ Disturbances <= 1
  BY <1>1 DEF Grows
<1>3. Disturbances' <= 1 => ~Pathless(guard)
  BY <1>2 DEF RollbackInv, StandsIn
<1>4. /\ NamesPrior(manifest) => NamesPrior(manifest)'
      /\ guard.armed => NamesPrior(manifest)
  BY <1>1 DEF RollbackInv, ManifestNames, NamesPrior, NoManifest
<1>5. CASE guard' = guard \/ ~guard'.armed
  BY <1>1, <1>3, <1>4, <1>5, AfterReset DEF Pathless
<1>6. ASSUME NEW g \in Guards, GuardWrite(g), guard' \in GuardPrefixes(guard, g)
      PROVE  ManifestNames' /\ StandsIn'
  <2>1. guard \in Guards
    BY DEF RollbackInv, BackupInv, TypeInv, TypeOK
  <2>2. guard'.backup \in {guard.backup, g.backup}
    BY <1>6, <2>1, PrefixTyped
  <2>3. CASE g \in {NoGuard, DisarmedGuard}
    <3>1. ~g.armed
      <4>1. ~NoGuard.armed
        BY DEF NoGuard
      <4>2. ~DisarmedGuard.armed
        BY DEF DisarmedGuard, RollbackInv, BackupInv, TypeInv, TypeOK, Guards
      <4>3. QED
        BY <2>3, <4>1, <4>2
    <3>2. QED
      BY <1>5, <1>6, <2>1, <3>1, PrefixDisarms
  <2>4. CASE wk \in {"fail_arm", "arm"}
    <3>1. /\ manifest.state # "absent" /\ manifest.backup = wm.backup
          /\ wm.backup # NoFile /\ backup[wm.backup] = prior
      BY <2>4 DEF RollbackInv, ManifestNames, Installing, BackupInv, TypeInv, Consistent,
         GuardInv, CopiesName
    <3>2. web.pc = "free" /\ sh.pc = "free" /\ apc = "off"
      BY <2>4 DEF RollbackInv, BackupInv, GuardInv, ProgramsApart
    <3>3. manifest' = manifest
      BY <1>1, <2>4, <3>2 DEF ManifestUnderWrite
    <3>4. NamesPrior(manifest)' /\ HasPath(manifest)'
      BY <1>1, <3>1, <3>3 DEF NamesPrior, HasPath
    <3>5. QED
      BY <1>1, <1>2, <3>4, AfterReset
  <2>5. CASE apc \in {"over", "to_save"} /\ g = RollbackGuard
    <3>1. mon /\ g.backup = gg.backup
      BY <2>5 DEF RollbackGuard, RollbackInv, BackupInv, GuardInv, ProgramsApart, TypeInv,
         TypeOK, Guards
    <3>2. NamesPrior(manifest)'
      BY <1>4, <3>1 DEF RollbackInv, ManifestNames
    <3>3. Disturbances' <= 1 => guard'.backup # NoFile
      BY <1>2, <2>2, <2>5, <3>1 DEF RollbackInv, StandsIn
    <3>4. QED
      BY <1>1, <3>2, <3>3, AfterReset DEF Pathless
  <2>6. QED
    BY <1>6, <2>3, <2>4, <2>5 DEF GuardWrite
<1>7. TypeInv
  BY DEF RollbackInv, BackupInv
<1> QED BY <1>5, <1>6, <1>7, CrashGuard

-----------------------------------------------------------------------------
LEMMA NextRollback == Undisturbed /\ RollbackInv /\ [Next]_vars => RollbackInv'
<1> SUFFICES ASSUME Undisturbed, RollbackInv, [Next]_vars PROVE RollbackInv'
  OBVIOUS
<1>1. BackupInv'
  BY NextBackup DEF RollbackInv
<1>2. CASE Next
  <2>1. Grows
    BY <1>2, DisturbancesGrow DEF RollbackInv, BackupInv
  <2>2. AppReboot => ManifestNames' /\ StandsIn'
    BY <2>1, ResetRollback DEF AppReboot, flashVars
  <2>3. ManifestNames' /\ StandsIn'
    BY <1>2, <2>1, <2>2, BootRollback, WorkerRollback, StagingRollback, AppRollback,
       CrashRollback DEF Next
  <2>4. QED
    BY <1>1, <2>3 DEF RollbackInv
<1>3. CASE UNCHANGED vars
  <2>1. ManifestNames'
    BY <1>3 DEF RollbackInv, ManifestNames, NamesPrior, vars, flashVars, savedVars, workVars,
       appVars
  <2>2. StandsIn'
    BY <1>3 DEF RollbackInv, StandsIn, Disturbances, Pathless, HasPath, vars, flashVars,
       savedVars, workVars, appVars
  <2>3. QED
    BY <1>1, <2>1, <2>2 DEF RollbackInv
<1> QED BY <1>2, <1>3

LEMMA TargetNamed == RollbackInv => RollbackTarget
<1> SUFFICES ASSUME RollbackInv, RollbackArmed, Disturbances <= 1
             PROVE  EffectiveBackup # NoFile /\ backup[EffectiveBackup] = prior
  BY DEF RollbackTarget, Disturbances
<1>1. CASE guard.backup # NoFile
  BY <1>1 DEF EffectiveBackup, RollbackInv, BackupInv, GuardInv, GuardBackup
<1>2. CASE guard.backup = NoFile
  BY <1>2 DEF EffectiveBackup, RollbackArmed, RollbackInv, ManifestNames, NamesPrior, StandsIn,
     Pathless, HasPath
<1> QED BY <1>1, <1>2

\* In the setting of Undisturbed, an armed rollback restores what app0 held before the
\* last install if no more than one power loss or failed operation has come: whichever
\* write it cut short, guard and manifest together still name that copy.
THEOREM RollbackRestores == ASSUME Undisturbed PROVE Spec => []RollbackTarget
<1>1. Init => RollbackInv
  BY RollbackInit
<1>2. RollbackInv /\ [Next]_vars => RollbackInv'
  BY NextRollback
<1>3. RollbackInv => RollbackTarget
  BY TargetNamed
<1>4. QED
  BY <1>1, <1>2, <1>3, PTL DEF Spec

\* Whoever erases app0 has the copy of what it held.
LEMMA WipeStep ==
  ASSUME RollbackInv, [Next]_vars, Bootable, app0' \notin Images, prior \in Images
  PROVE  \E f \in Files : backup[f] \in Images
<1>1. app0' # app0
  BY DEF Bootable
<1>2. wk \in {"rb_erase", "rb_write", "rb_finish", "begin", "write", "finish"}
  <2>1. CASE UNCHANGED vars
    BY <1>1, <2>1 DEF vars, flashVars
  <2>2. CASE WorkerNext
    <3>1. CASE \/ RestoreErase \/ RestoreWrite \/ RestoreFinish
               \/ InstallBegin \/ InstallWrite \/ InstallFinish
      BY <3>1 DEF RestoreErase, RestoreWrite, RestoreFinish, InstallBegin, InstallWrite,
         InstallFinish, Worker
    <3>2. CASE \/ WorkerStart \/ RollbackBegin \/ RollbackFailed \/ RollbackDisarm
               \/ RollbackClear \/ RollbackDone \/ BootApp0 \/ WorkerRestart \/ RejectSignature
               \/ AcceptInstall \/ BackupOpen \/ BackupCopy
      BY <1>1, <3>2 DEF WorkerStart, RollbackBegin, RollbackFailed, RollbackDisarm,
         RollbackClear, RollbackDone, BootApp0, WorkerRestart, RejectSignature, AcceptInstall,
         BackupOpen, BackupCopy, MarkManifest, Disarm, SelectApp0, flashVars
    <3>3. CASE \/ BackupFailed \/ MarkCopied \/ InstallFailed \/ MarkRollback \/ ArmHealthcheck
               \/ ArmFailed \/ MarkHealthcheck \/ Fallback \/ AutobootPaused \/ Autoboot
      BY <1>1, <3>3 DEF BackupFailed, MarkCopied, InstallFailed, MarkRollback, ArmHealthcheck,
         ArmFailed, MarkHealthcheck, Fallback, AutobootPaused, Autoboot, MarkManifest,
         SelectApp0, ArmGuard, flashVars
    <3>4. QED
      BY <2>2, <3>1, <3>2, <3>3 DEF WorkerNext
  <2>3. CASE StagingNext
    BY <1>1, <2>3 DEF StagingNext, WebHash, WebDelete, WebClear, WebSave, WebSelect, WebRestart,
       Upload, ShellHash, ShellClear, ShellSave, ShellSelect, ShellRestart, webRest, shellRest,
       flashVars
  <2>4. CASE AppNext
    BY <1>1, <2>4 DEF AppNext, BootGuard, BootLimit, BootLimitRestart, AppInit, Process,
       HealthTimeout, TimeoutLoad, TimeoutWrite, TimeoutRestart, ConfirmClear, ConfirmLoad,
       ConfirmWrite, ArmRollback, BootRecovery, ManifestLoad, appRest, flashVars
  <2>5. CASE Boot \/ Crash \/ AppReboot
    BY <1>1, <2>5 DEF Boot, Crash, AppReboot, flashVars
  <2>6. QED
    BY <2>1, <2>2, <2>3, <2>4, <2>5 DEF Next
<1>3. wm.backup \in Files /\ wm.backup # NoFile
  BY <1>2 DEF RollbackInv, BackupInv, TypeInv, TypeOK, Consistent, Manifests, Paths
<1>4. backup[wm.backup] = prior
  <2>1. CASE wk \in {"begin", "write", "finish"}
    BY <2>1 DEF RollbackInv, BackupInv, GuardInv, CopiesName
  <2>2. CASE wk \in {"rb_erase", "rb_write", "rb_finish"}
    BY <1>3, <2>2 DEF RollbackInv, ManifestNames, NamesPrior, Restoring
  <2>3. QED
    BY <1>2, <2>1, <2>2
<1> QED BY <1>3, <1>4

\* In the setting of Undisturbed, app0 is never given up while it holds the only
\* complete image, whatever fails and however often: an install and a rollback erase it
\* only next to the copy of what the last install replaced, unless that was no complete
\* image.
THEOREM ImageKept == ASSUME Undisturbed PROVE Spec => WipeLeavesImage
<1>1. Init => RollbackInv
  BY RollbackInit
<1>2. RollbackInv /\ [Next]_vars => RollbackInv'
  BY NextRollback
<1>3. RollbackInv /\ [Next]_vars
        => [Bootable /\ app0' \notin Images
              => prior \notin Images \/ \E f \in Files : backup[f] \in Images]_vars
  BY WipeStep
<1>4. QED
  BY <1>1, <1>2, <1>3, PTL DEF Spec, WipeLeavesImage
=============================================================================
