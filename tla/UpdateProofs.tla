---------------------------- MODULE UpdateProofs ----------------------------
(***************************************************************************)
(* Theorems about the update programs, for any set of images and files and *)
(* any number of power losses and failed operations.                       *)
(***************************************************************************)
EXTENDS UpdateProperties, TLAPS

USE UpdateAssumption

LEMMA NoRecordsTyped ==
  /\ NoGuard \in Guards /\ NoManifest \in Manifests /\ NoRequest \in Request
BY DEF NoGuard, Guards, NoManifest, Manifests, NoRequest, Request, GuardStates,
       ManifestStates, Paths, Contents

LEMMA PrefixTyped ==
  ASSUME NEW old \in Guards, NEW new \in Guards, NEW g \in GuardPrefixes(old, new)
  PROVE  /\ g \in Guards
         /\ g.backup \in {old.backup, new.backup}
         /\ g.armed \in {old.armed, new.armed}
BY DEF Guards, GuardPrefixes

LEMMA WriteGuardTyped ==
  ASSUME guard \in Guards, faults \in Nat, NEW g \in Guards, NEW ok \in BOOLEAN,
         WriteGuard(g, ok)
  PROVE  /\ guard' \in Guards /\ faults' \in Nat
         /\ guard'.backup \in {guard.backup, g.backup}
         /\ guard'.armed \in {guard.armed, g.armed}
         /\ ok => guard' = g
<1>1. CASE ok /\ guard' = g /\ UNCHANGED faults
  BY <1>1
<1>2. CASE ~ok /\ FaultOccurs /\ guard' \in GuardPrefixes(guard, g)
  BY <1>2, PrefixTyped DEF FaultOccurs
<1>3. QED
  BY <1>1, <1>2 DEF WriteGuard

LEMMA WriteManifestTyped ==
  ASSUME manifest \in Manifests, faults \in Nat, NEW m \in Manifests,
         NEW ok \in BOOLEAN, WriteManifest(m, ok)
  PROVE  /\ manifest' \in Manifests /\ faults' \in Nat
         /\ manifest' \in {manifest, m, NoManifest}
BY NoRecordsTyped DEF WriteManifest, FaultOccurs

LEMMA RestartTyped ==
  ASSUME Restart
  PROVE  /\ mode' \in {"reset", "app", "recovery", "dead"}
         /\ wk' \in WorkerPCs /\ wm' \in Manifests /\ wg' \in Guards
         /\ onFail' \in {"idle", "fallback"} /\ src' \in Contents
         /\ web' \in Request /\ seen' \in BOOLEAN
         /\ apc' \in AppPCs /\ mon' \in BOOLEAN /\ gg' \in Guards
         /\ elapsed' \in Nat /\ am' \in Manifests /\ sh' \in Request
BY NoRecordsTyped DEF Restart, WorkerPCs, AppPCs, Contents

-----------------------------------------------------------------------------
\* TypeOK is not inductive: the worker reads files[wm.target] and
\* backup[wm.backup], which are contents only if the path is one of a file, and
\* confirmation trusts whatever app0 holds.

Staged == manifest.state = "pending_install"

\* Whoever stages, copies, installs or restores has named the file, a backup
\* that is being restored has been opened, and what runs is a complete image.
Consistent ==
  /\ mode = "app" => app0 \in Images
  /\ Staged => manifest.target # NoFile
  /\ am.state # "pending_install"
  /\ wk \in {"sign", "copy_open", "copy", "mark_copied", "begin"} => wm.target # NoFile
  /\ wk \in {"copy", "mark_copied", "begin", "write", "finish", "fail_arm", "arm",
            "rb_erase", "rb_write", "rb_finish"} => wm.backup # NoFile
  /\ wk \in {"rb_write", "rb_finish"} => backup[wm.backup] # NoFile
  /\ web.pc \in {"clear", "save"} => web.file # NoFile
  /\ sh.pc \in {"clear", "save"} => sh.file # NoFile

TypeInv == TypeOK /\ Consistent

LEMMA InitTyped == Init => TypeInv
<1> SUFFICES ASSUME Init PROVE TypeInv
  OBVIOUS
<1>1. Factory \in Images /\ Factory \in Contents /\ Blank \in Contents
  BY DEF Contents
<1>2. /\ files \in [Files -> Contents \cup {NoFile}]
      /\ backup \in [Files -> Contents \cup {NoFile}]
  BY DEF Init
<1>3. TypeOK
  BY <1>1, <1>2, NoRecordsTyped DEF Init, TypeOK, WorkerPCs, AppPCs
<1>4. Consistent
  BY DEF Init, Consistent, Staged, NoManifest, NoRequest
<1>5. QED
  BY <1>3, <1>4 DEF TypeInv

LEMMA StutterTyped == TypeInv /\ UNCHANGED vars => TypeInv'
BY DEF TypeInv, TypeOK, Consistent, Staged, vars, flashVars, savedVars, workVars,
       webVars, appVars

LEMMA BootTyped == TypeInv /\ Boot => TypeInv'
BY DEF TypeInv, TypeOK, Consistent, Staged, Boot, Bootable, flashVars, savedVars,
       webVars, WorkerPCs, AppPCs

\* What every reset leaves.
LEMMA ResetTyped ==
  ASSUME TypeInv, Restart, manifest' \in {manifest, NoManifest}, guard' \in Guards,
         bootSel' \in {"app0", "recovery"}, UNCHANGED <<app0, files, backup>>,
         UNCHANGED <<prior, trusted>>, crashes' \in Nat, faults' \in Nat
  PROVE  TypeInv'
<1>1. TypeOK'
  BY RestartTyped, NoRecordsTyped DEF TypeInv, TypeOK
<1>2. Consistent'
  BY DEF TypeInv, Consistent, Staged, Restart, NoManifest, NoRequest
<1>3. QED
  BY <1>1, <1>2 DEF TypeInv

-----------------------------------------------------------------------------
\* The worker.

LEMMA MarkManifestTyped ==
  ASSUME TypeInv, NEW pc, NEW state \in ManifestStates \ {"pending_install"},
         NEW next \in WorkerPCs, NEW failed \in WorkerPCs,
         MarkManifest(pc, state, next, failed)
  PROVE  /\ TypeOK'
         /\ wk = pc /\ wk' \in {next, failed} /\ backup' = backup
         /\ manifest' \in {manifest, wm', NoManifest}
         /\ wm'.state = state /\ wm'.target = wm.target /\ wm'.backup = wm.backup
         /\ UNCHANGED <<web, sh, am, mode, app0>>
<1>1. wm' = [wm EXCEPT !.state = state] /\ wm' \in Manifests
  BY DEF MarkManifest, TypeInv, TypeOK, Manifests
<1>2. PICK ok \in BOOLEAN : WriteManifest(wm', ok) /\ wk' = IF ok THEN next ELSE failed
  BY DEF MarkManifest
<1>3. /\ manifest' \in Manifests /\ faults' \in Nat
      /\ manifest' \in {manifest, wm', NoManifest}
  BY <1>1, <1>2, WriteManifestTyped DEF TypeInv, TypeOK
<1>4. TypeOK'
  BY <1>1, <1>2, <1>3 DEF MarkManifest, TypeInv, TypeOK, flashVars, workRest, webVars,
     appVars
<1>5. wm'.state = state /\ wm'.target = wm.target /\ wm'.backup = wm.backup
  BY <1>1 DEF TypeInv, TypeOK, Manifests
<1>6. QED
  BY <1>2, <1>3, <1>4, <1>5 DEF MarkManifest, Worker, flashVars, workRest, webVars, appVars

\* Its uses: none names a file that was not named before.
LEMMA MarkTyped ==
  ASSUME TypeInv,
         \/ RollbackFailed \/ RollbackDone \/ RejectSignature \/ AcceptInstall
         \/ BackupFailed \/ MarkCopied \/ MarkRollback \/ ArmFailed \/ MarkHealthcheck
  PROVE  TypeInv'
<1> DEFINE Frame(pcs, nexts) ==
      /\ TypeOK' /\ wk \in pcs /\ wk' \in nexts /\ backup' = backup
      /\ manifest' \in {manifest, wm', NoManifest}
      /\ wm'.state # "pending_install" /\ wm'.target = wm.target
      /\ wm'.backup = wm.backup
      /\ UNCHANGED <<web, sh, am, mode, app0>>
<1>1. onFail \in {"idle", "fallback"}
  BY DEF TypeInv, TypeOK
<1>2. CASE RollbackFailed
  <2>1. Frame({"rb_failed"}, {"idle", "fallback"})
    BY <1>1, <1>2, MarkManifestTyped DEF RollbackFailed, WorkerPCs, ManifestStates
  <2>2. QED
    BY <2>1 DEF TypeInv, Consistent, Staged, NoManifest
<1>3. CASE RollbackDone
  <2>1. Frame({"rb_done"}, {"boot"})
    BY <1>3, MarkManifestTyped DEF RollbackDone, WorkerPCs, ManifestStates
  <2>2. QED
    BY <2>1 DEF TypeInv, Consistent, Staged, NoManifest
<1>4. CASE RejectSignature
  <2>1. Frame({"sign"}, {"fallback"})
    BY <1>4, MarkManifestTyped DEF RejectSignature, WorkerPCs, ManifestStates
  <2>2. QED
    BY <2>1 DEF TypeInv, Consistent, Staged, NoManifest
<1>5. CASE AcceptInstall
  <2>1. Frame({"sign"}, {"copy_open", "fallback"})
    BY <1>5, MarkManifestTyped DEF AcceptInstall, WorkerPCs, ManifestStates
  <2>2. QED
    BY <2>1 DEF TypeInv, Consistent, Staged, NoManifest
<1>6. CASE BackupFailed
  <2>1. Frame({"copy_failed"}, {"fallback"})
    BY <1>6, MarkManifestTyped DEF BackupFailed, WorkerPCs, ManifestStates
  <2>2. QED
    BY <2>1 DEF TypeInv, Consistent, Staged, NoManifest
<1>7. CASE MarkCopied
  <2>1. Frame({"mark_copied"}, {"begin", "fallback"})
    BY <1>7, MarkManifestTyped DEF MarkCopied, WorkerPCs, ManifestStates
  <2>2. QED
    BY <2>1 DEF TypeInv, Consistent, Staged, NoManifest
<1>8. CASE MarkRollback
  <2>1. Frame({"fail_mark"}, {"rb_begin"})
    BY <1>8, MarkManifestTyped DEF MarkRollback, WorkerPCs, ManifestStates
  <2>2. QED
    BY <2>1 DEF TypeInv, Consistent, Staged, NoManifest
<1>9. CASE ArmFailed
  <2>1. Frame({"arm_failed"}, {"fallback"})
    BY <1>9, MarkManifestTyped DEF ArmFailed, WorkerPCs, ManifestStates
  <2>2. QED
    BY <2>1 DEF TypeInv, Consistent, Staged, NoManifest
<1>10. CASE MarkHealthcheck
  <2>1. Frame({"mark_health"}, {"boot", "fallback"})
    BY <1>10, MarkManifestTyped DEF MarkHealthcheck, WorkerPCs, ManifestStates
  <2>2. QED
    BY <2>1 DEF TypeInv, Consistent, Staged, NoManifest
<1>11. QED
  BY <1>2, <1>3, <1>4, <1>5, <1>6, <1>7, <1>8, <1>9, <1>10

LEMMA StartTyped == TypeInv /\ WorkerStart => TypeInv'
<1> SUFFICES ASSUME TypeInv, WorkerStart PROVE TypeInv'
  OBVIOUS
<1>1. wg' \in Guards /\ faults' \in Nat
  BY NoRecordsTyped DEF WorkerStart, FaultOccurs, TypeInv, TypeOK
<1>2. /\ wm' \in Manifests
      /\ wm' = manifest \/ wk' = "rb_begin"
  BY <1>1 DEF WorkerStart, TypeInv, TypeOK, Manifests, Guards, ManifestStates
<1>3. /\ wk' \in {"rb_begin", "sign", "countdown", "idle"}
      /\ wk' = "sign" => Staged
      /\ onFail' \in {"idle", "fallback"}
  BY DEF WorkerStart, Staged
<1>4. UNCHANGED <<flashVars, savedVars, src, prior, workRest>>
  BY DEF WorkerStart
<1>5. TypeOK'
  BY <1>1, <1>2, <1>3, <1>4 DEF TypeInv, TypeOK, flashVars, savedVars, workRest, webVars,
     appVars, WorkerPCs
<1>6. Consistent'
  BY <1>2, <1>3, <1>4 DEF TypeInv, Consistent, Staged, flashVars, savedVars, workRest,
     webVars, appVars
<1>7. QED
  BY <1>5, <1>6 DEF TypeInv

LEMMA RollbackBeginTyped == TypeInv /\ RollbackBegin => TypeInv'
<1> SUFFICES ASSUME TypeInv, RollbackBegin PROVE TypeInv'
  OBVIOUS
<1>1. RollbackPath \in Paths
  BY DEF RollbackPath, TypeInv, TypeOK, Guards, Manifests
<1>2. CASE RollbackPath = NoFile
  BY <1>2 DEF RollbackBegin, TypeInv, TypeOK, Consistent, Staged, flashVars, workRest,
     webVars, appVars, WorkerPCs
<1>3. CASE RollbackPath # NoFile
  <2>1. /\ wm' = [wm EXCEPT !.state = "rolling_back", !.backup = RollbackPath]
        /\ wk' = "rb_erase"
        /\ \E ok \in BOOLEAN : WriteManifest(wm', ok)
    BY <1>3 DEF RollbackBegin
  <2>2. wm' \in Manifests /\ wm'.state # "pending_install" /\ wm'.backup # NoFile
    BY <1>1, <1>3, <2>1 DEF TypeInv, TypeOK, Manifests, ManifestStates
  <2>3. /\ manifest' \in Manifests /\ faults' \in Nat
        /\ manifest' \in {manifest, wm', NoManifest}
    BY <2>1, <2>2, WriteManifestTyped DEF TypeInv, TypeOK
  <2>4. UNCHANGED <<flashVars, guard, wg, onFail, src, prior, workRest>>
    BY DEF RollbackBegin
  <2>5. TypeOK'
    BY <2>1, <2>2, <2>3, <2>4 DEF TypeInv, TypeOK, flashVars, workRest, webVars, appVars,
       WorkerPCs
  <2>6. Consistent'
    <3>1. wk' = "rb_erase" /\ NoManifest.state # "pending_install"
      BY <2>1 DEF NoManifest
    <3>2. Staged' => manifest'.target # NoFile
      BY <2>2, <2>3, <3>1 DEF TypeInv, Consistent, Staged
    <3>3. QED
      BY <2>2, <2>4, <3>1, <3>2 DEF TypeInv, Consistent, flashVars, workRest, webVars,
         appVars
  <2>7. QED
    BY <2>5, <2>6 DEF TypeInv
<1>4. QED
  BY <1>2, <1>3

\* Steps that only write app0.
LEMMA FlashTyped ==
  ASSUME TypeInv,
         \/ RestoreErase \/ RestoreWrite \/ RestoreFinish
         \/ InstallBegin \/ InstallWrite \/ InstallFinish
  PROVE  TypeInv'
<1>1. Blank \in Contents /\ Torn \in Contents
  BY DEF Contents
<1>2. /\ wm.backup # NoFile => backup[wm.backup] \in Contents \cup {NoFile}
      /\ wm.target # NoFile => files[wm.target] \in Contents \cup {NoFile}
  BY DEF TypeInv, TypeOK, Manifests, Paths
<1>3. CASE RestoreErase
  BY <1>1, <1>2, <1>3 DEF RestoreErase, Worker, FaultOccurs, TypeInv, TypeOK, Consistent,
     Staged, savedVars, workRest, webVars, appVars, WorkerPCs
<1>4. CASE RestoreWrite
  BY <1>1, <1>2, <1>4 DEF RestoreWrite, Worker, FaultOccurs, TypeInv, TypeOK, Consistent,
     Staged, savedVars, workRest, webVars, appVars, WorkerPCs
<1>5. CASE RestoreFinish
  BY <1>1, <1>2, <1>5 DEF RestoreFinish, Worker, FaultOccurs, TypeInv, TypeOK, Consistent,
     Staged, savedVars, workRest, webVars, appVars, WorkerPCs
<1>6. CASE InstallBegin
  BY <1>1, <1>2, <1>6 DEF InstallBegin, Worker, FaultOccurs, TypeInv, TypeOK, Consistent,
     Staged, savedVars, workRest, webVars, appVars, WorkerPCs
<1>7. CASE InstallWrite
  BY <1>1, <1>2, <1>7 DEF InstallWrite, Worker, FaultOccurs, TypeInv, TypeOK, Consistent,
     Staged, savedVars, workRest, webVars, appVars, WorkerPCs
<1>8. CASE InstallFinish
  BY <1>1, <1>2, <1>8 DEF InstallFinish, Worker, FaultOccurs, TypeInv, TypeOK, Consistent,
     Staged, savedVars, workRest, webVars, appVars, WorkerPCs
<1>9. QED
  BY <1>3, <1>4, <1>5, <1>6, <1>7, <1>8

\* Steps that write the guard.
LEMMA DisarmTyped ==
  TypeInv /\ (RollbackDisarm \/ RollbackClear) => TypeInv'
<1> SUFFICES ASSUME TypeInv, RollbackDisarm \/ RollbackClear PROVE TypeInv'
  OBVIOUS
<1>1. DisarmedGuard \in Guards /\ wg \in Guards
  BY DEF DisarmedGuard, TypeInv, TypeOK, Guards, GuardStates
<1>2. PICK g \in Guards, h \in Guards, ok \in BOOLEAN :
        /\ wg' = g /\ WriteGuard(h, ok)
        /\ wk' \in {"rb_clear", "rb_done"}
        /\ UNCHANGED <<flashVars, manifest, wm, onFail, src, prior, workRest>>
  BY <1>1, NoRecordsTyped DEF RollbackDisarm, RollbackClear, Disarm
<1>3. guard' \in Guards /\ faults' \in Nat
  BY <1>2, WriteGuardTyped DEF TypeInv, TypeOK
<1>4. QED
  BY <1>2, <1>3 DEF TypeInv, TypeOK, Consistent, Staged, flashVars, workRest, webVars,
     appVars, WorkerPCs

LEMMA ArmTyped ==
  TypeInv /\ (InstallFailed \/ ArmHealthcheck) => TypeInv'
<1> SUFFICES ASSUME TypeInv, InstallFailed \/ ArmHealthcheck PROVE TypeInv'
  OBVIOUS
<1>1. \A s \in GuardStates : ArmedGuard(s) \in Guards
  BY DEF ArmedGuard, TypeInv, TypeOK, Guards, Manifests
<1>2. PICK ok \in BOOLEAN :
        /\ wg' \in Guards /\ WriteGuard(wg', ok)
        /\ wk' \in {"fail_mark", "mark_health", "arm_failed"}
        /\ UNCHANGED <<flashVars, manifest, wm, onFail, src, prior, workRest>>
  BY <1>1 DEF InstallFailed, ArmHealthcheck, ArmGuard, GuardStates
<1>3. guard' \in Guards /\ faults' \in Nat
  BY <1>2, WriteGuardTyped DEF TypeInv, TypeOK
<1>4. QED
  BY <1>2, <1>3 DEF TypeInv, TypeOK, Consistent, Staged, flashVars, workRest, webVars,
     appVars, WorkerPCs

\* Copying app0.
LEMMA CopyTyped == TypeInv /\ (BackupOpen \/ BackupCopy) => TypeInv'
<1> SUFFICES ASSUME TypeInv, BackupOpen \/ BackupCopy PROVE TypeInv'
  OBVIOUS
<1>1. Blank \in Contents /\ Torn \in Contents /\ app0 \in Contents
  BY DEF Contents, TypeInv, TypeOK
<1>2. \A p, c : c \in Contents =>
        [backup EXCEPT ![p] = c] \in [Files -> Contents \cup {NoFile}]
  BY DEF TypeInv, TypeOK
<1>3. CASE BackupOpen
  <2>1. wm' \in Manifests /\ wm'.target = wm.target /\ wm'.backup # NoFile
    BY <1>3 DEF BackupOpen, Worker, TypeInv, TypeOK, Consistent, Manifests, Paths
  <2>2. backup' \in [Files -> Contents \cup {NoFile}]
    BY <1>1, <1>2, <1>3 DEF BackupOpen, TypeInv, TypeOK
  <2>3. QED
    BY <1>1, <1>3, <2>1, <2>2 DEF BackupOpen, Worker, FaultOccurs, TypeInv, TypeOK,
       Consistent, Staged, savedVars, workRest, webVars, appVars, WorkerPCs
<1>4. CASE BackupCopy
  <2>1. backup' \in [Files -> Contents \cup {NoFile}]
    BY <1>1, <1>2, <1>4 DEF BackupCopy, TypeInv, TypeOK
  <2>2. QED
    BY <1>1, <1>4, <2>1 DEF BackupCopy, Worker, FaultOccurs, TypeInv, TypeOK,
       Consistent, Staged, savedVars, workRest, webVars, appVars, WorkerPCs
<1>5. QED
  BY <1>3, <1>4

\* Selecting app0, waiting, restarting.
LEMMA SelectTyped ==
  ASSUME TypeInv, BootApp0 \/ Fallback \/ Autoboot \/ AutobootPaused PROVE TypeInv'
<1>1. /\ wk' \in {"restart", "idle", "fallback"} /\ bootSel' \in {"app0", "recovery"}
      /\ faults' \in Nat
      /\ UNCHANGED <<app0, files, backup, savedVars, wm, wg, onFail, src, prior, workRest>>
  BY DEF BootApp0, Fallback, Autoboot, AutobootPaused, SelectApp0, FaultOccurs, TypeInv,
     TypeOK, flashVars
<1>2. QED
  BY <1>1 DEF TypeInv, TypeOK, Consistent, Staged, savedVars, workRest, webVars, appVars,
     WorkerPCs

LEMMA WorkerTyped == TypeInv /\ WorkerNext => TypeInv'
<1> SUFFICES ASSUME TypeInv, WorkerNext PROVE TypeInv'
  OBVIOUS
<1>1. CASE WorkerRestart
  BY <1>1, ResetTyped DEF WorkerRestart, TypeInv, TypeOK, flashVars, savedVars
<1>2. QED
  BY <1>1, StartTyped, RollbackBeginTyped, FlashTyped, MarkTyped, DisarmTyped, ArmTyped,
     CopyTyped, SelectTyped DEF WorkerNext

-----------------------------------------------------------------------------
\* Staging.

LEMMA StagedTyped ==
  ASSUME NEW r \in Request, NEW by \in {"app", "recovery"}
  PROVE  StagedManifest(r, by) \in Manifests
BY DEF StagedManifest, Request, Manifests, ManifestStates, Paths

LEMMA WebTyped ==
  ASSUME TypeInv, (\E f \in Files : WebHash(f) \/ WebDelete(f)) \/ WebClear \/ WebSave
                  \/ WebSelect
  PROVE  TypeInv'
<1>1. NoRequest \in Request /\ NoGuard \in Guards
  BY NoRecordsTyped
<1>2. ASSUME NEW f \in Files, WebHash(f) PROVE TypeInv'
  <2>1. files[f] \in Contents
    BY <1>2 DEF WebHash, TypeInv, TypeOK
  <2>2. web' \in Request /\ web'.file = f
    BY <1>2, <2>1 DEF WebHash, Request, Paths
  <2>3. UNCHANGED <<bootSel, files, savedVars, faults, webRest>> /\ seen' \in BOOLEAN
    BY <1>2 DEF WebHash
  <2>4. QED
    BY <2>2, <2>3 DEF TypeInv, TypeOK, Consistent, Staged, savedVars, webRest, workVars,
       appVars
<1>3. ASSUME NEW f \in Files, WebDelete(f) PROVE TypeInv'
  <2>1. files' \in [Files -> Contents \cup {NoFile}] /\ seen' \in BOOLEAN
    BY <1>3 DEF WebDelete, TypeInv, TypeOK
  <2>2. UNCHANGED <<bootSel, savedVars, web, faults, webRest>>
    BY <1>3 DEF WebDelete
  <2>3. QED
    BY <2>1, <2>2 DEF TypeInv, TypeOK, Consistent, Staged, savedVars, webRest, workVars,
       appVars
<1>4. CASE WebClear
  <2>1. PICK ok \in BOOLEAN :
          WriteGuard(NoGuard, ok) /\ web' = IF ok THEN [web EXCEPT !.pc = "save"]
                                            ELSE NoRequest
    BY <1>4 DEF WebClear
  <2>2. guard' \in Guards /\ faults' \in Nat
    BY <1>1, <2>1, WriteGuardTyped DEF TypeInv, TypeOK
  <2>3. /\ web' \in Request
        /\ web'.pc \in {"clear", "save"} => web'.file # NoFile
    BY <1>1, <1>4, <2>1 DEF WebClear, TypeInv, TypeOK, Consistent, Request, NoRequest
  <2>4. UNCHANGED <<bootSel, files, manifest, seen, webRest>>
    BY <1>4 DEF WebClear
  <2>5. QED
    BY <2>2, <2>3, <2>4 DEF TypeInv, TypeOK, Consistent, Staged, webRest, workVars, appVars
<1>5. CASE WebSave
  <2>1. PICK ok \in BOOLEAN :
          /\ WriteManifest(StagedManifest(web, "recovery"), ok)
          /\ web' = IF ok THEN [web EXCEPT !.pc = "select"] ELSE NoRequest
    BY <1>5 DEF WebSave
  <2>2. /\ StagedManifest(web, "recovery") \in Manifests
        /\ StagedManifest(web, "recovery").target # NoFile
    BY <1>5, StagedTyped DEF WebSave, StagedManifest, TypeInv, TypeOK, Consistent
  <2>3. /\ manifest' \in Manifests /\ faults' \in Nat
        /\ manifest' \in {manifest, StagedManifest(web, "recovery"), NoManifest}
    BY <2>1, <2>2, WriteManifestTyped DEF TypeInv, TypeOK
  <2>4. web' \in Request /\ web'.pc \in {"select", "free"}
    BY <1>1, <2>1 DEF TypeInv, TypeOK, Request, NoRequest
  <2>5. UNCHANGED <<bootSel, files, guard, seen, webRest>>
    BY <1>5 DEF WebSave
  <2>6. TypeOK'
    BY <2>3, <2>4, <2>5 DEF TypeInv, TypeOK, webRest, workVars, appVars
  <2>7. NoManifest.state # "pending_install"
    BY DEF NoManifest
  <2>8. Consistent'
    BY <2>2, <2>3, <2>4, <2>5, <2>7 DEF TypeInv, Consistent, Staged, webRest, workVars,
       appVars
  <2>9. QED
    BY <2>6, <2>8 DEF TypeInv
<1>6. CASE WebSelect
  <2>1. bootSel' \in {"app0", "recovery"} /\ seen' \in BOOLEAN /\ faults' \in Nat
    <3>1. /\ bootSel' \in {bootSel, "app0", "recovery"}
          /\ seen' \in {seen, TRUE} /\ faults' \in {faults, faults + 1}
      BY <1>6 DEF WebSelect, FaultOccurs
    <3>2. bootSel \in {"app0", "recovery"} /\ seen \in BOOLEAN /\ faults \in Nat
      BY DEF TypeInv, TypeOK
    <3>3. faults' \in Nat
      BY <3>1, <3>2
    <3>4. QED
      BY <3>1, <3>2, <3>3, Zenon
  <2>2. web' \in Request /\ web'.pc \in {"restart", "free"}
    <3>1. CASE web' = web /\ WebAllowed
      BY <1>1, <3>1 DEF WebAllowed, TypeInv, TypeOK
    <3>2. CASE web' \in {[web EXCEPT !.pc = "restart"], [NoRequest EXCEPT !.pc = "restart"]}
      BY <1>1, <3>2 DEF TypeInv, TypeOK, Request, NoRequest
    <3>3. QED
      BY <1>6, <3>1, <3>2 DEF WebSelect
  <2>3. UNCHANGED <<files, savedVars, webRest>>
    BY <1>6 DEF WebSelect
  <2>4. QED
    BY <2>1, <2>2, <2>3 DEF TypeInv, TypeOK, Consistent, Staged, savedVars, webRest, workVars,
       appVars
<1>7. QED
  BY <1>2, <1>3, <1>4, <1>5, <1>6

LEMMA UploadTyped ==
  ASSUME TypeInv, NEW f \in Files, NEW c \in Uploads, Upload(f, c) PROVE TypeInv'
<1>1. /\ files' \in [Files -> Contents \cup {NoFile}]
      /\ src' \in Contents /\ seen' \in BOOLEAN
  BY DEF Upload, TypeInv, TypeOK, Contents
<1>2. UNCHANGED <<bootSel, app0, backup, savedVars, mode, wk, wm, wg, onFail, web,
                  appVars, prior, trusted, crashes, faults>>
  BY DEF Upload
<1>3. QED
  BY <1>1, <1>2 DEF TypeInv, TypeOK, Consistent, Staged, savedVars, appVars

LEMMA ShellTyped ==
  ASSUME TypeInv, (\E f \in Files, opt \in ShellOptions : ShellHash(f, opt))
                  \/ ShellClear \/ ShellSave \/ ShellSelect
  PROVE  TypeInv'
<1>1. NoRequest \in Request /\ NoGuard \in Guards
  BY NoRecordsTyped
<1>2. ASSUME NEW f \in Files, NEW opt \in ShellOptions, ShellHash(f, opt) PROVE TypeInv'
  <2>1. files[f] \in Contents /\ opt \in {"reboot", "no-reboot", "prepare-only"}
    BY <1>2 DEF ShellHash, TypeInv, TypeOK
  <2>2. sh' \in Request /\ sh'.file = f
    BY <1>2, <2>1 DEF ShellHash, Request, Paths
  <2>3. UNCHANGED <<bootSel, savedVars, faults, shellRest>>
    BY <1>2 DEF ShellHash
  <2>4. QED
    BY <2>2, <2>3 DEF TypeInv, TypeOK, Consistent, Staged, savedVars, shellRest, workVars,
       webVars
<1>3. CASE ShellClear
  <2>1. PICK ok \in BOOLEAN :
          WriteGuard(NoGuard, ok) /\ sh' = IF ok THEN [sh EXCEPT !.pc = "save"]
                                           ELSE NoRequest
    BY <1>3 DEF ShellClear
  <2>2. guard' \in Guards /\ faults' \in Nat
    BY <1>1, <2>1, WriteGuardTyped DEF TypeInv, TypeOK
  <2>3. /\ sh' \in Request
        /\ sh'.pc \in {"clear", "save"} => sh'.file # NoFile
    BY <1>1, <1>3, <2>1 DEF ShellClear, TypeInv, TypeOK, Consistent, Request, NoRequest
  <2>4. UNCHANGED <<bootSel, manifest, shellRest>>
    BY <1>3 DEF ShellClear
  <2>5. QED
    BY <2>2, <2>3, <2>4 DEF TypeInv, TypeOK, Consistent, Staged, shellRest, workVars, webVars
<1>4. CASE ShellSave
  <2>1. PICK ok \in BOOLEAN :
          /\ WriteManifest(StagedManifest(sh, "app"), ok)
          /\ sh' = IF ok /\ sh.opt # "prepare-only" THEN [sh EXCEPT !.pc = "select"]
                   ELSE NoRequest
    BY <1>4 DEF ShellSave
  <2>2. /\ StagedManifest(sh, "app") \in Manifests
        /\ StagedManifest(sh, "app").target # NoFile
    BY <1>4, StagedTyped DEF ShellSave, StagedManifest, TypeInv, TypeOK, Consistent
  <2>3. /\ manifest' \in Manifests /\ faults' \in Nat
        /\ manifest' \in {manifest, StagedManifest(sh, "app"), NoManifest}
    BY <2>1, <2>2, WriteManifestTyped DEF TypeInv, TypeOK
  <2>4. sh' \in Request /\ sh'.pc \in {"select", "free"}
    BY <1>1, <2>1 DEF TypeInv, TypeOK, Request, NoRequest
  <2>5. UNCHANGED <<bootSel, guard, shellRest>>
    BY <1>4 DEF ShellSave
  <2>6. TypeOK'
    BY <2>3, <2>4, <2>5 DEF TypeInv, TypeOK, shellRest, workVars, webVars
  <2>7. NoManifest.state # "pending_install"
    BY DEF NoManifest
  <2>8. Consistent'
    BY <2>2, <2>3, <2>4, <2>5, <2>7 DEF TypeInv, Consistent, Staged, shellRest, workVars,
       webVars
  <2>9. QED
    BY <2>6, <2>8 DEF TypeInv
<1>5. CASE ShellSelect
  <2>1. /\ sh' \in Request /\ sh'.pc \in {"restart", "free"}
        /\ bootSel' \in {"app0", "recovery"} /\ faults' \in Nat
    BY <1>1, <1>5 DEF ShellSelect, FaultOccurs, TypeInv, TypeOK, Request, NoRequest
  <2>2. UNCHANGED <<savedVars, shellRest>>
    BY <1>5 DEF ShellSelect
  <2>3. QED
    BY <2>1, <2>2 DEF TypeInv, TypeOK, Consistent, Staged, savedVars, shellRest, workVars,
       webVars
<1>6. QED
  BY <1>2, <1>3, <1>4, <1>5

LEMMA StagingTyped == TypeInv /\ StagingNext => TypeInv'
<1> SUFFICES ASSUME TypeInv, StagingNext PROVE TypeInv'
  OBVIOUS
<1>1. CASE WebRestart \/ ShellRestart
  BY <1>1, ResetTyped DEF WebRestart, ShellRestart, TypeInv, TypeOK, flashVars, savedVars
<1>2. QED
  BY <1>1, WebTyped, UploadTyped, ShellTyped DEF StagingNext

-----------------------------------------------------------------------------
\* The application, and resets.

LEMMA BootGuardTyped == TypeInv /\ BootGuard => TypeInv'
<1> SUFFICES ASSUME TypeInv, BootGuard PROVE TypeInv'
  OBVIOUS
<1>1. CountedGuard \in Guards /\ NoGuard \in Guards
  BY NoRecordsTyped DEF CountedGuard, TypeInv, TypeOK, Guards
<1>2. UNCHANGED <<bootSel, manifest, mode, elapsed, am, sh, appRest>>
  BY DEF BootGuard
<1>3. /\ guard' \in Guards /\ faults' \in Nat /\ mon' \in BOOLEAN /\ gg' \in Guards
      /\ apc' \in {"over", "init"}
  <2>1. CASE InTrial /\ \E ok \in BOOLEAN :
               /\ WriteGuard(CountedGuard, ok)
               /\ mon' = ok /\ gg' = IF ok THEN CountedGuard ELSE NoGuard
               /\ apc' = IF ok /\ TooManyBoots(CountedGuard) THEN "over" ELSE "init"
    BY <1>1, <2>1, WriteGuardTyped DEF TypeInv, TypeOK
  <2>2. CASE apc' = "init" /\ UNCHANGED <<guard, mon, gg>>
               /\ (FaultOccurs \/ UNCHANGED faults)
    BY <2>2 DEF FaultOccurs, TypeInv, TypeOK
  <2>3. QED
    BY <2>1, <2>2 DEF BootGuard
<1>4. QED
  BY <1>2, <1>3 DEF TypeInv, TypeOK, Consistent, Staged, appRest, workVars, webVars, AppPCs

LEMMA ArmRollbackTyped == TypeInv /\ (BootLimit \/ HealthTimeout) => TypeInv'
<1> SUFFICES ASSUME TypeInv, BootLimit \/ HealthTimeout PROVE TypeInv'
  OBVIOUS
<1>1. RollbackGuard \in Guards
  BY DEF RollbackGuard, TypeInv, TypeOK, Guards, GuardStates
<1>2. PICK ok \in BOOLEAN :
        /\ gg' \in Guards /\ WriteGuard(gg', ok) /\ apc' \in {"over_boot", "to_load"}
        /\ UNCHANGED <<bootSel, manifest, mode, mon, elapsed, am, sh, appRest>>
  BY <1>1 DEF BootLimit, HealthTimeout, ArmRollback
<1>3. guard' \in Guards /\ faults' \in Nat
  BY <1>2, WriteGuardTyped DEF TypeInv, TypeOK
<1>4. QED
  BY <1>2, <1>3 DEF TypeInv, TypeOK, Consistent, Staged, appRest, workVars, webVars, AppPCs

LEMMA BootRecoveryTyped == TypeInv /\ (BootLimitRestart \/ TimeoutRestart) => TypeInv'
<1> SUFFICES ASSUME TypeInv, BootLimitRestart \/ TimeoutRestart PROVE TypeInv'
  OBVIOUS
<1>1. CASE Restart /\ bootSel' = "recovery"
           /\ UNCHANGED <<app0, files, backup, savedVars, prior, trusted, crashes, faults>>
  BY <1>1, ResetTyped DEF TypeInv, TypeOK, savedVars
<1>2. CASE /\ (UNCHANGED faults \/ FaultOccurs) /\ apc' \in {"init", "loop"}
           /\ UNCHANGED <<bootSel, savedVars, mode, mon, gg, elapsed, am, sh, appRest>>
  BY <1>2 DEF FaultOccurs, TypeInv, TypeOK, Consistent, Staged, savedVars, appRest,
     workVars, webVars, AppPCs
<1>3. QED
  BY <1>1, <1>2 DEF BootLimitRestart, TimeoutRestart, BootRecovery

LEMMA AppInitTyped == TypeInv /\ AppInit => TypeInv'
<1> SUFFICES ASSUME TypeInv, AppInit PROVE TypeInv'
  OBVIOUS
<1>1. CASE Restart /\ UNCHANGED <<flashVars, savedVars, prior, trusted, crashes, faults>>
  BY <1>1, ResetTyped DEF TypeInv, TypeOK, flashVars, savedVars
<1>2. CASE apc' = "loop" /\ UNCHANGED <<flashVars, savedVars, mode, workVars, webVars, mon,
             gg, elapsed, am, sh, prior, trusted, crashes, faults>>
  BY <1>2 DEF TypeInv, TypeOK, Consistent, Staged, flashVars, savedVars, workVars, webVars,
     AppPCs
<1>3. QED
  BY <1>1, <1>2 DEF AppInit

LEMMA ProcessTyped == ASSUME TypeInv, NEW d \in 1..MaxStall, Process(d) PROVE TypeInv'
<1>1. elapsed' \in Nat /\ apc' \in {"to_save", "cf_clear", "loop"}
  BY DEF Process, TypeInv, TypeOK
<1>2. UNCHANGED <<bootSel, savedVars, mode, mon, gg, am, sh, faults, appRest>>
  BY DEF Process
<1>3. QED
  BY <1>1, <1>2 DEF TypeInv, TypeOK, Consistent, Staged, savedVars, appRest, workVars,
     webVars, AppPCs

LEMMA LoadTyped == TypeInv /\ (TimeoutLoad \/ ConfirmLoad) => TypeInv'
<1> SUFFICES ASSUME TypeInv, TimeoutLoad \/ ConfirmLoad PROVE TypeInv'
  OBVIOUS
<1>1. /\ apc' \in {"to_write", "to_boot", "cf_write"}
      /\ am' \in Manifests /\ am'.state # "pending_install"
      /\ UNCHANGED <<bootSel, savedVars, mode, mon, gg, elapsed, sh, faults, appRest>>
  BY DEF TimeoutLoad, ConfirmLoad, ManifestLoad, TypeInv, TypeOK, Consistent, Manifests,
     ManifestStates
<1>2. QED
  BY <1>1 DEF TypeInv, TypeOK, Consistent, Staged, savedVars, appRest, workVars, webVars,
     AppPCs

LEMMA ManifestDoneTyped == TypeInv /\ (TimeoutWrite \/ ConfirmWrite) => TypeInv'
<1> SUFFICES ASSUME TypeInv, TimeoutWrite \/ ConfirmWrite PROVE TypeInv'
  OBVIOUS
<1>1. /\ manifest' \in Manifests /\ faults' \in Nat
      /\ manifest' \in {manifest, am, NoManifest}
  <2>1. CASE UNCHANGED <<manifest, faults>>
    BY <2>1 DEF TypeInv, TypeOK
  <2>2. CASE \E ok \in BOOLEAN : WriteManifest(am, ok)
    BY <2>2, WriteManifestTyped DEF TypeInv, TypeOK
  <2>3. QED
    BY <2>1, <2>2 DEF TimeoutWrite, ConfirmWrite
<1>2. /\ apc' \in {"to_boot", "loop"} /\ am' = NoManifest /\ am' \in Manifests
      /\ mon' \in BOOLEAN /\ gg' \in Guards /\ elapsed' \in Nat
      /\ UNCHANGED <<bootSel, guard, mode, sh, appRest>>
  <2>1. CASE TimeoutWrite
    BY <2>1, NoRecordsTyped DEF TimeoutWrite, TypeInv, TypeOK
  <2>2. CASE ConfirmWrite
    BY <2>2, NoRecordsTyped DEF ConfirmWrite, Confirmed, TypeInv, TypeOK
  <2>3. QED
    BY <2>1, <2>2
<1>3. QED
  BY <1>1, <1>2 DEF TypeInv, TypeOK, Consistent, Staged, appRest, workVars, webVars, AppPCs,
     NoManifest

LEMMA ConfirmClearTyped == TypeInv /\ ConfirmClear => TypeInv'
<1> SUFFICES ASSUME TypeInv, ConfirmClear PROVE TypeInv'
  OBVIOUS
<1>1. UNCHANGED <<flashVars, manifest, mode, workVars, webVars, mon, gg, elapsed, am, sh,
                  prior, crashes>>
  BY DEF ConfirmClear
<1>2. guard' \in Guards /\ faults' \in Nat /\ apc' \in {"cf_load", "loop"}
  BY NoRecordsTyped, WriteGuardTyped DEF ConfirmClear, TypeInv, TypeOK
<1>3. trusted' \in Images
  BY DEF ConfirmClear, App, TypeInv, TypeOK, Consistent
<1>4. QED
  BY <1>1, <1>2, <1>3 DEF TypeInv, TypeOK, Consistent, Staged, flashVars, workVars, webVars,
     AppPCs

LEMMA AppTyped == TypeInv /\ AppNext => TypeInv'
BY BootGuardTyped, ArmRollbackTyped, BootRecoveryTyped, AppInitTyped, ProcessTyped,
   LoadTyped, ManifestDoneTyped, ConfirmClearTyped DEF AppNext

\* A write of the guard that a reset cuts short leaves a guard.
LEMMA CrashGuard ==
  ASSUME TypeInv, Crash
  PROVE  /\ guard' \in Guards
         /\ \/ guard' = guard
            \/ \E g \in Guards : GuardWrite(g) /\ guard' \in GuardPrefixes(guard, g)
<1>1. /\ NoGuard \in Guards /\ DisarmedGuard \in Guards /\ RollbackGuard \in Guards
      /\ \A state \in GuardStates : ArmedGuard(state) \in Guards
  <2>1. DisarmedGuard \in Guards
    BY DEF DisarmedGuard, TypeInv, TypeOK, Guards, GuardStates
  <2>2. RollbackGuard \in Guards
    BY DEF RollbackGuard, TypeInv, TypeOK, Guards, GuardStates
  <2>3. \A state \in GuardStates : ArmedGuard(state) \in Guards
    BY DEF ArmedGuard, TypeInv, TypeOK, Guards, Manifests
  <2>4. QED
    BY <2>1, <2>2, <2>3, NoRecordsTyped
<1>2. CASE UNCHANGED guard
  BY <1>2 DEF TypeInv, TypeOK
<1>3. ASSUME NEW g \in Guards, GuardWrite(g), guard' \in GuardPrefixes(guard, g)
      PROVE  guard' \in Guards
  BY <1>3, PrefixTyped DEF TypeInv, TypeOK
<1>4. QED
  BY <1>1, <1>2, <1>3 DEF Crash, GuardStates

LEMMA CrashTyped == TypeInv /\ (Crash \/ AppReboot) => TypeInv'
<1> SUFFICES ASSUME TypeInv, Crash \/ AppReboot PROVE TypeInv'
  OBVIOUS
<1>1. CASE AppReboot
  BY <1>1, ResetTyped DEF AppReboot, TypeInv, TypeOK, flashVars, savedVars
<1>2. CASE Crash
  <2>1. guard' \in Guards
    BY <1>2, CrashGuard
  <2>2. /\ Restart /\ manifest' \in {manifest, NoManifest} /\ crashes' = crashes + 1
        /\ UNCHANGED <<flashVars, prior, trusted, faults>>
    BY <1>2 DEF Crash
  <2>3. QED
    BY <2>1, <2>2, ResetTyped DEF TypeInv, TypeOK, flashVars
<1>3. QED
  BY <1>1, <1>2

LEMMA NextTyped == TypeInv /\ [Next]_vars => TypeInv'
BY StutterTyped, BootTyped, WorkerTyped, StagingTyped, AppTyped, CrashTyped DEF Next

\* Every state the programs reach is typed; in particular the application only
\* ever confirms a complete image, and what is installed, restored or staged is
\* read from a file that was opened.
THEOREM TypeCorrect == Spec => []TypeOK
<1>1. Spec => []TypeInv
  BY InitTyped, NextTyped, PTL DEF Spec
<1>2. TypeInv => TypeOK
  BY DEF TypeInv
<1>3. QED
  BY <1>1, <1>2, PTL
=============================================================================
