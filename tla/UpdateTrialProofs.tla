-------------------------- MODULE UpdateTrialProofs --------------------------
(***************************************************************************)
(* Theorems about trials, for any images and files and any limits: how     *)
(* often an image on trial is booted, whatever fails and whoever           *)
(* interferes, and that without failures no unconfirmed image runs         *)
(* unguarded.                                                              *)
(***************************************************************************)
EXTENDS UpdateBackupProofs

-----------------------------------------------------------------------------
\* The boots of a trial.

Excess == crashes + faults

\* Beyond the limit the boot just counted has to ask for rollback, or be excused.
LimitAsked == InTrial /\ apc # "over" => guard.count <= MaxBoots + Excess

\* The runtime's copy of the guard has counted no more boots than the guard.
CopyBound == gg.count <= MaxBoots + 1 + Excess

Counts == TrialBound /\ LimitAsked /\ CopyBound

\* Nothing comes between counting a boot and asking for rollback.
BootAlone ==
  /\ apc \in {"guard", "over"} => mode = "app" /\ web.pc = "free" /\ sh.pc = "free"
  /\ mode = "reset" => web.pc = "free" /\ sh.pc = "free" /\ apc = "off"
  /\ web.pc # "free" \/ wk # "off" => mode = "recovery"

TrialInv == TypeInv /\ Counts /\ BootAlone


LEMMA PrefixCount ==
  ASSUME NEW old \in Guards, NEW new \in Guards, NEW g \in GuardPrefixes(old, new)
  PROVE  g.count \in {old.count, new.count}
BY DEF Guards, GuardPrefixes

LEMMA CountsTyped ==
  ASSUME TypeInv
  PROVE  /\ guard \in Guards /\ guard.count \in Nat /\ gg \in Guards /\ gg.count \in Nat
         /\ crashes \in Nat /\ faults \in Nat /\ Excess \in Nat
<1>1. guard \in Guards /\ gg \in Guards /\ crashes \in Nat /\ faults \in Nat
  BY DEF TypeInv, TypeOK
<1>2. guard.count \in Nat /\ gg.count \in Nat
  BY <1>1 DEF Guards
<1>3. QED
  BY <1>1, <1>2 DEF Excess

LEMMA NoneCounted == NoGuard.count = 0 /\ NoGuard.armed = FALSE /\ NoRequest.pc = "free"
BY DEF NoGuard, NoRequest

LEMMA LimitsTyped == MaxBoots \in Nat
BY UpdateAssumption

LEMMA TrialInit == Init => TrialInv
<1> SUFFICES ASSUME Init PROVE TrialInv
  OBVIOUS
<1>1. TypeInv
  BY InitTyped
<1>2. Excess = 0 /\ guard.count = 0 /\ gg.count = 0 /\ guard.armed = FALSE
  BY NoneCounted DEF Init, Excess
<1>3. Counts
  BY <1>1, <1>2, CountsTyped, LimitsTyped
     DEF Counts, TrialBound, LimitAsked, CopyBound, InTrial, Excess
<1>4. BootAlone
  BY NoneCounted DEF Init, BootAlone
<1>5. QED
  BY <1>1, <1>3, <1>4 DEF TrialInv

\* What the counts have to be, with the sum of what excuses them.
LEMMA CountsFrom ==
  ASSUME TypeInv', guard'.count <= MaxBoots + 1 + Excess',
         InTrial' /\ apc' # "over" => guard'.count <= MaxBoots + Excess',
         gg'.count <= MaxBoots + 1 + Excess'
  PROVE  Counts'
<1>1. crashes' \in Nat /\ faults' \in Nat /\ Excess' = crashes' + faults'
  BY DEF TypeInv, TypeOK, Excess
<1>2. MaxBoots + 1 + Excess' = MaxBoots + 1 + crashes' + faults'
  BY <1>1, LimitsTyped
<1>3. QED
  BY <1>2 DEF Counts, TrialBound, LimitAsked, CopyBound

LEMMA CountsGive ==
  ASSUME TypeInv, Counts
  PROVE  /\ guard.count <= MaxBoots + 1 + Excess
         /\ InTrial /\ apc # "over" => guard.count <= MaxBoots + Excess
         /\ gg.count <= MaxBoots + 1 + Excess
<1>1. MaxBoots + 1 + Excess = MaxBoots + 1 + crashes + faults
  BY CountsTyped, LimitsTyped DEF Excess
<1>2. QED
  BY <1>1 DEF Counts, TrialBound, LimitAsked, CopyBound

\* A step that does not write the guard.
LEMMA CountsQuiet ==
  ASSUME TypeInv, TypeInv', Counts, UNCHANGED guard, gg' \in {gg, NoGuard},
         \/ Excess' \in {Excess, Excess + 1} /\ (apc = "over" => apc' = "over")
         \/ Excess' = Excess + 1
  PROVE  Counts'
<1>1. guard.count <= MaxBoots + 1 + Excess' /\ gg'.count <= MaxBoots + 1 + Excess'
  BY CountsGive, CountsTyped, LimitsTyped, NoneCounted
<1>2. ASSUME InTrial, apc' # "over" PROVE guard.count <= MaxBoots + Excess'
  BY <1>2, CountsGive, CountsTyped, LimitsTyped
<1>3. QED
  BY <1>1, <1>2, CountsFrom DEF InTrial

\* A guard that is written in part: the failure, or the reset, excuses one boot more.
LEMMA CountsExcused ==
  ASSUME TypeInv, TypeInv', Counts, NEW g \in Guards, g.count <= MaxBoots + 1 + Excess,
         guard' \in GuardPrefixes(guard, g), gg' \in {gg, g, NoGuard},
         Excess' = Excess + 1
  PROVE  Counts'
<1>1. guard'.count \in {guard.count, g.count} /\ g.count \in Nat
  BY PrefixCount, CountsTyped DEF Guards
<1>2. guard'.count <= MaxBoots + Excess'
  BY <1>1, CountsGive, CountsTyped, LimitsTyped
<1>3. guard'.count <= MaxBoots + 1 + Excess'
  BY <1>1, CountsGive, CountsTyped, LimitsTyped
<1>4. gg'.count <= MaxBoots + 1 + Excess'
  BY <1>1, CountsGive, CountsTyped, LimitsTyped, NoneCounted
<1>5. QED
  BY <1>2, <1>3, <1>4, CountsFrom

\* A guard that is written, or in part.
LEMMA CountsWritten ==
  ASSUME TypeInv, TypeInv', Counts, NEW g \in Guards, g.count <= MaxBoots + 1 + Excess,
         NEW ok \in BOOLEAN, WriteGuard(g, ok), UNCHANGED crashes, gg' \in {gg, g, NoGuard},
         ok => \/ ~(g.armed /\ g.state = "pending_healthcheck")
               \/ g.count <= MaxBoots + Excess
               \/ apc' = "over"
  PROVE  Counts'
<1>1. CASE ~ok /\ FaultOccurs /\ guard' \in GuardPrefixes(guard, g)
  <2>1. Excess' = Excess + 1
    BY <1>1, CountsTyped DEF Excess, FaultOccurs
  <2>2. QED
    BY <1>1, <2>1, CountsExcused
<1>2. CASE ok /\ guard' = g /\ UNCHANGED faults
  <2>1. Excess' = Excess
    BY <1>2 DEF Excess
  <2>2. gg'.count <= MaxBoots + 1 + Excess
    BY CountsGive, CountsTyped, LimitsTyped, NoneCounted
  <2>3. InTrial' /\ apc' # "over" => guard'.count <= MaxBoots + Excess
    BY <1>2 DEF InTrial
  <2>4. QED
    BY <1>2, <2>1, <2>2, <2>3, CountsFrom
<1>3. QED
  BY <1>1, <1>2 DEF WriteGuard

-----------------------------------------------------------------------------
\* Each program, in turn.

LEMMA ZeroCounted ==
  ASSUME TypeInv PROVE 0 <= MaxBoots + 1 + Excess
BY CountsTyped, LimitsTyped

LEMMA RestartAlone == ASSUME Restart PROVE BootAlone'
BY NoneCounted DEF Restart, BootAlone

LEMMA RestartQuiet ==
  ASSUME TypeInv, TypeInv', TrialInv, Restart, UNCHANGED guard,
         \/ Excess' = Excess + 1
         \/ apc # "over" /\ Excess' = Excess
  PROVE  TrialInv'
<1>1. gg' \in {gg, NoGuard}
  BY DEF Restart
<1>2. Counts'
  BY <1>1, CountsQuiet DEF TrialInv
<1>3. QED
  BY <1>2, RestartAlone DEF TrialInv

LEMMA BootTrial == TrialInv /\ TypeInv' /\ Boot => TrialInv'
<1> SUFFICES ASSUME TrialInv, TypeInv', Boot PROVE TrialInv'
  OBVIOUS
<1>1. UNCHANGED <<guard, gg, crashes, faults, web, sh>> /\ mode = "reset"
  BY DEF Boot, savedVars, webVars
<1>2. BootAlone'
  BY <1>1 DEF Boot, TrialInv, BootAlone
<1>3. apc # "over" /\ Excess' = Excess
  BY <1>1 DEF TrialInv, BootAlone, Excess
<1>4. Counts'
  BY <1>1, <1>3, CountsQuiet DEF TrialInv
<1>5. QED
  BY <1>2, <1>4 DEF TrialInv

LEMMA WorkerTrial == TrialInv /\ TypeInv' /\ WorkerNext => TrialInv'
<1> SUFFICES ASSUME TrialInv, TypeInv', WorkerNext PROVE TrialInv'
  OBVIOUS
<1>1. TypeInv /\ Counts /\ mode = "recovery" /\ apc # "over" /\ apc # "guard"
  BY DEF TrialInv, BootAlone, WorkerNext, Worker, WorkerStart, RollbackBegin, RestoreErase,
         RestoreWrite, RestoreFinish, RollbackFailed, RollbackDisarm, RollbackClear,
         RollbackDone, BootApp0, WorkerRestart, RejectSignature, AcceptInstall, BackupOpen,
         BackupCopy, BackupFailed, MarkCopied, InstallBegin, InstallWrite, InstallFinish,
         InstallFailed, MarkRollback, ArmHealthcheck, ArmFailed, MarkHealthcheck, Fallback,
         AutobootPaused, Autoboot, MarkManifest, Disarm, SelectApp0, ArmGuard
<1>2. CASE WorkerRestart
  <2>1. UNCHANGED <<guard, crashes, faults>> /\ Restart
    BY <1>2 DEF WorkerRestart, savedVars
  <2>2. QED
    BY <1>1, <2>1, RestartQuiet DEF Excess
<1>3. ASSUME UNCHANGED workRest PROVE BootAlone'
  BY <1>1, <1>3 DEF TrialInv, BootAlone, workRest, webVars, appVars
<1>4. CASE InstallFailed \/ ArmHealthcheck
  <2>1. PICK g \in Guards, ok \in BOOLEAN : WriteGuard(g, ok) /\ g.count = 0
    <3>1. \A state \in GuardStates : ArmedGuard(state) \in Guards /\ ArmedGuard(state).count = 0
      BY <1>1 DEF ArmedGuard, TypeInv, TypeOK, Guards, Manifests
    <3>2. QED
      BY <1>4, <3>1 DEF InstallFailed, ArmHealthcheck, ArmGuard, GuardStates
  <2>2. UNCHANGED workRest /\ UNCHANGED <<gg, crashes>>
    BY <1>4 DEF InstallFailed, ArmHealthcheck, ArmGuard, workRest, appVars
  <2>3. g.count <= MaxBoots + Excess
    BY <1>1, <2>1, CountsTyped, LimitsTyped
  <2>4. g.count <= MaxBoots + 1 + Excess
    BY <1>1, <2>1, ZeroCounted
  <2>5. Counts'
    BY <1>1, <2>1, <2>2, <2>3, <2>4, CountsWritten
  <2>6. QED
    BY <1>3, <2>2, <2>5 DEF TrialInv
<1>5. CASE RollbackDisarm \/ RollbackClear
  <2>1. PICK g \in Guards, ok \in BOOLEAN : WriteGuard(g, ok) /\ g.count = 0
    <3>1. DisarmedGuard \in Guards /\ DisarmedGuard.count = 0
      BY <1>1 DEF DisarmedGuard, TypeInv, TypeOK, Guards, GuardStates
    <3>2. NoGuard \in Guards /\ NoGuard.count = 0
      BY NoRecordsTyped, NoneCounted
    <3>3. QED
      BY <1>5, <3>1, <3>2 DEF RollbackDisarm, RollbackClear, Disarm
  <2>2. UNCHANGED workRest /\ UNCHANGED <<gg, crashes>>
    BY <1>5 DEF RollbackDisarm, RollbackClear, Disarm, workRest, appVars
  <2>3. g.count <= MaxBoots + Excess
    BY <1>1, <2>1, CountsTyped, LimitsTyped
  <2>4. g.count <= MaxBoots + 1 + Excess
    BY <1>1, <2>1, ZeroCounted
  <2>5. Counts'
    BY <1>1, <2>1, <2>2, <2>3, <2>4, CountsWritten
  <2>6. QED
    BY <1>3, <2>2, <2>5 DEF TrialInv
<1>6. CASE UNCHANGED <<guard, workRest>> /\ (UNCHANGED faults \/ FaultOccurs)
  <2>1. UNCHANGED <<guard, gg, crashes>> /\ faults' \in {faults, faults + 1}
    BY <1>6 DEF workRest, appVars, FaultOccurs
  <2>2. Excess' \in {Excess, Excess + 1}
    BY <1>1, <2>1, CountsTyped DEF Excess
  <2>3. Counts'
    BY <1>1, <2>1, <2>2, CountsQuiet
  <2>4. QED
    BY <1>3, <1>6, <2>3 DEF TrialInv
<1>7. ASSUME RollbackFailed \/ RollbackDone \/ RejectSignature \/ AcceptInstall \/ BackupFailed
               \/ MarkCopied \/ MarkRollback \/ ArmFailed \/ MarkHealthcheck
      PROVE  UNCHANGED <<guard, workRest>> /\ (UNCHANGED faults \/ FaultOccurs)
  BY <1>7 DEF RollbackFailed, RollbackDone, RejectSignature, AcceptInstall, BackupFailed,
         MarkCopied, MarkRollback, ArmFailed, MarkHealthcheck, MarkManifest, WriteManifest
<1>8. ASSUME WorkerStart \/ RollbackBegin \/ RestoreErase \/ RestoreWrite \/ RestoreFinish
               \/ BackupOpen \/ BackupCopy \/ InstallBegin \/ InstallWrite \/ InstallFinish
      PROVE  UNCHANGED <<guard, workRest>> /\ (UNCHANGED faults \/ FaultOccurs)
  BY <1>8 DEF WorkerStart, RollbackBegin, RestoreErase, RestoreWrite, RestoreFinish,
         BackupOpen, BackupCopy, InstallBegin, InstallWrite, InstallFinish, WriteManifest,
         savedVars
<1>9. ASSUME BootApp0 \/ Fallback \/ AutobootPaused \/ Autoboot
      PROVE  UNCHANGED <<guard, workRest>> /\ (UNCHANGED faults \/ FaultOccurs)
  BY <1>9 DEF BootApp0, Fallback, AutobootPaused, Autoboot, SelectApp0, savedVars
<1>10. QED
  BY <1>2, <1>4, <1>5, <1>6, <1>7, <1>8, <1>9 DEF WorkerNext

LEMMA StagingTrial == TrialInv /\ TypeInv' /\ StagingNext => TrialInv'
<1> SUFFICES ASSUME TrialInv, TypeInv', StagingNext PROVE TrialInv'
  OBVIOUS
<1>1. TypeInv /\ Counts /\ BootAlone
  BY DEF TrialInv
<1>2. CASE WebClear \/ ShellClear
  <2>1. PICK ok \in BOOLEAN : WriteGuard(NoGuard, ok)
    BY <1>2 DEF WebClear, ShellClear
  <2>2. UNCHANGED <<gg, crashes, mode, apc, wk>>
    BY <1>2 DEF WebClear, ShellClear, webRest, shellRest, workVars, appVars
  <2>3. Counts'
    <3>1. NoGuard \in Guards /\ NoGuard.count <= MaxBoots + 1 + Excess /\ NoGuard.armed = FALSE
      BY <1>1, NoRecordsTyped, NoneCounted, ZeroCounted
    <3>2. QED
      BY <1>1, <2>1, <2>2, <3>1, CountsWritten
  <2>4. \/ web.pc = "clear" /\ sh' = sh
        \/ sh.pc = "clear" /\ web' = web
    BY <1>2 DEF WebClear, ShellClear, webRest, shellRest, appVars, webVars
  <2>5. BootAlone'
    BY <1>1, <2>2, <2>4 DEF BootAlone
  <2>6. QED
    BY <2>3, <2>5 DEF TrialInv
<1>3. CASE WebRestart \/ ShellRestart
  <2>1. UNCHANGED <<guard, crashes, faults>> /\ Restart /\ apc # "over"
    BY <1>1, <1>3 DEF WebRestart, ShellRestart, savedVars, BootAlone
  <2>2. QED
    BY <1>1, <2>1, RestartQuiet DEF Excess
<1>4. ASSUME UNCHANGED <<guard, gg, crashes, apc>>, UNCHANGED faults \/ FaultOccurs
      PROVE  Counts'
  <2>1. Excess' \in {Excess, Excess + 1}
    BY <1>1, <1>4, CountsTyped DEF Excess, FaultOccurs
  <2>2. QED
    BY <1>1, <1>4, <2>1, CountsQuiet
<1>5. CASE \/ \E f \in Files : WebHash(f) \/ WebDelete(f)
           \/ WebSave \/ WebSelect
  <2>1. /\ UNCHANGED <<guard, gg, crashes, apc, mode, wk, sh>>
        /\ UNCHANGED faults \/ FaultOccurs
    BY <1>5 DEF WebHash, WebDelete, WebSave, WebSelect, WriteManifest, webRest, savedVars,
           appVars, workVars
  <2>2. mode = "recovery"
    BY <1>1, <1>5 DEF WebHash, WebDelete, WebSave, WebSelect, WebAllowed, BootAlone
  <2>3. BootAlone'
    BY <1>1, <2>1, <2>2 DEF BootAlone
  <2>4. QED
    BY <1>4, <2>1, <2>3 DEF TrialInv
<1>6. CASE \E f \in Files, c \in Uploads : Upload(f, c)
  <2>1. UNCHANGED <<guard, gg, crashes, apc, mode, wk, sh, web, faults>>
    BY <1>6 DEF Upload, savedVars, appVars
  <2>2. BootAlone'
    BY <1>1, <2>1 DEF BootAlone
  <2>3. QED
    BY <1>4, <2>1, <2>2 DEF TrialInv
<1>7. CASE \/ \E f \in Files, opt \in ShellOptions : ShellHash(f, opt)
           \/ ShellSave \/ ShellSelect
  <2>1. /\ UNCHANGED <<guard, gg, crashes, apc, mode, wk, web>>
        /\ UNCHANGED faults \/ FaultOccurs
    BY <1>7 DEF ShellHash, ShellSave, ShellSelect, WriteManifest, shellRest, savedVars,
           workVars, webVars
  <2>2. apc \notin {"guard", "over"} /\ mode # "reset"
    BY <1>1, <1>7 DEF ShellHash, ShellSave, ShellSelect, BootAlone
  <2>3. BootAlone'
    BY <1>1, <2>1, <2>2 DEF BootAlone
  <2>4. QED
    BY <1>4, <2>1, <2>3 DEF TrialInv
<1>8. QED
  BY <1>2, <1>3, <1>5, <1>6, <1>7 DEF StagingNext

LEMMA BootGuardTrial == TrialInv /\ TypeInv' /\ BootGuard => TrialInv'
<1> SUFFICES ASSUME TrialInv, TypeInv', BootGuard PROVE TrialInv'
  OBVIOUS
<1>1. TypeInv /\ Counts /\ BootAlone /\ apc = "guard" /\ mode = "app"
  BY DEF TrialInv, BootGuard, App
<1>2. UNCHANGED <<crashes, mode, wk, web, sh>> /\ apc' \in {"over", "init"}
  BY DEF BootGuard, appRest, workVars, webVars
<1>3. BootAlone'
  BY <1>1, <1>2 DEF BootAlone
<1>4. CASE UNCHANGED <<guard, gg>> /\ (UNCHANGED faults \/ FaultOccurs)
  <2>1. Excess' \in {Excess, Excess + 1}
    BY <1>1, <1>2, <1>4, CountsTyped DEF Excess, FaultOccurs
  <2>2. QED
    BY <1>1, <1>3, <1>4, <2>1, CountsQuiet DEF TrialInv
<1>5. ASSUME InTrial, NEW ok \in BOOLEAN, WriteGuard(CountedGuard, ok),
             gg' = IF ok THEN CountedGuard ELSE NoGuard,
             apc' = IF ok /\ TooManyBoots(CountedGuard) THEN "over" ELSE "init"
      PROVE  TrialInv'
  <2>1. CountedGuard \in Guards /\ CountedGuard.count = guard.count + 1
    BY <1>1, CountsTyped DEF CountedGuard, Guards
  <2>2. CountedGuard.count <= MaxBoots + 1 + Excess
    BY <1>1, <1>5, <2>1, CountsGive, CountsTyped, LimitsTyped
  <2>3. ASSUME apc' # "over", ok PROVE CountedGuard.count <= MaxBoots + Excess
    BY <1>1, <1>5, <2>1, <2>3, CountsTyped, LimitsTyped DEF TooManyBoots
  <2>4. Counts'
    BY <1>1, <1>2, <1>5, <2>1, <2>2, <2>3, CountsWritten
  <2>5. QED
    BY <1>3, <2>4 DEF TrialInv
<1>6. QED
  BY <1>4, <1>5 DEF BootGuard

LEMMA ArmRollbackTrial == TrialInv /\ TypeInv' /\ (BootLimit \/ HealthTimeout) => TrialInv'
<1> SUFFICES ASSUME TrialInv, TypeInv', BootLimit \/ HealthTimeout PROVE TrialInv'
  OBVIOUS
<1>1. TypeInv /\ Counts /\ BootAlone
  BY DEF TrialInv
<1>2. /\ UNCHANGED <<crashes, mode, wk, web, sh>> /\ apc' \in {"over_boot", "to_load"}
      /\ mode = "app" /\ gg' = RollbackGuard
  BY DEF BootLimit, HealthTimeout, ArmRollback, App, appRest, workVars, webVars
<1>3. PICK ok \in BOOLEAN : WriteGuard(RollbackGuard, ok)
  BY DEF BootLimit, HealthTimeout, ArmRollback
<1>4. /\ RollbackGuard \in Guards /\ RollbackGuard.count = gg.count
      /\ RollbackGuard.state = "rollback_pending"
  BY <1>1, CountsTyped DEF RollbackGuard, Guards, GuardStates
<1>5. RollbackGuard.count <= MaxBoots + 1 + Excess
  BY <1>1, <1>4, CountsGive
<1>6. Counts'
  BY <1>1, <1>2, <1>3, <1>4, <1>5, CountsWritten
<1>7. BootAlone'
  BY <1>1, <1>2 DEF BootAlone
<1>8. QED
  BY <1>6, <1>7 DEF TrialInv

LEMMA AppTrial == TrialInv /\ TypeInv' /\ AppNext => TrialInv'
<1> SUFFICES ASSUME TrialInv, TypeInv', AppNext PROVE TrialInv'
  OBVIOUS
<1>1. TypeInv /\ Counts /\ BootAlone
  BY DEF TrialInv
<1>2. ASSUME UNCHANGED <<guard, crashes, mode, wk, web, sh>>, gg' \in {gg, NoGuard},
             UNCHANGED faults \/ FaultOccurs, mode = "app", apc # "over",
             apc' \notin {"guard", "over"}
      PROVE  TrialInv'
  <2>1. Excess' \in {Excess, Excess + 1}
    BY <1>1, <1>2, CountsTyped DEF Excess, FaultOccurs
  <2>2. Counts'
    BY <1>1, <1>2, <2>1, CountsQuiet
  <2>3. BootAlone'
    BY <1>1, <1>2 DEF BootAlone
  <2>4. QED
    BY <2>2, <2>3 DEF TrialInv
<1>3. CASE BootLimitRestart \/ TimeoutRestart
  <2>1. mode = "app" /\ apc \in {"over_boot", "to_boot"}
    BY <1>3 DEF BootLimitRestart, TimeoutRestart, BootRecovery, App
  <2>2. CASE Restart /\ UNCHANGED <<savedVars, crashes, faults>>
    BY <1>1, <2>1, <2>2, RestartQuiet DEF Excess, savedVars
  <2>3. CASE /\ UNCHANGED faults \/ FaultOccurs
             /\ apc' \in {"init", "loop"}
             /\ UNCHANGED <<savedVars, mode, gg, sh, appRest>>
    BY <1>2, <2>1, <2>3 DEF savedVars, appRest, workVars, webVars
  <2>4. QED
    BY <1>3, <2>2, <2>3 DEF BootLimitRestart, TimeoutRestart, BootRecovery
<1>4. CASE AppInit
  <2>1. apc = "init" /\ mode = "app"
    BY <1>4 DEF AppInit, App
  <2>2. CASE Restart /\ UNCHANGED <<savedVars, crashes, faults>>
    BY <1>1, <2>1, <2>2, RestartQuiet DEF Excess, savedVars
  <2>3. CASE apc' = "loop" /\ UNCHANGED <<savedVars, mode, workVars, webVars, gg, sh, crashes, faults>>
    BY <1>2, <2>1, <2>3 DEF savedVars, workVars, webVars
  <2>4. QED
    BY <1>4, <2>2, <2>3 DEF AppInit
<1>5. CASE \E d \in 1..MaxStall : Process(d)
  BY <1>2, <1>5 DEF Process, App, savedVars, appRest, workVars, webVars
<1>6. CASE TimeoutLoad \/ ConfirmLoad
  BY <1>2, <1>6 DEF TimeoutLoad, ConfirmLoad, ManifestLoad, App, savedVars, appRest, workVars, webVars
<1>7. CASE TimeoutWrite \/ ConfirmWrite
  BY <1>2, <1>7 DEF TimeoutWrite, ConfirmWrite, Confirmed, App, WriteManifest, appRest, workVars,
     webVars
<1>8. CASE ConfirmClear
  <2>1. PICK ok \in BOOLEAN : WriteGuard(NoGuard, ok)
    BY <1>8 DEF ConfirmClear
  <2>2. /\ UNCHANGED <<gg, crashes, mode, wk, web, sh>> /\ mode = "app"
        /\ apc' \in {"cf_load", "loop"}
    BY <1>8 DEF ConfirmClear, App, workVars, webVars
  <2>3. NoGuard \in Guards /\ NoGuard.count <= MaxBoots + 1 + Excess /\ NoGuard.armed = FALSE
    BY <1>1, NoRecordsTyped, NoneCounted, ZeroCounted
  <2>4. Counts'
    BY <1>1, <2>1, <2>2, <2>3, CountsWritten
  <2>5. BootAlone'
    BY <1>1, <2>2 DEF BootAlone
  <2>6. QED
    BY <2>4, <2>5 DEF TrialInv
<1>9. QED
  BY <1>3, <1>4, <1>5, <1>6, <1>7, <1>8, BootGuardTrial, ArmRollbackTrial DEF AppNext

LEMMA CrashTrial == TrialInv /\ TypeInv' /\ (Crash \/ AppReboot) => TrialInv'
<1> SUFFICES ASSUME TrialInv, TypeInv', Crash \/ AppReboot PROVE TrialInv'
  OBVIOUS
<1>1. TypeInv /\ Counts
  BY DEF TrialInv
<1>2. CASE AppReboot
  <2>1. Restart /\ UNCHANGED <<guard, crashes, faults>> /\ apc = "loop"
    BY <1>2 DEF AppReboot, App, savedVars
  <2>2. QED
    BY <1>1, <2>1, RestartQuiet DEF Excess
<1>3. CASE Crash
  <2>1. Restart /\ crashes' = crashes + 1 /\ UNCHANGED faults
    BY <1>3 DEF Crash
  <2>2. Excess' = Excess + 1 /\ gg' = NoGuard
    BY <1>1, <2>1, CountsTyped DEF Excess, Restart
  <2>3. CASE guard' = guard
    BY <1>1, <2>1, <2>2, <2>3, RestartQuiet
  <2>4. ASSUME NEW g \in Guards, GuardWrite(g), guard' \in GuardPrefixes(guard, g)
        PROVE  TrialInv'
    <3>1. g.count \in {0, gg.count}
      <4>1. CASE g = NoGuard
        BY <4>1, NoneCounted
      <4>2. ASSUME NEW state \in {"rollback_pending", "pending_healthcheck"},
                   g = ArmedGuard(state)
            PROVE  g.count = 0
        BY <4>2 DEF ArmedGuard
      <4>3. CASE g = DisarmedGuard
        BY <1>1, <4>3 DEF DisarmedGuard, TypeInv, TypeOK, Guards
      <4>4. CASE g = RollbackGuard
        BY <1>1, <4>4, CountsTyped DEF RollbackGuard, Guards
      <4>5. QED
        BY <2>4, <4>1, <4>2, <4>3, <4>4 DEF GuardWrite
    <3>2. g.count <= MaxBoots + 1 + Excess
      BY <1>1, <3>1, ZeroCounted, CountsGive
    <3>3. Counts'
      BY <1>1, <2>2, <2>4, <3>2, CountsExcused
    <3>4. QED
      BY <2>1, <3>3, RestartAlone DEF TrialInv
  <2>5. QED
    BY <1>1, <1>3, <2>3, <2>4, CrashGuard
<1>4. QED
  BY <1>2, <1>3

\* However the trial is disturbed, the counted boots exceed the limit by one and
\* by the resets and failed operations that happened, at most.
THEOREM TrialsBounded == Spec => []TrialBound
<1>1. TrialInv /\ [Next]_vars => TrialInv'
  <2> SUFFICES ASSUME TrialInv, [Next]_vars PROVE TrialInv'
    OBVIOUS
  <2>1. TypeInv'
    BY NextTyped DEF TrialInv
  <2>2. CASE UNCHANGED vars
    BY <2>1, <2>2 DEF vars, flashVars, savedVars, workVars, webVars, appVars, TrialInv, Counts,
       TrialBound, LimitAsked, CopyBound, InTrial, Excess, BootAlone
  <2>3. QED
    BY <2>1, <2>2, BootTrial, WorkerTrial, StagingTrial, AppTrial, CrashTrial DEF Next
<1>2. TrialInv => TrialBound
  BY DEF TrialInv, Counts
<1>3. QED
  BY <1>1, <1>2, TrialInit, PTL DEF Spec

-----------------------------------------------------------------------------
\* Trials that nothing disturbs: before the first power loss and the first
\* failed operation, app0 is confirmed, or on trial, or about to be replaced.

Plain == ~InTrial /\ ~RollbackArmed /\ app0 = trusted
Trial == InTrial /\ Bootable

\* A guard that is set names a backup, and what it would restore is trusted.
GuardCalm ==
  InTrial \/ RollbackArmed => guard.backup # NoFile /\ prior = trusted /\ RecoveryValid

\* Rollback is requested, and the application on its way to recovery.
Asking == mode = "app" /\ apc \in {"over_boot", "to_load", "to_write", "to_boot"}

\* Outside recovery.
AppCalm ==
  /\ mode # "dead"
  /\ mode \in {"app", "reset"} =>
       \/ Plain
       \/ Trial /\ bootSel = "app0"
       \/ RollbackArmed /\ (Asking \/ (mode = "reset" /\ bootSel = "recovery"))
  /\ Asking => RollbackArmed
  /\ mon => gg.backup # NoFile
  /\ mode = "app" /\ ((~mon /\ apc # "guard") \/ apc \in {"cf_load", "cf_write"}) => Plain
  /\ mode = "app" /\ mon /\ apc \notin {"cf_load", "cf_write"} => InTrial \/ RollbackArmed

\* In recovery, along the worker's way.
WorkerCalm ==
  mode = "recovery" =>
    /\ RecoveryValid
    /\ wk \notin {"rb_failed", "copy_failed", "arm_failed", "off"}
    /\ wk = "start" => Plain \/ RollbackArmed
    /\ wk \in {"sign", "copy_open", "copy", "mark_copied", "begin", "fallback", "idle",
               "countdown"} \/ web.pc # "free" => Plain
    /\ wk \in {"copy", "mark_copied", "begin", "write", "finish", "fail_arm", "arm"}
         => prior = trusted
    /\ wk \in {"arm", "boot", "restart"} => Bootable
    /\ wk \in {"fail_mark", "rb_begin", "rb_erase", "rb_write", "rb_finish"}
         => RollbackArmed /\ wg.backup # NoFile
    /\ wk \in {"rb_erase", "rb_write", "rb_finish"} => wm.backup = wg.backup
    /\ wk \in {"rb_disarm", "rb_clear", "rb_done"} => app0 = trusted
    /\ wk \in {"rb_clear", "rb_done"} => ~guard.armed
    /\ wk = "mark_health" => Trial
    /\ wk \in {"boot", "restart"} => Plain \/ InTrial
    /\ wk = "restart" /\ InTrial => bootSel = "app0"

Calm == GuardCalm /\ AppCalm /\ WorkerCalm

\* Before the first disturbance none has come.
LEMMA NoneLeft == \A d, e \in Nat : d + e = 0 => d = 0 /\ e = 0
OBVIOUS

LEMMA QuietStep ==
  ASSUME TypeInv, Next, Excess' = 0
  PROVE  Excess = 0 /\ ~FaultOccurs /\ ~Crash
<1>1. crashes \in Nat /\ faults \in Nat
  BY DEF TypeInv, TypeOK
<1>2. faults' \in {faults, faults + 1} /\ crashes' \in {crashes, crashes + 1}
  BY FaultsGrow
<1>3. crashes = 0 /\ faults = 0 /\ crashes' = 0 /\ faults' = 0
  <2>1. crashes' + faults' = 0
    BY DEF Excess
  <2>2. crashes' \in Nat
    BY ONLY <1>1, <1>2
  <2>3. faults' \in Nat
    BY ONLY <1>1, <1>2
  <2>4. crashes' = 0 /\ faults' = 0
    BY <2>1, <2>2, <2>3, NoneLeft, Zenon
  <2>5. QED
    BY ONLY <1>1, <1>2, <2>4
<1>4. ~FaultOccurs /\ ~Crash
  BY <1>3 DEF FaultOccurs, Crash
<1>5. QED
  BY <1>3, <1>4 DEF Excess

-----------------------------------------------------------------------------
\* The worker, when no operation fails.

LEMMA WorkerAppCalm == ASSUME GuardInv, mode = "recovery", UNCHANGED workRest PROVE AppCalm'
BY DEF GuardInv, ProgramsApart, AppCalm, workRest, webVars, appVars, Asking

LEMMA ImagesKnown ==
  ASSUME TypeInv
  PROVE  /\ trusted \in Images /\ trusted # Blank /\ trusted # NoFile
         /\ app0 = trusted => Bootable /\ HasDescription
BY UpdateAssumption DEF TypeInv, TypeOK, Contents, Bootable, HasDescription

LEMMA StartCalm == BackupInv /\ Calm /\ ~FaultOccurs /\ WorkerStart => Calm'
<1> SUFFICES ASSUME BackupInv, Calm, ~FaultOccurs, WorkerStart PROVE Calm'
  OBVIOUS
<1>1. /\ UNCHANGED <<flashVars, savedVars, prior, workRest>> /\ mode = "recovery" /\ wk = "start"
      /\ wg' = guard /\ GuardInv
  BY DEF WorkerStart, Worker, BackupInv
<1>2. AppCalm'
  BY <1>1, WorkerAppCalm
<1>3. GuardCalm'
  BY <1>1 DEF Calm, GuardCalm, InTrial, RollbackArmed, savedVars, workRest
<1>4. CASE RollbackArmed
  <2>1. wk' = "rb_begin" /\ wg'.backup # NoFile
    BY <1>1, <1>4 DEF WorkerStart, RollbackArmed, Calm, GuardCalm
  <2>2. QED
    BY <1>1, <1>2, <1>3, <1>4, <2>1 DEF Calm, WorkerCalm, RollbackArmed, Plain, savedVars,
       workRest, webVars
<1>5. CASE Plain
  <2>1. wk' \in {"sign", "countdown"}
    BY <1>1, <1>5, ImagesKnown DEF WorkerStart, RollbackArmed, Plain, BackupInv
  <2>2. Plain'
    BY <1>1, <1>5 DEF Plain, InTrial, RollbackArmed, savedVars, flashVars, workRest
  <2>3. QED
    BY <1>1, <1>2, <1>3, <2>1, <2>2 DEF Calm, WorkerCalm, workRest, webVars
<1>6. Plain \/ RollbackArmed
  BY <1>1 DEF Calm, WorkerCalm
<1>7. QED
  BY <1>4, <1>5, <1>6

\* The writes of the quiet steps.
LEMMA QuietWrites ==
  ASSUME ~FaultOccurs
  PROVE  /\ \A m, ok : WriteManifest(m, ok) => ok /\ manifest' = m /\ UNCHANGED faults
         /\ \A g, ok : WriteGuard(g, ok) => ok /\ guard' = g /\ UNCHANGED faults
BY DEF WriteManifest, WriteGuard

LEMMA MarkCalm ==
  ASSUME BackupInv, Calm, ~FaultOccurs,
         \/ RollbackFailed \/ RollbackDone \/ RejectSignature \/ AcceptInstall
         \/ BackupFailed \/ MarkCopied \/ MarkRollback \/ ArmFailed \/ MarkHealthcheck
  PROVE  Calm'
<1>1. /\ UNCHANGED <<flashVars, guard, wg, prior, workRest>>
      /\ wm'.backup = wm.backup /\ mode = "recovery"
      /\ GuardInv /\ onFail \in {"idle", "fallback"}
  <2>1. wm \in Manifests /\ GuardInv /\ onFail \in {"idle", "fallback"}
    BY DEF BackupInv, TypeInv, TypeOK
  <2>2. QED
    BY <2>1 DEF RollbackFailed, RollbackDone, RejectSignature, AcceptInstall, BackupFailed,
       MarkCopied, MarkRollback, ArmFailed, MarkHealthcheck, MarkManifest, Worker, Manifests
<1>2. \/ wk = "rb_done" /\ wk' = "boot"
      \/ wk = "sign" /\ wk' \in {"fallback", "copy_open"}
      \/ wk = "mark_copied" /\ wk' = "begin"
      \/ wk = "fail_mark" /\ wk' = "rb_begin"
      \/ wk = "mark_health" /\ wk' = "boot"
  BY <1>1, QuietWrites
  DEF RollbackFailed, RollbackDone, RejectSignature, AcceptInstall, BackupFailed, MarkCopied,
      MarkRollback, ArmFailed, MarkHealthcheck, MarkManifest, Worker, Calm, WorkerCalm
<1>3. AppCalm'
  BY <1>1, WorkerAppCalm
<1>4. GuardCalm' /\ (Plain' <=> Plain) /\ (Bootable' <=> Bootable) /\ (Trial' <=> Trial)
      /\ (RollbackArmed' <=> RollbackArmed) /\ (InTrial' <=> InTrial)
  BY <1>1 DEF Calm, GuardCalm, InTrial, RollbackArmed, Plain, Bootable, Trial, workRest,
     flashVars
<1>5. WorkerCalm'
  <2>1. app0 = trusted => Bootable
    BY ImagesKnown DEF BackupInv
  <2>2. wk = "rb_done" => Plain
    BY <1>1 DEF Calm, WorkerCalm, Plain, InTrial, RollbackArmed
  <2>3. UNCHANGED <<app0, trusted, prior, wg, guard, bootSel, mode, web>>
    BY <1>1 DEF workRest, flashVars, webVars
  <2>4. QED
    BY <1>1, <1>2, <1>4, <2>1, <2>2, <2>3 DEF Calm, WorkerCalm, Trial
<1>6. QED
  BY <1>3, <1>4, <1>5 DEF Calm

LEMMA RollbackCalm ==
  ASSUME BackupInv, Calm, ~FaultOccurs,
         RollbackBegin \/ RestoreErase \/ RestoreWrite \/ RestoreFinish
  PROVE  Calm'
<1>1. /\ UNCHANGED <<backup, bootSel, guard, wg, prior, workRest>> /\ mode = "recovery"
      /\ GuardInv /\ RollbackArmed /\ wg.backup # NoFile /\ prior = trusted /\ RecoveryValid
      /\ backup[wg.backup] = trusted /\ wm \in Manifests
  BY DEF RollbackBegin, RestoreErase, RestoreWrite, RestoreFinish, Worker, Calm, WorkerCalm,
         GuardCalm, BackupInv, GuardInv, CopiesName, TypeInv, TypeOK, flashVars, savedVars
<1>2. /\ wk' \in {"rb_erase", "rb_write", "rb_finish", "rb_disarm"}
      /\ wm'.backup = wg.backup
      /\ wk' = "rb_disarm" => app0' = trusted
  <2>1. trusted # NoFile /\ trusted # Blank
    BY ImagesKnown DEF BackupInv
  <2>2. CASE RollbackBegin
    BY <1>1, <2>1, <2>2 DEF RollbackBegin, RollbackPath, Manifests
  <2>3. CASE RestoreErase
    BY <1>1, <2>1, <2>3 DEF RestoreErase, Worker, Calm, WorkerCalm
  <2>4. CASE RestoreWrite
    BY <1>1, <2>1, <2>4 DEF RestoreWrite, Worker, Calm, WorkerCalm
  <2>5. CASE RestoreFinish
    BY <1>1, <2>1, <2>5 DEF RestoreFinish, Worker, Calm, WorkerCalm
  <2>6. QED
    BY <2>2, <2>3, <2>4, <2>5
<1>3. AppCalm'
  BY <1>1, WorkerAppCalm
<1>4. GuardCalm' /\ RollbackArmed'
  BY <1>1 DEF Calm, GuardCalm, InTrial, RollbackArmed, workRest
<1>5. WorkerCalm'
  <2>1. web'.pc = "free" /\ mode' = "recovery" /\ UNCHANGED <<wg, trusted>>
    BY <1>1 DEF workRest, webVars, GuardInv, ProgramsApart, Calm, WorkerCalm, Plain
  <2>2. QED
    BY <1>1, <1>2, <1>4, <2>1 DEF WorkerCalm
<1>6. QED
  BY <1>3, <1>4, <1>5 DEF Calm

LEMMA DisarmCalm ==
  ASSUME BackupInv, Calm, ~FaultOccurs, RollbackDisarm \/ RollbackClear
  PROVE  Calm'
<1>1. /\ UNCHANGED <<flashVars, prior, workRest>> /\ mode = "recovery" /\ GuardInv
      /\ ~guard'.armed /\ wk' \in {"rb_clear", "rb_done"} /\ app0 = trusted /\ RecoveryValid
      /\ web.pc = "free"
  <2>1. wg \in Guards /\ GuardInv
    BY DEF BackupInv, TypeInv, TypeOK
  <2>2. ~DisarmedGuard.armed /\ ~NoGuard.armed
    BY <2>1 DEF DisarmedGuard, NoGuard, Guards
  <2>3. \E g \in {DisarmedGuard, NoGuard}, ok \in BOOLEAN : WriteGuard(g, ok)
    BY DEF RollbackDisarm, RollbackClear, Disarm
  <2>4. ~guard'.armed
    BY <2>2, <2>3, QuietWrites
  <2>5. QED
    BY <2>1, <2>4
    DEF RollbackDisarm, RollbackClear, Disarm, Worker, Calm, WorkerCalm, GuardInv, ProgramsApart
<1>2. AppCalm'
  BY <1>1, WorkerAppCalm
<1>3. GuardCalm'
  BY <1>1 DEF GuardCalm, InTrial, RollbackArmed
<1>4. WorkerCalm'
  BY <1>1 DEF WorkerCalm, workRest, webVars, flashVars
<1>5. QED
  BY <1>2, <1>3, <1>4 DEF Calm

LEMMA ArmCalm ==
  ASSUME BackupInv, Calm, ~FaultOccurs, InstallFailed \/ ArmHealthcheck
  PROVE  Calm'
<1>1. /\ UNCHANGED <<flashVars, prior, workRest>> /\ mode = "recovery" /\ GuardInv
      /\ prior = trusted /\ RecoveryValid /\ web.pc = "free" /\ wm.backup # NoFile
  BY DEF InstallFailed, ArmHealthcheck, ArmGuard, Worker, Calm, WorkerCalm, BackupInv, GuardInv,
         ProgramsApart, TypeInv, Consistent
<1>2. /\ guard'.backup # NoFile /\ wg'.backup # NoFile
      /\ \/ wk' = "fail_mark" /\ RollbackArmed'
         \/ wk' = "mark_health" /\ Trial'
  BY <1>1, QuietWrites
  DEF InstallFailed, ArmHealthcheck, ArmGuard, ArmedGuard, Worker, Calm, WorkerCalm,
      RollbackArmed, Trial, InTrial, Bootable, flashVars
<1>3. AppCalm'
  BY <1>1, WorkerAppCalm
<1>4. GuardCalm'
  BY <1>1, <1>2 DEF GuardCalm, workRest
<1>5. WorkerCalm'
  BY <1>1, <1>2 DEF WorkerCalm, workRest, webVars, flashVars
<1>6. QED
  BY <1>3, <1>4, <1>5 DEF Calm

LEMMA InstallCalm ==
  ASSUME BackupInv, Calm, ~FaultOccurs,
         BackupOpen \/ BackupCopy \/ InstallBegin \/ InstallWrite \/ InstallFinish
  PROVE  Calm'
<1>1. /\ UNCHANGED <<guard, bootSel, workRest>> /\ mode = "recovery" /\ GuardInv
      /\ web.pc = "free" /\ RecoveryValid
  BY DEF BackupOpen, BackupCopy, InstallBegin, InstallWrite, InstallFinish, Worker, Calm,
         WorkerCalm, BackupInv, GuardInv, ProgramsApart, savedVars
<1>2. ~guard.armed
  BY <1>1 DEF BackupOpen, BackupCopy, InstallBegin, InstallWrite, InstallFinish, Worker,
     GuardInv, StagedCleared, Cleared
<1>3. /\ wk' \in {"copy", "mark_copied", "begin", "write", "finish", "fail_arm", "arm"}
      /\ wk' \in {"copy", "mark_copied", "begin"} => app0' = trusted
      /\ wk' = "arm" => Bootable'
      /\ prior' = trusted
  BY <1>1 DEF BackupOpen, BackupCopy, InstallBegin, InstallWrite, InstallFinish, Worker, Calm,
     WorkerCalm, Plain, Bootable
<1>4. AppCalm'
  BY <1>1, WorkerAppCalm
<1>5. GuardCalm'
  BY <1>1, <1>2 DEF GuardCalm, InTrial, RollbackArmed
<1>6. WorkerCalm'
  BY <1>1, <1>2, <1>3 DEF WorkerCalm, Plain, InTrial, RollbackArmed, workRest, webVars
<1>7. QED
  BY <1>4, <1>5, <1>6 DEF Calm

LEMMA SelectCalm ==
  ASSUME BackupInv, Calm, ~FaultOccurs, BootApp0 \/ Fallback \/ AutobootPaused \/ Autoboot
  PROVE  Calm'
<1>1. /\ UNCHANGED <<app0, guard, prior, wg, wm, workRest>> /\ mode = "recovery" /\ GuardInv
      /\ RecoveryValid /\ wk \in {"boot", "fallback", "countdown"} /\ Bootable
      /\ wk = "boot" \/ Plain
  <2>1. GuardInv /\ (app0 = trusted => Bootable)
    BY ImagesKnown DEF BackupInv
  <2>2. QED
    BY <2>1
    DEF BootApp0, Fallback, AutobootPaused, Autoboot, SelectApp0, Worker, Calm, WorkerCalm,
        Plain, flashVars, savedVars
<1>2. \/ wk' = "restart" /\ bootSel' = "app0" /\ (Plain \/ InTrial)
      \/ wk' = "idle" /\ Plain
  BY <1>1 DEF BootApp0, Fallback, AutobootPaused, Autoboot, SelectApp0, Worker, Calm, WorkerCalm
<1>3. AppCalm'
  BY <1>1, WorkerAppCalm
<1>4. GuardCalm' /\ (Plain' <=> Plain) /\ (Bootable' <=> Bootable) /\ (InTrial' <=> InTrial)
  BY <1>1 DEF Calm, GuardCalm, InTrial, RollbackArmed, Plain, Bootable, workRest
<1>5. WorkerCalm'
  BY <1>1, <1>2, <1>4 DEF WorkerCalm, workRest, webVars, Calm
<1>6. QED
  BY <1>3, <1>4, <1>5 DEF Calm

\* A reset from a state that is calm outside recovery.
LEMMA RestartCalm ==
  ASSUME Calm, Restart, UNCHANGED <<guard, app0, prior, trusted>>,
         Plain \/ (Trial /\ bootSel' = "app0") \/ (RollbackArmed /\ bootSel' = "recovery")
  PROVE  Calm'
<1>1. mode' = "reset" /\ ~mon'
  BY DEF Restart
<1>2. (Plain' <=> Plain) /\ (Trial' <=> Trial) /\ (RollbackArmed' <=> RollbackArmed) /\ GuardCalm'
  BY DEF Calm, GuardCalm, Plain, Trial, RollbackArmed, InTrial, Bootable
<1>3. QED
  BY <1>1, <1>2 DEF Calm, AppCalm, WorkerCalm, Asking

LEMMA WorkerStepCalm == BackupInv /\ Calm /\ ~FaultOccurs /\ WorkerNext => Calm'
<1> SUFFICES ASSUME BackupInv, Calm, ~FaultOccurs, WorkerNext PROVE Calm'
  OBVIOUS
<1>1. CASE WorkerRestart
  <2>1. Plain \/ (Trial /\ bootSel' = "app0")
    BY <1>1 DEF WorkerRestart, Worker, Calm, WorkerCalm, Trial, flashVars
  <2>2. QED
    BY <1>1, <2>1, RestartCalm DEF WorkerRestart, flashVars, savedVars
<1>2. QED
  BY <1>1, StartCalm, MarkCalm, RollbackCalm, DisarmCalm, ArmCalm, InstallCalm, SelectCalm
  DEF WorkerNext

-----------------------------------------------------------------------------
\* Staging, boot and application, when no operation fails.

LEMMA BootCalm == BackupInv /\ Calm /\ Boot => Calm'
<1> SUFFICES ASSUME BackupInv, Calm, Boot PROVE Calm'
  OBVIOUS
<1>1. /\ UNCHANGED <<flashVars, guard, prior, trusted, mon, gg, web>> /\ mode = "reset"
      /\ ~mon /\ web.pc = "free"
  BY DEF Boot, savedVars, webVars, BackupInv, GuardInv, ProgramsApart
<1>2. /\ GuardCalm' /\ (Plain' <=> Plain) /\ (Trial' <=> Trial)
      /\ (RollbackArmed' <=> RollbackArmed)
  BY <1>1 DEF Calm, GuardCalm, Plain, Trial, RollbackArmed, InTrial, Bootable, flashVars
<1>3. Plain => Bootable
  BY ImagesKnown DEF Plain, BackupInv
<1>4. \/ mode' = "app" /\ apc' = "guard" /\ (Plain \/ (Trial /\ bootSel = "app0"))
      \/ mode' = "recovery" /\ wk' = "start" /\ RecoveryValid /\ (Plain \/ RollbackArmed)
  BY <1>1, <1>3 DEF Boot, Calm, AppCalm, GuardCalm, Trial, Asking
<1>5. AppCalm' /\ WorkerCalm'
  BY <1>1, <1>2, <1>4 DEF AppCalm, WorkerCalm, flashVars, Asking
<1>6. QED
  BY <1>2, <1>5 DEF Calm

LEMMA StagingCalm == Undisturbed /\ BackupInv /\ Calm /\ ~FaultOccurs /\ StagingNext => Calm'
<1> SUFFICES ASSUME Undisturbed, BackupInv, Calm, ~FaultOccurs, StagingNext PROVE Calm'
  OBVIOUS
<1>1. GuardInv
  BY DEF BackupInv
<1>2. CASE WebRestart \/ ShellRestart
  <2>1. Restart /\ Plain /\ UNCHANGED <<guard, app0, prior, trusted>>
    BY <1>1, <1>2 DEF WebRestart, ShellRestart, GuardInv, ProgramsApart, Calm, AppCalm,
       WorkerCalm, flashVars, savedVars
  <2>2. QED
    BY <2>1, RestartCalm
<1>3. ASSUME UNCHANGED <<app0, prior, trusted, mode, wk, wm, wg, apc, mon, gg>>, Plain,
             guard' \in {guard, NoGuard},
             mode = "recovery" => wk \in {"idle", "countdown", "restart"}
      PROVE  Calm'
  <2>1. Plain' /\ GuardCalm' /\ (Bootable' <=> Bootable) /\ ~InTrial' /\ ~RollbackArmed'
    <3>1. ~InTrial' /\ ~RollbackArmed'
      BY <1>3, NoneCounted DEF Plain, InTrial, RollbackArmed
    <3>2. QED
      BY <1>3, <3>1 DEF Plain, GuardCalm, Bootable
  <2>2. AppCalm'
    BY <1>3, <2>1 DEF Calm, AppCalm, Plain, Asking
  <2>3. WorkerCalm'
    BY <1>3, <2>1 DEF Calm, WorkerCalm
  <2>4. QED
    BY <2>1, <2>2, <2>3 DEF Calm
<1>4. CASE \/ \E f \in Files : WebHash(f) \/ WebDelete(f)
           \/ WebClear \/ WebSave \/ WebSelect
  <2>1. UNCHANGED webRest /\ guard' \in {guard, NoGuard}
    BY <1>4, QuietWrites DEF WebHash, WebDelete, WebClear, WebSave, WebSelect, savedVars
  <2>2. mode = "recovery" /\ wk \in {"idle", "countdown", "restart"} /\ Plain
    <3>1. mode = "recovery" /\ wk \in {"idle", "countdown", "restart"}
      BY <1>1, <1>4 DEF WebHash, WebDelete, WebClear, WebSave, WebSelect, WebAllowed,
         Undisturbed, GuardInv, ProgramsApart
    <3>2. wk \in {"idle", "countdown"} \/ web.pc # "free"
      BY <1>4 DEF WebHash, WebDelete, WebClear, WebSave, WebSelect, WebAllowed, Undisturbed
    <3>3. QED
      BY <3>1, <3>2 DEF Calm, WorkerCalm
  <2>3. QED
    BY <1>3, <2>1, <2>2 DEF webRest, workVars, appVars
<1>5. CASE \E f \in Files, c \in Uploads : Upload(f, c)
  <2>1. UNCHANGED <<bootSel, app0, guard, prior, trusted, mode, wk, wm, wg, web, apc, mon, gg>>
    BY <1>5 DEF Upload, savedVars, appVars
  <2>2. QED
    BY <2>1 DEF Calm, GuardCalm, AppCalm, WorkerCalm, Plain, Trial, InTrial, RollbackArmed,
       Bootable, Asking
<1>6. ASSUME NEW f \in Files, NEW opt \in ShellOptions, ShellHash(f, opt) PROVE Calm'
  <2>1. UNCHANGED <<bootSel, app0, guard, prior, trusted, mode, wk, wm, wg, web, apc, mon, gg>>
    BY <1>6 DEF ShellHash, savedVars, shellRest, workVars, webVars
  <2>2. QED
    BY <2>1 DEF Calm, GuardCalm, AppCalm, WorkerCalm, Plain, Trial, InTrial, RollbackArmed,
       Bootable, Asking
<1>7. CASE ShellClear \/ ShellSave \/ ShellSelect
  <2>1. UNCHANGED shellRest /\ guard' \in {guard, NoGuard}
    BY <1>7, QuietWrites DEF ShellClear, ShellSave, ShellSelect, savedVars
  <2>2. mode = "app" /\ Plain
    BY <1>1, <1>7 DEF ShellClear, ShellSave, ShellSelect, GuardInv, ProgramsApart, Calm, AppCalm
  <2>3. QED
    BY <1>3, <2>1, <2>2 DEF shellRest, workVars
<1>8. QED
  BY <1>2, <1>4, <1>5, <1>6, <1>7 DEF StagingNext

LEMMA AppCalmKept ==
  ASSUME Calm, mode = "app", UNCHANGED <<mode, app0, prior, trusted, bootSel>>, GuardCalm',
         \/ Plain' /\ (mon' => gg'.backup # NoFile /\ apc' \in {"cf_load", "cf_write"}) /\ ~Asking'
         \/ Trial' /\ bootSel = "app0" /\ mon' /\ gg'.backup # NoFile
                   /\ apc' \notin {"guard", "cf_load", "cf_write"} /\ ~Asking'
         \/ RollbackArmed' /\ mon' /\ gg'.backup # NoFile /\ Asking'
  PROVE  Calm'
BY DEF Calm, AppCalm, WorkerCalm, Trial, Asking

\* What the application can assume where it stands.
LEMMA AppStands ==
  ASSUME BackupInv, Calm, mode = "app"
  PROVE  /\ mon => gg.backup # NoFile
         /\ apc \in {"over", "over_boot", "to_save", "to_load", "to_write", "to_boot",
                     "cf_clear", "cf_load", "cf_write"} => mon
         /\ apc = "guard" => ~mon /\ (Plain \/ (Trial /\ bootSel = "app0"))
         /\ ~mon /\ apc # "guard" => Plain
         /\ apc \in {"cf_load", "cf_write"} => Plain
         /\ mon /\ apc \notin {"cf_load", "cf_write", "over_boot", "to_load", "to_write", "to_boot"}
              => Trial /\ bootSel = "app0"
         /\ apc \in {"over_boot", "to_load", "to_write", "to_boot"} => RollbackArmed
         /\ Trial \/ RollbackArmed => prior = trusted /\ RecoveryValid
<1>1. GuardInv
  BY DEF BackupInv
<1>2. Plain => ~InTrial /\ ~RollbackArmed
  BY DEF Plain
<1>3. QED
  BY <1>1, <1>2 DEF GuardInv, ProgramsApart, Calm, AppCalm, GuardCalm, Trial, Asking

LEMMA BootGuardCalm == BackupInv /\ Calm /\ ~FaultOccurs /\ BootGuard => Calm'
<1> SUFFICES ASSUME BackupInv, Calm, ~FaultOccurs, BootGuard PROVE Calm'
  OBVIOUS
<1>1. /\ UNCHANGED <<mode, app0, prior, trusted, bootSel>> /\ mode = "app" /\ apc = "guard"
      /\ guard \in Guards
  BY DEF BootGuard, App, appRest, BackupInv, TypeInv, TypeOK
<1>2. CASE InTrial
  <2>1. /\ Trial /\ bootSel = "app0" /\ guard.backup # NoFile /\ prior = trusted /\ RecoveryValid
    BY <1>1, <1>2, AppStands DEF Calm, GuardCalm, Plain
  <2>2. guard' = CountedGuard /\ gg' = CountedGuard /\ mon' /\ apc' \in {"over", "init"}
    BY <1>2, QuietWrites DEF BootGuard
  <2>3. CountedGuard.backup = guard.backup /\ CountedGuard.armed = guard.armed
        /\ CountedGuard.state = guard.state
    BY <1>1 DEF CountedGuard, Guards
  <2>4. InTrial' /\ Trial' /\ GuardCalm'
    BY <1>1, <1>2, <2>1, <2>2, <2>3 DEF InTrial, Trial, Bootable, GuardCalm
  <2>5. QED
    BY <1>1, <2>1, <2>2, <2>3, <2>4, AppCalmKept DEF Asking
<1>3. CASE ~InTrial
  <2>1. Plain /\ ~mon
    BY <1>1, <1>3, AppStands DEF Trial
  <2>2. UNCHANGED <<guard, mon, gg>> /\ apc' = "init"
    BY <1>3 DEF BootGuard
  <2>3. Plain' /\ GuardCalm'
    BY <1>1, <2>1, <2>2 DEF Plain, InTrial, RollbackArmed, GuardCalm
  <2>4. QED
    BY <1>1, <2>1, <2>2, <2>3, AppCalmKept DEF Asking
<1>4. QED
  BY <1>2, <1>3

LEMMA ArmRollbackCalm == BackupInv /\ Calm /\ ~FaultOccurs /\ (BootLimit \/ HealthTimeout) => Calm'
<1> SUFFICES ASSUME BackupInv, Calm, ~FaultOccurs, BootLimit \/ HealthTimeout PROVE Calm'
  OBVIOUS
<1>1. /\ UNCHANGED <<mode, app0, prior, trusted, bootSel, mon>> /\ mode = "app"
      /\ apc \in {"over", "to_save"} /\ apc' \in {"over_boot", "to_load"} /\ gg \in Guards
  BY DEF BootLimit, HealthTimeout, ArmRollback, App, appRest, BackupInv, TypeInv, TypeOK
<1>2. mon /\ gg.backup # NoFile /\ Trial /\ prior = trusted /\ RecoveryValid
  BY <1>1, AppStands
<1>3. guard' = RollbackGuard /\ gg' = RollbackGuard
  BY QuietWrites DEF BootLimit, HealthTimeout, ArmRollback
<1>4. RollbackGuard.armed /\ RollbackGuard.state = "rollback_pending"
      /\ RollbackGuard.backup = gg.backup
  BY <1>1 DEF RollbackGuard, Guards
<1>5. RollbackArmed' /\ GuardCalm'
  BY <1>1, <1>2, <1>3, <1>4 DEF RollbackArmed, GuardCalm
<1>6. QED
  BY <1>1, <1>2, <1>3, <1>4, <1>5, AppCalmKept DEF Asking

\* A step of the application that leaves guard and monitor alone.
LEMMA AppQuietCalm ==
  ASSUME BackupInv, Calm, mode = "app", apc # "guard",
         UNCHANGED <<mode, app0, prior, trusted, bootSel, guard, mon, gg>>,
         \/ apc' \in {"init", "loop", "to_save", "cf_clear"} /\ apc \in {"init", "loop"}
         \/ apc \in {"to_load", "to_write"} /\ apc' \in {"to_write", "to_boot"}
         \/ apc = "cf_load" /\ apc' = "cf_write"
  PROVE  Calm'
<1>1. /\ GuardCalm' /\ (Plain' <=> Plain) /\ (Trial' <=> Trial)
      /\ (RollbackArmed' <=> RollbackArmed)
  BY DEF Calm, GuardCalm, Plain, Trial, RollbackArmed, InTrial, Bootable
<1>2. QED
  BY <1>1, AppStands, AppCalmKept DEF Asking

LEMMA AppStepCalm == BackupInv /\ Calm /\ ~FaultOccurs /\ AppNext => Calm'
<1> SUFFICES ASSUME BackupInv, Calm, ~FaultOccurs, AppNext PROVE Calm'
  OBVIOUS
<1>1. CASE BootLimitRestart \/ TimeoutRestart
  <2>1. mode = "app" /\ apc \in {"over_boot", "to_boot"}
    BY <1>1 DEF BootLimitRestart, TimeoutRestart, BootRecovery, App
  <2>3. RollbackArmed
    BY <2>1, AppStands
  <2>4. RecoveryValid
    BY <2>3 DEF Calm, GuardCalm
  <2>5. Restart /\ bootSel' = "recovery" /\ UNCHANGED <<guard, app0, prior, trusted>>
    BY <1>1, <2>4 DEF BootLimitRestart, TimeoutRestart, BootRecovery, savedVars
  <2>6. QED
    BY <2>3, <2>5, RestartCalm
<1>2. CASE AppInit
  <2>1. mode = "app" /\ apc = "init"
    BY <1>2 DEF AppInit, App
  <2>2. CASE apc' = "loop" /\ UNCHANGED <<flashVars, savedVars, mode, mon, gg, prior, trusted>>
    BY <2>1, <2>2, AppQuietCalm DEF flashVars, savedVars
  <2>3. CASE Restart /\ UNCHANGED <<flashVars, savedVars, prior, trusted>>
    BY <2>1, <2>3, AppStands, RestartCalm DEF flashVars, savedVars
  <2>4. QED
    BY <1>2, <2>2, <2>3 DEF AppInit
<1>3. ASSUME NEW d \in 1..MaxStall, Process(d) PROVE Calm'
  <2>1. /\ mode = "app" /\ apc = "loop" /\ apc' \in {"loop", "to_save", "cf_clear"}
        /\ UNCHANGED <<mode, app0, prior, trusted, bootSel, guard, mon, gg>>
    BY <1>3 DEF Process, App, savedVars, appRest
  <2>2. QED
    BY <2>1, AppQuietCalm
<1>4. CASE TimeoutLoad \/ ConfirmLoad
  <2>1. /\ mode = "app" /\ UNCHANGED <<mode, app0, prior, trusted, bootSel, guard, mon, gg>>
        /\ \/ apc = "to_load" /\ apc' \in {"to_write", "to_boot"}
           \/ apc = "cf_load" /\ apc' = "cf_write"
    BY <1>4 DEF TimeoutLoad, ConfirmLoad, ManifestLoad, App, savedVars, appRest
  <2>2. QED
    BY <2>1, AppQuietCalm
<1>5. CASE TimeoutWrite
  <2>1. /\ mode = "app" /\ UNCHANGED <<mode, app0, prior, trusted, bootSel, guard, mon, gg>>
        /\ apc = "to_write" /\ apc' = "to_boot"
    BY <1>5 DEF TimeoutWrite, App, appRest
  <2>2. QED
    BY <2>1, AppQuietCalm
<1>6. CASE ConfirmClear
  <2>1. /\ mode = "app" /\ apc = "cf_clear" /\ UNCHANGED <<mode, app0, prior, bootSel, mon, gg>>
        /\ guard' = NoGuard /\ apc' = "cf_load" /\ trusted' = app0
    BY <1>6, QuietWrites DEF ConfirmClear, App, flashVars
  <2>2. ~InTrial' /\ ~RollbackArmed'
    BY <2>1, NoneCounted DEF InTrial, RollbackArmed
  <2>3. Plain' /\ GuardCalm' /\ (mon => gg.backup # NoFile)
    BY <2>1, <2>2, AppStands DEF Plain, GuardCalm
  <2>4. QED
    BY <2>1, <2>3 DEF Calm, AppCalm, WorkerCalm, Asking
<1>7. CASE ConfirmWrite
  <2>1. /\ mode = "app" /\ UNCHANGED <<mode, app0, prior, trusted, bootSel, guard>>
        /\ apc = "cf_write" /\ apc' = "loop" /\ ~mon'
    BY <1>7 DEF ConfirmWrite, Confirmed, App, appRest
  <2>2. Plain
    BY <2>1, AppStands
  <2>3. Plain' /\ GuardCalm'
    BY <2>1, <2>2 DEF Calm, GuardCalm, Plain, InTrial, RollbackArmed
  <2>4. QED
    BY <2>1, <2>3, AppCalmKept DEF Asking
<1>8. QED
  BY <1>1, <1>2, <1>3, <1>4, <1>5, <1>6, <1>7, BootGuardCalm, ArmRollbackCalm DEF AppNext

LEMMA RebootCalm == BackupInv /\ Calm /\ AppReboot => Calm'
<1> SUFFICES ASSUME BackupInv, Calm, AppReboot PROVE Calm'
  OBVIOUS
<1>1. mode = "app" /\ apc = "loop" /\ Restart
      /\ UNCHANGED <<bootSel, guard, app0, prior, trusted>>
  BY DEF AppReboot, App, flashVars, savedVars
<1>2. QED
  BY <1>1, AppStands, RestartCalm

-----------------------------------------------------------------------------
\* In the setting of Undisturbed, and as long as no power loss and no failed
\* operation happens, an image that was never confirmed runs only on trial, or
\* with its rollback requested: staging, installing, counting boots, confirming
\* and rolling back hand the responsibility on without a gap.
THEOREM NewImagesGuarded == ASSUME Undisturbed PROVE Spec => []NewImageGuarded
<1> DEFINE Guarded == BackupInv /\ (Excess = 0 => Calm)
<1>1. Init => Guarded
  <2>1. ASSUME Init PROVE Calm
    <3>1. Plain /\ mode = "reset" /\ ~mon
      BY <2>1, NoneCounted DEF Init, Plain, InTrial, RollbackArmed
    <3>2. QED
      BY <3>1 DEF Calm, GuardCalm, AppCalm, WorkerCalm, Plain, Asking
  <2>2. QED
    BY <2>1, InitBackup
<1>2. Guarded /\ [Next]_vars => Guarded'
  <2> SUFFICES ASSUME Guarded, [Next]_vars PROVE Guarded'
    OBVIOUS
  <2>1. BackupInv' /\ TypeInv
    BY NextBackup DEF BackupInv
  <2>2. ASSUME Excess' = 0, Next PROVE Calm'
    <3>1. Excess = 0 /\ ~FaultOccurs /\ ~Crash
      BY <2>1, <2>2, QuietStep
    <3>2. QED
      BY <2>2, <3>1, BootCalm, WorkerStepCalm, StagingCalm, AppStepCalm, RebootCalm DEF Next
  <2>3. ASSUME Excess' = 0, UNCHANGED vars PROVE Calm'
    <3>1. Calm
      BY <2>3 DEF Excess, vars
    <3>2. QED
      BY <2>3, <3>1
      DEF vars, flashVars, savedVars, workVars, webVars, appVars, Calm, GuardCalm, AppCalm,
          WorkerCalm, Plain, Trial, InTrial, RollbackArmed, Bootable, Asking
  <2>4. QED
    BY <2>1, <2>2, <2>3
<1>3. Guarded => NewImageGuarded
  BY DEF Calm, AppCalm, NewImageGuarded, Plain, Trial, Excess
<1>4. QED
  BY <1>1, <1>2, <1>3, PTL DEF Spec
=============================================================================
