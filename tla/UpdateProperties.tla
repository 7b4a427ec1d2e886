-------------------------- MODULE UpdateProperties --------------------------
(***************************************************************************)
(* What the update, recovery and boot-guard programs are meant to          *)
(* guarantee together.                                                     *)
(***************************************************************************)
EXTENDS UpdateRecovery

\* A backup path in the boot guard always names the complete copy of what app0
\* held when the last install began, never an older or half-written file: of
\* the four programs that write guard and backups, none lets them drift apart.
GuardBackup == guard.backup # NoFile => backup[guard.backup] = prior

\* As long as no more than one power loss or failed operation has come, an armed
\* rollback restores exactly what app0 held before the last install: whatever a
\* cut-short save_boot_guard left, the backup that restore_backup_and_boot picks from
\* guard and manifest is that copy.  (Two disturbances can leave an armed guard
\* without a backup next to a lost manifest.)
RollbackTarget ==
  RollbackArmed /\ crashes + faults <= 1
    => EffectiveBackup # NoFile /\ backup[EffectiveBackup] = prior

\* app0 is never given up while it is the only image: when an install or a
\* rollback erases a complete image, some backup file holds a complete image, whatever
\* failed before; unless what the last install replaced was no complete image either.
WipeLeavesImage ==
  [][Bootable /\ app0' \notin Images
       => prior \notin Images \/ \E f \in Files : backup[f] \in Images]_vars

\* As long as no power loss and no failed operation disturbs it, an image that
\* was never confirmed runs only on trial (boot guard armed), or with its
\* rollback already requested.
NewImageGuarded ==
  mode = "app" /\ app0 # trusted /\ crashes + faults = 0 => InTrial \/ RollbackArmed

\* A trial is not prolonged: boot_count passes MaxBoots by more than one only by
\* a boot whose accounting was cut short by a reset or a failed write.
TrialBound == guard.count <= MaxBoots + 1 + crashes + faults

\* The countdown to app0 says "app0 is valid": the image then boots.
ValidMeansBootable == mode = "recovery" /\ wk = "countdown" => Bootable

\* Every trial ends, by confirmation or by a request for rollback.
TrialResolves == InTrial ~> ~InTrial

\* After the last power loss, an image on trial that does not become healthy is
\* replaced by the one before it.
UnhealthyRolledBack ==
  mode = "app" /\ InTrial /\ app0 \notin Healthy /\ crashes = MaxCrashes
    ~> mode = "app" /\ app0 = prior

\* Once recovery runs with a rollback requested, the old image is put back and
\* the request withdrawn, also when power is lost on the way.
RecoveryRollsBack ==
  mode = "recovery" /\ RollbackArmed ~> Bootable /\ app0 = prior /\ ~RollbackArmed
=============================================================================
