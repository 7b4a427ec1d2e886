\* One power loss at any point of an unattended update, two firmware files:
\* how a trial and a rollback end.
SPECIFICATION FairSpec
CONSTANTS
  v1 = v1
  v2 = v2
  v3 = v3
  f1 = f1
  f2 = f2
  Blank = Blank
  Torn = Torn
  NoFile = NoFile
  Images = {v1, v2, v3}
  Factory = v1
  Healthy = {v1}
  CrashLooping = {v3}
  Stalling = {}
  Files = {f1, f2}
  MaxBoots = 1
  ConfirmDelay = 2
  ConfirmTimeout = 3
  MaxStall = 2
  RecoveryValid = TRUE
  SameKey = TRUE
  OperatorAt = {}
  ShellOptions = {"reboot", "no-reboot", "prepare-only"}
  Uploads = {v1, v2, v3}
  StageInTrial = FALSE
  ReadFaults = FALSE
  SilentClose = FALSE
  MaxCrashes = 1
  MaxFaults = 0
PROPERTIES TrialResolves UnhealthyRolledBack RecoveryRollsBack
CHECK_DEADLOCK FALSE
