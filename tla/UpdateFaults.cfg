\* Two power losses and two failed operations, the portal used while the worker idles; one image that is never healthy.
SPECIFICATION Spec
CONSTANTS
  v1 = v1
  v2 = v2
  v3 = v3
  f1 = f1
  f2 = f2
  Blank = Blank
  Torn = Torn
  NoFile = NoFile
  Images = {v1, v2, v3}
  Factory = v1
  Healthy = {v1, v2}
  CrashLooping = {v3}
  Stalling = {}
  Files = {f1}
  MaxBoots = 1
  ConfirmDelay = 2
  ConfirmTimeout = 3
  MaxStall = 1
  RecoveryValid = TRUE
  SameKey = TRUE
  OperatorAt = {"idle"}
  ShellOptions = {"reboot", "no-reboot", "prepare-only"}
  Uploads = {v2, v3}
  StageInTrial = FALSE
  ReadFaults = FALSE
  SilentClose = FALSE
  MaxCrashes = 2
  MaxFaults = 2
INVARIANTS TypeOK GuardBackup NewImageGuarded RollbackTarget
PROPERTIES WipeLeavesImage
CHECK_DEADLOCK FALSE
