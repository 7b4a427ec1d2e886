\* Everything at once: one power loss, one failed operation, an operator who never waits, mixed keys, unreadable guards and lost writes.
SPECIFICATION Spec
CONSTANTS
  v1 = v1
  v2 = v2
  v3 = v3
  f1 = f1
  f2 = f2
  Blank = Blank
  Torn = Torn
  NoFile = NoFile
  Images = {v1, v2, v3}
  Factory = v1
  Healthy = {v1}
  CrashLooping = {v2}
  Stalling = {v3}
  Files = {f1}
  MaxBoots = 1
  ConfirmDelay = 2
  ConfirmTimeout = 3
  MaxStall = 1
  RecoveryValid = TRUE
  SameKey = FALSE
  OperatorAt = {"idle", "busy"}
  ShellOptions = {"reboot", "prepare-only"}
  Uploads = {v2, v3}
  StageInTrial = TRUE
  ReadFaults = TRUE
  SilentClose = TRUE
  MaxCrashes = 1
  MaxFaults = 1
INVARIANTS TrialBound
CHECK_DEADLOCK FALSE
