\* Power loss during an install.
SPECIFICATION Spec
CONSTANTS
  v1 = v1
  v2 = v2
  v3 = v3
  f1 = f1
  f2 = f2
  Blank = Blank
  Torn = Torn
  NoFile = NoFile
  Images = {v1, v2}
  Factory = v1
  Healthy = {v1}
  CrashLooping = {v2}
  Stalling = {}
  Files = {f1}
  MaxBoots = 1
  ConfirmDelay = 2
  ConfirmTimeout = 3
  MaxStall = 1
  RecoveryValid = TRUE
  SameKey = TRUE
  OperatorAt = {}
  ShellOptions = {"reboot"}
  Uploads = {v2}
  StageInTrial = FALSE
  ReadFaults = FALSE
  SilentClose = FALSE
  MaxCrashes = 1
  MaxFaults = 0
INVARIANTS ValidMeansBootable
CHECK_DEADLOCK FALSE
