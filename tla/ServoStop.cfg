\* One I2C write fails.
SPECIFICATION FairSpec
CONSTANTS
  QueueCap = 1
  OEOps = {}
  MaxFaults = 1
  MaxInside = 2
  Scenes = {{"fault", "lock"}}
PROPERTIES StopRetried
