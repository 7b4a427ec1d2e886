\* A queue of two; two tasks at once in the queue code, or one failed write and the lock,
\* or the OE pin switched off and the lock.
SPECIFICATION FairSpec
CONSTANTS
  QueueCap = 2
  OEOps = {FALSE}
  MaxFaults = 1
  MaxInside = 2
  Scenes = {{"race"}, {"fault", "lock"}, {"oe", "lock"}}
INVARIANTS TypeOK LatestWins
PROPERTIES MotorOffStops
