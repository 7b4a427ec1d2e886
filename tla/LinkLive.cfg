\* The link for ever, the numbers wrapping, the task as fast as it is meant to be.
SPECIFICATION FairSpec
CONSTANTS
  MaxRetries = 2
  AckTimeout = 1
  SeqCount = 3
  SeqWraps = TRUE
  PeerSeqs = {1}
  SlowTask = FALSE
  MaxAsked = 0
PROPERTIES MotorOffArrives
