\* Five frames, every race of the task with the interrupt and with the setters.
SPECIFICATION Spec
CONSTANTS
  MaxRetries = 2
  AckTimeout = 1
  SeqCount = 5
  SeqWraps = FALSE
  PeerSeqs = {1}
  SlowTask = TRUE
  MaxAsked = 1
INVARIANTS TypeOK BufferFree SendBound OneShot
PROPERTIES InOrder AnsweredWhenHeard ChannelKept
