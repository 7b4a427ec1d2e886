\* Windows of three numbers out of fourteen, three runs, one NVS fault; four sessions of which two are remembered; messages of up to four bytes in groups of up to two, a buffer of five.
SPECIFICATION MCSpec
CONSTANTS
  s1 = s1
  s2 = s2
  s3 = s3
  s4 = s4
  Window = 3
  Margin = 1
  MaxSeq = 14
  Remembered = 2
  Sessions = {s1, s2, s3, s4}
  NoSession = NoSession
  PeerSeqs = {1, 2}
  MaxBoots = 3
  MaxFaults = 1
  MaxCode = 3
  FrameCap = 5
  Bytes = {0, 2}
  MaxMsg = 4
INVARIANTS TypeOK WindowPerBoot RoundTrip
PROPERTIES NumbersFresh TakenOnce Resynchronises
SYMMETRY Symmetric
