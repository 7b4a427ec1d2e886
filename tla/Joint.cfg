\* Four positions, 20 ms ticks as two units, the debounce as one; the Teensy reports one position.
SPECIFICATION FairSpec
CONSTANTS
  MaxPos = 3
  TickLen = 2
  Debounce = 1
  MaxLate = 1
  Measured = {1}
INVARIANTS TypeOK OnTrack
PROPERTIES NoJump RequestPlanned ComesToRest TargetReached
