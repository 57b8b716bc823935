CONSTANTS
  LedModes <- DaemonModes
  MaxDuration = 2
  MaxElapsed = 3
  MaxInt = 12
  Loops = {l1, l2}
  NoLoop = NoLoop
SPECIFICATION FairSpec
CHECK_DEADLOCK FALSE
INVARIANTS
  OneLoop
  LedFollowsMode
  NeverSpins
  RoundTakesItsTime
PROPERTIES
  LastModeShown
