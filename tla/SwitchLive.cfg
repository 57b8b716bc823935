CONSTANTS
  N = 2
  Kind <- KindRndisAdb
  MaxSubmode <- MaxRndisAdb
  InitSubmode <- InitClient
  Leds = {}
  NLeds = 0
  Workers = {w1}
  ReqCap = 2
  MaxInputs = 2
  Buttons = {"TAP", "LONG_TAP", "MULTIPLE_TAP"}
  ReqSubmodes = {1}
  LedCommands = {}
  ShutdownOn = TRUE
  EarlyInput = FALSE
SPECIFICATION FairSpec
PROPERTIES
  UnlockEventually
  StopEnds
INVARIANTS
  SubmodeInRange
