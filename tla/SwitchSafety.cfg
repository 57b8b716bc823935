CONSTANTS
  N = 2
  Kind <- KindRndisAdb
  MaxSubmode <- MaxRndisAdb
  InitSubmode <- InitGateway
  Leds = {0, 1}
  NLeds = 2
  Workers = {w1, w2}
  ReqCap = 2
  MaxInputs = 3
  Buttons = {"TAP", "LONG_TAP"}
  ReqSubmodes = {}
  LedCommands = {TRUE, FALSE}
  ShutdownOn = FALSE
  EarlyInput = FALSE
SYMMETRY WorkerSymmetry
SPECIFICATION Spec
INVARIANTS
  SerialApply
  LockHasOwner
  SelectedIsCommitted
  CommittedRndisIsUp
  LedShowsMode
PROPERTY ImplementsSwitcher
