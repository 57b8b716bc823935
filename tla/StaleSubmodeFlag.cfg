CONSTANTS
  N = 2
  Kind <- KindRndisAdb
  MaxSubmode <- MaxRndisAdb
  InitSubmode <- InitGateway
  Leds = {}
  NLeds = 0
  Workers = {w1}
  ReqCap = 2
  MaxInputs = 3
  Buttons = {"TAP", "LONG_TAP"}
  ReqSubmodes = {}
  LedCommands = {}
  ShutdownOn = FALSE
  EarlyInput = FALSE
SPECIFICATION Spec
INVARIANT GadgetMatchesMode
