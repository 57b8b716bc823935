CONSTANTS
  N = 2
  Kind <- KindRndisAdb
  MaxSubmode <- MaxRndisAdb
  InitSubmode <- InitGateway
  Leds = {}
  NLeds = 0
  Workers = {w1}
  ReqCap = 2
  MaxInputs = 2
  Buttons = {"TAP"}
  ReqSubmodes = {}
  LedCommands = {}
  ShutdownOn = FALSE
  EarlyInput = FALSE
SPECIFICATION FairSpec
PROPERTY ChangeIsApplied
