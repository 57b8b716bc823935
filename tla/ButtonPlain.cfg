CONSTANTS
  LongTapThreshold = 1
  LongTapImmediately = FALSE
  MultipleTapThreshold <- Disabled
  MultipleTapMaxCount = 2
  ShutdownThreshold = 2
  Injections = {"tap"}
  MaxPresses = 2
  MaxInjections = 1
  MaxTime = 2
SPECIFICATION Spec
INVARIANT EveryPressOnce
