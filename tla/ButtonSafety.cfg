CONSTANTS
  LongTapThreshold = 1
  LongTapImmediately = TRUE
  MultipleTapThreshold = 1
  MultipleTapMaxCount = 2
  ShutdownThreshold = 2
  Injections = {}
  MaxPresses = 3
  MaxInjections = 0
  MaxTime = 4
SPECIFICATION Spec
INVARIANTS
  NoStrandedEvents
  ShutdownWatched
  EveryPressOnce
  ReportedAsHeld
  MultipleTapsAreClose
