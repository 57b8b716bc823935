CONSTANTS
  LongTapThreshold = 1
  LongTapImmediately = TRUE
  MultipleTapThreshold = 1
  MultipleTapMaxCount = 2
  ShutdownThreshold = 2
  Injections = {"tap", "long", "multi", "shutdown"}
  MaxPresses = 1
  MaxInjections = 1
  MaxTime = 4
SPECIFICATION FairSpec
PROPERTY EventsDelivered
