CONSTANTS
  Pids = {p1, p2}
  None = None
  Leftovers = {{}, {"own"}, {"other"}}
  MaxMounts = 2
SPECIFICATION Spec
INVARIANTS
  HandlesLive
  FailureHasCause
  AdbdAccounted
  OneAdbd
PROPERTIES
  StopLeavesNothing
