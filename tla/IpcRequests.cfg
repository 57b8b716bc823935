CONSTANTS
  Gadgets = {g1, g2}
  Directs = {d}
  Strangers = {d}
  ReqCap = 1
  None = None
SPECIFICATION FairSpec
CHECK_DEADLOCK FALSE
INVARIANTS
  QueuedIsWoken
  AnswersAreTrue
  OthersAnswersAreStale
PROPERTIES
  AcceptedIsExecuted
  HandledIsAnswered
