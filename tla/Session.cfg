SPECIFICATION FairSpec
CONSTANTS
  None = None
  Flows = {f1, f2}
  MaxRequests = 3
  MaxTurns = 2
  MaxCalls = 2
INVARIANTS
  OneRunPerCall
  AnswersAreTrue
  PendingAgrees
PROPERTIES
  FlowsEnd
CHECK_DEADLOCK FALSE
