SPECIFICATION FairSpec
CONSTANTS
  None = None
  Pending = Pending
  Chains = {k1, k2}
  Plans = {p1, p2}
  Ids = {i1}
  MaxAttempts = 3
  MaxSessions = 2
INVARIANTS
  ApprovedIsShown
  CallbacksAreBounded
  RejectionHolds
PROPERTIES
  ApprovalIsLogged
  EndIsFinal
  CallsReturn
CHECK_DEADLOCK FALSE
