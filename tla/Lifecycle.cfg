SPECIFICATION FairSpec
CONSTANTS
  None = None
  Processes = {p1, p2}
INVARIANTS
  HolderIsOnFile
  DatabaseHasOneUser
PROPERTY StopEnds
CHECK_DEADLOCK FALSE
