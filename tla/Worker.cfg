SPECIFICATION FairRunSpec
INVARIANTS
  ReportIsTrue
  CommandIsContained
PROPERTIES
  RunEnds
CHECK_DEADLOCK FALSE
