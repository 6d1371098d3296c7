SPECIFICATION FairSpec
CONSTANTS
  Screens <- MCScreens
  Window <- MCWindow
  Private <- MCPrivate
  Secret <- MCSecret
  Matches <- MCMatches
INVARIANTS
  SuggestionFitsScreen
  OffForgets
PROPERTIES
  MonitoringGoesOn
CHECK_DEADLOCK FALSE
