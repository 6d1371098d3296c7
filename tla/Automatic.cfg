SPECIFICATION FairSpec
CONSTANTS
  Runs = {r1, r2}
  Scripts = {"typecheck", "test"}
  Commands <- MCCommands
  MaxAttempts = 5
  DebuggerMax = 3
INVARIANTS
  RepairsAreBounded
  OkIsVerified
PROPERTIES
  LoopsEnd
CHECK_DEADLOCK FALSE
