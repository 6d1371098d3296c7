SPECIFICATION Spec
CONSTANTS
  Runs = {r1}
  Scripts = {"typecheck", "test"}
  Commands <- MCCommands
  MaxAttempts = 5
  DebuggerMax = 3
INVARIANTS
  PermissionIsNotRetried
CHECK_DEADLOCK FALSE
