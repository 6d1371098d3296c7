SPECIFICATION Spec
CONSTANTS
  None = None
  read = read
  write = write
  click = click
  system = system
  unknown = unknown
  Calls = {c1, c2}
  Actions = {a1, a2}
  Approvals = {p1, p2}
  Payloads = {read, write, click, system, unknown}
  Known <- MCKnown
  WellFormed <- MCWellFormed
  Outward <- MCOutward
  DeclaredRisk <- MCDeclaredRisk
  Policy <- MCPolicy
  MaxToolCalls = 2
  MaxSessions = 2
INVARIANTS
  GrantedIsResumed
CHECK_DEADLOCK FALSE
