SPECIFICATION Spec
CONSTANTS
  Actions = {"click", "type"}
  Flows = {f1, f2}
  MaxObservations = 2
INVARIANTS
  DecidedOnce
  LogIsTrue
  QueuedIsHeld
  ObservingIsBounded
PROPERTIES
  KeepsContract
  LastRecordStays
