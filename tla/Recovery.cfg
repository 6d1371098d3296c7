SPECIFICATION Spec
CONSTANTS
  None = None
  Backups = {b1, b2}
  MaxRecords = 2
INVARIANTS
  RestoredIsBackup
  ReadyIsVerified
  CopiesVerify
PROPERTIES
  RecordsStay
SYMMETRY Symmetry
