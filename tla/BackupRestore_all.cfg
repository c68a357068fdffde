CONSTANTS
  Uploads = {u1, u2}
  Backups = {b1, b2}
  Sessions = {s1}
  NoSession = NoSession
  MaxRestores = 2
  Faults = TRUE
SPECIFICATION Spec
SYMMETRY Symmetric
INVARIANTS TypeOK RowsHaveFiles BackupHoldsFiles OldSessionsEnd
CHECK_DEADLOCK FALSE
