CONSTANTS
  Uploads = {u1, u2}
  Backups = {b1}
  Sessions = {}
  NoSession = NoSession
  MaxRestores = 2
  Faults = FALSE
SPECIFICATION Spec
INVARIANTS BackupIsRestorable
CHECK_DEADLOCK FALSE
