-------------------------- MODULE MCBackupRestore --------------------------
EXTENDS BackupRestore, TLC

Symmetric == Permutations(Uploads) \cup Permutations(Backups)
=============================================================================
