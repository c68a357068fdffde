------------------------ MODULE BackupRestoreProofs ------------------------
(***************************************************************************)
(* Proofs about BackupRestore, for any number of uploads, backups, tokens  *)
(* and restores, and any faults: the types, the files of the rows and of   *)
(* the backups, which backups can be restored, and the end of the old      *)
(* tokens.                                                                 *)
(***************************************************************************)
EXTENDS BackupRestore, TLAPS

(* A restore under way was let in below the bound. *)
BelowBound ==
  restore.stage \in {"loaded", "aside", "cleared", "replaced", "undoing"} => restored < MaxRestores

Typed == TypeOK /\ BelowBound /\ epoch <= restored

-----------------------------------------------------------------------------
(* The initial state is typed. *)
LEMMA TypedInit == Init => Typed
<1>. SUFFICES ASSUME Init PROVE Typed
  OBVIOUS
<1>1. NoTables \in Tables
  BY DEF NoTables, Tables
<1>2. NoArchive \in [stage : BackupStages, tables : Tables, files : SUBSET Uploads]
  BY <1>1 DEF NoArchive, BackupStages
<1>3. IdleRestore \in [stage : RestoreStages, tables : Tables,
                       extracted : SUBSET Uploads, aside : SUBSET Uploads]
  BY <1>1 DEF IdleRestore, RestoreStages
<1>4. rows \in Tables /\ cut \in BOOLEAN
  BY <1>1 DEF Init
<1>5. upload \in [Uploads -> [stage : UploadStages, repair : Uploads]]
  BY DEF Init, UploadStages
<1>6. BelowBound
  BY DEF Init, BelowBound, IdleRestore
<1>. QED BY <1>2, <1>3, <1>4, <1>5, <1>6, ConstantsAssumption DEF Init, Typed, TypeOK

(* A step of an upload keeps the types. *)
LEMMA TypedUpload == ASSUME Typed, NEW u \in Uploads, Upload(u) PROVE Typed'
<1>. USE DEF Typed, TypeOK, BelowBound
<1>1. ASSUME NEW r \in Uploads, UploadWrites(u, r) PROVE Typed'
  BY <1>1 DEF UploadWrites, UploadStages
<1>2. ASSUME UploadCommits(u) PROVE Typed'
  BY <1>2 DEF UploadCommits, UploadStages, Tables, Documents
<1>3. ASSUME UploadFails(u) PROVE Typed'
  BY <1>3 DEF UploadFails, UploadStages
<1>. QED BY <1>1, <1>2, <1>3 DEF Upload

(* A step of a backup keeps the types. *)
LEMMA TypedBackup == ASSUME Typed, NEW b \in Backups, CreateBackup(b) PROVE Typed'
<1>. USE DEF Typed, TypeOK, BelowBound, BackupStages
<1>1. ASSUME BackupReadsRepairs(b) PROVE Typed'
  <2>1. backup'[b] \in [stage : BackupStages, tables : Tables, files : SUBSET Uploads]
    <3>1. /\ backup[b].tables \in Tables
          /\ rows.repairs \in SUBSET Uploads
          /\ backup[b] \in [stage : BackupStages, tables : Tables, files : SUBSET Uploads]
      BY DEF Tables
    <3>2. backup'[b] = [backup[b] EXCEPT !.stage = "repairs", !.tables.repairs = rows.repairs]
      BY <1>1 DEF BackupReadsRepairs
    <3>3. [backup[b].tables EXCEPT !.repairs = rows.repairs] \in Tables
      BY <3>1 DEF Tables
    <3>. QED BY <3>1, <3>2, <3>3
  <2>2. \A x \in Backups : x # b => backup'[x] = backup[x]
    BY <1>1 DEF BackupReadsRepairs
  <2>3. backup' \in [Backups -> [stage : BackupStages, tables : Tables, files : SUBSET Uploads]]
    BY <1>1, <2>1, <2>2 DEF BackupReadsRepairs
  <2>. QED BY <1>1, <2>3 DEF BackupReadsRepairs
<1>2. ASSUME BackupReadsDocuments(b) PROVE Typed'
  <2>1. backup'[b] \in [stage : BackupStages, tables : Tables, files : SUBSET Uploads]
    <3>1. /\ backup[b].tables \in Tables
          /\ rows.documents \in SUBSET Documents
          /\ backup[b] \in [stage : BackupStages, tables : Tables, files : SUBSET Uploads]
      BY DEF Tables
    <3>2. backup'[b] = [backup[b] EXCEPT !.stage = "documents", !.tables.documents = rows.documents]
      BY <1>2 DEF BackupReadsDocuments
    <3>3. [backup[b].tables EXCEPT !.documents = rows.documents] \in Tables
      BY <3>1 DEF Tables
    <3>. QED BY <3>1, <3>2, <3>3
  <2>2. \A x \in Backups : x # b => backup'[x] = backup[x]
    BY <1>2 DEF BackupReadsDocuments
  <2>3. backup' \in [Backups -> [stage : BackupStages, tables : Tables, files : SUBSET Uploads]]
    BY <1>2, <2>1, <2>2 DEF BackupReadsDocuments
  <2>. QED BY <1>2, <2>3 DEF BackupReadsDocuments
<1>3. ASSUME BackupListsFiles(b) PROVE Typed'
  <2>1. FilesOf(backup[b].tables) \subseteq Uploads
    BY DEF FilesOf, Tables, Documents
  <2>2. exposed' \in SUBSET Uploads
    BY <1>3, <2>1 DEF BackupListsFiles
  <2>3. backup' \in [Backups -> [stage : BackupStages, tables : Tables, files : SUBSET Uploads]]
    <3>1. backup[b] \in [stage : BackupStages, tables : Tables, files : SUBSET Uploads]
      OBVIOUS
    <3>2. [backup[b] EXCEPT !.stage = "listed", !.files = storage]
            \in [stage : BackupStages, tables : Tables, files : SUBSET Uploads]
      BY <3>1
    <3>3. backup' = [backup EXCEPT ![b] = [backup[b] EXCEPT !.stage = "listed", !.files = storage]]
      BY <1>3 DEF BackupListsFiles
    <3>. QED BY <3>2, <3>3
  <2>. QED BY <1>3, <2>2, <2>3 DEF BackupListsFiles
<1>4. ASSUME BackupWrites(b) PROVE Typed'
  BY <1>4 DEF BackupWrites
<1>. QED BY <1>1, <1>2, <1>3, <1>4 DEF CreateBackup

(* A step of a restore keeps the types. *)
LEMMA TypedRestore == ASSUME Typed, RestoreBackup PROVE Typed'
<1>. USE ConstantsAssumption DEF Typed, TypeOK, BelowBound, RestoreStages, IdleRestore, NoTables
<1>0. IdleRestore \in [stage : RestoreStages, tables : Tables,
                       extracted : SUBSET Uploads, aside : SUBSET Uploads]
  BY DEF Tables, Documents
<1>1. ASSUME NEW b \in Backups, RestoreLoads(b) PROVE Typed'
  <2>1. mixed' \in SUBSET Backups
    BY <1>1 DEF RestoreLoads, BeingMade
  <2>2. restore' \in [stage : RestoreStages, tables : Tables,
                     extracted : SUBSET Uploads, aside : SUBSET Uploads]
    BY <1>1 DEF RestoreLoads
  <2>. QED BY <1>1, <2>1, <2>2 DEF RestoreLoads
<1>2. ASSUME RestoreMovesAside PROVE Typed'
  BY <1>2 DEF RestoreMovesAside
<1>3. ASSUME RestoreClears \/ RestoreMovesIn PROVE Typed'
  BY <1>3 DEF RestoreClears, RestoreMovesIn
<1>4. ASSUME RestoreCommits PROVE Typed'
  BY <1>4 DEF RestoreCommits
<1>5. ASSUME RestoreRollsBack \/ RestoreMovesBack PROVE Typed'
  BY <1>0, <1>5 DEF RestoreRollsBack, RestoreMovesBack
<1>6. ASSUME RestoreRotatesEpoch PROVE Typed'
  <2>1. cut' \in BOOLEAN
    BY ONLY <1>6 DEF RestoreRotatesEpoch
  <2>2. restored' = restored /\ epoch' = restored /\ restore' = IdleRestore
    BY ONLY <1>6 DEF RestoreRotatesEpoch
  <2>3. BelowBound' /\ (epoch <= restored)'
    BY <2>2
  <2>4. UNCHANGED <<rows, storage, upload, backup, session, restored, mixed, exposed>>
    BY ONLY <1>6 DEF RestoreRotatesEpoch
  <2>. QED BY <1>0, <2>1, <2>2, <2>3, <2>4
<1>7. ASSUME RestoreStorageFails PROVE Typed'
  <2>1. storage' \in SUBSET Uploads
    BY <1>7 DEF RestoreStorageFails
  <2>2. exposed' \in SUBSET Uploads
    BY <1>7 DEF RestoreStorageFails
  <2>. QED BY <1>0, <1>7, <2>1, <2>2 DEF RestoreStorageFails
<1>8. ASSUME RestoreDies PROVE Typed'
  BY <1>0, <1>8 DEF RestoreDies
<1>. QED BY <1>1, <1>2, <1>3, <1>4, <1>5, <1>6, <1>7, <1>8 DEF RestoreBackup

(* A login keeps the types. *)
LEMMA TypedLogin == ASSUME Typed, NEW s \in Sessions, Login(s) PROVE Typed'
BY DEF Login, Typed, TypeOK, BelowBound

(* Every step keeps the types. *)
LEMMA TypedStep == Typed /\ [Next]_vars => Typed'
<1>. SUFFICES ASSUME Typed, [Next]_vars PROVE Typed'
  OBVIOUS
<1>1. CASE UNCHANGED vars
  BY <1>1 DEF vars, Typed, TypeOK, BelowBound
<1>2. CASE Next
  BY <1>2, TypedUpload, TypedBackup, TypedRestore, TypedLogin DEF Next
<1>. QED BY <1>1, <1>2

LEMMA TypedAlways == Spec => []Typed
BY TypedInit, TypedStep, PTL DEF Spec

(* The rows, the files, the backups, the restore and the tokens have their *)
(* types (the tables and the directories of backups.py).                   *)
THEOREM TypeCorrect == Spec => []TypeOK
<1>1. Typed => TypeOK
  BY DEF Typed
<1>. QED BY <1>1, TypedAlways, PTL

-----------------------------------------------------------------------------
Stored == {u \in Uploads : upload[u].stage = "stored"}

(* Only stored uploads have rows, live, saved or about to be restored. *)
RowsAreStored ==
  /\ FilesOf(rows) \subseteq Stored
  /\ FilesOf(restore.tables) \subseteq Stored
  /\ \A b \in Backups : FilesOf(backup[b].tables) \subseteq Stored

(* Where the file of an upload that has no row yet is. *)
WrittenFiles ==
  \A u \in Uploads : upload[u].stage = "written" =>
    /\ u \in storage \cup exposed
    /\ Replacing => u \in exposed

(* Where the files of the live rows are. *)
LiveFiles ==
  /\ RowsHaveFiles
  /\ Replacing => FilesOf(rows) \subseteq restore.aside \cup exposed

(* Where the files of the rows that a restore brings are. *)
RestoreFiles ==
  /\ restore.stage \in {"loaded", "aside", "cleared"} =>
       FilesOf(restore.tables) \subseteq restore.extracted \cup exposed
  /\ restore.stage = "replaced" => FilesOf(restore.tables) \subseteq storage \cup exposed

(* Where the files of the rows in a backup are. *)
BackupFiles ==
  \A b \in Backups :
    /\ backup[b].stage = "documents" /\ b \notin mixed =>
         FilesOf(backup[b].tables) \subseteq storage \cup exposed
    /\ backup[b].stage \in {"listed", "ready"} =>
         FilesOf(backup[b].tables) \subseteq backup[b].files \cup exposed

(* A backup and a restore that are under way together. *)
OverlapIsMixed == Restoring => BeingMade \subseteq mixed

FilesInv ==
  /\ Typed
  /\ RowsAreStored
  /\ WrittenFiles
  /\ LiveFiles
  /\ RestoreFiles
  /\ BackupFiles
  /\ OverlapIsMixed

LEMMA FilesInit == Init => FilesInv
<1>. SUFFICES ASSUME Init PROVE FilesInv
  OBVIOUS
<1>1. FilesOf(NoTables) = {}
  BY DEF FilesOf, NoTables
<1>. QED BY <1>1, TypedInit DEF Init, FilesInv, RowsAreStored, WrittenFiles, LiveFiles, RowsHaveFiles, RestoreFiles,
     BackupFiles, OverlapIsMixed, BeingMade, Restoring, Replacing, IdleRestore, NoArchive

LEMMA FilesUpload == ASSUME FilesInv, NEW u \in Uploads, Upload(u) PROVE FilesInv'
<1>. USE DEF FilesInv, RowsAreStored, WrittenFiles, LiveFiles, RowsHaveFiles, RestoreFiles, BackupFiles,
         OverlapIsMixed, BeingMade, Restoring, Replacing, Stored, Typed, TypeOK
<1>0. Typed'
  BY TypedUpload
<1>1. ASSUME NEW r \in Uploads, UploadWrites(u, r) PROVE FilesInv'
  <2>1. \A x \in Uploads : x # u => upload'[x] = upload[x]
    BY <1>1 DEF UploadWrites
  <2>2. upload[u].stage = "none" /\ upload'[u].stage = "written"
    BY <1>1 DEF UploadWrites
  <2>3. Stored' = Stored
    BY <2>1, <2>2
  <2>4. RowsAreStored'
    BY <1>1, <2>3 DEF UploadWrites
  <2>5. WrittenFiles'
    BY <1>1, <2>1, <2>2 DEF UploadWrites
  <2>6. LiveFiles' /\ RestoreFiles' /\ BackupFiles' /\ OverlapIsMixed'
    BY <1>1 DEF UploadWrites
  <2>. QED BY <1>0, <2>4, <2>5, <2>6
<1>2. ASSUME UploadCommits(u) PROVE FilesInv'
  <2>1. \A x \in Uploads : x # u => upload'[x] = upload[x]
    BY <1>2 DEF UploadCommits
  <2>2. upload[u].stage = "written" /\ upload'[u].stage = "stored"
    BY <1>2 DEF UploadCommits
  <2>3. Stored' = Stored \cup {u}
    BY <2>1, <2>2
  <2>4. FilesOf(rows') = FilesOf(rows) \cup {u}
    <3>. DEFINE row == [file |-> u, repair |-> upload[u].repair]
    <3>1. rows'.documents = rows.documents \cup {row}
      BY <1>2 DEF UploadCommits
    <3>2. row.file = u
      OBVIOUS
    <3>. HIDE DEF row
    <3>3. FilesOf(rows) = {d.file : d \in rows.documents}
      BY ONLY DEF FilesOf
    <3>4. FilesOf(rows') = {d.file : d \in rows'.documents}
      BY ONLY DEF FilesOf
    <3>. QED BY ONLY <3>1, <3>2, <3>3, <3>4
  <2>5. RowsAreStored'
    BY <1>2, <2>3, <2>4 DEF UploadCommits
  <2>6. WrittenFiles'
    BY <1>2, <2>1, <2>2 DEF UploadCommits
  <2>7. LiveFiles'
    BY <1>2, <2>2, <2>4 DEF UploadCommits
  <2>8. RestoreFiles' /\ BackupFiles' /\ OverlapIsMixed'
    BY <1>2 DEF UploadCommits
  <2>. QED BY <1>0, <2>5, <2>6, <2>7, <2>8
<1>3. ASSUME UploadFails(u) PROVE FilesInv'
  <2>1. \A x \in Uploads : x # u => upload'[x] = upload[x]
    BY <1>3 DEF UploadFails
  <2>2. upload[u].stage = "written" /\ upload'[u].stage = "refused"
    BY <1>3 DEF UploadFails
  <2>3. Stored' = Stored /\ u \notin Stored
    BY <2>1, <2>2
  <2>4. RowsAreStored'
    BY <1>3, <2>3 DEF UploadFails
  <2>5. WrittenFiles'
    BY <1>3, <2>1, <2>2 DEF UploadFails
  <2>6. LiveFiles' /\ RestoreFiles' /\ BackupFiles' /\ OverlapIsMixed'
    BY <1>3, <2>3 DEF UploadFails
  <2>. QED BY <1>0, <2>4, <2>5, <2>6
<1>. QED BY <1>1, <1>2, <1>3 DEF Upload

LEMMA FilesBackup ==
  ASSUME FilesInv, NEW b \in Backups, CreateBackup(b) PROVE FilesInv'
<1>. USE DEF FilesInv, RowsAreStored, WrittenFiles, LiveFiles, RowsHaveFiles, RestoreFiles, BackupFiles,
         OverlapIsMixed, BeingMade, Restoring, Replacing, Stored, Typed, TypeOK
<1>0. Typed'
  BY TypedBackup
<1>1. ASSUME BackupReadsRepairs(b) PROVE FilesInv'
  <2>1. \A x \in Backups : x # b => backup'[x] = backup[x]
    BY <1>1 DEF BackupReadsRepairs
  <2>2. backup'[b].stage = "repairs" /\ FilesOf(backup'[b].tables) = FilesOf(backup[b].tables)
    BY <1>1 DEF BackupReadsRepairs, FilesOf, Tables
  <2>3. RowsAreStored' /\ BackupFiles'
    BY <1>1, <2>1, <2>2 DEF BackupReadsRepairs
  <2>4. WrittenFiles' /\ LiveFiles' /\ RestoreFiles' /\ OverlapIsMixed'
    BY <1>1 DEF BackupReadsRepairs
  <2>. QED BY <1>0, <2>3, <2>4
<1>2. ASSUME BackupReadsDocuments(b) PROVE FilesInv'
  <2>1. \A x \in Backups : x # b => backup'[x] = backup[x]
    BY <1>2 DEF BackupReadsDocuments
  <2>2. backup'[b].stage = "documents" /\ FilesOf(backup'[b].tables) = FilesOf(rows)
    <3>1. backup[b].tables \in Tables
      OBVIOUS
    <3>2. backup'[b].tables = [backup[b].tables EXCEPT !.documents = rows.documents]
      BY <1>2 DEF BackupReadsDocuments
    <3>3. backup'[b].tables.documents = rows.documents
      BY <3>1, <3>2 DEF Tables
    <3>. QED BY <1>2, <3>3 DEF BackupReadsDocuments, FilesOf
  <2>3. Restoring => b \in mixed
    BY <1>2 DEF BackupReadsDocuments
  <2>4. RowsAreStored' /\ BackupFiles'
    BY <1>2, <2>1, <2>2, <2>3 DEF BackupReadsDocuments
  <2>5. WrittenFiles' /\ LiveFiles' /\ RestoreFiles' /\ OverlapIsMixed'
    BY <1>2, <2>3 DEF BackupReadsDocuments
  <2>. QED BY <1>0, <2>4, <2>5
<1>3. ASSUME BackupListsFiles(b) PROVE FilesInv'
  <2>1. \A x \in Backups : x # b => backup'[x] = backup[x]
    BY <1>3 DEF BackupListsFiles
  <2>2. /\ backup'[b].stage = "listed"
        /\ backup'[b].tables = backup[b].tables
        /\ backup'[b].files = storage
    BY <1>3 DEF BackupListsFiles
  <2>3. RowsAreStored' /\ BackupFiles'
    BY <1>3, <2>1, <2>2 DEF BackupListsFiles
  <2>4. WrittenFiles' /\ LiveFiles' /\ RestoreFiles' /\ OverlapIsMixed'
    BY <1>3 DEF BackupListsFiles
  <2>. QED BY <1>0, <2>3, <2>4
<1>4. ASSUME BackupWrites(b) PROVE FilesInv'
  <2>1. \A x \in Backups : x # b => backup'[x] = backup[x]
    BY <1>4 DEF BackupWrites
  <2>2. /\ backup[b].stage = "listed"
        /\ backup'[b].stage \in {"ready", "failed"}
        /\ backup'[b].tables = backup[b].tables
        /\ backup'[b].files = backup[b].files
    BY <1>4 DEF BackupWrites
  <2>3. RowsAreStored' /\ BackupFiles'
    BY <1>4, <2>1, <2>2 DEF BackupWrites
  <2>4. WrittenFiles' /\ LiveFiles' /\ RestoreFiles' /\ OverlapIsMixed'
    BY <1>4, <2>1, <2>2 DEF BackupWrites
  <2>. QED BY <1>0, <2>3, <2>4
<1>. QED BY <1>1, <1>2, <1>3, <1>4 DEF CreateBackup

LEMMA FilesRestore == ASSUME FilesInv, RestoreBackup PROVE FilesInv'
<1>. USE DEF FilesInv, RowsAreStored, WrittenFiles, LiveFiles, RowsHaveFiles, RestoreFiles, BackupFiles,
         OverlapIsMixed, BeingMade, Restoring, Replacing, Stored, Typed, TypeOK
<1>0. Typed'
  BY TypedRestore
<1>01. FilesOf(IdleRestore.tables) = {} /\ IdleRestore.stage = "idle"
  BY DEF FilesOf, NoTables, IdleRestore
<1>1. ASSUME NEW b \in Backups, RestoreLoads(b) PROVE FilesInv'
  BY <1>0, <1>1 DEF RestoreLoads
<1>2. ASSUME RestoreMovesAside PROVE FilesInv'
  <2>1. RowsAreStored' /\ WrittenFiles'
    BY <1>2 DEF RestoreMovesAside
  <2>2. LiveFiles' /\ RestoreFiles'
    BY <1>2 DEF RestoreMovesAside
  <2>3. BackupFiles' /\ OverlapIsMixed'
    BY <1>2 DEF RestoreMovesAside
  <2>. QED BY <1>0, <2>1, <2>2, <2>3
<1>3. ASSUME RestoreClears \/ RestoreMovesIn PROVE FilesInv'
  BY <1>0, <1>3 DEF RestoreClears, RestoreMovesIn
<1>4. ASSUME RestoreCommits PROVE FilesInv'
  BY <1>0, <1>4 DEF RestoreCommits
<1>5. ASSUME RestoreRollsBack \/ RestoreMovesBack PROVE FilesInv'
  BY <1>0, <1>01, <1>5 DEF RestoreRollsBack, RestoreMovesBack
<1>6. ASSUME RestoreRotatesEpoch PROVE FilesInv'
  BY <1>0, <1>01, <1>6 DEF RestoreRotatesEpoch
<1>7. ASSUME RestoreStorageFails PROVE FilesInv'
  <2>1. /\ restore' = IdleRestore
        /\ exposed' = exposed \cup ((IF Replacing THEN restore.aside ELSE storage) \ storage')
        /\ UNCHANGED <<rows, upload, backup, mixed>>
        /\ restore.stage \in {"loaded", "aside", "cleared", "replaced", "undoing"}
    BY <1>7 DEF RestoreStorageFails
  <2>2. RowsAreStored' /\ WrittenFiles'
    BY <1>01, <2>1
  <2>3. LiveFiles' /\ RestoreFiles'
    BY <1>01, <2>1
  <2>4. BackupFiles' /\ OverlapIsMixed'
    BY <1>01, <2>1
  <2>. QED BY <1>0, <2>2, <2>3, <2>4
<1>8. ASSUME RestoreDies PROVE FilesInv'
  BY <1>0, <1>01, <1>8 DEF RestoreDies
<1>. QED BY <1>1, <1>2, <1>3, <1>4, <1>5, <1>6, <1>7, <1>8 DEF RestoreBackup

LEMMA FilesLogin == ASSUME FilesInv, NEW s \in Sessions, Login(s) PROVE FilesInv'
BY TypedLogin DEF Login, FilesInv, RowsAreStored, WrittenFiles, LiveFiles, RowsHaveFiles, RestoreFiles,
   BackupFiles, OverlapIsMixed, BeingMade, Restoring, Replacing, Stored

LEMMA FilesStep == ASSUME FilesInv, [Next]_vars PROVE FilesInv'
<1>1. CASE UNCHANGED vars
  BY <1>1, TypedStep DEF vars, FilesInv, RowsAreStored, WrittenFiles, LiveFiles, RowsHaveFiles, RestoreFiles,
     BackupFiles, OverlapIsMixed, BeingMade, Restoring, Replacing, Stored
<1>2. CASE Next
  BY <1>2, FilesUpload, FilesBackup, FilesRestore, FilesLogin DEF Next
<1>. QED BY <1>1, <1>2

LEMMA FilesAlways == Spec => []FilesInv
BY FilesInit, FilesStep, PTL DEF Spec

(* A row loses its file only to a restore that was cut short, in its own moves *)
(* or in those of its rollback, that the upload itself overlapped, or whose    *)
(* archive was made during another restore.                                    *)
THEOREM RowsKeepFiles == Spec => []RowsHaveFiles
<1>1. FilesInv => RowsHaveFiles
  BY DEF FilesInv, LiveFiles
<1>. QED BY <1>1, FilesAlways, PTL

(* A backup that is offered holds the files of its rows, however many uploads *)
(* go on while it is made, unless a restore did.                              *)
THEOREM BackupsHoldFiles == Spec => []BackupHoldsFiles
<1>1. FilesInv => BackupHoldsFiles
  BY DEF FilesInv, BackupFiles, BackupHoldsFiles
<1>. QED BY <1>1, FilesAlways, PTL

-----------------------------------------------------------------------------
(* What the run backup_torn shows is all that can happen to a backup.       *)

(* The repairs changed between the two reads of a backup. *)
TornRead ==
  \E b \in Backups : BackupReadsDocuments(b) /\ backup[b].tables.repairs # rows.repairs

(* No document is without its repair: not in the database, and so not in    *)
(* what a backup read of it and in what a restore brings back.              *)
WholeTables ==
  /\ \A b \in Backups : backup[b].stage \notin {"none", "repairs"} => Restorable(backup[b].tables)
  /\ restore.stage \in {"loaded", "aside", "cleared", "replaced"} => Restorable(restore.tables)

LEMMA RowsStayWhole ==
  ASSUME Typed, Restorable(rows), [Next]_vars
  PROVE  Restorable(rows)'
<1>1. CASE UNCHANGED rows
  BY <1>1 DEF Restorable
<1>2. ASSUME NEW u \in Uploads, UploadCommits(u) PROVE Restorable(rows)'
  BY <1>2 DEF UploadCommits, Restorable
<1>3. CASE RestoreCommits
  BY <1>3 DEF RestoreCommits, Restorable
<1>4. UNCHANGED rows \/ (\E u \in Uploads : UploadCommits(u)) \/ RestoreCommits
  BY DEF Next, Upload, UploadWrites, UploadFails, CreateBackup, BackupReadsRepairs, BackupReadsDocuments,
         BackupListsFiles, BackupWrites, RestoreBackup, RestoreLoads, RestoreMovesAside, RestoreClears,
         RestoreMovesIn, RestoreRollsBack, RestoreMovesBack, RestoreRotatesEpoch, RestoreStorageFails, RestoreDies, Login, vars
<1>5. QED
  BY <1>1, <1>2, <1>3, <1>4

LEMMA WholeStep ==
  ASSUME Typed, Restorable(rows), WholeTables, [Next /\ ~TornRead]_vars
  PROVE  WholeTables'
<1>a. backup \in [Backups -> [stage : BackupStages, tables : Tables, files : SUBSET Uploads]]
  BY DEF Typed, TypeOK
<1> DEFINE Whole(a) == a.stage \notin {"none", "repairs"} => Restorable(a.tables)
<1>1. ASSUME NEW b \in Backups, NEW a, backup' = [backup EXCEPT ![b] = a], restore' = restore, Whole(a)
      PROVE  WholeTables'
  BY <1>a, <1>1 DEF WholeTables, Restorable
<1>2. ASSUME NEW b \in Backups, CreateBackup(b), ~TornRead PROVE WholeTables'
  <2>1. CASE BackupReadsRepairs(b)
    <3>1. backup' = [backup EXCEPT ![b] = [backup[b] EXCEPT !.stage = "repairs", !.tables.repairs = rows.repairs]]
      BY <1>a, <2>1 DEF BackupReadsRepairs
    <3>2. Whole([backup[b] EXCEPT !.stage = "repairs", !.tables.repairs = rows.repairs])
      BY <1>a
    <3>3. QED
      BY <1>1, <2>1, <3>1, <3>2 DEF BackupReadsRepairs
  <2>2. CASE BackupReadsDocuments(b)
    <3> DEFINE a == [backup[b] EXCEPT !.stage = "documents", !.tables.documents = rows.documents]
    <3>1. backup' = [backup EXCEPT ![b] = a]
      BY <1>a, <2>2 DEF BackupReadsDocuments
    <3>2. backup[b].tables.repairs = rows.repairs
      BY <1>2, <2>2 DEF TornRead
    <3>3. a.tables.repairs = rows.repairs /\ a.tables.documents = rows.documents
      BY <1>a, <3>2 DEF Tables
    <3>4. Whole(a)
      BY <3>3 DEF Restorable
    <3>5. QED
      BY <1>1, <2>2, <3>1, <3>4 DEF BackupReadsDocuments
  <2>3. CASE BackupListsFiles(b) \/ BackupWrites(b)
    <3>1. PICK stage \in BackupStages, files \in {backup[b].files, storage} :
            /\ backup' = [backup EXCEPT ![b] = [backup[b] EXCEPT !.stage = stage, !.files = files]]
            /\ backup[b].stage \notin {"none", "repairs"} /\ restore' = restore
      <4>1. CASE BackupListsFiles(b)
        BY <1>a, <4>1 DEF BackupListsFiles, BackupStages
      <4>2. CASE BackupWrites(b)
        <5> DEFINE stage == IF backup[b].files \subseteq storage THEN "ready" ELSE "failed"
        <5>1. /\ backup' = [backup EXCEPT ![b] = [backup[b] EXCEPT !.stage = stage, !.files = backup[b].files]]
              /\ backup[b].stage = "listed" /\ restore' = restore
          BY <1>a, <4>2 DEF BackupWrites
        <5>2. stage \in BackupStages
          BY DEF BackupStages
        <5> HIDE DEF stage
        <5>3. QED
          BY <5>1, <5>2
      <4>3. QED
        BY <2>3, <4>1, <4>2
    <3>2. [backup[b] EXCEPT !.stage = stage, !.files = files].tables = backup[b].tables
      BY <1>a
    <3>3. Whole([backup[b] EXCEPT !.stage = stage, !.files = files])
      BY <3>1, <3>2 DEF WholeTables
    <3>4. QED
      BY <1>1, <3>1, <3>3
  <2>4. QED
    BY <1>2, <2>1, <2>2, <2>3 DEF CreateBackup
<1>3. ASSUME RestoreBackup PROVE WholeTables'
  <2>1. backup' = backup
    BY <1>3 DEF RestoreBackup, RestoreLoads, RestoreMovesAside, RestoreClears, RestoreMovesIn, RestoreCommits,
                RestoreRollsBack, RestoreMovesBack, RestoreRotatesEpoch, RestoreStorageFails, RestoreDies
  <2>2. \/ \E b \in Backups : backup[b].stage = "ready" /\ restore'.tables = backup[b].tables
        \/ restore'.tables = restore.tables /\ restore.stage \in {"loaded", "aside", "cleared", "replaced"}
        \/ restore'.stage \notin {"loaded", "aside", "cleared", "replaced"}
    <3>1. restore \in [stage : RestoreStages, tables : Tables,
                       extracted : SUBSET Uploads, aside : SUBSET Uploads]
      BY DEF Typed, TypeOK
    <3>2. CASE RestoreMovesAside \/ RestoreClears \/ RestoreMovesIn
      BY <3>1, <3>2 DEF RestoreMovesAside, RestoreClears, RestoreMovesIn
    <3>3. CASE \/ RestoreCommits \/ RestoreRollsBack \/ RestoreMovesBack \/ RestoreRotatesEpoch
               \/ RestoreStorageFails \/ RestoreDies
      <4>1. CASE RestoreCommits
        BY <3>1, <4>1 DEF RestoreCommits
      <4>2. CASE restore' = IdleRestore
        BY <4>2 DEF IdleRestore
      <4>3. CASE RestoreRollsBack
        BY <3>1, <4>3 DEF RestoreRollsBack
      <4>4. QED
        BY <3>3, <4>1, <4>2, <4>3 DEF RestoreMovesBack, RestoreRotatesEpoch, RestoreStorageFails, RestoreDies
    <3>4. CASE \E b \in Backups : RestoreLoads(b)
      BY <3>4 DEF RestoreLoads
    <3>5. QED
      BY <1>3, <3>2, <3>3, <3>4 DEF RestoreBackup
  <2>3. QED
    BY <2>1, <2>2 DEF WholeTables, Restorable
<1>4. ASSUME UNCHANGED vars \/ (\E u \in Uploads : Upload(u)) \/ (\E s \in Sessions : Login(s))
      PROVE  WholeTables'
  BY <1>4 DEF vars, Upload, UploadWrites, UploadCommits, UploadFails, Login, WholeTables, Restorable
<1>5. QED
  BY <1>2, <1>3, <1>4 DEF Next

(* The foreign key of the documents holds of the database at every moment,  *)
(* whatever archives are restored.                                          *)
THEOREM DocumentsHaveRepairs == Spec => []Restorable(rows)
<1>1. Init => Restorable(rows)
  BY DEF Init, NoTables, Restorable
<1>2. QED
  BY <1>1, RowsStayWhole, TypedAlways, PTL DEF Spec

(* Whatever is uploaded, restored or fails: while no repair appears, or is  *)
(* replaced, between the two reads of a backup, every backup on offer can   *)
(* be restored, and no restore meets a document without its repair.  One    *)
(* snapshot for both reads would be enough.                                 *)
THEOREM BackupsOfOneStateRestore ==
  Spec /\ [][~TornRead]_vars =>
    [](BackupIsRestorable /\ (restore.stage = "replaced" => Restorable(restore.tables)))
<1>1. Init => WholeTables
  BY DEF Init, NoArchive, IdleRestore, WholeTables
<1>2. Typed /\ Restorable(rows) /\ WholeTables /\ [Next]_vars /\ [~TornRead]_vars => WholeTables'
  BY WholeStep
<1>3. WholeTables => BackupIsRestorable /\ (restore.stage = "replaced" => Restorable(restore.tables))
  BY DEF WholeTables, BackupIsRestorable
<1>4. QED
  BY <1>1, <1>2, <1>3, DocumentsHaveRepairs, TypedAlways, PTL DEF Spec

-----------------------------------------------------------------------------
(* The epoch on disk tells the database that is live, except between the *)
(* commit and the new epoch, and after a restore that was cut there.     *)
EpochInv ==
  /\ Typed
  /\ restore.stage # "committed" /\ ~cut => epoch = restored
  /\ \A s \in Sessions : session[s] # NoSession =>
       /\ session[s].epoch <= session[s].database
       /\ session[s].database <= restored

LEMMA EpochInit == Init => EpochInv
BY TypedInit DEF Init, EpochInv, IdleRestore

LEMMA EpochStep == ASSUME EpochInv, [Next]_vars PROVE EpochInv'
<1>. USE DEF EpochInv
<1>0. Typed'
  BY TypedStep
<1>1. CASE UNCHANGED vars
  BY <1>0, <1>1 DEF vars
<1>2. ASSUME NEW u \in Uploads, Upload(u) PROVE EpochInv'
  BY <1>0, <1>2 DEF Upload, UploadWrites, UploadCommits, UploadFails
<1>3. ASSUME NEW b \in Backups, CreateBackup(b) PROVE EpochInv'
  BY <1>0, <1>3 DEF CreateBackup, BackupReadsRepairs, BackupReadsDocuments, BackupListsFiles, BackupWrites
<1>4. ASSUME RestoreCommits PROVE EpochInv'
  BY <1>0, <1>4 DEF RestoreCommits, Typed, TypeOK
<1>5. ASSUME RestoreRotatesEpoch PROVE EpochInv'
  BY <1>0, <1>5 DEF RestoreRotatesEpoch, IdleRestore
<1>6. ASSUME \/ \E b \in Backups : RestoreLoads(b)
             \/ RestoreMovesAside \/ RestoreClears \/ RestoreMovesIn
             \/ RestoreRollsBack \/ RestoreMovesBack
      PROVE EpochInv'
  BY <1>0, <1>6 DEF RestoreLoads, RestoreMovesAside, RestoreClears, RestoreMovesIn,
                    RestoreRollsBack, RestoreMovesBack, IdleRestore
<1>7. ASSUME RestoreStorageFails \/ RestoreDies PROVE EpochInv'
  BY <1>0, <1>7 DEF RestoreStorageFails, RestoreDies, IdleRestore, Typed, TypeOK
<1>8. ASSUME NEW s \in Sessions, Login(s) PROVE EpochInv'
  BY <1>0, <1>8 DEF Login, Typed, TypeOK
<1>. QED BY <1>1, <1>2, <1>3, <1>4, <1>5, <1>6, <1>7, <1>8 DEF Next, RestoreBackup

LEMMA EpochAlways == Spec => []EpochInv
BY EpochInit, EpochStep, PTL DEF Spec

(* The tokens of a replaced database end with the restore that replaced it, *)
(* whatever faults, backups and logins there are; only a restore that was   *)
(* cut between its commit and the new epoch leaves them.                    *)
THEOREM TokensEnd == Spec => []OldSessionsEnd
<1>1. EpochInv => OldSessionsEnd
  <2>. SUFFICES ASSUME EpochInv, ~Restoring, ~cut, NEW s \in Sessions, Accepted(s)
                PROVE session[s].database = restored
    BY DEF OldSessionsEnd
  <2>1. epoch = restored /\ session[s] # NoSession /\ session[s].epoch = restored
    BY DEF EpochInv, Restoring, Accepted
  <2>2. session[s] \in [epoch : 0..MaxRestores, database : 0..MaxRestores]
    BY <2>1 DEF EpochInv, Typed, TypeOK
  <2>. QED BY <2>1, <2>2 DEF EpochInv, Typed, TypeOK
<1>. QED BY <1>1, EpochAlways, PTL
=============================================================================
