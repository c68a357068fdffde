--------------------------- MODULE BackupRestore ---------------------------
(***************************************************************************)
(* Backups of the database and of the file storage, and their restore      *)
(* (services/backups.py), next to the uploads that write to both           *)
(* (api/documents.py) and the session epoch that a restore renews          *)
(* (core/security.py).  No lock covers the two stores: a backup reads the  *)
(* tables one statement after another and the files after them, a restore  *)
(* moves the files aside, puts the archived ones in their place, and only  *)
(* then replaces the rows in one transaction.                              *)
(*                                                                         *)
(* An upload stands for its file, its document and, for a new draft, its   *)
(* repair; a backup archive, for what it holds.  A restore is one request  *)
(* of one administrator at a time.                                         *)
(***************************************************************************)
EXTENDS Naturals, FiniteSets

CONSTANTS Uploads,      \* requests that upload a document
          Backups,      \* backup ids
          Sessions,     \* access tokens
          NoSession,    \* a token that is not issued
          MaxRestores,  \* bound: restores that reach the database
          Faults        \* the storage calls of a restore may fail, the process may die

ASSUME ConstantsAssumption ==
  /\ MaxRestores \in Nat
  /\ Faults \in BOOLEAN

VARIABLES rows,      \* the committed repairs and documents
          storage,   \* the files under the storage root
          upload,    \* the progress and the target repair of every upload
          backup,    \* every backup archive, and how far its creation is
          restore,   \* the restore request: its stage, its archive, its temporary directories
          epoch,     \* the session epoch on disk
          session,   \* the epoch every token carries, and the database it was issued from
          restored,  \* history: databases restored so far
          cut,       \* history: the last of them was committed and the restore cut short
          mixed,     \* history: backups that were being made while a restore ran
          exposed    \* history: uploads whose file went missing with a restore that was cut
                     \* short or in a backup that a restore mixed, or that were under way
                     \* while a restore replaced the files

vars == <<rows, storage, upload, backup, restore, epoch, session, restored, cut, mixed, exposed>>

Documents == [file : Uploads, repair : Uploads]
Tables == [repairs : SUBSET Uploads, documents : SUBSET Documents]
FilesOf(t) == {d.file : d \in t.documents}

UploadStages == {"none", "written", "stored", "refused"}
BackupStages == {"none", "repairs", "documents", "listed", "ready", "failed"}
RestoreStages == {"idle", "loaded", "aside", "cleared", "replaced", "undoing", "committed"}

NoTables == [repairs |-> {}, documents |-> {}]
NoArchive == [stage |-> "none", tables |-> NoTables, files |-> {}]
IdleRestore == [stage |-> "idle", tables |-> NoTables, extracted |-> {}, aside |-> {}]

Init ==
  /\ rows = NoTables
  /\ storage = {}
  /\ upload = [u \in Uploads |-> [stage |-> "none", repair |-> u]]
  /\ backup = [b \in Backups |-> NoArchive]
  /\ restore = IdleRestore
  /\ epoch = 0
  /\ session = [s \in Sessions |-> NoSession]
  /\ restored = 0
  /\ cut = FALSE
  /\ mixed = {}
  /\ exposed = {}

Restoring == restore.stage # "idle"
Replacing == restore.stage \in {"aside", "cleared", "replaced", "undoing"}
BeingMade == {b \in Backups : backup[b].stage \in {"repairs", "documents", "listed"}}

-----------------------------------------------------------------------------
(* Uploads *)

(* The file is written before any row: for a new draft, whose repair comes *)
(* with it, or for a repair the request has loaded.                        *)
UploadWrites(u, r) ==
  /\ upload[u].stage = "none"
  /\ r \in rows.repairs \cup {u}
  /\ upload' = [upload EXCEPT ![u] = [stage |-> "written", repair |-> r]]
  /\ storage' = storage \cup {u}
  /\ exposed' = IF Replacing THEN exposed \cup {u} ELSE exposed
  /\ UNCHANGED <<rows, backup, restore, epoch, session, restored, cut, mixed>>

(* The foreign key to the repair is checked by the insert. *)
UploadCommits(u) ==
  LET r == upload[u].repair
  IN /\ upload[u].stage = "written"
     /\ r \in rows.repairs \cup {u}
     /\ upload' = [upload EXCEPT ![u].stage = "stored"]
     /\ rows' = [repairs   |-> rows.repairs \cup {r},
                 documents |-> rows.documents \cup {[file |-> u, repair |-> r]}]
     /\ UNCHANGED <<storage, backup, restore, epoch, session, restored, cut, mixed, exposed>>

(* Any exception rolls the rows back and removes the file. *)
UploadFails(u) ==
  /\ upload[u].stage = "written"
  /\ upload' = [upload EXCEPT ![u].stage = "refused"]
  /\ storage' = storage \ {u}
  /\ UNCHANGED <<rows, backup, restore, epoch, session, restored, cut, mixed, exposed>>

-----------------------------------------------------------------------------
(* Creating a backup: build_database_snapshot reads table after table, each *)
(* SELECT with a snapshot of its own, then the files are listed, then       *)
(* written into the archive.                                                *)

BackupReadsRepairs(b) ==
  /\ backup[b].stage = "none"
  /\ backup' = [backup EXCEPT ![b].stage = "repairs", ![b].tables.repairs = rows.repairs]
  /\ mixed' = IF Restoring THEN mixed \cup {b} ELSE mixed
  /\ UNCHANGED <<rows, storage, upload, restore, epoch, session, restored, cut, exposed>>

BackupReadsDocuments(b) ==
  /\ backup[b].stage = "repairs"
  /\ backup' = [backup EXCEPT ![b].stage = "documents", ![b].tables.documents = rows.documents]
  /\ UNCHANGED <<rows, storage, upload, restore, epoch, session, restored, cut, mixed, exposed>>

BackupListsFiles(b) ==
  /\ backup[b].stage = "documents"
  /\ backup' = [backup EXCEPT ![b].stage = "listed", ![b].files = storage]
  /\ exposed' = IF b \in mixed THEN exposed \cup (FilesOf(backup[b].tables) \ storage) ELSE exposed
  /\ UNCHANGED <<rows, storage, upload, restore, epoch, session, restored, cut, mixed>>

(* Mutant: the rows are read when the archive is written, after the files. *)
WritesLateRows(b) ==
  /\ backup[b].stage = "listed"
  /\ backup' = [backup EXCEPT ![b].stage = IF backup[b].files \subseteq storage THEN "ready" ELSE "failed",
                              ![b].tables = rows]
  /\ UNCHANGED <<rows, storage, upload, restore, epoch, session, restored, cut, mixed, exposed>>

(* A listed file that has gone ends the request with an error; the manifest *)
(* is written last, so the archive is then never offered.                   *)
BackupWrites(b) ==
  /\ backup[b].stage = "listed"
  /\ backup' = [backup EXCEPT ![b].stage =
                  IF backup[b].files \subseteq storage THEN "ready" ELSE "failed"]
  /\ UNCHANGED <<rows, storage, upload, restore, epoch, session, restored, cut, mixed, exposed>>

-----------------------------------------------------------------------------
(* Restoring one *)

(* The rows of the archive are read and its files extracted to a temporary *)
(* directory.                                                              *)
RestoreLoads(b) ==
  /\ restore.stage = "idle"
  /\ restored < MaxRestores
  /\ backup[b].stage = "ready"
  /\ restore' = [stage |-> "loaded", tables |-> backup[b].tables,
                 extracted |-> backup[b].files, aside |-> {}]
  /\ mixed' = mixed \cup BeingMade
  /\ UNCHANGED <<rows, storage, upload, backup, epoch, session, restored, cut, exposed>>

RestoreMovesAside ==
  /\ restore.stage = "loaded"
  /\ restore' = [restore EXCEPT !.stage = "aside", !.aside = storage]
  /\ storage' = {}
  /\ exposed' = exposed \cup {u \in Uploads : upload[u].stage = "written"}
  /\ UNCHANGED <<rows, upload, backup, epoch, session, restored, cut, mixed>>

(* Whatever the storage root holds by now is deleted, then the archived *)
(* files are moved in one by one.                                       *)
RestoreClears ==
  /\ restore.stage = "aside"
  /\ restore' = [restore EXCEPT !.stage = "cleared"]
  /\ storage' = {}
  /\ UNCHANGED <<rows, upload, backup, epoch, session, restored, cut, mixed, exposed>>

RestoreMovesIn ==
  /\ restore.stage = "cleared"
  /\ restore' = [restore EXCEPT !.stage = "replaced", !.extracted = {}]
  /\ storage' = storage \cup restore.extracted
  /\ UNCHANGED <<rows, upload, backup, epoch, session, restored, cut, mixed, exposed>>

(* The foreign keys of the rows read: a document whose repair is not among *)
(* them fails the update that ties the two.                                *)
Restorable(t) == \A d \in t.documents : d.repair \in t.repairs

(* Mutant: the deferred updates that tie documents to repairs are forgotten. *)
CommitsUntied ==
  /\ restore.stage = "replaced"
  /\ restore' = [restore EXCEPT !.stage = "committed"]
  /\ rows' = [restore.tables EXCEPT !.documents = FilesOf(restore.tables)]
  /\ restored' = restored + 1
  /\ UNCHANGED <<storage, upload, backup, epoch, session, cut, mixed, exposed>>

RestoreCommits ==
  /\ restore.stage = "replaced"
  /\ Restorable(restore.tables)
  /\ restore' = [restore EXCEPT !.stage = "committed"]
  /\ rows' = restore.tables
  /\ restored' = restored + 1
  /\ UNCHANGED <<storage, upload, backup, epoch, session, cut, mixed, exposed>>

(* The transaction fails: the restored files are deleted and the files that *)
(* were moved aside are moved back, by the same two steps.                  *)
RestoreRollsBack ==
  /\ restore.stage = "replaced"
  /\ restore' = [restore EXCEPT !.stage = "undoing"]
  /\ storage' = {}
  /\ UNCHANGED <<rows, upload, backup, epoch, session, restored, cut, mixed, exposed>>

(* Mutant: the files moved aside are forgotten when the transaction fails. *)
ForgetsFiles ==
  /\ restore.stage = "undoing"
  /\ restore' = IdleRestore
  /\ UNCHANGED <<rows, storage, upload, backup, epoch, session, restored, cut, mixed, exposed>>

RestoreMovesBack ==
  /\ restore.stage = "undoing"
  /\ restore' = IdleRestore
  /\ storage' = storage \cup restore.aside
  /\ UNCHANGED <<rows, upload, backup, epoch, session, restored, cut, mixed, exposed>>

(* Mutant: the epoch is a mark that a restore took place, not a fresh value. *)
MarksEpoch ==
  /\ restore.stage = "committed"
  /\ epoch' = 1
  /\ restore' = IdleRestore
  /\ cut' = FALSE
  /\ UNCHANGED <<rows, storage, upload, backup, session, restored, mixed, exposed>>

RestoreRotatesEpoch ==
  /\ restore.stage = "committed"
  /\ epoch' = restored
  /\ restore' = IdleRestore
  /\ cut' = FALSE
  /\ UNCHANGED <<rows, storage, upload, backup, session, restored, mixed, exposed>>

(* A storage call raises, or the process dies half way through it, while    *)
(* files are taken out of the storage root or moved into it, by the restore *)
(* or by its own rollback.  What was not taken out stays, what was moved in *)
(* stays, and the finally block deletes both temporary directories or they  *)
(* are left where nobody looks.                                             *)
RestoreStorageFails ==
  /\ Faults
  /\ \/ /\ restore.stage \in {"loaded", "aside", "replaced"}
        /\ storage' \in SUBSET storage
     \/ /\ restore.stage = "cleared"
        /\ storage' \in {storage \cup moved : moved \in SUBSET restore.extracted}
     \/ /\ restore.stage = "undoing"
        /\ storage' \in {storage \cup moved : moved \in SUBSET restore.aside}
  /\ restore' = IdleRestore
  /\ exposed' = exposed \cup ((IF Replacing THEN restore.aside ELSE storage) \ storage')
  /\ UNCHANGED <<rows, upload, backup, epoch, session, restored, cut, mixed>>

(* The process dies between two such calls, or writing the epoch raises     *)
(* after the commit: nothing takes the restore up again.                    *)
RestoreDies ==
  /\ Faults
  /\ Restoring
  /\ restore' = IdleRestore
  /\ exposed' = IF Replacing THEN exposed \cup (restore.aside \ storage) ELSE exposed
  /\ cut' = (cut \/ restore.stage = "committed")
  /\ UNCHANGED <<rows, storage, upload, backup, epoch, session, restored, mixed>>

-----------------------------------------------------------------------------
(* A token carries the epoch on disk when it is issued. *)
Login(s) ==
  /\ session[s] = NoSession
  /\ session' = [session EXCEPT ![s] = [epoch |-> epoch, database |-> restored]]
  /\ UNCHANGED <<rows, storage, upload, backup, restore, epoch, restored, cut, mixed, exposed>>

(* get_current_user compares the two on every request. *)
Accepted(s) == session[s] # NoSession /\ session[s].epoch = epoch

-----------------------------------------------------------------------------
Upload(u) ==
  \/ \E r \in Uploads : UploadWrites(u, r)
  \/ UploadCommits(u) \/ UploadFails(u)

CreateBackup(b) ==
  BackupReadsRepairs(b) \/ BackupReadsDocuments(b) \/ BackupListsFiles(b) \/ BackupWrites(b)

RestoreBackup ==
  \/ \E b \in Backups : RestoreLoads(b)
  \/ RestoreMovesAside \/ RestoreClears \/ RestoreMovesIn \/ RestoreCommits
  \/ RestoreRollsBack \/ RestoreMovesBack \/ RestoreRotatesEpoch
  \/ RestoreStorageFails \/ RestoreDies

Next ==
  \/ \E u \in Uploads : Upload(u)
  \/ \E b \in Backups : CreateBackup(b)
  \/ RestoreBackup
  \/ \E s \in Sessions : Login(s)

Spec == Init /\ [][Next]_vars

-----------------------------------------------------------------------------
TypeOK ==
  /\ rows \in Tables
  /\ storage \in SUBSET Uploads
  /\ upload \in [Uploads -> [stage : UploadStages, repair : Uploads]]
  /\ backup \in [Backups -> [stage : BackupStages, tables : Tables, files : SUBSET Uploads]]
  /\ restore \in [stage : RestoreStages, tables : Tables,
                  extracted : SUBSET Uploads, aside : SUBSET Uploads]
  /\ epoch \in 0..MaxRestores
  /\ session \in [Sessions -> [epoch : 0..MaxRestores, database : 0..MaxRestores] \cup {NoSession}]
  /\ restored \in 0..MaxRestores
  /\ cut \in BOOLEAN
  /\ mixed \in SUBSET Backups
  /\ exposed \in SUBSET Uploads

(* Unless a restore is between its two stores, every document row has its   *)
(* file: uploads, backups, restores and their rollbacks keep the two stores *)
(* together.  Only a restore that was cut short, in its own moves or in     *)
(* those of its rollback, that overlapped the upload, or whose archive was  *)
(* made during another restore may leave a row without its file             *)
(* (restore_backup_archive, replace_storage_with_snapshot, upload_document). *)
RowsHaveFiles == ~Replacing => FilesOf(rows) \subseteq storage \cup exposed

(* A backup that is offered holds the file of every document it holds,      *)
(* whatever is uploaded while it is made, if no restore ran meanwhile: the  *)
(* files are listed after the rows, and an upload writes its file before    *)
(* its row (create_backup_archive).                                         *)
BackupHoldsFiles ==
  \A b \in Backups : backup[b].stage = "ready" =>
    FilesOf(backup[b].tables) \subseteq backup[b].files \cup exposed

(* A backup that is offered can be restored: the rows of its tables belong *)
(* together (build_database_snapshot).                                     *)
BackupIsRestorable ==
  \A b \in Backups : backup[b].stage = "ready" => Restorable(backup[b].tables)

(* Once a restore is over, no token is accepted that was issued from the    *)
(* database it replaced, even one issued while it ran; only a restore that   *)
(* is cut short after its commit leaves them, until the next one            *)
(* (rotate_auth_session_epoch).                                             *)
OldSessionsEnd ==
  ~Restoring /\ ~cut => \A s \in Sessions : Accepted(s) => session[s].database = restored
=============================================================================
