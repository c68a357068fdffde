# Verification of Road700

TLA+ specifications of the Road700 fleet-repair system: the backend
(`src/backend/app`), its database migrations (`src/backend/alembic`) and the state
of the frontend (`src/frontend/src`), model-checked with TLC on small instances
and, where section 4 says so, proved with TLAPS for every value of the constants.
Paths below are relative to `src/backend/app` unless they start with `src/`.

`PROJECT.json` is the index: components, runs, the code lines behind every
definition (`map`), the mutants that show each property can fail, the hazards, the
findings and the theorems.

## 1. The system

Road700 keeps the repairs of a vehicle fleet. Employees upload order documents;
background workers read them with OCR and fill in the repair; employees and
administrators review what was found and confirm the repair; administrators
archive, restore, import and back up. It is a FastAPI application over one
PostgreSQL database (READ COMMITTED, no version column, hardly any row lock), one
or more worker processes, batch scripts that write to the same tables, and a React
frontend whose hooks load, reload and overtake each other. Files live in a storage
directory beside the database.

### Inventory

| Component | State | Operations | Interacts with | What makes it correct |
| --- | --- | --- | --- | --- |
| OCR queue and worker (`application/imports/document_jobs.py`, `scripts/run_job_worker.py`, `api/jobs.py`) | rows of `import_jobs`; what each session has read; the job each process runs | enqueue, retry, claim, complete, fail, the folder script's direct run | API requests and the script enqueue, workers claim; archive and restore block a document | one active job per document; one runner per job; no result revived; every job ends |
| Repair, documents and review (`api/documents.py`, `api/repairs.py`, `application/documents`, `application/review`) | status and completeness of the repair, status, kind and primary flag of each document, findings (`repair_checks`), the pointer to the source document | upload, process, patch, link, archive, restore, set primary, compare; edits of fields, service and findings; confirm, send to review | queues OCR; OCR's result is written to the same rows; vehicles and services block it | one primary document, flag and pointer agree; nothing live below an archived parent; a confirmation is complete, about these documents, and without open findings; no open repair drops out of the queue |
| OCR run (`application/documents/processing*.py`) | none of its own | load, refuse, parse, store, fail | writes documents, repairs, findings and jobs minutes after it read them | what it writes is about the rows as they are |
| Backups and restore (`services/backups.py`) | archives, the two stores, temporary directories | create, restore with its rollback | uploads write to both stores; the restore renews the session epoch | rows and files stay together; what is offered can be restored; old tokens end |
| Accounts and sessions (`api/auth.py`, `api/users.py`, `services/password_reset_tokens.py`, `scripts/init_admin.py`) | users, roles, activity, recovery links, token epoch | create and edit users, change, reset and recover a password, the first administrator | every request asks for the user; a restore rotates the epoch | an administrator is left; a link works once, for the password it was asked under, and only the last one |
| Rate limiter (`core/rate_limit.py`) | a deque of timestamps per key | hit, clear | login and recovery | at most the limit in every window; whoever waits as told gets in |
| Vehicle assignments (`api/users.py`) | periods of an employee on a vehicle | assign, change | what an employee sees | no empty period, no day twice |
| Labor norm catalogues (`api/labor_norms.py`, `application/services/labor_norms.py`, `scripts/import_labor_norms.py`) | catalogues, norms with a copy of their catalogue's label | create, rename, archive, import, the script | OCR matches works with norms | a label names its catalogue; an archived catalogue is not written; OCR uses what is listed |
| Vehicles and their links (`api/vehicles.py`, `services/vehicle_matching.py`, `scripts/import_vehicles.py`) | cards, links of trucks and trailers per day | OCR, the administrator and the registry make cards; archive, restore | cards stand above repairs | no second card of a vehicle without cause; links follow the registry |
| Services catalogue (`api/services.py`, `services/service_catalog.py`) | names and status | create, rename, archive, restore, synchronize with the folder | stands above repairs | names are unique; nothing live below an archived one |
| Historical import (`services/historical_repairs_import.py`, `api/imports.py`) | import jobs, conflicts, the keys in repairs' reasons | import a workbook, resolve a conflict | creates repairs, services and cards | an old repair lives once; a job tells what it did |
| Schema and migrations (`models`, `src/backend/alembic`) | tables, keys, indices, labels; rows | upgrade, downgrade, failure, kill | every component stands on them | the revision says what the schema is; the head is what the models declare; rows survive |
| Visibility, lists, search, queue, dashboard (`application/services/visibility.py`, `application/dashboard/queries.py`, `application/review/queue.py`, `api/search.py`, lists of `api/`) | none of their own | read | every table | a row that is shown opens; figures, lists and pages agree; one document is the source |
| Frontend (`src/frontend/src`) | session, tab, selection, address, loads and buttons under way | effects, handlers, answers | the server, in any order of answers | nothing of another session or selection is shown; spinners end; late commands do not pull the user back; pages come to rest |
| Parsers, document checks, OCR learning, reports and exports, deployment | - | - | - | not modelled, section 5 |

### What is hard to get right here

* **Stale rows.** A session reads, decides and writes; nothing locks or compares
  the rows in between (`SessionLocal` with `autoflush=False`, READ COMMITTED). An
  OCR run keeps its rows for minutes. The ORM writes only the columns whose value
  it changed, so two transactions mix column by column.
* **Rules kept by guards on two sides**: a vehicle is archived only without live
  repairs, a repair is linked only to a live vehicle; each guard reads what the
  other one writes, and no constraint of the database stands behind them.
* **A queue shared by processes** that may die between claim and result, and by a
  script that bypasses the claim.
* **The primary document** is one flag on every row and one pointer on the repair,
  rewritten by seven handlers.
* **Long chains of legal requests**: archive, restore, recheck, confirm, edit.
* **Two stores** that a backup reads, and a restore replaces, one after the other.
* **The same question asked twice**, in SQL and in Python, for administrators and
  for employees.
* **Migrations** that run over rows the application wrote between any two of them.
* **Answers in any order**: the frontend starts loads from effects, handlers and
  timers, and what they were asked for may be gone when they answer.

## 2. Modules

| Module | Models | Composed in |
| --- | --- | --- |
| `OcrJobs` | the OCR queue, its sessions, workers and the folder script, at the grain of single reads and commits | `MCOcrJobs` |
| `DocumentQueue` | the abstract queue that `OcrJobs` implements and the jobs of `RepairReview` obey | `OcrJobs`, `RepairReviewProofs` |
| `RepairReview` | one repair with its documents, findings and jobs: every handler that changes them, one transaction each, and the outcomes of a run | `MCRepairReview` |
| `ReviewSessions` | `RepairReview` with one transaction whose snapshot has gone stale | `MCReviewSessions` |
| `BackupRestore` | uploads, backups, restores, the session epoch | `MCBackupRestore` |
| `Accounts` | users, passwords, recovery links, requests in two steps | `Administration` |
| `VehicleAssignments` | periods of employees on vehicles, requests in two steps | `Administration` |
| `RateLimiter` | the sliding window, its threads and its clock | `Administration` |
| `LaborNorms` | catalogues and norms as requests load, save and commit them | `Administration` |
| `Administration` | the four above side by side | `MCAdministration` |
| `DatabaseSchema` | what the ORM models declare | `MigrationSteps` |
| `MigrationSteps` | what each of the 20 migrations does to the schema, up and down | `Migrations` |
| `Migrations` | runs of alembic over the schema, on two dialects, with failures | `MCDatabase` |
| `MigrationRows` | what the migrations do to rows, and which rows stop them | `MCDatabase` |
| `Reads` | what users are shown, list by list and figure by figure | `MCDatabase` |
| `Fleet` | cards of vehicles by three writers with a search each, links by day, imports row by row | `MCCatalogs` |
| `Catalog` | vehicles and services above repairs; guards against guards | `MCCatalogs` |
| `HistoricalImport` | workbooks, keys, jobs, conflicts | `MCCatalogs` |
| `Hooks` | the data hooks of the frontend as data: loads, handlers, effects, resets | `Panels` |
| `Panels` | the meaning of `Hooks`: one hook between user, effects and answers | `MCFrontend` |
| `RepairPage` | the repair page: address, tab, selection, loads and commands | `MCFrontend` |
| `*Proofs` | the theorems of section 4 | - |

`Administration`, `MCDatabase`, `MCCatalogs` and `MCFrontend` put several parts side by side, one of
them per behaviour (`part`), so that their state spaces add up instead of
multiplying: the parts share no state in the code either, except where a module
above says so.

### `OcrJobs`

`jobDoc`, `jobStatus` and `nextId` are the rows of `import_jobs` with type
`document_ocr`; `req` is what each API session has read on its way through
`enqueue_document_processing_job`; `run` is the job each process holds; `blocked`
the documents that have a block reason. An enqueue is cut where another session
can get in: read the active job (`RequestCheckActive`), read the latest job
(`RequestReadLatest`), then flush and commit (`RequestRetry`, `RequestInsert`; the
partial unique index of active jobs refuses a second insert, `RequestRollback`).
The claim locks its row with FOR UPDATE SKIP LOCKED and is one step: it refuses
what is blocked or superseded (`ClaimRejects`) or starts the canonical job of the
document (`ClaimStarts`). The folder script reads like a request and is cut at the
same places; it then marks the row it was given PROCESSING and runs it itself
(`ScriptMarks`, `ScriptRetries`, `ScriptInserts`), over whatever a worker committed
since the read, or joins a run it read as PROCESSING (`ScriptJoins`). When the index
refuses its row it reads again (`ScriptReadsAgain`) or runs the active row as it is
(`ScriptRunsOther`, the exception branch of `mark_job_processing`). `Abandon` is a
process that dies, or an exception that leaves `process_document`. `shared` and
`abandoned` are history: jobs that a stale write of a request or a script, or a
joining script, put into two hands or took from their result, and jobs whose runner
vanished.

`DocumentQueue` has one phase per document (idle, waiting, running); the mapping
reads it off the document's active jobs.

### `RepairReview`

The database is one record `db`, a handler is an operator from the state it reads
to the state it commits, and an action is the guard of an endpoint followed by
that operator. Its runs are those that nothing overtakes; what a run commits over is
the subject of `ReviewSessions`. What OCR makes of a page is a choice over `Outcomes`: how much it
recognised, which findings it left, whether it filled in the fields. The vehicle
and the service are one parent that is archived or not. `DELETE /repairs` writes
what the archive endpoint writes, and its one missing guard (an archived vehicle)
is implied by `ArchiveIsClosed`: `ArchiveRepair` stands for both. Two history
variables name the exceptions that the code makes on purpose: `direct` (the
administrator, or an import, wrote the repair without the review workflow) and
`patched` (the administrator set a document's status by hand).

Details of the code that surprised, and are modelled as they are:
`finalize_processing_failure` leaves `is_preliminary` alone, so a final repair can
be `ocr_error` and not preliminary; `replace_ocr_checks` of one document deletes
the findings that another left. `is_partially_recognized` is left out: the code
sets it only together with a status that is in the queue anyway.

### `ReviewSessions`

Adds `session`: a run, a set-primary or an employee's confirmation that has
loaded its rows and not committed. `Merged` writes back the columns it changed,
over whatever the others have committed. The guards are evaluated on what was
read. What a run or a request can do to the archive (`ArchiveLeftByRestore`) and to a
document that waits (`WaitingKeepsJob`) is stated here and not of the atomic runs,
where it would hold by their atomicity: each names the transaction that breaks the
plain rule. `ReadByRun` and `ReadByRequest` keep, of the snapshot, only what the result
depends on. `escaped` is history: archived documents to which the slow
transaction gave a status.

### `BackupRestore`

`rows` and `storage` are the two stores; an upload writes its file, then its rows,
or removes the file; a backup reads repairs, documents and files in three steps
and writes the archive in a fourth; a restore loads, moves the files aside, clears the
storage, moves the archived files in, commits the rows, and renews the epoch. When
the transaction fails it clears and moves back by the same two calls
(`RestoreRollsBack`, `RestoreMovesBack`). Each of these calls deletes or moves file by
file, so any of them, the rollback's included, may raise or die half way
(`RestoreStorageFails`), and the process may die between two (`RestoreDies`); the
temporary directories are gone then, and with them what they held (`Faults`). Backups run
next to restores. The history variables say exactly which anomalies the code
lets happen: `exposed` are files lost by a restore or a rollback cut short, by a backup that a
restore `mixed`, or by an upload under way while a restore replaced the files;
`cut` says that the latest restore died between its commit and the new epoch.

### `Accounts`, `VehicleAssignments`, `LaborNorms`, `Catalog`: requests in two steps

These modules cut a request where the code reads and where it commits; everything
else may happen in between, and the commit writes only the columns whose value the
request changed (an ORM object keeps what it loaded). What such an overlap can
break is named by history variables, and each property says "save for exactly
these": `staleAuthor` (an administrator's edit was committed after the author had
been demoted), `overtaken`, `missed`, `crossed` (links and passwords that went in
while a request could not see them), `raced` (two periods written at once),
`escaped` (a repair whose row, vehicle or service was changed between the reads
and the commit of the request that put it there), `twinNames`, `strayed`. So a
property fails as soon as a guard is missing even in a sequential history, or an
exception reaches further than one overlap.

* `Accounts`: of a password the model keeps that it is set. The script of the first
  administrator and the expiry of links are actions of their own.
* `VehicleAssignments`: a period has an open or a closed end; days are numbers.
* `LaborNorms`: brand and name of a catalogue are one label. A request loads rows,
  saves its catalogue (PostgreSQL then holds its row lock) and loads its norms, and
  commits. The script loads once and writes without the archive guard.
* `Catalog`: a repair, its vehicle and its service; uploads, links, assignments,
  archives and restores from both sides, names of services, the synchronization of
  names with the folder.

### `RateLimiter`

A thread reads the clock (`ReadClock`) before it takes the lock (`Hit`), so a late
thread appends an old time to the deque. The address rule is asked before the login
rule; a login that succeeds clears its own. `told` is what a refused client was told
and the deque it was told for; `late` are the attempts that waited past a tick.

### `DatabaseSchema`, `MigrationSteps`, `Migrations`, `MigrationRows`

A schema is a set of elements (columns, indices, unique and foreign keys, enum
columns and labels, checks). A migration removes and adds elements; on PostgreSQL
one transaction holds a whole run but for the autocommit block of revision 0013
(`AutocommitLabels`), on SQLite every migration commits. Runs stop at any revision
of `Stops`, fail, or are killed, and go back. `MigrationRows` keeps the rows that
migrations read: mails that differ by case, norms and catalogues, jobs, conflicts,
documents of one repair; between migrations the application writes whatever the
constraints of the revision admit.
Which database it is matters once (`engine`): 0015 gives every conflict whose job is
gone a job of its own, and types the status it inserts as text, which SQLite stores
and PostgreSQL refuses for a column of an enum type (`OrphansRefused`).

### `Reads`

`held` is a database and `page` what its user has on the screen; the lists, the
search, the queue, the dashboard and the pages behind them are operators, each
translated from its own query. A count is the set of rows it counts. Searches match
everything; order and pages of a list, labels and scores are left out; a request
sees one database. Two exceptions of the code are named where they are used: the
vehicle of one's own preliminary repair does not open, and the suspicious figure of
employees counts archived repairs (`queries.py:307`).

### `Fleet`, `HistoricalImport`

A card `says` marks: an id, a VIN, a plate, each in the spelling it was written in. The
three writers compare them in three ways, as the code does. OCR and the administrator
compare one normalized spelling (`Form`), find a VIN by the chassis number it ends with,
and know partial plates (`ExactMatches`, `PartialMatches`); OCR makes a card of several
matches, the administrator is told to look (`MakesCard`). The registry compares letter
by letter and only cards of its own type (`FindVehicle`). What OCR writes is normalized,
what others write is not, and the chassis number has no column (`Written`), so a card
made from it alone says nothing that a later search could find. A registry import
is cut where the code reads: every row is flushed on its own and makes a card that
others see at the commit ("pending", `UpsertRow`), the links are read (`ReadLinks`), and
cards and links are committed (`CommitImport`) or rolled back (`ImportFails`).
`vehicle` is history, the vehicle a card stands for; `twins` names the pairs of cards with
a cause: the first was archived or not committed when the second was searched, it
says no mark that was given (for the registry: not in that spelling, or not under that
type), OCR had found several, or it was restored later. `raced` are the pairs of
cards whose links another import changed between an import's read and its commit: such a
pair is linked twice, and since `active_pairs` keeps one link of a pair (`OneOfEach`),
only one of the two is closed later. Marks that two vehicles share are left out, and so
are the row locks that two imports filling one card would wait for.

In `HistoricalImport` a job starts, reads what is there, and commits or fails or is
lost; groups that it refuses become conflicts. The key of an old repair lives in its
`reason`, a text that users may edit (`EditReason`, from `PATCH /repairs/{id}` and its
review fields); `key` is history, what it was made from. `doubled` are the pairs of
repairs of which one import could not recognize the other's: it was not committed or not
visible, or its reason no longer told the key.

### `Hooks`, `Panels`, `RepairPage`

`Hooks` describes every data hook of the frontend as a record: what its loads
request and show, which flags they hold, what its handlers write and load again,
what its effects depend on, what a session's end resets. `Panels` interprets one of
them between sign in and out, tab changes, selections, clicks and answers in any
order, failures included. The end of `Hooks` states what all hooks have in common, and
TLC checks that they do. `RepairPage` is the one page that several hooks write to:
the address, the tab, the selected repair and document, loads that overtake each
other, and commands in three stages (request, refresh, open) that may end after the
user has moved on. It has one signed-in user; tab "documents" stands for every
other tab; which document is whose is a constant; drafts and exports are left out;
React renders between two answers.

## 3. Runs

State counts are those of a complete search; every passing run is exhaustive.

| Run | Question | Instance | States |
| --- | --- | --- | --- |
| `ocr_queue` | one API session, no script: finished jobs stay finished, the active row is the latest, the abstract queue is implemented, every active job ends | 2 documents, 2 workers (one may die), 3 job rows | 57 thousand |
| `ocr_concurrent` | what survives every race over one document | 2 sessions, 2 workers, 1 script, 2 job rows, faults | 1.3 million |
| `review_workflow` | primary document, archive, review queue | 2 documents of 2 kinds, 3 findings | 128 thousand |
| `review_edits` | what a confirmation means when the administrator also edits by hand | 2 documents, 2 findings, 3 repair and 2 document statuses set by hand | 361 thousand |
| `sessions_run` | does the primary document survive a slow run | 2 documents, 1 finding | 985 thousand |
| `sessions_requests` | what a slow run, set-primary or confirmation can leave live below an archived repair, take out of the archive, or leave waiting without a job | 1 document, 2 findings, a PATCH to "uploaded" | 355 thousand |
| `backups` | rows and files, what a backup holds, when tokens end | 2 uploads, 2 backups, 1 token, 2 restores, faults | 3.1 million |
| `administration` | the last administrator, recovery links, periods, limits, labels of norms, under requests that overlap | 2 users, 2 links, 2 requests; 1 employee, 1 vehicle, 3 days, 2 editors; 3 attempts, limits 2 and 1, a window of 3 ticks, clock to 4; 2 catalogues, 2 norms, 2 curators | 2.0 million |
| `catalogues` | archive guards against links, double cards and names, old repairs imported twice | 1 truck, 1 trailer, 2 writers: 3 cards of the truck on one day, or 2 cards and their links on 2 days; 1 repair, 1 vehicle, 2 services, 2 requests; a workbook of 2 groups, 2 imports | 2.3 million |
| `database` | migrations with failures, their rows, and what users are shown | 2 databases, 9 stops among 20 revisions, at most 2 rows of a kind; 2 users, 2 vehicles, 2 repairs, 3 documents | 332 thousand |
| `frontend` | what is shown, what is busy, what late commands do, whether the page rests | 2 sessions, 2 or 3 acts of the user per panel; 2 repairs, 2 documents, 3 clicks, 1 refresh | 1.9 million |
| `backup_torn` | the finding, section 6 | 2 uploads, 1 backup, no faults | stops at the violation |

What the conjunctions stand for, property by property, is written at each
definition. Where a module has several facts of one kind, they are named and one
property joins them (`RecoveryIsSafe`, `PanelsHold`, `ReadsAgree`, ...).

### Why the bounds are enough

* Two documents: the properties of the primary document relate a document and the
  others; the third adds no new relation (and the theorems hold for any number).
* Three job rows for two documents: one document gets an old and a new row, which
  is what retries, superseding and `ActiveIsLatest` need. In `ocr_concurrent` two
  rows for one document; the dedup race needs no more.
* Two sessions are what a race between check and insert needs; two workers and a
  script are all the kinds of runner, twice where the runner competes with its own
  kind.
* The findings are one per handling in the code: blocking, about the service, about
  the vehicle. In `ReviewSessions` they are fewer, as the primary document does not
  depend on them.
* Two backups and two restores: a restore of an archive made after a restore, in
  both orders; a mark instead of a fresh epoch fails with the second restore.
* `UploadKinds`, `EditStatuses` and `PatchStatuses` select which requests a run
  offers, so that the two large runs stay complete.
* Two requests overlap in every way that two transactions can; two administrators
  demote each other, two links compete for one user. In the limiter three attempts
  exceed both limits, and a clock of four ticks leaves a window and opens the next.
* `MCAdministration` (`BoundedSpec`) runs the norms twice: one norm that moves between two
  catalogues, without imports, and two norms of one catalogue, with them.
* `Stops` holds the revisions around every migration that touches rows or commits
  early, and the head; two rows of a kind are what a duplicate needs. On SQLite the
  rows part writes no mails, norms and catalogues: the two databases differ in jobs,
  conflicts and the source document.
* `MCDatabase` varies what a user sees, how documents are judged and which document
  is the source one after the other; the theorem `ShownRowsAgree` has no such
  restriction.
* `MCCatalogs` runs the cards and the links of `Fleet` as two parts. In "cards" three
  cards of one vehicle (the third makes OCR's choice among several) are searched by a
  document that gives a chassis number, a VIN or a plate (`OneMark`) and by a registry
  row that spells its plate its own way (`PlateAndVin`); the truck's VIN ends with its
  chassis number. In "links" two imports name one pair of cards over two days.
  `Catalog` is run twice, without renaming of services ("repairs") and with it while no
  vehicle is archived ("names"). In "import" the reason of one group's repair is written over with any text, the other's
  with none: an edit that copies a key and one that loses it.
* Two sessions and two items are what a late answer of another one needs. The
  journal of the imports, with three loads at once, gets two acts instead of three.

`CHECK_DEADLOCK FALSE` stands in the runs whose bounds are used up (uploads,
backups, acts, ticks) or whose users may simply stop. Symmetry is used for safety
and action properties only.

### Fairness

* `OcrJobs`: weak fairness of each worker's claim and of the end of each run. `main`
  of `run_job_worker` polls in an endless loop, claims one job per turn and runs it
  to its end, with timeouts on the external tools; the containers restart. A faulty
  runner may abandon its job instead. `ActiveJobEnds` also says "once the users stop
  asking" (`<>[]Quiet`), as a job can be retried forever. Nothing fair is assumed of
  users, of the script's start, or of a dead worker.
* `RepairPage` (`PageFairness`): answers arrive, commands go on and React runs its
  effects. Nothing is assumed of the user. A request that never answers would keep a
  spinner on, which no code of the page claims otherwise. `Settles` then says that
  the page stops reloading, unless its address names a document of another repair.

The code bounds no waiting time, and no property speaks of one.

## 4. Proofs

All theorems are about a module's specification and hold for every value of the
constants under the assumptions named in the modules (bounds are naturals, the kinds
and statuses are those of the code, workers and scripts are different processes).

* **`OcrJobsProofs`.** `IInv` = types, `OneActiveJob`, `ExclusiveRun`,
  `ProcessingIsRun`, `AsksOrRuns`. `ExclusiveRun` is not inductive alone: a claim
  fails the superseded jobs of its document, and only `OneActiveJob` tells that none
  of them is being run; `ProcessingIsRun` needs that only the claimed row turns
  PROCESSING, and that a script does not drop one run for another (`AsksOrRuns`).
  On it rest three results that hold of any number of sessions and
  scripts, with every read, flush and refused flush interleaved, each with the one
  kind of step that breaks it: the rows implement `DocumentQueue` but for a request's
  retry of a row that is running by now (`ImplementsQueueButRetries`), a completed job
  changes only if two runs share it or someone who had read it before writes on it
  (`CompletedChangesOnlyShared`), an old row becomes active behind a newer one only
  by a request's retry or a script's mark of a row it read earlier
  (`OldRowsReviveByStaleRetry`). With one session at a time and no
  script (`OneSession`, the instance of `ocr_queue` without its bounds) what a
  session has read is still so when it retries (`FreshRead`), the exceptions cannot
  happen, and `ActiveIsLatest`, `CompletedStays` and `ImplementsQueue` follow.
* **`RepairReviewProofs`.** The invariant is `TypeOK /\ PrimaryAligned /\ ReviewSound`,
  where `ReviewSound` is `ArchiveIsClosed /\ ConfirmedIsComplete /\
  PreliminaryUntilConfirmed`, and with it `WaitingHasJob /\ DraftIsUnread`, which hold
  of handlers that run at once and are used as lemmas only. The handlers are
  compositions of operators, so the proof goes operator by operator: each keeps the
  type, restores or keeps the alignment (`SamePrimary`: neither pointer, flag nor
  eligibility changes), and keeps the review facts (`KeepsReview`: the status stays or
  is reopened, the findings and the completeness are the same). `Newest` is a CHOOSE of
  a greatest element; that it exists is a minimal element of the reversed order
  (`WFMin`), which gives `CandidateIsEligible`. The second half says of each operator
  what it leaves of statuses, kinds, jobs and the pointer (the `...Effect` lemmas);
  every action then changes the status of one document or of none (`OneRowStep`,
  `NoRowStep`). `NoDeadEnd` needs `DraftIsUnread`: a draft, which is not in the queue by
  its status, has no document that was read. A rejected run may drop a job because of
  `ArchiveIsClosed`: what it refuses is not waiting. `ReviewSessions`, in the same
  module: a handler that runs at once leaves the repair tidy on its own (`Tidy`, by the
  operator lemmas); a transaction that read earlier writes only the columns it changed.
  The invariant is no more than types (`SessionInv`): what is live below an archived
  repair, or not aligned, is so by the commit that made it so, and each commit is a
  handler's result or such a result `Merged` with the rows; the merge puts in `escaped`
  what it brings back. Two action properties hold whatever is slow: a document or the
  repair leaves the archive only by a restore or by the end of a transaction that read
  it live (`OnlyRestoreLeavesTheArchive`), and a document that shows "uploaded" loses
  its job only by the end of its own run, when it was asked for meanwhile
  (`WaitingDocumentsKeepTheirJobs`). They need `WaitingIsOperational`: a job of a
  waiting document belongs to a repair whose rows a run takes, so a refused run leaves
  nothing waiting; the rest is each handler's effect on statuses and jobs.
  `PrimaryAgrees` asks that set-primary is not the slow one (`sessions_run`); what else
  is slow does not matter. The converse says that staleness is the whole cause. In
  `TimelySpec` a transaction ends only on the rows it decided on (`~LateEnd`: what it
  read is still there, a failing run's document is still usable, a confirmation is still
  allowed). `Merged` then gives, column by column, what the handler that runs at once
  would have written (`TimelyRunWrites`, `TimelyRequest`), so every change of the rows
  is an atomic step (`TimelyTransactionsAreSerial`), and the invariants of the atomic
  review, with `WaitingHasJob` and "only a restore leaves the archive" in their plain
  form, follow with any handlers slow. `Held` is what nobody takes from a slow
  transaction: its job, and the kind of its document (`OthersKeep`). A version of the
  rows that each commit compares would be enough. `ReviewFollowsTheQueue` ties the two
  cores together: the set of active jobs that the review keeps, and the run that is
  under way, move by the steps of `DocumentQueue`, the same module that `OcrJobs`
  implements with rows. So what `RepairReview` takes for granted of the queue is what
  the rows give it. Only the start differs, since a new draft's document is already
  asked for.
* **`BackupRestoreProofs`.** `RowsHaveFiles` and `BackupHoldsFiles` hold only together
  with where each file is at each stage: the file of an upload without a row
  (`WrittenFiles`), of the live rows while they are aside (`LiveFiles`), of the rows a
  restore brings (`RestoreFiles`), of the rows in an archive (`BackupFiles`); no row
  exists whose upload has not finished (`RowsAreStored`: that is why removing the file
  of a failed upload hurts nobody); and a backup that meets a restore is `mixed`. While
  a restore replaces or undoes, the files of the live rows are `aside` or `exposed`,
  whatever was cleared or moved half way; a fault exposes exactly what was aside and is
  not back. Documents never lack their repair (`DocumentsHaveRepairs`); a backup's can,
  by the finding, and `BackupsOfOneStateRestore` proves that a change of the repairs
  between its two reads (`TornRead`) is the only way: one snapshot for both would make
  every backup on offer restorable. `EpochInv`: the epoch on disk is the number of the
  live database, except between commit and renewal, and a token's epoch never exceeds
  that of the database it was issued from.
* **`AdministrationProofs`.** Four parts, one argument: a request carries what it
  read, and the invariant says what of it still holds when it commits.
  Accounts: `Flights` (a form never takes the author's own rights, links have owners,
  a recovery's link is its own, a redemption saw its link unused) and `Sees` (who sets
  a password or asks for a link knows every live link of the user, except those that
  went live meanwhile). Assignments: `Knows`, the row a request checked is the row it
  will write, and it is apart from every row that nobody has written since. Labor
  norms (`LaborInv`): every norm names a catalogue and carries its label or is known
  to have strayed; a curator `Believes` what it loaded, save for the rows that others
  have written since; then no commit puts a label on a norm that its catalogue does
  not have. The rate limiter needs history instead: a deque that drops only what has
  expired holds at least the attempts of the window that ends now
  (`WindowsInBuckets`); every other window was current once, so it is no fuller than
  it was, late attempts aside (`OldWindows`); and what a client is told
  (`RefusedWait`) is not before the front attempt expires, rounded up to whole
  seconds. `AdministrationTypes` is about the four parts side by side.
* **`CatalogsProofs`.** `CatalogConsistent` with what a request still knows when it
  commits (`Knows`): what its guard read holds, or the row it read was changed meanwhile
  and is in `missed`; and what its operation is about (`Formed`). Every step of another
  request keeps that (`KeepsKnowing`). The two archive guards each leave out repairs
  that the other has archived something above: they are enough only because such a
  repair has escaped before. Rows that are not there yet have no name (`Unnamed`), so a
  new row is a changed one. `FleetInv` adds to `FleetAgrees` that no search goes on that
  had a card to take (`SearchesGoOn`), that the cards an import has flushed are its own
  until it commits, one a vehicle (`OwnCards`), and that what an import has read of the
  links lies before its day (`LinksArePast`). A card that goes live is then excused
  against each live card of its vehicle; and a pair that has not raced has at the commit
  the links the import read, so whichever link `active_pairs` keeps is the only one.
  `OldImportInv` adds to `ImportedOnce` that two repairs made from one key are named in
  `doubled` (`MadeOnce`) and what an import that is under way has read and will write
  (`Remembers`): what it will create is the key of no repair that it recognized. An
  edited reason disturbs neither, since both speak of the key a repair was made from.
* **`DatabaseProofs`.** `RowsInv` is `RowsFit` with what an alembic run needs to get
  there: rows are typed and the tables finite, no two documents share an id, and the
  tables a revision does not have yet are empty. Each data migration has a lemma for its
  effect on the rows and for what it keeps; a step of a run is then an effect
  (`UpgradeEffect`, `DowngradeEffect`) between two revisions. Migrations that pick one
  row of many (the canonical job of a document, the repair's source document) need that
  there is one: a finite set has a least element in the order the migration sorts by. A
  migration stops only on the rows that `OnlyNamedRowsStopAMigration` names, on either
  database; on PostgreSQL these include the conflicts that 0015 means to rehome. The
  theorems hold of any rows, scopes, names and codes, and of any revisions at which the
  application runs in between. The schema has constants of the code itself, several
  hundred elements that twenty migrations change. That each of them applies to a fresh
  database at its revision, and leaves the next, up and back down, is `MigrationFacts`:
  a closed formula that TLC evaluates in the run `database`, like `HooksAssumption`
  below. The proof carries it to all states that runs can leave: what differs from a
  fresh database is only the enum labels that an aborted run committed, and they disturb
  no change (`LabelsDisturbNothing`); `SchemaInv` says so of what is committed and of
  what an open run sees. `SchemaTheorem` holds for any stops, runs and failures. For
  `Reads`, per-database lemmas (`SourceIsCanonical`, `SourceIsShown`, `DocumentsAgree`,
  `QueuesAgree`, `QualityAgrees`, `HistoryAgrees`, `CategoriesAgree`) hold of any rows;
  the inductive part is `PageLeads`: the rows a page offers are rows whose page opens.
* **`FrontendProofs`.** The repair page. React renders and runs its effects before the
  next answer is handled, so every other step starts where the effects ended
  (`EffectsDone`: applying them again changes nothing). There the tab and the document
  are the address's, and where the repair is not yet, a load of it is the last one
  (`RepairFollows`) or a load was lost. `MixedPasses` says why a document of another
  repair than the selected one never stays: a load is under way, or an answer has just
  changed the repair, and then the effects find it to be another one than the
  address's, or than the document's. Spinners need that the last load and the last command
  of a counter are single and on (`LoadsInOrder`, `CommandsInOrder`, `Lights`);
  `NoPullBack` that a command which is still the last of its counter finds what its
  hook watches as it left it (`StillWatched`).
* **`PanelsProofs`.** What `Hooks` says of the eleven hooks is data, so the proof is not
  about them one by one: the end of `Hooks` states rules that they all share
  (`WellMade`: the reset leaves nothing; only handlers without an id load anything;
  what a mark stands for is emptied by the reset alone; what is shown of a selected
  item has a counter of its own and an effect that drops or reloads it; an effect that
  empties what a tab shows wakes with the effect that fills it). That the hooks obey
  them is `HooksAssumption`, a closed formula that TLC evaluates in the run
  `frontend`, and the only place where the concrete hooks count; the theorem holds of
  every hook that obeys them and of any number of sessions, acts and items. The
  invariant `PanelsInv` says what each part of `PanelsHold` leaves open between two
  steps: a flag that is on has a last request or a handler (`FlagsFor`, `Guarded`);
  what is shown of an item that is not selected any more is awaited, or its effect has
  yet to run (`Chosen`); a tab that is open shows, awaits or has missed its slots, or
  its effect has yet to run (`Opened`, `Filled`). Every operator on pages has a lemma
  for what it changes (`ClearedIs`, `AskedIs`, `AppliedIs`, `AdvancedIs`) and for what
  of the invariant it keeps (`...Views`, `...Kept`); a step is one or two of them. All
  effects run at once: that none empties what another one loads follows from the
  rules, not from an order.

Only model-checked:

* liveness (`ActiveJobEnds`, `Settles`): fairness and ENABLED are outside what the
  prover supports;
* that the concrete hooks and migrations have the properties that the proofs use
  (`HooksAssumption`, `MigrationFacts`): closed formulas without a free constant,
  for which evaluating them is a proof.

## 5. What is not modelled, and why

* Parsers, OCR tools, thresholds, texts, amounts, priorities: their results are
  choices; their quality is a matter of samples. The same holds of the matching of
  works with norms and of OCR's learning signals, which are single rows.
* Document checks and review rules: the findings they leave are choices of
  `RepairReview`.
* Reports and exports: texts and layout of rows read in one request; which rows and
  which document they are made from is in `Reads`. The audit log is written in the
  transactions that are modelled and read by no guard.
* Findings, manual lines and learning signals that no guard reads.
* Imported repairs keep findings that are not OCR's (a missing mileage); `Imported`
  has none.
* Batches (`process_pending`, `reprocess_existing`) call one operation document by document.
* The folder script's deduplication by hash and its matching of vehicles; the
  confirmation of services, their contacts, and the script that fills them in later.
* Two restores at once, and a worker that runs across a restore: its result then
  goes to a row that is gone, or to another document with the same id. The product
  of `BackupRestore` with `ReviewSessions` is out of reach of the runs.
* Corrupt archives (refused before anything changes) and the realignment of primary
  documents in old archives.
* Files without rows, left by a process that dies inside an upload: nothing in the
  code cleans them up or depends on them.
* Column types (but for the one that stops 0015) and lengths; DDL of SQLite that is killed half way.
* Order, pages and matching of lists and searches; forms, labels and drafts of the
  frontend; the deployment script, which is run by hand with the service stopped.

## 6. Findings

`backup_torn`: an upload that commits between the reads of two tables makes a backup
that is offered as ready and that no restore accepts. TLC finds it; `PROJECT.json`
quotes what the documents promise.

Further weaknesses that the models show. They are the exceptions that the properties
name, or follow from them. Documents say otherwise of two of them, marked (*): a
run of its own would only repeat the exception of a property that passes with it, so
they are listed here.

In the backend:

* a job whose worker died stays PROCESSING for good; neither claim, enqueue nor
  retry takes it up;
* a retry decided on a stale FAILED puts a running job back to RETRY, and a second
  worker runs it; the folder script runs a job that a worker is already running,
  writes PROCESSING over a result that a worker committed since the script read the row,
  and after a refused row runs the active one unmarked, though it is still QUEUED and a
  worker may claim it (`shared`, `document_jobs.py:130`);
* (*) the administrator's direct edit of an employee-confirmed repair does not take it
  back to review (`direct`); `src/START_DECISION_DOC.md:88` lists as recorded behaviour
  «любое изменение review-полей, техники или состава документов после
  `employee_confirmed` возвращает ремонт в `in_review`»;
* (*) a run that was loaded before an archive and ends after it takes the document, or
  the repair, out of the archive (`ArchiveLeftByRestore`), while
  `src/START_DECISION_DOC.md:59` wants «Archive/restore только через явные
  actions/endpoints» (a decision marked as not yet approved there); one that ends after
  an employee's confirmation replaces the findings and leaves the repair confirmed;
* a recheck asked for during a run is answered with the running job, and the
  document can wait with no job at its end;
* a document archived between the guard and the commit of set-primary becomes the
  primary one;
* a restore that dies after its commit leaves the old tokens valid (`cut`); a storage
  call that fails while files are moved loses files, in the rollback too, after which
  the `finally` removes the files that were saved (`backups.py:731`, `736`); a backup made
  during a restore lacks them (`exposed`);
* migration 0015 means to give conflicts without a job one, and its message says it
  keeps them, but on PostgreSQL its insert is refused: status is typed `sa.String`, sent
  as VARCHAR to a column of an enum type (`OrphansRefused`); such a database stops at
  0014;
* two administrators can demote each other if each request was authorised before the
  other committed; one recovery link confirmed twice at once sets two passwords;
* two requests that overlap give an employee one vehicle twice, archive a vehicle
  under a new repair, or give two services one name;
* a vehicle gets a second card when the registry spells a mark another way or files it
  under another type, when only a chassis number was read (a card made from it says
  nothing), or when two searches overlap (`twins`); two registry imports that overlap
  link a pair twice on a day, and only one of the two links is closed later (`raced`);
* the key of an imported repair is text in its reason: once a user edits it, the next
  import makes the repair again (`doubled`);
* once two cards match a plate, OCR makes a third; of three cards the historical
  import takes the third as unique (`historical_repairs_import.py:288`);
* labor norms: a change of a catalogue's status that overlaps its renaming writes the
  old name back onto its norms; a POST can silently update a catalogue made
  meanwhile; an import un-archives a catalogue made meanwhile; the script imports
  into archived catalogues;
* the suspicious figure of employees counts archived repairs; search totals come from
  a window count and are 0 past the last page.

In the frontend:

* an address whose document is not of its repair reloads for ever
  (`helpers.ts:258`), and `/repair?document=5` flips the document between 5 and
  none; a stale route key (`useAppNavigation.ts:451`) leaves the page blank;
* a silent refresh that overtakes a visible load leaves its spinner on and the wrong
  repair shown; overtaken loads of the service list, of vehicles in the review and of
  the comparison leave their flags on;
* handlers of the review, and the commands of a repair's documents, pull the user
  back to a page that was left, or set another page's repair;
* loads chained behind an old session's handler fill, or end, the new session, and
  turn its buttons on again; the answer of a vehicle's change shows vehicle A under
  the selected B; two lists of the labor norms share one mark.

## 7. What is left

Everything the plan set out is done: the queue and the review first, then their
composition with stale sessions, backups, accounts and the rest of the
administration, the catalogues, the database, the frontend, and the proofs that
section 4 lists. Worth doing next, in this order:

1. `BackupRestore` with a second restore and a worker that runs across one.
2. The confirmation of services and the deduplication by hash of the folder script.
