------------------------------ MODULE OcrJobs ------------------------------
(***************************************************************************)
(* The document OCR queue: the rows of import_jobs with import_type        *)
(* 'document_ocr', the API requests that put documents into the queue, the *)
(* worker processes that claim the rows and run them, and the batch script *)
(* that runs a document in its own process.                                *)
(*                                                                         *)
(* Every database transaction is cut where another session can get in      *)
(* between: an API request, and the script, read the active job, then the  *)
(* latest job, then flush and commit; what a refused flush reads again is  *)
(* a step of its own.  The row and index locks taken by the flush are      *)
(* held to the commit, so flush and commit are one step; the claim of a    *)
(* worker locks its row with FOR UPDATE SKIP LOCKED and is one step too.   *)
(* A row's created_at is the start of the transaction that inserted it;    *)
(* the order (created_at, id) of the code is the order of the ids here.    *)
(***************************************************************************)
EXTENDS Naturals, FiniteSets

CONSTANTS
  Documents,   \* documents that can be queued
  Requests,    \* API sessions that queue documents, one call at a time
  Workers,     \* run_job_worker processes
  Scripts,     \* import_documents_from_folder processes
  Faulty,      \* the runners that may die, or let an exception escape, mid-run
  MaxJobs,     \* bound: the number of job rows
  NoDocument   \* the document of a row that does not exist yet

ASSUME MaxJobsAssumption == MaxJobs \in Nat
ASSUME RunnersAssumption == /\ Workers \cap Scripts = {}
                            /\ Requests \cap Scripts = {}
                            /\ Faulty \subseteq Workers \cup Scripts
ASSUME NoDocumentAssumption == NoDocument \notin Documents

VARIABLES
  jobDoc,      \* import_jobs.document_id
  jobStatus,   \* import_jobs.status, "ABSENT" before the row is inserted
  nextId,      \* the id the next row gets
  req,         \* what each API session, and each script, has read so far
  run,         \* the job each runner is processing
  blocked,     \* documents with a block reason (archived, or under an archived parent)
  shared,      \* history: jobs written, or joined, over another runner or its result
  abandoned    \* history: jobs whose runner stopped without a terminal status

vars == <<jobDoc, jobStatus, nextId, req, run, blocked, shared, abandoned>>

JobIds == 1..MaxJobs
NoJob == 0
Runners == Workers \cup Scripts
Sessions == Requests \cup Scripts

(* Mutant: PROCESSING counts as queueable. *)
QueueableAndProcessing == {"QUEUED", "RETRY", "PROCESSING"}
QueueableStatuses == {"QUEUED", "RETRY"}
ActiveStatuses == QueueableStatuses \cup {"PROCESSING"}
DoneStatuses == {"COMPLETED", "COMPLETED_WITH_CONFLICTS", "FAILED"}
Statuses == ActiveStatuses \cup DoneStatuses

(* running: the active job was PROCESSING when it was read. *)
Request == [pc : {"idle", "checked", "ready", "refused"}, doc : Documents \cup {NoDocument},
            retry : BOOLEAN, active : JobIds \cup {NoJob}, running : BOOLEAN,
            latest : JobIds \cup {NoJob}]
IdleRequest == [pc |-> "idle", doc |-> NoDocument, retry |-> FALSE,
                active |-> NoJob, running |-> FALSE, latest |-> NoJob]

TypeOK ==
  /\ jobDoc \in [JobIds -> Documents \cup {NoDocument}]
  /\ jobStatus \in [JobIds -> Statuses \cup {"ABSENT"}]
  /\ nextId \in 1..(MaxJobs + 1)
  /\ \A j \in JobIds : /\ jobStatus[j] = "ABSENT" <=> j >= nextId
                       /\ jobDoc[j] = NoDocument <=> j >= nextId
  /\ req \in [Sessions -> Request]
  /\ \A r \in Sessions : /\ req[r].pc # "idle" => req[r].doc \in Documents
                         /\ req[r].running => req[r].active # NoJob
                         /\ \A j \in {req[r].active, req[r].latest} \ {NoJob} :
                              j < nextId /\ jobDoc[j] = req[r].doc
  /\ run \in [Runners -> JobIds \cup {NoJob}]
  /\ \A x \in Runners : run[x] # NoJob => run[x] < nextId
  /\ blocked \subseteq Documents
  /\ shared \subseteq JobIds
  /\ abandoned \subseteq JobIds

-----------------------------------------------------------------------------
(* The queries. *)

JobsOf(d) == {j \in JobIds : jobDoc[j] = d}
ActiveJobs(d) == {j \in JobsOf(d) : jobStatus[j] \in ActiveStatuses}
ProcessingJobs(d) == {j \in JobsOf(d) : jobStatus[j] = "PROCESSING"}

(* c is the job choose_canonical_active_job picks: the newest PROCESSING one, *)
(* else the oldest queued one.                                                *)
IsCanonical(c, d) ==
  /\ c \in ActiveJobs(d)
  /\ IF ProcessingJobs(d) # {}
     THEN c \in ProcessingJobs(d) /\ \A k \in ProcessingJobs(d) : k <= c
     ELSE \A k \in ActiveJobs(d) : c <= k

IsLatest(l, d) == l \in JobsOf(d) /\ \A k \in JobsOf(d) : k <= l

(* Mutant: the claim only looks for QUEUED rows. *)
ClaimableQueuedOnly == {j \in JobIds : jobStatus[j] = "QUEUED"}

Claimable == {j \in JobIds : /\ jobStatus[j] \in QueueableStatuses
                             /\ ProcessingJobs(jobDoc[j]) \ {j} = {}}

-----------------------------------------------------------------------------
(* API requests: enqueue_document_processing_job inside its transaction. *)

(* The document is loaded and found operational, the active jobs are read. *)
RequestCheckActive(r, d, retry) ==
  /\ req[r].pc = "idle"
  /\ d \notin blocked
  /\ \E a \in JobIds \cup {NoJob} :
       /\ IF ActiveJobs(d) = {} THEN a = NoJob ELSE IsCanonical(a, d)
       /\ req' = [req EXCEPT ![r] = [pc |-> "checked", doc |-> d, retry |-> retry, active |-> a,
                                     running |-> a \in ProcessingJobs(d), latest |-> NoJob]]
  /\ UNCHANGED <<jobDoc, jobStatus, nextId, run, blocked, shared, abandoned>>

(* An active job was seen: the request answers with it and writes no job. *)
RequestReuse(r) ==
  /\ req[r].pc = "checked"
  /\ req[r].active # NoJob
  /\ req' = [req EXCEPT ![r] = IdleRequest]
  /\ UNCHANGED <<jobDoc, jobStatus, nextId, run, blocked, shared, abandoned>>

(* Mutant: the oldest FAILED row is reused, whatever came after it. *)
RequestReadAnyFailed(r) ==
  LET F == {k \in JobsOf(req[r].doc) : jobStatus[k] = "FAILED"} IN
  /\ req[r].pc = "checked"
  /\ req[r].active = NoJob
  /\ \E l \in JobIds \cup {NoJob} :
       /\ IF req[r].retry /\ F # {} THEN l \in F /\ \A k \in F : l <= k ELSE l = NoJob
       /\ req' = [req EXCEPT ![r] = [@ EXCEPT !.pc = "ready", !.latest = l]]
  /\ UNCHANGED <<jobDoc, jobStatus, nextId, run, blocked, shared, abandoned>>

(* Mutant: the latest row is reused in any terminal status. *)
RequestReadDone(r) ==
  /\ req[r].pc = "checked"
  /\ req[r].active = NoJob
  /\ \E l \in JobIds \cup {NoJob} :
       /\ IF req[r].retry /\ JobsOf(req[r].doc) # {} THEN IsLatest(l, req[r].doc) ELSE l = NoJob
       /\ req' = [req EXCEPT ![r] = [@ EXCEPT !.pc = "ready", !.latest = l]]
  /\ UNCHANGED <<jobDoc, jobStatus, nextId, run, blocked, shared, abandoned>>

(* The latest job is read; it is kept when it may be reused for a retry. *)
RequestReadLatest(r) ==
  /\ req[r].pc = "checked"
  /\ req[r].active = NoJob
  /\ \E l \in JobIds \cup {NoJob} :
       /\ IF req[r].retry /\ \E k \in JobIds : IsLatest(k, req[r].doc) /\ jobStatus[k] = "FAILED"
          THEN l # NoJob /\ IsLatest(l, req[r].doc)
          ELSE l = NoJob
       /\ req' = [req EXCEPT ![r] = [@ EXCEPT !.pc = "ready", !.latest = l]]
  /\ UNCHANGED <<jobDoc, jobStatus, nextId, run, blocked, shared, abandoned>>

(* What a session writes over when it sets j to be run: nothing, unless j    *)
(* was taken by a runner, or has a result, since the session read it.        *)
Overwritten(j) == IF jobStatus[j] \in QueueableStatuses \cup {"FAILED"} THEN {} ELSE {j}

(* The row read as FAILED is set to RETRY.  The unique index on the active   *)
(* jobs of a document refuses it when another one exists; nothing compares   *)
(* the row with what was read.                                               *)
RequestRetry(r) ==
  LET j == req[r].latest IN
  /\ req[r].pc = "ready"
  /\ j # NoJob
  /\ IF ActiveJobs(req[r].doc) \ {j} = {}
     THEN /\ jobStatus' = [jobStatus EXCEPT ![j] = "RETRY"]
          /\ shared' = shared \cup Overwritten(j)
     ELSE UNCHANGED <<jobStatus, shared>>
  /\ req' = [req EXCEPT ![r] = IdleRequest]
  /\ UNCHANGED <<jobDoc, nextId, run, blocked, abandoned>>

(* Mutant: there is no unique index. *)
RequestInsertUnchecked(r) ==
  /\ req[r].pc = "ready"
  /\ req[r].latest = NoJob
  /\ nextId <= MaxJobs
  /\ jobDoc' = [jobDoc EXCEPT ![nextId] = req[r].doc]
  /\ jobStatus' = [jobStatus EXCEPT ![nextId] = "QUEUED"]
  /\ nextId' = nextId + 1
  /\ req' = [req EXCEPT ![r] = IdleRequest]
  /\ UNCHANGED <<run, blocked, shared, abandoned>>

(* Mutant: the row is inserted without its document_id. *)
RequestInsertNoDocument(r) ==
  /\ req[r].pc = "ready"
  /\ req[r].latest = NoJob
  /\ nextId <= MaxJobs
  /\ jobStatus' = [jobStatus EXCEPT ![nextId] = "QUEUED"]
  /\ nextId' = nextId + 1
  /\ req' = [req EXCEPT ![r] = IdleRequest]
  /\ UNCHANGED <<jobDoc, run, blocked, shared, abandoned>>

(* A new row is inserted, unless the unique index refuses it. *)
RequestInsert(r) ==
  /\ req[r].pc = "ready"
  /\ req[r].latest = NoJob
  /\ IF ActiveJobs(req[r].doc) = {}
     THEN /\ nextId <= MaxJobs
          /\ jobDoc' = [jobDoc EXCEPT ![nextId] = req[r].doc]
          /\ jobStatus' = [jobStatus EXCEPT ![nextId] = "QUEUED"]
          /\ nextId' = nextId + 1
     ELSE UNCHANGED <<jobDoc, jobStatus, nextId>>
  /\ req' = [req EXCEPT ![r] = IdleRequest]
  /\ UNCHANGED <<run, blocked, shared, abandoned>>

(* The rest of the handler raises, or the refused row of a script has no     *)
(* active job behind it any more: db.rollback().                             *)
RequestRollback(r) ==
  /\ req[r].pc # "idle"
  /\ req' = [req EXCEPT ![r] = IdleRequest]
  /\ UNCHANGED <<jobDoc, jobStatus, nextId, run, blocked, shared, abandoned>>

-----------------------------------------------------------------------------
(* Workers: claim_next_document_processing_job and process_document. *)

(* Mutant: the rejected job is marked before the document is looked at. *)
ClaimRejectsLate(w, j) ==
  /\ run[w] = NoJob
  /\ j \in Claimable
  /\ \A k \in Claimable : j <= k
  /\ jobDoc[j] \in blocked
  /\ jobStatus' = [jobStatus EXCEPT ![j] = "PROCESSING"]
  /\ UNCHANGED <<jobDoc, nextId, req, run, blocked, shared, abandoned>>

(* The oldest claimable job belongs to a document that may not be processed: *)
(* it fails, and the loop of the claim goes on.                              *)
ClaimRejects(w, j) ==
  /\ run[w] = NoJob
  /\ j \in Claimable
  /\ \A k \in Claimable : j <= k
  /\ jobDoc[j] \in blocked
  /\ jobStatus' = [jobStatus EXCEPT ![j] = "FAILED"]
  /\ UNCHANGED <<jobDoc, nextId, req, run, blocked, shared, abandoned>>

(* The canonical job of the claimed row's document starts; the other active  *)
(* jobs of the document are failed as superseded.                            *)
ClaimStarts(w, j, c) ==
  /\ run[w] = NoJob
  /\ j \in Claimable
  /\ \A k \in Claimable : j <= k
  /\ jobDoc[j] \notin blocked
  /\ IsCanonical(c, jobDoc[j])
  /\ jobStatus' = [k \in JobIds |-> CASE k = c -> "PROCESSING"
                                      [] k \in ActiveJobs(jobDoc[j]) \ {c} -> "FAILED"
                                      [] OTHER -> jobStatus[k]]
  /\ run' = [run EXCEPT ![w] = c]
  /\ UNCHANGED <<jobDoc, nextId, req, blocked, shared, abandoned>>

(* Mutant: a failed run goes back to the queue. *)
FinishRequeues(x, outcome) ==
  /\ run[x] # NoJob
  /\ outcome \in DoneStatuses
  /\ jobStatus' = [jobStatus EXCEPT ![run[x]] = IF outcome = "FAILED" THEN "RETRY" ELSE outcome]
  /\ run' = [run EXCEPT ![x] = NoJob]
  /\ UNCHANGED <<jobDoc, nextId, req, blocked, shared, abandoned>>

(* The run ends with a terminal status, committed with what it wrote. *)
Finish(x, outcome) ==
  /\ run[x] # NoJob
  /\ outcome \in DoneStatuses
  /\ jobStatus' = [jobStatus EXCEPT ![run[x]] = outcome]
  /\ run' = [run EXCEPT ![x] = NoJob]
  /\ UNCHANGED <<jobDoc, nextId, req, blocked, shared, abandoned>>

(* The process dies, or process_document raises outside its own handler (a   *)
(* storage path that cannot be resolved, a failure while recording the       *)
(* failure): process_single_job logs it and leaves the row as it is.         *)
Abandon(x) ==
  /\ x \in Faulty
  /\ run[x] # NoJob
  /\ run' = [run EXCEPT ![x] = NoJob]
  /\ abandoned' = abandoned \cup {run[x]}
  /\ UNCHANGED <<jobDoc, jobStatus, nextId, req, blocked, shared>>

-----------------------------------------------------------------------------
(* The folder script: start_and_run_document_processing enqueues like a      *)
(* request with retry_failed, then sets the job it was given to PROCESSING,  *)
(* unless it read it so, and runs it in its own process.                     *)

ScriptChecksActive(s, d) == run[s] = NoJob /\ RequestCheckActive(s, d, TRUE)

(* The job was PROCESSING when it was read: the script runs it as well.      *)
ScriptJoins(s) ==
  /\ req[s].pc = "checked"
  /\ req[s].running
  /\ run' = [run EXCEPT ![s] = req[s].active]
  /\ shared' = shared \cup {req[s].active}
  /\ req' = [req EXCEPT ![s] = IdleRequest]
  /\ UNCHANGED <<jobDoc, jobStatus, nextId, blocked, abandoned>>

(* Row j is flushed as PROCESSING, whatever became of it since it was read;  *)
(* the unique index refuses it when another row is active by now.            *)
Starts(s, j) ==
  /\ IF ActiveJobs(req[s].doc) \ {j} = {}
     THEN /\ jobStatus' = [jobStatus EXCEPT ![j] = "PROCESSING"]
          /\ shared' = shared \cup Overwritten(j)
          /\ run' = [run EXCEPT ![s] = j]
          /\ req' = [req EXCEPT ![s] = IdleRequest]
     ELSE /\ req' = [req EXCEPT ![s].pc = "refused"]
          /\ UNCHANGED <<jobStatus, shared, run>>
  /\ UNCHANGED <<jobDoc, nextId, blocked, abandoned>>

(* The active job was read as QUEUED or RETRY: mark_job_processing.          *)
ScriptMarks(s) ==
  /\ req[s].pc = "checked"
  /\ req[s].active # NoJob
  /\ ~req[s].running
  /\ Starts(s, req[s].active)

(* The latest job was read as FAILED: RETRY, then PROCESSING, in one         *)
(* transaction.                                                              *)
ScriptRetries(s) ==
  /\ req[s].pc = "ready"
  /\ req[s].latest # NoJob
  /\ Starts(s, req[s].latest)

(* A new row is inserted and set to PROCESSING, unless the index refuses it. *)
ScriptInserts(s) ==
  /\ req[s].pc = "ready"
  /\ req[s].latest = NoJob
  /\ IF ActiveJobs(req[s].doc) = {}
     THEN /\ nextId <= MaxJobs
          /\ jobDoc' = [jobDoc EXCEPT ![nextId] = req[s].doc]
          /\ jobStatus' = [jobStatus EXCEPT ![nextId] = "PROCESSING"]
          /\ nextId' = nextId + 1
          /\ run' = [run EXCEPT ![s] = nextId]
          /\ req' = [req EXCEPT ![s] = IdleRequest]
     ELSE /\ req' = [req EXCEPT ![s].pc = "refused"]
          /\ UNCHANGED <<jobDoc, jobStatus, nextId, run>>
  /\ UNCHANGED <<blocked, shared, abandoned>>

(* After a refused retry or insert the active job is read again and handled  *)
(* like the one of the first read.                                           *)
ScriptReadsAgain(s, c) ==
  /\ req[s].pc = "refused"
  /\ req[s].active = NoJob
  /\ IsCanonical(c, req[s].doc)
  /\ req' = [req EXCEPT ![s] = [pc |-> "checked", doc |-> req[s].doc, retry |-> TRUE, active |-> c,
                                 running |-> c \in ProcessingJobs(req[s].doc), latest |-> NoJob]]
  /\ UNCHANGED <<jobDoc, jobStatus, nextId, run, blocked, shared, abandoned>>

(* After a refused mark_job_processing the active job is run as it is, in    *)
(* whatever status: nobody marks it.                                         *)
ScriptRunsOther(s, c) ==
  /\ req[s].pc = "refused"
  /\ req[s].active # NoJob
  /\ IsCanonical(c, req[s].doc)
  /\ run' = [run EXCEPT ![s] = c]
  /\ shared' = shared \cup {c}
  /\ req' = [req EXCEPT ![s] = IdleRequest]
  /\ UNCHANGED <<jobDoc, jobStatus, nextId, blocked, abandoned>>

-----------------------------------------------------------------------------
(* Archiving or restoring the document, its repair, vehicle or service. *)
ToggleBlocked(d) ==
  /\ blocked' = IF d \in blocked THEN blocked \ {d} ELSE blocked \cup {d}
  /\ UNCHANGED <<jobDoc, jobStatus, nextId, req, run, shared, abandoned>>

Init ==
  /\ jobDoc = [j \in JobIds |-> NoDocument]
  /\ jobStatus = [j \in JobIds |-> "ABSENT"]
  /\ nextId = 1
  /\ req = [r \in Sessions |-> IdleRequest]
  /\ run = [x \in Runners |-> NoJob]
  /\ blocked = {}
  /\ shared = {}
  /\ abandoned = {}

RequestStep(r) ==
  \/ \E d \in Documents, retry \in BOOLEAN : RequestCheckActive(r, d, retry)
  \/ RequestReuse(r)
  \/ RequestReadLatest(r)
  \/ RequestRetry(r)
  \/ RequestInsert(r)
  \/ RequestRollback(r)

Claim(w) == \E j \in JobIds : ClaimRejects(w, j) \/ \E c \in JobIds : ClaimStarts(w, j, c)
FinishRun(x) == \E outcome \in DoneStatuses : Finish(x, outcome)

ScriptStep(s) ==
  \/ \E d \in Documents : ScriptChecksActive(s, d)
  \/ RequestReadLatest(s)
  \/ ScriptJoins(s)
  \/ ScriptMarks(s)
  \/ ScriptRetries(s)
  \/ ScriptInserts(s)
  \/ \E c \in JobIds : ScriptReadsAgain(s, c) \/ ScriptRunsOther(s, c)
  \/ RequestRollback(s)

Next ==
  \/ \E r \in Requests : RequestStep(r)
  \/ \E w \in Workers : Claim(w)
  \/ \E s \in Scripts : ScriptStep(s)
  \/ \E x \in Runners : FinishRun(x) \/ Abandon(x)
  \/ \E d \in Documents : ToggleBlocked(d)

(* The containers are restarted unless stopped and the worker polls forever, *)
(* so an idle worker claims and a run that is not cut short ends.            *)
Fairness ==
  /\ \A w \in Workers : WF_vars(Claim(w))
  /\ \A x \in Runners : WF_vars(FinishRun(x))

Spec == Init /\ [][Next]_vars /\ Fairness

-----------------------------------------------------------------------------
(* Properties. *)

(* A document has at most one active job, whatever requests, workers and     *)
(* scripts do: what the dedup in enqueue_document_processing_job and the     *)
(* index uq_import_jobs_active_document_ocr are for.                         *)
OneActiveJob == \A d \in Documents : \A j, k \in ActiveJobs(d) : j = k

(* Two runners process the same job only when a request or a script wrote    *)
(* over a runner from a stale read, or a script joined a job that was given  *)
(* to it as active: the claim alone never hands a job out twice, and any     *)
(* other job that is being run stays PROCESSING.                             *)
ExclusiveRun ==
  \A x \in Runners : run[x] # NoJob /\ run[x] \notin shared =>
    /\ jobStatus[run[x]] = "PROCESSING"
    /\ \A y \in Runners : run[y] = run[x] => y = x

(* A job in PROCESSING is being processed by somebody, unless its runner     *)
(* died or raised: no order of claims, requests and archivals strands a job. *)
ProcessingIsRun ==
  \A j \in JobIds : jobStatus[j] = "PROCESSING" /\ j \notin abandoned =>
    \E x \in Runners : run[x] = j

(* The job a document shows as active is its newest one: a retry never       *)
(* revives an old row behind a newer result.                                 *)
ActiveIsLatest == \A d \in Documents : \A j \in ActiveJobs(d) : IsLatest(j, d)

(* A finished job only comes back to life when it had FAILED: a completed    *)
(* job is never run again.                                                   *)
CompletedStays ==
  [][\A j \in JobIds :
       jobStatus[j] \in {"COMPLETED", "COMPLETED_WITH_CONFLICTS"} => jobStatus'[j] = jobStatus[j]]_vars

(* The abstract queue, read off the active job of each document. *)
Phase(d) == CASE ProcessingJobs(d) # {} -> "running"
              [] ProcessingJobs(d) = {} /\ ActiveJobs(d) # {} -> "waiting"
              [] OTHER -> "idle"
Queue == INSTANCE DocumentQueue WITH phase <- [d \in Documents |-> Phase(d)]

(* The rows of import_jobs implement the abstract queue: a document that is  *)
(* being processed is not put back among the waiting ones.                   *)
ImplementsQueue == Queue!Spec

Quiet == \A r \in Sessions : req[r].pc = "idle"

(* Once the users stop asking, every active job reaches a terminal status or *)
(* has been abandoned by its runner.                                         *)
ActiveJobEnds ==
  <>[]Quiet => \A j \in JobIds : jobStatus[j] \in ActiveStatuses
                                   ~> jobStatus[j] \in DoneStatuses \/ j \in abandoned
=============================================================================
