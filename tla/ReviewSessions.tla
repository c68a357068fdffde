--------------------------- MODULE ReviewSessions ---------------------------
(***************************************************************************)
(* RepairReview with one slow transaction: a session reads the rows, others *)
(* commit, and the session then writes what it decided on the rows it read. *)
(* PostgreSQL runs READ COMMITTED, nothing locks or compares the rows, and  *)
(* the ORM writes the columns whose value it changed, and no others.        *)
(*                                                                          *)
(* The slow transaction is a worker's run, minutes between its first query  *)
(* and its commit, or one of the quick handlers.  All others are atomic.    *)
(***************************************************************************)
EXTENDS RepairReview

CONSTANT SlowHandlers  \* which handlers may be slow
ASSUME SlowAssumption == SlowHandlers \subseteq {"run", "set_primary", "employee_confirm"}

VARIABLES
  session,  \* the slow transaction: its handler, its document and what it read
  escaped   \* history: archived documents that the slow transaction gave a status

sessionVars == <<db, direct, patched, session, escaped>>

Idle == [handler |-> "none"]

SessionInit == Init /\ session = Idle /\ escaped = {}

(* A column keeps what is in the database unless the session changed it. *)
Column(read, written, now) == IF written # read THEN written ELSE now

Merged(read, written, now) ==
  [status |-> Column(read.status, written.status, now.status),
   preliminary |-> Column(read.preliminary, written.preliminary, now.preliminary),
   header |-> Column(read.header, written.header, now.header),
   service |-> Column(read.service, written.service, now.service),
   linked |-> Column(read.linked, written.linked, now.linked),
   parentArchived |-> now.parentArchived,
   source |-> Column(read.source, written.source, now.source),
   doc |-> [d \in Documents |->
     [kind |-> now.doc[d].kind,
      status |-> Column(read.doc[d].status, written.doc[d].status, now.doc[d].status),
      primary |-> Column(read.doc[d].primary, written.doc[d].primary, now.doc[d].primary),
      queued |-> Column(read.doc[d].queued, written.doc[d].queued, now.doc[d].queued)]],
   checks |-> now.checks,
   jobs |-> now.jobs]

-----------------------------------------------------------------------------
(* Of what a run reads, its result depends on its document and on the       *)
(* columns of the repair; the rest would only multiply the states.          *)
ReadByRun(s, d) ==
  [s EXCEPT !.source = NoDocument, !.checks = NoChecks, !.jobs = {}, !.parentArchived = FALSE,
            !.doc = [e \in Documents |-> IF e = d THEN s.doc[d] ELSE NoSuchDocument]]

(* The worker loads the document, its repair and its job, and finds them    *)
(* operational.                                                             *)
RunLoads(d) ==
  /\ "run" \in SlowHandlers
  /\ session = Idle
  /\ d \in db.jobs
  /\ Usable(db, d)
  /\ session' = [handler |-> "run", doc |-> d, read |-> ReadByRun(db, d)]
  /\ UNCHANGED <<db, direct, patched, escaped>>

(* Mutant: the run writes the whole row of its document back. *)
WritesOwnRow(read, written, d) ==
  [Merged(read, written, db) EXCEPT
     !.jobs = db.jobs \ {d},
     !.doc[d] = written.doc[d],
     !.checks = IF read.doc[d].kind \in PrimaryKinds THEN written.checks ELSE db.checks]

(* The checks are deleted and written anew, the job ends, the rest is       *)
(* written where it differs from what was loaded.                           *)
RunWrites(read, written, d) ==
  [Merged(read, written, db) EXCEPT
     !.jobs = db.jobs \ {d},
     !.checks = IF read.doc[d].kind \in PrimaryKinds THEN written.checks ELSE db.checks]

(* A PATCH that came in between stands if the status was not written.       *)
Patched(d, written) ==
  IF db'.doc[d].status = written.doc[d].status THEN patched \ {d} ELSE patched

(* It commits the result. *)
RunCommits ==
  /\ session.handler = "run"
  /\ LET d == session.doc
         read == session.read
     IN /\ \E written \in IF read.doc[d].kind \in PrimaryKinds
                          THEN {OcrFinished(read, d, o) : o \in Outcomes}
                          ELSE {StoredOnly(read, d)} :
             /\ db' = RunWrites(read, written, d)
             /\ direct' = (direct /\ written.status = read.status)
             /\ patched' = Patched(d, written)
        /\ escaped' = IF db.doc[d].status = "archived" THEN escaped \cup {d} ELSE escaped
  /\ session' = Idle

(* OCR raises: the session is rolled back, the rows are loaded again and    *)
(* the failure is written without another look at the archive.              *)
RunRaises ==
  /\ session.handler = "run"
  /\ db' = OcrFailed(db, session.doc)
  /\ patched' = patched \ {session.doc}
  /\ escaped' = IF db.doc[session.doc].status = "archived"
                THEN escaped \cup {session.doc} ELSE escaped
  /\ session' = Idle
  /\ UNCHANGED direct

(* The two quick handlers read the documents and the status.                *)
ReadByRequest(s) ==
  [s EXCEPT !.header = FALSE, !.service = FALSE, !.linked = FALSE, !.parentArchived = FALSE,
            !.checks = NoChecks, !.jobs = {},
            !.doc = [e \in Documents |-> [s.doc[e] EXCEPT !.queued = FALSE]]]

(* A quick handler passes its guards on what it reads. *)
RequestLoads(d) ==
  /\ session = Idle
  /\ \E handler \in SlowHandlers \ {"run"} :
       /\ \/ handler = "set_primary" /\ CanMakePrimary(db, d)
          \/ handler = "employee_confirm" /\ CanConfirm(db, d) /\ db.status # "employee_confirmed"
       /\ session' = [handler |-> handler, doc |-> d, read |-> ReadByRequest(db)]
  /\ UNCHANGED <<db, direct, patched, escaped>>

RequestCommits ==
  /\ session.handler \in {"set_primary", "employee_confirm"}
  /\ LET d == session.doc
         confirms == session.handler = "employee_confirm"
         written == IF confirms THEN EmployeeConfirmed(session.read, d)
                                ELSE PrimarySet(session.read, d)
     IN /\ db' = Merged(session.read, written, db)
        /\ direct' = (direct /\ ~confirms)
        /\ patched' = IF confirms THEN Patched(d, written) ELSE patched
        /\ escaped' = IF confirms /\ db.doc[d].status = "archived"
                      THEN escaped \cup {d} ELSE escaped
  /\ session' = Idle

Running == IF session.handler = "run" THEN {session.doc} ELSE {}

(* Everybody else, one transaction at a time.  Restoring or archiving a     *)
(* document ends its escape.                                                *)
Others ==
  /\ RepairRequest \/ \E d \in Documents : DocumentRequest(d) \/ (d \notin Running /\ WorkerRun(d))
  /\ escaped' = {d \in escaped : (d \in Live(db)) = (d \in Live(db'))}
  /\ UNCHANGED session

SessionNext ==
  \/ Others
  \/ \E d \in Documents : RunLoads(d) \/ RequestLoads(d)
  \/ RunCommits
  \/ RunRaises
  \/ RequestCommits

SessionSpec == SessionInit /\ [][SessionNext]_sessionVars

-----------------------------------------------------------------------------
(* Whatever a slow run overwrites, the pointer and the flag of the primary  *)
(* document agree and name a live document (assign_primary_document).       *)
PrimaryAgrees ==
  /\ \A d \in Documents : db.doc[d].primary <=> db.source = d
  /\ db.source # NoDocument => db.source \in Eligible(db)

(* What is live below an archived repair, or eligible and not the primary   *)
(* choice of a repair that has none, is a document that a slow transaction  *)
(* gave a status after it was archived: the quick handlers leave none.      *)
OnlySlowWritesEscape ==
  /\ db.status = "archived" => Live(db) \subseteq escaped
  /\ db.source = NoDocument => Eligible(db) \subseteq escaped

(* A slow transaction ends that read document d, or the repair, live.       *)
EndsOn(d) == session # Idle /\ session' = Idle /\ session.doc = d /\ d \in Live(session.read)
EndsOnRepair == session # Idle /\ session' = Idle /\ session.read.status # "archived"

(* A document leaves the archive by a restore of it or of its repair, and   *)
(* the repair by its own, or they are written over by a transaction that    *)
(* read them before they were archived; nobody who finds them archived      *)
(* takes them out (the archive check of document_processing_runner.py and   *)
(* those of the endpoints; finalize_processing_failure).                    *)
ArchiveLeftByRestore ==
  [][/\ \A d \in Documents : db.doc[d].status = "archived" /\ db'.doc[d].status # "archived"
         => RestoreDocument(d) \/ RestoreRepair \/ EndsOn(d)
     /\ db.status = "archived" /\ db'.status # "archived" => RestoreRepair \/ EndsOnRepair
    ]_sessionVars

(* Documents that show "uploaded", by no PATCH, and that no job will serve. *)
Forgotten == {d \in Documents \ patched : db.doc[d].status = "uploaded" /\ d \notin db.jobs}

(* A document that waits for OCR keeps its job, but one whose run read      *)
(* another status and that was asked for again meanwhile: that run answers  *)
(* for the request too, and if it comes to the status it had read, which is *)
(* not written, the document waits for nobody                               *)
(* (queue_document_processing_result, finalize_ocr_processing_result).      *)
AskedDuringItsRun(d) ==
  /\ session.handler = "run" /\ session.doc = d /\ session' = Idle
  /\ session.read.doc[d].status # "uploaded" /\ db.doc[d].status = "uploaded"
WaitingKeepsJob ==
  [][\A d \in Forgotten' \ Forgotten : AskedDuringItsRun(d)]_sessionVars
=============================================================================
