---------------------------- MODULE RepairReview ----------------------------
(***************************************************************************)
(* One repair with its documents, its findings (repair_checks) and the     *)
(* documents' active OCR jobs: the endpoints of api/documents.py and       *)
(* api/repairs.py, the review actions, and the outcomes of a worker's run. *)
(*                                                                         *)
(* The database is one record, and a handler is an operator from the state *)
(* it reads to the state it commits.  Here a handler is one step, and a    *)
(* worker's run is one that nothing overtook; module ReviewSessions cuts    *)
(* runs and requests, and what it says of them is said there.              *)
(*                                                                         *)
(* Left out: texts, amounts, priorities and versions; the vehicle and the  *)
(* service are one parent that is archived or not; is_partially_recognized *)
(* is only set where the repair is in the review queue by its status.      *)
(***************************************************************************)
EXTENDS Naturals, FiniteSets

CONSTANTS
  MaxDocuments,  \* bound: the documents the repair ever gets
  UploadKinds,   \* the document kinds the users upload
  Findings,      \* the checks OCR can leave
  Recognitions,  \* how much OCR can recognise
  EditStatuses,  \* the statuses the administrator sets on the repair by hand, or "as_is"
  PatchStatuses  \* and on its documents

PrimaryKinds == {"order", "repeat_scan"}
AllFindings == {"blocking", "service", "vehicle"}

ASSUME MaxDocumentsAssumption == MaxDocuments \in Nat \ {0}
ASSUME UploadKindsAssumption ==
  UploadKinds \subseteq PrimaryKinds \cup {"attachment", "confirmation"}
ASSUME FindingsAssumption == Findings \subseteq AllFindings
ASSUME RecognitionsAssumption == Recognitions \subseteq {"most", "some", "none_pdf", "none_image"}

DocumentStatuses == {"uploaded", "recognized", "partially_recognized", "needs_review",
                     "confirmed", "ocr_error", "archived"}
RepairStatuses == {"draft", "in_review", "employee_confirmed", "suspicious",
                   "confirmed", "ocr_error", "archived"}

ASSUME EditAssumption ==
  EditStatuses \subseteq RepairStatuses \cup {"as_is"} /\ PatchStatuses \subseteq DocumentStatuses

VARIABLES
  db,       \* the rows of the repair
  direct,   \* history: update_repair or an import wrote the repair since the last review step
  patched   \* history: documents whose status was last set by PATCH /documents

vars == <<db, direct, patched>>

Documents == 1..MaxDocuments
NoDocument == 0

(* queued: the latest version says "queued" and there is no confidence yet. *)
Document == [kind : UploadKinds \cup {"none"}, status : DocumentStatuses \cup {"absent"},
             primary : BOOLEAN, queued : BOOLEAN]
(* header: number, date, mileage and total are filled in; linked: the       *)
(* vehicle is not the placeholder.                                          *)
Database == [status : RepairStatuses, preliminary : BOOLEAN, header : BOOLEAN,
             service : BOOLEAN, linked : BOOLEAN, parentArchived : BOOLEAN,
             source : Documents \cup {NoDocument},
             doc : [Documents -> Document],
             checks : [Findings -> {"none", "open", "resolved"}],
             jobs : SUBSET Documents]

TypeOK == db \in Database /\ direct \in BOOLEAN /\ patched \subseteq Documents

NoSuchDocument == [kind |-> "none", status |-> "absent", primary |-> FALSE, queued |-> FALSE]
NewDocument(kind) == [kind |-> kind, status |-> "uploaded", primary |-> FALSE, queued |-> TRUE]
NoChecks == [c \in Findings |-> "none"]

-----------------------------------------------------------------------------
(* What the handlers read. *)

Present(s) == {d \in Documents : s.doc[d].status # "absent"}
Live(s) == {d \in Present(s) : s.doc[d].status # "archived"}
Operational(s) == s.status # "archived" /\ ~s.parentArchived
Usable(s, d) == d \in Live(s) /\ Operational(s)

Eligible(s) == {d \in Live(s) : s.doc[d].kind \in PrimaryKinds}

Newest(S) == CHOOSE d \in S : \A e \in S : e <= d
PrimaryOf(s) == {d \in Eligible(s) : s.doc[d].primary}

Candidate(s) ==
  IF Eligible(s) = {} THEN NoDocument
  ELSE IF s.source \in Eligible(s) THEN s.source
  ELSE IF PrimaryOf(s) # {} THEN Newest(PrimaryOf(s))
  ELSE Newest(Eligible(s))

Open(s) == {c \in Findings : s.checks[c] = "open"}
Complete(s) == s.header /\ s.service /\ s.linked

ReviewableDocumentStatuses == {"partially_recognized", "needs_review", "ocr_error"}
(* Mutant: what waits for the administrator is not in the queue. *)
ReviewableByEmployee == {"in_review", "suspicious", "ocr_error"}
ReviewableRepairStatuses == {"in_review", "employee_confirmed", "suspicious", "ocr_error"}

InReviewQueue(s, d) ==
  /\ d \in Eligible(s)
  /\ s.doc[d].status # "uploaded"
  /\ Operational(s)
  /\ \/ s.doc[d].status \in ReviewableDocumentStatuses
     \/ s.status \in ReviewableRepairStatuses
     \/ Open(s) # {}

-----------------------------------------------------------------------------
(* What they do. *)

(* Mutant: a repair confirmed by the employee stays confirmed. *)
ReopenedIfConfirmed(s) ==
  IF s.status = "confirmed" THEN [s EXCEPT !.status = "in_review", !.preliminary = TRUE] ELSE s

(* Mutant: the reopened repair is not preliminary again. *)
ReopenedStillFinal(s) ==
  IF s.status \in {"confirmed", "employee_confirmed"} THEN [s EXCEPT !.status = "in_review"] ELSE s

Reopened(s) ==
  IF s.status \in {"confirmed", "employee_confirmed"}
  THEN [s EXCEPT !.status = "in_review", !.preliminary = TRUE]
  ELSE s

WithPrimary(s, t) ==
  [s EXCEPT !.source = t,
            !.doc = [d \in Documents |-> [s.doc[d] EXCEPT !.primary = (t # NoDocument /\ d = t)]]]

(* The repair is reopened if another document was the source before.        *)
PrimarySet(s, d) ==
  LET t == WithPrimary(s, d) IN IF Candidate(s) # d THEN Reopened(t) ELSE t

Normalized(s) == WithPrimary(s, Candidate(s))

(* Mutant: the status is not looked at again after the findings change. *)
RefreshedPreliminary(s) == [s EXCEPT !.preliminary = TRUE]

(* Mutant: the repair gets a status of its documents. *)
RefreshedAsDocument(s) == [s EXCEPT !.preliminary = TRUE, !.status = "needs_review"]

Refreshed(s) ==
  [s EXCEPT !.preliminary = TRUE,
            !.status = IF "blocking" \in Open(s) THEN "suspicious" ELSE "in_review"]

(* The service is set or cleared, and its findings with it. *)
WithService(s, on) ==
  [s EXCEPT !.service = on,
            !.checks = [c \in Findings |-> IF c # "service" \/ (on /\ s.checks[c] = "none")
                          THEN s.checks[c]
                          ELSE IF on THEN "resolved" ELSE "open"]]

(* A job is enqueued, or the active one answers; the document is marked for *)
(* reprocessing unless it displays the queued state of that job.            *)
Rechecked(s, d) ==
  LET t == [s EXCEPT !.jobs = @ \cup {d}]
      displaysQueued == s.doc[d].status = "uploaded" /\ s.doc[d].queued
  IN IF d \notin s.jobs \/ ~displaysQueued
     THEN [Reopened(t) EXCEPT !.doc[d].status = "uploaded", !.doc[d].queued = TRUE]
     ELSE t

Uploaded(s, d, kind) ==
  Normalized([Reopened(s) EXCEPT !.doc[d] = NewDocument(kind), !.jobs = @ \cup {d}])

(* Mutant: the primary document is left where it was. *)
DocumentArchivedOnly(s, d) == Reopened([s EXCEPT !.doc[d].status = "archived"])

(* primary_changed: d was primary, or the source that the code falls back to. *)
DocumentArchived(s, d) ==
  LET t == Reopened([s EXCEPT !.doc[d].status = "archived"])
  IN IF s.doc[d].primary \/ Candidate(s) = d THEN Normalized(t) ELSE t

(* Mutant: the document comes back as if it were just uploaded. *)
DocumentRestoredAsUploaded(s, d) == Reopened(Normalized([s EXCEPT !.doc[d].status = "uploaded"]))

DocumentRestored(s, d) == Reopened(Normalized([s EXCEPT !.doc[d].status = "needs_review"]))

(* Mutant: the documents of an archived repair stay as they are. *)
RepairArchivedAlone(s) == [s EXCEPT !.status = "archived", !.preliminary = FALSE]

RepairArchived(s) ==
  [s EXCEPT !.status = "archived", !.preliminary = FALSE, !.source = NoDocument,
            !.doc = [d \in Documents |-> IF d \in Present(s)
                       THEN [s.doc[d] EXCEPT !.status = "archived", !.primary = FALSE]
                       ELSE s.doc[d]]]

RepairRestored(s) ==
  Normalized([s EXCEPT !.status = "in_review", !.preliminary = TRUE,
                       !.doc = [d \in Documents |-> IF s.doc[d].status = "archived"
                                  THEN [s.doc[d] EXCEPT !.status = "needs_review"]
                                  ELSE s.doc[d]]])

(* The three review actions. *)
EmployeeConfirmed(s, d) ==
  [s EXCEPT !.doc[d].status = "confirmed", !.status = "employee_confirmed", !.preliminary = TRUE]
Confirmed(s, d) ==
  [s EXCEPT !.doc[d].status = "confirmed", !.status = "confirmed", !.preliminary = FALSE]
SentToReview(s, d) ==
  [s EXCEPT !.doc[d].status = "needs_review", !.status = "in_review", !.preliminary = TRUE]

(* What OCR made of a document: how many fields, which findings, what of    *)
(* the repair it filled in.  Without any field a PDF is an OCR error and an *)
(* image needs a review, and the service is not found.                      *)
Outcome == [fields : Recognitions, found : SUBSET Findings,
            header : BOOLEAN, service : BOOLEAN, linked : BOOLEAN]
Outcomes == {o \in Outcome : o.fields \in {"none_pdf", "none_image"} =>
                               /\ ~o.header /\ ~o.service /\ ~o.linked
                               /\ o.found \cap {"service"} = Findings \cap {"service"}}

OcrFinished(s, d, o) ==
  [s EXCEPT
    !.jobs = @ \ {d},
    !.doc[d].queued = FALSE,
    !.doc[d].status = CASE o.fields = "most" -> "recognized"
                        [] o.fields = "some" -> "partially_recognized"
                        [] o.fields = "none_pdf" -> "ocr_error"
                        [] o.fields = "none_image" -> "needs_review",
    !.checks = [c \in Findings |-> IF c \in o.found THEN "open" ELSE "none"],
    !.header = o.header,
    !.service = @ \/ o.service,
    !.linked = @ \/ o.linked,
    !.preliminary = TRUE,
    !.status = IF o.fields \in {"none_pdf", "none_image"} THEN "ocr_error"
               ELSE IF "blocking" \in o.found THEN "suspicious" ELSE "in_review"]

(* An attachment is stored without OCR. *)
StoredOnly(s, d) ==
  [s EXCEPT !.jobs = @ \ {d}, !.doc[d].status = "confirmed", !.doc[d].queued = FALSE]

OcrFailed(s, d) ==
  [s EXCEPT !.jobs = @ \ {d}, !.doc[d].status = "ocr_error", !.doc[d].queued = FALSE,
            !.status = "ocr_error", !.checks = [c \in Findings |-> IF c = "blocking" THEN "open" ELSE "none"]]

-----------------------------------------------------------------------------
(* When the handlers answer with an error instead. *)

CanRestoreDocument(s, d) == d \in Present(s) \ Live(s) /\ Operational(s)

CanConfirm(s, d) == InReviewQueue(s, d) /\ Complete(s) /\ Open(s) = {}

CanMakePrimary(s, d) == Usable(s, d) /\ s.doc[d].kind \in PrimaryKinds

-----------------------------------------------------------------------------
(* A repair starts as the draft of an uploaded document, or confirmed by    *)
(* the historical import, without any document.                             *)
DraftOf(kind, linked) ==
  [status |-> "draft", preliminary |-> TRUE, header |-> FALSE, service |-> FALSE,
   linked |-> linked, parentArchived |-> FALSE, source |-> 1,
   doc |-> [d \in Documents |-> IF d = 1 THEN [NewDocument(kind) EXCEPT !.primary = TRUE]
                                ELSE NoSuchDocument],
   checks |-> NoChecks, jobs |-> {1}]
Imported ==
  [status |-> "confirmed", preliminary |-> FALSE, header |-> TRUE, service |-> TRUE,
   linked |-> TRUE, parentArchived |-> FALSE, source |-> NoDocument,
   doc |-> [d \in Documents |-> NoSuchDocument], checks |-> NoChecks, jobs |-> {}]

Init ==
  /\ \/ \E kind \in UploadKinds \cap PrimaryKinds, linked \in BOOLEAN : db = DraftOf(kind, linked)
        /\ direct = FALSE
     \/ db = Imported /\ direct = TRUE
  /\ patched = {}

(* The endpoints of api/documents.py. *)
UploadToRepair(kind) ==
  /\ Operational(db)
  /\ \E d \in Documents \ Present(db) :
       /\ 1..(d - 1) \subseteq Present(db)
       /\ db' = Uploaded(db, d, kind)
  /\ UNCHANGED <<direct, patched>>

Process(d) ==
  /\ Usable(db, d)
  /\ db' = Rechecked(db, d)
  /\ patched' = IF db'.doc[d] # db.doc[d] THEN patched \ {d} ELSE patched
  /\ UNCHANGED direct

LinkVehicle(d) ==
  /\ Usable(db, d)
  /\ ~db.linked
  /\ db' = Rechecked([db EXCEPT !.linked = TRUE,
                                !.checks = [c \in Findings |->
                                  IF c = "vehicle" /\ db.checks[c] # "none" THEN "resolved"
                                  ELSE db.checks[c]]], d)
  /\ patched' = IF db'.doc[d] # db.doc[d] THEN patched \ {d} ELSE patched
  /\ UNCHANGED direct

UpdateDocument(d, status) ==
  /\ d \in Live(db)
  /\ status \notin {"archived", db.doc[d].status}
  /\ db' = [db EXCEPT !.doc[d].status = status]
  /\ patched' = patched \cup {d}
  /\ UNCHANGED direct

ArchiveDocument(d) ==
  /\ Usable(db, d)
  /\ db' = DocumentArchived(db, d)
  /\ patched' = patched \ {d}
  /\ UNCHANGED direct

RestoreDocument(d) ==
  /\ CanRestoreDocument(db, d)
  /\ db' = DocumentRestored(db, d)
  /\ UNCHANGED <<direct, patched>>

SetPrimary(d) ==
  /\ CanMakePrimary(db, d)
  /\ db' = PrimarySet(db, d)
  /\ UNCHANGED <<direct, patched>>

(* compare/review: d is compared with the source document; it becomes the   *)
(* primary document, or the source is assigned again.                       *)
ReviewComparison(d, makePrimary) ==
  /\ Usable(db, d)
  /\ Candidate(db) \notin {d, NoDocument}
  /\ makePrimary => db.doc[d].kind \in PrimaryKinds
  /\ db' = IF makePrimary THEN Reopened(WithPrimary(db, d)) ELSE WithPrimary(db, Candidate(db))
  /\ UNCHANGED <<direct, patched>>

(* The endpoints of api/repairs.py and of the review queue. *)
UpdateRepair(status, preliminary, header, service) ==
  /\ Operational(db)
  /\ status # "archived"
  /\ LET t == [db EXCEPT !.status = IF status = "as_is" THEN @ ELSE status,
                         !.preliminary = preliminary, !.header = header]
     IN db' = IF service = "as_is" THEN t ELSE WithService(t, service = "set")
  /\ direct' = TRUE
  /\ UNCHANGED patched

UpdateFields(header) ==
  /\ Operational(db)
  /\ db' = Refreshed([db EXCEPT !.header = header])
  /\ direct' = FALSE
  /\ UNCHANGED patched

UpdateService(on) ==
  /\ Operational(db)
  /\ db' = Refreshed(WithService(db, on))
  /\ direct' = FALSE
  /\ UNCHANGED patched

UpdateCheck(c, resolved) ==
  /\ Operational(db)
  /\ db.checks[c] # "none"
  /\ db' = Refreshed([db EXCEPT !.checks[c] = IF resolved THEN "resolved" ELSE "open"])
  /\ direct' = FALSE
  /\ UNCHANGED patched

ConfirmByEmployee(d) ==
  /\ CanConfirm(db, d)
  /\ db.status # "employee_confirmed"
  /\ db' = EmployeeConfirmed(db, d)
  /\ direct' = FALSE
  /\ patched' = patched \ {d}

ConfirmByAdmin(d) ==
  /\ CanConfirm(db, d)
  /\ db' = Confirmed(db, d)
  /\ direct' = FALSE
  /\ patched' = patched \ {d}

SendToReview(d) ==
  /\ InReviewQueue(db, d)
  /\ db' = SentToReview(db, d)
  /\ direct' = FALSE
  /\ patched' = patched \ {d}

ArchiveRepair ==
  /\ db.status # "archived"
  /\ db' = RepairArchived(db)
  /\ patched' = {}
  /\ UNCHANGED direct

RestoreRepair ==
  /\ db.status = "archived"
  /\ ~db.parentArchived
  /\ db' = RepairRestored(db)
  /\ direct' = FALSE
  /\ UNCHANGED patched

(* The vehicle or the service is archived, which its active repairs forbid, *)
(* or taken back.                                                           *)
ArchiveParent ==
  /\ db.status = "archived"
  /\ ~db.parentArchived
  /\ db' = [db EXCEPT !.parentArchived = TRUE]
  /\ UNCHANGED <<direct, patched>>

RestoreParent ==
  /\ db.parentArchived
  /\ db' = [db EXCEPT !.parentArchived = FALSE]
  /\ UNCHANGED <<direct, patched>>

(* A worker runs the job of d from its first query to its commit, and       *)
(* nobody else commits in between.                                          *)
RunRejected(d) ==
  /\ d \in db.jobs
  /\ ~Usable(db, d)
  /\ db' = [db EXCEPT !.jobs = @ \ {d}]
  /\ UNCHANGED <<direct, patched>>

(* Mutant: the worker does not look at the archive. *)
RunFailedUnchecked(d) ==
  /\ d \in db.jobs
  /\ db' = OcrFailed(db, d)
  /\ patched' = patched \ {d}
  /\ UNCHANGED direct

RunFailed(d) ==
  /\ d \in db.jobs
  /\ Usable(db, d)
  /\ db' = OcrFailed(db, d)
  /\ patched' = patched \ {d}
  /\ UNCHANGED direct

RunStored(d) ==
  /\ d \in db.jobs
  /\ Usable(db, d)
  /\ db.doc[d].kind \notin PrimaryKinds
  /\ db' = StoredOnly(db, d)
  /\ patched' = patched \ {d}
  /\ UNCHANGED direct

RunFinished(d) ==
  /\ d \in db.jobs
  /\ Usable(db, d)
  /\ db.doc[d].kind \in PrimaryKinds
  /\ \E o \in Outcomes : db' = OcrFinished(db, d, o)
  /\ direct' = FALSE
  /\ patched' = patched \ {d}

(* The requests of the users, one document or one field at a time. *)
DocumentRequest(d) ==
  \/ Process(d) \/ LinkVehicle(d) \/ ArchiveDocument(d) \/ RestoreDocument(d) \/ SetPrimary(d)
  \/ \E makePrimary \in BOOLEAN : ReviewComparison(d, makePrimary)
  \/ \E status \in PatchStatuses : UpdateDocument(d, status)
  \/ ConfirmByEmployee(d) \/ ConfirmByAdmin(d) \/ SendToReview(d)

RepairRequest ==
  \/ \E kind \in UploadKinds : UploadToRepair(kind)
  \/ \E status \in EditStatuses, preliminary, header \in BOOLEAN,
        service \in {"as_is", "set", "cleared"} :
       UpdateRepair(status, preliminary, header, service)
  \/ \E header \in BOOLEAN : UpdateFields(header)
  \/ \E on \in BOOLEAN : UpdateService(on)
  \/ \E c \in Findings, resolved \in BOOLEAN : UpdateCheck(c, resolved)
  \/ ArchiveRepair \/ RestoreRepair \/ ArchiveParent \/ RestoreParent

WorkerRun(d) == RunRejected(d) \/ RunFailed(d) \/ RunStored(d) \/ RunFinished(d)

Next == RepairRequest \/ \E d \in Documents : DocumentRequest(d) \/ WorkerRun(d)

Spec == Init /\ [][Next]_vars

-----------------------------------------------------------------------------
Aligned(s) ==
  /\ \A d \in Documents : s.doc[d].primary <=> s.source = d
  /\ s.source # NoDocument => s.source \in Eligible(s)
  /\ s.source = NoDocument => Eligible(s) = {}

(* The primary document of the repair is one row and one pointer, they      *)
(* agree, and a repair with an eligible document has one                    *)
(* (repair_relations.py, kept by every handler that touches documents).     *)
PrimaryAligned == Aligned(db)

(* Below an archived repair nothing is live, and only below an archived     *)
(* repair can the vehicle or service be archived (archive_repair_state,     *)
(* ensure_vehicle_can_be_archived).                                         *)
ArchiveIsClosed ==
  /\ db.status = "archived" => Live(db) = {} /\ db.source = NoDocument /\ ~db.preliminary
  /\ db.parentArchived => db.status = "archived"

(* A repair the review workflow has confirmed is complete and has no open   *)
(* finding, whatever OCR results, edits and documents came in between.      *)
ConfirmedIsComplete ==
  ~direct /\ db.status \in {"employee_confirmed", "confirmed"} => Complete(db) /\ Open(db) = {}

(* A repair is final only by the administrator's confirmation; the failure  *)
(* of a run can leave an OCR error on a repair that was final.              *)
PreliminaryUntilConfirmed ==
  ~direct /\ ~db.preliminary => db.status \in {"confirmed", "ocr_error", "archived"}

(* There is a next step in the review of every open repair whose documents  *)
(* have been processed: the queue shows one of them.                        *)
NoDeadEnd ==
  /\ ~direct /\ patched = {} /\ Operational(db) /\ db.status # "confirmed"
  /\ Eligible(db) # {} /\ \A d \in Eligible(db) : db.doc[d].status # "uploaded"
  => \E d \in Eligible(db) : InReviewQueue(db, d)

(* What the confirmation of a repair was given for. *)
Composition(s) == <<Live(s), s.source>>

(* A change of the live documents, or of the primary one, takes a confirmed *)
(* repair back to review (reopen_repair_review_workflow and its callers).   *)
DocumentsReopen ==
  [][db.status \in {"employee_confirmed", "confirmed"} /\ Composition(db') # Composition(db)
     => db'.status \in {"in_review", "archived"}]_vars
=============================================================================
