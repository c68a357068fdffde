------------------------- MODULE RepairReviewProofs -------------------------
(***************************************************************************)
(* Proofs about RepairReview, for any number of documents and any choice   *)
(* of kinds, findings, outcomes and edits: the rows are well typed, the    *)
(* primary document is aligned, the archive is closed and left only by a   *)
(* restore, a confirmation stands for a complete repair and for the        *)
(* documents it was given for, a waiting document has its job, and no open *)
(* repair is missing from the queue.  At the end, proofs about             *)
(* ReviewSessions: what escapes through a slow transaction that writes on  *)
(* stale rows, and that one that does not is a handler that runs at once.  *)
(***************************************************************************)
EXTENDS ReviewSessions, TLAPS, WellFoundedInduction

(* The latest of some documents is one of them. *)
LEMMA NewestIsMember ==
  ASSUME NEW S, S \subseteq Documents, S # {}
  PROVE  Newest(S) \in S
PROOF
<1> DEFINE T == {MaxDocuments - d : d \in S}
<1>1. MaxDocuments \in Nat /\ \A d \in S : d \in Nat /\ MaxDocuments - d \in Nat
  BY MaxDocumentsAssumption DEF Documents
<1>2. T \subseteq Nat /\ T # {}
  BY <1>1
<1>3. PICK t \in T : \A u \in T : ~(<<u, t>> \in OpToRel(<, Nat))
  <2> HIDE DEF T
  <2> QED BY <1>2, NatLessThanWellFounded, WFMin
<1>4. \A u \in T : ~(u < t)
  BY <1>2, <1>3 DEF OpToRel
<1>5. PICK d \in S : t = MaxDocuments - d
  OBVIOUS
<1>6. \A e \in S : e <= d
  BY <1>1, <1>4, <1>5
<1> QED BY <1>6 DEF Newest

LEMMA CandidateIsEligible ==
  ASSUME NEW s \in Database
  PROVE  /\ Candidate(s) \in Eligible(s) \cup {NoDocument}
         /\ Candidate(s) = NoDocument => Eligible(s) = {}
         /\ Candidate(s) \in Documents \cup {NoDocument}
PROOF
<1>1. Eligible(s) \subseteq Documents /\ PrimaryOf(s) \subseteq Eligible(s)
  BY DEF Eligible, PrimaryOf, Live, Present
<1>2. NoDocument \notin Documents
  BY MaxDocumentsAssumption DEF NoDocument, Documents
<1>3. Eligible(s) # {} => Newest(Eligible(s)) \in Eligible(s)
  BY <1>1, NewestIsMember
<1>4. PrimaryOf(s) # {} => Newest(PrimaryOf(s)) \in PrimaryOf(s)
  BY <1>1, NewestIsMember
<1> QED BY <1>1, <1>2, <1>3, <1>4 DEF Candidate

-----------------------------------------------------------------------------
(* Types of the operations. *)

LEMMA RowsType ==
  ASSUME NEW s \in Database, NEW d \in Documents
  PROVE  /\ s.doc \in [Documents -> Document]
         /\ s.doc[d] \in Document
         /\ \A b \in BOOLEAN : [s.doc[d] EXCEPT !.primary = b] \in Document
         /\ \A st \in DocumentStatuses :
              /\ [s.doc[d] EXCEPT !.status = st] \in Document
              /\ \A b \in BOOLEAN :
                   /\ [s.doc[d] EXCEPT !.status = st, !.primary = b] \in Document
                   /\ [s.doc[d] EXCEPT !.status = st, !.queued = b] \in Document
PROOF
<1>1. s.doc \in [Documents -> Document]
  BY DEF Database
<1>2. s.doc[d] \in Document
  BY <1>1
<1> QED BY <1>1, <1>2 DEF Document

LEMMA WithRows ==
  ASSUME NEW s \in Database, NEW rows \in [Documents -> Document]
  PROVE  [s EXCEPT !.doc = rows] \in Database
BY DEF Database

LEMMA WithPrimaryType ==
  ASSUME NEW s \in Database, NEW t \in Documents \cup {NoDocument}
  PROVE  WithPrimary(s, t) \in Database
PROOF
<1> DEFINE rows == [d \in Documents |-> [s.doc[d] EXCEPT !.primary = (t # NoDocument /\ d = t)]]
<1>1. ASSUME NEW d \in Documents
      PROVE  [s.doc[d] EXCEPT !.primary = (t # NoDocument /\ d = t)] \in Document
  BY <1>1, RowsType
<1>2. rows \in [Documents -> Document]
  BY <1>1
<1> HIDE DEF rows
<1>3. [s EXCEPT !.source = t, !.doc = rows] \in Database
  BY <1>2 DEF Database
<1> QED BY <1>3 DEF WithPrimary, rows

LEMMA NormalizedType ==
  ASSUME NEW s \in Database
  PROVE  Normalized(s) \in Database
BY WithPrimaryType, CandidateIsEligible DEF Normalized

LEMMA ReopenedType ==
  ASSUME NEW s \in Database
  PROVE  Reopened(s) \in Database
BY DEF Reopened, Database, RepairStatuses

LEMMA RefreshedType ==
  ASSUME NEW s \in Database
  PROVE  Refreshed(s) \in Database
BY DEF Refreshed, Database, RepairStatuses

LEMMA WithServiceType ==
  ASSUME NEW s \in Database, NEW on \in BOOLEAN
  PROVE  WithService(s, on) \in Database
BY DEF WithService, Database

LEMMA DocumentSet ==
  ASSUME NEW s \in Database, NEW d \in Documents, NEW status \in DocumentStatuses, NEW queued \in BOOLEAN
  PROVE  /\ [s EXCEPT !.doc[d].status = status] \in Database
         /\ [s EXCEPT !.doc[d].status = status, !.doc[d].queued = queued] \in Database
PROOF
<1>1. [s.doc EXCEPT ![d] = [s.doc[d] EXCEPT !.status = status]] \in [Documents -> Document]
  BY RowsType
<1>2. [s.doc EXCEPT ![d] = [s.doc[d] EXCEPT !.status = status, !.queued = queued]]
        \in [Documents -> Document]
  BY RowsType
<1>3. [s EXCEPT !.doc[d].status = status] \in Database
  BY <1>1, WithRows
<1>4. [s EXCEPT !.doc[d].status = status, !.doc[d].queued = queued]
        = [s EXCEPT !.doc = [s.doc EXCEPT ![d] = [s.doc[d] EXCEPT !.status = status, !.queued = queued]]]
  BY RowsType DEF Database
<1> QED BY <1>2, <1>3, <1>4, WithRows

LEMMA RecheckedType ==
  ASSUME NEW s \in Database, NEW d \in Documents
  PROVE  Rechecked(s, d) \in Database
PROOF
<1> DEFINE t == [s EXCEPT !.jobs = @ \cup {d}]
<1>1. t \in Database
  BY DEF Database
<1>2. Reopened(t) \in Database
  BY <1>1, ReopenedType
<1>3. [Reopened(t) EXCEPT !.doc[d].status = "uploaded", !.doc[d].queued = TRUE] \in Database
  BY <1>2, DocumentSet DEF DocumentStatuses
<1> QED BY <1>1, <1>3 DEF Rechecked

LEMMA UploadedType ==
  ASSUME NEW s \in Database, NEW d \in Documents, NEW kind \in UploadKinds
  PROVE  Uploaded(s, d, kind) \in Database
PROOF
<1> DEFINE t == [Reopened(s) EXCEPT !.doc[d] = NewDocument(kind), !.jobs = @ \cup {d}]
<1>1. NewDocument(kind) \in Document
  BY DEF NewDocument, Document, DocumentStatuses
<1>2. t \in Database
  BY <1>1, ReopenedType DEF Database
<1> HIDE DEF t
<1>3. Normalized(t) \in Database
  BY <1>2, NormalizedType
<1> QED BY <1>3 DEF Uploaded, t

LEMMA DocumentArchivedType ==
  ASSUME NEW s \in Database, NEW d \in Documents
  PROVE  DocumentArchived(s, d) \in Database
PROOF
<1> DEFINE t == Reopened([s EXCEPT !.doc[d].status = "archived"])
<1>1. t \in Database
  BY DocumentSet, ReopenedType DEF DocumentStatuses
<1> HIDE DEF t
<1>2. Normalized(t) \in Database
  BY <1>1, NormalizedType
<1> QED BY <1>1, <1>2 DEF DocumentArchived, t

LEMMA DocumentRestoredType ==
  ASSUME NEW s \in Database, NEW d \in Documents
  PROVE  DocumentRestored(s, d) \in Database
BY DocumentSet, NormalizedType, ReopenedType DEF DocumentRestored, DocumentStatuses

LEMMA RepairArchivedType ==
  ASSUME NEW s \in Database
  PROVE  RepairArchived(s) \in Database
PROOF
<1> DEFINE rows == [d \in Documents |-> IF d \in Present(s)
                      THEN [s.doc[d] EXCEPT !.status = "archived", !.primary = FALSE]
                      ELSE s.doc[d]]
<1>1. ASSUME NEW d \in Documents
      PROVE  [s.doc[d] EXCEPT !.status = "archived", !.primary = FALSE] \in Document
  BY <1>1, RowsType DEF DocumentStatuses
<1>2. rows \in [Documents -> Document]
  BY <1>1, RowsType
<1> HIDE DEF rows
<1>3. [s EXCEPT !.status = "archived", !.preliminary = FALSE, !.source = NoDocument, !.doc = rows]
        \in Database
  BY <1>2 DEF Database, RepairStatuses
<1> QED BY <1>3 DEF RepairArchived, rows

LEMMA RepairRestoredType ==
  ASSUME NEW s \in Database
  PROVE  RepairRestored(s) \in Database
PROOF
<1> DEFINE t == [s EXCEPT !.status = "in_review", !.preliminary = TRUE,
                          !.doc = [d \in Documents |-> IF s.doc[d].status = "archived"
                                     THEN [s.doc[d] EXCEPT !.status = "needs_review"]
                                     ELSE s.doc[d]]]
<1>1. t \in Database
  BY DEF Database, Document, DocumentStatuses, RepairStatuses
<1> HIDE DEF t
<1>2. Normalized(t) \in Database
  BY <1>1, NormalizedType
<1> QED BY <1>2 DEF RepairRestored, t

LEMMA ReviewedType ==
  ASSUME NEW s \in Database, NEW d \in Documents
  PROVE  /\ EmployeeConfirmed(s, d) \in Database
         /\ Confirmed(s, d) \in Database
         /\ SentToReview(s, d) \in Database
PROOF
<1> DEFINE t(status) == [s EXCEPT !.doc[d].status = status]
<1>1. t("confirmed") \in Database /\ t("needs_review") \in Database
  BY DocumentSet DEF DocumentStatuses
<1> HIDE DEF t
<1>2. ASSUME NEW u \in Database, NEW st \in RepairStatuses, NEW p \in BOOLEAN
      PROVE  [u EXCEPT !.status = st, !.preliminary = p] \in Database
  BY <1>2 DEF Database
<1>3. /\ [t("confirmed") EXCEPT !.status = "employee_confirmed", !.preliminary = TRUE] \in Database
      /\ [t("confirmed") EXCEPT !.status = "confirmed", !.preliminary = FALSE] \in Database
      /\ [t("needs_review") EXCEPT !.status = "in_review", !.preliminary = TRUE] \in Database
  BY <1>1, <1>2 DEF RepairStatuses
<1> QED BY <1>3 DEF EmployeeConfirmed, Confirmed, SentToReview, t

(* What a run leaves of the document's row, and of its jobs. *)
LEMMA RunRow ==
  ASSUME NEW s \in Database, NEW d \in Documents, NEW status \in DocumentStatuses
  PROVE  [s EXCEPT !.jobs = @ \ {d}, !.doc[d].queued = FALSE, !.doc[d].status = status] \in Database
PROOF
<1>1. [s EXCEPT !.jobs = @ \ {d}] \in Database
  BY DEF Database
<1>2. ASSUME NEW t \in Database
      PROVE  [t EXCEPT !.doc[d].queued = FALSE] \in Database
  <2>1. [t.doc EXCEPT ![d] = [t.doc[d] EXCEPT !.queued = FALSE]] \in [Documents -> Document]
    <3>1. t.doc[d] \in Document /\ t.doc \in [Documents -> Document]
      BY RowsType
    <3>2. [t.doc[d] EXCEPT !.queued = FALSE] \in Document
      BY <3>1 DEF Document
    <3> QED BY <3>1, <3>2
  <2> QED BY <2>1, WithRows
<1> DEFINE u == [s EXCEPT !.jobs = @ \ {d}]
<1>3. [u EXCEPT !.doc[d].queued = FALSE] \in Database
  BY <1>1, <1>2
<1>4. [[u EXCEPT !.doc[d].queued = FALSE] EXCEPT !.doc[d].status = status] \in Database
  BY <1>3, DocumentSet
<1> QED BY <1>4

LEMMA RunTypes ==
  ASSUME NEW s \in Database, NEW d \in Documents
  PROVE  /\ StoredOnly(s, d) \in Database
         /\ OcrFailed(s, d) \in Database
         /\ \A o \in Outcomes : OcrFinished(s, d, o) \in Database
PROOF
<1> DEFINE t(status) == [s EXCEPT !.jobs = @ \ {d}, !.doc[d].queued = FALSE, !.doc[d].status = status]
           r(status) == [s EXCEPT !.jobs = @ \ {d}, !.doc[d].status = status, !.doc[d].queued = FALSE]
<1>1. ASSUME NEW status \in DocumentStatuses
      PROVE  t(status) \in Database /\ r(status) = t(status)
  <2>1. t(status) \in Database
    BY RunRow
  <2>2. s.doc[d] \in Document /\ s.doc \in [Documents -> Document]
    BY RowsType
  <2>3. [[s.doc[d] EXCEPT !.status = status] EXCEPT !.queued = FALSE]
          = [[s.doc[d] EXCEPT !.queued = FALSE] EXCEPT !.status = status]
    BY <2>2 DEF Document
  <2>4. r(status) = t(status)
    BY <2>2, <2>3 DEF Database
  <2> QED BY <2>1, <2>4
<1> HIDE DEF t, r
<1>2. StoredOnly(s, d) \in Database
  <2>1. r("confirmed") \in Database
    BY <1>1 DEF DocumentStatuses
  <2> QED BY <2>1 DEF StoredOnly, r
<1>3. OcrFailed(s, d) \in Database
  <2>1. r("ocr_error") \in Database
    BY <1>1 DEF DocumentStatuses
  <2>2. [r("ocr_error") EXCEPT !.status = "ocr_error",
           !.checks = [c \in Findings |-> IF c = "blocking" THEN "open" ELSE "none"]] \in Database
    BY <2>1 DEF Database, RepairStatuses
  <2> QED BY <2>2 DEF OcrFailed, r
<1>4. ASSUME NEW o \in Outcomes PROVE OcrFinished(s, d, o) \in Database
  <2> DEFINE status == CASE o.fields = "most" -> "recognized"
                         [] o.fields = "some" -> "partially_recognized"
                         [] o.fields = "none_pdf" -> "ocr_error"
                         [] o.fields = "none_image" -> "needs_review"
  <2>1. /\ o.fields \in {"most", "some", "none_pdf", "none_image"}
        /\ o.header \in BOOLEAN /\ o.service \in BOOLEAN /\ o.linked \in BOOLEAN
    BY <1>4, RecognitionsAssumption DEF Outcomes, Outcome
  <2>2. status \in DocumentStatuses
    BY <2>1 DEF DocumentStatuses
  <2> HIDE DEF status
  <2>3. t(status) \in Database
    BY <1>1, <2>2
  <2>4. (s.service \/ o.service) \in BOOLEAN /\ (s.linked \/ o.linked) \in BOOLEAN
    OBVIOUS
  <2>5. ASSUME NEW sv \in BOOLEAN, NEW ln \in BOOLEAN
        PROVE  [t(status) EXCEPT
                 !.checks = [c \in Findings |-> IF c \in o.found THEN "open" ELSE "none"],
                 !.header = o.header, !.service = sv, !.linked = ln, !.preliminary = TRUE,
                 !.status = IF o.fields \in {"none_pdf", "none_image"} THEN "ocr_error"
                            ELSE IF "blocking" \in o.found THEN "suspicious" ELSE "in_review"] \in Database
    BY <2>1, <2>3 DEF Database, RepairStatuses
  <2>6. [t(status) EXCEPT
          !.checks = [c \in Findings |-> IF c \in o.found THEN "open" ELSE "none"],
          !.header = o.header, !.service = s.service \/ o.service, !.linked = s.linked \/ o.linked,
          !.preliminary = TRUE,
          !.status = IF o.fields \in {"none_pdf", "none_image"} THEN "ocr_error"
                     ELSE IF "blocking" \in o.found THEN "suspicious" ELSE "in_review"] \in Database
    BY <2>4, <2>5
  <2> QED BY <2>6 DEF OcrFinished, t, status
<1> QED BY <1>2, <1>3, <1>4

LEMMA VehicleLinkedType ==
  ASSUME NEW s \in Database
  PROVE  [s EXCEPT !.linked = TRUE,
                   !.checks = [c \in Findings |->
                     IF c = "vehicle" /\ s.checks[c] # "none" THEN "resolved" ELSE s.checks[c]]] \in Database
BY DEF Database

LEMMA InitType ==
  ASSUME Init
  PROVE  TypeOK
PROOF
<1>1. NoSuchDocument \in Document
  BY DEF NoSuchDocument, Document
<1>2. \A kind \in UploadKinds : [NewDocument(kind) EXCEPT !.primary = TRUE] \in Document
  BY DEF NewDocument, Document, DocumentStatuses
<1>3. 1 \in Documents /\ NoChecks \in [Findings -> {"none", "open", "resolved"}]
  BY MaxDocumentsAssumption DEF Documents, NoChecks
<1>4. Imported \in Database
  BY <1>1, <1>3 DEF Imported, Database, RepairStatuses
<1>5. ASSUME NEW kind \in UploadKinds, NEW linked \in BOOLEAN
      PROVE  DraftOf(kind, linked) \in Database
  <2> DEFINE first == [NewDocument(kind) EXCEPT !.primary = TRUE]
  <2>1. first \in Document
    BY <1>2
  <2> HIDE DEF first
  <2>2. [d \in Documents |-> IF d = 1 THEN first ELSE NoSuchDocument] \in [Documents -> Document]
    BY <1>1, <2>1
  <2> QED BY <1>3, <2>2 DEF DraftOf, Database, RepairStatuses, first
<1> QED BY <1>4, <1>5 DEF Init, TypeOK

-----------------------------------------------------------------------------
(* A step of the system is one of these. *)
LEMMA NextSteps ==
  ASSUME Next
  PROVE  \/ \E kind \in UploadKinds : UploadToRepair(kind)
         \/ \E status \in EditStatuses, preliminary, header \in BOOLEAN,
               service \in {"as_is", "set", "cleared"} :
              UpdateRepair(status, preliminary, header, service)
         \/ \E on \in BOOLEAN : UpdateFields(on) \/ UpdateService(on)
         \/ \E c \in Findings, resolved \in BOOLEAN : UpdateCheck(c, resolved)
         \/ ArchiveRepair \/ RestoreRepair \/ ArchiveParent \/ RestoreParent
         \/ \E d \in Documents :
              \/ Process(d) \/ LinkVehicle(d) \/ ArchiveDocument(d) \/ RestoreDocument(d)
              \/ SetPrimary(d) \/ ReviewComparison(d, TRUE) \/ ReviewComparison(d, FALSE)
              \/ \E status \in PatchStatuses : UpdateDocument(d, status)
              \/ ConfirmByEmployee(d) \/ ConfirmByAdmin(d) \/ SendToReview(d)
              \/ RunRejected(d) \/ RunFailed(d) \/ RunStored(d) \/ RunFinished(d)
BY DEF Next, RepairRequest, DocumentRequest, WorkerRun

LEMMA TypeStep ==
  ASSUME TypeOK, [Next]_vars
  PROVE  TypeOK'
PROOF
<1> USE DEF TypeOK
<1>0. CASE UNCHANGED vars
  BY <1>0 DEF vars
<1>1. ASSUME NEW kind \in UploadKinds, UploadToRepair(kind) PROVE TypeOK'
  BY <1>1, UploadedType DEF UploadToRepair
<1>2. ASSUME NEW status \in EditStatuses, NEW preliminary \in BOOLEAN, NEW header \in BOOLEAN,
             NEW service \in {"as_is", "set", "cleared"},
             UpdateRepair(status, preliminary, header, service)
      PROVE  TypeOK'
  <2> DEFINE t == [db EXCEPT !.status = IF status = "as_is" THEN @ ELSE status,
                             !.preliminary = preliminary, !.header = header]
  <2>1. t \in Database
    BY EditAssumption DEF Database
  <2>2. WithService(t, service = "set") \in Database
    BY <2>1, WithServiceType
  <2> HIDE DEF t
  <2>3. db' = t \/ db' = WithService(t, service = "set")
    BY <1>2 DEF UpdateRepair, t
  <2> QED BY <1>2, <2>1, <2>2, <2>3 DEF UpdateRepair
<1>3. ASSUME NEW on \in BOOLEAN, UpdateFields(on) \/ UpdateService(on) PROVE TypeOK'
  <2>1. [db EXCEPT !.header = on] \in Database
    BY DEF Database
  <2> QED BY <1>3, <2>1, WithServiceType, RefreshedType DEF UpdateFields, UpdateService
<1>4. ASSUME NEW c \in Findings, NEW resolved \in BOOLEAN, UpdateCheck(c, resolved) PROVE TypeOK'
  <2>1. [db EXCEPT !.checks[c] = IF resolved THEN "resolved" ELSE "open"] \in Database
    BY DEF Database
  <2> QED BY <1>4, <2>1, RefreshedType DEF UpdateCheck
<1>5. CASE ArchiveRepair
  BY <1>5, RepairArchivedType DEF ArchiveRepair
<1>6. CASE RestoreRepair
  BY <1>6, RepairRestoredType DEF RestoreRepair
<1>7. CASE ArchiveParent \/ RestoreParent
  BY <1>7 DEF ArchiveParent, RestoreParent, Database
<1>8. ASSUME NEW d \in Documents, Process(d) PROVE TypeOK'
  BY <1>8, RecheckedType DEF Process
<1>9. ASSUME NEW d \in Documents, LinkVehicle(d) PROVE TypeOK'
  BY <1>9, VehicleLinkedType, RecheckedType DEF LinkVehicle
<1>10. ASSUME NEW d \in Documents, ArchiveDocument(d) \/ RestoreDocument(d) PROVE TypeOK'
  BY <1>10, DocumentArchivedType, DocumentRestoredType DEF ArchiveDocument, RestoreDocument
<1>11. ASSUME NEW d \in Documents, SetPrimary(d) \/ ReviewComparison(d, TRUE) \/ ReviewComparison(d, FALSE)
       PROVE  TypeOK'
  <2>1. WithPrimary(db, d) \in Database /\ WithPrimary(db, Candidate(db)) \in Database
    BY CandidateIsEligible, WithPrimaryType
  <2> QED BY <1>11, <2>1, ReopenedType DEF SetPrimary, PrimarySet, ReviewComparison
<1>12. ASSUME NEW d \in Documents, NEW status \in PatchStatuses, UpdateDocument(d, status)
       PROVE  TypeOK'
  BY <1>12, EditAssumption, DocumentSet DEF UpdateDocument
<1>13. ASSUME NEW d \in Documents, ConfirmByEmployee(d) \/ ConfirmByAdmin(d) \/ SendToReview(d)
       PROVE  TypeOK'
  BY <1>13, ReviewedType DEF ConfirmByEmployee, ConfirmByAdmin, SendToReview
<1>14. ASSUME NEW d \in Documents, RunRejected(d) \/ RunFailed(d) \/ RunStored(d) \/ RunFinished(d)
       PROVE  TypeOK'
  <2>1. [db EXCEPT !.jobs = @ \ {d}] \in Database
    BY DEF Database
  <2> QED BY <1>14, <2>1, RunTypes DEF RunRejected, RunFailed, RunStored, RunFinished
<1> HIDE DEF TypeOK
<1> QED BY <1>0, <1>1, <1>2, <1>3, <1>4, <1>5, <1>6, <1>7, <1>8, <1>9, <1>10, <1>11, <1>12, <1>13,
           <1>14, NextSteps

(* The rows are well typed in every reachable state. *)
THEOREM TypeCorrect == Spec => []TypeOK
BY InitType, TypeStep, PTL DEF Spec

-----------------------------------------------------------------------------
(* The primary document. *)

(* Between the two states no document entered or left the eligible ones,    *)
(* and the pointer and the flags stayed.                                    *)
SamePrimary(s, t) ==
  /\ t.source = s.source
  /\ \A d \in Documents :
       /\ t.doc[d].primary = s.doc[d].primary
       /\ t.doc[d].kind = s.doc[d].kind
       /\ t.doc[d].status \in {"absent", "archived"} <=> s.doc[d].status \in {"absent", "archived"}

LEMMA SamePrimaryAligned ==
  ASSUME NEW s, NEW t, SamePrimary(s, t), Aligned(s)
  PROVE  Aligned(t)
PROOF
<1>1. Eligible(t) = Eligible(s)
  BY DEF SamePrimary, Eligible, Live, Present
<1> QED BY <1>1 DEF SamePrimary, Aligned

LEMMA WithPrimaryAligned ==
  ASSUME NEW s \in Database, NEW t \in Documents \cup {NoDocument},
         t \in Eligible(s) \/ (t = NoDocument /\ Eligible(s) = {})
  PROVE  Aligned(WithPrimary(s, t))
PROOF
<1> DEFINE u == WithPrimary(s, t)
<1>1. u.source = t
  BY DEF WithPrimary, Database
<1>2. ASSUME NEW d \in Documents
      PROVE  /\ u.doc[d].primary = (t # NoDocument /\ d = t)
             /\ u.doc[d].kind = s.doc[d].kind
             /\ u.doc[d].status = s.doc[d].status
  <2>1. u.doc[d] = [s.doc[d] EXCEPT !.primary = (t # NoDocument /\ d = t)]
    BY <1>2 DEF WithPrimary, Database
  <2>2. s.doc[d] \in Document
    BY RowsType
  <2> QED BY <2>1, <2>2 DEF Document
<1> HIDE DEF u
<1>3. Eligible(u) = Eligible(s)
  BY <1>2 DEF Eligible, Live, Present
<1>4. NoDocument \notin Documents
  BY MaxDocumentsAssumption DEF NoDocument, Documents
<1>5. \A d \in Documents : u.doc[d].primary <=> u.source = d
  BY <1>1, <1>2, <1>4
<1>6. NoDocument \notin Eligible(s)
  BY <1>4 DEF Eligible, Live, Present
<1>7. Aligned(u)
  BY <1>1, <1>3, <1>5, <1>6 DEF Aligned
<1> QED BY <1>7 DEF u

LEMMA NormalizedAligned ==
  ASSUME NEW s \in Database
  PROVE  Aligned(Normalized(s))
BY CandidateIsEligible, WithPrimaryAligned DEF Normalized

LEMMA ReopenedSame ==
  ASSUME NEW s \in Database
  PROVE  /\ SamePrimary(s, Reopened(s))
         /\ Reopened(s).doc = s.doc /\ Reopened(s).source = s.source
BY DEF SamePrimary, Reopened, Database

LEMMA ReopenedAligned ==
  ASSUME NEW s \in Database, Aligned(s)
  PROVE  Aligned(Reopened(s))
BY ReopenedSame, SamePrimaryAligned

(* A document that stays live gets another status. *)
LEMMA StatusSetSame ==
  ASSUME NEW s \in Database, NEW d \in Live(s), NEW t \in Database,
         NEW status \in DocumentStatuses \ {"archived"},
         t.source = s.source,
         \A e \in Documents : /\ t.doc[e].primary = s.doc[e].primary
                              /\ t.doc[e].kind = s.doc[e].kind
                              /\ t.doc[e].status = IF e = d THEN status ELSE s.doc[e].status
  PROVE  SamePrimary(s, t)
BY DEF SamePrimary, Live, Present, DocumentStatuses

LEMMA RecheckedAligned ==
  ASSUME NEW s \in Database, Aligned(s), NEW d \in Live(s)
  PROVE  Aligned(Rechecked(s, d))
PROOF
<1> DEFINE t == [s EXCEPT !.jobs = @ \cup {d}]
           u == [Reopened(t) EXCEPT !.doc[d].status = "uploaded", !.doc[d].queued = TRUE]
<1>1. d \in Documents
  BY DEF Live, Present
<1>2. t \in Database /\ t.doc = s.doc /\ t.source = s.source
  BY <1>1 DEF Database
<1>3. Aligned(t)
  BY <1>2, SamePrimaryAligned DEF SamePrimary
<1>4. Reopened(t) \in Database /\ Reopened(t).doc = s.doc /\ Reopened(t).source = s.source
  BY <1>2, ReopenedType, ReopenedSame
<1>5. u \in Database
  BY <1>1, <1>4, DocumentSet DEF DocumentStatuses
<1>6. u.source = s.source
  BY <1>4 DEF Database
<1>7. ASSUME NEW e \in Documents
      PROVE  /\ u.doc[e].primary = s.doc[e].primary
             /\ u.doc[e].kind = s.doc[e].kind
             /\ u.doc[e].status = IF e = d THEN "uploaded" ELSE s.doc[e].status
  <2>1. s.doc[e] \in Document /\ s.doc \in [Documents -> Document]
    BY RowsType
  <2>2. u.doc[e] = IF e = d THEN [s.doc[d] EXCEPT !.status = "uploaded", !.queued = TRUE] ELSE s.doc[e]
    BY <1>1, <1>4, <2>1 DEF Database
  <2>3. CASE e = d
    <3>1. u.doc[e] = [s.doc[d] EXCEPT !.status = "uploaded", !.queued = TRUE]
      BY <2>2, <2>3
    <3> HIDE DEF u
    <3> QED BY <2>1, <2>3, <3>1 DEF Document
  <2>4. CASE e # d
    BY <2>2, <2>4
  <2> QED BY <2>3, <2>4
<1> HIDE DEF t, u
<1>8. SamePrimary(s, u)
  BY <1>5, <1>6, <1>7, StatusSetSame DEF DocumentStatuses
<1>9. Aligned(u)
  BY <1>8, SamePrimaryAligned
<1>10. Rechecked(s, d) \in {t, u}
  BY DEF Rechecked, t, u
<1> QED BY <1>3, <1>9, <1>10

LEMMA ReviewedAligned ==
  ASSUME NEW s \in Database, Aligned(s), NEW d \in Live(s)
  PROVE  /\ Aligned(EmployeeConfirmed(s, d))
         /\ Aligned(Confirmed(s, d))
         /\ Aligned(SentToReview(s, d))
PROOF
<1>1. d \in Documents
  BY DEF Live, Present
<1>2. ASSUME NEW status \in {"confirmed", "needs_review"}, NEW rs, NEW p
      PROVE  Aligned([s EXCEPT !.doc[d].status = status, !.status = rs, !.preliminary = p])
  <2> DEFINE u == [s EXCEPT !.doc[d].status = status, !.status = rs, !.preliminary = p]
  <2>1. u.source = s.source
    BY DEF Database
  <2>2. ASSUME NEW e \in Documents
        PROVE  /\ u.doc[e].primary = s.doc[e].primary
               /\ u.doc[e].kind = s.doc[e].kind
               /\ u.doc[e].status = IF e = d THEN status ELSE s.doc[e].status
    <3>1. s.doc[e] \in Document /\ s.doc \in [Documents -> Document]
      BY RowsType
    <3>2. u.doc[e] = IF e = d THEN [s.doc[d] EXCEPT !.status = status] ELSE s.doc[e]
      BY <1>1, <3>1 DEF Database
    <3> QED BY <3>1, <3>2 DEF Document
  <2> HIDE DEF u
  <2>3. SamePrimary(s, u)
    BY <1>2, <2>1, <2>2 DEF SamePrimary, Live, Present
  <2>4. Aligned(u)
    BY <2>3, SamePrimaryAligned
  <2> QED BY <2>4 DEF u
<1> QED BY <1>2 DEF EmployeeConfirmed, Confirmed, SentToReview

LEMMA RunAligned ==
  ASSUME NEW s \in Database, Aligned(s), NEW d \in Live(s)
  PROVE  /\ Aligned(StoredOnly(s, d))
         /\ Aligned(OcrFailed(s, d))
         /\ \A o \in Outcomes : Aligned(OcrFinished(s, d, o))
PROOF
<1>1. d \in Documents
  BY DEF Live, Present
<1>2. ASSUME NEW t, NEW status \in DocumentStatuses \ {"archived"}, NEW row \in Document,
             t.source = s.source, t.doc = [s.doc EXCEPT ![d] = row],
             row.status = status, row.kind = s.doc[d].kind, row.primary = s.doc[d].primary
      PROVE  Aligned(t)
  <2>1. ASSUME NEW e \in Documents
        PROVE  /\ t.doc[e].primary = s.doc[e].primary
               /\ t.doc[e].kind = s.doc[e].kind
               /\ t.doc[e].status = IF e = d THEN status ELSE s.doc[e].status
    <3>1. s.doc \in [Documents -> Document]
      BY RowsType
    <3> QED BY <1>1, <1>2, <3>1
  <2>2. SamePrimary(s, t)
    BY <1>2, <2>1 DEF SamePrimary, Live, Present, DocumentStatuses
  <2> QED BY <2>2, SamePrimaryAligned
<1>3. s.doc[d] \in Document /\ s.doc \in [Documents -> Document]
  BY <1>1, RowsType
<1> DEFINE row(status) == [s.doc[d] EXCEPT !.status = status, !.queued = FALSE]
<1>4. ASSUME NEW status \in DocumentStatuses
      PROVE  /\ row(status) \in Document
             /\ row(status).status = status
             /\ row(status).kind = s.doc[d].kind
             /\ row(status).primary = s.doc[d].primary
             /\ row(status) = [[s.doc[d] EXCEPT !.queued = FALSE] EXCEPT !.status = status]
  BY <1>3 DEF Document
<1>5. Aligned(StoredOnly(s, d))
  <2>1. /\ StoredOnly(s, d).source = s.source
        /\ StoredOnly(s, d).doc = [s.doc EXCEPT ![d] = row("confirmed")]
    BY <1>3 DEF StoredOnly, Database, Document
  <2> HIDE DEF row
  <2> QED BY <1>2, <1>4, <2>1 DEF DocumentStatuses
<1>6. Aligned(OcrFailed(s, d))
  <2>1. /\ OcrFailed(s, d).source = s.source
        /\ OcrFailed(s, d).doc = [s.doc EXCEPT ![d] = row("ocr_error")]
    BY <1>3 DEF OcrFailed, Database, Document
  <2> HIDE DEF row
  <2> QED BY <1>2, <1>4, <2>1 DEF DocumentStatuses
<1>7. ASSUME NEW o \in Outcomes PROVE Aligned(OcrFinished(s, d, o))
  <2> DEFINE status == CASE o.fields = "most" -> "recognized"
                         [] o.fields = "some" -> "partially_recognized"
                         [] o.fields = "none_pdf" -> "ocr_error"
                         [] o.fields = "none_image" -> "needs_review"
             base == [s EXCEPT !.jobs = @ \ {d}, !.doc[d].queued = FALSE, !.doc[d].status = status]
  <2>1. o.fields \in {"most", "some", "none_pdf", "none_image"}
    BY <1>7, RecognitionsAssumption DEF Outcomes, Outcome
  <2>2. status \in DocumentStatuses \ {"archived"}
    BY <2>1 DEF DocumentStatuses
  <2>3. OcrFinished(s, d, o) =
          [base EXCEPT
            !.checks = [c \in Findings |-> IF c \in o.found THEN "open" ELSE "none"],
            !.header = o.header, !.service = s.service \/ o.service, !.linked = s.linked \/ o.linked,
            !.preliminary = TRUE,
            !.status = IF o.fields \in {"none_pdf", "none_image"} THEN "ocr_error"
                       ELSE IF "blocking" \in o.found THEN "suspicious" ELSE "in_review"]
    BY DEF OcrFinished
  <2> HIDE DEF status
  <2>4. base \in Database
    BY <1>1, <2>2, RunRow
  <2>5. base.source = s.source
    BY DEF Database
  <2>6. base.doc = [s.doc EXCEPT ![d] = [[s.doc[d] EXCEPT !.queued = FALSE] EXCEPT !.status = status]]
    BY <1>3 DEF Database
  <2> HIDE DEF base
  <2>7. OcrFinished(s, d, o).source = base.source /\ OcrFinished(s, d, o).doc = base.doc
    BY <2>3, <2>4 DEF Database
  <2>8. OcrFinished(s, d, o).doc = [s.doc EXCEPT ![d] = row(status)]
    BY <1>4, <2>2, <2>6, <2>7
  <2>9. OcrFinished(s, d, o).source = s.source
    BY <2>5, <2>7
  <2>10. /\ row(status) \in Document
         /\ row(status).status = status
         /\ row(status).kind = s.doc[d].kind
         /\ row(status).primary = s.doc[d].primary
    BY <1>4, <2>2
  <2> HIDE DEF row
  <2> QED BY <1>2, <2>2, <2>8, <2>9, <2>10
<1> QED BY <1>5, <1>6, <1>7

LEMMA UploadedAligned ==
  ASSUME NEW s \in Database, NEW d \in Documents, NEW kind \in UploadKinds
  PROVE  Aligned(Uploaded(s, d, kind))
PROOF
<1> DEFINE t == [Reopened(s) EXCEPT !.doc[d] = NewDocument(kind), !.jobs = @ \cup {d}]
<1>1. NewDocument(kind) \in Document
  BY DEF NewDocument, Document, DocumentStatuses
<1>2. t \in Database
  BY <1>1, ReopenedType DEF Database
<1> HIDE DEF t
<1>3. Aligned(Normalized(t))
  BY <1>2, NormalizedAligned
<1> QED BY <1>3 DEF Uploaded, t

LEMMA DocumentArchivedAligned ==
  ASSUME NEW s \in Database, Aligned(s), NEW d \in Live(s)
  PROVE  Aligned(DocumentArchived(s, d))
PROOF
<1> DEFINE u == [s EXCEPT !.doc[d].status = "archived"]
           t == Reopened(u)
<1>1. d \in Documents
  BY DEF Live, Present
<1>2. u \in Database /\ u.source = s.source
  <2>1. u \in Database
    BY <1>1, DocumentSet DEF DocumentStatuses
  <2>2. u.source = s.source
    BY DEF Database
  <2> QED BY <2>1, <2>2
<1>3. t \in Database /\ t.doc = u.doc /\ t.source = s.source
  BY <1>2, ReopenedType, ReopenedSame
<1>4. ASSUME NEW e \in Documents
      PROVE  /\ u.doc[e].primary = s.doc[e].primary
             /\ u.doc[e].kind = s.doc[e].kind
             /\ u.doc[e].status = IF e = d THEN "archived" ELSE s.doc[e].status
  <2>1. s.doc[e] \in Document /\ s.doc \in [Documents -> Document]
    BY RowsType
  <2>2. u.doc[e] = IF e = d THEN [s.doc[d] EXCEPT !.status = "archived"] ELSE s.doc[e]
    BY <1>1, <2>1 DEF Database
  <2> HIDE DEF u
  <2> QED BY <2>1, <2>2 DEF Document
<1> HIDE DEF u, t
<1>5. Aligned(Normalized(t))
  BY <1>3, NormalizedAligned
<1>6. ASSUME ~s.doc[d].primary PROVE Aligned(t)
  <2>1. s.source # d
    BY <1>1, <1>6 DEF Aligned
  <2>2. Eligible(t) = Eligible(s) \ {d}
    BY <1>3, <1>4 DEF Eligible, Live, Present
  <2> QED BY <1>3, <1>4, <2>1, <2>2 DEF Aligned
<1> QED BY <1>5, <1>6 DEF DocumentArchived, t, u

LEMMA DocumentRestoredAligned ==
  ASSUME NEW s \in Database, NEW d \in Documents
  PROVE  Aligned(DocumentRestored(s, d))
PROOF
<1> DEFINE u == [s EXCEPT !.doc[d].status = "needs_review"]
<1>1. u \in Database
  BY DocumentSet DEF DocumentStatuses
<1> HIDE DEF u
<1>2. Normalized(u) \in Database /\ Aligned(Normalized(u))
  BY <1>1, NormalizedType, NormalizedAligned
<1> QED BY <1>2, ReopenedAligned DEF DocumentRestored, u

LEMMA RepairArchivedAligned ==
  ASSUME NEW s \in Database, Aligned(s)
  PROVE  Aligned(RepairArchived(s)) /\ Live(RepairArchived(s)) = {}
PROOF
<1> DEFINE u == RepairArchived(s)
<1>1. u.source = NoDocument
  BY DEF RepairArchived, Database
<1>2. ASSUME NEW d \in Documents
      PROVE  /\ u.doc[d].status \in {"absent", "archived"}
             /\ u.doc[d].primary => d \notin Present(s) /\ s.doc[d].primary
  <2>1. s.doc[d] \in Document
    BY RowsType
  <2>2. u.doc[d] = IF d \in Present(s)
                   THEN [s.doc[d] EXCEPT !.status = "archived", !.primary = FALSE]
                   ELSE s.doc[d]
    BY DEF RepairArchived, Database
  <2> HIDE DEF u
  <2> QED BY <2>1, <2>2 DEF Document, Present
<1> HIDE DEF u
<1>3. Live(u) = {} /\ Eligible(u) = {}
  BY <1>2 DEF Eligible, Live, Present
<1>4. NoDocument \notin Documents
  BY MaxDocumentsAssumption DEF NoDocument, Documents
<1>5. \A d \in Documents : ~u.doc[d].primary
  BY <1>2, <1>4 DEF Aligned, Eligible, Live
<1>6. Aligned(u)
  BY <1>1, <1>3, <1>4, <1>5 DEF Aligned
<1> QED BY <1>3, <1>6 DEF u

LEMMA RepairRestoredAligned ==
  ASSUME NEW s \in Database
  PROVE  Aligned(RepairRestored(s))
PROOF
<1> DEFINE t == [s EXCEPT !.status = "in_review", !.preliminary = TRUE,
                          !.doc = [d \in Documents |-> IF s.doc[d].status = "archived"
                                     THEN [s.doc[d] EXCEPT !.status = "needs_review"]
                                     ELSE s.doc[d]]]
<1>1. t \in Database
  BY DEF Database, Document, DocumentStatuses, RepairStatuses
<1> HIDE DEF t
<1>2. Aligned(Normalized(t))
  BY <1>1, NormalizedAligned
<1> QED BY <1>2 DEF RepairRestored, t

LEMMA AlignedStep ==
  ASSUME TypeOK, PrimaryAligned, [Next]_vars
  PROVE  PrimaryAligned'
PROOF
<1> USE DEF PrimaryAligned
<1>a. db \in Database /\ \A d \in Live(db) : d \in Documents
  BY DEF TypeOK, Live, Present
<1>b. ASSUME db'.doc = db.doc, db'.source = db.source PROVE Aligned(db)'
  BY <1>b DEF Aligned, Eligible, Live, Present
<1>0. CASE UNCHANGED vars
  BY <1>0, <1>b DEF vars
<1>1. ASSUME NEW kind \in UploadKinds, UploadToRepair(kind) PROVE PrimaryAligned'
  <2>1. PICK d \in Documents : db' = Uploaded(db, d, kind)
    BY <1>1 DEF UploadToRepair
  <2>2. Aligned(Uploaded(db, d, kind))
    BY <1>a, UploadedAligned
  <2> QED BY <2>1, <2>2 DEF Aligned, Eligible, Live, Present
<1>2. ASSUME NEW status \in EditStatuses, NEW preliminary \in BOOLEAN, NEW header \in BOOLEAN,
             NEW service \in {"as_is", "set", "cleared"},
             UpdateRepair(status, preliminary, header, service)
      PROVE  PrimaryAligned'
  BY <1>a, <1>b, <1>2 DEF UpdateRepair, WithService, Database
<1>3. ASSUME NEW on \in BOOLEAN, UpdateFields(on) \/ UpdateService(on) PROVE PrimaryAligned'
  BY <1>a, <1>b, <1>3 DEF UpdateFields, UpdateService, Refreshed, WithService, Database
<1>4. ASSUME NEW c \in Findings, NEW resolved \in BOOLEAN, UpdateCheck(c, resolved) PROVE PrimaryAligned'
  BY <1>a, <1>b, <1>4 DEF UpdateCheck, Refreshed, Database
<1>5. CASE ArchiveRepair
  <2>1. Aligned(RepairArchived(db)) /\ db' = RepairArchived(db)
    BY <1>a, <1>5, RepairArchivedAligned DEF ArchiveRepair
  <2> QED BY <2>1 DEF Aligned, Eligible, Live, Present
<1>6. CASE RestoreRepair
  <2>1. Aligned(RepairRestored(db)) /\ db' = RepairRestored(db)
    BY <1>a, <1>6, RepairRestoredAligned DEF RestoreRepair
  <2> QED BY <2>1 DEF Aligned, Eligible, Live, Present
<1>7. CASE ArchiveParent \/ RestoreParent
  BY <1>a, <1>b, <1>7 DEF ArchiveParent, RestoreParent, Database
<1>8. ASSUME NEW d \in Documents, Process(d) PROVE PrimaryAligned'
  <2>1. Aligned(Rechecked(db, d)) /\ db' = Rechecked(db, d)
    BY <1>a, <1>8, RecheckedAligned DEF Process, Usable
  <2> QED BY <2>1 DEF Aligned, Eligible, Live, Present
<1>9. ASSUME NEW d \in Documents, LinkVehicle(d) PROVE PrimaryAligned'
  <2> DEFINE t == [db EXCEPT !.linked = TRUE,
                             !.checks = [c \in Findings |->
                               IF c = "vehicle" /\ db.checks[c] # "none" THEN "resolved"
                               ELSE db.checks[c]]]
  <2>1. t \in Database
    BY <1>a, VehicleLinkedType
  <2>2. t.doc = db.doc /\ t.source = db.source
    BY <1>a DEF Database
  <2>3. d \in Live(db) /\ db' = Rechecked(t, d)
    BY <1>9 DEF LinkVehicle, Usable
  <2> HIDE DEF t
  <2>4. Aligned(t) /\ d \in Live(t)
    BY <2>2, <2>3 DEF Aligned, Eligible, Live, Present
  <2>5. Aligned(Rechecked(t, d))
    BY <2>1, <2>4, RecheckedAligned
  <2> QED BY <2>3, <2>5 DEF Aligned, Eligible, Live, Present
<1>10. ASSUME NEW d \in Documents, ArchiveDocument(d) \/ RestoreDocument(d) PROVE PrimaryAligned'
  <2>1. ASSUME NEW t, Aligned(t), db' = t PROVE Aligned(db)'
    BY <2>1 DEF Aligned, Eligible, Live, Present
  <2> QED BY <1>a, <1>10, <2>1, DocumentArchivedAligned, DocumentRestoredAligned
          DEF ArchiveDocument, RestoreDocument, Usable
<1>11. ASSUME NEW d \in Documents, SetPrimary(d) \/ ReviewComparison(d, TRUE) \/ ReviewComparison(d, FALSE)
       PROVE  PrimaryAligned'
  <2>1. ASSUME NEW t, Aligned(t), db' = t PROVE Aligned(db)'
    BY <2>1 DEF Aligned, Eligible, Live, Present
  <2>2. CASE SetPrimary(d) \/ ReviewComparison(d, TRUE)
    <3>1. d \in Eligible(db)
      BY <2>2 DEF SetPrimary, ReviewComparison, CanMakePrimary, Usable, Eligible
    <3> DEFINE t == WithPrimary(db, d)
    <3>2. t \in Database /\ Aligned(t)
      BY <1>a, <3>1, WithPrimaryType, WithPrimaryAligned
    <3> HIDE DEF t
    <3>3. Aligned(Reopened(t))
      BY <3>2, ReopenedAligned
    <3>4. db' = t \/ db' = Reopened(t)
      BY <2>2 DEF SetPrimary, PrimarySet, ReviewComparison, t
    <3> QED BY <2>1, <3>2, <3>3, <3>4
  <2>3. CASE ReviewComparison(d, FALSE)
    <3>1. Aligned(WithPrimary(db, Candidate(db)))
      BY <1>a, CandidateIsEligible, WithPrimaryAligned
    <3> QED BY <2>1, <2>3, <3>1 DEF ReviewComparison
  <2> QED BY <1>11, <2>2, <2>3
<1>12. ASSUME NEW d \in Documents, NEW status \in PatchStatuses, UpdateDocument(d, status)
       PROVE  PrimaryAligned'
  <2>1. d \in Live(db) /\ status \in DocumentStatuses \ {"archived"}
    BY <1>12, EditAssumption DEF UpdateDocument
  <2>2. db' = [db EXCEPT !.doc[d].status = status]
    BY <1>12 DEF UpdateDocument
  <2>3. db' \in Database
    BY <1>a, <2>1, <2>2, DocumentSet
  <2>4. db'.source = db.source
    BY <1>a, <2>2 DEF Database
  <2>5. ASSUME NEW e \in Documents
        PROVE  /\ db'.doc[e].primary = db.doc[e].primary
               /\ db'.doc[e].kind = db.doc[e].kind
               /\ db'.doc[e].status = IF e = d THEN status ELSE db.doc[e].status
    <3>1. db.doc[e] \in Document /\ db.doc \in [Documents -> Document]
      BY <1>a, RowsType
    <3>2. db'.doc[e] = IF e = d THEN [db.doc[d] EXCEPT !.status = status] ELSE db.doc[e]
      BY <1>a, <2>2, <3>1 DEF Database
    <3> QED BY <3>1, <3>2 DEF Document
  <2>6. SamePrimary(db, db')
    BY <1>a, <2>1, <2>3, <2>4, <2>5, StatusSetSame
  <2>7. \A t : t = db' => Aligned(t)
    BY <2>6, SamePrimaryAligned
  <2> QED BY <2>7 DEF Aligned, Eligible, Live, Present
<1>13. ASSUME NEW d \in Documents, ConfirmByEmployee(d) \/ ConfirmByAdmin(d) \/ SendToReview(d)
       PROVE  PrimaryAligned'
  <2>1. ASSUME NEW t, Aligned(t), db' = t PROVE Aligned(db)'
    BY <2>1 DEF Aligned, Eligible, Live, Present
  <2>2. d \in Live(db)
    BY <1>13 DEF ConfirmByEmployee, ConfirmByAdmin, SendToReview, CanConfirm, InReviewQueue, Eligible
  <2> QED BY <1>a, <1>13, <2>1, <2>2, ReviewedAligned DEF ConfirmByEmployee, ConfirmByAdmin, SendToReview
<1>14. ASSUME NEW d \in Documents, RunRejected(d) \/ RunFailed(d) \/ RunStored(d) \/ RunFinished(d)
       PROVE  PrimaryAligned'
  <2>1. ASSUME NEW t, Aligned(t), db' = t PROVE Aligned(db)'
    BY <2>1 DEF Aligned, Eligible, Live, Present
  <2>2. CASE RunRejected(d)
    BY <1>a, <1>b, <2>2 DEF RunRejected, Database
  <2>3. CASE RunFailed(d) \/ RunStored(d) \/ RunFinished(d)
    BY <1>a, <2>1, <2>3, RunAligned DEF RunFailed, RunStored, RunFinished, Usable
  <2> QED BY <1>14, <2>2, <2>3
<1> HIDE DEF PrimaryAligned
<1> QED BY <1>0, <1>1, <1>2, <1>3, <1>4, <1>5, <1>6, <1>7, <1>8, <1>9, <1>10, <1>11, <1>12, <1>13,
           <1>14, NextSteps

LEMMA InitAligned ==
  ASSUME Init
  PROVE  PrimaryAligned
PROOF
<1>1. 1 \in Documents /\ NoDocument \notin Documents /\ NoDocument # 1
  BY MaxDocumentsAssumption DEF Documents, NoDocument
<1>2. CASE db = Imported
  BY <1>1, <1>2 DEF PrimaryAligned, Aligned, Eligible, Live, Present, Imported, NoSuchDocument
<1>3. ASSUME NEW kind \in UploadKinds \cap PrimaryKinds, NEW linked \in BOOLEAN, db = DraftOf(kind, linked)
      PROVE  PrimaryAligned
  BY <1>1, <1>3 DEF PrimaryAligned, Aligned, Eligible, Live, Present, DraftOf, NoSuchDocument, NewDocument
<1> QED BY <1>2, <1>3 DEF Init

(* The primary flag and the pointer agree, they name a live document of a   *)
(* primary kind, and a repair with such documents has one, for any number   *)
(* of documents.                                                            *)
THEOREM PrimaryStaysAligned == Spec => []PrimaryAligned
PROOF
<1>1. Init => TypeOK /\ PrimaryAligned
  BY InitType, InitAligned
<1>2. TypeOK /\ PrimaryAligned /\ [Next]_vars => (TypeOK /\ PrimaryAligned)'
  BY TypeStep, AlignedStep
<1> QED BY <1>1, <1>2, PTL DEF Spec

-----------------------------------------------------------------------------
(* The archive and the confirmation. *)

(* The review does not go forward: the status stays or becomes in_review,   *)
(* and what was complete and free of findings remains so.                   *)
KeepsReview(s, t) ==
  /\ t.parentArchived = s.parentArchived
  /\ Complete(s) /\ Open(s) = {} => Complete(t) /\ Open(t) = {}
  /\ \/ t.status = s.status /\ t.preliminary = s.preliminary
     \/ t.status = "in_review" /\ t.preliminary = TRUE

LEMMA KeepsReviewTrans ==
  ASSUME NEW s, NEW t, NEW u, KeepsReview(s, t), KeepsReview(t, u)
  PROVE  KeepsReview(s, u)
BY DEF KeepsReview

LEMMA NormalizedKeepsReview ==
  ASSUME NEW s \in Database
  PROVE  /\ \A t : KeepsReview(s, WithPrimary(s, t))
         /\ KeepsReview(s, Normalized(s))
BY DEF KeepsReview, Complete, Open, Normalized, WithPrimary, Database

LEMMA ReopenedKeepsReview ==
  ASSUME NEW s \in Database
  PROVE  KeepsReview(s, Reopened(s))
BY DEF Reopened, KeepsReview, Complete, Open, Database

LEMMA RecheckedKeepsReview ==
  ASSUME NEW s \in Database, NEW d \in Documents
  PROVE  KeepsReview(s, Rechecked(s, d))
PROOF
<1> DEFINE t == [s EXCEPT !.jobs = @ \cup {d}]
           u == [Reopened(t) EXCEPT !.doc[d].status = "uploaded", !.doc[d].queued = TRUE]
<1>1. t \in Database /\ KeepsReview(s, t)
  BY DEF KeepsReview, Complete, Open, Database
<1>2. Reopened(t) \in Database /\ KeepsReview(t, Reopened(t))
  BY <1>1, ReopenedType, ReopenedKeepsReview
<1>3. KeepsReview(Reopened(t), u)
  BY <1>2 DEF KeepsReview, Complete, Open, Database
<1>4. Rechecked(s, d) \in {t, u}
  BY DEF Rechecked
<1> HIDE DEF t, u
<1>5. KeepsReview(s, Reopened(t))
  BY <1>1, <1>2, KeepsReviewTrans
<1>6. KeepsReview(s, u)
  BY <1>3, <1>5, KeepsReviewTrans
<1> QED BY <1>1, <1>4, <1>6

LEMMA UploadedKeepsReview ==
  ASSUME NEW s \in Database, NEW d \in Documents, NEW kind \in UploadKinds
  PROVE  KeepsReview(s, Uploaded(s, d, kind))
PROOF
<1> DEFINE t == [Reopened(s) EXCEPT !.doc[d] = NewDocument(kind), !.jobs = @ \cup {d}]
<1>1. NewDocument(kind) \in Document
  BY DEF NewDocument, Document, DocumentStatuses
<1>2. t \in Database
  BY <1>1, ReopenedType DEF Database
<1>3. Reopened(s) \in Database /\ KeepsReview(s, Reopened(s))
  BY ReopenedType, ReopenedKeepsReview
<1>4. KeepsReview(Reopened(s), t)
  BY <1>3 DEF KeepsReview, Complete, Open, Database
<1> HIDE DEF t
<1>5. KeepsReview(t, Normalized(t))
  BY <1>2, NormalizedKeepsReview
<1>6. KeepsReview(s, t)
  BY <1>3, <1>4, KeepsReviewTrans
<1>7. KeepsReview(s, Normalized(t))
  BY <1>5, <1>6, KeepsReviewTrans
<1> QED BY <1>7 DEF Uploaded, t

LEMMA DocumentsKeepReview ==
  ASSUME NEW s \in Database, NEW d \in Documents
  PROVE  /\ KeepsReview(s, DocumentArchived(s, d))
         /\ KeepsReview(s, DocumentRestored(s, d))
         /\ KeepsReview(s, StoredOnly(s, d))
         /\ \A t \in Documents \cup {NoDocument} : KeepsReview(s, Reopened(WithPrimary(s, t)))
PROOF
<1>1. ASSUME NEW status \in DocumentStatuses
      PROVE  /\ [s EXCEPT !.doc[d].status = status] \in Database
             /\ KeepsReview(s, [s EXCEPT !.doc[d].status = status])
  <2>1. [s EXCEPT !.doc[d].status = status] \in Database
    BY <1>1, DocumentSet
  <2>2. KeepsReview(s, [s EXCEPT !.doc[d].status = status])
    BY DEF KeepsReview, Complete, Open, Database
  <2> QED BY <2>1, <2>2
<1>2. KeepsReview(s, DocumentArchived(s, d))
  <2> DEFINE u == [s EXCEPT !.doc[d].status = "archived"]
  <2>1. u \in Database /\ KeepsReview(s, u)
    BY <1>1 DEF DocumentStatuses
  <2> HIDE DEF u
  <2>2. Reopened(u) \in Database /\ KeepsReview(u, Reopened(u))
    BY <2>1, ReopenedType, ReopenedKeepsReview
  <2>3. KeepsReview(Reopened(u), Normalized(Reopened(u)))
    BY <2>2, NormalizedKeepsReview
  <2>4. KeepsReview(s, Reopened(u))
    BY <2>1, <2>2, KeepsReviewTrans
  <2>5. KeepsReview(s, Normalized(Reopened(u)))
    BY <2>3, <2>4, KeepsReviewTrans
  <2> QED BY <2>4, <2>5 DEF DocumentArchived, u
<1>3. KeepsReview(s, DocumentRestored(s, d))
  <2> DEFINE u == [s EXCEPT !.doc[d].status = "needs_review"]
  <2>1. u \in Database /\ KeepsReview(s, u)
    BY <1>1 DEF DocumentStatuses
  <2> HIDE DEF u
  <2>2. Normalized(u) \in Database /\ KeepsReview(u, Normalized(u))
    BY <2>1, NormalizedType, NormalizedKeepsReview
  <2>3. KeepsReview(Normalized(u), Reopened(Normalized(u)))
    BY <2>2, ReopenedKeepsReview
  <2>4. KeepsReview(s, Normalized(u))
    BY <2>1, <2>2, KeepsReviewTrans
  <2>5. KeepsReview(s, Reopened(Normalized(u)))
    BY <2>3, <2>4, KeepsReviewTrans
  <2> QED BY <2>5 DEF DocumentRestored, u
<1>4. KeepsReview(s, StoredOnly(s, d))
  BY DEF KeepsReview, Complete, Open, StoredOnly, Database
<1>5. ASSUME NEW t \in Documents \cup {NoDocument}
      PROVE  KeepsReview(s, Reopened(WithPrimary(s, t)))
  <2>1. WithPrimary(s, t) \in Database /\ KeepsReview(s, WithPrimary(s, t))
    BY WithPrimaryType, NormalizedKeepsReview
  <2>2. KeepsReview(WithPrimary(s, t), Reopened(WithPrimary(s, t)))
    BY <2>1, ReopenedKeepsReview
  <2> QED BY <2>1, <2>2, KeepsReviewTrans
<1> QED BY <1>2, <1>3, <1>4, <1>5

(* What a confirmation stands for, as one predicate of a state. *)
ReviewSound == ArchiveIsClosed /\ ConfirmedIsComplete /\ PreliminaryUntilConfirmed

LEMMA KeepsReviewStep ==
  ASSUME TypeOK, ReviewSound, Operational(db), KeepsReview(db, db'), direct' = direct
  PROVE  ReviewSound'
BY DEF TypeOK, ReviewSound, Operational, KeepsReview, ArchiveIsClosed, ConfirmedIsComplete,
       PreliminaryUntilConfirmed, Complete, Open, Live, Present

(* A step after which the repair is under review, or failed, or final and   *)
(* complete.                                                                *)
LEMMA ReviewedStep ==
  ASSUME TypeOK, ReviewSound, Operational(db), db'.parentArchived = db.parentArchived,
         \/ db'.status \in {"in_review", "suspicious", "ocr_error"} /\ db'.preliminary = TRUE
         \/ db'.status = "ocr_error"
         \/ db'.status = "employee_confirmed" /\ db'.preliminary = TRUE
              /\ Complete(db') /\ Open(db') = {}
         \/ db'.status = "confirmed" /\ Complete(db') /\ Open(db') = {}
  PROVE  ReviewSound'
BY DEF TypeOK, ReviewSound, Operational, ArchiveIsClosed, ConfirmedIsComplete,
       PreliminaryUntilConfirmed, Complete, Open, Live, Present

LEMMA ReviewStep ==
  ASSUME TypeOK, PrimaryAligned, ReviewSound, [Next]_vars
  PROVE  ReviewSound'
PROOF
<1>a. db \in Database
  BY DEF TypeOK
<1>0. CASE UNCHANGED vars
  BY <1>0 DEF vars, ReviewSound, ArchiveIsClosed, ConfirmedIsComplete, PreliminaryUntilConfirmed,
              Complete, Open, Live, Present
<1>1. ASSUME NEW kind \in UploadKinds, UploadToRepair(kind) PROVE ReviewSound'
  <2>1. PICK d \in Documents : db' = Uploaded(db, d, kind)
    BY <1>1 DEF UploadToRepair
  <2>2. KeepsReview(db, db')
    BY <1>a, <2>1, UploadedKeepsReview
  <2> QED BY <1>1, <2>2, KeepsReviewStep DEF UploadToRepair
<1>2. ASSUME NEW status \in EditStatuses, NEW preliminary \in BOOLEAN, NEW header \in BOOLEAN,
             NEW service \in {"as_is", "set", "cleared"},
             UpdateRepair(status, preliminary, header, service)
      PROVE  ReviewSound'
  <2>1. direct' /\ Operational(db) /\ status # "archived"
    BY <1>2 DEF UpdateRepair
  <2>2. db'.status \in {status, db.status} /\ db'.parentArchived = db.parentArchived
    BY <1>a, <1>2 DEF UpdateRepair, WithService, Database
  <2> QED BY <2>1, <2>2 DEF ReviewSound, Operational, ArchiveIsClosed, ConfirmedIsComplete,
                            PreliminaryUntilConfirmed
<1>3. ASSUME NEW on \in BOOLEAN, UpdateFields(on) \/ UpdateService(on) PROVE ReviewSound'
  <2>1. /\ db'.parentArchived = db.parentArchived /\ db'.preliminary = TRUE
        /\ db'.status \in {"in_review", "suspicious"} /\ Operational(db)
    BY <1>a, <1>3 DEF UpdateFields, UpdateService, Refreshed, WithService, Database
  <2> QED BY <2>1, ReviewedStep
<1>4. ASSUME NEW c \in Findings, NEW resolved \in BOOLEAN, UpdateCheck(c, resolved) PROVE ReviewSound'
  <2>1. /\ db'.parentArchived = db.parentArchived /\ db'.preliminary = TRUE
        /\ db'.status \in {"in_review", "suspicious"} /\ Operational(db)
    BY <1>a, <1>4 DEF UpdateCheck, Refreshed, Database
  <2> QED BY <2>1, ReviewedStep
<1>5. CASE ArchiveRepair
  <2>1. db' = RepairArchived(db) /\ Live(RepairArchived(db)) = {}
    BY <1>a, <1>5, RepairArchivedAligned DEF ArchiveRepair, PrimaryAligned
  <2>2. Live(db') = {}
    BY <2>1
  <2>3. db'.status = "archived" /\ db'.preliminary = FALSE /\ db'.source = NoDocument
    BY <1>a, <2>1 DEF RepairArchived, Database
  <2> QED BY <2>2, <2>3 DEF ReviewSound, ArchiveIsClosed, ConfirmedIsComplete,
                            PreliminaryUntilConfirmed, Live, Present
<1>6. CASE RestoreRepair
  <2>1. /\ db'.status = "in_review" /\ db'.preliminary = TRUE
        /\ db'.parentArchived = FALSE
    BY <1>a, <1>6 DEF RestoreRepair, RepairRestored, Normalized, WithPrimary, Database
  <2> QED BY <2>1 DEF ReviewSound, ArchiveIsClosed, ConfirmedIsComplete, PreliminaryUntilConfirmed
<1>7. CASE ArchiveParent \/ RestoreParent
  <2>1. /\ db'.status = db.status /\ db'.preliminary = db.preliminary /\ db'.source = db.source
        /\ db'.doc = db.doc /\ db'.header = db.header /\ db'.service = db.service
        /\ db'.linked = db.linked /\ db'.checks = db.checks /\ direct' = direct
        /\ db'.parentArchived => db.status = "archived"
    BY <1>a, <1>7 DEF ArchiveParent, RestoreParent, Database
  <2> QED BY <2>1 DEF ReviewSound, ArchiveIsClosed, ConfirmedIsComplete, PreliminaryUntilConfirmed,
                      Complete, Open, Live, Present
<1>8. ASSUME NEW d \in Documents, Process(d) PROVE ReviewSound'
  BY <1>a, <1>8, RecheckedKeepsReview, KeepsReviewStep DEF Process, Usable
<1>9. ASSUME NEW d \in Documents, LinkVehicle(d) PROVE ReviewSound'
  <2> DEFINE t == [db EXCEPT !.linked = TRUE,
                             !.checks = [c \in Findings |->
                               IF c = "vehicle" /\ db.checks[c] # "none" THEN "resolved"
                               ELSE db.checks[c]]]
  <2>1. t \in Database /\ db' = Rechecked(t, d)
    BY <1>a, <1>9, VehicleLinkedType DEF LinkVehicle
  <2>2. KeepsReview(db, t)
    BY <1>a DEF KeepsReview, Complete, Open, Database
  <2> HIDE DEF t
  <2>3. KeepsReview(db, Rechecked(t, d))
    BY <2>1, <2>2, RecheckedKeepsReview, KeepsReviewTrans
  <2> QED BY <1>9, <2>1, <2>3, KeepsReviewStep DEF LinkVehicle, Usable
<1>10. ASSUME NEW d \in Documents, ArchiveDocument(d) \/ RestoreDocument(d) PROVE ReviewSound'
  BY <1>a, <1>10, DocumentsKeepReview, KeepsReviewStep
     DEF ArchiveDocument, RestoreDocument, Usable, CanRestoreDocument
<1>11. ASSUME NEW d \in Documents, SetPrimary(d) \/ ReviewComparison(d, TRUE) \/ ReviewComparison(d, FALSE)
       PROVE  ReviewSound'
  <2>1. KeepsReview(db, db')
    BY <1>a, <1>11, DocumentsKeepReview, NormalizedKeepsReview DEF SetPrimary, PrimarySet, ReviewComparison
  <2> QED BY <1>11, <2>1, KeepsReviewStep DEF SetPrimary, ReviewComparison, CanMakePrimary, Usable
<1>12. ASSUME NEW d \in Documents, NEW status \in PatchStatuses, UpdateDocument(d, status)
       PROVE  ReviewSound'
  <2>1. d \in Live(db) /\ direct' = direct /\ db' = [db EXCEPT !.doc[d].status = status]
    BY <1>12 DEF UpdateDocument
  <2>2. Operational(db)
    BY <1>a, <2>1 DEF ReviewSound, ArchiveIsClosed, Operational, Database
  <2>3. KeepsReview(db, db')
    BY <1>a, <2>1 DEF KeepsReview, Complete, Open, Database
  <2> QED BY <2>1, <2>2, <2>3, KeepsReviewStep
<1>13. ASSUME NEW d \in Documents, ConfirmByEmployee(d) \/ ConfirmByAdmin(d) \/ SendToReview(d)
       PROVE  ReviewSound'
  <2>1. Operational(db)
    BY <1>13 DEF ConfirmByEmployee, ConfirmByAdmin, SendToReview, CanConfirm, InReviewQueue
  <2>2. CASE SendToReview(d)
    <3>1. /\ db'.parentArchived = db.parentArchived
          /\ db'.status = "in_review" /\ db'.preliminary = TRUE
      BY <1>a, <2>2 DEF SendToReview, SentToReview, Database
    <3> QED BY <2>1, <3>1, ReviewedStep
  <2>3. CASE ConfirmByEmployee(d) \/ ConfirmByAdmin(d)
    <3>1. Complete(db) /\ Open(db) = {}
      BY <2>3 DEF ConfirmByEmployee, ConfirmByAdmin, CanConfirm
    <3>2. /\ db'.parentArchived = db.parentArchived /\ db'.checks = db.checks
          /\ db'.header = db.header /\ db'.service = db.service /\ db'.linked = db.linked
          /\ \/ db'.status = "employee_confirmed" /\ db'.preliminary = TRUE
             \/ db'.status = "confirmed"
      BY <1>a, <2>3 DEF ConfirmByEmployee, ConfirmByAdmin, EmployeeConfirmed, Confirmed, Database
    <3>3. Complete(db') /\ Open(db') = {}
      BY <3>1, <3>2 DEF Complete, Open
    <3> QED BY <2>1, <3>2, <3>3, ReviewedStep
  <2> QED BY <1>13, <2>2, <2>3
<1>14. ASSUME NEW d \in Documents, RunRejected(d) \/ RunFailed(d) \/ RunStored(d) \/ RunFinished(d)
       PROVE  ReviewSound'
  <2>1. CASE RunRejected(d)
    <3>1. /\ db'.status = db.status /\ db'.preliminary = db.preliminary /\ db'.source = db.source
          /\ db'.doc = db.doc /\ db'.header = db.header /\ db'.service = db.service
          /\ db'.linked = db.linked /\ db'.checks = db.checks /\ direct' = direct
          /\ db'.parentArchived = db.parentArchived
      BY <1>a, <2>1 DEF RunRejected, Database
    <3> QED BY <3>1 DEF ReviewSound, ArchiveIsClosed, ConfirmedIsComplete, PreliminaryUntilConfirmed,
                        Complete, Open, Live, Present
  <2>2. CASE RunFailed(d)
    <3>1. Operational(db) /\ db'.parentArchived = db.parentArchived /\ db'.status = "ocr_error"
      BY <1>a, <2>2 DEF RunFailed, OcrFailed, Usable, Database
    <3> QED BY <3>1, ReviewedStep
  <2>3. CASE RunStored(d)
    BY <1>a, <2>3, DocumentsKeepReview, KeepsReviewStep DEF RunStored, Usable
  <2>4. CASE RunFinished(d)
    <3>1. PICK o \in Outcomes : db' = OcrFinished(db, d, o)
      BY <2>4 DEF RunFinished
    <3>2. /\ db'.parentArchived = db.parentArchived /\ db'.preliminary = TRUE
          /\ db'.status \in {"in_review", "suspicious", "ocr_error"}
      BY <1>a, <3>1 DEF OcrFinished, Database
    <3> QED BY <2>4, <3>2, ReviewedStep DEF RunFinished, Usable
  <2> QED BY <1>14, <2>1, <2>2, <2>3, <2>4
<1> QED BY <1>0, <1>1, <1>2, <1>3, <1>4, <1>5, <1>6, <1>7, <1>8, <1>9, <1>10, <1>11, <1>12, <1>13,
           <1>14, NextSteps

LEMMA InitReview ==
  ASSUME Init
  PROVE  ReviewSound
BY DEF Init, DraftOf, Imported, NoChecks, ReviewSound, ArchiveIsClosed, ConfirmedIsComplete,
       PreliminaryUntilConfirmed

LEMMA ReviewInvariant == Spec => [](TypeOK /\ PrimaryAligned /\ ReviewSound)
PROOF
<1>1. Init => TypeOK /\ PrimaryAligned /\ ReviewSound
  BY InitType, InitAligned, InitReview
<1>2. TypeOK /\ PrimaryAligned /\ ReviewSound /\ [Next]_vars
        => (TypeOK /\ PrimaryAligned /\ ReviewSound)'
  BY TypeStep, AlignedStep, ReviewStep
<1> QED BY <1>1, <1>2, PTL DEF Spec

(* Nothing is live below an archived repair, and a vehicle or a service is  *)
(* archived only above one.                                                 *)
THEOREM ArchiveStaysClosed == Spec => []ArchiveIsClosed
BY ReviewInvariant, PTL DEF ReviewSound

(* Whatever the review confirmed is complete and without open findings.     *)
THEOREM ConfirmationHolds == Spec => []ConfirmedIsComplete
BY ReviewInvariant, PTL DEF ReviewSound

(* A repair that is not preliminary was confirmed by the administrator, or  *)
(* archived, or a run failed on it.                                         *)
THEOREM FinalIsConfirmed == Spec => []PreliminaryUntilConfirmed
BY ReviewInvariant, PTL DEF ReviewSound

-----------------------------------------------------------------------------
(* What becomes of each document, of its job and of a confirmation. *)

(* A document that waits for OCR has a job that will serve it, while nobody *)
(* overtakes a run.                                                         *)
WaitingHasJob ==
  \A d \in Documents \ patched : db.doc[d].status = "uploaded" => d \in db.jobs

(* A repair that is still a draft has no document that a run has read.      *)
DraftIsUnread ==
  ~direct /\ db.status = "draft" =>
    \A d \in Eligible(db) \ patched : db.doc[d].status \in {"uploaded", "needs_review"}

LeavesArchive ==
  /\ \A d \in Documents : db.doc[d].status = "archived" => db'.doc[d].status \in {"archived", "needs_review"}
  /\ db.status = "archived" => db'.status \in {"archived", "in_review"}
Reopens ==
  db.status \in {"employee_confirmed", "confirmed"} /\ Composition(db') # Composition(db)
    => db'.status \in {"in_review", "archived"}

Promises == WaitingHasJob' /\ DraftIsUnread' /\ LeavesArchive /\ Reopens

(* A step after which one document has another status, or none has.         *)
LEMMA OneRowStep ==
  ASSUME TypeOK, WaitingHasJob, DraftIsUnread, NEW d \in Documents,
         \A e \in Documents \ {d} : /\ db'.doc[e].status = db.doc[e].status
                                    /\ db'.doc[e].kind = db.doc[e].kind,
         patched \ {d} \subseteq patched', db.jobs \ {d} \subseteq db'.jobs,
         db'.doc[d].status # "uploaded" \/ d \in db'.jobs \/ d \in patched',
         db'.status = "draft" /\ ~direct' =>
           /\ db.status = "draft" /\ ~direct
           /\ \/ db'.doc[d].status \in {"uploaded", "needs_review", "archived", "absent"}
              \/ d \in patched' \/ db'.doc[d].kind \notin PrimaryKinds,
         db.doc[d].status = "archived" => db'.doc[d].status \in {"archived", "needs_review"},
         db.status = "archived" => db'.status \in {"archived", "in_review"},
         db.status \in {"employee_confirmed", "confirmed"} =>
           \/ db'.status \in {"in_review", "archived"}
           \/ db'.source = db.source /\ (d \in Live(db) <=> db'.doc[d].status \notin {"absent", "archived"})
  PROVE  Promises
PROOF
<1>1. WaitingHasJob' BY DEF WaitingHasJob
<1>2. DraftIsUnread' BY DEF DraftIsUnread, Eligible, Live, Present
<1>3. LeavesArchive BY DEF LeavesArchive
<1>4. ASSUME db'.source = db.source, d \in Live(db) <=> db'.doc[d].status \notin {"absent", "archived"}
      PROVE  Composition(db') = Composition(db)
  <2>1. Live(db') = Live(db) BY <1>4 DEF Live, Present
  <2> QED BY <1>4, <2>1 DEF Composition
<1>5. Reopens BY <1>4 DEF Reopens
<1> QED BY <1>1, <1>2, <1>3, <1>5 DEF Promises

LEMMA NoRowStep ==
  ASSUME TypeOK, WaitingHasJob, DraftIsUnread,
         \A e \in Documents : /\ db'.doc[e].status = db.doc[e].status
                              /\ db'.doc[e].kind = db.doc[e].kind,
         patched \subseteq patched', db.jobs \subseteq db'.jobs,
         db'.status = "draft" /\ ~direct' => db.status = "draft" /\ ~direct,
         db.status = "archived" => db'.status \in {"archived", "in_review"},
         db.status \in {"employee_confirmed", "confirmed"} =>
           db'.status \in {"in_review", "archived"} \/ db'.source = db.source
  PROVE  Promises
PROOF
<1>1. WaitingHasJob' BY DEF WaitingHasJob
<1>2. DraftIsUnread' BY DEF DraftIsUnread, Eligible, Live, Present
<1>3. LeavesArchive BY DEF LeavesArchive
<1>4. Live(db') = Live(db) BY DEF Live, Present
<1>5. Reopens BY <1>4 DEF Reopens, Composition
<1> QED BY <1>1, <1>2, <1>3, <1>5 DEF Promises

(* What the operations leave of statuses, kinds, jobs and the pointer.      *)
LEMMA WithPrimaryEffect ==
  ASSUME NEW s \in Database, NEW t \in Documents \cup {NoDocument}
  PROVE  /\ \A e \in Documents : /\ WithPrimary(s, t).doc[e].status = s.doc[e].status
                                 /\ WithPrimary(s, t).doc[e].kind = s.doc[e].kind
         /\ WithPrimary(s, t).source = t /\ WithPrimary(s, t).status = s.status
         /\ WithPrimary(s, t).jobs = s.jobs
PROOF
<1>1. ASSUME NEW e \in Documents
      PROVE  /\ WithPrimary(s, t).doc[e].status = s.doc[e].status
             /\ WithPrimary(s, t).doc[e].kind = s.doc[e].kind
  <2>1. WithPrimary(s, t).doc[e] = [s.doc[e] EXCEPT !.primary = (t # NoDocument /\ e = t)]
    BY DEF WithPrimary, Database
  <2>2. s.doc[e] \in Document BY RowsType
  <2> QED BY <2>1, <2>2 DEF Document
<1> QED BY <1>1 DEF WithPrimary, Database

LEMMA NormalizedEffect ==
  ASSUME NEW s \in Database
  PROVE  /\ \A e \in Documents : /\ Normalized(s).doc[e].status = s.doc[e].status
                                 /\ Normalized(s).doc[e].kind = s.doc[e].kind
         /\ Normalized(s).status = s.status /\ Normalized(s).jobs = s.jobs
BY CandidateIsEligible, WithPrimaryEffect DEF Normalized

LEMMA ReopenedEffect ==
  ASSUME NEW s \in Database
  PROVE  /\ Reopened(s).doc = s.doc /\ Reopened(s).source = s.source /\ Reopened(s).jobs = s.jobs
         /\ Reopened(s).status =
              IF s.status \in {"confirmed", "employee_confirmed"} THEN "in_review" ELSE s.status
BY DEF Reopened, Database

LEMMA StatusSetEffect ==
  ASSUME NEW s \in Database, NEW d \in Documents, NEW status \in DocumentStatuses
  PROVE  LET t == [s EXCEPT !.doc[d].status = status] IN
         /\ \A e \in Documents : /\ t.doc[e].status = IF e = d THEN status ELSE s.doc[e].status
                                 /\ t.doc[e].kind = s.doc[e].kind
         /\ t.source = s.source /\ t.status = s.status /\ t.jobs = s.jobs
PROOF
<1> DEFINE t == [s EXCEPT !.doc[d].status = status]
<1>1. t.source = s.source /\ t.status = s.status /\ t.jobs = s.jobs
      /\ t.doc = [s.doc EXCEPT ![d] = [s.doc[d] EXCEPT !.status = status]]
  BY DEF Database
<1> HIDE DEF t
<1>2. s.doc[d] \in Document /\ s.doc \in [Documents -> Document] BY RowsType
<1>3. [s.doc[d] EXCEPT !.status = status].status = status
      /\ [s.doc[d] EXCEPT !.status = status].kind = s.doc[d].kind
  BY <1>2 DEF Document
<1>4. \A e \in Documents : /\ t.doc[e].status = IF e = d THEN status ELSE s.doc[e].status
                           /\ t.doc[e].kind = s.doc[e].kind
  BY <1>1, <1>2, <1>3
<1> QED BY <1>1, <1>4 DEF t

LEMMA RecheckedEffect ==
  ASSUME NEW s \in Database, NEW d \in Documents
  PROVE  LET t == Rechecked(s, d) IN
         /\ \A e \in Documents \ {d} : t.doc[e] = s.doc[e]
         /\ t.doc[d] = s.doc[d] \/ t.doc[d].status = "uploaded"
         /\ t.doc[d].kind = s.doc[d].kind
         /\ t.jobs = s.jobs \cup {d} /\ t.source = s.source /\ t.status \in {s.status, "in_review"}
PROOF
<1> DEFINE t == [s EXCEPT !.jobs = @ \cup {d}]
           row == [s.doc[d] EXCEPT !.status = "uploaded", !.queued = TRUE]
           u == [Reopened(t) EXCEPT !.doc[d].status = "uploaded", !.doc[d].queued = TRUE]
<1>1. t \in Database /\ t.doc = s.doc /\ t.source = s.source /\ t.status = s.status
      /\ t.jobs = s.jobs \cup {d}
  BY DEF Database
<1>2. s.doc[d] \in Document /\ s.doc \in [Documents -> Document] BY RowsType
<1>3. row.status = "uploaded" /\ row.kind = s.doc[d].kind BY <1>2 DEF Document
<1>4. /\ Reopened(t) \in Database /\ Reopened(t).doc = s.doc /\ Reopened(t).source = s.source
      /\ Reopened(t).jobs = s.jobs \cup {d} /\ Reopened(t).status \in {s.status, "in_review"}
  BY <1>1, ReopenedType, ReopenedEffect
<1>5. /\ u.doc = [s.doc EXCEPT ![d] = row]
      /\ u.source = s.source /\ u.jobs = s.jobs \cup {d} /\ u.status \in {s.status, "in_review"}
  BY <1>2, <1>4 DEF Database
<1>6. Rechecked(s, d) \in {t, u} BY DEF Rechecked
<1> HIDE DEF t, u, row
<1>7. CASE Rechecked(s, d) = t BY <1>1, <1>7
<1>8. CASE Rechecked(s, d) = u BY <1>2, <1>3, <1>5, <1>8
<1> QED BY <1>6, <1>7, <1>8

LEMMA UploadedEffect ==
  ASSUME NEW s \in Database, NEW d \in Documents, NEW kind \in UploadKinds
  PROVE  LET t == Uploaded(s, d, kind) IN
         /\ \A e \in Documents \ {d} : /\ t.doc[e].status = s.doc[e].status
                                       /\ t.doc[e].kind = s.doc[e].kind
         /\ t.doc[d].status = "uploaded" /\ t.jobs = s.jobs \cup {d}
         /\ t.status = IF s.status \in {"confirmed", "employee_confirmed"} THEN "in_review" ELSE s.status
PROOF
<1> DEFINE t == [Reopened(s) EXCEPT !.doc[d] = NewDocument(kind), !.jobs = @ \cup {d}]
<1>1. NewDocument(kind) \in Document /\ NewDocument(kind).status = "uploaded"
  BY DEF NewDocument, Document, DocumentStatuses
<1>2. Reopened(s) \in Database BY ReopenedType
<1>3. /\ t \in Database /\ t.jobs = s.jobs \cup {d} /\ t.status = Reopened(s).status
      /\ t.doc = [s.doc EXCEPT ![d] = NewDocument(kind)]
  BY <1>1, <1>2, ReopenedEffect DEF Database
<1>4. s.doc \in [Documents -> Document] BY RowsType
<1> HIDE DEF t
<1>5. /\ \A e \in Documents : /\ Normalized(t).doc[e].status = t.doc[e].status
                              /\ Normalized(t).doc[e].kind = t.doc[e].kind
      /\ Normalized(t).status = t.status /\ Normalized(t).jobs = t.jobs
  BY <1>3, NormalizedEffect
<1>6. Uploaded(s, d, kind) = Normalized(t) BY DEF Uploaded, t
<1> QED BY <1>1, <1>3, <1>4, <1>5, <1>6, ReopenedEffect

LEMMA DocumentArchivedEffect ==
  ASSUME NEW s \in Database, NEW d \in Documents
  PROVE  LET t == DocumentArchived(s, d) IN
         /\ \A e \in Documents : /\ t.doc[e].status = IF e = d THEN "archived" ELSE s.doc[e].status
                                 /\ t.doc[e].kind = s.doc[e].kind
         /\ t.jobs = s.jobs
         /\ t.status = IF s.status \in {"confirmed", "employee_confirmed"} THEN "in_review" ELSE s.status
PROOF
<1> DEFINE u == [s EXCEPT !.doc[d].status = "archived"]
           t == Reopened(u)
<1>1. "archived" \in DocumentStatuses BY DEF DocumentStatuses
<1>2. u \in Database BY <1>1, DocumentSet
<1>3. /\ \A e \in Documents : /\ u.doc[e].status = IF e = d THEN "archived" ELSE s.doc[e].status
                              /\ u.doc[e].kind = s.doc[e].kind
      /\ u.status = s.status /\ u.jobs = s.jobs
  BY <1>1, StatusSetEffect
<1> HIDE DEF u
<1>4. /\ t \in Database /\ t.doc = u.doc /\ t.jobs = s.jobs
      /\ t.status = IF s.status \in {"confirmed", "employee_confirmed"} THEN "in_review" ELSE s.status
  BY <1>2, <1>3, ReopenedType, ReopenedEffect
<1> HIDE DEF t
<1>5. /\ \A e \in Documents : /\ Normalized(t).doc[e].status = t.doc[e].status
                              /\ Normalized(t).doc[e].kind = t.doc[e].kind
      /\ Normalized(t).status = t.status /\ Normalized(t).jobs = t.jobs
  BY <1>4, NormalizedEffect
<1>6. DocumentArchived(s, d) \in {t, Normalized(t)} BY DEF DocumentArchived, t, u
<1>7. CASE DocumentArchived(s, d) = t BY <1>3, <1>4, <1>7
<1>8. CASE DocumentArchived(s, d) = Normalized(t) BY <1>3, <1>4, <1>5, <1>8
<1> QED BY <1>6, <1>7, <1>8

LEMMA DocumentRestoredEffect ==
  ASSUME NEW s \in Database, NEW d \in Documents
  PROVE  LET t == DocumentRestored(s, d) IN
         /\ \A e \in Documents : /\ t.doc[e].status = IF e = d THEN "needs_review" ELSE s.doc[e].status
                                 /\ t.doc[e].kind = s.doc[e].kind
         /\ t.jobs = s.jobs
         /\ t.status = IF s.status \in {"confirmed", "employee_confirmed"} THEN "in_review" ELSE s.status
PROOF
<1> DEFINE u == [s EXCEPT !.doc[d].status = "needs_review"]
<1>1. "needs_review" \in DocumentStatuses BY DEF DocumentStatuses
<1>2. u \in Database BY <1>1, DocumentSet
<1>3. /\ \A e \in Documents : /\ u.doc[e].status = IF e = d THEN "needs_review" ELSE s.doc[e].status
                              /\ u.doc[e].kind = s.doc[e].kind
      /\ u.status = s.status /\ u.jobs = s.jobs
  BY <1>1, StatusSetEffect
<1> HIDE DEF u
<1>4. /\ Normalized(u) \in Database
      /\ \A e \in Documents : /\ Normalized(u).doc[e].status = u.doc[e].status
                              /\ Normalized(u).doc[e].kind = u.doc[e].kind
      /\ Normalized(u).status = u.status /\ Normalized(u).jobs = u.jobs
  BY <1>2, NormalizedType, NormalizedEffect
<1>5. DocumentRestored(s, d) = Reopened(Normalized(u)) BY DEF DocumentRestored, u
<1> QED BY <1>3, <1>4, <1>5, ReopenedEffect

LEMMA ReviewedEffect ==
  ASSUME NEW s \in Database, NEW d \in Documents, NEW status \in {"confirmed", "needs_review"},
         NEW rs \in RepairStatuses, NEW p \in BOOLEAN
  PROVE  LET t == [s EXCEPT !.doc[d].status = status, !.status = rs, !.preliminary = p] IN
         /\ \A e \in Documents : /\ t.doc[e].status = IF e = d THEN status ELSE s.doc[e].status
                                 /\ t.doc[e].kind = s.doc[e].kind
         /\ t.source = s.source /\ t.status = rs /\ t.jobs = s.jobs
PROOF
<1> DEFINE u == [s EXCEPT !.doc[d].status = status]
           t == [u EXCEPT !.status = rs, !.preliminary = p]
<1>1. status \in DocumentStatuses BY DEF DocumentStatuses
<1>2. /\ \A e \in Documents : /\ u.doc[e].status = IF e = d THEN status ELSE s.doc[e].status
                              /\ u.doc[e].kind = s.doc[e].kind
      /\ u.source = s.source /\ u.jobs = s.jobs
  BY <1>1, StatusSetEffect
<1>3. u \in Database BY <1>1, DocumentSet
<1> HIDE DEF u
<1>4. t.doc = u.doc /\ t.source = u.source /\ t.status = rs /\ t.jobs = u.jobs BY <1>3 DEF Database
<1>5. t = [s EXCEPT !.doc[d].status = status, !.status = rs, !.preliminary = p] BY DEF u
<1> HIDE DEF t
<1> QED BY <1>2, <1>4, <1>5

(* A run reads the document, and takes its job out of the queue.            *)
LEMMA RunEffect ==
  ASSUME NEW s \in Database, NEW d \in Documents
  PROVE  /\ LET t == StoredOnly(s, d) IN
              /\ \A e \in Documents : t.doc[e].kind = s.doc[e].kind
              /\ \A e \in Documents \ {d} : t.doc[e].status = s.doc[e].status
              /\ t.doc[d].status = "confirmed" /\ t.jobs = s.jobs \ {d} /\ t.source = s.source
              /\ t.status = s.status
         /\ LET t == OcrFailed(s, d) IN
              /\ \A e \in Documents : t.doc[e].kind = s.doc[e].kind
              /\ \A e \in Documents \ {d} : t.doc[e].status = s.doc[e].status
              /\ t.doc[d].status = "ocr_error" /\ t.jobs = s.jobs \ {d} /\ t.source = s.source
              /\ t.status = "ocr_error"
         /\ \A o \in Outcomes : LET t == OcrFinished(s, d, o) IN
              /\ \A e \in Documents : t.doc[e].kind = s.doc[e].kind
              /\ \A e \in Documents \ {d} : t.doc[e].status = s.doc[e].status
              /\ t.doc[d].status \in DocumentStatuses \ {"uploaded", "archived"}
              /\ t.jobs = s.jobs \ {d} /\ t.source = s.source
              /\ t.status \in {"in_review", "suspicious", "ocr_error"}
PROOF
<1>1. s.doc[d] \in Document /\ s.doc \in [Documents -> Document] BY RowsType
<1> DEFINE row(status) == [s.doc[d] EXCEPT !.status = status, !.queued = FALSE]
<1>2. ASSUME NEW status \in DocumentStatuses
      PROVE  /\ row(status).status = status
             /\ row(status).kind = s.doc[d].kind
             /\ row(status) = [[s.doc[d] EXCEPT !.queued = FALSE] EXCEPT !.status = status]
  BY <1>1 DEF Document
<1> DEFINE read(status) == [s.doc EXCEPT ![d] = row(status)]
<1>3. ASSUME NEW status \in DocumentStatuses
      PROVE  /\ \A e \in Documents : read(status)[e].kind = s.doc[e].kind
             /\ \A e \in Documents \ {d} : read(status)[e].status = s.doc[e].status
             /\ read(status)[d].status = status
  <2> HIDE DEF row
  <2> QED BY <1>1, <1>2
<1>4. /\ StoredOnly(s, d).doc = read("confirmed")
      /\ StoredOnly(s, d).jobs = s.jobs \ {d} /\ StoredOnly(s, d).source = s.source
      /\ StoredOnly(s, d).status = s.status
  BY <1>1 DEF StoredOnly, Database, Document
<1>5. /\ OcrFailed(s, d).doc = read("ocr_error")
      /\ OcrFailed(s, d).jobs = s.jobs \ {d} /\ OcrFailed(s, d).source = s.source
      /\ OcrFailed(s, d).status = "ocr_error"
  BY <1>1 DEF OcrFailed, Database, Document
<1>6. ASSUME NEW o \in Outcomes
      PROVE  LET t == OcrFinished(s, d, o) IN
             /\ \E status \in DocumentStatuses \ {"uploaded", "archived"} :
                  t.doc = read(status)
             /\ t.jobs = s.jobs \ {d} /\ t.source = s.source
             /\ t.status \in {"in_review", "suspicious", "ocr_error"}
  <2> HIDE DEF row
  <2> DEFINE status == CASE o.fields = "most" -> "recognized"
                         [] o.fields = "some" -> "partially_recognized"
                         [] o.fields = "none_pdf" -> "ocr_error"
                         [] o.fields = "none_image" -> "needs_review"
             base == [s EXCEPT !.jobs = @ \ {d}, !.doc[d].queued = FALSE, !.doc[d].status = status]
  <2>1. o.fields \in {"most", "some", "none_pdf", "none_image"}
    BY RecognitionsAssumption DEF Outcomes, Outcome
  <2>2. status \in DocumentStatuses \ {"uploaded", "archived"}
    BY <2>1 DEF DocumentStatuses
  <2>3. OcrFinished(s, d, o) =
          [base EXCEPT
            !.checks = [c \in Findings |-> IF c \in o.found THEN "open" ELSE "none"],
            !.header = o.header, !.service = s.service \/ o.service, !.linked = s.linked \/ o.linked,
            !.preliminary = TRUE,
            !.status = IF o.fields \in {"none_pdf", "none_image"} THEN "ocr_error"
                       ELSE IF "blocking" \in o.found THEN "suspicious" ELSE "in_review"]
    BY DEF OcrFinished
  <2> HIDE DEF status
  <2>4. base \in Database
    BY <2>2, RunRow
  <2>5. /\ base.doc = [s.doc EXCEPT ![d] = [[s.doc[d] EXCEPT !.queued = FALSE] EXCEPT !.status = status]]
        /\ base.source = s.source /\ base.jobs = s.jobs \ {d}
    BY <1>1 DEF Database
  <2> HIDE DEF base
  <2>6. LET t == OcrFinished(s, d, o) IN
        /\ t.doc = base.doc /\ t.source = base.source /\ t.jobs = base.jobs
        /\ t.status \in {"in_review", "suspicious", "ocr_error"}
    BY <2>3, <2>4 DEF Database
  <2> QED BY <1>2, <2>2, <2>5, <2>6
<1> HIDE DEF row, read
<1>7. {"confirmed", "ocr_error"} \subseteq DocumentStatuses
  BY DEF DocumentStatuses
<1>8. LET t == StoredOnly(s, d) IN
        /\ \A e \in Documents : t.doc[e].kind = s.doc[e].kind
        /\ \A e \in Documents \ {d} : t.doc[e].status = s.doc[e].status
        /\ t.doc[d].status = "confirmed"
  BY <1>3, <1>4, <1>7
<1>9. LET t == OcrFailed(s, d) IN
        /\ \A e \in Documents : t.doc[e].kind = s.doc[e].kind
        /\ \A e \in Documents \ {d} : t.doc[e].status = s.doc[e].status
        /\ t.doc[d].status = "ocr_error"
  BY <1>3, <1>5, <1>7
<1>10. ASSUME NEW o \in Outcomes
       PROVE  LET t == OcrFinished(s, d, o) IN
              /\ \A e \in Documents : t.doc[e].kind = s.doc[e].kind
              /\ \A e \in Documents \ {d} : t.doc[e].status = s.doc[e].status
              /\ t.doc[d].status \in DocumentStatuses \ {"uploaded", "archived"}
  <2> DEFINE t == OcrFinished(s, d, o)
  <2>1. PICK status \in DocumentStatuses \ {"uploaded", "archived"} :
          t.doc = read(status)
    BY <1>6
  <2> HIDE DEF t
  <2>2. status \in DocumentStatuses OBVIOUS
  <2>3. /\ \A e \in Documents : t.doc[e].kind = s.doc[e].kind
        /\ \A e \in Documents \ {d} : t.doc[e].status = s.doc[e].status
        /\ t.doc[d].status = status
    BY <1>3, <2>1, <2>2
  <2> QED BY <2>3 DEF t
<1> QED BY <1>4, <1>5, <1>6, <1>8, <1>9, <1>10

LEMMA RepairArchivedEffect ==
  ASSUME NEW s \in Database
  PROVE  /\ \A e \in Documents :
              RepairArchived(s).doc[e].status = IF e \in Present(s) THEN "archived" ELSE s.doc[e].status
         /\ RepairArchived(s).status = "archived" /\ RepairArchived(s).jobs = s.jobs
PROOF
<1>1. ASSUME NEW e \in Documents
      PROVE  RepairArchived(s).doc[e].status = IF e \in Present(s) THEN "archived" ELSE s.doc[e].status
  <2>1. RepairArchived(s).doc[e] =
          IF e \in Present(s) THEN [s.doc[e] EXCEPT !.status = "archived", !.primary = FALSE]
          ELSE s.doc[e]
    BY DEF RepairArchived, Database
  <2>2. s.doc[e] \in Document BY RowsType
  <2> QED BY <2>1, <2>2 DEF Document
<1> QED BY <1>1 DEF RepairArchived, Database

LEMMA RepairRestoredEffect ==
  ASSUME NEW s \in Database
  PROVE  /\ \A e \in Documents :
              RepairRestored(s).doc[e].status =
                IF s.doc[e].status = "archived" THEN "needs_review" ELSE s.doc[e].status
         /\ RepairRestored(s).status = "in_review" /\ RepairRestored(s).jobs = s.jobs
PROOF
<1> DEFINE rows == [e \in Documents |-> IF s.doc[e].status = "archived"
                                        THEN [s.doc[e] EXCEPT !.status = "needs_review"]
                                        ELSE s.doc[e]]
           u == [s EXCEPT !.status = "in_review", !.preliminary = TRUE, !.doc = rows]
<1>1. ASSUME NEW e \in Documents
      PROVE  /\ rows[e] \in Document
             /\ rows[e].status = IF s.doc[e].status = "archived" THEN "needs_review" ELSE s.doc[e].status
  <2>1. s.doc[e] \in Document BY RowsType
  <2> QED BY <2>1 DEF Document, DocumentStatuses
<1>2. rows \in [Documents -> Document] BY <1>1
<1>3. RepairRestored(s) = Normalized(u) BY DEF RepairRestored
<1> HIDE DEF rows
<1>4. u \in Database /\ u.doc = rows /\ u.status = "in_review" /\ u.jobs = s.jobs
  BY <1>2 DEF Database, RepairStatuses
<1> HIDE DEF u
<1>5. /\ \A e \in Documents : Normalized(u).doc[e].status = u.doc[e].status
      /\ Normalized(u).status = u.status /\ Normalized(u).jobs = u.jobs
  BY <1>4, NormalizedEffect
<1> QED BY <1>1, <1>3, <1>4, <1>5

(* An edit of the repair's own fields leaves its documents and its jobs.    *)
KeepsDocuments(s, t) == t.doc = s.doc /\ t.source = s.source /\ t.jobs = s.jobs

LEMMA EditEffect ==
  ASSUME NEW s \in Database
  PROVE  /\ \A h \in BOOLEAN : [s EXCEPT !.header = h] \in Database
                               /\ KeepsDocuments(s, [s EXCEPT !.header = h])
         /\ \A on \in BOOLEAN : KeepsDocuments(s, WithService(s, on))
                                /\ WithService(s, on).status = s.status
         /\ KeepsDocuments(s, Refreshed(s)) /\ Refreshed(s).status \in {"suspicious", "in_review"}
         /\ \A c \in Findings, v \in {"open", "resolved"} :
              KeepsDocuments(s, [s EXCEPT !.checks[c] = v])
BY DEF KeepsDocuments, WithService, Refreshed, Database

LEMMA EditStep ==
  ASSUME TypeOK, PrimaryAligned, ReviewSound, WaitingHasJob, DraftIsUnread,
         KeepsDocuments(db, db'), UNCHANGED patched,
         db'.status = "draft" /\ ~direct' => db.status = "draft" /\ ~direct,
         db.status = "archived" => db'.status \in {"archived", "in_review"}
  PROVE  Promises
BY NoRowStep DEF KeepsDocuments

LEMMA PromisesStep ==
  ASSUME TypeOK, PrimaryAligned, ReviewSound, WaitingHasJob, DraftIsUnread, [Next]_vars
  PROVE  Promises
PROOF
<1> USE DEF TypeOK
<1>0. CASE UNCHANGED vars
  BY <1>0, NoRowStep DEF vars
<1>1. ASSUME NEW kind \in UploadKinds, UploadToRepair(kind) PROVE Promises
  <2>1. PICK d \in Documents : d \notin Present(db) /\ db' = Uploaded(db, d, kind)
    BY <1>1 DEF UploadToRepair
  <2>2. db.doc[d].status = "absent" BY <2>1 DEF Present
  <2> QED BY <1>1, <2>1, <2>2, UploadedEffect, OneRowStep DEF UploadToRepair, Operational
<1>2. ASSUME NEW status \in EditStatuses, NEW preliminary \in BOOLEAN, NEW header \in BOOLEAN,
             NEW service \in {"as_is", "set", "cleared"},
             UpdateRepair(status, preliminary, header, service)
      PROVE  Promises
  <2> DEFINE t == [db EXCEPT !.status = IF status = "as_is" THEN @ ELSE status,
                             !.preliminary = preliminary, !.header = header]
  <2>1. t \in Database /\ KeepsDocuments(db, t)
    BY EditAssumption DEF Database, KeepsDocuments
  <2> HIDE DEF t
  <2>2. KeepsDocuments(t, WithService(t, service = "set"))
    BY <2>1, EditEffect
  <2>3. db' = t \/ db' = WithService(t, service = "set")
    BY <1>2 DEF UpdateRepair, t
  <2>4. KeepsDocuments(db, db')
    BY <2>1, <2>2, <2>3 DEF KeepsDocuments
  <2> QED BY <1>2, <2>4, EditStep DEF UpdateRepair, Operational
<1>3. ASSUME NEW on \in BOOLEAN, UpdateFields(on) \/ UpdateService(on) PROVE Promises
  <2> DEFINE t == [db EXCEPT !.header = on]
  <2>1. t \in Database /\ KeepsDocuments(db, t) BY EditEffect
  <2>2. WithService(db, on) \in Database /\ KeepsDocuments(db, WithService(db, on))
    BY EditEffect, WithServiceType
  <2>3. db' = Refreshed(t) \/ db' = Refreshed(WithService(db, on))
    BY <1>3 DEF UpdateFields, UpdateService
  <2> HIDE DEF t
  <2>4. KeepsDocuments(db, db') /\ db'.status \in {"suspicious", "in_review"}
    BY <2>1, <2>2, <2>3, EditEffect DEF KeepsDocuments
  <2> QED BY <1>3, <2>4, EditStep DEF UpdateFields, UpdateService, Operational
<1>4. ASSUME NEW c \in Findings, NEW resolved \in BOOLEAN, UpdateCheck(c, resolved) PROVE Promises
  <2> DEFINE v == IF resolved THEN "resolved" ELSE "open"
             t == [db EXCEPT !.checks[c] = v]
  <2>1. v \in {"open", "resolved"} OBVIOUS
  <2>2. t \in Database BY <2>1 DEF Database
  <2>3. db' = Refreshed(t) BY <1>4 DEF UpdateCheck
  <2> HIDE DEF v
  <2>4. KeepsDocuments(db, t) BY <2>1, EditEffect
  <2> HIDE DEF t
  <2>5. KeepsDocuments(db, db') /\ db'.status \in {"suspicious", "in_review"}
    BY <2>2, <2>3, <2>4, EditEffect DEF KeepsDocuments
  <2> QED BY <1>4, <2>5, EditStep DEF UpdateCheck, Operational
<1>5. CASE ArchiveRepair
  <2>1. /\ \A e \in Documents :
             db'.doc[e].status = IF e \in Present(db) THEN "archived" ELSE db.doc[e].status
        /\ db'.status = "archived" /\ patched' = {}
    BY <1>5, RepairArchivedEffect DEF ArchiveRepair
  <2>2. \A e \in Documents : db'.doc[e].status \in {"archived", "absent"}
    BY <2>1 DEF Present
  <2>3. WaitingHasJob' BY <2>2 DEF WaitingHasJob
  <2>4. DraftIsUnread' BY <2>1 DEF DraftIsUnread
  <2>5. LeavesArchive BY <2>1, <2>2 DEF LeavesArchive, Present
  <2>6. Reopens BY <2>1 DEF Reopens
  <2> QED BY <2>3, <2>4, <2>5, <2>6 DEF Promises
<1>6. CASE RestoreRepair
  <2>1. /\ \A e \in Documents :
             db'.doc[e].status =
               IF db.doc[e].status = "archived" THEN "needs_review" ELSE db.doc[e].status
        /\ db'.status = "in_review" /\ db'.jobs = db.jobs /\ patched' = patched
    BY <1>6, RepairRestoredEffect DEF RestoreRepair
  <2>2. WaitingHasJob' BY <2>1 DEF WaitingHasJob
  <2>3. DraftIsUnread' BY <2>1 DEF DraftIsUnread
  <2>4. LeavesArchive BY <2>1 DEF LeavesArchive
  <2>5. Reopens BY <2>1 DEF Reopens
  <2> QED BY <2>2, <2>3, <2>4, <2>5 DEF Promises
<1>7. CASE ArchiveParent \/ RestoreParent
  <2>1. KeepsDocuments(db, db') /\ db'.status = db.status
    BY <1>7 DEF ArchiveParent, RestoreParent, KeepsDocuments, Database
  <2> QED BY <1>7, <2>1, EditStep DEF ArchiveParent, RestoreParent
<1> SUFFICES ASSUME NEW d \in Documents,
                    \/ Process(d) \/ LinkVehicle(d) \/ ArchiveDocument(d) \/ RestoreDocument(d)
                    \/ SetPrimary(d) \/ ReviewComparison(d, TRUE) \/ ReviewComparison(d, FALSE)
                    \/ \E status \in PatchStatuses : UpdateDocument(d, status)
                    \/ ConfirmByEmployee(d) \/ ConfirmByAdmin(d) \/ SendToReview(d)
                    \/ RunRejected(d) \/ RunFailed(d) \/ RunStored(d) \/ RunFinished(d)
             PROVE  Promises
  BY <1>0, <1>1, <1>2, <1>3, <1>4, <1>5, <1>6, <1>7, NextSteps
<1>8. CASE Process(d) \/ LinkVehicle(d)
  <2> DEFINE linked == [db EXCEPT !.linked = TRUE,
                                  !.checks = [c \in Findings |->
                                    IF c = "vehicle" /\ db.checks[c] # "none" THEN "resolved"
                                    ELSE db.checks[c]]]
  <2>1. linked \in Database /\ KeepsDocuments(db, linked) /\ linked.status = db.status
    BY VehicleLinkedType DEF KeepsDocuments, Database
  <2>2. db' = Rechecked(db, d) \/ db' = Rechecked(linked, d)
    BY <1>8 DEF Process, LinkVehicle
  <2> HIDE DEF linked
  <2>3. PICK s \in Database : db' = Rechecked(s, d) /\ KeepsDocuments(db, s) /\ s.status = db.status
    BY <2>1, <2>2 DEF KeepsDocuments
  <2>4. /\ \A e \in Documents \ {d} : db'.doc[e] = db.doc[e]
        /\ db'.doc[d] = db.doc[d] \/ db'.doc[d].status = "uploaded"
        /\ db'.doc[d].kind = db.doc[d].kind
        /\ db'.jobs = db.jobs \cup {d} /\ db'.source = db.source
        /\ db'.status \in {db.status, "in_review"}
    BY <2>3, RecheckedEffect DEF KeepsDocuments
  <2>5. patched \ {d} \subseteq patched' /\ (db'.doc[d] = db.doc[d] => patched' = patched)
        /\ direct' = direct
    BY <1>8 DEF Process, LinkVehicle
  <2>6. d \in Live(db) /\ db.doc[d].status # "archived" /\ db.status # "archived"
    BY <1>8 DEF Process, LinkVehicle, Usable, Operational, Live
  <2>7. CASE db'.doc[d] = db.doc[d]
    BY <2>4, <2>5, <2>6, <2>7, NoRowStep
  <2>8. CASE db'.doc[d].status = "uploaded"
    BY <2>4, <2>5, <2>6, <2>8, OneRowStep
  <2> QED BY <2>4, <2>7, <2>8
<1>9. CASE ArchiveDocument(d)
  <2>1. /\ db' = DocumentArchived(db, d) /\ d \in Live(db) /\ db.status # "archived"
        /\ patched' = patched \ {d} /\ direct' = direct
    BY <1>9 DEF ArchiveDocument, Usable, Operational
  <2> QED BY <2>1, DocumentArchivedEffect, OneRowStep
<1>10. CASE RestoreDocument(d)
  <2>1. /\ db' = DocumentRestored(db, d) /\ db.status # "archived"
        /\ patched' = patched /\ direct' = direct
    BY <1>10 DEF RestoreDocument, CanRestoreDocument, Operational
  <2> QED BY <2>1, DocumentRestoredEffect, OneRowStep
<1>11. CASE SetPrimary(d) \/ ReviewComparison(d, TRUE)
  <2> DEFINE t == WithPrimary(db, d)
  <2>1. /\ db' = Reopened(t) \/ (db' = t /\ Candidate(db) = d)
        /\ d \in Eligible(db)
        /\ db.status # "archived" /\ patched' = patched /\ direct' = direct
    BY <1>11 DEF SetPrimary, ReviewComparison, CanMakePrimary, Usable, Operational, PrimarySet, Eligible
  <2>2. /\ t \in Database /\ t.status = db.status /\ t.jobs = db.jobs /\ t.source = d
        /\ \A e \in Documents : t.doc[e].status = db.doc[e].status /\ t.doc[e].kind = db.doc[e].kind
    BY WithPrimaryType, WithPrimaryEffect
  <2> HIDE DEF t
  <2>3. CASE db' = t /\ Candidate(db) = d
    <3>1. db.source = d
      BY <2>1, <2>3 DEF PrimaryAligned, Aligned, Candidate
    <3>2. QED
      BY <2>1, <2>2, <2>3, <3>1, NoRowStep
  <2>4. CASE db' = Reopened(t)
    BY <2>1, <2>2, <2>4, ReopenedEffect, NoRowStep
  <2> QED BY <2>1, <2>3, <2>4
<1>12. CASE ReviewComparison(d, FALSE)
  <2>1. /\ db' = WithPrimary(db, Candidate(db)) /\ Candidate(db) \in Documents
        /\ db.status # "archived" /\ patched' = patched /\ direct' = direct
    BY <1>12, CandidateIsEligible DEF ReviewComparison, Usable, Operational, Eligible, Live, Present
  <2>2. db.source = Candidate(db)
    BY <2>1, CandidateIsEligible DEF PrimaryAligned, Aligned, Candidate
  <2> QED BY <2>1, <2>2, WithPrimaryEffect, NoRowStep
<1>13. ASSUME NEW status \in PatchStatuses, UpdateDocument(d, status) PROVE Promises
  <2>1. /\ db' = [db EXCEPT !.doc[d].status = status] /\ d \in Live(db) /\ status # "archived"
        /\ status \in DocumentStatuses /\ patched' = patched \cup {d} /\ direct' = direct
    BY <1>13, EditAssumption DEF UpdateDocument
  <2>2. status # "absent" BY <2>1 DEF DocumentStatuses
  <2>3. /\ \A e \in Documents : /\ db'.doc[e].status = IF e = d THEN status ELSE db.doc[e].status
                                /\ db'.doc[e].kind = db.doc[e].kind
        /\ db'.source = db.source /\ db'.status = db.status /\ db'.jobs = db.jobs
    BY <2>1, StatusSetEffect
  <2>4. db.doc[d].status # "archived" BY <2>1 DEF Live
  <2> QED BY <2>1, <2>2, <2>3, <2>4, OneRowStep
<1>14. CASE ConfirmByEmployee(d) \/ ConfirmByAdmin(d) \/ SendToReview(d)
  <2>1. PICK st \in {"confirmed", "needs_review"}, rs \in RepairStatuses, p \in BOOLEAN :
          /\ db' = [db EXCEPT !.doc[d].status = st, !.status = rs, !.preliminary = p]
          /\ rs \in {"employee_confirmed", "confirmed", "in_review"}
    BY <1>14 DEF ConfirmByEmployee, ConfirmByAdmin, SendToReview, EmployeeConfirmed, Confirmed,
                 SentToReview, RepairStatuses
  <2>2. d \in Live(db) /\ db.status # "archived" /\ patched' = patched \ {d}
    BY <1>14 DEF ConfirmByEmployee, ConfirmByAdmin, SendToReview, CanConfirm, InReviewQueue,
                 Eligible, Operational
  <2>3. /\ \A e \in Documents : /\ db'.doc[e].status = IF e = d THEN st ELSE db.doc[e].status
                                /\ db'.doc[e].kind = db.doc[e].kind
        /\ db'.source = db.source /\ db'.status = rs /\ db'.jobs = db.jobs
    BY <2>1, ReviewedEffect
  <2>4. db.doc[d].status # "archived" BY <2>2 DEF Live
  <2> QED BY <2>1, <2>2, <2>3, <2>4, OneRowStep
<1>15. CASE RunRejected(d)
  <2>1. /\ db' = [db EXCEPT !.jobs = @ \ {d}] /\ ~Usable(db, d)
        /\ patched' = patched /\ direct' = direct
    BY <1>15 DEF RunRejected
  <2>2. /\ db'.doc = db.doc /\ db'.source = db.source /\ db'.status = db.status
        /\ db'.jobs = db.jobs \ {d}
    BY <2>1 DEF Database
  <2>3. d \notin Live(db)
    BY <2>1 DEF Usable, Operational, ReviewSound, ArchiveIsClosed
  <2>4. db.doc[d].status \in {"archived", "absent"}
    BY <2>3 DEF Live, Present
  <2> QED BY <2>1, <2>2, <2>3, <2>4, OneRowStep
<1>16. CASE RunFailed(d) \/ RunStored(d) \/ RunFinished(d)
  <2>1. /\ d \in Live(db) /\ db.status # "archived" /\ patched' = patched \ {d}
        /\ direct' = direct \/ db'.status # "draft"
    BY <1>16, RunEffect DEF RunFailed, RunStored, RunFinished, Usable, Operational
  <2>2. /\ \A e \in Documents : db'.doc[e].kind = db.doc[e].kind
        /\ \A e \in Documents \ {d} : db'.doc[e].status = db.doc[e].status
        /\ db'.doc[d].status \in DocumentStatuses \ {"uploaded", "archived"}
        /\ db'.jobs = db.jobs \ {d} /\ db'.source = db.source
        /\ \/ db'.status = db.status /\ db.doc[d].kind \notin PrimaryKinds /\ direct' = direct
           \/ db'.status \in {"in_review", "suspicious", "ocr_error"}
    BY <1>16, RunEffect DEF RunFailed, RunStored, RunFinished, DocumentStatuses
  <2>3. db'.doc[d].status # "absent" BY <2>2 DEF DocumentStatuses
  <2>4. db.doc[d].status # "archived" BY <2>1 DEF Live
  <2> QED BY <2>1, <2>2, <2>3, <2>4, OneRowStep
<1> QED BY <1>8, <1>9, <1>10, <1>11, <1>12, <1>13, <1>14, <1>15, <1>16

LEMMA InitPromises ==
  ASSUME Init
  PROVE  WaitingHasJob /\ DraftIsUnread
PROOF
<1>1. 1 \in Documents BY MaxDocumentsAssumption DEF Documents
<1>2. CASE db = Imported /\ direct = TRUE
  BY <1>2 DEF Imported, NoSuchDocument, WaitingHasJob, DraftIsUnread
<1>3. ASSUME NEW kind \in UploadKinds, NEW linked \in BOOLEAN, db = DraftOf(kind, linked)
      PROVE  WaitingHasJob /\ DraftIsUnread
  <2>1. /\ db.doc[1].status = "uploaded" /\ db.jobs = {1}
        /\ \A d \in Documents \ {1} : db.doc[d].status = "absent"
    BY <1>1, <1>3 DEF DraftOf, NewDocument, NoSuchDocument
  <2> QED BY <2>1 DEF WaitingHasJob, DraftIsUnread, Eligible, Live, Present
<1> QED BY <1>2, <1>3 DEF Init

LEMMA PromisesInvariant ==
  Spec => [](TypeOK /\ PrimaryAligned /\ ReviewSound /\ WaitingHasJob /\ DraftIsUnread)
PROOF
<1>1. Init => TypeOK /\ PrimaryAligned /\ ReviewSound /\ WaitingHasJob /\ DraftIsUnread
  BY InitType, InitAligned, InitReview, InitPromises
<1>2. TypeOK /\ PrimaryAligned /\ ReviewSound /\ WaitingHasJob /\ DraftIsUnread /\ [Next]_vars
        => (TypeOK /\ PrimaryAligned /\ ReviewSound /\ WaitingHasJob /\ DraftIsUnread)'
  BY TypeStep, AlignedStep, ReviewStep, PromisesStep DEF Promises
<1> QED BY <1>1, <1>2, PTL DEF Spec

(* Only a draft is not in the queue whatever its documents say.             *)
LEMMA QueuedBecauseRead ==
  ASSUME TypeOK, DraftIsUnread
  PROVE  NoDeadEnd
<1> SUFFICES ASSUME ~direct, patched = {}, Operational(db), db.status # "confirmed",
                    NEW d \in Eligible(db), \A e \in Eligible(db) : db.doc[e].status # "uploaded"
             PROVE  InReviewQueue(db, d)
  BY DEF NoDeadEnd
<1>1. db.status \in RepairStatuses \ {"confirmed", "archived"}
  BY DEF TypeOK, Database, Operational
<1>2. CASE db.status = "draft"
  <2>1. db.doc[d].status = "needs_review"
    BY <1>2 DEF DraftIsUnread
  <2>2. QED
    BY <2>1 DEF InReviewQueue, ReviewableDocumentStatuses
<1>3. CASE db.status # "draft"
  BY <1>1, <1>3 DEF InReviewQueue, RepairStatuses, ReviewableRepairStatuses
<1>4. QED
  BY <1>2, <1>3

(* The queue shows a document of every open repair that has been read.      *)
THEOREM EveryOpenRepairIsInTheQueue == Spec => []NoDeadEnd
BY QueuedBecauseRead, PromisesInvariant, PTL

(* A confirmation does not outlive the documents it was given for.          *)
THEOREM ConfirmationIsForTheseDocuments == Spec => DocumentsReopen
PROOF
<1>1. TypeOK /\ PrimaryAligned /\ ReviewSound /\ WaitingHasJob /\ DraftIsUnread /\ [Next]_vars
        => [db.status \in {"employee_confirmed", "confirmed"} /\ Composition(db') # Composition(db)
            => db'.status \in {"in_review", "archived"}]_vars
  BY PromisesStep DEF Promises, Reopens
<1> QED BY <1>1, PromisesInvariant, PTL DEF Spec, DocumentsReopen

-----------------------------------------------------------------------------
(* What a slow transaction cannot break.  The argument splits a step in two: *)
(* a handler that runs at once keeps the repair tidy on its own, and a       *)
(* transaction that read earlier writes only what it changed.                *)

(* The pointer and the flags agree; unlike Aligned, a repair with eligible  *)
(* documents need not have a primary one.                                   *)
Agrees(s) ==
  /\ \A d \in Documents : s.doc[d].primary <=> s.source = d
  /\ s.source # NoDocument => s.source \in Eligible(s)

(* What a handler leaves live below an archived repair, and eligible        *)
(* without a primary document, was so before.                               *)
Tidy(s, t) ==
  /\ t.status = "archived" =>
       Live(t) = {} \/ (s.status = "archived" /\ Live(t) \subseteq Live(s))
  /\ t.source = NoDocument =>
       Eligible(t) = {} \/ (s.source = NoDocument /\ Eligible(t) \subseteq Eligible(s))
  /\ Present(s) \subseteq Present(t)
  /\ Agrees(s) => Agrees(t)

-----------------------------------------------------------------------------
(* The operators. *)

(* No document enters or leaves the live ones, and the pointer stays. *)
SameDocuments(s, t) ==
  /\ t.source = s.source
  /\ \A d \in Documents :
       /\ t.doc[d].kind = s.doc[d].kind
       /\ t.doc[d].primary = s.doc[d].primary
       /\ t.doc[d].status = "absent" <=> s.doc[d].status = "absent"
       /\ t.doc[d].status = "archived" <=> s.doc[d].status = "archived"

LEMMA SameDocumentsTidy ==
  ASSUME NEW s, NEW t, SameDocuments(s, t), t.status = "archived" => s.status = "archived"
  PROVE  Tidy(s, t)
<1>1. Present(t) = Present(s) /\ Live(t) = Live(s) /\ Eligible(t) = Eligible(s)
  BY DEF SameDocuments, Present, Live, Eligible
<1>2. QED
  BY <1>1 DEF Tidy, Agrees, SameDocuments

LEMMA PrimaryAgreement ==
  ASSUME NEW s \in Database
  PROVE  /\ Agrees(Normalized(s))
         /\ Normalized(s).source = NoDocument => Eligible(Normalized(s)) = {}
         /\ \A d \in Eligible(s) : /\ Agrees(WithPrimary(s, d))
                                   /\ WithPrimary(s, d).source # NoDocument
<1>1. Aligned(Normalized(s))
  BY NormalizedAligned
<1>2. ASSUME NEW d \in Eligible(s) PROVE Aligned(WithPrimary(s, d)) /\ WithPrimary(s, d).source = d
  <2>1. d \in Documents
    BY DEF Eligible, Live, Present
  <2>2. QED
    BY <1>2, <2>1, WithPrimaryAligned, WithPrimaryEffect
<1>3. \A d \in Eligible(s) : d # NoDocument
  BY MaxDocumentsAssumption DEF Eligible, Live, Present, Documents, NoDocument
<1>4. QED
  BY <1>1, <1>2, <1>3 DEF Aligned, Agrees

(* Reopening touches no document. *)
LEMMA ReopenedDocuments ==
  ASSUME NEW s \in Database
  PROVE  /\ Agrees(s) => Agrees(Reopened(s))
         /\ Live(Reopened(s)) = Live(s) /\ Eligible(Reopened(s)) = Eligible(s)
         /\ Present(Reopened(s)) = Present(s)
  BY ReopenedEffect DEF Agrees, Eligible, Live, Present

LEMMA RecheckedSame ==
  ASSUME NEW s \in Database, NEW d \in Live(s)
  PROVE  SameDocuments(s, Rechecked(s, d))
<1> DEFINE t == [s EXCEPT !.jobs = @ \cup {d}]
           row == [s.doc[d] EXCEPT !.status = "uploaded", !.queued = TRUE]
           u == [Reopened(t) EXCEPT !.doc[d].status = "uploaded", !.doc[d].queued = TRUE]
<1>1. d \in Documents /\ s.doc[d].status \notin {"absent", "archived"}
  BY DEF Live, Present
<1>2. t \in Database /\ t.doc = s.doc /\ t.source = s.source
  BY <1>1 DEF Database
<1>3. Reopened(t) \in Database /\ Reopened(t).doc = s.doc /\ Reopened(t).source = s.source
  BY <1>2, ReopenedType, ReopenedSame
<1>4. s.doc[d] \in Document /\ s.doc \in [Documents -> Document]
  BY <1>1, RowsType
<1>5. /\ u.source = s.source
      /\ \A e \in Documents : u.doc[e] = IF e = d THEN row ELSE s.doc[e]
  BY <1>1, <1>3, <1>4 DEF Database
<1>6. row.kind = s.doc[d].kind /\ row.primary = s.doc[d].primary /\ row.status = "uploaded"
  BY <1>4 DEF Document
<1> HIDE DEF row, u
<1>7. SameDocuments(s, u)
  BY <1>1, <1>4, <1>5, <1>6 DEF SameDocuments
<1>8. SameDocuments(s, t)
  BY <1>2 DEF SameDocuments
<1>9. Rechecked(s, d) \in {t, u}
  BY DEF Rechecked, u
<1>10. QED
  BY <1>7, <1>8, <1>9

(* A run writes the status of its document, never the pointer or a flag. *)
RunWrote(s, d, t) ==
  /\ t.source = s.source
  /\ \A e \in Documents : /\ t.doc[e].kind = s.doc[e].kind
                          /\ t.doc[e].primary = s.doc[e].primary
  /\ \A e \in Documents \ {d} : t.doc[e].status = s.doc[e].status
  /\ t.doc[d].status \notin {"absent", "archived"}
  /\ t.status = s.status \/ t.status # "archived"

LEMMA RunWroteOnly ==
  ASSUME NEW s \in Database, NEW d \in Documents
  PROVE  /\ RunWrote(s, d, StoredOnly(s, d))
         /\ RunWrote(s, d, OcrFailed(s, d))
         /\ \A o \in Outcomes : RunWrote(s, d, OcrFinished(s, d, o))
<1>1. s.doc[d] \in Document /\ s.doc \in [Documents -> Document]
  BY RowsType
<1>2. ASSUME NEW e \in Documents
      PROVE  /\ StoredOnly(s, d).doc[e].primary = s.doc[e].primary
             /\ OcrFailed(s, d).doc[e].primary = s.doc[e].primary
  BY <1>1 DEF StoredOnly, OcrFailed, Database, Document
<1>3. ASSUME NEW o \in Outcomes, NEW e \in Documents
      PROVE  OcrFinished(s, d, o).doc[e].primary = s.doc[e].primary
  <2> DEFINE status == CASE o.fields = "most" -> "recognized"
                         [] o.fields = "some" -> "partially_recognized"
                         [] o.fields = "none_pdf" -> "ocr_error"
                         [] o.fields = "none_image" -> "needs_review"
             rows == [s.doc EXCEPT ![d].queued = FALSE, ![d].status = status]
  <2>1. OcrFinished(s, d, o).doc = rows
    <3> HIDE DEF status
    <3>1. OcrFinished(s, d, o) = [s EXCEPT
            !.jobs = @ \ {d}, !.doc[d].queued = FALSE, !.doc[d].status = status,
            !.checks = [c \in Findings |-> IF c \in o.found THEN "open" ELSE "none"],
            !.header = o.header, !.service = @ \/ o.service, !.linked = @ \/ o.linked,
            !.preliminary = TRUE,
            !.status = IF o.fields \in {"none_pdf", "none_image"} THEN "ocr_error"
                       ELSE IF "blocking" \in o.found THEN "suspicious" ELSE "in_review"]
      BY DEF OcrFinished, status
    <3>2. QED
      BY <3>1 DEF Database
  <2> HIDE DEF status
  <2>2. rows[e].primary = s.doc[e].primary
    BY <1>1 DEF Document
  <2>3. QED
    BY <2>1, <2>2
<1>4. RunWrote(s, d, StoredOnly(s, d))
  BY <1>2, RunEffect DEF RunWrote
<1>5. RunWrote(s, d, OcrFailed(s, d))
  BY <1>2, RunEffect DEF RunWrote
<1>6. ASSUME NEW o \in Outcomes PROVE RunWrote(s, d, OcrFinished(s, d, o))
  <2>1. OcrFinished(s, d, o).doc[d].status \notin {"absent", "archived"}
    BY RunEffect DEF DocumentStatuses
  <2>2. QED
    BY <1>3, <2>1, RunEffect DEF RunWrote
<1>7. QED
  BY <1>4, <1>5, <1>6

LEMMA RunWroteSame ==
  ASSUME NEW s \in Database, NEW d \in Live(s), NEW t, RunWrote(s, d, t)
  PROVE  SameDocuments(s, t)
  BY DEF RunWrote, SameDocuments, Live, Present

(* One document gets another status than "archived" by hand or by a review. *)
LEMMA StatusSame ==
  ASSUME NEW s \in Database, NEW d \in Live(s), NEW status \in DocumentStatuses \ {"archived"},
         NEW rs, NEW p
  PROVE  /\ SameDocuments(s, [s EXCEPT !.doc[d].status = status])
         /\ SameDocuments(s, [s EXCEPT !.doc[d].status = status, !.status = rs, !.preliminary = p])
<1> DEFINE t == [s EXCEPT !.doc[d].status = status]
           u == [s EXCEPT !.doc[d].status = status, !.status = rs, !.preliminary = p]
<1>1. d \in Documents /\ s.doc[d].status \notin {"absent", "archived"}
  BY DEF Live, Present
<1>2. status \notin {"absent", "archived"}
  BY DEF DocumentStatuses
<1>3. s.doc[d] \in Document /\ s.doc \in [Documents -> Document]
  BY <1>1, RowsType
<1>4. /\ t.source = s.source /\ u.source = s.source
      /\ t.doc = [s.doc EXCEPT ![d].status = status] /\ u.doc = [s.doc EXCEPT ![d].status = status]
  BY DEF Database
<1> HIDE DEF t, u
<1>5. ASSUME NEW x, x.source = s.source, x.doc = [s.doc EXCEPT ![d].status = status]
      PROVE  SameDocuments(s, x)
  <2>1. ASSUME NEW e \in Documents
        PROVE  /\ x.doc[e].kind = s.doc[e].kind
               /\ x.doc[e].primary = s.doc[e].primary
               /\ x.doc[e].status = IF e = d THEN status ELSE s.doc[e].status
    <3>1. s.doc[e] \in Document
      BY RowsType
    <3>2. QED
      BY <1>3, <1>5, <3>1 DEF Document
  <2>2. QED
    BY <1>1, <1>2, <1>5, <2>1 DEF SameDocuments
<1>6. SameDocuments(s, t) /\ SameDocuments(s, u)
  BY <1>4, <1>5
<1>7. QED
  BY <1>6 DEF t, u
-----------------------------------------------------------------------------
(* A normalised state is tidy, whatever it came from. *)
LEMMA NormalizedTidy ==
  ASSUME NEW s, NEW u \in Database, NEW t, t.status # "archived",
         Present(s) \subseteq Present(u),
         t \in {Normalized(u), Reopened(Normalized(u))}
  PROVE  Tidy(s, t)
<1> DEFINE n == Normalized(u)
<1>1. n \in Database /\ Agrees(n) /\ (n.source = NoDocument => Eligible(n) = {})
  BY NormalizedType, PrimaryAgreement
<1>2. Present(n) = Present(u)
  BY NormalizedEffect DEF Present
<1>3. t = n \/ t = Reopened(n)
  OBVIOUS
<1> HIDE DEF n
<1>4. /\ Agrees(t) /\ t.source = n.source
      /\ Eligible(t) = Eligible(n) /\ Present(t) = Present(n)
  BY <1>1, <1>3, ReopenedDocuments, ReopenedEffect
<1>5. QED
  BY <1>1, <1>2, <1>4 DEF Tidy

LEMMA UploadedTidy ==
  ASSUME NEW s \in Database, Operational(s), NEW d \in Documents, NEW kind \in UploadKinds
  PROVE  Tidy(s, Uploaded(s, d, kind))
<1> DEFINE u == [Reopened(s) EXCEPT !.doc[d] = NewDocument(kind), !.jobs = @ \cup {d}]
<1>1. NewDocument(kind) \in Document /\ NewDocument(kind).status = "uploaded"
  BY DEF NewDocument, Document, DocumentStatuses
<1>2. u \in Database
  BY <1>1, ReopenedType DEF Database
<1>3. \A e \in Documents : u.doc[e] = IF e = d THEN NewDocument(kind) ELSE s.doc[e]
  BY ReopenedType, ReopenedEffect DEF Database
<1>4. Uploaded(s, d, kind) = Normalized(u)
  BY DEF Uploaded
<1>5. Uploaded(s, d, kind).status # "archived"
  BY UploadedEffect DEF Operational
<1> HIDE DEF u
<1>6. Present(s) \subseteq Present(u)
  BY <1>1, <1>3 DEF Present
<1>7. QED
  BY <1>2, <1>4, <1>5, <1>6, NormalizedTidy

LEMMA DocumentArchivedTidy ==
  ASSUME NEW s \in Database, Operational(s), NEW d \in Live(s)
  PROVE  Tidy(s, DocumentArchived(s, d))
<1> DEFINE u == [s EXCEPT !.doc[d].status = "archived"]
           t == Reopened(u)
<1>1. d \in Documents /\ s.doc[d].status \notin {"absent", "archived"}
  BY DEF Live, Present
<1>2. u \in Database /\ u.source = s.source
  BY <1>1, DocumentSet, StatusSetEffect DEF DocumentStatuses
<1>3. ASSUME NEW e \in Documents
      PROVE  /\ u.doc[e].primary = s.doc[e].primary
             /\ u.doc[e].kind = s.doc[e].kind
             /\ u.doc[e].status = IF e = d THEN "archived" ELSE s.doc[e].status
  <2>1. s.doc[e] \in Document /\ s.doc \in [Documents -> Document]
    BY RowsType
  <2>2. u.doc[e] = IF e = d THEN [s.doc[d] EXCEPT !.status = "archived"] ELSE s.doc[e]
    BY <1>1, <2>1 DEF Database
  <2> HIDE DEF u
  <2>3. QED
    BY <2>1, <2>2 DEF Document
<1>4. t \in Database /\ t.doc = u.doc /\ t.source = s.source
  BY <1>2, ReopenedType, ReopenedSame
<1>5. DocumentArchived(s, d) = IF s.doc[d].primary \/ Candidate(s) = d THEN Normalized(t) ELSE t
  BY DEF DocumentArchived
<1>6. DocumentArchived(s, d).status # "archived"
  BY <1>1, DocumentArchivedEffect DEF Operational
<1> HIDE DEF u, t
<1>7. Present(t) = Present(s) /\ Eligible(t) = Eligible(s) \ {d}
  BY <1>1, <1>3, <1>4 DEF Present, Live, Eligible
<1>8. CASE s.doc[d].primary \/ Candidate(s) = d
  BY <1>4, <1>5, <1>6, <1>7, <1>8, NormalizedTidy
<1>9. CASE ~(s.doc[d].primary \/ Candidate(s) = d)
  <2>1. Agrees(s) => Agrees(t)
    BY <1>1, <1>3, <1>4, <1>7, <1>9 DEF Agrees
  <2>2. QED
    BY <1>4, <1>5, <1>6, <1>7, <1>9, <2>1 DEF Tidy
<1>10. QED
  BY <1>8, <1>9

LEMMA DocumentRestoredTidy ==
  ASSUME NEW s \in Database, NEW d \in Documents, CanRestoreDocument(s, d)
  PROVE  Tidy(s, DocumentRestored(s, d))
<1> DEFINE u == [s EXCEPT !.doc[d].status = "needs_review"]
<1>1. u \in Database
  BY DocumentSet DEF DocumentStatuses
<1>2. \A e \in Documents : u.doc[e].status = IF e = d THEN "needs_review" ELSE s.doc[e].status
  BY StatusSetEffect DEF DocumentStatuses
<1>3. DocumentRestored(s, d) = Reopened(Normalized(u))
  BY DEF DocumentRestored
<1>4. DocumentRestored(s, d).status # "archived"
  BY DocumentRestoredEffect DEF CanRestoreDocument, Operational
<1> HIDE DEF u
<1>5. Present(s) \subseteq Present(u)
  BY <1>2 DEF Present
<1>6. QED
  BY <1>1, <1>3, <1>4, <1>5, NormalizedTidy

LEMMA RepairArchivedTidy ==
  ASSUME NEW s \in Database
  PROVE  Tidy(s, RepairArchived(s))
<1> DEFINE u == RepairArchived(s)
<1>1. u.source = NoDocument
  BY DEF RepairArchived, Database
<1>2. ASSUME NEW d \in Documents
      PROVE  /\ u.doc[d].status = IF d \in Present(s) THEN "archived" ELSE "absent"
             /\ u.doc[d].primary => d \notin Present(s) /\ s.doc[d].primary
  <2>1. s.doc[d] \in Document
    BY RowsType
  <2>2. u.doc[d] = IF d \in Present(s)
                   THEN [s.doc[d] EXCEPT !.status = "archived", !.primary = FALSE]
                   ELSE s.doc[d]
    BY DEF RepairArchived, Database
  <2> HIDE DEF u
  <2>3. QED
    BY <2>1, <2>2 DEF Document, Present
<1> HIDE DEF u
<1>3. Live(u) = {} /\ Eligible(u) = {} /\ Present(u) = Present(s)
  BY <1>2 DEF Eligible, Live, Present
<1>4. NoDocument \notin Documents
  BY MaxDocumentsAssumption DEF NoDocument, Documents
<1>5. Agrees(s) => \A d \in Documents : ~u.doc[d].primary
  BY <1>2, <1>4 DEF Agrees, Eligible, Live
<1>6. Tidy(s, u)
  BY <1>1, <1>3, <1>4, <1>5 DEF Tidy, Agrees
<1>7. QED
  BY <1>6 DEF u

LEMMA RepairRestoredTidy ==
  ASSUME NEW s \in Database
  PROVE  Tidy(s, RepairRestored(s))
<1> DEFINE u == [s EXCEPT !.status = "in_review", !.preliminary = TRUE,
                          !.doc = [d \in Documents |-> IF s.doc[d].status = "archived"
                                     THEN [s.doc[d] EXCEPT !.status = "needs_review"]
                                     ELSE s.doc[d]]]
<1>1. u \in Database
  BY DEF Database, Document, DocumentStatuses, RepairStatuses
<1>2. RepairRestored(s) = Normalized(u)
  BY DEF RepairRestored
<1> HIDE DEF u
<1>3. RepairRestored(s).status # "archived" /\ Present(s) = Present(RepairRestored(s))
  BY RepairRestoredEffect DEF Present
<1>4. Present(Normalized(u)) = Present(u)
  BY <1>1, NormalizedEffect DEF Present
<1>5. QED
  BY <1>1, <1>2, <1>3, <1>4, NormalizedTidy

LEMMA PrimaryTidy ==
  ASSUME NEW s \in Database, Operational(s), NEW d \in Eligible(s), NEW t,
         t \in {WithPrimary(s, d), Reopened(WithPrimary(s, d))}
  PROVE  Tidy(s, t)
<1> DEFINE n == WithPrimary(s, d)
<1>1. d \in Documents
  BY DEF Eligible, Live, Present
<1>2. n \in Database /\ Agrees(n) /\ n.source # NoDocument /\ n.status # "archived"
  BY <1>1, WithPrimaryType, PrimaryAgreement, WithPrimaryEffect DEF Operational
<1>3. Present(n) = Present(s)
  BY <1>1, WithPrimaryEffect DEF Present
<1>4. t = n \/ t = Reopened(n)
  OBVIOUS
<1> HIDE DEF n
<1>5. Agrees(t) /\ t.source = n.source /\ Present(t) = Present(n) /\ t.status # "archived"
  BY <1>2, <1>4, ReopenedDocuments, ReopenedEffect
<1>6. QED
  BY <1>2, <1>3, <1>5 DEF Tidy
(* Every handler that reads and writes at once leaves the repair tidy. *)
LEMMA QuickTidy ==
  ASSUME TypeOK, Next
  PROVE  Tidy(db, db')
<1>a. db \in Database
  BY DEF TypeOK
<1>b. ASSUME db'.doc = db.doc, db'.source = db.source, db'.status = "archived" => db.status = "archived"
      PROVE  Tidy(db, db')
  BY <1>b, SameDocumentsTidy DEF SameDocuments
<1>1. ASSUME NEW kind \in UploadKinds, UploadToRepair(kind) PROVE Tidy(db, db')
  BY <1>a, <1>1, UploadedTidy DEF UploadToRepair
<1>2. ASSUME NEW status \in EditStatuses, NEW preliminary \in BOOLEAN, NEW header \in BOOLEAN,
             NEW service \in {"as_is", "set", "cleared"},
             UpdateRepair(status, preliminary, header, service)
      PROVE  Tidy(db, db')
  BY <1>a, <1>b, <1>2 DEF UpdateRepair, WithService, Database, Operational
<1>3. ASSUME NEW on \in BOOLEAN, UpdateFields(on) \/ UpdateService(on) PROVE Tidy(db, db')
  BY <1>a, <1>b, <1>3 DEF UpdateFields, UpdateService, Refreshed, WithService, Database
<1>4. ASSUME NEW c \in Findings, NEW resolved \in BOOLEAN, UpdateCheck(c, resolved)
      PROVE  Tidy(db, db')
  BY <1>a, <1>b, <1>4 DEF UpdateCheck, Refreshed, Database
<1>5. CASE ArchiveRepair
  BY <1>a, <1>5, RepairArchivedTidy DEF ArchiveRepair
<1>6. CASE RestoreRepair
  BY <1>a, <1>6, RepairRestoredTidy DEF RestoreRepair
<1>7. CASE ArchiveParent \/ RestoreParent
  BY <1>a, <1>b, <1>7 DEF ArchiveParent, RestoreParent, Database
<1>8. ASSUME NEW d \in Documents, Process(d) PROVE Tidy(db, db')
  <2>1. d \in Live(db) /\ Operational(db) /\ db' = Rechecked(db, d)
    BY <1>8 DEF Process, Usable
  <2>2. SameDocuments(db, db')
    BY <1>a, <2>1, RecheckedSame
  <2>3. db'.status # "archived"
    BY <1>a, <2>1, RecheckedEffect DEF Operational
  <2>4. QED
    BY <2>2, <2>3, SameDocumentsTidy
<1>9. ASSUME NEW d \in Documents, LinkVehicle(d) PROVE Tidy(db, db')
  <2> DEFINE t == [db EXCEPT !.linked = TRUE,
                             !.checks = [c \in Findings |->
                               IF c = "vehicle" /\ db.checks[c] # "none" THEN "resolved"
                               ELSE db.checks[c]]]
  <2>1. t \in Database
    BY <1>a, VehicleLinkedType
  <2>2. t.doc = db.doc /\ t.source = db.source /\ t.status = db.status
    BY <1>a DEF Database
  <2>3. d \in Live(db) /\ Operational(db) /\ db' = Rechecked(t, d)
    BY <1>9 DEF LinkVehicle, Usable
  <2> HIDE DEF t
  <2>4. d \in Live(t)
    BY <2>2, <2>3 DEF Live, Present
  <2>5. SameDocuments(t, db')
    BY <2>1, <2>3, <2>4, RecheckedSame
  <2>6. SameDocuments(db, db')
    BY <2>2, <2>5 DEF SameDocuments
  <2>7. db'.status # "archived"
    BY <2>1, <2>2, <2>3, RecheckedEffect DEF Operational
  <2>8. QED
    BY <2>6, <2>7, SameDocumentsTidy
<1>10. ASSUME NEW d \in Documents, ArchiveDocument(d) PROVE Tidy(db, db')
  BY <1>a, <1>10, DocumentArchivedTidy DEF ArchiveDocument, Usable
<1>11. ASSUME NEW d \in Documents, RestoreDocument(d) PROVE Tidy(db, db')
  BY <1>a, <1>11, DocumentRestoredTidy DEF RestoreDocument
<1>12. ASSUME NEW d \in Documents, SetPrimary(d) \/ ReviewComparison(d, TRUE) PROVE Tidy(db, db')
  <2>1. d \in Eligible(db) /\ Operational(db)
    BY <1>12 DEF SetPrimary, ReviewComparison, CanMakePrimary, Usable, Eligible
  <2>2. db' \in {WithPrimary(db, d), Reopened(WithPrimary(db, d))}
    BY <1>12 DEF SetPrimary, PrimarySet, ReviewComparison
  <2>3. QED
    BY <1>a, <2>1, <2>2, PrimaryTidy
<1>13. ASSUME NEW d \in Documents, ReviewComparison(d, FALSE) PROVE Tidy(db, db')
  <2>1. db' = Normalized(db) /\ Operational(db)
    BY <1>13 DEF ReviewComparison, Normalized, Usable
  <2>2. db'.status # "archived"
    BY <1>a, <2>1, NormalizedEffect DEF Operational
  <2>3. QED
    BY <1>a, <2>1, <2>2, NormalizedTidy
<1>14. ASSUME NEW d \in Documents, NEW status \in PatchStatuses, UpdateDocument(d, status)
       PROVE  Tidy(db, db')
  <2>1. /\ d \in Live(db) /\ status \in DocumentStatuses \ {"archived"}
        /\ db' = [db EXCEPT !.doc[d].status = status]
    BY <1>14, EditAssumption DEF UpdateDocument
  <2>2. SameDocuments(db, db')
    BY <1>a, <2>1, StatusSame
  <2>3. db'.status = db.status
    BY <1>a, <2>1 DEF Database
  <2>4. QED
    BY <2>2, <2>3, SameDocumentsTidy
<1>15. ASSUME NEW d \in Documents, ConfirmByEmployee(d) \/ ConfirmByAdmin(d) \/ SendToReview(d)
       PROVE  Tidy(db, db')
  <2>1. d \in Live(db)
    BY <1>15 DEF ConfirmByEmployee, ConfirmByAdmin, SendToReview, CanConfirm, InReviewQueue, Eligible
  <2>2. SameDocuments(db, db') /\ db'.status # "archived"
    <3>1. db' \in {EmployeeConfirmed(db, d), Confirmed(db, d), SentToReview(db, d)}
      BY <1>15 DEF ConfirmByEmployee, ConfirmByAdmin, SendToReview
    <3>2. SameDocuments(db, db')
      <4>1. \A st \in {"confirmed", "needs_review"} : \A rs, p :
              SameDocuments(db, [db EXCEPT !.doc[d].status = st, !.status = rs, !.preliminary = p])
        BY <1>a, <2>1, StatusSame DEF DocumentStatuses
      <4>2. /\ SameDocuments(db, EmployeeConfirmed(db, d)) /\ SameDocuments(db, Confirmed(db, d))
            /\ SameDocuments(db, SentToReview(db, d))
        BY <4>1 DEF EmployeeConfirmed, Confirmed, SentToReview
      <4>3. QED
        BY <3>1, <4>2
    <3>3. db'.status # "archived"
      BY <1>a, <3>1 DEF EmployeeConfirmed, Confirmed, SentToReview, Database
    <3>4. QED
      BY <3>2, <3>3
  <2>3. QED
    BY <2>2, SameDocumentsTidy
<1>16. ASSUME NEW d \in Documents, RunRejected(d) PROVE Tidy(db, db')
  BY <1>a, <1>b, <1>16 DEF RunRejected, Database
<1>17. ASSUME NEW d \in Documents, RunFailed(d) \/ RunStored(d) \/ RunFinished(d)
       PROVE  Tidy(db, db')
  <2>1. d \in Live(db) /\ Operational(db)
    BY <1>17 DEF RunFailed, RunStored, RunFinished, Usable
  <2>2. RunWrote(db, d, db')
    BY <1>a, <1>17, RunWroteOnly DEF RunFailed, RunStored, RunFinished
  <2>3. SameDocuments(db, db') /\ db'.status # "archived"
    BY <1>a, <2>1, <2>2, RunWroteSame DEF RunWrote, Operational
  <2>4. QED
    BY <2>3, SameDocumentsTidy
<1>18. QED
  BY <1>1, <1>2, <1>3, <1>4, <1>5, <1>6, <1>7, <1>8, <1>9, <1>10, <1>11, <1>12, <1>13, <1>14,
     <1>15, <1>16, <1>17, NextSteps

-----------------------------------------------------------------------------
(* The slow transaction. *)

(* What it holds is a snapshot of usable rows, of a document still there. *)
InSession ==
  /\ session.handler \in SlowHandlers
  /\ session.doc \in Documents /\ session.doc \in Present(db)
  /\ session.read \in Database /\ session.read.status # "archived"
  /\ session.doc \in Live(session.read)

SessionTyped == session = Idle \/ InSession

SessionInv == TypeOK /\ escaped \subseteq Documents /\ SessionTyped

LEMMA ReadByRunType ==
  ASSUME NEW s \in Database, NEW d \in Documents, Usable(s, d)
  PROVE  /\ ReadByRun(s, d) \in Database /\ ReadByRun(s, d).status # "archived"
         /\ d \in Live(ReadByRun(s, d))
<1> DEFINE rows == [e \in Documents |-> IF e = d THEN s.doc[d] ELSE NoSuchDocument]
<1>1. NoSuchDocument \in Document
  BY DEF NoSuchDocument, Document, DocumentStatuses
<1>2. rows \in [Documents -> Document] /\ rows[d] = s.doc[d]
  BY <1>1, RowsType
<1> HIDE DEF rows
<1>3. ReadByRun(s, d) = [s EXCEPT !.source = NoDocument, !.checks = NoChecks, !.jobs = {},
                                  !.parentArchived = FALSE, !.doc = rows]
  BY DEF ReadByRun, rows
<1>4. NoChecks \in [Findings -> {"none", "open", "resolved"}]
  BY DEF NoChecks
<1>5. ReadByRun(s, d) \in Database /\ ReadByRun(s, d).doc = rows /\ ReadByRun(s, d).status = s.status
  BY <1>2, <1>3, <1>4 DEF Database
<1>6. QED
  BY <1>2, <1>5 DEF Usable, Operational, Live, Present

LEMMA ReadByRequestType ==
  ASSUME NEW s \in Database, NEW d \in Documents, d \in Live(s), Operational(s)
  PROVE  /\ ReadByRequest(s) \in Database /\ ReadByRequest(s).status # "archived"
         /\ d \in Live(ReadByRequest(s))
<1> DEFINE rows == [e \in Documents |-> [s.doc[e] EXCEPT !.queued = FALSE]]
<1>1. ASSUME NEW e \in Documents
      PROVE  rows[e] \in Document /\ rows[e].status = s.doc[e].status
  <2>1. s.doc[e] \in Document
    BY RowsType
  <2>2. QED
    BY <2>1 DEF Document
<1>2. rows \in [Documents -> Document]
  BY <1>1
<1>3. ReadByRequest(s) = [s EXCEPT !.header = FALSE, !.service = FALSE, !.linked = FALSE,
                                   !.parentArchived = FALSE, !.checks = NoChecks, !.jobs = {},
                                   !.doc = rows]
  BY DEF ReadByRequest
<1> HIDE DEF rows
<1>4. NoChecks \in [Findings -> {"none", "open", "resolved"}]
  BY DEF NoChecks
<1>5. /\ ReadByRequest(s) \in Database /\ ReadByRequest(s).doc = rows
      /\ ReadByRequest(s).status = s.status
  BY <1>2, <1>3, <1>4 DEF Database
<1>6. QED
  BY <1>1, <1>5 DEF Operational, Live, Present

(* A merge has the rows' types, and each column is the one written or the   *)
(* one that is there now.                                                   *)
LEMMA MergedColumns ==
  ASSUME NEW r \in Database, NEW w \in Database, NEW n \in Database
  PROVE  /\ Merged(r, w, n) \in Database
         /\ Merged(r, w, n).status = Column(r.status, w.status, n.status)
         /\ Merged(r, w, n).source = Column(r.source, w.source, n.source)
         /\ \A d \in Documents :
              /\ Merged(r, w, n).doc[d].kind = n.doc[d].kind
              /\ Merged(r, w, n).doc[d].status =
                   Column(r.doc[d].status, w.doc[d].status, n.doc[d].status)
              /\ Merged(r, w, n).doc[d].primary =
                   Column(r.doc[d].primary, w.doc[d].primary, n.doc[d].primary)
<1> DEFINE row(d) == [kind |-> n.doc[d].kind,
                      status |-> Column(r.doc[d].status, w.doc[d].status, n.doc[d].status),
                      primary |-> Column(r.doc[d].primary, w.doc[d].primary, n.doc[d].primary),
                      queued |-> Column(r.doc[d].queued, w.doc[d].queued, n.doc[d].queued)]
           rows == [d \in Documents |-> row(d)]
<1>1. ASSUME NEW d \in Documents PROVE row(d) \in Document
  <2>1. r.doc[d] \in Document /\ w.doc[d] \in Document /\ n.doc[d] \in Document
    BY RowsType
  <2>2. QED
    BY <2>1 DEF Column, Document
<1>2. rows \in [Documents -> Document] /\ \A d \in Documents : rows[d] = row(d)
  BY <1>1
<1>3. Merged(r, w, n) =
        [status |-> Column(r.status, w.status, n.status),
         preliminary |-> Column(r.preliminary, w.preliminary, n.preliminary),
         header |-> Column(r.header, w.header, n.header),
         service |-> Column(r.service, w.service, n.service),
         linked |-> Column(r.linked, w.linked, n.linked),
         parentArchived |-> n.parentArchived,
         source |-> Column(r.source, w.source, n.source),
         doc |-> rows, checks |-> n.checks, jobs |-> n.jobs]
  BY DEF Merged
<1> HIDE DEF rows
<1>4. Merged(r, w, n) \in Database
  BY <1>2, <1>3 DEF Database, Column
<1>5. QED
  BY <1>2, <1>3, <1>4
-----------------------------------------------------------------------------
(* What a slow transaction leaves: its document may come back to life and   *)
(* the repair may leave the archive, all other rows stay.                   *)
SlowWrote(s, d, t) ==
  /\ t.source = s.source
  /\ \A e \in Documents : /\ t.doc[e].kind = s.doc[e].kind
                          /\ t.doc[e].primary = s.doc[e].primary
  /\ \A e \in Documents \ {d} : t.doc[e].status = s.doc[e].status
  /\ t.doc[d].status = s.doc[d].status \/ t.doc[d].status \notin {"absent", "archived"}
  /\ t.status = s.status \/ t.status # "archived"

LEMMA MergedWrote ==
  ASSUME NEW r \in Database, NEW w \in Database, NEW n \in Database, NEW d \in Documents,
         RunWrote(r, d, w)
  PROVE  SlowWrote(n, d, Merged(r, w, n))
<1> DEFINE t == Merged(r, w, n)
<1>1. /\ t.status = Column(r.status, w.status, n.status)
      /\ t.source = Column(r.source, w.source, n.source)
      /\ \A e \in Documents :
           /\ t.doc[e].kind = n.doc[e].kind
           /\ t.doc[e].status = Column(r.doc[e].status, w.doc[e].status, n.doc[e].status)
           /\ t.doc[e].primary = Column(r.doc[e].primary, w.doc[e].primary, n.doc[e].primary)
  BY MergedColumns
<1> HIDE DEF t
<1>2. t.source = n.source
  BY <1>1 DEF RunWrote, Column
<1>3. ASSUME NEW e \in Documents
      PROVE  t.doc[e].kind = n.doc[e].kind /\ t.doc[e].primary = n.doc[e].primary
  BY <1>1 DEF RunWrote, Column
<1>4. ASSUME NEW e \in Documents \ {d} PROVE t.doc[e].status = n.doc[e].status
  BY <1>1 DEF RunWrote, Column
<1>5. t.doc[d].status = n.doc[d].status \/ t.doc[d].status \notin {"absent", "archived"}
  <2>1. t.doc[d].status \in {n.doc[d].status, w.doc[d].status}
    BY <1>1 DEF Column
  <2>2. w.doc[d].status \notin {"absent", "archived"}
    BY DEF RunWrote
  <2>3. QED
    BY <2>1, <2>2
<1>6. t.status = n.status \/ t.status # "archived"
  BY <1>1 DEF RunWrote, Column
<1>7. SlowWrote(n, d, t)
  BY <1>2, <1>3, <1>4, <1>5, <1>6 DEF SlowWrote
<1>8. QED
  BY <1>7 DEF t

LEMMA ConfirmationWrote ==
  ASSUME NEW s \in Database, NEW d \in Live(s)
  PROVE  EmployeeConfirmed(s, d) \in Database /\ RunWrote(s, d, EmployeeConfirmed(s, d))
<1> DEFINE t == EmployeeConfirmed(s, d)
<1>1. d \in Documents
  BY DEF Live, Present
<1>2. SameDocuments(s, t)
  BY StatusSame DEF EmployeeConfirmed, DocumentStatuses
<1>3. /\ \A e \in Documents : t.doc[e].status = IF e = d THEN "confirmed" ELSE s.doc[e].status
      /\ t.status = "employee_confirmed"
  <2>1. t.doc = [s.doc EXCEPT ![d].status = "confirmed"] /\ t.status = "employee_confirmed"
    BY DEF EmployeeConfirmed, Database
  <2> HIDE DEF t
  <2>2. ASSUME NEW e \in Documents
        PROVE  t.doc[e].status = IF e = d THEN "confirmed" ELSE s.doc[e].status
    <3>1. s.doc[e] \in Document /\ s.doc \in [Documents -> Document]
      BY RowsType
    <3>2. QED
      BY <1>1, <2>1, <3>1 DEF Document
  <2>3. QED
    BY <2>1, <2>2
<1>4. t \in Database
  BY <1>1, ReviewedType
<1> HIDE DEF t
<1>5. RunWrote(s, d, t)
  BY <1>1, <1>2, <1>3 DEF RunWrote, SameDocuments
<1>6. QED
  BY <1>4, <1>5 DEF t

LEMMA RunCommitsWrites ==
  ASSUME SessionInv, RunCommits
  PROVE  db' \in Database /\ SlowWrote(db, session.doc, db')
<1>1. InSession
  BY DEF SessionInv, SessionTyped, RunCommits, Idle
<1> DEFINE d == session.doc
           r == session.read
<1>2. db \in Database /\ d \in Documents /\ r \in Database
  BY <1>1 DEF SessionInv, TypeOK, InSession
<1>3. PICK w : /\ \/ w \in {OcrFinished(r, d, o) : o \in Outcomes}
                  \/ w = StoredOnly(r, d)
               /\ db' = RunWrites(r, w, d)
  BY DEF RunCommits
<1>4. w \in Database /\ RunWrote(r, d, w)
  BY <1>2, <1>3, RunTypes, RunWroteOnly
<1>5. w.checks \in [Findings -> {"none", "open", "resolved"}]
  BY <1>4 DEF Database
<1> HIDE DEF d, r
<1>6. Merged(r, w, db) \in Database /\ SlowWrote(db, d, Merged(r, w, db))
  BY <1>2, <1>4, MergedColumns, MergedWrote
<1>7. PICK c \in [Findings -> {"none", "open", "resolved"}] :
        db' = [Merged(r, w, db) EXCEPT !.jobs = db.jobs \ {d}, !.checks = c]
  <2>1. db.checks \in [Findings -> {"none", "open", "resolved"}]
    BY <1>2 DEF Database
  <2>2. QED
    BY <1>3, <1>5, <2>1 DEF RunWrites
<1>8. /\ db' \in Database
      /\ db'.source = Merged(r, w, db).source /\ db'.status = Merged(r, w, db).status
      /\ db'.doc = Merged(r, w, db).doc
  BY <1>2, <1>6, <1>7 DEF Database
<1>9. SlowWrote(db, d, db')
  BY <1>6, <1>8 DEF SlowWrote
<1>10. QED
  BY <1>8, <1>9 DEF d

LEMMA RunRaisesWrites ==
  ASSUME SessionInv, RunRaises
  PROVE  db' \in Database /\ SlowWrote(db, session.doc, db')
<1>1. session.doc \in Documents /\ db \in Database
  BY DEF SessionInv, SessionTyped, InSession, RunRaises, Idle, TypeOK
<1>2. db' \in Database /\ RunWrote(db, session.doc, db')
  BY <1>1, RunTypes, RunWroteOnly DEF RunRaises
<1>3. QED
  BY <1>2 DEF RunWrote, SlowWrote

LEMMA ConfirmCommitsWrites ==
  ASSUME SessionInv, RequestCommits, session.handler = "employee_confirm"
  PROVE  db' \in Database /\ SlowWrote(db, session.doc, db')
<1>1. InSession /\ db \in Database
  BY DEF SessionInv, SessionTyped, Idle, TypeOK
<1>2. db' = Merged(session.read, EmployeeConfirmed(session.read, session.doc), db)
  BY DEF RequestCommits
<1>3. /\ EmployeeConfirmed(session.read, session.doc) \in Database
      /\ RunWrote(session.read, session.doc, EmployeeConfirmed(session.read, session.doc))
  BY <1>1, ConfirmationWrote DEF InSession
<1>4. QED
  BY <1>1, <1>2, <1>3, MergedColumns, MergedWrote DEF InSession

(* The slow change of the primary document moves the pointer and the flags, *)
(* never a status but for reopening the repair.                             *)
LEMMA PrimaryCommitsWrites ==
  ASSUME SessionInv, RequestCommits, session.handler = "set_primary"
  PROVE  /\ db' \in Database
         /\ \A e \in Documents : /\ db'.doc[e].kind = db.doc[e].kind
                                 /\ db'.doc[e].status = db.doc[e].status
         /\ db'.source = db.source \/ db'.source # NoDocument
         /\ db'.status = db.status \/ db'.status # "archived"
<1> DEFINE d == session.doc
           r == session.read
           p == WithPrimary(r, d)
           w == PrimarySet(r, d)
<1>1. db \in Database /\ d \in Documents /\ r \in Database /\ r.status # "archived"
  BY DEF SessionInv, SessionTyped, InSession, Idle, TypeOK
<1>2. db' = Merged(r, w, db)
  BY DEF RequestCommits
<1>3. d # NoDocument
  BY <1>1, MaxDocumentsAssumption DEF Documents, NoDocument
<1> HIDE DEF d, r
<1>4. /\ p \in Database /\ p.source = d /\ p.status = r.status
      /\ \A e \in Documents : p.doc[e].status = r.doc[e].status
  BY <1>1, WithPrimaryType, WithPrimaryEffect
<1>5. w = p \/ w = Reopened(p)
  BY DEF PrimarySet
<1> HIDE DEF p, w
<1>6. /\ w \in Database /\ w.source = d /\ w.status # "archived"
      /\ \A e \in Documents : w.doc[e].status = r.doc[e].status
  BY <1>1, <1>4, <1>5, ReopenedType, ReopenedEffect
<1>7. QED
  BY <1>1, <1>2, <1>3, <1>6, MergedColumns DEF Column

-----------------------------------------------------------------------------
(* The session stays what it was loaded as. *)

LEMMA LoadsTyped ==
  ASSUME SessionInv, NEW d \in Documents, RunLoads(d) \/ RequestLoads(d)
  PROVE  SessionInv'
<1>1. db \in Database /\ db' = db /\ escaped' = escaped
  BY DEF SessionInv, TypeOK, RunLoads, RequestLoads
<1>2. TypeOK' /\ (escaped \subseteq Documents)'
  BY <1>1 DEF SessionInv, TypeOK, RunLoads, RequestLoads
<1>3. CASE RunLoads(d)
  <2>1. /\ session' = [handler |-> "run", doc |-> d, read |-> ReadByRun(db, d)]
        /\ "run" \in SlowHandlers /\ Usable(db, d) /\ d \in Present(db)
    BY <1>3 DEF RunLoads, Usable, Live
  <2>2. ReadByRun(db, d) \in Database /\ ReadByRun(db, d).status # "archived"
        /\ d \in Live(ReadByRun(db, d))
    BY <1>1, <2>1, ReadByRunType
  <2>3. InSession'
    BY <1>1, <2>1, <2>2 DEF InSession, Present
  <2>4. QED
    BY <1>2, <2>3 DEF SessionInv, SessionTyped
<1>4. CASE RequestLoads(d)
  <2>1. PICK handler \in SlowHandlers \ {"run"} :
          /\ CanMakePrimary(db, d) \/ CanConfirm(db, d)
          /\ session' = [handler |-> handler, doc |-> d, read |-> ReadByRequest(db)]
    BY <1>4 DEF RequestLoads
  <2>2. d \in Live(db) /\ Operational(db) /\ d \in Present(db)
    BY <2>1 DEF CanMakePrimary, CanConfirm, Usable, InReviewQueue, Eligible, Live
  <2>3. ReadByRequest(db) \in Database /\ ReadByRequest(db).status # "archived"
        /\ d \in Live(ReadByRequest(db))
    BY <1>1, <2>2, ReadByRequestType
  <2>4. InSession'
    BY <1>1, <2>1, <2>2, <2>3 DEF InSession, Present
  <2>5. QED
    BY <1>2, <2>4 DEF SessionInv, SessionTyped
<1>5. QED
  BY <1>3, <1>4

LEMMA OthersTyped ==
  ASSUME SessionInv, Others
  PROVE  SessionInv' /\ Next /\ Tidy(db, db')
<1>1. Next
  BY DEF Others, Next
<1>2. TypeOK' /\ Tidy(db, db')
  BY <1>1, TypeStep, QuickTidy DEF SessionInv
<1>3. (escaped \subseteq Documents)'
  BY DEF SessionInv, Others
<1>4. InSession => InSession'
  BY <1>2 DEF Others, InSession, Tidy
<1>5. session = Idle => session' = Idle
  BY DEF Others
<1>6. QED
  BY <1>1, <1>2, <1>3, <1>4, <1>5 DEF SessionInv, SessionTyped

(* A commit or a failure ends it. *)
LEMMA EndsTyped ==
  ASSUME SessionInv, RunCommits \/ RunRaises \/ RequestCommits
  PROVE  SessionInv'
<1>1. InSession
  BY DEF SessionInv, SessionTyped, Idle, RunCommits, RunRaises, RequestCommits
<1>2. db' \in Database
  BY RunCommitsWrites, RunRaisesWrites, ConfirmCommitsWrites, PrimaryCommitsWrites
     DEF RequestCommits
<1>3. direct' \in BOOLEAN /\ patched' \subseteq Documents /\ escaped' \subseteq Documents
  BY <1>1 DEF SessionInv, TypeOK, InSession, RunCommits, RunRaises, RequestCommits, Patched
<1>4. session' = Idle
  BY DEF RunCommits, RunRaises, RequestCommits
<1>5. QED
  BY <1>2, <1>3, <1>4 DEF SessionInv, SessionTyped, TypeOK, Idle

-----------------------------------------------------------------------------
(* What escapes, and what a slow transaction leaves of the pointer. *)

LEMMA SlowEscape ==
  ASSUME SessionInv, OnlySlowWritesEscape, NEW d \in Present(db), SlowWrote(db, d, db'),
         escaped' = IF db.doc[d].status = "archived" THEN escaped \cup {d} ELSE escaped
  PROVE  OnlySlowWritesEscape'
<1>1. d \in Documents /\ db.doc[d].status # "absent"
  BY DEF Present
<1>2. ASSUME NEW e \in Live(db)' PROVE e \in Live(db) \/ e \in escaped'
  BY <1>1, <1>2 DEF SlowWrote, Live, Present
<1>3. ASSUME NEW e \in Eligible(db)' PROVE e \in Eligible(db) \/ e \in escaped'
  BY <1>2, <1>3 DEF SlowWrote, Eligible, Live, Present
<1>4. escaped \subseteq escaped'
  OBVIOUS
<1>5. db'.source = db.source /\ (db'.status = "archived" => db.status = "archived")
  BY DEF SlowWrote
<1>6. QED
  BY <1>2, <1>3, <1>4, <1>5 DEF OnlySlowWritesEscape

LEMMA QuickEscape ==
  ASSUME OnlySlowWritesEscape, Others, Tidy(db, db')
  PROVE  OnlySlowWritesEscape'
<1>1. escaped' = {d \in escaped : (d \in Live(db)) = (d \in Live(db'))}
  BY DEF Others
<1>2. \A d : d \in escaped /\ d \in Live(db) /\ d \in Live(db') => d \in escaped'
  BY <1>1
<1>3. Eligible(db) \subseteq Live(db) /\ Eligible(db') \subseteq Live(db')
  BY DEF Eligible
<1>4. db'.status = "archived" => Live(db') \subseteq escaped'
  BY <1>2 DEF Tidy, OnlySlowWritesEscape
<1>5. db'.source = NoDocument => Eligible(db') \subseteq escaped'
  BY <1>2, <1>3 DEF Tidy, OnlySlowWritesEscape
<1>6. QED
  BY <1>4, <1>5 DEF OnlySlowWritesEscape

LEMMA SlowAgrees ==
  ASSUME NEW s, NEW d \in Documents, NEW t, SlowWrote(s, d, t), d \in Present(s), Agrees(s)
  PROVE  Agrees(t)
<1>1. \A e \in Documents : t.doc[e].primary <=> t.source = e
  BY DEF SlowWrote, Agrees
<1>2. ASSUME t.source # NoDocument PROVE t.source \in Eligible(t)
  <2>1. t.source \in Eligible(s)
    BY <1>2 DEF SlowWrote, Agrees
  <2>2. \A e \in Eligible(s) : e \in Eligible(t)
    BY DEF SlowWrote, Eligible, Live, Present
  <2>3. QED
    BY <2>1, <2>2
<1>3. QED
  BY <1>1, <1>2 DEF Agrees

LEMMA SessionStep ==
  ASSUME SessionInv, [SessionNext]_sessionVars
  PROVE  /\ SessionInv'
         /\ OnlySlowWritesEscape => OnlySlowWritesEscape'
         /\ "set_primary" \notin SlowHandlers => (PrimaryAgrees => PrimaryAgrees')
<1> DEFINE Goal == /\ SessionInv'
                   /\ OnlySlowWritesEscape => OnlySlowWritesEscape'
                   /\ "set_primary" \notin SlowHandlers => (PrimaryAgrees => PrimaryAgrees')
<1>a. PrimaryAgrees <=> Agrees(db)
  BY DEF PrimaryAgrees, Agrees
<1>b. PrimaryAgrees' <=> Agrees(db')
  BY DEF PrimaryAgrees, Agrees, Eligible, Live, Present
<1>1. ASSUME UNCHANGED sessionVars PROVE Goal
  BY <1>1 DEF sessionVars, SessionInv, TypeOK, SessionTyped, InSession, OnlySlowWritesEscape,
              PrimaryAgrees, Live, Eligible, Present
<1>2. ASSUME Others PROVE Goal
  <2>1. SessionInv' /\ Tidy(db, db')
    BY <1>2, OthersTyped
  <2>2. Agrees(db) => Agrees(db')
    BY <2>1 DEF Tidy
  <2>3. OnlySlowWritesEscape => OnlySlowWritesEscape'
    BY <1>2, <2>1, QuickEscape
  <2>4. QED
    BY <1>a, <1>b, <2>1, <2>2, <2>3
<1>3. ASSUME NEW d \in Documents, RunLoads(d) \/ RequestLoads(d) PROVE Goal
  <2>1. db' = db /\ escaped' = escaped
    BY <1>3 DEF RunLoads, RequestLoads
  <2>2. SessionInv'
    BY <1>3, LoadsTyped
  <2>3. QED
    BY <2>1, <2>2 DEF OnlySlowWritesEscape, PrimaryAgrees, Live, Eligible, Present
<1>4. ASSUME RunCommits \/ RunRaises \/ (RequestCommits /\ session.handler = "employee_confirm")
      PROVE  Goal
  <2>1. SessionInv'
    BY <1>4, EndsTyped
  <2>2. InSession
    BY <1>4 DEF SessionInv, SessionTyped, Idle, RunCommits, RunRaises
  <2>3. SlowWrote(db, session.doc, db')
    BY <1>4, RunCommitsWrites, RunRaisesWrites, ConfirmCommitsWrites
  <2>4. escaped' = IF db.doc[session.doc].status = "archived"
                   THEN escaped \cup {session.doc} ELSE escaped
    BY <1>4 DEF RunCommits, RunRaises, RequestCommits
  <2>5. session.doc \in Documents /\ session.doc \in Present(db)
    BY <2>2 DEF InSession
  <2>6. OnlySlowWritesEscape => OnlySlowWritesEscape'
    BY <2>3, <2>4, <2>5, SlowEscape
  <2>7. Agrees(db) => Agrees(db')
    BY <2>3, <2>5, SlowAgrees
  <2>8. QED
    BY <1>a, <1>b, <2>1, <2>6, <2>7
<1>5. ASSUME RequestCommits, session.handler = "set_primary" PROVE Goal
  <2>1. SessionInv'
    BY <1>5, EndsTyped
  <2>2. "set_primary" \in SlowHandlers
    BY <1>5 DEF SessionInv, SessionTyped, InSession, Idle
  <2>3. escaped' = escaped
    BY <1>5 DEF RequestCommits
  <2>4. Live(db)' = Live(db) /\ Eligible(db)' = Eligible(db)
    BY <1>5, PrimaryCommitsWrites DEF Live, Eligible, Present
  <2>5. /\ db'.source = NoDocument => db.source = NoDocument
        /\ db'.status = "archived" => db.status = "archived"
    BY <1>5, PrimaryCommitsWrites
  <2>6. OnlySlowWritesEscape => OnlySlowWritesEscape'
    BY <2>3, <2>4, <2>5 DEF OnlySlowWritesEscape
  <2>7. QED
    BY <2>1, <2>2, <2>6
<1> HIDE DEF Goal
<1>6. Goal
  <2>1. RequestCommits => session.handler \in {"set_primary", "employee_confirm"}
    BY DEF RequestCommits
  <2>2. QED
    BY <1>1, <1>2, <1>3, <1>4, <1>5, <2>1 DEF SessionNext
<1>7. QED
  BY <1>6 DEF Goal

LEMMA SessionInitial ==
  ASSUME SessionInit
  PROVE  SessionInv /\ OnlySlowWritesEscape /\ PrimaryAgrees
<1>1. TypeOK /\ PrimaryAligned
  BY InitType, InitAligned DEF SessionInit
<1>2. PrimaryAgrees /\ (db.source = NoDocument => Eligible(db) = {})
  BY <1>1 DEF PrimaryAligned, Aligned, PrimaryAgrees
<1>3. db.status # "archived"
  BY DEF SessionInit, Init, DraftOf, Imported
<1>4. SessionInv
  BY <1>1 DEF SessionInit, SessionInv, SessionTyped
<1>5. QED
  BY <1>2, <1>3, <1>4 DEF OnlySlowWritesEscape

(* What is live below an archived repair, or eligible in a repair without a *)
(* primary document, escaped through a slow write: for any number of        *)
(* documents and whichever of the handlers are slow.                        *)
THEOREM OnlyStaleWritesEscape == SessionSpec => []OnlySlowWritesEscape
BY SessionInitial, SessionStep, PTL DEF SessionSpec

(* The pointer and the flag of the primary document agree and name a live   *)
(* one while the handlers that choose it read and write in one go: a slow   *)
(* run or confirmation cannot part them.                                    *)
THEOREM SlowRunsKeepThePrimary ==
  ASSUME "set_primary" \notin SlowHandlers
  PROVE  SessionSpec => []PrimaryAgrees
BY SessionInitial, SessionStep, PTL DEF SessionSpec

-----------------------------------------------------------------------------
(* What the archive and the queue keep, whatever is slow. *)

(* What nobody has forgotten belongs to a repair whose rows a run takes.    *)
WaitingIsOperational ==
  \A d \in Documents \ patched : db.doc[d].status = "uploaded" /\ d \in db.jobs => Operational(db)

Restored ==
  /\ \A d \in Documents : db.doc[d].status = "archived" /\ db'.doc[d].status # "archived"
       => RestoreDocument(d) \/ RestoreRepair
  /\ db.status = "archived" /\ db'.status # "archived" => RestoreRepair

PromisesKept == Restored /\ Forgotten' \subseteq Forgotten /\ WaitingIsOperational'

(* A step that gives one document another status, or none. *)
LEMMA OneRowKept ==
  ASSUME WaitingIsOperational, NEW d \in Documents,
         \A e \in Documents \ {d} : db'.doc[e].status = db.doc[e].status,
         patched \ {d} \subseteq patched',
         db.jobs \ {d} \subseteq db'.jobs, db'.jobs \subseteq db.jobs \cup {d},
         \/ db'.doc[d].status # "uploaded" \/ d \in patched'
         \/ d \in db'.jobs /\ Operational(db'),
         Operational(db) => Operational(db'), db.status = "archived" => db'.status = "archived",
         db.doc[d].status = "archived" => db'.doc[d].status = "archived" \/ RestoreDocument(d)
  PROVE  PromisesKept
<1>1. Restored
  BY DEF Restored
<1>2. Forgotten' \subseteq Forgotten
  BY DEF Forgotten
<1>3. WaitingIsOperational'
  <2>1. ASSUME NEW e \in Documents \ patched', db'.doc[e].status = "uploaded", e \in db'.jobs
        PROVE  Operational(db')
    BY <2>1 DEF WaitingIsOperational
  <2>2. Operational(db') = Operational(db)'
    BY DEF Operational
  <2>3. QED
    BY <2>1, <2>2 DEF WaitingIsOperational
<1>4. QED
  BY <1>1, <1>2, <1>3 DEF PromisesKept

LEMMA NoRowKept ==
  ASSUME WaitingIsOperational,
         \A e \in Documents : db'.doc[e].status = db.doc[e].status,
         patched \subseteq patched', db'.jobs = db.jobs,
         Operational(db) => Operational(db'), db.status = "archived" => db'.status = "archived"
  PROVE  PromisesKept
<1>1. Restored
  BY DEF Restored
<1>2. Forgotten' \subseteq Forgotten
  BY DEF Forgotten
<1>3. WaitingIsOperational'
  <2>1. Operational(db') = Operational(db)'
    BY DEF Operational
  <2>2. QED
    BY <2>1 DEF WaitingIsOperational
<1>4. QED
  BY <1>1, <1>2, <1>3 DEF PromisesKept

LEMMA ReviewKeepsOperational ==
  ASSUME NEW s, NEW t, KeepsReview(s, t), Operational(s)
  PROVE  Operational(t)
BY DEF KeepsReview, Operational

(* The handlers that run at once. *)
LEMMA QuickKept ==
  ASSUME TypeOK, WaitingIsOperational, Next
  PROVE  PromisesKept
<1>a. db \in Database
  BY DEF TypeOK
<1>b. ASSUME KeepsDocuments(db, db'), patched' = patched,
             Operational(db) => Operational(db'), db.status = "archived" => db'.status = "archived"
      PROVE  PromisesKept
  BY <1>b, NoRowKept DEF KeepsDocuments
<1>1. ASSUME NEW kind \in UploadKinds, UploadToRepair(kind) PROVE PromisesKept
  <2>1. PICK d \in Documents : d \notin Present(db) /\ db' = Uploaded(db, d, kind)
    BY <1>1 DEF UploadToRepair
  <2>2. db.doc[d].status = "absent" /\ Operational(db) /\ patched' = patched
    BY <1>1, <2>1 DEF Present, UploadToRepair
  <2>3. Operational(db')
    BY <1>a, <2>1, <2>2, UploadedKeepsReview, ReviewKeepsOperational
  <2>4. /\ \A e \in Documents \ {d} : db'.doc[e].status = db.doc[e].status
        /\ db'.jobs = db.jobs \cup {d}
    BY <1>a, <2>1, UploadedEffect
  <2>5. QED
    BY <2>2, <2>3, <2>4, OneRowKept DEF Operational
<1>2. ASSUME NEW status \in EditStatuses, NEW preliminary \in BOOLEAN, NEW header \in BOOLEAN,
             NEW service \in {"as_is", "set", "cleared"},
             UpdateRepair(status, preliminary, header, service)
      PROVE  PromisesKept
  <2>1. /\ KeepsDocuments(db, db') /\ patched' = patched /\ Operational(db)
        /\ db'.parentArchived = db.parentArchived /\ db'.status # "archived"
    BY <1>a, <1>2 DEF UpdateRepair, WithService, Database, KeepsDocuments, Operational
  <2>2. QED
    BY <1>b, <2>1 DEF Operational
<1>3. ASSUME NEW on \in BOOLEAN, UpdateFields(on) \/ UpdateService(on) PROVE PromisesKept
  <2>1. /\ KeepsDocuments(db, db') /\ patched' = patched /\ Operational(db)
        /\ db'.parentArchived = db.parentArchived /\ db'.status # "archived"
    BY <1>a, <1>3 DEF UpdateFields, UpdateService, Refreshed, WithService, Database, KeepsDocuments
  <2>2. QED
    BY <1>b, <2>1 DEF Operational
<1>4. ASSUME NEW c \in Findings, NEW resolved \in BOOLEAN, UpdateCheck(c, resolved) PROVE PromisesKept
  <2>1. /\ KeepsDocuments(db, db') /\ patched' = patched /\ Operational(db)
        /\ db'.parentArchived = db.parentArchived /\ db'.status # "archived"
    BY <1>a, <1>4 DEF UpdateCheck, Refreshed, Database, KeepsDocuments
  <2>2. QED
    BY <1>b, <2>1 DEF Operational
<1>5. CASE ArchiveRepair
  <2>1. /\ \A e \in Documents :
             db'.doc[e].status = IF e \in Present(db) THEN "archived" ELSE db.doc[e].status
        /\ db.status # "archived"
    BY <1>a, <1>5, RepairArchivedEffect DEF ArchiveRepair
  <2>2. \A e \in Documents : /\ db'.doc[e].status \in {"archived", "absent"}
                             /\ db.doc[e].status = "archived" => db'.doc[e].status = "archived"
    BY <2>1 DEF Present
  <2>3. QED
    BY <2>1, <2>2 DEF PromisesKept, Restored, Forgotten, WaitingIsOperational
<1>6. CASE RestoreRepair
  <2>1. /\ \A e \in Documents :
             db'.doc[e].status =
               IF db.doc[e].status = "archived" THEN "needs_review" ELSE db.doc[e].status
        /\ db'.jobs = db.jobs /\ patched' = patched
    BY <1>a, <1>6, RepairRestoredEffect DEF RestoreRepair
  <2>2. db'.status = "in_review" /\ db'.parentArchived = db.parentArchived /\ ~db.parentArchived
    BY <1>a, <1>6 DEF RestoreRepair, RepairRestored, Normalized, WithPrimary, Database
  <2>3. Forgotten' \subseteq Forgotten
    BY <2>1 DEF Forgotten
  <2>4. QED
    BY <1>6, <2>2, <2>3 DEF PromisesKept, Restored, WaitingIsOperational, Operational
<1>7. CASE ArchiveParent \/ RestoreParent
  <2>1. /\ KeepsDocuments(db, db') /\ patched' = patched /\ db'.status = db.status
        /\ db.status = "archived" \/ ~db'.parentArchived
    BY <1>a, <1>7 DEF ArchiveParent, RestoreParent, KeepsDocuments, Database
  <2>2. QED
    BY <1>b, <2>1 DEF Operational
<1> SUFFICES ASSUME NEW d \in Documents,
                    \/ Process(d) \/ LinkVehicle(d) \/ ArchiveDocument(d) \/ RestoreDocument(d)
                    \/ SetPrimary(d) \/ ReviewComparison(d, TRUE) \/ ReviewComparison(d, FALSE)
                    \/ \E status \in PatchStatuses : UpdateDocument(d, status)
                    \/ ConfirmByEmployee(d) \/ ConfirmByAdmin(d) \/ SendToReview(d)
                    \/ RunRejected(d) \/ RunFailed(d) \/ RunStored(d) \/ RunFinished(d)
             PROVE  PromisesKept
  BY <1>1, <1>2, <1>3, <1>4, <1>5, <1>6, <1>7, NextSteps
<1>8. CASE Process(d) \/ LinkVehicle(d)
  <2> DEFINE linked == [db EXCEPT !.linked = TRUE,
                                  !.checks = [c \in Findings |->
                                    IF c = "vehicle" /\ db.checks[c] # "none" THEN "resolved"
                                    ELSE db.checks[c]]]
  <2>1. /\ linked \in Database /\ KeepsDocuments(db, linked)
        /\ linked.status = db.status /\ linked.parentArchived = db.parentArchived
    BY <1>a, VehicleLinkedType DEF KeepsDocuments, Database
  <2>2. db' = Rechecked(db, d) \/ db' = Rechecked(linked, d)
    BY <1>8 DEF Process, LinkVehicle
  <2> HIDE DEF linked
  <2>3. PICK s \in Database : /\ db' = Rechecked(s, d) /\ KeepsDocuments(db, s)
                              /\ s.status = db.status /\ s.parentArchived = db.parentArchived
    BY <1>a, <2>1, <2>2 DEF KeepsDocuments
  <2>4. /\ \A e \in Documents \ {d} : db'.doc[e] = db.doc[e]
        /\ db'.doc[d] = db.doc[d] \/ db'.doc[d].status = "uploaded"
        /\ db'.jobs = db.jobs \cup {d}
    BY <2>3, RecheckedEffect DEF KeepsDocuments
  <2>5. patched \ {d} \subseteq patched' /\ Operational(db) /\ db.doc[d].status # "archived"
    BY <1>8 DEF Process, LinkVehicle, Usable, Live
  <2>6. Operational(db')
    <3>1. Operational(s)
      BY <2>3, <2>5 DEF Operational
    <3>2. QED
      BY <2>3, <3>1, RecheckedKeepsReview, ReviewKeepsOperational
  <2>7. QED
    BY <2>4, <2>5, <2>6, OneRowKept DEF Operational
<1>9. CASE ArchiveDocument(d) \/ RestoreDocument(d)
  <2>1. /\ db' = DocumentArchived(db, d) \/ db' = DocumentRestored(db, d)
        /\ Operational(db) /\ patched \ {d} \subseteq patched'
        /\ db.doc[d].status = "archived" => RestoreDocument(d)
    BY <1>9 DEF ArchiveDocument, RestoreDocument, CanRestoreDocument, Usable, Live
  <2>2. Operational(db')
    BY <1>a, <2>1, DocumentsKeepReview, ReviewKeepsOperational
  <2>3. /\ \A e \in Documents \ {d} : db'.doc[e].status = db.doc[e].status
        /\ db'.doc[d].status # "uploaded" /\ db'.jobs = db.jobs
    BY <1>a, <2>1, DocumentArchivedEffect, DocumentRestoredEffect
  <2>4. QED
    BY <2>1, <2>2, <2>3, OneRowKept DEF Operational
<1>10. CASE SetPrimary(d) \/ ReviewComparison(d, TRUE) \/ ReviewComparison(d, FALSE)
  <2>1. /\ \E t \in Documents \cup {NoDocument} :
             db' = WithPrimary(db, t) \/ db' = Reopened(WithPrimary(db, t))
        /\ Operational(db) /\ patched' = patched
    BY <1>a, <1>10, CandidateIsEligible DEF SetPrimary, ReviewComparison, CanMakePrimary, Usable, PrimarySet
  <2>2. PICK t \in Documents \cup {NoDocument} :
          db' = WithPrimary(db, t) \/ db' = Reopened(WithPrimary(db, t))
    BY <2>1
  <2>3. Operational(db')
    BY <1>a, <2>1, <2>2, NormalizedKeepsReview, DocumentsKeepReview, ReviewKeepsOperational
  <2>4. (\A e \in Documents : db'.doc[e].status = db.doc[e].status) /\ db'.jobs = db.jobs
    BY <1>a, <2>2, WithPrimaryType, WithPrimaryEffect, ReopenedEffect
  <2>5. QED
    BY <2>1, <2>3, <2>4, NoRowKept DEF Operational
<1>11. ASSUME NEW status \in PatchStatuses, UpdateDocument(d, status) PROVE PromisesKept
  <2>1. /\ db' = [db EXCEPT !.doc[d].status = status] /\ d \in Live(db)
        /\ status \in DocumentStatuses /\ patched' = patched \cup {d}
    BY <1>11, EditAssumption DEF UpdateDocument
  <2>2. /\ \A e \in Documents : db'.doc[e].status = IF e = d THEN status ELSE db.doc[e].status
        /\ db'.status = db.status /\ db'.jobs = db.jobs
    BY <1>a, <2>1, StatusSetEffect
  <2>3. db'.parentArchived = db.parentArchived
    BY <1>a, <2>1 DEF Database
  <2>4. QED
    BY <2>1, <2>2, <2>3, OneRowKept DEF Operational, Live
<1>12. CASE ConfirmByEmployee(d) \/ ConfirmByAdmin(d) \/ SendToReview(d)
  <2>1. PICK st \in {"confirmed", "needs_review"}, rs \in RepairStatuses, p \in BOOLEAN :
          /\ db' = [db EXCEPT !.doc[d].status = st, !.status = rs, !.preliminary = p]
          /\ rs \in {"employee_confirmed", "confirmed", "in_review"}
    BY <1>12 DEF ConfirmByEmployee, ConfirmByAdmin, SendToReview, EmployeeConfirmed, Confirmed,
                 SentToReview, RepairStatuses
  <2>2. d \in Live(db) /\ Operational(db) /\ patched' = patched \ {d}
    BY <1>12 DEF ConfirmByEmployee, ConfirmByAdmin, SendToReview, CanConfirm, InReviewQueue, Eligible
  <2>3. /\ \A e \in Documents : db'.doc[e].status = IF e = d THEN st ELSE db.doc[e].status
        /\ db'.status = rs /\ db'.jobs = db.jobs
    BY <1>a, <2>1, ReviewedEffect
  <2>4. db'.parentArchived = db.parentArchived
    BY <1>a, <2>1 DEF Database
  <2>5. QED
    BY <2>1, <2>2, <2>3, <2>4, OneRowKept DEF Operational, Live
<1>13. CASE RunRejected(d)
  <2>1. /\ db' = [db EXCEPT !.jobs = @ \ {d}] /\ ~Usable(db, d) /\ patched' = patched /\ d \in db.jobs
    BY <1>13 DEF RunRejected
  <2>2. /\ db'.doc = db.doc /\ db'.status = db.status /\ db'.parentArchived = db.parentArchived
        /\ db'.jobs = db.jobs \ {d}
    BY <1>a, <2>1 DEF Database
  <2>3. db.doc[d].status # "uploaded" \/ d \in patched
    BY <2>1 DEF WaitingIsOperational, Usable, Live, Present
  <2>4. QED
    BY <2>1, <2>2, <2>3, OneRowKept DEF Operational
<1>14. CASE RunFailed(d) \/ RunStored(d) \/ RunFinished(d)
  <2>1. d \in Live(db) /\ Operational(db) /\ patched' = patched \ {d}
    BY <1>14 DEF RunFailed, RunStored, RunFinished, Usable
  <2>2. /\ \A e \in Documents \ {d} : db'.doc[e].status = db.doc[e].status
        /\ db'.doc[d].status # "uploaded" /\ db'.jobs = db.jobs \ {d}
        /\ db'.status = db.status \/ db'.status # "archived"
    BY <1>a, <1>14, RunEffect DEF RunFailed, RunStored, RunFinished
  <2>3. db'.parentArchived = db.parentArchived
    BY <1>a, <1>14 DEF RunFailed, RunStored, RunFinished, OcrFailed, StoredOnly, OcrFinished, Database
  <2>4. QED
    BY <2>1, <2>2, <2>3, OneRowKept DEF Operational, Live
<1>15. QED
  BY <1>8, <1>9, <1>10, <1>11, <1>12, <1>13, <1>14

(* The end of a slow transaction. *)
LEMMA EndsLeave ==
  ASSUME SessionInv, RunCommits \/ RunRaises \/ RequestCommits
  PROVE  /\ \A d \in Documents : db.doc[d].status = "archived" /\ db'.doc[d].status # "archived" => EndsOn(d)
         /\ db.status = "archived" /\ db'.status # "archived" => EndsOnRepair
<1>1. InSession /\ session # Idle /\ session' = Idle
  BY DEF SessionInv, SessionTyped, Idle, RunCommits, RunRaises, RequestCommits
<1>2. EndsOn(session.doc) /\ EndsOnRepair
  BY <1>1 DEF InSession, EndsOn, EndsOnRepair
<1>3. \A d \in Documents \ {session.doc} : db'.doc[d].status = db.doc[d].status
  BY RunCommitsWrites, RunRaisesWrites, ConfirmCommitsWrites, PrimaryCommitsWrites
     DEF RequestCommits, SlowWrote
<1>4. QED
  BY <1>2, <1>3

(* All but the end of a run that was asked for again leaves a job to what   *)
(* waits.                                                                   *)
LEMMA SlowRowKept ==
  ASSUME WaitingIsOperational, NEW d \in Documents,
         \A e \in Documents \ {d} : db'.doc[e].status = db.doc[e].status,
         patched \ {d} \subseteq patched',
         db.jobs \ {d} \subseteq db'.jobs, db'.jobs \subseteq db.jobs,
         db'.parentArchived = db.parentArchived, db'.status = db.status \/ db'.status # "archived",
         \/ db'.doc[d].status # "uploaded"
         \/ db'.doc[d].status = db.doc[d].status /\ patched' = patched /\ db'.jobs = db.jobs
         \/ AskedDuringItsRun(d) /\ d \notin db'.jobs
  PROVE  WaitingIsOperational' /\ \A e \in Forgotten' \ Forgotten : AskedDuringItsRun(e)
<1>1. Operational(db) => Operational(db)'
  BY DEF Operational
<1>2. ASSUME NEW e \in Documents \ patched', db'.doc[e].status = "uploaded", e \in db'.jobs
      PROVE  Operational(db)'
  BY <1>1, <1>2 DEF WaitingIsOperational
<1>3. ASSUME NEW e \in Documents \ patched', db'.doc[e].status = "uploaded", e \notin db'.jobs,
             ~AskedDuringItsRun(e)
      PROVE  e \in Documents \ patched /\ db.doc[e].status = "uploaded" /\ e \notin db.jobs
  BY <1>3
<1>4. ASSUME NEW e \in Forgotten' \ Forgotten, ~AskedDuringItsRun(e) PROVE FALSE
  BY <1>3, <1>4 DEF Forgotten
<1>5. WaitingIsOperational'
  BY <1>2 DEF WaitingIsOperational
<1>6. QED
  BY <1>4, <1>5

LEMMA ConfirmedRow ==
  ASSUME NEW s \in Database, NEW d \in Documents
  PROVE  EmployeeConfirmed(s, d).doc[d].status = "confirmed"
<1>1. s.doc \in [Documents -> Document] /\ s.doc[d] \in Document
  BY RowsType
<1>2. EmployeeConfirmed(s, d).doc = [s.doc EXCEPT ![d] = [s.doc[d] EXCEPT !.status = "confirmed"]]
  BY <1>1 DEF EmployeeConfirmed, Database
<1>3. QED
  BY <1>1, <1>2 DEF Document

LEMMA EndsKept ==
  ASSUME SessionInv, WaitingIsOperational, RunCommits \/ RunRaises \/ RequestCommits
  PROVE  WaitingIsOperational' /\ \A e \in Forgotten' \ Forgotten : AskedDuringItsRun(e)
<1> DEFINE d == session.doc
           r == session.read
<1>1. InSession /\ session' = Idle
  BY DEF SessionInv, SessionTyped, Idle, RunCommits, RunRaises, RequestCommits
<1>2. db \in Database /\ d \in Documents /\ r \in Database
  BY <1>1 DEF SessionInv, TypeOK, InSession
<1>3. CASE RunCommits
  <2>1. PICK w : /\ \/ w \in {OcrFinished(r, d, o) : o \in Outcomes}
                    \/ w = StoredOnly(r, d)
                 /\ db' = RunWrites(r, w, d) /\ patched' = Patched(d, w)
    BY <1>3 DEF RunCommits
  <2>2. SlowWrote(db, d, db') /\ session.handler = "run"
    BY <1>3, RunCommitsWrites DEF RunCommits
  <2> HIDE DEF d, r
  <2>3. w \in Database /\ w.doc[d].status # "uploaded"
    BY <1>2, <2>1, RunTypes, RunEffect
  <2>4. /\ Merged(r, w, db) \in Database /\ Merged(r, w, db).parentArchived = db.parentArchived
        /\ Merged(r, w, db).doc[d].status = Column(r.doc[d].status, w.doc[d].status, db.doc[d].status)
    BY <1>2, <2>3, MergedColumns DEF Merged
  <2>5. /\ db'.jobs = db.jobs \ {d} /\ db'.parentArchived = db.parentArchived
        /\ db'.doc[d].status = Column(r.doc[d].status, w.doc[d].status, db.doc[d].status)
    BY <2>1, <2>4 DEF RunWrites, Database
  <2>6. db'.doc[d].status = "uploaded" => AskedDuringItsRun(d)
    BY <1>1, <2>2, <2>3, <2>5 DEF Column, AskedDuringItsRun, d, r
  <2>7. patched \ {d} \subseteq patched'
    BY <2>1 DEF Patched
  <2>8. QED
    BY <1>2, <2>2, <2>5, <2>6, <2>7, SlowRowKept DEF SlowWrote
<1>4. CASE RunRaises
  <2>1. db' = OcrFailed(db, d) /\ patched' = patched \ {d} /\ SlowWrote(db, d, db')
    BY <1>4, RunRaisesWrites DEF RunRaises
  <2> HIDE DEF d
  <2>2. db'.jobs = db.jobs \ {d} /\ db'.doc[d].status # "uploaded"
    BY <1>2, <2>1, RunEffect
  <2>3. db'.parentArchived = db.parentArchived
    BY <1>2, <2>1 DEF OcrFailed, Database
  <2>4. QED
    BY <1>2, <2>1, <2>2, <2>3, SlowRowKept DEF SlowWrote
<1>5. CASE RequestCommits /\ session.handler = "employee_confirm"
  <2> DEFINE w == EmployeeConfirmed(r, d)
  <2>1. db' = Merged(r, w, db) /\ patched' = Patched(d, w) /\ SlowWrote(db, d, db')
    BY <1>5, ConfirmCommitsWrites DEF RequestCommits
  <2>a. w \in Database
    BY <1>1, <1>2, ConfirmationWrote DEF InSession
  <2>b. w.doc[d].status = "confirmed"
    BY <1>2, ConfirmedRow
  <2>2. w \in Database /\ w.doc[d].status = "confirmed"
    BY <2>a, <2>b
  <2> HIDE DEF d, r, w
  <2>3. /\ db'.jobs = db.jobs /\ db'.parentArchived = db.parentArchived
        /\ db'.doc[d].status = Column(r.doc[d].status, "confirmed", db.doc[d].status)
    BY <1>2, <2>1, <2>2, MergedColumns DEF Merged
  <2>4. \/ db'.doc[d].status # "uploaded"
        \/ db'.doc[d].status = db.doc[d].status /\ patched' = patched
    BY <2>1, <2>2, <2>3 DEF Column, Patched
  <2>5. patched \ {d} \subseteq patched'
    BY <2>1 DEF Patched
  <2>6. QED
    BY <1>2, <2>1, <2>3, <2>4, <2>5, SlowRowKept DEF SlowWrote
<1>6. CASE RequestCommits /\ session.handler = "set_primary"
  <2> DEFINE w == PrimarySet(r, d)
  <2>1. /\ db' = Merged(r, w, db) /\ patched' = patched
        /\ \A e \in Documents : db'.doc[e].status = db.doc[e].status
        /\ db'.status = db.status \/ db'.status # "archived"
    BY <1>6, PrimaryCommitsWrites DEF RequestCommits
  <2> HIDE DEF d, r, w
  <2>2. db'.jobs = db.jobs /\ db'.parentArchived = db.parentArchived
    BY <2>1 DEF Merged
  <2>3. QED
    BY <1>2, <2>1, <2>2, SlowRowKept
<1>7. QED
  BY <1>3, <1>4, <1>5, <1>6 DEF RequestCommits

LEMMA SessionKept ==
  ASSUME SessionInv, WaitingIsOperational, [SessionNext]_sessionVars
  PROVE  /\ WaitingIsOperational'
         /\ \A d \in Documents : db.doc[d].status = "archived" /\ db'.doc[d].status # "archived"
              => RestoreDocument(d) \/ RestoreRepair \/ EndsOn(d)
         /\ db.status = "archived" /\ db'.status # "archived" => RestoreRepair \/ EndsOnRepair
         /\ \A d \in Forgotten' \ Forgotten : AskedDuringItsRun(d)
<1> DEFINE Goal == /\ WaitingIsOperational'
                   /\ \A d \in Documents : db.doc[d].status = "archived" /\ db'.doc[d].status # "archived"
                        => RestoreDocument(d) \/ RestoreRepair \/ EndsOn(d)
                   /\ db.status = "archived" /\ db'.status # "archived" => RestoreRepair \/ EndsOnRepair
                   /\ \A d \in Forgotten' \ Forgotten : AskedDuringItsRun(d)
<1>1. ASSUME UNCHANGED <<db, patched>> PROVE Goal
  BY <1>1 DEF WaitingIsOperational, Operational, Forgotten
<1>2. ASSUME Others PROVE Goal
  <2>1. TypeOK /\ Next
    BY <1>2 DEF SessionInv, Others, Next
  <2>2. QED
    BY <2>1, QuickKept DEF PromisesKept, Restored
<1>3. ASSUME RunCommits \/ RunRaises \/ RequestCommits PROVE Goal
  BY <1>3, EndsLeave, EndsKept
<1> HIDE DEF Goal
<1>4. Goal
  BY <1>1, <1>2, <1>3 DEF SessionNext, RunLoads, RequestLoads, sessionVars
<1>5. QED
  BY <1>4 DEF Goal

LEMMA InitialWaiting ==
  ASSUME SessionInit
  PROVE  WaitingIsOperational
BY DEF SessionInit, Init, DraftOf, Imported, WaitingIsOperational, Operational

LEMMA SessionInvariant == SessionSpec => [](SessionInv /\ WaitingIsOperational)
<1>1. SessionInit => SessionInv /\ WaitingIsOperational
  BY SessionInitial, InitialWaiting
<1>2. SessionInv /\ WaitingIsOperational /\ [SessionNext]_sessionVars
        => (SessionInv /\ WaitingIsOperational)'
  BY SessionStep, SessionKept
<1>3. QED
  BY <1>1, <1>2, PTL DEF SessionSpec

(* Only a restore takes a document or a repair out of the archive, and the  *)
(* end of a transaction that read it before it was archived.                *)
THEOREM OnlyRestoreLeavesTheArchive == SessionSpec => ArchiveLeftByRestore
<1>1. SessionInv /\ WaitingIsOperational /\ [SessionNext]_sessionVars =>
        [/\ \A d \in Documents : db.doc[d].status = "archived" /\ db'.doc[d].status # "archived"
              => RestoreDocument(d) \/ RestoreRepair \/ EndsOn(d)
         /\ db.status = "archived" /\ db'.status # "archived" => RestoreRepair \/ EndsOnRepair]_sessionVars
  BY SessionKept
<1>2. QED
  BY <1>1, SessionInvariant, PTL DEF SessionSpec, ArchiveLeftByRestore

(* A document that shows "uploaded" without a PATCH having set it keeps an  *)
(* active job, whatever is slow, unless its own run was overtaken by the    *)
(* request.                                                                 *)
THEOREM WaitingDocumentsKeepTheirJobs == SessionSpec => WaitingKeepsJob
<1>1. SessionInv /\ WaitingIsOperational /\ [SessionNext]_sessionVars =>
        [\A d \in Forgotten' \ Forgotten : AskedDuringItsRun(d)]_sessionVars
  BY SessionKept
<1>2. QED
  BY <1>1, SessionInvariant, PTL DEF SessionSpec, WaitingKeepsJob

-----------------------------------------------------------------------------
(* What a slow transaction does in time.  If the rows it decided on are     *)
(* still there when it writes, the merge of the columns is the result of a  *)
(* handler that runs at once: first for a run, then for the two requests.   *)

(* Two states of the rows that agree in every column are one. *)
LEMMA SameRows ==
  ASSUME NEW s \in Database, NEW t \in Database,
         s.status = t.status, s.preliminary = t.preliminary, s.header = t.header, s.service = t.service,
         s.linked = t.linked, s.parentArchived = t.parentArchived, s.source = t.source,
         s.checks = t.checks, s.jobs = t.jobs,
         \A e \in Documents : /\ s.doc[e].kind = t.doc[e].kind /\ s.doc[e].status = t.doc[e].status
                              /\ s.doc[e].primary = t.doc[e].primary /\ s.doc[e].queued = t.doc[e].queued
  PROVE  s = t
<1>1. ASSUME NEW e \in Documents PROVE s.doc[e] = t.doc[e]
  <2>1. s.doc[e] \in Document /\ t.doc[e] \in Document
    BY RowsType
  <2>2. QED
    BY <2>1 DEF Document
<1>2. s.doc = t.doc
  <2>1. s.doc = [e \in Documents |-> s.doc[e]] /\ t.doc = [e \in Documents |-> t.doc[e]]
    BY DEF Database
  <2>2. QED
    BY <1>1, <2>1, Zenon
<1>3. QED
  BY <1>2 DEF Database

(* All columns of a merge. *)
LEMMA MergedRows ==
  ASSUME NEW r \in Database, NEW w \in Database, NEW n \in Database
  PROVE  LET m == Merged(r, w, n) IN
         /\ m \in Database
         /\ m.status = Column(r.status, w.status, n.status)
         /\ m.preliminary = Column(r.preliminary, w.preliminary, n.preliminary)
         /\ m.header = Column(r.header, w.header, n.header)
         /\ m.service = Column(r.service, w.service, n.service)
         /\ m.linked = Column(r.linked, w.linked, n.linked)
         /\ m.parentArchived = n.parentArchived
         /\ m.source = Column(r.source, w.source, n.source)
         /\ m.checks = n.checks /\ m.jobs = n.jobs
         /\ \A e \in Documents :
              /\ m.doc[e].kind = n.doc[e].kind
              /\ m.doc[e].status = Column(r.doc[e].status, w.doc[e].status, n.doc[e].status)
              /\ m.doc[e].primary = Column(r.doc[e].primary, w.doc[e].primary, n.doc[e].primary)
              /\ m.doc[e].queued = Column(r.doc[e].queued, w.doc[e].queued, n.doc[e].queued)
<1>1. Merged(r, w, n) \in Database
  BY MergedColumns
<1>2. QED
  BY <1>1 DEF Merged

(* A column that nobody else changed has what the session wrote; one that   *)
(* the session did not change has what is there now.                        *)
LEMMA ColumnSettles ==
  /\ \A r, w : Column(r, w, r) = w
  /\ \A r, n : Column(r, r, n) = n
BY DEF Column

(* How much OCR recognised, as the document's status. *)
StatusOf(o) ==
  CASE o.fields = "most" -> "recognized"
    [] o.fields = "some" -> "partially_recognized"
    [] o.fields = "none_pdf" -> "ocr_error"
    [] o.fields = "none_image" -> "needs_review"

(* A run leaves of the documents all but its own, and of that one all but   *)
(* the status and the mark of the queue.                                    *)
OnlyRead(s, d, status, t) ==
  /\ t.parentArchived = s.parentArchived /\ t.source = s.source /\ t.jobs = s.jobs \ {d}
  /\ \A e \in Documents : t.doc[e].kind = s.doc[e].kind /\ t.doc[e].primary = s.doc[e].primary
  /\ \A e \in Documents \ {d} : t.doc[e].queued = s.doc[e].queued /\ t.doc[e].status = s.doc[e].status
  /\ t.doc[d].queued = FALSE /\ t.doc[d].status = status

LEMMA FinishedColumns ==
  ASSUME NEW s \in Database, NEW d \in Documents, NEW o \in Outcomes
  PROVE  LET t == OcrFinished(s, d, o) IN
         /\ t \in Database
         /\ t.status = IF o.fields \in {"none_pdf", "none_image"} THEN "ocr_error"
                       ELSE IF "blocking" \in o.found THEN "suspicious" ELSE "in_review"
         /\ t.preliminary = TRUE /\ t.header = o.header
         /\ t.service = (s.service \/ o.service) /\ t.linked = (s.linked \/ o.linked)
         /\ t.checks = [c \in Findings |-> IF c \in o.found THEN "open" ELSE "none"]
         /\ OnlyRead(s, d, StatusOf(o), t)
<1> DEFINE t == OcrFinished(s, d, o)
           row == [[s.doc[d] EXCEPT !.queued = FALSE] EXCEPT !.status = StatusOf(o)]
<1>1. s.doc \in [Documents -> Document] /\ s.doc[d] \in Document
  BY RowsType
<1>2. t = [s EXCEPT !.jobs = @ \ {d}, !.doc[d].queued = FALSE, !.doc[d].status = StatusOf(o),
                    !.checks = [c \in Findings |-> IF c \in o.found THEN "open" ELSE "none"],
                    !.header = o.header, !.service = @ \/ o.service, !.linked = @ \/ o.linked,
                    !.preliminary = TRUE,
                    !.status = IF o.fields \in {"none_pdf", "none_image"} THEN "ocr_error"
                               ELSE IF "blocking" \in o.found THEN "suspicious" ELSE "in_review"]
  BY DEF OcrFinished, StatusOf
<1>3. /\ t.status = IF o.fields \in {"none_pdf", "none_image"} THEN "ocr_error"
                    ELSE IF "blocking" \in o.found THEN "suspicious" ELSE "in_review"
      /\ t.preliminary = TRUE /\ t.header = o.header
      /\ t.service = (s.service \/ o.service) /\ t.linked = (s.linked \/ o.linked)
      /\ t.parentArchived = s.parentArchived /\ t.source = s.source
      /\ t.checks = [c \in Findings |-> IF c \in o.found THEN "open" ELSE "none"]
      /\ t.jobs = s.jobs \ {d}
      /\ t.doc = [s.doc EXCEPT ![d] = row]
  <2> HIDE DEF t
  <2>1. QED
    BY <1>1, <1>2 DEF Database
<1>4. t \in Database
  BY RunTypes
<1>5. row.kind = s.doc[d].kind /\ row.primary = s.doc[d].primary /\ row.queued = FALSE /\ row.status = StatusOf(o)
  BY <1>1 DEF Document
<1> HIDE DEF t, row
<1>6. OnlyRead(s, d, StatusOf(o), t)
  BY <1>1, <1>3, <1>5 DEF OnlyRead
<1>7. QED
  BY <1>3, <1>4, <1>6 DEF t

LEMMA StoredColumns ==
  ASSUME NEW s \in Database, NEW d \in Documents
  PROVE  LET t == StoredOnly(s, d) IN
         /\ t \in Database
         /\ t.status = s.status /\ t.preliminary = s.preliminary /\ t.header = s.header
         /\ t.service = s.service /\ t.linked = s.linked /\ t.checks = s.checks
         /\ OnlyRead(s, d, "confirmed", t)
<1> DEFINE t == StoredOnly(s, d)
           row == [[s.doc[d] EXCEPT !.status = "confirmed"] EXCEPT !.queued = FALSE]
<1>1. s.doc \in [Documents -> Document] /\ s.doc[d] \in Document
  BY RowsType
<1>2. /\ t.status = s.status /\ t.preliminary = s.preliminary /\ t.header = s.header
      /\ t.service = s.service /\ t.linked = s.linked /\ t.checks = s.checks
      /\ t.parentArchived = s.parentArchived /\ t.source = s.source /\ t.jobs = s.jobs \ {d}
      /\ t.doc = [s.doc EXCEPT ![d] = row]
  BY <1>1 DEF StoredOnly, Database
<1>3. t \in Database
  BY RunTypes
<1>4. row.kind = s.doc[d].kind /\ row.primary = s.doc[d].primary /\ row.queued = FALSE /\ row.status = "confirmed"
  BY <1>1 DEF Document
<1> HIDE DEF t, row
<1>5. OnlyRead(s, d, "confirmed", t)
  BY <1>1, <1>2, <1>4 DEF OnlyRead
<1>6. QED
  BY <1>2, <1>3, <1>5 DEF t

(* A run whose rows are still as it read them writes what it would write if *)
(* it had read them only now.                                               *)
LEMMA TimelyRunWrites ==
  ASSUME NEW s \in Database, s = db, NEW d \in Documents, NEW r \in Database, r = ReadByRun(s, d)
  PROVE  /\ r.doc[d].kind = s.doc[d].kind /\ r.status = s.status
         /\ s.doc[d].kind \in PrimaryKinds =>
              \A o \in Outcomes : RunWrites(r, OcrFinished(r, d, o), d) = OcrFinished(s, d, o)
         /\ s.doc[d].kind \notin PrimaryKinds => RunWrites(r, StoredOnly(r, d), d) = StoredOnly(s, d)
<1>1. /\ r.status = s.status /\ r.preliminary = s.preliminary /\ r.header = s.header
      /\ r.service = s.service /\ r.linked = s.linked /\ r.source = NoDocument
      /\ r.doc = [e \in Documents |-> IF e = d THEN s.doc[d] ELSE NoSuchDocument]
  BY DEF ReadByRun, Database
<1>2. r.doc[d] = s.doc[d]
  BY <1>1
<1>3. ASSUME NEW w \in Database, NEW t \in Database, NEW status,
             w.status = t.status, w.preliminary = t.preliminary, w.header = t.header,
             w.service = t.service, w.linked = t.linked,
             t.checks = IF s.doc[d].kind \in PrimaryKinds THEN w.checks ELSE s.checks,
             OnlyRead(r, d, status, w), OnlyRead(s, d, status, t)
      PROVE  RunWrites(r, w, d) = t
  <2> USE DEF OnlyRead
  <2> DEFINE m == Merged(r, w, s)
             out == [m EXCEPT !.jobs = s.jobs \ {d}, !.checks = t.checks]
  <2>1. RunWrites(r, w, d) = out
    BY <1>2, <1>3 DEF RunWrites
  <2>2. /\ m \in Database
        /\ m.status = Column(r.status, w.status, s.status)
        /\ m.preliminary = Column(r.preliminary, w.preliminary, s.preliminary)
        /\ m.header = Column(r.header, w.header, s.header)
        /\ m.service = Column(r.service, w.service, s.service)
        /\ m.linked = Column(r.linked, w.linked, s.linked)
        /\ m.parentArchived = s.parentArchived
        /\ m.source = Column(r.source, w.source, s.source)
        /\ m.checks = s.checks /\ m.jobs = s.jobs
        /\ \A e \in Documents :
             /\ m.doc[e].kind = s.doc[e].kind
             /\ m.doc[e].status = Column(r.doc[e].status, w.doc[e].status, s.doc[e].status)
             /\ m.doc[e].primary = Column(r.doc[e].primary, w.doc[e].primary, s.doc[e].primary)
             /\ m.doc[e].queued = Column(r.doc[e].queued, w.doc[e].queued, s.doc[e].queued)
    BY MergedRows
  <2> HIDE DEF m
  <2>3. /\ m.status = t.status /\ m.preliminary = t.preliminary /\ m.header = t.header
        /\ m.service = t.service /\ m.linked = t.linked /\ m.source = t.source
    BY <1>1, <1>3, <2>2, ColumnSettles
  <2>4. ASSUME NEW e \in Documents
        PROVE  /\ m.doc[e].kind = t.doc[e].kind /\ m.doc[e].status = t.doc[e].status
               /\ m.doc[e].primary = t.doc[e].primary /\ m.doc[e].queued = t.doc[e].queued
    <3>1. m.doc[e].kind = t.doc[e].kind /\ m.doc[e].primary = t.doc[e].primary
      BY <1>3, <2>2, ColumnSettles
    <3>2. CASE e = d
      <4>1. /\ m.doc[d].status = Column(s.doc[d].status, w.doc[d].status, s.doc[d].status)
            /\ m.doc[d].queued = Column(s.doc[d].queued, w.doc[d].queued, s.doc[d].queued)
        BY <1>2, <2>2
      <4>2. m.doc[d].status = w.doc[d].status /\ m.doc[d].queued = w.doc[d].queued
        BY <4>1, ColumnSettles
      <4>3. QED
        BY <1>3, <3>1, <3>2, <4>2
    <3>3. CASE e # d
      BY <1>3, <2>2, <3>1, <3>3, ColumnSettles
    <3>4. QED
      BY <3>2, <3>3
  <2>5. /\ out \in Database /\ out.status = m.status /\ out.preliminary = m.preliminary
        /\ out.header = m.header /\ out.service = m.service /\ out.linked = m.linked
        /\ out.parentArchived = m.parentArchived /\ out.source = m.source /\ out.doc = m.doc
        /\ out.checks = t.checks /\ out.jobs = t.jobs
    BY <1>3, <2>2 DEF Database
  <2> HIDE DEF out
  <2>6. out = t
    <3>1. out.parentArchived = t.parentArchived
      BY <1>3, <2>2, <2>5
    <3>2. QED
      BY <2>3, <2>4, <2>5, <3>1, SameRows
  <2>7. QED
    BY <2>1, <2>6
<1>4. ASSUME s.doc[d].kind \in PrimaryKinds, NEW o \in Outcomes
      PROVE  RunWrites(r, OcrFinished(r, d, o), d) = OcrFinished(s, d, o)
  <2> DEFINE w == OcrFinished(r, d, o)
             t == OcrFinished(s, d, o)
  <2>a. \A u \in {r, s} : LET v == OcrFinished(u, d, o) IN
          /\ v \in Database
          /\ v.status = IF o.fields \in {"none_pdf", "none_image"} THEN "ocr_error"
                        ELSE IF "blocking" \in o.found THEN "suspicious" ELSE "in_review"
          /\ v.preliminary = TRUE /\ v.header = o.header
          /\ v.service = (u.service \/ o.service) /\ v.linked = (u.linked \/ o.linked)
          /\ v.checks = [c \in Findings |-> IF c \in o.found THEN "open" ELSE "none"]
          /\ OnlyRead(u, d, StatusOf(o), v)
    BY FinishedColumns
  <2>b. r.service = s.service /\ r.linked = s.linked
    BY <1>1
  <2>1. /\ w \in Database /\ t \in Database
        /\ w.status = t.status /\ w.preliminary = t.preliminary /\ w.header = t.header
        /\ w.service = t.service /\ w.linked = t.linked /\ w.checks = t.checks
        /\ OnlyRead(r, d, StatusOf(o), w) /\ OnlyRead(s, d, StatusOf(o), t)
    BY <2>a, <2>b
  <2> HIDE DEF w, t
  <2>2. RunWrites(r, w, d) = t
    BY <1>3, <1>4, <2>1
  <2>3. QED
    BY <2>2 DEF w, t
<1>5. ASSUME s.doc[d].kind \notin PrimaryKinds
      PROVE  RunWrites(r, StoredOnly(r, d), d) = StoredOnly(s, d)
  <2> DEFINE w == StoredOnly(r, d)
             t == StoredOnly(s, d)
  <2>1. /\ w \in Database /\ t \in Database
        /\ w.status = t.status /\ w.preliminary = t.preliminary /\ w.header = t.header
        /\ w.service = t.service /\ w.linked = t.linked /\ t.checks = s.checks
        /\ OnlyRead(r, d, "confirmed", w) /\ OnlyRead(s, d, "confirmed", t)
    BY <1>1, StoredColumns
  <2> HIDE DEF w, t
  <2>2. RunWrites(r, w, d) = t
    BY <1>3, <1>5, <2>1
  <2>3. QED
    BY <2>2 DEF w, t
<1>6. QED
  BY <1>1, <1>2, <1>4, <1>5

(* The quick handlers decide on the repair's status and on the documents'   *)
(* status and flag; the rest of the rows they leave.                        *)
OnlyDecided(s, t) ==
  /\ t.header = s.header /\ t.service = s.service /\ t.linked = s.linked
  /\ t.parentArchived = s.parentArchived /\ t.checks = s.checks /\ t.jobs = s.jobs
  /\ \A e \in Documents : t.doc[e].kind = s.doc[e].kind /\ t.doc[e].queued = s.doc[e].queued

(* What they decided, on rows that are as they read them, is what they would *)
(* decide now.                                                              *)
LEMMA TimelyRequestWrites ==
  ASSUME NEW s \in Database, NEW r \in Database, r = ReadByRequest(s), NEW w \in Database, NEW t \in Database,
         OnlyDecided(r, w), OnlyDecided(s, t),
         w.status = t.status, w.preliminary = t.preliminary, w.source = t.source,
         \A e \in Documents : w.doc[e].status = t.doc[e].status /\ w.doc[e].primary = t.doc[e].primary
  PROVE  Merged(r, w, s) = t
<1> DEFINE m == Merged(r, w, s)
<1>1. /\ r.status = s.status /\ r.preliminary = s.preliminary /\ r.source = s.source
      /\ \A e \in Documents : r.doc[e] = [s.doc[e] EXCEPT !.queued = FALSE]
  BY DEF ReadByRequest, Database
<1>2. \A e \in Documents : r.doc[e].status = s.doc[e].status /\ r.doc[e].primary = s.doc[e].primary
  <2>1. \A e \in Documents : s.doc[e] \in Document
    BY RowsType
  <2>2. QED
    BY <1>1, <2>1 DEF Document
<1>3. /\ m \in Database
      /\ m.status = Column(r.status, w.status, s.status)
      /\ m.preliminary = Column(r.preliminary, w.preliminary, s.preliminary)
      /\ m.header = Column(r.header, w.header, s.header)
      /\ m.service = Column(r.service, w.service, s.service)
      /\ m.linked = Column(r.linked, w.linked, s.linked)
      /\ m.parentArchived = s.parentArchived
      /\ m.source = Column(r.source, w.source, s.source)
      /\ m.checks = s.checks /\ m.jobs = s.jobs
      /\ \A e \in Documents :
           /\ m.doc[e].kind = s.doc[e].kind
           /\ m.doc[e].status = Column(r.doc[e].status, w.doc[e].status, s.doc[e].status)
           /\ m.doc[e].primary = Column(r.doc[e].primary, w.doc[e].primary, s.doc[e].primary)
           /\ m.doc[e].queued = Column(r.doc[e].queued, w.doc[e].queued, s.doc[e].queued)
  BY MergedRows
<1> HIDE DEF m
<1>4. /\ m.status = t.status /\ m.preliminary = t.preliminary /\ m.source = t.source
      /\ m.header = t.header /\ m.service = t.service /\ m.linked = t.linked
      /\ m.parentArchived = t.parentArchived /\ m.checks = t.checks /\ m.jobs = t.jobs
  <2>1. m.status = t.status /\ m.preliminary = t.preliminary /\ m.source = t.source
    <3>1. /\ m.status = Column(s.status, w.status, s.status)
          /\ m.preliminary = Column(s.preliminary, w.preliminary, s.preliminary)
          /\ m.source = Column(s.source, w.source, s.source)
      BY <1>1, <1>3
    <3>2. m.status = w.status /\ m.preliminary = w.preliminary /\ m.source = w.source
      BY <3>1, ColumnSettles
    <3>3. QED
      BY <3>2
  <2>2. m.header = t.header /\ m.service = t.service /\ m.linked = t.linked
    <3>1. /\ w.header = r.header /\ w.service = r.service /\ w.linked = r.linked
          /\ t.header = s.header /\ t.service = s.service /\ t.linked = s.linked
      BY DEF OnlyDecided
    <3>2. /\ m.header = Column(r.header, r.header, s.header)
          /\ m.service = Column(r.service, r.service, s.service)
          /\ m.linked = Column(r.linked, r.linked, s.linked)
      BY <1>3, <3>1
    <3>3. QED
      BY <3>1, <3>2, ColumnSettles
  <2>3. m.parentArchived = t.parentArchived /\ m.checks = t.checks /\ m.jobs = t.jobs
    BY <1>3 DEF OnlyDecided
  <2>4. QED
    BY <2>1, <2>2, <2>3
<1>5. ASSUME NEW e \in Documents
      PROVE  /\ m.doc[e].kind = t.doc[e].kind /\ m.doc[e].status = t.doc[e].status
             /\ m.doc[e].primary = t.doc[e].primary /\ m.doc[e].queued = t.doc[e].queued
  <2>1. m.doc[e].kind = t.doc[e].kind /\ m.doc[e].queued = t.doc[e].queued
    BY <1>3, ColumnSettles DEF OnlyDecided
  <2>2. /\ m.doc[e].status = Column(s.doc[e].status, w.doc[e].status, s.doc[e].status)
        /\ m.doc[e].primary = Column(s.doc[e].primary, w.doc[e].primary, s.doc[e].primary)
    BY <1>2, <1>3
  <2>3. QED
    BY <2>1, <2>2, ColumnSettles
<1>6. m = t
  BY <1>3, <1>4, <1>5, SameRows
<1>7. QED
  BY <1>6 DEF m

(* Making a document primary, column by column. *)
MadePrimary(s, d, t) ==
  LET reopens == Candidate(s) # d /\ s.status \in {"confirmed", "employee_confirmed"} IN
  /\ t \in Database /\ OnlyDecided(s, t) /\ t.source = d
  /\ t.status = IF reopens THEN "in_review" ELSE s.status
  /\ t.preliminary = IF reopens THEN TRUE ELSE s.preliminary
  /\ \A e \in Documents : t.doc[e].status = s.doc[e].status /\ t.doc[e].primary = (e = d)

LEMMA PrimarySetColumns ==
  ASSUME NEW s \in Database, NEW d \in Documents
  PROVE  MadePrimary(s, d, PrimarySet(s, d))
<1> DEFINE p == WithPrimary(s, d)
           t == PrimarySet(s, d)
<1>1. d # NoDocument
  BY MaxDocumentsAssumption DEF Documents, NoDocument
<1>2. p \in Database
  BY WithPrimaryType
<1>3. /\ p.source = d /\ p.status = s.status /\ p.preliminary = s.preliminary
      /\ p.header = s.header /\ p.service = s.service /\ p.linked = s.linked
      /\ p.parentArchived = s.parentArchived /\ p.checks = s.checks /\ p.jobs = s.jobs
      /\ p.doc = [e \in Documents |-> [s.doc[e] EXCEPT !.primary = (d # NoDocument /\ e = d)]]
  BY DEF WithPrimary, Database
<1>4. ASSUME NEW e \in Documents
      PROVE  /\ p.doc[e].kind = s.doc[e].kind /\ p.doc[e].queued = s.doc[e].queued
             /\ p.doc[e].status = s.doc[e].status /\ p.doc[e].primary = (e = d)
  <2>1. s.doc[e] \in Document
    BY RowsType
  <2>2. p.doc[e] = [s.doc[e] EXCEPT !.primary = (d # NoDocument /\ e = d)]
    BY <1>3
  <2>3. QED
    BY <1>1, <2>1, <2>2 DEF Document
<1> HIDE DEF p
<1>6. t = IF Candidate(s) # d THEN Reopened(p) ELSE p
  BY DEF PrimarySet, p
<1> HIDE DEF t
<1>7. CASE Candidate(s) = d
  <2>1. t = p
    BY <1>6, <1>7
  <2>2. QED
    BY <1>2, <1>3, <1>4, <1>7, <2>1 DEF OnlyDecided, MadePrimary, t
<1>8. CASE Candidate(s) # d
  <2> DEFINE q == Reopened(p)
  <2>1. /\ q \in Database /\ q.doc = p.doc /\ q.source = p.source /\ q.jobs = p.jobs
        /\ q.status = IF p.status \in {"confirmed", "employee_confirmed"} THEN "in_review" ELSE p.status
        /\ q.preliminary = IF p.status \in {"confirmed", "employee_confirmed"} THEN TRUE ELSE p.preliminary
        /\ q.header = p.header /\ q.service = p.service /\ q.linked = p.linked
        /\ q.parentArchived = p.parentArchived /\ q.checks = p.checks
    BY <1>2, ReopenedType DEF Reopened, Database
  <2>2. t = q
    BY <1>6, <1>8
  <2> HIDE DEF q
  <2>3. OnlyDecided(s, t)
    BY <1>3, <1>4, <2>1, <2>2 DEF OnlyDecided
  <2>4. t \in Database /\ t.source = d
    BY <1>3, <2>1, <2>2
  <2>5. /\ t.status = IF s.status \in {"confirmed", "employee_confirmed"} THEN "in_review" ELSE s.status
        /\ t.preliminary = IF s.status \in {"confirmed", "employee_confirmed"} THEN TRUE ELSE s.preliminary
    BY <1>3, <2>1, <2>2
  <2>6. \A e \in Documents : t.doc[e].status = s.doc[e].status /\ t.doc[e].primary = (e = d)
    BY <1>4, <2>1, <2>2
  <2>7. QED
    BY <1>8, <2>3, <2>4, <2>5, <2>6 DEF MadePrimary, t
<1>9. QED
  BY <1>7, <1>8

(* The employee's confirmation, column by column. *)
GivenBy(s, d, t) ==
  /\ t \in Database /\ OnlyDecided(s, t) /\ t.source = s.source
  /\ t.status = "employee_confirmed" /\ t.preliminary = TRUE
  /\ \A e \in Documents : /\ t.doc[e].primary = s.doc[e].primary
                          /\ t.doc[e].status = IF e = d THEN "confirmed" ELSE s.doc[e].status

LEMMA ConfirmationColumns ==
  ASSUME NEW s \in Database, NEW d \in Documents
  PROVE  GivenBy(s, d, EmployeeConfirmed(s, d))
<1> DEFINE t == EmployeeConfirmed(s, d)
<1>1. s.doc \in [Documents -> Document] /\ s.doc[d] \in Document
  BY RowsType
<1>2. /\ t.source = s.source /\ t.status = "employee_confirmed" /\ t.preliminary = TRUE
      /\ t.header = s.header /\ t.service = s.service /\ t.linked = s.linked
      /\ t.parentArchived = s.parentArchived /\ t.checks = s.checks /\ t.jobs = s.jobs
      /\ t.doc = [s.doc EXCEPT ![d] = [s.doc[d] EXCEPT !.status = "confirmed"]]
  BY <1>1 DEF EmployeeConfirmed, Database
<1>3. t \in Database
  BY ReviewedType
<1> HIDE DEF t
<1>4. \A e \in Documents : /\ t.doc[e].primary = s.doc[e].primary /\ t.doc[e].kind = s.doc[e].kind
                           /\ t.doc[e].queued = s.doc[e].queued
                           /\ t.doc[e].status = IF e = d THEN "confirmed" ELSE s.doc[e].status
  BY <1>1, <1>2 DEF Document
<1>5. OnlyDecided(s, t)
  BY <1>2, <1>4 DEF OnlyDecided
<1>6. QED
  BY <1>2, <1>3, <1>4, <1>5 DEF GivenBy, t

LEMMA TimelyRequest ==
  ASSUME NEW s \in Database, NEW d \in Documents, NEW r \in Database, r = ReadByRequest(s)
  PROVE  /\ Merged(r, PrimarySet(r, d), s) = PrimarySet(s, d)
         /\ Merged(r, EmployeeConfirmed(r, d), s) = EmployeeConfirmed(s, d)
<1>1. r.status = s.status /\ r.preliminary = s.preliminary /\ r.source = s.source
  BY DEF ReadByRequest, Database
<1>2. \A e \in Documents : /\ r.doc[e].status = s.doc[e].status /\ r.doc[e].primary = s.doc[e].primary
                           /\ r.doc[e].kind = s.doc[e].kind
  <2>1. \A e \in Documents : s.doc[e] \in Document
    BY RowsType
  <2>2. \A e \in Documents : r.doc[e] = [s.doc[e] EXCEPT !.queued = FALSE]
    BY DEF ReadByRequest, Database
  <2>3. QED
    BY <2>1, <2>2 DEF Document
<1>3. Candidate(r) = Candidate(s)
  <2>1. Eligible(r) = Eligible(s)
    BY <1>2 DEF Eligible, Live, Present
  <2>2. PrimaryOf(r) = PrimaryOf(s)
    BY <1>2, <2>1 DEF PrimaryOf, Eligible, Live, Present
  <2>3. QED
    BY <1>1, <2>1, <2>2 DEF Candidate
<1>4. Merged(r, PrimarySet(r, d), s) = PrimarySet(s, d)
  <2> DEFINE w == PrimarySet(r, d)
             t == PrimarySet(s, d)
  <2>a. MadePrimary(r, d, w) /\ MadePrimary(s, d, t)
    BY PrimarySetColumns
  <2>1. /\ w \in Database /\ t \in Database /\ OnlyDecided(r, w) /\ OnlyDecided(s, t)
        /\ w.source = t.source
        /\ \A e \in Documents : w.doc[e].status = r.doc[e].status /\ t.doc[e].status = s.doc[e].status
        /\ \A e \in Documents : w.doc[e].primary = t.doc[e].primary
    BY <2>a DEF MadePrimary
  <2>2. w.status = t.status /\ w.preliminary = t.preliminary
    BY <1>1, <1>3, <2>a DEF MadePrimary
  <2> HIDE DEF w, t
  <2>3. Merged(r, w, s) = t
    BY <1>2, <2>1, <2>2, TimelyRequestWrites
  <2>4. QED
    BY <2>3 DEF w, t
<1>5. Merged(r, EmployeeConfirmed(r, d), s) = EmployeeConfirmed(s, d)
  <2> DEFINE w == EmployeeConfirmed(r, d)
             t == EmployeeConfirmed(s, d)
  <2>a. GivenBy(r, d, w) /\ GivenBy(s, d, t)
    BY ConfirmationColumns
  <2>1. /\ w \in Database /\ t \in Database /\ OnlyDecided(r, w) /\ OnlyDecided(s, t)
        /\ w.status = t.status /\ w.preliminary = t.preliminary
        /\ w.source = r.source /\ t.source = s.source
        /\ \A e \in Documents : w.doc[e].primary = r.doc[e].primary /\ t.doc[e].primary = s.doc[e].primary
        /\ \A e \in Documents : /\ w.doc[e].status = IF e = d THEN "confirmed" ELSE r.doc[e].status
                                /\ t.doc[e].status = IF e = d THEN "confirmed" ELSE s.doc[e].status
    BY <2>a DEF GivenBy
  <2> HIDE DEF w, t
  <2>2. Merged(r, w, s) = t
    BY <1>1, <1>2, <2>1, TimelyRequestWrites
  <2>3. QED
    BY <2>2 DEF w, t
<1>6. QED
  BY <1>4, <1>5

-----------------------------------------------------------------------------
(* Slow transactions that end in time. *)

(* A slow transaction ends on rows that are not the ones it decided on.     *)
LateEnd ==
  \/ RunCommits /\ session.read # ReadByRun(db, session.doc)
  \/ RunRaises /\ ~Usable(db, session.doc)
  \/ RequestCommits /\ \/ session.read # ReadByRequest(db)
                       \/ session.handler = "employee_confirm" /\ ~CanConfirm(db, session.doc)

(* What the others leave a slow transaction: its job and what kind of       *)
(* document it is about.                                                    *)
Held ==
  /\ session.handler = "run" => session.doc \in db.jobs
  /\ session.handler = "set_primary" => db.doc[session.doc].kind \in PrimaryKinds
  /\ session.handler = "employee_confirm" => session.read.status # "employee_confirmed"

Kinds(s, t) == \A e \in Present(s) : t.doc[e].kind = s.doc[e].kind

LEMMA ArchiveKeepsKinds ==
  ASSUME NEW s \in Database
  PROVE  /\ Kinds(s, RepairArchived(s)) /\ RepairArchived(s).jobs = s.jobs
         /\ Kinds(s, RepairRestored(s)) /\ RepairRestored(s).jobs = s.jobs
<1>1. \A e \in Documents : s.doc[e] \in Document
  BY RowsType
<1>2. Kinds(s, RepairArchived(s))
  <2>1. RepairArchived(s).doc = [d \in Documents |-> IF d \in Present(s)
                                   THEN [s.doc[d] EXCEPT !.status = "archived", !.primary = FALSE]
                                   ELSE s.doc[d]]
    BY DEF RepairArchived, Database
  <2>2. ASSUME NEW e \in Present(s) PROVE RepairArchived(s).doc[e].kind = s.doc[e].kind
    <3>1. e \in Documents
      BY DEF Present
    <3>2. RepairArchived(s).doc[e] = [s.doc[e] EXCEPT !.status = "archived", !.primary = FALSE]
      BY <2>1, <3>1
    <3>3. QED
      BY <1>1, <3>1, <3>2 DEF Document
  <2>3. QED
    BY <2>2 DEF Kinds
<1>3. Kinds(s, RepairRestored(s))
  <2> DEFINE rows == [d \in Documents |-> IF s.doc[d].status = "archived"
                                            THEN [s.doc[d] EXCEPT !.status = "needs_review"]
                                            ELSE s.doc[d]]
             t == [s EXCEPT !.status = "in_review", !.preliminary = TRUE, !.doc = rows]
  <2>1. ASSUME NEW e \in Documents PROVE rows[e] \in Document /\ rows[e].kind = s.doc[e].kind
    BY <1>1 DEF Document, DocumentStatuses
  <2>2. rows \in [Documents -> Document]
    BY <2>1
  <2> HIDE DEF rows
  <2>3. t \in Database /\ t.doc = rows
    BY <2>2 DEF Database, RepairStatuses
  <2>4. RepairRestored(s) = Normalized(t)
    BY DEF RepairRestored, rows
  <2> HIDE DEF t
  <2>5. \A e \in Documents : Normalized(t).doc[e].kind = t.doc[e].kind
    BY <2>3, NormalizedEffect
  <2>6. QED
    BY <2>1, <2>3, <2>4, <2>5 DEF Kinds, Present
<1>4. QED
  BY <1>2, <1>3, RepairArchivedEffect, RepairRestoredEffect

(* At most one document is asked for at a time. *)
Asked == db'.jobs = db.jobs \/ \E d \in Documents : db'.jobs = db.jobs \cup {d}

LEMMA OthersKeep ==
  ASSUME TypeOK, Others
  PROVE  Kinds(db, db') /\ (Asked \/ \E d \in db.jobs \ Running : db'.jobs = db.jobs \ {d})
<1> DEFINE Kept == Kinds(db, db') /\ Asked
<1>a. db \in Database
  BY DEF TypeOK
<1>b. ASSUME KeepsDocuments(db, db') PROVE Kept
  BY <1>b DEF KeepsDocuments, Kinds, Asked
<1>1. ASSUME NEW kind \in UploadKinds, UploadToRepair(kind) PROVE Kept
  <2>1. PICK d \in Documents \ Present(db) : db' = Uploaded(db, d, kind)
    BY <1>1 DEF UploadToRepair
  <2>2. QED
    BY <1>a, <2>1, UploadedEffect DEF Kinds, Present, Asked
<1>2. ASSUME NEW status \in EditStatuses, NEW preliminary \in BOOLEAN, NEW header \in BOOLEAN,
             NEW service \in {"as_is", "set", "cleared"},
             UpdateRepair(status, preliminary, header, service)
      PROVE  Kept
  BY <1>a, <1>b, <1>2 DEF UpdateRepair, WithService, Database, KeepsDocuments
<1>3. ASSUME NEW on \in BOOLEAN, UpdateFields(on) \/ UpdateService(on) PROVE Kept
  BY <1>a, <1>b, <1>3 DEF UpdateFields, UpdateService, Refreshed, WithService, Database, KeepsDocuments
<1>4. ASSUME NEW c \in Findings, NEW resolved \in BOOLEAN, UpdateCheck(c, resolved) PROVE Kept
  BY <1>a, <1>b, <1>4 DEF UpdateCheck, Refreshed, Database, KeepsDocuments
<1>5. ASSUME ArchiveRepair \/ RestoreRepair PROVE Kept
  BY <1>a, <1>5, ArchiveKeepsKinds DEF ArchiveRepair, RestoreRepair, Asked
<1>6. ASSUME ArchiveParent \/ RestoreParent PROVE Kept
  BY <1>a, <1>b, <1>6 DEF ArchiveParent, RestoreParent, Database, KeepsDocuments
<1>7. ASSUME NEW d \in Documents, Process(d) \/ LinkVehicle(d) PROVE Kept
  <2> DEFINE linked == [db EXCEPT !.linked = TRUE,
                                  !.checks = [c \in Findings |->
                                    IF c = "vehicle" /\ db.checks[c] # "none" THEN "resolved"
                                    ELSE db.checks[c]]]
  <2>1. linked \in Database /\ KeepsDocuments(db, linked)
    BY <1>a, VehicleLinkedType DEF KeepsDocuments, Database
  <2>2. db' = Rechecked(db, d) \/ db' = Rechecked(linked, d)
    BY <1>7 DEF Process, LinkVehicle
  <2> HIDE DEF linked
  <2>3. PICK u \in Database : db' = Rechecked(u, d) /\ KeepsDocuments(db, u)
    BY <1>a, <2>1, <2>2 DEF KeepsDocuments
  <2>4. /\ \A e \in Documents : db'.doc[e].kind = db.doc[e].kind
        /\ db'.jobs = db.jobs \cup {d}
    BY <2>3, RecheckedEffect DEF KeepsDocuments
  <2>5. QED
    BY <2>4 DEF Kinds, Present, Asked
<1>8. ASSUME NEW d \in Documents, ArchiveDocument(d) \/ RestoreDocument(d) PROVE Kept
  <2>1. (\A e \in Documents : db'.doc[e].kind = db.doc[e].kind) /\ db'.jobs = db.jobs
    BY <1>a, <1>8, DocumentArchivedEffect, DocumentRestoredEffect DEF ArchiveDocument, RestoreDocument
  <2>2. QED
    BY <2>1 DEF Kinds, Present, Asked
<1>9. ASSUME NEW d \in Documents, SetPrimary(d) \/ ReviewComparison(d, TRUE) \/ ReviewComparison(d, FALSE)
      PROVE  Kept
  <2>1. PICK t \in Documents \cup {NoDocument} :
          db' \in {WithPrimary(db, t), Reopened(WithPrimary(db, t))}
    <3>1. Candidate(db) \in Documents \cup {NoDocument}
      BY <1>a, CandidateIsEligible DEF Eligible, Live, Present
    <3>2. QED
      BY <1>9, <3>1 DEF SetPrimary, PrimarySet, ReviewComparison
  <2> DEFINE p == WithPrimary(db, t)
  <2>2. /\ p \in Database /\ p.jobs = db.jobs
        /\ \A e \in Documents : p.doc[e].kind = db.doc[e].kind
    BY <1>a, <2>1, WithPrimaryType, WithPrimaryEffect
  <2> HIDE DEF p
  <2>3. db'.jobs = p.jobs /\ db'.doc = p.doc
    BY <2>1, <2>2, ReopenedEffect DEF p
  <2>4. QED
    BY <2>2, <2>3 DEF Kinds, Present, Asked
<1>10. ASSUME NEW d \in Documents, NEW status \in PatchStatuses, UpdateDocument(d, status) PROVE Kept
  <2>1. db' = [db EXCEPT !.doc[d].status = status] /\ status \in DocumentStatuses
    BY <1>10, EditAssumption DEF UpdateDocument
  <2>2. (\A e \in Documents : db'.doc[e].kind = db.doc[e].kind) /\ db'.jobs = db.jobs
    BY <1>a, <2>1, StatusSetEffect
  <2>3. QED
    BY <2>2 DEF Kinds, Present, Asked
<1>11. ASSUME NEW d \in Documents, ConfirmByEmployee(d) \/ ConfirmByAdmin(d) \/ SendToReview(d) PROVE Kept
  <2>1. PICK st \in {"confirmed", "needs_review"}, rs \in RepairStatuses, b \in BOOLEAN :
          db' = [db EXCEPT !.doc[d].status = st, !.status = rs, !.preliminary = b]
    BY <1>11 DEF ConfirmByEmployee, ConfirmByAdmin, SendToReview, EmployeeConfirmed, Confirmed,
                 SentToReview, RepairStatuses
  <2>2. (\A e \in Documents : db'.doc[e].kind = db.doc[e].kind) /\ db'.jobs = db.jobs
    BY <1>a, <2>1, ReviewedEffect
  <2>3. QED
    BY <2>2 DEF Kinds, Present, Asked
<1>12. ASSUME NEW d \in Documents, WorkerRun(d)
       PROVE  Kinds(db, db') /\ d \in db.jobs /\ db'.jobs = db.jobs \ {d}
  <2>1. CASE RunRejected(d)
    BY <1>a, <2>1 DEF RunRejected, Database, Kinds
  <2>2. CASE RunFailed(d) \/ RunStored(d) \/ RunFinished(d)
    <3>1. (\A e \in Documents : db'.doc[e].kind = db.doc[e].kind) /\ db'.jobs = db.jobs \ {d}
      BY <1>a, <2>2, RunEffect DEF RunFailed, RunStored, RunFinished
    <3>2. d \in db.jobs
      BY <2>2 DEF RunFailed, RunStored, RunFinished
    <3>3. QED
      BY <3>1, <3>2 DEF Kinds, Present
  <2>3. QED
    BY <1>12, <2>1, <2>2 DEF WorkerRun
<1> HIDE DEF Kept
<1>13. ASSUME RepairRequest PROVE Kept
  <2>1. CASE \E kind \in UploadKinds : UploadToRepair(kind)
    BY <1>1, <2>1
  <2>2. CASE \E status \in EditStatuses, preliminary, header \in BOOLEAN,
               service \in {"as_is", "set", "cleared"} :
               UpdateRepair(status, preliminary, header, service)
    BY <1>2, <2>2
  <2>3. CASE \/ \E header \in BOOLEAN : UpdateFields(header)
             \/ \E on \in BOOLEAN : UpdateService(on)
    BY <1>3, <2>3
  <2>4. CASE \E c \in Findings, resolved \in BOOLEAN : UpdateCheck(c, resolved)
    BY <1>4, <2>4
  <2>5. QED
    BY <1>5, <1>6, <1>13, <2>1, <2>2, <2>3, <2>4 DEF RepairRequest
<1>14. \A d \in Documents : DocumentRequest(d) => Kept
  BY <1>7, <1>8, <1>9, <1>10, <1>11 DEF DocumentRequest
<1>15. \/ Kept
       \/ \E d \in Documents : d \notin Running /\ WorkerRun(d)
  BY <1>13, <1>14 DEF Others
<1>16. QED
  BY <1>12, <1>15 DEF Kept

-----------------------------------------------------------------------------
(* A slow transaction that ends in time is a step of an atomic handler. *)

(* RunFinished but for the history variable: a run that leaves the status   *)
(* of the repair does not write it.                                         *)
FinishedRows(d) ==
  /\ d \in db.jobs
  /\ Usable(db, d)
  /\ db.doc[d].kind \in PrimaryKinds
  /\ \E o \in Outcomes : db' = OcrFinished(db, d, o)
  /\ patched' = patched \ {d}

AtomicStep(d) ==
  SetPrimary(d) \/ ConfirmByEmployee(d) \/ RunFailed(d) \/ RunStored(d) \/ FinishedRows(d)

TimelyInv ==
  SessionInv /\ PrimaryAligned /\ ReviewSound /\ WaitingHasJob /\ DraftIsUnread /\ Held

LEMMA StillUsable ==
  ASSUME TypeOK, ReviewSound, InSession, session.read.status = db.status,
         session.read.doc[session.doc].status = db.doc[session.doc].status
  PROVE  Usable(db, session.doc)
BY DEF TypeOK, Database, ReviewSound, ArchiveIsClosed, InSession, Usable, Operational, Live, Present

LEMMA DecidedStatus ==
  ASSUME NEW s \in Database, NEW d \in Documents
  PROVE  /\ StoredOnly(s, d).doc[d].status = "confirmed"
         /\ EmployeeConfirmed(s, d).doc[d].status = "confirmed"
         /\ \A o \in Outcomes : OcrFinished(s, d, o).doc[d].status = StatusOf(o)
<1>1. ASSUME NEW t, OnlyRead(s, d, "confirmed", t) \/ GivenBy(s, d, t)
      PROVE  t.doc[d].status = "confirmed"
  BY <1>1 DEF OnlyRead, GivenBy
<1>2. ASSUME NEW o \in Outcomes, NEW t, OnlyRead(s, d, StatusOf(o), t) PROVE t.doc[d].status = StatusOf(o)
  BY <1>2 DEF OnlyRead
<1>3. OnlyRead(s, d, "confirmed", StoredOnly(s, d)) /\ GivenBy(s, d, EmployeeConfirmed(s, d))
  BY StoredColumns, ConfirmationColumns
<1>4. \A o \in Outcomes : OnlyRead(s, d, StatusOf(o), OcrFinished(s, d, o))
  BY FinishedColumns
<1>5. QED
  BY <1>1, <1>2, <1>3, <1>4

LEMMA TimelyRunEnds ==
  ASSUME TimelyInv, RunCommits, ~LateEnd
  PROVE  RunStored(session.doc) \/ FinishedRows(session.doc)
<1> DEFINE d == session.doc
           r == session.read
<1>1. InSession /\ TypeOK /\ ReviewSound /\ d \in db.jobs
  BY DEF TimelyInv, SessionInv, SessionTyped, Held, Idle, RunCommits
<1>2. db \in Database /\ d \in Documents /\ r \in Database /\ r = ReadByRun(db, d)
  BY <1>1 DEF TypeOK, InSession, LateEnd
<1>3. PICK w \in IF r.doc[d].kind \in PrimaryKinds THEN {OcrFinished(r, d, o) : o \in Outcomes}
                                                   ELSE {StoredOnly(r, d)} :
        /\ db' = RunWrites(r, w, d) /\ direct' = (direct /\ w.status = r.status)
        /\ patched' = Patched(d, w)
  BY DEF RunCommits
<1>4. db'.doc[d].status = w.doc[d].status => patched' = patched \ {d}
  BY <1>3 DEF Patched
<1> HIDE DEF d, r
<1>5. /\ r.doc[d].kind = db.doc[d].kind /\ r.status = db.status
      /\ db.doc[d].kind \in PrimaryKinds =>
           \A o \in Outcomes : RunWrites(r, OcrFinished(r, d, o), d) = OcrFinished(db, d, o)
      /\ db.doc[d].kind \notin PrimaryKinds => RunWrites(r, StoredOnly(r, d), d) = StoredOnly(db, d)
  BY <1>2, TimelyRunWrites
<1>6. r.doc[d].status = db.doc[d].status
  BY <1>2 DEF ReadByRun, Database
<1>7. Usable(db, d)
  BY <1>1, <1>5, <1>6, StillUsable DEF d, r
<1>8. CASE db.doc[d].kind \in PrimaryKinds
  <2>1. PICK o \in Outcomes : w = OcrFinished(r, d, o)
    BY <1>3, <1>5, <1>8
  <2>2. db' = OcrFinished(db, d, o)
    BY <1>3, <1>5, <1>8, <2>1
  <2>3. db'.doc[d].status = w.doc[d].status
    BY <1>2, <2>1, <2>2, DecidedStatus
  <2>5. FinishedRows(d)
    BY <1>1, <1>4, <1>7, <1>8, <2>2, <2>3 DEF FinishedRows, d
  <2>6. QED
    BY <2>5 DEF d
<1>9. CASE db.doc[d].kind \notin PrimaryKinds
  <2>1. w = StoredOnly(r, d)
    BY <1>3, <1>5, <1>9
  <2>2. db' = StoredOnly(db, d)
    BY <1>3, <1>5, <1>9, <2>1
  <2>3. w.status = r.status
    BY <1>2, <2>1, StoredColumns
  <2>4. direct' = direct
    BY <1>1, <1>3, <2>3 DEF TypeOK
  <2>5. db'.doc[d].status = w.doc[d].status
    BY <1>2, <2>1, <2>2, DecidedStatus
  <2>6. RunStored(d)
    BY <1>1, <1>4, <1>7, <1>9, <2>2, <2>4, <2>5 DEF RunStored, d
  <2>7. QED
    BY <2>6 DEF d
<1>10. QED
  BY <1>8, <1>9

LEMMA TimelyEnds ==
  ASSUME TimelyInv, ~LateEnd, RunCommits \/ RunRaises \/ RequestCommits
  PROVE  session.doc \in Documents /\ AtomicStep(session.doc)
<1> DEFINE d == session.doc
           r == session.read
<1>1. InSession /\ TypeOK /\ ReviewSound
  BY DEF TimelyInv, SessionInv, SessionTyped, Idle, RunCommits, RunRaises, RequestCommits
<1>2. db \in Database /\ d \in Documents /\ r \in Database
  BY <1>1 DEF TypeOK, InSession
<1>3. CASE RunCommits
  BY <1>2, <1>3, TimelyRunEnds DEF AtomicStep
<1>4. CASE RunRaises
  <2>1. d \in db.jobs /\ Usable(db, d)
    BY <1>4 DEF RunRaises, LateEnd, TimelyInv, Held
  <2>2. RunFailed(d)
    BY <1>4, <2>1 DEF RunRaises, RunFailed
  <2>3. QED
    BY <1>2, <2>2 DEF AtomicStep
<1>5. CASE RequestCommits
  <2>1. r = ReadByRequest(db)
    BY <1>5 DEF LateEnd
  <2>2. r.status = db.status /\ r.doc[d].status = db.doc[d].status
    <3>1. r.status = db.status /\ r.doc = [e \in Documents |-> [db.doc[e] EXCEPT !.queued = FALSE]]
      BY <1>2, <2>1 DEF ReadByRequest, Database
    <3>2. db.doc[d] \in Document
      BY <1>2, RowsType
    <3>3. QED
      BY <1>2, <3>1, <3>2 DEF Document
  <2>3. Usable(db, d)
    BY <1>1, <2>2, StillUsable
  <2>4. CASE session.handler = "set_primary"
    <3>1. db' = Merged(r, PrimarySet(r, d), db) /\ direct' = (direct /\ TRUE) /\ patched' = patched
      BY <1>5, <2>4 DEF RequestCommits
    <3>2. db' = PrimarySet(db, d)
      BY <1>2, <2>1, <3>1, TimelyRequest
    <3>3. direct' = direct
      BY <1>1, <3>1 DEF TypeOK
    <3>4. db.doc[d].kind \in PrimaryKinds
      BY <2>4 DEF TimelyInv, Held
    <3>5. SetPrimary(d)
      BY <2>3, <3>1, <3>2, <3>3, <3>4 DEF SetPrimary, CanMakePrimary
    <3>6. QED
      BY <1>2, <3>5 DEF AtomicStep
  <2>5. CASE session.handler = "employee_confirm"
    <3>1. /\ db' = Merged(r, EmployeeConfirmed(r, d), db) /\ direct' = FALSE
          /\ patched' = Patched(d, EmployeeConfirmed(r, d))
      BY <1>5, <2>5 DEF RequestCommits
    <3>2. db' = EmployeeConfirmed(db, d)
      BY <1>2, <2>1, <3>1, TimelyRequest
    <3>a. db'.doc[d].status = EmployeeConfirmed(r, d).doc[d].status
      BY <1>2, <3>2, DecidedStatus
    <3>b. patched' = patched \ {d}
      BY <3>1, <3>a DEF Patched
    <3>3. CanConfirm(db, d) /\ db.status # "employee_confirmed"
      BY <1>5, <2>2, <2>5 DEF LateEnd, TimelyInv, Held
    <3>4. ConfirmByEmployee(d)
      BY <3>1, <3>2, <3>3, <3>b DEF ConfirmByEmployee
    <3>5. QED
      BY <1>2, <3>4 DEF AtomicStep
  <2>6. QED
    BY <1>5, <2>4, <2>5 DEF RequestCommits
<1>6. QED
  BY <1>3, <1>4, <1>5

(* What an atomic handler promises does not depend on the history variable  *)
(* that a finished run leaves.                                              *)
LEMMA FinishedKeeps ==
  ASSUME TypeOK, PrimaryAligned, ReviewSound, WaitingHasJob, DraftIsUnread,
         NEW d \in Documents, FinishedRows(d), direct' \in BOOLEAN
  PROVE  TypeOK' /\ PrimaryAligned' /\ ReviewSound' /\ Promises
<1>1. PICK o \in Outcomes : db' = OcrFinished(db, d, o)
  BY DEF FinishedRows
<1>2. db \in Database /\ Operational(db) /\ d \in Live(db) /\ patched' = patched \ {d}
  BY DEF TypeOK, FinishedRows, Usable
<1>3. TypeOK'
  BY <1>1, <1>2, RunTypes DEF TypeOK
<1>4. PrimaryAligned'
  <2>1. ASSUME NEW t, Aligned(t), db' = t PROVE Aligned(db)'
    BY <2>1 DEF Aligned, Eligible, Live, Present
  <2>2. Aligned(OcrFinished(db, d, o))
    BY <1>2, RunAligned DEF PrimaryAligned
  <2>3. QED
    BY <1>1, <2>1, <2>2 DEF PrimaryAligned
<1>5. /\ \A e \in Documents : db'.doc[e].kind = db.doc[e].kind
      /\ \A e \in Documents \ {d} : db'.doc[e].status = db.doc[e].status
      /\ db'.doc[d].status \in DocumentStatuses \ {"uploaded", "archived"}
      /\ db'.jobs = db.jobs \ {d} /\ db'.source = db.source
      /\ db'.status \in {"in_review", "suspicious", "ocr_error"}
  BY <1>1, <1>2, RunEffect
<1>6. db'.preliminary = TRUE /\ db'.parentArchived = db.parentArchived
  <2> DEFINE t == OcrFinished(db, d, o)
  <2>1. t.preliminary = TRUE /\ OnlyRead(db, d, StatusOf(o), t)
    BY <1>2, FinishedColumns
  <2> HIDE DEF t
  <2>2. t.preliminary = TRUE /\ t.parentArchived = db.parentArchived
    BY <2>1 DEF OnlyRead
  <2>3. QED
    BY <1>1, <2>2 DEF t
<1>7. ReviewSound'
  BY <1>2, <1>5, <1>6, ReviewedStep
<1>8. Promises
  <2>1. db'.doc[d].status # "absent" /\ db.doc[d].status # "archived" /\ db.status # "archived"
    BY <1>2, <1>5 DEF DocumentStatuses, Live, Operational
  <2>2. QED
    BY <1>2, <1>5, <2>1, OneRowStep
<1>9. QED
  BY <1>3, <1>4, <1>7, <1>8

LEMMA AtomicKeeps ==
  ASSUME TypeOK, PrimaryAligned, ReviewSound, WaitingHasJob, DraftIsUnread,
         direct' \in BOOLEAN, Next \/ \E d \in Documents : AtomicStep(d)
  PROVE  TypeOK' /\ PrimaryAligned' /\ ReviewSound' /\ Promises
<1>1. Next \/ \E d \in Documents : FinishedRows(d)
  BY DEF AtomicStep, Next, DocumentRequest, WorkerRun
<1>2. CASE Next
  BY <1>2, TypeStep, AlignedStep, ReviewStep, PromisesStep
<1>3. QED
  BY <1>1, <1>2, FinishedKeeps

LEMMA LoadsHold ==
  ASSUME TypeOK, NEW d \in Documents, RunLoads(d) \/ RequestLoads(d)
  PROVE  Held'
<1>1. CASE RunLoads(d)
  BY <1>1 DEF RunLoads, Held
<1>2. CASE RequestLoads(d)
  <2>1. PICK handler \in SlowHandlers \ {"run"} :
          /\ \/ handler = "set_primary" /\ CanMakePrimary(db, d)
             \/ handler = "employee_confirm" /\ CanConfirm(db, d) /\ db.status # "employee_confirmed"
          /\ session' = [handler |-> handler, doc |-> d, read |-> ReadByRequest(db)]
    BY <1>2 DEF RequestLoads
  <2>2. ReadByRequest(db).status = db.status /\ db' = db
    BY <1>2 DEF TypeOK, ReadByRequest, Database, RequestLoads
  <2>3. QED
    BY <2>1, <2>2 DEF CanMakePrimary, Held
<1>3. QED
  BY <1>1, <1>2

LEMMA TimelyStep ==
  ASSUME TimelyInv, [SessionNext /\ ~LateEnd]_sessionVars
  PROVE  /\ TimelyInv'
         /\ LeavesArchive /\ Reopens
         /\ UNCHANGED db \/ Others \/ \E d \in Documents : AtomicStep(d)
<1>a. SessionInv'
  BY SessionStep DEF TimelyInv
<1>b. TypeOK /\ direct' \in BOOLEAN
  BY <1>a DEF TimelyInv, SessionInv, TypeOK
<1> DEFINE Rows == PrimaryAligned' /\ ReviewSound' /\ Promises
           Goal == Held' /\ Rows /\ (UNCHANGED db \/ Others \/ \E d \in Documents : AtomicStep(d))
<1>1. ASSUME UNCHANGED vars PROVE Rows /\ UNCHANGED db
  BY <1>b, <1>1, AlignedStep, ReviewStep, PromisesStep DEF TimelyInv, vars
<1>2. ASSUME Next \/ \E d \in Documents : AtomicStep(d) PROVE Rows
  BY <1>b, <1>2, AtomicKeeps DEF TimelyInv
<1> HIDE DEF Rows
<1>3. ASSUME UNCHANGED sessionVars PROVE Goal
  BY <1>1, <1>3 DEF sessionVars, vars, TimelyInv, Held
<1>4. ASSUME NEW d \in Documents, RunLoads(d) \/ RequestLoads(d) PROVE Goal
  <2>1. UNCHANGED vars
    BY <1>4 DEF RunLoads, RequestLoads, vars
  <2>2. QED
    BY <1>b, <1>1, <1>4, <2>1, LoadsHold
<1>5. ASSUME Others PROVE Goal
  <2>1. Next
    BY <1>5 DEF Others, Next
  <2>2. Kinds(db, db') /\ \A d \in Running : d \in db.jobs => d \in db'.jobs
    BY <1>b, <1>5, OthersKeep DEF Asked
  <2>3. session' = session
    BY <1>5 DEF Others
  <2>4. session = Idle \/ session.doc \in Present(db)
    BY DEF TimelyInv, SessionInv, SessionTyped, InSession
  <2>5. Held'
    BY <2>2, <2>3, <2>4 DEF TimelyInv, Held, Kinds, Running, Idle
  <2>6. QED
    BY <1>2, <1>5, <2>1, <2>5
<1>6. ASSUME ~LateEnd, RunCommits \/ RunRaises \/ RequestCommits PROVE Goal
  <2>1. session.doc \in Documents /\ AtomicStep(session.doc)
    BY <1>6, TimelyEnds
  <2>2. session' = Idle
    BY <1>6 DEF RunCommits, RunRaises, RequestCommits
  <2>3. Held'
    BY <2>2 DEF Held, Idle
  <2>4. QED
    BY <1>2, <2>1, <2>3
<1> HIDE DEF Goal
<1>7. Goal
  BY <1>3, <1>4, <1>5, <1>6 DEF SessionNext
<1>8. QED
  BY <1>a, <1>7 DEF Goal, Rows, TimelyInv, Promises

LEMMA TimelyInitial ==
  ASSUME SessionInit
  PROVE  TimelyInv
<1>1. Init /\ session = Idle
  BY DEF SessionInit
<1>2. Held
  BY <1>1 DEF Held, Idle
<1>3. QED
  BY <1>1, <1>2, SessionInitial, InitAligned, InitReview, InitPromises DEF TimelyInv

(* The slow transactions end on the rows that they decided on.              *)
TimelySpec == SessionInit /\ [][SessionNext /\ ~LateEnd]_sessionVars

LEMMA TimelyInvariant == TimelySpec => []TimelyInv
BY TimelyInitial, TimelyStep, PTL DEF TimelySpec

(* Whichever of the handlers are slow and whatever commits in between:      *)
(* while each ends on the rows that it decided on, every change of the rows *)
(* is a step of a handler that runs at once.  A stale write is the only     *)
(* thing that the missing locks let happen.                                 *)
THEOREM TimelyTransactionsAreSerial ==
  TimelySpec => [][Others \/ \E d \in Documents : AtomicStep(d)]_db
<1>1. TimelyInv /\ [SessionNext /\ ~LateEnd]_sessionVars => [Others \/ \E d \in Documents : AtomicStep(d)]_db
  BY TimelyStep
<1>2. QED
  BY <1>1, TimelyInvariant, PTL DEF TimelySpec

(* So all that holds of the review with atomic handlers holds of it then.   *)
THEOREM TimelyTransactionsKeepTheReview ==
  TimelySpec => [](/\ PrimaryAligned /\ ArchiveIsClosed /\ ConfirmedIsComplete
                   /\ PreliminaryUntilConfirmed /\ WaitingHasJob /\ NoDeadEnd)
<1>1. TimelyInv => /\ PrimaryAligned /\ ArchiveIsClosed /\ ConfirmedIsComplete
                   /\ PreliminaryUntilConfirmed /\ WaitingHasJob /\ NoDeadEnd
  BY QueuedBecauseRead DEF TimelyInv, SessionInv, ReviewSound
<1>2. QED
  BY <1>1, TimelyInvariant, PTL

(* And a confirmation stands for the documents it was given for, and only a *)
(* restore leaves the archive.                                              *)
THEOREM TimelyTransactionsKeepTheirPromises ==
  TimelySpec => DocumentsReopen /\ [][LeavesArchive]_vars
<1>1. TimelyInv /\ [SessionNext /\ ~LateEnd]_sessionVars
        => /\ [db.status \in {"employee_confirmed", "confirmed"} /\ Composition(db') # Composition(db)
                => db'.status \in {"in_review", "archived"}]_vars
           /\ [LeavesArchive]_vars
  BY TimelyStep DEF Reopens
<1>2. QED
  BY <1>1, TimelyInvariant, PTL DEF TimelySpec, DocumentsReopen

-----------------------------------------------------------------------------
(* The jobs of the review are the queue that OcrJobs makes of rows: every   *)
(* step asks for one document, starts, refuses or ends one, or does nothing *)
(* to the queue.  A run that is not the slow one is refused or done in one  *)
(* step, which is the same to the queue.                                    *)

QueuePhase(d) == IF d \in Running THEN "running" ELSE IF d \in db.jobs THEN "waiting" ELSE "idle"
Queue == INSTANCE DocumentQueue WITH phase <- [d \in Documents |-> QueuePhase(d)]

(* A step that changes the phase of one document changes no other.          *)
LEMMA OnePhase ==
  ASSUME NEW d \in Documents, \A e \in Documents \ {d} : QueuePhase(e)' = QueuePhase(e)
  PROVE  [e \in Documents |-> QueuePhase(e)]'
           = [[e \in Documents |-> QueuePhase(e)] EXCEPT ![d] = QueuePhase(d)']
OBVIOUS

LEMMA AskedStep ==
  ASSUME Asked, UNCHANGED session
  PROVE  [Queue!Next]_([e \in Documents |-> QueuePhase(e)])
<1>1. Running' = Running
  BY DEF Running
<1>2. CASE db'.jobs = db.jobs
  BY <1>1, <1>2 DEF QueuePhase
<1>3. ASSUME NEW d \in Documents, db'.jobs = db.jobs \cup {d}, db'.jobs # db.jobs
      PROVE  [Queue!Next]_([e \in Documents |-> QueuePhase(e)])
  <2>1. \A e \in Documents \ {d} : QueuePhase(e)' = QueuePhase(e)
    BY <1>1, <1>3 DEF QueuePhase
  <2>2. CASE d \in Running
    <3>1. QueuePhase(d)' = QueuePhase(d)
      BY <1>1, <2>2 DEF QueuePhase
    <3>2. QED
      BY <2>1, <3>1
  <2>3. CASE d \notin Running
    <3>1. QueuePhase(d) = "idle" /\ QueuePhase(d)' = "waiting"
      BY <1>1, <1>3, <2>3 DEF QueuePhase
    <3>2. Queue!Ask(d)
      BY <2>1, <3>1, OnePhase DEF Queue!Ask
    <3>3. QED
      BY <3>2 DEF Queue!Next
  <2>4. QED
    BY <2>2, <2>3
<1>4. QED
  BY <1>2, <1>3 DEF Asked

LEMMA QueueStep ==
  ASSUME SessionInv, [SessionNext]_sessionVars
  PROVE  [Queue!Next]_([e \in Documents |-> QueuePhase(e)])
<1> DEFINE phases == [e \in Documents |-> QueuePhase(e)]
<1>1. CASE UNCHANGED sessionVars
  BY <1>1 DEF sessionVars, QueuePhase, Running
<1>2. CASE Others
  <2>1. Running' = Running /\ session' = session
    BY <1>2 DEF Others, Running
  <2>2. CASE Asked
    BY <2>1, <2>2, AskedStep
  <2>3. ASSUME NEW d \in db.jobs \ Running, db'.jobs = db.jobs \ {d}
        PROVE  [Queue!Next]_phases
    <3>1. d \in Documents
      BY DEF SessionInv, TypeOK, Database
    <3>2. /\ QueuePhase(d) = "waiting" /\ QueuePhase(d)' = "idle"
          /\ \A e \in Documents \ {d} : QueuePhase(e)' = QueuePhase(e)
      BY <2>1, <2>3 DEF QueuePhase
    <3>3. Queue!Refuse(d)
      BY <3>1, <3>2, OnePhase DEF Queue!Refuse
    <3>4. QED
      BY <3>1, <3>3 DEF Queue!Next
  <2>4. QED
    BY <1>2, <2>2, <2>3, OthersKeep DEF SessionInv
<1>3. ASSUME NEW d \in Documents, RunLoads(d) \/ RequestLoads(d) PROVE [Queue!Next]_phases
  <2>1. CASE RunLoads(d)
    <3>1. Running = {} /\ Running' = {d} /\ db' = db /\ d \in db.jobs
      BY <2>1 DEF RunLoads, Running, Idle
    <3>2. /\ QueuePhase(d) = "waiting" /\ QueuePhase(d)' = "running"
          /\ \A e \in Documents \ {d} : QueuePhase(e)' = QueuePhase(e)
      BY <3>1 DEF QueuePhase
    <3>3. Queue!Start(d)
      BY <3>2, OnePhase DEF Queue!Start
    <3>4. QED
      BY <3>3 DEF Queue!Next
  <2>2. CASE RequestLoads(d)
    <3>1. Running = {} /\ Running' = {} /\ db' = db
      BY <2>2 DEF RequestLoads, Running, Idle
    <3>2. QED
      BY <3>1 DEF QueuePhase
  <2>3. QED
    BY <1>3, <2>1, <2>2
<1>4. CASE RunCommits \/ RunRaises
  <2>0. session.doc \in Documents /\ db \in Database /\ db' \in Database
    BY <1>4, RunCommitsWrites, RunRaisesWrites
       DEF SessionInv, SessionTyped, InSession, Idle, TypeOK, RunCommits, RunRaises
  <2>1. PICK d \in Documents : d = session.doc
    BY <2>0
  <2>2. Running = {d} /\ Running' = {}
    BY <1>4, <2>1 DEF RunCommits, RunRaises, Running, Idle
  <2>3. db'.jobs = db.jobs \ {d}
    <3>1. CASE RunCommits
      <4>1. PICK w : db' = RunWrites(session.read, w, d)
        BY <2>1, <3>1 DEF RunCommits
      <4>2. Merged(session.read, w, db).jobs = db.jobs
        BY DEF Merged
      <4>3. QED
        BY <2>0, <4>1, <4>2 DEF RunWrites, Merged
    <3>2. CASE RunRaises
      BY <2>0, <2>1, <3>2, RunEffect DEF RunRaises
    <3>3. QED
      BY <1>4, <3>1, <3>2
  <2>4. /\ QueuePhase(d) = "running" /\ QueuePhase(d)' = "idle"
        /\ \A e \in Documents \ {d} : QueuePhase(e)' = QueuePhase(e)
    BY <2>2, <2>3 DEF QueuePhase
  <2>5. Queue!Finish(d)
    BY <2>4, OnePhase DEF Queue!Finish
  <2>6. QED
    BY <2>5 DEF Queue!Next
<1>5. CASE RequestCommits
  <2>1. db'.jobs = db.jobs
    BY <1>5 DEF RequestCommits, Merged
  <2>2. Running = {} /\ Running' = {}
    BY <1>5 DEF RequestCommits, Running, Idle
  <2>3. QED
    BY <2>1, <2>2 DEF QueuePhase
<1>6. QED
  BY <1>1, <1>2, <1>3, <1>4, <1>5 DEF SessionNext

(* The jobs that the review knows of follow the rules of the queue that the *)
(* rows of OcrJobs implement, whichever handlers are slow: a document is    *)
(* asked for, processed by one runner and done with until it is asked for   *)
(* again.  Only the start differs: a new draft's document is asked for.     *)
THEOREM ReviewFollowsTheQueue ==
  SessionSpec => [][Queue!Next]_([e \in Documents |-> QueuePhase(e)])
<1>1. SessionInv /\ [SessionNext]_sessionVars => [Queue!Next]_([e \in Documents |-> QueuePhase(e)])
  BY QueueStep
<1>2. SessionInv /\ [SessionNext]_sessionVars => SessionInv'
  BY SessionStep
<1>3. QED
  BY <1>1, <1>2, SessionInitial, PTL DEF SessionSpec
=============================================================================
