-------------------------------- MODULE Reads --------------------------------
(***************************************************************************)
(* What users are shown. Lists, search, review queue and dashboard each ask *)
(* the database their own way; a row they show leads to a page with a guard *)
(* of its own. Some questions are asked twice, in SQL and in Python, or for *)
(* administrators and for employees. A count is modelled as the set of rows *)
(* it counts; what a search matches, pages of a list and labels are left    *)
(* out. The database does not change under a request.                       *)
(***************************************************************************)
EXTENDS Integers, FiniteSets

CONSTANTS
  Users, Admins,
  Vehicles, Services, Repairs,
  Docs,      \* document ids, in the order of their creation
  Conflicts, \* import_conflicts that are pending
  Nothing

VehicleStatuses == {"active", "in_repair", "waiting_repair", "inactive", "decommissioned", "archived"}
ServiceStatuses == {"preliminary", "confirmed", "archived"}
RepairStatuses ==
  {"draft", "in_review", "employee_confirmed", "suspicious", "confirmed", "ocr_error", "archived"}
DocumentStatuses ==
  {"uploaded", "recognized", "partially_recognized", "needs_review", "confirmed", "ocr_error", "archived"}
KindsOfDocument == {"order", "repeat_scan", "attachment", "confirmation"}
PrimaryKinds == {"order", "repeat_scan"}

\* A repair's checks are the severities of its unresolved ones, its lines the
\* kinds of its preliminary ones. Assigned are the periods that cover today.
Database ==
  [vehicle  : [Vehicles -> [status : VehicleStatuses, placeholder : BOOLEAN]],
   assigned : SUBSET (Users \X Vehicles),
   service  : [Services -> [status : ServiceStatuses, listed : BOOLEAN]],
   repair   : [Repairs -> [status : RepairStatuses, vehicle : Vehicles, service : Services \cup {Nothing},
                           creator : Users \cup {Nothing}, preliminary : BOOLEAN, partial : BOOLEAN,
                           imported : BOOLEAN, source : Docs \cup {Nothing}, lines : SUBSET {"work", "part"},
                           checks : SUBSET {"normal", "warning", "suspicious", "error"}]],
   doc      : [Docs -> [repair : Repairs, kind : KindsOfDocument, status : DocumentStatuses,
                        primary : BOOLEAN, low : BOOLEAN]],
   conflict : [Conflicts -> Docs \cup {Nothing}]]

ASSUME ReadsAssumption ==
  /\ Admins \subseteq Users
  /\ Docs \subseteq Nat
  /\ \A S \in SUBSET Docs : S # {} => \E d \in S : \A e \in S : e <= d \* they are finitely many
  /\ Nothing \notin Docs /\ Nothing \notin Services

VARIABLES
  held, \* the database, whatever its contents
  page  \* what a user has before him: rows that lead to other pages

readVars == <<held, page>>

-----------------------------------------------------------------------------
\* Who may see what (visibility.py).

RealVehicle(v) == ~held.vehicle[v].placeholder

AllowedVehicles(u) ==
  {v \in Vehicles : <<u, v>> \in held.assigned /\ held.vehicle[v].status # "archived" /\ RealVehicle(v)}

VehicleScope(u) == IF u \in Admins THEN Vehicles ELSE AllowedVehicles(u)

OwnPreliminary(u, r) == held.repair[r].creator = u /\ held.repair[r].preliminary

VisibleRepairs(u) ==
  IF u \in Admins THEN Repairs
  ELSE {r \in Repairs : held.repair[r].vehicle \in AllowedVehicles(u) \/ OwnPreliminary(u, r)}

VisibleServices == {s \in Services : held.service[s].listed}

VehicleOf(r) == held.vehicle[held.repair[r].vehicle]

ServiceArchived(r) == held.repair[r].service # Nothing /\ held.service[held.repair[r].service].status = "archived"

DocsOf(r) == {d \in Docs : held.doc[d].repair = r}

-----------------------------------------------------------------------------
\* The document a repair was read from, in Python and in SQL (repair_relations.py).

Newest(docs) == CHOOSE d \in docs : \A e \in docs : e <= d

PrimaryEligible(d) == held.doc[d].kind \in PrimaryKinds /\ held.doc[d].status # "archived"

PrimaryCandidate(r) ==
  LET eligible == {d \in DocsOf(r) : PrimaryEligible(d)}
      flagged == {d \in eligible : held.doc[d].primary}
  IN IF eligible = {} THEN Nothing
     ELSE IF held.repair[r].source \in eligible THEN held.repair[r].source
     ELSE Newest(IF flagged # {} THEN flagged ELSE eligible)

SourceDocument(r, fallback) ==
  LET archived == {d \in DocsOf(r) : held.doc[d].kind \in PrimaryKinds /\ held.doc[d].status = "archived"}
  IN IF PrimaryCandidate(r) = Nothing /\ fallback /\ archived # {} THEN Newest(archived)
     ELSE PrimaryCandidate(r)

CanonicalSource(r) ==
  LET live == {d \in Docs : held.doc[d].repair = r /\ held.doc[d].kind \in PrimaryKinds /\ held.doc[d].status # "archived"}
      Before(d, e) == \/ held.doc[d].primary /\ ~held.doc[e].primary
                      \/ held.doc[d].primary = held.doc[e].primary /\ e <= d
  IN IF held.repair[r].source \in live THEN held.repair[r].source
     ELSE IF live = {} THEN Nothing ELSE CHOOSE d \in live : \A e \in live : Before(d, e)

-----------------------------------------------------------------------------
\* What a page answers to whoever asks for it: the guards of the single rows.

VehicleOpens(u, v) == v \in VehicleScope(u)

RepairOpens(u, r) ==
  /\ r \in VisibleRepairs(u)
  /\ u \in Admins \/ ~(\/ held.repair[r].status = "archived"
                       \/ VehicleOf(r).status = "archived"
                       \/ ServiceArchived(r))

DocumentOpens(u, d) ==
  LET r == held.doc[d].repair
  IN u \in Admins \/ /\ r \in VisibleRepairs(u)
                     /\ ~(\/ held.doc[d].status = "archived"
                          \/ held.repair[r].status = "archived"
                          \/ VehicleOf(r).status = "archived"
                          \/ ServiceArchived(r))

\* The job of a document.
JobOpens(u, d) ==
  LET r == held.doc[d].repair
  IN u \in Admins \/ /\ r \in VisibleRepairs(u)
                     /\ held.doc[d].status # "archived"
                     /\ held.repair[r].status # "archived"
                     /\ VehicleOf(r).status # "archived"
                     /\ ~ServiceArchived(r)

Archive(u) == u \in Admins \* include_archived_documents, include_archived_fallback

ShownDocuments(u, r) == {d \in DocsOf(r) : Archive(u) \/ held.doc[d].status # "archived"}

\* The document a report is made from; the repair's own report names none.
ReportDocument(u, r, d) ==
  IF d # Nothing /\ held.doc[d].repair = r /\ (held.doc[d].status # "archived" \/ Archive(u)) THEN d
  ELSE SourceDocument(r, Archive(u))

\* Mutant: repairs of archived services are shown as well.
HistoryShownAlways(r) == held.repair[r].status # "archived"

HistoryShown(r) == held.repair[r].status # "archived" /\ ~ServiceArchived(r)

VehicleHistory(v) == {r \in Repairs : held.repair[r].vehicle = v /\ HistoryShown(r)}

SuspiciousChecks(r) == held.repair[r].checks \cap {"suspicious", "error"} # {}

HistorySummary(v) ==
  [documents  |-> {d \in Docs : held.doc[d].repair \in VehicleHistory(v) /\ held.doc[d].status # "archived"},
   confirmed  |-> {r \in VehicleHistory(v) : held.repair[r].status = "confirmed" /\ ~SuspiciousChecks(r)},
   suspicious |-> {r \in VehicleHistory(v) : held.repair[r].status = "suspicious" \/ SuspiciousChecks(r)}]

\* The imported repairs of a vehicle, on its page and in the list.
HistoricalHistory(v) == {r \in VehicleHistory(v) : held.repair[r].imported}

HistoricalSummary(v) ==
  {r \in Repairs : held.repair[r].vehicle = v /\ HistoryShown(r) /\ held.repair[r].imported}

\* The stage of work that a report names.
WorkflowStage(r) ==
  IF held.repair[r].status \in {"archived", "ocr_error"} THEN held.repair[r].status
  ELSE IF held.repair[r].status = "suspicious" \/ SuspiciousChecks(r) THEN "suspicious"
  ELSE held.repair[r].status

-----------------------------------------------------------------------------
\* The lists: documents, vehicles, search, the review queue.

Operational(r) ==
  /\ held.repair[r].status # "archived"
  /\ VehicleOf(r).status # "archived"
  /\ ~ServiceArchived(r)

OperationalDocuments == {d \in Docs : held.doc[d].status # "archived" /\ Operational(held.doc[d].repair)}

DocumentList(u) == {d \in OperationalDocuments : held.doc[d].repair \in VisibleRepairs(u)}

VehicleList(u) == {v \in VehicleScope(u) : held.vehicle[v].status # "archived" /\ RealVehicle(v)}

SearchDocuments(u) ==
  {d \in Docs : LET r == held.doc[d].repair
                IN /\ r \in VisibleRepairs(u)
                   /\ held.doc[d].status # "archived"
                   /\ held.repair[r].status # "archived"
                   /\ VehicleOf(r).status # "archived"
                   /\ ~ServiceArchived(r)}

SearchRepairs(u) ==
  {r \in VisibleRepairs(u) : /\ held.repair[r].status # "archived"
                             /\ VehicleOf(r).status # "archived"
                             /\ ~ServiceArchived(r)}

SearchVehicles(u) == {v \in VehicleScope(u) : held.vehicle[v].status # "archived" /\ RealVehicle(v)}

Reviewable(d) == held.doc[d].kind \in PrimaryKinds

NeedsReview(d) ==
  LET r == held.doc[d].repair
  IN \/ held.doc[d].status \in {"partially_recognized", "needs_review", "ocr_error"}
     \/ held.repair[r].status \in {"in_review", "employee_confirmed", "suspicious", "ocr_error"}
     \/ held.repair[r].partial
     \/ held.repair[r].checks # {}

\* Without a filter both roles are shown the same services.
ServiceList == {s \in VisibleServices : held.service[s].status # "archived"}

Queue(u) ==
  {d \in Docs : LET r == held.doc[d].repair
                IN /\ Reviewable(d) /\ NeedsReview(d)
                   /\ held.doc[d].status \notin {"uploaded", "archived"}
                   /\ held.repair[r].status # "archived"
                   /\ VehicleOf(r).status # "archived"
                   /\ ~ServiceArchived(r)
                   /\ r \in VisibleRepairs(u)}

\* The category a row is counted and filtered under, and the one it shows.
CountedCategory(d) ==
  LET r == held.doc[d].repair
  IN IF held.doc[d].status = "ocr_error" \/ held.repair[r].status = "ocr_error" THEN "ocr_error"
     ELSE IF held.repair[r].status = "suspicious" \/ SuspiciousChecks(r) THEN "suspicious"
     ELSE IF held.repair[r].status = "employee_confirmed" THEN "employee_confirmation"
     ELSE IF held.doc[d].status = "partially_recognized" \/ held.repair[r].partial THEN "partial_recognition"
     ELSE "manual_review"

ShownCategory(d) ==
  LET r == held.repair[held.doc[d].repair]
      blocking == \E s \in r.checks : s \in {"suspicious", "error"}
  IN IF "ocr_error" \in {held.doc[d].status, r.status} THEN "ocr_error"
     ELSE IF r.status = "suspicious" \/ blocking THEN "suspicious"
     ELSE IF r.status = "employee_confirmed" THEN "employee_confirmation"
     ELSE IF held.doc[d].status = "partially_recognized" \/ r.partial THEN "partial_recognition"
     ELSE "manual_review"

\* Whether a review action accepts the document.
InReviewQueue(d) ==
  LET r == held.doc[d].repair
  IN /\ held.doc[d].status # "uploaded"
     /\ VehicleOf(r).status # "archived"
     /\ ~ServiceArchived(r)
     /\ held.doc[d].kind \in PrimaryKinds
     /\ held.doc[d].status # "archived"
     /\ held.repair[r].status # "archived"
     /\ \/ held.doc[d].status \in {"partially_recognized", "needs_review", "ocr_error"}
        \/ held.repair[r].status \in {"in_review", "employee_confirmed", "suspicious", "ocr_error"}
        \/ held.repair[r].partial
        \/ \E s \in held.repair[r].checks : TRUE

-----------------------------------------------------------------------------
\* The dashboard: the summary, the quality figures and the rows behind them.

OcrErrorRepair(r) ==
  \/ held.repair[r].status = "ocr_error"
  \/ \E d \in DocsOf(r) : Reviewable(d) /\ held.doc[d].status = "ocr_error"

SuspiciousRepair(r) == ~OcrErrorRepair(r) /\ (held.repair[r].status = "suspicious" \/ SuspiciousChecks(r))

Summary(u) ==
  LET repairs == {r \in VisibleRepairs(u) : Operational(r)}
      documents == {d \in OperationalDocuments : held.doc[d].repair \in VisibleRepairs(u)}
  IN [vehicles   |-> {v \in Vehicles : /\ u \notin Admins => v \in AllowedVehicles(u)
                                       /\ held.vehicle[v].status # "archived" /\ RealVehicle(v)},
      repairs    |-> repairs,
      drafts     |-> {r \in repairs : held.repair[r].status = "draft"},
      suspicious |-> {r \in repairs : SuspiciousRepair(r)},
      documents  |-> documents,
      queue      |-> {d \in documents : Reviewable(d) /\ NeedsReview(d) /\ held.doc[d].status # "uploaded"}]

DocumentQuality(u) ==
  LET documents == {d \in OperationalDocuments : held.doc[d].repair \in VisibleRepairs(u)}
  IN [low   |-> {d \in documents : held.doc[d].low},
      error |-> {d \in documents : /\ Reviewable(d) /\ held.doc[d].status # "uploaded"
                                   /\ "ocr_error" \in {held.doc[d].status, held.repair[held.doc[d].repair].status}},
      review |-> {d \in documents : /\ Reviewable(d) /\ NeedsReview(d)
                                    /\ held.doc[d].status \notin {"uploaded", "ocr_error"}
                                    /\ held.repair[held.doc[d].repair].status # "ocr_error"}]

Lines(repairs, kind) == {<<r, kind>> : r \in {s \in repairs : kind \in held.repair[s].lines}}

PreliminaryServices(repairs) ==
  {s \in VisibleServices : held.service[s].status = "preliminary" /\ \E r \in repairs : held.repair[r].service = s}

\* Administrators' conflicts need no document, employees' do.
QualityForAdmins ==
  LET repairs == {r \in Repairs : Operational(r)}
  IN [services   |-> PreliminaryServices(repairs),
      works      |-> Lines(repairs, "work"),
      parts      |-> Lines(repairs, "part"),
      conflicts  |-> {c \in Conflicts : held.conflict[c] \in {Nothing} \cup OperationalDocuments},
      suspicious |-> {r \in repairs : SuspiciousRepair(r)}]

QualityForEmployee(u) ==
  LET repairs == {r \in VisibleRepairs(u) : Operational(r)}
  IN [services   |-> PreliminaryServices(repairs),
      works      |-> Lines(repairs, "work"),
      parts      |-> Lines(repairs, "part"),
      conflicts  |-> {c \in Conflicts : /\ held.conflict[c] \in OperationalDocuments
                                        /\ held.doc[held.conflict[c]].repair \in VisibleRepairs(u)},
      suspicious |-> {r \in VisibleRepairs(u) : /\ VehicleOf(r).status # "archived" /\ ~ServiceArchived(r)
                                                /\ SuspiciousRepair(r)}]

Quality(u) == IF u \in Admins THEN QualityForAdmins ELSE QualityForEmployee(u)

DetailDocuments(u) ==
  {d \in OperationalDocuments :
     /\ held.doc[d].repair \in VisibleRepairs(u)
     /\ \/ Reviewable(d) /\ NeedsReview(d) /\ held.doc[d].status # "uploaded"
        \/ held.doc[d].low}

DetailServices(u) ==
  {s \in VisibleServices : /\ held.service[s].status = "preliminary"
                           /\ \E r \in VisibleRepairs(u) : Operational(r) /\ held.repair[r].service = s}

DetailWorks(u) == Lines({r \in VisibleRepairs(u) : Operational(r)}, "work")

DetailParts(u) == Lines({r \in VisibleRepairs(u) : Operational(r)}, "part")

\* A conflict of no document has no repair that an employee could see.
DetailConflicts(u) ==
  {c \in Conflicts : IF held.conflict[c] = Nothing THEN u \in Admins
                     ELSE /\ held.conflict[c] \in OperationalDocuments
                          /\ held.doc[held.conflict[c]].repair \in VisibleRepairs(u)}

-----------------------------------------------------------------------------
\* Looking around: a list is asked for, and its rows are followed.

VehicleRow(v) == <<"vehicle", v>>
RepairRow(r) == <<"repair", r>>
DocumentRow(d) == <<"document", d>>

RowsOfRepair(r) == {RepairRow(r), VehicleRow(held.repair[r].vehicle)}
RowsOfDocument(d) == {DocumentRow(d)} \cup RowsOfRepair(held.doc[d].repair)

RowsOfQuality(u) ==
  {DocumentRow(d) : d \in DetailDocuments(u)}
    \cup {RepairRow(held.doc[d].repair) : d \in DetailDocuments(u)}
    \cup UNION {{RepairRow(l[1])} \cup ({DocumentRow(CanonicalSource(l[1]))} \ {DocumentRow(Nothing)}) :
                   l \in DetailWorks(u) \cup DetailParts(u)}

Opens(u, row) ==
  \/ row[1] = "vehicle" /\ VehicleOpens(u, row[2])
  \/ row[1] = "repair" /\ RepairOpens(u, row[2])
  \/ row[1] = "document" /\ DocumentOpens(u, row[2])

RepairPageRows(u, r) ==
  {VehicleRow(held.repair[r].vehicle)}
    \cup {DocumentRow(d) : d \in ShownDocuments(u, r) \cup ({SourceDocument(r, Archive(u))} \ {Nothing})}

VehiclePageRows(v) == {RepairRow(r) : r \in VehicleHistory(v)}

ReportRows(u, d) ==
  LET r == held.doc[d].repair
  IN {RepairRow(r)}
       \cup {DocumentRow(e) : e \in {SourceDocument(r, Archive(u)), ReportDocument(u, r, d)} \ {Nothing}}

PageRows(u, row) ==
  IF row[1] = "vehicle" THEN VehiclePageRows(row[2])
  ELSE IF row[1] = "repair" THEN RepairPageRows(u, row[2])
  ELSE ReportRows(u, row[2])

ReadsInit ==
  /\ held \in Database
  /\ page \in [user : Users, links : {{}}]

Show(rows) == page' = [page EXCEPT !.links = rows] /\ UNCHANGED held

ListDocuments == Show(UNION {RowsOfDocument(d) : d \in DocumentList(page.user)})

ListVehicles == Show({VehicleRow(v) : v \in VehicleList(page.user)})

GlobalSearch ==
  Show((UNION {RowsOfDocument(d) : d \in SearchDocuments(page.user)})
         \cup (UNION {RowsOfRepair(r) : r \in SearchRepairs(page.user)})
         \cup {VehicleRow(v) : v \in SearchVehicles(page.user)})

ReviewQueue == Show(UNION {RowsOfDocument(d) : d \in Queue(page.user)})

QualityDetails == Show(RowsOfQuality(page.user))

Follow(row) == Opens(page.user, row) /\ Show(PageRows(page.user, row))

ReadsNext ==
  \/ ListDocuments \/ ListVehicles \/ GlobalSearch \/ ReviewQueue \/ QualityDetails
  \/ \E row \in page.links : Follow(row)

ReadsSpec == ReadsInit /\ [][ReadsNext]_readVars

-----------------------------------------------------------------------------
RowsOfPages == ({"vehicle"} \X Vehicles) \cup ({"repair"} \X Repairs) \cup ({"document"} \X Docs)

ReadsTypeOK == held \in Database /\ page \in [user : Users, links : SUBSET RowsOfPages]

\* Whatever a user is shown, he can open. One row leads nowhere: the vehicle of
\* a preliminary repair that he made himself and that is not assigned to him.
RowsOpen ==
  \A row \in page.links :
    \/ Opens(page.user, row)
    \/ row[1] = "vehicle" /\ \E r \in Repairs : OwnPreliminary(page.user, r) /\ held.repair[r].vehicle = row[2]

\* A figure and the rows it stands for are the same, wherever either is asked
\* for. One is not: an employee's suspicious repairs count archived ones.
FiguresAgree ==
  \A u \in Users :
    /\ Summary(u).vehicles = VehicleList(u)
    /\ Summary(u).documents = DocumentList(u)
    /\ Summary(u).documents = SearchDocuments(u)
    /\ Summary(u).repairs = SearchRepairs(u)
    /\ Summary(u).queue = Queue(u)
    /\ DocumentQuality(u).error \cup DocumentQuality(u).review = Queue(u)
    /\ DocumentQuality(u).error \cap DocumentQuality(u).review = {}
    /\ DetailDocuments(u) = Queue(u) \cup DocumentQuality(u).low
    /\ Quality(u).services = DetailServices(u)
    /\ DetailServices(u) \subseteq ServiceList
    /\ Quality(u).works = DetailWorks(u)
    /\ Quality(u).parts = DetailParts(u)
    /\ Quality(u).conflicts = DetailConflicts(u)
    /\ {r \in Quality(u).suspicious : u \in Admins \/ held.repair[r].status # "archived"} = Summary(u).suspicious
    /\ \A v \in VehicleList(u) :
         /\ HistoricalSummary(v) = HistoricalHistory(v)
         /\ HistorySummary(v).documents = {d \in DocumentList(u) : held.repair[held.doc[d].repair].vehicle = v}
         /\ {r \in Summary(u).suspicious : held.repair[r].vehicle = v} \subseteq HistorySummary(v).suspicious
         /\ HistorySummary(v).suspicious \cap HistorySummary(v).confirmed = {}

\* A review action accepts what the queue shows and what its rows lead to; a
\* row is shown under the category it is counted in; the queue's suspicious
\* rows are of the dashboard's suspicious repairs, or of unreadable ones; and
\* a report names the stage that the queue shows.
QueueAgrees ==
  \A u \in Users :
    /\ \A d \in Docs : DocumentOpens(u, d) /\ InReviewQueue(d) /\ Operational(held.doc[d].repair) <=> d \in Queue(u)
    /\ \A d \in Queue(u) :
         /\ CountedCategory(d) = ShownCategory(d)
         /\ held.doc[d].repair \in Summary(u).suspicious => ShownCategory(d) = "suspicious"
         /\ ShownCategory(d) = "suspicious" =>
              held.doc[d].repair \in Summary(u).suspicious \/ OcrErrorRepair(held.doc[d].repair)
         /\ ShownCategory(d) = "suspicious" => WorkflowStage(held.doc[d].repair) = "suspicious"
         /\ ShownCategory(d) = "employee_confirmation" => WorkflowStage(held.doc[d].repair) = "employee_confirmed"

\* Python and SQL choose the same document, of the repair, and one that its
\* reader may see; a document that opens shows its job and its own report.
SourceAgrees ==
  /\ \A r \in Repairs : PrimaryCandidate(r) = CanonicalSource(r)
  /\ \A u \in Users, r \in Repairs :
       SourceDocument(r, Archive(u)) \in ShownDocuments(u, r) \cup {Nothing}
  /\ \A u \in Users, d \in Docs :
       DocumentOpens(u, d) => JobOpens(u, d) /\ ReportDocument(u, held.doc[d].repair, d) = d

\* Whoever looks, by whichever list, search, queue or dashboard: what he is
\* shown opens, and figures, rows and categories agree with one another.
ReadsAgree == ReadsTypeOK /\ RowsOpen /\ FiguresAgree /\ QueueAgrees /\ SourceAgrees
=============================================================================
