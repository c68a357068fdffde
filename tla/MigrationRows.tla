---------------------------- MODULE MigrationRows ----------------------------
(***************************************************************************)
(* What the migrations of alembic/versions do to rows that are there: the  *)
(* data part of each upgrade and downgrade, and the constraints whose      *)
(* creation fails on rows that break them.  Migrations has the schema, and *)
(* that a failed run leaves what was committed: a failed step changes      *)
(* nothing here.  Between steps the application and its operators write    *)
(* whatever the constraints of the current revision admit.                 *)
(*                                                                         *)
(* Of the rows the model keeps what migrations read: one repair and the    *)
(* documents of it and of others, two mails that are equal but for case.   *)
(***************************************************************************)
EXTENDS Naturals, FiniteSets

CONSTANTS Rests,      \* bound: the revisions at which rows are written
          MaxRows,    \* bound: rows of each kind, and of all kinds together
          Engines,    \* the servers: PostgreSQL in production, SQLite in the tests
          Scopes, DefaultScope, Names, DefaultName, Codes

ASSUME RowsAssumption ==
  /\ Rests \subseteq 0 .. 20
  /\ MaxRows \in Nat
  /\ Engines \subseteq {"postgresql", "sqlite"}
  /\ DefaultScope \in Scopes
  /\ DefaultName \in Names

VARIABLES engine, revision, rows

rowVars == <<engine, revision, rows>>

\* The revision with the foreign key of source_document_id.
KeyedSourceSince == IF engine = "sqlite" THEN 17 ELSE 1

Gone == 0            \* the id of a row that is not there
Ids == 1 .. MaxRows
Emails == {"ann", "Ann"}
LowerCase(e) == "ann"
DocumentKinds == {"ORDER", "ATTACHMENT"}
JobStatuses == {"FAILED", "QUEUED", "PROCESSING"}
ConflictStatuses == {"pending", "resolved", " Resolved", "unknown"}

RowsInit ==
  /\ engine \in Engines
  /\ revision = 0
  /\ rows = [emails |-> {}, norms |-> {}, catalogs |-> {}, jobs |-> {}, conflicts |-> {},
             documents |-> {}, source |-> {}]

ActiveOf(d, document) ==
  {j \in d.jobs : j.document = {document} /\ j.status \in {"QUEUED", "PROCESSING"}}

\* Mutant: the newest job, whether or not another one is running.
CanonicalNewest(js) == CHOOSE j \in js : \A k \in js : k.id <= j.id

\* max(active_jobs, key=_job_priority): the last one started, if any is running, or else
\* the last one created. What ends at a tie is the id, one way or the other.
Canonical(js) ==
  CHOOSE j \in js :
    IF \E k \in js : k.status = "PROCESSING"
      THEN /\ j.status = "PROCESSING"
           /\ \A k \in js : k.status = "PROCESSING" =>
                k.since < j.since \/ (k.since = j.since /\ k.id <= j.id)
      ELSE \A k \in js : k.since < j.since \/ (k.since = j.since /\ j.id <= k.id)

Superseded(d) ==
  {j \in d.jobs : \E id \in Ids \cup {Gone} :
     LET js == ActiveOf(d, id) IN j \in js /\ Cardinality(js) > 1 /\ j # Canonical(js)}

IdsOf(rs) == {r.id : r \in rs}

\* 0015: a job of its own for every conflict whose job is gone
Placeholder(c) == [id |-> MaxRows + c.id, document |-> {}, status |-> "FAILED", since |-> 0]
Orphans(d) == {c \in d.conflicts : c.job \notin IdsOf(d.jobs)}

ValidSource(d, id) ==
  \E x \in d.documents : x.id = id /\ x.own /\ ~x.archived /\ x.kind = "ORDER"
Eligible(d) == {x \in d.documents : x.own /\ ~x.archived /\ x.kind = "ORDER"}
Replacement(d) ==
  LET primary == {x \in Eligible(d) : x.primary}
      candidates == IF primary = {} THEN Eligible(d) ELSE primary
  IN {x.id : x \in {y \in candidates : \A z \in candidates : z.id <= y.id}}

\* Mutant: without TRIM and LOWER.
HealedStatusVerbatim(s) == IF s = "unknown" THEN "pending" ELSE s

HealedStatus(s) == CASE s = "resolved" \/ s = " Resolved" -> "resolved"
                     [] OTHER -> "pending"

\* --- the data part of each upgrade that has one

InDefaultScope(x) == [scope |-> DefaultScope, name |-> DefaultName, code |-> x.code]
ScopedNorms(d) == [d EXCEPT !.norms = {InDefaultScope(x) : x \in @}]

CatalogsOfNorms(d) ==
  [d EXCEPT !.catalogs = {[scope |-> x.scope, name |-> x.name] : x \in d.norms}]

LoweredEmails(d) == [d EXCEPT !.emails = {LowerCase(e) : e \in @}]

OneActiveJobEach(d) ==
  [d EXCEPT !.jobs = (@ \ Superseded(d)) \cup {[j EXCEPT !.status = "FAILED"] : j \in Superseded(d)}]

WithoutLostDocuments(d) ==
  [d EXCEPT !.jobs = {[j EXCEPT !.document = @ \cap IdsOf(d.documents)] : j \in @}]

WithConflictJobs(d) ==
  [d EXCEPT !.jobs = @ \cup {Placeholder(c) : c \in Orphans(d)},
            !.conflicts = {IF c \in Orphans(d) THEN [c EXCEPT !.job = Placeholder(c).id] ELSE c : c \in @}]

HealedSource(d) ==
  IF \A id \in d.source : ValidSource(d, id) THEN d
  ELSE [d EXCEPT !.source = Replacement(d),
                 !.documents = {IF x.own THEN [x EXCEPT !.primary = x.id \in Replacement(d)] ELSE x : x \in @}]

HealedConflicts(d) == [d EXCEPT !.conflicts = {[c EXCEPT !.status = HealedStatus(@)] : c \in @}]

\* What an upgrade to revision n does to the rows.
RowsUp(n, d) ==
  CASE n = 5 -> ScopedNorms(d)
    [] n = 6 -> CatalogsOfNorms(d)
    [] n = 12 -> LoweredEmails(d)
    [] n = 14 -> OneActiveJobEach(d)
    [] n = 15 -> WithConflictJobs(WithoutLostDocuments(d))
    [] n = 17 -> HealedSource(d)
    [] n = 18 -> HealedConflicts(d)
    [] OTHER -> d

\* What a downgrade from revision n takes away with its columns and tables.
RowsDown(n, d) ==
  CASE n = 1 -> [d EXCEPT !.emails = {}, !.jobs = {}, !.conflicts = {}, !.documents = {}, !.source = {}]
    [] n = 2 -> [d EXCEPT !.jobs = {[j EXCEPT !.document = {}] : j \in @}]
    [] n = 3 -> [d EXCEPT !.documents = {[x EXCEPT !.kind = "ORDER"] : x \in @}]
    [] n = 4 -> [d EXCEPT !.norms = {}]
    [] n = 5 -> ScopedNorms(d)
    [] n = 6 -> [d EXCEPT !.catalogs = {}]
    [] n = 13 -> [d EXCEPT !.jobs = {IF j.status = "PROCESSING" THEN [j EXCEPT !.since = 0] ELSE j : j \in @}]
    [] OTHER -> d

\* The rows satisfy the keys and checks of a revision that are about them.
RowsFit(n, d) ==
  /\ n \in 4 .. 4 => \A x, y \in d.norms : x.code = y.code => x = y
  /\ n >= 5 => \A x, y \in d.norms : x.code = y.code /\ x.scope = y.scope => x = y
  /\ \A x, y \in d.catalogs : x.scope = y.scope => x = y
  /\ n >= 14 => \A id \in IdsOf(d.documents) \cup {Gone} : Cardinality(ActiveOf(d, id)) <= 1
  /\ n >= 15 => /\ \A j \in d.jobs : j.document \subseteq IdsOf(d.documents)
               /\ \A c \in d.conflicts : c.job \in IdsOf(d.jobs)
  /\ n >= KeyedSourceSince => d.source \subseteq IdsOf(d.documents)
  /\ n >= 18 => \A c \in d.conflicts : c.status \in {"pending", "resolved"}

\* 0012 refuses mails that differ only by case.
MailsClash == \E e, f \in rows.emails : e # f /\ LowerCase(e) = LowerCase(f)

\* 0015 sends the status of its placeholders as text, and PostgreSQL has no cast from
\* text to the type of the column.
OrphansRefused == engine = "postgresql" /\ Orphans(rows) # {}

\* Rows that lose the columns that told them apart break the unique key of their code.
NormsStayApart(e) == Cardinality(rows.norms) = Cardinality(e.norms)

UpgradeFits ==
  /\ revision + 1 = 12 => ~MailsClash
  /\ revision + 1 = 15 => ~OrphansRefused
  /\ RowsFit(revision + 1, RowsUp(revision + 1, rows))

DowngradeFits ==
  /\ revision = 5 => NormsStayApart(RowsDown(5, rows))
  /\ RowsFit(revision - 1, RowsDown(revision, rows))

UpgradeRows ==
  /\ revision < 20
  /\ UpgradeFits
  /\ rows' = RowsUp(revision + 1, rows)
  /\ revision' = revision + 1
  /\ UNCHANGED engine

DowngradeRows ==
  /\ revision > 0
  /\ DowngradeFits
  /\ rows' = RowsDown(revision, rows)
  /\ revision' = revision - 1
  /\ UNCHANGED engine

\* --- rows written between runs

Count(d) == Cardinality(d.emails) + Cardinality(d.norms) + Cardinality(d.catalogs)
            + Cardinality(d.jobs) + Cardinality(d.conflicts) + Cardinality(d.documents)

Writes(d) ==
  /\ revision \in Rests
  /\ Count(d) <= MaxRows
  /\ RowsFit(revision, d)
  /\ rows' = d
  /\ UNCHANGED <<engine, revision>>

WriteUser(e) ==
  /\ revision >= 1
  /\ revision >= 12 => e = LowerCase(e)
  /\ Writes([rows EXCEPT !.emails = @ \cup {e}])

WriteNorm(scope, name, code) ==
  /\ revision >= 4
  /\ revision < 5 => scope = DefaultScope /\ name = DefaultName
  /\ Writes([rows EXCEPT !.norms = @ \cup {[scope |-> scope, name |-> name, code |-> code]}])

WriteCatalog(scope, name) ==
  /\ revision >= 6
  /\ Writes([rows EXCEPT !.catalogs = @ \cup {[scope |-> scope, name |-> name]}])

\* Of a job that runs, since is when it started, of one that waits, when it was created.
WriteJob(id, document, status, since) ==
  /\ revision >= 1
  /\ id \notin IdsOf(rows.jobs)
  /\ document # {} => revision >= 2
  /\ status = "QUEUED" => revision >= 13
  /\ since > 0 => status # "FAILED" /\ revision >= 13
  /\ Writes([rows EXCEPT !.jobs = @ \cup {[id |-> id, document |-> document, status |-> status,
                                          since |-> since]}])

WriteConflict(id, job, status) ==
  /\ revision >= 1
  /\ id \notin IdsOf(rows.conflicts)
  /\ Writes([rows EXCEPT !.conflicts = @ \cup {[id |-> id, job |-> job, status |-> status]}])

\* A document of the repair, or of another one.
WriteDocument(id, own, kind, archived, primary) ==
  /\ revision >= 1
  /\ id \notin IdsOf(rows.documents)
  /\ kind # "ORDER" => revision >= 3
  /\ Writes([rows EXCEPT !.documents = @ \cup {[id |-> id, own |-> own, kind |-> kind,
                                               archived |-> archived, primary |-> primary]}])

WriteSource(id) ==
  /\ revision >= 1
  /\ Writes([rows EXCEPT !.source = {id}])

RowsWritten ==
  \/ \E e \in Emails : WriteUser(e)
  \/ \E scope \in Scopes, name \in Names : \/ WriteCatalog(scope, name)
                                           \/ \E code \in Codes : WriteNorm(scope, name, code)
  \/ \E id \in Ids :
       \/ \E doc \in {{}, {Gone}, {1}}, status \in JobStatuses, since \in 0 .. 1 :
            WriteJob(id, doc, status, since)
       \/ \E job \in {Gone, 1}, status \in ConflictStatuses : WriteConflict(id, job, status)
       \/ \E own, archived, primary \in BOOLEAN, kind \in DocumentKinds :
            WriteDocument(id, own, kind, archived, primary)
  \/ \E id \in Ids \cup {Gone} : WriteSource(id)

RowsNext == UpgradeRows \/ DowngradeRows \/ RowsWritten

RowsSpec == RowsInit /\ [][RowsNext]_rowVars

----------------------------------------------------------------------------

JobRows == [id : 1 .. 2 * MaxRows, document : SUBSET (Ids \cup {Gone}), status : JobStatuses,
            since : 0 .. 1]
ConflictRows == [id : Ids, job : 0 .. 2 * MaxRows, status : ConflictStatuses]
DocumentRows == [id : Ids, own : BOOLEAN, kind : DocumentKinds, archived : BOOLEAN, primary : BOOLEAN]

\* The rows have the columns that their tables have at some revision.
RowsTypeOK ==
  /\ engine \in Engines
  /\ revision \in 0 .. 20
  /\ rows.emails \subseteq Emails
  /\ rows.norms \subseteq [scope : Scopes, name : Names, code : Codes]
  /\ rows.catalogs \subseteq [scope : Scopes, name : Names]
  /\ rows.jobs \subseteq JobRows
  /\ rows.conflicts \subseteq ConflictRows
  /\ rows.documents \subseteq DocumentRows
  /\ rows.source \subseteq Ids \cup {Gone}
  /\ RowsFit(revision, rows)

\* A migration stops only on rows of four kinds: mails that differ by case (0012), a scope
\* whose norms name two catalogues (0006), on PostgreSQL a conflict whose import job is
\* gone (0015, which means to give it one), on the way back a code in two scopes (0005).
OnlyNamedRowsStopAMigration ==
  /\ revision < 20 /\ ~UpgradeFits =>
       \/ revision + 1 = 12 /\ MailsClash
       \/ revision + 1 = 6 /\ \E x, y \in rows.norms : x.scope = y.scope /\ x.name # y.name
       \/ /\ revision + 1 = 15 /\ engine = "postgresql"
          /\ \E c \in rows.conflicts : \A j \in rows.jobs : j.id # c.job
  /\ revision > 0 /\ ~DowngradeFits =>
       revision = 5 /\ \E x, y \in rows.norms : x # y /\ x.code = y.code

\* The rows always fit the schema of their revision, and every migration that
\* does not stop on one of those brings them to the next one.
RowsMigrate == RowsTypeOK /\ OnlyNamedRowsStopAMigration

Running(js) == {j \in js : j.status = "PROCESSING"}

\* An upgrade deletes no row, and a document that had an active job has one, a running one
\* if any was running; 0015 lets the jobs of documents that are gone go.
UpgradesLoseNothing ==
  [][revision' = revision + 1 =>
       /\ {LowerCase(e) : e \in rows.emails} = {LowerCase(e) : e \in rows'.emails}
       /\ {x.code : x \in rows.norms} = {x.code : x \in rows'.norms}
       /\ IdsOf(rows.jobs) \subseteq IdsOf(rows'.jobs)
       /\ IdsOf(rows.conflicts) = IdsOf(rows'.conflicts)
       /\ IdsOf(rows.documents) = IdsOf(rows'.documents)
       /\ \A id \in IF revision' = 15 THEN IdsOf(rows.documents) ELSE Ids :
            LET before == ActiveOf(rows, id) after == ActiveOf(rows', id) IN
            /\ before # {} => after # {}
            /\ Running(before) # {} => Running(after) # {}
    ]_rowVars

\* After 0017 the repair's source is a readable order of its own, one is found if there is
\* one, and a source that was put right is the only primary document.
SourceIsHealed ==
  [][revision' = 17 /\ revision = 16 /\ rows.source # {} =>
       /\ rows'.source \subseteq IdsOf(Eligible(rows'))
       /\ Eligible(rows) # {} => rows'.source # {}
       /\ rows'.source # rows.source =>
            IdsOf({y \in rows'.documents : y.own /\ y.primary}) = rows'.source
    ]_rowVars

\* What an upgrade promises of the rows it finds.
UpgradesKeepRows == UpgradesLoseNothing /\ SourceIsHealed
=============================================================================
