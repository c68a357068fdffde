----------------------------- MODULE Migrations -----------------------------
(***************************************************************************)
(* Runs of alembic over the schema (alembic/env.py and the migrations).    *)
(* On PostgreSQL one transaction holds a whole run, but the autocommit     *)
(* block of 0013 commits what precedes it; a failed or killed run leaves   *)
(* the last commit.  On SQLite every migration commits, and its            *)
(* interrupted DDL is not modelled.                                        *)
(***************************************************************************)
EXTENDS MigrationSteps, Integers

CONSTANTS Dialects,   \* of {"postgresql", "sqlite"}
          Stops       \* bound: the revisions at which a run may end

ASSUME MigrationsAssumption ==
  /\ Dialects \subseteq {"postgresql", "sqlite"}
  /\ Stops \subseteq 0 .. HeadRevision

FreshSchema == [x \in Dialects |-> SchemaAt(x)]

\* The twenty migrations on their own, from a fresh database up and back down, each once:
\* what no order of runs has yet come into.  Every operand is given, so TLC computes it.
ASSUME MigrationFacts ==
  /\ LateLabels \subseteq ModelSchema
  /\ \A x \in Dialects : LET fresh == FreshSchema[x] IN
       /\ fresh[0] = {}
       /\ fresh[HeadRevision] = InDialect(x, ModelSchema)
       /\ \A n \in 0 .. HeadRevision : InDialect(x, fresh[n]) = fresh[n]
       /\ \A n \in 1 .. HeadRevision :
            /\ ChangeApplies(x, fresh[n - 1], Upgrades(x)[n])
            /\ Altered(x, fresh[n - 1], Upgrades(x)[n]) = fresh[n]
            /\ ChangeApplies(x, fresh[n], Downgrades(x)[n])
            /\ LET below == Altered(x, fresh[n], Downgrades(x)[n]) IN
                 fresh[n - 1] \subseteq below /\ below \subseteq fresh[n - 1] \cup InDialect(x, LateLabels)

VARIABLES dialect,
          db,       \* what is committed
          work,     \* what the open transaction of a run sees; db if there is none
          goal      \* the revision a run is after; NoRun

migrationVars == <<dialect, db, work, goal>>

NoRun == -1

MigrationsInit ==
  /\ dialect \in Dialects
  /\ db = [revision |-> 0, schema |-> {}]
  /\ work = db
  /\ goal = NoRun

UpgradeOf(d) == Upgrades(dialect)[d.revision + 1]
DowngradeOf(d) == Downgrades(dialect)[d.revision]

GoesUp == goal > work.revision
GoesDown == goal # NoRun /\ goal < work.revision

StartRun(n) ==
  /\ goal = NoRun
  /\ n # db.revision
  /\ goal' = n
  /\ work' = db
  /\ UNCHANGED <<dialect, db>>

Reaches(revision, change) ==
  /\ ChangeApplies(dialect, work.schema, change)
  /\ work' = [revision |-> revision, schema |-> Altered(dialect, work.schema, change)]
  /\ db' = IF dialect = "sqlite" THEN work' ELSE db
  /\ UNCHANGED <<dialect, goal>>

\* autocommit_block: the transaction so far is committed, then each label.
Autocommits == dialect = "postgresql" /\ GoesUp /\ work.revision + 1 = 13
LabelsCommitted == db = work /\ LateLabels \subseteq work.schema

StepUp ==
  /\ GoesUp
  /\ Autocommits => LabelsCommitted
  /\ Reaches(work.revision + 1, UpgradeOf(work))

\* Mutant: the version is stamped before the labels are committed.
AutocommitStampsFirst ==
  /\ Autocommits
  /\ ~LabelsCommitted
  /\ work' = [revision |-> 13, schema |-> work.schema \cup LateLabels]
  /\ db' = work'
  /\ UNCHANGED <<dialect, goal>>

AutocommitLabels ==
  /\ Autocommits
  /\ ~LabelsCommitted
  /\ work' = [work EXCEPT !.schema = @ \cup LateLabels]
  /\ db' = work'
  /\ UNCHANGED <<dialect, goal>>

StepDown ==
  /\ GoesDown
  /\ Reaches(work.revision - 1, DowngradeOf(work))

EndRun ==
  /\ goal = work.revision
  /\ db' = work
  /\ goal' = NoRun
  /\ UNCHANGED <<dialect, work>>

\* A statement fails on the rows, or the container is killed.
AbortRun ==
  /\ dialect = "postgresql"
  /\ goal # NoRun
  /\ work' = db
  /\ goal' = NoRun
  /\ UNCHANGED <<dialect, db>>

MigrationsNext ==
  \/ \E n \in Stops : StartRun(n)
  \/ StepUp
  \/ StepDown
  \/ AutocommitLabels
  \/ EndRun
  \/ AbortRun

MigrationsSpec == MigrationsInit /\ [][MigrationsNext]_migrationVars

----------------------------------------------------------------------------

\* What every run starts from is committed, and no run is open without a goal.
MigrationsTypeOK ==
  /\ dialect \in Dialects
  /\ \A d \in {db, work} : d.revision \in 0 .. HeadRevision
  /\ goal \in Stops \cup {NoRun}
  /\ goal = NoRun => work = db

\* The recorded revision says what the schema is, however runs were interrupted and
\* whatever went up and down before; only the labels of 0013 may be left over.
VersionDescribesSchema ==
  LET expected == InDialect(dialect, FreshSchema[dialect][db.revision]) IN
  /\ expected \subseteq db.schema
  /\ db.schema \ expected \subseteq LateLabels

\* A database at the head has the tables, keys and indices that the ORM models declare.
HeadIsModels == db.revision = HeadRevision => db.schema = InDialect(dialect, ModelSchema)

\* The schema never stops a run: each migration finds what it drops and what it builds on,
\* and nothing it adds is there already, after any earlier runs.
DdlApplies ==
  /\ GoesUp => ChangeApplies(dialect, work.schema, UpgradeOf(work))
  /\ GoesDown => ChangeApplies(dialect, work.schema, DowngradeOf(work))

\* What alembic_version promises of the schema, at rest, at the head and in every step.
SchemaFollowsRevision == MigrationsTypeOK /\ VersionDescribesSchema /\ HeadIsModels /\ DdlApplies
=============================================================================
