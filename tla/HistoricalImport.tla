-------------------------- MODULE HistoricalImport --------------------------
(***************************************************************************)
(* The import of old repairs from a workbook. A repair is recognized by its *)
(* key (plate, service, registrator and date), kept as text in the reason   *)
(* of the repair it made, where only visible repairs are searched.  The     *)
(* reason is a field like any other, and a user may write another there.    *)
(* Administrators archive and restore what stands around meanwhile. Cards   *)
(* of one plate, and one service, stand for all of them.                    *)
(***************************************************************************)
EXTENDS Naturals, Sequences, FiniteSets

CONSTANTS
  Workbook,     \* the keys of its groups, in their order
  NeedsService, \* the keys whose rows name the service
  ImportLimits, \* repair limits an import may be given
  Imports,      \* job ids, a bound on the runs
  RowIds,       \* repair ids, a bound on the repairs made
  Cards,        \* vehicles of the plate
  FirstCard,
  Nothing

Keys == {Workbook[i] : i \in DOMAIN Workbook}

ASSUME ImportAssumption ==
  /\ Workbook \in Seq(Keys)
  /\ NeedsService \subseteq Keys
  /\ ImportLimits \subseteq Nat \ {0}
  /\ FirstCard \in Cards
  /\ Nothing \notin Cards \cup RowIds \cup Keys \cup Imports

VARIABLES
  made,     \* repairs the imports made: status, the key of their group, what the reason tells now,
            \* card, service named, job
  cards,    \* vehicles: none, live, archived
  shop,     \* the service: none, live, archived
  job,      \* import_jobs, with what a running import has read and will write
  conflicts, \* import_conflicts
  doubled   \* history: pairs of repairs, one of which the other's import could not recognize

importVars == <<made, cards, shop, job, conflicts, doubled>>

NotMade == [status |-> "none", key |-> Nothing, reason |-> Nothing, card |-> Nothing, service |-> FALSE, job |-> Nothing]
NoJob == [status |-> "none", limit |-> 1, card |-> Nothing, seen |-> {}, creates |-> {}, refuses |-> {}]

ImportInit ==
  /\ made = [r \in RowIds |-> NotMade]
  /\ cards = [c \in Cards |-> IF c = FirstCard THEN "live" ELSE "none"]
  /\ shop = "none"
  /\ job = [j \in Imports |-> NoJob]
  /\ conflicts = {}
  /\ doubled = {}

LiveCards == {c \in Cards : cards[c] = "live"}
Live(r) == made[r].status = "live"
UnderArchived(r) == cards[made[r].card] = "archived" \/ (made[r].service /\ shop = "archived")
Visible(r) == Live(r) /\ ~UnderArchived(r)

-----------------------------------------------------------------------------
(* build_vehicle_lookup forgets a plate that comes a second time, and takes *)
(* it up again with the third.                                              *)
LookedUp == IF Cardinality(LiveCards) % 2 = 1 THEN LiveCards ELSE {Nothing}

SeenRows == {r \in RowIds : Visible(r)}

(* Mutant: an inner join leaves out repairs without a service. *)
KnownKeysInner == {made[r].reason : r \in {x \in SeenRows : made[x].service}}

(* load_existing_historical_keys: the keys that the reasons tell. *)
KnownKeys == {made[r].reason : r \in SeenRows}

(* History: the repairs that still tell the key they were made from. *)
Recognized == {r \in SeenRows : made[r].reason = made[r].key}

Reasons == {"duplicate", "vehicle", "service"}

(* Mutant: a group without a vehicle is let through. *)
VerdictAnyVehicle(k, card) ==
  IF k \in KnownKeys THEN "duplicate" ELSE IF k \in NeedsService /\ shop = "archived" THEN "service" ELSE "create"

(* The verdict on one group: a duplicate, no vehicle, an archived service.  *)
Verdict(k, card) ==
  IF k \in KnownKeys THEN "duplicate"
  ELSE IF card = Nothing THEN "vehicle"
  ELSE IF k \in NeedsService /\ shop = "archived" THEN "service"
  ELSE "create"

(* The groups before the limit is reached. *)
Reached(i, limit, card) == Cardinality({h \in 1 .. i - 1 : Verdict(Workbook[h], card) = "create"}) < limit

GroupsWith(verdict, limit, card) ==
  {Workbook[i] : i \in {h \in DOMAIN Workbook : Reached(h, limit, card) /\ Verdict(Workbook[h], card) = verdict}}

-----------------------------------------------------------------------------
(* The job is committed before anything is read: "started" and "read" are   *)
(* both its status PROCESSING.                                              *)
StartImport(j, limit) ==
  /\ job[j].status = "none"
  /\ job' = [job EXCEPT ![j].status = "started", ![j].limit = limit]
  /\ UNCHANGED <<made, cards, shop, conflicts, doubled>>

(* The lookups and the loop over the groups, whose writes wait for the      *)
(* commit.                                                                  *)
ReadWorkbook(j) ==
  /\ job[j].status = "started"
  /\ \E card \in LookedUp :
       LET With(verdict) == GroupsWith(verdict, job[j].limit, card)
       IN job' = [job EXCEPT ![j] =
                    [@ EXCEPT !.status = "read", !.card = card, !.seen = Recognized, !.creates = With("create"),
                              !.refuses = UNION {With(v) \X {v} : v \in Reasons}]]
  /\ UNCHANGED <<made, cards, shop, conflicts, doubled>>

RowFor(k, j) ==
  [status |-> "live", key |-> k, reason |-> k, card |-> job[j].card, service |-> k \in NeedsService, job |-> j]

Cleared(status) == [NoJob EXCEPT !.status = status]

FinishImport(j) ==
  LET q == job[j]
      free == {r \in RowIds : made[r].status = "none"}
  IN
  /\ q.status = "read"
  /\ Cardinality(q.creates) <= Cardinality(free)
  /\ \E row \in [q.creates -> free] :
       /\ \A k, l \in q.creates : k # l => row[k] # row[l]
       /\ made' = [r \in RowIds |-> IF \E k \in q.creates : row[k] = r
                                     THEN RowFor(CHOOSE k \in q.creates : row[k] = r, j) ELSE made[r]]
       /\ doubled' = doubled \cup UNION {{{row[k], r} : r \in (RowIds \ free) \ q.seen} : k \in q.creates}
  /\ shop' = IF shop = "none" /\ q.creates \cap NeedsService # {} THEN "live" ELSE shop
  /\ conflicts' = conflicts \cup {[job |-> j, key |-> f[1], reason |-> f[2], status |-> "pending"] : f \in q.refuses}
  /\ job' = [job EXCEPT ![j] = Cleared(IF q.refuses = {} THEN "completed" ELSE "conflicts")]
  /\ UNCHANGED cards

(* An exception, at the start or on the way, rolls back all but the job.    *)
FailImport(j) ==
  /\ job[j].status \in {"started", "read"}
  /\ job' = [job EXCEPT ![j] = Cleared("failed")]
  /\ UNCHANGED <<made, cards, shop, conflicts, doubled>>

(* The process dies: nobody ever looks at the job again. *)
DieImporting(j) ==
  /\ job[j].status \in {"started", "read"}
  /\ job' = [job EXCEPT ![j] = Cleared("lost")]
  /\ UNCHANGED <<made, cards, shop, conflicts, doubled>>

(* An administrator closes a conflict, or closes it differently.            *)
ResolveConflict(c, status) ==
  /\ c \in conflicts
  /\ conflicts' = (conflicts \ {c}) \cup {[c EXCEPT !.status = status]}
  /\ UNCHANGED <<made, cards, shop, job, doubled>>

-----------------------------------------------------------------------------
(* Around the import: cards, the service and repairs go and come back, with *)
(* the guards of the catalogue.                                             *)
NewCardOfPlate(c) ==
  /\ cards[c] = "none"
  /\ cards' = [cards EXCEPT ![c] = "live"]
  /\ UNCHANGED <<made, shop, job, conflicts, doubled>>

SwitchCard(c) ==
  /\ \/ cards[c] = "archived" /\ cards' = [cards EXCEPT ![c] = "live"]
     \/ /\ cards[c] = "live"
        /\ ~\E r \in RowIds : made[r].card = c /\ Visible(r)
        /\ cards' = [cards EXCEPT ![c] = "archived"]
  /\ UNCHANGED <<made, shop, job, conflicts, doubled>>

SwitchShop ==
  /\ \/ shop = "archived" /\ shop' = "live"
     \/ /\ shop = "live"
        /\ ~\E r \in RowIds : made[r].service /\ Visible(r)
        /\ shop' = "archived"
  /\ UNCHANGED <<made, cards, job, conflicts, doubled>>

SwitchRepair(r) ==
  /\ made[r].status # "none" /\ ~UnderArchived(r)
  /\ made' = [made EXCEPT ![r].status = IF @ = "live" THEN "archived" ELSE "live"]
  /\ UNCHANGED <<cards, shop, job, conflicts, doubled>>

(* An administrator, or who works on the repair, writes another reason: some *)
(* text, or the key of another group.                                       *)
EditReason(r, reason) ==
  /\ Visible(r)
  /\ made' = [made EXCEPT ![r].reason = reason]
  /\ UNCHANGED <<cards, shop, job, conflicts, doubled>>

ImportNext ==
  \/ \E j \in Imports :
       \/ \E limit \in ImportLimits : StartImport(j, limit)
       \/ ReadWorkbook(j)
       \/ FinishImport(j)
       \/ FailImport(j)
       \/ DieImporting(j)
  \/ \E c \in conflicts, status \in {"resolved", "ignored"} : ResolveConflict(c, status)
  \/ \E c \in Cards : NewCardOfPlate(c) \/ SwitchCard(c)
  \/ SwitchShop
  \/ \E r \in RowIds : SwitchRepair(r) \/ \E reason \in Keys \cup {Nothing} : EditReason(r, reason)

ImportSpec == ImportInit /\ [][ImportNext]_importVars

-----------------------------------------------------------------------------
Conflict == [job : Imports, key : Keys, reason : Reasons, status : {"pending", "resolved", "ignored"}]

(* The rows have the shape of Repair, ImportJob and ImportConflict; a repair *)
(* has a vehicle.                                                           *)
ImportTypeOK ==
  /\ \A r \in RowIds : made[r].status # "none" => made[r].card \in Cards
  /\ made \in [RowIds -> [status : {"none", "live", "archived"}, key : Keys \cup {Nothing},
                          reason : Keys \cup {Nothing}, card : Cards \cup {Nothing}, service : BOOLEAN, job : Imports \cup {Nothing}]]
  /\ cards \in [Cards -> {"none", "live", "archived"}]
  /\ shop \in {"none", "live", "archived"}
  /\ job \in [Imports -> [status : {"none", "started", "read", "completed", "conflicts", "failed", "lost"}, limit : ImportLimits \cup {1},
                          card : Cards \cup {Nothing}, seen : SUBSET RowIds, creates : SUBSET Keys,
                          refuses : SUBSET (Keys \X Reasons)]]
  /\ conflicts \subseteq Conflict
  /\ doubled \subseteq SUBSET RowIds

Finished(j) == job[j].status \in {"completed", "conflicts"}

(* An old repair is live once, however often its workbook is imported       *)
(* (historical_repairs_import.py:459), save for a repair that the later     *)
(* import could not recognize: archived, hidden, not committed, or with     *)
(* another reason written over its key (repairs.py:1794, 1928) when it read. *)
OldRepairsLiveOnce ==
  \A q, r \in RowIds : q # r /\ Live(q) /\ Live(r) /\ made[q].key = made[r].key => {q, r} \in doubled

(* A job that failed or was lost leaves nothing, and one that finished left *)
(* a conflict for each group that it refused, or none and says so.          *)
JobsTellWhatTheyDid ==
  /\ \A r \in RowIds : made[r].status # "none" => Finished(made[r].job)
  /\ \A c \in conflicts : job[c.job].status = "conflicts"
  /\ \A j \in Imports : job[j].status = "conflicts" => \E c \in conflicts : c.job = j
  /\ \A c \in conflicts, r \in RowIds : ~(made[r].job = c.job /\ made[r].key = c.key)

(* Rows keep their shape, an old repair lives once, a job tells what it did. *)
ImportedOnce == ImportTypeOK /\ OldRepairsLiveOnce /\ JobsTellWhatTheyDid
=============================================================================
