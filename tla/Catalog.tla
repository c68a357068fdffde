------------------------------- MODULE Catalog -------------------------------
(***************************************************************************)
(* What stands above a repair: its vehicle and its service, and the rule    *)
(* that neither is archived while the repair is live. The rule is kept by   *)
(* guards on both sides, each of which reads in one transaction what the    *)
(* other writes in another. A service's name is unique by such a guard too. *)
(* Whether a service is preliminary or confirmed is left out, and so are    *)
(* its address and contacts.                                                *)
(***************************************************************************)
EXTENDS Naturals, FiniteSets

CONSTANTS
  Repairs, Vehicles, Placeholder,
  ServiceIds,   \* a bound on the rows of services
  CatalogNames, \* names of the services' folder
  OtherNames,
  Clients,      \* requests in flight
  None

Names == CatalogNames \cup OtherNames

ASSUME CatalogAssumption ==
  /\ Placeholder \notin Vehicles
  /\ None \notin Vehicles \cup ServiceIds \cup Names
  /\ CatalogNames \cap OtherNames = {}
  /\ IsFiniteSet(ServiceIds) /\ IsFiniteSet(CatalogNames)

VARIABLES
  repair,    \* repairs: status, vehicle, service
  archivedV, \* the archived vehicles
  service,   \* services: status, name, and whether a user created it
  client,    \* a request between its reads and its commit
  escaped,   \* history: live repairs that came below something archived in a race
  twinNames  \* history: pairs of services that were given one name in a race

catalogVars == <<repair, archivedV, service, client, escaped, twinNames>>

NoRepair == [status |-> "none", vehicle |-> Placeholder, service |-> None]
NoService == [status |-> "none", name |-> None, created |-> FALSE]
Idle == [op |-> "none", on |-> None, to |-> None, adds |-> {}, missed |-> {}]

CatalogInit ==
  /\ repair = [p \in Repairs |-> NoRepair]
  /\ archivedV = {}
  /\ service = [s \in ServiceIds |-> NoService]
  /\ client = [c \in Clients |-> Idle]
  /\ escaped = {}
  /\ twinNames = {}

Rows == {s \in ServiceIds : service[s].status # "none"}
Archived(s) == s # None /\ service[s].status = "archived"
Under(x) == {p \in Repairs : repair[p].status = "live" /\ x \in {repair[p].vehicle, repair[p].service}}

(* ensure_repair_is_operational: nothing above the repair is archived. *)
Unarchived(p) == repair[p].vehicle \notin archivedV /\ ~Archived(repair[p].service)
Operational(p) == repair[p].status = "live" /\ Unarchived(p)

-----------------------------------------------------------------------------
(* ensure_service_catalog_synced: names of the folder that no row has.      *)
MissingNames == {n \in CatalogNames : \A s \in Rows : service[s].name # n}

RowsNamed(n) == {s \in Rows : service[s].name = n}

(* resolve_service_by_name: a folder's name finds the row of that name, any *)
(* other name finds the rows that users created.                            *)
Resolved(n) == {s \in RowsNamed(n) : ~Archived(s) /\ (n \in CatalogNames \/ service[s].created)}

(* ensure_service_can_be_archived: repairs of archived vehicles are not     *)
(* counted.                                                                 *)
CanArchiveService(s) == \A p \in Under(s) : repair[p].vehicle \in archivedV

(* Mutant: repairs without a service are not counted. *)
CanArchiveVehicleInner(v) == \A p \in Under(v) : repair[p].service = None \/ Archived(repair[p].service)

(* ensure_vehicle_can_be_archived: repairs of archived services are not     *)
(* counted.                                                                 *)
CanArchiveVehicle(v) == \A p \in Under(v) : Archived(repair[p].service)

Begins(c, op, on, to, adds) ==
  /\ client[c] = Idle
  /\ client' = [client EXCEPT ![c] = [op |-> op, on |-> on, to |-> to, adds |-> adds, missed |-> {}]]
  /\ UNCHANGED <<repair, archivedV, service, escaped, twinNames>>

BeginUpload(c, p, v) ==
  /\ repair[p].status = "none"
  /\ v \notin archivedV
  /\ Begins(c, "upload", p, v, {})

BeginLinkVehicle(c, p, v) ==
  /\ Operational(p)
  /\ repair[p].vehicle = Placeholder
  /\ v \notin archivedV
  /\ Begins(c, "vehicle", p, v, {})

(* A name of the folder synchronizes it, and may find the row this adds.    *)
BeginAssign(c, p, n) ==
  /\ Operational(p)
  /\ \/ n = None /\ Begins(c, "service", p, None, {})
     \/ n \in MissingNames /\ Begins(c, "service", p, n, MissingNames)
     \/ \E s \in Resolved(n) : Begins(c, "service", p, s, IF n \in CatalogNames THEN MissingNames ELSE {})

BeginRestoreRepair(c, p) ==
  /\ repair[p].status = "archived"
  /\ Unarchived(p)
  /\ Begins(c, "restore", p, None, {})

BeginArchiveVehicle(c, v) ==
  /\ v # Placeholder
  /\ CanArchiveVehicle(v)
  /\ Begins(c, "archiveV", v, None, {})

BeginArchiveService(c, s) ==
  /\ s \in Rows /\ ~Archived(s)
  /\ CanArchiveService(s)
  /\ Begins(c, "archiveS", s, None, MissingNames)

BeginRestoreService(c, s) ==
  /\ Archived(s)
  /\ Begins(c, "restoreS", s, None, MissingNames)

Taken(n, except) == n \in MissingNames \/ RowsNamed(n) \ {except} # {}

BeginCreate(c, n) ==
  /\ ~Taken(n, None)
  /\ Begins(c, "create", None, n, MissingNames)

BeginRename(c, s, n) ==
  /\ s \in Rows /\ ~Archived(s)
  /\ ~Taken(n, s)
  /\ Begins(c, "rename", s, n, MissingNames)

-----------------------------------------------------------------------------
NewRow(n, created) == [status |-> "live", name |-> n, created |-> created]

Creations(q) == q.adds \cup (IF q.op = "create" THEN {q.to} ELSE {})

(* The request's rows: what the folder lacked, the row it creates, and its  *)
(* own change.                                                              *)
ServicesAfter(q, ids) ==
  [s \in ServiceIds |->
     IF \E n \in Creations(q) : ids[n] = s
       THEN LET n == CHOOSE n \in Creations(q) : ids[n] = s IN NewRow(n, n \notin q.adds)
     ELSE IF s # q.on THEN service[s]
     ELSE [service[s] EXCEPT !.name = IF q.op = "rename" THEN q.to ELSE @,
                             !.status = IF q.op = "archiveS" THEN "archived"
                                        ELSE IF q.op = "restoreS" THEN "live" ELSE @]]

RepairAfter(q, ids) ==
  CASE q.op = "upload" -> [repair EXCEPT ![q.on] = [status |-> "live", vehicle |-> q.to, service |-> None]]
    [] q.op = "vehicle" -> [repair EXCEPT ![q.on].vehicle = q.to]
    [] q.op = "service" -> [repair EXCEPT ![q.on].service = IF q.to \in q.adds THEN ids[q.to] ELSE q.to]
    [] q.op = "restore" -> [repair EXCEPT ![q.on].status = "live"]
    [] OTHER -> repair

Changed == {p \in Repairs : repair'[p] # repair[p]}
             \cup {s \in ServiceIds : service'[s] # service[s]}
             \cup {v \in Vehicles : (v \in archivedV') # (v \in archivedV)}

BelowArchived(p) ==
  /\ repair[p].status = "live"
  /\ repair[p].vehicle \in archivedV \/ Archived(repair[p].service)

Above(p) == {p, repair[p].vehicle, repair[p].service}

(* The histories after a commit that had missed some changes: a repair that *)
(* is below something archived has escaped if what it hangs together with   *)
(* was changed behind the request's back.                                   *)
Escapes(missed) ==
  /\ escaped' = {p \in Repairs : BelowArchived(p)' /\ (p \in escaped \/ Above(p)' \cap missed # {})}
  /\ twinNames' = twinNames \cup
       {{s, t} : s \in {x \in ServiceIds : service'[x].name # service[x].name}, t \in missed \cap ServiceIds}

(* Requests in flight miss what is changed now. *)
Others(c) ==
  [d \in Clients |-> IF d = c \/ client[d] = Idle THEN Idle ELSE [client[d] EXCEPT !.missed = @ \cup Changed]]

Commit(c) ==
  LET q == client[c] IN
  /\ q # Idle
  /\ Cardinality(Creations(q)) <= Cardinality(ServiceIds \ Rows)
  /\ LET ids == CHOOSE f \in [Creations(q) -> ServiceIds \ Rows] :
                  \A m, n \in Creations(q) : m # n => f[m] # f[n]
     IN /\ service' = ServicesAfter(q, ids)
        /\ repair' = RepairAfter(q, ids)
  /\ archivedV' = archivedV \cup (IF q.op = "archiveV" THEN {q.on} ELSE {})
  /\ client' = Others(c)
  /\ Escapes(q.missed)

Abort(c) ==
  /\ client[c] # Idle
  /\ client' = [client EXCEPT ![c] = Idle]
  /\ UNCHANGED <<repair, archivedV, service, escaped, twinNames>>

-----------------------------------------------------------------------------
(* These ask nothing of other rows. *)
RestoreVehicle(v) ==
  /\ v \in archivedV
  /\ archivedV' = archivedV \ {v}
  /\ UNCHANGED <<repair, service>>
  /\ client' = Others(None)
  /\ Escapes({})

ArchiveRepair(p) ==
  /\ Operational(p)
  /\ repair' = [repair EXCEPT ![p].status = "archived"]
  /\ UNCHANGED <<archivedV, service>>
  /\ client' = Others(None)
  /\ Escapes({})

CatalogNext ==
  \/ \E c \in Clients :
       \/ \E p \in Repairs :
            \/ \E v \in Vehicles \cup {Placeholder} : BeginUpload(c, p, v)
            \/ \E v \in Vehicles : BeginLinkVehicle(c, p, v)
            \/ \E n \in Names \cup {None} : BeginAssign(c, p, n)
            \/ BeginRestoreRepair(c, p)
       \/ \E v \in Vehicles : BeginArchiveVehicle(c, v)
       \/ \E s \in ServiceIds :
            \/ BeginArchiveService(c, s)
            \/ BeginRestoreService(c, s)
            \/ \E n \in Names : BeginRename(c, s, n)
       \/ \E n \in Names : BeginCreate(c, n)
       \/ Commit(c)
       \/ Abort(c)
  \/ \E v \in Vehicles : RestoreVehicle(v)
  \/ \E p \in Repairs : ArchiveRepair(p)

CatalogSpec == CatalogInit /\ [][CatalogNext]_catalogVars

-----------------------------------------------------------------------------
Objects == Repairs \cup Vehicles \cup ServiceIds

(* The rows have the shape of Repair, Vehicle and Service. *)
CatalogTypeOK ==
  /\ repair \in [Repairs -> [status : {"none", "live", "archived"}, vehicle : Vehicles \cup {Placeholder},
                            service : ServiceIds \cup {None}]]
  /\ archivedV \subseteq Vehicles
  /\ service \in [ServiceIds -> [status : {"none", "live", "archived"}, name : Names \cup {None}, created : BOOLEAN]]
  /\ \A c \in Clients :
       /\ client[c].on \in Objects \cup {None}
       /\ client[c].to \in Vehicles \cup {Placeholder, None} \cup ServiceIds \cup Names
       /\ client[c].adds \subseteq CatalogNames
       /\ client[c].missed \subseteq Objects
  /\ escaped \subseteq Repairs
  /\ twinNames \subseteq SUBSET ServiceIds

(* A live repair hangs below an archived vehicle or service only if its row, *)
(* the vehicle's or the service's was changed between the reads and the      *)
(* commit of the request that made it so (services.py:66, vehicles.py:58,    *)
(* repairs.py:259): neither guard lets the other one's exception pile up.    *)
NoLiveBelowArchived == \A p \in Repairs : BelowArchived(p) => p \in escaped

(* Two services share a name only if one got it while the other did.         *)
NamesUnique ==
  \A s, t \in Rows : s # t /\ service[s].name = service[t].name => {s, t} \in twinNames

(* Rows keep their shape, nothing live hangs below an archived row, names are unique. *)
CatalogConsistent == CatalogTypeOK /\ NoLiveBelowArchived /\ NamesUnique
=============================================================================
