---------------------------- MODULE CatalogsProofs ----------------------------
(***************************************************************************)
(* Proofs about the catalogues a repair refers to: services and vehicles    *)
(* with what hangs below them, the cards of the fleet and their links, and   *)
(* the repairs that the import of an old workbook makes.                     *)
(***************************************************************************)
EXTENDS Fleet, Catalog, HistoricalImport, TLAPS, FiniteSetTheorems

(* There are free rows for what is new, if there are as many.                *)
LEMMA InjectionExists ==
  ASSUME NEW A, NEW B, IsFiniteSet(A), IsFiniteSet(B), Cardinality(A) <= Cardinality(B)
  PROVE  \E f \in [A -> B] : \A m, n \in A : m # n => f[m] # f[n]
PROOF
<1>1. PICK f \in Bijection(1..Cardinality(A), A) : TRUE
  BY FS_CardinalityType DEF ExistsBijection
<1>2. PICK g \in Bijection(1..Cardinality(B), B) : TRUE
  BY FS_CardinalityType DEF ExistsBijection
<1>3. Cardinality(A) \in Nat /\ Cardinality(B) \in Nat
  BY FS_CardinalityType
<1>4. \A n \in A : \E i \in 1..Cardinality(A) : f[i] = n
  BY <1>1 DEF Bijection, Surjection
<1>5. /\ g \in [1..Cardinality(B) -> B]
      /\ \A i, j \in 1..Cardinality(B) : g[i] = g[j] => i = j
  BY <1>2 DEF Bijection, Injection, IsInjective
<1> DEFINE at == [n \in A |-> CHOOSE i \in 1..Cardinality(A) : f[i] = n]
<1>6. ASSUME NEW n \in A PROVE at[n] \in 1..Cardinality(A) /\ f[at[n]] = n
  BY <1>4
<1> HIDE DEF at
<1>7. ASSUME NEW n \in A PROVE at[n] \in 1..Cardinality(B)
  BY <1>3, <1>6
<1> DEFINE h == [n \in A |-> g[at[n]]]
<1>8. h \in [A -> B] BY <1>5, <1>7
<1>9. \A m, n \in A : m # n => h[m] # h[n] BY <1>5, <1>6, <1>7
<1> QED BY <1>8, <1>9

-----------------------------------------------------------------------------
(***************************************************************************)
(* Nothing live hangs below an archived vehicle or service, and names of    *)
(* services are unique, for any number of repairs, vehicles, services and   *)
(* requests, but for what escaped and twinNames say. The invariant says     *)
(* what a request still knows when it commits: what its guard read holds,   *)
(* or the row it read was changed meanwhile and is in missed.               *)
(***************************************************************************)
Requests == [op : {"none", "upload", "vehicle", "service", "restore", "archiveV", "archiveS",
                   "restoreS", "create", "rename"},
             on : Objects \cup {None},
             to : Vehicles \cup {Placeholder, None} \cup ServiceIds \cup Names,
             adds : SUBSET CatalogNames, missed : SUBSET Objects]

(* What a request is about.                                                 *)
Formed(c) ==
  LET q == client[c] IN
  /\ q \in Requests
  /\ q.op = "upload" => q.on \in Repairs /\ q.to \in Vehicles \cup {Placeholder}
  /\ q.op = "vehicle" => q.on \in Repairs /\ q.to \in Vehicles
  /\ q.op = "service" => q.on \in Repairs /\ q.to \in ServiceIds \cup {None} \cup q.adds
  /\ q.op = "restore" => q.on \in Repairs
  /\ q.op = "archiveV" => q.on \in Vehicles
  /\ q.op \in {"archiveS", "restoreS", "rename"} => q.on \in Rows
  /\ q.op \in {"create", "rename"} => q.to \in Names \ q.adds
  /\ q.op \in {"none", "upload", "vehicle", "restore", "archiveV"} => q.adds = {}

(* The repair is not below anything archived, as far as the request saw.    *)
ServiceHolds(p, missed) ==
  p \in missed \/ repair[p].service \in missed \/ ~Archived(repair[p].service)
VehicleHolds(p, missed) ==
  p \in missed \/ repair[p].vehicle \in missed \/ repair[p].vehicle \notin archivedV

(* What it knows of what it puts a repair below, of what hangs below what   *)
(* it archives, and of the names it gives.                                  *)
KnowsTarget(c) ==
  LET q == client[c] IN
  /\ q.op \in {"upload", "vehicle"} => q.to \notin archivedV \ q.missed
  /\ q.op = "vehicle" => ServiceHolds(q.on, q.missed)
  /\ q.op = "service" => /\ VehicleHolds(q.on, q.missed)
                         /\ q.to \in ServiceIds \ q.adds => q.to \in q.missed \/ ~Archived(q.to)
  /\ q.op = "restore" => VehicleHolds(q.on, q.missed) /\ ServiceHolds(q.on, q.missed)
KnowsUnder(c) ==
  LET q == client[c] IN
  /\ q.op = "archiveV" => \A p \in Under(q.on) :
       p \in q.missed \/ repair[p].service \in q.missed \/ Archived(repair[p].service)
  /\ q.op = "archiveS" => \A p \in Under(q.on) :
       p \in q.missed \/ repair[p].vehicle \in q.missed \/ repair[p].vehicle \in archivedV
KnowsNames(c) ==
  LET q == client[c] IN
  /\ \A s \in Rows : service[s].name \in Creations(q) => s \in q.missed
  /\ q.op = "rename" => \A s \in Rows \ {q.on} : service[s].name = q.to => s \in q.missed

Knows(c) == KnowsTarget(c) /\ KnowsUnder(c) /\ KnowsNames(c)

(* Rows that are not there yet have no name.                                *)
Unnamed == \A s \in ServiceIds \ Rows : service[s].name = None

CatalogInv ==
  /\ CatalogConsistent
  /\ Unnamed
  /\ client \in [Clients -> Requests]
  /\ \A c \in Clients : Formed(c) /\ Knows(c)

-----------------------------------------------------------------------------
LEMMA CommitIds ==
  ASSUME NEW c \in Clients, Formed(c), Commit(c)
  PROVE  LET q == client[c] IN
         \E ids \in [Creations(q) -> ServiceIds \ Rows] :
           /\ \A m, n \in Creations(q) : m # n => ids[m] # ids[n]
           /\ service' = ServicesAfter(q, ids) /\ repair' = RepairAfter(q, ids)
PROOF
<1> DEFINE q == client[c]
           A == Creations(q)
           B == ServiceIds \ Rows
           Injective(f) == \A m, n \in A : m # n => f[m] # f[n]
           ids == CHOOSE f \in [A -> B] : Injective(f)
<1>1. IsFiniteSet(q.adds) /\ IsFiniteSet({q.to})
  BY CatalogAssumption, FS_Subset, FS_Singleton DEF Formed, Requests
<1>2. IsFiniteSet(q.adds \cup {q.to})
  BY <1>1, FS_Union
<1>3. IsFiniteSet(A)
  BY <1>1, <1>2 DEF Creations
<1>4. IsFiniteSet(B)
  BY CatalogAssumption, FS_Subset
<1>5. /\ Cardinality(A) <= Cardinality(B)
      /\ service' = ServicesAfter(q, ids) /\ repair' = RepairAfter(q, ids)
  BY DEF Commit
<1> HIDE DEF A, B
<1>6. \E f \in [A -> B] : Injective(f)
  BY <1>3, <1>4, <1>5, InjectionExists
<1>7. ids \in [A -> B] /\ Injective(ids)
  <2> HIDE DEF Injective
  <2> QED BY <1>6
<1> HIDE DEF ids
<1> QED BY <1>5, <1>7 DEF A, B

(* What a commit makes of the rows of services.                             *)
LEMMA ServicesEffect ==
  ASSUME CatalogTypeOK, NEW c \in Clients, Formed(c), NEW ids \in [Creations(client[c]) -> ServiceIds \ Rows],
         \A m, n \in Creations(client[c]) : m # n => ids[m] # ids[n],
         service' = ServicesAfter(client[c], ids)
  PROVE  LET q == client[c] IN
         /\ service' \in [ServiceIds -> [status : {"none", "live", "archived"}, name : Names \cup {None},
                                         created : BOOLEAN]]
         /\ \A s \in Rows :
              /\ service'[s].name = IF q.op = "rename" /\ s = q.on THEN q.to ELSE service[s].name
              /\ service'[s].status = IF q.op = "archiveS" /\ s = q.on THEN "archived"
                                      ELSE IF q.op = "restoreS" /\ s = q.on THEN "live"
                                      ELSE service[s].status
         /\ \A n \in Creations(q) : service'[ids[n]].name = n /\ service'[ids[n]].status = "live"
         /\ \A s \in ServiceIds \ Rows :
              \/ \E n \in Creations(q) : s = ids[n]
              \/ service'[s].status = "none" /\ service'[s].name = service[s].name
PROOF
<1> DEFINE q == client[c]
           row(s) == IF \E n \in Creations(q) : ids[n] = s
                       THEN LET n == CHOOSE n \in Creations(q) : ids[n] = s IN NewRow(n, n \notin q.adds)
                     ELSE IF s # q.on THEN service[s]
                     ELSE [service[s] EXCEPT !.name = IF q.op = "rename" THEN q.to ELSE @,
                             !.status = IF q.op = "archiveS" THEN "archived"
                                        ELSE IF q.op = "restoreS" THEN "live" ELSE @]
           Row == [status : {"none", "live", "archived"}, name : Names \cup {None}, created : BOOLEAN]
<1>1. service' = [s \in ServiceIds |-> row(s)]
  BY DEF ServicesAfter
<1>2. q \in Requests /\ Creations(q) \subseteq Names
  BY DEF Formed, Creations, Requests, Names
<1>3. ASSUME NEW n \in Creations(q) PROVE row(ids[n]) = NewRow(n, n \notin q.adds)
  <2> DEFINE m == CHOOSE m \in Creations(q) : ids[m] = ids[n]
  <2>1. m \in Creations(q) /\ ids[m] = ids[n] OBVIOUS
  <2>2. row(ids[n]) = NewRow(m, m \notin q.adds) BY <2>1
  <2> HIDE DEF m
  <2>3. m = n BY <2>1
  <2> QED BY <2>2, <2>3
<1>4. ASSUME NEW s \in ServiceIds, ~\E n \in Creations(q) : ids[n] = s
      PROVE  /\ row(s) \in Row
             /\ row(s).name = IF q.op = "rename" /\ s = q.on THEN q.to ELSE service[s].name
             /\ row(s).status = IF q.op = "archiveS" /\ s = q.on THEN "archived"
                                ELSE IF q.op = "restoreS" /\ s = q.on THEN "live"
                                ELSE service[s].status
  <2>1. service[s] \in Row BY DEF CatalogTypeOK
  <2>2. q.op = "rename" => q.to \in Names BY DEF Formed
  <2>3. row(s) = IF s # q.on THEN service[s]
                 ELSE [service[s] EXCEPT !.name = IF q.op = "rename" THEN q.to ELSE @,
                             !.status = IF q.op = "archiveS" THEN "archived"
                                        ELSE IF q.op = "restoreS" THEN "live" ELSE @]
    BY <1>4
  <2> HIDE DEF row
  <2> QED BY <2>1, <2>2, <2>3
<1> HIDE DEF row
<1>5. ASSUME NEW s \in Rows PROVE ~\E n \in Creations(q) : ids[n] = s
  OBVIOUS
<1>6. service' \in [ServiceIds -> Row]
  <2> SUFFICES ASSUME NEW s \in ServiceIds PROVE row(s) \in Row
    BY <1>1
  <2>1. ASSUME NEW n \in Creations(q), ids[n] = s PROVE row(s) \in Row
    <3>1. row(s) = NewRow(n, n \notin q.adds) BY <1>3, <2>1
    <3>2. n \in Names /\ (n \notin q.adds) \in BOOLEAN BY <1>2
    <3>3. \A b \in BOOLEAN : NewRow(n, b) \in Row BY <3>2 DEF NewRow
    <3> QED BY <3>1, <3>2, <3>3
  <2> QED BY <1>4, <2>1
<1>7. ASSUME NEW s \in Rows
      PROVE  /\ service'[s].name = IF q.op = "rename" /\ s = q.on THEN q.to ELSE service[s].name
             /\ service'[s].status = IF q.op = "archiveS" /\ s = q.on THEN "archived"
                                     ELSE IF q.op = "restoreS" /\ s = q.on THEN "live"
                                     ELSE service[s].status
  <2>1. s \in ServiceIds BY DEF Rows
  <2> QED BY <1>1, <1>4, <1>5, <2>1
<1>8. ASSUME NEW n \in Creations(q) PROVE service'[ids[n]].name = n /\ service'[ids[n]].status = "live"
  <2>1. ids[n] \in ServiceIds BY DEF Rows
  <2> QED BY <1>1, <1>3, <2>1 DEF NewRow
<1>9. ASSUME NEW s \in ServiceIds \ Rows, ~\E n \in Creations(q) : s = ids[n]
      PROVE  service'[s].status = "none" /\ service'[s].name = service[s].name
  <2>1. service[s].status = "none" BY DEF Rows
  <2>2. q.op \in {"archiveS", "restoreS", "rename"} => s # q.on BY DEF Formed
  <2>3. /\ service'[s].name = IF q.op = "rename" /\ s = q.on THEN q.to ELSE service[s].name
        /\ service'[s].status = IF q.op = "archiveS" /\ s = q.on THEN "archived"
                                ELSE IF q.op = "restoreS" /\ s = q.on THEN "live"
                                ELSE service[s].status
    BY <1>1, <1>4, <1>9
  <2> QED BY <2>1, <2>2, <2>3
<1> QED BY <1>6, <1>7, <1>8, <1>9

(* What it makes of the repairs.                                            *)
RepairRow == [status : {"none", "live", "archived"}, vehicle : Vehicles \cup {Placeholder},
              service : ServiceIds \cup {None}]

LEMMA RepairsEffect ==
  ASSUME CatalogTypeOK, NEW c \in Clients, Formed(c), NEW ids \in [Creations(client[c]) -> ServiceIds \ Rows],
         repair' = RepairAfter(client[c], ids)
  PROVE  LET q == client[c] IN
         /\ repair' \in [Repairs -> RepairRow]
         /\ \A p \in Repairs :
              p # q.on \/ q.op \notin {"upload", "vehicle", "service", "restore"} => repair'[p] = repair[p]
         /\ q.op = "upload" => repair'[q.on].vehicle = q.to /\ repair'[q.on].service = None
         /\ q.op = "vehicle" => /\ repair'[q.on].status = repair[q.on].status
                                /\ repair'[q.on].vehicle = q.to
                                /\ repair'[q.on].service = repair[q.on].service
         /\ q.op = "service" => /\ repair'[q.on].status = repair[q.on].status
                                /\ repair'[q.on].vehicle = repair[q.on].vehicle
                                /\ repair'[q.on].service = IF q.to \in q.adds THEN ids[q.to] ELSE q.to
         /\ q.op = "restore" => /\ repair'[q.on].vehicle = repair[q.on].vehicle
                                /\ repair'[q.on].service = repair[q.on].service
PROOF
<1> DEFINE q == client[c]
<1>1. repair \in [Repairs -> RepairRow] BY DEF CatalogTypeOK, RepairRow
<1>2. CASE q.op = "upload"
  <2>1. q.on \in Repairs /\ q.to \in Vehicles \cup {Placeholder} BY <1>2 DEF Formed
  <2>2. repair' = [repair EXCEPT ![q.on] = [status |-> "live", vehicle |-> q.to, service |-> None]]
    BY <1>2 DEF RepairAfter
  <2> QED BY <1>1, <1>2, <2>1, <2>2 DEF RepairRow
<1>3. CASE q.op = "vehicle"
  <2>1. q.on \in Repairs /\ q.to \in Vehicles BY <1>3 DEF Formed
  <2>2. repair' = [repair EXCEPT ![q.on].vehicle = q.to] BY <1>3 DEF RepairAfter
  <2> QED BY <1>1, <1>3, <2>1, <2>2 DEF RepairRow
<1>4. CASE q.op = "service"
  <2> DEFINE s == IF q.to \in q.adds THEN ids[q.to] ELSE q.to
  <2>1. q.on \in Repairs /\ q.to \in ServiceIds \cup {None} \cup q.adds BY <1>4 DEF Formed
  <2>2. repair' = [repair EXCEPT ![q.on].service = s] BY <1>4 DEF RepairAfter
  <2>3. s \in ServiceIds \cup {None} BY <2>1 DEF Creations
  <2> HIDE DEF s
  <2>4. /\ repair' \in [Repairs -> RepairRow]
        /\ \A p \in Repairs : p # q.on => repair'[p] = repair[p]
        /\ repair'[q.on].status = repair[q.on].status
        /\ repair'[q.on].vehicle = repair[q.on].vehicle
        /\ repair'[q.on].service = s
    BY <1>1, <2>1, <2>2, <2>3 DEF RepairRow
  <2> QED BY <1>4, <2>4 DEF s
<1>5. CASE q.op = "restore"
  <2>1. q.on \in Repairs BY <1>5 DEF Formed
  <2>2. repair' = [repair EXCEPT ![q.on].status = "live"] BY <1>5 DEF RepairAfter
  <2> QED BY <1>1, <1>5, <2>1, <2>2 DEF RepairRow
<1>6. CASE q.op \notin {"upload", "vehicle", "service", "restore"}
  BY <1>1, <1>6 DEF RepairAfter
<1> QED BY <1>2, <1>3, <1>4, <1>5, <1>6

-----------------------------------------------------------------------------
(* What a request knows, it knows or finds in missed after any step of      *)
(* another one.                                                             *)
LEMMA KeepsKnowing ==
  ASSUME CatalogTypeOK, archivedV' \subseteq Vehicles, repair' \in [Repairs -> RepairRow],
         Rows \subseteq Rows', NEW d \in Clients, Formed(d), Knows(d),
         client'[d] = [client[d] EXCEPT !.missed = @ \cup Changed]
  PROVE  Formed(d)' /\ Knows(d)'
PROOF
<1> DEFINE q == client[d]
           r == client'[d]
<1>1. /\ \A p \in Repairs \ Changed : repair'[p] = repair[p]
      /\ \A s \in ServiceIds \ Changed : service'[s] = service[s]
      /\ \A v \in Vehicles \ Changed : v \in archivedV' <=> v \in archivedV
      /\ Changed \subseteq Objects
  BY DEF Changed, Objects
<1>2. /\ r \in Requests /\ r.op = q.op /\ r.on = q.on /\ r.to = q.to /\ r.adds = q.adds
      /\ r.missed = q.missed \cup Changed
  BY <1>1 DEF Formed, Requests
<1>3. Creations(r) = Creations(q) BY <1>2 DEF Creations
<1>4. repair \in [Repairs -> RepairRow] /\ archivedV \subseteq Vehicles BY DEF CatalogTypeOK, RepairRow
<1>5. ASSUME NEW v \in Vehicles \cup {Placeholder}, v \notin Changed
      PROVE  v \in archivedV' <=> v \in archivedV
  BY <1>1, <1>4, <1>5, CatalogAssumption
<1>6. ASSUME NEW s \in ServiceIds \cup {None}, s \notin Changed
      PROVE  Archived(s)' <=> Archived(s)
  BY <1>1, <1>6 DEF Archived
<1>7. ASSUME NEW p \in Repairs, p \notin Changed
      PROVE  /\ repair'[p] = repair[p] /\ repair[p].vehicle \in Vehicles \cup {Placeholder}
             /\ repair[p].service \in ServiceIds \cup {None}
  BY <1>1, <1>4, <1>7 DEF RepairRow
<1> HIDE DEF q, r
<1>8. Formed(d)'
  BY <1>2 DEF Formed, q, r
<1>9. ASSUME NEW p \in Repairs, NEW M, M = q.missed \cup Changed
      PROVE  /\ ServiceHolds(p, q.missed) => ServiceHolds(p, M)'
             /\ VehicleHolds(p, q.missed) => VehicleHolds(p, M)'
  BY <1>5, <1>6, <1>7, <1>9 DEF ServiceHolds, VehicleHolds, Archived
<1>10. PICK M : M = q.missed \cup Changed OBVIOUS
<1>11. KnowsTarget(d)'
  <2>1. CASE q.op = "upload"
    <3>1. q.to \in Vehicles \cup {Placeholder} BY <2>1 DEF Formed, q
    <3>2. q.to \notin archivedV \ q.missed BY <2>1 DEF Knows, KnowsTarget, q
    <3>3. r.to \notin archivedV' \ r.missed BY <1>2, <1>5, <3>1, <3>2
    <3> QED BY <1>2, <2>1, <3>3 DEF KnowsTarget, r
  <2>2. CASE q.op = "vehicle"
    <3>1. PICK p \in Repairs : p = q.on BY <2>2 DEF Formed, q
    <3>2. q.to \in Vehicles BY <2>2 DEF Formed, q
    <3>3. q.to \notin archivedV \ q.missed /\ ServiceHolds(p, q.missed)
      BY <2>2, <3>1 DEF Knows, KnowsTarget, q
    <3>4. r.to \notin archivedV' \ r.missed BY <1>2, <1>5, <3>2, <3>3
    <3>5. ServiceHolds(p, M)' BY <1>9, <1>10, <3>3
    <3>6. client'[d].on = p /\ client'[d].missed = M BY <1>2, <1>10, <3>1 DEF r
    <3>7. ServiceHolds(client[d].on, client[d].missed)' BY <3>5, <3>6 DEF ServiceHolds, Archived
    <3> QED BY <1>2, <2>2, <3>4, <3>7 DEF KnowsTarget, r
  <2>3. CASE q.op = "service"
    <3>1. PICK p \in Repairs : p = q.on BY <2>3 DEF Formed, q
    <3>2. /\ VehicleHolds(p, q.missed)
          /\ q.to \in ServiceIds \ q.adds => q.to \in q.missed \/ ~Archived(q.to)
      BY <2>3, <3>1 DEF Knows, KnowsTarget, q
    <3>3. VehicleHolds(p, M)' BY <1>9, <1>10, <3>2
    <3>4. client'[d].on = p /\ client'[d].missed = M BY <1>2, <1>10, <3>1 DEF r
    <3>5. VehicleHolds(client[d].on, client[d].missed)' BY <3>3, <3>4 DEF VehicleHolds
    <3>6. ASSUME r.to \in ServiceIds \ r.adds PROVE r.to \in r.missed \/ ~Archived(client[d].to)'
      <4>1. PICK s \in ServiceIds : s = q.to /\ s = client'[d].to BY <1>2, <3>6 DEF r
      <4>2. s \in Changed \/ (Archived(s)' <=> Archived(s)) BY <1>6
      <4>3. s \in q.missed \/ ~Archived(s) BY <1>2, <3>2, <3>6, <4>1
      <4> QED BY <1>2, <4>1, <4>2, <4>3 DEF Archived
    <3> QED BY <1>2, <2>3, <3>5, <3>6 DEF KnowsTarget, r
  <2>4. CASE q.op = "restore"
    <3>1. PICK p \in Repairs : p = q.on BY <2>4 DEF Formed, q
    <3>2. VehicleHolds(p, q.missed) /\ ServiceHolds(p, q.missed)
      BY <2>4, <3>1 DEF Knows, KnowsTarget, q
    <3>3. VehicleHolds(p, M)' /\ ServiceHolds(p, M)' BY <1>9, <1>10, <3>2
    <3>4. client'[d].on = p /\ client'[d].missed = M BY <1>2, <1>10, <3>1 DEF r
    <3>5. /\ VehicleHolds(client[d].on, client[d].missed)'
          /\ ServiceHolds(client[d].on, client[d].missed)'
      BY <3>3, <3>4 DEF VehicleHolds, ServiceHolds, Archived
    <3> QED BY <1>2, <2>4, <3>5 DEF KnowsTarget, r
  <2>5. CASE q.op \notin {"upload", "vehicle", "service", "restore"}
    BY <1>2, <2>5 DEF KnowsTarget, r
  <2> QED BY <2>1, <2>2, <2>3, <2>4, <2>5
<1>12. KnowsUnder(d)'
  <2>1. ASSUME NEW x, NEW p \in Repairs, (p \in Under(x))', p \notin Changed
        PROVE  p \in Under(x) /\ repair'[p] = repair[p]
    BY <1>7, <2>1 DEF Under
  <2>2. PICK x : x = q.on OBVIOUS
  <2>3. client'[d].on = x BY <1>2, <2>2 DEF r
  <2>4. ASSUME q.op = "archiveV", NEW p \in Repairs, (p \in Under(x))'
        PROVE  p \in M \/ repair'[p].service \in M \/ Archived(repair[p].service)'
    <3>1. CASE p \in Changed BY <1>10, <3>1
    <3>2. CASE p \notin Changed
      <4>1. p \in Under(x) BY <2>1, <2>4, <3>2
      <4>2. p \in q.missed \/ repair[p].service \in q.missed \/ Archived(repair[p].service)
        BY <2>2, <2>4, <4>1 DEF Knows, KnowsUnder, q
      <4> QED BY <1>6, <1>7, <1>10, <3>2, <4>2 DEF Archived
    <3> QED BY <3>1, <3>2
  <2>5. ASSUME q.op = "archiveS", NEW p \in Repairs, (p \in Under(x))'
        PROVE  p \in M \/ repair'[p].vehicle \in M \/ repair'[p].vehicle \in archivedV'
    <3>1. CASE p \in Changed BY <1>10, <3>1
    <3>2. CASE p \notin Changed
      <4>1. p \in Under(x) BY <2>1, <2>5, <3>2
      <4>2. p \in q.missed \/ repair[p].vehicle \in q.missed \/ repair[p].vehicle \in archivedV
        BY <2>2, <2>5, <4>1 DEF Knows, KnowsUnder, q
      <4> QED BY <1>5, <1>7, <1>10, <3>2, <4>2
    <3> QED BY <3>1, <3>2
  <2>6. client'[d].op = q.op /\ client'[d].missed = M BY <1>2, <1>10 DEF r
  <2> QED BY <2>3, <2>4, <2>5, <2>6 DEF KnowsUnder, Under, Archived
<1>13. KnowsNames(d)'
  <2>1. ASSUME NEW s \in ServiceIds, (s \in Rows)', s \notin Changed
        PROVE  s \in Rows /\ service'[s] = service[s]
    BY <1>1, <2>1 DEF Rows
  <2>2. ASSUME NEW s \in ServiceIds, (s \in Rows)', service'[s].name \in Creations(q)
        PROVE  s \in r.missed
    BY <1>2, <2>1, <2>2 DEF Knows, KnowsNames, q
  <2>3. ASSUME q.op = "rename", NEW s \in ServiceIds, (s \in Rows)', s # q.on, service'[s].name = q.to
        PROVE  s \in r.missed
    BY <1>2, <2>1, <2>3 DEF Knows, KnowsNames, q
  <2>4. \A s : (s \in Rows)' => s \in ServiceIds BY DEF Rows
  <2>5. Creations(client[d])' = Creations(q) BY <1>3 DEF r, Creations
  <2> QED BY <1>2, <2>2, <2>3, <2>4, <2>5 DEF KnowsNames, r
<1> QED BY <1>8, <1>11, <1>12, <1>13 DEF Knows

-----------------------------------------------------------------------------
LEMMA CatalogInitHolds ==
  CatalogInit => CatalogInv
PROOF
<1> SUFFICES ASSUME CatalogInit PROVE CatalogInv OBVIOUS
<1> USE DEF CatalogInit
<1>1. CatalogTypeOK BY DEF CatalogTypeOK, NoRepair, NoService, Idle
<1>2. NoLiveBelowArchived BY DEF NoLiveBelowArchived, BelowArchived, NoRepair
<1>3. NamesUnique BY DEF NamesUnique, Rows, NoService
<1>4. ASSUME NEW c \in Clients PROVE Formed(c) /\ Knows(c)
  <2>1. client[c] = Idle OBVIOUS
  <2>2. Rows = {} BY DEF Rows, NoService
  <2>3. Formed(c) BY <2>1 DEF Formed, Requests, Idle
  <2>4. Knows(c) BY <2>1, <2>2 DEF Knows, KnowsTarget, KnowsUnder, KnowsNames, Idle
  <2> QED BY <2>3, <2>4
<1>5. client \in [Clients -> Requests] BY DEF Requests, Idle
<1>6. Unnamed BY DEF Unnamed, NoService
<1> QED BY <1>1, <1>2, <1>3, <1>4, <1>5, <1>6 DEF CatalogInv, CatalogConsistent

(* A request that is idle knows all there is to know.                       *)
LEMMA IdleKnows ==
  ASSUME NEW d \in Clients, client'[d] = Idle
  PROVE  Formed(d)' /\ Knows(d)'
PROOF
<1>1. Formed(d)' BY DEF Formed, Requests, Idle
<1>2. Creations(client[d])' = {} BY DEF Creations, Idle
<1>3. KnowsTarget(d)' /\ KnowsUnder(d)' BY DEF KnowsTarget, KnowsUnder, Idle
<1>4. KnowsNames(d)'
  <2>1. client'[d].op = "none" BY DEF Idle
  <2> QED BY <1>2, <2>1 DEF KnowsNames
<1> QED BY <1>1, <1>3, <1>4 DEF Knows

(* Steps that change only what a request holds.                             *)
LEMMA OnlyRequests ==
  ASSUME CatalogInv, NEW c \in Clients, NEW q, client' = [client EXCEPT ![c] = q],
         UNCHANGED <<repair, archivedV, service, escaped, twinNames>>, Formed(c)', Knows(c)'
  PROVE  CatalogInv'
PROOF
<1>1. CatalogTypeOK BY DEF CatalogInv, CatalogConsistent
<1>2. ASSUME NEW d \in Clients PROVE Formed(d)' /\ Knows(d)'
  <2>1. CASE d = c BY <2>1
  <2>2. CASE d # c
    <3>1. client'[d] = client[d] BY <2>2 DEF CatalogInv
    <3>2. Formed(d) /\ Knows(d) BY DEF CatalogInv
    <3>3. Formed(d)' BY <3>1, <3>2 DEF Formed, Rows
    <3>4. KnowsTarget(d)'
      BY <3>1, <3>2 DEF Knows, KnowsTarget, ServiceHolds, VehicleHolds, Archived
    <3>5. KnowsUnder(d)' BY <3>1, <3>2 DEF Knows, KnowsUnder, Under, Archived
    <3>6. KnowsNames(d)' BY <3>1, <3>2 DEF Knows, KnowsNames, Creations, Rows
    <3> QED BY <3>3, <3>4, <3>5, <3>6 DEF Knows
  <2> QED BY <2>1, <2>2
<1>3. CatalogTypeOK'
  <2>1. ASSUME NEW d \in Clients
        PROVE  /\ client'[d].on \in Objects \cup {None}
               /\ client'[d].to \in Vehicles \cup {Placeholder, None} \cup ServiceIds \cup Names
               /\ client'[d].adds \subseteq CatalogNames
               /\ client'[d].missed \subseteq Objects
    BY <1>2 DEF Formed, Requests
  <2> QED BY <1>1, <2>1 DEF CatalogTypeOK
<1>4. NoLiveBelowArchived' /\ NamesUnique'
  BY DEF CatalogInv, CatalogConsistent, NoLiveBelowArchived, BelowArchived, Archived, NamesUnique, Rows
<1>5. client' \in [Clients -> Requests]
  <2>1. client \in [Clients -> Requests] BY DEF CatalogInv
  <2>2. client'[c] = q BY <2>1
  <2>3. q \in Requests BY <1>2, <2>2 DEF Formed
  <2> QED BY <2>1, <2>3
<1>6. Unnamed' BY DEF CatalogInv, Unnamed, Rows
<1> QED BY <1>2, <1>3, <1>4, <1>5, <1>6 DEF CatalogInv, CatalogConsistent

LEMMA BeginsKeep ==
  ASSUME CatalogInv, NEW c \in Clients, NEW op, NEW on, NEW to, NEW adds, Begins(c, op, on, to, adds),
         Formed(c)', Knows(c)'
  PROVE  CatalogInv'
PROOF
<1>1. client' = [client EXCEPT ![c] = [op |-> op, on |-> on, to |-> to, adds |-> adds, missed |-> {}]]
  BY DEF Begins
<1> QED BY <1>1, OnlyRequests DEF Begins

(* The guards: what each request knows as it begins.                        *)
LEMMA BeginStep ==
  ASSUME CatalogInv, NEW c \in Clients,
         \/ \E p \in Repairs :
              \/ \E v \in Vehicles \cup {Placeholder} : BeginUpload(c, p, v)
              \/ \E v \in Vehicles : BeginLinkVehicle(c, p, v)
              \/ \E n \in Names \cup {None} : BeginAssign(c, p, n)
              \/ BeginRestoreRepair(c, p)
         \/ \E v \in Vehicles : BeginArchiveVehicle(c, v)
         \/ \E s \in ServiceIds :
              \/ BeginArchiveService(c, s)
              \/ BeginRestoreService(c, s)
              \/ \E n \in Names : BeginRename(c, s, n)
         \/ \E n \in Names : BeginCreate(c, n)
  PROVE  CatalogInv'
PROOF
<1>1. CatalogTypeOK /\ client \in [Clients -> Requests] BY DEF CatalogInv, CatalogConsistent
<1>2. ASSUME NEW op, NEW on, NEW to, NEW adds, Begins(c, op, on, to, adds)
      PROVE  /\ client'[c] = [op |-> op, on |-> on, to |-> to, adds |-> adds, missed |-> {}]
             /\ UNCHANGED <<repair, archivedV, service>>
  BY <1>1, <1>2 DEF Begins
<1>3. MissingNames \subseteq CatalogNames /\ Rows \subseteq ServiceIds
  BY DEF MissingNames, Rows
<1>4. ASSUME NEW s \in Rows PROVE service[s].name \notin MissingNames
  BY DEF MissingNames
<1>5. ASSUME NEW p \in Repairs, NEW v \in Vehicles \cup {Placeholder}, BeginUpload(c, p, v) PROVE CatalogInv'
  <2>1. Begins(c, "upload", p, v, {}) BY <1>5 DEF BeginUpload
  <2>2. /\ client'[c] = [op |-> "upload", on |-> p, to |-> v, adds |-> {}, missed |-> {}]
        /\ UNCHANGED <<repair, archivedV, service>>
    BY <1>2, <2>1
  <2>3. Formed(c)' BY <2>2 DEF Formed, Requests, Objects
  <2>4. KnowsTarget(c)' BY <1>5, <2>2 DEF BeginUpload, KnowsTarget
  <2>5. KnowsUnder(c)' BY <2>2 DEF KnowsUnder
  <2>6. KnowsNames(c)' BY <2>2 DEF KnowsNames, Creations
  <2> QED BY <2>1, <2>3, <2>4, <2>5, <2>6, BeginsKeep DEF Knows
<1>6. ASSUME NEW p \in Repairs, NEW v \in Vehicles, BeginLinkVehicle(c, p, v) PROVE CatalogInv'
  <2>1. Begins(c, "vehicle", p, v, {}) BY <1>6 DEF BeginLinkVehicle
  <2>2. /\ client'[c] = [op |-> "vehicle", on |-> p, to |-> v, adds |-> {}, missed |-> {}]
        /\ UNCHANGED <<repair, archivedV, service>>
    BY <1>2, <2>1
  <2>3. Formed(c)' BY <2>2 DEF Formed, Requests, Objects
  <2>4. KnowsTarget(c)'
    BY <1>6, <2>2 DEF BeginLinkVehicle, Operational, Unarchived, KnowsTarget, ServiceHolds, Archived
  <2>5. KnowsUnder(c)' BY <2>2 DEF KnowsUnder
  <2>6. KnowsNames(c)' BY <2>2 DEF KnowsNames, Creations
  <2> QED BY <2>1, <2>3, <2>4, <2>5, <2>6, BeginsKeep DEF Knows
<1>7. ASSUME NEW p \in Repairs, NEW n \in Names \cup {None}, BeginAssign(c, p, n) PROVE CatalogInv'
  <2>1. ASSUME NEW to \in ServiceIds \cup {None} \cup CatalogNames, NEW adds \in SUBSET MissingNames,
               Begins(c, "service", p, to, adds), to \in ServiceIds \cup {None} \cup adds,
               to \in ServiceIds \ adds => ~Archived(to)
        PROVE  CatalogInv'
    <3>1. /\ client'[c] = [op |-> "service", on |-> p, to |-> to, adds |-> adds, missed |-> {}]
          /\ UNCHANGED <<repair, archivedV, service>>
      BY <1>2, <2>1
    <3>2. Formed(c)' BY <1>3, <2>1, <3>1 DEF Formed, Requests, Objects, Names
    <3>3. KnowsTarget(c)'
      BY <1>7, <2>1, <3>1 DEF BeginAssign, Operational, Unarchived, KnowsTarget, VehicleHolds, Archived
    <3>4. KnowsUnder(c)' BY <3>1 DEF KnowsUnder
    <3>5. KnowsNames(c)' BY <1>4, <3>1 DEF KnowsNames, Creations, Rows
    <3> QED BY <2>1, <3>2, <3>3, <3>4, <3>5, BeginsKeep DEF Knows
  <2>2. CASE Begins(c, "service", p, None, {})
    BY <2>1, <2>2, CatalogAssumption
  <2>3. CASE n \in MissingNames /\ Begins(c, "service", p, n, MissingNames)
    BY <1>3, <2>1, <2>3
  <2>4. ASSUME NEW s \in Resolved(n), Begins(c, "service", p, s, IF n \in CatalogNames THEN MissingNames ELSE {})
        PROVE CatalogInv'
    <3>1. s \in ServiceIds /\ ~Archived(s) BY DEF Resolved, RowsNamed, Rows
    <3> QED BY <2>1, <2>4, <3>1
  <2> QED BY <1>7, <2>2, <2>3, <2>4 DEF BeginAssign
<1>8. ASSUME NEW p \in Repairs, BeginRestoreRepair(c, p) PROVE CatalogInv'
  <2>1. Begins(c, "restore", p, None, {}) BY <1>8 DEF BeginRestoreRepair
  <2>2. /\ client'[c] = [op |-> "restore", on |-> p, to |-> None, adds |-> {}, missed |-> {}]
        /\ UNCHANGED <<repair, archivedV, service>>
    BY <1>2, <2>1
  <2>3. Formed(c)' BY <2>2 DEF Formed, Requests, Objects
  <2>4. KnowsTarget(c)'
    BY <1>8, <2>2 DEF BeginRestoreRepair, Unarchived, KnowsTarget, ServiceHolds, VehicleHolds, Archived
  <2>5. KnowsUnder(c)' BY <2>2 DEF KnowsUnder
  <2>6. KnowsNames(c)' BY <2>2 DEF KnowsNames, Creations
  <2> QED BY <2>1, <2>3, <2>4, <2>5, <2>6, BeginsKeep DEF Knows
<1>9. ASSUME NEW v \in Vehicles, BeginArchiveVehicle(c, v) PROVE CatalogInv'
  <2>1. Begins(c, "archiveV", v, None, {}) BY <1>9 DEF BeginArchiveVehicle
  <2>2. /\ client'[c] = [op |-> "archiveV", on |-> v, to |-> None, adds |-> {}, missed |-> {}]
        /\ UNCHANGED <<repair, archivedV, service>>
    BY <1>2, <2>1
  <2>3. Formed(c)' BY <2>2 DEF Formed, Requests, Objects
  <2>4. KnowsTarget(c)' BY <2>2 DEF KnowsTarget
  <2>5. KnowsUnder(c)'
    BY <1>9, <2>2 DEF BeginArchiveVehicle, CanArchiveVehicle, KnowsUnder, Under, Archived
  <2>6. KnowsNames(c)' BY <2>2 DEF KnowsNames, Creations
  <2> QED BY <2>1, <2>3, <2>4, <2>5, <2>6, BeginsKeep DEF Knows
<1>10. ASSUME NEW s \in ServiceIds, BeginArchiveService(c, s) PROVE CatalogInv'
  <2>1. Begins(c, "archiveS", s, None, MissingNames) BY <1>10 DEF BeginArchiveService
  <2>2. /\ client'[c] = [op |-> "archiveS", on |-> s, to |-> None, adds |-> MissingNames, missed |-> {}]
        /\ UNCHANGED <<repair, archivedV, service>>
    BY <1>2, <2>1
  <2>3. Formed(c)'
    BY <1>3, <1>10, <2>2 DEF BeginArchiveService, Formed, Requests, Objects, Rows
  <2>4. KnowsTarget(c)' BY <2>2 DEF KnowsTarget
  <2>5. KnowsUnder(c)'
    BY <1>10, <2>2 DEF BeginArchiveService, CanArchiveService, KnowsUnder, Under
  <2>6. KnowsNames(c)' BY <1>4, <2>2 DEF KnowsNames, Creations, Rows
  <2> QED BY <2>1, <2>3, <2>4, <2>5, <2>6, BeginsKeep DEF Knows
<1>11. ASSUME NEW s \in ServiceIds, BeginRestoreService(c, s) PROVE CatalogInv'
  <2>1. Begins(c, "restoreS", s, None, MissingNames) BY <1>11 DEF BeginRestoreService
  <2>2. /\ client'[c] = [op |-> "restoreS", on |-> s, to |-> None, adds |-> MissingNames, missed |-> {}]
        /\ UNCHANGED <<repair, archivedV, service>>
    BY <1>2, <2>1
  <2>3. Formed(c)'
    BY <1>3, <1>11, <2>2 DEF BeginRestoreService, Archived, Formed, Requests, Objects, Rows
  <2>4. KnowsTarget(c)' BY <2>2 DEF KnowsTarget
  <2>5. KnowsUnder(c)' BY <2>2 DEF KnowsUnder
  <2>6. KnowsNames(c)' BY <1>4, <2>2 DEF KnowsNames, Creations, Rows
  <2> QED BY <2>1, <2>3, <2>4, <2>5, <2>6, BeginsKeep DEF Knows
<1>12. ASSUME NEW s \in ServiceIds, NEW n \in Names, BeginRename(c, s, n) PROVE CatalogInv'
  <2>1. Begins(c, "rename", s, n, MissingNames) BY <1>12 DEF BeginRename
  <2>2. /\ client'[c] = [op |-> "rename", on |-> s, to |-> n, adds |-> MissingNames, missed |-> {}]
        /\ UNCHANGED <<repair, archivedV, service>>
    BY <1>2, <2>1
  <2>3. s \in Rows /\ n \notin MissingNames /\ \A t \in Rows \ {s} : service[t].name # n
    BY <1>12 DEF BeginRename, Taken, RowsNamed
  <2>4. Formed(c)' BY <1>3, <2>2, <2>3 DEF Formed, Requests, Objects, Rows
  <2>5. KnowsTarget(c)' BY <2>2 DEF KnowsTarget
  <2>6. KnowsUnder(c)' BY <2>2 DEF KnowsUnder
  <2>7. KnowsNames(c)' BY <1>4, <2>2, <2>3 DEF KnowsNames, Creations, Rows
  <2> QED BY <2>1, <2>4, <2>5, <2>6, <2>7, BeginsKeep DEF Knows
<1>13. ASSUME NEW n \in Names, BeginCreate(c, n) PROVE CatalogInv'
  <2>1. Begins(c, "create", None, n, MissingNames) BY <1>13 DEF BeginCreate
  <2>2. /\ client'[c] = [op |-> "create", on |-> None, to |-> n, adds |-> MissingNames, missed |-> {}]
        /\ UNCHANGED <<repair, archivedV, service>>
    BY <1>2, <2>1
  <2>3. n \notin MissingNames /\ \A t \in Rows : service[t].name # n
    BY <1>3, <1>13, CatalogAssumption DEF BeginCreate, Taken, RowsNamed
  <2>4. Formed(c)' BY <1>3, <2>2, <2>3 DEF Formed, Requests, Objects
  <2>5. KnowsTarget(c)' BY <2>2 DEF KnowsTarget
  <2>6. KnowsUnder(c)' BY <2>2 DEF KnowsUnder
  <2>7. KnowsNames(c)' BY <1>4, <2>2, <2>3 DEF KnowsNames, Creations, Rows
  <2> QED BY <2>1, <2>4, <2>5, <2>6, <2>7, BeginsKeep DEF Knows
<1> QED BY <1>5, <1>6, <1>7, <1>8, <1>9, <1>10, <1>11, <1>12, <1>13

-----------------------------------------------------------------------------
(* What a commit owes to the invariant: what it puts below something        *)
(* archived and the names it gives twice, it had missed.                    *)
ServiceRow == [status : {"none", "live", "archived"}, name : Names \cup {None}, created : BOOLEAN]

LEMMA Committed ==
  ASSUME CatalogInv, NEW e, client' = Others(e), NEW missed \in SUBSET Objects, Escapes(missed),
         repair' \in [Repairs -> RepairRow], archivedV' \subseteq Vehicles,
         service' \in [ServiceIds -> ServiceRow], Rows \subseteq Rows', Unnamed',
         \A p \in Repairs : BelowArchived(p)' => BelowArchived(p) \/ Above(p)' \cap missed # {},
         \A s, t \in ServiceIds :
           (s \in Rows)' /\ (t \in Rows)' /\ s # t /\ service'[s].name = service'[t].name =>
             \/ s \in Rows /\ t \in Rows /\ service[s].name = service[t].name
             \/ service'[s].name # service[s].name /\ t \in missed
             \/ service'[t].name # service[t].name /\ s \in missed
  PROVE  CatalogInv'
PROOF
<1>1. CatalogTypeOK /\ NoLiveBelowArchived /\ NamesUnique /\ client \in [Clients -> Requests]
  BY DEF CatalogInv, CatalogConsistent
<1>2. ASSUME NEW d \in Clients PROVE Formed(d)' /\ Knows(d)'
  <2>1. CASE d = e \/ client[d] = Idle
    <3>1. client'[d] = Idle BY <2>1 DEF Others
    <3> QED BY <3>1, IdleKnows
  <2>2. CASE ~(d = e \/ client[d] = Idle)
    <3>1. client'[d] = [client[d] EXCEPT !.missed = @ \cup Changed] BY <2>2 DEF Others
    <3>2. Formed(d) /\ Knows(d) BY DEF CatalogInv
    <3> QED BY <1>1, <3>1, <3>2, KeepsKnowing
  <2> QED BY <2>1, <2>2
<1>3. client' \in [Clients -> Requests]
  <2>1. client' = [d \in Clients |-> client'[d]] BY DEF Others
  <2>2. \A d \in Clients : client'[d] \in Requests BY <1>2 DEF Formed
  <2> QED BY <2>1, <2>2
<1>4. CatalogTypeOK'
  <2>1. ASSUME NEW d \in Clients
        PROVE  /\ client'[d].on \in Objects \cup {None}
               /\ client'[d].to \in Vehicles \cup {Placeholder, None} \cup ServiceIds \cup Names
               /\ client'[d].adds \subseteq CatalogNames
               /\ client'[d].missed \subseteq Objects
    BY <1>2 DEF Formed, Requests
  <2>2. escaped' \subseteq Repairs BY DEF Escapes
  <2>3. twinNames' \subseteq SUBSET ServiceIds BY <1>1 DEF Escapes, CatalogTypeOK
  <2> QED BY <2>1, <2>2, <2>3 DEF CatalogTypeOK, RepairRow, ServiceRow
<1>5. NoLiveBelowArchived'
  <2> SUFFICES ASSUME NEW p \in Repairs, BelowArchived(p)' PROVE p \in escaped'
    BY DEF NoLiveBelowArchived
  <2>1. p \in escaped \/ Above(p)' \cap missed # {} BY <1>1 DEF NoLiveBelowArchived
  <2> QED BY <2>1 DEF Escapes
<1>6. NamesUnique'
  <2> SUFFICES ASSUME NEW s \in Rows', NEW t \in Rows', s # t, service'[s].name = service'[t].name
               PROVE  {s, t} \in twinNames'
    BY DEF NamesUnique
  <2>1. s \in ServiceIds /\ t \in ServiceIds BY DEF Rows
  <2>2. CASE s \in Rows /\ t \in Rows /\ service[s].name = service[t].name
    BY <1>1, <2>2 DEF NamesUnique, Escapes
  <2>3. CASE service'[s].name # service[s].name /\ t \in missed
    BY <2>1, <2>3 DEF Escapes
  <2>4. CASE service'[t].name # service[t].name /\ s \in missed
    <3>1. {t, s} \in twinNames' BY <2>1, <2>4 DEF Escapes
    <3>2. {t, s} = {s, t} OBVIOUS
    <3> QED BY <3>1, <3>2
  <2> QED BY <2>1, <2>2, <2>3, <2>4
<1> QED BY <1>2, <1>3, <1>4, <1>5, <1>6 DEF CatalogInv, CatalogConsistent

LEMMA CommitNames ==
  ASSUME CatalogTypeOK, Unnamed, NEW c \in Clients, Formed(c), Knows(c),
         NEW ids \in [Creations(client[c]) -> ServiceIds \ Rows],
         \A m, n \in Creations(client[c]) : m # n => ids[m] # ids[n],
         service' = ServicesAfter(client[c], ids),
         NEW s \in ServiceIds, NEW t \in ServiceIds, (s \in Rows)', (t \in Rows)', s # t,
         service'[s].name = service'[t].name
  PROVE  \/ s \in Rows /\ t \in Rows /\ service[s].name = service[t].name
         \/ service'[s].name # service[s].name /\ t \in client[c].missed
         \/ service'[t].name # service[t].name /\ s \in client[c].missed
PROOF
<1> DEFINE q == client[c]
<1>1. /\ \A x \in Rows : service'[x].name = IF q.op = "rename" /\ x = q.on THEN q.to ELSE service[x].name
      /\ \A n \in Creations(q) : service'[ids[n]].name = n
      /\ \A x \in ServiceIds \ Rows : (\E n \in Creations(q) : x = ids[n]) \/ service'[x].status = "none"
  BY ServicesEffect
<1>2. /\ \A x \in Rows : service[x].name \in Creations(q) => x \in q.missed
      /\ q.op = "rename" => \A x \in Rows \ {q.on} : service[x].name = q.to => x \in q.missed
  BY DEF Knows, KnowsNames
<1>3. /\ Creations(q) \subseteq Names
      /\ q.op = "rename" => q.to \notin Creations(q)
  BY DEF Formed, Creations, Requests, Names
<1>4. service'[s].status # "none" /\ service'[t].status # "none" BY DEF Rows
<1>5. ASSUME NEW x \in ServiceIds \ Rows, service'[x].status # "none"
      PROVE  \E n \in Creations(q) : x = ids[n] /\ service'[x].name = n /\ service'[x].name # service[x].name
  <2>1. PICK n \in Creations(q) : x = ids[n] BY <1>1, <1>5
  <2>2. service[x].name = None BY DEF Unnamed
  <2>3. n # None BY <1>3, CatalogAssumption
  <2> QED BY <1>1, <2>1, <2>2, <2>3
<1>6. ASSUME NEW x \in ServiceIds \ Rows, service'[x].status # "none", NEW y \in Rows,
             service'[x].name = service'[y].name
      PROVE  service'[x].name # service[x].name /\ y \in q.missed
  <2>1. PICK n \in Creations(q) : x = ids[n] /\ service'[x].name = n /\ service'[x].name # service[x].name
    BY <1>5, <1>6
  <2>2. service[y].name = n BY <1>1, <1>3, <1>6, <2>1
  <2> QED BY <1>2, <2>1, <2>2
<1>7. CASE s \in Rows /\ t \in Rows
  BY <1>1, <1>2, <1>7
<1>8. CASE s \notin Rows /\ t \in Rows
  BY <1>4, <1>6, <1>8
<1>9. CASE s \in Rows /\ t \notin Rows
  BY <1>4, <1>6, <1>9
<1>10. CASE s \notin Rows /\ t \notin Rows
  BY <1>4, <1>5, <1>10
<1> QED BY <1>7, <1>8, <1>9, <1>10

LEMMA CommitRepairs ==
  ASSUME CatalogTypeOK, NEW c \in Clients, Formed(c), Knows(c), Commit(c),
         NEW ids \in [Creations(client[c]) -> ServiceIds \ Rows],
         \A m, n \in Creations(client[c]) : m # n => ids[m] # ids[n],
         service' = ServicesAfter(client[c], ids), repair' = RepairAfter(client[c], ids),
         NEW p \in Repairs, BelowArchived(p)'
  PROVE  BelowArchived(p) \/ Above(p)' \cap client[c].missed # {}
PROOF
<1> DEFINE q == client[c]
<1>1. archivedV' = archivedV \cup (IF q.op = "archiveV" THEN {q.on} ELSE {})
  BY DEF Commit
<1>2. /\ repair[p].vehicle \in Vehicles \cup {Placeholder} /\ repair[p].service \in ServiceIds \cup {None}
      /\ repair'[p].vehicle \in Vehicles \cup {Placeholder} /\ repair'[p].service \in ServiceIds \cup {None}
  <2>1. repair' \in [Repairs -> RepairRow] BY RepairsEffect
  <2>2. repair \in [Repairs -> RepairRow] BY DEF CatalogTypeOK, RepairRow
  <2> QED BY <2>1, <2>2 DEF RepairRow
<1>3. ASSUME NEW s \in ServiceIds \cup {None}, s # None, service'[s].status = "archived"
      PROVE  /\ service[s].status = "archived" \/ (q.op = "archiveS" /\ s = q.on)
             /\ \A n \in Creations(q) : s # ids[n]
  <2>1. s \in ServiceIds BY <1>3
  <2>2. /\ \A n \in Creations(q) : service'[ids[n]].status = "live"
        /\ s \in Rows \/ (\E n \in Creations(q) : s = ids[n]) \/ service'[s].status = "none"
    BY <2>1, ServicesEffect
  <2>3. s \in Rows /\ \A n \in Creations(q) : s # ids[n] BY <1>3, <2>2
  <2>4. service'[s].status = IF q.op = "archiveS" /\ s = q.on THEN "archived"
                             ELSE IF q.op = "restoreS" /\ s = q.on THEN "live"
                             ELSE service[s].status
    BY <2>3, ServicesEffect
  <2> QED BY <1>3, <2>3, <2>4
<1>4. /\ repair'[p].status = "live"
      /\ \/ repair'[p].vehicle \in archivedV'
         \/ repair'[p].service # None /\ service'[repair'[p].service].status = "archived"
  BY DEF BelowArchived, Archived
<1>5. ASSUME NEW x, x \in q.missed, x \in {p, repair'[p].vehicle, repair'[p].service}
      PROVE  Above(p)' \cap client[c].missed # {}
  BY <1>5 DEF Above
<1> DEFINE wrote == p = q.on /\ q.op \in {"upload", "vehicle", "service", "restore"}
<1>6. CASE ~wrote
  <2>1. repair'[p] = repair[p] BY <1>6, RepairsEffect
  <2>2. CASE q.op = "archiveV" /\ repair[p].vehicle = q.on
    <3>1. p \in Under(q.on) BY <1>4, <2>1, <2>2 DEF Under
    <3>2. p \in q.missed \/ repair[p].service \in q.missed \/ Archived(repair[p].service)
      BY <2>2, <3>1 DEF Knows, KnowsUnder
    <3> QED BY <1>4, <1>5, <2>1, <3>2 DEF BelowArchived
  <2>3. CASE q.op = "archiveS" /\ repair[p].service = q.on
    <3>1. p \in Under(q.on) BY <1>4, <2>1, <2>3 DEF Under
    <3>2. p \in q.missed \/ repair[p].vehicle \in q.missed \/ repair[p].vehicle \in archivedV
      BY <2>3, <3>1 DEF Knows, KnowsUnder
    <3> QED BY <1>4, <1>5, <2>1, <3>2 DEF BelowArchived
  <2>4. CASE /\ ~(q.op = "archiveV" /\ repair[p].vehicle = q.on)
             /\ ~(q.op = "archiveS" /\ repair[p].service = q.on)
    <3>1. repair[p].vehicle \in archivedV' => repair[p].vehicle \in archivedV
      BY <1>1, <2>4
    <3>2. repair[p].service # None /\ service'[repair[p].service].status = "archived" => Archived(repair[p].service)
      BY <1>2, <1>3, <2>4 DEF Archived
    <3> QED BY <1>4, <2>1, <3>1, <3>2 DEF BelowArchived
  <2> QED BY <2>2, <2>3, <2>4
<1>7. CASE wrote
  <2>1. archivedV' = archivedV BY <1>1, <1>7
  <2>2. repair'[p].service # None /\ service'[repair'[p].service].status = "archived" =>
          Archived(repair'[p].service)
    <3>1. PICK s \in ServiceIds \cup {None} : s = repair'[p].service BY <1>2
    <3>2. s # None /\ service'[s].status = "archived" => Archived(s)
      BY <1>3, <1>7 DEF Archived
    <3> QED BY <3>1, <3>2 DEF Archived
  <2>3. CASE q.op = "upload"
    <3>1. repair'[p].vehicle = q.to /\ repair'[p].service = None
      BY <1>7, <2>3, RepairsEffect
    <3>2. q.to \notin archivedV \ q.missed BY <2>3 DEF Knows, KnowsTarget
    <3> QED BY <1>4, <1>5, <2>1, <3>1, <3>2
  <2>4. CASE q.op = "vehicle"
    <3>1. repair'[p].vehicle = q.to /\ repair'[p].service = repair[p].service
      BY <1>7, <2>4, RepairsEffect
    <3>2. q.to \notin archivedV \ q.missed /\ ServiceHolds(p, q.missed)
      BY <1>7, <2>4 DEF Knows, KnowsTarget
    <3> QED BY <1>4, <1>5, <2>1, <2>2, <3>1, <3>2 DEF ServiceHolds, Archived
  <2>5. CASE q.op = "service"
    <3>1. /\ repair'[p].vehicle = repair[p].vehicle
          /\ repair'[p].service = IF q.to \in q.adds THEN ids[q.to] ELSE q.to
      BY <1>7, <2>5, RepairsEffect
    <3>2. /\ VehicleHolds(p, q.missed)
          /\ q.to \in ServiceIds \ q.adds => q.to \in q.missed \/ ~Archived(q.to)
      BY <1>7, <2>5 DEF Knows, KnowsTarget
    <3>3. CASE repair'[p].vehicle \in archivedV'
      BY <1>5, <2>1, <3>1, <3>2, <3>3 DEF VehicleHolds
    <3>4. CASE repair'[p].service # None /\ service'[repair'[p].service].status = "archived"
      <4>1. \A n \in Creations(q) : repair'[p].service # ids[n]
        <5>1. PICK s \in ServiceIds \cup {None} : s = repair'[p].service BY <1>2
        <5>2. s # None /\ service'[s].status = "archived" BY <3>4, <5>1
        <5> QED BY <1>3, <5>1, <5>2
      <4>2. q.to \notin q.adds /\ repair'[p].service = q.to
        BY <3>1, <4>1 DEF Creations
      <4>3. q.to \in ServiceIds BY <1>2, <3>4, <4>2
      <4>4. Archived(q.to) BY <2>2, <3>4, <4>2
      <4> QED BY <1>5, <3>2, <4>2, <4>3, <4>4
    <3> QED BY <1>4, <3>3, <3>4
  <2>6. CASE q.op = "restore"
    <3>1. repair'[p].vehicle = repair[p].vehicle /\ repair'[p].service = repair[p].service
      BY <1>7, <2>6, RepairsEffect
    <3>2. VehicleHolds(p, q.missed) /\ ServiceHolds(p, q.missed)
      BY <1>7, <2>6 DEF Knows, KnowsTarget
    <3> QED BY <1>4, <1>5, <2>1, <2>2, <3>1, <3>2 DEF VehicleHolds, ServiceHolds, Archived
  <2> QED BY <1>7, <2>3, <2>4, <2>5, <2>6
<1> QED BY <1>6, <1>7

LEMMA CommitStep ==
  ASSUME CatalogInv, NEW c \in Clients, Commit(c)
  PROVE  CatalogInv'
PROOF
<1> DEFINE q == client[c]
<1>1. CatalogTypeOK /\ Unnamed /\ Formed(c) /\ Knows(c) BY DEF CatalogInv, CatalogConsistent
<1>2. PICK ids \in [Creations(q) -> ServiceIds \ Rows] :
        /\ \A m, n \in Creations(q) : m # n => ids[m] # ids[n]
        /\ service' = ServicesAfter(q, ids) /\ repair' = RepairAfter(q, ids)
  BY <1>1, CommitIds
<1>3. /\ client' = Others(c) /\ Escapes(q.missed)
      /\ archivedV' = archivedV \cup (IF q.op = "archiveV" THEN {q.on} ELSE {})
  BY DEF Commit
<1>4. q.missed \in SUBSET Objects BY <1>1 DEF Formed, Requests
<1>5. repair' \in [Repairs -> RepairRow] BY <1>1, <1>2, RepairsEffect
<1>6. archivedV' \subseteq Vehicles BY <1>1, <1>3 DEF CatalogTypeOK, Formed
<1>7. /\ service' \in [ServiceIds -> ServiceRow]
      /\ \A s \in Rows : service'[s].status = IF q.op = "archiveS" /\ s = q.on THEN "archived"
                                              ELSE IF q.op = "restoreS" /\ s = q.on THEN "live"
                                              ELSE service[s].status
      /\ \A n \in Creations(q) : service'[ids[n]].status = "live"
      /\ \A s \in ServiceIds \ Rows :
           \/ \E n \in Creations(q) : s = ids[n]
           \/ service'[s].status = "none" /\ service'[s].name = service[s].name
  BY <1>1, <1>2, ServicesEffect DEF ServiceRow
<1>8. Rows \subseteq Rows' BY <1>7 DEF Rows
<1>9. Unnamed'
  <2> SUFFICES ASSUME NEW s \in ServiceIds, s \notin Rows' PROVE service'[s].name = None
    BY DEF Unnamed
  <2>1. s \notin Rows /\ service'[s].status = "none" BY <1>8 DEF Rows
  <2> QED BY <1>1, <1>7, <2>1 DEF Unnamed
<1>10. \A p \in Repairs : BelowArchived(p)' => BelowArchived(p) \/ Above(p)' \cap q.missed # {}
  BY <1>1, <1>2, CommitRepairs
<1>11. \A s, t \in ServiceIds :
         (s \in Rows)' /\ (t \in Rows)' /\ s # t /\ service'[s].name = service'[t].name =>
           \/ s \in Rows /\ t \in Rows /\ service[s].name = service[t].name
           \/ service'[s].name # service[s].name /\ t \in q.missed
           \/ service'[t].name # service[t].name /\ s \in q.missed
  BY <1>1, <1>2, CommitNames
<1> QED BY <1>3, <1>4, <1>5, <1>6, <1>7, <1>8, <1>9, <1>10, <1>11, Committed

-----------------------------------------------------------------------------
(* Nothing hangs below an archived row that did not before.                 *)
LEMMA DirectStep ==
  ASSUME CatalogInv,
         \/ \E v \in Vehicles : RestoreVehicle(v)
         \/ \E p \in Repairs : ArchiveRepair(p)
  PROVE  CatalogInv'
PROOF
<1>1. CatalogTypeOK /\ Unnamed BY DEF CatalogInv, CatalogConsistent
<1>2. client' = Others(None) /\ Escapes({}) /\ UNCHANGED service
  BY DEF RestoreVehicle, ArchiveRepair
<1>3. /\ repair' \in [Repairs -> RepairRow]
      /\ archivedV' \subseteq archivedV
      /\ \A p \in Repairs : repair'[p] = repair[p] \/ repair'[p].status = "archived"
  <2>1. repair \in [Repairs -> RepairRow] BY <1>1 DEF CatalogTypeOK, RepairRow
  <2>2. ASSUME NEW v \in Vehicles, RestoreVehicle(v)
        PROVE  repair' = repair /\ archivedV' \subseteq archivedV
    BY <2>2 DEF RestoreVehicle
  <2>3. ASSUME NEW p \in Repairs, ArchiveRepair(p)
        PROVE  repair' = [repair EXCEPT ![p].status = "archived"] /\ archivedV' = archivedV
    BY <2>3 DEF ArchiveRepair
  <2> QED BY <2>1, <2>2, <2>3 DEF RepairRow
<1>4. archivedV' \subseteq Vehicles BY <1>1, <1>3 DEF CatalogTypeOK
<1>5. service' \in [ServiceIds -> ServiceRow] BY <1>1, <1>2 DEF CatalogTypeOK, ServiceRow
<1>6. Rows \subseteq Rows' /\ Unnamed' BY <1>1, <1>2 DEF Rows, Unnamed
<1>7. ASSUME NEW p \in Repairs, BelowArchived(p)' PROVE BelowArchived(p)
  BY <1>2, <1>3, <1>7 DEF BelowArchived, Archived
<1>8. ASSUME NEW s \in ServiceIds, (s \in Rows)' PROVE s \in Rows BY <1>2, <1>8 DEF Rows
<1> QED BY <1>2, <1>3, <1>4, <1>5, <1>6, <1>7, <1>8, Committed

LEMMA CatalogStepKeeps ==
  CatalogInv /\ [CatalogNext]_catalogVars => CatalogInv'
PROOF
<1> SUFFICES ASSUME CatalogInv, [CatalogNext]_catalogVars PROVE CatalogInv' OBVIOUS
<1>1. ASSUME NEW c \in Clients, Abort(c) PROVE CatalogInv'
  <2>1. client' = [client EXCEPT ![c] = Idle] BY <1>1 DEF Abort
  <2>2. client'[c] = Idle BY <2>1 DEF CatalogInv
  <2>3. Formed(c)' /\ Knows(c)' BY <2>2, IdleKnows
  <2> QED BY <1>1, <2>1, <2>3, OnlyRequests DEF Abort
<1>2. CASE UNCHANGED catalogVars
  <2>1. CatalogConsistent' /\ Unnamed'
    BY <1>2 DEF CatalogInv, catalogVars, CatalogConsistent, CatalogTypeOK, NoLiveBelowArchived, BelowArchived,
                Archived, NamesUnique, Unnamed, Rows
  <2>2. ASSUME NEW c \in Clients PROVE Formed(c)' /\ Knows(c)'
    <3>1. Formed(c) /\ Knows(c) BY DEF CatalogInv
    <3>2. UNCHANGED <<repair, archivedV, service, client>> BY <1>2 DEF catalogVars
    <3> QED BY <3>1, <3>2 DEF Formed, Rows, Knows, KnowsTarget, KnowsUnder, KnowsNames, ServiceHolds,
                              VehicleHolds, Archived, Under, Creations
  <2> QED BY <1>2, <2>1, <2>2 DEF CatalogInv, catalogVars
<1> QED BY <1>1, <1>2, BeginStep, CommitStep, DirectStep DEF CatalogNext

(* Rows keep their shape; a live repair hangs below an archived vehicle or  *)
(* service, and two services share a name, only if a request did that to a  *)
(* row changed between its reads and its commit (vehicles.py:58,            *)
(* services.py:66): for every number of repairs, vehicles, services, names  *)
(* and requests at a time.                                                  *)
THEOREM CatalogStaysConsistent ==
  CatalogSpec => []CatalogConsistent
PROOF
<1>1. CatalogInv => CatalogConsistent BY DEF CatalogInv
<1> QED BY <1>1, CatalogInitHolds, CatalogStepKeeps, PTL DEF CatalogSpec

-----------------------------------------------------------------------------
(***************************************************************************)
(* Cards of one vehicle, and the links between cards, for any vehicles,      *)
(* marks that are given, cards, sessions and calendar. No search goes on     *)
(* that had a card to take; the cards that an import has flushed are its own *)
(* until it commits, one a vehicle; and what an import has read of the links *)
(* lies before the day it read them.                                         *)
(***************************************************************************)
SearchesGoOn == \A w \in Writers, k \in CardIds : Excused(writer[w].by, writer[w].found, k)

OwnCards ==
  \A w \in Writers : \A f \in import[w].flushed :
    /\ card[f.card].state # "none"
    /\ card[f.card].state = "pending" => f.found = {} /\ card[f.card].vehicle = f.vehicle
    /\ \A g \in import[w].flushed : g.vehicle = f.vehicle => g = f
    /\ \A u \in Writers : \A g \in import[u].flushed : g.card = f.card /\ card[f.card].state = "pending" => u = w

Past(rows, d) == \A l \in rows : l.starts <= d /\ (l.ends = NoValue \/ (l.starts <= l.ends /\ l.ends <= d))

LinksArePast ==
  /\ Past(links, today)
  /\ \A w \in Writers : import[w].stage = "links" => import[w].day <= today /\ Past(import[w].read, import[w].day)

FleetInv == FleetAgrees /\ SearchesGoOn /\ OwnCards /\ LinksArePast

LEMMA FleetTyped ==
  /\ Days \subseteq Nat /\ 0 \in Days /\ NoValue \notin Days /\ NoValue \notin Machines
  /\ Unused \in CardRow /\ Unused.state = "none" /\ NoSearch \in SearchRow /\ NoSearch.found = {}
  /\ NoImport \in ImportRow /\ NoImport.flushed = {} /\ NoImport.stage = "rows"
  /\ UNION Columns \subseteq Marks
  /\ \A m \in Marks : Form(m) \in Marks
<1>1. Days \subseteq Nat /\ 0 \in Days /\ NoValue \notin Days /\ NoValue \notin Machines
  BY FleetAssumption DEF Days
<1>2. Unused \in CardRow /\ Unused.state = "none" /\ NoSearch \in SearchRow /\ NoSearch.found = {}
  BY DEF Unused, NoSearch, CardRow, SearchRow, Types
<1>3. NoImport \in ImportRow /\ NoImport.flushed = {} /\ NoImport.stage = "rows"
  BY <1>1 DEF NoImport, ImportRow
<1>4. UNION Columns \subseteq Marks
  BY DEF Marks
<1>5. \A m \in Marks : Form(m) \in Marks
  BY DEF Marks, Columns, VinMarks, PlateMarks, Form
<1>6. QED
  BY <1>1, <1>2, <1>3, <1>4, <1>5

LEMMA FleetInitHolds == FleetInit => FleetInv
<1> SUFFICES ASSUME FleetInit PROVE FleetInv
  OBVIOUS
<1>1. FleetTypeOK
  BY FleetTyped DEF FleetInit, FleetTypeOK
<1>2. TwinsHaveCause
  BY DEF FleetInit, TwinsHaveCause, LiveOf, Unused
<1>3. LinksFollowRegistry
  BY DEF FleetInit, LinksFollowRegistry
<1>4. SearchesGoOn
  BY FleetTyped DEF FleetInit, SearchesGoOn, Excused
<1>5. OwnCards /\ LinksArePast
  BY FleetTyped DEF FleetInit, OwnCards, LinksArePast, Past
<1>6. QED
  BY <1>1, <1>2, <1>3, <1>4, <1>5 DEF FleetInv, FleetAgrees

\* Steps that make no card live.
LEMMA TwinsStay ==
  ASSUME FleetInv, twins \subseteq twins',
         \A i \in CardIds : card'[i].state = "live" => card[i].state = "live" /\ card'[i].vehicle = card[i].vehicle
  PROVE  TwinsHaveCause'
  BY DEF FleetInv, FleetAgrees, TwinsHaveCause, LiveOf

\* Steps that make one card live.
LEMMA TwinsGrow ==
  ASSUME FleetInv, NEW i \in CardIds, twins \subseteq twins',
         \A j \in CardIds :
           j # i /\ card'[j].state = "live" => card[j].state = "live" /\ card'[j].vehicle = card[j].vehicle,
         \A j \in LiveOf(card'[i].vehicle) : {i, j} \in twins'
  PROVE  TwinsHaveCause'
<1> SUFFICES ASSUME NEW v \in Machines, NEW j \in LiveOf(v)', NEW k \in LiveOf(v)', j # k
             PROVE  {j, k} \in twins'
  BY DEF TwinsHaveCause
<1>1. /\ j \in CardIds /\ k \in CardIds /\ card'[j].vehicle = v /\ card'[k].vehicle = v
      /\ card'[j].state = "live" /\ card'[k].state = "live"
  BY DEF LiveOf
<1>2. CASE j # i /\ k # i
  BY <1>1, <1>2 DEF FleetInv, FleetAgrees, TwinsHaveCause, LiveOf
<1>3. CASE j = i
  BY <1>1, <1>3 DEF LiveOf
<1>4. CASE k = i
  <2>1. {j, k} = {i, j}
    BY <1>4
  <2>2. QED
    BY <1>1, <1>4, <2>1 DEF LiveOf
<1>5. QED
  BY <1>2, <1>3, <1>4

\* Steps that flush no row.
LEMMA OwnCardsStay ==
  ASSUME FleetInv,
         \A w \in Writers : import'[w].flushed \subseteq import[w].flushed,
         \A i \in CardIds :
           card'[i].state = "pending" => card[i].state = "pending" /\ card'[i].vehicle = card[i].vehicle,
         \A i \in CardIds :
           card[i].state # "none" /\ card'[i].state = "none" =>
             \A w \in Writers : \A f \in import'[w].flushed : f.card # i
  PROVE  OwnCards'
<1> SUFFICES ASSUME NEW w \in Writers, NEW f \in import'[w].flushed
             PROVE  /\ card'[f.card].state # "none"
                    /\ card'[f.card].state = "pending" => f.found = {} /\ card'[f.card].vehicle = f.vehicle
                    /\ \A g \in import'[w].flushed : g.vehicle = f.vehicle => g = f
                    /\ \A u \in Writers : \A g \in import'[u].flushed :
                         g.card = f.card /\ card'[f.card].state = "pending" => u = w
  BY DEF OwnCards
<1>1. f \in import[w].flushed /\ f \in FlushedRow
  BY DEF FleetInv, FleetAgrees, FleetTypeOK, ImportRow
<1>2. f.card \in CardIds
  BY <1>1 DEF FlushedRow
<1>3. /\ card[f.card].state # "none"
      /\ card[f.card].state = "pending" => f.found = {} /\ card[f.card].vehicle = f.vehicle
      /\ \A g \in import[w].flushed : g.vehicle = f.vehicle => g = f
      /\ \A u \in Writers : \A g \in import[u].flushed : g.card = f.card /\ card[f.card].state = "pending" => u = w
  BY <1>1 DEF FleetInv, OwnCards
<1>4. QED
  BY <1>2, <1>3

\* Steps that leave the links alone, and what was read of them.
LEMMA LinksStay ==
  ASSUME FleetInv, UNCHANGED <<links, registered, importDay, raced>>, today' \in Days, today <= today',
         \A w \in Writers : import'[w].stage = "links" =>
           import[w].stage = "links" /\ import'[w].day = import[w].day /\ import'[w].read = import[w].read
  PROVE  LinksFollowRegistry' /\ LinksArePast'
<1>1. LinksFollowRegistry'
  BY DEF FleetInv, FleetAgrees, LinksFollowRegistry, PairOf, DaysOf
<1>2. Past(links', today')
  <2> SUFFICES ASSUME NEW l \in links
               PROVE  l.starts <= today' /\ (l.ends = NoValue \/ (l.starts <= l.ends /\ l.ends <= today'))
    BY DEF Past
  <2>1. l \in LinkRow /\ today \in Nat /\ today' \in Nat
    BY FleetTyped DEF FleetInv, FleetAgrees, FleetTypeOK
  <2>2. l.starts \in Nat /\ (l.ends = NoValue \/ l.ends \in Nat)
    BY <2>1, FleetTyped DEF LinkRow
  <2>3. l.starts <= today /\ (l.ends = NoValue \/ (l.starts <= l.ends /\ l.ends <= today))
    BY DEF FleetInv, LinksArePast, Past
  <2>4. QED
    BY <2>1, <2>2, <2>3
<1>3. ASSUME NEW w \in Writers, import'[w].stage = "links"
      PROVE  import'[w].day <= today' /\ Past(import'[w].read, import'[w].day)
  <2>1. import[w].day <= today /\ Past(import[w].read, import[w].day)
    BY <1>3 DEF FleetInv, LinksArePast
  <2>2. import[w].day \in Nat /\ today \in Nat /\ today' \in Nat
    BY FleetTyped DEF FleetInv, FleetAgrees, FleetTypeOK, ImportRow
  <2>3. QED
    BY <1>3, <2>1, <2>2
<1>4. QED
  BY <1>1, <1>2, <1>3 DEF LinksArePast, Past

LEMMA SearchesKeep ==
  ASSUME FleetInv, NEW w \in Writers, NEW by \in {"ocr", "admin"}, NEW v \in Named, NEW gives \in Readings,
         NEW type \in Types, Searches(w, by, v, gives, type)
  PROVE  FleetInv'
<1> DEFINE found == ExactMatches(v, gives)
           q == [by |-> by, vehicle |-> v, type |-> type, gives |-> gives, found |-> found]
<1>1. /\ writer' = [writer EXCEPT ![w] = q]
      /\ UNCHANGED <<card, links, today, import, registered, importDay, twins, raced>>
      /\ MakesCard(by, found, PartialMatches(v, gives))
  BY DEF Searches
<1>2. found \subseteq CardIds
  BY DEF ExactMatches, LiveOf
<1> HIDE DEF found
<1>3. q \in SearchRow /\ q.by = by /\ q.found = found
  BY <1>2, FleetAssumption DEF SearchRow
<1>4. \A k \in CardIds : Excused(by, found, k)
  BY <1>1 DEF MakesCard, Excused
<1> HIDE DEF q
<1>5. writer \in [Writers -> SearchRow] /\ today \in Days /\ today <= today'
  BY <1>1, FleetTyped DEF FleetInv, FleetAgrees, FleetTypeOK
<1>6. FleetTypeOK'
  BY <1>1, <1>3 DEF FleetInv, FleetAgrees, FleetTypeOK
<1>7. SearchesGoOn'
  <2> SUFFICES ASSUME NEW u \in Writers, NEW k \in CardIds PROVE Excused(writer'[u].by, writer'[u].found, k)
    BY DEF SearchesGoOn
  <2>1. CASE u = w
    BY <1>1, <1>3, <1>4, <1>5, <2>1
  <2>2. CASE u # w
    BY <1>1, <1>5, <2>2 DEF FleetInv, SearchesGoOn
  <2>3. QED
    BY <2>1, <2>2
<1>8. TwinsHaveCause' /\ OwnCards'
  BY <1>1, TwinsStay, OwnCardsStay
<1>9. LinksFollowRegistry' /\ LinksArePast'
  BY <1>1, <1>5, LinksStay
<1>10. QED
  BY <1>6, <1>7, <1>8, <1>9 DEF FleetInv, FleetAgrees

LEMMA GivesUpKeeps ==
  ASSUME FleetInv, NEW w \in Writers, GivesUp(w)
  PROVE  FleetInv'
<1>1. /\ writer' = [writer EXCEPT ![w] = NoSearch]
      /\ UNCHANGED <<card, links, today, import, registered, importDay, twins, raced>>
  BY DEF GivesUp
<1>2. writer \in [Writers -> SearchRow] /\ today \in Days /\ today <= today'
  BY <1>1, FleetTyped DEF FleetInv, FleetAgrees, FleetTypeOK
<1>3. FleetTypeOK'
  BY <1>1, FleetTyped DEF FleetInv, FleetAgrees, FleetTypeOK
<1>4. SearchesGoOn'
  BY <1>1, <1>2, FleetTyped DEF FleetInv, SearchesGoOn, Excused
<1>5. TwinsHaveCause' /\ OwnCards'
  BY <1>1, TwinsStay, OwnCardsStay
<1>6. LinksFollowRegistry' /\ LinksArePast'
  BY <1>1, <1>2, LinksStay
<1>7. QED
  BY <1>3, <1>4, <1>5, <1>6 DEF FleetInv, FleetAgrees

LEMMA MakesNewKeeps ==
  ASSUME FleetInv, NEW w \in Writers, MakesNew(w)
  PROVE  FleetInv'
<1> DEFINE q == writer[w]
           new == NewCard("live", q.type, q.vehicle, Written(q.by, q.gives))
<1>1. PICK i \in CardIds :
        /\ FirstFree(i)
        /\ card' = [card EXCEPT ![i] = new]
        /\ twins' = twins \cup {{i, k} : k \in {j \in LiveOf(q.vehicle) : Excused(q.by, q.found, j)}}
  BY DEF MakesNew
<1>2. /\ writer' = [writer EXCEPT ![w] = NoSearch]
      /\ UNCHANGED <<links, today, import, registered, importDay, raced>>
  BY DEF MakesNew
<1>3. /\ card \in [CardIds -> CardRow] /\ writer \in [Writers -> SearchRow]
      /\ today \in Days /\ today <= today'
  BY <1>2, FleetTyped DEF FleetInv, FleetAgrees, FleetTypeOK
<1>4. card[i].state = "none"
  BY <1>1 DEF FirstFree
<1>5. q \in SearchRow /\ \A k \in CardIds : Excused(q.by, q.found, k)
  BY <1>3 DEF FleetInv, SearchesGoOn
<1>6. new \in CardRow /\ new.state = "live" /\ new.vehicle = q.vehicle
  <2>1. Written(q.by, q.gives) \in SUBSET Marks
    BY <1>5, FleetTyped DEF SearchRow, Written
  <2>2. QED
    BY <1>5, <2>1 DEF SearchRow, CardRow, NewCard
<1> HIDE DEF new, q
<1>7. card' \in [CardIds -> CardRow] /\ \A j \in CardIds : card'[j] = IF j = i THEN new ELSE card[j]
  BY <1>1, <1>3, <1>6
<1>8. \A k \in LiveOf(q.vehicle) : k \in CardIds /\ {i, k} \in twins'
  BY <1>1, <1>5 DEF LiveOf
<1>9. twins' \subseteq SUBSET CardIds /\ twins \subseteq twins'
  BY <1>1 DEF FleetInv, FleetAgrees, FleetTypeOK, LiveOf
<1>10. FleetTypeOK'
  BY <1>2, <1>7, <1>9, FleetTyped DEF FleetInv, FleetAgrees, FleetTypeOK
<1>11. TwinsHaveCause'
  BY <1>6, <1>7, <1>8, <1>9, TwinsGrow
<1>12. SearchesGoOn'
  BY <1>2, <1>3, FleetTyped DEF FleetInv, SearchesGoOn, Excused
<1>13. OwnCards'
  BY <1>2, <1>6, <1>7, OwnCardsStay
<1>14. LinksFollowRegistry' /\ LinksArePast'
  BY <1>2, <1>3, LinksStay
<1>15. QED
  BY <1>10, <1>11, <1>12, <1>13, <1>14 DEF FleetInv, FleetAgrees

LEMMA UpsertRowKeeps ==
  ASSUME FleetInv, NEW w \in Writers, NEW v \in Machines, NEW row \in RegistryRows, UpsertRow(w, v, row)
  PROVE  FleetInv'
<1> DEFINE found == FindVehicle(v, row)
           new == NewCard("pending", TypeOf(v), v, row)
<1>1. PICK i \in CardIds :
        /\ \/ i \in found /\ UNCHANGED card
           \/ found = {} /\ FirstFree(i) /\ card' = [card EXCEPT ![i] = new]
        /\ import' = [import EXCEPT ![w].flushed = @ \cup {[vehicle |-> v, card |-> i, row |-> row, found |-> found]}]
  BY DEF UpsertRow
<1>2. /\ v \notin RowsDone(w) /\ import[w].stage = "rows"
      /\ UNCHANGED <<links, today, writer, registered, importDay, twins, raced>>
  BY DEF UpsertRow
<1>3. /\ card \in [CardIds -> CardRow] /\ import \in [Writers -> ImportRow]
      /\ today \in Days /\ today <= today'
  BY <1>2, FleetTyped DEF FleetInv, FleetAgrees, FleetTypeOK
<1>4. found \subseteq CardIds /\ \A j \in found : card[j].state = "live"
  BY DEF FindVehicle, LiveOf
<1>5. row \in SUBSET Marks
  BY FleetAssumption, FleetTyped
<1>6. new \in CardRow /\ new.state = "pending" /\ new.vehicle = v
  BY <1>5 DEF CardRow, NewCard, TypeOf, Types
<1> HIDE DEF found, new
<1> DEFINE f == [vehicle |-> v, card |-> i, row |-> row, found |-> found]
<1>7. f \in FlushedRow /\ f.vehicle = v /\ f.card = i /\ f.found = found
  BY <1>4, <1>5 DEF FlushedRow
<1>8. import' = [import EXCEPT ![w].flushed = @ \cup {f}]
  BY <1>1
<1> HIDE DEF f
<1>9. /\ import' \in [Writers -> ImportRow]
      /\ import'[w].flushed = import[w].flushed \cup {f} /\ import'[w].stage = "rows"
      /\ \A u \in Writers : u # w => import'[u] = import[u]
  BY <1>2, <1>3, <1>7, <1>8 DEF ImportRow
<1>10. /\ card' \in [CardIds -> CardRow]
       /\ \A j \in CardIds : j # i => card'[j] = card[j]
       /\ \/ card[i].state = "live" /\ card'[i] = card[i]
          \/ found = {} /\ card[i].state = "none" /\ card'[i].state = "pending" /\ card'[i].vehicle = v
  BY <1>1, <1>3, <1>4, <1>6 DEF FirstFree
<1>11. FleetTypeOK'
  BY <1>2, <1>9, <1>10 DEF FleetInv, FleetAgrees, FleetTypeOK
<1>12. TwinsHaveCause'
  BY <1>2, <1>10, TwinsStay
<1>13. SearchesGoOn'
  BY <1>2 DEF FleetInv, SearchesGoOn
<1>14. OwnCards'
  <2>1. ASSUME NEW u \in Writers, NEW g \in import[u].flushed
        PROVE  /\ g.card \in CardIds /\ card[g.card].state # "none"
               /\ card[g.card].state = "pending" => g.found = {} /\ card[g.card].vehicle = g.vehicle
               /\ \A h \in import[u].flushed : h.vehicle = g.vehicle => h = g
               /\ \A x \in Writers : \A h \in import[x].flushed :
                    h.card = g.card /\ card[g.card].state = "pending" => x = u
    <3>1. g \in FlushedRow
      BY <1>3 DEF ImportRow
    <3>2. QED
      BY <3>1 DEF FleetInv, OwnCards, FlushedRow
  <2>2. \A g \in import[w].flushed : g.vehicle # v
    BY <1>2 DEF RowsDone
  <2>3. ASSUME NEW u \in Writers, NEW g \in import[u].flushed
        PROVE  card'[g.card] = card[g.card] /\ (g.card = i => card[i].state = "live")
    BY <1>10, <2>1
  <2>4. \A u \in Writers : \A g \in import'[u].flushed : g \in import[u].flushed \/ (u = w /\ g = f)
    BY <1>9
  <2>5. card'[i].state # "none" /\ (card'[i].state = "pending" => found = {} /\ card'[i].vehicle = v)
    BY <1>10
  <2> SUFFICES ASSUME NEW u \in Writers, NEW g \in import'[u].flushed
               PROVE  /\ card'[g.card].state # "none"
                      /\ card'[g.card].state = "pending" => g.found = {} /\ card'[g.card].vehicle = g.vehicle
                      /\ \A h \in import'[u].flushed : h.vehicle = g.vehicle => h = g
                      /\ \A x \in Writers : \A h \in import'[x].flushed :
                           h.card = g.card /\ card'[g.card].state = "pending" => x = u
    BY DEF OwnCards
  <2>6. card'[g.card].state # "none" /\ (card'[g.card].state = "pending" => g.found = {} /\ card'[g.card].vehicle = g.vehicle)
    BY <1>7, <2>1, <2>3, <2>4, <2>5
  <2>7. \A h \in import'[u].flushed : h.vehicle = g.vehicle => h = g
    BY <1>7, <2>1, <2>2, <2>4
  <2>8. ASSUME NEW x \in Writers, NEW h \in import'[x].flushed, h.card = g.card, card'[g.card].state = "pending"
        PROVE  x = u
    <3>1. CASE g \in import[u].flushed /\ h \in import[x].flushed
      BY <2>1, <2>3, <2>8, <3>1
    <3>2. CASE g \in import[u].flushed /\ h = f
      BY <1>7, <2>3, <2>8, <3>2
    <3>3. CASE g = f /\ h \in import[x].flushed
      BY <1>7, <2>3, <2>8, <3>3
    <3>4. QED
      BY <2>4, <3>1, <3>2, <3>3
  <2>9. QED
    BY <2>6, <2>7, <2>8
<1>15. LinksFollowRegistry' /\ LinksArePast'
  BY <1>2, <1>3, <1>9, LinksStay
<1>16. QED
  BY <1>11, <1>12, <1>13, <1>14, <1>15 DEF FleetInv, FleetAgrees

LEMMA ReadLinksKeeps ==
  ASSUME FleetInv, NEW w \in Writers, NEW pairs \in SUBSET (Trucks \X Trailers), NEW plate \in PlateMarks,
         ReadLinks(w, pairs, plate)
  PROVE  FleetInv'
<1> DEFINE AtMachines == {v \in Machines : \E x \in pairs : v \in {x[1], x[2]}}
<1>1. PICK at \in [AtMachines -> CardIds \cup {NoValue}] :
        import' =
          [import EXCEPT ![w] =
             [@ EXCEPT !.stage = "links", !.day = today, !.read = links,
                       !.named = {p \in {<<at[x[1]], at[x[2]]>> : x \in pairs} : NoValue \notin {p[1], p[2]}}]]
  BY DEF ReadLinks
<1>2. UNCHANGED <<card, links, today, writer, registered, importDay, twins, raced>>
  BY DEF ReadLinks
<1> DEFINE named == {p \in {<<at[x[1]], at[x[2]]>> : x \in pairs} : NoValue \notin {p[1], p[2]}}
<1>3. named \in SUBSET (CardIds \X CardIds)
  <2> SUFFICES ASSUME NEW x \in pairs, at[x[1]] # NoValue, at[x[2]] # NoValue
               PROVE  at[x[1]] \in CardIds /\ at[x[2]] \in CardIds
    OBVIOUS
  <2>1. x[1] \in AtMachines /\ x[2] \in AtMachines
    BY DEF Machines
  <2>2. QED
    BY <1>1, <2>1
<1>4. import' = [import EXCEPT ![w] = [@ EXCEPT !.stage = "links", !.day = today, !.read = links, !.named = named]]
  BY <1>1
<1> HIDE DEF named, AtMachines
<1>5. import \in [Writers -> ImportRow] /\ today \in Days /\ today \in Nat /\ links \subseteq LinkRow
  BY FleetTyped DEF FleetInv, FleetAgrees, FleetTypeOK
<1>6. /\ import' \in [Writers -> ImportRow] /\ import'[w].flushed = import[w].flushed
      /\ import'[w].day = today /\ import'[w].read = links
      /\ \A u \in Writers : u # w => import'[u] = import[u]
  BY <1>3, <1>4, <1>5 DEF ImportRow
<1>7. FleetTypeOK'
  BY <1>2, <1>6 DEF FleetInv, FleetAgrees, FleetTypeOK
<1>8. TwinsHaveCause' /\ SearchesGoOn'
  BY <1>2, TwinsStay DEF FleetInv, SearchesGoOn
<1>9. OwnCards'
  BY <1>2, <1>6, OwnCardsStay
<1>10. LinksFollowRegistry'
  BY <1>2 DEF FleetInv, FleetAgrees, LinksFollowRegistry, PairOf, DaysOf
<1>11. LinksArePast'
  <2> SUFFICES ASSUME NEW u \in Writers, import'[u].stage = "links"
               PROVE  import'[u].day <= today /\ Past(import'[u].read, import'[u].day)
    BY <1>2 DEF FleetInv, LinksArePast, Past
  <2>1. CASE u = w
    BY <1>5, <1>6, <2>1 DEF FleetInv, LinksArePast
  <2>2. CASE u # w
    BY <1>6, <2>2 DEF FleetInv, LinksArePast
  <2>3. QED
    BY <2>1, <2>2
<1>12. QED
  BY <1>7, <1>8, <1>9, <1>10, <1>11 DEF FleetInv, FleetAgrees

LEMMA ImportFailsKeeps ==
  ASSUME FleetInv, NEW w \in Writers, ImportFails(w)
  PROVE  FleetInv'
<1>1. /\ card' = [i \in CardIds |-> IF i \in MadeBy(w) THEN Unused ELSE card[i]]
      /\ import' = [import EXCEPT ![w] = NoImport]
      /\ UNCHANGED <<links, today, writer, registered, importDay, twins, raced>>
  BY DEF ImportFails
<1>2. /\ card \in [CardIds -> CardRow] /\ import \in [Writers -> ImportRow]
      /\ today \in Days /\ today <= today'
  BY <1>1, FleetTyped DEF FleetInv, FleetAgrees, FleetTypeOK
<1>3. /\ import' \in [Writers -> ImportRow] /\ import'[w].flushed = {} /\ import'[w].stage = "rows"
      /\ \A u \in Writers : u # w => import'[u] = import[u]
  BY <1>1, <1>2, FleetTyped
<1>4. /\ card' \in [CardIds -> CardRow]
      /\ \A i \in CardIds : card'[i] = card[i] \/ (card'[i].state = "none" /\ i \in MadeBy(w))
  BY <1>1, <1>2, FleetTyped
<1>5. FleetTypeOK'
  BY <1>1, <1>3, <1>4 DEF FleetInv, FleetAgrees, FleetTypeOK
<1>6. TwinsHaveCause' /\ SearchesGoOn'
  BY <1>1, <1>4, TwinsStay DEF FleetInv, SearchesGoOn
<1>7. OwnCards'
  <2>1. ASSUME NEW i \in CardIds, card[i].state # "none", card'[i].state = "none",
               NEW u \in Writers, NEW f \in import'[u].flushed
        PROVE  f.card # i
    <3>1. u # w /\ f \in import[u].flushed
      BY <1>3, <2>1
    <3>2. PICK g \in import[w].flushed : g.card = i /\ card[g.card].state = "pending"
      BY <1>4, <2>1 DEF MadeBy
    <3>3. QED
      BY <3>1, <3>2 DEF FleetInv, OwnCards
  <2>2. QED
    BY <1>3, <1>4, <2>1, OwnCardsStay
<1>8. LinksFollowRegistry' /\ LinksArePast'
  BY <1>1, <1>2, <1>3, LinksStay
<1>9. QED
  BY <1>5, <1>6, <1>7, <1>8 DEF FleetInv, FleetAgrees

LEMMA ArchiveCardKeeps ==
  ASSUME FleetInv, NEW i \in CardIds, ArchiveCard(i)
  PROVE  FleetInv'
<1>1. /\ card' = [card EXCEPT ![i].state = "archived"]
      /\ twins' = {pair \in twins : i \notin pair}
      /\ UNCHANGED <<links, today, writer, import, registered, importDay, raced>>
  BY DEF ArchiveCard
<1>2. card \in [CardIds -> CardRow] /\ today \in Days /\ today <= today'
  BY <1>1, FleetTyped DEF FleetInv, FleetAgrees, FleetTypeOK
<1>3. /\ card' \in [CardIds -> CardRow]
      /\ \A j \in CardIds : /\ card'[j].vehicle = card[j].vehicle
                             /\ card'[j].state = IF j = i THEN "archived" ELSE card[j].state
  BY <1>1, <1>2 DEF CardRow
<1>4. FleetTypeOK'
  BY <1>1, <1>3 DEF FleetInv, FleetAgrees, FleetTypeOK
<1>5. TwinsHaveCause'
  BY <1>1, <1>3 DEF FleetInv, FleetAgrees, TwinsHaveCause, LiveOf
<1>6. SearchesGoOn'
  BY <1>1 DEF FleetInv, SearchesGoOn
<1>7. OwnCards'
  BY <1>1, <1>3, OwnCardsStay
<1>8. LinksFollowRegistry' /\ LinksArePast'
  BY <1>1, <1>2, LinksStay
<1>9. QED
  BY <1>4, <1>5, <1>6, <1>7, <1>8 DEF FleetInv, FleetAgrees

LEMMA RestoreCardKeeps ==
  ASSUME FleetInv, NEW i \in CardIds, RestoreCard(i)
  PROVE  FleetInv'
<1>1. /\ card[i].state = "archived"
      /\ card' = [card EXCEPT ![i].state = "live"]
      /\ twins' = twins \cup {{i, j} : j \in LiveOf(card[i].vehicle)}
      /\ UNCHANGED <<links, today, writer, import, registered, importDay, raced>>
  BY DEF RestoreCard
<1>2. card \in [CardIds -> CardRow] /\ today \in Days /\ today <= today'
  BY <1>1, FleetTyped DEF FleetInv, FleetAgrees, FleetTypeOK
<1>3. /\ card' \in [CardIds -> CardRow]
      /\ \A j \in CardIds : /\ card'[j].vehicle = card[j].vehicle
                             /\ card'[j].state = IF j = i THEN "live" ELSE card[j].state
  BY <1>1, <1>2 DEF CardRow
<1>4. twins' \subseteq SUBSET CardIds /\ twins \subseteq twins'
  BY <1>1 DEF FleetInv, FleetAgrees, FleetTypeOK, LiveOf
<1>5. FleetTypeOK'
  BY <1>1, <1>3, <1>4 DEF FleetInv, FleetAgrees, FleetTypeOK
<1>6. TwinsHaveCause'
  BY <1>1, <1>3, <1>4, TwinsGrow
<1>7. SearchesGoOn'
  BY <1>1 DEF FleetInv, SearchesGoOn
<1>8. OwnCards'
  BY <1>1, <1>3, OwnCardsStay
<1>9. LinksFollowRegistry' /\ LinksArePast'
  BY <1>1, <1>2, LinksStay
<1>10. QED
  BY <1>5, <1>6, <1>7, <1>8, <1>9 DEF FleetInv, FleetAgrees

LEMMA NextDayKeeps ==
  ASSUME FleetInv, NextDay
  PROVE  FleetInv'
<1>1. /\ today < LastDay /\ today' = today + 1
      /\ UNCHANGED <<card, links, writer, import, registered, importDay, twins, raced>>
  BY DEF NextDay
<1>2. today \in Days /\ today' \in Days /\ today <= today'
  BY <1>1, FleetAssumption DEF FleetInv, FleetAgrees, FleetTypeOK, Days
<1>3. FleetTypeOK'
  BY <1>1, <1>2 DEF FleetInv, FleetAgrees, FleetTypeOK
<1>4. TwinsHaveCause' /\ SearchesGoOn' /\ OwnCards'
  BY <1>1, TwinsStay, OwnCardsStay DEF FleetInv, SearchesGoOn
<1>5. LinksFollowRegistry' /\ LinksArePast'
  BY <1>1, <1>2, LinksStay
<1>6. QED
  BY <1>3, <1>4, <1>5 DEF FleetInv, FleetAgrees

\* What is the same of a link after its end is written.
LEMMA EndsOfLinks ==
  /\ \A l \in LinkRow : /\ PairOf(l) \in CardIds \X CardIds
                        /\ l.starts \in Days /\ (l.ends = NoValue \/ l.ends \in Days)
                        /\ \A d \in Days : LET e == [l EXCEPT !.ends = d]
                                           IN /\ e \in LinkRow /\ PairOf(e) = PairOf(l)
                                              /\ e.starts = l.starts /\ e.ends = d
  /\ \A k, l \in LinkRow : RowOf(k) = RowOf(l) => PairOf(k) = PairOf(l) /\ k.starts = l.starts
<1>1. ASSUME NEW l \in LinkRow
      PROVE  /\ PairOf(l) \in CardIds \X CardIds
             /\ l.starts \in Days /\ (l.ends = NoValue \/ l.ends \in Days)
             /\ \A d \in Days : LET e == [l EXCEPT !.ends = d]
                                IN /\ e \in LinkRow /\ PairOf(e) = PairOf(l) /\ e.starts = l.starts /\ e.ends = d
  BY DEF LinkRow, PairOf
<1>2. ASSUME NEW k \in LinkRow, NEW l \in LinkRow, RowOf(k) = RowOf(l)
      PROVE  PairOf(k) = PairOf(l) /\ k.starts = l.starts
  <2>1. /\ RowOf(k).left = k.left /\ RowOf(k).right = k.right /\ RowOf(k).starts = k.starts
        /\ RowOf(l).left = l.left /\ RowOf(l).right = l.right /\ RowOf(l).starts = l.starts
    BY DEF LinkRow, RowOf
  <2>2. QED
    BY <1>2, <2>1 DEF PairOf
<1>3. QED
  BY <1>1, <1>2

(* The links after the commit of an import. The links of a pair that has not *)
(* raced are still those that were read, so that the day it read them rules. *)
LEMMA LinkedKeeps ==
  ASSUME FleetInv, NEW w \in Writers, import[w].stage = "links", NEW kept \in SUBSET Active(import[w]),
         OneOfEach(kept, Active(import[w])), links' = Linked(w, kept),
         raced' = raced \cup PairsOf((links \ import[w].read) \cup (import[w].read \ links)),
         registered' = import[w].named, importDay' = import[w].day, UNCHANGED today,
         \A u \in Writers : import'[u].stage = "links" => import'[u] = import[u]
  PROVE  /\ LinksFollowRegistry' /\ LinksArePast' /\ links' \subseteq LinkRow
         /\ raced' \subseteq CardIds \X CardIds /\ registered' \subseteq CardIds \X CardIds /\ importDay' \in Days
<1> DEFINE q == import[w]
           active == Active(q)
           closing == {RowOf(l) : l \in {k \in kept : PairOf(k) \notin q.named /\ k.ends = NoValue}}
           opening == q.named \ PairsOf(active)
           After(l) == IF RowOf(l) \in closing THEN [l EXCEPT !.ends = q.day] ELSE l
           opened == {[left |-> p[1], right |-> p[2], by |-> w, starts |-> q.day, ends |-> NoValue] : p \in opening}
<1>1. links' = {After(l) : l \in links} \cup opened
  BY DEF Linked
<1>2. /\ q.day \in Days /\ q.day \in Nat /\ q.day <= today /\ Past(q.read, q.day) /\ Past(links, today)
      /\ q.read \subseteq LinkRow /\ links \subseteq LinkRow /\ q.named \subseteq CardIds \X CardIds
      /\ today \in Nat /\ Days \subseteq Nat /\ NoValue \notin Days /\ raced \subseteq CardIds \X CardIds
  BY FleetTyped DEF FleetInv, FleetAgrees, FleetTypeOK, ImportRow, LinksArePast
<1>3. ASSUME NEW l \in links \cup q.read
      PROVE  /\ l \in LinkRow /\ PairOf(l) \in CardIds \X CardIds
             /\ l.starts \in Nat /\ l.starts \in Days
             /\ l.ends = NoValue \/ (l.ends \in Nat /\ l.ends \in Days /\ l.starts <= l.ends)
             /\ l \in links => l.starts <= today /\ (l.ends = NoValue \/ l.ends <= today)
             /\ l \in q.read => l.starts <= q.day /\ (l.ends = NoValue \/ l.ends <= q.day)
  BY <1>2, EndsOfLinks DEF Past
<1>4. ASSUME NEW l \in q.read PROVE l \in active <=> (l.ends = NoValue \/ l.ends = q.day)
  BY <1>2, <1>3 DEF Active
<1>5. /\ active \subseteq q.read /\ kept \subseteq active /\ PairsOf(kept) = PairsOf(active)
      /\ opening \subseteq q.named
  BY DEF Active, OneOfEach
<1>6. ASSUME NEW c \in closing
      PROVE  \E k \in kept : c = RowOf(k) /\ PairOf(k) \notin q.named /\ k.ends = NoValue
  OBVIOUS
<1>7. ASSUME NEW k \in kept, PairOf(k) \notin q.named, k.ends = NoValue PROVE RowOf(k) \in closing
  BY <1>7
<1>8. ASSUME NEW l \in opened
      PROVE  l \in LinkRow /\ PairOf(l) \in opening /\ l.starts = q.day /\ l.ends = NoValue
             /\ l = [left |-> PairOf(l)[1], right |-> PairOf(l)[2], by |-> w, starts |-> q.day, ends |-> NoValue]
  <2>1. PICK p \in opening : l = [left |-> p[1], right |-> p[2], by |-> w, starts |-> q.day, ends |-> NoValue]
    OBVIOUS
  <2>2. p[1] \in CardIds /\ p[2] \in CardIds /\ p = <<p[1], p[2]>>
    BY <1>2
  <2>3. PairOf(l) = p
    BY <2>1, <2>2 DEF PairOf
  <2>4. QED
    BY <1>2, <2>1, <2>2, <2>3 DEF LinkRow
<1>9. ASSUME NEW p \in opening PROVE \E l \in opened : PairOf(l) = p /\ l.ends = NoValue
  <2> DEFINE l == [left |-> p[1], right |-> p[2], by |-> w, starts |-> q.day, ends |-> NoValue]
  <2>1. l \in opened
    OBVIOUS
  <2>2. PairOf(l) = p /\ l.ends = NoValue
    BY <1>2 DEF PairOf
  <2>3. QED
    BY <2>1, <2>2
<1>10. \A l \in active : PairOf(l) \notin opening
  BY DEF PairsOf
<1>11. \A p \in q.named : p \in opening \/ \E l \in active : PairOf(l) = p
  BY DEF PairsOf
<1>12. ASSUME NEW l \in links
       PROVE  /\ After(l) \in LinkRow /\ PairOf(After(l)) = PairOf(l) /\ After(l).starts = l.starts
              /\ RowOf(l) \in closing => After(l).ends = q.day
              /\ RowOf(l) \notin closing => After(l) = l
  BY <1>2, <1>3, EndsOfLinks
<1> HIDE DEF closing, opening, opened, After, active, q
<1>13. ASSUME NEW l \in links, RowOf(l) \in closing
       PROVE  /\ PairOf(l) \notin q.named /\ PairOf(l) \in PairsOf(active) /\ l.starts <= q.day
              /\ \E k \in kept : PairOf(k) = PairOf(l) /\ k.starts = l.starts /\ k.ends = NoValue
  <2>1. PICK k \in kept : RowOf(l) = RowOf(k) /\ PairOf(k) \notin q.named /\ k.ends = NoValue
    BY <1>6, <1>13
  <2>2. k \in q.read /\ k \in active
    BY <1>5, <2>1
  <2>3. PairOf(k) = PairOf(l) /\ k.starts = l.starts
    BY <1>3, <2>1, <2>2, EndsOfLinks
  <2>4. QED
    BY <1>3, <2>1, <2>2, <2>3 DEF PairsOf
<1> DEFINE Raced(p) == p \in raced'
<1>14. ASSUME NEW l \in links \cup q.read, ~Raced(PairOf(l))
       PROVE  l \in links /\ l \in q.read /\ PairOf(l) \notin raced
  BY <1>14 DEF PairsOf, q
<1>15. ASSUME NEW k \in links, NEW l \in links, k # l, PairOf(k) = PairOf(l), PairOf(k) \notin raced
       PROVE  DaysOf(k) \cap DaysOf(l) = {}
  BY <1>15 DEF FleetInv, FleetAgrees, LinksFollowRegistry
<1>16. ASSUME NEW k \in links, NEW l \in links, PairOf(k) = PairOf(l), PairOf(k) \notin raced,
              NEW d \in Days, d \in DaysOf(k), d \in DaysOf(l)
       PROVE  k = l
  BY <1>15, <1>16
<1>17. raced' = raced \cup PairsOf((links \ q.read) \cup (q.read \ links)) /\ registered' = q.named /\ importDay' = q.day
  BY DEF q
<1> HIDE DEF Raced
<1>18. links' \subseteq LinkRow
  BY <1>1, <1>8, <1>12
<1>19. raced' \subseteq CardIds \X CardIds
  BY <1>2, <1>3, <1>17 DEF PairsOf
<1>20. ASSUME NEW l \in links', l.ends = NoValue, ~Raced(PairOf(l)) PROVE PairOf(l) \in q.named
  <2>1. CASE l \in opened
    BY <1>5, <1>8, <2>1
  <2>2. CASE l \notin opened
    <3>1. PICK m \in links : l = After(m)
      BY <1>1, <2>2
    <3>2. l = m /\ RowOf(m) \notin closing
      BY <1>2, <1>12, <1>20, <3>1
    <3>3. m \in links /\ m \in q.read /\ PairOf(m) \notin raced /\ m \in active
      BY <1>4, <1>14, <1>20, <3>2
    <3> SUFFICES ASSUME PairOf(m) \notin q.named PROVE FALSE
      BY <3>2
    <3>4. PICK k \in kept : PairOf(k) = PairOf(m)
      BY <1>5, <3>3 DEF PairsOf
    <3>5. k \in active /\ k \in q.read
      BY <1>5
    <3>6. k \in links
      BY <1>14, <1>20, <3>2, <3>4, <3>5
    <3>7. k = m
      <4>1. q.day \in DaysOf(k) /\ q.day \in DaysOf(m)
        BY <1>2, <1>3, <1>4, <3>3, <3>5 DEF DaysOf
      <4>2. QED
        BY <1>2, <1>16, <3>3, <3>4, <3>6, <4>1
    <3>8. RowOf(m) \in closing
      BY <1>7, <1>20, <3>2, <3>7
    <3>9. QED
      BY <3>2, <3>8
  <2>3. QED
    BY <2>1, <2>2
<1>21. ASSUME NEW p \in q.named, ~Raced(p)
       PROVE  \E l \in links' : PairOf(l) = p /\ l.ends \in {NoValue, q.day}
  <2>1. CASE p \in opening
    BY <1>1, <1>9, <2>1
  <2>2. CASE p \notin opening
    <3>1. PICK m \in active : PairOf(m) = p
      BY <1>11, <2>2
    <3>2. m \in q.read /\ m \in links /\ m.ends \in {NoValue, q.day}
      BY <1>4, <1>5, <1>14, <1>21, <3>1
    <3>3. RowOf(m) \notin closing
      BY <1>13, <3>1, <3>2
    <3>4. m \in links'
      BY <1>1, <1>12, <3>2, <3>3
    <3>5. QED
      BY <3>1, <3>2, <3>4
  <2>3. QED
    BY <2>1, <2>2
<1>22. ASSUME NEW m \in links, ~Raced(PairOf(m)) PROVE DaysOf(After(m)) \subseteq DaysOf(m)
  <2>1. CASE RowOf(m) \notin closing
    BY <1>12, <2>1
  <2>2. CASE RowOf(m) \in closing
    <3>1. PICK k \in kept : PairOf(k) = PairOf(m) /\ k.starts = m.starts /\ k.ends = NoValue
      BY <1>13, <2>2
    <3>2. k \in links /\ m \in links /\ PairOf(m) \notin raced
      BY <1>5, <1>14, <1>22, <3>1
    <3>3. m.starts \in DaysOf(k) /\ m.starts \in DaysOf(m) /\ m.starts \in Days
      BY <1>3, <3>1 DEF DaysOf
    <3>4. k = m
      BY <1>16, <3>1, <3>2, <3>3
    <3>5. m.ends = NoValue
      BY <3>1, <3>4
    <3>6. QED
      BY <1>12, <3>5 DEF DaysOf
  <2>3. QED
    BY <2>1, <2>2
<1>23. ASSUME NEW m \in links, NEW l \in opened, PairOf(m) = PairOf(l), ~Raced(PairOf(m))
       PROVE  DaysOf(After(m)) \cap DaysOf(l) = {}
  <2>1. PairOf(m) \in opening /\ l.starts = q.day
    BY <1>8, <1>23
  <2>2. m \in q.read /\ m \notin active
    BY <1>10, <1>14, <1>23, <2>1
  <2>3. m.ends # NoValue /\ m.ends \in Nat /\ m.ends < q.day
    BY <1>2, <1>3, <1>4, <2>2
  <2>4. ASSUME NEW d \in Days PROVE ~(d \in DaysOf(m) /\ d \in DaysOf(l))
    <3>1. d \in Nat
      BY <1>2
    <3>2. QED
      BY <1>2, <2>1, <2>3, <3>1 DEF DaysOf
  <2>5. DaysOf(After(m)) \subseteq DaysOf(m) /\ DaysOf(l) \subseteq Days
    BY <1>22, <1>23 DEF DaysOf
  <2>6. QED
    BY <2>4, <2>5
<1>24. ASSUME NEW k \in links', NEW l \in links', k # l, PairOf(k) = PairOf(l), ~Raced(PairOf(k))
       PROVE  DaysOf(k) \cap DaysOf(l) = {}
  <2>1. ASSUME NEW m \in links, NEW n \in links, k = After(m), l = After(n) PROVE DaysOf(k) \cap DaysOf(l) = {}
    <3>1. m # n /\ PairOf(m) = PairOf(n) /\ ~Raced(PairOf(m)) /\ ~Raced(PairOf(n))
      BY <1>12, <1>24, <2>1
    <3>2. DaysOf(m) \cap DaysOf(n) = {}
      BY <1>14, <1>15, <3>1
    <3>3. QED
      BY <1>22, <2>1, <3>1, <3>2
  <2>2. ASSUME NEW m \in links, k = After(m), l \in opened PROVE DaysOf(k) \cap DaysOf(l) = {}
    BY <1>12, <1>23, <1>24, <2>2
  <2>3. ASSUME NEW m \in links, l = After(m), k \in opened PROVE DaysOf(k) \cap DaysOf(l) = {}
    BY <1>12, <1>23, <1>24, <2>3
  <2>4. ~(k \in opened /\ l \in opened)
    BY <1>8, <1>24
  <2>5. QED
    BY <1>1, <2>1, <2>2, <2>3, <2>4
<1>25. LinksFollowRegistry'
  <2>1. \A l \in links' : l.ends = NoValue => PairOf(l) \in registered' \cup raced'
    BY <1>17, <1>20 DEF Raced
  <2>2. \A p \in registered' \ raced' : \E l \in links' : PairOf(l) = p /\ l.ends \in {NoValue, importDay'}
    BY <1>17, <1>21 DEF Raced
  <2>3. \A k, l \in links' : k # l /\ PairOf(k) = PairOf(l) /\ PairOf(k) \notin raced' => DaysOf(k) \cap DaysOf(l) = {}
    BY <1>24 DEF Raced
  <2>4. QED
    BY <2>1, <2>2, <2>3 DEF LinksFollowRegistry, PairOf, DaysOf
<1>26. Past(links', today)
  <2> SUFFICES ASSUME NEW l \in links'
               PROVE  l.starts <= today /\ (l.ends = NoValue \/ (l.starts <= l.ends /\ l.ends <= today))
    BY DEF Past
  <2>1. CASE l \in opened
    BY <1>2, <1>8, <2>1
  <2>2. CASE l \notin opened
    <3>1. PICK m \in links : l = After(m)
      BY <1>1, <2>2
    <3>2. QED
      BY <1>2, <1>3, <1>12, <1>13, <3>1
  <2>3. QED
    BY <2>1, <2>2
<1>27. LinksArePast'
  BY <1>26 DEF FleetInv, LinksArePast, Past
<1>28. QED
  BY <1>2, <1>17, <1>18, <1>19, <1>25, <1>27

LEMMA CommitImportKeeps ==
  ASSUME FleetInv, NEW w \in Writers, CommitImport(w)
  PROVE  FleetInv'
<1> DEFINE q == import[w]
           mine == {g \in q.flushed : g.card \in MadeBy(w)}
<1>1. /\ q.stage = "links"
      /\ card' = [i \in CardIds |->
                    [card[i] EXCEPT !.state = IF i \in MadeBy(w) THEN "live" ELSE @, !.says = SaysTo(w, i)]]
      /\ twins' = twins \cup UNION {{{f.card, k} : k \in {j \in LiveOf(f.vehicle) : Excused("registry", f.found, j)}} :
                                    f \in mine}
      /\ import' = [import EXCEPT ![w] = NoImport]
      /\ UNCHANGED <<today, writer>>
  BY DEF CommitImport
<1>2. /\ card \in [CardIds -> CardRow] /\ import \in [Writers -> ImportRow] /\ twins \subseteq SUBSET CardIds
  BY DEF FleetInv, FleetAgrees, FleetTypeOK
<1>3. /\ import' \in [Writers -> ImportRow] /\ import'[w].flushed = {} /\ import'[w].stage = "rows"
      /\ \A u \in Writers : u # w => import'[u] = import[u]
  BY <1>1, <1>2, FleetTyped
<1>4. \A u \in Writers : import'[u].stage = "links" => import'[u] = import[u]
  BY <1>3
<1>5. /\ LinksFollowRegistry' /\ LinksArePast' /\ links' \subseteq LinkRow
      /\ raced' \subseteq CardIds \X CardIds /\ registered' \subseteq CardIds \X CardIds /\ importDay' \in Days
  <2>1. PICK kept \in SUBSET Active(q) : OneOfEach(kept, Active(q)) /\ links' = Linked(w, kept)
    BY DEF CommitImport
  <2>2. /\ raced' = raced \cup PairsOf((links \ q.read) \cup (q.read \ links))
        /\ registered' = q.named /\ importDay' = q.day
    BY DEF CommitImport
  <2>3. QED
    BY <1>1, <1>4, <2>1, <2>2, LinkedKeeps
<1>6. ASSUME NEW f \in mine
      PROVE  /\ f \in FlushedRow /\ f.card \in CardIds /\ f.found = {} /\ f.vehicle \in Machines
             /\ card[f.card].state = "pending" /\ card[f.card].vehicle = f.vehicle
             /\ \A g \in mine : g.vehicle = f.vehicle => g = f
  <2>1. PICK g \in q.flushed : g.card = f.card /\ card[g.card].state = "pending"
    BY DEF MadeBy
  <2>2. f \in FlushedRow
    BY <1>2 DEF ImportRow
  <2>3. QED
    BY <2>1, <2>2 DEF FleetInv, OwnCards, FlushedRow
<1>7. \A i \in CardIds : i \in MadeBy(w) <=> \E f \in mine : f.card = i
  BY DEF MadeBy
<1>8. ASSUME NEW i \in CardIds PROVE SaysTo(w, i) \in SUBSET Marks
  <2>1. \A g \in q.flushed : g.row \in SUBSET Marks
    BY <1>2 DEF ImportRow, FlushedRow
  <2>2. card[i].says \in SUBSET Marks
    BY <1>2 DEF CardRow
  <2>3. QED
    BY <2>1, <2>2 DEF SaysTo, Filled
<1> DEFINE Excuses(f) == {{f.card, k} : k \in {j \in LiveOf(f.vehicle) : Excused("registry", f.found, j)}}
<1>8a. twins' = twins \cup UNION {Excuses(f) : f \in mine}
  BY <1>1
<1> HIDE DEF mine
<1>9. ASSUME NEW i \in CardIds
      PROVE  /\ card'[i] \in CardRow /\ card'[i].vehicle = card[i].vehicle
             /\ card'[i].state = IF i \in MadeBy(w) THEN "live" ELSE card[i].state
  <2> DEFINE state == IF i \in MadeBy(w) THEN "live" ELSE card[i].state
  <2>1. card[i] \in CardRow /\ state \in {"none", "pending", "live", "archived"}
    BY <1>2 DEF CardRow
  <2>2. card'[i] = [card[i] EXCEPT !.state = state, !.says = SaysTo(w, i)]
    BY <1>1, <2>1 DEF CardRow
  <2> HIDE DEF state
  <2>3. /\ card'[i] \in CardRow /\ card'[i].vehicle = card[i].vehicle /\ card'[i].state = state
    BY <1>8, <2>1, <2>2 DEF CardRow
  <2>4. QED
    BY <2>3 DEF state
<1>10. card' \in [CardIds -> CardRow]
  BY <1>1, <1>9
<1>11. ASSUME NEW f \in mine, NEW k \in LiveOf(f.vehicle) PROVE {f.card, k} \in twins'
  <2>1. k \in {j \in LiveOf(f.vehicle) : Excused("registry", f.found, j)}
    BY <1>6 DEF Excused
  <2>2. {f.card, k} \in Excuses(f)
    BY <2>1
  <2> HIDE DEF Excuses
  <2>3. QED
    BY <1>8a, <2>2
<1>12. twins' \subseteq SUBSET CardIds
  <2>1. \A f \in mine : Excuses(f) \subseteq SUBSET CardIds
    BY <1>6 DEF LiveOf
  <2> HIDE DEF Excuses
  <2>2. QED
    BY <1>8a, <1>2, <2>1
<1>13. FleetTypeOK'
  BY <1>1, <1>3, <1>5, <1>10, <1>12 DEF FleetInv, FleetAgrees, FleetTypeOK
<1>14. TwinsHaveCause'
  <2> SUFFICES ASSUME NEW v \in Machines, NEW j \in LiveOf(v)', NEW k \in LiveOf(v)', j # k
               PROVE  {j, k} \in twins'
    BY DEF TwinsHaveCause
  <2>1. ASSUME NEW i \in LiveOf(v)'
        PROVE  i \in LiveOf(v) \/ \E f \in mine : f.card = i /\ f.vehicle = v
    <3>1. i \in CardIds /\ card'[i].state = "live" /\ card'[i].vehicle = v
      BY DEF LiveOf
    <3>2. QED
      BY <1>6, <1>7, <1>9, <3>1 DEF LiveOf
  <2>2. CASE j \in LiveOf(v) /\ k \in LiveOf(v)
    BY <1>1, <2>2 DEF FleetInv, FleetAgrees, TwinsHaveCause
  <2>3. ASSUME NEW f \in mine, f.card = j, f.vehicle = v, k \in LiveOf(v) PROVE {j, k} \in twins'
    BY <1>11, <2>3
  <2>4. ASSUME NEW f \in mine, f.card = k, f.vehicle = v, j \in LiveOf(v) PROVE {j, k} \in twins'
    <3>1. {j, k} = {k, j}
      OBVIOUS
    <3>2. QED
      BY <1>11, <2>4, <3>1
  <2>5. ASSUME NEW f \in mine, NEW g \in mine, f.card = j, g.card = k, f.vehicle = v, g.vehicle = v
        PROVE  FALSE
    BY <1>6, <2>5
  <2>6. QED
    BY <2>1, <2>2, <2>3, <2>4, <2>5
<1>15. SearchesGoOn'
  BY <1>1 DEF FleetInv, SearchesGoOn
<1>16. OwnCards'
  BY <1>3, <1>9, OwnCardsStay
<1>17. QED
  BY <1>5, <1>13, <1>14, <1>15, <1>16 DEF FleetInv, FleetAgrees

LEMMA FleetStepKeeps == FleetInv /\ [FleetNext]_fleetVars => FleetInv'
<1> SUFFICES ASSUME FleetInv, [FleetNext]_fleetVars PROVE FleetInv'
  OBVIOUS
<1>1. CASE UNCHANGED fleetVars
  BY <1>1 DEF fleetVars, FleetInv, FleetAgrees, FleetTypeOK, TwinsHaveCause, LiveOf, LinksFollowRegistry,
              SearchesGoOn, OwnCards, LinksArePast, PairOf, DaysOf
<1>2. CASE FleetNext
  BY <1>2, SearchesKeep, MakesNewKeeps, GivesUpKeeps, UpsertRowKeeps, ReadLinksKeeps, CommitImportKeeps,
     ImportFailsKeeps, ArchiveCardKeeps, RestoreCardKeeps, NextDayKeeps DEF FleetNext
<1>3. QED
  BY <1>1, <1>2

(* Whatever searches, overlapping imports and restores do: a vehicle that    *)
(* has one live card gets a second one only where its search could not take  *)
(* the first, and the open links are those of the last registry, one a day,  *)
(* but for pairs that imports raced for (vehicle_matching.py:24,             *)
(* import_vehicles.py:95, 181).                                              *)
THEOREM CardsAndLinksAgree == FleetSpec => []FleetAgrees
<1>1. FleetInv => FleetAgrees
  BY DEF FleetInv
<1>2. QED
  BY FleetInitHolds, FleetStepKeeps, <1>1, PTL DEF FleetSpec

-----------------------------------------------------------------------------
(***************************************************************************)
(* Old repairs, for any workbook, imports, limits, cards and edits of the    *)
(* reasons. A running import creates nothing that it recognized, and creates *)
(* no group that it refuses.                                                 *)
(***************************************************************************)
JobStatuses == {"none", "started", "read", "completed", "conflicts", "failed", "lost"}
MadeRow == [status : {"none", "live", "archived"}, key : Keys \cup {Nothing}, reason : Keys \cup {Nothing},
            card : Cards \cup {Nothing}, service : BOOLEAN, job : Imports \cup {Nothing}]
JobRow == [status : JobStatuses, limit : ImportLimits \cup {1}, card : Cards \cup {Nothing},
           seen : SUBSET RowIds, creates : SUBSET Keys, refuses : SUBSET (Keys \X Reasons)]

Made == {r \in RowIds : made[r].status # "none"}

\* Two repairs of one key are known, live or not: an archived one may come back.
MadeOnce == \A q, r \in Made : q # r /\ made[q].key = made[r].key => {q, r} \in doubled

\* What an import that has read its workbook still knows when it commits.
Remembers(j) ==
  LET q == job[j] IN
  q.status = "read" =>
    /\ q.seen \subseteq Made
    /\ \A r \in q.seen : made[r].key \notin q.creates
    /\ \A f \in q.refuses : f[1] \notin q.creates
    /\ q.creates # {} => q.card \in Cards

OldImportInv ==
  /\ ImportedOnce
  /\ \A r \in RowIds : IF r \in Made THEN made[r].job \in Imports ELSE made[r] = NotMade
  /\ MadeOnce
  /\ \A j \in Imports : Remembers(j)

LEMMA ImportTyped ==
  ASSUME OldImportInv
  PROVE  /\ made \in [RowIds -> MadeRow] /\ job \in [Imports -> JobRow]
         /\ conflicts \subseteq Conflict /\ doubled \subseteq SUBSET RowIds
         /\ cards \in [Cards -> {"none", "live", "archived"}]
  BY DEF OldImportInv, ImportedOnce, ImportTypeOK, MadeRow, JobRow, JobStatuses

LEMMA OldRowsType == NotMade \in MadeRow /\ NoJob \in JobRow /\ NoJob.status = "none"
  BY DEF NotMade, NoJob, MadeRow, JobRow, JobStatuses

LEMMA ImportInitHolds == ImportInit => OldImportInv
<1> SUFFICES ASSUME ImportInit PROVE OldImportInv
  OBVIOUS
<1>1. Made = {}
  BY DEF ImportInit, Made, NotMade
<1>2. ImportTypeOK
  <2>1. made \in [RowIds -> MadeRow] /\ job \in [Imports -> JobRow]
    BY OldRowsType DEF ImportInit
  <2>2. cards \in [Cards -> {"none", "live", "archived"}] /\ conflicts = {} /\ doubled = {} /\ shop = "none"
    BY DEF ImportInit
  <2>3. \A r \in RowIds : made[r].status = "none"
    BY <1>1 DEF Made
  <2>4. QED
    BY <2>1, <2>2, <2>3 DEF ImportTypeOK, MadeRow, JobRow, JobStatuses
<1>3. OldRepairsLiveOnce
  BY <1>1 DEF OldRepairsLiveOnce, Live, Made
<1>4. JobsTellWhatTheyDid
  BY <1>1 DEF JobsTellWhatTheyDid, Made, ImportInit, NoJob
<1>5. \A r \in RowIds : made[r] = NotMade
  BY DEF ImportInit
<1>6. MadeOnce /\ \A j \in Imports : Remembers(j)
  BY <1>1 DEF MadeOnce, Remembers, ImportInit, NoJob
<1>7. QED
  BY <1>1, <1>2, <1>3, <1>4, <1>5, <1>6 DEF OldImportInv, ImportedOnce

\* A repair that lives is a repair that was made.
LEMMA OnceLive == MadeOnce => OldRepairsLiveOnce
  BY DEF MadeOnce, OldRepairsLiveOnce, Live, Made

\* Steps that write no repair and no conflict: one job, or what stands around.
LEMMA JobMoves ==
  ASSUME OldImportInv, NEW j \in Imports, NEW q \in JobRow, job' = [job EXCEPT ![j] = q],
         UNCHANGED <<made, cards, shop, conflicts, doubled>>,
         job[j].status \in {"none", "started", "read"}, q.status \in {"started", "read", "failed", "lost"},
         Remembers(j)'
  PROVE  OldImportInv'
<1>1. /\ job \in [Imports -> JobRow] /\ job' \in [Imports -> JobRow] /\ job'[j] = q
      /\ \A i \in Imports \ {j} : job'[i] = job[i]
  BY ImportTyped
<1>2. Made' = Made
  BY DEF Made
<1>3. ImportTypeOK'
  BY <1>1 DEF OldImportInv, ImportedOnce, ImportTypeOK, JobRow, JobStatuses
<1>4. JobsTellWhatTheyDid'
  <2>1. \A i \in Imports : Finished(i)' <=> Finished(i)
    BY <1>1 DEF Finished
  <2>2. \A i \in Imports : job'[i].status = "conflicts" <=> job[i].status = "conflicts"
    BY <1>1
  <2>3. \A r \in RowIds : made[r].status # "none" => made[r].job \in Imports
    BY DEF OldImportInv, Made
  <2>4. \A c \in conflicts : c.job \in Imports
    BY ImportTyped DEF Conflict
  <2>5. QED
    BY <2>1, <2>2, <2>3, <2>4 DEF OldImportInv, ImportedOnce, JobsTellWhatTheyDid
<1>5. MadeOnce' /\ \A r \in RowIds : IF r \in Made' THEN made'[r].job \in Imports ELSE made'[r] = NotMade
  BY <1>2 DEF OldImportInv, MadeOnce
<1>6. ASSUME NEW i \in Imports PROVE Remembers(i)'
  BY <1>1, <1>2 DEF OldImportInv, Remembers
<1>7. OldRepairsLiveOnce'
  BY <1>5, OnceLive DEF OldRepairsLiveOnce, MadeOnce, Live, Made
<1>8. QED
  BY <1>3, <1>4, <1>5, <1>6, <1>7 DEF OldImportInv, ImportedOnce

\* Steps around the imports: the keys of the repairs, the jobs and what they know stay.
LEMMA RowsMove ==
  ASSUME OldImportInv, UNCHANGED <<job, doubled>>,
         made' \in [RowIds -> MadeRow], cards' \in [Cards -> {"none", "live", "archived"}],
         shop' \in {"none", "live", "archived"},
         \A r \in RowIds : /\ made'[r].status = "none" <=> made[r].status = "none"
                           /\ made'[r].key = made[r].key /\ made'[r].card = made[r].card
                           /\ made'[r].job = made[r].job
                           /\ made[r].status = "none" => made'[r] = made[r],
         conflicts' \subseteq Conflict,
         \A c \in conflicts' : \E d \in conflicts : c.job = d.job /\ c.key = d.key,
         \A d \in conflicts : \E c \in conflicts' : c.job = d.job
  PROVE  OldImportInv'
<1>1. Made' = Made
  BY DEF Made
<1>2. ImportTypeOK'
  <2>1. \A r \in RowIds : made'[r].status # "none" => made'[r].card \in Cards
    BY DEF OldImportInv, ImportedOnce, ImportTypeOK
  <2>2. job' \in [Imports -> JobRow] /\ doubled' \subseteq SUBSET RowIds
    BY ImportTyped
  <2>3. QED
    BY <2>1, <2>2 DEF ImportTypeOK, MadeRow, JobRow, JobStatuses
<1>3. JobsTellWhatTheyDid'
  BY DEF OldImportInv, ImportedOnce, JobsTellWhatTheyDid, Finished
<1>4. MadeOnce' /\ \A r \in RowIds : IF r \in Made' THEN made'[r].job \in Imports ELSE made'[r] = NotMade
  BY <1>1 DEF OldImportInv, MadeOnce, Made
<1>5. ASSUME NEW i \in Imports PROVE Remembers(i)'
  <2>1. Remembers(i) /\ job[i] \in JobRow
    BY ImportTyped DEF OldImportInv
  <2>2. job[i].seen \subseteq RowIds
    BY <2>1 DEF JobRow
  <2>3. QED
    BY <1>1, <2>1, <2>2 DEF Remembers
<1>6. OldRepairsLiveOnce'
  BY <1>4, OnceLive DEF OldRepairsLiveOnce, MadeOnce, Live, Made
<1>7. QED
  BY <1>2, <1>3, <1>4, <1>5, <1>6 DEF OldImportInv, ImportedOnce

LEMMA StartImportKeeps ==
  ASSUME OldImportInv, NEW j \in Imports, NEW limit \in ImportLimits, StartImport(j, limit)
  PROVE  OldImportInv'
<1> DEFINE q == [job[j] EXCEPT !.status = "started", !.limit = limit]
<1>1. job[j] \in JobRow /\ job \in [Imports -> JobRow] /\ job[j].status = "none"
  BY ImportTyped DEF StartImport
<1>2. q \in JobRow /\ q.status = "started"
  BY <1>1 DEF JobRow, JobStatuses
<1>3. job' = [job EXCEPT ![j] = q] /\ UNCHANGED <<made, cards, shop, conflicts, doubled>>
  BY <1>1 DEF StartImport
<1> HIDE DEF q
<1>4. Remembers(j)'
  BY <1>1, <1>2, <1>3 DEF Remembers
<1>5. QED
  BY <1>1, <1>2, <1>3, <1>4, JobMoves

LEMMA EndsKeep ==
  ASSUME OldImportInv, NEW j \in Imports, FailImport(j) \/ DieImporting(j)
  PROVE  OldImportInv'
<1>1. PICK status \in {"failed", "lost"} : job' = [job EXCEPT ![j] = Cleared(status)]
  BY DEF FailImport, DieImporting
<1>2. /\ UNCHANGED <<made, cards, shop, conflicts, doubled>> /\ job[j].status \in {"started", "read"}
      /\ job \in [Imports -> JobRow]
  BY ImportTyped DEF FailImport, DieImporting
<1>3. Cleared(status) \in JobRow /\ Cleared(status).status = status
  BY OldRowsType DEF Cleared, JobRow, JobStatuses
<1>4. Remembers(j)'
  BY <1>1, <1>2, <1>3 DEF Remembers
<1>5. QED
  BY <1>1, <1>2, <1>3, <1>4, JobMoves

\* What the lookups and the loop over the groups find.
LEMMA GroupsAreJudged ==
  ASSUME NEW v, NEW limit, NEW x, NEW k \in GroupsWith(v, limit, x)
  PROVE  k \in Keys /\ Verdict(k, x) = v
  BY DEF GroupsWith, Keys

LEMMA ReadWorkbookKeeps ==
  ASSUME OldImportInv, NEW j \in Imports, ReadWorkbook(j)
  PROVE  OldImportInv'
<1> DEFINE With(x, v) == GroupsWith(v, job[j].limit, x)
           Refused(x) == UNION {With(x, v) \X {v} : v \in Reasons}
<1>1. PICK x \in LookedUp :
        job' = [job EXCEPT ![j] = [@ EXCEPT !.status = "read", !.card = x, !.seen = Recognized,
                                            !.creates = With(x, "create"), !.refuses = Refused(x)]]
  BY DEF ReadWorkbook
<1>2. /\ job[j].status = "started" /\ UNCHANGED <<made, cards, shop, conflicts, doubled>>
      /\ job[j] \in JobRow /\ job \in [Imports -> JobRow]
  BY ImportTyped DEF ReadWorkbook
<1> DEFINE creates == With(x, "create")
           refuses == Refused(x)
           q == [job[j] EXCEPT !.status = "read", !.card = x, !.seen = Recognized,
                               !.creates = creates, !.refuses = refuses]
<1>3. job' = [job EXCEPT ![j] = q]
  BY <1>1, <1>2
<1>4. \A k \in creates : k \in Keys /\ Verdict(k, x) = "create"
  BY GroupsAreJudged
<1>5. \A f \in refuses : f \in Keys \X Reasons /\ Verdict(f[1], x) = f[2]
  <2> SUFFICES ASSUME NEW v \in Reasons, NEW k \in With(x, v)
               PROVE  k \in Keys /\ Verdict(k, x) = v
    OBVIOUS
  <2>1. QED
    BY GroupsAreJudged
<1>6. x \in Cards \cup {Nothing}
  BY <1>1 DEF LookedUp, LiveCards
<1>7. Recognized \subseteq Made /\ Made \subseteq RowIds
  BY DEF Recognized, SeenRows, Visible, Live, Made
<1> HIDE DEF creates, refuses
<1>8. /\ q \in JobRow /\ q.status = "read" /\ q.card = x /\ q.seen = Recognized
      /\ q.creates = creates /\ q.refuses = refuses
  <2>1. Recognized \in SUBSET RowIds /\ creates \in SUBSET Keys /\ refuses \in SUBSET (Keys \X Reasons)
    BY <1>4, <1>5, <1>7
  <2>2. QED
    BY <1>2, <1>6, <2>1 DEF JobRow, JobStatuses
<1> HIDE DEF q
<1>9. /\ \A r \in Recognized : made[r].key \notin creates
      /\ creates # {} => x \in Cards
  BY <1>4, <1>6 DEF Verdict, KnownKeys, Recognized
<1>10. \A f \in refuses : f[1] \notin creates
  <2> SUFFICES ASSUME NEW f \in refuses, f[1] \in creates PROVE FALSE
    OBVIOUS
  <2>1. f[2] = "create" /\ f[2] \in Reasons
    BY <1>4, <1>5
  <2>2. QED
    BY <2>1 DEF Reasons
<1>11. Remembers(j)'
  <2>1. job'[j] = q /\ Made' = Made
    BY <1>2, <1>3 DEF Made
  <2>2. QED
    BY <1>2, <1>7, <1>8, <1>9, <1>10, <2>1 DEF Remembers
<1>12. QED
  BY <1>2, <1>3, <1>8, <1>11, JobMoves

LEMMA AroundKeeps ==
  ASSUME OldImportInv,
         \/ \E c \in conflicts, status \in {"resolved", "ignored"} : ResolveConflict(c, status)
         \/ \E c \in Cards : NewCardOfPlate(c) \/ SwitchCard(c)
         \/ SwitchShop
         \/ \E r \in RowIds : SwitchRepair(r)
         \/ \E r \in RowIds : \E reason \in Keys \cup {Nothing} : EditReason(r, reason)
  PROVE  OldImportInv'
<1>1. /\ made \in [RowIds -> MadeRow] /\ conflicts \subseteq Conflict
      /\ cards \in [Cards -> {"none", "live", "archived"}] /\ shop \in {"none", "live", "archived"}
  BY ImportTyped DEF OldImportInv, ImportedOnce, ImportTypeOK
<1>2. CASE \E c \in conflicts, status \in {"resolved", "ignored"} : ResolveConflict(c, status)
  <2>1. PICK c \in conflicts, status \in {"resolved", "ignored"} : ResolveConflict(c, status)
    BY <1>2
  <2> DEFINE d == [c EXCEPT !.status = status]
  <2>2. d \in Conflict /\ d.job = c.job /\ d.key = c.key
    BY <1>1 DEF Conflict
  <2>3. conflicts' = (conflicts \ {c}) \cup {d} /\ UNCHANGED <<made, cards, shop, job, doubled>>
    BY <2>1 DEF ResolveConflict
  <2> HIDE DEF d
  <2>4. \A f \in conflicts' : \E e \in conflicts : f.job = e.job /\ f.key = e.key
    BY <2>2, <2>3
  <2>5. \A e \in conflicts : \E f \in conflicts' : f.job = e.job
    BY <2>2, <2>3
  <2>6. conflicts' \subseteq Conflict
    BY <1>1, <2>2, <2>3
  <2>7. QED
    BY <1>1, <2>3, <2>4, <2>5, <2>6, RowsMove
<1>3. CASE \E c \in Cards : NewCardOfPlate(c) \/ SwitchCard(c)
  <2>1. cards' \in [Cards -> {"none", "live", "archived"}] /\ UNCHANGED <<made, shop, job, conflicts, doubled>>
    BY <1>1, <1>3 DEF NewCardOfPlate, SwitchCard
  <2>2. QED
    BY <1>1, <2>1, RowsMove
<1>4. CASE SwitchShop
  <2>1. shop' \in {"none", "live", "archived"} /\ UNCHANGED <<made, cards, job, conflicts, doubled>>
    BY <1>1, <1>4 DEF SwitchShop
  <2>2. QED
    BY <1>1, <2>1, RowsMove
<1>5. CASE \E r \in RowIds : SwitchRepair(r)
  <2>1. PICK r \in RowIds : SwitchRepair(r)
    BY <1>5
  <2> DEFINE status == IF made[r].status = "live" THEN "archived" ELSE "live"
  <2>2. /\ made' = [made EXCEPT ![r] = [made[r] EXCEPT !.status = status]] /\ made[r].status # "none"
        /\ UNCHANGED <<cards, shop, job, conflicts, doubled>>
    BY <1>1, <2>1 DEF SwitchRepair
  <2>3. status \in {"archived", "live"}
    OBVIOUS
  <2> HIDE DEF status
  <2> DEFINE row == [made[r] EXCEPT !.status = status]
  <2>4. /\ row \in MadeRow /\ row.status = status /\ row.key = made[r].key
        /\ row.card = made[r].card /\ row.job = made[r].job
    BY <1>1, <2>3 DEF MadeRow
  <2>5. made' = [made EXCEPT ![r] = row]
    BY <2>2
  <2> HIDE DEF row
  <2>6. made' \in [RowIds -> MadeRow] /\ \A q \in RowIds : made'[q] = IF q = r THEN row ELSE made[q]
    BY <1>1, <2>4, <2>5
  <2>7. \A q \in RowIds : /\ made'[q].status = "none" <=> made[q].status = "none"
                          /\ made'[q].key = made[q].key /\ made'[q].card = made[q].card
                          /\ made'[q].job = made[q].job
                          /\ made[q].status = "none" => made'[q] = made[q]
    BY <2>2, <2>3, <2>4, <2>6
  <2>8. QED
    BY <1>1, <2>2, <2>6, <2>7, RowsMove
<1>6. CASE \E r \in RowIds : \E reason \in Keys \cup {Nothing} : EditReason(r, reason)
  <2>1. PICK r \in RowIds : \E reason \in Keys \cup {Nothing} : EditReason(r, reason)
    BY <1>6
  <2>2. PICK reason \in Keys \cup {Nothing} : EditReason(r, reason)
    BY <2>1
  <2> DEFINE row == [made[r] EXCEPT !.reason = reason]
  <2>3. /\ made' = [made EXCEPT ![r] = row] /\ made[r].status = "live"
        /\ UNCHANGED <<cards, shop, job, conflicts, doubled>>
    BY <1>1, <2>2 DEF EditReason, Visible, Live
  <2>4. /\ row \in MadeRow /\ row.status = made[r].status /\ row.key = made[r].key
        /\ row.card = made[r].card /\ row.job = made[r].job
    BY <1>1 DEF MadeRow
  <2> HIDE DEF row
  <2>5. made' \in [RowIds -> MadeRow] /\ \A q \in RowIds : made'[q] = IF q = r THEN row ELSE made[q]
    BY <1>1, <2>3, <2>4
  <2>6. \A q \in RowIds : /\ made'[q].status = "none" <=> made[q].status = "none"
                          /\ made'[q].key = made[q].key /\ made'[q].card = made[q].card
                          /\ made'[q].job = made[q].job
                          /\ made[q].status = "none" => made'[q] = made[q]
    BY <2>3, <2>4, <2>5
  <2>7. QED
    BY <1>1, <2>3, <2>5, <2>6, RowsMove
<1>7. QED
  BY <1>2, <1>3, <1>4, <1>5, <1>6

LEMMA FinishImportKeeps ==
  ASSUME OldImportInv, NEW j \in Imports, FinishImport(j)
  PROVE  OldImportInv'
<1> DEFINE q == job[j]
           free == {r \in RowIds : made[r].status = "none"}
           told == {[job |-> j, key |-> f[1], reason |-> f[2], status |-> "pending"] : f \in q.refuses}
           ending == IF q.refuses = {} THEN "completed" ELSE "conflicts"
<1>1. PICK row \in [q.creates -> free] :
        /\ \A k, l \in q.creates : k # l => row[k] # row[l]
        /\ made' = [r \in RowIds |-> IF \E k \in q.creates : row[k] = r
                                      THEN RowFor(CHOOSE k \in q.creates : row[k] = r, j) ELSE made[r]]
        /\ doubled' = doubled \cup UNION {{{row[k], r} : r \in (RowIds \ free) \ q.seen} : k \in q.creates}
  BY DEF FinishImport
<1>2. /\ q.status = "read"
      /\ shop' \in {shop, "live"}
      /\ conflicts' = conflicts \cup told
      /\ job' = [job EXCEPT ![j] = Cleared(ending)]
      /\ UNCHANGED cards
  BY DEF FinishImport
<1>3. /\ made \in [RowIds -> MadeRow] /\ job \in [Imports -> JobRow] /\ q \in JobRow
      /\ conflicts \subseteq Conflict /\ doubled \subseteq SUBSET RowIds
  BY ImportTyped
<1>4. /\ q.seen \subseteq Made
      /\ \A r \in q.seen : made[r].key \notin q.creates
      /\ \A f \in q.refuses : f[1] \notin q.creates
      /\ q.creates # {} => q.card \in Cards
  BY <1>2 DEF OldImportInv, Remembers
<1>5. q.creates \subseteq Keys /\ q.refuses \subseteq Keys \X Reasons
  BY <1>3 DEF JobRow
<1>6. free = RowIds \ Made
  BY DEF Made
<1>7. /\ ending \in {"completed", "conflicts"} /\ (ending = "conflicts" <=> q.refuses # {})
      /\ Cleared(ending) \in JobRow /\ Cleared(ending).status = ending
  BY OldRowsType DEF Cleared, JobRow, JobStatuses
<1> HIDE DEF ending
<1>8. /\ job' \in [Imports -> JobRow] /\ job'[j].status = ending
      /\ \A i \in Imports \ {j} : job'[i] = job[i]
  BY <1>2, <1>3, <1>7
<1>9. told \subseteq Conflict /\ \A c \in told : c.job = j /\ c.key \notin q.creates
  <2> SUFFICES ASSUME NEW f \in q.refuses
               PROVE  LET c == [job |-> j, key |-> f[1], reason |-> f[2], status |-> "pending"]
                      IN c \in Conflict /\ c.job = j /\ c.key \notin q.creates
    OBVIOUS
  <2>1. f[1] \in Keys /\ f[2] \in Reasons
    BY <1>5
  <2>2. QED
    BY <1>4, <2>1 DEF Conflict
<1>10. told # {} <=> q.refuses # {}
  OBVIOUS
<1> HIDE DEF told
<1>11. ASSUME NEW k \in q.creates
       PROVE  /\ RowFor(k, j) \in MadeRow /\ RowFor(k, j).status = "live" /\ RowFor(k, j).key = k
              /\ RowFor(k, j).card \in Cards /\ RowFor(k, j).job = j
  BY <1>4, <1>5 DEF RowFor, MadeRow
<1> HIDE DEF q
<1>12. ASSUME NEW k \in q.creates
       PROVE  row[k] \in RowIds \ Made /\ made'[row[k]] = RowFor(k, j)
  <2>1. row[k] \in RowIds \ Made
    BY <1>1, <1>6
  <2> DEFINE l == CHOOSE x \in q.creates : row[x] = row[k]
  <2>2. l = k
    BY <1>1
  <2> HIDE DEF l
  <2>3. made'[row[k]] = RowFor(l, j)
    BY <1>1, <2>1 DEF l
  <2>4. QED
    BY <2>1, <2>2, <2>3
<1>13. ASSUME NEW r \in RowIds, \A k \in q.creates : row[k] # r
       PROVE  made'[r] = made[r]
  BY <1>1, <1>13
<1>14. ASSUME NEW r \in RowIds
       PROVE  (\E k \in q.creates : r = row[k]) \/ made'[r] = made[r]
  BY <1>13
<1>15. made' \in [RowIds -> MadeRow]
  <2>1. made' = [r \in RowIds |-> made'[r]]
    BY <1>1
  <2>2. \A r \in RowIds : made'[r] \in MadeRow
    BY <1>3, <1>11, <1>12, <1>14
  <2>3. QED
    BY <2>1, <2>2
<1>16. ASSUME NEW r \in Made PROVE r \in RowIds /\ made'[r] = made[r]
  BY <1>12, <1>14 DEF Made
<1>17. ASSUME NEW r \in Made' PROVE r \in RowIds /\ (r \in Made \/ \E k \in q.creates : r = row[k])
  BY <1>14 DEF Made
<1>18. \A r \in RowIds : IF r \in Made' THEN made'[r].job \in Imports ELSE made'[r] = NotMade
  BY <1>11, <1>12, <1>14 DEF OldImportInv, Made
<1>19. \A r \in RowIds : made'[r].status # "none" => made'[r].card \in Cards
  BY <1>11, <1>12, <1>14 DEF OldImportInv, ImportedOnce, ImportTypeOK
<1>20. doubled' \subseteq SUBSET RowIds
  <2>1. \A k \in q.creates : \A r \in (RowIds \ free) \ q.seen : {row[k], r} \in SUBSET RowIds
    BY <1>12
  <2>2. QED
    BY <1>1, <1>3, <2>1
<1>21. ImportTypeOK'
  <2>1. cards' \in [Cards -> {"none", "live", "archived"}] /\ shop' \in {"none", "live", "archived"}
    BY <1>2 DEF OldImportInv, ImportedOnce, ImportTypeOK
  <2>2. conflicts' \subseteq Conflict
    BY <1>2, <1>3, <1>9
  <2>3. QED
    BY <1>8, <1>15, <1>19, <1>20, <2>1, <2>2 DEF ImportTypeOK, MadeRow, JobRow, JobStatuses
<1>22. ASSUME NEW x \in Made', NEW y \in Made', x # y, made'[x].key = made'[y].key
       PROVE  {x, y} \in doubled'
  <2>1. CASE x \in Made /\ y \in Made
    <3>1. made[x].key = made[y].key
      BY <1>16, <1>22, <2>1
    <3>2. {x, y} \in doubled
      BY <1>22, <2>1, <3>1 DEF OldImportInv, MadeOnce
    <3>3. QED
      BY <1>1, <3>2
  <2>2. ASSUME NEW k \in q.creates, NEW r \in Made, made[r].key = k
        PROVE  {row[k], r} \in doubled'
    <3>1. r \in RowIds \ free /\ r \notin q.seen
      BY <1>4, <1>6, <2>2 DEF Made, q
    <3>2. QED
      BY <1>1, <3>1
  <2>3. CASE x \in Made /\ y \notin Made
    <3>1. PICK k \in q.creates : y = row[k]
      BY <1>17, <2>3
    <3>2. made[x].key = k
      BY <1>11, <1>12, <1>16, <1>22, <2>3, <3>1
    <3>3. {x, y} = {row[k], x}
      BY <3>1
    <3>4. QED
      BY <2>2, <2>3, <3>2, <3>3
  <2>4. CASE x \notin Made /\ y \in Made
    <3>1. PICK k \in q.creates : x = row[k]
      BY <1>17, <2>4
    <3>2. made[y].key = k
      BY <1>11, <1>12, <1>16, <1>22, <2>4, <3>1
    <3>3. QED
      BY <2>2, <2>4, <3>1, <3>2
  <2>5. CASE x \notin Made /\ y \notin Made
    <3>1. PICK k \in q.creates : x = row[k]
      BY <1>17, <2>5
    <3>2. PICK l \in q.creates : y = row[l]
      BY <1>17, <2>5
    <3>3. k = l
      BY <1>11, <1>12, <1>22, <3>1, <3>2
    <3>4. QED
      BY <1>22, <3>1, <3>2, <3>3
  <2>6. QED
    BY <2>1, <2>3, <2>4, <2>5
<1>23. MadeOnce'
  BY <1>22 DEF MadeOnce
<1>24. OldRepairsLiveOnce'
  BY <1>23 DEF OldRepairsLiveOnce, MadeOnce, Live, Made
<1>25. JobsTellWhatTheyDid'
  <2>1. /\ \A r \in RowIds : made[r].status # "none" => Finished(made[r].job)
        /\ \A c \in conflicts : job[c.job].status = "conflicts"
        /\ \A i \in Imports : job[i].status = "conflicts" => \E c \in conflicts : c.job = i
        /\ \A c \in conflicts, r \in RowIds : ~(made[r].job = c.job /\ made[r].key = c.key)
    BY DEF OldImportInv, ImportedOnce, JobsTellWhatTheyDid
  <2>2. ~Finished(j) /\ job[j].status # "conflicts"
    BY <1>2 DEF Finished, q
  <2>3. \A c \in conflicts : c.job \in Imports \ {j}
    BY <1>3, <2>1, <2>2 DEF Conflict
  <2>4. \A r \in Made : made[r].job \in Imports \ {j}
    BY <2>1, <2>2 DEF OldImportInv, Made
  <2>5. \A r \in RowIds : made'[r].status # "none" => job'[made'[r].job].status \in {"completed", "conflicts"}
    <3> SUFFICES ASSUME NEW r \in RowIds, made'[r].status # "none"
                 PROVE  job'[made'[r].job].status \in {"completed", "conflicts"}
      OBVIOUS
    <3>1. CASE \E k \in q.creates : r = row[k]
      BY <1>7, <1>8, <1>11, <1>12, <3>1
    <3>2. CASE made'[r] = made[r]
      <4>1. r \in Made
        BY <3>2 DEF Made
      <4>2. QED
        BY <1>8, <2>1, <2>4, <3>2, <4>1 DEF Finished
    <3>3. QED
      BY <1>14, <3>1, <3>2
  <2>6. \A c \in conflicts' : job'[c.job].status = "conflicts"
    BY <1>2, <1>7, <1>8, <1>9, <1>10, <2>1, <2>3
  <2>7. \A i \in Imports : job'[i].status = "conflicts" => \E c \in conflicts' : c.job = i
    <3> SUFFICES ASSUME NEW i \in Imports, job'[i].status = "conflicts" PROVE \E c \in conflicts' : c.job = i
      OBVIOUS
    <3>1. CASE i = j
      BY <1>2, <1>7, <1>8, <1>9, <1>10, <3>1
    <3>2. CASE i # j
      BY <1>2, <1>8, <2>1, <3>2
    <3>3. QED
      BY <3>1, <3>2
  <2>8. ASSUME NEW c \in conflicts', NEW r \in RowIds, made'[r].job = c.job, made'[r].key = c.key
        PROVE  FALSE
    <3>1. CASE \E k \in q.creates : r = row[k]
      BY <1>2, <1>9, <1>11, <1>12, <2>3, <2>8, <3>1
    <3>2. CASE made'[r] = made[r]
      <4>1. c \in told
        BY <1>2, <2>1, <2>8, <3>2
      <4>2. made[r].job = j
        BY <1>9, <2>8, <3>2, <4>1
      <4>3. r \in Made
        BY <4>2, ImportAssumption DEF OldImportInv, NotMade
      <4>4. QED
        BY <2>4, <4>2, <4>3
    <3>3. QED
      BY <1>14, <3>1, <3>2
  <2>9. QED
    BY <2>5, <2>6, <2>7, <2>8 DEF JobsTellWhatTheyDid, Finished
<1>26. ASSUME NEW i \in Imports PROVE Remembers(i)'
  <2>1. CASE i = j
    BY <1>7, <1>8, <2>1 DEF Remembers
  <2>2. CASE i # j
    <3>1. job'[i] = job[i] /\ Remembers(i)
      BY <1>8, <2>2 DEF OldImportInv
    <3>2. Made \subseteq Made'
      BY <1>16 DEF Made
    <3>3. QED
      BY <1>16, <3>1, <3>2 DEF Remembers
  <2>3. QED
    BY <2>1, <2>2
<1>27. QED
  BY <1>18, <1>21, <1>23, <1>24, <1>25, <1>26 DEF OldImportInv, ImportedOnce

LEMMA ImportStepKeeps == OldImportInv /\ [ImportNext]_importVars => OldImportInv'
<1> SUFFICES ASSUME OldImportInv, [ImportNext]_importVars PROVE OldImportInv'
  OBVIOUS
<1>1. CASE UNCHANGED importVars
  <2>1. /\ UNCHANGED <<made, cards, shop, job, conflicts, doubled>>
        /\ made \in [RowIds -> MadeRow] /\ cards \in [Cards -> {"none", "live", "archived"}]
        /\ shop \in {"none", "live", "archived"} /\ conflicts \subseteq Conflict
    BY <1>1, ImportTyped DEF importVars, OldImportInv, ImportedOnce, ImportTypeOK
  <2>2. QED
    BY <2>1, RowsMove
<1>2. CASE ImportNext
  BY <1>2, StartImportKeeps, ReadWorkbookKeeps, FinishImportKeeps, EndsKeep, AroundKeeps DEF ImportNext
<1>3. QED
  BY <1>1, <1>2

(* However often and however concurrently a workbook is imported, and        *)
(* whatever is written over the reasons: an old repair lives once, but for   *)
(* what an import could not recognize, and a job tells what it did           *)
(* (historical_repairs_import.py:459).                                       *)
THEOREM OldRepairsComeOnce == ImportSpec => []ImportedOnce
<1>1. OldImportInv => ImportedOnce
  BY DEF OldImportInv
<1>2. QED
  BY ImportInitHolds, ImportStepKeeps, <1>1, PTL DEF ImportSpec
=============================================================================
