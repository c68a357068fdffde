-------------------------------- MODULE Fleet --------------------------------
(***************************************************************************)
(* The cards of trucks and trailers, and the links between them: the        *)
(* registry import, the OCR run and the administrator make cards, each with *)
(* a search of its own, and no constraint of the database compares them. A  *)
(* card tells its vehicle by marks, each in some spelling; marks that two   *)
(* vehicles share are left out.                                             *)
(***************************************************************************)
EXTENDS Naturals, FiniteSets

CONSTANTS
  Trucks, Trailers,  \* the vehicles, by the registry that lists them
  ChassisEndsVin,    \* those whose VIN ends with the chassis number
  RegistryRows,              \* marks a row of a registry may give
  Readings,          \* marks a document or an administrator may give
  Named,             \* vehicles that documents name: a bound on the searches
  MaxCards,          \* bound on the cards
  Writers,           \* sessions that search and then write
  LastDay,           \* bound on the days
  NoValue

Machines == Trucks \cup Trailers
CardIds == 1 .. MaxCards
Types == {"truck", "trailer"}

(* The columns external_id, vin and plate_number, and what a document gives *)
(* besides: a part of the plate, the chassis number.                        *)
VinMarks == {"vin", "vin typed"}
PlateMarks == {"plate", "plate typed", "plate part"}
Columns == {VinMarks, PlateMarks, {"id"}}
Marks == UNION Columns \cup {"chassis"}

ASSUME FleetAssumption ==
  /\ Trucks \cap Trailers = {}
  /\ Named \subseteq Machines
  /\ RegistryRows \subseteq SUBSET UNION Columns
  /\ Readings \subseteq SUBSET Marks
  /\ MaxCards \in Nat
  /\ LastDay \in Nat
  /\ NoValue \notin Machines \cup Nat

VARIABLES
  card,        \* vehicles: state, type, what it says; history: the vehicle it stands for
  links,       \* vehicle_link_history; "by" tells rows of one pair and day apart
  today,
  writer,      \* a search for a document: for what, what it found
  import,      \* an import of registries: the rows it has flushed, the links it has read
  registered,  \* history: the pairs of cards the last import named
  importDay,   \* history: its day
  twins,       \* history: pairs of cards that no search could have kept from being two
  raced        \* history: pairs whose links changed between an import's read and its commit

fleetVars == <<card, links, today, writer, import, registered, importDay, twins, raced>>

Unused == [state |-> "none", type |-> "truck", vehicle |-> NoValue, says |-> {}]
NoSearch == [by |-> "ocr", vehicle |-> NoValue, type |-> "truck", gives |-> {}, found |-> {}]
NoImport == [stage |-> "rows", flushed |-> {}, named |-> {}, read |-> {}, day |-> 0]

FleetInit ==
  /\ card = [i \in CardIds |-> Unused]
  /\ links = {}
  /\ today = 0
  /\ writer = [w \in Writers |-> NoSearch]
  /\ import = [w \in Writers |-> NoImport]
  /\ registered = {}
  /\ importDay = 0
  /\ twins = {}
  /\ raced = {}

Unoccupied(w) == writer[w] = NoSearch /\ import[w] = NoImport

FirstFree(i) == card[i].state = "none" /\ \A j \in CardIds : card[j].state = "none" => i <= j
NewCard(state, type, vehicle, says) == [state |-> state, type |-> type, vehicle |-> vehicle, says |-> says]

(* Archived cards are left out by every search, and so are those that       *)
(* another transaction has not committed.                                   *)
LiveOf(v) == {i \in CardIds : card[i].state = "live" /\ card[i].vehicle = v}

-----------------------------------------------------------------------------
(* normalize_compare_token: one spelling of what was typed.                 *)
Form(m) == IF m = "vin typed" THEN "vin" ELSE IF m = "plate typed" THEN "plate" ELSE m

(* One of the marks compares equal, or the chassis number ends the VIN.     *)
ExactMatches(v, gives) ==
  {i \in LiveOf(v) : \E m \in gives, n \in card[i].says :
                       Form(m) = Form(n) \/ (m = "chassis" /\ n \in VinMarks /\ v \in ChassisEndsVin)}

(* One of two plates begins with the other.                                 *)
PartialMatches(v, gives) ==
  {i \in LiveOf(v) \ ExactMatches(v, gives) : gives \cap PlateMarks # {} /\ card[i].says \cap PlateMarks # {}}

(* What makes a card at all: OCR wants the VIN or the chassis number, an    *)
(* administrator gives the VIN or the plate.                                *)
Enough(by, gives) ==
  IF by = "ocr" THEN gives \cap (VinMarks \cup {"chassis"}) # {} ELSE gives \cap (VinMarks \cup PlateMarks) # {}

(* Mutant: several cards match, and any of them will do for a new one. *)
MakesCardAlways(by, exact, partial) == Cardinality(exact) >= 1

(* find_vehicle_by_identifiers returns nothing for several matches, and the *)
(* OCR run makes a card of nothing; the administrator is told to look.      *)
MakesCard(by, exact, partial) ==
  \/ exact = {} /\ (by = "ocr" => Cardinality(partial) # 1)
  \/ by = "ocr" /\ Cardinality(exact) > 1

(* A document whose repair hangs on the placeholder names a vehicle. The    *)
(* OCR run guesses the type from the text, the administrator gives it.      *)
Searches(w, by, v, gives, type) ==
  /\ Unoccupied(w)
  /\ Enough(by, gives)
  /\ MakesCard(by, ExactMatches(v, gives), PartialMatches(v, gives))
  /\ writer' = [writer EXCEPT ![w] = [by |-> by, vehicle |-> v, type |-> type, gives |-> gives,
                                      found |-> ExactMatches(v, gives)]]
  /\ UNCHANGED <<card, links, today, import, registered, importDay, twins, raced>>

(* OCR writes the VIN and the plate normalized, an administrator as typed;  *)
(* the chassis number has no column.                                        *)
Written(by, gives) == (IF by = "ocr" THEN {Form(m) : m \in gives} ELSE gives) \ {"chassis"}

(* History: a card that was not there, or that says nothing of what was     *)
(* searched, could not be taken, nor can OCR choose among several.          *)
Excused(by, found, k) == k \notin found \/ (by = "ocr" /\ Cardinality(found) > 1)

MakesNew(w) ==
  LET q == writer[w] IN
  /\ q # NoSearch
  /\ \E i \in CardIds :
       /\ FirstFree(i)
       /\ card' = [card EXCEPT ![i] = NewCard("live", q.type, q.vehicle, Written(q.by, q.gives))]
       /\ twins' = twins \cup {{i, k} : k \in {j \in LiveOf(q.vehicle) : Excused(q.by, q.found, j)}}
  /\ writer' = [writer EXCEPT ![w] = NoSearch]
  /\ UNCHANGED <<links, today, import, registered, importDay, raced>>

GivesUp(w) ==
  /\ writer[w] # NoSearch
  /\ writer' = [writer EXCEPT ![w] = NoSearch]
  /\ UNCHANGED <<card, links, today, import, registered, importDay, twins, raced>>

-----------------------------------------------------------------------------
TypeOf(v) == IF v \in Trucks THEN "truck" ELSE "trailer"

(* find_vehicle: a card of the registry's type says a mark as the row does, *)
(* letter by letter.                                                        *)
FindVehicle(v, row) == {i \in LiveOf(v) : card[i].type = TypeOf(v) /\ card[i].says \cap row # {}}

(* A row overwrites the columns it fills.                                   *)
Filled(says, row) == row \cup {m \in says : \A column \in Columns : m \in column => row \cap column = {}}

RowsDone(w) == {f.vehicle : f \in import[w].flushed}

(* upsert_vehicle: the first card found is filled, or one is made. Each row *)
(* is flushed, and nobody else sees it before the commit. A registry gives  *)
(* a vehicle one row.                                                       *)
UpsertRow(w, v, row) ==
  LET found == FindVehicle(v, row) IN
  /\ writer[w] = NoSearch
  /\ import[w].stage = "rows"
  /\ v \notin RowsDone(w)
  /\ \E i \in CardIds :
       /\ \/ i \in found /\ UNCHANGED card
          \/ found = {} /\ FirstFree(i) /\ card' = [card EXCEPT ![i] = NewCard("pending", TypeOf(v), v, row)]
       /\ import' = [import EXCEPT ![w].flushed = @ \cup {[vehicle |-> v, card |-> i, row |-> row, found |-> found]}]
  /\ UNCHANGED <<links, today, writer, registered, importDay, twins, raced>>

MadeBy(w) == {f.card : f \in {g \in import[w].flushed : card[g.card].state = "pending"}}

(* What a card says, with what the import has written on it.                *)
SaysTo(w, i) == Filled(card[i].says, UNION {f.row : f \in {g \in import[w].flushed : g.card = i}})

(* The cards that the import itself sees under a plate.                     *)
UnderPlate(w, v, plate) ==
  {i \in CardIds : /\ card[i].vehicle = v
                   /\ card[i].state = "live" \/ i \in MadeBy(w)
                   /\ plate \in SaysTo(w, i)}

(* by_plate keeps one live card of each plate, whichever comes last.        *)
ByPlate(w, at, plate) ==
  \A v \in DOMAIN at :
    IF UnderPlate(w, v, plate) = {} THEN at[v] = NoValue ELSE at[v] \in UnderPlate(w, v, plate)

(* create_links begins: the cards by plate, the day, and the links that are *)
(* active. "plate" is how this registry spells its plates.                  *)
ReadLinks(w, pairs, plate) ==
  /\ writer[w] = NoSearch
  /\ import[w].stage = "rows"
  /\ \A x \in pairs : x[1] \in RowsDone(w) \/ x[2] \in RowsDone(w)
  /\ \E at \in [{v \in Machines : \E x \in pairs : v \in {x[1], x[2]}} -> CardIds \cup {NoValue}] :
       /\ ByPlate(w, at, plate)
       /\ import' =
            [import EXCEPT ![w] =
               [@ EXCEPT !.stage = "links", !.day = today, !.read = links,
                         !.named = {p \in {<<at[x[1]], at[x[2]]>> : x \in pairs} : NoValue \notin {p[1], p[2]}}]]
  /\ UNCHANGED <<card, links, today, writer, registered, importDay, twins, raced>>

PairOf(l) == <<l.left, l.right>>
RowOf(l) == [l EXCEPT !.ends = NoValue]
PairsOf(rows) == {PairOf(l) : l \in rows}

Active(q) == {l \in q.read : l.starts <= q.day /\ (l.ends = NoValue \/ l.ends >= q.day)}

(* active_pairs has one link of each pair, whichever comes last.            *)
OneOfEach(kept, active) ==
  /\ PairsOf(kept) = PairsOf(active)
  /\ \A k, l \in kept : PairOf(k) = PairOf(l) => k = l

(* create_links ends: named pairs without an active link get one, active    *)
(* links that are not named end on its day, whatever they are by now.       *)
Linked(w, kept) ==
  LET q == import[w]
      closing == {RowOf(l) : l \in {k \in kept : PairOf(k) \notin q.named /\ k.ends = NoValue}}
      opening == q.named \ PairsOf(Active(q))
  IN {IF RowOf(l) \in closing THEN [l EXCEPT !.ends = q.day] ELSE l : l \in links}
       \cup {[left |-> p[1], right |-> p[2], by |-> w, starts |-> q.day, ends |-> NoValue] : p \in opening}

(* import_vehicles_with_session ends: cards and links in one commit.        *)
CommitImport(w) ==
  LET q == import[w] IN
  /\ q.stage = "links"
  /\ card' = [i \in CardIds |->
                [card[i] EXCEPT !.state = IF i \in MadeBy(w) THEN "live" ELSE @, !.says = SaysTo(w, i)]]
  /\ twins' = twins \cup UNION {{{f.card, k} : k \in {j \in LiveOf(f.vehicle) : Excused("registry", f.found, j)}} :
                                f \in {g \in q.flushed : g.card \in MadeBy(w)}}
  /\ \E kept \in SUBSET Active(q) : OneOfEach(kept, Active(q)) /\ links' = Linked(w, kept)
  /\ raced' = raced \cup PairsOf((links \ q.read) \cup (q.read \ links))
  /\ registered' = q.named
  /\ importDay' = q.day
  /\ import' = [import EXCEPT ![w] = NoImport]
  /\ UNCHANGED <<today, writer>>

(* A file that cannot be read, or a fault: everything is rolled back.       *)
ImportFails(w) ==
  /\ import[w] # NoImport
  /\ card' = [i \in CardIds |-> IF i \in MadeBy(w) THEN Unused ELSE card[i]]
  /\ import' = [import EXCEPT ![w] = NoImport]
  /\ UNCHANGED <<links, today, writer, registered, importDay, twins, raced>>

-----------------------------------------------------------------------------
(* update_vehicle: a restored card meets the one made in its absence.       *)
ArchiveCard(i) ==
  /\ card[i].state = "live"
  /\ card' = [card EXCEPT ![i].state = "archived"]
  /\ twins' = {pair \in twins : i \notin pair}
  /\ UNCHANGED <<links, today, writer, import, registered, importDay, raced>>

RestoreCard(i) ==
  /\ card[i].state = "archived"
  /\ card' = [card EXCEPT ![i].state = "live"]
  /\ twins' = twins \cup {{i, j} : j \in LiveOf(card[i].vehicle)}
  /\ UNCHANGED <<links, today, writer, import, registered, importDay, raced>>

NextDay ==
  /\ today < LastDay
  /\ today' = today + 1
  /\ UNCHANGED <<card, links, writer, import, registered, importDay, twins, raced>>

FleetNext ==
  \/ \E w \in Writers :
       \/ \E by \in {"ocr", "admin"}, v \in Named, gives \in Readings, t \in Types : Searches(w, by, v, gives, t)
       \/ MakesNew(w)
       \/ GivesUp(w)
       \/ \E v \in Machines, row \in RegistryRows : UpsertRow(w, v, row)
       \/ \E pairs \in SUBSET (Trucks \X Trailers), plate \in PlateMarks \cap UNION RegistryRows : ReadLinks(w, pairs, plate)
       \/ CommitImport(w)
       \/ ImportFails(w)
  \/ \E i \in CardIds : ArchiveCard(i) \/ RestoreCard(i)
  \/ NextDay

FleetSpec == FleetInit /\ [][FleetNext]_fleetVars

-----------------------------------------------------------------------------
Days == 0 .. LastDay
CardRow == [state : {"none", "pending", "live", "archived"}, type : Types, vehicle : Machines \cup {NoValue},
            says : SUBSET Marks]
LinkRow == [left : CardIds, right : CardIds, by : Writers, starts : Days, ends : Days \cup {NoValue}]
SearchRow == [by : {"ocr", "admin"}, vehicle : Machines \cup {NoValue}, type : Types, gives : SUBSET Marks,
              found : SUBSET CardIds]
FlushedRow == [vehicle : Machines, card : CardIds, row : SUBSET Marks, found : SUBSET CardIds]
ImportRow == [stage : {"rows", "links"}, flushed : SUBSET FlushedRow,
              named : SUBSET (CardIds \X CardIds), read : SUBSET LinkRow, day : Days]

(* The rows have the shape of Vehicle and VehicleLinkHistory.               *)
FleetTypeOK ==
  /\ card \in [CardIds -> CardRow]
  /\ links \subseteq LinkRow
  /\ today \in Days
  /\ writer \in [Writers -> SearchRow]
  /\ import \in [Writers -> ImportRow]
  /\ registered \subseteq CardIds \X CardIds
  /\ importDay \in Days
  /\ twins \subseteq SUBSET CardIds
  /\ raced \subseteq CardIds \X CardIds

(* A vehicle that has one live card gets no second one, save where the      *)
(* search could not take the first (documents.py:457, vehicle_matching.py:24, *)
(* import_vehicles.py:95): it was archived or not committed then; it says   *)
(* no mark that was given (none, if only a chassis number was read), or for *)
(* the registry not in that spelling or not under that type; or OCR found   *)
(* several. A card restored later meets the others too.                     *)
TwinsHaveCause ==
  \A v \in Machines : \A i, j \in LiveOf(v) : i # j => {i, j} \in twins

DaysOf(l) == {d \in Days : l.starts <= d /\ (l.ends = NoValue \/ d <= l.ends)}

(* The open links are the pairs the last import named, and a pair has one   *)
(* link a day (import_vehicles.py:181), except for a pair whose links       *)
(* another import changed between an import's read and its commit. A pair   *)
(* that an import of the same day had dropped stays closed.                 *)
LinksFollowRegistry ==
  /\ \A l \in links : l.ends = NoValue => PairOf(l) \in registered \cup raced
  /\ \A p \in registered \ raced : \E l \in links : PairOf(l) = p /\ l.ends \in {NoValue, importDay}
  /\ \A k, l \in links :
       k # l /\ PairOf(k) = PairOf(l) /\ PairOf(k) \notin raced => DaysOf(k) \cap DaysOf(l) = {}

(* Cards and links keep their shape, twins their cause, links the registry. *)
FleetAgrees == FleetTypeOK /\ TwinsHaveCause /\ LinksFollowRegistry
=============================================================================
