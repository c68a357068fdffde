----------------------------- MODULE MCCatalogs -----------------------------
(* The catalogues a repair refers to, one part per behaviour. *)
EXTENDS Fleet, Catalog, HistoricalImport, TLC

CONSTANTS firstKey, secondKey

VARIABLE part

TwoGroups == <<firstKey, secondKey>>

\* A registry spells plates its own way; a document gives the chassis number, the VIN, or
\* only the plate.
PlateAndVin == {{"plate typed", "vin"}}
OneMark == {{"chassis"}, {"vin"}, {"plate"}}

\* Two by two, what takes part in the three parts alike: whoever acts and the cards besides
\* the first, and the rows.
Symmetry == Permutations(Clients) \cup Permutations(ServiceIds)

CatalogsInit ==
  /\ part \in {"cards", "links", "repairs", "names", "import"}
  /\ FleetInit
  /\ CatalogInit
  /\ ImportInit

\* Cards of one vehicle are searched on one day where no links are named; links are read
\* between two cards, where no documents search.
FleetPart ==
  \/ /\ part = "cards" /\ FleetNext /\ UNCHANGED today
     /\ \A w \in Writers : import'[w].named = {} /\ \A f \in import'[w].flushed : f.vehicle \in Named
  \/ part = "links" /\ FleetNext /\ UNCHANGED writer /\ \A i \in CardIds : i > 2 => card'[i].state = "none"

\* Services are renamed where no vehicle is archived.
CatalogPart ==
  \/ part = "repairs" /\ CatalogNext /\ \A c \in Clients : client'[c].op # "rename"
  \/ part = "names" /\ CatalogNext /\ UNCHANGED archivedV

\* The reason of one group's repair is written over with any text, the other's with none.
ImportPart ==
  part = "import" /\ ImportNext /\ \A r \in RowIds : made'[r].key = firstKey => made'[r].reason \in {firstKey, Nothing}

CatalogsNext ==
  /\ UNCHANGED part
  /\ \/ FleetPart /\ UNCHANGED <<catalogVars, importVars>>
     \/ CatalogPart /\ UNCHANGED <<fleetVars, importVars>>
     \/ ImportPart /\ UNCHANGED <<fleetVars, catalogVars>>

CatalogsSpec == CatalogsInit /\ [][CatalogsNext]_<<part, fleetVars, catalogVars, importVars>>
=============================================================================
