------------------------------ MODULE MCDatabase ------------------------------
(* The schema under the migrations, their rows, or what users are shown: one *)
(* part per behaviour.                                                       *)
EXTENDS Migrations, MigrationRows, Reads

VARIABLE part

\* Two repairs, one of them with a document or two; what a user sees, how the
\* documents are judged, and which one is the source, each varied on its own.
Plain ==
  [vehicle  |-> [v \in Vehicles |-> [status |-> "active", placeholder |-> FALSE]],
   assigned |-> {<<"employee", "first">>},
   service  |-> [s \in Services |-> [status |-> "preliminary", listed |-> TRUE]],
   repair   |-> [r \in Repairs |->
                   [status |-> IF r = "shown" THEN "in_review" ELSE "confirmed",
                    vehicle |-> IF r = "shown" THEN "first" ELSE "second",
                    service |-> IF r = "shown" THEN "service" ELSE Nothing,
                    creator |-> "employee", preliminary |-> r = "shown", partial |-> FALSE, imported |-> r = "shown",
                    source |-> IF r = "shown" THEN 1 ELSE 3, lines |-> {"work", "part"}, checks |-> {}]],
   doc      |-> [d \in Docs |->
                   [repair |-> IF d = 3 THEN "other" ELSE "shown", kind |-> "order",
                    status |-> IF d = 2 THEN "archived" ELSE "needs_review", primary |-> d # 2, low |-> FALSE]],
   conflict |-> [c \in Conflicts |-> Nothing]]

\* What the other parts leave as it is.
AllArchived ==
  [Plain EXCEPT !.vehicle = [v \in Vehicles |-> [@[v] EXCEPT !.status = "archived"]],
                !.repair = [r \in Repairs |-> [@[r] EXCEPT !.status = "archived"]],
                !.doc = [d \in Docs |-> [@[d] EXCEPT !.status = "archived"]]]

SeenRows ==
  \E vehicle \in {"in_repair", "archived"}, placeholder \in BOOLEAN, assigned \in {{}, {<<"employee", "first">>}},
     given \in ({"service"} \X ServiceStatuses \X BOOLEAN) \cup {<<Nothing, "confirmed", FALSE>>},
     repair \in {"draft", "in_review", "archived"}, creator \in Users, preliminary \in BOOLEAN,
     doc \in {"needs_review", "archived"} :
    held = [Plain EXCEPT !.vehicle["first"] = [status |-> vehicle, placeholder |-> placeholder], !.assigned = assigned,
                      !.service["service"] = [status |-> given[2], listed |-> given[3]],
                      !.repair["shown"].service = given[1], !.repair["shown"].status = repair,
                      !.repair["shown"].creator = creator, !.repair["shown"].preliminary = preliminary,
                      !.repair["shown"].checks = {"suspicious"}, !.doc[1].status = doc]

JudgedRows ==
  \E repair \in RepairStatuses,
     judged \in {<<FALSE, {}>>, <<TRUE, {}>>, <<FALSE, {"warning"}>>, <<FALSE, {"suspicious"}>>, <<TRUE, {"normal", "error"}>>},
     doc \in DocumentStatuses, kind \in {"order", "attachment"}, low \in BOOLEAN,
     second \in {<<"needs_review", "repeat_scan">>, <<"ocr_error", "confirmation">>, <<"archived", "repeat_scan">>} :
    held = [Plain EXCEPT !.repair["shown"].status = repair, !.repair["shown"].partial = judged[1],
                      !.repair["shown"].checks = judged[2], !.doc[1].status = doc, !.doc[1].kind = kind, !.doc[1].low = low,
                      !.doc[2].status = second[1], !.doc[2].kind = second[2]]

SourceRows ==
  \E source \in {Nothing} \cup Docs,
     first \in [repair : {"shown"}, kind : {"order", "repeat_scan"}, status : {"recognized", "archived"},
                primary : BOOLEAN, low : {FALSE}],
     second \in [repair : {"shown"}, kind : {"order", "attachment"}, status : {"recognized", "archived"},
                 primary : BOOLEAN, low : {FALSE}],
     third \in [repair : Repairs, kind : {"order"}, status : {"recognized", "archived"},
                primary : {TRUE}, low : {FALSE}] :
    held = [Plain EXCEPT !.repair["shown"].source = source, !.doc[1] = first, !.doc[2] = second, !.doc[3] = third]

MCReadsInit ==
  /\ SeenRows \/ JudgedRows \/ SourceRows
  /\ page \in [user : Users, links : {{}}]

DatabaseInit ==
  /\ part \in {"schema", "rows", "reads"}
  /\ MigrationsInit
  /\ part # "schema" => dialect = "sqlite"
  /\ RowsInit
  /\ part # "rows" => engine = "sqlite"
  /\ IF part = "reads" THEN MCReadsInit
     ELSE held = AllArchived /\ page = [user |-> "admin", links |-> {}]

\* Mails, norms and catalogues are the same rows on both databases.
RowsPart ==
  /\ part = "rows" /\ RowsNext
  /\ engine = "sqlite" => rows'.emails \cup rows'.norms \cup rows'.catalogs = {}

DatabaseNext ==
  /\ UNCHANGED part
  /\ \/ part = "schema" /\ MigrationsNext /\ UNCHANGED <<rowVars, readVars>>
     \/ RowsPart /\ UNCHANGED <<migrationVars, readVars>>
     \/ part = "reads" /\ ReadsNext /\ UNCHANGED <<migrationVars, rowVars>>

DatabaseSpec == DatabaseInit /\ [][DatabaseNext]_<<part, migrationVars, rowVars, readVars>>
=============================================================================
