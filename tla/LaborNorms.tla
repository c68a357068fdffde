----------------------------- MODULE LaborNorms -----------------------------
(***************************************************************************)
(* The catalogues of labor norms (api/labor_norms.py,                      *)
(* application/services/labor_norms.py, scripts/import_labor_norms.py).    *)
(* A norm carries a copy of its catalogue's brand and name: its label. It  *)
(* is brought up to date by every request that writes the catalogue, and   *)
(* an archived catalogue is for reading only.                              *)
(*                                                                         *)
(* A request loads rows, saves its catalogue and loads the norms of it,    *)
(* and commits; others commit in between. An object once loaded keeps its  *)
(* values until the commit, which writes the columns that differ from      *)
(* them. What a norm says and the matching rules are left out.             *)
(***************************************************************************)
EXTENDS Naturals, FiniteSets

CONSTANTS
  Scopes,   \* scopes of labor_norm_catalogs
  NormIds,  \* bound: row ids of labor_norms
  Codes,
  Labels,   \* brands and names, as pairs
  OwnLabel, \* the label of a catalogue that was given none
  NoLabel,
  Curators, \* administrators' requests and runs of the script
  Offered,  \* bound: the labels that requests send; NoLabel is none
  Files     \* bound: the codes of an imported file

ASSUME LaborAssumption ==
  /\ OwnLabel \in Labels
  /\ Scopes \cap NormIds = {}
  /\ NoLabel \notin Labels \cup Scopes \cup NormIds \cup Codes
  /\ Offered \subseteq Labels \cup {NoLabel}
  /\ Files \subseteq SUBSET Codes

VARIABLES
  book,    \* rows of labor_norm_catalogs, per scope
  norm,    \* rows of labor_norms, per id
  curator, \* what each request has loaded and is about to write
  strayed  \* history: norms that a race mislabelled

laborVars == <<book, norm, curator, strayed>>

NoNorm == [status |-> "none", scope |-> NoLabel, code |-> NoLabel, label |-> NoLabel]
NoBook == NoNorm

Kept == [status |-> "keep", scope |-> NoLabel, code |-> NoLabel, label |-> NoLabel]

\* A column is written if its new value differs from the one loaded.
Difference(loaded, new) ==
  [status |-> IF new.status = loaded.status THEN "keep" ELSE new.status,
   scope |-> IF new.scope = loaded.scope THEN NoLabel ELSE new.scope,
   code |-> IF new.code = loaded.code THEN NoLabel ELSE new.code,
   label |-> IF new.label = loaded.label THEN NoLabel ELSE new.label]

Applied(put, row) ==
  [status |-> IF put.status = "keep" THEN row.status ELSE put.status,
   scope |-> IF put.scope = NoLabel THEN row.scope ELSE put.scope,
   code |-> IF put.code = NoLabel THEN row.code ELSE put.code,
   label |-> IF put.label = NoLabel THEN row.label ELSE put.label]

\* seen: the catalogue of `scope` as loaded; given, status: what was sent for it, or nothing.
\* put: the columns that will be written, of the norm `on` or of the catalogue; relabel: the
\* norms that will get its label. Of an import also: codes, those of the file; same, live:
\* the norms that were loaded with this label, and as not archived.
\* missed: history, rows that others wrote meanwhile.
AtRest == [stage |-> "idle", op |-> "none", scope |-> NoLabel, seen |-> NoBook,
           given |-> NoLabel, status |-> "keep", put |-> Kept, on |-> NoLabel,
           label |-> NoLabel, relabel |-> {}, codes |-> {}, same |-> {}, live |-> {}, missed |-> {}]

LaborInit ==
  /\ book = [s \in Scopes |-> NoBook]
  /\ norm = [i \in NormIds |-> NoNorm]
  /\ curator = [c \in Curators |-> AtRest]
  /\ strayed = {}

NormRows == {i \in NormIds : norm[i].status # "none"}
NormsOf(s) == {i \in NormRows : norm[i].scope = s}
NormsKeyed(s, k) == {i \in NormsOf(s) : norm[i].code = k}

\* get_catalog_by_scope, ensure_catalog_is_operational
ForWriting(s) == book[s].status = "live"

----------------------------------------------------------------------------
\* The first reads of a request, its checks passed.
Loads(c, q) ==
  /\ curator[c].stage = "idle"
  /\ curator' = [curator EXCEPT ![c] = [q EXCEPT !.stage = "loaded"]]
  /\ UNCHANGED <<book, norm, strayed>>

LoadCreateBook(c, s, given, status) ==
  /\ book[s].status = "none"
  /\ Loads(c, [AtRest EXCEPT !.op = "book", !.scope = s, !.given = given, !.status = status])

\* What is sent and is as loaded is not written.
LoadEditBook(c, s, given, status) ==
  /\ book[s].status # "none"
  /\ given # book[s].label /\ status # book[s].status
  /\ Loads(c, [AtRest EXCEPT !.op = "book", !.scope = s, !.seen = book[s],
                             !.given = given, !.status = status])

\* populate_labor_norm_from_payload
Populated(s, k, status) == [status |-> status, scope |-> s, code |-> k, label |-> book[s].label]

LoadCreateNorm(c, s, k, status) ==
  /\ ForWriting(s)
  /\ NormsKeyed(s, k) = {}
  /\ Loads(c, [AtRest EXCEPT !.op = "norm", !.scope = s, !.put = Populated(s, k, status)])

\* An edit that changes nothing of what is modelled is no step.
LoadEditNorm(c, i, s, k, status) ==
  /\ i \in NormRows
  /\ ForWriting(norm[i].scope) /\ ForWriting(s)
  /\ NormsKeyed(s, k) \subseteq {i}
  /\ Difference(norm[i], Populated(s, k, status)) # Kept
  /\ Loads(c, [AtRest EXCEPT !.op = "norm", !.scope = s, !.on = i,
                             !.put = Difference(norm[i], Populated(s, k, status))])

\* A label that the form leaves out is the catalogue's, or the scope.
LoadImport(c, s, given, codes) ==
  LET label == IF given # NoLabel THEN given
               ELSE IF ForWriting(s) THEN book[s].label ELSE OwnLabel
  IN
  /\ book[s].status # "archived"
  /\ Loads(c, [AtRest EXCEPT !.op = "import", !.scope = s, !.seen = book[s], !.codes = codes,
                             !.given = label,
                             !.status = IF ForWriting(s) THEN "keep" ELSE "live"])

----------------------------------------------------------------------------
\* The catalogue as upsert_labor_norm_catalog leaves it in memory.
Upserted(q, seen) ==
  [seen EXCEPT !.status = IF q.status # "keep" THEN q.status ELSE IF @ = "none" THEN "live" ELSE @,
               !.label = IF q.given # NoLabel THEN q.given ELSE IF @ = NoLabel THEN OwnLabel ELSE @]

Locked(c, s) ==
  \E d \in Curators \ {c} : curator[d].stage = "saved" /\ curator[d].scope = s /\ curator[d].put # Kept

\* The upsert finds the object that was loaded before, or the row as it is now; it is
\* flushed, and the norms are loaded for their labels (sync_labor_norm_catalog_metadata).
Saves(c, q) ==
  LET seen == IF q.seen = NoBook THEN book[q.scope] ELSE q.seen
      saved == Upserted(q, seen)
      put == IF q.op = "sync" THEN Kept ELSE Difference(seen, saved)
      relabel == {i \in NormsOf(q.scope) : norm[i].label # saved.label}
      upsert == [AtRest EXCEPT !.stage = "saved", !.op = q.op, !.scope = q.scope, !.put = put,
                               !.label = IF relabel = {} THEN NoLabel ELSE saved.label,
                               !.relabel = relabel, !.missed = q.missed]
  IN
  /\ put # Kept => ~Locked(c, q.scope)
  /\ curator' = [curator EXCEPT ![c] =
       IF q.op \notin {"import", "script"} THEN upsert
       ELSE [upsert EXCEPT !.given = q.given, !.codes = q.codes,
                           !.same = NormsOf(q.scope) \ relabel,
                           !.live = {i \in NormsOf(q.scope) : norm[i].status = "live"}]]
  /\ UNCHANGED <<book, norm, strayed>>

SaveBook(c) ==
  /\ curator[c].stage = "loaded" /\ curator[c].op \in {"book", "import"}
  /\ Saves(c, curator[c])

\* After its commit an import loads the catalogue once more and labels its norms.
SaveSync(c) ==
  /\ curator[c].stage = "loaded" /\ curator[c].op = "sync"
  /\ Saves(c, [curator[c] EXCEPT !.missed = {}])

\* The script does not ask whether the catalogue is archived; it has a name by default.
SaveScript(c, s, given, codes) ==
  /\ given # NoLabel
  /\ curator[c].stage = "idle"
  /\ Saves(c, [AtRest EXCEPT !.op = "script", !.scope = s, !.codes = codes, !.given = given])

\* Mutant: a saved catalogue leaves the labels of its norms.
Unlabelled(q) == norm

\* sync_labor_norm_catalog_metadata
Relabelled(q) ==
  [i \in NormIds |-> IF i \in q.relabel THEN [norm[i] EXCEPT !.label = q.label] ELSE norm[i]]

\* upsert_labor_norm, of each code of the file; `ids` are the rows of the new ones.
Imported(q, ids) ==
  [i \in NormIds |->
     IF \E k \in DOMAIN ids : ids[k] = i
       THEN [status |-> "live", scope |-> q.scope, label |-> q.given,
             code |-> CHOOSE k \in DOMAIN ids : ids[k] = i]
     ELSE IF \E k \in q.codes : i \in NormsKeyed(q.scope, k)
       THEN [norm[i] EXCEPT !.status = IF i \in q.live THEN @ ELSE "live",
                            !.label = IF i \in q.same THEN @ ELSE q.given]
     ELSE Relabelled(q)[i]]

KeysUnique(rows) ==
  \A i, j \in NormIds : i # j /\ rows[i].status # "none" /\ rows[j].status # "none"
                          => rows[i].scope # rows[j].scope \/ rows[i].code # rows[j].code

Astray(books, rows) ==
  {i \in NormIds : rows[i].status # "none" /\ rows[i].label # books[rows[i].scope].label}

Concerning(q) == NormIds \cup {q.scope} \cup {norm[i].scope : i \in {q.on} \cap NormIds}

\* The commit of c that leaves `rows`; the unique key may refuse it.
Commits(c, rows, next) ==
  LET q == curator[c]
      books == IF q.op = "norm" THEN book ELSE [book EXCEPT ![q.scope] = Applied(q.put, @)]
      written == {s \in Scopes : books[s] # book[s]} \cup {i \in NormIds : rows[i] # norm[i]}
  IN
  /\ KeysUnique(rows)
  /\ book' = books
  /\ norm' = rows
  /\ strayed' = {i \in Astray(books, rows) : i \in strayed \/ {i, rows[i].scope} \cap q.missed # {}}
  /\ curator' = [d \in Curators |->
       IF d = c THEN next
       ELSE IF curator[d].stage = "idle" THEN curator[d]
       ELSE [curator[d] EXCEPT !.missed = @ \cup (written \cap Concerning(curator[d]))]]

CommitNorm(c) ==
  LET q == curator[c] IN
  /\ q.stage = "loaded" /\ q.op = "norm"
  /\ \E i \in IF q.on = NoLabel THEN NormIds \ NormRows ELSE {q.on} :
       Commits(c, [norm EXCEPT ![i] = Applied(q.put, @)], AtRest)

CommitBook(c) ==
  /\ curator[c].stage = "saved" /\ curator[c].op \in {"book", "sync"}
  /\ Commits(c, Relabelled(curator[c]), AtRest)

CommitImport(c) ==
  LET q == curator[c]
      new == {k \in q.codes : NormsKeyed(q.scope, k) = {}}
  IN
  /\ q.stage = "saved" /\ q.op \in {"import", "script"}
  /\ \E ids \in [new -> NormIds \ NormRows] :
       /\ \A j, k \in new : ids[j] = ids[k] => j = k
       /\ Commits(c, Imported(q, ids),
                  IF q.op = "script" THEN AtRest
                  ELSE [AtRest EXCEPT !.stage = "loaded", !.op = "sync", !.scope = q.scope])

\* The unique key, a deadlock, a file that cannot be read, a lost connection.
LaborRollback(c) ==
  /\ curator[c].stage # "idle"
  /\ curator' = [curator EXCEPT ![c] = AtRest]
  /\ UNCHANGED <<book, norm, strayed>>

LaborNext ==
  \E c \in Curators :
    \/ \E s \in Scopes :
         \/ \E given \in Offered :
              \/ \E status \in {"live", "archived"} : LoadCreateBook(c, s, given, status)
              \/ \E status \in {"live", "archived", "keep"} : LoadEditBook(c, s, given, status)
              \/ \E codes \in Files : LoadImport(c, s, given, codes) \/ SaveScript(c, s, given, codes)
         \/ \E k \in Codes :
              \/ \E status \in {"live", "archived"} : LoadCreateNorm(c, s, k, status)
              \/ \E i \in NormIds, status \in {"live", "archived", "keep"} : LoadEditNorm(c, i, s, k, status)
    \/ SaveBook(c)
    \/ SaveSync(c)
    \/ CommitNorm(c)
    \/ CommitBook(c)
    \/ CommitImport(c)
    \/ LaborRollback(c)

LaborSpec == LaborInit /\ [][LaborNext]_laborVars

----------------------------------------------------------------------------
\* load_active_labor_norms: what OCR matches the works of a repair against.
ActiveNorms == {i \in NormRows : norm[i].status = "live" /\ book[norm[i].scope].status = "live"}

\* list_labor_norms: what the administrator is shown; a catalogue need not be there.
ListedNorms ==
  {i \in NormRows : norm[i].status = "live" /\ book[norm[i].scope].status \in {"none", "live"}}

BookRows == [status : {"none", "live", "archived"}, scope : {NoLabel}, code : {NoLabel},
             label : Labels \cup {NoLabel}]
NormRecords == [status : {"none", "live", "archived"}, scope : Scopes \cup {NoLabel},
                code : Codes \cup {NoLabel}, label : Labels \cup {NoLabel}]

\* The rows have the shape of LaborNormCatalog and LaborNorm.
LaborTypeOK ==
  /\ book \in [Scopes -> BookRows]
  /\ norm \in [NormIds -> NormRecords]
  /\ strayed \subseteq NormIds
  /\ \A c \in Curators :
       LET q == curator[c] IN
       /\ q.stage \in {"idle", "loaded", "saved"}
       /\ q.scope \in Scopes \cup {NoLabel} /\ (q.stage # "idle" => q.scope \in Scopes)
       /\ q.seen \in BookRows /\ q.label \in Labels \cup {NoLabel}
       /\ q.put.scope \in {NoLabel, q.scope}
       /\ q.codes \subseteq Codes /\ q.relabel \cup q.same \cup q.live \subseteq NormIds
       /\ q.missed \subseteq Scopes \cup NormIds

\* A norm says which catalogue it is of (labor_norms.py:536, api/labor_norms.py:196),
\* unless it or its catalogue was written between the loads and the commit of the
\* request that labelled it.
LabelsAgree == Astray(book, norm) \subseteq strayed

\* OCR uses the norms that the administrator is shown, no more and no fewer.
UsedNormsAreListed == ActiveNorms = ListedNorms

Content(row) == <<row.status, row.scope, row.code>>

\* Norms are neither put under an archived catalogue nor changed under it
\* (api/labor_norms.py:105), except by requests that loaded it before, and by the script.
ArchivedIsReadOnly ==
  \A i \in NormIds : Content(norm'[i]) # Content(norm[i]) =>
    \/ \A s \in {norm[i].scope, norm'[i].scope} \cap Scopes : book'[s].status = "live"
    \/ \E c \in Curators :
         /\ curator[c].stage # "idle" /\ curator'[c] # curator[c]
         /\ curator[c].op = "script" \/ {i, norm[i].scope, norm'[i].scope} \cap curator[c].missed # {}

\* What the labels and the archive of the catalogues promise.
NormsFollowCatalogues ==
  [](LabelsAgree /\ UsedNormsAreListed) /\ [][ArchivedIsReadOnly]_laborVars
=============================================================================
