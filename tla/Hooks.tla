------------------------------- MODULE Hooks -------------------------------
(* The data hooks of the frontend, each described by the loads it can ask     *)
(* the server for, the handlers behind its buttons, the effects React runs    *)
(* when what they depend on has changed, and what it resets when the session  *)
(* is over. Panels gives the descriptions their meaning.                      *)
EXTENDS Naturals, Sequences, FiniteSets

None == ""

(* A load takes the next id of its counter, sets its flag, and applies its   *)
(* answer to its slots and marks only while the counter still has that id.   *)
(* Slots in empties are emptied when it starts, those in erases when it fails.*)
Load(name, counter, flag, slots, marks) ==
  [name |-> name, counter |-> counter, flag |-> flag, slots |-> slots,
   marks |-> marks, empties |-> {}, erases |-> {}]

(* What a bump of request ids, a hidden tab, a closed dialog or a reset undoes. *)
Clear(counters, flags, slots, marks) ==
  [counters |-> counters, flags |-> flags, slots |-> slots, marks |-> marks]
NoClear == Clear({}, {}, {}, {})

(* A handler sets its flag, waits for the answer to its own request, which   *)
(* sets the slots in sets and undoes clears whatever has happened since, and *)
(* then for the loads of each step together. It writes to the item it finds  *)
(* shown. With own it has an id of that counter: overtaken it does nothing   *)
(* more. It is an administrator's, signed in, on the hook's screen unless    *)
(* admin, out or on says otherwise; ends is what it does to the session.     *)
Handler(name, flag, sets, clears, steps) ==
  [name |-> name, flag |-> flag, sets |-> sets, clears |-> clears,
   steps |-> steps, item |-> None, own |-> None, admin |-> TRUE, out |-> FALSE,
   on |-> None, ends |-> None]

(* An effect runs when one of deps has changed: on one of its tabs it asks   *)
(* for its loads unless its mark is set, elsewhere it clears.                *)
Effect(deps, tabs, mark, loads, away) ==
  [deps |-> deps, tabs |-> tabs, mark |-> mark, loads |-> loads,
   away |-> away, admin |-> TRUE, item |-> FALSE]
OnTab == {"tab", "token", "role"}
OfAnyone(effect) == [effect EXCEPT !.admin = FALSE, !.deps = @ \ {"role"}]

(* A hook: the tabs it tells apart, the one its buttons are on, the loads a  *)
(* user can ask for directly, and the dialogs a user can close.              *)
Hook(tabs, screen, loads, searches, handlers, effects, closes, reset) ==
  [tabs |-> tabs \cup {"elsewhere"}, screen |-> screen, loads |-> loads,
   searches |-> searches, handlers |-> handlers, effects |-> effects,
   closes |-> closes, reset |-> reset, leaves |-> NoClear]

-----------------------------------------------------------------------------
(* useServicesAdmin: the list and the options share one counter; only the    *)
(* list has a flag.                                                          *)
ServicesLoads ==
  {Load("services", "catalog", "serviceLoading", {"services", "options"}, {"services", "options"}),
   Load("options", "catalog", None, {"options"}, {"options"})}
ServicesHandlers ==
  {Handler("saveService", "serviceSaving", {}, NoClear, <<{"services"}>>),
   Handler("restoreService", "serviceSaving", {}, NoClear, <<{"services"}, {"options"}>>)}
ServicesEffects ==
  {OfAnyone(Effect(OnTab, {"repair"}, "options", {"options"}, NoClear)),
   Effect(OnTab, {"services"}, "services", {"services"}, NoClear),
   Effect({"filter"}, {"services", "repair", "elsewhere"}, None, {"services"}, NoClear)}
ServicesReset ==
  Clear({"catalog"}, {"serviceLoading", "serviceSaving"}, {"services", "options"}, {"services", "options"})

(* useFleetWorkspace: hidden tabs take new request ids, and a change of the  *)
(* selected vehicle turns every flag of the old one off.                     *)
FleetLoads ==
  {Load("vehicles", "fleetList", "fleetLoading", {"vehicles", "vehicleOptions"}, {"vehicleOptions"}),
   Load("filtered", "fleetList", "fleetLoading", {"vehicles"}, {}),
   Load("vehicleOptions", "vehicleOptions", None, {"vehicleOptions"}, {"vehicleOptions"}),
   [Load("vehicle", "selectedVehicle", "vehicleLoading", {"vehicle"}, {}) EXCEPT !.erases = {"vehicle"}]}
FleetHandlers ==
  {[Handler("updateVehicle", "vehicleSaving", {"vehicle"}, NoClear, <<{"vehicles"}>>)
      EXCEPT !.item = "vehicle"],
   [Handler("exportVehicle", "vehicleExportLoading", {}, NoClear, <<>>)
      EXCEPT !.admin = FALSE, !.item = "vehicle"]}
FleetSelection ==
  OfAnyone(Effect({"select"}, {}, None, {},
                  Clear({}, {"vehicleLoading", "vehicleSaving", "vehicleExportLoading"}, {}, {})))
FleetEffects ==
  {OfAnyone(Effect(OnTab, {"documents"}, "vehicleOptions", {"vehicleOptions"},
                   Clear({"vehicleOptions"}, {}, {}, {}))),
   OfAnyone(Effect(OnTab, {"fleet"}, None, {"vehicles"},
                   Clear({"fleetList"}, {"fleetLoading"}, {}, {}))),
   [OfAnyone(Effect(OnTab \cup {"select"}, {"fleet"}, None, {"vehicle"},
                    Clear({"selectedVehicle"}, {"vehicleLoading"}, {"vehicle"}, {})))
      EXCEPT !.item = TRUE]}
FleetReset ==
  Clear({"fleetList", "vehicleOptions", "selectedVehicle"},
        {"fleetLoading", "vehicleLoading", "vehicleSaving", "vehicleExportLoading"},
        {"vehicles", "vehicleOptions", "vehicle"}, {"vehicleOptions"})

(* useBackupsAdmin: a restore ends the session and loads the page anew. *)
BackupsLoads == {Load("backups", "backups", "backupsLoading", {"backups"}, {})}
BackupsHandlers ==
  {Handler("createBackup", "backupActionLoading", {}, NoClear, <<{"backups"}>>),
   Handler("downloadBackup", "backupActionLoading", {}, NoClear, <<>>),
   [Handler("restoreBackup", "backupActionLoading", {}, NoClear, <<>>) EXCEPT !.ends = "reload"]}
BackupsReset == Clear({"backups"}, {"backupsLoading", "backupActionLoading"}, {"backups"}, {})
BackupsEffects == {Effect(OnTab, {"backups"}, None, {"backups"}, NoClear)}

(* useReviewRulesAdmin *)
RulesLoads == {Load("reviewRules", "reviewRules", None, {"reviewRules"}, {"reviewRules"})}
RulesHandlers == {Handler("saveReviewRule", "reviewRuleSaving", {}, NoClear, <<{"reviewRules"}>>)}
RulesReset == Clear({"reviewRules"}, {"reviewRuleSaving"}, {"reviewRules"}, {"reviewRules"})
RulesEffects == {Effect(OnTab, {"control"}, "reviewRules", {"reviewRules"}, NoClear)}

(* useEmployeesAdmin: the vehicles found for an assignment belong to the      *)
(* selected employee.                                                        *)
EmployeesLoads ==
  {Load("users", "users", "userLoading", {"users"}, {"users"}),
   Load("userVehicles", "userVehicleSearch", "userVehicleSearchLoading", {"userVehicles"}, {})}
EmployeesCloses ==
  {Clear({"userVehicleSearch"}, {"userVehicleSearchLoading"}, {"userVehicles"}, {})}
EmployeesHandlers ==
  {Handler("saveUser", "userSaving", {}, NoClear, <<{"users"}>>),
   Handler("createAssignment", "userAssignmentSaving", {}, Clear({}, {}, {"userVehicles"}, {}), <<{"users"}>>)}
EmployeesReset ==
  Clear({"users", "userVehicleSearch"},
        {"userLoading", "userSaving", "userVehicleSearchLoading", "userAssignmentSaving"},
        {"users", "userVehicles"}, {"users"})
EmployeesEffects ==
  {Effect(OnTab, {"employees", "audit"}, "users", {"users"}, NoClear),
   OfAnyone(Effect({"select"}, {}, None, {},
                   Clear({"userVehicleSearch"}, {"userVehicleSearchLoading"}, {"userVehicles"}, {})))}

(* useHistoricalImportsAdmin: the journal is loaded anew at each visit, and   *)
(* an opened conflict is emptied first and closed when it cannot be loaded.   *)
(* The journal and the dialog share only the metrics, and are two panels.    *)
Metrics == Load("metrics", "workspace", "bootLoading", {}, {})
Journal == {"importJobs", "workReference", "importConflicts"}
ImportsLoads ==
  {Load("importJobs", "importJobs", "importJobsLoading", {"importJobs"}, {}),
   Load("workReference", "workReference", "workReferenceLoading", {"workReference"}, {}),
   Load("importConflicts", "importConflicts", "importConflictsLoading", {"importConflicts"}, {}),
   Metrics}
ConflictLoads ==
  {[Load("importConflict", "importConflict", "importConflictLoading", {"importConflict"}, {})
      EXCEPT !.empties = {"importConflict"}],
   Metrics}
ConflictClosed ==
  Clear({"importConflict"}, {"importConflictLoading"}, {"importConflict"}, {})
ImportsHandlers ==
  {Handler("importRepairs", "historicalImportLoading", {"importResult"}, NoClear, <<Journal, {"metrics"}>>)}
ConflictHandlers ==
  {[Handler("resolveConflict", "importConflictSaving", {}, ConflictClosed, <<{"metrics"}>>)
      EXCEPT !.item = "importConflict"]}
ImportsReset ==
  Clear(Journal \cup {"importConflict"},
        {"importJobsLoading", "workReferenceLoading", "importConflictsLoading",
         "importConflictLoading", "historicalImportLoading", "importConflictSaving"},
        Journal \cup {"importConflict", "importResult"}, {})
ImportsEffects == {Effect(OnTab, {"imports"}, None, Journal, NoClear)}

(* useLaborNormsAdmin: the norms and the catalogues' configuration have one   *)
(* mark between them.                                                        *)
NormsLoads ==
  {Load("norms", "norms", "laborNormLoading", {"norms"}, {"norms"}),
   Load("configs", "configs", None, {"configs"}, {"norms"})}
NormsHandlers ==
  {Handler("importNorms", "laborNormImportLoading", {}, NoClear, <<{"configs"}, {"norms"}>>),
   Handler("saveCatalog", "laborNormCatalogSaving", {}, NoClear, <<{"configs"}>>),
   Handler("saveEntry", "laborNormEntrySaving", {}, NoClear, <<{"configs"}, {"norms"}>>),
   Handler("archiveEntry", "laborNormEntrySaving", {}, NoClear, <<{"norms"}>>)}
NormsReset ==
  Clear({"norms", "configs"},
        {"laborNormLoading", "laborNormImportLoading", "laborNormCatalogSaving", "laborNormEntrySaving"},
        {"norms", "configs"}, {"norms"})
NormsEffects ==
  {Effect(OnTab, {"labor_norms"}, "norms", {"norms", "configs"}, NoClear),
   Effect({"filter"}, {"labor_norms", "elsewhere"}, None, {"norms"}, NoClear)}

(* useOcrAdmin: one technical tab for each list, each with its own mark. *)
OcrLists == {"ocrRules", "ocrMatchers", "ocrLearning"}
OcrLoads ==
  {Load("systemStatus", "systemStatus", None, {"systemStatus"}, {"systemStatus"})}
  \cup {Load(l, l, IF l = "ocrLearning" THEN "ocrLearningLoading" ELSE None, {l}, {l}) : l \in OcrLists}
OcrHandlers ==
  {[Handler("saveRule", "ocrRuleSaving", {}, NoClear, <<{"ocrRules"}>>) EXCEPT !.on = "ocrRules"],
   [Handler("saveMatcher", "ocrProfileMatcherSaving", {}, NoClear, <<{"ocrMatchers"}>>) EXCEPT !.on = "ocrMatchers"],
   Handler("updateSignal", "ocrLearningUpdateId", {}, NoClear, <<{"ocrLearning"}>>),
   Handler("loadDraft", "ocrLearningDraftId", {}, NoClear, <<>>)}
OcrReset ==
  Clear(OcrLists \cup {"systemStatus"},
        {"ocrLearningLoading", "ocrRuleSaving", "ocrProfileMatcherSaving", "ocrLearningUpdateId", "ocrLearningDraftId"},
        OcrLists \cup {"systemStatus"}, OcrLists \cup {"systemStatus"})
OcrEffects ==
  {Effect(OnTab, OcrLists \cup {"admin"}, "systemStatus", {"systemStatus"}, NoClear)}
  \cup {Effect(OnTab, {l}, l, {l}, NoClear) : l \in OcrLists}
OcrFilters ==
  {Effect({"filter"}, OcrLists \cup {"admin", "elsewhere"}, None, {"ocrLearning"}, NoClear)}

(* useWorkspaceOperations: the search and the audit journal. *)
OperationsLoads ==
  {Load("search", "search", "globalSearchLoading", {"search"}, {}),
   Load("audit", "audit", "auditLogLoading", {"audit"}, {})}
OperationsCloses == {Clear({"search"}, {"globalSearchLoading"}, {"search"}, {})}
OperationsReset ==
  Clear({"search", "audit"}, {"globalSearchLoading", "auditLogLoading"}, {"search", "audit"}, {})
OperationsEffects == {Effect(OnTab, {"audit"}, None, {"audit"}, NoClear)}
OperationsFilters == {Effect({"filter"}, {"audit"}, None, {"audit"}, NoClear)}

(* useAuthSession: every request of the login page and of the password        *)
(* dialog takes an id of one counter, which leaving the session takes too;   *)
(* only an answer that ends the session turns the flags off for it.          *)
AuthFlags == {"loginLoading", "passwordChangeLoading", "passwordRecoveryLoading"}
Credentials(name, flag, out, ends) ==
  [Handler(name, flag, {}, IF ends = "out" THEN Clear({"auth"}, AuthFlags, {}, {}) ELSE NoClear, <<>>)
     EXCEPT !.own = "auth", !.admin = FALSE, !.out = out, !.ends = ends]
AuthHandlers ==
  {Credentials("login", "loginLoading", TRUE, "in"),
   Credentials("changePassword", "passwordChangeLoading", FALSE, "out"),
   Credentials("requestRecovery", "passwordRecoveryLoading", TRUE, None),
   Credentials("confirmRecovery", "passwordRecoveryLoading", TRUE, "out")}
AuthLeaves == Clear({"auth"}, {}, {}, {})

Hooks ==
  [services   |-> Hook({"services", "repair"}, "services", ServicesLoads, {"services"},
                       ServicesHandlers, ServicesEffects, {}, ServicesReset),
   fleet      |-> Hook({"documents", "fleet"}, "fleet", FleetLoads, {"vehicles", "filtered"},
                       FleetHandlers, FleetEffects \cup {FleetSelection}, {}, FleetReset),
   backups    |-> Hook({"backups"}, "backups", BackupsLoads, {"backups"},
                       BackupsHandlers, BackupsEffects, {}, BackupsReset),
   rules      |-> Hook({"control"}, "control", RulesLoads, {},
                       RulesHandlers, RulesEffects, {}, RulesReset),
   employees  |-> Hook({"employees", "audit"}, "employees", EmployeesLoads, {"users", "userVehicles"},
                       EmployeesHandlers, EmployeesEffects, EmployeesCloses, EmployeesReset),
   imports    |-> Hook({"imports"}, "imports", ImportsLoads, {"workReference"},
                       ImportsHandlers, ImportsEffects, {}, ImportsReset),
   conflicts  |-> Hook({"imports"}, "imports", ConflictLoads, {"importConflict"},
                       ConflictHandlers, {}, {ConflictClosed}, ImportsReset),
   norms      |-> Hook({"labor_norms"}, "labor_norms", NormsLoads, {"norms"},
                       NormsHandlers, NormsEffects, {}, NormsReset),
   ocr        |-> Hook(OcrLists \cup {"admin"}, "ocrLearning", OcrLoads, {"ocrLearning"},
                       OcrHandlers, OcrEffects \cup OcrFilters, {}, OcrReset),
   operations |-> Hook({"audit"}, "audit", OperationsLoads, {"search", "audit"},
                       {}, OperationsEffects \cup OperationsFilters, OperationsCloses, OperationsReset),
   auth       |-> [Hook({}, "elsewhere", {}, {}, AuthHandlers, {}, {}, NoClear) EXCEPT !.leaves = AuthLeaves]]

-----------------------------------------------------------------------------
(* What all the hooks have in common. A load and a handler are known by name; *)
(* the steps, searches and effects are about loads of the hook.              *)
LoadNames(hook) == {l.name : l \in hook.loads}
WellNamed(hook) ==
  /\ \A l, m \in hook.loads : l.name = m.name => l = m
  /\ \A g, h \in hook.handlers : g.name = h.name => g = h
  /\ hook.searches \subseteq LoadNames(hook)
  /\ \A e \in hook.effects : e.loads \subseteq LoadNames(hook)
  /\ \A h \in hook.handlers : h.steps \in Seq(SUBSET LoadNames(hook))
  /\ "elsewhere" \in hook.tabs

(* Only a handler without an id and with the session's token loads anything, *)
(* and it leaves its flag on meanwhile; a hook whose handlers have ids or     *)
(* begin and end sessions shows nothing.                                     *)
HandlersFit(hook) ==
  \A h \in hook.handlers :
    /\ h.own # None \/ h.out => h.steps = <<>>
    /\ h.steps # <<>> => h.ends = None /\ h.flag \notin h.clears.flags
    /\ h.own # None \/ h.ends \in {"in", "out"} =>
         hook.loads = {} /\ hook.effects = {} /\ \A g \in hook.handlers : g.sets = {}
    /\ h.ends \in {None, "in", "out", "reload"} /\ h.flag # None
    /\ h.item # None => \E l \in hook.loads : h.item \in l.slots

(* The reset leaves nothing of what loads and handlers fill.                 *)
ResetsAll(hook) ==
  /\ \A l \in hook.loads :
       /\ l.slots # {} => l.counter \in hook.reset.counters
       /\ l.slots \subseteq hook.reset.slots /\ l.marks \subseteq hook.reset.marks
  /\ \A h \in hook.handlers : h.sets \subseteq hook.reset.slots

(* What a mark stands for is emptied by the reset alone.                     *)
Clears(hook) ==
  {hook.leaves} \cup hook.closes \cup {e.away : e \in hook.effects} \cup {h.clears : h \in hook.handlers}
MarksFit(hook) ==
  \A l \in hook.loads :
    /\ None \notin l.marks /\ l.erases \subseteq l.slots
    /\ l.marks # {} => /\ l.slots # {}
                       /\ \A m \in hook.loads : l.slots \cap (m.empties \cup m.erases) = {}
                       /\ \A c \in Clears(hook) : c.slots \cap l.slots = {}

(* What is shown of a selected item has a load and a counter of its own, and  *)
(* an effect of the selection that drops it or loads it again.               *)
OfSelection == {"vehicle", "userVehicles"}
Reselects(e, l, s) ==
  /\ "select" \in e.deps /\ l.counter \in e.away.counters /\ s \in e.away.slots
  /\ e.tabs = {} \/ (e.item /\ e.mark = None /\ l.name \in e.loads /\ s \in l.erases)
SelectionFits(hook) ==
  /\ \A h \in hook.handlers : \A s \in h.sets \cap OfSelection : \E l \in hook.loads : s \in l.slots
  /\ \A l \in hook.loads : \A s \in l.slots \cap OfSelection :
       /\ \E e \in hook.effects : Reselects(e, l, s)
       /\ \A m \in hook.loads : m.counter = l.counter \/ s \in m.slots => m = l
       /\ \A c \in Clears(hook) \cup {hook.reset} : l.counter \in c.counters => s \in c.slots

(* What an effect loads when its tab is opened is lost only where the effect *)
(* runs again, too.                                                          *)
FillsTab(e) == e.deps \cap OnTab # {}
Fills(hook, e, s) == \E l \in hook.loads : l.name \in e.loads /\ s \in l.slots
Touches(hook, c, e) ==
  \/ \E s \in c.slots : Fills(hook, e, s)
  \/ \E l \in hook.loads : l.counter \in c.counters /\ \E s \in l.slots : Fills(hook, e, s)
TabsFit(hook) ==
  \A e \in hook.effects : FillsTab(e) =>
    /\ {"tab", "token"} \subseteq e.deps
    /\ e.admin => "role" \in e.deps
    /\ e.item => "select" \in e.deps
    /\ \A f \in hook.effects : Touches(hook, f.away, e) => f.deps \subseteq e.deps
    /\ \A c \in hook.closes \cup {h.clears : h \in hook.handlers} : ~Touches(hook, c, e)
    /\ \A l \in hook.loads : \A s \in l.empties : ~Fills(hook, e, s)

(* A mark that a load of less than the tab shows sets too can be set only    *)
(* where the tab has been open.                                              *)
Full(hook, e) == \A l \in hook.loads : e.mark \in l.marks => \A m \in hook.loads : m.name \in e.loads => m.slots \subseteq l.slots
SharedFit(hook) ==
  \A e \in hook.effects : FillsTab(e) /\ ~Full(hook, e) =>
    /\ ~e.item /\ hook.screen \in e.tabs
    /\ \A l \in hook.loads : l.name \in e.loads => e.mark \in l.marks
    /\ \A c \in Clears(hook) : ~Touches(hook, c, e)
    /\ \A f \in hook.effects :
         (\E l \in hook.loads : l.name \in f.loads /\ e.mark \in l.marks) => f = e \/ f.deps = {"filter"}
    /\ \A h \in hook.handlers : h.steps # <<>> => h.admin /\ h.on = None

WellMade(hook) ==
  /\ WellNamed(hook) /\ HandlersFit(hook) /\ ResetsAll(hook) /\ MarksFit(hook)
  /\ SelectionFits(hook) /\ TabsFit(hook) /\ SharedFit(hook)
ASSUME HooksAssumption == \A n \in DOMAIN Hooks : WellMade(Hooks[n])
=============================================================================
