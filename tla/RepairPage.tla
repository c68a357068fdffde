------------------------------ MODULE RepairPage ------------------------------
(* The repair page of the frontend: the address, the open tab, the selected   *)
(* repair and document, the loads that bring them together and the commands  *)
(* of the hooks around the page, which end by loading, setting or opening a  *)
(* repair. One user is signed in throughout (Panels has the sessions); tab    *)
(* "documents" stands for every tab other than the repair's. React renders    *)
(* what an answer has changed before the next answer is handled.             *)
EXTENDS Naturals, FiniteSets

CONSTANTS Repairs, Docs,
          OwnerOf,       \* the repair of each document
          DefaultOf,     \* the primary document of each repair, or Unset
          Lists,         \* the sets of documents a refresh can list
          Surfaces,      \* the hooks whose commands are tried, one in each behaviour
          MaxClicks,     \* bound on what the user does
          MaxRefreshes   \* bound on the refreshes of the clock

VARIABLES surface, view, seen, news, listed, work, ticking, clicks, refreshes
pageVars == <<surface, view, seen, news, listed, work, ticking, clicks, refreshes>>

Unset == "none"
At(r, d) == [page |-> "repair", repair |-> r, doc |-> d]
Away == [page |-> "documents", repair |-> Unset, doc |-> Unset]
Addresses == {Away} \cup {At(r, d) : r \in Repairs \cup {Unset}, d \in Docs \cup {Unset}}

DocsOf(r) == {d \in Docs : OwnerOf[d] = r}
ResolvedUnchecked(r, d) == IF d # Unset THEN d ELSE DefaultOf[r]
Resolved(r, d) == IF d \in DocsOf(r) THEN d ELSE DefaultOf[r]

ASSUME PageAssumption ==
  /\ Unset \notin Repairs \cup Docs
  /\ OwnerOf \in [Docs -> Repairs]
  /\ DefaultOf \in [Repairs -> Docs \cup {Unset}]
  /\ \A r \in Repairs : DefaultOf[r] \in DocsOf(r) \cup {Unset}
  /\ Lists \subseteq SUBSET Docs
  /\ Surfaces \subseteq {"documents", "repairDocuments", "editing", "actions", "review"}
  /\ MaxClicks \in Nat /\ MaxRefreshes \in Nat

-----------------------------------------------------------------------------
(* The commands of each hook: the counter whose last id a command must still  *)
(* have to go on, and what it does when its request is answered: "list" only  *)
(* refreshes the workspace, "open" then opens the repair, "reopen" only if    *)
(* the page was open, "set" shows the answered repair, "drop" hides it.      *)
Command(own, does) == [own |-> own, does |-> does]
DocumentsCommands ==
  [upload |-> Command("upload", "list"), reprocess |-> Command("reprocess", "open"),
   batch |-> Command("batch", "reopen"), archiveDocument |-> Command("archive", "reopen")]
RepairDocumentsCommands ==
  [attach |-> Command("documentAction", "open"), setPrimary |-> Command("documentAction", "open"),
   compareReview |-> Command("documentAction", "open"), compare |-> Command("comparison", "nothing")]
EditingCommands ==
  [saveRepair |-> Command("editing", "set"), archiveRepair |-> Command("editing", "resolve"),
   deleteRepair |-> Command("editing", "drop")]
ActionsCommands ==
  [check |-> Command("action", "set"), createVehicle |-> Command("action", "open")]
ReviewCommands ==
  [reviewAction |-> Command(Unset, "open"), linkVehicle |-> Command(Unset, "open"),
   assignService |-> Command(Unset, "set"), saveFields |-> Command(Unset, "set"),
   searchVehicles |-> Command("search", "nothing")]
Commands ==
  [documents |-> DocumentsCommands, repairDocuments |-> RepairDocumentsCommands,
   editing |-> EditingCommands, actions |-> ActionsCommands, review |-> ReviewCommands][surface]

(* A change of these makes the hook take new ids and turn its flags off; the  *)
(* search of vehicles takes a new id and leaves its flag.                    *)
Watches ==
  [documents |-> {"tab", "doc", "repair"}, repairDocuments |-> {"repair"},
   editing |-> {"repair"}, actions |-> {"doc", "repair"}, review |-> {"doc", "repair"}]

Overtaken(cmds, names) == {[c EXCEPT !.latest = @ /\ c.name \notin names] : c \in cmds}
Interrupted(w) ==
  LET names == {n \in DOMAIN Commands : Commands[n].own # Unset}
      kept == IF surface = "review" THEN names ELSE {}
  IN  [w EXCEPT !.cmds = Overtaken(@, names),
                !.lit = @ \ (names \ kept), !.stuck = (@ \ (names \ kept)) \cup (@ \cap kept)
                                                      \cup (kept \cap w.lit)]

-----------------------------------------------------------------------------
(* loadRepairDetail takes the one request id; a silent load leaves the        *)
(* spinner alone, and overtakes a visible one all the same.                  *)
AskRepair(w, r, d, silent, by, for) ==
  LET visible == \E l \in w.loads : l.latest /\ ~l.silent
  IN  [w EXCEPT
         !.loads = {[l EXCEPT !.latest = FALSE] : l \in @}
                     \cup {[repair |-> r, doc |-> d, silent |-> silent, by |-> by,
                            for |-> for, latest |-> TRUE]},
         !.lit = IF silent THEN @ ELSE @ \cup {"repair"},
         !.stuck = IF ~silent THEN @ \ {"repair"} ELSE IF visible THEN @ \cup {"repair"} ELSE @,
         !.lost = (by \in {"tick", "list"} /\ (@ \/ \E l \in w.loads : l.latest /\ l.repair # r))]

(* clearSelectedRepair *)
Forgotten(w) ==
  [w EXCEPT !.loads = {[l EXCEPT !.latest = FALSE] : l \in @},
            !.lit = @ \ {"repair"}, !.stuck = @ \ {"repair"}]

(* openRepairByIds: the tab, the address and a visible load.                 *)
OpenedView(v, r, d) == [v EXCEPT !.tab = "repair", !.address = At(r, d)]
Opened(w, r, d, for) == [AskRepair(w, r, d, FALSE, "open", for) EXCEPT !.key = <<r, d>>]

-----------------------------------------------------------------------------
InitPage ==
  /\ surface \in Surfaces
  /\ view = [tab |-> "documents", address |-> Away, repair |-> Unset, doc |-> Unset]
  /\ seen = view /\ news = {} /\ listed \in Lists
  /\ work = [loads |-> {}, cmds |-> {}, lit |-> {}, stuck |-> {}, key |-> <<>>, lost |-> FALSE]
  /\ ticking = FALSE /\ clicks = 0 /\ refreshes = 0

Rendered == seen = view /\ news = {}
UserActs ==
  /\ Rendered /\ clicks < MaxClicks /\ clicks' = clicks + 1
  /\ UNCHANGED <<surface, seen, news, listed, ticking, refreshes>>

OpenRepair(r, d) ==
  /\ UserActs
  /\ view' = OpenedView(view, r, d)
  /\ work' = Opened(work, r, d, 0)

ChangeTab(t) ==
  /\ UserActs /\ t # view.tab
  /\ view' = [view EXCEPT !.tab = t,
                !.address = IF t = "repair" THEN At(view.repair, view.doc) ELSE Away]
  /\ UNCHANGED work

(* The browser's buttons bring any address. *)
Back(a) ==
  /\ UserActs /\ a # view.address
  /\ view' = [view EXCEPT !.address = a]
  /\ UNCHANGED work

(* What a command is about: any document listed, or what the page shows.     *)
Targets(n) ==
  CASE n \in {"reprocess", "archiveDocument"} ->
         {<<OwnerOf[d], d>> : d \in IF view.tab = "repair" THEN DocsOf(view.repair) ELSE listed}
    [] n \in {"upload", "batch"} -> {<<view.repair, view.doc>>}
    [] n = "deleteRepair" -> {<<OwnerOf[d], Unset>> : d \in IF view.tab = "repair" THEN {} ELSE listed}
    [] n \in DOMAIN RepairDocumentsCommands ->
         {<<view.repair, d>> : d \in IF view.tab = "repair" THEN DocsOf(view.repair) ELSE {}}
    [] n \in {"createVehicle", "reviewAction", "linkVehicle"} ->
         IF view.tab = "repair" /\ view.repair # Unset /\ view.doc # Unset
         THEN {<<view.repair, view.doc>>} ELSE {}
    [] OTHER -> IF view.tab = "repair" /\ view.repair # Unset THEN {<<view.repair, view.doc>>} ELSE {}

Launch(n) ==
  /\ UserActs /\ n \notin work.lit
  /\ \E target \in Targets(n) :
       LET own == Commands[n].own
           rivals == {m \in DOMAIN Commands : own # Unset /\ Commands[m].own = own}
       IN  work' = [work EXCEPT
                      !.cmds = Overtaken(@, rivals)
                                 \cup {[id |-> clicks + 1, name |-> n, repair |-> target[1], doc |-> target[2],
                                        stage |-> "request", latest |-> TRUE, was |-> view]},
                      !.stuck = (@ \ {n}) \cup {c.name : c \in {c \in work.cmds : c.latest /\ c.name \in rivals \ {n}}},
                      !.lit = @ \cup {n}]
  /\ UNCHANGED view

-----------------------------------------------------------------------------
Ended(w, c) ==
  [w EXCEPT !.cmds = @ \ {c},
            !.lit = IF c.latest THEN @ \ {c.name} ELSE @,
            !.stuck = IF c.latest THEN @ \ {c.name} ELSE @]
Goes(c) == c.latest \/ Commands[c.name].own = Unset

(* The server answers a command's own request. *)
Reply(c, ok) ==
  LET does == Commands[c.name].does
      next == [work EXCEPT !.cmds = (@ \ {c}) \cup {[c EXCEPT !.stage = "refresh"]}]
  IN  /\ Rendered /\ c.stage = "request"
      /\ work' = IF ok /\ Goes(c) /\ does # "nothing" THEN next ELSE Ended(work, c)
      /\ view' = IF ~ok \/ ~Goes(c) THEN view
                 ELSE CASE does = "set" -> [view EXCEPT !.repair = c.repair]
                        [] does = "resolve" -> [view EXCEPT !.repair = c.repair, !.doc = Resolved(c.repair, @)]
                        [] does = "drop" /\ c.was.repair = c.repair -> [view EXCEPT !.repair = Unset, !.doc = Unset]
                        [] OTHER -> view
      /\ news' = IF ok /\ Goes(c) /\ does \in {"set", "resolve"} THEN news \cup {"object"} ELSE news
      /\ UNCHANGED <<surface, seen, listed, ticking, clicks, refreshes>>

(* The refresh it waits for comes, and the command opens a repair or ends.   *)
OpensNow(c) ==
  CASE Commands[c.name].does = "open" -> TRUE
    [] c.name = "batch" -> c.was.tab = "repair" /\ c.was.doc # Unset /\ c.was.repair # Unset
    [] c.name = "archiveDocument" -> c.was.tab = "repair" /\ c.was.repair = c.repair
    [] OTHER -> FALSE
OpensUnchecked(c) == OpensNow(c)
Opens(c) == Goes(c) /\ OpensNow(c)
OpenedDoc(c) == IF c.name = "archiveDocument" THEN (IF c.was.doc = c.doc THEN Unset ELSE c.was.doc) ELSE c.doc
Refreshed(c) ==
  /\ Rendered /\ c.stage = "refresh"
  /\ listed' \in Lists /\ news' = news \cup {"documents"}
  /\ view' = IF Opens(c) THEN OpenedView(view, c.repair, OpenedDoc(c)) ELSE view
  /\ work' = IF Opens(c)
             THEN Opened([work EXCEPT !.cmds = (@ \ {c}) \cup {[c EXCEPT !.stage = "open"]}],
                         c.repair, OpenedDoc(c), c.id)
             ELSE Ended(work, c)
  /\ UNCHANGED <<surface, seen, ticking, clicks, refreshes>>

(* The answer to a load: applied only if it is the last one; a repair that is *)
(* gone sends the one who asked by its address back to the documents.        *)
Leaves(l) == l.by \in {"open", "address"}
Answered(w, l, how) ==
  LET rest == [w EXCEPT !.loads = @ \ {l},
                        !.key = IF Leaves(l) /\ @ = <<l.repair, l.doc>> THEN <<>> ELSE @]
      quiet == IF l.latest /\ ~l.silent
               THEN [rest EXCEPT !.lit = @ \ {"repair"}, !.stuck = @ \ {"repair"}] ELSE rest
      reset == IF l.latest /\ how = "ok" /\ ~l.silent /\ surface = "repairDocuments" THEN Interrupted(quiet) ELSE quiet
      gone == IF l.latest /\ how = "missing" /\ Leaves(l) THEN Forgotten(reset) ELSE reset
      asker == {c \in gone.cmds : c.id = l.for /\ c.stage = "open"}
      told == IF asker = {} THEN gone ELSE Ended(gone, CHOOSE c \in asker : TRUE)
  IN  [told EXCEPT !.lost = @ \/ (l.latest /\ how = "error")]
RepairAnswer(l, how) ==
  /\ Rendered
  /\ work' = Answered(work, l, how)
  /\ view' = CASE ~l.latest \/ how = "error" -> view
               [] l.latest /\ how = "ok" -> [view EXCEPT !.repair = l.repair, !.doc = Resolved(l.repair, l.doc)]
               [] l.latest /\ how = "missing" /\ Leaves(l) ->
                    [tab |-> "documents", address |-> Away, repair |-> Unset, doc |-> Unset]
               [] OTHER -> [view EXCEPT !.repair = Unset, !.doc = Unset]
  /\ news' = IF l.latest /\ how = "ok" THEN news \cup {"object"} ELSE news
  /\ ticking' = (ticking /\ l.by # "tick")
  /\ UNCHANGED <<surface, seen, listed, clicks, refreshes>>

-----------------------------------------------------------------------------
(* The interval while a document is being recognized: the shown repair is     *)
(* reloaded silently, one reload at a time, or the documents are.            *)
Tick ==
  /\ Rendered /\ refreshes < MaxRefreshes /\ refreshes' = refreshes + 1
  /\ \/ /\ view.tab = "repair" /\ view.repair # Unset /\ DocsOf(view.repair) # {} /\ ~ticking
        /\ ticking' = TRUE
        /\ work' = AskRepair(work, view.repair, view.doc, TRUE, "tick", 0)
        /\ UNCHANGED <<listed, news>>
     \/ /\ view.tab = "documents"
        /\ listed' \in Lists /\ news' = {"documents"}
        /\ UNCHANGED <<work, ticking>>
  /\ UNCHANGED <<surface, view, seen, clicks>>

(* The effect on the address: the address wins over the tab and the selected  *)
(* document, and over the repair by a load, one at a time for an address.    *)
Agreed(v) ==
  LET a == v.address
      d == IF a.doc # Unset THEN a.doc ELSE v.doc
  IN  CASE a.page = "documents" -> [v EXCEPT !.tab = "documents"]
        [] a.page = "repair" /\ a.repair = Unset ->
             [v EXCEPT !.tab = "repair", !.repair = Unset, !.doc = IF v.doc # Unset THEN Unset ELSE d]
        [] a.page = "repair" /\ a.repair # Unset /\ v.repair = a.repair /\ a.doc = Unset ->
             [v EXCEPT !.tab = "repair", !.doc = DefaultOf[a.repair]]
        [] OTHER -> [v EXCEPT !.tab = "repair", !.doc = d]
Fits(v) ==
  /\ v.repair = v.address.repair
  /\ v.address.doc \in {Unset, v.doc}
Pending(w) == \E l \in w.loads : l.latest /\ Leaves(l)
FollowedByRepair(w, v) ==
  LET a == v.address
  IN  IF a.page = "documents" \/ a.repair = Unset \/ Fits(v) THEN w
      ELSE AskRepair(w, a.repair, Unset, v.repair = a.repair, "address", 0)
Followed(w, v) ==
  LET a == v.address
  IN  CASE a.page = "documents" -> w
        [] a.page = "repair" /\ a.repair = Unset -> Forgotten(w)
        [] OTHER -> IF Fits(v) THEN w
                    ELSE IF w.key = <<a.repair, a.doc>> THEN [w EXCEPT !.lost = @ \/ ~Pending(w)]
                    ELSE [AskRepair(w, a.repair, a.doc, v.repair = a.repair, "address", 0)
                            EXCEPT !.key = <<a.repair, a.doc>>]

(* The effect on the selected document, off the repair page: its repair is    *)
(* loaded, and a document of no known repair is let go.                      *)
Strays(v) ==
  v.tab # "repair" /\ v.doc # Unset /\ v.doc \notin listed \cup DocsOf(v.repair)
Wanted(v) == v.tab # "repair" /\ v.doc # Unset /\ ~Strays(v) /\ v.repair # OwnerOf[v.doc]

(* React runs the effects of what has changed since they last ran: the hooks' *)
(* counters first, then the address, then the selected document.             *)
Changed ==
  {f \in {"tab", "address", "repair", "doc"} : view[f] # seen[f]} \cup news
RunPageEffects ==
  LET route == Changed \cap {"tab", "address", "repair", "doc"} # {}
      list == Changed \cap {"tab", "documents", "doc", "repair", "object"} # {}
      w1 == IF Changed \cap Watches[surface] = {} THEN work ELSE Interrupted(work)
      w2 == IF route THEN Followed(w1, view) ELSE w1
      v2 == IF route THEN Agreed(view) ELSE view
  IN  /\ ~Rendered
      /\ view' = IF list /\ Strays(view) THEN [v2 EXCEPT !.repair = Unset, !.doc = Unset] ELSE v2
      /\ work' = IF list /\ Strays(view) THEN Forgotten(w2)
                 ELSE IF list /\ Wanted(view) THEN AskRepair(w2, OwnerOf[view.doc], view.doc, FALSE, "list", 0)
                 ELSE w2
      /\ seen' = view /\ news' = {}
      /\ ticking' = (ticking /\ view.tab = "repair" /\ view.repair # Unset /\ DocsOf(view.repair) # {})
      /\ UNCHANGED <<surface, listed, clicks, refreshes>>

-----------------------------------------------------------------------------
Answers == \E l \in work.loads, how \in {"ok", "missing", "error"} : RepairAnswer(l, how)
Commanded == \E c \in work.cmds : Refreshed(c) \/ \E ok \in BOOLEAN : Reply(c, ok)
PageStep ==
  \/ \E r \in Repairs : \E d \in DocsOf(r) \cup {Unset} : OpenRepair(r, d)
  \/ \E t \in {"documents", "repair"} : ChangeTab(t)
  \/ \E a \in Addresses : Back(a)
  \/ \E n \in DOMAIN Commands : Launch(n)
  \/ Answers \/ Commanded \/ Tick \/ RunPageEffects

(* The server answers and React runs its effects; the user may stop.         *)
PageFairness ==
  WF_pageVars(Answers) /\ WF_pageVars(Commanded) /\ WF_pageVars(RunPageEffects)
PageSpec == InitPage /\ [][PageStep]_pageVars /\ PageFairness

-----------------------------------------------------------------------------
Resting == Rendered /\ \A l \in work.loads : ~l.latest

PageTypeOK ==
  /\ view \in [tab : {"documents", "repair"}, address : Addresses,
               repair : Repairs \cup {Unset}, doc : Docs \cup {Unset}]
  /\ news \subseteq {"object", "documents"} /\ listed \in SUBSET Docs
  /\ work.lit \subseteq DOMAIN Commands \cup {"repair"} /\ work.stuck \subseteq work.lit
  /\ \A c \in work.cmds : c.stage \in {"request", "refresh", "open"}
  /\ Cardinality({l \in work.loads : l.latest}) <= 1

(* At rest the page shows what its address names, unless the last load for it *)
(* failed, a reload of another repair overtook it, or it was not asked for    *)
(* because an overtaken load for it had not been answered.                   *)
Possible(a) == a.doc \in DocsOf(a.repair) \cup {Unset}
AddressAgrees ==
  Resting /\ ~work.lost =>
    /\ view.tab = "repair" <=> view.address.page = "repair"
    /\ view.tab = "repair" => Fits(view)

(* At rest the selected document is one of the selected repair's.            *)
OneRepair ==
  Resting /\ ~work.lost /\ view.repair # Unset => view.doc \in DocsOf(view.repair) \cup {Unset}

(* Whatever is on has something left to turn it off, unless another button    *)
(* of the same counter, a silent reload or a new selection overtook it.      *)
SpinnersEnd ==
  \A f \in work.lit \ work.stuck :
    \/ \E c \in work.cmds : c.name = f /\ Goes(c)
    \/ f = "repair" /\ \E l \in work.loads : l.latest /\ ~l.silent

(* The page holds together: types, address, selection and spinners.          *)
PageAgrees == PageTypeOK /\ AddressAgrees /\ OneRepair /\ SpinnersEnd

(* A command goes no further, and so neither shows nor opens a repair, once   *)
(* what its hook watches is not what it was when the button was pressed; the  *)
(* commands of the review, which have no ids, do.                            *)
Moved(c) == \E f \in Watches[surface] : view[f] # c.was[f]
NoPullBack ==
  [][surface # "review" =>
       \A c \in work.cmds : Moved(c) =>
         \A d \in work'.cmds : d.id = c.id => d.stage = c.stage]_pageVars

(* The page stops reloading, unless its address names a document that is not  *)
(* the repair's.                                                             *)
Settles == <>[]Resting \/ <>[]~Possible(view.address)
=============================================================================
