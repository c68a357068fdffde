------------------------------- MODULE Panels -------------------------------
(* One hook of the frontend at a time (see Hooks), between the user, React's  *)
(* effects and the server's answers, which come in any order. A session is a  *)
(* token: 0 is the login page. Handlers keep the token and the selection they *)
(* were clicked with, so the loads at their end may be asked for with a token *)
(* the page no longer has.                                                    *)
EXTENDS Hooks

CONSTANTS PanelNames,    \* the hooks under test, of the domain of Hooks
          MaxSessions,   \* bound on the sign-ins
          MaxActs,       \* for each, the bound on what the user does while signed in
          Selections     \* what can be selected in a list, 0 being nothing

ASSUME PanelsAssumption ==
  /\ PanelNames \subseteq DOMAIN Hooks
  /\ MaxSessions \in Nat /\ MaxActs \in [PanelNames -> Nat] /\ Selections \subseteq Nat

VARIABLES panel, session, last, role, tab, sel, acts, due, page
panelVars == <<panel, session, last, role, tab, sel, acts, due, page>>

H == Hooks[panel]
LoadNamed(n) == CHOOSE l \in H.loads : l.name = n
HandlerNamed(n) == CHOOSE h \in H.handlers : h.name = n
Slots == (UNION {l.slots : l \in H.loads}) \cup (UNION {h.sets : h \in H.handlers})
LoadsOf(names) == {LoadNamed(n) : n \in names}

Nothing == [sess |-> 0, sel |-> 0, old |-> FALSE, late |-> FALSE, write |-> FALSE]
FreshPage ==
  [flags |-> {}, shown |-> [s \in Slots |-> Nothing], marks |-> {}, requests |-> {},
   handlers |-> {}, filter |-> FALSE, missed |-> {}, overtaken |-> {}]

-----------------------------------------------------------------------------
(* What holds a flag on until an answer: a request or an own-guarded handler *)
(* with the latest id of its counter.                                        *)
FlagsHeldBy(p, counters) ==
  {LoadNamed(r.load).flag : r \in {q \in p.requests : q.latest /\ LoadNamed(q.load).counter \in counters}}
  \cup {HandlerNamed(h.name).flag :
          h \in {g \in p.handlers : g.latest /\ HandlerNamed(g.name).own \in counters}}

(* Taking a new id of a counter overtakes whatever has the last one.         *)
Bumped(p, counters) ==
  [p EXCEPT
     !.requests = {[r EXCEPT !.latest = @ /\ LoadNamed(r.load).counter \notin counters] : r \in @},
     !.handlers = {[h EXCEPT !.latest = @ /\ HandlerNamed(h.name).own \notin counters] : h \in @},
     !.overtaken = @ \cup (FlagsHeldBy(p, counters) \ {None})]

Lit(p, flags) == [p EXCEPT !.flags = @ \cup flags, !.overtaken = @ \ flags]
Unlit(p, flags) ==
  [p EXCEPT !.flags = @ \ flags, !.overtaken = @ \ flags,
            !.handlers = {[h EXCEPT !.freed = @ \/ HandlerNamed(h.name).flag \in flags] : h \in @}]

Cleared(p, c) ==
  LET q == Unlit(Bumped(p, c.counters), c.flags)
  IN  [q EXCEPT !.shown = [s \in Slots |-> IF s \in c.slots THEN Nothing ELSE @[s]],
                !.marks = @ \ c.marks, !.missed = @ \ c.slots]

(* The loads of names asked for with the token of sess, by a handler or an    *)
(* effect. A load already out on the same counter grows old; the slots that   *)
(* it would have filled and the new ones do not are missed.                  *)
Asked(p, names, sess, by) ==
  LET S == LoadsOf(names)
      q == Lit(Bumped(p, {l.counter : l \in S}), {l.flag : l \in S} \ {None})
      again(r) == \E l \in S : l.counter = LoadNamed(r.load).counter
      lost == UNION {LoadNamed(r.load).slots : r \in {r \in p.requests : r.latest /\ again(r)}}
  IN  [q EXCEPT
         !.missed = @ \cup (lost \ UNION {l.slots : l \in S}),
         !.shown = [s \in Slots |-> IF \E l \in S : s \in l.empties THEN Nothing ELSE @[s]],
         !.requests = {[r EXCEPT !.old = @ \/ again(r)] : r \in @}
           \cup {[load |-> l.name, latest |-> TRUE, sess |-> sess, late |-> sess # session,
                  sel |-> sel, old |-> FALSE, by |-> by] : l \in S}]

(* A load's answer is dropped unless its id is still the latest. A late one   *)
(* that sets a mark makes the session miss what else the mark stands for.    *)
LatestAny(r) == TRUE
Latest(r) == r.latest
Marked(l) == UNION {k.slots : k \in {k \in H.loads : k.marks \cap l.marks # {}}}
Applied(p, r, ok) ==
  LET l == LoadNamed(r.load)
      answer == [sess |-> r.sess, sel |-> r.sel, old |-> r.old, late |-> r.late, write |-> FALSE]
      q == [p EXCEPT !.requests = @ \ {r}]
  IN  IF ~Latest(r) THEN q
      ELSE IF ok
      THEN [Unlit(q, {l.flag}) EXCEPT
              !.shown = [s \in Slots |-> IF s \in l.slots THEN answer ELSE @[s]],
              !.marks = @ \cup l.marks,
              !.missed = (@ \cup (IF r.late THEN Marked(l) ELSE {})) \ l.slots]
      ELSE [Unlit(q, {l.flag}) EXCEPT
              !.shown = [s \in Slots |-> IF s \in l.erases THEN Nothing ELSE @[s]],
              !.missed = @ \cup l.slots]

-----------------------------------------------------------------------------
(* A handler's finally: its flag goes off, whoever set it last.              *)
Finished(p, h) == Unlit([p EXCEPT !.handlers = @ \ {h}], {HandlerNamed(h.name).flag})

(* After its own request and after each step a handler goes on to the next   *)
(* step; a failure ends it.                                                  *)
Advanced(p, h, ok) ==
  LET steps == HandlerNamed(h.name).steps
      next == [h EXCEPT !.stage = @ + 1]
  IN  IF ~ok \/ h.stage = Len(steps) THEN Finished(p, h)
      ELSE Asked([p EXCEPT !.handlers = (@ \ {h}) \cup {next}],
                 steps[h.stage + 1], h.sess, <<h.name, h.sess>>)

(* The answer to the last load of a step, or to the first that fails, wakes   *)
(* the handler that waits for it.                                            *)
Woken(p, r, ok) ==
  LET waiting == {h \in p.handlers : <<h.name, h.sess>> = r.by /\ h.stage > 0}
      done == ~ok \/ \A q \in p.requests : q.by # r.by
  IN  IF waiting = {} \/ ~done THEN p ELSE Advanced(p, CHOOSE h \in waiting : TRUE, ok)

-----------------------------------------------------------------------------
Settled == due = {}
Acting == Settled /\ acts < MaxActs[panel] /\ acts' = acts + 1

InitPanels ==
  /\ panel \in PanelNames
  /\ session = 0 /\ last = 0 /\ role = FALSE /\ tab = "elsewhere" /\ sel = 0 /\ acts = 0
  /\ due = {}
  /\ page = FreshPage

StartSession ==
  /\ last < MaxSessions
  /\ session' = last + 1 /\ last' = last + 1 /\ due' = due \cup {"token"}

(* A login seen from the other hooks: the token appears. *)
SignIn ==
  /\ panel # "auth" /\ session = 0 /\ Settled
  /\ StartSession
  /\ UNCHANGED <<panel, role, tab, sel, acts, page>>

(* handleLogout: the token is gone at once, what the hooks hold goes in the  *)
(* effect. The user's role goes with it.                                     *)
SignOut ==
  /\ session # 0 /\ Settled
  /\ session' = 0 /\ role' = FALSE /\ due' = {"token", "role"}
  /\ page' = Cleared(page, H.leaves)
  /\ UNCHANGED <<panel, last, tab, sel, acts>>

(* The workspace's first load says who the user is. *)
RoleArrives ==
  /\ session # 0 /\ ~role /\ "token" \notin due
  /\ role' = TRUE /\ due' = due \cup {"role"}
  /\ UNCHANGED <<panel, session, last, tab, sel, acts, page>>

Goto(t) ==
  /\ Acting /\ session # 0 /\ t # tab
  /\ tab' = t /\ due' = {"tab"}
  /\ UNCHANGED <<panel, session, last, role, sel, page>>

Choosing == \E e \in H.effects : "select" \in e.deps
Select(i) ==
  /\ Acting /\ session # 0 /\ tab = H.screen /\ Choosing /\ i # sel
  /\ sel' = i /\ due' = {"select"}
  /\ UNCHANGED <<panel, session, last, role, tab, page>>

(* A search or a refresh from the hook's screen. *)
Search(n) ==
  /\ Acting /\ role /\ tab = H.screen /\ n \in H.searches
  /\ page' = [Asked(page, {n}, session, <<>>) EXCEPT !.filter = TRUE]
  /\ UNCHANGED <<panel, session, last, role, tab, sel, due>>

Close(c) ==
  /\ Acting /\ session # 0 /\ tab = H.screen /\ c \in H.closes
  /\ page' = Cleared(page, c)
  /\ UNCHANGED <<panel, session, last, role, tab, sel, due>>

(* A button is disabled by its flag.                                         *)
Enabled(h) ==
  /\ IF h.out THEN session = 0 ELSE session # 0
  /\ h.admin => role
  /\ ~h.out => tab = IF h.on = None THEN H.screen ELSE h.on
  /\ h.flag \notin page.flags
  /\ h.item # None => page.shown[h.item] # Nothing
Click(h) ==
  /\ Acting /\ Enabled(h)
  /\ LET item == IF h.item = None THEN sel ELSE page.shown[h.item].sel
     IN  page' = [Lit(Bumped(page, {h.own} \ {None}), {h.flag}) EXCEPT
                    !.handlers = @ \cup {[name |-> h.name, sess |-> session, stage |-> 0,
                                          sel |-> item, latest |-> TRUE, freed |-> FALSE]}]
  /\ UNCHANGED <<panel, session, last, role, tab, sel, due>>

(* The server answers a load. A list may no longer have the selected item or *)
(* the value of a filter.                                                    *)
Answer(r, ok) ==
  LET shows == ok /\ Latest(r)
      filtered == shows /\ page.filter
                  /\ \E e \in H.effects : "filter" \in e.deps /\ r.load \in e.loads
  IN  /\ page' = Woken(Applied(page, r, ok), r, ok)
      /\ \/ sel' = sel /\ due' = due
         \/ /\ shows /\ r.load \in {"vehicles", "filtered", "users"}
            /\ sel' \in Selections \ {sel} /\ due' = due \cup {"select"}
         \/ filtered /\ sel' = sel /\ due' = due \cup {"filter"}
      /\ UNCHANGED <<panel, session, last, role, tab, acts>>

(* The server answers a handler's own request. *)
Dropped(h) == HandlerNamed(h.name).own # None /\ ~h.latest
Written(h, ok) ==
  LET d == HandlerNamed(h.name)
      result == [sess |-> h.sess, sel |-> h.sel, old |-> FALSE, late |-> h.sess # session, write |-> TRUE]
      set == [Cleared([page EXCEPT !.handlers = @ \ {h}], d.clears) EXCEPT
                !.shown = [s \in Slots |-> IF s \in d.sets THEN result ELSE @[s]]]
      ends == ok /\ ~Dropped(h)
  IN  /\ h.stage = 0
      /\ page' = IF Dropped(h) THEN [page EXCEPT !.handlers = @ \ {h}]
                 ELSE IF ~ok THEN Finished(page, h)
                 ELSE IF d.ends = "reload" THEN FreshPage
                 ELSE Advanced(set, h, TRUE)
      /\ \/ ends /\ d.ends = "in" /\ StartSession /\ UNCHANGED <<role, sel>>
         \/ /\ ends /\ d.ends \in {"out", "reload"}
            /\ session' = 0 /\ role' = FALSE /\ due' = {"token", "role"} /\ UNCHANGED <<last, sel>>
         \/ ~ends /\ UNCHANGED <<session, last, role, due, sel>>
         \/ d.ends = None /\ ends /\ UNCHANGED <<session, last, role, due, sel>>
      /\ UNCHANGED <<panel, tab, acts>>

-----------------------------------------------------------------------------
(* React runs the effects whose dependencies have changed; without a token    *)
(* everything the hook holds is reset.                                       *)
Active(e) == session # 0 /\ (e.admin => role) /\ tab \in e.tabs /\ (e.item => sel # 0)
Together(clears) ==
  Clear(UNION {c.counters : c \in clears}, UNION {c.flags : c \in clears},
        UNION {c.slots : c \in clears}, UNION {c.marks : c \in clears})
RunEffects ==
  LET woken == {e \in H.effects : e.deps \cap due # {}}
      away == {e.away : e \in {e \in woken : ~Active(e)}}
              \cup (IF session = 0 /\ "token" \in due THEN {H.reset} ELSE {})
      loads == UNION {e.loads : e \in {e \in woken : Active(e) /\ e.mark \notin page.marks}}
      cleared == Cleared(page, Together(away))
  IN  /\ due # {}
      /\ page' = [(IF loads = {} THEN cleared ELSE Asked(cleared, loads, session, <<>>))
                    EXCEPT !.filter = @ /\ "filter" \notin due /\ session # 0]
      /\ sel' = IF session = 0 THEN 0 ELSE sel
      /\ due' = IF sel' = sel THEN {} ELSE {"select"}
      /\ UNCHANGED <<panel, session, last, role, tab, acts>>

PanelStep ==
  \/ SignIn \/ SignOut \/ RoleArrives \/ RunEffects
  \/ \E t \in H.tabs : Goto(t)
  \/ \E i \in Selections : Select(i)
  \/ \E n \in H.searches : Search(n)
  \/ \E c \in H.closes : Close(c)
  \/ \E h \in H.handlers : Click(h)
  \/ \E r \in page.requests, ok \in BOOLEAN : Answer(r, ok)
  \/ \E h \in page.handlers, ok \in BOOLEAN : Written(h, ok)

PanelsSpec == InitPanels /\ [][PanelStep]_panelVars

-----------------------------------------------------------------------------
Quiet == due = {} /\ page.requests = {} /\ page.handlers = {}

PanelsTypeOK ==
  /\ session \in 0..last /\ last \in 0..MaxSessions /\ acts \in 0..MaxActs[panel]
  /\ tab \in H.tabs /\ sel \in Selections \cup {0}
  /\ due \subseteq {"tab", "token", "role", "select", "filter"}
  /\ DOMAIN page.shown = Slots
  /\ \A r \in page.requests : r.load \in {l.name : l \in H.loads}
  /\ \A h \in page.handlers : h.stage \in 0..Len(HandlerNamed(h.name).steps)

(* Nothing of an earlier session is on the page once its effects have run,   *)
(* other than what a handler of it was still waiting for.                    *)
OwnSession ==
  Settled => \A s \in Slots : LET v == page.shown[s]
                              IN  v # Nothing => v.sess = session \/ v.late \/ v.write

(* What is shown is never the answer to an older request than the last.      *)
LatestAnswer == \A s \in Slots : ~page.shown[s].old

(* Once every answer is in, what is shown is of the selected item, unless it *)
(* is what a write to another item answered.                                 *)
OfSelected ==
  Quiet => \A s \in Slots \cap {"vehicle", "userVehicles"} :
             LET v == page.shown[s] IN v # Nothing => v.sel = sel \/ v.write

(* A spinner stops: something still to be answered holds the flag, or the    *)
(* request that did was overtaken by one that has another flag or none.      *)
FlagsEnd ==
  \A f \in page.flags :
    \/ f \in page.overtaken
    \/ \E r \in page.requests : r.latest /\ LoadNamed(r.load).flag = f
    \/ \E h \in page.handlers : HandlerNamed(h.name).flag = f

(* A button is off while its request is out, unless the end of an earlier    *)
(* session's use of it, or a change of selection, turned it on again.        *)
FlagsGuard ==
  \A h \in page.handlers : h.sess = session /\ ~h.freed => HandlerNamed(h.name).flag \in page.flags

(* A list that is not loaded again has been loaded.                          *)
MarksTrue ==
  \A k \in page.marks : \E l \in H.loads : k \in l.marks /\ \A s \in l.slots : page.shown[s] # Nothing

(* Once every answer is in, an open tab shows what it is for, unless the last *)
(* attempt to load it failed or was overtaken by a load of less, or a late    *)
(* load of something else marked it as loaded.                               *)
TabFilled ==
  Quiet => \A e \in {e \in H.effects : Active(e) /\ e.deps \cap OnTab # {}} :
             LET slots == UNION {l.slots : l \in LoadsOf(e.loads)}
             IN  \A s \in slots : page.shown[s] # Nothing \/ s \in page.missed

(* What the panels hold is of the session, of the last answers and of the     *)
(* selection; what is on goes off, what is busy stays off, what is open is    *)
(* filled.                                                                   *)
PanelsHold ==
  /\ PanelsTypeOK /\ OwnSession /\ LatestAnswer /\ OfSelected
  /\ FlagsEnd /\ FlagsGuard /\ MarksTrue /\ TabFilled
=============================================================================
