---------------------------- MODULE PanelsProofs ----------------------------
(* What the panels hold, for every hook that obeys the rules at the end of    *)
(* Hooks, any number of sessions and acts, and any items to select.           *)
EXTENDS Panels, TLAPS

-----------------------------------------------------------------------------
(* The rows and the pages of the panel.                                      *)
LoadOf(r) == LoadNamed(r.load)
HandlerOf(h) == HandlerNamed(h.name)
HandlerNames == {h.name : h \in H.handlers}
FlagNames == {l.flag : l \in H.loads} \cup {h.flag : h \in H.handlers}
MarkNames == UNION {l.marks : l \in H.loads}
Items == Selections \cup {0}

Values == [sess : Nat, sel : Items, old : BOOLEAN, late : BOOLEAN, write : BOOLEAN]
Requests ==
  [load : LoadNames(H), latest : BOOLEAN, sess : 1..last, late : BOOLEAN,
   sel : Items, old : BOOLEAN, by : {<<>>} \cup (HandlerNames \X Nat)]
HandlerRows ==
  [name : HandlerNames, sess : 0..last, stage : Nat, sel : Items, latest : BOOLEAN, freed : BOOLEAN]
Sound(h) ==
  /\ h.stage <= Len(HandlerOf(h).steps)
  /\ h.stage = 0 \/ HandlerOf(h).own = None
  /\ HandlerOf(h).steps # <<>> => h.sess # 0
Running == {h \in HandlerRows : Sound(h)}
Pages ==
  [flags : SUBSET (FlagNames \ {None}), shown : [Slots -> Values], marks : SUBSET MarkNames,
   requests : SUBSET Requests, handlers : SUBSET Running, filter : BOOLEAN,
   missed : SUBSET Slots, overtaken : SUBSET FlagNames]

(* The requests whose answers are still wanted, the flags that handlers hold  *)
(* and who the handlers are.                                                 *)
Live(p) == {r \in p.requests : r.latest}
Holds(h) == HandlerOf(h).own = None \/ h.latest
Held(p) == {HandlerOf(h).flag : h \in {g \in p.handlers : Holds(g)}}

-----------------------------------------------------------------------------
(* The loads and the handlers of a hook are known by their names.            *)
LEMMA LoadIs ==
  ASSUME WellMade(H)
  PROVE  /\ \A n \in LoadNames(H) : LoadNamed(n) \in H.loads /\ LoadNamed(n).name = n
         /\ \A l \in H.loads : l.name \in LoadNames(H) /\ LoadNamed(l.name) = l
  BY DEF WellMade, WellNamed, LoadNames, LoadNamed

LEMMA HandlerIs ==
  ASSUME WellMade(H)
  PROVE  /\ \A n \in HandlerNames : HandlerNamed(n) \in H.handlers /\ HandlerNamed(n).name = n
         /\ \A h \in H.handlers : h.name \in HandlerNames /\ HandlerNamed(h.name) = h
  BY DEF WellMade, WellNamed, HandlerNames, HandlerNamed

LEMMA RequestHasLoad ==
  ASSUME WellMade(H), NEW r \in Requests
  PROVE  LoadOf(r) \in H.loads /\ LoadOf(r).name = r.load
  BY LoadIs DEF LoadOf, Requests

LEMMA RunningHasHandler ==
  ASSUME WellMade(H), NEW h \in Running
  PROVE  HandlerOf(h) \in H.handlers /\ HandlerOf(h).name = h.name
  BY HandlerIs DEF HandlerOf, Running, HandlerRows

(* Taking an id, growing old and being freed change one field of a row.      *)
OlderRequest(r, counters) == [r EXCEPT !.latest = @ /\ LoadNamed(r.load).counter \notin counters]
OlderHandler(h, counters) == [h EXCEPT !.latest = @ /\ HandlerNamed(h.name).own \notin counters]
FreedHandler(h, flags) == [h EXCEPT !.freed = @ \/ HandlerNamed(h.name).flag \in flags]
AgedRequest(r, S) == [r EXCEPT !.old = @ \/ \E l \in S : l.counter = LoadNamed(r.load).counter]

LEMMA OlderRequestIs ==
  ASSUME NEW r \in Requests, NEW c
  PROVE  /\ OlderRequest(r, c) \in Requests
         /\ OlderRequest(r, c).latest <=> (r.latest /\ LoadOf(r).counter \notin c)
         /\ OlderRequest(r, c).load = r.load
         /\ r.latest /\ LoadOf(r).counter \notin c => OlderRequest(r, c) = r
<1> DEFINE b == r.latest /\ LoadNamed(r.load).counter \notin c
<1>1. b \in BOOLEAN
  BY DEF Requests
<1>2. OlderRequest(r, c) = [r EXCEPT !.latest = b]
  BY DEF OlderRequest
<1>3. b => b = r.latest
  BY DEF Requests
<1> HIDE DEF b
<1>4. b => OlderRequest(r, c) = r
  BY <1>1, <1>2, <1>3 DEF Requests
<1>5. /\ [r EXCEPT !.latest = b] \in Requests /\ [r EXCEPT !.latest = b].latest = b
      /\ [r EXCEPT !.latest = b].load = r.load
  BY <1>1 DEF Requests
<1> QED BY <1>1, <1>2, <1>4, <1>5 DEF b, LoadOf

LEMMA OlderHandlerIs ==
  ASSUME NEW h \in Running, NEW c
  PROVE  /\ OlderHandler(h, c) \in Running
         /\ OlderHandler(h, c).latest <=> (h.latest /\ HandlerOf(h).own \notin c)
         /\ OlderHandler(h, c).name = h.name /\ OlderHandler(h, c).sess = h.sess
         /\ OlderHandler(h, c).freed = h.freed
<1> DEFINE b == h.latest /\ HandlerNamed(h.name).own \notin c
<1>1. b \in BOOLEAN
  BY DEF Running, HandlerRows
<1>2. OlderHandler(h, c) = [h EXCEPT !.latest = b]
  BY DEF OlderHandler
<1> HIDE DEF b
<1>5. /\ [h EXCEPT !.latest = b] \in HandlerRows /\ [h EXCEPT !.latest = b].latest = b
      /\ [h EXCEPT !.latest = b].name = h.name /\ [h EXCEPT !.latest = b].sess = h.sess
      /\ [h EXCEPT !.latest = b].freed = h.freed /\ [h EXCEPT !.latest = b].stage = h.stage
  BY <1>1 DEF Running, HandlerRows
<1> QED BY <1>1, <1>2, <1>5 DEF b, HandlerOf, Running, Sound

LEMMA FreedHandlerIs ==
  ASSUME NEW h \in Running, NEW f
  PROVE  /\ FreedHandler(h, f) \in Running
         /\ FreedHandler(h, f).freed <=> (h.freed \/ HandlerOf(h).flag \in f)
         /\ FreedHandler(h, f).name = h.name /\ FreedHandler(h, f).sess = h.sess
         /\ FreedHandler(h, f).latest = h.latest
<1> DEFINE b == h.freed \/ HandlerNamed(h.name).flag \in f
<1>1. b \in BOOLEAN
  BY DEF Running, HandlerRows
<1>2. FreedHandler(h, f) = [h EXCEPT !.freed = b]
  BY DEF FreedHandler
<1> HIDE DEF b
<1>5. /\ [h EXCEPT !.freed = b] \in HandlerRows /\ [h EXCEPT !.freed = b].freed = b
      /\ [h EXCEPT !.freed = b].name = h.name /\ [h EXCEPT !.freed = b].sess = h.sess
      /\ [h EXCEPT !.freed = b].latest = h.latest /\ [h EXCEPT !.freed = b].stage = h.stage
  BY <1>1 DEF Running, HandlerRows
<1> QED BY <1>1, <1>2, <1>5 DEF b, HandlerOf, Running, Sound

LEMMA AgedRequestIs ==
  ASSUME NEW r \in Requests, NEW S
  PROVE  /\ AgedRequest(r, S) \in Requests
         /\ AgedRequest(r, S).latest = r.latest
         /\ AgedRequest(r, S).load = r.load
         /\ (\A l \in S : l.counter # LoadOf(r).counter) => AgedRequest(r, S) = r
<1> DEFINE b == r.old \/ \E l \in S : l.counter = LoadNamed(r.load).counter
<1>1. b \in BOOLEAN
  BY DEF Requests
<1>2. AgedRequest(r, S) = [r EXCEPT !.old = b]
  BY DEF AgedRequest
<1>3. (\A l \in S : l.counter # LoadNamed(r.load).counter) => b = r.old
  BY DEF Requests
<1> HIDE DEF b
<1>4. b = r.old => AgedRequest(r, S) = r
  BY <1>1, <1>2 DEF Requests
<1>5. /\ [r EXCEPT !.old = b] \in Requests /\ [r EXCEPT !.old = b].latest = r.latest
      /\ [r EXCEPT !.old = b].load = r.load
  BY <1>1 DEF Requests
<1> QED BY <1>1, <1>2, <1>3, <1>4, <1>5 DEF LoadOf

-----------------------------------------------------------------------------
(* What the steps' parts do to a page. Whoever is on the new page was on the *)
(* old one.                                                                  *)
SameUsers(p, q) ==
  \A g \in q.handlers : \E h \in p.handlers : g.name = h.name /\ g.sess = h.sess
StillFreed(p, q, flags) ==
  \A g \in q.handlers : \E h \in p.handlers :
    g.name = h.name /\ (g.freed <=> (h.freed \/ HandlerOf(h).flag \in flags))

LEMMA BumpedIs ==
  ASSUME WellMade(H), NEW p \in Pages, NEW c
  PROVE  /\ Bumped(p, c) \in Pages
         /\ Bumped(p, c).flags = p.flags /\ Bumped(p, c).shown = p.shown
         /\ Bumped(p, c).marks = p.marks /\ Bumped(p, c).missed = p.missed
         /\ Bumped(p, c).filter = p.filter
         /\ Bumped(p, c).overtaken = p.overtaken \cup (FlagsHeldBy(p, c) \ {None})
         /\ Bumped(p, c).requests = {OlderRequest(r, c) : r \in p.requests}
         /\ Bumped(p, c).handlers = {OlderHandler(h, c) : h \in p.handlers}
<1> DEFINE R == {OlderRequest(r, c) : r \in p.requests}
           G == {OlderHandler(h, c) : h \in p.handlers}
           O == p.overtaken \cup (FlagsHeldBy(p, c) \ {None})
<1>1. R \subseteq Requests
  BY OlderRequestIs DEF Pages
<1>2. G \subseteq Running
  BY OlderHandlerIs DEF Pages
<1>3. O \subseteq FlagNames
  <2>1. \A r \in p.requests : LoadNamed(r.load) \in H.loads
    BY RequestHasLoad DEF Pages, LoadOf
  <2>2. \A h \in p.handlers : HandlerNamed(h.name) \in H.handlers
    BY RunningHasHandler DEF Pages, HandlerOf
  <2> QED BY <2>1, <2>2 DEF Pages, FlagNames, FlagsHeldBy
<1>4. Bumped(p, c) = [p EXCEPT !.requests = R, !.handlers = G, !.overtaken = O]
  BY DEF Bumped, OlderRequest, OlderHandler
<1> HIDE DEF R, G, O
<1>5. /\ Bumped(p, c) \in Pages
      /\ Bumped(p, c).flags = p.flags /\ Bumped(p, c).shown = p.shown
      /\ Bumped(p, c).marks = p.marks /\ Bumped(p, c).missed = p.missed
      /\ Bumped(p, c).filter = p.filter /\ Bumped(p, c).overtaken = O
      /\ Bumped(p, c).requests = R /\ Bumped(p, c).handlers = G
  BY <1>1, <1>2, <1>3, <1>4 DEF Pages
<1> QED BY <1>5 DEF R, G, O

LEMMA BumpedLive ==
  ASSUME WellMade(H), NEW p \in Pages, NEW c
  PROVE  Live(Bumped(p, c)) = {r \in Live(p) : LoadOf(r).counter \notin c}
<1>1. \A r \in p.requests : r \in Requests
  BY DEF Pages
<1>2. ASSUME NEW q \in Live(Bumped(p, c))
      PROVE  q \in Live(p) /\ LoadOf(q).counter \notin c
  <2>1. PICK r \in p.requests : q = OlderRequest(r, c)
    BY BumpedIs DEF Live
  <2> QED BY <2>1, <1>1, OlderRequestIs DEF Live
<1>3. ASSUME NEW r \in Live(p), LoadOf(r).counter \notin c
      PROVE  r \in Live(Bumped(p, c))
  <2>1. r \in p.requests /\ r.latest
    BY DEF Live
  <2>2. OlderRequest(r, c) = r
    BY <1>1, <1>3, <2>1, OlderRequestIs
  <2> QED BY <2>1, <2>2, BumpedIs DEF Live
<1> QED BY <1>2, <1>3

LEMMA BumpedHandlers ==
  ASSUME WellMade(H), NEW p \in Pages, NEW c
  PROVE  /\ SameUsers(p, Bumped(p, c))
         /\ StillFreed(p, Bumped(p, c), {})
         /\ \A h \in p.handlers : Holds(h) => HandlerOf(h).flag \in Held(Bumped(p, c)) \cup FlagsHeldBy(p, c)
<1>1. \A h \in p.handlers : h \in Running
  BY DEF Pages
<1>2. SameUsers(p, Bumped(p, c)) /\ StillFreed(p, Bumped(p, c), {})
  BY <1>1, BumpedIs, OlderHandlerIs DEF SameUsers, StillFreed
<1>3. ASSUME NEW h \in p.handlers, Holds(h), HandlerOf(h).flag \notin FlagsHeldBy(p, c)
      PROVE  HandlerOf(h).flag \in Held(Bumped(p, c))
  <2> DEFINE g == OlderHandler(h, c)
  <2>1. g \in Bumped(p, c).handlers /\ g.name = h.name
    BY <1>1, BumpedIs, OlderHandlerIs
  <2>2. g.latest <=> (h.latest /\ HandlerOf(h).own \notin c)
    BY <1>1, OlderHandlerIs
  <2>3. h.latest => HandlerOf(h).own \notin c
    BY <1>3 DEF FlagsHeldBy, HandlerOf
  <2>4. HandlerOf(g) = HandlerOf(h)
    BY <2>1 DEF HandlerOf
  <2> HIDE DEF g
  <2>5. Holds(g)
    BY <1>3, <2>2, <2>3, <2>4 DEF Holds
  <2> QED BY <2>1, <2>4, <2>5 DEF Held
<1> QED BY <1>2, <1>3

LEMMA UnlitIs ==
  ASSUME WellMade(H), NEW p \in Pages, NEW f
  PROVE  /\ Unlit(p, f) \in Pages
         /\ Unlit(p, f).flags = p.flags \ f /\ Unlit(p, f).shown = p.shown
         /\ Unlit(p, f).marks = p.marks /\ Unlit(p, f).missed = p.missed
         /\ Unlit(p, f).filter = p.filter /\ Unlit(p, f).overtaken = p.overtaken \ f
         /\ Unlit(p, f).requests = p.requests /\ Live(Unlit(p, f)) = Live(p)
         /\ SameUsers(p, Unlit(p, f)) /\ StillFreed(p, Unlit(p, f), f)
         /\ Held(p) \subseteq Held(Unlit(p, f))
<1> DEFINE G == {FreedHandler(h, f) : h \in p.handlers}
<1>1. \A h \in p.handlers : h \in Running
  BY DEF Pages
<1>2. G \subseteq Running
  BY <1>1, FreedHandlerIs
<1>3. Unlit(p, f) = [p EXCEPT !.flags = @ \ f, !.overtaken = @ \ f, !.handlers = G]
  BY DEF Unlit, FreedHandler
<1> HIDE DEF G
<1>4. /\ Unlit(p, f) \in Pages
      /\ Unlit(p, f).flags = p.flags \ f /\ Unlit(p, f).shown = p.shown
      /\ Unlit(p, f).marks = p.marks /\ Unlit(p, f).missed = p.missed
      /\ Unlit(p, f).filter = p.filter /\ Unlit(p, f).overtaken = p.overtaken \ f
      /\ Unlit(p, f).requests = p.requests /\ Unlit(p, f).handlers = G
  BY <1>2, <1>3 DEF Pages
<1>5. SameUsers(p, Unlit(p, f)) /\ StillFreed(p, Unlit(p, f), f)
  BY <1>1, <1>4, FreedHandlerIs DEF SameUsers, StillFreed, G
<1>6. Held(p) \subseteq Held(Unlit(p, f))
  BY <1>1, <1>4, FreedHandlerIs DEF Held, Holds, HandlerOf, G
<1>7. Live(Unlit(p, f)) = Live(p)
  BY <1>4 DEF Live
<1> QED BY <1>4, <1>5, <1>6, <1>7

LEMMA LitIs ==
  ASSUME NEW p \in Pages, NEW f \in SUBSET (FlagNames \ {None})
  PROVE  /\ Lit(p, f) \in Pages
         /\ Lit(p, f).flags = p.flags \cup f /\ Lit(p, f).shown = p.shown
         /\ Lit(p, f).marks = p.marks /\ Lit(p, f).missed = p.missed
         /\ Lit(p, f).filter = p.filter /\ Lit(p, f).overtaken = p.overtaken \ f
         /\ Lit(p, f).requests = p.requests /\ Lit(p, f).handlers = p.handlers
  BY DEF Pages, Lit

-----------------------------------------------------------------------------
(* Every flag that is on is held by a request or a handler, or has been       *)
(* overtaken; those in others are held by somebody off the page.             *)
FlagsFor(p, others) ==
  \A f \in p.flags :
    \/ f \in others \/ f \in p.overtaken \/ f \in Held(p)
    \/ \E r \in Live(p) : LoadOf(r).flag = f

KeepsFlags(p, q) == \A others : FlagsFor(p, others) => FlagsFor(q, others)

LEMMA BumpedFlags ==
  ASSUME WellMade(H), NEW p \in Pages, NEW c, NEW others, FlagsFor(p, others)
  PROVE  FlagsFor(Bumped(p, c), others)
<1> SUFFICES ASSUME NEW f \in p.flags, f \notin others, f \notin p.overtaken, f \notin FlagsHeldBy(p, c)
             PROVE  f \in Held(Bumped(p, c)) \/ \E r \in Live(Bumped(p, c)) : LoadOf(r).flag = f
  <2>1. \A f \in p.flags : f # None
    BY DEF Pages
  <2> QED BY <2>1, BumpedIs DEF FlagsFor
<1>1. CASE f \in Held(p)
  BY <1>1, BumpedHandlers DEF Held
<1>2. CASE \E r \in Live(p) : LoadOf(r).flag = f
  BY <1>2, BumpedLive DEF FlagsHeldBy, Live, LoadOf
<1> QED BY <1>1, <1>2 DEF FlagsFor

LEMMA UnlitFlags ==
  ASSUME WellMade(H), NEW p \in Pages, NEW g, NEW others, FlagsFor(p, others)
  PROVE  FlagsFor(Unlit(p, g), others \ g)
  BY UnlitIs DEF FlagsFor

LEMMA UsersChain ==
  ASSUME NEW p, NEW q, NEW r, SameUsers(p, q), SameUsers(q, r)
  PROVE  SameUsers(p, r)
  BY DEF SameUsers

LEMMA FreedChain ==
  ASSUME NEW p, NEW q, NEW r, NEW f, StillFreed(p, q, {}), StillFreed(q, r, f)
  PROVE  StillFreed(p, r, f)
  BY DEF StillFreed, HandlerOf

LEMMA ClearedIs ==
  ASSUME WellMade(H), NEW p \in Pages, NEW c
  PROVE  /\ Cleared(p, c) \in Pages
         /\ Cleared(p, c).flags = p.flags \ c.flags
         /\ \A s \in Slots : Cleared(p, c).shown[s] = IF s \in c.slots THEN Nothing ELSE p.shown[s]
         /\ Cleared(p, c).marks = p.marks \ c.marks
         /\ Cleared(p, c).missed = p.missed \ c.slots
         /\ Cleared(p, c).filter = p.filter
         /\ Live(Cleared(p, c)) = {r \in Live(p) : LoadOf(r).counter \notin c.counters}
         /\ SameUsers(p, Cleared(p, c)) /\ StillFreed(p, Cleared(p, c), c.flags)
         /\ KeepsFlags(p, Cleared(p, c))
<1> DEFINE b == Bumped(p, c.counters)
           q == Unlit(b, c.flags)
           v == [s \in Slots |-> IF s \in c.slots THEN Nothing ELSE q.shown[s]]
           z == Cleared(p, c)
<1>1. b \in Pages
  BY BumpedIs
<1>2. q \in Pages
  BY <1>1, UnlitIs
<1>3. v \in [Slots -> Values]
  <2>1. Nothing \in Values
    BY DEF Nothing, Values, Items
  <2> QED BY <1>2, <2>1 DEF Pages
<1>4. z = [q EXCEPT !.shown = v, !.marks = @ \ c.marks, !.missed = @ \ c.slots]
  BY DEF Cleared
<1> HIDE DEF v, q, z
<1>5. /\ z \in Pages
      /\ z.flags = q.flags /\ z.shown = v /\ z.marks = q.marks \ c.marks
      /\ z.missed = q.missed \ c.slots /\ z.filter = q.filter /\ z.overtaken = q.overtaken
      /\ z.requests = q.requests /\ z.handlers = q.handlers
  BY <1>2, <1>3, <1>4 DEF Pages
<1>6. /\ q.flags = p.flags \ c.flags /\ q.shown = p.shown /\ q.marks = p.marks
      /\ q.missed = p.missed /\ q.filter = p.filter
  BY <1>1, BumpedIs, UnlitIs DEF q
<1>7. Live(z) = {r \in Live(p) : LoadOf(r).counter \notin c.counters}
  <2>1. Live(z) = Live(q)
    BY <1>5 DEF Live
  <2>2. Live(q) = Live(b)
    BY <1>1, UnlitIs DEF q
  <2> QED BY <2>1, <2>2, BumpedLive
<1>8. SameUsers(p, z) /\ StillFreed(p, z, c.flags)
  <2>1. SameUsers(p, b) /\ StillFreed(p, b, {})
    BY BumpedHandlers
  <2>2. SameUsers(b, q) /\ StillFreed(b, q, c.flags)
    BY <1>1, UnlitIs DEF q
  <2>3. SameUsers(p, q) /\ StillFreed(p, q, c.flags)
    BY <2>1, <2>2, UsersChain, FreedChain
  <2> QED BY <2>3, <1>5 DEF SameUsers, StillFreed
<1>9. ASSUME NEW others, FlagsFor(p, others)
      PROVE  FlagsFor(z, others)
  <2>1. FlagsFor(b, others)
    BY <1>9, BumpedFlags
  <2>2. FlagsFor(q, others \ c.flags)
    BY <1>1, <2>1, UnlitFlags DEF q
  <2> QED BY <2>2, <1>5 DEF FlagsFor, Held, Live
<1>10. \A s \in Slots : z.shown[s] = IF s \in c.slots THEN Nothing ELSE p.shown[s]
  BY <1>5, <1>6 DEF v
<1>11. KeepsFlags(p, z)
  <2> HIDE DEF z
  <2> QED BY <1>9 DEF KeepsFlags
<1> QED BY <1>5, <1>6, <1>7, <1>8, <1>10, <1>11 DEF z

(* A new request.                                                            *)
Fresh(l, sess, by) ==
  [load |-> l.name, latest |-> TRUE, sess |-> sess, late |-> sess # session,
   sel |-> sel, old |-> FALSE, by |-> by]
Bys == {<<>>} \cup (HandlerNames \X Nat)

LEMMA FreshIs ==
  ASSUME WellMade(H), sel \in Items, NEW l \in H.loads, NEW sess \in 1..last, NEW by \in Bys
  PROVE  /\ Fresh(l, sess, by) \in Requests
         /\ Fresh(l, sess, by).latest /\ ~Fresh(l, sess, by).old
         /\ Fresh(l, sess, by).late <=> sess # session
         /\ Fresh(l, sess, by).sess = sess /\ Fresh(l, sess, by).sel = sel
         /\ Fresh(l, sess, by).load = l.name /\ LoadOf(Fresh(l, sess, by)) = l
<1> DEFINE b == sess # session
           n == [load |-> l.name, latest |-> TRUE, sess |-> sess, late |-> b,
                 sel |-> sel, old |-> FALSE, by |-> by]
<1>1. b \in BOOLEAN
  OBVIOUS
<1>2. Fresh(l, sess, by) = n
  BY DEF Fresh
<1>3. l.name \in LoadNames(H) /\ LoadNamed(l.name) = l
  BY LoadIs
<1> HIDE DEF b
<1>4. n \in Requests /\ n.latest = TRUE /\ n.old = FALSE /\ n.late = b /\ n.sess = sess
      /\ n.sel = sel /\ n.load = l.name
  BY <1>1, <1>3 DEF Requests, Bys
<1> QED BY <1>2, <1>3, <1>4 DEF b, LoadOf

(* Asking for loads overtakes what is out on their counters.                 *)
Again(r, names) == \E l \in LoadsOf(names) : l.counter = LoadOf(r).counter
News(names, sess, by) == {Fresh(l, sess, by) : l \in LoadsOf(names)}

ShowsAsked(p, q, names) ==
  \A s \in Slots :
    q.shown[s] = IF \E l \in LoadsOf(names) : s \in l.empties THEN Nothing ELSE p.shown[s]
MissesAsked(p, q, names) ==
  /\ p.missed \subseteq q.missed
  /\ \A r \in Live(p) : Again(r, names) =>
       \A s \in LoadOf(r).slots : s \in q.missed \/ \E l \in LoadsOf(names) : s \in l.slots

LEMMA LoadsAre ==
  ASSUME WellMade(H), NEW names \in SUBSET LoadNames(H)
  PROVE  /\ LoadsOf(names) \subseteq H.loads
         /\ \A l \in H.loads : l \in LoadsOf(names) <=> l.name \in names
  BY LoadIs DEF LoadsOf

LEMMA AskedIs ==
  ASSUME WellMade(H), sel \in Items, NEW p \in Pages, NEW names \in SUBSET LoadNames(H),
         NEW sess \in 1..last, NEW by \in Bys
  PROVE  LET q == Asked(p, names, sess, by)
         IN  /\ q \in Pages
             /\ p.flags \subseteq q.flags
             /\ ShowsAsked(p, q, names) /\ MissesAsked(p, q, names)
             /\ q.marks = p.marks /\ q.filter = p.filter
             /\ Live(q) = {r \in Live(p) : ~Again(r, names)} \cup News(names, sess, by)
             /\ SameUsers(p, q) /\ StillFreed(p, q, {}) /\ KeepsFlags(p, q)
<1> DEFINE S == LoadsOf(names)
           C == {l.counter : l \in S}
           F == {l.flag : l \in S} \ {None}
           b == Bumped(p, C)
           q == Lit(b, F)
           lost == UNION {LoadNamed(r.load).slots : r \in {r \in p.requests : r.latest /\ Again(r, names)}}
           m == lost \ UNION {l.slots : l \in S}
           v == [s \in Slots |-> IF \E l \in S : s \in l.empties THEN Nothing ELSE q.shown[s]]
           R == {AgedRequest(r, S) : r \in q.requests} \cup News(names, sess, by)
           z == Asked(p, names, sess, by)
<1>0. S \subseteq H.loads
  BY LoadsAre
<1>1. b \in Pages
  BY BumpedIs
<1>2. F \in SUBSET (FlagNames \ {None})
  BY <1>0 DEF FlagNames
<1>3. q \in Pages
  <2> HIDE DEF b, F
  <2> QED BY <1>1, <1>2, LitIs
<1>4. v \in [Slots -> Values]
  <2>1. Nothing \in Values
    BY DEF Nothing, Values, Items
  <2>2. q.shown \in [Slots -> Values]
    BY <1>3 DEF Pages
  <2> HIDE DEF q, S
  <2> QED BY <2>1, <2>2
<1>5. m \subseteq Slots
  <2>1. \A r \in p.requests : LoadNamed(r.load) \in H.loads
    BY RequestHasLoad DEF Pages, LoadOf
  <2> QED BY <2>1 DEF Slots
<1>6. R \subseteq Requests
  <2>1. q.requests \subseteq Requests
    BY <1>3 DEF Pages
  <2>2. \A r \in q.requests : AgedRequest(r, S) \in Requests
    BY <2>1, AgedRequestIs
  <2>3. \A l \in S : Fresh(l, sess, by) \in Requests
    BY <1>0, FreshIs
  <2> HIDE DEF S, q
  <2> QED BY <2>2, <2>3 DEF News, S
<1>7. z = [q EXCEPT !.missed = @ \cup m, !.shown = v, !.requests = R]
  BY DEF Asked, AgedRequest, News, Fresh, Again, LoadOf
<1>8. /\ z \in Pages
      /\ z.flags = q.flags /\ z.shown = v /\ z.marks = q.marks /\ z.filter = q.filter
      /\ z.missed = q.missed \cup m /\ z.overtaken = q.overtaken
      /\ z.requests = R /\ z.handlers = q.handlers
  <2> HIDE DEF z, q, m, v, R
  <2> QED BY <1>3, <1>4, <1>5, <1>6, <1>7 DEF Pages
<1>9. /\ q.flags = b.flags \cup F /\ q.shown = b.shown /\ q.marks = b.marks /\ q.missed = b.missed
      /\ q.filter = b.filter /\ q.overtaken = b.overtaken \ F
      /\ q.requests = b.requests /\ q.handlers = b.handlers
  <2> HIDE DEF b, F
  <2> QED BY <1>1, <1>2, LitIs
<1>10. /\ b.flags = p.flags /\ b.shown = p.shown /\ b.marks = p.marks /\ b.missed = p.missed
       /\ b.filter = p.filter
  BY BumpedIs
<1>11. \A r \in p.requests : Again(r, names) <=> LoadOf(r).counter \in C
  BY DEF Again
<1>12. Live(z) = {r \in Live(p) : ~Again(r, names)} \cup News(names, sess, by)
  <2>1. Live(b) = {r \in Live(p) : LoadOf(r).counter \notin C}
    <3> HIDE DEF C
    <3> QED BY BumpedLive
  <2>2. Live(b) = {r \in Live(p) : ~Again(r, names)}
    BY <2>1, <1>11 DEF Live
  <2>3. \A r \in b.requests : r \in Requests
    BY <1>1 DEF Pages
  <2>4. \A r \in News(names, sess, by) : r.latest
    BY <1>0, FreshIs DEF News
  <2>5. \A r \in b.requests : r.latest => AgedRequest(r, S) = r
    <3> SUFFICES ASSUME NEW r \in b.requests, r.latest
                 PROVE  AgedRequest(r, S) = r
      OBVIOUS
    <3>1. LoadOf(r).counter \notin C
      BY <2>1 DEF Live
    <3>2. \A l \in S : l.counter # LoadOf(r).counter
      BY <3>1
    <3> QED BY <2>3, <3>2, AgedRequestIs
  <2>6. \A r \in b.requests : AgedRequest(r, S).latest = r.latest
    BY <2>3, AgedRequestIs
  <2>7. z.requests = {AgedRequest(r, S) : r \in b.requests} \cup News(names, sess, by)
    BY <1>8, <1>9
  <2>8. Live(z) = Live(b) \cup News(names, sess, by)
    <3> HIDE DEF z, b, S
    <3> QED BY <2>4, <2>5, <2>6, <2>7 DEF Live
  <2> QED BY <2>2, <2>8
<1>13. SameUsers(p, z) /\ StillFreed(p, z, {})
  <2>1. z.handlers = b.handlers
    BY <1>8, <1>9
  <2>2. SameUsers(p, b) /\ StillFreed(p, b, {})
    <3> HIDE DEF C
    <3> QED BY BumpedHandlers
  <2> HIDE DEF z, b
  <2> QED BY <2>1, <2>2 DEF SameUsers, StillFreed
<1>14. ASSUME NEW others, FlagsFor(p, others)
       PROVE  FlagsFor(z, others)
  <2>1. FlagsFor(b, others)
    <3> HIDE DEF C
    <3> QED BY <1>14, BumpedFlags
  <2>2. Held(z) = Held(b)
    BY <1>8, <1>9 DEF Held
  <2>3. \A r \in Live(b) : r \in Live(z)
    <3>1. Live(b) = {r \in Live(p) : LoadOf(r).counter \notin C}
      <4> HIDE DEF C
      <4> QED BY BumpedLive
    <3> QED BY <3>1, <1>11, <1>12 DEF Live
  <2>4. \A f \in F : \E r \in Live(z) : LoadOf(r).flag = f
    BY <1>0, <1>12, FreshIs DEF News
  <2>5. z.flags = b.flags \cup F /\ z.overtaken = b.overtaken \ F
    BY <1>8, <1>9
  <2> HIDE DEF z, b, F
  <2> QED BY <2>1, <2>2, <2>3, <2>4, <2>5 DEF FlagsFor
<1>15. \A r \in Live(p) : Again(r, names) =>
         \A s \in LoadOf(r).slots : s \in z.missed \/ \E l \in S : s \in l.slots
  <2> SUFFICES ASSUME NEW r \in Live(p), Again(r, names), NEW s \in LoadOf(r).slots,
                      \A l \in S : s \notin l.slots
               PROVE  s \in z.missed
    OBVIOUS
  <2>1. s \in lost
    BY DEF Live, LoadOf
  <2>2. s \in m
    BY <2>1
  <2> QED BY <2>2, <1>8
<1>16. \A s \in Slots : z.shown[s] = IF \E l \in S : s \in l.empties THEN Nothing ELSE p.shown[s]
  BY <1>8, <1>9, <1>10
<1>17. p.flags \subseteq z.flags /\ z.marks = p.marks /\ z.filter = p.filter /\ p.missed \subseteq z.missed
  BY <1>8, <1>9, <1>10
<1>18. ShowsAsked(p, z, names) /\ MissesAsked(p, z, names) /\ KeepsFlags(p, z)
  <2> HIDE DEF z
  <2> QED BY <1>14, <1>15, <1>16, <1>17 DEF ShowsAsked, MissesAsked, KeepsFlags
<1> HIDE DEF z
<1> QED BY <1>8, <1>12, <1>13, <1>17, <1>18 DEF z

-----------------------------------------------------------------------------
(* A handler whose flag nobody has turned off has it on.                     *)
Guarded(p) == \A h \in p.handlers : ~h.freed => HandlerOf(h).flag \in p.flags

LEMMA GuardedKept ==
  ASSUME NEW p, NEW q, NEW f, Guarded(p), p.flags \ f \subseteq q.flags, StillFreed(p, q, f)
  PROVE  Guarded(q)
  BY DEF Guarded, StillFreed, HandlerOf

(* The answer to a request.                                                  *)
AnswerTo(r) == [sess |-> r.sess, sel |-> r.sel, old |-> r.old, late |-> r.late, write |-> FALSE]
WithoutRequest(p, r) == [p EXCEPT !.requests = @ \ {r}]

LEMMA AnswerIs ==
  ASSUME NEW r \in Requests
  PROVE  /\ AnswerTo(r) \in Values /\ AnswerTo(r) # Nothing
         /\ AnswerTo(r).sess = r.sess /\ AnswerTo(r).sel = r.sel
         /\ AnswerTo(r).old = r.old /\ AnswerTo(r).late = r.late
<1> DEFINE b == r.old
           c == r.late
           a == [sess |-> r.sess, sel |-> r.sel, old |-> b, late |-> c, write |-> FALSE]
<1>1. b \in BOOLEAN /\ c \in BOOLEAN /\ r.sess \in Nat /\ r.sess # 0 /\ r.sel \in Items
  BY DEF Requests
<1>2. AnswerTo(r) = a
  BY DEF AnswerTo
<1> HIDE DEF b, c
<1>3. a \in Values /\ a.sess = r.sess /\ a.sel = r.sel /\ a.old = b /\ a.late = c
  BY <1>1 DEF Values
<1>4. Nothing.sess = 0
  BY DEF Nothing
<1> QED BY <1>1, <1>2, <1>3, <1>4 DEF b, c

LEMMA WithoutRequestIs ==
  ASSUME NEW p \in Pages, NEW r \in p.requests
  PROVE  LET q == WithoutRequest(p, r)
         IN  /\ q \in Pages
             /\ q.flags = p.flags /\ q.shown = p.shown /\ q.marks = p.marks
             /\ q.missed = p.missed /\ q.filter = p.filter /\ q.overtaken = p.overtaken
             /\ q.handlers = p.handlers
             /\ Live(q) = Live(p) \ {r}
<1> DEFINE q == WithoutRequest(p, r)
<1>1. /\ q \in Pages
      /\ q.flags = p.flags /\ q.shown = p.shown /\ q.marks = p.marks
      /\ q.missed = p.missed /\ q.filter = p.filter /\ q.overtaken = p.overtaken
      /\ q.handlers = p.handlers /\ q.requests = p.requests \ {r}
  BY DEF WithoutRequest, Pages
<1>2. Live(q) = Live(p) \ {r}
  BY <1>1 DEF Live
<1> QED BY <1>1, <1>2

LEMMA AppliedIs ==
  ASSUME WellMade(H), NEW p \in Pages, NEW r \in p.requests, NEW ok \in BOOLEAN,
         Guarded(p), FlagsFor(p, {})
  PROVE  LET q == Applied(p, r, ok)
             l == LoadOf(r)
         IN  /\ q \in Pages
             /\ Live(q) = Live(p) \ {r}
             /\ q.filter = p.filter /\ SameUsers(p, q) /\ Guarded(q) /\ FlagsFor(q, {})
             /\ ~r.latest => q.shown = p.shown /\ q.marks = p.marks /\ q.missed = p.missed
             /\ r.latest /\ ok =>
                  /\ \A s \in Slots : q.shown[s] = IF s \in l.slots THEN AnswerTo(r) ELSE p.shown[s]
                  /\ q.marks = p.marks \cup l.marks
                  /\ q.missed = (p.missed \cup (IF r.late THEN Marked(l) ELSE {})) \ l.slots
             /\ r.latest /\ ~ok =>
                  /\ \A s \in Slots : q.shown[s] = IF s \in l.erases THEN Nothing ELSE p.shown[s]
                  /\ q.marks = p.marks /\ q.missed = p.missed \cup l.slots
<1> DEFINE q == WithoutRequest(p, r)
           l == LoadOf(r)
           u == Unlit(q, {l.flag})
           z == Applied(p, r, ok)
<1>0. /\ q \in Pages
      /\ q.flags = p.flags /\ q.shown = p.shown /\ q.marks = p.marks
      /\ q.missed = p.missed /\ q.filter = p.filter /\ q.overtaken = p.overtaken
      /\ q.handlers = p.handlers
      /\ Live(q) = Live(p) \ {r}
  BY WithoutRequestIs
<1>1. CASE ~r.latest
  <2>1. z = q
    BY <1>1 DEF Applied, Latest, WithoutRequest
  <2>2. Live(q) = Live(p)
    BY <1>0, <1>1 DEF Live
  <2> HIDE DEF q, z
  <2>3. Guarded(q) /\ FlagsFor(q, {}) /\ SameUsers(p, q)
    BY <1>0, <2>2 DEF Guarded, FlagsFor, Held, SameUsers
  <2> QED BY <1>0, <1>1, <2>1, <2>3 DEF z
<1>2. CASE r.latest
  <2>1. l \in H.loads
    BY RequestHasLoad DEF Pages
  <2>2. l.slots \subseteq Slots /\ l.marks \subseteq MarkNames
    BY <2>1 DEF Slots, MarkNames
  <2>3. Marked(l) \subseteq Slots
    BY DEF Marked, Slots
  <2>4. FlagsFor(q, {l.flag})
    BY <1>0 DEF FlagsFor, Held
  <2>5. /\ u \in Pages /\ u.flags = p.flags \ {l.flag} /\ u.shown = p.shown
        /\ u.marks = p.marks /\ u.missed = p.missed /\ u.filter = p.filter
        /\ Live(u) = Live(p) \ {r} /\ SameUsers(q, u) /\ StillFreed(q, u, {l.flag})
    <3> HIDE DEF q, l
    <3> QED BY <1>0, UnlitIs
  <2>6. FlagsFor(u, {})
    <3>1. FlagsFor(u, {l.flag} \ {l.flag})
      <4> HIDE DEF q, l
      <4> QED BY <1>0, <2>4, UnlitFlags
    <3>2. {l.flag} \ {l.flag} = {}
      OBVIOUS
    <3> QED BY <3>1, <3>2
  <2>7. SameUsers(p, u) /\ Guarded(u)
    <3>1. StillFreed(p, u, {l.flag}) /\ SameUsers(p, u)
      BY <1>0, <2>5 DEF StillFreed, SameUsers
    <3> HIDE DEF u
    <3> QED BY <2>5, <3>1, GuardedKept
  <2>8. CASE ok
    <3> DEFINE v == [s \in Slots |-> IF s \in l.slots THEN AnswerTo(r) ELSE u.shown[s]]
               m == (u.missed \cup (IF r.late THEN Marked(l) ELSE {})) \ l.slots
    <3>1. v \in [Slots -> Values]
      <4>1. AnswerTo(r) \in Values
        BY AnswerIs DEF Pages
      <4> HIDE DEF u, l
      <4> QED BY <4>1, <2>5 DEF Pages
    <3>2. m \subseteq Slots
      <4> HIDE DEF u, l
      <4> QED BY <2>3, <2>5 DEF Pages
    <3>3. z = [u EXCEPT !.shown = v, !.marks = @ \cup l.marks, !.missed = m]
      BY <1>2, <2>8 DEF Applied, Latest, WithoutRequest, AnswerTo, LoadOf
    <3>4. /\ z \in Pages /\ z.flags = u.flags /\ z.shown = v /\ z.marks = u.marks \cup l.marks
          /\ z.missed = m /\ z.filter = u.filter /\ z.overtaken = u.overtaken
          /\ z.requests = u.requests /\ z.handlers = u.handlers
      <4> HIDE DEF z, u, l, m, v
      <4> QED BY <2>2, <2>5, <3>1, <3>2, <3>3 DEF Pages
    <3>5. /\ Live(z) = Live(p) \ {r} /\ SameUsers(p, z) /\ Guarded(z) /\ FlagsFor(z, {})
      <4> HIDE DEF z, u
      <4> QED BY <2>5, <2>6, <2>7, <3>4 DEF Live, SameUsers, Guarded, FlagsFor, Held
    <3>6. \A s \in Slots : z.shown[s] = IF s \in l.slots THEN AnswerTo(r) ELSE p.shown[s]
      <4> HIDE DEF z, u, l
      <4> QED BY <2>5, <3>4
    <3> HIDE DEF z, u
    <3> QED BY <1>2, <2>5, <2>8, <3>4, <3>5, <3>6 DEF z
  <2>9. CASE ~ok
    <3> DEFINE v == [s \in Slots |-> IF s \in l.erases THEN Nothing ELSE u.shown[s]]
    <3>1. v \in [Slots -> Values]
      <4>1. Nothing \in Values
        BY DEF Nothing, Values, Items
      <4> HIDE DEF u, l
      <4> QED BY <4>1, <2>5 DEF Pages
    <3>3. z = [u EXCEPT !.shown = v, !.missed = @ \cup l.slots]
      BY <1>2, <2>9 DEF Applied, Latest, WithoutRequest, AnswerTo, LoadOf
    <3>4. /\ z \in Pages /\ z.flags = u.flags /\ z.shown = v /\ z.marks = u.marks
          /\ z.missed = u.missed \cup l.slots /\ z.filter = u.filter /\ z.overtaken = u.overtaken
          /\ z.requests = u.requests /\ z.handlers = u.handlers
      <4> HIDE DEF z, u, l, v
      <4> QED BY <2>2, <2>5, <3>1, <3>3 DEF Pages
    <3>5. /\ Live(z) = Live(p) \ {r} /\ SameUsers(p, z) /\ Guarded(z) /\ FlagsFor(z, {})
      <4> HIDE DEF z, u
      <4> QED BY <2>5, <2>6, <2>7, <3>4 DEF Live, SameUsers, Guarded, FlagsFor, Held
    <3>6. \A s \in Slots : z.shown[s] = IF s \in l.erases THEN Nothing ELSE p.shown[s]
      <4> HIDE DEF z, u, l
      <4> QED BY <2>5, <3>4
    <3> HIDE DEF z, u
    <3> QED BY <1>2, <2>5, <2>9, <3>4, <3>5, <3>6 DEF z
  <2> HIDE DEF z, l
  <2> QED BY <2>8, <2>9
<1>3. r.latest \in BOOLEAN
  BY DEF Pages, Requests
<1> QED BY <1>1, <1>2, <1>3

-----------------------------------------------------------------------------
(* A handler finishes or goes on to its next step. Before that, everything    *)
(* but who is there stays as it is.                                          *)
WithoutHandler(p, h) == [p EXCEPT !.handlers = @ \ {h}]
OneOn(h) == [h EXCEPT !.stage = @ + 1]
Switched(p, h) == [p EXCEPT !.handlers = (@ \ {h}) \cup {OneOn(h)}]
SameView(p, q) ==
  /\ Live(q) = Live(p) /\ q.shown = p.shown /\ q.marks = p.marks
  /\ q.missed = p.missed /\ q.filter = p.filter
SameUsersAnd(p, q, h) ==
  \A g \in q.handlers :
    \/ g.name = h.name /\ g.sess = h.sess
    \/ \E f \in p.handlers : g.name = f.name /\ g.sess = f.sess

LEMMA WithoutHandlerIs ==
  ASSUME NEW p \in Pages, NEW h
  PROVE  LET q == WithoutHandler(p, h)
         IN  /\ q \in Pages /\ SameView(p, q)
             /\ q.flags = p.flags /\ q.overtaken = p.overtaken /\ q.requests = p.requests
             /\ q.handlers = p.handlers \ {h}
<1> DEFINE q == WithoutHandler(p, h)
<1>1. /\ q \in Pages
      /\ q.flags = p.flags /\ q.shown = p.shown /\ q.marks = p.marks
      /\ q.missed = p.missed /\ q.filter = p.filter /\ q.overtaken = p.overtaken
      /\ q.handlers = p.handlers \ {h} /\ q.requests = p.requests
  BY DEF WithoutHandler, Pages
<1> HIDE DEF q
<1> QED BY <1>1 DEF q, SameView, Live

LEMMA OneOnIs ==
  ASSUME WellMade(H), NEW h \in Running, h.stage < Len(HandlerOf(h).steps)
  PROVE  /\ OneOn(h) \in Running /\ OneOn(h).name = h.name /\ OneOn(h).sess = h.sess
         /\ OneOn(h).freed = h.freed /\ Holds(OneOn(h))
<1>1. HandlerOf(h) \in H.handlers
  BY RunningHasHandler
<1>2. HandlerOf(h).steps \in Seq(SUBSET LoadNames(H))
  BY <1>1 DEF WellMade, WellNamed
<1>3. h.stage \in Nat /\ Len(HandlerOf(h).steps) \in Nat
  BY <1>2 DEF Running, HandlerRows
<1>4. HandlerOf(h).steps # <<>>
  BY <1>2, <1>3
<1>5. HandlerOf(h).own = None
  BY <1>1, <1>4 DEF WellMade, HandlersFit
<1>6. /\ OneOn(h) \in HandlerRows /\ OneOn(h).name = h.name /\ OneOn(h).sess = h.sess
      /\ OneOn(h).freed = h.freed /\ OneOn(h).stage = h.stage + 1
  BY DEF Running, HandlerRows, OneOn
<1>7. HandlerOf(OneOn(h)) = HandlerOf(h)
  BY <1>6 DEF HandlerOf
<1>8. Sound(OneOn(h))
  <2>1. h.sess # 0
    BY <1>4 DEF Running, Sound
  <2> QED BY <1>3, <1>5, <1>6, <1>7, <2>1 DEF Sound
<1> QED BY <1>5, <1>6, <1>7, <1>8 DEF Running, Holds

LEMMA SwitchedIs ==
  ASSUME WellMade(H), NEW p \in Pages, NEW h \in Running, h.stage < Len(HandlerOf(h).steps)
  PROVE  LET q == Switched(p, h)
         IN  /\ q \in Pages /\ SameView(p, q)
             /\ q.flags = p.flags /\ q.overtaken = p.overtaken
             /\ q.handlers = (p.handlers \ {h}) \cup {OneOn(h)}
<1> DEFINE q == Switched(p, h)
<1>0. OneOn(h) \in Running
  BY OneOnIs
<1>1. /\ q \in Pages
      /\ q.flags = p.flags /\ q.shown = p.shown /\ q.marks = p.marks
      /\ q.missed = p.missed /\ q.filter = p.filter /\ q.overtaken = p.overtaken
      /\ q.handlers = (p.handlers \ {h}) \cup {OneOn(h)} /\ q.requests = p.requests
  BY <1>0 DEF Switched, Pages
<1> HIDE DEF q
<1> QED BY <1>1 DEF q, SameView, Live

LEMMA FinishedIs ==
  ASSUME WellMade(H), NEW p \in Pages, NEW h \in Running, Guarded(p), FlagsFor(p, {HandlerOf(h).flag})
  PROVE  LET q == Finished(p, h)
         IN  q \in Pages /\ SameView(p, q) /\ SameUsers(p, q) /\ Guarded(q) /\ FlagsFor(q, {})
<1> DEFINE f == {HandlerOf(h).flag}
           w == WithoutHandler(p, h)
           q == Unlit(w, f)
<1>1. /\ w \in Pages /\ SameView(p, w)
      /\ w.flags = p.flags /\ w.overtaken = p.overtaken /\ w.requests = p.requests
      /\ w.handlers = p.handlers \ {h}
  BY WithoutHandlerIs
<1>2. Finished(p, h) = q
  BY DEF Finished, WithoutHandler, HandlerOf
<1>3. FlagsFor(w, f)
  <2>1. \A g \in p.handlers : Holds(g) => g \in w.handlers \/ HandlerOf(g).flag \in f
    BY <1>1
  <2>2. Live(w) = Live(p)
    BY <1>1 DEF Live
  <2> HIDE DEF w, f
  <2>3. Held(p) \subseteq Held(w) \cup f
    BY <2>1 DEF Held
  <2> QED BY <1>1, <2>2, <2>3 DEF FlagsFor, f
<1>4. q \in Pages /\ SameView(w, q) /\ SameUsers(w, q) /\ StillFreed(w, q, f) /\ q.flags = w.flags \ f
  <2> HIDE DEF w, f
  <2> QED BY <1>1, UnlitIs DEF SameView
<1>5. FlagsFor(q, {})
  <2>1. FlagsFor(q, f \ f)
    <3> HIDE DEF w, f
    <3> QED BY <1>1, <1>3, UnlitFlags
  <2>2. f \ f = {}
    OBVIOUS
  <2> QED BY <2>1, <2>2
<1>6. Guarded(w)
  <2> HIDE DEF w
  <2> QED BY <1>1 DEF Guarded
<1>7. Guarded(q)
  <2> HIDE DEF w, q, f
  <2> QED BY <1>4, <1>6, GuardedKept
<1>8. SameUsers(p, q) /\ SameView(p, q)
  <2> HIDE DEF w, q
  <2> QED BY <1>1, <1>4 DEF SameUsers, SameView
<1> QED BY <1>2, <1>4, <1>5, <1>7, <1>8

LEMMA AdvancedIs ==
  ASSUME WellMade(H), sel \in Items, NEW p \in Pages, NEW h \in Running, NEW ok \in BOOLEAN,
         Guarded(p), FlagsFor(p, {HandlerOf(h).flag}),
         h.stage < Len(HandlerOf(h).steps) /\ ~h.freed => HandlerOf(h).flag \in p.flags
  PROVE  \E q \in Pages :
           /\ SameView(p, q) /\ SameUsersAnd(p, q, h) /\ Guarded(q) /\ FlagsFor(q, {})
           /\ \/ Advanced(p, h, ok) = q
              \/ /\ HandlerOf(h).steps # <<>>
                 /\ \E names \in SUBSET LoadNames(H), sess \in 1..last, by \in Bys :
                      sess = h.sess /\ Advanced(p, h, ok) = Asked(q, names, sess, by)
<1>1. HandlerOf(h) \in H.handlers
  BY RunningHasHandler
<1>2. HandlerOf(h).steps \in Seq(SUBSET LoadNames(H))
  BY <1>1 DEF WellMade, WellNamed
<1>3. h.stage \in Nat /\ h.stage <= Len(HandlerOf(h).steps)
  BY DEF Running, HandlerRows, Sound
<1>4. CASE ~ok \/ h.stage = Len(HandlerOf(h).steps)
  <2>1. Advanced(p, h, ok) = Finished(p, h)
    BY <1>4 DEF Advanced, HandlerOf
  <2>2. SameUsersAnd(p, Finished(p, h), h)
    BY FinishedIs DEF SameUsers, SameUsersAnd
  <2> QED BY <2>1, <2>2, FinishedIs
<1>5. CASE ok /\ h.stage # Len(HandlerOf(h).steps)
  <2> DEFINE q == Switched(p, h)
             names == HandlerOf(h).steps[h.stage + 1]
             by == <<h.name, h.sess>>
  <2>1. h.stage < Len(HandlerOf(h).steps)
    BY <1>2, <1>3, <1>5
  <2>2. Advanced(p, h, ok) = Asked(q, names, h.sess, by)
    BY <1>5 DEF Advanced, Switched, OneOn, HandlerOf
  <2>3. names \in SUBSET LoadNames(H)
    BY <1>2, <1>3, <2>1
  <2>4. HandlerOf(h).steps # <<>>
    BY <1>2, <1>3, <2>1
  <2>5. h.sess \in 1..last
    BY <2>4 DEF Running, HandlerRows, Sound
  <2>6. by \in Bys
    BY DEF Running, HandlerRows, Bys
  <2>7. /\ q \in Pages /\ SameView(p, q) /\ q.flags = p.flags /\ q.overtaken = p.overtaken
        /\ q.handlers = (p.handlers \ {h}) \cup {OneOn(h)}
    BY <2>1, SwitchedIs
  <2>8. /\ OneOn(h) \in Running /\ OneOn(h).name = h.name /\ OneOn(h).sess = h.sess
        /\ OneOn(h).freed = h.freed /\ Holds(OneOn(h)) /\ HandlerOf(OneOn(h)) = HandlerOf(h)
    BY <2>1, OneOnIs DEF HandlerOf
  <2>9. SameUsersAnd(p, q, h)
    <3> HIDE DEF q
    <3> QED BY <2>7, <2>8 DEF SameUsersAnd
  <2>10. Guarded(q)
    <3> HIDE DEF q
    <3> QED BY <2>1, <2>7, <2>8 DEF Guarded
  <2>11. FlagsFor(q, {})
    <3>1. Held(p) \subseteq Held(q) \cup {HandlerOf(h).flag} /\ HandlerOf(h).flag \in Held(q)
      <4> HIDE DEF q
      <4> QED BY <2>7, <2>8 DEF Held
    <3> HIDE DEF q
    <3> QED BY <2>7, <3>1 DEF FlagsFor, SameView
  <2> HIDE DEF q, names, by
  <2> QED BY <2>2, <2>3, <2>4, <2>5, <2>6, <2>7, <2>9, <2>10, <2>11
<1> QED BY <1>4, <1>5

-----------------------------------------------------------------------------
(* What the page shows. It is of the session (in the session's last moments   *)
(* anything may still be there), of the last requests, and of the selected    *)
(* item i, unless the selection has just moved; marks tell what is loaded.   *)
Mine(p, sess, leaving) ==
  /\ \A r \in Live(p) : LoadOf(r).slots # {} => r.late \/ r.sess = sess \/ leaving
  /\ \A s \in Slots : \/ p.shown[s] = Nothing \/ p.shown[s].late \/ p.shown[s].write
                      \/ p.shown[s].sess = sess /\ sess # 0
                      \/ leaving
Recent(p) == (\A s \in Slots : ~p.shown[s].old) /\ (\A r \in Live(p) : ~r.old)
Awaited(p, s) == \E r \in Live(p) : s \in LoadOf(r).slots /\ s \in LoadOf(r).erases
Chosen(p, i, moved) ==
  \A s \in Slots \cap OfSelection :
    /\ \A r \in Live(p) : s \in LoadOf(r).slots => r.sel = i \/ moved
    /\ \/ p.shown[s] = Nothing \/ p.shown[s].write
       \/ /\ \E l \in H.loads : s \in l.slots
          /\ p.shown[s].sel = i \/ moved \/ Awaited(p, s)
MarksFor(p) == \A k \in p.marks : \E l \in H.loads : k \in l.marks /\ \A s \in l.slots : p.shown[s] # Nothing
Views(p, sess, leaving, i, moved) ==
  Mine(p, sess, leaving) /\ Recent(p) /\ Chosen(p, i, moved) /\ MarksFor(p)

(* An opened tab shows its slots, waits for them or has missed them.         *)
Accounted(p, s) ==
  \/ p.shown[s] # Nothing \/ s \in p.missed
  \/ \E r \in Live(p) : s \in LoadOf(r).slots
Opened(p, e) == \A l \in H.loads : l.name \in e.loads => \A s \in l.slots : Accounted(p, s)
StaysOpened(p, q) == \A e \in H.effects : FillsTab(e) /\ Opened(p, e) => Opened(q, e)

LEMMA SameViews ==
  ASSUME NEW p, NEW q, SameView(p, q), NEW sess, NEW leaving, NEW i, NEW moved
  PROVE  /\ Views(p, sess, leaving, i, moved) => Views(q, sess, leaving, i, moved)
         /\ StaysOpened(p, q)
  BY DEF SameView, Views, Mine, Recent, Chosen, Awaited, MarksFor, StaysOpened, Opened, Accounted

LEMMA SlotIs ==
  ASSUME NEW l \in H.loads
  PROVE  l.slots \subseteq Slots
  BY DEF Slots

LEMMA LiveIs ==
  ASSUME WellMade(H), NEW p \in Pages, NEW r \in Live(p)
  PROVE  r \in Requests /\ LoadOf(r) \in H.loads
  BY RequestHasLoad DEF Live, Pages

LEMMA AskedViews ==
  ASSUME WellMade(H), sel \in Items, NEW p \in Pages, NEW names \in SUBSET LoadNames(H),
         NEW sess \in 1..last, NEW by \in Bys, NEW leaving \in BOOLEAN, NEW moved \in BOOLEAN,
         Views(p, session, leaving, sel, moved)
  PROVE  LET q == Asked(p, names, sess, by)
         IN  Views(q, session, leaving, sel, moved) /\ StaysOpened(p, q)
<1> DEFINE q == Asked(p, names, sess, by)
           N == News(names, sess, by)
<1>1. /\ q \in Pages
      /\ \A s \in Slots : q.shown[s] = IF \E l \in LoadsOf(names) : s \in l.empties
                                       THEN Nothing ELSE p.shown[s]
      /\ q.marks = p.marks /\ p.missed \subseteq q.missed
      /\ \A r \in Live(p) : Again(r, names) =>
           \A s \in LoadOf(r).slots : s \in q.missed \/ \E l \in LoadsOf(names) : s \in l.slots
      /\ Live(q) = {r \in Live(p) : ~Again(r, names)} \cup N
  BY AskedIs DEF ShowsAsked, MissesAsked
<1>2. LoadsOf(names) \subseteq H.loads
  BY LoadsAre
<1>3. \A r \in N : /\ ~r.old /\ r.sel = sel /\ LoadOf(r) \in LoadsOf(names)
                   /\ r.late \/ r.sess = session
  BY <1>2, FreshIs DEF News
<1>4. \A l \in LoadsOf(names) : \E r \in N : LoadOf(r) = l
  BY <1>2, FreshIs DEF News
<1>5. \A s \in Slots : q.shown[s] = Nothing \/ q.shown[s] = p.shown[s]
  BY <1>1
<1>6. ~Nothing.old
  BY DEF Nothing
<1>a. \A r \in Live(p) : LoadOf(r) \in H.loads
  BY LiveIs
<1> HIDE DEF q, N
<1>7. Mine(q, session, leaving)
  BY <1>1, <1>3, <1>5 DEF Views, Mine
<1>8. Recent(q)
  BY <1>1, <1>3, <1>5, <1>6 DEF Views, Recent
<1>9. Chosen(q, sel, moved)
  <2> SUFFICES ASSUME NEW s \in Slots \cap OfSelection
               PROVE  /\ \A r \in Live(q) : s \in LoadOf(r).slots => r.sel = sel \/ moved
                      /\ \/ q.shown[s] = Nothing \/ q.shown[s].write
                         \/ /\ \E l \in H.loads : s \in l.slots
                            /\ q.shown[s].sel = sel \/ moved \/ Awaited(q, s)
    BY DEF Chosen
  <2>1. \A r \in Live(q) : s \in LoadOf(r).slots => r.sel = sel \/ moved
    BY <1>1, <1>3 DEF Views, Chosen
  <2>2. ASSUME Awaited(p, s)
        PROVE  Awaited(q, s)
    <3>1. PICK r \in Live(p) : s \in LoadOf(r).slots /\ s \in LoadOf(r).erases
      BY <2>2 DEF Awaited
    <3>2. CASE ~Again(r, names)
      BY <1>1, <3>1, <3>2 DEF Awaited
    <3>3. CASE Again(r, names)
      <4>1. PICK m \in LoadsOf(names) : m.counter = LoadOf(r).counter
        BY <3>3 DEF Again
      <4>2. m = LoadOf(r)
        BY <1>2, <1>a, <3>1, <4>1 DEF WellMade, SelectionFits
      <4> QED BY <1>1, <1>4, <3>1, <4>2 DEF Awaited
    <3> QED BY <3>2, <3>3
  <2>3. \/ p.shown[s] = Nothing \/ p.shown[s].write
        \/ /\ \E l \in H.loads : s \in l.slots
           /\ p.shown[s].sel = sel \/ moved \/ Awaited(p, s)
    BY DEF Views, Chosen
  <2> QED BY <1>5, <2>1, <2>2, <2>3
<1>10. MarksFor(q)
  <2> SUFFICES ASSUME NEW k \in q.marks
               PROVE  \E l \in H.loads : k \in l.marks /\ \A s \in l.slots : q.shown[s] # Nothing
    BY DEF MarksFor
  <2>1. PICK l \in H.loads : k \in l.marks /\ \A s \in l.slots : p.shown[s] # Nothing
    BY <1>1 DEF Views, MarksFor
  <2>2. \A m \in LoadsOf(names) : l.slots \cap m.empties = {}
    BY <1>2, <2>1 DEF WellMade, MarksFit
  <2>3. \A s \in l.slots : q.shown[s] = p.shown[s]
    BY <1>1, <2>2, SlotIs
  <2> QED BY <2>1, <2>3
<1>11. StaysOpened(p, q)
  <2> SUFFICES ASSUME NEW e \in H.effects, FillsTab(e), Opened(p, e),
                      NEW k \in H.loads, k.name \in e.loads, NEW s \in k.slots
               PROVE  Accounted(q, s)
    BY DEF StaysOpened, Opened
  <2>1. \A l \in H.loads : s \notin l.empties
    BY DEF WellMade, TabsFit, Fills
  <2>2. s \in Slots /\ q.shown[s] = p.shown[s]
    BY <1>1, <1>2, <2>1, SlotIs
  <2>3. ASSUME NEW l \in LoadsOf(names), s \in l.slots
        PROVE  Accounted(q, s)
    BY <1>1, <1>4, <2>3 DEF Accounted
  <2>4. ASSUME NEW r \in Live(p), s \in LoadOf(r).slots
        PROVE  Accounted(q, s)
    BY <1>1, <2>3, <2>4 DEF Accounted
  <2>5. Accounted(p, s)
    BY DEF Opened
  <2> QED BY <1>1, <2>2, <2>4, <2>5 DEF Accounted
<1> QED BY <1>7, <1>8, <1>9, <1>10, <1>11 DEF Views, q

(* A clear spares what marks stand for, unless it takes every mark, and drops *)
(* what is shown of an item together with the requests for it.               *)
SparesMarks(c) ==
  \A l \in H.loads : l.marks # {} => l.marks \subseteq c.marks \/ c.slots \cap l.slots = {}
DropsItems(c) ==
  \A l \in H.loads : \A s \in l.slots \cap OfSelection : l.counter \in c.counters => s \in c.slots

LEMMA ClearsAre ==
  ASSUME WellMade(H), NEW c \in Clears(H)
  PROVE  SparesMarks(c) /\ DropsItems(c)
  BY DEF WellMade, MarksFit, SelectionFits, SparesMarks, DropsItems

LEMMA ResetIs ==
  ASSUME WellMade(H)
  PROVE  SparesMarks(H.reset) /\ DropsItems(H.reset)
  BY DEF WellMade, ResetsAll, SelectionFits, SparesMarks, DropsItems

LEMMA ClearedViews ==
  ASSUME WellMade(H), NEW p \in Pages, NEW c, SparesMarks(c), DropsItems(c),
         NEW sess, NEW leaving \in BOOLEAN, NEW i, NEW moved \in BOOLEAN,
         Views(p, sess, leaving, i, moved)
  PROVE  LET q == Cleared(p, c)
         IN  /\ Views(q, sess, leaving, i, moved)
             /\ \A e \in H.effects : Opened(p, e) /\ ~Touches(H, c, e) => Opened(q, e)
<1> DEFINE q == Cleared(p, c)
<1>1. /\ q \in Pages
      /\ \A s \in Slots : q.shown[s] = IF s \in c.slots THEN Nothing ELSE p.shown[s]
      /\ q.marks = p.marks \ c.marks /\ q.missed = p.missed \ c.slots
      /\ Live(q) = {r \in Live(p) : LoadOf(r).counter \notin c.counters}
  BY ClearedIs
<1>2. ~Nothing.old
  BY DEF Nothing
<1>a. \A r \in Live(p) : LoadOf(r) \in H.loads
  BY LiveIs
<1> HIDE DEF q
<1>3. Mine(q, sess, leaving)
  BY <1>1 DEF Views, Mine
<1>4. Recent(q)
  BY <1>1, <1>2 DEF Views, Recent
<1>5. Chosen(q, i, moved)
  <2> SUFFICES ASSUME NEW s \in Slots \cap OfSelection
               PROVE  /\ \A r \in Live(q) : s \in LoadOf(r).slots => r.sel = i \/ moved
                      /\ \/ q.shown[s] = Nothing \/ q.shown[s].write
                         \/ /\ \E l \in H.loads : s \in l.slots
                            /\ q.shown[s].sel = i \/ moved \/ Awaited(q, s)
    BY DEF Chosen
  <2>1. \A r \in Live(q) : s \in LoadOf(r).slots => r.sel = i \/ moved
    BY <1>1 DEF Views, Chosen
  <2>2. ASSUME Awaited(p, s), s \notin c.slots
        PROVE  Awaited(q, s)
    <3>1. PICK r \in Live(p) : s \in LoadOf(r).slots /\ s \in LoadOf(r).erases
      BY <2>2 DEF Awaited
    <3>2. LoadOf(r).counter \notin c.counters
      BY <1>a, <2>2, <3>1 DEF DropsItems
    <3> QED BY <1>1, <3>1, <3>2 DEF Awaited
  <2>3. \/ p.shown[s] = Nothing \/ p.shown[s].write
        \/ /\ \E l \in H.loads : s \in l.slots
           /\ p.shown[s].sel = i \/ moved \/ Awaited(p, s)
    BY DEF Views, Chosen
  <2> QED BY <1>1, <2>1, <2>2, <2>3
<1>6. MarksFor(q)
  <2> SUFFICES ASSUME NEW k \in q.marks
               PROVE  \E l \in H.loads : k \in l.marks /\ \A s \in l.slots : q.shown[s] # Nothing
    BY DEF MarksFor
  <2>1. PICK l \in H.loads : k \in l.marks /\ \A s \in l.slots : p.shown[s] # Nothing
    BY <1>1 DEF Views, MarksFor
  <2>2. c.slots \cap l.slots = {}
    BY <1>1, <2>1 DEF SparesMarks
  <2>3. \A s \in l.slots : q.shown[s] = p.shown[s]
    BY <1>1, <2>2, SlotIs
  <2> QED BY <2>1, <2>3
<1>7. ASSUME NEW e \in H.effects, Opened(p, e), ~Touches(H, c, e)
      PROVE  Opened(q, e)
  <2> SUFFICES ASSUME NEW k \in H.loads, k.name \in e.loads, NEW s \in k.slots
               PROVE  Accounted(q, s)
    BY DEF Opened
  <2>1. Fills(H, e, s)
    BY DEF Fills
  <2>2. s \notin c.slots
    BY <1>7, <2>1 DEF Touches
  <2>3. ASSUME NEW r \in Live(p), s \in LoadOf(r).slots
        PROVE  r \in Live(q)
    BY <1>1, <1>a, <1>7, <2>1, <2>3 DEF Touches
  <2>4. Accounted(p, s)
    BY <1>7 DEF Opened
  <2> QED BY <1>1, <2>2, <2>3, <2>4, SlotIs DEF Accounted
<1> QED BY <1>3, <1>4, <1>5, <1>6, <1>7 DEF Views, q

LEMMA AppliedViews ==
  ASSUME WellMade(H), NEW p \in Pages, NEW r \in p.requests, NEW ok \in BOOLEAN,
         Guarded(p), FlagsFor(p, {}),
         NEW sess, NEW leaving \in BOOLEAN, NEW i, NEW moved \in BOOLEAN,
         Views(p, sess, leaving, i, moved)
  PROVE  LET q == Applied(p, r, ok)
         IN  Views(q, sess, leaving, i, moved) /\ StaysOpened(p, q)
<1> DEFINE q == Applied(p, r, ok)
           l == LoadOf(r)
<1>1. /\ q \in Pages
      /\ Live(q) = Live(p) \ {r}
      /\ ~r.latest => q.shown = p.shown /\ q.marks = p.marks /\ q.missed = p.missed
      /\ r.latest /\ ok =>
           /\ \A s \in Slots : q.shown[s] = IF s \in l.slots THEN AnswerTo(r) ELSE p.shown[s]
           /\ q.marks = p.marks \cup l.marks
           /\ q.missed = (p.missed \cup (IF r.late THEN Marked(l) ELSE {})) \ l.slots
      /\ r.latest /\ ~ok =>
           /\ \A s \in Slots : q.shown[s] = IF s \in l.erases THEN Nothing ELSE p.shown[s]
           /\ q.marks = p.marks /\ q.missed = p.missed \cup l.slots
  BY AppliedIs
<1>2. r \in Requests /\ l \in H.loads
  BY RequestHasLoad DEF Pages
<1>3. /\ AnswerTo(r) # Nothing /\ AnswerTo(r).sess = r.sess /\ AnswerTo(r).sel = r.sel
      /\ AnswerTo(r).old = r.old /\ AnswerTo(r).late = r.late
  BY <1>2, AnswerIs
<1>4. r.latest => r \in Live(p)
  BY DEF Live
<1>5. r.latest \in BOOLEAN /\ r.sess # 0
  BY <1>2 DEF Requests
<1>6. l.slots \subseteq Slots
  BY <1>2, SlotIs
<1>7. ~Nothing.old
  BY DEF Nothing
<1>8. l.erases \subseteq l.slots
  BY <1>2 DEF WellMade, MarksFit
<1>a. \A k \in Live(p) : LoadOf(k) \in H.loads
  BY LiveIs
<1> HIDE DEF q
<1>9. CASE ~r.latest
  <2>1. Live(q) = Live(p)
    BY <1>1, <1>9 DEF Live
  <2> QED BY <1>1, <1>9, <2>1 DEF Views, Mine, Recent, Chosen, Awaited, MarksFor, StaysOpened, Opened, Accounted, q
<1>10. CASE r.latest /\ ok
  <2>0. /\ \A s \in Slots : q.shown[s] = IF s \in l.slots THEN AnswerTo(r) ELSE p.shown[s]
        /\ q.marks = p.marks \cup l.marks
        /\ p.missed \ l.slots \subseteq q.missed
    BY <1>1, <1>10
  <2> HIDE DEF l
  <2>1. Mine(q, sess, leaving)
    BY <1>1, <1>3, <1>4, <1>5, <1>10, <2>0 DEF Views, Mine, l
  <2>2. Recent(q)
    BY <1>1, <1>3, <1>4, <1>10, <2>0 DEF Views, Recent
  <2>3. Chosen(q, i, moved)
    <3> SUFFICES ASSUME NEW s \in Slots \cap OfSelection
                 PROVE  /\ \A k \in Live(q) : s \in LoadOf(k).slots => k.sel = i \/ moved
                        /\ \/ q.shown[s] = Nothing \/ q.shown[s].write
                           \/ /\ \E k \in H.loads : s \in k.slots
                              /\ q.shown[s].sel = i \/ moved \/ Awaited(q, s)
      BY DEF Chosen
    <3>1. \A k \in Live(p) : s \in LoadOf(k).slots => k.sel = i \/ moved
      BY DEF Views, Chosen
    <3>2. CASE s \in l.slots
      <4>1. q.shown[s].sel = r.sel
        BY <1>3, <2>0, <3>2
      <4>2. r.sel = i \/ moved
        BY <1>4, <1>10, <3>1, <3>2 DEF l
      <4> QED BY <1>1, <1>2, <3>1, <3>2, <4>1, <4>2
    <3>3. CASE s \notin l.slots
      <4>1. Awaited(p, s) => Awaited(q, s)
        BY <1>1, <3>3 DEF Awaited, l
      <4>2. \/ p.shown[s] = Nothing \/ p.shown[s].write
            \/ /\ \E k \in H.loads : s \in k.slots
               /\ p.shown[s].sel = i \/ moved \/ Awaited(p, s)
        BY DEF Views, Chosen
      <4> QED BY <1>1, <2>0, <3>1, <3>3, <4>1, <4>2
    <3> QED BY <3>2, <3>3
  <2>4. MarksFor(q)
    <3>1. \A k \in l.marks : \E m \in H.loads : k \in m.marks /\ \A s \in m.slots : q.shown[s] # Nothing
      BY <1>2, <1>3, <1>6, <2>0
    <3>2. \A k \in p.marks : \E m \in H.loads : k \in m.marks /\ \A s \in m.slots : q.shown[s] # Nothing
      BY <1>3, <2>0, SlotIs DEF Views, MarksFor
    <3> QED BY <2>0, <3>1, <3>2 DEF MarksFor
  <2>5. StaysOpened(p, q)
    <3>1. \A s \in Slots : Accounted(p, s) => Accounted(q, s)
      BY <1>1, <1>3, <2>0 DEF Accounted, l
    <3> QED BY <3>1, SlotIs DEF StaysOpened, Opened
  <2> QED BY <2>1, <2>2, <2>3, <2>4, <2>5 DEF Views, q
<1>11. CASE r.latest /\ ~ok
  <2>0. /\ \A s \in Slots : q.shown[s] = IF s \in l.erases THEN Nothing ELSE p.shown[s]
        /\ q.marks = p.marks /\ q.missed = p.missed \cup l.slots
    BY <1>1, <1>11
  <2> HIDE DEF l
  <2>1. Mine(q, sess, leaving)
    BY <1>1, <2>0 DEF Views, Mine
  <2>2. Recent(q)
    BY <1>1, <1>7, <2>0 DEF Views, Recent
  <2>3. Chosen(q, i, moved)
    <3> SUFFICES ASSUME NEW s \in Slots \cap OfSelection
                 PROVE  /\ \A k \in Live(q) : s \in LoadOf(k).slots => k.sel = i \/ moved
                        /\ \/ q.shown[s] = Nothing \/ q.shown[s].write
                           \/ /\ \E k \in H.loads : s \in k.slots
                              /\ q.shown[s].sel = i \/ moved \/ Awaited(q, s)
      BY DEF Chosen
    <3>1. \A k \in Live(p) : s \in LoadOf(k).slots => k.sel = i \/ moved
      BY DEF Views, Chosen
    <3>2. Awaited(p, s) /\ s \notin l.erases => Awaited(q, s)
      BY <1>1 DEF Awaited, l
    <3>3. \/ p.shown[s] = Nothing \/ p.shown[s].write
          \/ /\ \E k \in H.loads : s \in k.slots
             /\ p.shown[s].sel = i \/ moved \/ Awaited(p, s)
      BY DEF Views, Chosen
    <3> QED BY <1>1, <2>0, <3>1, <3>2, <3>3
  <2>4. MarksFor(q)
    <3> SUFFICES ASSUME NEW k \in q.marks
                 PROVE  \E m \in H.loads : k \in m.marks /\ \A s \in m.slots : q.shown[s] # Nothing
      BY DEF MarksFor
    <3>1. PICK m \in H.loads : k \in m.marks /\ \A s \in m.slots : p.shown[s] # Nothing
      BY <2>0 DEF Views, MarksFor
    <3>2. m.slots \cap l.erases = {}
      BY <1>2, <3>1 DEF WellMade, MarksFit
    <3> QED BY <2>0, <3>1, <3>2, SlotIs
  <2>5. StaysOpened(p, q)
    <3>1. \A s \in Slots : Accounted(p, s) => Accounted(q, s)
      BY <1>1, <1>8, <2>0 DEF Accounted, l
    <3> QED BY <3>1, SlotIs DEF StaysOpened, Opened
  <2> QED BY <2>1, <2>2, <2>3, <2>4, <2>5 DEF Views, q
<1> QED BY <1>5, <1>9, <1>10, <1>11

-----------------------------------------------------------------------------
(* A tab whose mark is set, or is about to be by the session's own request,   *)
(* has been open; so it has where a handler of the session works.            *)
Shared(e) == FillsTab(e) /\ ~Full(H, e)
Kept(p, sess, leaving) ==
  \A e \in H.effects : Shared(e) =>
    /\ e.mark \in p.marks => Opened(p, e) \/ leaving
    /\ \A r \in Live(p) : ~r.late /\ e.mark \in LoadOf(r).marks => Opened(p, e) \/ leaving
    /\ \A h \in p.handlers : h.sess = sess /\ HandlerOf(h).steps # <<>> => Opened(p, e)
WorksOpened(p, h) ==
  \A e \in H.effects : Shared(e) /\ h.sess = session /\ HandlerOf(h).steps # <<>> => Opened(p, e)

LEMMA AskedKept ==
  ASSUME WellMade(H), sel \in Items, NEW p \in Pages, NEW names \in SUBSET LoadNames(H),
         NEW sess \in 1..last, NEW by \in Bys, NEW leaving \in BOOLEAN, NEW moved \in BOOLEAN,
         Views(p, session, leaving, sel, moved), Kept(p, session, leaving),
         \A e \in H.effects : \A l \in LoadsOf(names) :
           Shared(e) /\ e.mark \in l.marks => sess # session \/ Opened(Asked(p, names, sess, by), e)
  PROVE  Kept(Asked(p, names, sess, by), session, leaving)
<1> DEFINE q == Asked(p, names, sess, by)
<1>1. /\ q.marks = p.marks /\ SameUsers(p, q)
      /\ Live(q) = {r \in Live(p) : ~Again(r, names)} \cup News(names, sess, by)
  BY AskedIs
<1>2. StaysOpened(p, q)
  BY AskedViews
<1>3. \A r \in News(names, sess, by) : LoadOf(r) \in LoadsOf(names) /\ (~r.late => sess = session)
  BY LoadsAre, FreshIs DEF News
<1>4. \A e \in H.effects : \A l \in LoadsOf(names) :
        Shared(e) /\ e.mark \in l.marks => sess # session \/ Opened(q, e)
  OBVIOUS
<1> HIDE DEF q
<1>5. SUFFICES ASSUME NEW e \in H.effects, Shared(e)
               PROVE  /\ e.mark \in q.marks => Opened(q, e) \/ leaving
                      /\ \A r \in Live(q) : ~r.late /\ e.mark \in LoadOf(r).marks => Opened(q, e) \/ leaving
                      /\ \A h \in q.handlers : h.sess = session /\ HandlerOf(h).steps # <<>> => Opened(q, e)
  BY DEF Kept, q
<1>6. Opened(p, e) => Opened(q, e)
  BY <1>2, <1>5 DEF StaysOpened, Shared
<1>7. \A h \in q.handlers : h.sess = session /\ HandlerOf(h).steps # <<>> => Opened(q, e)
  BY <1>1, <1>5, <1>6 DEF Kept, SameUsers, HandlerOf
<1>8. \A r \in Live(q) : ~r.late /\ e.mark \in LoadOf(r).marks => Opened(q, e) \/ leaving
  BY <1>1, <1>3, <1>4, <1>5, <1>6 DEF Kept
<1> QED BY <1>1, <1>5, <1>6, <1>7, <1>8 DEF Kept

LEMMA ClearedKept ==
  ASSUME WellMade(H), NEW p \in Pages, NEW c, SparesMarks(c), DropsItems(c),
         \A e \in H.effects : Shared(e) => ~Touches(H, c, e),
         NEW sess, NEW leaving \in BOOLEAN, NEW i, NEW moved \in BOOLEAN,
         Views(p, sess, leaving, i, moved), Kept(p, sess, leaving)
  PROVE  Kept(Cleared(p, c), sess, leaving)
<1> DEFINE q == Cleared(p, c)
<1>1. /\ q.marks = p.marks \ c.marks /\ SameUsers(p, q)
      /\ Live(q) \subseteq Live(p)
  BY ClearedIs
<1>2. \A e \in H.effects : Shared(e) /\ Opened(p, e) => Opened(q, e)
  BY ClearedViews
<1> HIDE DEF q
<1>3. \A e \in H.effects : Shared(e) =>
        \A h \in q.handlers : h.sess = sess /\ HandlerOf(h).steps # <<>> => Opened(q, e)
  BY <1>1, <1>2 DEF Kept, SameUsers, HandlerOf
<1> QED BY <1>1, <1>2, <1>3 DEF Kept, q

LEMMA AppliedKept ==
  ASSUME WellMade(H), NEW p \in Pages, NEW r \in p.requests, NEW ok \in BOOLEAN,
         Guarded(p), FlagsFor(p, {}),
         NEW sess, NEW leaving \in BOOLEAN, NEW i, NEW moved \in BOOLEAN,
         Views(p, sess, leaving, i, moved), Kept(p, sess, leaving)
  PROVE  Kept(Applied(p, r, ok), sess, leaving)
<1> DEFINE q == Applied(p, r, ok)
           l == LoadOf(r)
<1>1. /\ Live(q) = Live(p) \ {r} /\ SameUsers(p, q)
      /\ ~r.latest => q.marks = p.marks
      /\ r.latest /\ ~ok => q.marks = p.marks
      /\ r.latest /\ ok =>
           /\ \A s \in Slots : q.shown[s] = IF s \in l.slots THEN AnswerTo(r) ELSE p.shown[s]
           /\ q.marks = p.marks \cup l.marks
           /\ q.missed = (p.missed \cup (IF r.late THEN Marked(l) ELSE {})) \ l.slots
  BY AppliedIs
<1>2. StaysOpened(p, q)
  BY AppliedViews
<1>3. r \in Requests /\ l \in H.loads
  BY RequestHasLoad DEF Pages
<1>4. AnswerTo(r) # Nothing
  BY <1>3, AnswerIs
<1> HIDE DEF q, l
<1>5. SUFFICES ASSUME NEW e \in H.effects, Shared(e)
               PROVE  /\ e.mark \in q.marks => Opened(q, e) \/ leaving
                      /\ \A k \in Live(q) : ~k.late /\ e.mark \in LoadOf(k).marks => Opened(q, e) \/ leaving
                      /\ \A h \in q.handlers : h.sess = sess /\ HandlerOf(h).steps # <<>> => Opened(q, e)
  BY DEF Kept, q
<1>6. Opened(p, e) => Opened(q, e)
  BY <1>2, <1>5 DEF StaysOpened, Shared
<1>7. \A h \in q.handlers : h.sess = sess /\ HandlerOf(h).steps # <<>> => Opened(q, e)
  BY <1>1, <1>5, <1>6 DEF Kept, SameUsers, HandlerOf
<1>8. \A k \in Live(q) : ~k.late /\ e.mark \in LoadOf(k).marks => Opened(q, e) \/ leaving
  BY <1>1, <1>5, <1>6 DEF Kept
<1>9. ASSUME r.latest, ok, e.mark \in l.marks, r.late
      PROVE  Opened(q, e)
  <2> SUFFICES ASSUME NEW k \in H.loads, k.name \in e.loads, NEW s \in k.slots
               PROVE  Accounted(q, s)
    BY DEF Opened
  <2>1. e.mark \in k.marks
    BY <1>5 DEF WellMade, SharedFit, Shared
  <2>2. s \in Marked(l)
    BY <1>9, <2>1 DEF Marked
  <2> QED BY <1>1, <1>4, <1>9, <2>2, SlotIs DEF Accounted
<1>10. ASSUME r.latest, ok, e.mark \in l.marks, ~r.late
       PROVE  Opened(q, e) \/ leaving
  BY <1>5, <1>6, <1>10 DEF Kept, Live, l
<1>11. e.mark \in q.marks => Opened(q, e) \/ leaving
  BY <1>1, <1>5, <1>6, <1>9, <1>10 DEF Kept
<1> QED BY <1>7, <1>8, <1>11

(* All of it, of a page in the state.                                        *)
Whole(p, leaving, moved) ==
  Views(p, session, leaving, sel, moved) /\ Kept(p, session, leaving) /\ Guarded(p)

LEMMA AdvancedHolds ==
  ASSUME WellMade(H), sel \in Items, NEW p \in Pages, NEW h \in Running, NEW ok \in BOOLEAN,
         NEW leaving \in BOOLEAN, NEW moved \in BOOLEAN,
         Whole(p, leaving, moved), FlagsFor(p, {HandlerOf(h).flag}), WorksOpened(p, h),
         h.stage < Len(HandlerOf(h).steps) /\ ~h.freed => HandlerOf(h).flag \in p.flags
  PROVE  LET q == Advanced(p, h, ok)
         IN  /\ q \in Pages /\ Whole(q, leaving, moved) /\ FlagsFor(q, {})
             /\ StaysOpened(p, q) /\ q.filter = p.filter
<1>1. PICK b \in Pages :
        /\ SameView(p, b) /\ SameUsersAnd(p, b, h) /\ Guarded(b) /\ FlagsFor(b, {})
        /\ \/ Advanced(p, h, ok) = b
           \/ /\ HandlerOf(h).steps # <<>>
              /\ \E names \in SUBSET LoadNames(H), sess \in 1..last, by \in Bys :
                   sess = h.sess /\ Advanced(p, h, ok) = Asked(b, names, sess, by)
  BY AdvancedIs DEF Whole
<1>2. Views(b, session, leaving, sel, moved) /\ StaysOpened(p, b) /\ b.filter = p.filter
  BY <1>1, SameViews DEF Whole, SameView
<1>3. \A e \in H.effects : Shared(e) /\ Opened(p, e) => Opened(b, e)
  BY <1>2 DEF StaysOpened, Shared
<1>4. Kept(b, session, leaving)
  <2>1. b.marks = p.marks /\ Live(b) = Live(p)
    BY <1>1 DEF SameView
  <2>2. \A e \in H.effects : Shared(e) =>
          \A g \in b.handlers : g.sess = session /\ HandlerOf(g).steps # <<>> => Opened(b, e)
    BY <1>1, <1>3 DEF Whole, Kept, SameUsersAnd, WorksOpened, HandlerOf
  <2> QED BY <1>3, <2>1, <2>2 DEF Whole, Kept
<1>5. CASE Advanced(p, h, ok) = b
  BY <1>1, <1>2, <1>4, <1>5 DEF Whole
<1>6. ASSUME HandlerOf(h).steps # <<>>,
             NEW names \in SUBSET LoadNames(H), NEW sess \in 1..last, NEW by \in Bys,
             sess = h.sess, Advanced(p, h, ok) = Asked(b, names, sess, by)
      PROVE  LET q == Advanced(p, h, ok)
             IN  /\ q \in Pages /\ Whole(q, leaving, moved) /\ FlagsFor(q, {})
                 /\ StaysOpened(p, q) /\ q.filter = p.filter
  <2> DEFINE q == Asked(b, names, sess, by)
  <2>1. /\ q \in Pages /\ q.filter = b.filter /\ b.flags \subseteq q.flags
        /\ StillFreed(b, q, {})
    BY AskedIs
  <2>a. FlagsFor(q, {})
    BY <1>1, AskedIs DEF KeepsFlags
  <2>2. Views(q, session, leaving, sel, moved) /\ StaysOpened(b, q)
    BY <1>2, AskedViews
  <2>3. Guarded(q)
    <3> HIDE DEF q
    <3>1. b.flags \ {} \subseteq q.flags
      BY <2>1
    <3> QED BY <1>1, <2>1, <3>1, GuardedKept
  <2>4. \A e \in H.effects : Shared(e) => sess # session \/ Opened(q, e)
    <3> HIDE DEF q
    <3> QED BY <1>3, <1>6, <2>2 DEF WorksOpened, StaysOpened, Shared
  <2>5. Kept(q, session, leaving)
    BY <1>2, <1>4, <2>4, AskedKept
  <2>6. StaysOpened(p, q)
    <3> HIDE DEF q
    <3> QED BY <1>2, <2>2 DEF StaysOpened
  <2> HIDE DEF q
  <2> QED BY <1>2, <1>6, <2>1, <2>a, <2>2, <2>3, <2>5, <2>6 DEF Whole, q
<1> QED BY <1>1, <1>5, <1>6

LEMMA WokenHolds ==
  ASSUME WellMade(H), sel \in Items, NEW p \in Pages, NEW r, NEW ok \in BOOLEAN,
         NEW leaving \in BOOLEAN, NEW moved \in BOOLEAN,
         Whole(p, leaving, moved), FlagsFor(p, {})
  PROVE  LET q == Woken(p, r, ok)
         IN  /\ q \in Pages /\ Whole(q, leaving, moved) /\ FlagsFor(q, {})
             /\ StaysOpened(p, q) /\ q.filter = p.filter
<1>1. CASE Woken(p, r, ok) = p
  BY <1>1 DEF StaysOpened
<1>2. ASSUME NEW h \in p.handlers, Woken(p, r, ok) = Advanced(p, h, ok)
      PROVE  LET q == Woken(p, r, ok)
             IN  /\ q \in Pages /\ Whole(q, leaving, moved) /\ FlagsFor(q, {})
                 /\ StaysOpened(p, q) /\ q.filter = p.filter
  <2>1. h \in Running
    BY DEF Pages
  <2>2. WorksOpened(p, h)
    BY DEF WorksOpened, Whole, Kept
  <2>3. FlagsFor(p, {HandlerOf(h).flag})
    BY DEF FlagsFor
  <2>4. ~h.freed => HandlerOf(h).flag \in p.flags
    BY DEF Whole, Guarded
  <2> QED BY <1>2, <2>1, <2>2, <2>3, <2>4, AdvancedHolds
<1>3. Woken(p, r, ok) = p \/ \E h \in p.handlers : Woken(p, r, ok) = Advanced(p, h, ok)
  BY DEF Woken
<1> QED BY <1>1, <1>2, <1>3

-----------------------------------------------------------------------------
(* The hook of a panel does not change, and sessions only get more.          *)
LEMMA HookStays ==
  ASSUME panel' = panel
  PROVE  /\ H' = H /\ Slots' = Slots
         /\ \A n : LoadNamed(n)' = LoadNamed(n)
         /\ \A n : HandlerNamed(n)' = HandlerNamed(n)
         /\ \A r : LoadOf(r)' = LoadOf(r)
         /\ \A h : HandlerOf(h)' = HandlerOf(h)
<1>1. H' = H
  BY DEF H
<1>2. Slots' = Slots
  BY <1>1 DEF Slots
<1>3. \A n : LoadNamed(n)' = LoadNamed(n)
  BY <1>1 DEF LoadNamed
<1>4. \A n : HandlerNamed(n)' = HandlerNamed(n)
  BY <1>1 DEF HandlerNamed
<1> QED BY <1>1, <1>2, <1>3, <1>4 DEF LoadOf, HandlerOf

LEMMA PagesStay ==
  ASSUME panel' = panel, last \in Nat, last' \in Nat, last <= last', page' \in Pages
  PROVE  (page \in Pages)'
<1>1. /\ HandlerNames' = HandlerNames /\ FlagNames' = FlagNames /\ MarkNames' = MarkNames
      /\ Slots' = Slots /\ H' = H
  BY HookStays DEF HandlerNames, FlagNames, MarkNames
<1>2. Requests \subseteq Requests'
  BY <1>1 DEF Requests
<1>3. HandlerRows \subseteq HandlerRows'
  BY <1>1 DEF HandlerRows
<1>4. \A h : Sound(h)' <=> Sound(h)
  BY HookStays DEF Sound
<1>5. Running \subseteq Running'
  BY <1>3, <1>4 DEF Running
<1> QED BY <1>1, <1>2, <1>5 DEF Pages

LEMMA FlagsStay ==
  ASSUME panel' = panel
  PROVE  /\ Guarded(page') => Guarded(page)'
         /\ FlagsFor(page', {}) => FlagsFor(page, {})'
<1>1. Guarded(page') => Guarded(page)'
  BY HookStays DEF Guarded
<1>2. Held(page') = Held(page)'
  BY HookStays DEF Held, Holds
<1>3. Live(page') = Live(page)'
  BY DEF Live
<1>4. FlagsFor(page', {}) => FlagsFor(page, {})'
  BY <1>2, <1>3, HookStays DEF FlagsFor
<1> QED BY <1>1, <1>4

LEMMA ViewsStay ==
  ASSUME panel' = panel, NEW leaving, NEW moved, Views(page', session', leaving, sel', moved)
  PROVE  Views(page, session, leaving, sel, moved)'
<1>1. Live(page') = Live(page)'
  BY DEF Live
<1>2. Mine(page, session, leaving)'
  BY <1>1, HookStays DEF Views, Mine
<1>3. Recent(page)'
  BY <1>1, HookStays DEF Views, Recent
<1>4. Chosen(page, sel, moved)'
  BY <1>1, HookStays DEF Views, Chosen, Awaited
<1>5. MarksFor(page)'
  BY <1>1, HookStays DEF Views, MarksFor
<1> QED BY <1>2, <1>3, <1>4, <1>5 DEF Views

LEMMA OpenedStays ==
  ASSUME panel' = panel
  PROVE  \A e : Opened(page', e) <=> Opened(page, e)'
<1>1. Live(page') = Live(page)'
  BY DEF Live
<1>2. \A s : Accounted(page', s) <=> Accounted(page, s)'
  BY <1>1, HookStays DEF Accounted
<1> QED BY <1>2, HookStays DEF Opened

LEMMA KeptStays ==
  ASSUME panel' = panel, NEW leaving, Kept(page', session', leaving)
  PROVE  Kept(page, session, leaving)'
<1>1. Live(page') = Live(page)'
  BY DEF Live
<1>2. \A e : Shared(e)' <=> Shared(e)
  BY HookStays DEF Shared
<1> QED BY <1>1, <1>2, HookStays, OpenedStays DEF Kept

-----------------------------------------------------------------------------
(* The invariant.                                                            *)
Leaving == session = 0 /\ "token" \in due
Moved == "select" \in due
Around ==
  /\ panel \in PanelNames /\ last \in 0..MaxSessions /\ session \in 0..last
  /\ role \in BOOLEAN /\ (role => session # 0)
  /\ tab \in H.tabs /\ sel \in Items /\ acts \in 0..MaxActs[panel]
  /\ due \subseteq {"tab", "token", "role", "select", "filter"}
Filled ==
  \A e \in H.effects : FillsTab(e) /\ Active(e) => due \cap e.deps # {} \/ Opened(page, e)
Filtered ==
  \A e \in H.effects : Shared(e) /\ (page.filter \/ "filter" \in due) => session = 0 \/ Opened(page, e)
FilterOff == session = 0 /\ "token" \notin due => ~page.filter
PanelsInv ==
  /\ Around /\ page \in Pages
  /\ Whole(page, Leaving, Moved) /\ FlagsFor(page, {})
  /\ Filled /\ Filtered /\ FilterOff

LEMMA InvMade ==
  ASSUME Around
  PROVE  WellMade(H) /\ sel \in Items /\ last \in Nat /\ session \in Nat
  BY PanelsAssumption, HooksAssumption DEF Around, H

LEMMA InvImplies == PanelsInv => PanelsHold
<1> SUFFICES ASSUME PanelsInv PROVE PanelsHold
  OBVIOUS
<1>1. WellMade(H) /\ Around /\ page \in Pages
  BY InvMade DEF PanelsInv
<1>2. /\ Mine(page, session, Leaving) /\ Recent(page) /\ Chosen(page, sel, Moved) /\ MarksFor(page)
      /\ Guarded(page) /\ FlagsFor(page, {})
  BY DEF PanelsInv, Whole, Views
<1>3. PanelsTypeOK
  <2>1. DOMAIN page.shown = Slots
    BY <1>1 DEF Pages
  <2>2. \A r \in page.requests : r.load \in {l.name : l \in H.loads}
    BY <1>1 DEF Pages, Requests, LoadNames
  <2>3. \A h \in page.handlers : h.stage \in 0..Len(HandlerNamed(h.name).steps)
    <3> SUFFICES ASSUME NEW h \in page.handlers
                 PROVE  h.stage \in 0..Len(HandlerNamed(h.name).steps)
      OBVIOUS
    <3>1. h \in Running
      BY <1>1 DEF Pages
    <3>2. HandlerNamed(h.name).steps \in Seq(SUBSET LoadNames(H))
      BY <1>1, <3>1, RunningHasHandler DEF WellMade, WellNamed, HandlerOf
    <3> QED BY <3>1, <3>2 DEF Running, HandlerRows, Sound, HandlerOf
  <2> QED BY <1>1, <2>1, <2>2, <2>3, PanelsAssumption DEF PanelsTypeOK, Around, Items
<1>4. OwnSession
  BY <1>2 DEF OwnSession, Settled, Mine, Leaving
<1>5. LatestAnswer
  BY <1>2 DEF LatestAnswer, Recent
<1>6. OfSelected
  BY <1>2 DEF OfSelected, Quiet, Chosen, Awaited, Live, OfSelection, Moved
<1>7. FlagsEnd
  BY <1>2 DEF FlagsEnd, FlagsFor, Held, Live, LoadOf, HandlerOf
<1>8. FlagsGuard
  BY <1>2 DEF FlagsGuard, Guarded, HandlerOf
<1>9. MarksTrue
  BY <1>2 DEF MarksTrue, MarksFor
<1>10. TabFilled
  <2> SUFFICES ASSUME Quiet, NEW e \in H.effects, Active(e), e.deps \cap OnTab # {},
                      NEW l \in LoadsOf(e.loads), NEW s \in l.slots
               PROVE  page.shown[s] # Nothing \/ s \in page.missed
    BY DEF TabFilled
  <2>1. e.loads \in SUBSET LoadNames(H)
    BY <1>1 DEF WellMade, WellNamed
  <2>2. l \in H.loads /\ l.name \in e.loads
    BY <1>1, <2>1, LoadsAre
  <2>3. Opened(page, e)
    BY DEF PanelsInv, Filled, FillsTab, Quiet
  <2>4. Accounted(page, s)
    BY <2>2, <2>3 DEF Opened
  <2> QED BY <2>4 DEF Accounted, Live, Quiet
<1> QED BY <1>3, <1>4, <1>5, <1>6, <1>7, <1>8, <1>9, <1>10 DEF PanelsHold

LEMMA FreshPageIs ==
  ASSUME WellMade(H)
  PROVE  /\ FreshPage \in Pages /\ FlagsFor(FreshPage, {}) /\ Guarded(FreshPage)
         /\ ~FreshPage.filter
         /\ \A sess, leaving, i, moved :
              Views(FreshPage, sess, leaving, i, moved) /\ Kept(FreshPage, sess, leaving)
<1> DEFINE v == [s \in Slots |-> Nothing]
<1>1. Nothing \in Values /\ ~Nothing.old
  BY DEF Nothing, Values, Items
<1>2. v \in [Slots -> Values]
  BY <1>1
<1>3. /\ FreshPage.flags = {} /\ FreshPage.shown = v /\ FreshPage.marks = {} /\ FreshPage.requests = {}
      /\ FreshPage.handlers = {} /\ FreshPage.filter = FALSE
  BY DEF FreshPage
<1>4. FreshPage \in Pages
  <2> HIDE DEF v
  <2>1. FreshPage = [flags |-> {}, shown |-> v, marks |-> {}, requests |-> {},
                     handlers |-> {}, filter |-> FALSE, missed |-> {}, overtaken |-> {}]
    BY DEF FreshPage, v
  <2> QED BY <1>2, <2>1 DEF Pages
<1>5. Live(FreshPage) = {}
  BY <1>3 DEF Live
<1>6. \A s \in Slots : FreshPage.shown[s] = Nothing
  BY <1>3
<1> HIDE DEF v
<1> QED BY <1>1, <1>3, <1>4, <1>5, <1>6
        DEF FlagsFor, Guarded, Views, Mine, Recent, Chosen, MarksFor, Kept

LEMMA InitHolds == InitPanels => PanelsInv
<1> SUFFICES ASSUME InitPanels PROVE PanelsInv
  OBVIOUS
<1>1. Around
  <2>1. WellMade(H)
    BY PanelsAssumption, HooksAssumption DEF InitPanels, H
  <2>2. "elsewhere" \in H.tabs
    BY <2>1 DEF WellMade, WellNamed
  <2>3. MaxActs[panel] \in Nat /\ panel \in PanelNames /\ MaxSessions \in Nat
    BY PanelsAssumption DEF InitPanels
  <2>4. /\ session = 0 /\ last = 0 /\ role = FALSE /\ tab = "elsewhere" /\ sel = 0 /\ acts = 0 /\ due = {}
    BY DEF InitPanels
  <2>5. role \in BOOLEAN /\ ~role
    BY <2>4
  <2>6. last \in 0..MaxSessions /\ session \in 0..last /\ acts \in 0..MaxActs[panel]
    BY <2>3, <2>4
  <2> QED BY <2>2, <2>3, <2>4, <2>5, <2>6 DEF Around, Items
<1>2. WellMade(H)
  BY <1>1, InvMade
<1>3. FilterOff /\ Filtered /\ Filled
  BY <1>2, FreshPageIs DEF InitPanels, FilterOff, Filtered, Filled, Active
<1> QED BY <1>1, <1>2, <1>3, FreshPageIs DEF InitPanels, PanelsInv, Whole

-----------------------------------------------------------------------------
(* What a step has to show, of the hook it starts with.                      *)
Carried ==
  /\ page' \in Pages /\ Guarded(page') /\ FlagsFor(page', {})
  /\ Views(page', session', Leaving', sel', Moved') /\ Kept(page', session', Leaving')
  /\ \A e \in H.effects : FillsTab(e) /\ (Active(e))' => due' \cap e.deps # {} \/ Opened(page', e)
  /\ \A e \in H.effects :
       Shared(e) /\ (page'.filter \/ "filter" \in due') => session' = 0 \/ Opened(page', e)
  /\ session' = 0 /\ "token" \notin due' => ~page'.filter

LEMMA Carry ==
  ASSUME Around, Around', panel' = panel, last <= last', Carried
  PROVE  PanelsInv'
<1>1. last \in Nat /\ last' \in Nat
  BY PanelsAssumption DEF Around
<1>2. (page \in Pages)'
  BY <1>1, PagesStay DEF Carried
<1>3. Guarded(page)' /\ FlagsFor(page, {})'
  BY FlagsStay DEF Carried
<1>4. Views(page, session, Leaving, sel, Moved)'
  BY ViewsStay DEF Carried
<1>5. Kept(page, session, Leaving)'
  BY KeptStays DEF Carried
<1>6. Filled'
  BY HookStays, OpenedStays DEF Carried, Filled
<1>7. Filtered'
  BY HookStays, OpenedStays DEF Carried, Filtered, Shared
<1>8. FilterOff'
  BY DEF Carried, FilterOff
<1> QED BY <1>2, <1>3, <1>4, <1>5, <1>6, <1>7, <1>8 DEF PanelsInv, Whole

(* When the session ends anything may still be shown, and no handler works    *)
(* for no session. A changed selection is allowed anything, too.             *)
LEMMA SessionEnds ==
  ASSUME NEW p \in Pages, NEW sess, NEW leaving, NEW i, NEW moved,
         Views(p, sess, leaving, i, moved)
  PROVE  Views(p, 0, TRUE, i, moved) /\ Kept(p, 0, TRUE)
<1>1. \A h \in p.handlers : h.sess = 0 => HandlerOf(h).steps = <<>>
  BY DEF Pages, Running, Sound
<1> QED BY <1>1 DEF Views, Mine, Kept

LEMMA SelectionMoves ==
  ASSUME NEW p, NEW sess, NEW leaving, NEW i, NEW j, NEW moved,
         Views(p, sess, leaving, i, moved)
  PROVE  Views(p, sess, leaving, j, TRUE)
  BY DEF Views, Chosen

(* What an open screen shows is accounted for.                               *)
LEMMA ScreenOpened ==
  ASSUME WellMade(H), Filled, due = {}, session # 0, role, tab = H.screen,
         NEW e \in H.effects, Shared(e)
  PROVE  Opened(page, e)
  BY DEF WellMade, SharedFit, Shared, Filled, Active

(* Only the filter of a page changes.                                        *)
Filtering(p, b) == [p EXCEPT !.filter = b]
LEMMA FilteringIs ==
  ASSUME NEW p \in Pages, NEW b \in BOOLEAN
  PROVE  LET q == Filtering(p, b)
         IN  /\ q \in Pages /\ (q.filter <=> b) /\ StaysOpened(p, q)
             /\ Guarded(p) => Guarded(q)
             /\ FlagsFor(p, {}) => FlagsFor(q, {})
             /\ \A sess, leaving, i, moved :
                  /\ Views(p, sess, leaving, i, moved) => Views(q, sess, leaving, i, moved)
                  /\ Kept(p, sess, leaving) => Kept(q, sess, leaving)
<1> DEFINE q == Filtering(p, b)
<1>1. /\ q \in Pages
      /\ q.flags = p.flags /\ q.shown = p.shown /\ q.marks = p.marks
      /\ q.missed = p.missed /\ q.overtaken = p.overtaken
      /\ q.handlers = p.handlers /\ q.requests = p.requests /\ q.filter = b
  BY DEF Filtering, Pages
<1> HIDE DEF q
<1>2. Live(q) = Live(p) /\ Held(q) = Held(p)
  BY <1>1 DEF Live, Held
<1>3. \A e : Opened(p, e) <=> Opened(q, e)
  BY <1>1, <1>2 DEF Opened, Accounted
<1>4. \A sess, leaving, i, moved : Views(p, sess, leaving, i, moved) => Views(q, sess, leaving, i, moved)
  BY <1>1, <1>2 DEF Views, Mine, Recent, Chosen, Awaited, MarksFor
<1>5. \A sess, leaving : Kept(p, sess, leaving) => Kept(q, sess, leaving)
  BY <1>1, <1>2, <1>3 DEF Kept
<1> QED BY <1>1, <1>2, <1>3, <1>4, <1>5 DEF q, StaysOpened, Guarded, FlagsFor

LEMMA SignInHolds ==
  ASSUME PanelsInv, SignIn
  PROVE  PanelsInv'
<1>1. /\ WellMade(H) /\ Around /\ page \in Pages /\ last \in Nat /\ last < MaxSessions /\ session = 0 /\ due = {}
      /\ panel' = panel /\ session' = last + 1 /\ last' = last + 1 /\ due' = {"token"}
      /\ page' = page /\ sel' = sel /\ role' = role /\ tab' = tab /\ acts' = acts
  BY InvMade DEF PanelsInv, SignIn, StartSession, Settled
<1>2. Around'
  BY <1>1, HookStays, PanelsAssumption DEF Around
<1>3. Leaving = FALSE /\ Moved = FALSE /\ Leaving' = FALSE /\ Moved' = FALSE
  BY <1>1 DEF Leaving, Moved
<1>4. Views(page, 0, FALSE, sel, FALSE) /\ Kept(page, 0, FALSE)
  BY <1>1, <1>3 DEF PanelsInv, Whole
<1>5. Views(page, last + 1, FALSE, sel, FALSE)
  <2>1. \A r \in Live(page) : r.sess # 0
    BY <1>1 DEF Live, Pages, Requests
  <2> QED BY <1>4, <2>1 DEF Views, Mine
<1>6. Kept(page, last + 1, FALSE)
  <2>1. \A h \in page.handlers : h.sess # last + 1
    BY <1>1 DEF Pages, Running, HandlerRows
  <2> QED BY <1>4, <2>1 DEF Kept
<1>7. \A e \in H.effects : FillsTab(e) => due' \cap e.deps # {}
  BY <1>1 DEF WellMade, TabsFit
<1>8. ~page'.filter
  BY <1>1 DEF PanelsInv, FilterOff
<1>9. Carried
  BY <1>1, <1>3, <1>5, <1>6, <1>7, <1>8 DEF Carried, PanelsInv, Whole
<1> QED BY <1>1, <1>2, <1>9, Carry

LEMMA SignOutHolds ==
  ASSUME PanelsInv, SignOut
  PROVE  PanelsInv'
<1> DEFINE q == Cleared(page, H.leaves)
<1>1. /\ WellMade(H) /\ Around /\ page \in Pages /\ session # 0 /\ due = {}
      /\ panel' = panel /\ session' = 0 /\ last' = last /\ last \in Nat /\ due' = {"token", "role"}
      /\ page' = q /\ sel' = sel /\ role' = FALSE /\ tab' = tab /\ acts' = acts
  BY InvMade DEF PanelsInv, SignOut, Settled
<1>2. Around'
  <2> HIDE DEF q
  <2>1. tab' \in (H.tabs)' /\ session' \in 0..last'
    BY <1>1, HookStays DEF Around
  <2>2. role' \in BOOLEAN /\ ~role'
    BY <1>1
  <2>3. due' \subseteq {"tab", "token", "role", "select", "filter"}
    BY <1>1
  <2> QED BY <1>1, <2>1, <2>2, <2>3 DEF Around
<1>3. Leaving = FALSE /\ Moved = FALSE /\ Leaving' = TRUE /\ Moved' = FALSE
  BY <1>1 DEF Leaving, Moved
<1>4. SparesMarks(H.leaves) /\ DropsItems(H.leaves)
  BY <1>1, ClearsAre DEF Clears
<1>5. q \in Pages /\ KeepsFlags(page, q) /\ StillFreed(page, q, H.leaves.flags) /\ q.flags = page.flags \ H.leaves.flags
  BY <1>1, ClearedIs
<1>6. Views(q, session, FALSE, sel, FALSE)
  BY <1>1, <1>3, <1>4, ClearedViews DEF PanelsInv, Whole
<1> HIDE DEF q
<1>7. Views(q, 0, TRUE, sel, FALSE) /\ Kept(q, 0, TRUE)
  BY <1>5, <1>6, SessionEnds
<1>8. Guarded(q) /\ FlagsFor(q, {})
  <2>1. page.flags \ H.leaves.flags \subseteq q.flags
    BY <1>5
  <2> QED BY <1>5, <2>1, GuardedKept DEF PanelsInv, Whole, KeepsFlags
<1>9. Carried
  BY <1>1, <1>3, <1>5, <1>7, <1>8 DEF Carried, Active
<1> QED BY <1>1, <1>2, <1>9, Carry

LEMMA RoleArrivesHolds ==
  ASSUME PanelsInv, RoleArrives
  PROVE  PanelsInv'
<1>1. /\ WellMade(H) /\ Around /\ page \in Pages /\ session # 0
      /\ panel' = panel /\ session' = session /\ last' = last /\ last \in Nat /\ due' = due \cup {"role"}
      /\ page' = page /\ sel' = sel /\ role' = TRUE /\ tab' = tab /\ acts' = acts
  BY InvMade DEF PanelsInv, RoleArrives
<1>2. Around'
  BY <1>1, HookStays DEF Around
<1>3. Leaving' = Leaving /\ Moved' = Moved
  BY <1>1 DEF Leaving, Moved
<1>4. ASSUME NEW e \in H.effects, FillsTab(e), (Active(e))'
      PROVE  due' \cap e.deps # {} \/ Opened(page, e)
  <2>1. CASE e.admin
    <3>1. "role" \in e.deps
      BY <1>1, <1>4, <2>1 DEF WellMade, TabsFit
    <3> QED BY <1>1, <3>1
  <2>2. CASE ~e.admin
    <3>1. Active(e)
      BY <1>1, <1>4, <2>2 DEF Active
    <3> QED BY <1>1, <1>4, <3>1 DEF PanelsInv, Filled
  <2> QED BY <2>1, <2>2
<1>5. Carried
  BY <1>1, <1>3, <1>4 DEF Carried, PanelsInv, Whole, Filtered
<1> QED BY <1>1, <1>2, <1>5, Carry

LEMMA GotoHolds ==
  ASSUME PanelsInv, NEW t \in H.tabs, Goto(t)
  PROVE  PanelsInv'
<1>1. /\ WellMade(H) /\ Around /\ page \in Pages /\ session # 0 /\ due = {}
      /\ panel' = panel /\ session' = session /\ last' = last /\ last \in Nat /\ due' = {"tab"}
      /\ page' = page /\ sel' = sel /\ role' = role /\ tab' = t /\ acts' = acts + 1 /\ acts < MaxActs[panel]
  BY InvMade DEF PanelsInv, Goto, Acting, Settled
<1>2. Around'
  BY <1>1, HookStays, PanelsAssumption DEF Around
<1>3. Leaving' = Leaving /\ Moved' = Moved
  BY <1>1 DEF Leaving, Moved
<1>4. \A e \in H.effects : FillsTab(e) => due' \cap e.deps # {}
  BY <1>1 DEF WellMade, TabsFit
<1>5. Carried
  BY <1>1, <1>3, <1>4 DEF Carried, PanelsInv, Whole, Filtered
<1> QED BY <1>1, <1>2, <1>5, Carry

LEMMA SelectHolds ==
  ASSUME PanelsInv, NEW i \in Selections, Select(i)
  PROVE  PanelsInv'
<1>1. /\ WellMade(H) /\ Around /\ page \in Pages /\ session # 0 /\ due = {}
      /\ panel' = panel /\ session' = session /\ last' = last /\ last \in Nat /\ due' = {"select"}
      /\ page' = page /\ sel' = i /\ role' = role /\ tab' = tab /\ acts' = acts + 1 /\ acts < MaxActs[panel]
  BY InvMade DEF PanelsInv, Select, Acting, Settled
<1>2. Around'
  BY <1>1, HookStays, PanelsAssumption DEF Around, Items
<1>3. Leaving' = Leaving /\ Moved' = TRUE
  BY <1>1 DEF Leaving, Moved
<1>4. Views(page, session, Leaving, i, TRUE)
  BY SelectionMoves DEF PanelsInv, Whole
<1>5. ASSUME NEW e \in H.effects, FillsTab(e), (Active(e))'
      PROVE  due' \cap e.deps # {} \/ Opened(page, e)
  <2>1. CASE e.item
    <3>1. "select" \in e.deps
      BY <1>1, <1>5, <2>1 DEF WellMade, TabsFit
    <3> QED BY <1>1, <3>1
  <2>2. CASE ~e.item
    <3>1. Active(e)
      BY <1>1, <1>5, <2>2 DEF Active
    <3> QED BY <1>1, <1>5, <3>1 DEF PanelsInv, Filled
  <2> QED BY <2>1, <2>2
<1>6. Carried
  BY <1>1, <1>3, <1>4, <1>5 DEF Carried, PanelsInv, Whole, Filtered
<1> QED BY <1>1, <1>2, <1>6, Carry

LEMMA SearchHolds ==
  ASSUME PanelsInv, NEW n \in H.searches, Search(n)
  PROVE  PanelsInv'
<1> DEFINE q == Asked(page, {n}, session, <<>>)
<1>1. /\ WellMade(H) /\ Around /\ page \in Pages /\ role /\ session # 0 /\ due = {} /\ tab = H.screen
      /\ panel' = panel /\ session' = session /\ last' = last /\ last \in Nat /\ due' = due
      /\ page' = Filtering(q, TRUE) /\ sel' = sel /\ role' = role /\ tab' = tab
      /\ acts' = acts + 1 /\ acts < MaxActs[panel]
  BY InvMade DEF PanelsInv, Search, Acting, Settled, Filtering, Around
<1>2. Around'
  <2> HIDE DEF q
  <2> QED BY <1>1, HookStays, PanelsAssumption DEF Around
<1>3. /\ Leaving = FALSE /\ Moved = FALSE /\ Leaving' = FALSE /\ Moved' = FALSE
  BY <1>1 DEF Leaving, Moved
<1>4. {n} \in SUBSET LoadNames(H) /\ session \in 1..last /\ <<>> \in Bys /\ sel \in Items
  BY <1>1 DEF WellMade, WellNamed, Around, Bys
<1>5. /\ q \in Pages /\ page.flags \subseteq q.flags /\ StillFreed(page, q, {}) /\ KeepsFlags(page, q)
  BY <1>1, <1>4, AskedIs
<1>6. Views(page, session, FALSE, sel, FALSE) /\ Kept(page, session, FALSE) /\ Guarded(page) /\ FlagsFor(page, {})
  BY <1>3 DEF PanelsInv, Whole
<1>7. Views(q, session, FALSE, sel, FALSE) /\ StaysOpened(page, q)
  BY <1>1, <1>4, <1>6, AskedViews
<1>8. \A e \in H.effects : Shared(e) => Opened(q, e)
  <2> HIDE DEF q
  <2> QED BY <1>1, <1>7, ScreenOpened DEF PanelsInv, StaysOpened, Shared
<1>9. Kept(q, session, FALSE)
  BY <1>1, <1>4, <1>6, <1>8, AskedKept
<1> HIDE DEF q
<1>10. Guarded(q) /\ FlagsFor(q, {})
  <2>1. page.flags \ {} \subseteq q.flags
    BY <1>5
  <2> QED BY <1>5, <1>6, <2>1, GuardedKept DEF KeepsFlags
<1> DEFINE z == Filtering(q, TRUE)
<1>11. /\ z \in Pages /\ StaysOpened(q, z) /\ Guarded(z) /\ FlagsFor(z, {})
       /\ Views(z, session, FALSE, sel, FALSE) /\ Kept(z, session, FALSE)
  BY <1>5, <1>7, <1>9, <1>10, FilteringIs
<1> HIDE DEF z
<1>12. \A e \in H.effects : FillsTab(e) /\ Opened(page, e) => Opened(z, e)
  BY <1>7, <1>11 DEF StaysOpened
<1>13. \A e \in H.effects : Shared(e) => Opened(z, e)
  BY <1>8, <1>11 DEF StaysOpened, Shared
<1>14. \A e \in H.effects : FillsTab(e) /\ (Active(e))' => Opened(z, e)
  BY <1>1, <1>12 DEF PanelsInv, Filled, Active
<1>15. page' = z
  BY <1>1 DEF z
<1>16. Carried
  BY <1>1, <1>3, <1>11, <1>13, <1>14, <1>15 DEF Carried
<1> QED BY <1>1, <1>2, <1>16, Carry

LEMMA CloseHolds ==
  ASSUME PanelsInv, NEW c \in H.closes, Close(c)
  PROVE  PanelsInv'
<1> DEFINE q == Cleared(page, c)
<1>1. /\ WellMade(H) /\ Around /\ page \in Pages /\ session # 0 /\ due = {}
      /\ panel' = panel /\ session' = session /\ last' = last /\ last \in Nat /\ due' = due
      /\ page' = q /\ sel' = sel /\ role' = role /\ tab' = tab
      /\ acts' = acts + 1 /\ acts < MaxActs[panel]
  BY InvMade DEF PanelsInv, Close, Acting, Settled
<1>2. Around'
  <2> HIDE DEF q
  <2> QED BY <1>1, HookStays, PanelsAssumption DEF Around
<1>3. /\ Leaving' = Leaving /\ Moved' = Moved
  BY <1>1 DEF Leaving, Moved
<1>4. Leaving \in BOOLEAN /\ Moved \in BOOLEAN
  BY DEF Leaving, Moved
<1>5. SparesMarks(c) /\ DropsItems(c) /\ \A e \in H.effects : FillsTab(e) => ~Touches(H, c, e)
  BY <1>1, ClearsAre DEF Clears, WellMade, TabsFit
<1>6. /\ q \in Pages /\ q.flags = page.flags \ c.flags /\ StillFreed(page, q, c.flags)
      /\ KeepsFlags(page, q) /\ q.filter = page.filter
  BY <1>1, ClearedIs
<1>7. Views(q, session, Leaving, sel, Moved) /\ \A e \in H.effects : FillsTab(e) /\ Opened(page, e) => Opened(q, e)
  BY <1>1, <1>4, <1>5, ClearedViews DEF PanelsInv, Whole
<1>8. Kept(q, session, Leaving)
  BY <1>1, <1>4, <1>5, ClearedKept DEF PanelsInv, Whole, Shared
<1> HIDE DEF q
<1>9. Guarded(q) /\ FlagsFor(q, {})
  <2>1. page.flags \ c.flags \subseteq q.flags
    BY <1>6
  <2> QED BY <1>6, <2>1, GuardedKept DEF PanelsInv, Whole, KeepsFlags
<1>10. \A e \in H.effects : FillsTab(e) /\ (Active(e))' => Opened(q, e)
  BY <1>1, <1>7 DEF PanelsInv, Filled, Active
<1>11. Carried
  BY <1>1, <1>3, <1>6, <1>7, <1>8, <1>9, <1>10 DEF Carried, PanelsInv, Filtered, FilterOff, Shared
<1> QED BY <1>1, <1>2, <1>11, Carry

(* A click takes an id, lights the flag and adds a handler.                  *)
LEMMA ClickHolds ==
  ASSUME PanelsInv, NEW h \in H.handlers, Click(h)
  PROVE  PanelsInv'
<1> DEFINE item == IF h.item = None THEN sel ELSE page.shown[h.item].sel
           n == [name |-> h.name, sess |-> session, stage |-> 0,
                 sel |-> item, latest |-> TRUE, freed |-> FALSE]
           c == {h.own} \ {None}
           b == Bumped(page, c)
           q == Lit(b, {h.flag})
           z == [q EXCEPT !.handlers = @ \cup {n}]
<1>1. /\ WellMade(H) /\ Around /\ page \in Pages /\ due = {} /\ Enabled(h)
      /\ panel' = panel /\ session' = session /\ last' = last /\ last \in Nat /\ due' = due
      /\ page' = z /\ sel' = sel /\ role' = role /\ tab' = tab
      /\ acts' = acts + 1 /\ acts < MaxActs[panel]
  BY InvMade DEF PanelsInv, Click, Acting, Settled
<1>2. Around'
  <2> HIDE DEF z
  <2> QED BY <1>1, HookStays, PanelsAssumption DEF Around
<1>3. /\ Leaving = FALSE /\ Moved = FALSE /\ Leaving' = FALSE /\ Moved' = FALSE
  BY <1>1 DEF Leaving, Moved
<1>4. h.name \in HandlerNames /\ HandlerNamed(h.name) = h
  BY <1>1, HandlerIs
<1>5. item \in Items
  <2>1. h.item = None => item \in Items
    BY <1>1 DEF Around
  <2>2. ASSUME h.item # None PROVE page.shown[h.item].sel \in Items
    <3>1. h.item \in Slots
      BY <1>1, <2>2, SlotIs DEF WellMade, HandlersFit
    <3>2. page.shown[h.item] \in Values
      BY <1>1, <3>1 DEF Pages
    <3> QED BY <3>2 DEF Values
  <2> QED BY <2>1, <2>2
<1>6. /\ n \in Running /\ n.name = h.name /\ n.sess = session /\ n.latest /\ HandlerOf(n) = h
  <2> HIDE DEF item
  <2>1. n \in HandlerRows /\ n.stage = 0 /\ n.sess = session /\ n.name = h.name /\ n.latest = TRUE
    BY <1>1, <1>4, <1>5 DEF HandlerRows, Around
  <2> HIDE DEF n
  <2>2. HandlerOf(n) = h
    BY <1>4, <2>1 DEF HandlerOf
  <2>3. h.steps # <<>> => session # 0
    BY <1>1 DEF WellMade, HandlersFit, Enabled
  <2>4. h.steps \in Seq(SUBSET LoadNames(H))
    BY <1>1 DEF WellMade, WellNamed
  <2> QED BY <2>1, <2>2, <2>3, <2>4 DEF Running, Sound
<1>7. {h.flag} \in SUBSET (FlagNames \ {None})
  BY <1>1 DEF WellMade, HandlersFit, FlagNames
<1>8. /\ b \in Pages
      /\ b.flags = page.flags /\ b.shown = page.shown /\ b.marks = page.marks /\ b.missed = page.missed
      /\ b.filter = page.filter
      /\ SameUsers(page, b) /\ StillFreed(page, b, {})
      /\ FlagsFor(b, {})
  <2> HIDE DEF c
  <2> QED BY <1>1, BumpedIs, BumpedHandlers, BumpedFlags DEF PanelsInv
<1>9. Live(b) = Live(page)
  <2>1. Live(b) = {r \in Live(page) : LoadOf(r).counter \notin c}
    <3> HIDE DEF c
    <3> QED BY <1>1, BumpedLive
  <2>2. h.own = None \/ Live(page) = {}
    <3>1. h.own # None => H.loads = {}
      BY <1>1 DEF WellMade, HandlersFit
    <3> QED BY <1>1, <3>1, LiveIs
  <2> QED BY <2>1, <2>2
<1>10. /\ q \in Pages
       /\ q.flags = b.flags \cup {h.flag} /\ q.shown = b.shown /\ q.marks = b.marks /\ q.missed = b.missed
       /\ q.filter = b.filter /\ q.overtaken = b.overtaken \ {h.flag}
       /\ q.requests = b.requests /\ q.handlers = b.handlers
  <2> HIDE DEF b
  <2> QED BY <1>7, <1>8, LitIs
<1>11. /\ z \in Pages
       /\ z.flags = q.flags /\ z.shown = q.shown /\ z.marks = q.marks /\ z.missed = q.missed
       /\ z.filter = q.filter /\ z.overtaken = q.overtaken
       /\ z.requests = q.requests /\ z.handlers = q.handlers \cup {n}
  <2> HIDE DEF q, n
  <2> QED BY <1>6, <1>10 DEF Pages
<1> HIDE DEF b, q, z, n, c, item
<1>12. /\ z \in Pages
       /\ z.flags = page.flags \cup {h.flag} /\ z.shown = page.shown /\ z.marks = page.marks
       /\ z.missed = page.missed /\ z.filter = page.filter /\ Live(z) = Live(page)
       /\ z.overtaken = b.overtaken \ {h.flag} /\ z.handlers = b.handlers \cup {n}
  BY <1>8, <1>9, <1>10, <1>11 DEF Live
<1>13. SameView(page, z)
  BY <1>12 DEF SameView
<1>14. Views(z, session, FALSE, sel, FALSE) /\ StaysOpened(page, z)
  BY <1>3, <1>13, SameViews DEF PanelsInv, Whole
<1>15. Guarded(z)
  <2>1. \A g \in b.handlers : ~g.freed => HandlerOf(g).flag \in page.flags
    BY <1>8 DEF StillFreed, PanelsInv, Whole, Guarded, HandlerOf
  <2> QED BY <1>6, <1>12, <2>1 DEF Guarded
<1>16. FlagsFor(z, {})
  <2>1. Held(b) \subseteq Held(z) /\ h.flag \in Held(z)
    BY <1>6, <1>12 DEF Held, Holds
  <2> QED BY <1>8, <1>9, <1>12, <2>1 DEF FlagsFor
<1>17. Kept(z, session, FALSE)
  <2>1. Kept(page, session, FALSE)
    BY <1>3 DEF PanelsInv, Whole
  <2>2. \A e \in H.effects : Shared(e) /\ Opened(page, e) => Opened(z, e)
    BY <1>14 DEF StaysOpened, Shared
  <2>3. ASSUME NEW e \in H.effects, Shared(e), NEW g \in z.handlers, g.sess = session, HandlerOf(g).steps # <<>>
        PROVE  Opened(z, e)
    <3>1. CASE g = n
      <4>1. h.admin /\ h.on = None /\ ~h.out
        BY <1>1, <1>6, <2>3, <3>1 DEF WellMade, SharedFit, HandlersFit, Shared
      <4>2. role /\ session # 0 /\ tab = H.screen
        BY <1>1, <4>1 DEF Enabled
      <4>3. Opened(page, e)
        BY <1>1, <2>3, <4>2, ScreenOpened DEF PanelsInv
      <4> QED BY <2>2, <2>3, <4>3
    <3>2. CASE g \in b.handlers
      <4>1. PICK f \in page.handlers : g.name = f.name /\ g.sess = f.sess
        BY <1>8, <3>2 DEF SameUsers
      <4> QED BY <2>1, <2>2, <2>3, <4>1 DEF Kept, HandlerOf
    <3> QED BY <1>12, <3>1, <3>2
  <2> QED BY <1>12, <2>1, <2>2, <2>3 DEF Kept
<1>18. \A e \in H.effects : FillsTab(e) /\ (Active(e))' => Opened(z, e)
  BY <1>1, <1>14 DEF PanelsInv, Filled, Active, StaysOpened
<1>19. \A e \in H.effects : Shared(e) /\ Opened(page, e) => Opened(z, e)
  BY <1>14 DEF StaysOpened, Shared
<1>20. Carried
  BY <1>1, <1>3, <1>12, <1>14, <1>15, <1>16, <1>17, <1>18, <1>19 DEF Carried, PanelsInv, Filtered, FilterOff
<1> QED BY <1>1, <1>2, <1>20, Carry

LEMMA AnswerHolds ==
  ASSUME PanelsInv, NEW r \in page.requests, NEW ok \in BOOLEAN, Answer(r, ok)
  PROVE  PanelsInv'
<1> DEFINE a == Applied(page, r, ok)
           z == Woken(a, r, ok)
<1>1. /\ WellMade(H) /\ Around /\ page \in Pages /\ sel \in Items
      /\ panel' = panel /\ session' = session /\ last' = last /\ last \in Nat
      /\ page' = z /\ role' = role /\ tab' = tab /\ acts' = acts
  BY InvMade DEF PanelsInv, Answer
<1>2. \/ sel' = sel /\ due' = due
      \/ sel' \in Items /\ due' = due \cup {"select"}
      \/ sel' = sel /\ due' = due \cup {"filter"} /\ page.filter
  BY DEF Answer, Items
<1>3. Around'
  <2> HIDE DEF z
  <2>1. sel' \in Items /\ due' \subseteq {"tab", "token", "role", "select", "filter"}
    BY <1>1, <1>2 DEF Around
  <2> QED BY <1>1, <2>1, HookStays DEF Around
<1>4. Leaving' = Leaving
  BY <1>1, <1>2 DEF Leaving
<1>5. Leaving \in BOOLEAN /\ Moved \in BOOLEAN
  BY DEF Leaving, Moved
<1>6. Guarded(page) /\ FlagsFor(page, {}) /\ Views(page, session, Leaving, sel, Moved) /\ Kept(page, session, Leaving)
  BY DEF PanelsInv, Whole
<1>7. a \in Pages /\ Guarded(a) /\ FlagsFor(a, {}) /\ a.filter = page.filter
  BY <1>1, <1>6, AppliedIs
<1>8. Views(a, session, Leaving, sel, Moved) /\ StaysOpened(page, a)
  BY <1>1, <1>5, <1>6, AppliedViews
<1>9. Kept(a, session, Leaving)
  BY <1>1, <1>5, <1>6, AppliedKept
<1> HIDE DEF a
<1>10. Whole(a, Leaving, Moved)
  BY <1>7, <1>8, <1>9 DEF Whole
<1>11. /\ z \in Pages /\ Whole(z, Leaving, Moved) /\ FlagsFor(z, {})
       /\ StaysOpened(a, z) /\ z.filter = a.filter
  BY <1>1, <1>5, <1>7, <1>10, WokenHolds
<1> HIDE DEF z
<1>12. Views(z, session, Leaving, sel', Moved')
  <2>1. CASE Moved'
    <3>1. Views(z, session, Leaving, sel', TRUE)
      BY <1>11, SelectionMoves DEF Whole
    <3>2. Moved' = TRUE
      BY <2>1 DEF Moved
    <3> QED BY <3>1, <3>2
  <2>2. CASE ~Moved'
    <3>1. sel' = sel /\ Moved' = Moved
      BY <1>2, <2>2 DEF Moved
    <3> QED BY <1>11, <3>1 DEF Whole
  <2> QED BY <2>1, <2>2
<1>13. \A e \in H.effects : FillsTab(e) /\ Opened(page, e) => Opened(z, e)
  BY <1>8, <1>11 DEF StaysOpened
<1>14. ASSUME NEW e \in H.effects, FillsTab(e), (Active(e))'
       PROVE  due' \cap e.deps # {} \/ Opened(z, e)
  <2>1. CASE sel' # sel /\ e.item
    <3>1. "select" \in e.deps
      BY <1>1, <1>14, <2>1 DEF WellMade, TabsFit
    <3> QED BY <1>2, <2>1, <3>1
  <2>2. CASE sel' = sel \/ ~e.item
    <3>1. Active(e)
      BY <1>1, <1>14, <2>2 DEF Active
    <3>2. due \cap e.deps # {} \/ Opened(page, e)
      BY <1>14, <3>1 DEF PanelsInv, Filled
    <3> QED BY <1>2, <1>13, <1>14, <3>2
  <2> QED BY <2>1, <2>2
<1>15. ASSUME NEW e \in H.effects, Shared(e), page'.filter \/ "filter" \in due'
       PROVE  session' = 0 \/ Opened(z, e)
  <2>1. page.filter \/ "filter" \in due
    BY <1>1, <1>2, <1>7, <1>11, <1>15
  <2> QED BY <1>1, <1>13, <1>15, <2>1 DEF PanelsInv, Filtered, Shared
<1>16. session' = 0 /\ "token" \notin due' => ~page'.filter
  BY <1>1, <1>2, <1>7, <1>11 DEF PanelsInv, FilterOff
<1>17. Carried
  BY <1>1, <1>4, <1>11, <1>12, <1>14, <1>15, <1>16 DEF Carried, Whole
<1> QED BY <1>1, <1>3, <1>17, Carry

-----------------------------------------------------------------------------
(* What a write shows.                                                       *)
Showing(p, sets, v) == [p EXCEPT !.shown = [s \in Slots |-> IF s \in sets THEN v ELSE @[s]]]
LEMMA ShowingIs ==
  ASSUME WellMade(H), NEW p \in Pages, NEW h \in H.handlers,
         NEW v \in Values, v.write, ~v.old, v # Nothing,
         NEW sess, NEW leaving, NEW i, NEW moved,
         Views(p, sess, leaving, i, moved), Kept(p, sess, leaving)
  PROVE  LET q == Showing(p, h.sets, v)
         IN  /\ q \in Pages /\ q.filter = p.filter /\ q.flags = p.flags
             /\ Views(q, sess, leaving, i, moved) /\ Kept(q, sess, leaving) /\ StaysOpened(p, q)
             /\ Guarded(p) => Guarded(q)
             /\ KeepsFlags(p, q)
             /\ \A e : Opened(p, e) => Opened(q, e)
<1> DEFINE w == [s \in Slots |-> IF s \in h.sets THEN v ELSE p.shown[s]]
           q == Showing(p, h.sets, v)
<1>1. w \in [Slots -> Values]
  BY DEF Pages
<1>2. q = [p EXCEPT !.shown = w]
  BY DEF Showing
<1>3. \A s \in Slots : w[s] = IF s \in h.sets THEN v ELSE p.shown[s]
  OBVIOUS
<1> HIDE DEF w, q
<1>4. /\ q \in Pages
      /\ q.flags = p.flags /\ q.shown = w /\ q.marks = p.marks
      /\ q.missed = p.missed /\ q.overtaken = p.overtaken
      /\ q.handlers = p.handlers /\ q.requests = p.requests /\ q.filter = p.filter
  BY <1>1, <1>2 DEF Pages
<1>5. Live(q) = Live(p) /\ Held(q) = Held(p)
  BY <1>4 DEF Live, Held
<1>6. \A s \in Slots : q.shown[s] = v \/ q.shown[s] = p.shown[s]
  BY <1>3, <1>4
<1>7. \A s \in Slots : Accounted(p, s) => Accounted(q, s)
  BY <1>4, <1>5, <1>6 DEF Accounted
<1>8. \A e : Opened(p, e) => Opened(q, e)
  BY <1>7, SlotIs DEF Opened
<1>9. Mine(q, sess, leaving) /\ Recent(q) /\ Chosen(q, i, moved)
  BY <1>5, <1>6 DEF Views, Mine, Recent, Chosen, Awaited
<1>10. MarksFor(q)
  BY <1>4, <1>6, SlotIs DEF Views, MarksFor
<1>11. Kept(q, sess, leaving)
  BY <1>4, <1>5, <1>8 DEF Kept
<1> QED BY <1>4, <1>5, <1>8, <1>9, <1>10, <1>11 DEF q, Views, StaysOpened, Guarded, FlagsFor, KeepsFlags

(* A hook that shows nothing.                                                *)
LEMMA NothingShown ==
  ASSUME WellMade(H), H.loads = {}, H.effects = {}, \A g \in H.handlers : g.sets = {},
         NEW p \in Pages, MarksFor(p), NEW sess, NEW leaving, NEW i, NEW moved
  PROVE  Views(p, sess, leaving, i, moved) /\ Kept(p, sess, leaving)
<1>1. Slots = {}
  BY DEF Slots
<1>2. Live(p) = {}
  BY LiveIs
<1> QED BY <1>1, <1>2 DEF Views, Mine, Recent, Chosen, Kept

(* Only handlers have gone.                                                  *)
LEMMA FewerHandlers ==
  ASSUME PanelsInv, NEW q \in Pages, SameView(page, q), SameUsers(page, q), Guarded(q), FlagsFor(q, {}),
         page' = q, UNCHANGED <<panel, session, last, role, tab, sel, acts, due>>
  PROVE  PanelsInv'
<1>1. /\ Around /\ panel' = panel /\ session' = session /\ last' = last /\ last \in Nat /\ role' = role
      /\ tab' = tab /\ sel' = sel /\ acts' = acts /\ due' = due
  BY InvMade DEF PanelsInv
<1>2. Around'
  BY <1>1, HookStays DEF Around
<1>3. Leaving' = Leaving /\ Moved' = Moved
  BY <1>1 DEF Leaving, Moved
<1>4. Views(q, session, Leaving, sel, Moved) /\ StaysOpened(page, q)
  BY SameViews DEF PanelsInv, Whole
<1>5. \A e \in H.effects : FillsTab(e) /\ Opened(page, e) => Opened(q, e)
  BY <1>4 DEF StaysOpened
<1>6. Kept(q, session, Leaving)
  <2>1. \A e \in H.effects : Shared(e) =>
          \A g \in q.handlers : g.sess = session /\ HandlerOf(g).steps # <<>> => Opened(q, e)
    BY <1>5 DEF PanelsInv, Whole, Kept, SameUsers, HandlerOf, Shared
  <2> QED BY <1>5, <2>1 DEF PanelsInv, Whole, Kept, SameView, Shared
<1>7. \A e \in H.effects : FillsTab(e) /\ (Active(e))' => due' \cap e.deps # {} \/ Opened(q, e)
  BY <1>1, <1>5 DEF PanelsInv, Filled, Active
<1>8. \A e \in H.effects : Shared(e) /\ (q.filter \/ "filter" \in due') => session' = 0 \/ Opened(q, e)
  BY <1>1, <1>5 DEF PanelsInv, Filtered, Shared, SameView
<1>9. session' = 0 /\ "token" \notin due' => ~q.filter
  BY <1>1 DEF PanelsInv, FilterOff, SameView
<1>10. Carried
  BY <1>1, <1>3, <1>4, <1>6, <1>7, <1>8, <1>9 DEF Carried
<1> QED BY <1>1, <1>2, <1>10, Carry

(* The result of a write.                                                    *)
Result(h) == [sess |-> h.sess, sel |-> h.sel, old |-> FALSE, late |-> h.sess # session, write |-> TRUE]
LEMMA ResultIs ==
  ASSUME NEW h \in Running, last \in Nat
  PROVE  Result(h) \in Values /\ Result(h).write /\ ~Result(h).old /\ Result(h) # Nothing
<1> DEFINE b == h.sess # session
           v == [sess |-> h.sess, sel |-> h.sel, old |-> FALSE, late |-> b, write |-> TRUE]
<1>1. b \in BOOLEAN /\ h.sess \in Nat /\ h.sel \in Items
  BY DEF Running, HandlerRows
<1>2. Result(h) = v
  BY DEF Result
<1> HIDE DEF b
<1>3. v \in Values /\ v.write = TRUE /\ v.old = FALSE
  BY <1>1 DEF Values
<1>4. Nothing.write = FALSE
  BY DEF Nothing
<1> QED BY <1>2, <1>3, <1>4

(* The page once a write has been answered, before its handler goes on.      *)
After(h) == Showing(Cleared(WithoutHandler(page, h), HandlerOf(h).clears), HandlerOf(h).sets, Result(h))

LEMMA AfterIs ==
  ASSUME PanelsInv, NEW h \in page.handlers
  PROVE  /\ After(h) \in Pages /\ Whole(After(h), Leaving, Moved)
         /\ FlagsFor(After(h), {HandlerOf(h).flag}) /\ After(h).filter = page.filter
         /\ StaysOpened(page, After(h)) /\ WorksOpened(After(h), h)
         /\ HandlerOf(h).steps # <<>> /\ ~h.freed => HandlerOf(h).flag \in After(h).flags
<1> DEFINE d == HandlerOf(h)
           w == WithoutHandler(page, h)
           c == Cleared(w, d.clears)
           z == After(h)
           f == {d.flag}
<1>1. /\ WellMade(H) /\ Around /\ page \in Pages /\ last \in Nat
      /\ Leaving \in BOOLEAN /\ Moved \in BOOLEAN
  BY InvMade DEF PanelsInv, Leaving, Moved
<1>2. h \in Running
  BY <1>1 DEF Pages
<1>3. d \in H.handlers
  BY <1>1, <1>2, RunningHasHandler
<1>4. /\ w \in Pages /\ SameView(page, w)
      /\ w.flags = page.flags /\ w.overtaken = page.overtaken /\ w.handlers = page.handlers \ {h}
  BY <1>1, WithoutHandlerIs
<1>5. /\ Views(page, session, Leaving, sel, Moved) /\ Kept(page, session, Leaving)
      /\ Guarded(page) /\ FlagsFor(page, {})
  BY DEF PanelsInv, Whole
<1> HIDE DEF w
<1>6. Views(w, session, Leaving, sel, Moved) /\ StaysOpened(page, w) /\ Guarded(w)
  BY <1>4, <1>5, SameViews DEF Guarded
<1>7. \A e \in H.effects : FillsTab(e) /\ Opened(page, e) => Opened(w, e)
  BY <1>6 DEF StaysOpened
<1>8. Kept(w, session, Leaving)
  <2>1. \A e \in H.effects : Shared(e) =>
          \A g \in w.handlers : g.sess = session /\ HandlerOf(g).steps # <<>> => Opened(w, e)
    BY <1>4, <1>5, <1>7 DEF Kept, Shared
  <2> QED BY <1>4, <1>5, <1>7, <2>1 DEF Kept, SameView, Shared
<1>9. FlagsFor(w, f)
  <2>1. Held(page) \subseteq Held(w) \cup f
    BY <1>4 DEF Held
  <2>2. Live(w) = Live(page)
    BY <1>4 DEF SameView
  <2> HIDE DEF f
  <2> QED BY <1>4, <1>5, <2>1, <2>2 DEF FlagsFor
<1>10. SparesMarks(d.clears) /\ DropsItems(d.clears)
  BY <1>1, <1>3, ClearsAre DEF Clears
<1>11. \A e \in H.effects : FillsTab(e) => ~Touches(H, d.clears, e)
  BY <1>1, <1>3 DEF WellMade, TabsFit
<1> HIDE DEF d, f
<1>12. /\ c \in Pages /\ c.flags = w.flags \ d.clears.flags /\ c.filter = w.filter
       /\ StillFreed(w, c, d.clears.flags) /\ KeepsFlags(w, c)
  BY <1>1, <1>4, ClearedIs
<1>13. /\ Views(c, session, Leaving, sel, Moved)
       /\ \A e \in H.effects : FillsTab(e) /\ Opened(w, e) => Opened(c, e)
  BY <1>1, <1>4, <1>6, <1>10, <1>11, ClearedViews
<1>14. Kept(c, session, Leaving)
  BY <1>1, <1>4, <1>6, <1>8, <1>10, <1>11, ClearedKept DEF Shared
<1> HIDE DEF c
<1>15. Guarded(c) /\ FlagsFor(c, f)
  <2>1. w.flags \ d.clears.flags \subseteq c.flags
    BY <1>12
  <2> QED BY <1>6, <1>9, <1>12, <2>1, GuardedKept DEF KeepsFlags
<1>16. z = Showing(c, d.sets, Result(h))
  BY DEF After, w, c, d
<1>17. Result(h) \in Values /\ Result(h).write /\ ~Result(h).old /\ Result(h) # Nothing
  BY <1>1, <1>2, ResultIs
<1> HIDE DEF z
<1>18. /\ z \in Pages /\ z.filter = c.filter /\ z.flags = c.flags
       /\ Views(z, session, Leaving, sel, Moved) /\ Kept(z, session, Leaving) /\ StaysOpened(c, z)
       /\ Guarded(z) /\ KeepsFlags(c, z)
  BY <1>1, <1>3, <1>12, <1>13, <1>14, <1>15, <1>16, <1>17, ShowingIs
<1>19. FlagsFor(z, f)
  BY <1>15, <1>18 DEF KeepsFlags
<1>20. StaysOpened(page, z)
  BY <1>7, <1>13, <1>18 DEF StaysOpened
<1>21. WorksOpened(z, h)
  <2>1. \A e \in H.effects : Shared(e) /\ h.sess = session /\ d.steps # <<>> => Opened(page, e)
    BY <1>5 DEF Kept, d
  <2> QED BY <1>20, <2>1 DEF WorksOpened, StaysOpened, Shared, d
<1>22. d.steps # <<>> /\ ~h.freed => d.flag \in z.flags
  <2>1. d.steps # <<>> => d.flag \notin d.clears.flags
    BY <1>1, <1>3 DEF WellMade, HandlersFit
  <2>2. ~h.freed => d.flag \in page.flags
    BY <1>5 DEF Guarded, d
  <2> QED BY <1>4, <1>12, <1>18, <2>1, <2>2
<1>23. z.filter = page.filter
  BY <1>4, <1>12, <1>18 DEF SameView
<1> QED BY <1>18, <1>19, <1>20, <1>21, <1>22, <1>23 DEF z, f, d, Whole

LEMMA WrittenHolds ==
  ASSUME PanelsInv, NEW h \in page.handlers, NEW ok \in BOOLEAN, Written(h, ok)
  PROVE  PanelsInv'
<1> DEFINE d == HandlerOf(h)
           ends == ok /\ ~Dropped(h)
<1>1. /\ WellMade(H) /\ Around /\ page \in Pages /\ last \in Nat /\ sel \in Items
      /\ Leaving \in BOOLEAN /\ Moved \in BOOLEAN
      /\ panel' = panel /\ tab' = tab /\ acts' = acts /\ h.stage = 0
  BY InvMade DEF PanelsInv, Leaving, Moved, Written
<1>2. h \in Running
  BY <1>1 DEF Pages
<1>3. d \in H.handlers /\ d.ends \in {None, "in", "out", "reload"}
  BY <1>1, <1>2, RunningHasHandler DEF WellMade, HandlersFit
<1>4. CASE Dropped(h)
  <2> DEFINE q == WithoutHandler(page, h)
  <2>1. page' = q /\ UNCHANGED <<panel, session, last, role, tab, sel, acts, due>>
    BY <1>4 DEF Written, WithoutHandler
  <2>2. /\ q \in Pages /\ SameView(page, q)
        /\ q.flags = page.flags /\ q.overtaken = page.overtaken /\ q.handlers = page.handlers \ {h}
    BY <1>1, WithoutHandlerIs
  <2> HIDE DEF q
  <2>3. ~Holds(h)
    BY <1>4 DEF Dropped, Holds, HandlerOf
  <2>4. Held(q) = Held(page)
    BY <2>2, <2>3 DEF Held
  <2>5. FlagsFor(q, {})
    BY <2>2, <2>4 DEF PanelsInv, FlagsFor, SameView
  <2>6. Guarded(q) /\ SameUsers(page, q)
    BY <2>2 DEF PanelsInv, Whole, Guarded, SameUsers
  <2> QED BY <2>1, <2>2, <2>5, <2>6, FewerHandlers
<1>5. CASE ~Dropped(h) /\ ~ok
  <2> DEFINE q == Finished(page, h)
  <2>1. page' = q /\ UNCHANGED <<panel, session, last, role, tab, sel, acts, due>>
    BY <1>5 DEF Written
  <2>2. Guarded(page) /\ FlagsFor(page, {HandlerOf(h).flag})
    BY DEF PanelsInv, Whole, FlagsFor
  <2>3. q \in Pages /\ SameView(page, q) /\ SameUsers(page, q) /\ Guarded(q) /\ FlagsFor(q, {})
    BY <1>1, <1>2, <2>2, FinishedIs
  <2> QED BY <2>1, <2>3, FewerHandlers
<1>6. CASE ends /\ d.ends = "reload"
  <2>1. /\ page' = FreshPage /\ session' = 0 /\ role' = FALSE /\ due' = {"token", "role"}
        /\ last' = last /\ sel' = sel
    BY <1>6 DEF Written, HandlerOf, None
  <2>2. Around'
    <3>1. tab' \in (H.tabs)' /\ session' \in 0..last'
      BY <1>1, <2>1, HookStays DEF Around
    <3>2. role' \in BOOLEAN /\ ~role'
      BY <2>1
    <3>3. due' \subseteq {"tab", "token", "role", "select", "filter"}
      BY <2>1
    <3> QED BY <1>1, <2>1, <3>1, <3>2, <3>3 DEF Around
  <2>3. Carried
    BY <1>1, <2>1, FreshPageIs DEF Carried, Active
  <2> QED BY <1>1, <2>1, <2>2, <2>3, Carry
<1>7. CASE ends /\ d.ends # "reload"
  <2> DEFINE z == Advanced(After(h), h, TRUE)
  <2>1. page' = z
    BY <1>7 DEF Written, HandlerOf, After, Showing, WithoutHandler, Result
  <2>2. h.stage < Len(HandlerOf(h).steps) => HandlerOf(h).steps # <<>>
    BY <1>1
  <2>3. /\ After(h) \in Pages /\ Whole(After(h), Leaving, Moved)
        /\ FlagsFor(After(h), {HandlerOf(h).flag}) /\ After(h).filter = page.filter
        /\ StaysOpened(page, After(h)) /\ WorksOpened(After(h), h)
        /\ h.stage < Len(HandlerOf(h).steps) /\ ~h.freed => HandlerOf(h).flag \in After(h).flags
    BY <2>2, AfterIs
  <2>4. /\ z \in Pages /\ Whole(z, Leaving, Moved) /\ FlagsFor(z, {})
        /\ StaysOpened(After(h), z) /\ z.filter = After(h).filter
    BY <1>1, <1>2, <2>3, AdvancedHolds
  <2> HIDE DEF z
  <2>5. Guarded(z) /\ Views(z, session, Leaving, sel, Moved) /\ Kept(z, session, Leaving) /\ MarksFor(z)
    BY <2>4 DEF Whole, Views
  <2>6. \A e \in H.effects : FillsTab(e) /\ Opened(page, e) => Opened(z, e)
    BY <2>3, <2>4 DEF StaysOpened
  <2>7. CASE d.ends = None
    <3>1. UNCHANGED <<session, last, role, due, sel>>
      BY <1>7, <2>7 DEF Written, HandlerOf, None
    <3>2. Around'
      BY <1>1, <3>1, HookStays DEF Around
    <3>3. Leaving' = Leaving /\ Moved' = Moved
      BY <3>1 DEF Leaving, Moved
    <3>4. \A e \in H.effects : FillsTab(e) /\ (Active(e))' => due' \cap e.deps # {} \/ Opened(z, e)
      BY <1>1, <2>6, <3>1 DEF PanelsInv, Filled, Active
    <3>5. \A e \in H.effects : Shared(e) /\ (z.filter \/ "filter" \in due') => session' = 0 \/ Opened(z, e)
      BY <2>3, <2>4, <2>6, <3>1 DEF PanelsInv, Filtered, Shared
    <3>6. session' = 0 /\ "token" \notin due' => ~z.filter
      BY <2>3, <2>4, <3>1 DEF PanelsInv, FilterOff
    <3>7. Carried
      BY <2>1, <2>4, <2>5, <3>1, <3>3, <3>4, <3>5, <3>6 DEF Carried
    <3> QED BY <1>1, <3>1, <3>2, <3>7, Carry
  <2>8. CASE d.ends \in {"in", "out"}
    <3>1. H.loads = {} /\ H.effects = {} /\ \A g \in H.handlers : g.sets = {}
      BY <1>1, <1>3, <2>8 DEF WellMade, HandlersFit
    <3>2. Views(z, session', Leaving', sel', Moved') /\ Kept(z, session', Leaving')
      BY <1>1, <2>4, <2>5, <3>1, NothingShown
    <3>3. \/ session' = last + 1 /\ last' = last + 1 /\ last < MaxSessions /\ due' = due \cup {"token"} /\ role' = role /\ sel' = sel
          \/ session' = 0 /\ last' = last /\ due' = {"token", "role"} /\ role' = FALSE /\ sel' = sel
      BY <1>7, <2>8 DEF Written, HandlerOf, StartSession, None
    <3>4. Around' /\ last <= last' /\ (session' = 0 => "token" \in due')
      <4>1. /\ session' \in 0..last' /\ last' \in 0..MaxSessions /\ last <= last'
            /\ session' = 0 => "token" \in due'
        BY <1>1, <3>3, PanelsAssumption DEF Around
      <4>2. role' \in BOOLEAN /\ (role' => session' # 0)
        <5>1. role' \in BOOLEAN
          BY <1>1, <3>3 DEF Around
        <5>2. CASE session' = last + 1
          BY <1>1, <5>1, <5>2
        <5>3. CASE session' = 0 /\ role' = FALSE
          BY <5>1, <5>3
        <5> QED BY <3>3, <5>2, <5>3
      <4>3. due' \subseteq {"tab", "token", "role", "select", "filter"}
        BY <1>1, <3>3 DEF Around
      <4>4. tab' \in (H.tabs)' /\ sel' \in Items
        BY <1>1, <3>3, HookStays DEF Around
      <4> QED BY <1>1, <4>1, <4>2, <4>3, <4>4 DEF Around
    <3>5. Carried
      BY <2>1, <2>4, <2>5, <3>1, <3>2, <3>4 DEF Carried
    <3> QED BY <1>1, <3>4, <3>5, Carry
  <2> QED BY <1>3, <1>7, <2>7, <2>8
<1> QED BY <1>4, <1>5, <1>6, <1>7

-----------------------------------------------------------------------------
(* React's effects: those that run, what they clear and what they load.      *)
Awake == {e \in H.effects : e.deps \cap due # {}}
Away ==
  {e.away : e \in {e \in Awake : ~Active(e)}} \cup (IF session = 0 /\ "token" \in due THEN {H.reset} ELSE {})
Wanted == UNION {e.loads : e \in {e \in Awake : Active(e) /\ e.mark \notin page.marks}}
Emptied == Cleared(page, Together(Away))
Ran == IF Wanted = {} THEN Emptied ELSE Asked(Emptied, Wanted, session, <<>>)

LEMMA TogetherIs ==
  ASSUME NEW a
  PROVE  /\ Together(a).counters = UNION {c.counters : c \in a}
         /\ Together(a).flags = UNION {c.flags : c \in a}
         /\ Together(a).slots = UNION {c.slots : c \in a}
         /\ Together(a).marks = UNION {c.marks : c \in a}
  BY DEF Together, Clear

LEMMA AwayDrops ==
  ASSUME WellMade(H)
  PROVE  DropsItems(Together(Away))
<1>1. Away \subseteq Clears(H) \cup {H.reset}
  BY DEF Away, Awake, Clears
<1>2. \A c \in Away : DropsItems(c)
  BY <1>1, ClearsAre, ResetIs
<1> QED BY <1>2, TogetherIs DEF DropsItems

LEMMA AwaySpares ==
  ASSUME WellMade(H), ~Leaving
  PROVE  /\ \A l \in H.loads : l.marks # {} => Together(Away).slots \cap l.slots = {}
         /\ \A e \in H.effects : Shared(e) => ~Touches(H, Together(Away), e)
         /\ \A e \in H.effects : FillsTab(e) /\ e \notin Awake => ~Touches(H, Together(Away), e)
<1>1. \A c \in Away : \E f \in Awake : c = f.away
  BY DEF Away, Leaving
<1>2. Away \subseteq Clears(H)
  BY <1>1 DEF Awake, Clears
<1>3. \A l \in H.loads : l.marks # {} => Together(Away).slots \cap l.slots = {}
  <2>1. \A l \in H.loads : l.marks # {} => \A c \in Away : c.slots \cap l.slots = {}
    BY <1>2 DEF WellMade, MarksFit
  <2> QED BY <2>1, TogetherIs
<1>4. \A e : Touches(H, Together(Away), e) => \E c \in Away : Touches(H, c, e)
  BY TogetherIs DEF Touches
<1>5. \A e \in H.effects : Shared(e) => ~Touches(H, Together(Away), e)
  BY <1>2, <1>4 DEF WellMade, SharedFit, Shared
<1>6. ASSUME NEW e \in H.effects, FillsTab(e), e \notin Awake, Touches(H, Together(Away), e)
      PROVE  FALSE
  <2>1. PICK f \in Awake : Touches(H, f.away, e)
    BY <1>1, <1>4, <1>6
  <2>2. f.deps \subseteq e.deps
    BY <1>6, <2>1 DEF WellMade, TabsFit, Awake
  <2> QED BY <1>6, <2>1, <2>2 DEF Awake
<1> QED BY <1>3, <1>5, <1>6

LEMMA WantedIs ==
  ASSUME WellMade(H)
  PROVE  /\ Wanted \in SUBSET LoadNames(H)
         /\ session = 0 => Wanted = {}
         /\ \A n \in Wanted : \E e \in Awake : Active(e) /\ e.mark \notin page.marks /\ n \in e.loads
         /\ \A e \in Awake : Active(e) /\ e.mark \notin page.marks => e.loads \subseteq Wanted
  BY DEF Wanted, Awake, Active, WellMade, WellNamed

(* What the effects leave on the page.                                       *)
LEMMA RanIs ==
  ASSUME PanelsInv
  PROVE  /\ Emptied \in Pages /\ Ran \in Pages /\ Guarded(Ran) /\ FlagsFor(Ran, {}) /\ Ran.filter = page.filter
         /\ \A s \in Slots : Emptied.shown[s] = IF s \in Together(Away).slots THEN Nothing ELSE page.shown[s]
         /\ \A s \in Slots : Ran.shown[s] = Nothing \/ Ran.shown[s] = Emptied.shown[s]
         /\ Live(Emptied) = {r \in Live(page) : LoadOf(r).counter \notin Together(Away).counters}
         /\ \A r \in Live(Ran) :
              \/ r \in Live(Emptied) /\ \A l \in H.loads : l.name \in Wanted => l.counter # LoadOf(r).counter
              \/ r.sel = sel
         /\ \A l \in H.loads : l.name \in Wanted => \E r \in Live(Ran) : LoadOf(r) = l
<1> DEFINE c == Together(Away)
           b == Emptied
           z == Ran
<1>1. /\ WellMade(H) /\ Around /\ page \in Pages /\ sel \in Items
  BY InvMade DEF PanelsInv
<1>2. /\ b \in Pages /\ b.flags = page.flags \ c.flags /\ b.filter = page.filter
      /\ \A s \in Slots : b.shown[s] = IF s \in c.slots THEN Nothing ELSE page.shown[s]
      /\ Live(b) = {r \in Live(page) : LoadOf(r).counter \notin c.counters}
      /\ StillFreed(page, b, c.flags) /\ KeepsFlags(page, b)
  BY <1>1, ClearedIs DEF Emptied
<1> HIDE DEF b
<1>3. Guarded(b) /\ FlagsFor(b, {})
  <2>1. page.flags \ c.flags \subseteq b.flags
    BY <1>2
  <2>2. Guarded(page) /\ FlagsFor(page, {})
    BY DEF PanelsInv, Whole
  <2> HIDE DEF c
  <2> QED BY <1>2, <2>1, <2>2, GuardedKept DEF KeepsFlags
<1>4. CASE Wanted = {}
  <2>1. z = b
    BY <1>4 DEF Ran, b
  <2> QED BY <1>2, <1>3, <1>4, <2>1 DEF b
<1>5. CASE Wanted # {}
  <2> DEFINE q == Asked(b, Wanted, session, <<>>)
  <2>1. Wanted \in SUBSET LoadNames(H) /\ session \in 1..last /\ <<>> \in Bys
    BY <1>1, <1>5, WantedIs DEF Around, Bys
  <2>2. /\ q \in Pages /\ b.flags \subseteq q.flags /\ q.filter = b.filter
        /\ ShowsAsked(b, q, Wanted)
        /\ Live(q) = {r \in Live(b) : ~Again(r, Wanted)} \cup News(Wanted, session, <<>>)
        /\ StillFreed(b, q, {}) /\ KeepsFlags(b, q)
    <3>1. b \in Pages /\ WellMade(H) /\ sel \in Items
      BY <1>1, <1>2
    <3> QED BY <2>1, <3>1, AskedIs
  <2>3. z = q
    BY <1>5 DEF Ran, b
  <2> HIDE DEF z, q
  <2>4. Guarded(q) /\ FlagsFor(q, {})
    <3>1. b.flags \ {} \subseteq q.flags
      BY <2>2
    <3> QED BY <1>3, <2>2, <3>1, GuardedKept DEF KeepsFlags
  <2>5. \A s \in Slots : q.shown[s] = Nothing \/ q.shown[s] = b.shown[s]
    BY <2>2 DEF ShowsAsked
  <2>6. \A l \in H.loads : l \in LoadsOf(Wanted) <=> l.name \in Wanted
    BY <1>1, <2>1, LoadsAre
  <2>7. \A r \in News(Wanted, session, <<>>) : r.sel = sel
    BY <1>1, <2>1, LoadsAre, FreshIs DEF News
  <2>8. \A l \in LoadsOf(Wanted) : \E r \in News(Wanted, session, <<>>) : LoadOf(r) = l
    BY <1>1, <2>1, LoadsAre, FreshIs DEF News
  <2>9. \A r \in Live(q) :
          \/ r \in Live(b) /\ \A l \in H.loads : l.name \in Wanted => l.counter # LoadOf(r).counter
          \/ r.sel = sel
    BY <2>2, <2>6, <2>7 DEF Again
  <2>10. \A l \in H.loads : l.name \in Wanted => \E r \in Live(q) : LoadOf(r) = l
    BY <2>2, <2>6, <2>8
  <2> QED BY <1>2, <2>2, <2>3, <2>4, <2>5, <2>9, <2>10 DEF z, b
<1> QED BY <1>4, <1>5

LEMMA RanViews ==
  ASSUME PanelsInv, ~Leaving
  PROVE  /\ Views(Emptied, session, FALSE, sel, Moved) /\ Kept(Emptied, session, FALSE)
         /\ Views(Ran, session, FALSE, sel, Moved) /\ StaysOpened(Emptied, Ran)
         /\ \A e \in H.effects : Shared(e) /\ Opened(page, e) => Opened(Emptied, e)
         /\ \A e \in H.effects : FillsTab(e) /\ e \notin Awake /\ Opened(page, e) => Opened(Emptied, e)
<1> DEFINE c == Together(Away)
           b == Emptied
<1>1. /\ WellMade(H) /\ Around /\ page \in Pages /\ sel \in Items /\ Moved \in BOOLEAN
      /\ Views(page, session, FALSE, sel, Moved) /\ Kept(page, session, FALSE)
  <2>1. Leaving = FALSE
    BY DEF Leaving
  <2>2. Around /\ page \in Pages /\ Views(page, session, Leaving, sel, Moved) /\ Kept(page, session, Leaving)
    BY DEF PanelsInv, Whole, Moved
  <2>3. WellMade(H) /\ sel \in Items
    BY <2>2, InvMade
  <2>4. Moved \in BOOLEAN
    BY DEF Moved
  <2>5. /\ Views(page, session, Leaving, sel, Moved) = Views(page, session, FALSE, sel, Moved)
        /\ Kept(page, session, Leaving) = Kept(page, session, FALSE)
    BY <2>1
  <2> QED BY <2>2, <2>3, <2>4, <2>5
<1>2. SparesMarks(c) /\ DropsItems(c)
  BY <1>1, AwaySpares, AwayDrops DEF SparesMarks
<1>3. /\ \A e \in H.effects : Shared(e) => ~Touches(H, c, e)
      /\ \A e \in H.effects : FillsTab(e) /\ e \notin Awake => ~Touches(H, c, e)
  BY <1>1, AwaySpares
<1>4. b = Cleared(page, c) /\ b \in Pages
  BY RanIs DEF Emptied
<1> HIDE DEF b, c
<1>5. /\ Views(b, session, FALSE, sel, Moved)
      /\ \A e \in H.effects : Opened(page, e) /\ ~Touches(H, c, e) => Opened(b, e)
  BY <1>1, <1>2, <1>4, ClearedViews
<1>6. Kept(b, session, FALSE)
  BY <1>1, <1>2, <1>3, <1>4, ClearedKept
<1>7. Views(Ran, session, FALSE, sel, Moved) /\ StaysOpened(b, Ran)
  <2>1. CASE Wanted = {}
    BY <1>5, <2>1 DEF Ran, b, StaysOpened
  <2>2. CASE Wanted # {}
    <3>1. Wanted \in SUBSET LoadNames(H) /\ session \in 1..last /\ <<>> \in Bys
      BY <1>1, <2>2, WantedIs DEF Around, Bys
    <3>2. Ran = Asked(b, Wanted, session, <<>>)
      BY <2>2 DEF Ran, b
    <3> QED BY <1>1, <1>4, <1>5, <3>1, <3>2, AskedViews
  <2> QED BY <2>1, <2>2
<1> QED BY <1>3, <1>5, <1>6, <1>7 DEF b

LEMMA WantedOpened ==
  ASSUME PanelsInv, NEW e \in H.effects, e.loads \subseteq Wanted
  PROVE  Opened(Ran, e)
  BY RanIs DEF Opened, Accounted

LEMMA RanFilled ==
  ASSUME PanelsInv, ~Leaving, NEW e \in H.effects, FillsTab(e), Active(e)
  PROVE  Opened(Ran, e)
<1>1. /\ WellMade(H) /\ page \in Pages /\ Views(page, session, FALSE, sel, Moved) /\ Kept(page, session, FALSE)
  <2>1. Leaving = FALSE
    BY DEF Leaving
  <2> QED BY <2>1, InvMade DEF PanelsInv, Whole
<1>2. Opened(Emptied, e) => Opened(Ran, e)
  BY RanViews DEF StaysOpened
<1>3. CASE e \notin Awake
  <2>1. Opened(page, e)
    BY <1>3 DEF PanelsInv, Filled, Awake
  <2> QED BY <1>2, <1>3, <2>1, RanViews
<1>4. CASE e \in Awake /\ e.mark \notin page.marks
  BY <1>1, <1>4, WantedIs, WantedOpened
<1>5. CASE e \in Awake /\ e.mark \in page.marks /\ Shared(e)
  BY <1>1, <1>2, <1>5, RanViews DEF Kept
<1>6. CASE e \in Awake /\ e.mark \in page.marks /\ ~Shared(e)
  <2>1. PICK l \in H.loads : e.mark \in l.marks /\ \A s \in l.slots : page.shown[s] # Nothing
    BY <1>1, <1>6 DEF Views, MarksFor
  <2>2. \A m \in H.loads : m.name \in e.loads => m.slots \subseteq l.slots
    BY <1>6, <2>1 DEF Shared, Full
  <2>3. Together(Away).slots \cap l.slots = {}
    BY <1>1, <2>1, AwaySpares
  <2>4. \A s \in l.slots : Emptied.shown[s] # Nothing
    BY <2>1, <2>3, RanIs, SlotIs
  <2>5. Opened(Emptied, e)
    BY <2>2, <2>4 DEF Opened, Accounted
  <2> QED BY <1>2, <2>5
<1> QED BY <1>3, <1>4, <1>5, <1>6

LEMMA RanShared ==
  ASSUME PanelsInv, ~Leaving, NEW e \in H.effects, Shared(e), session # 0
  PROVE  /\ page.filter \/ "filter" \in due => Opened(Ran, e)
         /\ \A l \in H.loads : l.name \in Wanted /\ e.mark \in l.marks => Opened(Ran, e)
<1>1. WellMade(H)
  BY InvMade DEF PanelsInv
<1>2. ASSUME page.filter \/ "filter" \in due
      PROVE  Opened(Ran, e)
  <2>1. Opened(page, e)
    BY <1>2 DEF PanelsInv, Filtered
  <2> QED BY <2>1, RanViews DEF StaysOpened, Shared
<1>3. ASSUME NEW l \in H.loads, l.name \in Wanted, e.mark \in l.marks
      PROVE  Opened(Ran, e)
  <2>1. PICK f \in Awake : Active(f) /\ f.mark \notin page.marks /\ l.name \in f.loads
    BY <1>1, <1>3, WantedIs
  <2>2. f = e \/ f.deps = {"filter"}
    BY <1>1, <1>3, <2>1 DEF WellMade, SharedFit, Shared, Awake
  <2>3. CASE f = e
    BY <1>1, <2>1, <2>3, WantedIs, WantedOpened
  <2>4. CASE f.deps = {"filter"}
    BY <1>2, <2>1, <2>4 DEF Awake
  <2> QED BY <2>2, <2>3, <2>4
<1> QED BY <1>2, <1>3

LEMMA RanKept ==
  ASSUME PanelsInv, ~Leaving
  PROVE  Kept(Ran, session, FALSE)
<1>1. WellMade(H) /\ Around /\ sel \in Items /\ Moved \in BOOLEAN /\ Emptied \in Pages
  BY InvMade, RanIs DEF PanelsInv, Moved
<1>2. Views(Emptied, session, FALSE, sel, Moved) /\ Kept(Emptied, session, FALSE)
  BY RanViews
<1>3. CASE Wanted = {}
  BY <1>2, <1>3 DEF Ran
<1>4. CASE Wanted # {}
  <2>1. Wanted \in SUBSET LoadNames(H) /\ session \in 1..last /\ <<>> \in Bys
    BY <1>1, <1>4, WantedIs DEF Around, Bys
  <2>2. Ran = Asked(Emptied, Wanted, session, <<>>)
    BY <1>4 DEF Ran
  <2>3. \A e \in H.effects : \A l \in LoadsOf(Wanted) : Shared(e) /\ e.mark \in l.marks => Opened(Ran, e)
    BY <1>1, <2>1, LoadsAre, RanShared
  <2> QED BY <1>1, <1>2, <2>1, <2>2, <2>3, AskedKept
<1> QED BY <1>3, <1>4

(* An effect of the selection has dropped what is of another item or asked    *)
(* for it again.                                                             *)
LEMMA RanChosen ==
  ASSUME PanelsInv, ~Leaving
  PROVE  Chosen(Ran, sel, FALSE)
<1>1. /\ WellMade(H) /\ Around /\ page \in Pages /\ Chosen(Ran, sel, Moved)
  BY InvMade, RanViews DEF PanelsInv, Views
<1>2. CASE ~Moved
  <2>1. Moved = FALSE
    BY <1>2 DEF Moved
  <2> QED BY <1>1, <2>1
<1>3. CASE Moved
  <2> SUFFICES ASSUME NEW s \in Slots \cap OfSelection
               PROVE  /\ \A r \in Live(Ran) : s \in LoadOf(r).slots => r.sel = sel
                      /\ \/ Ran.shown[s] = Nothing \/ Ran.shown[s].write
                         \/ /\ \E l \in H.loads : s \in l.slots
                            /\ Ran.shown[s].sel = sel \/ Awaited(Ran, s)
    BY DEF Chosen
  <2>1. Ran \in Pages
    BY RanIs
  <2>2. \A r \in Live(Ran) : LoadOf(r) \in H.loads
    BY <1>1, <2>1, LiveIs
  <2>3. CASE \A l \in H.loads : s \notin l.slots
    BY <1>1, <2>2, <2>3 DEF Chosen
  <2>4. ASSUME NEW l \in H.loads, s \in l.slots
        PROVE  /\ \A r \in Live(Ran) : s \in LoadOf(r).slots => r.sel = sel
               /\ Ran.shown[s] = Nothing \/ Awaited(Ran, s)
    <3>1. \A m \in H.loads : m.counter = l.counter \/ s \in m.slots => m = l
      BY <1>1, <2>4 DEF WellMade, SelectionFits
    <3>2. PICK e \in H.effects : Reselects(e, l, s)
      BY <1>1, <2>4 DEF WellMade, SelectionFits
    <3>3. e \in Awake
      BY <1>3, <3>2 DEF Reselects, Awake, Moved
    <3>4. CASE ~Active(e)
      <4>1. e.away \in Away
        BY <3>3, <3>4 DEF Away
      <4>2. s \in Together(Away).slots /\ l.counter \in Together(Away).counters
        BY <3>2, <4>1, TogetherIs DEF Reselects
      <4>3. Ran.shown[s] = Nothing
        BY <4>2, RanIs
      <4>4. \A r \in Live(Emptied) : LoadOf(r) # l
        BY <4>2, RanIs
      <4>5. \A r \in Live(Ran) : s \in LoadOf(r).slots => r.sel = sel
        BY <2>2, <3>1, <4>4, RanIs
      <4> QED BY <4>3, <4>5
    <3>5. CASE Active(e)
      <4>1. e.item /\ e.mark = None /\ l.name \in e.loads /\ s \in l.erases
        BY <3>2, <3>5 DEF Reselects, Active
      <4>2. e.mark \notin page.marks
        BY <1>1, <4>1 DEF Pages, MarkNames, WellMade, MarksFit
      <4>3. l.name \in Wanted
        BY <1>1, <3>3, <3>5, <4>1, <4>2, WantedIs
      <4>4. \A r \in Live(Ran) : s \in LoadOf(r).slots => r.sel = sel
        BY <2>2, <3>1, <4>3, RanIs
      <4>5. Awaited(Ran, s)
        BY <2>4, <4>1, <4>3, RanIs DEF Awaited
      <4> QED BY <4>4, <4>5
    <3> QED BY <3>4, <3>5
  <2> QED BY <2>3, <2>4
<1> QED BY <1>2, <1>3

(* Without a token the reset leaves nothing that is of a session.            *)
LEMMA RanReset ==
  ASSUME PanelsInv, Leaving
  PROVE  /\ \A i, moved : Views(Ran, 0, FALSE, i, moved)
         /\ Kept(Ran, 0, FALSE)
<1>1. WellMade(H) /\ page \in Pages /\ MarksFor(page) /\ Ran \in Pages
  BY InvMade, RanIs DEF PanelsInv, Whole, Views
<1>2. H.reset \in Away
  BY DEF Away, Leaving
<1>3. /\ H.reset.counters \subseteq Together(Away).counters
      /\ H.reset.slots \subseteq Together(Away).slots
      /\ H.reset.marks \subseteq Together(Away).marks
  BY <1>2, TogetherIs
<1>4. Ran = Cleared(page, Together(Away))
  BY <1>1, WantedIs DEF Ran, Emptied, Leaving
<1>5. Ran.marks = {}
  <2>1. Ran.marks = page.marks \ Together(Away).marks
    BY <1>1, <1>4, ClearedIs
  <2>2. page.marks \subseteq H.reset.marks
    BY <1>1 DEF MarksFor, WellMade, ResetsAll
  <2> QED BY <1>3, <2>1, <2>2
<1>6. \A s \in Slots : Ran.shown[s] = Nothing
  <2>1. /\ \A l \in H.loads : l.slots \subseteq H.reset.slots
        /\ \A h \in H.handlers : h.sets \subseteq H.reset.slots
    BY <1>1 DEF WellMade, ResetsAll
  <2>2. \A s \in Slots : (\E l \in H.loads : s \in l.slots) \/ (\E h \in H.handlers : s \in h.sets)
    <3> SUFFICES ASSUME NEW s \in Slots
                 PROVE  (\E l \in H.loads : s \in l.slots) \/ (\E h \in H.handlers : s \in h.sets)
      OBVIOUS
    <3>1. s \in UNION {l.slots : l \in H.loads} \/ s \in UNION {h.sets : h \in H.handlers}
      BY DEF Slots
    <3>2. ASSUME s \in UNION {l.slots : l \in H.loads} PROVE \E l \in H.loads : s \in l.slots
      BY <3>2
    <3>3. ASSUME s \in UNION {h.sets : h \in H.handlers} PROVE \E h \in H.handlers : s \in h.sets
      BY <3>3
    <3> QED BY <3>1, <3>2, <3>3
  <2>3. Slots \subseteq H.reset.slots
    BY <2>1, <2>2
  <2> QED BY <1>3, <2>3, RanIs
<1>7. \A r \in Live(Ran) : LoadOf(r) \in H.loads /\ LoadOf(r).slots = {}
  <2>1. Live(Ran) = {r \in Live(page) : LoadOf(r).counter \notin Together(Away).counters}
    BY <1>1, <1>4, ClearedIs
  <2> QED BY <1>1, <1>3, <2>1, LiveIs DEF WellMade, ResetsAll
<1>8. \A r \in Live(Ran) : ~r.old
  <2>1. Live(Ran) \subseteq Live(page)
    BY <1>1, <1>4, ClearedIs
  <2> QED BY <2>1 DEF PanelsInv, Whole, Views, Recent
<1>9. ~Nothing.old
  BY DEF Nothing
<1>10. \A h \in Ran.handlers : h.sess = 0 => HandlerOf(h).steps = <<>>
  BY <1>1 DEF Pages, Running, Sound
<1>11. \A r \in Live(Ran) : LoadOf(r).marks = {}
  BY <1>1, <1>7 DEF WellMade, MarksFit
<1>12. \A i, moved : Views(Ran, 0, FALSE, i, moved)
  BY <1>5, <1>6, <1>7, <1>8, <1>9 DEF Views, Mine, Recent, Chosen, MarksFor
<1>13. Kept(Ran, 0, FALSE)
  BY <1>5, <1>10, <1>11 DEF Kept
<1> QED BY <1>12, <1>13

LEMMA RunEffectsHolds ==
  ASSUME PanelsInv, RunEffects
  PROVE  PanelsInv'
<1> DEFINE k == page.filter /\ "filter" \notin due /\ session # 0
           z == Filtering(Ran, k)
<1>1. /\ WellMade(H) /\ Around /\ page \in Pages /\ last \in Nat /\ sel \in Items /\ Ran \in Pages
      /\ panel' = panel /\ session' = session /\ last' = last /\ role' = role
      /\ tab' = tab /\ acts' = acts /\ sel' = IF session = 0 THEN 0 ELSE sel
      /\ due' = IF sel' = sel THEN {} ELSE {"select"}
  BY InvMade, RanIs DEF PanelsInv, RunEffects
<1>2. page' = z
  <2>1. page' = [Ran EXCEPT !.filter = @ /\ "filter" \notin due /\ session # 0]
    BY DEF RunEffects, Ran, Emptied, Away, Awake, Wanted
  <2>2. Ran.filter = page.filter
    BY RanIs
  <2> QED BY <2>1, <2>2 DEF Filtering
<1>3. k \in BOOLEAN
  BY <1>1 DEF Pages
<1>4. Around'
  <2>1. sel' \in Items /\ due' \subseteq {"tab", "token", "role", "select", "filter"}
    BY <1>1 DEF Items
  <2>2. tab' \in (H.tabs)'
    BY <1>1, HookStays DEF Around
  <2> QED BY <1>1, <2>1, <2>2 DEF Around
<1>5. Leaving' = FALSE /\ (sel' = sel => Moved' = FALSE) /\ (sel' # sel => Moved' = TRUE)
  BY <1>1 DEF Leaving, Moved
<1> HIDE DEF k
<1>6. /\ z \in Pages /\ (z.filter <=> k) /\ StaysOpened(Ran, z) /\ Guarded(z) /\ FlagsFor(z, {})
      /\ \A sess, leaving, i, moved :
           /\ Views(Ran, sess, leaving, i, moved) => Views(z, sess, leaving, i, moved)
           /\ Kept(Ran, sess, leaving) => Kept(z, sess, leaving)
  BY <1>1, <1>3, RanIs, FilteringIs
<1> HIDE DEF z
<1>7. Views(Ran, session, FALSE, sel', Moved') /\ Kept(Ran, session, FALSE)
  <2>1. CASE Leaving
    BY <2>1, RanReset DEF Leaving
  <2>2. CASE ~Leaving
    <3>1. Views(Ran, session, FALSE, sel, FALSE)
      BY <2>2, RanViews, RanChosen DEF Views
    <3>2. Views(Ran, session, FALSE, sel', TRUE)
      BY <3>1, SelectionMoves
    <3>3. Kept(Ran, session, FALSE)
      BY <2>2, RanKept
    <3> QED BY <1>5, <3>1, <3>2, <3>3
  <2> QED BY <2>1, <2>2
<1>8. ASSUME NEW e \in H.effects, FillsTab(e), (Active(e))'
      PROVE  Opened(z, e)
  <2>1. session # 0 /\ sel' = sel
    BY <1>1, <1>8 DEF Active
  <2>2. Active(e) /\ ~Leaving
    BY <1>1, <1>8, <2>1 DEF Active, Leaving
  <2> QED BY <1>6, <1>8, <2>2, RanFilled DEF StaysOpened
<1>9. ASSUME NEW e \in H.effects, Shared(e), z.filter \/ "filter" \in due'
      PROVE  session' = 0 \/ Opened(z, e)
  <2>1. page.filter /\ session # 0 /\ ~Leaving
    BY <1>1, <1>6, <1>9 DEF k, Leaving
  <2> QED BY <1>6, <1>9, <2>1, RanShared DEF StaysOpened, Shared
<1>10. session' = 0 => ~z.filter
  BY <1>1, <1>6 DEF k
<1>11. Carried
  BY <1>1, <1>2, <1>5, <1>6, <1>7, <1>8, <1>9, <1>10 DEF Carried
<1> QED BY <1>1, <1>4, <1>11, Carry

-----------------------------------------------------------------------------
LEMMA StutterHolds ==
  ASSUME PanelsInv, UNCHANGED panelVars
  PROVE  PanelsInv'
<1>1. UNCHANGED <<panel, session, last, role, tab, sel, acts, due>> /\ page' = page
  BY DEF panelVars
<1>2. page \in Pages /\ Guarded(page) /\ FlagsFor(page, {}) /\ SameView(page, page) /\ SameUsers(page, page)
  BY DEF PanelsInv, Whole, SameView, SameUsers
<1> QED BY <1>1, <1>2, FewerHandlers

LEMMA StepHolds == PanelsInv /\ [PanelStep]_panelVars => PanelsInv'
  BY SignInHolds, SignOutHolds, RoleArrivesHolds, RunEffectsHolds, GotoHolds, SelectHolds,
     SearchHolds, CloseHolds, ClickHolds, AnswerHolds, WrittenHolds, StutterHolds
     DEF PanelStep

(* Whatever the hook, of those that obey the rules at the end of Hooks, and   *)
(* in whatever order clicks, effects and answers come, a panel shows what is  *)
(* of the session, of the last answers and of the selected item, its spinners *)
(* stop, its busy buttons are off and an open tab is filled.                 *)
THEOREM PanelsStayTrue == PanelsSpec => []PanelsHold
<1>1. InitPanels => PanelsInv
  BY InitHolds
<1>2. PanelsInv /\ [PanelStep]_panelVars => PanelsInv'
  BY StepHolds
<1>3. PanelsInv => PanelsHold
  BY InvImplies
<1> QED BY <1>1, <1>2, <1>3, PTL DEF PanelsSpec
=============================================================================
