--------------------------- MODULE FrontendProofs ---------------------------
(***************************************************************************)
(* Proofs about the repair page, for any repairs and documents, any lists  *)
(* the server answers and any number of clicks and refreshes. Every step   *)
(* but React's effects starts from a rendered page, so that what the       *)
(* effects left true of the address, the selection and the loads is known  *)
(* there; the effects then only have to bring it about.                    *)
(***************************************************************************)
EXTENDS RepairPage, TLAPS, FiniteSetTheorems

MaybeRepair == Repairs \cup {Unset}
MaybeDoc == Docs \cup {Unset}
Views == [tab : {"documents", "repair"}, address : Addresses, repair : MaybeRepair, doc : MaybeDoc]
LoadRow ==
  [repair : Repairs, doc : MaybeDoc, silent : BOOLEAN, by : {"open", "address", "tick", "list"},
   for : Nat, latest : BOOLEAN]
Names == DOMAIN Commands
CommandRow ==
  [id : Nat, name : Names, repair : MaybeRepair, doc : MaybeDoc,
   stage : {"request", "refresh", "open"}, latest : BOOLEAN, was : Views]
Keys == {<<>>} \cup (Repairs \X MaybeDoc)
WorkRow ==
  [loads : SUBSET LoadRow, cmds : SUBSET CommandRow, lit : SUBSET (Names \cup {"repair"}),
   stuck : SUBSET (Names \cup {"repair"}), key : Keys, lost : BOOLEAN]

(* One load is the last one, and the key of an address names the load that   *)
(* it is kept for.                                                           *)
LoadsInOrder(w) ==
  /\ \A l, m \in w.loads : l.latest /\ m.latest => l = m
  /\ \A l \in w.loads : l.latest /\ Leaves(l) => w.key \in {<<>>, <<l.repair, l.doc>>}

(* A command that is still the last of its counter has its spinner on, alone, *)
(* and what it will show or open is a repair.                                *)
CommandsInOrder(w) ==
  /\ w.stuck \subseteq w.lit
  /\ \A c, d \in w.cmds : c.id = d.id => c = d
  /\ \A c \in w.cmds : c.latest => c.name \in w.lit
  /\ \A c, d \in w.cmds : c.latest /\ d.latest /\ c.name = d.name => c = d
  /\ \A c \in w.cmds : Commands[c.name].own = Unset => c.latest
Numbered(w, n) == \A c \in w.cmds : c.id <= n
Lights(w) == \A l \in w.loads : l.latest /\ ~l.silent => "repair" \in w.lit
Aimed(c) ==
  /\ Commands[c.name].does \in {"open", "set", "resolve"} \/ c.name = "archiveDocument" => c.repair \in Repairs
  /\ c.name = "batch" => c.repair = c.was.repair
Spins(w) ==
  \A f \in w.lit \ w.stuck :
    \/ \E c \in w.cmds : c.name = f /\ Goes(c)
    \/ f = "repair" /\ \E l \in w.loads : l.latest /\ ~l.silent

Orderly(w) == CommandsInOrder(w) /\ Lights(w) /\ Spins(w)

(* What a command's hook watches is as the command found it while the command *)
(* is the last one.                                                          *)
StillWatched(w, s) ==
  surface # "review" => \A c \in w.cmds : c.latest => \A f \in Watches[surface] : s[f] = c.was[f]

TabFits(v) == v.tab = "repair" <=> v.address.page = "repair"
Loading(w) == \E l \in w.loads : l.latest
LoadingFor(w, a) == \E l \in w.loads : l.latest /\ Leaves(l) /\ l.repair = a.repair
Mixed(v) == v.repair # Unset /\ v.doc \notin DocsOf(v.repair) \cup {Unset}

(* Once the effects have run, the tab and the document are the address's; if  *)
(* the repair is not yet, its load is under way.                             *)
EffectsDone == view = seen => Agreed(view) = view
RepairFollows ==
  view = seen /\ ~work.lost /\ view.tab = "repair" /\ view.repair # view.address.repair =>
    LoadingFor(work, view.address)

(* A document of another repair than the selected one is about to go: a load  *)
(* is under way, or a command has just changed the repair, and the effects    *)
(* will see that it is not the address's, or not the document's.             *)
MixedPasses ==
  Mixed(view) /\ ~work.lost /\ ~Loading(work) =>
    /\ view.repair # seen.repair /\ TabFits(view)
    /\ view.tab = "repair" => view.repair # view.address.repair

PageTyped ==
  /\ surface \in Surfaces /\ clicks \in Nat
  /\ view \in Views /\ seen \in Views
  /\ news \subseteq {"object", "documents"} /\ listed \subseteq Docs
  /\ work \in WorkRow
PageInv ==
  /\ PageTyped
  /\ LoadsInOrder(work) /\ Orderly(work) /\ StillWatched(work, seen)
  /\ Numbered(work, clicks) /\ \A c \in work.cmds : Aimed(c)
  /\ EffectsDone /\ RepairFollows /\ MixedPasses

-----------------------------------------------------------------------------
(* The tables of commands. *)

LEMMA CommandFacts ==
  ASSUME surface \in Surfaces
  PROVE  /\ "repair" \notin Names
         /\ surface # "review" => \A n \in Names : Commands[n].own # Unset
         /\ \A n \in Names : n \in {"upload", "batch", "deleteRepair"} =>
                               Commands[n].does \notin {"open", "set", "resolve"}
         /\ Watches[surface] \subseteq {"tab", "doc", "repair"}
<1>1. CASE surface = "documents"
  BY <1>1 DEF Names, Commands, DocumentsCommands, Command, Unset, Watches
<1>2. CASE surface = "repairDocuments"
  BY <1>2 DEF Names, Commands, RepairDocumentsCommands, Command, Unset, Watches
<1>3. CASE surface = "editing"
  BY <1>3 DEF Names, Commands, EditingCommands, Command, Unset, Watches
<1>4. CASE surface = "actions"
  BY <1>4 DEF Names, Commands, ActionsCommands, Command, Unset, Watches
<1>5. CASE surface = "review"
  BY <1>5 DEF Names, Commands, ReviewCommands, Command, Unset, Watches
<1>6. QED
  BY <1>1, <1>2, <1>3, <1>4, <1>5, PageAssumption

LEMMA DocumentFacts ==
  /\ \A r \in Repairs : r # Unset
  /\ \A r : DocsOf(r) \subseteq Docs
  /\ \A r : DocsOf(r) # {} => r \in Repairs
  /\ \A r \in Repairs, d \in MaybeDoc : Resolved(r, d) \in DocsOf(r) \cup {Unset}
  /\ \A r \in Repairs : DefaultOf[r] \in DocsOf(r) \cup {Unset}
BY PageAssumption DEF DocsOf, Resolved, MaybeDoc

LEMMA KeysDiffer ==
  ASSUME NEW x, NEW y, NEW a, NEW b
  PROVE  /\ <<x, y>> # <<>>
         /\ <<x, y>> = <<a, b>> <=> x = a /\ y = b
OBVIOUS

LEMMA AddressParts ==
  ASSUME NEW a \in Addresses
  PROVE  /\ a.page \in {"documents", "repair"} /\ a.repair \in MaybeRepair /\ a.doc \in MaybeDoc
         /\ a.page = "documents" => a = Away
BY DEF Addresses, At, Away, MaybeRepair, MaybeDoc

LEMMA AddressesMade ==
  /\ Away \in Addresses
  /\ \A r \in MaybeRepair, d \in MaybeDoc : At(r, d) \in Addresses
BY DEF Addresses, MaybeRepair, MaybeDoc

-----------------------------------------------------------------------------
(* Commands that are overtaken. *)

LEMMA OvertakenFrom ==
  ASSUME NEW cmds \in SUBSET CommandRow, NEW names, NEW e \in Overtaken(cmds, names)
  PROVE  \E c \in cmds :
           /\ e \in CommandRow
           /\ e.id = c.id /\ e.name = c.name /\ e.repair = c.repair /\ e.doc = c.doc
           /\ e.stage = c.stage /\ e.was = c.was
           /\ e.latest <=> c.latest /\ c.name \notin names
<1>1. PICK c \in cmds : e = [c EXCEPT !.latest = @ /\ c.name \notin names]
  BY DEF Overtaken
<1>2. c \in CommandRow
  OBVIOUS
<1> DEFINE b == c.latest /\ c.name \notin names
<1>3. b \in BOOLEAN /\ e = [c EXCEPT !.latest = b]
  BY <1>1
<1> HIDE DEF b
<1>4. /\ e \in CommandRow /\ e.latest = b
      /\ e.id = c.id /\ e.name = c.name /\ e.repair = c.repair /\ e.doc = c.doc
      /\ e.stage = c.stage /\ e.was = c.was
  BY <1>2, <1>3 DEF CommandRow
<1>5. QED
  BY <1>1, <1>4 DEF b

LEMMA OvertakenTo ==
  ASSUME NEW cmds \in SUBSET CommandRow, NEW names, NEW c \in cmds
  PROVE  \E e \in Overtaken(cmds, names) :
           e.name = c.name /\ (e.latest <=> c.latest /\ c.name \notin names)
<1> DEFINE e == [c EXCEPT !.latest = @ /\ c.name \notin names]
           b == c.latest /\ c.name \notin names
<1>1. e \in Overtaken(cmds, names)
  BY DEF Overtaken
<1>2. c \in CommandRow /\ b \in BOOLEAN /\ e = [c EXCEPT !.latest = b]
  OBVIOUS
<1> HIDE DEF b
<1>3. e.name = c.name /\ e.latest = b
  BY <1>2 DEF CommandRow
<1>4. QED
  BY <1>1, <1>3 DEF b

(* The same command, perhaps overtaken. *)
Same(e, c) ==
  /\ e.id = c.id /\ e.name = c.name /\ e.repair = c.repair /\ e.doc = c.doc
  /\ e.stage = c.stage /\ e.was = c.was /\ (e.latest => c.latest)
Narrowed(w, t) == \A e \in t.cmds : \E c \in w.cmds : Same(e, c)

LEMMA NarrowedKeeps ==
  ASSUME NEW w \in WorkRow, NEW t \in WorkRow, Narrowed(w, t)
  PROVE  /\ \A s : StillWatched(w, s) => StillWatched(t, s)
         /\ (\A c \in w.cmds : Aimed(c)) => \A e \in t.cmds : Aimed(e)
         /\ \A n : Numbered(w, n) => Numbered(t, n)
BY DEF Narrowed, Same, StillWatched, Aimed, Numbered

-----------------------------------------------------------------------------
(* What each operator on the work does. *)

LEMMA RowParts ==
  ASSUME NEW w \in WorkRow
  PROVE  /\ w.loads \in SUBSET LoadRow /\ w.cmds \in SUBSET CommandRow
         /\ w.lit \subseteq Names \cup {"repair"} /\ w.stuck \subseteq Names \cup {"repair"}
         /\ w.key \in Keys /\ w.lost \in BOOLEAN
BY DEF WorkRow

LEMMA KeySet ==
  ASSUME NEW w \in WorkRow, NEW k \in Keys
  PROVE  LET t == [w EXCEPT !.key = k]
         IN  /\ t \in WorkRow /\ t.key = k /\ t.loads = w.loads /\ t.cmds = w.cmds
             /\ t.lit = w.lit /\ t.stuck = w.stuck /\ t.lost = w.lost
BY DEF WorkRow

LEMMA LostSet ==
  ASSUME NEW w \in WorkRow, NEW b \in BOOLEAN
  PROVE  LET t == [w EXCEPT !.lost = b]
         IN  /\ t \in WorkRow /\ t.lost = b /\ t.loads = w.loads /\ t.cmds = w.cmds
             /\ t.lit = w.lit /\ t.stuck = w.stuck /\ t.key = w.key
BY DEF WorkRow

(* No load is the last one any more. *)
Dropped(loads) == {[l EXCEPT !.latest = FALSE] : l \in loads}

LEMMA DroppedRows ==
  ASSUME NEW loads \in SUBSET LoadRow
  PROVE  /\ Dropped(loads) \in SUBSET LoadRow
         /\ \A l \in Dropped(loads) : ~l.latest
BY DEF Dropped, LoadRow

(* The load that is asked for is the last one. *)
NewLoad(r, d, silent, by, id) ==
  [repair |-> r, doc |-> d, silent |-> silent, by |-> by, for |-> id, latest |-> TRUE]
Asks(w, t, r, d, silent, by, id) ==
  /\ t \in WorkRow /\ t.cmds = w.cmds /\ t.key = w.key
  /\ NewLoad(r, d, silent, by, id) \in t.loads
  /\ \A l \in t.loads : l.latest => l = NewLoad(r, d, silent, by, id)
  /\ t.lit = IF silent THEN w.lit ELSE w.lit \cup {"repair"}
  /\ t.stuck = IF ~silent THEN w.stuck \ {"repair"}
               ELSE IF \E l \in w.loads : l.latest /\ ~l.silent THEN w.stuck \cup {"repair"}
               ELSE w.stuck
  /\ t.lost <=> by \in {"tick", "list"} /\ (w.lost \/ \E l \in w.loads : l.latest /\ l.repair # r)

LEMMA AskedRow ==
  ASSUME NEW w \in WorkRow, NEW r \in Repairs, NEW d \in MaybeDoc, NEW silent \in BOOLEAN,
         NEW by \in {"open", "address", "tick", "list"}, NEW id \in Nat
  PROVE  Asks(w, AskRepair(w, r, d, silent, by, id), r, d, silent, by, id)
<1> DEFINE new == NewLoad(r, d, silent, by, id)
           loads == Dropped(w.loads) \cup {new}
           lit == IF silent THEN w.lit ELSE w.lit \cup {"repair"}
           visible == \E l \in w.loads : l.latest /\ ~l.silent
           stuck == IF ~silent THEN w.stuck \ {"repair"} ELSE IF visible THEN w.stuck \cup {"repair"} ELSE w.stuck
           lost == by \in {"tick", "list"} /\ (w.lost \/ \E l \in w.loads : l.latest /\ l.repair # r)
           t == AskRepair(w, r, d, silent, by, id)
<1>1. t = [w EXCEPT !.loads = loads, !.lit = lit, !.stuck = stuck, !.lost = lost]
  BY DEF AskRepair, Dropped, NewLoad
<1>2. new \in LoadRow
  BY DEF LoadRow, NewLoad
<1>3. loads \in SUBSET LoadRow /\ new \in loads /\ \A l \in loads : l.latest => l = new
  BY <1>2, DroppedRows, RowParts
<1>4. lit \in SUBSET (Names \cup {"repair"}) /\ stuck \in SUBSET (Names \cup {"repair"}) /\ lost \in BOOLEAN
  BY RowParts
<1> SUFFICES /\ t \in WorkRow /\ t.cmds = w.cmds /\ t.key = w.key /\ t.loads = loads
             /\ t.lit = lit /\ t.stuck = stuck /\ t.lost = lost
  BY <1>3 DEF Asks
<1> HIDE DEF t, loads, lit, stuck, lost
<1>5. QED
  BY <1>1, <1>3, <1>4 DEF WorkRow

LEMMA ForgottenRow ==
  ASSUME NEW w \in WorkRow
  PROVE  LET t == Forgotten(w)
         IN  /\ t \in WorkRow /\ t.cmds = w.cmds /\ t.key = w.key /\ t.lost = w.lost
             /\ \A l \in t.loads : ~l.latest
             /\ t.lit = w.lit \ {"repair"} /\ t.stuck = w.stuck \ {"repair"}
<1> DEFINE loads == Dropped(w.loads)
           t == Forgotten(w)
<1>1. t = [w EXCEPT !.loads = loads, !.lit = @ \ {"repair"}, !.stuck = @ \ {"repair"}]
  BY DEF Forgotten, Dropped
<1>2. loads \in SUBSET LoadRow /\ \A l \in loads : ~l.latest
  BY DroppedRows, RowParts
<1> HIDE DEF t, loads
<1>3. QED
  BY <1>1, <1>2 DEF WorkRow, t

LEMMA InterruptedRow ==
  ASSUME NEW w \in WorkRow, surface \in Surfaces
  PROVE  LET t == Interrupted(w)
             names == {n \in Names : Commands[n].own # Unset}
             kept == IF surface = "review" THEN names ELSE {}
         IN  /\ t \in WorkRow /\ t.loads = w.loads /\ t.key = w.key /\ t.lost = w.lost
             /\ t.cmds = Overtaken(w.cmds, names)
             /\ t.lit = w.lit \ (names \ kept)
             /\ t.stuck = (w.stuck \ (names \ kept)) \cup (w.stuck \cap kept) \cup (kept \cap w.lit)
<1> DEFINE names == {n \in Names : Commands[n].own # Unset}
           kept == IF surface = "review" THEN names ELSE {}
           cmds == Overtaken(w.cmds, names)
           t == Interrupted(w)
<1>1. t = [w EXCEPT !.cmds = cmds, !.lit = @ \ (names \ kept),
             !.stuck = (@ \ (names \ kept)) \cup (@ \cap kept) \cup (kept \cap w.lit)]
  BY DEF Interrupted, Names
<1>2. cmds \in SUBSET CommandRow
  BY OvertakenFrom, RowParts
<1>3. kept \subseteq Names
  OBVIOUS
<1> SUFFICES /\ t \in WorkRow /\ t.loads = w.loads /\ t.key = w.key /\ t.lost = w.lost
             /\ t.cmds = cmds /\ t.lit = w.lit \ (names \ kept)
             /\ t.stuck = (w.stuck \ (names \ kept)) \cup (w.stuck \cap kept) \cup (kept \cap w.lit)
  OBVIOUS
<1> HIDE DEF t, names, kept, cmds
<1>4. QED
  BY <1>1, <1>2, <1>3 DEF WorkRow

LEMMA EndedRow ==
  ASSUME NEW w \in WorkRow, NEW c \in w.cmds
  PROVE  LET t == Ended(w, c)
         IN  /\ t \in WorkRow /\ t.loads = w.loads /\ t.key = w.key /\ t.lost = w.lost
             /\ t.cmds = w.cmds \ {c}
             /\ t.lit = IF c.latest THEN w.lit \ {c.name} ELSE w.lit
             /\ t.stuck = IF c.latest THEN w.stuck \ {c.name} ELSE w.stuck
BY DEF Ended, WorkRow

-----------------------------------------------------------------------------
(* Each operator keeps the commands in order and the spinners ending. *)

LEMMA AskedKeeps ==
  ASSUME NEW w \in WorkRow, NEW r \in Repairs, NEW d \in MaybeDoc, NEW silent \in BOOLEAN,
         NEW by \in {"open", "address", "tick", "list"}, NEW id \in Nat, surface \in Surfaces
  PROVE  LET t == AskRepair(w, r, d, silent, by, id)
         IN  /\ Orderly(w) => Orderly(t)
             /\ by \in {"tick", "list"} => LoadsInOrder(t)
             /\ \A u \in WorkRow : u.loads = t.loads /\ u.key = <<r, d>> => LoadsInOrder(u)
<1> DEFINE t == AskRepair(w, r, d, silent, by, id)
           new == NewLoad(r, d, silent, by, id)
<1>0. Asks(w, t, r, d, silent, by, id)
  BY AskedRow
<1> HIDE DEF t
<1>1. /\ t \in WorkRow /\ t.cmds = w.cmds /\ t.key = w.key
      /\ new \in t.loads /\ \A l \in t.loads : l.latest => l = new
      /\ t.lit = IF silent THEN w.lit ELSE w.lit \cup {"repair"}
      /\ t.stuck = IF ~silent THEN w.stuck \ {"repair"}
                   ELSE IF \E l \in w.loads : l.latest /\ ~l.silent THEN w.stuck \cup {"repair"}
                   ELSE w.stuck
  BY <1>0 DEF Asks
<1>2. new.repair = r /\ new.doc = d /\ new.silent = silent /\ new.by = by /\ new.latest
  BY DEF NewLoad
<1> HIDE DEF new
<1>3. "repair" \notin Names /\ \A c \in w.cmds : c.name \in Names
  BY CommandFacts, RowParts DEF CommandRow
<1>4. ASSUME Orderly(w) PROVE Lights(t) /\ t.stuck \subseteq t.lit
  <2>1. ASSUME NEW l \in t.loads, l.latest, ~l.silent PROVE "repair" \in t.lit
    BY <1>1, <1>2, <2>1
  <2>2. w.stuck \subseteq w.lit /\ ((\E l \in w.loads : l.latest /\ ~l.silent) => "repair" \in w.lit)
    BY <1>4 DEF Orderly, CommandsInOrder, Lights
  <2>3. QED
    BY <1>1, <2>1, <2>2 DEF Lights
<1>5. ASSUME Orderly(w) PROVE CommandsInOrder(t) /\ Spins(t)
  <2>1. CommandsInOrder(t)
    BY <1>1, <1>4, <1>5 DEF Orderly, CommandsInOrder
  <2>2. ASSUME NEW f \in t.lit \ t.stuck, f # "repair" PROVE \E c \in t.cmds : c.name = f /\ Goes(c)
    BY <1>1, <1>5, <2>2 DEF Orderly, Spins
  <2>3. ASSUME "repair" \in t.lit \ t.stuck PROVE \E l \in t.loads : l.latest /\ ~l.silent
    <3>1. CASE ~silent
      BY <1>1, <1>2, <3>1
    <3>2. CASE silent
      <4>1. "repair" \in w.lit \ w.stuck /\ ~\E l \in w.loads : l.latest /\ ~l.silent
        BY <1>1, <2>3, <3>2
      <4>2. QED
        BY <1>3, <1>5, <4>1 DEF Orderly, Spins
    <3>3. QED
      BY <3>1, <3>2
  <2>4. QED
    BY <2>1, <2>2, <2>3 DEF Spins
<1>6. by \in {"tick", "list"} => LoadsInOrder(t)
  BY <1>1, <1>2 DEF LoadsInOrder, Leaves
<1>7. ASSUME NEW u \in WorkRow, u.loads = t.loads, u.key = <<r, d>> PROVE LoadsInOrder(u)
  BY <1>1, <1>2, <1>7 DEF LoadsInOrder
<1>8. QED
  BY <1>4, <1>5, <1>6, <1>7 DEF Orderly, t

LEMMA ForgottenKeeps ==
  ASSUME NEW w \in WorkRow, surface \in Surfaces
  PROVE  /\ Orderly(w) => Orderly(Forgotten(w))
         /\ LoadsInOrder(Forgotten(w))
<1> DEFINE t == Forgotten(w)
<1>1. /\ t.cmds = w.cmds /\ \A l \in t.loads : ~l.latest
      /\ t.lit = w.lit \ {"repair"} /\ t.stuck = w.stuck \ {"repair"}
  BY ForgottenRow
<1>2. "repair" \notin Names /\ \A c \in w.cmds : c.name \in Names
  BY CommandFacts, RowParts DEF CommandRow
<1> SUFFICES (Orderly(w) => Orderly(t)) /\ LoadsInOrder(t)
  OBVIOUS
<1> HIDE DEF t
<1>3. LoadsInOrder(t)
  BY <1>1 DEF LoadsInOrder
<1>4. ASSUME Orderly(w) PROVE CommandsInOrder(t)
  BY <1>1, <1>2, <1>4 DEF Orderly, CommandsInOrder
<1>5. ASSUME Orderly(w) PROVE Spins(t) /\ Lights(t)
  BY <1>1, <1>2, <1>5 DEF Orderly, Spins, Lights
<1>6. QED
  BY <1>3, <1>4, <1>5 DEF Orderly

LEMMA InterruptedKeeps ==
  ASSUME NEW w \in WorkRow, surface \in Surfaces
  PROVE  LET t == Interrupted(w)
         IN  /\ Orderly(w) => Orderly(t)
             /\ LoadsInOrder(w) => LoadsInOrder(t)
             /\ Narrowed(w, t)
             /\ surface # "review" => \A c \in t.cmds : ~c.latest
<1> DEFINE t == Interrupted(w)
           names == {n \in Names : Commands[n].own # Unset}
           kept == IF surface = "review" THEN names ELSE {}
<1>1. /\ t \in WorkRow /\ t.loads = w.loads /\ t.key = w.key
      /\ t.cmds = Overtaken(w.cmds, names)
      /\ t.lit = w.lit \ (names \ kept)
      /\ t.stuck = (w.stuck \ (names \ kept)) \cup (w.stuck \cap kept) \cup (kept \cap w.lit)
  BY InterruptedRow
<1>2. "repair" \notin names /\ \A c \in w.cmds : c.name \in Names
  BY CommandFacts, RowParts DEF CommandRow
<1>3. \A n \in Names : n \in names <=> Commands[n].own # Unset
  OBVIOUS
<1>4. surface # "review" => names = Names /\ kept = {}
  BY CommandFacts
<1>5. surface = "review" => kept = names
  OBVIOUS
<1> SUFFICES /\ Orderly(w) => Orderly(t)
             /\ LoadsInOrder(w) => LoadsInOrder(t)
             /\ Narrowed(w, t)
             /\ surface # "review" => \A c \in t.cmds : ~c.latest
  OBVIOUS
<1> HIDE DEF t, names, kept
<1>d. w.cmds \in SUBSET CommandRow
  BY RowParts
<1>6. \A e \in t.cmds : \E c \in w.cmds :
        Same(e, c) /\ (e.latest <=> c.latest /\ c.name \notin names)
  BY <1>1, <1>d, OvertakenFrom DEF Same
<1>7. \A c \in w.cmds : \E e \in t.cmds : e.name = c.name /\ (e.latest <=> c.latest /\ c.name \notin names)
  BY <1>1, <1>d, OvertakenTo
<1>8. LoadsInOrder(w) => LoadsInOrder(t)
  BY <1>1 DEF LoadsInOrder
<1>9. Narrowed(w, t)
  BY <1>6 DEF Narrowed
<1>10. surface # "review" => \A c \in t.cmds : ~c.latest
  BY <1>2, <1>4, <1>6 DEF Same
<1>11. ASSUME Orderly(w) PROVE CommandsInOrder(t)
  <2>1. t.stuck \subseteq t.lit
    BY <1>1, <1>4, <1>5, <1>11 DEF Orderly, CommandsInOrder
  <2>2. ASSUME NEW e \in t.cmds, e.latest PROVE e.name \in t.lit
    BY <1>1, <1>6, <1>11, <2>2 DEF Orderly, CommandsInOrder, Same
  <2>3. ASSUME NEW e \in t.cmds, NEW g \in t.cmds, e.id = g.id PROVE e = g
    <3>1. PICK c \in w.cmds : Same(e, c) /\ (e.latest <=> c.latest /\ c.name \notin names)
      BY <1>6
    <3>2. PICK b \in w.cmds : Same(g, b) /\ (g.latest <=> b.latest /\ b.name \notin names)
      BY <1>6
    <3>3. c = b
      BY <1>11, <2>3, <3>1, <3>2 DEF Orderly, CommandsInOrder, Same
    <3>4. e \in CommandRow /\ g \in CommandRow
      BY <1>1, RowParts
    <3>5. (e.latest <=> g.latest) /\ e.latest \in BOOLEAN /\ g.latest \in BOOLEAN
      BY <3>1, <3>2, <3>3, <3>4 DEF CommandRow
    <3>6. QED
      BY <3>1, <3>2, <3>3, <3>4, <3>5 DEF CommandRow, Same
  <2>4. ASSUME NEW e \in t.cmds, NEW g \in t.cmds, e.latest, g.latest, e.name = g.name PROVE e = g
    <3>1. e.id = g.id
      BY <1>6, <1>11, <2>4 DEF Orderly, CommandsInOrder, Same
    <3>2. QED
      BY <2>3, <3>1
  <2>5. ASSUME NEW e \in t.cmds, Commands[e.name].own = Unset PROVE e.latest
    BY <1>2, <1>3, <1>6, <1>11, <2>5 DEF Orderly, CommandsInOrder, Same
  <2>6. QED
    BY <2>1, <2>2, <2>3, <2>4, <2>5 DEF CommandsInOrder
<1>12. ASSUME Orderly(w) PROVE Spins(t) /\ Lights(t)
  <2>1. Lights(t)
    BY <1>1, <1>2, <1>12 DEF Orderly, Lights
  <2>2. ASSUME NEW f \in t.lit \ t.stuck, f # "repair" PROVE \E e \in t.cmds : e.name = f /\ Goes(e)
    <3>1. f \in w.lit \ w.stuck /\ f \notin names
      BY <1>1, <1>4, <1>5, <2>2
    <3>2. PICK c \in w.cmds : c.name = f /\ Goes(c)
      BY <1>12, <2>2, <3>1 DEF Orderly, Spins
    <3>3. Commands[c.name].own = Unset
      BY <1>2, <1>3, <3>1, <3>2
    <3>4. QED
      BY <1>7, <3>2, <3>3 DEF Goes
  <2>3. ASSUME "repair" \in t.lit \ t.stuck PROVE \E l \in t.loads : l.latest /\ ~l.silent
    <3>1. "repair" \in w.lit \ w.stuck
      BY <1>1, <1>2, <2>3
    <3>2. ~\E c \in w.cmds : c.name = "repair"
      BY <1>2, CommandFacts
    <3>3. QED
      BY <1>1, <1>12, <3>1, <3>2 DEF Orderly, Spins
  <2>4. QED
    BY <2>1, <2>2, <2>3 DEF Spins
<1>13. QED
  BY <1>8, <1>9, <1>10, <1>11, <1>12 DEF Orderly

LEMMA EndedKeeps ==
  ASSUME NEW w \in WorkRow, NEW c \in w.cmds, surface \in Surfaces
  PROVE  LET t == Ended(w, c)
         IN  /\ Orderly(w) => Orderly(t)
             /\ LoadsInOrder(w) => LoadsInOrder(t)
             /\ Narrowed(w, t)
<1> DEFINE t == Ended(w, c)
<1>1. /\ t.loads = w.loads /\ t.key = w.key /\ t.cmds = w.cmds \ {c}
      /\ t.lit = IF c.latest THEN w.lit \ {c.name} ELSE w.lit
      /\ t.stuck = IF c.latest THEN w.stuck \ {c.name} ELSE w.stuck
  BY EndedRow
<1>2. "repair" \notin Names /\ \A e \in w.cmds : e.name \in Names
  BY CommandFacts, RowParts DEF CommandRow
<1> SUFFICES (Orderly(w) => Orderly(t)) /\ (LoadsInOrder(w) => LoadsInOrder(t)) /\ Narrowed(w, t)
  OBVIOUS
<1> HIDE DEF t
<1>3. LoadsInOrder(w) => LoadsInOrder(t)
  BY <1>1 DEF LoadsInOrder
<1>4. Narrowed(w, t)
  BY <1>1 DEF Narrowed, Same
<1>5. ASSUME Orderly(w) PROVE CommandsInOrder(t)
  BY <1>1, <1>5 DEF Orderly, CommandsInOrder
<1>6. ASSUME Orderly(w) PROVE Spins(t) /\ Lights(t)
  <2>1. Lights(t)
    BY <1>1, <1>2, <1>6 DEF Orderly, Lights
  <2>2. Spins(t)
    BY <1>1, <1>2, <1>6 DEF Orderly, CommandsInOrder, Spins, Goes
  <2>3. QED
    BY <2>1, <2>2
<1>7. QED
  BY <1>3, <1>4, <1>5, <1>6 DEF Orderly

-----------------------------------------------------------------------------
(* The same of what the handlers make of them. *)

Keeps(w, t) ==
  /\ t \in WorkRow /\ Narrowed(w, t)
  /\ Orderly(w) => Orderly(t)
  /\ LoadsInOrder(w) => LoadsInOrder(t)

LEMMA KeepsStays ==
  ASSUME NEW w \in WorkRow
  PROVE  Keeps(w, w)
BY DEF Keeps, Narrowed, Same

LEMMA KeepsTwice ==
  ASSUME NEW w, NEW t, NEW u, Keeps(w, t), Keeps(t, u)
  PROVE  Keeps(w, u)
<1>1. Narrowed(w, u)
  BY DEF Keeps, Narrowed, Same
<1>2. QED
  BY <1>1 DEF Keeps

LEMMA LostKeeps ==
  ASSUME NEW w \in WorkRow, NEW b \in BOOLEAN
  PROVE  Keeps(w, [w EXCEPT !.lost = b])
<1> DEFINE t == [w EXCEPT !.lost = b]
<1>1. /\ t \in WorkRow /\ t.loads = w.loads /\ t.cmds = w.cmds
      /\ t.lit = w.lit /\ t.stuck = w.stuck /\ t.key = w.key
  BY LostSet
<1> HIDE DEF t
<1>2. Orderly(w) => Orderly(t)
  BY <1>1 DEF Orderly, CommandsInOrder, Lights, Spins
<1>3. LoadsInOrder(w) => LoadsInOrder(t)
  BY <1>1 DEF LoadsInOrder
<1>4. QED
  BY <1>1, <1>2, <1>3 DEF Keeps, Narrowed, Same, t

(* The work turns to a load of r for the address. *)
TurnsTo(w, t, r) ==
  /\ Keeps(w, t) /\ ~t.lost /\ t.cmds = w.cmds
  /\ \E l \in t.loads : l.latest /\ Leaves(l) /\ l.repair = r

LEMMA AskKeyKeeps ==
  ASSUME NEW w \in WorkRow, NEW r \in Repairs, NEW d \in MaybeDoc, NEW silent \in BOOLEAN,
         NEW by \in {"open", "address"}, NEW id \in Nat, surface \in Surfaces
  PROVE  TurnsTo(w, [AskRepair(w, r, d, silent, by, id) EXCEPT !.key = <<r, d>>], r)
<1> DEFINE u == AskRepair(w, r, d, silent, by, id)
           t == [u EXCEPT !.key = <<r, d>>]
<1>1. Asks(w, u, r, d, silent, by, id)
  BY AskedRow
<1>2. /\ Orderly(w) => Orderly(u)
      /\ \A x \in WorkRow : x.loads = u.loads /\ x.key = <<r, d>> => LoadsInOrder(x)
  BY AskedKeeps
<1> SUFFICES TurnsTo(w, t, r)
  OBVIOUS
<1> HIDE DEF u
<1>3. <<r, d>> \in Keys
  BY DEF Keys
<1>4. u \in WorkRow /\ u.cmds = w.cmds /\ ~u.lost
  BY <1>1 DEF Asks
<1>5. /\ t \in WorkRow /\ t.key = <<r, d>> /\ t.loads = u.loads /\ t.cmds = u.cmds
      /\ t.lit = u.lit /\ t.stuck = u.stuck /\ t.lost = u.lost
  BY <1>3, <1>4, KeySet
<1> HIDE DEF t
<1>6. LoadsInOrder(t)
  BY <1>2, <1>5
<1>7. Orderly(u) => Orderly(t)
  BY <1>5 DEF Orderly, CommandsInOrder, Lights, Spins
<1>8. \E l \in t.loads : l.latest /\ Leaves(l) /\ l.repair = r
  BY <1>1, <1>5 DEF Asks, NewLoad, Leaves
<1>9. QED
  BY <1>2, <1>4, <1>5, <1>6, <1>7, <1>8 DEF Keeps, Narrowed, Same, TurnsTo

LEMMA OpenedKeeps ==
  ASSUME NEW w \in WorkRow, NEW r \in Repairs, NEW d \in MaybeDoc, NEW id \in Nat, surface \in Surfaces
  PROVE  TurnsTo(w, Opened(w, r, d, id), r)
BY AskKeyKeeps DEF Opened

LEMMA FollowedKeeps ==
  ASSUME NEW w \in WorkRow, NEW v \in Views, LoadsInOrder(w), surface \in Surfaces
  PROVE  LET t == Followed(w, v)
             a == v.address
         IN  /\ Keeps(w, t)
             /\ a.page = "documents" \/ (a.repair # Unset /\ Fits(v)) => t = w
             /\ a.page = "repair" /\ a.repair # Unset /\ ~Fits(v) /\ ~t.lost => LoadingFor(t, a)
<1> DEFINE t == Followed(w, v)
           a == v.address
           asked == [AskRepair(w, a.repair, a.doc, v.repair = a.repair, "address", 0)
                       EXCEPT !.key = <<a.repair, a.doc>>]
           waits == [w EXCEPT !.lost = @ \/ ~Pending(w)]
<1>1. a \in Addresses /\ a.page \in {"documents", "repair"} /\ a.repair \in MaybeRepair /\ a.doc \in MaybeDoc
  BY AddressParts DEF Views
<1>2. t = IF a.page = "documents" THEN w ELSE IF a.repair = Unset THEN Forgotten(w)
          ELSE IF Fits(v) THEN w ELSE IF w.key = <<a.repair, a.doc>> THEN waits ELSE asked
  BY <1>1 DEF Followed
<1>3. ASSUME a.repair # Unset
      PROVE  /\ Keeps(w, asked)
             /\ LoadingFor(asked, a)
  <2>1. a.repair \in Repairs /\ (v.repair = a.repair) \in BOOLEAN
    BY <1>1, <1>3 DEF MaybeRepair
  <2>2. QED
    <3> DEFINE silent == v.repair = a.repair
    <3>1. silent \in BOOLEAN /\ a.repair \in Repairs /\ a.doc \in MaybeDoc
      BY <1>1, <2>1
    <3>2. asked = [AskRepair(w, a.repair, a.doc, silent, "address", 0) EXCEPT !.key = <<a.repair, a.doc>>]
      OBVIOUS
    <3> HIDE DEF silent, asked, a
    <3>3. TurnsTo(w, asked, a.repair)
      BY <3>1, <3>2, AskKeyKeeps
    <3>4. QED
      BY <3>3 DEF TurnsTo, LoadingFor
<1>4. Keeps(w, waits)
  <2> DEFINE b == w.lost \/ ~Pending(w)
  <2>1. b \in BOOLEAN /\ waits = [w EXCEPT !.lost = b]
    OBVIOUS
  <2> HIDE DEF b
  <2>2. QED
    BY <2>1, LostKeeps
<1>5. ASSUME a.repair # Unset, w.key = <<a.repair, a.doc>>, ~waits.lost PROVE LoadingFor(waits, a)
  <2> DEFINE b == w.lost \/ ~Pending(w)
  <2>1. b \in BOOLEAN /\ waits = [w EXCEPT !.lost = b]
    OBVIOUS
  <2>2. waits.lost = b /\ waits.loads = w.loads
    BY <2>1, LostSet
  <2>3. PICK l \in w.loads : l.latest /\ Leaves(l)
    BY <1>5, <2>2 DEF Pending
  <2>4. w.key \in {<<>>, <<l.repair, l.doc>>}
    BY <2>3 DEF LoadsInOrder
  <2>5. l.repair = a.repair
    BY <1>5, <2>4, KeysDiffer
  <2>6. QED
    BY <2>2, <2>3, <2>5 DEF LoadingFor
<1>6. Keeps(w, Forgotten(w))
  BY ForgottenRow, ForgottenKeeps DEF Keeps, Narrowed, Same
<1> SUFFICES /\ Keeps(w, t)
             /\ a.page = "documents" \/ (a.repair # Unset /\ Fits(v)) => t = w
             /\ a.page = "repair" /\ a.repair # Unset /\ ~Fits(v) /\ ~t.lost => LoadingFor(t, a)
  OBVIOUS
<1> HIDE DEF t, asked, waits, a
<1>7. QED
  BY <1>1, <1>2, <1>3, <1>4, <1>5, <1>6, KeepsStays

(* The work without an answered load, and without the spinner that it held. *)
Without(w, l, k) ==
  LET t == [w EXCEPT !.loads = @ \ {l}, !.key = k]
  IN  IF l.latest /\ ~l.silent
      THEN [t EXCEPT !.lit = @ \ {"repair"}, !.stuck = @ \ {"repair"}] ELSE t

LEMMA WithoutKeeps ==
  ASSUME NEW w \in WorkRow, NEW l \in w.loads, NEW k \in Keys, k \in {w.key, <<>>}, surface \in Surfaces
  PROVE  /\ LoadsInOrder(w) /\ Orderly(w) => Keeps(w, Without(w, l, k))
         /\ Without(w, l, k) \in WorkRow
         /\ Without(w, l, k).loads = w.loads \ {l} /\ Without(w, l, k).lost = w.lost
<1> DEFINE t == [w EXCEPT !.loads = @ \ {l}, !.key = k]
           q == IF l.latest /\ ~l.silent
                THEN [t EXCEPT !.lit = @ \ {"repair"}, !.stuck = @ \ {"repair"}] ELSE t
           lit == IF l.latest /\ ~l.silent THEN w.lit \ {"repair"} ELSE w.lit
           stuck == IF l.latest /\ ~l.silent THEN w.stuck \ {"repair"} ELSE w.stuck
<1>1. /\ t \in WorkRow /\ t.loads = w.loads \ {l} /\ t.key = k /\ t.cmds = w.cmds
      /\ t.lit = w.lit /\ t.stuck = w.stuck /\ t.lost = w.lost
  BY DEF WorkRow
<1>2. /\ q \in WorkRow /\ q.loads = w.loads \ {l} /\ q.key = k /\ q.cmds = w.cmds
      /\ q.lit = lit /\ q.stuck = stuck /\ q.lost = w.lost
  BY <1>1 DEF WorkRow
<1>3. "repair" \notin Names /\ \A c \in w.cmds : c.name \in Names
  BY CommandFacts, RowParts DEF CommandRow
<1> SUFFICES /\ LoadsInOrder(w) /\ Orderly(w) => Keeps(w, q)
             /\ q \in WorkRow /\ q.loads = w.loads \ {l} /\ q.lost = w.lost
  BY DEF Without
<1> HIDE DEF q
<1>4. ASSUME LoadsInOrder(w) PROVE LoadsInOrder(q)
  BY <1>2, <1>4 DEF LoadsInOrder
<1>5. ASSUME LoadsInOrder(w), Orderly(w) PROVE CommandsInOrder(q)
  BY <1>2, <1>3, <1>5 DEF Orderly, CommandsInOrder
<1>6. ASSUME LoadsInOrder(w), Orderly(w) PROVE Lights(q) /\ Spins(q)
  <2>1. Lights(q)
    BY <1>2, <1>6 DEF LoadsInOrder, Orderly, Lights
  <2>2. ASSUME NEW f \in q.lit \ q.stuck, f # "repair" PROVE \E c \in q.cmds : c.name = f /\ Goes(c)
    BY <1>2, <1>6, <2>2 DEF Orderly, Spins
  <2>3. ASSUME "repair" \in q.lit \ q.stuck PROVE \E m \in q.loads : m.latest /\ ~m.silent
    BY <1>2, <1>3, <1>6, <2>3 DEF Orderly, Spins
  <2>4. QED
    BY <2>1, <2>2, <2>3 DEF Spins
<1>7. QED
  BY <1>2, <1>4, <1>5, <1>6 DEF Keeps, Orderly, Narrowed, Same

(* Nobody loses the last load but by its answer. *)
LEMMA AnsweredKeeps ==
  ASSUME NEW w \in WorkRow, NEW l \in w.loads, NEW how \in {"ok", "missing", "error"},
         surface \in Surfaces, LoadsInOrder(w), Orderly(w)
  PROVE  LET t == Answered(w, l, how)
         IN  /\ Keeps(w, t)
             /\ t.lost <=> w.lost \/ (l.latest /\ how = "error")
             /\ ~l.latest => t.loads = w.loads \ {l}
<1> DEFINE k == IF Leaves(l) /\ w.key = <<l.repair, l.doc>> THEN <<>> ELSE w.key
           quiet == Without(w, l, k)
           reset == IF l.latest /\ how = "ok" /\ ~l.silent /\ surface = "repairDocuments"
                    THEN Interrupted(quiet) ELSE quiet
           gone == IF l.latest /\ how = "missing" /\ Leaves(l) THEN Forgotten(reset) ELSE reset
           asker == {c \in gone.cmds : c.id = l.for /\ c.stage = "open"}
           told == IF asker = {} THEN gone ELSE Ended(gone, CHOOSE c \in asker : TRUE)
           b == told.lost \/ (l.latest /\ how = "error")
           t == Answered(w, l, how)
<1>1. t = [told EXCEPT !.lost = b]
  BY DEF Answered, Without
<1>2. k \in Keys /\ k \in {w.key, <<>>}
  BY RowParts DEF Keys
<1>3. Keeps(w, quiet) /\ quiet \in WorkRow /\ quiet.loads = w.loads \ {l} /\ quiet.lost = w.lost
  <2> HIDE DEF k
  <2>1. QED
    BY <1>2, WithoutKeeps
<1> HIDE DEF quiet
<1>4. Keeps(quiet, reset) /\ reset \in WorkRow /\ reset.loads = quiet.loads /\ reset.lost = quiet.lost
  <2>1. Keeps(quiet, Interrupted(quiet))
    BY <1>3, InterruptedRow, InterruptedKeeps DEF Keeps
  <2>2. /\ Interrupted(quiet) \in WorkRow /\ Interrupted(quiet).loads = quiet.loads
        /\ Interrupted(quiet).lost = quiet.lost
    BY <1>3, InterruptedRow
  <2>3. reset \in {quiet, Interrupted(quiet)} /\ Keeps(quiet, quiet)
    BY <1>3, KeepsStays
  <2> HIDE DEF reset
  <2>4. QED
    BY <1>3, <2>1, <2>2, <2>3
<1> HIDE DEF reset
<1>5. /\ Keeps(reset, gone) /\ gone \in WorkRow /\ (~l.latest => gone.loads = reset.loads)
      /\ gone.lost = reset.lost
  <2>1. Keeps(reset, Forgotten(reset)) /\ Forgotten(reset) \in WorkRow /\ Forgotten(reset).lost = reset.lost
    BY <1>4, ForgottenRow, ForgottenKeeps DEF Keeps, Narrowed, Same
  <2>2. QED
    BY <1>4, <2>1, KeepsStays
<1> HIDE DEF gone
<1>6. Keeps(gone, told) /\ told \in WorkRow /\ told.loads = gone.loads /\ told.lost = gone.lost
  <2>1. CASE asker = {}
    BY <1>5, <2>1, KeepsStays
  <2>2. CASE asker # {}
    <3>1. PICK c \in gone.cmds : told = Ended(gone, c)
      BY <2>2
    <3>2. QED
      BY <1>5, <3>1, EndedRow, EndedKeeps DEF Keeps
  <2>3. QED
    BY <2>1, <2>2
<1> HIDE DEF told
<1>7. b \in BOOLEAN
  OBVIOUS
<1> SUFFICES /\ Keeps(w, t)
             /\ t.lost <=> w.lost \/ (l.latest /\ how = "error")
             /\ ~l.latest => t.loads = w.loads \ {l}
  OBVIOUS
<1>8. (b <=> w.lost \/ (l.latest /\ how = "error")) /\ (~l.latest => told.loads = w.loads \ {l})
  BY <1>3, <1>4, <1>5, <1>6
<1> HIDE DEF b, t
<1>9. Keeps(told, t) /\ t.lost = b /\ t.loads = told.loads
  BY <1>1, <1>6, <1>7, LostKeeps, LostSet
<1>10. Keeps(w, t)
  BY <1>3, <1>4, <1>5, <1>6, <1>9, KeepsTwice
<1>11. QED
  BY <1>8, <1>9, <1>10

-----------------------------------------------------------------------------
(* The hook under test stays, and with it what is said of its commands. *)

LEMMA SurfaceStays ==
  ASSUME surface' = surface
  PROVE  /\ Commands' = Commands
         /\ (Watches[surface])' = Watches[surface]
         /\ WorkRow' = WorkRow
<1>1. Commands' = Commands
  BY DEF Commands, DocumentsCommands, RepairDocumentsCommands, EditingCommands, ActionsCommands,
         ReviewCommands, Command, Unset
<1>2. (Watches[surface])' = Watches[surface]
  BY DEF Watches
<1>3. WorkRow' = WorkRow
  BY <1>1 DEF WorkRow, CommandRow, Names
<1>4. QED
  BY <1>1, <1>2, <1>3

LEMMA WorkStays ==
  ASSUME surface' = surface, work' \in WorkRow,
         LoadsInOrder(work'), Orderly(work'), StillWatched(work', seen'), Numbered(work', clicks'),
         \A c \in work'.cmds : Aimed(c)
  PROVE  /\ LoadsInOrder(work)' /\ Orderly(work)' /\ StillWatched(work, seen)' /\ Numbered(work, clicks)'
         /\ (\A c \in work.cmds : Aimed(c))'
         /\ (work \in WorkRow)'
<1>1. Commands' = Commands /\ (Watches[surface])' = Watches[surface] /\ WorkRow' = WorkRow
  BY SurfaceStays
<1>2. LoadsInOrder(work)' /\ StillWatched(work, seen)' /\ (\A c \in work.cmds : Aimed(c))'
  BY <1>1 DEF LoadsInOrder, Leaves, StillWatched, Aimed
<1>3. CommandsInOrder(work)' /\ Numbered(work, clicks)'
  BY <1>1 DEF Orderly, CommandsInOrder, Numbered
<1>4. Lights(work)' /\ Spins(work)'
  BY <1>1 DEF Orderly, Lights, Spins, Goes
<1>5. QED
  BY <1>1, <1>2, <1>3, <1>4 DEF Orderly

-----------------------------------------------------------------------------
(* What the effects leave. *)

LEMMA AgreedFields ==
  ASSUME NEW v \in Views
  PROVE  LET a == v.address
             u == Agreed(v)
             d == IF a.doc # Unset THEN a.doc ELSE v.doc
         IN  /\ u \in Views /\ u.tab = a.page /\ u.address = a
             /\ a.page = "documents" => u.repair = v.repair /\ u.doc = v.doc
             /\ a.page = "repair" /\ a.repair = Unset =>
                  u.repair = Unset /\ u.doc = IF v.doc # Unset THEN Unset ELSE d
             /\ a.page = "repair" /\ a.repair # Unset => u.repair = v.repair
             /\ a.page = "repair" /\ a.repair # Unset /\ v.repair = a.repair /\ a.doc = Unset =>
                  u.doc = DefaultOf[a.repair]
             /\ a.page = "repair" /\ a.repair # Unset /\ ~(v.repair = a.repair /\ a.doc = Unset) => u.doc = d
<1> DEFINE a == v.address
           d == IF a.doc # Unset THEN a.doc ELSE v.doc
<1>1. /\ a \in Addresses /\ v.tab \in {"documents", "repair"} /\ v.repair \in MaybeRepair /\ v.doc \in MaybeDoc
      /\ Unset \in MaybeRepair /\ Unset \in MaybeDoc
  BY DEF Views, MaybeRepair, MaybeDoc
<1>2. a.page \in {"documents", "repair"} /\ a.repair \in MaybeRepair /\ a.doc \in MaybeDoc
  BY <1>1, AddressParts
<1>3. a.repair # Unset => DefaultOf[a.repair] \in MaybeDoc
  BY <1>2, PageAssumption DEF MaybeRepair, MaybeDoc
<1>4. d \in MaybeDoc
  BY <1>1, <1>2
<1>5. CASE a.page = "documents"
  BY <1>1, <1>5 DEF Agreed, Views
<1>6. CASE a.page = "repair" /\ a.repair = Unset
  <2> DEFINE e == IF v.doc # Unset THEN Unset ELSE d
  <2>1. Agreed(v) = [v EXCEPT !.tab = "repair", !.repair = Unset, !.doc = e] /\ e \in MaybeDoc
    BY <1>1, <1>4, <1>6 DEF Agreed
  <2> HIDE DEF e
  <2>2. /\ Agreed(v) \in Views /\ Agreed(v).tab = "repair" /\ Agreed(v).address = a
        /\ Agreed(v).repair = Unset /\ Agreed(v).doc = e
    BY <1>1, <2>1 DEF Views
  <2>3. QED
    BY <1>6, <2>2 DEF e
<1>7. CASE a.page = "repair" /\ a.repair # Unset /\ v.repair = a.repair /\ a.doc = Unset
  <2> DEFINE e == DefaultOf[a.repair]
  <2>1. Agreed(v) = [v EXCEPT !.tab = "repair", !.doc = e] /\ e \in MaybeDoc
    BY <1>3, <1>7 DEF Agreed
  <2> HIDE DEF e
  <2>2. /\ Agreed(v) \in Views /\ Agreed(v).tab = "repair" /\ Agreed(v).address = a
        /\ Agreed(v).repair = v.repair /\ Agreed(v).doc = e
    BY <1>1, <2>1 DEF Views
  <2>3. QED
    BY <1>7, <2>2 DEF e
<1>8. CASE a.page = "repair" /\ a.repair # Unset /\ ~(v.repair = a.repair /\ a.doc = Unset)
  <2>1. Agreed(v) = [v EXCEPT !.tab = "repair", !.doc = d]
    BY <1>8 DEF Agreed
  <2> HIDE DEF d
  <2>2. /\ Agreed(v) \in Views /\ Agreed(v).tab = "repair" /\ Agreed(v).address = a
        /\ Agreed(v).repair = v.repair /\ Agreed(v).doc = d
    BY <1>1, <1>4, <2>1 DEF Views
  <2>3. QED
    BY <1>8, <2>2 DEF d
<1>9. QED
  BY <1>2, <1>5, <1>6, <1>7, <1>8

LEMMA RenderedFacts ==
  ASSUME PageInv, Rendered
  PROVE  /\ view = seen /\ TabFits(view)
         /\ view.address.page = "repair" /\ view.address.repair = Unset => view.repair = Unset
         /\ view.address.page = "repair" /\ view.address.repair # Unset /\ view.address.doc # Unset =>
              view.doc = view.address.doc
         /\ ~work.lost /\ Mixed(view) => Loading(work)
<1>1. view = seen /\ Agreed(view) = view /\ view \in Views
  BY DEF PageInv, PageTyped, Rendered, EffectsDone
<1>2. view.address.page \in {"documents", "repair"} /\ view.tab \in {"documents", "repair"}
  BY <1>1, AddressParts DEF Views
<1>3. ~work.lost /\ Mixed(view) => Loading(work)
  BY <1>1 DEF PageInv, MixedPasses
<1>4. view.tab = view.address.page
  BY <1>1, AgreedFields
<1>5. QED
  BY <1>1, <1>2, <1>3, <1>4, AgreedFields DEF TabFits

(* A step from a rendered page that leaves the effects to come. *)
LEMMA RenderedStep ==
  ASSUME PageInv, Rendered, surface' = surface, seen' = seen, clicks' \in Nat, clicks <= clicks',
         view' \in Views, news' \subseteq {"object", "documents"}, listed' \subseteq Docs,
         work' \in WorkRow, LoadsInOrder(work'), Orderly(work'), StillWatched(work', seen),
         Numbered(work', clicks'), \A c \in work'.cmds : Aimed(c),
         view' = view /\ ~work'.lost /\ view.tab = "repair" /\ view.repair # view.address.repair =>
           LoadingFor(work', view.address),
         Mixed(view') /\ ~work'.lost /\ ~Loading(work') =>
           /\ view'.repair # view.repair /\ TabFits(view')
           /\ view'.tab = "repair" => view'.repair # view'.address.repair
  PROVE  PageInv'
<1>1. view = seen /\ Agreed(view) = view
  BY DEF PageInv, Rendered, EffectsDone
<1>2. /\ LoadsInOrder(work)' /\ Orderly(work)' /\ StillWatched(work, seen)' /\ Numbered(work, clicks)'
      /\ (\A c \in work.cmds : Aimed(c))' /\ (work \in WorkRow)'
  BY WorkStays
<1>3. PageTyped'
  BY <1>2 DEF PageInv, PageTyped, Views, MaybeRepair, MaybeDoc, Addresses
<1>4. EffectsDone'
  BY <1>1 DEF EffectsDone, Agreed
<1>5. RepairFollows'
  BY <1>1 DEF RepairFollows, LoadingFor, Leaves
<1>6. MixedPasses'
  BY <1>1 DEF MixedPasses, Mixed, Loading, TabFits, DocsOf
<1>7. QED
  BY <1>2, <1>3, <1>4, <1>5, <1>6 DEF PageInv

-----------------------------------------------------------------------------
(* The steps of the user. *)

LEMMA Typed ==
  ASSUME PageInv
  PROVE  /\ surface \in Surfaces /\ clicks \in Nat /\ view \in Views /\ work \in WorkRow
         /\ news \subseteq {"object", "documents"} /\ listed \subseteq Docs
         /\ LoadsInOrder(work) /\ Orderly(work) /\ StillWatched(work, seen) /\ Numbered(work, clicks)
         /\ \A c \in work.cmds : Aimed(c)
BY DEF PageInv, PageTyped

(* What every step leaves of the work. *)
FineAt(w, s) ==
  /\ w \in WorkRow /\ LoadsInOrder(w) /\ Orderly(w)
  /\ StillWatched(w, s) /\ Numbered(w, clicks) /\ \A c \in w.cmds : Aimed(c)
Fine(w) == FineAt(w, seen)

LEMMA FineStays ==
  ASSUME NEW w, NEW t, NEW s, FineAt(w, s), Keeps(w, t)
  PROVE  FineAt(t, s)
BY NarrowedKeeps DEF FineAt, Keeps

LEMMA WorkFine ==
  ASSUME PageInv
  PROVE  Fine(work)
BY Typed DEF Fine, FineAt

(* A command goes on to its next stage. *)
Staged(w, c, stage) == [w EXCEPT !.cmds = (@ \ {c}) \cup {[c EXCEPT !.stage = stage]}]

LEMMA StagedFine ==
  ASSUME surface \in Surfaces, NEW w, Fine(w), NEW c \in w.cmds, NEW stage \in {"refresh", "open"}
  PROVE  LET t == Staged(w, c, stage)
         IN  Fine(t) /\ t.loads = w.loads /\ t.lost = w.lost
<1> DEFINE e == [c EXCEPT !.stage = stage]
           cmds == (w.cmds \ {c}) \cup {e}
           t == [w EXCEPT !.cmds = cmds]
<1>1. c \in CommandRow /\ w \in WorkRow
  BY RowParts DEF Fine, FineAt
<1>2. /\ e \in CommandRow /\ e.id = c.id /\ e.name = c.name /\ e.repair = c.repair
      /\ e.was = c.was /\ e.latest = c.latest
  BY <1>1 DEF CommandRow
<1> HIDE DEF e
<1>3. cmds \in SUBSET CommandRow
  BY <1>1, <1>2, RowParts
<1>4. \A g \in cmds : (g \in w.cmds /\ g # c) \/ g = e
  OBVIOUS
<1>5. e \in cmds /\ \A g \in w.cmds : g # c => g \in cmds
  OBVIOUS
<1> SUFFICES Fine(t) /\ t.loads = w.loads /\ t.lost = w.lost
  BY DEF Staged, e
<1> HIDE DEF cmds
<1>6. /\ t \in WorkRow /\ t.loads = w.loads /\ t.key = w.key /\ t.lost = w.lost
      /\ t.lit = w.lit /\ t.stuck = w.stuck /\ t.cmds = cmds
  BY <1>1, <1>3 DEF WorkRow
<1> HIDE DEF t
<1>7. LoadsInOrder(t) /\ StillWatched(t, seen) /\ Numbered(t, clicks) /\ \A g \in t.cmds : Aimed(g)
  BY <1>2, <1>4, <1>6 DEF Fine, FineAt, LoadsInOrder, StillWatched, Numbered, Aimed
<1>8. CommandsInOrder(t) /\ Lights(t)
  BY <1>2, <1>4, <1>6 DEF Fine, FineAt, Orderly, CommandsInOrder, Lights
<1>9. Spins(t)
  <2>1. ASSUME NEW g \in w.cmds, Goes(g) PROVE \E h \in t.cmds : h.name = g.name /\ Goes(h)
    BY <1>2, <1>5, <1>6, <2>1 DEF Goes
  <2>2. QED
    BY <1>6, <2>1 DEF Fine, FineAt, Orderly, Spins
<1>10. QED
  BY <1>6, <1>7, <1>8, <1>9 DEF Fine, FineAt, Orderly

LEMMA ViewParts ==
  ASSUME NEW v \in Views
  PROVE  /\ v.tab \in {"documents", "repair"} /\ v.address \in Addresses
         /\ v.repair \in MaybeRepair /\ v.doc \in MaybeDoc
BY DEF Views

LEMMA OpenedViews ==
  ASSUME NEW v \in Views, NEW r \in MaybeRepair, NEW d \in MaybeDoc
  PROVE  LET u == OpenedView(v, r, d)
         IN  /\ u \in Views /\ u.tab = "repair" /\ u.address = At(r, d)
             /\ u.repair = v.repair /\ u.doc = v.doc
<1>1. At(r, d) \in Addresses
  BY AddressesMade
<1>2. QED
  BY <1>1 DEF OpenedView, Views

(* What turns the page to a repair asks for it. *)
LEMMA TurningKeeps ==
  ASSUME PageInv, Rendered, surface' = surface, seen' = seen, clicks' \in Nat, clicks <= clicks',
         news' \subseteq {"object", "documents"}, listed' \subseteq Docs,
         NEW r \in Repairs, NEW d \in MaybeDoc, view' = OpenedView(view, r, d),
         NEW w, Fine(w), TurnsTo(w, work', r)
  PROVE  PageInv'
<1>1. view' \in Views /\ view'.address = At(r, d) /\ At(r, d).repair = r
  BY Typed, OpenedViews DEF MaybeRepair, At
<1>2. Fine(work')
  BY FineStays DEF TurnsTo, Fine
<1>3. /\ work' \in WorkRow /\ LoadsInOrder(work') /\ Orderly(work') /\ StillWatched(work', seen)
      /\ Numbered(work', clicks) /\ \A c \in work'.cmds : Aimed(c)
  BY <1>2 DEF Fine, FineAt
<1>4. Numbered(work', clicks')
  <2>1. \A c \in work'.cmds : c.id \in Nat
    BY <1>3, RowParts DEF CommandRow
  <2>2. QED
    BY <1>3, <2>1, Typed DEF Numbered
<1>5. Loading(work') /\ (view' = view => LoadingFor(work', view.address))
  BY <1>1 DEF TurnsTo, Loading, LoadingFor
<1>6. QED
  BY <1>1, <1>3, <1>4, <1>5, RenderedStep

LEMMA OpenRepairKeeps ==
  ASSUME PageInv, NEW r \in Repairs, NEW d \in DocsOf(r) \cup {Unset}, OpenRepair(r, d)
  PROVE  PageInv'
<1>1. d \in MaybeDoc
  BY DocumentFacts DEF MaybeDoc
<1>2. TurnsTo(work, Opened(work, r, d, 0), r)
  BY <1>1, OpenedKeeps, Typed
<1>3. /\ Rendered /\ surface' = surface /\ seen' = seen /\ news' = news /\ listed' = listed
      /\ clicks' = clicks + 1 /\ view' = OpenedView(view, r, d) /\ work' = Opened(work, r, d, 0)
  BY DEF OpenRepair, UserActs
<1>4. QED
  BY <1>1, <1>2, <1>3, TurningKeeps, Typed, WorkFine

(* The tab and the address change alone: what is selected stays. *)
LEMMA MovingKeeps ==
  ASSUME PageInv, UserActs, UNCHANGED work, view' \in Views, view' # view,
         view'.repair = view.repair, view'.doc = view.doc
  PROVE  PageInv'
<1>1. /\ Rendered /\ surface' = surface /\ seen' = seen /\ news' = news /\ listed' = listed
      /\ clicks' = clicks + 1
  BY DEF UserActs
<1>2. Numbered(work', clicks')
  <2>1. \A c \in work.cmds : c.id \in Nat
    BY Typed, RowParts DEF CommandRow
  <2>2. QED
    BY <1>1, <2>1, Typed DEF Numbered
<1>3. ~(Mixed(view') /\ ~work'.lost /\ ~Loading(work'))
  <2>1. Mixed(view') <=> Mixed(view)
    BY DEF Mixed
  <2>2. QED
    BY <1>1, <2>1, RenderedFacts
<1>4. QED
  BY <1>1, <1>2, <1>3, Typed, RenderedStep

LEMMA ChangeTabKeeps ==
  ASSUME PageInv, NEW t \in {"documents", "repair"}, ChangeTab(t)
  PROVE  PageInv'
<1> DEFINE a == IF t = "repair" THEN At(view.repair, view.doc) ELSE Away
<1>1. a \in Addresses
  BY Typed, ViewParts, AddressesMade
<1>2. view' = [view EXCEPT !.tab = t, !.address = a] /\ t # view.tab /\ UserActs /\ UNCHANGED work
  BY DEF ChangeTab
<1> HIDE DEF a
<1>3. /\ view' \in Views /\ view' # view
      /\ view'.repair = view.repair /\ view'.doc = view.doc
  BY <1>1, <1>2, Typed DEF Views
<1>4. QED
  BY <1>2, <1>3, MovingKeeps

LEMMA BackKeeps ==
  ASSUME PageInv, NEW a \in Addresses, Back(a)
  PROVE  PageInv'
<1>1. view' = [view EXCEPT !.address = a] /\ a # view.address /\ UserActs /\ UNCHANGED work
  BY DEF Back
<1>2. /\ view' \in Views /\ view' # view
      /\ view'.repair = view.repair /\ view'.doc = view.doc
  BY <1>1, Typed DEF Views
<1>3. QED
  BY <1>1, <1>2, MovingKeeps

(* A button overtakes the commands of its counter, and takes over its own     *)
(* spinner; theirs are stuck.                                                *)
Rivals(n) == {m \in Names : Commands[n].own # Unset /\ Commands[m].own = Commands[n].own}
Pressed(n, r, d) ==
  [id |-> clicks + 1, name |-> n, repair |-> r, doc |-> d, stage |-> "request", latest |-> TRUE, was |-> view]
Launches(n, r, d) ==
  /\ work' \in WorkRow /\ work'.loads = work.loads /\ work'.key = work.key /\ work'.lost = work.lost
  /\ work'.cmds = Overtaken(work.cmds, Rivals(n)) \cup {Pressed(n, r, d)}
  /\ work'.lit = work.lit \cup {n}
  /\ work'.stuck = (work.stuck \ {n}) \cup {c.name : c \in {c \in work.cmds : c.latest /\ c.name \in Rivals(n) \ {n}}}

LEMMA LaunchIs ==
  ASSUME PageInv, NEW n \in Names, Launch(n)
  PROVE  \E target \in Targets(n) :
           /\ Launches(n, target[1], target[2])
           /\ target[1] \in MaybeRepair /\ target[2] \in MaybeDoc
           /\ Aimed(Pressed(n, target[1], target[2]))
<1>1. /\ view.repair \in MaybeRepair /\ view.doc \in MaybeDoc /\ listed \subseteq Docs /\ Unset \in MaybeDoc
      /\ view \in Views
  BY Typed, ViewParts DEF MaybeDoc
<1>2. PICK target \in Targets(n) :
        work' = [work EXCEPT
                   !.cmds = Overtaken(@, Rivals(n)) \cup {Pressed(n, target[1], target[2])},
                   !.stuck = (@ \ {n}) \cup {c.name : c \in {c \in work.cmds : c.latest /\ c.name \in Rivals(n) \ {n}}},
                   !.lit = @ \cup {n}]
  BY DEF Launch, Pressed, Rivals, Names
<1>3. /\ target[1] \in MaybeRepair /\ target[2] \in MaybeDoc
      /\ n \notin {"upload", "batch", "deleteRepair"} => target[1] \in Repairs
      /\ n = "batch" => target[1] = view.repair
  <2>1. \A d \in Docs : OwnerOf[d] \in Repairs
    BY PageAssumption
  <2>9. DOMAIN RepairDocumentsCommands = {"attach", "setPrimary", "compareReview", "compare"}
    BY DEF RepairDocumentsCommands
  <2>2. \A d \in DocsOf(view.repair) : view.repair \in Repairs /\ d \in Docs
    BY DocumentFacts
  <2>3. CASE n \in {"reprocess", "archiveDocument"}
    <3> DEFINE of == IF view.tab = "repair" THEN DocsOf(view.repair) ELSE listed
    <3>0. Targets(n) = {<<OwnerOf[d], d>> : d \in of} /\ of \subseteq Docs
      BY <1>1, <2>2, <2>3, <2>9 DEF Targets
    <3> HIDE DEF of
    <3>1. PICK d \in Docs : target = <<OwnerOf[d], d>>
      BY <3>0
    <3>2. QED
      BY <2>1, <2>3, <3>1 DEF MaybeRepair, MaybeDoc
  <2>4. CASE n \in {"upload", "batch"}
    <3>1. Targets(n) = {<<view.repair, view.doc>>}
      BY <2>4, <2>9 DEF Targets
    <3>2. QED
      BY <1>1, <2>4, <3>1
  <2>5. CASE n = "deleteRepair"
    <3> DEFINE of == IF view.tab = "repair" THEN {} ELSE listed
    <3>0. Targets(n) = {<<OwnerOf[d], Unset>> : d \in of} /\ of \subseteq Docs
      BY <1>1, <2>5, <2>9 DEF Targets
    <3> HIDE DEF of
    <3>1. PICK d \in Docs : target = <<OwnerOf[d], Unset>>
      BY <3>0
    <3>2. QED
      BY <1>1, <2>1, <2>5, <3>1 DEF MaybeRepair
  <2>6. CASE n \in {"attach", "setPrimary", "compareReview", "compare"}
    <3>2. PICK d \in DocsOf(view.repair) : target = <<view.repair, d>>
      BY <2>6, <2>9 DEF Targets
    <3>3. QED
      BY <1>1, <2>2, <2>6, <3>2 DEF MaybeDoc
  <2>7. CASE n \notin {"reprocess", "archiveDocument", "upload", "batch", "deleteRepair",
                       "attach", "setPrimary", "compareReview", "compare"}
    <3>2. view.repair # Unset /\ target = <<view.repair, view.doc>>
      BY <2>7, <2>9 DEF Targets
    <3>3. QED
      BY <1>1, <2>7, <3>2 DEF MaybeRepair
  <2>8. QED
    BY <2>3, <2>4, <2>5, <2>6, <2>7
<1> DEFINE new == Pressed(n, target[1], target[2])
<1>4. new \in CommandRow
  BY <1>1, <1>3, Typed DEF CommandRow, Pressed
<1>5. Aimed(new)
  BY <1>3, CommandFacts, Typed DEF Aimed, Pressed
<1> DEFINE cmds == Overtaken(work.cmds, Rivals(n)) \cup {new}
           stuck == (work.stuck \ {n})
                     \cup {c.name : c \in {c \in work.cmds : c.latest /\ c.name \in Rivals(n) \ {n}}}
<1>6. cmds \in SUBSET CommandRow
  BY <1>4, OvertakenFrom, RowParts, Typed
<1>7. stuck \subseteq Names \cup {"repair"}
  BY RowParts, Typed DEF Rivals
<1>8. work' = [work EXCEPT !.cmds = cmds, !.stuck = stuck, !.lit = @ \cup {n}]
  BY <1>2
<1> HIDE DEF new, cmds, stuck
<1>9. /\ work' \in WorkRow /\ work'.loads = work.loads /\ work'.key = work.key /\ work'.lost = work.lost
      /\ work'.cmds = cmds /\ work'.lit = work.lit \cup {n} /\ work'.stuck = stuck
  BY <1>6, <1>7, <1>8, Typed DEF WorkRow
<1>10. QED
  BY <1>3, <1>5, <1>9 DEF Launches, new, cmds, stuck

LEMMA LaunchOrderly ==
  ASSUME PageInv, NEW n \in Names \ work.lit, NEW r, NEW d, Launches(n, r, d)
  PROVE  Orderly(work')
<1> DEFINE new == Pressed(n, r, d)
<1>1. /\ new.id = clicks + 1 /\ new.name = n /\ new.latest /\ clicks \in Nat
  BY Typed DEF Pressed
<1>2. /\ work'.loads = work.loads /\ work'.cmds = Overtaken(work.cmds, Rivals(n)) \cup {new}
      /\ work'.lit = work.lit \cup {n}
  BY DEF Launches
<1> HIDE DEF new
<1>3. /\ \A f \in work'.stuck : f # n => f \in work.stuck \/ \E c \in work.cmds : c.latest /\ c.name = f
      /\ \A f \in work.stuck : f # n => f \in work'.stuck
      /\ \A c \in work.cmds : c.latest /\ c.name \in Rivals(n) /\ c.name # n => c.name \in work'.stuck
  BY DEF Launches
<1>4. \A m \in Names : m \in Rivals(n) <=> Commands[n].own # Unset /\ Commands[m].own = Commands[n].own
  BY DEF Rivals
<1>5. work.cmds \in SUBSET CommandRow /\ "repair" \notin Names /\ \A c \in work.cmds : c.name \in Names /\ c.id \in Nat
  BY Typed, RowParts, CommandFacts DEF CommandRow
<1>6. \A e \in Overtaken(work.cmds, Rivals(n)) : \E c \in work.cmds :
        e \in CommandRow /\ Same(e, c) /\ (e.latest <=> c.latest /\ c.name \notin Rivals(n))
  BY <1>5, OvertakenFrom DEF Same
<1>7. \A c \in work.cmds : \E e \in Overtaken(work.cmds, Rivals(n)) :
        e.name = c.name /\ (e.latest <=> c.latest /\ c.name \notin Rivals(n))
  BY <1>5, OvertakenTo
<1>8. /\ work.stuck \subseteq work.lit
      /\ \A c, b \in work.cmds : c.id = b.id => c = b
      /\ \A c \in work.cmds : c.id <= clicks
      /\ \A c \in work.cmds : c.latest => c.name \in work.lit
      /\ \A c, b \in work.cmds : c.latest /\ b.latest /\ c.name = b.name => c = b
      /\ \A c \in work.cmds : Commands[c.name].own = Unset => c.latest
      /\ Spins(work) /\ Lights(work)
  BY Typed DEF Orderly, CommandsInOrder, Numbered
<1>9. CommandsInOrder(work')
  <2>1. work'.stuck \subseteq work'.lit
    BY <1>2, <1>3, <1>8
  <2>2. ASSUME NEW e \in Overtaken(work.cmds, Rivals(n)) PROVE e.id # new.id
    <3>1. PICK c \in work.cmds : Same(e, c)
      BY <1>6
    <3>2. QED
      BY <1>1, <1>5, <1>8, <3>1 DEF Same
  <2>3. ASSUME NEW e \in Overtaken(work.cmds, Rivals(n)), NEW g \in Overtaken(work.cmds, Rivals(n)),
               e.id = g.id
        PROVE  e = g
    <3>1. PICK c \in work.cmds : e \in CommandRow /\ Same(e, c) /\ (e.latest <=> c.latest /\ c.name \notin Rivals(n))
      BY <1>6
    <3>2. PICK b \in work.cmds : g \in CommandRow /\ Same(g, b) /\ (g.latest <=> b.latest /\ b.name \notin Rivals(n))
      BY <1>6
    <3>3. c = b
      BY <1>8, <2>3, <3>1, <3>2 DEF Same
    <3>4. (e.latest <=> g.latest) /\ e.latest \in BOOLEAN /\ g.latest \in BOOLEAN
      BY <3>1, <3>2, <3>3 DEF CommandRow
    <3>5. QED
      BY <3>1, <3>2, <3>3, <3>4 DEF CommandRow, Same
  <2>4. \A e, g \in work'.cmds : e.id = g.id => e = g
    BY <1>2, <2>2, <2>3
  <2>5. ASSUME NEW e \in Overtaken(work.cmds, Rivals(n)), e.latest PROVE e.name \in work.lit /\ e.name # n
    BY <1>6, <1>8, <2>5 DEF Same
  <2>6. ASSUME NEW e \in Overtaken(work.cmds, Rivals(n)), NEW g \in Overtaken(work.cmds, Rivals(n)),
               e.latest, g.latest, e.name = g.name
        PROVE  e = g
    <3>1. e.id = g.id
      BY <1>6, <1>8, <2>6 DEF Same
    <3>2. QED
      BY <2>3, <3>1
  <2>7. \A e, g \in work'.cmds : e.latest /\ g.latest /\ e.name = g.name => e = g
    BY <1>1, <1>2, <2>5, <2>6
  <2>8. ASSUME NEW e \in work'.cmds, Commands[e.name].own = Unset PROVE e.latest
    <3>1. CASE e = new
      BY <1>1, <3>1
    <3>2. CASE e \in Overtaken(work.cmds, Rivals(n))
      BY <1>4, <1>5, <1>6, <1>8, <2>8, <3>2 DEF Same
    <3>3. QED
      BY <1>2, <3>1, <3>2
  <2>9. \A e \in work'.cmds : e.latest => e.name \in work'.lit
    BY <1>1, <1>2, <2>5
  <2>10. QED
    BY <2>1, <2>4, <2>7, <2>8, <2>9 DEF CommandsInOrder
<1>10. Lights(work')
  BY <1>2, <1>8 DEF Lights
<1>11. ASSUME NEW f \in work'.lit \ work'.stuck
       PROVE  \/ \E e \in work'.cmds : e.name = f /\ Goes(e)
              \/ f = "repair" /\ \E l \in work'.loads : l.latest /\ ~l.silent
  <2>1. CASE f = n
    BY <1>1, <1>2, <2>1 DEF Goes
  <2>2. CASE f # n
    <3>1. f \in work.lit \ work.stuck
      BY <1>2, <1>3, <1>11, <2>2
    <3>2. CASE \E l \in work.loads : f = "repair" /\ l.latest /\ ~l.silent
      BY <1>2, <3>2
    <3>3. ASSUME NEW c \in work.cmds, c.name = f, Goes(c)
          PROVE  \E e \in work'.cmds : e.name = f /\ Goes(e)
      <4>1. f \notin Rivals(n) /\ c.name \in Names
        <5>1. ASSUME f \in Rivals(n) PROVE FALSE
          <6>1. c.latest
            BY <1>4, <1>5, <3>3, <5>1 DEF Goes
          <6>2. QED
            BY <1>3, <1>11, <2>2, <3>3, <5>1, <6>1
        <5>2. QED
          BY <1>5, <5>1
      <4>2. PICK e \in Overtaken(work.cmds, Rivals(n)) : e.name = f /\ (e.latest <=> c.latest)
        BY <1>7, <3>3, <4>1
      <4>3. QED
        BY <1>2, <3>3, <4>2 DEF Goes
    <3>4. QED
      BY <1>8, <3>1, <3>2, <3>3 DEF Spins
  <2>3. QED
    BY <2>1, <2>2
<1>12. QED
  BY <1>9, <1>10, <1>11 DEF Orderly, Spins

LEMMA LaunchKeeps ==
  ASSUME PageInv, NEW n \in Names, Launch(n)
  PROVE  PageInv'
<1>1. /\ Rendered /\ surface' = surface /\ seen' = seen /\ news' = news /\ listed' = listed
      /\ clicks' = clicks + 1 /\ view' = view /\ n \notin work.lit
  BY DEF Launch, UserActs
<1>2. PICK r \in MaybeRepair, d \in MaybeDoc : Launches(n, r, d) /\ Aimed(Pressed(n, r, d))
  BY LaunchIs
<1>3. Orderly(work')
  BY <1>1, <1>2, LaunchOrderly
<1>4. /\ work' \in WorkRow /\ work'.loads = work.loads /\ work'.key = work.key /\ work'.lost = work.lost
      /\ work'.cmds = Overtaken(work.cmds, Rivals(n)) \cup {Pressed(n, r, d)}
  BY <1>2 DEF Launches
<1>5. LoadsInOrder(work')
  BY <1>4, Typed DEF LoadsInOrder
<1>6. work.cmds \in SUBSET CommandRow
  BY Typed, RowParts
<1>7. \A e \in work'.cmds : e = Pressed(n, r, d) \/ \E c \in work.cmds : Same(e, c)
  BY <1>4, <1>6, OvertakenFrom DEF Same
<1>8. StillWatched(work', seen)
  BY <1>1, <1>7, Typed DEF StillWatched, Same, Pressed, Rendered
<1>9. Numbered(work', clicks')
  <2>1. \A c \in work.cmds : c.id \in Nat
    BY <1>6 DEF CommandRow
  <2>2. QED
    BY <1>1, <1>7, <2>1, Typed DEF Numbered, Same, Pressed
<1>10. \A c \in work'.cmds : Aimed(c)
  BY <1>2, <1>7, Typed DEF Aimed, Same
<1>11. view.tab = "repair" /\ ~work'.lost /\ view.repair # view.address.repair => LoadingFor(work', view.address)
  BY <1>1, <1>4 DEF PageInv, RepairFollows, LoadingFor, Rendered
<1>12. ~(Mixed(view') /\ ~work'.lost /\ ~Loading(work'))
  BY <1>1, <1>4, RenderedFacts DEF Loading
<1>13. QED
  BY <1>1, <1>3, <1>4, <1>5, <1>8, <1>9, <1>10, <1>11, <1>12, Typed, RenderedStep

-----------------------------------------------------------------------------
(* The steps of the server and the clock. *)

(* The loads stay, and the page shows another repair or none at all.         *)
LEMMA ShowingKeeps ==
  ASSUME PageInv, Rendered, UNCHANGED <<surface, seen, listed, clicks>>,
         news' \subseteq {"object", "documents"},
         Fine(work'), work'.loads = work.loads, work'.lost = work.lost,
         view' \in Views, view'.tab = view.tab, view'.address = view.address,
         view' = view \/ ~Mixed(view') \/ view'.doc = view.doc
  PROVE  PageInv'
<1>1. /\ view \in Views /\ view' \in Views /\ clicks \in Nat /\ listed' \subseteq Docs
      /\ view = seen /\ TabFits(view)
      /\ ~work.lost /\ Mixed(view) => Loading(work)
  BY Typed, RenderedFacts
<1>2. view.tab = "repair" /\ ~work.lost /\ view.repair # view.address.repair => LoadingFor(work, view.address)
  BY <1>1 DEF PageInv, RepairFollows
<1>3. LoadingFor(work', view.address) <=> LoadingFor(work, view.address)
  BY DEF LoadingFor
<1>4. Loading(work') <=> Loading(work)
  BY DEF Loading
<1>5. LoadingFor(work, view.address) => Loading(work)
  BY DEF Loading, LoadingFor
<1>6. view'.repair = view.repair /\ view'.doc = view.doc => view' = view
  BY <1>1 DEF Views
<1>7. ASSUME Mixed(view'), ~work'.lost, ~Loading(work')
      PROVE  /\ view'.repair # view.repair /\ TabFits(view')
             /\ view'.tab = "repair" => view'.repair # view'.address.repair
  <2>1. view' # view
    BY <1>1, <1>4, <1>7
  <2>2. view'.doc = view.doc /\ view'.repair # view.repair
    BY <1>6, <1>7, <2>1
  <2>3. TabFits(view')
    BY <1>1 DEF TabFits
  <2>4. view'.tab = "repair" => view'.repair # view'.address.repair
    BY <1>2, <1>4, <1>5, <1>7, <2>2
  <2>5. QED
    BY <2>2, <2>3, <2>4
<1>8. clicks' \in Nat /\ clicks <= clicks' /\ surface' = surface /\ seen' = seen
  BY <1>1
<1>9. /\ work' \in WorkRow /\ LoadsInOrder(work') /\ Orderly(work') /\ StillWatched(work', seen)
      /\ Numbered(work', clicks') /\ \A c \in work'.cmds : Aimed(c)
  BY DEF Fine, FineAt
<1>10. QED
  BY <1>1, <1>2, <1>3, <1>7, <1>8, <1>9, RenderedStep

LEMMA EndedFine ==
  ASSUME PageInv, NEW c \in work.cmds
  PROVE  Fine(Ended(work, c)) /\ Ended(work, c).loads = work.loads /\ Ended(work, c).lost = work.lost
BY Typed, WorkFine, EndedRow, EndedKeeps, FineStays DEF Keeps, Fine

LEMMA ReplyKeeps ==
  ASSUME PageInv, NEW c \in work.cmds, NEW ok \in BOOLEAN, Reply(c, ok)
  PROVE  PageInv'
<1> DEFINE does == Commands[c.name].does
<1>1. /\ Rendered /\ UNCHANGED <<surface, seen, listed, clicks>>
      /\ work' \in {Staged(work, c, "refresh"), Ended(work, c)}
  BY DEF Reply, Staged
<1>2. Fine(work') /\ work'.loads = work.loads /\ work'.lost = work.lost
  BY <1>1, EndedFine, StagedFine, WorkFine, Typed
<1>3. news' \subseteq {"object", "documents"}
  BY Typed DEF Reply
<1>4. view \in Views /\ view.doc \in MaybeDoc /\ Unset \in MaybeRepair /\ Unset \in MaybeDoc
  BY Typed, ViewParts DEF MaybeRepair, MaybeDoc
<1>5. does \in {"set", "resolve"} => c.repair \in Repairs
  BY Typed DEF Aimed
<1>6. /\ view' \in Views /\ view'.tab = view.tab /\ view'.address = view.address
      /\ view' = view \/ ~Mixed(view') \/ view'.doc = view.doc
  <2>1. CASE view' = view
    BY <1>4, <2>1
  <2>2. CASE does = "set" /\ view' = [view EXCEPT !.repair = c.repair]
    BY <1>4, <1>5, <2>2 DEF Views, MaybeRepair
  <2>3. CASE does = "resolve" /\ view' = [view EXCEPT !.repair = c.repair, !.doc = Resolved(c.repair, @)]
    <3> DEFINE d == Resolved(c.repair, view.doc)
    <3>1. d \in DocsOf(c.repair) \cup {Unset} /\ d \in MaybeDoc
      BY <1>4, <1>5, <2>3, DocumentFacts DEF MaybeDoc
    <3>2. view' = [view EXCEPT !.repair = c.repair, !.doc = d]
      BY <2>3
    <3> HIDE DEF d
    <3>3. /\ view' \in Views /\ view'.tab = view.tab /\ view'.address = view.address
          /\ view'.repair = c.repair /\ view'.doc = d
      BY <1>4, <1>5, <2>3, <3>1, <3>2 DEF Views, MaybeRepair
    <3>4. QED
      BY <3>1, <3>3 DEF Mixed
  <2>4. CASE view' = [view EXCEPT !.repair = Unset, !.doc = Unset]
    BY <1>4, <2>4 DEF Views, Mixed
  <2>5. QED
    BY <2>1, <2>2, <2>3, <2>4 DEF Reply
<1>7. QED
  BY <1>1, <1>2, <1>3, <1>6, ShowingKeeps

LEMMA RefreshedKeeps ==
  ASSUME PageInv, NEW c \in work.cmds, Refreshed(c)
  PROVE  PageInv'
<1>1. /\ Rendered /\ surface' = surface /\ seen' = seen /\ clicks' = clicks
      /\ news' \subseteq {"object", "documents"} /\ listed' \subseteq Docs
  BY Typed, PageAssumption DEF Refreshed
<1>2. CASE Opens(c)
  <2>1. c \in CommandRow /\ c.was \in Views
    BY Typed, RowParts DEF CommandRow
  <2>2. c.repair \in Repairs
    <3>1. c.repair \in MaybeRepair /\ Aimed(c)
      BY <2>1, Typed DEF CommandRow
    <3>2. QED
      BY <1>2, <3>1 DEF Opens, OpensNow, Aimed, MaybeRepair
  <2>3. OpenedDoc(c) \in MaybeDoc
    BY <2>1 DEF OpenedDoc, CommandRow, Views, MaybeDoc
  <2> DEFINE w == Staged(work, c, "open")
  <2>4. Fine(w)
    BY StagedFine, WorkFine, Typed
  <2>5. view' = OpenedView(view, c.repair, OpenedDoc(c)) /\ work' = Opened(w, c.repair, OpenedDoc(c), c.id)
    BY <1>2 DEF Refreshed, Staged
  <2> HIDE DEF w
  <2>6. TurnsTo(w, work', c.repair)
    <3>1. c.id \in Nat
      BY <2>1 DEF CommandRow
    <3>2. QED
      BY <2>2, <2>3, <2>4, <2>5, <3>1, OpenedKeeps, Typed DEF Fine, FineAt
  <2>7. QED
    BY <1>1, <2>2, <2>3, <2>4, <2>5, <2>6, Typed, TurningKeeps
<1>3. CASE ~Opens(c)
  <2>1. view' = view /\ work' = Ended(work, c)
    BY <1>3 DEF Refreshed
  <2>2. Fine(work') /\ work'.loads = work.loads /\ work'.lost = work.lost
    BY <2>1, EndedFine
  <2>3. /\ work' \in WorkRow /\ LoadsInOrder(work') /\ Orderly(work') /\ StillWatched(work', seen)
        /\ Numbered(work', clicks') /\ \A e \in work'.cmds : Aimed(e)
    BY <1>1, <2>2 DEF Fine, FineAt
  <2>4. view = seen
    BY <1>1 DEF Rendered
  <2>5. view.tab = "repair" /\ ~work'.lost /\ view.repair # view.address.repair => LoadingFor(work', view.address)
    BY <2>2, <2>4 DEF PageInv, RepairFollows, LoadingFor
  <2>6. ~(Mixed(view') /\ ~work'.lost /\ ~Loading(work'))
    BY <1>1, <2>1, <2>2, RenderedFacts DEF Loading
  <2>7. QED
    BY <1>1, <2>1, <2>3, <2>5, <2>6, Typed, RenderedStep
<1>4. QED
  BY <1>2, <1>3

LEMMA RepairAnswerKeeps ==
  ASSUME PageInv, NEW l \in work.loads, NEW how \in {"ok", "missing", "error"}, RepairAnswer(l, how)
  PROVE  PageInv'
<1>1. /\ Rendered /\ UNCHANGED <<surface, seen, listed, clicks>> /\ work' = Answered(work, l, how)
      /\ news' \subseteq {"object", "documents"}
  BY Typed DEF RepairAnswer
<1>2. /\ Keeps(work, work')
      /\ work'.lost <=> work.lost \/ (l.latest /\ how = "error")
      /\ ~l.latest => work'.loads = work.loads \ {l}
  BY <1>1, AnsweredKeeps, Typed
<1>3. Fine(work')
  BY <1>2, WorkFine, FineStays DEF Fine
<1>4. /\ work' \in WorkRow /\ LoadsInOrder(work') /\ Orderly(work') /\ StillWatched(work', seen)
      /\ Numbered(work', clicks') /\ \A e \in work'.cmds : Aimed(e)
  BY <1>1, <1>3 DEF Fine, FineAt
<1>5. /\ view \in Views /\ view.doc \in MaybeDoc /\ Unset \in MaybeRepair /\ Unset \in MaybeDoc /\ view = seen
      /\ l \in LoadRow /\ \A m \in work.loads : m.latest /\ l.latest => m = l
  BY <1>1, Typed, ViewParts, RowParts DEF MaybeRepair, MaybeDoc, LoadsInOrder, Rendered
<1>6. view.tab = "repair" /\ ~work.lost /\ view.repair # view.address.repair => LoadingFor(work, view.address)
  BY <1>5 DEF PageInv, RepairFollows
<1>7. ASSUME view' = view, ~l.latest \/ how = "error" PROVE PageInv'
  <2>1. view.tab = "repair" /\ ~work'.lost /\ view.repair # view.address.repair => LoadingFor(work', view.address)
    BY <1>2, <1>6, <1>7 DEF LoadingFor
  <2>2. ~work.lost /\ Mixed(view) => Loading(work)
    BY <1>1, RenderedFacts
  <2>3. ~(Mixed(view') /\ ~work'.lost /\ ~Loading(work'))
    BY <1>2, <1>7, <2>2 DEF Loading
  <2>4. QED
    BY <1>1, <1>4, <1>5, <1>7, <2>1, <2>3, Typed, RenderedStep
<1>8. ASSUME l.latest, view' \in Views, ~Mixed(view'),
             view' = view /\ view.tab = "repair" => view.repair = l.repair \/ ~Leaves(l)
      PROVE  PageInv'
  <2>1. view' = view /\ ~work'.lost /\ view.tab = "repair" /\ view.repair # view.address.repair =>
          LoadingFor(work', view.address)
    BY <1>2, <1>5, <1>6, <1>8 DEF LoadingFor
  <2>2. QED
    BY <1>1, <1>4, <1>5, <1>8, <2>1, Typed, RenderedStep
<1>9. CASE ~l.latest \/ how = "error"
  <2>1. view' = view
    BY <1>9 DEF RepairAnswer
  <2>2. QED
    BY <1>7, <1>9, <2>1
<1>10. CASE l.latest /\ how = "ok"
  <2> DEFINE d == Resolved(l.repair, l.doc)
  <2>1. l.repair \in Repairs /\ l.doc \in MaybeDoc
    BY <1>5 DEF LoadRow
  <2>2. d \in DocsOf(l.repair) \cup {Unset} /\ d \in MaybeDoc
    BY <2>1, DocumentFacts DEF MaybeDoc
  <2>3. view' = [view EXCEPT !.repair = l.repair, !.doc = d]
    BY <1>10 DEF RepairAnswer
  <2> HIDE DEF d
  <2>4. view' \in Views /\ view'.repair = l.repair /\ view'.doc = d
    BY <1>5, <2>1, <2>2, <2>3 DEF Views, MaybeRepair
  <2>5. ~Mixed(view')
    BY <2>2, <2>4 DEF Mixed
  <2>6. QED
    BY <1>8, <1>10, <2>4, <2>5
<1>11. CASE l.latest /\ how = "missing" /\ Leaves(l)
  <2>1. view' = [tab |-> "documents", address |-> Away, repair |-> Unset, doc |-> Unset]
    BY <1>11 DEF RepairAnswer
  <2>2. view' \in Views /\ ~Mixed(view') /\ view'.tab = "documents"
    BY <1>5, <2>1, AddressesMade DEF Views, Mixed
  <2>3. QED
    BY <1>8, <1>11, <2>2
<1>12. CASE l.latest /\ how = "missing" /\ ~Leaves(l)
  <2>1. view' = [view EXCEPT !.repair = Unset, !.doc = Unset]
    BY <1>12 DEF RepairAnswer
  <2>2. view' \in Views /\ ~Mixed(view')
    BY <1>5, <2>1 DEF Views, Mixed
  <2>3. QED
    BY <1>8, <1>12, <2>2
<1>13. QED
  BY <1>9, <1>10, <1>11, <1>12

LEMMA TickKeeps ==
  ASSUME PageInv, Tick
  PROVE  PageInv'
<1>1. /\ Rendered /\ UNCHANGED <<surface, seen, view, clicks>> /\ view = seen /\ view \in Views /\ clicks \in Nat
  BY Typed DEF Tick, Rendered
<1>2. /\ view.tab = "repair" /\ ~work.lost /\ view.repair # view.address.repair => LoadingFor(work, view.address)
      /\ ~work.lost /\ Mixed(view) => Loading(work)
  BY <1>1, RenderedFacts DEF PageInv, RepairFollows
<1>3. CASE UNCHANGED work
  <2>1. listed' \subseteq Docs /\ news' \subseteq {"object", "documents"}
    BY Typed, PageAssumption DEF Tick
  <2>2. QED
    BY <1>1, <1>2, <1>3, <2>1, Typed, RenderedStep
<1>4. CASE /\ view.repair # Unset /\ UNCHANGED <<listed, news>>
           /\ work' = AskRepair(work, view.repair, view.doc, TRUE, "tick", 0)
  <2>1. view.repair \in Repairs /\ view.doc \in MaybeDoc
    BY <1>1, <1>4, ViewParts DEF MaybeRepair
  <2>2. Asks(work, work', view.repair, view.doc, TRUE, "tick", 0)
    BY <1>4, <2>1, AskedRow, Typed
  <2>3. Orderly(work') /\ LoadsInOrder(work')
    BY <1>4, <2>1, AskedKeeps, Typed
  <2>4. /\ work' \in WorkRow /\ work'.cmds = work.cmds /\ Loading(work')
        /\ work'.lost <=> work.lost \/ \E l \in work.loads : l.latest /\ l.repair # view.repair
    BY <2>2 DEF Asks, Loading, NewLoad
  <2>5. StillWatched(work', seen) /\ Numbered(work', clicks') /\ \A c \in work'.cmds : Aimed(c)
    BY <1>1, <2>4, Typed DEF StillWatched, Numbered
  <2>6. ~(view' = view /\ ~work'.lost /\ view.tab = "repair" /\ view.repair # view.address.repair)
    BY <1>2, <2>4 DEF LoadingFor
  <2>7. listed' \subseteq Docs /\ news' \subseteq {"object", "documents"}
    BY <1>4, Typed
  <2>8. ~(Mixed(view') /\ ~work'.lost /\ ~Loading(work'))
    BY <2>4
  <2>9. view' \in Views /\ clicks' \in Nat /\ clicks <= clicks' /\ surface' = surface /\ seen' = seen
    BY <1>1
  <2> HIDE <1>4
  <2>10. QED
    BY <1>1, <2>3, <2>4, <2>5, <2>6, <2>7, <2>8, <2>9, RenderedStep
<1>5. QED
  BY <1>3, <1>4 DEF Tick

-----------------------------------------------------------------------------
(* The effects, by what they do to the work and to the view. *)

Routed == Changed \cap {"tab", "address", "repair", "doc"} # {}
Listing == Changed \cap {"tab", "documents", "doc", "repair", "object"} # {}
Turned == IF Changed \cap Watches[surface] = {} THEN work ELSE Interrupted(work)
Steered == IF Routed THEN Followed(Turned, view) ELSE Turned
Straying == Listing /\ Strays(view)
Wanting == Listing /\ ~Strays(view) /\ Wanted(view)

LEMMA EffectsAre ==
  ASSUME RunPageEffects
  PROVE  /\ view' = IF Straying THEN [(IF Routed THEN Agreed(view) ELSE view) EXCEPT !.repair = Unset, !.doc = Unset]
                    ELSE IF Routed THEN Agreed(view) ELSE view
         /\ work' = IF Straying THEN Forgotten(Steered)
                    ELSE IF Wanting THEN AskRepair(Steered, OwnerOf[view.doc], view.doc, FALSE, "list", 0)
                    ELSE Steered
         /\ seen' = view /\ news' = {} /\ UNCHANGED <<surface, listed, clicks>>
BY DEF RunPageEffects, Routed, Listing, Turned, Steered, Straying, Wanting

LEMMA NotRouted ==
  ASSUME PageInv, ~Routed
  PROVE  view = seen
<1>1. view \in Views /\ seen \in Views
  BY DEF PageInv, PageTyped
<1>2. view.tab = seen.tab /\ view.address = seen.address /\ view.repair = seen.repair /\ view.doc = seen.doc
  BY DEF Routed, Changed
<1>3. QED
  BY <1>1, <1>2 DEF Views

LEMMA TurnedFine ==
  ASSUME PageInv
  PROVE  /\ FineAt(Turned, view) /\ Keeps(work, Turned)
         /\ Turned.loads = work.loads /\ Turned.lost = work.lost
<1>1. CASE Changed \cap Watches[surface] = {}
  <2>1. \A f \in Watches[surface] : view[f] = seen[f]
    <3>1. Watches[surface] \subseteq {"tab", "doc", "repair"}
      BY CommandFacts, Typed
    <3>2. QED
      BY <1>1, <3>1 DEF Changed
  <2>2. StillWatched(work, view)
    BY <2>1, Typed DEF StillWatched
  <2>3. QED
    BY <1>1, <2>2, Typed, KeepsStays DEF Turned, FineAt
<1>2. CASE Changed \cap Watches[surface] # {}
  <2>1. Turned = Interrupted(work)
    BY <1>2 DEF Turned
  <2> DEFINE names == {n \in Names : Commands[n].own # Unset}
  <2>2. /\ Turned \in WorkRow /\ Turned.loads = work.loads /\ Turned.lost = work.lost
        /\ Turned.cmds = Overtaken(work.cmds, names)
    BY <2>1, InterruptedRow, Typed
  <2>3. Keeps(work, Turned)
    BY <2>1, <2>2, InterruptedKeeps, Typed DEF Keeps
  <2>4. StillWatched(Turned, view)
    <3>1. ASSUME surface # "review", NEW e \in Turned.cmds PROVE ~e.latest
      <4>1. names = Names
        BY <3>1, CommandFacts, Typed
      <4>2. PICK c \in work.cmds : e.latest <=> c.latest /\ c.name \notin names
        BY <2>2, <3>1, OvertakenFrom, RowParts, Typed
      <4>3. c.name \in Names
        BY RowParts, Typed DEF CommandRow
      <4>4. QED
        BY <4>1, <4>2, <4>3
    <3>2. QED
      BY <3>1 DEF StillWatched
  <2>5. QED
    BY <2>2, <2>3, <2>4, NarrowedKeeps, Typed DEF Keeps, FineAt
<1>3. QED
  BY <1>1, <1>2

LEMMA SteeredFine ==
  ASSUME PageInv
  PROVE  /\ FineAt(Steered, view) /\ Keeps(Turned, Steered)
         /\ ~Routed => Steered = Turned
         /\ Routed => LET a == view.address
                      IN  /\ a.page = "documents" \/ (a.repair # Unset /\ Fits(view)) => Steered = Turned
                          /\ a.page = "repair" /\ a.repair # Unset /\ ~Fits(view) /\ ~Steered.lost =>
                               LoadingFor(Steered, a)
<1>1. FineAt(Turned, view) /\ Turned \in WorkRow /\ LoadsInOrder(Turned) /\ view \in Views /\ surface \in Surfaces
  BY TurnedFine, Typed DEF FineAt
<1>2. CASE Routed
  <2>1. Steered = Followed(Turned, view)
    BY <1>2 DEF Steered
  <2>2. Keeps(Turned, Followed(Turned, view))
    BY <1>1, FollowedKeeps
  <2>3. FineAt(Steered, view)
    BY <1>1, <2>1, <2>2, FineStays
  <2>4. QED
    BY <1>1, <1>2, <2>1, <2>2, <2>3, FollowedKeeps
<1>3. CASE ~Routed
  BY <1>1, <1>3, KeepsStays DEF Steered
<1>4. QED
  BY <1>2, <1>3

LEMMA EffectsFine ==
  ASSUME PageInv, RunPageEffects
  PROVE  /\ FineAt(work', view) /\ Keeps(work, work')
         /\ Wanting => Loading(work')
<1>1. FineAt(Steered, view) /\ Steered \in WorkRow /\ surface \in Surfaces /\ Keeps(work, Steered)
  BY TurnedFine, SteeredFine, KeepsTwice, Typed DEF FineAt
<1>2. CASE Straying
  <2>1. Keeps(Steered, Forgotten(Steered))
    BY <1>1, ForgottenRow, ForgottenKeeps DEF Keeps, Narrowed, Same
  <2>2. work' = Forgotten(Steered) /\ ~Wanting
    BY <1>2, EffectsAre DEF Straying, Wanting
  <2>3. QED
    BY <1>1, <2>1, <2>2, FineStays, KeepsTwice
<1>3. CASE Wanting
  <2> DEFINE r == OwnerOf[view.doc]
             t == AskRepair(Steered, r, view.doc, FALSE, "list", 0)
  <2>1. view.doc \in Docs /\ view.doc \in MaybeDoc /\ r \in Repairs
    BY <1>3, Typed, ViewParts, PageAssumption DEF Wanting, Wanted, MaybeDoc
  <2>2. work' = t
    BY <1>3, EffectsAre DEF Straying, Wanting
  <2> HIDE DEF r
  <2>3. Asks(Steered, t, r, view.doc, FALSE, "list", 0)
    BY <1>1, <2>1, AskedRow
  <2>4. (Orderly(Steered) => Orderly(t)) /\ LoadsInOrder(t)
    BY <1>1, <2>1, AskedKeeps
  <2> HIDE DEF t
  <2>5. Keeps(Steered, t)
    BY <2>3, <2>4 DEF Asks, Keeps, Narrowed, Same
  <2>6. Loading(t)
    BY <2>3 DEF Asks, Loading, NewLoad
  <2>7. QED
    BY <1>1, <2>2, <2>5, <2>6, FineStays, KeepsTwice
<1>4. CASE ~Straying /\ ~Wanting
  BY <1>1, <1>4, EffectsAre
<1>5. QED
  BY <1>2, <1>3, <1>4

LEMMA EffectsView ==
  ASSUME PageInv, RunPageEffects
  PROVE  /\ view' \in Views
         /\ Straying => view'.repair = Unset /\ view'.doc = Unset /\ view.doc # Unset
         /\ ~Straying => view' = IF Routed THEN Agreed(view) ELSE view
<1> DEFINE v == IF Routed THEN Agreed(view) ELSE view
<1>1. v \in Views /\ Unset \in MaybeRepair /\ Unset \in MaybeDoc
  BY Typed, AgreedFields DEF MaybeRepair, MaybeDoc
<1>2. view' = IF Straying THEN [v EXCEPT !.repair = Unset, !.doc = Unset] ELSE v
  BY EffectsAre
<1>3. Straying => view.doc # Unset
  BY DEF Straying, Strays
<1> SUFFICES /\ view' \in Views
             /\ Straying => view'.repair = Unset /\ view'.doc = Unset /\ view.doc # Unset
             /\ ~Straying => view' = v
  OBVIOUS
<1> HIDE DEF v
<1>4. QED
  BY <1>1, <1>2, <1>3 DEF Views

LEMMA EffectsFollow ==
  ASSUME PageInv, RunPageEffects, view' = view, ~work'.lost, view.tab = "repair",
         view.repair # view.address.repair
  PROVE  LoadingFor(work', view.address)
<1>1. ~Straying /\ ~Wanting
  BY DEF Straying, Wanting, Strays, Wanted
<1>2. work' = Steered /\ view = (IF Routed THEN Agreed(view) ELSE view)
  BY <1>1, EffectsAre, EffectsView
<1>3. CASE Routed
  <2>1. view.address.page = "repair" /\ view.address.repair # Unset /\ ~Fits(view)
    BY <1>2, <1>3, Typed, ViewParts, AddressParts, AgreedFields DEF Fits
  <2>2. QED
    BY <1>2, <1>3, <2>1, SteeredFine
<1>4. CASE ~Routed
  <2>1. view = seen /\ Steered = Turned
    BY <1>4, NotRouted, SteeredFine
  <2>2. ~work.lost /\ Turned.loads = work.loads
    BY <1>2, <2>1, TurnedFine
  <2>3. LoadingFor(work, view.address)
    BY <2>1, <2>2 DEF PageInv, RepairFollows
  <2>4. QED
    BY <1>2, <2>1, <2>2, <2>3 DEF LoadingFor
<1>5. QED
  BY <1>3, <1>4

LEMMA EffectsUnmix ==
  ASSUME PageInv, RunPageEffects, Mixed(view'), ~work'.lost, ~Loading(work')
  PROVE  FALSE
<1>1. ~Straying
  BY EffectsView DEF Mixed
<1>2. ~Wanting
  BY EffectsFine
<1>3. work' = Steered /\ view' = (IF Routed THEN Agreed(view) ELSE view)
  BY <1>1, <1>2, EffectsAre, EffectsView
<1>4. view \in Views /\ view.doc \in MaybeDoc /\ view.tab \in {"documents", "repair"}
      /\ view.address.page \in {"documents", "repair"}
  BY Typed, ViewParts, AddressParts
(* Where the load of the address was not asked for, the mix was there before. *)
<1>5. ASSUME Steered = Turned, Mixed(view)
      PROVE  /\ view.repair # seen.repair /\ TabFits(view)
             /\ view.tab = "repair" => view.repair # view.address.repair
  <2>1. ~work.lost /\ ~Loading(work)
    BY <1>3, <1>5, TurnedFine DEF Loading
  <2>2. QED
    BY <1>5, <2>1 DEF PageInv, MixedPasses
<1>6. CASE ~Routed
  BY <1>3, <1>5, <1>6, NotRouted, SteeredFine
<1>7. CASE Routed /\ view.address.page = "documents"
  <2>1. Mixed(view) /\ Steered = Turned
    BY <1>3, <1>4, <1>7, AgreedFields, SteeredFine DEF Mixed
  <2>2. view.repair # seen.repair /\ view.tab # "repair"
    BY <1>5, <1>7, <2>1 DEF TabFits
  <2>3. Listing
    BY <2>2 DEF Listing, Changed
  <2>4. view.doc # Unset /\ view.doc \in Docs /\ view.doc \notin DocsOf(view.repair)
    BY <1>4, <2>1 DEF Mixed, MaybeDoc
  <2>5. view.repair # OwnerOf[view.doc]
    BY <2>4 DEF DocsOf
  <2>6. QED
    BY <1>1, <1>2, <2>2, <2>3, <2>4, <2>5 DEF Straying, Wanting, Wanted
<1>8. CASE Routed /\ view.address.page = "repair" /\ view.address.repair = Unset
  BY <1>3, <1>4, <1>8, AgreedFields DEF Mixed
<1>9. CASE Routed /\ view.address.page = "repair" /\ view.address.repair # Unset /\ ~Fits(view)
  BY <1>3, <1>9, SteeredFine DEF LoadingFor, Loading
<1>10. CASE Routed /\ view.address.page = "repair" /\ view.address.repair # Unset /\ Fits(view)
  <2>1. view.repair = view.address.repair /\ view.address.doc \in {Unset, view.doc}
        /\ view.address.repair \in Repairs
    BY <1>4, <1>10, ViewParts, AddressParts DEF Fits, MaybeRepair
  <2>2. CASE view.address.doc = Unset
    BY <1>3, <1>4, <1>10, <2>1, <2>2, AgreedFields, DocumentFacts DEF Mixed
  <2>3. CASE view.address.doc # Unset
    <3>1. Mixed(view) /\ Steered = Turned
      BY <1>3, <1>4, <1>10, <2>1, <2>3, AgreedFields, SteeredFine DEF Mixed
    <3>2. QED
      BY <1>5, <1>10, <2>1, <3>1 DEF TabFits
  <2>4. QED
    BY <2>2, <2>3
<1>11. QED
  BY <1>4, <1>6, <1>7, <1>8, <1>9, <1>10

LEMMA RunPageEffectsKeeps ==
  ASSUME PageInv, RunPageEffects
  PROVE  PageInv'
<1>1. seen' = view /\ news' = {} /\ surface' = surface /\ listed' = listed /\ clicks' = clicks
  BY EffectsAre
<1>2. /\ LoadsInOrder(work)' /\ Orderly(work)' /\ StillWatched(work, seen)' /\ Numbered(work, clicks)'
      /\ (\A c \in work.cmds : Aimed(c))' /\ (work \in WorkRow)'
  BY <1>1, EffectsFine, WorkStays DEF FineAt
<1>3. view' \in Views
  BY EffectsView
<1>4. PageTyped'
  <2>1. Views' = Views
    BY DEF Views, MaybeRepair, MaybeDoc, Addresses
  <2>2. QED
    BY <1>1, <1>2, <1>3, <2>1, Typed DEF PageTyped
<1>5. EffectsDone'
  <2>1. ASSUME view' = view PROVE Agreed(view) = view
    <3>1. ~Straying
      BY <2>1, EffectsView
    <3>2. CASE Routed
      BY <2>1, <3>1, <3>2, EffectsView
    <3>3. CASE ~Routed
      BY <3>3, NotRouted DEF PageInv, EffectsDone
    <3>4. QED
      BY <3>2, <3>3
  <2>2. QED
    BY <1>1, <2>1 DEF EffectsDone, Agreed
<1>6. RepairFollows'
  BY <1>1, EffectsFollow DEF RepairFollows, LoadingFor, Leaves
<1>7. MixedPasses'
  BY EffectsUnmix DEF MixedPasses, Mixed, Loading, DocsOf
<1>8. QED
  BY <1>2, <1>4, <1>5, <1>6, <1>7 DEF PageInv

-----------------------------------------------------------------------------
LEMMA PageInvStarts == InitPage => PageInv
<1> SUFFICES ASSUME InitPage PROVE PageInv
  OBVIOUS
<1>1. /\ surface \in Surfaces /\ clicks = 0 /\ seen = view /\ news = {} /\ listed \in Lists
      /\ view = [tab |-> "documents", address |-> Away, repair |-> Unset, doc |-> Unset]
      /\ work = [loads |-> {}, cmds |-> {}, lit |-> {}, stuck |-> {}, key |-> <<>>, lost |-> FALSE]
  BY DEF InitPage
<1>2. /\ work \in WorkRow /\ work.loads = {} /\ work.cmds = {} /\ work.lit = {} /\ work.stuck = {}
      /\ work.lost = FALSE
  BY <1>1 DEF WorkRow, Keys
<1>3. view \in Views
  BY <1>1, AddressesMade DEF Views, MaybeRepair, MaybeDoc
<1>4. PageTyped
  BY <1>1, <1>2, <1>3, PageAssumption DEF PageTyped
<1>5. LoadsInOrder(work) /\ StillWatched(work, seen) /\ Numbered(work, clicks) /\ \A c \in work.cmds : Aimed(c)
  BY <1>2 DEF LoadsInOrder, StillWatched, Numbered
<1>6. Orderly(work)
  BY <1>2 DEF Orderly, CommandsInOrder, Lights, Spins
<1>7. EffectsDone
  BY <1>1 DEF EffectsDone, Agreed, Away
<1>8. RepairFollows /\ MixedPasses
  BY <1>1 DEF RepairFollows, MixedPasses, Mixed
<1>9. QED
  BY <1>4, <1>5, <1>6, <1>7, <1>8 DEF PageInv

LEMMA PageInvStays ==
  ASSUME PageInv, UNCHANGED pageVars
  PROVE  PageInv'
<1>1. /\ surface' = surface /\ view' = view /\ seen' = seen /\ news' = news /\ listed' = listed
      /\ work' = work /\ clicks' = clicks
  BY DEF pageVars
<1>2. /\ LoadsInOrder(work)' /\ Orderly(work)' /\ StillWatched(work, seen)' /\ Numbered(work, clicks)'
      /\ (\A c \in work.cmds : Aimed(c))' /\ (work \in WorkRow)'
  BY <1>1, WorkStays, Typed
<1>3. PageTyped'
  BY <1>1, <1>2 DEF PageInv, PageTyped, Views, MaybeRepair, MaybeDoc, Addresses
<1>4. EffectsDone'
  BY <1>1 DEF PageInv, EffectsDone, Agreed
<1>5. RepairFollows' /\ MixedPasses'
  BY <1>1 DEF PageInv, RepairFollows, LoadingFor, Leaves, MixedPasses, Mixed, Loading, TabFits, DocsOf
<1>6. QED
  BY <1>2, <1>3, <1>4, <1>5 DEF PageInv

LEMMA PageInvSteps == PageInv /\ [PageStep]_pageVars => PageInv'
<1> SUFFICES ASSUME PageInv, [PageStep]_pageVars PROVE PageInv'
  OBVIOUS
<1>1. ASSUME NEW r \in Repairs, NEW d \in DocsOf(r) \cup {Unset}, OpenRepair(r, d) PROVE PageInv'
  BY <1>1, OpenRepairKeeps
<1>2. ASSUME NEW t \in {"documents", "repair"}, ChangeTab(t) PROVE PageInv'
  BY <1>2, ChangeTabKeeps
<1>3. ASSUME NEW a \in Addresses, Back(a) PROVE PageInv'
  BY <1>3, BackKeeps
<1>4. ASSUME NEW n \in Names, Launch(n) PROVE PageInv'
  BY <1>4, LaunchKeeps
<1>5. ASSUME NEW l \in work.loads, NEW how \in {"ok", "missing", "error"}, RepairAnswer(l, how) PROVE PageInv'
  BY <1>5, RepairAnswerKeeps
<1>6. ASSUME NEW c \in work.cmds, Refreshed(c) PROVE PageInv'
  BY <1>6, RefreshedKeeps
<1>7. ASSUME NEW c \in work.cmds, NEW ok \in BOOLEAN, Reply(c, ok) PROVE PageInv'
  BY <1>7, ReplyKeeps
<1>8. CASE Tick
  BY <1>8, TickKeeps
<1>9. CASE RunPageEffects
  BY <1>9, RunPageEffectsKeeps
<1>10. CASE UNCHANGED pageVars
  BY <1>10, PageInvStays
<1>11. QED
  BY <1>1, <1>2, <1>3, <1>4, <1>5, <1>6, <1>7, <1>8, <1>9, <1>10 DEF PageStep, Answers, Commanded, Names

-----------------------------------------------------------------------------
(* What the invariant says at rest. *)

LEMMA PageTypes ==
  ASSUME PageInv
  PROVE  PageTypeOK
<1> DEFINE last == {l \in work.loads : l.latest}
<1>1. work.lit \subseteq Names \cup {"repair"} /\ work.cmds \in SUBSET CommandRow /\ view \in Views
      /\ news \subseteq {"object", "documents"} /\ listed \subseteq Docs
  BY Typed, RowParts
<1>2. work.stuck \subseteq work.lit
  BY Typed DEF Orderly, CommandsInOrder
<1>3. \A c \in work.cmds : c.stage \in {"request", "refresh", "open"}
  BY <1>1 DEF CommandRow
<1>4. Cardinality(last) <= 1
  <2>1. CASE last = {}
    BY <2>1, FS_EmptySet
  <2>2. CASE last # {}
    <3>1. PICK l \in last : TRUE
      BY <2>2
    <3>2. last = {l}
      BY <3>1, Typed DEF LoadsInOrder
    <3>3. Cardinality({l}) = 1
      BY FS_Singleton
    <3>4. QED
      BY <3>2, <3>3
  <2>3. QED
    BY <2>1, <2>2
<1>5. QED
  BY <1>1, <1>2, <1>3, <1>4 DEF PageTypeOK, Views, MaybeRepair, MaybeDoc, Names

LEMMA AddressAgreesAtRest ==
  ASSUME PageInv
  PROVE  AddressAgrees
<1> SUFFICES ASSUME Resting, ~work.lost
             PROVE  TabFits(view) /\ (view.tab = "repair" => Fits(view))
  BY DEF AddressAgrees, TabFits
<1>1. Rendered /\ ~Loading(work)
  BY DEF Resting, Loading
<1>2. TabFits(view) /\ view = seen /\ view \in Views /\ Agreed(view) = view
  BY <1>1, RenderedFacts, Typed DEF PageInv, EffectsDone
<1>3. ASSUME view.tab = "repair" PROVE Fits(view)
  <2>1. view.address.page = "repair"
    BY <1>2, <1>3 DEF TabFits
  <2>2. view.repair = view.address.repair
    BY <1>1, <1>2, <1>3 DEF PageInv, RepairFollows, Loading, LoadingFor
  <2>3. view.address.doc \in {Unset, view.doc}
    BY <1>2, <2>1, AgreedFields
  <2>4. QED
    BY <2>2, <2>3 DEF Fits
<1>4. QED
  BY <1>2, <1>3

(* At rest the page shows what its address names, what is selected is of one *)
(* repair and what is on ends, whatever the user did, however requests and   *)
(* loads were answered (the effects of useAppNavigation and                  *)
(* useWorkspaceDataLifecycle, loadRepairDetail, the hooks of the commands).   *)
THEOREM PageStaysTogether == PageSpec => []PageAgrees
<1>1. PageInv => PageAgrees
  <2> SUFFICES ASSUME PageInv PROVE PageAgrees
    OBVIOUS
  <2>1. OneRepair
    BY RenderedFacts DEF OneRepair, Resting, Mixed, Loading
  <2>2. SpinnersEnd
    BY Typed DEF SpinnersEnd, Orderly, Spins
  <2>3. QED
    BY <2>1, <2>2, PageTypes, AddressAgreesAtRest DEF PageAgrees
<1>2. QED
  BY <1>1, PageInvStarts, PageInvSteps, PTL DEF PageSpec

-----------------------------------------------------------------------------
(* A command's stage changes only by its own answers. *)

StagesHold(t, c) == \A d \in t.cmds : d.id = c.id => d.stage = c.stage

LEMMA NarrowedHolds ==
  ASSUME PageInv, NEW t, Narrowed(work, t), NEW c \in work.cmds
  PROVE  StagesHold(t, c)
BY Typed DEF Narrowed, Same, StagesHold, Orderly, CommandsInOrder

LEMMA StagedHolds ==
  ASSUME PageInv, NEW c \in work.cmds, NEW stage, NEW b \in work.cmds, b # c
  PROVE  StagesHold(Staged(work, c, stage), b)
<1> DEFINE e == [c EXCEPT !.stage = stage]
           cmds == (work.cmds \ {c}) \cup {e}
<1>1. c \in CommandRow
  BY RowParts, Typed
<1>2. e.id = c.id
  BY <1>1 DEF CommandRow
<1> HIDE DEF e
<1>3. Staged(work, c, stage).cmds = cmds
  BY Typed DEF Staged, WorkRow, e
<1>4. \A g \in cmds : g \in work.cmds \/ g = e
  OBVIOUS
<1> HIDE DEF cmds
<1>5. QED
  BY <1>2, <1>3, <1>4, Typed DEF StagesHold, Orderly, CommandsInOrder

(* What goes on is what its hook still watches. *)
LEMMA GoingStays ==
  ASSUME PageInv, Rendered, surface # "review", NEW c \in work.cmds, Goes(c)
  PROVE  ~Moved(c)
<1>1. Commands[c.name].own # Unset
  <2>1. c.name \in Names
    BY RowParts, Typed DEF CommandRow
  <2>2. QED
    BY <2>1, CommandFacts, Typed
<1>2. c.latest
  BY <1>1 DEF Goes
<1>3. QED
  BY <1>2, Typed DEF StillWatched, Moved, Rendered

LEMMA LateStepsStop ==
  ASSUME PageInv, [PageStep]_pageVars, surface # "review", NEW c \in work.cmds, Moved(c)
  PROVE  StagesHold(work', c)
<1>1. ASSUME Keeps(work, work') PROVE StagesHold(work', c)
  BY <1>1, NarrowedHolds DEF Keeps
<1>2. ASSUME work' = work PROVE StagesHold(work', c)
  BY <1>1, <1>2, KeepsStays, Typed
<1>3. ASSUME NEW r \in Repairs, NEW d \in DocsOf(r) \cup {Unset}, OpenRepair(r, d) PROVE StagesHold(work', c)
  <2>1. d \in MaybeDoc /\ work' = Opened(work, r, d, 0)
    BY <1>3, DocumentFacts DEF MaybeDoc, OpenRepair
  <2>2. TurnsTo(work, work', r)
    BY <2>1, OpenedKeeps, Typed
  <2>3. QED
    BY <1>1, <2>2 DEF TurnsTo
<1>4. ASSUME NEW t \in {"documents", "repair"}, ChangeTab(t) PROVE StagesHold(work', c)
  BY <1>2, <1>4 DEF ChangeTab
<1>5. ASSUME NEW a \in Addresses, Back(a) PROVE StagesHold(work', c)
  BY <1>2, <1>5 DEF Back
<1>6. ASSUME NEW n \in Names, Launch(n) PROVE StagesHold(work', c)
  <2>1. PICK r \in MaybeRepair, d \in MaybeDoc : Launches(n, r, d)
    BY <1>6, LaunchIs
  <2>2. work'.cmds = Overtaken(work.cmds, Rivals(n)) \cup {Pressed(n, r, d)}
    BY <2>1 DEF Launches
  <2>3. \A e \in work'.cmds : e = Pressed(n, r, d) \/ \E b \in work.cmds : Same(e, b)
    BY <2>2, OvertakenFrom, RowParts, Typed DEF Same
  <2>4. c.id \in Nat /\ c.id <= clicks /\ clicks \in Nat
    BY RowParts, Typed DEF CommandRow, Numbered
  <2>5. QED
    BY <2>3, <2>4, Typed DEF StagesHold, Same, Pressed, Orderly, CommandsInOrder
<1>7. ASSUME NEW l \in work.loads, NEW how \in {"ok", "missing", "error"}, RepairAnswer(l, how)
      PROVE  StagesHold(work', c)
  BY <1>1, <1>7, AnsweredKeeps, Typed DEF RepairAnswer
<1>8. ASSUME NEW b \in work.cmds PROVE Keeps(work, Ended(work, b))
  BY EndedRow, EndedKeeps, Typed DEF Keeps
<1>9. ASSUME NEW b \in work.cmds, Refreshed(b) PROVE StagesHold(work', c)
  <2>1. CASE Opens(b)
    <3> DEFINE w == Staged(work, b, "open")
    <3>1. b # c
      BY <1>9, <2>1, GoingStays DEF Refreshed, Opens
    <3>2. StagesHold(w, c)
      BY <3>1, StagedHolds
    <3>3. work' = Opened(w, b.repair, OpenedDoc(b), b.id)
      BY <1>9, <2>1 DEF Refreshed, Staged
    <3>4. b \in CommandRow /\ b.was \in Views /\ Aimed(b)
      BY RowParts, Typed DEF CommandRow
    <3>5. b.repair \in Repairs /\ b.id \in Nat /\ OpenedDoc(b) \in MaybeDoc
      <4>1. b.repair \in MaybeRepair /\ b.id \in Nat /\ b.doc \in MaybeDoc
        BY <3>4 DEF CommandRow
      <4>2. b.repair \in Repairs
        BY <2>1, <3>4, <4>1 DEF Opens, OpensNow, Aimed, MaybeRepair
      <4>3. OpenedDoc(b) \in MaybeDoc
        BY <3>4, <4>1 DEF OpenedDoc, Views, MaybeDoc
      <4>4. QED
        BY <4>1, <4>2, <4>3
    <3>6. w \in WorkRow
      BY StagedFine, WorkFine, Typed DEF Fine, FineAt
    <3> HIDE DEF w
    <3>7. work'.cmds = w.cmds
      BY <3>3, <3>5, <3>6, OpenedKeeps, Typed DEF TurnsTo
    <3>8. QED
      BY <3>2, <3>7 DEF StagesHold
  <2>2. CASE ~Opens(b)
    BY <1>1, <1>8, <1>9, <2>2 DEF Refreshed
  <2>3. QED
    BY <2>1, <2>2
<1>10. ASSUME NEW b \in work.cmds, NEW ok \in BOOLEAN, Reply(b, ok) PROVE StagesHold(work', c)
  <2>1. Rendered /\ (work' = Ended(work, b) \/ (Goes(b) /\ work' = Staged(work, b, "refresh")))
    BY <1>10 DEF Reply, Staged
  <2>2. CASE work' = Ended(work, b)
    BY <1>1, <1>8, <2>2
  <2>3. CASE Goes(b) /\ work' = Staged(work, b, "refresh")
    <3>1. b # c
      BY <2>1, <2>3, GoingStays
    <3>2. QED
      BY <2>3, <3>1, StagedHolds
  <2>4. QED
    BY <2>1, <2>2, <2>3
<1>11. CASE Tick
  <2>1. CASE work' = work
    BY <1>2, <2>1
  <2>2. CASE view.repair # Unset /\ work' = AskRepair(work, view.repair, view.doc, TRUE, "tick", 0)
    <3>1. view.repair \in Repairs /\ view.doc \in MaybeDoc
      BY <2>2, Typed, ViewParts DEF MaybeRepair
    <3>2. Asks(work, work', view.repair, view.doc, TRUE, "tick", 0)
      BY <2>2, <3>1, AskedRow, Typed
    <3>3. work'.cmds = work.cmds
      BY <3>2 DEF Asks
    <3>4. QED
      BY <3>3, Typed DEF StagesHold, Orderly, CommandsInOrder
  <2>3. QED
    BY <1>11, <2>1, <2>2 DEF Tick
<1>12. CASE RunPageEffects
  BY <1>1, <1>12, EffectsFine
<1>13. CASE UNCHANGED pageVars
  BY <1>2, <1>13 DEF pageVars
<1>14. QED
  BY <1>3, <1>4, <1>5, <1>6, <1>7, <1>9, <1>10, <1>11, <1>12, <1>13 DEF PageStep, Answers, Commanded, Names

(* Once what its hook watches has changed, a command neither shows nor opens *)
(* a repair, but those of the review (the request ids of useDocumentsWorkspace, *)
(* useRepairDocumentsWorkflow, useRepairEditingWorkflow and                  *)
(* useRepairWorkspaceActions).                                               *)
THEOREM LateCommandsStop == PageSpec => NoPullBack
<1>1. PageInv /\ [PageStep]_pageVars =>
        [surface # "review" =>
           \A c \in work.cmds : Moved(c) =>
             \A d \in work'.cmds : d.id = c.id => d.stage = c.stage]_pageVars
  BY LateStepsStop DEF StagesHold
<1>2. QED
  BY <1>1, PageInvStarts, PageInvSteps, PTL DEF PageSpec, NoPullBack
=============================================================================
