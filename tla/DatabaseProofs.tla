---------------------------- MODULE DatabaseProofs ----------------------------
(***************************************************************************)
(* The rows of the database: what migrations do to them (first part) and    *)
(* what users are shown of them (second part), for any number of rows; and   *)
(* its schema after any runs of the migrations (third part).                *)
(*                                                                         *)
(* The migrations keep RowsInv: the rows have the types of their tables, a  *)
(* table is finite, a job is about one document at most, and the keys and   *)
(* checks of the revision hold. What each data migration does is a lemma of *)
(* its own; UpgradeEffect and DowngradeEffect put them together.            *)
(***************************************************************************)
EXTENDS Migrations, MigrationRows, Reads, TLAPS, FiniteSetTheorems, WellFoundedInduction

LEMMA Smallest ==
  ASSUME NEW T \in SUBSET Nat, T # {}
  PROVE  \E x \in T : \A y \in T : x <= y
<1> DEFINE R == OpToRel(<, Nat)
<1>1. IsWellFoundedOn(R, Nat)
  BY NatLessThanWellFounded
<1>2. \A x, y \in Nat : <<x, y>> \in R <=> x < y
  BY DEF OpToRel
<1> HIDE DEF R
<1>3. PICK x \in T : \A y \in T : ~(<<y, x>> \in R)
  BY <1>1, WFMin
<1>4. ASSUME NEW y \in T PROVE x <= y
  <2>1. x \in Nat /\ y \in Nat /\ ~(y < x)
    BY <1>2, <1>3
  <2>2. QED
    BY <2>1
<1>5. QED
  BY <1>4

LEMMA AtMostOne ==
  ASSUME NEW S, IsFiniteSet(S)
  PROVE  Cardinality(S) <= 1 <=> \A x, y \in S : x = y
<1>1. Cardinality(S) \in Nat /\ (Cardinality(S) = 0 <=> S = {})
  BY FS_CardinalityType, FS_EmptySet
<1>2. ASSUME NEW x \in S, NEW y \in S, x # y PROVE Cardinality(S) > 1
  <2>1. IsFiniteSet({x, y}) /\ Cardinality({x, y}) = 2
    <3>1. IsFiniteSet({x}) /\ Cardinality({x}) = 1
      BY FS_Singleton
    <3>2. Cardinality({x} \cup {y}) = 2 /\ IsFiniteSet({x} \cup {y})
      BY <1>2, <3>1, FS_AddElement
    <3>3. {x, y} = {x} \cup {y}
      OBVIOUS
    <3>4. QED
      BY <3>2, <3>3
  <2>2. Cardinality({x, y}) <= Cardinality(S)
    BY FS_Subset
  <2>3. QED
    BY <1>1, <2>1, <2>2
<1>3. ASSUME \A x, y \in S : x = y PROVE Cardinality(S) <= 1
  <2>1. CASE S = {}
    BY <1>1, <2>1
  <2>2. CASE S # {}
    <3>1. PICK x \in S : S = {x}
      BY <1>3, <2>2
    <3>2. QED
      BY <3>1, FS_Singleton
  <2>3. QED
    BY <2>1, <2>2
<1>4. QED
  BY <1>1, <1>2, <1>3

\* The image of a finite set under a function.
LEMMA ImageIsFinite ==
  ASSUME NEW f, IsFiniteSet(DOMAIN f)
  PROVE  LET T == {f[x] : x \in DOMAIN f} IN IsFiniteSet(T) /\ Cardinality(T) <= Cardinality(DOMAIN f)
<1> DEFINE S == DOMAIN f
           T == {f[x] : x \in S}
           g == [x \in S |-> f[x]]
<1>1. g \in Surjection(S, T)
  BY DEF Surjection
<1>2. QED
  BY <1>1, FS_Surjection

NormRows == [scope : Scopes, name : Names, code : Codes]
CatalogRows == [scope : Scopes, name : Names]
DataRows == [emails : SUBSET Emails, norms : SUBSET NormRows, catalogs : SUBSET CatalogRows, jobs : SUBSET JobRows,
             conflicts : SUBSET ConflictRows, documents : SUBSET DocumentRows, source : SUBSET (Ids \cup {Gone})]

\* Tables are finite, and a job is about one document at most.
Finite(d) == IsFiniteSet(d.jobs) /\ IsFiniteSet(d.norms) /\ IsFiniteSet(d.conflicts)
OneDocumentEach(d) == \A j \in d.jobs : \A x, y \in j.document : x = y

\* What holds of rows at a revision, apart from its keys and checks.
Held(n, d) ==
  /\ d \in DataRows
  /\ Finite(d)
  /\ OneDocumentEach(d)
  /\ n < 4 => d.norms = {}
  /\ n = 0 => d.source = {}

RowsInv == engine \in Engines /\ revision \in 0 .. 20 /\ Held(revision, rows) /\ RowsFit(revision, rows)

\* RowsFit, table by table.
NormsFit(n, d) ==
  /\ n = 4 => \A x, y \in d.norms : x.code = y.code => x = y
  /\ n >= 5 => \A x, y \in d.norms : x.code = y.code /\ x.scope = y.scope => x = y
CatalogsFit(d) == \A x, y \in d.catalogs : x.scope = y.scope => x = y
JobsFit(n, d) == n >= 14 => \A id \in IdsOf(d.documents) \cup {Gone} : \A x, y \in ActiveOf(d, id) : x = y
KeysFit(n, d) == n >= 15 => /\ \A j \in d.jobs : j.document \subseteq IdsOf(d.documents)
                           /\ \A c \in d.conflicts : c.job \in IdsOf(d.jobs)
SourceFits(n, d) == n >= KeyedSourceSince => d.source \subseteq IdsOf(d.documents)
StatusesFit(n, d) == n >= 18 => \A c \in d.conflicts : c.status \in {"pending", "resolved"}

LEMMA ActiveIsFinite ==
  ASSUME NEW d, IsFiniteSet(d.jobs), NEW id
  PROVE  IsFiniteSet(ActiveOf(d, id)) /\ ActiveOf(d, id) \subseteq d.jobs
<1>1. ActiveOf(d, id) \subseteq d.jobs
  BY DEF ActiveOf
<1>2. QED
  BY <1>1, FS_Subset

LEMMA FitIsParts ==
  ASSUME NEW d, Finite(d), NEW n \in 0 .. 20
  PROVE  RowsFit(n, d) <=> /\ NormsFit(n, d) /\ CatalogsFit(d) /\ JobsFit(n, d)
                           /\ KeysFit(n, d) /\ SourceFits(n, d) /\ StatusesFit(n, d)
<1>1. \A id : Cardinality(ActiveOf(d, id)) <= 1 <=> \A x, y \in ActiveOf(d, id) : x = y
  BY ActiveIsFinite, AtMostOne DEF Finite
<1>2. n \in 4 .. 4 <=> n = 4
  OBVIOUS
<1>3. QED
  BY <1>1, <1>2 DEF RowsFit, NormsFit, CatalogsFit, JobsFit, KeysFit, SourceFits, StatusesFit

LEMMA EmptyRows ==
  /\ IdsOf({}) = {}
  /\ Ids \subseteq Nat /\ Gone \notin Ids /\ Gone \in Nat
  /\ \A j \in JobRows : j.id \in Nat /\ j.since \in Nat
  /\ \A x \in DocumentRows : x.id \in Ids
BY RowsAssumption DEF IdsOf, Ids, Gone, JobRows, DocumentRows

LEMMA RowsInitHolds == RowsInit => RowsInv
<1> SUFFICES ASSUME RowsInit PROVE RowsInv
  OBVIOUS
<1>1. /\ engine \in Engines /\ revision = 0 /\ rows \in DataRows
      /\ rows.emails = {} /\ rows.norms = {} /\ rows.catalogs = {} /\ rows.jobs = {}
      /\ rows.conflicts = {} /\ rows.documents = {} /\ rows.source = {}
  BY DEF RowsInit, DataRows
<1>2. Finite(rows)
  BY <1>1, FS_EmptySet DEF Finite
<1>3. RowsFit(0, rows)
  <2>1. NormsFit(0, rows) /\ CatalogsFit(rows) /\ JobsFit(0, rows) /\ KeysFit(0, rows) /\ StatusesFit(0, rows)
    BY <1>1 DEF NormsFit, CatalogsFit, JobsFit, KeysFit, StatusesFit
  <2>2. SourceFits(0, rows)
    BY <1>1 DEF SourceFits, KeyedSourceSince
  <2>3. QED
    BY <1>2, <2>1, <2>2, FitIsParts
<1>4. QED
  BY <1>1, <1>2, <1>3 DEF RowsInv, Held, OneDocumentEach

----------------------------------------------------------------------------
\* All tables but one stay.
Only(table, d, e) ==
  /\ table # "emails" => e.emails = d.emails
  /\ table # "norms" => e.norms = d.norms
  /\ table # "catalogs" => e.catalogs = d.catalogs
  /\ table # "jobs" => e.jobs = d.jobs
  /\ table # "conflicts" => e.conflicts = d.conflicts
  /\ table # "documents" => e.documents = d.documents
  /\ table # "source" => e.source = d.source

LEMMA TableReplaced ==
  ASSUME NEW d \in DataRows
  PROVE  /\ \A X \in SUBSET Emails : LET e == [d EXCEPT !.emails = X] IN
              e \in DataRows /\ e.emails = X /\ Only("emails", d, e)
         /\ \A X \in SUBSET NormRows : LET e == [d EXCEPT !.norms = X] IN
              e \in DataRows /\ e.norms = X /\ Only("norms", d, e)
         /\ \A X \in SUBSET CatalogRows : LET e == [d EXCEPT !.catalogs = X] IN
              e \in DataRows /\ e.catalogs = X /\ Only("catalogs", d, e)
         /\ \A X \in SUBSET JobRows : LET e == [d EXCEPT !.jobs = X] IN
              e \in DataRows /\ e.jobs = X /\ Only("jobs", d, e)
         /\ \A X \in SUBSET ConflictRows : LET e == [d EXCEPT !.conflicts = X] IN
              e \in DataRows /\ e.conflicts = X /\ Only("conflicts", d, e)
         /\ \A X \in SUBSET DocumentRows : LET e == [d EXCEPT !.documents = X] IN
              e \in DataRows /\ e.documents = X /\ Only("documents", d, e)
         /\ \A X \in SUBSET (Ids \cup {Gone}) : LET e == [d EXCEPT !.source = X] IN
              e \in DataRows /\ e.source = X /\ Only("source", d, e)
  BY DEF DataRows, Only

MailsOf(d) == {LowerCase(x) : x \in d.emails}
CodesOf(d) == {x.code : x \in d.norms}

\* 0005, and its downgrade.
LEMMA ScopedNormsEffect ==
  ASSUME NEW d \in DataRows, Finite(d)
  PROVE  LET e == ScopedNorms(d) IN
         /\ e \in DataRows /\ Finite(e) /\ Only("norms", d, e)
         /\ \A y \in e.norms : y.scope = DefaultScope /\ y.name = DefaultName
         /\ \A y \in e.norms : \E x \in d.norms : y.code = x.code
         /\ \A x, y \in e.norms : x.code = y.code => x = y
         /\ CodesOf(e) = CodesOf(d)
         /\ (\A x, y \in d.norms : x.code = y.code => x = y) => Cardinality(e.norms) = Cardinality(d.norms)
<1> DEFINE f == [x \in d.norms |-> InDefaultScope(x)]
           T == {InDefaultScope(x) : x \in d.norms}
<1>1. ScopedNorms(d) = [d EXCEPT !.norms = T]
  BY DEF ScopedNorms
<1>2. T = {f[x] : x \in d.norms} /\ DOMAIN f = d.norms /\ f \in [d.norms -> T]
  OBVIOUS
<1>3. /\ \A x \in d.norms : x \in NormRows /\ f[x] \in NormRows /\ f[x].code = x.code
      /\ \A x \in d.norms : f[x].scope = DefaultScope /\ f[x].name = DefaultName
  BY RowsAssumption DEF DataRows, NormRows, InDefaultScope
<1> HIDE DEF T, f
<1>4. T \subseteq NormRows
  BY <1>2, <1>3
<1>5. IsFiniteSet(T)
  BY <1>2, ImageIsFinite DEF Finite
<1>6. ScopedNorms(d) \in DataRows /\ ScopedNorms(d).norms = T /\ Only("norms", d, ScopedNorms(d))
  BY <1>1, <1>4, TableReplaced
<1>7. Finite(ScopedNorms(d))
  BY <1>5, <1>6 DEF Finite, Only
<1>8. ASSUME \A x, y \in d.norms : x.code = y.code => x = y
      PROVE  Cardinality(T) = Cardinality(d.norms)
  <2>1. f \in Surjection(d.norms, T)
    BY <1>2 DEF Surjection
  <2>2. f \in Injection(d.norms, T)
    BY <1>2, <1>3, <1>8 DEF Injection, IsInjective
  <2>3. QED
    BY <2>1, <2>2, FS_Surjection DEF Finite
<1>9. CodesOf(ScopedNorms(d)) = CodesOf(d)
  BY <1>2, <1>3, <1>6 DEF CodesOf
<1>10. \A y \in T : \E x \in d.norms : y = f[x]
  BY <1>2
<1>11. \A y \in T : y.scope = DefaultScope /\ y.name = DefaultName /\ \E x \in d.norms : y.code = x.code
  BY <1>3, <1>10
<1>12. \A x, y \in T : x.code = y.code => x = y
  BY <1>4, <1>11 DEF NormRows
<1>13. QED
  BY <1>6, <1>7, <1>8, <1>9, <1>11, <1>12

\* 0006
LEMMA CatalogsOfNormsEffect ==
  ASSUME NEW d \in DataRows, Finite(d)
  PROVE  LET e == CatalogsOfNorms(d) IN
         /\ e \in DataRows /\ Finite(e) /\ Only("catalogs", d, e)
         /\ (\A x, y \in d.norms : x.scope = y.scope => x.name = y.name) => CatalogsFit(e)
<1> DEFINE T == {[scope |-> x.scope, name |-> x.name] : x \in d.norms}
<1>1. CatalogsOfNorms(d) = [d EXCEPT !.catalogs = T]
  BY DEF CatalogsOfNorms
<1>2. T \subseteq CatalogRows
  BY DEF DataRows, NormRows, CatalogRows
<1>3. (\A x, y \in d.norms : x.scope = y.scope => x.name = y.name) => \A a, b \in T : a.scope = b.scope => a = b
  OBVIOUS
<1> HIDE DEF T
<1>4. CatalogsOfNorms(d) \in DataRows /\ CatalogsOfNorms(d).catalogs = T /\ Only("catalogs", d, CatalogsOfNorms(d))
  BY <1>1, <1>2, TableReplaced
<1>5. QED
  BY <1>3, <1>4 DEF Finite, Only, CatalogsFit

\* 0012
LEMMA LoweredEmailsEffect ==
  ASSUME NEW d \in DataRows, Finite(d)
  PROVE  LET e == LoweredEmails(d) IN
         /\ e \in DataRows /\ Finite(e) /\ Only("emails", d, e)
         /\ MailsOf(e) = MailsOf(d)
<1> DEFINE T == {LowerCase(x) : x \in d.emails}
<1>1. LoweredEmails(d) = [d EXCEPT !.emails = T]
  BY DEF LoweredEmails
<1>2. T \subseteq Emails /\ T = {LowerCase(x) : x \in T}
  BY DEF LowerCase, Emails
<1> HIDE DEF T
<1>3. LoweredEmails(d) \in DataRows /\ LoweredEmails(d).emails = T /\ Only("emails", d, LoweredEmails(d))
  BY <1>1, <1>2, TableReplaced
<1>4. QED
  BY <1>2, <1>3 DEF Finite, Only, T, MailsOf

\* The job that 0014 leaves active is one of them, a running one if there is one.
LEMMA Largest ==
  ASSUME NEW m \in Nat, NEW T \in SUBSET (0 .. m), T # {}
  PROVE  \E x \in T : \A y \in T : y <= x
<1> DEFINE U == {m - x : x \in T}
<1>1. U \in SUBSET Nat /\ U # {}
  <2>1. \A x \in 0 .. m : m - x \in Nat
    OBVIOUS
  <2>2. \A x \in T : m - x \in Nat
    BY <2>1
  <2>3. QED
    BY <2>2
<1>2. PICK u \in U : \A w \in U : u <= w
  <2> HIDE DEF U
  <2>1. QED
    BY <1>1, Smallest
<1>3. PICK x \in T : u = m - x
  OBVIOUS
<1>4. \A y \in T : m - x <= m - y
  BY <1>2, <1>3
<1>5. QED
  BY <1>4

LEMMA CanonicalIsOne ==
  ASSUME NEW js \in SUBSET JobRows, js # {}
  PROVE  /\ Canonical(js) \in js
         /\ (\E k \in js : k.status = "PROCESSING") => Canonical(js).status = "PROCESSING"
<1> DEFINE First(j) == \A k \in js : k.since < j.since \/ (k.since = j.since /\ j.id <= k.id)
           Last(j) == /\ j.status = "PROCESSING"
                      /\ \A k \in js : k.status = "PROCESSING" =>
                           k.since < j.since \/ (k.since = j.since /\ k.id <= j.id)
           running == \E k \in js : k.status = "PROCESSING"
<1>1. \A j \in js : j.since \in 0 .. 1 /\ j.id \in 0 .. 2 * MaxRows
  BY RowsAssumption DEF JobRows
<1>2. 2 * MaxRows \in Nat
  BY RowsAssumption
<1>3. ASSUME NEW ks \in SUBSET js, ks # {}
      PROVE  \E t \in 0 .. 1 : (\E k \in ks : k.since = t) /\ \A k \in ks : k.since <= t
  BY <1>1, <1>3
<1>4. ASSUME running PROVE \E j \in js : Last(j)
  <2> DEFINE ks == {k \in js : k.status = "PROCESSING"}
  <2>1. PICK t \in 0 .. 1 : (\E k \in ks : k.since = t) /\ \A k \in ks : k.since <= t
    BY <1>3, <1>4
  <2> DEFINE ls == {k \in ks : k.since = t}
             T == {k.id : k \in ls}
  <2>2. T \in SUBSET (0 .. 2 * MaxRows) /\ T # {}
    BY <1>1, <2>1
  <2>3. PICK x \in T : \A y \in T : y <= x
    <3> HIDE DEF T
    <3>1. QED
      BY <1>2, <2>2, Largest
  <2>4. PICK j \in ls : j.id = x
    OBVIOUS
  <2>5. ASSUME NEW k \in js, k.status = "PROCESSING"
        PROVE  k.since < j.since \/ (k.since = j.since /\ k.id <= j.id)
    <3>1. k \in ks /\ k.since <= t /\ j.since = t /\ k.since \in 0 .. 1
      BY <1>1, <2>1, <2>4, <2>5
    <3>2. k.since = t => k.id <= j.id
      BY <2>3, <2>4, <3>1
    <3>3. QED
      BY <3>1, <3>2
  <2>6. QED
    BY <2>4, <2>5
<1>5. \E j \in js : First(j)
  <2>1. PICK t \in 0 .. 1 : (\E k \in js : k.since = t) /\ \A k \in js : k.since <= t
    BY <1>3
  <2> DEFINE ls == {k \in js : k.since = t}
             T == {k.id : k \in ls}
  <2>2. T \in SUBSET Nat /\ T # {}
    BY <1>1, <2>1
  <2>3. PICK x \in T : \A y \in T : x <= y
    <3> HIDE DEF T
    <3>1. QED
      BY <2>2, Smallest
  <2>4. PICK j \in ls : j.id = x
    OBVIOUS
  <2>5. ASSUME NEW k \in js
        PROVE  k.since < j.since \/ (k.since = j.since /\ j.id <= k.id)
    <3>1. k.since <= t /\ j.since = t /\ k.since \in 0 .. 1
      BY <1>1, <2>1, <2>4
    <3>2. k.since = t => j.id <= k.id
      BY <2>3, <2>4
    <3>3. QED
      BY <3>1, <3>2
  <2>6. QED
    BY <2>4, <2>5
<1>6. Canonical(js) = CHOOSE j \in js : IF running THEN Last(j) ELSE First(j)
  BY DEF Canonical
<1> HIDE DEF First, Last, running
<1>7. Canonical(js) \in js /\ (running => Last(Canonical(js)))
  BY <1>4, <1>5, <1>6
<1>8. QED
  BY <1>7 DEF Last, running

\* 0014
LEMMA OneActiveJobEffect ==
  ASSUME NEW d \in DataRows, Finite(d)
  PROVE  LET e == OneActiveJobEach(d) IN
         /\ e \in DataRows /\ Finite(e) /\ Only("jobs", d, e)
         /\ IdsOf(e.jobs) = IdsOf(d.jobs)
         /\ OneDocumentEach(d) => OneDocumentEach(e)
         /\ \A id \in Ids \cup {Gone} :
              /\ \A x, y \in ActiveOf(e, id) : x = y
              /\ ActiveOf(d, id) # {} => ActiveOf(e, id) # {}
              /\ Running(ActiveOf(d, id)) # {} => Running(ActiveOf(e, id)) # {}
<1> DEFINE S == Superseded(d)
           Fails(j) == [j EXCEPT !.status = "FAILED"]
           f == [j \in S |-> Fails(j)]
           N == {Fails(j) : j \in S}
           T == (d.jobs \ S) \cup N
           e == OneActiveJobEach(d)
<1>1. e = [d EXCEPT !.jobs = T]
  BY DEF OneActiveJobEach
<1>2. S \subseteq d.jobs /\ d.jobs \subseteq JobRows
  BY DEF Superseded, DataRows
<1>3. ASSUME NEW j \in S
      PROVE  /\ Fails(j) \in JobRows /\ Fails(j).id = j.id /\ Fails(j).document = j.document
             /\ Fails(j).status = "FAILED"
  <2>1. j \in JobRows
    BY <1>2
  <2>2. QED
    BY <2>1 DEF JobRows, JobStatuses
<1>4. IsFiniteSet(S) /\ IsFiniteSet(d.jobs \ S)
  <2> HIDE DEF S
  <2>1. QED
    BY <1>2, FS_Subset DEF Finite
<1>5. IsFiniteSet(N)
  <2>1. N = {f[j] : j \in S} /\ DOMAIN f = S
    OBVIOUS
  <2> HIDE DEF f, N, S
  <2>2. QED
    BY <1>4, <2>1, ImageIsFinite
<1> HIDE DEF Fails
<1>6. IsFiniteSet(T)
  <2> HIDE DEF S, N
  <2>1. QED
    BY <1>4, <1>5, FS_Union
<1>7. T \in SUBSET JobRows
  BY <1>2, <1>3
<1>8. \A j \in T : j \in d.jobs \ S \/ (j.status = "FAILED" /\ \E k \in S : j = Fails(k))
  BY <1>3
<1>9. \A k \in S : Fails(k) \in T
  OBVIOUS
<1>a. d.jobs \ S \subseteq T
  OBVIOUS
<1> HIDE DEF T, S, N, f
<1>10. e \in DataRows /\ e.jobs = T /\ Only("jobs", d, e)
  BY <1>1, <1>7, TableReplaced
<1> HIDE DEF e
<1>11. Finite(e)
  BY <1>6, <1>10 DEF Finite, Only
<1>12. IdsOf(e.jobs) = IdsOf(d.jobs)
  <2>1. \A j \in T : \E k \in d.jobs : k.id = j.id
    BY <1>2, <1>3, <1>8
  <2>2. \A k \in d.jobs : \E j \in T : k.id = j.id
    BY <1>3, <1>9, <1>a
  <2>3. QED
    BY <1>10, <2>1, <2>2 DEF IdsOf
<1>13. OneDocumentEach(d) => OneDocumentEach(e)
  BY <1>2, <1>3, <1>8, <1>10 DEF OneDocumentEach
<1>14. ASSUME NEW id \in Ids \cup {Gone}
       PROVE  ActiveOf(e, id) = ActiveOf(d, id) \ S
  <2>1. ActiveOf(e, id) \subseteq ActiveOf(d, id) \ S
    BY <1>8, <1>10 DEF ActiveOf
  <2>2. ActiveOf(d, id) \ S \subseteq ActiveOf(e, id)
    BY <1>a, <1>10 DEF ActiveOf
  <2>3. QED
    BY <2>1, <2>2
<1>15. ASSUME NEW id \in Ids \cup {Gone}, NEW j \in ActiveOf(d, id)
       PROVE  j \in S <=> Cardinality(ActiveOf(d, id)) > 1 /\ j # Canonical(ActiveOf(d, id))
  <2>1. \A i \in Ids \cup {Gone} : j \in ActiveOf(d, i) <=> i = id
    BY DEF ActiveOf
  <2>2. j \in d.jobs
    BY DEF ActiveOf
  <2>3. QED
    BY <2>1, <2>2 DEF Superseded, S
<1>16. ASSUME NEW id \in Ids \cup {Gone}
       PROVE  /\ \A x, y \in ActiveOf(e, id) : x = y
              /\ ActiveOf(d, id) # {} => ActiveOf(e, id) # {}
              /\ Running(ActiveOf(d, id)) # {} => Running(ActiveOf(e, id)) # {}
  <2> DEFINE js == ActiveOf(d, id)
  <2>1. js \in SUBSET JobRows /\ IsFiniteSet(js)
    BY <1>2, ActiveIsFinite DEF Finite
  <2>2. Cardinality(js) \in Nat /\ (Cardinality(js) <= 1 <=> \A x, y \in js : x = y)
    BY <2>1, AtMostOne, FS_CardinalityType
  <2>3. ActiveOf(e, id) = {j \in js : ~(Cardinality(js) > 1 /\ j # Canonical(js))}
    BY <1>14, <1>15
  <2> HIDE DEF js
  <2>4. CASE Cardinality(js) <= 1
    <3>1. ActiveOf(e, id) = js
      BY <2>2, <2>3, <2>4
    <3>2. QED
      BY <2>2, <2>4, <3>1 DEF js
  <2>5. CASE Cardinality(js) > 1
    <3>1. js # {}
      BY <2>2, <2>5
    <3>2. /\ Canonical(js) \in js
          /\ (\E k \in js : k.status = "PROCESSING") => Canonical(js).status = "PROCESSING"
      BY <2>1, <3>1, CanonicalIsOne
    <3>3. ActiveOf(e, id) = {Canonical(js)}
      BY <2>3, <2>5, <3>2
    <3>4. QED
      BY <3>2, <3>3 DEF Running, js
  <2>6. QED
    BY <2>2, <2>4, <2>5
<1>17. QED
  BY <1>10, <1>11, <1>12, <1>13, <1>16 DEF e

\* 0015 takes the documents that are gone away from their jobs,
LEMMA LostDocumentsEffect ==
  ASSUME NEW d \in DataRows, Finite(d), OneDocumentEach(d)
  PROVE  LET e == WithoutLostDocuments(d) IN
         /\ e \in DataRows /\ Finite(e) /\ OneDocumentEach(e) /\ Only("jobs", d, e)
         /\ IdsOf(e.jobs) = IdsOf(d.jobs)
         /\ \A j \in e.jobs : j.document \subseteq IdsOf(d.documents)
         /\ \A id \in IdsOf(d.documents) :
              /\ (\A x, y \in ActiveOf(d, id) : x = y) => \A x, y \in ActiveOf(e, id) : x = y
              /\ ActiveOf(d, id) # {} => ActiveOf(e, id) # {}
              /\ Running(ActiveOf(d, id)) # {} => Running(ActiveOf(e, id)) # {}
<1> DEFINE present == IdsOf(d.documents)
           Kept(j) == [j EXCEPT !.document = @ \cap present]
           f == [j \in d.jobs |-> Kept(j)]
           T == {Kept(j) : j \in d.jobs}
           e == WithoutLostDocuments(d)
<1>1. e = [d EXCEPT !.jobs = T]
  BY DEF WithoutLostDocuments
<1>2. T = {f[j] : j \in d.jobs} /\ DOMAIN f = d.jobs
  OBVIOUS
<1>3. d.jobs \subseteq JobRows
  BY DEF DataRows
<1>4. ASSUME NEW j \in JobRows
      PROVE  /\ Kept(j) \in JobRows /\ Kept(j).id = j.id /\ Kept(j).status = j.status
             /\ Kept(j).document = j.document \cap present
  BY DEF JobRows
<1> HIDE DEF Kept
<1>5. \A j \in d.jobs : f[j] = Kept(j)
  OBVIOUS
<1> HIDE DEF f, T
<1>6. T \in SUBSET JobRows
  BY <1>2, <1>3, <1>4, <1>5
<1>7. IsFiniteSet(T)
  BY <1>2, ImageIsFinite DEF Finite
<1>8. e \in DataRows /\ e.jobs = T /\ Only("jobs", d, e)
  BY <1>1, <1>6, TableReplaced
<1>9. (\A k \in T : \E j \in d.jobs : k = Kept(j)) /\ \A j \in d.jobs : Kept(j) \in T
  BY <1>2, <1>5
<1> HIDE DEF e
<1>10. Finite(e)
  BY <1>7, <1>8 DEF Finite, Only
<1>11. OneDocumentEach(e)
  BY <1>3, <1>4, <1>8, <1>9 DEF OneDocumentEach
<1>12. IdsOf(e.jobs) = IdsOf(d.jobs)
  BY <1>3, <1>4, <1>8, <1>9 DEF IdsOf
<1>13. \A j \in e.jobs : j.document \subseteq present
  BY <1>3, <1>4, <1>8, <1>9
<1>14. ASSUME NEW id \in present
       PROVE  /\ \A j \in ActiveOf(d, id) : Kept(j) \in ActiveOf(e, id)
              /\ \A k \in ActiveOf(e, id) : \E j \in ActiveOf(d, id) : k = Kept(j)
  <2>1. ASSUME NEW j \in d.jobs PROVE j.document = {id} <=> j.document \cap present = {id}
    <3>1. \A x, y \in j.document : x = y
      BY DEF OneDocumentEach
    <3>2. j.document = {id} => j.document \cap present = {id}
      BY <1>14
    <3>3. ASSUME j.document \cap present = {id} PROVE j.document = {id}
      <4>1. id \in j.document
        BY <3>3
      <4>2. QED
        BY <3>1, <4>1
    <3>4. QED
      BY <3>2, <3>3
  <2>2. ASSUME NEW j \in d.jobs PROVE Kept(j) \in ActiveOf(e, id) <=> j \in ActiveOf(d, id)
    <3>1. j \in JobRows /\ Kept(j) \in e.jobs
      BY <1>3, <1>8, <1>9
    <3>2. Kept(j).document = {id} <=> j.document = {id}
      BY <1>4, <2>1, <3>1
    <3>3. Kept(j).status = j.status
      BY <1>4, <3>1
    <3>4. QED
      BY <3>1, <3>2, <3>3 DEF ActiveOf
  <2>3. \A k \in ActiveOf(e, id) : k \in e.jobs
    BY DEF ActiveOf
  <2>4. \A j \in ActiveOf(d, id) : j \in d.jobs
    BY DEF ActiveOf
  <2>5. QED
    BY <1>8, <1>9, <2>2, <2>3, <2>4
<1>15. ASSUME NEW id \in present
       PROVE  /\ (\A x, y \in ActiveOf(d, id) : x = y) => \A x, y \in ActiveOf(e, id) : x = y
              /\ ActiveOf(d, id) # {} => ActiveOf(e, id) # {}
              /\ Running(ActiveOf(d, id)) # {} => Running(ActiveOf(e, id)) # {}
  <2>1. \A j \in ActiveOf(d, id) : Kept(j).status = j.status
    BY <1>3, <1>4 DEF ActiveOf
  <2>2. QED
    BY <1>14, <2>1 DEF Running
<1>16. QED
  BY <1>8, <1>10, <1>11, <1>12, <1>13, <1>15 DEF e

\* and gives a job to the conflicts whose job is gone.
LEMMA ConflictJobsEffect ==
  ASSUME NEW d \in DataRows, Finite(d), OneDocumentEach(d)
  PROVE  LET e == WithConflictJobs(d) IN
         /\ e \in DataRows /\ Finite(e) /\ OneDocumentEach(e)
         /\ e.emails = d.emails /\ e.norms = d.norms /\ e.catalogs = d.catalogs
         /\ e.documents = d.documents /\ e.source = d.source
         /\ IdsOf(d.jobs) \subseteq IdsOf(e.jobs)
         /\ IdsOf(e.conflicts) = IdsOf(d.conflicts)
         /\ \A c \in e.conflicts : c.job \in IdsOf(e.jobs)
         /\ \A j \in e.jobs : j \in d.jobs \/ j.document = {}
         /\ \A id : ActiveOf(e, id) = ActiveOf(d, id)
<1> DEFINE O == Orphans(d)
           P == {Placeholder(c) : c \in O}
           p == [c \in O |-> Placeholder(c)]
           Owned(c) == IF c \in O THEN [c EXCEPT !.job = Placeholder(c).id] ELSE c
           g == [c \in d.conflicts |-> Owned(c)]
           C == {Owned(c) : c \in d.conflicts}
           e == WithConflictJobs(d)
<1>1. e = [d EXCEPT !.jobs = @ \cup P, !.conflicts = C]
  BY DEF WithConflictJobs
<1>2. /\ P = {p[c] : c \in O} /\ DOMAIN p = O /\ \A c \in O : p[c] = Placeholder(c)
      /\ C = {g[c] : c \in d.conflicts} /\ DOMAIN g = d.conflicts /\ \A c \in d.conflicts : g[c] = Owned(c)
  OBVIOUS
<1>3. O \subseteq d.conflicts /\ d.conflicts \subseteq ConflictRows /\ d.jobs \subseteq JobRows
  BY DEF Orphans, DataRows
<1>4. ASSUME NEW c \in ConflictRows
      PROVE  /\ Placeholder(c) \in JobRows
             /\ Placeholder(c).document = {} /\ Placeholder(c).status = "FAILED"
  <2>1. c.id \in 1 .. MaxRows /\ MaxRows \in Nat
    BY RowsAssumption DEF ConflictRows, Ids
  <2>2. MaxRows + c.id \in 1 .. 2 * MaxRows
    BY <2>1
  <2>3. QED
    BY <2>2 DEF Placeholder, JobRows, JobStatuses
<1>5. ASSUME NEW c \in ConflictRows
      PROVE  Owned(c) \in ConflictRows /\ Owned(c).id = c.id
  <2>1. Placeholder(c).id \in 0 .. 2 * MaxRows
    BY <1>4, RowsAssumption DEF JobRows
  <2>2. QED
    BY <2>1 DEF ConflictRows
<1>6. ASSUME NEW c \in d.conflicts
      PROVE  Owned(c).job \in IdsOf(d.jobs) \/ (c \in O /\ Owned(c).job = Placeholder(c).id)
  <2>1. c \in ConflictRows /\ (c \in O <=> c.job \notin IdsOf(d.jobs))
    BY <1>3 DEF Orphans
  <2>2. c \in O => Owned(c).job = Placeholder(c).id
    BY <2>1 DEF ConflictRows
  <2>3. QED
    BY <2>1, <2>2
<1> HIDE DEF p, P, g, C, Owned, O
<1>7. P \subseteq JobRows /\ C \subseteq ConflictRows
  BY <1>2, <1>3, <1>4, <1>5
<1>8. IsFiniteSet(O)
  BY <1>3, FS_Subset DEF Finite
<1>9. IsFiniteSet(P) /\ IsFiniteSet(C)
  BY <1>2, <1>8, ImageIsFinite DEF Finite
<1>10. /\ e \in DataRows /\ e.jobs = d.jobs \cup P /\ e.conflicts = C
       /\ e.emails = d.emails /\ e.norms = d.norms /\ e.catalogs = d.catalogs
       /\ e.documents = d.documents /\ e.source = d.source
  BY <1>1, <1>3, <1>7 DEF DataRows
<1> HIDE DEF e
<1>11. Finite(e)
  BY <1>9, <1>10, FS_Union DEF Finite
<1>12. /\ \A j \in e.jobs : j \in d.jobs \/ (j.document = {} /\ j.status = "FAILED")
       /\ d.jobs \subseteq e.jobs
       /\ \A c \in O : Placeholder(c) \in e.jobs
  BY <1>2, <1>3, <1>4, <1>10
<1>13. OneDocumentEach(e)
  BY <1>12 DEF OneDocumentEach
<1>14. \A id : ActiveOf(e, id) = ActiveOf(d, id)
  BY <1>12 DEF ActiveOf
<1>15. (\A c \in C : \E b \in d.conflicts : c = Owned(b)) /\ \A b \in d.conflicts : Owned(b) \in C
  BY <1>2
<1>16. IdsOf(e.conflicts) = IdsOf(d.conflicts)
  BY <1>3, <1>5, <1>10, <1>15 DEF IdsOf
<1>17. IdsOf(d.jobs) \subseteq IdsOf(e.jobs)
  BY <1>12 DEF IdsOf
<1>18. \A c \in e.conflicts : c.job \in IdsOf(e.jobs)
  <2>1. \A c \in O : Placeholder(c).id \in IdsOf(e.jobs)
    BY <1>12 DEF IdsOf
  <2>2. QED
    BY <1>6, <1>10, <1>15, <1>17, <2>1
<1>19. QED
  BY <1>10, <1>11, <1>12, <1>13, <1>14, <1>16, <1>17, <1>18 DEF e

\* 0017
LEMMA HealedSourceEffect ==
  ASSUME NEW d \in DataRows, Finite(d)
  PROVE  LET e == HealedSource(d) IN
         /\ e \in DataRows /\ Finite(e)
         /\ e.emails = d.emails /\ e.norms = d.norms /\ e.catalogs = d.catalogs
         /\ e.jobs = d.jobs /\ e.conflicts = d.conflicts
         /\ IdsOf(e.documents) = IdsOf(d.documents)
         /\ e.source \subseteq IdsOf(Eligible(e)) /\ e.source \subseteq IdsOf(e.documents)
         /\ d.source # {} /\ Eligible(d) # {} => e.source # {}
         /\ e.source # d.source => IdsOf({y \in e.documents : y.own /\ y.primary}) = e.source
<1> DEFINE e == HealedSource(d)
           R == Replacement(d)
           Heals(x) == IF x.own THEN [x EXCEPT !.primary = x.id \in R] ELSE x
           D == {Heals(x) : x \in d.documents}
<1>1. d.documents \subseteq DocumentRows /\ Eligible(d) \subseteq d.documents
  BY DEF DataRows, Eligible
<1>2. CASE \A id \in d.source : ValidSource(d, id)
  <2>1. e = d
    BY <1>2 DEF HealedSource
  <2>2. d.source \subseteq IdsOf(Eligible(d)) /\ d.source \subseteq IdsOf(d.documents)
    BY <1>2 DEF ValidSource, Eligible, IdsOf
  <2>3. QED
    BY <2>1, <2>2
<1>3. CASE ~(\A id \in d.source : ValidSource(d, id))
  <2>1. e = [d EXCEPT !.source = R, !.documents = D]
    BY <1>3 DEF HealedSource
  <2>2. ASSUME NEW x \in DocumentRows
        PROVE  /\ Heals(x) \in DocumentRows /\ Heals(x).id = x.id /\ Heals(x).own = x.own
               /\ Heals(x).kind = x.kind /\ Heals(x).archived = x.archived
               /\ x.own => (Heals(x).primary <=> x.id \in R)
    <3> DEFINE b == x.id \in R
    <3>1. b \in BOOLEAN /\ (b <=> x.id \in R) /\ Heals(x) = IF x.own THEN [x EXCEPT !.primary = b] ELSE x
      OBVIOUS
    <3> HIDE DEF b, R, Heals
    <3>2. QED
      BY <3>1 DEF DocumentRows
  <2>3. (\A y \in D : \E x \in d.documents : y = Heals(x)) /\ \A x \in d.documents : Heals(x) \in D
    OBVIOUS
  <2> HIDE DEF Heals, D
  <2>4. \A r \in R : \E x \in Eligible(d) : x.id = r
    BY DEF Replacement
  <2>5. R \subseteq Ids
    BY <1>1, <2>4 DEF DocumentRows
  <2>6. D \subseteq DocumentRows
    BY <1>1, <2>2, <2>3
  <2>7. /\ e \in DataRows /\ e.source = R /\ e.documents = D
        /\ e.emails = d.emails /\ e.norms = d.norms /\ e.catalogs = d.catalogs
        /\ e.jobs = d.jobs /\ e.conflicts = d.conflicts
    BY <2>1, <2>5, <2>6 DEF DataRows
  <2>8. Finite(e)
    BY <2>7 DEF Finite
  <2>9. Eligible(d) # {} => R # {}
    <3>1. SUFFICES ASSUME Eligible(d) # {} PROVE R # {}
      OBVIOUS
    <3> DEFINE primary == {x \in Eligible(d) : x.primary}
               candidates == IF primary = {} THEN Eligible(d) ELSE primary
               T == {x.id : x \in candidates}
    <3>2. candidates # {} /\ candidates \subseteq DocumentRows
      BY <1>1, <3>1
    <3>3. R = {x.id : x \in {y \in candidates : \A z \in candidates : z.id <= y.id}}
      BY DEF Replacement
    <3> HIDE DEF candidates
    <3>4. T \in SUBSET (0 .. MaxRows) /\ T # {} /\ MaxRows \in Nat
      BY <3>2, RowsAssumption DEF DocumentRows, Ids
    <3>5. PICK m \in T : \A n \in T : n <= m
      <4> HIDE DEF T
      <4>1. QED
        BY <3>4, Largest
    <3>6. PICK y \in candidates : y.id = m
      OBVIOUS
    <3>7. \A z \in candidates : z.id <= y.id
      BY <3>5, <3>6
    <3>8. QED
      BY <3>3, <3>7
  <2>10. IdsOf(e.documents) = IdsOf(d.documents)
    BY <1>1, <2>2, <2>3, <2>7 DEF IdsOf
  <2>11. R \subseteq IdsOf(Eligible(e)) /\ R \subseteq IdsOf(e.documents)
    <3>1. SUFFICES ASSUME NEW r \in R PROVE \E y \in Eligible(e) : y.id = r /\ y \in e.documents
      BY DEF IdsOf
    <3>2. PICK x \in Eligible(d) : x.id = r
      BY <2>4
    <3>3. Heals(x) \in Eligible(e) /\ Heals(x).id = r /\ Heals(x) \in e.documents
      BY <1>1, <2>2, <2>3, <2>7, <3>2 DEF Eligible
    <3>4. QED
      BY <3>3
  <2>12. IdsOf({y \in e.documents : y.own /\ y.primary}) = R
    <3>1. ASSUME NEW y \in e.documents, y.own, y.primary PROVE y.id \in R
      <4>1. PICK x \in d.documents : y = Heals(x)
        BY <2>3, <2>7
      <4>2. QED
        BY <1>1, <2>2, <3>1, <4>1
    <3>2. ASSUME NEW r \in R PROVE \E y \in e.documents : y.own /\ y.primary /\ y.id = r
      <4>1. PICK x \in Eligible(d) : x.id = r
        BY <2>4
      <4>2. Heals(x) \in e.documents /\ Heals(x).own /\ Heals(x).primary /\ Heals(x).id = r
        BY <1>1, <2>2, <2>3, <2>7, <4>1 DEF Eligible
      <4>3. QED
        BY <4>2
    <3>3. QED
      BY <3>1, <3>2 DEF IdsOf
  <2>13. QED
    BY <2>7, <2>8, <2>9, <2>10, <2>11, <2>12
<1>4. QED
  BY <1>2, <1>3

\* 0018
LEMMA HealedConflictsEffect ==
  ASSUME NEW d \in DataRows, Finite(d)
  PROVE  LET e == HealedConflicts(d) IN
         /\ e \in DataRows /\ Finite(e) /\ Only("conflicts", d, e)
         /\ IdsOf(e.conflicts) = IdsOf(d.conflicts)
         /\ \A c \in e.conflicts : c.status \in {"pending", "resolved"} /\ \E b \in d.conflicts : c.job = b.job
<1> DEFINE Heals(c) == [c EXCEPT !.status = HealedStatus(@)]
           f == [c \in d.conflicts |-> Heals(c)]
           C == {Heals(c) : c \in d.conflicts}
           e == HealedConflicts(d)
<1>1. e = [d EXCEPT !.conflicts = C]
  BY DEF HealedConflicts
<1>2. C = {f[c] : c \in d.conflicts} /\ DOMAIN f = d.conflicts /\ \A c \in d.conflicts : f[c] = Heals(c)
  OBVIOUS
<1>3. \A s : HealedStatus(s) \in {"pending", "resolved"}
  BY DEF HealedStatus
<1>4. ASSUME NEW c \in ConflictRows
      PROVE  /\ Heals(c) \in ConflictRows /\ Heals(c).id = c.id /\ Heals(c).job = c.job
             /\ Heals(c).status \in {"pending", "resolved"}
  BY <1>3 DEF ConflictRows, ConflictStatuses
<1> HIDE DEF Heals, f, C
<1>5. d.conflicts \subseteq ConflictRows
  BY DEF DataRows
<1>6. (\A c \in C : \E b \in d.conflicts : c = Heals(b)) /\ \A b \in d.conflicts : Heals(b) \in C
  BY <1>2
<1>7. C \in SUBSET ConflictRows
  BY <1>4, <1>5, <1>6
<1>8. IsFiniteSet(C)
  BY <1>2, ImageIsFinite DEF Finite
<1>9. e \in DataRows /\ e.conflicts = C /\ Only("conflicts", d, e)
  BY <1>1, <1>7, TableReplaced
<1> HIDE DEF e
<1>10. Finite(e)
  BY <1>8, <1>9 DEF Finite, Only
<1>11. IdsOf(e.conflicts) = IdsOf(d.conflicts)
  BY <1>4, <1>5, <1>6, <1>9 DEF IdsOf
<1>12. \A c \in e.conflicts : c.status \in {"pending", "resolved"} /\ \E b \in d.conflicts : c.job = b.job
  BY <1>4, <1>5, <1>6, <1>9
<1>13. QED
  BY <1>9, <1>10, <1>11, <1>12 DEF e

----------------------------------------------------------------------------
\* The parts are about the tables that they name.
LEMMA PartsOfTables ==
  ASSUME NEW d, NEW e, NEW n
  PROVE  /\ e.norms = d.norms => (NormsFit(n, e) <=> NormsFit(n, d))
         /\ e.catalogs = d.catalogs => (CatalogsFit(e) <=> CatalogsFit(d))
         /\ e.jobs = d.jobs /\ IdsOf(e.documents) = IdsOf(d.documents) => (JobsFit(n, e) <=> JobsFit(n, d))
         /\ e.jobs = d.jobs /\ IdsOf(e.documents) = IdsOf(d.documents) /\ e.conflicts = d.conflicts =>
              (KeysFit(n, e) <=> KeysFit(n, d))
         /\ e.source = d.source /\ IdsOf(e.documents) = IdsOf(d.documents) => (SourceFits(n, e) <=> SourceFits(n, d))
         /\ e.conflicts = d.conflicts => (StatusesFit(n, e) <=> StatusesFit(n, d))
<1>1. e.norms = d.norms => (NormsFit(n, e) <=> NormsFit(n, d))
  BY DEF NormsFit
<1>2. e.catalogs = d.catalogs => (CatalogsFit(e) <=> CatalogsFit(d))
  BY DEF CatalogsFit
<1>3. e.jobs = d.jobs => \A id : ActiveOf(e, id) = ActiveOf(d, id)
  BY DEF ActiveOf
<1>4. e.jobs = d.jobs /\ IdsOf(e.documents) = IdsOf(d.documents) => (JobsFit(n, e) <=> JobsFit(n, d))
  BY <1>3 DEF JobsFit
<1>5. e.jobs = d.jobs /\ IdsOf(e.documents) = IdsOf(d.documents) /\ e.conflicts = d.conflicts =>
        (KeysFit(n, e) <=> KeysFit(n, d))
  BY DEF KeysFit
<1>6. e.source = d.source /\ IdsOf(e.documents) = IdsOf(d.documents) => (SourceFits(n, e) <=> SourceFits(n, d))
  BY DEF SourceFits
<1>7. e.conflicts = d.conflicts => (StatusesFit(n, e) <=> StatusesFit(n, d))
  BY DEF StatusesFit
<1>8. QED
  BY <1>1, <1>2, <1>4, <1>5, <1>6, <1>7

\* Each part is new at one revision, and stays from then on.
LEMMA PartsOfRevisions ==
  ASSUME NEW d, NEW n \in 1 .. 20
  PROVE  /\ n # 4 => (NormsFit(n - 1, d) => NormsFit(n, d))
         /\ n # 14 => (JobsFit(n - 1, d) <=> JobsFit(n, d))
         /\ n # 15 => (KeysFit(n - 1, d) <=> KeysFit(n, d))
         /\ n # KeyedSourceSince => (SourceFits(n - 1, d) <=> SourceFits(n, d))
         /\ n # 18 => (StatusesFit(n - 1, d) <=> StatusesFit(n, d))
         /\ n \notin {4, 5} => (NormsFit(n - 1, d) <=> NormsFit(n, d))
         /\ JobsFit(n, d) => JobsFit(n - 1, d)
         /\ KeysFit(n, d) => KeysFit(n - 1, d)
         /\ SourceFits(n, d) => SourceFits(n - 1, d)
         /\ StatusesFit(n, d) => StatusesFit(n - 1, d)
<1>1. /\ n >= 5 <=> n - 1 >= 4
      /\ n # 4 => (n >= 5 <=> n - 1 >= 5 \/ n = 5)
      /\ n # 14 => (n >= 14 <=> n - 1 >= 14)
      /\ n # 15 => (n >= 15 <=> n - 1 >= 15)
      /\ n # 18 => (n >= 18 <=> n - 1 >= 18)
      /\ n # KeyedSourceSince => (n >= KeyedSourceSince <=> n - 1 >= KeyedSourceSince)
      /\ n - 1 >= 14 => n >= 14
      /\ n - 1 >= 15 => n >= 15
      /\ n - 1 >= 18 => n >= 18
      /\ n - 1 >= KeyedSourceSince => n >= KeyedSourceSince
      /\ n = 5 => n - 1 = 4
      /\ n \notin {4, 5} => (n >= 5 <=> n - 1 >= 5) /\ n - 1 # 4
  BY DEF KeyedSourceSince
<1>2. n # 4 => (NormsFit(n - 1, d) => NormsFit(n, d))
  BY <1>1 DEF NormsFit
<1>3. n \notin {4, 5} => (NormsFit(n - 1, d) <=> NormsFit(n, d))
  BY <1>1 DEF NormsFit
<1>4. /\ n # 14 => (JobsFit(n - 1, d) <=> JobsFit(n, d))
      /\ JobsFit(n, d) => JobsFit(n - 1, d)
  BY <1>1 DEF JobsFit
<1>5. /\ n # 15 => (KeysFit(n - 1, d) <=> KeysFit(n, d))
      /\ KeysFit(n, d) => KeysFit(n - 1, d)
  BY <1>1 DEF KeysFit
<1>6. /\ n # KeyedSourceSince => (SourceFits(n - 1, d) <=> SourceFits(n, d))
      /\ SourceFits(n, d) => SourceFits(n - 1, d)
  BY <1>1 DEF SourceFits
<1>7. /\ n # 18 => (StatusesFit(n - 1, d) <=> StatusesFit(n, d))
      /\ StatusesFit(n, d) => StatusesFit(n - 1, d)
  BY <1>1 DEF StatusesFit
<1>8. QED
  BY <1>2, <1>3, <1>4, <1>5, <1>6, <1>7

\* What an upgrade loses nothing of.
Survives(n, d, e) ==
  /\ MailsOf(e) = MailsOf(d)
  /\ CodesOf(e) = CodesOf(d)
  /\ IdsOf(d.jobs) \subseteq IdsOf(e.jobs)
  /\ IdsOf(d.conflicts) = IdsOf(e.conflicts)
  /\ IdsOf(d.documents) = IdsOf(e.documents)
  /\ \A id \in IF n = 15 THEN IdsOf(d.documents) ELSE Ids :
       /\ ActiveOf(d, id) # {} => ActiveOf(e, id) # {}
       /\ Running(ActiveOf(d, id)) # {} => Running(ActiveOf(e, id)) # {}

\* The catalogues can be told from the names of their norms.
Named(d) == \A x, y \in d.norms : x.scope = y.scope => x.name = y.name

LEMMA UpgradeEffect ==
  ASSUME NEW n \in 1 .. 20, NEW d, Held(n - 1, d), RowsFit(n - 1, d)
  PROVE  LET e == RowsUp(n, d) IN
         /\ Held(n, e) /\ Survives(n, d, e)
         /\ (n = 6 => Named(d)) => RowsFit(n, e)
<1> DEFINE e == RowsUp(n, d)
           Goal == Held(n, e) /\ Survives(n, d, e) /\ ((n = 6 => Named(d)) => RowsFit(n, e))
<1>1. /\ d \in DataRows /\ Finite(d) /\ OneDocumentEach(d) /\ (n < 5 => d.norms = {}) /\ (n = 1 => d.source = {})
      /\ n - 1 \in 0 .. 20 /\ n \in 0 .. 20
  BY DEF Held
<1>2. /\ NormsFit(n - 1, d) /\ CatalogsFit(d) /\ JobsFit(n - 1, d)
      /\ KeysFit(n - 1, d) /\ SourceFits(n - 1, d) /\ StatusesFit(n - 1, d)
  BY <1>1, FitIsParts
<1>3. NormsFit(n, d)
  <2>1. CASE n = 4
    BY <1>1, <2>1 DEF NormsFit
  <2>2. QED
    BY <1>2, <2>1, PartsOfRevisions
<1>4. n # 14 => JobsFit(n, d)
  BY <1>2, PartsOfRevisions
<1>5. n # 15 => KeysFit(n, d)
  BY <1>2, PartsOfRevisions
<1>6. n # 17 => SourceFits(n, d)
  <2>1. CASE n = 1
    BY <1>1, <2>1 DEF SourceFits
  <2>2. CASE n \notin {1, 17}
    BY <1>2, <2>2, PartsOfRevisions DEF KeyedSourceSince
  <2>3. QED
    BY <2>1, <2>2
<1>7. n # 18 => StatusesFit(n, d)
  BY <1>2, PartsOfRevisions
<1>8. n \notin {4, 5, 6, 12, 14, 15, 17, 18} \/ n \in {4, 5, 6, 12, 14, 15, 17, 18}
  OBVIOUS
<1>9. /\ n = 5 => e = ScopedNorms(d)
      /\ n = 6 => e = CatalogsOfNorms(d)
      /\ n = 12 => e = LoweredEmails(d)
      /\ n = 14 => e = OneActiveJobEach(d)
      /\ n = 15 => e = WithConflictJobs(WithoutLostDocuments(d))
      /\ n = 17 => e = HealedSource(d)
      /\ n = 18 => e = HealedConflicts(d)
      /\ n \notin {5, 6, 12, 14, 15, 17, 18} => e = d
  BY DEF RowsUp
<1> SUFFICES Goal
  OBVIOUS
<1> HIDE DEF e
<1>10. ASSUME NEW table, Only(table, d, e), e \in DataRows, Finite(e),
              table = "norms" => /\ n = 5 /\ NormsFit(n, e)
                                 /\ CodesOf(e) = CodesOf(d),
              table = "catalogs" => n = 6 /\ (Named(d) => CatalogsFit(e)),
              table = "emails" => MailsOf(e) = MailsOf(d),
              table = "jobs" => /\ n = 14 /\ JobsFit(n, e) /\ OneDocumentEach(e)
                                /\ IdsOf(d.jobs) = IdsOf(e.jobs)
                                /\ \A id \in Ids :
                                     /\ ActiveOf(d, id) # {} => ActiveOf(e, id) # {}
                                     /\ Running(ActiveOf(d, id)) # {} => Running(ActiveOf(e, id)) # {},
              table = "conflicts" => /\ n = 18 /\ KeysFit(n, e) /\ StatusesFit(n, e)
                                     /\ IdsOf(d.conflicts) = IdsOf(e.conflicts),
              table \in {"emails", "norms", "catalogs", "jobs", "conflicts"},
              n = 14 => table = "jobs",
              n = 18 => table = "conflicts",
              n \notin {15, 17}
       PROVE  Goal
  <2>1. /\ table # "norms" => e.norms = d.norms
        /\ table # "catalogs" => e.catalogs = d.catalogs
        /\ table # "emails" => e.emails = d.emails
        /\ table # "jobs" => e.jobs = d.jobs
        /\ table # "conflicts" => e.conflicts = d.conflicts
        /\ e.documents = d.documents /\ e.source = d.source
    BY <1>10 DEF Only
  <2>2. OneDocumentEach(e)
    BY <1>1, <1>10, <2>1 DEF OneDocumentEach
  <2>3. Held(n, e)
    BY <1>1, <1>10, <2>1, <2>2 DEF Held
  <2>4. table # "jobs" => \A id : ActiveOf(e, id) = ActiveOf(d, id)
    BY <2>1 DEF ActiveOf
  <2>5. Survives(n, d, e)
    BY <1>10, <2>1, <2>4 DEF Survives, MailsOf, CodesOf
  <2>6. NormsFit(n, e)
    BY <1>3, <1>10, <2>1, PartsOfTables
  <2>7. (n = 6 => Named(d)) => CatalogsFit(e)
    BY <1>2, <1>10, <2>1, PartsOfTables
  <2>8. JobsFit(n, e)
    BY <1>4, <1>10, <2>1, PartsOfTables
  <2>9. KeysFit(n, e)
    <3>1. CASE table = "jobs"
      BY <1>10, <3>1 DEF KeysFit
    <3>2. CASE table = "conflicts"
      BY <1>10, <3>2
    <3>3. CASE table \notin {"jobs", "conflicts"}
      BY <1>5, <1>10, <2>1, <3>3, PartsOfTables
    <3>4. QED
      BY <3>1, <3>2, <3>3
  <2>10. SourceFits(n, e)
    BY <1>6, <1>10, <2>1, PartsOfTables
  <2>11. StatusesFit(n, e)
    BY <1>7, <1>10, <2>1, PartsOfTables
  <2>12. QED
    BY <1>1, <1>10, <2>3, <2>5, <2>6, <2>7, <2>8, <2>9, <2>10, <2>11, FitIsParts
<1>11. CASE n \notin {5, 6, 12, 14, 15, 17, 18}
  <2>1. e = d
    BY <1>9, <1>11
  <2>2. RowsFit(n, d)
    BY <1>1, <1>2, <1>3, <1>4, <1>5, <1>6, <1>7, <1>11, FitIsParts
  <2>3. Held(n, d) /\ Survives(n, d, d)
    BY <1>1 DEF Held, Survives
  <2>4. QED
    BY <2>1, <2>2, <2>3
<1>12. CASE n = 5
  <2>1. /\ e \in DataRows /\ Finite(e) /\ Only("norms", d, e)
        /\ \A x, y \in e.norms : x.code = y.code => x = y
        /\ CodesOf(e) = CodesOf(d)
    BY <1>1, <1>9, <1>12, ScopedNormsEffect
  <2>2. NormsFit(n, e)
    BY <2>1 DEF NormsFit
  <2>3. QED
    BY <1>10, <1>12, <2>1, <2>2
<1>13. CASE n = 6
  <2>1. /\ e \in DataRows /\ Finite(e) /\ Only("catalogs", d, e)
        /\ Named(d) => CatalogsFit(e)
    BY <1>1, <1>9, <1>13, CatalogsOfNormsEffect DEF Named
  <2>2. QED
    BY <1>10, <1>13, <2>1
<1>14. CASE n = 12
  <2>1. /\ e \in DataRows /\ Finite(e) /\ Only("emails", d, e)
        /\ MailsOf(e) = MailsOf(d)
    BY <1>1, <1>9, <1>14, LoweredEmailsEffect
  <2>2. QED
    BY <1>10, <1>14, <2>1
<1>15. CASE n = 14
  <2>1. /\ e \in DataRows /\ Finite(e) /\ Only("jobs", d, e)
        /\ IdsOf(e.jobs) = IdsOf(d.jobs) /\ OneDocumentEach(e)
        /\ \A id \in Ids \cup {Gone} :
             /\ \A x, y \in ActiveOf(e, id) : x = y
             /\ ActiveOf(d, id) # {} => ActiveOf(e, id) # {}
             /\ Running(ActiveOf(d, id)) # {} => Running(ActiveOf(e, id)) # {}
    BY <1>1, <1>9, <1>15, OneActiveJobEffect
  <2>2. IdsOf(e.documents) \subseteq Ids
    BY <2>1 DEF DataRows, DocumentRows, IdsOf
  <2>3. JobsFit(n, e)
    BY <2>1, <2>2 DEF JobsFit
  <2>4. QED
    BY <1>10, <1>15, <2>1, <2>3
<1>16. CASE n = 15
  <2> DEFINE b == WithoutLostDocuments(d)
  <2>1. /\ b \in DataRows /\ Finite(b) /\ OneDocumentEach(b) /\ Only("jobs", d, b)
        /\ IdsOf(b.jobs) = IdsOf(d.jobs)
        /\ \A j \in b.jobs : j.document \subseteq IdsOf(d.documents)
        /\ \A id \in IdsOf(d.documents) :
             /\ (\A x, y \in ActiveOf(d, id) : x = y) => \A x, y \in ActiveOf(b, id) : x = y
             /\ ActiveOf(d, id) # {} => ActiveOf(b, id) # {}
             /\ Running(ActiveOf(d, id)) # {} => Running(ActiveOf(b, id)) # {}
    BY <1>1, LostDocumentsEffect
  <2> HIDE DEF b
  <2>2. e = WithConflictJobs(b)
    BY <1>9, <1>16 DEF b
  <2>3. /\ e \in DataRows /\ Finite(e) /\ OneDocumentEach(e)
        /\ e.emails = b.emails /\ e.norms = b.norms /\ e.catalogs = b.catalogs
        /\ e.documents = b.documents /\ e.source = b.source
        /\ IdsOf(b.jobs) \subseteq IdsOf(e.jobs)
        /\ IdsOf(e.conflicts) = IdsOf(b.conflicts)
        /\ \A c \in e.conflicts : c.job \in IdsOf(e.jobs)
        /\ \A j \in e.jobs : j \in b.jobs \/ j.document = {}
        /\ \A id : ActiveOf(e, id) = ActiveOf(b, id)
    BY <2>1, <2>2, ConflictJobsEffect
  <2>4. /\ e.emails = d.emails /\ e.norms = d.norms /\ e.catalogs = d.catalogs
        /\ e.documents = d.documents /\ e.source = d.source /\ b.conflicts = d.conflicts
    BY <2>1, <2>3 DEF Only
  <2>5. Held(n, e) /\ NormsFit(n, e) /\ CatalogsFit(e) /\ SourceFits(n, e) /\ StatusesFit(n, e)
    <3>1. Held(n, e)
      BY <1>1, <1>16, <2>3 DEF Held
    <3>2. NormsFit(n, e) /\ CatalogsFit(e)
      BY <1>2, <1>3, <2>4, PartsOfTables
    <3>3. SourceFits(n, e)
      BY <1>6, <1>16, <2>4, PartsOfTables
    <3>4. StatusesFit(n, e)
      BY <1>16 DEF StatusesFit
    <3>5. QED
      BY <3>1, <3>2, <3>3, <3>4
  <2>6. Survives(n, d, e)
    BY <1>16, <2>1, <2>3, <2>4 DEF Survives, MailsOf, CodesOf
  <2>7. \A j \in e.jobs : j.document \subseteq IdsOf(e.documents)
    BY <2>1, <2>3, <2>4
  <2>8. KeysFit(n, e)
    BY <2>3, <2>7 DEF KeysFit
  <2>9. JobsFit(n, e)
    <3>1. \A id \in IdsOf(d.documents) : \A x, y \in ActiveOf(e, id) : x = y
      BY <1>2, <1>16, <2>1, <2>3 DEF JobsFit
    <3>2. Gone \notin IdsOf(e.documents)
      BY <2>3 DEF DataRows, DocumentRows, IdsOf, Ids, Gone
    <3>3. ActiveOf(e, Gone) = {}
      BY <2>7, <3>2 DEF ActiveOf
    <3>4. QED
      BY <2>4, <3>1, <3>3 DEF JobsFit
  <2>10. QED
    BY <1>1, <2>3, <2>5, <2>6, <2>8, <2>9, FitIsParts
<1>17. CASE n = 17
  <2>1. /\ e \in DataRows /\ Finite(e)
        /\ e.emails = d.emails /\ e.norms = d.norms /\ e.catalogs = d.catalogs
        /\ e.jobs = d.jobs /\ e.conflicts = d.conflicts
        /\ IdsOf(e.documents) = IdsOf(d.documents)
        /\ e.source \subseteq IdsOf(e.documents)
    BY <1>1, <1>9, <1>17, HealedSourceEffect
  <2>2. Held(n, e)
    BY <1>1, <1>17, <2>1 DEF Held, OneDocumentEach
  <2>3. \A id : ActiveOf(e, id) = ActiveOf(d, id)
    BY <2>1 DEF ActiveOf
  <2>4. Survives(n, d, e)
    BY <2>1, <2>3 DEF Survives, MailsOf, CodesOf
  <2>5. /\ NormsFit(n, e) /\ CatalogsFit(e) /\ JobsFit(n, e) /\ KeysFit(n, e) /\ StatusesFit(n, e)
    BY <1>2, <1>3, <1>4, <1>5, <1>7, <1>17, <2>1, PartsOfTables
  <2>6. SourceFits(n, e)
    BY <2>1 DEF SourceFits
  <2>7. QED
    BY <1>1, <2>1, <2>2, <2>4, <2>5, <2>6, FitIsParts
<1>18. CASE n = 18
  <2>1. /\ e \in DataRows /\ Finite(e) /\ Only("conflicts", d, e)
        /\ IdsOf(e.conflicts) = IdsOf(d.conflicts)
        /\ \A c \in e.conflicts : c.status \in {"pending", "resolved"} /\ \E b \in d.conflicts : c.job = b.job
    BY <1>1, <1>9, <1>18, HealedConflictsEffect
  <2>2. e.jobs = d.jobs /\ e.documents = d.documents
    BY <2>1 DEF Only
  <2>3. KeysFit(n, e)
    BY <1>5, <1>18, <2>1, <2>2 DEF KeysFit
  <2>4. StatusesFit(n, e)
    BY <2>1 DEF StatusesFit
  <2>5. QED
    BY <1>10, <1>18, <2>1, <2>3, <2>4
<1>19. QED
  BY <1>11, <1>12, <1>13, <1>14, <1>15, <1>16, <1>17, <1>18

\* A downgrade takes away what the columns and the tables of its revision held.
LEMMA DowngradeEffect ==
  ASSUME NEW n \in 1 .. 20, NEW d, Held(n, d), RowsFit(n, d)
  PROVE  LET e == RowsDown(n, d) IN
         /\ Held(n - 1, e) /\ RowsFit(n - 1, e)
         /\ n = 5 /\ (\A x, y \in d.norms : x.code = y.code => x = y) => Cardinality(e.norms) = Cardinality(d.norms)
<1> DEFINE e == RowsDown(n, d)
           Goal == /\ Held(n - 1, e) /\ RowsFit(n - 1, e)
                   /\ n = 5 /\ (\A x, y \in d.norms : x.code = y.code => x = y) =>
                        Cardinality(e.norms) = Cardinality(d.norms)
<1>1. /\ d \in DataRows /\ Finite(d) /\ OneDocumentEach(d) /\ (n < 4 => d.norms = {})
      /\ n - 1 \in 0 .. 20 /\ n \in 0 .. 20
  BY DEF Held
<1>2. /\ NormsFit(n, d) /\ CatalogsFit(d) /\ JobsFit(n, d)
      /\ KeysFit(n, d) /\ SourceFits(n, d) /\ StatusesFit(n, d)
  BY <1>1, FitIsParts
<1>3. /\ n \notin {4, 5} => NormsFit(n - 1, d)
      /\ JobsFit(n - 1, d) /\ KeysFit(n - 1, d) /\ SourceFits(n - 1, d) /\ StatusesFit(n - 1, d)
  BY <1>2, PartsOfRevisions
<1>4. (n = 4 => ~(n - 1 = 4) /\ ~(n - 1 >= 5)) /\ (n = 5 => n - 1 = 4 /\ ~(n - 1 >= 5))
  OBVIOUS
<1>5. /\ n = 1 => e = [d EXCEPT !.emails = {}, !.jobs = {}, !.conflicts = {}, !.documents = {}, !.source = {}]
      /\ n = 2 => e = [d EXCEPT !.jobs = {[j EXCEPT !.document = {}] : j \in @}]
      /\ n = 3 => e = [d EXCEPT !.documents = {[x EXCEPT !.kind = "ORDER"] : x \in @}]
      /\ n = 4 => e = [d EXCEPT !.norms = {}]
      /\ n = 5 => e = ScopedNorms(d)
      /\ n = 6 => e = [d EXCEPT !.catalogs = {}]
      /\ n = 13 => e = [d EXCEPT !.jobs = {IF j.status = "PROCESSING" THEN [j EXCEPT !.since = 0] ELSE j : j \in @}]
      /\ n \notin {1, 2, 3, 4, 5, 6, 13} => e = d
  BY DEF RowsDown
<1> SUFFICES Goal
  OBVIOUS
<1> HIDE DEF e
\* Before revision 14 the keys of jobs and conflicts are not there.
<1>6. ASSUME n < 14, e \in DataRows, Finite(e), OneDocumentEach(e),
             n - 1 < 4 => e.norms = {}, n = 1 => e.source = {}, n # 5,
             NormsFit(n - 1, e), CatalogsFit(e), SourceFits(n - 1, e)
      PROVE  Goal
  <2>1. JobsFit(n - 1, e) /\ KeysFit(n - 1, e) /\ StatusesFit(n - 1, e)
    <3>1. ~(n - 1 >= 14) /\ ~(n - 1 >= 15) /\ ~(n - 1 >= 18)
      BY <1>6
    <3>2. QED
      BY <3>1 DEF JobsFit, KeysFit, StatusesFit
  <2>2. RowsFit(n - 1, e)
    BY <1>1, <1>6, <2>1, FitIsParts
  <2>3. Held(n - 1, e)
    BY <1>6 DEF Held
  <2>4. QED
    BY <1>6, <2>2, <2>3
<1>7. CASE n \notin {1, 2, 3, 4, 5, 6, 13}
  <2>1. e = d
    BY <1>5, <1>7
  <2>2. RowsFit(n - 1, d)
    BY <1>1, <1>2, <1>3, <1>7, FitIsParts
  <2>3. Held(n - 1, d)
    BY <1>1, <1>7 DEF Held
  <2>4. QED
    BY <1>7, <2>1, <2>2, <2>3
<1>8. CASE n = 1
  <2>1. /\ e \in DataRows /\ e.jobs = {} /\ e.conflicts = {} /\ e.source = {}
        /\ e.norms = d.norms /\ e.catalogs = d.catalogs
    BY <1>1, <1>5, <1>8 DEF DataRows
  <2>2. Finite(e) /\ OneDocumentEach(e)
    BY <1>1, <2>1, FS_EmptySet DEF Finite, OneDocumentEach
  <2>3. NormsFit(n - 1, e) /\ CatalogsFit(e)
    BY <1>2, <1>3, <1>8, <2>1, PartsOfTables
  <2>4. SourceFits(n - 1, e)
    BY <2>1 DEF SourceFits
  <2>5. QED
    BY <1>1, <1>6, <1>8, <2>1, <2>2, <2>3, <2>4
\* The jobs that lose a column.
<1>9. ASSUME NEW f, DOMAIN f = d.jobs, e = [d EXCEPT !.jobs = {f[j] : j \in d.jobs}], n \in {2, 13},
             \A j \in d.jobs : f[j] \in JobRows /\ f[j].document \subseteq j.document
      PROVE  Goal
  <2> DEFINE T == {f[j] : j \in d.jobs}
  <2>1. T \in SUBSET JobRows /\ \A k \in T : \E j \in d.jobs : k.document \subseteq j.document
    BY <1>9
  <2>2. IsFiniteSet(T)
    BY <1>1, <1>9, ImageIsFinite DEF Finite
  <2> HIDE DEF T
  <2>3. e = [d EXCEPT !.jobs = T]
    BY <1>9 DEF T
  <2>4. e \in DataRows /\ e.jobs = T /\ Only("jobs", d, e)
    BY <1>1, <2>1, <2>3, TableReplaced
  <2>5. /\ e.norms = d.norms /\ e.catalogs = d.catalogs /\ e.conflicts = d.conflicts
        /\ e.documents = d.documents /\ e.source = d.source
    BY <2>4 DEF Only
  <2>6. Finite(e) /\ OneDocumentEach(e)
    BY <1>1, <2>1, <2>2, <2>4, <2>5 DEF Finite, OneDocumentEach
  <2>7. NormsFit(n - 1, e) /\ CatalogsFit(e) /\ SourceFits(n - 1, e)
    <3>1. NormsFit(n - 1, d) /\ CatalogsFit(d) /\ SourceFits(n - 1, d)
      BY <1>2, <1>3, <1>9
    <3>2. QED
      BY <2>5, <3>1, PartsOfTables
  <2>8. (n - 1 < 4 => e.norms = {}) /\ n < 14 /\ n # 5 /\ n # 1
    BY <1>1, <1>9, <2>5
  <2>9. QED
    BY <1>6, <2>4, <2>6, <2>7, <2>8
<1>10. CASE n = 2
  <2> DEFINE f == [j \in d.jobs |-> [j EXCEPT !.document = {}]]
  <2>1. \A j \in d.jobs : f[j] \in JobRows /\ f[j].document \subseteq j.document
    BY <1>1 DEF DataRows, JobRows
  <2>2. e = [d EXCEPT !.jobs = {f[j] : j \in d.jobs}] /\ DOMAIN f = d.jobs
    <3>1. {f[j] : j \in d.jobs} = {[j EXCEPT !.document = {}] : j \in d.jobs}
      OBVIOUS
    <3> HIDE DEF f
    <3>2. e = [d EXCEPT !.jobs = {f[j] : j \in d.jobs}]
      BY <1>5, <1>10, <3>1
    <3>3. QED
      BY <3>2 DEF f
  <2> HIDE DEF f
  <2>3. QED
    BY <1>9, <1>10, <2>1, <2>2
<1>11. CASE n = 13
  <2> DEFINE f == [j \in d.jobs |-> IF j.status = "PROCESSING" THEN [j EXCEPT !.since = 0] ELSE j]
  <2>1. \A j \in d.jobs : f[j] \in JobRows /\ f[j].document \subseteq j.document
    BY <1>1 DEF DataRows, JobRows
  <2>2. e = [d EXCEPT !.jobs = {f[j] : j \in d.jobs}] /\ DOMAIN f = d.jobs
    <3>1. {f[j] : j \in d.jobs} = {IF j.status = "PROCESSING" THEN [j EXCEPT !.since = 0] ELSE j : j \in d.jobs}
      OBVIOUS
    <3> HIDE DEF f
    <3>2. e = [d EXCEPT !.jobs = {f[j] : j \in d.jobs}]
      BY <1>5, <1>11, <3>1
    <3>3. QED
      BY <3>2 DEF f
  <2> HIDE DEF f
  <2>3. QED
    BY <1>9, <1>11, <2>1, <2>2
<1>12. CASE n = 3
  <2> DEFINE Plain(x) == [x EXCEPT !.kind = "ORDER"]
             D == {Plain(x) : x \in d.documents}
  <2>1. d.documents \subseteq DocumentRows
    BY <1>1 DEF DataRows
  <2>2. \A x \in DocumentRows : Plain(x) \in DocumentRows /\ Plain(x).id = x.id
    BY DEF DocumentRows, DocumentKinds
  <2>3. (\A y \in D : \E x \in d.documents : y = Plain(x)) /\ \A x \in d.documents : Plain(x) \in D
    OBVIOUS
  <2>4. e = [d EXCEPT !.documents = D]
    BY <1>5, <1>12
  <2> HIDE DEF Plain, D
  <2>5. D \in SUBSET DocumentRows
    BY <2>1, <2>2, <2>3
  <2>6. e \in DataRows /\ e.documents = D /\ Only("documents", d, e)
    BY <1>1, <2>4, <2>5, TableReplaced
  <2>7. /\ e.norms = d.norms /\ e.catalogs = d.catalogs /\ e.conflicts = d.conflicts
        /\ e.jobs = d.jobs /\ e.source = d.source
    BY <2>6 DEF Only
  <2>8. IdsOf(e.documents) = IdsOf(d.documents)
    BY <2>1, <2>2, <2>3, <2>6 DEF IdsOf
  <2>9. Finite(e) /\ OneDocumentEach(e)
    BY <1>1, <2>7 DEF Finite, OneDocumentEach
  <2>10. NormsFit(n - 1, e) /\ CatalogsFit(e) /\ SourceFits(n - 1, e)
    BY <1>2, <1>3, <1>12, <2>7, <2>8, PartsOfTables
  <2>11. QED
    BY <1>1, <1>6, <1>12, <2>6, <2>7, <2>9, <2>10
<1>13. CASE n = 4
  <2>1. e \in DataRows /\ e.norms = {} /\ Only("norms", d, e)
    <3>1. {} \in SUBSET NormRows /\ e = [d EXCEPT !.norms = {}]
      BY <1>5, <1>13
    <3>2. QED
      BY <1>1, <3>1, TableReplaced
  <2>2. e.catalogs = d.catalogs /\ e.jobs = d.jobs /\ e.conflicts = d.conflicts /\ e.documents = d.documents /\ e.source = d.source
    BY <2>1 DEF Only
  <2>3. Finite(e) /\ OneDocumentEach(e)
    BY <1>1, <2>1, <2>2, FS_EmptySet DEF Finite, OneDocumentEach
  <2>4. NormsFit(n - 1, e)
    BY <2>1 DEF NormsFit
  <2>5. CatalogsFit(e) /\ SourceFits(n - 1, e)
    BY <1>2, <1>3, <2>2, PartsOfTables
  <2>6. QED
    BY <1>6, <1>13, <2>1, <2>3, <2>4, <2>5
<1>14. CASE n = 5
  <2>1. /\ e \in DataRows /\ Finite(e) /\ Only("norms", d, e)
        /\ \A x, y \in e.norms : x.code = y.code => x = y
        /\ (\A x, y \in d.norms : x.code = y.code => x = y) => Cardinality(e.norms) = Cardinality(d.norms)
    BY <1>1, <1>5, <1>14, ScopedNormsEffect
  <2>2. e.catalogs = d.catalogs /\ e.jobs = d.jobs /\ e.conflicts = d.conflicts /\ e.documents = d.documents /\ e.source = d.source
    BY <2>1 DEF Only
  <2>3. OneDocumentEach(e)
    BY <1>1, <2>2 DEF OneDocumentEach
  <2>4. NormsFit(n - 1, e)
    BY <1>4, <1>14, <2>1 DEF NormsFit
  <2>5. CatalogsFit(e) /\ JobsFit(n - 1, e) /\ KeysFit(n - 1, e) /\ SourceFits(n - 1, e) /\ StatusesFit(n - 1, e)
    BY <1>2, <1>3, <2>2, PartsOfTables
  <2>6. RowsFit(n - 1, e)
    BY <1>1, <2>1, <2>4, <2>5, FitIsParts
  <2>7. Held(n - 1, e)
    BY <1>14, <2>1, <2>3 DEF Held
  <2>8. QED
    BY <2>1, <2>6, <2>7
<1>15. CASE n = 6
  <2>1. e \in DataRows /\ e.catalogs = {} /\ Only("catalogs", d, e)
    <3>1. {} \in SUBSET CatalogRows /\ e = [d EXCEPT !.catalogs = {}]
      BY <1>5, <1>15
    <3>2. QED
      BY <1>1, <3>1, TableReplaced
  <2>2. e.norms = d.norms /\ e.jobs = d.jobs /\ e.conflicts = d.conflicts /\ e.documents = d.documents /\ e.source = d.source
    BY <2>1 DEF Only
  <2>3. Finite(e) /\ OneDocumentEach(e)
    BY <1>1, <2>2 DEF Finite, OneDocumentEach
  <2>4. CatalogsFit(e)
    BY <2>1 DEF CatalogsFit
  <2>5. NormsFit(n - 1, e) /\ SourceFits(n - 1, e)
    BY <1>3, <1>15, <2>2, PartsOfTables
  <2>6. QED
    BY <1>6, <1>15, <2>1, <2>3, <2>4, <2>5
<1>16. QED
  BY <1>7, <1>8, <1>10, <1>11, <1>12, <1>13, <1>14, <1>15

----------------------------------------------------------------------------
LEMMA RowsInvTypes == RowsInv => RowsTypeOK
<1>1. rows \in DataRows =>
        /\ rows.emails \subseteq Emails
        /\ rows.norms \subseteq NormRows
        /\ rows.catalogs \subseteq CatalogRows
        /\ rows.jobs \subseteq JobRows
        /\ rows.conflicts \subseteq ConflictRows
        /\ rows.documents \subseteq DocumentRows
        /\ rows.source \subseteq Ids \cup {Gone}
  BY DEF DataRows
<1>2. QED
  BY <1>1 DEF RowsInv, RowsTypeOK, Held, NormRows, CatalogRows

LEMMA UpgradeKeepsInv ==
  ASSUME RowsInv, UpgradeRows
  PROVE  RowsInv' /\ Survives(revision', rows, rows') /\ rows' = RowsUp(revision', rows)
<1> DEFINE n == revision + 1
<1>1. n \in 1 .. 20 /\ n - 1 = revision
  BY DEF RowsInv, UpgradeRows
<1>2. Held(n - 1, rows) /\ RowsFit(n - 1, rows)
  BY <1>1 DEF RowsInv
<1>3. revision' = n /\ rows' = RowsUp(n, rows) /\ RowsFit(n, rows')
  BY DEF UpgradeRows, UpgradeFits
<1> HIDE DEF n
<1>4. Held(n, rows') /\ Survives(n, rows, rows')
  BY <1>1, <1>2, <1>3, UpgradeEffect
<1>5. /\ revision' \in 0 .. 20 /\ Held(revision', rows') /\ RowsFit(revision', rows')
      /\ engine' = engine
  BY <1>1, <1>3, <1>4 DEF UpgradeRows
<1>6. QED
  BY <1>3, <1>4, <1>5 DEF RowsInv, RowsFit, KeyedSourceSince

LEMMA DowngradeKeepsInv ==
  ASSUME RowsInv, DowngradeRows
  PROVE  RowsInv'
<1>1. revision \in 1 .. 20
  BY DEF RowsInv, DowngradeRows
<1>2. Held(revision, rows) /\ RowsFit(revision, rows)
  BY DEF RowsInv
<1>3. revision' = revision - 1 /\ rows' = RowsDown(revision, rows)
  BY DEF DowngradeRows
<1>4. Held(revision - 1, rows') /\ RowsFit(revision - 1, rows')
  BY <1>1, <1>2, <1>3, DowngradeEffect
<1>5. /\ revision' \in 0 .. 20 /\ Held(revision', rows') /\ RowsFit(revision', rows')
      /\ engine' = engine
  BY <1>1, <1>3, <1>4 DEF DowngradeRows
<1>6. QED
  BY <1>5 DEF RowsInv, RowsFit, KeyedSourceSince

\* What is written fits the revision, since the database refuses the rest.
LEMMA WritesKeepInv ==
  ASSUME RowsInv, NEW d, Writes(d), d \in DataRows, Finite(d), OneDocumentEach(d),
         revision < 4 => d.norms = {}, revision = 0 => d.source = {}
  PROVE  RowsInv' /\ revision' = revision
<1>1. /\ revision' = revision /\ rows' = d /\ RowsFit(revision, d) /\ revision \in 0 .. 20
      /\ engine' = engine
  BY DEF RowsInv, Writes
<1>2. Held(revision', rows') /\ RowsFit(revision', rows') /\ revision' \in 0 .. 20
  BY <1>1 DEF Held
<1>3. QED
  BY <1>1, <1>2 DEF RowsInv, RowsFit, KeyedSourceSince

LEMMA RowsWrittenKeepInv ==
  ASSUME RowsInv, RowsWritten
  PROVE  RowsInv' /\ revision' = revision
<1>1. /\ rows \in DataRows /\ Finite(rows) /\ OneDocumentEach(rows) /\ revision \in 0 .. 20
      /\ (revision < 4 => rows.norms = {}) /\ (revision = 0 => rows.source = {})
  BY DEF RowsInv, Held
<1>2. ASSUME NEW x \in Emails, WriteUser(x) PROVE RowsInv' /\ revision' = revision
  <2> DEFINE X == rows.emails \cup {x}
             d == [rows EXCEPT !.emails = X]
  <2>1. X \in SUBSET Emails
    BY <1>1 DEF DataRows
  <2>2. d \in DataRows /\ Only("emails", rows, d)
    BY <1>1, <2>1, TableReplaced
  <2>3. Writes(d)
    BY <1>2 DEF WriteUser
  <2> HIDE DEF d
  <2>4. /\ Finite(d) /\ OneDocumentEach(d)
        /\ (revision < 4 => d.norms = {}) /\ (revision = 0 => d.source = {})
    BY <1>1, <2>2 DEF Only, Finite, OneDocumentEach
  <2>5. QED
    BY <2>2, <2>3, <2>4, WritesKeepInv
<1>3. ASSUME NEW scope \in Scopes, NEW name \in Names, WriteCatalog(scope, name)
      PROVE  RowsInv' /\ revision' = revision
  <2> DEFINE X == rows.catalogs \cup {[scope |-> scope, name |-> name]}
             d == [rows EXCEPT !.catalogs = X]
  <2>1. X \in SUBSET CatalogRows
    BY <1>1 DEF DataRows, CatalogRows
  <2>2. d \in DataRows /\ Only("catalogs", rows, d)
    BY <1>1, <2>1, TableReplaced
  <2>3. Writes(d)
    BY <1>3 DEF WriteCatalog
  <2> HIDE DEF d
  <2>4. /\ Finite(d) /\ OneDocumentEach(d)
        /\ (revision < 4 => d.norms = {}) /\ (revision = 0 => d.source = {})
    BY <1>1, <2>2 DEF Only, Finite, OneDocumentEach
  <2>5. QED
    BY <2>2, <2>3, <2>4, WritesKeepInv
<1>4. ASSUME NEW scope \in Scopes, NEW name \in Names, NEW code \in Codes, WriteNorm(scope, name, code)
      PROVE  RowsInv' /\ revision' = revision
  <2> DEFINE x == [scope |-> scope, name |-> name, code |-> code]
             X == rows.norms \cup {x}
             d == [rows EXCEPT !.norms = X]
  <2>1. X \in SUBSET NormRows
    BY <1>1 DEF DataRows, NormRows
  <2>2. d \in DataRows /\ Only("norms", rows, d) /\ d.norms = X
    BY <1>1, <2>1, TableReplaced
  <2>3. Writes(d) /\ revision >= 4
    BY <1>4 DEF WriteNorm
  <2>4. IsFiniteSet(X)
    BY <1>1, FS_AddElement DEF Finite
  <2> HIDE DEF d, X
  <2>5. /\ Finite(d) /\ OneDocumentEach(d)
        /\ (revision < 4 => d.norms = {}) /\ (revision = 0 => d.source = {})
    BY <1>1, <2>2, <2>3, <2>4 DEF Only, Finite, OneDocumentEach
  <2>6. QED
    BY <2>2, <2>3, <2>5, WritesKeepInv
<1>5. ASSUME NEW id \in Ids, NEW doc \in {{}, {Gone}, {1}}, NEW status \in JobStatuses, NEW since \in 0 .. 1,
             WriteJob(id, doc, status, since)
      PROVE  RowsInv' /\ revision' = revision
  <2> DEFINE x == [id |-> id, document |-> doc, status |-> status, since |-> since]
             X == rows.jobs \cup {x}
             d == [rows EXCEPT !.jobs = X]
  <2>1. id \in 1 .. 2 * MaxRows /\ doc \in SUBSET (Ids \cup {Gone})
    BY RowsAssumption DEF Ids
  <2>2. x \in JobRows /\ x.document = doc
    BY <2>1 DEF JobRows
  <2>3. Writes(d)
    BY <1>5 DEF WriteJob
  <2> HIDE DEF x
  <2>4. X \in SUBSET JobRows
    BY <1>1, <2>2 DEF DataRows
  <2>5. d \in DataRows /\ Only("jobs", rows, d) /\ d.jobs = X
    BY <1>1, <2>4, TableReplaced
  <2>6. IsFiniteSet(X)
    BY <1>1, FS_AddElement DEF Finite
  <2> HIDE DEF d
  <2>7. OneDocumentEach(d)
    BY <1>1, <2>2, <2>5 DEF OneDocumentEach
  <2> HIDE DEF X
  <2>8. Finite(d) /\ (revision < 4 => d.norms = {}) /\ (revision = 0 => d.source = {})
    BY <1>1, <2>5, <2>6 DEF Only, Finite
  <2>9. QED
    BY <2>3, <2>5, <2>7, <2>8, WritesKeepInv
<1>6. ASSUME NEW id \in Ids, NEW job \in {Gone, 1}, NEW status \in ConflictStatuses, WriteConflict(id, job, status)
      PROVE  RowsInv' /\ revision' = revision
  <2> DEFINE x == [id |-> id, job |-> job, status |-> status]
             X == rows.conflicts \cup {x}
             d == [rows EXCEPT !.conflicts = X]
  <2>1. job \in 0 .. 2 * MaxRows
    BY RowsAssumption DEF Ids, Gone
  <2>2. X \in SUBSET ConflictRows
    BY <1>1, <2>1 DEF DataRows, ConflictRows
  <2>3. d \in DataRows /\ Only("conflicts", rows, d) /\ d.conflicts = X
    BY <1>1, <2>2, TableReplaced
  <2>4. Writes(d)
    BY <1>6 DEF WriteConflict
  <2>5. IsFiniteSet(X)
    BY <1>1, FS_AddElement DEF Finite
  <2> HIDE DEF d, X
  <2>6. /\ Finite(d) /\ OneDocumentEach(d)
        /\ (revision < 4 => d.norms = {}) /\ (revision = 0 => d.source = {})
    BY <1>1, <2>3, <2>5 DEF Only, Finite, OneDocumentEach
  <2>7. QED
    BY <2>3, <2>4, <2>6, WritesKeepInv
<1>7. ASSUME NEW id \in Ids, NEW own \in BOOLEAN, NEW archived \in BOOLEAN, NEW primary \in BOOLEAN,
             NEW kind \in DocumentKinds, WriteDocument(id, own, kind, archived, primary)
      PROVE  RowsInv' /\ revision' = revision
  <2> DEFINE x == [id |-> id, own |-> own, kind |-> kind, archived |-> archived, primary |-> primary]
             X == rows.documents \cup {x}
             d == [rows EXCEPT !.documents = X]
  <2>1. x \in DocumentRows
    BY DEF DocumentRows
  <2>2. Writes(d)
    BY <1>7 DEF WriteDocument
  <2> HIDE DEF x
  <2>3. X \in SUBSET DocumentRows
    BY <1>1, <2>1 DEF DataRows
  <2>4. d \in DataRows /\ Only("documents", rows, d)
    BY <1>1, <2>3, TableReplaced
  <2> HIDE DEF d
  <2>5. /\ Finite(d) /\ OneDocumentEach(d)
        /\ (revision < 4 => d.norms = {}) /\ (revision = 0 => d.source = {})
    BY <1>1, <2>4 DEF Only, Finite, OneDocumentEach
  <2>6. QED
    BY <2>2, <2>4, <2>5, WritesKeepInv
<1>8. ASSUME NEW id \in Ids \cup {Gone}, WriteSource(id) PROVE RowsInv' /\ revision' = revision
  <2> DEFINE d == [rows EXCEPT !.source = {id}]
  <2>1. {id} \in SUBSET (Ids \cup {Gone})
    OBVIOUS
  <2>2. d \in DataRows /\ Only("source", rows, d)
    BY <1>1, <2>1, TableReplaced
  <2>3. Writes(d) /\ revision >= 1
    BY <1>8 DEF WriteSource
  <2> HIDE DEF d
  <2>4. /\ Finite(d) /\ OneDocumentEach(d)
        /\ (revision < 4 => d.norms = {}) /\ (revision = 0 => d.source = {})
    BY <1>1, <2>2, <2>3 DEF Only, Finite, OneDocumentEach
  <2>5. QED
    BY <2>2, <2>3, <2>4, WritesKeepInv
<1>9. QED
  BY <1>2, <1>3, <1>4, <1>5, <1>6, <1>7, <1>8 DEF RowsWritten

LEMMA OnlyNamedRowsStop == RowsInv => OnlyNamedRowsStopAMigration
<1> SUFFICES ASSUME RowsInv PROVE OnlyNamedRowsStopAMigration
  OBVIOUS
<1>1. revision \in 0 .. 20 /\ Held(revision, rows) /\ RowsFit(revision, rows)
  BY DEF RowsInv
<1>2. ASSUME revision < 20, ~UpgradeFits
      PROVE  \/ revision + 1 = 12 /\ MailsClash
             \/ revision + 1 = 6 /\ \E x, y \in rows.norms : x.scope = y.scope /\ x.name # y.name
             \/ /\ revision + 1 = 15 /\ engine = "postgresql"
                /\ \E c \in rows.conflicts : \A j \in rows.jobs : j.id # c.job
  <2> DEFINE n == revision + 1
  <2>1. n \in 1 .. 20 /\ n - 1 = revision
    BY <1>1, <1>2
  <2> HIDE DEF n
  <2>2. (n = 6 => Named(rows)) => RowsFit(n, RowsUp(n, rows))
    BY <1>1, <2>1, UpgradeEffect
  <2>3. (n = 12 => ~MailsClash) /\ (n = 15 => ~OrphansRefused) /\ RowsFit(n, RowsUp(n, rows)) => UpgradeFits
    BY DEF n, UpgradeFits
  <2>4. OrphansRefused => /\ engine = "postgresql"
                          /\ \E c \in rows.conflicts : \A j \in rows.jobs : j.id # c.job
    BY DEF OrphansRefused, Orphans, IdsOf
  <2>5. QED
    BY <1>2, <2>2, <2>3, <2>4 DEF n, Named
<1>3. ASSUME revision > 0, ~DowngradeFits
      PROVE  revision = 5 /\ \E x, y \in rows.norms : x # y /\ x.code = y.code
  <2>1. revision \in 1 .. 20
    BY <1>1, <1>3
  <2>2. /\ RowsFit(revision - 1, RowsDown(revision, rows))
        /\ revision = 5 /\ (\A x, y \in rows.norms : x.code = y.code => x = y) =>
             Cardinality(RowsDown(revision, rows).norms) = Cardinality(rows.norms)
    BY <1>1, <2>1, DowngradeEffect
  <2>3. (revision = 5 => NormsStayApart(RowsDown(5, rows))) => DowngradeFits
    BY <2>2 DEF DowngradeFits
  <2>4. revision = 5 /\ Cardinality(rows.norms) # Cardinality(RowsDown(revision, rows).norms)
    BY <1>3, <2>3 DEF NormsStayApart
  <2>5. QED
    BY <2>2, <2>4
<1>4. QED
  BY <1>2, <1>3 DEF OnlyNamedRowsStopAMigration

LEMMA RowsNextKeepsInv == RowsInv /\ [RowsNext]_rowVars => RowsInv'
<1> SUFFICES ASSUME RowsInv, [RowsNext]_rowVars PROVE RowsInv'
  OBVIOUS
<1>1. CASE UpgradeRows
  BY <1>1, UpgradeKeepsInv
<1>2. CASE DowngradeRows
  BY <1>2, DowngradeKeepsInv
<1>3. CASE RowsWritten
  BY <1>3, RowsWrittenKeepInv
<1>4. CASE UNCHANGED rowVars
  BY <1>4 DEF rowVars, RowsInv, RowsFit, KeyedSourceSince
<1>5. QED
  BY <1>1, <1>2, <1>3, <1>4 DEF RowsNext

(* On either server, the rows fit the schema of every revision that          *)
(* migrations reach, and a migration stops only on mails that differ by      *)
(* case, a scope with two catalogue names, a code in two scopes and, on      *)
(* PostgreSQL, a conflict whose job is gone.                                 *)
THEOREM RowsFollowTheSchema == RowsSpec => []RowsMigrate
<1>1. RowsInit => RowsInv
  BY RowsInitHolds
<1>2. RowsInv /\ [RowsNext]_rowVars => RowsInv'
  BY RowsNextKeepsInv
<1>3. RowsInv => RowsMigrate
  BY RowsInvTypes, OnlyNamedRowsStop DEF RowsMigrate
<1>4. QED
  BY <1>1, <1>2, <1>3, PTL DEF RowsSpec

(* An upgrade deletes nobody's rows, leaves every document an active job if  *)
(* it had one, the running one if one was running, and 0017 ends with a      *)
(* source that is a readable order of the repair and its only primary.       *)
THEOREM NoUpgradeLosesRows == RowsSpec => UpgradesKeepRows
<1>1. RowsInit => RowsInv
  BY RowsInitHolds
<1>2. RowsInv /\ [RowsNext]_rowVars => RowsInv'
  BY RowsNextKeepsInv
<1>3. ASSUME RowsInv, [RowsNext]_rowVars, revision' = revision + 1
      PROVE  UpgradeRows
  <2>1. revision \in 0 .. 20
    BY <1>3 DEF RowsInv
  <2>2. ~UNCHANGED rowVars
    BY <1>3, <2>1 DEF rowVars
  <2>3. ~DowngradeRows
    BY <1>3, <2>1 DEF DowngradeRows
  <2>4. ~RowsWritten
    BY <1>3, <2>1, RowsWrittenKeepInv
  <2>5. QED
    BY <1>3, <2>2, <2>3, <2>4 DEF RowsNext
<1>4. RowsInv /\ [RowsNext]_rowVars =>
        [revision' = revision + 1 =>
           /\ {LowerCase(e) : e \in rows.emails} = {LowerCase(e) : e \in rows'.emails}
           /\ {x.code : x \in rows.norms} = {x.code : x \in rows'.norms}
           /\ IdsOf(rows.jobs) \subseteq IdsOf(rows'.jobs)
           /\ IdsOf(rows.conflicts) = IdsOf(rows'.conflicts)
           /\ IdsOf(rows.documents) = IdsOf(rows'.documents)
           /\ \A id \in IF revision' = 15 THEN IdsOf(rows.documents) ELSE Ids :
                LET before == ActiveOf(rows, id) after == ActiveOf(rows', id) IN
                /\ before # {} => after # {}
                /\ Running(before) # {} => Running(after) # {}
        ]_rowVars
  <2> SUFFICES ASSUME RowsInv, [RowsNext]_rowVars, revision' = revision + 1
               PROVE  /\ {LowerCase(e) : e \in rows.emails} = {LowerCase(e) : e \in rows'.emails}
                      /\ {x.code : x \in rows.norms} = {x.code : x \in rows'.norms}
                      /\ IdsOf(rows.jobs) \subseteq IdsOf(rows'.jobs)
                      /\ IdsOf(rows.conflicts) = IdsOf(rows'.conflicts)
                      /\ IdsOf(rows.documents) = IdsOf(rows'.documents)
                      /\ \A id \in IF revision' = 15 THEN IdsOf(rows.documents) ELSE Ids :
                           LET before == ActiveOf(rows, id) after == ActiveOf(rows', id) IN
                           /\ before # {} => after # {}
                           /\ Running(before) # {} => Running(after) # {}
    OBVIOUS
  <2>1. Survives(revision', rows, rows')
    BY <1>3, UpgradeKeepsInv
  <2>2. MailsOf(rows') = MailsOf(rows) /\ CodesOf(rows') = CodesOf(rows)
    BY <2>1 DEF Survives
  <2>3. {LowerCase(e) : e \in rows.emails} = {LowerCase(e) : e \in rows'.emails}
    BY <2>2 DEF MailsOf
  <2>4. {x.code : x \in rows.norms} = {x.code : x \in rows'.norms}
    BY <2>2 DEF CodesOf
  <2>5. QED
    BY <2>1, <2>3, <2>4 DEF Survives
<1>5. RowsInv /\ [RowsNext]_rowVars =>
        [revision' = 17 /\ revision = 16 /\ rows.source # {} =>
           /\ rows'.source \subseteq IdsOf(Eligible(rows'))
           /\ Eligible(rows) # {} => rows'.source # {}
           /\ rows'.source # rows.source =>
                IdsOf({y \in rows'.documents : y.own /\ y.primary}) = rows'.source
        ]_rowVars
  <2> SUFFICES ASSUME RowsInv, [RowsNext]_rowVars, revision' = 17, revision = 16, rows.source # {}
               PROVE  /\ rows'.source \subseteq IdsOf(Eligible(rows'))
                      /\ Eligible(rows) # {} => rows'.source # {}
                      /\ rows'.source # rows.source =>
                           IdsOf({y \in rows'.documents : y.own /\ y.primary}) = rows'.source
    OBVIOUS
  <2>1. revision' = revision + 1
    OBVIOUS
  <2>2. rows' = RowsUp(17, rows)
    BY <1>3, <2>1, UpgradeKeepsInv
  <2>3. rows' = HealedSource(rows) /\ rows \in DataRows /\ Finite(rows)
    BY <2>2 DEF RowsUp, RowsInv, Held
  <2>4. QED
    BY <2>3, HealedSourceEffect
<1>6. RowsSpec => UpgradesLoseNothing
  BY <1>1, <1>2, <1>4, PTL DEF RowsSpec, UpgradesLoseNothing
<1>7. RowsSpec => SourceIsHealed
  BY <1>1, <1>2, <1>5, PTL DEF RowsSpec, SourceIsHealed
<1>8. QED
  BY <1>6, <1>7 DEF UpgradesKeepRows

----------------------------------------------------------------------------
(***************************************************************************)
(* What users are shown agrees, whatever the database holds. Most of it is  *)
(* about one state: two formulations of a question have the same answer.    *)
(* That rows open is about a step, since they are followed from a page.     *)
(***************************************************************************)

(* Of documents there is a newest one, and only one.                         *)
LEMMA NewestIsOne ==
  ASSUME NEW S \in SUBSET Docs, S # {}
  PROVE  /\ Newest(S) \in S
         /\ \A e \in S : e <= Newest(S)
         /\ \A d \in S : (\A e \in S : e <= d) => d = Newest(S)
<1>1. PICK d \in S : \A e \in S : e <= d BY ReadsAssumption
<1>2. Newest(S) \in S /\ \A e \in S : e <= Newest(S) BY <1>1 DEF Newest
<1>3. \A e \in S : e \in Nat BY ReadsAssumption
<1> QED BY <1>2, <1>3

(* The document that Python chooses is the one that the SQL expression       *)
(* yields: repair_relations.py says it twice.                                *)
LEMMA SourceIsCanonical ==
  ASSUME held \in Database, NEW r \in Repairs
  PROVE  PrimaryCandidate(r) = CanonicalSource(r)
<1> DEFINE live == {d \in Docs : held.doc[d].repair = r /\ held.doc[d].kind \in PrimaryKinds /\ held.doc[d].status # "archived"}
           flagged == {d \in live : held.doc[d].primary}
           Before(d, e) == \/ held.doc[d].primary /\ ~held.doc[e].primary
                           \/ held.doc[d].primary = held.doc[e].primary /\ e <= d
           first == CHOOSE d \in live : \A e \in live : Before(d, e)
           candidate == IF live = {} THEN Nothing
                        ELSE IF held.repair[r].source \in live THEN held.repair[r].source
                        ELSE Newest(IF flagged # {} THEN flagged ELSE live)
<1>1. {d \in DocsOf(r) : PrimaryEligible(d)} = live BY DEF DocsOf, PrimaryEligible
<1>2. PrimaryCandidate(r) = candidate BY <1>1 DEF PrimaryCandidate
<1>3. CanonicalSource(r) = IF held.repair[r].source \in live THEN held.repair[r].source
                           ELSE IF live = {} THEN Nothing ELSE first
  BY DEF CanonicalSource
<1>4. \A d \in live : d \in Docs /\ d \in Nat /\ held.doc[d].primary \in BOOLEAN BY ReadsAssumption DEF Database
<1>5. ASSUME live # {}, flagged # {} PROVE first = Newest(flagged)
  <2>1. /\ Newest(flagged) \in flagged
        /\ \A e \in flagged : e <= Newest(flagged)
        /\ \A d \in flagged : (\A e \in flagged : e <= d) => d = Newest(flagged)
    <3> HIDE DEF flagged
    <3>1. flagged \in SUBSET Docs BY DEF flagged
    <3> QED BY <3>1, <1>5, NewestIsOne
  <2>2. \A e \in live : Before(Newest(flagged), e) BY <2>1
  <2>3. \A d \in live : (\A e \in live : Before(d, e)) => d \in flagged /\ \A e \in flagged : e <= d BY <2>1
  <2> HIDE DEF Before
  <2>4. \A d \in live : (\A e \in live : Before(d, e)) => d = Newest(flagged) BY <2>1, <2>3
  <2>5. first \in live /\ \A e \in live : Before(first, e) BY <2>1, <2>2
  <2> QED BY <2>4, <2>5
<1>6. ASSUME live # {}, flagged = {} PROVE first = Newest(live)
  <2>1. /\ Newest(live) \in live
        /\ \A e \in live : e <= Newest(live)
        /\ \A d \in live : (\A e \in live : e <= d) => d = Newest(live)
    <3> HIDE DEF live
    <3>1. live \in SUBSET Docs BY DEF live
    <3> QED BY <3>1, <1>6, NewestIsOne
  <2>2. \A d, e \in live : Before(d, e) <=> e <= d BY <1>4, <1>6
  <2> HIDE DEF Before
  <2>3. first \in live /\ \A e \in live : Before(first, e) BY <2>1, <2>2
  <2> QED BY <2>1, <2>2, <2>3
<1> HIDE DEF live, flagged, first
<1> QED BY <1>2, <1>3, <1>5, <1>6

(* A document chosen for a repair is one of those that the repair shows.     *)
LEMMA SourceIsShown ==
  ASSUME held \in Database, NEW u \in Users, NEW r \in Repairs
  PROVE  SourceDocument(r, Archive(u)) \in ShownDocuments(u, r) \cup {Nothing}
<1> DEFINE eligible == {d \in DocsOf(r) : PrimaryEligible(d)}
           flagged == {d \in eligible : held.doc[d].primary}
           archived == {d \in DocsOf(r) : held.doc[d].kind \in PrimaryKinds /\ held.doc[d].status = "archived"}
<1>1. PrimaryCandidate(r) = IF eligible = {} THEN Nothing
                            ELSE IF held.repair[r].source \in eligible THEN held.repair[r].source
                            ELSE Newest(IF flagged # {} THEN flagged ELSE eligible)
  BY DEF PrimaryCandidate
<1>2. SourceDocument(r, Archive(u)) =
        IF PrimaryCandidate(r) = Nothing /\ Archive(u) /\ archived # {} THEN Newest(archived) ELSE PrimaryCandidate(r)
  BY DEF SourceDocument
<1>3. /\ eligible \subseteq ShownDocuments(u, r)
      /\ Archive(u) => archived \subseteq ShownDocuments(u, r)
  BY DEF PrimaryEligible, ShownDocuments
<1>4. eligible \in SUBSET Docs /\ flagged \in SUBSET eligible /\ archived \in SUBSET Docs BY DEF DocsOf
<1> HIDE DEF eligible, flagged, archived
<1>5. eligible # {} => Newest(eligible) \in eligible BY <1>4, NewestIsOne
<1>6. flagged # {} => Newest(flagged) \in flagged
  <2>1. flagged \in SUBSET Docs BY <1>4
  <2> QED BY <2>1, NewestIsOne
<1>7. archived # {} => Newest(archived) \in archived BY <1>4, NewestIsOne
<1> QED BY <1>1, <1>2, <1>3, <1>4, <1>5, <1>6, <1>7

(* Python and SQL agree on the source, and a document that opens shows its   *)
(* job and its own report.                                                   *)
LEMMA SourcesAgree == held \in Database => SourceAgrees
<1> SUFFICES ASSUME held \in Database PROVE SourceAgrees OBVIOUS
<1>1. \A r \in Repairs : PrimaryCandidate(r) = CanonicalSource(r) BY SourceIsCanonical
<1>2. \A u \in Users, r \in Repairs : SourceDocument(r, Archive(u)) \in ShownDocuments(u, r) \cup {Nothing}
  BY SourceIsShown
<1>3. ASSUME NEW u \in Users, NEW d \in Docs, DocumentOpens(u, d)
      PROVE  JobOpens(u, d) /\ ReportDocument(u, held.doc[d].repair, d) = d
  <2>1. JobOpens(u, d) BY <1>3 DEF DocumentOpens, JobOpens
  <2>2. d # Nothing BY ReadsAssumption
  <2>3. ReportDocument(u, held.doc[d].repair, d) = d BY <1>3, <2>2 DEF DocumentOpens, ReportDocument, Archive
  <2> QED BY <2>1, <2>3
<1> QED BY <1>1, <1>2, <1>3 DEF SourceAgrees

-----------------------------------------------------------------------------
(* An employee sees what he may see; operational rows are not archived.      *)
LEMMA OperationalDocument ==
  ASSUME held \in Database, NEW d
  PROVE  d \in OperationalDocuments <=>
           /\ d \in Docs /\ held.doc[d].status # "archived" /\ held.repair[held.doc[d].repair].status # "archived"
           /\ VehicleOf(held.doc[d].repair).status # "archived" /\ ~ServiceArchived(held.doc[d].repair)
BY DEF OperationalDocuments, Operational

LEMMA DocumentsAgree ==
  ASSUME held \in Database, NEW u \in Users
  PROVE  /\ Summary(u).documents = DocumentList(u)
         /\ Summary(u).documents = SearchDocuments(u)
         /\ Summary(u).repairs = SearchRepairs(u)
         /\ Summary(u).vehicles = VehicleList(u)
<1>1. Summary(u).documents = DocumentList(u) BY DEF Summary, DocumentList
<1>2. DocumentList(u) = SearchDocuments(u) BY OperationalDocument DEF DocumentList, SearchDocuments
<1>3. Summary(u).repairs = SearchRepairs(u) BY DEF Summary, SearchRepairs, Operational
<1>4. Summary(u).vehicles = VehicleList(u) BY DEF Summary, VehicleList, VehicleScope, AllowedVehicles
<1> QED BY <1>1, <1>2, <1>3, <1>4

LEMMA QueuesAgree ==
  ASSUME held \in Database, NEW u \in Users
  PROVE  /\ Summary(u).queue = Queue(u)
         /\ DocumentQuality(u).error \cup DocumentQuality(u).review = Queue(u)
         /\ DocumentQuality(u).error \cap DocumentQuality(u).review = {}
         /\ DetailDocuments(u) = Queue(u) \cup DocumentQuality(u).low
<1> DEFINE seen == {d \in OperationalDocuments : held.doc[d].repair \in VisibleRepairs(u)}
<1>1. Queue(u) = {d \in seen : Reviewable(d) /\ NeedsReview(d) /\ held.doc[d].status # "uploaded"}
  BY OperationalDocument DEF Queue
<1>2. Summary(u).queue = {d \in seen : Reviewable(d) /\ NeedsReview(d) /\ held.doc[d].status # "uploaded"}
  BY DEF Summary
<1>3. /\ DocumentQuality(u).low = {d \in seen : held.doc[d].low}
      /\ DocumentQuality(u).error = {d \in seen : /\ Reviewable(d) /\ held.doc[d].status # "uploaded"
                                                  /\ "ocr_error" \in {held.doc[d].status, held.repair[held.doc[d].repair].status}}
      /\ DocumentQuality(u).review = {d \in seen : /\ Reviewable(d) /\ NeedsReview(d)
                                                   /\ held.doc[d].status \notin {"uploaded", "ocr_error"}
                                                   /\ held.repair[held.doc[d].repair].status # "ocr_error"}
  BY DEF DocumentQuality
<1>4. DetailDocuments(u) = {d \in seen : \/ Reviewable(d) /\ NeedsReview(d) /\ held.doc[d].status # "uploaded"
                                         \/ held.doc[d].low}
  BY DEF DetailDocuments
<1>5. \A d : "ocr_error" \in {held.doc[d].status, held.repair[held.doc[d].repair].status} => NeedsReview(d)
  BY DEF NeedsReview
<1> HIDE DEF seen
<1>6. DocumentQuality(u).error \cup DocumentQuality(u).review = Queue(u) BY <1>1, <1>3, <1>5
<1>7. DocumentQuality(u).error \cap DocumentQuality(u).review = {} BY <1>3
<1>8. DetailDocuments(u) = Queue(u) \cup DocumentQuality(u).low BY <1>1, <1>3, <1>4
<1> QED BY <1>1, <1>2, <1>6, <1>7, <1>8

(* The figures of the two roles and the rows behind them.                    *)
LEMMA QualityAgrees ==
  ASSUME held \in Database, NEW u \in Users
  PROVE  /\ Quality(u).services = DetailServices(u)
         /\ DetailServices(u) \subseteq ServiceList
         /\ Quality(u).works = DetailWorks(u)
         /\ Quality(u).parts = DetailParts(u)
         /\ Quality(u).conflicts = DetailConflicts(u)
         /\ {r \in Quality(u).suspicious : u \in Admins \/ held.repair[r].status # "archived"} = Summary(u).suspicious
<1> DEFINE repairs == {r \in VisibleRepairs(u) : Operational(r)}
<1>1. /\ DetailWorks(u) = Lines(repairs, "work")
      /\ DetailParts(u) = Lines(repairs, "part")
      /\ Summary(u).suspicious = {r \in repairs : SuspiciousRepair(r)}
  BY DEF DetailWorks, DetailParts, Summary
<1>2. DetailServices(u) = PreliminaryServices(repairs) BY DEF DetailServices, PreliminaryServices
<1>3. DetailServices(u) \subseteq ServiceList BY DEF DetailServices, ServiceList
<1>4. CASE u \in Admins
  <2>1. VisibleRepairs(u) = Repairs BY <1>4 DEF VisibleRepairs
  <2>2. Quality(u) = QualityForAdmins BY <1>4 DEF Quality
  <2>3. /\ Quality(u).services = PreliminaryServices(repairs)
        /\ Quality(u).works = Lines(repairs, "work")
        /\ Quality(u).parts = Lines(repairs, "part")
        /\ Quality(u).suspicious = {r \in repairs : SuspiciousRepair(r)}
        /\ Quality(u).conflicts = {c \in Conflicts : held.conflict[c] \in {Nothing} \cup OperationalDocuments}
    BY <2>1, <2>2 DEF QualityForAdmins
  <2>4. \A d \in OperationalDocuments : held.doc[d].repair \in Repairs BY DEF OperationalDocuments, Database
  <2>5. Quality(u).conflicts = DetailConflicts(u) BY <1>4, <2>1, <2>3, <2>4 DEF DetailConflicts
  <2> QED BY <1>1, <1>2, <1>3, <1>4, <2>3, <2>5
<1>5. CASE u \notin Admins
  <2>1. Quality(u) = QualityForEmployee(u) BY <1>5 DEF Quality
  <2>2. /\ Quality(u).services = PreliminaryServices(repairs)
        /\ Quality(u).works = Lines(repairs, "work")
        /\ Quality(u).parts = Lines(repairs, "part")
        /\ Quality(u).suspicious = {r \in VisibleRepairs(u) : /\ VehicleOf(r).status # "archived" /\ ~ServiceArchived(r)
                                                              /\ SuspiciousRepair(r)}
        /\ Quality(u).conflicts = {c \in Conflicts : /\ held.conflict[c] \in OperationalDocuments
                                                     /\ held.doc[held.conflict[c]].repair \in VisibleRepairs(u)}
    BY <2>1 DEF QualityForEmployee
  <2>3. Nothing \notin OperationalDocuments BY ReadsAssumption DEF OperationalDocuments
  <2>4. Quality(u).conflicts = DetailConflicts(u) BY <1>5, <2>2, <2>3 DEF DetailConflicts
  <2>5. {r \in Quality(u).suspicious : u \in Admins \/ held.repair[r].status # "archived"} = Summary(u).suspicious
    BY <1>1, <1>5, <2>2 DEF Operational
  <2> QED BY <1>1, <1>2, <1>3, <2>2, <2>4, <2>5
<1> QED BY <1>4, <1>5

(* The card of a vehicle that is listed, and the lists.                      *)
LEMMA HistoryAgrees ==
  ASSUME held \in Database, NEW u \in Users, NEW v \in VehicleList(u)
  PROVE  /\ HistoricalSummary(v) = HistoricalHistory(v)
         /\ HistorySummary(v).documents = {d \in DocumentList(u) : held.repair[held.doc[d].repair].vehicle = v}
         /\ {r \in Summary(u).suspicious : held.repair[r].vehicle = v} \subseteq HistorySummary(v).suspicious
         /\ HistorySummary(v).suspicious \cap HistorySummary(v).confirmed = {}
<1>1. /\ v \in Vehicles /\ held.vehicle[v].status # "archived"
      /\ \A r \in Repairs : held.repair[r].vehicle = v => r \in VisibleRepairs(u)
  BY DEF VehicleList, VehicleScope, VisibleRepairs, AllowedVehicles
<1>2. HistoricalSummary(v) = HistoricalHistory(v) BY DEF HistoricalSummary, HistoricalHistory, VehicleHistory
<1>3. \A r \in Repairs : held.repair[r].vehicle = v => (r \in VehicleHistory(v) <=> Operational(r))
  BY <1>1 DEF VehicleHistory, HistoryShown, Operational, VehicleOf
<1>4. /\ HistorySummary(v).documents = {d \in Docs : held.doc[d].repair \in VehicleHistory(v) /\ held.doc[d].status # "archived"}
      /\ HistorySummary(v).confirmed = {r \in VehicleHistory(v) : held.repair[r].status = "confirmed" /\ ~SuspiciousChecks(r)}
      /\ HistorySummary(v).suspicious = {r \in VehicleHistory(v) : held.repair[r].status = "suspicious" \/ SuspiciousChecks(r)}
  BY DEF HistorySummary
<1>5. \A d \in Docs : held.doc[d].repair \in Repairs BY DEF Database
<1>6. HistorySummary(v).documents = {d \in DocumentList(u) : held.repair[held.doc[d].repair].vehicle = v}
  <2>1. \A r \in VehicleHistory(v) : r \in Repairs /\ held.repair[r].vehicle = v BY DEF VehicleHistory
  <2> QED BY <1>1, <1>3, <1>4, <1>5, <2>1 DEF DocumentList, OperationalDocuments
<1>7. {r \in Summary(u).suspicious : held.repair[r].vehicle = v} \subseteq HistorySummary(v).suspicious
  <2>1. Summary(u).suspicious = {r \in VisibleRepairs(u) : Operational(r) /\ SuspiciousRepair(r)} BY DEF Summary
  <2>2. VisibleRepairs(u) \subseteq Repairs BY DEF VisibleRepairs
  <2> QED BY <1>3, <1>4, <2>1, <2>2 DEF SuspiciousRepair
<1>8. HistorySummary(v).suspicious \cap HistorySummary(v).confirmed = {} BY <1>4
<1> QED BY <1>2, <1>6, <1>7, <1>8

LEMMA AllFiguresAgree == held \in Database => FiguresAgree
<1> SUFFICES ASSUME held \in Database, NEW u \in Users
             PROVE  /\ Summary(u).vehicles = VehicleList(u)
                    /\ Summary(u).documents = DocumentList(u)
                    /\ Summary(u).documents = SearchDocuments(u)
                    /\ Summary(u).repairs = SearchRepairs(u)
                    /\ Summary(u).queue = Queue(u)
                    /\ DocumentQuality(u).error \cup DocumentQuality(u).review = Queue(u)
                    /\ DocumentQuality(u).error \cap DocumentQuality(u).review = {}
                    /\ DetailDocuments(u) = Queue(u) \cup DocumentQuality(u).low
                    /\ Quality(u).services = DetailServices(u)
                    /\ DetailServices(u) \subseteq ServiceList
                    /\ Quality(u).works = DetailWorks(u)
                    /\ Quality(u).parts = DetailParts(u)
                    /\ Quality(u).conflicts = DetailConflicts(u)
                    /\ {r \in Quality(u).suspicious : u \in Admins \/ held.repair[r].status # "archived"} = Summary(u).suspicious
                    /\ \A v \in VehicleList(u) :
                         /\ HistoricalSummary(v) = HistoricalHistory(v)
                         /\ HistorySummary(v).documents = {d \in DocumentList(u) : held.repair[held.doc[d].repair].vehicle = v}
                         /\ {r \in Summary(u).suspicious : held.repair[r].vehicle = v} \subseteq HistorySummary(v).suspicious
                         /\ HistorySummary(v).suspicious \cap HistorySummary(v).confirmed = {}
  BY DEF FiguresAgree
<1> QED BY DocumentsAgree, QueuesAgree, QualityAgrees, HistoryAgrees

-----------------------------------------------------------------------------
(* The queue, the review actions and the stage that a report names.          *)
LEMMA CategoriesAgree ==
  ASSUME held \in Database, NEW u \in Users, NEW d \in Queue(u)
  PROVE  /\ CountedCategory(d) = ShownCategory(d)
         /\ held.doc[d].repair \in Summary(u).suspicious => ShownCategory(d) = "suspicious"
         /\ ShownCategory(d) = "suspicious" =>
              held.doc[d].repair \in Summary(u).suspicious \/ OcrErrorRepair(held.doc[d].repair)
         /\ ShownCategory(d) = "suspicious" => WorkflowStage(held.doc[d].repair) = "suspicious"
         /\ ShownCategory(d) = "employee_confirmation" => WorkflowStage(held.doc[d].repair) = "employee_confirmed"
<1> DEFINE r == held.doc[d].repair
<1>1. /\ d \in Docs /\ r \in VisibleRepairs(u) /\ Operational(r) /\ Reviewable(d) BY DEF Queue, Operational
<1>2. Summary(u).suspicious = {s \in VisibleRepairs(u) : Operational(s) /\ SuspiciousRepair(s)} BY DEF Summary
<1>3. SuspiciousChecks(r) <=> \E s \in held.repair[r].checks : s \in {"suspicious", "error"} BY DEF SuspiciousChecks
<1>4. CountedCategory(d) = ShownCategory(d) BY <1>3 DEF CountedCategory, ShownCategory
<1>5. held.doc[d].status = "ocr_error" \/ held.repair[r].status = "ocr_error" => OcrErrorRepair(r)
  BY <1>1 DEF OcrErrorRepair, DocsOf
<1>6. r \in Summary(u).suspicious => ShownCategory(d) = "suspicious"
  BY <1>2, <1>3, <1>5 DEF ShownCategory, SuspiciousRepair
<1>7. ShownCategory(d) = "suspicious" =>
        /\ held.repair[r].status # "ocr_error"
        /\ held.repair[r].status = "suspicious" \/ SuspiciousChecks(r)
  BY <1>3 DEF ShownCategory
<1>8. ShownCategory(d) = "suspicious" => r \in Summary(u).suspicious \/ OcrErrorRepair(r)
  BY <1>1, <1>2, <1>7 DEF SuspiciousRepair
<1>9. ShownCategory(d) = "suspicious" => WorkflowStage(r) = "suspicious"
  BY <1>1, <1>7 DEF WorkflowStage, Operational
<1>10. ShownCategory(d) = "employee_confirmation" => WorkflowStage(r) = "employee_confirmed"
  BY <1>3 DEF ShownCategory, WorkflowStage
<1> QED BY <1>4, <1>6, <1>8, <1>9, <1>10

LEMMA QueueIsActedOn == held \in Database => QueueAgrees
<1> SUFFICES ASSUME held \in Database PROVE QueueAgrees OBVIOUS
<1>1. ASSUME NEW u \in Users, NEW d \in Docs
      PROVE  DocumentOpens(u, d) /\ InReviewQueue(d) /\ Operational(held.doc[d].repair) <=> d \in Queue(u)
  <2> DEFINE r == held.doc[d].repair
  <2>1. r \in Repairs BY DEF Database
  <2>2. InReviewQueue(d) <=> /\ held.doc[d].status \notin {"uploaded", "archived"} /\ Operational(r)
                             /\ Reviewable(d) /\ NeedsReview(d)
    BY DEF InReviewQueue, Operational, Reviewable, NeedsReview
  <2>3. d \in Queue(u) <=> /\ held.doc[d].status \notin {"uploaded", "archived"} /\ Operational(r)
                           /\ Reviewable(d) /\ NeedsReview(d) /\ r \in VisibleRepairs(u)
    BY DEF Queue, Operational
  <2>4. ASSUME Operational(r), held.doc[d].status # "archived"
        PROVE  DocumentOpens(u, d) <=> r \in VisibleRepairs(u)
    BY <2>1, <2>4 DEF DocumentOpens, Operational, VisibleRepairs
  <2> QED BY <2>2, <2>3, <2>4
<1> QED BY <1>1, CategoriesAgree DEF QueueAgrees

-----------------------------------------------------------------------------
(* Where a row may lead: to a page that opens, or it is the vehicle of a     *)
(* preliminary repair of one's own.                                          *)
Leads(u, row) ==
  \/ Opens(u, row)
  \/ row[1] = "vehicle" /\ \E r \in Repairs : OwnPreliminary(u, r) /\ held.repair[r].vehicle = row[2]

LeadingRows(u) == {row \in RowsOfPages : Leads(u, row)}

LEMMA RepairLeads ==
  ASSUME held \in Database, NEW u \in Users, NEW r \in VisibleRepairs(u)
  PROVE  /\ r \in Repairs
         /\ VehicleRow(held.repair[r].vehicle) \in LeadingRows(u)
         /\ RepairOpens(u, r) => RepairRow(r) \in LeadingRows(u)
         /\ Operational(r) => RepairOpens(u, r)
<1>1. r \in Repairs /\ held.repair[r].vehicle \in Vehicles BY DEF VisibleRepairs, Database
<1>2. VehicleRow(held.repair[r].vehicle) \in RowsOfPages /\ RepairRow(r) \in RowsOfPages
  BY <1>1 DEF VehicleRow, RepairRow, RowsOfPages
<1>3. VehicleOpens(u, held.repair[r].vehicle) \/ OwnPreliminary(u, r)
  BY <1>1 DEF VehicleOpens, VehicleScope, VisibleRepairs
<1>4. VehicleRow(held.repair[r].vehicle) \in LeadingRows(u)
  BY <1>1, <1>2, <1>3 DEF LeadingRows, Leads, Opens, VehicleRow
<1>5. RepairOpens(u, r) => RepairRow(r) \in LeadingRows(u) BY <1>2 DEF LeadingRows, Leads, Opens, RepairRow
<1>6. Operational(r) => RepairOpens(u, r) BY DEF Operational, RepairOpens
<1> QED BY <1>1, <1>4, <1>5, <1>6

LEMMA DocumentLeads ==
  ASSUME held \in Database, NEW u \in Users, NEW d \in Docs
  PROVE  /\ DocumentOpens(u, d) => DocumentRow(d) \in LeadingRows(u) /\ RepairOpens(u, held.doc[d].repair)
         /\ RepairOpens(u, held.doc[d].repair) /\ (held.doc[d].status # "archived" \/ u \in Admins) => DocumentOpens(u, d)
<1>1. DocumentRow(d) \in RowsOfPages BY DEF DocumentRow, RowsOfPages
<1>2. DocumentOpens(u, d) => DocumentRow(d) \in LeadingRows(u) BY <1>1 DEF LeadingRows, Leads, Opens, DocumentRow
<1>3. held.doc[d].repair \in Repairs BY DEF Database
<1>4. DocumentOpens(u, d) => RepairOpens(u, held.doc[d].repair)
  BY <1>3 DEF DocumentOpens, RepairOpens, VisibleRepairs
<1>5. RepairOpens(u, held.doc[d].repair) /\ (held.doc[d].status # "archived" \/ u \in Admins) => DocumentOpens(u, d)
  BY DEF DocumentOpens, RepairOpens
<1> QED BY <1>2, <1>4, <1>5

(* The rows of a listed document or repair lead somewhere.                   *)
LEMMA ListedRowsLead ==
  ASSUME held \in Database, NEW u \in Users
  PROVE  /\ \A r \in SearchRepairs(u) : RowsOfRepair(r) \subseteq LeadingRows(u)
         /\ \A d \in DocumentList(u) : RowsOfDocument(d) \subseteq LeadingRows(u)
         /\ \A v \in VehicleList(u) : VehicleRow(v) \in LeadingRows(u)
<1>1. ASSUME NEW r \in SearchRepairs(u) PROVE RowsOfRepair(r) \subseteq LeadingRows(u)
  <2>1. r \in VisibleRepairs(u) /\ Operational(r) BY <1>1 DEF SearchRepairs, Operational
  <2> QED BY <2>1, RepairLeads DEF RowsOfRepair
<1>2. ASSUME NEW d \in DocumentList(u) PROVE RowsOfDocument(d) \subseteq LeadingRows(u)
  <2>1. /\ d \in Docs /\ held.doc[d].status # "archived" /\ Operational(held.doc[d].repair)
        /\ held.doc[d].repair \in VisibleRepairs(u)
    BY <1>2 DEF DocumentList, OperationalDocuments
  <2>2. RepairOpens(u, held.doc[d].repair) BY <2>1, RepairLeads
  <2>3. DocumentRow(d) \in LeadingRows(u) BY <2>1, <2>2, DocumentLeads
  <2> QED BY <2>1, <2>2, <2>3, RepairLeads DEF RowsOfDocument, RowsOfRepair
<1>3. ASSUME NEW v \in VehicleList(u) PROVE VehicleRow(v) \in LeadingRows(u)
  <2>1. v \in VehicleScope(u) /\ v \in Vehicles BY <1>3 DEF VehicleList, VehicleScope, AllowedVehicles
  <2> QED BY <2>1 DEF LeadingRows, Leads, Opens, VehicleOpens, VehicleRow, RowsOfPages
<1> QED BY <1>1, <1>2, <1>3

(* The rows behind the quality figures do, too, with the documents that the  *)
(* SQL expression names for the lines of a repair.                           *)
LEMMA QualityRowsLead ==
  ASSUME held \in Database, NEW u \in Users
  PROVE  RowsOfQuality(u) \subseteq LeadingRows(u)
<1>1. DetailDocuments(u) \subseteq DocumentList(u) BY DEF DetailDocuments, DocumentList
<1>2. ASSUME NEW d \in DetailDocuments(u)
      PROVE  DocumentRow(d) \in LeadingRows(u) /\ RepairRow(held.doc[d].repair) \in LeadingRows(u)
  BY <1>1, ListedRowsLead DEF RowsOfDocument, RowsOfRepair
<1>3. ASSUME NEW l \in DetailWorks(u) \cup DetailParts(u)
      PROVE  {RepairRow(l[1])} \cup ({DocumentRow(CanonicalSource(l[1]))} \ {DocumentRow(Nothing)}) \subseteq LeadingRows(u)
  <2>1. PICK r \in VisibleRepairs(u) : Operational(r) /\ l[1] = r BY <1>3 DEF DetailWorks, DetailParts, Lines
  <2>2. RepairRow(r) \in LeadingRows(u) /\ RepairOpens(u, r) /\ r \in Repairs BY <2>1, RepairLeads
  <2>3. ASSUME CanonicalSource(r) # Nothing PROVE DocumentRow(CanonicalSource(r)) \in LeadingRows(u)
    <3>1. PrimaryCandidate(r) = CanonicalSource(r) BY <2>2, SourceIsCanonical
    <3>2. SourceDocument(r, Archive(u)) = CanonicalSource(r) BY <2>3, <3>1 DEF SourceDocument
    <3>3. CanonicalSource(r) \in ShownDocuments(u, r) BY <2>2, <2>3, <3>2, SourceIsShown
    <3> DEFINE d == CanonicalSource(r)
    <3>4. d \in Docs /\ held.doc[d].repair = r /\ (held.doc[d].status # "archived" \/ u \in Admins)
      BY <3>3 DEF ShownDocuments, DocsOf, Archive
    <3> HIDE DEF d
    <3> QED BY <2>2, <3>4, DocumentLeads DEF d
  <2> QED BY <2>1, <2>2, <2>3
<1> QED BY <1>2, <1>3 DEF RowsOfQuality

(* The rows of a page that opened.                                           *)
LEMMA PageRowsLead ==
  ASSUME held \in Database, NEW u \in Users, NEW row \in RowsOfPages, Opens(u, row)
  PROVE  PageRows(u, row) \subseteq LeadingRows(u)
<1>1. ASSUME NEW v \in Vehicles, VehicleOpens(u, v) PROVE VehiclePageRows(v) \subseteq LeadingRows(u)
  <2>1. ASSUME NEW r \in VehicleHistory(v) PROVE RepairRow(r) \in LeadingRows(u)
    <3>1. r \in Repairs /\ held.repair[r].vehicle = v /\ HistoryShown(r) BY <2>1 DEF VehicleHistory
    <3>2. r \in VisibleRepairs(u) BY <1>1, <3>1 DEF VehicleOpens, VehicleScope, VisibleRepairs
    <3>3. u \notin Admins => VehicleOf(r).status # "archived"
      BY <1>1, <3>1 DEF VehicleOpens, VehicleScope, AllowedVehicles, VehicleOf
    <3>4. RepairOpens(u, r) BY <3>1, <3>2, <3>3 DEF RepairOpens, HistoryShown
    <3> QED BY <3>2, <3>4, RepairLeads
  <2> QED BY <2>1 DEF VehiclePageRows
<1>2. ASSUME NEW r \in Repairs, NEW d \in ShownDocuments(u, r), RepairOpens(u, r) PROVE DocumentRow(d) \in LeadingRows(u)
  <2>1. d \in Docs /\ held.doc[d].repair = r /\ (held.doc[d].status # "archived" \/ u \in Admins)
    BY <1>2 DEF ShownDocuments, DocsOf, Archive
  <2> QED BY <1>2, <2>1, DocumentLeads
<1>3. ASSUME NEW r \in Repairs, RepairOpens(u, r) PROVE RepairPageRows(u, r) \subseteq LeadingRows(u)
  <2>1. r \in VisibleRepairs(u) BY <1>3 DEF RepairOpens
  <2>2. VehicleRow(held.repair[r].vehicle) \in LeadingRows(u) BY <2>1, RepairLeads
  <2>3. SourceDocument(r, Archive(u)) \in ShownDocuments(u, r) \cup {Nothing} BY SourceIsShown
  <2> QED BY <1>2, <1>3, <2>2, <2>3 DEF RepairPageRows
<1>4. ASSUME NEW d \in Docs, DocumentOpens(u, d) PROVE ReportRows(u, d) \subseteq LeadingRows(u)
  <2> DEFINE r == held.doc[d].repair
  <2>1. r \in Repairs BY DEF Database
  <2>2. RepairOpens(u, r) /\ DocumentRow(d) \in LeadingRows(u) BY <1>4, DocumentLeads
  <2>3. RepairRow(r) \in LeadingRows(u)
    <3>1. r \in VisibleRepairs(u) BY <2>2 DEF RepairOpens
    <3> QED BY <2>2, <3>1, RepairLeads
  <2>4. SourceDocument(r, Archive(u)) \in ShownDocuments(u, r) \cup {Nothing} BY <2>1, SourceIsShown
  <2>5. ReportDocument(u, r, d) = d BY <1>4, SourcesAgree DEF SourceAgrees
  <2> QED BY <1>2, <2>1, <2>2, <2>3, <2>4, <2>5 DEF ReportRows
<1>5. CASE row \in {"vehicle"} \X Vehicles
  <2>1. row[1] = "vehicle" /\ row[2] \in Vehicles BY <1>5
  <2> QED BY <1>1, <2>1 DEF PageRows, Opens
<1>6. CASE row \in {"repair"} \X Repairs
  <2>1. row[1] = "repair" /\ row[2] \in Repairs BY <1>6
  <2> QED BY <1>3, <2>1 DEF PageRows, Opens
<1>7. CASE row \in {"document"} \X Docs
  <2>1. row[1] = "document" /\ row[2] \in Docs BY <1>7
  <2> QED BY <1>4, <2>1 DEF PageRows, Opens
<1> QED BY <1>5, <1>6, <1>7 DEF RowsOfPages

-----------------------------------------------------------------------------
(* The invariant: the rows of a page are among those that lead somewhere.    *)
PageLeads == ReadsTypeOK /\ \A u \in Users : page.user = u => page.links \subseteq LeadingRows(u)

LEMMA PageLeadsStart == ReadsInit => PageLeads
BY DEF ReadsInit, PageLeads, ReadsTypeOK

LEMMA PageLeadsStep == PageLeads /\ [ReadsNext]_readVars => PageLeads'
<1> SUFFICES ASSUME PageLeads, [ReadsNext]_readVars PROVE PageLeads' OBVIOUS
<1> USE DEF PageLeads, ReadsTypeOK
<1>0. ASSUME NEW u \in Users, held' = held PROVE LeadingRows(u)' = LeadingRows(u)
  <2>1. AllowedVehicles(u)' = AllowedVehicles(u) BY <1>0 DEF AllowedVehicles, RealVehicle
  <2>2. VisibleRepairs(u)' = VisibleRepairs(u) BY <1>0, <2>1 DEF VisibleRepairs, OwnPreliminary
  <2>3. \A v : VehicleOpens(u, v)' <=> VehicleOpens(u, v) BY <2>1 DEF VehicleOpens, VehicleScope
  <2>4. \A r : RepairOpens(u, r)' <=> RepairOpens(u, r) BY <1>0, <2>2 DEF RepairOpens, VehicleOf, ServiceArchived
  <2>5. \A d : DocumentOpens(u, d)' <=> DocumentOpens(u, d)
    BY <1>0, <2>2 DEF DocumentOpens, VehicleOf, ServiceArchived
  <2>6. \A row : Opens(u, row)' <=> Opens(u, row) BY <2>3, <2>4, <2>5 DEF Opens
  <2>7. \A row : Leads(u, row)' <=> Leads(u, row) BY <1>0, <2>6 DEF Leads, OwnPreliminary
  <2> QED BY <2>7 DEF LeadingRows, RowsOfPages
<1>1. held \in Database /\ page.user \in Users OBVIOUS
<1>2. ASSUME NEW shown, Show(shown), shown \subseteq LeadingRows(page.user) PROVE PageLeads'
  <2>1. held' = held /\ page'.links = shown /\ page'.user = page.user BY <1>2 DEF Show
  <2>2. shown \subseteq RowsOfPages BY <1>2 DEF LeadingRows
  <2>3. page' \in [user : Users, links : SUBSET RowsOfPages] BY <1>2, <2>2 DEF Show
  <2>4. ASSUME NEW u \in Users, page'.user = u PROVE (page.links \subseteq LeadingRows(u))'
    <3>1. LeadingRows(u)' = LeadingRows(u) BY <1>0, <2>1
    <3> QED BY <1>2, <2>1, <2>4, <3>1
  <2> QED BY <2>1, <2>3, <2>4
<1>3. CASE ListDocuments BY <1>1, <1>2, <1>3, ListedRowsLead DEF ListDocuments
<1>4. CASE ListVehicles BY <1>1, <1>2, <1>4, ListedRowsLead DEF ListVehicles
<1>5. CASE GlobalSearch
  <2>1. SearchDocuments(page.user) = DocumentList(page.user) BY <1>1, DocumentsAgree
  <2>2. SearchVehicles(page.user) = VehicleList(page.user) BY DEF SearchVehicles, VehicleList
  <2> QED BY <1>1, <1>2, <1>5, <2>1, <2>2, ListedRowsLead DEF GlobalSearch
<1>6. CASE ReviewQueue
  <2>1. Queue(page.user) \subseteq DocumentList(page.user) BY <1>1, OperationalDocument DEF Queue, DocumentList
  <2> QED BY <1>1, <1>2, <1>6, <2>1, ListedRowsLead DEF ReviewQueue
<1>7. CASE QualityDetails BY <1>1, <1>2, <1>7, QualityRowsLead DEF QualityDetails
<1>8. ASSUME NEW row \in page.links, Follow(row) PROVE PageLeads'
  <2>1. row \in RowsOfPages OBVIOUS
  <2>2. Opens(page.user, row) /\ Show(PageRows(page.user, row)) BY <1>8 DEF Follow
  <2> QED BY <1>1, <1>2, <2>1, <2>2, PageRowsLead
<1>9. CASE UNCHANGED readVars
  <2>1. held' = held /\ page' = page BY <1>9 DEF readVars
  <2>2. ASSUME NEW u \in Users, page'.user = u PROVE (page.links \subseteq LeadingRows(u))'
    <3>1. LeadingRows(u)' = LeadingRows(u) BY <1>0, <2>1
    <3> QED BY <2>1, <2>2, <3>1
  <2> QED BY <2>1, <2>2
<1> QED BY <1>3, <1>4, <1>5, <1>6, <1>7, <1>8, <1>9 DEF ReadsNext

(* Whatever the database holds and however a user looks around, what he is   *)
(* shown opens, and figures, rows, categories and sources agree: two SQL     *)
(* formulations, or SQL and Python, of one question (queries.py, queue.py,   *)
(* search.py, vehicles.py, repair_relations.py, visibility.py).              *)
THEOREM ShownRowsAgree == ReadsSpec => []ReadsAgree
<1>1. PageLeads => ReadsAgree
  <2> SUFFICES ASSUME PageLeads PROVE ReadsAgree OBVIOUS
  <2>1. ReadsTypeOK /\ held \in Database BY DEF PageLeads, ReadsTypeOK
  <2>2. page.user \in Users BY DEF PageLeads, ReadsTypeOK
  <2>3. RowsOpen BY <2>2 DEF RowsOpen, PageLeads, LeadingRows, Leads
  <2> QED BY <2>1, <2>3, AllFiguresAgree, QueueIsActedOn, SourcesAgree DEF ReadsAgree
<1> QED BY <1>1, PageLeadsStart, PageLeadsStep, PTL DEF ReadsSpec

(***************************************************************************)
(* The schema: SchemaInv says of what is committed, and of what an open run *)
(* sees, what VersionDescribesSchema says of the first. MigrationFacts, which *)
(* TLC computes, has each migration applied once to the schema of a fresh   *)
(* database; LabelsDisturbNothing carries it over to every state that runs   *)
(* can leave, in any order, with any stops.                                *)
(***************************************************************************)

\* What a run works on or has committed: the schema of its revision, perhaps with late labels.
Described(d) ==
  LET fresh == FreshSchema[dialect][d.revision] IN
  /\ d = [revision |-> d.revision, schema |-> d.schema]
  /\ d.revision \in 0 .. HeadRevision
  /\ fresh \subseteq d.schema
  /\ d.schema \subseteq fresh \cup InDialect(dialect, LateLabels)

SchemaInv ==
  /\ dialect \in Dialects
  /\ goal \in Stops \cup {NoRun}
  /\ goal = NoRun => work = db
  /\ Described(db)
  /\ Described(work)

\* A late label is one of the queue's two.
LEMMA LateLabel ==
  ASSUME NEW x, NEW e \in InDialect(x, LateLabels)
  PROVE  e[1] = "label" /\ e[2] = "importstatus" /\ e \in LateLabels
BY SMT DEF InDialect, LateLabels, Labels

\* Labels that are left over disturb no change of the schema: it still applies, and leaves
\* what it would have left, with or without those labels.
LEMMA LabelsDisturbNothing ==
  ASSUME NEW x, NEW s, NEW c, NEW L, L \subseteq InDialect(x, LateLabels),
         ChangeApplies(x, s, c)
  PROVE  /\ ChangeApplies(x, s \cup L, c)
         /\ Altered(x, s, c) \subseteq Altered(x, s \cup L, c)
         /\ Altered(x, s \cup L, c) \subseteq Altered(x, s, c) \cup L
<1> DEFINE more == s \cup L
           A == Altered(x, s, c)
           B == Altered(x, more, c)
<1>1. \A e \in L : e[1] = "label"
  BY LateLabel
<1>2. Without(s, c) \subseteq Without(more, c) /\ Without(more, c) \subseteq Without(s, c) \cup L
  BY DEF Without
<1>3. A \subseteq B /\ B \subseteq A \cup L
  BY <1>2 DEF Altered
<1>4. Dangling(B) = {}
  <2>1. Dangling(A) = {}
    BY DEF ChangeApplies
  <2> HIDE DEF A, B
  <2>2. ASSUME NEW e \in Dangling(B) PROVE e \in Dangling(A)
    <3>1. e \in A
      BY <1>1, <1>3, <2>2 DEF Dangling
    <3>2. QED
      BY <1>3, <2>2, <3>1 DEF Dangling
  <2>3. QED
    BY <2>1, <2>2
<1>5. InDialect(x, c.drop) \subseteq more
  BY DEF ChangeApplies
<1>6. c.tables \subseteq {e[2] : e \in {y \in more : y[1] = "column"}}
  BY DEF ChangeApplies
<1>7. {e \in InDialect(x, c.add) : e[1] # "label"} \cap Without(more, c) = {}
  <2>1. {e \in InDialect(x, c.add) : e[1] # "label"} \cap Without(s, c) = {}
    BY DEF ChangeApplies
  <2>2. QED
    BY <1>1, <1>2, <2>1
<1>8. ChangeApplies(x, more, c)
  BY <1>4, <1>5, <1>6, <1>7 DEF ChangeApplies
<1>9. QED
  BY <1>3, <1>8

\* The next migration up applies to what the run sees, and leads to the next revision's schema.
LEMMA MigrationStepUp ==
  ASSUME SchemaInv, GoesUp
  PROVE  /\ ChangeApplies(dialect, work.schema, UpgradeOf(work))
         /\ Described([revision |-> work.revision + 1, schema |-> Altered(dialect, work.schema, UpgradeOf(work))])
<1> DEFINE n == work.revision + 1
           fresh == FreshSchema[dialect]
           up == Upgrades(dialect)[n]
           L == work.schema \ fresh[n - 1]
           late == InDialect(dialect, LateLabels)
<1>1. n \in 1 .. HeadRevision /\ n - 1 = work.revision /\ dialect \in Dialects /\ n \in 0 .. HeadRevision
  BY MigrationsAssumption DEF SchemaInv, Described, GoesUp, NoRun, HeadRevision
<1>2. ChangeApplies(dialect, fresh[n - 1], up) /\ Altered(dialect, fresh[n - 1], up) = fresh[n]
  BY <1>1, MigrationFacts
<1>3. work.schema = fresh[n - 1] \cup L /\ L \subseteq late
  BY <1>1 DEF SchemaInv, Described
<1>4. up = UpgradeOf(work)
  BY DEF UpgradeOf
<1> HIDE DEF up, L, fresh, late
<1> DEFINE before == fresh[n - 1]
<1> HIDE DEF n, before
<1>5. /\ ChangeApplies(dialect, before \cup L, up)
      /\ Altered(dialect, before, up) \subseteq Altered(dialect, before \cup L, up)
      /\ Altered(dialect, before \cup L, up) \subseteq Altered(dialect, before, up) \cup L
  BY <1>2, <1>3, LabelsDisturbNothing DEF late, before
<1>6. /\ ChangeApplies(dialect, work.schema, up)
      /\ fresh[n] \subseteq Altered(dialect, work.schema, up)
      /\ Altered(dialect, work.schema, up) \subseteq fresh[n] \cup L
  BY <1>2, <1>3, <1>5 DEF before
<1>7. Described([revision |-> n, schema |-> Altered(dialect, work.schema, up)])
  <2>1. Altered(dialect, work.schema, up) \subseteq fresh[n] \cup late
    BY <1>3, <1>6
  <2>2. QED
    BY <1>1, <1>6, <2>1 DEF Described, fresh, late
<1>8. QED
  BY <1>4, <1>6, <1>7 DEF n

\* And so does the way back.
LEMMA MigrationStepDown ==
  ASSUME SchemaInv, GoesDown
  PROVE  /\ ChangeApplies(dialect, work.schema, DowngradeOf(work))
         /\ Described([revision |-> work.revision - 1,
                       schema |-> Altered(dialect, work.schema, DowngradeOf(work))])
<1> DEFINE n == work.revision
           fresh == FreshSchema[dialect]
           down == Downgrades(dialect)[n]
           below == Altered(dialect, fresh[n], down)
           L == work.schema \ fresh[n]
           late == InDialect(dialect, LateLabels)
<1>1. n \in 1 .. HeadRevision /\ n - 1 \in 0 .. HeadRevision /\ dialect \in Dialects
  BY MigrationsAssumption DEF SchemaInv, Described, GoesDown, NoRun, HeadRevision
<1>2. ChangeApplies(dialect, fresh[n], down) /\ fresh[n - 1] \subseteq below /\ below \subseteq fresh[n - 1] \cup late
  BY <1>1, MigrationFacts
<1>3. work.schema = fresh[n] \cup L /\ L \subseteq late
  BY DEF SchemaInv, Described
<1>4. down = DowngradeOf(work)
  BY DEF DowngradeOf
<1> HIDE DEF down, L, fresh, late
<1> DEFINE there == fresh[n]
<1> HIDE DEF n, there
<1>5. /\ ChangeApplies(dialect, there \cup L, down)
      /\ Altered(dialect, there, down) \subseteq Altered(dialect, there \cup L, down)
      /\ Altered(dialect, there \cup L, down) \subseteq Altered(dialect, there, down) \cup L
  BY <1>2, <1>3, LabelsDisturbNothing DEF late, there
<1>6. /\ ChangeApplies(dialect, work.schema, down)
      /\ below \subseteq Altered(dialect, work.schema, down)
      /\ Altered(dialect, work.schema, down) \subseteq below \cup L
  BY <1>2, <1>3, <1>5 DEF there
<1>7. Described([revision |-> n - 1, schema |-> Altered(dialect, work.schema, down)])
  <2>1. /\ fresh[n - 1] \subseteq Altered(dialect, work.schema, down)
        /\ Altered(dialect, work.schema, down) \subseteq fresh[n - 1] \cup late
    BY <1>2, <1>3, <1>6
  <2>2. QED
    BY <1>1, <2>1 DEF Described, fresh, late
<1>8. QED
  BY <1>4, <1>6, <1>7 DEF n

\* A fresh database has revision 0 and no schema.
LEMMA SchemaInit == MigrationsInit => SchemaInv
<1> SUFFICES ASSUME MigrationsInit PROVE SchemaInv
  OBVIOUS
<1>1. FreshSchema[dialect][0] = {}
  BY MigrationFacts DEF MigrationsInit
<1>2. Described(db)
  BY <1>1 DEF Described, MigrationsInit, HeadRevision
<1>3. QED
  BY <1>2 DEF SchemaInv, MigrationsInit

\* A step of a run takes what it sees from one described state to another; what it commits is
\* what it sees, and what a failed run falls back to is what was committed.
LEMMA SchemaStep == SchemaInv /\ [MigrationsNext]_migrationVars => SchemaInv'
<1> SUFFICES ASSUME SchemaInv, [MigrationsNext]_migrationVars PROVE SchemaInv'
  OBVIOUS
<1>1. ASSUME NEW n \in Stops, StartRun(n) PROVE SchemaInv'
  BY <1>1, MigrationsAssumption DEF SchemaInv, StartRun, Described, NoRun
<1>2. ASSUME NEW r, NEW c, goal # NoRun, ChangeApplies(dialect, work.schema, c),
             Described([revision |-> r, schema |-> Altered(dialect, work.schema, c)]), Reaches(r, c)
      PROVE  SchemaInv'
  <2>1. Described(work)'
    BY <1>2 DEF Reaches, Described
  <2>2. Described(db)'
    BY <1>2, <2>1 DEF Reaches, Described, SchemaInv
  <2>3. QED
    BY <1>2, <2>1, <2>2 DEF SchemaInv, Reaches
<1>3. CASE StepUp
  <2>1. GoesUp /\ goal # NoRun
    BY <1>3 DEF StepUp, GoesUp, SchemaInv, Described, NoRun
  <2>2. QED
    BY <1>2, <1>3, <2>1, MigrationStepUp DEF StepUp
<1>4. CASE StepDown
  BY <1>2, <1>4, MigrationStepDown DEF StepDown, GoesDown
<1>5. CASE AutocommitLabels
  <2>1. goal # NoRun /\ LateLabels = InDialect(dialect, LateLabels)
    BY <1>5 DEF AutocommitLabels, Autocommits, GoesUp, SchemaInv, Described, NoRun, InDialect
  <2>2. work' = [revision |-> work.revision, schema |-> work.schema \cup LateLabels]
    BY <1>5 DEF AutocommitLabels, SchemaInv, Described
  <2>3. Described(work)'
    BY <1>5, <2>1, <2>2 DEF AutocommitLabels, SchemaInv, Described
  <2>4. db' = work' /\ dialect' = dialect /\ goal' = goal
    BY <1>5 DEF AutocommitLabels
  <2>5. QED
    BY <2>1, <2>3, <2>4 DEF SchemaInv, Described
<1>6. CASE EndRun
  BY <1>6 DEF EndRun, SchemaInv, Described
<1>7. CASE AbortRun
  BY <1>7 DEF AbortRun, SchemaInv, Described
<1>8. CASE UNCHANGED migrationVars
  BY <1>8 DEF migrationVars, SchemaInv, Described
<1>9. QED
  BY <1>1, <1>3, <1>4, <1>5, <1>6, <1>7, <1>8 DEF MigrationsNext

\* SchemaInv is what the property says, of the committed state and of the open run alike.
LEMMA SchemaHolds == SchemaInv => SchemaFollowsRevision
<1> SUFFICES ASSUME SchemaInv PROVE SchemaFollowsRevision
  OBVIOUS
<1> DEFINE fresh == FreshSchema[dialect][db.revision]
           late == InDialect(dialect, LateLabels)
<1>1. dialect \in Dialects /\ db.revision \in 0 .. HeadRevision /\ fresh \subseteq db.schema /\ db.schema \subseteq fresh \cup late
  BY DEF SchemaInv, Described
<1>2. InDialect(dialect, fresh) = fresh /\ late \subseteq LateLabels
  BY <1>1, MigrationFacts, LateLabel
<1>3. MigrationsTypeOK
  BY DEF SchemaInv, Described, MigrationsTypeOK
<1>4. VersionDescribesSchema
  BY <1>1, <1>2 DEF VersionDescribesSchema
<1>5. HeadIsModels
  <2> SUFFICES ASSUME db.revision = HeadRevision PROVE db.schema = InDialect(dialect, ModelSchema)
    BY DEF HeadIsModels
  <2>1. fresh = InDialect(dialect, ModelSchema)
    BY <1>1, MigrationFacts
  <2>2. late \subseteq InDialect(dialect, ModelSchema)
    BY MigrationFacts DEF InDialect
  <2>3. QED
    BY <1>1, <2>1, <2>2
<1>6. DdlApplies
  BY MigrationStepUp, MigrationStepDown DEF DdlApplies
<1>7. QED
  BY <1>3, <1>4, <1>5, <1>6 DEF SchemaFollowsRevision

\* Whatever runs of alembic went up or down, to whatever revisions, and wherever they failed:
\* the recorded revision says what the schema is, at the head it is what the ORM models
\* declare, and no migration is ever stopped by what it finds.
THEOREM SchemaTheorem == MigrationsSpec => []SchemaFollowsRevision
BY SchemaInit, SchemaStep, SchemaHolds, PTL DEF MigrationsSpec
=============================================================================
