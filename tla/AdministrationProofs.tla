------------------------ MODULE AdministrationProofs ------------------------
(***************************************************************************)
(* Proofs about the parts of the administration: the rate limiter,         *)
(* accounts, vehicle assignments and labor norms, and the types of all     *)
(* four together. In each of the last three a request in flight carries    *)
(* what it read, and the invariant says how much of that still holds when  *)
(* it commits.                                                             *)
(***************************************************************************)
EXTENDS Administration, TLAPS, Integers, FiniteSetTheorems, SequenceTheorems, WellFoundedInduction

-----------------------------------------------------------------------------
(***************************************************************************)
(* The limiter keeps its limits in every window and tells a refused client *)
(* a time that is late enough, for any limits, window, tick and number of  *)
(* attempts. A deque that drops only what has expired holds at least the   *)
(* attempts of the current window; every other window was current once.    *)
(***************************************************************************)

ElementsOf(b) == {b[i] : i \in 1 .. Len(b)}

\* Attempts whose time for a rule is final.
Passed(rule, a) ==
  IF rule = "address" THEN attempt[a].stage \notin {"new", "timed"}
                      ELSE attempt[a].stage \in {"accepted", "ended"}

ReadInThePast == \A rule \in Rules, a \in Attempts : readAt[rule][a] <= clock
CountsPassed ==
  /\ \A rule \in Rules : \A a \in counted[rule] : Passed(rule, a)
  /\ \A a \in Attempts :
       attempt[a].stage \in {"checked", "timed2", "accepted"} => a \in counted["address"]
BucketsPassed ==
  \A rule \in Rules, k \in Keys : \A a \in ElementsOf(bucket[rule][k]) : Passed(rule, a)
WindowsInBuckets ==
  \A rule \in Rules, k \in Keys, t \in Nat :
    t = clock => CountedIn(rule, k, t) \subseteq ElementsOf(bucket[rule][k])
OldWindows ==
  \A rule \in Rules, k \in Keys : \A t \in 0 .. clock :
    Cardinality(CountedIn(rule, k, t) \ late[rule]) <= MaxRequests(rule)

RefusedBy(a) == IF a \in counted["address"] THEN "login" ELSE "address"
WaitsEnough(rule, w) ==
  /\ Len(w.ahead) \in 1 .. MaxRequests(rule)
  /\ Passed(rule, w.ahead[1])
  /\ readAt[rule][w.ahead[1]] + Window <= w.retry
RefusedWait == \A a \in Attempts : attempt[a].stage = "refused" => WaitsEnough(RefusedBy(a), told[a])

LimiterInv ==
  /\ LimiterTypeOK /\ ReadInThePast /\ CountsPassed /\ BucketsPassed
  /\ WindowsInBuckets /\ OldWindows /\ RefusedWait

(* What is kept begins with the first attempt that has not expired.          *)
LEMMA FirstKeptIsFirst ==
  ASSUME NEW rule \in Rules, NEW b \in Seq(Attempts), NEW now \in Nat,
         readAt \in [Rules -> [Attempts -> Nat]]
  PROVE  /\ FirstKept(rule, b, now) \in 1 .. Len(b) + 1
         /\ \A j \in 1 .. FirstKept(rule, b, now) - 1 : readAt[rule][b[j]] + Window <= now
         /\ FirstKept(rule, b, now) <= Len(b) =>
              readAt[rule][b[FirstKept(rule, b, now)]] + Window > now
<1> DEFINE T == {i \in 1 .. Len(b) + 1 : i <= Len(b) => readAt[rule][b[i]] + Window > now}
<1>1. Len(b) \in Nat /\ \A i \in 1 .. Len(b) : b[i] \in Attempts /\ readAt[rule][b[i]] \in Nat
  OBVIOUS
<1>2. T \subseteq Nat /\ T # {}
  <2>1. Len(b) + 1 \in T BY <1>1
  <2>2. T \subseteq 1 .. Len(b) + 1 OBVIOUS
  <2>3. 1 .. Len(b) + 1 \subseteq Nat OBVIOUS
  <2> QED BY <2>1, <2>2, <2>3
<1>3. PICK t \in T : \A u \in T : ~(<<u, t>> \in OpToRel(<, Nat))
  <2> HIDE DEF T
  <2> QED BY <1>2, NatLessThanWellFounded, WFMin
<1>4. \A u \in T : ~(u < t)
  BY <1>2, <1>3 DEF OpToRel
<1>5. \A j \in 1 .. t - 1 : readAt[rule][b[j]] + Window <= now
  <2> SUFFICES ASSUME NEW j \in 1 .. t - 1 PROVE readAt[rule][b[j]] + Window <= now
    OBVIOUS
  <2>1. j \in 1 .. Len(b) /\ j < t BY <1>1
  <2>2. j \notin T BY <2>1, <1>4
  <2>3. ~(readAt[rule][b[j]] + Window > now) BY <1>1, <2>1, <2>2
  <2>4. readAt[rule][b[j]] + Window \in Nat BY <1>1, <2>1, LimiterAssumption
  <2> QED BY <2>3, <2>4
<1>6. t \in 1 .. Len(b) + 1 /\ (t <= Len(b) => readAt[rule][b[t]] + Window > now)
  OBVIOUS
<1> QED BY <1>5, <1>6 DEF FirstKept

(* Pruning drops only attempts that have expired, and all of those in front. *)
LEMMA PrunedKeeps ==
  ASSUME NEW rule \in Rules, NEW b \in Seq(Attempts), NEW now \in Nat,
         readAt \in [Rules -> [Attempts -> Nat]]
  PROVE  /\ Pruned(rule, b, now) \in Seq(Attempts)
         /\ Len(Pruned(rule, b, now)) <= Len(b)
         /\ ElementsOf(Pruned(rule, b, now)) \subseteq ElementsOf(b)
         /\ \A a \in ElementsOf(b) :
              readAt[rule][a] + Window > now => a \in ElementsOf(Pruned(rule, b, now))
         /\ Len(b) >= 1 /\ readAt[rule][b[1]] + Window <= now =>
              Len(Pruned(rule, b, now)) < Len(b)
<1> DEFINE f == FirstKept(rule, b, now)
           p == Pruned(rule, b, now)
<1>1. /\ f \in 1 .. Len(b) + 1
      /\ \A j \in 1 .. f - 1 : readAt[rule][b[j]] + Window <= now
      /\ f <= Len(b) => readAt[rule][b[f]] + Window > now
  BY FirstKeptIsFirst
<1>2. Len(b) \in Nat /\ \A i \in 1 .. Len(b) : b[i] \in Attempts /\ readAt[rule][b[i]] \in Nat
  OBVIOUS
<1> HIDE DEF f
<1>3. p = SubSeq(b, f, Len(b)) BY DEF Pruned, f
<1>4. /\ p \in Seq(Attempts)
      /\ Len(p) = IF f <= Len(b) THEN Len(b) - f + 1 ELSE 0
      /\ \A i \in 1 .. Len(b) - f + 1 : p[i] = b[f + i - 1]
  <2>1. \A i \in f .. Len(b) : b[i] \in Attempts BY <1>1, <1>2
  <2>2. f \in Int /\ Len(b) \in Int BY <1>1, <1>2
  <2> HIDE DEF p
  <2> QED BY <1>3, <2>1, <2>2, SubSeqProperties
<1> HIDE DEF p
<1>5. Len(p) = Len(b) - f + 1 BY <1>1, <1>2, <1>4
<1>6. ElementsOf(p) \subseteq ElementsOf(b)
  <2> SUFFICES ASSUME NEW i \in 1 .. Len(p) PROVE p[i] \in ElementsOf(b)
    BY DEF ElementsOf
  <2>1. i \in 1 .. Len(b) - f + 1 BY <1>5
  <2>2. f \in Nat /\ f >= 1 /\ i \in Nat /\ i >= 1 /\ i <= Len(b) - f + 1 BY <1>1, <1>2, <2>1
  <2>3. f + i - 1 \in 1 .. Len(b) BY <1>2, <2>2
  <2>4. p[i] = b[f + i - 1] BY <1>4, <2>1
  <2> QED BY <2>3, <2>4 DEF ElementsOf
<1>7. ASSUME NEW i \in 1 .. Len(b), readAt[rule][b[i]] + Window > now
      PROVE  b[i] \in ElementsOf(p)
  <2>1. i >= f
    <3>1. readAt[rule][b[i]] + Window \in Nat BY <1>2, LimiterAssumption
    <3>2. i \notin 1 .. f - 1 BY <3>1, <1>1, <1>7
    <3> QED BY <3>2, <1>1
  <2>2. i - f + 1 \in 1 .. Len(p) BY <1>1, <1>2, <1>5, <2>1
  <2>3. p[i - f + 1] = b[i]
    <3>1. PICK j \in 1 .. Len(b) - f + 1 : j = i - f + 1 BY <1>5, <2>2
    <3>2. f + j - 1 = i BY <1>1, <1>2, <3>1
    <3>3. p[j] = b[f + j - 1] BY <1>4
    <3> QED BY <3>1, <3>2, <3>3
  <2> QED BY <2>2, <2>3 DEF ElementsOf
<1>8. Len(p) <= Len(b) BY <1>1, <1>2, <1>5
<1>9. Len(b) >= 1 /\ readAt[rule][b[1]] + Window <= now => Len(p) < Len(b)
  <2> HAVE Len(b) >= 1 /\ readAt[rule][b[1]] + Window <= now
  <2>1. readAt[rule][b[1]] + Window \in Nat BY <1>2, LimiterAssumption
  <2>2. f # 1 BY <2>1, <1>1
  <2> QED BY <2>2, <1>1, <1>2, <1>5
<1> QED BY <1>4, <1>6, <1>7, <1>8, <1>9 DEF ElementsOf, p

(* A set of attempts that are all in a bucket is no larger than the bucket.   *)
LEMMA BucketBounds ==
  ASSUME NEW b \in Seq(Attempts), NEW S, S \subseteq ElementsOf(b)
  PROVE  IsFiniteSet(S) /\ Cardinality(S) <= Len(b)
<1> DEFINE E == ElementsOf(b)
           g == [i \in 1 .. Len(b) |-> b[i]]
<1>1. Len(b) \in Nat OBVIOUS
<1>2. g \in Surjection(1 .. Len(b), E)
  BY DEF Surjection, ElementsOf
<1>3. IsFiniteSet(1 .. Len(b)) /\ Cardinality(1 .. Len(b)) = Len(b)
  BY <1>1, FS_Interval
<1>4. IsFiniteSet(E) /\ Cardinality(E) <= Len(b)
  <2> HIDE DEF g, E
  <2> QED BY <1>2, <1>3, FS_Surjection
<1>5. IsFiniteSet(S) /\ Cardinality(S) <= Cardinality(E)
  BY <1>4, FS_Subset
<1>6. Cardinality(S) \in Nat /\ Cardinality(E) \in Nat
  BY <1>4, <1>5, FS_CardinalityType
<1> QED BY <1>1, <1>4, <1>5, <1>6

(* Rounding up to whole seconds never comes out early.                       *)
LEMMA CeilIsEnough ==
  ASSUME NEW t \in Int
  PROVE  CeilSeconds(t) \in Int /\ Second * CeilSeconds(t) >= t
<1>1. Second \in Nat \ {0} BY LimiterAssumption
<1>2. \A n \in Int : n \div Second \in Int /\ Second * (n \div Second) > n - Second
  BY <1>1
<1>3. t + Second - 1 \in Int BY <1>1
<1> QED BY <1>1, <1>2, <1>3 DEF CeilSeconds

(* The time a client is told is not before the attempt in front expires.     *)
LEMMA RetryIsLate ==
  ASSUME NEW rule \in Rules, NEW b \in Seq(Attempts), NEW now \in Nat, Len(b) >= 1,
         readAt \in [Rules -> [Attempts -> Nat]]
  PROVE  /\ now + Second * RetryAfter(rule, b, now) \in Nat
         /\ readAt[rule][b[1]] + Window <= now + Second * RetryAfter(rule, b, now)
<1> DEFINE t == (readAt[rule][b[1]] + Window) - now
<1>1. Second \in Nat \ {0} /\ Window \in Nat BY LimiterAssumption
<1>2. b[1] \in Attempts /\ readAt[rule][b[1]] \in Nat OBVIOUS
<1>3. t \in Int BY <1>1, <1>2
<1>4. CeilSeconds(t) \in Int /\ Second * CeilSeconds(t) >= t BY <1>3, CeilIsEnough
<1>5. RetryAfter(rule, b, now) = IF CeilSeconds(t) < 1 THEN 1 ELSE CeilSeconds(t)
  BY DEF RetryAfter
<1> HIDE DEF t
<1>6. CASE CeilSeconds(t) < 1
  <2>1. RetryAfter(rule, b, now) = 1 BY <1>5, <1>6
  <2>2. Second * CeilSeconds(t) <= 0
    <3>1. \A s \in Nat, c \in Int : c < 1 => s * c <= 0 OBVIOUS
    <3> QED BY <1>1, <1>4, <1>6, <3>1
  <2>3. t <= Second
    <3>1. Second * CeilSeconds(t) \in Int BY <1>1, <1>4
    <3> QED BY <2>2, <3>1, <1>1, <1>3, <1>4
  <2> QED BY <2>1, <2>3, <1>1, <1>2 DEF t
<1>7. CASE ~(CeilSeconds(t) < 1)
  <2>1. RetryAfter(rule, b, now) = CeilSeconds(t) BY <1>5, <1>7
  <2>2. Second * CeilSeconds(t) \in Nat BY <1>1, <1>4, <1>7
  <2> QED BY <2>1, <2>2, <1>1, <1>2, <1>4 DEF t
<1> QED BY <1>6, <1>7

(* The invariant implies what users are promised.                            *)
LEMMA InvariantSuffices == LimiterInv => WindowHolds
<1> SUFFICES ASSUME LimiterInv PROVE LimitHolds /\ RetryIsEnough
  BY DEF WindowHolds
<1> USE DEF LimiterInv
<1>1. LimitHolds
  <2> SUFFICES ASSUME NEW rule \in Rules, NEW k \in Keys
               PROVE  Cardinality(CountedIn(rule, k, clock)) <= MaxRequests(rule)
    BY DEF LimitHolds, OldWindows
  <2> DEFINE b == bucket[rule][k]
             S == CountedIn(rule, k, clock)
  <2>1. b \in Seq(Attempts) /\ Len(b) <= MaxRequests(rule) BY DEF LimiterTypeOK
  <2>2. clock \in Nat /\ MaxRequests(rule) \in Nat /\ Len(b) \in Nat
    BY <2>1, LimiterAssumption DEF LimiterTypeOK, MaxRequests
  <2>3. S \subseteq ElementsOf(b) BY <2>2 DEF WindowsInBuckets
  <2> HIDE DEF b, S
  <2>4. IsFiniteSet(S) /\ Cardinality(S) <= Len(b) BY <2>1, <2>3, BucketBounds
  <2>5. Cardinality(S) \in Nat BY <2>4, FS_CardinalityType
  <2> QED BY <2>1, <2>2, <2>4, <2>5 DEF S
<1>2. RetryIsEnough
  <2> SUFFICES ASSUME NEW a \in Attempts, attempt[a].stage = "refused"
               PROVE  Len(Pruned(RefusedBy(a), told[a].ahead, told[a].retry)) < MaxRequests(RefusedBy(a))
    BY DEF RetryIsEnough, RefusedBy
  <2> DEFINE rule == RefusedBy(a)
             b == told[a].ahead
             now == told[a].retry
  <2>1. rule \in Rules BY DEF RefusedBy, Rules
  <2>2. b \in Seq(Attempts) /\ now \in Nat /\ readAt \in [Rules -> [Attempts -> Nat]]
    BY DEF LimiterTypeOK
  <2>3. Len(b) \in 1 .. MaxRequests(rule) /\ readAt[rule][b[1]] + Window <= now
    BY DEF RefusedWait, WaitsEnough
  <2> HIDE DEF rule, b, now
  <2>4. Len(Pruned(rule, b, now)) < Len(b) /\ Pruned(rule, b, now) \in Seq(Attempts)
    BY <2>1, <2>2, <2>3, PrunedKeeps
  <2>5. Len(Pruned(rule, b, now)) \in Nat /\ MaxRequests(rule) \in Nat
    BY <2>4, LimiterAssumption DEF MaxRequests
  <2>6. Len(Pruned(rule, b, now)) < MaxRequests(rule) BY <2>3, <2>4, <2>5
  <2> QED BY <2>6 DEF rule, b, now
<1> QED BY <1>1, <1>2

LEMMA LimiterInitHolds == LimiterInit => LimiterInv
<1> SUFFICES ASSUME LimiterInit PROVE LimiterInv
  OBVIOUS
<1>1. LimiterTypeOK
  BY LimiterAssumption DEF LimiterInit, LimiterTypeOK, Stages, Rules, MaxRequests
<1>2. \A rule \in Rules : counted[rule] = {}
  BY DEF LimiterInit
<1>3. \A rule \in Rules, k \in Keys : ElementsOf(bucket[rule][k]) = {}
  BY DEF LimiterInit, ElementsOf
<1>4. \A a \in Attempts : attempt[a].stage = "new"
  BY DEF LimiterInit
<1>5. \A rule \in Rules, k \in Keys, t \in Nat : CountedIn(rule, k, t) = {}
  BY <1>2 DEF CountedIn
<1>6. ReadInThePast BY DEF LimiterInit, ReadInThePast
<1>7. OldWindows
  <2>1. Cardinality({}) = 0 BY FS_EmptySet
  <2>2. \A rule \in Rules : MaxRequests(rule) \in Nat BY LimiterAssumption DEF MaxRequests
  <2>3. clock = 0 BY DEF LimiterInit
  <2>4. \A rule \in Rules, k \in Keys, t \in 0 .. clock : CountedIn(rule, k, t) \ late[rule] = {}
    BY <1>5, <2>3
  <2> QED BY <2>1, <2>2, <2>4 DEF OldWindows
<1> QED
  BY <1>1, <1>2, <1>3, <1>4, <1>5, <1>6, <1>7
  DEF LimiterInv, CountsPassed, BucketsPassed, WindowsInBuckets, RefusedWait

(* Windows that are over keep their attempts, or are forgotten with their key. *)
LEMMA WindowsStep ==
  ASSUME LimiterInv, LimiterTypeOK', WindowsInBuckets', clock' \in Nat,
         clock' = clock \/ clock' = clock + 1,
         \A rule \in Rules, k \in Keys, t \in 0 .. clock :
           t < clock' => \/ (CountedIn(rule, k, t) \ late[rule])' = CountedIn(rule, k, t) \ late[rule]
                         \/ (CountedIn(rule, k, t) \ late[rule])' = {}
  PROVE  OldWindows'
<1>1. clock \in Nat /\ \A rule \in Rules : MaxRequests(rule) \in Nat
  BY LimiterAssumption DEF LimiterInv, LimiterTypeOK, MaxRequests
<1> SUFFICES ASSUME NEW rule \in Rules, NEW k \in Keys, NEW t \in 0 .. clock'
             PROVE  Cardinality((CountedIn(rule, k, t) \ late[rule])') <= MaxRequests(rule)
  BY DEF OldWindows, MaxRequests
<1>2. CASE t = clock'
  <2> DEFINE b == bucket'[rule][k]
             S == (CountedIn(rule, k, t) \ late[rule])'
  <2>1. b \in Seq(Attempts) /\ Len(b) <= MaxRequests(rule) BY DEF LimiterTypeOK, MaxRequests
  <2>2. S \subseteq ElementsOf(b) BY <1>2 DEF WindowsInBuckets, ElementsOf
  <2> HIDE DEF b, S
  <2>3. IsFiniteSet(S) /\ Cardinality(S) <= Len(b) BY <2>1, <2>2, BucketBounds
  <2>4. Cardinality(S) \in Nat /\ Len(b) \in Nat BY <2>1, <2>3, FS_CardinalityType
  <2> QED BY <1>1, <2>1, <2>3, <2>4 DEF S
<1>3. CASE t # clock'
  <2>1. t \in 0 .. clock /\ t < clock' BY <1>1, <1>3
  <2>2. Cardinality(CountedIn(rule, k, t) \ late[rule]) <= MaxRequests(rule)
    BY <2>1 DEF LimiterInv, OldWindows
  <2>3. Cardinality({}) <= MaxRequests(rule) BY <1>1, FS_EmptySet
  <2>4. \/ (CountedIn(rule, k, t) \ late[rule])' = CountedIn(rule, k, t) \ late[rule]
        \/ (CountedIn(rule, k, t) \ late[rule])' = {}
    BY <2>1
  <2> QED BY <2>2, <2>3, <2>4
<1> QED BY <1>2, <1>3

(* An attempt stays the attempt of its address and of its login.             *)
SameAttempts ==
  \A a \in Attempts : /\ attempt'[a].address = attempt[a].address
                      /\ attempt'[a].login = attempt[a].login

LEMMA SameWindow ==
  ASSUME LimiterTypeOK, SameAttempts, NEW rule \in Rules, counted'[rule] = counted[rule],
         \A a \in counted[rule] : readAt'[rule][a] = readAt[rule][a]
  PROVE  \A k \in Keys, t \in Nat : CountedIn(rule, k, t)' = CountedIn(rule, k, t)
<1>1. counted[rule] \subseteq Attempts BY DEF LimiterTypeOK
<1>2. \A a \in Attempts : KeyOf(rule, a)' = KeyOf(rule, a) BY DEF SameAttempts, KeyOf
<1> QED BY <1>1, <1>2 DEF CountedIn

LEMMA ReadClockStep ==
  ASSUME LimiterInv, NEW a \in Attempts, ReadClock(a)
  PROVE  LimiterInv'
<1> DEFINE r == RuleOf(attempt[a].stage)
<1> USE DEF LimiterInv
<1>1. /\ attempt[a].stage \in {"new", "checked"} /\ r \in Rules
      /\ readAt' = [readAt EXCEPT ![r][a] = clock]
      /\ attempt' = [attempt EXCEPT ![a].stage = IF @ = "new" THEN "timed" ELSE "timed2"]
      /\ UNCHANGED <<clock, bucket, late, counted, told>>
  BY DEF ReadClock, RuleOf, Rules
<1>2. ~Passed(r, a) BY DEF Passed, RuleOf, ReadClock
<1> HIDE DEF r
<1>3. LimiterTypeOK' BY <1>1 DEF LimiterTypeOK, Stages
<1>4. SameAttempts BY <1>1 DEF SameAttempts, LimiterTypeOK
<1>5. \A rule \in Rules, e \in Attempts : (rule # r \/ e # a) => readAt'[rule][e] = readAt[rule][e]
  BY <1>1 DEF LimiterTypeOK
<1>6. \A rule \in Rules, e \in Attempts : Passed(rule, e) => Passed(rule, e)'
  BY <1>1 DEF Passed, LimiterTypeOK
<1>7. \A rule \in Rules, e \in Attempts : Passed(rule, e) => readAt'[rule][e] = readAt[rule][e]
  BY <1>2, <1>5
<1>8. \A rule \in Rules, k \in Keys, t \in Nat : CountedIn(rule, k, t)' = CountedIn(rule, k, t)
  <2> SUFFICES ASSUME NEW rule \in Rules
               PROVE  \A k \in Keys, t \in Nat : CountedIn(rule, k, t)' = CountedIn(rule, k, t)
    OBVIOUS
  <2>1. counted[rule] \subseteq Attempts BY DEF LimiterTypeOK
  <2>2. \A e \in counted[rule] : readAt'[rule][e] = readAt[rule][e]
    BY <1>7, <2>1 DEF CountsPassed
  <2> QED BY <1>1, <1>4, <2>2, SameWindow
<1>9. ReadInThePast'
  BY <1>1, <1>5 DEF ReadInThePast, LimiterTypeOK
<1>10. CountsPassed'
  <2>1. \A rule \in Rules : counted[rule] \subseteq Attempts BY DEF LimiterTypeOK
  <2>2. attempt'[a].stage \in {"checked", "timed2", "accepted"} => a \in counted["address"]
    BY <1>1 DEF CountsPassed, LimiterTypeOK
  <2>3. \A e \in Attempts \ {a} : attempt'[e].stage = attempt[e].stage
    BY <1>1 DEF LimiterTypeOK
  <2> QED BY <1>1, <1>6, <2>1, <2>2, <2>3 DEF CountsPassed
<1>11. BucketsPassed'
  <2>1. \A rule \in Rules, k \in Keys : ElementsOf(bucket[rule][k]) \subseteq Attempts
    BY DEF LimiterTypeOK, ElementsOf
  <2> QED BY <1>1, <1>6, <2>1 DEF BucketsPassed
<1>12. WindowsInBuckets' BY <1>1, <1>8 DEF WindowsInBuckets
<1>13. OldWindows'
  <2>1. clock \in Nat /\ 0 .. clock \subseteq Nat BY DEF LimiterTypeOK
  <2>2. \A rule \in Rules, k \in Keys, t \in 0 .. clock :
          (CountedIn(rule, k, t) \ late[rule])' = CountedIn(rule, k, t) \ late[rule]
    BY <1>1, <1>8, <2>1
  <2> QED BY <1>1, <1>3, <1>12, <2>1, <2>2, WindowsStep
<1>14. RefusedWait'
  <2> SUFFICES ASSUME NEW e \in Attempts, attempt'[e].stage = "refused"
               PROVE  WaitsEnough(RefusedBy(e), told[e])'
    BY DEF RefusedWait
  <2>1. attempt[e].stage = "refused" BY <1>1 DEF LimiterTypeOK
  <2>2. WaitsEnough(RefusedBy(e), told[e]) BY <2>1 DEF RefusedWait
  <2>3. RefusedBy(e)' = RefusedBy(e) /\ RefusedBy(e) \in Rules BY <1>1 DEF RefusedBy, Rules
  <2>4. told[e].ahead[1] \in Attempts BY <2>2 DEF WaitsEnough, LimiterTypeOK
  <2> QED BY <1>1, <1>6, <1>7, <2>2, <2>3, <2>4 DEF WaitsEnough, MaxRequests
<1> QED BY <1>3, <1>9, <1>10, <1>11, <1>12, <1>13, <1>14

(* The rule, the key and the pruned bucket of an attempt that takes the lock. *)
RuleNow(a) == RuleOf(attempt[a].stage)
KeyNow(a) == KeyOf(RuleNow(a), a)
PrunedNow(a) == Pruned(RuleNow(a), bucket[RuleNow(a)][KeyNow(a)], readAt[RuleNow(a)][a])

HitPrunes(a, rule, k, b) ==
         /\ rule \in Rules /\ k \in Keys /\ readAt[rule][a] \in Nat /\ readAt[rule][a] <= clock
         /\ ~Passed(rule, a) /\ a \notin counted[rule]
         /\ b \in Seq(Attempts) /\ Len(b) <= MaxRequests(rule)
         /\ ElementsOf(b) \subseteq ElementsOf(bucket[rule][k])
         /\ CountedIn(rule, k, clock) \subseteq ElementsOf(b)
         /\ \A e \in ElementsOf(b) : Passed(rule, e)

LEMMA InvariantPrunes ==
  ASSUME LimiterInv, NEW a \in Attempts, attempt[a].stage \in {"timed", "timed2"}
  PROVE  HitPrunes(a, RuleNow(a), KeyNow(a), PrunedNow(a))
<1> DEFINE rule == RuleNow(a)
           k == KeyNow(a)
           b == PrunedNow(a)
           now == readAt[rule][a]
           old == bucket[rule][k]
<1> USE DEF LimiterInv
<1>1. rule \in Rules BY DEF RuleNow, RuleOf, Rules
<1>2. k \in Keys BY DEF KeyNow, KeyOf, Keys, LimiterTypeOK
<1>3. now \in Nat /\ now <= clock /\ clock \in Nat
  BY <1>1 DEF LimiterTypeOK, ReadInThePast
<1>4. ~Passed(rule, a) BY DEF Passed, RuleNow, RuleOf
<1>5. a \notin counted[rule] BY <1>1, <1>4 DEF CountsPassed
<1>6. /\ old \in Seq(Attempts) /\ Len(old) <= MaxRequests(rule) /\ MaxRequests(rule) \in Nat
      /\ readAt \in [Rules -> [Attempts -> Nat]]
  BY <1>1, <1>2, LimiterAssumption DEF LimiterTypeOK, MaxRequests
<1>7. CountedIn(rule, k, clock) \subseteq ElementsOf(old)
  BY <1>1, <1>2, <1>3 DEF WindowsInBuckets
<1>8. \A e \in ElementsOf(old) : Passed(rule, e)
  BY <1>1, <1>2 DEF BucketsPassed
<1>12. b = Pruned(rule, old, now) BY DEF PrunedNow
<1> HIDE DEF now, old, LimiterInv, rule, k, b
<1>9. /\ b \in Seq(Attempts) /\ Len(b) <= Len(old)
      /\ ElementsOf(b) \subseteq ElementsOf(old)
      /\ \A e \in ElementsOf(old) : readAt[rule][e] + Window > now => e \in ElementsOf(b)
  BY <1>1, <1>3, <1>6, <1>12, PrunedKeeps
<1>10. CountedIn(rule, k, clock) \subseteq ElementsOf(b)
  <2> SUFFICES ASSUME NEW e \in CountedIn(rule, k, clock) PROVE e \in ElementsOf(b)
    OBVIOUS
  <2>1. e \in ElementsOf(old) BY <1>7
  <2>2. e \in Attempts BY <2>1, <1>6 DEF ElementsOf
  <2>3. readAt[rule][e] \in Nat /\ Window \in Nat BY <2>2, <1>1, <1>6, LimiterAssumption
  <2>4. clock < readAt[rule][e] + Window BY DEF CountedIn
  <2>5. readAt[rule][e] + Window > now BY <2>3, <2>4, <1>3
  <2> QED BY <2>1, <2>5, <1>9
<1>11. Len(b) <= MaxRequests(rule) BY <1>6, <1>9
<1> QED
  BY <1>1, <1>2, <1>3, <1>4, <1>5, <1>8, <1>9, <1>10, <1>11
  DEF now, old, rule, k, b, HitPrunes

LEMMA HitRefusesStep ==
  ASSUME LimiterInv, NEW a \in Attempts, Hit(a), attempt'[a].stage = "refused"
  PROVE  LimiterInv'
<1> DEFINE rule == RuleNow(a)
           now == readAt[rule][a]
           k == KeyNow(a)
           b == PrunedNow(a)
<1>1. /\ attempt[a].stage \in {"timed", "timed2"}
      /\ late' = [late EXCEPT ![rule] = IF clock > now THEN @ \cup {a} ELSE @]
      /\ ~Admits(rule, b)
      /\ bucket' = [bucket EXCEPT ![rule][k] = b]
      /\ attempt' = [attempt EXCEPT ![a].stage = "refused"]
      /\ told' = [told EXCEPT ![a] = [retry |-> now + Second * RetryAfter(rule, b, now), ahead |-> b]]
      /\ UNCHANGED <<clock, readAt, counted>>
  BY DEF Hit, LimiterInv, LimiterTypeOK, RuleNow, KeyNow, PrunedNow
<1>2. /\ rule \in Rules /\ k \in Keys /\ now \in Nat /\ now <= clock
      /\ ~Passed(rule, a) /\ a \notin counted[rule]
      /\ b \in Seq(Attempts) /\ Len(b) <= MaxRequests(rule)
      /\ ElementsOf(b) \subseteq ElementsOf(bucket[rule][k])
      /\ CountedIn(rule, k, clock) \subseteq ElementsOf(b)
      /\ \A e \in ElementsOf(b) : Passed(rule, e)
  BY <1>1, InvariantPrunes DEF HitPrunes
<1>3. rule = IF attempt[a].stage = "timed" THEN "address" ELSE "login"
  BY <1>1 DEF RuleNow, RuleOf
<1> HIDE DEF rule, now, k, b
<1> USE DEF LimiterInv
<1>4. Len(b) \in Nat /\ MaxRequests(rule) \in Nat \ {0} /\ Len(b) = MaxRequests(rule)
  BY <1>1, <1>2, LimiterAssumption DEF Admits, MaxRequests
<1>5. /\ now + Second * RetryAfter(rule, b, now) \in Nat
      /\ readAt[rule][b[1]] + Window <= now + Second * RetryAfter(rule, b, now)
  <2>1. Len(b) >= 1 BY <1>4
  <2>2. readAt \in [Rules -> [Attempts -> Nat]] BY DEF LimiterTypeOK
  <2> HIDE DEF LimiterInv
  <2> QED BY <1>2, <2>1, <2>2, RetryIsLate
<1>6. LimiterTypeOK'
  <2>1. told' \in [Attempts -> [retry : Nat, ahead : Seq(Attempts)]]
    BY <1>1, <1>2, <1>5 DEF LimiterTypeOK
  <2>2. late' \in [Rules -> SUBSET Attempts] BY <1>1 DEF LimiterTypeOK
  <2>3. bucket' \in [Rules -> [Keys -> Seq(Attempts)]] BY <1>1, <1>2 DEF LimiterTypeOK
  <2>4. attempt' \in [Attempts -> [address : Addresses, login : Logins, stage : Stages]]
    BY <1>1 DEF LimiterTypeOK, Stages
  <2>5. \A r \in Rules, q \in Keys : Len(bucket'[r][q]) <= MaxRequests(r)
    BY <1>1, <1>2 DEF LimiterTypeOK
  <2> QED BY <1>1, <2>1, <2>2, <2>3, <2>4, <2>5 DEF LimiterTypeOK, MaxRequests
<1>7. SameAttempts BY <1>1 DEF SameAttempts, LimiterTypeOK
<1>8. \A r \in Rules, q \in Keys, t \in Nat : CountedIn(r, q, t)' = CountedIn(r, q, t)
  BY <1>1, <1>7, SameWindow
<1>9. \A r \in Rules, e \in Attempts : Passed(r, e) => Passed(r, e)'
  <2> SUFFICES ASSUME NEW r \in Rules, NEW e \in Attempts, Passed(r, e) PROVE Passed(r, e)'
    OBVIOUS
  <2>1. CASE e # a
    <3>1. attempt'[e] = attempt[e] BY <1>1, <2>1 DEF LimiterTypeOK
    <3> QED BY <3>1 DEF Passed
  <2>2. CASE e = a
    <3>1. attempt'[e].stage = "refused" BY <1>1, <2>2 DEF LimiterTypeOK
    <3>2. r = "address" BY <1>1, <2>2 DEF Passed
    <3> QED BY <3>1, <3>2 DEF Passed
  <2> QED BY <2>1, <2>2
<1>10. ReadInThePast' BY <1>1 DEF ReadInThePast
<1>11. CountsPassed'
  <2>1. \A r \in Rules : counted[r] \subseteq Attempts BY DEF LimiterTypeOK
  <2>2. \A e \in Attempts : attempt'[e].stage \in {"checked", "timed2", "accepted"} =>
          attempt[e].stage = attempt'[e].stage
    BY <1>1 DEF LimiterTypeOK
  <2> QED BY <1>1, <1>9, <2>1, <2>2 DEF CountsPassed
<1>12. \A r \in Rules, q \in Keys :
         ElementsOf(bucket'[r][q]) \subseteq ElementsOf(bucket[r][q])
  BY <1>1, <1>2 DEF LimiterTypeOK
<1>13. BucketsPassed'
  <2>1. \A r \in Rules, q \in Keys : ElementsOf(bucket[r][q]) \subseteq Attempts
    BY DEF LimiterTypeOK, ElementsOf
  <2>2. \A r \in Rules, q \in Keys : ElementsOf(bucket[r][q])' = ElementsOf(bucket'[r][q])
    BY DEF ElementsOf
  <2> QED BY <1>9, <1>12, <2>1, <2>2 DEF BucketsPassed
<1>14. WindowsInBuckets'
  <2> SUFFICES ASSUME NEW r \in Rules, NEW q \in Keys, NEW t \in Nat, t = clock'
               PROVE  CountedIn(r, q, t)' \subseteq ElementsOf(bucket'[r][q])
    BY DEF WindowsInBuckets, ElementsOf
  <2>1. CountedIn(r, q, t)' = CountedIn(r, q, clock) BY <1>1, <1>8
  <2>2. CASE r = rule /\ q = k
    <3>1. bucket'[r][q] = b BY <1>1, <2>2 DEF LimiterTypeOK
    <3> QED BY <1>2, <2>1, <2>2, <3>1
  <2>3. CASE ~(r = rule /\ q = k)
    <3>1. bucket'[r][q] = bucket[r][q] BY <1>1, <2>3 DEF LimiterTypeOK
    <3>2. CountedIn(r, q, clock) \subseteq ElementsOf(bucket[r][q])
      BY DEF WindowsInBuckets, LimiterTypeOK
    <3> QED BY <2>1, <3>1, <3>2
  <2> QED BY <2>2, <2>3
<1>15. OldWindows'
  <2>1. clock \in Nat /\ 0 .. clock \subseteq Nat BY DEF LimiterTypeOK
  <2>2. \A r \in Rules, q \in Keys, t \in 0 .. clock :
          (CountedIn(r, q, t) \ late[r])' = CountedIn(r, q, t) \ late[r]
    <3> SUFFICES ASSUME NEW r \in Rules, NEW q \in Keys, NEW t \in 0 .. clock
                 PROVE  (CountedIn(r, q, t) \ late[r])' = CountedIn(r, q, t) \ late[r]
      OBVIOUS
    <3>1. CountedIn(r, q, t)' = CountedIn(r, q, t) BY <1>8, <2>1
    <3>2. late'[r] = late[r] \/ (r = rule /\ late'[r] = late[r] \cup {a})
      BY <1>1, <1>2 DEF LimiterTypeOK
    <3>3. CountedIn(r, q, t) \subseteq counted[r] BY DEF CountedIn
    <3> QED BY <1>2, <3>1, <3>2, <3>3
  <2> QED BY <1>1, <1>6, <1>14, <2>1, <2>2, WindowsStep
<1>16. RefusedWait'
  <2> SUFFICES ASSUME NEW e \in Attempts, attempt'[e].stage = "refused"
               PROVE  WaitsEnough(RefusedBy(e), told[e])'
    BY DEF RefusedWait
  <2>1. RefusedBy(e)' = RefusedBy(e) /\ RefusedBy(e) \in Rules BY <1>1 DEF RefusedBy, Rules
  <2>2. CASE e = a
    <3>1. RefusedBy(e) = rule
      <4>1. CASE attempt[a].stage = "timed"
        <5>1. a \notin counted["address"] BY <1>2, <1>3, <4>1
        <5> QED BY <1>3, <2>2, <4>1, <5>1 DEF RefusedBy
      <4>2. CASE attempt[a].stage = "timed2"
        <5>1. a \in counted["address"] BY <4>2 DEF CountsPassed
        <5> QED BY <1>3, <2>2, <4>2, <5>1 DEF RefusedBy
      <4> QED BY <1>1, <4>1, <4>2
    <3>3. told'[e].ahead = b /\ told'[e].retry = now + Second * RetryAfter(rule, b, now)
      BY <1>1, <2>2 DEF LimiterTypeOK
    <3>4. b[1] \in ElementsOf(b) /\ b[1] \in Attempts BY <1>2, <1>4 DEF ElementsOf
    <3>5. Passed(rule, b[1]) BY <1>2, <3>4
    <3> QED BY <1>1, <1>4, <1>5, <1>9, <2>1, <3>1, <3>3, <3>4, <3>5 DEF WaitsEnough, MaxRequests
  <2>3. CASE e # a
    <3>1. attempt[e].stage = "refused" /\ told'[e] = told[e] BY <1>1, <2>3 DEF LimiterTypeOK
    <3>2. WaitsEnough(RefusedBy(e), told[e]) BY <3>1 DEF RefusedWait
    <3>3. told[e].ahead[1] \in Attempts BY <3>2 DEF WaitsEnough, LimiterTypeOK
    <3> QED BY <1>1, <1>9, <2>1, <3>1, <3>2, <3>3 DEF WaitsEnough, MaxRequests
  <2> QED BY <2>2, <2>3
<1> QED BY <1>6, <1>10, <1>11, <1>13, <1>14, <1>15, <1>16

LEMMA HitAdmitsStep ==
  ASSUME LimiterInv, NEW a \in Attempts, Hit(a), attempt'[a].stage # "refused"
  PROVE  LimiterInv'
<1> DEFINE rule == RuleNow(a)
           now == readAt[rule][a]
           k == KeyNow(a)
           b == PrunedNow(a)
           next == Append(b, a)
<1>1. /\ attempt[a].stage \in {"timed", "timed2"}
      /\ late' = [late EXCEPT ![rule] = IF clock > now THEN @ \cup {a} ELSE @]
      /\ Admits(rule, b)
      /\ bucket' = [bucket EXCEPT ![rule][k] = next]
      /\ attempt' = [attempt EXCEPT ![a].stage =
                       IF attempt[a].stage = "timed" THEN "checked" ELSE "accepted"]
      /\ counted' = [counted EXCEPT ![rule] = @ \cup {a}]
      /\ UNCHANGED <<clock, readAt, told>>
  BY DEF Hit, LimiterInv, LimiterTypeOK, RuleNow, KeyNow, PrunedNow
<1>2. /\ rule \in Rules /\ k \in Keys /\ now \in Nat /\ now <= clock
      /\ ~Passed(rule, a) /\ a \notin counted[rule]
      /\ b \in Seq(Attempts) /\ Len(b) <= MaxRequests(rule)
      /\ ElementsOf(b) \subseteq ElementsOf(bucket[rule][k])
      /\ CountedIn(rule, k, clock) \subseteq ElementsOf(b)
      /\ \A e \in ElementsOf(b) : Passed(rule, e)
  BY <1>1, InvariantPrunes DEF HitPrunes
<1>3. rule = (IF attempt[a].stage = "timed" THEN "address" ELSE "login") /\ k = KeyOf(rule, a)
  BY <1>1 DEF RuleNow, RuleOf, KeyNow
<1>4. /\ next \in Seq(Attempts) /\ Len(next) <= MaxRequests(rule)
      /\ ElementsOf(next) \subseteq ElementsOf(b) \cup {a}
      /\ ElementsOf(b) \cup {a} \subseteq ElementsOf(next)
  <2>1. Len(b) \in Nat /\ MaxRequests(rule) \in Nat /\ Len(b) < MaxRequests(rule)
    BY <1>1, <1>2, LimiterAssumption DEF Admits, MaxRequests
  <2>2. /\ next \in Seq(Attempts) /\ Len(next) = Len(b) + 1
        /\ \A i \in 1 .. Len(b) : next[i] = b[i]
        /\ next[Len(b) + 1] = a
    BY <1>2, AppendProperties
  <2> HIDE DEF next, b
  <2>3. ElementsOf(next) \subseteq ElementsOf(b) \cup {a} BY <2>1, <2>2 DEF ElementsOf
  <2>4. ElementsOf(b) \cup {a} \subseteq ElementsOf(next) BY <2>1, <2>2 DEF ElementsOf
  <2> QED BY <2>1, <2>2, <2>3, <2>4
<1> HIDE DEF rule, now, k, b, next
<1> USE DEF LimiterInv
<1>5. LimiterTypeOK'
  <2>1. late' \in [Rules -> SUBSET Attempts] BY <1>1 DEF LimiterTypeOK
  <2>2. counted' \in [Rules -> SUBSET Attempts] BY <1>1 DEF LimiterTypeOK
  <2>3. bucket' \in [Rules -> [Keys -> Seq(Attempts)]] BY <1>1, <1>4 DEF LimiterTypeOK
  <2>4. attempt' \in [Attempts -> [address : Addresses, login : Logins, stage : Stages]]
    BY <1>1 DEF LimiterTypeOK, Stages
  <2>5. \A r \in Rules, q \in Keys : Len(bucket'[r][q]) <= MaxRequests(r)
    BY <1>1, <1>4 DEF LimiterTypeOK
  <2> QED BY <1>1, <2>1, <2>2, <2>3, <2>4, <2>5 DEF LimiterTypeOK, MaxRequests
<1>6. SameAttempts BY <1>1 DEF SameAttempts, LimiterTypeOK
<1>7. \A r \in Rules, e \in Attempts : KeyOf(r, e)' = KeyOf(r, e)
  BY <1>6 DEF SameAttempts, KeyOf
<1>8. \A r \in Rules : counted'[r] = counted[r] \/ (r = rule /\ counted'[r] = counted[r] \cup {a})
  BY <1>1 DEF LimiterTypeOK
<1>9. \A r \in Rules : counted[r] \subseteq Attempts BY DEF LimiterTypeOK
<1>10. \A r \in Rules, q \in Keys, t \in Nat :
         /\ CountedIn(r, q, t)' \ {a} = CountedIn(r, q, t) \ {a}
         /\ r # rule \/ q # k => CountedIn(r, q, t)' = CountedIn(r, q, t)
  <2> SUFFICES ASSUME NEW r \in Rules, NEW q \in Keys, NEW t \in Nat
               PROVE  /\ CountedIn(r, q, t)' \ {a} = CountedIn(r, q, t) \ {a}
                      /\ r # rule \/ q # k => CountedIn(r, q, t)' = CountedIn(r, q, t)
    OBVIOUS
  <2>1. \A e \in Attempts : KeyOf(r, e)' = KeyOf(r, e) /\ readAt'[r][e] = readAt[r][e]
    BY <1>1, <1>7
  <2>2. counted'[r] \ {a} = counted[r] \ {a} BY <1>8
  <2>3. CountedIn(r, q, t)' \ {a} = CountedIn(r, q, t) \ {a}
    BY <2>1, <2>2, <1>9 DEF CountedIn
  <2>4. ASSUME r # rule PROVE CountedIn(r, q, t)' = CountedIn(r, q, t)
    <3>1. counted'[r] = counted[r] BY <1>8, <2>4
    <3> QED BY <2>1, <3>1, <1>9 DEF CountedIn
  <2>5. ASSUME r = rule, q # k PROVE CountedIn(r, q, t)' = CountedIn(r, q, t)
    <3>1. a \notin CountedIn(r, q, t)' /\ a \notin CountedIn(r, q, t)
      BY <1>3, <2>1, <2>5 DEF CountedIn
    <3> QED BY <2>3, <3>1
  <2> QED BY <2>3, <2>4, <2>5
<1>11. \A r \in Rules, e \in Attempts : Passed(r, e) => Passed(r, e)'
  <2> SUFFICES ASSUME NEW r \in Rules, NEW e \in Attempts, Passed(r, e) PROVE Passed(r, e)'
    OBVIOUS
  <2>1. CASE e # a
    <3>1. attempt'[e] = attempt[e] BY <1>1, <2>1 DEF LimiterTypeOK
    <3> QED BY <3>1 DEF Passed
  <2>2. CASE e = a
    <3>1. attempt'[e].stage \in {"checked", "accepted"} BY <1>1, <2>2 DEF LimiterTypeOK
    <3>2. r = "address" BY <1>1, <2>2 DEF Passed
    <3> QED BY <3>1, <3>2 DEF Passed
  <2> QED BY <2>1, <2>2
<1>12. \A r \in Rules : r = rule => Passed(r, a)'
  BY <1>1, <1>3 DEF Passed, LimiterTypeOK
<1>13. ReadInThePast' BY <1>1 DEF ReadInThePast
<1>14. CountsPassed'
  <2>1. \A r \in Rules : \A e \in counted'[r] : Passed(r, e)'
    <3> SUFFICES ASSUME NEW r \in Rules, NEW e \in counted'[r] PROVE Passed(r, e)'
      OBVIOUS
    <3>1. CASE e \in counted[r] BY <1>9, <1>11, <3>1 DEF CountsPassed
    <3>2. CASE e \notin counted[r] BY <1>8, <1>12, <3>2
    <3> QED BY <3>1, <3>2
  <2>2. ASSUME NEW e \in Attempts, attempt'[e].stage \in {"checked", "timed2", "accepted"}
        PROVE  e \in counted'["address"]
    <3>1. counted["address"] \subseteq counted'["address"] BY <1>1 DEF LimiterTypeOK, Rules
    <3>2. CASE e # a
      <4>1. attempt[e].stage = attempt'[e].stage BY <1>1, <3>2 DEF LimiterTypeOK
      <4> QED BY <2>2, <3>1, <4>1 DEF CountsPassed
    <3>3. CASE e = a /\ attempt[a].stage = "timed"
      <4>1. rule = "address" BY <1>3, <3>3
      <4> QED BY <1>1, <1>2, <3>3, <4>1 DEF LimiterTypeOK
    <3>4. CASE e = a /\ attempt[a].stage = "timed2"
      BY <3>1, <3>4 DEF CountsPassed
    <3> QED BY <1>1, <3>2, <3>3, <3>4
  <2> QED BY <2>1, <2>2 DEF CountsPassed
<1>15. \A r \in Rules, q \in Keys :
         \/ bucket'[r][q] = bucket[r][q] /\ (r # rule \/ q # k)
         \/ bucket'[r][q] = next /\ r = rule /\ q = k
  BY <1>1 DEF LimiterTypeOK
<1>16. BucketsPassed'
  <2> SUFFICES ASSUME NEW r \in Rules, NEW q \in Keys, NEW e \in ElementsOf(bucket'[r][q])
               PROVE  Passed(r, e)'
    BY DEF BucketsPassed, ElementsOf
  <2>1. bucket[r][q] \in Seq(Attempts) BY DEF LimiterTypeOK
  <2>2. CASE bucket'[r][q] = bucket[r][q]
    <3>1. e \in ElementsOf(bucket[r][q]) BY <2>2
    <3>2. e \in Attempts BY <2>1, <3>1 DEF ElementsOf
    <3> QED BY <1>11, <3>1, <3>2 DEF BucketsPassed
  <2>3. CASE bucket'[r][q] = next /\ r = rule /\ q = k
    <3>1. e = a \/ e \in ElementsOf(b) BY <1>4, <2>3
    <3>2. ElementsOf(b) \subseteq Attempts BY <1>2 DEF ElementsOf
    <3> QED BY <1>2, <1>11, <1>12, <2>3, <3>1, <3>2
  <2> QED BY <1>15, <2>2, <2>3
<1>17. WindowsInBuckets'
  <2> SUFFICES ASSUME NEW r \in Rules, NEW q \in Keys, NEW t \in Nat, t = clock'
               PROVE  CountedIn(r, q, t)' \subseteq ElementsOf(bucket'[r][q])
    BY DEF WindowsInBuckets, ElementsOf
  <2>1. t = clock BY <1>1
  <2>2. CASE r = rule /\ q = k
    <3>1. bucket'[r][q] = next BY <1>15, <2>2
    <3>2. CountedIn(r, q, t) \subseteq ElementsOf(b) BY <1>2, <2>1, <2>2
    <3>3. CountedIn(r, q, t)' \subseteq CountedIn(r, q, t) \cup {a} BY <1>10
    <3> QED BY <1>4, <3>1, <3>2, <3>3
  <2>3. CASE ~(r = rule /\ q = k)
    <3>1. bucket'[r][q] = bucket[r][q] BY <1>15, <2>3
    <3>2. CountedIn(r, q, t)' = CountedIn(r, q, t) BY <1>10, <2>3
    <3> QED BY <2>1, <3>1, <3>2 DEF WindowsInBuckets
  <2> QED BY <2>2, <2>3
<1>18. OldWindows'
  <2>1. clock \in Nat /\ 0 .. clock \subseteq Nat BY DEF LimiterTypeOK
  <2>2. \A r \in Rules, q \in Keys, t \in 0 .. clock :
          t < clock => (CountedIn(r, q, t) \ late[r])' = CountedIn(r, q, t) \ late[r]
    <3> SUFFICES ASSUME NEW r \in Rules, NEW q \in Keys, NEW t \in 0 .. clock, t < clock
                 PROVE  (CountedIn(r, q, t) \ late[r])' = CountedIn(r, q, t) \ late[r]
      OBVIOUS
    <3>1. CASE r # rule
      <4>1. late'[r] = late[r] BY <1>1, <3>1 DEF LimiterTypeOK
      <4> QED BY <1>10, <2>1, <3>1, <4>1
    <3>2. CASE r = rule /\ clock > now
      <4>1. late'[r] = late[r] \cup {a} BY <1>1, <3>2 DEF LimiterTypeOK
      <4>2. CountedIn(r, q, t)' \ {a} = CountedIn(r, q, t) \ {a} BY <1>10, <2>1
      <4>3. a \notin CountedIn(r, q, t) BY <1>2, <3>2 DEF CountedIn
      <4> QED BY <4>1, <4>2, <4>3
    <3>3. CASE r = rule /\ ~(clock > now)
      <4>1. late'[r] = late[r] BY <1>1, <3>3 DEF LimiterTypeOK
      <4>2. CountedIn(r, q, t)' \ {a} = CountedIn(r, q, t) \ {a} BY <1>10, <2>1
      <4>3. a \notin CountedIn(r, q, t) BY <1>2, <3>3 DEF CountedIn
      <4>4. readAt'[r][a] = now /\ ~(now <= t)
        BY <1>1, <1>2, <2>1, <3>3 DEF now
      <4>5. a \notin CountedIn(r, q, t)' BY <4>4 DEF CountedIn
      <4> QED BY <4>1, <4>2, <4>3, <4>5
    <3> QED BY <3>1, <3>2, <3>3
  <2> QED BY <1>1, <1>5, <1>17, <2>1, <2>2, WindowsStep
<1>19. RefusedWait'
  <2> SUFFICES ASSUME NEW e \in Attempts, attempt'[e].stage = "refused"
               PROVE  WaitsEnough(RefusedBy(e), told[e])'
    BY DEF RefusedWait
  <2>1. e # a /\ attempt[e].stage = "refused" BY <1>1 DEF LimiterTypeOK
  <2>2. WaitsEnough(RefusedBy(e), told[e]) BY <2>1 DEF RefusedWait
  <2>3. RefusedBy(e)' = RefusedBy(e) /\ RefusedBy(e) \in Rules
    BY <1>8, <2>1 DEF RefusedBy, Rules
  <2>4. told[e].ahead[1] \in Attempts BY <2>2 DEF WaitsEnough, LimiterTypeOK
  <2> QED BY <1>1, <1>11, <2>2, <2>3, <2>4 DEF WaitsEnough, MaxRequests
<1> QED BY <1>5, <1>13, <1>14, <1>16, <1>17, <1>18, <1>19

LEMMA SucceedStep ==
  ASSUME LimiterInv, NEW a \in Attempts, Succeed(a)
  PROVE  LimiterInv'
<1> DEFINE l == attempt[a].login
<1> USE DEF LimiterInv
<1>1. /\ attempt[a].stage = "accepted" /\ l \in Keys
      /\ bucket' = [bucket EXCEPT !["login"][l] = <<>>]
      /\ counted' = [counted EXCEPT !["login"] = {c \in @ : attempt[c].login # l}]
      /\ attempt' = [attempt EXCEPT ![a].stage = "ended"]
      /\ UNCHANGED <<clock, readAt, late, told>>
  BY DEF Succeed, LimiterTypeOK, Keys
<1> HIDE DEF l
<1>2. LimiterTypeOK'
  <2>0. <<>> \in Seq(Attempts) OBVIOUS
  <2>1. bucket' \in [Rules -> [Keys -> Seq(Attempts)]]
    <3>1. bucket \in [Rules -> [Keys -> Seq(Attempts)]] BY DEF LimiterTypeOK
    <3> HIDE DEF LimiterInv
    <3> QED BY <1>1, <2>0, <3>1 DEF Rules
  <2>2. counted' \in [Rules -> SUBSET Attempts] BY <1>1 DEF LimiterTypeOK
  <2>3. attempt' \in [Attempts -> [address : Addresses, login : Logins, stage : Stages]]
    BY <1>1 DEF LimiterTypeOK, Stages
  <2>4. \A r \in Rules : MaxRequests(r) \in Nat BY LimiterAssumption DEF MaxRequests
  <2>5. \A r \in Rules, q \in Keys : Len(bucket'[r][q]) <= MaxRequests(r)
    BY <1>1, <2>4 DEF LimiterTypeOK
  <2> QED BY <1>1, <2>1, <2>2, <2>3, <2>5 DEF LimiterTypeOK, MaxRequests
<1>3. SameAttempts BY <1>1 DEF SameAttempts, LimiterTypeOK
<1>4. \A r \in Rules : counted[r] \subseteq Attempts /\ counted'[r] \subseteq counted[r]
  BY <1>1 DEF LimiterTypeOK
<1>5. counted'["address"] = counted["address"] BY <1>1 DEF LimiterTypeOK, Rules
<1>6. \A r \in Rules, e \in Attempts : Passed(r, e) => Passed(r, e)'
  <2> SUFFICES ASSUME NEW r \in Rules, NEW e \in Attempts, Passed(r, e) PROVE Passed(r, e)'
    OBVIOUS
  <2>1. attempt'[e].stage = attempt[e].stage \/ attempt'[e].stage = "ended"
    BY <1>1 DEF LimiterTypeOK
  <2> QED BY <2>1 DEF Passed
<1>7. \A r \in Rules, q \in Keys, t \in Nat :
        IF r = "login" /\ q = l THEN CountedIn(r, q, t)' = {}
                                ELSE CountedIn(r, q, t)' = CountedIn(r, q, t)
  <2> SUFFICES ASSUME NEW r \in Rules, NEW q \in Keys, NEW t \in Nat
               PROVE  IF r = "login" /\ q = l THEN CountedIn(r, q, t)' = {}
                                              ELSE CountedIn(r, q, t)' = CountedIn(r, q, t)
    OBVIOUS
  <2>1. \A e \in Attempts : KeyOf(r, e)' = KeyOf(r, e) /\ readAt'[r][e] = readAt[r][e]
    BY <1>1, <1>3 DEF SameAttempts, KeyOf
  <2>2. CASE r = "address"
    <3>1. counted'[r] = counted[r] BY <1>5, <2>2
    <3> QED BY <1>4, <2>1, <2>2, <3>1 DEF CountedIn
  <2>3. CASE r = "login"
    <3>1. counted'[r] = {c \in counted[r] : attempt[c].login # l}
      BY <1>1, <2>3 DEF LimiterTypeOK
    <3>2. \A e \in Attempts : KeyOf(r, e) = attempt[e].login BY <2>3 DEF KeyOf
    <3> QED BY <1>4, <2>1, <2>3, <3>1, <3>2 DEF CountedIn
  <2> QED BY <2>2, <2>3 DEF Rules
<1>8. \A r \in Rules, q \in Keys :
        bucket'[r][q] = IF r = "login" /\ q = l THEN <<>> ELSE bucket[r][q]
  BY <1>1 DEF LimiterTypeOK
<1>9. ReadInThePast' BY <1>1 DEF ReadInThePast
<1>10. CountsPassed'
  <2>1. \A e \in Attempts : attempt'[e].stage \in {"checked", "timed2", "accepted"} =>
          attempt[e].stage = attempt'[e].stage
    BY <1>1 DEF LimiterTypeOK
  <2> QED BY <1>4, <1>5, <1>6, <2>1 DEF CountsPassed
<1>11. BucketsPassed'
  <2> SUFFICES ASSUME NEW r \in Rules, NEW q \in Keys, NEW e \in ElementsOf(bucket'[r][q])
               PROVE  Passed(r, e)'
    BY DEF BucketsPassed, ElementsOf
  <2>1. e \in ElementsOf(bucket[r][q]) BY <1>8 DEF ElementsOf
  <2>2. e \in Attempts BY <2>1 DEF LimiterTypeOK, ElementsOf
  <2> QED BY <1>6, <2>1, <2>2 DEF BucketsPassed
<1>12. WindowsInBuckets'
  <2> SUFFICES ASSUME NEW r \in Rules, NEW q \in Keys, NEW t \in Nat, t = clock'
               PROVE  CountedIn(r, q, t)' \subseteq ElementsOf(bucket'[r][q])
    BY DEF WindowsInBuckets, ElementsOf
  <2> QED BY <1>1, <1>7, <1>8 DEF WindowsInBuckets
<1>13. OldWindows'
  <2>1. clock \in Nat /\ 0 .. clock \subseteq Nat BY DEF LimiterTypeOK
  <2>2. \A r \in Rules, q \in Keys, t \in 0 .. clock :
          \/ (CountedIn(r, q, t) \ late[r])' = CountedIn(r, q, t) \ late[r]
          \/ (CountedIn(r, q, t) \ late[r])' = {}
    <3> SUFFICES ASSUME NEW r \in Rules, NEW q \in Keys, NEW t \in 0 .. clock
                 PROVE  \/ (CountedIn(r, q, t) \ late[r])' = CountedIn(r, q, t) \ late[r]
                        \/ (CountedIn(r, q, t) \ late[r])' = {}
      OBVIOUS
    <3>1. CountedIn(r, q, t)' = {} \/ CountedIn(r, q, t)' = CountedIn(r, q, t)
      BY <1>7, <2>1
    <3> QED BY <1>1, <3>1
  <2> QED BY <1>1, <1>2, <1>12, <2>1, <2>2, WindowsStep
<1>14. RefusedWait'
  <2> SUFFICES ASSUME NEW e \in Attempts, attempt'[e].stage = "refused"
               PROVE  WaitsEnough(RefusedBy(e), told[e])'
    BY DEF RefusedWait
  <2>1. attempt[e].stage = "refused" BY <1>1 DEF LimiterTypeOK
  <2>2. WaitsEnough(RefusedBy(e), told[e]) BY <2>1 DEF RefusedWait
  <2>3. RefusedBy(e)' = RefusedBy(e) /\ RefusedBy(e) \in Rules BY <1>5 DEF RefusedBy, Rules
  <2>4. told[e].ahead[1] \in Attempts BY <2>2 DEF WaitsEnough, LimiterTypeOK
  <2> QED BY <1>1, <1>6, <2>2, <2>3, <2>4 DEF WaitsEnough, MaxRequests
<1> QED BY <1>2, <1>9, <1>10, <1>11, <1>12, <1>13, <1>14

LEMMA FailStep ==
  ASSUME LimiterInv, NEW a \in Attempts, Fail(a)
  PROVE  LimiterInv'
<1> USE DEF LimiterInv
<1>1. /\ attempt[a].stage = "accepted"
      /\ attempt' = [attempt EXCEPT ![a].stage = "ended"]
      /\ UNCHANGED <<clock, bucket, readAt, late, counted, told>>
  BY DEF Fail
<1>2. LimiterTypeOK' BY <1>1 DEF LimiterTypeOK, Stages
<1>3. SameAttempts BY <1>1 DEF SameAttempts, LimiterTypeOK
<1>4. \A r \in Rules : counted[r] \subseteq Attempts BY DEF LimiterTypeOK
<1>5. \A r \in Rules, q \in Keys, t \in Nat : CountedIn(r, q, t)' = CountedIn(r, q, t)
  BY <1>1, <1>3, SameWindow
<1>6. \A r \in Rules, e \in Attempts : Passed(r, e) => Passed(r, e)'
  <2> SUFFICES ASSUME NEW r \in Rules, NEW e \in Attempts, Passed(r, e) PROVE Passed(r, e)'
    OBVIOUS
  <2>1. attempt'[e].stage = attempt[e].stage \/ attempt'[e].stage = "ended"
    BY <1>1 DEF LimiterTypeOK
  <2> QED BY <2>1 DEF Passed
<1>7. ReadInThePast' BY <1>1 DEF ReadInThePast
<1>8. CountsPassed'
  <2>1. \A e \in Attempts : attempt'[e].stage \in {"checked", "timed2", "accepted"} =>
          attempt[e].stage = attempt'[e].stage
    BY <1>1 DEF LimiterTypeOK
  <2> QED BY <1>1, <1>4, <1>6, <2>1 DEF CountsPassed
<1>9. BucketsPassed'
  <2>1. \A r \in Rules, q \in Keys : ElementsOf(bucket[r][q]) \subseteq Attempts
    BY DEF LimiterTypeOK, ElementsOf
  <2> QED BY <1>1, <1>6, <2>1 DEF BucketsPassed
<1>10. WindowsInBuckets' BY <1>1, <1>5 DEF WindowsInBuckets
<1>11. OldWindows'
  <2>1. clock \in Nat /\ 0 .. clock \subseteq Nat BY DEF LimiterTypeOK
  <2>2. \A r \in Rules, q \in Keys, t \in 0 .. clock :
          (CountedIn(r, q, t) \ late[r])' = CountedIn(r, q, t) \ late[r]
    BY <1>1, <1>5, <2>1
  <2> QED BY <1>1, <1>2, <1>10, <2>1, <2>2, WindowsStep
<1>12. RefusedWait'
  <2> SUFFICES ASSUME NEW e \in Attempts, attempt'[e].stage = "refused"
               PROVE  WaitsEnough(RefusedBy(e), told[e])'
    BY DEF RefusedWait
  <2>1. attempt[e].stage = "refused" BY <1>1 DEF LimiterTypeOK
  <2>2. WaitsEnough(RefusedBy(e), told[e]) BY <2>1 DEF RefusedWait
  <2>3. RefusedBy(e)' = RefusedBy(e) /\ RefusedBy(e) \in Rules BY <1>1 DEF RefusedBy, Rules
  <2>4. told[e].ahead[1] \in Attempts BY <2>2 DEF WaitsEnough, LimiterTypeOK
  <2> QED BY <1>1, <1>6, <2>2, <2>3, <2>4 DEF WaitsEnough, MaxRequests
<1> QED BY <1>2, <1>7, <1>8, <1>9, <1>10, <1>11, <1>12

(* The window that ends with the new tick holds no attempt the last did not. *)
LEMMA TickStep ==
  ASSUME LimiterInv, Tick
  PROVE  LimiterInv'
<1> USE DEF LimiterInv
<1>1. clock \in Nat /\ clock' = clock + 1 /\ UNCHANGED <<attempt, bucket, readAt, late, counted, told>>
  BY DEF Tick, LimiterTypeOK
<1>2. LimiterTypeOK' BY <1>1 DEF LimiterTypeOK, MaxRequests
<1>3. \A r \in Rules : counted[r] \subseteq Attempts BY DEF LimiterTypeOK
<1>4. \A r \in Rules, q \in Keys, t \in Nat : CountedIn(r, q, t)' = CountedIn(r, q, t)
  BY <1>1 DEF CountedIn, KeyOf
<1>5. \A r \in Rules, q \in Keys : CountedIn(r, q, clock + 1) \subseteq CountedIn(r, q, clock)
  <2> SUFFICES ASSUME NEW r \in Rules, NEW q \in Keys, NEW e \in CountedIn(r, q, clock + 1)
               PROVE  e \in CountedIn(r, q, clock)
    OBVIOUS
  <2>1. readAt[r][e] \in Nat /\ Window \in Nat /\ readAt[r][e] <= clock
    BY <1>3, LimiterAssumption DEF CountedIn, LimiterTypeOK, ReadInThePast
  <2> QED BY <1>1, <2>1 DEF CountedIn
<1>6. ReadInThePast' BY <1>1 DEF ReadInThePast, LimiterTypeOK
<1>7. CountsPassed' BY <1>1 DEF CountsPassed, Passed
<1>8. BucketsPassed' BY <1>1 DEF BucketsPassed, Passed, ElementsOf
<1>9. WindowsInBuckets'
  <2> SUFFICES ASSUME NEW r \in Rules, NEW q \in Keys, NEW t \in Nat, t = clock'
               PROVE  CountedIn(r, q, t)' \subseteq ElementsOf(bucket'[r][q])
    BY DEF WindowsInBuckets, ElementsOf
  <2>1. CountedIn(r, q, t)' \subseteq CountedIn(r, q, clock) BY <1>1, <1>4, <1>5
  <2>2. CountedIn(r, q, clock) \subseteq ElementsOf(bucket[r][q]) BY <1>1 DEF WindowsInBuckets
  <2> QED BY <1>1, <2>1, <2>2
<1>10. OldWindows'
  <2>1. 0 .. clock \subseteq Nat BY <1>1
  <2>2. \A r \in Rules, q \in Keys, t \in 0 .. clock :
          (CountedIn(r, q, t) \ late[r])' = CountedIn(r, q, t) \ late[r]
    BY <1>1, <1>4, <2>1
  <2> QED BY <1>1, <1>2, <1>9, <2>1, <2>2, WindowsStep
<1>11. RefusedWait'
  BY <1>1 DEF RefusedWait, WaitsEnough, RefusedBy, Passed, MaxRequests
<1> QED BY <1>2, <1>6, <1>7, <1>8, <1>9, <1>10, <1>11

LEMMA NextHolds ==
  ASSUME LimiterInv, [LimiterNext]_limiterVars
  PROVE  LimiterInv'
<1>1. CASE Tick BY <1>1, TickStep
<1>2. ASSUME NEW a \in Attempts, ReadClock(a) PROVE LimiterInv' BY <1>2, ReadClockStep
<1>3. ASSUME NEW a \in Attempts, Hit(a) PROVE LimiterInv' BY <1>3, HitRefusesStep, HitAdmitsStep
<1>4. ASSUME NEW a \in Attempts, Succeed(a) PROVE LimiterInv' BY <1>4, SucceedStep
<1>5. ASSUME NEW a \in Attempts, Fail(a) PROVE LimiterInv' BY <1>5, FailStep
<1>6. CASE UNCHANGED limiterVars
  <2> USE <1>6 DEF limiterVars, LimiterInv
  <2>1. LimiterTypeOK' BY DEF LimiterTypeOK, MaxRequests
  <2>2. ReadInThePast' BY DEF ReadInThePast
  <2>3. CountsPassed' BY DEF CountsPassed, Passed
  <2>4. BucketsPassed' BY DEF BucketsPassed, Passed, ElementsOf
  <2>5. \A r \in Rules, q \in Keys, t \in Nat : CountedIn(r, q, t)' = CountedIn(r, q, t)
    BY DEF CountedIn, KeyOf
  <2>6. WindowsInBuckets' BY <2>5 DEF WindowsInBuckets
  <2>7. clock \in Nat /\ 0 .. clock \subseteq Nat BY DEF LimiterTypeOK
  <2>8. OldWindows' BY <2>5, <2>7 DEF OldWindows, MaxRequests
  <2>9. RefusedWait' BY DEF RefusedWait, WaitsEnough, RefusedBy, Passed, MaxRequests
  <2> QED BY <2>1, <2>2, <2>3, <2>4, <2>6, <2>8, <2>9
<1> QED BY <1>1, <1>2, <1>3, <1>4, <1>5, <1>6 DEF LimiterNext

LEMMA InvariantHolds == LimiterSpec => []LimiterInv
<1>1. LimiterInv /\ [LimiterNext]_limiterVars => LimiterInv' BY NextHolds
<1> QED BY LimiterInitHolds, <1>1, PTL DEF LimiterSpec

(* Every counter and bucket has its shape, and no bucket exceeds its limit.  *)
THEOREM LimiterTypeCorrect == LimiterSpec => []LimiterTypeOK
<1>1. LimiterInv => LimiterTypeOK BY DEF LimiterInv
<1> QED BY InvariantHolds, <1>1, PTL

(* At most max_requests pass in any window, and whoever waits as long as     *)
(* Retry-After says finds a slot (core/rate_limit.py:26), whatever the       *)
(* limits, the window and the order in which threads get the lock.           *)
THEOREM LimitsAreKept == LimiterSpec => []WindowHolds
BY InvariantHolds, InvariantSuffices, PTL

-----------------------------------------------------------------------------
(***************************************************************************)
(* An administrator remains and recovery links are safe, for any number of  *)
(* users, links and requests. A request in flight carries what it read:     *)
(* the invariant says how much of that still holds when it commits.         *)
(***************************************************************************)

Live(l) == link[l].state = "live"
Is(r, op) == request[r].op = op

(* An edit of one's own account leaves one an administrator, who sets a       *)
(* password changes neither role nor status, a new account has no links.    *)
FormsAreSafe ==
  \A r \in Requests :
    /\ Is(r, "edit") /\ request[r].by = request[r].of
         => request[r].role \in {Keep, "admin"} /\ request[r].status \in {Keep, "active"}
    /\ Is(r, "create") => request[r].unused = {}
    /\ Is(r, "change") \/ Is(r, "redeem") => request[r].role = Keep /\ request[r].status = Keep

(* Whoever has a link has an account.                                        *)
LinksHaveOwners ==
  \A l \in Links : link[l].state # "none" => link[l].owner \in Users /\ user[link[l].owner].status # "absent"

(* What is outlived, or was read as unused, is a row already.                *)
OldLinksExist ==
  /\ \A l \in outlived : link[l].state # "none"
  /\ \A r \in Requests : \A l \in request[r].unused : link[l].state # "none"

(* Each recovery in flight has a link of its own, which is no row yet.       *)
RecoveriesArePrivate ==
  /\ \A r \in Requests : Is(r, "recovery") =>
       /\ request[r].link \in Links /\ link[request[r].link].state = "none"
       /\ user[request[r].of].status # "absent"
  /\ \A r, s \in Requests : Is(r, "recovery") /\ Is(s, "recovery") /\ request[r].link = request[s].link => r = s

(* A link in use is the user's own and has set no password, unless another   *)
(* one was set meanwhile.                                                   *)
RedeemsAreFirst ==
  /\ \A r \in Requests : Is(r, "redeem") =>
       /\ request[r].link \in Links /\ request[r].password = "new"
       /\ link[request[r].link].state # "none" /\ link[request[r].link].owner = request[r].of
       /\ r \notin overtaken => redeemed[request[r].link] = 0
  /\ \A l \in Links : link[l].state # "used" => redeemed[l] = 0

(* Who sets a password or asks for a link knows the live links of the user,  *)
(* but for those that went live meanwhile.                                  *)
Sees(r) ==
  InFlight(r) /\ (SetsPassword(r) \/ Is(r, "recovery")) =>
    \A l \in Links : Live(l) /\ link[l].owner = request[r].of => l \in request[r].unused \cup missed[r]

Flights == FormsAreSafe /\ LinksHaveOwners /\ OldLinksExist /\ RecoveriesArePrivate /\ RedeemsAreFirst
AccountsInv == AccountsTypeOK /\ AdminRemains /\ RecoveryIsSafe /\ Flights /\ \A r \in Requests : Sees(r)

(* RecoveryIsSafe, in one piece.                                             *)
LEMMA SafeIs ==
  ASSUME TRUE
  PROVE  RecoveryIsSafe <=>
           /\ \A l \in outlived \ crossed : ~Live(l)
           /\ \A k, l \in Links \ crossed : Live(k) /\ Live(l) /\ link[k].owner = link[l].owner => k = l
           /\ \A l \in Links : redeemed[l] <= 1
BY DEF RecoveryIsSafe, LinksEndWithPassword, OneLiveLink, LinkWorksOnce, Live

LEMMA AccountsInitHolds == AccountsInit => AccountsInv
<1> SUFFICES ASSUME AccountsInit PROVE AccountsInv OBVIOUS
<1>1. AccountsTypeOK
  BY AccountsAssumption
  DEF AccountsInit, AccountsTypeOK, UserRows, LinkRows, RequestRows, Roles, Statuses, LinkStates, NoLink, Idle, InFlight, Keep
<1>2. BootAdmin \in Admins BY AccountsAssumption DEF AccountsInit, Admins
<1>3. AdminRemains BY <1>2 DEF AdminRemains
<1>4. \A l \in Links : link[l].state = "none" /\ redeemed[l] = 0 BY DEF AccountsInit, NoLink
<1>5. RecoveryIsSafe BY <1>4, SafeIs DEF AccountsInit, Live
<1>6. \A r \in Requests : request[r].op = "idle" /\ request[r].unused = {} BY DEF AccountsInit, Idle
<1>7. Flights
  BY <1>4, <1>6
  DEF Flights, FormsAreSafe, LinksHaveOwners, OldLinksExist, RecoveriesArePrivate, RedeemsAreFirst, Is, AccountsInit
<1>8. \A r \in Requests : Sees(r) BY <1>6 DEF Sees, InFlight
<1> QED BY <1>1, <1>3, <1>5, <1>7, <1>8 DEF AccountsInv

----------------------------------------------------------------------------
(* A request that begins with the right notes keeps the invariant.            *)
LEMMA BeginKeeps ==
  ASSUME AccountsInv, NEW r \in Requests, NEW q \in RequestRows, Begin(r, q),
         q.op # "idle", q.of \in Users,
         q.op = "edit" /\ q.by = q.of => q.role \in {Keep, "admin"} /\ q.status \in {Keep, "active"},
         q.op \in {"change", "redeem"} => q.role = Keep /\ q.status = Keep,
         q.unused \subseteq UnusedLinks(q.of), q.op = "create" => q.unused = {},
         q.op = "recovery" => /\ q.link \in Links /\ link[q.link].state = "none"
                              /\ user[q.of].status # "absent"
                              /\ \A s \in Requests : request[s].link # q.link,
         q.op = "redeem" => /\ q.link \in Links /\ q.password = "new"
                            /\ Live(q.link) /\ link[q.link].owner = q.of,
         q.password = "new" \/ q.op = "recovery" =>
           \A l \in Links : Live(l) /\ link[l].owner = q.of => l \in q.unused
  PROVE  AccountsInv'
<1>1. request' = [request EXCEPT ![r] = q] /\ UNCHANGED <<user, link, history>> BY DEF Begin
<1>2. UNCHANGED <<user, link, staleAuthor, overtaken, missed, crossed, outlived, redeemed>> BY <1>1 DEF history
<1>3. request'[r] = q /\ \A s \in Requests \ {r} : request'[s] = request[s] BY <1>1 DEF AccountsInv, AccountsTypeOK
<1>4. AccountsTypeOK' BY <1>1, <1>2, <1>3 DEF AccountsInv, AccountsTypeOK, InFlight
<1>5. AdminRemains' BY <1>2 DEF AccountsInv, AdminRemains, Admins
<1>6. RecoveryIsSafe' BY <1>2 DEF AccountsInv, RecoveryIsSafe, LinksEndWithPassword, OneLiveLink, LinkWorksOnce
<1>7. FormsAreSafe' BY <1>3 DEF AccountsInv, Flights, FormsAreSafe, Is
<1>8. LinksHaveOwners' BY <1>2 DEF AccountsInv, Flights, LinksHaveOwners
<1>9. OldLinksExist' BY <1>2, <1>3 DEF AccountsInv, Flights, OldLinksExist, UnusedLinks
<1>10. RecoveriesArePrivate' BY <1>2, <1>3 DEF AccountsInv, Flights, RecoveriesArePrivate, Is
<1>11. RedeemsAreFirst' BY <1>2, <1>3 DEF AccountsInv, Flights, RedeemsAreFirst, Is, Live
<1>12. \A s \in Requests : Sees(s)' BY <1>2, <1>3 DEF AccountsInv, Sees, InFlight, SetsPassword, Is, Live
<1> QED BY <1>4, <1>5, <1>6, <1>7, <1>8, <1>9, <1>10, <1>11, <1>12 DEF AccountsInv, Flights

LEMMA AccountsBeginKeeps ==
  ASSUME AccountsInv, NEW r \in Requests, AccountsBegin(r)
  PROVE  AccountsInv'
<1>1. \A u \in Users : /\ UnusedLinks(u) \in SUBSET Links
                       /\ \A l \in Links : Live(l) /\ link[l].owner = u => l \in UnusedLinks(u)
  BY DEF UnusedLinks, Live
<1>2. \A u \in Users : user[u].role \in Roles /\ user[u].status \in Statuses BY DEF AccountsInv, AccountsTypeOK, UserRows
<1>3. ASSUME NEW a \in Users, NEW u \in Users, NEW role \in Roles, NEW status \in {"active", "inactive"},
             BeginCreate(r, a, u, role, status)
      PROVE  AccountsInv'
  <2> DEFINE q == [Idle EXCEPT !.op = "create", !.by = a, !.of = u, !.role = role, !.status = status, !.password = "new"]
  <2>1. /\ q \in RequestRows /\ q.op = "create" /\ q.of = u /\ q.unused = {} /\ Begin(r, q)
    BY <1>3 DEF BeginCreate, Idle, RequestRows, Roles, Keep
  <2>2. \A l \in Links : Live(l) => link[l].owner # u
    BY <1>3 DEF BeginCreate, AccountsInv, Flights, LinksHaveOwners, Live
  <2> HIDE DEF q
  <2> QED BY <2>1, <2>2, BeginKeeps
<1>4. ASSUME NEW a \in Users, NEW u \in Users, NEW f \in EditForms, BeginEdit(r, a, u, f)
      PROVE  AccountsInv'
  <2> DEFINE unused == IF f.password = "new" THEN UnusedLinks(u) ELSE {}
             role == Changed(user[u].role, f.role)
             status == Changed(user[u].status, f.status)
             q == [Idle EXCEPT !.op = "edit", !.by = a, !.of = u, !.role = role, !.status = status,
                               !.password = f.password, !.unused = unused]
  <2>1. f.role \in Roles \cup {Keep} /\ f.status \in {"active", "inactive", Keep} /\ f.password \in {"new", Keep}
    BY AccountsAssumption DEF Roles, Keep
  <2>2. role \in {Keep, f.role} /\ status \in {Keep, f.status} BY DEF Changed
  <2>3. unused \in SUBSET Links BY <1>1
  <2>4. Begin(r, q) BY <1>4 DEF BeginEdit
  <2>5. u = a => role \in {Keep, "admin"} /\ status \in {Keep, "active"}
    BY <1>4, <2>2 DEF BeginEdit, SelfAdminProtection
  <2> HIDE DEF unused, role, status
  <2>6. /\ q \in RequestRows /\ q.op = "edit" /\ q.by = a /\ q.of = u /\ q.unused = unused
        /\ q.role = role /\ q.status = status /\ q.password = f.password
    BY <2>1, <2>2, <2>3 DEF Idle, RequestRows
  <2>7. unused \subseteq UnusedLinks(u) /\ (f.password = "new" => unused = UnusedLinks(u)) BY DEF unused
  <2> HIDE DEF q
  <2> QED BY <1>1, <2>4, <2>5, <2>6, <2>7, BeginKeeps
<1>5. ASSUME NEW a \in Users, NEW u \in Users, BeginReset(r, a, u)
      PROVE  AccountsInv'
  <2> DEFINE q == [Idle EXCEPT !.op = "edit", !.by = a, !.of = u, !.password = "new", !.unused = UnusedLinks(u)]
  <2>1. /\ q \in RequestRows /\ q.op = "edit" /\ q.of = u /\ q.unused = UnusedLinks(u) /\ Begin(r, q)
        /\ q.role = Keep /\ q.status = Keep
    BY <1>1, <1>5 DEF BeginReset, Idle, RequestRows, Keep
  <2> HIDE DEF q
  <2> QED BY <1>1, <2>1, BeginKeeps
<1>6. ASSUME NEW u \in Users, BeginChange(r, u) PROVE AccountsInv'
  <2> DEFINE q == [Idle EXCEPT !.op = "change", !.by = u, !.of = u, !.password = "new", !.unused = UnusedLinks(u)]
  <2>1. /\ q \in RequestRows /\ q.op = "change" /\ q.of = u /\ q.unused = UnusedLinks(u) /\ Begin(r, q)
        /\ q.role = Keep /\ q.status = Keep
    BY <1>1, <1>6 DEF BeginChange, Idle, RequestRows, Keep
  <2> HIDE DEF q
  <2> QED BY <1>1, <2>1, BeginKeeps
<1>7. ASSUME NEW l \in Links, NEW u \in Users, BeginRecovery(r, l, u) PROVE AccountsInv'
  <2> DEFINE q == [Idle EXCEPT !.op = "recovery", !.of = u, !.link = l, !.unused = UnusedLinks(u)]
  <2>1. /\ q \in RequestRows /\ q.op = "recovery" /\ q.of = u /\ q.unused = UnusedLinks(u) /\ Begin(r, q)
        /\ q.link = l
    BY <1>1, <1>7 DEF BeginRecovery, Idle, RequestRows, Keep
  <2>2. link[l].state = "none" /\ user[u].status # "absent" /\ \A s \in Requests : request[s].link # l
    BY <1>7 DEF BeginRecovery
  <2> HIDE DEF q
  <2> QED BY <1>1, <2>1, <2>2, BeginKeeps
<1>8. ASSUME NEW l \in Links, BeginRedeem(r, l) PROVE AccountsInv'
  <2> DEFINE u == link[l].owner
             q == [Idle EXCEPT !.op = "redeem", !.of = u, !.link = l, !.password = "new", !.unused = UnusedLinks(u)]
  <2>1. Live(l) /\ u \in Users BY <1>8 DEF BeginRedeem, Live, AccountsInv, Flights, LinksHaveOwners
  <2>2. Begin(r, q) BY <1>8 DEF BeginRedeem
  <2> HIDE DEF u
  <2>3. /\ q \in RequestRows /\ q.op = "redeem" /\ q.of = u /\ q.unused = UnusedLinks(u)
        /\ q.link = l /\ q.role = Keep /\ q.status = Keep /\ q.password = "new"
    BY <1>1, <2>1 DEF Idle, RequestRows, Keep
  <2>4. link[l].owner = u BY DEF u
  <2> HIDE DEF q
  <2> QED BY <1>1, <2>1, <2>2, <2>3, <2>4, BeginKeeps
<1> QED BY <1>3, <1>4, <1>5, <1>6, <1>7, <1>8 DEF AccountsBegin

----------------------------------------------------------------------------
(* What the commit of a request on an account does to links and their count.  *)
EndsLinks(r) ==
  /\ link' \in [Links -> LinkRows]
  /\ \A l \in Links :
       \/ link'[l] = link[l]
       \/ link'[l].owner = link[l].owner /\ link'[l].state = "used" /\ link[l].state # "none"
  /\ \A l \in request[r].unused : link'[l].state = "used"

CountsOnce(r) ==
  /\ redeemed' \in [Links -> Nat]
  /\ \A l \in Links :
       \/ redeemed'[l] = redeemed[l]
       \/ /\ Is(r, "redeem") /\ l = request[r].link /\ r \notin overtaken
          /\ redeemed'[l] = redeemed[l] + 1 /\ link'[l].state = "used"

(* The commit of a request on an account: it ends links, and whoever it       *)
(* cannot have seen is named in the history.                                *)
LEMMA CommitKeeps ==
  ASSUME AccountsInv, NEW r \in Requests, CommitUser(r), InFlight(r), ~Is(r, "recovery"),
         staleAuthor' \in BOOLEAN, EndsLinks(r), CountsOnce(r),
         AdminRemains'
  PROVE  AccountsInv'
<1> DEFINE q == request[r]
           left == UnusedLinks(q.of) \ q.unused
<1> USE DEF EndsLinks, CountsOnce
<1>1. /\ user' = Written(r) /\ request' = [request EXCEPT ![r] = Idle]
      /\ overtaken' = (overtaken \ {r}) \cup (IF SetsPassword(r) THEN Concurrent(r) ELSE {})
      /\ outlived' = (outlived \ q.unused) \cup (IF SetsPassword(r) THEN left ELSE {})
      /\ crossed' = (crossed \ q.unused) \cup ((IF SetsPassword(r) THEN left ELSE {}) \cap missed[r])
      /\ missed' = [missed EXCEPT ![r] = {}]
  BY DEF CommitUser, Overtakes, End
<1>2. q \in RequestRows /\ q.of \in Users BY DEF AccountsInv, AccountsTypeOK
<1>3. Idle \in RequestRows /\ Idle.op = "idle" /\ Idle.unused = {}
  BY DEF Idle, RequestRows, Keep
<1>4. request'[r] = Idle /\ \A s \in Requests \ {r} : request'[s] = request[s] BY <1>1 DEF AccountsInv, AccountsTypeOK
<1>5. missed'[r] = {} /\ \A s \in Requests \ {r} : missed'[s] = missed[s] BY <1>1 DEF AccountsInv, AccountsTypeOK
<1>6. user' \in [Users -> UserRows] /\ \A u \in Users : user[u].status # "absent" => user'[u].status # "absent"
  BY <1>1, <1>2 DEF Written, AccountsInv, AccountsTypeOK, UserRows, RequestRows, Statuses, Keep
<1>7. AccountsTypeOK'
  <2>1. left \subseteq Links /\ Concurrent(r) \subseteq Requests BY DEF UnusedLinks, Concurrent
  <2>2. overtaken' \subseteq Requests BY <1>1, <2>1 DEF AccountsInv, AccountsTypeOK
  <2>3. outlived' \subseteq Links /\ crossed' \subseteq Links BY <1>1, <2>1 DEF AccountsInv, AccountsTypeOK
  <2>4. missed' \in [Requests -> SUBSET Links] BY <1>1 DEF AccountsInv, AccountsTypeOK
  <2>5. request' \in [Requests -> RequestRows] BY <1>1, <1>3 DEF AccountsInv, AccountsTypeOK
  <2>6. \A s \in Requests : InFlight(s)' => request'[s].of \in Users
    BY <1>3, <1>4 DEF AccountsInv, AccountsTypeOK, InFlight
  <2> QED BY <1>6, <2>2, <2>3, <2>4, <2>5, <2>6 DEF AccountsTypeOK
<1>8. \A l \in Links : Live(l)' => Live(l) /\ link'[l] = link[l] /\ l \notin q.unused BY DEF Live
<1>9. \A l \in Links : l \notin crossed' => l \notin crossed \/ l \in q.unused BY <1>1
<1>10. ASSUME NEW l \in outlived' \ crossed' PROVE ~Live(l)'
  <2>1. SUFFICES ASSUME Live(l)' PROVE FALSE OBVIOUS
  <2>2. l \in Links BY <1>7 DEF AccountsTypeOK
  <2>3. Live(l) /\ l \notin q.unused /\ l \notin crossed BY <1>8, <1>9, <2>1, <2>2
  <2>4. l \notin outlived BY <2>3, SafeIs DEF AccountsInv
  <2>5. SetsPassword(r) /\ l \in UnusedLinks(q.of) /\ l \notin missed[r] BY <1>1, <2>3, <2>4
  <2>6. Sees(r) BY DEF AccountsInv
  <2> QED BY <2>2, <2>3, <2>5, <2>6 DEF Sees, UnusedLinks
<1>11. ASSUME NEW k \in Links \ crossed', NEW l \in Links \ crossed', Live(k)', Live(l)', link'[k].owner = link'[l].owner
       PROVE  k = l
  <2>1. Live(k) /\ Live(l) /\ link[k].owner = link[l].owner /\ k \notin crossed /\ l \notin crossed
    BY <1>8, <1>9, <1>11
  <2> QED BY <2>1, SafeIs DEF AccountsInv
<1>12. ASSUME NEW l \in Links PROVE redeemed'[l] <= 1
  <2>1. redeemed[l] \in Nat /\ redeemed[l] <= 1 BY SafeIs DEF AccountsInv, AccountsTypeOK
  <2> QED BY <2>1 DEF AccountsInv, Flights, RedeemsAreFirst
<1>13. RecoveryIsSafe'
  <2>1. /\ \A l \in outlived' \ crossed' : link'[l].state # "live"
        /\ \A k, l \in Links \ crossed' :
             link'[k].state = "live" /\ link'[l].state = "live" /\ link'[k].owner = link'[l].owner => k = l
        /\ \A l \in Links : redeemed'[l] <= 1
    BY <1>10, <1>11, <1>12 DEF Live
  <2> QED BY <2>1 DEF RecoveryIsSafe, LinksEndWithPassword, OneLiveLink, LinkWorksOnce
<1>14. FormsAreSafe' BY <1>3, <1>4 DEF AccountsInv, Flights, FormsAreSafe, Is
<1>15. LinksHaveOwners' BY <1>6 DEF AccountsInv, Flights, LinksHaveOwners
<1>16. OldLinksExist'
  <2>1. \A l \in Links : link[l].state # "none" => link'[l].state # "none" OBVIOUS
  <2>2. \A l \in outlived' : link[l].state # "none" BY <1>1 DEF AccountsInv, Flights, OldLinksExist, UnusedLinks
  <2>3. \A s \in Requests : \A l \in request'[s].unused : l \in Links /\ link[l].state # "none"
    BY <1>3, <1>4 DEF AccountsInv, Flights, OldLinksExist, AccountsTypeOK, RequestRows
  <2>4. outlived' \subseteq Links BY <1>7 DEF AccountsTypeOK
  <2> QED BY <2>1, <2>2, <2>3, <2>4 DEF OldLinksExist
<1>17. RecoveriesArePrivate'
  <2>1. \A s \in Requests : Is(s, "recovery")' => s # r /\ Is(s, "recovery") /\ request'[s] = request[s]
    BY <1>3, <1>4 DEF Is
  <2>2. \A s \in Requests : request[s].op = "recovery" => request[s].of \in Users
    BY DEF AccountsInv, AccountsTypeOK, InFlight
  <2> QED BY <1>6, <2>1, <2>2 DEF AccountsInv, Flights, RecoveriesArePrivate, Is
<1>18. RedeemsAreFirst'
  <2>1. ASSUME NEW s \in Requests, Is(s, "redeem")'
        PROVE  /\ request'[s].link \in Links /\ request'[s].password = "new"
               /\ link'[request'[s].link].state # "none" /\ link'[request'[s].link].owner = request'[s].of
               /\ s \notin overtaken' => redeemed'[request'[s].link] = 0
    <3>1. s # r /\ Is(s, "redeem") /\ request'[s] = request[s] BY <1>3, <1>4, <2>1 DEF Is
    <3>2. /\ request[s].link \in Links /\ request[s].password = "new"
          /\ link[request[s].link].state # "none" /\ link[request[s].link].owner = request[s].of
          /\ s \notin overtaken => redeemed[request[s].link] = 0
      BY <3>1 DEF AccountsInv, Flights, RedeemsAreFirst
    <3>3. ASSUME s \notin overtaken' PROVE redeemed'[request[s].link] = 0
      <4>1. s \notin overtaken /\ (SetsPassword(r) => s \notin Concurrent(r)) BY <1>1, <3>1, <3>3
      <4>2. ASSUME Is(r, "redeem"), request[s].link = q.link PROVE FALSE
        <5>1. q.password = "new" /\ link[q.link].owner = q.of BY <4>2 DEF AccountsInv, Flights, RedeemsAreFirst
        <5> QED BY <3>1, <3>2, <4>1, <4>2, <5>1 DEF Concurrent, SetsPassword, InFlight, Is
      <4>3. redeemed'[request[s].link] = redeemed[request[s].link] BY <3>2, <4>2
      <4> QED BY <3>2, <4>1, <4>3
    <3> QED BY <3>1, <3>2, <3>3
  <2>2. \A l \in Links : link'[l].state # "used" => redeemed'[l] = 0
    BY DEF AccountsInv, Flights, RedeemsAreFirst
  <2> QED BY <2>1, <2>2 DEF RedeemsAreFirst
<1>19. ASSUME NEW s \in Requests PROVE Sees(s)'
  <2>1. CASE s = r BY <1>3, <1>4, <2>1 DEF Sees, InFlight
  <2>2. CASE s # r
    <3>1. request'[s] = request[s] /\ missed'[s] = missed[s] BY <1>4, <1>5, <2>2
    <3>2. Sees(s) BY DEF AccountsInv
    <3> QED BY <1>8, <3>1, <3>2 DEF Sees, InFlight, SetsPassword, Is
  <2> QED BY <2>1, <2>2
<1> QED BY <1>7, <1>13, <1>14, <1>15, <1>16, <1>17, <1>18, <1>19 DEF AccountsInv, Flights

(* The links that a request read as unused are used.                          *)
LEMMA InvalidatedLinks ==
  ASSUME AccountsInv, NEW r \in Requests
  PROVE  /\ Invalidated(r) \in [Links -> LinkRows]
         /\ \A l \in Links : IF l \in request[r].unused
                               THEN /\ Invalidated(r)[l].owner = link[l].owner /\ Invalidated(r)[l].state = "used"
                                    /\ link[l].state # "none"
                               ELSE Invalidated(r)[l] = link[l]
<1>1. \A l \in Links : link[l] \in LinkRows BY DEF AccountsInv, AccountsTypeOK
<1>2. \A l \in request[r].unused : link[l].state # "none" BY DEF AccountsInv, Flights, OldLinksExist
<1>3. \A l \in Links : [link[l] EXCEPT !.state = "used"] = [owner |-> link[l].owner, state |-> "used"]
  BY <1>1 DEF LinkRows
<1>4. \A l \in Links : [owner |-> link[l].owner, state |-> "used"] \in LinkRows BY <1>1 DEF LinkRows, LinkStates
<1> QED BY <1>1, <1>2, <1>3, <1>4 DEF Invalidated

(* Only an edit takes an administrator away, and only another one.           *)
LEMMA RowsWritten ==
  ASSUME AccountsInv, NEW r \in Requests, InFlight(r), user' = Written(r)
  PROVE  /\ \A u \in Users \ {request[r].of} : user'[u] = user[u]
         /\ user'[request[r].of].role = IF request[r].role = Keep THEN user[request[r].of].role ELSE request[r].role
         /\ user'[request[r].of].status = IF request[r].status = Keep THEN user[request[r].of].status ELSE request[r].status
<1>1. request[r].of \in Users BY DEF AccountsInv, AccountsTypeOK
<1> QED BY <1>1 DEF Written, AccountsInv, AccountsTypeOK

LEMMA CreateKeeps ==
  ASSUME AccountsInv, NEW r \in Requests, CommitCreate(r)
  PROVE  AccountsInv'
<1>1. /\ CommitUser(r) /\ InFlight(r) /\ Is(r, "create") /\ user' = Written(r)
      /\ UNCHANGED <<link, staleAuthor, redeemed>> /\ user[request[r].of].status = "absent"
  BY DEF CommitCreate, CommitUser, InFlight, Is
<1>2. Admins \subseteq Admins' BY <1>1, RowsWritten DEF Admins
<1>3. AdminRemains' BY <1>1, <1>2 DEF AccountsInv, AdminRemains
<1>4. request[r].unused = {}
  BY <1>1 DEF AccountsInv, Flights, FormsAreSafe
<1>5. EndsLinks(r) BY <1>1, <1>4 DEF AccountsInv, AccountsTypeOK, EndsLinks
<1>6. CountsOnce(r) BY <1>1 DEF AccountsInv, AccountsTypeOK, CountsOnce
<1>7. staleAuthor' \in BOOLEAN /\ ~Is(r, "recovery") BY <1>1 DEF AccountsInv, AccountsTypeOK, Is
<1> QED BY <1>1, <1>3, <1>5, <1>6, <1>7, CommitKeeps

LEMMA EditKeeps ==
  ASSUME AccountsInv, NEW r \in Requests, CommitEdit(r)
  PROVE  AccountsInv'
<1>1. /\ CommitUser(r) /\ InFlight(r) /\ Is(r, "edit") /\ user' = Written(r) /\ link' = Invalidated(r)
      /\ staleAuthor' = (staleAuthor \/ request[r].by \notin Admins) /\ redeemed' = redeemed
  BY DEF CommitEdit, CommitUser, InFlight, Is
<1>2. AdminRemains'
  <2>1. SUFFICES ASSUME ~staleAuthor' PROVE Admins' # {} BY DEF AdminRemains
  <2>2. request[r].by \in Admins BY <1>1, <2>1
  <2>3. CASE request[r].by # request[r].of BY <1>1, <2>2, <2>3, RowsWritten DEF Admins
  <2>4. CASE request[r].by = request[r].of
    <3>1. request[r].role \in {Keep, "admin"} /\ request[r].status \in {Keep, "active"}
      BY <1>1, <2>4 DEF AccountsInv, Flights, FormsAreSafe
    <3> QED BY <1>1, <2>2, <2>4, <3>1, RowsWritten DEF Admins
  <2> QED BY <2>3, <2>4
<1>3. EndsLinks(r)
  BY <1>1, InvalidatedLinks DEF AccountsInv, AccountsTypeOK, RequestRows, EndsLinks
<1>4. staleAuthor' \in BOOLEAN BY <1>1 DEF AccountsInv, AccountsTypeOK
<1>5. CountsOnce(r) BY <1>1 DEF AccountsInv, AccountsTypeOK, CountsOnce
<1>6. ~Is(r, "recovery") BY <1>1 DEF Is
<1> QED BY <1>1, <1>2, <1>3, <1>4, <1>5, <1>6, CommitKeeps

LEMMA ChangeKeeps ==
  ASSUME AccountsInv, NEW r \in Requests, CommitChange(r)
  PROVE  AccountsInv'
<1>1. /\ CommitUser(r) /\ InFlight(r) /\ Is(r, "change") /\ user' = Written(r) /\ link' = Invalidated(r)
      /\ UNCHANGED <<staleAuthor, redeemed>>
  BY DEF CommitChange, CommitUser, InFlight, Is
<1>2. request[r].role = Keep /\ request[r].status = Keep BY <1>1 DEF AccountsInv, Flights, FormsAreSafe
<1>3. Admins \subseteq Admins' BY <1>1, <1>2, RowsWritten DEF Admins
<1>4. AdminRemains' BY <1>1, <1>3 DEF AccountsInv, AdminRemains
<1>5. EndsLinks(r)
  BY <1>1, InvalidatedLinks DEF AccountsInv, AccountsTypeOK, RequestRows, EndsLinks
<1>6. CountsOnce(r) BY <1>1 DEF AccountsInv, AccountsTypeOK, CountsOnce
<1>7. staleAuthor' \in BOOLEAN /\ ~Is(r, "recovery") BY <1>1 DEF AccountsInv, AccountsTypeOK, Is
<1> QED BY <1>1, <1>4, <1>5, <1>6, <1>7, CommitKeeps

LEMMA RedeemKeeps ==
  ASSUME AccountsInv, NEW r \in Requests, CommitRedeem(r)
  PROVE  AccountsInv'
<1> DEFINE l0 == request[r].link
<1>1. /\ CommitUser(r) /\ InFlight(r) /\ Is(r, "redeem") /\ user' = Written(r) /\ staleAuthor' = staleAuthor
      /\ link' = [Invalidated(r) EXCEPT ![l0].state = "used"]
      /\ redeemed' = [redeemed EXCEPT ![l0] = IF r \in overtaken THEN @ ELSE @ + 1]
  BY DEF CommitRedeem, CommitUser, InFlight, Is
<1>2. request[r].role = Keep /\ request[r].status = Keep BY <1>1 DEF AccountsInv, Flights, FormsAreSafe
<1>3. Admins \subseteq Admins' BY <1>1, <1>2, RowsWritten DEF Admins
<1>4. AdminRemains' BY <1>1, <1>3 DEF AccountsInv, AdminRemains
<1>5. l0 \in Links /\ link[l0].state # "none" BY <1>1 DEF AccountsInv, Flights, RedeemsAreFirst
<1>6. \A l \in Links : link[l] \in LinkRows /\ Invalidated(r)[l] \in LinkRows
  BY InvalidatedLinks DEF AccountsInv, AccountsTypeOK
<1>7. link'[l0].owner = link[l0].owner /\ link'[l0].state = "used" /\ link'[l0] \in LinkRows
  <2>1. link'[l0] = [Invalidated(r)[l0] EXCEPT !.state = "used"] BY <1>1, <1>5, InvalidatedLinks
  <2>2. Invalidated(r)[l0].owner = link[l0].owner BY <1>5, InvalidatedLinks
  <2>3. Invalidated(r)[l0] \in LinkRows BY <1>5, <1>6
  <2> HIDE DEF l0
  <2> QED BY <2>1, <2>2, <2>3 DEF LinkRows, LinkStates
<1>8. \A l \in Links \ {l0} : link'[l] = Invalidated(r)[l] BY <1>1, InvalidatedLinks
<1>9. link' \in [Links -> LinkRows] BY <1>1, <1>6, <1>7, <1>8, InvalidatedLinks
<1>10. EndsLinks(r)
  BY <1>5, <1>7, <1>8, <1>9, InvalidatedLinks DEF AccountsInv, AccountsTypeOK, RequestRows, EndsLinks
<1>11. CountsOnce(r) BY <1>1, <1>5, <1>7 DEF AccountsInv, AccountsTypeOK, CountsOnce
<1>12. staleAuthor' \in BOOLEAN /\ ~Is(r, "recovery") BY <1>1 DEF AccountsInv, AccountsTypeOK, Is
<1> QED BY <1>1, <1>4, <1>10, <1>11, <1>12, CommitKeeps

(* A new link ends the links the request saw; those it did not see are named. *)
LEMMA RecoveryKeeps ==
  ASSUME AccountsInv, NEW r \in Requests, CommitRecovery(r)
  PROVE  AccountsInv'
<1> DEFINE q == request[r]
           n == q.link
           unknown == IF r \in overtaken THEN {n} ELSE {}
<1>1. /\ Is(r, "recovery") /\ InFlight(r) /\ request' = [request EXCEPT ![r] = Idle]
      /\ link' = [Invalidated(r) EXCEPT ![n] = [owner |-> q.of, state |-> "live"]]
      /\ outlived' = (outlived \ q.unused) \cup unknown
      /\ crossed' = (crossed \ q.unused) \cup missed[r] \cup unknown
      /\ overtaken' = overtaken \ {r}
      /\ missed' = [s \in Requests |-> IF s = r THEN {} ELSE IF s \in Concurrent(r) THEN missed[s] \cup {n} ELSE missed[s]]
      /\ UNCHANGED <<user, staleAuthor, redeemed>>
  BY DEF CommitRecovery, End, Is, InFlight
<1>2. q \in RequestRows /\ q.of \in Users BY <1>1 DEF AccountsInv, AccountsTypeOK
<1>3. n \in Links /\ link[n].state = "none" /\ user[q.of].status # "absent"
  BY <1>1 DEF AccountsInv, Flights, RecoveriesArePrivate
<1>4. Idle \in RequestRows /\ Idle.op = "idle" /\ Idle.unused = {} BY DEF Idle, RequestRows, Keep
<1>5. request'[r] = Idle /\ \A s \in Requests \ {r} : request'[s] = request[s] BY <1>1 DEF AccountsInv, AccountsTypeOK
<1>6. link'[n] = [owner |-> q.of, state |-> "live"] /\ link'[n] \in LinkRows /\ link'[n].state = "live" /\ link'[n].owner = q.of
  BY <1>1, <1>2, <1>3, InvalidatedLinks DEF LinkRows, LinkStates
<1>7. \A l \in Links \ {n} : link'[l] = Invalidated(r)[l] BY <1>1, InvalidatedLinks
<1>8. link' \in [Links -> LinkRows] BY <1>1, <1>6, <1>7, InvalidatedLinks
<1>9. \A l \in Links \ {n} : \/ link'[l] = link[l] /\ l \notin q.unused
                             \/ link'[l].owner = link[l].owner /\ link'[l].state = "used" /\ link[l].state # "none"
  BY <1>7, InvalidatedLinks
<1>10. AccountsTypeOK'
  <2>1. unknown \subseteq Links BY <1>3
  <2>2. outlived' \subseteq Links /\ crossed' \subseteq Links /\ overtaken' \subseteq Requests
    BY <1>1, <2>1 DEF AccountsInv, AccountsTypeOK
  <2>3. missed' \in [Requests -> SUBSET Links] BY <1>1, <1>3 DEF AccountsInv, AccountsTypeOK
  <2>4. request' \in [Requests -> RequestRows] BY <1>1, <1>4 DEF AccountsInv, AccountsTypeOK
  <2>5. \A s \in Requests : InFlight(s)' => request'[s].of \in Users
    BY <1>4, <1>5 DEF AccountsInv, AccountsTypeOK, InFlight
  <2> QED BY <1>1, <1>8, <2>2, <2>3, <2>4, <2>5 DEF AccountsInv, AccountsTypeOK
<1>11. AdminRemains' BY <1>1 DEF AccountsInv, AdminRemains, Admins
<1>12. \A l \in Links \ {n} : Live(l)' => Live(l) /\ link'[l] = link[l] /\ l \notin q.unused BY <1>9 DEF Live
<1>13. Sees(r) BY DEF AccountsInv
<1>14. ASSUME NEW l \in outlived' \ crossed' PROVE ~Live(l)'
  <2>1. l \in outlived /\ l \notin q.unused /\ l \notin crossed BY <1>1, <1>14
  <2>2. l \in Links /\ l # n BY <1>3, <2>1 DEF AccountsInv, AccountsTypeOK, Flights, OldLinksExist
  <2>3. ~Live(l) BY <2>1, SafeIs DEF AccountsInv
  <2> QED BY <1>12, <2>2, <2>3
<1>15. ASSUME NEW l \in Links \ crossed', l # n, Live(l)' PROVE link'[l].owner # q.of /\ Live(l) /\ l \notin crossed
  <2>1. Live(l) /\ link'[l] = link[l] /\ l \notin q.unused BY <1>12, <1>15
  <2>2. l \notin crossed /\ l \notin missed[r] BY <1>1, <1>15, <2>1
  <2> QED BY <1>1, <1>13, <2>1, <2>2 DEF Sees
<1>16. ASSUME NEW k \in Links \ crossed', NEW l \in Links \ crossed', Live(k)', Live(l)', link'[k].owner = link'[l].owner
       PROVE  k = l
  <2>1. CASE k = n \/ l = n BY <1>6, <1>15, <1>16, <2>1
  <2>2. CASE k # n /\ l # n BY <1>12, <1>15, <1>16, <2>2, SafeIs DEF AccountsInv
  <2> QED BY <2>1, <2>2
<1>17. RecoveryIsSafe'
  <2>1. /\ \A l \in outlived' \ crossed' : link'[l].state # "live"
        /\ \A k, l \in Links \ crossed' :
             link'[k].state = "live" /\ link'[l].state = "live" /\ link'[k].owner = link'[l].owner => k = l
        /\ \A l \in Links : redeemed'[l] <= 1
    BY <1>1, <1>14, <1>16, SafeIs DEF Live, AccountsInv
  <2> QED BY <2>1 DEF RecoveryIsSafe, LinksEndWithPassword, OneLiveLink, LinkWorksOnce
<1>18. FormsAreSafe' BY <1>4, <1>5 DEF AccountsInv, Flights, FormsAreSafe, Is
<1>19. LinksHaveOwners' BY <1>1, <1>2, <1>3, <1>6, <1>9 DEF AccountsInv, Flights, LinksHaveOwners
<1>20. \A l \in Links : link[l].state # "none" => link'[l].state # "none" BY <1>3, <1>9
<1>21. OldLinksExist'
  <2>1. ASSUME NEW l \in outlived' PROVE l = n \/ (l \in Links /\ link[l].state # "none")
    <3>1. l \in outlived \/ l \in unknown BY <1>1
    <3>2. l \in unknown => l = n OBVIOUS
    <3> HIDE DEF n, unknown
    <3> QED BY <3>1, <3>2 DEF AccountsInv, AccountsTypeOK, Flights, OldLinksExist
  <2>2. \A s \in Requests : \A l \in request'[s].unused : l \in Links /\ link[l].state # "none"
    BY <1>4, <1>5 DEF AccountsInv, Flights, OldLinksExist, AccountsTypeOK, RequestRows
  <2> QED BY <1>6, <1>20, <2>1, <2>2 DEF OldLinksExist
<1>22. RecoveriesArePrivate'
  <2>1. \A s \in Requests : Is(s, "recovery")' => s # r /\ Is(s, "recovery") /\ request'[s] = request[s]
    BY <1>4, <1>5 DEF Is
  <2>2. \A s \in Requests \ {r} : Is(s, "recovery") =>
          request[s].link \in Links \ {n} /\ link[request[s].link].state = "none" /\ user[request[s].of].status # "absent"
    BY <1>1 DEF AccountsInv, Flights, RecoveriesArePrivate
  <2> QED BY <1>1, <1>9, <2>1, <2>2 DEF AccountsInv, Flights, RecoveriesArePrivate, Is
<1>23. RedeemsAreFirst'
  <2>1. \A s \in Requests : Is(s, "redeem")' => s # r /\ Is(s, "redeem") /\ request'[s] = request[s]
    BY <1>4, <1>5 DEF Is
  <2>2. redeemed[n] = 0 BY <1>3 DEF AccountsInv, Flights, RedeemsAreFirst
  <2> QED BY <1>1, <1>3, <1>9, <2>1, <2>2 DEF AccountsInv, Flights, RedeemsAreFirst, Is
<1>24. ASSUME NEW s \in Requests PROVE Sees(s)'
  <2>1. CASE s = r BY <1>4, <1>5, <2>1 DEF Sees, InFlight
  <2>2. CASE s # r
    <3>1. request'[s] = request[s] /\ missed[s] \subseteq missed'[s] /\ (s \in Concurrent(r) => n \in missed'[s])
      BY <1>1, <1>5, <2>2
    <3>2. Sees(s) BY DEF AccountsInv
    <3>3. InFlight(s) /\ request[s].of = q.of => s \in Concurrent(r) BY <2>2 DEF Concurrent
    <3> QED BY <1>6, <1>12, <3>1, <3>2, <3>3 DEF Sees, InFlight, SetsPassword, Is
  <2> QED BY <2>1, <2>2
<1> QED BY <1>10, <1>11, <1>17, <1>18, <1>19, <1>21, <1>22, <1>23, <1>24 DEF AccountsInv, Flights

----------------------------------------------------------------------------
LEMMA RollbackKeeps ==
  ASSUME AccountsInv, NEW r \in Requests, Rollback(r)
  PROVE  AccountsInv'
<1>1. /\ request' = [request EXCEPT ![r] = Idle] /\ overtaken' = overtaken \ {r} /\ missed' = [missed EXCEPT ![r] = {}]
      /\ UNCHANGED <<user, link, staleAuthor, crossed, outlived, redeemed>>
  BY DEF Rollback, End
<1>2. Idle \in RequestRows /\ Idle.op = "idle" /\ Idle.unused = {} BY DEF Idle, RequestRows, Keep
<1>3. /\ request'[r] = Idle /\ \A s \in Requests \ {r} : request'[s] = request[s]
      /\ \A s \in Requests \ {r} : missed'[s] = missed[s]
  BY <1>1 DEF AccountsInv, AccountsTypeOK
<1>4. AccountsTypeOK' BY <1>1, <1>2, <1>3 DEF AccountsInv, AccountsTypeOK, InFlight
<1>5. AdminRemains' BY <1>1 DEF AccountsInv, AdminRemains, Admins
<1>6. RecoveryIsSafe' BY <1>1 DEF AccountsInv, RecoveryIsSafe, LinksEndWithPassword, OneLiveLink, LinkWorksOnce
<1>7. FormsAreSafe' /\ LinksHaveOwners' BY <1>1, <1>2, <1>3 DEF AccountsInv, Flights, FormsAreSafe, LinksHaveOwners, Is
<1>8. OldLinksExist' BY <1>1, <1>2, <1>3 DEF AccountsInv, Flights, OldLinksExist
<1>9. RecoveriesArePrivate' BY <1>1, <1>2, <1>3 DEF AccountsInv, Flights, RecoveriesArePrivate, Is
<1>10. RedeemsAreFirst' BY <1>1, <1>2, <1>3 DEF AccountsInv, Flights, RedeemsAreFirst, Is
<1>11. \A s \in Requests : Sees(s)' BY <1>1, <1>2, <1>3 DEF AccountsInv, Sees, InFlight, SetsPassword, Is, Live
<1> QED BY <1>4, <1>5, <1>6, <1>7, <1>8, <1>9, <1>10, <1>11 DEF AccountsInv, Flights

LEMMA ExpireKeeps ==
  ASSUME AccountsInv, NEW m \in Links, Expire(m)
  PROVE  AccountsInv'
<1>1. /\ Live(m) /\ link' = [link EXCEPT ![m].state = "expired"]
      /\ UNCHANGED <<user, request, staleAuthor, overtaken, missed, crossed, outlived, redeemed>>
  BY DEF Expire, history, Live
<1>2. /\ link'[m] = [owner |-> link[m].owner, state |-> "expired"] /\ \A l \in Links \ {m} : link'[l] = link[l]
      /\ link' \in [Links -> LinkRows]
  BY <1>1 DEF AccountsInv, AccountsTypeOK, LinkRows, LinkStates
<1>3. \A l \in Links : link'[l].owner = link[l].owner /\ (Live(l)' => Live(l)) BY <1>2 DEF Live
<1>4. \A l \in Links : (link'[l].state = "none" <=> link[l].state = "none") /\ (link'[l].state = "used" <=> link[l].state = "used")
  BY <1>1, <1>2 DEF Live
<1>5. AccountsTypeOK' BY <1>1, <1>2 DEF AccountsInv, AccountsTypeOK, InFlight
<1>6. AdminRemains' BY <1>1 DEF AccountsInv, AdminRemains, Admins
<1>7. outlived \subseteq Links BY DEF AccountsInv, AccountsTypeOK
<1>8. RecoveryIsSafe'
  BY <1>1, <1>3, <1>7 DEF AccountsInv, RecoveryIsSafe, LinksEndWithPassword, OneLiveLink, LinkWorksOnce, Live
<1>9. FormsAreSafe' /\ LinksHaveOwners' BY <1>1, <1>3, <1>4 DEF AccountsInv, Flights, FormsAreSafe, LinksHaveOwners, Is
<1>10. \A r \in Requests : request[r].unused \subseteq Links BY DEF AccountsInv, AccountsTypeOK, RequestRows
<1>11. OldLinksExist' BY <1>1, <1>4, <1>7, <1>10 DEF AccountsInv, Flights, OldLinksExist
<1>12. RecoveriesArePrivate' BY <1>1, <1>4 DEF AccountsInv, Flights, RecoveriesArePrivate, Is
<1>13. RedeemsAreFirst' BY <1>1, <1>3, <1>4 DEF AccountsInv, Flights, RedeemsAreFirst, Is
<1>14. \A r \in Requests : Sees(r)' BY <1>1, <1>3 DEF AccountsInv, Sees, InFlight, SetsPassword, Is
<1> QED BY <1>5, <1>6, <1>8, <1>9, <1>11, <1>12, <1>13, <1>14 DEF AccountsInv, Flights

LEMMA InitAdminKeeps ==
  ASSUME AccountsInv, InitAdmin
  PROVE  AccountsInv'
<1>1. /\ user' = [user EXCEPT ![BootAdmin].role = "admin", ![BootAdmin].status = "active"] /\ staleAuthor' = FALSE
      /\ UNCHANGED <<link, request, overtaken, missed, crossed, outlived, redeemed>>
  BY DEF InitAdmin
<1>2. /\ user' \in [Users -> UserRows] /\ user'[BootAdmin].role = "admin" /\ user'[BootAdmin].status = "active"
      /\ \A u \in Users \ {BootAdmin} : user'[u] = user[u]
  BY <1>1, AccountsAssumption DEF AccountsInv, AccountsTypeOK, UserRows, Roles, Statuses
<1>3. \A u \in Users : user[u].status # "absent" => user'[u].status # "absent" BY <1>2
<1>4. AccountsTypeOK' BY <1>1, <1>2 DEF AccountsInv, AccountsTypeOK, InFlight
<1>5. AdminRemains' BY <1>2, AccountsAssumption DEF AdminRemains, Admins
<1>6. RecoveryIsSafe' BY <1>1 DEF AccountsInv, RecoveryIsSafe, LinksEndWithPassword, OneLiveLink, LinkWorksOnce
<1>7. FormsAreSafe' /\ LinksHaveOwners' BY <1>1, <1>3 DEF AccountsInv, Flights, FormsAreSafe, LinksHaveOwners, Is
<1>8. OldLinksExist' BY <1>1 DEF AccountsInv, Flights, OldLinksExist
<1>9. \A r \in Requests : Is(r, "recovery") => request[r].of \in Users
  BY DEF AccountsInv, AccountsTypeOK, InFlight, Is
<1>10. RecoveriesArePrivate' BY <1>1, <1>3, <1>9 DEF AccountsInv, Flights, RecoveriesArePrivate, Is
<1>11. RedeemsAreFirst' BY <1>1 DEF AccountsInv, Flights, RedeemsAreFirst, Is
<1>12. \A r \in Requests : Sees(r)' BY <1>1 DEF AccountsInv, Sees, InFlight, SetsPassword, Is, Live
<1> QED BY <1>4, <1>5, <1>6, <1>7, <1>8, <1>10, <1>11, <1>12 DEF AccountsInv, Flights

LEMMA AccountsStepKeeps == AccountsInv /\ [AccountsNext]_accountVars => AccountsInv'
<1> SUFFICES ASSUME AccountsInv, [AccountsNext]_accountVars PROVE AccountsInv' OBVIOUS
<1>1. CASE UNCHANGED accountVars
  <2>1. UNCHANGED <<user, link, request, staleAuthor, overtaken, missed, crossed, outlived, redeemed>>
    BY <1>1 DEF accountVars, history
  <2>2. AccountsTypeOK' /\ AdminRemains' BY <2>1 DEF AccountsInv, AccountsTypeOK, AdminRemains, Admins, InFlight
  <2>3. RecoveryIsSafe' BY <2>1 DEF AccountsInv, RecoveryIsSafe, LinksEndWithPassword, OneLiveLink, LinkWorksOnce
  <2>4. Flights'
    BY <2>1 DEF AccountsInv, Flights, FormsAreSafe, LinksHaveOwners, OldLinksExist, RecoveriesArePrivate, RedeemsAreFirst, Is
  <2>5. \A r \in Requests : Sees(r)' BY <2>1 DEF AccountsInv, Sees, InFlight, SetsPassword, Is, Live
  <2> QED BY <2>2, <2>3, <2>4, <2>5 DEF AccountsInv
<1>2. ASSUME NEW r \in Requests, AccountsCommit(r) PROVE AccountsInv'
  BY <1>2, CreateKeeps, EditKeeps, ChangeKeeps, RecoveryKeeps, RedeemKeeps DEF AccountsCommit
<1>3. CASE AccountsNext
  BY <1>2, <1>3, AccountsBeginKeeps, RollbackKeeps, ExpireKeeps, InitAdminKeeps DEF AccountsNext
<1> QED BY <1>1, <1>3

LEMMA AccountsInvariant == AccountsSpec => []AccountsInv
<1> QED BY AccountsInitHolds, AccountsStepKeeps, PTL DEF AccountsSpec

(* Accounts, links and requests keep their shape (models/user.py:13).         *)
THEOREM AccountsTypeCorrect == AccountsSpec => []AccountsTypeOK
<1>1. AccountsInv => AccountsTypeOK BY DEF AccountsInv
<1> QED BY AccountsInvariant, <1>1, PTL

(* However many administrators edit each other, one is left, unless an edit   *)
(* was committed by someone who had just stopped being one (users.py:137).    *)
THEOREM AnAdminRemains == AccountsSpec => []AdminRemains
<1>1. AccountsInv => AdminRemains BY DEF AccountsInv
<1> QED BY AccountsInvariant, <1>1, PTL

(* However many requests on passwords overlap, a link ends with the password   *)
(* it was asked for under, the last one works, and works once, but for links   *)
(* that concurrent requests could not see (auth.py:180, 236, users.py:339).    *)
THEOREM RecoveryStaysSafe == AccountsSpec => []RecoveryIsSafe
<1>1. AccountsInv => RecoveryIsSafe BY DEF AccountsInv
<1> QED BY AccountsInvariant, <1>1, PTL

-----------------------------------------------------------------------------
(***************************************************************************)
(* The periods of an employee on a vehicle stay apart, for any number of    *)
(* employees, vehicles, requests and days, but for the rows named in raced. *)
(* The invariant says what a request still knows when it commits: the row   *)
(* it checked is the row it will write, and is apart from every row that    *)
(* nobody has written since.                                                *)
(***************************************************************************)

SameLink(r, s) == r.user = s.user /\ r.vehicle = s.vehicle
Apart(r, s) == ~RangesOverlap(r.starts, r.ends, s.starts, s.ends)
RowDays(r) == {d \in Days : r.starts <= d /\ d <= EffectiveEnd(r.ends)}

Merged(q, row, taken) ==
  IF taken
    THEN [row EXCEPT !.starts = IF q.starts = NoValue THEN @ ELSE q.starts,
                     !.ends = IF q.ends = {} THEN @ ELSE CHOOSE d \in q.ends : TRUE]
    ELSE q.row

Knows(e) ==
  LET q == edit[e] IN
  q.slot # NoValue =>
    /\ ValidDates(q.row.starts, q.row.ends)
    /\ q.slot \notin unseen[e] => WrittenRow(e) = q.row
    /\ \A j \in Taken \ ({q.slot} \cup unseen[e]) : SameLink(assignment[j], q.row) => Apart(q.row, assignment[j])

AssignmentsInv == AssignmentsTypeOK /\ AssignmentsHold /\ \A e \in Editors : Knows(e)

(* A period whose dates are in order has a day.                              *)
LEMMA ValidRowHasADay ==
  ASSUME NEW r \in Rows, ValidDates(r.starts, r.ends)
  PROVE  RowDays(r) # {}
<1>1. r.starts \in Days /\ r.ends \in Days \cup {NoValue} BY DEF Rows
<1>2. r.starts \in RowDays(r)
  BY <1>1, AssignmentsAssumption DEF RowDays, ValidDates, EffectiveEnd, Days
<1> QED BY <1>2

(* The comparison of the four dates says that two periods share no day.       *)
LEMMA ApartRowsShareNoDay ==
  ASSUME NEW r \in Rows, NEW s \in Rows, Apart(r, s)
  PROVE  RowDays(r) \cap RowDays(s) = {}
<1>1. r.starts \in Days /\ r.ends \in Days \cup {NoValue} BY DEF Rows
<1>2. s.starts \in Days /\ s.ends \in Days \cup {NoValue} BY DEF Rows
<1>3. EffectiveEnd(r.ends) \in Nat /\ EffectiveEnd(s.ends) \in Nat
  BY <1>1, <1>2, AssignmentsAssumption DEF EffectiveEnd, Days
<1> QED BY <1>1, <1>2, <1>3 DEF Apart, RangesOverlap, RowDays, Days

(* What AssignmentsHold says, in terms of rows.                               *)
LEMMA HoldOfRows ==
  ASSUME TRUE
  PROVE  AssignmentsHold <=>
           /\ \A i \in Taken : {i} \notin raced => RowDays(assignment[i]) # {}
           /\ \A i, j \in Taken :
                i # j /\ {i, j} \notin raced /\ {i} \notin raced /\ {j} \notin raced
                /\ SameLink(assignment[i], assignment[j])
                => RowDays(assignment[i]) \cap RowDays(assignment[j]) = {}
BY DEF AssignmentsHold, PeriodsAreNotEmpty, AssignedOnce, DaysOf, RowDays, SameLink

LEMMA AssignmentsInitHolds == AssignmentsInit => AssignmentsInv
<1> SUFFICES ASSUME AssignmentsInit PROVE AssignmentsInv OBVIOUS
<1>1. 1 \in Days BY AssignmentsAssumption DEF Days
<1>2. FreeSlot \in Rows BY <1>1 DEF FreeSlot, Rows
<1>3. AssignmentsTypeOK BY <1>2 DEF AssignmentsInit, AssignmentsTypeOK, NoEdit
<1>4. Taken = {} BY DEF AssignmentsInit, Taken, FreeSlot
<1>5. AssignmentsHold BY <1>4 DEF AssignmentsHold, PeriodsAreNotEmpty, AssignedOnce
<1>6. \A e \in Editors : Knows(e) BY DEF Knows, AssignmentsInit, NoEdit
<1> QED BY <1>3, <1>5, <1>6 DEF AssignmentsInv

(* What a request writes depends on nothing but the request and its row.     *)
LEMMA WrittenIsMerged ==
  ASSUME NEW e \in Editors
  PROVE  /\ WrittenRow(e) = Merged(edit[e], assignment[edit[e].slot], edit[e].slot \in Taken)
         /\ WrittenRow(e)' = Merged(edit'[e], assignment'[edit'[e].slot], edit'[e].slot \in Taken')
BY DEF WrittenRow, Merged

(* A request that starts knows what it has just checked.                      *)
LEMMA StartKeeps ==
  ASSUME AssignmentsInv, NEW e \in Editors, NEW i \in Slots, NEW row \in Rows,
         NEW starts \in Days \cup {NoValue}, NEW ends \in SUBSET (Days \cup {NoValue}),
         Start(e, [slot |-> i, row |-> row, starts |-> starts, ends |-> ends]),
         ValidDates(row.starts, row.ends), NotOverlapping(row, {i}), WrittenRow(e)' = row
  PROVE  AssignmentsInv'
<1> DEFINE q == [slot |-> i, row |-> row, starts |-> starts, ends |-> ends]
<1>1. edit' = [edit EXCEPT ![e] = q] /\ UNCHANGED <<assignment, unseen, raced>> BY DEF Start
<1>2. AssignmentsTypeOK' BY <1>1 DEF AssignmentsInv, AssignmentsTypeOK
<1>3. Taken' = Taken BY <1>1 DEF Taken
<1>4. AssignmentsHold' BY <1>1, <1>3 DEF AssignmentsInv, AssignmentsHold, PeriodsAreNotEmpty, AssignedOnce, DaysOf
<1>5. ASSUME NEW f \in Editors, f # e PROVE Knows(f)'
  <2>1. edit'[f] = edit[f] BY <1>1, <1>5 DEF AssignmentsInv, AssignmentsTypeOK
  <2>2. WrittenRow(f)' = WrittenRow(f) BY <1>1, <1>3, <2>1, WrittenIsMerged
  <2> QED BY <1>1, <1>3, <2>1, <2>2 DEF AssignmentsInv, Knows
<1>6. Knows(e)'
  <2>1. edit'[e] = q BY <1>1 DEF AssignmentsInv, AssignmentsTypeOK
  <2>2. \A j \in Taken \ {i} : SameLink(assignment[j], row) => Apart(row, assignment[j])
    BY DEF NotOverlapping, SameLink, Apart
  <2> QED BY <1>1, <1>3, <2>1, <2>2 DEF Knows
<1> QED BY <1>2, <1>4, <1>5, <1>6 DEF AssignmentsInv

LEMMA AssignKeeps ==
  ASSUME AssignmentsInv, NEW e \in Editors, NEW i \in Slots, NEW u \in Employees, NEW v \in Fleet,
         NEW s \in Days, NEW d \in Days \cup {NoValue},
         BeginAssign(e, i, [user |-> u, vehicle |-> v, starts |-> s, ends |-> d])
  PROVE  AssignmentsInv'
<1> DEFINE row == [user |-> u, vehicle |-> v, starts |-> s, ends |-> d]
<1>1. row \in Rows BY DEF Rows
<1>2. Start(e, [slot |-> i, row |-> row, starts |-> s, ends |-> {d}]) BY DEF BeginAssign
<1>3. ValidDates(row.starts, row.ends) /\ NotOverlapping(row, {i}) BY DEF BeginAssign, NotOverlapping
<1>4. edit'[e] = [slot |-> i, row |-> row, starts |-> s, ends |-> {d}] /\ i \notin Taken'
  BY <1>2 DEF Start, BeginAssign, AssignmentsInv, AssignmentsTypeOK, Taken
<1>5. WrittenRow(e)' = row BY <1>4 DEF WrittenRow
<1> QED BY <1>1, <1>2, <1>3, <1>5, StartKeeps

LEMMA ReassignKeeps ==
  ASSUME AssignmentsInv, NEW e \in Editors, NEW i \in Slots, NEW s \in Days, NEW d \in Days \cup {NoValue},
         BeginReassign(e, i, s, d)
  PROVE  AssignmentsInv'
<1> DEFINE row == [assignment[i] EXCEPT !.starts = s, !.ends = d]
           starts == IF s = assignment[i].starts THEN NoValue ELSE s
           ends == IF d = assignment[i].ends THEN {} ELSE {d}
<1>1. assignment[i] \in Rows BY DEF AssignmentsInv, AssignmentsTypeOK
<1>2. row \in Rows BY <1>1 DEF Rows
<1>3. row.starts = s /\ row.ends = d BY <1>1 DEF Rows
<1>4. Start(e, [slot |-> i, row |-> row, starts |-> starts, ends |-> ends]) BY DEF BeginReassign
<1>5. ValidDates(row.starts, row.ends) /\ NotOverlapping(row, {i}) BY <1>3 DEF BeginReassign
<1>6. /\ edit'[e] = [slot |-> i, row |-> row, starts |-> starts, ends |-> ends]
      /\ i \in Taken' /\ assignment' = assignment
  BY <1>4 DEF Start, BeginReassign, AssignmentsInv, AssignmentsTypeOK, Taken
<1>7. WrittenRow(e)' = row
  <2>1. s # NoValue BY AssignmentsAssumption DEF Days
  <2>2. (IF starts = NoValue THEN assignment[i].starts ELSE starts) = s BY <2>1
  <2>3. (IF ends = {} THEN assignment[i].ends ELSE CHOOSE x \in ends : TRUE) = d OBVIOUS
  <2>4. WrittenRow(e)' = [assignment[i] EXCEPT
                            !.starts = IF starts = NoValue THEN assignment[i].starts ELSE starts,
                            !.ends = IF ends = {} THEN assignment[i].ends ELSE CHOOSE x \in ends : TRUE]
    BY <1>1, <1>6 DEF WrittenRow, Rows
  <2> HIDE DEF starts, ends
  <2> QED BY <2>2, <2>3, <2>4
<1>8. starts \in Days \cup {NoValue} /\ ends \in SUBSET (Days \cup {NoValue}) OBVIOUS
<1> HIDE DEF row, starts, ends
<1> QED BY <1>2, <1>4, <1>5, <1>7, <1>8, StartKeeps

(* The row that is written is a row, and apart from those that were not       *)
(* written meanwhile.                                                         *)
LEMMA SaveKeeps ==
  ASSUME AssignmentsInv, NEW e \in Editors, SaveAssignment(e)
  PROVE  AssignmentsInv'
<1> DEFINE i == edit[e].slot
           w == WrittenRow(e)
           same == {{i, j} : j \in unseen[e]}
<1>1. i \in Slots BY DEF SaveAssignment, AssignmentsInv, AssignmentsTypeOK
<1>2. w \in Rows
  <2>1. /\ edit[e].row \in Rows /\ edit[e].starts \in Days \cup {NoValue}
        /\ edit[e].ends \in SUBSET (Days \cup {NoValue}) /\ assignment[i] \in Rows
    BY <1>1 DEF AssignmentsInv, AssignmentsTypeOK
  <2>2. ASSUME edit[e].ends # {} PROVE (CHOOSE d \in edit[e].ends : TRUE) \in Days \cup {NoValue}
    BY <2>1, <2>2
  <2> QED BY <2>1, <2>2 DEF WrittenRow, Rows
<1>3. /\ assignment' = [assignment EXCEPT ![i] = w]
      /\ raced' = {p \in raced : i \notin p} \cup same
      /\ edit' = [edit EXCEPT ![e] = NoEdit]
      /\ \A f \in Editors \ {e} : edit[f].slot # NoValue => unseen'[f] = unseen[f] \cup {i}
  BY DEF SaveAssignment, Rechecked
<1>4. AssignmentsTypeOK'
  <2>1. unseen' \in [Editors -> SUBSET Slots] BY <1>1 DEF SaveAssignment, AssignmentsInv, AssignmentsTypeOK
  <2>2. raced' \in SUBSET (SUBSET Slots) BY <1>1, <1>3 DEF AssignmentsInv, AssignmentsTypeOK
  <2>3. assignment' \in [Slots -> Rows] BY <1>2, <1>3 DEF AssignmentsInv, AssignmentsTypeOK
  <2>4. FreeSlot \in Rows BY AssignmentsAssumption DEF FreeSlot, Rows, Days
  <2>5. NoEdit \in [slot : Slots \cup {NoValue}, row : Rows, starts : Days \cup {NoValue},
                    ends : SUBSET (Days \cup {NoValue})]
    BY <2>4 DEF NoEdit
  <2>6. edit' \in [Editors -> [slot : Slots \cup {NoValue}, row : Rows, starts : Days \cup {NoValue},
                               ends : SUBSET (Days \cup {NoValue})]]
    BY <1>3, <2>5 DEF AssignmentsInv, AssignmentsTypeOK
  <2> QED BY <2>1, <2>2, <2>3, <2>6 DEF AssignmentsTypeOK
<1>5. /\ assignment'[i] = w
      /\ \A k \in Slots \ {i} : assignment'[k] = assignment[k] /\ (k \in Taken' <=> k \in Taken)
  BY <1>1, <1>3 DEF AssignmentsInv, AssignmentsTypeOK, Taken
<1>6. ASSUME i \notin unseen[e]
      PROVE  /\ w = edit[e].row /\ ValidDates(w.starts, w.ends)
             /\ \A j \in Taken \ ({i} \cup unseen[e]) : SameLink(assignment[j], w) => Apart(w, assignment[j])
  BY <1>1, <1>6, AssignmentsAssumption DEF AssignmentsInv, Knows
<1> HIDE DEF w
<1>7. \A k \in Slots : {i, k} \notin raced' => k \notin unseen[e] BY <1>3
<1>8. {i} \notin raced' => i \notin unseen[e]
  <2>1. {i, i} = {i} OBVIOUS
  <2> QED BY <1>1, <1>7, <2>1
<1>9. \A j, k \in Slots \ {i} : {j, k} \notin raced' => {j, k} \notin raced BY <1>3
<1>10. \A k \in Slots \ {i} : {k} \notin raced' => {k} \notin raced BY <1>3
<1>11. ASSUME NEW k \in Taken', {k} \notin raced' PROVE RowDays(assignment'[k]) # {}
  <2>1. CASE k = i BY <1>2, <1>5, <1>6, <1>8, <1>11, <2>1, ValidRowHasADay
  <2>2. CASE k # i
    <3>1. k \in Taken /\ {k} \notin raced /\ assignment'[k] = assignment[k] BY <1>5, <1>10, <1>11, <2>2 DEF Taken
    <3> QED BY <3>1, HoldOfRows DEF AssignmentsInv
  <2> QED BY <2>1, <2>2
<1>12. ASSUME NEW k \in Taken', k # i, {i} \notin raced', {i, k} \notin raced', SameLink(assignment'[k], w)
       PROVE  RowDays(w) \cap RowDays(assignment'[k]) = {}
  <2>1. k \in Slots BY DEF Taken
  <2>2. k \in Taken /\ assignment'[k] = assignment[k] /\ assignment[k] \in Rows
    BY <1>5, <1>12, <2>1 DEF AssignmentsInv, AssignmentsTypeOK
  <2>3. k \notin unseen[e] /\ i \notin unseen[e] BY <1>7, <1>8, <1>12, <2>1
  <2>4. Apart(w, assignment[k]) BY <1>6, <1>12, <2>2, <2>3
  <2> QED BY <1>2, <2>2, <2>4, ApartRowsShareNoDay
<1>13. ASSUME NEW j \in Taken', NEW k \in Taken', j # k, {j, k} \notin raced', {j} \notin raced', {k} \notin raced',
              SameLink(assignment'[j], assignment'[k])
       PROVE  RowDays(assignment'[j]) \cap RowDays(assignment'[k]) = {}
  <2>1. j \in Slots /\ k \in Slots BY DEF Taken
  <2>2. CASE j = i BY <1>5, <1>12, <1>13, <2>2 DEF SameLink
  <2>3. CASE k = i
    <3>1. {k, j} = {j, k} OBVIOUS
    <3> QED BY <1>5, <1>12, <1>13, <2>3, <3>1 DEF SameLink
  <2>4. CASE j # i /\ k # i
    <3>1. j \in Taken /\ k \in Taken /\ assignment'[j] = assignment[j] /\ assignment'[k] = assignment[k]
      BY <1>5, <2>1, <2>4
    <3>2. {j, k} \notin raced /\ {j} \notin raced /\ {k} \notin raced BY <1>9, <1>10, <1>13, <2>1, <2>4
    <3> QED BY <1>13, <3>1, <3>2, HoldOfRows DEF AssignmentsInv
  <2> QED BY <2>2, <2>3, <2>4
<1>14. AssignmentsHold'
  <2>1. /\ \A k \in Taken' : {k} \notin raced' => RowDays(assignment'[k]) # {}
        /\ \A j, k \in Taken' :
             j # k /\ {j, k} \notin raced' /\ {j} \notin raced' /\ {k} \notin raced'
             /\ SameLink(assignment'[j], assignment'[k])
             => RowDays(assignment'[j]) \cap RowDays(assignment'[k]) = {}
    BY <1>11, <1>13
  <2> QED BY <2>1 DEF AssignmentsHold, PeriodsAreNotEmpty, AssignedOnce, DaysOf, RowDays, SameLink
<1>15. ASSUME NEW f \in Editors PROVE Knows(f)'
  <2>1. CASE f = e
    <3>1. edit'[f].slot = NoValue BY <1>3, <2>1 DEF AssignmentsInv, AssignmentsTypeOK, NoEdit
    <3> QED BY <3>1 DEF Knows
  <2>2. CASE f # e
    <3>1. edit'[f] = edit[f] BY <1>3, <2>2 DEF AssignmentsInv, AssignmentsTypeOK
    <3>2. CASE edit[f].slot = NoValue BY <3>1, <3>2 DEF Knows
    <3>3. CASE edit[f].slot # NoValue
      <4>1. unseen'[f] = unseen[f] \cup {i} BY <1>3, <2>2, <3>3
      <4>2. edit[f].slot \in Slots BY <3>3 DEF AssignmentsInv, AssignmentsTypeOK
      <4>3. Knows(f) BY DEF AssignmentsInv
      <4>4. ASSUME edit[f].slot \notin unseen'[f] PROVE WrittenRow(f)' = edit[f].row
        <5>1. edit[f].slot # i /\ WrittenRow(f) = edit[f].row BY <3>3, <4>1, <4>3, <4>4 DEF Knows
        <5>2. WrittenRow(f)' = WrittenRow(f) BY <1>5, <3>1, <4>2, <5>1, WrittenIsMerged
        <5> QED BY <5>1, <5>2
      <4>5. \A j \in Taken' \ ({edit[f].slot} \cup unseen'[f]) : j \in Taken \ ({edit[f].slot} \cup unseen[f]) /\ assignment'[j] = assignment[j]
        BY <1>5, <4>1 DEF Taken
      <4>6. \A j \in Taken' \ ({edit[f].slot} \cup unseen'[f]) :
              SameLink(assignment'[j], edit[f].row) => Apart(edit[f].row, assignment'[j])
        BY <3>3, <4>3, <4>5 DEF Knows
      <4>7. ValidDates(edit[f].row.starts, edit[f].row.ends) BY <3>3, <4>3 DEF Knows
      <4> QED BY <3>1, <4>4, <4>6, <4>7 DEF Knows
    <3> QED BY <3>2, <3>3
  <2> QED BY <2>1, <2>2
<1> QED BY <1>4, <1>14, <1>15 DEF AssignmentsInv

LEMMA CancelKeeps ==
  ASSUME AssignmentsInv, NEW e \in Editors, CancelEdit(e)
  PROVE  AssignmentsInv'
<1>1. edit' = [edit EXCEPT ![e] = NoEdit] /\ unseen' = [unseen EXCEPT ![e] = {}]
      /\ UNCHANGED <<assignment, raced>>
  BY DEF CancelEdit
<1>2. FreeSlot \in Rows BY AssignmentsAssumption DEF FreeSlot, Rows, Days
<1>3. AssignmentsTypeOK' BY <1>1, <1>2 DEF AssignmentsInv, AssignmentsTypeOK, NoEdit
<1>4. Taken' = Taken BY <1>1 DEF Taken
<1>5. AssignmentsHold' BY <1>1, <1>4 DEF AssignmentsInv, AssignmentsHold, PeriodsAreNotEmpty, AssignedOnce, DaysOf
<1>6. ASSUME NEW f \in Editors PROVE Knows(f)'
  <2>1. CASE f = e
    <3>1. edit'[f].slot = NoValue BY <1>1, <2>1 DEF AssignmentsInv, AssignmentsTypeOK, NoEdit
    <3> QED BY <3>1 DEF Knows
  <2>2. CASE f # e
    <3>1. edit'[f] = edit[f] /\ unseen'[f] = unseen[f] BY <1>1, <2>2 DEF AssignmentsInv, AssignmentsTypeOK
    <3>2. WrittenRow(f)' = WrittenRow(f) BY <1>1, <1>4, <3>1, WrittenIsMerged
    <3> QED BY <1>1, <1>4, <3>1, <3>2 DEF AssignmentsInv, Knows
  <2> QED BY <2>1, <2>2
<1> QED BY <1>3, <1>5, <1>6 DEF AssignmentsInv

LEMMA AssignmentsStepKeeps == AssignmentsInv /\ [AssignmentsNext]_assignmentVars => AssignmentsInv'
<1> SUFFICES ASSUME AssignmentsInv, [AssignmentsNext]_assignmentVars PROVE AssignmentsInv' OBVIOUS
<1>1. CASE UNCHANGED assignmentVars
  <2>1. /\ UNCHANGED <<assignment, edit, unseen, raced>> /\ Taken' = Taken
        /\ \A e \in Editors : WrittenRow(e)' = WrittenRow(e)
    BY <1>1 DEF assignmentVars, Taken, WrittenRow
  <2> QED BY <2>1 DEF AssignmentsInv, AssignmentsTypeOK, AssignmentsHold, PeriodsAreNotEmpty, AssignedOnce, DaysOf, Knows
<1>2. CASE AssignmentsNext BY <1>2, AssignKeeps, ReassignKeeps, SaveKeeps, CancelKeeps DEF AssignmentsNext
<1> QED BY <1>1, <1>2

LEMMA AssignmentsInvariant == AssignmentsSpec => []AssignmentsInv
<1> QED BY AssignmentsInitHolds, AssignmentsStepKeeps, PTL DEF AssignmentsSpec

(* Rows, requests and the history keep their shape (models/vehicle.py:55).    *)
THEOREM AssignmentsTypeCorrect == AssignmentsSpec => []AssignmentsTypeOK
<1>1. AssignmentsInv => AssignmentsTypeOK BY DEF AssignmentsInv
<1> QED BY AssignmentsInvariant, <1>1, PTL

(* However many requests overlap, every stored period has a day, and no        *)
(* employee is on a vehicle twice on one day, except where a request could     *)
(* not see what others committed while it ran (users.py:167, 193).             *)
THEOREM PeriodsStayApart == AssignmentsSpec => []AssignmentsHold
<1>1. AssignmentsInv => AssignmentsHold BY DEF AssignmentsInv
<1> QED BY AssignmentsInvariant, <1>1, PTL

----------------------------------------------------------------------------
(***************************************************************************)
(* The catalogues of labor norms, for any number of catalogues, norms and   *)
(* requests. What a request has loaded it goes on believing; the rows that   *)
(* were written since are those it missed, and of all others it is right.    *)
(***************************************************************************)

NormStatuses == {"none", "live", "archived"}
Puts == [status : NormStatuses \cup {"keep"}, scope : Scopes \cup {NoLabel},
         code : Codes \cup {NoLabel}, label : Labels \cup {NoLabel}]
CuratorRows ==
  [stage : {"idle", "loaded", "saved"}, op : {"none", "book", "norm", "import", "sync", "script"},
   scope : Scopes \cup {NoLabel}, seen : BookRows, given : Labels \cup {NoLabel},
   status : {"keep", "live", "archived"}, put : Puts, on : NormIds \cup {NoLabel},
   label : Labels \cup {NoLabel}, relabel : SUBSET NormIds, codes : SUBSET Codes,
   same : SUBSET NormIds, live : SUBSET NormIds, missed : SUBSET (Scopes \cup NormIds)]

\* The norms of a catalogue, in the rows n.
NormsIn(n, s) == {i \in NormIds : n[i].status # "none" /\ n[i].scope = s}

\* A catalogue that is there has a name, and a norm has a catalogue.
RowsComplete(b, n) ==
  /\ \A s \in Scopes : b[s] = NoBook \/ (b[s].status # "none" /\ b[s].label # NoLabel)
  /\ \A i \in NormIds :
       \/ n[i] = NoNorm
       \/ /\ n[i].status # "none" /\ n[i].label # NoLabel
          /\ n[i].scope \in Scopes /\ b[n[i].scope].status # "none"

\* A request that has loaded the norm it will write, or that will add one.
KnowsNorm(q, b, n) ==
  /\ b[q.scope].status # "none"
  /\ q.put.status # "none" /\ q.put.scope \in {NoLabel, q.scope}
  /\ q.scope \notin q.missed => b[q.scope].status = "live"
  /\ q.on = NoLabel =>
       /\ q.put.status # "keep" /\ q.put.scope = q.scope /\ q.put.label # NoLabel
       /\ q.scope \notin q.missed => q.put.label = b[q.scope].label
  /\ q.on # NoLabel =>
       /\ n[q.on].status # "none"
       /\ q.on \notin q.missed =>
            /\ Applied(q.put, n[q.on]).scope = q.scope
            /\ q.scope \notin q.missed => Applied(q.put, n[q.on]).label = b[q.scope].label
            /\ n[q.on].scope \notin q.missed => b[n[q.on].scope].status = "live"

\* A request that has loaded the catalogue it will save.
KnowsBook(q, b) ==
  /\ \/ q.seen = NoBook
     \/ q.seen.status # "none" /\ q.seen.label # NoLabel /\ b[q.scope].status # "none"
  /\ q.scope \notin q.missed => q.seen \in {NoBook, b[q.scope]}
  /\ q.op = "import" =>
       /\ q.given # NoLabel /\ q.status # "archived"
       /\ q.status = "keep" => q.seen.status = "live"
  /\ q.op = "sync" => /\ q.seen = NoBook /\ q.given = NoLabel /\ q.status = "keep"
                       /\ b[q.scope].status # "none"

\* A request that has saved its catalogue and loaded the norms of it.
KnowsNorms(q, b, n) ==
  LET saved == Applied(q.put, b[q.scope]) IN
  /\ q.put.scope = NoLabel /\ q.put.code = NoLabel /\ q.put.status # "none"
  /\ saved.status # "none" /\ saved.label # NoLabel
  /\ q.relabel # {} => q.label # NoLabel
  /\ q.relabel \cap q.same = {}
  /\ \A i \in q.relabel \cup q.same : n[i].status # "none"
  /\ \A i \in (q.relabel \cup q.same) \ q.missed : n[i].scope = q.scope
  /\ q.scope \notin q.missed =>
       \A i \in NormsIn(n, q.scope) \ q.missed :
         (IF i \in q.relabel THEN q.label ELSE n[i].label) = saved.label
  /\ q.op \in {"import", "script"} =>
       q.given # NoLabel /\ (q.scope \notin q.missed => q.given = saved.label)
  /\ q.op = "import" /\ q.scope \notin q.missed => saved.status = "live"

Believes(q, b, n) ==
  /\ q.put.scope \in {NoLabel, q.scope}
  /\ q.stage # "idle" => q.scope \in Scopes
  /\ q.stage = "loaded" => /\ q.op \in {"book", "norm", "import", "sync"}
                           /\ IF q.op = "norm" THEN KnowsNorm(q, b, n) ELSE KnowsBook(q, b)
  /\ q.stage = "saved" => /\ q.op \in {"book", "import", "sync", "script"}
                          /\ KnowsNorms(q, b, n)

LaborRowsOK ==
  /\ book \in [Scopes -> BookRows]
  /\ norm \in [NormIds -> NormRecords]
  /\ curator \in [Curators -> CuratorRows]
  /\ strayed \subseteq NormIds

LaborInv ==
  /\ LaborRowsOK
  /\ RowsComplete(book, norm)
  /\ LabelsAgree
  /\ \A c \in Curators : Believes(curator[c], book, norm)

----------------------------------------------------------------------------
\* What a difference of two rows says, applied to a third one.
LEMMA DifferenceType ==
  ASSUME NEW r \in NormRecords, NEW w \in Puts
  PROVE  Difference(r, w) \in Puts
BY DEF Difference, NormRecords, Puts, NormStatuses

LEMMA AppliedType ==
  ASSUME NEW p \in Puts, NEW r \in NormRecords
  PROVE  Applied(p, r) \in NormRecords
BY DEF Applied, NormRecords, Puts, NormStatuses

LEMMA AppliedBook ==
  ASSUME NEW p \in Puts, NEW r \in BookRows, p.scope = NoLabel, p.code = NoLabel
  PROVE  Applied(p, r) \in BookRows
BY DEF Applied, BookRows, Puts, NormStatuses

LEMMA BookIsRecord == BookRows \subseteq NormRecords /\ NormRecords \subseteq Puts
BY DEF BookRows, NormRecords, Puts, NormStatuses

LEMMA AppliedColumns ==
  ASSUME NEW p, NEW r
  PROVE  /\ Applied(p, r).status = IF p.status = "keep" THEN r.status ELSE p.status
         /\ Applied(p, r).scope = IF p.scope = NoLabel THEN r.scope ELSE p.scope
         /\ Applied(p, r).code = IF p.code = NoLabel THEN r.code ELSE p.code
         /\ Applied(p, r).label = IF p.label = NoLabel THEN r.label ELSE p.label
BY DEF Applied

LEMMA DifferenceColumns ==
  ASSUME NEW r, NEW w
  PROVE  /\ Difference(r, w).status = IF w.status = r.status THEN "keep" ELSE w.status
         /\ Difference(r, w).scope = IF w.scope = r.scope THEN NoLabel ELSE w.scope
         /\ Difference(r, w).code = IF w.code = r.code THEN NoLabel ELSE w.code
         /\ Difference(r, w).label = IF w.label = r.label THEN NoLabel ELSE w.label
BY DEF Difference

LEMMA AtRestType ==
  /\ AtRest \in CuratorRows /\ AtRest.stage = "idle" /\ AtRest.put.scope = NoLabel
  /\ NoBook \in BookRows /\ Kept \in Puts
  /\ NoNorm \in NormRecords /\ NoNorm.status = "none" /\ NoNorm.scope = NoLabel
  /\ NoBook.status = "none" /\ NoBook.label = NoLabel /\ Kept.scope = NoLabel
BY DEF AtRest, CuratorRows, Kept, Puts, NoBook, NoNorm, BookRows, NormRecords, NormStatuses

LEMMA RestBelieves ==
  ASSUME NEW b, NEW n, NEW q, q.stage = "idle", q.put.scope = NoLabel
  PROVE  Believes(q, b, n)
BY DEF Believes

\* What a row never loses.
Grows(b, n, bb, nn) ==
  /\ \A s \in Scopes : b[s].status # "none" => bb[s].status # "none"
  /\ \A s \in Scopes : b[s].label # NoLabel => bb[s].label # NoLabel
  /\ \A i \in NormIds : n[i].status # "none" => nn[i].status # "none"

\* A request goes on being right about what it did not miss.
LEMMA BelievesStays ==
  ASSUME NEW b \in [Scopes -> BookRows], NEW bb \in [Scopes -> BookRows],
         NEW n \in [NormIds -> NormRecords], NEW nn \in [NormIds -> NormRecords],
         RowsComplete(b, n), Grows(b, n, bb, nn),
         NEW q \in CuratorRows, Believes(q, b, n), q.stage # "idle",
         NEW p \in CuratorRows,
         \E m : p = [q EXCEPT !.missed = m],
         q.missed \subseteq p.missed,
         bb[q.scope] # b[q.scope] => q.scope \in p.missed,
         \A i \in NormIds : nn[i] # n[i] => i \in p.missed,
         q.on \in NormIds => (n[q.on].scope \in Scopes /\ bb[n[q.on].scope] # b[n[q.on].scope]
                               => n[q.on].scope \in p.missed)
  PROVE  Believes(p, bb, nn)
<1>1. /\ p.stage = q.stage /\ p.op = q.op /\ p.scope = q.scope /\ p.seen = q.seen
      /\ p.given = q.given /\ p.status = q.status /\ p.put = q.put /\ p.on = q.on
      /\ p.label = q.label /\ p.relabel = q.relabel /\ p.same = q.same
  BY DEF CuratorRows
<1>2. q.scope \in Scopes
  BY DEF Believes
<1>3. ASSUME q.stage = "loaded", q.op = "norm" PROVE KnowsNorm(p, bb, nn)
  <2>1. KnowsNorm(q, b, n)
    BY <1>3 DEF Believes
  <2>2. /\ bb[q.scope].status # "none"
        /\ p.put.status # "none" /\ p.put.scope \in {NoLabel, p.scope}
        /\ p.scope \notin p.missed => bb[p.scope].status = "live"
        /\ p.on = NoLabel =>
             /\ p.put.status # "keep" /\ p.put.scope = p.scope /\ p.put.label # NoLabel
             /\ p.scope \notin p.missed => p.put.label = bb[p.scope].label
    BY <1>1, <1>2, <2>1 DEF KnowsNorm, Grows
  <2>3. ASSUME q.on # NoLabel
        PROVE  /\ nn[q.on].status # "none"
               /\ q.on \notin p.missed =>
                    /\ Applied(q.put, nn[q.on]).scope = q.scope
                    /\ q.scope \notin p.missed => Applied(q.put, nn[q.on]).label = bb[q.scope].label
                    /\ nn[q.on].scope \notin p.missed => bb[nn[q.on].scope].status = "live"
    <3>1. q.on \in NormIds
      BY <2>3 DEF CuratorRows
    <3>2. n[q.on].status # "none" /\ nn[q.on].status # "none"
      BY <2>1, <2>3, <3>1 DEF KnowsNorm, Grows
    <3>3. n[q.on].scope \in Scopes
      BY <3>1, <3>2, AtRestType DEF RowsComplete
    <3>4. ASSUME q.on \notin p.missed
          PROVE  /\ Applied(q.put, nn[q.on]).scope = q.scope
                 /\ q.scope \notin p.missed => Applied(q.put, nn[q.on]).label = bb[q.scope].label
                 /\ nn[q.on].scope \notin p.missed => bb[nn[q.on].scope].status = "live"
      <4>1. nn[q.on] = n[q.on] /\ q.on \notin q.missed
        BY <3>1, <3>4
      <4>2. n[q.on].scope \notin p.missed =>
              bb[n[q.on].scope] = b[n[q.on].scope] /\ n[q.on].scope \notin q.missed
        BY <3>1, <3>3
      <4>3. q.scope \notin p.missed => bb[q.scope] = b[q.scope] /\ q.scope \notin q.missed
        OBVIOUS
      <4>4. QED
        BY <2>1, <2>3, <4>1, <4>2, <4>3 DEF KnowsNorm
    <3>5. QED
      BY <3>2, <3>4
  <2>4. QED
    BY <1>1, <2>2, <2>3 DEF KnowsNorm
<1>4. ASSUME q.stage = "loaded", q.op # "norm" PROVE KnowsBook(p, bb)
  <2>1. KnowsBook(q, b)
    BY <1>4 DEF Believes
  <2>2. q.scope \notin p.missed => bb[q.scope] = b[q.scope] /\ q.scope \notin q.missed
    OBVIOUS
  <2>3. b[q.scope].status # "none" => bb[q.scope].status # "none"
    BY <1>2 DEF Grows
  <2>4. QED
    BY <1>1, <2>1, <2>2, <2>3 DEF KnowsBook
<1>5. ASSUME q.stage = "saved" PROVE KnowsNorms(p, bb, nn)
  <2> DEFINE old == Applied(q.put, b[q.scope])
             new == Applied(q.put, bb[q.scope])
  <2>1. KnowsNorms(q, b, n)
    BY <1>5 DEF Believes
  <2>2. q.scope \notin p.missed => new = old /\ q.scope \notin q.missed
    OBVIOUS
  <2>3. new.status # "none" /\ new.label # NoLabel
    BY <1>2, <2>1, AppliedColumns DEF KnowsNorms, Grows
  <2>4. \A i \in q.relabel \cup q.same : i \in NormIds
    BY DEF CuratorRows
  <2>5. \A i \in q.relabel \cup q.same : nn[i].status # "none"
    BY <2>1, <2>4 DEF KnowsNorms, Grows
  <2>6. \A i \in (q.relabel \cup q.same) \ p.missed : nn[i].scope = q.scope
    BY <2>1, <2>4 DEF KnowsNorms
  <2>7. ASSUME q.scope \notin p.missed, NEW i \in NormsIn(nn, q.scope) \ p.missed
        PROVE  (IF i \in q.relabel THEN q.label ELSE nn[i].label) = new.label
    <3>1. i \in NormIds /\ nn[i] = n[i] /\ i \notin q.missed
      BY <2>7 DEF NormsIn
    <3>2. i \in NormsIn(n, q.scope)
      BY <2>7, <3>1 DEF NormsIn
    <3>3. (IF i \in q.relabel THEN q.label ELSE n[i].label) = old.label
      BY <2>1, <2>2, <2>7, <3>1, <3>2 DEF KnowsNorms
    <3>4. QED
      BY <2>2, <2>7, <3>1, <3>3
  <2>8. /\ q.put.scope = NoLabel /\ q.put.code = NoLabel /\ q.put.status # "none"
        /\ q.relabel # {} => q.label # NoLabel
        /\ q.relabel \cap q.same = {}
        /\ q.op \in {"import", "script"} =>
             q.given # NoLabel /\ (q.scope \notin q.missed => q.given = old.label)
        /\ q.op = "import" /\ q.scope \notin q.missed => old.status = "live"
    BY <2>1 DEF KnowsNorms
  <2> HIDE DEF old
  <2>9. /\ q.op \in {"import", "script"} =>
             q.given # NoLabel /\ (q.scope \notin p.missed => q.given = new.label)
        /\ q.op = "import" /\ q.scope \notin p.missed => new.status = "live"
    BY <2>2, <2>8
  <2>10. QED
    BY <1>1, <2>3, <2>5, <2>6, <2>7, <2>8, <2>9 DEF KnowsNorms
<1>6. QED
  BY <1>1, <1>2, <1>3, <1>4, <1>5 DEF Believes

----------------------------------------------------------------------------
LEMMA LaborInitHolds ==
  ASSUME LaborInit
  PROVE  LaborInv
<1>1. /\ NoBook \in BookRows /\ NoNorm \in NormRecords /\ NoNorm \in BookRows
      /\ Kept \in Puts
  BY DEF NoBook, NoNorm, Kept, BookRows, NormRecords, Puts, NormStatuses
<1>2. AtRest \in CuratorRows
  BY <1>1 DEF AtRest, CuratorRows
<1>3. LaborRowsOK
  BY <1>1, <1>2 DEF LaborInit, LaborRowsOK
<1>4. /\ \A s \in Scopes : book[s].status = "none"
      /\ \A i \in NormIds : norm[i].status = "none"
      /\ \A c \in Curators : curator[c] = AtRest
  BY DEF LaborInit, NoBook, NoNorm
<1>5. RowsComplete(book, norm)
  BY <1>4 DEF RowsComplete, LaborInit
<1>6. LabelsAgree
  BY <1>4 DEF LabelsAgree, Astray
<1>7. \A c \in Curators : Believes(curator[c], book, norm)
  BY <1>4, AtRestType, RestBelieves
<1>8. QED
  BY <1>3, <1>5, <1>6, <1>7 DEF LaborInv

LEMMA LaborRowsTyped ==
  ASSUME LaborInv, NEW c \in Curators
  PROVE  /\ curator[c] \in CuratorRows /\ Believes(curator[c], book, norm)
         /\ \A s \in Scopes : book[s] \in BookRows /\ book[s] \in NormRecords
         /\ \A i \in NormIds : norm[i] \in NormRecords
BY BookIsRecord DEF LaborInv, LaborRowsOK

\* A request that changes no row.
LEMMA RowsStay ==
  ASSUME LaborInv, NEW c \in Curators, NEW q \in CuratorRows, Believes(q, book, norm),
         curator' = [curator EXCEPT ![c] = q], UNCHANGED <<book, norm, strayed>>
  PROVE  LaborInv'
<1>1. LaborRowsOK'
  BY DEF LaborInv, LaborRowsOK
<1>2. RowsComplete(book, norm)' /\ LabelsAgree'
  BY DEF LaborInv, RowsComplete, LabelsAgree, Astray
<1>3. ASSUME NEW d \in Curators PROVE Believes(curator'[d], book', norm')
  <2>1. curator'[d] = IF d = c THEN q ELSE curator[d]
    BY DEF LaborInv, LaborRowsOK
  <2>2. Believes(curator'[d], book, norm)
    BY <2>1 DEF LaborInv
  <2>3. QED
    BY <2>2
<1>4. QED
  BY <1>1, <1>2, <1>3 DEF LaborInv

LEMMA LoadsKeep ==
  ASSUME LaborInv, NEW c \in Curators, NEW q \in CuratorRows, Loads(c, q), q.scope \in Scopes,
         q.put.scope \in {NoLabel, q.scope},
         \/ q.op = "norm" /\ KnowsNorm(q, book, norm)
         \/ q.op \in {"book", "import", "sync"} /\ KnowsBook(q, book)
  PROVE  LaborInv'
<1> DEFINE p == [q EXCEPT !.stage = "loaded"]
<1>1. /\ p \in CuratorRows /\ p.stage = "loaded"
      /\ p.op = q.op /\ p.scope = q.scope /\ p.seen = q.seen /\ p.given = q.given
      /\ p.status = q.status /\ p.put = q.put /\ p.on = q.on /\ p.missed = q.missed
  BY DEF CuratorRows
<1>2. curator' = [curator EXCEPT ![c] = p] /\ UNCHANGED <<book, norm, strayed>>
  BY DEF Loads
<1> HIDE DEF p
<1>3. Believes(p, book, norm)
  BY <1>1 DEF Believes, KnowsNorm, KnowsBook
<1>4. QED
  BY <1>1, <1>2, <1>3, RowsStay

LEMMA CreateBookKeeps ==
  ASSUME LaborInv, NEW c \in Curators, NEW s \in Scopes, NEW given \in Offered,
         NEW status \in {"live", "archived"}, LoadCreateBook(c, s, given, status)
  PROVE  LaborInv'
<1> DEFINE q == [AtRest EXCEPT !.op = "book", !.scope = s, !.given = given, !.status = status]
<1>1. /\ q \in CuratorRows /\ q.op = "book" /\ q.scope = s /\ q.seen = NoBook
      /\ q.put.scope = NoLabel
  BY AtRestType, LaborAssumption DEF AtRest, CuratorRows
<1>2. Loads(c, q)
  BY DEF LoadCreateBook
<1> HIDE DEF q
<1>3. KnowsBook(q, book)
  BY <1>1, AtRestType DEF KnowsBook
<1>4. QED
  BY <1>1, <1>2, <1>3, LoadsKeep

LEMMA EditBookKeeps ==
  ASSUME LaborInv, NEW c \in Curators, NEW s \in Scopes, NEW given \in Offered,
         NEW status \in {"live", "archived", "keep"}, LoadEditBook(c, s, given, status)
  PROVE  LaborInv'
<1> DEFINE q == [AtRest EXCEPT !.op = "book", !.scope = s, !.seen = book[s],
                               !.given = given, !.status = status]
<1>1. /\ q \in CuratorRows /\ q.op = "book" /\ q.scope = s /\ q.seen = book[s]
      /\ q.put.scope = NoLabel
  BY AtRestType, LaborAssumption, LaborRowsTyped DEF AtRest, CuratorRows
<1>2. Loads(c, q)
  BY DEF LoadEditBook
<1> HIDE DEF q
<1>3. KnowsBook(q, book)
  BY <1>1 DEF KnowsBook, LaborInv, RowsComplete
<1>4. QED
  BY <1>1, <1>2, <1>3, LoadsKeep

LEMMA CreateNormKeeps ==
  ASSUME LaborInv, NEW c \in Curators, NEW s \in Scopes, NEW k \in Codes,
         NEW status \in {"live", "archived"}, LoadCreateNorm(c, s, k, status)
  PROVE  LaborInv'
<1> DEFINE put == Populated(s, k, status)
           q == [AtRest EXCEPT !.op = "norm", !.scope = s, !.put = put]
<1>1. book[s] \in BookRows /\ book[s].status = "live" /\ book[s].label # NoLabel
  BY LaborRowsTyped, AtRestType DEF LoadCreateNorm, ForWriting, LaborInv, RowsComplete
<1>2. /\ put \in Puts /\ put.status \notin {"none", "keep"} /\ put.scope = s /\ put.label = book[s].label
  BY <1>1 DEF Populated, Puts, NormStatuses, BookRows
<1>3. Loads(c, q)
  BY DEF LoadCreateNorm
<1> HIDE DEF put
<1>4. q \in CuratorRows /\ q.op = "norm" /\ q.scope = s /\ q.put = put /\ q.on = NoLabel
  BY <1>2, AtRestType DEF AtRest, CuratorRows
<1> HIDE DEF q
<1>5. KnowsNorm(q, book, norm)
  BY <1>1, <1>2, <1>4 DEF KnowsNorm
<1>6. QED
  BY <1>2, <1>3, <1>4, <1>5, LoadsKeep

LEMMA EditNormKeeps ==
  ASSUME LaborInv, NEW c \in Curators, NEW i \in NormIds, NEW s \in Scopes, NEW k \in Codes,
         NEW status \in {"live", "archived", "keep"}, LoadEditNorm(c, i, s, k, status)
  PROVE  LaborInv'
<1> DEFINE new == Populated(s, k, status)
           put == Difference(norm[i], new)
           q == [AtRest EXCEPT !.op = "norm", !.scope = s, !.on = i, !.put = put]
<1>1. book[s] \in BookRows /\ book[s].status = "live" /\ book[s].label # NoLabel
  BY LaborRowsTyped, AtRestType DEF LoadEditNorm, ForWriting, LaborInv, RowsComplete
<1>2. norm[i] \in NormRecords /\ norm[i].status # "none" /\ book[norm[i].scope].status = "live"
  BY LaborRowsTyped DEF LoadEditNorm, ForWriting, NormRows
<1>3. /\ new \in Puts /\ new.scope = s /\ new.label = book[s].label /\ new.status # "none"
  BY <1>1 DEF Populated, Puts, NormStatuses, BookRows
<1>4. Loads(c, q)
  BY DEF LoadEditNorm
<1> HIDE DEF new
<1>5. put \in Puts /\ put.status # "none" /\ put.scope \in {NoLabel, s}
  BY <1>2, <1>3, DifferenceType, DifferenceColumns
<1>6. s # NoLabel
  BY LaborAssumption
<1>7. Applied(put, norm[i]).scope = s /\ Applied(put, norm[i]).label = book[s].label
  BY <1>1, <1>3, <1>6 DEF Applied, Difference
<1> HIDE DEF put
<1>8. q \in CuratorRows /\ q.op = "norm" /\ q.scope = s /\ q.put = put /\ q.on = i
  BY <1>5, AtRestType DEF AtRest, CuratorRows
<1> HIDE DEF q
<1>9. i # NoLabel
  BY LaborAssumption
<1>10. KnowsNorm(q, book, norm)
  BY <1>1, <1>2, <1>5, <1>7, <1>8, <1>9 DEF KnowsNorm
<1>11. QED
  BY <1>4, <1>5, <1>8, <1>10, LoadsKeep

LEMMA LoadImportKeeps ==
  ASSUME LaborInv, NEW c \in Curators, NEW s \in Scopes, NEW given \in Offered,
         NEW codes \in Files, LoadImport(c, s, given, codes)
  PROVE  LaborInv'
<1> DEFINE label == IF given # NoLabel THEN given
                    ELSE IF ForWriting(s) THEN book[s].label ELSE OwnLabel
           status == IF ForWriting(s) THEN "keep" ELSE "live"
           q == [AtRest EXCEPT !.op = "import", !.scope = s, !.seen = book[s], !.codes = codes,
                               !.given = label, !.status = status]
<1>1. /\ book[s] \in BookRows
      /\ book[s] = NoBook \/ (book[s].status # "none" /\ book[s].label # NoLabel)
      /\ book[s].status = "live" => book[s].label # NoLabel
  BY LaborRowsTyped, AtRestType DEF LaborInv, RowsComplete
<1>2. label \in Labels /\ label # NoLabel
  BY <1>1, LaborAssumption DEF ForWriting, BookRows
<1>3. status \in {"keep", "live"} /\ (status = "keep" => book[s].status = "live")
  BY DEF ForWriting
<1>4. Loads(c, q)
  BY DEF LoadImport
<1> HIDE DEF label, status
<1>5. /\ q \in CuratorRows /\ q.op = "import" /\ q.scope = s /\ q.seen = book[s]
      /\ q.given = label /\ q.status = status /\ q.put.scope = NoLabel
  BY <1>1, <1>2, <1>3, AtRestType, LaborAssumption DEF AtRest, CuratorRows
<1> HIDE DEF q
<1>6. KnowsBook(q, book)
  BY <1>1, <1>2, <1>3, <1>5 DEF KnowsBook
<1>7. QED
  BY <1>4, <1>5, <1>6, LoadsKeep

\* A request that ends without a commit.
LEMMA LaborRollbackKeeps ==
  ASSUME LaborInv, NEW c \in Curators, LaborRollback(c)
  PROVE  LaborInv'
<1>1. AtRest \in CuratorRows
  BY AtRestType
<1>2. Believes(AtRest, book, norm)
  BY AtRestType, RestBelieves
<1>3. QED
  BY <1>1, <1>2, RowsStay DEF LaborRollback

\* What upsert_labor_norm_catalog leaves, in memory and as a change of the row.
LEMMA UpsertedBook ==
  ASSUME NEW q \in CuratorRows, NEW seen \in BookRows, seen.status # "none" => seen.label # NoLabel
  PROVE  LET saved == Upserted(q, seen)
             put == Difference(seen, saved)
         IN /\ saved \in BookRows /\ saved.status # "none" /\ saved.label # NoLabel
            /\ q.given # NoLabel => saved.label = q.given
            /\ q.status # "keep" => saved.status = q.status
            /\ q.status = "keep" /\ seen.status # "none" => saved.status = seen.status
            /\ q.given = NoLabel /\ q.status = "keep" /\ seen.status # "none" => saved = seen
            /\ put \in Puts /\ put.scope = NoLabel /\ put.code = NoLabel /\ put.status # "none"
            /\ Applied(put, seen).status = saved.status /\ Applied(put, seen).label = saved.label
            /\ put.status = "keep" => seen.status = saved.status
            /\ put.label = NoLabel => seen.label = saved.label
<1> DEFINE saved == Upserted(q, seen)
           put == Difference(seen, saved)
<1>1. /\ saved.status = IF q.status # "keep" THEN q.status
                        ELSE IF seen.status = "none" THEN "live" ELSE seen.status
      /\ saved.label = IF q.given # NoLabel THEN q.given
                       ELSE IF seen.label = NoLabel THEN OwnLabel ELSE seen.label
      /\ saved.scope = NoLabel /\ saved.code = NoLabel
      /\ saved \in BookRows
  BY LaborAssumption DEF Upserted, BookRows, CuratorRows
<1>2. saved.status \notin {"none", "keep"} /\ saved.label # NoLabel
  BY <1>1, LaborAssumption DEF CuratorRows, BookRows
<1>3. q.given = NoLabel /\ q.status = "keep" /\ seen.status # "none" => saved = seen
  BY <1>1 DEF BookRows
<1> HIDE DEF saved
<1>4. seen.scope = NoLabel /\ seen.code = NoLabel
  BY DEF BookRows
<1>5. put \in Puts
  BY <1>1, DifferenceType, BookIsRecord
<1>6. /\ put.scope = NoLabel /\ put.code = NoLabel
      /\ put.status = IF saved.status = seen.status THEN "keep" ELSE saved.status
      /\ put.label = IF saved.label = seen.label THEN NoLabel ELSE saved.label
  BY <1>1, <1>4, DifferenceColumns
<1> HIDE DEF put
<1>7. Applied(put, seen).status = saved.status /\ Applied(put, seen).label = saved.label
  BY <1>2, <1>6, AppliedColumns
<1>8. QED
  BY <1>1, <1>2, <1>3, <1>5, <1>6, <1>7 DEF saved, put

\* The upsert, and the norms that are loaded after it.
LEMMA SavesKeep ==
  ASSUME LaborInv, NEW c \in Curators, NEW q \in CuratorRows, Saves(c, q), q.scope \in Scopes,
         q.op \in {"book", "import", "sync", "script"}, KnowsBook(q, book),
         q.op = "script" => q.given # NoLabel
  PROVE  LaborInv'
<1> DEFINE now == book[q.scope]
           seen == IF q.seen = NoBook THEN now ELSE q.seen
           saved == Upserted(q, seen)
           change == Difference(seen, saved)
           put == IF q.op = "sync" THEN Kept ELSE change
           relabel == {i \in NormsOf(q.scope) : norm[i].label # saved.label}
           label == IF relabel = {} THEN NoLabel ELSE saved.label
           upsert == [AtRest EXCEPT !.stage = "saved", !.op = q.op, !.scope = q.scope, !.put = put,
                                    !.label = label, !.relabel = relabel, !.missed = q.missed]
           files == q.op \in {"import", "script"}
           p == IF ~files THEN upsert
                ELSE [upsert EXCEPT !.given = q.given, !.codes = q.codes,
                                    !.same = NormsOf(q.scope) \ relabel,
                                    !.live = {i \in NormsOf(q.scope) : norm[i].status = "live"}]
<1>1. /\ now \in BookRows /\ seen \in BookRows
      /\ now = NoBook \/ (now.status # "none" /\ now.label # NoLabel)
      /\ \/ seen = now
         \/ seen = q.seen /\ seen.status # "none" /\ seen.label # NoLabel
            /\ now.status # "none" /\ now.label # NoLabel
      /\ q.scope \notin q.missed => seen = now
  BY LaborRowsTyped, AtRestType DEF LaborInv, RowsComplete, KnowsBook, CuratorRows
<1>2. seen.status # "none" => seen.label # NoLabel
  BY <1>1, AtRestType
<1>3. curator' = [curator EXCEPT ![c] = p] /\ UNCHANGED <<book, norm, strayed>>
  BY DEF Saves
<1> HIDE DEF now, seen
<1>4. /\ saved \in BookRows /\ saved.status # "none" /\ saved.label # NoLabel
      /\ q.given # NoLabel => saved.label = q.given
      /\ q.status # "keep" => saved.status = q.status
      /\ q.status = "keep" /\ seen.status # "none" => saved.status = seen.status
      /\ q.given = NoLabel /\ q.status = "keep" /\ seen.status # "none" => saved = seen
      /\ change \in Puts /\ change.scope = NoLabel /\ change.code = NoLabel /\ change.status # "none"
      /\ Applied(change, seen).status = saved.status /\ Applied(change, seen).label = saved.label
      /\ change.status = "keep" => seen.status = saved.status
      /\ change.label = NoLabel => seen.label = saved.label
  BY <1>1, <1>2, UpsertedBook
<1> HIDE DEF saved, change
<1>5. /\ put \in Puts /\ put.scope = NoLabel /\ put.code = NoLabel /\ put.status # "none"
  BY <1>4, AtRestType DEF Kept
<1>6. /\ Applied(put, now).status # "none" /\ Applied(put, now).label # NoLabel
      /\ q.scope \notin q.missed =>
           Applied(put, now).label = saved.label
           /\ (q.op # "sync" => Applied(put, now).status = saved.status)
  <2>1. CASE q.op = "sync"
    <3>1. now.status # "none" /\ now.label # NoLabel /\ seen = now
      BY <1>1, <2>1, AtRestType DEF KnowsBook, now, seen
    <3>2. saved = now
      BY <1>4, <2>1, <3>1 DEF KnowsBook
    <3>3. Applied(put, now) = now
      BY <1>1, <2>1 DEF Applied, Kept, BookRows
    <3>4. QED
      BY <2>1, <3>1, <3>2, <3>3
  <2>2. CASE q.op # "sync"
    <3>1. put = change
      BY <2>2
    <3>2. Applied(change, now).status # "none" /\ Applied(change, now).label # NoLabel
      BY <1>1, <1>4, AppliedColumns
    <3>3. QED
      BY <1>1, <1>4, <3>1, <3>2
  <2>3. QED
    BY <2>1, <2>2
<1> HIDE DEF put
<1>7. /\ relabel \in SUBSET NormIds /\ relabel \subseteq NormsOf(q.scope)
      /\ \A i \in NormsOf(q.scope) : i \notin relabel => norm[i].label = saved.label
      /\ NormsOf(q.scope) \subseteq NormIds
      /\ \A i \in NormsOf(q.scope) : norm[i].status # "none" /\ norm[i].scope = q.scope
      /\ NormsOf(q.scope) = NormsIn(norm, q.scope)
  BY DEF NormsOf, NormRows, NormsIn
<1> HIDE DEF relabel
<1>a. /\ label \in Labels \cup {NoLabel} /\ q.missed \in SUBSET (Scopes \cup NormIds)
      /\ relabel # {} => label = saved.label
      /\ AtRest \in CuratorRows /\ AtRest.same = {}
  BY <1>4, AtRestType DEF BookRows, CuratorRows, AtRest
<1> HIDE DEF label
<1>8. /\ upsert \in CuratorRows /\ upsert.stage = "saved" /\ upsert.op = q.op /\ upsert.scope = q.scope
      /\ upsert.put = put /\ upsert.label = label
      /\ upsert.relabel = relabel /\ upsert.missed = q.missed /\ upsert.same = {}
  BY <1>5, <1>7, <1>a DEF CuratorRows
<1> HIDE DEF upsert
<1>9. /\ p \in CuratorRows /\ p.stage = "saved" /\ p.op = q.op /\ p.scope = q.scope
      /\ p.put = put /\ p.label = label
      /\ p.relabel = relabel /\ p.missed = q.missed
      /\ p.same \subseteq NormsOf(q.scope) \ relabel
      /\ files => p.given = q.given
  <2> DEFINE live == {i \in NormsOf(q.scope) : norm[i].status = "live"}
  <2>1. live \subseteq NormIds
    BY <1>7
  <2>2. p = IF ~files THEN upsert
              ELSE [upsert EXCEPT !.given = q.given, !.codes = q.codes,
                                  !.same = NormsOf(q.scope) \ relabel, !.live = live]
    OBVIOUS
  <2> HIDE DEF live, p
  <2>3. CASE ~files
    <3>1. p = upsert
      BY <2>2, <2>3
    <3>2. QED
      BY <1>8, <2>3, <3>1
  <2>4. CASE files
    <3> DEFINE same == NormsOf(q.scope) \ relabel
    <3>1. p = [upsert EXCEPT !.given = q.given, !.codes = q.codes, !.same = same, !.live = live]
      BY <2>2, <2>4
    <3>2. same \subseteq NormIds
      BY <1>7
    <3>3. q.given \in Labels \cup {NoLabel} /\ q.codes \in SUBSET Codes
      BY DEF CuratorRows
    <3> HIDE DEF same
    <3>4. /\ p \in CuratorRows /\ p.stage = upsert.stage /\ p.op = upsert.op /\ p.scope = upsert.scope
          /\ p.put = upsert.put /\ p.label = upsert.label
          /\ p.relabel = upsert.relabel /\ p.missed = upsert.missed
          /\ p.same = same /\ p.given = q.given
      BY <1>8, <2>1, <3>1, <3>2, <3>3 DEF CuratorRows
    <3>5. QED
      BY <1>8, <3>4 DEF same
  <2>5. QED
    BY <2>3, <2>4
<1>10. files => q.given # NoLabel
  BY DEF KnowsBook
<1>11. q.op = "import" => saved.status = "live"
  BY <1>4, AtRestType DEF KnowsBook, CuratorRows, seen
<1> HIDE DEF p
<1>12. KnowsNorms(p, book, norm)
  <2> DEFINE rest == Applied(put, now)
  <2>1. Applied(p.put, book[p.scope]) = rest
    BY <1>9 DEF now
  <2>2. /\ rest.status # "none" /\ rest.label # NoLabel
        /\ p.scope \notin p.missed => rest.label = saved.label
        /\ p.op = "import" /\ p.scope \notin p.missed => rest.status = "live"
    BY <1>6, <1>9, <1>11
  <2> HIDE DEF rest
  <2>3. /\ p.put.scope = NoLabel /\ p.put.code = NoLabel /\ p.put.status # "none"
        /\ p.relabel # {} => p.label # NoLabel
        /\ p.relabel \cap p.same = {}
    BY <1>4, <1>5, <1>9, <1>a
  <2>4. /\ \A i \in p.relabel \cup p.same : norm[i].status # "none"
        /\ \A i \in (p.relabel \cup p.same) \ p.missed : norm[i].scope = p.scope
    BY <1>7, <1>9
  <2>5. ASSUME p.scope \notin p.missed, NEW i \in NormsIn(norm, p.scope) \ p.missed
        PROVE  (IF i \in p.relabel THEN p.label ELSE norm[i].label) = rest.label
    <3>1. i \in NormsOf(q.scope) /\ rest.label = saved.label
      BY <1>7, <1>9, <2>2, <2>5
    <3>2. QED
      BY <1>7, <1>9, <1>a, <3>1
  <2>6. p.op \in {"import", "script"} => p.given # NoLabel /\ (p.scope \notin p.missed => p.given = rest.label)
    BY <1>4, <1>9, <1>10, <2>2
  <2>7. QED
    BY <2>1, <2>2, <2>3, <2>4, <2>5, <2>6 DEF KnowsNorms
<1>13. Believes(p, book, norm)
  BY <1>5, <1>9, <1>12 DEF Believes
<1>14. QED
  BY <1>3, <1>9, <1>13, RowsStay

LEMMA SaveLoadedKeeps ==
  ASSUME LaborInv, NEW c \in Curators, SaveBook(c) \/ SaveSync(c)
  PROVE  LaborInv'
<1>1. /\ curator[c] \in CuratorRows /\ Believes(curator[c], book, norm)
      /\ curator[c].stage = "loaded" /\ curator[c].op \in {"book", "import", "sync"}
  BY LaborRowsTyped DEF SaveBook, SaveSync
<1>2. KnowsBook(curator[c], book) /\ curator[c].scope \in Scopes
  BY <1>1 DEF Believes
<1>3. CASE SaveBook(c)
  BY <1>1, <1>2, <1>3, SavesKeep DEF SaveBook
<1>4. CASE SaveSync(c)
  <2> DEFINE q == [curator[c] EXCEPT !.missed = {}]
  <2>1. /\ q \in CuratorRows /\ q.op = "sync" /\ q.scope = curator[c].scope /\ q.seen = curator[c].seen
        /\ q.given = curator[c].given /\ q.status = curator[c].status
    BY <1>1, <1>4 DEF CuratorRows, SaveSync
  <2>2. Saves(c, q)
    BY <1>4 DEF SaveSync
  <2> HIDE DEF q
  <2>3. KnowsBook(q, book)
    BY <1>2, <1>4, <2>1 DEF KnowsBook, SaveSync
  <2>4. QED
    BY <1>2, <2>1, <2>2, <2>3, SavesKeep
<1>5. QED
  BY <1>3, <1>4

LEMMA SaveScriptKeeps ==
  ASSUME LaborInv, NEW c \in Curators, NEW s \in Scopes, NEW given \in Offered,
         NEW codes \in Files, SaveScript(c, s, given, codes)
  PROVE  LaborInv'
<1> DEFINE q == [AtRest EXCEPT !.op = "script", !.scope = s, !.codes = codes, !.given = given]
<1>1. /\ q \in CuratorRows /\ q.op = "script" /\ q.scope = s /\ q.seen = NoBook /\ q.given = given
  BY AtRestType, LaborAssumption DEF AtRest, CuratorRows
<1>2. Saves(c, q) /\ given # NoLabel
  BY DEF SaveScript
<1> HIDE DEF q
<1>3. KnowsBook(q, book)
  BY <1>1 DEF KnowsBook
<1>4. QED
  BY <1>1, <1>2, <1>3, SavesKeep

----------------------------------------------------------------------------
\* The catalogues that the commit of q leaves.
BooksAfter(q) == IF q.op = "norm" THEN book ELSE [book EXCEPT ![q.scope] = Applied(q.put, @)]

LEMMA BooksAfterCommit ==
  ASSUME LaborInv, NEW q \in CuratorRows, q.scope \in Scopes,
         q.op = "norm" \/ KnowsNorms(q, book, norm)
  PROVE  LET books == BooksAfter(q) IN
         /\ books \in [Scopes -> BookRows]
         /\ \A s \in Scopes \ {q.scope} : books[s] = book[s]
         /\ q.op = "norm" => books = book
         /\ q.op # "norm" => /\ books[q.scope] = Applied(q.put, book[q.scope])
                             /\ books[q.scope].status # "none"
         /\ \A s \in Scopes : /\ books[s] = NoBook \/ (books[s].status # "none" /\ books[s].label # NoLabel)
                              /\ book[s].status # "none" => books[s].status # "none"
                              /\ book[s].label # NoLabel => books[s].label # NoLabel
<1>1. book \in [Scopes -> BookRows] /\ book[q.scope] \in BookRows /\ q.put \in Puts
  BY DEF LaborInv, LaborRowsOK, CuratorRows
<1>2. \A s \in Scopes : book[s] = NoBook \/ (book[s].status # "none" /\ book[s].label # NoLabel)
  BY DEF LaborInv, RowsComplete
<1>3. CASE q.op = "norm"
  BY <1>1, <1>2, <1>3 DEF BooksAfter
<1>4. CASE q.op # "norm"
  <2> DEFINE saved == Applied(q.put, book[q.scope])
  <2>1. saved \in BookRows /\ saved.status # "none" /\ saved.label # NoLabel
    BY <1>1, <1>4, AppliedBook DEF KnowsNorms
  <2> HIDE DEF saved
  <2>2. BooksAfter(q) = [book EXCEPT ![q.scope] = saved]
    BY <1>4 DEF BooksAfter, saved
  <2>3. QED
    BY <1>1, <1>2, <1>4, <2>1, <2>2 DEF saved
<1>5. QED
  BY <1>3, <1>4

\* What the commit of c is, but for the rows of the norms.
LEMMA CommitEffect ==
  ASSUME LaborInv, NEW c \in Curators, NEW rows \in [NormIds -> NormRecords], NEW next \in CuratorRows,
         Commits(c, rows, next)
  PROVE  /\ book' = BooksAfter(curator[c]) /\ norm' = rows
         /\ strayed' = {i \in Astray(BooksAfter(curator[c]), rows) :
                          i \in strayed \/ {i, rows[i].scope} \cap curator[c].missed # {}}
         /\ curator' \in [Curators -> CuratorRows] /\ curator'[c] = next
         /\ \A d \in Curators \ {c} :
              /\ curator[d].stage = "idle" => curator'[d] = curator[d]
              /\ curator[d].stage # "idle" =>
                   /\ \E m : curator'[d] = [curator[d] EXCEPT !.missed = m]
                   /\ curator[d].missed \subseteq curator'[d].missed
                   /\ curator[d].scope \in Scopes /\ book'[curator[d].scope] # book[curator[d].scope]
                        => curator[d].scope \in curator'[d].missed
                   /\ \A i \in NormIds : rows[i] # norm[i] => i \in curator'[d].missed
                   /\ curator[d].on \in NormIds =>
                        LET s == norm[curator[d].on].scope IN
                        s \in Scopes /\ book'[s] # book[s] => s \in curator'[d].missed
<1> DEFINE books == BooksAfter(curator[c])
           written == {s \in Scopes : books[s] # book[s]} \cup {i \in NormIds : rows[i] # norm[i]}
           after(d) == [curator[d] EXCEPT !.missed = @ \cup (written \cap Concerning(curator[d]))]
<1>1. /\ book' = books /\ norm' = rows
      /\ strayed' = {i \in Astray(books, rows) :
                       i \in strayed \/ {i, rows[i].scope} \cap curator[c].missed # {}}
      /\ curator' = [d \in Curators |-> IF d = c THEN next
                                        ELSE IF curator[d].stage = "idle" THEN curator[d] ELSE after(d)]
  BY DEF Commits, BooksAfter
<1>2. written \subseteq Scopes \cup NormIds
  OBVIOUS
<1>3. /\ \A s \in Scopes : book'[s] # book[s] => s \in written
      /\ \A i \in NormIds : rows[i] # norm[i] => i \in written
  BY <1>1
<1> HIDE DEF written, books
<1>4. ASSUME NEW d \in Curators
      PROVE  /\ after(d) \in CuratorRows
             /\ after(d).missed = curator[d].missed \cup (written \cap Concerning(curator[d]))
  BY <1>2, LaborRowsTyped DEF CuratorRows
<1>5. ASSUME NEW d \in Curators
      PROVE  /\ NormIds \subseteq Concerning(curator[d]) /\ curator[d].scope \in Concerning(curator[d])
             /\ curator[d].on \in NormIds => norm[curator[d].on].scope \in Concerning(curator[d])
  BY DEF Concerning
<1>6. curator' \in [Curators -> CuratorRows] /\ curator'[c] = next
  <2>1. \A d \in Curators : curator[d] \in CuratorRows
    BY LaborRowsTyped
  <2> HIDE DEF after
  <2>2. QED
    BY <1>1, <1>4, <2>1
<1>7. ASSUME NEW d \in Curators \ {c}
      PROVE  /\ curator[d].stage = "idle" => curator'[d] = curator[d]
             /\ curator[d].stage # "idle" =>
                  /\ \E m : curator'[d] = [curator[d] EXCEPT !.missed = m]
                  /\ curator[d].missed \subseteq curator'[d].missed
                  /\ curator[d].scope \in Scopes /\ book'[curator[d].scope] # book[curator[d].scope]
                       => curator[d].scope \in curator'[d].missed
                  /\ \A i \in NormIds : rows[i] # norm[i] => i \in curator'[d].missed
                  /\ curator[d].on \in NormIds =>
                       LET s == norm[curator[d].on].scope IN
                       s \in Scopes /\ book'[s] # book[s] => s \in curator'[d].missed
  <2>1. CASE curator[d].stage = "idle"
    BY <1>1, <1>7, <2>1
  <2>2. CASE curator[d].stage # "idle"
    <3>1. curator'[d] = after(d)
      BY <1>1, <1>7, <2>2
    <3>2. \E m : after(d) = [curator[d] EXCEPT !.missed = m]
      OBVIOUS
    <3> HIDE DEF after
    <3>3. QED
      BY <1>3, <1>4, <1>5, <1>7, <2>2, <3>1, <3>2
  <2>3. QED
    BY <2>1, <2>2
<1>8. QED
  BY <1>1, <1>6, <1>7 DEF books

LEMMA CommitsKeep ==
  ASSUME LaborInv, NEW c \in Curators, NEW rows \in [NormIds -> NormRecords], NEW next \in CuratorRows,
         Commits(c, rows, next), curator[c].scope \in Scopes,
         curator[c].op = "norm" \/ KnowsNorms(curator[c], book, norm),
         \A i \in NormIds : norm[i].status # "none" => rows[i].status # "none",
         \A i \in NormIds :
           \/ rows[i] = NoNorm
           \/ /\ rows[i].status # "none" /\ rows[i].label # NoLabel
              /\ rows[i].scope \in Scopes /\ BooksAfter(curator[c])[rows[i].scope].status # "none",
         \A i \in Astray(BooksAfter(curator[c]), rows) :
           i \in strayed \/ {i, rows[i].scope} \cap curator[c].missed # {},
         Believes(next, BooksAfter(curator[c]), rows)
  PROVE  LaborInv'
<1> DEFINE books == BooksAfter(curator[c])
<1>1. curator[c] \in CuratorRows
  BY LaborRowsTyped
<1>2. /\ books \in [Scopes -> BookRows]
      /\ \A s \in Scopes : /\ books[s] = NoBook \/ (books[s].status # "none" /\ books[s].label # NoLabel)
                           /\ book[s].status # "none" => books[s].status # "none"
                           /\ book[s].label # NoLabel => books[s].label # NoLabel
  BY <1>1, BooksAfterCommit
<1>3. /\ book' = books /\ norm' = rows
      /\ strayed' = {i \in Astray(books, rows) :
                       i \in strayed \/ {i, rows[i].scope} \cap curator[c].missed # {}}
      /\ curator' \in [Curators -> CuratorRows] /\ curator'[c] = next
  BY CommitEffect
<1> HIDE DEF books
<1>4. LaborRowsOK'
  BY <1>2, <1>3 DEF LaborRowsOK, Astray
<1>5. RowsComplete(books, rows) /\ Grows(book, norm, books, rows)
  BY <1>2 DEF RowsComplete, Grows, books
<1>6. LabelsAgree'
  BY <1>3 DEF LabelsAgree, books
<1>7. ASSUME NEW d \in Curators PROVE Believes(curator'[d], books, rows)
  <2>1. CASE d = c
    BY <1>3, <2>1 DEF books
  <2>2. CASE d # c /\ curator[d].stage = "idle"
    <3>1. curator'[d] = curator[d]
      BY <2>2, CommitEffect
    <3>2. Believes(curator[d], book, norm)
      BY LaborRowsTyped
    <3>3. QED
      BY <2>2, <3>1, <3>2 DEF Believes
  <2>3. CASE d # c /\ curator[d].stage # "idle"
    <3>1. /\ \E m : curator'[d] = [curator[d] EXCEPT !.missed = m]
          /\ curator[d].missed \subseteq curator'[d].missed
          /\ curator[d].scope \in Scopes /\ books[curator[d].scope] # book[curator[d].scope]
               => curator[d].scope \in curator'[d].missed
          /\ \A i \in NormIds : rows[i] # norm[i] => i \in curator'[d].missed
          /\ curator[d].on \in NormIds =>
               (norm[curator[d].on].scope \in Scopes
                /\ books[norm[curator[d].on].scope] # book[norm[curator[d].on].scope]
                  => norm[curator[d].on].scope \in curator'[d].missed)
      BY <1>3, <2>3, CommitEffect
    <3>2. curator[d] \in CuratorRows /\ Believes(curator[d], book, norm) /\ curator[d].scope \in Scopes
      BY <2>3, LaborRowsTyped DEF Believes
    <3>3. book \in [Scopes -> BookRows] /\ norm \in [NormIds -> NormRecords] /\ RowsComplete(book, norm)
      BY DEF LaborInv, LaborRowsOK
    <3>4. curator'[d] \in CuratorRows
      BY <1>3
    <3> DEFINE q == curator[d]
               p == curator'[d]
    <3>5. /\ q \in CuratorRows /\ Believes(q, book, norm) /\ q.scope \in Scopes /\ q.stage # "idle"
          /\ p \in CuratorRows /\ \E m : p = [q EXCEPT !.missed = m]
          /\ q.missed \subseteq p.missed
          /\ books[q.scope] # book[q.scope] => q.scope \in p.missed
          /\ \A i \in NormIds : rows[i] # norm[i] => i \in p.missed
          /\ q.on \in NormIds => (norm[q.on].scope \in Scopes /\ books[norm[q.on].scope] # book[norm[q.on].scope]
                                  => norm[q.on].scope \in p.missed)
      BY <2>3, <3>1, <3>2, <3>4
    <3> HIDE DEF q, p
    <3>6. Believes(p, books, rows)
      BY <1>2, <1>5, <3>3, <3>5, BelievesStays
    <3>7. QED
      BY <3>6 DEF p
  <2>4. QED
    BY <2>1, <2>2, <2>3
<1>8. QED
  BY <1>3, <1>4, <1>5, <1>6, <1>7 DEF LaborInv

\* The row of an edited or a new norm, and the commit of it.
LEMMA NormWritten ==
  ASSUME LaborInv, NEW q \in CuratorRows, KnowsNorm(q, book, norm), q.scope \in Scopes,
         NEW i \in IF q.on = NoLabel THEN NormIds \ NormRows ELSE {q.on}
  PROVE  LET new == Applied(q.put, norm[i]) IN
         /\ i \in NormIds /\ new \in NormRecords /\ new.status # "none" /\ new.label # NoLabel
         /\ new.scope \in Scopes /\ book[new.scope].status # "none"
         /\ i \notin q.missed /\ new.scope \notin q.missed => /\ new.scope = q.scope
                                                          /\ new.label = book[new.scope].label
                                                          /\ book[new.scope].status = "live"
         /\ {i, norm[i].scope, new.scope} \cap q.missed = {} /\ norm[i].scope \in Scopes
              => book[norm[i].scope].status = "live"
<1> DEFINE new == Applied(q.put, norm[i])
<1>1. i \in NormIds /\ norm[i] \in NormRecords /\ q.put \in Puts /\ q.scope # NoLabel
  BY LaborRowsTyped, LaborAssumption DEF CuratorRows, LaborInv, LaborRowsOK
<1>2. /\ \/ norm[i] = NoNorm
         \/ /\ norm[i].status # "none" /\ norm[i].label # NoLabel
            /\ norm[i].scope \in Scopes /\ book[norm[i].scope].status # "none"
      /\ NoNorm.status = "none" /\ NoNorm.scope \notin Scopes
  BY <1>1, AtRestType, LaborAssumption DEF LaborInv, RowsComplete
<1>3. /\ new.status = IF q.put.status = "keep" THEN norm[i].status ELSE q.put.status
      /\ new.scope = IF q.put.scope = NoLabel THEN norm[i].scope ELSE q.put.scope
      /\ new.label = IF q.put.label = NoLabel THEN norm[i].label ELSE q.put.label
      /\ new \in NormRecords
  BY <1>1, AppliedColumns, AppliedType
<1>4. CASE q.on = NoLabel
  <2>1. norm[i] = NoNorm
    BY <1>1, <1>2, <1>4 DEF NormRows
  <2>2. new.status # "none" /\ new.scope = q.scope /\ new.label = q.put.label /\ new.label # NoLabel
    BY <1>1, <1>3, <1>4 DEF KnowsNorm
  <2>3. q.scope \notin q.missed => new.label = book[q.scope].label /\ book[q.scope].status = "live"
    BY <1>4, <2>2 DEF KnowsNorm
  <2> HIDE DEF new
  <2>4. QED
    BY <1>1, <1>2, <1>3, <2>1, <2>2, <2>3 DEF KnowsNorm, new
<1>5. CASE q.on # NoLabel
  <2>1. i = q.on /\ norm[i].status # "none"
    BY <1>5 DEF KnowsNorm
  <2>2. norm[i].label # NoLabel /\ norm[i].scope \in Scopes /\ book[norm[i].scope].status # "none"
    BY <1>2, <2>1
  <2>3. /\ q.put.status # "none" /\ q.put.scope \in {NoLabel, q.scope} /\ book[q.scope].status # "none"
        /\ q.scope \notin q.missed => book[q.scope].status = "live"
        /\ i \notin q.missed =>
             /\ new.scope = q.scope
             /\ q.scope \notin q.missed => new.label = book[q.scope].label
             /\ norm[i].scope \notin q.missed => book[norm[i].scope].status = "live"
    BY <1>5, <2>1 DEF KnowsNorm
  <2> HIDE DEF new
  <2>4. QED
    BY <1>1, <1>3, <2>1, <2>2, <2>3 DEF new
<1>6. QED
  BY <1>4, <1>5

LEMMA CommitNormRow ==
  ASSUME LaborInv, NEW c \in Curators, CommitNorm(c)
  PROVE  /\ curator[c] \in CuratorRows /\ curator[c].op = "norm" /\ curator[c].stage = "loaded"
         /\ curator[c].scope \in Scopes /\ KnowsNorm(curator[c], book, norm)
         /\ \E i \in IF curator[c].on = NoLabel THEN NormIds \ NormRows ELSE {curator[c].on} :
              Commits(c, [norm EXCEPT ![i] = Applied(curator[c].put, @)], AtRest)
BY LaborRowsTyped DEF CommitNorm, Believes

LEMMA CommitNormKeeps ==
  ASSUME LaborInv, NEW c \in Curators, CommitNorm(c)
  PROVE  LaborInv'
<1> DEFINE q == curator[c]
<1>1. /\ q \in CuratorRows /\ q.op = "norm" /\ q.scope \in Scopes /\ KnowsNorm(q, book, norm)
  BY CommitNormRow
<1>2. PICK i \in IF q.on = NoLabel THEN NormIds \ NormRows ELSE {q.on} :
        Commits(c, [norm EXCEPT ![i] = Applied(q.put, @)], AtRest)
  BY CommitNormRow
<1> DEFINE new == Applied(q.put, norm[i])
           rows == [norm EXCEPT ![i] = new]
<1>3. /\ i \in NormIds /\ new \in NormRecords /\ new.status # "none" /\ new.label # NoLabel
      /\ new.scope \in Scopes /\ book[new.scope].status # "none"
      /\ i \notin q.missed /\ new.scope \notin q.missed => new.label = book[new.scope].label
  BY <1>1, <1>2, NormWritten
<1>4. Commits(c, rows, AtRest)
  BY <1>2
<1> HIDE DEF new
<1>5. /\ rows \in [NormIds -> NormRecords]
      /\ \A j \in NormIds : rows[j] = IF j = i THEN new ELSE norm[j]
  BY <1>3 DEF LaborInv, LaborRowsOK
<1> HIDE DEF rows
<1>6. BooksAfter(q) = book
  BY <1>1 DEF BooksAfter
<1>7. \A j \in NormIds :
        \/ rows[j] = NoNorm
        \/ /\ rows[j].status # "none" /\ rows[j].label # NoLabel
           /\ rows[j].scope \in Scopes /\ book[rows[j].scope].status # "none"
  BY <1>3, <1>5 DEF LaborInv, RowsComplete
<1>8. ASSUME NEW j \in Astray(book, rows)
      PROVE  j \in strayed \/ {j, rows[j].scope} \cap q.missed # {}
  <2>1. j \in NormIds /\ rows[j].status # "none" /\ rows[j].label # book[rows[j].scope].label
    BY <1>8 DEF Astray
  <2>2. CASE j = i
    BY <1>3, <1>5, <2>1, <2>2
  <2>3. CASE j # i
    BY <1>5, <2>1, <2>3 DEF LaborInv, LabelsAgree, Astray
  <2>4. QED
    BY <2>2, <2>3
<1>9. \A j \in NormIds : norm[j].status # "none" => rows[j].status # "none"
  BY <1>3, <1>5
<1>10. AtRest \in CuratorRows /\ Believes(AtRest, book, rows)
  BY AtRestType, RestBelieves
<1>11. QED
  BY <1>1, <1>4, <1>5, <1>6, <1>7, <1>8, <1>9, <1>10, CommitsKeep

\* The commit of a saved catalogue: a row it leaves is the catalogue's and has its label,
\* or it is as it was.
LEMMA SavedCommitKeeps ==
  ASSUME LaborInv, NEW c \in Curators, NEW rows \in [NormIds -> NormRecords], NEW next \in CuratorRows,
         Commits(c, rows, next), curator[c].stage = "saved",
         \A i \in NormIds : norm[i].status # "none" => rows[i].status # "none",
         \A i \in NormIds :
           \/ rows[i] = NoNorm
           \/ /\ rows[i].status # "none" /\ rows[i].label # NoLabel
              /\ rows[i].scope = curator[c].scope
                 \/ (norm[i].status # "none" /\ rows[i].scope = norm[i].scope),
         \A i \in NormIds :
           rows[i].status # "none" /\ i \notin curator[c].missed /\ curator[c].scope \notin curator[c].missed =>
             IF rows[i].scope = curator[c].scope
               THEN rows[i].label = Applied(curator[c].put, book[curator[c].scope]).label
               ELSE rows[i] = norm[i],
         \A i \in NormIds :
           rows[i].status # "none" /\ i \notin curator[c].missed /\ rows[i].scope # curator[c].scope
             => rows[i] = norm[i],
         BooksAfter(curator[c])[curator[c].scope].status # "none" => Believes(next, BooksAfter(curator[c]), rows)
  PROVE  LaborInv'
<1> DEFINE q == curator[c]
           books == BooksAfter(q)
<1>1. /\ q \in CuratorRows /\ q.scope \in Scopes /\ q.op # "norm" /\ KnowsNorms(q, book, norm)
  BY LaborRowsTyped DEF Believes
<1>2. /\ books \in [Scopes -> BookRows]
      /\ \A s \in Scopes \ {q.scope} : books[s] = book[s]
      /\ books[q.scope] = Applied(q.put, book[q.scope]) /\ books[q.scope].status # "none"
      /\ \A s \in Scopes : book[s].status # "none" => books[s].status # "none"
  BY <1>1, BooksAfterCommit
<1>3. Believes(next, books, rows)
  BY <1>2
<1> HIDE DEF books
<1>4. ASSUME NEW i \in NormIds
      PROVE  \/ norm[i] = NoNorm /\ norm[i].status = "none"
             \/ /\ norm[i].status # "none" /\ norm[i].label # NoLabel
                /\ norm[i].scope \in Scopes /\ book[norm[i].scope].status # "none"
  BY AtRestType DEF LaborInv, RowsComplete
<1>5. ASSUME NEW i \in NormIds
      PROVE  \/ rows[i] = NoNorm
             \/ /\ rows[i].status # "none" /\ rows[i].label # NoLabel
                /\ rows[i].scope \in Scopes /\ books[rows[i].scope].status # "none"
  BY <1>1, <1>2, <1>4
<1>6. ASSUME NEW i \in Astray(books, rows)
      PROVE  i \in strayed \/ {i, rows[i].scope} \cap q.missed # {}
  <2>1. i \in NormIds /\ rows[i].status # "none" /\ rows[i].label # books[rows[i].scope].label
    BY <1>6 DEF Astray
  <2>2. SUFFICES ASSUME i \notin q.missed, rows[i].scope \notin q.missed PROVE i \in strayed
    OBVIOUS
  <2>3. rows[i].scope # q.scope
    BY <1>2, <2>1, <2>2
  <2>4. rows[i] = norm[i] /\ rows[i].scope \in Scopes
    BY <1>5, <2>1, <2>2, <2>3, AtRestType
  <2>5. books[rows[i].scope] = book[rows[i].scope]
    BY <1>2, <2>3, <2>4
  <2>6. i \in Astray(book, norm)
    BY <2>1, <2>4, <2>5 DEF Astray
  <2>7. QED
    BY <2>6 DEF LaborInv, LabelsAgree
<1>7. QED
  BY <1>1, <1>3, <1>5, <1>6, CommitsKeep DEF books

LEMMA RelabelledRow ==
  ASSUME LaborInv, NEW q \in CuratorRows, KnowsNorms(q, book, norm), NEW i \in NormIds
  PROVE  LET row == Relabelled(q)[i] IN
         /\ row \in NormRecords /\ row.status = norm[i].status /\ row.scope = norm[i].scope
         /\ row.code = norm[i].code
         /\ i \in q.relabel => row.label = q.label /\ q.label # NoLabel /\ norm[i].status # "none"
         /\ i \notin q.relabel => row = norm[i]
<1>1. norm[i] \in NormRecords /\ q.label \in Labels \cup {NoLabel}
  BY DEF CuratorRows, LaborInv, LaborRowsOK
<1>2. CASE i \in q.relabel
  <2>1. Relabelled(q)[i] = [norm[i] EXCEPT !.label = q.label]
    BY <1>2 DEF Relabelled
  <2>2. q.label # NoLabel /\ norm[i].status # "none"
    BY <1>2 DEF KnowsNorms
  <2>3. QED
    BY <1>1, <1>2, <2>1, <2>2 DEF NormRecords
<1>3. CASE i \notin q.relabel
  <2>1. Relabelled(q)[i] = norm[i]
    BY <1>3 DEF Relabelled
  <2>2. QED
    BY <1>1, <1>3, <2>1
<1>4. QED
  BY <1>2, <1>3

\* What a saved request knows of a row it did not miss.
LEMMA RowKnown ==
  ASSUME LaborInv, NEW q \in CuratorRows, KnowsNorms(q, book, norm), NEW i \in NormIds,
         i \notin q.missed, norm[i].status # "none"
  PROVE  /\ norm[i].scope # q.scope => Relabelled(q)[i] = norm[i]
         /\ norm[i].scope = q.scope /\ q.scope \notin q.missed =>
              /\ Relabelled(q)[i].label = Applied(q.put, book[q.scope]).label
              /\ i \in q.same => norm[i].label = Applied(q.put, book[q.scope]).label
<1>1. ASSUME norm[i].scope # q.scope PROVE i \notin q.relabel
  BY <1>1 DEF KnowsNorms
<1>2. ASSUME norm[i].scope = q.scope, q.scope \notin q.missed
      PROVE  /\ (IF i \in q.relabel THEN q.label ELSE norm[i].label) = Applied(q.put, book[q.scope]).label
             /\ i \in q.same => i \notin q.relabel
  <2>1. i \in NormsIn(norm, q.scope)
    BY <1>2 DEF NormsIn
  <2>2. QED
    BY <1>2, <2>1 DEF KnowsNorms
<1>3. QED
  BY <1>1, <1>2, RelabelledRow

LEMMA CommitBookKeeps ==
  ASSUME LaborInv, NEW c \in Curators, CommitBook(c)
  PROVE  LaborInv'
<1> DEFINE q == curator[c]
           rows == Relabelled(q)
<1>1. /\ q \in CuratorRows /\ q.stage = "saved" /\ KnowsNorms(q, book, norm) /\ Commits(c, rows, AtRest)
  BY LaborRowsTyped DEF CommitBook, Believes
<1>2. ASSUME NEW i \in NormIds
      PROVE  /\ rows[i] \in NormRecords /\ rows[i].status = norm[i].status /\ rows[i].scope = norm[i].scope
             /\ i \in q.relabel => rows[i].label # NoLabel /\ norm[i].status # "none"
             /\ i \notin q.relabel => rows[i] = norm[i]
             /\ i \notin q.missed /\ norm[i].status # "none" =>
                  /\ norm[i].scope # q.scope => rows[i] = norm[i]
                  /\ norm[i].scope = q.scope /\ q.scope \notin q.missed =>
                       rows[i].label = Applied(q.put, book[q.scope]).label
  BY <1>1, RelabelledRow, RowKnown
<1>3. rows = [i \in NormIds |-> rows[i]]
  BY DEF Relabelled
<1> HIDE DEF rows
<1>4. rows \in [NormIds -> NormRecords]
  BY <1>2, <1>3
<1>5. ASSUME NEW i \in NormIds
      PROVE  \/ rows[i] = NoNorm
             \/ /\ rows[i].status # "none" /\ rows[i].label # NoLabel
                /\ norm[i].status # "none" /\ rows[i].scope = norm[i].scope
  <2>1. norm[i] = NoNorm \/ (norm[i].status # "none" /\ norm[i].label # NoLabel)
    BY DEF LaborInv, RowsComplete
  <2>2. QED
    BY <1>2, <2>1, AtRestType
<1>6. AtRest \in CuratorRows
  BY AtRestType
<1>7. Believes(AtRest, BooksAfter(q), rows)
  BY AtRestType, RestBelieves
<1>8. \A i \in NormIds : norm[i].status # "none" => rows[i].status # "none"
  BY <1>2
<1>9. ASSUME NEW i \in NormIds, rows[i].status # "none", i \notin q.missed
      PROVE  /\ rows[i].scope # q.scope => rows[i] = norm[i]
             /\ q.scope \notin q.missed =>
                  IF rows[i].scope = q.scope
                    THEN rows[i].label = Applied(q.put, book[q.scope]).label
                    ELSE rows[i] = norm[i]
  BY <1>2, <1>9
<1>10. QED
  BY <1>1, <1>4, <1>5, <1>6, <1>7, <1>8, <1>9, SavedCommitKeeps

\* A row after an import: it is new, or the file has its code, or it is relabelled.
LEMMA ImportedRow ==
  ASSUME LaborInv, NEW q \in CuratorRows, q.scope \in Scopes, KnowsNorms(q, book, norm),
         NEW ids \in [{k \in q.codes : NormsKeyed(q.scope, k) = {}} -> NormIds \ NormRows],
         NEW i \in NormIds
  PROVE  LET row == Imported(q, ids)[i] IN
         /\ row \in NormRecords
         /\ \/ /\ norm[i] = NoNorm /\ row.status = "live"
               /\ row.scope = q.scope /\ row.label = q.given
            \/ /\ norm[i].status # "none" /\ norm[i].scope = q.scope /\ row.status # "none"
               /\ row.scope = q.scope /\ row.label = IF i \in q.same THEN norm[i].label ELSE q.given
            \/ row = Relabelled(q)[i]
<1> DEFINE row == Imported(q, ids)[i]
           new == {k \in q.codes : NormsKeyed(q.scope, k) = {}}
<1>1. /\ norm[i] \in NormRecords /\ q.given \in Labels \cup {NoLabel} /\ q.codes \subseteq Codes
      /\ norm[i] = NoNorm \/ norm[i].status # "none"
  <2>1. norm[i] = NoNorm \/ norm[i].status # "none"
    BY DEF LaborInv, RowsComplete
  <2>2. QED
    BY <2>1 DEF CuratorRows, LaborInv, LaborRowsOK
<1>2. DOMAIN ids = new /\ new \subseteq Codes /\ \A k \in new : ids[k] \in NormIds \ NormRows
  BY <1>1
<1> HIDE DEF new
<1>3. CASE \E k \in DOMAIN ids : ids[k] = i
  <2> DEFINE code == CHOOSE k \in DOMAIN ids : ids[k] = i
  <2>1. code \in Codes /\ i \notin NormRows
    BY <1>2, <1>3
  <2>2. row = [status |-> "live", scope |-> q.scope, label |-> q.given, code |-> code]
    BY <1>3 DEF Imported
  <2> HIDE DEF code, row
  <2>3. row \in NormRecords
    BY <1>1, <2>1, <2>2 DEF NormRecords
  <2>4. norm[i] = NoNorm
    BY <1>1, <2>1 DEF NormRows
  <2>5. QED
    BY <2>2, <2>3, <2>4 DEF row
<1>4. CASE ~(\E k \in DOMAIN ids : ids[k] = i) /\ \E k \in q.codes : i \in NormsKeyed(q.scope, k)
  <2> DEFINE status == IF i \in q.live THEN norm[i].status ELSE "live"
             label == IF i \in q.same THEN norm[i].label ELSE q.given
  <2>1. norm[i].status # "none" /\ norm[i].scope = q.scope
    BY <1>4 DEF NormsKeyed, NormsOf, NormRows
  <2>2. row = [norm[i] EXCEPT !.status = status, !.label = label]
    BY <1>4 DEF Imported
  <2>3. /\ status \in {"none", "live", "archived"} /\ status # "none"
        /\ label \in Labels \cup {NoLabel} /\ label = IF i \in q.same THEN norm[i].label ELSE q.given
    BY <1>1, <2>1 DEF NormRecords
  <2> HIDE DEF status, label, row
  <2>4. row \in NormRecords /\ row.status = status /\ row.label = label /\ row.scope = norm[i].scope
    BY <1>1, <2>2, <2>3 DEF NormRecords
  <2>5. QED
    BY <2>1, <2>3, <2>4 DEF row
<1>5. CASE ~(\E k \in DOMAIN ids : ids[k] = i) /\ ~(\E k \in q.codes : i \in NormsKeyed(q.scope, k))
  <2>1. row = Relabelled(q)[i]
    BY <1>5 DEF Imported
  <2>2. row \in NormRecords
    BY <2>1, RelabelledRow
  <2>3. QED
    BY <2>1, <2>2
<1>6. QED
  BY <1>3, <1>4, <1>5

LEMMA CommitImportIs ==
  ASSUME LaborInv, NEW c \in Curators, CommitImport(c)
  PROVE  /\ curator[c] \in CuratorRows /\ curator[c].stage = "saved" /\ curator[c].scope \in Scopes
         /\ curator[c].op \in {"import", "script"} /\ KnowsNorms(curator[c], book, norm)
         /\ \E ids \in [{k \in curator[c].codes : NormsKeyed(curator[c].scope, k) = {}} -> NormIds \ NormRows] :
              Commits(c, Imported(curator[c], ids),
                      IF curator[c].op = "script" THEN AtRest
                      ELSE [AtRest EXCEPT !.stage = "loaded", !.op = "sync", !.scope = curator[c].scope])
BY LaborRowsTyped DEF CommitImport, Believes

LEMMA CommitImportKeeps ==
  ASSUME LaborInv, NEW c \in Curators, CommitImport(c)
  PROVE  LaborInv'
<1> DEFINE q == curator[c]
           next == IF q.op = "script" THEN AtRest
                   ELSE [AtRest EXCEPT !.stage = "loaded", !.op = "sync", !.scope = q.scope]
           saved == Applied(q.put, book[q.scope])
<1>1. /\ q \in CuratorRows /\ q.stage = "saved" /\ q.scope \in Scopes
      /\ q.op \in {"import", "script"} /\ KnowsNorms(q, book, norm)
  BY CommitImportIs
<1>2. PICK ids \in [{k \in q.codes : NormsKeyed(q.scope, k) = {}} -> NormIds \ NormRows] :
        Commits(c, Imported(q, ids), next)
  BY CommitImportIs
<1> DEFINE rows == Imported(q, ids)
<1>3. ASSUME NEW i \in NormIds
      PROVE  /\ rows[i] \in NormRecords
             /\ \/ /\ norm[i] = NoNorm /\ rows[i].status = "live"
                   /\ rows[i].scope = q.scope /\ rows[i].label = q.given
                \/ /\ norm[i].status # "none" /\ norm[i].scope = q.scope /\ rows[i].status # "none"
                   /\ rows[i].scope = q.scope
                   /\ rows[i].label = IF i \in q.same THEN norm[i].label ELSE q.given
                \/ rows[i] = Relabelled(q)[i]
  BY <1>1, <1>2, ImportedRow
<1>4. rows = [i \in NormIds |-> rows[i]]
  BY DEF Imported
<1> HIDE DEF rows
<1>5. rows \in [NormIds -> NormRecords]
  BY <1>3, <1>4
<1>6. /\ q.given # NoLabel
      /\ q.scope \notin q.missed => q.given = saved.label
  BY <1>1 DEF KnowsNorms
<1>7. ASSUME NEW i \in NormIds
      PROVE  /\ norm[i] = NoNorm \/ (norm[i].status # "none" /\ norm[i].label # NoLabel)
             /\ Relabelled(q)[i].status = norm[i].status /\ Relabelled(q)[i].scope = norm[i].scope
             /\ i \in q.relabel => Relabelled(q)[i].label # NoLabel /\ norm[i].status # "none"
             /\ i \notin q.relabel => Relabelled(q)[i] = norm[i]
  BY <1>1, RelabelledRow DEF LaborInv, RowsComplete
<1>8. ASSUME NEW i \in NormIds
      PROVE  /\ norm[i].status # "none" => rows[i].status # "none"
             /\ \/ rows[i] = NoNorm
                \/ /\ rows[i].status # "none" /\ rows[i].label # NoLabel
                   /\ rows[i].scope = q.scope \/ (norm[i].status # "none" /\ rows[i].scope = norm[i].scope)
  BY <1>3, <1>6, <1>7, AtRestType
<1>9. ASSUME NEW i \in NormIds, rows[i].status # "none", i \notin q.missed
      PROVE  /\ rows[i].scope # q.scope => rows[i] = norm[i]
             /\ q.scope \notin q.missed =>
                  IF rows[i].scope = q.scope THEN rows[i].label = saved.label ELSE rows[i] = norm[i]
  <2> HIDE DEF saved
  <2>1. CASE norm[i].status = "none"
    BY <1>3, <1>6, <1>7, <1>9, <2>1
  <2>2. CASE norm[i].status # "none"
    <3>1. /\ norm[i].scope # q.scope => Relabelled(q)[i] = norm[i]
          /\ norm[i].scope = q.scope /\ q.scope \notin q.missed =>
               /\ Relabelled(q)[i].label = saved.label
               /\ i \in q.same => norm[i].label = saved.label
      BY <1>1, <1>9, <2>2, RowKnown DEF saved
    <3>2. CASE rows[i] = Relabelled(q)[i]
      BY <1>7, <3>1, <3>2
    <3>3. CASE rows[i] # Relabelled(q)[i]
      BY <1>3, <1>6, <2>2, <3>1, <3>3, AtRestType
    <3>4. QED
      BY <3>2, <3>3
  <2>3. QED
    BY <2>1, <2>2
<1>10. /\ next \in CuratorRows
       /\ next.put.scope = NoLabel
       /\ next.stage = "idle" \/ /\ next.stage = "loaded" /\ next.op = "sync" /\ next.scope = q.scope
                                 /\ next.seen = NoBook /\ next.given = NoLabel /\ next.status = "keep"
  BY <1>1, AtRestType DEF AtRest, CuratorRows
<1>11. Commits(c, rows, next)
  BY <1>2 DEF rows
<1> HIDE DEF next
<1>12. BooksAfter(q)[q.scope].status # "none" => Believes(next, BooksAfter(q), rows)
  BY <1>1, <1>10 DEF Believes, KnowsBook
<1>13. QED
  BY <1>1, <1>5, <1>8, <1>9, <1>10, <1>11, <1>12, SavedCommitKeeps

LEMMA LaborStepKeeps ==
  ASSUME LaborInv, [LaborNext]_laborVars
  PROVE  LaborInv'
<1>1. CASE UNCHANGED laborVars
  BY <1>1 DEF laborVars, LaborInv, LaborRowsOK, RowsComplete, LabelsAgree, Astray
<1>2. CASE LaborNext
  BY <1>2, CreateBookKeeps, EditBookKeeps, LoadImportKeeps, SaveScriptKeeps, CreateNormKeeps, EditNormKeeps,
     SaveLoadedKeeps, CommitNormKeeps, CommitBookKeeps, CommitImportKeeps, LaborRollbackKeeps DEF LaborNext
<1>3. QED
  BY <1>1, <1>2

\* Which rows a step may touch below an archived catalogue.
LEMMA LaborStepReads ==
  ASSUME LaborInv, LaborNext
  PROVE  ArchivedIsReadOnly
<1> SUFFICES ASSUME NEW i \in NormIds, Content(norm'[i]) # Content(norm[i])
             PROVE  \/ \A s \in {norm[i].scope, norm'[i].scope} \cap Scopes : book'[s].status = "live"
                    \/ \E c \in Curators :
                         /\ curator[c].stage # "idle" /\ curator'[c] # curator[c]
                         /\ \/ curator[c].op = "script"
                            \/ {i, norm[i].scope, norm'[i].scope} \cap curator[c].missed # {}
  BY DEF ArchivedIsReadOnly
<1>1. AtRest \in CuratorRows /\ AtRest.stage = "idle" /\ NoNorm.scope \notin Scopes /\ NoNorm.status = "none"
  BY AtRestType, LaborAssumption
<1>2. PICK c \in Curators : CommitNorm(c) \/ CommitBook(c) \/ CommitImport(c)
  <2>1. norm' # norm
    OBVIOUS
  <2>2. ASSUME NEW c \in Curators, NEW q PROVE Loads(c, q) \/ Saves(c, q) \/ LaborRollback(c) => norm' = norm
    BY DEF Loads, Saves, LaborRollback
  <2>3. ASSUME NEW c \in Curators, NEW s \in Scopes
        PROVE  /\ \A given \in Offered :
                    /\ \A status \in {"live", "archived"} : LoadCreateBook(c, s, given, status) => norm' = norm
                    /\ \A status \in {"live", "archived", "keep"} : LoadEditBook(c, s, given, status) => norm' = norm
                    /\ \A codes \in Files : LoadImport(c, s, given, codes) \/ SaveScript(c, s, given, codes)
                                            => norm' = norm
               /\ \A k \in Codes :
                    /\ \A status \in {"live", "archived"} : LoadCreateNorm(c, s, k, status) => norm' = norm
                    /\ \A j \in NormIds, status \in {"live", "archived", "keep"} :
                         LoadEditNorm(c, j, s, k, status) => norm' = norm
    BY <2>2 DEF LoadCreateBook, LoadEditBook, LoadImport, SaveScript, LoadCreateNorm, LoadEditNorm
  <2>4. ASSUME NEW c \in Curators PROVE SaveBook(c) \/ SaveSync(c) => norm' = norm
    BY <2>2 DEF SaveBook, SaveSync
  <2>5. QED
    BY <2>1, <2>2, <2>3, <2>4 DEF LaborNext
<1> DEFINE q == curator[c]
<1>3. CASE CommitNorm(c)
  <2>1. /\ q \in CuratorRows /\ q.op = "norm" /\ q.stage = "loaded" /\ q.scope \in Scopes
        /\ KnowsNorm(q, book, norm)
    BY <1>3, CommitNormRow
  <2>2. PICK j \in IF q.on = NoLabel THEN NormIds \ NormRows ELSE {q.on} :
          Commits(c, [norm EXCEPT ![j] = Applied(q.put, @)], AtRest)
    BY <1>3, CommitNormRow
  <2> DEFINE new == Applied(q.put, norm[j])
  <2>3. /\ j \in NormIds /\ new \in NormRecords
        /\ j \notin q.missed /\ new.scope \notin q.missed => book[new.scope].status = "live"
        /\ {j, norm[j].scope, new.scope} \cap q.missed = {} /\ norm[j].scope \in Scopes
             => book[norm[j].scope].status = "live"
    BY <2>1, <2>2, NormWritten
  <2>4. Commits(c, [norm EXCEPT ![j] = new], AtRest)
    BY <2>2
  <2> HIDE DEF new
  <2>5. [norm EXCEPT ![j] = new] \in [NormIds -> NormRecords]
    BY <2>3 DEF LaborInv, LaborRowsOK
  <2>6. book' = BooksAfter(q) /\ norm' = [norm EXCEPT ![j] = new] /\ curator'[c] = AtRest
    BY <1>1, <2>4, <2>5, CommitEffect
  <2>7. i = j /\ norm'[i] = new /\ book' = book
    BY <2>1, <2>3, <2>6 DEF BooksAfter, LaborInv, LaborRowsOK
  <2>8. q.stage # "idle" /\ curator'[c] # q
    BY <1>1, <2>1, <2>6
  <2>9. CASE {i, norm[i].scope, norm'[i].scope} \cap q.missed = {}
    BY <2>3, <2>7, <2>9
  <2>10. CASE {i, norm[i].scope, norm'[i].scope} \cap q.missed # {}
    BY <2>8, <2>10
  <2>11. QED
    BY <2>9, <2>10
<1>4. CASE CommitBook(c)
  <2>1. /\ q \in CuratorRows /\ KnowsNorms(q, book, norm) /\ Commits(c, Relabelled(q), AtRest)
    BY <1>4, LaborRowsTyped DEF CommitBook, Believes
  <2>2. norm' = Relabelled(q)
    BY <2>1 DEF Commits
  <2>3. norm'[i].status = norm[i].status /\ norm'[i].scope = norm[i].scope /\ norm'[i].code = norm[i].code
    BY <2>1, <2>2, RelabelledRow
  <2>4. QED
    BY <2>3 DEF Content
<1>5. CASE CommitImport(c)
  <2> DEFINE next == IF q.op = "script" THEN AtRest
                     ELSE [AtRest EXCEPT !.stage = "loaded", !.op = "sync", !.scope = q.scope]
  <2>1. /\ q \in CuratorRows /\ q.stage = "saved" /\ q.scope \in Scopes
        /\ q.op \in {"import", "script"} /\ KnowsNorms(q, book, norm)
    BY <1>5, CommitImportIs
  <2>2. PICK ids \in [{k \in q.codes : NormsKeyed(q.scope, k) = {}} -> NormIds \ NormRows] :
          Commits(c, Imported(q, ids), next)
    BY <1>5, CommitImportIs
  <2>3. next.stage # "saved"
    BY <1>1 DEF AtRest
  <2> HIDE DEF next
  <2>4. norm' = Imported(q, ids) /\ curator'[c] = next /\ book' = BooksAfter(q)
    BY <2>2 DEF Commits, BooksAfter
  <2>5. q.stage # "idle" /\ curator'[c] # q
    BY <2>1, <2>3, <2>4
  <2>6. \/ norm[i] = NoNorm /\ norm'[i].scope = q.scope
        \/ norm[i].scope = q.scope /\ norm'[i].scope = q.scope
        \/ norm'[i] = Relabelled(q)[i]
    BY <2>1, <2>2, <2>4, ImportedRow
  <2>7. norm'[i] # Relabelled(q)[i]
    BY <2>1, RelabelledRow DEF Content
  <2>8. {norm[i].scope, norm'[i].scope} \cap Scopes = {q.scope} /\ norm'[i].scope = q.scope
    BY <1>1, <2>1, <2>6, <2>7
  <2>9. CASE q.op = "script" \/ q.scope \in q.missed
    BY <2>5, <2>8, <2>9
  <2>10. CASE q.op = "import" /\ q.scope \notin q.missed
    <3>1. book'[q.scope].status = "live"
      BY <2>1, <2>4, <2>10, BooksAfterCommit DEF KnowsNorms
    <3>2. QED
      BY <2>8, <3>1
  <2>11. QED
    BY <2>1, <2>9, <2>10
<1>6. QED
  BY <1>2, <1>3, <1>4, <1>5

LEMMA LaborInvariant == LaborSpec => []LaborInv
BY LaborInitHolds, LaborStepKeeps, PTL DEF LaborSpec

LEMMA LaborTypes == LaborInv => LaborTypeOK
<1> SUFFICES ASSUME LaborInv PROVE LaborTypeOK
  OBVIOUS
<1>1. ASSUME NEW c \in Curators
      PROVE  LET q == curator[c] IN
             /\ q.stage \in {"idle", "loaded", "saved"}
             /\ q.scope \in Scopes \cup {NoLabel} /\ (q.stage # "idle" => q.scope \in Scopes)
             /\ q.seen \in BookRows /\ q.label \in Labels \cup {NoLabel}
             /\ q.put.scope \in {NoLabel, q.scope}
             /\ q.codes \subseteq Codes /\ q.relabel \cup q.same \cup q.live \subseteq NormIds
             /\ q.missed \subseteq Scopes \cup NormIds
  <2>1. curator[c] \in CuratorRows /\ Believes(curator[c], book, norm)
    BY LaborRowsTyped
  <2> DEFINE q == curator[c]
  <2> HIDE DEF q
  <2>2. q \in CuratorRows /\ q.put.scope \in {NoLabel, q.scope} /\ (q.stage # "idle" => q.scope \in Scopes)
    BY <2>1 DEF q, Believes
  <2>3. QED
    BY <2>2 DEF CuratorRows, q
<1>2. QED
  BY <1>1 DEF LaborTypeOK, LaborInv, LaborRowsOK

\* OCR uses what the administrator is shown, as no norm is without its catalogue.
LEMMA LaborShown == LaborInv => UsedNormsAreListed
<1> SUFFICES ASSUME LaborInv PROVE UsedNormsAreListed
  OBVIOUS
<1>1. \A i \in NormRows : book[norm[i].scope].status # "none"
  BY AtRestType DEF LaborInv, RowsComplete, NormRows
<1>2. QED
  BY <1>1 DEF UsedNormsAreListed, ActiveNorms, ListedNorms

(* Norms carry the label of their catalogue, OCR matches against the norms   *)
(* that are listed, and nothing changes below an archived catalogue, however *)
(* many requests and imports overlap, but for rows that were written between *)
(* the loads and the commit of the request (labor_norms.py:536, api:105).    *)
THEOREM LabelsFollowCatalogues == LaborSpec => NormsFollowCatalogues
<1>1. LaborInv => LabelsAgree /\ UsedNormsAreListed
  BY LaborShown DEF LaborInv
<1>2. LaborInv /\ [LaborNext]_laborVars => [ArchivedIsReadOnly]_laborVars
  BY LaborStepReads
<1>3. QED
  BY LaborInvariant, <1>1, <1>2, PTL DEF LaborSpec, NormsFollowCatalogues

----------------------------------------------------------------------------
(***************************************************************************)
(* The parts together: a step of one part leaves the others as they are.    *)
(***************************************************************************)
AdministrationInv == AccountsInv /\ AssignmentsInv /\ LimiterInv /\ LaborInv

LEMMA AdministrationInitHolds == AdministrationInit => AdministrationInv
BY AccountsInitHolds, AssignmentsInitHolds, LimiterInitHolds, LaborInitHolds
   DEF AdministrationInit, AdministrationInv

LEMMA PartSteps ==
  ASSUME [AdministrationNext]_administrationVars
  PROVE  /\ [AccountsNext]_accountVars
         /\ [AssignmentsNext]_assignmentVars
         /\ [LimiterNext]_limiterVars
         /\ [LaborNext]_laborVars
<1>1. CASE UNCHANGED administrationVars
  BY <1>1 DEF administrationVars
<1>2. CASE AdministrationNext
  <2>1. CASE part = "accounts" /\ AccountsNext /\ UNCHANGED <<assignmentVars, limiterVars, laborVars>>
    BY <2>1
  <2>2. CASE part = "assignments" /\ AssignmentsNext /\ UNCHANGED <<accountVars, limiterVars, laborVars>>
    BY <2>2
  <2>3. CASE part = "limiter" /\ LimiterNext /\ UNCHANGED <<accountVars, assignmentVars, laborVars>>
    BY <2>3
  <2>4. CASE /\ part \in {"norm", "catalogue"} /\ LaborNext
             /\ UNCHANGED <<accountVars, assignmentVars, limiterVars>>
    BY <2>4
  <2>5. QED
    BY <1>2, <2>1, <2>2, <2>3, <2>4 DEF AdministrationNext
<1>3. QED
  BY <1>1, <1>2

LEMMA AdministrationStepKeeps ==
  AdministrationInv /\ [AdministrationNext]_administrationVars => AdministrationInv'
BY PartSteps, AccountsStepKeeps, AssignmentsStepKeeps, NextHolds, LaborStepKeeps DEF AdministrationInv

LEMMA AdministrationInvariant == AdministrationSpec => []AdministrationInv
BY AdministrationInitHolds, AdministrationStepKeeps, PTL DEF AdministrationSpec

(* All rows of the administration, the requests in flight and what they have *)
(* read keep their shape (models/user.py, vehicle.py, labor_norm_catalog.py,  *)
(* core/rate_limit.py).                                                       *)
THEOREM AdministrationTypes == AdministrationSpec => []AdministrationTypeOK
<1>1. AdministrationInv => AdministrationTypeOK
  <2>1. AccountsInv => AccountsTypeOK
    BY DEF AccountsInv
  <2>2. AssignmentsInv => AssignmentsTypeOK
    BY DEF AssignmentsInv
  <2>3. LimiterInv => LimiterTypeOK
    BY DEF LimiterInv
  <2>4. QED
    BY <2>1, <2>2, <2>3, LaborTypes DEF AdministrationInv, AdministrationTypeOK
<1>2. QED
  BY AdministrationInvariant, <1>1, PTL
=============================================================================
