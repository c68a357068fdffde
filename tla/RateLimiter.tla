---------------------------- MODULE RateLimiter ----------------------------
(***************************************************************************)
(* The in-memory limiter of logins and password recoveries                 *)
(* (core/rate_limit.py) as api/auth.py uses it: an attempt is counted      *)
(* first against its address, then against its login, and a login that     *)
(* succeeds forgets the count of the login.                                *)
(*                                                                         *)
(* Attempts run in threads: `hit` reads the clock before it takes the      *)
(* lock, so a delayed thread counts itself at a time that has passed.      *)
(* The clock is cut into ticks, `Second` of them to a second, as a retry   *)
(* time is rounded up to whole seconds.                                    *)
(***************************************************************************)
EXTENDS Naturals, Sequences, FiniteSets

CONSTANTS Attempts,                  \* numbered as they arrive
          Addresses, Logins,
          AddressLimit, LoginLimit,  \* max_requests of the two rules
          Window, Second,            \* in ticks
          MaxTime                    \* bound of the clock

ASSUME LimiterAssumption ==
  /\ Attempts \subseteq Nat
  /\ AddressLimit \in Nat \ {0}
  /\ LoginLimit \in Nat \ {0}
  /\ Window \in Nat \ {0}
  /\ Second \in Nat \ {0}
  /\ MaxTime \in Nat

VARIABLES clock,
          attempt,  \* address, login and progress of each attempt
          bucket,   \* rule -> key -> the attempts that are counted, oldest first
          readAt,   \* rule -> the time an attempt read before it took the lock
          late,     \* history: [rule, attempt] that took the lock later than they read
          counted,  \* history: rule -> attempts counted since their key was forgotten
          told      \* what a refused attempt was told: wait until, given this bucket

limiterVars == <<clock, attempt, bucket, readAt, late, counted, told>>

Rules == {"address", "login"}
Keys == Addresses \cup Logins
MaxRequests(rule) == IF rule = "address" THEN AddressLimit ELSE LoginLimit
KeyOf(rule, a) == IF rule = "address" THEN attempt[a].address ELSE attempt[a].login

Stages == {"new", "timed", "checked", "timed2", "accepted", "refused", "ended"}
RuleOf(stage) == IF stage \in {"new", "timed"} THEN "address" ELSE "login"

LimiterInit ==
  /\ clock = 0
  /\ attempt \in [Attempts -> [address : Addresses, login : Logins, stage : {"new"}]]
  /\ bucket = [rule \in Rules |-> [k \in Keys |-> <<>>]]
  /\ readAt = [rule \in Rules |-> [a \in Attempts |-> 0]]
  /\ late = [rule \in Rules |-> {}]
  /\ counted = [rule \in Rules |-> {}]
  /\ told = [a \in Attempts |-> [retry |-> 0, ahead |-> <<>>]]

\* popleft while bucket[0] <= threshold, written with now = threshold + window
FirstKept(rule, b, now) ==
  CHOOSE i \in 1 .. Len(b) + 1 :
    /\ \A j \in 1 .. i - 1 : readAt[rule][b[j]] + Window <= now
    /\ i <= Len(b) => readAt[rule][b[i]] + Window > now
Pruned(rule, b, now) == SubSeq(b, FirstKept(rule, b, now), Len(b))

\* max(1, ceil(window - (now - bucket[0]))), in seconds
CeilSeconds(t) == (t + Second - 1) \div Second
RetryAfter(rule, b, now) ==
  LET left == CeilSeconds((readAt[rule][b[1]] + Window) - now) IN IF left < 1 THEN 1 ELSE left

ReadClock(a) ==
  LET rule == RuleOf(attempt[a].stage) IN
  /\ attempt[a].stage \in {"new", "checked"}
  /\ \A b \in Attempts : b < a => attempt[b].stage # "new"
  /\ readAt' = [readAt EXCEPT ![rule][a] = clock]
  /\ attempt' = [attempt EXCEPT ![a].stage = IF @ = "new" THEN "timed" ELSE "timed2"]
  /\ UNCHANGED <<clock, bucket, late, counted, told>>

Admits(rule, b) == Len(b) < MaxRequests(rule)

Hit(a) ==
  LET stage == attempt[a].stage
      rule == RuleOf(stage)
      now == readAt[rule][a]
      k == KeyOf(rule, a)
      b == Pruned(rule, bucket[rule][k], now)
  IN
  /\ stage \in {"timed", "timed2"}
  /\ late' = [late EXCEPT ![rule] = IF clock > now THEN @ \cup {a} ELSE @]
  /\ \/ /\ ~Admits(rule, b)
        /\ bucket' = [bucket EXCEPT ![rule][k] = b]
        /\ attempt' = [attempt EXCEPT ![a].stage = "refused"]
        /\ told' = [told EXCEPT ![a] = [retry |-> now + Second * RetryAfter(rule, b, now), ahead |-> b]]
        /\ UNCHANGED counted
     \/ /\ Admits(rule, b)
        /\ bucket' = [bucket EXCEPT ![rule][k] = Append(b, a)]
        /\ attempt' = [attempt EXCEPT ![a].stage = IF stage = "timed" THEN "checked" ELSE "accepted"]
        /\ counted' = [counted EXCEPT ![rule] = @ \cup {a}]
        /\ UNCHANGED told
  /\ UNCHANGED <<clock, readAt>>

\* Mutant: a success forgets the address, too.
SucceedForgetsAddress(a) ==
  /\ attempt[a].stage = "accepted"
  /\ bucket' = [bucket EXCEPT !["login"][attempt[a].login] = <<>>, !["address"][attempt[a].address] = <<>>]
  /\ counted' = [counted EXCEPT !["login"] = {c \in @ : attempt[c].login # attempt[a].login}]
  /\ attempt' = [attempt EXCEPT ![a].stage = "ended"]
  /\ UNCHANGED <<clock, readAt, late, told>>

\* The password was right: clear_rate_limit_scope forgets the login, not the address.
Succeed(a) ==
  /\ attempt[a].stage = "accepted"
  /\ bucket' = [bucket EXCEPT !["login"][attempt[a].login] = <<>>]
  /\ counted' = [counted EXCEPT !["login"] = {c \in @ : attempt[c].login # attempt[a].login}]
  /\ attempt' = [attempt EXCEPT ![a].stage = "ended"]
  /\ UNCHANGED <<clock, readAt, late, told>>

Fail(a) ==
  /\ attempt[a].stage = "accepted"
  /\ attempt' = [attempt EXCEPT ![a].stage = "ended"]
  /\ UNCHANGED <<clock, bucket, readAt, late, counted, told>>

Tick ==
  /\ clock < MaxTime
  /\ clock' = clock + 1
  /\ UNCHANGED <<attempt, bucket, readAt, late, counted, told>>

LimiterNext ==
  \/ \E a \in Attempts : ReadClock(a) \/ Hit(a) \/ Succeed(a) \/ Fail(a)
  \/ Tick

LimiterSpec == LimiterInit /\ [][LimiterNext]_limiterVars

----------------------------------------------------------------------------

\* Every counter and bucket has the shape the code gives it; a bucket never exceeds its limit.
LimiterTypeOK ==
  /\ clock \in Nat
  /\ attempt \in [Attempts -> [address : Addresses, login : Logins, stage : Stages]]
  /\ bucket \in [Rules -> [Keys -> Seq(Attempts)]]
  /\ readAt \in [Rules -> [Attempts -> Nat]]
  /\ late \in [Rules -> SUBSET Attempts]
  /\ counted \in [Rules -> SUBSET Attempts]
  /\ told \in [Attempts -> [retry : Nat, ahead : Seq(Attempts)]]
  /\ \A rule \in Rules, k \in Keys : Len(bucket[rule][k]) <= MaxRequests(rule)

\* The attempts of one key that were counted and read the clock in the window that ends at t.
CountedIn(rule, k, t) ==
  {a \in counted[rule] : KeyOf(rule, a) = k /\ readAt[rule][a] <= t /\ t < readAt[rule][a] + Window}

\* At most max_requests attempts of an address, and of a login since it last succeeded,
\* pass in any window (rate_limit.py:32); a window that is over may only be exceeded by
\* attempts that waited for the lock past a tick of the clock.
LimitHolds ==
  \A rule \in Rules, k \in Keys :
    /\ Cardinality(CountedIn(rule, k, clock)) <= MaxRequests(rule)
    /\ \A t \in 0 .. clock : Cardinality(CountedIn(rule, k, t) \ late[rule]) <= MaxRequests(rule)

\* Whoever waits as long as Retry-After says finds a slot, if nobody else takes it
\* (rate_limit.py:36).
RetryIsEnough ==
  \A a \in Attempts :
    attempt[a].stage = "refused" =>
      LET rule == IF a \in counted["address"] THEN "login" ELSE "address" IN
      Len(Pruned(rule, told[a].ahead, told[a].retry)) < MaxRequests(rule)

\* What the limiter promises the service and the user who waits (rate_limit.py:26).
WindowHolds == LimitHolds /\ RetryIsEnough
=============================================================================
