------------------------------ MODULE Accounts ------------------------------
(***************************************************************************)
(* Users, administrators, passwords and recovery links (api/auth.py,       *)
(* api/users.py, services/password_reset_tokens.py).                       *)
(*                                                                         *)
(* A request reads, works (a password hash and a mail take their time) and *)
(* commits; other requests commit in between, and the commit writes the    *)
(* columns that the request changed over whatever they left.  So each      *)
(* request is two steps.  Of a password the model keeps that it is set,    *)
(* not its value: hashes are salted, so a new one differs from all before. *)
(* Names, logins and mails are left out; the unique indices of the table   *)
(* keep a second row of a login out, which CommitCreate says.              *)
(***************************************************************************)
EXTENDS Naturals, FiniteSets

CONSTANTS Users,         \* people who may get an account
          BootAdmin,     \* the account of the settings, made by init_admin
          Links,         \* recovery links
          Requests,      \* request threads of the API
          Nobody,        \* no user, no link
          EditForms      \* bound: the [role, status, password] that PATCH /users is sent

ASSUME AccountsAssumption ==
  /\ BootAdmin \in Users
  /\ Nobody \notin Users \cup Links
  /\ EditForms \subseteq [role : {"admin", "employee", "keep"},
                          status : {"active", "inactive", "keep"},
                          password : {"new", "keep"}]

VARIABLES user,         \* rows of users
          link,         \* rows of password_reset_tokens
          request,      \* what each request has read and is going to write
          staleAuthor,  \* history: an edit was committed by someone who had
                        \* stopped being an administrator while it ran
          overtaken,    \* history: requests during which their user's password was set
          missed,       \* history: links of its user that went live during each request
          crossed,      \* history: live links that a concurrent request could not see
          outlived,     \* history: live links older than the password of their user
          redeemed      \* history: passwords set through each link, overtaken requests aside

history == <<staleAuthor, overtaken, missed, crossed, outlived, redeemed>>
accountVars == <<user, link, request, history>>

Roles == {"admin", "employee"}
Statuses == {"absent", "active", "inactive"}
LinkStates == {"none", "live", "expired", "used"}
Keep == "keep"

NoLink == [owner |-> Nobody, state |-> "none"]

Idle == [op |-> "idle", by |-> Nobody, of |-> Nobody, link |-> Nobody,
         role |-> Keep, status |-> Keep, password |-> Keep, unused |-> {}]

AccountsInit ==
  /\ user = [u \in Users |-> IF u = BootAdmin
                               THEN [role |-> "admin", status |-> "active"]
                               ELSE [role |-> "employee", status |-> "absent"]]
  /\ link = [l \in Links |-> NoLink]
  /\ request = [r \in Requests |-> Idle]
  /\ staleAuthor = FALSE
  /\ overtaken = {}
  /\ missed = [r \in Requests |-> {}]
  /\ crossed = {}
  /\ outlived = {}
  /\ redeemed = [l \in Links |-> 0]

Admins == {u \in Users : user[u].status = "active" /\ user[u].role = "admin"}

\* What invalidate_password_reset_tokens finds: unused, whether expired or not.
UnusedLinks(u) == {l \in Links : link[l].owner = u /\ link[l].state \in {"live", "expired"}}

InFlight(r) == request[r].op # "idle"
Concurrent(r) == {s \in Requests \ {r} : InFlight(s) /\ request[s].of = request[r].of}

\* --- first half: authenticate, read, check

Begin(r, q) ==
  /\ request[r].op = "idle"
  /\ request' = [request EXCEPT ![r] = q]
  /\ UNCHANGED <<user, link, history>>

BeginCreate(r, a, u, role, status) ==
  /\ a \in Admins
  /\ user[u].status = "absent"
  /\ Begin(r, [Idle EXCEPT !.op = "create", !.by = a, !.of = u, !.role = role,
                           !.status = status, !.password = "new"])

\* The ORM writes a column only if the new value differs from the one read.
Changed(old, new) == IF new = old THEN Keep ELSE new

\* Mutant: an administrator may disable his own account.
SelfRoleProtection(u, a, role, status) == u = a => role \in {Keep, "admin"}

SelfAdminProtection(u, a, role, status) ==
  u = a => role \in {Keep, "admin"} /\ status \in {Keep, "active"}

BeginEdit(r, a, u, f) ==
  /\ a \in Admins
  /\ user[u].status # "absent"
  /\ SelfAdminProtection(u, a, f.role, f.status)
  /\ Begin(r, [Idle EXCEPT !.op = "edit", !.by = a, !.of = u,
                           !.role = Changed(user[u].role, f.role),
                           !.status = Changed(user[u].status, f.status),
                           !.password = f.password,
                           !.unused = IF f.password = "new" THEN UnusedLinks(u) ELSE {}])

\* Mutant: a reset by an administrator leaves the recovery links.
BeginResetKeepsLinks(r, a, u) ==
  /\ a \in Admins
  /\ user[u].status # "absent"
  /\ Begin(r, [Idle EXCEPT !.op = "edit", !.by = a, !.of = u, !.password = "new"])

BeginReset(r, a, u) ==
  /\ a \in Admins
  /\ user[u].status # "absent"
  /\ Begin(r, [Idle EXCEPT !.op = "edit", !.by = a, !.of = u, !.password = "new",
                           !.unused = UnusedLinks(u)])

BeginChange(r, u) ==
  /\ user[u].status = "active"
  /\ Begin(r, [Idle EXCEPT !.op = "change", !.by = u, !.of = u, !.password = "new",
                           !.unused = UnusedLinks(u)])

BeginRecovery(r, l, u) ==
  /\ user[u].status = "active"
  /\ link[l].state = "none"
  /\ \A s \in Requests : request[s].link # l
  /\ Begin(r, [Idle EXCEPT !.op = "recovery", !.of = u, !.link = l,
                           !.unused = UnusedLinks(u)])

BeginRedeem(r, l) ==
  LET u == link[l].owner IN
  /\ link[l].state = "live"
  /\ user[u].status = "active"
  /\ Begin(r, [Idle EXCEPT !.op = "redeem", !.of = u, !.link = l, !.password = "new",
                           !.unused = UnusedLinks(u)])

\* --- second half: flush and commit

End(r) == request' = [request EXCEPT ![r] = Idle]

\* used_at of the links that the request read as unused
Invalidated(r) ==
  [l \in Links |-> IF l \in request[r].unused THEN [link[l] EXCEPT !.state = "used"] ELSE link[l]]

SetsPassword(r) == request[r].password = "new"

\* Mutant: the fields that were not sent are written, too.
WrittenUnset(r) ==
  [user EXCEPT ![request[r].of] = [role |-> request[r].role, status |-> request[r].status]]

\* The columns of a row that the request writes.
Written(r) ==
  LET q == request[r] u == q.of IN
  [user EXCEPT ![u] = [role |-> IF q.role = Keep THEN @.role ELSE q.role,
                       status |-> IF q.status = Keep THEN @.status ELSE q.status]]

\* History: a new password overtakes the other requests of its user, and the links
\* that the request did not see outlive the old one.
Overtakes(r) ==
  LET left == UnusedLinks(request[r].of) \ request[r].unused
      set == IF SetsPassword(r) THEN left ELSE {}
  IN
  /\ overtaken' = (overtaken \ {r}) \cup (IF SetsPassword(r) THEN Concurrent(r) ELSE {})
  /\ outlived' = (outlived \ request[r].unused) \cup set
  /\ crossed' = (crossed \ request[r].unused) \cup (set \cap missed[r])
  /\ missed' = [missed EXCEPT ![r] = {}]

CommitUser(r) ==
  /\ user' = Written(r)
  /\ Overtakes(r)
  /\ End(r)

CommitCreate(r) ==
  /\ request[r].op = "create"
  /\ user[request[r].of].status = "absent"
  /\ CommitUser(r)
  /\ UNCHANGED <<link, staleAuthor, redeemed>>

CommitEdit(r) ==
  /\ request[r].op = "edit"
  /\ CommitUser(r)
  /\ link' = Invalidated(r)
  /\ staleAuthor' = (staleAuthor \/ request[r].by \notin Admins)
  /\ UNCHANGED redeemed

CommitChange(r) ==
  /\ request[r].op = "change"
  /\ CommitUser(r)
  /\ link' = Invalidated(r)
  /\ UNCHANGED <<staleAuthor, redeemed>>

CommitRecovery(r) ==
  LET q == request[r] IN
  /\ q.op = "recovery"
  /\ link' = [Invalidated(r) EXCEPT ![q.link] = [owner |-> q.of, state |-> "live"]]
  /\ outlived' = (outlived \ q.unused) \cup (IF r \in overtaken THEN {q.link} ELSE {})
  /\ crossed' = (crossed \ q.unused) \cup missed[r] \cup (IF r \in overtaken THEN {q.link} ELSE {})
  /\ overtaken' = overtaken \ {r}
  /\ missed' = [s \in Requests |-> IF s = r THEN {}
                                   ELSE IF s \in Concurrent(r) THEN missed[s] \cup {q.link}
                                   ELSE missed[s]]
  /\ End(r)
  /\ UNCHANGED <<user, staleAuthor, redeemed>>

CommitRedeem(r) ==
  /\ request[r].op = "redeem"
  /\ CommitUser(r)
  /\ link' = [Invalidated(r) EXCEPT ![request[r].link].state = "used"]
  /\ redeemed' = [redeemed EXCEPT ![request[r].link] = IF r \in overtaken THEN @ ELSE @ + 1]
  /\ UNCHANGED staleAuthor

\* An exception before the commit (a missing setting, the unique index, a lost
\* connection): the transaction is rolled back.
Rollback(r) ==
  /\ InFlight(r)
  /\ End(r)
  /\ overtaken' = overtaken \ {r}
  /\ missed' = [missed EXCEPT ![r] = {}]
  /\ UNCHANGED <<user, link, staleAuthor, crossed, outlived, redeemed>>

\* --- time, and the start of a container

Expire(l) ==
  /\ link[l].state = "live"
  /\ link' = [link EXCEPT ![l].state = "expired"]
  /\ UNCHANGED <<user, request, history>>

InitAdmin ==
  /\ user' = [user EXCEPT ![BootAdmin].role = "admin", ![BootAdmin].status = "active"]
  /\ staleAuthor' = FALSE
  /\ UNCHANGED <<link, request, overtaken, missed, crossed, outlived, redeemed>>

AccountsBegin(r) ==
  \/ \E a, u \in Users :
       \/ \E role \in Roles, status \in {"active", "inactive"} : BeginCreate(r, a, u, role, status)
       \/ \E f \in EditForms : BeginEdit(r, a, u, f)
       \/ BeginReset(r, a, u)
  \/ \E u \in Users : BeginChange(r, u)
  \/ \E l \in Links, u \in Users : BeginRecovery(r, l, u)
  \/ \E l \in Links : BeginRedeem(r, l)

AccountsCommit(r) ==
  \/ CommitCreate(r)
  \/ CommitEdit(r)
  \/ CommitChange(r)
  \/ CommitRecovery(r)
  \/ CommitRedeem(r)

AccountsNext ==
  \/ \E r \in Requests : AccountsBegin(r) \/ AccountsCommit(r) \/ Rollback(r)
  \/ \E l \in Links : Expire(l)
  \/ InitAdmin

AccountsSpec == AccountsInit /\ [][AccountsNext]_accountVars

----------------------------------------------------------------------------

LinkRows == [owner : Users \cup {Nobody}, state : LinkStates]
UserRows == [role : Roles, status : Statuses]
RequestRows ==
  [op : {"idle", "create", "edit", "change", "recovery", "redeem"},
   by : Users \cup {Nobody}, of : Users \cup {Nobody}, link : Links \cup {Nobody},
   role : Roles \cup {Keep}, status : {"active", "inactive", Keep},
   password : {"new", Keep}, unused : SUBSET Links]

\* The rows and the requests have the shape of the models; every row in flight has a user.
AccountsTypeOK ==
  /\ user \in [Users -> UserRows]
  /\ link \in [Links -> LinkRows]
  /\ request \in [Requests -> RequestRows]
  /\ staleAuthor \in BOOLEAN
  /\ overtaken \subseteq Requests
  /\ missed \in [Requests -> SUBSET Links]
  /\ crossed \subseteq Links
  /\ outlived \subseteq Links
  /\ redeemed \in [Links -> Nat]
  /\ \A r \in Requests : InFlight(r) => request[r].of \in Users

\* Administrators demote and disable each other, and none may do it to oneself: an
\* administrator is left, unless one acted who had just stopped being one
\* (users.py:137).
AdminRemains == staleAuthor \/ Admins # {}

\* A recovery link that works was asked for under the password in force: every
\* way to set a password ends the links before it (users.py:339, 376, auth.py:144, 243),
\* except those that concurrent requests could not see.
LinksEndWithPassword ==
  \A l \in outlived \ crossed : link[l].state # "live"

\* A user has one recovery link that works, the last one asked for (auth.py:180).
OneLiveLink ==
  \A k, l \in Links \ crossed :
    link[k].state = "live" /\ link[l].state = "live" /\ link[k].owner = link[l].owner => k = l

\* A link sets a password once; confirmations overtaken by another change aside (auth.py:236).
LinkWorksOnce == \A l \in Links : redeemed[l] <= 1

\* What a user who lost a password may rely on: links end with the password they were asked
\* for under, only the last one works, and it works once.
RecoveryIsSafe == LinksEndWithPassword /\ OneLiveLink /\ LinkWorksOnce
=============================================================================
