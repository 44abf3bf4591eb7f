----------------------------- MODULE AuthSession -----------------------------
(***************************************************************************)
(* Accounts, refresh tokens and the access check.  Every change of what an *)
(* account may do (password, role, status) counts up the token version of  *)
(* the user and revokes the user's refresh tokens in one transaction; an   *)
(* access token is accepted only with the present version, which is read   *)
(* from MySQL on every request, while role and status come from a cache.   *)
(* A refresh token is good for one rotation.                               *)
(*                                                                         *)
(*   internal/logic/auth/auth.go     Register, Login, Refresh, Logout,     *)
(*                                   ResetPassword, issueTokens            *)
(*   internal/logic/user/user.go     ChangePassword                        *)
(*   internal/logic/admin/admin.go   UpdateUserStatus, UpdateUserRole      *)
(*   internal/middleware/auth.go     authenticate, resolveUser             *)
(*   model/user.go, model/token.go   the transactions                      *)
(*                                                                         *)
(* A request is a sequence of single statements and cache calls; other     *)
(* requests, of any API process, come in between.  Captchas, mail codes,   *)
(* the expiry of tokens and the refusal of wrong passwords only turn       *)
(* requests away, and are left out.                                        *)
(***************************************************************************)
EXTENDS Naturals, Sequences, FiniteSets

CONSTANTS
  Users,       \* accounts that may be registered
  Requests,    \* concurrent requests
  MaxTokens,   \* bound on refresh tokens issued
  MaxChanges,  \* bound on changes of accounts
  MaxEvents,   \* bound on both together
  NoUser, NoSnapshot

ASSUME ConstantsAssumption ==
  MaxTokens \in Nat /\ MaxChanges \in Nat /\ MaxEvents \in Nat /\ NoUser \notin Users

VARIABLES
  users,    \* the users table
  tokens,   \* the refresh_tokens table: the number of a row is its hash
  access,   \* the access tokens handed out
  cached,   \* auth:user:<id> in Redis
  pc, op,   \* per request: its next step, and what it has read
  changes   \* changes of accounts begun

vars == <<users, tokens, access, cached, pc, op, changes>>

Snapshot(u) == [role |-> users[u].role, status |-> users[u].status]

\* In an operation, and in the row of the token it issues, "seen" is the version of
\* the user when the password was last checked in this session; "late", in the row,
\* says that an account changed between the last check of a request and the token it
\* was given.  The code knows neither.
NoOp == [user |-> NoUser, target |-> NoUser, token |-> 0, seen |-> 0, checked |-> 0,
         late |-> FALSE, version |-> 0, snapshot |-> NoSnapshot, admins |-> 0]

Init ==
  /\ users = [u \in Users |-> [role |-> "none", status |-> "active", version |-> 0]]
  /\ tokens = <<>> /\ access = {}
  /\ cached = [u \in Users |-> NoSnapshot]
  /\ pc = [r \in Requests |-> "idle"] /\ op = [r \in Requests |-> NoOp]
  /\ changes = 0

Goto(r, from, to) == pc[r] = from /\ pc' = [pc EXCEPT ![r] = to]

\* The request is answered.
Leave(r) == pc' = [pc EXCEPT ![r] = "idle"] /\ op' = [op EXCEPT ![r] = NoOp]

Registered == {u \in Users : users[u].role # "none"}
ActiveAdmins == {u \in Users : users[u].role = "admin" /\ users[u].status = "active"}

Live == {t \in DOMAIN tokens : tokens[t].live}
Issuing == {r \in Requests : pc[r] \in {"create", "version", "insert", "user", "revoke"}}
issued == Len(tokens) + Cardinality(Issuing)
MayIssue  == issued < MaxTokens /\ issued + changes < MaxEvents
MayChange == changes < MaxChanges /\ issued + changes < MaxEvents

-----------------------------------------------------------------------------
(* Register, Login and Refresh, which end in issueTokens.                  *)

\* Broken variant: no GET_LOCK around the check and the insertion.
StartRegisterUnlocked(r) ==
  /\ MayIssue /\ Goto(r, "idle", "create")
  /\ \E u \in Users \ Registered :
       op' = [op EXCEPT ![r] = [NoOp EXCEPT !.user = u,
                !.snapshot = [role |-> IF Registered = {} THEN "admin" ELSE "user",
                              status |-> "active"]]]
  /\ UNCHANGED <<users, tokens, access, cached, changes>>

\* GET_LOCK, CountUsers and AdminExists: the first account is the administrator's.
StartRegister(r) ==
  /\ \A q \in Requests : pc[q] # "create"
  /\ MayIssue /\ Goto(r, "idle", "create")
  /\ \E u \in Users \ Registered :
       op' = [op EXCEPT ![r] = [NoOp EXCEPT !.user = u,
                !.snapshot = [role |-> IF Registered = {} THEN "admin" ELSE "user",
                              status |-> "active"]]]
  /\ UNCHANGED <<users, tokens, access, cached, changes>>

\* CreateUser and the commit, which the unique keys refuse for a taken account.
Create(r) ==
  /\ Goto(r, "create", "version")
  /\ op[r].user \notin Registered
  /\ users' = [users EXCEPT ![op[r].user].role = op[r].snapshot.role]
  /\ op' = [op EXCEPT ![r].snapshot = NoSnapshot]
  /\ UNCHANGED <<tokens, access, cached, changes>>

Login(r) ==
  /\ MayIssue /\ Goto(r, "idle", "version")
  /\ \E u \in Registered :
       /\ users[u].status = "active"
       /\ op' = [op EXCEPT ![r] = [NoOp EXCEPT !.user = u, !.seen = users[u].version,
                                                !.checked = users[u].version]]
  /\ UNCHANGED <<users, tokens, access, cached, changes>>

\* Refresh: a token that is not revoked is found.
FindToken(r) ==
  /\ MayIssue /\ Goto(r, "idle", "user")
  /\ \E t \in Live :
       op' = [op EXCEPT ![r] = [NoOp EXCEPT !.user = tokens[t].owner, !.token = t,
                                  !.seen = tokens[t].seen, !.late = tokens[t].late]]
  /\ UNCHANGED <<users, tokens, access, cached, changes>>

CheckUser(r) ==
  /\ pc[r] = "user"
  /\ \/ /\ users[op[r].user].status = "active"
        /\ pc' = [pc EXCEPT ![r] = "revoke"] /\ UNCHANGED <<tokens, op>>
     \/ /\ users[op[r].user].status # "active"
        /\ tokens' = [tokens EXCEPT ![op[r].token].live = FALSE] /\ Leave(r)
  /\ UNCHANGED <<users, access, cached, changes>>

\* Broken variant: the token is revoked whether or not somebody was faster.
RevokeAnyway(r) ==
  /\ Goto(r, "revoke", "version")
  /\ tokens' = [tokens EXCEPT ![op[r].token].live = FALSE]
  /\ op' = [op EXCEPT ![r].checked = users[op[r].user].version]
  /\ UNCHANGED <<users, access, cached, changes>>

\* RevokeRefreshToken: only who turns revoked_at from NULL may go on.
Revoke(r) ==
  /\ pc[r] = "revoke"
  /\ \/ /\ tokens[op[r].token].live
        /\ tokens' = [tokens EXCEPT ![op[r].token].live = FALSE]
        /\ op' = [op EXCEPT ![r].checked = users[op[r].user].version]
        /\ pc' = [pc EXCEPT ![r] = "version"]
     \/ /\ ~tokens[op[r].token].live
        /\ Leave(r) /\ UNCHANGED tokens
  /\ UNCHANGED <<users, access, cached, changes>>

ReadVersion(r) ==
  /\ Goto(r, "version", "insert")
  /\ op' = [op EXCEPT ![r].version = users[op[r].user].version]
  /\ UNCHANGED <<users, tokens, access, cached, changes>>

Insert(r) ==
  /\ pc[r] = "insert"
  /\ LET u == op[r].user IN
     /\ tokens' = Append(tokens,
          [owner |-> u, live |-> TRUE, parent |-> op[r].token, seen |-> op[r].seen,
           late |-> op[r].late \/ op[r].checked # users[u].version])
     /\ access' = access \cup {[user |-> u, version |-> op[r].version]}
  /\ Leave(r)
  /\ UNCHANGED <<users, cached, changes>>

\* Logout takes whatever refresh token it is shown out of use.
Logout ==
  /\ \E t \in Live : tokens' = [tokens EXCEPT ![t].live = FALSE]
  /\ UNCHANGED <<users, access, cached, pc, op, changes>>

-----------------------------------------------------------------------------
(* Changes of an account, in one transaction each.                         *)

\* Broken variant: the refresh tokens are left alone.
RevokeNone(u) == UNCHANGED tokens

RevokeAll(u) ==
  tokens' = [t \in DOMAIN tokens |->
               IF tokens[t].owner = u THEN [tokens[t] EXCEPT !.live = FALSE] ELSE tokens[t]]

\* The rows that a transaction of updateUserAdminFieldsSafely has locked.
RowLocks(r) == IF pc[r] = "change" THEN ActiveAdmins \cup {op[r].target} ELSE {}
Unlocked(r, us) == \A q \in Requests \ {r} : RowLocks(q) \cap us = {}

\* ResetPassword up to its transaction.
ResetPassword(r) ==
  /\ MayChange /\ changes' = changes + 1
  /\ Goto(r, "idle", "password")
  /\ \E u \in Registered :
       /\ users[u].status = "active"
       /\ op' = [op EXCEPT ![r] = [NoOp EXCEPT !.user = u, !.target = u]]
  /\ UNCHANGED <<users, tokens, access, cached>>

\* UpdateUserPasswordAndRevokeTokens.
UpdatePassword(r) ==
  /\ Goto(r, "password", "evict")
  /\ Unlocked(r, {op[r].target})
  /\ users' = [users EXCEPT ![op[r].target].version = @ + 1]
  /\ RevokeAll(op[r].target)
  /\ UNCHANGED <<access, cached, op, changes>>

\* Broken variant: the count of administrators is read without locking them.
LockTarget(r) ==
  /\ Goto(r, "admin", "change")
  /\ \E u \in Registered :
       op' = [op EXCEPT ![r].target = u, ![r].admins = Cardinality(ActiveAdmins)]
  /\ UNCHANGED <<users, tokens, access, cached, changes>>

\* SELECT ... FOR UPDATE of the active administrators, and of the target.
LockAdmins(r) ==
  /\ Goto(r, "admin", "change")
  /\ \E u \in Registered :
       /\ Unlocked(r, ActiveAdmins \cup {u})
       /\ op' = [op EXCEPT ![r].target = u, ![r].admins = Cardinality(ActiveAdmins)]
  /\ UNCHANGED <<users, tokens, access, cached, changes>>

\* Nobody takes away their own rights, nor those of the last active administrator.
Refused(r) ==
  \/ op[r].target = op[r].user
  \/ op[r].target \in ActiveAdmins /\ op[r].admins <= 1

Apply(r, row) ==
  /\ users' = [users EXCEPT ![op[r].target] = [row EXCEPT !.version = @ + 1]]
  /\ RevokeAll(op[r].target)
  /\ pc' = [pc EXCEPT ![r] = "evict"] /\ UNCHANGED op

UpdateUser(r) ==
  /\ pc[r] = "change"
  /\ LET row == users[op[r].target] IN
     \/ Apply(r, [row EXCEPT !.role = "admin"])
     \/ Apply(r, [row EXCEPT !.status = "active"])
     \/ ~Refused(r) /\ Apply(r, [row EXCEPT !.role = "user"])
     \/ ~Refused(r) /\ Apply(r, [row EXCEPT !.status = "disabled"])
     \/ Refused(r) /\ Leave(r) /\ UNCHANGED <<users, tokens>>
  /\ UNCHANGED <<access, cached, changes>>

\* EvictAuthUserCache, after the commit.
Evict(r) ==
  /\ pc[r] = "evict"
  /\ cached' = [cached EXCEPT ![op[r].target] = NoSnapshot]
  /\ Leave(r)
  /\ UNCHANGED <<users, tokens, access, changes>>

-----------------------------------------------------------------------------
(* The access check of every request.                                      *)

\* The version of the token against that of the user.
Authenticate(r) ==
  /\ Goto(r, "idle", "resolve")
  /\ \E a \in access :
       /\ a.version = users[a.user].version
       /\ op' = [op EXCEPT ![r] = [NoOp EXCEPT !.user = a.user]]
  /\ UNCHANGED <<users, tokens, access, cached, changes>>

\* What the request of an active account goes on to do: a change of its password
\* (ChangePassword), an administrator's change, or nothing told apart here.
Enter(r, snapshot) ==
  \/ Leave(r) /\ UNCHANGED changes
  \/ /\ snapshot.status = "active"
     /\ MayChange /\ changes' = changes + 1
     /\ \/ /\ pc' = [pc EXCEPT ![r] = "password"]
           /\ op' = [op EXCEPT ![r].target = op[r].user, ![r].snapshot = NoSnapshot]
        \/ /\ snapshot.role = "admin"
           /\ pc' = [pc EXCEPT ![r] = "admin"]
           /\ op' = [op EXCEPT ![r].snapshot = NoSnapshot]

ResolveCached(r) ==
  /\ pc[r] = "resolve"
  /\ cached[op[r].user] # NoSnapshot
  /\ Enter(r, cached[op[r].user])
  /\ UNCHANGED <<users, tokens, access, cached>>

ResolveMiss(r) ==
  /\ Goto(r, "resolve", "load")
  /\ cached[op[r].user] = NoSnapshot
  /\ UNCHANGED <<users, tokens, access, cached, op, changes>>

Load(r) ==
  /\ Goto(r, "load", "fill")
  /\ op' = [op EXCEPT ![r].snapshot = Snapshot(op[r].user)]
  /\ UNCHANGED <<users, tokens, access, cached, changes>>

Fill(r) ==
  /\ pc[r] = "fill"
  /\ cached' = [cached EXCEPT ![op[r].user] = op[r].snapshot]
  /\ Enter(r, op[r].snapshot)
  /\ UNCHANGED <<users, tokens, access>>

\* The entry's time to live of 30 seconds.
CacheExpires(u) ==
  /\ cached[u] # NoSnapshot
  /\ cached' = [cached EXCEPT ![u] = NoSnapshot]
  /\ UNCHANGED <<users, tokens, access, pc, op, changes>>

-----------------------------------------------------------------------------
\* A statement fails or the process dies: the transaction is rolled back.
Fail(r) ==
  /\ pc[r] # "idle"
  /\ Leave(r)
  /\ UNCHANGED <<users, tokens, access, cached, changes>>

Begin(r) ==
  \/ StartRegister(r) \/ Login(r) \/ FindToken(r) \/ ResetPassword(r) \/ Authenticate(r)
Step(r) ==
  \/ Create(r) \/ CheckUser(r) \/ Revoke(r) \/ ReadVersion(r) \/ Insert(r)
  \/ UpdatePassword(r) \/ LockAdmins(r) \/ UpdateUser(r) \/ Evict(r)
  \/ ResolveCached(r) \/ ResolveMiss(r) \/ Load(r) \/ Fill(r)

Next ==
  \/ \E r \in Requests : Begin(r) \/ Step(r) \/ Fail(r)
  \/ Logout
  \/ \E u \in Users : CacheExpires(u)

Spec == Init /\ [][Next]_vars

-----------------------------------------------------------------------------
\* However refreshes, logouts and changes of the account interleave, a refresh
\* token is exchanged for at most one new one (Refresh, RevokeRefreshToken).
RotationIsExclusive ==
  \A s, t \in DOMAIN tokens :
    tokens[s].parent = tokens[t].parent /\ tokens[t].parent # 0 => s = t

\* Whoever disables an account between the check of its status and the rotation of
\* its token stops the rotation (Refresh; updateUserAdminFieldsSafely).
RotationOnlyWhileActive ==
  [][\A r \in Requests :
       pc[r] = "revoke" /\ pc'[r] = "version" => users[op[r].user].status = "active"]_vars

\* A live session was opened with the credentials of today and has seen no change of
\* the account since, unless the very request that gave the token was overtaken by
\* the change (UpdateUserPasswordAndRevokeTokens, updateUserAdminFieldsSafely).
SessionsEndWithVersion ==
  \A t \in Live : tokens[t].late \/ tokens[t].seen = users[tokens[t].owner].version

\* As long as there are accounts there is an active administrator, whoever disables
\* or demotes whom at the same time (updateUserAdminFieldsSafely).
ActiveAdminRemains == Registered # {} => ActiveAdmins # {}

\* Registering makes an administrator of nobody but the first account, also when
\* several register into an empty site (WithUserRegistrationLock).
OnlyFirstIsAdmin ==
  [][\A u \in Users :
       users[u].role = "none" /\ users'[u].role = "admin" => Registered = {}]_vars
=============================================================================
