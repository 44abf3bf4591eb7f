------------------------- MODULE AuthSession_proofs -------------------------
(***************************************************************************)
(* Theorems about AuthSession, for any number of users, requests, tokens   *)
(* and changes.  The invariant IInv joins, beside the types, four parts:   *)
(* who may still register, who may still change an administrator, what a   *)
(* request that issues a token knows of it, and whose rotation it was.     *)
(***************************************************************************)
EXTENDS AuthSession, FiniteSetTheorems, SequenceTheorems, TLAPS

Roles     == {"none", "user", "admin"}
Statuses  == {"active", "disabled"}
Snapshots == [role : Roles, status : Statuses] \cup {NoSnapshot}
Rows      == [role : Roles, status : Statuses, version : Nat]
Issued    == [owner : Users, live : BOOLEAN, parent : Nat, seen : Nat, late : BOOLEAN]
Accesses  == [user : Users, version : Nat]
Someone   == Users \cup {NoUser}
Ops       == [user : Someone, target : Someone, token : Nat, seen : Nat, checked : Nat,
              late : BOOLEAN, version : Nat, snapshot : Snapshots, admins : Nat]
Pcs == {"idle", "create", "version", "insert", "user", "revoke", "password", "admin",
        "change", "evict", "resolve", "load", "fill"}

\* An operation under way is of a user, and a change is of a registered one.
Typed(r) ==
  /\ pc[r] # "idle" => op[r].user \in Users
  /\ pc[r] \in {"password", "evict"} => op[r].target \in Users
  /\ pc[r] = "change" => op[r].target \in Registered

TypeOK ==
  /\ users \in [Users -> Rows] /\ tokens \in Seq(Issued) /\ access \in SUBSET Accesses
  /\ cached \in [Users -> Snapshots]
  /\ pc \in [Requests -> Pcs] /\ op \in [Requests -> Ops] /\ changes \in Nat
  /\ IsFiniteSet(Registered)
  /\ \A r \in Requests : Typed(r)

\* What is registered under the lock is still what was decided under it.
RegisterInv ==
  /\ \A u \in Users \ Registered : users[u].status = "active"
  /\ \A r \in Requests : pc[r] = "create" =>
       op[r].snapshot.role = IF Registered = {} THEN "admin" ELSE "user"
  /\ \A r, q \in Requests : pc[r] = "create" /\ pc[q] = "create" => r = q

\* One transaction at a time has the administrators locked, and counted.
AdminInv ==
  /\ ActiveAdminRemains
  /\ \A r \in Requests : pc[r] = "change" => op[r].admins = Cardinality(ActiveAdmins)
  /\ \A r, q \in Requests : pc[r] = "change" /\ pc[q] = "change" => r = q

\* What a request knows of the token it was shown, and of the user's version.
IssueOf(r) ==
  /\ pc[r] \in {"user", "revoke"} =>
       /\ op[r].token \in DOMAIN tokens
       /\ LET t == tokens[op[r].token] IN
            /\ t.owner = op[r].user /\ t.seen = op[r].seen /\ t.late = op[r].late
            /\ pc[r] = "revoke" /\ t.live => users[t.owner].status = "active"
  /\ pc[r] \in {"create", "version", "insert"} => op[r].late \/ op[r].seen = op[r].checked
IssueInv == SessionsEndWithVersion /\ \A r \in Requests : IssueOf(r)

\* A token with a successor, under way or issued, is revoked.
Rotating(r) == pc[r] \in {"version", "insert"} /\ op[r].token # 0
RotationInv ==
  /\ RotationIsExclusive
  /\ \A t \in DOMAIN tokens : tokens[t].parent # 0 =>
       tokens[t].parent \in DOMAIN tokens /\ ~tokens[tokens[t].parent].live
  /\ \A r \in Requests : pc[r] = "create" => op[r].token = 0
  /\ \A r \in Requests : Rotating(r) =>
       /\ op[r].token \in DOMAIN tokens /\ ~tokens[op[r].token].live
       /\ \A t \in DOMAIN tokens : tokens[t].parent # op[r].token
  /\ \A r, q \in Requests : Rotating(r) /\ Rotating(q) /\ op[r].token = op[q].token => r = q

IInv == TypeOK /\ RegisterInv /\ AdminInv /\ IssueInv /\ RotationInv

-----------------------------------------------------------------------------
(* What a step of one request leaves alone.                                *)

\* The other requests stay where they are.
Others(r) == \A q \in Requests \ {r} : pc'[q] = pc[q] /\ op'[q] = op[q]

\* No token is issued or comes to life again.
FewerLive ==
  /\ DOMAIN tokens' = DOMAIN tokens
  /\ \A t \in DOMAIN tokens :
       /\ tokens'[t].owner = tokens[t].owner /\ tokens'[t].parent = tokens[t].parent
       /\ tokens'[t].seen = tokens[t].seen /\ tokens'[t].late = tokens[t].late
       /\ tokens'[t].live => tokens[t].live

\* Nothing depends on where the request goes.
Quiet == {"idle", "password", "admin", "evict", "resolve", "load", "fill"}

LEMMA Moves ==
  ASSUME pc \in [Requests -> Pcs], op \in [Requests -> Ops], NEW r \in Requests, NEW p, NEW o,
         pc' = [pc EXCEPT ![r] = p], op' = [op EXCEPT ![r] = o]
  PROVE  pc'[r] = p /\ op'[r] = o /\ Others(r)
BY DEF Others

LEMMA RegisterKept ==
  ASSUME RegisterInv, NEW r \in Requests, Others(r), Registered' = Registered,
         \A u \in Users \ Registered : users'[u].status = users[u].status,
         pc'[r] = "create" =>
           /\ op'[r].snapshot.role = IF Registered = {} THEN "admin" ELSE "user"
           /\ \A q \in Requests \ {r} : pc[q] # "create"
  PROVE  RegisterInv'
BY DEF RegisterInv, Others

LEMMA AdminKept ==
  ASSUME AdminInv, NEW r \in Requests, Others(r), Registered' = Registered,
         ActiveAdmins' = ActiveAdmins,
         pc'[r] = "change" =>
           /\ op'[r].admins = Cardinality(ActiveAdmins)
           /\ \A q \in Requests \ {r} : pc[q] # "change"
  PROVE  AdminInv'
BY DEF AdminInv, ActiveAdminRemains, Others

LEMMA IssueKept ==
  ASSUME TypeOK, IssueInv, NEW r \in Requests, Others(r), FewerLive,
         \A t \in DOMAIN tokens : tokens'[t].live =>
           /\ users'[tokens[t].owner].status = users[tokens[t].owner].status
           /\ users'[tokens[t].owner].version = users[tokens[t].owner].version,
         IssueOf(r)'
  PROVE  IssueInv'
<1>1. SessionsEndWithVersion'
  BY DEF IssueInv, SessionsEndWithVersion, Live, FewerLive
<1>2. ASSUME NEW q \in Requests \ {r}
      PROVE  IssueOf(q)'
  BY DEF IssueInv, IssueOf, Others, FewerLive
<1> QED
  BY <1>1, <1>2 DEF IssueInv

LEMMA RotationKept ==
  ASSUME TypeOK, RotationInv, NEW r \in Requests, Others(r), FewerLive,
         pc'[r] = "create" => op'[r].token = 0,
         Rotating(r)' =>
           /\ op'[r].token \in DOMAIN tokens /\ ~tokens'[op'[r].token].live
           /\ \A t \in DOMAIN tokens : tokens[t].parent # op'[r].token
           /\ \A q \in Requests \ {r} : Rotating(q) => op[q].token # op'[r].token
  PROVE  RotationInv'
<1>1. \A q \in Requests \ {r} : Rotating(q)' <=> Rotating(q)
  BY DEF Rotating, Others
<1>2. RotationIsExclusive'
  BY DEF RotationInv, RotationIsExclusive, FewerLive
<1>3. \A t \in DOMAIN tokens' : tokens'[t].parent # 0 =>
        tokens'[t].parent \in DOMAIN tokens' /\ ~tokens'[tokens'[t].parent].live
  BY DEF RotationInv, FewerLive
<1>4. \A q \in Requests : Rotating(q)' =>
        /\ op'[q].token \in DOMAIN tokens' /\ ~tokens'[op'[q].token].live
        /\ \A t \in DOMAIN tokens' : tokens'[t].parent # op'[q].token
  BY <1>1 DEF RotationInv, FewerLive, Others
<1>5. \A p, q \in Requests : Rotating(p)' /\ Rotating(q)' /\ op'[p].token = op'[q].token => p = q
  BY <1>1 DEF RotationInv, Others
<1>6. \A q \in Requests : pc'[q] = "create" => op'[q].token = 0
  BY DEF RotationInv, Others
<1> QED
  BY <1>2, <1>3, <1>4, <1>5, <1>6 DEF RotationInv

\* A request that goes where nothing depends on, in a step that revokes at most.
LEMMA QuietKept ==
  ASSUME IInv, NEW r \in Requests, Others(r), FewerLive, UNCHANGED users, pc'[r] \in Quiet
  PROVE  RegisterInv' /\ AdminInv' /\ IssueInv' /\ RotationInv'
<1> USE DEF IInv
<1>1. Registered' = Registered /\ ActiveAdmins' = ActiveAdmins
  BY DEF Registered, ActiveAdmins
<1>2. RegisterInv'
  BY <1>1, RegisterKept DEF Quiet
<1>3. AdminInv'
  BY <1>1, AdminKept DEF Quiet
<1>4. IssueOf(r)'
  BY DEF IssueOf, Quiet
<1>5. IssueInv'
  BY <1>4, IssueKept
<1>6. ~Rotating(r)'
  BY DEF Rotating, Quiet
<1>7. RotationInv'
  BY <1>6, RotationKept DEF Quiet
<1> QED
  BY <1>2, <1>3, <1>5, <1>7

\* The types, when one request moves on and no account is taken away.
LEMMA TypeKept ==
  ASSUME TypeOK, NEW r \in Requests, NEW p \in Pcs, NEW o \in Ops,
         pc' = [pc EXCEPT ![r] = p], op' = [op EXCEPT ![r] = o], UNCHANGED users,
         p # "idle" => o.user \in Users,
         p \in {"password", "evict"} => o.target \in Users,
         p = "change" => o.target \in Registered
  PROVE  /\ users' \in [Users -> Rows] /\ pc' \in [Requests -> Pcs] /\ op' \in [Requests -> Ops]
         /\ IsFiniteSet(Registered') /\ \A q \in Requests : Typed(q)'
<1>1. Registered' = Registered
  BY DEF Registered
<1>2. Typed(r)'
  BY <1>1 DEF Typed, TypeOK
<1>3. ASSUME NEW q \in Requests \ {r}
      PROVE  Typed(q)'
  BY <1>1 DEF Typed, TypeOK
<1> QED
  BY <1>1, <1>2, <1>3 DEF TypeOK

LEMMA NothingRead == NoOp \in Ops /\ NoOp.token = 0 /\ ~NoOp.late /\ NoOp.seen = NoOp.checked
BY DEF NoOp, Ops, Someone, Snapshots

\* The request is answered, without a change of any account.
LEMMA LeaveInv ==
  ASSUME IInv, NEW r \in Requests, Leave(r), FewerLive, UNCHANGED users,
         tokens' \in Seq(Issued), access' \in SUBSET Accesses,
         cached' \in [Users -> Snapshots], changes' \in Nat
  PROVE  IInv'
<1> USE DEF IInv
<1>1. pc' = [pc EXCEPT ![r] = "idle"] /\ op' = [op EXCEPT ![r] = NoOp]
  BY DEF Leave
<1>2. pc'[r] = "idle" /\ Others(r)
  BY <1>1, Moves DEF TypeOK
<1>3. TypeOK'
  BY <1>1, TypeKept, NothingRead DEF TypeOK, Pcs
<1> QED
  BY <1>2, <1>3, QuietKept DEF Quiet

\* Otherwise, for where it goes (p) and what it has read (o):
LEMMA StepInv ==
  ASSUME IInv, NEW r \in Requests, NEW p \in Pcs, NEW o \in Ops,
         pc' = [pc EXCEPT ![r] = p], op' = [op EXCEPT ![r] = o],
         FewerLive, tokens' \in Seq(Issued), UNCHANGED <<users, access>>,
         cached' \in [Users -> Snapshots], changes' \in Nat,
         p # "idle" => o.user \in Users,
         p \in {"password", "evict"} => o.target \in Users,
         p = "change" => /\ o.target \in Registered /\ o.admins = Cardinality(ActiveAdmins)
                         /\ \A q \in Requests \ {r} : pc[q] # "change",
         p = "create" => /\ o.snapshot.role = IF Registered = {} THEN "admin" ELSE "user"
                         /\ o.token = 0 /\ \A q \in Requests \ {r} : pc[q] # "create",
         IssueOf(r)',
         p \in {"version", "insert"} /\ o.token # 0 =>
           /\ o.token \in DOMAIN tokens /\ ~tokens'[o.token].live
           /\ \A t \in DOMAIN tokens : tokens[t].parent # o.token
           /\ \A q \in Requests \ {r} : Rotating(q) => op[q].token # o.token
  PROVE  IInv'
<1> USE DEF IInv
<1>1. pc'[r] = p /\ op'[r] = o /\ Others(r)
  BY Moves DEF TypeOK
<1>2. TypeOK'
  BY TypeKept DEF TypeOK
<1>3. Registered' = Registered /\ ActiveAdmins' = ActiveAdmins
  BY DEF Registered, ActiveAdmins
<1>4. RegisterInv'
  BY <1>1, <1>3, RegisterKept
<1>5. AdminInv'
  BY <1>1, <1>3, AdminKept
<1>6. IssueInv'
  BY <1>1, IssueKept
<1>7. RotationInv'
  BY <1>1, RotationKept DEF Rotating
<1> QED
  BY <1>2, <1>4, <1>5, <1>6, <1>7

LEMMA Same ==
  ASSUME IInv, UNCHANGED tokens
  PROVE  FewerLive /\ tokens' \in Seq(Issued)
BY DEF FewerLive, IInv, TypeOK

-----------------------------------------------------------------------------
(* Register, Login and Refresh.                                            *)

\* Without accounts, tokens and requests there is nothing to hold.
LEMMA InitInv == Init => IInv
<1> SUFFICES ASSUME Init PROVE IInv
  OBVIOUS
<1>1. Registered = {}
  BY DEF Init, Registered
<1>2. TypeOK
  <2>1. users \in [Users -> Rows] /\ cached \in [Users -> Snapshots]
    BY DEF Init, Rows, Roles, Statuses, Snapshots
  <2>2. tokens \in Seq(Issued) /\ access \in SUBSET Accesses /\ changes \in Nat
    BY DEF Init
  <2>3. pc \in [Requests -> Pcs] /\ op \in [Requests -> Ops]
    BY NothingRead DEF Init, Pcs
  <2>4. \A r \in Requests : Typed(r)
    BY DEF Init, Typed
  <2> QED
    BY <1>1, <2>1, <2>2, <2>3, <2>4, FS_EmptySet DEF TypeOK
<1>3. RegisterInv /\ AdminInv
  BY <1>1 DEF Init, RegisterInv, AdminInv, ActiveAdminRemains
<1>4. IssueInv
  BY DEF Init, IssueInv, IssueOf, SessionsEndWithVersion, Live
<1>5. RotationInv
  BY DEF Init, RotationInv, RotationIsExclusive, Rotating
<1> QED
  BY <1>2, <1>3, <1>4, <1>5 DEF IInv

LEMMA StartRegisterInv ==
  ASSUME IInv, NEW r \in Requests, StartRegister(r)
  PROVE  IInv'
<1> DEFINE O(u) == [NoOp EXCEPT !.user = u,
                      !.snapshot = [role |-> IF Registered = {} THEN "admin" ELSE "user",
                                    status |-> "active"]]
<1>1. PICK u \in Users : op' = [op EXCEPT ![r] = O(u)]
  BY DEF StartRegister
<1>2. /\ pc' = [pc EXCEPT ![r] = "create"] /\ UNCHANGED <<users, tokens, access, cached, changes>>
      /\ \A q \in Requests : pc[q] # "create"
  BY DEF StartRegister, Goto
<1>3. /\ O(u) \in Ops /\ O(u).user = u /\ O(u).token = 0 /\ O(u).seen = O(u).checked
      /\ O(u).snapshot.role = IF Registered = {} THEN "admin" ELSE "user"
  BY DEF Ops, NoOp, Someone, Snapshots, Roles, Statuses
<1> HIDE DEF O
<1>4. pc'[r] = "create" /\ op'[r] = O(u)
  BY <1>1, <1>2, Moves DEF IInv, TypeOK
<1>5. IssueOf(r)'
  BY <1>3, <1>4 DEF IssueOf
<1> QED
  BY <1>1, <1>2, <1>3, <1>5, Same, StepInv DEF Pcs, IInv, TypeOK

LEMMA LoginInv ==
  ASSUME IInv, NEW r \in Requests, Login(r)
  PROVE  IInv'
<1> DEFINE O(u) == [NoOp EXCEPT !.user = u, !.seen = users[u].version, !.checked = users[u].version]
<1>1. PICK u \in Users : op' = [op EXCEPT ![r] = O(u)]
  BY DEF Login, Registered
<1>2. pc' = [pc EXCEPT ![r] = "version"] /\ UNCHANGED <<users, tokens, access, cached, changes>>
  BY DEF Login, Goto
<1>3. O(u) \in Ops /\ O(u).user = u /\ O(u).token = 0 /\ O(u).seen = O(u).checked
  BY DEF IInv, TypeOK, Rows, Ops, NoOp, Someone, Snapshots
<1> HIDE DEF O
<1>4. pc'[r] = "version" /\ op'[r] = O(u)
  BY <1>1, <1>2, Moves DEF IInv, TypeOK
<1>5. IssueOf(r)'
  BY <1>3, <1>4 DEF IssueOf
<1> QED
  BY <1>1, <1>2, <1>3, <1>5, Same, StepInv DEF Pcs, IInv, TypeOK

LEMMA FindTokenInv ==
  ASSUME IInv, NEW r \in Requests, FindToken(r)
  PROVE  IInv'
<1> DEFINE O(t) == [NoOp EXCEPT !.user = tokens[t].owner, !.token = t,
                      !.seen = tokens[t].seen, !.late = tokens[t].late]
<1>1. PICK t \in DOMAIN tokens : op' = [op EXCEPT ![r] = O(t)]
  BY DEF FindToken, Live
<1>2. pc' = [pc EXCEPT ![r] = "user"] /\ UNCHANGED <<users, tokens, access, cached, changes>>
  BY DEF FindToken, Goto
<1>3. tokens[t] \in Issued /\ t \in Nat
  BY ElementOfSeq, LenProperties DEF IInv, TypeOK
<1>4. /\ O(t) \in Ops /\ O(t).user = tokens[t].owner /\ O(t).user \in Users /\ O(t).token = t
      /\ O(t).seen = tokens[t].seen /\ O(t).late = tokens[t].late
  BY <1>3 DEF Issued, Ops, NoOp, Someone, Snapshots
<1> HIDE DEF O
<1>5. pc'[r] = "user" /\ op'[r] = O(t)
  BY <1>1, <1>2, Moves DEF IInv, TypeOK
<1>6. IssueOf(r)'
  BY <1>2, <1>4, <1>5 DEF IssueOf
<1> QED
  BY <1>1, <1>2, <1>4, <1>6, Same, StepInv DEF Pcs, IInv, TypeOK

\* What has been issued stays issued when one token is revoked.
LEMMA OneRevoked ==
  ASSUME IInv, NEW t \in DOMAIN tokens, tokens' = [tokens EXCEPT ![t].live = FALSE]
  PROVE  FewerLive /\ tokens' \in Seq(Issued) /\ ~tokens'[t].live
<1>1. tokens \in Seq(Issued) /\ DOMAIN tokens = 1 .. Len(tokens)
  BY LenProperties DEF IInv, TypeOK
<1>2. \A i \in DOMAIN tokens : tokens[i] \in Issued
  BY <1>1, ElementOfSeq
<1>3. [tokens[t] EXCEPT !.live = FALSE] \in Issued
  BY <1>2 DEF Issued
<1>4. tokens' \in Seq(Issued)
  BY <1>1, <1>3, ExceptSeq
<1>5. tokens'[t] = [tokens[t] EXCEPT !.live = FALSE]
  BY <1>1
<1>6. ~tokens'[t].live
  BY <1>2, <1>5 DEF Issued
<1>7. DOMAIN tokens' = DOMAIN tokens /\ \A i \in DOMAIN tokens : i # t => tokens'[i] = tokens[i]
  BY <1>1
<1>8. FewerLive
  BY <1>2, <1>5, <1>6, <1>7 DEF FewerLive, Issued
<1> QED
  BY <1>4, <1>6, <1>8

LEMMA CheckUserInv ==
  ASSUME IInv, NEW r \in Requests, CheckUser(r)
  PROVE  IInv'
<1> DEFINE t == op[r].token
<1>1. pc[r] = "user" /\ UNCHANGED <<users, access, cached, changes>>
  BY DEF CheckUser
<1>2. /\ t \in DOMAIN tokens /\ tokens[t].owner = op[r].user
      /\ tokens[t].seen = op[r].seen /\ tokens[t].late = op[r].late
  BY <1>1 DEF IInv, IssueInv, IssueOf
<1>3. CASE users[op[r].user].status # "active"
  <2>1. tokens' = [tokens EXCEPT ![t].live = FALSE] /\ Leave(r)
    BY <1>3 DEF CheckUser
  <2>2. FewerLive /\ tokens' \in Seq(Issued)
    BY <1>2, <2>1, OneRevoked
  <2> QED
    BY <1>1, <2>1, <2>2, LeaveInv DEF IInv, TypeOK
<1>4. CASE users[op[r].user].status = "active"
  <2>1. pc' = [pc EXCEPT ![r] = "revoke"] /\ UNCHANGED <<tokens, op>>
    BY <1>4 DEF CheckUser
  <2>2. op' = [op EXCEPT ![r] = op[r]] /\ op[r] \in Ops /\ op[r].user \in Users
    BY <1>1, <2>1 DEF IInv, TypeOK, Typed
  <2>3. pc'[r] = "revoke" /\ op'[r] = op[r]
    BY <2>1, <2>2 DEF IInv, TypeOK
  <2>4. IssueOf(r)'
    BY <1>1, <1>2, <1>4, <2>1, <2>3 DEF IssueOf
  <2> QED
    BY <1>1, <2>1, <2>2, <2>4, Same, StepInv DEF Pcs, IInv, TypeOK
<1> QED
  BY <1>3, <1>4

LEMMA RevokeInv ==
  ASSUME IInv, NEW r \in Requests, Revoke(r)
  PROVE  IInv'
<1> DEFINE t == op[r].token
           o == [op[r] EXCEPT !.checked = users[op[r].user].version]
<1>1. pc[r] = "revoke" /\ UNCHANGED <<users, access, cached, changes>>
  BY DEF Revoke
<1>2. /\ t \in DOMAIN tokens /\ tokens[t].owner = op[r].user
      /\ tokens[t].seen = op[r].seen /\ tokens[t].late = op[r].late
  BY <1>1 DEF IInv, IssueInv, IssueOf
<1>3. op[r] \in Ops /\ op[r].user \in Users
  BY <1>1 DEF IInv, TypeOK, Typed
<1>4. CASE ~tokens[t].live
  BY <1>1, <1>4, LeaveInv, Same DEF Revoke, IInv, TypeOK
<1>5. CASE tokens[t].live
  <2>1. /\ tokens' = [tokens EXCEPT ![t].live = FALSE]
        /\ op' = [op EXCEPT ![r] = o] /\ pc' = [pc EXCEPT ![r] = "version"]
    BY <1>5 DEF Revoke
  <2>2. FewerLive /\ tokens' \in Seq(Issued) /\ ~tokens'[t].live
    BY <1>2, <2>1, OneRevoked
  <2>3. /\ o \in Ops /\ o.user = op[r].user /\ o.token = t /\ o.seen = op[r].seen
        /\ o.late = op[r].late /\ o.checked = users[op[r].user].version
    BY <1>3 DEF IInv, TypeOK, Rows, Ops
  <2>4. o.late \/ o.seen = o.checked
    BY <1>2, <1>5, <2>3 DEF IInv, IssueInv, SessionsEndWithVersion, Live
  <2> HIDE DEF o
  <2>5. pc'[r] = "version" /\ op'[r] = o
    BY <2>1, Moves DEF IInv, TypeOK
  <2>6. IssueOf(r)'
    BY <2>4, <2>5 DEF IssueOf
  <2>7. t # 0 => /\ \A i \in DOMAIN tokens : tokens[i].parent # t
                 /\ \A q \in Requests : Rotating(q) => op[q].token # t
    BY <1>2, <1>5 DEF IInv, RotationInv
  <2> QED
    BY <1>1, <1>2, <1>3, <2>1, <2>2, <2>3, <2>6, <2>7, StepInv DEF Pcs, IInv, TypeOK
<1> QED
  BY <1>4, <1>5

LEMMA ReadVersionInv ==
  ASSUME IInv, NEW r \in Requests, ReadVersion(r)
  PROVE  IInv'
<1> DEFINE o == [op[r] EXCEPT !.version = users[op[r].user].version]
<1>1. /\ pc[r] = "version" /\ pc' = [pc EXCEPT ![r] = "insert"] /\ op' = [op EXCEPT ![r] = o]
      /\ UNCHANGED <<users, tokens, access, cached, changes>>
  BY DEF ReadVersion, Goto
<1>2. op[r] \in Ops /\ op[r].user \in Users
  BY <1>1 DEF IInv, TypeOK, Typed
<1>3. /\ o \in Ops /\ o.user = op[r].user /\ o.token = op[r].token /\ o.seen = op[r].seen
      /\ o.late = op[r].late /\ o.checked = op[r].checked
  BY <1>2 DEF IInv, TypeOK, Rows, Ops
<1> HIDE DEF o
<1>4. pc'[r] = "insert" /\ op'[r] = o
  BY <1>1, Moves DEF IInv, TypeOK
<1>5. IssueOf(r)'
  BY <1>1, <1>3, <1>4 DEF IInv, IssueInv, IssueOf
<1>6. o.token # 0 => /\ o.token \in DOMAIN tokens /\ ~tokens[o.token].live
                     /\ \A t \in DOMAIN tokens : tokens[t].parent # o.token
                     /\ \A q \in Requests \ {r} : Rotating(q) => op[q].token # o.token
  BY <1>1, <1>3 DEF IInv, RotationInv, Rotating
<1> QED
  BY <1>1, <1>2, <1>3, <1>5, <1>6, Same, StepInv DEF Pcs, IInv, TypeOK

LEMMA InsertInv ==
  ASSUME IInv, NEW r \in Requests, Insert(r)
  PROVE  IInv'
<1> USE DEF IInv
<1> DEFINE u == op[r].user
           n == Len(tokens) + 1
           row == [owner |-> u, live |-> TRUE, parent |-> op[r].token, seen |-> op[r].seen,
                   late |-> op[r].late \/ op[r].checked # users[u].version]
<1>1. /\ pc[r] = "insert" /\ tokens' = Append(tokens, row)
      /\ access' = access \cup {[user |-> u, version |-> op[r].version]}
      /\ Leave(r) /\ UNCHANGED <<users, cached, changes>>
  BY DEF Insert
<1>2. op[r] \in Ops /\ u \in Users
  BY <1>1 DEF TypeOK, Typed
<1>3. /\ tokens \in Seq(Issued) /\ Len(tokens) \in Nat /\ DOMAIN tokens = 1 .. Len(tokens)
      /\ row \in Issued
  BY <1>2, LenProperties DEF TypeOK, Ops, Issued
<1>4. /\ tokens' \in Seq(Issued) /\ DOMAIN tokens' = 1 .. n /\ tokens'[n] = row
      /\ \A t \in DOMAIN tokens : tokens'[t] = tokens[t]
  <2>1. tokens' \in Seq(Issued) /\ Len(tokens') = n /\ tokens'[n] = row
    BY <1>1, <1>3, AppendProperties
  <2>2. \A t \in 1 .. Len(tokens) : tokens'[t] = tokens[t]
    BY <1>1, <1>3, AppendProperties
  <2> QED
    BY <1>3, <2>1, <2>2, LenProperties
<1>5. n \notin DOMAIN tokens /\ DOMAIN tokens' = DOMAIN tokens \cup {n}
  BY <1>3, <1>4
<1>6. pc' = [pc EXCEPT ![r] = "idle"] /\ op' = [op EXCEPT ![r] = NoOp]
  BY <1>1 DEF Leave
<1>7. pc'[r] = "idle" /\ op'[r] = NoOp /\ Others(r)
  BY <1>6, Moves DEF TypeOK
<1>8. Registered' = Registered /\ ActiveAdmins' = ActiveAdmins
  BY <1>1 DEF Registered, ActiveAdmins
<1>9. TypeOK'
  <2>1. [user |-> u, version |-> op[r].version] \in Accesses
    BY <1>2 DEF Ops, Accesses
  <2> QED
    BY <1>1, <1>4, <1>6, <2>1, TypeKept, NothingRead DEF TypeOK, Pcs
<1>10. RegisterInv' /\ AdminInv'
  BY <1>1, <1>7, <1>8, RegisterKept, AdminKept
<1>11. IssueInv'
  <2>1. row.late \/ row.seen = users[row.owner].version
    BY <1>1 DEF IssueInv, IssueOf
  <2>2. SessionsEndWithVersion'
    BY <1>1, <1>4, <1>5, <2>1 DEF IssueInv, SessionsEndWithVersion, Live
  <2>3. IssueOf(r)'
    BY <1>7 DEF IssueOf
  <2>4. ASSUME NEW q \in Requests \ {r} PROVE IssueOf(q)'
    BY <1>1, <1>4, <1>5, <1>7 DEF IssueInv, IssueOf, Others
  <2> QED
    BY <2>2, <2>3, <2>4 DEF IssueInv
<1>12. RotationInv'
  <2>1. /\ tokens'[n].parent = op[r].token
        /\ op[r].token # 0 =>
             /\ op[r].token \in DOMAIN tokens /\ ~tokens[op[r].token].live
             /\ \A t \in DOMAIN tokens : tokens[t].parent # op[r].token
    BY <1>1, <1>4 DEF RotationInv, Rotating
  <2>2. \A q \in Requests \ {r} : Rotating(q)' <=> Rotating(q)
    BY <1>7 DEF Rotating, Others
  <2>3. ~Rotating(r)'
    BY <1>7 DEF Rotating
  <2>4. \A q \in Requests \ {r} : Rotating(q) => op[q].token # op[r].token
    BY <1>1 DEF RotationInv, Rotating
  <2> HIDE DEF row, n
  <2>5. RotationIsExclusive'
    BY <1>4, <1>5, <2>1 DEF RotationInv, RotationIsExclusive
  <2>6. \A t \in DOMAIN tokens' : tokens'[t].parent # 0 =>
          tokens'[t].parent \in DOMAIN tokens' /\ ~tokens'[tokens'[t].parent].live
    BY <1>4, <1>5, <2>1 DEF RotationInv
  <2>7. ASSUME NEW q \in Requests, Rotating(q)'
        PROVE  /\ op'[q].token \in DOMAIN tokens' /\ ~tokens'[op'[q].token].live
               /\ \A t \in DOMAIN tokens' : tokens'[t].parent # op'[q].token
    <3>1. q # r /\ Rotating(q) /\ op'[q] = op[q]
      BY <1>7, <2>2, <2>3, <2>7 DEF Others
    <3>2. /\ op[q].token \in DOMAIN tokens /\ ~tokens[op[q].token].live
          /\ \A t \in DOMAIN tokens : tokens[t].parent # op[q].token
      BY <3>1 DEF RotationInv
    <3>3. op[q].token # tokens'[n].parent
      BY <2>1, <2>4, <3>1
    <3> QED
      BY <1>4, <1>5, <3>1, <3>2, <3>3
  <2>8. \A p, q \in Requests : Rotating(p)' /\ Rotating(q)' /\ op'[p].token = op'[q].token => p = q
    BY <1>7, <2>2, <2>3 DEF RotationInv, Others
  <2>9. \A q \in Requests : pc'[q] = "create" => op'[q].token = 0
    BY <1>7 DEF RotationInv, Others
  <2> QED
    BY <2>5, <2>6, <2>7, <2>8, <2>9 DEF RotationInv
<1> QED
  BY <1>9, <1>10, <1>11, <1>12

LEMMA CreateInv ==
  ASSUME IInv, NEW r \in Requests, Create(r)
  PROVE  IInv'
<1> USE DEF IInv
<1> DEFINE u == op[r].user
           o == [op[r] EXCEPT !.snapshot = NoSnapshot]
           role == IF Registered = {} THEN "admin" ELSE "user"
<1>1. /\ pc[r] = "create" /\ pc' = [pc EXCEPT ![r] = "version"] /\ op' = [op EXCEPT ![r] = o]
      /\ u \notin Registered /\ UNCHANGED <<tokens, access, cached, changes>>
  BY DEF Create, Goto
<1>2. users' = [users EXCEPT ![u].role = role]
  BY <1>1 DEF Create, RegisterInv
<1>3. op[r] \in Ops /\ u \in Users
  BY <1>1 DEF TypeOK, Typed
<1>4. /\ o \in Ops /\ o.user = u /\ o.token = op[r].token /\ o.late = op[r].late
      /\ o.seen = op[r].seen /\ o.checked = op[r].checked
  BY <1>3 DEF Ops, Snapshots
<1> HIDE DEF o
<1>5. pc'[r] = "version" /\ op'[r] = o /\ Others(r)
  BY <1>1, Moves DEF TypeOK
<1>6. /\ users' \in [Users -> Rows] /\ users'[u].role = role /\ users[u].status = "active"
      /\ \A v \in Users : /\ v # u => users'[v] = users[v]
                          /\ users'[v].status = users[v].status
                          /\ users'[v].version = users[v].version
  BY <1>1, <1>2, <1>3 DEF TypeOK, Rows, Roles, RegisterInv
<1>7. Registered' = Registered \cup {u}
  BY <1>3, <1>6 DEF Registered
<1>8. TypeOK'
  <2>1. IsFiniteSet(Registered')
    BY <1>7, FS_AddElement DEF TypeOK
  <2>2. Typed(r)'
    BY <1>3, <1>4, <1>5 DEF Typed
  <2>3. ASSUME NEW q \in Requests \ {r} PROVE Typed(q)'
    BY <1>5, <1>7 DEF TypeOK, Typed, Others
  <2>4. pc' \in [Requests -> Pcs] /\ op' \in [Requests -> Ops]
    BY <1>1, <1>4 DEF TypeOK, Pcs
  <2> QED
    BY <1>1, <1>6, <2>1, <2>2, <2>3, <2>4 DEF TypeOK
<1>9. RegisterInv'
  <2>1. \A q \in Requests : pc'[q] # "create"
    BY <1>1, <1>5 DEF RegisterInv, Others
  <2>2. \A v \in Users \ Registered' : users'[v].status = "active"
    BY <1>6, <1>7 DEF RegisterInv
  <2> QED
    BY <2>1, <2>2 DEF RegisterInv
<1>10. AdminInv'
  <2>1. CASE Registered = {}
    <3>1. u \in ActiveAdmins'
      BY <1>3, <1>6, <2>1 DEF ActiveAdmins
    <3>2. \A q \in Requests : pc'[q] # "change"
      BY <1>5, <2>1 DEF TypeOK, Typed, Others
    <3> QED
      BY <3>1, <3>2 DEF AdminInv, ActiveAdminRemains
  <2>2. CASE Registered # {}
    <3>1. ActiveAdmins' = ActiveAdmins
      BY <1>1, <1>3, <1>6, <2>2 DEF ActiveAdmins, Registered
    <3>2. \A q \in Requests : pc'[q] = "change" => pc[q] = "change" /\ op'[q] = op[q]
      BY <1>5 DEF Others
    <3> QED
      BY <2>2, <3>1, <3>2 DEF AdminInv, ActiveAdminRemains
  <2> QED
    BY <2>1, <2>2
<1>11. IssueInv'
  <2>1. IssueOf(r)'
    BY <1>1, <1>4, <1>5 DEF IssueInv, IssueOf
  <2>2. \A t \in DOMAIN tokens : tokens[t] \in Issued
    BY ElementOfSeq, LenProperties DEF TypeOK
  <2>3. \A t \in DOMAIN tokens : tokens[t].owner \in Users
    BY <2>2 DEF Issued
  <2> QED
    BY <1>1, <1>5, <1>6, <2>1, <2>3, Same, IssueKept
<1>12. RotationInv'
  BY <1>1, <1>4, <1>5, Same, RotationKept DEF RotationInv, Rotating
<1> QED
  BY <1>8, <1>9, <1>10, <1>11, <1>12

LEMMA LogoutInv ==
  ASSUME IInv, Logout
  PROVE  IInv'
<1> USE DEF IInv
<1>1. /\ UNCHANGED <<users, access, cached, pc, op, changes>>
      /\ FewerLive /\ tokens' \in Seq(Issued)
  BY OneRevoked DEF Logout, Live
<1>2. Registered' = Registered /\ ActiveAdmins' = ActiveAdmins
  BY <1>1 DEF Registered, ActiveAdmins
<1>3. TypeOK'
  BY <1>1, <1>2 DEF TypeOK, Typed
<1>4. RegisterInv' /\ AdminInv'
  BY <1>1, <1>2 DEF RegisterInv, AdminInv, ActiveAdminRemains
<1>5. IssueInv'
  BY <1>1 DEF IssueInv, IssueOf, SessionsEndWithVersion, Live, FewerLive
<1>6. \A r \in Requests : Rotating(r)' <=> Rotating(r)
  BY <1>1 DEF Rotating
<1>7. RotationInv'
  BY <1>1, <1>6 DEF RotationInv, RotationIsExclusive, FewerLive
<1> QED
  BY <1>3, <1>4, <1>5, <1>7

-----------------------------------------------------------------------------
(* Changes of an account.                                                  *)

LEMMA AllRevoked ==
  ASSUME IInv, NEW u \in Users, RevokeAll(u)
  PROVE  /\ FewerLive /\ tokens' \in Seq(Issued)
         /\ \A t \in DOMAIN tokens : tokens'[t].live => tokens[t].owner # u
<1>1. DOMAIN tokens = 1 .. Len(tokens) /\ Len(tokens) \in Nat
  BY LenProperties DEF IInv, TypeOK
<1>2. \A t \in DOMAIN tokens : tokens[t] \in Issued
  BY ElementOfSeq, LenProperties DEF IInv, TypeOK
<1>3. /\ DOMAIN tokens' = DOMAIN tokens
      /\ \A t \in DOMAIN tokens :
           tokens'[t] = IF tokens[t].owner = u THEN [tokens[t] EXCEPT !.live = FALSE] ELSE tokens[t]
  BY DEF RevokeAll
<1>4. \A t \in DOMAIN tokens :
        /\ tokens'[t] \in Issued
        /\ tokens[t].owner = u => tokens'[t] = [tokens[t] EXCEPT !.live = FALSE]
        /\ tokens[t].owner # u => tokens'[t] = tokens[t]
  BY <1>2, <1>3 DEF Issued
<1>5. tokens' \in [1 .. Len(tokens) -> Issued]
  BY <1>1, <1>4 DEF RevokeAll
<1>6. tokens' \in Seq(Issued)
  BY <1>1, <1>5
<1> QED
  BY <1>2, <1>3, <1>4, <1>6 DEF FewerLive, Issued

LEMMA UpdatePasswordInv ==
  ASSUME IInv, NEW r \in Requests, UpdatePassword(r)
  PROVE  IInv'
<1> USE DEF IInv
<1> DEFINE u == op[r].target
<1>1. /\ pc[r] = "password" /\ pc' = [pc EXCEPT ![r] = "evict"]
      /\ users' = [users EXCEPT ![u].version = @ + 1] /\ RevokeAll(u)
      /\ UNCHANGED <<access, cached, op, changes>>
  BY DEF UpdatePassword, Goto
<1>2. u \in Users /\ op[r].user \in Users
  BY <1>1 DEF TypeOK, Typed
<1>3. FewerLive /\ tokens' \in Seq(Issued) /\ \A t \in DOMAIN tokens : tokens'[t].live => tokens[t].owner # u
  BY <1>1, <1>2, AllRevoked
<1>4. /\ users' \in [Users -> Rows]
      /\ \A v \in Users : /\ v # u => users'[v] = users[v]
                          /\ users'[v].role = users[v].role /\ users'[v].status = users[v].status
  <2> DEFINE new == [users[u] EXCEPT !.version = @ + 1]
  <2>1. new \in Rows /\ new.role = users[u].role /\ new.status = users[u].status
    BY <1>2 DEF TypeOK, Rows
  <2>2. users' = [users EXCEPT ![u] = new]
    BY <1>1
  <2> HIDE DEF new
  <2> QED
    BY <1>2, <2>1, <2>2 DEF TypeOK
<1>5. Registered' = Registered /\ ActiveAdmins' = ActiveAdmins
  BY <1>4 DEF Registered, ActiveAdmins
<1>6. pc'[r] = "evict" /\ op'[r] = op[r] /\ Others(r)
  BY <1>1 DEF TypeOK, Others
<1>7. TypeOK'
  <2>1. \A q \in Requests : Typed(q)'
    BY <1>1, <1>2, <1>5, <1>6 DEF TypeOK, Typed, Others
  <2> QED
    BY <1>1, <1>3, <1>4, <1>5, <2>1 DEF TypeOK, Pcs
<1>8. RegisterInv' /\ AdminInv'
  BY <1>4, <1>5, <1>6, RegisterKept, AdminKept
<1>9. IssueInv'
  <2>1. IssueOf(r)'
    BY <1>6 DEF IssueOf
  <2>2. \A t \in DOMAIN tokens : tokens[t] \in Issued
    BY ElementOfSeq, LenProperties DEF TypeOK
  <2>3. \A t \in DOMAIN tokens : tokens'[t].live => users'[tokens[t].owner] = users[tokens[t].owner]
    BY <1>3, <1>4, <2>2 DEF Issued
  <2> QED
    BY <1>3, <1>6, <2>1, <2>3, IssueKept
<1>10. RotationInv'
  BY <1>3, <1>6, RotationKept DEF Rotating
<1> QED
  BY <1>7, <1>8, <1>9, <1>10

\* Who has the administrators locked is alone: whoever else wanted them would wait.
LEMMA LockAdminsInv ==
  ASSUME IInv, NEW r \in Requests, LockAdmins(r)
  PROVE  IInv'
<1> USE DEF IInv
<1> DEFINE O(u) == [op[r] EXCEPT !.target = u, !.admins = Cardinality(ActiveAdmins)]
<1>1. PICK u \in Registered : Unlocked(r, ActiveAdmins \cup {u}) /\ op' = [op EXCEPT ![r] = O(u)]
  BY DEF LockAdmins
<1>2. /\ pc[r] = "admin" /\ pc' = [pc EXCEPT ![r] = "change"]
      /\ UNCHANGED <<users, tokens, access, cached, changes>>
  BY DEF LockAdmins, Goto
<1>3. Cardinality(ActiveAdmins) \in Nat
  <2>1. ActiveAdmins \subseteq Registered
    BY DEF ActiveAdmins, Registered
  <2> QED
    BY <2>1, FS_Subset, FS_CardinalityType DEF TypeOK
<1>4. op[r] \in Ops /\ op[r].user \in Users /\ u \in Users
  BY <1>2 DEF TypeOK, Typed, Registered
<1>5. /\ O(u) \in Ops /\ O(u).user = op[r].user /\ O(u).target = u
      /\ O(u).admins = Cardinality(ActiveAdmins)
  BY <1>3, <1>4 DEF Ops, Someone
<1> HIDE DEF O
<1>6. \A q \in Requests \ {r} : pc[q] # "change"
  BY <1>1 DEF Unlocked, RowLocks, AdminInv, ActiveAdminRemains
<1>7. pc'[r] = "change"
  BY <1>1, <1>2, Moves DEF TypeOK
<1>8. IssueOf(r)'
  BY <1>7 DEF IssueOf
<1> QED
  BY <1>1, <1>2, <1>4, <1>5, <1>6, <1>8, Same, StepInv DEF Pcs, TypeOK

\* The last active administrator is not the target of a change that is not refused.
LEMMA AnotherAdmin ==
  ASSUME IInv, NEW r \in Requests, pc[r] = "change", ~Refused(r)
  PROVE  ActiveAdmins \ {op[r].target} # {}
<1>1. op[r].target \in Registered /\ op[r].admins = Cardinality(ActiveAdmins) /\ ActiveAdmins # {}
  BY DEF IInv, TypeOK, Typed, AdminInv, ActiveAdminRemains
<1>2. SUFFICES ASSUME ActiveAdmins = {op[r].target}
               PROVE  FALSE
  BY <1>1
<1>3. Cardinality(ActiveAdmins) = 1
  BY <1>2, FS_Singleton
<1>4. Cardinality(ActiveAdmins) <= 1
  BY <1>3
<1> QED
  BY <1>1, <1>2, <1>4 DEF Refused

\* A change that is applied: row is what becomes of the account, but for its version.
LEMMA ApplyInv ==
  ASSUME IInv, NEW r \in Requests, pc[r] = "change", NEW row \in Rows, Apply(r, row),
         UNCHANGED <<access, cached, changes>>,
         row.role # "none", row.version = users[op[r].target].version,
         \/ ActiveAdmins \ {op[r].target} # {}
         \/ op[r].target \in ActiveAdmins => row.role = "admin" /\ row.status = "active"
  PROVE  IInv'
<1> USE DEF IInv
<1> DEFINE u == op[r].target
<1>1. /\ users' = [users EXCEPT ![u] = [row EXCEPT !.version = @ + 1]] /\ RevokeAll(u)
      /\ pc' = [pc EXCEPT ![r] = "evict"] /\ op' = op
  BY DEF Apply
<1>2. u \in Registered /\ u \in Users /\ op[r].user \in Users
  BY DEF TypeOK, Typed, Registered
<1>3. FewerLive /\ tokens' \in Seq(Issued) /\ \A t \in DOMAIN tokens : tokens'[t].live => tokens[t].owner # u
  BY <1>1, <1>2, AllRevoked
<1>4. /\ users' \in [Users -> Rows] /\ \A v \in Users : v # u => users'[v] = users[v]
      /\ users'[u].role = row.role /\ users'[u].status = row.status
  <2> DEFINE new == [row EXCEPT !.version = @ + 1]
  <2>1. new \in Rows /\ new.role = row.role /\ new.status = row.status
    BY DEF Rows
  <2>2. users' = [users EXCEPT ![u] = new]
    BY <1>1
  <2> HIDE DEF new
  <2> QED
    BY <1>2, <2>1, <2>2 DEF TypeOK
<1>5. Registered' = Registered
  BY <1>2, <1>4 DEF Registered
<1>6. pc'[r] = "evict" /\ op'[r] = op[r] /\ Others(r)
  BY <1>1 DEF TypeOK, Others
<1>7. TypeOK'
  <2>1. \A q \in Requests : Typed(q)'
    BY <1>1, <1>2, <1>5, <1>6 DEF TypeOK, Typed, Others
  <2> QED
    BY <1>1, <1>3, <1>4, <1>5, <2>1 DEF TypeOK, Pcs
<1>8. RegisterInv'
  BY <1>2, <1>4, <1>5, <1>6, RegisterKept
<1>9. AdminInv'
  <2>1. ActiveAdmins' # {}
    <3>1. ActiveAdmins \ {u} \subseteq ActiveAdmins'
      BY <1>4 DEF ActiveAdmins
    <3>2. CASE ActiveAdmins \ {u} = {}
      <4>1. u \in ActiveAdmins
        BY <1>2, <3>2 DEF AdminInv, ActiveAdminRemains
      <4> QED
        BY <1>2, <1>4, <3>2, <4>1 DEF ActiveAdmins
    <3> QED
      BY <3>1, <3>2
  <2>2. \A q \in Requests : pc'[q] # "change"
    BY <1>6 DEF AdminInv, Others
  <2> QED
    BY <2>1, <2>2 DEF AdminInv, ActiveAdminRemains
<1>10. IssueInv'
  <2>1. IssueOf(r)'
    BY <1>6 DEF IssueOf
  <2>2. \A t \in DOMAIN tokens : tokens[t] \in Issued
    BY ElementOfSeq, LenProperties DEF TypeOK
  <2>3. \A t \in DOMAIN tokens : tokens'[t].live => users'[tokens[t].owner] = users[tokens[t].owner]
    BY <1>3, <1>4, <2>2 DEF Issued
  <2> QED
    BY <1>3, <1>6, <2>1, <2>3, IssueKept
<1>11. RotationInv'
  BY <1>3, <1>6, RotationKept DEF Rotating
<1> QED
  BY <1>7, <1>8, <1>9, <1>10, <1>11

LEMMA UpdateUserInv ==
  ASSUME IInv, NEW r \in Requests, UpdateUser(r)
  PROVE  IInv'
<1> DEFINE row == users[op[r].target]
<1>1. pc[r] = "change" /\ UNCHANGED <<access, cached, changes>>
  BY DEF UpdateUser
<1>2. row \in Rows /\ row.role # "none"
  BY <1>1 DEF IInv, TypeOK, Typed, Registered
<1>3. op[r].target \in ActiveAdmins => row.role = "admin" /\ row.status = "active"
  BY DEF ActiveAdmins
<1> HIDE DEF row
<1>4. CASE Apply(r, [row EXCEPT !.role = "admin"])
  <2>1. [row EXCEPT !.role = "admin"] \in Rows
    BY <1>2 DEF Rows, Roles
  <2> QED
    BY <1>1, <1>2, <1>3, <1>4, <2>1, ApplyInv DEF Rows, row
<1>5. CASE Apply(r, [row EXCEPT !.status = "active"])
  <2>1. [row EXCEPT !.status = "active"] \in Rows
    BY <1>2 DEF Rows, Statuses
  <2> QED
    BY <1>1, <1>2, <1>3, <1>5, <2>1, ApplyInv DEF Rows, row
<1>6. CASE ~Refused(r) /\ Apply(r, [row EXCEPT !.role = "user"])
  <2>1. [row EXCEPT !.role = "user"] \in Rows
    BY <1>2 DEF Rows, Roles
  <2> QED
    BY <1>1, <1>2, <1>6, <2>1, AnotherAdmin, ApplyInv DEF Rows, row
<1>7. CASE ~Refused(r) /\ Apply(r, [row EXCEPT !.status = "disabled"])
  <2>1. [row EXCEPT !.status = "disabled"] \in Rows
    BY <1>2 DEF Rows, Statuses
  <2> QED
    BY <1>1, <1>2, <1>7, <2>1, AnotherAdmin, ApplyInv DEF Rows, row
<1>8. CASE Leave(r) /\ UNCHANGED <<users, tokens>>
  BY <1>1, <1>8, Same, LeaveInv DEF IInv, TypeOK
<1> QED
  BY <1>4, <1>5, <1>6, <1>7, <1>8 DEF UpdateUser, row

\* A request that was given an account's rights goes on to a change, or is over.
LEMMA EnterInv ==
  ASSUME IInv, NEW r \in Requests, pc[r] # "idle", NEW snapshot, Enter(r, snapshot),
         UNCHANGED <<users, tokens, access>>, cached' \in [Users -> Snapshots]
  PROVE  IInv'
<1> DEFINE O == [op[r] EXCEPT !.target = op[r].user, !.snapshot = NoSnapshot]
           P == [op[r] EXCEPT !.snapshot = NoSnapshot]
<1>1. op[r] \in Ops /\ op[r].user \in Users
  BY DEF IInv, TypeOK, Typed
<1>2. CASE Leave(r) /\ UNCHANGED changes
  BY <1>2, Same, LeaveInv DEF IInv, TypeOK
<1>3. ASSUME NEW p \in {"password", "admin"}, NEW o \in Ops, changes' = changes + 1,
             pc' = [pc EXCEPT ![r] = p], op' = [op EXCEPT ![r] = o],
             o.user \in Users, o.target \in Users \/ p = "admin"
      PROVE  IInv'
  <2>1. pc'[r] = p
    BY <1>3, Moves DEF IInv, TypeOK
  <2>2. IssueOf(r)'
    BY <2>1 DEF IssueOf
  <2>3. changes' \in Nat
    BY <1>3 DEF IInv, TypeOK
  <2> QED
    BY <1>3, <2>2, <2>3, Same, StepInv DEF Pcs
<1>4. /\ O \in Ops /\ O.user \in Users /\ O.target \in Users
      /\ P \in Ops /\ P.user \in Users
  BY <1>1 DEF Ops, Someone, Snapshots
<1>5. \/ Leave(r) /\ UNCHANGED changes
      \/ /\ changes' = changes + 1
         /\ \/ pc' = [pc EXCEPT ![r] = "password"] /\ op' = [op EXCEPT ![r] = O]
            \/ pc' = [pc EXCEPT ![r] = "admin"] /\ op' = [op EXCEPT ![r] = P]
  BY DEF Enter
<1> QED
  BY <1>2, <1>3, <1>4, <1>5

LEMMA ResetPasswordInv ==
  ASSUME IInv, NEW r \in Requests, ResetPassword(r)
  PROVE  IInv'
<1> DEFINE O(u) == [NoOp EXCEPT !.user = u, !.target = u]
<1>1. PICK u \in Users : op' = [op EXCEPT ![r] = O(u)]
  BY DEF ResetPassword, Registered
<1>2. /\ pc' = [pc EXCEPT ![r] = "password"] /\ changes' = changes + 1
      /\ UNCHANGED <<users, tokens, access, cached>>
  BY DEF ResetPassword, Goto
<1>3. O(u) \in Ops /\ O(u).user = u /\ O(u).target = u
  BY DEF Ops, NoOp, Someone, Snapshots
<1> HIDE DEF O
<1>4. pc'[r] = "password"
  BY <1>1, <1>2, Moves DEF IInv, TypeOK
<1>5. IssueOf(r)'
  BY <1>4 DEF IssueOf
<1>6. changes' \in Nat /\ cached' \in [Users -> Snapshots]
  BY <1>2 DEF IInv, TypeOK
<1> QED
  BY <1>1, <1>2, <1>3, <1>5, <1>6, Same, StepInv DEF Pcs

-----------------------------------------------------------------------------
(* The access check, the cache, and failures.                              *)

LEMMA AuthenticateInv ==
  ASSUME IInv, NEW r \in Requests, Authenticate(r)
  PROVE  IInv'
<1> DEFINE O(u) == [NoOp EXCEPT !.user = u]
<1>1. PICK a \in access : op' = [op EXCEPT ![r] = O(a.user)]
  BY DEF Authenticate
<1>2. /\ pc' = [pc EXCEPT ![r] = "resolve"] /\ UNCHANGED <<users, tokens, access, cached, changes>>
  BY DEF Authenticate, Goto
<1>3. a.user \in Users
  BY DEF IInv, TypeOK, Accesses
<1>4. O(a.user) \in Ops /\ O(a.user).user \in Users
  BY <1>3 DEF Ops, NoOp, Someone, Snapshots
<1> HIDE DEF O
<1>5. pc'[r] = "resolve"
  BY <1>1, <1>2, Moves DEF IInv, TypeOK
<1>6. IssueOf(r)'
  BY <1>5 DEF IssueOf
<1> QED
  BY <1>1, <1>2, <1>4, <1>6, Same, StepInv DEF Pcs, IInv, TypeOK

LEMMA ResolveInv ==
  ASSUME IInv, NEW r \in Requests, ResolveMiss(r) \/ Load(r)
  PROVE  IInv'
<1> DEFINE O == [op[r] EXCEPT !.snapshot = Snapshot(op[r].user)]
<1>1. pc[r] # "idle" /\ UNCHANGED <<users, tokens, access, cached, changes>>
  BY DEF ResolveMiss, Load, Goto
<1>2. op[r] \in Ops /\ op[r].user \in Users
  BY <1>1 DEF IInv, TypeOK, Typed
<1>3. O \in Ops /\ O.user \in Users
  BY <1>2 DEF IInv, TypeOK, Snapshot, Rows, Ops, Snapshots
<1>4. PICK p \in {"load", "fill"} :
        pc' = [pc EXCEPT ![r] = p] /\ (op' = op \/ op' = [op EXCEPT ![r] = O])
  BY DEF ResolveMiss, Load, Goto
<1>5. PICK o \in Ops : op' = [op EXCEPT ![r] = o] /\ o.user \in Users
  BY <1>2, <1>3, <1>4 DEF IInv, TypeOK
<1>6. pc'[r] = p
  BY <1>4 DEF IInv, TypeOK
<1>7. IssueOf(r)'
  BY <1>6 DEF IssueOf
<1> QED
  BY <1>1, <1>4, <1>5, <1>7, Same, StepInv DEF Pcs, IInv, TypeOK

LEMMA FillInv ==
  ASSUME IInv, NEW r \in Requests, ResolveCached(r) \/ Fill(r)
  PROVE  IInv'
<1>1. CASE ResolveCached(r)
  <2>1. pc[r] # "idle" /\ Enter(r, cached[op[r].user]) /\ UNCHANGED <<users, tokens, access, cached>>
    BY <1>1 DEF ResolveCached
  <2> QED
    BY <2>1, EnterInv DEF IInv, TypeOK
<1>2. CASE Fill(r)
  <2>1. /\ pc[r] = "fill" /\ cached' = [cached EXCEPT ![op[r].user] = op[r].snapshot]
        /\ Enter(r, op[r].snapshot) /\ UNCHANGED <<users, tokens, access>>
    BY <1>2 DEF Fill
  <2>2. op[r] \in Ops /\ op[r].user \in Users
    BY <2>1 DEF IInv, TypeOK, Typed
  <2>3. op[r].snapshot \in Snapshots
    BY <2>2 DEF Ops
  <2>4. cached' \in [Users -> Snapshots]
    BY <2>1, <2>2, <2>3 DEF IInv, TypeOK
  <2> QED
    BY <2>1, <2>4, EnterInv
<1> QED
  BY <1>1, <1>2

LEMMA EvictInv ==
  ASSUME IInv, NEW r \in Requests, Evict(r) \/ Fail(r)
  PROVE  IInv'
<1>1. Leave(r) /\ UNCHANGED <<users, tokens, access, changes>>
  BY DEF Evict, Fail
<1>2. NoSnapshot \in Snapshots
  BY DEF Snapshots
<1>3. cached' \in [Users -> Snapshots]
  BY <1>2 DEF Evict, Fail, IInv, TypeOK
<1> QED
  BY <1>1, <1>3, Same, LeaveInv DEF IInv, TypeOK

LEMMA CacheInv ==
  ASSUME IInv, UNCHANGED <<users, tokens, access, pc, op, changes>>, cached' \in [Users -> Snapshots]
  PROVE  IInv'
<1>1. Registered' = Registered /\ ActiveAdmins' = ActiveAdmins
  BY DEF Registered, ActiveAdmins
<1>2. TypeOK'
  BY <1>1 DEF IInv, TypeOK, Typed
<1>3. RegisterInv' /\ AdminInv'
  BY <1>1 DEF IInv, RegisterInv, AdminInv, ActiveAdminRemains
<1>4. IssueInv' /\ RotationInv'
  BY DEF IInv, IssueInv, IssueOf, SessionsEndWithVersion, Live, RotationInv, Rotating,
         RotationIsExclusive
<1> QED
  BY <1>2, <1>3, <1>4 DEF IInv

-----------------------------------------------------------------------------
(* Theorems.                                                               *)

LEMMA NextInv == IInv /\ [Next]_vars => IInv'
<1> SUFFICES ASSUME IInv, [Next]_vars
             PROVE  IInv'
  OBVIOUS
<1>1. ASSUME NEW r \in Requests, Begin(r)
      PROVE  IInv'
  BY <1>1, StartRegisterInv, LoginInv, FindTokenInv, ResetPasswordInv, AuthenticateInv DEF Begin
<1>2. ASSUME NEW r \in Requests, Step(r)
      PROVE  IInv'
  BY <1>2, CreateInv, CheckUserInv, RevokeInv, ReadVersionInv, InsertInv, UpdatePasswordInv,
     LockAdminsInv, UpdateUserInv, EvictInv, FillInv, ResolveInv DEF Step
<1>3. ASSUME NEW r \in Requests, Fail(r)
      PROVE  IInv'
  BY <1>3, EvictInv
<1>4. ASSUME NEW u \in Users, CacheExpires(u)
      PROVE  IInv'
  <2>1. NoSnapshot \in Snapshots
    BY DEF Snapshots
  <2>2. cached' \in [Users -> Snapshots]
    BY <1>4, <2>1 DEF CacheExpires, IInv, TypeOK
  <2> QED
    BY <1>4, <2>2, CacheInv DEF CacheExpires
<1>5. CASE UNCHANGED vars
  <2>1. cached' \in [Users -> Snapshots]
    BY <1>5 DEF vars, IInv, TypeOK
  <2> QED
    BY <1>5, <2>1, CacheInv DEF vars
<1> QED
  BY <1>1, <1>2, <1>3, <1>4, <1>5, LogoutInv DEF Next

\* Types, registration, administrators, what issuing requests know, and rotations hold in
\* every state; the theorems below are its parts.
THEOREM Invariant == Spec => []IInv
BY InitInv, NextInv, PTL DEF Spec

\* Every variable keeps its type, whatever the requests of any number of processes do.
THEOREM TypeCorrect == Spec => []TypeOK
<1>1. IInv => TypeOK
  BY DEF IInv
<1> QED
  BY Invariant, <1>1, PTL

\* A refresh token has at most one successor (Refresh, RevokeRefreshToken): who goes on to
\* issueTokens has turned it from live to revoked, which happens once.
THEOREM OneSuccessor == Spec => []RotationIsExclusive
<1>1. IInv => RotationIsExclusive
  BY DEF IInv, RotationInv
<1> QED
  BY Invariant, <1>1, PTL

\* A change of an account ends its sessions (UpdateUserPasswordAndRevokeTokens,
\* updateUserAdminFieldsSafely), but for those of a request it overtook.
THEOREM ChangeEndsSessions == Spec => []SessionsEndWithVersion
<1>1. IInv => SessionsEndWithVersion
  BY DEF IInv, IssueInv
<1> QED
  BY Invariant, <1>1, PTL

\* An active administrator remains (updateUserAdminFieldsSafely): who counted them has
\* them locked, so the count still holds when the change is made.
THEOREM AdministratorRemains == Spec => []ActiveAdminRemains
<1>1. IInv => ActiveAdminRemains
  BY DEF IInv, AdminInv
<1> QED
  BY Invariant, <1>1, PTL

\* Nobody's token is rotated while the account is disabled (Refresh): disabling it revoked
\* the token before.
THEOREM DisabledIsNotRotated == Spec => RotationOnlyWhileActive
<1>1. IInv /\ [Next]_vars =>
        [\A r \in Requests :
           pc[r] = "revoke" /\ pc'[r] = "version" => users[op[r].user].status = "active"]_vars
  <2> SUFFICES ASSUME IInv, [Next]_vars, NEW r \in Requests, pc[r] = "revoke", pc'[r] = "version"
               PROVE  users[op[r].user].status = "active"
    OBVIOUS
  <2> USE DEF IInv
  <2>1. PICK q \in Requests : Begin(q) \/ Step(q) \/ Fail(q)
    BY DEF Next, vars, Logout, CacheExpires
  <2>2. PICK p : pc' = [pc EXCEPT ![q] = p]
    BY <2>1 DEF Begin, Step, Fail, StartRegister, Login, FindToken, ResetPassword, Authenticate,
         Create, CheckUser, Revoke, ReadVersion, Insert, UpdatePassword, LockAdmins, UpdateUser,
         Apply, Evict, ResolveCached, ResolveMiss, Load, Fill, Enter, Leave, Goto
  <2>3. q = r
    BY <2>2 DEF TypeOK
  <2>4. ~Fail(r)
    BY DEF Fail, Leave, TypeOK
  <2>5. Revoke(r)
    BY <2>1, <2>3, <2>4 DEF Begin, Step, StartRegister, Login, FindToken, ResetPassword,
         Authenticate, Create, CheckUser, ReadVersion, Insert, UpdatePassword, LockAdmins,
         UpdateUser, Evict, ResolveCached, ResolveMiss, Load, Fill, Goto
  <2>6. tokens[op[r].token].live
    BY <2>5 DEF Revoke, Leave, TypeOK
  <2> QED
    BY <2>6 DEF IssueInv, IssueOf
<1> QED
  BY Invariant, <1>1, PTL DEF Spec, RotationOnlyWhileActive

\* Registering makes an administrator of the first account only (WithUserRegistrationLock).
THEOREM FirstIsAdministrator == Spec => OnlyFirstIsAdmin
<1>1. IInv /\ [Next]_vars =>
        [\A u \in Users :
           users[u].role = "none" /\ users'[u].role = "admin" => Registered = {}]_vars
  <2> SUFFICES ASSUME IInv, [Next]_vars, NEW u \in Users,
                      users[u].role = "none", users'[u].role = "admin"
               PROVE  Registered = {}
    OBVIOUS
  <2> USE DEF IInv
  <2>1. users' # users
    OBVIOUS
  <2>2. PICK r \in Requests : Create(r) \/ UpdatePassword(r) \/ UpdateUser(r)
    BY <2>1 DEF Next, vars, Logout, CacheExpires, Begin, Step, Fail, StartRegister, Login,
         FindToken, ResetPassword, Authenticate, CheckUser, Revoke, ReadVersion, Insert,
         LockAdmins, Evict, ResolveCached, ResolveMiss, Load, Fill
  <2>3. ~UpdatePassword(r)
    <3> SUFFICES ASSUME UpdatePassword(r) PROVE FALSE
      OBVIOUS
    <3> DEFINE t == op[r].target
               new == [users[t] EXCEPT !.version = @ + 1]
    <3>1. t \in Users /\ users' = [users EXCEPT ![t] = new]
      BY DEF UpdatePassword, Goto, TypeOK, Typed
    <3>2. new.role = users[t].role
      BY <3>1 DEF TypeOK, Rows
    <3> HIDE DEF new
    <3> QED
      BY <3>1, <3>2 DEF TypeOK
  <2>4. ~UpdateUser(r)
    BY DEF UpdateUser, Apply, TypeOK, Typed, Registered, Rows
  <2>5. Create(r)
    BY <2>2, <2>3, <2>4
  <2>6. op[r].user = u /\ users'[u].role = op[r].snapshot.role
    BY <2>5 DEF Create, TypeOK, Rows
  <2> QED
    BY <2>5, <2>6 DEF Create, Goto, RegisterInv
<1> QED
  BY Invariant, <1>1, PTL DEF Spec, OnlyFirstIsAdmin
=============================================================================
