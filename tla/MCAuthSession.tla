---------------------------- MODULE MCAuthSession ----------------------------
(***************************************************************************)
(* Two accounts and two requests at a time: enough for two administrators  *)
(* that demote one another and for two refreshes of one token.             *)
(***************************************************************************)
EXTENDS AuthSession, TLC

\* What may still matter: access tokens of an old version are refused for good, and of
\* a revoked refresh token only its owner and parent are ever looked at.
MCView ==
  <<users, cached, pc, op, changes,
    {a \in access : a.version = users[a.user].version},
    [t \in DOMAIN tokens |->
       IF tokens[t].live THEN <<tokens[t]>> ELSE <<tokens[t].owner, tokens[t].parent>>]>>

MCSymmetry == Permutations(Users) \cup Permutations(Requests)
=============================================================================
