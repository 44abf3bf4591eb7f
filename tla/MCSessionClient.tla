--------------------------- MODULE MCSessionClient ---------------------------
(* Instances of SessionClient for TLC. *)
EXTENDS SessionClient, TLC

CallSymmetry == Permutations(Calls)
=============================================================================
