--------------------------- MODULE MCMediaLibrary ---------------------------
(***************************************************************************)
(* TLC instance of MediaLibrary.                                           *)
(***************************************************************************)
EXTENDS MediaLibrary, TLC

MCSymmetry == Permutations(Keys) \cup Permutations(Requests)
=============================================================================
