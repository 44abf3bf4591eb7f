----------------------------- MODULE MCRagIndex -----------------------------
(***************************************************************************)
(* TLC instance of RagIndex: workers, requests, articles, contents and     *)
(* embeddings are model values, those nothing tells apart interchangeable. *)
(***************************************************************************)
EXTENDS RagIndex, TLC

MCSymmetry == Permutations(Contents) \cup Permutations(Fps) \cup Permutations(Workers)
=============================================================================
