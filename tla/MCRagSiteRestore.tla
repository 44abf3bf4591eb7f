-------------------------- MODULE MCRagSiteRestore --------------------------
(***************************************************************************)
(* TLC instance of RagSiteRestore: archives whose articles are public or   *)
(* hidden, and archives that also hold a scheduled article.                *)
(***************************************************************************)
EXTENDS RagSiteRestore, TLC

MCSymmetry == Permutations(Contents) \cup Permutations(Fps)

MCSites == [Articles -> [content : Contents, vis : {"hidden", "public"}]]
MCScheduledSites == [Articles -> [content : Contents, vis : Visibilities]]
=============================================================================
