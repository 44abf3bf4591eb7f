--------------------------- MODULE RagSiteRestore ---------------------------
(***************************************************************************)
(* RagIndex in a site that is restored from a backup: the restore replaces *)
(* the articles, empties the outbox, turns RAG off and puts the state row  *)
(* back to needs_rebuild under a new epoch, all in one transaction.        *)
(***************************************************************************)
EXTENDS RagIndex

CONSTANT Sites   \* the articles of the archives that may be restored

ASSUME SitesAssumption ==
  Sites \subseteq [Articles -> [content : Contents, vis : Visibilities]]

\* restoreBackup, the part the index depends on.
RestoreSite ==
  /\ row.epoch < LastEpoch
  /\ edits < MaxEdits /\ edits' = edits + 1
  /\ row' = [status |-> "needs_rebuild", epoch |-> row.epoch + 1, fp |-> NoFp, lease |-> "none"]
  /\ art' \in Sites
  /\ job' = [a \in Articles |-> NoJob]
  /\ \E fp \in Fps : settings' = [enabled |-> FALSE, fp |-> fp]
  /\ UNCHANGED <<qdrant, worker, queue, adm, saves, faults>>

RestoreNext == Next \/ RestoreSite

RestoreSpec == Init /\ [][RestoreNext]_vars
=============================================================================
