------------------------- MODULE RestoreManualDump -------------------------
(***************************************************************************)
(* The reverse path of a restore.  An operator stops the API in the middle *)
(* of a publication and loads the MySQL dump taken before the restore, as  *)
(* docs/OPERATIONS.md section 3 allows: the marker is gone, the journal is *)
(* not, and start-up has to take the published files back                  *)
(* (TestRecoverRestoreReversesUnmarkedPartialPublication).                 *)
(***************************************************************************)
EXTENDS SiteRestore

\* The media files the site had before the publication began.
MediaBefore ==
  (rollback[journal.id] \ {Dot}) \cup (IF journal.state = "publishing_old" THEN root ELSE {})

LoadOlderDump ==
  /\ \A p \in Procs : pc[p] = "down"
  /\ marker # NoId /\ journal.state \in {"publishing_old", "publishing_new"}
  /\ marker' = NoId /\ db' = MediaBefore
  /\ UNCHANGED <<diskVars, memVars, lease, pc, phase, ids, faults>>

DumpNext == Next \/ LoadOlderDump

DumpSpec == Init /\ [][DumpNext]_vars

-----------------------------------------------------------------------------
\* While an unmarked publication is being taken back every file of the database
\* is in the root or still in the rollback directory: Rollback loses no file of
\* the old site.
RolledBackMediaKept ==
  journal # NoJournal /\ marker = NoId
    => db \subseteq root \cup rollback[journal.id]

-----------------------------------------------------------------------------
(* The inductive invariant behind it, for a site that meets at most one fault: *)
(* the stop of the API uses it up, and the way back is then never interrupted.  *)

\* A process is down, or about to be, only after a fault.
DownAfterFault ==
  /\ \A p \in Procs : pc[p] \in {"down", "exit"} => faults > 0
  /\ Procs = {} => marker = NoId

\* No process has begun to take media back: the volume is as the dump found it.
Untouched ==
  LET i == journal.id IN
  /\ journal.state = "publishing_old" =>
       db = (rollback[i] \ {Dot}) \cup root /\ root \cap rollback[i] = {}
  /\ journal.state = "publishing_new" =>
       db = rollback[i] \ {Dot} /\ root \subseteq journal.files /\ root \cap staging[i] = {}

\* What a process may rely on at each step of the way back.
TakesBack(p) ==
  LET i == journal.id IN
  /\ pc[p] \in {"down", "serving", "recover", "load", "cleanup"} \cup RollbackPcs
  /\ pc[p] = "load" => seen[p] = NoId
  /\ pc[p] \in RollbackPcs \cup {"cleanup"} => tx[p] = journal
  /\ pc[p] = "unpublish" =>
       /\ journal.state = "publishing_new" /\ db = rollback[i] \ {Dot}
       /\ root \subseteq todo[p] /\ root \cap staging[i] = {}
  /\ pc[p] = "undo" =>
       /\ db = (rollback[i] \ {Dot}) \cup root
       /\ todo[p] = rollback[i] \ {Dot} /\ root \cap rollback[i] = {}
  /\ pc[p] = "cleanup" => root = db

TakingBack ==
  /\ journal # NoJournal /\ journal.state \in {"publishing_old", "publishing_new"}
  /\ marker = NoId /\ journal.id \notin ids
  /\ \A o \in Ids \ {journal.id} : staging[o] = {} /\ rollback[o] = {}
  /\ faults = MaxFaults /\ faults > 0
  /\ \A p \in Procs : TakesBack(p)
  /\ (\A p \in Procs : pc[p] \notin {"unpublish", "undo", "cleanup"}) => Untouched

DumpIInv ==
  /\ DownAfterFault
  /\ IInv \/ (TypeOK /\ OnlyLeaseOwnerRestores /\ TakingBack)
=============================================================================
