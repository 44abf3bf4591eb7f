---------------------------- MODULE SiteRestore ----------------------------
(***************************************************************************)
(* The whole-site restore of the blog backend.  An archive replaces the    *)
(* MySQL database in one transaction and the files of the media volume by  *)
(* a journaled series of renames.  A Redis lease keeps two API processes   *)
(* from restoring at once, a marker row written in the database            *)
(* transaction tells a restarted process which way to finish, and the      *)
(* journal tells it how far the renames got.                               *)
(*                                                                         *)
(* Every action below is one durable step of                               *)
(*   internal/logic/backup/backup.go    Restore, RecoverPendingRestore     *)
(*   internal/logic/media/restore.go    RestoreTransaction                 *)
(*   internal/security/restore_lease.go AcquireRestoreLease ... Release    *)
(*   cmd/notes-of-ashen/main.go         recoverPendingRestore              *)
(* so that a crash can fall between any two of them.  Media files are      *)
(* named by their content hash: a key stands for the file and its content. *)
(***************************************************************************)
EXTENDS Naturals

CONSTANTS
  Keys,        \* storage keys of media files
  Procs,       \* API processes sharing MySQL, Redis and the media volume
  Ids,         \* restore ids still to be drawn by newRestoreID (bounds the number of restores)
  Archives,    \* the archives an administrator may upload, each by its set of media keys
  MaxFaults,   \* bound on crashes and failed operations
  Dot,         \* the entry that makes a directory: {} is no directory, {Dot} an empty one
  NoId, NoJournal, Free, Orphan

ASSUME ConstantsAssumption ==
  /\ Archives \subseteq SUBSET Keys
  /\ MaxFaults \in Nat
  /\ NoId \notin Ids
  /\ Dot \notin Keys
  /\ Free \notin Procs /\ Orphan \notin Procs /\ Free # Orphan

JournalStates == {"staging", "staged", "publishing_old", "publishing_new", "published"}
Journals == [id : Ids, state : JournalStates, files : SUBSET Keys]

ASSUME NoJournalAssumption == NoJournal \notin Journals

VARIABLES
  db,        \* storage keys of the media_assets rows
  marker,    \* the __backup_restore_marker row, or NoId
  root,      \* media files in the media root
  staging,   \* per restore id: entries of .restore-staging-<id>
  rollback,  \* per restore id: entries of .restore-rollback-<id>
  journal,   \* .restore-journal.json, or NoJournal
  lease,     \* owner of the Redis key: a process, Orphan (its owner died), or Free
  pc,        \* where each process is
  phase,     \* on whose behalf: recovery at boot, recovery before a restore, the restore
  tx,        \* RestoreTransaction.journal in the memory of each process
  seen,      \* the marker RecoverPendingRestore read
  arch,      \* the archive being restored
  todo,      \* files the current rename loop has still to visit
  ids,       \* ids not drawn yet
  faults     \* crashes and failed operations so far

dbVars   == <<db, marker>>
diskVars == <<root, staging, rollback, journal>>
memVars  == <<tx, seen, arch, todo>>
vars     == <<db, marker, root, staging, rollback, journal, lease, pc, phase,
              tx, seen, arch, todo, ids, faults>>

Phases == {"boot", "recovery", "restore"}
RecoveryPcs == {"recover", "load"}
RollbackPcs == {"rollback", "unpublish", "undo"}
PublishPcs  == {"publish", "pub", "moveOld", "moveNew"}
FinishPcs   == {"clear", "finalize", "cleanup", "release", "exit"}
RestorePcs  == {"archive", "begin", "mkStaging", "mkRollback", "stage",
                "leaseDb", "dbTx", "dbCheck", "leasePub"}
BusyPcs == RecoveryPcs \cup RollbackPcs \cup PublishPcs \cup FinishPcs \cup RestorePcs
Pcs     == BusyPcs \cup {"down", "serving"}

TypeOK ==
  /\ db \in SUBSET Keys
  /\ marker \in Ids \cup {NoId}
  /\ root \in SUBSET Keys
  /\ staging  \in [Ids -> SUBSET (Keys \cup {Dot})]
  /\ rollback \in [Ids -> SUBSET (Keys \cup {Dot})]
  /\ journal \in Journals \cup {NoJournal}
  /\ lease \in Procs \cup {Free, Orphan}
  /\ pc \in [Procs -> Pcs]
  /\ phase \in [Procs -> Phases]
  /\ tx \in [Procs -> Journals \cup {NoJournal}]
  /\ seen \in [Procs -> Ids \cup {NoId}]
  /\ arch \in [Procs -> SUBSET Keys]
  /\ todo \in [Procs -> SUBSET Keys]
  /\ ids \in SUBSET Ids
  /\ faults \in 0 .. MaxFaults

Init ==
  /\ db \in Archives /\ root = db
  /\ marker = NoId /\ journal = NoJournal
  /\ staging = [i \in Ids |-> {}] /\ rollback = [i \in Ids |-> {}]
  /\ lease = Free
  /\ pc = [p \in Procs |-> "serving"]
  /\ phase = [p \in Procs |-> "boot"]
  /\ tx = [p \in Procs |-> NoJournal]
  /\ seen = [p \in Procs |-> NoId]
  /\ arch = [p \in Procs |-> {}]
  /\ todo = [p \in Procs |-> {}]
  /\ ids = Ids /\ faults = 0

-----------------------------------------------------------------------------
Goto(p, from, to) == pc[p] = from /\ pc' = [pc EXCEPT ![p] = to]

\* ensureCurrentJournal: the journal on disk is the one of this transaction.
Current(p) == journal # NoJournal /\ journal.id = tx[p].id

\* writeRestoreJournal replaces the file by a rename, whatever was there.
WriteJournal(p, j) == journal' = j /\ tx' = [tx EXCEPT ![p] = j]

\* Where an error takes the caller: a failed boot recovery ends the process
\* (logx.Must), a failed restore request answers and releases the lease.
AbortPc(p) == IF phase[p] = "boot" THEN "exit" ELSE "release"

\* Where RecoverPendingRestore, or Restore, goes on once the journal is settled.
DonePc(p) == IF phase[p] = "recovery" THEN "archive" ELSE "release"

Forget(p) ==
  /\ tx' = [tx EXCEPT ![p] = NoJournal]
  /\ seen' = [seen EXCEPT ![p] = NoId]
  /\ arch' = [arch EXCEPT ![p] = {}]
  /\ todo' = [todo EXCEPT ![p] = {}]

-----------------------------------------------------------------------------
(* The lease.                                                              *)

\* A restore request: TryStartRestore and SETNX.  A process that finds the key
\* held answers "another restore is running".
RequestRestore(p) ==
  /\ lease = Free /\ lease' = p
  /\ Goto(p, "serving", "recover")
  /\ phase' = [phase EXCEPT ![p] = "recovery"]
  /\ UNCHANGED <<dbVars, diskVars, memVars, ids, faults>>

\* Start-up: recover under the lease, or skip recovery when the key is held.
Boot(p) ==
  /\ \/ /\ lease = Free /\ lease' = p
        /\ Goto(p, "down", "recover")
     \/ /\ lease # Free /\ UNCHANGED lease
        /\ Goto(p, "down", "serving")
  /\ phase' = [phase EXCEPT ![p] = "boot"]
  /\ UNCHANGED <<dbVars, diskVars, memVars, ids, faults>>

\* The deferred Release deletes the key only when this process still owns it.
ReleaseLease(p) ==
  /\ \/ Goto(p, "release", "serving")
     \/ Goto(p, "exit", "down")
  /\ lease' = IF lease = p THEN Free ELSE lease
  /\ Forget(p)
  /\ UNCHANGED <<dbVars, diskVars, phase, ids, faults>>

\* Broken variants: the owner does not renew its lease; the key has no TTL.
UnrenewedLeaseExpires ==
  /\ lease # Free /\ lease' = Free
  /\ UNCHANGED <<dbVars, diskVars, memVars, pc, phase, ids, faults>>

LeaseWithoutTTL == lease = Orphan /\ UNCHANGED vars

\* The key of a dead owner expires after restoreLeaseTTL.
LeaseExpires ==
  /\ lease = Orphan /\ lease' = Free
  /\ UNCHANGED <<dbVars, diskVars, memVars, pc, phase, ids, faults>>

\* A process dies between two durable steps and leaves the key to its TTL.
Crash(p) ==
  /\ faults < MaxFaults /\ faults' = faults + 1
  /\ pc[p] # "down" /\ pc' = [pc EXCEPT ![p] = "down"]
  /\ lease' = IF lease = p THEN Orphan ELSE lease
  /\ Forget(p)
  /\ UNCHANGED <<dbVars, diskVars, phase, ids>>

-----------------------------------------------------------------------------
(* RecoverPendingRestore and RecoverRestore.                               *)

ReadMarker(p) ==
  /\ Goto(p, "recover", "load")
  /\ seen' = [seen EXCEPT ![p] = marker]
  /\ UNCHANGED <<dbVars, diskVars, tx, arch, todo, lease, phase, ids, faults>>

\* Broken variant: the marker is cleared before the media are published.
ClearFirstRecoverTo(p) ==
  IF seen[p] = NoId
  THEN IF journal = NoJournal THEN DonePc(p)
       ELSE IF journal.state = "published" THEN "finalize" ELSE "rollback"
  ELSE IF journal # NoJournal /\ seen[p] = journal.id THEN "clear" ELSE AbortPc(p)

\* The journal and the marker agree on how to go on; the branches of RecoverRestore.
RecoverTo(p) ==
  IF journal = NoJournal
  THEN IF seen[p] = NoId THEN DonePc(p) ELSE AbortPc(p)
  ELSE CASE seen[p] = NoId /\ journal.state = "published" -> "finalize"
         [] seen[p] = NoId /\ journal.state # "published" -> "rollback"
         [] seen[p] = journal.id                          -> "publish"
         [] OTHER                                         -> AbortPc(p)

RecoverRestore(p) ==
  /\ Goto(p, "load", RecoverTo(p))
  /\ tx' = [tx EXCEPT ![p] = journal]
  /\ UNCHANGED <<dbVars, diskVars, seen, arch, todo, lease, phase, ids, faults>>

-----------------------------------------------------------------------------
(* RestoreTransaction.Rollback and cleanup.                                *)

\* Broken variant: no file is taken back, the directories are just removed.
RollbackWithoutUndo(p) ==
  /\ Goto(p, "rollback", IF Current(p) THEN "cleanup" ELSE AbortPc(p))
  /\ UNCHANGED <<dbVars, diskVars, memVars, lease, phase, ids, faults>>

Rollback(p) ==
  /\ pc[p] = "rollback"
  /\ \/ /\ ~Current(p)
        /\ Goto(p, "rollback", AbortPc(p))
        /\ UNCHANGED <<tx, todo>>
     \/ /\ Current(p)
        /\ tx' = [tx EXCEPT ![p] = journal]
        /\ \/ /\ journal.state \in {"staging", "staged"}
              /\ Goto(p, "rollback", "cleanup") /\ UNCHANGED todo
           \/ /\ journal.state = "publishing_old"
              /\ Goto(p, "rollback", "undo")
              /\ todo' = [todo EXCEPT ![p] = rollback[journal.id] \ {Dot}]
           \/ /\ journal.state = "publishing_new"
              /\ Goto(p, "rollback", "unpublish")
              /\ todo' = [todo EXCEPT ![p] = journal.files]
           \/ /\ journal.state = "published"
              /\ Goto(p, "rollback", AbortPc(p)) /\ UNCHANGED todo
  /\ UNCHANGED <<dbVars, diskVars, seen, arch, lease, phase, ids, faults>>

\* removePublishedMedia: a sealed file that left staging is taken out of the root.
RemovePublishedMedia(p) ==
  /\ pc[p] = "unpublish"
  /\ \/ \E k \in todo[p] :
          /\ root' = IF k \in staging[tx[p].id] THEN root ELSE root \ {k}
          /\ todo' = [todo EXCEPT ![p] = @ \ {k}]
          /\ UNCHANGED pc
     \/ /\ todo[p] = {} /\ Goto(p, "unpublish", "undo")
        /\ todo' = [todo EXCEPT ![p] = rollback[tx[p].id] \ {Dot}]
        /\ UNCHANGED root
  /\ UNCHANGED <<dbVars, staging, rollback, journal, tx, seen, arch, lease, phase, ids, faults>>

\* restoreRollbackMedia: put the old files back, never over an existing one.
RestoreRollbackMedia(p) ==
  /\ pc[p] = "undo"
  /\ \/ \E k \in todo[p] \ (root \cap rollback[tx[p].id]) :
          /\ root' = root \cup ({k} \cap rollback[tx[p].id])
          /\ rollback' = [rollback EXCEPT ![tx[p].id] = @ \ {k}]
          /\ todo' = [todo EXCEPT ![p] = @ \ {k}]
          /\ UNCHANGED pc
     \/ /\ todo[p] \cap root \cap rollback[tx[p].id] # {}
        /\ Goto(p, "undo", AbortPc(p))
        /\ UNCHANGED <<root, rollback, todo>>
     \/ /\ todo[p] = {} /\ Goto(p, "undo", "cleanup")
        /\ UNCHANGED <<root, rollback, todo>>
  /\ UNCHANGED <<dbVars, staging, journal, tx, seen, arch, lease, phase, ids, faults>>

\* os.RemoveAll deletes a directory file by file; a crash leaves the rest.
Shrinks(dirs, i) ==
  \E e \in dirs[i] : (e = Dot => dirs[i] = {Dot}) /\ dirs' = [dirs EXCEPT ![i] = @ \ {e}]

\* cleanup: staging first, then rollback, and the journal last.
Cleanup(p) ==
  /\ pc[p] = "cleanup"
  /\ LET i == tx[p].id IN
     \/ /\ Shrinks(staging, i)
        /\ UNCHANGED <<rollback, journal, pc>>
     \/ /\ staging[i] = {} /\ Shrinks(rollback, i)
        /\ UNCHANGED <<staging, journal, pc>>
     \/ /\ staging[i] = {} /\ rollback[i] = {}
        /\ journal' = NoJournal /\ Goto(p, "cleanup", DonePc(p))
        /\ UNCHANGED <<staging, rollback>>
  /\ UNCHANGED <<dbVars, root, memVars, lease, phase, ids, faults>>

-----------------------------------------------------------------------------
(* RestoreTransaction.Publish.                                             *)

\* ensureCurrentJournal reloads the journal before anything moves.
Publish(p) ==
  /\ pc[p] = "publish"
  /\ \/ /\ Current(p) /\ journal.state # "staging" /\ Goto(p, "publish", "pub")
        /\ tx' = [tx EXCEPT ![p] = journal]
     \/ /\ ~(Current(p) /\ journal.state # "staging") /\ Goto(p, "publish", AbortPc(p))
        /\ UNCHANGED tx
  /\ UNCHANGED <<dbVars, diskVars, seen, arch, todo, lease, phase, ids, faults>>

\* publishRestoreJournal resumes the phase the journal names.
PublishPhase(p) ==
  /\ pc[p] = "pub"
  /\ \/ /\ tx[p].state = "staged"
        /\ WriteJournal(p, [tx[p] EXCEPT !.state = "publishing_old"])
        /\ UNCHANGED <<pc, rollback, todo>>
     \/ /\ tx[p].state = "publishing_old" /\ Goto(p, "pub", "moveOld")
        /\ rollback' = [rollback EXCEPT ![tx[p].id] = @ \cup {Dot}]
        /\ todo' = [todo EXCEPT ![p] = root]
        /\ UNCHANGED <<journal, tx>>
     \/ /\ tx[p].state = "publishing_new" /\ Goto(p, "pub", "moveNew")
        /\ todo' = [todo EXCEPT ![p] = tx[p].files]
        /\ UNCHANGED <<journal, tx, rollback>>
     \/ /\ tx[p].state = "published" /\ Goto(p, "pub", "clear")
        /\ UNCHANGED <<journal, tx, rollback, todo>>
  /\ UNCHANGED <<dbVars, root, staging, seen, arch, lease, phase, ids, faults>>

\* moveCurrentMediaToRollback, then the journal enters publishing_new.
MoveCurrentMediaToRollback(p) ==
  /\ pc[p] = "moveOld"
  /\ LET i == tx[p].id IN
     \/ \E k \in todo[p] :
          /\ k \in root => Dot \in rollback[i] /\ k \notin rollback[i]
          /\ root' = root \ {k}
          /\ rollback' = [rollback EXCEPT ![i] = @ \cup ({k} \cap root)]
          /\ todo' = [todo EXCEPT ![p] = @ \ {k}]
          /\ UNCHANGED <<journal, tx, pc>>
     \/ /\ \E k \in todo[p] \cap root : Dot \in rollback[i] => k \in rollback[i]
        /\ Goto(p, "moveOld", AbortPc(p))
        /\ UNCHANGED <<root, rollback, journal, tx, todo>>
     \/ /\ todo[p] = {} /\ Goto(p, "moveOld", "pub")
        /\ WriteJournal(p, [tx[p] EXCEPT !.state = "publishing_new"])
        /\ UNCHANGED <<root, rollback, todo>>
  /\ UNCHANGED <<dbVars, staging, seen, arch, lease, phase, ids, faults>>

\* moveStagedMediaToRoot, then the journal enters published.  A file found only
\* in the root was moved before the interruption; its hash is its name.
MoveStagedMediaToRoot(p) ==
  /\ pc[p] = "moveNew"
  /\ LET i == tx[p].id
         Stuck(k) == (k \in staging[i]) <=> (k \in root)
     IN
     \/ \E k \in todo[p] :
          /\ ~Stuck(k)
          /\ root' = root \cup {k}
          /\ staging' = [staging EXCEPT ![i] = @ \ {k}]
          /\ todo' = [todo EXCEPT ![p] = @ \ {k}]
          /\ UNCHANGED <<journal, tx, pc>>
     \/ /\ \E k \in todo[p] : Stuck(k)
        /\ Goto(p, "moveNew", AbortPc(p))
        /\ UNCHANGED <<root, staging, journal, tx, todo>>
     \/ /\ todo[p] = {} /\ Goto(p, "moveNew", "clear")
        /\ WriteJournal(p, [tx[p] EXCEPT !.state = "published"])
        /\ UNCHANGED <<root, staging, todo>>
  /\ UNCHANGED <<dbVars, rollback, seen, arch, lease, phase, ids, faults>>

\* ClearBackupRestoreMarker deletes the row of this restore and no other.  The
\* row may be gone although the caller sees an error.
ClearMarker(p) ==
  /\ pc[p] = "clear"
  /\ \/ /\ marker = tx[p].id /\ marker' = NoId
        /\ \/ Goto(p, "clear", "finalize") /\ UNCHANGED faults
           \/ /\ faults < MaxFaults /\ faults' = faults + 1
              /\ Goto(p, "clear", AbortPc(p))
     \/ /\ marker # tx[p].id /\ Goto(p, "clear", AbortPc(p))
        /\ UNCHANGED <<marker, faults>>
  /\ UNCHANGED <<db, diskVars, memVars, lease, phase, ids>>

\* Finalize; its failure is only a warning.
Finalize(p) ==
  /\ pc[p] = "finalize"
  /\ \/ /\ Current(p) /\ journal.state = "published" /\ Goto(p, "finalize", "cleanup")
        /\ tx' = [tx EXCEPT ![p] = journal]
     \/ /\ ~(Current(p) /\ journal.state = "published") /\ Goto(p, "finalize", DonePc(p))
        /\ UNCHANGED tx
  /\ UNCHANGED <<dbVars, diskVars, seen, arch, todo, lease, phase, ids, faults>>

-----------------------------------------------------------------------------
(* Restore: read the archive, stage its media, commit, publish.            *)

\* The archive is decrypted and validated, the lease checked, an id drawn;
\* or the archive is refused.
ReadArchive(p) ==
  /\ \/ /\ lease = p /\ Goto(p, "archive", "begin")
        /\ \E a \in Archives, i \in ids :
             /\ arch' = [arch EXCEPT ![p] = a]
             /\ ids' = ids \ {i}
             /\ tx' = [tx EXCEPT ![p] = [id |-> i, state |-> "staging", files |-> {}]]
        /\ phase' = [phase EXCEPT ![p] = "restore"]
     \/ Goto(p, "archive", "release") /\ UNCHANGED <<arch, ids, tx, phase>>
  /\ UNCHANGED <<dbVars, diskVars, seen, todo, lease, faults>>

\* Broken variant: the journal is written before the id is drawn.
BeginRestoreWithoutId(p) ==
  /\ journal = NoJournal /\ Goto(p, "begin", "mkStaging")
  /\ journal' = [tx[p] EXCEPT !.id = NoId]
  /\ UNCHANGED <<dbVars, root, staging, rollback, memVars, lease, phase, ids, faults>>

\* BeginRestore persists its intent before it creates a directory.
BeginRestore(p) ==
  /\ \/ /\ journal = NoJournal /\ Goto(p, "begin", "mkStaging")
        /\ journal' = tx[p]
     \/ journal # NoJournal /\ Goto(p, "begin", "release") /\ UNCHANGED journal
  /\ UNCHANGED <<dbVars, root, staging, rollback, memVars, lease, phase, ids, faults>>

CreateStaging(p) ==
  /\ Goto(p, "mkStaging", "mkRollback")
  /\ staging' = [staging EXCEPT ![tx[p].id] = {Dot}]
  /\ UNCHANGED <<dbVars, root, rollback, journal, memVars, lease, phase, ids, faults>>

CreateRollback(p) ==
  /\ Goto(p, "mkRollback", "stage")
  /\ rollback' = [rollback EXCEPT ![tx[p].id] = {Dot}]
  /\ todo' = [todo EXCEPT ![p] = arch[p]]
  /\ UNCHANGED <<dbVars, root, staging, journal, tx, seen, arch, lease, phase, ids, faults>>

\* restoreArchiveMedia: one file per step, then Seal records the target set.
\* CheckLocal notices a lost lease only once the renewal loop has.
RestoreArchiveMedia(p) ==
  /\ pc[p] = "stage"
  /\ \/ /\ Current(p) /\ journal.state = "staging"
        /\ \/ \E k \in todo[p] :
                /\ staging' = [staging EXCEPT ![tx[p].id] = @ \cup {k}]
                /\ todo' = [todo EXCEPT ![p] = @ \ {k}]
                /\ UNCHANGED <<journal, tx, pc>>
           \/ /\ todo[p] = {} /\ staging[tx[p].id] = arch[p] \cup {Dot}
              /\ Goto(p, "stage", "leaseDb")
              /\ WriteJournal(p, [tx[p] EXCEPT !.state = "staged", !.files = arch[p]])
              /\ UNCHANGED <<staging, todo>>
     \/ /\ ~(Current(p) /\ journal.state = "staging") \/ lease # p
        /\ Goto(p, "stage", "rollback")
        /\ UNCHANGED <<staging, todo, journal, tx>>
  /\ UNCHANGED <<dbVars, root, rollback, seen, arch, lease, phase, ids, faults>>

\* requireRestoreLease asks Redis before each destructive stage.
CheckLeaseBeforeDatabase(p) ==
  /\ \/ lease = p /\ Goto(p, "leaseDb", "dbTx")
     \/ lease # p /\ Goto(p, "leaseDb", "rollback")
  /\ UNCHANGED <<dbVars, diskVars, memVars, lease, phase, ids, faults>>

CheckLeaseBeforePublish(p) ==
  /\ \/ lease = p /\ Goto(p, "leasePub", "publish")
     \/ lease # p /\ Goto(p, "leasePub", "release")
  /\ UNCHANGED <<dbVars, diskVars, memVars, lease, phase, ids, faults>>

\* RestoreBackupWithMarker replaces the tables and the marker in one
\* transaction.  The response to COMMIT may be lost.
CommitDatabase(p) ==
  /\ pc[p] = "dbTx"
  /\ db' = arch[p] /\ marker' = tx[p].id
  /\ \/ Goto(p, "dbTx", "leasePub")
     \/ Goto(p, "dbTx", "dbCheck")
  /\ UNCHANGED <<diskVars, memVars, lease, phase, ids, faults>>

\* Broken variant: the error of the transaction is ignored.
IgnoredDatabaseFails(p) ==
  /\ Goto(p, "dbTx", "leasePub")
  /\ UNCHANGED <<dbVars, diskVars, memVars, lease, phase, ids, faults>>

\* The transaction fails and leaves the old data.
DatabaseFails(p) ==
  /\ Goto(p, "dbTx", "dbCheck")
  /\ UNCHANGED <<dbVars, diskVars, memVars, lease, phase, ids, faults>>

\* Broken variant: an error of the transaction is taken for a rollback.
UncheckedCheckMarker(p) ==
  /\ Goto(p, "dbCheck", "rollback")
  /\ UNCHANGED <<dbVars, diskVars, memVars, lease, phase, ids, faults>>

\* After an error the marker decides whether the transaction took effect.
CheckMarker(p) ==
  /\ pc[p] = "dbCheck"
  /\ \/ marker = NoId /\ Goto(p, "dbCheck", "rollback")
     \/ marker = tx[p].id /\ Goto(p, "dbCheck", "leasePub")
     \/ marker \notin {NoId, tx[p].id} /\ Goto(p, "dbCheck", "release")
  /\ UNCHANGED <<dbVars, diskVars, memVars, lease, phase, ids, faults>>

-----------------------------------------------------------------------------
\* Broken variant: a marker that cannot be read counts as absent.
RollbackOnUnknownMarker(p) ==
  CASE pc[p] \in {"mkStaging", "mkRollback"}     -> "cleanup"
    [] pc[p] \in {"stage", "leaseDb", "dbCheck"} -> "rollback"
    [] OTHER                                     -> AbortPc(p)

\* An operation of the file system, of MySQL or of Redis returns an error: each
\* stage hands over to its caller's error path.
FailTo(p) ==
  CASE pc[p] \in {"mkStaging", "mkRollback"}               -> "cleanup"
    [] pc[p] \in {"stage", "leaseDb"}                      -> "rollback"
    [] pc[p] \in {"begin", "dbCheck", "leasePub"}          -> "release"
    [] pc[p] = "finalize"                                  -> DonePc(p)
    [] pc[p] = "cleanup" /\ tx[p].state = "published"      -> DonePc(p)
    [] OTHER                                               -> AbortPc(p)

FailingPcs == (BusyPcs \ {"archive", "dbTx", "release", "exit"})

OperationFails(p) ==
  /\ faults < MaxFaults /\ faults' = faults + 1
  /\ pc[p] \in FailingPcs
  /\ pc' = [pc EXCEPT ![p] = FailTo(p)]
  /\ UNCHANGED <<dbVars, diskVars, memVars, lease, phase, ids>>

Recovery(p) == ReadMarker(p) \/ RecoverRestore(p)

Undo(p) ==
  Rollback(p) \/ RemovePublishedMedia(p) \/ RestoreRollbackMedia(p) \/ Cleanup(p)

Publication(p) ==
  \/ Publish(p) \/ PublishPhase(p) \/ MoveCurrentMediaToRollback(p)
  \/ MoveStagedMediaToRoot(p) \/ ClearMarker(p) \/ Finalize(p)

Staging(p) ==
  \/ ReadArchive(p) \/ BeginRestore(p) \/ CreateStaging(p) \/ CreateRollback(p)
  \/ RestoreArchiveMedia(p)

Database(p) ==
  \/ CheckLeaseBeforeDatabase(p) \/ CommitDatabase(p) \/ DatabaseFails(p)
  \/ CheckMarker(p) \/ CheckLeaseBeforePublish(p)

\* What a running process does next, once it has the lease.
Proceed(p) == Recovery(p) \/ Undo(p) \/ Publication(p) \/ Staging(p) \/ Database(p) \/ ReleaseLease(p)

Next ==
  \/ LeaseExpires
  \/ \E p \in Procs : Boot(p) \/ RequestRestore(p) \/ Proceed(p) \/ Crash(p) \/ OperationFails(p)

Spec == Init /\ [][Next]_vars

(* A running process takes its next step; the key of a dead owner expires; a   *)
(* container that exited is restarted (restart: unless-stopped).               *)
Fairness ==
  /\ WF_vars(LeaseExpires)
  /\ \A p \in Procs : WF_vars(Proceed(p)) /\ WF_vars(Boot(p))

FairSpec == Spec /\ Fairness

\* The administrator asks again until the restore goes through.
PersistentSpec == FairSpec /\ \A p \in Procs : WF_vars(RequestRestore(p))

-----------------------------------------------------------------------------
(* Properties.                                                             *)

Busy(p) == pc[p] \in BusyPcs

\* Only the process that owns the Redis key is between acquiring and releasing
\* it: no two processes restore, recover or roll back at the same time.
OnlyLeaseOwnerRestores == \A p \in Procs : Busy(p) => lease = p

\* The marker row never refers to a restore whose sealed journal is missing,
\* unsealed or of another restore, and it names the media of the database it
\* was committed with: RecoverRestore can always finish a committed restore.
CommittedRestoreIsRecoverable ==
  marker # NoId =>
    /\ journal # NoJournal
    /\ journal.id = marker
    /\ journal.state # "staging"
    /\ journal.files = db

\* Every file the database refers to is on the volume: in the root or, while its
\* restore is still being published, in that restore's staging directory.
NoReferencedMediaLost ==
  db \subseteq root \cup (IF marker = NoId THEN {} ELSE staging[marker])

\* Once no restore is under way the media root holds the files of the database
\* and no others: nothing of a failed restore stays, nothing of the old site.
SettledMediaMatchesDatabase ==
  journal = NoJournal /\ marker = NoId => root = db

\* Files leave the root for the rollback directory only for a committed restore,
\* so the reverse path of Rollback is never needed on its own.
PublicationOnlyAfterCommit ==
  journal # NoJournal /\ journal.state \in {"publishing_old", "publishing_new"}
    => marker = journal.id

\* The marker is cleared only after the whole restored media set is in the root.
MarkerClearedOnlyWhenPublished ==
  [][marker # NoId /\ marker' # marker
       => marker' = NoId /\ journal.state = "published" /\ root = db]_vars

\* Recovery at start-up never meets a state it refuses: a process exits only
\* because an operation failed, not because of what an earlier one left behind.
StartupNeverRefuses ==
  [][\A p \in Procs :
       Busy(p) /\ pc[p] # "exit" /\ pc'[p] = "exit" => faults' = faults + 1]_vars

\* The media the site has once recovery has run: the root, or what a committed
\* restore has put and can still put there.
ReachableMedia ==
  IF marker = NoId THEN root ELSE {k \in journal.files : k \in root \cup staging[marker]}

\* To the rest of the system the restore is atomic: database and media change in
\* the step that commits the transaction, whatever the renames do later.
Atomic == INSTANCE AtomicRestore WITH data <- db, media <- ReachableMedia, pending <- marker
AtomicSpec == Atomic!Spec

\* Maintenance always ends: the Redis key that makes the site refuse writes is
\* never held for good, whoever dies in whatever state.
MaintenanceEnds == []<>(lease = Free)

\* A committed restore is eventually settled.
RestoreConverges == (marker # NoId) ~> (marker = NoId)

-----------------------------------------------------------------------------
(* The inductive invariant behind them: what the volume and the database look  *)
(* like for each journal, and what a process may rely on at each step.         *)

\* A restore whose files can still all be put in place.
FullyStaged == staging[journal.id] = journal.files \cup {Dot}

JournalInv ==
  LET i == journal.id IN
  /\ i \notin ids
  /\ \A o \in Ids \ {i} : staging[o] = {} /\ rollback[o] = {}
  /\ marker \in {NoId, i}
  /\ marker = i => db = journal.files
  /\ journal.state = "staging" => marker = NoId
  /\ journal.state \in {"staging", "staged"} =>
       /\ rollback[i] \subseteq {Dot}
       /\ marker = NoId => root = db
       /\ marker = i => FullyStaged
  /\ journal.state = "publishing_old" =>
       /\ marker = i /\ FullyStaged
       /\ root \cap rollback[i] = {}
  /\ journal.state = "publishing_new" =>
       /\ marker = i
       /\ \A k \in Keys : k \in journal.files <=> (k \in root \/ k \in staging[i])
       /\ root \cap staging[i] = {}
  /\ journal.state = "published" => root = db

DiskInv ==
  IF journal = NoJournal
  THEN /\ marker = NoId /\ root = db
       /\ \A o \in Ids : staging[o] = {} /\ rollback[o] = {}
  ELSE JournalInv

\* The transaction in memory is the one on disk, and the marker is as said.
Holds(p, m) == journal # NoJournal /\ tx[p] = journal /\ marker = m

PcInv(p) ==
  /\ pc[p] = "load" => seen[p] = marker
  /\ pc[p] \in {"rollback", "cleanup", "finalize"} =>
       Holds(p, NoId) /\ journal.state \notin {"publishing_old", "publishing_new"}
  /\ pc[p] = "rollback" => journal.state # "published"
  /\ pc[p] = "finalize" => journal.state = "published"
  /\ pc[p] \notin {"unpublish", "undo"}
  /\ pc[p] \in PublishPcs \cup {"leasePub"} => Holds(p, journal.id) /\ journal.state # "staging"
  /\ pc[p] = "leasePub" => journal.state = "staged"
  /\ pc[p] = "moveOld" =>
       journal.state = "publishing_old" /\ todo[p] = root /\ Dot \in rollback[journal.id]
  /\ pc[p] = "moveNew" =>
       /\ journal.state = "publishing_new"
       /\ todo[p] \subseteq journal.files /\ journal.files \ todo[p] \subseteq root
  /\ pc[p] = "clear" => Holds(p, journal.id) /\ journal.state = "published"
  /\ pc[p] \in {"archive", "begin"} => marker = NoId
  /\ pc[p] = "begin" =>
       /\ tx[p] # NoJournal /\ tx[p].id \notin ids
       /\ tx[p].state = "staging" /\ tx[p].files = {}
  /\ pc[p] \in {"mkStaging", "mkRollback", "stage"} =>
       Holds(p, NoId) /\ journal.state = "staging"
  /\ pc[p] \in {"leaseDb", "dbTx"} =>
       /\ Holds(p, NoId) /\ journal.state = "staged"
       /\ journal.files = arch[p] /\ FullyStaged
  /\ pc[p] = "dbCheck" => journal # NoJournal /\ tx[p] = journal /\ journal.state = "staged"

IInv ==
  /\ TypeOK
  /\ OnlyLeaseOwnerRestores
  /\ DiskInv
  /\ \A p \in Procs : PcInv(p)
=============================================================================
