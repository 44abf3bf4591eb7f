------------------------- MODULE SiteRestore_proofs -------------------------
(***************************************************************************)
(* Proofs about SiteRestore for any number of processes, media files,      *)
(* restores and faults, and about RestoreManualDump for any number of      *)
(* processes, media files and restores and at most one fault.              *)
(***************************************************************************)
EXTENDS RestoreManualDump, TLAPS

\* A process that is not between acquiring and releasing the lease has nothing
\* to rely on.
LEMMA IdlePc ==
  ASSUME NEW q \in Procs, pc[q] \in {"down", "serving"}
  PROVE  PcInv(q)
BY DEF PcInv, PublishPcs

\* While p is busy every other process is idle.
LEMMA OthersIdle ==
  ASSUME TypeOK, OnlyLeaseOwnerRestores, NEW p \in Procs, Busy(p), NEW q \in Procs, q # p
  PROVE  pc[q] \in {"down", "serving"}
BY DEF TypeOK, OnlyLeaseOwnerRestores, Busy, Pcs

\* The continuation of a finished or failed stage is a step of the program.
LEMMA Continuations ==
  ASSUME NEW p \in Procs
  PROVE  /\ AbortPc(p) \in {"exit", "release"}
         /\ DonePc(p) \in {"archive", "release"}
BY DEF AbortPc, DonePc

\* Nothing of the invariant is claimed of a process about to release the lease.
LEMMA ReleasingPc ==
  ASSUME NEW p \in Procs, pc[p] \in {"exit", "release", "recover"}
  PROVE  PcInv(p)
BY DEF PcInv, PublishPcs

\* A fresh site satisfies the invariant.
LEMMA InitInv == Init => IInv
<1> SUFFICES ASSUME Init PROVE IInv
  OBVIOUS
<1>1. TypeOK
  BY ConstantsAssumption DEF Init, TypeOK, Pcs, Phases
<1>2. OnlyLeaseOwnerRestores
  BY DEF Init, OnlyLeaseOwnerRestores, Busy, BusyPcs, RecoveryPcs, RollbackPcs, PublishPcs,
     FinishPcs, RestorePcs
<1>3. DiskInv
  BY DEF Init, DiskInv
<1>4. \A p \in Procs : PcInv(p)
  BY IdlePc DEF Init
<1> QED
  BY <1>1, <1>2, <1>3, <1>4 DEF IInv

\* A step that leaves the lease with its owner p, and every other process where
\* it was, keeps the lease exclusive and the other processes idle.
LEMMA OwnerStep ==
  ASSUME IInv, NEW p \in Procs, Busy(p), NEW to \in Pcs,
         pc' = [pc EXCEPT ![p] = to], lease' = lease,
         TypeOK', DiskInv', PcInv(p)'
  PROVE  IInv'
<1>1. ASSUME NEW q \in Procs, q # p PROVE pc'[q] \in {"down", "serving"}
  BY <1>1, OthersIdle DEF IInv, TypeOK
<1>2. OnlyLeaseOwnerRestores'
  BY <1>1 DEF IInv, OnlyLeaseOwnerRestores, Busy, BusyPcs, RecoveryPcs, RollbackPcs,
     PublishPcs, FinishPcs, RestorePcs, TypeOK
<1>3. ASSUME NEW q \in Procs PROVE PcInv(q)'
  <2>1. CASE q = p
    BY <2>1
  <2>2. CASE q # p
    BY <1>1, <2>2 DEF PcInv, PublishPcs
  <2> QED
    BY <2>1, <2>2
<1> QED
  BY <1>2, <1>3 DEF IInv

\* Actions that touch neither the database nor the volume keep the invariant of both.
LEMMA SameDisk ==
  ASSUME DiskInv, UNCHANGED <<dbVars, diskVars>>, ids' \subseteq ids
  PROVE  DiskInv'
BY DEF DiskInv, JournalInv, FullyStaged, dbVars, diskVars

\* Recovery starts from the marker as it is in the database.
LEMMA ReadMarkerInv ==
  ASSUME IInv, NEW p \in Procs, ReadMarker(p)
  PROVE  IInv'
<1> USE DEF IInv, ReadMarker, Goto
<1>1. Busy(p) /\ "load" \in Pcs
  BY DEF Busy, BusyPcs, RecoveryPcs, Pcs
<1>2. TypeOK'
  BY <1>1 DEF TypeOK, dbVars, diskVars
<1>3. DiskInv'
  BY SameDisk
<1>4. PcInv(p)'
  BY DEF TypeOK, PcInv, PublishPcs, dbVars
<1> QED
  BY <1>1, <1>2, <1>3, <1>4, OwnerStep

\* The branch RecoverRestore takes is one the journal and the marker allow.
LEMMA RecoverRestoreInv ==
  ASSUME IInv, NEW p \in Procs, RecoverRestore(p)
  PROVE  IInv'
<1> USE DEF IInv, RecoverRestore, Goto
<1> DEFINE to == RecoverTo(p)
<1>0. pc[p] = "load" /\ seen[p] = marker
  BY DEF PcInv
<1>1. Busy(p)
  BY DEF Busy, BusyPcs, RecoveryPcs
<1>2. to \in {"exit", "release", "archive", "finalize", "rollback", "publish"}
  BY Continuations DEF RecoverTo
<1>3. to \in Pcs
  BY <1>2 DEF Pcs, BusyPcs, RollbackPcs, PublishPcs, FinishPcs, RestorePcs
<1>4. TypeOK'
  BY <1>3 DEF TypeOK, dbVars, diskVars
<1>5. DiskInv'
  BY SameDisk
<1>6. PcInv(p)'
  <2>1. CASE to \in {"exit", "release"}
    BY <2>1 DEF TypeOK, PcInv, PublishPcs
  <2>2. CASE to = "archive"
    <3>1. journal = NoJournal /\ seen[p] = NoId
      BY <2>2, Continuations DEF RecoverTo
    <3> QED
      BY <2>2, <3>1, <1>0 DEF TypeOK, PcInv, PublishPcs, dbVars
  <2>3. CASE to \in {"finalize", "rollback", "publish"}
    <3>1. journal # NoJournal /\ JournalInv
      BY <2>3, Continuations DEF RecoverTo, DiskInv
    <3>2. journal.id \in Ids /\ journal.id # NoId
      BY <3>1, ConstantsAssumption DEF TypeOK, Journals
    <3>3. /\ to = "finalize" => marker = NoId /\ journal.state = "published"
          /\ to = "rollback" => marker = NoId /\ journal.state # "published"
          /\ to = "publish" => marker = journal.id
      BY <3>1, <1>0, Continuations DEF RecoverTo
    <3> QED
      BY <2>3, <3>1, <3>2, <3>3 DEF TypeOK, PcInv, PublishPcs, Holds, JournalInv, dbVars, diskVars
  <2> QED
    BY <1>2, <2>1, <2>2, <2>3
<1> QED
  BY <1>1, <1>3, <1>4, <1>5, <1>6, OwnerStep

\* Rollback meets only a restore that was never published, so it only cleans up.
LEMMA RollbackInv ==
  ASSUME IInv, NEW p \in Procs, Rollback(p)
  PROVE  IInv'
<1> USE DEF IInv, Rollback, Goto
<1>1. Busy(p) /\ "cleanup" \in Pcs
  BY DEF Busy, BusyPcs, RollbackPcs, FinishPcs, Pcs
<1>2. /\ Holds(p, NoId) /\ Current(p)
      /\ journal.state \in {"staging", "staged"}
  BY DEF PcInv, Holds, Current, TypeOK, Journals, JournalStates
<1>3. pc' = [pc EXCEPT ![p] = "cleanup"] /\ tx' = [tx EXCEPT ![p] = journal] /\ todo' = todo
  BY <1>2
<1>4. TypeOK'
  BY <1>1, <1>3 DEF TypeOK, dbVars, diskVars
<1>5. DiskInv'
  BY SameDisk
<1>6. PcInv(p)'
  BY <1>2, <1>3 DEF TypeOK, PcInv, PublishPcs, Holds, dbVars, diskVars
<1> QED
  BY <1>1, <1>3, <1>4, <1>5, <1>6, OwnerStep

\* The invariant rules the two reverse loops out.
LEMMA NoReverseLoop ==
  ASSUME IInv, NEW p \in Procs
  PROVE  ~RemovePublishedMedia(p) /\ ~RestoreRollbackMedia(p)
BY DEF IInv, PcInv, RemovePublishedMedia, RestoreRollbackMedia

\* cleanup runs for a restore that was not committed, or is complete: nothing it
\* removes is needed, and the journal goes last.
LEMMA CleanupInv ==
  ASSUME IInv, NEW p \in Procs, Cleanup(p)
  PROVE  IInv'
<1> USE DEF IInv, Cleanup, Goto
<1> DEFINE i == tx[p].id
<1>1. Busy(p)
  BY DEF Busy, BusyPcs, FinishPcs
<1>2. /\ Holds(p, NoId) /\ journal.state \in {"staging", "staged", "published"}
      /\ i \in Ids /\ i = journal.id /\ i # NoId /\ JournalInv /\ root = db
  BY ConstantsAssumption DEF PcInv, Holds, TypeOK, Journals, JournalStates, DiskInv, JournalInv
<1>3. CASE Shrinks(staging, i) /\ UNCHANGED <<rollback, journal, pc>>
  <2>1. PICK e \in staging[i] : staging' = [staging EXCEPT ![i] = @ \ {e}]
    BY <1>3 DEF Shrinks
  <2>2. TypeOK'
    BY <2>1, <1>2, <1>3 DEF TypeOK, dbVars, memVars
  <2>3. DiskInv'
    BY <2>1, <1>2, <1>3 DEF DiskInv, JournalInv, FullyStaged, Holds, TypeOK, dbVars
  <2>4. PcInv(p)'
    BY <1>2, <1>3 DEF PcInv, Holds, PublishPcs, dbVars, memVars
  <2> QED
    BY <2>2, <2>3, <2>4, <1>1, <1>3, OwnerStep DEF TypeOK, Pcs
<1>4. CASE staging[i] = {} /\ Shrinks(rollback, i) /\ UNCHANGED <<staging, journal, pc>>
  <2>1. PICK e \in rollback[i] : rollback' = [rollback EXCEPT ![i] = @ \ {e}]
    BY <1>4 DEF Shrinks
  <2>2. TypeOK'
    BY <2>1, <1>2, <1>4 DEF TypeOK, dbVars, memVars
  <2>3. DiskInv'
    BY <2>1, <1>2, <1>4 DEF DiskInv, JournalInv, FullyStaged, Holds, TypeOK, dbVars
  <2>4. PcInv(p)'
    BY <1>2, <1>4 DEF PcInv, Holds, PublishPcs, dbVars, memVars
  <2> QED
    BY <2>2, <2>3, <2>4, <1>1, <1>4, OwnerStep DEF TypeOK, Pcs
<1>5. CASE /\ staging[i] = {} /\ rollback[i] = {} /\ journal' = NoJournal
           /\ Goto(p, "cleanup", DonePc(p)) /\ UNCHANGED <<staging, rollback>>
  <2>1. DonePc(p) \in Pcs
    BY Continuations DEF Pcs, BusyPcs, FinishPcs, RestorePcs
  <2>2. TypeOK'
    BY <2>1, <1>5 DEF TypeOK, dbVars, memVars
  <2>3. DiskInv'
    BY <1>2, <1>5 DEF DiskInv, JournalInv, Holds, dbVars
  <2>4. PcInv(p)'
    BY Continuations, <1>2, <1>5 DEF TypeOK, PcInv, Holds, PublishPcs, dbVars
  <2> QED
    BY <2>1, <2>2, <2>3, <2>4, <1>1, <1>5, OwnerStep
<1> QED
  BY <1>3, <1>4, <1>5

\* Publish starts with the sealed journal of the committed restore.
LEMMA PublishInv ==
  ASSUME IInv, NEW p \in Procs, Publish(p)
  PROVE  IInv'
<1> USE DEF IInv, Publish, Goto
<1>1. Busy(p) /\ "pub" \in Pcs
  BY DEF Busy, BusyPcs, PublishPcs, Pcs
<1>2. Holds(p, journal.id) /\ journal.state # "staging"
  BY DEF PcInv, PublishPcs
<1>3. pc' = [pc EXCEPT ![p] = "pub"] /\ tx' = [tx EXCEPT ![p] = journal]
  BY <1>2 DEF Holds, Current
<1>4. TypeOK'
  BY <1>1, <1>3 DEF TypeOK, dbVars, diskVars
<1>5. DiskInv'
  BY SameDisk
<1>6. PcInv(p)'
  BY <1>2, <1>3 DEF TypeOK, PcInv, PublishPcs, Holds, dbVars, diskVars
<1> QED
  BY <1>1, <1>3, <1>4, <1>5, <1>6, OwnerStep

\* Each phase of the publication starts with what the journal says has been moved.
LEMMA PublishPhaseInv ==
  ASSUME IInv, NEW p \in Procs, PublishPhase(p)
  PROVE  IInv'
<1> USE DEF IInv, PublishPhase, Goto
<1> DEFINE i == journal.id
<1>1. Busy(p) /\ {"moveOld", "moveNew", "clear"} \subseteq Pcs
  BY DEF Busy, BusyPcs, PublishPcs, FinishPcs, Pcs
<1>2. /\ Holds(p, i) /\ journal.state # "staging" /\ tx[p] = journal
      /\ journal \in Journals /\ i \in Ids /\ i # NoId /\ JournalInv
  BY ConstantsAssumption DEF PcInv, PublishPcs, Holds, TypeOK, Journals, DiskInv
<1>3. CASE tx[p].state = "staged"
  <2> DEFINE j == [journal EXCEPT !.state = "publishing_old"]
  <2>1. /\ journal' = j /\ tx' = [tx EXCEPT ![p] = j]
        /\ UNCHANGED <<pc, rollback, todo>>
    BY <1>2, <1>3 DEF WriteJournal
  <2>2. /\ j \in Journals /\ j # NoJournal /\ j.id = i /\ j.files = journal.files
        /\ j.state = "publishing_old"
    BY <1>2, NoJournalAssumption DEF Journals, JournalStates
  <2>3. TypeOK'
    BY <2>1, <2>2 DEF TypeOK, dbVars
  <2>4. DiskInv'
    BY <2>1, <2>2, <1>2, <1>3, ConstantsAssumption
    DEF DiskInv, JournalInv, FullyStaged, Holds, TypeOK, dbVars
  <2>5. PcInv(p)'
    BY <2>1, <2>2, <1>2 DEF TypeOK, PcInv, PublishPcs, Holds, dbVars
  <2> QED
    BY <2>1, <2>3, <2>4, <2>5, <1>1, OwnerStep DEF TypeOK
<1>4. CASE tx[p].state = "publishing_old"
  <2>1. /\ pc' = [pc EXCEPT ![p] = "moveOld"]
        /\ rollback' = [rollback EXCEPT ![i] = @ \cup {Dot}]
        /\ todo' = [todo EXCEPT ![p] = root] /\ UNCHANGED <<journal, tx>>
    BY <1>2, <1>4
  <2>2. TypeOK'
    BY <2>1, <1>1, <1>2 DEF TypeOK, dbVars
  <2>3. DiskInv'
    BY <2>1, <1>2, <1>4, ConstantsAssumption
    DEF DiskInv, JournalInv, FullyStaged, Holds, TypeOK, dbVars
  <2>4. PcInv(p)'
    BY <2>1, <1>2, <1>4 DEF TypeOK, PcInv, PublishPcs, Holds, dbVars
  <2> QED
    BY <2>1, <2>2, <2>3, <2>4, <1>1, OwnerStep
<1>5. CASE tx[p].state = "publishing_new"
  <2>1. /\ pc' = [pc EXCEPT ![p] = "moveNew"]
        /\ todo' = [todo EXCEPT ![p] = journal.files] /\ UNCHANGED <<journal, tx, rollback>>
    BY <1>2, <1>5
  <2>2. TypeOK'
    BY <2>1, <1>1, <1>2 DEF TypeOK, Journals, dbVars
  <2>3. DiskInv'
    BY <2>1, SameDisk DEF diskVars
  <2>4. PcInv(p)'
    BY <2>1, <1>2, <1>5 DEF TypeOK, PcInv, PublishPcs, Holds, dbVars
  <2> QED
    BY <2>1, <2>2, <2>3, <2>4, <1>1, OwnerStep
<1>6. CASE tx[p].state = "published"
  <2>1. pc' = [pc EXCEPT ![p] = "clear"] /\ UNCHANGED <<journal, tx, rollback, todo>>
    BY <1>2, <1>6
  <2>2. TypeOK'
    BY <2>1, <1>1, <1>2 DEF TypeOK, dbVars
  <2>3. DiskInv'
    BY <2>1, SameDisk DEF diskVars
  <2>4. PcInv(p)'
    BY <2>1, <1>2, <1>6 DEF TypeOK, PcInv, PublishPcs, Holds, dbVars
  <2> QED
    BY <2>1, <2>2, <2>3, <2>4, <1>1, OwnerStep
<1> QED
  BY <1>3, <1>4, <1>5, <1>6

\* The old media leave the root one by one, none over another; then the root is empty.
LEMMA MoveCurrentInv ==
  ASSUME IInv, NEW p \in Procs, MoveCurrentMediaToRollback(p)
  PROVE  IInv'
<1> USE DEF IInv, MoveCurrentMediaToRollback, Goto
<1> DEFINE i == journal.id
<1>1. Busy(p) /\ "pub" \in Pcs
  BY DEF Busy, BusyPcs, PublishPcs, Pcs
<1>2. /\ Holds(p, i) /\ journal.state = "publishing_old" /\ tx[p] = journal
      /\ todo[p] = root /\ Dot \in rollback[i]
      /\ journal \in Journals /\ i \in Ids /\ i # NoId /\ JournalInv
      /\ root \in SUBSET Keys /\ Dot \notin Keys
  BY ConstantsAssumption DEF PcInv, PublishPcs, Holds, TypeOK, Journals, DiskInv
<1>3. CASE \E k \in todo[p] :
             /\ k \in root => Dot \in rollback[i] /\ k \notin rollback[i]
             /\ root' = root \ {k}
             /\ rollback' = [rollback EXCEPT ![i] = @ \cup ({k} \cap root)]
             /\ todo' = [todo EXCEPT ![p] = @ \ {k}]
             /\ UNCHANGED <<journal, tx, pc>>
  <2>1. PICK k \in root : /\ root' = root \ {k}
                          /\ rollback' = [rollback EXCEPT ![i] = @ \cup ({k} \cap root)]
                          /\ todo' = [todo EXCEPT ![p] = @ \ {k}]
                          /\ UNCHANGED <<journal, tx, pc>>
    BY <1>2, <1>3
  <2>2. TypeOK'
    BY <2>1, <1>2 DEF TypeOK, dbVars
  <2>3. DiskInv'
    BY <2>1, <1>2 DEF DiskInv, JournalInv, FullyStaged, Holds, TypeOK, dbVars
  <2>4. PcInv(p)'
    BY <2>1, <1>2 DEF TypeOK, PcInv, PublishPcs, Holds, dbVars
  <2> QED
    BY <2>1, <2>2, <2>3, <2>4, <1>1, OwnerStep DEF TypeOK
<1>4. ~ \E k \in todo[p] \cap root : Dot \in rollback[i] => k \in rollback[i]
  BY <1>2 DEF JournalInv
<1>5. CASE /\ todo[p] = {} /\ Goto(p, "moveOld", "pub")
           /\ WriteJournal(p, [tx[p] EXCEPT !.state = "publishing_new"])
           /\ UNCHANGED <<root, rollback, todo>>
  <2> DEFINE j == [journal EXCEPT !.state = "publishing_new"]
  <2>1. /\ journal' = j /\ tx' = [tx EXCEPT ![p] = j] /\ pc' = [pc EXCEPT ![p] = "pub"]
        /\ UNCHANGED <<root, rollback, staging, todo>>
    BY <1>2, <1>5 DEF WriteJournal
  <2>2. /\ j \in Journals /\ j # NoJournal /\ j.id = i /\ j.files = journal.files
        /\ j.state = "publishing_new"
    BY <1>2, NoJournalAssumption DEF Journals, JournalStates
  <2>3. TypeOK'
    BY <2>1, <2>2, <1>1 DEF TypeOK, dbVars
  <2>4. DiskInv'
    <3>1. root = {} /\ staging[i] = journal.files \cup {Dot} /\ journal.files \subseteq Keys
      BY <1>2, <1>5 DEF JournalInv, FullyStaged, Journals
    <3> QED
      BY <2>1, <2>2, <1>2, <3>1 DEF DiskInv, JournalInv, Holds, TypeOK, dbVars
  <2>5. PcInv(p)'
    BY <2>1, <2>2, <1>2 DEF TypeOK, PcInv, PublishPcs, Holds, dbVars
  <2> QED
    BY <2>1, <2>3, <2>4, <2>5, <1>1, OwnerStep
<1> QED
  BY <1>2, <1>3, <1>4, <1>5

\* Every sealed file is in the root or in staging until all are in the root.
LEMMA MoveStagedInv ==
  ASSUME IInv, NEW p \in Procs, MoveStagedMediaToRoot(p)
  PROVE  IInv'
<1> USE DEF IInv, MoveStagedMediaToRoot, Goto
<1> DEFINE i == journal.id
           Stuck(k) == (k \in staging[i]) <=> (k \in root)
<1>1. Busy(p) /\ "clear" \in Pcs
  BY DEF Busy, BusyPcs, PublishPcs, FinishPcs, Pcs
<1>2. /\ Holds(p, i) /\ journal.state = "publishing_new" /\ tx[p] = journal
      /\ todo[p] \subseteq journal.files /\ journal.files \ todo[p] \subseteq root
      /\ journal \in Journals /\ i \in Ids /\ i # NoId /\ JournalInv
      /\ journal.files \subseteq Keys /\ root \subseteq Keys
  BY ConstantsAssumption DEF PcInv, PublishPcs, Holds, TypeOK, Journals, DiskInv
<1>3. ~ \E k \in todo[p] : Stuck(k)
  BY <1>2 DEF JournalInv
<1>4. CASE \E k \in todo[p] :
             /\ ~Stuck(k)
             /\ root' = root \cup {k}
             /\ staging' = [staging EXCEPT ![i] = @ \ {k}]
             /\ todo' = [todo EXCEPT ![p] = @ \ {k}]
             /\ UNCHANGED <<journal, tx, pc>>
  <2>1. PICK k \in todo[p] : /\ ~Stuck(k)
                             /\ root' = root \cup {k}
                             /\ staging' = [staging EXCEPT ![i] = @ \ {k}]
                             /\ todo' = [todo EXCEPT ![p] = @ \ {k}]
                             /\ UNCHANGED <<journal, tx, pc>>
    BY <1>4
  <2>2. k \in journal.files /\ k \in Keys
    BY <1>2
  <2>3. TypeOK'
    BY <2>1, <2>2, <1>2 DEF TypeOK, dbVars
  <2>4. DiskInv'
    BY <2>1, <2>2, <1>2 DEF DiskInv, JournalInv, FullyStaged, Holds, TypeOK, dbVars
  <2>5. PcInv(p)'
    BY <2>1, <2>2, <1>2 DEF TypeOK, PcInv, PublishPcs, Holds, dbVars
  <2> QED
    BY <2>1, <2>3, <2>4, <2>5, <1>1, OwnerStep DEF TypeOK
<1>5. CASE /\ todo[p] = {} /\ Goto(p, "moveNew", "clear")
           /\ WriteJournal(p, [tx[p] EXCEPT !.state = "published"])
           /\ UNCHANGED <<root, staging, todo>>
  <2> DEFINE j == [journal EXCEPT !.state = "published"]
  <2>1. /\ journal' = j /\ tx' = [tx EXCEPT ![p] = j] /\ pc' = [pc EXCEPT ![p] = "clear"]
        /\ UNCHANGED <<root, rollback, staging, todo>>
    BY <1>2, <1>5 DEF WriteJournal
  <2>2. /\ j \in Journals /\ j # NoJournal /\ j.id = i /\ j.files = journal.files
        /\ j.state = "published"
    BY <1>2, NoJournalAssumption DEF Journals, JournalStates
  <2>3. TypeOK'
    BY <2>1, <2>2, <1>1 DEF TypeOK, dbVars
  <2>4. DiskInv'
    <3>1. root = journal.files /\ db = journal.files
      BY <1>2, <1>5 DEF JournalInv
    <3> QED
      BY <2>1, <2>2, <1>2, <3>1 DEF DiskInv, JournalInv, Holds, TypeOK, dbVars
  <2>5. PcInv(p)'
    BY <2>1, <2>2, <1>2 DEF TypeOK, PcInv, PublishPcs, Holds, dbVars
  <2> QED
    BY <2>1, <2>3, <2>4, <2>5, <1>1, OwnerStep
<1> QED
  BY <1>2, <1>3, <1>4, <1>5

\* The marker goes when the root holds the restored media.
LEMMA ClearMarkerInv ==
  ASSUME IInv, NEW p \in Procs, ClearMarker(p)
  PROVE  IInv'
<1> USE DEF IInv, ClearMarker, Goto
<1>1. Busy(p)
  BY DEF Busy, BusyPcs, FinishPcs
<1>2. /\ Holds(p, journal.id) /\ journal.state = "published" /\ tx[p] = journal
      /\ journal.id \in Ids /\ journal.id # NoId /\ JournalInv
  BY ConstantsAssumption DEF PcInv, Holds, TypeOK, Journals, DiskInv
<1>3. PICK to \in {"finalize", "exit", "release"} : pc' = [pc EXCEPT ![p] = to]
  BY <1>2, Continuations DEF Holds
<1>4. marker' = NoId /\ to \in Pcs /\ faults' \in 0 .. MaxFaults
  BY <1>2, ConstantsAssumption DEF Holds, TypeOK, Pcs, BusyPcs, FinishPcs
<1>5. TypeOK'
  BY <1>3, <1>4 DEF TypeOK, diskVars, memVars
<1>6. DiskInv'
  BY <1>2, <1>4 DEF DiskInv, JournalInv, Holds, diskVars
<1>7. PcInv(p)'
  BY <1>2, <1>3, <1>4 DEF TypeOK, PcInv, PublishPcs, Holds, diskVars, memVars
<1> QED
  BY <1>1, <1>3, <1>4, <1>5, <1>6, <1>7, OwnerStep

\* Finalize meets the published journal of its own restore.
LEMMA FinalizeInv ==
  ASSUME IInv, NEW p \in Procs, Finalize(p)
  PROVE  IInv'
<1> USE DEF IInv, Finalize, Goto
<1>1. Busy(p) /\ "cleanup" \in Pcs
  BY DEF Busy, BusyPcs, FinishPcs, Pcs
<1>2. Holds(p, NoId) /\ Current(p) /\ journal.state = "published"
  BY DEF PcInv, Holds, Current
<1>3. pc' = [pc EXCEPT ![p] = "cleanup"] /\ tx' = [tx EXCEPT ![p] = journal]
  BY <1>2
<1>4. TypeOK'
  BY <1>1, <1>3 DEF TypeOK, dbVars, diskVars
<1>5. DiskInv'
  BY SameDisk
<1>6. PcInv(p)'
  BY <1>2, <1>3 DEF TypeOK, PcInv, PublishPcs, Holds, dbVars, diskVars
<1> QED
  BY <1>1, <1>3, <1>4, <1>5, <1>6, OwnerStep

\* A new restore draws an id no other restore has used.
LEMMA ReadArchiveInv ==
  ASSUME IInv, NEW p \in Procs, ReadArchive(p)
  PROVE  IInv'
<1> USE DEF IInv, ReadArchive, Goto
<1>1. Busy(p) /\ {"begin", "release"} \subseteq Pcs
  BY DEF Busy, BusyPcs, RestorePcs, FinishPcs, Pcs
<1>2. CASE Goto(p, "archive", "release") /\ UNCHANGED <<arch, ids, tx, phase>>
  <2>1. TypeOK'
    BY <1>1, <1>2 DEF TypeOK, dbVars, diskVars
  <2>2. DiskInv'
    BY <1>2, SameDisk
  <2>3. PcInv(p)'
    BY <1>2, ReleasingPc DEF TypeOK, PcInv, PublishPcs
  <2> QED
    BY <1>1, <1>2, <2>1, <2>2, <2>3, OwnerStep
<1>3. CASE /\ Goto(p, "archive", "begin")
           /\ \E a \in Archives, i \in ids :
                /\ arch' = [arch EXCEPT ![p] = a]
                /\ ids' = ids \ {i}
                /\ tx' = [tx EXCEPT ![p] = [id |-> i, state |-> "staging", files |-> {}]]
           /\ phase' = [phase EXCEPT ![p] = "restore"]
  <2>1. PICK a \in Archives, i \in ids :
           /\ arch' = [arch EXCEPT ![p] = a] /\ ids' = ids \ {i}
           /\ tx' = [tx EXCEPT ![p] = [id |-> i, state |-> "staging", files |-> {}]]
           /\ phase' = [phase EXCEPT ![p] = "restore"]
    BY <1>3
  <2> DEFINE j == [id |-> i, state |-> "staging", files |-> {}]
  <2>2. j \in Journals /\ a \in SUBSET Keys /\ "restore" \in Phases /\ j # NoJournal
    BY <2>1, ConstantsAssumption, NoJournalAssumption
    DEF TypeOK, Journals, JournalStates, Phases
  <2>3. TypeOK'
    <3>1. /\ tx' \in [Procs -> Journals \cup {NoJournal}] /\ arch' \in [Procs -> SUBSET Keys]
          /\ phase' \in [Procs -> Phases] /\ ids' \in SUBSET Ids
      BY <2>1, <2>2 DEF TypeOK
    <3>2. pc' \in [Procs -> Pcs]
      BY <1>1, <1>3 DEF TypeOK
    <3> QED
      BY <3>1, <3>2 DEF TypeOK, dbVars, diskVars
  <2>4. DiskInv'
    BY <2>1, SameDisk
  <2>5. PcInv(p)'
    BY <1>3, <2>1, <2>2 DEF TypeOK, PcInv, PublishPcs, dbVars
  <2> QED
    BY <1>1, <1>3, <2>3, <2>4, <2>5, OwnerStep
<1> QED
  BY <1>2, <1>3

\* A journal is begun only when none is left, for a restore without a marker.
LEMMA BeginRestoreInv ==
  ASSUME IInv, NEW p \in Procs, BeginRestore(p)
  PROVE  IInv'
<1> USE DEF IInv, BeginRestore, Goto
<1>1. Busy(p) /\ {"mkStaging", "release"} \subseteq Pcs
  BY DEF Busy, BusyPcs, RestorePcs, FinishPcs, Pcs
<1>2. CASE journal = NoJournal
  <2>1. /\ pc' = [pc EXCEPT ![p] = "mkStaging"] /\ journal' = tx[p]
        /\ tx[p] \in Journals /\ tx[p] # NoJournal /\ tx[p].id \in Ids \ ids
        /\ tx[p].state = "staging" /\ marker = NoId
    BY <1>2 DEF PcInv, TypeOK, Journals
  <2>2. TypeOK'
    BY <1>1, <2>1 DEF TypeOK, dbVars, memVars
  <2>3. DiskInv'
    BY <1>2, <2>1, ConstantsAssumption DEF DiskInv, JournalInv, dbVars
  <2>4. PcInv(p)'
    BY <2>1 DEF TypeOK, PcInv, Holds, PublishPcs, dbVars, memVars
  <2> QED
    BY <1>1, <2>1, <2>2, <2>3, <2>4, OwnerStep
<1>3. CASE journal # NoJournal
  <2>1. TypeOK'
    BY <1>1, <1>3 DEF TypeOK, dbVars, memVars
  <2>2. DiskInv'
    BY <1>3, SameDisk DEF diskVars
  <2>3. PcInv(p)'
    BY <1>3 DEF TypeOK, PcInv, PublishPcs
  <2> QED
    BY <1>1, <1>3, <2>1, <2>2, <2>3, OwnerStep
<1> QED
  BY <1>2, <1>3

\* The staging directory belongs to the journal written before it.
LEMMA CreateStagingInv ==
  ASSUME IInv, NEW p \in Procs, CreateStaging(p)
  PROVE  IInv'
<1> USE DEF IInv, CreateStaging, Goto
<1>1. Busy(p) /\ "mkRollback" \in Pcs
  BY DEF Busy, BusyPcs, RestorePcs, Pcs
<1>2. /\ Holds(p, NoId) /\ journal.state = "staging" /\ tx[p] = journal
      /\ journal.id \in Ids /\ journal.id # NoId /\ JournalInv
  BY ConstantsAssumption DEF PcInv, Holds, TypeOK, Journals, DiskInv
<1>3. TypeOK'
  BY <1>1, <1>2 DEF TypeOK, dbVars, memVars
<1>4. DiskInv'
  BY <1>2 DEF DiskInv, JournalInv, Holds, TypeOK, dbVars
<1>5. PcInv(p)'
  BY <1>2 DEF TypeOK, PcInv, Holds, PublishPcs, dbVars, memVars
<1> QED
  BY <1>1, <1>3, <1>4, <1>5, OwnerStep

\* The rollback directory belongs to the journal written before it.
LEMMA CreateRollbackInv ==
  ASSUME IInv, NEW p \in Procs, CreateRollback(p)
  PROVE  IInv'
<1> USE DEF IInv, CreateRollback, Goto
<1>1. Busy(p) /\ "stage" \in Pcs
  BY DEF Busy, BusyPcs, RestorePcs, Pcs
<1>2. /\ Holds(p, NoId) /\ journal.state = "staging" /\ tx[p] = journal
      /\ journal.id \in Ids /\ journal.id # NoId /\ JournalInv
  BY ConstantsAssumption DEF PcInv, Holds, TypeOK, Journals, DiskInv
<1>3. TypeOK'
  BY <1>1, <1>2 DEF TypeOK, dbVars
<1>4. DiskInv'
  BY <1>2 DEF DiskInv, JournalInv, Holds, TypeOK, dbVars
<1>5. PcInv(p)'
  BY <1>2 DEF TypeOK, PcInv, Holds, PublishPcs, dbVars
<1> QED
  BY <1>1, <1>3, <1>4, <1>5, OwnerStep

\* Seal finds in staging the media of the archive, all of them and no others.
LEMMA RestoreArchiveMediaInv ==
  ASSUME IInv, NEW p \in Procs, RestoreArchiveMedia(p)
  PROVE  IInv'
<1> USE DEF IInv, RestoreArchiveMedia, Goto
<1> DEFINE i == journal.id
<1>1. Busy(p) /\ {"stage", "leaseDb"} \subseteq Pcs
  BY DEF Busy, BusyPcs, RestorePcs, Pcs
<1>2. /\ Holds(p, NoId) /\ journal.state = "staging" /\ tx[p] = journal
      /\ journal \in Journals /\ i \in Ids /\ i # NoId /\ JournalInv
      /\ Current(p) /\ lease = p /\ todo[p] \subseteq Keys
  BY <1>1, ConstantsAssumption
  DEF PcInv, Holds, TypeOK, Journals, DiskInv, Current, OnlyLeaseOwnerRestores
<1>3. CASE \E k \in todo[p] :
             /\ staging' = [staging EXCEPT ![tx[p].id] = @ \cup {k}]
             /\ todo' = [todo EXCEPT ![p] = @ \ {k}]
             /\ UNCHANGED <<journal, tx, pc>>
  <2>1. PICK k \in todo[p] : /\ staging' = [staging EXCEPT ![i] = @ \cup {k}]
                             /\ todo' = [todo EXCEPT ![p] = @ \ {k}]
                             /\ UNCHANGED <<journal, tx, pc>>
    BY <1>2, <1>3
  <2>2. TypeOK'
    BY <2>1, <1>2 DEF TypeOK, dbVars
  <2>3. DiskInv'
    BY <2>1, <1>2 DEF DiskInv, JournalInv, Holds, TypeOK, dbVars
  <2>4. PcInv(p)'
    BY <2>1, <1>2 DEF TypeOK, PcInv, PublishPcs, Holds, dbVars
  <2> QED
    BY <2>1, <2>2, <2>3, <2>4, <1>1, OwnerStep DEF TypeOK
<1>4. CASE /\ todo[p] = {} /\ staging[tx[p].id] = arch[p] \cup {Dot}
           /\ Goto(p, "stage", "leaseDb")
           /\ WriteJournal(p, [tx[p] EXCEPT !.state = "staged", !.files = arch[p]])
           /\ UNCHANGED <<staging, todo>>
  <2> DEFINE j == [journal EXCEPT !.state = "staged", !.files = arch[p]]
  <2>1. /\ journal' = j /\ tx' = [tx EXCEPT ![p] = j] /\ pc' = [pc EXCEPT ![p] = "leaseDb"]
        /\ staging[i] = arch[p] \cup {Dot} /\ UNCHANGED <<staging, todo>>
    BY <1>2, <1>4 DEF WriteJournal
  <2>2. /\ j \in Journals /\ j # NoJournal /\ j.id = i /\ j.files = arch[p]
        /\ j.state = "staged"
    BY <1>2, NoJournalAssumption DEF Journals, JournalStates, TypeOK
  <2>3. TypeOK'
    BY <2>1, <2>2, <1>1 DEF TypeOK, dbVars
  <2>4. DiskInv'
    BY <2>1, <2>2, <1>2 DEF DiskInv, JournalInv, FullyStaged, Holds, TypeOK, dbVars
  <2>5. PcInv(p)'
    BY <2>1, <2>2, <1>2 DEF TypeOK, PcInv, PublishPcs, Holds, FullyStaged, dbVars
  <2> QED
    BY <2>1, <2>3, <2>4, <2>5, <1>1, OwnerStep
<1> QED
  BY <1>2, <1>3, <1>4

\* The lease check before the transaction changes nothing.
LEMMA CheckLeaseBeforeDatabaseInv ==
  ASSUME IInv, NEW p \in Procs, CheckLeaseBeforeDatabase(p)
  PROVE  IInv'
<1> USE DEF IInv, CheckLeaseBeforeDatabase, Goto
<1>1. Busy(p) /\ "dbTx" \in Pcs
  BY DEF Busy, BusyPcs, RestorePcs, Pcs
<1>2. lease = p
  BY <1>1 DEF OnlyLeaseOwnerRestores
<1>3. TypeOK'
  BY <1>1, <1>2 DEF TypeOK, dbVars, diskVars, memVars
<1>4. DiskInv'
  BY SameDisk
<1>5. PcInv(p)'
  BY <1>2 DEF TypeOK, PcInv, Holds, FullyStaged, PublishPcs, dbVars, diskVars, memVars
<1> QED
  BY <1>1, <1>2, <1>3, <1>4, <1>5, OwnerStep

\* The lease check before the publication changes nothing.
LEMMA CheckLeaseBeforePublishInv ==
  ASSUME IInv, NEW p \in Procs, CheckLeaseBeforePublish(p)
  PROVE  IInv'
<1> USE DEF IInv, CheckLeaseBeforePublish, Goto
<1>1. Busy(p) /\ "publish" \in Pcs
  BY DEF Busy, BusyPcs, RestorePcs, PublishPcs, Pcs
<1>2. lease = p
  BY <1>1 DEF OnlyLeaseOwnerRestores
<1>3. TypeOK'
  BY <1>1, <1>2 DEF TypeOK, dbVars, diskVars, memVars
<1>4. DiskInv'
  BY SameDisk
<1>5. PcInv(p)'
  BY <1>2 DEF TypeOK, PcInv, Holds, PublishPcs, dbVars, diskVars, memVars
<1> QED
  BY <1>1, <1>2, <1>3, <1>4, <1>5, OwnerStep

\* The transaction commits data whose media are all staged.
LEMMA CommitDatabaseInv ==
  ASSUME IInv, NEW p \in Procs, CommitDatabase(p)
  PROVE  IInv'
<1> USE DEF IInv, CommitDatabase, Goto
<1>1. Busy(p) /\ {"leasePub", "dbCheck"} \subseteq Pcs
  BY DEF Busy, BusyPcs, RestorePcs, Pcs
<1>2. /\ Holds(p, NoId) /\ journal.state = "staged" /\ tx[p] = journal
      /\ journal.files = arch[p] /\ FullyStaged /\ journal.files \in SUBSET Keys
      /\ journal.id \in Ids /\ journal.id # NoId /\ JournalInv
  BY ConstantsAssumption DEF PcInv, Holds, TypeOK, Journals, DiskInv
<1>3. PICK to \in {"leasePub", "dbCheck"} : pc' = [pc EXCEPT ![p] = to]
  OBVIOUS
<1>4. TypeOK'
  BY <1>1, <1>2, <1>3 DEF TypeOK, diskVars, memVars
<1>5. DiskInv'
  BY <1>2 DEF DiskInv, JournalInv, Holds, FullyStaged, diskVars
<1>6. PcInv(p)'
  BY <1>2, <1>3 DEF TypeOK, PcInv, Holds, PublishPcs, diskVars, memVars
<1> QED
  BY <1>1, <1>3, <1>4, <1>5, <1>6, OwnerStep

\* A failed transaction leaves database and marker.
LEMMA DatabaseFailsInv ==
  ASSUME IInv, NEW p \in Procs, DatabaseFails(p)
  PROVE  IInv'
<1> USE DEF IInv, DatabaseFails, Goto
<1>1. Busy(p) /\ "dbCheck" \in Pcs
  BY DEF Busy, BusyPcs, RestorePcs, Pcs
<1>2. TypeOK'
  BY <1>1 DEF TypeOK, dbVars, diskVars, memVars
<1>3. DiskInv'
  BY SameDisk
<1>4. PcInv(p)'
  BY DEF TypeOK, PcInv, Holds, PublishPcs, dbVars, diskVars, memVars
<1> QED
  BY <1>1, <1>2, <1>3, <1>4, OwnerStep

\* After an error the marker tells a committed transaction from a failed one.
LEMMA CheckMarkerInv ==
  ASSUME IInv, NEW p \in Procs, CheckMarker(p)
  PROVE  IInv'
<1> USE DEF IInv, CheckMarker, Goto
<1>1. Busy(p) /\ {"rollback", "leasePub", "release"} \subseteq Pcs
  BY DEF Busy, BusyPcs, RestorePcs, RollbackPcs, FinishPcs, Pcs
<1>2. journal # NoJournal /\ tx[p] = journal /\ journal.state = "staged" /\ JournalInv
  BY DEF PcInv, DiskInv
<1>3. PICK to \in {"rollback", "leasePub"} :
        /\ pc' = [pc EXCEPT ![p] = to]
        /\ to = "rollback" => marker = NoId
        /\ to = "leasePub" => marker = journal.id
  BY <1>2 DEF JournalInv
<1>4. TypeOK'
  BY <1>1, <1>3 DEF TypeOK, dbVars, diskVars, memVars
<1>5. DiskInv'
  BY SameDisk
<1>6. PcInv(p)'
  BY <1>2, <1>3 DEF TypeOK, PcInv, Holds, PublishPcs, dbVars, diskVars, memVars
<1> QED
  BY <1>1, <1>3, <1>4, <1>5, <1>6, OwnerStep

\* Each error path hands over to a step that may be taken in that state.
LEMMA OperationFailsInv ==
  ASSUME IInv, NEW p \in Procs, OperationFails(p)
  PROVE  IInv'
<1> USE DEF IInv, OperationFails
<1> DEFINE to == FailTo(p)
<1>1. Busy(p)
  BY DEF Busy, FailingPcs
<1>2. to \in {"cleanup", "rollback", "exit", "release", "archive"}
  BY Continuations DEF FailTo
<1>3. to \in Pcs
  BY <1>2 DEF Pcs, BusyPcs, RollbackPcs, FinishPcs, RestorePcs
<1>4. TypeOK'
  BY <1>3, ConstantsAssumption DEF TypeOK, dbVars, diskVars, memVars
<1>5. DiskInv'
  BY SameDisk
<1>6. PcInv(p)'
  <2>1. CASE to \in {"exit", "release"}
    BY <2>1 DEF TypeOK, PcInv, PublishPcs
  <2>2. CASE to \in {"cleanup", "rollback"}
    <3>1. /\ to = "cleanup" => pc[p] \in {"mkStaging", "mkRollback"}
          /\ to = "rollback" => pc[p] \in {"stage", "leaseDb"}
      BY <2>2, Continuations DEF FailTo
    <3> QED
      BY <2>2, <3>1 DEF TypeOK, PcInv, Holds, PublishPcs, dbVars, diskVars, memVars
  <2>3. CASE to = "archive"
    <3>1. pc[p] \in {"finalize", "cleanup"}
      BY <2>3, Continuations DEF FailTo
    <3> QED
      BY <2>3, <3>1 DEF TypeOK, PcInv, Holds, PublishPcs, dbVars, diskVars, memVars
  <2> QED
    BY <1>2, <2>1, <2>2, <2>3
<1> QED
  BY <1>1, <1>3, <1>4, <1>5, <1>6, OwnerStep

-----------------------------------------------------------------------------
(* Steps that change who holds the lease.                                  *)

\* p takes the free lease: nobody else is busy.
LEMMA AcquireStep ==
  ASSUME IInv, NEW p \in Procs, lease = Free, lease' = p,
         pc' = [pc EXCEPT ![p] = "recover"], TypeOK', DiskInv'
  PROVE  IInv'
<1>1. ASSUME NEW q \in Procs PROVE pc[q] \in {"down", "serving"}
  BY ConstantsAssumption DEF IInv, TypeOK, OnlyLeaseOwnerRestores, Busy, Pcs
<1>2. ASSUME NEW q \in Procs, q # p PROVE pc'[q] \in {"down", "serving"}
  BY <1>1, <1>2 DEF IInv, TypeOK
<1>3. OnlyLeaseOwnerRestores'
  BY <1>2 DEF OnlyLeaseOwnerRestores, Busy, BusyPcs, RecoveryPcs, RollbackPcs,
     PublishPcs, FinishPcs, RestorePcs
<1>4. ASSUME NEW q \in Procs PROVE PcInv(q)'
  <2>1. pc'[q] \in {"down", "serving", "recover"}
    BY <1>2 DEF IInv, TypeOK
  <2> QED
    BY <2>1 DEF PcInv, PublishPcs
<1> QED
  BY <1>3, <1>4 DEF IInv

\* p stops being busy and gives up the lease if it had it.
LEMMA IdleStep ==
  ASSUME IInv, NEW p \in Procs, NEW to \in {"down", "serving"},
         pc' = [pc EXCEPT ![p] = to], lease' = lease \/ lease = p,
         TypeOK', DiskInv',
         UNCHANGED <<marker, journal, root, staging, rollback, ids>>,
         \A q \in Procs \ {p} : tx'[q] = tx[q] /\ seen'[q] = seen[q] /\ arch'[q] = arch[q]
                               /\ todo'[q] = todo[q]
  PROVE  IInv'
<1>1. OnlyLeaseOwnerRestores'
  BY DEF IInv, TypeOK, OnlyLeaseOwnerRestores, Busy, BusyPcs, RecoveryPcs, RollbackPcs,
     PublishPcs, FinishPcs, RestorePcs
<1>2. ASSUME NEW q \in Procs PROVE PcInv(q)'
  <2>1. CASE q = p
    BY <2>1 DEF IInv, TypeOK, PcInv, PublishPcs
  <2>2. CASE q # p
    <3>1. pc'[q] = pc[q]
      BY <2>2 DEF IInv, TypeOK
    <3> QED
      BY <2>2, <3>1 DEF IInv, PcInv, Holds, FullyStaged
  <2> QED
    BY <2>1, <2>2
<1> QED
  BY <1>1, <1>2 DEF IInv

\* A request takes a free lease.
LEMMA RequestRestoreInv ==
  ASSUME IInv, NEW p \in Procs, RequestRestore(p)
  PROVE  IInv'
<1> USE DEF IInv, RequestRestore, Goto
<1>1. TypeOK'
  BY DEF TypeOK, Pcs, BusyPcs, RecoveryPcs, Phases, dbVars, diskVars, memVars
<1>2. DiskInv'
  BY SameDisk
<1> QED
  BY <1>1, <1>2, AcquireStep

\* A starting process takes a free lease or serves.
LEMMA BootInv ==
  ASSUME IInv, NEW p \in Procs, Boot(p)
  PROVE  IInv'
<1> USE DEF IInv, Boot, Goto
<1>1. TypeOK'
  BY DEF TypeOK, Pcs, BusyPcs, RecoveryPcs, Phases, dbVars, diskVars, memVars
<1>2. DiskInv'
  BY SameDisk
<1>3. CASE lease = Free
  BY <1>1, <1>2, <1>3, AcquireStep
<1>4. CASE lease # Free
  BY <1>1, <1>2, <1>4, IdleStep DEF dbVars, diskVars, memVars
<1> QED
  BY <1>3, <1>4

\* The owner gives the lease back.
LEMMA ReleaseLeaseInv ==
  ASSUME IInv, NEW p \in Procs, ReleaseLease(p)
  PROVE  IInv'
<1> USE DEF IInv, ReleaseLease, Goto
<1>1. PICK to \in {"down", "serving"} : pc' = [pc EXCEPT ![p] = to]
  OBVIOUS
<1>2. TypeOK'
  BY <1>1 DEF TypeOK, Forget, Pcs, dbVars, diskVars
<1>3. DiskInv'
  BY SameDisk
<1> QED
  BY <1>1, <1>2, <1>3, IdleStep DEF TypeOK, Forget, dbVars, diskVars

\* Only the lease of a dead owner expires.
LEMMA LeaseExpiresInv ==
  ASSUME IInv, LeaseExpires
  PROVE  IInv'
<1> USE DEF IInv, LeaseExpires
<1>1. TypeOK'
  BY DEF TypeOK, dbVars, diskVars, memVars
<1>2. DiskInv'
  BY SameDisk
<1>3. OnlyLeaseOwnerRestores'
  BY ConstantsAssumption DEF OnlyLeaseOwnerRestores, Busy
<1>4. ASSUME NEW q \in Procs PROVE PcInv(q)'
  BY DEF PcInv, Holds, FullyStaged, dbVars, diskVars, memVars
<1> QED
  BY <1>1, <1>2, <1>3, <1>4

\* A crash loses what the process had in memory and nothing else.
LEMMA CrashInv ==
  ASSUME IInv, NEW p \in Procs, Crash(p)
  PROVE  IInv'
<1> USE DEF IInv, Crash
<1>1. TypeOK'
  BY ConstantsAssumption DEF TypeOK, Forget, Pcs, dbVars, diskVars
<1>2. DiskInv'
  BY SameDisk
<1> QED
  BY <1>1, <1>2, IdleStep DEF TypeOK, Forget, dbVars, diskVars

\* The invariant depends on nothing but the variables.
LEMMA StutterInv ==
  ASSUME IInv, UNCHANGED vars
  PROVE  IInv'
BY DEF IInv, vars, TypeOK, OnlyLeaseOwnerRestores, Busy, DiskInv, JournalInv, FullyStaged,
   PcInv, Holds

-----------------------------------------------------------------------------
\* Every step of the system keeps the invariant.
LEMMA NextInv == IInv /\ [Next]_vars => IInv'
<1> SUFFICES ASSUME IInv, [Next]_vars PROVE IInv'
  OBVIOUS
<1>1. CASE LeaseExpires
  BY <1>1, LeaseExpiresInv
<1>2. ASSUME NEW p \in Procs, Boot(p) \/ RequestRestore(p) \/ Crash(p) \/ OperationFails(p)
      PROVE  IInv'
  BY <1>2, BootInv, RequestRestoreInv, CrashInv, OperationFailsInv
<1>3. ASSUME NEW p \in Procs, Recovery(p) \/ Undo(p) PROVE IInv'
  BY <1>3, ReadMarkerInv, RecoverRestoreInv, RollbackInv, NoReverseLoop, CleanupInv
  DEF Recovery, Undo
<1>4. ASSUME NEW p \in Procs, Publication(p) PROVE IInv'
  BY <1>4, PublishInv, PublishPhaseInv, MoveCurrentInv, MoveStagedInv, ClearMarkerInv,
     FinalizeInv
  DEF Publication
<1>5. ASSUME NEW p \in Procs, Staging(p) PROVE IInv'
  BY <1>5, ReadArchiveInv, BeginRestoreInv, CreateStagingInv, CreateRollbackInv,
     RestoreArchiveMediaInv
  DEF Staging
<1>6. ASSUME NEW p \in Procs, Database(p) PROVE IInv'
  BY <1>6, CheckLeaseBeforeDatabaseInv, CommitDatabaseInv, DatabaseFailsInv, CheckMarkerInv,
     CheckLeaseBeforePublishInv
  DEF Database
<1>7. ASSUME NEW p \in Procs, ReleaseLease(p) PROVE IInv'
  BY <1>7, ReleaseLeaseInv
<1>8. CASE UNCHANGED vars
  BY <1>8, StutterInv
<1> QED
  BY <1>1, <1>2, <1>3, <1>4, <1>5, <1>6, <1>7, <1>8 DEF Next, Proceed

\* The volume, the database and every process stay as IInv says, for any number
\* of processes, files, restores and faults.
THEOREM Invariance == Spec => []IInv
<1>1. Init => IInv
  BY InitInv
<1>2. IInv /\ [Next]_vars => IInv'
  BY NextInv
<1> QED
  BY <1>1, <1>2, PTL DEF Spec

\* Every variable keeps its type.
THEOREM TypeCorrect == Spec => []TypeOK
<1>1. IInv => TypeOK
  BY DEF IInv
<1> QED
  BY <1>1, Invariance, PTL

\* Two processes never restore, recover or roll back at the same time.
THEOREM MutualExclusion == Spec => []OnlyLeaseOwnerRestores
<1>1. IInv => OnlyLeaseOwnerRestores
  BY DEF IInv
<1> QED
  BY <1>1, Invariance, PTL

\* Whenever the marker says that a restore was committed, its sealed journal is
\* there to finish it with.
THEOREM CommittedRestoreRecovers == Spec => []CommittedRestoreIsRecoverable
<1>1. IInv => CommittedRestoreIsRecoverable
  BY ConstantsAssumption
  DEF IInv, TypeOK, Journals, DiskInv, JournalInv, CommittedRestoreIsRecoverable
<1> QED
  BY <1>1, Invariance, PTL

\* No file the database refers to is ever missing from the volume, whatever the
\* crashes, errors and retries.
THEOREM MediaPreserved == Spec => []NoReferencedMediaLost
<1>1. ASSUME IInv PROVE NoReferencedMediaLost
  <2> USE <1>1 DEF IInv
  <2>1. CASE journal = NoJournal
    BY <2>1 DEF DiskInv, NoReferencedMediaLost
  <2>2. CASE journal # NoJournal
    <3>1. JournalInv /\ journal.id # NoId /\ journal.state \in JournalStates
      BY <2>2, ConstantsAssumption DEF DiskInv, TypeOK, Journals
    <3>2. db \subseteq Keys /\ root \subseteq Keys
      BY DEF TypeOK
    <3>3. CASE journal.state \in {"staging", "staged", "publishing_old"}
      BY <3>1, <3>2, <3>3 DEF JournalInv, FullyStaged, NoReferencedMediaLost
    <3>4. CASE journal.state \in {"publishing_new", "published"}
      BY <3>1, <3>2, <3>4 DEF JournalInv, NoReferencedMediaLost
    <3> QED
      BY <3>1, <3>3, <3>4 DEF JournalStates
  <2> QED
    BY <2>1, <2>2
<1> QED
  BY <1>1, Invariance, PTL

\* When no restore is in flight the media root is exactly what the database refers to.
THEOREM SettledConsistency == Spec => []SettledMediaMatchesDatabase
<1>1. IInv => SettledMediaMatchesDatabase
  BY DEF IInv, DiskInv, SettledMediaMatchesDatabase
<1> QED
  BY <1>1, Invariance, PTL

\* The live media root is only touched for a restore whose database transaction
\* committed.
THEOREM PublicationAfterCommit == Spec => []PublicationOnlyAfterCommit
<1>1. IInv => PublicationOnlyAfterCommit
  BY DEF IInv, DiskInv, JournalInv, PublicationOnlyAfterCommit
<1> QED
  BY <1>1, Invariance, PTL

-----------------------------------------------------------------------------
\* Only two steps write the database.
LEMMA DatabaseSteps ==
  ASSUME Next
  PROVE  UNCHANGED dbVars \/ \E p \in Procs : CommitDatabase(p) \/ ClearMarker(p)
<1>1. ASSUME NEW p \in Procs, Recovery(p) \/ Undo(p) PROVE UNCHANGED dbVars
  BY <1>1 DEF dbVars, Recovery, Undo, ReadMarker, RecoverRestore, Rollback,
     RemovePublishedMedia, RestoreRollbackMedia, Cleanup
<1>2. ASSUME NEW p \in Procs, Publication(p) PROVE UNCHANGED dbVars \/ ClearMarker(p)
  BY <1>2 DEF dbVars, Publication, Publish, PublishPhase, MoveCurrentMediaToRollback,
     MoveStagedMediaToRoot, Finalize
<1>3. ASSUME NEW p \in Procs, Staging(p) PROVE UNCHANGED dbVars
  BY <1>3 DEF dbVars, Staging, ReadArchive, BeginRestore, CreateStaging, CreateRollback,
     RestoreArchiveMedia
<1>4. ASSUME NEW p \in Procs, Database(p) PROVE UNCHANGED dbVars \/ CommitDatabase(p)
  BY <1>4 DEF dbVars, Database, CheckLeaseBeforeDatabase, DatabaseFails, CheckMarker,
     CheckLeaseBeforePublish
<1>5. ASSUME NEW p \in Procs,
             Boot(p) \/ RequestRestore(p) \/ ReleaseLease(p) \/ Crash(p) \/ OperationFails(p)
      PROVE  UNCHANGED dbVars
  BY <1>5 DEF dbVars, Boot, RequestRestore, ReleaseLease, Crash, OperationFails
<1>6. CASE LeaseExpires
  BY <1>6 DEF LeaseExpires
<1> QED
  BY <1>1, <1>2, <1>3, <1>4, <1>5, <1>6 DEF Next, Proceed

\* A step that clears the marker finds the restored media in place.
LEMMA ClearsWhenPublished ==
  ASSUME IInv, Next, marker # NoId, marker' # marker
  PROVE  marker' = NoId /\ journal.state = "published" /\ root = db
<1>1. ASSUME NEW p \in Procs, ClearMarker(p)
      PROVE  marker' = NoId /\ journal.state = "published" /\ root = db
  BY <1>1 DEF IInv, ClearMarker, Goto, PcInv, Holds, DiskInv, JournalInv
<1>2. ASSUME NEW p \in Procs PROVE ~ CommitDatabase(p)
  BY DEF IInv, PcInv, Holds, CommitDatabase
<1> QED
  BY <1>1, <1>2, DatabaseSteps DEF dbVars

\* The commit acknowledgement is withdrawn only after the publication is complete.
THEOREM MarkerClearedLast == Spec => MarkerClearedOnlyWhenPublished
<1>1. IInv /\ [Next]_vars =>
        [marker # NoId /\ marker' # marker
           => marker' = NoId /\ journal.state = "published" /\ root = db]_vars
  BY ClearsWhenPublished
<1> QED
  BY <1>1, Invariance, PTL DEF Spec, MarkerClearedOnlyWhenPublished

\* The media a settled site would have are at all times those of its database.
LEMMA ReachableMediaIsDatabase == IInv => ReachableMedia = db
<1> SUFFICES ASSUME IInv PROVE ReachableMedia = db
  OBVIOUS
<1> USE DEF IInv
<1>1. CASE journal = NoJournal
  BY <1>1 DEF DiskInv, ReachableMedia
<1>2. CASE journal # NoJournal
  <2>1. /\ JournalInv /\ journal.id # NoId /\ journal.state \in JournalStates
        /\ journal.files \subseteq Keys /\ db \subseteq Keys
    BY <1>2, ConstantsAssumption DEF DiskInv, TypeOK, Journals
  <2>2. CASE marker = NoId
    BY <2>1, <2>2 DEF JournalInv, JournalStates, ReachableMedia
  <2>3. CASE marker # NoId
    <3>1. marker = journal.id /\ db = journal.files
      BY <2>1, <2>3 DEF JournalInv
    <3>2. CASE journal.state \in {"staged", "publishing_old"}
      BY <2>1, <3>1, <3>2 DEF JournalInv, FullyStaged, ReachableMedia
    <3>3. CASE journal.state \in {"publishing_new", "published"}
      BY <2>1, <3>1, <3>3 DEF JournalInv, ReachableMedia
    <3>4. journal.state # "staging"
      BY <2>1, <2>3 DEF JournalInv
    <3> QED
      BY <2>1, <3>2, <3>3, <3>4 DEF JournalStates, ReachableMedia
  <2> QED
    BY <2>2, <2>3
<1> QED
  BY <1>1, <1>2

\* The journaled restore implements the atomic one: the commit of the transaction
\* is the step in which database and media change together.
THEOREM ImplementsAtomicRestore == Spec => AtomicSpec
<1>1. Init => Atomic!Init
  BY ConstantsAssumption DEF Init, Atomic!Init, ReachableMedia
<1>2. IInv /\ IInv' /\ [Next]_vars => [Atomic!Next]_Atomic!vars
  <2> SUFFICES ASSUME IInv, IInv', [Next]_vars PROVE [Atomic!Next]_Atomic!vars
    OBVIOUS
  <2>1. ReachableMedia = db /\ ReachableMedia' = db'
    <3>1. ReachableMedia = db
      BY ReachableMediaIsDatabase
    <3>2. (IInv => ReachableMedia = db)'
      BY ReachableMediaIsDatabase, PTL
    <3> QED
      BY <3>1, <3>2
  <2>2. ASSUME NEW p \in Procs, CommitDatabase(p) PROVE Atomic!Replace
    <3>1. /\ marker = NoId /\ db' \in SUBSET Keys /\ marker' \in Ids
      BY <2>2 DEF IInv, PcInv, Holds, TypeOK, Journals, CommitDatabase
    <3> QED
      BY <2>1, <3>1 DEF Atomic!Replace
  <2>3. ASSUME NEW p \in Procs, ClearMarker(p) PROVE Atomic!Settle
    <3>1. marker # NoId /\ marker' = NoId /\ db' = db
      BY <2>3, ConstantsAssumption
      DEF IInv, PcInv, Holds, TypeOK, Journals, ClearMarker
    <3> QED
      BY <2>1, <3>1 DEF Atomic!Settle
  <2>4. CASE UNCHANGED dbVars \/ UNCHANGED vars
    BY <2>1, <2>4 DEF dbVars, vars, Atomic!vars
  <2> QED
    BY <2>2, <2>3, <2>4, DatabaseSteps DEF Atomic!Next
<1> QED
  BY <1>1, <1>2, Invariance, PTL DEF Spec, AtomicSpec, Atomic!Spec

-----------------------------------------------------------------------------
\* The steps of a process that has the lease, other than the failure of an
\* operation: none of them ends the process.
LEMMA RecoveryGoesOn ==
  ASSUME IInv, NEW p \in Procs, Recovery(p) \/ Undo(p)
  PROVE  \E to \in Pcs \ {"exit"} : pc' = [pc EXCEPT ![p] = to]
<1> USE DEF IInv, Goto
<1>1. CASE ReadMarker(p)
  BY <1>1 DEF ReadMarker, Pcs, BusyPcs, RecoveryPcs
<1>2. CASE RecoverRestore(p)
  <2>1. seen[p] = marker /\ (journal # NoJournal => JournalInv) /\ (journal = NoJournal => marker = NoId)
    BY <1>2 DEF RecoverRestore, PcInv, DiskInv
  <2>2. DonePc(p) \in {"archive", "release"} /\ DonePc(p) # "exit"
    BY DEF DonePc
  <2>3. RecoverTo(p) \in {"archive", "release", "finalize", "rollback", "publish"}
    BY <2>1, <2>2 DEF RecoverTo, JournalInv
  <2> QED
    BY <1>2, <2>3 DEF RecoverRestore, Pcs, BusyPcs, RollbackPcs, PublishPcs, FinishPcs, RestorePcs
<1>3. CASE Rollback(p)
  <2>1. /\ Holds(p, NoId) /\ Current(p) /\ journal.state \in {"staging", "staged"}
    BY <1>3 DEF Rollback, PcInv, Holds, Current, TypeOK, Journals, JournalStates
  <2>2. pc' = [pc EXCEPT ![p] = "cleanup"]
    BY <1>3, <2>1 DEF Rollback
  <2> QED
    BY <2>2 DEF Pcs, BusyPcs, FinishPcs
<1>4. CASE Cleanup(p)
  <2>1. DonePc(p) \in {"archive", "release"} /\ pc[p] = "cleanup"
    BY <1>4 DEF Cleanup, DonePc
  <2>2. pc' = [pc EXCEPT ![p] = "cleanup"] \/ pc' = [pc EXCEPT ![p] = DonePc(p)]
    BY <1>4, <2>1 DEF Cleanup, TypeOK
  <2> QED
    BY <2>1, <2>2 DEF Pcs, BusyPcs, FinishPcs, RestorePcs
<1> QED
  BY <1>1, <1>2, <1>3, <1>4, NoReverseLoop DEF Recovery, Undo

\* Publication stops only when one of its operations fails.
LEMMA PublicationGoesOn ==
  ASSUME IInv, NEW p \in Procs, Publication(p), UNCHANGED faults
  PROVE  \E to \in Pcs \ {"exit"} : pc' = [pc EXCEPT ![p] = to]
<1> USE DEF IInv, Goto
<1> DEFINE i == journal.id
<1>1. CASE Publish(p)
  BY <1>1 DEF Publish, PcInv, PublishPcs, Holds, Current, Pcs, BusyPcs
<1>2. CASE PublishPhase(p)
  BY <1>2 DEF PublishPhase, TypeOK, Pcs, BusyPcs, PublishPcs, FinishPcs
<1>3. CASE MoveCurrentMediaToRollback(p)
  <2>1. /\ tx[p] = journal /\ journal.state = "publishing_old" /\ todo[p] = root
        /\ Dot \in rollback[i] /\ JournalInv /\ pc[p] = "moveOld"
    BY <1>3 DEF MoveCurrentMediaToRollback, PcInv, PublishPcs, Holds, DiskInv
  <2>2. ~ \E k \in todo[p] \cap root : Dot \in rollback[i] => k \in rollback[i]
    BY <2>1 DEF JournalInv
  <2>3. pc' = pc \/ pc' = [pc EXCEPT ![p] = "pub"]
    BY <1>3, <2>1, <2>2 DEF MoveCurrentMediaToRollback
  <2> QED
    BY <2>1, <2>3 DEF TypeOK, Pcs, BusyPcs, PublishPcs
<1>4. CASE MoveStagedMediaToRoot(p)
  <2>1. /\ tx[p] = journal /\ journal.state = "publishing_new" /\ pc[p] = "moveNew"
        /\ todo[p] \subseteq journal.files /\ journal.files \subseteq Keys /\ JournalInv
    BY <1>4 DEF MoveStagedMediaToRoot, PcInv, PublishPcs, Holds, DiskInv, TypeOK, Journals
  <2>2. ~ \E k \in todo[p] : (k \in staging[i]) <=> (k \in root)
    BY <2>1 DEF JournalInv
  <2>3. pc' = pc \/ pc' = [pc EXCEPT ![p] = "clear"]
    BY <1>4, <2>1, <2>2 DEF MoveStagedMediaToRoot
  <2> QED
    BY <2>1, <2>3 DEF TypeOK, Pcs, BusyPcs, FinishPcs, PublishPcs
<1>5. CASE ClearMarker(p)
  <2>1. marker = tx[p].id /\ faults \in Nat
    BY <1>5, ConstantsAssumption DEF ClearMarker, PcInv, Holds, TypeOK
  <2> QED
    BY <1>5, <2>1 DEF ClearMarker, Pcs, BusyPcs, FinishPcs
<1>6. CASE Finalize(p)
  BY <1>6 DEF Finalize, PcInv, Holds, Current, Pcs, BusyPcs, FinishPcs
<1> QED
  BY <1>1, <1>2, <1>3, <1>4, <1>5, <1>6 DEF Publication

\* A restore request never ends its process.
LEMMA RestoreGoesOn ==
  ASSUME IInv, NEW p \in Procs,
         Staging(p) \/ Database(p) \/ RequestRestore(p) \/ Boot(p)
  PROVE  \E to \in Pcs \ {"exit"} : pc' = [pc EXCEPT ![p] = to]
<1> USE DEF Goto, Pcs, BusyPcs, RecoveryPcs, RollbackPcs, PublishPcs, FinishPcs, RestorePcs
<1>1. CASE Staging(p)
  <2>1. CASE RestoreArchiveMedia(p)
    BY <2>1 DEF RestoreArchiveMedia, IInv, TypeOK
  <2>2. CASE ReadArchive(p) \/ BeginRestore(p) \/ CreateStaging(p) \/ CreateRollback(p)
    BY <2>2 DEF ReadArchive, BeginRestore, CreateStaging, CreateRollback
  <2> QED
    BY <1>1, <2>1, <2>2 DEF Staging
<1>2. CASE Database(p)
  BY <1>2 DEF Database, CheckLeaseBeforeDatabase, CommitDatabase, DatabaseFails, CheckMarker,
     CheckLeaseBeforePublish
<1>3. CASE RequestRestore(p) \/ Boot(p)
  BY <1>3 DEF RequestRestore, Boot
<1> QED
  BY <1>1, <1>2, <1>3

\* A process ends in a failed recovery only in a step in which an operation failed.
LEMMA ExitsByFailure ==
  ASSUME IInv, [Next]_vars, NEW q \in Procs, Busy(q), pc[q] # "exit", pc'[q] = "exit"
  PROVE  faults' = faults + 1
<1>1. ASSUME NEW p \in Procs, NEW to \in Pcs \ {"exit"}, pc' = [pc EXCEPT ![p] = to]
      PROVE  FALSE
  BY <1>1 DEF IInv, TypeOK
<1>2. ASSUME NEW p \in Procs, Recovery(p) \/ Undo(p) PROVE FALSE
  BY <1>1, <1>2, RecoveryGoesOn
<1>3. ASSUME NEW p \in Procs, Publication(p) PROVE faults' = faults + 1
  <2>1. CASE UNCHANGED faults
    BY <1>1, <1>3, <2>1, PublicationGoesOn
  <2>2. CASE ~ UNCHANGED faults
    BY <1>3, <2>2 DEF Publication, Publish, PublishPhase, MoveCurrentMediaToRollback,
       MoveStagedMediaToRoot, ClearMarker, Finalize
  <2> QED
    BY <2>1, <2>2
<1>4. ASSUME NEW p \in Procs, Staging(p) \/ Database(p) \/ RequestRestore(p) \/ Boot(p)
      PROVE  FALSE
  BY <1>1, <1>4, RestoreGoesOn
<1>5. ASSUME NEW p \in Procs, ReleaseLease(p) PROVE FALSE
  BY <1>5 DEF ReleaseLease, Goto, IInv, TypeOK
<1>6. ASSUME NEW p \in Procs, Crash(p) \/ OperationFails(p) PROVE faults' = faults + 1
  BY <1>6 DEF Crash, OperationFails
<1>7. ~ LeaseExpires /\ ~ UNCHANGED vars
  BY DEF LeaseExpires, vars
<1> QED
  BY <1>2, <1>3, <1>4, <1>5, <1>6, <1>7 DEF Next, Proceed

\* What one process leaves behind, in whatever state it dies, never makes the
\* next start-up refuse.
THEOREM StartupSafe == Spec => StartupNeverRefuses
<1>1. IInv /\ [Next]_vars =>
        [\A p \in Procs :
           Busy(p) /\ pc[p] # "exit" /\ pc'[p] = "exit" => faults' = faults + 1]_vars
  BY ExitsByFailure
<1> QED
  BY <1>1, Invariance, PTL DEF Spec, StartupNeverRefuses

-----------------------------------------------------------------------------
(* The way back to an older dump.                                          *)

\* A step of p leaves every other process where it is.
LEMMA OthersStay ==
  ASSUME TypeOK, NEW p \in Procs, NEW q \in Procs, q # p,
         Boot(p) \/ RequestRestore(p) \/ Proceed(p) \/ Crash(p) \/ OperationFails(p)
  PROVE  pc'[q] = pc[q]
<1> USE DEF TypeOK, Goto
<1>1. CASE Recovery(p) \/ Undo(p)
  BY <1>1 DEF Recovery, Undo, ReadMarker, RecoverRestore, Rollback, RemovePublishedMedia,
     RestoreRollbackMedia, Cleanup
<1>2. CASE Publication(p)
  BY <1>2 DEF Publication, Publish, PublishPhase, MoveCurrentMediaToRollback,
     MoveStagedMediaToRoot, ClearMarker, Finalize
<1>3. CASE Staging(p)
  BY <1>3 DEF Staging, ReadArchive, BeginRestore, CreateStaging, CreateRollback,
     RestoreArchiveMedia
<1>4. CASE Database(p)
  BY <1>4 DEF Database, CheckLeaseBeforeDatabase, CommitDatabase, DatabaseFails, CheckMarker,
     CheckLeaseBeforePublish
<1>5. CASE Boot(p) \/ RequestRestore(p) \/ ReleaseLease(p) \/ Crash(p) \/ OperationFails(p)
  BY <1>5 DEF Boot, RequestRestore, ReleaseLease, Crash, OperationFails
<1> QED
  BY <1>1, <1>2, <1>3, <1>4, <1>5 DEF Proceed

\* Only a process that has the lease proceeds, and only a crash or the release
\* at the end of a failed recovery takes a process down.
LEMMA ProceedKeepsUp ==
  ASSUME TypeOK, NEW p \in Procs, Proceed(p)
  PROVE  Busy(p) /\ (pc[p] = "exit" \/ pc'[p] # "down")
<1> USE DEF TypeOK, Goto, Busy, BusyPcs, RecoveryPcs, RollbackPcs, PublishPcs, FinishPcs,
     RestorePcs, AbortPc, DonePc
<1>1. CASE Recovery(p)
  BY <1>1 DEF Recovery, ReadMarker, RecoverRestore, RecoverTo
<1>2. CASE Undo(p)
  BY <1>2 DEF Undo, Rollback, RemovePublishedMedia, RestoreRollbackMedia, Cleanup
<1>3. CASE Publication(p)
  BY <1>3 DEF Publication, Publish, PublishPhase, MoveCurrentMediaToRollback,
     MoveStagedMediaToRoot, ClearMarker, Finalize
<1>4. CASE Staging(p)
  BY <1>4 DEF Staging, ReadArchive, BeginRestore, CreateStaging, CreateRollback,
     RestoreArchiveMedia
<1>5. CASE Database(p)
  BY <1>5 DEF Database, CheckLeaseBeforeDatabase, CommitDatabase, DatabaseFails, CheckMarker,
     CheckLeaseBeforePublish
<1>6. CASE ReleaseLease(p)
  BY <1>6 DEF ReleaseLease
<1> QED
  BY <1>1, <1>2, <1>3, <1>4, <1>5, <1>6 DEF Proceed

\* Faults are only counted up.
LEMMA FaultsGrow ==
  ASSUME TypeOK, Next
  PROVE  faults' = faults \/ faults' = faults + 1
<1>1. ASSUME NEW p \in Procs, Recovery(p) \/ Undo(p) PROVE faults' = faults
  BY <1>1 DEF Recovery, Undo, ReadMarker, RecoverRestore, Rollback, RemovePublishedMedia,
     RestoreRollbackMedia, Cleanup
<1>2. ASSUME NEW p \in Procs, Publication(p) PROVE faults' = faults \/ faults' = faults + 1
  BY <1>2 DEF Publication, Publish, PublishPhase, MoveCurrentMediaToRollback,
     MoveStagedMediaToRoot, ClearMarker, Finalize
<1>3. ASSUME NEW p \in Procs, Staging(p) PROVE faults' = faults
  BY <1>3 DEF Staging, ReadArchive, BeginRestore, CreateStaging, CreateRollback,
     RestoreArchiveMedia
<1>4. ASSUME NEW p \in Procs, Database(p) PROVE faults' = faults
  BY <1>4 DEF Database, CheckLeaseBeforeDatabase, CommitDatabase, DatabaseFails, CheckMarker,
     CheckLeaseBeforePublish
<1>5. ASSUME NEW p \in Procs,
             Boot(p) \/ RequestRestore(p) \/ ReleaseLease(p) \/ Crash(p) \/ OperationFails(p)
      PROVE  faults' = faults \/ faults' = faults + 1
  BY <1>5 DEF Boot, RequestRestore, ReleaseLease, Crash, OperationFails
<1>6. CASE LeaseExpires
  BY <1>6 DEF LeaseExpires
<1> QED
  BY <1>1, <1>2, <1>3, <1>4, <1>5, <1>6 DEF Next, Proceed

\* A process goes down, or is about to, only by a fault.
LEMMA GoesDownByFault ==
  ASSUME IInv, Next, NEW q \in Procs,
         pc[q] \notin {"down", "exit"}, pc'[q] \in {"down", "exit"}
  PROVE  faults' = faults + 1
<1>1. TypeOK
  BY DEF IInv
<1>2. CASE Busy(q) /\ pc'[q] = "exit"
  BY <1>2, ExitsByFailure
<1>3. CASE ~Busy(q) \/ pc'[q] = "down"
  <2>1. ~LeaseExpires
    BY DEF LeaseExpires
  <2>2. PICK p \in Procs : Boot(p) \/ RequestRestore(p) \/ Proceed(p) \/ Crash(p)
                           \/ OperationFails(p)
    BY <2>1 DEF Next
  <2>3. p = q
    BY <2>2, <1>1, OthersStay
  <2>4. ~Boot(q) /\ ~RequestRestore(q)
    BY <1>1 DEF Boot, RequestRestore, Goto, TypeOK
  <2>5. ~Proceed(q)
    BY <1>1, <1>3, ProceedKeepsUp
  <2> QED
    BY <2>2, <2>3, <2>4, <2>5 DEF Crash, OperationFails
<1> QED
  BY <1>2, <1>3 DEF IInv, TypeOK

\* Until the dump is loaded the site goes as it does without one.
LEMMA DownAfterFaultStep ==
  ASSUME IInv, DownAfterFault, Next
  PROVE  DownAfterFault'
<1>1. faults \in Nat
  BY ConstantsAssumption DEF IInv, TypeOK
<1>2. faults' = faults \/ faults' = faults + 1
  BY FaultsGrow DEF IInv
<1>3. ASSUME NEW p \in Procs, pc'[p] \in {"down", "exit"} PROVE faults' > 0
  <2>1. CASE pc[p] \in {"down", "exit"}
    BY <2>1, <1>1, <1>2 DEF DownAfterFault
  <2>2. CASE pc[p] \notin {"down", "exit"}
    BY <2>2, <1>1, <1>3, GoesDownByFault
  <2> QED
    BY <2>1, <2>2
<1>4. Procs = {} => marker' = NoId
  BY DEF Next, LeaseExpires, DownAfterFault, dbVars
<1> QED
  BY <1>3, <1>4 DEF DownAfterFault

\* The media are being taken back, and the lease is exclusive as ever.
BackInv == TypeOK /\ OnlyLeaseOwnerRestores /\ TakingBack

\* The dump is loaded when every process is down: the fault that stopped them
\* was the only one.
LEMMA LoadOlderDumpInv ==
  ASSUME MaxFaults <= 1, IInv, DownAfterFault, LoadOlderDump
  PROVE  BackInv' /\ DownAfterFault'
<1> USE DEF IInv, LoadOlderDump
<1> DEFINE i == journal.id
<1>1. /\ marker # NoId /\ journal.state \in {"publishing_old", "publishing_new"}
      /\ marker' = NoId /\ db' = MediaBefore
      /\ UNCHANGED <<diskVars, memVars, lease, pc, phase, ids, faults>>
  OBVIOUS
<1>2. /\ journal # NoJournal /\ JournalInv /\ i \in Ids
      /\ root \subseteq Keys /\ rollback[i] \subseteq Keys \cup {Dot}
      /\ journal.files \subseteq Keys /\ staging[i] \subseteq Keys \cup {Dot}
  BY <1>1 DEF DiskInv, TypeOK, Journals
<1>3. faults = MaxFaults /\ faults > 0
  <2>1. PICK p \in Procs : pc[p] = "down"
    BY <1>1 DEF DownAfterFault
  <2>2. faults > 0
    BY <2>1 DEF DownAfterFault
  <2> QED
    BY <2>2, ConstantsAssumption DEF TypeOK
<1>4. TypeOK'
  BY <1>1, <1>2 DEF TypeOK, MediaBefore, diskVars, memVars
<1>5. OnlyLeaseOwnerRestores'
  BY <1>1 DEF OnlyLeaseOwnerRestores, Busy
<1>6. Untouched'
  BY <1>1, <1>2 DEF Untouched, MediaBefore, JournalInv, diskVars
<1>7. \A p \in Procs : TakesBack(p)'
  BY <1>1 DEF TakesBack, RollbackPcs
<1>8. TakingBack'
  BY <1>1, <1>2, <1>3, <1>6, <1>7 DEF TakingBack, JournalInv, diskVars
<1>9. DownAfterFault'
  BY <1>1 DEF DownAfterFault
<1> QED
  BY <1>4, <1>5, <1>8, <1>9 DEF BackInv

\* A process that does not have the lease takes nothing back.
LEMMA IdleTakesBack ==
  ASSUME NEW q \in Procs, pc[q] \in {"down", "serving"}
  PROVE  TakesBack(q)
BY DEF TakesBack, RollbackPcs

\* A step of the lease owner p: the other processes stay idle.
LEMMA BackOwnerStep ==
  ASSUME BackInv, NEW p \in Procs, Busy(p), NEW to \in Pcs,
         pc' = [pc EXCEPT ![p] = to], lease' = lease, TypeOK'
  PROVE  /\ OnlyLeaseOwnerRestores'
         /\ pc'[p] = to
         /\ \A q \in Procs \ {p} : TakesBack(q)'
<1>1. ASSUME NEW q \in Procs, q # p PROVE pc'[q] = pc[q] /\ pc'[q] \in {"down", "serving"}
  BY <1>1, OthersIdle DEF BackInv, TypeOK
<1>2. pc'[p] = to
  BY DEF BackInv, TypeOK
<1>3. OnlyLeaseOwnerRestores'
  BY <1>1 DEF BackInv, OnlyLeaseOwnerRestores, Busy, BusyPcs, RecoveryPcs, RollbackPcs,
     PublishPcs, FinishPcs, RestorePcs, TypeOK
<1>4. \A q \in Procs \ {p} : TakesBack(q)'
  BY <1>1, IdleTakesBack DEF TakesBack, RollbackPcs
<1> QED
  BY <1>2, <1>3, <1>4

\* While p is at a step before the first file moves, nothing has been taken back.
LEMMA StillUntouched ==
  ASSUME BackInv, NEW p \in Procs, Busy(p), pc[p] \notin {"unpublish", "undo", "cleanup"}
  PROVE  Untouched
<1>1. \A q \in Procs : pc[q] \notin {"unpublish", "undo", "cleanup"}
  BY OthersIdle DEF BackInv
<1> QED
  BY <1>1 DEF BackInv, TakingBack

\* What TakingBack says of the restore itself.
LEMMA BackFacts ==
  ASSUME BackInv
  PROVE  /\ journal \in Journals /\ journal # NoJournal /\ journal.id \in Ids \ ids
         /\ journal.id # NoId /\ marker = NoId /\ faults = MaxFaults /\ faults > 0
         /\ journal.state \in {"publishing_old", "publishing_new"}
         /\ journal.files \subseteq Keys /\ root \subseteq Keys /\ Dot \notin Keys
         /\ staging[journal.id] \subseteq Keys \cup {Dot}
         /\ rollback[journal.id] \subseteq Keys \cup {Dot}
         /\ \A o \in Ids \ {journal.id} : staging[o] = {} /\ rollback[o] = {}
BY ConstantsAssumption DEF BackInv, TypeOK, TakingBack, Journals

\* A step of the way back that moves nothing.
LEMMA BackStepInPlace ==
  ASSUME BackInv, NEW p \in Procs, Busy(p),
         NEW to \in {"load", "rollback", "unpublish", "undo"},
         pc[p] \notin {"unpublish", "undo", "cleanup"},
         pc' = [pc EXCEPT ![p] = to], TypeOK', TakesBack(p)',
         UNCHANGED <<dbVars, diskVars, lease, ids, faults>>
  PROVE  BackInv'
<1>1. to \in Pcs
  BY DEF Pcs, BusyPcs, RecoveryPcs, RollbackPcs
<1>2. OnlyLeaseOwnerRestores' /\ \A q \in Procs : TakesBack(q)'
  BY <1>1, BackOwnerStep DEF dbVars
<1>3. Untouched'
  BY StillUntouched DEF Untouched, dbVars, diskVars
<1>4. TakingBack'
  BY <1>2, <1>3 DEF BackInv, TakingBack, dbVars, diskVars
<1> QED
  BY <1>2, <1>4 DEF BackInv

\* Recovery finds no marker.
LEMMA BackReadMarker ==
  ASSUME BackInv, NEW p \in Procs, ReadMarker(p)
  PROVE  BackInv'
<1> USE DEF ReadMarker, Goto
<1>1. Busy(p) /\ "load" \in Pcs
  BY DEF Busy, BusyPcs, RecoveryPcs, Pcs
<1>2. TypeOK'
  BY <1>1 DEF BackInv, TypeOK, dbVars, diskVars
<1>3. TakesBack(p)'
  BY BackFacts DEF BackInv, TypeOK, TakesBack, RollbackPcs
<1> QED
  BY <1>1, <1>2, <1>3, BackStepInPlace

\* An unmarked publication is taken back.
LEMMA BackRecoverRestore ==
  ASSUME BackInv, NEW p \in Procs, RecoverRestore(p)
  PROVE  BackInv'
<1> USE DEF RecoverRestore, Goto
<1>1. Busy(p) /\ "rollback" \in Pcs
  BY DEF Busy, BusyPcs, RecoveryPcs, RollbackPcs, Pcs
<1>2. RecoverTo(p) = "rollback"
  BY BackFacts DEF BackInv, TakingBack, TakesBack, RecoverTo
<1>3. TypeOK'
  BY <1>1, <1>2 DEF BackInv, TypeOK, dbVars, diskVars
<1>4. TakesBack(p)'
  BY <1>2, BackFacts DEF BackInv, TypeOK, TakesBack, RollbackPcs, diskVars
<1> QED
  BY <1>1, <1>2, <1>3, <1>4, BackStepInPlace

\* The reverse loops start from what the journal says has been moved.
LEMMA BackRollback ==
  ASSUME BackInv, NEW p \in Procs, Rollback(p)
  PROVE  BackInv'
<1> USE DEF Rollback, Goto
<1> DEFINE i == journal.id
<1>1. Busy(p) /\ {"undo", "unpublish"} \subseteq Pcs
  BY DEF Busy, BusyPcs, RollbackPcs, Pcs
<1>2. Current(p) /\ tx[p] = journal
  BY BackFacts DEF BackInv, TakingBack, TakesBack, RollbackPcs, Current
<1>3. Untouched
  BY <1>1, StillUntouched
<1>4. CASE journal.state = "publishing_old"
  <2>1. /\ pc' = [pc EXCEPT ![p] = "undo"] /\ tx' = [tx EXCEPT ![p] = journal]
        /\ todo' = [todo EXCEPT ![p] = rollback[i] \ {Dot}]
    BY <1>2, <1>4
  <2>2. TypeOK'
    BY <1>1, <2>1, BackFacts DEF BackInv, TypeOK, dbVars, diskVars
  <2>3. TakesBack(p)'
    BY <1>3, <1>4, <2>1 DEF BackInv, TypeOK, TakesBack, RollbackPcs, Untouched, dbVars, diskVars
  <2> QED
    BY <1>1, <2>1, <2>2, <2>3, BackStepInPlace
<1>5. CASE journal.state = "publishing_new"
  <2>1. /\ pc' = [pc EXCEPT ![p] = "unpublish"] /\ tx' = [tx EXCEPT ![p] = journal]
        /\ todo' = [todo EXCEPT ![p] = journal.files]
    BY <1>2, <1>5
  <2>2. TypeOK'
    BY <1>1, <2>1, BackFacts DEF BackInv, TypeOK, dbVars, diskVars
  <2>3. TakesBack(p)'
    BY <1>3, <1>5, <2>1 DEF BackInv, TypeOK, TakesBack, RollbackPcs, Untouched, dbVars, diskVars
  <2> QED
    BY <1>1, <2>1, <2>2, <2>3, BackStepInPlace
<1> QED
  BY <1>4, <1>5, BackFacts

\* The published files leave the root, one by one; the staged ones never were there.
LEMMA BackRemovePublished ==
  ASSUME BackInv, NEW p \in Procs, RemovePublishedMedia(p)
  PROVE  BackInv'
<1> USE DEF RemovePublishedMedia, Goto
<1> DEFINE i == journal.id
<1>1. Busy(p) /\ {"undo", "unpublish"} \subseteq Pcs /\ pc[p] = "unpublish"
  BY DEF Busy, BusyPcs, RollbackPcs, Pcs
<1>2. /\ tx[p] = journal /\ journal.state = "publishing_new" /\ db = rollback[i] \ {Dot}
      /\ root \subseteq todo[p] /\ root \cap staging[i] = {}
  BY <1>1 DEF BackInv, TakingBack, TakesBack, RollbackPcs
<1>3. CASE \E k \in todo[p] :
             /\ root' = IF k \in staging[tx[p].id] THEN root ELSE root \ {k}
             /\ todo' = [todo EXCEPT ![p] = @ \ {k}]
             /\ UNCHANGED pc
  <2>1. PICK k \in todo[p] : root' = root \ {k} /\ todo' = [todo EXCEPT ![p] = @ \ {k}]
    BY <1>2, <1>3
  <2>2. TypeOK'
    BY <2>1, <1>3, BackFacts DEF BackInv, TypeOK, dbVars
  <2>3. TakesBack(p)'
    BY <2>1, <1>1, <1>2, <1>3 DEF BackInv, TypeOK, TakesBack, RollbackPcs, dbVars
  <2>4. pc' = [pc EXCEPT ![p] = "unpublish"]
    BY <1>1, <1>3 DEF BackInv, TypeOK
  <2>5. OnlyLeaseOwnerRestores' /\ pc'[p] = "unpublish" /\ \A q \in Procs : TakesBack(q)'
    BY <2>2, <2>3, <2>4, <1>1, BackOwnerStep
  <2>6. TakingBack'
    BY <2>5 DEF BackInv, TakingBack, dbVars
  <2> QED
    BY <2>2, <2>5, <2>6 DEF BackInv
<1>4. CASE /\ todo[p] = {} /\ Goto(p, "unpublish", "undo")
           /\ todo' = [todo EXCEPT ![p] = rollback[tx[p].id] \ {Dot}]
           /\ UNCHANGED root
  <2>1. pc' = [pc EXCEPT ![p] = "undo"] /\ todo' = [todo EXCEPT ![p] = rollback[i] \ {Dot}]
    BY <1>2, <1>4
  <2>2. TypeOK'
    BY <2>1, <1>1, <1>4, BackFacts DEF BackInv, TypeOK, dbVars
  <2>3. root = {}
    BY <1>2, <1>4
  <2>4. TakesBack(p)'
    BY <2>1, <2>3, <1>2, <1>4 DEF BackInv, TypeOK, TakesBack, RollbackPcs, dbVars
  <2>5. OnlyLeaseOwnerRestores' /\ pc'[p] = "undo" /\ \A q \in Procs : TakesBack(q)'
    BY <2>1, <2>2, <2>4, <1>1, BackOwnerStep
  <2>6. TakingBack'
    BY <2>5 DEF BackInv, TakingBack, dbVars
  <2> QED
    BY <2>2, <2>5, <2>6 DEF BackInv
<1> QED
  BY <1>3, <1>4

\* The old files come back, one by one, none over another; then the root holds
\* the media of the dump.
LEMMA BackRestoreRollback ==
  ASSUME BackInv, NEW p \in Procs, RestoreRollbackMedia(p)
  PROVE  BackInv'
<1> USE DEF RestoreRollbackMedia, Goto
<1> DEFINE i == journal.id
<1>1. Busy(p) /\ {"undo", "cleanup"} \subseteq Pcs /\ pc[p] = "undo"
  BY DEF Busy, BusyPcs, RollbackPcs, FinishPcs, Pcs
<1>2. /\ tx[p] = journal /\ db = (rollback[i] \ {Dot}) \cup root
      /\ todo[p] = rollback[i] \ {Dot} /\ root \cap rollback[i] = {}
  BY <1>1 DEF BackInv, TakingBack, TakesBack, RollbackPcs
<1>3. CASE \E k \in todo[p] \ (root \cap rollback[tx[p].id]) :
             /\ root' = root \cup ({k} \cap rollback[tx[p].id])
             /\ rollback' = [rollback EXCEPT ![tx[p].id] = @ \ {k}]
             /\ todo' = [todo EXCEPT ![p] = @ \ {k}]
             /\ UNCHANGED pc
  <2>1. PICK k \in rollback[i] \ {Dot} :
          /\ root' = root \cup {k}
          /\ rollback' = [rollback EXCEPT ![i] = @ \ {k}]
          /\ todo' = [todo EXCEPT ![p] = @ \ {k}]
    <3>1. PICK k \in todo[p] :
            /\ root' = root \cup ({k} \cap rollback[i])
            /\ rollback' = [rollback EXCEPT ![i] = @ \ {k}]
            /\ todo' = [todo EXCEPT ![p] = @ \ {k}]
      BY <1>2, <1>3
    <3>2. k \in rollback[i] \ {Dot} /\ {k} \cap rollback[i] = {k}
      BY <1>2
    <3> QED
      BY <3>1, <3>2
  <2>2. TypeOK'
    BY <2>1, <1>3, BackFacts DEF BackInv, TypeOK, dbVars
  <2>3. rollback'[i] = rollback[i] \ {k} /\ todo'[p] = todo[p] \ {k}
    BY <2>1, BackFacts DEF BackInv, TypeOK
  <2>4. TakesBack(p)'
    BY <2>1, <2>3, <1>1, <1>2, <1>3 DEF TakesBack, RollbackPcs, dbVars
  <2>5. pc' = [pc EXCEPT ![p] = "undo"]
    BY <1>1, <1>3 DEF BackInv, TypeOK
  <2>6. OnlyLeaseOwnerRestores' /\ pc'[p] = "undo" /\ \A q \in Procs : TakesBack(q)'
    BY <2>2, <2>4, <2>5, <1>1, BackOwnerStep
  <2>7. \A o \in Ids \ {i} : rollback'[o] = rollback[o]
    BY <2>1 DEF BackInv, TypeOK
  <2>8. TakingBack'
    BY <2>6, <2>7 DEF BackInv, TakingBack, dbVars
  <2> QED
    BY <2>2, <2>6, <2>8 DEF BackInv
<1>4. ~(todo[p] \cap root \cap rollback[tx[p].id] # {})
  BY <1>2
<1>5. CASE /\ todo[p] = {} /\ Goto(p, "undo", "cleanup")
           /\ UNCHANGED <<root, rollback, todo>>
  <2>1. TypeOK'
    BY <1>1, <1>5 DEF BackInv, TypeOK, dbVars
  <2>2. root = db
    BY <1>2, <1>5
  <2>3. TakesBack(p)'
    BY <2>2, <1>2, <1>5 DEF BackInv, TypeOK, TakesBack, RollbackPcs, dbVars
  <2>4. OnlyLeaseOwnerRestores' /\ pc'[p] = "cleanup" /\ \A q \in Procs : TakesBack(q)'
    BY <2>1, <2>3, <1>1, <1>5, BackOwnerStep
  <2>5. TakingBack'
    BY <2>4, <1>5 DEF BackInv, TakingBack, dbVars
  <2> QED
    BY <2>1, <2>4, <2>5 DEF BackInv
<1> QED
  BY <1>3, <1>4, <1>5

\* cleanup removes directories nothing is missing from; with the journal gone the
\* site is settled.
LEMMA BackCleanup ==
  ASSUME BackInv, NEW p \in Procs, Cleanup(p)
  PROVE  BackInv' \/ IInv'
<1> USE DEF Cleanup, Goto
<1> DEFINE i == journal.id
<1>1. Busy(p) /\ "cleanup" \in Pcs /\ pc[p] = "cleanup"
  BY DEF Busy, BusyPcs, FinishPcs, Pcs
<1>2. tx[p] = journal /\ root = db
  BY <1>1 DEF BackInv, TakingBack, TakesBack
<1>3. CASE /\ \/ Shrinks(staging, i) /\ UNCHANGED <<rollback, journal, pc>>
              \/ Shrinks(rollback, i) /\ UNCHANGED <<staging, journal, pc>>
  <2>1. /\ staging' \in [Ids -> SUBSET (Keys \cup {Dot})]
        /\ rollback' \in [Ids -> SUBSET (Keys \cup {Dot})]
        /\ \A o \in Ids \ {i} : staging'[o] = staging[o] /\ rollback'[o] = rollback[o]
        /\ UNCHANGED <<journal, pc>>
    <3>1. CASE Shrinks(staging, i) /\ UNCHANGED <<rollback, journal, pc>>
      BY <3>1, BackFacts DEF Shrinks, BackInv, TypeOK
    <3>2. CASE Shrinks(rollback, i) /\ UNCHANGED <<staging, journal, pc>>
      BY <3>2, BackFacts DEF Shrinks, BackInv, TypeOK
    <3> QED
      BY <1>3, <3>1, <3>2
  <2>2. TypeOK'
    BY <2>1 DEF BackInv, TypeOK, dbVars, memVars
  <2>3. TakesBack(p)'
    BY <2>1, <1>1, <1>2 DEF TakesBack, RollbackPcs, dbVars, memVars
  <2>4. pc' = [pc EXCEPT ![p] = "cleanup"]
    BY <2>1, <1>1 DEF BackInv, TypeOK
  <2>5. OnlyLeaseOwnerRestores' /\ pc'[p] = "cleanup" /\ \A q \in Procs : TakesBack(q)'
    BY <2>2, <2>3, <2>4, <1>1, BackOwnerStep
  <2>6. TakingBack'
    BY <2>1, <2>5 DEF BackInv, TakingBack, dbVars
  <2> QED
    BY <2>2, <2>5, <2>6 DEF BackInv
<1>4. CASE /\ staging[i] = {} /\ rollback[i] = {} /\ journal' = NoJournal
           /\ Goto(p, "cleanup", DonePc(p)) /\ UNCHANGED <<staging, rollback>>
  <2> DEFINE to == DonePc(p)
  <2>1. to \in {"archive", "release"} /\ to \in Pcs
    BY Continuations DEF Pcs, BusyPcs, FinishPcs, RestorePcs
  <2>2. TypeOK'
    BY <2>1, <1>4 DEF BackInv, TypeOK, dbVars, memVars
  <2>3. OnlyLeaseOwnerRestores' /\ pc'[p] = to
    BY <2>1, <2>2, <1>1, <1>4, BackOwnerStep
  <2>4. DiskInv'
    BY <1>2, <1>4, BackFacts DEF DiskInv, dbVars
  <2>5. ASSUME NEW q \in Procs PROVE PcInv(q)'
    <3>1. CASE q = p
      BY <3>1, <2>1, <2>3, BackFacts DEF PcInv, PublishPcs, dbVars
    <3>2. CASE q # p
      <4>1. pc'[q] \in {"down", "serving"}
        BY <3>2, <1>1, <1>4, OthersIdle DEF BackInv, TypeOK
      <4> QED
        BY <4>1 DEF PcInv, PublishPcs
    <3> QED
      BY <3>1, <3>2
  <2> QED
    BY <2>2, <2>3, <2>4, <2>5 DEF IInv
<1> QED
  BY <1>2, <1>3, <1>4

\* Nothing else happens while the media are taken back: the fault that stopped the
\* API was the last one.
LEMMA BackNext ==
  ASSUME BackInv, [DumpNext]_vars
  PROVE  (BackInv' \/ IInv') /\ faults' = faults /\ (Procs = {} => marker' = NoId)
<1>1. ASSUME NEW p \in Procs, NEW to \in {"recover", "serving"},
             pc[p] \in {"down", "serving"}, pc' = [pc EXCEPT ![p] = to],
             \/ to = "recover" /\ lease = Free /\ lease' = p
             \/ to = "serving" /\ lease' = lease,
             phase' \in [Procs -> Phases],
             UNCHANGED <<dbVars, diskVars, memVars, ids, faults>>
      PROVE  BackInv'
  <2>1. TypeOK'
    BY <1>1 DEF BackInv, TypeOK, Pcs, BusyPcs, RecoveryPcs, dbVars, diskVars, memVars
  <2>2. OnlyLeaseOwnerRestores'
    BY <1>1, ConstantsAssumption
    DEF BackInv, TypeOK, OnlyLeaseOwnerRestores, Busy, BusyPcs, RecoveryPcs, RollbackPcs,
        PublishPcs, FinishPcs, RestorePcs
  <2>3. ASSUME NEW q \in Procs PROVE TakesBack(q)'
    <3>1. TakesBack(q)
      BY DEF BackInv, TakingBack
    <3>2. CASE q = p
      BY <3>2, <1>1 DEF BackInv, TypeOK, TakesBack, RollbackPcs
    <3>3. CASE q # p
      <4>1. pc'[q] = pc[q]
        BY <3>3, <1>1 DEF BackInv, TypeOK
      <4> QED
        BY <4>1, <3>1, <1>1 DEF TakesBack, dbVars, diskVars, memVars
    <3> QED
      BY <3>2, <3>3
  <2>4. Untouched' \/ ~(\A q \in Procs : pc'[q] \notin {"unpublish", "undo", "cleanup"})
    <3>1. CASE Untouched
      BY <3>1, <1>1 DEF Untouched, dbVars, diskVars
    <3>2. CASE ~Untouched
      <4>1. PICK q \in Procs : pc[q] \in {"unpublish", "undo", "cleanup"}
        BY <3>2 DEF BackInv, TakingBack
      <4>2. pc'[q] = pc[q]
        BY <4>1, <1>1 DEF BackInv, TypeOK
      <4> QED
        BY <4>1, <4>2
    <3> QED
      BY <3>1, <3>2
  <2>5. TakingBack'
    BY <1>1, <2>3, <2>4 DEF BackInv, TakingBack, dbVars, diskVars
  <2> QED
    BY <2>1, <2>2, <2>5 DEF BackInv
<1>2. ASSUME NEW p \in Procs, Boot(p) \/ RequestRestore(p) PROVE BackInv' /\ faults' = faults
  <2>1. phase' \in [Procs -> Phases]
    BY <1>2 DEF Boot, RequestRestore, BackInv, TypeOK, Phases
  <2> QED
    BY <1>1, <1>2, <2>1 DEF Boot, RequestRestore, Goto
<1>3. ASSUME LeaseExpires PROVE BackInv' /\ faults' = faults
  <2>1. TypeOK' /\ OnlyLeaseOwnerRestores'
    BY <1>3, ConstantsAssumption
    DEF LeaseExpires, BackInv, TypeOK, OnlyLeaseOwnerRestores, Busy, dbVars, diskVars, memVars
  <2>2. TakingBack'
    BY <1>3 DEF LeaseExpires, BackInv, TakingBack, TakesBack, Untouched, dbVars, diskVars, memVars
  <2> QED
    BY <1>3, <2>1, <2>2 DEF BackInv, LeaseExpires
<1>4. ASSUME UNCHANGED vars PROVE BackInv' /\ faults' = faults
  <2>1. TypeOK' /\ OnlyLeaseOwnerRestores'
    BY <1>4 DEF vars, BackInv, TypeOK, OnlyLeaseOwnerRestores, Busy
  <2>2. TakingBack'
    BY <1>4 DEF vars, BackInv, TakingBack, TakesBack, Untouched
  <2> QED
    BY <1>4, <2>1, <2>2 DEF BackInv, vars
<1>5. ASSUME NEW p \in Procs PROVE ~Crash(p) /\ ~OperationFails(p)
  BY BackFacts, ConstantsAssumption DEF Crash, OperationFails
<1>6. ~LoadOlderDump
  BY BackFacts DEF LoadOlderDump
<1>7. ASSUME NEW p \in Procs, Recovery(p) \/ Undo(p) PROVE (BackInv' \/ IInv') /\ faults' = faults
  <2>1. BackInv' \/ IInv'
    BY <1>7, BackReadMarker, BackRecoverRestore, BackRollback, BackRemovePublished,
       BackRestoreRollback, BackCleanup
    DEF Recovery, Undo
  <2>2. faults' = faults
    BY <1>7 DEF Recovery, Undo, ReadMarker, RecoverRestore, Rollback, RemovePublishedMedia,
       RestoreRollbackMedia, Cleanup
  <2> QED
    BY <2>1, <2>2
<1>8. ASSUME NEW p \in Procs
      PROVE  ~Publication(p) /\ ~Staging(p) /\ ~Database(p) /\ ~ReleaseLease(p)
  <2>1. pc[p] \in {"down", "serving", "recover", "load", "cleanup", "rollback", "unpublish", "undo"}
    BY DEF BackInv, TakingBack, TakesBack, RollbackPcs
  <2>2. ~Publication(p)
    BY <2>1 DEF Publication, Publish, PublishPhase, MoveCurrentMediaToRollback,
       MoveStagedMediaToRoot, ClearMarker, Finalize
  <2>3. ~Staging(p)
    BY <2>1 DEF Staging, ReadArchive, BeginRestore, CreateStaging, CreateRollback,
       RestoreArchiveMedia, Goto
  <2>4. ~Database(p)
    BY <2>1 DEF Database, CheckLeaseBeforeDatabase, CommitDatabase, DatabaseFails, CheckMarker,
       CheckLeaseBeforePublish, Goto
  <2> QED
    BY <2>1, <2>2, <2>3, <2>4 DEF ReleaseLease, Goto
<1>9. (BackInv' \/ IInv') /\ faults' = faults
  BY <1>2, <1>3, <1>4, <1>5, <1>6, <1>7, <1>8 DEF DumpNext, Next, Proceed, BackInv
<1>10. Procs = {} => marker' = NoId
  BY <1>6, BackFacts DEF DumpNext, Next, LeaseExpires, dbVars, vars
<1> QED
  BY <1>9, <1>10

\* For a site that meets at most one fault the invariant of the dump is inductive.
LEMMA DumpNextInv ==
  ASSUME MaxFaults <= 1, DumpIInv, [DumpNext]_vars
  PROVE  DumpIInv'
<1>1. CASE IInv
  <2>1. CASE [Next]_vars
    <3>1. IInv'
      BY <1>1, <2>1, NextInv
    <3>2. DownAfterFault'
      <4>1. CASE Next
        BY <1>1, <4>1, DownAfterFaultStep DEF DumpIInv
      <4>2. CASE UNCHANGED vars
        BY <4>2 DEF DumpIInv, DownAfterFault, vars
      <4> QED
        BY <2>1, <4>1, <4>2
    <3> QED
      BY <3>1, <3>2 DEF DumpIInv
  <2>2. CASE LoadOlderDump
    BY <1>1, <2>2, LoadOlderDumpInv DEF DumpIInv, BackInv
  <2> QED
    BY <2>1, <2>2 DEF DumpNext
<1>2. CASE BackInv
  <2>1. (BackInv' \/ IInv') /\ faults' = faults /\ (Procs = {} => marker' = NoId)
    BY <1>2, BackNext
  <2>2. faults' > 0
    BY <1>2, <2>1, BackFacts
  <2> QED
    BY <2>1, <2>2 DEF DumpIInv, BackInv, DownAfterFault
<1> QED
  BY <1>1, <1>2 DEF DumpIInv, BackInv

\* A site that meets at most one fault, and on which an older dump may be loaded in
\* the middle of a publication, stays as DumpIInv says.
THEOREM DumpInvariance ==
  ASSUME MaxFaults <= 1
  PROVE  DumpSpec => []DumpIInv
<1>1. Init => DumpIInv
  <2>1. ASSUME Init PROVE DownAfterFault
    BY <2>1 DEF Init, DownAfterFault
  <2> QED
    BY <2>1, InitInv DEF DumpIInv
<1>2. DumpIInv /\ [DumpNext]_vars => DumpIInv'
  BY DumpNextInv
<1> QED
  BY <1>1, <1>2, PTL DEF DumpSpec

\* While start-up takes the published files back, no file of the database is
\* outside the root and the rollback directory.  The hypothesis is needed: a second
\* fault in the middle of the way back makes removePublishedMedia delete files it
\* has put back already, as the run rollback_twice shows.
THEOREM DumpMediaKept ==
  ASSUME MaxFaults <= 1
  PROVE  DumpSpec => []RolledBackMediaKept
<1>1. ASSUME DumpIInv PROVE RolledBackMediaKept
  <2> SUFFICES ASSUME journal # NoJournal, marker = NoId
               PROVE  db \subseteq root \cup rollback[journal.id]
    BY DEF RolledBackMediaKept
  <2>1. CASE IInv
    <3>1. JournalInv /\ journal.id # NoId /\ journal.state \in JournalStates
      BY <2>1, ConstantsAssumption DEF IInv, DiskInv, TypeOK, Journals
    <3> QED
      BY <3>1 DEF JournalInv, JournalStates
  <2>2. CASE BackInv
    <3>1. CASE Untouched
      BY <3>1, <2>2, BackFacts DEF Untouched
    <3>2. CASE ~Untouched
      <4>1. PICK q \in Procs : pc[q] \in {"unpublish", "undo", "cleanup"}
        BY <3>2, <2>2 DEF BackInv, TakingBack
      <4> QED
        BY <4>1, <2>2 DEF BackInv, TakingBack, TakesBack
    <3> QED
      BY <3>1, <3>2
  <2> QED
    BY <1>1, <2>1, <2>2 DEF DumpIInv, BackInv
<1> QED
  BY <1>1, DumpInvariance, PTL

\* Once the way back is done the media root holds the files of the dump and no others.
THEOREM DumpSettles ==
  ASSUME MaxFaults <= 1
  PROVE  DumpSpec => []SettledMediaMatchesDatabase
<1>1. ASSUME DumpIInv PROVE SettledMediaMatchesDatabase
  BY <1>1 DEF DumpIInv, IInv, DiskInv, TakingBack, SettledMediaMatchesDatabase
<1> QED
  BY <1>1, DumpInvariance, PTL
=============================================================================
