------------------------ MODULE MediaLibrary_proofs ------------------------
(***************************************************************************)
(* Proofs about MediaLibrary for any number of keys, requests, crashes,    *)
(* failing calls and failing repairs.                                      *)
(***************************************************************************)
EXTENDS MediaLibrary, TLAPS

\* While a request holds the lock every other one is idle.
LEMMA Alone ==
  ASSUME LockInv, NEW r \in Requests, pc[r] # "idle", NEW q \in Requests, q # r
  PROVE  pc[q] = "idle" /\ op[q] = NoOp
BY DEF LockInv

\* Nothing is claimed of an idle request.
LEMMA IdleInv ==
  ASSUME NEW q \in Requests, pc[q] = "idle", op[q] = NoOp
  PROVE  OpInv(q) /\ StepInv(q)
BY DEF OpInv, StepInv, NoOp, Operation, UploadPcs, DeletePcs

\* The hidden file of an operation, and the entry of it.
LEMMA HiddenEntries ==
  ASSUME TypeOK, NEW r \in Requests, op[r].key \in Keys, op[r] # NoOp
  PROVE  /\ Staged(r) \in Entries /\ Staged(r).key = op[r].key /\ Staged(r).use = "upload"
         /\ Quarantined(r) \in Entries /\ Quarantined(r).key = op[r].key
         /\ Quarantined(r).use = "delete"
         /\ op[r].no \in Nos
BY DEF TypeOK, Staged, Quarantined, Entries, NoOp, Operation, Operations

\* What a step of an operation in progress has to establish: nobody else is touched.
LEMMA Moves ==
  ASSUME IInv, NEW r \in Requests, pc[r] # "idle", NEW to \in Pcs \ {"idle"},
         pc' = [pc EXCEPT ![r] = to], lock' = lock,
         NEW v, v # NoOp, op' = [op EXCEPT ![r] = v],
         TypeOK', NoFileLost', OnlyListedServed', OpInv(r)',
         skips' = 0 => RepairableInv' /\ StepInv(r)'
  PROVE  IInv'
<1>1. TypeOK /\ LockInv
  BY DEF IInv
<1>2. pc'[r] = to /\ op'[r] = v /\ lock' = r
  BY <1>1 DEF TypeOK, LockInv
<1>3. ASSUME NEW q \in Requests, q # r
      PROVE  pc'[q] = "idle" /\ op'[q] = NoOp
  BY <1>1, <1>3, Alone DEF TypeOK
<1>4. LockInv'
  BY <1>2, <1>3, ConstantsAssumption DEF LockInv
<1>5. ASSUME NEW q \in Requests, q # r
      PROVE  OpInv(q)' /\ StepInv(q)'
  BY <1>3, <1>5 DEF OpInv, StepInv, NoOp, Operation, UploadPcs, DeletePcs
<1> QED
  BY <1>4, <1>5 DEF IInv

\* What the last step of an operation has to establish.
LEMMA Leaves ==
  ASSUME IInv, NEW r \in Requests, pc[r] # "idle", Leave(r),
         TypeOK', NoFileLost', OnlyListedServed', skips' = 0 => RepairableInv'
  PROVE  IInv'
<1>1. TypeOK /\ LockInv
  BY DEF IInv
<1>2. ASSUME NEW q \in Requests
      PROVE  pc'[q] = "idle" /\ op'[q] = NoOp
  BY <1>1, Alone DEF TypeOK, Leave
<1>3. LockInv'
  BY <1>2, ConstantsAssumption DEF LockInv, Leave
<1>4. ASSUME NEW q \in Requests
      PROVE  OpInv(q)' /\ StepInv(q)'
  BY <1>2 DEF OpInv, StepInv, NoOp, Operation, UploadPcs, DeletePcs
<1> QED
  BY <1>3, <1>4 DEF IInv

\* A step that leaves the rows and the files alone.
LEMMA SameFiles ==
  ASSUME IInv, UNCHANGED <<row, root, hidden, skips, unseen>>
  PROVE  NoFileLost' /\ OnlyListedServed' /\ (skips' = 0 => RepairableInv')
BY DEF IInv, NoFileLost, Survives, OnlyListedServed, RepairableInv

\* The request leaves without having touched rows or files.
LEMMA LeavesOnly ==
  ASSUME IInv, NEW r \in Requests, pc[r] # "idle", Leave(r),
         UNCHANGED <<row, root, hidden, cited, skips, unseen>>,
         uploads' \in 0 .. MaxUploads, deletes' \in 0 .. MaxDeletes,
         crashes' \in 0 .. MaxCrashes, errors' \in 0 .. MaxErrors
  PROVE  IInv'
<1>1. TypeOK'
  BY DEF IInv, TypeOK, Leave, Pcs
<1> QED
  BY <1>1, SameFiles, Leaves

LEMMA InitInv == Init => IInv
<1> SUFFICES ASSUME Init PROVE IInv
  OBVIOUS
<1>1. TypeOK
  BY ConstantsAssumption DEF Init, TypeOK, Pcs, Contents
<1>2. \A r \in Requests : OpInv(r) /\ StepInv(r)
  BY IdleInv DEF Init
<1>3. LockInv /\ NoFileLost /\ OnlyListedServed /\ RepairableInv
  BY ConstantsAssumption DEF Init, LockInv, NoFileLost, OnlyListedServed, RepairableInv
<1> QED
  BY <1>1, <1>2, <1>3 DEF IInv

-----------------------------------------------------------------------------
(* Taking the lock, and the repair.                                        *)

\* An operation begins by taking the lock.
LEMMA StartInv ==
  ASSUME IInv, NEW r \in Requests, StartUpload(r) \/ StartDelete(r)
  PROVE  IInv'
<1> USE DEF IInv
<1>1. PICK o \in Operations :
        op' = [op EXCEPT ![r] = o] /\ (o.kind = "upload" => o.key \in Keys)
  <2>1. CASE StartUpload(r)
    <3>1. PICK k \in Keys : op' = [op EXCEPT ![r] = Operation("upload", k, uploads + 1)]
      BY <2>1 DEF StartUpload
    <3>2. uploads + 1 \in Nos
      BY <2>1, ConstantsAssumption DEF StartUpload, TypeOK, Nos
    <3>3. Operation("upload", k, uploads + 1) \in Operations
      BY <3>2 DEF Operation, Operations
    <3> QED
      BY <3>1, <3>3 DEF Operation
  <2>2. CASE StartDelete(r)
    <3>1. PICK id \in 1 .. uploads : op' = [op EXCEPT ![r] = Operation("delete", NoKey, id)]
      BY <2>2 DEF StartDelete
    <3>2. id \in Nos
      BY ConstantsAssumption DEF TypeOK, Nos
    <3>3. Operation("delete", NoKey, id) \in Operations
      BY <3>2 DEF Operation, Operations
    <3> QED
      BY <3>1, <3>3 DEF Operation
  <2> QED
    BY <2>1, <2>2
<1>2. /\ lock = Free /\ lock' = r /\ pc' = [pc EXCEPT ![r] = "scan"]
      /\ UNCHANGED <<row, root, hidden, cited, todo, crashes, errors, skips, unseen>>
      /\ uploads' \in 0 .. MaxUploads /\ deletes' \in 0 .. MaxDeletes
  BY ConstantsAssumption DEF StartUpload, StartDelete, Goto, files, TypeOK
<1>3. TypeOK'
  BY <1>1, <1>2 DEF TypeOK, Pcs
<1>4. todo = {} /\ \A q \in Requests : pc[q] = "idle" /\ op[q] = NoOp
  BY <1>2, ConstantsAssumption DEF LockInv
<1>5. \A q \in Requests : q # r => pc'[q] = "idle" /\ op'[q] = NoOp
  BY <1>1, <1>2, <1>4 DEF TypeOK
<1>6. pc'[r] = "scan" /\ op'[r] = o /\ o # NoOp
  BY <1>1, <1>2 DEF TypeOK, NoOp, Operation, Operations
<1>7. LockInv'
  BY <1>2, <1>5, <1>6, ConstantsAssumption DEF LockInv
<1>8. ASSUME NEW q \in Requests
      PROVE  OpInv(q)' /\ StepInv(q)'
  BY <1>1, <1>2, <1>4, <1>5, <1>6 DEF OpInv, StepInv, NoOp, Operation, UploadPcs, DeletePcs
<1> QED
  BY <1>2, <1>3, <1>7, <1>8, SameFiles

\* The directory is read.
LEMMA ScanInv ==
  ASSUME IInv, NEW r \in Requests, Scan(r)
  PROVE  IInv'
<1> USE DEF IInv
<1>1. /\ pc[r] = "scan" /\ pc' = [pc EXCEPT ![r] = "recover"]
      /\ todo' = {e \in Entries : hidden[e] # "none"}
      /\ UNCHANGED <<row, root, hidden, cited, lock, op, uploads, deletes, crashes, errors, skips, unseen>>
  BY DEF Scan, Goto, files, counts
<1>2. TypeOK'
  BY <1>1 DEF TypeOK, Pcs
<1>3. pc'[r] = "recover" /\ op[r] # NoOp /\ op' = [op EXCEPT ![r] = op[r]]
  BY <1>1 DEF TypeOK, LockInv
<1>4. OpInv(r)'
  BY <1>1, <1>3 DEF OpInv, UploadPcs, DeletePcs
<1>5. StepInv(r)'
  BY <1>1, <1>3 DEF StepInv
<1> QED
  BY <1>1, <1>2, <1>3, <1>4, <1>5, SameFiles, Moves DEF Pcs

\* All entries are handled.
LEMMA RecoveredInv ==
  ASSUME IInv, NEW r \in Requests, Recovered(r)
  PROVE  IInv'
<1> USE DEF IInv
<1>1. /\ pc[r] = "recover" /\ pc' = [pc EXCEPT ![r] = "find"] /\ todo = {}
      /\ UNCHANGED <<row, root, hidden, cited, lock, op, todo, uploads, deletes, crashes, errors, skips, unseen>>
  BY DEF Recovered, Goto, files, counts
<1>2. TypeOK'
  BY <1>1 DEF TypeOK, Pcs
<1>3. pc'[r] = "find" /\ op[r] # NoOp /\ op' = [op EXCEPT ![r] = op[r]]
  BY <1>1 DEF TypeOK, LockInv
<1>4. OpInv(r)'
  BY <1>1, <1>3 DEF OpInv, UploadPcs, DeletePcs
<1>5. ASSUME skips = 0 PROVE StepInv(r)'
  <2>1. \A e \in Entries : hidden[e] = "none"
    BY <1>1, <1>5 DEF StepInv
  <2>2. \A k \in Keys : row[k] # 0 <=> root[k] = "whole"
    BY <2>1, <1>5 DEF NoFileLost, Survives, OnlyListedServed
  <2> QED
    BY <1>1, <1>3, <2>1, <2>2 DEF StepInv, OnlyHidden, Agree
<1> QED
  BY <1>1, <1>2, <1>3, <1>4, <1>5, SameFiles, Moves DEF Pcs

\* One hidden file is published, put back or removed.
LEMMA RecoverEntryInv ==
  ASSUME IInv, NEW r \in Requests, RecoverEntry(r)
  PROVE  IInv'
<1> USE DEF IInv
<1>1. PICK e \in todo :
        /\ \/ row[e.key] = 0 /\ Put(e, "none") /\ UNCHANGED root
           \/ row[e.key] # 0 /\ e.use = "upload" /\ PublishStaged(e)
           \/ row[e.key] # 0 /\ e.use = "delete" /\ RestoreQuarantined(e)
        /\ todo' = IF hidden'[e] = "none" THEN todo \ {e} ELSE todo
  BY DEF RecoverEntry
<1>2. /\ pc[r] = "recover"
      /\ UNCHANGED <<row, cited, lock, pc, op, uploads, deletes, crashes, errors, skips, unseen>>
  BY DEF RecoverEntry, counts
<1>3. e \in Entries /\ e.key \in Keys /\ hidden[e] # "none" /\ hidden[e] \in Contents
  BY <1>2 DEF TypeOK, OpInv, Entries
<1>4. \A c : [hidden EXCEPT ![e] = c][e] = c
             /\ \A f \in Entries : f # e => [hidden EXCEPT ![e] = c][f] = hidden[f]
  BY <1>3 DEF TypeOK
\* The cases of one entry, as what becomes of the file and of the published one.
<1>5. \/ row[e.key] = 0 /\ Put(e, "none") /\ UNCHANGED root
      \/ row[e.key] # 0 /\ root[e.key] # "none" /\ Put(e, "none") /\ UNCHANGED root
            /\ (skips = 0 => root[e.key] = "whole")
      \/ row[e.key] # 0 /\ root[e.key] = "none" /\ Put(e, "none")
            /\ root' = [root EXCEPT ![e.key] = hidden[e]]
      \/ row[e.key] # 0 /\ skips # 0 /\ root' = [root EXCEPT ![e.key] = "none"] /\ UNCHANGED hidden
  <2>1. CASE row[e.key] = 0
    BY <1>1, <2>1
  <2>2. CASE row[e.key] # 0 /\ e.use = "upload"
    BY <1>1, <1>3, <2>2 DEF PublishStaged, OnlyListedServed
  <2>3. CASE row[e.key] # 0 /\ e.use = "delete"
    <3>1. root' = IF root[e.key] = "none" THEN [root EXCEPT ![e.key] = hidden[e]] ELSE root
      BY <1>1, <2>3 DEF RestoreQuarantined
    <3>2. Put(e, "none")
      BY <1>1, <2>3 DEF RestoreQuarantined
    <3> QED
      BY <1>3, <2>3, <3>1, <3>2 DEF OnlyListedServed
  <2> QED
    BY <1>1, <2>1, <2>2, <2>3
<1>6. /\ root' \in [Keys -> Contents] /\ hidden' \in [Entries -> Contents]
      /\ todo' \in SUBSET Entries
  <2>1. root' \in [Keys -> Contents] /\ hidden' \in [Entries -> Contents]
    BY <1>3, <1>5 DEF TypeOK, Put, Contents
  <2> QED
    BY <1>1, <2>1 DEF TypeOK
<1>7. TypeOK'
  BY <1>2, <1>6 DEF TypeOK
<1>8. /\ \A f \in Entries : f # e => hidden'[f] = hidden[f]
      /\ \A k \in Keys : k # e.key => root'[k] = root[k]
  BY <1>3, <1>4, <1>5 DEF Put, TypeOK
<1>9. OnlyListedServed'
  <2>1. root'[e.key] # "none" => row[e.key] # 0 /\ (skips = 0 => root'[e.key] = "whole")
    BY <1>3, <1>5 DEF OnlyListedServed, TypeOK, RepairableInv, Contents
  <2> QED
    BY <1>2, <1>3, <1>8, <2>1 DEF OnlyListedServed
<1>10. NoFileLost'
  <2> SUFFICES ASSUME NEW k \in Keys, row[k] # 0
               PROVE  /\ k \notin unseen => Survives(k, {"partial", "whole"})'
                      /\ skips = 0 => Survives(k, {"whole"})'
    BY <1>2 DEF NoFileLost
  <2>1. CASE k # e.key
    <3>1. \A f \in Entries : f.key = k => hidden'[f] = hidden[f]
      BY <1>8, <2>1
    <3> QED
      BY <1>8, <2>1, <3>1 DEF NoFileLost, Survives
  <2>2. CASE k = e.key
    <3>1. root'[k] # "none" => Survives(k, {"partial", "whole"})'
      BY <1>6 DEF Survives, Contents
    <3>2. root'[k] = "none" => hidden' = hidden /\ skips # 0
      BY <1>3, <1>5, <2>2 DEF TypeOK
    <3>3. skips = 0 => root'[k] = "whole"
      BY <1>2, <1>9, <3>2 DEF OnlyListedServed
    <3> QED
      BY <1>3, <2>2, <3>1, <3>2, <3>3 DEF Survives, Contents
  <2> QED
    BY <2>1, <2>2
<1>11. OpInv(r)'
  <2>1. \A f \in todo' : hidden'[f] # "none"
    BY <1>1, <1>2, <1>8, <1>3 DEF TypeOK, OpInv
  <2> QED
    BY <1>2, <2>1 DEF OpInv, UploadPcs, DeletePcs, Staged, Quarantined
<1>12. ASSUME skips = 0 PROVE RepairableInv' /\ StepInv(r)'
  <2>1. hidden' = [hidden EXCEPT ![e] = "none"] /\ hidden'[e] = "none"
    BY <1>4, <1>5, <1>12 DEF Put
  <2>2. todo' = todo \ {e}
    BY <1>1, <2>1
  <2>3. todo' = {f \in Entries : hidden'[f] # "none"}
    BY <1>2, <1>3, <1>8, <1>12, <2>1, <2>2 DEF StepInv
  <2> QED
    BY <1>2, <1>8, <1>12, <2>1, <2>3 DEF RepairableInv, StepInv
<1>13. ASSUME NEW q \in Requests, q # r
       PROVE  OpInv(q)' /\ StepInv(q)'
  <2>1. pc'[q] = "idle" /\ op'[q] = NoOp
    BY <1>2, <1>13, Alone
  <2> QED
    BY <2>1 DEF OpInv, StepInv, NoOp, Operation, UploadPcs, DeletePcs
<1> QED
  BY <1>2, <1>7, <1>9, <1>10, <1>11, <1>12, <1>13 DEF LockInv

-----------------------------------------------------------------------------
(* Upload.                                                                 *)

\* The image is there already, or it is not and nothing of it is hidden.
LEMMA FindSameInv ==
  ASSUME IInv, NEW r \in Requests, FindSame(r)
  PROVE  IInv'
<1> USE DEF IInv
<1>1. pc[r] = "find" /\ op[r].kind = "upload" /\ op[r] # NoOp /\ op[r].key \in Keys
  BY DEF FindSame, LockInv, OpInv
<1>2. UNCHANGED <<row, root, hidden, cited, uploads, deletes, crashes, errors, skips, unseen>>
  BY DEF FindSame, files, counts
<1>3. CASE Leave(r)
  BY <1>1, <1>2, <1>3, LeavesOnly DEF TypeOK
<1>4. CASE row[op[r].key] = 0 /\ pc' = [pc EXCEPT ![r] = "stage"] /\ UNCHANGED <<op, lock, todo>>
  <2>1. TypeOK'
    BY <1>2, <1>4 DEF TypeOK, Pcs
  <2>2. pc'[r] = "stage" /\ op' = [op EXCEPT ![r] = op[r]]
    BY <1>4 DEF TypeOK
  <2>3. OpInv(r)'
    BY <1>1, <1>2, <1>4, <2>2 DEF OpInv, UploadPcs, DeletePcs
  <2>4. skips' = 0 => StepInv(r)'
    BY <1>1, <1>2, <1>4, <2>2 DEF StepInv, OnlyHidden, Agree
  <2> QED
    BY <1>1, <1>4, <1>2, <2>1, <2>2, <2>3, <2>4, SameFiles, Moves DEF Pcs
<1> QED
  BY <1>3, <1>4 DEF FindSame, Goto

\* A step of an upload that writes its hidden file, its row being absent.
LEMMA StagingInv ==
  ASSUME IInv, NEW r \in Requests, Stage(r) \/ Write(r)
  PROVE  IInv'
<1> USE DEF IInv
<1>1. /\ UNCHANGED <<row, root, cited, lock, op, todo, uploads, deletes, crashes, errors, skips, unseen>>
      /\ \/ pc[r] = "stage" /\ pc' = [pc EXCEPT ![r] = "write"] /\ Put(Staged(r), "partial")
         \/ pc[r] = "write" /\ pc' = [pc EXCEPT ![r] = "insert"] /\ Put(Staged(r), "whole")
  BY DEF Stage, Write, Goto, counts
<1>2. op[r].kind = "upload" /\ op[r] # NoOp /\ op[r].key \in Keys /\ row[op[r].key] = 0
  BY <1>1 DEF LockInv, OpInv, UploadPcs
<1>3. /\ Staged(r) \in Entries /\ Staged(r).key = op[r].key
      /\ Staged(r)' = Staged(r)
  BY <1>1, <1>2, HiddenEntries DEF Staged
<1>4. /\ hidden' \in [Entries -> Contents]
      /\ \A f \in Entries : f # Staged(r) => hidden'[f] = hidden[f]
      /\ pc[r] = "write" => hidden'[Staged(r)] = "whole"
  BY <1>1, <1>3 DEF TypeOK, Put, Contents
<1>5. TypeOK'
  BY <1>1, <1>4 DEF TypeOK, Pcs
<1>6. \A k \in Keys : row[k] # 0 => \A f \in Entries : f.key = k => hidden'[f] = hidden[f]
  BY <1>2, <1>3, <1>4
<1>7. NoFileLost' /\ OnlyListedServed'
  BY <1>1, <1>6 DEF NoFileLost, Survives, OnlyListedServed
<1>8. /\ op' = [op EXCEPT ![r] = op[r]]
      /\ \/ pc[r] = "stage" /\ pc'[r] = "write"
         \/ pc[r] = "write" /\ pc'[r] = "insert"
  BY <1>1 DEF TypeOK
<1>9. OpInv(r)'
  BY <1>1, <1>2, <1>3, <1>4, <1>8 DEF OpInv, UploadPcs, DeletePcs
<1>10. ASSUME skips = 0 PROVE RepairableInv' /\ StepInv(r)'
  <2>1. RepairableInv'
    <3> SUFFICES ASSUME NEW f \in Entries, hidden'[f] = "partial" PROVE row[f.key] = 0
      BY <1>1 DEF RepairableInv
    <3> QED
      BY <1>2, <1>3, <1>4, <1>10 DEF RepairableInv
  <2>2. OnlyHidden({Staged(r)}) /\ Agree(Keys)
    BY <1>1, <1>10 DEF StepInv, OnlyHidden
  <2>3. OnlyHidden({Staged(r)})' /\ Agree(Keys)'
    BY <1>1, <1>3, <1>4, <2>2 DEF OnlyHidden, Agree
  <2> QED
    BY <1>3, <1>4, <1>8, <2>1, <2>3 DEF StepInv
<1> QED
  BY <1>1, <1>2, <1>5, <1>7, <1>8, <1>9, <1>10, Moves DEF Pcs

\* The row is inserted when the whole file is staged.
LEMMA InsertInv ==
  ASSUME IInv, NEW r \in Requests, Insert(r)
  PROVE  IInv'
<1> USE DEF IInv
<1>1. /\ UNCHANGED <<root, hidden, cited, lock, op, todo, uploads, deletes, crashes, errors, skips>>
      /\ unseen' = unseen \ {op[r].key}
      /\ pc[r] = "insert" /\ pc' = [pc EXCEPT ![r] = "publish"]
      /\ row' = [row EXCEPT ![op[r].key] = op[r].no]
  BY DEF Insert, Goto, files, counts
<1>2. /\ op[r].kind = "upload" /\ op[r] # NoOp /\ op[r].key \in Keys /\ row[op[r].key] = 0
      /\ hidden[Staged(r)] # "none"
  BY <1>1 DEF LockInv, OpInv, UploadPcs
<1>3. /\ Staged(r) \in Entries /\ Staged(r).key = op[r].key /\ op[r].no \in Nos
      /\ Staged(r)' = Staged(r)
  BY <1>1, <1>2, HiddenEntries DEF Staged
<1>4. /\ row' \in [Keys -> 0 .. MaxUploads]
      /\ \A k \in Keys : k # op[r].key => row'[k] = row[k]
      /\ row'[op[r].key] # 0
  BY <1>1, <1>2, <1>3, ConstantsAssumption DEF TypeOK, Nos
<1>5. TypeOK'
  BY <1>1, <1>4 DEF TypeOK, Pcs
<1>6. OnlyListedServed' /\ root[op[r].key] = "none"
  BY <1>1, <1>2, <1>4 DEF OnlyListedServed
<1>7. NoFileLost'
  <2>1. Survives(op[r].key, {"partial", "whole"})'
    BY <1>1, <1>2, <1>3 DEF Survives, TypeOK, Contents
  <2>2. skips = 0 => Survives(op[r].key, {"whole"})'
    BY <1>1, <1>3 DEF Survives, StepInv
  <2> QED
    BY <1>1, <1>4, <2>1, <2>2 DEF NoFileLost, Survives
<1>8. op' = [op EXCEPT ![r] = op[r]] /\ pc'[r] = "publish"
  BY <1>1 DEF TypeOK
<1>9. OpInv(r)'
  BY <1>1, <1>2, <1>3, <1>4, <1>6, <1>8 DEF OpInv, UploadPcs, DeletePcs
<1>10. ASSUME skips = 0 PROVE RepairableInv' /\ StepInv(r)'
  <2>1. OnlyHidden({Staged(r)}) /\ Agree(Keys) /\ hidden[Staged(r)] = "whole"
    BY <1>1, <1>10 DEF StepInv
  <2>2. RepairableInv'
    BY <1>1, <2>1 DEF RepairableInv, OnlyHidden
  <2>3. OnlyHidden({Staged(r)})' /\ Agree(Keys \ {op[r].key})'
    BY <1>1, <1>3, <1>4, <2>1 DEF OnlyHidden, Agree
  <2> QED
    BY <1>1, <1>3, <1>8, <2>1, <2>2, <2>3 DEF StepInv
<1> QED
  BY <1>1, <1>2, <1>5, <1>6, <1>7, <1>8, <1>9, <1>10, Moves DEF Pcs

\* The staged file becomes the published one.
LEMMA PublishInv ==
  ASSUME IInv, NEW r \in Requests, Publish(r)
  PROVE  IInv'
<1> USE DEF IInv
<1> DEFINE k == op[r].key
           e == Staged(r)
<1>1. /\ pc[r] = "publish" /\ op[r].kind = "upload" /\ op[r] # NoOp /\ k \in Keys /\ row[k] # 0
      /\ root[k] = "none" /\ hidden[e] # "none"
  BY DEF Publish, LockInv, OpInv, UploadPcs
<1>2. /\ UNCHANGED <<row, cited, uploads, deletes, crashes, errors, skips, unseen>>
      /\ PublishStaged(e)
  BY DEF Publish, counts
<1>3. e \in Entries /\ e.key = k /\ hidden[e] \in Contents
  BY <1>1, HiddenEntries DEF TypeOK
<1>4. skips = 0 => OnlyHidden({e}) /\ hidden[e] = "whole"
  BY <1>1 DEF StepInv
<1>5. /\ hidden' = [hidden EXCEPT ![e] = "none"]
      /\ root' = [root EXCEPT ![k] = hidden[e]]
  BY <1>1, <1>2, <1>3 DEF PublishStaged, Put
<1>6. hidden'[e] = "none" /\ Leave(r)
  BY <1>3, <1>5 DEF Publish, TypeOK
<1>7. TypeOK'
  BY <1>1, <1>2, <1>3, <1>5, <1>6 DEF TypeOK, Leave, Contents, Pcs
<1>8. /\ root'[k] # "none" /\ (skips = 0 => root'[k] = "whole")
      /\ \A j \in Keys : j # k => root'[j] = root[j]
      /\ \A f \in Entries : f # e => hidden'[f] = hidden[f]
  BY <1>1, <1>3, <1>4, <1>5 DEF TypeOK, OnlyListedServed
<1>9. OnlyListedServed'
  BY <1>1, <1>2, <1>8 DEF OnlyListedServed
<1>10. NoFileLost'
  <2> SUFFICES ASSUME NEW j \in Keys, row[j] # 0
               PROVE  /\ j \notin unseen => Survives(j, {"partial", "whole"})'
                      /\ skips = 0 => Survives(j, {"whole"})'
    BY <1>2 DEF NoFileLost
  <2>1. CASE j = k
    BY <1>7, <1>8, <2>1 DEF Survives, TypeOK, Contents
  <2>2. CASE j # k
    BY <1>3, <1>8, <2>2 DEF NoFileLost, Survives
  <2> QED
    BY <2>1, <2>2
<1>11. skips' = 0 => RepairableInv'
  BY <1>2, <1>6, <1>8 DEF RepairableInv
<1> QED
  BY <1>1, <1>6, <1>7, <1>9, <1>10, <1>11, Leaves

\* The row of an upload or of a deletion is deleted.
LEMMA RowDeleted ==
  ASSUME IInv, NEW k \in Keys, root[k] = "none",
         row' = [row EXCEPT ![k] = 0],
         UNCHANGED <<root, hidden, skips, unseen>>
  PROVE  /\ row' \in [Keys -> 0 .. MaxUploads]
         /\ NoFileLost' /\ OnlyListedServed'
         /\ skips' = 0 => RepairableInv'
<1> USE DEF IInv
<1>1. /\ row' \in [Keys -> 0 .. MaxUploads]
      /\ \A j \in Keys : j # k => row'[j] = row[j]
      /\ row'[k] = 0
  BY ConstantsAssumption DEF TypeOK
<1>2. NoFileLost' /\ OnlyListedServed'
  BY <1>1 DEF NoFileLost, Survives, OnlyListedServed
<1>3. skips = 0 => RepairableInv'
  BY <1>1 DEF RepairableInv, Entries
<1> QED
  BY <1>1, <1>2, <1>3

\* A hidden file without a row is removed.
LEMMA HiddenRemoved ==
  ASSUME IInv, NEW e \in Entries, row[e.key] = 0, Put(e, "none"),
         UNCHANGED <<row, root, skips, unseen>>
  PROVE  /\ hidden' \in [Entries -> Contents]
         /\ NoFileLost' /\ OnlyListedServed'
         /\ skips' = 0 => RepairableInv'
<1> USE DEF IInv
<1>1. /\ hidden' \in [Entries -> Contents]
      /\ \A f \in Entries : f # e => hidden'[f] = hidden[f]
      /\ hidden'[e] = "none"
  BY DEF TypeOK, Put, Contents
<1>2. \A k \in Keys : row[k] # 0 => \A f \in Entries : f.key = k => hidden'[f] = hidden[f]
  BY <1>1
<1>3. NoFileLost' /\ OnlyListedServed'
  BY <1>2 DEF NoFileLost, Survives, OnlyListedServed
<1>4. skips = 0 => RepairableInv'
  BY <1>1 DEF RepairableInv
<1> QED
  BY <1>1, <1>3, <1>4

\* The publication of an upload failed: its row goes, then its staged file.
LEMMA UndoInv ==
  ASSUME IInv, NEW r \in Requests, Undo(r)
  PROVE  IInv'
<1> USE DEF IInv
<1>1. /\ UNCHANGED <<root, hidden, cited, lock, op, todo, uploads, deletes, crashes, errors, skips, unseen>>
      /\ pc[r] = "undo" /\ pc' = [pc EXCEPT ![r] = "discard"]
      /\ row' = [row EXCEPT ![op[r].key] = 0]
  BY DEF Undo, Goto, files, counts
<1>2. op[r].kind = "upload" /\ op[r] # NoOp /\ op[r].key \in Keys /\ root[op[r].key] = "none"
  BY <1>1 DEF LockInv, OpInv, UploadPcs
<1>3. /\ row' \in [Keys -> 0 .. MaxUploads] /\ NoFileLost' /\ OnlyListedServed'
      /\ skips' = 0 => RepairableInv'
  BY <1>1, <1>2, RowDeleted
<1>4. TypeOK'
  BY <1>1, <1>3 DEF TypeOK, Pcs
<1>5. op' = [op EXCEPT ![r] = op[r]] /\ pc'[r] = "discard" /\ Staged(r)' = Staged(r)
  BY <1>1 DEF TypeOK, Staged
<1>6. /\ \A k \in Keys : k # op[r].key => row'[k] = row[k]
      /\ row'[op[r].key] = 0
  BY <1>1, <1>2 DEF TypeOK
<1>7. OpInv(r)'
  BY <1>1, <1>2, <1>5, <1>6 DEF OpInv, UploadPcs, DeletePcs
<1>8. ASSUME skips = 0 PROVE StepInv(r)'
  <2>1. OnlyHidden({Staged(r)}) /\ Agree(Keys \ {op[r].key})
    BY <1>1, <1>8 DEF StepInv
  <2>2. OnlyHidden({Staged(r)})' /\ Agree(Keys)'
    BY <1>1, <1>2, <1>5, <1>6, <2>1 DEF OnlyHidden, Agree
  <2> QED
    BY <1>5, <2>2 DEF StepInv
<1> QED
  BY <1>1, <1>2, <1>3, <1>4, <1>5, <1>7, <1>8, Moves DEF Pcs

\* The last step of a failed upload, or of a deletion: a hidden file is removed.
LEMMA CleanInv ==
  ASSUME IInv, NEW r \in Requests, Discard(r) \/ Purge(r)
  PROVE  IInv'
<1> USE DEF IInv
<1>1. /\ UNCHANGED <<row, root, cited, uploads, deletes, crashes, errors, skips, unseen>>
      /\ pc[r] \in {"discard", "purge"} /\ Leave(r)
  BY DEF Discard, Purge, counts
<1>2. op[r] # NoOp /\ op[r].key \in Keys /\ row[op[r].key] = 0
  BY <1>1 DEF LockInv, OpInv, UploadPcs, DeletePcs
<1>3. PICK e \in Entries : e.key = op[r].key /\ Put(e, "none")
  BY <1>2, HiddenEntries DEF Discard, Purge
<1>4. /\ hidden' \in [Entries -> Contents] /\ NoFileLost' /\ OnlyListedServed'
      /\ skips' = 0 => RepairableInv'
  BY <1>1, <1>2, <1>3, HiddenRemoved
<1>5. TypeOK'
  BY <1>1, <1>4 DEF TypeOK, Leave, Pcs
<1> QED
  BY <1>1, <1>4, <1>5, Leaves

-----------------------------------------------------------------------------
(* Delete.                                                                 *)

\* The row of a deletion is found, or the deletion ends.
LEMMA FindItemInv ==
  ASSUME IInv, NEW r \in Requests, FindItem(r)
  PROVE  IInv'
<1> USE DEF IInv
<1>1. pc[r] = "find" /\ op[r].kind = "delete" /\ op[r] # NoOp
  BY DEF FindItem, LockInv
<1>2. UNCHANGED <<row, root, hidden, cited, uploads, deletes, crashes, errors, skips, unseen>>
  BY DEF FindItem, files, counts
<1>3. CASE Leave(r)
  BY <1>1, <1>2, <1>3, LeavesOnly DEF TypeOK
<1>4. CASE \E k \in Keys :
             /\ row[k] = op[r].no
             /\ op' = [op EXCEPT ![r].key = k]
             /\ Goto(r, "find", "check") /\ UNCHANGED <<lock, todo>>
  <2>1. PICK k \in Keys :
             /\ row[k] = op[r].no
             /\ op' = [op EXCEPT ![r].key = k]
             /\ pc' = [pc EXCEPT ![r] = "check"] /\ UNCHANGED <<lock, todo>>
    BY <1>4 DEF Goto
  <2> DEFINE v == [op[r] EXCEPT !.key = k]
  <2>2. /\ op[r] \in Operations /\ v \in Operations /\ v.key = k /\ v.kind = "delete"
        /\ v.no = op[r].no
    BY <1>1 DEF TypeOK, Operations
  <2>3. v # NoOp /\ op' = [op EXCEPT ![r] = v] /\ pc'[r] = "check" /\ op'[r] = v
    BY <2>1, <2>2 DEF NoOp, Operation, TypeOK
  <2>4. TypeOK'
    BY <1>2, <2>1, <2>2, <2>3 DEF TypeOK, Pcs
  <2>5. row[k] # 0
    BY <2>1, <2>2, ConstantsAssumption DEF Operations, Nos
  <2>6. OpInv(r)'
    BY <1>2, <2>2, <2>3, <2>5 DEF OpInv, UploadPcs, DeletePcs
  <2>7. skips' = 0 => StepInv(r)'
    BY <1>1, <1>2, <2>3 DEF StepInv, OnlyHidden, Agree
  <2> HIDE DEF v
  <2> QED
    BY <1>1, <1>2, <2>1, <2>3, <2>4, <2>6, <2>7, SameFiles, Moves DEF Pcs
<1> QED
  BY <1>3, <1>4 DEF FindItem

\* A file that is referred to stays.
LEMMA CheckReferencesInv ==
  ASSUME IInv, NEW r \in Requests, CheckReferences(r)
  PROVE  IInv'
<1> USE DEF IInv
<1>1. /\ pc[r] = "check" /\ op[r].kind = "delete" /\ op[r] # NoOp /\ op[r].key \in Keys
      /\ row[op[r].key] # 0
  BY DEF CheckReferences, LockInv, OpInv, DeletePcs
<1>2. UNCHANGED <<row, root, hidden, cited, uploads, deletes, crashes, errors, skips, unseen>>
  BY DEF CheckReferences, files, counts
<1>3. CASE Leave(r)
  BY <1>1, <1>2, <1>3, LeavesOnly DEF TypeOK
<1>4. CASE pc' = [pc EXCEPT ![r] = "quarantine"] /\ UNCHANGED <<op, lock, todo>>
  <2>1. TypeOK'
    BY <1>2, <1>4 DEF TypeOK, Pcs
  <2>2. pc'[r] = "quarantine" /\ op' = [op EXCEPT ![r] = op[r]]
    BY <1>4 DEF TypeOK
  <2>3. OpInv(r)'
    BY <1>1, <1>2, <1>4, <2>2 DEF OpInv, UploadPcs, DeletePcs
  <2>4. skips' = 0 => StepInv(r)'
    BY <1>1, <1>2, <1>4, <2>2 DEF StepInv, OnlyHidden, Agree
  <2> QED
    BY <1>1, <1>4, <1>2, <2>1, <2>2, <2>3, <2>4, SameFiles, Moves DEF Pcs
<1> QED
  BY <1>3, <1>4 DEF CheckReferences, Goto

\* The published file, if there is one, becomes the quarantined one.
LEMMA QuarantineInv ==
  ASSUME IInv, NEW r \in Requests, Quarantine(r)
  PROVE  IInv'
<1> USE DEF IInv
<1> DEFINE k == op[r].key
           e == Quarantined(r)
           there == root[k] # "none"
           v == [op[r] EXCEPT !.moved = there]
<1>1. /\ pc[r] = "quarantine" /\ op[r].kind = "delete" /\ op[r] # NoOp /\ k \in Keys /\ row[k] # 0
  BY DEF Quarantine, Goto, LockInv, OpInv, DeletePcs
<1>2. /\ UNCHANGED <<row, cited, lock, todo, uploads, deletes, crashes, errors, skips, unseen>>
      /\ pc' = [pc EXCEPT ![r] = "drop"]
      /\ op' = [op EXCEPT ![r].moved = there]
      /\ hidden' = IF there THEN [hidden EXCEPT ![e] = root[k]] ELSE hidden
      /\ root' = [root EXCEPT ![k] = "none"]
  BY DEF Quarantine, Goto, counts
<1>3. /\ op[r] \in Operations /\ v \in Operations /\ v.key = k /\ v.kind = "delete"
      /\ v.no = op[r].no /\ v.moved = there
  BY <1>1 DEF TypeOK, Operations
<1>4. v # NoOp /\ op' = [op EXCEPT ![r] = v] /\ pc'[r] = "drop" /\ op'[r] = v
  BY <1>2, <1>3 DEF NoOp, Operation, TypeOK
<1>5. e \in Entries /\ e.key = k /\ Quarantined(r)' = e
  BY <1>1, <1>3, <1>4, HiddenEntries DEF Quarantined
<1> HIDE DEF v, e
<1>6. /\ root' \in [Keys -> Contents] /\ hidden' \in [Entries -> Contents]
      /\ root'[k] = "none"
      /\ \A j \in Keys : j # k => root'[j] = root[j]
      /\ \A f \in Entries : f # e => hidden'[f] = hidden[f]
      /\ there => hidden'[e] = root[k]
  BY <1>1, <1>2, <1>5 DEF TypeOK, Contents
<1>7. TypeOK'
  BY <1>2, <1>3, <1>4, <1>6 DEF TypeOK, Pcs
<1>8. OnlyListedServed'
  BY <1>2, <1>6 DEF OnlyListedServed
<1>9. NoFileLost'
  <2> SUFFICES ASSUME NEW j \in Keys, row[j] # 0
               PROVE  /\ j \notin unseen => Survives(j, {"partial", "whole"})'
                      /\ skips = 0 => Survives(j, {"whole"})'
    BY <1>2 DEF NoFileLost
  <2>1. CASE j # k
    BY <1>5, <1>6, <2>1 DEF NoFileLost, Survives
  <2>2. CASE j = k /\ there
    <3>1. hidden'[e] \in {"partial", "whole"} /\ (skips = 0 => hidden'[e] = "whole")
      BY <1>1, <1>6, <2>2 DEF TypeOK, Contents, OnlyListedServed
    <3> QED
      BY <1>5, <2>2, <3>1 DEF Survives
  <2>3. CASE j = k /\ ~there
    BY <1>2, <1>6, <2>3 DEF NoFileLost, Survives
  <2> QED
    BY <2>1, <2>2, <2>3
<1>10. OpInv(r)'
  BY <1>1, <1>2, <1>3, <1>4, <1>5, <1>6 DEF OpInv, UploadPcs, DeletePcs
<1>11. ASSUME skips = 0 PROVE RepairableInv' /\ StepInv(r)'
  <2>1. OnlyHidden({}) /\ Agree(Keys)
    BY <1>1, <1>11 DEF StepInv
  <2>2. there /\ hidden'[e] = "whole"
    BY <1>1, <1>6, <2>1 DEF Agree
  <2>3. \A f \in Entries : f # e => hidden'[f] = "none"
    BY <1>6, <2>1 DEF OnlyHidden
  <2>4. \A j \in Keys \ {k} : row'[j] # 0 <=> root'[j] = "whole"
    BY <1>2, <1>6, <2>1 DEF Agree
  <2>5. RepairableInv'
    BY <1>2, <1>6, <2>1, <2>2 DEF RepairableInv, OnlyHidden
  <2> QED
    BY <1>3, <1>4, <1>5, <2>2, <2>3, <2>4, <2>5 DEF StepInv, OnlyHidden, Agree
<1> QED
  BY <1>1, <1>2, <1>4, <1>7, <1>8, <1>9, <1>10, <1>11, Moves DEF Pcs

\* The row goes; the quarantined file, if there is one, is removed next.
LEMMA DropRowInv ==
  ASSUME IInv, NEW r \in Requests, DropRow(r)
  PROVE  IInv'
<1> USE DEF IInv
<1>1. /\ pc[r] = "drop" /\ op[r].kind = "delete" /\ op[r] # NoOp /\ op[r].key \in Keys
      /\ root[op[r].key] = "none"
  BY DEF DropRow, LockInv, OpInv, DeletePcs
<1>2. /\ UNCHANGED <<root, hidden, cited, uploads, deletes, crashes, errors, skips, unseen>>
      /\ row' = [row EXCEPT ![op[r].key] = 0]
  BY DEF DropRow, files, counts
<1>3. /\ row' \in [Keys -> 0 .. MaxUploads] /\ NoFileLost' /\ OnlyListedServed'
      /\ skips' = 0 => RepairableInv'
  BY <1>1, <1>2, RowDeleted
<1>4. CASE Leave(r)
  <2>1. TypeOK'
    BY <1>2, <1>3, <1>4 DEF TypeOK, Leave, Pcs
  <2> QED
    BY <1>1, <1>3, <1>4, <2>1, Leaves
<1>5. CASE pc' = [pc EXCEPT ![r] = "purge"] /\ UNCHANGED <<op, lock, todo>>
  <2>1. TypeOK'
    BY <1>2, <1>3, <1>5 DEF TypeOK, Pcs
  <2>2. /\ op' = [op EXCEPT ![r] = op[r]] /\ pc'[r] = "purge"
        /\ Quarantined(r)' = Quarantined(r)
    BY <1>5 DEF TypeOK, Quarantined
  <2>3. /\ \A j \in Keys : j # op[r].key => row'[j] = row[j]
        /\ row'[op[r].key] = 0
    BY <1>1, <1>2 DEF TypeOK
  <2>4. OpInv(r)'
    BY <1>1, <1>5, <2>2, <2>3 DEF OpInv, UploadPcs, DeletePcs
  <2>5. ASSUME skips = 0 PROVE StepInv(r)'
    <3>1. OnlyHidden({Quarantined(r)}) /\ Agree(Keys \ {op[r].key})
      BY <1>1, <2>5 DEF StepInv
    <3>2. OnlyHidden({Quarantined(r)})' /\ Agree(Keys)'
      BY <1>1, <1>2, <2>2, <2>3, <3>1 DEF OnlyHidden, Agree
    <3> QED
      BY <2>2, <3>2 DEF StepInv
  <2> QED
    BY <1>1, <1>2, <1>3, <1>5, <2>1, <2>2, <2>4, <2>5, Moves DEF Pcs
<1> QED
  BY <1>4, <1>5 DEF DropRow, Goto

\* The row stayed: the quarantined file is published again.
LEMMA PutBackInv ==
  ASSUME IInv, NEW r \in Requests, PutBack(r)
  PROVE  IInv'
<1> USE DEF IInv
<1> DEFINE k == op[r].key
           e == Quarantined(r)
<1>1. /\ pc[r] = "putback" /\ op[r] # NoOp /\ k \in Keys /\ row[k] # 0
      /\ hidden[e] # "none"
  BY DEF PutBack, LockInv, OpInv, DeletePcs
<1>2. /\ UNCHANGED <<row, cited, uploads, deletes, crashes, errors, skips, unseen>>
      /\ root' = [root EXCEPT ![k] = hidden[e]]
      /\ hidden' = [hidden EXCEPT ![e] = "none"] /\ Leave(r)
  BY DEF PutBack, Put, counts
<1>3. e \in Entries /\ e.key = k /\ hidden[e] \in Contents
  BY <1>1, HiddenEntries DEF TypeOK
<1>4. skips = 0 => hidden[e] = "whole"
  BY <1>1 DEF StepInv
<1> HIDE DEF e
<1>5. TypeOK'
  BY <1>1, <1>2, <1>3 DEF TypeOK, Leave, Contents, Pcs
<1>6. /\ root'[k] # "none" /\ (skips = 0 => root'[k] = "whole")
      /\ \A j \in Keys : j # k => root'[j] = root[j]
      /\ \A f \in Entries : f # e => hidden'[f] = hidden[f]
      /\ hidden'[e] = "none"
  BY <1>1, <1>2, <1>3, <1>4 DEF TypeOK
<1>7. OnlyListedServed'
  BY <1>1, <1>2, <1>6 DEF OnlyListedServed
<1>8. NoFileLost'
  <2> SUFFICES ASSUME NEW j \in Keys, row[j] # 0
               PROVE  /\ j \notin unseen => Survives(j, {"partial", "whole"})'
                      /\ skips = 0 => Survives(j, {"whole"})'
    BY <1>2 DEF NoFileLost
  <2>1. CASE j = k
    BY <1>5, <1>6, <2>1 DEF Survives, TypeOK, Contents
  <2>2. CASE j # k
    BY <1>3, <1>6, <2>2 DEF NoFileLost, Survives
  <2> QED
    BY <2>1, <2>2
<1>9. skips' = 0 => RepairableInv'
  BY <1>2, <1>6 DEF RepairableInv
<1> QED
  BY <1>1, <1>2, <1>5, <1>7, <1>8, <1>9, Leaves

-----------------------------------------------------------------------------
(* Errors, crashes, and the users of the files.                            *)

\* A call of the operation returns an error.
LEMMA CallFailsInv ==
  ASSUME IInv, NEW r \in Requests, CallFails(r)
  PROVE  IInv'
<1> USE DEF IInv
<1> DEFINE to == OnError[pc[r]]
<1>1. /\ pc[r] \in DOMAIN OnError
      /\ UNCHANGED <<row, root, hidden, cited, uploads, deletes, crashes, skips, unseen>>
      /\ errors' \in 0 .. MaxErrors
      /\ \/ Leave(r)
         \/ /\ to # "idle" /\ (to = "putback" => op[r].moved)
            /\ pc' = [pc EXCEPT ![r] = to] /\ UNCHANGED <<op, lock, todo>>
  BY ConstantsAssumption DEF CallFails, files, TypeOK
<1>2. pc[r] # "idle"
  BY <1>1 DEF OnError
<1>3. CASE Leave(r)
  BY <1>1, <1>2, <1>3, LeavesOnly DEF TypeOK
<1>4. CASE /\ to # "idle" /\ (to = "putback" => op[r].moved)
           /\ pc' = [pc EXCEPT ![r] = to] /\ UNCHANGED <<op, lock, todo>>
  <2>1. \/ pc[r] \in {"write", "insert"} /\ to = "discard"
        \/ pc[r] = "publish" /\ to = "undo"
        \/ pc[r] = "drop" /\ to = "putback" /\ op[r].moved
    BY <1>1, <1>4 DEF OnError
  <2>2. to \in Pcs \ {"idle"}
    BY <2>1 DEF Pcs
  <2> HIDE DEF to
  <2>3. /\ pc'[r] = to /\ op' = [op EXCEPT ![r] = op[r]] /\ op[r] # NoOp
        /\ Staged(r)' = Staged(r) /\ Quarantined(r)' = Quarantined(r)
    BY <1>2, <1>4 DEF TypeOK, LockInv, Staged, Quarantined
  <2>4. TypeOK'
    BY <1>1, <1>4, <2>2 DEF TypeOK
  <2>5. OpInv(r)'
    BY <1>1, <1>4, <2>1, <2>3 DEF OpInv, UploadPcs, DeletePcs
  <2>6. skips' = 0 => StepInv(r)'
    BY <1>1, <1>4, <2>1, <2>3 DEF StepInv, OnlyHidden, Agree
  <2> QED
    BY <1>1, <1>2, <1>4, <2>2, <2>3, <2>4, <2>5, <2>6, SameFiles, Moves
<1> QED
  BY <1>1, <1>3, <1>4

\* The repair leaves an entry, or all of them, alone.
LEMMA RepairFailsInv ==
  ASSUME IInv, NEW r \in Requests, RepairFails(r)
  PROVE  IInv'
<1> USE DEF IInv
<1>1. /\ UNCHANGED <<row, root, hidden, cited, lock, op, uploads, deletes, crashes, errors, unseen>>
      /\ skips' \in 0 .. MaxSkips /\ skips' # 0 /\ todo' \subseteq todo
      /\ pc[r] # "idle" /\ pc' = [pc EXCEPT ![r] = "recover"]
      /\ \/ pc[r] = "scan" /\ UNCHANGED todo
         \/ pc[r] = "recover"
  BY ConstantsAssumption DEF RepairFails, Goto, files, TypeOK
<1>2. TypeOK'
  BY <1>1 DEF TypeOK, Pcs
<1>3. NoFileLost' /\ OnlyListedServed'
  BY <1>1 DEF NoFileLost, Survives, OnlyListedServed
<1>4. op' = [op EXCEPT ![r] = op[r]] /\ op[r] # NoOp /\ pc'[r] = "recover"
  BY <1>1 DEF TypeOK, LockInv
<1>5. OpInv(r)'
  BY <1>1, <1>4 DEF OpInv, UploadPcs, DeletePcs
<1> QED
  BY <1>1, <1>2, <1>3, <1>4, <1>5, Moves DEF Pcs

\* The repair removes a file because it could not look at the published one: either
\* the hidden one of a key it remembers, or the published one of a staged entry.
LEMMA RepairMisreadsInv ==
  ASSUME IInv, NEW r \in Requests, RepairMisreads(r)
  PROVE  IInv'
<1> USE DEF IInv
<1>1. PICK e \in todo :
        /\ row[e.key] # 0
        /\ \/ /\ Put(e, "none") /\ UNCHANGED root
              /\ todo' = todo \ {e} /\ unseen' = unseen \cup {e.key}
           \/ /\ root' = [root EXCEPT ![e.key] = "none"]
              /\ UNCHANGED <<hidden, todo, unseen>>
  BY DEF RepairMisreads
<1>2. /\ pc[r] = "recover" /\ skips' \in 0 .. MaxSkips /\ skips' # 0
      /\ UNCHANGED <<row, cited, lock, pc, op, uploads, deletes, crashes, errors>>
  BY ConstantsAssumption DEF RepairMisreads, TypeOK
<1>3. e \in Entries /\ e.key \in Keys /\ hidden[e] \in {"partial", "whole"}
  BY <1>2 DEF TypeOK, OpInv, Entries, Contents
<1>4. /\ root' \in [Keys -> Contents] /\ hidden' \in [Entries -> Contents]
      /\ todo' \subseteq todo /\ unseen' \in SUBSET Keys /\ unseen \subseteq unseen'
      /\ \A f \in todo' : hidden'[f] = hidden[f]
      /\ \A f \in Entries : f # e => hidden'[f] = hidden[f]
      /\ \A k \in Keys : k # e.key => root'[k] = root[k]
      /\ hidden'[e] = hidden[e] \/ e.key \in unseen'
      /\ root'[e.key] # "none" => root[e.key] # "none"
  BY <1>1, <1>3 DEF Put, TypeOK, Contents
<1>5. TypeOK'
  BY <1>2, <1>4 DEF TypeOK
<1>6. OnlyListedServed'
  BY <1>1, <1>2, <1>4 DEF OnlyListedServed
<1>7. NoFileLost'
  <2> SUFFICES ASSUME NEW k \in Keys, row[k] # 0, k \notin unseen'
               PROVE  Survives(k, {"partial", "whole"})'
    BY <1>2 DEF NoFileLost
  <2>1. CASE k = e.key
    BY <1>3, <1>4, <2>1 DEF Survives
  <2>2. CASE k # e.key
    BY <1>3, <1>4, <2>2 DEF NoFileLost, Survives
  <2> QED
    BY <2>1, <2>2
<1>8. OpInv(r)'
  BY <1>2, <1>4 DEF OpInv, UploadPcs, DeletePcs
<1>9. op' = [op EXCEPT ![r] = op[r]] /\ op[r] # NoOp /\ pc' = [pc EXCEPT ![r] = "recover"]
  BY <1>2 DEF TypeOK, LockInv
<1> QED
  BY <1>2, <1>5, <1>6, <1>7, <1>8, <1>9, Moves DEF Pcs

\* A process dies, and nothing of its operation is left but the files.
LEMMA CrashInv ==
  ASSUME IInv, NEW r \in Requests, Crash(r)
  PROVE  IInv'
<1>1. /\ pc[r] # "idle" /\ Leave(r) /\ crashes' \in 0 .. MaxCrashes
      /\ UNCHANGED <<row, root, hidden, cited, uploads, deletes, errors, skips, unseen>>
  BY ConstantsAssumption DEF Crash, files, IInv, TypeOK
<1> QED
  BY <1>1, LeavesOnly DEF IInv, TypeOK

\* References come and go.
LEMMA CiteInv ==
  ASSUME IInv, NEW k \in Keys, Cite(k) \/ Uncite(k)
  PROVE  IInv'
<1>1. /\ cited' \in SUBSET Keys
      /\ UNCHANGED <<row, root, hidden, lock, pc, op, todo, uploads, deletes, crashes, errors, skips, unseen>>
  BY DEF Cite, Uncite, files, counts, IInv, TypeOK
<1>2. TypeOK'
  BY <1>1 DEF IInv, TypeOK
<1>3. \A r \in Requests : OpInv(r)' /\ (StepInv(r) => StepInv(r)')
  BY <1>1 DEF IInv, OpInv, StepInv, OnlyHidden, Agree, Staged, Quarantined
<1> QED
  BY <1>1, <1>2, <1>3, SameFiles DEF IInv, LockInv

-----------------------------------------------------------------------------
\* Every step keeps the invariant.
LEMMA StepKeepsInv == IInv /\ [Next]_vars => IInv'
<1> SUFFICES ASSUME IInv, [Next]_vars PROVE IInv'
  OBVIOUS
<1>1. ASSUME NEW r \in Requests, StartUpload(r) \/ StartDelete(r) PROVE IInv'
  BY <1>1, StartInv
<1>2. ASSUME NEW r \in Requests, Repair(r) PROVE IInv'
  BY <1>2, ScanInv, RecoverEntryInv, RecoveredInv DEF Repair
<1>3. ASSUME NEW r \in Requests, Upload(r) PROVE IInv'
  BY <1>3, FindSameInv, StagingInv, InsertInv, PublishInv, UndoInv, CleanInv DEF Upload
<1>4. ASSUME NEW r \in Requests, Delete(r) PROVE IInv'
  BY <1>4, FindItemInv, CheckReferencesInv, QuarantineInv, DropRowInv, CleanInv, PutBackInv
  DEF Delete
<1>5. ASSUME NEW r \in Requests, CallFails(r) \/ RepairFails(r) \/ RepairMisreads(r) \/ Crash(r)
      PROVE  IInv'
  BY <1>5, CallFailsInv, RepairFailsInv, RepairMisreadsInv, CrashInv
<1>6. ASSUME NEW k \in Keys, Cite(k) \/ Uncite(k) PROVE IInv'
  BY <1>6, CiteInv
<1>7. CASE UNCHANGED vars
  <2>1. UNCHANGED <<row, root, hidden, cited, lock, pc, op, todo, uploads, deletes, crashes, errors, skips, unseen>>
    BY <1>7 DEF vars
  <2>2. TypeOK'
    BY <2>1 DEF IInv, TypeOK
  <2>3. \A r \in Requests : OpInv(r)' /\ (StepInv(r) => StepInv(r)')
    BY <2>1 DEF IInv, OpInv, StepInv, OnlyHidden, Agree, Staged, Quarantined
  <2> QED
    BY <2>1, <2>2, <2>3, SameFiles DEF IInv, LockInv
<1> QED
  BY <1>1, <1>2, <1>3, <1>4, <1>5, <1>6, <1>7 DEF Next

\* The inductive invariant: what rows, files and each operation in progress say
\* of one another, with crashes, failed calls and failed repairs at every step.  It
\* names the one way a file is lost, a repair that removes what it could not look at.
THEOREM Invariant == Spec => []IInv
BY InitInv, StepKeepsInv, PTL DEF Spec

\* Every variable keeps its type.
THEOREM TypeCorrect == Spec => []TypeOK
<1>1. IInv => TypeOK
  BY DEF IInv
<1> QED
  BY <1>1, Invariant, PTL

\* No asset the library lists is without a file, except for one whose published file
\* a repair could not look at since the asset was stored; before a repair has failed
\* none is without its whole file.  Crashes and failing calls change nothing of it.
THEOREM FilesSurvive == Spec => []NoFileLost
<1>1. IInv => NoFileLost
  BY DEF IInv
<1> QED
  BY <1>1, Invariant, PTL

\* A file is published only while its row exists: an upload that failed and a
\* deletion that was cut short leave nothing behind that could be downloaded.
THEOREM NothingUnlistedServed == Spec => []OnlyListedServed
<1>1. IInv => OnlyListedServed
  BY DEF IInv
<1> QED
  BY <1>1, Invariant, PTL

\* Upload and Delete decide on rows and files that agree: the repair at the start
\* of each undoes or completes whatever an earlier process left half done.
THEOREM DecisionsOnRepaired == Spec => []RepairedBeforeUse
<1>1. IInv => RepairedBeforeUse
  BY DEF IInv, RepairedBeforeUse, StepInv, OnlyHidden, Agree
<1> QED
  BY <1>1, Invariant, PTL
=============================================================================
