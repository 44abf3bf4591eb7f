---------------------------- MODULE MediaLibrary ----------------------------
(***************************************************************************)
(* Uploads and deletions of media files.  A media asset is a row in MySQL  *)
(* and a file in the media root, named after the hash of its content.  An  *)
(* upload writes a hidden staged file, inserts the row and renames the     *)
(* file; a deletion renames the file to a hidden quarantined one, deletes  *)
(* the row and removes the file.  A file lock shared by all processes      *)
(* serialises the operations, and each begins by repairing from the rows   *)
(* whatever a crashed one left behind.                                     *)
(*                                                                         *)
(*   internal/logic/media/media.go   Upload, Delete, recoverMediaStaging   *)
(*   internal/logic/media/lock.go    lockMediaOperations                   *)
(*   model/media.go                  the SQL statements                    *)
(*                                                                         *)
(* The operating system releases the lock when a process dies.  Content is *)
(* told apart only as whole or partial: whole means that the hash of the   *)
(* file is the one in its name.                                            *)
(***************************************************************************)
EXTENDS Naturals

CONSTANTS
  Keys,        \* storage keys: hash and extension
  Requests,    \* concurrent uploads and deletions, in whatever process
  MaxUploads,  \* bound on uploads; the number of one also serves as its row's id
  MaxDeletes,  \* bound on deletions
  MaxCrashes,  \* bound on process deaths
  MaxErrors,   \* bound on calls that return an error, without effect
  MaxSkips,    \* bound on steps of a repair that fail
  NoKey, Free

ASSUME ConstantsAssumption ==
  /\ MaxUploads \in Nat /\ MaxDeletes \in Nat
  /\ MaxCrashes \in Nat /\ MaxErrors \in Nat /\ MaxSkips \in Nat
  /\ NoKey \notin Keys /\ Free \notin Requests

Nos == 1 .. MaxUploads
Contents == {"none", "partial", "whole"}

\* The hidden files: .upload-<key>-<random> and .delete-<id>-<key>.
Entries == [use : {"upload", "delete"}, key : Keys, no : Nos]

VARIABLES
  row,      \* media_assets: the id of each key's row, or 0
  root,     \* the published file of each key
  hidden,   \* the hidden files
  cited,    \* the keys that articles, projects or users refer to
  lock,     \* the request that holds .operations.lock
  pc, op,   \* per request: its step; its kind, key, number, and whether a file was moved
  todo,     \* the entries the repair of the lock's holder has read and not yet handled
  uploads, deletes, crashes, errors, skips,
  unseen    \* history: the keys whose published file a repair could not look at

files  == <<root, hidden>>
counts == <<uploads, deletes, crashes, errors, skips, unseen>>
vars   == <<row, root, hidden, cited, lock, pc, op, todo,
            uploads, deletes, crashes, errors, skips, unseen>>

Pcs == {"idle", "scan", "recover", "find"}
       \cup {"stage", "write", "insert", "publish", "undo", "discard"}
       \cup {"check", "quarantine", "drop", "putback", "purge"}

Operation(kind, key, no) == [kind |-> kind, key |-> key, no |-> no, moved |-> FALSE]
Operations ==
  [kind : {"upload", "delete"}, key : Keys \cup {NoKey}, no : Nos, moved : BOOLEAN]
NoOp == Operation("none", NoKey, 0)

TypeOK ==
  /\ row \in [Keys -> 0 .. MaxUploads]
  /\ root \in [Keys -> Contents]
  /\ hidden \in [Entries -> Contents]
  /\ cited \in SUBSET Keys
  /\ lock \in Requests \cup {Free}
  /\ pc \in [Requests -> Pcs]
  /\ op \in [Requests -> Operations \cup {NoOp}]
  /\ todo \in SUBSET Entries
  /\ uploads \in 0 .. MaxUploads /\ deletes \in 0 .. MaxDeletes
  /\ crashes \in 0 .. MaxCrashes /\ errors \in 0 .. MaxErrors /\ skips \in 0 .. MaxSkips
  /\ unseen \in SUBSET Keys

Init ==
  /\ row = [k \in Keys |-> 0]
  /\ root = [k \in Keys |-> "none"]
  /\ hidden = [e \in Entries |-> "none"]
  /\ cited = {}
  /\ lock = Free
  /\ pc = [r \in Requests |-> "idle"] /\ op = [r \in Requests |-> NoOp]
  /\ todo = {}
  /\ uploads = 0 /\ deletes = 0 /\ crashes = 0 /\ errors = 0 /\ skips = 0 /\ unseen = {}

Goto(r, from, to) == pc[r] = from /\ pc' = [pc EXCEPT ![r] = to]

\* The request is answered, or its process dies: the lock is released.
Leave(r) ==
  /\ pc' = [pc EXCEPT ![r] = "idle"]
  /\ op' = [op EXCEPT ![r] = NoOp]
  /\ lock' = Free /\ todo' = {}

Staged(r)      == [use |-> "upload", key |-> op[r].key, no |-> op[r].no]
Quarantined(r) == [use |-> "delete", key |-> op[r].key, no |-> op[r].no]

Put(e, c) == hidden' = [hidden EXCEPT ![e] = c]

-----------------------------------------------------------------------------
(* Taking the lock, and recoverMediaStaging under it.                      *)

StartUpload(r) ==
  /\ uploads < MaxUploads /\ uploads' = uploads + 1
  /\ lock = Free /\ lock' = r
  /\ Goto(r, "idle", "scan")
  /\ \E k \in Keys : op' = [op EXCEPT ![r] = Operation("upload", k, uploads + 1)]
  /\ UNCHANGED <<row, files, cited, todo, deletes, crashes, errors, skips, unseen>>

\* Broken variant: the id of a row that does not exist is taken for one.
StartDeleteZero(r) ==
  /\ deletes < MaxDeletes /\ deletes' = deletes + 1
  /\ lock = Free /\ lock' = r
  /\ Goto(r, "idle", "scan")
  /\ \E id \in 0 .. uploads : op' = [op EXCEPT ![r] = Operation("delete", NoKey, id)]
  /\ UNCHANGED <<row, files, cited, todo, uploads, crashes, errors, skips, unseen>>

StartDelete(r) ==
  /\ deletes < MaxDeletes /\ deletes' = deletes + 1
  /\ lock = Free /\ lock' = r
  /\ Goto(r, "idle", "scan")
  /\ \E id \in 1 .. uploads : op' = [op EXCEPT ![r] = Operation("delete", NoKey, id)]
  /\ UNCHANGED <<row, files, cited, todo, uploads, crashes, errors, skips, unseen>>

\* ReadDir.
Scan(r) ==
  /\ Goto(r, "scan", "recover")
  /\ todo' = {e \in Entries : hidden[e] # "none"}
  /\ UNCHANGED <<row, files, cited, lock, op, counts>>

\* publishStagedUpload: a file with the right hash stays, another is removed first.
PublishStaged(e) ==
  \/ root[e.key] = "whole" /\ Put(e, "none") /\ UNCHANGED root
  \/ root[e.key] = "partial" /\ root' = [root EXCEPT ![e.key] = "none"] /\ UNCHANGED hidden
  \/ root[e.key] = "none" /\ root' = [root EXCEPT ![e.key] = hidden[e]] /\ Put(e, "none")

\* Broken variant: quarantined files are thrown away.
DropQuarantined(e) == UNCHANGED root /\ Put(e, "none")

\* A quarantined file whose row is still there goes back, unless there is one.
RestoreQuarantined(e) ==
  /\ root' = IF root[e.key] = "none" THEN [root EXCEPT ![e.key] = hidden[e]] ELSE root
  /\ Put(e, "none")

\* Names sort quarantined files before staged ones.
IsNext(e) == e.use = "delete" \/ \A o \in todo : o.use = "upload"

\* One hidden file.
RecoverEntry(r) ==
  /\ pc[r] = "recover"
  /\ \E e \in todo :
       /\ IsNext(e)
       /\ \/ row[e.key] = 0 /\ Put(e, "none") /\ UNCHANGED root
          \/ row[e.key] # 0 /\ e.use = "upload" /\ PublishStaged(e)
          \/ row[e.key] # 0 /\ e.use = "delete" /\ RestoreQuarantined(e)
       /\ todo' = IF hidden'[e] = "none" THEN todo \ {e} ELSE todo
  /\ UNCHANGED <<row, cited, lock, pc, op, counts>>

Recovered(r) ==
  /\ todo = {} /\ Goto(r, "recover", "find")
  /\ UNCHANGED <<row, files, cited, lock, op, todo, counts>>

-----------------------------------------------------------------------------
(* Upload.                                                                 *)

\* FindMediaAssetBySHA256: an image that is there already is not stored again.
FindSame(r) ==
  /\ pc[r] = "find" /\ op[r].kind = "upload"
  /\ \/ row[op[r].key] # 0 /\ Leave(r)
     \/ row[op[r].key] = 0 /\ Goto(r, "find", "stage") /\ UNCHANGED <<op, lock, todo>>
  /\ UNCHANGED <<row, files, cited, counts>>

\* Broken variant: the row is inserted before the file is written.
InsertFirst(r) ==
  /\ Goto(r, "stage", "write")
  /\ row' = [row EXCEPT ![op[r].key] = op[r].no] /\ Put(Staged(r), "partial")
  /\ UNCHANGED <<root, cited, lock, op, todo, counts>>

\* stageUpload creates the file and then fills it.
Stage(r) ==
  /\ Goto(r, "stage", "write") /\ Put(Staged(r), "partial")
  /\ UNCHANGED <<row, root, cited, lock, op, todo, counts>>

Write(r) ==
  /\ Goto(r, "write", "insert") /\ Put(Staged(r), "whole")
  /\ UNCHANGED <<row, root, cited, lock, op, todo, counts>>

Insert(r) ==
  /\ Goto(r, "insert", "publish")
  /\ row' = [row EXCEPT ![op[r].key] = op[r].no]
  /\ unseen' = unseen \ {op[r].key}
  /\ UNCHANGED <<files, cited, lock, op, todo, uploads, deletes, crashes, errors, skips>>

Publish(r) ==
  /\ pc[r] = "publish" /\ PublishStaged(Staged(r))
  /\ IF hidden'[Staged(r)] = "none" THEN Leave(r) ELSE UNCHANGED <<pc, op, lock, todo>>
  /\ UNCHANGED <<row, cited, counts>>

\* Publication failed: DeleteMediaAsset takes the row back.
Undo(r) ==
  /\ Goto(r, "undo", "discard")
  /\ row' = [row EXCEPT ![op[r].key] = 0]
  /\ UNCHANGED <<files, cited, lock, op, todo, counts>>

\* The deferred removal of the staged file.
Discard(r) ==
  /\ pc[r] = "discard" /\ Put(Staged(r), "none") /\ Leave(r)
  /\ UNCHANGED <<row, root, cited, counts>>

-----------------------------------------------------------------------------
(* Delete.                                                                 *)

FindItem(r) ==
  /\ pc[r] = "find" /\ op[r].kind = "delete"
  /\ \/ \E k \in Keys :
          /\ row[k] = op[r].no
          /\ op' = [op EXCEPT ![r].key = k]
          /\ Goto(r, "find", "check") /\ UNCHANGED <<lock, todo>>
     \/ (\A k \in Keys : row[k] # op[r].no) /\ Leave(r)
  /\ UNCHANGED <<row, files, cited, counts>>

\* MediaURLReferenced.
CheckReferences(r) ==
  /\ pc[r] = "check"
  /\ \/ op[r].key \in cited /\ Leave(r)
     \/ op[r].key \notin cited /\ Goto(r, "check", "quarantine") /\ UNCHANGED <<op, lock, todo>>
  /\ UNCHANGED <<row, files, cited, counts>>

\* Broken variant: the file stays where it is.
QuarantineNothing(r) ==
  /\ Goto(r, "quarantine", "drop")
  /\ UNCHANGED <<row, files, cited, lock, op, todo, counts>>

Quarantine(r) ==
  /\ Goto(r, "quarantine", "drop")
  /\ LET k == op[r].key
         there == root[k] # "none" IN
       /\ op' = [op EXCEPT ![r].moved = there]
       /\ hidden' = IF there THEN [hidden EXCEPT ![Quarantined(r)] = root[k]] ELSE hidden
       /\ root' = [root EXCEPT ![k] = "none"]
  /\ UNCHANGED <<row, cited, lock, todo, counts>>

DropRow(r) ==
  /\ pc[r] = "drop"
  /\ row' = [row EXCEPT ![op[r].key] = 0]
  /\ IF op[r].moved THEN Goto(r, "drop", "purge") /\ UNCHANGED <<op, lock, todo>> ELSE Leave(r)
  /\ UNCHANGED <<files, cited, counts>>

Purge(r) ==
  /\ pc[r] = "purge" /\ Put(Quarantined(r), "none") /\ Leave(r)
  /\ UNCHANGED <<row, root, cited, counts>>

\* The row could not be deleted: the file goes back.
PutBack(r) ==
  /\ pc[r] = "putback"
  /\ root' = [root EXCEPT ![op[r].key] = hidden[Quarantined(r)]]
  /\ Put(Quarantined(r), "none") /\ Leave(r)
  /\ UNCHANGED <<row, cited, counts>>

-----------------------------------------------------------------------------
(* Errors, crashes, and the users of the files.                            *)

\* Where an operation goes when the call it makes at a step fails.
OnError == [stage |-> "idle", write |-> "discard", insert |-> "discard", publish |-> "undo",
            undo |-> "idle", discard |-> "idle", find |-> "idle", check |-> "idle",
            quarantine |-> "idle", drop |-> "putback", putback |-> "idle", purge |-> "idle"]

CallFails(r) ==
  /\ errors < MaxErrors /\ errors' = errors + 1
  /\ pc[r] \in DOMAIN OnError
  /\ LET to == OnError[pc[r]] IN
       IF to = "idle" \/ (to = "putback" /\ ~op[r].moved)
       THEN Leave(r)
       ELSE pc' = [pc EXCEPT ![r] = to] /\ UNCHANGED <<op, lock, todo>>
  /\ UNCHANGED <<row, files, cited, uploads, deletes, crashes, skips, unseen>>

\* A repair that cannot read the directory, ask for a row or move a file logs
\* the error and goes on.
RepairFails(r) ==
  /\ skips < MaxSkips /\ skips' = skips + 1
  /\ \/ Goto(r, "scan", "recover") /\ UNCHANGED todo
     \/ pc[r] = "recover" /\ (\E e \in todo : todo' = todo \ {e}) /\ UNCHANGED pc
  /\ UNCHANGED <<row, files, cited, lock, op, uploads, deletes, crashes, errors, unseen>>

\* A repair cannot look at the published file.  If it cannot ask whether there is
\* one, it takes it that there is and removes the quarantined file, be it the only
\* one; if it cannot read one, it takes it for broken and removes it.
RepairMisreads(r) ==
  /\ skips < MaxSkips /\ skips' = skips + 1
  /\ pc[r] = "recover"
  /\ \E e \in todo :
       /\ IsNext(e) /\ row[e.key] # 0
       /\ \/ /\ e.use = "delete" /\ Put(e, "none") /\ UNCHANGED root
             /\ todo' = todo \ {e} /\ unseen' = unseen \cup {e.key}
          \/ /\ e.use = "upload" /\ root[e.key] = "whole"
             /\ root' = [root EXCEPT ![e.key] = "none"]
             /\ UNCHANGED <<hidden, todo, unseen>>
  /\ UNCHANGED <<row, cited, lock, pc, op, uploads, deletes, crashes, errors>>

\* The process dies; the operating system releases its lock.
Crash(r) ==
  /\ crashes < MaxCrashes /\ crashes' = crashes + 1
  /\ pc[r] # "idle" /\ Leave(r)
  /\ UNCHANGED <<row, files, cited, uploads, deletes, errors, skips, unseen>>

\* Somebody saves an article, a project or an avatar with the URL of an asset, or without.
Cite(k) ==
  /\ row[k] # 0 /\ cited' = cited \cup {k}
  /\ UNCHANGED <<row, files, lock, pc, op, todo, counts>>

Uncite(k) ==
  /\ cited' = cited \ {k}
  /\ UNCHANGED <<row, files, lock, pc, op, todo, counts>>

-----------------------------------------------------------------------------
Upload(r) ==
  FindSame(r) \/ Stage(r) \/ Write(r) \/ Insert(r) \/ Publish(r) \/ Undo(r) \/ Discard(r)

Delete(r) ==
  FindItem(r) \/ CheckReferences(r) \/ Quarantine(r) \/ DropRow(r) \/ Purge(r) \/ PutBack(r)

Repair(r) == Scan(r) \/ RecoverEntry(r) \/ Recovered(r)

Next ==
  \/ \E r \in Requests :
       \/ StartUpload(r) \/ StartDelete(r)
       \/ Repair(r) \/ Upload(r) \/ Delete(r)
       \/ CallFails(r) \/ RepairFails(r) \/ RepairMisreads(r) \/ Crash(r)
  \/ \E k \in Keys : Cite(k) \/ Uncite(k)

Spec == Init /\ [][Next]_vars

-----------------------------------------------------------------------------
(* Properties.                                                             *)

Survives(k, C) == root[k] \in C \/ \E e \in Entries : e.key = k /\ hidden[e] \in C

\* Every asset the library lists has a file somewhere on the volume, save one whose
\* published file a repair could not look at since it was stored; as long as no
\* repair failed at all it has a whole one.
NoFileLost ==
  \A k \in Keys : row[k] # 0 =>
    /\ k \notin unseen => Survives(k, {"partial", "whole"})
    /\ skips = 0 => Survives(k, {"whole"})

\* Nothing is served that the library does not list and, as long as no repair
\* failed, nothing half written.
OnlyListedServed ==
  \A k \in Keys : root[k] # "none" => row[k] # 0 /\ (skips = 0 => root[k] = "whole")

\* An operation decides on the basis of a repaired library: as long as no repair
\* failed, rows and published files agree and no hidden file is left.
RepairedBeforeUse ==
  \A r \in Requests : pc[r] \in {"find", "stage", "check", "quarantine"} /\ skips = 0 =>
    /\ \A e \in Entries : hidden[e] = "none"
    /\ \A k \in Keys : row[k] # 0 <=> root[k] = "whole"

-----------------------------------------------------------------------------
(* The inductive invariant behind them.                                    *)

UploadPcs == {"stage", "write", "insert", "publish", "undo", "discard"}
DeletePcs == {"check", "quarantine", "drop", "putback", "purge"}

\* The holder of the lock is the one request that is not idle.
LockInv ==
  /\ \A r \in Requests : pc[r] # "idle" <=> lock = r
  /\ \A r \in Requests : pc[r] = "idle" <=> op[r] = NoOp
  /\ lock = Free => todo = {}

\* What a step knows of its operation, and of its asset even after failed repairs.
OpInv(r) ==
  /\ pc[r] \in {"scan", "recover"} => \A e \in todo : hidden[e] # "none"
  /\ op[r].kind = "upload" => op[r].key \in Keys
  /\ pc[r] \in UploadPcs => op[r].kind = "upload"
  /\ pc[r] \in DeletePcs => op[r].kind = "delete" /\ op[r].key \in Keys
  /\ pc[r] \in {"stage", "write", "insert", "discard", "purge"} => row[op[r].key] = 0
  /\ pc[r] \in {"publish", "undo", "check", "quarantine", "drop", "putback"} => row[op[r].key] # 0
  /\ pc[r] \in {"insert", "publish", "undo"} => hidden[Staged(r)] # "none"
  /\ pc[r] \in {"publish", "undo", "drop", "putback"} => root[op[r].key] = "none"
  /\ pc[r] \in {"drop", "putback"} /\ op[r].moved => hidden[Quarantined(r)] # "none"
  /\ pc[r] = "putback" => op[r].moved

\* Files that crashes may leave: what a repair starts from.
RepairableInv ==
  \A e \in Entries : hidden[e] = "partial" => row[e.key] = 0

Agree(K) == \A k \in K : row[k] # 0 <=> root[k] = "whole"
OnlyHidden(E) == \A e \in Entries : e \notin E => hidden[e] = "none"

\* What a repaired library looks like at each step.
StepInv(r) ==
  /\ pc[r] = "recover" => todo = {e \in Entries : hidden[e] # "none"}
  /\ pc[r] \in {"find", "stage", "check", "quarantine"} => OnlyHidden({}) /\ Agree(Keys)
  /\ pc[r] \in {"write", "insert", "discard"} => OnlyHidden({Staged(r)}) /\ Agree(Keys)
  /\ pc[r] = "purge" => OnlyHidden({Quarantined(r)}) /\ Agree(Keys)
  /\ pc[r] \in {"publish", "undo"} =>
       OnlyHidden({Staged(r)}) /\ Agree(Keys \ {op[r].key}) /\ hidden[Staged(r)] = "whole"
  /\ pc[r] = "insert" => hidden[Staged(r)] = "whole"
  /\ pc[r] \in {"drop", "putback"} =>
       /\ OnlyHidden({Quarantined(r)}) /\ Agree(Keys \ {op[r].key})
       /\ op[r].moved /\ hidden[Quarantined(r)] = "whole"

IInv ==
  /\ TypeOK
  /\ LockInv
  /\ \A r \in Requests : OpInv(r)
  /\ NoFileLost
  /\ OnlyListedServed
  /\ skips = 0 => RepairableInv /\ \A r \in Requests : StepInv(r)
=============================================================================
