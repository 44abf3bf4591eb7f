--------------------------- MODULE RagIndex_proofs ---------------------------
(***************************************************************************)
(* Theorems about RagIndex, for any number of API processes, requests,     *)
(* articles, embeddings, edits and crashes.  The invariant IInv joins,     *)
(* beside the types, who may be rebuilding (OwnerInv), that a scheduled    *)
(* article has a job nobody has claimed (ScheduledInv), and what a rebuild *)
(* has put into the collection so far (BuildInv).  The last two sections   *)
(* are about one API process: what its batches know (BatchInv), and the    *)
(* site that is restored from a backup (RagSiteRestore).                   *)
(***************************************************************************)
EXTENDS RagSiteRestore, TLAPS

\* Which steps belong to which task, and what a task knows of the row: a
\* rebuild under way holds it, a batch is of an epoch no rebuild has.
OwnerOf(w) ==
  /\ pc[w] \in {"idle", "state"} => task[w].kind = "none"
  /\ pc[w] = "claim" => task[w].kind = "outbox"
  /\ pc[w] \in RebuildPcs => task[w].kind = "rebuild"
  /\ pc[w] \in JobPcs \cup {"next"} => task[w].kind \in {"outbox", "rebuild"}
  /\ task[w].kind = "outbox" =>
       task[w].epoch <= row.epoch /\ (row.status = "rebuilding" => task[w].epoch < row.epoch)
  /\ task[w].kind = "rebuild" =>
       HoldsRebuild(w) /\ task[w].fp = task[w].target /\ task[w].deletes = {}
OwnerInv ==
  /\ \A w \in Workers : OwnerOf(w)
  /\ \A v, w \in Workers : task[v].kind = "rebuild" /\ task[w].kind = "rebuild" => v = w

\* The job that will publish a scheduled article waits for its time.
ScheduledInv == \A a \in Articles : art[a].vis = "scheduled" => job[a] # NoJob /\ job[a].lease = None

\* A batch of w is about to take the job of a off the outbox.
Finishing(w) == task[w].kind = "outbox" /\ pc[w] = "done" /\ sure[w]

\* There is a job for a that no batch of an earlier epoch can take away.
Pending(a) == job[a] # NoJob /\ \A v \in Workers : HasClaim(v, a) => ~Finishing(v)
Settled(a) == Indexed(a) = Wanted(a) \/ Pending(a)

Fetched(w) == IF doc[w] = Gone THEN {} ELSE {doc[w]}
Fresh(w)   == Fetched(w) = Wanted(cur[w]) \/ Pending(cur[w])

Listed  == JobPcs \cup {"next", "settle", "release", "close", "complete"}
Closing == {"settle", "release", "close", "complete"}

\* What the rebuild of w has achieved.
BuildOf(w) ==
  /\ pc[w] \in Listed \cup {"list"} => exists
  /\ pc[w] = "list" => Searchable = {}
  /\ pc[w] \in Listed =>
       /\ \A q \in Searchable : q.fp = task[w].fp
       /\ \A a \in Articles \ task[w].todo : Settled(a)
  /\ pc[w] \in {"delete", "upsert"} => Fresh(w)
  /\ pc[w] = "upsert" => doc[w] # Gone /\ Indexed(cur[w]) = {}
  /\ pc[w] = "done" => Settled(cur[w])
  /\ pc[w] \in JobPcs => cur[w] \in task[w].todo
  /\ pc[w] \in Closing => task[w].todo = {}
BuildInv == \A w \in Workers : task[w].kind = "rebuild" => BuildOf(w)

-----------------------------------------------------------------------------
(* Types.                                                                  *)

\* What a step of the worker may rely on being there.
Typed(w) ==
  /\ pc[w] # "idle" => task[w].fp \in Fps
  /\ pc[w] \in JobPcs => cur[w] \in Articles
  /\ pc[w] = "upsert" => doc[w] \in Contents

RowOK  == row \in [status : Statuses, epoch : 0 .. LastEpoch, fp : Fps \cup {NoFp},
                   lease : {"none", "live", "expired"}]
Request == [pc : {"write", "mark", "start"}, host : Workers, old : Settings, new : Settings]
AdmOK  == adm \in [Admins -> {NoRequest} \cup Request]
SiteOK == /\ settings \in Settings /\ art \in [Articles -> [content : Contents, vis : Visibilities]]
          /\ job \in [Articles -> Jobs \cup {NoJob}] /\ exists \in BOOLEAN /\ coll \in SUBSET Points
TaskOK == /\ pc \in [Workers -> Pcs] /\ task \in [Workers -> Tasks]
          /\ cur \in [Workers -> Articles \cup {None}] /\ doc \in [Workers -> Contents \cup {Gone}]
          /\ sure \in [Workers -> BOOLEAN] /\ \A w \in Workers : Typed(w)
QueueOK  == /\ asked \in [Workers -> Fps \cup {NoFp}] /\ pending \in [Workers -> BOOLEAN]
            /\ starter \in [Workers -> BOOLEAN]
BoundsOK == edits \in 0 .. MaxEdits /\ saves \in 0 .. MaxSaves /\ faults \in 0 .. MaxFaults
TypeInv  == RowOK /\ AdmOK /\ SiteOK /\ TaskOK /\ QueueOK /\ BoundsOK

IInv == TypeInv /\ OwnerInv /\ ScheduledInv /\ BuildInv

LEMMA TypeInvImpliesTypeOK == TypeInv => TypeOK
BY DEF TypeInv, TypeOK, RowOK, AdmOK, Request, SiteOK, TaskOK, QueueOK, BoundsOK

LEMMA EndTaskType ==
  ASSUME TaskOK, NEW w \in Workers, EndTask(w)
  PROVE  TaskOK'
<1>1. Idle \in Tasks
  BY ConstantsAssumption DEF Idle, Tasks
<1> QED
  BY <1>1 DEF TaskOK, EndTask, Pcs, Typed, JobPcs

LEMMA StepType ==
  ASSUME TaskOK, NEW w \in Workers, NEW from, NEW to \in Pcs, Step(w, from, to),
         task' \in [Workers -> Tasks], \A v \in Workers \ {w} : task'[v] = task[v],
         cur' \in [Workers -> Articles \cup {None}], \A v \in Workers \ {w} : cur'[v] = cur[v],
         doc' \in [Workers -> Contents \cup {Gone}], \A v \in Workers \ {w} : doc'[v] = doc[v],
         task'[w].fp \in Fps, to \in JobPcs => cur'[w] \in Articles,
         to = "upsert" => doc'[w] \in Contents
  PROVE  TaskOK'
<1>1. pc' \in [Workers -> Pcs] /\ sure' \in [Workers -> BOOLEAN]
  BY DEF TaskOK, Step
<1>2. Typed(w)'
  BY DEF Typed, TaskOK, Step
<1>3. \A v \in Workers \ {w} : Typed(v)'
  BY DEF Typed, TaskOK, Step
<1> QED
  BY <1>1, <1>2, <1>3 DEF TaskOK

LEMMA QueueType ==
  ASSUME QueueOK, NEW w \in Workers
  PROVE  /\ \A q \in BOOLEAN : FinishRebuild(w, q) => QueueOK'
         /\ \A fp \in Fps : StartRebuild(w, fp) => QueueOK'
BY DEF QueueOK, FinishRebuild, StartRebuild

LEMMA FailsType ==
  ASSUME TypeInv, NEW w \in Workers, Fails(w)
  PROVE  RowOK' /\ AdmOK' /\ SiteOK' /\ TaskOK' /\ QueueOK'
<1> USE DEF TypeInv
<1>1. CASE LeaveJob(w) /\ UNCHANGED row
  <2>1. task' \in [Workers -> Tasks] /\ task'[w].fp = task[w].fp
        /\ \A v \in Workers \ {w} : task'[v] = task[v]
    BY <1>1 DEF LeaveJob, TaskOK, Tasks
  <2>2. pc[w] # "idle"
    BY <1>1 DEF LeaveJob, JobPcs
  <2>3. TaskOK'
    BY <1>1, <2>1, <2>2, StepType, "next" \in Pcs, "next" \notin JobPcs
    DEF LeaveJob, TaskOK, Typed, Pcs, JobPcs
  <2>4. job' \in [Articles -> Jobs \cup {NoJob}]
    BY <1>1, NoJobAssumption DEF LeaveJob, SiteOK, Jobs, HasClaim
  <2> QED
    BY <1>1, <2>3, <2>4 DEF Fails, LeaveJob, queue, qdrant, RowOK, AdmOK, SiteOK, QueueOK
<1>2. CASE FailRebuild(w)
  <2>1. TaskOK'
    BY <1>2, EndTaskType DEF FailRebuild
  <2>2. QueueOK'
    BY <1>2, QueueType DEF FailRebuild, HoldsRebuild
  <2>3. RowOK'
    BY <1>2 DEF FailRebuild, HoldsRebuild, RowOK, Statuses
  <2> QED
    BY <1>2, <2>1, <2>2, <2>3 DEF Fails, FailRebuild, qdrant, AdmOK, SiteOK
<1> QED
  BY <1>1, <1>2 DEF Fails

LEMMA LoopType ==
  ASSUME TypeInv, NEW w \in Workers, Loop(w)
  PROVE  TypeInv'
<1> USE DEF TypeInv, shared, qdrant, queue, bounds
<1>1. CASE Poll(w)
  <2>1. task' \in [Workers -> Tasks] /\ task'[w].fp \in Fps
        /\ \A v \in Workers \ {w} : task'[v] = task[v]
    <3>1. settings.fp \in Fps
      BY DEF SiteOK, Settings
    <3>2. [task[w] EXCEPT !.fp = settings.fp] \in Tasks
      BY <3>1 DEF TaskOK, Tasks
    <3>3. task' = [task EXCEPT ![w] = [task[w] EXCEPT !.fp = settings.fp]]
      BY <1>1 DEF Poll
    <3> QED
      BY <3>1, <3>2, <3>3 DEF TaskOK, Tasks
  <2>2. TaskOK'
    BY <1>1, <2>1, StepType, "state" \in Pcs, "state" \notin JobPcs DEF Poll, TaskOK, Pcs, JobPcs
  <2> QED
    BY <1>1, <2>2 DEF Poll, RowOK, AdmOK, SiteOK, QueueOK, BoundsOK
<1>2. CASE ReadState(w)
  <2>1. task[w].fp \in Fps
    BY <1>2 DEF ReadState, TaskOK, Typed
  <2>2. CASE ShouldRebuild /\ StartRebuild(w, task[w].fp) /\ EndTask(w)
    BY <1>2, <2>1, <2>2, QueueType, EndTaskType DEF ReadState, RowOK, AdmOK, SiteOK, BoundsOK
  <2>3. CASE ~ShouldRebuild /\ row.status # "ready" /\ EndTask(w) /\ UNCHANGED queue
    BY <1>2, <2>3, EndTaskType DEF ReadState, RowOK, AdmOK, SiteOK, QueueOK, BoundsOK
  <2>4. CASE Step(w, "state", "claim") /\ UNCHANGED <<cur, doc, queue>> /\ task' =
               [task EXCEPT ![w].kind = "outbox", ![w].epoch = row.epoch, ![w].target = row.fp]
    <3>1. task' \in [Workers -> Tasks] /\ task'[w].fp \in Fps
          /\ \A v \in Workers \ {w} : task'[v] = task[v]
      <4> DEFINE t == [task[w] EXCEPT !.kind = "outbox", !.epoch = row.epoch, !.target = row.fp]
      <4>1. t \in Tasks /\ t.fp = task[w].fp
        <5>1. task[w] \in Tasks
          BY DEF TaskOK
        <5>2. row.epoch \in 0 .. LastEpoch /\ row.fp \in Fps \cup {NoFp}
          BY DEF RowOK
        <5> QED
          BY <5>1, <5>2 DEF Tasks
      <4>2. task' = [task EXCEPT ![w] = t]
        BY <2>4
      <4> HIDE DEF t
      <4> QED
        BY <2>1, <4>1, <4>2 DEF TaskOK
    <3>2. TaskOK'
      BY <2>4, <3>1, StepType, "claim" \in Pcs, "claim" \notin JobPcs DEF TaskOK, Pcs, JobPcs
    <3> QED
      BY <1>2, <2>4, <3>2 DEF ReadState, RowOK, AdmOK, SiteOK, QueueOK, BoundsOK
  <2> QED
    BY <1>2, <2>2, <2>3, <2>4 DEF ReadState
<1>3. CASE ClaimJobs(w)
  <2>1. task' \in [Workers -> Tasks] /\ task'[w].fp = task[w].fp
        /\ \A v \in Workers \ {w} : task'[v] = task[v]
    <3>1. PICK batch \in SUBSET Articles : task' =
            [task EXCEPT ![w].todo = batch, ![w].deletes = {a \in batch : job[a].op = "delete"}]
      BY <1>3 DEF ClaimJobs, Claimable
    <3> DEFINE t == [task[w] EXCEPT !.todo = batch, !.deletes = {a \in batch : job[a].op = "delete"}]
    <3>2. t \in Tasks /\ t.fp = task[w].fp
      BY DEF TaskOK, Tasks
    <3>3. task' = [task EXCEPT ![w] = t]
      BY <3>1
    <3> HIDE DEF t
    <3> QED
      BY <3>2, <3>3 DEF TaskOK
  <2>2. task[w].fp \in Fps
    BY <1>3 DEF ClaimJobs, Step, TaskOK, Typed
  <2>3. TaskOK'
    BY <1>3, <2>1, <2>2, StepType, "next" \in Pcs, "next" \notin JobPcs
    DEF ClaimJobs, TaskOK, Pcs, JobPcs
  <2>4. job' \in [Articles -> Jobs \cup {NoJob}]
    BY <1>3 DEF ClaimJobs, Claimable, SiteOK, Jobs
  <2> QED
    BY <1>3, <2>3, <2>4 DEF ClaimJobs, RowOK, AdmOK, SiteOK, QueueOK, BoundsOK
<1>4. CASE EndBatch(w)
  BY <1>4, EndTaskType DEF EndBatch, RowOK, AdmOK, SiteOK, QueueOK, BoundsOK
<1> QED
  BY <1>1, <1>2, <1>3, <1>4 DEF Loop

LEMMA JobType ==
  ASSUME TypeInv, NEW w \in Workers, ProcessJob(w)
  PROVE  TypeInv'
<1> USE DEF TypeInv, shared, qdrant, queue, bounds
<1>0. pc[w] # "idle" => task[w].fp \in Fps
  BY DEF TaskOK, Typed
<1>1. CASE NextJob(w)
  <2>1. cur' \in [Workers -> Articles \cup {None}] /\ cur'[w] \in Articles
        /\ \A v \in Workers \ {w} : cur'[v] = cur[v]
    BY <1>1 DEF NextJob, TaskOK, Tasks
  <2>2. TaskOK'
    BY <1>0, <1>1, <2>1, StepType, "read" \in Pcs DEF NextJob, Step, TaskOK, Pcs, JobPcs
  <2> QED
    BY <1>1, <2>2 DEF NextJob, RowOK, AdmOK, SiteOK, QueueOK, BoundsOK
<1>2. CASE AssertIndexState(w)
  <2>1. TaskOK'
    BY <1>2 DEF AssertIndexState, TaskOK, Typed
  <2> QED
    BY <1>2, <2>1 DEF AssertIndexState, RowOK, AdmOK, SiteOK, QueueOK, BoundsOK
<1>3. CASE ReadArticle(w)
  <2>1. pc[w] = "read" /\ cur[w] \in Articles
    BY <1>3 DEF ReadArticle, Step, TaskOK, Typed, JobPcs
  <2>2. doc' \in [Workers -> Contents \cup {Gone}] /\ \A v \in Workers \ {w} : doc'[v] = doc[v]
    BY <1>3, <2>1 DEF ReadArticle, TaskOK, SiteOK
  <2>3. TaskOK'
    BY <1>0, <1>3, <2>1, <2>2, StepType, "delete" \in Pcs DEF ReadArticle, TaskOK, Pcs, JobPcs
  <2> QED
    BY <1>3, <2>3 DEF ReadArticle, RowOK, AdmOK, SiteOK, QueueOK, BoundsOK
<1>4. CASE DeletePoints(w)
  <2>1. pc[w] = "delete" /\ cur[w] \in Articles
    BY <1>4 DEF DeletePoints, Step, TaskOK, Typed, JobPcs
  <2>2. TaskOK'
    BY <1>0, <1>4, <2>1, StepType, "done" \in Pcs, "upsert" \in Pcs
    DEF DeletePoints, TaskOK, Pcs, JobPcs
  <2> QED
    BY <1>4, <2>2 DEF DeletePoints, RowOK, AdmOK, SiteOK, QueueOK, BoundsOK
<1>5. CASE Upsert(w)
  <2>1. pc[w] = "upsert" /\ cur[w] \in Articles /\ doc[w] \in Contents /\ task[w].fp \in Fps
    BY <1>5 DEF Upsert, Step, TaskOK, Typed, JobPcs
  <2>2. TaskOK'
    BY <1>5, <2>1, StepType, "done" \in Pcs DEF Upsert, TaskOK, Pcs, JobPcs
  <2>3. [article |-> cur[w], epoch |-> task[w].epoch, content |-> doc[w], fp |-> task[w].fp] \in Points
    BY <2>1 DEF Points, TaskOK, Tasks
  <2>4. coll' \in SUBSET Points
    BY <1>5, <2>3 DEF Upsert, SiteOK
  <2> QED
    BY <1>5, <2>2, <2>4 DEF Upsert, RowOK, AdmOK, SiteOK, QueueOK, BoundsOK
<1>6. CASE FinishJob(w)
  <2>1. task' \in [Workers -> Tasks] /\ task'[w].fp = task[w].fp
        /\ \A v \in Workers \ {w} : task'[v] = task[v]
    BY <1>6 DEF FinishJob, TaskOK, Tasks
  <2>2. TaskOK'
    BY <1>0, <1>6, <2>1, StepType, "next" \in Pcs, "next" \notin JobPcs
    DEF FinishJob, Step, TaskOK, Pcs, JobPcs
  <2>3. job' \in [Articles -> Jobs \cup {NoJob}]
    BY <1>6 DEF FinishJob, SiteOK
  <2> QED
    BY <1>6, <2>2, <2>3 DEF FinishJob, RowOK, AdmOK, SiteOK, QueueOK, BoundsOK
<1> QED
  BY <1>1, <1>2, <1>3, <1>4, <1>5, <1>6 DEF ProcessJob

LEMMA RebuildType ==
  ASSUME TypeInv, NEW w \in Workers, Rebuild(w)
  PROVE  TypeInv'
<1> USE DEF TypeInv, shared, qdrant, queue, bounds
<1>0. pc[w] # "idle" => task[w].fp \in Fps
  BY DEF TaskOK, Typed
<1>1. CASE Begin(w)
  <2>1. CASE EndTask(w) /\ FinishRebuild(w, FALSE) /\ UNCHANGED row
    BY <1>1, <2>1, EndTaskType, QueueType DEF Begin, RowOK, AdmOK, SiteOK, BoundsOK
  <2>2. CASE /\ row.epoch < LastEpoch
             /\ row' = [status |-> "rebuilding", epoch |-> row.epoch + 1, fp |-> asked[w], lease |-> "live"]
             /\ task' = [task EXCEPT ![w] = [Idle EXCEPT !.kind = "rebuild", !.epoch = row.epoch + 1,
                                                         !.target = asked[w], !.fp = asked[w]]]
             /\ Step(w, "idle", "drop") /\ UNCHANGED <<cur, doc, queue>>
    <3>1. asked[w] \in Fps /\ row.epoch + 1 \in 0 .. LastEpoch
      BY <1>1, <2>2, ConstantsAssumption DEF Begin, QueueOK, RowOK
    <3>2. task' \in [Workers -> Tasks] /\ task'[w].fp \in Fps
          /\ \A v \in Workers \ {w} : task'[v] = task[v]
      BY <2>2, <3>1 DEF TaskOK, Tasks, Idle
    <3>3. TaskOK'
      BY <2>2, <3>2, StepType, "drop" \in Pcs, "drop" \notin JobPcs DEF TaskOK, Pcs, JobPcs, RebuildPcs
    <3>4. RowOK'
      BY <2>2, <3>1 DEF RowOK, Statuses
    <3> QED
      BY <1>1, <2>2, <3>3, <3>4 DEF Begin, AdmOK, SiteOK, QueueOK, BoundsOK
  <2> QED
    BY <1>1, <2>1, <2>2 DEF Begin
<1>2. CASE DropCollection(w)
  <2>1. TaskOK'
    BY <1>0, <1>2, StepType, "create" \in Pcs, "create" \notin JobPcs
    DEF DropCollection, Step, TaskOK, Pcs, JobPcs, RebuildPcs
  <2> QED
    BY <1>2, <2>1 DEF DropCollection, RowOK, AdmOK, SiteOK, QueueOK, BoundsOK
<1>3. CASE CreateCollection(w)
  <2>1. TaskOK'
    BY <1>0, <1>3, StepType, "list" \in Pcs, "list" \notin JobPcs
    DEF CreateCollection, Step, TaskOK, Pcs, JobPcs, RebuildPcs
  <2> QED
    BY <1>3, <2>1 DEF CreateCollection, RowOK, AdmOK, SiteOK, QueueOK, BoundsOK
<1>4. CASE ListPublicArticles(w)
  <2>1. task' \in [Workers -> Tasks] /\ task'[w].fp = task[w].fp
        /\ \A v \in Workers \ {w} : task'[v] = task[v]
    BY <1>4 DEF ListPublicArticles, TaskOK, Tasks
  <2>2. TaskOK'
    BY <1>0, <1>4, <2>1, StepType, "next" \in Pcs, "next" \notin JobPcs
    DEF ListPublicArticles, Step, TaskOK, Pcs, JobPcs
  <2> QED
    BY <1>4, <2>2 DEF ListPublicArticles, RowOK, AdmOK, SiteOK, QueueOK, BoundsOK
<1>5. CASE AllIndexed(w)
  <2>1. TaskOK'
    BY <1>0, <1>5, StepType, "settle" \in Pcs, "settle" \notin JobPcs
    DEF AllIndexed, Step, TaskOK, Pcs, JobPcs, RebuildPcs
  <2> QED
    BY <1>5, <2>1 DEF AllIndexed, RowOK, AdmOK, SiteOK, QueueOK, BoundsOK
<1>6. CASE ReadLatestSettings(w)
  <2>1. \E to \in {"complete", "release", "close"} : Step(w, "settle", to)
    BY <1>6 DEF ReadLatestSettings
  <2>2. TaskOK'
    BY <1>0, <1>6, <2>1, StepType DEF ReadLatestSettings, TaskOK, Pcs, JobPcs, RebuildPcs
  <2> QED
    BY <1>6, <2>2 DEF ReadLatestSettings, RowOK, AdmOK, SiteOK, QueueOK, BoundsOK
<1>7. CASE Release(w) \/ Complete(w)
  <2>1. TaskOK'
    BY <1>7, EndTaskType DEF Release, Complete
  <2>2. \E q \in BOOLEAN : FinishRebuild(w, q)
    BY <1>7 DEF Release, Complete, HoldsRebuild
  <2>3. QueueOK'
    BY <2>2, QueueType
  <2>4. RowOK'
    BY <1>7 DEF Release, Complete, RowOK, Statuses
  <2> QED
    BY <1>7, <2>1, <2>3, <2>4 DEF Release, Complete, AdmOK, SiteOK, BoundsOK
<1> QED
  BY <1>1, <1>2, <1>3, <1>4, <1>5, <1>6, <1>7 DEF Rebuild

LEMMA OperationFailsType ==
  ASSUME TypeInv, NEW w \in Workers, OperationFails(w)
  PROVE  TypeInv'
<1> USE DEF TypeInv, shared, qdrant, queue
<1>0. BoundsOK'
  BY ConstantsAssumption DEF OperationFails, BoundsOK
<1>1. CASE Fails(w)
  BY <1>0, <1>1, FailsType
<1>2. CASE AbandonJob(w) /\ UNCHANGED <<settings, art, qdrant, adm>>
  <2>1. task' \in [Workers -> Tasks] /\ task'[w].fp = task[w].fp
        /\ \A v \in Workers \ {w} : task'[v] = task[v]
    BY <1>2 DEF AbandonJob, TaskOK, Tasks
  <2>2. task[w].fp \in Fps
    BY <1>2 DEF AbandonJob, TaskOK, Typed, JobPcs
  <2>3. TaskOK'
    BY <1>2, <2>1, <2>2, StepType, "next" \in Pcs, "next" \notin JobPcs DEF AbandonJob, TaskOK, Pcs, JobPcs
  <2> QED
    BY <1>0, <1>2, <2>3 DEF AbandonJob, RowOK, AdmOK, SiteOK, QueueOK
<1>3. CASE AbandonRebuild(w) /\ UNCHANGED <<settings, art, qdrant, adm>>
  BY <1>0, <1>3, EndTaskType, QueueType DEF AbandonRebuild, RowOK, AdmOK, SiteOK
<1>4. CASE EndTask(w) /\ UNCHANGED <<shared, queue, adm>>
  BY <1>0, <1>4, EndTaskType DEF RowOK, AdmOK, SiteOK, QueueOK
<1>5. CASE EndTask(w) /\ FinishRebuild(w, FALSE) /\ UNCHANGED <<shared, adm>>
  BY <1>0, <1>5, EndTaskType, QueueType DEF RowOK, AdmOK, SiteOK
<1>6. CASE starter' = [starter EXCEPT ![w] = FALSE] /\ UNCHANGED <<shared, worker, asked, pending, adm>>
  BY <1>0, <1>6 DEF RowOK, AdmOK, SiteOK, QueueOK, TaskOK, Typed, worker
<1> QED
  BY <1>1, <1>2, <1>3, <1>4, <1>5, <1>6 DEF OperationFails

LEMMA OwnerType ==
  ASSUME TypeInv, NEW w \in Workers, StartQueued(w) \/ AdminRebuild(w) \/ Crash(w)
  PROVE  TypeInv'
<1> USE DEF TypeInv, shared, qdrant, queue, bounds
<1>1. CASE StartQueued(w)
  BY <1>1 DEF StartQueued, RowOK, AdmOK, SiteOK, QueueOK, TaskOK, Typed, worker, BoundsOK, Settings
<1>2. CASE AdminRebuild(w)
  BY <1>2, ConstantsAssumption
  DEF AdminRebuild, RowOK, AdmOK, SiteOK, QueueOK, TaskOK, Typed, worker, BoundsOK, Settings
<1>3. CASE Crash(w)
  <2>1. TaskOK'
    BY <1>3, EndTaskType DEF Crash
  <2> QED
    BY <1>3, <2>1, ConstantsAssumption DEF Crash, RowOK, AdmOK, SiteOK, QueueOK, BoundsOK
<1> QED
  BY <1>1, <1>2, <1>3

LEMMA SaveType ==
  ASSUME TypeInv, NEW d \in Admins, SaveRead(d) \/ Save(d) \/ SaveFails(d)
  PROVE  TypeInv'
<1> USE DEF TypeInv, shared, qdrant, queue, bounds
<1>0. adm[d].pc \in {"write", "mark", "start"} => adm[d] \in Request
  BY DEF AdmOK, NoRequest
<1>1. CASE SaveRead(d)
  <2>1. AdmOK'
    BY <1>1 DEF SaveRead, AdmOK, Request, SiteOK
  <2> QED
    BY <1>1, <2>1, ConstantsAssumption DEF SaveRead, RowOK, SiteOK, QueueOK, TaskOK, Typed, worker, BoundsOK
<1>2. CASE SaveWrite(d)
  <2>1. AdmOK' /\ settings' \in Settings
    BY <1>0, <1>2 DEF SaveWrite, AdmOK, Request
  <2> QED
    BY <1>2, <2>1 DEF SaveWrite, RowOK, SiteOK, QueueOK, TaskOK, Typed, worker, BoundsOK
<1>3. CASE SaveMark(d)
  <2>1. AdmOK'
    BY <1>0, <1>3 DEF SaveMark, AdmOK, Request
  <2>2. RowOK'
    BY <1>0, <1>3 DEF SaveMark, Mark, RowOK, Statuses, Request, Settings
  <2> QED
    BY <1>3, <2>1, <2>2 DEF SaveMark, SiteOK, QueueOK, TaskOK, Typed, worker, BoundsOK
<1>4. CASE SaveStart(d)
  <2>1. AdmOK'
    BY <1>0, <1>4 DEF SaveStart, AdmOK, Request
  <2>2. QueueOK'
    BY <1>0, <1>4, QueueType DEF SaveStart, Request, Settings
  <2> QED
    BY <1>4, <2>1, <2>2 DEF SaveStart, RowOK, SiteOK, TaskOK, Typed, worker, BoundsOK
<1>5. CASE SaveFails(d)
  BY <1>5, ConstantsAssumption
  DEF SaveFails, RowOK, AdmOK, SiteOK, QueueOK, TaskOK, Typed, worker, BoundsOK
<1> QED
  BY <1>1, <1>2, <1>3, <1>4, <1>5 DEF Save

LEMMA ArticleType ==
  ASSUME TypeInv, NEW a \in Articles, Edit(a) \/ TimePasses(a) \/ JobLeaseExpires(a)
  PROVE  TypeInv'
<1> USE DEF TypeInv, shared, qdrant, queue, bounds
<1>0. TaskOK' /\ QueueOK' /\ AdmOK' /\ RowOK'
  BY DEF Edit, TimePasses, JobLeaseExpires, RowOK, AdmOK, QueueOK, TaskOK, Typed, worker
<1>1. CASE Edit(a)
  BY <1>0, <1>1, ConstantsAssumption DEF Edit, SiteOK, Jobs, Operation, BoundsOK
<1>2. CASE TimePasses(a)
  BY <1>0, <1>2 DEF TimePasses, SiteOK, Visibilities, BoundsOK
<1>3. CASE JobLeaseExpires(a)
  BY <1>0, <1>3 DEF JobLeaseExpires, SiteOK, Jobs, BoundsOK
<1> QED
  BY <1>1, <1>2, <1>3

LEMMA TypeStep == TypeInv /\ [Next]_vars => TypeInv'
<1> SUFFICES ASSUME TypeInv, [Next]_vars
             PROVE  TypeInv'
  OBVIOUS
<1>1. ASSUME NEW w \in Workers, IndexChanged(w)
      PROVE  TypeInv'
  BY <1>1, FailsType DEF TypeInv, IndexChanged, BoundsOK, bounds
<1>2. CASE RebuildLeaseExpires
  BY <1>2 DEF RebuildLeaseExpires, TypeInv, RowOK, AdmOK, SiteOK, QueueOK, TaskOK, Typed, worker,
              BoundsOK, qdrant, queue, bounds
<1>3. CASE UNCHANGED vars
  BY <1>3 DEF vars, TypeInv, RowOK, AdmOK, SiteOK, QueueOK, TaskOK, Typed, BoundsOK
<1> QED
  BY <1>1, <1>2, <1>3, LoopType, JobType, RebuildType, OperationFailsType, OwnerType, SaveType,
     ArticleType DEF Next, Work

-----------------------------------------------------------------------------
(* Who rebuilds.                                                           *)

\* A step of w, or of none, leaves the other workers alone.
Others(w) == \A v \in Workers \ {w} :
  pc'[v] = pc[v] /\ task'[v] = task[v] /\ cur'[v] = cur[v] /\ doc'[v] = doc[v] /\ sure'[v] = sure[v]

LEMMA EndTaskIdles ==
  ASSUME TaskOK, NEW w \in Workers, EndTask(w)
  PROVE  Others(w) /\ pc'[w] = "idle" /\ task'[w].kind = "none" /\ ~Finishing(w)'
BY DEF EndTask, Idle, Others, TaskOK, Finishing

LEMMA StepMoves ==
  ASSUME TaskOK, NEW w \in Workers, NEW from, NEW to, Step(w, from, to)
  PROVE  /\ pc[w] = from /\ pc'[w] = to /\ ~Finishing(w)'
         /\ UNCHANGED <<task, cur, doc>> => Others(w)
         /\ \A t : task' = [task EXCEPT ![w] = t] /\ UNCHANGED <<cur, doc>> =>
              Others(w) /\ task'[w] = t
         /\ \A a : cur' = [cur EXCEPT ![w] = a] /\ UNCHANGED <<task, doc>> =>
              Others(w) /\ cur'[w] = a
         /\ \A c : doc' = [doc EXCEPT ![w] = c] /\ UNCHANGED <<task, cur>> =>
              Others(w) /\ doc'[w] = c
BY DEF Step, Others, TaskOK, Finishing

LEMMA OwnerKept ==
  ASSUME OwnerInv, NEW w \in Workers, Others(w), UNCHANGED row, OwnerOf(w)',
         task'[w].kind = "rebuild" => task[w].kind = "rebuild"
  PROVE  OwnerInv'
<1>1. ASSUME NEW v \in Workers \ {w}
      PROVE  OwnerOf(v)'
  BY <1>1 DEF OwnerInv, OwnerOf, Others, HoldsRebuild
<1>2. ASSUME NEW u \in Workers, NEW v \in Workers, task'[u].kind = "rebuild", task'[v].kind = "rebuild"
      PROVE  u = v
  BY <1>2 DEF OwnerInv, Others
<1> QED
  BY <1>1, <1>2 DEF OwnerInv

\* The rebuild of w ends and gives up the row.
LEMMA RowReleased ==
  ASSUME OwnerInv, TaskOK, NEW w \in Workers, EndTask(w), task[w].kind = "rebuild",
         row'.epoch = row.epoch
  PROVE  OwnerInv'
<1>1. Others(w) /\ pc'[w] = "idle" /\ task'[w].kind = "none"
  BY EndTaskIdles
<1>2. row.status = "rebuilding"
  BY DEF OwnerInv, OwnerOf, HoldsRebuild
<1>3. OwnerOf(w)'
  BY <1>1 DEF OwnerOf, RebuildPcs, JobPcs
<1>4. ASSUME NEW v \in Workers \ {w}
      PROVE  OwnerOf(v)' /\ task'[v].kind # "rebuild"
  <2>1. OwnerOf(v) /\ task[v].kind # "rebuild"
    BY DEF OwnerInv
  <2> QED
    BY <1>1, <1>2, <2>1 DEF OwnerOf, Others
<1> QED
  BY <1>1, <1>3, <1>4 DEF OwnerInv

LEMMA OwnerFails ==
  ASSUME TypeInv, OwnerInv, NEW w \in Workers, Fails(w)
  PROVE  OwnerInv'
<1> USE DEF TypeInv
<1>1. CASE FailRebuild(w)
  <2>1. row'.epoch = row.epoch
    BY <1>1 DEF FailRebuild, RowOK
  <2> QED
    BY <1>1, <2>1, RowReleased DEF FailRebuild
<1>2. CASE task[w].kind = "outbox" /\ LeaveJob(w) /\ UNCHANGED row
  <2> DEFINE t == [task[w] EXCEPT !.todo = @ \ {cur[w]}]
  <2>1. task' = [task EXCEPT ![w] = t] /\ Step(w, pc[w], "next") /\ UNCHANGED <<cur, doc>>
    BY <1>2 DEF LeaveJob
  <2>2. t.kind = task[w].kind /\ t.epoch = task[w].epoch
    BY DEF TaskOK, Tasks
  <2> HIDE DEF t
  <2>3. Others(w) /\ task'[w] = t /\ pc'[w] = "next"
    BY <2>1, StepMoves
  <2>4. OwnerOf(w)'
    BY <1>2, <2>2, <2>3 DEF OwnerOf, OwnerInv, RebuildPcs, JobPcs
  <2> QED
    BY <1>2, <2>2, <2>3, <2>4, OwnerKept
<1> QED
  BY <1>1, <1>2 DEF Fails

LEMMA OwnerWork ==
  ASSUME TypeInv, OwnerInv, NEW w \in Workers, Work(w)
  PROVE  OwnerInv'
<1> USE DEF TypeInv, shared, qdrant, RebuildPcs, JobPcs
<1>0. OwnerOf(w)
  BY DEF OwnerInv
<1>1. CASE Poll(w)
  <2> DEFINE t == [task[w] EXCEPT !.fp = settings.fp]
  <2>1. task' = [task EXCEPT ![w] = t] /\ Step(w, "idle", "state") /\ UNCHANGED <<cur, doc, row>>
    BY <1>1 DEF Poll
  <2>2. t.kind = task[w].kind
    BY DEF TaskOK, Tasks
  <2> HIDE DEF t
  <2>3. Others(w) /\ task'[w] = t /\ pc'[w] = "state" /\ pc[w] = "idle"
    BY <2>1, StepMoves
  <2>4. OwnerOf(w)'
    BY <1>0, <2>2, <2>3 DEF OwnerOf
  <2> QED
    BY <2>1, <2>2, <2>3, <2>4, OwnerKept
<1>2. CASE ReadState(w)
  <2>1. CASE EndTask(w)
    <3>1. OwnerOf(w)'
      BY <2>1, EndTaskIdles DEF OwnerOf
    <3> QED
      BY <1>2, <2>1, <3>1, EndTaskIdles, OwnerKept DEF ReadState
  <2>2. CASE ~EndTask(w)
    <3> DEFINE t == [task[w] EXCEPT !.kind = "outbox", !.epoch = row.epoch, !.target = row.fp]
    <3>1. /\ task' = [task EXCEPT ![w] = t] /\ Step(w, "state", "claim")
          /\ UNCHANGED <<cur, doc, row>> /\ row.status = "ready"
      BY <1>2, <2>2 DEF ReadState
    <3>2. t.kind = "outbox" /\ t.epoch = row.epoch /\ row.epoch \in Nat
      BY ConstantsAssumption DEF TaskOK, Tasks, RowOK
    <3> HIDE DEF t
    <3>3. Others(w) /\ task'[w] = t /\ pc'[w] = "claim"
      BY <3>1, StepMoves
    <3>4. OwnerOf(w)'
      BY <3>1, <3>2, <3>3 DEF OwnerOf
    <3> QED
      BY <3>1, <3>2, <3>3, <3>4, OwnerKept
  <2> QED
    BY <2>1, <2>2
<1>3. CASE ClaimJobs(w)
  <2>1. PICK batch : task' =
          [task EXCEPT ![w].todo = batch, ![w].deletes = {a \in batch : job[a].op = "delete"}]
    BY <1>3 DEF ClaimJobs
  <2> DEFINE t == [task[w] EXCEPT !.todo = batch, !.deletes = {a \in batch : job[a].op = "delete"}]
  <2>2. task' = [task EXCEPT ![w] = t] /\ Step(w, "claim", "next") /\ UNCHANGED <<cur, doc, row>>
    BY <1>3, <2>1 DEF ClaimJobs
  <2>3. t.kind = task[w].kind /\ t.epoch = task[w].epoch
    BY DEF TaskOK, Tasks
  <2> HIDE DEF t
  <2>4. Others(w) /\ task'[w] = t /\ pc'[w] = "next" /\ pc[w] = "claim"
    BY <2>2, StepMoves
  <2>5. OwnerOf(w)'
    BY <1>0, <2>2, <2>3, <2>4 DEF OwnerOf
  <2> QED
    BY <2>2, <2>3, <2>4, <2>5, OwnerKept
<1>4. CASE EndBatch(w)
  <2>1. OwnerOf(w)'
    BY <1>4, EndTaskIdles DEF EndBatch, OwnerOf
  <2> QED
    BY <1>4, <2>1, EndTaskIdles, OwnerKept DEF EndBatch
<1>5. CASE AssertIndexState(w)
  BY <1>5 DEF AssertIndexState, OwnerInv, OwnerOf, HoldsRebuild
<1>6. CASE FinishJob(w)
  <2> DEFINE t == [task[w] EXCEPT !.todo = @ \ {cur[w]}]
  <2>1. task' = [task EXCEPT ![w] = t] /\ Step(w, "done", "next") /\ UNCHANGED <<cur, doc, row>>
    BY <1>6 DEF FinishJob
  <2>2. /\ t.kind = task[w].kind /\ t.epoch = task[w].epoch
        /\ t.fp = task[w].fp /\ t.target = task[w].target /\ t.deletes = task[w].deletes
    BY DEF TaskOK, Tasks
  <2> HIDE DEF t
  <2>3. Others(w) /\ task'[w] = t /\ pc'[w] = "next" /\ pc[w] = "done"
    BY <2>1, StepMoves
  <2>4. OwnerOf(w)'
    BY <1>0, <2>1, <2>2, <2>3 DEF OwnerOf, HoldsRebuild
  <2> QED
    BY <2>1, <2>2, <2>3, <2>4, OwnerKept
<1>7. CASE ListPublicArticles(w)
  <2> DEFINE t == [task[w] EXCEPT !.todo = {a \in Articles : art[a].vis = "public"}]
  <2>1. task' = [task EXCEPT ![w] = t] /\ Step(w, "list", "next") /\ UNCHANGED <<cur, doc, row>>
    BY <1>7 DEF ListPublicArticles
  <2>2. /\ t.kind = task[w].kind /\ t.epoch = task[w].epoch
        /\ t.fp = task[w].fp /\ t.target = task[w].target /\ t.deletes = task[w].deletes
    BY DEF TaskOK, Tasks
  <2> HIDE DEF t
  <2>3. Others(w) /\ task'[w] = t /\ pc'[w] = "next" /\ pc[w] = "list"
    BY <2>1, StepMoves
  <2>4. OwnerOf(w)'
    BY <1>0, <2>1, <2>2, <2>3 DEF OwnerOf, HoldsRebuild
  <2> QED
    BY <2>1, <2>2, <2>3, <2>4, OwnerKept
<1>8. CASE NextJob(w) \/ ReadArticle(w) \/ DeletePoints(w) \/ Upsert(w)
  <2>1. /\ Others(w) /\ UNCHANGED <<row, task>> /\ pc[w] \in JobPcs \cup {"next"}
        /\ pc'[w] \in JobPcs
    BY <1>8, StepMoves DEF NextJob, ReadArticle, DeletePoints, Upsert
  <2>2. OwnerOf(w)'
    BY <1>0, <2>1 DEF OwnerOf, HoldsRebuild
  <2> QED
    BY <2>1, <2>2, OwnerKept
<1>9. CASE DropCollection(w) \/ CreateCollection(w) \/ AllIndexed(w) \/ ReadLatestSettings(w)
  <2>1. /\ Others(w) /\ UNCHANGED <<row, task>> /\ task[w].kind = "rebuild" /\ pc'[w] \in RebuildPcs
    BY <1>0, <1>9, StepMoves
    DEF DropCollection, CreateCollection, AllIndexed, ReadLatestSettings, OwnerOf
  <2>2. OwnerOf(w)'
    BY <1>0, <2>1 DEF OwnerOf, HoldsRebuild
  <2> QED
    BY <2>1, <2>2, OwnerKept
<1>10. CASE Begin(w)
  <2>1. CASE EndTask(w) /\ UNCHANGED row
    <3>1. OwnerOf(w)'
      BY <2>1, EndTaskIdles DEF OwnerOf
    <3> QED
      BY <2>1, <3>1, EndTaskIdles, OwnerKept
  <2>2. CASE ~(EndTask(w) /\ UNCHANGED row)
    <3> DEFINE t == [Idle EXCEPT !.kind = "rebuild", !.epoch = row.epoch + 1,
                                 !.target = asked[w], !.fp = asked[w]]
    <3>1. /\ row.status # "rebuilding" \/ row.lease # "live"
          /\ row' = [status |-> "rebuilding", epoch |-> row.epoch + 1, fp |-> asked[w], lease |-> "live"]
          /\ task' = [task EXCEPT ![w] = t]
          /\ Step(w, "idle", "drop") /\ UNCHANGED <<cur, doc>>
      BY <1>10, <2>2 DEF Begin
    <3>2. t.kind = "rebuild" /\ t.epoch = row.epoch + 1 /\ t.fp = t.target /\ t.deletes = {}
      BY DEF Idle
    <3> HIDE DEF t
    <3>3. Others(w) /\ task'[w] = t /\ pc'[w] = "drop"
      BY <3>1, StepMoves
    <3>4. OwnerOf(w)'
      BY <3>1, <3>2, <3>3 DEF OwnerOf, HoldsRebuild
    <3>5. ASSUME NEW v \in Workers \ {w}
          PROVE  OwnerOf(v)' /\ task'[v].kind # "rebuild"
      <4>1. OwnerOf(v) /\ task[v].kind # "rebuild"
        BY <3>1 DEF OwnerInv, OwnerOf, HoldsRebuild
      <4>2. task[v].epoch \in Nat /\ row.epoch \in Nat
        BY ConstantsAssumption DEF TaskOK, Tasks, RowOK
      <4> QED
        BY <3>1, <3>3, <4>1, <4>2 DEF OwnerOf, Others
    <3> QED
      BY <3>4, <3>5 DEF OwnerInv
  <2> QED
    BY <2>1, <2>2
<1>11. CASE Release(w) \/ Complete(w)
  <2>1. task[w].kind = "rebuild" /\ EndTask(w)
    BY <1>0, <1>11 DEF Release, Complete, OwnerOf
  <2>2. row'.epoch = row.epoch
    BY <1>11 DEF Release, Complete, RowOK
  <2> QED
    BY <2>1, <2>2, RowReleased
<1>12. CASE IndexChanged(w)
  BY <1>12, OwnerFails DEF IndexChanged
<1> QED
  BY <1>1, <1>2, <1>3, <1>4, <1>5, <1>6, <1>7, <1>8, <1>9, <1>10, <1>11, <1>12
  DEF Work, Loop, ProcessJob, Rebuild

LEMMA OwnerStep == TypeInv /\ OwnerInv /\ [Next]_vars => OwnerInv'
<1> SUFFICES ASSUME TypeInv, OwnerInv, [Next]_vars
             PROVE  OwnerInv'
  OBVIOUS
<1> USE DEF TypeInv, shared, worker, qdrant, RebuildPcs, JobPcs
<1>1. ASSUME NEW w \in Workers, Work(w)
      PROVE  OwnerInv'
  BY <1>1, OwnerWork
<1>2. CASE UNCHANGED <<row, pc, task, cur>>
  BY <1>2 DEF OwnerInv, OwnerOf, HoldsRebuild
<1>3. ASSUME NEW w \in Workers, EndTask(w), UNCHANGED row
      PROVE  OwnerInv'
  <2>1. OwnerOf(w)'
    BY <1>3, EndTaskIdles DEF OwnerOf
  <2> QED
    BY <1>3, <2>1, EndTaskIdles, OwnerKept
<1>4. ASSUME NEW w \in Workers, AbandonJob(w)
      PROVE  OwnerInv'
  <2> DEFINE t == [task[w] EXCEPT !.todo = @ \ {cur[w]}]
  <2>1. task' = [task EXCEPT ![w] = t] /\ Step(w, pc[w], "next") /\ UNCHANGED <<cur, doc, row>>
    BY <1>4 DEF AbandonJob
  <2>2. t.kind = task[w].kind /\ t.epoch = task[w].epoch
    BY DEF TaskOK, Tasks
  <2> HIDE DEF t
  <2>3. Others(w) /\ task'[w] = t /\ pc'[w] = "next"
    BY <2>1, StepMoves
  <2>4. OwnerOf(w)'
    BY <1>4, <2>1, <2>2, <2>3 DEF OwnerOf, OwnerInv, AbandonJob
  <2> QED
    BY <1>4, <2>1, <2>2, <2>3, <2>4, OwnerKept
<1>5. ASSUME NEW w \in Workers, OperationFails(w)
      PROVE  OwnerInv'
  BY <1>2, <1>3, <1>4, <1>5, OwnerFails DEF OperationFails, AbandonRebuild
<1>6. ASSUME NEW d \in Admins, SaveMark(d)
      PROVE  OwnerInv'
  <2>1. row'.epoch = row.epoch /\ row'.lease \in {row.lease, "none"}
        /\ (row.status = "rebuilding" => row'.status = "rebuilding" /\ row'.lease = row.lease)
        /\ (row'.status = "rebuilding" => row.status = "rebuilding")
    BY <1>6 DEF SaveMark, Mark, RowOK
  <2>2. UNCHANGED <<pc, task, cur>>
    BY <1>6 DEF SaveMark
  <2> QED
    BY <2>1, <2>2 DEF OwnerInv, OwnerOf, HoldsRebuild
<1>7. CASE RebuildLeaseExpires
  <2>1. \A w \in Workers : task[w].kind # "rebuild"
    BY <1>7 DEF RebuildLeaseExpires, OwnerInv, OwnerOf, HoldsRebuild
  <2>2. row'.epoch = row.epoch /\ row'.status = row.status /\ UNCHANGED <<pc, task>>
    BY <1>7 DEF RebuildLeaseExpires, RowOK
  <2> QED
    BY <2>1, <2>2 DEF OwnerInv, OwnerOf
<1> QED
  BY <1>1, <1>2, <1>3, <1>5, <1>6, <1>7
  DEF Next, StartQueued, AdminRebuild, Crash, SaveRead, Save, SaveWrite, SaveStart, SaveFails,
      Edit, TimePasses, JobLeaseExpires, vars

-----------------------------------------------------------------------------
(* The jobs of scheduled articles.                                         *)

LEMMA ScheduledKept ==
  ASSUME SiteOK, ScheduledInv,
         \A a \in Articles : art'[a].vis = "scheduled" =>
           \/ art[a].vis = "scheduled" /\ (job[a].lease = None => job'[a] = job[a])
           \/ job'[a] # NoJob /\ job'[a].lease = None
  PROVE  ScheduledInv'
BY DEF ScheduledInv

LEMMA ScheduledStep == TypeInv /\ ScheduledInv /\ [Next]_vars => ScheduledInv'
<1> SUFFICES ASSUME TypeInv, ScheduledInv, [Next]_vars
             PROVE  ScheduledInv'
  OBVIOUS
<1> USE DEF TypeInv
<1>1. CASE UNCHANGED <<art, job>>
  BY <1>1 DEF ScheduledInv
<1>2. ASSUME NEW w \in Workers, ClaimJobs(w)
      PROVE  ScheduledInv'
  BY <1>2 DEF ClaimJobs, Claimable, ScheduledInv, SiteOK
<1>3. ASSUME NEW w \in Workers, FinishJob(w) \/ LeaveJob(w), UNCHANGED art
      PROVE  ScheduledInv'
  <2>1. \A a \in Articles : job[a].lease = None => ~HasClaim(w, a)
    BY ConstantsAssumption DEF HasClaim
  <2>2. \A a \in Articles : job[a].lease = None => job'[a] = job[a]
    BY <1>3, <2>1 DEF FinishJob, LeaveJob, SiteOK
  <2> QED
    BY <1>3, <2>2, ScheduledKept
<1>4. ASSUME NEW w \in Workers, Fails(w)
      PROVE  ScheduledInv'
  BY <1>1, <1>3, <1>4 DEF Fails, FailRebuild
<1>5. ASSUME NEW w \in Workers, OperationFails(w)
      PROVE  ScheduledInv'
  BY <1>1, <1>4, <1>5 DEF OperationFails, AbandonJob, AbandonRebuild, shared
<1>6. ASSUME NEW a \in Articles, Edit(a)
      PROVE  ScheduledInv'
  BY <1>6, NoJobAssumption, ConstantsAssumption DEF Edit, ScheduledInv, SiteOK, Jobs, Operation
<1>7. ASSUME NEW a \in Articles, TimePasses(a)
      PROVE  ScheduledInv'
  BY <1>7 DEF TimePasses, ScheduledInv, SiteOK
<1>8. ASSUME NEW a \in Articles, JobLeaseExpires(a)
      PROVE  ScheduledInv'
  BY <1>8 DEF JobLeaseExpires, ScheduledInv, SiteOK
<1>9. ASSUME NEW w \in Workers, Work(w)
      PROVE  ScheduledInv'
  <2>1. CASE ClaimJobs(w) \/ FinishJob(w) \/ IndexChanged(w)
    BY <1>2, <1>3, <1>4, <2>1 DEF FinishJob, IndexChanged
  <2>2. CASE ~(ClaimJobs(w) \/ FinishJob(w) \/ IndexChanged(w))
    BY <1>1, <1>9, <2>2
    DEF Work, Loop, ProcessJob, Rebuild, Poll, ReadState, EndBatch, NextJob, AssertIndexState,
        ReadArticle, DeletePoints, Upsert, Begin, DropCollection, CreateCollection,
        ListPublicArticles, AllIndexed, ReadLatestSettings, Release, Complete, shared
  <2> QED
    BY <2>1, <2>2
<1> QED
  BY <1>1, <1>5, <1>6, <1>7, <1>8, <1>9
  DEF Next, StartQueued, AdminRebuild, Crash, SaveRead, Save, SaveWrite, SaveMark, SaveStart,
      SaveFails, RebuildLeaseExpires, vars, shared

-----------------------------------------------------------------------------
(* What a rebuild has achieved.                                            *)

LEMMA BuildKept ==
  ASSUME NEW v \in Workers, BuildOf(v), Typed(v),
         pc'[v] = pc[v], task'[v] = task[v], cur'[v] = cur[v], doc'[v] = doc[v],
         exists' = exists, Searchable' = Searchable,
         \A a \in Articles : Pending(a) => Pending(a)',
         \A a \in Articles : Wanted(a)' = Wanted(a) \/ Pending(a)'
  PROVE  BuildOf(v)'
<1> USE DEF JobPcs
<1>1. \A a \in Articles : Indexed(a)' = Indexed(a) /\ (Settled(a) => Settled(a)')
  BY DEF Indexed, Settled
<1>2. pc[v] \in JobPcs => cur[v] \in Articles /\ (Fresh(v) => Fresh(v)')
  BY DEF Typed, Fresh, Fetched
<1> QED
  BY <1>1, <1>2 DEF BuildOf, Listed, Closing

\* A step of w that takes no job away and writes nothing at the row's epoch.
LEMMA OthersBuild ==
  ASSUME TypeInv, OwnerInv, BuildInv, NEW w \in Workers, Others(w),
         exists' = exists, Searchable' = Searchable, art' = art,
         \A a \in Articles : Pending(a) => Pending(a)'
  PROVE  \A v \in Workers \ {w} : task'[v].kind = "rebuild" => BuildOf(v)'
<1> SUFFICES ASSUME NEW v \in Workers \ {w}, task'[v].kind = "rebuild"
             PROVE  BuildOf(v)'
  OBVIOUS
<1>1. BuildOf(v) /\ Typed(v)
  BY DEF BuildInv, Others, TypeInv, TaskOK
<1>2. \A a \in Articles : Wanted(a)' = Wanted(a)
  BY DEF Wanted
<1> QED
  BY <1>1, <1>2, BuildKept DEF Others

LEMMA JobsKept ==
  ASSUME NEW w \in Workers, Others(w), UNCHANGED job, Finishing(w)' => Finishing(w)
  PROVE  \A a \in Articles : Pending(a) => Pending(a)'
BY DEF Pending, HasClaim, Finishing, Others

\* The job of b is without a claim afterwards, or new.
LEMMA Unclaimed ==
  ASSUME SiteOK, NEW w \in Workers, Others(w), ~Finishing(w)', NEW b \in Articles,
         \A a \in Articles \ {b} : job'[a] = job[a],
         job[b] # NoJob => job'[b] # NoJob /\ job'[b].lease = None
  PROVE  \A a \in Articles : Pending(a) => Pending(a)'
BY ConstantsAssumption DEF Pending, HasClaim, Finishing, Others

LEMMA BuildFails ==
  ASSUME TypeInv, OwnerInv, BuildInv, NEW w \in Workers, Fails(w)
  PROVE  BuildInv'
<1> USE DEF TypeInv
<1>1. row'.epoch = row.epoch
  BY DEF Fails, FailRebuild, RowOK
<1>2. Searchable' = Searchable /\ exists' = exists /\ art' = art
  BY <1>1 DEF Fails, Searchable, qdrant
<1>3. CASE FailRebuild(w)
  <2>1. Others(w) /\ task'[w].kind = "none" /\ ~Finishing(w)'
    BY <1>3, EndTaskIdles DEF FailRebuild
  <2>2. UNCHANGED job
    BY <1>3 DEF FailRebuild
  <2> QED
    BY <1>2, <2>1, <2>2, JobsKept, OthersBuild DEF BuildInv
<1>4. CASE task[w].kind = "outbox" /\ LeaveJob(w)
  <2> DEFINE t == [task[w] EXCEPT !.todo = @ \ {cur[w]}]
  <2>1. task' = [task EXCEPT ![w] = t] /\ Step(w, pc[w], "next") /\ UNCHANGED <<cur, doc>>
    BY <1>4 DEF LeaveJob
  <2>2. t.kind = "outbox"
    BY <1>4 DEF TaskOK, Tasks
  <2> HIDE DEF t
  <2>3. Others(w) /\ task'[w].kind = "outbox" /\ ~Finishing(w)'
    BY <2>1, <2>2, StepMoves
  <2>4. cur[w] \in Articles
    BY <1>4 DEF LeaveJob, TaskOK, Typed
  <2>5. \A a \in Articles \ {cur[w]} : job'[a] = job[a]
    BY <1>4 DEF LeaveJob, SiteOK
  <2>6. CASE HasClaim(w, cur[w])
    <3>1. job'[cur[w]] # NoJob /\ job'[cur[w]].lease = None
      BY <1>4, <2>4, <2>6, NoJobAssumption DEF LeaveJob, SiteOK, HasClaim, Jobs
    <3>2. \A a \in Articles : Pending(a) => Pending(a)'
      BY <2>3, <2>4, <2>5, <3>1, Unclaimed
    <3> QED
      BY <1>2, <2>3, <3>2, OthersBuild DEF BuildInv
  <2>7. CASE ~HasClaim(w, cur[w])
    BY <1>2, <1>4, <2>3, <2>7, JobsKept, OthersBuild DEF BuildInv, LeaveJob
  <2> QED
    BY <2>6, <2>7
<1> QED
  BY <1>3, <1>4 DEF Fails

\* A step of w that ends its task or belongs to no rebuild.
LEMMA BuildLoop ==
  ASSUME TypeInv, OwnerInv, BuildInv, NEW w \in Workers, Loop(w)
  PROVE  BuildInv'
<1> USE DEF TypeInv, shared, qdrant
<1>1. Searchable' = Searchable /\ exists' = exists /\ art' = art
  BY DEF Loop, Poll, ReadState, ClaimJobs, EndBatch, Searchable
<1>2. OwnerOf(w)
  BY DEF OwnerInv
<1>3. CASE Poll(w)
  <2> DEFINE t == [task[w] EXCEPT !.fp = settings.fp]
  <2>1. task' = [task EXCEPT ![w] = t] /\ Step(w, "idle", "state") /\ UNCHANGED <<cur, doc, job>>
    BY <1>3 DEF Poll
  <2>2. t.kind = task[w].kind
    BY DEF TaskOK, Tasks
  <2> HIDE DEF t
  <2>3. Others(w) /\ task'[w].kind = "none" /\ ~Finishing(w)'
    BY <1>2, <2>1, <2>2, StepMoves DEF OwnerOf
  <2> QED
    BY <1>1, <2>1, <2>3, JobsKept, OthersBuild DEF BuildInv
<1>4. CASE ReadState(w)
  <2>1. Others(w) /\ task'[w].kind # "rebuild" /\ ~Finishing(w)'
    <3>1. CASE EndTask(w)
      BY <3>1, EndTaskIdles
    <3>2. CASE ~EndTask(w)
      <4> DEFINE t == [task[w] EXCEPT !.kind = "outbox", !.epoch = row.epoch, !.target = row.fp]
      <4>1. task' = [task EXCEPT ![w] = t] /\ Step(w, "state", "claim") /\ UNCHANGED <<cur, doc>>
        BY <1>4, <3>2 DEF ReadState
      <4>2. t.kind = "outbox"
        BY DEF TaskOK, Tasks
      <4> HIDE DEF t
      <4> QED
        BY <4>1, <4>2, StepMoves
    <3> QED
      BY <3>1, <3>2
  <2>2. UNCHANGED job
    BY <1>4 DEF ReadState
  <2> QED
    BY <1>1, <2>1, <2>2, JobsKept, OthersBuild DEF BuildInv
<1>5. CASE ClaimJobs(w)
  <2>1. PICK batch \in SUBSET Claimable :
          /\ job' = [a \in Articles |-> IF a \in batch THEN [job[a] EXCEPT !.lease = w] ELSE job[a]]
          /\ task' = [task EXCEPT ![w].todo = batch,
                                  ![w].deletes = {a \in batch : job[a].op = "delete"}]
    BY <1>5 DEF ClaimJobs
  <2> DEFINE t == [task[w] EXCEPT !.todo = batch, !.deletes = {a \in batch : job[a].op = "delete"}]
  <2>2. task' = [task EXCEPT ![w] = t] /\ Step(w, "claim", "next") /\ UNCHANGED <<cur, doc>>
    BY <1>5, <2>1 DEF ClaimJobs
  <2>3. t.kind = task[w].kind
    BY DEF TaskOK, Tasks
  <2> HIDE DEF t
  <2>4. Others(w) /\ task'[w].kind # "rebuild" /\ ~Finishing(w)'
    BY <1>2, <2>2, <2>3, StepMoves DEF OwnerOf
  <2>5. \A a \in Articles : /\ job[a] # NoJob => job'[a] # NoJob
                            /\ \A v \in Workers \ {w} : HasClaim(v, a)' => HasClaim(v, a)
    BY <2>1, NoJobAssumption DEF HasClaim, SiteOK, Jobs, Claimable
  <2>6. \A a \in Articles : Pending(a) => Pending(a)'
    BY <2>4, <2>5 DEF Pending, Others, Finishing
  <2> QED
    BY <1>1, <2>4, <2>6, OthersBuild DEF BuildInv
<1>6. CASE EndBatch(w)
  <2>1. Others(w) /\ task'[w].kind = "none" /\ ~Finishing(w)' /\ UNCHANGED job
    BY <1>6, EndTaskIdles DEF EndBatch
  <2> QED
    BY <1>1, <2>1, JobsKept, OthersBuild DEF BuildInv
<1> QED
  BY <1>3, <1>4, <1>5, <1>6 DEF Loop

\* What w writes or deletes at another epoch cannot be searched.
LEMMA OtherEpoch ==
  ASSUME TypeInv, NEW w \in Workers, DeletePoints(w) \/ Upsert(w), task[w].epoch # row.epoch
  PROVE  Searchable' = Searchable
<1>1. row' = row
  BY DEF DeletePoints, Upsert
<1>2. CASE DeletePoints(w)
  BY <1>1, <1>2 DEF DeletePoints, Searchable
<1>3. CASE Upsert(w)
  <2> DEFINE q == [article |-> cur[w], epoch |-> task[w].epoch, content |-> doc[w], fp |-> task[w].fp]
  <2>1. coll' = {o \in coll : [o EXCEPT !.fp = q.fp] # q} \cup {q}
    BY <1>3 DEF Upsert
  <2>2. \A o \in coll : [o EXCEPT !.fp = q.fp] = q => o.epoch = task[w].epoch
    BY DEF TypeInv, SiteOK, Points
  <2> QED
    BY <1>1, <2>1, <2>2 DEF Searchable
<1> QED
  BY <1>2, <1>3

LEMMA BuildJob ==
  ASSUME TypeInv, OwnerInv, BuildInv, NEW w \in Workers, ProcessJob(w)
  PROVE  BuildInv'
<1> USE DEF TypeInv, shared, qdrant, JobPcs
<1>0. OwnerOf(w) /\ Typed(w)
  BY DEF OwnerInv, TaskOK
<1>1. art' = art /\ exists' = exists /\ row' = row
  BY DEF ProcessJob, NextJob, AssertIndexState, ReadArticle, DeletePoints, Upsert, FinishJob
<1>2. CASE NextJob(w)
  <2>1. PICK a \in task[w].todo : cur' = [cur EXCEPT ![w] = a]
    BY <1>2 DEF NextJob
  <2>2. Step(w, "next", "read") /\ UNCHANGED <<task, doc, job, coll>>
    BY <1>2 DEF NextJob
  <2>3. Others(w) /\ ~Finishing(w)' /\ pc[w] = "next" /\ pc'[w] = "read" /\ cur'[w] = a
    BY <2>1, <2>2, StepMoves
  <2>4. Searchable' = Searchable
    BY <1>1, <2>2 DEF Searchable
  <2>5. \A b \in Articles : Pending(b) => Pending(b)'
    BY <2>2, <2>3, JobsKept
  <2>6. task[w].kind = "rebuild" => BuildOf(w)'
    <3>1. \A b \in Articles : Settled(b) => Settled(b)'
      BY <1>1, <2>4, <2>5 DEF Settled, Indexed, Wanted
    <3> QED
      BY <1>1, <2>2, <2>3, <2>4, <3>1 DEF BuildInv, BuildOf, Listed, Closing
  <2> QED
    BY <1>1, <2>2, <2>3, <2>4, <2>5, <2>6, OthersBuild DEF BuildInv
<1>3. CASE AssertIndexState(w)
  <2>1. /\ sure' = [sure EXCEPT ![w] = TRUE] /\ UNCHANGED <<pc, task, cur, doc, job, coll>>
        /\ Current(w)
    BY <1>3 DEF AssertIndexState
  <2>2. CASE task[w].kind = "rebuild"
    <3>1. Others(w) /\ ~Finishing(w)'
      BY <2>1, <2>2 DEF Others, TaskOK, Finishing
    <3>2. Searchable' = Searchable
      BY <1>1, <2>1 DEF Searchable
    <3>3. \A b \in Articles : Pending(b) => Pending(b)'
      BY <2>1, <3>1, JobsKept
    <3>4. BuildOf(w)'
      BY <1>0, <1>1, <2>1, <2>2, <3>2, <3>3, BuildKept DEF BuildInv, Wanted
    <3> QED
      BY <1>1, <3>1, <3>2, <3>3, <3>4, OthersBuild DEF BuildInv
  <2>3. CASE task[w].kind # "rebuild"
    BY <2>1, <2>3 DEF Current, BuildInv, OwnerInv, OwnerOf, HoldsRebuild
  <2> QED
    BY <2>2, <2>3
<1>4. CASE ReadArticle(w)
  <2> DEFINE a == cur[w]
             c == IF a \in task[w].deletes \/ art[a].vis # "public" THEN Gone ELSE art[a].content
  <2>1. /\ doc' = [doc EXCEPT ![w] = c]
        /\ Step(w, "read", "delete") /\ UNCHANGED <<task, cur, job, coll>>
    BY <1>4 DEF ReadArticle
  <2> HIDE DEF c
  <2>2. /\ Others(w) /\ ~Finishing(w)' /\ pc[w] = "read" /\ pc'[w] = "delete" /\ doc'[w] = c
    BY <2>1, StepMoves
  <2>3. Searchable' = Searchable
    BY <1>1, <2>1 DEF Searchable
  <2>4. \A b \in Articles : Pending(b) => Pending(b)'
    BY <2>1, <2>2, JobsKept
  <2>5. task[w].kind = "rebuild" => BuildOf(w)'
    <3> HAVE task[w].kind = "rebuild"
    <3>1. \A b \in Articles : Settled(b) => Settled(b)'
      BY <1>1, <2>3, <2>4 DEF Settled, Indexed, Wanted
    <3>2. a \in Articles /\ task[w].deletes = {}
      BY <1>0, <2>2 DEF OwnerOf, Typed
    <3>3. art[a].content # Gone
      BY <3>2, ConstantsAssumption DEF SiteOK
    <3>4. Fetched(w)' = Wanted(a)'
      BY <1>1, <2>1, <2>2, <3>2, <3>3 DEF Fetched, Wanted, c
    <3>5. Fresh(w)'
      BY <2>1, <3>4 DEF Fresh
    <3> QED
      BY <1>1, <2>1, <2>2, <2>3, <3>1, <3>5 DEF BuildInv, BuildOf, Listed, Closing
  <2> QED
    BY <1>1, <2>1, <2>2, <2>3, <2>4, <2>5, OthersBuild DEF BuildInv
<1>5. CASE DeletePoints(w) \/ Upsert(w)
  <2>1. Others(w) /\ ~Finishing(w)' /\ UNCHANGED <<task, cur, doc, job>>
    BY <1>5, StepMoves DEF DeletePoints, Upsert
  <2>2. \A b \in Articles : Pending(b) => Pending(b)'
    BY <2>1, JobsKept
  <2>3. CASE task[w].kind # "rebuild"
    <3>1. task[w].kind = "outbox"
      BY <1>0, <1>5, <2>3 DEF DeletePoints, Upsert, Step, OwnerOf
    <3>2. CASE row.status = "rebuilding"
      <4>1. task[w].epoch # row.epoch
        BY <1>0, <3>1, <3>2, ConstantsAssumption DEF OwnerOf, TaskOK, Tasks, RowOK
      <4> QED
        BY <1>1, <1>5, <2>1, <2>2, <2>3, <4>1, OtherEpoch, OthersBuild DEF BuildInv
    <3>3. CASE row.status # "rebuilding"
      BY <2>1, <3>3 DEF BuildInv, OwnerInv, OwnerOf, HoldsRebuild
    <3> QED
      BY <3>2, <3>3
  <2>4. CASE task[w].kind = "rebuild"
    <3>1. task[w].epoch = row.epoch /\ BuildOf(w) /\ cur[w] \in Articles /\ cur[w] \in task[w].todo
      BY <1>0, <1>5, <2>4 DEF OwnerOf, HoldsRebuild, BuildInv, BuildOf, DeletePoints, Upsert, Step, Typed
    <3>2. \A b \in Articles : Wanted(b)' = Wanted(b)
      BY <1>1 DEF Wanted
    <3>3. \A v \in Workers : task'[v].kind = "rebuild" => v = w
      BY <2>1, <2>4 DEF OwnerInv
    <3>4. CASE DeletePoints(w)
      <4>1. pc[w] = "delete" /\ pc'[w] = IF doc[w] = Gone THEN "done" ELSE "upsert"
        BY <3>4, StepMoves DEF DeletePoints
      <4>2. Searchable' = {q \in Searchable : q.article # cur[w]}
        BY <1>1, <3>1, <3>4 DEF DeletePoints, Searchable
      <4>3. Indexed(cur[w])' = {} /\ \A b \in Articles \ {cur[w]} : Indexed(b)' = Indexed(b)
        BY <2>1, <4>2 DEF Indexed
      <4>4. \A b \in Articles \ task[w].todo : Settled(b)'
        BY <2>2, <3>1, <3>2, <4>1, <4>3 DEF BuildOf, Listed, Settled
      <4>5. Fresh(w)'
        BY <2>1, <2>2, <3>1, <3>2, <4>1 DEF BuildOf, Fresh, Fetched
      <4>6. doc[w] = Gone => Settled(cur[w])'
        BY <2>1, <4>3, <4>5 DEF Fresh, Fetched, Settled
      <4>7. BuildOf(w)'
        BY <1>1, <2>1, <3>1, <4>1, <4>2, <4>3, <4>4, <4>5, <4>6 DEF BuildOf, Listed, Closing
      <4> QED
        BY <3>3, <4>7 DEF BuildInv
    <3>5. CASE Upsert(w)
      <4> DEFINE q == [article |-> cur[w], epoch |-> task[w].epoch, content |-> doc[w], fp |-> task[w].fp]
      <4>1. pc[w] = "upsert" /\ pc'[w] = "done" /\ Indexed(cur[w]) = {} /\ doc[w] # Gone
        BY <3>1, <3>5, StepMoves DEF Upsert, BuildOf
      <4>2. coll' = {o \in coll : [o EXCEPT !.fp = q.fp] # q} \cup {q}
        BY <3>5 DEF Upsert
      <4>3. \A o \in coll : [o EXCEPT !.fp = q.fp] = q => o.article = cur[w] /\ o.epoch = row.epoch
        BY <3>1 DEF SiteOK, Points
      <4>4. \A o \in Searchable : o.article # cur[w]
        BY <4>1 DEF Indexed
      <4>5. Searchable' = Searchable \cup {q}
        BY <1>1, <3>1, <4>2, <4>3, <4>4 DEF Searchable
      <4>6. q.article = cur[w] /\ q.content = doc[w] /\ q.fp = task[w].fp
        OBVIOUS
      <4> HIDE DEF q
      <4>7. Indexed(cur[w])' = {doc[w]} /\ \A b \in Articles \ {cur[w]} : Indexed(b)' = Indexed(b)
        BY <2>1, <4>4, <4>5, <4>6 DEF Indexed
      <4>8. \A b \in Articles \ task[w].todo : Settled(b)'
        BY <2>2, <3>1, <3>2, <4>1, <4>7 DEF BuildOf, Listed, Settled
      <4>9. Settled(cur[w])'
        BY <2>1, <2>2, <3>1, <3>2, <4>1, <4>7 DEF BuildOf, Fresh, Fetched, Settled
      <4>10. BuildOf(w)'
        BY <1>1, <2>1, <3>1, <4>1, <4>5, <4>6, <4>8, <4>9 DEF BuildOf, Listed, Closing
      <4> QED
        BY <3>3, <4>10 DEF BuildInv
    <3> QED
      BY <1>5, <3>4, <3>5
  <2> QED
    BY <2>3, <2>4
<1>6. CASE FinishJob(w)
  <2> DEFINE t == [task[w] EXCEPT !.todo = @ \ {cur[w]}]
  <2>1. /\ task' = [task EXCEPT ![w] = t] /\ Step(w, "done", "next") /\ UNCHANGED <<cur, doc, coll>>
        /\ sure[w]
    BY <1>6 DEF FinishJob
  <2>2. t.kind = task[w].kind /\ t.todo = task[w].todo \ {cur[w]} /\ t.fp = task[w].fp
    BY DEF TaskOK, Tasks
  <2> HIDE DEF t
  <2>3. Others(w) /\ ~Finishing(w)' /\ pc[w] = "done" /\ pc'[w] = "next" /\ task'[w] = t
    BY <2>1, StepMoves
  <2>4. Searchable' = Searchable
    BY <1>1, <2>1 DEF Searchable
  <2>5. cur[w] \in Articles
    BY <1>0, <2>3 DEF Typed
  <2>6. \A b \in Articles : Pending(b) => Pending(b)'
    <3>1. CASE task[w].kind = "outbox" /\ HasClaim(w, cur[w])
      <4>1. ~Pending(cur[w])
        BY <2>1, <2>3, <3>1 DEF Pending, Finishing
      <4>2. \A b \in Articles \ {cur[w]} : job'[b] = job[b]
        BY <1>6, <3>1 DEF FinishJob, SiteOK
      <4> QED
        BY <2>3, <4>1, <4>2 DEF Pending, HasClaim, Finishing, Others
    <3>2. CASE ~(task[w].kind = "outbox" /\ HasClaim(w, cur[w]))
      BY <1>6, <2>3, <3>2, JobsKept DEF FinishJob
    <3> QED
      BY <3>1, <3>2
  <2>7. task[w].kind = "rebuild" => BuildOf(w)'
    <3>1. \A b \in Articles : Settled(b) => Settled(b)'
      BY <1>1, <2>4, <2>6 DEF Settled, Indexed, Wanted
    <3> QED
      BY <1>1, <2>2, <2>3, <2>4, <3>1 DEF BuildInv, BuildOf, Listed, Closing
  <2> QED
    BY <1>1, <2>2, <2>3, <2>4, <2>6, <2>7, OthersBuild DEF BuildInv
<1> QED
  BY <1>2, <1>3, <1>4, <1>5, <1>6 DEF ProcessJob

LEMMA BuildRebuild ==
  ASSUME TypeInv, OwnerInv, OwnerInv', BuildInv, NEW w \in Workers, Rebuild(w)
  PROVE  BuildInv'
<1> USE DEF TypeInv, shared, qdrant, JobPcs, RebuildPcs
<1>0. OwnerOf(w)
  BY DEF OwnerInv
<1>1. CASE Begin(w) \/ Release(w) \/ Complete(w)
  <2>1. CASE EndTask(w) /\ row'.epoch = row.epoch
    <3>1. Others(w) /\ task'[w].kind = "none" /\ ~Finishing(w)'
      BY <2>1, EndTaskIdles
    <3>2. Searchable' = Searchable /\ UNCHANGED <<exists, art, job>>
      BY <1>1, <2>1 DEF Begin, Release, Complete, Searchable
    <3> QED
      BY <3>1, <3>2, JobsKept, OthersBuild DEF BuildInv
  <2>2. CASE ~(EndTask(w) /\ row'.epoch = row.epoch)
    <3>1. Begin(w)
      BY <1>1, <2>2 DEF Release, Complete, RowOK
    <3> DEFINE t == [Idle EXCEPT !.kind = "rebuild", !.epoch = row.epoch + 1,
                                 !.target = asked[w], !.fp = asked[w]]
    <3>2. task' = [task EXCEPT ![w] = t] /\ Step(w, "idle", "drop") /\ UNCHANGED <<cur, doc>>
      BY <2>2, <3>1 DEF Begin
    <3>3. t.kind = "rebuild"
      BY DEF Idle
    <3> HIDE DEF t
    <3>4. task'[w].kind = "rebuild" /\ pc'[w] = "drop"
      BY <3>2, <3>3, StepMoves
    <3>5. \A v \in Workers : task'[v].kind = "rebuild" => v = w
      BY <3>4 DEF OwnerInv
    <3>6. BuildOf(w)'
      BY <3>4 DEF BuildOf, Listed, Closing
    <3> QED
      BY <3>5, <3>6 DEF BuildInv
  <2> QED
    BY <2>1, <2>2
<1>2. CASE ~(Begin(w) \/ Release(w) \/ Complete(w))
  <2>1. task[w].kind = "rebuild" /\ UNCHANGED <<row, art, job, cur, doc>>
    BY <1>0, <1>2
    DEF Rebuild, DropCollection, CreateCollection, ListPublicArticles, AllIndexed,
        ReadLatestSettings, Step, OwnerOf
  <2>2. \A v \in Workers : task[v].kind = "rebuild" => v = w
    BY <2>1 DEF OwnerInv
  <2>3. BuildOf(w)
    BY <2>1 DEF BuildInv
  <2>4. CASE DropCollection(w) \/ CreateCollection(w)
    <3>1. UNCHANGED task /\ pc'[w] \in {"create", "list"}
      BY <2>4, StepMoves DEF DropCollection, CreateCollection
    <3>2. pc'[w] = "list" => exists' /\ Searchable' = {}
      BY <2>4, StepMoves DEF DropCollection, CreateCollection, Searchable
    <3>3. BuildOf(w)'
      BY <3>1, <3>2 DEF BuildOf, Listed, Closing
    <3> QED
      BY <2>2, <3>1, <3>3 DEF BuildInv
  <2>5. CASE ListPublicArticles(w)
    <3> DEFINE t == [task[w] EXCEPT !.todo = {a \in Articles : art[a].vis = "public"}]
    <3>1. /\ task' = [task EXCEPT ![w] = t] /\ Step(w, "list", "next")
          /\ UNCHANGED <<coll, exists>>
      BY <2>5 DEF ListPublicArticles
    <3>2. t.todo = {a \in Articles : art[a].vis = "public"} /\ t.kind = task[w].kind
      BY DEF TaskOK, Tasks
    <3> HIDE DEF t
    <3>3. pc[w] = "list" /\ pc'[w] = "next" /\ task'[w] = t /\ Others(w)
      BY <2>1, <3>1, StepMoves
    <3>4. exists' /\ Searchable' = {}
      BY <2>1, <2>3, <3>1, <3>3 DEF BuildOf, Searchable
    <3>5. \A a \in Articles \ t.todo : Settled(a)'
      BY <2>1, <3>2, <3>4 DEF Settled, Indexed, Wanted
    <3>6. BuildOf(w)'
      BY <3>3, <3>4, <3>5 DEF BuildOf, Listed, Closing
    <3> QED
      BY <2>2, <3>3, <3>6 DEF BuildInv, Others
  <2>6. CASE AllIndexed(w) \/ ReadLatestSettings(w)
    <3>1. /\ UNCHANGED <<task, coll, exists>> /\ Others(w) /\ ~Finishing(w)'
          /\ pc[w] \in {"next", "settle"} /\ pc'[w] \in Closing
      BY <2>1, <2>6, StepMoves DEF AllIndexed, ReadLatestSettings, Closing
    <3>2. task[w].todo = {}
      BY <2>3, <2>6 DEF AllIndexed, ReadLatestSettings, BuildOf, Closing
    <3>3. Searchable' = Searchable
      BY <2>1, <3>1 DEF Searchable
    <3>4. \A a \in Articles : Settled(a) => Settled(a)'
      BY <2>1, <3>1, <3>3, JobsKept DEF Settled, Indexed, Wanted
    <3>5. BuildOf(w)'
      BY <2>3, <3>1, <3>2, <3>3, <3>4 DEF BuildOf, Listed, Closing
    <3> QED
      BY <2>2, <3>1, <3>5 DEF BuildInv
  <2> QED
    BY <1>2, <2>4, <2>5, <2>6 DEF Rebuild
<1> QED
  BY <1>1, <1>2

\* A step that neither a worker nor the row takes part in.
LEMMA BuildElsewhere ==
  ASSUME TypeInv, BuildInv, UNCHANGED <<pc, task, cur, doc, exists, Searchable>>,
         \A a \in Articles : Pending(a) => Pending(a)',
         \A a \in Articles : Wanted(a)' = Wanted(a) \/ Pending(a)'
  PROVE  BuildInv'
BY BuildKept DEF BuildInv, TypeInv, TaskOK

LEMMA BuildStep == IInv /\ OwnerInv' /\ [Next]_vars => BuildInv'
<1> SUFFICES ASSUME IInv, OwnerInv', [Next]_vars
             PROVE  BuildInv'
  OBVIOUS
<1> USE DEF IInv, shared, worker, qdrant
<1>1. ASSUME NEW w \in Workers, IndexChanged(w)
      PROVE  BuildInv'
  BY <1>1, BuildFails DEF IndexChanged
<1>2. ASSUME UNCHANGED <<pc, task, cur, doc, sure, exists, coll, art, job>>, row'.epoch = row.epoch
      PROVE  BuildInv'
  <2>1. \A a \in Articles : Wanted(a)' = Wanted(a) /\ (Pending(a) => Pending(a)')
    BY <1>2 DEF Wanted, Pending, HasClaim, Finishing
  <2> QED
    BY <1>2, <2>1, BuildElsewhere DEF Searchable
<1>3. ASSUME NEW w \in Workers, EndTask(w), UNCHANGED <<row, art, job, exists, coll>>
      PROVE  BuildInv'
  <2>1. Others(w) /\ task'[w].kind = "none" /\ ~Finishing(w)'
    BY <1>3, EndTaskIdles DEF TypeInv
  <2>2. Searchable' = Searchable
    BY <1>3 DEF Searchable
  <2> QED
    BY <1>3, <2>1, <2>2, JobsKept, OthersBuild DEF BuildInv
<1>4. ASSUME NEW w \in Workers, AbandonJob(w), UNCHANGED <<art, exists, coll>>
      PROVE  BuildInv'
  <2> DEFINE t == [task[w] EXCEPT !.todo = @ \ {cur[w]}]
  <2>1. /\ task' = [task EXCEPT ![w] = t] /\ Step(w, pc[w], "next")
        /\ UNCHANGED <<cur, doc, row, job>> /\ task[w].kind = "outbox"
    BY <1>4 DEF AbandonJob
  <2>2. t.kind = task[w].kind
    BY DEF TypeInv, TaskOK, Tasks
  <2> HIDE DEF t
  <2>3. Others(w) /\ task'[w].kind = "outbox" /\ ~Finishing(w)'
    BY <2>1, <2>2, StepMoves DEF TypeInv
  <2>4. Searchable' = Searchable
    BY <1>4, <2>1 DEF Searchable
  <2> QED
    BY <1>4, <2>1, <2>3, <2>4, JobsKept, OthersBuild DEF BuildInv
<1>5. ASSUME NEW w \in Workers, OperationFails(w)
      PROVE  BuildInv'
  BY <1>2, <1>3, <1>4, <1>5, BuildFails DEF OperationFails, AbandonRebuild
<1>6. ASSUME NEW a \in Articles, Edit(a) \/ TimePasses(a) \/ JobLeaseExpires(a)
      PROVE  BuildInv'
  <2>1. UNCHANGED <<pc, task, cur, doc, sure, exists, coll, row>>
    BY <1>6 DEF Edit, TimePasses, JobLeaseExpires
  <2>2. \A b \in Articles \ {a} : Wanted(b)' = Wanted(b) /\ job'[b] = job[b]
    BY <1>6 DEF Edit, TimePasses, JobLeaseExpires, Wanted, TypeInv, SiteOK
  <2>3. CASE JobLeaseExpires(a)
    <3>1. job'[a] # NoJob /\ job'[a].lease = None /\ art' = art
      BY <2>3, NoJobAssumption DEF JobLeaseExpires, TypeInv, SiteOK, Jobs
    <3>2. Pending(a)' /\ Wanted(a)' = Wanted(a)
      BY <3>1, ConstantsAssumption DEF Pending, HasClaim, Wanted
    <3> QED
      BY <2>1, <2>2, <3>2, BuildElsewhere DEF Pending, HasClaim, Finishing, Searchable
  <2>4. CASE Edit(a)
    <3>1. job'[a] # NoJob /\ job'[a].lease = None
      BY <2>4, NoJobAssumption, ConstantsAssumption DEF Edit, TypeInv, SiteOK, Jobs, Operation
    <3>2. Pending(a)'
      BY <3>1, ConstantsAssumption DEF Pending, HasClaim
    <3> QED
      BY <2>1, <2>2, <3>2, BuildElsewhere DEF Pending, HasClaim, Finishing, Searchable
  <2>5. CASE TimePasses(a)
    <3>1. job'[a] # NoJob /\ job'[a].lease = None
      BY <2>5 DEF TimePasses, ScheduledInv
    <3>2. Pending(a)'
      BY <3>1, ConstantsAssumption DEF Pending, HasClaim
    <3> QED
      BY <2>1, <2>2, <3>2, BuildElsewhere DEF Pending, HasClaim, Finishing, Searchable
  <2> QED
    BY <1>6, <2>3, <2>4, <2>5
<1>7. ASSUME NEW d \in Admins, SaveMark(d)
      PROVE  BuildInv'
  <2>1. row'.epoch = row.epoch
    BY <1>7 DEF SaveMark, Mark, TypeInv, RowOK
  <2> QED
    BY <1>2, <1>7, <2>1 DEF SaveMark
<1>8. CASE RebuildLeaseExpires
  <2>1. row'.epoch = row.epoch
    BY <1>8 DEF RebuildLeaseExpires, TypeInv, RowOK
  <2> QED
    BY <1>2, <1>8, <2>1 DEF RebuildLeaseExpires
<1>9. ASSUME NEW w \in Workers, Work(w)
      PROVE  BuildInv'
  BY <1>1, <1>9, BuildLoop, BuildJob, BuildRebuild DEF Work
<1> QED
  BY <1>2, <1>3, <1>5, <1>6, <1>7, <1>8, <1>9
  DEF Next, StartQueued, AdminRebuild, Crash, SaveRead, Save, SaveWrite, SaveStart, SaveFails, vars

-----------------------------------------------------------------------------
(* The theorems.                                                           *)

LEMMA InitInv == Init => IInv
<1> SUFFICES ASSUME Init
             PROVE  IInv
  OBVIOUS
<1>1. Idle \in Tasks /\ Idle.kind = "none"
  BY ConstantsAssumption DEF Idle, Tasks
<1>2. job \in [Articles -> Jobs] /\ \A a \in Articles : job[a].lease = None
  BY DEF Init, Jobs, Operation
<1>3. row \in [status : Statuses, epoch : 0 .. LastEpoch, fp : Fps \cup {NoFp},
               lease : {"none", "live", "expired"}]
  BY ConstantsAssumption DEF Init, Statuses
<1>4. TaskOK
  BY <1>1 DEF Init, TaskOK, Typed, Pcs, JobPcs
<1>5. TypeInv
  <2>1. RowOK /\ AdmOK
    BY <1>3 DEF Init, RowOK, AdmOK
  <2>2. SiteOK
    BY <1>2 DEF Init, SiteOK, Settings
  <2>3. QueueOK /\ BoundsOK
    BY ConstantsAssumption DEF Init, QueueOK, BoundsOK
  <2> QED
    BY <1>4, <2>1, <2>2, <2>3 DEF TypeInv
<1>6. \A w \in Workers : pc[w] = "idle" /\ task[w].kind = "none"
  BY <1>1 DEF Init
<1>7. OwnerInv /\ BuildInv
  BY <1>6 DEF OwnerInv, OwnerOf, BuildInv, JobPcs, RebuildPcs
<1>8. ScheduledInv
  BY <1>2, NoJobAssumption DEF ScheduledInv
<1> QED
  BY <1>5, <1>7, <1>8 DEF IInv

\* The invariant of rag.go's state row and the worker's rebuild: one owner, whose
\* epoch is the row's, and a collection that is complete but for articles with a job.
THEOREM Invariant == Spec => []IInv
<1>1. IInv /\ [Next]_vars => IInv'
  BY TypeStep, OwnerStep, ScheduledStep, BuildStep DEF IInv
<1> QED
  BY <1>1, InitInv, PTL DEF Spec

\* The state row, the outbox, the points and the workers keep their types.
THEOREM TypeCorrect == Spec => []TypeOK
<1>1. IInv => TypeOK
  BY TypeInvImpliesTypeOK DEF IInv
<1> QED
  BY <1>1, Invariant, PTL

\* Worker.rebuild: no two API processes rebuild the collection at a time, and the
\* one that does holds the row under its own epoch until it gives it up.
OneRebuild == \A v, w \in Workers :
  task[v].kind = "rebuild" /\ task[w].kind = "rebuild" => v = w /\ task[w].epoch = row.epoch

THEOREM RebuildsAreExclusive == Spec => []OneRebuild
<1>1. IInv => OneRebuild
  BY DEF IInv, OwnerInv, OwnerOf, HoldsRebuild, OneRebuild
<1> QED
  BY <1>1, Invariant, PTL

\* A worker whose epoch has passed changes nothing a search can return, however
\* late its calls to Qdrant arrive.
THEOREM StaleWritesAreFenced == Spec => StaleOwnersAreFenced
<1> DEFINE A == \A w \in Workers :
       task[w].kind # "none" /\ task[w].epoch # row.epoch /\ pc'[w] # pc[w] => Searchable' = Searchable
<1>1. ASSUME IInv, Next
      PROVE  A
  <2> SUFFICES ASSUME IInv, Next, NEW w \in Workers, task[w].kind # "none",
                      task[w].epoch # row.epoch, pc'[w] # pc[w]
               PROVE  Searchable' = Searchable
    BY <1>1 DEF A
  <2> USE DEF IInv, shared, qdrant, worker
  <2>1. OwnerOf(w) /\ task[w].kind = "outbox"
    BY DEF OwnerInv, OwnerOf, HoldsRebuild, TypeInv, TaskOK, Tasks
  <2>2. CASE UNCHANGED coll /\ row'.epoch = row.epoch
    BY <2>2 DEF Searchable
  <2>3. ASSUME NEW v \in Workers, Fails(v)
        PROVE  UNCHANGED coll /\ row'.epoch = row.epoch
    BY <2>3 DEF Fails, FailRebuild, TypeInv, RowOK
  <2>4. ASSUME NEW v \in Workers, Work(v)
        PROVE  Searchable' = Searchable
    <3>1. v = w
      <4>1. \A u \in Workers \ {v} : pc'[u] = pc[u]
        BY <2>4 DEF Work, Loop, ProcessJob, Rebuild, IndexChanged, Fails, LeaveJob, FailRebuild, EndTask,
             Step, Poll, ReadState, ClaimJobs, EndBatch, NextJob, AssertIndexState, ReadArticle,
             DeletePoints, Upsert, FinishJob, Begin, DropCollection, CreateCollection,
             ListPublicArticles, AllIndexed, ReadLatestSettings, Release, Complete, TypeInv, TaskOK
      <4> QED
        BY <4>1
    <3>2. CASE Loop(w) \/ NextJob(w) \/ AssertIndexState(w) \/ ReadArticle(w) \/ FinishJob(w)
      BY <2>2, <3>2
      DEF Loop, Poll, ReadState, ClaimJobs, EndBatch, NextJob, AssertIndexState, ReadArticle, FinishJob
    <3>3. CASE DeletePoints(w) \/ Upsert(w)
      BY <3>3, OtherEpoch
    <3>4. CASE Rebuild(w)
      BY <2>1, <3>4
      DEF Rebuild, Begin, DropCollection, CreateCollection, ListPublicArticles, AllIndexed,
          ReadLatestSettings, Release, Complete, Step, OwnerOf, RebuildPcs
    <3>5. CASE IndexChanged(w)
      BY <2>2, <2>3, <3>5 DEF IndexChanged
    <3> QED
      BY <2>4, <3>1, <3>2, <3>3, <3>4, <3>5 DEF Work, ProcessJob
  <2>5. ASSUME NEW v \in Workers, OperationFails(v)
        PROVE  UNCHANGED coll /\ row'.epoch = row.epoch
    BY <2>3, <2>5 DEF OperationFails, AbandonJob, AbandonRebuild
  <2>6. ASSUME NEW d \in Admins, SaveMark(d)
        PROVE  UNCHANGED coll /\ row'.epoch = row.epoch
    BY <2>6 DEF SaveMark, Mark, TypeInv, RowOK
  <2>7. CASE RebuildLeaseExpires
    BY <2>2, <2>7 DEF RebuildLeaseExpires, TypeInv, RowOK
  <2> QED
    BY <2>2, <2>4, <2>5, <2>6, <2>7
    DEF Next, StartQueued, AdminRebuild, Crash, SaveRead, Save, SaveWrite, SaveStart, SaveFails,
        Edit, TimePasses, JobLeaseExpires
<1>2. IInv /\ [Next]_vars => [A]_vars
  BY <1>1
<1> QED
  BY <1>2, Invariant, PTL DEF Spec, StaleOwnersAreFenced

\* A step that makes the row ready is the completion of a full rebuild.
LEMMA ReadyStep ==
  ASSUME IInv, Next, row.status # "ready", row'.status = "ready"
  PROVE  /\ exists
         /\ \A q \in Searchable' : q.fp = row'.fp
         /\ \A a \in Articles : job'[a] = NoJob => Indexed(a)' = Wanted(a)'
<1> USE DEF IInv, shared, qdrant, worker
<1>1. \A v \in Workers : ~Fails(v)
  BY DEF Fails, FailRebuild, TypeInv, RowOK
<1>2. PICK w \in Workers : Work(w)
  BY <1>1
  DEF Next, StartQueued, AdminRebuild, OperationFails, AbandonJob, AbandonRebuild, Crash, SaveRead,
      Save, SaveWrite, SaveMark, Mark, SaveStart, SaveFails, Edit, TimePasses, JobLeaseExpires,
      RebuildLeaseExpires, TypeInv, RowOK
<1>3. Complete(w)
  <2>1. row' # row
    OBVIOUS
  <2>2. ~Loop(w) /\ ~ProcessJob(w) /\ ~IndexChanged(w)
    BY <1>1, <2>1
    DEF Loop, Poll, ReadState, ClaimJobs, EndBatch, ProcessJob, NextJob, AssertIndexState,
        ReadArticle, DeletePoints, Upsert, FinishJob, IndexChanged
  <2>3. ~Begin(w)
    <3>1. Begin(w) => row' = row \/ row' =
            [status |-> "rebuilding", epoch |-> row.epoch + 1, fp |-> asked[w], lease |-> "live"]
      BY DEF Begin
    <3> QED
      BY <2>1, <3>1
  <2>4. ~Release(w)
    BY <2>1 DEF Release, TypeInv, RowOK
  <2> QED
    BY <1>2, <2>1, <2>2, <2>3, <2>4
    DEF Work, Rebuild, DropCollection, CreateCollection, ListPublicArticles, AllIndexed,
        ReadLatestSettings
<1>4. /\ pc[w] = "complete" /\ row.fp = task[w].target
      /\ row' = [row EXCEPT !.status = "ready", !.lease = "none"]
      /\ UNCHANGED <<art, job, exists, coll>>
  BY <1>3 DEF Complete
<1>5. task[w].kind = "rebuild" /\ task[w].fp = task[w].target /\ BuildOf(w)
  BY <1>4 DEF OwnerInv, OwnerOf, RebuildPcs, BuildInv
<1>6. row'.epoch = row.epoch /\ row'.fp = row.fp
  BY <1>4 DEF TypeInv, RowOK
<1>7. Searchable' = Searchable
  BY <1>4, <1>6 DEF Searchable
<1>8. exists /\ (\A q \in Searchable : q.fp = task[w].fp) /\ \A a \in Articles : Settled(a)
  BY <1>4, <1>5 DEF BuildOf, Listed, Closing
<1> QED
  BY <1>4, <1>5, <1>6, <1>7, <1>8 DEF Settled, Pending, Indexed, Wanted

\* CompleteRAGIndexRebuild puts into service only a collection that exists, is in the
\* embedding of the row and has of every article what it should, or a job for it.
THEOREM ReadyIsRebuilt == Spec => ReadyMeansRebuilt
<1> DEFINE A == row.status # "ready" /\ row'.status = "ready" =>
       /\ exists
       /\ \A q \in Searchable' : q.fp = row'.fp
       /\ \A a \in Articles : job'[a] = NoJob => Indexed(a)' = Wanted(a)'
<1>1. IInv /\ [Next]_vars => [A]_vars
  BY ReadyStep
<1> QED
  BY <1>1, Invariant, PTL DEF Spec, ReadyMeansRebuilt

-----------------------------------------------------------------------------
(* The outbox contract with one API process.  With two it fails: a worker  *)
(* whose job an edit took back still writes what it had read, after the    *)
(* worker that processed the new job.                                      *)

OneProcess == \A v, w \in Workers : v = w

\* The outbox asks for what the article needs as it is now.
OperationInv == \A a \in Articles : job[a] # NoJob => job[a].op = Operation(art[a].vis)

\* What a batch knows as long as it holds the claim on an article: no rebuild
\* has come between, and what it read and wrote of it is what the index should have.
BatchOf(w) ==
  /\ row.status # "rebuilding" /\ task[w].epoch = row.epoch
  /\ \A a \in task[w].todo :
       job[a] # NoJob /\ (HasClaim(w, a) => (a \in task[w].deletes <=> art[a].vis = "hidden"))
  /\ pc[w] \in JobPcs => cur[w] \in task[w].todo
  /\ pc[w] \in {"delete", "upsert"} /\ HasClaim(w, cur[w]) => Fetched(w) = Wanted(cur[w])
  /\ pc[w] = "upsert" => doc[w] # Gone /\ Indexed(cur[w]) = {}
  /\ pc[w] = "done" /\ HasClaim(w, cur[w]) => Indexed(cur[w]) = Wanted(cur[w])

TaskInv(w) == /\ task[w].kind = "none" => task[w].todo = {}
              /\ task[w].kind = "outbox" => BatchOf(w)
BatchInv == \A w \in Workers : TaskInv(w)

OutboxInv == IInv /\ OperationInv /\ BatchInv /\ IndexComplete

LEMMA OperationStep == TypeInv /\ OperationInv /\ [Next]_vars => OperationInv'
<1> SUFFICES ASSUME TypeInv, OperationInv, [Next]_vars
             PROVE  OperationInv'
  OBVIOUS
<1> USE DEF TypeInv, shared, qdrant
<1>1. CASE UNCHANGED art /\ \A a \in Articles : job'[a] # NoJob => job[a] # NoJob /\ job'[a].op = job[a].op
  BY <1>1 DEF OperationInv
<1>2. CASE UNCHANGED <<art, job>>
  BY <1>2 DEF OperationInv
<1>3. ASSUME NEW w \in Workers, ClaimJobs(w)
      PROVE  OperationInv'
  BY <1>1, <1>3, NoJobAssumption DEF ClaimJobs, Claimable, SiteOK, Jobs
<1>4. ASSUME NEW w \in Workers, FinishJob(w) \/ LeaveJob(w), UNCHANGED art
      PROVE  OperationInv'
  BY <1>1, <1>4, NoJobAssumption DEF FinishJob, LeaveJob, HasClaim, SiteOK, Jobs
<1>5. ASSUME NEW w \in Workers, Fails(w)
      PROVE  OperationInv'
  BY <1>2, <1>4, <1>5 DEF Fails, FailRebuild
<1>6. ASSUME NEW w \in Workers, OperationFails(w)
      PROVE  OperationInv'
  BY <1>2, <1>5, <1>6 DEF OperationFails, AbandonJob, AbandonRebuild
<1>7. ASSUME NEW a \in Articles, Edit(a)
      PROVE  OperationInv'
  BY <1>7 DEF Edit, OperationInv, SiteOK
<1>8. ASSUME NEW a \in Articles, TimePasses(a)
      PROVE  OperationInv'
  BY <1>8 DEF TimePasses, OperationInv, Operation, SiteOK
<1>9. ASSUME NEW a \in Articles, JobLeaseExpires(a)
      PROVE  OperationInv'
  BY <1>1, <1>9, NoJobAssumption DEF JobLeaseExpires, SiteOK, Jobs
<1>10. ASSUME NEW w \in Workers, Work(w)
       PROVE  OperationInv'
  <2>1. CASE ClaimJobs(w) \/ FinishJob(w) \/ IndexChanged(w)
    BY <1>3, <1>4, <1>5, <2>1 DEF FinishJob, IndexChanged
  <2>2. CASE ~(ClaimJobs(w) \/ FinishJob(w) \/ IndexChanged(w))
    BY <1>2, <1>10, <2>2
    DEF Work, Loop, ProcessJob, Rebuild, Poll, ReadState, EndBatch, NextJob, AssertIndexState,
        ReadArticle, DeletePoints, Upsert, Begin, DropCollection, CreateCollection,
        ListPublicArticles, AllIndexed, ReadLatestSettings, Release, Complete
  <2> QED
    BY <2>1, <2>2
<1> QED
  BY <1>2, <1>6, <1>7, <1>8, <1>9, <1>10
  DEF Next, StartQueued, AdminRebuild, Crash, SaveRead, Save, SaveWrite, SaveMark, SaveStart,
      SaveFails, RebuildLeaseExpires, vars

\* A step that takes no part in a batch: it may take a claim, and changes only
\* articles without one.
LEMMA BatchElsewhere ==
  ASSUME TypeInv, BatchInv, UNCHANGED <<pc, task, cur, doc, coll>>, row'.epoch = row.epoch,
         row'.status = "rebuilding" => row.status = "rebuilding",
         \A a \in Articles : job[a] # NoJob => job'[a] # NoJob,
         \A w \in Workers, a \in Articles : HasClaim(w, a)' => HasClaim(w, a) /\ art'[a] = art[a]
  PROVE  BatchInv'
<1> SUFFICES ASSUME NEW w \in Workers
             PROVE  TaskInv(w)'
  BY DEF BatchInv
<1>1. TaskInv(w) /\ task[w].todo \subseteq Articles
  BY DEF BatchInv, TypeInv, TaskOK, Tasks
<1>2. \A a \in Articles : Indexed(a)' = Indexed(a)
  BY DEF Indexed, Searchable
<1>3. pc[w] \in JobPcs => cur[w] \in Articles
  BY DEF TypeInv, TaskOK, Typed
<1>4. \A a \in Articles : art'[a] = art[a] => Wanted(a)' = Wanted(a)
  BY DEF Wanted
<1>5. CASE task[w].kind = "outbox"
  BY <1>1, <1>2, <1>3, <1>4, <1>5 DEF TaskInv, BatchOf, Fetched, JobPcs
<1> QED
  BY <1>1, <1>5 DEF TaskInv

LEMMA BatchEnds ==
  ASSUME TypeInv, OneProcess, NEW w \in Workers, EndTask(w)
  PROVE  BatchInv'
<1>1. task'[w].kind = "none" /\ task'[w].todo = {}
  BY DEF EndTask, Idle, TypeInv, TaskOK
<1> QED
  BY <1>1 DEF BatchInv, TaskInv, OneProcess

\* The batch puts the job in hand aside, whether or not it keeps its row.
LEMMA BatchSetsAside ==
  ASSUME TypeInv, OneProcess, BatchInv, NEW w \in Workers, task[w].kind = "outbox",
         pc[w] \in JobPcs, pc'[w] = "next",
         task' = [task EXCEPT ![w].todo = @ \ {cur[w]}], UNCHANGED <<row, art, coll>>,
         \A a \in Articles \ {cur[w]} : job'[a] = job[a]
  PROVE  BatchInv'
<1>1. /\ task'[w].kind = "outbox" /\ task'[w].todo = task[w].todo \ {cur[w]}
      /\ task'[w].epoch = task[w].epoch /\ task'[w].deletes = task[w].deletes
  BY DEF TypeInv, TaskOK, Tasks
<1>2. BatchOf(w) /\ task[w].todo \subseteq Articles
  BY DEF BatchInv, TaskInv, TypeInv, TaskOK, Tasks
<1>3. TaskInv(w)'
  BY <1>1, <1>2 DEF TaskInv, BatchOf, HasClaim, JobPcs
<1> QED
  BY <1>3 DEF BatchInv, OneProcess

LEMMA BatchFails ==
  ASSUME TypeInv, OneProcess, BatchInv, NEW w \in Workers, Fails(w)
  PROVE  BatchInv'
<1>1. CASE LeaveJob(w) /\ task[w].kind = "outbox" /\ UNCHANGED row
  <2>1. UNCHANGED <<art, coll>> /\ pc[w] \in JobPcs /\ task' = [task EXCEPT ![w].todo = @ \ {cur[w]}]
    BY <1>1 DEF LeaveJob, Fails, qdrant
  <2>2. pc'[w] = "next"
    BY <1>1 DEF LeaveJob, Step, TypeInv, TaskOK
  <2>3. \A a \in Articles \ {cur[w]} : job'[a] = job[a]
    BY <1>1 DEF LeaveJob, TypeInv, SiteOK
  <2> QED
    BY <1>1, <2>1, <2>2, <2>3, BatchSetsAside
<1>2. CASE FailRebuild(w)
  BY <1>2, BatchEnds DEF FailRebuild
<1> QED
  BY <1>1, <1>2 DEF Fails

LEMMA BatchLoop ==
  ASSUME TypeInv, OneProcess, OwnerInv, OperationInv, BatchInv, NEW w \in Workers, Loop(w)
  PROVE  BatchInv'
<1> USE DEF TypeInv, shared, qdrant
<1>0. TaskInv(w) /\ OwnerOf(w)
  BY DEF BatchInv, OwnerInv
<1>1. SUFFICES ASSUME ~EndTask(w)
               PROVE  TaskInv(w)'
  BY BatchEnds DEF BatchInv, OneProcess
<1>2. CASE Poll(w)
  <2>1. task'[w].kind = task[w].kind /\ task'[w].todo = task[w].todo
    BY <1>2 DEF Poll, TaskOK, Tasks
  <2> QED
    BY <1>0, <1>2, <2>1 DEF TaskInv, OwnerOf, Poll
<1>3. CASE ReadState(w)
  <2>1. /\ task'[w].kind = "outbox" /\ task'[w].todo = task[w].todo /\ task'[w].epoch = row.epoch
        /\ row.status = "ready" /\ pc[w] = "state" /\ pc'[w] = "claim"
    BY <1>1, <1>3 DEF ReadState, TaskOK, Tasks, Step
  <2>2. task[w].todo = {}
    BY <1>0, <2>1 DEF TaskInv, OwnerOf
  <2>3. row' = row
    BY <1>3 DEF ReadState
  <2> QED
    BY <2>1, <2>2, <2>3 DEF TaskInv, BatchOf, JobPcs
<1>4. CASE ClaimJobs(w)
  <2>1. PICK batch \in SUBSET Claimable :
          /\ job' = [a \in Articles |-> IF a \in batch THEN [job[a] EXCEPT !.lease = w] ELSE job[a]]
          /\ task' = [task EXCEPT ![w].todo = batch,
                                  ![w].deletes = {a \in batch : job[a].op = "delete"}]
    BY <1>4 DEF ClaimJobs
  <2>2. UNCHANGED <<row, art>> /\ pc[w] = "claim" /\ pc'[w] = "next"
    BY <1>4 DEF ClaimJobs, Step, TaskOK
  <2>3. /\ task'[w].kind = task[w].kind /\ task'[w].epoch = task[w].epoch /\ task'[w].todo = batch
        /\ task'[w].deletes = {a \in batch : job[a].op = "delete"}
    BY <2>1 DEF TaskOK, Tasks
  <2>4. task[w].kind = "outbox" /\ BatchOf(w)
    BY <1>0, <2>2 DEF OwnerOf, TaskInv
  <2>5. \A a \in batch : a \in Articles /\ job'[a] # NoJob /\ job[a] # NoJob
    BY <2>1, NoJobAssumption DEF Claimable, SiteOK, Jobs
  <2>6. \A a \in batch : job[a].op = "delete" <=> art[a].vis = "hidden"
    BY <2>5 DEF OperationInv, Operation
  <2> QED
    BY <2>2, <2>3, <2>4, <2>5, <2>6 DEF TaskInv, BatchOf, JobPcs
<1>5. CASE EndBatch(w)
  BY <1>1, <1>5 DEF EndBatch
<1> QED
  BY <1>2, <1>3, <1>4, <1>5 DEF Loop

LEMMA BatchJob ==
  ASSUME TypeInv, OneProcess, OwnerInv, BatchInv, NEW w \in Workers, ProcessJob(w)
  PROVE  BatchInv'
<1> USE DEF TypeInv, shared, qdrant, JobPcs
<1>0. TaskInv(w) /\ OwnerOf(w) /\ Typed(w)
  BY DEF BatchInv, OwnerInv, TaskOK
<1>1. art' = art /\ row' = row
  BY DEF ProcessJob, NextJob, AssertIndexState, ReadArticle, DeletePoints, Upsert, FinishJob
<1>2. CASE FinishJob(w)
  <2>1. \A a \in Articles \ {cur[w]} : job'[a] = job[a]
    BY <1>2 DEF FinishJob, SiteOK
  <2>2. pc[w] = "done" /\ pc'[w] = "next" /\ UNCHANGED coll
    BY <1>2, StepMoves DEF FinishJob
  <2>3. task' = [task EXCEPT ![w].todo = @ \ {cur[w]}]
    BY <1>2 DEF FinishJob
  <2>4. CASE task[w].kind = "outbox"
    BY <1>1, <2>1, <2>2, <2>3, <2>4, BatchSetsAside
  <2>5. CASE task[w].kind = "rebuild"
    <3>1. task'[w].kind = "rebuild"
      BY <2>3, <2>5 DEF TaskOK, Tasks
    <3> QED
      BY <3>1 DEF BatchInv, TaskInv, OneProcess
  <2> QED
    BY <1>0, <2>2, <2>4, <2>5 DEF OwnerOf
<1>3. SUFFICES ASSUME ~FinishJob(w), task[w].kind = "outbox"
               PROVE  BatchOf(w)'
  <2>1. CASE FinishJob(w)
    BY <1>2, <2>1
  <2>2. CASE ~FinishJob(w)
    <3>1. task' = task
      BY <2>2 DEF ProcessJob, NextJob, AssertIndexState, ReadArticle, DeletePoints, Upsert
    <3> QED
      BY <1>0, <1>3, <2>2, <3>1 DEF BatchInv, TaskInv, OneProcess
  <2> QED
    BY <2>1, <2>2
<1>4. UNCHANGED <<task, job>> /\ BatchOf(w)
  BY <1>0, <1>3
  DEF ProcessJob, NextJob, AssertIndexState, ReadArticle, DeletePoints, Upsert, TaskInv
<1>5. CASE NextJob(w)
  <2>1. PICK a \in task[w].todo : cur' = [cur EXCEPT ![w] = a]
    BY <1>5 DEF NextJob
  <2>2. pc'[w] = "read" /\ cur'[w] = a
    BY <1>5, <2>1 DEF NextJob, Step, TaskOK
  <2> QED
    BY <1>1, <1>4, <2>2 DEF BatchOf, HasClaim
<1>6. CASE AssertIndexState(w)
  <2>1. UNCHANGED <<pc, cur, doc, coll>>
    BY <1>6 DEF AssertIndexState
  <2> QED
    BY <1>1, <1>4, <2>1 DEF BatchOf, HasClaim, Fetched, Wanted, Indexed, Searchable
<1>7. CASE ReadArticle(w)
  <2> DEFINE a == cur[w]
             c == IF a \in task[w].deletes \/ art[a].vis # "public" THEN Gone ELSE art[a].content
  <2>1. pc[w] = "read" /\ pc'[w] = "delete" /\ UNCHANGED <<cur, coll>> /\ doc'[w] = c
    BY <1>7 DEF ReadArticle, Step, TaskOK
  <2>2. a \in Articles /\ a \in task[w].todo
    BY <1>0, <1>4, <2>1 DEF Typed, BatchOf
  <2>3. art[a].content # Gone
    BY <2>2, ConstantsAssumption DEF SiteOK
  <2>4. HasClaim(w, a) => (a \in task[w].deletes <=> art[a].vis = "hidden")
    BY <1>4, <2>2 DEF BatchOf
  <2>5. HasClaim(w, a) => Fetched(w)' = Wanted(a)
    BY <2>1, <2>3, <2>4 DEF Fetched, Wanted
  <2> HIDE DEF c
  <2> QED
    BY <1>1, <1>4, <2>1, <2>2, <2>5 DEF BatchOf, HasClaim, Wanted
<1>8. CASE DeletePoints(w)
  <2>1. /\ pc[w] = "delete" /\ pc'[w] = IF doc[w] = Gone THEN "done" ELSE "upsert"
        /\ UNCHANGED <<cur, doc>>
    BY <1>8, StepMoves DEF DeletePoints
  <2>2. Searchable' = {q \in Searchable : q.article # cur[w]}
    BY <1>1, <1>4, <1>8 DEF DeletePoints, Searchable, BatchOf
  <2>3. Indexed(cur[w])' = {}
    BY <2>1, <2>2 DEF Indexed
  <2>4. HasClaim(w, cur[w]) => Fetched(w) = Wanted(cur[w])
    BY <1>4, <2>1 DEF BatchOf
  <2> QED
    BY <1>1, <1>4, <2>1, <2>3, <2>4 DEF BatchOf, HasClaim, Fetched, Wanted
<1>9. CASE Upsert(w)
  <2> DEFINE q == [article |-> cur[w], epoch |-> task[w].epoch, content |-> doc[w], fp |-> task[w].fp]
  <2>1. /\ pc[w] = "upsert" /\ pc'[w] = "done" /\ UNCHANGED <<cur, doc>>
        /\ Indexed(cur[w]) = {} /\ doc[w] # Gone /\ task[w].epoch = row.epoch
    BY <1>4, <1>9, StepMoves DEF Upsert, BatchOf
  <2>2. coll' = {o \in coll : [o EXCEPT !.fp = q.fp] # q} \cup {q}
    BY <1>9 DEF Upsert
  <2>3. q.article = cur[w] /\ q.content = doc[w] /\ q.epoch = row.epoch
    BY <2>1
  <2> HIDE DEF q
  <2>4. \A o \in Searchable' : o.article = cur[w] => o = q
    BY <1>1, <2>1, <2>2 DEF Searchable, Indexed
  <2>5. q \in Searchable'
    BY <1>1, <2>2, <2>3 DEF Searchable
  <2>6. Indexed(cur[w])' = {doc[w]}
    BY <2>1, <2>3, <2>4, <2>5 DEF Indexed
  <2>7. HasClaim(w, cur[w]) => {doc[w]} = Wanted(cur[w])
    BY <1>4, <2>1 DEF BatchOf, Fetched
  <2> QED
    BY <1>1, <1>4, <2>1, <2>6, <2>7 DEF BatchOf, HasClaim, Wanted
<1> QED
  BY <1>3, <1>5, <1>6, <1>7, <1>8, <1>9 DEF ProcessJob

LEMMA BatchRebuild ==
  ASSUME TypeInv, OneProcess, OwnerInv, NEW w \in Workers, Rebuild(w)
  PROVE  BatchInv'
<1> USE DEF TypeInv, RebuildPcs
<1>1. SUFFICES ASSUME ~EndTask(w)
               PROVE  task'[w].kind = "rebuild"
  BY BatchEnds DEF BatchInv, TaskInv, OneProcess
<1>2. CASE Begin(w)
  BY <1>1, <1>2 DEF Begin, Idle, TaskOK
<1>3. CASE Release(w) \/ Complete(w)
  BY <1>1, <1>3 DEF Release, Complete
<1>4. CASE ListPublicArticles(w)
  BY <1>4 DEF ListPublicArticles, Step, OwnerInv, OwnerOf, TaskOK, Tasks
<1>5. CASE DropCollection(w) \/ CreateCollection(w) \/ AllIndexed(w) \/ ReadLatestSettings(w)
  BY <1>5 DEF DropCollection, CreateCollection, AllIndexed, ReadLatestSettings, Step, OwnerInv, OwnerOf
<1> QED
  BY <1>2, <1>3, <1>4, <1>5 DEF Rebuild

LEMMA BatchStep == OneProcess /\ IInv /\ OperationInv /\ BatchInv /\ [Next]_vars => BatchInv'
<1> SUFFICES ASSUME OneProcess, IInv, OperationInv, BatchInv, [Next]_vars
             PROVE  BatchInv'
  OBVIOUS
<1> USE DEF IInv, shared, worker, qdrant
<1>1. CASE UNCHANGED <<pc, task, cur, doc, coll, row, art, job>>
  BY <1>1, BatchElsewhere DEF HasClaim
<1>2. ASSUME NEW w \in Workers, Work(w)
      PROVE  BatchInv'
  BY <1>2, BatchLoop, BatchJob, BatchRebuild, BatchFails DEF Work, IndexChanged
<1>3. ASSUME NEW w \in Workers, AbandonJob(w), UNCHANGED <<art, coll>>
      PROVE  BatchInv'
  <2>1. /\ task[w].kind = "outbox" /\ pc[w] \in JobPcs /\ pc'[w] = "next" /\ UNCHANGED <<row, job>>
        /\ task' = [task EXCEPT ![w].todo = @ \ {cur[w]}]
    BY <1>3 DEF AbandonJob, Step, TypeInv, TaskOK
  <2> QED
    BY <1>3, <2>1, BatchSetsAside
<1>4. ASSUME NEW w \in Workers, OperationFails(w)
      PROVE  BatchInv'
  BY <1>1, <1>3, <1>4, BatchEnds, BatchFails DEF OperationFails, AbandonRebuild
<1>5. ASSUME NEW a \in Articles, Edit(a) \/ TimePasses(a) \/ JobLeaseExpires(a)
      PROVE  BatchInv'
  <2>1. UNCHANGED <<pc, task, cur, doc, coll, row>>
    BY <1>5 DEF Edit, TimePasses, JobLeaseExpires
  <2>2. \A b \in Articles \ {a} : art'[b] = art[b] /\ job'[b] = job[b]
    BY <1>5 DEF Edit, TimePasses, JobLeaseExpires, TypeInv, SiteOK
  <2>3. job'[a] # NoJob /\ job'[a].lease = None
    BY <1>5, NoJobAssumption
    DEF Edit, TimePasses, JobLeaseExpires, ScheduledInv, TypeInv, SiteOK, Jobs, Operation
  <2>4. \A w \in Workers : ~HasClaim(w, a)'
    BY <2>3, ConstantsAssumption DEF HasClaim
  <2> QED
    BY <2>1, <2>2, <2>3, <2>4, BatchElsewhere DEF HasClaim
<1>6. ASSUME NEW d \in Admins, SaveMark(d)
      PROVE  BatchInv'
  <2>1. row'.epoch = row.epoch /\ (row'.status = "rebuilding" => row.status = "rebuilding")
    BY <1>6 DEF SaveMark, Mark, TypeInv, RowOK
  <2> QED
    BY <1>6, <2>1, BatchElsewhere DEF SaveMark, HasClaim
<1>7. CASE RebuildLeaseExpires
  <2>1. row'.epoch = row.epoch /\ row'.status = row.status
    BY <1>7 DEF RebuildLeaseExpires, TypeInv, RowOK
  <2> QED
    BY <1>7, <2>1, BatchElsewhere DEF RebuildLeaseExpires, HasClaim
<1> QED
  BY <1>1, <1>2, <1>4, <1>5, <1>6, <1>7, BatchEnds
  DEF Next, StartQueued, AdminRebuild, Crash, SaveRead, Save, SaveWrite, SaveStart, SaveFails, vars

\* A step in service that takes no job away and leaves articles and points alone.
LEMMA CompleteKept ==
  ASSUME IndexComplete, row.status = "ready", UNCHANGED <<art, coll>>, row'.epoch = row.epoch,
         \A a \in Articles : job'[a] = NoJob => job[a] = NoJob
  PROVE  IndexComplete'
BY DEF IndexComplete, Indexed, Wanted, Searchable

\* A step in service that is about one article only.
LEMMA CompleteElsewhere ==
  ASSUME IndexComplete, row.status = "ready", NEW a,
         \A b \in Articles \ {a} :
           job'[b] = job[b] /\ art'[b] = art[b] /\ Indexed(b)' = Indexed(b),
         job'[a] = NoJob => Indexed(a)' = Wanted(a)'
  PROVE  IndexComplete'
BY DEF IndexComplete, Wanted

LEMMA CompleteStep == OutboxInv /\ Next => IndexComplete'
<1> SUFFICES ASSUME OutboxInv, Next
             PROVE  IndexComplete'
  OBVIOUS
<1> USE DEF OutboxInv, IInv, shared, qdrant, worker
<1>1. CASE row.status # "ready"
  BY <1>1, ReadyStep DEF IndexComplete
<1>2. SUFFICES ASSUME row.status = "ready", row'.status = "ready"
               PROVE  IndexComplete'
  BY <1>1 DEF IndexComplete
<1>3. \A w \in Workers : task[w].kind # "rebuild"
  BY <1>2 DEF OwnerInv, OwnerOf, HoldsRebuild
<1>4. CASE UNCHANGED <<art, job, coll, row>>
  BY <1>2, <1>4, CompleteKept
<1>5. ASSUME NEW w \in Workers, Fails(w)
      PROVE  IndexComplete'
  <2>1. UNCHANGED <<art, coll, row>> /\ LeaveJob(w)
    BY <1>3, <1>5 DEF Fails, FailRebuild
  <2>2. \A a \in Articles : job'[a] = NoJob => job[a] = NoJob
    BY <2>1, NoJobAssumption DEF LeaveJob, HasClaim, TypeInv, SiteOK, Jobs
  <2> QED
    BY <1>2, <2>1, <2>2, CompleteKept
<1>6. ASSUME NEW w \in Workers, OperationFails(w)
      PROVE  IndexComplete'
  BY <1>3, <1>4, <1>5, <1>6 DEF OperationFails, AbandonJob, AbandonRebuild
<1>7. ASSUME NEW w \in Workers, ProcessJob(w)
      PROVE  IndexComplete'
  <2>1. CASE NextJob(w) \/ AssertIndexState(w) \/ ReadArticle(w)
    BY <1>4, <2>1 DEF NextJob, AssertIndexState, ReadArticle
  <2>2. SUFFICES ASSUME DeletePoints(w) \/ Upsert(w) \/ FinishJob(w)
                 PROVE  IndexComplete'
    BY <1>7, <2>1 DEF ProcessJob
  <2>3. pc[w] \in JobPcs /\ task[w].kind = "outbox"
    BY <1>3, <2>2 DEF DeletePoints, Upsert, FinishJob, Step, JobPcs, OwnerInv, OwnerOf
  <2>4. BatchOf(w) /\ cur[w] \in Articles /\ job[cur[w]] # NoJob
    BY <2>3 DEF BatchInv, TaskInv, BatchOf, TypeInv, TaskOK, Typed
  <2>5. UNCHANGED <<art, row>>
    BY <2>2 DEF DeletePoints, Upsert, FinishJob
  <2>6. CASE DeletePoints(w)
    <3>1. UNCHANGED job /\ Searchable' = {q \in Searchable : q.article # cur[w]}
      BY <2>4, <2>5, <2>6 DEF DeletePoints, Searchable, BatchOf
    <3>2. \A b \in Articles \ {cur[w]} : Indexed(b)' = Indexed(b)
      BY <3>1 DEF Indexed
    <3> QED
      BY <1>2, <2>4, <2>5, <3>1, <3>2, CompleteElsewhere
  <2>7. CASE Upsert(w)
    <3> DEFINE q == [article |-> cur[w], epoch |-> task[w].epoch, content |-> doc[w], fp |-> task[w].fp]
    <3>1. UNCHANGED job /\ coll' = {o \in coll : [o EXCEPT !.fp = q.fp] # q} \cup {q}
      BY <2>7 DEF Upsert
    <3>2. \A o \in coll : [o EXCEPT !.fp = q.fp] = q => o.article = cur[w]
      BY DEF TypeInv, SiteOK, Points
    <3>3. q.article = cur[w]
      OBVIOUS
    <3> HIDE DEF q
    <3>4. \A b \in Articles \ {cur[w]} : Indexed(b)' = Indexed(b)
      BY <2>5, <3>1, <3>2, <3>3 DEF Indexed, Searchable
    <3> QED
      BY <1>2, <2>4, <2>5, <3>1, <3>4, CompleteElsewhere
  <2>8. CASE FinishJob(w)
    <3>1. UNCHANGED coll /\ pc[w] = "done"
      BY <2>8 DEF FinishJob, Step
    <3>2. \A b \in Articles \ {cur[w]} : job'[b] = job[b]
      BY <2>8 DEF FinishJob, TypeInv, SiteOK
    <3>3. job'[cur[w]] = NoJob => HasClaim(w, cur[w])
      BY <2>4, <2>8 DEF FinishJob
    <3>4. \A b \in Articles : Indexed(b)' = Indexed(b) /\ Wanted(b)' = Wanted(b)
      BY <2>5, <3>1 DEF Indexed, Searchable, Wanted
    <3> QED
      BY <1>2, <2>4, <2>5, <3>1, <3>2, <3>3, <3>4, CompleteElsewhere DEF BatchOf
  <2> QED
    BY <2>2, <2>6, <2>7, <2>8
<1>8. ASSUME NEW w \in Workers, ClaimJobs(w)
      PROVE  IndexComplete'
  <2>1. \A a \in Articles : job'[a] = NoJob => job[a] = NoJob
    BY <1>8, NoJobAssumption DEF ClaimJobs, Claimable, TypeInv, SiteOK, Jobs
  <2> QED
    BY <1>2, <1>8, <2>1, CompleteKept DEF ClaimJobs
<1>9. ASSUME NEW w \in Workers, Rebuild(w)
      PROVE  IndexComplete'
  <2>1. Begin(w) /\ UNCHANGED <<art, job, coll>>
    BY <1>3, <1>9
    DEF Rebuild, Begin, DropCollection, CreateCollection, ListPublicArticles, AllIndexed,
        ReadLatestSettings, Release, Complete, Step, OwnerInv, OwnerOf, RebuildPcs
  <2>2. row' = row
    <3>1. row' = row \/ row' =
            [status |-> "rebuilding", epoch |-> row.epoch + 1, fp |-> asked[w], lease |-> "live"]
      BY <2>1 DEF Begin
    <3> QED
      BY <1>2, <3>1
  <2> QED
    BY <1>4, <2>1, <2>2
<1>10. ASSUME NEW w \in Workers, Work(w)
       PROVE  IndexComplete'
  <2>1. CASE Poll(w) \/ ReadState(w) \/ EndBatch(w)
    BY <1>4, <2>1 DEF Poll, ReadState, EndBatch
  <2> QED
    BY <1>5, <1>7, <1>8, <1>9, <1>10, <2>1 DEF Work, Loop, IndexChanged
<1>11. ASSUME NEW a \in Articles, Edit(a) \/ TimePasses(a) \/ JobLeaseExpires(a)
       PROVE  IndexComplete'
  <2>1. UNCHANGED <<coll, row>>
    BY <1>11 DEF Edit, TimePasses, JobLeaseExpires
  <2>2. \A b \in Articles \ {a} : art'[b] = art[b] /\ job'[b] = job[b] /\ Indexed(b)' = Indexed(b)
    BY <1>11, <2>1 DEF Edit, TimePasses, JobLeaseExpires, TypeInv, SiteOK, Indexed, Searchable
  <2>3. job'[a] # NoJob
    BY <1>11, NoJobAssumption
    DEF Edit, TimePasses, JobLeaseExpires, ScheduledInv, TypeInv, SiteOK, Jobs, Operation
  <2> QED
    BY <1>2, <2>2, <2>3, CompleteElsewhere
<1>12. ASSUME NEW d \in Admins, SaveMark(d)
       PROVE  IndexComplete'
  BY <1>2, <1>12 DEF SaveMark, Mark, TypeInv, RowOK
<1>13. CASE RebuildLeaseExpires
  <2>1. row'.epoch = row.epoch /\ UNCHANGED <<art, job, coll>>
    BY <1>13 DEF RebuildLeaseExpires, TypeInv, RowOK
  <2> QED
    BY <1>2, <2>1, CompleteKept
<1> QED
  BY <1>4, <1>6, <1>10, <1>11, <1>12, <1>13
  DEF Next, StartQueued, AdminRebuild, Crash, SaveRead, Save, SaveWrite, SaveStart, SaveFails

LEMMA OutboxInit == Init => OutboxInv
<1> SUFFICES ASSUME Init
             PROVE  OutboxInv
  OBVIOUS
<1>1. \A w \in Workers : task[w].kind = "none" /\ task[w].todo = {}
  BY DEF Init, Idle
<1>2. BatchInv
  BY <1>1 DEF BatchInv, TaskInv
<1>3. OperationInv /\ IndexComplete
  BY DEF Init, OperationInv, IndexComplete
<1> QED
  BY <1>2, <1>3, InitInv DEF OutboxInv

LEMMA OutboxStep == OneProcess /\ OutboxInv /\ [Next]_vars => OutboxInv'
<1> SUFFICES ASSUME OneProcess, OutboxInv, [Next]_vars
             PROVE  OutboxInv'
  OBVIOUS
<1>1. IInv' /\ OperationInv' /\ BatchInv'
  BY TypeStep, OwnerStep, ScheduledStep, BuildStep, OperationStep, BatchStep DEF OutboxInv, IInv
<1>2. CASE UNCHANGED vars
  BY <1>1, <1>2 DEF OutboxInv, IndexComplete, Indexed, Wanted, Searchable, vars
<1> QED
  BY <1>1, <1>2, CompleteStep DEF OutboxInv

\* The outbox contract of enqueueArticleRAGSyncTx and processJob, with one API
\* process: while the index is in service, an article whose vectors are not what
\* they should be has a job, whatever edits, failures and crashes come between.
THEOREM NothingIsForgotten ==
  ASSUME OneProcess
  PROVE  Spec => []IndexComplete
<1>1. OutboxInv => IndexComplete
  BY DEF OutboxInv
<1> QED
  BY <1>1, OutboxInit, OutboxStep, PTL DEF Spec

-----------------------------------------------------------------------------
(* The site restored from a backup, with one API process.  A restore takes *)
(* the row from a task under way, which then neither owns the row nor can  *)
(* write at its epoch: it is stale until it ends, and nothing is in        *)
(* service as long as it lasts.                                            *)

Stale(w) ==
  /\ pc[w] \in RebuildPcs => task[w].kind = "rebuild"
  /\ pc[w] \notin {"idle", "state"}
  /\ task[w].kind \in {"outbox", "rebuild"} /\ task[w].epoch < row.epoch
  /\ row.status = "needs_rebuild"

Underway == OwnerInv /\ BuildInv /\ BatchInv

RestoreInv == /\ TypeInv /\ ScheduledInv /\ OperationInv /\ IndexComplete
              /\ Underway \/ \E w \in Workers : Stale(w)

\* Archives without scheduled articles: a restored one has no job that would
\* index it when its time comes.
NothingScheduled == \A site \in Sites, a \in Articles : site[a].vis # "scheduled"

LEMMA RestoreType == TypeInv /\ RestoreSite => TypeInv'
<1> SUFFICES ASSUME TypeInv, RestoreSite
             PROVE  TypeInv'
  OBVIOUS
<1> USE DEF TypeInv, RestoreSite, worker, queue, qdrant
<1>1. row' \in [status : Statuses, epoch : 0 .. LastEpoch, fp : Fps \cup {NoFp},
                lease : {"none", "live", "expired"}]
  <2>1. row.epoch + 1 \in 0 .. LastEpoch
    BY ConstantsAssumption DEF RowOK
  <2> QED
    BY <2>1 DEF Statuses
<1>2. SiteOK'
  <2>1. settings' \in Settings
    BY DEF Settings
  <2> QED
    BY <2>1, SitesAssumption DEF SiteOK
<1>3. TaskOK'
  BY DEF TaskOK, Typed
<1>4. BoundsOK'
  BY ConstantsAssumption DEF BoundsOK
<1> QED
  BY <1>1, <1>2, <1>3, <1>4 DEF RowOK, AdmOK, QueueOK

\* A stale task goes on, but the row stays as it is until the task ends.
LEMMA StaleStep ==
  ASSUME TypeInv, OneProcess, NEW w \in Workers, Stale(w), [Next]_vars
  PROVE  row'.status # "ready" /\ (Underway' \/ Stale(w)')
<1> USE DEF TypeInv, shared, worker, qdrant
<1>1. ~HoldsRebuild(w)
  BY DEF Stale, HoldsRebuild
<1>2. CASE UNCHANGED <<pc, task>> /\ row'.epoch = row.epoch /\ row'.status = row.status
  BY <1>2 DEF Stale
<1>3. CASE UNCHANGED row /\ EndTask(w)
  <2>1. pc'[w] = "idle" /\ task'[w].kind = "none" /\ task'[w].todo = {}
    BY <1>3 DEF EndTask, Idle, TaskOK
  <2>2. OwnerOf(w)'
    BY <2>1 DEF OwnerOf, RebuildPcs, JobPcs
  <2> QED
    BY <1>3, <2>1, <2>2 DEF Underway, OwnerInv, BuildInv, BatchInv, TaskInv, OneProcess, Stale
<1>4. ASSUME UNCHANGED row, pc'[w] \notin {"idle", "state"},
             task'[w].kind = task[w].kind, task'[w].epoch = task[w].epoch,
             pc'[w] \in RebuildPcs => task[w].kind = "rebuild"
      PROVE  row'.status # "ready" /\ Stale(w)'
  BY <1>4 DEF Stale
<1>5. ASSUME UNCHANGED row, LeaveJob(w) \/ AbandonJob(w)
      PROVE  row'.status # "ready" /\ Stale(w)'
  <2>1. task' = [task EXCEPT ![w].todo = @ \ {cur[w]}] /\ Step(w, pc[w], "next")
    BY <1>5 DEF LeaveJob, AbandonJob
  <2>2. task'[w].kind = task[w].kind /\ task'[w].epoch = task[w].epoch
    BY <2>1 DEF TaskOK, Tasks
  <2> QED
    BY <1>4, <1>5, <2>1, <2>2, StepMoves DEF RebuildPcs
<1>6. CASE Fails(w)
  <2>1. CASE LeaveJob(w) /\ UNCHANGED row
    BY <1>5, <2>1
  <2>2. CASE FailRebuild(w)
    BY <1>1, <1>3, <2>2 DEF FailRebuild
  <2> QED
    BY <1>6, <2>1, <2>2 DEF Fails
<1>7. CASE OperationFails(w)
  BY <1>2, <1>3, <1>5, <1>6, <1>7 DEF OperationFails, AbandonRebuild, AbandonJob
<1>8. CASE Loop(w)
  <2>1. CASE ClaimJobs(w)
    <3>1. task'[w].kind = task[w].kind /\ task'[w].epoch = task[w].epoch
      BY <2>1 DEF ClaimJobs, TaskOK, Tasks
    <3> QED
      BY <1>4, <2>1, <3>1, StepMoves DEF ClaimJobs, RebuildPcs
  <2>2. CASE EndBatch(w)
    BY <1>3, <2>2 DEF EndBatch
  <2> QED
    BY <1>8, <2>1, <2>2 DEF Loop, Poll, ReadState, Stale
<1>9. CASE ProcessJob(w)
  <2>1. CASE AssertIndexState(w)
    BY <1>2, <2>1 DEF AssertIndexState
  <2>2. CASE FinishJob(w)
    <3>1. task'[w].kind = task[w].kind /\ task'[w].epoch = task[w].epoch
      BY <2>2 DEF FinishJob, TaskOK, Tasks
    <3> QED
      BY <1>4, <2>2, <3>1, StepMoves DEF FinishJob, RebuildPcs
  <2>3. CASE NextJob(w) \/ ReadArticle(w) \/ DeletePoints(w) \/ Upsert(w)
    <3>1. pc'[w] \in JobPcs /\ UNCHANGED <<row, task>>
      BY <2>3, StepMoves DEF NextJob, ReadArticle, DeletePoints, Upsert, JobPcs
    <3> QED
      BY <1>4, <3>1 DEF JobPcs, RebuildPcs
  <2> QED
    BY <1>9, <2>1, <2>2, <2>3 DEF ProcessJob
<1>10. CASE Rebuild(w)
  <2>1. CASE ListPublicArticles(w)
    <3>1. task'[w].kind = task[w].kind /\ task'[w].epoch = task[w].epoch
      BY <2>1 DEF ListPublicArticles, TaskOK, Tasks
    <3> QED
      BY <1>4, <2>1, <3>1, StepMoves DEF ListPublicArticles, RebuildPcs
  <2>2. CASE DropCollection(w) \/ CreateCollection(w) \/ AllIndexed(w) \/ ReadLatestSettings(w)
    <3>1. pc'[w] \in RebuildPcs /\ UNCHANGED <<row, task>>
      BY <2>2, StepMoves
      DEF DropCollection, CreateCollection, AllIndexed, ReadLatestSettings, RebuildPcs
    <3>2. task[w].kind = "rebuild"
      BY <2>2, StepMoves
      DEF DropCollection, CreateCollection, AllIndexed, ReadLatestSettings, Stale, RebuildPcs
    <3> QED
      BY <1>4, <3>1, <3>2 DEF RebuildPcs
  <2>3. CASE Release(w) \/ Complete(w)
    BY <1>1, <1>3, <2>3 DEF Release, Complete
  <2> QED
    BY <1>10, <2>1, <2>2, <2>3 DEF Rebuild, Begin, Stale
<1>11. ASSUME NEW d \in Admins, SaveMark(d)
       PROVE  row'.status # "ready" /\ Stale(w)'
  <2>1. row'.epoch = row.epoch /\ row'.status = row.status
    BY <1>11 DEF SaveMark, Mark, Stale, RowOK
  <2> QED
    BY <1>2, <1>11, <2>1 DEF SaveMark, Stale
<1>12. CASE RebuildLeaseExpires
  BY <1>2, <1>12 DEF RebuildLeaseExpires, RowOK
<1>13. CASE Work(w)
  BY <1>6, <1>8, <1>9, <1>10, <1>13 DEF Work, IndexChanged
<1>14. CASE StartQueued(w) \/ AdminRebuild(w)
  BY <1>2, <1>14 DEF StartQueued, AdminRebuild
<1>15. CASE Crash(w)
  BY <1>3, <1>15 DEF Crash
<1>16. ASSUME NEW v \in Workers,
              Work(v) \/ StartQueued(v) \/ AdminRebuild(v) \/ OperationFails(v) \/ Crash(v)
       PROVE  row'.status # "ready" /\ (Underway' \/ Stale(w)')
  BY <1>7, <1>13, <1>14, <1>15, <1>16 DEF OneProcess
<1>17. ASSUME NEW d \in Admins, SaveRead(d) \/ SaveWrite(d) \/ SaveStart(d) \/ SaveFails(d)
       PROVE  row'.status # "ready" /\ Stale(w)'
  BY <1>2, <1>17 DEF SaveRead, SaveWrite, SaveStart, SaveFails, Stale
<1>18. ASSUME NEW a \in Articles, Edit(a) \/ TimePasses(a) \/ JobLeaseExpires(a)
       PROVE  row'.status # "ready" /\ Stale(w)'
  BY <1>2, <1>18 DEF Edit, TimePasses, JobLeaseExpires, Stale
<1>19. CASE UNCHANGED vars
  BY <1>2, <1>19 DEF vars
<1> QED
  BY <1>11, <1>12, <1>16, <1>17, <1>18, <1>19 DEF Next, Save

LEMMA RestoreTakesTheRow ==
  ASSUME RestoreInv, NothingScheduled, RestoreSite
  PROVE  RestoreInv'
<1> USE DEF RestoreInv, RestoreSite, worker
<1>1. TypeInv'
  BY RestoreType
<1>2. row'.epoch = row.epoch + 1 /\ row'.status = "needs_rebuild" /\ row.epoch \in Nat
  BY ConstantsAssumption DEF TypeInv, RowOK
<1>3. ScheduledInv' /\ OperationInv' /\ IndexComplete'
  BY <1>2 DEF NothingScheduled, ScheduledInv, OperationInv, IndexComplete
<1>4. \A w \in Workers : task[w].epoch \in Nat
  BY ConstantsAssumption DEF TypeInv, TaskOK, Tasks
<1>5. CASE Underway /\ \A w \in Workers : task[w].kind = "none"
  BY <1>1, <1>3, <1>5 DEF Underway, OwnerInv, OwnerOf, BuildInv, BatchInv, TaskInv
<1>6. ASSUME Underway, NEW w \in Workers, task[w].kind # "none"
      PROVE  Stale(w)'
  <2>1. OwnerOf(w) /\ task[w].kind \in {"outbox", "rebuild"}
    BY <1>6 DEF Underway, OwnerInv, TypeInv, TaskOK, Tasks
  <2>2. task[w].epoch <= row.epoch
    BY <1>2, <1>4, <2>1 DEF OwnerOf, HoldsRebuild
  <2> QED
    BY <1>2, <1>4, <1>6, <2>1, <2>2 DEF OwnerOf, Stale
<1>7. ASSUME NEW w \in Workers, Stale(w)
      PROVE  Stale(w)'
  BY <1>2, <1>4, <1>7 DEF Stale
<1> QED
  BY <1>1, <1>3, <1>5, <1>6, <1>7

LEMMA RestoreStep ==
  ASSUME OneProcess, NothingScheduled, RestoreInv, [RestoreNext]_vars
  PROVE  RestoreInv'
<1>1. CASE RestoreSite
  BY <1>1, RestoreTakesTheRow
<1>2. CASE [Next]_vars
  <2>1. TypeInv' /\ ScheduledInv' /\ OperationInv'
    BY <1>2, TypeStep, ScheduledStep, OperationStep DEF RestoreInv
  <2>2. ASSUME NEW w \in Workers, Stale(w)
        PROVE  RestoreInv'
    BY <1>2, <2>1, <2>2, StaleStep DEF RestoreInv, IndexComplete
  <2>3. CASE Underway
    BY <1>2, <2>3, OutboxStep DEF RestoreInv, Underway, OutboxInv, IInv
  <2> QED
    BY <2>2, <2>3 DEF RestoreInv
<1> QED
  BY <1>1, <1>2 DEF RestoreNext

LEMMA RestoreInitInv == Init => RestoreInv
BY OutboxInit DEF RestoreInv, Underway, OutboxInv, IInv

\* A restore of the site keeps the types, whatever it finds under way.
THEOREM RestoredTypeCorrect == RestoreSpec => []TypeOK
<1>1. TypeInv /\ [RestoreNext]_vars => TypeInv'
  BY TypeStep, RestoreType DEF RestoreNext
<1> QED
  BY <1>1, InitInv, TypeInvImpliesTypeOK, PTL DEF RestoreSpec, IInv

\* resetRAGIndexStateAfterRestore: although the restore empties the outbox, the index
\* of the restored site is in service only when it lacks nothing that has no job.
THEOREM RestoredSiteIsIndexed ==
  ASSUME OneProcess, NothingScheduled
  PROVE  RestoreSpec => []IndexComplete
<1>1. RestoreInv => IndexComplete
  BY DEF RestoreInv
<1> QED
  BY <1>1, RestoreInitInv, RestoreStep, PTL DEF RestoreSpec

\* A rebuild that began before a restore never puts its collection into service.
THEOREM RestoredReadyIsRebuilt ==
  ASSUME OneProcess, NothingScheduled
  PROVE  RestoreSpec => ReadyMeansRebuilt
<1> DEFINE A == row.status # "ready" /\ row'.status = "ready" =>
       /\ exists
       /\ \A q \in Searchable' : q.fp = row'.fp
       /\ \A a \in Articles : job'[a] = NoJob => Indexed(a)' = Wanted(a)'
<1>1. ASSUME RestoreInv, RestoreNext
      PROVE  A
  <2>1. CASE RestoreSite
    BY <2>1 DEF RestoreSite
  <2>2. CASE Next /\ Underway
    BY <1>1, <2>2, ReadyStep DEF RestoreInv, Underway, IInv
  <2>3. ASSUME Next, NEW w \in Workers, Stale(w)
        PROVE  A
    BY <1>1, <2>3, StaleStep DEF RestoreInv
  <2> QED
    BY <1>1, <2>1, <2>2, <2>3 DEF RestoreNext, RestoreInv
<1>2. RestoreInv /\ [RestoreNext]_vars => [A]_vars
  BY <1>1
<1> QED
  BY <1>2, RestoreInitInv, RestoreStep, PTL DEF RestoreSpec, ReadyMeansRebuilt
=============================================================================
