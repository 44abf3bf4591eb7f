------------------------------ MODULE RagIndex ------------------------------
(***************************************************************************)
(* The vector index behind the RAG chat.  Articles live in MySQL; Qdrant   *)
(* holds vectors derived from them.  An outbox row per article asks for    *)
(* its vectors to be brought up to date, and a state row with an epoch, an *)
(* embedding fingerprint and a lease decides which API process may rebuild *)
(* the whole collection and when chat may use it.                          *)
(*                                                                         *)
(*   model/rag.go              the SQL statements on the two tables        *)
(*   internal/rag/worker.go    polling, outbox jobs, rebuilds              *)
(*   internal/logic/rag/rag.go UpdateSettings, Rebuild                     *)
(*   model/article.go          enqueueArticleRAGSyncTx                     *)
(*                                                                         *)
(* Every call to MySQL or Qdrant is a step of its own, so that another     *)
(* process, an administrator or a crash can come between any two.  Lease   *)
(* tokens are random and drawn with a new epoch, so the epoch of the state *)
(* row stands for its token; a process holds one claim on the outbox at a  *)
(* time and stands for that token.                                         *)
(***************************************************************************)
EXTENDS FiniteSets, Naturals

CONSTANTS
  Workers,    \* API processes, each with one Worker
  Admins,     \* concurrent requests to save the RAG settings
  Articles, Contents,
  Fps,        \* embedding fingerprints (URL, model and dimensions)
  BatchSize,  \* workerBatchSize
  LastEpoch,  \* ^uint64(0)
  MaxEdits, MaxSaves, MaxFaults,   \* bounds on edits, settings requests, and crashes or errors
  NoFp, NoJob, Gone, None

ASSUME ConstantsAssumption ==
  /\ BatchSize \in Nat \ {0} /\ LastEpoch \in Nat
  /\ MaxEdits \in Nat /\ MaxSaves \in Nat /\ MaxFaults \in Nat
  /\ NoFp \notin Fps /\ Gone \notin Contents /\ None \notin Workers \cup Articles

Visibilities == {"hidden", "scheduled", "public"}
Statuses == {"needs_rebuild", "rebuilding", "ready", "error"}
Settings == [enabled : BOOLEAN, fp : Fps]
Points == [article : Articles, epoch : 0 .. LastEpoch, content : Contents, fp : Fps]
Jobs == [op : {"upsert", "delete"}, lease : Workers \cup {None}]
Tasks == [kind : {"none", "outbox", "rebuild"}, epoch : 0 .. LastEpoch, target : Fps \cup {NoFp},
          fp : Fps \cup {NoFp}, todo : SUBSET Articles, deletes : SUBSET Articles]

ASSUME NoJobAssumption == NoJob \notin Jobs

VARIABLES
  settings,  \* site_settings: is RAG enabled, and with which embedding
  row,       \* rag_index_state
  art,       \* articles: content and visibility
  job,       \* rag_sync_jobs, at most one per article
  exists,    \* there is a Qdrant collection
  coll,      \* its points
  pc, task,  \* per worker: the step and the job batch or rebuild that holds workMu
  cur, doc,  \* the article in hand and the content read of it, or Gone
  sure,      \* the last assertIndexState succeeded and no remote call followed it
  asked,     \* the embedding of the rebuild under way or waiting (Worker.rebuilding), or NoFp
  pending,   \* Worker.pendingRebuild
  starter,   \* a startQueuedRebuild goroutine is about to read the settings
  adm,       \* the UpdateSettings requests
  edits, saves, faults

qdrant  == <<exists, coll>>
shared  == <<settings, row, art, job, qdrant>>
worker  == <<pc, task, cur, doc, sure>>
queue   == <<asked, pending, starter>>
bounds  == <<edits, saves, faults>>
vars    == <<settings, row, art, job, exists, coll, pc, task, cur, doc, sure,
             asked, pending, starter, adm, edits, saves, faults>>

JobPcs == {"read", "delete", "upsert", "done"}
RebuildPcs == {"drop", "create", "list", "settle", "release", "close", "complete"}
Pcs == {"idle", "state", "claim", "next"} \cup JobPcs \cup RebuildPcs

Idle == [kind |-> "none", epoch |-> 0, target |-> NoFp, fp |-> NoFp, todo |-> {}, deletes |-> {}]
NoRequest == [pc |-> "none"]

TypeOK ==
  /\ settings \in Settings
  /\ row \in [status : Statuses, epoch : 0 .. LastEpoch, fp : Fps \cup {NoFp},
              lease : {"none", "live", "expired"}]
  /\ art \in [Articles -> [content : Contents, vis : Visibilities]]
  /\ job \in [Articles -> Jobs \cup {NoJob}]
  /\ exists \in BOOLEAN /\ coll \in SUBSET Points
  /\ pc \in [Workers -> Pcs]
  /\ task \in [Workers -> Tasks]
  /\ cur \in [Workers -> Articles \cup {None}]
  /\ doc \in [Workers -> Contents \cup {Gone}]
  /\ sure \in [Workers -> BOOLEAN]
  /\ asked \in [Workers -> Fps \cup {NoFp}]
  /\ pending \in [Workers -> BOOLEAN]
  /\ starter \in [Workers -> BOOLEAN]
  /\ adm \in [Admins -> {NoRequest} \cup
       [pc : {"write", "mark", "start"}, host : Workers, old : Settings, new : Settings]]
  /\ edits \in 0 .. MaxEdits /\ saves \in 0 .. MaxSaves /\ faults \in 0 .. MaxFaults

\* The outbox operation an article write asks for.
Operation(vis) == IF vis = "hidden" THEN "delete" ELSE "upsert"

\* A fresh installation: every article has been written through the outbox.
Init ==
  /\ settings \in [enabled : {FALSE}, fp : Fps]
  /\ row = [status |-> "needs_rebuild", epoch |-> 0, fp |-> NoFp, lease |-> "none"]
  /\ art \in [Articles -> [content : Contents, vis : Visibilities]]
  /\ job = [a \in Articles |-> [op |-> Operation(art[a].vis), lease |-> None]]
  /\ exists = FALSE /\ coll = {}
  /\ pc = [w \in Workers |-> "idle"] /\ task = [w \in Workers |-> Idle]
  /\ cur = [w \in Workers |-> None]
  /\ doc = [w \in Workers |-> Gone] /\ sure = [w \in Workers |-> FALSE]
  /\ asked = [w \in Workers |-> NoFp]
  /\ pending = [w \in Workers |-> FALSE] /\ starter = [w \in Workers |-> FALSE]
  /\ adm = [d \in Admins |-> NoRequest]
  /\ edits = 0 /\ saves = 0 /\ faults = 0

-----------------------------------------------------------------------------
(* The state row.                                                          *)

ShouldRebuild ==
  \/ row.status \in {"needs_rebuild", "error"}
  \/ row.status = "rebuilding" /\ row.lease # "live"

\* IsRAGIndexStateCurrent for the state this worker read or claimed.
Current(w) ==
  /\ row.epoch = task[w].epoch /\ row.fp = task[w].target
  /\ \/ task[w].kind = "outbox" /\ row.status = "ready"
     \/ task[w].kind = "rebuild" /\ row.status = "rebuilding" /\ row.lease = "live"

\* The condition under which Complete, Release, Fail and Renew touch the row.
HoldsRebuild(w) ==
  row.status = "rebuilding" /\ row.epoch = task[w].epoch /\ row.lease = "live"

\* MarkRAGIndexNeedsRebuild: a running rebuild keeps its row until it ends.
Mark(fp) ==
  row' = IF row.status = "rebuilding" THEN [row EXCEPT !.fp = fp]
         ELSE [row EXCEPT !.fp = fp, !.status = "needs_rebuild", !.lease = "none"]

\* StartRebuild: begin, or have the running rebuild followed by another.
StartRebuild(w, fp) ==
  /\ asked' = IF asked[w] = NoFp THEN [asked EXCEPT ![w] = fp] ELSE asked
  /\ pending' = IF asked[w] = NoFp THEN pending ELSE [pending EXCEPT ![w] = TRUE]
  /\ UNCHANGED starter

\* finishRebuild: a rebuild asked for in the meantime starts from fresh settings.
FinishRebuild(w, queued) ==
  /\ asked' = [asked EXCEPT ![w] = NoFp]
  /\ pending' = [pending EXCEPT ![w] = FALSE]
  /\ starter' = [starter EXCEPT ![w] = @ \/ pending[w] \/ queued]

\* The worker lets go of workMu.
EndTask(w) ==
  /\ pc' = [pc EXCEPT ![w] = "idle"]
  /\ task' = [task EXCEPT ![w] = Idle]
  /\ cur' = [cur EXCEPT ![w] = None]
  /\ doc' = [doc EXCEPT ![w] = Gone]
  /\ sure' = [sure EXCEPT ![w] = FALSE]

Step(w, from, to) ==
  /\ pc[w] = from /\ pc' = [pc EXCEPT ![w] = to]
  /\ sure' = [sure EXCEPT ![w] = FALSE]

-----------------------------------------------------------------------------
(* process: the polling loop reads the settings, then the state.           *)

Poll(w) ==
  /\ pc[w] = "idle" /\ asked[w] = NoFp /\ settings.enabled
  /\ Step(w, "idle", "state")
  /\ task' = [task EXCEPT ![w].fp = settings.fp]
  /\ UNCHANGED <<shared, cur, doc, queue, adm, bounds>>

ReadState(w) ==
  /\ pc[w] = "state"
  /\ \/ /\ ShouldRebuild
        /\ StartRebuild(w, task[w].fp) /\ EndTask(w)
     \/ /\ row.status = "ready"
        /\ Step(w, "state", "claim")
        /\ task' = [task EXCEPT ![w].kind = "outbox", ![w].epoch = row.epoch, ![w].target = row.fp]
        /\ UNCHANGED <<cur, doc, queue>>
     \/ /\ ~ShouldRebuild /\ row.status # "ready"
        /\ EndTask(w) /\ UNCHANGED queue
  /\ UNCHANGED <<shared, adm, bounds>>

\* Jobs are due at once, or when a scheduled article becomes public.
Claimable == {a \in Articles : job[a] # NoJob /\ job[a].lease = None /\ art[a].vis # "scheduled"}

ClaimJobs(w) ==
  /\ Step(w, "claim", "next")
  /\ \E batch \in SUBSET Claimable :
       /\ Cardinality(batch) = BatchSize \/ (batch = Claimable /\ Cardinality(batch) < BatchSize)
       /\ job' = [a \in Articles |-> IF a \in batch THEN [job[a] EXCEPT !.lease = w] ELSE job[a]]
       /\ task' = [task EXCEPT ![w].todo = batch,
                               ![w].deletes = {a \in batch : job[a].op = "delete"}]
  /\ UNCHANGED <<settings, row, art, qdrant, cur, doc, queue, adm, bounds>>

\* The batch is done; the counts of indexed articles are refreshed.
EndBatch(w) ==
  /\ pc[w] = "next" /\ task[w].kind = "outbox" /\ task[w].todo = {}
  /\ EndTask(w)
  /\ UNCHANGED <<shared, queue, adm, bounds>>

-----------------------------------------------------------------------------
(* processJob, for an outbox job or for an article of a rebuild.           *)

AssertedPcs == {"read", "upsert", "done", "drop", "create", "list", "settle"}

\* assertIndexState, and assertRebuildLease before it in a rebuild.
AssertIndexState(w) ==
  /\ pc[w] \in AssertedPcs /\ ~sure[w] /\ Current(w)
  /\ sure' = [sure EXCEPT ![w] = TRUE]
  /\ UNCHANGED <<shared, pc, task, cur, doc, queue, adm, bounds>>

NextJob(w) ==
  /\ \E a \in task[w].todo : cur' = [cur EXCEPT ![w] = a]
  /\ Step(w, "next", "read")
  /\ UNCHANGED <<shared, task, doc, queue, adm, bounds>>

ReadArticle(w) ==
  /\ sure[w]
  /\ Step(w, "read", "delete")
  /\ LET a == cur[w] IN
       doc' = [doc EXCEPT ![w] =
         IF a \in task[w].deletes \/ art[a].vis # "public" THEN Gone ELSE art[a].content]
  /\ UNCHANGED <<shared, task, cur, queue, adm, bounds>>

\* DeleteArticleAtEpoch.
DeletePoints(w) ==
  /\ exists
  /\ Step(w, "delete", IF doc[w] = Gone THEN "done" ELSE "upsert")
  /\ coll' = {q \in coll : ~(q.article = cur[w] /\ q.epoch = task[w].epoch)}
  /\ UNCHANGED <<settings, row, art, job, exists, task, cur, doc, queue, adm, bounds>>

\* Broken variant: points are written under the epoch the row has by now.
UpsertAtRowEpoch(w) ==
  /\ sure[w] /\ exists
  /\ Step(w, "upsert", "done")
  /\ coll' = coll \cup {[article |-> cur[w], epoch |-> row.epoch, content |-> doc[w], fp |-> task[w].fp]}
  /\ UNCHANGED <<settings, row, art, job, exists, task, cur, doc, queue, adm, bounds>>

\* Embeddings and Upsert; the point id is made of epoch, article and content.
Upsert(w) ==
  /\ sure[w] /\ exists
  /\ Step(w, "upsert", "done")
  /\ LET q == [article |-> cur[w], epoch |-> task[w].epoch, content |-> doc[w], fp |-> task[w].fp]
     IN coll' = {o \in coll : [o EXCEPT !.fp = q.fp] # q} \cup {q}
  /\ UNCHANGED <<settings, row, art, job, exists, task, cur, doc, queue, adm, bounds>>

\* Broken variant: the job is deleted although it was asked for again meanwhile.
FinishJobUnclaimed(w) ==
  /\ sure[w] /\ Step(w, "done", "next")
  /\ task' = [task EXCEPT ![w].todo = @ \ {cur[w]}]
  /\ job' = IF task[w].kind = "outbox" THEN [job EXCEPT ![cur[w]] = NoJob] ELSE job
  /\ UNCHANGED <<settings, row, art, qdrant, cur, doc, queue, adm, bounds>>

HasClaim(w, a) == job[a] # NoJob /\ job[a].lease = w

\* CompleteRAGSyncJob deletes the row only under the token of the claim.
FinishJob(w) ==
  /\ sure[w] /\ Step(w, "done", "next")
  /\ task' = [task EXCEPT ![w].todo = @ \ {cur[w]}]
  /\ job' = IF task[w].kind = "outbox" /\ HasClaim(w, cur[w])
            THEN [job EXCEPT ![cur[w]] = NoJob] ELSE job
  /\ UNCHANGED <<settings, row, art, qdrant, cur, doc, queue, adm, bounds>>

\* FailRAGSyncJob gives the claim back; the batch goes on.
LeaveJob(w) ==
  /\ pc[w] \in JobPcs /\ Step(w, pc[w], "next")
  /\ task' = [task EXCEPT ![w].todo = @ \ {cur[w]}]
  /\ job' = IF HasClaim(w, cur[w]) THEN [job EXCEPT ![cur[w]].lease = None] ELSE job
  /\ UNCHANGED <<cur, doc, queue>>

-----------------------------------------------------------------------------
(* rebuild.                                                                *)

\* Broken variant: nothing stops the epoch at its last value.
BeginPastLastEpoch(w) ==
  /\ pc[w] = "idle" /\ asked[w] # NoFp
  /\ LET claim == /\ row.fp \in {NoFp, asked[w]}
                  /\ row.status # "rebuilding" \/ row.lease # "live"
     IN
     \/ /\ claim
        /\ row' = [status |-> "rebuilding", epoch |-> row.epoch + 1, fp |-> asked[w], lease |-> "live"]
        /\ task' = [task EXCEPT ![w] = [Idle EXCEPT !.kind = "rebuild", !.epoch = row.epoch + 1,
                                                    !.target = asked[w], !.fp = asked[w]]]
        /\ Step(w, "idle", "drop") /\ UNCHANGED <<cur, doc, queue>>
     \/ /\ ~claim
        /\ EndTask(w) /\ FinishRebuild(w, FALSE) /\ UNCHANGED row
  /\ UNCHANGED <<settings, art, job, qdrant, adm, bounds>>

\* BeginRAGIndexRebuild, with workMu: claim the row under a new epoch.
Begin(w) ==
  /\ pc[w] = "idle" /\ asked[w] # NoFp
  /\ LET claim == /\ row.fp \in {NoFp, asked[w]}
                  /\ row.epoch < LastEpoch
                  /\ row.status # "rebuilding" \/ row.lease # "live"
     IN
     \/ /\ claim
        /\ row' = [status |-> "rebuilding", epoch |-> row.epoch + 1, fp |-> asked[w], lease |-> "live"]
        /\ task' = [task EXCEPT ![w] = [Idle EXCEPT !.kind = "rebuild", !.epoch = row.epoch + 1,
                                                    !.target = asked[w], !.fp = asked[w]]]
        /\ Step(w, "idle", "drop") /\ UNCHANGED <<cur, doc, queue>>
     \/ /\ ~claim
        /\ EndTask(w) /\ FinishRebuild(w, FALSE) /\ UNCHANGED row
  /\ UNCHANGED <<settings, art, job, qdrant, adm, bounds>>

DropCollection(w) ==
  /\ sure[w] /\ Step(w, "drop", "create")
  /\ exists' = FALSE /\ coll' = {}
  /\ UNCHANGED <<settings, row, art, job, task, cur, doc, queue, adm, bounds>>

CreateCollection(w) ==
  /\ sure[w] /\ ~exists /\ Step(w, "create", "list")
  /\ exists' = TRUE /\ coll' = {}
  /\ UNCHANGED <<settings, row, art, job, task, cur, doc, queue, adm, bounds>>

ListPublicArticles(w) ==
  /\ sure[w] /\ Step(w, "list", "next")
  /\ task' = [task EXCEPT ![w].todo = {a \in Articles : art[a].vis = "public"}]
  /\ UNCHANGED <<shared, cur, doc, queue, adm, bounds>>

\* Every listed article is indexed.
AllIndexed(w) ==
  /\ task[w].kind = "rebuild" /\ task[w].todo = {}
  /\ Step(w, "next", "settle")
  /\ UNCHANGED <<shared, task, cur, doc, queue, adm, bounds>>

\* The settings may have changed since the rebuild began.
ReadLatestSettings(w) ==
  /\ sure[w] /\ pc[w] = "settle"
  /\ \/ /\ settings.enabled /\ settings.fp = task[w].target
        /\ Step(w, "settle", "complete")
     \/ /\ settings.enabled /\ settings.fp # task[w].target
        /\ Step(w, "settle", "release")
     \/ /\ ~settings.enabled
        /\ Step(w, "settle", "close")
  /\ UNCHANGED <<shared, task, cur, doc, queue, adm, bounds>>

\* ReleaseRAGIndexRebuildToPending keeps the fingerprint of the row.
Release(w) ==
  /\ pc[w] \in {"release", "close"}
  /\ row' = IF HoldsRebuild(w) THEN [row EXCEPT !.status = "needs_rebuild", !.lease = "none"] ELSE row
  /\ EndTask(w) /\ FinishRebuild(w, ~HoldsRebuild(w) \/ pc[w] = "release")
  /\ UNCHANGED <<settings, art, job, qdrant, adm, bounds>>

\* Broken variant: completion compares neither embedding nor epoch.
CompleteAnyway(w) ==
  /\ pc[w] = "complete"
  /\ row' = IF row.status = "rebuilding" THEN [row EXCEPT !.status = "ready", !.lease = "none"] ELSE row
  /\ EndTask(w) /\ FinishRebuild(w, FALSE)
  /\ UNCHANGED <<settings, art, job, qdrant, adm, bounds>>

\* CompleteRAGIndexRebuild.
Complete(w) ==
  /\ pc[w] = "complete"
  /\ LET ok == HoldsRebuild(w) /\ row.fp = task[w].target IN
       /\ row' = IF ok THEN [row EXCEPT !.status = "ready", !.lease = "none"] ELSE row
       /\ FinishRebuild(w, ~ok)
  /\ EndTask(w)
  /\ UNCHANGED <<settings, art, job, qdrant, adm, bounds>>

\* failRebuild: record the error, or give the row back for its new target.
FailRebuild(w) ==
  /\ task[w].kind = "rebuild" /\ pc[w] \notin {"next", "release", "close", "complete"}
  /\ LET mine == HoldsRebuild(w) /\ row.fp = task[w].target IN
       /\ row' = IF ~HoldsRebuild(w) THEN row
                 ELSE [row EXCEPT !.status = IF mine THEN "error" ELSE "needs_rebuild", !.lease = "none"]
       /\ FinishRebuild(w, ~mine)
  /\ EndTask(w)
  /\ UNCHANGED job

\* The row could not be written: the rebuild ends, its lease is left to expire.
AbandonRebuild(w) ==
  /\ task[w].kind = "rebuild" /\ pc[w] # "next"
  /\ EndTask(w) /\ FinishRebuild(w, FALSE)
  /\ UNCHANGED <<row, job>>

\* What the next call of this worker meets: a state row that moved on, or a
\* collection that is missing or already there.
Refused(w) ==
  \/ pc[w] \in AssertedPcs /\ ~sure[w] /\ ~Current(w)
  \/ ~exists /\ (pc[w] = "delete" \/ (pc[w] = "upsert" /\ sure[w]))
  \/ exists /\ pc[w] = "create" /\ sure[w]

Fails(w) ==
  /\ \/ task[w].kind = "outbox" /\ LeaveJob(w) /\ UNCHANGED row
     \/ FailRebuild(w)
  /\ UNCHANGED <<settings, art, qdrant, adm>>

IndexChanged(w) == Refused(w) /\ Fails(w) /\ UNCHANGED bounds

\* The row of the job could not be written: the claim is left to expire.
AbandonJob(w) ==
  /\ task[w].kind = "outbox" /\ pc[w] \in JobPcs /\ Step(w, pc[w], "next")
  /\ task' = [task EXCEPT ![w].todo = @ \ {cur[w]}]
  /\ UNCHANGED <<row, job, cur, doc, queue>>

\* A call to MySQL, Qdrant or the embedding service returns an error.
OperationFails(w) ==
  /\ faults < MaxFaults /\ faults' = faults + 1
  /\ \/ Fails(w)
     \/ AbandonJob(w) /\ UNCHANGED <<settings, art, qdrant, adm>>
     \/ AbandonRebuild(w) /\ UNCHANGED <<settings, art, qdrant, adm>>
     \/ /\ pc[w] \in {"state", "claim"} /\ EndTask(w)
        /\ UNCHANGED <<shared, queue, adm>>
     \/ /\ pc[w] = "idle" /\ asked[w] # NoFp
        /\ EndTask(w) /\ FinishRebuild(w, FALSE)
        /\ UNCHANGED <<shared, adm>>
     \/ /\ starter[w] /\ starter' = [starter EXCEPT ![w] = FALSE]
        /\ UNCHANGED <<shared, worker, asked, pending, adm>>
  /\ UNCHANGED <<edits, saves>>

\* startQueuedRebuild.
StartQueued(w) ==
  /\ starter[w]
  /\ \/ settings.enabled /\ asked[w] = NoFp /\ asked' = [asked EXCEPT ![w] = settings.fp]
        /\ UNCHANGED pending
     \/ settings.enabled /\ asked[w] # NoFp /\ pending' = [pending EXCEPT ![w] = TRUE]
        /\ UNCHANGED asked
     \/ ~settings.enabled /\ UNCHANGED <<asked, pending>>
  /\ starter' = [starter EXCEPT ![w] = FALSE]
  /\ UNCHANGED <<shared, worker, adm, bounds>>

-----------------------------------------------------------------------------
(* Administrators.                                                         *)

\* The manual Rebuild of the administration page.
AdminRebuild(w) ==
  /\ saves < MaxSaves /\ saves' = saves + 1
  /\ settings.enabled /\ asked[w] = NoFp
  /\ asked' = [asked EXCEPT ![w] = settings.fp]
  /\ UNCHANGED <<shared, worker, pending, starter, adm, edits, faults>>

\* UpdateSettings reads the settings, overwrites them, and only then marks the
\* index and starts a rebuild.
SaveRead(d) ==
  /\ saves < MaxSaves /\ saves' = saves + 1
  /\ adm[d] = NoRequest
  /\ \E w \in Workers, new \in Settings :
       adm' = [adm EXCEPT ![d] = [pc |-> "write", host |-> w, old |-> settings, new |-> new]]
  /\ UNCHANGED <<shared, worker, queue, edits, faults>>

\* Broken variant: turning RAG on again with another embedding is no change.
SaveWriteIfChanged(d) ==
  /\ adm[d].pc = "write"
  /\ settings' = adm[d].new
  /\ LET old == adm[d].old
         new == adm[d].new
     IN adm' = [adm EXCEPT ![d] = IF old.enabled /\ new.enabled /\ new.fp # old.fp
                                  THEN [@ EXCEPT !.pc = "mark"] ELSE NoRequest]
  /\ UNCHANGED <<row, art, job, qdrant, worker, queue, bounds>>

SaveWrite(d) ==
  /\ adm[d].pc = "write"
  /\ settings' = adm[d].new
  /\ LET old == adm[d].old
         new == adm[d].new
     IN adm' = [adm EXCEPT ![d] = IF new.enabled /\ (new.fp # old.fp \/ ~old.enabled)
                                  THEN [@ EXCEPT !.pc = "mark"] ELSE NoRequest]
  /\ UNCHANGED <<row, art, job, qdrant, worker, queue, bounds>>

SaveMark(d) ==
  /\ adm[d].pc = "mark" /\ adm' = [adm EXCEPT ![d].pc = "start"]
  /\ Mark(adm[d].new.fp)
  /\ UNCHANGED <<settings, art, job, qdrant, worker, queue, bounds>>

SaveStart(d) ==
  /\ adm[d].pc = "start" /\ adm' = [adm EXCEPT ![d] = NoRequest]
  /\ StartRebuild(adm[d].host, adm[d].new.fp)
  /\ UNCHANGED <<shared, worker, bounds>>

\* The client disconnects or a statement fails: the request ends where it is.
SaveFails(d) ==
  /\ faults < MaxFaults /\ faults' = faults + 1
  /\ adm[d] # NoRequest /\ adm' = [adm EXCEPT ![d] = NoRequest]
  /\ UNCHANGED <<shared, worker, queue, edits, saves>>

-----------------------------------------------------------------------------
(* Articles, time, crashes.                                                *)

\* An article is written, restored, hidden or deleted; the outbox row is
\* replaced in the same transaction and loses the claim it had.
Edit(a) ==
  /\ edits < MaxEdits /\ edits' = edits + 1
  /\ \E c \in Contents, vis \in Visibilities :
       /\ art' = [art EXCEPT ![a] = [content |-> c, vis |-> vis]]
       /\ job' = [job EXCEPT ![a] = [op |-> Operation(vis), lease |-> None]]
  /\ UNCHANGED <<settings, row, qdrant, worker, queue, adm, saves, faults>>

\* The time a scheduled article was waiting for comes.
TimePasses(a) ==
  /\ art[a].vis = "scheduled" /\ art' = [art EXCEPT ![a].vis = "public"]
  /\ UNCHANGED <<settings, row, job, qdrant, worker, queue, adm, bounds>>

\* The lease covers the worst case of a batch: it outlives only a dead claim.
JobLeaseExpires(a) ==
  /\ job[a] # NoJob /\ job[a].lease # None
  /\ LET w == job[a].lease IN ~(task[w].kind = "outbox" /\ a \in task[w].todo)
  /\ job' = [job EXCEPT ![a].lease = None]
  /\ UNCHANGED <<settings, row, art, qdrant, worker, queue, adm, bounds>>

\* Broken variant: the lease of a dead rebuild never expires.
RebuildLeaseForever == row.lease = "expired" /\ UNCHANGED vars

\* A running rebuild renews its lease.
RebuildLeaseExpires ==
  /\ row.lease = "live"
  /\ \A w \in Workers : ~(task[w].kind = "rebuild" /\ task[w].epoch = row.epoch)
  /\ row' = [row EXCEPT !.lease = "expired"]
  /\ UNCHANGED <<settings, art, job, qdrant, worker, queue, adm, bounds>>

\* The process dies, with the requests it serves, and is started again.
Crash(w) ==
  /\ faults < MaxFaults /\ faults' = faults + 1
  /\ EndTask(w)
  /\ asked' = [asked EXCEPT ![w] = NoFp]
  /\ pending' = [pending EXCEPT ![w] = FALSE]
  /\ starter' = [starter EXCEPT ![w] = FALSE]
  /\ adm' = [d \in Admins |-> IF adm[d] # NoRequest /\ adm[d].host = w THEN NoRequest ELSE adm[d]]
  /\ UNCHANGED <<shared, edits, saves>>

-----------------------------------------------------------------------------
Loop(w) == Poll(w) \/ ReadState(w) \/ ClaimJobs(w) \/ EndBatch(w)

ProcessJob(w) ==
  \/ NextJob(w) \/ AssertIndexState(w) \/ ReadArticle(w) \/ DeletePoints(w)
  \/ Upsert(w) \/ FinishJob(w)

Rebuild(w) ==
  \/ Begin(w) \/ DropCollection(w) \/ CreateCollection(w) \/ ListPublicArticles(w)
  \/ AllIndexed(w) \/ ReadLatestSettings(w) \/ Release(w) \/ Complete(w)

Work(w) == Loop(w) \/ ProcessJob(w) \/ Rebuild(w) \/ IndexChanged(w)

Save(d) == SaveWrite(d) \/ SaveMark(d) \/ SaveStart(d)

Next ==
  \/ \E w \in Workers : Work(w) \/ StartQueued(w) \/ AdminRebuild(w) \/ OperationFails(w) \/ Crash(w)
  \/ \E d \in Admins : SaveRead(d) \/ Save(d) \/ SaveFails(d)
  \/ \E a \in Articles : Edit(a) \/ TimePasses(a) \/ JobLeaseExpires(a)
  \/ RebuildLeaseExpires

Spec == Init /\ [][Next]_vars

(* The ticker polls every two seconds, goroutines and requests run on, and    *)
(* leases of dead owners expire.                                               *)
Fairness ==
  /\ \A w \in Workers : WF_vars(Work(w)) /\ WF_vars(StartQueued(w))
  /\ \A d \in Admins : WF_vars(Save(d))
  /\ \A a \in Articles : WF_vars(JobLeaseExpires(a)) /\ WF_vars(TimePasses(a))
  /\ WF_vars(RebuildLeaseExpires)

FairSpec == Spec /\ Fairness

-----------------------------------------------------------------------------
(* Properties.                                                             *)

\* The points a search at the epoch of the row can return.
Searchable == {q \in coll : q.epoch = row.epoch}

\* What the index has, and what it should have, of one article.
Indexed(a) == {q.content : q \in {o \in Searchable : o.article = a}}
Wanted(a)  == IF art[a].vis = "public" THEN {art[a].content} ELSE {}

\* The outbox contract: an article whose vectors are not up to date has a job,
\* so that nothing is forgotten and nothing withdrawn stays searchable for good.
IndexComplete ==
  row.status = "ready" => \A a \in Articles : job[a] = NoJob => Indexed(a) = Wanted(a)

\* A state row becomes ready only when the collection of its epoch has been
\* built in full, in the embedding the row names: no stale owner, settings
\* change or crash can put a partial or foreign collection into service.
ReadyMeansRebuilt ==
  [][row.status # "ready" /\ row'.status = "ready" =>
       /\ exists
       /\ \A q \in Searchable' : q.fp = row'.fp
       /\ \A a \in Articles : job'[a] = NoJob => Indexed(a)' = Wanted(a)']_vars

\* A worker whose epoch is no longer that of the row never changes what can be
\* searched: its late writes and deletions stay in their own epoch.
StaleOwnersAreFenced ==
  [][\A w \in Workers :
       task[w].kind # "none" /\ task[w].epoch # row.epoch /\ pc'[w] # pc[w]
         => Searchable' = Searchable]_vars

\* Whoever crashes or fails, an enabled index whose row names the configured
\* embedding ends up ready and with an empty outbox.
IndexConverges ==
  <>[](settings.enabled /\ row.fp = settings.fp /\ row.epoch < LastEpoch
         => row.status = "ready" /\ \A a \in Articles : job[a] = NoJob)

\* An enabled index always becomes ready for the embedding that is configured.
EnabledBecomesReady ==
  []<>(settings.enabled /\ row.epoch < LastEpoch
         => row.status = "ready" /\ row.fp = settings.fp)
=============================================================================
