# Notes of Ashen: models, checks and proofs

TLA+ models of the blog under `src/`, its Go backend and its React frontend, the TLC
runs that check them on small instances, and TLAPS proofs of the theorems that hold
for every instance.
`PROJECT.json` maps each definition to the lines it models and lists runs,
mutants, hazards, findings and theorems.

1. [The system](#1-the-system)
2. [The modules](#2-the-modules)
3. [The runs](#3-the-runs)
4. [Fairness](#4-fairness)
5. [What is proved](#5-what-is-proved)
6. [Where the code does not do what it says](#6-where-the-code-does-not-do-what-it-says)
7. [What is not modelled](#7-what-is-not-modelled)
8. [Plan](#8-plan)

## 1. The system

Notes of Ashen is a personal blog: a Go API (`cmd/notes-of-ashen`, `internal/`,
`model/`) over MySQL, Redis, and optionally a search engine (`internal/search`),
RabbitMQ, and Qdrant with DashScope for a chat over the articles; a media volume;
and a React frontend. Several API processes may run behind nginx on one MySQL,
one Redis and one media volume (`docs/OPERATIONS.md`). There is no coordination
but rows, Redis keys and one file lock, so nearly everything hard about the code
lies between the statements of a handler: another process, a crash or a failed
call may come between any two.

The frontend (`frontend/src`) is one page application per browser tab. A tab runs one
step at a time, but every `await` lets clicks, timers and the answers of other
requests in before the handler goes on, and an answer may come after the page, the
form or the account it was for is gone. What a tab has in common with other tabs is
the cookie of the refresh token and the local storage.

| Component | State | Operations | Talks to | What is hard |
|---|---|---|---|---|
| Whole-site restore | marker row, journal file, staging and rollback directories, Redis lease | restore, start-up recovery, rollback, publish, finalize | MySQL, media volume, Redis, RAG epoch | crashes between renames, a commit whose answer is lost, two processes |
| Media library | `media_assets`, root and hidden files, file lock | upload, delete, repair | articles (references), restore | crashes and errors between file, row and rename; failing repairs |
| RAG index and outbox | settings, `rag_index_state`, `rag_sync_jobs`, Qdrant collection | edit, poll, job, rebuild, save settings, lease takeover | articles, restore, Qdrant | stale owners, stale reads, settings changed during a rebuild |
| RAG retrieval and chat | chat history, epoch read by a request | search, quote, stream | index, articles | hits of articles hidden meanwhile |
| Authentication and sessions | `users`, `refresh_tokens`, access tokens, user cache | register, login, refresh, logout, change password, role, status | Redis cache, codes | check-then-act across statements, stale cache |
| Verification codes | Redis keys | send, consume, clear | mail | a late failure clears a newer code |
| Articles and versions | `articles`, versions, tags | create, update, publish, restore a version | outbox, caches, search | publication times, version order |
| Article caches | Redis prefixes | read, fill, evict | articles | fill after eviction |
| Search index | documents | upsert, delete, reindex | articles | unordered background updates |
| Request limits | Redis windows and slots, admission count | acquire, renew, release | every route | expired leases, maintenance admission |
| Operation log | queue, `operation_logs` | publish, fall back, consume | RabbitMQ | duplicates and losses |
| Migrations | `schema_migrations` | run under GET_LOCK | MySQL | DDL that ran but was not recorded |
| Taxonomy, settings, resume | rows | single transactions | caches | little of their own |
| Traffic and statistics | counters | increments, reports | - | little |
| Session client | access token and user in memory, cookie, refresh in flight, where the tab is | request, retry, replay after 401, refresh, start-up, login, logout, route guard | every page, sessions of the backend | concurrent 401s, lost answers, two refreshes, expiry on the way |
| Article editor | form, baseline, stored draft, save and AI request in flight | open, type, autosave, recover, save, AI assistance, insert media | articles, local storage | edits between an answer and its question, drafts over a failed load |
| Content pages of the console | list, query, counted requests, busy row | filter, turn, write, delete after confirmation | articles, media, users, logs | answers out of order, refresh after a write |
| Settings pages of the console | form over what was loaded, operation under way | load, edit, save, test, rebuild, backup, restore | settings, AI, RAG, restore | saving what was never loaded, outcome of an older draft |
| Pages of the reader and frame | query in the address, results, suggestions, archive tree, panels | navigate, search, expand, like | articles, search | stale results, keyboard over a changing list |
| Forms of an account | captcha image, code, countdown, submission | reload, type, send mail code, submit | sessions, codes | code of one image with the identifier of another |
| Chat page | account, access level, chats, turns, streams | ask, stop, retry, open, delete | RAG chat, session client | account or chat changed under a stream |
| Shared parts of the pages | confirmation, list requests, pagination | ask, accept, refuse | all pages | one dialog for all |
| Rendering and texts | - | Markdown, diagrams, translation, themes | - | - |
| AI and mail clients, configuration, routing, deployment | - | I/O, wiring | - | - |

What makes each correct, in short:

* restore: atomic for an observer; no file that the database refers to is lost;
  maintenance ends; a committed restore is finished by somebody.
* media: a listed asset keeps its file, unless a repair cannot look at it (6.7); nothing
  unlisted is served; no decision is taken on a library that still needs repair.
* RAG: whatever a ready index lacks is in the outbox; only a complete rebuild makes
  it ready; workers of old epochs do no harm; an enabled index becomes ready in the
  embedding configured last.
* sessions: one successor per refresh token; changing an account ends its sessions;
  somebody can always administer the site.
* session client: no write is carried out twice; the tab's own refreshes never end
  its session; after an expiry the way back is kept; no draft outlives its session.
* editor: a draft that is offered for recovery stays stored until the article is saved or
  something is typed in spite of the offer; nothing is written over what was never loaded;
  the AI replaces the text it read and no other.
* console and reader: a list shows the answer to its last query; the outcome of a test
  is shown for the connection it was about; the confirmed project is the one removed.
* account and chat: a captcha code read from an image goes with that image; nothing of an
  earlier account is shown to the next.

`PROJECT.json` "hazards" has what is hard to test in this code, each at its line.

## 2. The modules

| Module | Models |
|---|---|
| `SiteRestore` | the whole-site restore, one action per durable step |
| `AtomicRestore` | what it promises: database and media replaced in one step |
| `RestoreManualDump` | the restore beside a database dump loaded by hand |
| `SiteRestore_proofs` | theorems about `SiteRestore` and `RestoreManualDump` |
| `MediaLibrary` | uploads, deletions and their repair |
| `MediaLibrary_proofs` | theorems about `MediaLibrary` |
| `RagIndex` | outbox, rebuilds, settings and the points in Qdrant |
| `RagSiteRestore` | `RagIndex` with the whole-site restore as one more action |
| `RagIndex_proofs` | theorems about `RagIndex` and `RagSiteRestore` |
| `AuthSession` | accounts, refresh tokens and the access check |
| `AuthSession_proofs` | theorems about `AuthSession` |
| `SessionClient` | the session of one tab: interceptors, refresh, start-up, way back, drafts |
| `SessionClient_proofs` | theorems about `SessionClient` |
| `PageKit` | what pages are made of: the mounted page, list requests, the confirmation |
| `ArticleEditor` | the article editor with drafts, saves and AI |
| `ArticleEditor_proofs` | its invariant, kept by every step of the editor |
| `EditorWidgets` | its taxonomy boxes and the media picker |
| `ContentAdmin` | the console's lists and charts |
| `SettingsAdmin` | the console's forms |
| `AdminConsole` | the console: the four modules above over one page and one dialog |
| `ReaderPages` | the reader's pages and the frame |
| `AccountForms` | login, registration, forgotten password, profile |
| `AskChat` | the chat page and its stream |
| `AskChat_proofs` | its invariant and a theorem about the chat alone |
| `WebPages` | all pages composed |
| `WebPages_proofs` | theorems about all pages, from the invariant of each |
| `MC*` | instances: archives, sites, symmetry, a view |

### SiteRestore

`db` and `root` are the media keys of the database and of the media root; a key
stands for file and content, for files are named by their hash. `marker` is the
`__backup_restore_marker` row, `journal` the file `.restore-journal.json`,
`staging` and `rollback` the hidden directories of each restore id (the entry
`Dot` tells an empty directory from none), `lease` the Redis key. A process has a
step `pc`, a `phase` (recovery at boot, recovery before a restore, the restore)
and its memory: the transaction `tx`, the marker it `seen`, the archive, and the
files its rename loop has still `todo`. Each action is a durable step (a rename, a
directory made or removed, the journal replaced, a transaction) so that `Crash`
and `OperationFails` fall between any two. `BeginRestore` ... `RestoreArchiveMedia`
stage the files, `CommitDatabase` is `RestoreBackupWithMarker`, `CheckMarker` the
look at the marker after an error, `PublishPhase`, `MoveCurrentMediaToRollback`
and `MoveStagedMediaToRoot` publish, `ClearMarker` and `Finalize` end it;
`RecoverRestore` and `RecoverTo` decide from marker and journal whether to finish
or undo. `Boot` skips recovery while another owner holds the key, as `main.go` does.

`AtomicSpec` is `AtomicRestore` under the mapping given at the end of the module:
the abstract site changes when the database commits.

`RestoreManualDump` adds `LoadOlderDump`: operators are told to load MySQL dumps by
hand (`docs/OPERATIONS.md`), which can take the marker away after publication
began. Only then do the reverse loops of `Rollback` run.

### MediaLibrary

`row` is the id of a key's row (0: none), `root` and `hidden` the files, each
"none", "partial" or "whole" (the hash matches), `lock` the holder of
`.operations.lock`, `op` what a request does, `todo` what its repair has still to
handle. Every operation locks, runs `recoverMediaStaging` (`Scan`, `RecoverEntry`)
and then its own steps; `CallFails` makes any statement or rename of an operation fail
without effect and follows the error paths; `Crash` drops the lock, as the kernel does.
A repair fails in two ways. `RepairFails` is an error that is logged, after which the
entry is skipped. `RepairMisreads` is one that is taken for an answer: when `os.Stat`
cannot say whether the published file is there, the quarantined one is removed, and a
published file that cannot be read is removed as corrupt. The history variable `unseen`
has the keys whose quarantined file went that way and that have not been stored since.
`Cite` and `Uncite` are the articles.

### RagIndex and RagSiteRestore

`row` is the state row (status, epoch, fingerprint, lease), `job` the outbox,
`coll` the points in Qdrant with epoch, content and embedding. A worker polls
(`Poll`, `ReadState`), claims and works off jobs (`ClaimJobs`, `AssertIndexState`,
`ReadArticle`, `DeletePoints`, `Upsert`, `FinishJob`) or rebuilds (`Begin`,
`DropCollection` ... `Complete`); `sure` says that its last look at the state row
has not been followed by a call. `SaveRead` ... `SaveStart` is `UpdateSettings` in
its four steps; `FinishRebuild` and `StartQueued` are the queue behind a running
rebuild. Lease tokens are drawn with the epoch, so the epoch stands for them.
`RagSiteRestore` adds what `resetRAGIndexStateAfterRestore` does in the restore
transaction. It composes the index with the restore at that one transaction:
nothing else of `SiteRestore` touches the index.

### AuthSession

`users` has role, status and token version, `tokens` the refresh tokens, `access`
the access tokens given out, `cached` the 30-second user cache. `op` is what a
request has read so far. Registration, login and refresh end in `ReadVersion` and
`Insert` (`issueTokens`); password and administrator's changes are transactions
that count the version up and revoke (`UpdatePassword`; `LockAdmins`, then
`UpdateUser`), followed by `Evict`; every access is `Authenticate`, then
`ResolveCached` or `ResolveMiss`, `Load`, `Fill`. Two fields of a token are history
variables the code does not have: `seen`, the version when the password was last
checked, and `late`, that the account changed between the last check of the
request and its token.

### SessionClient

`call` is each request of the page, from `Send` over `Serve` or `Break` (the answer is
lost) to `Finish`, `RetryRead`, `Replay` or `AwaitRefresh`: the branches of the response
interceptor in `utils/http.ts`. `Me` is the request of `fetchUser`. `flight` are the
requests to `/auth/refresh`, each with the cookie it left with; `task` is
`refreshTokenTask`, the one all callers wait on. `init` is `initializeAuth`, `store`
the auth store, `guard`, `route` and `drafts` what `ProtectedRoute`, `App` and the
draft storage hold. The server `srv` is what the client depends on: one live refresh
token that every refresh replaces, access tokens and whose they are. `Reload`,
`RevokeSession`, `AccessExpires` and `OtherTab` are what happens around the tab. Three
variables are history: `runs` of a call counts how often the server carried a write
out, `told` that the user was told the session had expired, and `lost` that something
other than the tab itself had ended it.

### PageKit and the pages

One page is mounted at a time: `page` names it, `ui` is the record of its React state
(`useState` and `useRef`) with the requests it waits for, and is lost when the page
unmounts; `dialog` is the confirmation, which one request holds and which keeps the
page behind it out of reach. A handler is an action up to its first `await`, and what
comes after each `await` is another action, for the answer of the server and for its
failure. List pages count their requests in a ref and keep the answer of the newest
only; `ListAnswered` takes any request in flight, so answers come in every order. The
rows shown are represented by the query they are of.

* `ArticleEditor`. `article` is the server's articles, `drafts` the local storage,
  `saves` the saves in flight (`useSubmit` lets them run after the page is left).
  Fields are values that say where they come from (typed, generated, kept from the
  server); the content is the sequence of its paragraphs. `Render` is the effect that
  recovers a draft or lets it go when the form changes; `handleSave`,
  `EdSaveSummarized`, `EdPut`, `EdSaved`, `EdListOpens` are one save in its awaits. The
  answer removes the draft of the article wherever the user is by then, also when the
  editor was left and opened again; the list of articles opens when its page is loaded.
  `handleAIAssist`, `EdAssistAnswered`, `applyAIContent` are the assistance of the AI.
* `EditorWidgets`. `TaxonomyCombobox` as a state machine of query, open list, active
  option and selection under the keyboard and the mouse, with creation of a category
  or tag; the media picker with its delayed, counted search and upload.
* `ContentAdmin`, `SettingsAdmin`. A page per section of the module, each with its
  mount, answers, controls and writes. `AIStart` and `canStartAISettingsOperation`
  keep one operation at a time; `jobs` say of which draft they are.
* `AdminConsole`. The composition of the four: `AdminLayout` keys its outlet by the
  path, so the pages share only the dialog, the drafts and the saves in flight.
* `ReaderPages`. The query is in the address and the earlier request aborted, so an
  aborted request is one that is not the newest; `searchbox` is the box with its
  suggestions and recent searches, `buildArchiveTree` the tree of the archive.
* `AccountForms`. An image is the number of the request that brought it; `id` is the
  image whose identifier the form sends and `code` the one its code was read from. The
  input takes text at any time: what is typed while no image is shown is `Blind`.
* `AskChat`. A chat carries its owner; a stream the account, the chat and the turn it
  is for and whether it was aborted. `asks` and `loads`, the requests for the list and
  for a chat, carry the account that sent them, too, and stay on their way when they are
  aborted: only the abort keeps their answers from the next account. `requestRAGStream` refreshes and repeats,
  `OnEvent` shows what arrives, `ForgetAccount` cleans up when the account changes.
* `WebPages`. All of these over the same `page`, `ui` and `dialog`.

What the pages know of the account is in `SessionClient` and, for the chat, in
`AskChat`; the other pages only see whether a request succeeds.

## 3. The runs

| Run | Instance | Shows |
|---|---|---|
| `site_restore` | 2 processes, 2 keys, 2 restores, 2 faults | safety, refinement of `AtomicSpec` and convergence of the restore |
| `manual_dump` | 1 process, 2 restores, 1 fault | a rollback that is not interrupted gives back exactly the old media |
| `restart_converges` (violation) | 1 process, 1 fault | finding 6.1 |
| `rollback_twice` (violation) | 1 process, 2 faults | finding 6.2 |
| `media_library` | 2 keys, 2 requests, 3 uploads, 2 deletions, 2 crashes, 2 errors, 2 failing or misreading repairs; 0.3 million states | safety of media operations |
| `rag_takeover` | 2 workers, 1 article, 1 save, 1 fault | stale owners are harmless and survivors finish |
| `rag_settings` | 1 worker, 2 embeddings, 3 saves in turn | the last configured embedding becomes ready |
| `rag_site` | 1 worker, 2 contents, 2 embeddings, 1 edit, 2 saves, 1 fault, 1 archive | index completeness across a restore and at the last epoch |
| `auth_session` | 2 users, 2 requests, 3 tokens, 3 changes, 5 of both together | rotation, revocation, the last administrator |
| `session_client` | 1 user, 2 calls beside `fetchUser`, 2 token pairs, 1 fault; 1.8 million states | writes once, rotation harmless, way back kept, drafts over |
| `web_pages` | 1 article, contents of up to 2 paragraphs, 3 edits, 2 rows, 3 list requests, 1 job, 3 projects, 1 chat, 2 turns, 2 streams, 2 requests of the chat under way, 1 name and a new one; 0.7 million states | drafts, lists, forms, dialogs and chats of every page |
| `ask_stopped` (violation) | the chat alone, 2 streams | finding 6.6 |

Why the bounds are enough:

* restore: two processes are needed for the lease to matter, two restores for the
  remains of one to meet the other, two keys for archives that share a file, add one
  and drop one, and two faults for a failure while a failure is being repaired.
  Three of anything adds no new kind of interleaving; the theorems cover it.
* media: the third upload of a deleted key meets the remains of two earlier
  operations; two failing repairs are what it takes for a stale entry to outlive
  the row it belonged to.
* RAG: articles are independent except in the batch and the rebuild, where
  `BatchSize` 1 already splits loops; two workers are needed for a takeover; three
  saves cross one rebuild twice and go back to the first embedding; epochs end at 3
  or 4 so that the boundary is met. `IndexComplete` runs with one worker since with
  two it is false (6.4), and settings are saved one at a time in the passing runs
  because of the limit named in 6.7.
* sessions: two requests at a time make every race of two, and three changes let
  an account be promoted and then both administrators demote one another. The
  view drops access tokens of an old version and what a revoked row says beyond
  owner and parent: no action reads them.
* session client: two calls and `fetchUser` make three requests that can be answered
  401 at once, one refreshing and two waiting or late. The first pair of tokens is a
  login's, the second a refresh's. One fault is enough for each of a lost answer, a
  revocation, a reload and another tab; `SessionClient_proofs` covers any number.
* pages: three list requests let the second be answered after the third while the
  first is still out; three projects are what a swap beside a removal needs; three
  edits of the editor are a text, an image or AI answer in it, and a change back.
  In the chat two requests under way are an aborted one and the one that took its
  place, of a question, the list or a chat. Recent searches are cut at two instead of ten, texts have the classes the code tells
  apart (empty, too long for the AI, too long to save).

`CHECK_DEADLOCK FALSE` is said where the bounds let a model run out of requests
(media, sessions, pages) or where the system may rest (RAG). Symmetry is used only in runs
without liveness.

Every property of a passing run has a mutant of the model that breaks it, written
beside the definition as a "Broken variant".

## 4. Fairness

* `SiteRestore`: a running process takes its next step (`Proceed`), a process that
  is down is started again (`restart: unless-stopped` in `docker-compose.yml`), and a
  Redis key whose owner died expires (`restoreLeaseTTL`, 30 minutes).
  `RestoreConverges` is checked under `PersistentSpec`, which adds an administrator
  who asks again; that it fails without one is finding 6.1. Commands do not fail for
  ever, since faults are bounded.
* `RagIndex`: the ticker of two seconds and the goroutines go on (`Work`,
  `StartQueued`), a settings request that was begun goes on (`Save`), claims and
  leases expire, scheduled articles become public. There is none for edits or
  the administrator's rebuild.
* `MediaLibrary`, `AuthSession`, `SessionClient` and the pages state safety only, and
  assume no fairness: a request may stay unanswered, and a user may stop.

## 5. What is proved

For any number of processes, keys, users, articles, requests and faults, from the named
assumptions on the constants (`ConstantsAssumption`, `NoJournalAssumption`,
`NoJobAssumption`, `SessionAssumption`) alone:

* `SiteRestore_proofs`: type correctness, mutual exclusion, recoverability of a
  committed restore, no referenced file lost, consistency at rest, publication only
  after the commit, the marker cleared last, start-up refuses only after a failure in
  that run, and that `SiteRestore` implements `AtomicSpec`.
  None of these is inductive alone: where a file is depends on the journal, and what
  the journal means depends on the marker and on how far the loop of the one busy
  process is. `IInv` joins `TypeOK`, `OnlyLeaseOwnerRestores`, `DiskInv` (what the
  volume and the database look like for each journal state) and `PcInv` (what the
  memory of a process says of them at each step). There is a lemma per action, each
  by the state of the owner and `OthersIdle`; the refinement needs in addition that
  the abstract site does not change at any step but the commit (`DatabaseSteps`).
  `DumpMediaKept` and `DumpSettles` are `RolledBackMediaKept` and
  `SettledMediaMatchesDatabase` with an older dump loaded by hand, for a site that meets
  at most one fault (`MaxFaults <= 1`; with two the first is false, 6.2). A dump is loaded
  only when every process is down, so the one fault has happened (`DownAfterFault`), and
  what `IInv` says of the volume no longer holds: the journal is in the middle of a
  publication and the marker is gone. `DumpIInv` is therefore either `IInv` or
  `TakingBack`, which says how far the way back is: nothing moved (`Untouched`), or at the
  step of the one busy process which files the root and the rollback directory share
  out between them (`TakesBack`). Each step of the way back keeps `TakingBack`; the last,
  which removes the journal, leads back to `IInv`.
* `MediaLibrary_proofs`: type correctness, `NoFileLost`, `OnlyListedServed` and
  `RepairedBeforeUse`. `NoFileLost` makes two claims: a listed asset that is not in
  `unseen` has a file, whatever failed, and while no repair has failed it is whole. `IInv` adds to these the lock (`LockInv`), what an operation
  in progress has made (`OpInv`), and, as long as no repair has failed, that every
  hidden file is one its own operation or the next repair accounts for
  (`RepairableInv`, `StepInv`). Without `StepInv` an operation could not know that
  rows and files agree at the moment it decides.
* `RagIndex_proofs`: type correctness, `StaleOwnersAreFenced`, `ReadyMeansRebuilt`, and
  that no two processes rebuild at a time. `OwnerInv` says which step belongs to which
  task and that a rebuild under way holds the row under its own epoch, while a batch of
  jobs is of an epoch no rebuild has: what a batch writes late can then not be searched.
  `BuildInv` says of every article the rebuild is done with that its points are what
  they should be, or that it has a job. The job must be one no batch is about to delete
  (`Pending`), else a batch that was asserted before the rebuild began could take away
  the only trace of an edit during it; and that a scheduled article becomes public by
  time alone is covered because its job is there and unclaimed (`ScheduledInv`).
  These hold for `Spec`, where a running rebuild renews its lease in time.
  `NothingIsForgotten` is `IndexComplete` for one API process (`OneProcess`; with two it
  is false, 6.4). It needs `BatchInv`: while a batch holds the claim on an article, the
  operation it claimed, what it has read and what it has written are what the article
  is now, because every edit takes the claim away. Without the claim its job is still
  there, so what the batch writes does not matter yet.
  `RestoredSiteIsIndexed` and `RestoredReadyIsRebuilt` are the same and
  `ReadyMeansRebuilt` with restores of the site, for one process and archives without
  scheduled articles (`NothingScheduled`; 6.5 is what happens with one). A restore takes
  the row from a task under way, which breaks `OwnerInv`; `RestoreInv` says that such a
  task is of an earlier epoch and that the row needs a rebuild until it ends (`Stale`).
  With several processes a rebuild that lost the row to a restore may drop the
  collection another has begun (6.7), so nothing is claimed there but the types.
* `AuthSession_proofs`: type correctness and the five properties of `auth_session`.
  `RegisterInv` says that what a registration decided under its lock still holds,
  `AdminInv` that at most one change has the administrators locked and its count of
  them still holds. `IssueInv` says what a request about to issue a token knows of the
  token it was shown and of the version of its user, so that a change in between either
  is seen or makes the new token a late one; `RotationInv` that a token with a successor,
  issued or on its way, is revoked, and by whom. Without the part about the way two
  refreshes between revocation and insertion could share one parent.
* `SessionClient_proofs`: type correctness, `WriteOnce`, `OwnRotationKeepsSession`,
  `ReturnsWhereItExpired` and `DraftsEndWithSession`, for any number of users,
  requests, tokens and faults. `WriteInv` says that a write that was answered 401 has
  not run and that one whose answer was lost is not sent again; `WayInv` says where the
  guard and the route are when a session has expired; `KeptInv` that the server knows
  the tab's session, or the tab is visiting, unless something outside ended it. The
  last needs `FlightInv`: at most one refresh is under way, the one of
  `initializeAuth` is over before another can begin, and until the store is ready the
  tab holds no token. Without it two refreshes could leave with one cookie.

* `WebPages_proofs`, with `AskChat_proofs` and `ArticleEditor_proofs`: the eight properties
  of `web_pages`, for any contents, accounts, lists, projects, chats and numbers of
  requests and edits. `WebInv` has one invariant per kind of page, which speaks of `ui` only
  while such a page is mounted. A handler runs only on its own page, and either stays there
  or leaves it (`StepOf`), so a step has to be looked at only against the invariant of its
  own page; what outlives a page, the saves of the editor and the dialog, is in
  `EditorInv` and `ProjectsInv`.
  * `EditorInv`: a save in flight of an existing article carries the fields that were
    loaded; a page that is not ready neither asks the AI nor holds its answer
    (`EditorStateInv`). `OfferInv` says that an autosave is set only for a form
    that differs from what was loaded, and that nothing is offered before that. `RewritesWhatItRead` and `OfferedDraftKept` are properties of steps and are
    shown handler by handler (`Careful`).
  * `ChatInv`: turns, list and open chat are of the account signed in, and so are the
    current stream, the only one that may change them, and every request for the list or
    a chat that was not aborted.
  * `ListsInv`: the newest request is for the query asked last, and a list that neither
    loads nor failed shows that query. An answer that is not of the newest request
    changes nothing.
  * `FormsInv`: while the newest image is on its way none is shown; a code that was read
    from an image is of the one shown, and what a submission carries was so when it left.
  * `AIInv`: while an operation runs its draft is that of the form; models and tests are
    of the form's connection. `StoreInv`: settings said to be loaded were loaded, and
    every save is over loaded ones.
  * `ProjectsInv`: while the confirmation is open nothing loads, saves or swaps, and the
    project at the position is still the one that was asked about.

So every invariant and every action property of a passing run is stated by a theorem.
Only model-checked is all liveness (`MaintenanceEnds`, `RestoreConverges`,
`IndexConverges`, `EnabledBecomesReady`): fairness and ENABLED are out of the prover's
reach. Not claimed at all are `IndexComplete` with a scheduled article in the archive
(6.5) and the manual dump with a second fault (6.2).

## 6. Where the code does not do what it says

1 and 2 and 6 are runs that expect a violation. The others were met while modelling
and are stated by no run; the passing runs are set up so as not to depend on them.

1. `cmd/notes-of-ashen/main.go:178`. A process restarted before the Redis key of its
   dead predecessor expires skips recovery, and nothing tries again later.
2. `internal/logic/media/restore.go:534`. A rollback interrupted after it put back an
   old file whose key the archive shares removes that file when it runs again.
3. `internal/logic/media/media.go:234`. A reference saved between the check and the
   deletion is left without its file.
4. `model/rag.go:164`. An edit takes the claim of a job from a worker in the middle of
   it; the slower of two workers overwrites what the other indexed.
5. `model/backup.go:331`. A restored scheduled article gets no outbox row and is
   never indexed when it becomes public.
6. `frontend/src/api/rag.ts:133`. The repeated request after a refresh is inside the
   `try` whose `catch` signs out: stopping the question at that moment ends a session
   that has just been renewed, and drops the user's drafts.
7. Limits of the code that no run states:
   * `internal/logic/rag/rag.go:109`: two settings requests that cross can leave the
     state row with another embedding than the settings; every rebuild is then
     refused until somebody saves again.
   * `internal/logic/rag/rag.go:109`: a job between the settings and the mark of the
     state row writes vectors of the new embedding at the old epoch.
   * `internal/rag/worker.go:486`: a rebuild that stalls after it renewed its lease may
     still drop the collection another has begun to fill.
   * `internal/logic/backup/backup.go:292`: a COMMIT that takes effect after the
     connection is lost and the marker was read leaves a marker without a journal.
   * `internal/logic/media/restore.go:428`: readers see half-replaced media while files
     are moved (the frontend is in maintenance, direct URLs are not).
   * `internal/logic/media/media.go:133`: an INSERT whose answer is lost leaves a row
     whose staged file was removed.
   * `internal/logic/media/media.go:387`: after three failed repairs a whole
     quarantined file can be dropped for a partial published one.
   * `internal/logic/media/media.go:395`: a repair that cannot find out whether the
     published file is there (any error of `os.Stat` but `ErrNotExist`) removes the
     quarantined file, which can be the only copy of a listed asset. `NoFileLost` leaves
     such keys out (`unseen`).
   * `internal/logic/media/media.go:350`: a published file that cannot be read is taken
     for corrupt and removed; the staged file that takes its place may be half written
     when an earlier repair has failed.
   * `model/article.go:1036`: an article withdrawn and published again gets a new
     publication time, although lines 1029-1030 keep the old one for that case.
   * `internal/logic/auth/auth.go:405`: a login or refresh overtaken by a password
     change gets tokens of the new version; `docs/interview` knows it as S01.
     `SessionsEndWithVersion` says that nothing else survives.
   * `frontend/src/utils/http.ts:84`: the flag that an expiry was handled is taken down
     by the event of the sign-out it guards, so several failed requests each tell the
     user; `docs/interview/06-前端架构与工程质量.md:220` says once.
   * `frontend/src/api/rag.ts:122`: the chat refreshes outside the single flight of
     `http.ts`; two refreshes with one cookie sign the user out.
   * `frontend/src/pages/Ask.tsx:173`: an older chat that is still opening when a
     question is sent replaces the turns on the screen while the answer goes on.
   * `frontend/src/pages/Ask.tsx:213`: deleting the open chat while a question streams
     aborts the stream but leaves the form waiting for it.
   * `frontend/src/pages/admin/ArticleEditor.tsx:705`: text typed while a save is under
     way is lost with the draft when the save succeeds.
   * `frontend/src/pages/admin/ArticleEditor.tsx:705`: so is a draft that the same editor,
     left during the save and opened again, is offering for recovery; and line 591 saves a
     form changed in spite of the offer over the draft. `OfferedDraftKept` allows
     these two and no other loss.
   * `frontend/src/components/CaptchaField.tsx:49`: a code typed while an image loads is
     kept when the image arrives, and is sent with its identifier.
     `CodeIsOfTheImageShown` is about codes read from an image.
   * `frontend/src/pages/Search.tsx:234`: the active suggestion is a position, kept when
     other suggestions arrive; Enter may choose another one than was read.
   * `frontend/src/pages/admin/ArticleVersions.tsx:49`: the list of versions does not
     count its requests; the refresh after a restore, and a page turned meanwhile, may
     be shown in either order. `ListsShowTheLastQuery` leaves this page out.
   * `frontend/src/pages/Profile.tsx:81`: the profile is said to be updated whether or
     not the user could be read again.

   * Races of the backend without a module: a mail that fails after the cooldown deletes
     the code a newer request stored (`internal/security/code.go:126`); an article list
     read before an edit is cached after the eviction and lives two minutes
     (`internal/logic/article/cache.go:60`); background updates of the search index are
     not ordered, and a reindex overwrites them (`internal/logic/article/search.go:95`,
     `:82`); an event may be both published and written (`internal/mq/event.go:137`); a
     migration may have run without being recorded
     (`internal/migration/migration.go:477`); role and status read before a change are
     cached after its eviction (`internal/middleware/auth.go:163`); a second restore may
     begin between two lease checks of one whose key was lost
     (`internal/security/restore_lease.go:128`); a slot whose heartbeat failed is
     given out before its holder has stopped (`internal/middleware/concurrency.go:127`);
     hits of an article hidden after the filter are still quoted
     (`internal/logic/rag/rag.go:298`).

## 7. What is not modelled

* restore: building and validating archives, clearing caches, the cut-off of access
  tokens and the search reindex afterwards; requests of the site beside a restore
  (maintenance admission); loss of the Redis key while its owner lives
  (`restore_lease.go:125`); a release of the lease that fails and leaves the key to its
  TTL (`:184`).
* media: image validation, listing, alternative texts, statements whose answer is lost.
  The row of an asset is inserted and deleted, or is not.
* RAG: counts, back-off times, connection tests, chat history, retrieval. A claim
  stands for its owner, so a worker that claims again what it lost is not told apart.
* sessions: captchas and mail codes, which an atomic script consumes, so that they
  only turn requests away; profile edits; expiry and deletion of tokens; the global
  cut-off after a restore; a failing Redis, which acts like a missing entry.
* session client: roles and features that are open to guests, time limits of requests
  (a timeout is a lost answer), the progress bar, uploads. Other tabs are their effect
  on cookie and storage.
* pages: one field stands for fields the code treats alike; the words of messages and
  validation, focus, scrolling, animation, reading statistics, charts beyond their
  state, downloads. The Markdown preview, collapsible panels and shortcuts of the
  editor. What a project says (only that the form was changed), and the timeouts of an AI
  connection, which are sent with it only when valid and are not what feedback is about.
  The decoding of a stream and the sources of an answer. Each page is explored
  from a fresh mount, with the dialog, drafts and saves the pages share; going from one
  page to another is `EdOpen` and `EdLeave` of the editor.
* rendering, translation tables, themes and preferences, titles for search engines:
  no state of the program depends on them.
* components without a module: see `PROJECT.json` "components". Statistics, clients of
  external services, validation, routing and the deployment files keep no state whose
  interleavings matter here, or are I/O.

## 8. Plan

The order follows what a fault costs: data loss first, then wrong access, then what
users and readers see.

1. Done: `SiteRestore`, `MediaLibrary`, `RagIndex`, `AuthSession`; `SessionClient` and
   the pages.
2. `PublicContent`: articles with versions and publication times, the list caches
   with their deadlines, and the search index with its unordered updates, as one
   module with an abstract "what a reader may be shown".
3. `ConcurrencySlots` and maintenance admission: slots never exceed the limit while
   heartbeats arrive; then requests beside a restore, composed with `SiteRestore`.
4. `SessionClient` with the stream of `AskChat` and the server of `AuthSession` over one
   cookie, for the two refreshes named in 6.7.
5. `OperationLog` (at least once or lost, by configuration) and `Migrations`
   (GET_LOCK, a migration that ran but was not recorded), each small.
6. `ChatSources`: no quote of an article hidden before the search began, composed
   with `RagIndex`.
7. Verification codes, lost answers in `MediaLibrary`, a liveness run for the user
   cache, loss of the Redis key in `SiteRestore`.
8. Proofs: with several processes, which of the theorems about `RagIndex` survive a
   restore of the site (6.7); the steps of the liveness arguments that are safety, such
   as a measure that every step of a restore decreases.

The project keeps to a dozen runs: new passing runs take the place of runs that show
a known finding, which then stays documented in section 6.
