---------------------------- MODULE SettingsAdmin ----------------------------
(***************************************************************************)
(* The pages of the console that hold a form over what the server has:     *)
(*   pages/admin/Settings.tsx with store/siteSettings(Policy).ts           *)
(*   pages/admin/AISettings.tsx with aiSettingsPolicy.ts                   *)
(*   pages/admin/RAGSettings.tsx, ProjectsContent.tsx                      *)
(*   pages/admin/System.tsx with backupPolicy.ts                           *)
(* A form is what the user sees (draft) over what it was loaded from.      *)
(***************************************************************************)
EXTENDS PageKit

CONSTANTS MaxProjects   \* bound on the projects of the page

NotLoaded == "nothing"

------------------------------------------------------------------------------
(* The site's settings: the store App and the pages share, and the form.   *)

canWriteSiteSettings(u) == u.hasLoaded
areSiteSettingsControlsDisabled(u) == ~u.hasLoaded \/ u.isLoading

\* What executeFetchSettings does before its request.
FetchSettings(u) == [u EXCEPT !.isLoading = TRUE, !.failed = FALSE, !.fetches = @ + 1]

\* The application may have loaded the store before, or still be loading it.
SettingsStore(l, f) == [server |-> "a", value |-> IF l THEN "a" ELSE NotLoaded, draft |-> "a",
                        hasLoaded |-> l, isLoading |-> f > 0, failed |-> FALSE, fetches |-> f,
                        jobs |-> {}, error |-> FALSE]
SettingsMount(l, f) == FetchSettings(SettingsStore(l, f))

\* The form follows every change of the store.
toSiteSettingsState(u, v) == [u EXCEPT !.value = v, !.draft = IF v # u.value THEN v ELSE @]

executeFetchSettings ==
  /\ page = "settings" /\ ui.fetches > 0
  /\ LET u == [ui EXCEPT !.fetches = @ - 1, !.isLoading = FALSE]
     IN  \/ Becomes([toSiteSettingsState(u, ui.server) EXCEPT !.hasLoaded = TRUE, !.failed = FALSE])
         \/ Becomes([u EXCEPT !.hasLoaded = FALSE, !.failed = TRUE])

SettingsRetry == /\ At("settings") /\ ~ui.hasLoaded /\ ui.failed /\ ui.fetches < 2
                 /\ Becomes(FetchSettings(ui))

SettingsForm == At("settings") /\ ui.hasLoaded /\ ~areSiteSettingsControlsDisabled(ui)
SettingsHasChanges == ui.draft # ui.value

SettingsType  == SettingsForm /\ \E v \in {"a", "b"} : Becomes([ui EXCEPT !.draft = v])
SettingsReset == SettingsForm /\ SettingsHasChanges /\ Becomes([ui EXCEPT !.draft = ui.value, !.error = FALSE])

\* Refused unless loaded; the answer is what the server keeps.
executeUpdateSettings ==
  /\ page = "settings"
  /\ \/ /\ SettingsForm /\ SettingsHasChanges
        /\ IF canWriteSiteSettings(ui)
           THEN Becomes([ui EXCEPT !.isLoading = TRUE, !.error = FALSE,
                                   !.jobs = {[draft |-> ui.draft, over |-> ui.value]}])
           ELSE Becomes([ui EXCEPT !.error = TRUE])
     \/ \E j \in ui.jobs :
          LET u == [ui EXCEPT !.jobs = {}, !.isLoading = FALSE]
          IN  \/ Becomes([toSiteSettingsState([u EXCEPT !.server = j.draft], j.draft)
                           EXCEPT !.hasLoaded = TRUE])
              \/ Becomes([u EXCEPT !.error = TRUE])

\* Another administrator.
SettingsOther == page = "settings" /\ \E v \in {"a", "b"} : Becomes([ui EXCEPT !.server = v])

------------------------------------------------------------------------------
(* The settings of the AI.                                                 *)

\* url, key and clear say with whom one talks; time whether the timeouts are valid.
toAISettingsDraft(v) == [url |-> v, model |-> "m", key |-> FALSE, clear |-> FALSE, time |-> TRUE]
NoAISettings == [toAISettingsDraft(NotLoaded) EXCEPT !.model = ""]

AIMount == [draft |-> NoAISettings, baseline |-> NoAISettings, asks |-> {1}, req |-> 1,
            loading |-> TRUE, hasLoaded |-> FALSE, operation |-> "none", job |-> NoAISettings,
            models |-> NoAISettings, tested |-> NoAISettings, error |-> FALSE]

isAISettingsTimeoutInvalid(d) == ~d.time
isAISettingsDirty(u) == u.baseline # NoAISettings /\ u.draft # u.baseline
\* The list of models is of a connection, a test of a connection and a model.  The timeouts go
\* with both requests, valid ones, but what is answered is not of them
\* (hasAIConnectionIdentityChanged).
buildAIConnectionReq(d) == [d EXCEPT !.model = "", !.time = TRUE]
buildAIModelTestReq(d)  == [d EXCEPT !.time = TRUE]

resetConnectionFeedback(u) == [u EXCEPT !.models = NoAISettings, !.tested = NoAISettings]

applyRemoteSettings(u, d) == resetConnectionFeedback([u EXCEPT !.draft = d, !.baseline = d])

AILoadSettings ==
  /\ At("ai") /\ ~ui.loading /\ ~ui.hasLoaded /\ CanAsk(ui)
  /\ Becomes([ui EXCEPT !.req = @ + 1, !.asks = @ \cup {ui.req + 1}, !.loading = TRUE, !.error = FALSE])

AILoaded ==
  /\ page = "ai" /\ \E a \in ui.asks :
       LET u == [ui EXCEPT !.asks = @ \ {a}]
       IN  IF a # ui.req THEN Becomes(u)
           ELSE \/ Becomes([applyRemoteSettings(u, toAISettingsDraft("u"))
                             EXCEPT !.hasLoaded = TRUE, !.loading = FALSE])
                \/ Becomes([u EXCEPT !.draft = NoAISettings, !.baseline = NoAISettings,
                                     !.error = TRUE, !.loading = FALSE])

canStartAISettingsOperation(u) == u.operation = "none"
\* Broken variant: the form stays open while an operation runs.
AIFormOpen == At("ai") /\ ui.hasLoaded
\* The form is there once loaded, and closed while an operation runs.
AIForm == At("ai") /\ ui.hasLoaded /\ canStartAISettingsOperation(ui)

\* A change of the connection takes down what was said of the one before.
AIUpdateConnectionDraft ==
  /\ AIForm
  /\ \/ \E v \in {"", "u", "v"} : Becomes(resetConnectionFeedback([ui EXCEPT !.draft.url = v]))
     \/ ~ui.draft.clear /\ \E k \in BOOLEAN :
          Becomes(resetConnectionFeedback([ui EXCEPT !.draft.key = k]))
     \/ ~ui.draft.key /\ \E c \in BOOLEAN :
          Becomes(resetConnectionFeedback([ui EXCEPT !.draft.clear = c]))

AIHandleModelChange ==
  /\ AIForm /\ \E m \in {"", "m", "n"} : Becomes([ui EXCEPT !.draft.model = m, !.tested = NoAISettings])

AIUpdateTimeouts == AIForm /\ \E b \in BOOLEAN : Becomes([ui EXCEPT !.draft.time = b])

AIHandleCancel == /\ AIForm /\ isAISettingsDirty(ui)
                  /\ Becomes(resetConnectionFeedback([ui EXCEPT !.draft = ui.baseline, !.error = FALSE]))

AIStart(op) == /\ canStartAISettingsOperation(ui) /\ ~isAISettingsTimeoutInvalid(ui.draft)
               /\ Becomes([ui EXCEPT !.operation = op, !.job = ui.draft, !.error = FALSE])
AIFinish(u) == [u EXCEPT !.operation = "none", !.job = NoAISettings]
AIFails     == Becomes([AIFinish(ui) EXCEPT !.error = TRUE])

\* What is saved is a draft made from what was loaded; the answer takes its place.
AIHandleSubmit ==
  /\ page = "ai"
  /\ \/ AIForm /\ isAISettingsDirty(ui) /\ AIStart("save")
     \/ ui.operation = "save" /\ Becomes(AIFinish(applyRemoteSettings(ui, [ui.job EXCEPT !.key = FALSE, !.clear = FALSE])))
     \/ ui.operation = "save" /\ AIFails

AIHandleGetModels ==
  /\ page = "ai"
  /\ \/ AIForm /\ ~ui.draft.clear /\ ui.draft.url # "" /\ AIStart("models")
     \/ ui.operation = "models" /\ Becomes([AIFinish(ui) EXCEPT !.models = buildAIConnectionReq(ui.job)])
     \/ ui.operation = "models" /\ AIFails

AIHandleTestModel ==
  /\ page = "ai"
  /\ \/ AIForm /\ ~ui.draft.clear /\ ui.draft.url # "" /\ ui.draft.model # "" /\ AIStart("test")
     \/ ui.operation = "test" /\ Becomes([AIFinish(ui) EXCEPT !.tested = buildAIModelTestReq(ui.job)])
     \/ ui.operation = "test" /\ AIFails

AINext == \/ AILoadSettings \/ AILoaded \/ AIUpdateConnectionDraft \/ AIHandleModelChange
          \/ AIUpdateTimeouts \/ AIHandleCancel \/ AIHandleSubmit \/ AIHandleGetModels
          \/ AIHandleTestModel

------------------------------------------------------------------------------
(* The settings of the RAG chat, with the state of its index.              *)

RAGMount == [draft |-> NotLoaded, baseline |-> NotLoaded, status |-> FALSE, asks |-> {1}, req |-> 1,
             loading |-> TRUE, operation |-> "none", saved |-> FALSE, error |-> FALSE]

\* Settings and status come together or not; what failed is taken down.
RAGLoaded ==
  /\ page = "rag" /\ \E a \in ui.asks, ok, st \in BOOLEAN :
       LET u == [ui EXCEPT !.asks = @ \ {a}]
       IN  Becomes(IF a # ui.req THEN u
                   ELSE [u EXCEPT !.loading = FALSE, !.error = ~ok, !.status = st,
                                  !.draft = IF ok THEN "a" ELSE NotLoaded,
                                  !.baseline = IF ok THEN "a" ELSE NotLoaded])

RAGForm == At("rag") /\ ~ui.loading /\ ui.draft # NotLoaded /\ ui.operation = "none"

\* The button under the notice, or in the form.
RAGLoad == /\ At("rag") /\ ~ui.loading /\ CanAsk(ui) /\ (ui.draft = NotLoaded \/ RAGForm)
           /\ Becomes([ui EXCEPT !.req = @ + 1, !.asks = @ \cup {ui.req + 1}, !.loading = TRUE,
                                 !.error = FALSE])

RAGUpdateDraft == RAGForm /\ \E v \in {"a", "b", "invalid"} : Becomes([ui EXCEPT !.draft = v, !.error = FALSE])
RAGRestore     == RAGForm /\ ui.draft # ui.baseline /\ Becomes([ui EXCEPT !.draft = ui.baseline, !.error = FALSE])

\* Saved, then the status is asked for: its failure is told as that of the save.
RAGSave ==
  /\ page = "rag"
  /\ \/ /\ RAGForm /\ ui.draft \notin {ui.baseline, "invalid"}
        /\ Becomes([ui EXCEPT !.operation = "save", !.error = FALSE])
     \/ ui.operation = "save" /\ Becomes([ui EXCEPT !.operation = "status", !.baseline = ui.draft])
     \/ ui.operation = "status" /\ Becomes([ui EXCEPT !.operation = "none", !.status = TRUE])
     \/ ui.operation \in {"save", "status"} /\ Becomes([ui EXCEPT !.operation = "none", !.error = TRUE])

RAGTestConnection ==
  /\ page = "rag"
  /\ \/ RAGForm /\ Becomes([ui EXCEPT !.operation = "test"])
     \/ ui.operation = "test" /\ \E ok \in BOOLEAN : Becomes([ui EXCEPT !.operation = "none", !.error = ~ok])

RAGRebuild ==
  /\ page = "rag"
  /\ \/ RAGForm /\ Enqueue([op |-> "rebuild", id |-> "none", q |-> "none"])
     \/ Accepts("rebuild") /\ ui' = [ui EXCEPT !.operation = "rebuild"]
     \/ ui.operation = "rebuild" /\ \E ok \in BOOLEAN :
          Becomes([ui EXCEPT !.operation = "none", !.status = @ \/ ok])

RAGNext == RAGLoaded \/ RAGLoad \/ RAGUpdateDraft \/ RAGRestore \/ RAGSave \/ RAGTestConnection \/ RAGRebuild

------------------------------------------------------------------------------
(* The projects of the page of projects, in their order.                   *)

\* A project is a number; saved says whether the form was loaded and differs from what the
\* server has, kept which projects that were, in their order.
Loadable == {<<>>, <<1, 2>>}

ProjectsMount == [saved |-> NotLoaded, items |-> <<>>, kept |-> <<>>, next |-> 3, loading |-> TRUE, saving |-> FALSE,
                  over |-> NotLoaded, collapsed |-> {}, error |-> FALSE, picker |-> 0]

ProjectsLoaded ==
  /\ page = "projects" /\ ui.loading
  /\ \/ \E s \in Loadable : Becomes([ui EXCEPT !.loading = FALSE, !.saved = "loaded", !.items = s,
                                                !.kept = s])
     \/ Becomes([ui EXCEPT !.loading = FALSE, !.error = TRUE])

\* The form is there after a failure, too, but then has nothing to save.
ProjectsForm == At("projects") /\ ~ui.loading /\ ~ui.saving /\ ui.picker = 0
\* Broken variant: the empty form of a failed load is a change.
ProjectsAnyChange(u) == u.items # <<>> \/ u.saved = "changed"
ProjectsHasChanges(u) == u.saved = "changed"

\* An edit makes the form differ from what was loaded, if it was.
Edited(u) == [u EXCEPT !.saved = IF @ = NotLoaded THEN @ ELSE "changed"]

addProject ==
  /\ ProjectsForm /\ Len(ui.items) < MaxProjects /\ ui.next < 5
  /\ Becomes(Edited([ui EXCEPT !.items = Append(@, ui.next), !.next = @ + 1]))

updateProject ==
  /\ ProjectsForm /\ (\E i \in DOMAIN ui.items : ui.items[i] \notin ui.collapsed) /\ Becomes(Edited(ui))

\* A media item goes where the picker was opened, by position.  Its buttons work during a save,
\* too; the answer of the save then takes the place of what was picked.
ProjectsMediaSelect ==
  /\ At("projects")
  /\ \/ /\ ~ui.loading /\ ui.picker = 0
        /\ \E i \in DOMAIN ui.items : ui.items[i] \notin ui.collapsed /\ Becomes([ui EXCEPT !.picker = i])
     \/ ui.picker # 0 /\ Becomes([Edited(ui) EXCEPT !.picker = 0])
     \/ ui.picker # 0 /\ Becomes([ui EXCEPT !.picker = 0])

Swap(s, i, j) == [s EXCEPT ![i] = s[j], ![j] = s[i]]
\* Broken variant: the buttons work behind the confirmation.
MoveReachable == page = "projects" /\ ~ui.loading /\ ~ui.saving
ProjectsReachable == ProjectsForm
moveProject ==
  /\ ProjectsReachable /\ \E i, j \in DOMAIN ui.items :
       (j = i + 1 \/ i = j + 1) /\ ui' = Edited([ui EXCEPT !.items = Swap(@, i, j)])
  /\ UNCHANGED <<page, dialog>>

\* Removed by its position, as it was when the button was pressed.
Without(s, i) == SubSeq(s, 1, i - 1) \o SubSeq(s, i + 1, Len(s))
removeProject ==
  /\ page = "projects"
  /\ \/ ProjectsForm /\ \E i \in DOMAIN ui.items :
          Enqueue([op |-> "project", id |-> i, q |-> ui.items[i]])
     \/ /\ Accepts("project")
        /\ ui' = Edited([ui EXCEPT !.items = Without(@, dialog.id), !.collapsed = @ \ {ui.items[dialog.id]}])

toggleProjectCollapsed ==
  /\ At("projects") /\ ~ui.loading /\ ui.picker = 0
  /\ \E i \in DOMAIN ui.items :
       LET n == ui.items[i]
       IN  Becomes([ui EXCEPT !.collapsed = IF n \in @ THEN @ \ {n} ELSE @ \cup {n}])

ProjectsSave ==
  /\ page = "projects"
  /\ \/ /\ ProjectsForm /\ ProjectsHasChanges(ui)
        /\ Becomes([ui EXCEPT !.saving = TRUE, !.over = ui.saved, !.error = FALSE])
     \/ ui.saving /\ Becomes([ui EXCEPT !.saving = FALSE, !.over = NotLoaded, !.saved = "loaded",
                                         !.kept = ui.items, !.collapsed = {}])
     \/ ui.saving /\ Becomes([ui EXCEPT !.saving = FALSE, !.over = NotLoaded, !.error = TRUE])

\* Back to what was loaded.
ProjectsReset ==
  /\ ProjectsForm /\ ProjectsHasChanges(ui)
  /\ Becomes([ui EXCEPT !.items = ui.kept, !.saved = "loaded", !.collapsed = {}, !.error = FALSE])

ProjectsNext == \/ ProjectsLoaded \/ addProject \/ updateProject \/ ProjectsMediaSelect \/ moveProject
                \/ removeProject \/ toggleProjectCollapsed \/ ProjectsSave \/ ProjectsReset

------------------------------------------------------------------------------
(* Health of the system, and its backups.                                  *)

SystemMount == [polls |-> 1, loading |-> TRUE, health |-> FALSE, password |-> "", passphrase |-> "",
                confirmation |-> "", file |-> FALSE, busy |-> "none", error |-> FALSE]

\* Health is asked for again every 30 seconds, and by a button; answers come in any order.
SystemLoadHealth ==
  /\ page = "system"
  /\ \/ ui.polls < MaxJobs + 1 /\ Becomes([ui EXCEPT !.polls = @ + 1, !.loading = TRUE])
     \/ ui.polls > 0 /\ \E ok \in BOOLEAN :
          Becomes([ui EXCEPT !.polls = @ - 1, !.loading = FALSE, !.health = @ \/ ok])

isBackupPassphraseValid(p) == p = "good"
hasValidBackupCredentials(u) == u.password # "" /\ isBackupPassphraseValid(u.passphrase)
canStartBackupExport(u)  == u.busy = "none" /\ hasValidBackupCredentials(u)
canStartBackupRestore(u) == canStartBackupExport(u) /\ u.file /\ u.confirmation = "REPLACE"

\* Inputs are closed while an operation runs.
SystemInputs ==
  /\ At("system") /\ ui.busy = "none"
  /\ \/ \E p \in {"", "p"} : Becomes([ui EXCEPT !.password = p])
     \/ \E p \in {"", "short", "good", "long"} : Becomes([ui EXCEPT !.passphrase = p])
     \/ \E c \in {"", "REPL", "REPLACE"} : Becomes([ui EXCEPT !.confirmation = c])

\* A file of another kind takes the chosen one away.
SystemBackupFileChange ==
  /\ At("system") /\ ui.busy = "none"
  /\ \E f \in BOOLEAN : Becomes([ui EXCEPT !.file = f])

SystemExport ==
  /\ page = "system"
  /\ \/ At("system") /\ canStartBackupExport(ui) /\ Becomes([ui EXCEPT !.busy = "export", !.error = FALSE])
     \/ ui.busy = "export" /\ Becomes([ui EXCEPT !.busy = "none", !.password = "", !.passphrase = ""])
     \/ ui.busy = "export" /\ Becomes([ui EXCEPT !.busy = "none", !.error = TRUE])

\* Asked, checked again, restored; success signs out and reloads the application.
SystemRestore ==
  /\ page = "system"
  /\ \/ At("system") /\ canStartBackupRestore(ui) /\ Enqueue([op |-> "replace", id |-> "none", q |-> "none"])
     \/ /\ Accepts("replace")
        /\ ui' = IF canStartBackupRestore(ui) THEN [ui EXCEPT !.busy = "restore", !.error = FALSE] ELSE ui
     \/ ui.busy = "restore" /\ page' = "away" /\ ui' = "gone" /\ UNCHANGED dialog
     \/ ui.busy = "restore" /\ Becomes([ui EXCEPT !.busy = "none", !.error = TRUE])

SystemNext == SystemLoadHealth \/ SystemInputs \/ SystemBackupFileChange \/ SystemExport \/ SystemRestore

------------------------------------------------------------------------------
SettingsInit ==
  \/ page = "settings" /\ \E l \in BOOLEAN, f \in 0..1 : ui = SettingsMount(l, f)
  \/ page = "ai" /\ ui = AIMount
  \/ page = "rag" /\ ui = RAGMount
  \/ page = "projects" /\ ui = ProjectsMount
  \/ page = "system" /\ ui = SystemMount

SettingsNext ==
  \/ executeFetchSettings \/ SettingsRetry \/ SettingsType \/ SettingsReset
  \/ executeUpdateSettings \/ SettingsOther
  \/ AINext \/ RAGNext \/ ProjectsNext \/ SystemNext

------------------------------------------------------------------------------
(* Properties.                                                             *)

\* The models listed, and the outcome of a test, are of the connection (and model) the form
\* has now (AISettings.tsx:59, 199, 228): no edit, cancel or load leaves them standing for
\* another one, and no answer comes for a connection that was edited meanwhile.
AIFeedbackIsOfItsDraft ==
  page = "ai" => /\ ui.models # NoAISettings => ui.models = buildAIConnectionReq(ui.draft)
                 /\ ui.tested # NoAISettings => ui.tested = buildAIModelTestReq(ui.draft)

\* A project is removed by its position after the user has confirmed (ProjectsContent.tsx:101):
\* what is at that position then is the project he was asked about.
RemovesTheConfirmedProject ==
  page = "projects" /\ dialog.op = "project" => ui.items[dialog.id] = dialog.q

\* Nothing is saved over what was never loaded: a failed load leaves no form that could
\* replace the server's settings or projects with defaults (siteSettingsPolicy.ts:20,
\* ProjectsContent.tsx:67).
WrittenOverLoaded ==
  /\ page = "settings" => \A j \in ui.jobs : j.over # NotLoaded
  /\ page = "projects" /\ ui.saving => ui.over # NotLoaded
=============================================================================
