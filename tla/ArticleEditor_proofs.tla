------------------------- MODULE ArticleEditor_proofs -------------------------
(***************************************************************************)
(* The editor of articles (ArticleEditor): the invariant by which a save   *)
(* is made over what was loaded, and the proof that every step keeps it,   *)
(* puts a rewritten text where it was read, and keeps the draft on offer   *)
(* or takes it as a save or the autosave of a changed form does.  The      *)
(* invariant types the page and the storage, which saves write after the   *)
(* page is gone, and says what a page that is not loaded cannot have:      *)
(* neither an answer of the AI nor a question to it.                       *)
(***************************************************************************)
EXTENDS ArticleEditor, TLAPS

FieldNames == DOMAIN emptyEditorDraft
Filled(f)  == DOMAIN f = FieldNames /\ f.title # "none"
FilledOrNot(f) == f = NoFields \/ Filled(f)

DraftOK(d) == d = NoDraft \/ (DOMAIN d = {"fields", "newer"} /\ Filled(d.fields))

\* The articles of the server and the drafts of the storage.
StorageOK(a, d) == /\ DOMAIN a = Articles /\ \A k \in Articles : Filled(a[k])
                   /\ DOMAIN d = EdKeys /\ \A k \in EdKeys : DraftOK(d[k])

SaveOK(s) == /\ DOMAIN s = {"key", "fields", "over", "mine", "phase"}
             /\ s.key \in EdKeys /\ Filled(s.fields)
             /\ s.key \in Articles => s.over # NoFields

UiNames == {"key", "fields", "ready", "base", "status", "recovery", "skip", "timer", "assist", "ai",
            "saving", "picker"}

\* The page u.  One that is not ready has no baseline yet, and neither asks the AI nor has
\* its answer.
EditorUiOK(u) ==
  /\ DOMAIN u = UiNames /\ u.key \in EdKeys
  /\ Filled(u.fields) /\ FilledOrNot(u.base) /\ FilledOrNot(u.recovery)
  /\ u.key = "new" => u.status = "ready"
  /\ u.status = "ready" => u.base # NoFields
  /\ u.status # "ready" => u.ai = NoAIDraft /\ u.assist = NoAssist

EditorStateInv ==
  /\ StorageOK(article, drafts)
  /\ \A s \in saves : /\ SaveOK(s) /\ page \in {"editor", "away"}
                      /\ s.mine => page = "editor"
  /\ InEditor => EditorUiOK(ui)

\* The autosave waits only while there is something to keep in the form; before the page is
\* loaded it does not, and nothing is offered.
OfferInv ==
  InEditor => /\ ui.timer => ~NothingToKeep(ui)
              /\ ui.status # "ready" => ~ui.ready /\ ~ui.timer /\ ui.recovery = NoFields

EditorInv == EditorStateInv /\ OfferInv

------------------------------------------------------------------------------
(* The operators the editor is built from.                                 *)

LEMMA EmptyFilled == Filled(emptyEditorDraft) /\ ~Filled(NoFields)
BY DEF Filled, FieldNames, emptyEditorDraft, NoFields

LEMMA KeysOfEditor == "new" \in EdKeys /\ "new" \notin Articles /\ Articles \subseteq EdKeys
BY EditorAssumption DEF EdKeys

LEMMA FieldsChanged ==
  ASSUME NEW f, Filled(f), NEW v
  PROVE  /\ Filled([f EXCEPT !.summary = v]) /\ Filled([f EXCEPT !.seo = v])
         /\ Filled([f EXCEPT !.gen = v]) /\ Filled([f EXCEPT !.cover = v])
         /\ Filled([f EXCEPT !.content = v]) /\ (v # "none" => Filled([f EXCEPT !.title = v]))
BY DEF Filled, FieldNames, emptyEditorDraft

\* A draft that becomes older, is written, or is removed.
SameFields(d) == \A j \in EdKeys : d[j].fields = drafts[j].fields

LEMMA DraftOlder ==
  ASSUME StorageOK(article, drafts), NEW k \in EdKeys
  PROVE  LET d == [drafts EXCEPT ![k].newer = FALSE]
         IN  StorageOK(article, d) /\ SameFields(d)
<1> DEFINE e == [drafts[k] EXCEPT !.newer = FALSE]
<1>1. DraftOK(e) /\ e.fields = drafts[k].fields
  <2>1. CASE drafts[k] = NoDraft
    <3>1. NoDraft \in [fields : {NoFields}, newer : {FALSE}]
      BY DEF NoDraft
    <3>2. e \in [fields : {NoFields}, newer : {FALSE}]
      BY <2>1, <3>1
    <3>3. e = NoDraft
      BY <3>1, <3>2
    <3> QED
      BY <2>1, <3>3 DEF DraftOK
  <2>2. CASE drafts[k] # NoDraft
    <3>1. DOMAIN drafts[k] = {"fields", "newer"} /\ Filled(drafts[k].fields)
      BY <2>2 DEF StorageOK, DraftOK
    <3>2. DOMAIN e = {"fields", "newer"} /\ e.fields = drafts[k].fields
      BY <3>1
    <3> HIDE DEF e
    <3> QED
      BY <3>1, <3>2, EmptyFilled DEF DraftOK, NoDraft
  <2> QED
    BY <2>1, <2>2
<1> HIDE DEF e
<1>2. LET d == [drafts EXCEPT ![k] = e] IN StorageOK(article, d) /\ SameFields(d)
  BY <1>1 DEF StorageOK, SameFields
<1> QED
  BY <1>2 DEF e

LEMMA DraftWritten ==
  ASSUME StorageOK(article, drafts), NEW k \in EdKeys, NEW f, Filled(f)
  PROVE  LET d == [drafts EXCEPT ![k] = [fields |-> f, newer |-> TRUE]]
         IN  StorageOK(article, d)
<1> DEFINE e == [fields |-> f, newer |-> TRUE]
<1>1. DraftOK(e)
  BY DEF DraftOK, NoDraft
<1> HIDE DEF e
<1>2. LET d == [drafts EXCEPT ![k] = e] IN StorageOK(article, d)
  BY <1>1 DEF StorageOK
<1> QED
  BY <1>2 DEF e

LEMMA DraftRemoved ==
  ASSUME StorageOK(article, drafts), NEW k \in EdKeys
  PROVE  StorageOK(article, DraftsLess(k))
BY DEF StorageOK, DraftsLess, DraftOK

\* What a render may do beside taking over the state: the timer is set or dropped, and the
\* draft goes when none is offered.
LEMMA RenderKeeps ==
  ASSUME StorageOK(article, drafts), NEW u, EditorUiOK(u), Render(u)
  PROVE  /\ StorageOK(article, drafts') /\ EditorUiOK(ui')
         /\ ui'.ai = u.ai /\ ui'.fields = u.fields
<1>1. \/ ui' = u \/ ui' = [u EXCEPT !.timer = FALSE] \/ ui' = [u EXCEPT !.timer = TRUE]
      \/ ui' = [[u EXCEPT !.timer = FALSE] EXCEPT !.skip = FALSE]
  BY DEF Render
<1>2. drafts' = drafts \/ (drafts' = DraftsLess(u.key) /\ u.recovery = NoFields)
  BY DEF Render, MayDropDraft
<1>3. /\ DOMAIN ui' = UiNames /\ ui'.key = u.key /\ ui'.fields = u.fields /\ ui'.base = u.base
      /\ ui'.recovery = u.recovery /\ ui'.status = u.status /\ ui'.ai = u.ai
      /\ ui'.assist = u.assist
  BY <1>1 DEF EditorUiOK, UiNames
<1>4. StorageOK(article, drafts')
  BY <1>2, DraftRemoved DEF EditorUiOK
<1> QED
  BY <1>2, <1>3, <1>4 DEF EditorUiOK

\* The baseline is there.  A draft says no more than it, or is offered.
LEMMA LoadedKeeps ==
  ASSUME StorageOK(article, drafts), NEW u, DOMAIN u = UiNames, u.key \in EdKeys,
         u.ai = NoAIDraft, u.assist = NoAssist, NEW base, Filled(base), Loaded(u, base)
  PROVE  StorageOK(article, drafts') /\ EditorUiOK(ui') /\ ui'.ai = u.ai
<1> DEFINE d == readEditorDraft(u.key)
           offer == shouldRecoverEditorDraft(d, base, u.key)
           r == IF offer THEN d.fields ELSE NoFields
           v == [u EXCEPT !.base = base, !.fields = base, !.status = "ready", !.ready = TRUE,
                          !.recovery = r]
<1>1. ui' = v /\ drafts' = IF offer /\ ~MayDropDraft(v) THEN drafts ELSE DraftsLess(u.key)
  BY DEF Loaded
<1>2. FilledOrNot(r) /\ (offer => Filled(r) /\ drafts[u.key] # NoDraft) /\ (~offer => r = NoFields)
  BY DEF shouldRecoverEditorDraft, readEditorDraft, StorageOK, DraftOK, FilledOrNot
<1> HIDE DEF offer, r
<1>3. /\ DOMAIN v = UiNames /\ v.key = u.key /\ v.fields = base /\ v.base = base /\ v.status = "ready"
      /\ v.recovery = r /\ v.ai = u.ai /\ v.assist = u.assist
  BY DEF UiNames
<1> HIDE DEF v
<1>4. r # NoFields => drafts' = drafts
  BY <1>1, <1>2, <1>3 DEF MayDropDraft
<1>5. StorageOK(article, drafts')
  BY <1>1, DraftRemoved
<1> QED
  BY <1>1, <1>2, <1>3, <1>4, <1>5, EmptyFilled DEF EditorUiOK, FilledOrNot

\* The page before its load effect.
LEMMA HooksOK ==
  ASSUME NEW k \in EdKeys
  PROVE  LET u == EditorHooks(k)
         IN  /\ DOMAIN u = UiNames /\ u.key = k /\ u.ai = NoAIDraft /\ u.assist = NoAssist
             /\ k # "new" => EditorUiOK(u)
BY EmptyFilled DEF EditorHooks, UiNames, EditorUiOK, FilledOrNot

\* The fields after an answer of the AI.
LEMMA CompletionFilled ==
  ASSUME NEW then, NEW f, Filled(f)
  PROVE  Filled(buildArticleCompletionPatch(then, f))
BY DEF buildArticleCompletionPatch, Filled, FieldNames, emptyEditorDraft

\* What changes one part of the page: its fields, what the AI is asked or has answered.
LEMMA UiChanged ==
  ASSUME NEW u, EditorUiOK(u), NEW v
  PROVE  /\ Filled(v) => EditorUiOK([u EXCEPT !.fields = v])
         /\ EditorUiOK([u EXCEPT !.picker = v]) /\ EditorUiOK([u EXCEPT !.timer = v])
         /\ EditorUiOK([u EXCEPT !.saving = v]) /\ EditorUiOK([u EXCEPT !.skip = v])
         /\ EditorUiOK([u EXCEPT !.ai = NoAIDraft]) /\ EditorUiOK([u EXCEPT !.assist = NoAssist])
         /\ EditorUiOK([u EXCEPT !.recovery = NoFields])
         /\ u.status = "ready" => /\ EditorUiOK([u EXCEPT !.ai = v])
                                  /\ EditorUiOK([u EXCEPT !.assist = v])
BY DEF EditorUiOK, UiNames, FilledOrNot

LEMMA OperableReady ==
  ASSUME EditorStateInv, InEditor, canOperateArticleEditor(ui.key, ui.status)
  PROVE  ui.status = "ready"
BY DEF EditorStateInv, EditorUiOK, canOperateArticleEditor

------------------------------------------------------------------------------
(* The steps of the editor.                                                *)

\* A step that takes the text of the AI away and changes the content put it where it was
\* read.
Rewrites ==
  InEditor /\ InEditor' /\ ui.ai # NoAIDraft /\ ui'.ai = NoAIDraft
  /\ ui'.fields.content # ui.fields.content
  => ui.fields.content[ui.ai.at] = ui.ai.source[ui.ai.at]

LEMMA EditorInitInv == EditorInit /\ page # "editor" => EditorInv
<1> SUFFICES ASSUME EditorInit, page # "editor" PROVE EditorInv
  OBVIOUS
<1>1. \A k \in Articles : Filled(Stored(k))
  BY DEF Stored, Filled, FieldNames, emptyEditorDraft
<1> QED
  BY <1>1 DEF EditorInit, EditorInv, EditorStateInv, OfferInv, StorageOK, DraftOK, InEditor

\* A page opens, loads, fails to load, loads again.
LEMMA OpenStep ==
  ASSUME EditorStateInv,
         (\E k \in EdKeys : EdOpen(k)) \/ EdBaselineLoaded \/ EdBaselineFailed \/ retryArticleBaseline
  PROVE  EditorStateInv' /\ Rewrites
<1>0. StorageOK(article, drafts)
  BY DEF EditorStateInv
<1>1. ASSUME NEW k \in EdKeys, EdOpen(k)
      PROVE  EditorStateInv' /\ Rewrites
  <2>1. /\ page = "away" /\ page' = "editor" /\ UNCHANGED <<article, saves>>
        /\ IF k = "new" THEN Loaded(EditorHooks(k), emptyEditorDraft)
           ELSE ui' = EditorHooks(k) /\ UNCHANGED drafts
    BY <1>1 DEF EdOpen
  <2>2. StorageOK(article, drafts') /\ EditorUiOK(ui')
    <3>1. CASE k = "new"
      <4> DEFINE u == EditorHooks(k)
      <4>1. DOMAIN u = UiNames /\ u.key = k /\ u.ai = NoAIDraft /\ u.assist = NoAssist
        BY HooksOK
      <4>2. Loaded(u, emptyEditorDraft)
        BY <2>1, <3>1
      <4> HIDE DEF u
      <4> QED
        BY <1>0, <4>1, <4>2, EmptyFilled, LoadedKeeps
    <3>2. CASE k # "new"
      <4>1. EditorUiOK(EditorHooks(k))
        BY <3>2, HooksOK
      <4> QED
        BY <1>0, <2>1, <3>2, <4>1
    <3> QED
      BY <3>1, <3>2
  <2> QED
    BY <2>1, <2>2 DEF EditorStateInv, InEditor, Rewrites
<1>2. CASE EdBaselineLoaded
  <2>1. /\ InEditor /\ ui.status = "loading" /\ Loaded(ui, articleToEditorDraft(ui.key))
        /\ UNCHANGED <<page, dialog, article, saves, edits>>
    BY <1>2 DEF EdBaselineLoaded
  <2>2. EditorUiOK(ui)
    BY <2>1 DEF EditorStateInv
  <2>3. ui.key \in Articles
    BY <2>1, <2>2 DEF EditorUiOK, EdKeys
  <2>4. Filled(articleToEditorDraft(ui.key))
    <3>1. Filled(article[ui.key])
      BY <1>0, <2>3 DEF StorageOK
    <3> QED
      BY <3>1, FieldsChanged DEF articleToEditorDraft
  <2>5. StorageOK(article, drafts') /\ EditorUiOK(ui') /\ ui.ai = NoAIDraft
    BY <1>0, <2>1, <2>2, <2>4, LoadedKeeps DEF EditorUiOK
  <2> QED
    BY <2>1, <2>5 DEF EditorStateInv, InEditor, Rewrites
<1>3. CASE EdBaselineFailed
  <2>1. /\ InEditor /\ ui.status = "loading" /\ ui' = [ui EXCEPT !.status = "error"]
        /\ UNCHANGED <<page, editor>>
    BY <1>3 DEF EdBaselineFailed
  <2>2. EditorUiOK(ui)
    BY <2>1 DEF EditorStateInv
  <2>3. EditorUiOK(ui') /\ ui.ai = NoAIDraft
    BY <2>1, <2>2 DEF EditorUiOK, UiNames
  <2> QED
    BY <2>1, <2>3 DEF EditorStateInv, InEditor, Rewrites, editor
<1>4. CASE retryArticleBaseline
  <2>1. /\ InEditor /\ resolveArticleEditorAccess = "error" /\ ui' = EditorHooks(ui.key)
        /\ UNCHANGED <<page, dialog, article, drafts, saves>>
    BY <1>4 DEF retryArticleBaseline
  <2>2. EditorUiOK(ui) /\ ui.key # "new" /\ ui.status # "ready"
    BY <2>1 DEF EditorStateInv, resolveArticleEditorAccess, canOperateArticleEditor
  <2>3. EditorUiOK(ui') /\ ui.ai = NoAIDraft
    BY <2>1, <2>2, HooksOK DEF EditorUiOK
  <2> QED
    BY <2>1, <2>3 DEF EditorStateInv, InEditor, Rewrites
<1> QED
  BY <1>1, <1>2, <1>3, <1>4

\* What leaves the page, or changes the storage under it.
LEMMA StorageStep ==
  ASSUME EditorStateInv, EdLeave \/ (\E k \in Articles : OtherEdits(k)) \/ EdAutosaveFires \/ discardLocalDraft
  PROVE  EditorStateInv' /\ Rewrites
<1>0. StorageOK(article, drafts) /\ (InEditor => EditorUiOK(ui))
  BY DEF EditorStateInv
<1>1. CASE EdLeave
  <2>1. InEditor /\ page' = "away" /\ saves' = Orphaned /\ UNCHANGED <<article, drafts>>
    BY <1>1 DEF EdLeave
  <2>2. \A s \in saves' : SaveOK(s) /\ s.mine = FALSE
    BY <2>1 DEF EditorStateInv, SaveOK, Orphaned
  <2> QED
    BY <1>0, <2>1, <2>2 DEF EditorStateInv, InEditor, Rewrites
<1>2. ASSUME NEW k \in Articles, OtherEdits(k)
      PROVE  EditorStateInv' /\ Rewrites
  <2>1. /\ article' = [article EXCEPT ![k].content = <<"other">>]
        /\ drafts' = [drafts EXCEPT ![k].newer = FALSE] /\ UNCHANGED <<kit, saves>>
    BY <1>2 DEF OtherEdits
  <2>2. k \in EdKeys
    BY DEF EdKeys
  <2>3. StorageOK(article, drafts')
    BY <1>0, <2>1, <2>2, DraftOlder
  <2> DEFINE f == [article[k] EXCEPT !.content = <<"other">>]
  <2>4. Filled(f)
    BY <1>0, FieldsChanged DEF StorageOK
  <2>5. article' = [article EXCEPT ![k] = f]
    BY <2>1
  <2> HIDE DEF f
  <2>6. StorageOK(article', drafts')
    BY <1>0, <2>3, <2>4, <2>5 DEF StorageOK
  <2>7. InEditor => EditorUiOK(ui)
    BY <1>0
  <2> QED
    BY <2>1, <2>6, <2>7 DEF EditorStateInv, InEditor, Rewrites, kit
<1>3. CASE EdAutosaveFires
  <2>1. /\ InEditor /\ drafts' = [drafts EXCEPT ![ui.key] = [fields |-> ui.fields, newer |-> TRUE]]
        /\ ui' = [ui EXCEPT !.timer = FALSE] /\ UNCHANGED <<page, article, saves>>
    BY <1>3 DEF EdAutosaveFires, writeEditorDraft
  <2>2. EditorUiOK(ui) /\ ui.key \in EdKeys /\ Filled(ui.fields)
    BY <1>0, <2>1 DEF EditorUiOK
  <2>3. StorageOK(article, drafts')
    BY <1>0, <2>1, <2>2, DraftWritten
  <2>4. EditorUiOK(ui')
    BY <2>1, <2>2, <2>3, UiChanged
  <2>5. ui'.fields = ui.fields
    BY <2>1, <2>2 DEF EditorUiOK, UiNames
  <2> QED
    BY <2>1, <2>3, <2>4, <2>5 DEF EditorStateInv, InEditor, Rewrites
<1>4. CASE discardLocalDraft
  <2>1. /\ InEditor /\ drafts' = DraftsLess(ui.key)
        /\ ui' = [ui EXCEPT !.recovery = NoFields, !.skip = TRUE] /\ UNCHANGED <<page, article, saves>>
    BY <1>4 DEF discardLocalDraft, RecoveryOffered, Operable
  <2>2. EditorUiOK(ui) /\ ui.key \in EdKeys
    BY <1>0, <2>1 DEF EditorUiOK
  <2>3. StorageOK(article, drafts')
    BY <1>0, <2>1, <2>2, DraftRemoved
  <2>4. EditorUiOK(ui') /\ ui'.fields = ui.fields
    BY <2>1, <2>2 DEF EditorUiOK, UiNames, FilledOrNot
  <2> QED
    BY <2>1, <2>3, <2>4 DEF EditorStateInv, InEditor, Rewrites
<1> QED
  BY <1>1, <1>2, <1>3, <1>4

\* A render of the page with other fields.
LEMMA EditedKeeps ==
  ASSUME EditorStateInv, InEditor, NEW u, EditorUiOK(u), Render(u),
         UNCHANGED <<page, article, saves>>, u.ai = ui.ai
  PROVE  EditorStateInv' /\ Rewrites
<1>1. StorageOK(article, drafts') /\ EditorUiOK(ui') /\ ui'.ai = ui.ai
  BY RenderKeeps DEF EditorStateInv
<1> QED
  BY <1>1 DEF EditorStateInv, InEditor, Rewrites

LEMMA EditKeeps ==
  ASSUME EditorStateInv, NEW f, Filled(f), Edit(f)
  PROVE  EditorStateInv' /\ Rewrites
<1>1. /\ InEditor /\ Render([ui EXCEPT !.fields = f]) /\ UNCHANGED <<page, dialog, article, saves>>
  BY DEF Edit, Editing, Operable
<1>2. EditorUiOK(ui)
  BY <1>1 DEF EditorStateInv
<1> DEFINE u == [ui EXCEPT !.fields = f]
<1>3. EditorUiOK(u) /\ u.ai = ui.ai
  BY <1>2, UiChanged DEF EditorUiOK, UiNames
<1>4. Render(u)
  BY <1>1
<1> HIDE DEF u
<1> QED
  BY <1>1, <1>3, <1>4, EditedKeeps

\* Typing.
LEMMA TypingStep ==
  ASSUME EditorStateInv, EdTypeField \/ EdTypeSummary \/ EdToggleGen \/ EdTypeContent
  PROVE  EditorStateInv' /\ Rewrites
<1>1. InEditor
  BY DEF EdTypeField, EdTypeSummary, EdToggleGen, EdTypeContent, handleSummaryChange, Edit, Editing,
         Operable
<1>2. Filled(ui.fields)
  BY <1>1 DEF EditorStateInv, EditorUiOK
<1>3. CASE EdTypeField
  <2>1. PICK v \in {"", "typed"} : \/ Edit([ui.fields EXCEPT !.title = v])
                                   \/ Edit([ui.fields EXCEPT !.seo = v])
                                   \/ Edit([ui.fields EXCEPT !.cover = "bad"])
    BY <1>3 DEF EdTypeField
  <2> QED
    BY <1>2, <2>1, FieldsChanged, EditKeeps
<1>4. CASE EdTypeSummary
  <2>1. PICK v \in {"", "typed", "huge"} : Edit([ui.fields EXCEPT !.summary = v, !.gen = v = ""])
    BY <1>4 DEF EdTypeSummary, handleSummaryChange
  <2>2. Filled([ui.fields EXCEPT !.summary = v, !.gen = v = ""])
    BY <1>2 DEF Filled, FieldNames, emptyEditorDraft
  <2> QED
    BY <2>1, <2>2, EditKeeps
<1>5. CASE EdToggleGen
  BY <1>2, <1>5, FieldsChanged, EditKeeps DEF EdToggleGen
<1>6. CASE EdTypeContent
  <2>1. \E c : Edit([ui.fields EXCEPT !.content = c])
    BY <1>6 DEF EdTypeContent
  <2> QED
    BY <1>2, <2>1, FieldsChanged, EditKeeps
<1> QED
  BY <1>3, <1>4, <1>5, <1>6

\* The draft taken over, and the picker of media.
LEMMA PickerStep ==
  ASSUME EditorStateInv, restoreLocalDraft \/ EdOpenPicker \/ handleMediaSelect \/ EdClosePicker
  PROVE  EditorStateInv' /\ Rewrites
<1>1. InEditor /\ EditorUiOK(ui)
  BY DEF restoreLocalDraft, RecoveryOffered, EdOpenPicker, handleMediaSelect, EdClosePicker, Editing,
         Operable, EditorStateInv
<1>2. Filled(ui.fields)
  BY <1>1 DEF EditorUiOK
<1>3. CASE restoreLocalDraft
  <2> DEFINE u == [ui EXCEPT !.fields = ui.recovery, !.recovery = NoFields]
  <2>1. Render(u) /\ UNCHANGED <<page, article, saves>> /\ ui.recovery # NoFields
    BY <1>3 DEF restoreLocalDraft, RecoveryOffered
  <2>2. EditorUiOK(u) /\ u.ai = ui.ai
    BY <1>1, <2>1 DEF EditorUiOK, UiNames, FilledOrNot
  <2> HIDE DEF u
  <2> QED
    BY <1>1, <2>1, <2>2, EditedKeeps
<1>4. CASE EdOpenPicker \/ EdClosePicker
  <2>1. PICK m : ui' = [ui EXCEPT !.picker = m] /\ UNCHANGED <<page, article, drafts, saves>>
    BY <1>4 DEF EdOpenPicker, EdClosePicker, editor
  <2>2. EditorUiOK(ui') /\ ui'.ai = ui.ai
    BY <1>1, <2>1, UiChanged DEF EditorUiOK, UiNames
  <2> QED
    BY <2>1, <2>2 DEF EditorStateInv, InEditor, Rewrites
<1>5. CASE handleMediaSelect
  <2>1. PICK c : LET f == IF ui.picker = "cover" THEN [ui.fields EXCEPT !.cover = "typed"]
                          ELSE [ui.fields EXCEPT !.content = c]
                 IN  Render([ui EXCEPT !.fields = f, !.picker = "closed"])
    BY <1>5 DEF handleMediaSelect
  <2> DEFINE f == IF ui.picker = "cover" THEN [ui.fields EXCEPT !.cover = "typed"]
                  ELSE [ui.fields EXCEPT !.content = c]
             u == [ui EXCEPT !.fields = f, !.picker = "closed"]
  <2>2. Filled(f)
    BY <1>2, FieldsChanged
  <2>3. Render(u) /\ UNCHANGED <<page, article, saves>>
    BY <1>5, <2>1 DEF handleMediaSelect
  <2> HIDE DEF f
  <2>4. EditorUiOK(u) /\ u.ai = ui.ai
    BY <1>1, <2>2 DEF EditorUiOK, UiNames
  <2> HIDE DEF u
  <2> QED
    BY <1>1, <2>3, <2>4, EditedKeeps
<1> QED
  BY <1>3, <1>4, <1>5

\* The AI is asked, answers, and its text is put in or dismissed.
LEMMA AssistStep ==
  ASSUME EditorStateInv,
         (\E a \in AIMenu : handleAIAssist(a)) \/ EdAssistAnswered \/ applyAIContent \/ EdDismissAI
  PROVE  EditorStateInv' /\ Rewrites
<1>1. InEditor /\ EditorUiOK(ui)
  BY DEF handleAIAssist, EdAssistAnswered, applyAIContent, EdDismissAI, AIDraftOffered, Editing,
         Operable, EditorStateInv
<1>2. Filled(ui.fields)
  BY <1>1 DEF EditorUiOK
<1>3. ASSUME NEW a \in AIMenu, handleAIAssist(a)
      PROVE  EditorStateInv' /\ Rewrites
  <2>1. PICK q : ui' = [ui EXCEPT !.ai = NoAIDraft, !.assist = q]
    BY <1>3 DEF handleAIAssist
  <2>2. ui.status = "ready" /\ UNCHANGED <<page, article, drafts, saves>>
    BY <1>3, <1>1, OperableReady DEF handleAIAssist, Editing, Operable
  <2>3. EditorUiOK(ui') /\ ui'.fields = ui.fields
    BY <1>1, <2>1, <2>2 DEF EditorUiOK, UiNames
  <2> QED
    BY <2>2, <2>3 DEF EditorStateInv, InEditor, Rewrites
<1>4. CASE EdAssistAnswered
  <2> DEFINE u == [ui EXCEPT !.assist = NoAssist]
             c == [u EXCEPT !.fields = buildArticleCompletionPatch(ui.assist.fields, @)]
  <2>1. ui.assist # NoAssist /\ UNCHANGED <<page, article, saves>>
    BY <1>4 DEF EdAssistAnswered
  <2>2. ui.status = "ready"
    BY <1>1, <2>1 DEF EditorUiOK
  <2>3. \/ Render(c)
        \/ (\E x : ui' = [u EXCEPT !.ai = x]) /\ UNCHANGED drafts
        \/ ui' = u /\ UNCHANGED drafts
    BY <1>4 DEF EdAssistAnswered
  <2>4. EditorUiOK(u) /\ u.fields = ui.fields /\ u.ai = ui.ai /\ u.status = "ready"
    BY <1>1, <2>2, UiChanged DEF EditorUiOK, UiNames
  <2>5. EditorUiOK(c) /\ c.ai = ui.ai
    <3>1. Filled(buildArticleCompletionPatch(ui.assist.fields, u.fields))
      BY <1>2, <2>4, CompletionFilled
    <3> HIDE DEF u
    <3> QED
      BY <2>4, <3>1, UiChanged DEF EditorUiOK, UiNames
  <2>6. CASE Render(c)
    <3> HIDE DEF c
    <3> QED
      BY <1>1, <2>1, <2>5, <2>6, EditedKeeps
  <2>7. CASE (\E x : ui' = [u EXCEPT !.ai = x]) /\ UNCHANGED drafts
    <3> HIDE DEF u
    <3>1. EditorUiOK(ui') /\ ui'.fields = ui.fields
      BY <2>4, <2>7, UiChanged DEF EditorUiOK, UiNames
    <3> QED
      BY <2>1, <2>7, <3>1 DEF EditorStateInv, InEditor, Rewrites
  <2>8. CASE ui' = u /\ UNCHANGED drafts
    BY <2>1, <2>4, <2>8 DEF EditorStateInv, InEditor, Rewrites
  <2> QED
    BY <2>3, <2>6, <2>7, <2>8
<1>5. CASE applyAIContent
  <2> DEFINE u == [ui EXCEPT !.ai = NoAIDraft]
  <2>1. UNCHANGED <<page, article, saves>>
    BY <1>5 DEF applyAIContent
  <2>2. EditorUiOK(u) /\ u.fields = ui.fields
    BY <1>1, UiChanged DEF EditorUiOK, UiNames
  <2>3. CASE SameSource(ui)
    <3>1. ui.ai.source = ui.fields.content
      BY <2>3 DEF SameSource
    <3>2. PICK x : Render([u EXCEPT !.fields.content = x])
      BY <1>5, <2>3 DEF applyAIContent
    <3> DEFINE f == [u.fields EXCEPT !.content = x]
               v == [u EXCEPT !.fields = f]
    <3>3. Render(v)
      BY <3>2
    <3>4. Filled(f)
      BY <1>2, <2>2, FieldsChanged
    <3> HIDE DEF f, u
    <3>5. EditorUiOK(v)
      BY <2>2, <3>4, UiChanged
    <3> HIDE DEF v
    <3>6. StorageOK(article, drafts') /\ EditorUiOK(ui')
      BY <3>3, <3>5, RenderKeeps DEF EditorStateInv
    <3> QED
      BY <2>1, <3>1, <3>6 DEF EditorStateInv, InEditor, Rewrites
  <2>4. CASE ~SameSource(ui)
    <3>1. ui' = u /\ UNCHANGED drafts
      BY <1>5, <2>4 DEF applyAIContent
    <3> HIDE DEF u
    <3> QED
      BY <2>1, <2>2, <3>1 DEF EditorStateInv, InEditor, Rewrites
  <2> QED
    BY <2>3, <2>4
<1>6. CASE EdDismissAI
  <2>1. ui' = [ui EXCEPT !.ai = NoAIDraft] /\ UNCHANGED <<page, article, drafts, saves>>
    BY <1>6 DEF EdDismissAI, editor
  <2>2. EditorUiOK(ui') /\ ui'.fields = ui.fields
    BY <1>1, <2>1, UiChanged DEF EditorUiOK, UiNames
  <2> QED
    BY <2>1, <2>2 DEF EditorStateInv, InEditor, Rewrites
<1> QED
  BY <1>3, <1>4, <1>5, <1>6

\* A save is started over the baseline of the page.
LEMMA SaveStarts ==
  ASSUME EditorStateInv, handleSave
  PROVE  EditorStateInv' /\ Rewrites
<1> DEFINE phase == IF GeneratesSummary(ui.fields) THEN "summary" ELSE "put"
           s == [key |-> ui.key, fields |-> ui.fields, over |-> ui.base, mine |-> TRUE, phase |-> phase]
<1>1. /\ InEditor /\ canOperateArticleEditor(ui.key, ui.status) /\ saves' = saves \cup {s}
      /\ ui' = [ui EXCEPT !.saving = TRUE] /\ UNCHANGED <<page, article, drafts>>
  BY DEF handleSave, Operable
<1>2. EditorUiOK(ui) /\ ui.status = "ready"
  BY <1>1, OperableReady DEF EditorStateInv
<1> HIDE DEF phase
<1>3. SaveOK(s)
  BY <1>2 DEF SaveOK, EditorUiOK
<1> HIDE DEF s
<1>4. EditorUiOK(ui') /\ ui'.fields = ui.fields
  BY <1>1, <1>2, UiChanged DEF EditorUiOK, UiNames
<1> QED
  BY <1>1, <1>3, <1>4 DEF EditorStateInv, InEditor, Rewrites

\* A save goes on, with the summary the AI has made.
LEMMA SaveSummarized ==
  ASSUME EditorStateInv, NEW s \in saves, EdSaveSummarized(s)
  PROVE  EditorStateInv' /\ Rewrites
<1> DEFINE Fill(f) == [f EXCEPT !.summary = "made", !.gen = FALSE,
                                !.seo = IF s.fields.seo = "" THEN "made" ELSE @]
           t == [s EXCEPT !.phase = "put", !.fields = Fill(@)]
           v == [s EXCEPT !.phase = "put"]
           u == [ui EXCEPT !.fields = Fill(@)]
<1>1. \/ saves' = (saves \ {s}) \cup {t} /\ IF s.mine THEN Render(u) ELSE UNCHANGED <<ui, drafts>>
      \/ saves' = (saves \ {s}) \cup {v} /\ UNCHANGED <<ui, drafts>>
  BY DEF EdSaveSummarized
<1>2. UNCHANGED <<page, article>>
  BY DEF EdSaveSummarized
<1>3. SaveOK(s) /\ page \in {"editor", "away"} /\ (s.mine => page = "editor")
  BY DEF EditorStateInv
<1>4. \A f : Filled(f) => Filled(Fill(f))
  BY DEF Filled, FieldNames, emptyEditorDraft
<1> HIDE DEF Fill
<1>5. SaveOK(t) /\ SaveOK(v) /\ t.mine = s.mine /\ v.mine = s.mine
  BY <1>3, <1>4 DEF SaveOK
<1> HIDE DEF t, v
<1>6. \A x \in saves' : SaveOK(x) /\ page' \in {"editor", "away"} /\ (x.mine => page' = "editor")
  BY <1>1, <1>2, <1>3, <1>5 DEF EditorStateInv
<1>7. CASE s.mine /\ Render(u)
  <2>1. InEditor /\ EditorUiOK(ui)
    BY <1>3, <1>7 DEF InEditor, EditorStateInv
  <2>2. EditorUiOK(u) /\ u.ai = ui.ai
    <3>1. Filled(Fill(ui.fields))
      BY <1>4, <2>1 DEF EditorUiOK
    <3> QED
      BY <2>1, <3>1, UiChanged DEF EditorUiOK, UiNames
  <2> HIDE DEF u
  <2>3. StorageOK(article, drafts') /\ EditorUiOK(ui') /\ ui'.ai = ui.ai
    BY <1>7, <2>2, RenderKeeps DEF EditorStateInv
  <2> QED
    BY <1>2, <1>6, <2>3 DEF EditorStateInv, InEditor, Rewrites
<1>8. CASE UNCHANGED <<ui, drafts>>
  BY <1>2, <1>6, <1>8 DEF EditorStateInv, InEditor, Rewrites
<1> QED
  BY <1>1, <1>7, <1>8

\* The server has the article, then the page is told and left, or told of the failure.
LEMMA SaveEnds ==
  ASSUME EditorStateInv, NEW s \in saves, EdPut(s) \/ EdSaved(s) \/ EdListOpens(s) \/ EdSaveFailed(s)
  PROVE  EditorStateInv' /\ Rewrites
<1>0. /\ StorageOK(article, drafts) /\ SaveOK(s) /\ page \in {"editor", "away"}
      /\ (s.mine => page = "editor") /\ s.key \in EdKeys /\ Filled(s.fields)
      /\ (InEditor => EditorUiOK(ui))
  BY DEF EditorStateInv, SaveOK
<1>1. CASE EdPut(s)
  <2> DEFINE t == [s EXCEPT !.phase = "stored"]
  <2>1. /\ saves' = (saves \ {s}) \cup {t} /\ UNCHANGED kit
        /\ IF s.key = "new" THEN UNCHANGED <<article, drafts>>
           ELSE /\ article' = [article EXCEPT ![s.key] = s.fields]
                /\ drafts' = [drafts EXCEPT ![s.key].newer = FALSE]
    BY <1>1 DEF EdPut
  <2>2. SaveOK(t) /\ t.mine = s.mine
    BY <1>0 DEF SaveOK
  <2> HIDE DEF t
  <2>3. \A x \in saves' : SaveOK(x) /\ page' \in {"editor", "away"} /\ (x.mine => page' = "editor")
    BY <1>0, <2>1, <2>2 DEF EditorStateInv, kit
  <2>4. StorageOK(article, drafts')
    BY <1>0, <2>1, DraftOlder
  <2>5. StorageOK(article', drafts')
    BY <1>0, <2>1, <2>4 DEF StorageOK
  <2>6. InEditor => EditorUiOK(ui)
    BY <1>0
  <2> QED
    BY <2>1, <2>3, <2>5, <2>6 DEF EditorStateInv, InEditor, Rewrites, kit
<1>2. CASE EdSaved(s)
  <2> DEFINE t == [s EXCEPT !.phase = "opening"]
  <2>1. /\ drafts' = DraftsLess(s.key) /\ UNCHANGED <<page, article>>
        /\ saves' \subseteq (saves \ {s}) \cup {t}
        /\ ui' = IF s.mine THEN [ui EXCEPT !.saving = FALSE] ELSE ui
    BY <1>2 DEF EdSaved
  <2>2. SaveOK(t) /\ t.mine = s.mine
    BY <1>0 DEF SaveOK
  <2> HIDE DEF t
  <2>3. \A x \in saves' : SaveOK(x) /\ page' \in {"editor", "away"} /\ (x.mine => page' = "editor")
    BY <1>0, <2>1, <2>2 DEF EditorStateInv
  <2>4. StorageOK(article, drafts')
    BY <1>0, <2>1, DraftRemoved
  <2>5. InEditor => EditorUiOK(ui') /\ ui'.fields = ui.fields
    BY <1>0, <2>1, UiChanged DEF EditorUiOK, UiNames
  <2> QED
    BY <2>1, <2>3, <2>4, <2>5 DEF EditorStateInv, InEditor, Rewrites
<1>4. CASE EdListOpens(s)
  <2>1. page' = "away" /\ saves' = Orphaned /\ UNCHANGED <<article, drafts>>
    BY <1>4 DEF EdListOpens
  <2>2. \A x \in saves' : SaveOK(x) /\ x.mine = FALSE
    BY <2>1 DEF EditorStateInv, SaveOK, Orphaned
  <2> QED
    BY <1>0, <2>1, <2>2 DEF EditorStateInv, InEditor, Rewrites
<1>3. CASE EdSaveFailed(s)
  <2>1. /\ saves' = saves \ {s} /\ ui' = IF s.mine THEN [ui EXCEPT !.saving = FALSE] ELSE ui
        /\ UNCHANGED <<page, article, drafts>>
    BY <1>3 DEF EdSaveFailed
  <2>2. InEditor => EditorUiOK(ui') /\ ui'.fields = ui.fields
    BY <1>0, <2>1, UiChanged DEF EditorUiOK, UiNames
  <2> QED
    BY <2>1, <2>2 DEF EditorStateInv, InEditor, Rewrites
<1> QED
  BY <1>1, <1>2, <1>3, <1>4

LEMMA StateStep == EditorStateInv /\ EditorNext => EditorStateInv' /\ Rewrites
BY OpenStep, StorageStep, TypingStep, PickerStep, AssistStep, SaveStarts, SaveSummarized, SaveEnds
   DEF EditorNext

------------------------------------------------------------------------------
(* The offer of a draft, and the autosave that may take its place.         *)

\* A render of the page removes a draft only when none is offered, and sets the timer only
\* for a form that is worth keeping.
LEMMA RenderOffers ==
  ASSUME OfferInv, InEditor, page' = page, NEW u, DOMAIN u = UiNames,
         u.key = ui.key, u.base = ui.base, u.timer = ui.timer,
         u.recovery \in {ui.recovery, NoFields}, u.status = ui.status, u.ready = ui.ready,
         Render(u)
  PROVE  OfferInv' /\ OfferStays
<1>1. drafts' = drafts \/ u.recovery = NoFields
  BY DEF Render, MayDropDraft
<1>2. \/ ui' = u /\ (u.timer => u.fields = ui.fields)
      \/ ui' = [u EXCEPT !.timer = FALSE] \/ ui' = [[u EXCEPT !.timer = FALSE] EXCEPT !.skip = FALSE]
      \/ ui' = [u EXCEPT !.timer = TRUE] /\ u.ready /\ ~NothingToKeep(u)
  BY DEF Render
<1>3. /\ ui'.key = u.key /\ ui'.recovery = u.recovery
      /\ ui'.fields = u.fields /\ ui'.base = u.base
      /\ ui'.status = u.status /\ ui'.ready = u.ready
      /\ ui'.timer => \/ u.fields = ui.fields /\ ui.timer
                      \/ u.ready /\ ~NothingToKeep(u)
  BY <1>2 DEF UiNames
<1>4. OfferInv'
  BY <1>3 DEF OfferInv, NothingToKeep, InEditor
<1> QED
  BY <1>1, <1>3, <1>4 DEF OfferStays, Offering, InEditor

\* A step that leaves the form as it is.
LEMMA FormUntouched ==
  ASSUME OfferInv, InEditor, page' = page, ui'.key = ui.key, ui'.base = ui.base,
         ui'.fields = ui.fields, ui'.timer \in {ui.timer, FALSE},
         ui'.recovery \in {ui.recovery, NoFields}, ui'.status = ui.status, ui'.ready = ui.ready,
         ui'.recovery # NoFields => drafts'[ui.key].fields = drafts[ui.key].fields
  PROVE  OfferInv' /\ OfferStays
BY DEF OfferInv, NothingToKeep, OfferStays, Offering, InEditor

\* What is offered is what was read.
LEMMA LoadedOffers ==
  ASSUME NEW u, DOMAIN u = UiNames, ~u.timer, NEW base, Loaded(u, base), ~Offering
  PROVE  OfferInv' /\ OfferStays
<1> DEFINE d == readEditorDraft(u.key)
           offer == shouldRecoverEditorDraft(d, base, u.key)
           r == IF offer THEN d.fields ELSE NoFields
           v == [u EXCEPT !.base = base, !.fields = base, !.status = "ready", !.ready = TRUE,
                          !.recovery = r]
<1>1. ui' = v /\ drafts' = IF offer /\ ~MayDropDraft(v) THEN drafts ELSE DraftsLess(u.key)
  BY DEF Loaded
<1>2. r # NoFields => offer /\ r = drafts[u.key].fields
  BY DEF readEditorDraft
<1> HIDE DEF offer, r
<1>3. v.key = u.key /\ v.recovery = r /\ ~v.timer /\ v.status = "ready"
  BY DEF UiNames
<1> HIDE DEF v
<1>4. r # NoFields => drafts' = drafts
  BY <1>1, <1>2, <1>3 DEF MayDropDraft
<1> QED
  BY <1>1, <1>2, <1>3, <1>4 DEF OfferInv, OfferStays, Offering

LEMMA OpenOffers ==
  ASSUME EditorInv,
         \/ \E k \in EdKeys : EdOpen(k)
         \/ EdBaselineLoaded \/ EdBaselineFailed \/ retryArticleBaseline \/ EdLeave
  PROVE  OfferInv' /\ OfferStays
<1> USE DEF EditorInv
<1>1. \A k : /\ DOMAIN EditorHooks(k) = UiNames /\ ~EditorHooks(k).timer /\ ~EditorHooks(k).ready
            /\ EditorHooks(k).recovery = NoFields
  BY DEF EditorHooks, UiNames
<1>2. ASSUME NEW k \in EdKeys, EdOpen(k)
      PROVE  OfferInv' /\ OfferStays
  <2>1. ~Offering
    BY <1>2 DEF EdOpen, Offering, InEditor
  <2>2. CASE k = "new"
    BY <1>1, <1>2, <2>1, <2>2, LoadedOffers DEF EdOpen
  <2>3. CASE k # "new"
    BY <1>1, <1>2, <2>1, <2>3 DEF EdOpen, OfferInv, OfferStays, Offering
  <2> QED
    BY <2>2, <2>3
<1>3. CASE EdBaselineLoaded
  <2>1. InEditor /\ ui.status = "loading" /\ Loaded(ui, articleToEditorDraft(ui.key))
    BY <1>3 DEF EdBaselineLoaded
  <2>2. DOMAIN ui = UiNames /\ ui.recovery = NoFields /\ ~ui.timer
    BY <2>1 DEF EditorStateInv, EditorUiOK, OfferInv
  <2> QED
    BY <2>1, <2>2, LoadedOffers DEF Offering
<1>4. CASE EdBaselineFailed
  <2>1. /\ InEditor /\ ui.status = "loading" /\ ui' = [ui EXCEPT !.status = "error"]
        /\ UNCHANGED <<page, drafts>>
    BY <1>4 DEF EdBaselineFailed, editor
  <2>2. ~ui'.timer /\ ~ui'.ready /\ ui'.recovery = NoFields
    BY <2>1 DEF EditorStateInv, EditorUiOK, UiNames, OfferInv
  <2> QED
    BY <2>1, <2>2 DEF OfferInv, OfferStays, Offering, InEditor
<1>5. CASE retryArticleBaseline
  BY <1>1, <1>5 DEF retryArticleBaseline, OfferInv, OfferStays, Offering
<1>6. CASE EdLeave
  BY <1>6 DEF EdLeave, OfferInv, OfferStays, Offering, InEditor
<1> QED
  BY <1>2, <1>3, <1>4, <1>5, <1>6

\* The storage changes under the page, or the draft is discarded.
LEMMA StorageOffers ==
  ASSUME EditorInv, (\E k \in Articles : OtherEdits(k)) \/ EdAutosaveFires \/ discardLocalDraft
  PROVE  OfferInv' /\ OfferStays
<1> USE DEF EditorInv
<1>0. StorageOK(article, drafts) /\ (InEditor => EditorUiOK(ui))
  BY DEF EditorStateInv
<1>1. ASSUME NEW k \in Articles, OtherEdits(k)
      PROVE  OfferInv' /\ OfferStays
  <2>1. UNCHANGED <<page, ui>> /\ drafts' = [drafts EXCEPT ![k].newer = FALSE] /\ k \in EdKeys
    BY <1>1 DEF OtherEdits, kit, EdKeys
  <2>2. SameFields(drafts')
    BY <1>0, <2>1, DraftOlder
  <2>3. CASE InEditor
    BY <1>0, <2>1, <2>2, <2>3, FormUntouched DEF SameFields, EditorUiOK
  <2>4. CASE ~InEditor
    BY <2>1, <2>4 DEF OfferInv, OfferStays, Offering, InEditor
  <2> QED
    BY <2>3, <2>4
<1>2. CASE EdAutosaveFires
  <2>1. /\ InEditor /\ ui.timer /\ drafts' = [drafts EXCEPT ![ui.key] = [fields |-> ui.fields, newer |-> TRUE]]
        /\ ui' = [ui EXCEPT !.timer = FALSE] /\ page' = page
    BY <1>2 DEF EdAutosaveFires, writeEditorDraft
  <2>2. /\ ~ui'.timer /\ ui'.recovery = ui.recovery
        /\ drafts'[ui.key].fields = ui.fields /\ ~NothingToKeep(ui)
    BY <1>0, <2>1 DEF EditorUiOK, UiNames, StorageOK, OfferInv
  <2> QED
    BY <2>1, <2>2 DEF OfferInv, OfferStays, Offering, InEditor
<1>3. CASE discardLocalDraft
  <2>1. /\ InEditor /\ ui' = [ui EXCEPT !.recovery = NoFields, !.skip = TRUE] /\ page' = page
    BY <1>3 DEF discardLocalDraft, RecoveryOffered, Operable
  <2>2. /\ ui'.key = ui.key /\ ui'.base = ui.base /\ ui'.fields = ui.fields
        /\ ui'.timer = ui.timer /\ ui'.recovery = NoFields
        /\ ui'.status = ui.status /\ ui'.ready = ui.ready
    BY <1>0, <2>1 DEF EditorUiOK, UiNames
  <2> QED
    BY <2>1, <2>2, FormUntouched
<1> QED
  BY <1>1, <1>2, <1>3

\* Typing, the picker, and the draft taken over.
LEMMA FormOffers ==
  ASSUME EditorInv,
         \/ EdTypeField \/ EdTypeSummary \/ EdToggleGen \/ EdTypeContent
         \/ restoreLocalDraft \/ EdOpenPicker \/ handleMediaSelect \/ EdClosePicker
  PROVE  OfferInv' /\ OfferStays
<1> USE DEF EditorInv
<1>1. \A f : Edit(f) => InEditor /\ page' = page /\ Render([ui EXCEPT !.fields = f])
  BY DEF Edit, Editing, Operable
<1>2. ASSUME NEW f, Edit(f)
      PROVE  OfferInv' /\ OfferStays
  <2> DEFINE u == [ui EXCEPT !.fields = f]
  <2>1. InEditor /\ page' = page /\ Render(u)
    BY <1>1, <1>2
  <2>2. DOMAIN ui = UiNames
    BY <2>1 DEF EditorStateInv, EditorUiOK
  <2>3. /\ DOMAIN u = UiNames /\ u.key = ui.key /\ u.base = ui.base /\ u.timer = ui.timer
        /\ u.recovery = ui.recovery /\ u.status = ui.status /\ u.ready = ui.ready
    BY <2>2 DEF UiNames
  <2> HIDE DEF u
  <2> QED
    BY <2>1, <2>3, RenderOffers
<1>3. CASE EdTypeField \/ EdTypeSummary \/ EdToggleGen \/ EdTypeContent
  <2>1. \E f : Edit(f)
    BY <1>3 DEF EdTypeField, EdTypeSummary, EdToggleGen, EdTypeContent, handleSummaryChange
  <2> QED
    BY <1>2, <2>1
<1>4. CASE restoreLocalDraft
  <2> DEFINE u == [ui EXCEPT !.fields = ui.recovery, !.recovery = NoFields]
  <2>1. InEditor /\ page' = page /\ Render(u)
    BY <1>4 DEF restoreLocalDraft, RecoveryOffered, Operable
  <2>2. DOMAIN ui = UiNames
    BY <2>1 DEF EditorStateInv, EditorUiOK
  <2>3. /\ DOMAIN u = UiNames /\ u.key = ui.key /\ u.base = ui.base /\ u.timer = ui.timer
        /\ u.recovery = NoFields /\ u.status = ui.status /\ u.ready = ui.ready
    BY <2>2 DEF UiNames
  <2> HIDE DEF u
  <2> QED
    BY <2>1, <2>3, RenderOffers
<1>5. CASE handleMediaSelect
  <2>1. InEditor /\ page' = page
    BY <1>5 DEF handleMediaSelect
  <2>2. PICK f : Render([ui EXCEPT !.fields = f, !.picker = "closed"])
    BY <1>5 DEF handleMediaSelect
  <2> DEFINE u == [ui EXCEPT !.fields = f, !.picker = "closed"]
  <2>3. DOMAIN ui = UiNames
    BY <2>1 DEF EditorStateInv, EditorUiOK
  <2>4. /\ DOMAIN u = UiNames /\ u.key = ui.key /\ u.base = ui.base /\ u.timer = ui.timer
        /\ u.recovery = ui.recovery /\ u.status = ui.status /\ u.ready = ui.ready
    BY <2>3 DEF UiNames
  <2>5. Render(u)
    BY <2>2
  <2> HIDE DEF u
  <2> QED
    BY <2>1, <2>4, <2>5, RenderOffers
<1>6. CASE EdOpenPicker \/ EdClosePicker
  <2>1. InEditor /\ UNCHANGED <<page, drafts>> /\ \E m : ui' = [ui EXCEPT !.picker = m]
    BY <1>6 DEF EdOpenPicker, EdClosePicker, Editing, Operable, editor
  <2>2. /\ ui'.key = ui.key /\ ui'.base = ui.base /\ ui'.fields = ui.fields
        /\ ui'.timer = ui.timer /\ ui'.recovery = ui.recovery
        /\ ui'.status = ui.status /\ ui'.ready = ui.ready
    BY <2>1 DEF EditorStateInv, EditorUiOK, UiNames
  <2> QED
    BY <2>1, <2>2, FormUntouched
<1> QED
  BY <1>3, <1>4, <1>5, <1>6

\* The AI, whose answers render the form or leave it.
LEMMA AssistOffers ==
  ASSUME EditorInv,
         (\E a \in AIMenu : handleAIAssist(a)) \/ EdAssistAnswered \/ applyAIContent \/ EdDismissAI
  PROVE  OfferInv' /\ OfferStays
<1> USE DEF EditorInv
<1> DEFINE Same(u) == /\ DOMAIN u = UiNames /\ u.key = ui.key /\ u.base = ui.base
                      /\ u.timer = ui.timer /\ u.recovery = ui.recovery
                      /\ u.status = ui.status /\ u.ready = ui.ready
<1>1. InEditor /\ page' = page
  BY DEF handleAIAssist, EdAssistAnswered, applyAIContent, EdDismissAI, AIDraftOffered, Editing,
         Operable
<1>2. DOMAIN ui = UiNames
  BY <1>1 DEF EditorStateInv, EditorUiOK
<1>3. ASSUME NEW u, Same(u), u.fields = ui.fields, ui' = u, UNCHANGED drafts
      PROVE  OfferInv' /\ OfferStays
  BY <1>1, <1>3, FormUntouched
<1>4. ASSUME NEW u, Same(u), u.fields = ui.fields, NEW f, Render([u EXCEPT !.fields = f])
      PROVE  OfferInv' /\ OfferStays
  <2> DEFINE v == [u EXCEPT !.fields = f]
  <2>1. Same(v)
    BY <1>4 DEF UiNames
  <2>2. Render(v)
    BY <1>4
  <2> HIDE DEF v
  <2> QED
    BY <1>1, <2>1, <2>2, RenderOffers
<1>5. ASSUME NEW x, NEW y
      PROVE  LET u == [ui EXCEPT !.ai = x, !.assist = y]
             IN  Same(u) /\ u.fields = ui.fields
  BY <1>2 DEF UiNames
<1>6. ASSUME NEW x
      PROVE  LET u == [ui EXCEPT !.ai = x]
                 v == [ui EXCEPT !.assist = x]
             IN  Same(u) /\ u.fields = ui.fields /\ Same(v) /\ v.fields = ui.fields
  BY <1>2 DEF UiNames
<1>7. ASSUME NEW x, NEW y
      PROVE  LET u == [[ui EXCEPT !.assist = x] EXCEPT !.ai = y]
             IN  Same(u) /\ u.fields = ui.fields
  BY <1>2 DEF UiNames
<1> HIDE DEF Same
<1>8. CASE \E a \in AIMenu : handleAIAssist(a)
  <2>1. PICK q : ui' = [ui EXCEPT !.ai = NoAIDraft, !.assist = q]
    BY <1>8 DEF handleAIAssist
  <2>2. UNCHANGED drafts
    BY <1>8 DEF handleAIAssist
  <2> QED
    BY <1>3, <1>5, <2>1, <2>2
<1>9. CASE EdDismissAI
  BY <1>3, <1>6, <1>9 DEF EdDismissAI, editor
<1>10. CASE EdAssistAnswered
  <2> DEFINE u == [ui EXCEPT !.assist = NoAssist]
  <2>1. Same(u) /\ u.fields = ui.fields
    BY <1>6
  <2>2. \/ Render([u EXCEPT !.fields = buildArticleCompletionPatch(ui.assist.fields, @)])
        \/ (\E x : ui' = [u EXCEPT !.ai = x]) /\ UNCHANGED drafts
        \/ ui' = u /\ UNCHANGED drafts
    BY <1>10 DEF EdAssistAnswered
  <2>3. CASE (\E x : ui' = [u EXCEPT !.ai = x]) /\ UNCHANGED drafts
    BY <1>3, <1>7, <2>3
  <2> DEFINE f == buildArticleCompletionPatch(ui.assist.fields, u.fields)
  <2>4. CASE Render([u EXCEPT !.fields = buildArticleCompletionPatch(ui.assist.fields, @)])
    <3>1. Render([u EXCEPT !.fields = f])
      BY <2>4
    <3> HIDE DEF u, f
    <3> QED
      BY <1>4, <2>1, <3>1
  <2> HIDE DEF u
  <2> QED
    BY <1>3, <2>1, <2>2, <2>3, <2>4
<1>11. CASE applyAIContent
  <2> DEFINE u == [ui EXCEPT !.ai = NoAIDraft]
  <2>1. Same(u) /\ u.fields = ui.fields
    BY <1>6
  <2>2. CASE SameSource(ui)
    <3> DEFINE f == [u.fields EXCEPT !.content = Splice(@, ui.ai.at, ui.ai.at + 1, <<ui.ai.text>>)]
    <3>1. Render([u EXCEPT !.fields = f])
      BY <1>11, <2>2 DEF applyAIContent
    <3> HIDE DEF u, f
    <3> QED
      BY <1>4, <2>1, <3>1
  <2>3. CASE ~SameSource(ui)
    <3>1. ui' = u /\ UNCHANGED drafts
      BY <1>11, <2>3 DEF applyAIContent
    <3> HIDE DEF u
    <3> QED
      BY <1>3, <2>1, <3>1
  <2> QED
    BY <2>2, <2>3
<1> QED
  BY <1>8, <1>9, <1>10, <1>11

\* A save: only its answer takes an offered draft away.
LEMMA SaveOffers ==
  ASSUME EditorInv,
         \/ handleSave
         \/ \E s \in saves : \/ EdSaveSummarized(s) \/ EdPut(s) \/ EdSaved(s) \/ EdListOpens(s)
                             \/ EdSaveFailed(s)
  PROVE  OfferInv' /\ OfferStays
<1> USE DEF EditorInv
<1>0. /\ StorageOK(article, drafts)
      /\ InEditor => DOMAIN ui = UiNames /\ ui.key \in EdKeys
      /\ \A s \in saves : s.mine => InEditor
  BY DEF EditorStateInv, EditorUiOK, InEditor
<1>1. ASSUME UNCHANGED <<page, drafts>>, ui' = ui \/ (InEditor /\ \E x : ui' = [ui EXCEPT !.saving = x])
      PROVE  OfferInv' /\ OfferStays
  <2>1. CASE InEditor
    <3>1. /\ ui'.key = ui.key /\ ui'.base = ui.base /\ ui'.fields = ui.fields
          /\ ui'.timer = ui.timer /\ ui'.recovery = ui.recovery
        /\ ui'.status = ui.status /\ ui'.ready = ui.ready
      BY <1>0, <1>1, <2>1 DEF UiNames
    <3> QED
      BY <1>1, <2>1, <3>1, FormUntouched
  <2>2. CASE ~InEditor
    BY <1>1, <2>2 DEF OfferInv, OfferStays, Offering, InEditor
  <2> QED
    BY <2>1, <2>2
<1>2. CASE handleSave
  <2>1. UNCHANGED <<page, drafts>> /\ InEditor /\ ui' = [ui EXCEPT !.saving = TRUE]
    BY <1>2 DEF handleSave, Operable
  <2> QED
    BY <1>1, <2>1
<1>3. ASSUME NEW s \in saves, EdSaveSummarized(s)
      PROVE  OfferInv' /\ OfferStays
  <2>1. \/ UNCHANGED <<page, ui, drafts>>
        \/ page' = page /\ s.mine /\ \E f : Render([ui EXCEPT !.fields = f])
    BY <1>3 DEF EdSaveSummarized
  <2>2. CASE page' = page /\ s.mine /\ \E f : Render([ui EXCEPT !.fields = f])
    <3>1. PICK f : Render([ui EXCEPT !.fields = f])
      BY <2>2
    <3> DEFINE u == [ui EXCEPT !.fields = f]
    <3>2. /\ DOMAIN u = UiNames /\ u.key = ui.key /\ u.base = ui.base /\ u.timer = ui.timer
          /\ u.recovery = ui.recovery /\ u.status = ui.status /\ u.ready = ui.ready
      BY <1>0, <2>2 DEF UiNames
    <3>3. Render(u)
      BY <3>1
    <3> HIDE DEF u
    <3> QED
      BY <1>0, <2>2, <3>2, <3>3, RenderOffers
  <2> QED
    BY <1>1, <2>1, <2>2
<1>4. ASSUME NEW s \in saves, EdPut(s)
      PROVE  OfferInv' /\ OfferStays
  <2>1. UNCHANGED <<page, ui>> /\ (drafts' = drafts \/ drafts' = [drafts EXCEPT ![s.key].newer = FALSE])
    BY <1>4 DEF EdPut, kit
  <2>2. s.key \in EdKeys
    BY DEF EditorStateInv, SaveOK
  <2>3. SameFields(drafts')
    <3>1. CASE drafts' = drafts
      BY <3>1 DEF SameFields
    <3>2. CASE drafts' = [drafts EXCEPT ![s.key].newer = FALSE]
      BY <1>0, <2>2, <3>2, DraftOlder
    <3> QED
      BY <2>1, <3>1, <3>2
  <2>4. CASE InEditor
    BY <1>0, <2>1, <2>3, <2>4, FormUntouched DEF SameFields
  <2>5. CASE ~InEditor
    BY <2>1, <2>5 DEF OfferInv, OfferStays, Offering, InEditor
  <2> QED
    BY <2>4, <2>5
<1>5. ASSUME NEW s \in saves, EdSaved(s)
      PROVE  OfferInv' /\ OfferStays
  <2>1. /\ s.phase = "stored" /\ drafts' = DraftsLess(s.key) /\ page' = page
        /\ saves' \subseteq (saves \ {s}) \cup {[s EXCEPT !.phase = "opening"]}
        /\ ui' = IF s.mine THEN [ui EXCEPT !.saving = FALSE] ELSE ui
    BY <1>5 DEF EdSaved
  <2>2. s \notin saves'
    <3>1. SaveOK(s)
      BY DEF EditorStateInv
    <3>2. [s EXCEPT !.phase = "opening"].phase = "opening"
      BY <3>1 DEF SaveOK
    <3> QED
      BY <2>1, <3>2
  <2>3. CASE InEditor
    <3>1. /\ ui'.key = ui.key /\ ui'.base = ui.base /\ ui'.fields = ui.fields
          /\ ui'.timer = ui.timer /\ ui'.recovery = ui.recovery
        /\ ui'.status = ui.status /\ ui'.ready = ui.ready
      BY <1>0, <2>1, <2>3 DEF UiNames
    <3>2. OfferInv'
      BY <2>1, <3>1 DEF OfferInv, NothingToKeep, InEditor
    <3>3. s.key # ui.key => drafts'[ui.key] = drafts[ui.key]
      BY <1>0, <2>1, <2>3 DEF DraftsLess, StorageOK
    <3> QED
      BY <2>1, <2>2, <2>3, <3>1, <3>2, <3>3 DEF OfferStays, Offering
  <2>4. CASE ~InEditor
    BY <2>1, <2>4 DEF OfferInv, OfferStays, Offering, InEditor
  <2> QED
    BY <2>3, <2>4
<1>6. ASSUME NEW s \in saves, EdListOpens(s)
      PROVE  OfferInv' /\ OfferStays
  BY <1>6 DEF EdListOpens, OfferInv, OfferStays, Offering, InEditor
<1>7. ASSUME NEW s \in saves, EdSaveFailed(s)
      PROVE  OfferInv' /\ OfferStays
  <2>1. UNCHANGED <<page, drafts>> /\ ui' = IF s.mine THEN [ui EXCEPT !.saving = FALSE] ELSE ui
    BY <1>7 DEF EdSaveFailed
  <2> QED
    BY <1>0, <1>1, <2>1
<1> QED
  BY <1>2, <1>3, <1>4, <1>5, <1>6, <1>7

------------------------------------------------------------------------------
(* The steps of the editor, and of the other pages.                        *)

\* What every step does for the texts of the AI and for the draft on offer.
Careful == Rewrites /\ OfferStays

LEMMA EditorStep == EditorInv /\ EditorNext => EditorInv' /\ Careful
<1> SUFFICES ASSUME EditorInv, EditorNext PROVE EditorInv' /\ Careful
  OBVIOUS
<1>1. EditorStateInv' /\ Rewrites
  BY StateStep DEF EditorInv
<1>2. OfferInv' /\ OfferStays
  BY OpenOffers, StorageOffers, FormOffers, AssistOffers, SaveOffers DEF EditorNext
<1> QED
  BY <1>1, <1>2 DEF EditorInv, Careful

\* The steps of other pages, which neither enter the editor nor know of its saves.
LEMMA ElsewhereStep ==
  ASSUME EditorInv, UNCHANGED editor, page \notin {"editor", "away"}, page' # "editor"
  PROVE  EditorInv' /\ Careful
BY DEF EditorInv, EditorStateInv, OfferInv, InEditor, Careful, Rewrites, OfferStays, Offering, editor

LEMMA EditorIdle ==
  ASSUME EditorInv, UNCHANGED editor, UNCHANGED <<page, ui>>
  PROVE  EditorInv' /\ Careful
<1>1. EditorStateInv' /\ Rewrites
  BY DEF EditorInv, EditorStateInv, InEditor, Rewrites, editor
<1>2. OfferInv' /\ OfferStays
  BY DEF EditorInv, OfferInv, NothingToKeep, InEditor, OfferStays, Offering, editor
<1> QED
  BY <1>1, <1>2 DEF EditorInv, Careful

\* The editor is entered from a page that is away, and left for one; so is a page while
\* there are saves.
LEMMA EditorPages ==
  ASSUME EditorInv, EditorNext
  PROVE  page \in {"editor", "away"} /\ page' \in {"editor", "away"}
<1>1. CASE \/ EdAutosaveFires \/ restoreLocalDraft \/ discardLocalDraft
           \/ EdBaselineLoaded \/ EdBaselineFailed \/ retryArticleBaseline \/ EdLeave
           \/ \E k \in EdKeys : EdOpen(k)
           \/ \E k \in Articles : OtherEdits(k)
  BY <1>1 DEF EdAutosaveFires, restoreLocalDraft, discardLocalDraft, RecoveryOffered, Operable,
     EdBaselineLoaded, EdBaselineFailed, retryArticleBaseline, EdLeave, EdOpen, OtherEdits, InEditor,
     kit
<1>2. CASE EdTypeField \/ EdTypeSummary \/ EdToggleGen \/ EdTypeContent
  BY <1>2 DEF EdTypeField, EdTypeSummary, EdToggleGen, EdTypeContent, handleSummaryChange, Edit,
     Editing, Operable, InEditor
<1>3. CASE EdOpenPicker \/ handleMediaSelect \/ EdClosePicker \/ EdAssistAnswered
  BY <1>3 DEF EdOpenPicker, handleMediaSelect, EdClosePicker, EdAssistAnswered, Editing, Operable,
     InEditor
<1>4. CASE (\E a \in AIMenu : handleAIAssist(a)) \/ applyAIContent \/ EdDismissAI \/ handleSave
  BY <1>4 DEF handleAIAssist, applyAIContent, EdDismissAI, handleSave, AIDraftOffered, Editing, Operable,
     InEditor
<1>5. ASSUME NEW s \in saves, EdSaveSummarized(s) \/ EdPut(s) \/ EdSaved(s) \/ EdListOpens(s) \/ EdSaveFailed(s)
      PROVE  page \in {"editor", "away"} /\ page' \in {"editor", "away"}
  BY <1>5 DEF EditorInv, EditorStateInv, EdSaveSummarized, EdPut, EdSaved, EdListOpens,
     EdSaveFailed, InEditor, kit
<1> QED
  BY <1>1, <1>2, <1>3, <1>4, <1>5 DEF EditorNext

LEMMA EditorSafe == EditorInv => SavesOverItsBaseline
BY DEF EditorInv, EditorStateInv, SaveOK, SavesOverItsBaseline
=============================================================================
