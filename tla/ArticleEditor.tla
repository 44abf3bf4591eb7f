---------------------------- MODULE ArticleEditor ----------------------------
(***************************************************************************)
(* pages/admin/ArticleEditor.tsx: the article's baseline, the draft kept   *)
(* in localStorage, saving, and the assistance of the AI.                  *)
(*                                                                         *)
(* "away" is any other page, whose steps are in the other modules.         *)
(* The server's article and the drafts outlive the page; the rest is the   *)
(* page's state.  useSubmit lets a save run on after the page is left.     *)
(* Fields are values that tell apart where they come from; the content is  *)
(* the sequence of its paragraphs.                                         *)
(***************************************************************************)
EXTENDS PageKit

CONSTANTS
  Articles,   \* articles that exist
  Parts,      \* paragraphs a user types; "long" is over the limit of the AI,
              \* "huge" over the limit of an article
  MaxParts,   \* bound on the paragraphs of a content
  MaxEdits    \* bound on what users and the AI do; the editor is opened below it

ASSUME EditorAssumption == "new" \notin Articles /\ MaxParts \in Nat /\ MaxEdits \in Nat

VARIABLES
  article,  \* what the server has of each article
  drafts,   \* localStorage: the draft of each article and of the new one
  saves,    \* saves in flight
  edits     \* what MaxEdits bounds

editor == <<article, drafts, saves, edits>>

EdKeys == Articles \cup {"new"}
InEditor == page = "editor"

\* title stands for the title and the slug: both are required, and both made by the AI when
\* empty.  seo stands for the SEO fields, and for the other fields the form edits alike.
emptyEditorDraft == [title |-> "", summary |-> "", gen |-> TRUE,
                     content |-> <<>>, cover |-> "", seo |-> ""]
NoFields   == [emptyEditorDraft EXCEPT !.title = "none"]
NoDraft    == [fields |-> NoFields, newer |-> FALSE]
NoAssist   == [action |-> "none", fields |-> NoFields, at |-> 0]
NoAIDraft  == [at |-> 0, text |-> "none", source |-> <<>>]

articleToEditorDraft(k) == [article[k] EXCEPT !.gen = article[k].summary = ""]

Stored(k) == [title |-> "kept", summary |-> "kept", gen |-> FALSE,
              content |-> <<"kept", "end">>, cover |-> "kept", seo |-> ""]

EditorInit == /\ article = [k \in Articles |-> Stored(k)]
              /\ drafts = [k \in EdKeys |-> NoDraft]
              /\ saves = {} /\ edits = 0

\* The first render, before the load effect.
EditorHooks(k) ==
  [key |-> k, fields |-> emptyEditorDraft, ready |-> FALSE, base |-> NoFields,
   status |-> IF k = "new" THEN "ready" ELSE "loading",
   recovery |-> NoFields, skip |-> FALSE, timer |-> FALSE,
   assist |-> NoAssist, ai |-> NoAIDraft, saving |-> FALSE, picker |-> "closed"]

------------------------------------------------------------------------------
(* Access.                                                                 *)

\* Broken variant: the baseline is not waited for.
canOperateAlways(k, status) == TRUE
canOperateArticleEditor(k, status) == k = "new" \/ status = "ready"
resolveArticleEditorAccess == IF canOperateArticleEditor(ui.key, ui.status) THEN "editor"
                              ELSE IF ui.status = "error" THEN "error" ELSE "loading"
Operable == InEditor /\ Free /\ canOperateArticleEditor(ui.key, ui.status)
\* The form is shown, and no modal is over it.
Editing == /\ Operable /\ ui.picker = "closed" /\ resolveArticleEditorAccess = "editor"
           /\ edits < MaxEdits

------------------------------------------------------------------------------
(* Local drafts.                                                           *)

hasMeaningfulEditorDraft(f) == [f EXCEPT !.gen = TRUE] # emptyEditorDraft

shouldRecoverEditorDraft(d, base, k) ==
  /\ d # NoDraft /\ hasMeaningfulEditorDraft(d.fields) /\ d.fields # base
  /\ k = "new" \/ d.newer

readEditorDraft(k) == drafts[k]
writeEditorDraft(k, f) == drafts' = [drafts EXCEPT ![k] = [fields |-> f, newer |-> TRUE]]
DraftsLess(k) == [drafts EXCEPT ![k] = NoDraft]

\* What the form holds is the baseline, or nothing on top of nothing.
NothingToKeep(u) == \/ u.fields = u.base
                    \/ ~hasMeaningfulEditorDraft(u.fields) /\ ~hasMeaningfulEditorDraft(u.base)

\* Broken variant: a draft that was offered and not answered is dropped.
DropsDraft(u) == TRUE
\* The effect drops the draft, unless its recovery is still offered.
MayDropDraft(u) == u.recovery = NoFields

\* The render of u: when a field or the readiness changed, the autosave effect runs.
\* A discarded draft makes it pass over its next run.
Render(u) ==
  LET runs == u.fields # ui.fields \/ u.ready # ui.ready
      v    == [u EXCEPT !.timer = FALSE]
  IN  CASE ~runs                       -> ui' = u /\ UNCHANGED drafts
        [] runs /\ ~u.ready            -> ui' = v /\ UNCHANGED drafts
        [] runs /\ u.ready /\ u.skip   -> ui' = [v EXCEPT !.skip = FALSE] /\ UNCHANGED drafts
        [] runs /\ u.ready /\ ~u.skip /\ NothingToKeep(u) ->
             /\ ui' = v
             /\ drafts' = IF MayDropDraft(u) THEN DraftsLess(u.key) ELSE drafts
        [] OTHER                       -> ui' = [u EXCEPT !.timer = TRUE] /\ UNCHANGED drafts

EdAutosaveFires ==
  /\ InEditor /\ ui.timer
  /\ writeEditorDraft(ui.key, ui.fields)
  /\ ui' = [ui EXCEPT !.timer = FALSE]
  /\ UNCHANGED <<page, dialog, article, saves, edits>>

\* The panel with the two buttons.
RecoveryOffered == Operable /\ ui.picker = "closed" /\ ui.recovery # NoFields

restoreLocalDraft ==
  /\ RecoveryOffered
  /\ Render([ui EXCEPT !.fields = ui.recovery, !.recovery = NoFields])
  /\ UNCHANGED <<page, dialog, article, saves, edits>>

discardLocalDraft ==
  /\ RecoveryOffered
  /\ drafts' = DraftsLess(ui.key)
  /\ ui' = [ui EXCEPT !.recovery = NoFields, !.skip = TRUE]
  /\ UNCHANGED <<page, dialog, article, saves, edits>>

------------------------------------------------------------------------------
(* Opening, loading, leaving.                                              *)

\* The page with its baseline: the draft kept for it is offered, or dropped as older or as
\* saying nothing new.  The autosave effect runs on the form that is ready, too.
Loaded(u, base) ==
  LET d     == readEditorDraft(u.key)
      offer == shouldRecoverEditorDraft(d, base, u.key)
      v     == [u EXCEPT !.base = base, !.fields = base, !.status = "ready", !.ready = TRUE,
                         !.recovery = IF offer THEN d.fields ELSE NoFields]
  IN  /\ ui' = v
      /\ drafts' = IF offer /\ ~MayDropDraft(v) THEN drafts ELSE DraftsLess(u.key)

EdOpen(k) ==
  /\ page = "away" /\ Free /\ edits < MaxEdits
  /\ page' = "editor"
  /\ IF k = "new" THEN Loaded(EditorHooks(k), emptyEditorDraft)
     ELSE ui' = EditorHooks(k) /\ UNCHANGED drafts
  /\ UNCHANGED <<dialog, article, saves, edits>>

EdBaselineLoaded ==
  /\ InEditor /\ ui.status = "loading"
  /\ Loaded(ui, articleToEditorDraft(ui.key))
  /\ UNCHANGED <<page, dialog, article, saves, edits>>

EdBaselineFailed ==
  /\ InEditor /\ ui.status = "loading"
  /\ ui' = [ui EXCEPT !.status = "error"]
  /\ UNCHANGED <<page, dialog, editor>>

\* The load effect runs again, and resets what its first run had set.
retryArticleBaseline ==
  /\ InEditor /\ Free /\ resolveArticleEditorAccess = "error" /\ edits < MaxEdits
  /\ edits' = edits + 1
  /\ ui' = EditorHooks(ui.key)
  /\ UNCHANGED <<page, dialog, article, drafts, saves>>

\* The page is left: its timer and requests die with it, not its save.  A list of articles
\* that was about to open no longer does.
Orphaned == {[s EXCEPT !.mine = FALSE] : s \in {x \in saves : x.phase # "opening"}}
EdLeave ==
  /\ InEditor /\ Free
  /\ page' = "away" /\ ui' = "gone"
  /\ saves' = Orphaned
  /\ UNCHANGED <<dialog, article, drafts, edits>>

\* Another editor saves the article: a draft written before is older.  The other pages read
\* neither.
OtherEdits(k) ==
  /\ page \in {"editor", "away"} /\ edits < MaxEdits /\ edits' = edits + 1
  /\ article' = [article EXCEPT ![k].content = <<"other">>]
  /\ drafts' = [drafts EXCEPT ![k].newer = FALSE]
  /\ UNCHANGED <<kit, saves>>

------------------------------------------------------------------------------
(* Typing.                                                                 *)

Edit(f) == /\ Editing /\ f # ui.fields /\ edits' = edits + 1
           /\ Render([ui EXCEPT !.fields = f])
           /\ UNCHANGED <<page, dialog, article, saves>>

EdTypeField ==
  \/ \E v \in {"", "typed"} : \/ Edit([ui.fields EXCEPT !.title = v])
                              \/ Edit([ui.fields EXCEPT !.seo = v])
  \/ Edit([ui.fields EXCEPT !.cover = "bad"])

\* A summary of one's own turns its generation off, an emptied one on.
handleSummaryChange(v) == Edit([ui.fields EXCEPT !.summary = v, !.gen = v = ""])
EdTypeSummary == \E v \in {"", "typed", "huge"} : handleSummaryChange(v)
EdToggleGen   == Edit([ui.fields EXCEPT !.gen = ~@])

Before(c, i) == SubSeq(c, 1, i)
After(c, i)  == SubSeq(c, i + 1, Len(c))
\* The content with part p in the place of its paragraphs from..to-1.
Splice(c, from, to, p) == Before(c, from - 1) \o p \o After(c, to - 1)

\* A paragraph is added, replaced or removed.
EdTypeContent ==
  Editing /\ \E i, to \in 1..Len(ui.fields.content) + 1, p \in {<<>>} \cup {<<q>> : q \in Parts} :
    /\ to \in {i, i + 1}
    /\ LET c == Splice(ui.fields.content, i, to, p)
       IN  Len(c) <= MaxParts /\ Edit([ui.fields EXCEPT !.content = c])

EdOpenPicker == /\ Editing /\ \E m \in {"cover", "content"} : ui' = [ui EXCEPT !.picker = m]
                /\ UNCHANGED <<page, dialog, editor>>

\* An image is a paragraph of its own, at the caret or over what is selected.
insertMediaMarkdown(c, i, to) == Splice(c, i, to, <<"image">>)

handleMediaSelect ==
  /\ InEditor /\ ui.picker # "closed" /\ edits' = edits + 1
  /\ \E i, to \in 1..Len(ui.fields.content) + 1 :
       /\ to \in {i, i + 1}
       /\ LET c == insertMediaMarkdown(ui.fields.content, i, to)
              f == IF ui.picker = "cover" THEN [ui.fields EXCEPT !.cover = "typed"]
                   ELSE [ui.fields EXCEPT !.content = c]
          IN  /\ Len(f.content) <= MaxParts
              /\ Render([ui EXCEPT !.fields = f, !.picker = "closed"])
  /\ UNCHANGED <<page, dialog, article, saves>>

EdClosePicker == /\ InEditor /\ ui.picker # "closed" /\ ui' = [ui EXCEPT !.picker = "closed"]
                 /\ UNCHANGED <<page, dialog, editor>>

------------------------------------------------------------------------------
(* The assistance of the AI.                                               *)

AIMenu == {"complete", "rewrite"}   \* rewrite: proofread, polish, expand, shorten, translate

Holds(c, p) == \E i \in 1..Len(c) : c[i] = p
\* The limit of the actions that read the whole article.
exceedsFullArticleAIContentLimit(action, c) ==
  action # "rewrite" /\ (Holds(c, "long") \/ Holds(c, "huge"))

\* What is selected, or the paragraph at the caret; all of it to complete.
getActiveMarkdownRange == 1..Len(ui.fields.content)

handleAIAssist(action) ==
  /\ Editing /\ ui.assist = NoAssist /\ action \in AIMenu
  /\ ui.fields.content # <<>> /\ ~exceedsFullArticleAIContentLimit(action, ui.fields.content)
  /\ edits' = edits + 1
  /\ \E i \in getActiveMarkdownRange :
       ui' = [ui EXCEPT !.ai = NoAIDraft,
                        !.assist = [action |-> action, fields |-> ui.fields, at |-> i]]
  /\ UNCHANGED <<page, dialog, article, drafts, saves>>

\* The fields that were empty when the button was pressed are filled in.
buildArticleCompletionPatch(then, now) ==
  [now EXCEPT !.title   = IF then.title = "" THEN "made" ELSE @,
              !.summary = IF then.summary = "" THEN "made" ELSE @,
              !.seo     = IF then.seo = "" THEN "made" ELSE @]

EdAssistAnswered ==
  /\ InEditor /\ ui.assist # NoAssist
  /\ LET a == ui.assist
         u == [ui EXCEPT !.assist = NoAssist]
     IN  \/ a.action = "complete"
            /\ Render([u EXCEPT !.fields = buildArticleCompletionPatch(a.fields, @)])
         \/ a.action = "rewrite" /\ UNCHANGED drafts
            /\ \E text \in {"made", ""} :
                 ui' = [u EXCEPT !.ai = [at |-> a.at, text |-> text, source |-> a.fields.content]]
         \/ ui' = u /\ UNCHANGED drafts
  /\ UNCHANGED <<page, dialog, article, saves, edits>>

\* The panel with the rewritten text.
AIDraftOffered == Operable /\ ui.picker = "closed" /\ ui.ai # NoAIDraft

\* Broken variant: the range of an older content is trusted.
AnySource(u) == u.ai.at <= Len(u.fields.content)
\* The text is put in its range when the content is still the one it was made from.
SameSource(u) == u.ai.source = u.fields.content

applyAIContent ==
  /\ AIDraftOffered /\ ui.ai.text # ""
  /\ LET u == [ui EXCEPT !.ai = NoAIDraft]
     IN  IF SameSource(ui)
         THEN Render([u EXCEPT !.fields.content = Splice(@, ui.ai.at, ui.ai.at + 1, <<ui.ai.text>>)])
         ELSE ui' = u /\ UNCHANGED drafts
  /\ UNCHANGED <<page, dialog, article, saves, edits>>

EdDismissAI == /\ AIDraftOffered /\ ui' = [ui EXCEPT !.ai = NoAIDraft]
               /\ UNCHANGED <<page, dialog, editor>>

------------------------------------------------------------------------------
(* Saving.                                                                 *)

Savable(f) == /\ f.title # "" /\ ~Holds(f.content, "huge")
              /\ f.summary # "huge" /\ f.cover # "bad"

GeneratesSummary(f) ==
  f.gen /\ f.content # <<>> /\ ~exceedsFullArticleAIContentLimit("metadata", f.content)

\* handleSave, then the handler of useSubmit up to its first request.
handleSave ==
  /\ Operable /\ ui.picker = "closed" /\ resolveArticleEditorAccess = "editor"
  /\ Savable(ui.fields) /\ ~ui.saving /\ edits < MaxEdits
  /\ edits' = edits + 1
  /\ saves' = saves \cup {[key |-> ui.key, fields |-> ui.fields, over |-> ui.base, mine |-> TRUE,
                           phase |-> IF GeneratesSummary(ui.fields) THEN "summary" ELSE "put"]}
  /\ ui' = [ui EXCEPT !.saving = TRUE]
  /\ UNCHANGED <<page, dialog, article, drafts>>

\* The generated summary goes in the payload, and in the form when it is still there;
\* without one the save goes on.
EdSaveSummarized(s) ==
  LET Fill(f) == [f EXCEPT !.summary = "made", !.gen = FALSE,
                           !.seo = IF s.fields.seo = "" THEN "made" ELSE @]
  IN  /\ s.phase = "summary"
      /\ \/ /\ saves' = (saves \ {s}) \cup {[s EXCEPT !.phase = "put", !.fields = Fill(@)]}
            /\ IF s.mine THEN Render([ui EXCEPT !.fields = Fill(@)]) ELSE UNCHANGED <<ui, drafts>>
         \/ /\ saves' = (saves \ {s}) \cup {[s EXCEPT !.phase = "put"]}
            /\ UNCHANGED <<ui, drafts>>
      /\ UNCHANGED <<page, dialog, article, edits>>

\* The server has the article.  Drafts written before are older than it.
EdPut(s) ==
  /\ s.phase = "put"
  /\ saves' = (saves \ {s}) \cup {[s EXCEPT !.phase = "stored"]}
  /\ IF s.key = "new" THEN UNCHANGED <<article, drafts>>
     ELSE /\ article' = [article EXCEPT ![s.key] = s.fields]
          /\ drafts' = [drafts EXCEPT ![s.key].newer = FALSE]
  /\ UNCHANGED <<kit, edits>>

\* The answer: the draft of the article is removed, wherever the user is by now, and the list
\* of articles asked for.  Its page is loaded first, and replaces the editor when it is there.
EdSaved(s) ==
  /\ s.phase = "stored" /\ page \in {"editor", "away"}
  /\ drafts' = DraftsLess(s.key)
  /\ saves' = (saves \ {s}) \cup (IF InEditor THEN {[s EXCEPT !.phase = "opening"]} ELSE {})
  /\ ui' = IF s.mine THEN [ui EXCEPT !.saving = FALSE] ELSE ui
  /\ UNCHANGED <<page, dialog, article, edits>>

EdListOpens(s) ==
  /\ InEditor /\ s.phase = "opening"
  /\ page' = "away" /\ ui' = "gone"
  /\ saves' = Orphaned
  /\ UNCHANGED <<dialog, article, drafts, edits>>

\* The request fails, or its answer is lost.
EdSaveFailed(s) ==
  /\ s.phase \in {"put", "stored"}
  /\ saves' = saves \ {s}
  /\ ui' = IF s.mine THEN [ui EXCEPT !.saving = FALSE] ELSE ui
  /\ UNCHANGED <<page, dialog, article, drafts, edits>>

------------------------------------------------------------------------------
EditorNext ==
  \/ EdAutosaveFires \/ restoreLocalDraft \/ discardLocalDraft
  \/ \E k \in EdKeys : EdOpen(k)
  \/ EdBaselineLoaded \/ EdBaselineFailed \/ retryArticleBaseline \/ EdLeave
  \/ \E k \in Articles : OtherEdits(k)
  \/ EdTypeField \/ EdTypeSummary \/ EdToggleGen \/ EdTypeContent
  \/ EdOpenPicker \/ handleMediaSelect \/ EdClosePicker
  \/ \E a \in AIMenu : handleAIAssist(a)
  \/ EdAssistAnswered \/ applyAIContent \/ EdDismissAI
  \/ handleSave
  \/ \E s \in saves : EdSaveSummarized(s) \/ EdPut(s) \/ EdSaved(s) \/ EdListOpens(s)
                       \/ EdSaveFailed(s)

------------------------------------------------------------------------------
(* Properties.                                                             *)

Offering == InEditor /\ ui.recovery # NoFields

\* The draft the editor offers to recover (ArticleEditor.tsx:587, 1000) is the one in the
\* storage.  While it is offered neither loading, nor typing and taking it back, removes it
\* or writes an empty or unchanged form over it: only the answer of a save of the article
\* takes it away, of this editor or of one left before, and only what was typed in spite of
\* the offer takes its place.
OfferStays ==
  Offering' =>
    IF ~Offering THEN drafts'[ui'.key].fields = ui'.recovery
    ELSE \/ drafts'[ui.key].fields = drafts[ui.key].fields
         \/ drafts'[ui.key].fields = ui.fields /\ ~NothingToKeep(ui)
         \/ \E s \in saves : s.key = ui.key /\ s.phase = "stored" /\ s \notin saves'

OfferedDraftKept == [][OfferStays]_<<kit, editor>>

\* An article that exists is only ever overwritten by a form that was filled from it: a save
\* in flight was made over a baseline (ArticleEditor.tsx:725, editorAccessPolicy.ts:34),
\* however often the loading failed or was tried again, and never over the empty form.
SavesOverItsBaseline == \A s \in saves : s.key \in Articles => s.over # NoFields

\* A rewritten text replaces exactly the paragraph that the AI was given
\* (ArticleEditor.tsx:838), whatever was typed or inserted while it was answering.
RewritesWhatItRead ==
  [][ InEditor /\ InEditor' /\ ui.ai # NoAIDraft /\ ui'.ai = NoAIDraft
      /\ ui'.fields.content # ui.fields.content
      => ui.fields.content[ui.ai.at] = ui.ai.source[ui.ai.at] ]_<<kit, editor>>
=============================================================================
