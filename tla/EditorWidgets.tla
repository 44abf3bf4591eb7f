---------------------------- MODULE EditorWidgets ----------------------------
(***************************************************************************)
(* The two widgets of the article editor with a state of their own, each   *)
(* explored alone under what the editor does to it:                        *)
(*   TaxonomyCombobox (ArticleEditor.tsx), for a category and for tags     *)
(*   components/admin/MediaPicker.tsx                                      *)
(***************************************************************************)
EXTENDS PageKit, SequencesExt

CONSTANTS
  Names,     \* names of categories or tags; an item is identified by its name
  NewName    \* a name that no item has

\* Searches: nothing, a name, something every name contains.
Searches == {"", "all"} \cup Names \cup {NewName}
Match(q, n) == q \in {"", "all"} \/ q = n

------------------------------------------------------------------------------
(* TaxonomyCombobox, with the state of the editor it works on.             *)

InCombobox == page = "combobox" /\ Free

ComboboxHooks(multiple) ==
  [multiple |-> multiple, items |-> <<>>, selected |-> <<>>, query |-> "",
   open |-> FALSE, active |-> -1, creating |-> "none", failed |-> FALSE]

Selected(u)  == {u.selected[i] : i \in DOMAIN u.selected}
Available(u) == SelectSeq(u.items, LAMBDA n : ~(u.multiple /\ n \in Selected(u)))
filteredItems(u) == SelectSeq(Available(u), LAMBDA n : Match(u.query, n))
hasSameName(u) == Contains(u.items, u.query)
canCreate(u)   == u.query # "" /\ ~hasSameName(u)
optionCount(u) == Len(filteredItems(u)) + IF canCreate(u) THEN 1 ELSE 0

\* A new search has no active option.
SetQuery(u, q) == [u EXCEPT !.query = q, !.active = IF q # u.query THEN -1 ELSE @]
\* The name of the category that is selected, or was selected anew, is shown.
ShowName(u) == IF ~u.multiple /\ u.selected # ui.selected /\ u.selected # <<>>
               THEN SetQuery(u, u.selected[1]) ELSE u

\* What the editor does with a selection: one category, or the tags in order.
OnSelect(u, n) == [u EXCEPT !.failed = FALSE,
                            !.selected = IF ~u.multiple THEN <<n>>
                                         ELSE IF Contains(@, n) THEN @ ELSE Append(@, n)]
OnRemove(u, n) == [u EXCEPT !.failed = FALSE, !.selected = SelectSeq(@, LAMBDA m : m # n)]

\* The list shows when there is something to show.
listShown(u) == u.open /\ optionCount(u) > 0

handleSelect(u, n) ==
  ShowName([SetQuery(OnSelect(u, n), IF u.multiple THEN "" ELSE n) EXCEPT !.open = FALSE, !.active = -1])

\* The editor's request for a new category or tag.
handleCreate(u) == IF canCreate(u) /\ u.creating = "none"
                   THEN [u EXCEPT !.creating = u.query, !.failed = FALSE] ELSE u

handleInputChange(q) ==
  /\ InCombobox
  /\ LET u == IF ~ui.multiple /\ ui.selected # <<>> THEN OnRemove(ui, ui.selected[1]) ELSE ui
     IN  ui' = [SetQuery(u, q) EXCEPT !.open = TRUE, !.active = -1]
  /\ UNCHANGED <<page, dialog>>

ArrowDown(u) == [u EXCEPT !.open = TRUE,
                          !.active = IF optionCount(u) > 0 THEN (@ + 1) % optionCount(u) ELSE @]
ArrowUp(u)   == [u EXCEPT !.open = TRUE,
                          !.active = IF optionCount(u) = 0 THEN @
                                     ELSE IF @ <= 0 THEN optionCount(u) - 1 ELSE @ - 1]
HomeKey(u) == IF listShown(u) THEN [u EXCEPT !.active = 0] ELSE u
EndKey(u)  == IF listShown(u) THEN [u EXCEPT !.active = optionCount(u) - 1] ELSE u
Escape(u)  == [u EXCEPT !.open = FALSE, !.active = -1]
Backspace(u) == IF u.multiple /\ u.query = "" /\ u.selected # <<>>
                THEN OnRemove(u, u.selected[Len(u.selected)]) ELSE u
\* The active option, else the item of that very name, else a new one.
Enter(u) == IF u.active \in 0..Len(filteredItems(u)) - 1
            THEN handleSelect(u, filteredItems(u)[u.active + 1])
            ELSE IF hasSameName(u) /\ ~(u.active = Len(filteredItems(u)) /\ canCreate(u))
            THEN handleSelect(u, u.query) ELSE handleCreate(u)

handleKeyDown ==
  /\ InCombobox
  /\ ui' \in {ArrowDown(ui), ArrowUp(ui), HomeKey(ui), EndKey(ui), Enter(ui), Escape(ui), Backspace(ui)}
  /\ UNCHANGED <<page, dialog>>

\* The mouse: focus, blur, hover, an option, the chips and the cross.
handleMouse ==
  /\ InCombobox
  /\ \/ \E b \in BOOLEAN : ui' = [ui EXCEPT !.open = b]
     \/ listShown(ui) /\ \E i \in 0..optionCount(ui) - 1 : ui' = [ui EXCEPT !.active = i]
     \/ listShown(ui) /\ \E i \in DOMAIN filteredItems(ui) : ui' = handleSelect(ui, filteredItems(ui)[i])
     \/ listShown(ui) /\ ui' = handleCreate(ui)
     \/ \E i \in DOMAIN ui.selected :
          LET u == OnRemove(ui, ui.selected[i])
          IN  ui' = IF ui.multiple THEN u ELSE [SetQuery(u, "") EXCEPT !.open = FALSE]
  /\ UNCHANGED <<page, dialog>>

\* The taxonomies arrive, the first 100 of each.
fetchDeps ==
  /\ page = "combobox" /\ ui.items = <<>>
  /\ \E s \in {S \in SUBSET Names : S # {}} : ui' = [ui EXCEPT !.items = SetToSeq(s)]
  /\ UNCHANGED <<page, dialog>>

\* The new one goes in front of the items and is selected; the search is emptied, and
\* shows the name of a new category at once.
Created(u) ==
  LET n == u.creating
      v == [u EXCEPT !.items = <<n>> \o SelectSeq(@, LAMBDA m : m # n), !.creating = "none"]
  IN  ShowName([SetQuery(OnSelect(v, n), "") EXCEPT !.open = FALSE, !.active = -1])

handleCreateCategory ==
  /\ page = "combobox" /\ ~ui.multiple /\ ui.creating # "none"
  /\ ui' \in {Created(ui), [ui EXCEPT !.creating = "none", !.failed = TRUE]}
  /\ UNCHANGED <<page, dialog>>

handleCreateTag ==
  /\ page = "combobox" /\ ui.multiple /\ ui.creating # "none"
  /\ ui' \in {Created(ui), [ui EXCEPT !.creating = "none", !.failed = TRUE]}
  /\ UNCHANGED <<page, dialog>>

\* A baseline or a recovered draft replaces what is selected.
ComboboxReset ==
  /\ InCombobox
  /\ \E s \in {<<>>} \cup {<<n>> : n \in Names} : ui' = ShowName([ui EXCEPT !.selected = s])
  /\ UNCHANGED <<page, dialog>>

------------------------------------------------------------------------------
(* MediaPicker: a search waits 200 ms and gives way to the next.           *)

PickerHooks == [open |-> TRUE, query |-> "", shown |-> "none", loading |-> FALSE,
                asked |-> "timer", error |-> FALSE, uploading |-> FALSE, picked |-> "none"]

InPicker == page = "picker" /\ ui.open

\* The effect: its cleanup drops the timer and aborts the request, whose end says nothing.
PickerRuns(u) == [u EXCEPT !.asked = IF u.open THEN "timer" ELSE "none"]

PickerSearch(q) == /\ InPicker /\ q # ui.query /\ ui' = PickerRuns([ui EXCEPT !.query = q])
                   /\ UNCHANGED <<page, dialog>>

PickerAsks == /\ InPicker /\ ui.asked = "timer"
              /\ ui' = [ui EXCEPT !.asked = "sent", !.loading = TRUE, !.error = FALSE]
              /\ UNCHANGED <<page, dialog>>

PickerAnswered ==
  /\ InPicker /\ ui.asked = "sent"
  /\ ui' \in {[ui EXCEPT !.asked = "none", !.loading = FALSE, !.shown = ui.query],
              [ui EXCEPT !.asked = "none", !.loading = FALSE, !.error = TRUE]}
  /\ UNCHANGED <<page, dialog>>

PickerUpload ==
  /\ InPicker /\ ~ui.uploading
  /\ ui' = [ui EXCEPT !.uploading = TRUE, !.error = FALSE]
  /\ UNCHANGED <<page, dialog>>

\* The upload ends, even when the picker was closed meanwhile.
PickerUploaded ==
  /\ page = "picker" /\ ui.uploading
  /\ \E ok \in BOOLEAN :
       ui' = [ui EXCEPT !.uploading = FALSE, !.error = ~ok,
                        !.shown = IF ok /\ @ = "none" THEN "own" ELSE @]
  /\ UNCHANGED <<page, dialog>>

\* An item is shown, unless the list is loading; it is picked and the picker closes.
PickerPick ==
  /\ InPicker /\ ~ui.loading /\ ui.shown # "none"
  /\ ui' = PickerRuns([ui EXCEPT !.open = FALSE, !.picked = ui.shown])
  /\ UNCHANGED <<page, dialog>>

PickerToggle == /\ page = "picker" /\ \E b \in BOOLEAN : ui' = PickerRuns([ui EXCEPT !.open = b])
                /\ UNCHANGED <<page, dialog>>

------------------------------------------------------------------------------
WidgetsInit == \/ page = "combobox" /\ \E m \in BOOLEAN : ui = ComboboxHooks(m)
               \/ page = "picker" /\ ui = PickerHooks

WidgetsNext ==
  \/ \E q \in Searches : handleInputChange(q) \/ PickerSearch(q)
  \/ handleKeyDown \/ handleMouse \/ fetchDeps \/ handleCreateCategory \/ handleCreateTag
  \/ ComboboxReset
  \/ PickerAsks \/ PickerAnswered \/ PickerUpload \/ PickerUploaded \/ PickerPick \/ PickerToggle
=============================================================================
