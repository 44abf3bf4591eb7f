---------------------------- MODULE AdminConsole ----------------------------
(***************************************************************************)
(* The console (components under /admin): the editor of articles, and the  *)
(* other pages, each entered by its address.  AdminLayout keys its outlet  *)
(* by the path, so that a page that is left is unmounted; what survives it *)
(* is the confirmation dialog, the drafts in the storage and the saves in  *)
(* flight.  "away" is any page that is not modelled here.                  *)
(***************************************************************************)
EXTENDS ArticleEditor, EditorWidgets, ContentAdmin, SettingsAdmin

console == <<kit, editor>>

Init ==
  /\ dialog = NoDialog /\ EditorInit
  /\ \/ page = "away" /\ ui = "gone"
     \/ WidgetsInit \/ ContentInit \/ SettingsInit

Next ==
  \/ EditorNext
  \/ (WidgetsNext \/ ContentNext \/ SettingsNext \/ Refuse) /\ UNCHANGED editor

Spec == Init /\ [][Next]_console

------------------------------------------------------------------------------
(* Property.                                                               *)

\* Nothing is written over what was never read: a failed or missing load leaves no form that
\* could replace an article, the site's settings or the projects with an empty one or with
\* defaults (editorAccessPolicy.ts:34, siteSettingsPolicy.ts:71, ProjectsContent.tsx:67).
WritesOverWhatWasLoaded == SavesOverItsBaseline /\ WrittenOverLoaded
=============================================================================
