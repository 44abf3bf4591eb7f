---------------------------- MODULE ContentAdmin ----------------------------
(***************************************************************************)
(* The pages of the console that list what the site has:                   *)
(*   pages/admin/Articles, ArticleVersions, ArticlePreview, Media, Tags,   *)
(*   Categories, Users, Logs (and logPresentation.ts), Analytics,          *)
(*   Dashboard                                                             *)
(* Each is entered by its address; its state is the record ui of PageKit.  *)
(***************************************************************************)
EXTENDS PageKit

Lists == {"articles", "media", "tags", "categories", "users", "logs", "home", "search"}

\* A button of a row; the rows are there until others take their place.
Row(p, i) == At(p) /\ ui.some

------------------------------------------------------------------------------
(* Articles.                                                               *)

ArticlesMount == Refetched(NewListWith([keyword |-> "", options |-> FALSE, importing |-> FALSE]))

ArticlesAnswered == page = "articles" /\ ListAnswered

\* The selects are filled, or the failure shown where list errors are.
ArticlesTaxonomies ==
  /\ page = "articles" /\ ~ui.options
  /\ Becomes([ui EXCEPT !.options = TRUE]) \/ Becomes([ui EXCEPT !.error = TRUE])

\* Status, category and tag apply at once, the keyword when the form is sent.
ArticlesFilter ==
  /\ At("articles") /\ CanAsk(ui)
  /\ \/ \E k \in {"", "k"} : Becomes([ui EXCEPT !.keyword = k])
     \/ \E s \in {"", "s"} : Becomes(Reapplied([ui EXCEPT !.filter[2] = s, !.at = 1]))

ArticlesFilterSubmit ==
  /\ At("articles") /\ CanAsk(ui)
  /\ Becomes(Reapplied([ui EXCEPT !.filter[1] = ui.keyword, !.at = 1]))

ArticlesClearFilters ==
  /\ At("articles") /\ CanAsk(ui)
  /\ Becomes(Reapplied([ui EXCEPT !.keyword = "", !.filter = NoFilter, !.at = 1]))

ArticlesPages == At("articles") /\ Turn(TRUE)

\* One slot says which row is busy with what, and disables that button only.
ArticlesEnabled(op, i) == ui.busy # <<op, i>>

ArticlesStatus ==
  /\ page = "articles"
  /\ \/ \E i \in Items : Row("articles", i) /\ ArticlesEnabled("status", i) /\ Write("status", i)
     \/ WriteRelists("status") \/ WriteFails("status")

ArticlesDelete ==
  /\ page = "articles"
  /\ \/ \E i \in Items : Row("articles", i) /\ ArticlesEnabled("delete", i) /\ AskFor("delete", i)
     \/ Confirmed("delete") \/ WriteRelists("delete") \/ WriteFails("delete")

ArticlesExport ==
  /\ page = "articles"
  /\ \/ \E i \in Items : Row("articles", i) /\ ArticlesEnabled("export", i) /\ Write("export", i)
     \/ \E j \in Pending("export") : Becomes(Ended(ui, j))
     \/ WriteFails("export")

\* The imported article is opened in the editor.
ArticlesImport ==
  /\ page = "articles"
  /\ \/ At("articles") /\ ~ui.importing /\ Becomes([ui EXCEPT !.importing = TRUE, !.error = FALSE])
     \/ ui.importing /\ Becomes([ui EXCEPT !.importing = FALSE, !.error = TRUE])
     \/ ui.importing /\ Leaves

------------------------------------------------------------------------------
(* The versions of an article, and its preview.                            *)

VersionsMount == Refetched(NewListWith([detail |-> "none", detailLoading |-> FALSE, inspects |-> {}]))

\* No counter here: an answer that comes late is shown.
VersionsAnswered ==
  /\ page = "versions" /\ \E r \in Answers :
       LET u    == AnsweredUnguarded(ui, r.ask, r.ok, r.some, r.pages)
           over == {j \in ui.jobs : j.ask = r.ask.id}
       IN  Becomes(IF over = {} THEN u
                   ELSE [u EXCEPT !.busy = ui.busy, !.detailLoading = TRUE, !.error = FALSE,
                                  !.inspects = @ \cup {[id |-> j.id, restored |-> TRUE] : j \in over}])

\* The pages are hidden while the list loads.
VersionsPages == At("versions") /\ ~ui.loading /\ Turn(FALSE)

VersionsInspect ==
  /\ page = "versions"
  /\ \/ /\ At("versions") /\ ~ui.loading /\ ui.some /\ ~ui.detailLoading
        /\ \E i \in Items : Becomes([ui EXCEPT !.detailLoading = TRUE, !.error = FALSE,
                                     !.inspects = @ \cup {[id |-> i, restored |-> FALSE]}])
     \/ \E x \in ui.inspects, ok \in BOOLEAN :
          Becomes([ui EXCEPT !.detailLoading = FALSE, !.inspects = @ \ {x},
                             !.detail = IF ok THEN x.id ELSE @, !.error = @ \/ ~ok,
                             !.busy = IF x.restored THEN NotBusy ELSE @])

\* Confirmed, restored, listed again as it was when the button was pressed, then shown.
VersionsRestore ==
  /\ page = "versions"
  /\ \/ \E i \in Items : Row("versions", i) /\ ~ui.loading /\ ui.busy[2] # i /\ AskFor("restore", i)
     \/ Confirmed("restore") \/ WriteRelists("restore") \/ WriteFails("restore")

PreviewMount == [loading |-> TRUE, shown |-> FALSE, error |-> FALSE]
PreviewAnswered ==
  /\ page = "preview" /\ ui.loading
  /\ \E ok \in BOOLEAN : Becomes([loading |-> FALSE, shown |-> ok, error |-> ~ok])

------------------------------------------------------------------------------
(* Media.                                                                  *)

\* dirty: the cards whose text differs from the item's.
MediaMount == Refetched(NewListWith([dirty |-> {}]))

\* Cards of another query are other cards.
MediaAnswered ==
  /\ page = "media"
  /\ \E r \in Answers :
       LET v == Answered(ui, r.ask, r.ok, r.some, r.pages)
       IN  Becomes(IF v.rows = ui.rows /\ v.some = ui.some THEN v ELSE [v EXCEPT !.dirty = {}])

\* Every change of the search asks.
MediaSearch == /\ At("media") /\ CanAsk(ui)
               /\ \E q \in {"", "k"} : Becomes(Reapplied([ui EXCEPT !.filter[1] = q, !.at = 1]))
MediaPages  == At("media") /\ Turn(FALSE)

MediaUpload ==
  /\ page = "media"
  /\ \/ At("media") /\ ui.busy[1] # "upload" /\ Write("upload", "none")
     \/ WriteRelists("upload") \/ WriteFails("upload")

MediaCard ==
  /\ At("media") /\ ui.some
  /\ \E i \in Items : Becomes([ui EXCEPT !.dirty = @ \cup {i}]) \/ Becomes([ui EXCEPT !.dirty = @ \ {i}])

\* The text that was saved takes the place of what the card says by then.
MediaSaveAlt ==
  /\ page = "media"
  /\ \/ \E i \in ui.dirty : Row("media", i) /\ ui.busy[2] # i /\ Write("alt", i)
     \/ \E j \in Pending("alt") : Becomes([Ended(ui, j) EXCEPT !.dirty = @ \ {j.id}])
     \/ WriteFails("alt")

\* Offered to an administrator.
MediaRemove ==
  /\ page = "media"
  /\ \/ \E i \in Items : Row("media", i) /\ ui.busy[2] # i /\ AskFor("remove", i)
     \/ Confirmed("remove") \/ WriteRelists("remove") \/ WriteFails("remove")

------------------------------------------------------------------------------
(* Tags, and categories, whose page is the same.                           *)

NoForm == [filled |-> FALSE, huge |-> FALSE]
TagsMount == Refetched(NewListWith([form |-> NoForm, editing |-> "none"]))

TagsFetchList(p) == page = p /\ ListAnswered
TagsPages(p)     == At(p) /\ Turn(FALSE)

TagsType(p) == At(p) /\ \E h \in BOOLEAN : Becomes([ui EXCEPT !.form = [filled |-> TRUE, huge |-> h]])

TagsEdit(p)   == \E i \in Items : Row(p, i) /\ Becomes([ui EXCEPT !.editing = i, !.form = [NoForm EXCEPT !.filled = TRUE]])
Cancelled(u)  == [u EXCEPT !.editing = "none", !.form = NoForm]
TagsCancel(p) == At(p) /\ ui.editing # "none" /\ Becomes(Cancelled(ui))

\* Success empties the form, whatever is edited in it by then, and lists again.
TagsSubmit(p) ==
  /\ page = p
  /\ \/ /\ At(p) /\ ui.form.filled /\ ~Submitting(ui)
        /\ IF ui.form.huge THEN Becomes([ui EXCEPT !.error = TRUE]) ELSE Write("save", ui.editing)
     \/ \E j \in Pending("save") : CanAsk(ui) /\ Becomes(Cancelled(Relisted(ui, j)))
     \/ WriteFails("save")

TagsDelete(p) ==
  /\ page = p
  /\ \/ \E i \in Items : Row(p, i) /\ ui.busy[2] # i /\ AskFor("delete", i)
     \/ Confirmed("delete") \/ WriteRelists("delete") \/ WriteFails("delete")

CategoriesMount     == TagsMount
CategoriesFetchList == TagsFetchList("categories")
CategoriesPages     == TagsPages("categories")
CategoriesType      == TagsType("categories")
CategoriesEdit      == TagsEdit("categories")
CategoriesCancel    == TagsCancel("categories")
CategoriesSubmit    == TagsSubmit("categories")
CategoriesDelete    == TagsDelete("categories")

TaxonomyNext ==
  \/ TagsFetchList("tags") \/ TagsPages("tags") \/ TagsType("tags") \/ TagsEdit("tags")
  \/ TagsCancel("tags") \/ TagsSubmit("tags") \/ TagsDelete("tags")
  \/ CategoriesFetchList \/ CategoriesPages \/ CategoriesType \/ CategoriesEdit
  \/ CategoriesCancel \/ CategoriesSubmit \/ CategoriesDelete

------------------------------------------------------------------------------
(* Users.                                                                  *)

UsersMount    == Refetched(NewList)
UsersAnswered == page = "users" /\ ListAnswered
UsersPages    == At("users") /\ Turn(FALSE)

\* A row that is busy offers neither its role nor its status.
UsersEnabled(i) == Row("users", i) /\ ui.busy[2] # i

UsersStatus ==
  /\ page = "users"
  /\ \/ \E i \in Items : UsersEnabled(i) /\ AskFor("status", i)
     \/ Confirmed("status") \/ WriteRelists("status") \/ WriteFails("status")
UsersRole ==
  /\ page = "users"
  /\ \/ \E i \in Items : UsersEnabled(i) /\ AskFor("role", i)
     \/ Confirmed("role") \/ WriteRelists("role") \/ WriteFails("role")

------------------------------------------------------------------------------
(* The operation log.                                                      *)

LogsMount == Refetched(NewListWith([who |-> "", dates |-> "", expanded |-> "none"]))
LogsAnswered == page = "logs" /\ ListAnswered

\* A range of dates; one that is no date is left out.
dateToUTCBoundary(d) == IF d = "nonsense" THEN "" ELSE d

LogsUpdateFilter ==
  /\ At("logs")
  /\ \/ \E w \in {"", "w"} : Becomes([ui EXCEPT !.who = w])
     \/ \E d \in {"", "range", "reversed", "nonsense"} : Becomes([ui EXCEPT !.dates = d])

\* Sending the form asks even when nothing changed.
LogsFilterSubmit ==
  /\ At("logs") /\ CanAsk(ui)
  /\ IF ui.dates = "reversed" THEN Becomes([ui EXCEPT !.error = TRUE])
     ELSE Becomes(Refetched([ui EXCEPT !.filter = <<ui.who, dateToUTCBoundary(ui.dates)>>,
                                       !.at = 1, !.expanded = "none"]))

LogsClearFilters ==
  /\ At("logs") /\ CanAsk(ui)
  /\ Becomes(Refetched([ui EXCEPT !.who = "", !.dates = "", !.filter = NoFilter,
                                  !.at = 1, !.expanded = "none"]))

LogsPageChange == /\ At("logs") /\ CanAsk(ui)
                  /\ \E p \in PageTargets(ui, FALSE) :
                       Becomes(Refetched([ui EXCEPT !.at = p, !.expanded = "none"]))

\* One row is open at a time.
LogsExpand ==
  \E i \in Items : Row("logs", i) /\ Becomes([ui EXCEPT !.expanded = IF @ = i THEN "none" ELSE i])

------------------------------------------------------------------------------
(* Analytics and the dashboard; both draw a chart with a library loaded    *)
(* when there is something to draw.                                        *)

NoChart == [wants |-> "none", drawn |-> "none", listening |-> FALSE]
\* The effect of the chart: what was awaited for older data is not drawn any more.
ChartRuns(c, d)    == [c EXCEPT !.wants = d, !.listening = FALSE]
ChartDrawn(c)      == [wants |-> "none", drawn |-> c.wants, listening |-> TRUE]

Ranges == {"week", "quarter", "own"}
AnalyticsMount == [draft |-> "week", applied |-> "week", shown |-> "none", loading |-> TRUE,
                   error |-> FALSE, details |-> {}, detail |-> "none", light |-> "none", chart |-> NoChart]

\* The answers to the range that is applied; those of the one before are aborted.
AnalyticsAnswered ==
  /\ page = "analytics" /\ ui.loading
  /\ \/ Becomes([ui EXCEPT !.loading = FALSE, !.shown = ui.applied,
                           !.chart = ChartRuns(@, ui.applied)])
     \/ Becomes([ui EXCEPT !.loading = FALSE, !.error = TRUE])

AnalyticsApply(r) == Becomes([ui EXCEPT !.draft = r, !.applied = r, !.loading = TRUE, !.error = FALSE])
AnalyticsPreset   == At("analytics") /\ \E r \in {"week", "quarter"} : AnalyticsApply(r)
AnalyticsControls == /\ At("analytics")
                     /\ AnalyticsApply(ui.draft) \/ \E r \in Ranges : Becomes([ui EXCEPT !.draft = r])

\* What was asked last need not be what is shown: the answers are shown as they come.
AnalyticsOpenDetail ==
  /\ page = "analytics"
  /\ \/ /\ At("analytics") /\ ui.shown # "none" /\ Cardinality(ui.details) < MaxJobs
        /\ \E i \in Items : Becomes([ui EXCEPT !.details = @ \cup {<<i, ui.applied>>}, !.error = FALSE])
     \/ \E d \in ui.details, ok \in BOOLEAN :
          Becomes([ui EXCEPT !.details = @ \ {d}, !.error = @ \/ ~ok,
                             !.detail = IF ok THEN "open" ELSE @])

AnalyticsDismiss == At("analytics") /\ ui.detail = "open" /\ Becomes([ui EXCEPT !.detail = "none"])

AnalyticsTrendChart ==
  page = "analytics" /\ ui.chart.wants # "none" /\ Becomes([ui EXCEPT !.chart = ChartDrawn(@)])

AnalyticsLegend ==
  /\ At("analytics") /\ ui.shown # "none"
  /\ \E s \in {"pv", "uv"} : Becomes([ui EXCEPT !.light = IF @ = s THEN "none" ELSE s,
                                                 !.chart = ChartRuns(@, ui.shown)])

DashboardMount == [loading |-> TRUE, stats |-> FALSE, error |-> FALSE, light |-> "none", chart |-> NoChart]

DashboardAnswered ==
  /\ page = "dashboard" /\ ui.loading
  /\ \/ Becomes([ui EXCEPT !.loading = FALSE, !.stats = TRUE, !.chart = [@ EXCEPT !.wants = "trend"]])
     \/ Becomes([ui EXCEPT !.loading = FALSE, !.error = TRUE])

\* The chart is made once, with its listener, and drawn anew from then on.
DashboardTraffic ==
  page = "dashboard" /\ ui.chart.wants # "none" /\ Becomes([ui EXCEPT !.chart = ChartDrawn(@)])

DashboardLegend ==
  /\ At("dashboard") /\ ui.stats
  /\ \E s \in {"pv", "uv"} : Becomes([ui EXCEPT !.light = IF @ = s THEN "none" ELSE s,
                                                 !.chart.wants = "trend"])

------------------------------------------------------------------------------
ContentInit ==
  \/ page = "articles" /\ ui = ArticlesMount
  \/ page = "versions" /\ ui = VersionsMount
  \/ page = "preview" /\ ui = PreviewMount
  \/ page = "media" /\ ui = MediaMount
  \/ page = "tags" /\ ui = TagsMount
  \/ page = "categories" /\ ui = CategoriesMount
  \/ page = "users" /\ ui = UsersMount
  \/ page = "logs" /\ ui = LogsMount
  \/ page = "analytics" /\ ui = AnalyticsMount
  \/ page = "dashboard" /\ ui = DashboardMount

ContentNext ==
  \/ ArticlesAnswered \/ ArticlesTaxonomies \/ ArticlesFilter \/ ArticlesFilterSubmit
  \/ ArticlesClearFilters \/ ArticlesPages \/ ArticlesStatus \/ ArticlesDelete
  \/ ArticlesExport \/ ArticlesImport
  \/ VersionsAnswered \/ VersionsPages \/ VersionsInspect \/ VersionsRestore \/ PreviewAnswered
  \/ MediaAnswered \/ MediaSearch \/ MediaPages \/ MediaUpload \/ MediaCard \/ MediaSaveAlt
  \/ MediaRemove
  \/ TaxonomyNext
  \/ UsersAnswered \/ UsersPages \/ UsersStatus \/ UsersRole
  \/ LogsAnswered \/ LogsUpdateFilter \/ LogsFilterSubmit \/ LogsClearFilters \/ LogsPageChange
  \/ LogsExpand
  \/ AnalyticsAnswered \/ AnalyticsPreset \/ AnalyticsControls \/ AnalyticsOpenDetail
  \/ AnalyticsDismiss \/ AnalyticsTrendChart \/ AnalyticsLegend
  \/ DashboardAnswered \/ DashboardTraffic \/ DashboardLegend

------------------------------------------------------------------------------
(* Property.                                                               *)

\* A list that is neither loading nor failed shows the rows of the query asked last, in
\* whatever order the answers came (Articles.tsx:56, Media.tsx:35, Tags.tsx:36, Users.tsx:30,
\* Logs.tsx:57): searches, pages and the refresh after a write overtake one another.  So it
\* is on the two lists of the reader, which abort instead of counting (Home.tsx:61,
\* Search.tsx:101).
ListsShowTheLastQuery ==
  page \in Lists => (ui.loading \/ ui.lost \/ ui.rows = ui.want)
=============================================================================
