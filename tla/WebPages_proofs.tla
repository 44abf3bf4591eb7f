--------------------------- MODULE WebPages_proofs ---------------------------
(***************************************************************************)
(* What holds on every page of the application (WebPages), whatever page   *)
(* is entered and in whatever order its handlers, requests and answers     *)
(* interleave: the lists, the forms of an account, the settings, the       *)
(* projects and the confirmations behind them, and, with AskChat_proofs    *)
(* and ArticleEditor_proofs, the chat and the editor.  One invariant per   *)
(* kind of page; a step of one page cannot disturb that of another, which  *)
(* is not mounted.                                                         *)
(***************************************************************************)
EXTENDS WebPages, AskChat_proofs, ArticleEditor_proofs

------------------------------------------------------------------------------
(* Lists: the newest request is for the query asked last, and a list that  *)
(* is neither loading nor lost shows that query.                           *)

ListNames == {"at", "filter", "rows", "some", "pages", "loading", "error", "req", "asks", "want",
              "lost", "jobs", "busy"}

ListOK(u) ==
  /\ ListNames \subseteq DOMAIN u /\ u.req \in Nat
  /\ \A a \in u.asks : a.id \in Nat /\ a.id <= u.req /\ (a.id = u.req => a.q = u.want)
  /\ u.loading \/ u.lost \/ u.rows = u.want

\* A list that asks for the same, and shows the same.
SameList(u, v) ==
  /\ DOMAIN v = DOMAIN u /\ v.req = u.req /\ v.asks = u.asks /\ v.want = u.want
  /\ v.rows = u.rows /\ v.loading = u.loading /\ v.lost = u.lost

\* A step of a list page: it is left, or its list stays so.
ListStays == page' = "away" \/ (page' = page /\ ListOK(ui'))

LEMMA ListSame ==
  ASSUME NEW u, ListOK(u), NEW v, SameList(u, v)
  PROVE  ListOK(v)
BY DEF ListOK, SameList

LEMMA ListFetched ==
  ASSUME NEW u, ListOK(u), NEW v, SameList(u, v), NEW q
  PROVE  ListOK(FetchRows(v, q))
<1> DEFINE a == [id |-> u.req + 1, q |-> q]
           w == FetchRows(v, q)
<1>1. /\ DOMAIN w = DOMAIN u /\ w.req = u.req + 1 /\ w.asks = u.asks \cup {a} /\ w.want = q
      /\ w.loading = TRUE
  BY DEF FetchRows, SameList, ListOK, ListNames
<1>2. a.id = u.req + 1 /\ a.q = q
  OBVIOUS
<1> HIDE DEF a, w
<1>3. ListOK(w)
  BY <1>1, <1>2 DEF ListOK
<1> QED
  BY <1>3 DEF w

LEMMA ListEnds ==
  ASSUME NEW u, ListNames \subseteq DOMAIN u, NEW js
  PROVE  SameList(u, Ends(u, js))
BY DEF SameList, Ends, ListNames

LEMMA ListStarts ==
  ASSUME NEW u, ListNames \subseteq DOMAIN u, NEW j
  PROVE  SameList(u, Start(u, j)) /\ SameList(u, Failed(u, j)) /\ SameList(u, Ended(u, j))
<1>1. SameList(u, Start(u, j))
  BY DEF SameList, Start, ListNames
<1>2. SameList(u, Ends(u, {j}))
  BY ListEnds
<1>3. SameList(u, Failed(u, j))
  BY <1>2 DEF Failed, Ended, SameList, ListNames
<1> QED
  BY <1>1, <1>2, <1>3 DEF Ended

\* An answer to the newest request is shown; any other changes nothing.
LEMMA ListTakesAnswer ==
  ASSUME NEW u, ListOK(u), NEW a \in u.asks, NEW ok, NEW some, NEW pages
  PROVE  ListOK(Answered(u, a, ok, some, pages))
<1> DEFINE x == [u EXCEPT !.asks = @ \ {a}]
           y == [u EXCEPT !.asks = @ \ {a}, !.loading = FALSE]
           v == Finished(y, a.id)
<1>1. CASE a.id # u.req
  <2>1. /\ DOMAIN x = DOMAIN u /\ x.req = u.req /\ x.asks = u.asks \ {a} /\ x.want = u.want
        /\ x.rows = u.rows /\ x.loading = u.loading /\ x.lost = u.lost
    BY DEF ListOK, ListNames
  <2>2. Answered(u, a, ok, some, pages) = Finished(x, a.id)
    BY <1>1 DEF Answered
  <2> HIDE DEF x
  <2>3. ListOK(x)
    BY <2>1 DEF ListOK
  <2>4. SameList(x, Finished(x, a.id))
    BY <2>3, ListEnds DEF Finished, ListOK
  <2> QED
    BY <2>2, <2>3, <2>4, ListSame
<1>2. CASE a.id = u.req
  <2>1. /\ DOMAIN y = DOMAIN u /\ y.req = u.req /\ y.asks = u.asks \ {a} /\ y.want = u.want
    BY DEF ListOK, ListNames
  <2>2. a.q = u.want
    BY <1>2 DEF ListOK
  <2> HIDE DEF y
  <2>3. SameList(y, v)
    BY <2>1, ListEnds DEF Finished, ListOK
  <2> DEFINE g == [v EXCEPT !.rows = a.q, !.some = some, !.pages = pages]
             b == [v EXCEPT !.error = TRUE, !.lost = TRUE]
  <2>4. Answered(u, a, ok, some, pages) = IF ok THEN g ELSE b
    BY <1>2 DEF Answered, AnsweredUnguarded, y
  <2> HIDE DEF v
  <2>5. /\ DOMAIN g = DOMAIN u /\ g.req = u.req /\ g.asks = u.asks \ {a} /\ g.want = u.want
        /\ g.rows = a.q
    BY <2>1, <2>3 DEF SameList, ListOK, ListNames
  <2>6. /\ DOMAIN b = DOMAIN u /\ b.req = u.req /\ b.asks = u.asks \ {a} /\ b.want = u.want
        /\ b.lost = TRUE
    BY <2>1, <2>3 DEF SameList, ListOK, ListNames
  <2> HIDE DEF g, b
  <2>7. ListOK(g) /\ ListOK(b)
    BY <2>2, <2>5, <2>6 DEF ListOK
  <2> QED
    BY <2>4, <2>7
<1> QED
  BY <1>1, <1>2

LEMMA ListReapplied ==
  ASSUME ListOK(ui), NEW v, SameList(ui, v)
  PROVE  ListOK(Reapplied(v)) /\ ListOK(Refetched(v))
BY ListSame, ListFetched DEF Reapplied, Refetched

LEMMA ListRelisted ==
  ASSUME NEW u, ListOK(u), NEW j
  PROVE  ListOK(Relisted(u, j))
<1> DEFINE v == FetchRows(u, j.q)
           w == [v EXCEPT !.jobs = (@ \ {j}) \cup {[j EXCEPT !.ask = v.req]}]
<1>1. SameList(u, u)
  BY DEF SameList
<1>2. ListOK(v)
  BY <1>1, ListFetched
<1>3. Relisted(u, j) = w
  BY DEF Relisted
<1> HIDE DEF v
<1>4. SameList(v, w)
  BY <1>2 DEF SameList, ListOK, ListNames
<1> QED
  BY <1>2, <1>3, <1>4, ListSame

\* The handlers every list has.
LEMMA ListKit ==
  ASSUME ListOK(ui), NEW op, NEW i, NEW numbered,
         \/ ListAnswered \/ Turn(numbered) \/ Write(op, i) \/ WriteFails(op) \/ WriteRelists(op)
         \/ AskFor(op, i) \/ Confirmed(op)
  PROVE  page' = page /\ ListOK(ui')
<1>0. ListNames \subseteq DOMAIN ui
  BY DEF ListOK
<1>1. CASE ListAnswered
  <2>1. PICK r \in Answers : Becomes(Answered(ui, r.ask, r.ok, r.some, r.pages))
    BY <1>1 DEF ListAnswered
  <2>2. r.ask \in ui.asks
    BY DEF Answers
  <2> QED
    BY <2>1, <2>2, ListTakesAnswer DEF Becomes
<1>2. CASE Turn(numbered)
  <2>1. PICK p : Becomes(Refetched([ui EXCEPT !.at = p]))
    BY <1>2 DEF Turn
  <2>2. SameList(ui, [ui EXCEPT !.at = p])
    BY <1>0 DEF SameList, ListNames
  <2> QED
    BY <2>1, <2>2, ListReapplied DEF Becomes
<1>3. CASE Write(op, i)
  BY <1>0, <1>3, ListStarts, ListSame DEF Write, Becomes
<1>4. CASE WriteFails(op)
  BY <1>0, <1>4, ListStarts, ListSame DEF WriteFails, Becomes
<1>5. CASE WriteRelists(op)
  BY <1>5, ListRelisted DEF WriteRelists, Becomes
<1>6. CASE AskFor(op, i)
  BY <1>6 DEF AskFor, Enqueue
<1>7. CASE Confirmed(op)
  BY <1>0, <1>7, ListStarts, ListSame DEF Confirmed, Accepts
<1> QED
  BY <1>1, <1>2, <1>3, <1>4, <1>5, <1>6, <1>7

\* Fields of the page beside the list.
LEMMA ListBeside ==
  ASSUME ListOK(ui), NEW v
  PROVE  /\ SameList(ui, [ui EXCEPT !.at = v]) /\ SameList(ui, [ui EXCEPT !.error = v])
         /\ SameList(ui, [ui EXCEPT !.keyword = v]) /\ SameList(ui, [ui EXCEPT !.options = v])
         /\ SameList(ui, [ui EXCEPT !.importing = v]) /\ SameList(ui, [ui EXCEPT !.dirty = v])
         /\ SameList(ui, [ui EXCEPT !.form = v]) /\ SameList(ui, [ui EXCEPT !.who = v])
         /\ SameList(ui, [ui EXCEPT !.dates = v]) /\ SameList(ui, [ui EXCEPT !.expanded = v])
BY DEF ListOK, SameList, ListNames

------------------------------------------------------------------------------
(* A handler runs on the page it belongs to, which then stays mounted or   *)
(* is left.                                                                *)

ContentPages == Lists \cup {"versions", "preview", "analytics", "dashboard"}
ReaderNames  == {"home", "search", "searchbox", "archive", "article", "showcase", "layout"}

StepOf(names) == page \in names /\ page' \in {page, "away"}

LEMMA WidgetsSteps == WidgetsNext => StepOf({"combobox", "picker"})
<1> SUFFICES ASSUME WidgetsNext PROVE StepOf({"combobox", "picker"})
  OBVIOUS
<1>1. ASSUME NEW q, handleInputChange(q) \/ PickerSearch(q)
      PROVE  StepOf({"combobox", "picker"})
  BY <1>1 DEF handleInputChange, PickerSearch, InCombobox, InPicker, StepOf
<1>2. CASE handleKeyDown \/ handleMouse \/ fetchDeps \/ ComboboxReset
  BY <1>2 DEF handleKeyDown, handleMouse, fetchDeps, ComboboxReset, InCombobox, StepOf
<1>3. CASE handleCreateCategory \/ handleCreateTag
  BY <1>3 DEF handleCreateCategory, handleCreateTag, StepOf
<1>4. CASE PickerAsks \/ PickerAnswered \/ PickerUpload \/ PickerUploaded \/ PickerPick \/ PickerToggle
  BY <1>4 DEF PickerAsks, PickerAnswered, PickerUpload, PickerUploaded, PickerPick, PickerToggle,
              InPicker, StepOf
<1> QED
  BY <1>1, <1>2, <1>3, <1>4 DEF WidgetsNext

\* The handlers of PageKit leave the page mounted.
LEMMA KitStays ==
  ASSUME NEW op, NEW i, NEW numbered,
         \/ ListAnswered \/ Turn(numbered) \/ Write(op, i) \/ WriteFails(op) \/ WriteRelists(op)
         \/ AskFor(op, i) \/ Confirmed(op)
  PROVE  page' = page
BY DEF ListAnswered, Turn, Write, WriteFails, WriteRelists, AskFor, Confirmed, Becomes, Enqueue, Accepts

LEMMA ArticlesSteps ==
  ASSUME \/ ArticlesAnswered \/ ArticlesTaxonomies \/ ArticlesFilter \/ ArticlesFilterSubmit
         \/ ArticlesClearFilters \/ ArticlesPages \/ ArticlesStatus \/ ArticlesDelete
         \/ ArticlesExport \/ ArticlesImport
  PROVE  StepOf({"articles"})
<1>1. CASE ArticlesAnswered \/ ArticlesPages \/ ArticlesStatus \/ ArticlesDelete
  BY <1>1, KitStays DEF ArticlesAnswered, ArticlesPages, ArticlesStatus, ArticlesDelete, At, StepOf
<1>2. CASE ArticlesTaxonomies \/ ArticlesFilter \/ ArticlesFilterSubmit \/ ArticlesClearFilters
  BY <1>2 DEF ArticlesTaxonomies, ArticlesFilter, ArticlesFilterSubmit, ArticlesClearFilters, At,
              Becomes, StepOf
<1>3. CASE ArticlesExport \/ ArticlesImport
  BY <1>3, KitStays DEF ArticlesExport, ArticlesImport, Leaves, Becomes, StepOf
<1> QED
  BY <1>1, <1>2, <1>3

LEMMA VersionsSteps ==
  ASSUME VersionsAnswered \/ VersionsPages \/ VersionsInspect \/ VersionsRestore \/ PreviewAnswered
  PROVE  StepOf({"versions", "preview"})
<1>1. CASE VersionsAnswered \/ VersionsInspect \/ PreviewAnswered
  BY <1>1 DEF VersionsAnswered, VersionsInspect, PreviewAnswered, Becomes, StepOf
<1>2. CASE VersionsPages \/ VersionsRestore
  BY <1>2, KitStays DEF VersionsPages, VersionsRestore, At, StepOf
<1> QED
  BY <1>1, <1>2

LEMMA MediaSteps ==
  ASSUME \/ MediaAnswered \/ MediaSearch \/ MediaPages \/ MediaUpload \/ MediaCard \/ MediaSaveAlt
         \/ MediaRemove
  PROVE  StepOf({"media"})
<1>1. CASE MediaAnswered \/ MediaSearch \/ MediaCard
  BY <1>1 DEF MediaAnswered, MediaSearch, MediaCard, At, Becomes, StepOf
<1>2. CASE MediaPages \/ MediaUpload \/ MediaSaveAlt \/ MediaRemove
  BY <1>2, KitStays DEF MediaPages, MediaUpload, MediaSaveAlt, MediaRemove, At, Becomes, StepOf
<1> QED
  BY <1>1, <1>2

TaxonomyStep(p) ==
  \/ TagsFetchList(p) \/ TagsPages(p) \/ TagsType(p) \/ TagsEdit(p)
  \/ TagsCancel(p) \/ TagsSubmit(p) \/ TagsDelete(p)

LEMMA TaxonomySplit == TaxonomyNext => \E p \in {"tags", "categories"} : TaxonomyStep(p)
BY DEF TaxonomyNext, TaxonomyStep, CategoriesFetchList, CategoriesPages, CategoriesType, CategoriesEdit,
       CategoriesCancel, CategoriesSubmit, CategoriesDelete

LEMMA TagsSteps ==
  ASSUME NEW p, TaxonomyStep(p)
  PROVE  StepOf({p})
<1>1. CASE TagsFetchList(p) \/ TagsPages(p) \/ TagsDelete(p)
  BY <1>1, KitStays DEF TagsFetchList, TagsPages, TagsDelete, At, StepOf
<1>2. CASE TagsType(p) \/ TagsEdit(p) \/ TagsCancel(p)
  BY <1>2 DEF TagsType, TagsEdit, TagsCancel, Row, At, Becomes, StepOf
<1>3. CASE TagsSubmit(p)
  BY <1>3, KitStays DEF TagsSubmit, At, Becomes, StepOf
<1> QED
  BY <1>1, <1>2, <1>3 DEF TaxonomyStep

LEMMA UsersSteps ==
  ASSUME UsersAnswered \/ UsersPages \/ UsersStatus \/ UsersRole
  PROVE  StepOf({"users"})
BY KitStays DEF UsersAnswered, UsersPages, UsersStatus, UsersRole, At, StepOf

LEMMA LogsSteps ==
  ASSUME \/ LogsAnswered \/ LogsUpdateFilter \/ LogsFilterSubmit \/ LogsClearFilters \/ LogsPageChange
         \/ LogsExpand
  PROVE  StepOf({"logs"})
<1>1. CASE LogsAnswered
  BY <1>1, KitStays DEF LogsAnswered, StepOf
<1>2. CASE LogsUpdateFilter \/ LogsFilterSubmit \/ LogsClearFilters \/ LogsPageChange \/ LogsExpand
  BY <1>2 DEF LogsUpdateFilter, LogsFilterSubmit, LogsClearFilters, LogsPageChange, LogsExpand,
              Row, At, Becomes, StepOf
<1> QED
  BY <1>1, <1>2

LEMMA ChartSteps ==
  ASSUME \/ AnalyticsAnswered \/ AnalyticsPreset \/ AnalyticsControls \/ AnalyticsOpenDetail
         \/ AnalyticsDismiss \/ AnalyticsTrendChart \/ AnalyticsLegend
         \/ DashboardAnswered \/ DashboardTraffic \/ DashboardLegend
  PROVE  StepOf({"analytics", "dashboard"})
<1>1. CASE AnalyticsAnswered \/ AnalyticsPreset \/ AnalyticsControls \/ AnalyticsOpenDetail
  BY <1>1 DEF AnalyticsAnswered, AnalyticsPreset, AnalyticsControls, AnalyticsOpenDetail, AnalyticsApply,
              At, Becomes, StepOf
<1>2. CASE \/ AnalyticsDismiss \/ AnalyticsTrendChart \/ AnalyticsLegend
           \/ DashboardAnswered \/ DashboardTraffic \/ DashboardLegend
  BY <1>2 DEF AnalyticsDismiss, AnalyticsTrendChart, AnalyticsLegend, DashboardAnswered, DashboardTraffic,
              DashboardLegend, At, Becomes, StepOf
<1> QED
  BY <1>1, <1>2

LEMMA ContentSteps == ContentNext => StepOf(ContentPages)
<1> SUFFICES ASSUME ContentNext PROVE StepOf(ContentPages)
  OBVIOUS
<1>1. \A S, T : StepOf(S) /\ S \subseteq T => StepOf(T)
  BY DEF StepOf
<1>2. \/ StepOf({"articles"}) \/ StepOf({"versions", "preview"}) \/ StepOf({"media"})
      \/ StepOf({"tags"}) \/ StepOf({"categories"}) \/ StepOf({"users"}) \/ StepOf({"logs"})
      \/ StepOf({"analytics", "dashboard"})
  BY ArticlesSteps, VersionsSteps, MediaSteps, TaxonomySplit, TagsSteps, UsersSteps, LogsSteps, ChartSteps
     DEF ContentNext
<1> QED
  BY <1>1, <1>2 DEF ContentPages, Lists

LEMMA SettingsFormSteps ==
  ASSUME \/ executeFetchSettings \/ SettingsRetry \/ SettingsType \/ SettingsReset
         \/ executeUpdateSettings \/ SettingsOther
  PROVE  StepOf({"settings"})
<1>1. CASE executeFetchSettings \/ SettingsRetry \/ SettingsType
  BY <1>1 DEF executeFetchSettings, SettingsRetry, SettingsType, SettingsForm, At, Becomes, StepOf
<1>2. CASE SettingsReset \/ executeUpdateSettings \/ SettingsOther
  BY <1>2 DEF SettingsReset, executeUpdateSettings, SettingsOther, SettingsForm, At, Becomes, StepOf
<1> QED
  BY <1>1, <1>2

LEMMA AISteps == AINext => StepOf({"ai"})
<1> SUFFICES ASSUME AINext PROVE StepOf({"ai"})
  OBVIOUS
<1>1. CASE AILoadSettings \/ AILoaded
  BY <1>1 DEF AILoadSettings, AILoaded, At, Becomes, StepOf
<1>2. CASE AIUpdateConnectionDraft \/ AIHandleModelChange \/ AIUpdateTimeouts \/ AIHandleCancel
  BY <1>2 DEF AIUpdateConnectionDraft, AIHandleModelChange, AIUpdateTimeouts, AIHandleCancel, AIForm, At,
              Becomes, StepOf
<1>3. CASE AIHandleSubmit \/ AIHandleGetModels \/ AIHandleTestModel
  BY <1>3 DEF AIHandleSubmit, AIHandleGetModels, AIHandleTestModel, AIStart, AIFails, Becomes, StepOf
<1> QED
  BY <1>1, <1>2, <1>3 DEF AINext

LEMMA RAGSteps == RAGNext => StepOf({"rag"})
<1> SUFFICES ASSUME RAGNext PROVE StepOf({"rag"})
  OBVIOUS
<1>1. CASE RAGLoaded \/ RAGLoad \/ RAGUpdateDraft \/ RAGRestore
  BY <1>1 DEF RAGLoaded, RAGLoad, RAGUpdateDraft, RAGRestore, RAGForm, At, Becomes, StepOf
<1>2. CASE RAGSave \/ RAGTestConnection \/ RAGRebuild
  BY <1>2 DEF RAGSave, RAGTestConnection, RAGRebuild, Becomes, Enqueue, Accepts, StepOf
<1> QED
  BY <1>1, <1>2 DEF RAGNext

LEMMA ProjectsSteps == ProjectsNext => StepOf({"projects"})
<1> SUFFICES ASSUME ProjectsNext PROVE StepOf({"projects"})
  OBVIOUS
<1>1. CASE ProjectsLoaded \/ addProject \/ updateProject \/ ProjectsMediaSelect
  BY <1>1 DEF ProjectsLoaded, addProject, updateProject, ProjectsMediaSelect, ProjectsForm, At, Becomes,
              StepOf
<1>2. CASE moveProject \/ removeProject \/ toggleProjectCollapsed
  BY <1>2 DEF moveProject, ProjectsReachable, removeProject, toggleProjectCollapsed, ProjectsForm, At,
              Becomes, Enqueue, Accepts, StepOf
<1>3. CASE ProjectsSave \/ ProjectsReset
  BY <1>3 DEF ProjectsSave, ProjectsReset, ProjectsForm, At, Becomes, StepOf
<1> QED
  BY <1>1, <1>2, <1>3 DEF ProjectsNext

LEMMA SystemSteps == SystemNext => StepOf({"system"})
<1> SUFFICES ASSUME SystemNext PROVE StepOf({"system"})
  OBVIOUS
<1>1. CASE SystemLoadHealth \/ SystemInputs \/ SystemBackupFileChange
  BY <1>1 DEF SystemLoadHealth, SystemInputs, SystemBackupFileChange, At, Becomes, StepOf
<1>2. CASE SystemExport \/ SystemRestore
  BY <1>2 DEF SystemExport, SystemRestore, Becomes, Enqueue, Accepts, StepOf
<1> QED
  BY <1>1, <1>2 DEF SystemNext

SettingsPages == {"settings", "ai", "rag", "projects", "system"}

LEMMA SettingsSteps == SettingsNext => StepOf(SettingsPages)
<1> SUFFICES ASSUME SettingsNext PROVE StepOf(SettingsPages)
  OBVIOUS
<1>1. \/ StepOf({"settings"}) \/ StepOf({"ai"}) \/ StepOf({"rag"}) \/ StepOf({"projects"})
      \/ StepOf({"system"})
  BY SettingsFormSteps, AISteps, RAGSteps, ProjectsSteps, SystemSteps DEF SettingsNext
<1> QED
  BY <1>1 DEF StepOf, SettingsPages

LEMMA HomeSteps == HomeNext => StepOf({"home"})
<1> SUFFICES ASSUME HomeNext PROVE StepOf({"home"})
  OBVIOUS
<1>1. CASE HomeFetchArticles
  BY <1>1, KitStays DEF HomeFetchArticles, StepOf
<1>2. CASE HomeLanguage \/ HomeLinks \/ HomeRetry \/ HomeClear \/ HomePages
  BY <1>2 DEF HomeLanguage, HomeLinks, HomeRetry, HomeClear, HomePages, HomeUpdateParams, At, Becomes,
              StepOf
<1> QED
  BY <1>1, <1>2 DEF HomeNext

ResultsNext ==
  SearchFetchArticles \/ SearchSubmit \/ SearchTaxonomies \/ SearchClear \/ SearchRetry \/ SearchPages

LEMMA ResultsSteps == ResultsNext => StepOf({"search"})
<1> SUFFICES ASSUME ResultsNext PROVE StepOf({"search"})
  OBVIOUS
<1>1. CASE SearchFetchArticles
  BY <1>1, KitStays DEF SearchFetchArticles, StepOf
<1>2. CASE SearchSubmit \/ SearchTaxonomies \/ SearchClear \/ SearchRetry \/ SearchPages
  BY <1>2 DEF SearchSubmit, SearchTaxonomies, SearchClear, SearchRetry, SearchPages, SearchUpdateParams,
              At, Becomes, StepOf
<1> QED
  BY <1>1, <1>2 DEF ResultsNext

BoxNext ==
  \/ BoxSuggestions \/ BoxType \/ BoxFocus \/ BoxSubmit \/ BoxChoose \/ removeRecent \/ BoxClearRecent
  \/ handleSearchKeyDown \/ BoxClear

LEMMA BoxSteps == BoxNext => StepOf({"searchbox"})
<1> SUFFICES ASSUME BoxNext PROVE StepOf({"searchbox"})
  OBVIOUS
<1>1. ASSUME NEW i, Choose(i)
      PROVE  page' \in {page, "away"}
  BY <1>1 DEF Choose, chooseSuggestion, chooseRecent, Becomes, Leaves
<1>2. CASE BoxSuggestions \/ BoxType \/ BoxFocus \/ BoxSubmit \/ BoxClear
  BY <1>2 DEF BoxSuggestions, BoxType, BoxFocus, BoxSubmit, BoxClear, At, Becomes, StepOf
<1>3. CASE BoxChoose \/ removeRecent \/ BoxClearRecent
  BY <1>1, <1>3 DEF BoxChoose, removeRecent, BoxClearRecent, ListboxShown, At, Becomes, StepOf
<1>4. CASE handleSearchKeyDown
  BY <1>1, <1>4 DEF handleSearchKeyDown, At, Becomes, StepOf
<1> QED
  BY <1>2, <1>3, <1>4 DEF BoxNext

LEMMA ReadingSteps == ArchiveNext \/ ArticleNext \/ FrameNext
                        => StepOf({"archive", "article", "showcase", "layout"})
<1> SUFFICES ASSUME ArchiveNext \/ ArticleNext \/ FrameNext
             PROVE  StepOf({"archive", "article", "showcase", "layout"})
  OBVIOUS
<1>1. CASE ArchiveNext
  BY <1>1 DEF ArchiveNext, collectPaginated, ArchiveLoadHistory, ArchiveLoadFilters, toggleExpanded,
              ArchiveRetry, At, Becomes, StepOf
<1>2. CASE ArticleNext
  BY <1>2 DEF ArticleNext, ArticleLoaded, retryArticle, ActiveHeading, handleLike, ArticleTOC,
              ArticleContextBlock, ImageLightbox, LikeShown, At, Becomes, Leaves, StepOf
<1>3. CASE FrameNext
  BY <1>3 DEF FrameNext, ProjectsLoad, ProjectsRetry, ProjectCard, ProjectPreviewModal, LayoutPath,
              LayoutPanel, LayoutMenu, LayoutOutside, LayoutEscape, LayoutLogout, At, Becomes, StepOf
<1> QED
  BY <1>1, <1>2, <1>3

LEMMA ReaderSplit == ReaderNext => \/ HomeNext \/ ResultsNext \/ BoxNext
                                   \/ ArchiveNext \/ ArticleNext \/ FrameNext
BY DEF ReaderNext, SearchNext, ResultsNext, BoxNext

LEMMA ReaderSteps == ReaderNext => StepOf(ReaderNames)
<1> SUFFICES ASSUME ReaderNext PROVE StepOf(ReaderNames)
  OBVIOUS
<1>1. \/ StepOf({"home"}) \/ StepOf({"search"}) \/ StepOf({"searchbox"})
      \/ StepOf({"archive", "article", "showcase", "layout"})
  BY ReaderSplit, HomeSteps, ResultsSteps, BoxSteps, ReadingSteps
<1> QED
  BY <1>1 DEF StepOf, ReaderNames

LEMMA FormsSteps == FormsNext => StepOf(Forms)
<1> SUFFICES ASSUME FormsNext PROVE StepOf(Forms)
  OBVIOUS
<1>1. CASE CaptchaArrives \/ CaptchaType \/ CaptchaReload \/ validateForm \/ TypeEmail
  BY <1>1 DEF CaptchaArrives, CaptchaType, CaptchaReload, validateForm, TypeEmail, CaptchaImageShown,
              FormShown, OnForm, Becomes, StepOf
<1>2. CASE \/ RegisterSendEmailCode \/ ForgotSendEmailCode \/ handleSendProfileCode
           \/ handleSendPasswordCode
  BY <1>2 DEF RegisterSendEmailCode, ForgotSendEmailCode, handleSendProfileCode, handleSendPasswordCode,
              SendCode, Sent, NotSent, Becomes, Forms, StepOf
<1>3. CASE SettingsArrive \/ CountdownEnds \/ submitLogin \/ handleRegister
  BY <1>3 DEF SettingsArrive, CountdownEnds, submitLogin, handleRegister, Submit, OnForm, Becomes, Leaves,
              Forms, StepOf
<1>4. CASE handleResetPassword \/ handleUpdateProfile \/ handleUpdatePassword
  BY <1>4 DEF handleResetPassword, handleUpdateProfile, handleUpdatePassword, Submit, Becomes, Leaves,
              Forms, StepOf
<1> QED
  BY <1>1, <1>2, <1>3, <1>4 DEF FormsNext

------------------------------------------------------------------------------
(* The pages with a list.                                                  *)

ListsInv == page \in Lists => ListOK(ui)

\* Each list is one request old when its page is mounted.
LEMMA ListMounts ==
  ASSUME NEW own, NEW a, NEW f
  PROVE  /\ ListOK(Refetched(NewListWith(own))) /\ ListOK(Refetched(NewList))
         /\ ListOK(Home(a, f)) /\ ListOK(Search(f))
<1>1. \A u : ListNames \subseteq DOMAIN u /\ u.req = 0 /\ u.asks = {} => ListOK(Refetched(u))
  <2> SUFFICES ASSUME NEW u, ListNames \subseteq DOMAIN u, u.req = 0, u.asks = {}
               PROVE  ListOK(Refetched(u))
    OBVIOUS
  <2> DEFINE w == Refetched(u)
  <2>1. /\ DOMAIN w = DOMAIN u /\ w.req = 1 /\ w.asks = {[id |-> 1, q |-> Query(u)]}
        /\ w.want = Query(u) /\ w.loading = TRUE
    BY DEF Refetched, FetchRows, ListNames
  <2> HIDE DEF w
  <2>2. ListOK(w)
    BY <2>1 DEF ListOK
  <2> QED
    BY <2>2 DEF w
<1>2. DOMAIN NewList = ListNames /\ NewList.req = 0 /\ NewList.asks = {}
  BY DEF NewList, ListNames
<1>3. ListOK(Refetched(NewListWith(own)))
  <2> DEFINE u == NewListWith(own)
  <2>1. ListNames \subseteq DOMAIN u
    BY <1>2 DEF NewListWith
  <2>2. "req" \in ListNames /\ "asks" \in ListNames
    BY DEF ListNames
  <2>3. u.req = 0 /\ u.asks = {}
    BY <1>2, <2>2 DEF NewListWith
  <2> HIDE DEF u
  <2>4. ListOK(Refetched(u))
    BY <1>1, <2>1, <2>3
  <2> QED
    BY <2>4 DEF u
<1>4. ListOK(Home(a, f))
  <2> DEFINE u == [NewList EXCEPT !.at = a, !.filter = f]
  <2>1. DOMAIN u = DOMAIN NewList /\ u.req = 0 /\ u.asks = {}
    BY <1>2 DEF ListNames
  <2> HIDE DEF u
  <2>2. ListOK(Refetched(u))
    BY <1>1, <1>2, <2>1
  <2> QED
    BY <2>2 DEF u, Home
<1>5. ListOK(Search(f))
  <2> DEFINE u == [NewList EXCEPT !.filter = f]
  <2>1. DOMAIN u = DOMAIN NewList /\ u.req = 0 /\ u.asks = {}
    BY <1>2 DEF ListNames
  <2> HIDE DEF u
  <2>2. ListOK(Refetched(u))
    BY <1>1, <1>2, <2>1
  <2> DEFINE w == [u EXCEPT !.req = @ + 1, !.rows = Query(u), !.want = Query(u), !.some = FALSE,
                            !.pages = 0, !.loading = FALSE, !.error = FALSE, !.lost = FALSE]
  <2>3. /\ DOMAIN w = DOMAIN u /\ w.req = 1 /\ w.asks = {} /\ w.rows = w.want
    BY <1>2, <2>1 DEF ListNames
  <2> HIDE DEF w
  <2>4. ListOK(w)
    BY <1>2, <2>1, <2>3 DEF ListOK
  <2> QED
    BY <2>2, <2>4 DEF u, w, Search, SearchEffect
<1> QED
  BY <1>1, <1>2, <1>3, <1>4, <1>5

LEMMA ArticlesList ==
  ASSUME ListOK(ui),
         \/ ArticlesAnswered \/ ArticlesTaxonomies \/ ArticlesFilter \/ ArticlesFilterSubmit
         \/ ArticlesClearFilters \/ ArticlesPages \/ ArticlesStatus \/ ArticlesDelete
         \/ ArticlesExport \/ ArticlesImport
  PROVE  ListStays
<1>0. ListNames \subseteq DOMAIN ui
  BY DEF ListOK
<1>1. CASE ArticlesAnswered \/ ArticlesPages \/ ArticlesStatus \/ ArticlesDelete
  BY <1>1, ListKit DEF ArticlesAnswered, ArticlesPages, ArticlesStatus, ArticlesDelete, ListStays
<1>2. CASE ArticlesTaxonomies
  BY <1>2, ListBeside, ListSame DEF ArticlesTaxonomies, Becomes, ListStays
<1>3. CASE ArticlesFilter
  <2>1. \A s : SameList(ui, [ui EXCEPT !.filter[2] = s, !.at = 1])
    BY <1>0 DEF SameList, ListNames
  <2> QED
    BY <1>3, <2>1, ListBeside, ListSame, ListReapplied DEF ArticlesFilter, Becomes, ListStays
<1>4. CASE ArticlesFilterSubmit
  <2>1. SameList(ui, [ui EXCEPT !.filter[1] = ui.keyword, !.at = 1])
    BY <1>0 DEF SameList, ListNames
  <2> QED
    BY <1>4, <2>1, ListReapplied DEF ArticlesFilterSubmit, Becomes, ListStays
<1>5. CASE ArticlesClearFilters
  <2>1. SameList(ui, [ui EXCEPT !.keyword = "", !.filter = NoFilter, !.at = 1])
    BY <1>0 DEF SameList, ListNames
  <2> QED
    BY <1>5, <2>1, ListReapplied DEF ArticlesClearFilters, Becomes, ListStays
<1>6. CASE ArticlesExport
  <2>1. CASE \E j \in Pending("export") : Becomes(Ended(ui, j))
    BY <1>0, <2>1, ListStarts, ListSame DEF Becomes, ListStays
  <2> QED
    BY <1>6, <2>1, ListKit DEF ArticlesExport, ListStays
<1>7. CASE ArticlesImport
  <2>1. /\ SameList(ui, [ui EXCEPT !.importing = TRUE, !.error = FALSE])
        /\ SameList(ui, [ui EXCEPT !.importing = FALSE, !.error = TRUE])
    BY <1>0 DEF SameList, ListNames
  <2> QED
    BY <1>7, <2>1, ListSame DEF ArticlesImport, Becomes, Leaves, ListStays
<1> QED
  BY <1>1, <1>2, <1>3, <1>4, <1>5, <1>6, <1>7

\* The cards beside the list lose their text when other rows are shown.
LEMMA MediaList ==
  ASSUME ListOK(ui),
         \/ MediaAnswered \/ MediaSearch \/ MediaPages \/ MediaUpload \/ MediaCard \/ MediaSaveAlt
         \/ MediaRemove
  PROVE  ListStays
<1>0. ListNames \subseteq DOMAIN ui
  BY DEF ListOK
<1>1. \A u, d : ListNames \subseteq DOMAIN u => SameList(u, [u EXCEPT !.dirty = d])
  BY DEF SameList, ListNames
<1>2. CASE MediaAnswered
  <2>1. PICK r \in Answers :
          LET v == Answered(ui, r.ask, r.ok, r.some, r.pages)
          IN  Becomes(IF v.rows = ui.rows /\ v.some = ui.some THEN v ELSE [v EXCEPT !.dirty = {}])
    BY <1>2 DEF MediaAnswered
  <2> DEFINE v == Answered(ui, r.ask, r.ok, r.some, r.pages)
  <2>2. r.ask \in ui.asks
    BY DEF Answers
  <2>3. ListOK(v)
    BY <2>2, ListTakesAnswer
  <2>4. page' = page /\ (ui' = v \/ ui' = [v EXCEPT !.dirty = {}])
    BY <2>1 DEF Becomes
  <2> HIDE DEF v
  <2>5. SameList(v, [v EXCEPT !.dirty = {}])
    BY <1>1, <2>3 DEF ListOK
  <2> QED
    BY <2>3, <2>4, <2>5, ListSame DEF ListStays
<1>3. CASE MediaSearch
  <2>1. \A q : SameList(ui, [ui EXCEPT !.filter[1] = q, !.at = 1])
    BY <1>0 DEF SameList, ListNames
  <2> QED
    BY <1>3, <2>1, ListReapplied DEF MediaSearch, Becomes, ListStays
<1>4. CASE MediaPages \/ MediaUpload \/ MediaRemove
  BY <1>4, ListKit DEF MediaPages, MediaUpload, MediaRemove, ListStays
<1>5. CASE MediaCard
  BY <1>0, <1>1, <1>5, ListSame DEF MediaCard, Becomes, ListStays
<1>6. CASE MediaSaveAlt
  <2>1. ASSUME NEW j, Becomes([Ended(ui, j) EXCEPT !.dirty = @ \ {j.id}])
        PROVE  ListStays
    <3> DEFINE e == Ended(ui, j)
    <3>1. ListOK(e)
      BY <1>0, ListStarts, ListSame
    <3>2. page' = page /\ ui' = [e EXCEPT !.dirty = @ \ {j.id}]
      BY <2>1 DEF Becomes
    <3> HIDE DEF e
    <3>3. SameList(e, [e EXCEPT !.dirty = @ \ {j.id}])
      BY <3>1 DEF SameList, ListOK, ListNames
    <3> QED
      BY <3>1, <3>2, <3>3, ListSame DEF ListStays
  <2>2. CASE \E i \in ui.dirty : Row("media", i) /\ ui.busy[2] # i /\ Write("alt", i)
    BY <2>2, ListKit DEF ListStays
  <2>3. CASE WriteFails("alt")
    BY <2>3, ListKit DEF ListStays
  <2> QED
    BY <1>6, <2>1, <2>2, <2>3 DEF MediaSaveAlt
<1> QED
  BY <1>2, <1>3, <1>4, <1>5, <1>6

LEMMA TaxonomyList ==
  ASSUME ListOK(ui), NEW p, TaxonomyStep(p)
  PROVE  ListStays
<1>0. ListNames \subseteq DOMAIN ui
  BY DEF ListOK
<1>1. CASE TagsFetchList(p) \/ TagsPages(p) \/ TagsDelete(p)
  BY <1>1, ListKit DEF TagsFetchList, TagsPages, TagsDelete, ListStays
<1>2. CASE TagsType(p) \/ TagsEdit(p)
  <2>1. \A i, f : SameList(ui, [ui EXCEPT !.editing = i, !.form = f])
    BY <1>0 DEF SameList, ListNames
  <2> QED
    BY <1>2, <2>1, ListBeside, ListSame DEF TagsType, TagsEdit, Becomes, ListStays
<1>3. ASSUME NEW u, ListOK(u)
      PROVE  ListOK(Cancelled(u))
  <2>1. SameList(u, Cancelled(u))
    BY <1>3 DEF SameList, Cancelled, ListOK, ListNames
  <2> QED
    BY <1>3, <2>1, ListSame
<1>4. CASE TagsCancel(p)
  BY <1>3, <1>4 DEF TagsCancel, Becomes, ListStays
<1>5. CASE TagsSubmit(p)
  <2>1. ASSUME NEW j, Becomes(Cancelled(Relisted(ui, j)))
        PROVE  ListStays
    BY <1>3, <2>1, ListRelisted DEF Becomes, ListStays
  <2>2. CASE Becomes([ui EXCEPT !.error = TRUE])
    BY <2>2, ListBeside, ListSame DEF Becomes, ListStays
  <2>3. CASE Write("save", ui.editing) \/ WriteFails("save")
    BY <2>3, ListKit DEF ListStays
  <2> QED
    BY <1>5, <2>1, <2>2, <2>3 DEF TagsSubmit
<1> QED
  BY <1>1, <1>2, <1>4, <1>5 DEF TaxonomyStep

LEMMA UsersList ==
  ASSUME ListOK(ui), UsersAnswered \/ UsersPages \/ UsersStatus \/ UsersRole
  PROVE  ListStays
BY ListKit DEF UsersAnswered, UsersPages, UsersStatus, UsersRole, ListStays

LEMMA LogsList ==
  ASSUME ListOK(ui),
         \/ LogsAnswered \/ LogsUpdateFilter \/ LogsFilterSubmit \/ LogsClearFilters \/ LogsPageChange
         \/ LogsExpand
  PROVE  ListStays
<1>0. ListNames \subseteq DOMAIN ui
  BY DEF ListOK
<1>1. CASE LogsAnswered
  BY <1>1, ListKit DEF LogsAnswered, ListStays
<1>2. CASE LogsUpdateFilter
  BY <1>2, ListBeside, ListSame DEF LogsUpdateFilter, Becomes, ListStays
<1>3. CASE LogsFilterSubmit
  <2>1. \A f : SameList(ui, [ui EXCEPT !.filter = f, !.at = 1, !.expanded = "none"])
    BY <1>0 DEF SameList, ListNames
  <2> QED
    BY <1>3, <2>1, ListBeside, ListSame, ListReapplied DEF LogsFilterSubmit, Becomes, ListStays
<1>4. CASE LogsClearFilters
  <2>1. SameList(ui, [ui EXCEPT !.who = "", !.dates = "", !.filter = NoFilter, !.at = 1,
                                !.expanded = "none"])
    BY <1>0 DEF SameList, ListNames
  <2> QED
    BY <1>4, <2>1, ListReapplied DEF LogsClearFilters, Becomes, ListStays
<1>5. CASE LogsPageChange
  <2>1. \A p : SameList(ui, [ui EXCEPT !.at = p, !.expanded = "none"])
    BY <1>0 DEF SameList, ListNames
  <2> QED
    BY <1>5, <2>1, ListReapplied DEF LogsPageChange, Becomes, ListStays
<1>6. CASE LogsExpand
  <2>1. PICK i : Becomes([ui EXCEPT !.expanded = IF @ = i THEN "none" ELSE i])
    BY <1>6 DEF LogsExpand
  <2>2. SameList(ui, [ui EXCEPT !.expanded = IF @ = i THEN "none" ELSE i])
    BY <1>0 DEF SameList, ListNames
  <2> QED
    BY <2>1, <2>2, ListSame DEF Becomes, ListStays
<1> QED
  BY <1>1, <1>2, <1>3, <1>4, <1>5, <1>6

\* The lists of the reader, whose query is in the address.
LEMMA AddressIs ==
  ASSUME ListOK(ui), NEW a, NEW f
  PROVE  SameList(ui, [ui EXCEPT !.at = a, !.filter = f])
BY DEF ListOK, SameList, ListNames

LEMMA HomeList == ListOK(ui) /\ HomeNext => ListStays
<1> SUFFICES ASSUME ListOK(ui), HomeNext PROVE ListStays
  OBVIOUS
<1>1. ASSUME NEW a, NEW f, HomeUpdateParams(a, f)
      PROVE  ListStays
  BY <1>1, AddressIs, ListReapplied DEF HomeUpdateParams, Becomes, ListStays
<1>2. SameList(ui, ui)
  BY DEF SameList
<1>3. CASE HomeLanguage \/ HomeRetry
  BY <1>2, <1>3, ListReapplied DEF HomeLanguage, HomeRetry, Becomes, ListStays
<1>4. CASE HomeFetchArticles
  BY <1>4, ListKit DEF HomeFetchArticles, ListStays
<1> QED
  BY <1>1, <1>3, <1>4 DEF HomeNext, HomeLinks, HomeClear, HomePages

\* Without words or filter the list is empty, for the query asked last all the same.
LEMMA SearchAsks ==
  ASSUME ListOK(ui), NEW u, SameList(ui, u)
  PROVE  ListOK(SearchEffect(u))
<1> DEFINE w == [u EXCEPT !.req = @ + 1, !.rows = Query(u), !.want = Query(u), !.some = FALSE,
                          !.pages = 0, !.loading = FALSE, !.error = FALSE, !.lost = FALSE]
<1>1. /\ DOMAIN w = DOMAIN ui /\ w.req = ui.req + 1 /\ w.asks = ui.asks /\ w.rows = w.want
  BY DEF SameList, ListOK, ListNames
<1> HIDE DEF w
<1>2. ListOK(w)
  BY <1>1 DEF ListOK
<1>3. ListOK(Refetched(u))
  BY ListReapplied
<1> QED
  BY <1>2, <1>3 DEF w, SearchEffect

LEMMA SearchList == ListOK(ui) /\ ResultsNext => ListStays
<1> SUFFICES ASSUME ListOK(ui), ResultsNext PROVE ListStays
  OBVIOUS
<1>1. ASSUME NEW a, NEW f, SearchUpdateParams(a, f)
      PROVE  ListStays
  <2> DEFINE u == [ui EXCEPT !.at = a, !.filter = f]
  <2>1. page' = page /\ (ui' = u \/ ui' = SearchEffect(u))
    BY <1>1 DEF SearchUpdateParams, Becomes
  <2>2. SameList(ui, u)
    BY AddressIs
  <2> QED
    BY <2>1, <2>2, SearchAsks, ListSame DEF ListStays
<1>2. SameList(ui, ui)
  BY DEF SameList
<1>3. CASE SearchRetry
  BY <1>2, <1>3, SearchAsks DEF SearchRetry, Becomes, ListStays
<1>4. CASE SearchFetchArticles
  BY <1>4, ListKit DEF SearchFetchArticles, ListStays
<1> QED
  BY <1>1, <1>3, <1>4 DEF ResultsNext, SearchSubmit, SearchTaxonomies, SearchClear, SearchPages

LEMMA ContentList == ListsInv /\ ContentNext => ListsInv'
<1> SUFFICES ASSUME ListsInv, ContentNext, page' \in Lists PROVE ListOK(ui')
  BY DEF ListsInv
<1>0. StepOf(ContentPages) /\ "away" \notin Lists
  BY ContentSteps DEF Lists
<1>1. page \in Lists /\ ListOK(ui)
  BY <1>0 DEF StepOf, ListsInv
<1>2. CASE VersionsAnswered \/ VersionsPages \/ VersionsInspect \/ VersionsRestore \/ PreviewAnswered
  BY <1>1, <1>2, VersionsSteps DEF StepOf, Lists
<1>3. CASE \/ AnalyticsAnswered \/ AnalyticsPreset \/ AnalyticsControls \/ AnalyticsOpenDetail
           \/ AnalyticsDismiss \/ AnalyticsTrendChart \/ AnalyticsLegend
           \/ DashboardAnswered \/ DashboardTraffic \/ DashboardLegend
  BY <1>1, <1>3, ChartSteps DEF StepOf, Lists
<1>4. ListStays => ListOK(ui')
  BY <1>0 DEF ListStays
<1> QED
  BY <1>1, <1>2, <1>3, <1>4, ArticlesList, MediaList, TaxonomySplit, TaxonomyList, UsersList, LogsList
     DEF ContentNext

LEMMA ReaderList == ListsInv /\ ReaderNext => ListsInv'
<1> SUFFICES ASSUME ListsInv, ReaderNext, page' \in Lists PROVE ListOK(ui')
  BY DEF ListsInv
<1>0. StepOf(ReaderNames) /\ "away" \notin Lists
  BY ReaderSteps DEF Lists
<1>1. page \in Lists /\ ListOK(ui)
  BY <1>0 DEF StepOf, ListsInv
<1>2. HomeNext \/ ResultsNext
  BY <1>1, ReaderSplit, BoxSteps, ReadingSteps DEF StepOf, Lists
<1>3. ListStays
  BY <1>1, <1>2, HomeList, SearchList
<1> QED
  BY <1>0, <1>3 DEF ListStays

------------------------------------------------------------------------------
(* The forms of an account: while the newest image is awaited, the form    *)
(* has no identifier, and no code that was read from an image.             *)

FormNames == {"id", "code", "gen", "asks", "loading", "field", "email", "valid", "sent", "counting",
              "jobs", "account", "fetching", "settings"}

FormOK(u) ==
  /\ FormNames \subseteq DOMAIN u /\ u.gen \in Nat /\ u.asks \subseteq 1..u.gen
  /\ u.gen \in u.asks => u.id = 0 /\ u.code \in {0, Blind}
  /\ u.code \notin {0, Blind} => u.code = u.id
  /\ \A j \in u.jobs : j.code \notin {0, Blind} => j.code = j.id

FormsInv == page \in Forms => FormOK(ui)

\* A form with the same captcha, and no request that the other does not have.
SameForm(u, v) ==
  /\ DOMAIN v = DOMAIN u /\ v.gen = u.gen /\ v.asks = u.asks /\ v.id = u.id /\ v.code = u.code
  /\ v.jobs \subseteq u.jobs

LEMMA FormSame ==
  ASSUME NEW u, FormOK(u), NEW v, SameForm(u, v)
  PROVE  FormOK(v)
BY DEF FormOK, SameForm

\* Another image is awaited: nothing of the one before is left in the form.
LEMMA CaptchaLoads ==
  ASSUME NEW u, FormOK(u), NEW b \in BOOLEAN
  PROVE  FormOK(loadCaptcha(u)) /\ FormOK(FieldIs(u, b))
<1> DEFINE w == loadCaptcha(u)
<1>1. /\ DOMAIN w = DOMAIN u /\ w.gen = u.gen + 1 /\ w.asks = u.asks \cup {u.gen + 1}
      /\ w.id = 0 /\ w.code = 0 /\ w.jobs = u.jobs
  BY DEF loadCaptcha, FormOK, FormNames
<1> HIDE DEF w
<1>2. FormOK(w)
  BY <1>1 DEF FormOK
<1>3. SameForm(u, [u EXCEPT !.field = FALSE])
  BY DEF SameForm, FormOK, FormNames
<1> QED
  BY <1>2, <1>3, FormSame DEF w, FieldIs

\* An answer counts when it is the newest one's, which comes to a form without a code, or with
\* one typed blindly.
LEMMA CaptchaTaken ==
  ASSUME NEW u, FormOK(u), NEW a \in u.asks, NEW ok
  PROVE  FormOK(CaptchaAnswered(u, a, ok))
<1> DEFINE w == CaptchaAnswered(u, a, ok)
<1>1. CASE a = u.gen /\ u.field
  <2>1. /\ DOMAIN w = DOMAIN u /\ w.gen = u.gen /\ w.asks = u.asks \ {a} /\ w.code = u.code
        /\ w.jobs = u.jobs
    BY <1>1 DEF CaptchaAnswered, FormOK, FormNames
  <2>2. u.code \in {0, Blind}
    BY <1>1 DEF FormOK
  <2> HIDE DEF w
  <2>3. FormOK(w)
    BY <1>1, <2>1, <2>2 DEF FormOK
  <2> QED
    BY <2>3 DEF w
<1>2. CASE ~(a = u.gen /\ u.field)
  <2>1. /\ DOMAIN w = DOMAIN u /\ w.gen = u.gen /\ w.asks = u.asks \ {a} /\ w.code = u.code
        /\ w.id = u.id /\ w.jobs = u.jobs
    BY <1>2 DEF CaptchaAnswered, FormOK, FormNames
  <2> HIDE DEF w
  <2>2. FormOK(w)
    BY <2>1 DEF FormOK
  <2> QED
    BY <2>2 DEF w
<1> QED
  BY <1>1, <1>2

\* What is sent is what the form says.
LEMMA FormSends ==
  ASSUME NEW u, FormOK(u), NEW op
  PROVE  FormOK([u EXCEPT !.jobs = @ \cup {JobOf(op, u)}])
<1> DEFINE w == [u EXCEPT !.jobs = @ \cup {JobOf(op, u)}]
<1>1. /\ DOMAIN w = DOMAIN u /\ w.gen = u.gen /\ w.asks = u.asks /\ w.code = u.code
      /\ w.id = u.id /\ w.jobs = u.jobs \cup {JobOf(op, u)}
  BY DEF FormOK, FormNames
<1>2. JobOf(op, u).code = u.code /\ JobOf(op, u).id = u.id
  BY DEF JobOf
<1> HIDE DEF w
<1>3. FormOK(w)
  BY <1>1, <1>2 DEF FormOK
<1> QED
  BY <1>3 DEF w

\* A step of a form: it is left, or its code stays so.
FormStays == page' = "away" \/ FormOK(ui')

LEMMA CaptchaStep ==
  ASSUME FormOK(ui),
         CaptchaArrives \/ CaptchaType \/ CaptchaReload \/ validateForm \/ TypeEmail \/ SettingsArrive
  PROVE  FormStays
<1>0. FormNames \subseteq DOMAIN ui
  BY DEF FormOK
<1>1. CASE CaptchaArrives
  BY <1>1, CaptchaTaken DEF CaptchaArrives, Becomes, FormStays
<1>2. CASE CaptchaType
  <2>1. PICK c : /\ c \in {0, Blind} \/ (ui.id # 0 /\ c = ui.id)
                 /\ ui' = [ui EXCEPT !.code = c]
    BY <1>2 DEF CaptchaType, CaptchaImageShown, Becomes
  <2> DEFINE w == [ui EXCEPT !.code = c]
  <2>2. /\ DOMAIN w = DOMAIN ui /\ w.gen = ui.gen /\ w.asks = ui.asks /\ w.id = ui.id /\ w.code = c
        /\ w.jobs = ui.jobs
    BY <1>0 DEF FormNames
  <2> HIDE DEF w
  <2>3. FormOK(w)
    BY <2>1, <2>2 DEF FormOK
  <2> QED
    BY <2>1, <2>3 DEF w, FormStays
<1>3. CASE CaptchaReload
  BY <1>3, CaptchaLoads DEF CaptchaReload, Becomes, FormStays
<1>4. CASE validateForm
  <2>1. SameForm(ui, [ui EXCEPT !.valid = ~@])
    BY <1>0 DEF SameForm, FormNames
  <2> QED
    BY <1>4, <2>1, FormSame DEF validateForm, Becomes, FormStays
<1>5. CASE TypeEmail
  <2>1. PICK e : \/ ui' = [ui EXCEPT !.email = e]
                 \/ ui' = FieldIs([ui EXCEPT !.email = e], profileEmailChanged([ui EXCEPT !.email = e]))
    BY <1>5 DEF TypeEmail, Becomes
  <2> DEFINE w == [ui EXCEPT !.email = e]
  <2>2. SameForm(ui, w)
    BY <1>0 DEF SameForm, FormNames
  <2>3. profileEmailChanged(w) \in BOOLEAN
    BY DEF profileEmailChanged
  <2>4. ui' = w \/ ui' = FieldIs(w, profileEmailChanged(w))
    BY <2>1
  <2> HIDE DEF w
  <2> QED
    BY <2>2, <2>3, <2>4, FormSame, CaptchaLoads DEF FormStays
<1>6. CASE SettingsArrive
  <2>1. PICK s : ui' = FieldIs([ui EXCEPT !.settings = s], s = "code")
    BY <1>6 DEF SettingsArrive, Becomes
  <2> DEFINE w == [ui EXCEPT !.settings = s]
  <2>2. SameForm(ui, w)
    BY <1>0 DEF SameForm, FormNames
  <2> QED
    BY <2>1, <2>2, FormSame, CaptchaLoads DEF FormStays
<1> QED
  BY <1>1, <1>2, <1>3, <1>4, <1>5, <1>6

LEMMA CodeByMailStep ==
  ASSUME FormOK(ui),
         \/ RegisterSendEmailCode \/ ForgotSendEmailCode \/ handleSendProfileCode
         \/ handleSendPasswordCode \/ CountdownEnds
  PROVE  FormStays
<1>0. FormNames \subseteq DOMAIN ui
  BY DEF FormOK
<1>1. CASE SendCode
  BY <1>1, FormSends DEF SendCode, Becomes, FormStays
<1>2. ASSUME NEW counts, Sent(counts)
      PROVE  FormStays
  <2>1. PICK j : ui' = [ui EXCEPT !.jobs = @ \ {j}, !.sent = TRUE, !.counting = counts]
    BY <1>2 DEF Sent, Becomes
  <2>2. SameForm(ui, [ui EXCEPT !.jobs = @ \ {j}, !.sent = TRUE, !.counting = counts])
    BY <1>0 DEF SameForm, FormNames
  <2> QED
    BY <2>1, <2>2, FormSame DEF FormStays
<1>3. CASE NotSent
  <2>1. PICK j : LET u == [ui EXCEPT !.jobs = @ \ {j}]
                 IN  ui' = IF u.field THEN loadCaptcha(u) ELSE u
    BY <1>3 DEF NotSent, Becomes
  <2> DEFINE u == [ui EXCEPT !.jobs = @ \ {j}]
  <2>2. SameForm(ui, u)
    BY <1>0 DEF SameForm, FormNames
  <2>3. ui' = u \/ ui' = loadCaptcha(u)
    BY <2>1
  <2> HIDE DEF u
  <2> QED
    BY <2>2, <2>3, FormSame, CaptchaLoads DEF FormStays
<1>4. CASE CountdownEnds
  <2>1. SameForm(ui, [ui EXCEPT !.counting = FALSE])
    BY <1>0 DEF SameForm, FormNames
  <2> QED
    BY <1>4, <2>1, FormSame DEF CountdownEnds, Becomes, FormStays
<1> QED
  BY <1>1, <1>2, <1>3, <1>4
     DEF RegisterSendEmailCode, ForgotSendEmailCode, handleSendProfileCode, handleSendPasswordCode

LEMMA SubmitEnds ==
  ASSUME FormOK(ui)
  PROVE  FormOK(AfterSubmit(ui))
<1>1. SameForm(ui, AfterSubmit(ui))
  BY DEF SameForm, AfterSubmit, FormOK, FormNames
<1> QED
  BY <1>1, FormSame

\* Fields beside the captcha.
LEMMA FormBeside ==
  ASSUME NEW u, FormOK(u), NEW a, NEW b
  PROVE  /\ FormOK([u EXCEPT !.fetching = a]) /\ FormOK([u EXCEPT !.account = a])
         /\ FormOK([u EXCEPT !.sent = a]) /\ FormOK([u EXCEPT !.sent = a, !.valid = b])
         /\ FormOK([u EXCEPT !.email = a, !.sent = b])
<1>1. /\ SameForm(u, [u EXCEPT !.fetching = a]) /\ SameForm(u, [u EXCEPT !.account = a])
      /\ SameForm(u, [u EXCEPT !.sent = a]) /\ SameForm(u, [u EXCEPT !.sent = a, !.valid = b])
      /\ SameForm(u, [u EXCEPT !.email = a, !.sent = b])
  BY DEF SameForm, FormOK, FormNames
<1> QED
  BY <1>1, FormSame

LEMMA SubmissionStep ==
  ASSUME FormOK(ui),
         \/ submitLogin \/ handleRegister \/ handleResetPassword \/ handleUpdateProfile
         \/ handleUpdatePassword
  PROVE  FormStays
<1> DEFINE w == AfterSubmit(ui)
<1>0. FormOK(w)
  BY SubmitEnds
<1>1. Submit => FormOK(ui')
  BY FormSends DEF Submit, Becomes
<1>2. Leaves => FormStays
  BY DEF Leaves, FormStays
<1> HIDE DEF w
<1>3. CASE submitLogin
  <2>1. \/ Submit \/ Leaves \/ ui' = loadCaptcha(w)
        \/ ui' = FieldIs([ui EXCEPT !.fetching = TRUE], FALSE)
        \/ ui' = FieldIs([w EXCEPT !.fetching = FALSE], TRUE)
    BY <1>3 DEF submitLogin, Becomes, w
  <2>2. FormOK([ui EXCEPT !.fetching = TRUE]) /\ FormOK([w EXCEPT !.fetching = FALSE])
    BY <1>0, FormBeside
  <2> QED
    BY <1>0, <1>1, <1>2, <2>1, <2>2, CaptchaLoads DEF FormStays
<1>4. CASE handleRegister
  <2>1. CASE Submit \/ Leaves
    BY <1>1, <1>2, <2>1 DEF FormStays
  <2>2. ASSUME NEW made,
               LET u == [AfterSubmit(ui) EXCEPT !.account = @ \/ made]
               IN  Becomes(IF u.field THEN loadCaptcha(u) ELSE u)
        PROVE  FormStays
    <3> DEFINE u == [w EXCEPT !.account = @ \/ made]
    <3>1. ui' = u \/ ui' = loadCaptcha(u)
      BY <2>2 DEF Becomes, w
    <3>2. SameForm(w, u)
      BY <1>0 DEF SameForm, FormOK, FormNames
    <3> HIDE DEF u
    <3> QED
      BY <1>0, <3>1, <3>2, FormSame, CaptchaLoads DEF FormStays
  <2> QED
    BY <1>4, <2>1, <2>2 DEF handleRegister
<1>5. CASE handleResetPassword
  <2>1. Submit \/ ui' = w \/ ui' = [w EXCEPT !.sent = FALSE, !.valid = FALSE]
    BY <1>5 DEF handleResetPassword, Becomes, w
  <2>2. FormOK([w EXCEPT !.sent = FALSE, !.valid = FALSE])
    BY <1>0, FormBeside
  <2> QED
    BY <1>0, <1>1, <2>1, <2>2 DEF FormStays
<1>6. CASE handleUpdateProfile
  <2>1. \/ Submit \/ ui' = w \/ ui' = [w EXCEPT !.sent = FALSE]
        \/ ui' = FieldIs([w EXCEPT !.email = Mine, !.sent = FALSE], FALSE)
    BY <1>6 DEF handleUpdateProfile, UserEffect, Becomes, w
  <2> DEFINE v == [w EXCEPT !.email = Mine, !.sent = FALSE]
  <2>2. FormOK(v) /\ FormOK([w EXCEPT !.sent = FALSE])
    BY <1>0, FormBeside
  <2>3. Submit \/ ui' = w \/ ui' = [w EXCEPT !.sent = FALSE] \/ ui' = FieldIs(v, FALSE)
    BY <2>1
  <2> HIDE DEF v
  <2> QED
    BY <1>0, <1>1, <2>2, <2>3, CaptchaLoads DEF FormStays
<1>7. CASE handleUpdatePassword
  BY <1>0, <1>1, <1>2, <1>7 DEF handleUpdatePassword, Becomes, FormStays, w
<1> QED
  BY <1>3, <1>4, <1>5, <1>6, <1>7

LEMMA FormsInitInv == FormsInit => FormsInv
<1> SUFFICES ASSUME FormsInit PROVE FormOK(ui)
  BY DEF FormsInv
<1>1. \A email : FormOK(NewForm(email))
  BY DEF FormOK, NewForm, FormNames
<1> QED
  BY <1>1, CaptchaLoads DEF FormsInit

LEMMA FormsStep == FormsInv /\ FormsNext => FormsInv'
<1> SUFFICES ASSUME FormsInv, FormsNext, page' \in Forms PROVE FormOK(ui')
  BY DEF FormsInv
<1>1. FormOK(ui) /\ page' # "away"
  BY FormsSteps DEF StepOf, FormsInv, Forms
<1>2. FormStays
  BY <1>1, CaptchaStep, CodeByMailStep, SubmissionStep DEF FormsNext
<1> QED
  BY <1>1, <1>2 DEF FormStays

------------------------------------------------------------------------------
(* The settings of the AI: an operation runs on the draft the form shows,  *)
(* and only once the settings are loaded.                                  *)

AINames == {"draft", "baseline", "asks", "req", "loading", "hasLoaded", "operation", "job", "models",
            "tested", "error"}
AIDraft == [url : {NotLoaded, "", "u", "v"}, model : {"", "m", "n"}, key : BOOLEAN, clear : BOOLEAN,
            time : BOOLEAN]

AIOK(u) ==
  /\ AINames \subseteq DOMAIN u /\ u.req \in Nat /\ u.asks \subseteq 1..u.req
  /\ u.draft \in AIDraft /\ u.baseline \in AIDraft /\ u.job \in AIDraft
  /\ u.req \in u.asks => ~u.hasLoaded
  /\ ~u.hasLoaded => u.operation = "none" /\ u.models = NoAISettings /\ u.tested = NoAISettings
  /\ u.operation # "none" => u.job = u.draft
  /\ u.models # NoAISettings => u.models = buildAIConnectionReq(u.draft)
  /\ u.tested # NoAISettings => u.tested = buildAIModelTestReq(u.draft)

AIInv == page = "ai" => AIOK(ui)

LEMMA AIDraftFacts ==
  /\ NoAISettings \in AIDraft /\ toAISettingsDraft("u") \in AIDraft
  /\ \A d \in AIDraft : /\ \A b \in BOOLEAN : /\ [d EXCEPT !.key = b] \in AIDraft
                                              /\ [d EXCEPT !.clear = b] \in AIDraft
                                              /\ [d EXCEPT !.time = b] \in AIDraft
                        /\ \A v \in {"", "u", "v"} : [d EXCEPT !.url = v] \in AIDraft
                        /\ \A m \in {"", "m", "n"} : [d EXCEPT !.model = m] \in AIDraft
BY DEF AIDraft, NoAISettings, toAISettingsDraft

\* What was said of a connection is said of it with another model, or with other timeouts.
LEMMA AISameConnection ==
  ASSUME NEW d \in AIDraft, NEW m \in {"", "m", "n"}, NEW b \in BOOLEAN
  PROVE  /\ buildAIConnectionReq([d EXCEPT !.model = m]) = buildAIConnectionReq(d)
         /\ buildAIConnectionReq([d EXCEPT !.time = b]) = buildAIConnectionReq(d)
         /\ buildAIModelTestReq([d EXCEPT !.time = b]) = buildAIModelTestReq(d)
BY DEF AIDraft, buildAIConnectionReq, buildAIModelTestReq

LEMMA AIInitInv ==
  ASSUME ui = AIMount
  PROVE  AIOK(ui)
<1>1. /\ DOMAIN ui = AINames /\ ui.req = 1 /\ ui.asks = {1} /\ ~ui.hasLoaded
      /\ ui.draft = NoAISettings /\ ui.baseline = NoAISettings /\ ui.job = NoAISettings
      /\ ui.operation = "none" /\ ui.models = NoAISettings /\ ui.tested = NoAISettings
  BY DEF AIMount, AINames
<1>2. ui.req \in Nat /\ ui.asks \subseteq 1..ui.req
  BY <1>1
<1> QED
  BY <1>1, <1>2, AIDraftFacts DEF AIOK

LEMMA AILoads ==
  ASSUME AIOK(ui), AILoadSettings \/ AILoaded
  PROVE  AIOK(ui')
<1>0. AINames \subseteq DOMAIN ui
  BY DEF AIOK
<1>1. CASE AILoadSettings
  <2> DEFINE w == [ui EXCEPT !.req = @ + 1, !.asks = @ \cup {ui.req + 1}, !.loading = TRUE,
                             !.error = FALSE]
  <2>1. ~ui.hasLoaded /\ ui' = w
    BY <1>1 DEF AILoadSettings, Becomes
  <2>2. /\ DOMAIN w = DOMAIN ui /\ w.req = ui.req + 1 /\ w.asks = ui.asks \cup {ui.req + 1}
        /\ w.draft = ui.draft /\ w.baseline = ui.baseline /\ w.job = ui.job
        /\ w.hasLoaded = ui.hasLoaded /\ w.operation = ui.operation /\ w.models = ui.models
        /\ w.tested = ui.tested
    BY <1>0 DEF AINames
  <2> HIDE DEF w
  <2>3. AIOK(w)
    BY <2>1, <2>2 DEF AIOK
  <2> QED
    BY <2>1, <2>3
<1>2. CASE AILoaded
  <2>1. PICK a \in ui.asks :
          LET u == [ui EXCEPT !.asks = @ \ {a}]
          IN  IF a # ui.req THEN Becomes(u)
              ELSE \/ Becomes([applyRemoteSettings(u, toAISettingsDraft("u"))
                                EXCEPT !.hasLoaded = TRUE, !.loading = FALSE])
                   \/ Becomes([u EXCEPT !.draft = NoAISettings, !.baseline = NoAISettings,
                                        !.error = TRUE, !.loading = FALSE])
    BY <1>2 DEF AILoaded
  <2> DEFINE u == [ui EXCEPT !.asks = @ \ {a}]
             l == [applyRemoteSettings(u, toAISettingsDraft("u"))
                     EXCEPT !.hasLoaded = TRUE, !.loading = FALSE]
             f == [u EXCEPT !.draft = NoAISettings, !.baseline = NoAISettings, !.error = TRUE,
                            !.loading = FALSE]
  <2>2. \/ ui' = u
        \/ a = ui.req /\ (ui' = l \/ ui' = f)
    BY <2>1 DEF Becomes
  <2>3. /\ DOMAIN u = DOMAIN ui /\ u.req = ui.req /\ u.asks = ui.asks \ {a}
        /\ u.draft = ui.draft /\ u.baseline = ui.baseline /\ u.job = ui.job
        /\ u.hasLoaded = ui.hasLoaded /\ u.operation = ui.operation /\ u.models = ui.models
        /\ u.tested = ui.tested
    BY <1>0 DEF AINames
  <2> HIDE DEF u
  <2>4. AIOK(u)
    BY <2>3 DEF AIOK
  <2>5. /\ DOMAIN l = DOMAIN u /\ l.req = u.req /\ l.asks = u.asks
        /\ l.draft = toAISettingsDraft("u") /\ l.baseline = toAISettingsDraft("u") /\ l.job = u.job
        /\ l.hasLoaded = TRUE /\ l.operation = u.operation /\ l.models = NoAISettings
        /\ l.tested = NoAISettings
    BY <1>0, <2>3 DEF applyRemoteSettings, resetConnectionFeedback, AINames
  <2>6. /\ DOMAIN f = DOMAIN u /\ f.req = u.req /\ f.asks = u.asks
        /\ f.draft = NoAISettings /\ f.baseline = NoAISettings /\ f.job = u.job
        /\ f.hasLoaded = u.hasLoaded /\ f.operation = u.operation /\ f.models = u.models
        /\ f.tested = u.tested
    BY <1>0, <2>3 DEF AINames
  <2> HIDE DEF l, f
  <2>7. ASSUME a = ui.req
        PROVE  AIOK(l) /\ AIOK(f)
    <3>1. /\ ~ui.hasLoaded /\ ui.operation = "none" /\ ui.models = NoAISettings
          /\ ui.tested = NoAISettings
      BY <2>7 DEF AIOK
    <3>2. ui.req \notin u.asks
      BY <2>3, <2>7
    <3>3. AIOK(l)
      BY <2>3, <2>4, <2>5, <3>1, <3>2, AIDraftFacts DEF AIOK
    <3>4. AIOK(f)
      BY <2>3, <2>4, <2>6, <3>1, <3>2, AIDraftFacts DEF AIOK
    <3> QED
      BY <3>3, <3>4
  <2> QED
    BY <2>2, <2>4, <2>7
<1> QED
  BY <1>1, <1>2

\* The form is edited while no operation runs.
LEMMA AIEdits ==
  ASSUME AIOK(ui),
         \/ AIUpdateConnectionDraft \/ AIHandleModelChange \/ AIUpdateTimeouts \/ AIHandleCancel
  PROVE  AIOK(ui')
<1>0. AINames \subseteq DOMAIN ui /\ ui.draft \in AIDraft /\ ui.baseline \in AIDraft
  BY DEF AIOK
<1>1. ui.hasLoaded /\ ui.operation = "none"
  BY DEF AIUpdateConnectionDraft, AIHandleModelChange, AIUpdateTimeouts, AIHandleCancel, AIForm,
         canStartAISettingsOperation
<1>2. ASSUME NEW v, DOMAIN v = DOMAIN ui, v.req = ui.req, v.asks = ui.asks, v.draft \in AIDraft,
             v.baseline = ui.baseline, v.job = ui.job, v.hasLoaded = ui.hasLoaded,
             v.operation = ui.operation, v.models = NoAISettings, v.tested = NoAISettings
      PROVE  AIOK(v)
  BY <1>1, <1>2 DEF AIOK
<1>3. ASSUME NEW d \in AIDraft, NEW e
      PROVE  /\ AIOK(resetConnectionFeedback([ui EXCEPT !.draft = d]))
             /\ AIOK(resetConnectionFeedback([ui EXCEPT !.draft = d, !.error = e]))
  <2> DEFINE v == resetConnectionFeedback([ui EXCEPT !.draft = d])
             w == resetConnectionFeedback([ui EXCEPT !.draft = d, !.error = e])
  <2>1. /\ DOMAIN v = DOMAIN ui /\ v.req = ui.req /\ v.asks = ui.asks /\ v.draft = d
        /\ v.baseline = ui.baseline /\ v.job = ui.job /\ v.hasLoaded = ui.hasLoaded
        /\ v.operation = ui.operation /\ v.models = NoAISettings /\ v.tested = NoAISettings
    BY <1>0 DEF resetConnectionFeedback, AINames
  <2>2. /\ DOMAIN w = DOMAIN ui /\ w.req = ui.req /\ w.asks = ui.asks /\ w.draft = d
        /\ w.baseline = ui.baseline /\ w.job = ui.job /\ w.hasLoaded = ui.hasLoaded
        /\ w.operation = ui.operation /\ w.models = NoAISettings /\ w.tested = NoAISettings
    BY <1>0 DEF resetConnectionFeedback, AINames
  <2> HIDE DEF v, w
  <2>3. AIOK(v) /\ AIOK(w)
    BY <1>2, <2>1, <2>2
  <2> QED
    BY <2>3 DEF v, w
<1>4. CASE AIUpdateConnectionDraft
  <2>1. \/ \E v \in {"", "u", "v"} :
             ui' = resetConnectionFeedback([ui EXCEPT !.draft = [ui.draft EXCEPT !.url = v]])
        \/ \E b \in BOOLEAN :
             ui' = resetConnectionFeedback([ui EXCEPT !.draft = [ui.draft EXCEPT !.key = b]])
        \/ \E b \in BOOLEAN :
             ui' = resetConnectionFeedback([ui EXCEPT !.draft = [ui.draft EXCEPT !.clear = b]])
    BY <1>4 DEF AIUpdateConnectionDraft, Becomes
  <2>2. PICK d \in AIDraft : ui' = resetConnectionFeedback([ui EXCEPT !.draft = d])
    BY <1>0, <2>1, AIDraftFacts
  <2> QED
    BY <1>3, <2>2
<1>5. CASE AIHandleModelChange
  <2>1. PICK m \in {"", "m", "n"} : ui' = [ui EXCEPT !.draft.model = m, !.tested = NoAISettings]
    BY <1>5 DEF AIHandleModelChange, Becomes
  <2> DEFINE d == [ui.draft EXCEPT !.model = m]
             w == [ui EXCEPT !.draft = d, !.tested = NoAISettings]
  <2>2. ui' = w
    BY <2>1
  <2>3. /\ d \in AIDraft /\ buildAIConnectionReq(d) = buildAIConnectionReq(ui.draft)
    BY <1>0, AIDraftFacts, AISameConnection
  <2> HIDE DEF d
  <2>4. /\ DOMAIN w = DOMAIN ui /\ w.req = ui.req /\ w.asks = ui.asks /\ w.draft = d
        /\ w.baseline = ui.baseline /\ w.job = ui.job /\ w.hasLoaded = ui.hasLoaded
        /\ w.operation = ui.operation /\ w.models = ui.models /\ w.tested = NoAISettings
    BY <1>0 DEF AINames
  <2> HIDE DEF w
  <2>5. AIOK(w)
    BY <1>1, <2>3, <2>4 DEF AIOK
  <2> QED
    BY <2>2, <2>5
<1>6. CASE AIUpdateTimeouts
  <2>1. PICK b \in BOOLEAN : ui' = [ui EXCEPT !.draft.time = b]
    BY <1>6 DEF AIUpdateTimeouts, Becomes
  <2> DEFINE d == [ui.draft EXCEPT !.time = b]
             w == [ui EXCEPT !.draft = d]
  <2>2. ui' = w
    BY <2>1
  <2>3. /\ d \in AIDraft /\ buildAIConnectionReq(d) = buildAIConnectionReq(ui.draft)
        /\ buildAIModelTestReq(d) = buildAIModelTestReq(ui.draft)
    BY <1>0, AIDraftFacts, AISameConnection
  <2> HIDE DEF d
  <2>4. /\ DOMAIN w = DOMAIN ui /\ w.req = ui.req /\ w.asks = ui.asks /\ w.draft = d
        /\ w.baseline = ui.baseline /\ w.job = ui.job /\ w.hasLoaded = ui.hasLoaded
        /\ w.operation = ui.operation /\ w.models = ui.models /\ w.tested = ui.tested
    BY <1>0 DEF AINames
  <2> HIDE DEF w
  <2>5. AIOK(w)
    BY <1>1, <2>3, <2>4 DEF AIOK
  <2> QED
    BY <2>2, <2>5
<1>7. CASE AIHandleCancel
  <2>1. ui' = resetConnectionFeedback([ui EXCEPT !.draft = ui.baseline, !.error = FALSE])
    BY <1>7 DEF AIHandleCancel, Becomes
  <2> QED
    BY <1>0, <1>3, <2>1
<1> QED
  BY <1>4, <1>5, <1>6, <1>7

\* An operation starts from a form that is loaded, and its answer is of what it started with.
LEMMA AIOperates ==
  ASSUME AIOK(ui), AIHandleSubmit \/ AIHandleGetModels \/ AIHandleTestModel
  PROVE  AIOK(ui')
<1>0. AINames \subseteq DOMAIN ui /\ ui.draft \in AIDraft /\ ui.job \in AIDraft
  BY DEF AIOK
<1>1. ASSUME NEW op, AIStart(op), ui.hasLoaded
      PROVE  AIOK(ui')
  <2> DEFINE w == [ui EXCEPT !.operation = op, !.job = ui.draft, !.error = FALSE]
  <2>1. ui' = w
    BY <1>1 DEF AIStart, Becomes
  <2>2. /\ DOMAIN w = DOMAIN ui /\ w.req = ui.req /\ w.asks = ui.asks /\ w.draft = ui.draft
        /\ w.baseline = ui.baseline /\ w.job = ui.draft /\ w.hasLoaded = ui.hasLoaded
        /\ w.operation = op /\ w.models = ui.models /\ w.tested = ui.tested
    BY <1>0 DEF AINames
  <2> HIDE DEF w
  <2>3. AIOK(w)
    BY <1>1, <2>2 DEF AIOK
  <2> QED
    BY <2>1, <2>3
<1> DEFINE f == AIFinish(ui)
<1>2. /\ DOMAIN f = DOMAIN ui /\ f.req = ui.req /\ f.asks = ui.asks /\ f.draft = ui.draft
      /\ f.baseline = ui.baseline /\ f.job = NoAISettings /\ f.hasLoaded = ui.hasLoaded
      /\ f.operation = "none" /\ f.models = ui.models /\ f.tested = ui.tested
  BY <1>0 DEF AIFinish, AINames
<1> HIDE DEF f
<1>3. CASE AIFails
  <2> DEFINE w == [f EXCEPT !.error = TRUE]
  <2>1. ui' = w
    BY <1>3 DEF AIFails, Becomes, f
  <2>2. /\ DOMAIN w = DOMAIN f /\ w.req = f.req /\ w.asks = f.asks /\ w.draft = f.draft
        /\ w.baseline = f.baseline /\ w.job = f.job /\ w.hasLoaded = f.hasLoaded
        /\ w.operation = f.operation /\ w.models = f.models /\ w.tested = f.tested
    BY <1>0, <1>2 DEF AINames
  <2> HIDE DEF w
  <2>3. AIOK(w)
    BY <1>2, <2>2, AIDraftFacts DEF AIOK
  <2> QED
    BY <2>1, <2>3
<1>4. ASSUME ui.operation = "save",
             ui' = AIFinish(applyRemoteSettings(ui, [ui.job EXCEPT !.key = FALSE, !.clear = FALSE]))
      PROVE  AIOK(ui')
  <2> DEFINE d == [ui.job EXCEPT !.key = FALSE, !.clear = FALSE]
             w == AIFinish(applyRemoteSettings(ui, d))
  <2>1. d \in AIDraft
    BY <1>0 DEF AIDraft
  <2>2. ui.hasLoaded
    BY <1>4 DEF AIOK
  <2>3. ui' = w
    BY <1>4
  <2> HIDE DEF d
  <2>4. /\ DOMAIN w = DOMAIN ui /\ w.req = ui.req /\ w.asks = ui.asks /\ w.draft = d
        /\ w.baseline = d /\ w.job = NoAISettings /\ w.hasLoaded = ui.hasLoaded
        /\ w.operation = "none" /\ w.models = NoAISettings /\ w.tested = NoAISettings
    BY <1>0 DEF AIFinish, applyRemoteSettings, resetConnectionFeedback, AINames
  <2> HIDE DEF w
  <2>5. AIOK(w)
    BY <2>1, <2>2, <2>4, AIDraftFacts DEF AIOK
  <2> QED
    BY <2>3, <2>5
<1>5. ASSUME ui.operation = "models",
             ui' = [AIFinish(ui) EXCEPT !.models = buildAIConnectionReq(ui.job)]
      PROVE  AIOK(ui')
  <2> DEFINE w == [f EXCEPT !.models = buildAIConnectionReq(ui.job)]
  <2>1. ui.hasLoaded /\ ui.job = ui.draft
    BY <1>5 DEF AIOK
  <2>2. ui' = w
    BY <1>5 DEF f
  <2>3. /\ DOMAIN w = DOMAIN f /\ w.req = f.req /\ w.asks = f.asks /\ w.draft = f.draft
        /\ w.baseline = f.baseline /\ w.job = f.job /\ w.hasLoaded = f.hasLoaded
        /\ w.operation = f.operation /\ w.models = buildAIConnectionReq(ui.job)
        /\ w.tested = f.tested
    BY <1>0, <1>2 DEF AINames
  <2> HIDE DEF w
  <2>4. AIOK(w)
    BY <1>2, <2>1, <2>3, AIDraftFacts DEF AIOK
  <2> QED
    BY <2>2, <2>4
<1>6. ASSUME ui.operation = "test",
             ui' = [AIFinish(ui) EXCEPT !.tested = buildAIModelTestReq(ui.job)]
      PROVE  AIOK(ui')
  <2> DEFINE w == [f EXCEPT !.tested = buildAIModelTestReq(ui.job)]
  <2>1. ui.hasLoaded /\ ui.job = ui.draft
    BY <1>6 DEF AIOK
  <2>2. ui' = w
    BY <1>6 DEF f
  <2>3. /\ DOMAIN w = DOMAIN f /\ w.req = f.req /\ w.asks = f.asks /\ w.draft = f.draft
        /\ w.baseline = f.baseline /\ w.job = f.job /\ w.hasLoaded = f.hasLoaded
        /\ w.operation = f.operation /\ w.models = f.models
        /\ w.tested = buildAIModelTestReq(ui.job)
    BY <1>0, <1>2 DEF AINames
  <2> HIDE DEF w
  <2>4. AIOK(w)
    BY <1>2, <2>1, <2>3, AIDraftFacts DEF AIOK
  <2> QED
    BY <2>2, <2>4
<1> QED
  BY <1>1, <1>3, <1>4, <1>5, <1>6
     DEF AIHandleSubmit, AIHandleGetModels, AIHandleTestModel, AIForm, Becomes

------------------------------------------------------------------------------
(* The site's settings and the projects: there is something to save only   *)
(* when it was loaded; behind the confirmation the projects keep their     *)
(* places.                                                                 *)

StoreNames == {"server", "value", "draft", "hasLoaded", "isLoading", "failed", "fetches", "jobs",
               "error"}

StoreOK(u) ==
  /\ StoreNames \subseteq DOMAIN u /\ u.server \in {"a", "b"} /\ u.value \in {"a", "b", NotLoaded}
  /\ u.hasLoaded => u.value # NotLoaded
  /\ \A j \in u.jobs : j.draft \in {"a", "b"} /\ j.over # NotLoaded
  /\ u.draft \in {"a", "b"}

StoreInv == page = "settings" => StoreOK(ui)

\* The step of the settings of the site, which stays mounted.
StoreStepOf == \/ executeFetchSettings \/ SettingsRetry \/ SettingsType \/ SettingsReset
               \/ executeUpdateSettings \/ SettingsOther

LEMMA StoreInitInv ==
  ASSUME NEW l \in BOOLEAN, NEW f, ui = SettingsMount(l, f)
  PROVE  StoreOK(ui)
BY DEF SettingsMount, SettingsStore, FetchSettings, StoreOK, StoreNames, NotLoaded

LEMMA StoreStep ==
  ASSUME StoreOK(ui), StoreStepOf
  PROVE  StoreOK(ui')
<1>0. StoreNames \subseteq DOMAIN ui /\ NotLoaded \notin {"a", "b"}
  BY DEF StoreOK, NotLoaded
<1>1. CASE executeFetchSettings
  <2> DEFINE u == [ui EXCEPT !.fetches = @ - 1, !.isLoading = FALSE]
             v == toSiteSettingsState(u, ui.server)
             x == [v EXCEPT !.hasLoaded = TRUE, !.failed = FALSE]
             y == [u EXCEPT !.hasLoaded = FALSE, !.failed = TRUE]
  <2>1. ui' = x \/ ui' = y
    BY <1>1 DEF executeFetchSettings, Becomes
  <2>2. /\ DOMAIN u = DOMAIN ui /\ u.server = ui.server /\ u.value = ui.value /\ u.draft = ui.draft
        /\ u.jobs = ui.jobs
    BY <1>0 DEF StoreNames
  <2> HIDE DEF u
  <2>3. /\ DOMAIN v = DOMAIN ui /\ v.server = ui.server /\ v.value = ui.server
        /\ v.draft \in {ui.server, ui.draft} /\ v.jobs = ui.jobs
    BY <1>0, <2>2 DEF toSiteSettingsState, StoreNames
  <2> HIDE DEF v
  <2>4. /\ DOMAIN x = DOMAIN ui /\ x.server = ui.server /\ x.value = ui.server
        /\ x.draft \in {ui.server, ui.draft} /\ x.jobs = ui.jobs
    BY <1>0, <2>3 DEF StoreNames
  <2>5. /\ DOMAIN y = DOMAIN ui /\ y.server = ui.server /\ y.value = ui.value /\ y.draft = ui.draft
        /\ y.jobs = ui.jobs /\ y.hasLoaded = FALSE
    BY <1>0, <2>2 DEF StoreNames
  <2> HIDE DEF x, y
  <2>6. StoreOK(x)
    BY <1>0, <2>4 DEF StoreOK
  <2>7. StoreOK(y)
    BY <2>5 DEF StoreOK
  <2> QED
    BY <2>1, <2>6, <2>7
<1>2. CASE SettingsRetry
  <2> DEFINE w == FetchSettings(ui)
  <2>1. ui' = w
    BY <1>2 DEF SettingsRetry, Becomes
  <2>2. /\ DOMAIN w = DOMAIN ui /\ w.server = ui.server /\ w.value = ui.value /\ w.draft = ui.draft
        /\ w.jobs = ui.jobs /\ w.hasLoaded = ui.hasLoaded
    BY <1>0 DEF FetchSettings, StoreNames
  <2> HIDE DEF w
  <2>3. StoreOK(w)
    BY <2>2 DEF StoreOK
  <2> QED
    BY <2>1, <2>3
<1>3. ASSUME NEW d \in {"a", "b"}, NEW e
      PROVE  StoreOK([ui EXCEPT !.draft = d]) /\ StoreOK([ui EXCEPT !.draft = d, !.error = e])
  <2> DEFINE v == [ui EXCEPT !.draft = d]
             w == [ui EXCEPT !.draft = d, !.error = e]
  <2>1. /\ DOMAIN v = DOMAIN ui /\ v.server = ui.server /\ v.value = ui.value /\ v.draft = d
        /\ v.jobs = ui.jobs /\ v.hasLoaded = ui.hasLoaded
    BY <1>0 DEF StoreNames
  <2>2. /\ DOMAIN w = DOMAIN ui /\ w.server = ui.server /\ w.value = ui.value /\ w.draft = d
        /\ w.jobs = ui.jobs /\ w.hasLoaded = ui.hasLoaded
    BY <1>0 DEF StoreNames
  <2> HIDE DEF v, w
  <2>3. StoreOK(v) /\ StoreOK(w)
    BY <2>1, <2>2 DEF StoreOK
  <2> QED
    BY <2>3 DEF v, w
<1>4. CASE SettingsType
  BY <1>3, <1>4 DEF SettingsType, Becomes
<1>5. SettingsForm => ui.value \in {"a", "b"}
  BY DEF SettingsForm, StoreOK
<1>6. CASE SettingsReset
  BY <1>3, <1>5, <1>6 DEF SettingsReset, Becomes
<1>7. CASE executeUpdateSettings
  <2>1. ASSUME SettingsForm,
               ui' = [ui EXCEPT !.isLoading = TRUE, !.error = FALSE,
                                !.jobs = {[draft |-> ui.draft, over |-> ui.value]}]
        PROVE  StoreOK(ui')
    <3> DEFINE j == [draft |-> ui.draft, over |-> ui.value]
               w == [ui EXCEPT !.isLoading = TRUE, !.error = FALSE, !.jobs = {j}]
    <3>1. j.draft = ui.draft /\ j.over = ui.value
      OBVIOUS
    <3>2. ui' = w
      BY <2>1
    <3> HIDE DEF j
    <3>3. /\ DOMAIN w = DOMAIN ui /\ w.server = ui.server /\ w.value = ui.value /\ w.draft = ui.draft
          /\ w.jobs = {j} /\ w.hasLoaded = ui.hasLoaded
      BY <1>0 DEF StoreNames
    <3> HIDE DEF w
    <3>4. StoreOK(w)
      BY <1>0, <1>5, <2>1, <3>1, <3>3 DEF StoreOK
    <3> QED
      BY <3>2, <3>4
  <2>2. StoreOK([ui EXCEPT !.error = TRUE])
    <3> DEFINE w == [ui EXCEPT !.error = TRUE]
    <3>1. /\ DOMAIN w = DOMAIN ui /\ w.server = ui.server /\ w.value = ui.value /\ w.draft = ui.draft
          /\ w.jobs = ui.jobs /\ w.hasLoaded = ui.hasLoaded
      BY <1>0 DEF StoreNames
    <3> HIDE DEF w
    <3>2. StoreOK(w)
      BY <3>1 DEF StoreOK
    <3> QED
      BY <3>2 DEF w
  <2>3. ASSUME NEW j \in ui.jobs,
               LET u == [ui EXCEPT !.jobs = {}, !.isLoading = FALSE]
               IN  \/ ui' = [toSiteSettingsState([u EXCEPT !.server = j.draft], j.draft)
                               EXCEPT !.hasLoaded = TRUE]
                   \/ ui' = [u EXCEPT !.error = TRUE]
        PROVE  StoreOK(ui')
    <3> DEFINE u == [ui EXCEPT !.jobs = {}, !.isLoading = FALSE]
               s == [u EXCEPT !.server = j.draft]
               v == toSiteSettingsState(s, j.draft)
               x == [v EXCEPT !.hasLoaded = TRUE]
               y == [u EXCEPT !.error = TRUE]
    <3>1. ui' = x \/ ui' = y
      BY <2>3
    <3>2. j.draft \in {"a", "b"}
      BY DEF StoreOK
    <3>3. /\ DOMAIN u = DOMAIN ui /\ u.server = ui.server /\ u.value = ui.value /\ u.draft = ui.draft
          /\ u.jobs = {} /\ u.hasLoaded = ui.hasLoaded
      BY <1>0 DEF StoreNames
    <3> HIDE DEF u
    <3>4. /\ DOMAIN s = DOMAIN ui /\ s.server = j.draft /\ s.value = ui.value /\ s.draft = ui.draft
          /\ s.jobs = {}
      BY <1>0, <3>3 DEF StoreNames
    <3> HIDE DEF s
    <3>5. /\ DOMAIN v = DOMAIN ui /\ v.server = j.draft /\ v.value = j.draft
          /\ v.draft \in {j.draft, ui.draft} /\ v.jobs = {}
      BY <1>0, <3>4 DEF toSiteSettingsState, StoreNames
    <3> HIDE DEF v
    <3>6. /\ DOMAIN x = DOMAIN ui /\ x.server = j.draft /\ x.value = j.draft
          /\ x.draft \in {j.draft, ui.draft} /\ x.jobs = {}
      BY <1>0, <3>5 DEF StoreNames
    <3>7. /\ DOMAIN y = DOMAIN ui /\ y.server = ui.server /\ y.value = ui.value /\ y.draft = ui.draft
          /\ y.jobs = {} /\ y.hasLoaded = ui.hasLoaded
      BY <1>0, <3>3 DEF StoreNames
    <3> HIDE DEF x, y
    <3>8. StoreOK(x)
      BY <1>0, <3>2, <3>6 DEF StoreOK
    <3>9. StoreOK(y)
      BY <3>7 DEF StoreOK
    <3> QED
      BY <3>1, <3>8, <3>9
  <2> QED
    BY <1>7, <2>1, <2>2, <2>3 DEF executeUpdateSettings, Becomes
<1>8. CASE SettingsOther
  <2>1. PICK d \in {"a", "b"} : ui' = [ui EXCEPT !.server = d]
    BY <1>8 DEF SettingsOther, Becomes
  <2> DEFINE w == [ui EXCEPT !.server = d]
  <2>2. /\ DOMAIN w = DOMAIN ui /\ w.server = d /\ w.value = ui.value /\ w.draft = ui.draft
        /\ w.jobs = ui.jobs /\ w.hasLoaded = ui.hasLoaded
    BY <1>0 DEF StoreNames
  <2> HIDE DEF w
  <2>3. StoreOK(w)
    BY <2>2 DEF StoreOK
  <2> QED
    BY <2>1, <2>3 DEF w
<1> QED
  BY <1>1, <1>2, <1>4, <1>6, <1>7, <1>8 DEF StoreStepOf

ProjectNames == {"saved", "items", "kept", "next", "loading", "saving", "over", "collapsed",
                 "error", "picker"}

ProjectsOK(u, d) ==
  /\ ProjectNames \subseteq DOMAIN u
  /\ u.saving => u.over # NotLoaded
  /\ d.op = "project" => ~u.loading /\ ~u.saving /\ u.picker = 0 /\ u.items[d.id] = d.q

ProjectsInv == page = "projects" => ProjectsOK(ui, dialog)

LEMMA ProjectsInitInv == ui = ProjectsMount /\ dialog = NoDialog => ProjectsOK(ui, dialog)
BY DEF ProjectsMount, ProjectsOK, ProjectNames, NoDialog

LEMMA EditedSame ==
  ASSUME NEW u, ProjectNames \subseteq DOMAIN u
  PROVE  /\ DOMAIN Edited(u) = DOMAIN u /\ Edited(u).items = u.items /\ Edited(u).saving = u.saving
         /\ Edited(u).over = u.over
BY DEF Edited, ProjectNames

LEMMA ProjectsStep ==
  ASSUME page = "projects", ProjectsOK(ui, dialog), ProjectsNext
  PROVE  ProjectsOK(ui', dialog')
<1>0. ProjectNames \subseteq DOMAIN ui
  BY DEF ProjectsOK
<1>1. ASSUME NEW v, DOMAIN v = DOMAIN ui, v.saving => v.over # NotLoaded, ui' = v,
             dialog'.op # "project"
      PROVE  ProjectsOK(ui', dialog')
  BY <1>0, <1>1 DEF ProjectsOK
<1>2. Free => dialog.op # "project"
  BY DEF Free
<1>3. ui.saving => ui.over # NotLoaded
  BY DEF ProjectsOK
<1>4. CASE ProjectsLoaded
  <2>1. PICK s : \/ ui' = [ui EXCEPT !.loading = FALSE, !.saved = "loaded", !.items = s, !.kept = s]
                 \/ ui' = [ui EXCEPT !.loading = FALSE, !.error = TRUE]
    BY <1>4 DEF ProjectsLoaded, Becomes
  <2>2. dialog.op # "project" /\ dialog' = dialog
    BY <1>4 DEF ProjectsLoaded, Becomes, ProjectsOK
  <2> DEFINE v == [ui EXCEPT !.loading = FALSE, !.saved = "loaded", !.items = s, !.kept = s]
             w == [ui EXCEPT !.loading = FALSE, !.error = TRUE]
  <2>3. /\ DOMAIN v = DOMAIN ui /\ v.saving = ui.saving /\ v.over = ui.over
        /\ DOMAIN w = DOMAIN ui /\ w.saving = ui.saving /\ w.over = ui.over
    BY <1>0 DEF ProjectNames
  <2>4. ui' = v \/ ui' = w
    BY <2>1
  <2> HIDE DEF v, w
  <2> QED
    BY <1>1, <1>3, <2>2, <2>3, <2>4
<1>5. CASE addProject \/ updateProject \/ moveProject
  <2>1. Free /\ dialog' = dialog
    BY <1>5 DEF addProject, updateProject, moveProject, ProjectsReachable, ProjectsForm, At, Becomes
  <2>2. \/ ui' = Edited([ui EXCEPT !.items = Append(@, ui.next), !.next = @ + 1])
        \/ ui' = Edited(ui)
        \/ \E i, j \in DOMAIN ui.items : ui' = Edited([ui EXCEPT !.items = Swap(@, i, j)])
    BY <1>5 DEF addProject, updateProject, moveProject, Becomes
  <2>3. PICK s, n : \/ ui' = Edited(ui) \/ ui' = Edited([ui EXCEPT !.items = s])
                    \/ ui' = Edited([ui EXCEPT !.items = s, !.next = n])
    BY <2>2
  <2> DEFINE v == [ui EXCEPT !.items = s]
             w == [ui EXCEPT !.items = s, !.next = n]
  <2>4. /\ DOMAIN v = DOMAIN ui /\ v.saving = ui.saving /\ v.over = ui.over
        /\ DOMAIN w = DOMAIN ui /\ w.saving = ui.saving /\ w.over = ui.over
    BY <1>0 DEF ProjectNames
  <2>5. ui' = Edited(ui) \/ ui' = Edited(v) \/ ui' = Edited(w)
    BY <2>3
  <2> HIDE DEF v, w
  <2> QED
    BY <1>0, <1>1, <1>2, <1>3, <2>1, <2>4, <2>5, EditedSame
<1>6. CASE ProjectsMediaSelect
  <2>1. Free /\ dialog' = dialog
    BY <1>6 DEF ProjectsMediaSelect, At, Becomes
  <2>2. \/ \E i \in DOMAIN ui.items : ui' = [ui EXCEPT !.picker = i]
        \/ ui' = [Edited(ui) EXCEPT !.picker = 0]
        \/ ui' = [ui EXCEPT !.picker = 0]
    BY <1>6 DEF ProjectsMediaSelect, Becomes
  <2>3. PICK i : ui' = [ui EXCEPT !.picker = i] \/ ui' = [Edited(ui) EXCEPT !.picker = 0]
    BY <2>2
  <2> DEFINE v == [ui EXCEPT !.picker = i]
             w == Edited(ui)
             x == [w EXCEPT !.picker = 0]
  <2>4. DOMAIN v = DOMAIN ui /\ v.saving = ui.saving /\ v.over = ui.over
    BY <1>0 DEF ProjectNames
  <2>5. ui' = v \/ ui' = x
    BY <2>3
  <2>6. DOMAIN w = DOMAIN ui /\ w.saving = ui.saving /\ w.over = ui.over
    BY <1>0, EditedSame
  <2> HIDE DEF v, w
  <2>7. DOMAIN x = DOMAIN ui /\ x.saving = ui.saving /\ x.over = ui.over
    BY <1>0, <2>6 DEF ProjectNames
  <2> HIDE DEF x
  <2> QED
    BY <1>1, <1>2, <1>3, <2>1, <2>4, <2>5, <2>7
<1>7. CASE removeProject
  <2>1. ASSUME NEW i \in DOMAIN ui.items, ProjectsForm,
               Enqueue([op |-> "project", id |-> i, q |-> ui.items[i]])
        PROVE  ProjectsOK(ui', dialog')
    BY <2>1 DEF ProjectsForm, Enqueue, ProjectsOK
  <2>2. ASSUME Accepts("project"),
               ui' = Edited([ui EXCEPT !.items = Without(@, dialog.id),
                                       !.collapsed = @ \ {ui.items[dialog.id]}])
        PROVE  ProjectsOK(ui', dialog')
    <3> DEFINE v == [ui EXCEPT !.items = Without(@, dialog.id),
                               !.collapsed = @ \ {ui.items[dialog.id]}]
    <3>1. DOMAIN v = DOMAIN ui /\ v.saving = ui.saving /\ v.over = ui.over
      BY <1>0 DEF ProjectNames
    <3>2. ui' = Edited(v)
      BY <2>2
    <3> HIDE DEF v
    <3>3. dialog'.op # "project"
      BY <2>2 DEF Accepts, NoDialog
    <3> QED
      BY <1>0, <1>1, <1>3, <3>1, <3>2, <3>3, EditedSame
  <2> QED
    BY <1>7, <2>1, <2>2 DEF removeProject
<1>8. CASE toggleProjectCollapsed
  <2>1. Free /\ dialog' = dialog
    BY <1>8 DEF toggleProjectCollapsed, ProjectsForm, At, Becomes
  <2>2. PICK c : ui' = [ui EXCEPT !.collapsed = c]
    BY <1>8 DEF toggleProjectCollapsed, Becomes
  <2> DEFINE v == [ui EXCEPT !.collapsed = c]
  <2>3. DOMAIN v = DOMAIN ui /\ v.saving = ui.saving /\ v.over = ui.over
    BY <1>0 DEF ProjectNames
  <2> HIDE DEF v
  <2> QED
    BY <1>1, <1>2, <1>3, <2>1, <2>2, <2>3 DEF v
<1>9. CASE ProjectsSave
  <2>1. dialog.op # "project" /\ dialog' = dialog
    BY <1>2, <1>9 DEF ProjectsSave, ProjectsForm, At, Becomes, ProjectsOK
  <2> DEFINE v == [ui EXCEPT !.saving = TRUE, !.over = ui.saved, !.error = FALSE]
             w == [ui EXCEPT !.saving = FALSE, !.over = NotLoaded, !.saved = "loaded",
                        !.kept = ui.items, !.collapsed = {}]
             x == [ui EXCEPT !.saving = FALSE, !.over = NotLoaded, !.error = TRUE]
  <2>2. (ui.saved # NotLoaded /\ ui' = v) \/ ui' = w \/ ui' = x
    BY <1>9 DEF ProjectsSave, ProjectsHasChanges, Becomes, NotLoaded
  <2>3. /\ DOMAIN v = DOMAIN ui /\ v.over = ui.saved
        /\ DOMAIN w = DOMAIN ui /\ w.saving = FALSE
        /\ DOMAIN x = DOMAIN ui /\ x.saving = FALSE
    BY <1>0 DEF ProjectNames
  <2> HIDE DEF v, w, x
  <2> QED
    BY <1>1, <2>1, <2>2, <2>3
<1>10. CASE ProjectsReset
  <2>1. Free /\ dialog' = dialog
    BY <1>10 DEF ProjectsReset, ProjectsForm, At, Becomes
  <2>2. PICK s : ui' = [ui EXCEPT !.items = s, !.saved = "loaded", !.collapsed = {}, !.error = FALSE]
    BY <1>10 DEF ProjectsReset, Becomes
  <2> DEFINE v == [ui EXCEPT !.items = s, !.saved = "loaded", !.collapsed = {}, !.error = FALSE]
  <2>3. DOMAIN v = DOMAIN ui /\ v.saving = ui.saving /\ v.over = ui.over
    BY <1>0 DEF ProjectNames
  <2> HIDE DEF v
  <2> QED
    BY <1>1, <1>2, <1>3, <2>1, <2>2, <2>3 DEF v
<1> QED
  BY <1>4, <1>5, <1>6, <1>7, <1>8, <1>9, <1>10 DEF ProjectsNext

------------------------------------------------------------------------------
(* All of it together.                                                     *)

WebInv == /\ EditorInv /\ ChatInv /\ ListsInv /\ FormsInv /\ AIInv /\ StoreInv /\ ProjectsInv

LEMMA WebInitInv == WebInit => WebInv
<1> SUFFICES ASSUME WebInit PROVE WebInv
  OBVIOUS
<1>0. EditorInit /\ dialog = NoDialog
  BY DEF WebInit, Init
<1>1. \/ page = "away" \/ WidgetsInit \/ ContentInit \/ SettingsInit \/ ReaderInit \/ FormsInit
      \/ AskInit
  BY DEF WebInit, Init
<1>2. page # "editor"
  BY <1>1 DEF WidgetsInit, ContentInit, SettingsInit, ReaderInit, FormsInit, AskInit, Forms
<1>3. EditorInv
  BY <1>0, <1>2, EditorInitInv
<1>4. page = "ask" => AskInit
  BY <1>1 DEF WidgetsInit, ContentInit, SettingsInit, ReaderInit, FormsInit, Forms
<1>5. ChatInv
  BY <1>0, <1>4, ChatInit DEF ChatInv
<1>6. page \in Lists => ContentInit \/ ReaderInit
  BY <1>1 DEF WidgetsInit, SettingsInit, FormsInit, AskInit, Forms, Lists
<1>7. ContentInit => ListsInv
  BY ListMounts DEF ContentInit, ListsInv, Lists, ArticlesMount, MediaMount, TagsMount, CategoriesMount,
                    UsersMount, LogsMount
<1>8. ReaderInit => ListsInv
  BY ListMounts DEF ReaderInit, ListsInv, Lists
<1>9. ListsInv
  BY <1>6, <1>7, <1>8 DEF ListsInv
<1>10. page \in Forms => FormsInit
  BY <1>1 DEF WidgetsInit, ContentInit, SettingsInit, ReaderInit, AskInit, Forms
<1>11. FormsInv
  BY <1>10, FormsInitInv DEF FormsInv
<1>12. page \in SettingsPages => SettingsInit
  BY <1>1 DEF WidgetsInit, ContentInit, ReaderInit, FormsInit, AskInit, Forms, SettingsPages
<1>13. AIInv
  BY <1>12, AIInitInv DEF AIInv, SettingsPages, SettingsInit
<1>14. StoreInv
  <2>1. page = "settings" => \E l \in BOOLEAN, f \in 0..1 : ui = SettingsMount(l, f)
    BY <1>12 DEF SettingsPages, SettingsInit
  <2> QED
    BY <2>1, StoreInitInv DEF StoreInv
<1>15. ProjectsInv
  <2>1. page = "projects" => ui = ProjectsMount
    BY <1>12 DEF SettingsPages, SettingsInit
  <2> QED
    BY <1>0, <2>1, ProjectsInitInv DEF ProjectsInv
<1> QED
  BY <1>3, <1>5, <1>9, <1>11, <1>13, <1>14, <1>15 DEF WebInv

\* A page that is not mounted is not disturbed.
LEMMA NotMounted ==
  ASSUME NEW names, StepOf(names)
  PROVE  /\ names \cap Lists = {} => ListsInv'
         /\ names \cap Forms = {} => FormsInv'
         /\ "ai" \notin names => AIInv'
         /\ "settings" \notin names => StoreInv'
         /\ "projects" \notin names => ProjectsInv'
         /\ "ask" \notin names => ChatInv'
BY DEF StepOf, ListsInv, Lists, FormsInv, Forms, AIInv, StoreInv, ProjectsInv, ChatInv

LEMMA SettingsInvStep ==
  ASSUME AIInv, StoreInv, ProjectsInv, SettingsNext
  PROVE  AIInv' /\ StoreInv' /\ ProjectsInv'
<1>1. CASE AINext
  <2>1. StepOf({"ai"})
    BY <1>1, AISteps
  <2>2. AIOK(ui')
    BY <1>1, <2>1, AILoads, AIEdits, AIOperates DEF AINext, AIInv, StepOf
  <2> QED
    BY <2>1, <2>2, NotMounted DEF AIInv
<1>2. CASE StoreStepOf
  <2>1. StepOf({"settings"})
    BY <1>2, SettingsFormSteps DEF StoreStepOf
  <2>2. StoreOK(ui')
    BY <1>2, <2>1, StoreStep DEF StoreInv, StepOf
  <2> QED
    BY <2>1, <2>2, NotMounted DEF StoreInv
<1>3. CASE ProjectsNext
  <2>1. StepOf({"projects"})
    BY <1>3, ProjectsSteps
  <2>2. ProjectsOK(ui', dialog')
    BY <1>3, <2>1, ProjectsStep DEF ProjectsInv, StepOf
  <2> QED
    BY <2>1, <2>2, NotMounted DEF ProjectsInv
<1>4. CASE RAGNext
  BY <1>4, RAGSteps, NotMounted
<1>5. CASE SystemNext
  BY <1>5, SystemSteps, NotMounted
<1> QED
  BY <1>1, <1>2, <1>3, <1>4, <1>5 DEF SettingsNext, StoreStepOf

LEMMA WebStep == WebInv /\ WebNext => WebInv' /\ Careful
<1> SUFFICES ASSUME WebInv, WebNext PROVE WebInv' /\ Careful
  OBVIOUS
<1>0. EditorInv /\ ChatInv /\ ListsInv /\ FormsInv /\ AIInv /\ StoreInv /\ ProjectsInv
  BY DEF WebInv
<1>1. CASE EditorNext
  <2>1. EditorInv' /\ Careful
    BY <1>0, <1>1, EditorStep
  <2>2. page' \in {"editor", "away"}
    BY <1>0, <1>1, EditorPages
  <2>3. ChatInv' /\ ListsInv' /\ FormsInv' /\ AIInv' /\ StoreInv' /\ ProjectsInv'
    BY <2>2 DEF ChatInv, ListsInv, Lists, FormsInv, Forms, AIInv, StoreInv, ProjectsInv
  <2> QED
    BY <2>1, <2>3 DEF WebInv
<1>2. ASSUME NEW names, StepOf(names), "editor" \notin names, "away" \notin names, UNCHANGED editor
      PROVE  EditorInv' /\ Careful
  <2>1. page \notin {"editor", "away"} /\ page' # "editor"
    BY <1>2 DEF StepOf
  <2> QED
    BY <1>0, <1>2, <2>1, ElsewhereStep
<1>3. CASE WidgetsNext /\ UNCHANGED editor
  <2> DEFINE names == {"combobox", "picker"}
  <2>1. StepOf(names)
    BY <1>3, WidgetsSteps
  <2>2. EditorInv' /\ Careful
    BY <1>2, <1>3, <2>1
  <2> QED
    BY <2>1, <2>2, NotMounted DEF WebInv, Lists, Forms
<1>4. CASE ContentNext /\ UNCHANGED editor
  <2>1. StepOf(ContentPages)
    BY <1>4, ContentSteps
  <2>2. EditorInv' /\ Careful
    BY <1>2, <1>4, <2>1 DEF ContentPages, Lists
  <2>3. ListsInv'
    BY <1>0, <1>4, ContentList
  <2> QED
    BY <2>1, <2>2, <2>3, NotMounted DEF WebInv, ContentPages, Lists, Forms
<1>5. CASE SettingsNext /\ UNCHANGED editor
  <2>1. StepOf(SettingsPages)
    BY <1>5, SettingsSteps
  <2>2. EditorInv' /\ Careful
    BY <1>2, <1>5, <2>1 DEF SettingsPages
  <2>3. AIInv' /\ StoreInv' /\ ProjectsInv'
    BY <1>0, <1>5, SettingsInvStep
  <2>4. ListsInv' /\ FormsInv' /\ ChatInv'
    BY <2>1, NotMounted DEF SettingsPages, Lists, Forms
  <2> QED
    BY <2>2, <2>3, <2>4 DEF WebInv
<1>6. CASE ReaderNext /\ UNCHANGED editor
  <2>1. StepOf(ReaderNames)
    BY <1>6, ReaderSteps
  <2>2. EditorInv' /\ Careful
    BY <1>2, <1>6, <2>1 DEF ReaderNames
  <2>3. ListsInv'
    BY <1>0, <1>6, ReaderList
  <2> QED
    BY <2>1, <2>2, <2>3, NotMounted DEF WebInv, ReaderNames, Forms
<1>7. CASE FormsNext /\ UNCHANGED editor
  <2>1. StepOf(Forms)
    BY <1>7, FormsSteps
  <2>2. EditorInv' /\ Careful
    BY <1>2, <1>7, <2>1 DEF Forms
  <2>3. FormsInv'
    BY <1>0, <1>7, FormsStep
  <2> QED
    BY <2>1, <2>2, <2>3, NotMounted DEF WebInv, Forms, Lists
<1>8. CASE AskNext /\ UNCHANGED editor
  <2>1. StepOf({"ask"})
    BY <1>8, AskPages DEF StepOf
  <2>2. EditorInv' /\ Careful
    BY <1>2, <1>8, <2>1
  <2>3. ChatInv'
    BY <1>0, <1>8, ChatStep
  <2> QED
    BY <2>1, <2>2, <2>3, NotMounted DEF WebInv, Forms, Lists
<1>9. CASE Refuse /\ UNCHANGED editor
  <2>1. UNCHANGED <<page, ui>> /\ dialog' = NoDialog
    BY <1>9 DEF Refuse
  <2>2. EditorInv' /\ Careful
    BY <1>0, <1>9, <2>1, EditorIdle
  <2>3. ChatInv'
    BY <1>0, <1>9, ChatIdle
  <2>4. ListsInv' /\ FormsInv' /\ AIInv' /\ StoreInv'
    BY <1>0, <2>1 DEF ListsInv, FormsInv, AIInv, StoreInv
  <2>5. ProjectsInv'
    BY <1>0, <2>1 DEF ProjectsInv, ProjectsOK, NoDialog
  <2> QED
    BY <2>2, <2>3, <2>4, <2>5 DEF WebInv
<1> QED
  BY <1>1, <1>3, <1>4, <1>5, <1>6, <1>7, <1>8, <1>9 DEF WebNext, Next

LEMMA WebIdle == WebInv /\ UNCHANGED console => WebInv' /\ Careful
<1> SUFFICES ASSUME WebInv, UNCHANGED console PROVE WebInv' /\ Careful
  OBVIOUS
<1>1. UNCHANGED editor /\ UNCHANGED <<page, ui>> /\ UNCHANGED dialog /\ UNCHANGED kit
  BY DEF console, kit
<1>2. EditorInv' /\ Careful
  BY <1>1, EditorIdle DEF WebInv
<1>3. ChatInv'
  BY <1>1, ChatIdle DEF WebInv
<1>4. ListsInv' /\ FormsInv' /\ AIInv' /\ StoreInv' /\ ProjectsInv'
  BY <1>1 DEF WebInv, ListsInv, FormsInv, AIInv, StoreInv, ProjectsInv
<1> QED
  BY <1>2, <1>3, <1>4 DEF WebInv

\* What every handler of every page keeps: each kind of page by its own invariant, while it is
\* mounted (the routes of App.tsx), and what outlives it, the dialog (useConfirm.tsx:27) and the saves
\* and drafts of the editor.
THEOREM WebInvariant == WebSpec => []WebInv
<1>1. WebInv /\ [WebNext]_console => WebInv'
  BY WebStep, WebIdle
<1> QED
  BY <1>1, WebInitInv, PTL DEF WebSpec

LEMMA WebSafe ==
  WebInv => /\ WritesOverWhatWasLoaded /\ ListsShowTheLastQuery /\ AIFeedbackIsOfItsDraft
            /\ RemovesTheConfirmedProject /\ NoForeignAnswer /\ CodeIsOfTheImageShown
<1> SUFFICES ASSUME WebInv
             PROVE  /\ WritesOverWhatWasLoaded /\ ListsShowTheLastQuery /\ AIFeedbackIsOfItsDraft
                    /\ RemovesTheConfirmedProject /\ NoForeignAnswer /\ CodeIsOfTheImageShown
  OBVIOUS
<1>1. SavesOverItsBaseline
  BY EditorSafe DEF WebInv
<1>2. WrittenOverLoaded
  BY DEF WebInv, WrittenOverLoaded, StoreInv, StoreOK, ProjectsInv, ProjectsOK
<1>3. ListsShowTheLastQuery
  BY DEF WebInv, ListsInv, ListOK, ListsShowTheLastQuery
<1>4. AIFeedbackIsOfItsDraft
  BY DEF WebInv, AIInv, AIOK, AIFeedbackIsOfItsDraft
<1>5. RemovesTheConfirmedProject
  BY DEF WebInv, ProjectsInv, ProjectsOK, RemovesTheConfirmedProject
<1>6. NoForeignAnswer
  BY ChatSafe DEF WebInv
<1>7. CodeIsOfTheImageShown
  BY DEF WebInv, FormsInv, FormOK, CodeIsOfTheImageShown
<1> QED
  BY <1>1, <1>2, <1>3, <1>4, <1>5, <1>6, <1>7 DEF WritesOverWhatWasLoaded

\* A draft that the editor offers to recover stays offered and stored until the user decides
\* (ArticleEditor.tsx:587, 1000), but for a save of this article from an earlier visit of the
\* editor that succeeds only now (ArticleEditor.tsx:705), and for the autosave of a form that
\* was changed since (ArticleEditor.tsx:590).
THEOREM DraftsAreKept == WebSpec => OfferedDraftKept
<1>1. WebInv /\ [WebNext]_console => [OfferStays]_<<kit, editor>>
  BY WebStep, WebIdle DEF Careful
<1> QED
  BY <1>1, WebInvariant, PTL DEF WebSpec, OfferedDraftKept

\* No article, no settings of the site and no projects are overwritten from a form that was
\* never filled (editorAccessPolicy.ts:34, siteSettingsPolicy.ts:71, ProjectsContent.tsx:67).
THEOREM WritesAreOverLoaded == WebSpec => []WritesOverWhatWasLoaded
BY WebInvariant, WebSafe, PTL

\* However answers overtake one another, a list that is neither loading nor failed shows the
\* query asked last: on the eight lists of the console and of the reader (Articles.tsx:56,
\* Home.tsx:61, Search.tsx:101).
THEOREM ListsAreOfTheLastQuery == WebSpec => []ListsShowTheLastQuery
BY WebInvariant, WebSafe, PTL

\* Models and tests shown in the settings of the AI are of the connection in the form
\* (AISettings.tsx:59, 199, 228).
THEOREM AIFeedbackIsCurrent == WebSpec => []AIFeedbackIsOfItsDraft
BY WebInvariant, WebSafe, PTL

\* The project at the position a confirmation was asked for is the one it was asked about
\* (ProjectsContent.tsx:101).
THEOREM ProjectsKeepTheirPlace == WebSpec => []RemovesTheConfirmedProject
BY WebInvariant, WebSafe, PTL

\* The chat of the whole application, with its confirmations, shows nothing of another
\* account (Ask.tsx:95, 173).
THEOREM WebChatIsOfItsAccount == WebSpec => []NoForeignAnswer
BY WebInvariant, WebSafe, PTL

\* A code that was read from an image goes with that image, in the form and in every request
\* (CaptchaField.tsx:38); one that was typed while none was shown with any (49).
THEOREM CodesAreOfTheirImage == WebSpec => []CodeIsOfTheImageShown
BY WebInvariant, WebSafe, PTL

\* A rewrite by the AI replaces the paragraph it was given, unchanged since
\* (ArticleEditor.tsx:838).
THEOREM RewritesAreOfWhatWasRead == WebSpec => RewritesWhatItRead
<1>1. WebInv /\ [WebNext]_console
        => [ InEditor /\ InEditor' /\ ui.ai # NoAIDraft /\ ui'.ai = NoAIDraft
             /\ ui'.fields.content # ui.fields.content
             => ui.fields.content[ui.ai.at] = ui.ai.source[ui.ai.at] ]_<<kit, editor>>
  BY WebStep, WebIdle DEF Careful, Rewrites
<1> QED
  BY <1>1, WebInvariant, PTL DEF WebSpec, RewritesWhatItRead
=============================================================================
