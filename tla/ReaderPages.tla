----------------------------- MODULE ReaderPages -----------------------------
(***************************************************************************)
(* The pages of the reader, and the frame around them:                     *)
(*   pages/Home.tsx, Search.tsx, Archive.tsx (utils/archiveTree.ts,        *)
(*   utils/pagination.ts), ArticleDetail.tsx, Projects.tsx                 *)
(*   components/ImageLightbox.tsx, ProjectPreviewModal.tsx, Layout.tsx     *)
(* Home and Search keep their query in the address, and abort the request  *)
(* for the query before: an aborted request is one that is not the newest. *)
(* The box one searches in ("searchbox") is explored apart from the        *)
(* results.                                                                *)
(***************************************************************************)
EXTENDS PageKit, SequencesExt

(* Home.  A filter is <<category, tag>>.                                   *)

Home(a, f) == Refetched([NewList EXCEPT !.at = a, !.filter = f])

HomeFetchArticles == page = "home" /\ ListAnswered

\* Parameters left out stay as they are; the language is part of the request.
HomeUpdateParams(a, f) == CanAsk(ui) /\ Becomes(Reapplied([ui EXCEPT !.at = a, !.filter = f]))
HomeLanguage == At("home") /\ CanAsk(ui) /\ Becomes(Refetched(ui))

HomeLinks == At("home") /\ \E f \in {<<"c", "">>, <<"", "t">>} : HomeUpdateParams(1, f)

\* The first page without a filter features its first article; the list below is not shown
\* when that one is alone.
shouldShowHero(u) == u.at = 1 /\ u.filter = NoFilter
HeroRetryShown     == shouldShowHero(ui) /\ ~ui.loading /\ ~ui.some
LatestShown(alone) == ~shouldShowHero(ui) \/ (ui.some /\ ~alone)

HomeRetry == /\ At("home") /\ CanAsk(ui) /\ ui.error
             /\ \E alone \in BOOLEAN : HeroRetryShown \/ LatestShown(alone)
             /\ Becomes(Refetched(ui))

HomeClear == At("home") /\ ui.filter # NoFilter /\ HomeUpdateParams(1, NoFilter)
HomePages == At("home") /\ \E p \in PageTargets(ui, FALSE) : HomeUpdateParams(p, ui.filter)

------------------------------------------------------------------------------
(* The results of Search.  A filter is <<words, category or tag>>.         *)

hasSearchScope(u) == u.filter # NoFilter

\* Without words or filter nothing is asked, and what was is aborted.
SearchEffect(u) ==
  IF hasSearchScope(u) THEN Refetched(u)
  ELSE [u EXCEPT !.req = @ + 1, !.rows = Query(u), !.want = Query(u), !.some = FALSE, !.pages = 0,
                 !.loading = FALSE, !.error = FALSE, !.lost = FALSE]

Search(f) == SearchEffect([NewList EXCEPT !.filter = f])
SearchFetchArticles == page = "search" /\ ListAnswered

SearchUpdateParams(a, f) ==
  CanAsk(ui) /\ Becomes(LET u == [ui EXCEPT !.at = a, !.filter = f]
                        IN  IF Query(u) = Query(ui) THEN u ELSE SearchEffect(u))

SearchSubmit  == At("search") /\ \E w \in {"", "w"} : SearchUpdateParams(1, <<w, "">>)
\* A category or tag keeps the words.
SearchTaxonomies == At("search") /\ \E x \in {"c", "t"} : SearchUpdateParams(1, <<ui.filter[1], x>>)
SearchClear   == At("search") /\ hasSearchScope(ui) /\ SearchUpdateParams(1, NoFilter)
SearchRetry   == At("search") /\ CanAsk(ui) /\ ui.error /\ Becomes(SearchEffect(ui))
SearchPages   == At("search") /\ \E p \in PageTargets(ui, FALSE) : SearchUpdateParams(p, ui.filter)

------------------------------------------------------------------------------
(* The search box: suggestions for what is typed, else the searches before. *)

Words == {"a", "ash", "ashen"}
Long(w) == w \in {"ash", "ashen"}
Kinds == {"article", "taxonomy", "other"}
MaxRecent == 2   \* ten in the code

SearchBox == [keyword |-> "", q |-> "", found |-> <<>>, asked |-> "", recent |-> <<>>,
              focused |-> FALSE, active |-> -1]

\* Another keyword aborts the request for the one before, or the wait before it.
KeywordIs(u, w) ==
  IF w = u.keyword THEN u
  ELSE IF Long(w) THEN [u EXCEPT !.keyword = w, !.asked = w]
  ELSE [u EXCEPT !.keyword = w, !.asked = "", !.found = <<>>, !.active = -1]

\* The words of the address are put into the box.
QueryIs(u, q) == IF q = u.q THEN u ELSE KeywordIs([u EXCEPT !.q = q], q)

BoxSuggestions ==
  /\ page = "searchbox" /\ ui.asked # ""
  /\ \E f \in UNION {[1..n -> Kinds] : n \in 0..2} : Becomes([ui EXCEPT !.asked = "", !.found = f])

addRecentSearch(r, w) ==
  LET s == <<w>> \o SelectSeq(r, LAMBDA x : x # w) IN SubSeq(s, 1, IF Len(s) > MaxRecent THEN MaxRecent ELSE Len(s))

BoxType == At("searchbox") /\ ui.focused /\ \E w \in {""} \cup Words : Becomes(KeywordIs(ui, w))

BoxFocus == At("searchbox") /\ \E f \in BOOLEAN : Becomes([ui EXCEPT !.focused = f])

BoxSubmit ==
  /\ At("searchbox")
  /\ Becomes(IF ui.keyword = "" THEN QueryIs(ui, "")
             ELSE [QueryIs(ui, ui.keyword) EXCEPT !.recent = addRecentSearch(@, ui.keyword), !.focused = FALSE])

visibleSuggestions(u) == IF Long(u.keyword) THEN u.found ELSE <<>>
keyboardLen(u) == IF visibleSuggestions(u) # <<>> THEN Len(visibleSuggestions(u)) ELSE Len(u.recent)
ListboxShown == At("searchbox") /\ ui.focused /\ keyboardLen(ui) > 0

\* An article is opened; a filter takes the place of the words; a kind that is not known is words.
chooseSuggestion(i) ==
  LET u == [ui EXCEPT !.focused = FALSE, !.active = -1]
      k == visibleSuggestions(ui)[i]
  IN  \/ k = "article" /\ Leaves
      \/ k = "taxonomy" /\ Becomes(QueryIs(u, ""))
      \/ k = "other" /\ Becomes(QueryIs(KeywordIs(u, "ashen"), "ashen"))

chooseRecent(i) ==
  LET w == ui.recent[i]
  IN  Becomes([QueryIs(KeywordIs(ui, w), w) EXCEPT !.recent = addRecentSearch(@, w), !.focused = FALSE])

Choose(i) == IF visibleSuggestions(ui) # <<>> THEN chooseSuggestion(i) ELSE chooseRecent(i)

BoxChoose == ListboxShown /\ \E i \in 1..keyboardLen(ui) : Choose(i)

removeRecent == /\ ListboxShown /\ visibleSuggestions(ui) = <<>>
                /\ \E w \in ToSet(ui.recent) :
                     Becomes([ui EXCEPT !.recent = SelectSeq(@, LAMBDA x : x # w), !.active = -1])

BoxClearRecent == /\ ListboxShown /\ visibleSuggestions(ui) = <<>>
                  /\ Becomes([ui EXCEPT !.recent = <<>>])

\* The options are counted from 0, and the list they are of may have changed since.
handleSearchKeyDown ==
  /\ At("searchbox")
  /\ \/ Becomes([ui EXCEPT !.focused = FALSE, !.active = -1])
     \/ /\ keyboardLen(ui) > 0
        /\ \E d \in {1, -1} : Becomes([ui EXCEPT !.active = (@ + d + keyboardLen(ui)) % keyboardLen(ui)])
     \/ /\ ui.active >= 0 /\ ui.active < keyboardLen(ui) /\ Choose(ui.active + 1)

BoxClear == At("searchbox") /\ Becomes(QueryIs(KeywordIs(ui, ""), ""))

------------------------------------------------------------------------------
(* The archive.  An article is a day <<year, month, day>>, or has none.    *)

NoDay == <<>>
Days  == {<<2, 1, 1>>, <<1, 1, 1>>}

\* A branch is the day it is cut from; what has no day has a branch of its own.
Undated == <<0>>
Branches(days) == UNION {{SubSeq(d, 1, n) : n \in 1..3} : d \in days}

\* Newer days come first; the newest is open to begin with.
Newest(days) == CHOOSE d \in days : \A e \in days :
                  d[1] > e[1] \/ (d[1] = e[1] /\ (d[2] > e[2] \/ (d[2] = e[2] /\ d[3] >= e[3])))
buildArchiveTree(articles) ==
  LET dated == articles \ {NoDay}
  IN  [branches |-> Branches(dated) \cup (IF NoDay \in articles THEN {Undated} ELSE {}),
       opened   |-> IF dated # {} THEN Branches({Newest(dated)})
                    ELSE IF NoDay \in articles THEN {Undated} ELSE {}]

\* The list is read page by page, got being what has been read of it.  An article that moves
\* to a later page meanwhile is read twice, and kept once.
Archive == [articles |-> {}, expanded |-> {}, filters |-> FALSE, history |-> TRUE, filtering |-> TRUE,
            failed |-> FALSE, filtersFailed |-> FALSE, req |-> 1, got |-> {}]

ArticlesAre(u, s) == [u EXCEPT !.articles = s, !.expanded = buildArchiveTree(s).opened]

collectPaginated ==
  /\ page = "archive" /\ ui.history
  /\ \E d \in Days \cup {NoDay} : Becomes([ui EXCEPT !.got = @ \cup {d}])

ArchiveLoadHistory ==
  /\ page = "archive" /\ ui.history
  /\ \/ Becomes(ArticlesAre([ui EXCEPT !.history = FALSE], ui.got))
     \/ Becomes([ui EXCEPT !.history = FALSE, !.failed = TRUE])

ArchiveLoadFilters ==
  /\ page = "archive" /\ ui.filtering
  /\ \E some, failed \in BOOLEAN :
       Becomes([ui EXCEPT !.filtering = FALSE, !.filters = @ \/ some, !.filtersFailed = failed])

\* A branch is there when all it hangs from are open; they keep their state when closed.
BranchShown(b) == /\ b \in buildArchiveTree(ui.articles).branches
                  /\ \A n \in 1..(Len(b) - 1) : SubSeq(b, 1, n) \in ui.expanded
toggleExpanded ==
  /\ At("archive")
  /\ \E b \in buildArchiveTree(ui.articles).branches :
       /\ BranchShown(b)
       /\ Becomes([ui EXCEPT !.expanded = IF b \in @ THEN @ \ {b} ELSE @ \cup {b}])

HistoryRetryShown == ui.failed
FiltersRetryShown == ui.filtersFailed
\* Both lists are read anew; what the requests before bring is not for this effect.
ArchiveRetry ==
  /\ At("archive") /\ CanAsk(ui) /\ (HistoryRetryShown \/ FiltersRetryShown)
  /\ Becomes([ui EXCEPT !.req = @ + 1, !.got = {}, !.history = TRUE, !.filtering = TRUE,
                        !.failed = FALSE, !.filtersFailed = FALSE])

------------------------------------------------------------------------------
(* An article.                                                             *)

Article == [shown |-> FALSE, context |-> "none", at |-> "article", error |-> "none", liked |-> FALSE,
            stored |-> FALSE, liking |-> FALSE, likeError |-> FALSE, headings |-> 0, heading |-> 0,
            toc |-> TRUE, image |-> FALSE]

fetchArticle(u) == [u EXCEPT !.shown = FALSE, !.context = "none", !.at = "article", !.error = "none",
                             !.likeError = FALSE, !.heading = 0, !.image = FALSE, !.headings = 0]

\* The article, then what is around it.
ArticleLoaded ==
  /\ page = "article"
  /\ \/ /\ ui.at = "article"
        /\ \/ \E n \in 0..2 : Becomes([ui EXCEPT !.shown = TRUE, !.at = "context", !.liked = ui.stored,
                                                 !.headings = n])
           \/ \E e \in {"missing", "failed"} : Becomes([ui EXCEPT !.error = e, !.at = "done"])
     \/ /\ ui.at = "context"
        /\ \E c \in {"some", "failed"} : Becomes([ui EXCEPT !.context = c, !.at = "done"])

\* Nothing to retry when there is no such article.
retryArticle == At("article") /\ ~ui.shown /\ ui.error = "failed" /\ Becomes(fetchArticle(ui))

\* The heading read is the first in view, or the last above it.
ActiveHeading == /\ page = "article" /\ ui.shown
                 /\ \E h \in 0..ui.headings : Becomes([ui EXCEPT !.heading = h])

LikeShown  == At("article") /\ ui.shown /\ ~ui.image
handleLike ==
  /\ page = "article"
  /\ \/ LikeShown /\ ~ui.liked /\ ~ui.liking /\ Becomes([ui EXCEPT !.liking = TRUE, !.likeError = FALSE])
     \/ ui.liking /\ Becomes([ui EXCEPT !.liking = FALSE, !.likeError = TRUE])
     \/ ui.liking /\ \E l \in BOOLEAN :
          Becomes([ui EXCEPT !.liking = FALSE, !.liked = l, !.stored = @ \/ l])

ArticleTOC == /\ LikeShown /\ ui.headings > 0 /\ Becomes([ui EXCEPT !.toc = ~@])

\* The neighbours and the related articles are links to other addresses: another mount.
ArticleContextBlock == LikeShown /\ ui.context = "some" /\ Leaves

\* An image of the text is shown over the page, until it is closed.
ImageLightbox == /\ At("article") /\ ui.shown
                 /\ Becomes([ui EXCEPT !.image = ~@])

------------------------------------------------------------------------------
(* The projects.                                                           *)

Projects == [shown |-> {}, loading |-> TRUE, error |-> FALSE, selected |-> "none", toc |-> TRUE]

ProjectsLoad ==
  /\ page = "showcase" /\ ui.loading
  /\ \/ \E s \in SUBSET Items : Becomes([ui EXCEPT !.loading = FALSE, !.shown = s])
     \/ Becomes([ui EXCEPT !.loading = FALSE, !.error = TRUE])

ProjectsRetry == /\ At("showcase") /\ ui.error /\ ui.selected = "none"
                 /\ Becomes([ui EXCEPT !.loading = TRUE, !.error = FALSE])

ProjectCard == /\ At("showcase") /\ ~ui.loading /\ ui.selected = "none"
               /\ \E i \in ui.shown : Becomes([ui EXCEPT !.selected = i])

\* The preview keeps the page behind it out of reach; the state of its contents is its own.
ProjectPreviewModal ==
  /\ At("showcase") /\ ui.selected # "none"
  /\ Becomes([ui EXCEPT !.toc = ~@]) \/ Becomes([ui EXCEPT !.selected = "none"])

------------------------------------------------------------------------------
(* The frame: the panel of preferences and the menu of small screens.      *)

Frame == [panel |-> FALSE, menu |-> FALSE, user |-> TRUE, leaving |-> FALSE, error |-> FALSE]

LayoutPath    == page = "layout" /\ Becomes([ui EXCEPT !.panel = FALSE, !.menu = FALSE])
LayoutPanel   == At("layout") /\ Becomes([ui EXCEPT !.panel = ~@])
LayoutMenu    == At("layout") /\ Becomes([ui EXCEPT !.menu = ~@, !.panel = FALSE])

\* A click outside closes what it is outside of; Escape closes one after the other.
LayoutOutside == /\ At("layout") /\ (ui.panel \/ ui.menu)
                 /\ \/ Becomes([ui EXCEPT !.panel = FALSE])
                    \/ Becomes([ui EXCEPT !.panel = FALSE, !.menu = FALSE])
LayoutEscape  == /\ At("layout") /\ (ui.panel \/ ui.menu)
                 /\ Becomes([ui EXCEPT !.panel = FALSE, !.menu = @ /\ ui.panel])

\* The session is left when the server says so, or says that there is none.
LayoutLogout ==
  /\ page = "layout"
  /\ \/ Free /\ ui.user /\ Becomes([ui EXCEPT !.leaving = TRUE])
     \/ ui.leaving /\ Becomes([Frame EXCEPT !.user = FALSE])
     \/ ui.leaving /\ Becomes([ui EXCEPT !.leaving = FALSE, !.error = TRUE])

------------------------------------------------------------------------------
ReaderInit ==
  \/ page = "home" /\ \E f \in {NoFilter, <<"", "t">>}, a \in 1..2 : ui = Home(a, f)
  \/ page = "search" /\ \E f \in {NoFilter, <<"w", "">>} : ui = Search(f)
  \/ page = "searchbox" /\ ui = SearchBox
  \/ page = "archive" /\ ui = Archive
  \/ page = "article" /\ \E l \in BOOLEAN : ui = [Article EXCEPT !.stored = l]
  \/ page = "showcase" /\ ui = Projects
  \/ page = "layout" /\ ui = Frame

HomeNext == HomeFetchArticles \/ HomeLanguage \/ HomeLinks \/ HomeRetry \/ HomeClear \/ HomePages
SearchNext ==
  \/ SearchFetchArticles \/ SearchSubmit \/ SearchTaxonomies \/ SearchClear \/ SearchRetry \/ SearchPages
  \/ BoxSuggestions \/ BoxType \/ BoxFocus \/ BoxSubmit \/ BoxChoose \/ removeRecent \/ BoxClearRecent
  \/ handleSearchKeyDown \/ BoxClear
ArchiveNext == collectPaginated \/ ArchiveLoadHistory \/ ArchiveLoadFilters \/ toggleExpanded \/ ArchiveRetry
ArticleNext == \/ ArticleLoaded \/ retryArticle \/ ActiveHeading \/ handleLike \/ ArticleTOC
               \/ ArticleContextBlock \/ ImageLightbox
FrameNext == \/ ProjectsLoad \/ ProjectsRetry \/ ProjectCard \/ ProjectPreviewModal
             \/ LayoutPath \/ LayoutPanel \/ LayoutMenu \/ LayoutOutside \/ LayoutEscape \/ LayoutLogout
ReaderNext == HomeNext \/ SearchNext \/ ArchiveNext \/ ArticleNext \/ FrameNext
=============================================================================
