---------------------------- MODULE WidgetReading ----------------------------
(***************************************************************************)
(* Reading reviews in the mounted widget                                    *)
(* (src/web/reviews-widget/reviews-widget.js): the list, its pages or its   *)
(* carousel, filters, the "all reviews" dialog, the media viewer over it,   *)
(* and the full feed that is paged in behind them by offset while the       *)
(* server publishes and hides reviews.                                      *)
(*                                                                          *)
(* An action is one callback of the browser with the microtasks it          *)
(* resumes, so every handler ends in render, and the answer to a request    *)
(* carries the dialog's loop on to its next request.                        *)
(***************************************************************************)
EXTENDS Naturals, FiniteSets, SequencesExt

CONSTANTS
    AllReviews,     \* reviews, numbered by their dates
    High,           \* those with the top rating
    PageSize,       \* layout.pageSize
    DialogSize,     \* 12: the cards a dialog starts with
    FeedLimit,      \* fullFeedLimit
    SourceLimit,    \* the limit of the first source's query
    Configs,        \* configurations the widget is given
    Mounts,         \* sets of reviews that may be published at the mount
    RequestsFail,   \* requests may fail
    NoView,
    MaxChanges      \* bound on what the shop, the reader and the host page change

ASSUME ReadingAssumption ==
    /\ AllReviews \subseteq Nat /\ IsFiniteSet(AllReviews) /\ High \subseteq AllReviews
    /\ PageSize \in Nat \ {0} /\ DialogSize \in Nat \ {0}
    /\ FeedLimit \in Nat \ {0} /\ SourceLimit \in Nat \ {0}
    /\ Configs \subseteq [mode : {"list", "carousel"}, pagination : {"more", "pages"},
                          action : {"inline", "dialog"}, eligible : {"all", "high"},
                          questions : BOOLEAN]
    /\ Mounts \subseteq SUBSET AllReviews
    /\ RequestsFail \in BOOLEAN /\ MaxChanges \in Nat

VARIABLES
    feed,           \* the server: published reviews, newest first
    old,            \* those it had when the widget was mounted
    hidden,         \* the server has hidden a review since
    hasFeed,        \* fullFeedSource is given
    source,         \* the first source: none, loading, loaded, failed
    incomplete,     \* sourceIncomplete, or an aggregate that counts more
    node,           \* connected to the page, removed from it, destroyed
    config,
    tab,            \* activeTab
    viewer,         \* the media viewer is open
    paused,         \* carouselPaused
    reviews,        \* rawReviews
    listing,        \* how they are listed
    screen,         \* what the list shows, and the reader's place in it
    remote,         \* the full feed
    view,           \* reviewsView: what the open dialog will restore
    changes         \* so far, of those MaxChanges bounds

server == <<feed, old, hidden>>
given == <<hasFeed, source, incomplete>>
readingVars == <<server, given, node, config, tab, viewer, paused, reviews, listing,
                screen, remote, view, changes>>

Change == changes < MaxChanges /\ changes' = changes + 1

DialogOpen == view # NoView

-----------------------------------------------------------------------------
(* Listing *)

Least(a, b) == IF a <= b THEN a ELSE b
Most(a, b) == IF a >= b THEN a ELSE b

\* eligibleReviewPool and filterReviewPool; filters stand for chips, search,
\* rating and media alike.
FilterReviewPool(pool, filters, c) ==
    {r \in pool : (c.eligible = "high" \/ "high" \in filters) => r \in High}

\* Whether a is listed before b.
Before(a, b, sort) ==
    IF sort = "highest" /\ (a \in High) # (b \in High) THEN a \in High ELSE a > b

\* Each with those before it in the pool counted off.
SortReviews(pool, sort) ==
    [n \in 1 .. Cardinality(pool) |->
        CHOOSE r \in pool : Cardinality({q \in pool : Before(q, r, sort)}) = n - 1]

\* Those of an order that are in the pool.
Remaining(order, pool) ==
    LET places == {i \in DOMAIN order : order[i] \in pool}
        nth(n) == CHOOSE i \in places : Cardinality({j \in places : j <= i}) = n
    IN  [n \in 1 .. Cardinality(places) |-> order[nth(n)]]

\* A carousel keeps the order it has shown and appends what is new.
CarouselOrder(order, pool, sort) ==
    LET kept == Remaining(order, pool)
    IN  kept \o SortReviews(pool \ Range(kept), sort)

PageCount(pool) == Most(1, (Cardinality(pool) + PageSize - 1) \div PageSize)

\* resetListingState, in the dialog or out of it.
ResetListingState(l) ==
    [l EXCEPT !.visible = IF DialogOpen THEN Most(DialogSize, PageSize) ELSE PageSize,
              !.page = 0, !.order = <<>>]

-----------------------------------------------------------------------------
(* The full feed *)

CanLoadMore(m) ==
    hasFeed /\ ~m.exhausted /\ ~m.stalled /\ source' # "loading" /\ node' = "connected"

\* loadMoreReviews up to its await.
LoadMoreReviews(m) == [m EXCEPT !.loadingMore = TRUE, !.moreError = ""]

CancelMoreReviews(m) == [m EXCEPT !.loadingMore = FALSE]

\* The loop of loadAllReviews, up to its next await: an open dialog asks for
\* one page after the other.
LoadAllReviews(m) ==
    IF CanLoadMore(m) /\ ~m.loadingMore /\ m.moreError = "" /\ ~viewer'
    THEN LoadMoreReviews(m) ELSE m

\* reviewPoolComplete: what the counters call all reviews.
ReviewPoolComplete ==
    /\ source \notin {"loading", "failed"}
    /\ IF hasFeed THEN remote.exhausted ELSE ~incomplete

-----------------------------------------------------------------------------
(* render: a handler gives it the new listing and reviews, and the screen   *)
(* as the reader left it.                                                   *)

\* The browser keeps the scroll position within what there is.
Place(position, cards) ==
    IF cards = <<>> THEN 0 ELSE Least(position, Len(cards) - 1)

RenderList(l, r, s) ==
    LET carousel == view' = NoView /\ config'.mode = "carousel"
        paged    == view' = NoView /\ ~carousel /\ config'.pagination = "pages"
        found    == FilterReviewPool(r, l.filters, config')
        order    == IF carousel THEN CarouselOrder(l.order, found, l.sort)
                                ELSE SortReviews(found, l.sort)
        page     == IF paged /\ l.page >= PageCount(found) THEN 0 ELSE l.page
        cards    == IF paged
                    THEN SubSeq(order, page * PageSize + 1,
                                Least((page + 1) * PageSize, Len(order)))
                    ELSE SubSeq(order, 1, Least(l.visible, Len(order)))
    IN  /\ reviews' = r
        /\ CASE tab' = "questions" ->
                   listing' = l /\ screen' = s
             [] tab' = "reviews" /\ source' \in {"loading", "failed"} ->
                   listing' = l /\ screen' = [s EXCEPT !.cards = <<>>, !.position = 0]
             [] OTHER ->
                   /\ listing' = [l EXCEPT !.page = page,
                                           !.order = IF carousel THEN order ELSE @]
                   /\ screen' = [cards |-> cards, found |-> found,
                                 position |-> Place(s.position, cards)]

Top(s) == [s EXCEPT !.position = 0]

\* The end of render: an open dialog that is not loading goes on, unless the
\* first source has failed.
RenderedFeed(m) ==
    IF view' # NoView /\ source' # "failed" THEN LoadAllReviews(m) ELSE m

-----------------------------------------------------------------------------
(* Mounting and the server *)

FirstReviews(n) == {feed[i] : i \in 1 .. Least(n, Len(feed))}

\* mount: without an offset of its own the feed goes on after the first
\* reviews; the loader's is 0, with reviews picked for the page.  The aggregate
\* beside them counts the whole feed.
ReadingInit ==
    /\ feed \in {SortReviews(p, "newest") : p \in Mounts}
    /\ old = Range(feed)
    /\ hidden = FALSE
    /\ hasFeed \in BOOLEAN
    /\ source \in {"none", "loading"}
    /\ node = "connected"
    /\ config \in Configs
    /\ tab = "reviews"
    /\ viewer = FALSE
    /\ paused = FALSE
    /\ reviews \in SUBSET old
    /\ \E offset \in {0, Cardinality(reviews)} :
        /\ offset > 0 => reviews = FirstReviews(offset)
        /\ remote = [offset |-> offset, seen |-> {}, exhausted |-> FALSE,
                     stalled |-> FALSE, moreError |-> "", loadingMore |-> FALSE]
    /\ incomplete = (reviews # old)
    /\ view = NoView
    /\ changes = 0
    /\ LET found == FilterReviewPool(reviews, {}, config)
           order == SortReviews(found, "newest")
           ready == source = "none"
       IN  /\ listing = [filters |-> {}, sort |-> "newest", visible |-> PageSize, page |-> 0,
                         order |-> IF ready /\ config.mode = "carousel" THEN order ELSE <<>>]
           /\ screen = [cards |-> IF ready THEN SubSeq(order, 1, Least(PageSize, Len(order)))
                                  ELSE <<>>,
                        found |-> IF ready THEN found ELSE {}, position |-> 0]

WidgetState == <<given, node, config, tab, viewer, paused, reviews, listing, screen, remote, view>>

\* The server publishes a review at the place of its date, or hides one.
Publish(r) ==
    /\ Change
    /\ \E p \in 1 .. Len(feed) + 1 :
        /\ \A i \in 1 .. Len(feed) : IF i < p THEN feed[i] > r ELSE feed[i] < r
        /\ feed' = [i \in 1 .. Len(feed) + 1 |->
                        IF i < p THEN feed[i] ELSE IF i = p THEN r ELSE feed[i - 1]]
    /\ r \notin old
    /\ UNCHANGED <<old, hidden, WidgetState>>

Hide(p) ==
    /\ Change
    /\ p \in 1 .. Len(feed) /\ ~hidden
    /\ feed' = [i \in 1 .. Len(feed) - 1 |-> IF i < p THEN feed[i] ELSE feed[i + 1]]
    /\ hidden' = TRUE
    /\ UNCHANGED <<old, WidgetState>>

\* The first source answers with the head of the feed, called partial when it
\* fills the limit of its query.
SourceAnswers(ok) ==
    /\ source = "loading" /\ node # "destroyed"
    /\ ok \/ RequestsFail
    /\ source' = IF ok THEN "loaded" ELSE "failed"
    /\ incomplete' = IF ok THEN Len(feed) >= SourceLimit ELSE incomplete
    /\ UNCHANGED <<server, hasFeed, node, config, tab, viewer, paused, view, changes>>
    /\ IF ok
       THEN /\ RenderList(listing, FirstReviews(SourceLimit), screen)
            /\ remote' = RenderedFeed([remote EXCEPT
                             !.offset = IF @ = 0 THEN 0 ELSE Least(SourceLimit, Len(feed))])
       ELSE RenderList(listing, reviews, screen) /\ remote' = remote

-----------------------------------------------------------------------------
(* The answers of the full feed *)

PageLength ==
    IF remote.offset >= Len(feed) THEN 0 ELSE Least(FeedLimit, Len(feed) - remote.offset)

Page == {feed[remote.offset + i] : i \in 1 .. PageLength}

\* Mutant: a full page that repeats the last one is taken for the end.
RepeatsEnd(repeats, full) == [exhausted |-> ~full \/ repeats, stalled |-> FALSE]

\* A short page ends the feed; a full one that only repeats pages of this
\* feed stalls it.
FeedEnds(repeats, full) == [exhausted |-> ~full, stalled |-> full /\ repeats]

\* What an answer makes of the feed; a stalled one stays where it is.
Advanced(ok) ==
    LET ends == FeedEnds(Page \subseteq remote.seen, PageLength = FeedLimit)
    IN  IF ok
        THEN [remote EXCEPT !.seen = @ \cup Page,
                            !.exhausted = ends.exhausted,
                            !.stalled = ends.stalled,
                            !.moreError = IF ends.stalled THEN "repeats" ELSE "",
                            !.offset = IF ends.stalled THEN @ ELSE @ + PageLength,
                            !.loadingMore = FALSE]
        ELSE [remote EXCEPT !.loadingMore = FALSE, !.moreError = "failed"]

\* The rest of loadMoreReviews, and of the dialog's loop around it.  A widget
\* that has left the page drops the answer.
FeedAnswers(ok) ==
    /\ remote.loadingMore
    /\ ok \/ RequestsFail
    /\ UNCHANGED <<server, given, node, config, tab, viewer, paused, view, changes>>
    /\ IF node # "connected"
       THEN remote' = CancelMoreReviews(remote) /\ UNCHANGED <<reviews, listing, screen>>
       ELSE /\ remote' = IF DialogOpen THEN LoadAllReviews(Advanced(ok)) ELSE Advanced(ok)
            /\ RenderList(IF ok /\ ~DialogOpen /\ config.mode # "carousel"
                      THEN [listing EXCEPT !.visible = @ + PageSize] ELSE listing,
                      IF ok THEN reviews \cup Page ELSE reviews, screen)

-----------------------------------------------------------------------------
(* The reader *)

Reading == node = "connected" /\ ~viewer /\ tab = "reviews"

Still == UNCHANGED <<server, given, node, config, tab>>

RemoteMore == hasFeed /\ ~remote.exhausted

Paged == ~DialogOpen /\ config.mode # "carousel" /\ config.pagination = "pages"

LocalMore == ~Paged /\ listing.visible < Cardinality(screen.found)

OpensDialog == ~DialogOpen /\ config.action = "dialog"

\* The button under the list, as render shows and enables it.
LoadMoreReady ==
    /\ source \notin {"loading", "failed"}
    /\ IF OpensDialog
       THEN screen.found # {} \/ ~ReviewPoolComplete
       ELSE LocalMore \/ (/\ RemoteMore /\ ~remote.loadingMore
                          /\ Paged => listing.page = PageCount(screen.found) - 1)

\* openAllReviews, by the button or by the link of the wall.
OpenAllReviews ==
    /\ Reading /\ OpensDialog
    /\ view' = [listing |-> listing, screen |-> screen, moreError |-> remote.moreError]
    /\ Still /\ UNCHANGED <<changes, viewer, paused>>
    /\ RenderList([listing EXCEPT !.visible = Most(DialogSize, PageSize), !.page = 0],
              reviews, Top(screen))
    /\ remote' = LoadAllReviews([CancelMoreReviews(remote) EXCEPT !.moreError = ""])

\* Mutant: the saved place goes without the carousel's order.
OrderLost(saved) == [saved.listing EXCEPT !.order = <<>>]

SavedListing(saved) == saved.listing

\* closeAllReviews: the saved cards are put back, not rendered again.
Restore(saved) ==
    /\ listing' = SavedListing(saved)
    /\ screen' = [saved.screen EXCEPT
                     !.found = FilterReviewPool(reviews, saved.listing.filters, config)]
    /\ remote' = [CancelMoreReviews(remote) EXCEPT !.moreError = saved.moreError]

CloseAllReviews ==
    /\ Reading /\ DialogOpen
    /\ view' = NoView
    /\ paused' = TRUE
    /\ Restore(view)
    /\ Still /\ UNCHANGED <<changes, viewer, reviews>>

\* Retry of a failed or stalled feed: the button, and the dialog's loop.
Retry ==
    LET m == [remote EXCEPT !.stalled = FALSE, !.moreError = "", !.seen = {}]
    IN  /\ remote.moreError # "" /\ RemoteMore
        /\ RenderList(listing, reviews, screen)
        /\ remote' = LoadMoreReviews(m)

ShowMore ==
    /\ ~(remote.moreError # "" /\ RemoteMore) /\ LocalMore
    /\ RenderList([listing EXCEPT !.visible = @ + PageSize], reviews, screen)
    /\ remote' = RenderedFeed(remote)

AskForMore ==
    /\ ~(remote.moreError # "" /\ RemoteMore) /\ ~LocalMore
    /\ CanLoadMore(remote) /\ ~remote.loadingMore
    /\ RenderList(listing, reviews, screen)
    /\ remote' = LoadMoreReviews(remote)

ClickLoadMore ==
    /\ Reading /\ LoadMoreReady /\ ~OpensDialog
    /\ Still /\ UNCHANGED <<changes, viewer, paused, view>>
    /\ Retry \/ ShowMore \/ AskForMore

\* A chip, the search, the sort or the reset button: the listing starts over.
Relist(l) ==
    /\ Change
    /\ Reading
    /\ Still /\ UNCHANGED <<viewer, view>>
    /\ paused' = FALSE
    /\ RenderList(ResetListingState(l), reviews, Top(screen))
    /\ remote' = RenderedFeed(remote)

ToggleFilter ==
    Relist([listing EXCEPT !.filters = IF @ = {} THEN {"high"} ELSE {}])

Sort == \E s \in {"newest", "highest"} : Relist([listing EXCEPT !.sort = s])

ResetFilters == Relist([listing EXCEPT !.filters = {}, !.sort = "newest"])

TurnPage(p) ==
    /\ Reading /\ Paged /\ p < PageCount(screen.found) /\ source \notin {"loading", "failed"}
    /\ Still /\ UNCHANGED <<changes, viewer, paused, view>>
    /\ RenderList([listing EXCEPT !.page = p], reviews, screen)
    /\ remote' = RenderedFeed(remote)

\* The carousel is scrolled, by a swipe or its arrows.
Scroll(p) ==
    /\ Reading /\ ~DialogOpen /\ config.mode = "carousel"
    /\ p < Len(screen.cards)
    /\ screen' = [screen EXCEPT !.position = p]
    /\ paused' = FALSE
    /\ Still /\ UNCHANGED <<changes, viewer, view, reviews, listing, remote>>

\* reveal, when the cards end near the reader: how near is up to the layout.
Reveal ==
    /\ node = "connected" /\ tab = "reviews"
    /\ ~DialogOpen /\ config.mode = "carousel" /\ ~paused
    /\ source # "loading" /\ ~remote.loadingMore
    /\ Still /\ UNCHANGED <<changes, viewer, paused, view>>
    /\ \/ /\ LocalMore
          /\ RenderList([listing EXCEPT !.visible = @ + PageSize], reviews, screen)
          /\ remote' = remote
       \/ /\ ~LocalMore
          /\ CanLoadMore(remote) /\ remote.moreError = ""
          /\ RenderList(listing, reviews, screen)
          /\ remote' = LoadMoreReviews(remote)

\* The arrow at the end of the carousel asks even after an error.
ScrollPastEnd ==
    /\ Reading /\ ~DialogOpen /\ config.mode = "carousel"
    /\ Still /\ UNCHANGED <<changes, viewer, view>>
    /\ ~remote.loadingMore /\ ~LocalMore /\ CanLoadMore(remote)
    /\ paused' = FALSE
    /\ RenderList(listing, reviews, screen)
    /\ remote' = LoadMoreReviews(remote)

\* openMediaViewer over the dialog stops its loop, closeMediaViewer resumes it.
OpenMediaViewer ==
    /\ Reading /\ screen.cards # <<>>
    /\ Still /\ UNCHANGED <<changes, paused, reviews, listing, screen, view>>
    /\ viewer' = TRUE
    /\ remote' = IF DialogOpen THEN CancelMoreReviews(remote) ELSE remote

\* Mutant: nothing resumes the loop.
ViewerCloses ==
    /\ node = "connected" /\ viewer
    /\ Still /\ UNCHANGED <<changes, paused, reviews, listing, screen, view>>
    /\ viewer' = FALSE
    /\ remote' = remote

CloseMediaViewer ==
    /\ node = "connected" /\ viewer
    /\ Still /\ UNCHANGED <<changes, paused, reviews, listing, screen, view>>
    /\ viewer' = FALSE
    /\ remote' = IF DialogOpen THEN LoadAllReviews(remote) ELSE remote

SwitchTab ==
    /\ Change
    /\ node = "connected" /\ ~viewer /\ ~DialogOpen /\ config.questions
    /\ tab' = IF tab = "reviews" THEN "questions" ELSE "reviews"
    /\ UNCHANGED <<server, given, node, config, viewer, paused, view>>
    /\ RenderList(listing, reviews, screen)
    /\ remote' = remote

-----------------------------------------------------------------------------
(* The page around the widget *)

\* handle.updateConfig: the dialog is closed, the shell built again, and the
\* viewer reopened if its media is still there.
UpdateConfig(c) ==
    LET l == [(IF DialogOpen THEN view.listing ELSE listing) EXCEPT !.order = <<>>]
    IN  /\ Change
        /\ node # "destroyed"
        /\ config' = c
        /\ tab' = IF c.questions THEN tab ELSE "reviews"
        /\ view' = NoView
        /\ viewer' \in {FALSE, viewer /\ ~DialogOpen}
        /\ paused' = FALSE
        /\ UNCHANGED <<server, given, node>>
        /\ RenderList(IF c.eligible = config.eligible THEN l
                  ELSE [l EXCEPT !.filters = {}, !.sort = "newest", !.visible = PageSize, !.page = 0],
                  reviews, [screen EXCEPT !.cards = <<>>, !.position = 0])
        /\ remote' = [CancelMoreReviews(remote) EXCEPT
                         !.moreError = IF DialogOpen THEN view.moreError ELSE @]

\* The host page drops the widget's node, as the loader's removeHost does.
LeavePage ==
    /\ Change
    /\ node = "connected"
    /\ node' = "removed"
    /\ UNCHANGED <<server, given, config, tab, viewer, paused, reviews, listing, screen,
                   remote, view>>

Destroy ==
    /\ Change
    /\ node # "destroyed"
    /\ node' = "destroyed"
    /\ view' = NoView
    /\ viewer' = FALSE
    /\ paused' = (paused \/ DialogOpen)
    /\ IF DialogOpen THEN Restore(view)
       ELSE remote' = CancelMoreReviews(remote) /\ UNCHANGED <<listing, screen>>
    /\ UNCHANGED <<server, given, config, tab, reviews>>

Server == (\E r \in AllReviews : Publish(r)) \/ (\E p \in 1 .. Len(feed) : Hide(p))

Reader ==
    \/ OpenAllReviews \/ CloseAllReviews \/ ClickLoadMore
    \/ ToggleFilter \/ Sort \/ ResetFilters
    \/ \E p \in 0 .. Cardinality(AllReviews) : TurnPage(p) \/ Scroll(p)
    \/ Reveal \/ ScrollPastEnd
    \/ OpenMediaViewer \/ CloseMediaViewer \/ SwitchTab

ReadingNext ==
    \/ Server
    \/ \E ok \in BOOLEAN : SourceAnswers(ok) \/ FeedAnswers(ok)
    \/ Reader
    \/ \E c \in Configs : UpdateConfig(c)
    \/ LeavePage \/ Destroy

\* Requests end, in an answer or an error.
ReadingFairness ==
    /\ WF_readingVars(\E ok \in BOOLEAN : SourceAnswers(ok))
    /\ WF_readingVars(\E ok \in BOOLEAN : FeedAnswers(ok))

ReadingSpec == ReadingInit /\ [][ReadingNext]_readingVars /\ ReadingFairness

-----------------------------------------------------------------------------
(* Properties *)

\* Every variable has its type.
ReadingTypeOK ==
    /\ feed \in Seq(AllReviews) /\ old \subseteq AllReviews
    /\ hidden \in BOOLEAN /\ hasFeed \in BOOLEAN /\ incomplete \in BOOLEAN
    /\ source \in {"none", "loading", "loaded", "failed"}
    /\ node \in {"connected", "removed", "destroyed"}
    /\ config \in Configs
    /\ tab \in {"reviews", "questions"}
    /\ viewer \in BOOLEAN /\ paused \in BOOLEAN
    /\ reviews \subseteq AllReviews
    /\ listing.visible \in Nat /\ listing.page \in Nat /\ listing.order \in Seq(AllReviews)
    /\ screen.cards \in Seq(AllReviews) /\ screen.position \in Nat
    /\ remote.offset \in Nat /\ remote.seen \subseteq AllReviews
    /\ remote.exhausted \in BOOLEAN /\ remote.stalled \in BOOLEAN
    /\ remote.loadingMore \in BOOLEAN
    /\ remote.moreError \in {"", "failed", "repeats"}

\* When the counters say "all reviews" instead of "loaded", every review the
\* shop had published when the page was opened is there, whatever was
\* published while the pages were counted off by offset.  A review hidden
\* meanwhile shifts them the other way: see the README.
CompleteMeansAll == ReviewPoolComplete /\ ~hidden => old \subseteq reviews

\* The reviews at hand are well typed, and all of them when they are called so.
ReadingInv == ReadingTypeOK /\ CompleteMeansAll

\* A card the reader of the carousel has scrolled to stays in its place while
\* more reviews are loaded, in the carousel or in the dialog over it.
CardsStay ==
    [][/\ ~DialogOpen /\ view' = NoView
       /\ config.mode = "carousel" /\ config'.mode = "carousel"
       /\ screen.position > 0 /\ screen'.position = screen.position
       => screen'.cards[screen.position + 1] = screen.cards[screen.position + 1]]_readingVars

\* The dialog loads until it has all, or has something to tell the reader.
DialogSettled ==
    \/ ~DialogOpen \/ viewer \/ node # "connected"
    \/ source = "failed" \/ ~hasFeed
    \/ remote.exhausted \/ remote.stalled \/ remote.moreError # ""

DialogLoadsAll == DialogOpen ~> DialogSettled

\* A feed that repeats itself is told to the reader with a button to retry
\* ("Источник повторяет уже загруженные отзывы. Повторите загрузку позже.").
StallIsTold ==
    DialogOpen /\ remote.stalled => remote.moreError # ""

\* A page that has lost the widget scrolls again: the dialog's lock on its
\* overflow went with the dialog.
PageScrolls == node = "connected" \/ ~DialogOpen

=============================================================================
