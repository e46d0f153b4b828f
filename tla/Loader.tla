------------------------------- MODULE Loader -------------------------------
(***************************************************************************)
(* The embed loader of a shop site (src/web/reviews-widget/loader.js): it   *)
(* watches the site's single-page navigation, resolves the article of the   *)
(* visited product, loads the widget's assets, configuration and data, and  *)
(* mounts the widget with its JSON-LD block.                                *)
(*                                                                          *)
(* JavaScript runs one callback at a time, so an action is one callback     *)
(* with the microtasks it resumes: a timer, a navigation, a change of the   *)
(* page by the site, or the answer to one request.  What runs between two   *)
(* callbacks of the loader is what can go wrong: the visitor has moved on.  *)
(***************************************************************************)
EXTENDS Naturals

CONSTANTS
    Pages,          \* paths of the site
    ProductPages,   \* those under CFG.productPathPrefix
    HomePages,      \* "/" and ""
    Articles,       \* normalized seller articles
    ArticleOf,      \* the article a product page sells
    ByPath,         \* product pages the crawled index knows by their path
    ByID,           \* product pages it knows by their trailing numeric id
    Anchors,        \* the anchors the site has: none, custom, tagged, details
    Signals,        \* what its pages embed: requestContext,
                    \* jsonLd, ratedJsonLd (a Product with a rating), none
    MayFail,        \* which requests may fail: assets, config, index, data
    NoPage, NoArticle, NoHost, NoConfig,
    MaxMoves        \* bound on navigations and page changes by the site

ASSUME LoaderAssumption ==
    /\ ProductPages \cup HomePages \subseteq Pages
    /\ ProductPages \cap HomePages = {}
    /\ ByPath \cup ByID \subseteq ProductPages
    /\ ArticleOf \in [ProductPages -> Articles]
    /\ Anchors \subseteq {"none", "custom", "tagged", "details"}
    /\ Signals \subseteq {"requestContext", "jsonLd", "ratedJsonLd", "none"}
    /\ MayFail \subseteq {"assets", "config", "index", "data"}
    /\ NoPage \notin Pages
    /\ NoArticle \notin Articles \cup Pages
    /\ Articles \cap Pages = {}
    /\ MaxMoves \in Nat

VARIABLES
    location,       \* location.pathname
    loadedPage,     \* the page of the hard load this script runs in
    signal,         \* what that page embeds: "requestContext", "jsonLd", "none"
    dom,            \* what the site shows: the anchor, and the page it is of
    timer,          \* debounceTimer is set
    currentPath, currentArticle, requestSeq,
    assets,         \* widgetLoading
    index,          \* linkIndexLoading
    configs,        \* widgetConfigLoading and widgetConfigs, per context
    widgetConfig,   \* the configuration render passes on
    calls,          \* handlers waiting for an answer
    host,           \* the mounted widget
    jsonLd,         \* the page whose reviews the JSON-LD block marks up
    moves,          \* navigations and page changes so far
    ahead           \* history: a handler went on for a page whose navigation
                    \* was still waiting for the debounce, and nothing since
                    \* has taken the page out of its hands

site == <<location, loadedPage, signal, dom, moves>>
caches == <<assets, index, configs, widgetConfig>>
current == <<currentPath, currentArticle, requestSeq, ahead>>
mounted == <<host, jsonLd>>
vars == <<site, timer, current, caches, calls, mounted>>

-----------------------------------------------------------------------------
(* Paths and articles *)

Contexts == {"product", "homepage"}

IsProductPath(p) == p \in ProductPages

IsHomepagePath(p) == p \in HomePages

ContextForPath(p) == IF IsProductPath(p) THEN "product" ELSE "homepage"

ShouldHandlePath(p) == IsProductPath(p) \/ IsHomepagePath(p)

\* The exact path first, then the trailing id, for a slug that changed since
\* the crawl.
ResolveArticleFromIndex(state, p) ==
    IF state = "ready" /\ p \in ByPath \cup ByID
    THEN ArticleOf[p] ELSE NoArticle

\* The document's own signals, in the loader's order: data-article of the
\* anchor, #requestContext, a JSON-LD Product of this path, the HTML of the
\* product details.  The middle two are written at the hard load and never
\* after it, and only JSON-LD is compared with the path.
DocumentProduct ==
    IF dom.anchor = "tagged" /\ IsProductPath(dom.shown) THEN dom.shown
    ELSE IF signal = "requestContext" /\ IsProductPath(loadedPage) THEN loadedPage
    ELSE IF /\ signal \in {"jsonLd", "ratedJsonLd"}
            /\ IsProductPath(loadedPage) /\ loadedPage = location THEN loadedPage
    ELSE IF dom.anchor = "details" /\ IsProductPath(dom.shown) THEN dom.shown
    ELSE NoPage

ExtractArticleFromDocument ==
    IF DocumentProduct = NoPage THEN NoArticle ELSE ArticleOf[DocumentProduct]

\* Mutant: the document's signals, stale after the first navigation, come first.
ResolveFromDocumentFirst(state, p) ==
    IF ExtractArticleFromDocument # NoArticle
    THEN ExtractArticleFromDocument ELSE ResolveArticleFromIndex(state, p)

ResolveArticle(state, p) ==
    IF ResolveArticleFromIndex(state, p) # NoArticle
    THEN ResolveArticleFromIndex(state, p) ELSE ExtractArticleFromDocument

FindAnchor == dom.anchor # "none"

-----------------------------------------------------------------------------
(* What a step does to the mounted widget *)

Mounted(page, article, context, config) ==
    [page |-> page, article |-> article, context |-> context, config |-> config]

Hosts == [page : Pages, article : Articles \cup Pages,
          context : Contexts, config : Contexts \cup {NoConfig}]

ASSUME NoHostAssumption == NoHost \notin Hosts

\* removeHost and clearRenderedWidget: the widget and its JSON-LD go together.
RemoveHost == host' = NoHost /\ jsonLd' = NoPage

IsRendered == currentArticle # NoArticle \/ host # NoHost

ClearRenderedWidget ==
    IF IsRendered
    THEN RemoveHost /\ currentArticle' = NoArticle
    ELSE UNCHANGED <<mounted, currentArticle>>

\* buildJsonLd: only rated reviews left on this site are marked up, and none
\* beside a Product of the page that has a rating of its own.
Reviews == {"ownRated", "ownUnrated", "foreign"}

BuildJsonLd(bundle) == "ownRated" \in bundle /\ signal # "ratedJsonLd"

\* render: the old widget goes first; an empty homepage and a page without an
\* anchor keep nothing.
Render(page, article, context, bundle) ==
    IF bundle = {} /\ context = "homepage"
    THEN RemoveHost /\ currentArticle' = NoArticle
    ELSE IF ~FindAnchor
    THEN RemoveHost /\ UNCHANGED currentArticle
    ELSE /\ host' = Mounted(page, article, context, widgetConfig)
         /\ jsonLd' = IF context = "product" /\ BuildJsonLd(bundle) THEN page ELSE NoPage
         /\ currentArticle' = article

\* Mutants: an observer that never schedules, and one that does after every step.
ObserverIdle(changed) == FALSE
ObserverAlways(changed) == ShouldHandlePath(location) /\ host' = NoHost

\* The MutationObserver runs after a step that changed the page's body.
ObserverSchedules(changed) ==
    changed /\ ShouldHandlePath(location) /\ host' = NoHost

HostRemoved == host # NoHost /\ host' = NoHost

-----------------------------------------------------------------------------
(* Loading *)

\* A handler that waits: for the link index ("resolving"), or, with its number
\* in requestSeq, for assets, configuration and data ("loading").  Of two that
\* wait for the index on one page only the second, newer one is kept: the first
\* is outnumbered as soon as both resume.
Resolving(path) == [stage |-> "resolving", path |-> path]

Loading(path, article, context, seq) ==
    [stage |-> "loading", path |-> path, article |-> article,
     context |-> context, seq |-> seq]

Calls ==
    [stage : {"resolving"}, path : ProductPages]
    \cup [stage : {"loading"}, path : Pages, article : Articles \cup Pages,
          context : Contexts, seq : Nat]

Waiting(stage) == {c \in calls : c.stage = stage}

\* Mutant: the loading state of the context is taken for its configuration.
ConfigStateAsConfig(context) ==
    /\ assets' = IF assets = "none" THEN "pending" ELSE assets
    /\ configs' = [configs EXCEPT ![context] = IF @ = "none" THEN "pending" ELSE @]
    /\ widgetConfig' = configs[context]

\* loadWidgetAssets and loadWidgetConfig.  A cached configuration becomes the
\* current one at once; one still loading, or failed, leaves it alone.
LoadAssetsAndConfig(context) ==
    /\ assets' = IF assets = "none" THEN "pending" ELSE assets
    /\ configs' = [configs EXCEPT ![context] = IF @ = "none" THEN "pending" ELSE @]
    /\ widgetConfig' = IF configs[context] = "ready" THEN context ELSE widgetConfig

\* The product handler once the article of the page p is known.
StartProduct(p, article, others, seq, isShown) ==
    IF article = NoArticle \/ isShown
    THEN /\ requestSeq' = seq
         /\ calls' = others
         /\ UNCHANGED <<assets, configs, widgetConfig>>
    ELSE /\ requestSeq' = seq + 1
         /\ calls' = others \cup {Loading(p, article, "product", seq + 1)}
         /\ LoadAssetsAndConfig("product")

-----------------------------------------------------------------------------
(* Callbacks *)

Init ==
    /\ location \in Pages
    /\ loadedPage = location
    /\ signal \in Signals
    /\ dom \in [anchor : Anchors, shown : {location}]
    /\ timer = TRUE                      \* start(): scheduleHandle
    /\ currentPath = NoPage
    /\ currentArticle = NoArticle
    /\ requestSeq = 0
    /\ assets = "none"
    /\ index = "none"
    /\ configs = [c \in Contexts |-> "none"]
    /\ widgetConfig = NoConfig
    /\ calls = {}
    /\ host = NoHost
    /\ jsonLd = NoPage
    /\ moves = 0
    /\ ahead = FALSE

\* history.pushState, replaceState, popstate.  Back on the page handled last
\* before the timer fired, the visit in between goes unnoticed.
Navigate(p) ==
    /\ moves < MaxMoves
    /\ p # location
    /\ location' = p
    /\ moves' = moves + 1
    /\ timer' = TRUE
    /\ UNCHANGED <<loadedPage, signal, dom, current, caches, calls, mounted>>

\* The site renders a page: the anchor, and the widget inside it, may go.
SiteRenders(anchor, keepsHost) ==
    /\ moves < MaxMoves
    /\ keepsHost => anchor = dom.anchor
    /\ dom' = [anchor |-> anchor, shown |-> location]
    /\ dom' # dom \/ ~keepsHost
    /\ moves' = moves + 1
    /\ host' = IF keepsHost THEN host ELSE NoHost
    /\ timer' = (timer \/ ObserverSchedules(TRUE))
    /\ UNCHANGED <<location, loadedPage, signal, current, caches, calls, jsonLd>>

\* handleNavigation on a path the widget does not handle.
LeaveHandledPages ==
    /\ timer
    /\ ~ShouldHandlePath(location)
    /\ timer' = FALSE
    /\ currentPath' = location
    /\ ClearRenderedWidget
    /\ UNCHANGED <<site, requestSeq, ahead, caches, calls>>

\* handleNavigation on a homepage: renderHomepage.
HandleHomepage ==
    /\ timer
    /\ IsHomepagePath(location)
    /\ LET moved == currentPath # location
           seq   == IF moved THEN requestSeq + 1 ELSE requestSeq
           shown == ~moved /\ currentArticle = location /\ host # NoHost
       IN  /\ currentPath' = location
           /\ ahead' = (ahead /\ ~moved)
           /\ IF moved THEN RemoveHost /\ currentArticle' = NoArticle
                       ELSE UNCHANGED <<mounted, currentArticle>>
           /\ IF shown
              THEN /\ requestSeq' = seq
                   /\ UNCHANGED <<calls, assets, configs, widgetConfig>>
              ELSE /\ requestSeq' = seq + 1
                   /\ calls' = calls \cup {Loading(location, location, "homepage", seq + 1)}
                   /\ LoadAssetsAndConfig("homepage")
    /\ timer' = ObserverSchedules(HostRemoved)
    /\ UNCHANGED <<site, index>>

\* handleNavigation on a product page: the index is loaded once, and a handler
\* that finds it loaded goes on at once.
HandleProduct ==
    /\ timer
    /\ IsProductPath(location)
    /\ LET moved   == currentPath # location
           seq     == IF moved THEN requestSeq + 1 ELSE requestSeq
           article == ResolveArticle(index, location)
           isShown == ~moved /\ currentArticle = article /\ host # NoHost
       IN  /\ currentPath' = location
           /\ ahead' = (ahead /\ ~moved)
           /\ IF moved THEN RemoveHost /\ currentArticle' = NoArticle
                       ELSE UNCHANGED <<mounted, currentArticle>>
           /\ IF index \in {"ready", "failed"}
              THEN StartProduct(location, article, calls, seq, isShown) /\ UNCHANGED index
              ELSE /\ index' = "pending"
                   /\ calls' = calls \cup {Resolving(location)}
                   /\ requestSeq' = seq
                   /\ UNCHANGED <<assets, configs, widgetConfig>>
    /\ timer' = ObserverSchedules(HostRemoved)
    /\ UNCHANGED site

\* links.json answers: every handler that waited for it resumes, and those of
\* a page the visitor has left give up.
IndexAnswers(ok) ==
    /\ index = "pending"
    /\ ok \/ "index" \in MayFail
    /\ index' = IF ok THEN "ready" ELSE "failed"
    /\ LET article == ResolveArticle(index', location)
       IN  IF Resolving(location) \in calls
           THEN StartProduct(location, article, Waiting("loading"), requestSeq,
                             currentArticle = article /\ host # NoHost)
           ELSE /\ calls' = Waiting("loading")
                /\ UNCHANGED <<requestSeq, assets, configs, widgetConfig>>
    /\ ahead' = (ahead \/ (requestSeq' # requestSeq /\ location # currentPath))
    /\ UNCHANGED <<site, timer, currentPath, currentArticle, mounted>>

\* The widget's script and style sheet.  A failure is not kept: it ends the
\* handlers that wait, and the next one loads the assets again.
AssetsAnswer(ok) ==
    /\ assets = "pending"
    /\ ok \/ "assets" \in MayFail
    /\ assets' = IF ok THEN "ready" ELSE "none"
    /\ IF ok
       THEN UNCHANGED <<calls, mounted, currentArticle>>
       ELSE /\ calls' = Waiting("resolving")
            /\ IF \E c \in Waiting("loading") : c.context = "homepage" /\ c.seq = requestSeq
               THEN ClearRenderedWidget
               ELSE UNCHANGED <<mounted, currentArticle>>
    /\ timer' = (timer \/ ObserverSchedules(HostRemoved))
    /\ UNCHANGED <<site, currentPath, requestSeq, ahead, index, configs, widgetConfig>>

\* /api/widget-config?context=: the answer becomes the current configuration
\* whichever page is shown by then, a failure leaves none.
ConfigAnswers(context, ok) ==
    /\ configs[context] = "pending"
    /\ ok \/ "config" \in MayFail
    /\ configs' = [configs EXCEPT ![context] = IF ok THEN "ready" ELSE "failed"]
    /\ widgetConfig' = IF ok THEN context ELSE NoConfig
    /\ UNCHANGED <<site, timer, current, assets, index, calls, mounted>>

HasAssetsAndConfig(c) ==
    c.stage = "loading" /\ assets = "ready" /\ configs[c.context] # "pending"

\* Mutant: whichever bundle answers is rendered.
AnyBundleRenders(c, ok, bundle) ==
    /\ HasAssetsAndConfig(c) /\ c.context = "product"
    /\ calls' = calls \ {c}
    /\ Render(c.path, c.article, "product", bundle)
    /\ timer' = (timer \/ ObserverSchedules(HostRemoved))
    /\ UNCHANGED <<site, currentPath, requestSeq, ahead, caches>>

\* The data of a product (by-article bundle): a failed load renders the empty
\* product.  Only the newest request renders.
BundleAnswers(c, ok, bundle) ==
    /\ HasAssetsAndConfig(c) /\ c.context = "product"
    /\ ok \/ ("data" \in MayFail /\ bundle = {})
    /\ calls' = calls \ {c}
    /\ IF c.seq = requestSeq
       THEN Render(c.path, c.article, "product", bundle)
       ELSE UNCHANGED <<mounted, currentArticle>>
    /\ timer' = (timer \/ ObserverSchedules(HostRemoved))
    /\ UNCHANGED <<site, currentPath, requestSeq, ahead, caches>>

\* The data of a homepage (/api/showcase): the newest request renders if the
\* visitor is still there, and a failure clears what is shown.
ShowcaseAnswers(c, ok, bundle) ==
    /\ HasAssetsAndConfig(c) /\ c.context = "homepage"
    /\ ok \/ ("data" \in MayFail /\ bundle = {})
    /\ calls' = calls \ {c}
    /\ IF c.seq # requestSeq \/ (ok /\ location # c.path)
       THEN UNCHANGED <<mounted, currentArticle>>
       ELSE IF ok
       THEN Render(c.path, c.article, "homepage", bundle)
       ELSE ClearRenderedWidget
    /\ timer' = (timer \/ ObserverSchedules(HostRemoved))
    /\ UNCHANGED <<site, currentPath, requestSeq, ahead, caches>>

DataAnswers ==
    \E c \in calls, ok \in BOOLEAN, bundle \in SUBSET Reviews :
        BundleAnswers(c, ok, bundle) \/ ShowcaseAnswers(c, ok, bundle)

Site ==
    \/ \E p \in Pages : Navigate(p)
    \/ \E a \in Anchors, keeps \in BOOLEAN : SiteRenders(a, keeps)

HandleNavigation == LeaveHandledPages \/ HandleHomepage \/ HandleProduct

Next ==
    \/ Site
    \/ HandleNavigation
    \/ \E ok \in BOOLEAN : IndexAnswers(ok) \/ AssetsAnswer(ok)
    \/ \E c \in Contexts, ok \in BOOLEAN : ConfigAnswers(c, ok)
    \/ DataAnswers

\* Timers fire and requests end, in an answer or an error.
Fairness ==
    /\ WF_vars(HandleNavigation)
    /\ WF_vars(\E ok \in BOOLEAN : IndexAnswers(ok))
    /\ WF_vars(\E ok \in BOOLEAN : AssetsAnswer(ok))
    /\ \A c \in Contexts : WF_vars(\E ok \in BOOLEAN : ConfigAnswers(c, ok))
    /\ WF_vars(DataAnswers)

Spec == Init /\ [][Next]_vars /\ Fairness

-----------------------------------------------------------------------------
(* Properties *)

\* Every variable has its type.
TypeOK ==
    /\ location \in Pages /\ loadedPage \in Pages
    /\ signal \in Signals
    /\ dom \in [anchor : Anchors, shown : Pages]
    /\ timer \in BOOLEAN
    /\ currentPath \in Pages \cup {NoPage}
    /\ currentArticle \in Articles \cup Pages \cup {NoArticle}
    /\ requestSeq \in Nat
    /\ assets \in {"none", "pending", "ready"}
    /\ index \in {"none", "pending", "ready", "failed"}
    /\ configs \in [Contexts -> {"none", "pending", "ready", "failed"}]
    /\ widgetConfig \in Contexts \cup {NoConfig}
    /\ calls \subseteq Calls
    /\ host \in {NoHost} \cup Hosts
    /\ jsonLd \in Pages \cup {NoPage}
    /\ moves \in 0..MaxMoves
    /\ ahead \in BOOLEAN

\* When no navigation waits for the debounce, a page the widget handles shows
\* its own widget and JSON-LD block or none, whatever answers of earlier pages
\* arrive late or out of order (requestSeq, pathAtCall, removeHost) and however
\* the visitor comes and goes within the debounce.  The one exception of the
\* code: a handler that resumed on a page the loader had not yet been told of
\* has the newest number, and keeps it if the visitor comes back in time.
ShownIsCurrent ==
    ~timer /\ ShouldHandlePath(location) /\ ~ahead =>
        /\ host # NoHost => host.page = location
        /\ jsonLd \in {NoPage, location}

\* A product the link index knows is shown with its own article, although the
\* document still carries the article of the page that was loaded first.
IndexedArticleShown ==
    index = "ready" /\ host # NoHost /\ host.context = "product"
    /\ host.page \in ByPath \cup ByID
        => host.article = ArticleOf[host.page]

\* Nothing the loader waits for is left.
Settled == ~timer /\ calls = {}

\* No visit is forgotten: at rest on a product page whose article can be told
\* and that has an anchor, the widget is mounted, however the site removed and
\* rendered the anchor (MutationObserver, debounce), unless the assets failed.
NothingForgotten ==
    Settled /\ IsProductPath(location) /\ ResolveArticle(index, location) # NoArticle
    /\ FindAnchor /\ assets = "ready"
        => host # NoHost

\* A widget is mounted with the configuration of its own context, or with none
\* ("separate settings for the product and the home page").
ConfigOfContext ==
    host # NoHost => host.config \in {host.context, NoConfig}

\* The loader comes to rest: its own changes to the page, which its observer
\* sees, do not make it handle the same page for ever.
Rests == <>[]Settled

=============================================================================
