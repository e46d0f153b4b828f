---------------------------- MODULE Embed_proofs ----------------------------
(***************************************************************************)
(* Theorems about what runs on the page of the shop, for every value of   *)
(* the constants and every bound: the loader that mounts the widget       *)
(* (Loader), then reading reviews in it (WidgetReading).                  *)
(***************************************************************************)
EXTENDS Loader, WidgetReading, FiniteSetTheorems, SequenceTheorems, WellFoundedInduction, TLAPS

-----------------------------------------------------------------------------
(* Type correctness, by the groups of variables the steps leave alone.     *)

SiteOK ==
    /\ location \in Pages /\ loadedPage \in Pages
    /\ signal \in Signals
    /\ dom \in [anchor : Anchors, shown : Pages]
    /\ moves \in 0..MaxMoves

CurrentOK ==
    /\ currentPath \in Pages \cup {NoPage}
    /\ currentArticle \in Articles \cup Pages \cup {NoArticle}
    /\ requestSeq \in Nat
    /\ ahead \in BOOLEAN

CachesOK ==
    /\ assets \in {"none", "pending", "ready"}
    /\ index \in {"none", "pending", "ready", "failed"}
    /\ configs \in [Contexts -> {"none", "pending", "ready", "failed"}]
    /\ widgetConfig \in Contexts \cup {NoConfig}

CallsOK == calls \subseteq Calls

MountedOK == host \in {NoHost} \cup Hosts /\ jsonLd \in Pages \cup {NoPage}

LEMMA TypeParts ==
    TypeOK <=> SiteOK /\ CurrentOK /\ CachesOK /\ CallsOK /\ MountedOK /\ timer \in BOOLEAN
BY DEF TypeOK, SiteOK, CurrentOK, CachesOK, CallsOK, MountedOK

LEMMA TypePartsAfter ==
    SiteOK' /\ CurrentOK' /\ CachesOK' /\ CallsOK' /\ MountedOK' /\ timer' \in BOOLEAN
        => TypeOK'
BY DEF TypeOK, SiteOK, CurrentOK, CachesOK, CallsOK, MountedOK

LEMMA SiteStill == SiteOK /\ UNCHANGED site => SiteOK'
BY DEF SiteOK, site

LEMMA CachesStill == CachesOK /\ UNCHANGED caches => CachesOK'
BY DEF CachesOK, caches

LEMMA MountedStill == MountedOK /\ UNCHANGED mounted => MountedOK'
BY DEF MountedOK, mounted

LEMMA Handled ==
    ASSUME NEW p \in Pages
    PROVE  /\ IsProductPath(p) => p \in ProductPages
           /\ IsHomepagePath(p) => p \in HomePages
BY DEF IsProductPath, IsHomepagePath

LEMMA DocumentArticle ==
    ASSUME SiteOK
    PROVE  ExtractArticleFromDocument \in Articles \cup {NoArticle}
<1>1. DocumentProduct \in ProductPages \cup {NoPage}
  BY DEF DocumentProduct, IsProductPath
<1> QED
  BY <1>1, LoaderAssumption DEF ExtractArticleFromDocument

LEMMA ResolvedArticle ==
    ASSUME SiteOK, NEW state, NEW p
    PROVE  ResolveArticle(state, p) \in Articles \cup {NoArticle}
<1>1. ResolveArticleFromIndex(state, p) \in Articles \cup {NoArticle}
  BY LoaderAssumption DEF ResolveArticleFromIndex
<1> QED
  BY <1>1, DocumentArticle DEF ResolveArticle

\* What the parts of a handler keep of the types.
LEMMA ClearedType ==
    ASSUME MountedOK, CurrentOK, ClearRenderedWidget
    PROVE  MountedOK' /\ currentArticle' \in Articles \cup Pages \cup {NoArticle}
BY DEF MountedOK, CurrentOK, ClearRenderedWidget, RemoveHost, mounted

LEMMA RenderedType ==
    ASSUME MountedOK, CurrentOK, CachesOK, NEW p \in Pages, NEW a \in Articles \cup Pages,
           NEW c \in Contexts, NEW b, Render(p, a, c, b)
    PROVE  MountedOK' /\ currentArticle' \in Articles \cup Pages \cup {NoArticle}
BY DEF MountedOK, CurrentOK, CachesOK, Render, RemoveHost, Mounted, Hosts

LEMMA LoadedType ==
    ASSUME CachesOK, NEW c \in Contexts, LoadAssetsAndConfig(c), index' = index
    PROVE  CachesOK'
BY DEF CachesOK, LoadAssetsAndConfig

LEMMA LoadingCall ==
    ASSUME NEW p \in Pages, NEW a \in Articles \cup Pages, NEW c \in Contexts, NEW n \in Nat
    PROVE  Loading(p, a, c, n) \in Calls
BY DEF Loading, Calls

LEMMA CallParts ==
    ASSUME CallsOK, NEW c \in calls, c.stage = "loading"
    PROVE  /\ c.path \in Pages /\ c.article \in Articles \cup Pages
           /\ c.context \in Contexts /\ c.seq \in Nat
<1>1. c \in [stage : {"loading"}, path : Pages, article : Articles \cup Pages,
             context : Contexts, seq : Nat]
  BY DEF CallsOK, Calls
<1> QED BY <1>1

LEMMA StartedType ==
    ASSUME CachesOK, CallsOK, NEW p \in Pages, NEW a \in Articles \cup {NoArticle},
           NEW others, others \subseteq calls, NEW seq \in Nat, NEW shown \in BOOLEAN,
           StartProduct(p, a, others, seq, shown), index' \in {"none", "pending", "ready", "failed"}
    PROVE  CachesOK' /\ CallsOK' /\ requestSeq' \in Nat
<1>1. CASE a = NoArticle \/ shown
  BY <1>1 DEF StartProduct, CachesOK, CallsOK
<1>2. CASE ~(a = NoArticle \/ shown)
  <2>1. /\ requestSeq' = seq + 1
        /\ calls' = others \cup {Loading(p, a, "product", seq + 1)}
        /\ LoadAssetsAndConfig("product")
    BY <1>2 DEF StartProduct
  <2>2. Loading(p, a, "product", seq + 1) \in Calls
    BY <1>2, LoadingCall DEF Contexts
  <2>3. CachesOK'
    BY <2>1 DEF CachesOK, LoadAssetsAndConfig, Contexts
  <2> QED BY <2>1, <2>2, <2>3 DEF CallsOK
<1> QED BY <1>1, <1>2

LEMMA TypeInit == Init => TypeOK
<1> SUFFICES ASSUME Init PROVE TypeOK
  OBVIOUS
<1>1. 0 \in 0..MaxMoves
  BY LoaderAssumption
<1>2. SiteOK /\ CurrentOK /\ CachesOK /\ CallsOK /\ MountedOK /\ timer \in BOOLEAN
  BY <1>1 DEF Init, SiteOK, CurrentOK, CachesOK, CallsOK, MountedOK
<1> QED BY <1>2, TypeParts

LEMMA SiteType ==
    ASSUME TypeOK, Site PROVE TypeOK'
<1> USE DEF Site
<1>0. SiteOK /\ CurrentOK /\ CachesOK /\ CallsOK /\ MountedOK /\ timer \in BOOLEAN
  BY TypeParts
<1>1. ASSUME NEW p \in Pages, Navigate(p) PROVE TypeOK'
  <2>1. moves + 1 \in 0..MaxMoves
    BY <1>0, <1>1, LoaderAssumption DEF SiteOK, Navigate
  <2>2. SiteOK'
    BY <1>0, <1>1, <2>1 DEF SiteOK, Navigate
  <2>3. CurrentOK' /\ CachesOK' /\ CallsOK' /\ MountedOK' /\ timer' \in BOOLEAN
    BY <1>0, <1>1 DEF Navigate, CurrentOK, current, CachesOK, caches, CallsOK, MountedOK, mounted
  <2> QED BY <2>2, <2>3, TypePartsAfter
<1>2. ASSUME NEW a \in Anchors, NEW k \in BOOLEAN, SiteRenders(a, k) PROVE TypeOK'
  <2>1. moves + 1 \in 0..MaxMoves
    BY <1>0, <1>2, LoaderAssumption DEF SiteOK, SiteRenders
  <2>2. SiteOK'
    BY <1>0, <1>2, <2>1 DEF SiteOK, SiteRenders
  <2>3. CurrentOK' /\ CachesOK' /\ CallsOK' /\ MountedOK'
    BY <1>0, <1>2 DEF SiteRenders, CurrentOK, current, CachesOK, caches, CallsOK, MountedOK
  <2>4. timer' \in BOOLEAN
    BY <1>0, <1>2 DEF SiteRenders, ObserverSchedules, ShouldHandlePath, IsProductPath, IsHomepagePath
  <2> QED BY <2>2, <2>3, <2>4, TypePartsAfter
<1> QED BY <1>1, <1>2

LEMMA HandleType ==
    ASSUME TypeOK, HandleNavigation PROVE TypeOK'
<1>0. SiteOK /\ CurrentOK /\ CachesOK /\ CallsOK /\ MountedOK /\ timer \in BOOLEAN
  BY TypeParts
<1>1. CASE LeaveHandledPages
  <2>1. SiteOK' /\ CachesOK' /\ CallsOK' /\ timer' \in BOOLEAN
    BY <1>0, <1>1, SiteStill, CachesStill DEF LeaveHandledPages, CallsOK
  <2>2. MountedOK' /\ currentArticle' \in Articles \cup Pages \cup {NoArticle}
    BY <1>0, <1>1, ClearedType DEF LeaveHandledPages
  <2>3. CurrentOK'
    BY <1>0, <1>1, <2>2 DEF LeaveHandledPages, CurrentOK, SiteOK
  <2> QED BY <2>1, <2>2, <2>3, TypePartsAfter
<1>2. CASE HandleHomepage
  <2> DEFINE moved == currentPath # location
             seq   == IF moved THEN requestSeq + 1 ELSE requestSeq
             shown == ~moved /\ currentArticle = location /\ host # NoHost
  <2>1. /\ UNCHANGED site /\ index' = index /\ currentPath' = location
        /\ timer' = ObserverSchedules(HostRemoved)
        /\ IF moved THEN RemoveHost /\ currentArticle' = NoArticle
                    ELSE UNCHANGED <<mounted, currentArticle>>
        /\ IF shown
           THEN /\ requestSeq' = seq
                /\ UNCHANGED <<calls, assets, configs, widgetConfig>>
           ELSE /\ requestSeq' = seq + 1
                /\ calls' = calls \cup {Loading(location, location, "homepage", seq + 1)}
                /\ LoadAssetsAndConfig("homepage")
    BY <1>2 DEF HandleHomepage
  <2>2. seq \in Nat /\ location \in Pages
    BY <1>0 DEF CurrentOK, SiteOK
  <2>3. MountedOK' /\ currentArticle' \in Articles \cup Pages \cup {NoArticle}
    BY <1>0, <2>1 DEF MountedOK, CurrentOK, RemoveHost, mounted
  <2>4. Loading(location, location, "homepage", seq + 1) \in Calls
    BY <2>2, LoadingCall DEF Contexts
  <2>5. CachesOK'
    <3>1. CASE shown
      BY <1>0, <2>1, <3>1 DEF CachesOK
    <3>2. CASE ~shown
      BY <1>0, <2>1, <3>2, LoadedType DEF Contexts
    <3> QED BY <3>1, <3>2
  <2>6. CallsOK' /\ requestSeq' \in Nat
    <3> HIDE DEF seq, shown
    <3> QED BY <1>0, <2>1, <2>2, <2>4 DEF CallsOK
  <2>7. SiteOK' /\ CurrentOK'
    <3>1. ahead' \in BOOLEAN
      BY <1>2 DEF HandleHomepage
    <3> QED BY <1>0, <2>1, <2>2, <2>3, <2>6, <3>1, SiteStill DEF CurrentOK
  <2>8. timer' \in BOOLEAN
    BY <2>1 DEF ObserverSchedules, HostRemoved
  <2> QED BY <2>3, <2>5, <2>6, <2>7, <2>8, TypePartsAfter
<1>3. CASE HandleProduct
  <2> DEFINE moved   == currentPath # location
             seq     == IF moved THEN requestSeq + 1 ELSE requestSeq
             article == ResolveArticle(index, location)
             isShown == ~moved /\ currentArticle = article /\ host # NoHost
  <2>1. /\ UNCHANGED site /\ currentPath' = location
        /\ timer' = ObserverSchedules(HostRemoved)
        /\ IF moved THEN RemoveHost /\ currentArticle' = NoArticle
                    ELSE UNCHANGED <<mounted, currentArticle>>
        /\ IF index \in {"ready", "failed"}
           THEN StartProduct(location, article, calls, seq, isShown) /\ UNCHANGED index
           ELSE /\ index' = "pending"
                /\ calls' = calls \cup {Resolving(location)}
                /\ requestSeq' = seq
                /\ UNCHANGED <<assets, configs, widgetConfig>>
    BY <1>3 DEF HandleProduct
  <2>2. seq \in Nat /\ location \in Pages
    BY <1>0 DEF CurrentOK, SiteOK
  <2>3. MountedOK' /\ currentArticle' \in Articles \cup Pages \cup {NoArticle}
    BY <1>0, <2>1 DEF MountedOK, CurrentOK, RemoveHost, mounted
  <2>4. CachesOK' /\ CallsOK' /\ requestSeq' \in Nat
    <3>1. CASE index \in {"ready", "failed"}
      <4>1. article \in Articles \cup {NoArticle} /\ isShown \in BOOLEAN
        BY <1>0, ResolvedArticle
      <4>2. StartProduct(location, article, calls, seq, isShown) /\ index' \in {"none", "pending", "ready", "failed"}
        BY <1>0, <2>1, <3>1 DEF CachesOK
      <4> HIDE DEF article, isShown, seq
      <4> QED BY <1>0, <2>2, <4>1, <4>2, StartedType
    <3>2. CASE index \notin {"ready", "failed"}
      <4>1. Resolving(location) \in Calls
        BY <1>3 DEF HandleProduct, IsProductPath, Resolving, Calls
      <4>2. CachesOK'
        BY <1>0, <2>1, <3>2 DEF CachesOK
      <4>3. CallsOK' /\ requestSeq' \in Nat
        <5> HIDE DEF seq
        <5> QED BY <1>0, <2>1, <2>2, <3>2, <4>1 DEF CallsOK
      <4> QED BY <4>2, <4>3
    <3> QED BY <3>1, <3>2
  <2>5. SiteOK' /\ CurrentOK'
    <3>1. ahead' \in BOOLEAN
      BY <1>3 DEF HandleProduct
    <3> QED BY <1>0, <2>1, <2>2, <2>3, <2>4, <3>1, SiteStill DEF CurrentOK
  <2>6. timer' \in BOOLEAN
    BY <2>1 DEF ObserverSchedules, HostRemoved
  <2> QED BY <2>3, <2>4, <2>5, <2>6, TypePartsAfter
<1> QED BY <1>1, <1>2, <1>3 DEF HandleNavigation

LEMMA AnswerType ==
    ASSUME TypeOK, NEW ok \in BOOLEAN,
           IndexAnswers(ok) \/ AssetsAnswer(ok) \/ \E c \in Contexts : ConfigAnswers(c, ok)
    PROVE  TypeOK'
<1>0. SiteOK /\ CurrentOK /\ CachesOK /\ CallsOK /\ MountedOK /\ timer \in BOOLEAN
  BY TypeParts
<1>1. CASE IndexAnswers(ok)
  <2> DEFINE article == ResolveArticle(index', location)
             shown == currentArticle = article /\ host # NoHost
  <2>1. /\ UNCHANGED <<site, timer, currentPath, currentArticle, mounted>>
        /\ index' \in {"none", "pending", "ready", "failed"}
        /\ IF Resolving(location) \in calls
           THEN StartProduct(location, article, Waiting("loading"), requestSeq, shown)
           ELSE /\ calls' = Waiting("loading")
                /\ UNCHANGED <<requestSeq, assets, configs, widgetConfig>>
    BY <1>1 DEF IndexAnswers
  <2>2. CachesOK' /\ CallsOK' /\ requestSeq' \in Nat
    <3>1. CASE Resolving(location) \in calls
      <4>1. article \in Articles \cup {NoArticle} /\ shown \in BOOLEAN
        BY <1>0, ResolvedArticle
      <4>2. Waiting("loading") \subseteq calls /\ location \in Pages /\ requestSeq \in Nat
        BY <1>0 DEF Waiting, SiteOK, CurrentOK
      <4>3. StartProduct(location, article, Waiting("loading"), requestSeq, shown)
        BY <2>1, <3>1
      <4> HIDE DEF article, shown
      <4> QED BY <1>0, <2>1, <4>1, <4>2, <4>3, StartedType
    <3>2. CASE Resolving(location) \notin calls
      BY <1>0, <2>1, <3>2 DEF CachesOK, CallsOK, CurrentOK, Waiting
    <3> QED BY <3>1, <3>2
  <2>3. SiteOK' /\ CurrentOK' /\ MountedOK' /\ timer' \in BOOLEAN
    <3>1. ahead' \in BOOLEAN
      BY <1>1 DEF IndexAnswers
    <3> QED BY <1>0, <2>1, <2>2, <3>1, SiteStill, MountedStill DEF CurrentOK
  <2> QED BY <2>2, <2>3, TypePartsAfter
<1>2. CASE AssetsAnswer(ok)
  <2>1. CallsOK' /\ MountedOK' /\ currentArticle' \in Articles \cup Pages \cup {NoArticle}
    <3>1. CASE ok
      BY <1>0, <1>2, <3>1, MountedStill DEF AssetsAnswer, CallsOK, CurrentOK
    <3>2. CASE ~ok
      <4>1. CallsOK'
        BY <1>0, <1>2, <3>2 DEF AssetsAnswer, CallsOK, Waiting
      <4>2. ClearRenderedWidget \/ UNCHANGED <<mounted, currentArticle>>
        BY <1>2, <3>2 DEF AssetsAnswer
      <4> QED BY <1>0, <4>1, <4>2, ClearedType, MountedStill DEF CurrentOK
    <3> QED BY <3>1, <3>2
  <2>2. SiteOK' /\ CurrentOK' /\ CachesOK'
    BY <1>0, <1>2, <2>1, SiteStill DEF AssetsAnswer, CurrentOK, CachesOK
  <2>3. timer' \in BOOLEAN
    BY <1>0, <1>2 DEF AssetsAnswer, ObserverSchedules, HostRemoved
  <2> QED BY <2>1, <2>2, <2>3, TypePartsAfter
<1>3. ASSUME NEW c \in Contexts, ConfigAnswers(c, ok) PROVE TypeOK'
  <2>1. SiteOK' /\ MountedOK' /\ CallsOK' /\ CurrentOK' /\ timer' \in BOOLEAN
    BY <1>0, <1>3, SiteStill, MountedStill DEF ConfigAnswers, CallsOK, CurrentOK, current
  <2>2. CachesOK'
    BY <1>0, <1>3 DEF ConfigAnswers, CachesOK
  <2> QED BY <2>1, <2>2, TypePartsAfter
<1> QED BY <1>1, <1>2, <1>3

LEMMA DataType ==
    ASSUME TypeOK, DataAnswers PROVE TypeOK'
<1>0. SiteOK /\ CurrentOK /\ CachesOK /\ CallsOK /\ MountedOK /\ timer \in BOOLEAN
  BY TypeParts
<1>1. PICK c \in calls, ok \in BOOLEAN, bundle \in SUBSET Reviews :
        BundleAnswers(c, ok, bundle) \/ ShowcaseAnswers(c, ok, bundle)
  BY DEF DataAnswers
<1>2. c.stage = "loading"
  BY <1>1 DEF BundleAnswers, ShowcaseAnswers, HasAssetsAndConfig
<1>3. /\ calls' = calls \ {c}
      /\ timer' = (timer \/ ObserverSchedules(HostRemoved))
      /\ UNCHANGED <<site, currentPath, requestSeq, ahead, caches>>
      /\ \/ \E k \in Contexts : Render(c.path, c.article, k, bundle)
         \/ ClearRenderedWidget
         \/ UNCHANGED <<mounted, currentArticle>>
  BY <1>1 DEF BundleAnswers, ShowcaseAnswers, Contexts
<1>4. MountedOK' /\ currentArticle' \in Articles \cup Pages \cup {NoArticle}
  BY <1>0, <1>2, <1>3, CallParts, RenderedType, ClearedType, MountedStill DEF CurrentOK
<1>5. SiteOK' /\ CachesOK' /\ CallsOK' /\ CurrentOK'
  BY <1>0, <1>3, <1>4, SiteStill, CachesStill DEF CallsOK, CurrentOK
<1>6. timer' \in BOOLEAN
  BY <1>0, <1>3 DEF ObserverSchedules, HostRemoved
<1> QED BY <1>4, <1>5, <1>6, TypePartsAfter

LEMMA TypeStep == TypeOK /\ [Next]_vars => TypeOK'
<1> SUFFICES ASSUME TypeOK, [Next]_vars PROVE TypeOK'
  OBVIOUS
<1>1. CASE UNCHANGED vars
  BY <1>1 DEF TypeOK, vars, site, current, caches, mounted
<1> QED
  BY <1>1, SiteType, HandleType, AnswerType, DataType DEF Next

\* The loader's variables keep their types on every site.
THEOREM TypeCorrect == Spec => []TypeOK
BY TypeInit, TypeStep, PTL DEF Spec

-----------------------------------------------------------------------------
(* A product the index knows keeps its own article from the handler's start *)
(* to the mounted widget: no product is being loaded before the index has   *)
(* answered, and every one after it was resolved by the index first.        *)

RightArticle(page, article) ==
    page \in ByPath \cup ByID => article = ArticleOf[page]

LoadingProducts == {c \in calls : c.stage = "loading" /\ c.context = "product"}

IndexInv ==
    /\ index \in {"none", "pending"} => LoadingProducts = {}
    /\ index = "ready" => \A c \in LoadingProducts : RightArticle(c.path, c.article)
    /\ host # NoHost /\ host.context = "product" =>
         /\ index \in {"ready", "failed"}
         /\ index = "ready" => RightArticle(host.page, host.article)

LEMMA IndexInvImplies == IndexInv => IndexedArticleShown
BY DEF IndexInv, IndexedArticleShown, RightArticle

LEMMA IndexFirst ==
    ASSUME NEW p
    PROVE  ResolveArticle("ready", p) = NoArticle \/ RightArticle(p, ResolveArticle("ready", p))
BY LoaderAssumption DEF ResolveArticle, ResolveArticleFromIndex, RightArticle

\* What the parts of a handler keep of the invariant.
HostInv ==
    host # NoHost /\ host.context = "product" =>
         /\ index \in {"ready", "failed"}
         /\ index = "ready" => RightArticle(host.page, host.article)

LEMMA HostStill ==
    ASSUME HostInv, index' = index, host' \in {host, NoHost}
    PROVE  HostInv'
BY DEF HostInv, RightArticle

LEMMA ClearedKeeps == ClearRenderedWidget => host' \in {host, NoHost}
BY DEF ClearRenderedWidget, RemoveHost, mounted

LEMMA RenderedInv ==
    ASSUME HostInv, index' = index, NEW p, NEW a, NEW c, NEW b, Render(p, a, c, b),
           c = "product" => index \in {"ready", "failed"} /\ (index = "ready" => RightArticle(p, a))
    PROVE  HostInv'
<1>1. \/ host' = NoHost
      \/ host' = [page |-> p, article |-> a, context |-> c, config |-> widgetConfig]
  BY DEF Render, RemoveHost, Mounted
<1> QED BY <1>1 DEF HostInv, RightArticle

CallsInv ==
    /\ index \in {"none", "pending"} => LoadingProducts = {}
    /\ index = "ready" => \A c \in LoadingProducts : RightArticle(c.path, c.article)

LEMMA FewerCalls ==
    ASSUME CallsInv, index' = index, calls' \subseteq calls
    PROVE  CallsInv'
BY DEF CallsInv, LoadingProducts, RightArticle

\* The handler that starts loading a product, once the index has answered.
LEMMA StartedInv ==
    ASSUME NEW p, NEW a, NEW others, others \subseteq calls, NEW seq, NEW shown,
           StartProduct(p, a, others, seq, shown),
           index' \in {"ready", "failed"},
           index' = "ready" => a = NoArticle \/ RightArticle(p, a),
           index' = "ready" => \A c \in LoadingProducts : RightArticle(c.path, c.article)
    PROVE  CallsInv'
<1>1. CASE a = NoArticle \/ shown
  BY <1>1 DEF StartProduct, CallsInv, LoadingProducts, RightArticle
<1>2. CASE ~(a = NoArticle \/ shown)
  <2>1. calls' = others \cup {[stage |-> "loading", path |-> p, article |-> a,
                               context |-> "product", seq |-> seq + 1]}
    BY <1>2 DEF StartProduct, Loading
  <2> QED BY <1>2, <2>1 DEF CallsInv, LoadingProducts, RightArticle
<1> QED BY <1>1, <1>2

LEMMA IndexInit == Init => IndexInv
BY DEF Init, IndexInv, LoadingProducts

LEMMA IndexStep == TypeOK /\ IndexInv /\ [Next]_vars => IndexInv'
<1> SUFFICES ASSUME TypeOK, IndexInv, [Next]_vars PROVE HostInv' /\ CallsInv'
  BY DEF IndexInv, HostInv, CallsInv
<1>0. HostInv /\ CallsInv
  BY DEF IndexInv, HostInv, CallsInv
<1>1. CASE UNCHANGED vars
  BY <1>0, <1>1, HostStill, FewerCalls DEF vars, caches, mounted
<1>2. CASE Site
  <2>1. index' = index /\ calls' = calls /\ host' \in {host, NoHost}
    BY <1>2 DEF Site, Navigate, SiteRenders, caches, mounted
  <2> QED BY <1>0, <2>1, HostStill, FewerCalls
<1>3. CASE LeaveHandledPages
  BY <1>0, <1>3, ClearedKeeps, HostStill, FewerCalls DEF LeaveHandledPages, caches
<1>4. CASE HandleHomepage
  <2>1. index' = index /\ host' \in {host, NoHost}
    BY <1>4 DEF HandleHomepage, RemoveHost, mounted
  <2>2. \/ calls' = calls
        \/ \E n : calls' = calls \cup {Loading(location, location, "homepage", n)}
    BY <1>4 DEF HandleHomepage
  <2>3. LoadingProducts' = LoadingProducts
    BY <2>2 DEF LoadingProducts, Loading
  <2> QED BY <1>0, <2>1, <2>3, HostStill DEF CallsInv, RightArticle
<1>5. CASE HandleProduct
  <2> DEFINE moved   == currentPath # location
             seq     == IF moved THEN requestSeq + 1 ELSE requestSeq
             article == ResolveArticle(index, location)
             isShown == ~moved /\ currentArticle = article /\ host # NoHost
  <2>1. host' \in {host, NoHost}
    BY <1>5 DEF HandleProduct, RemoveHost, mounted
  <2>2. CASE index \in {"ready", "failed"}
    <3>1. StartProduct(location, article, calls, seq, isShown) /\ index' = index
      BY <1>5, <2>2 DEF HandleProduct
    <3>2. index = "ready" => article = NoArticle \/ RightArticle(location, article)
      BY IndexFirst
    <3> HIDE DEF article, seq, isShown
    <3>3. CallsInv'
      BY <1>0, <2>2, <3>1, <3>2, StartedInv DEF CallsInv
    <3> QED BY <1>0, <2>1, <3>1, <3>3, HostStill
  <2>3. CASE index \notin {"ready", "failed"}
    <3>1. index' = "pending" /\ calls' = calls \cup {Resolving(location)}
      BY <1>5, <2>3 DEF HandleProduct
    <3>2. index \in {"none", "pending"}
      BY <2>3 DEF TypeOK
    <3>3. LoadingProducts' = LoadingProducts
      BY <3>1 DEF LoadingProducts, Resolving
    <3> QED BY <1>0, <2>1, <3>1, <3>2, <3>3 DEF CallsInv, HostInv, RightArticle
  <2> QED BY <2>2, <2>3
<1>6. ASSUME NEW ok \in BOOLEAN, IndexAnswers(ok) PROVE HostInv' /\ CallsInv'
  <2> DEFINE article == ResolveArticle(index', location)
             shown == currentArticle = article /\ host # NoHost
  <2>1. /\ host' = host /\ index = "pending" /\ index' \in {"ready", "failed"}
        /\ \/ StartProduct(location, article, Waiting("loading"), requestSeq, shown)
           \/ calls' = Waiting("loading")
    BY <1>6 DEF IndexAnswers, mounted
  <2>2. LoadingProducts = {} /\ Waiting("loading") \subseteq calls
    BY <1>0, <2>1 DEF CallsInv, Waiting
  <2>3. index' = "ready" => article = NoArticle \/ RightArticle(location, article)
    BY IndexFirst
  <2> HIDE DEF article, shown
  <2>4. CallsInv'
    <3>1. CASE StartProduct(location, article, Waiting("loading"), requestSeq, shown)
      BY <2>1, <2>2, <2>3, <3>1, StartedInv
    <3>2. CASE calls' = Waiting("loading")
      BY <2>1, <2>2, <3>2 DEF CallsInv, LoadingProducts
    <3> QED BY <2>1, <3>1, <3>2
  <2> QED BY <1>0, <2>1, <2>4 DEF HostInv
<1>7. ASSUME NEW ok \in BOOLEAN, AssetsAnswer(ok) PROVE HostInv' /\ CallsInv'
  <2>1. index' = index /\ calls' \subseteq calls
    BY <1>7 DEF AssetsAnswer, Waiting
  <2>2. host' \in {host, NoHost}
    BY <1>7, ClearedKeeps DEF AssetsAnswer, mounted
  <2> QED BY <1>0, <2>1, <2>2, HostStill, FewerCalls
<1>8. ASSUME NEW c \in Contexts, NEW ok \in BOOLEAN, ConfigAnswers(c, ok)
      PROVE HostInv' /\ CallsInv'
  BY <1>0, <1>8, HostStill, FewerCalls DEF ConfigAnswers, mounted
<1>9. CASE DataAnswers
  <2>1. PICK c \in calls, ok \in BOOLEAN, bundle \in SUBSET Reviews :
          BundleAnswers(c, ok, bundle) \/ ShowcaseAnswers(c, ok, bundle)
    BY <1>9 DEF DataAnswers
  <2>2. index' = index /\ calls' \subseteq calls
    BY <2>1 DEF BundleAnswers, ShowcaseAnswers, caches
  <2>3. CASE BundleAnswers(c, ok, bundle)
    <3>1. c \in LoadingProducts
      BY <2>3 DEF BundleAnswers, HasAssetsAndConfig, LoadingProducts
    <3>2. index \in {"ready", "failed"} /\ (index = "ready" => RightArticle(c.path, c.article))
      BY <1>0, <3>1 DEF CallsInv, TypeOK
    <3>3. Render(c.path, c.article, "product", bundle) \/ host' = host
      BY <2>3 DEF BundleAnswers, mounted
    <3> QED BY <1>0, <2>2, <3>2, <3>3, RenderedInv, HostStill, FewerCalls
  <2>4. CASE ShowcaseAnswers(c, ok, bundle)
    <3>1. \/ Render(c.path, c.article, "homepage", bundle)
          \/ ClearRenderedWidget
          \/ host' = host
      BY <2>4 DEF ShowcaseAnswers, mounted
    <3> QED BY <1>0, <2>2, <3>1, RenderedInv, ClearedKeeps, HostStill, FewerCalls
  <2> QED BY <2>1, <2>3, <2>4
<1> QED BY <1>1, <1>2, <1>3, <1>4, <1>5, <1>6, <1>7, <1>8, <1>9 DEF Next, HandleNavigation

\* The mounted product, once known to the index, has its own article.
THEOREM IndexedProductsRight == Spec => []IndexedArticleShown
<1>1. Spec => []IndexInv
  BY TypeCorrect, IndexInit, IndexStep, PTL DEF Spec
<1> QED BY <1>1, IndexInvImplies, PTL

-----------------------------------------------------------------------------
(* The page shown is the page handled.  A newest request of another page can *)
(* only be waiting when a handler went on ahead of the navigation, or after  *)
(* a page the loader does not handle.                                        *)

\* What is shown need not be the handled page's: a handler went on ahead of the
\* navigation, or the page is one the loader does not handle.
Behind == ahead \/ ~ShouldHandlePath(currentPath)

PageInv ==
    /\ location # currentPath => timer
    /\ \A c \in Waiting("loading") : c.seq <= requestSeq
    /\ \A c \in Waiting("loading") : c.seq = requestSeq => c.path = currentPath \/ Behind
    /\ host # NoHost => host.page = currentPath \/ Behind
    /\ jsonLd \in {NoPage, currentPath} \/ Behind

LEMMA PageInvImplies == PageInv => ShownIsCurrent
BY DEF PageInv, ShownIsCurrent, Behind

LEMMA PageInit == Init => PageInv
<1> SUFFICES ASSUME Init PROVE PageInv
  OBVIOUS
<1> QED BY DEF Init, PageInv, Waiting

\* What is mounted, and what of it belongs to the handled page.
MountInv ==
    /\ host # NoHost => host.page = currentPath \/ Behind
    /\ jsonLd \in {NoPage, currentPath} \/ Behind

CallInv ==
    /\ \A c \in Waiting("loading") : c.seq <= requestSeq
    /\ \A c \in Waiting("loading") : c.seq = requestSeq => c.path = currentPath \/ Behind

LEMMA PageParts == PageInv <=> (location # currentPath => timer) /\ CallInv /\ MountInv
BY DEF PageInv, CallInv, MountInv

LEMMA PagePartsAfter == (location' # currentPath' => timer') /\ CallInv' /\ MountInv' => PageInv'
BY DEF PageInv, CallInv, MountInv

LEMMA ClearedMount ==
    ASSUME MountInv, Behind => Behind', currentPath' = currentPath,
           ClearRenderedWidget \/ UNCHANGED mounted
    PROVE  MountInv'
BY DEF MountInv, ClearRenderedWidget, RemoveHost, mounted

LEMMA FewerWaiting ==
    ASSUME CallInv, Behind => Behind', currentPath' = currentPath, requestSeq' = requestSeq,
           calls' \subseteq calls
    PROVE  CallInv'
BY DEF CallInv, Waiting

\* A render of the newest request.
LEMMA RenderedMount ==
    ASSUME MountInv, NEW p, NEW a, NEW c, NEW b, Render(p, a, c, b), p = currentPath \/ Behind,
           Behind' = Behind, currentPath' = currentPath
    PROVE  MountInv'
<1>1. \/ host' = NoHost /\ jsonLd' = NoPage
      \/ /\ host' = [page |-> p, article |-> a, context |-> c, config |-> widgetConfig]
         /\ jsonLd' \in {p, NoPage}
  BY DEF Render, RemoveHost, Mounted
<1> QED BY <1>1 DEF MountInv

\* A request that gets the next number.
LEMMA StartedCall ==
    ASSUME NEW seq \in Nat, NEW p, NEW a, NEW c,
           \A d \in Waiting("loading") : d.seq \in Nat /\ d.seq <= seq,
           requestSeq' = seq + 1,
           calls' \subseteq calls \cup {Loading(p, a, c, seq + 1)},
           p = currentPath' \/ Behind'
    PROVE  CallInv'
<1>1. \A d \in calls' : d \in calls \/ (d.path = p /\ d.seq = seq + 1)
  BY DEF Loading
<1>2. \A d \in Waiting("loading")' : d \in Waiting("loading") \/ (d.path = p /\ d.seq = seq + 1)
  BY <1>1 DEF Waiting
<1>3. \A d \in Waiting("loading") : d.seq # seq + 1 /\ d.seq <= seq + 1
  OBVIOUS
<1>4. \A d \in Waiting("loading")' : d.seq <= seq + 1
  BY <1>2, <1>3
<1>5. \A d \in Waiting("loading")' : d.seq = seq + 1 => d.path = p
  BY <1>2, <1>3
<1> QED BY <1>4, <1>5 DEF CallInv

\* The handler of a page that has just been moved to, or is handled again.
LEMMA HandledMount ==
    ASSUME MountInv, currentPath' = location, location' = location,
           ShouldHandlePath(location),
           ahead' = (ahead /\ ~(currentPath # location)),
           IF currentPath # location THEN RemoveHost
                                     ELSE UNCHANGED mounted
    PROVE  MountInv'
<1>1. CASE currentPath # location
  BY <1>1 DEF MountInv, RemoveHost
<1>2. CASE currentPath = location
  <2>1. Behind' = Behind
    BY <1>2 DEF Behind
  <2> QED BY <1>2, <2>1 DEF MountInv, mounted
<1> QED BY <1>1, <1>2

\* Its requests: an older number, or the next one for this page.
LEMMA HandledCall ==
    ASSUME TypeOK, CallInv, currentPath' = location, location' = location,
           ShouldHandlePath(location), ahead' = (ahead /\ ~(currentPath # location)),
           NEW seq \in Nat, NEW others,
           others \subseteq calls \cup {Resolving(location)},
           seq = IF currentPath # location THEN requestSeq + 1 ELSE requestSeq,
           \/ requestSeq' = seq /\ calls' = others
           \/ /\ requestSeq' = seq + 1
              /\ \E a, c : calls' = others \cup {Loading(location, a, c, seq + 1)}
    PROVE  CallInv'
<1>1. requestSeq \in Nat /\ \A d \in Waiting("loading") : d.seq \in Nat /\ d.seq <= requestSeq
  <2>1. CallsOK /\ requestSeq \in Nat
    BY DEF TypeOK, CallsOK
  <2> QED BY <2>1, CallParts DEF CallInv, Waiting
<1>2. Waiting("loading")' \subseteq Waiting("loading")
            \cup {d \in calls' : d \notin calls \cup {Resolving(location)}}
  BY DEF Waiting, Resolving
<1>3. CASE requestSeq' = seq + 1 /\ \E a, c : calls' = others \cup {Loading(location, a, c, seq + 1)}
  <2>1. PICK a, c : calls' = others \cup {Loading(location, a, c, seq + 1)}
    BY <1>3
  <2>2. \A d \in Waiting("loading") : d.seq \in Nat /\ d.seq <= seq
    BY <1>1
  <2>3. \A d \in Waiting("loading")' : d \in Waiting("loading") \/ (d.path = location /\ d.seq = seq + 1)
    BY <2>1 DEF Waiting, Resolving, Loading
  <2>4. \A d \in Waiting("loading") : d.seq # seq + 1 /\ d.seq <= seq + 1
    BY <2>2
  <2> QED BY <1>3, <2>3, <2>4 DEF CallInv
<1>4. CASE requestSeq' = seq /\ calls' = others
  <2>1. Waiting("loading")' \subseteq Waiting("loading")
    BY <1>4 DEF Waiting, Resolving
  <2>2. CASE currentPath # location
    <3>1. \A d \in Waiting("loading") : d.seq # seq /\ d.seq <= seq
      BY <1>1, <2>2
    <3> QED BY <1>4, <2>1, <3>1 DEF CallInv
  <2>3. CASE currentPath = location
    <3>1. Behind' = Behind
      BY <2>3 DEF Behind
    <3> QED BY <1>4, <2>1, <2>3, <3>1 DEF CallInv
  <2> QED BY <2>2, <2>3
<1> QED BY <1>3, <1>4

LEMMA PageStep ==
    ASSUME TypeOK, PageInv, [Next]_vars
    PROVE  PageInv'
<1>0. (location # currentPath => timer) /\ CallInv /\ MountInv
  BY PageParts
<1>1. CASE UNCHANGED vars
  BY <1>1 DEF PageInv, Waiting, Behind, vars, site, current, mounted
<1>2. ASSUME NEW p \in Pages, Navigate(p) PROVE PageInv'
  <2>1. Behind' = Behind /\ timer' /\ calls' = calls
        /\ UNCHANGED <<currentPath, requestSeq, mounted>>
    BY <1>2 DEF Navigate, Behind, current
  <2> QED BY <1>0, <2>1, ClearedMount, FewerWaiting, PagePartsAfter
<1>3. ASSUME NEW a \in Anchors, NEW k \in BOOLEAN, SiteRenders(a, k) PROVE PageInv'
  <2>1. /\ Behind' = Behind /\ location' = location /\ (timer => timer')
        /\ UNCHANGED <<currentPath, requestSeq, calls, jsonLd>>
        /\ host' \in {host, NoHost}
    BY <1>3 DEF SiteRenders, Behind, current
  <2> QED BY <1>0, <2>1, FewerWaiting, PagePartsAfter DEF MountInv
<1>4. CASE LeaveHandledPages
  <2>1. Behind' /\ location' = currentPath' /\ UNCHANGED <<requestSeq, calls>>
    BY <1>4 DEF LeaveHandledPages, Behind, site
  <2> QED BY <1>0, <2>1 DEF PageInv, CallInv, Waiting
<1>5. CASE HandleHomepage
  <2> DEFINE seq == IF currentPath # location THEN requestSeq + 1 ELSE requestSeq
  <2>1. ShouldHandlePath(location) /\ location' = location /\ currentPath' = location
        /\ ahead' = (ahead /\ ~(currentPath # location))
    BY <1>5 DEF HandleHomepage, ShouldHandlePath, site
  <2>2. IF currentPath # location THEN RemoveHost ELSE UNCHANGED mounted
    BY <1>5 DEF HandleHomepage
  <2>3. seq \in Nat
    BY DEF TypeOK
  <2>4. \/ requestSeq' = seq /\ calls' = calls
        \/ /\ requestSeq' = seq + 1
           /\ \E b, c : calls' = calls \cup {Loading(location, b, c, seq + 1)}
    BY <1>5 DEF HandleHomepage
  <2>5. CallInv'
    BY <1>0, <2>1, <2>3, <2>4, HandledCall
  <2> QED BY <1>0, <2>1, <2>2, <2>5, HandledMount, PagePartsAfter
<1>6. CASE HandleProduct
  <2> DEFINE seq == IF currentPath # location THEN requestSeq + 1 ELSE requestSeq
             article == ResolveArticle(index, location)
             isShown == currentPath = location /\ currentArticle = article /\ host # NoHost
  <2>1. ShouldHandlePath(location) /\ location' = location /\ currentPath' = location
        /\ ahead' = (ahead /\ ~(currentPath # location))
    BY <1>6 DEF HandleProduct, ShouldHandlePath, site
  <2>2. IF currentPath # location THEN RemoveHost ELSE UNCHANGED mounted
    BY <1>6 DEF HandleProduct
  <2>3. seq \in Nat
    BY DEF TypeOK
  <2>4. CASE index \in {"ready", "failed"}
    <3>1. StartProduct(location, article, calls, seq, isShown)
      BY <1>6, <2>4 DEF HandleProduct
    <3> HIDE DEF seq, article, isShown
    <3>2. \/ requestSeq' = seq /\ calls' = calls
          \/ /\ requestSeq' = seq + 1
             /\ \E b, c : calls' = calls \cup {Loading(location, b, c, seq + 1)}
      BY <3>1 DEF StartProduct
    <3>3. seq = IF currentPath # location THEN requestSeq + 1 ELSE requestSeq
      BY DEF seq
    <3>4. CallInv'
      BY <1>0, <2>1, <2>3, <3>2, <3>3, HandledCall
    <3> QED BY <1>0, <2>1, <2>2, <3>4, HandledMount, PagePartsAfter
  <2>5. CASE index \notin {"ready", "failed"}
    <3>1. requestSeq' = seq /\ calls' = calls \cup {Resolving(location)}
      BY <1>6, <2>5 DEF HandleProduct
    <3>2. CallInv'
      BY <1>0, <2>1, <2>3, <3>1, HandledCall
    <3> QED BY <1>0, <2>1, <2>2, <3>2, HandledMount, PagePartsAfter
  <2> QED BY <2>4, <2>5
<1>7. ASSUME NEW ok \in BOOLEAN, IndexAnswers(ok) PROVE PageInv'
  <2> DEFINE article == ResolveArticle(index', location)
             shown == currentArticle = article /\ host # NoHost
  <2>1. /\ UNCHANGED <<location, timer, currentPath, mounted>>
        /\ \/ StartProduct(location, article, Waiting("loading"), requestSeq, shown)
           \/ calls' = Waiting("loading") /\ requestSeq' = requestSeq
        /\ ahead' = (ahead \/ (requestSeq' # requestSeq /\ location # currentPath))
    BY <1>7 DEF IndexAnswers, site
  <2>2. Behind => Behind'
    BY <2>1 DEF Behind
  <2>3. Waiting("loading") \subseteq calls
    BY DEF Waiting
  <2>4. \A d \in Waiting("loading") : d.seq \in Nat /\ d.seq <= requestSeq
    <3>1. CallsOK
      BY DEF TypeOK, CallsOK
    <3> QED BY <1>0, <3>1, CallParts DEF CallInv, Waiting
  <2>5. requestSeq' # requestSeq => location = currentPath' \/ Behind'
    BY <2>1 DEF Behind
  <2> HIDE DEF article, shown
  <2>6. CallInv'
    <3>1. CASE calls' = Waiting("loading") /\ requestSeq' = requestSeq
      BY <1>0, <2>1, <2>2, <2>3, <3>1, FewerWaiting
    <3>2. CASE StartProduct(location, article, Waiting("loading"), requestSeq, shown)
      <4>1. \/ requestSeq' = requestSeq /\ calls' = Waiting("loading")
            \/ /\ requestSeq' = requestSeq + 1
               /\ calls' = Waiting("loading") \cup {Loading(location, article, "product", requestSeq + 1)}
        BY <3>2 DEF StartProduct
      <4>2. CASE requestSeq' = requestSeq + 1
        <5>1. requestSeq \in Nat /\ requestSeq' # requestSeq
          BY <4>2 DEF TypeOK
        <5> QED BY <2>3, <2>4, <2>5, <4>1, <4>2, <5>1, StartedCall
      <4>3. CASE requestSeq' # requestSeq + 1
        BY <3>1, <4>1, <4>3
      <4> QED BY <4>2, <4>3
    <3> QED BY <2>1, <3>1, <3>2
  <2> QED BY <1>0, <2>1, <2>2, <2>6, PagePartsAfter DEF MountInv, mounted
<1>8. ASSUME NEW ok \in BOOLEAN, AssetsAnswer(ok) PROVE PageInv'
  <2>1. /\ Behind' = Behind /\ (timer => timer') /\ calls' \subseteq calls
        /\ UNCHANGED <<location, currentPath, requestSeq>>
        /\ ClearRenderedWidget \/ UNCHANGED mounted
    BY <1>8 DEF AssetsAnswer, Behind, site, Waiting
  <2> QED BY <1>0, <2>1, ClearedMount, FewerWaiting, PagePartsAfter
<1>9. ASSUME NEW c \in Contexts, NEW ok \in BOOLEAN, ConfigAnswers(c, ok) PROVE PageInv'
  <2>1. /\ Behind' = Behind /\ timer' = timer /\ calls' = calls
        /\ UNCHANGED <<location, currentPath, requestSeq, mounted>>
    BY <1>9 DEF ConfigAnswers, Behind, site, current
  <2> QED BY <1>0, <2>1, ClearedMount, FewerWaiting, PagePartsAfter
<1>10. CASE DataAnswers
  <2>1. PICK c \in calls, ok \in BOOLEAN, bundle \in SUBSET Reviews :
          BundleAnswers(c, ok, bundle) \/ ShowcaseAnswers(c, ok, bundle)
    BY <1>10 DEF DataAnswers
  <2>2. /\ Behind' = Behind /\ (timer => timer') /\ calls' \subseteq calls
        /\ UNCHANGED <<location, currentPath, requestSeq>>
    <3>1. /\ (timer => timer') /\ calls' \subseteq calls
          /\ UNCHANGED <<location, currentPath, requestSeq, ahead>>
      BY <2>1 DEF BundleAnswers, ShowcaseAnswers, site
    <3> QED BY <3>1 DEF Behind
  <2>3. c.seq = requestSeq => c.path = currentPath \/ Behind
    BY <1>0, <2>1 DEF CallInv, Waiting, BundleAnswers, ShowcaseAnswers, HasAssetsAndConfig
  <2>4. \/ c.seq = requestSeq /\ \E k : Render(c.path, c.article, k, bundle)
        \/ ClearRenderedWidget
        \/ UNCHANGED mounted
    BY <2>1 DEF BundleAnswers, ShowcaseAnswers
  <2>5. MountInv'
    BY <1>0, <2>2, <2>3, <2>4, RenderedMount, ClearedMount
  <2> QED BY <1>0, <2>2, <2>5, FewerWaiting, PagePartsAfter
<1> QED
  BY <1>1, <1>2, <1>3, <1>4, <1>5, <1>6, <1>7, <1>8, <1>9, <1>10 DEF Next, Site, HandleNavigation

\* On every site and however its visitors come and go, the widget and the
\* structured data shown are those of the page, unless a handler went on ahead
\* of the navigation.
THEOREM ShownRight == Spec => []ShownIsCurrent
<1>1. TypeOK /\ PageInv /\ [Next]_vars => PageInv'
  BY PageStep
<1>2. Spec => []PageInv
  BY <1>1, TypeCorrect, PageInit, PTL DEF Spec
<1> QED BY <1>2, PageInvImplies, PTL

-----------------------------------------------------------------------------
(* No visit is forgotten.  A product page that is handled and shows nothing  *)
(* still waits: for the link index, or for the newest request's answers.     *)

NewestWaits ==
    \E c \in calls : c.stage = "loading" /\ c.context = "product" /\ c.seq = requestSeq

OnHandledProduct == ~timer /\ IsProductPath(location)

CanShow ==
    ResolveArticle(index, location) # NoArticle /\ FindAnchor /\ assets # "none"

VisitInv ==
    /\ OnHandledProduct /\ index \notin {"ready", "failed"} => Resolving(location) \in calls
    /\ OnHandledProduct /\ index \in {"ready", "failed"} /\ CanShow /\ host = NoHost
        => NewestWaits

LEMMA VisitInvImplies == VisitInv => NothingForgotten
BY DEF VisitInv, NothingForgotten, OnHandledProduct, CanShow, NewestWaits, Settled

LEMMA VisitInit == Init => VisitInv
BY DEF Init, VisitInv, OnHandledProduct

\* While the debounce runs, or away from the products, there is nothing to wait for.
LEMMA NoVisit == timer' \/ ~IsProductPath(location') => VisitInv'
BY DEF VisitInv, OnHandledProduct

\* A request that is started is the newest one.
LEMMA StartedVisit ==
    ASSUME NEW p, NEW article, NEW others, NEW seq, NEW isShown,
           StartProduct(p, article, others, seq, isShown)
    PROVE  article = NoArticle \/ isShown \/ NewestWaits'
<1>1. Loading(p, article, "product", seq + 1).stage = "loading"
      /\ Loading(p, article, "product", seq + 1).context = "product"
      /\ Loading(p, article, "product", seq + 1).seq = seq + 1
  BY DEF Loading
<1> QED BY <1>1 DEF StartProduct, NewestWaits

\* What a step leaves of a visit that waits.
LEMMA SameVisit ==
    ASSUME VisitInv, UNCHANGED <<site, index, requestSeq>>,
           timer => timer',
           \A c \in calls : c.stage = "resolving" => c \in calls',
           assets' # "none" => assets # "none",
           CanShow' /\ host' = NoHost /\ ~timer' => host = NoHost,
           CanShow' /\ host' = NoHost /\ ~timer' /\ NewestWaits => NewestWaits'
    PROVE  VisitInv'
<1>1. OnHandledProduct' => OnHandledProduct
  BY DEF OnHandledProduct, site, IsProductPath
<1>2. CanShow' => CanShow
  BY DEF CanShow, ResolveArticle, ExtractArticleFromDocument, DocumentProduct, FindAnchor, site
<1>3. Resolving(location) \in calls => Resolving(location') \in calls'
  BY DEF Resolving, site
<1>4. OnHandledProduct' => ~timer'
  BY DEF OnHandledProduct
<1> QED BY <1>1, <1>2, <1>3, <1>4 DEF VisitInv

LEMMA VisitStep ==
    ASSUME TypeOK, VisitInv, [Next]_vars
    PROVE  VisitInv'
<1>1. CASE UNCHANGED vars
  <2>1. UNCHANGED <<site, index, requestSeq, timer, assets, host, calls>>
    BY <1>1 DEF vars, current, caches, mounted
  <2>2. NewestWaits => NewestWaits'
    BY <2>1 DEF NewestWaits
  <2> QED BY <2>1, <2>2, SameVisit
<1>2. ASSUME NEW p \in Pages, Navigate(p) PROVE VisitInv'
  BY <1>2, NoVisit DEF Navigate
<1>3. ASSUME NEW a \in Anchors, NEW k \in BOOLEAN, SiteRenders(a, k) PROVE VisitInv'
  <2>1. CASE host' = NoHost
    <3>1. timer' \/ ~IsProductPath(location')
      BY <1>3, <2>1 DEF SiteRenders, ObserverSchedules, ShouldHandlePath
    <3> QED BY <3>1, NoVisit
  <2>2. CASE host' # NoHost
    <3>1. UNCHANGED <<location, index, calls>> /\ (timer => timer')
      BY <1>3 DEF SiteRenders, caches
    <3> QED BY <2>2, <3>1 DEF VisitInv, OnHandledProduct, Resolving, IsProductPath
  <2> QED BY <2>1, <2>2
<1>4. CASE LeaveHandledPages
  <2>1. ~IsProductPath(location')
    BY <1>4 DEF LeaveHandledPages, ShouldHandlePath, site, IsProductPath
  <2> QED BY <2>1, NoVisit
<1>5. CASE HandleHomepage
  <2>1. ~IsProductPath(location')
    BY <1>5, LoaderAssumption DEF HandleHomepage, IsHomepagePath, IsProductPath, site
  <2> QED BY <2>1, NoVisit
<1>6. CASE HandleProduct
  <2> DEFINE moved   == currentPath # location
             seq     == IF moved THEN requestSeq + 1 ELSE requestSeq
             article == ResolveArticle(index, location)
             isShown == ~moved /\ currentArticle = article /\ host # NoHost
  <2>1. /\ UNCHANGED site
        /\ IF moved THEN RemoveHost ELSE UNCHANGED mounted
        /\ timer' = ObserverSchedules(HostRemoved)
        /\ IsProductPath(location)
    BY <1>6 DEF HandleProduct
  <2>2. CASE timer'
    BY <2>2, NoVisit
  <2>3. CASE ~timer'
    <3>1. host' = NoHost => ~isShown
      BY <2>1, <2>3 DEF RemoveHost, mounted
    <3>2. CASE index \in {"ready", "failed"}
      <4>1. StartProduct(location, article, calls, seq, isShown) /\ index' = index
        BY <1>6, <3>2 DEF HandleProduct
      <4>2. article = NoArticle \/ isShown \/ NewestWaits'
        <5> HIDE DEF article, isShown, seq
        <5> QED BY <4>1, StartedVisit
      <4>3. CanShow' => article # NoArticle
        BY <2>1, <4>1 DEF CanShow, ResolveArticle, ExtractArticleFromDocument, DocumentProduct,
           site, ResolveArticleFromIndex
      <4> HIDE DEF article, isShown
      <4> QED BY <3>1, <3>2, <4>1, <4>2, <4>3 DEF VisitInv
    <3>3. CASE index \notin {"ready", "failed"}
      <4>1. index' = "pending" /\ calls' = calls \cup {Resolving(location)}
        BY <1>6, <3>3 DEF HandleProduct
      <4> QED BY <2>1, <4>1 DEF VisitInv, Resolving, site
    <3> QED BY <3>2, <3>3
  <2> QED BY <2>2, <2>3
<1>7. ASSUME NEW ok \in BOOLEAN, IndexAnswers(ok) PROVE VisitInv'
  <2> DEFINE article == ResolveArticle(index', location)
             isShown == currentArticle = article /\ host # NoHost
  <2>1. /\ UNCHANGED <<site, timer, mounted>>
        /\ index = "pending" /\ index' \in {"ready", "failed"}
    BY <1>7 DEF IndexAnswers
  <2>2. CASE Resolving(location) \in calls
    <3>1. StartProduct(location, article, Waiting("loading"), requestSeq, isShown)
      BY <1>7, <2>2 DEF IndexAnswers
    <3>2. article = NoArticle \/ isShown \/ NewestWaits'
      <4> HIDE DEF article, isShown
      <4> QED BY <3>1, StartedVisit
    <3>3. CanShow' => article # NoArticle
      BY <2>1 DEF CanShow, ResolveArticle, ExtractArticleFromDocument, DocumentProduct, site,
         ResolveArticleFromIndex
    <3>4. host' = NoHost => ~isShown
      BY <2>1 DEF mounted
    <3> HIDE DEF article, isShown
    <3> QED BY <2>1, <3>2, <3>3, <3>4 DEF VisitInv
  <2>3. CASE Resolving(location) \notin calls
    <3>1. ~OnHandledProduct
      BY <2>1, <2>3 DEF VisitInv
    <3>2. ~OnHandledProduct'
      BY <2>1, <3>1 DEF OnHandledProduct, IsProductPath, site
    <3> QED BY <3>2 DEF VisitInv
  <2> QED BY <2>2, <2>3
<1>8. ASSUME NEW ok \in BOOLEAN, AssetsAnswer(ok) PROVE VisitInv'
  <2>1. /\ UNCHANGED <<site, index, requestSeq>> /\ (timer => timer')
        /\ assets # "none"
        /\ \A c \in calls : c.stage = "resolving" => c \in calls'
    BY <1>8 DEF AssetsAnswer, Waiting
  <2>2. CASE ok
    <3>1. host' = host /\ calls' = calls
      BY <1>8, <2>2 DEF AssetsAnswer, mounted
    <3>2. NewestWaits => NewestWaits'
      BY <2>1, <3>1 DEF NewestWaits
    <3> QED BY <2>1, <3>1, <3>2, SameVisit
  <2>3. CASE ~ok
    <3>1. ~CanShow'
      BY <1>8, <2>3 DEF AssetsAnswer, CanShow
    <3> QED BY <2>1, <3>1, SameVisit
  <2> QED BY <2>2, <2>3
<1>9. ASSUME NEW c \in Contexts, NEW ok \in BOOLEAN, ConfigAnswers(c, ok) PROVE VisitInv'
  <2>1. UNCHANGED <<site, index, requestSeq, timer, assets, host, calls>>
    BY <1>9 DEF ConfigAnswers, current, mounted
  <2>2. NewestWaits => NewestWaits'
    BY <2>1 DEF NewestWaits
  <2> QED BY <2>1, <2>2, SameVisit
<1>10. CASE DataAnswers
  <2>1. PICK c \in calls, ok \in BOOLEAN, bundle \in SUBSET Reviews :
          BundleAnswers(c, ok, bundle) \/ ShowcaseAnswers(c, ok, bundle)
    BY <1>10 DEF DataAnswers
  <2>2. /\ UNCHANGED <<site, index, requestSeq, assets>>
        /\ timer' = (timer \/ ObserverSchedules(HostRemoved))
        /\ calls' = calls \ {c} /\ c.stage = "loading"
    BY <2>1 DEF BundleAnswers, ShowcaseAnswers, caches, HasAssetsAndConfig
  <2>3. \A d \in calls : d.stage = "resolving" => d \in calls'
    BY <2>2
  <2>4. CASE timer' \/ ~IsProductPath(location)
    BY <2>2, <2>4, NoVisit DEF site, IsProductPath
  <2>5. CASE ~timer' /\ IsProductPath(location)
    <3>1. host' = NoHost => host = NoHost
      BY <2>2, <2>5 DEF ObserverSchedules, HostRemoved, ShouldHandlePath, site, IsProductPath
    <3>2. CanShow' /\ host' = NoHost => c.context # "product" \/ c.seq # requestSeq
      <4>1. SUFFICES ASSUME FindAnchor', host' = NoHost, c.context = "product", c.seq = requestSeq
                     PROVE  FALSE
        BY DEF CanShow
      <4>2. Render(c.path, c.article, "product", bundle)
        BY <2>1, <4>1 DEF BundleAnswers, ShowcaseAnswers
      <4>3. host' = Mounted(c.path, c.article, "product", widgetConfig)
        BY <2>2, <4>1, <4>2 DEF Render, FindAnchor, site
      <4>4. c.path \in Pages /\ c.article \in Articles \cup Pages
        BY <2>2, CallParts DEF TypeOK, CallsOK
      <4>5. host' \in Hosts
        BY <4>3, <4>4 DEF Mounted, Hosts, Contexts, TypeOK
      <4> QED BY <4>1, <4>5, NoHostAssumption
    <3>3. CanShow' /\ host' = NoHost /\ NewestWaits => NewestWaits'
      BY <2>2, <3>2 DEF NewestWaits
    <3> QED BY <2>2, <2>3, <3>1, <3>3, SameVisit
  <2> QED BY <2>4, <2>5
<1> QED
  BY <1>1, <1>2, <1>3, <1>4, <1>5, <1>6, <1>7, <1>8, <1>9, <1>10 DEF Next, Site, HandleNavigation

\* However the site re-renders the page and the visitor moves, the loader
\* mounts the widget of every product page it can or still waits for an answer.
THEOREM NoVisitForgotten == Spec => []NothingForgotten
<1>1. Spec => []VisitInv
  BY TypeCorrect, VisitInit, VisitStep, PTL DEF Spec
<1> QED BY <1>1, VisitInvImplies, PTL

-----------------------------------------------------------------------------
(* Reading in the mounted widget: WidgetReading. *)

LEMMA LeastOf ==
    ASSUME NEW S \in SUBSET Nat, S # {}
    PROVE  \E m \in S : \A i \in S : m <= i
<1>1. PICK m \in S : \A i \in S : ~(<<i, m>> \in OpToRel(<, Nat))
  BY NatLessThanWellFounded, WFMin
<1>2. \A i \in S : ~(i < m)
  BY <1>1 DEF OpToRel
<1> QED BY <1>2

LEMMA Induction ==
    ASSUME NEW n \in Nat, NEW T \in SUBSET (0 .. n), 0 \in T,
           \A i \in 1 .. n : i - 1 \in T => i \in T
    PROVE  T = 0 .. n
<1> DEFINE rest == (0 .. n) \ T
<1> SUFFICES ASSUME rest # {} PROVE FALSE
  OBVIOUS
<1>1. rest \in SUBSET Nat
  OBVIOUS
<1>2. PICK i \in rest : \A j \in rest : i <= j
  BY <1>1, LeastOf
<1>3. \A j \in rest : ~(j < i)
  BY <1>1, <1>2
<1>4. i \in 1 .. n
  OBVIOUS
<1>5. i - 1 \in T
  BY <1>3, <1>4
<1> QED BY <1>4, <1>5

-----------------------------------------------------------------------------

\* s puts all the members of set in the order of the pairs in less.
Sorts(s, set, less) ==
    /\ s \in [1 .. Cardinality(set) -> set]
    /\ \A x \in set : \E i \in 1 .. Cardinality(set) : s[i] = x
    /\ \A i, j \in 1 .. Cardinality(set) : i < j => <<s[i], s[j]>> \in less

\* An element is put before the first one it is less than.
LEMMA Inserted ==
    ASSUME NEW set, IsFiniteSet(set), NEW x, x \notin set, NEW less, NEW s,
           Sorts(s, set, less),
           \A a, b \in set \cup {x} : a # b => <<a, b>> \in less \/ <<b, a>> \in less,
           \A a, b, c \in set \cup {x} :
               <<a, b>> \in less /\ <<b, c>> \in less => <<a, c>> \in less
    PROVE  \E t : Sorts(t, set \cup {x}, less)
<1> DEFINE n == Cardinality(set)
<1>1. n \in Nat /\ IsFiniteSet(set \cup {x}) /\ Cardinality(set \cup {x}) = n + 1
  BY FS_CardinalityType, FS_AddElement
<1> HIDE DEF n
<1>2. s \in [1 .. n -> set] /\ \A i, j \in 1 .. n : i < j => <<s[i], s[j]>> \in less
  BY DEF Sorts, n
<1> DEFINE stops == {i \in 1 .. n + 1 : i = n + 1 \/ <<x, s[i]>> \in less}
<1>3. PICK p \in stops : \A i \in stops : p <= i
  <2>1. stops \in SUBSET Nat /\ n + 1 \in stops
    BY <1>1
  <2>2. stops # {}
    BY <2>1
  <2> HIDE DEF stops
  <2> QED BY <2>1, <2>2, LeastOf
<1>4. p \in 1 .. n + 1 /\ (p = n + 1 \/ <<x, s[p]>> \in less)
  OBVIOUS
<1>5. \A i \in 1 .. n : i < p => <<s[i], x>> \in less
  <2> SUFFICES ASSUME NEW i \in 1 .. n, i < p PROVE <<s[i], x>> \in less
    OBVIOUS
  <2>1. i \notin stops
    BY <1>1, <1>3, <1>4
  <2>2. ~(<<x, s[i]>> \in less)
    BY <1>1, <2>1
  <2>3. s[i] \in set /\ s[i] # x
    BY <1>2
  <2> QED BY <2>2, <2>3
<1>6. \A i \in 1 .. n : i >= p => <<x, s[i]>> \in less
  <2> SUFFICES ASSUME NEW i \in 1 .. n, i >= p PROVE <<x, s[i]>> \in less
    OBVIOUS
  <2>1. p \in 1 .. n /\ <<x, s[p]>> \in less
    BY <1>1, <1>4
  <2>2. CASE i = p
    BY <2>1, <2>2
  <2>3. CASE p < i
    <3>1. <<s[p], s[i]>> \in less
      BY <1>2, <2>1, <2>3
    <3>2. s[p] \in set /\ s[i] \in set
      BY <1>2, <2>1
    <3> QED BY <2>1, <3>1, <3>2
  <2> QED BY <1>1, <2>1, <2>2, <2>3
<1> HIDE DEF stops
<1> DEFINE t == [i \in 1 .. n + 1 |->
                   IF i < p THEN s[i] ELSE IF i = p THEN x ELSE s[i - 1]]
<1>7. ASSUME NEW i \in 1 .. n + 1
      PROVE  /\ i < p => i \in 1 .. n /\ t[i] = s[i]
             /\ i = p => t[i] = x
             /\ p < i => i - 1 \in 1 .. n /\ i - 1 >= p /\ t[i] = s[i - 1]
  BY <1>1, <1>4
<1>8. ASSUME NEW i \in 1 .. n + 1 PROVE t[i] \in set \cup {x}
  <2>1. i < p \/ i = p \/ p < i
    BY <1>1, <1>4
  <2> HIDE DEF t
  <2> QED BY <1>2, <1>7, <2>1
<1>9. ASSUME NEW i \in 1 .. n + 1, NEW j \in 1 .. n + 1, i < j
      PROVE  <<t[i], t[j]>> \in less
  <2> HIDE DEF t
  <2>1. CASE j < p
    <3>1. i < p /\ i \in 1 .. n /\ j \in 1 .. n /\ t[i] = s[i] /\ t[j] = s[j]
      BY <1>1, <1>4, <1>7, <1>9, <2>1
    <3> QED BY <1>2, <1>9, <3>1
  <2>2. CASE j = p
    <3>1. i < p /\ i \in 1 .. n /\ t[i] = s[i] /\ t[j] = x
      BY <1>1, <1>4, <1>7, <1>9, <2>2
    <3> QED BY <1>5, <3>1
  <2>3. CASE p < j /\ i = p
    <3>1. j - 1 \in 1 .. n /\ j - 1 >= p /\ t[j] = s[j - 1] /\ t[i] = x
      BY <1>1, <1>4, <1>7, <2>3
    <3> QED BY <1>6, <3>1
  <2>4. CASE p < j /\ i < p
    <3>1. j - 1 \in 1 .. n /\ i \in 1 .. n /\ i < j - 1 /\ t[j] = s[j - 1] /\ t[i] = s[i]
      BY <1>1, <1>4, <1>7, <2>4
    <3> QED BY <1>2, <3>1
  <2>5. CASE p < i
    <3>1. p < j
      BY <1>1, <1>4, <1>9, <2>5
    <3>2. /\ j - 1 \in 1 .. n /\ i - 1 \in 1 .. n
          /\ t[j] = s[j - 1] /\ t[i] = s[i - 1]
      BY <1>7, <2>5, <3>1
    <3>3. i - 1 < j - 1
      BY <1>9
    <3> QED BY <1>2, <3>2, <3>3
  <2> QED BY <1>1, <1>4, <1>9, <2>1, <2>2, <2>3, <2>4, <2>5
<1>10. Sorts(t, set \cup {x}, less)
  <2>1. t \in [1 .. n + 1 -> set \cup {x}]
    BY <1>8
  <2> HIDE DEF t
  <2>2. \A y \in set : \E i \in 1 .. n + 1 : t[i] = y
    <3> SUFFICES ASSUME NEW y \in set PROVE \E i \in 1 .. n + 1 : t[i] = y
      OBVIOUS
    <3>1. PICK i \in 1 .. n : s[i] = y
      BY DEF Sorts, n
    <3>2. CASE i < p
      BY <1>1, <1>7, <3>1, <3>2
    <3>3. CASE i >= p
      <4>1. i + 1 \in 1 .. n + 1 /\ p < i + 1 /\ (i + 1) - 1 = i
        BY <1>1, <1>4, <3>1, <3>3
      <4>2. t[i + 1] = s[(i + 1) - 1]
        BY <1>7, <4>1
      <4> QED BY <3>1, <4>1, <4>2
    <3> QED BY <1>1, <1>4, <3>2, <3>3
  <2>3. \E i \in 1 .. n + 1 : t[i] = x
    BY <1>4, <1>7
  <2> QED BY <1>1, <1>9, <2>1, <2>2, <2>3 DEF Sorts
<1> QED BY <1>10

\* Every finite set can be sorted by a total order.
LEMMA Sortable ==
    ASSUME NEW set, IsFiniteSet(set), NEW less,
           \A a, b \in set : a # b => <<a, b>> \in less \/ <<b, a>> \in less,
           \A a, b, c \in set : <<a, b>> \in less /\ <<b, c>> \in less => <<a, c>> \in less
    PROVE  \E s : Sorts(s, set, less)
<1> DEFINE n == Cardinality(set)
           T == {i \in 0 .. n : \A U \in SUBSET set :
                                    Cardinality(U) = i => \E s : Sorts(s, U, less)}
<1>1. n \in Nat
  BY FS_CardinalityType
<1>2. 0 \in T
  <2> SUFFICES ASSUME NEW U \in SUBSET set, Cardinality(U) = 0
               PROVE  \E s : Sorts(s, U, less)
    BY <1>1
  <2>1. U = {}
    <3>1. IsFiniteSet(U)
      BY FS_Subset
    <3> QED BY <3>1, FS_EmptySet
  <2>2. Sorts([i \in 1 .. 0 |-> i], U, less)
    BY <2>1 DEF Sorts
  <2> QED BY <2>2
<1>3. ASSUME NEW i \in 1 .. n, i - 1 \in T PROVE i \in T
  <2> SUFFICES ASSUME NEW U \in SUBSET set, Cardinality(U) = i
               PROVE  \E s : Sorts(s, U, less)
    BY <1>1
  <2>1. IsFiniteSet(U)
    BY FS_Subset
  <2>2. PICK x : x \in U
    <3>1. U # {}
      BY <1>1, <2>1, FS_EmptySet
    <3> QED BY <3>1
  <2> DEFINE V == U \ {x}
  <2>3. IsFiniteSet(V) /\ Cardinality(V) = i - 1
    BY <2>1, <2>2, FS_RemoveElement
  <2>4. V \in SUBSET set /\ x \notin V /\ U = V \cup {x}
    BY <2>2
  <2> HIDE DEF V
  <2>5. PICK s : Sorts(s, V, less)
    BY <1>3, <2>3, <2>4
  <2>6. \A a, b \in V \cup {x} : a # b => <<a, b>> \in less \/ <<b, a>> \in less
    BY <2>4
  <2>7. \A a, b, c \in V \cup {x} :
            <<a, b>> \in less /\ <<b, c>> \in less => <<a, c>> \in less
    BY <2>4
  <2>8. \E t : Sorts(t, V \cup {x}, less)
    BY <2>3, <2>4, <2>5, <2>6, <2>7, Inserted
  <2> QED BY <2>4, <2>8
<1> HIDE DEF T
<1>4. n \in T
  <2>1. T \in SUBSET (0 .. n)
    BY DEF T
  <2>2. T = 0 .. n
    BY <1>1, <1>2, <1>3, <2>1, Induction
  <2> QED BY <1>1, <2>2
<1> QED BY <1>4 DEF T

-----------------------------------------------------------------------------
(* Listing *)

LEMMA SortType ==
    ASSUME NEW pool \in SUBSET AllReviews, NEW sort
    PROVE  SortReviews(pool, sort) \in [1 .. Cardinality(pool) -> pool]
<1> DEFINE less == {p \in pool \X pool : Before(p[1], p[2], sort)}
           n == Cardinality(pool)
<1>1. \A a, b \in pool : <<a, b>> \in less <=> Before(a, b, sort)
  OBVIOUS
<1> HIDE DEF less
<1>2. IsFiniteSet(pool) /\ pool \subseteq Nat
  BY ReadingAssumption, FS_Subset
<1>3. \A a, b \in pool : a # b => <<a, b>> \in less \/ <<b, a>> \in less
  BY <1>1, <1>2 DEF Before
<1>4. \A a, b, c \in pool : <<a, b>> \in less /\ <<b, c>> \in less => <<a, c>> \in less
  BY <1>1, <1>2 DEF Before
<1>5. \A a \in pool : ~(<<a, a>> \in less)
  BY <1>1, <1>2 DEF Before
<1>6. PICK s : Sorts(s, pool, less)
  BY <1>2, <1>3, <1>4, Sortable
<1>7. n \in Nat
  BY <1>2, FS_CardinalityType
<1>8. /\ s \in [1 .. n -> pool]
      /\ \A x \in pool : \E i \in 1 .. n : s[i] = x
      /\ \A i, j \in 1 .. n : i < j => <<s[i], s[j]>> \in less
  BY <1>6 DEF Sorts
<1> HIDE DEF n
<1>9. ASSUME NEW k \in 1 .. n
      PROVE  Cardinality({q \in pool : Before(q, s[k], sort)}) = k - 1
  <2> DEFINE first == {q \in pool : Before(q, s[k], sort)}
             f == [i \in 1 .. k - 1 |-> s[i]]
  <2>1. \A i \in 1 .. k - 1 : i \in 1 .. n /\ s[i] \in first
    <3> SUFFICES ASSUME NEW i \in 1 .. k - 1 PROVE i \in 1 .. n /\ s[i] \in first
      OBVIOUS
    <3>1. i \in 1 .. n /\ i < k
      BY <1>7
    <3> QED BY <1>1, <1>8, <3>1
  <2>2. \A q \in first : \E i \in 1 .. k - 1 : s[i] = q
    <3> SUFFICES ASSUME NEW q \in first PROVE \E i \in 1 .. k - 1 : s[i] = q
      OBVIOUS
    <3>1. PICK i \in 1 .. n : s[i] = q
      BY <1>8
    <3>2. s[k] \in pool /\ <<s[i], s[k]>> \in less
      BY <1>1, <1>8, <3>1
    <3>3. i # k
      BY <1>5, <3>1, <3>2
    <3>4. ~(k < i)
      <4> SUFFICES ASSUME k < i PROVE FALSE
        OBVIOUS
      <4>1. <<s[k], s[i]>> \in less
        BY <1>8
      <4> QED BY <1>4, <1>5, <3>1, <3>2, <4>1
    <3>5. i \in 1 .. k - 1
      BY <1>7, <3>3, <3>4
    <3> QED BY <3>1, <3>5
  <2>3. \A i, j \in 1 .. k - 1 : s[i] = s[j] => i = j
    <3> SUFFICES ASSUME NEW i \in 1 .. k - 1, NEW j \in 1 .. k - 1, i < j PROVE s[i] # s[j]
      OBVIOUS
    <3>1. <<s[i], s[j]>> \in less /\ s[i] \in pool
      BY <1>8, <2>1
    <3> QED BY <1>5, <3>1
  <2> HIDE DEF first
  <2>4. f \in Bijection(1 .. k - 1, first)
    BY <2>1, <2>2, <2>3 DEF Bijection, Injection, Surjection, IsInjective
  <2>5. IsFiniteSet(1 .. k - 1) /\ Cardinality(1 .. k - 1) = k - 1
    BY FS_Interval
  <2>6. Cardinality(first) = k - 1
    BY <2>4, <2>5, FS_Bijection DEF ExistsBijection
  <2> QED BY <2>6 DEF first
<1>10. ASSUME NEW k \in 1 .. n
       PROVE  (CHOOSE r \in pool : Cardinality({q \in pool : Before(q, r, sort)}) = k - 1)
                  \in pool
  BY <1>8, <1>9
<1> QED BY <1>10 DEF SortReviews, n

LEMMA SortSeqType ==
    ASSUME NEW pool \in SUBSET AllReviews, NEW sort
    PROVE  /\ SortReviews(pool, sort) \in Seq(AllReviews)
           /\ \A i \in DOMAIN SortReviews(pool, sort) : SortReviews(pool, sort)[i] \in pool
<1> DEFINE s == SortReviews(pool, sort)
           n == Cardinality(pool)
<1>1. s \in [1 .. n -> pool]
  BY SortType
<1>2. n \in Nat
  BY ReadingAssumption, FS_Subset, FS_CardinalityType
<1> HIDE DEF s, n
<1>3. s \in Seq(AllReviews) /\ \A i \in DOMAIN s : s[i] \in pool
  BY <1>1, <1>2
<1> QED BY <1>3 DEF s

LEMMA CountedOff == \A k \in Nat : Cardinality(1 .. k) = k
<1> SUFFICES ASSUME NEW k \in Nat PROVE Cardinality(1 .. k) = k
  OBVIOUS
<1>1. Cardinality(1 .. k) = IF 1 > k THEN 0 ELSE k - 1 + 1
  BY FS_Interval
<1> QED BY <1>1

\* An order of which nothing has gone is kept as it is.
LEMMA RemainingAll ==
    ASSUME NEW order \in Seq(AllReviews), NEW pool, \A i \in DOMAIN order : order[i] \in pool
    PROVE  Remaining(order, pool) = order
<1> DEFINE n == Len(order)
           places == {i \in DOMAIN order : order[i] \in pool}
           nth(k) == CHOOSE i \in places : Cardinality({j \in places : j <= i}) = k
<1>1. n \in Nat /\ DOMAIN order = 1 .. n
  OBVIOUS
<1>2. places = 1 .. n
  BY <1>1
<1>3. Cardinality(places) = n
  BY <1>1, <1>2, CountedOff
<1>4. Remaining(order, pool) = [k \in 1 .. Cardinality(places) |-> order[nth(k)]]
  BY DEF Remaining
<1> HIDE DEF places, n
<1>5. ASSUME NEW i \in 1 .. n PROVE Cardinality({j \in places : j <= i}) = i
  <2>1. {j \in places : j <= i} = 1 .. i
    BY <1>1, <1>2
  <2>2. i \in Nat
    BY <1>1
  <2> QED BY <2>1, <2>2, CountedOff
<1>6. ASSUME NEW k \in 1 .. n PROVE nth(k) = k
  BY <1>2, <1>5
<1> HIDE DEF nth
<1>7. [k \in 1 .. n |-> order[nth(k)]] = order
  <2>1. [k \in 1 .. n |-> order[nth(k)]] = [k \in 1 .. n |-> order[k]]
    BY <1>6
  <2>2. order = [k \in 1 .. n |-> order[k]]
    BY <1>1
  <2> QED BY <2>1, <2>2
<1> QED BY <1>3, <1>7, <1>4

LEMMA CarouselOrderType ==
    ASSUME NEW order \in Seq(AllReviews), NEW pool \in SUBSET AllReviews, NEW sort,
           \A i \in DOMAIN order : order[i] \in pool
    PROVE  LET new == CarouselOrder(order, pool, sort) IN
           /\ new \in Seq(AllReviews) /\ Len(order) <= Len(new)
           /\ \A i \in DOMAIN new : new[i] \in pool
           /\ \A i \in DOMAIN order : i \in DOMAIN new /\ new[i] = order[i]
<1> DEFINE rest == SortReviews(pool \ Range(order), sort)
           new == order \o rest
<1>1. CarouselOrder(order, pool, sort) = new
  BY RemainingAll DEF CarouselOrder
<1>2. rest \in Seq(AllReviews) /\ \A i \in DOMAIN rest : rest[i] \in pool
  BY SortSeqType
<1> HIDE DEF rest
<1>3. new \in Seq(AllReviews) /\ Len(new) = Len(order) + Len(rest)
  BY <1>2
<1>4. Len(order) \in Nat /\ Len(rest) \in Nat
      /\ DOMAIN order = 1 .. Len(order) /\ DOMAIN rest = 1 .. Len(rest)
  BY <1>2
<1>5. DOMAIN new = 1 .. Len(order) + Len(rest)
  BY <1>3
<1>6. \A i \in DOMAIN order : i \in DOMAIN new /\ new[i] = order[i]
  BY <1>2, <1>4, <1>5
<1>7. \A i \in DOMAIN new : new[i] \in pool
  <2> SUFFICES ASSUME NEW i \in DOMAIN new PROVE new[i] \in pool
    OBVIOUS
  <2>1. CASE i \in DOMAIN order
    BY <1>6, <2>1
  <2>2. CASE i \notin DOMAIN order
    <3>1. i \in 1 .. Len(order) + Len(rest) /\ i > Len(order)
      BY <1>4, <1>5, <2>2
    <3>2. new[i] = rest[i - Len(order)] /\ i - Len(order) \in DOMAIN rest
      BY <1>2, <1>4, <3>1
    <3> QED BY <1>2, <3>2
  <2> QED BY <2>1, <2>2
<1> HIDE DEF new
<1> QED BY <1>1, <1>3, <1>4, <1>6, <1>7

-----------------------------------------------------------------------------
(* The invariant *)

Listings == [filters : SUBSET {"high"}, sort : {"newest", "highest"},
             visible : Nat, page : Nat, order : Seq(AllReviews)]

Screens == [cards : Seq(AllReviews), found : SUBSET AllReviews, position : Nat]

Feeds == [offset : Nat, seen : SUBSET AllReviews, exhausted : BOOLEAN, stalled : BOOLEAN,
          moreError : {"", "failed", "repeats"}, loadingMore : BOOLEAN]

Views == [listing : Listings, screen : Screens, moreError : {"", "failed", "repeats"}]

ListTyped ==
    /\ reviews \subseteq AllReviews /\ listing \in Listings /\ screen \in Screens
    /\ view = NoView \/ view \in Views

WidgetTyped ==
    /\ hasFeed \in BOOLEAN /\ incomplete \in BOOLEAN
    /\ source \in {"none", "loading", "loaded", "failed"}
    /\ node \in {"connected", "removed", "destroyed"}
    /\ config \in Configs
    /\ tab \in {"reviews", "questions"}
    /\ viewer \in BOOLEAN /\ paused \in BOOLEAN

FeedTyped ==
    feed \in Seq(AllReviews) /\ old \subseteq AllReviews /\ hidden \in BOOLEAN

\* While the first source is asked nothing is listed, and the feed is not read.
SourceFirst ==
    source = "loading" =>
        /\ ~remote.exhausted /\ ~remote.loadingMore
        /\ listing.order = <<>>
        /\ DialogOpen => view.listing.order = <<>>

\* What a carousel has shown is still listed.
OrderHeld(l) ==
    \A i \in DOMAIN l.order : l.order[i] \in FilterReviewPool(reviews, l.filters, config)

OrdersHeld == OrderHeld(listing) /\ (DialogOpen => OrderHeld(view.listing))

\* The cards of a carousel are the first of its order, and the reader is at one.
Placed(l, s) ==
    /\ \A i \in DOMAIN s.cards : i \in DOMAIN l.order /\ s.cards[i] = l.order[i]
    /\ s.position > 0 => s.position < Len(s.cards)

CardsPlaced ==
    config.mode = "carousel" =>
        IF DialogOpen THEN Placed(view.listing, view.screen) ELSE Placed(listing, screen)

\* Nothing of the first time is missed behind the offset.
FeedRead ==
    ~hidden =>
        /\ \A r \in old : \E i \in DOMAIN feed : feed[i] = r
        /\ \A i \in DOMAIN feed : i <= remote.offset /\ feed[i] \in old => feed[i] \in reviews
        /\ remote.exhausted => old \subseteq reviews
        /\ ~hasFeed /\ source \notin {"loading", "failed"} /\ ~incomplete => old \subseteq reviews

FeedInv ==
    /\ FeedTyped /\ WidgetTyped /\ ListTyped /\ remote \in Feeds
    /\ SourceFirst /\ OrdersHeld /\ CardsPlaced /\ FeedRead

-----------------------------------------------------------------------------
(* render *)

LEMMA PlaceType ==
    ASSUME NEW position \in Nat, NEW cards \in Seq(AllReviews)
    PROVE  /\ Place(position, cards) \in Nat
           /\ Place(position, cards) > 0 => Place(position, cards) < Len(cards)
           /\ position = 0 => Place(position, cards) = 0
<1>1. Len(cards) \in Nat /\ (cards # <<>> => Len(cards) > 0)
  OBVIOUS
<1>2. CASE cards = <<>>
  BY <1>2 DEF Place
<1>3. CASE cards # <<>>
  BY <1>1, <1>3 DEF Place, Least
<1> QED BY <1>2, <1>3

\* What is shown of an order: a part of it, from its first without pages.
LEMMA Shown ==
    ASSUME NEW order \in Seq(AllReviews), NEW n \in Nat
    PROVE  LET cards == SubSeq(order, 1, Least(n, Len(order))) IN
           /\ cards \in Seq(AllReviews)
           /\ \A i \in DOMAIN cards : i \in DOMAIN order /\ cards[i] = order[i]
<1> DEFINE m == Least(n, Len(order))
<1>1. m \in Nat /\ m <= Len(order)
  BY DEF Least
<1> HIDE DEF m
<1> DEFINE cards == SubSeq(order, 1, m)
<1>2. /\ cards \in Seq(AllReviews)
      /\ \A i \in DOMAIN cards : i \in DOMAIN order /\ cards[i] = order[i]
  BY <1>1
<1> HIDE DEF cards
<1> QED BY <1>2 DEF cards, m

LEMMA PageShown ==
    ASSUME NEW order \in Seq(AllReviews), NEW page \in Nat
    PROVE  SubSeq(order, page * PageSize + 1, Least((page + 1) * PageSize, Len(order)))
               \in Seq(AllReviews)
<1> DEFINE a == page * PageSize + 1
           b == Least((page + 1) * PageSize, Len(order))
<1>1. PageSize \in Nat
  BY ReadingAssumption
<1>2. page * PageSize \in Nat /\ (page + 1) * PageSize \in Nat
  BY <1>1
<1>3. a \in Nat /\ b \in Nat /\ a >= 1 /\ b <= Len(order)
  BY <1>2 DEF Least
<1> HIDE DEF a, b
<1>4. SubSeq(order, a, b) \in Seq(AllReviews)
  BY <1>3
<1> QED BY <1>4 DEF a, b

\* The three ends of render.
LEMMA RenderEnds ==
    ASSUME NEW l \in Listings, NEW s \in Screens, NEW r \in SUBSET AllReviews,
           RenderList(l, r, s), tab' \in {"reviews", "questions"},
           \A i \in DOMAIN l.order : l.order[i] \in FilterReviewPool(r, l.filters, config')
    PROVE  /\ reviews' = r
           /\ \/ /\ tab' = "questions" /\ listing' = l /\ screen' = s
              \/ /\ tab' = "reviews" /\ source' \in {"loading", "failed"}
                 /\ listing' = l /\ screen' = [s EXCEPT !.cards = <<>>, !.position = 0]
              \/ /\ tab' = "reviews" /\ source' \notin {"loading", "failed"}
                 /\ \E order \in Seq(AllReviews), cards \in Seq(AllReviews), page \in Nat,
                       found \in SUBSET AllReviews :
                      /\ listing' = [l EXCEPT !.page = page, !.order = order]
                      /\ screen' = [cards |-> cards, found |-> found,
                                    position |-> Place(s.position, cards)]
                      /\ \A i \in DOMAIN order : order[i] \in FilterReviewPool(r, l.filters, config')
                      /\ view' = NoView /\ config'.mode = "carousel" =>
                            /\ \A i \in DOMAIN l.order :
                                  i \in DOMAIN order /\ order[i] = l.order[i]
                            /\ \A i \in DOMAIN cards : i \in DOMAIN order /\ cards[i] = order[i]
<1> DEFINE carousel == view' = NoView /\ config'.mode = "carousel"
           paged    == view' = NoView /\ ~carousel /\ config'.pagination = "pages"
           found    == FilterReviewPool(r, l.filters, config')
           order    == IF carousel THEN CarouselOrder(l.order, found, l.sort)
                                   ELSE SortReviews(found, l.sort)
           page     == IF paged /\ l.page >= PageCount(found) THEN 0 ELSE l.page
           cards    == IF paged
                       THEN SubSeq(order, page * PageSize + 1,
                                   Least((page + 1) * PageSize, Len(order)))
                       ELSE SubSeq(order, 1, Least(l.visible, Len(order)))
           kept     == IF carousel THEN order ELSE l.order
<1>1. /\ reviews' = r
      /\ CASE tab' = "questions" ->
                 listing' = l /\ screen' = s
           [] tab' = "reviews" /\ source' \in {"loading", "failed"} ->
                 listing' = l /\ screen' = [s EXCEPT !.cards = <<>>, !.position = 0]
           [] OTHER ->
                 /\ listing' = [l EXCEPT !.page = page,
                                         !.order = IF carousel THEN order ELSE @]
                 /\ screen' = [cards |-> cards, found |-> found,
                               position |-> Place(s.position, cards)]
  BY DEF RenderList
<1>2. found \in SUBSET AllReviews /\ l.order \in Seq(AllReviews)
      /\ l.page \in Nat /\ l.visible \in Nat
  BY DEF FilterReviewPool, Listings
<1>3. page \in Nat
  BY <1>2
<1> HIDE DEF found
<1>4. order \in Seq(AllReviews)
      /\ (carousel => /\ \A i \in DOMAIN order : order[i] \in found
                      /\ \A i \in DOMAIN l.order : i \in DOMAIN order /\ order[i] = l.order[i])
  <2>1. CASE carousel
    <3>1. order = CarouselOrder(l.order, found, l.sort)
      BY <2>1
    <3>2. \A i \in DOMAIN l.order : l.order[i] \in found
      BY DEF found
    <3> HIDE DEF order
    <3> QED BY <1>2, <3>1, <3>2, CarouselOrderType
  <2>2. CASE ~carousel
    BY <1>2, <2>2, SortSeqType
  <2> QED BY <2>1, <2>2
<1> HIDE DEF page, order
<1>5. cards \in Seq(AllReviews)
      /\ (carousel => \A i \in DOMAIN cards : i \in DOMAIN order /\ cards[i] = order[i])
  <2>1. CASE paged
    BY <1>3, <1>4, <2>1, PageShown
  <2>2. CASE ~paged
    <3>1. cards = SubSeq(order, 1, Least(l.visible, Len(order)))
      BY <2>2
    <3> QED BY <1>2, <1>4, <3>1, Shown
  <2> QED BY <2>1, <2>2
<1> HIDE DEF cards
<1>6. kept \in Seq(AllReviews) /\ \A i \in DOMAIN kept : kept[i] \in found
  BY <1>2, <1>4 DEF found
<1>7. [l EXCEPT !.page = page, !.order = IF carousel THEN order ELSE @]
          = [l EXCEPT !.page = page, !.order = kept]
  BY DEF Listings
<1>8. carousel => kept = order
  OBVIOUS
<1> HIDE DEF kept
<1>9. CASE tab' = "reviews" /\ source' \notin {"loading", "failed"}
  <2>1. listing' = [l EXCEPT !.page = page, !.order = kept]
        /\ screen' = [cards |-> cards, found |-> found, position |-> Place(s.position, cards)]
    BY <1>1, <1>7, <1>9
  <2> QED BY <1>1, <1>2, <1>3, <1>4, <1>5, <1>6, <1>8, <1>9, <2>1 DEF found
<1> QED BY <1>1, <1>9

LEMMA Rendered ==
    ASSUME NEW l \in Listings, NEW s \in Screens, NEW r \in SUBSET AllReviews,
           RenderList(l, r, s), tab' \in {"reviews", "questions"},
           \A i \in DOMAIN l.order : l.order[i] \in FilterReviewPool(r, l.filters, config')
    PROVE  /\ reviews' = r /\ listing' \in Listings /\ screen' \in Screens
           /\ OrderHeld(listing)'
           /\ l.order = <<>> /\ source' = "loading" => listing'.order = <<>>
           /\ /\ view' = NoView /\ config'.mode = "carousel"
              /\ tab' = "reviews" \/ Placed(l, s)
              => Placed(listing', screen')
           /\ s.position = 0 => screen'.position = 0
           /\ /\ view' = NoView /\ config'.mode = "carousel"
              /\ Placed(l, s) /\ s.position > 0 /\ screen'.position = s.position
              => screen'.cards[s.position + 1] = s.cards[s.position + 1]
<1> DEFINE pool == FilterReviewPool(r, l.filters, config')
           first == tab' = "questions" /\ listing' = l /\ screen' = s
           second == /\ tab' = "reviews" /\ source' \in {"loading", "failed"}
                     /\ listing' = l /\ screen' = [s EXCEPT !.cards = <<>>, !.position = 0]
<1>1. /\ reviews' = r
      /\ \/ first \/ second
         \/ /\ tab' = "reviews" /\ source' \notin {"loading", "failed"}
            /\ \E order \in Seq(AllReviews), cards \in Seq(AllReviews), page \in Nat,
                  found \in SUBSET AllReviews :
                 /\ listing' = [l EXCEPT !.page = page, !.order = order]
                 /\ screen' = [cards |-> cards, found |-> found,
                               position |-> Place(s.position, cards)]
                 /\ \A i \in DOMAIN order : order[i] \in pool
                 /\ view' = NoView /\ config'.mode = "carousel" =>
                       /\ \A i \in DOMAIN l.order : i \in DOMAIN order /\ order[i] = l.order[i]
                       /\ \A i \in DOMAIN cards : i \in DOMAIN order /\ cards[i] = order[i]
  BY RenderEnds
<1>2. CASE first
  BY <1>1, <1>2 DEF OrderHeld
<1>3. CASE second
  <2>1. screen' \in Screens /\ screen'.cards = <<>> /\ screen'.position = 0
    <3>1. <<>> \in Seq(AllReviews)
      OBVIOUS
    <3>2. screen' = [cards |-> <<>>, found |-> s.found, position |-> 0]
      BY <1>3 DEF Screens
    <3> QED BY <3>1, <3>2 DEF Screens
  <2>2. Placed(listing', screen')
    <3>1. DOMAIN screen'.cards = {}
      BY <2>1
    <3> QED BY <2>1, <3>1 DEF Placed
  <2>3. OrderHeld(listing)' /\ listing' = l
    BY <1>1, <1>3 DEF OrderHeld
  <2>4. ~(s.position > 0 /\ screen'.position = s.position)
    BY <2>1
  <2>5. listing' \in Listings /\ (l.order = <<>> => listing'.order = <<>>)
    BY <2>3
  <2> HIDE DEF first, second
  <2> QED BY <1>1, <2>1, <2>2, <2>3, <2>4, <2>5
<1>4. CASE ~first /\ ~second
  <2>1. PICK order \in Seq(AllReviews), cards \in Seq(AllReviews), page \in Nat,
             found \in SUBSET AllReviews :
                 /\ listing' = [l EXCEPT !.page = page, !.order = order]
                 /\ screen' = [cards |-> cards, found |-> found,
                               position |-> Place(s.position, cards)]
                 /\ \A i \in DOMAIN order : order[i] \in pool
                 /\ view' = NoView /\ config'.mode = "carousel" =>
                       /\ \A i \in DOMAIN l.order : i \in DOMAIN order /\ order[i] = l.order[i]
                       /\ \A i \in DOMAIN cards : i \in DOMAIN order /\ cards[i] = order[i]
    BY <1>1, <1>4
  <2>2. source' # "loading"
    BY <1>1, <1>4
  <2>3. listing' \in Listings /\ listing'.order = order /\ listing'.filters = l.filters
    BY <2>1 DEF Listings
  <2>4. s.position \in Nat /\ s.cards \in Seq(AllReviews)
    BY DEF Screens
  <2> DEFINE place == Place(s.position, cards)
  <2>5. /\ place \in Nat /\ (place > 0 => place < Len(cards))
        /\ (s.position = 0 => place = 0)
    BY <2>4, PlaceType
  <2>6. screen' \in Screens /\ screen'.cards = cards /\ screen'.position = place
    BY <2>1, <2>5 DEF Screens
  <2> HIDE DEF place, first, second
  <2>7. OrderHeld(listing)'
    BY <1>1, <2>1, <2>3 DEF OrderHeld
  <2>8. ASSUME view' = NoView, config'.mode = "carousel" PROVE Placed(listing', screen')
    BY <2>1, <2>3, <2>5, <2>6, <2>8 DEF Placed
  <2>9. ASSUME view' = NoView, config'.mode = "carousel", Placed(l, s),
               s.position > 0, screen'.position = s.position
        PROVE  screen'.cards[s.position + 1] = s.cards[s.position + 1]
    <3> DEFINE p == s.position + 1
    <3>1. p \in DOMAIN cards
      BY <2>4, <2>5, <2>6, <2>9
    <3>2. p \in DOMAIN s.cards
      BY <2>4, <2>9 DEF Placed
    <3>3. cards[p] = order[p]
      BY <2>1, <2>9, <3>1
    <3>4. s.cards[p] = l.order[p] /\ p \in DOMAIN l.order
      BY <2>9, <3>2 DEF Placed
    <3>5. order[p] = l.order[p]
      BY <2>1, <2>9, <3>4
    <3> QED BY <2>6, <3>3, <3>4, <3>5
  <2> QED BY <1>1, <2>2, <2>3, <2>5, <2>6, <2>7, <2>8, <2>9
<1> QED BY <1>2, <1>3, <1>4

-----------------------------------------------------------------------------
(* The feed between two answers *)

\* n comes of m without an answer.
Carried(m, n) ==
    /\ n \in Feeds /\ n.offset = m.offset /\ n.exhausted = m.exhausted
    /\ n.loadingMore => m.loadingMore \/ source' # "loading"

LEMMA FeedsCarried ==
    ASSUME NEW m \in Feeds, source' \in {"none", "loading", "loaded", "failed"}
    PROVE  /\ Carried(m, m) /\ Carried(m, CancelMoreReviews(m))
           /\ Carried(m, LoadAllReviews(m)) /\ Carried(m, RenderedFeed(m))
           /\ source' # "loading" => Carried(m, LoadMoreReviews(m))
<1>1. Carried(m, m) /\ Carried(m, CancelMoreReviews(m))
  BY DEF Carried, Feeds, CancelMoreReviews
<1>2. /\ LoadMoreReviews(m) \in Feeds /\ LoadMoreReviews(m).offset = m.offset
      /\ LoadMoreReviews(m).exhausted = m.exhausted
  BY DEF Feeds, LoadMoreReviews
<1>3. source' # "loading" => Carried(m, LoadMoreReviews(m))
  BY <1>2 DEF Carried
<1>4. LoadAllReviews(m) = m \/ (LoadAllReviews(m) = LoadMoreReviews(m) /\ source' # "loading")
  BY DEF LoadAllReviews, CanLoadMore
<1>5. Carried(m, LoadAllReviews(m))
  BY <1>1, <1>3, <1>4
<1> QED BY <1>1, <1>3, <1>5 DEF RenderedFeed

\* The error is taken off the feed.
LEMMA ErrorsCarried ==
    ASSUME NEW m \in Feeds, NEW n \in Feeds, Carried(m, n),
           NEW e \in {"", "failed", "repeats"}
    PROVE  Carried(m, [n EXCEPT !.moreError = e])
  BY DEF Carried, Feeds

LEMMA CarriedOn ==
    ASSUME NEW m \in Feeds, NEW n, NEW k, Carried(m, n), Carried(n, k)
    PROVE  Carried(m, k)
  BY DEF Carried

-----------------------------------------------------------------------------
(* Steps of the reader and of the page around the widget *)

\* A card the reader of a carousel is at stays.
CardStays ==
    /\ ~DialogOpen /\ view' = NoView
    /\ config.mode = "carousel" /\ config'.mode = "carousel"
    /\ screen.position > 0 /\ screen'.position = screen.position
    => screen'.cards[screen.position + 1] = screen.cards[screen.position + 1]

WidgetStep ==
    /\ UNCHANGED <<server, given, reviews>>
    /\ Carried(remote, remote')
    /\ WidgetTyped' /\ ListTyped' /\ OrdersHeld' /\ CardsPlaced'
    /\ source = "loading" => /\ listing'.order = <<>>
                             /\ view' # NoView => view'.listing.order = <<>>
    /\ CardStays

LEMMA PageKeeps ==
    ASSUME FeedInv, WidgetStep
    PROVE  FeedInv' /\ CardStays
<1>1. FeedTyped' /\ remote' \in Feeds
  BY DEF FeedInv, WidgetStep, FeedTyped, Carried, server
<1>2. SourceFirst'
  BY DEF FeedInv, WidgetStep, SourceFirst, Carried, given, DialogOpen
<1>3. FeedRead'
  BY DEF FeedInv, WidgetStep, FeedRead, Carried, server, given
<1> QED BY <1>1, <1>2, <1>3 DEF FeedInv, WidgetStep

\* render with the reviews at hand: on the list as it was, on one that starts
\* over, in a new shell, or in a dialog that opens.
LEMMA RenderSteps ==
    ASSUME FeedInv, NEW l \in Listings, NEW s \in Screens, RenderList(l, reviews, s),
           UNCHANGED <<server, given>>, Carried(remote, remote'), WidgetTyped',
           \/ /\ view' = view /\ config' = config
              /\ l.order = listing.order /\ l.filters = listing.filters /\ s = screen
           \/ /\ view' = view /\ config' = config
              /\ l.order = <<>> /\ s.position = 0 /\ tab' = "reviews"
           \/ /\ view' = NoView
              /\ l.order = <<>> /\ s.position = 0 /\ s.cards = <<>>
           \/ /\ ~DialogOpen /\ view' \in Views /\ config' = config /\ tab' = "reviews"
              /\ view'.listing = listing /\ view'.screen = screen
              /\ l.order = listing.order /\ l.filters = listing.filters /\ s.position = 0
    PROVE  WidgetStep
<1> USE DEF FeedInv
<1>1. reviews \in SUBSET AllReviews /\ listing \in Listings /\ screen \in Screens
  BY DEF ListTyped
<1>2. tab' \in {"reviews", "questions"}
  BY DEF WidgetTyped
<1>3. \A i \in DOMAIN l.order : l.order[i] \in FilterReviewPool(reviews, l.filters, config')
  <2>1. CASE l.order = <<>>
    <3>1. DOMAIN l.order = {}
      BY <2>1
    <3> QED BY <3>1
  <2>2. CASE l.order = listing.order /\ l.filters = listing.filters /\ config' = config
    BY <2>2 DEF OrdersHeld, OrderHeld
  <2> QED BY <2>1, <2>2
<1>4. /\ reviews' = reviews /\ listing' \in Listings /\ screen' \in Screens
      /\ OrderHeld(listing)'
      /\ l.order = <<>> /\ source' = "loading" => listing'.order = <<>>
      /\ /\ view' = NoView /\ config'.mode = "carousel"
         /\ tab' = "reviews" \/ Placed(l, s)
         => Placed(listing', screen')
      /\ s.position = 0 => screen'.position = 0
      /\ /\ view' = NoView /\ config'.mode = "carousel"
         /\ Placed(l, s) /\ s.position > 0 /\ screen'.position = s.position
         => screen'.cards[s.position + 1] = s.cards[s.position + 1]
  BY <1>1, <1>2, <1>3, Rendered
<1>5. UNCHANGED <<server, given, reviews>> /\ source' = source
  BY <1>4 DEF given
<1>6. ListTyped'
  BY <1>4 DEF ListTyped
<1>7. source = "loading" => /\ listing'.order = <<>>
                            /\ view' # NoView => view'.listing.order = <<>>
  BY <1>4, <1>5 DEF SourceFirst, DialogOpen
<1>8. s.position = 0 => CardStays
  BY <1>4 DEF CardStays
<1>9. ASSUME NEW k, OrderHeld(k), config' = config
      PROVE  \A i \in DOMAIN k.order : k.order[i] \in FilterReviewPool(reviews', k.filters, config')
  BY <1>4, <1>9 DEF OrderHeld
<1>10. CASE /\ view' = view /\ config' = config
            /\ l.order = listing.order /\ l.filters = listing.filters /\ s = screen
  <2>1. OrdersHeld'
    BY <1>4, <1>9, <1>10 DEF OrdersHeld, OrderHeld, DialogOpen
  <2>2. ~DialogOpen /\ config.mode = "carousel" => Placed(l, s)
    BY <1>10 DEF CardsPlaced, Placed
  <2>3. CardsPlaced'
    BY <1>4, <1>10, <2>2 DEF CardsPlaced, DialogOpen
  <2>4. CardStays
    BY <1>4, <1>10, <2>2 DEF CardStays, DialogOpen
  <2> QED BY <1>5, <1>6, <1>7, <2>1, <2>3, <2>4 DEF WidgetStep
<1>11. CASE /\ view' = view /\ config' = config
            /\ l.order = <<>> /\ s.position = 0 /\ tab' = "reviews"
  <2>1. OrdersHeld'
    BY <1>4, <1>9, <1>11 DEF OrdersHeld, OrderHeld, DialogOpen
  <2>2. CardsPlaced'
    BY <1>4, <1>11 DEF CardsPlaced, DialogOpen
  <2> QED BY <1>5, <1>6, <1>7, <1>8, <1>11, <2>1, <2>2 DEF WidgetStep
<1>12. CASE view' = NoView /\ l.order = <<>> /\ s.position = 0 /\ s.cards = <<>>
  <2>1. OrdersHeld'
    BY <1>4, <1>12 DEF OrdersHeld, DialogOpen
  <2>2. DOMAIN s.cards = {}
    BY <1>12
  <2>3. Placed(l, s)
    BY <1>12, <2>2 DEF Placed
  <2>4. CardsPlaced'
    BY <1>4, <1>12, <2>3 DEF CardsPlaced, DialogOpen
  <2> QED BY <1>5, <1>6, <1>7, <1>8, <1>12, <2>1, <2>4 DEF WidgetStep
<1>13. CASE /\ ~DialogOpen /\ view' \in Views /\ config' = config /\ tab' = "reviews"
            /\ view'.listing = listing /\ view'.screen = screen
            /\ l.order = listing.order /\ l.filters = listing.filters /\ s.position = 0
  <2>1. OrdersHeld'
    BY <1>4, <1>9, <1>13 DEF OrdersHeld, OrderHeld, DialogOpen
  <2>2. CardsPlaced'
    BY <1>4, <1>13 DEF CardsPlaced, DialogOpen
  <2> QED BY <1>5, <1>6, <1>7, <1>8, <1>13, <2>1, <2>2 DEF WidgetStep
<1> QED BY <1>10, <1>11, <1>12, <1>13

LEMMA ListStill ==
    ASSUME FeedInv, UNCHANGED <<server, given, config, reviews, listing, view>>,
           \/ UNCHANGED screen
           \/ /\ ~DialogOpen
              /\ \E p \in Nat : p < Len(screen.cards)
                                /\ screen' = [screen EXCEPT !.position = p],
           Carried(remote, remote'), WidgetTyped'
    PROVE  WidgetStep
<1> USE DEF FeedInv
<1>1. screen \in Screens
  BY DEF ListTyped
<1>2. screen' \in Screens /\ screen'.cards = screen.cards
  BY <1>1 DEF Screens
<1>3. ListTyped'
  BY <1>2 DEF ListTyped
<1>4. OrdersHeld'
  BY DEF OrdersHeld, OrderHeld, DialogOpen
<1>5. CardsPlaced'
  <2>1. CASE UNCHANGED screen
    BY <2>1 DEF CardsPlaced, DialogOpen
  <2>2. CASE ~DialogOpen /\ \E p \in Nat : p < Len(screen.cards)
                                            /\ screen' = [screen EXCEPT !.position = p]
    <3>1. screen'.position < Len(screen.cards)
      BY <1>1, <2>2 DEF Screens
    <3> QED BY <1>2, <2>2, <3>1 DEF CardsPlaced, DialogOpen, Placed
  <2> QED BY <2>1, <2>2
<1>6. CardStays
  BY <1>2 DEF CardStays
<1>7. source = "loading" => /\ listing'.order = <<>>
                            /\ view' # NoView => view'.listing.order = <<>>
  BY DEF SourceFirst, DialogOpen
<1> QED BY <1>3, <1>4, <1>5, <1>6, <1>7 DEF WidgetStep

\* The list as it was before the dialog.
LEMMA Restored ==
    ASSUME FeedInv, UNCHANGED <<server, given, config, reviews>>, WidgetTyped',
           DialogOpen, Restore(view), view' = NoView
    PROVE  WidgetStep
<1> USE DEF FeedInv
<1>1. view \in Views /\ remote \in Feeds
  BY DEF ListTyped, DialogOpen
<1>2. listing' = view.listing /\ listing' \in Listings
      /\ screen' = [view.screen EXCEPT
                       !.found = FilterReviewPool(reviews, view.listing.filters, config)]
      /\ remote' = [CancelMoreReviews(remote) EXCEPT !.moreError = view.moreError]
  BY <1>1 DEF Restore, SavedListing, Views
<1>3. FilterReviewPool(reviews, view.listing.filters, config) \in SUBSET AllReviews
  BY DEF ListTyped, FilterReviewPool
<1>4. /\ screen' \in Screens /\ screen'.cards = view.screen.cards
      /\ screen'.position = view.screen.position
  BY <1>1, <1>2, <1>3 DEF Views, Screens
<1>5. ListTyped'
  BY <1>2, <1>4 DEF ListTyped
<1>6. OrdersHeld'
  BY <1>2 DEF OrdersHeld, OrderHeld, DialogOpen
<1>7. CardsPlaced'
  BY <1>2, <1>4 DEF CardsPlaced, DialogOpen, Placed
<1>8. source' \in {"none", "loading", "loaded", "failed"} /\ source' = source
  BY DEF WidgetTyped, given
<1>9. Carried(remote, remote')
  <2>1. view.moreError \in {"", "failed", "repeats"}
    BY <1>1 DEF Views
  <2>2. Carried(remote, CancelMoreReviews(remote)) /\ CancelMoreReviews(remote) \in Feeds
    BY <1>1, <1>8, FeedsCarried DEF Carried
  <2> QED BY <1>1, <1>2, <2>1, <2>2, ErrorsCarried
<1>10. source = "loading" => /\ listing'.order = <<>>
                             /\ view' # NoView => view'.listing.order = <<>>
  BY <1>2 DEF SourceFirst
<1> QED BY <1>5, <1>6, <1>7, <1>9, <1>10 DEF WidgetStep, CardStays

-----------------------------------------------------------------------------
(* The actions of the reader *)

\* A listing with more cards or another page.
LEMMA Paging ==
    ASSUME NEW l \in Listings
    PROVE  /\ \A n \in Nat : [l EXCEPT !.visible = n] \in Listings
           /\ \A n \in Nat : [l EXCEPT !.page = n] \in Listings
           /\ [l EXCEPT !.visible = @ + PageSize] \in Listings
           /\ [l EXCEPT !.visible = @ + PageSize].order = l.order
           /\ [l EXCEPT !.visible = @ + PageSize].filters = l.filters
           /\ \A n \in Nat : [l EXCEPT !.page = n].order = l.order
           /\ \A n \in Nat : [l EXCEPT !.page = n].filters = l.filters
  BY ReadingAssumption DEF Listings

LEMMA DialogSizes == Most(DialogSize, PageSize) \in Nat /\ PageSize \in Nat
  BY ReadingAssumption DEF Most

LEMMA Topped ==
    ASSUME NEW s \in Screens
    PROVE  Top(s) \in Screens /\ Top(s).position = 0
  BY DEF Screens, Top

LEMMA ClickSteps ==
    ASSUME FeedInv, ClickLoadMore
    PROVE  WidgetStep
<1> USE DEF FeedInv
<1>1. listing \in Listings /\ screen \in Screens /\ remote \in Feeds
  BY DEF ListTyped
<1>2. /\ UNCHANGED <<server, given, node, config, tab, viewer, paused, view>>
      /\ source' = source /\ source # "loading"
  BY DEF ClickLoadMore, Still, given, LoadMoreReady
<1>3. WidgetTyped' /\ source' \in {"none", "loading", "loaded", "failed"}
  BY <1>2 DEF WidgetTyped, given
<1>4. CASE Retry
  <2> DEFINE m == [remote EXCEPT !.stalled = FALSE, !.moreError = "", !.seen = {}]
  <2>1. m \in Feeds /\ Carried(remote, m)
    BY <1>1 DEF Feeds, Carried
  <2>2. remote' = LoadMoreReviews(m) /\ RenderList(listing, reviews, screen)
    BY <1>4 DEF Retry
  <2>3. Carried(m, remote')
    BY <1>2, <1>3, <2>1, <2>2, FeedsCarried
  <2>4. Carried(remote, remote')
    BY <1>1, <2>1, <2>3, CarriedOn
  <2> QED BY <1>1, <1>2, <1>3, <2>2, <2>4, RenderSteps
<1>5. CASE ShowMore
  <2> DEFINE l == [listing EXCEPT !.visible = @ + PageSize]
  <2>1. l \in Listings /\ l.order = listing.order /\ l.filters = listing.filters
    BY <1>1, Paging
  <2>2. remote' = RenderedFeed(remote) /\ RenderList(l, reviews, screen)
    BY <1>5 DEF ShowMore
  <2>3. Carried(remote, remote')
    BY <1>1, <1>3, <2>2, FeedsCarried
  <2> HIDE DEF l
  <2> QED BY <1>1, <1>2, <1>3, <2>1, <2>2, <2>3, RenderSteps
<1>6. CASE AskForMore
  <2>1. remote' = LoadMoreReviews(remote) /\ RenderList(listing, reviews, screen)
    BY <1>6 DEF AskForMore
  <2>2. Carried(remote, remote')
    BY <1>1, <1>2, <1>3, <2>1, FeedsCarried
  <2> QED BY <1>1, <1>2, <1>3, <2>1, <2>2, RenderSteps
<1> QED BY <1>4, <1>5, <1>6 DEF ClickLoadMore

LEMMA OpenSteps ==
    ASSUME FeedInv, OpenAllReviews
    PROVE  WidgetStep
<1> USE DEF FeedInv
<1>1. listing \in Listings /\ screen \in Screens /\ remote \in Feeds
  BY DEF ListTyped
<1> DEFINE l == [listing EXCEPT !.visible = Most(DialogSize, PageSize), !.page = 0]
           m == [CancelMoreReviews(remote) EXCEPT !.moreError = ""]
<1>2. /\ UNCHANGED <<server, given, node, config, tab, viewer, paused>>
      /\ source' = source /\ tab' = "reviews" /\ ~DialogOpen
      /\ view' = [listing |-> listing, screen |-> screen, moreError |-> remote.moreError]
      /\ RenderList(l, reviews, Top(screen)) /\ remote' = LoadAllReviews(m)
  BY DEF OpenAllReviews, Reading, OpensDialog, Still, given
<1>3. WidgetTyped' /\ source' \in {"none", "loading", "loaded", "failed"}
  BY <1>2 DEF WidgetTyped, given
<1>4. /\ l \in Listings /\ l.order = listing.order /\ l.filters = listing.filters
  BY <1>1, DialogSizes DEF Listings
<1>5. Carried(remote, m) /\ m \in Feeds
  <2>1. Carried(remote, CancelMoreReviews(remote)) /\ CancelMoreReviews(remote) \in Feeds
    BY <1>1, <1>3, FeedsCarried DEF Carried
  <2>2. Carried(remote, m)
    BY <1>1, <2>1, ErrorsCarried
  <2> QED BY <2>2 DEF Carried
<1> HIDE DEF l, m
<1>6. Carried(remote, remote')
  BY <1>1, <1>2, <1>3, <1>5, FeedsCarried, CarriedOn
<1>7. view' \in Views /\ view'.listing = listing /\ view'.screen = screen
  BY <1>1, <1>2 DEF Views, Feeds
<1>8. Top(screen) \in Screens /\ Top(screen).position = 0
  BY <1>1, Topped
<1> QED BY <1>2, <1>3, <1>4, <1>6, <1>7, <1>8, RenderSteps

LEMMA RelistSteps ==
    ASSUME FeedInv, NEW l \in Listings, Relist(l)
    PROVE  WidgetStep
<1> USE DEF FeedInv
<1>1. screen \in Screens /\ remote \in Feeds
  BY DEF ListTyped
<1> DEFINE k == ResetListingState(l)
<1>2. /\ UNCHANGED <<server, given, node, config, tab, viewer, view>>
      /\ source' = source /\ tab' = "reviews" /\ paused' = FALSE
      /\ RenderList(k, reviews, Top(screen)) /\ remote' = RenderedFeed(remote)
  BY DEF Relist, Reading, Still, given
<1>3. WidgetTyped' /\ source' \in {"none", "loading", "loaded", "failed"}
  BY <1>2 DEF WidgetTyped, given
<1>4. k \in Listings /\ k.order = <<>>
  <2>1. <<>> \in Seq(AllReviews)
    OBVIOUS
  <2>2. (IF DialogOpen THEN Most(DialogSize, PageSize) ELSE PageSize) \in Nat
    BY DialogSizes
  <2> QED BY <2>1, <2>2 DEF ResetListingState, Listings
<1> HIDE DEF k
<1>5. Carried(remote, remote')
  BY <1>1, <1>2, <1>3, FeedsCarried
<1>6. Top(screen) \in Screens /\ Top(screen).position = 0
  BY <1>1, Topped
<1> QED BY <1>2, <1>3, <1>4, <1>5, <1>6, RenderSteps

LEMMA RelistingSteps ==
    ASSUME FeedInv, ToggleFilter \/ Sort \/ ResetFilters
    PROVE  WidgetStep
<1>1. listing \in Listings
  BY DEF FeedInv, ListTyped
<1>2. CASE ToggleFilter
  <2> DEFINE l == [listing EXCEPT !.filters = IF @ = {} THEN {"high"} ELSE {}]
  <2>1. l \in Listings
    BY <1>1 DEF Listings
  <2>2. Relist(l)
    BY <1>2 DEF ToggleFilter
  <2> HIDE DEF l
  <2> QED BY <2>1, <2>2, RelistSteps
<1>3. CASE Sort
  <2>1. PICK s \in {"newest", "highest"} : Relist([listing EXCEPT !.sort = s])
    BY <1>3 DEF Sort
  <2> DEFINE l == [listing EXCEPT !.sort = s]
  <2>2. l \in Listings
    BY <1>1 DEF Listings
  <2>3. Relist(l)
    BY <2>1
  <2> HIDE DEF l
  <2> QED BY <2>2, <2>3, RelistSteps
<1>4. CASE ResetFilters
  <2> DEFINE l == [listing EXCEPT !.filters = {}, !.sort = "newest"]
  <2>1. l \in Listings
    BY <1>1 DEF Listings
  <2>2. Relist(l)
    BY <1>4 DEF ResetFilters
  <2> HIDE DEF l
  <2> QED BY <2>1, <2>2, RelistSteps
<1> QED BY <1>2, <1>3, <1>4

LEMMA TurnSteps ==
    ASSUME FeedInv, NEW p \in Nat, TurnPage(p)
    PROVE  WidgetStep
<1> USE DEF FeedInv
<1>1. listing \in Listings /\ screen \in Screens /\ remote \in Feeds
  BY DEF ListTyped
<1> DEFINE l == [listing EXCEPT !.page = p]
<1>2. /\ UNCHANGED <<server, given, node, config, tab, viewer, paused, view>>
      /\ RenderList(l, reviews, screen) /\ remote' = RenderedFeed(remote)
  BY DEF TurnPage, Still
<1>3. WidgetTyped' /\ source' \in {"none", "loading", "loaded", "failed"}
  BY <1>2 DEF WidgetTyped, given
<1>4. l \in Listings /\ l.order = listing.order /\ l.filters = listing.filters
  BY <1>1, Paging
<1>5. Carried(remote, remote')
  BY <1>1, <1>2, <1>3, FeedsCarried
<1> HIDE DEF l
<1> QED BY <1>1, <1>2, <1>3, <1>4, <1>5, RenderSteps

LEMMA ScrollSteps ==
    ASSUME FeedInv, NEW p \in Nat, Scroll(p)
    PROVE  WidgetStep
<1>1. /\ UNCHANGED <<server, given, node, config, tab, viewer, view, reviews, listing, remote>>
      /\ paused' = FALSE /\ ~DialogOpen
      /\ p < Len(screen.cards) /\ screen' = [screen EXCEPT !.position = p]
  BY DEF Scroll, Still
<1>2. WidgetTyped' /\ source' \in {"none", "loading", "loaded", "failed"}
  BY <1>1 DEF FeedInv, WidgetTyped, given
<1>3. Carried(remote, remote')
  BY <1>1, <1>2, FeedsCarried DEF FeedInv
<1> QED BY <1>1, <1>2, <1>3, ListStill

LEMMA RevealSteps ==
    ASSUME FeedInv, Reveal \/ ScrollPastEnd
    PROVE  WidgetStep
<1> USE DEF FeedInv
<1>1. listing \in Listings /\ screen \in Screens /\ remote \in Feeds
  BY DEF ListTyped
<1>2. /\ UNCHANGED <<server, given, node, config, tab, viewer, view>>
      /\ source' = source /\ paused' \in BOOLEAN
  BY DEF Reveal, ScrollPastEnd, Still, given, WidgetTyped
<1>3. WidgetTyped' /\ source' \in {"none", "loading", "loaded", "failed"}
  BY <1>2 DEF WidgetTyped, given
<1>4. CASE RenderList(listing, reviews, screen) /\ CanLoadMore(remote)
           /\ remote' = LoadMoreReviews(remote)
  <2>1. Carried(remote, remote')
    BY <1>1, <1>3, <1>4, FeedsCarried DEF CanLoadMore
  <2> QED BY <1>1, <1>2, <1>3, <1>4, <2>1, RenderSteps
<1>5. CASE RenderList([listing EXCEPT !.visible = @ + PageSize], reviews, screen)
           /\ remote' = remote
  <2> DEFINE l == [listing EXCEPT !.visible = @ + PageSize]
  <2>1. l \in Listings /\ l.order = listing.order /\ l.filters = listing.filters
    BY <1>1, Paging
  <2>2. Carried(remote, remote') /\ RenderList(l, reviews, screen)
    BY <1>1, <1>3, <1>5, FeedsCarried
  <2> HIDE DEF l
  <2> QED BY <1>1, <1>2, <1>3, <2>1, <2>2, RenderSteps
<1> QED BY <1>4, <1>5 DEF Reveal, ScrollPastEnd

LEMMA TabSteps ==
    ASSUME FeedInv, SwitchTab
    PROVE  WidgetStep
<1> USE DEF FeedInv
<1>1. listing \in Listings /\ screen \in Screens /\ remote \in Feeds
  BY DEF ListTyped
<1>2. /\ UNCHANGED <<server, given, node, config, viewer, paused, view>>
      /\ tab' \in {"reviews", "questions"}
      /\ RenderList(listing, reviews, screen) /\ remote' = remote
  BY DEF SwitchTab
<1>3. WidgetTyped' /\ source' \in {"none", "loading", "loaded", "failed"}
  BY <1>2 DEF WidgetTyped, given
<1>4. Carried(remote, remote')
  BY <1>1, <1>2, <1>3, FeedsCarried
<1> QED BY <1>1, <1>2, <1>3, <1>4, RenderSteps

LEMMA MediaSteps ==
    ASSUME FeedInv, OpenMediaViewer \/ CloseMediaViewer \/ LeavePage
    PROVE  WidgetStep
<1> USE DEF FeedInv
<1>1. remote \in Feeds
  OBVIOUS
<1>2. /\ UNCHANGED <<server, given, config, tab, paused, reviews, listing, screen, view>>
      /\ viewer' \in BOOLEAN /\ node' \in {"connected", "removed", "destroyed"}
      /\ remote' \in {remote, CancelMoreReviews(remote), LoadAllReviews(remote)}
  BY DEF OpenMediaViewer, CloseMediaViewer, LeavePage, Still, WidgetTyped
<1>3. WidgetTyped' /\ source' \in {"none", "loading", "loaded", "failed"}
  BY <1>2 DEF WidgetTyped, given
<1>4. Carried(remote, remote')
  BY <1>1, <1>2, <1>3, FeedsCarried
<1> QED BY <1>2, <1>3, <1>4, ListStill

LEMMA CloseSteps ==
    ASSUME FeedInv, CloseAllReviews \/ Destroy
    PROVE  WidgetStep
<1> USE DEF FeedInv
<1>1. remote \in Feeds
  OBVIOUS
<1>2. /\ UNCHANGED <<server, given, config, tab, reviews>> /\ view' = NoView
      /\ viewer' \in BOOLEAN /\ paused' \in BOOLEAN
      /\ node' \in {"connected", "removed", "destroyed"}
  BY DEF CloseAllReviews, Destroy, Still, WidgetTyped
<1>3. WidgetTyped' /\ source' \in {"none", "loading", "loaded", "failed"}
  BY <1>2 DEF WidgetTyped, given
<1>4. CASE DialogOpen
  BY <1>2, <1>3, <1>4, Restored DEF CloseAllReviews, Destroy
<1>5. CASE ~DialogOpen
  <2>1. UNCHANGED <<listing, screen, view>> /\ remote' = CancelMoreReviews(remote)
    BY <1>2, <1>5 DEF CloseAllReviews, Destroy, DialogOpen
  <2>2. Carried(remote, remote')
    BY <1>1, <1>3, <2>1, FeedsCarried
  <2> QED BY <1>2, <1>3, <2>1, <2>2, ListStill
<1> QED BY <1>4, <1>5

LEMMA ConfigSteps ==
    ASSUME FeedInv, NEW c \in Configs, UpdateConfig(c)
    PROVE  WidgetStep
<1> USE DEF FeedInv
<1>1. listing \in Listings /\ screen \in Screens /\ remote \in Feeds
      /\ (DialogOpen => view \in Views)
  BY DEF ListTyped, DialogOpen
<1> DEFINE saved == IF DialogOpen THEN view.listing ELSE listing
           l == [saved EXCEPT !.order = <<>>]
           k == IF c.eligible = config.eligible THEN l
                ELSE [l EXCEPT !.filters = {}, !.sort = "newest", !.visible = PageSize,
                               !.page = 0]
           s == [screen EXCEPT !.cards = <<>>, !.position = 0]
           e == IF DialogOpen THEN view.moreError ELSE CancelMoreReviews(remote).moreError
<1>2. /\ config' = c /\ tab' \in {"reviews", "questions"} /\ view' = NoView
      /\ viewer' \in BOOLEAN /\ paused' = FALSE /\ UNCHANGED <<server, given, node>>
      /\ RenderList(k, reviews, s)
      /\ remote' = [CancelMoreReviews(remote) EXCEPT !.moreError = e]
  BY DEF UpdateConfig, WidgetTyped
<1>3. WidgetTyped' /\ source' \in {"none", "loading", "loaded", "failed"}
  BY <1>2 DEF WidgetTyped, given
<1>4. <<>> \in Seq(AllReviews)
  OBVIOUS
<1>5. k \in Listings /\ k.order = <<>>
  <2>1. saved \in Listings
    BY <1>1 DEF Views
  <2> HIDE DEF saved
  <2>2. l \in Listings /\ l.order = <<>>
    BY <1>4, <2>1 DEF Listings
  <2> HIDE DEF l
  <2> QED BY <2>2, DialogSizes DEF Listings
<1>6. s \in Screens /\ s.position = 0 /\ s.cards = <<>>
  BY <1>1, <1>4 DEF Screens
<1>7. Carried(remote, remote')
  <2>1. Carried(remote, CancelMoreReviews(remote)) /\ CancelMoreReviews(remote) \in Feeds
    BY <1>1, <1>3, FeedsCarried DEF Carried
  <2>2. e \in {"", "failed", "repeats"}
    BY <1>1, <2>1 DEF Views, Feeds
  <2> HIDE DEF e
  <2> QED BY <1>1, <1>2, <2>1, <2>2, ErrorsCarried
<1> HIDE DEF k, s, e
<1> QED BY <1>2, <1>3, <1>5, <1>6, <1>7, RenderSteps

-----------------------------------------------------------------------------
(* The server *)

LEMMA PublishKeeps ==
    ASSUME FeedInv, NEW r \in AllReviews, Publish(r)
    PROVE  FeedInv' /\ CardStays
<1> USE DEF FeedInv
<1>1. r \notin old /\ UNCHANGED <<old, hidden, WidgetState>>
  BY DEF Publish
<1> DEFINE n == Len(feed)
<1>2. PICK p \in 1 .. n + 1 :
        feed' = [i \in 1 .. n + 1 |->
                    IF i < p THEN feed[i] ELSE IF i = p THEN r ELSE feed[i - 1]]
  BY DEF Publish
<1>3. feed \in Seq(AllReviews) /\ n \in Nat /\ DOMAIN feed = 1 .. n
  BY DEF FeedTyped
<1> HIDE DEF n
<1>4. ASSUME NEW i \in 1 .. n + 1
      PROVE  \/ i < p /\ i \in DOMAIN feed /\ feed'[i] = feed[i]
             \/ i = p /\ feed'[i] = r
             \/ i > p /\ i - 1 \in DOMAIN feed /\ feed'[i] = feed[i - 1]
  BY <1>2, <1>3
<1>5. feed' \in Seq(AllReviews) /\ DOMAIN feed' = 1 .. n + 1
  <2>1. \A i \in 1 .. n + 1 : feed'[i] \in AllReviews
    BY <1>3, <1>4
  <2>2. feed' = [i \in 1 .. n + 1 |-> feed'[i]]
    BY <1>2
  <2> QED BY <1>3, <2>1, <2>2
<1>6. FeedTyped'
  BY <1>1, <1>5 DEF FeedTyped
<1>7. FeedRead'
  <2> SUFFICES ASSUME ~hidden PROVE FeedRead'
    BY <1>1 DEF FeedRead
  <2>1. remote \in Feeds /\ remote.offset \in Nat
    BY DEF Feeds
  <2>2. \A x \in old : \E i \in DOMAIN feed' : feed'[i] = x
    <3> SUFFICES ASSUME NEW x \in old PROVE \E i \in DOMAIN feed' : feed'[i] = x
      OBVIOUS
    <3>1. PICK i \in DOMAIN feed : feed[i] = x
      BY DEF FeedRead
    <3>2. CASE i < p
      <4>1. i \in 1 .. n + 1 /\ feed'[i] = feed[i]
        BY <1>2, <1>3, <3>1, <3>2
      <4> QED BY <1>5, <3>1, <4>1
    <3>3. CASE i >= p
      <4>1. i + 1 \in 1 .. n + 1 /\ i + 1 > p /\ (i + 1) - 1 = i
        BY <1>3, <3>1, <3>3
      <4>2. feed'[i + 1] = feed[i]
        BY <1>4, <4>1
      <4> QED BY <1>5, <3>1, <4>1, <4>2
    <3> QED BY <1>3, <3>1, <3>2, <3>3
  <2>3. ASSUME NEW i \in DOMAIN feed', i <= remote.offset, feed'[i] \in old
        PROVE  feed'[i] \in reviews
    <3>1. i \in 1 .. n + 1
      BY <1>5
    <3>2. CASE i < p /\ i \in DOMAIN feed /\ feed'[i] = feed[i]
      BY <2>3, <3>2 DEF FeedRead
    <3>3. CASE i > p /\ i - 1 \in DOMAIN feed /\ feed'[i] = feed[i - 1]
      <4>1. i - 1 <= remote.offset
        BY <2>1, <2>3, <3>1
      <4> QED BY <2>3, <3>3, <4>1 DEF FeedRead
    <3>4. ~(i = p /\ feed'[i] = r)
      BY <1>1, <2>3
    <3> QED BY <1>4, <3>1, <3>2, <3>3, <3>4
  <2>4. /\ remote.exhausted => old \subseteq reviews
        /\ ~hasFeed /\ source \notin {"loading", "failed"} /\ ~incomplete => old \subseteq reviews
    BY DEF FeedRead
  <2>5. UNCHANGED <<old, hidden, remote, reviews, hasFeed, source, incomplete>>
    BY <1>1 DEF WidgetState, given
  <2> QED BY <2>2, <2>3, <2>4, <2>5 DEF FeedRead
<1>8. UNCHANGED <<given, node, config, tab, viewer, paused, reviews, listing, screen, remote, view>>
  BY <1>1 DEF WidgetState
<1>9. WidgetTyped' /\ ListTyped' /\ remote' \in Feeds
  BY <1>8 DEF WidgetTyped, ListTyped, given
<1>10. SourceFirst' /\ OrdersHeld' /\ CardsPlaced'
  BY <1>8 DEF SourceFirst, OrdersHeld, OrderHeld, CardsPlaced, given, DialogOpen
<1> QED BY <1>6, <1>7, <1>8, <1>9, <1>10 DEF CardStays

LEMMA HideKeeps ==
    ASSUME FeedInv, NEW p, Hide(p)
    PROVE  FeedInv' /\ CardStays
<1> USE DEF FeedInv
<1>1. hidden' = TRUE /\ UNCHANGED <<old, WidgetState>>
      /\ p \in 1 .. Len(feed)
      /\ feed' = [i \in 1 .. Len(feed) - 1 |-> IF i < p THEN feed[i] ELSE feed[i + 1]]
  BY DEF Hide
<1>2. feed' \in Seq(AllReviews)
  <2> DEFINE n == Len(feed)
  <2>1. feed \in Seq(AllReviews) /\ n \in Nat /\ DOMAIN feed = 1 .. n
    BY DEF FeedTyped
  <2> HIDE DEF n
  <2>2. \A i \in 1 .. n - 1 : feed[i] \in AllReviews /\ feed[i + 1] \in AllReviews
    BY <2>1
  <2>3. n - 1 \in Nat
    BY <1>1, <2>1 DEF n
  <2>4. feed' = [i \in 1 .. n - 1 |-> IF i < p THEN feed[i] ELSE feed[i + 1]]
    BY <1>1 DEF n
  <2> QED BY <2>2, <2>3, <2>4
<1>3. FeedTyped' /\ FeedRead'
  BY <1>1, <1>2 DEF FeedTyped, FeedRead
<1>4. UNCHANGED <<given, node, config, tab, viewer, paused, reviews, listing, screen, remote, view>>
  BY <1>1 DEF WidgetState
<1>5. WidgetTyped' /\ ListTyped' /\ remote' \in Feeds
  BY <1>4 DEF WidgetTyped, ListTyped, given
<1>6. SourceFirst' /\ OrdersHeld' /\ CardsPlaced'
  BY <1>4 DEF SourceFirst, OrdersHeld, OrderHeld, CardsPlaced, given, DialogOpen
<1> QED BY <1>3, <1>4, <1>5, <1>6 DEF CardStays

LEMMA FirstType == FeedTyped => \A n \in Nat : FirstReviews(n) \in SUBSET AllReviews
<1> SUFFICES ASSUME FeedTyped, NEW n \in Nat, NEW i \in 1 .. Least(n, Len(feed))
             PROVE  feed[i] \in AllReviews
  BY DEF FirstReviews
<1>1. feed \in Seq(AllReviews) /\ Len(feed) \in Nat
  BY DEF FeedTyped
<1>2. i \in 1 .. Len(feed)
  BY <1>1 DEF Least
<1> QED BY <1>1, <1>2

\* render with more reviews than before, or at the end of the first source.
LEMMA AnswerRendered ==
    ASSUME FeedInv, NEW l \in Listings, NEW r \in SUBSET AllReviews, RenderList(l, r, screen),
           UNCHANGED <<config, tab, view>>,
           l.order = listing.order, l.filters = listing.filters,
           reviews \subseteq r \/ source = "loading"
    PROVE  reviews' = r /\ ListTyped' /\ OrdersHeld' /\ CardsPlaced' /\ CardStays
<1> USE DEF FeedInv
<1>1. screen \in Screens /\ tab' \in {"reviews", "questions"}
  BY DEF ListTyped, WidgetTyped
<1>2. ASSUME NEW k, OrderHeld(k), source = "loading" => k.order = <<>>
      PROVE  \A i \in DOMAIN k.order : k.order[i] \in FilterReviewPool(r, k.filters, config)
  <2>1. CASE k.order = <<>>
    <3>1. DOMAIN k.order = {}
      BY <2>1
    <3> QED BY <3>1
  <2>2. CASE reviews \subseteq r
    BY <1>2, <2>2 DEF OrderHeld, FilterReviewPool
  <2> QED BY <1>2, <2>1, <2>2
<1>3. \A i \in DOMAIN l.order : l.order[i] \in FilterReviewPool(r, l.filters, config')
  BY <1>2 DEF OrdersHeld, SourceFirst
<1>4. /\ reviews' = r /\ listing' \in Listings /\ screen' \in Screens
      /\ OrderHeld(listing)'
      /\ /\ view' = NoView /\ config'.mode = "carousel"
         /\ tab' = "reviews" \/ Placed(l, screen)
         => Placed(listing', screen')
      /\ /\ view' = NoView /\ config'.mode = "carousel"
         /\ Placed(l, screen) /\ screen.position > 0 /\ screen'.position = screen.position
         => screen'.cards[screen.position + 1] = screen.cards[screen.position + 1]
  BY <1>1, <1>3, Rendered
<1>5. ListTyped'
  BY <1>4 DEF ListTyped
<1>6. OrdersHeld'
  <2>1. DialogOpen => \A i \in DOMAIN view.listing.order :
            view.listing.order[i] \in FilterReviewPool(r, view.listing.filters, config)
    BY <1>2 DEF OrdersHeld, SourceFirst
  <2>2. DialogOpen => OrderHeld(view.listing)'
    BY <1>4, <2>1 DEF OrderHeld
  <2> QED BY <1>4, <2>2 DEF OrdersHeld, DialogOpen
<1>7. ~DialogOpen /\ config.mode = "carousel" => Placed(l, screen)
  BY DEF CardsPlaced, Placed
<1>8. CardsPlaced'
  BY <1>4, <1>7 DEF CardsPlaced, DialogOpen
<1>9. CardStays
  BY <1>4, <1>7 DEF CardStays
<1> QED BY <1>4, <1>5, <1>6, <1>8, <1>9

LEMMA SourceKeeps ==
    ASSUME FeedInv, NEW ok \in BOOLEAN, SourceAnswers(ok)
    PROVE  FeedInv' /\ CardStays
<1> USE DEF FeedInv
<1>1. /\ source = "loading" /\ source' = IF ok THEN "loaded" ELSE "failed"
      /\ incomplete' = IF ok THEN Len(feed) >= SourceLimit ELSE incomplete
      /\ UNCHANGED <<server, hasFeed, node, config, tab, viewer, paused, view>>
  BY DEF SourceAnswers
<1>2. listing \in Listings /\ reviews \in SUBSET AllReviews /\ remote \in Feeds
      /\ SourceLimit \in Nat /\ feed \in Seq(AllReviews) /\ Len(feed) \in Nat
  BY ReadingAssumption DEF ListTyped, FeedTyped
<1>3. FeedTyped' /\ UNCHANGED <<feed, old, hidden>>
  BY <1>1 DEF FeedTyped, server
<1>4. WidgetTyped'
  <2>1. (Len(feed) >= SourceLimit) \in BOOLEAN /\ incomplete \in BOOLEAN
    BY DEF WidgetTyped
  <2>2. incomplete' \in BOOLEAN
    BY <1>1, <2>1
  <2>3. source' \in {"none", "loading", "loaded", "failed"}
    BY <1>1
  <2> QED BY <1>1, <2>2, <2>3 DEF WidgetTyped
<1>5. SourceFirst'
  BY <1>1 DEF SourceFirst
<1>6. CASE ~ok
  <2>1. RenderList(listing, reviews, screen) /\ remote' = remote
    BY <1>6 DEF SourceAnswers
  <2>2. reviews' = reviews /\ ListTyped' /\ OrdersHeld' /\ CardsPlaced' /\ CardStays
    BY <1>1, <1>2, <2>1, AnswerRendered
  <2>3. FeedRead'
    BY <1>1, <1>3, <1>6, <2>1, <2>2 DEF FeedRead
  <2> QED BY <1>3, <1>4, <1>5, <2>1, <2>2, <2>3
<1>7. CASE ok
  <2> DEFINE first == FirstReviews(SourceLimit)
             start == IF remote.offset = 0 THEN 0 ELSE Least(SourceLimit, Len(feed))
             m == [remote EXCEPT !.offset = start]
  <2>1. RenderList(listing, first, screen) /\ remote' = RenderedFeed(m)
    BY <1>2, <1>7 DEF SourceAnswers, Feeds
  <2>2. first \in SUBSET AllReviews
    BY <1>2, FirstType
  <2>3. reviews' = first /\ ListTyped' /\ OrdersHeld' /\ CardsPlaced' /\ CardStays
    <3> HIDE DEF first
    <3> QED BY <1>1, <1>2, <2>1, <2>2, AnswerRendered
  <2>4. start \in Nat /\ start <= Len(feed) /\ start <= SourceLimit
    BY <1>2 DEF Least
  <2> HIDE DEF start
  <2>5. m \in Feeds /\ m.offset = start /\ m.exhausted = FALSE
    BY <1>1, <1>2, <2>4 DEF Feeds, SourceFirst
  <2> HIDE DEF m
  <2>6. remote' \in Feeds /\ remote'.offset = start /\ remote'.exhausted = FALSE
    BY <1>4, <2>1, <2>5, FeedsCarried DEF Carried, WidgetTyped
  <2>7. \A i \in 1 .. Len(feed) : i <= SourceLimit => feed[i] \in first
    <3> SUFFICES ASSUME NEW i \in 1 .. Len(feed), i <= SourceLimit PROVE feed[i] \in first
      OBVIOUS
    <3>1. i \in 1 .. Least(SourceLimit, Len(feed))
      BY <1>2 DEF Least
    <3> QED BY <3>1 DEF FirstReviews
  <2>8. FeedRead'
    <3> HIDE DEF first
    <3> SUFFICES ASSUME ~hidden PROVE FeedRead'
      BY <1>3 DEF FeedRead
    <3>1. \A r \in old : \E i \in DOMAIN feed : feed[i] = r
      BY DEF FeedRead
    <3>2. DOMAIN feed = 1 .. Len(feed)
      BY <1>2
    <3>3. \A i \in DOMAIN feed : i <= start => feed[i] \in first
      BY <1>2, <2>4, <2>7, <3>2
    <3>4. ASSUME ~(Len(feed) >= SourceLimit) PROVE old \subseteq first
      <4>1. \A i \in DOMAIN feed : feed[i] \in first
        BY <1>2, <2>7, <3>2, <3>4
      <4> QED BY <3>1, <4>1
    <3>5. ~incomplete' => old \subseteq first
      BY <1>1, <1>7, <3>4
    <3> QED BY <1>3, <2>3, <2>6, <3>1, <3>3, <3>5 DEF FeedRead
  <2> QED BY <1>3, <1>4, <1>5, <2>3, <2>6, <2>8
<1> QED BY <1>6, <1>7

-----------------------------------------------------------------------------
(* The answers of the full feed *)

LEMMA PageType ==
    ASSUME FeedInv
    PROVE  /\ PageLength \in Nat /\ PageLength <= FeedLimit /\ Page \in SUBSET AllReviews
           /\ \A i \in DOMAIN feed :
                 i > remote.offset /\ i <= remote.offset + PageLength => feed[i] \in Page
           /\ PageLength # FeedLimit =>
                 \A i \in DOMAIN feed : i <= remote.offset + PageLength
<1> DEFINE n == Len(feed)
           o == remote.offset
           k == PageLength
<1>1. feed \in Seq(AllReviews) /\ n \in Nat /\ DOMAIN feed = 1 .. n /\ o \in Nat
      /\ FeedLimit \in Nat
  <2>1. FeedLimit \in Nat
    BY ReadingAssumption
  <2>2. feed \in Seq(AllReviews)
    BY DEF FeedInv, FeedTyped
  <2>3. o \in Nat
    BY DEF FeedInv, Feeds
  <2>4. n \in Nat /\ DOMAIN feed = 1 .. n
    BY <2>2
  <2> QED BY <2>1, <2>2, <2>3, <2>4
<1>2. k = IF o >= n THEN 0 ELSE Least(FeedLimit, n - o)
  BY DEF PageLength
<1>3. Page = {feed[o + i] : i \in 1 .. k}
  BY DEF Page
<1> HIDE DEF n, o, k
<1>4. k \in Nat /\ k <= FeedLimit /\ (k # 0 => o + k <= n)
  BY <1>1, <1>2 DEF Least
<1>5. ASSUME NEW i \in 1 .. k PROVE feed[o + i] \in AllReviews
  <2>1. o + i \in 1 .. n
    BY <1>1, <1>4
  <2> QED BY <1>1, <2>1
<1>6. ASSUME NEW i \in DOMAIN feed, i > o, i <= o + k PROVE feed[i] \in Page
  <2>1. i - o \in 1 .. k /\ o + (i - o) = i
    BY <1>1, <1>4, <1>6
  <2> QED BY <1>3, <2>1
<1>7. ASSUME k # FeedLimit, NEW i \in DOMAIN feed PROVE i <= o + k
  BY <1>1, <1>2, <1>4, <1>7 DEF Least
<1> QED BY <1>3, <1>4, <1>5, <1>6, <1>7 DEF o, k

LEMMA AdvancedType ==
    ASSUME FeedInv, NEW ok \in BOOLEAN
    PROVE  /\ Advanced(ok) \in Feeds /\ ~Advanced(ok).loadingMore
           /\ ~ok => /\ Advanced(ok).offset = remote.offset
                     /\ Advanced(ok).exhausted = remote.exhausted
           /\ ok => /\ Advanced(ok).offset \in {remote.offset, remote.offset + PageLength}
                    /\ Advanced(ok).exhausted = (PageLength # FeedLimit)
<1>1. remote \in Feeds /\ remote.seen \in SUBSET AllReviews
      /\ remote.offset \in Nat
  BY DEF FeedInv, Feeds
<1>2. PageLength \in Nat /\ Page \in SUBSET AllReviews
  BY PageType
<1>3. CASE ~ok
  BY <1>1, <1>3 DEF Advanced, Feeds
<1>4. CASE ok
  <2> DEFINE full == PageLength = FeedLimit
             repeats == Page \subseteq remote.seen
             ends == [exhausted |-> ~full, stalled |-> full /\ repeats]
             m == [remote EXCEPT !.seen = remote.seen \cup Page,
                            !.exhausted = ends.exhausted,
                            !.stalled = ends.stalled,
                            !.moreError = IF ends.stalled THEN "repeats" ELSE "",
                            !.offset = IF ends.stalled THEN remote.offset
                                       ELSE remote.offset + PageLength,
                            !.loadingMore = FALSE]
  <2>1. Advanced(ok) = m
    BY <1>4 DEF Advanced, FeedEnds
  <2>2. ends.exhausted \in BOOLEAN /\ ends.stalled \in BOOLEAN
        /\ ends.exhausted = (PageLength # FeedLimit)
    OBVIOUS
  <2>3. remote.seen \cup Page \in SUBSET AllReviews /\ remote.offset + PageLength \in Nat
    BY <1>1, <1>2
  <2> HIDE DEF ends
  <2>4. m \in Feeds
    BY <1>1, <2>2, <2>3 DEF Feeds
  <2>5. /\ m.offset \in {remote.offset, remote.offset + PageLength}
        /\ m.exhausted = ends.exhausted /\ m.loadingMore = FALSE
    BY <1>1 DEF Feeds
  <2> QED BY <1>4, <2>1, <2>2, <2>4, <2>5
<1> QED BY <1>3, <1>4

LEMMA FeedKeeps ==
    ASSUME FeedInv, NEW ok \in BOOLEAN, FeedAnswers(ok)
    PROVE  FeedInv' /\ CardStays
<1> USE DEF FeedInv
<1>1. /\ remote.loadingMore
      /\ UNCHANGED <<server, given, node, config, tab, viewer, paused, view>>
  BY DEF FeedAnswers
<1>2. listing \in Listings /\ reviews \in SUBSET AllReviews /\ remote \in Feeds
  BY DEF ListTyped
<1>3. WidgetTyped' /\ FeedTyped' /\ UNCHANGED <<feed, old, hidden, hasFeed, source, incomplete>>
  BY <1>1 DEF WidgetTyped, FeedTyped, server, given
<1>4. source # "loading" /\ source' # "loading"
  BY <1>1, <1>3 DEF SourceFirst
<1>5. SourceFirst'
  BY <1>4 DEF SourceFirst
<1>6. source' \in {"none", "loading", "loaded", "failed"}
  BY <1>3 DEF WidgetTyped
<1>7. CASE node # "connected"
  <2>1. remote' = CancelMoreReviews(remote) /\ UNCHANGED <<reviews, listing, screen>>
    BY <1>7 DEF FeedAnswers
  <2>2. Carried(remote, remote')
    BY <1>2, <1>6, <2>1, FeedsCarried
  <2>3. WidgetStep
    BY <1>1, <1>3, <2>1, <2>2, ListStill
  <2> QED BY <2>3, PageKeeps
<1>8. CASE node = "connected"
  <2> DEFINE m == Advanced(ok)
             l == IF ok /\ ~DialogOpen /\ config.mode # "carousel"
                  THEN [listing EXCEPT !.visible = @ + PageSize] ELSE listing
             r == IF ok THEN reviews \cup Page ELSE reviews
  <2>1. RenderList(l, r, screen) /\ remote' \in {m, LoadAllReviews(m)}
    BY <1>8 DEF FeedAnswers
  <2>2. l \in Listings /\ l.order = listing.order /\ l.filters = listing.filters
    BY <1>2, Paging
  <2>3. r \in SUBSET AllReviews /\ reviews \subseteq r
    BY <1>2, PageType
  <2>4. /\ m \in Feeds
        /\ ~ok => m.offset = remote.offset /\ m.exhausted = remote.exhausted
        /\ ok => /\ m.offset \in {remote.offset, remote.offset + PageLength}
                 /\ m.exhausted = (PageLength # FeedLimit)
    BY AdvancedType
  <2> HIDE DEF m, l
  <2>5. reviews' = r /\ ListTyped' /\ OrdersHeld' /\ CardsPlaced' /\ CardStays
    <3> HIDE DEF r
    <3> QED BY <1>1, <2>1, <2>2, <2>3, AnswerRendered
  <2>6. remote' \in Feeds /\ remote'.offset = m.offset /\ remote'.exhausted = m.exhausted
    BY <1>6, <2>1, <2>4, FeedsCarried DEF Carried
  <2>7. FeedRead'
    <3> SUFFICES ASSUME ~hidden PROVE FeedRead'
      BY <1>3 DEF FeedRead
    <3>1. /\ \A x \in old : \E i \in DOMAIN feed : feed[i] = x
          /\ \A i \in DOMAIN feed : i <= remote.offset /\ feed[i] \in old => feed[i] \in reviews
          /\ remote.exhausted => old \subseteq reviews
          /\ ~hasFeed /\ source \notin {"loading", "failed"} /\ ~incomplete => old \subseteq reviews
      BY DEF FeedRead
    <3>2. CASE ~ok
      <4>1. reviews' = reviews /\ remote'.offset = remote.offset
            /\ remote'.exhausted = remote.exhausted
        BY <2>4, <2>5, <2>6, <3>2
      <4> QED BY <1>3, <3>1, <4>1 DEF FeedRead
    <3>3. CASE ok
      <4>1. reviews' = reviews \cup Page
        BY <2>5, <3>3
      <4>2. /\ PageLength \in Nat /\ remote.offset \in Nat
            /\ \A i \in DOMAIN feed :
                  i > remote.offset /\ i <= remote.offset + PageLength => feed[i] \in Page
            /\ PageLength # FeedLimit => \A i \in DOMAIN feed : i <= remote.offset + PageLength
        BY <1>2, PageType DEF Feeds
      <4>3. \A i \in DOMAIN feed : i \in Nat
        BY DEF FeedTyped
      <4>4. ASSUME NEW i \in DOMAIN feed, i <= remote.offset + PageLength, feed[i] \in old
            PROVE  feed[i] \in reviews'
        <5>1. CASE i <= remote.offset
          BY <3>1, <4>1, <4>4, <5>1
        <5>2. CASE i > remote.offset
          BY <4>1, <4>2, <4>4, <5>2
        <5> QED BY <4>2, <4>3, <5>1, <5>2
      <4>5. \A i \in DOMAIN feed : i <= remote'.offset => i <= remote.offset + PageLength
        BY <2>4, <2>6, <3>3, <4>2, <4>3
      <4>6. ASSUME remote'.exhausted PROVE old \subseteq reviews'
        <5>1. PageLength # FeedLimit
          BY <2>4, <2>6, <3>3, <4>6
        <5> QED BY <3>1, <4>2, <4>4, <5>1
      <4> HIDE DEF r
      <4> QED BY <1>3, <3>1, <4>1, <4>4, <4>5, <4>6 DEF FeedRead
    <3> QED BY <3>2, <3>3
  <2> QED BY <1>3, <1>5, <2>5, <2>6, <2>7
<1> QED BY <1>7, <1>8

-----------------------------------------------------------------------------

LEMMA StillKeeps ==
    ASSUME FeedInv, UNCHANGED readingVars
    PROVE  FeedInv' /\ CardStays
<1> USE DEF FeedInv
<1>1. UNCHANGED <<server, given, node, config, tab, viewer, paused, reviews, listing, screen,
                  remote, view>>
  BY DEF readingVars
<1>2. WidgetTyped' /\ source' \in {"none", "loading", "loaded", "failed"}
  BY <1>1 DEF WidgetTyped, given
<1>3. Carried(remote, remote')
  BY <1>1, <1>2, FeedsCarried
<1>4. WidgetStep
  BY <1>1, <1>2, <1>3, ListStill
<1> QED BY <1>4, PageKeeps

LEMMA ReadingStep ==
    FeedInv /\ [ReadingNext]_readingVars => FeedInv' /\ CardStays
<1> SUFFICES ASSUME FeedInv, [ReadingNext]_readingVars PROVE FeedInv' /\ CardStays
  OBVIOUS
<1>1. \A p \in 0 .. Cardinality(AllReviews) : p \in Nat
  OBVIOUS
<1>2. CASE Server
  BY <1>2, PublishKeeps, HideKeeps DEF Server
<1>3. CASE \E ok \in BOOLEAN : SourceAnswers(ok) \/ FeedAnswers(ok)
  BY <1>3, SourceKeeps, FeedKeeps
<1>4. CASE Reader
  <2>1. WidgetStep
    BY <1>1, <1>4, OpenSteps, CloseSteps, ClickSteps, RelistingSteps, TurnSteps, ScrollSteps,
       RevealSteps, MediaSteps, TabSteps DEF Reader
  <2> QED BY <2>1, PageKeeps
<1>5. CASE \E c \in Configs : UpdateConfig(c)
  BY <1>5, ConfigSteps, PageKeeps
<1>6. CASE LeavePage \/ Destroy
  BY <1>6, MediaSteps, CloseSteps, PageKeeps
<1>7. CASE UNCHANGED readingVars
  BY <1>7, StillKeeps
<1> QED BY <1>2, <1>3, <1>4, <1>5, <1>6, <1>7 DEF ReadingNext

LEMMA ReadingInitInv == ReadingInit => FeedInv
<1> SUFFICES ASSUME ReadingInit PROVE FeedInv
  OBVIOUS
<1>1. PICK p \in Mounts : feed = SortReviews(p, "newest")
  BY DEF ReadingInit
<1>2. p \in SUBSET AllReviews
  BY ReadingAssumption
<1>3. feed \in Seq(AllReviews) /\ DOMAIN feed = 1 .. Len(feed) /\ Len(feed) \in Nat
  <2>1. feed \in Seq(AllReviews)
    BY <1>1, <1>2, SortSeqType
  <2> QED BY <2>1
<1>4. old = {feed[i] : i \in DOMAIN feed} /\ old \in SUBSET AllReviews
  <2>1. old = Range(feed)
    BY DEF ReadingInit
  <2>2. old = {feed[i] : i \in DOMAIN feed}
    BY <2>1 DEF Range
  <2>3. \A i \in DOMAIN feed : feed[i] \in AllReviews
    BY <1>3
  <2> QED BY <2>2, <2>3
<1>5. FeedTyped
  BY <1>3, <1>4 DEF ReadingInit, FeedTyped
<1>6. WidgetTyped
  <2>1. incomplete \in BOOLEAN
    BY DEF ReadingInit
  <2> QED BY <2>1 DEF ReadingInit, WidgetTyped
<1>7. reviews \in SUBSET old /\ reviews \in SUBSET AllReviews /\ Cardinality(reviews) \in Nat
  BY <1>4, ReadingAssumption, FS_Subset, FS_CardinalityType DEF ReadingInit
<1>8. PICK offset \in {0, Cardinality(reviews)} :
        /\ offset > 0 => reviews = FirstReviews(offset)
        /\ remote = [offset |-> offset, seen |-> {}, exhausted |-> FALSE,
                     stalled |-> FALSE, moreError |-> "", loadingMore |-> FALSE]
  BY DEF ReadingInit
<1>9. remote \in Feeds /\ remote.offset = offset /\ offset \in Nat
      /\ remote.exhausted = FALSE /\ remote.loadingMore = FALSE
  <2>1. offset \in Nat
    <3>1. offset = 0 \/ offset = Cardinality(reviews)
      OBVIOUS
    <3>2. Cardinality(reviews) \in Nat
      BY <1>7
    <3> QED BY <3>1, <3>2
  <2>2. remote = [offset |-> offset, seen |-> {}, exhausted |-> FALSE,
                  stalled |-> FALSE, moreError |-> "", loadingMore |-> FALSE]
    BY <1>8
  <2>3. remote \in Feeds
    BY <2>1, <2>2 DEF Feeds
  <2> QED BY <2>1, <2>2, <2>3
<1> DEFINE found == FilterReviewPool(reviews, {}, config)
           order == SortReviews(found, "newest")
           ready == source = "none"
           cards == SubSeq(order, 1, Least(PageSize, Len(order)))
<1>10. /\ listing = [filters |-> {}, sort |-> "newest", visible |-> PageSize, page |-> 0,
                     order |-> IF ready /\ config.mode = "carousel" THEN order ELSE <<>>]
       /\ screen = [cards |-> IF ready THEN cards ELSE <<>>,
                    found |-> IF ready THEN found ELSE {}, position |-> 0]
       /\ view = NoView
  BY DEF ReadingInit
<1>11. found \in SUBSET AllReviews
  BY <1>7 DEF FilterReviewPool
<1>12. order \in Seq(AllReviews) /\ \A i \in DOMAIN order : order[i] \in found
  BY <1>11, SortSeqType
<1>13. cards \in Seq(AllReviews) /\ \A i \in DOMAIN cards : i \in DOMAIN order /\ cards[i] = order[i]
  <2> HIDE DEF order
  <2> QED BY <1>12, DialogSizes, Shown
<1> HIDE DEF order, cards
<1>14. <<>> \in Seq(AllReviews) /\ DOMAIN <<>> = {}
  OBVIOUS
<1>15. ListTyped
  <2>1. listing \in Listings
    BY <1>10, <1>12, <1>14, DialogSizes DEF Listings
  <2> HIDE DEF found
  <2>2. screen \in Screens
    BY <1>10, <1>11, <1>13, <1>14 DEF Screens
  <2> QED BY <1>7, <1>10, <2>1, <2>2 DEF ListTyped
<1>16. SourceFirst
  BY <1>9, <1>10 DEF SourceFirst, DialogOpen
<1>17. OrdersHeld
  <2>1. \A i \in DOMAIN listing.order : listing.order[i] \in found
    BY <1>10, <1>12, <1>14
  <2> QED BY <1>10, <2>1 DEF OrdersHeld, OrderHeld, DialogOpen
<1>18. CardsPlaced
  <2> SUFFICES ASSUME config.mode = "carousel" PROVE Placed(listing, screen)
    BY <1>10 DEF CardsPlaced, DialogOpen
  <2> HIDE DEF found
  <2>1. CASE ready
    <3>1. listing.order = order /\ screen.cards = cards /\ screen.position = 0
      BY <1>10, <2>1
    <3> QED BY <1>13, <3>1 DEF Placed
  <2>2. CASE ~ready
    <3>1. screen.cards = <<>> /\ screen.position = 0
      BY <1>10, <2>2
    <3> QED BY <1>14, <3>1 DEF Placed
  <2> QED BY <2>1, <2>2
<1>19. FeedRead
  <2>1. \A r \in old : \E i \in DOMAIN feed : feed[i] = r
    BY <1>4
  <2>2. ASSUME NEW i \in DOMAIN feed, i <= offset PROVE feed[i] \in reviews
    <3>1. i \in 1 .. Least(offset, Len(feed)) /\ offset > 0
      BY <1>3, <1>9, <2>2 DEF Least
    <3> QED BY <1>8, <3>1 DEF FirstReviews
  <2>3. ~incomplete => old \subseteq reviews
    BY DEF ReadingInit
  <2> QED BY <1>9, <2>1, <2>2, <2>3 DEF FeedRead
<1> QED BY <1>5, <1>6, <1>9, <1>15, <1>16, <1>17, <1>18, <1>19 DEF FeedInv

LEMMA FeedInvReads == FeedInv => ReadingInv
<1> SUFFICES ASSUME FeedInv PROVE ReadingInv
  OBVIOUS
<1>1. ReadingTypeOK
  BY DEF FeedInv, ReadingTypeOK, FeedTyped, WidgetTyped, ListTyped, Listings, Screens, Feeds
<1>2. CompleteMeansAll
  BY DEF FeedInv, FeedRead, CompleteMeansAll, ReviewPoolComplete
<1> QED BY <1>1, <1>2 DEF ReadingInv

\* The invariant of the mounted widget (reviews-widget.js): the full feed read
\* so far, the order of the carousel and what an open dialog has put aside.
THEOREM ReadingInvariant == ReadingSpec => []FeedInv
  BY ReadingInitInv, ReadingStep, PTL DEF ReadingSpec

\* When the counters of the widget say "all reviews" (reviewPoolComplete), all
\* that were published when the page was opened are there, unless one has been
\* hidden since.
THEOREM AllMeansAll == ReadingSpec => []ReadingInv
  BY ReadingInvariant, FeedInvReads, PTL

LEMMA StepStays == FeedInv /\ [ReadingNext]_readingVars => [CardStays]_readingVars
  BY ReadingStep

\* The card a reader of the carousel has come to is not replaced under the
\* reader while render runs for anything else (carouselOrder).
THEOREM CarouselStays == ReadingSpec => CardsStay
<1>1. ReadingSpec => [][CardStays]_readingVars
  BY ReadingInvariant, StepStays, PTL DEF ReadingSpec
<1> QED BY <1>1, PTL DEF CardsStay, CardStays
====
