SPECIFICATION Spec
CONSTANTS
    a1 = a1
    a2 = a2
    Pages <- MCPages
    ProductPages <- MCProductPages
    HomePages <- MCHomePages
    Articles <- MCArticles
    ArticleOf <- MCArticleOf
    ByPath <- MCByPath
    ByID <- MCByID
    MayFail = {"assets", "index", "data"}
    Anchors = {"none", "tagged", "details"}
    Signals = {"requestContext", "ratedJsonLd"}
    NoPage = NoPage
    NoArticle = NoArticle
    NoHost = NoHost
    NoConfig = NoConfig
    MaxMoves = 3
CHECK_DEADLOCK FALSE
INVARIANTS
    TypeOK
    ShownIsCurrent
    IndexedArticleShown
    NothingForgotten
PROPERTIES
    Rests
