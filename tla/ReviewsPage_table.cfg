CONSTANTS
  GivenReviews <- MCGiven
  Site = {1}
  ArticleOf <- MCArticleOf
  Hits <- MCHits
  FilterValues = {"", "deleted", "hidden", "all"}
  Terms = {"s"}
  Articles = {"x"}
  Blank = " "
  Texts = {"", "a"}
  MediaOf <- MCMediaOf
  FailedReplies = {2}
  PageSize = 1
  Nil = Nil
  Failed = Failed
  MaxActs = 3
  MaxCalls = 2
  MaxFaults = 1
SPECIFICATION ReviewsSpec
INVARIANTS PageAgrees RowsAreTheQuerys OnePinAtATime
CHECK_DEADLOCK FALSE
