--------------------------- MODULE MCReviewsPage ---------------------------
(* Two reviews on pages of one: one left on the site and waiting for a         *)
(* decision, one imported.                                                     *)
EXTENDS ReviewsPage, TLC

MCGiven ==
    1 :> [status |-> "pending", visible |-> FALSE, pinned |-> FALSE, text |-> "a", reply |-> ""]
    @@ 2 :> [status |-> "imported", visible |-> TRUE, pinned |-> FALSE, text |-> "", reply |-> "a"]
MCArticleOf == 1 :> "x" @@ 2 :> "x"
MCHits == "s" :> {2}
MCMediaOf == 1 :> 2 @@ 2 :> 0
=============================================================================
