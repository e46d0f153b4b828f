-------------------------- MODULE MCWidgetReading ---------------------------
(* Instances of WidgetReading: a few reviews, pages of one card, and the      *)
(* layouts that load in different ways.                                       *)
EXTENDS WidgetReading

Layout(mode, pagination, action, eligible, questions) ==
    [mode |-> mode, pagination |-> pagination, action |-> action,
     eligible |-> eligible, questions |-> questions]

MCReviews == 1 .. 3
MCHigh == {1}
MCMounts == {{}, {1, 2}, {1, 3}}
OneMount == {{1, 2}}

CarouselAndDialog == Layout("carousel", "more", "dialog", "all", FALSE)
ListInline        == Layout("list", "more", "inline", "all", TRUE)
PagesInline       == Layout("list", "pages", "inline", "high", FALSE)

MCConfigs == {CarouselAndDialog, ListInline, PagesInline}
OneConfig == {CarouselAndDialog}

=============================================================================
