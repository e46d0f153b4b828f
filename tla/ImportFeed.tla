----------------------------- MODULE ImportFeed -----------------------------
(***************************************************************************)
(* What an automatic import promises for each scrape target, whatever the  *)
(* workers, leases, retries and losses behind it: the feed is read page by *)
(* page, a page is kept whole before the cursor leaves it, and the next    *)
(* page read is always the one the cursor names.                           *)
(*                                                                         *)
(* A cursor is abstracted to the number of the page it names.  A page is   *)
(* the set of its rows.                                                    *)
(***************************************************************************)
EXTENDS Naturals

CONSTANTS Targets,    \* scrape targets
          MaxCursor,  \* bound: the last page of a provider's feed
          RowIds      \* the rows of one page

VARIABLES cursor,  \* cursor[t]: the page the next import of t starts from
          stored   \* stored[t]: the rows kept for t

feedVars == <<cursor, stored>>

Cursors == 0 .. MaxCursor
Rows == Cursors \X RowIds
Page(c) == {c} \X RowIds

\* The provider answers the page at c with a cursor: the next page's, or c
\* itself when it names no further page.
Following(c) == {c, c + 1} \cap Cursors

Init ==
  /\ cursor = [t \in Targets |-> 0]
  /\ stored = [t \in Targets |-> {}]

\* A complete page is kept and the cursor moves on.
AcceptPage(t) ==
  /\ stored' = [stored EXCEPT ![t] = @ \cup Page(cursor[t])]
  /\ \E next \in Following(cursor[t]) : cursor' = [cursor EXCEPT ![t] = next]

\* Some rows of the page are refused: the others stay, the cursor does not move.
AcceptSomeRows(t) ==
  /\ \E good \in SUBSET Page(cursor[t]) :
        stored' = [stored EXCEPT ![t] = @ \cup good]
  /\ UNCHANGED cursor

Next == \E t \in Targets : AcceptPage(t) \/ AcceptSomeRows(t)

Spec == Init /\ [][Next]_feedVars
=============================================================================
