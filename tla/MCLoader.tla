------------------------------ MODULE MCLoader ------------------------------
(* Two product pages, one of them unknown to the index by its path, a          *)
(* homepage and a page the widget does not handle.                             *)
EXTENDS Loader

CONSTANTS a1, a2

MCPages == {"/products/one-1", "/products/two-2", "/", "/cart"}
MCProductPages == {"/products/one-1", "/products/two-2"}
MCHomePages == {"/"}
MCArticles == {a1, a2}
MCArticleOf == [p \in MCProductPages |-> IF p = "/products/one-1" THEN a1 ELSE a2]
MCByPath == {"/products/one-1"}
MCByID == {"/products/two-2"}

=============================================================================
