---------------------------- MODULE MCScrapeJobs ----------------------------
(* Instances of ScrapeJobs for TLC. *)
EXTENDS ScrapeJobs, TLC

\* Every worker holds the token of the same connection.
MCConnOf == [w \in Workers |-> CHOOSE c \in Conns : TRUE]

\* The operator turns the feature off, or on with room for no or one target.
MCPolicies == {<<FALSE, 1>>, <<TRUE, 0>>, <<TRUE, 1>>}
NeverEnabled == {<<FALSE, 0>>}

\* Workers of one connection and the rows of a page are interchangeable.
Symmetry == Permutations(Workers) \cup Permutations(RowIds)
=============================================================================
