----------------------------- MODULE MCSyncRun -----------------------------
(***************************************************************************)
(* Small instances of SyncRun: reviews on pages of one, so that a list has *)
(* several pages, synchronised by two processes that are alike.            *)
(***************************************************************************)
EXTENDS SyncRun, TLC

RunSymmetry == Permutations(Runs)

=============================================================================
