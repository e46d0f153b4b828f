--------------------------- MODULE MCReplyPublish ---------------------------
(***************************************************************************)
(* Small instances of ReplyPublish: one admin request and one sweep beside *)
(* the sync, so that every pair of writers of a row meets.                 *)
(***************************************************************************)
EXTENDS ReplyPublish
=============================================================================
