---------------------------- MODULE MCFeedScreen ----------------------------
(***************************************************************************)
(* The feed screen for TLC.                                                *)
(***************************************************************************)
EXTENDS FeedScreen
=============================================================================
