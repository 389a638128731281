------------------------------- MODULE MCLikes -------------------------------
(***************************************************************************)
(* Likes for two users, one of them the author of the post.                *)
(***************************************************************************)
EXTENDS Likes

CONSTANTS ann, bob
=============================================================================
