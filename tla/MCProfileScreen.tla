--------------------------- MODULE MCProfileScreen ---------------------------
(***************************************************************************)
(* ProfileScreen on small sets of users and posts.                         *)
(***************************************************************************)
EXTENDS ProfileScreen

CONSTANTS ann, bob

MCOwner == [p \in Post |-> bob]
=============================================================================
