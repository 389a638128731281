---------------------------- MODULE MCSocialGraph ----------------------------
(***************************************************************************)
(* SocialGraph on small sets of users and posts.                           *)
(***************************************************************************)
EXTENDS SocialGraph

CONSTANTS ann, bob, cyd, p1, p2

\* Bob is the one who posts ...
MCOwner == [p \in Post |-> bob]

\* ... or p2 is Ann's.
TwoOwners == [p \in Post |-> IF p = p2 THEN ann ELSE bob]
=============================================================================
