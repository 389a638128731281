------------------------ MODULE MCNotificationsScreen ------------------------
(***************************************************************************)
(* The notifications screen for TLC: a notification of each of two new     *)
(* followers, and one with a picture.                                      *)
(***************************************************************************)
EXTENDS NotificationsScreen, TLC

CONSTANTS ann, bob, n1, n2, n3

MCSender == (n1 :> ann) @@ (n2 :> bob) @@ (n3 :> bob)
=============================================================================
