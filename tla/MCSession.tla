------------------------------ MODULE MCSession ------------------------------
(***************************************************************************)
(* Session with two accounts that exist and a third that may be created.   *)
(***************************************************************************)
EXTENDS Session

CONSTANTS ann, bob, cyd
=============================================================================
