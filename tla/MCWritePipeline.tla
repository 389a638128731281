--------------------------- MODULE MCWritePipeline ---------------------------
(***************************************************************************)
(* The write pipeline for TLC.                                             *)
(***************************************************************************)
EXTENDS WritePipeline
=============================================================================
