---------------------------- MODULE MCSupervised ----------------------------
(***************************************************************************)
(* The instance of Supervised for TLC.                                     *)
(***************************************************************************)
EXTENDS Supervised
=============================================================================
