---------------------------- MODULE MCDiagQueue ----------------------------
(***************************************************************************)
(* TLC instance of DiagQueue.                                              *)
(***************************************************************************)
EXTENDS DiagQueue
=============================================================================
