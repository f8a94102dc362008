---------------------------- MODULE MCBtSession ----------------------------
(***************************************************************************)
(* TLC instance of BtSession: the sessions are numbered as they start.     *)
(***************************************************************************)
EXTENDS BtSession

TwoRuns == 1 .. 2
=============================================================================
