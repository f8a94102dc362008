----------------------------- MODULE MCPadProbe -----------------------------
(***************************************************************************)
(* A TLC instance of PadProbe: one ordinary button and the three keys of   *)
(* the ways out.                                                           *)
(***************************************************************************)
EXTENDS PadProbe

CONSTANT a
MCButtons == {a}
=============================================================================
