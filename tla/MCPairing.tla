----------------------------- MODULE MCPairing ------------------------------
(* A TLC instance of Pairing.                                              *)
EXTENDS Pairing
MCThreads == 1..2
MCTargets == {900, 1000}
MCFirmware == [c \in Consoles |-> 900]
=============================================================================
