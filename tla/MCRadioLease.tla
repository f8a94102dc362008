---------------------------- MODULE MCRadioLease ----------------------------
(***************************************************************************)
(* TLC instance of RadioLease: three sessions that may overlap.            *)
(***************************************************************************)
EXTENDS RadioLease, TLC

CONSTANTS r1, r2, r3
MCRuns == {r1, r2, r3}
Sessions == Permutations(MCRuns)
=============================================================================
