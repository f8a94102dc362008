---------------------------- MODULE MCOtaUpdate ----------------------------
(***************************************************************************)
(* TLC instances of OtaUpdate: two files, two releases.  In the race both  *)
(* releases change both files; in the other instance release 2 removes     *)
(* "core".  The install threads do the same, so they are symmetric.        *)
(***************************************************************************)
EXTENDS OtaUpdate, TLC

CONSTANTS core, version, none, torn

MCFiles == {core, version}

RaceListed == [r \in Releases |-> MCFiles]
RaceDropped == [r \in Releases |-> {}]
RaceSha == [r \in Releases \cup {0} |-> [p \in MCFiles |-> r]]

LiveListed == [r \in Releases |-> IF r = 2 THEN {version} ELSE MCFiles]
LiveDropped == [r \in Releases |-> MCFiles \ LiveListed[r]]
LiveSha == [r \in Releases \cup {0} |->
               [p \in MCFiles |-> IF r = 2 /\ p = core THEN none ELSE r]]

Inst == Permutations(Installers)
=============================================================================
