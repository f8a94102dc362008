-------------------------- MODULE OtaUpdateProofs --------------------------
(***************************************************************************)
(* Theorems about OtaUpdate, for every set of releases, files and threads. *)
(*                                                                         *)
(* The inductive invariant says that all threads of a session work for the *)
(* one release on offer, and that every list of files a thread or the      *)
(* popup still holds covers what is not yet right in the tree.             *)
(***************************************************************************)
EXTENDS OtaUpdate, TLAPS

-----------------------------------------------------------------------------
(* Type correctness.                                                       *)

LEMMA VersionsAreNat == Versions \subseteq Nat
  BY OtaAssumption DEF OtaAssumption, Versions

\* A release has a content or none for every path, never a torn one.
LEMMA ShaType ==
    \A r \in Versions : \A p \in Files :
        Sha[r][p] \in Versions \cup {NoFile} /\ Sha[r][p] # Torn
<1>1. \A r \in Versions : \A p \in Files : Sha[r][p] \in Versions \cup {NoFile}
  BY OtaAssumption DEF OtaAssumption
<1>2. Torn \notin Versions \cup {NoFile}
  BY VersionsAreNat, OtaAssumption DEF OtaAssumption
<1> QED
  BY <1>1, <1>2

LEMMA NotOpenType == NotOpen \in OpenFiles /\ NotOpen.at = "none"
  BY OtaAssumption DEF NotOpen, OpenFiles, OtaAssumption

\* Moving and deleting files closes none and opens none.
LEMMA RelocatedFacts ==
    ASSUME NEW f \in [Installers -> OpenFiles], NEW P, NEW from \in {"staging", "app"},
           NEW to \in {"app", "gone"}
    PROVE  /\ Relocated(f, P, from, to) \in [Installers -> OpenFiles]
           /\ \A j \in Installers :
                  LET g == Relocated(f, P, from, to)[j] IN
                      /\ g.path = f[j].path
                      /\ g.at = "none" <=> f[j].at = "none"
                      /\ g.at = IF f[j].path \in P /\ f[j].at = from THEN to ELSE f[j].at
  BY DEF Relocated, OpenFiles

LEMMA InitType == Init => TypeOK
<1> SUFFICES ASSUME Init PROVE TypeOK
  OBVIOUS
<1>1. chk \in [Checks -> CheckStates]
  BY DEF Init, IdleCheck, CheckStates, Versions
<1>2. modal \in PopupStates
  BY DEF Init, ClosedModal, PopupStates, Versions
<1>3. inst \in [Installers -> InstallStates]
  BY DEF Init, IdleInstall, InstallStates, Versions
<1>4. app \in [Files -> Contents] /\ app[VersionPy] # NoFile
  BY OtaAssumption DEF Init, OtaAssumption, Versions, Contents
<1>5. /\ staging \in [Files -> Contents] /\ stops \in 0..MaxStops
      /\ fd \in [Installers -> OpenFiles]
  BY OtaAssumption, NotOpenType DEF Init, Empty, OtaAssumption, Contents
<1>6. published \in [Sources -> Versions] /\ channel \in Channels
  BY DEF Init, Versions, Channels
<1> QED
  BY <1>1, <1>2, <1>3, <1>4, <1>5, <1>6 DEF Init, TypeOK, Versions

LEMMA WorldStepType ==
    ASSUME TypeOK,
           \/ \E s \in Sources, r \in Releases : Publish(s, r)
           \/ ToggleChannel \/ StartApp \/ ExitApp \/ StopApp
    PROVE  TypeOK'
<1>1. ASSUME NEW s \in Sources, NEW r \in Releases, Publish(s, r) PROVE TypeOK'
  <2>1. published' \in [Sources -> Versions]
    BY <1>1 DEF Publish, TypeOK, Versions
  <2> QED
    BY <1>1, <2>1 DEF Publish, TypeOK, card
<1>2. CASE ToggleChannel
  BY <1>2 DEF ToggleChannel, TypeOK, Channels, card
<1>3. CASE StartApp
  <2>1. chk' \in [Checks -> CheckStates]
    BY <1>3 DEF StartApp, IdleCheck, CheckStates, Versions
  <2>2. app[VersionPy] \in Versions
    BY <1>3, OtaAssumption DEF StartApp, TypeOK, Contents, OtaAssumption
  <2> QED
    BY <1>3, <2>1, <2>2 DEF StartApp, TypeOK, card, world
<1>4. ASSUME ProcessGone PROVE chk' \in [Checks -> CheckStates] /\ modal' \in PopupStates
                               /\ inst' \in [Installers -> InstallStates]
                               /\ fd' \in [Installers -> OpenFiles]
  BY <1>4, NotOpenType DEF ProcessGone, IdleCheck, CheckStates, ClosedModal, PopupStates,
              IdleInstall, InstallStates, Versions
<1>5. CASE ExitApp
  BY <1>4, <1>5 DEF ExitApp, ProcessGone, TypeOK, card, world
<1>6. CASE StopApp
  <2>1. stops' \in 0..MaxStops
    BY <1>6, OtaAssumption DEF StopApp, TypeOK, OtaAssumption
  <2> QED
    BY <1>4, <1>6, <2>1 DEF StopApp, ProcessGone, TypeOK, card, world
<1> QED
  BY <1>1, <1>2, <1>3, <1>5, <1>6

LEMMA CheckStepType ==
    ASSUME TypeOK, NEW c \in Checks, CheckStep(c)
    PROVE  TypeOK'
<1>1. CASE StartManualCheck(c)
  <2>1. chk' \in [Checks -> CheckStates]
    BY <1>1 DEF StartManualCheck, TypeOK, CheckStates
  <2> QED
    BY <1>1, <2>1 DEF StartManualCheck, TypeOK, card, world
<1>2. CASE FetchOk(c)
  <2>1. PICK s \in SourcesOf(channel) :
           chk' = [chk EXCEPT ![c].pc = "ruling", ![c].rel = published[s]]
    BY <1>2 DEF FetchOk
  <2>2. published[s] \in Versions
    BY <2>1 DEF TypeOK, SourcesOf, Sources
  <2>3. chk' \in [Checks -> CheckStates]
    BY <2>1, <2>2 DEF TypeOK, CheckStates
  <2> QED
    BY <1>2, <2>3 DEF FetchOk, TypeOK, card, world
<1>3. CASE FetchFail(c)
  <2>1. chk' \in [Checks -> CheckStates]
    BY <1>3 DEF FetchFail, TypeOK, CheckStates, IdleCheck, Versions
  <2> QED
    BY <1>3, <2>1 DEF FetchFail, TypeOK, card, world
<1>4. CASE Rule(c)
  <2>1. IdleCheck \in CheckStates
    BY DEF IdleCheck, CheckStates, Versions
  <2>2. ASSUME Offers(c, chk[c].rel)
        PROVE  Listed[chk[c].rel] \subseteq Files
    <3>1. chk[c].rel \in Releases
      BY <2>2, OtaAssumption
      DEF Offers, IsNewer, TypeOK, CheckStates, Versions, OtaAssumption
    <3> QED
      BY <3>1, OtaAssumption DEF OtaAssumption
  <2>3. chk' \in [Checks -> CheckStates]
    <3>1. CASE Offers(c, chk[c].rel)
      BY <1>4, <2>2, <3>1 DEF Rule, TypeOK, CheckStates
    <3>2. CASE ~Offers(c, chk[c].rel)
      BY <1>4, <2>1, <3>2 DEF Rule, TypeOK
    <3> QED
      BY <3>1, <3>2
  <2> QED
    BY <1>4, <2>3 DEF Rule, TypeOK, card, world
<1>5. CASE Scan(c)
  <2>1. PICK p \in chk[c].todo :
           chk' = IF app[p] # Sha[chk[c].rel][p]
                    THEN [chk EXCEPT ![c].todo = chk[c].todo \ {p},
                                     ![c].files = chk[c].files \cup {p}]
                    ELSE [chk EXCEPT ![c].todo = chk[c].todo \ {p}]
    BY <1>5 DEF Scan
  <2>2. chk' \in [Checks -> CheckStates]
    BY <2>1 DEF TypeOK, CheckStates
  <2> QED
    BY <1>5, <2>2 DEF Scan, TypeOK, card, world
<1>6. CASE OpenModal(c)
  <2>1. chk' \in [Checks -> CheckStates]
    <3>1. IdleCheck \in CheckStates
      BY DEF IdleCheck, CheckStates, Versions
    <3> QED
      BY <1>6, <3>1 DEF OpenModal, TypeOK
  <2>2. modal' \in PopupStates
    BY <1>6 DEF OpenModal, TypeOK, CheckStates, PopupStates
  <2> QED
    BY <1>6, <2>1, <2>2 DEF OpenModal, TypeOK, card, world
<1> QED
  BY <1>1, <1>2, <1>3, <1>4, <1>5, <1>6 DEF CheckStep

LEMMA ChoiceType ==
    ASSUME TypeOK, ChooseLater \/ ChooseSkip \/ \E i \in Installers : ChooseInstall(i)
    PROVE  TypeOK'
<1>1. CASE ChooseLater
  BY <1>1 DEF ChooseLater, TypeOK, PopupStates, card, world
<1>2. CASE ChooseSkip
  <2>1. modal' \in PopupStates
    BY <1>2 DEF ChooseSkip, TypeOK, PopupStates
  <2>2. skipped' \subseteq Versions /\ skippedOnCard' \subseteq Versions
    BY <1>2 DEF ChooseSkip, TypeOK, PopupStates
  <2> QED
    BY <1>2, <2>1, <2>2 DEF ChooseSkip, TypeOK, world
<1>3. ASSUME NEW i \in Installers, ChooseInstall(i) PROVE TypeOK'
  <2>1. modal' \in PopupStates
    BY <1>3 DEF ChooseInstall, TypeOK, PopupStates
  <2>2. inst' \in [Installers -> InstallStates]
    BY <1>3 DEF ChooseInstall, TypeOK, InstallStates
  <2> QED
    BY <1>3, <2>1, <2>2 DEF ChooseInstall, TypeOK, card, world
<1> QED
  BY <1>1, <1>2, <1>3

\* What a thread writes into its open file: the content its release has for that
\* path, or bytes of two threads.
LEMMA WrittenContent ==
    ASSUME TypeOK, ListsFromManifests, NEW i \in Installers, fd[i].at # "none",
           NEW c \in Written(i)
    PROVE  /\ c \in {Sha[inst[i].rel][fd[i].path], Torn}
           /\ c \in Contents /\ (fd[i].path = VersionPy => c # NoFile)
           /\ inst[i].pc = "staging" /\ fd[i].path \in inst[i].left /\ fd[i].path \in Files
           /\ inst[i].rel \in Releases
<1>1. c \in {Sha[inst[i].rel][fd[i].path], Torn}
  BY DEF Written
<1>2. /\ inst[i].pc = "staging" /\ fd[i].path \in inst[i].left /\ fd[i].path \in Files
      /\ inst[i].rel \in Releases
  BY DEF ListsFromManifests, Working, TypeOK, OpenFiles
<1>3. Sha[inst[i].rel][fd[i].path] \in Versions \cup {NoFile}
  BY <1>2, ShaType DEF Versions
<1>4. fd[i].path = VersionPy => Sha[inst[i].rel][fd[i].path] \in Nat
  BY <1>2, OtaAssumption, VersionsAreNat DEF OtaAssumption, Versions
<1> QED
  BY <1>1, <1>2, <1>3, <1>4, OtaAssumption DEF Contents, OtaAssumption

LEMMA InstallStepType ==
    ASSUME TypeOK, ListsFromManifests, NEW i \in Installers, InstallStep(i)
    PROVE  TypeOK'
<1>1. ASSUME InstallFailed(i)
      PROVE  inst' \in [Installers -> InstallStates] /\ modal' \in PopupStates
  <2>1. IdleInstall \in InstallStates
    BY DEF IdleInstall, InstallStates, Versions
  <2> QED
    BY <1>1, <2>1 DEF InstallFailed, TypeOK, PopupStates
<1>2. Empty \in [Files -> Contents]
  BY DEF Empty, Contents
<1>13. \A P : \A from \in {"staging", "app"}, to \in {"app", "gone"} :
          Relocated(fd, P, from, to) \in [Installers -> OpenFiles]
  BY RelocatedFacts DEF TypeOK
<1>3. CASE Begin(i)
  <2>1. inst' \in [Installers -> InstallStates]
    BY <1>3 DEF Begin, TypeOK, PopupStates, InstallStates
  <2> QED
    BY <1>3, <2>1 DEF Begin, TypeOK, card, world
<1>4. CASE ClearStaging(i)
  <2>1. inst' \in [Installers -> InstallStates]
    BY <1>4 DEF ClearStaging, TypeOK, InstallStates
  <2>2. fd' \in [Installers -> OpenFiles]
    BY <1>4, <1>13 DEF ClearStaging
  <2> QED
    BY <1>2, <1>4, <2>1, <2>2 DEF ClearStaging, TypeOK, world
<1>5. CASE OpenStaged(i)
  <2>1. PICK p \in inst[i].left :
           LET others == {j \in Installers : fd[j].at = "staging" /\ fd[j].path = p}
           IN  /\ staging' = [staging EXCEPT ![p] = Torn]
               /\ fd' = [j \in Installers |->
                     CASE j = i -> [path |-> p, at |-> "staging",
                                    shared |-> \E k \in others : inst[k].rel # inst[i].rel]
                       [] j \in others -> [fd[j] EXCEPT !.shared = TRUE]
                       [] OTHER -> fd[j]]
    BY <1>5 DEF OpenStaged
  <2>2. staging' \in [Files -> Contents]
    BY <2>1 DEF TypeOK, Contents
  <2>3. p \in Files
    BY DEF TypeOK, InstallStates
  <2>4. fd' \in [Installers -> OpenFiles]
    BY <2>1, <2>3 DEF TypeOK, OpenFiles
  <2> QED
    BY <1>5, <2>2, <2>4 DEF OpenStaged, TypeOK, world
<1>14. CASE WriteStaged(i)
  <2>1. PICK c \in Written(i) :
           /\ staging' = IF fd[i].at = "staging" THEN [staging EXCEPT ![fd[i].path] = c]
                                                 ELSE staging
           /\ app' = IF fd[i].at = "app" THEN [app EXCEPT ![fd[i].path] = c] ELSE app
    BY <1>14 DEF WriteStaged
  <2>2. c \in Contents /\ (fd[i].path = VersionPy => c # NoFile)
    BY <1>14, WrittenContent DEF WriteStaged
  <2>3. staging' \in [Files -> Contents]
    BY <2>1, <2>2 DEF TypeOK
  <2>4. app' \in [Files -> Contents] /\ app'[VersionPy] # NoFile
    BY <2>1, <2>2, OtaAssumption DEF TypeOK, OtaAssumption
  <2>5. inst' \in [Installers -> InstallStates] /\ fd' \in [Installers -> OpenFiles]
    BY <1>14, NotOpenType DEF WriteStaged, TypeOK, InstallStates
  <2> QED
    BY <1>14, <2>3, <2>4, <2>5 DEF WriteStaged, TypeOK, world
<1>6. CASE StageFail(i)
  <2>1. fd' \in [Installers -> OpenFiles]
    BY <1>6, <1>13, NotOpenType DEF StageFail
  <2> QED
    BY <1>1, <1>2, <1>6, <2>1 DEF StageFail, TypeOK, world
<1>7. CASE ApplyFile(i)
  <2>1. PICK p \in inst[i].left :
           /\ staging[p] # NoFile
           /\ app' = [app EXCEPT ![p] = staging[p]]
           /\ staging' = [staging EXCEPT ![p] = NoFile]
           /\ inst' = IF inst[i].left = {p}
                         THEN [inst EXCEPT ![i].pc = "removing",
                                           ![i].left = Dropped[inst[i].rel]]
                         ELSE [inst EXCEPT ![i].left = inst[i].left \ {p}]
    BY <1>7 DEF ApplyFile
  <2>2. p \in Files
    BY DEF TypeOK, InstallStates
  <2>3. app' \in [Files -> Contents] /\ app'[VersionPy] # NoFile
    BY <2>1, <2>2, OtaAssumption DEF TypeOK, OtaAssumption
  <2>4. staging' \in [Files -> Contents]
    BY <2>1 DEF TypeOK, Contents
  <2>7. fd' \in [Installers -> OpenFiles]
    BY <1>7, <1>13, RelocatedFacts DEF ApplyFile
  <2>5. Dropped[inst[i].rel] \subseteq Files
    <3>1. inst[i].rel \in Releases
      BY <1>7 DEF ApplyFile, ListsFromManifests, Working
    <3> QED
      BY <3>1, OtaAssumption DEF OtaAssumption
  <2>6. inst' \in [Installers -> InstallStates]
    <3>1. CASE inst[i].left = {p}
      <4>1. ASSUME NEW D \in SUBSET Files
            PROVE  [inst EXCEPT ![i].pc = "removing", ![i].left = D]
                       \in [Installers -> InstallStates]
        BY DEF TypeOK, InstallStates
      <4> QED
        BY <2>1, <2>5, <3>1, <4>1
    <3>2. CASE inst[i].left # {p}
      BY <2>1, <3>2 DEF TypeOK, InstallStates
    <3> QED
      BY <3>1, <3>2
  <2> QED
    BY <1>7, <2>3, <2>4, <2>6, <2>7 DEF ApplyFile, TypeOK, world
<1>8. CASE ApplyFail(i)
  BY <1>1, <1>8 DEF ApplyFail, TypeOK, card, world
<1>9. CASE RemoveFile(i)
  <2>1. PICK p \in inst[i].left : /\ app' \in {[app EXCEPT ![p] = NoFile], app}
                                  /\ fd' \in {Relocated(fd, {p}, "app", "gone"), fd}
                                  /\ inst' = [inst EXCEPT ![i].left = inst[i].left \ {p}]
    BY <1>9 DEF RemoveFile
  <2>2. p # VersionPy
    <3>1. p \in Dropped[inst[i].rel] /\ inst[i].rel \in Releases
      BY <1>9, <2>1 DEF RemoveFile, ListsFromManifests, Working
    <3> QED
      BY <3>1, OtaAssumption DEF OtaAssumption
  <2>3. app' \in [Files -> Contents] /\ app'[VersionPy] # NoFile
    BY <2>1, <2>2, OtaAssumption DEF TypeOK, OtaAssumption, Contents
  <2>4. inst' \in [Installers -> InstallStates]
    BY <2>1 DEF TypeOK, InstallStates
  <2>5. fd' \in [Installers -> OpenFiles]
    BY <1>13, <2>1 DEF TypeOK
  <2> QED
    BY <1>9, <2>3, <2>4, <2>5 DEF RemoveFile, TypeOK, world
<1>10. CASE FinishApply(i)
  <2>1. inst' \in [Installers -> InstallStates]
    BY <1>10 DEF FinishApply, TypeOK, InstallStates
  <2>2. fd' \in [Installers -> OpenFiles]
    BY <1>10, <1>13 DEF FinishApply
  <2> QED
    BY <1>2, <1>10, <2>1, <2>2 DEF FinishApply, TypeOK, world
<1>11. CASE RestartOk(i)
  <2>1. IdleInstall \in InstallStates
    BY DEF IdleInstall, InstallStates, Versions
  <2>2. inst' \in [Installers -> InstallStates] /\ modal' \in PopupStates
    BY <1>11, <2>1 DEF RestartOk, TypeOK, PopupStates
  <2> QED
    BY <1>11, <2>2 DEF RestartOk, TypeOK, card, world
<1>12. CASE RestartFail(i)
  BY <1>1, <1>12 DEF RestartFail, TypeOK, card, world
<1> QED
  BY <1>3, <1>4, <1>5, <1>6, <1>7, <1>8, <1>9, <1>10, <1>11, <1>12, <1>14 DEF InstallStep

-----------------------------------------------------------------------------
(* Manifests and lists.                                                    *)

TypeInv == TypeOK /\ ListsFromManifests

LEMMA InitLists == Init => ListsFromManifests
  BY NotOpenType
  DEF Init, ListsFromManifests, PopupRead, Working, IdleCheck, IdleInstall, ClosedModal

LEMMA WorldStepLists ==
    ASSUME TypeInv,
           \/ \E s \in Sources, r \in Releases : Publish(s, r)
           \/ ToggleChannel \/ StartApp \/ ExitApp \/ StopApp
    PROVE  ListsFromManifests'
<1>1. ASSUME NEW s \in Sources, NEW r \in Releases, Publish(s, r) PROVE ListsFromManifests'
  BY <1>1 DEF Publish, TypeInv, ListsFromManifests, PopupRead, Working
<1>2. CASE ToggleChannel
  BY <1>2 DEF ToggleChannel, TypeInv, ListsFromManifests, PopupRead, Working
<1>3. CASE StartApp
  <2>1. \A c \in Checks : chk'[c].pc # "scanning"
    BY <1>3 DEF StartApp, IdleCheck
  <2> QED
    BY <1>3, <2>1 DEF StartApp, TypeInv, ListsFromManifests, PopupRead, Working
<1>4. ASSUME ProcessGone PROVE ListsFromManifests'
  BY <1>4, NotOpenType
  DEF ProcessGone, ListsFromManifests, PopupRead, Working, IdleCheck, IdleInstall, ClosedModal
<1> QED
  BY <1>1, <1>2, <1>3, <1>4 DEF ExitApp, StopApp

LEMMA CheckStepLists ==
    ASSUME TypeInv, NEW c \in Checks, CheckStep(c)
    PROVE  ListsFromManifests'
<1> DEFINE Listing(d) == chk[d].pc = "scanning" =>
             /\ chk[d].rel \in Releases
             /\ chk[d].files \cup chk[d].todo \subseteq Listed[chk[d].rel]
<1>1. \A d \in Checks : Listing(d)
  BY DEF TypeInv, ListsFromManifests
<1>2. ASSUME UNCHANGED <<modal, inst, fd>>, \A d \in Checks : Listing(d)'
      PROVE  ListsFromManifests'
  BY <1>2 DEF TypeInv, ListsFromManifests, PopupRead, Working
<1>3. ASSUME chk' = [chk EXCEPT ![c] = chk'[c]], Listing(c)' PROVE \A d \in Checks : Listing(d)'
  BY <1>1, <1>3 DEF TypeInv, TypeOK
<1>4. CASE StartManualCheck(c)
  BY <1>1, <1>2, <1>3, <1>4 DEF StartManualCheck, TypeInv, TypeOK
<1>5. CASE FetchOk(c)
  BY <1>1, <1>2, <1>3, <1>5 DEF FetchOk, TypeInv, TypeOK
<1>6. CASE FetchFail(c)
  BY <1>1, <1>2, <1>3, <1>6 DEF FetchFail, IdleCheck, TypeInv, TypeOK
<1>7. CASE Rule(c)
  <2>1. Offers(c, chk[c].rel) => chk[c].rel \in Releases
    BY OtaAssumption
    DEF Offers, IsNewer, TypeInv, TypeOK, CheckStates, Versions, OtaAssumption
  <2>2. Listing(c)'
    BY <1>7, <2>1 DEF Rule, IdleCheck, TypeInv, TypeOK
  <2> QED
    BY <1>2, <1>3, <1>7, <2>2 DEF Rule, TypeInv, TypeOK
<1>8. CASE Scan(c)
  <2>1. Listing(c)'
    BY <1>1, <1>8 DEF Scan, TypeInv, TypeOK, CheckStates
  <2>2. chk' = [chk EXCEPT ![c] = chk'[c]]
    BY <1>8 DEF Scan, TypeInv, TypeOK, CheckStates
  <2> QED
    BY <1>2, <1>3, <1>8, <2>1, <2>2 DEF Scan
<1>9. CASE OpenModal(c)
  <2>1. \A d \in Checks : Listing(d)'
    BY <1>1, <1>9 DEF OpenModal, IdleCheck, TypeInv, TypeOK
  <2>2. modal'.rel \in Releases /\ modal'.files \subseteq Listed[modal'.rel]
    BY <1>1, <1>9 DEF OpenModal
  <2> QED
    BY <1>9, <2>1, <2>2 DEF OpenModal, TypeInv, ListsFromManifests, PopupRead, Working
<1> QED
  BY <1>4, <1>5, <1>6, <1>7, <1>8, <1>9 DEF CheckStep

LEMMA ChoiceLists ==
    ASSUME TypeInv, ChooseLater \/ ChooseSkip \/ \E i \in Installers : ChooseInstall(i)
    PROVE  ListsFromManifests'
<1>1. CASE ChooseLater
  BY <1>1 DEF ChooseLater, TypeInv, TypeOK, PopupStates, ListsFromManifests, PopupRead, Working
<1>2. CASE ChooseSkip
  BY <1>2 DEF ChooseSkip, TypeInv, TypeOK, PopupStates, ListsFromManifests, PopupRead, Working
<1>3. ASSUME NEW i \in Installers, ChooseInstall(i) PROVE ListsFromManifests'
  <2>1. modal'.rel = modal.rel /\ modal'.files = modal.files /\ PopupRead
    BY <1>3 DEF ChooseInstall, TypeInv, TypeOK, PopupStates, PopupRead
  <2>2. \A j \in Installers : Working(j)' => Working(j) /\ inst'[j] = inst[j]
    BY <1>3 DEF ChooseInstall, TypeInv, TypeOK, InstallStates, Working
  <2> QED
    BY <1>3, <2>1, <2>2 DEF ChooseInstall, TypeInv, ListsFromManifests, Working
<1> QED
  BY <1>1, <1>2, <1>3

\* A thread has a file open only while it stages, and one it has still to stage.
LEMMA OpenStaysListed ==
    ASSUME TypeInv, NEW i \in Installers, InstallStep(i)
    PROVE  \A j \in Installers :
               fd'[j].at # "none" => inst'[j].pc = "staging" /\ fd'[j].path \in inst'[j].left
<1> DEFINE Holding(j) ==
             fd[j].at # "none" => inst[j].pc = "staging" /\ fd[j].path \in inst[j].left
<1>1. /\ \A j \in Installers : Holding(j)
      /\ fd \in [Installers -> OpenFiles] /\ inst \in [Installers -> InstallStates]
  BY DEF TypeInv, TypeOK, ListsFromManifests
<1>2. ASSUME \A j \in Installers : j # i => inst'[j] = inst[j],
             \A j \in Installers : j # i =>
                 fd'[j].path = fd[j].path /\ (fd'[j].at = "none" <=> fd[j].at = "none"),
             Holding(i)'
      PROVE  \A j \in Installers : Holding(j)'
  BY <1>1, <1>2
<1>3. CASE OpenStaged(i)
  <2>1. PICK p \in inst[i].left :
               fd' = [j \in Installers |->
                     CASE j = i -> [path |-> p, at |-> "staging",
                                    shared |-> \E k \in {k \in Installers :
                                                    fd[k].at = "staging" /\ fd[k].path = p} :
                                                  inst[k].rel # inst[i].rel]
                       [] j \in {k \in Installers : fd[k].at = "staging" /\ fd[k].path = p} ->
                             [fd[j] EXCEPT !.shared = TRUE]
                       [] OTHER -> fd[j]]
    BY <1>3 DEF OpenStaged
  <2>2. \A j \in Installers : j # i =>
                 fd'[j].path = fd[j].path /\ (fd'[j].at = "none" <=> fd[j].at = "none")
    BY <1>1, <2>1 DEF OpenFiles
  <2>3. fd'[i].path = p
    BY <2>1
  <2>4. inst' = inst /\ inst[i].pc = "staging"
    BY <1>3 DEF OpenStaged
  <2> QED
    BY <1>2, <2>2, <2>3, <2>4
<1>4. CASE WriteStaged(i)
  BY <1>1, <1>2, <1>4, NotOpenType DEF WriteStaged
<1>5. CASE StageFail(i)
  <2> DEFINE f == Relocated(fd, Files, "staging", "gone")
  <2>1. /\ f \in [Installers -> OpenFiles]
        /\ \A j \in Installers : f[j].path = fd[j].path /\ (f[j].at = "none" <=> fd[j].at = "none")
    BY <1>1, RelocatedFacts
  <2>2. fd' = [f EXCEPT ![i] = NotOpen] /\ inst' = [inst EXCEPT ![i] = IdleInstall]
    BY <1>5 DEF StageFail, InstallFailed
  <2> QED
    BY <1>1, <1>2, <2>1, <2>2, NotOpenType
<1>6. ASSUME inst[i].pc # "staging" \/ ClearStaging(i), \A j \in Installers : j # i => inst'[j] = inst[j],
             \A j \in Installers :
                 fd'[j].path = fd[j].path /\ (fd'[j].at = "none" <=> fd[j].at = "none")
      PROVE  \A j \in Installers : Holding(j)'
  <2>1. fd[i].at = "none"
    BY <1>1, <1>6 DEF ClearStaging
  <2> QED
    BY <1>2, <1>6, <2>1
<1>7. CASE ClearStaging(i) \/ FinishApply(i)
  <2>1. fd' = Relocated(fd, Files, "staging", "gone") /\ inst[i].pc # "staging"
    BY <1>7 DEF ClearStaging, FinishApply
  <2>2. \A j \in Installers : j # i => inst'[j] = inst[j]
    BY <1>1, <1>7 DEF ClearStaging, FinishApply
  <2> QED
    BY <1>1, <1>6, <2>1, <2>2, RelocatedFacts
<1>8. CASE ApplyFile(i)
  <2>1. PICK p \in inst[i].left :
           /\ fd' = Relocated(Relocated(fd, {p}, "app", "gone"), {p}, "staging", "app")
           /\ inst' = IF inst[i].left = {p}
                         THEN [inst EXCEPT ![i].pc = "removing",
                                           ![i].left = Dropped[inst[i].rel]]
                         ELSE [inst EXCEPT ![i].left = inst[i].left \ {p}]
    BY <1>8 DEF ApplyFile
  <2>2. \A j \in Installers :
            fd'[j].path = fd[j].path /\ (fd'[j].at = "none" <=> fd[j].at = "none")
    BY <1>1, <2>1, RelocatedFacts
  <2> QED
    BY <1>1, <1>6, <1>8, <2>1, <2>2 DEF ApplyFile
<1>9. CASE RemoveFile(i)
  <2>1. PICK p \in inst[i].left : /\ fd' \in {Relocated(fd, {p}, "app", "gone"), fd}
                                  /\ inst' = [inst EXCEPT ![i].left = inst[i].left \ {p}]
    BY <1>9 DEF RemoveFile
  <2>2. \A j \in Installers :
            fd'[j].path = fd[j].path /\ (fd'[j].at = "none" <=> fd[j].at = "none")
    BY <1>1, <2>1, RelocatedFacts
  <2> QED
    BY <1>1, <1>6, <1>9, <2>1, <2>2 DEF RemoveFile
<1>10. CASE Begin(i) \/ ApplyFail(i) \/ RestartOk(i) \/ RestartFail(i)
  <2>1. fd' = fd /\ inst[i].pc # "staging" /\ \A j \in Installers : j # i => inst'[j] = inst[j]
    BY <1>1, <1>10 DEF Begin, ApplyFail, RestartOk, RestartFail, InstallFailed
  <2> QED
    BY <1>6, <2>1
<1> QED
  BY <1>3, <1>4, <1>5, <1>7, <1>8, <1>9, <1>10 DEF InstallStep

LEMMA InstallStepLists ==
    ASSUME TypeInv, NEW i \in Installers, InstallStep(i)
    PROVE  ListsFromManifests'
<1> DEFINE Job(j) == Working(j) =>
             /\ inst[j].rel \in Releases
             /\ inst[j].files \subseteq Listed[inst[j].rel]
             /\ inst[j].pc \in {"staging", "applying"} =>
                    inst[j].left # {} /\ inst[j].left \subseteq inst[j].files
             /\ inst[j].pc = "removing" => inst[j].left \subseteq Dropped[inst[j].rel]
             /\ inst[j].pc = "clearing" => inst[j].files # {} /\ inst[j].left = inst[j].files
<1>1. \A j \in Installers : Job(j)
  BY DEF TypeInv, ListsFromManifests
\* A thread's step changes its own record; it never starts another thread.
<1>2. ASSUME chk' = chk, modal'.rel = modal.rel, modal'.files = modal.files,
             modal'.open = modal.open,
             inst' = [inst EXCEPT ![i] = inst'[i]], inst'[i].pc # "started", Job(i)'
      PROVE  ListsFromManifests'
  <2>1. \A j \in Installers : Job(j)'
    BY <1>1, <1>2 DEF TypeInv, TypeOK, Working
  <2>2. PopupRead' => PopupRead
    BY <1>2 DEF PopupRead, TypeInv, TypeOK
  <2> QED
    BY <1>2, <2>1, <2>2, OpenStaysListed DEF TypeInv, ListsFromManifests
<1>3. ASSUME chk' = chk, InstallFailed(i) PROVE ListsFromManifests'
  <2>1. inst' = [inst EXCEPT ![i] = inst'[i]] /\ inst'[i] = IdleInstall
    BY <1>3 DEF InstallFailed, TypeInv, TypeOK
  <2>2. modal'.rel = modal.rel /\ modal'.files = modal.files /\ modal'.open = modal.open
    BY <1>3 DEF InstallFailed, TypeInv, TypeOK, PopupStates
  <2> QED
    BY <1>2, <1>3, <2>1, <2>2 DEF IdleInstall, Working
<1>4. CASE Begin(i)
  <2>1. PopupRead
    BY <1>4 DEF Begin, PopupRead
  <2>2. inst' = [inst EXCEPT ![i] = inst'[i]] /\ inst'[i].pc # "started" /\ Job(i)'
    BY <1>4, <2>1 DEF Begin, Working, TypeInv, TypeOK, ListsFromManifests
  <2> QED
    BY <1>2, <1>4, <2>2 DEF Begin
<1>5. CASE ClearStaging(i)
  <2>1. inst' = [inst EXCEPT ![i] = inst'[i]] /\ inst'[i].pc # "started" /\ Job(i)'
    BY <1>1, <1>5 DEF ClearStaging, Working, TypeInv, TypeOK, InstallStates
  <2> QED
    BY <1>2, <1>5, <2>1 DEF ClearStaging
<1>6. CASE WriteStaged(i)
  <2> DEFINE p == fd[i].path
  <2>1. /\ p \in inst[i].left
        /\ inst' = IF inst[i].left = {p}
                         THEN [inst EXCEPT ![i].pc = "applying", ![i].left = inst[i].files]
                         ELSE [inst EXCEPT ![i].left = inst[i].left \ {p}]
    BY <1>6 DEF WriteStaged, TypeInv, ListsFromManifests
  <2>2. inst' = [inst EXCEPT ![i] = inst'[i]] /\ inst'[i].pc # "started" /\ Job(i)'
    <3>1. inst[i].pc = "staging" /\ Working(i) /\ Job(i)
      BY <1>1, <1>6 DEF WriteStaged, Working, TypeInv, ListsFromManifests
    <3>2. CASE inst[i].left = {p}
      <4>1. inst' = [inst EXCEPT ![i].pc = "applying", ![i].left = inst[i].files]
        BY <2>1, <3>2
      <4>2. /\ inst' = [inst EXCEPT ![i] = inst'[i]]
            /\ inst'[i] = [inst[i] EXCEPT !.pc = "applying", !.left = inst[i].files]
        BY <4>1 DEF TypeInv, TypeOK, InstallStates
      <4> QED
        BY <3>1, <4>2 DEF Working, TypeInv, TypeOK, InstallStates
    <3>3. CASE inst[i].left # {p}
      <4>1. inst[i].left \ {p} # {}
        BY <2>1, <3>1, <3>3
      <4>2. /\ inst' = [inst EXCEPT ![i] = inst'[i]]
            /\ inst'[i] = [inst[i] EXCEPT !.left = inst[i].left \ {p}]
        BY <2>1, <3>3 DEF TypeInv, TypeOK, InstallStates
      <4> QED
        BY <3>1, <4>1, <4>2 DEF Working, TypeInv, TypeOK, InstallStates
    <3> QED
      BY <3>2, <3>3
  <2> QED
    BY <1>2, <1>6, <2>2 DEF WriteStaged
<1>11. CASE OpenStaged(i)
  <2>1. inst' = inst /\ Working(i) /\ inst[i].pc = "staging"
    BY <1>11 DEF OpenStaged, Working
  <2> QED
    BY <1>1, <1>2, <1>11, <2>1 DEF OpenStaged, TypeInv, TypeOK, Working
<1>7. CASE ApplyFile(i)
  <2>1. PICK p \in inst[i].left :
            inst' = IF inst[i].left = {p}
                         THEN [inst EXCEPT ![i].pc = "removing",
                                           ![i].left = Dropped[inst[i].rel]]
                         ELSE [inst EXCEPT ![i].left = inst[i].left \ {p}]
    BY <1>7 DEF ApplyFile
  <2>2. inst' = [inst EXCEPT ![i] = inst'[i]] /\ inst'[i].pc # "started" /\ Job(i)'
    <3>1. inst[i].pc = "applying" /\ Working(i) /\ Job(i)
      BY <1>1, <1>7 DEF ApplyFile, Working
    <3>2. CASE inst[i].left = {p}
      <4>1. inst' = [inst EXCEPT ![i].pc = "removing", ![i].left = Dropped[inst[i].rel]]
        BY <2>1, <3>2
      <4>2. /\ inst' = [inst EXCEPT ![i] = inst'[i]]
            /\ inst'[i] = [inst[i] EXCEPT !.pc = "removing", !.left = Dropped[inst[i].rel]]
        BY <4>1 DEF TypeInv, TypeOK, InstallStates
      <4> QED
        BY <3>1, <4>2 DEF Working, TypeInv, TypeOK, InstallStates
    <3>3. CASE inst[i].left # {p}
      <4>1. inst[i].left \ {p} # {}
        BY <2>1, <3>1, <3>3
      <4>2. /\ inst' = [inst EXCEPT ![i] = inst'[i]]
            /\ inst'[i] = [inst[i] EXCEPT !.left = inst[i].left \ {p}]
        BY <2>1, <3>3 DEF TypeInv, TypeOK, InstallStates
      <4> QED
        BY <3>1, <4>1, <4>2 DEF Working, TypeInv, TypeOK, InstallStates
    <3> QED
      BY <3>2, <3>3
  <2> QED
    BY <1>2, <1>7, <2>2 DEF ApplyFile
<1>8. CASE RemoveFile(i)
  <2>1. inst' = [inst EXCEPT ![i] = inst'[i]] /\ inst'[i].pc # "started" /\ Job(i)'
    BY <1>1, <1>8 DEF RemoveFile, Working, TypeInv, TypeOK, InstallStates
  <2> QED
    BY <1>2, <1>8, <2>1 DEF RemoveFile
<1>9. CASE FinishApply(i)
  <2>1. inst' = [inst EXCEPT ![i] = inst'[i]] /\ inst'[i].pc # "started" /\ Job(i)'
    BY <1>1, <1>9 DEF FinishApply, Working, TypeInv, TypeOK, InstallStates
  <2> QED
    BY <1>2, <1>9, <2>1 DEF FinishApply
<1>10. CASE RestartOk(i)
  <2>1. inst' = [inst EXCEPT ![i] = inst'[i]] /\ inst'[i] = IdleInstall
    BY <1>10 DEF RestartOk, TypeInv, TypeOK
  <2>2. modal'.rel = modal.rel /\ modal'.files = modal.files /\ modal'.open = modal.open
    BY <1>10 DEF RestartOk, TypeInv, TypeOK, PopupStates
  <2> QED
    BY <1>2, <1>10, <2>1, <2>2 DEF RestartOk, IdleInstall, Working
<1> QED
  BY <1>3, <1>4, <1>5, <1>6, <1>7, <1>8, <1>9, <1>10, <1>11
  DEF InstallStep, StageFail, ApplyFail, RestartFail

LEMMA NextTypeInv == TypeInv /\ [Next]_vars => TypeInv'
<1> SUFFICES ASSUME TypeInv, [Next]_vars PROVE TypeInv'
  OBVIOUS
<1>1. CASE \/ \E s \in Sources, r \in Releases : Publish(s, r)
           \/ ToggleChannel \/ StartApp \/ ExitApp \/ StopApp
  BY <1>1, WorldStepType, WorldStepLists DEF TypeInv
<1>2. ASSUME NEW c \in Checks, CheckStep(c) PROVE TypeInv'
  BY <1>2, CheckStepType, CheckStepLists DEF TypeInv
<1>3. CASE ChooseLater \/ ChooseSkip \/ \E i \in Installers : ChooseInstall(i)
  BY <1>3, ChoiceType, ChoiceLists DEF TypeInv
<1>4. ASSUME NEW i \in Installers, InstallStep(i) PROVE TypeInv'
  BY <1>4, InstallStepType, InstallStepLists DEF TypeInv
<1>5. CASE UNCHANGED vars
  BY <1>5 DEF vars, TypeInv, TypeOK, ListsFromManifests, PopupRead, Working
<1> QED
  BY <1>1, <1>2, <1>3, <1>4, <1>5 DEF Next

\* Every reachable state is typed: in particular version.py always exists, and
\* whatever it holds is a release's or a file some thread has not written to its
\* end, for any number of threads that share the staging directory.
THEOREM TypeCorrect == Spec => []TypeOK
<1>1. Init => TypeInv
  BY InitType, InitLists DEF TypeInv
<1>2. TypeInv => TypeOK
  BY DEF TypeInv
<1> QED
  BY <1>1, <1>2, NextTypeInv, PTL DEF Spec

-----------------------------------------------------------------------------
(* One release on offer, and lists that cover the tree.                    *)

SessionTypeInv == TypeInv /\ OneSession /\ ListsCoverTree

\* The same invariant, thread by thread.
CheckOK(c) ==
    /\ chk[c].pc = "ruling" =>
           chk[c].rel # 0 /\ \E s \in SourcesOf(channel) : published[s] = chk[c].rel
    /\ chk[c].pc = "scanning" =>
           OnOfferNow(chk[c].rel) /\ Covers(chk[c].rel, chk[c].files \cup chk[c].todo)
PopupOK == PopupRead => OnOfferNow(modal.rel) /\ Covers(modal.rel, modal.files)
StagedFor(r) == \A p \in Files : staging[p] \in {NoFile, Torn, Sha[r][p]}
JobOK(i) ==
    Working(i) =>
        /\ OnOfferNow(inst[i].rel)
        /\ Covers(inst[i].rel, inst[i].files)
        /\ inst[i].pc = "applying" => Covers(inst[i].rel, inst[i].left)
        /\ inst[i].pc \in {"staging", "applying"} => StagedFor(inst[i].rel)
        /\ fd[i].at = "app" /\ fd[i].path = VersionPy => Covers(inst[i].rel, {VersionPy})
OfferOK ==
    /\ OneOffer(appVersion, channel, published)
    /\ up /\ app[VersionPy] \notin {appVersion, Torn} => OnOfferNow(app[VersionPy])
    /\ ~up => Quiet

LEMMA ByThread ==
    (OneSession /\ ListsCoverTree) <=>
        /\ \A c \in Checks : CheckOK(c)
        /\ PopupOK
        /\ \A i \in Installers : JobOK(i)
        /\ OfferOK
<1>1. ASSUME OneSession, ListsCoverTree
      PROVE  /\ \A c \in Checks : CheckOK(c)
             /\ PopupOK
             /\ \A i \in Installers : JobOK(i)
             /\ OfferOK
  BY <1>1 DEF OneSession, ListsCoverTree, CheckOK, PopupOK, JobOK, OfferOK, StagedFor
<1>2. ASSUME \A c \in Checks : CheckOK(c), PopupOK, \A i \in Installers : JobOK(i), OfferOK
      PROVE  OneSession /\ ListsCoverTree
  BY <1>2 DEF OneSession, ListsCoverTree, CheckOK, PopupOK, JobOK, OfferOK, StagedFor, Working
<1> QED
  BY <1>1, <1>2

\* When nothing of the updater is alive, only the offer itself matters.
LEMMA QuietSession ==
    ASSUME Quiet, OneOffer(appVersion, channel, published)
    PROVE  OneSession /\ ListsCoverTree
  BY DEF Quiet, OneSession, ListsCoverTree, PopupRead, Working

LEMMA InitSession == Init => OneSession /\ ListsCoverTree
<1> SUFFICES ASSUME Init PROVE OneSession /\ ListsCoverTree
  OBVIOUS
<1>1. Quiet
  BY DEF Init, Quiet, IdleCheck, IdleInstall, ClosedModal
<1>2. \A s \in SourcesOf(channel) : published[s] = 0
  BY DEF Init, SourcesOf, Sources
<1>3. OneOffer(appVersion, channel, published)
  BY <1>2 DEF OneOffer, OnOffer
<1> QED
  BY <1>1, <1>3, QuietSession

LEMMA WorldStepSession ==
    ASSUME SessionTypeInv, SteadyOffer,
           \/ \E s \in Sources, r \in Releases : Publish(s, r)
           \/ ToggleChannel \/ StartApp \/ ExitApp \/ StopApp
    PROVE  OneSession' /\ ListsCoverTree'
<1>1. ASSUME Quiet', OneOffer(appVersion', channel', published')
      PROVE  OneSession' /\ ListsCoverTree'
  BY <1>1 DEF Quiet, OneSession, ListsCoverTree, PopupRead, Working
<1>2. ASSUME NEW s \in Sources, NEW r \in Releases, Publish(s, r)
      PROVE  OneSession' /\ ListsCoverTree'
  <2>1. Quiet' /\ OneOffer(appVersion', channel', published')
    BY <1>2 DEF Publish, OfferMayChange, Quiet, card
  <2> QED
    BY <1>1, <2>1
<1>3. CASE ToggleChannel
  <2>1. Quiet' /\ OneOffer(appVersion', channel', published')
    BY <1>3 DEF ToggleChannel, OfferMayChange, Quiet, card
  <2> QED
    BY <1>1, <2>1
<1>4. CASE StartApp
  <2>1. Quiet /\ OneOffer(appVersion', channel', published')
    BY <1>4 DEF StartApp, SessionTypeInv, OneSession, world
  <2>2. \A c \in Checks : chk'[c].pc \in {"idle", "fetching"}
    BY <1>4 DEF StartApp, IdleCheck
  <2>3. \A c \in Checks : CheckOK(c)'
    BY <2>2 DEF CheckOK
  <2>4. PopupOK' /\ \A i \in Installers : JobOK(i)'
    BY <1>4, <2>1 DEF StartApp, Quiet, PopupOK, PopupRead, JobOK, Working
  <2>5. OfferOK'
    BY <1>4, <2>1 DEF StartApp, OfferOK, card
  <2> QED
    BY <2>3, <2>4, <2>5 DEF OneSession, ListsCoverTree, CheckOK, PopupOK, JobOK, OfferOK,
                            StagedFor, Working
<1>5. ASSUME ProcessGone PROVE OneSession' /\ ListsCoverTree'
  <2>1. Quiet'
    BY <1>5 DEF ProcessGone, Quiet, IdleCheck, IdleInstall, ClosedModal
  <2>2. OneOffer(appVersion', channel', published')
    BY <1>5 DEF ProcessGone, SessionTypeInv, OneSession, world
  <2> QED
    BY <1>1, <2>1, <2>2
<1> QED
  BY <1>2, <1>3, <1>4, <1>5 DEF ExitApp, StopApp

\* The way back from the thread-by-thread form, for the next state.
LEMMA ByThreadNext ==
    ASSUME \A c \in Checks : CheckOK(c)', PopupOK', \A i \in Installers : JobOK(i)', OfferOK'
    PROVE  OneSession' /\ ListsCoverTree'
  BY DEF OneSession, ListsCoverTree, CheckOK, PopupOK, JobOK, OfferOK, StagedFor, Working

LEMMA CheckStepSession ==
    ASSUME SessionTypeInv, NEW c \in Checks, CheckStep(c)
    PROVE  OneSession' /\ ListsCoverTree'
<1>1. /\ \A d \in Checks : CheckOK(d)
      /\ PopupOK
      /\ \A i \in Installers : JobOK(i)
      /\ OfferOK
  BY ByThread DEF SessionTypeInv
<1>2. chk \in [Checks -> CheckStates]
  BY DEF SessionTypeInv, TypeInv, TypeOK
\* A check thread touches its own record and, in OpenModal, the popup.
<1>3. ASSUME UNCHANGED <<app, staging, published, channel, up, appVersion, modal, inst, fd>>,
             up, chk' = [chk EXCEPT ![c] = chk'[c]], CheckOK(c)'
      PROVE  OneSession' /\ ListsCoverTree'
  <2>1. ASSUME NEW d \in Checks PROVE CheckOK(d)'
    <3>1. CASE d = c
      BY <1>3, <3>1
    <3>2. CASE d # c
      <4>1. chk'[d] = chk[d]
        BY <1>2, <1>3, <3>2
      <4> QED
        BY <1>1, <1>3, <4>1 DEF CheckOK, OnOfferNow, Covers
    <3> QED
      BY <3>1, <3>2
  <2>2. PopupOK' /\ \A i \in Installers : JobOK(i)'
    BY <1>1, <1>3 DEF PopupOK, PopupRead, JobOK, Working, OnOfferNow, Covers, StagedFor
  <2>3. OfferOK'
    BY <1>1, <1>3 DEF OfferOK, OnOfferNow
  <2> QED
    BY <2>1, <2>2, <2>3, ByThreadNext
<1>4. up
  <2>1. chk[c].pc # "idle" => up
    BY <1>1 DEF OfferOK, Quiet
  <2> QED
    BY <2>1 DEF CheckStep, StartManualCheck, FetchOk, FetchFail, Rule, Scan, OpenModal
<1>5. CASE StartManualCheck(c)
  <2>1. chk' = [chk EXCEPT ![c] = chk'[c]] /\ chk'[c].pc = "fetching"
    BY <1>2, <1>5 DEF StartManualCheck, CheckStates
  <2> QED
    BY <1>3, <1>4, <1>5, <2>1 DEF StartManualCheck, CheckOK, card, world
<1>6. CASE FetchOk(c)
  <2>1. PICK s \in SourcesOf(channel) :
           /\ published[s] # 0
           /\ chk' = [chk EXCEPT ![c].pc = "ruling", ![c].rel = published[s]]
    BY <1>6 DEF FetchOk
  <2>2. /\ chk' = [chk EXCEPT ![c] = chk'[c]]
        /\ chk'[c].pc = "ruling" /\ chk'[c].rel = published[s]
    BY <1>2, <2>1 DEF CheckStates
  <2>3. CheckOK(c)'
    BY <1>6, <2>1, <2>2 DEF FetchOk, CheckOK, world
  <2> QED
    BY <1>3, <1>4, <1>6, <2>2, <2>3 DEF FetchOk, card, world
<1>7. CASE FetchFail(c)
  <2>1. chk' = [chk EXCEPT ![c] = chk'[c]] /\ chk'[c].pc = "idle"
    BY <1>2, <1>7 DEF FetchFail, IdleCheck
  <2> QED
    BY <1>3, <1>4, <1>7, <2>1 DEF FetchFail, CheckOK, card, world
<1>8. CASE Rule(c)
  <2>1. chk' = [chk EXCEPT ![c] = chk'[c]]
    BY <1>2, <1>8 DEF Rule
  <2>2. CASE Offers(c, chk[c].rel)
    <3>1. chk'[c] = [pc |-> "scanning", rel |-> chk[c].rel,
                     todo |-> Listed[chk[c].rel], files |-> {}]
      BY <1>2, <1>8, <2>2 DEF Rule
    <3>2. OnOfferNow(chk[c].rel)
      BY <1>1, <1>8, <2>2 DEF Rule, CheckOK, Offers, OnOfferNow, OnOffer
    <3>3. CheckOK(c)'
      BY <1>8, <3>1, <3>2 DEF Rule, CheckOK, OnOfferNow, Covers, world
    <3> QED
      BY <1>3, <1>4, <1>8, <2>1, <3>3 DEF Rule, card, world
  <2>3. CASE ~Offers(c, chk[c].rel)
    <3>1. chk'[c].pc = "idle"
      BY <1>2, <1>8, <2>3 DEF Rule, IdleCheck
    <3> QED
      BY <1>3, <1>4, <1>8, <2>1, <3>1 DEF Rule, CheckOK, card, world
  <2> QED
    BY <2>2, <2>3
<1>9. CASE Scan(c)
  <2>1. PICK p \in chk[c].todo :
           chk' = IF app[p] # Sha[chk[c].rel][p]
                    THEN [chk EXCEPT ![c].todo = chk[c].todo \ {p},
                                     ![c].files = chk[c].files \cup {p}]
                    ELSE [chk EXCEPT ![c].todo = chk[c].todo \ {p}]
    BY <1>9 DEF Scan
  <2>2. /\ chk' = [chk EXCEPT ![c] = chk'[c]]
        /\ chk'[c].pc = chk[c].pc /\ chk'[c].rel = chk[c].rel
        /\ chk'[c].todo = chk[c].todo \ {p}
        /\ chk'[c].files = IF app[p] # Sha[chk[c].rel][p] THEN chk[c].files \cup {p}
                                                          ELSE chk[c].files
    BY <1>2, <2>1 DEF CheckStates
  <2>3. app' = app /\ UNCHANGED world /\ appVersion' = appVersion /\ chk[c].pc = "scanning"
    BY <1>9 DEF Scan, card
  <2>4. CheckOK(c)'
    BY <1>1, <2>2, <2>3 DEF CheckOK, OnOfferNow, Covers, world
  <2> QED
    BY <1>3, <1>4, <1>9, <2>2, <2>4 DEF Scan, card, world
<1>10. CASE OpenModal(c)
  <2>1. ASSUME NEW d \in Checks PROVE CheckOK(d)'
    <3>1. chk'[d] = IdleCheck \/ chk'[d] = chk[d]
      BY <1>2, <1>10 DEF OpenModal
    <3> QED
      BY <1>1, <1>10, <3>1 DEF OpenModal, CheckOK, IdleCheck, OnOfferNow, Covers, card, world
  <2>2. /\ modal'.rel = chk[c].rel /\ modal'.files = chk[c].files
        /\ chk[c].files = chk[c].files \cup chk[c].todo
    BY <1>10 DEF OpenModal
  <2>3. PopupOK'
    BY <1>1, <1>10, <2>2 DEF OpenModal, CheckOK, PopupOK, OnOfferNow, Covers, card, world
  <2>4. \A i \in Installers : JobOK(i)'
    BY <1>1, <1>10 DEF OpenModal, JobOK, Working, OnOfferNow, Covers, StagedFor, card, world
  <2>5. OfferOK'
    BY <1>1, <1>4, <1>10 DEF OpenModal, OfferOK, OnOfferNow, card, world
  <2> QED
    BY <2>1, <2>3, <2>4, <2>5, ByThreadNext
<1> QED
  BY <1>5, <1>6, <1>7, <1>8, <1>9, <1>10 DEF CheckStep

LEMMA ChoiceSession ==
    ASSUME SessionTypeInv, ChooseLater \/ ChooseSkip \/ \E i \in Installers : ChooseInstall(i)
    PROVE  OneSession' /\ ListsCoverTree'
<1>1. /\ \A d \in Checks : CheckOK(d)
      /\ PopupOK
      /\ \A i \in Installers : JobOK(i)
      /\ OfferOK
  BY ByThread DEF SessionTypeInv
<1>2. modal.open
  BY DEF ChooseLater, ChooseSkip, ChooseInstall
<1>3. up /\ PopupRead
  BY <1>1, <1>2 DEF OfferOK, Quiet, PopupRead
<1>4. /\ UNCHANGED <<app, staging, published, channel, up, appVersion, chk, fd>>
      /\ modal'.rel = modal.rel /\ modal'.files = modal.files
  BY DEF ChooseLater, ChooseSkip, ChooseInstall, card, world,
         SessionTypeInv, TypeInv, TypeOK, PopupStates
<1>5. \A j \in Installers : Working(j)' => Working(j) /\ inst'[j] = inst[j]
  BY DEF ChooseLater, ChooseSkip, ChooseInstall, SessionTypeInv, TypeInv, TypeOK,
         InstallStates, Working
<1>6. \A d \in Checks : CheckOK(d)'
  BY <1>1, <1>4 DEF CheckOK, OnOfferNow, Covers
<1>7. PopupOK'
  BY <1>1, <1>3, <1>4 DEF PopupOK, OnOfferNow, Covers
<1>8. \A j \in Installers : JobOK(j)'
  BY <1>1, <1>4, <1>5 DEF JobOK, OnOfferNow, Covers, StagedFor, Working
<1>9. OfferOK'
  BY <1>1, <1>3, <1>4 DEF OfferOK, OnOfferNow
<1> QED
  BY <1>6, <1>7, <1>8, <1>9, ByThreadNext

\* A step of an install thread changes its own record only, and the popup's flags:
\* it reads the popup, goes on with its release, or ends.
LEMMA InstallFrame ==
    ASSUME TypeInv, NEW i \in Installers, InstallStep(i)
    PROVE  /\ inst' = [inst EXCEPT ![i] = inst'[i]]
           /\ inst[i].pc # "idle"
           /\ \/ /\ inst[i].pc = "started" /\ inst'[i].rel = modal.rel
                 /\ inst'[i].pc \in {"clearing", "restarting"}
              \/ /\ Working(i) /\ inst'[i].rel = inst[i].rel
                 /\ inst'[i].pc \in {"staging", "applying", "removing", "restarting"}
                 /\ \/ ClearStaging(i)
                    \/ inst'[i].pc \in {"staging", "applying"} =>
                           inst[i].pc \in {"staging", "applying"}
              \/ Working(i) /\ inst'[i].pc = "idle" /\ inst'[i].rel = 0
           /\ modal'.open = modal.open /\ modal'.rel = modal.rel /\ modal'.files = modal.files
<1>1. inst \in [Installers -> InstallStates] /\ modal \in PopupStates
  BY DEF TypeInv, TypeOK
<1>2. CASE Begin(i)
  BY <1>1, <1>2 DEF Begin, InstallStates
<1>3. CASE StageFail(i) \/ ApplyFail(i) \/ RestartOk(i) \/ RestartFail(i)
  <2>1. inst' = [inst EXCEPT ![i] = IdleInstall] /\ Working(i)
    BY <1>3 DEF StageFail, ApplyFail, RestartOk, RestartFail, InstallFailed, Working
  <2>2. modal'.open = modal.open /\ modal'.rel = modal.rel /\ modal'.files = modal.files
    BY <1>1, <1>3 DEF StageFail, ApplyFail, RestartOk, RestartFail, InstallFailed, PopupStates
  <2> QED
    BY <1>1, <2>1, <2>2 DEF IdleInstall, Working
<1>4. CASE ClearStaging(i)
  BY <1>1, <1>4 DEF ClearStaging, InstallStates, Working
<1>5. CASE OpenStaged(i)
  <2>1. UNCHANGED <<inst, modal>> /\ inst[i].pc = "staging"
    BY <1>5 DEF OpenStaged
  <2> QED
    BY <1>1, <2>1 DEF Working
<1>6. CASE WriteStaged(i)
  <2>1. inst[i].pc = "staging" /\ UNCHANGED modal
    BY <1>6 DEF WriteStaged, TypeInv, ListsFromManifests
  <2>2. inst' = IF inst[i].left = {fd[i].path}
                  THEN [inst EXCEPT ![i].pc = "applying", ![i].left = inst[i].files]
                  ELSE [inst EXCEPT ![i].left = inst[i].left \ {fd[i].path}]
    BY <1>6 DEF WriteStaged
  <2> QED
    BY <1>1, <2>1, <2>2 DEF InstallStates, Working
<1>7. CASE ApplyFile(i)
  <2>1. inst[i].pc = "applying" /\ UNCHANGED modal
    BY <1>7 DEF ApplyFile
  <2>2. PICK p \in inst[i].left :
           inst' = IF inst[i].left = {p}
                     THEN [inst EXCEPT ![i].pc = "removing", ![i].left = Dropped[inst[i].rel]]
                     ELSE [inst EXCEPT ![i].left = inst[i].left \ {p}]
    BY <1>7 DEF ApplyFile
  <2> QED
    BY <1>1, <2>1, <2>2 DEF InstallStates, Working
<1>8. CASE RemoveFile(i) \/ FinishApply(i)
  <2>1. inst[i].pc = "removing" /\ UNCHANGED modal
    BY <1>8 DEF RemoveFile, FinishApply
  <2>2. \/ \E p \in inst[i].left : inst' = [inst EXCEPT ![i].left = inst[i].left \ {p}]
        \/ inst' = [inst EXCEPT ![i].pc = "restarting"]
    BY <1>8 DEF RemoveFile, FinishApply
  <2> QED
    BY <1>1, <2>1, <2>2 DEF InstallStates, Working
<1> QED
  BY <1>2, <1>3, <1>4, <1>5, <1>6, <1>7, <1>8 DEF InstallStep

\* What a step of an install thread may do to the tree: nothing, install a file
\* of the release on offer, write to one that was moved there while it was open,
\* or remove a path that release does not list.
TreeStep(i) ==
    \/ app' = app
    \/ \E p \in inst[i].left : \E c \in {Sha[inst[i].rel][p], Torn} :
          /\ inst[i].pc = "applying" /\ MayApply(p, inst[i].left)
          /\ app' = [app EXCEPT ![p] = c]
    \/ \E p \in inst[i].left : \E c \in {Sha[inst[i].rel][p], Torn} :
          /\ inst[i].pc = "staging" /\ fd[i].at = "app" /\ fd[i].path = p
          /\ app' = [app EXCEPT ![p] = c]
    \/ \E p \in inst[i].left :
          /\ inst[i].pc = "removing" /\ app' = [app EXCEPT ![p] = NoFile]

LEMMA InstallTreeStep ==
    ASSUME SessionTypeInv, NEW i \in Installers, InstallStep(i)
    PROVE  TreeStep(i)
<1>1. JobOK(i) /\ inst[i] \in InstallStates
  BY ByThread DEF SessionTypeInv, TypeInv, TypeOK
<1>2. CASE ApplyFile(i)
  <2>1. PICK p \in inst[i].left :
           MayApply(p, inst[i].left) /\ staging[p] # NoFile /\ app' = [app EXCEPT ![p] = staging[p]]
    BY <1>2 DEF ApplyFile
  <2>2. p \in Files /\ inst[i].pc = "applying"
    BY <1>1, <1>2, <2>1 DEF ApplyFile, InstallStates
  <2>3. staging[p] \in {Sha[inst[i].rel][p], Torn}
    BY <1>1, <2>1, <2>2 DEF JobOK, Working, StagedFor
  <2> QED
    BY <2>1, <2>2, <2>3 DEF TreeStep
<1>3. CASE RemoveFile(i)
  BY <1>3 DEF RemoveFile, TreeStep
<1>4. CASE WriteStaged(i)
  <2>1. PICK c \in Written(i) :
           app' = IF fd[i].at = "app" THEN [app EXCEPT ![fd[i].path] = c] ELSE app
    BY <1>4 DEF WriteStaged
  <2>2. /\ c \in {Sha[inst[i].rel][fd[i].path], Torn}
        /\ inst[i].pc = "staging" /\ fd[i].path \in inst[i].left
    BY <1>4, WrittenContent DEF WriteStaged, SessionTypeInv, TypeInv
  <2> QED
    BY <2>1, <2>2 DEF TreeStep
<1>5. CASE ~ApplyFile(i) /\ ~RemoveFile(i) /\ ~WriteStaged(i)
  BY <1>5 DEF InstallStep, TreeStep, Begin, ClearStaging, OpenStaged, StageFail, ApplyFail,
              FinishApply, RestartOk, RestartFail, card
<1> QED
  BY <1>2, <1>3, <1>4, <1>5

\* A step of a working thread: it works for the release on offer, and a file
\* that is right for that release, or torn, does not become another release's.
LEMMA RightFilesStay ==
    ASSUME SessionTypeInv, NEW i \in Installers, InstallStep(i), Working(i)
    PROVE  /\ OnOfferNow(inst[i].rel) /\ inst[i].rel \in Releases
           /\ \A r : OnOfferNow(r) => r = inst[i].rel
           /\ \A p \in Listed[inst[i].rel] :
                  app[p] \in {Sha[inst[i].rel][p], Torn} => app'[p] \in {Sha[inst[i].rel][p], Torn}
<1> DEFINE r == inst[i].rel
<1>1. OnOfferNow(r) /\ r \in Releases
  BY DEF SessionTypeInv, TypeInv, ListsFromManifests, OneSession
<1>2. \A s : OnOfferNow(s) => s = r
  BY <1>1 DEF SessionTypeInv, OneSession, OneOffer, OnOfferNow
<1>3. ASSUME NEW p \in Listed[r], app[p] \in {Sha[r][p], Torn} PROVE app'[p] \in {Sha[r][p], Torn}
  <2>1. p \in Files /\ p \notin Dropped[r]
    BY <1>1, OtaAssumption DEF OtaAssumption
  <2>2. inst[i].pc = "removing" => inst[i].left \subseteq Dropped[r]
    BY DEF SessionTypeInv, TypeInv, ListsFromManifests
  <2>3. TreeStep(i) /\ app \in [Files -> Contents]
    BY InstallTreeStep DEF SessionTypeInv, TypeInv, TypeOK
  <2> QED
    BY <1>3, <2>1, <2>2, <2>3 DEF TreeStep
<1> QED
  BY <1>1, <1>2, <1>3

\* The step that changes version.py shows the release on offer, or a torn file,
\* and no file of another release is left of those that release lists.
LEMMA VersionStep ==
    ASSUME SessionTypeInv, NEW i \in Installers, InstallStep(i),
           app'[VersionPy] # app[VersionPy]
    PROVE  /\ Working(i) /\ app'[VersionPy] \in {inst[i].rel, Torn}
           /\ \A p \in Listed[inst[i].rel] : app'[p] \in {Sha[inst[i].rel][p], Torn}
<1> DEFINE r == inst[i].rel
<1>1. /\ TreeStep(i) /\ app \in [Files -> Contents] /\ inst[i] \in InstallStates
      /\ JobOK(i)
  BY InstallTreeStep, ByThread DEF SessionTypeInv, TypeInv, TypeOK
<1>2. Working(i)
  BY <1>1 DEF TreeStep, Working
<1>3. r \in Releases /\ OnOfferNow(r)
  BY <1>2, RightFilesStay
<1>4. VersionPy \in Listed[r] /\ VersionPy \notin Dropped[r] /\ VersionPy \in Files
      /\ Listed[r] \subseteq Files /\ Sha[r][VersionPy] = r
  BY <1>3, OtaAssumption DEF OtaAssumption, Versions
<1>5. inst[i].pc = "removing" => inst[i].left \subseteq Dropped[r]
  BY <1>2 DEF SessionTypeInv, TypeInv, ListsFromManifests
<1>6. PICK p \in inst[i].left : \E c \in {Sha[r][p], Torn} :
         /\ app' = [app EXCEPT ![p] = c]
         /\ \/ inst[i].pc = "applying" /\ MayApply(p, inst[i].left)
            \/ fd[i].at = "app" /\ fd[i].path = p
  <2>1. ASSUME NEW p \in inst[i].left, inst[i].pc = "removing", app' = [app EXCEPT ![p] = NoFile]
        PROVE  FALSE
    BY <1>1, <1>4, <1>5, <2>1
  <2> QED
    BY <1>1, <2>1 DEF TreeStep
<1>7. p = VersionPy
  BY <1>1, <1>4, <1>6
<1>8. Covers(r, {VersionPy})
  <2>1. CASE inst[i].pc = "applying" /\ MayApply(p, inst[i].left)
    BY <1>1, <1>2, <1>7, <2>1 DEF MayApply, JobOK
  <2>2. CASE fd[i].at = "app" /\ fd[i].path = p
    BY <1>1, <1>2, <1>7, <2>2 DEF JobOK
  <2> QED
    BY <1>6, <2>1, <2>2
<1> QED
  BY <1>1, <1>2, <1>4, <1>6, <1>7, <1>8 DEF Covers

\* A file that is open in the tree was there before, or the thread that takes
\* the step has just moved it there.
LEMMA OpenInTree ==
    ASSUME TypeInv, NEW i \in Installers, InstallStep(i), NEW j \in Installers,
           fd'[j].at = "app"
    PROVE  /\ j # i /\ fd'[j].path = fd[j].path
           /\ \/ fd[j].at = "app"
              \/ /\ inst[i].pc = "applying" /\ fd[j].path \in inst[i].left
                 /\ MayApply(fd[j].path, inst[i].left)
                 /\ app' = [app EXCEPT ![fd[j].path] = staging[fd[j].path]]
<1>1. /\ fd \in [Installers -> OpenFiles] /\ inst \in [Installers -> InstallStates]
      /\ fd[i].at # "none" => inst[i].pc = "staging"
  BY DEF TypeInv, TypeOK, ListsFromManifests
<1>2. CASE OpenStaged(i)
  <2>1. /\ fd'[i].at = "staging"
        /\ j # i => fd'[j].at = fd[j].at /\ fd'[j].path = fd[j].path
    BY <1>1, <1>2 DEF OpenStaged, OpenFiles
  <2> QED
    BY <2>1
<1>3. CASE WriteStaged(i)
  <2>1. fd'[i].at = "none" /\ (j # i => fd'[j] = fd[j])
    BY <1>1, <1>3, NotOpenType DEF WriteStaged
  <2> QED
    BY <2>1
<1>4. CASE StageFail(i)
  <2> DEFINE f == Relocated(fd, Files, "staging", "gone")
  <2>1. f \in [Installers -> OpenFiles] /\ f[j].path = fd[j].path /\ (f[j].at = "app" => fd[j].at = "app")
    BY <1>1, RelocatedFacts
  <2>2. fd'[i].at = "none" /\ (j # i => fd'[j] = f[j])
    BY <1>4, <2>1, NotOpenType DEF StageFail
  <2> QED
    BY <2>1, <2>2
<1>5. CASE ClearStaging(i) \/ FinishApply(i)
  <2>1. fd' = Relocated(fd, Files, "staging", "gone") /\ fd[i].at = "none"
    BY <1>1, <1>5 DEF ClearStaging, FinishApply
  <2>2. fd'[j].path = fd[j].path /\ (fd'[j].at = "app" => fd[j].at = "app")
    BY <1>1, <2>1, RelocatedFacts
  <2> QED
    BY <2>1, <2>2
<1>6. CASE ApplyFile(i)
  <2>1. PICK p \in inst[i].left :
           /\ MayApply(p, inst[i].left)
           /\ app' = [app EXCEPT ![p] = staging[p]]
           /\ fd' = Relocated(Relocated(fd, {p}, "app", "gone"), {p}, "staging", "app")
    BY <1>6 DEF ApplyFile
  <2> DEFINE f == Relocated(fd, {p}, "app", "gone")
  <2>2. /\ f \in [Installers -> OpenFiles]
        /\ f[j].path = fd[j].path /\ (f[j].at = "app" => fd[j].at = "app")
        /\ f[i].at = "none"
    BY <1>1, <1>6, RelocatedFacts DEF ApplyFile
  <2>3. /\ fd'[j].path = f[j].path
        /\ fd'[j].at = "app" => f[j].at = "app" \/ f[j].path = p
        /\ fd'[i].at = "none"
    <3>1. fd' = Relocated(f, {p}, "staging", "app")
      BY <2>1
    <3>2. \A k \in Installers :
             /\ fd'[k].path = f[k].path
             /\ fd'[k].at = IF f[k].path \in {p} /\ f[k].at = "staging" THEN "app" ELSE f[k].at
      BY <2>2, <3>1, RelocatedFacts
    <3> QED
      BY <2>2, <3>2
  <2> QED
    BY <1>6, <2>1, <2>2, <2>3 DEF ApplyFile
<1>7. CASE RemoveFile(i)
  <2>1. PICK p \in inst[i].left : fd' \in {Relocated(fd, {p}, "app", "gone"), fd}
    BY <1>7 DEF RemoveFile
  <2>2. fd[i].at = "none"
    BY <1>1, <1>7 DEF RemoveFile
  <2>3. /\ fd'[j].path = fd[j].path /\ (fd'[j].at = "app" => fd[j].at = "app")
        /\ fd'[i].at = "none"
    BY <1>1, <2>1, <2>2, RelocatedFacts
  <2> QED
    BY <2>3
<1>8. CASE Begin(i) \/ ApplyFail(i) \/ RestartOk(i) \/ RestartFail(i)
  <2>1. fd' = fd /\ inst[i].pc # "staging"
    BY <1>8 DEF Begin, ApplyFail, RestartOk, RestartFail
  <2> QED
    BY <1>1, <2>1
<1> QED
  BY <1>2, <1>3, <1>4, <1>5, <1>6, <1>7, <1>8 DEF InstallStep

LEMMA InstallStepSession ==
    ASSUME SessionTypeInv, NEW i \in Installers, InstallStep(i)
    PROVE  OneSession' /\ ListsCoverTree'
<1>1. /\ \A d \in Checks : CheckOK(d)
      /\ PopupOK
      /\ \A j \in Installers : JobOK(j)
      /\ OfferOK
  BY ByThread DEF SessionTypeInv
<1>2. /\ app \in [Files -> Contents] /\ staging \in [Files -> Contents]
      /\ inst \in [Installers -> InstallStates] /\ modal \in PopupStates
  BY DEF SessionTypeInv, TypeInv, TypeOK
<1>3. inst[i].pc # "idle" /\ up
  BY <1>1, InstallFrame DEF OfferOK, Quiet, SessionTypeInv
<1>4. UNCHANGED <<published, channel, up, appVersion, chk>>
  BY DEF InstallStep, Begin, ClearStaging, OpenStaged, WriteStaged, StageFail, ApplyFile, ApplyFail,
         RemoveFile, FinishApply, RestartOk, RestartFail, world
<1>5. modal'.open = modal.open /\ modal'.rel = modal.rel /\ modal'.files = modal.files
  BY InstallFrame DEF SessionTypeInv
<1>6. inst' = [inst EXCEPT ![i] = inst'[i]] /\ inst'[i].pc # "started"
  BY InstallFrame DEF SessionTypeInv
<1>7. PopupRead' => PopupRead
  BY <1>2, <1>5, <1>6 DEF PopupRead
\* Lists of the release on offer keep covering the tree.
<1>8. ASSUME NEW r, OnOfferNow(r), NEW list, Covers(r, list)
      PROVE  \A p \in Listed[r] \ list : app'[p] \in {Sha[r][p], Torn}
  <2>1. CASE Working(i)
    BY <1>4, <1>8, <2>1, RightFilesStay DEF Covers
  <2>2. CASE ~Working(i)
    <3>1. app' = app
      BY <1>3, <2>2, InstallTreeStep DEF Working, TreeStep
    <3> QED
      BY <1>8, <3>1 DEF Covers
  <2> QED
    BY <2>1, <2>2
<1>9. \A d \in Checks : CheckOK(d)'
  <2> SUFFICES ASSUME NEW d \in Checks PROVE CheckOK(d)'
    OBVIOUS
  <2>1. chk[d].pc = "scanning" =>
            \A p \in Listed[chk[d].rel] \ (chk[d].files \cup chk[d].todo) :
                app'[p] \in {Sha[chk[d].rel][p], Torn}
    BY <1>1, <1>8 DEF CheckOK
  <2> QED
    BY <1>1, <1>4, <2>1 DEF CheckOK, OnOfferNow, Covers
<1>10. PopupOK'
  <2>1. PopupRead =>
            \A p \in Listed[modal.rel] \ modal.files : app'[p] \in {Sha[modal.rel][p], Torn}
    BY <1>1, <1>8 DEF PopupOK
  <2> QED
    BY <1>1, <1>4, <1>5, <1>7, <2>1 DEF PopupOK, OnOfferNow, Covers
\* Staged files are those of the release on offer, whoever stages them.
<1>11. ASSUME NEW r, OnOfferNow(r), StagedFor(r)
       PROVE  \A p \in Files : staging'[p] \in {NoFile, Torn, Sha[r][p]}
  <2>1. CASE WriteStaged(i)
    <3>1. PICK c \in Written(i) :
             staging' = IF fd[i].at = "staging" THEN [staging EXCEPT ![fd[i].path] = c] ELSE staging
      BY <2>1 DEF WriteStaged
    <3>2. c \in {Sha[inst[i].rel][fd[i].path], Torn} /\ inst[i].pc = "staging"
      BY <2>1, WrittenContent DEF WriteStaged, SessionTypeInv, TypeInv
    <3>3. inst[i].rel = r
      BY <1>11, <3>2, RightFilesStay DEF Working
    <3> QED
      BY <1>2, <1>11, <3>1, <3>2, <3>3 DEF StagedFor
  <2>4. CASE OpenStaged(i)
    BY <1>2, <1>11, <2>4 DEF OpenStaged, StagedFor
  <2>2. CASE ApplyFile(i)
    BY <1>2, <1>11, <2>2 DEF ApplyFile, StagedFor
  <2>3. CASE staging' = staging \/ staging' = Empty
    BY <1>11, <2>3 DEF Empty, StagedFor
  <2> QED
    BY <2>1, <2>2, <2>3, <2>4 DEF InstallStep, Begin, ClearStaging, StageFail, ApplyFail,
       RemoveFile, FinishApply, RestartOk, RestartFail, card
\* A version.py that is open in the tree has the files of its release beside it.
<1>14. ASSUME NEW j \in Installers, Working(j), fd'[j].at = "app", fd'[j].path = VersionPy
       PROVE  /\ j # i
              /\ \A p \in Listed[inst[j].rel] \ {VersionPy} : app'[p] \in {Sha[inst[j].rel][p], Torn}
  <2>1. /\ j # i /\ fd[j].path = VersionPy
        /\ fd[j].at = "app" \/ (inst[i].pc = "applying" /\ MayApply(VersionPy, inst[i].left))
    BY <1>14, OpenInTree DEF SessionTypeInv
  <2>2. OnOfferNow(inst[j].rel)
    BY <1>1, <1>14 DEF JobOK
  <2>3. CASE fd[j].at = "app"
    BY <1>1, <1>8, <1>14, <2>1, <2>2, <2>3 DEF JobOK
  <2>4. CASE inst[i].pc = "applying" /\ MayApply(VersionPy, inst[i].left)
    <3>1. Working(i) /\ inst[i].left = {VersionPy}
      BY <2>4 DEF Working, MayApply
    <3>2. inst[j].rel = inst[i].rel
      BY <2>2, <3>1, RightFilesStay
    <3>3. Covers(inst[j].rel, {VersionPy})
      BY <1>1, <2>4, <3>1, <3>2 DEF JobOK
    <3> QED
      BY <1>8, <2>1, <2>2, <3>3
  <2> QED
    BY <2>1, <2>3, <2>4
<1>12. \A j \in Installers : JobOK(j)'
  <2>1. ASSUME NEW j \in Installers, j # i PROVE JobOK(j)'
    <3>1. inst'[j] = inst[j]
      BY <1>2, <1>6, <2>1
    <3>2. CASE ~Working(j)
      BY <3>1, <3>2 DEF JobOK, Working
    <3>3. CASE Working(j)
      <4> DEFINE r == inst[j].rel
      <4>1. OnOfferNow(r) /\ Covers(r, inst[j].files)
        BY <1>1, <3>3 DEF JobOK
      <4>2. \A p \in Listed[r] \ inst[j].files : app'[p] \in {Sha[r][p], Torn}
        BY <1>8, <4>1
      <4>3. inst[j].pc = "applying" =>
                \A p \in Listed[r] \ inst[j].left : app'[p] \in {Sha[r][p], Torn}
        BY <1>1, <1>8, <3>3, <4>1 DEF JobOK
      <4>4. inst[j].pc \in {"staging", "applying"} =>
                \A p \in Files : staging'[p] \in {NoFile, Torn, Sha[r][p]}
        BY <1>1, <1>11, <3>3, <4>1 DEF JobOK
      <4>5. fd'[j].at = "app" /\ fd'[j].path = VersionPy =>
                \A p \in Listed[r] \ {VersionPy} : app'[p] \in {Sha[r][p], Torn}
        BY <1>14, <3>3
      <4> QED
        BY <1>4, <3>1, <4>1, <4>2, <4>3, <4>4, <4>5 DEF JobOK, OnOfferNow, Covers, StagedFor
    <3> QED
      BY <3>2, <3>3
  <2>2. JobOK(i)'
    <3> DEFINE r == inst[i].rel
    <3>1. CASE StageFail(i) \/ ApplyFail(i) \/ RestartOk(i) \/ RestartFail(i)
      BY <1>2, <3>1 DEF StageFail, ApplyFail, RestartOk, RestartFail, InstallFailed,
                        IdleInstall, JobOK, Working
    <3>8. fd'[i].at # "app"
      BY OpenInTree DEF SessionTypeInv
    <3>2. CASE Begin(i)
      <4>1. inst'[i].rel = modal.rel /\ inst'[i].files = modal.files
            /\ inst'[i].pc \in {"restarting", "clearing"}
        BY <1>2, <3>2 DEF Begin
      <4>2. OnOfferNow(modal.rel) /\ Covers(modal.rel, modal.files)
        BY <1>1, <3>2 DEF Begin, PopupOK, PopupRead
      <4>3. \A p \in Listed[modal.rel] \ modal.files : app'[p] \in {Sha[modal.rel][p], Torn}
        BY <1>8, <4>2
      <4> QED
        BY <1>4, <3>8, <4>1, <4>2, <4>3 DEF JobOK, OnOfferNow, Covers
    <3>3. ASSUME Working(i)
          PROVE  /\ OnOfferNow(r)
                 /\ \A p \in Listed[r] \ inst[i].files : app'[p] \in {Sha[r][p], Torn}
      BY <1>1, <1>8, <3>3 DEF JobOK
    <3>4. CASE ClearStaging(i)
      <4>1. inst'[i].pc = "staging" /\ inst'[i].rel = r /\ inst'[i].files = inst[i].files
        BY <1>2, <3>4 DEF ClearStaging, InstallStates
      <4>2. Working(i) /\ staging' = Empty
        BY <3>4 DEF ClearStaging, Working
      <4>3. StagedFor(r)'
        BY <4>2 DEF StagedFor, Empty
      <4> QED
        BY <1>4, <3>3, <3>8, <4>1, <4>2, <4>3 DEF JobOK, OnOfferNow, Covers, StagedFor
    <3>9. CASE OpenStaged(i)
      <4>1. inst' = inst /\ inst[i].pc = "staging" /\ Working(i)
        BY <3>9 DEF OpenStaged, Working
      <4>2. \A q \in Files : staging'[q] \in {NoFile, Torn, Sha[r][q]}
        BY <1>1, <1>11, <4>1 DEF JobOK
      <4> QED
        BY <1>4, <3>3, <3>8, <4>1, <4>2 DEF JobOK, OnOfferNow, Covers, StagedFor
    <3>5. CASE WriteStaged(i)
      <4>1. inst' = IF inst[i].left = {fd[i].path}
                      THEN [inst EXCEPT ![i].pc = "applying", ![i].left = inst[i].files]
                      ELSE [inst EXCEPT ![i].left = inst[i].left \ {fd[i].path}]
        BY <3>5 DEF WriteStaged
      <4>2. inst[i].pc = "staging" /\ Working(i)
        BY <3>5 DEF WriteStaged, Working, SessionTypeInv, TypeInv, ListsFromManifests
      <4>3. /\ inst'[i].rel = r /\ inst'[i].files = inst[i].files
            /\ inst'[i].pc \in {"staging", "applying"}
            /\ inst'[i].pc = "applying" => inst'[i].left = inst[i].files
        BY <1>2, <4>1, <4>2 DEF InstallStates
      <4>4. \A q \in Files : staging'[q] \in {NoFile, Torn, Sha[r][q]}
        BY <1>1, <1>11, <4>2 DEF JobOK
      <4> QED
        BY <1>4, <3>3, <3>8, <4>2, <4>3, <4>4 DEF JobOK, OnOfferNow, Covers, StagedFor
    <3>6. CASE ApplyFile(i)
      <4>1. PICK p \in inst[i].left :
              /\ staging[p] # NoFile
              /\ app' = [app EXCEPT ![p] = staging[p]]
              /\ inst' = IF inst[i].left = {p}
                         THEN [inst EXCEPT ![i].pc = "removing",
                                           ![i].left = Dropped[inst[i].rel]]
                         ELSE [inst EXCEPT ![i].left = inst[i].left \ {p}]
        BY <3>6 DEF ApplyFile
      <4>2. inst[i].pc = "applying" /\ Working(i)
        BY <3>6 DEF ApplyFile, Working
      <4>3. /\ inst'[i].rel = r /\ inst'[i].files = inst[i].files
            /\ inst'[i].pc \in {"applying", "removing"}
            /\ inst'[i].pc = "applying" => inst'[i].left = inst[i].left \ {p}
        BY <1>2, <4>1, <4>2 DEF InstallStates
      <4>4. \A q \in Files : staging'[q] \in {NoFile, Torn, Sha[r][q]}
        BY <1>1, <1>11, <4>2 DEF JobOK
      <4>5. app'[p] \in {Sha[r][p], Torn}
        BY <1>1, <1>2, <4>1, <4>2 DEF JobOK, StagedFor, InstallStates
      <4>6. \A q \in Listed[r] \ inst[i].left : app'[q] \in {Sha[r][q], Torn}
        BY <1>1, <1>8, <4>2 DEF JobOK
      <4> QED
        BY <1>4, <3>3, <3>8, <4>2, <4>3, <4>4, <4>5, <4>6 DEF JobOK, OnOfferNow, Covers, StagedFor
    <3>7. CASE RemoveFile(i) \/ FinishApply(i)
      <4>1. /\ inst'[i].rel = r /\ inst'[i].files = inst[i].files
            /\ inst'[i].pc \in {"removing", "restarting"} /\ Working(i)
        BY <1>2, <3>7 DEF RemoveFile, FinishApply, InstallStates, Working
      <4> QED
        BY <1>4, <3>3, <3>8, <4>1 DEF JobOK, OnOfferNow, Covers
    <3> QED
      BY <3>1, <3>2, <3>4, <3>5, <3>6, <3>7, <3>9 DEF InstallStep
  <2> QED
    BY <2>1, <2>2
<1>13. OfferOK'
  <2>1. OneOffer(appVersion', channel', published')
    BY <1>1, <1>4 DEF OfferOK
  <2>2. app'[VersionPy] \in {app[VersionPy], Torn} \/ OnOfferNow(app'[VersionPy])
    BY VersionStep, RightFilesStay
  <2> QED
    BY <1>1, <1>3, <1>4, <2>1, <2>2 DEF OfferOK, OnOfferNow
<1> QED
  BY <1>9, <1>10, <1>12, <1>13, ByThreadNext

LEMMA NextSession ==
    ASSUME SteadyOffer PROVE SessionTypeInv /\ [Next]_vars => SessionTypeInv'
<1> SUFFICES ASSUME SessionTypeInv, [Next]_vars PROVE SessionTypeInv'
  OBVIOUS
<1>1. TypeInv'
  BY NextTypeInv DEF SessionTypeInv
<1>2. CASE \/ \E s \in Sources, r \in Releases : Publish(s, r)
           \/ ToggleChannel \/ StartApp \/ ExitApp \/ StopApp
  BY <1>1, <1>2, WorldStepSession DEF SessionTypeInv
<1>3. ASSUME NEW c \in Checks, CheckStep(c) PROVE SessionTypeInv'
  BY <1>1, <1>3, CheckStepSession DEF SessionTypeInv
<1>4. CASE ChooseLater \/ ChooseSkip \/ \E i \in Installers : ChooseInstall(i)
  BY <1>1, <1>4, ChoiceSession DEF SessionTypeInv
<1>5. ASSUME NEW i \in Installers, InstallStep(i) PROVE SessionTypeInv'
  BY <1>1, <1>5, InstallStepSession DEF SessionTypeInv
<1>6. CASE UNCHANGED vars
  BY <1>1, <1>6 DEF vars, SessionTypeInv, OneSession, ListsCoverTree, Quiet, PopupRead,
                    Working, OnOfferNow, Covers
<1> QED
  BY <1>2, <1>3, <1>4, <1>5, <1>6 DEF Next

\* Nothing but an install thread writes the tree.
LEMMA OnlyInstallersWrite ==
    ASSUME [Next]_vars, app' # app
    PROVE  published' = published /\ \E i \in Installers : InstallStep(i)
<1>1. PICK i \in Installers : InstallStep(i)
  BY DEF Next, vars, Publish, ToggleChannel, StartApp, ExitApp, StopApp, ProcessGone,
         CheckStep, StartManualCheck, FetchOk, FetchFail, Rule, Scan, OpenModal,
         ChooseLater, ChooseSkip, ChooseInstall, card
<1>2. published' = published
  BY <1>1 DEF InstallStep, Begin, ClearStaging, OpenStaged, WriteStaged, StageFail, ApplyFile, ApplyFail,
         RemoveFile, FinishApply, RestartOk, RestartFail, world
<1> QED
  BY <1>1, <1>2

-----------------------------------------------------------------------------
(* The theorems.                                                           *)

LEMMA SessionAlways == ASSUME SteadyOffer PROVE Spec => []SessionTypeInv
<1>1. Init => SessionTypeInv
  BY InitType, InitLists, InitSession DEF SessionTypeInv, TypeInv
<1> QED
  BY <1>1, NextSession, PTL DEF Spec

\* As long as one release is on offer during a session, all threads and the
\* popup work for it and their file lists cover the tree: a file on no list has
\* the release's content or is still being written by another thread, for any
\* number of check and install threads, failures and stops (updater.py:380-504).
THEOREM SessionHolds == ASSUME SteadyOffer PROVE Spec => []SessionInv
<1>1. SessionTypeInv => SessionInv
  BY DEF SessionTypeInv, TypeInv, SessionInv
<1> QED
  BY <1>1, SessionAlways, PTL

\* Under the same condition version.py is replaced last in the strong sense: the
\* step that shows a new version leaves no file of another release among those it
\* lists, even when several install threads share the staging directory.
THEOREM VersionLastHolds == ASSUME SteadyOffer PROVE Spec => VersionLast
<1>1. ASSUME SessionTypeInv, [Next]_vars, app'[VersionPy] # app[VersionPy]
      PROVE  \E r \in Releases : \A p \in Listed[r] : app'[p] \in {Sha[r][p], Torn}
  <2>1. PICK i \in Installers : InstallStep(i)
    BY <1>1, OnlyInstallersWrite
  <2> QED
    BY <1>1, <2>1, VersionStep, RightFilesStay
<1>2. SessionTypeInv /\ [Next]_vars =>
          [app'[VersionPy] # app[VersionPy] =>
               \E r \in Releases : \A p \in Listed[r] : app'[p] \in {Sha[r][p], Torn}]_vars
  BY <1>1
<1> QED
  BY <1>2, SessionAlways, PTL DEF Spec, VersionLast

\* What a source serves never goes back, and install threads do not publish.
LEMMA PublishedGrows ==
    ASSUME TypeOK, [Next]_vars
    PROVE  \A s \in Sources : published'[s] \in Nat /\ published'[s] >= published[s]
<1>1. \A s \in Sources : published[s] \in Nat
  BY VersionsAreNat DEF TypeOK
<1>2. CASE published' = published
  BY <1>1, <1>2
<1>3. ASSUME NEW s \in Sources, NEW r \in Releases, Publish(s, r)
      PROVE  \A t \in Sources : published'[t] \in Nat /\ published'[t] >= published[t]
  BY <1>1, <1>3, OtaAssumption DEF Publish, TypeOK, OtaAssumption
<1> QED
  BY <1>2, <1>3
  DEF Next, vars, ToggleChannel, StartApp, ExitApp, StopApp, ProcessGone, world, CheckStep,
      StartManualCheck, FetchOk, FetchFail, Rule, Scan, OpenModal, ChooseLater, ChooseSkip,
      ChooseInstall, InstallStep, Begin, ClearStaging, OpenStaged, WriteStaged, StageFail,
      ApplyFile, ApplyFail, RemoveFile, FinishApply, RestartOk, RestartFail

\* Under the same condition a tree in which a failed or interrupted install left
\* a file of another release is never stuck: a release newer than the version it
\* shows is served, so the next check can repair it (updater.py:386-387).
THEOREM MixedTreeIsOfferedHolds == ASSUME SteadyOffer PROVE Spec => []MixedTreeIsOffered
<1>1. Init => MixedTreeIsOffered
  BY OtaAssumption DEF Init, MixedTreeIsOffered, OtaAssumption, Versions
<1>2. ASSUME SessionTypeInv, MixedTreeIsOffered, [Next]_vars PROVE MixedTreeIsOffered'
  <2>1. \A s \in Sources : /\ published[s] \in Nat /\ published'[s] \in Nat
                           /\ published'[s] >= published[s]
    BY <1>2, PublishedGrows, VersionsAreNat DEF SessionTypeInv, TypeInv, TypeOK
  <2>2. Releases \subseteq Nat
    BY OtaAssumption DEF OtaAssumption
  <2>3. CASE app' = app
    <3>1. ASSUME NEW v \in Nat, \E s \in Sources : published[s] > v
          PROVE  \E s \in Sources : published'[s] > v
      BY <2>1, <3>1
    <3> QED
      BY <1>2, <2>2, <2>3, <3>1 DEF MixedTreeIsOffered
  <2>4. CASE app' # app
    <3>1. PICK i \in Installers : InstallStep(i)
      BY <1>2, <2>4, OnlyInstallersWrite
    <3> DEFINE r == inst[i].rel
    <3>2. Working(i)
      BY <1>2, <2>4, <3>1, InstallTreeStep DEF TreeStep, Working
    <3>3. /\ OnOfferNow(r) /\ r \in Releases
          /\ \A s : OnOfferNow(s) => s = r
          /\ \A p \in Listed[r] : app[p] \in {Sha[r][p], Torn} => app'[p] \in {Sha[r][p], Torn}
      BY <1>2, <3>1, <3>2, RightFilesStay
    <3>4. up /\ published' = published
      BY <1>2, <2>4, <3>2, OnlyInstallersWrite DEF SessionTypeInv, OneSession, Quiet, Working
    <3>5. CASE app'[VersionPy] # app[VersionPy]
      <4>1. /\ app'[VersionPy] \in {r, Torn}
            /\ \A p \in Listed[r] : app'[p] \in {Sha[r][p], Torn}
        BY <1>2, <3>1, <3>5, VersionStep
      <4>2. Torn \notin Releases
        BY <2>2, OtaAssumption DEF OtaAssumption
      <4> QED
        BY <4>1, <4>2 DEF MixedTreeIsOffered
    <3>6. CASE app'[VersionPy] = app[VersionPy] /\ app[VersionPy] = r
      BY <1>2, <3>3, <3>4, <3>6 DEF MixedTreeIsOffered
    <3>7. CASE app'[VersionPy] = app[VersionPy] /\ app[VersionPy] # r /\ app[VersionPy] # Torn
      <4>1. app[VersionPy] = appVersion
        BY <1>2, <3>3, <3>4, <3>7 DEF SessionTypeInv, OneSession
      <4>2. \E s \in Sources : published[s] = r
        BY <3>3 DEF OnOfferNow, OnOffer, SourcesOf, Sources
      <4>3. r > appVersion
        BY <3>3 DEF OnOfferNow, OnOffer, IsNewer
      <4> QED
        BY <3>4, <3>7, <4>1, <4>2, <4>3 DEF MixedTreeIsOffered
    <3>8. CASE app'[VersionPy] = app[VersionPy] /\ app[VersionPy] = Torn
      BY <2>2, <3>8, OtaAssumption DEF MixedTreeIsOffered, OtaAssumption
    <3> QED
      BY <3>5, <3>6, <3>7, <3>8
  <2> QED
    BY <2>3, <2>4
<1> QED
  BY <1>1, <1>2, SessionAlways, PTL DEF Spec

-----------------------------------------------------------------------------
(* The stable channel.  Nothing is assumed of what is on offer.            *)

\* Every release a thread, the popup, the staging directory or the process knows
\* while the beta channel was never chosen.
StableInv ==
    ~betaChosen =>
        /\ channel = "stable"
        /\ {appVersion, app[VersionPy], staging[VersionPy], modal.rel} \cap Prereleases = {}
        /\ \A c \in Checks : chk[c].pc = "scanning" => chk[c].rel \notin Prereleases
        /\ \A i \in Installers : inst[i].rel \notin Prereleases

\* The factory image, a missing file and a torn one are no prereleases.
LEMMA NotPrerelease == {0, NoFile, Torn} \cap Prereleases = {}
  BY OtaAssumption DEF OtaAssumption

\* GitHub, the settings, and the app starting or ending.
LEMMA StableWorld ==
  ASSUME TypeInv, StableInv,
         \/ \E s \in Sources, r \in Releases : Publish(s, r)
         \/ ToggleChannel \/ StartApp \/ ExitApp \/ StopApp
  PROVE  StableInv'
<1>1. ASSUME NEW s \in Sources, NEW r \in Releases, Publish(s, r) PROVE StableInv'
  BY <1>1 DEF Publish, StableInv, card
<1>2. CASE ToggleChannel
  BY <1>2 DEF ToggleChannel, StableInv
<1>3. CASE StartApp
  <2>1. \A c \in Checks : chk'[c].pc # "scanning"
    BY <1>3 DEF StartApp, IdleCheck
  <2>2. UNCHANGED <<app, staging, channel, betaChosen, modal, inst>> /\ appVersion' = app[VersionPy]
    BY <1>3 DEF StartApp, card, world
  <2> QED BY <2>1, <2>2 DEF StableInv
<1>4. CASE ExitApp \/ StopApp
  <2>1. UNCHANGED <<app, staging, channel, betaChosen, appVersion>> /\ modal' = ClosedModal
    BY <1>4 DEF ExitApp, StopApp, ProcessGone, card, world
  <2>2. /\ \A c \in Checks : chk'[c].pc # "scanning"
        /\ \A i \in Installers : inst'[i].rel = 0
    BY <1>4 DEF ExitApp, StopApp, ProcessGone, IdleCheck, IdleInstall
  <2>3. modal'.rel = 0
    BY <2>1 DEF ClosedModal
  <2> QED BY <2>1, <2>2, <2>3, NotPrerelease DEF StableInv
<1> QED BY <1>1, <1>2, <1>3, <1>4

\* Checks: the rules turn a prerelease away while a stable release runs.
LEMMA StableCheck ==
  ASSUME TypeInv, StableInv, NEW c \in Checks, CheckStep(c)
  PROVE  StableInv'
<1>1. UNCHANGED <<app, staging, channel, betaChosen, appVersion, inst>>
  BY DEF CheckStep, StartManualCheck, FetchOk, FetchFail, Rule, Scan, OpenModal, card, world
<1>2. chk \in [Checks -> CheckStates]
  BY DEF TypeInv, TypeOK
<1>3. ASSUME ~betaChosen
      PROVE  \A d \in Checks : chk'[d].pc = "scanning" => chk'[d].rel \notin Prereleases
  <2>1. /\ channel = "stable" /\ appVersion \notin Prereleases
        /\ \A d \in Checks : chk[d].pc = "scanning" => chk[d].rel \notin Prereleases
    BY <1>3 DEF StableInv
  <2>2. \A d \in Checks : d # c => chk'[d] = chk[d]
    BY <1>2 DEF CheckStep, StartManualCheck, FetchOk, FetchFail, Rule, Scan, OpenModal
  <2>3. chk'[c].pc = "scanning" => chk'[c].rel \notin Prereleases
    <3>1. CASE Rule(c)
      BY <1>2, <2>1, <3>1 DEF Rule, Offers, ChannelAccepts, IdleCheck
    <3>2. CASE Scan(c)
      <4>1. chk[c].pc = "scanning" /\ chk'[c].rel = chk[c].rel
        BY <1>2, <3>2 DEF Scan, CheckStates
      <4> QED BY <2>1, <4>1
    <3>3. CASE StartManualCheck(c) \/ FetchOk(c) \/ FetchFail(c) \/ OpenModal(c)
      BY <1>2, <3>3 DEF StartManualCheck, FetchOk, FetchFail, OpenModal, IdleCheck, CheckStates
    <3> QED BY <3>1, <3>2, <3>3 DEF CheckStep
  <2> QED BY <2>1, <2>2, <2>3
<1>4. ASSUME ~betaChosen PROVE modal'.rel \notin Prereleases
  <2>1. CASE OpenModal(c)
    BY <1>4, <2>1 DEF OpenModal, StableInv
  <2>2. CASE ~OpenModal(c)
    <3>1. UNCHANGED modal
      BY <2>2 DEF CheckStep, StartManualCheck, FetchOk, FetchFail, Rule, Scan
    <3> QED BY <1>4, <3>1 DEF StableInv
  <2> QED BY <2>1, <2>2
<1> QED BY <1>1, <1>3, <1>4 DEF StableInv

\* Where the content of version.py comes from, staged and installed.
LEMMA VersionPyAfter ==
    ASSUME TypeInv, NEW i \in Installers, InstallStep(i)
    PROVE  /\ \/ staging'[VersionPy] \in {staging[VersionPy], NoFile, Torn}
              \/ Working(i) /\ staging'[VersionPy] = inst[i].rel
           /\ \/ app'[VersionPy] = app[VersionPy]
              \/ Working(i) /\ app'[VersionPy] \in {inst[i].rel, Torn}
              \/ /\ inst[i].pc = "applying" /\ staging[VersionPy] # NoFile
                 /\ app'[VersionPy] = staging[VersionPy]
<1>1. /\ app \in [Files -> Contents] /\ staging \in [Files -> Contents]
      /\ inst[i] \in InstallStates /\ VersionPy \in Files
  BY OtaAssumption DEF TypeInv, TypeOK, OtaAssumption
<1>2. CASE WriteStaged(i)
  <2>1. PICK c \in Written(i) :
           /\ staging' = IF fd[i].at = "staging" THEN [staging EXCEPT ![fd[i].path] = c]
                                                 ELSE staging
           /\ app' = IF fd[i].at = "app" THEN [app EXCEPT ![fd[i].path] = c] ELSE app
    BY <1>2 DEF WriteStaged
  <2>2. /\ c \in {Sha[inst[i].rel][fd[i].path], Torn} /\ inst[i].rel \in Releases
        /\ inst[i].pc = "staging"
    BY <1>2, WrittenContent DEF WriteStaged, TypeInv
  <2>3. Sha[inst[i].rel][VersionPy] = inst[i].rel
    BY <2>2, OtaAssumption DEF OtaAssumption, Versions
  <2>4. CASE fd[i].path = VersionPy
    BY <1>1, <2>1, <2>2, <2>3, <2>4 DEF Working
  <2>5. CASE fd[i].path # VersionPy
    BY <1>1, <2>1, <2>5
  <2> QED
    BY <2>4, <2>5
<1>3. CASE ApplyFile(i)
  <2>1. PICK p \in inst[i].left : /\ staging[p] # NoFile
                                  /\ app' = [app EXCEPT ![p] = staging[p]]
                                  /\ staging' = [staging EXCEPT ![p] = NoFile]
    BY <1>3 DEF ApplyFile
  <2> QED
    BY <1>1, <1>3, <2>1 DEF ApplyFile
<1>4. CASE RemoveFile(i)
  <2>1. inst[i].left \subseteq Dropped[inst[i].rel] /\ inst[i].rel \in Releases
    BY <1>4 DEF RemoveFile, TypeInv, ListsFromManifests, Working
  <2>2. VersionPy \notin inst[i].left
    BY <2>1, OtaAssumption DEF OtaAssumption
  <2> QED
    BY <1>1, <1>4, <2>2 DEF RemoveFile
<1>5. CASE OpenStaged(i)
  <2>1. PICK p \in inst[i].left : staging' = [staging EXCEPT ![p] = Torn]
    BY <1>5 DEF OpenStaged
  <2> QED
    BY <1>1, <1>5, <2>1 DEF OpenStaged
<1>6. CASE ClearStaging(i) \/ StageFail(i) \/ FinishApply(i)
  BY <1>1, <1>6 DEF ClearStaging, StageFail, FinishApply, Empty
<1>7. CASE Begin(i) \/ ApplyFail(i) \/ RestartOk(i) \/ RestartFail(i)
  BY <1>7 DEF Begin, ApplyFail, RestartOk, RestartFail, card
<1> QED
  BY <1>2, <1>3, <1>4, <1>5, <1>6, <1>7 DEF InstallStep

\* The popup and the install threads pass on what the check found.
LEMMA StableInstall ==
  ASSUME TypeInv, StableInv,
         \/ ChooseLater \/ ChooseSkip
         \/ \E i \in Installers : ChooseInstall(i) \/ InstallStep(i)
  PROVE  StableInv'
<1>1. /\ inst \in [Installers -> InstallStates] /\ modal \in PopupStates
      /\ app \in [Files -> Contents] /\ VersionPy \in Files
      /\ staging \in [Files -> Contents]
  BY OtaAssumption DEF TypeInv, TypeOK, OtaAssumption
<1>2. UNCHANGED <<channel, betaChosen, appVersion, chk>>
  BY DEF ChooseLater, ChooseSkip, ChooseInstall, InstallStep, Begin, ClearStaging, OpenStaged,
         WriteStaged, StageFail, ApplyFile, ApplyFail, RemoveFile, FinishApply, RestartOk, RestartFail, world
<1>3. CASE ChooseLater \/ ChooseSkip
  <2>1. UNCHANGED <<app, staging, inst>> /\ modal'.rel = modal.rel
    BY <1>1, <1>3 DEF ChooseLater, ChooseSkip, PopupStates, card
  <2> QED BY <1>2, <2>1 DEF StableInv
<1>4. ASSUME NEW i \in Installers, ChooseInstall(i) \/ InstallStep(i)
      PROVE  StableInv'
  <2>1. /\ modal'.rel = modal.rel
        /\ \A j \in Installers : j # i => inst'[j] = inst[j]
        /\ inst'[i].rel \in {inst[i].rel, modal.rel, 0}
    <3>1. CASE ChooseInstall(i)
      BY <1>1, <3>1 DEF ChooseInstall, InstallStates, PopupStates
    <3>2. CASE InstallStep(i)
      BY <1>1, <3>2, InstallFrame
    <3> QED
      BY <1>4, <3>1, <3>2
  <2>3. /\ staging'[VersionPy] \in {staging[VersionPy], NoFile, Torn, inst[i].rel}
        /\ app'[VersionPy] \in {app[VersionPy], NoFile, Torn, staging[VersionPy], inst[i].rel}
    <3>1. CASE ChooseInstall(i)
      BY <3>1 DEF ChooseInstall, card
    <3>2. CASE InstallStep(i)
      BY <3>2, VersionPyAfter
    <3> QED
      BY <1>4, <3>1, <3>2
  <2> QED BY <1>2, <2>1, <2>3, NotPrerelease DEF StableInv
<1> QED BY <1>3, <1>4

\* A user who never chose the beta channel never runs a prerelease, whatever the
\* main branch serves, however many threads race and whenever the app stops
\* (check_for_update, apply_update).
THEOREM StableHolds == Spec => []StableStaysStable
<1>1. Init => TypeInv /\ StableInv
  <2>1. Init => StableInv
    BY NotPrerelease, OtaAssumption
    DEF Init, StableInv, OtaAssumption, Versions, Empty, ClosedModal, IdleCheck, IdleInstall
  <2> QED BY <2>1, InitType, InitLists DEF TypeInv
<1>2. TypeInv /\ StableInv /\ [Next]_vars => TypeInv' /\ StableInv'
  <2>1. ASSUME TypeInv, StableInv, [Next]_vars PROVE StableInv'
    <3>1. CASE UNCHANGED vars
      BY <2>1, <3>1 DEF vars, StableInv
    <3> QED BY <2>1, <3>1, StableWorld, StableCheck, StableInstall DEF Next
  <2> QED BY <2>1, NextTypeInv
<1>3. StableInv => StableStaysStable
  BY DEF StableInv, StableStaysStable
<1> QED BY <1>1, <1>2, <1>3, PTL DEF Spec

-----------------------------------------------------------------------------
(* No way back.  Nothing is assumed of what is on offer.                   *)

\* Everything alive works for a release above APP_VERSION, and version.py, in the
\* tree and in the staging directory of a running install, is above it or torn.
ForwardInv ==
    /\ app[VersionPy] = Torn \/ app[VersionPy] >= appVersion
    /\ \A c \in Checks : chk[c].pc = "scanning" => chk[c].rel > appVersion
    /\ PopupRead => modal.rel > appVersion
    /\ \A i \in Installers : Working(i) => inst[i].rel > appVersion
    /\ (\E i \in Installers : inst[i].pc \in {"staging", "applying"}) =>
           staging[VersionPy] \in {NoFile, Torn} \/ staging[VersionPy] > appVersion
    /\ ~up => /\ ~modal.open
              /\ \A c \in Checks : chk[c].pc = "idle"
              /\ \A i \in Installers : inst[i].pc = "idle"

LEMMA ForwardWorld ==
  ASSUME TypeInv, ForwardInv,
         \/ \E s \in Sources, r \in Releases : Publish(s, r)
         \/ ToggleChannel \/ StartApp \/ ExitApp \/ StopApp
  PROVE  ForwardInv'
<1>1. CASE \/ \E s \in Sources, r \in Releases : Publish(s, r)
           \/ ToggleChannel
  BY <1>1 DEF Publish, ToggleChannel, ForwardInv, PopupRead, Working, card
<1>2. CASE StartApp
  <2>1. \A c \in Checks : chk'[c].pc # "scanning"
    BY <1>2 DEF StartApp, IdleCheck
  <2>2. app[VersionPy] \in Nat
    BY <1>2, VersionsAreNat, OtaAssumption DEF StartApp, TypeInv, TypeOK, Contents, OtaAssumption
  <2>3. UNCHANGED <<app, staging, modal, inst>> /\ appVersion' = app[VersionPy] /\ ~up /\ up'
    BY <1>2 DEF StartApp, card
  <2> QED
    BY <2>1, <2>2, <2>3 DEF ForwardInv, PopupRead, Working
<1>3. CASE ExitApp \/ StopApp
  <2>1. UNCHANGED <<app, staging, appVersion>> /\ modal' = ClosedModal
    BY <1>3 DEF ExitApp, StopApp, ProcessGone, card, world
  <2>2. /\ \A c \in Checks : chk'[c].pc = "idle"
        /\ \A i \in Installers : inst'[i].pc = "idle"
        /\ ~modal'.open
    BY <1>3 DEF ExitApp, StopApp, ProcessGone, IdleCheck, IdleInstall, ClosedModal
  <2> QED
    BY <2>1, <2>2 DEF ForwardInv, PopupRead, Working
<1> QED
  BY <1>1, <1>2, <1>3

LEMMA ForwardCheck ==
  ASSUME TypeInv, ForwardInv, NEW c \in Checks, CheckStep(c)
  PROVE  ForwardInv'
<1>1. UNCHANGED <<app, staging, appVersion, inst, up>>
  BY DEF CheckStep, StartManualCheck, FetchOk, FetchFail, Rule, Scan, OpenModal, card, world
<1>2. chk \in [Checks -> CheckStates]
  BY DEF TypeInv, TypeOK
<1>3. \A d \in Checks : chk'[d].pc = "scanning" => chk'[d].rel > appVersion
  <2>1. \A d \in Checks : d # c => chk'[d] = chk[d]
    BY <1>2 DEF CheckStep, StartManualCheck, FetchOk, FetchFail, Rule, Scan, OpenModal
  <2>2. chk'[c].pc = "scanning" => chk'[c].rel > appVersion
    <3>1. CASE Rule(c)
      BY <1>2, <3>1 DEF Rule, Offers, IsNewer, IdleCheck
    <3>2. CASE Scan(c)
      <4>1. chk[c].pc = "scanning" /\ chk'[c].rel = chk[c].rel
        BY <1>2, <3>2 DEF Scan, CheckStates
      <4> QED
        BY <4>1 DEF ForwardInv
    <3>3. CASE StartManualCheck(c) \/ FetchOk(c) \/ FetchFail(c) \/ OpenModal(c)
      BY <1>2, <3>3 DEF StartManualCheck, FetchOk, FetchFail, OpenModal, IdleCheck, CheckStates
    <3> QED
      BY <3>1, <3>2, <3>3 DEF CheckStep
  <2> QED
    BY <2>1, <2>2 DEF ForwardInv
<1>6. up
  BY DEF CheckStep, StartManualCheck, FetchOk, FetchFail, Rule, Scan, OpenModal, ForwardInv
<1>4. CASE OpenModal(c)
  <2>1. modal'.rel = chk[c].rel /\ chk[c].pc = "scanning"
    BY <1>4 DEF OpenModal
  <2> QED
    BY <1>1, <1>3, <1>6, <2>1 DEF ForwardInv, PopupRead, Working
<1>5. CASE ~OpenModal(c)
  <2>1. UNCHANGED modal
    BY <1>5 DEF CheckStep, StartManualCheck, FetchOk, FetchFail, Rule, Scan
  <2> QED
    BY <1>1, <1>3, <1>6, <2>1 DEF ForwardInv, PopupRead, Working
<1> QED
  BY <1>4, <1>5

LEMMA ForwardInstall ==
  ASSUME TypeInv, ForwardInv,
         \/ ChooseLater \/ ChooseSkip
         \/ \E i \in Installers : ChooseInstall(i) \/ InstallStep(i)
  PROVE  ForwardInv'
<1>1. /\ inst \in [Installers -> InstallStates] /\ modal \in PopupStates
      /\ appVersion \in Nat /\ Torn \notin Nat
  BY VersionsAreNat, OtaAssumption DEF TypeInv, TypeOK, OtaAssumption
<1>2. UNCHANGED <<appVersion, chk, up>>
  BY DEF ChooseLater, ChooseSkip, ChooseInstall, InstallStep, Begin, ClearStaging, OpenStaged,
         WriteStaged, StageFail, ApplyFile, ApplyFail, RemoveFile, FinishApply, RestartOk, RestartFail, world
<1>3. CASE ChooseLater \/ ChooseSkip \/ \E i \in Installers : ChooseInstall(i)
  <2>1. UNCHANGED <<app, staging>> /\ modal'.rel = modal.rel /\ modal.open
    BY <1>1, <1>3 DEF ChooseLater, ChooseSkip, ChooseInstall, PopupStates, card
  <2>2. \A j \in Installers : inst'[j] = inst[j] \/ (inst'[j].pc = "started" /\ inst[j].pc = "idle")
    BY <1>1, <1>3 DEF ChooseLater, ChooseSkip, ChooseInstall, InstallStates
  <2> QED
    BY <1>2, <2>1, <2>2 DEF ForwardInv, PopupRead, Working
<1>4. ASSUME NEW i \in Installers, InstallStep(i)
      PROVE  ForwardInv'
  <2>1. modal'.rel = modal.rel /\ modal'.open = modal.open
    BY <1>4, InstallFrame
  <2>2. /\ \A j \in Installers : j # i => inst'[j] = inst[j]
        /\ inst'[i].pc # "started"
        /\ inst[i].pc # "idle"
    BY <1>1, <1>4, InstallFrame
  <2>3. Working(i)' => inst'[i].rel > appVersion
    BY <1>4, InstallFrame DEF ForwardInv, PopupRead, Working
  <2>4. /\ \/ staging'[VersionPy] \in {staging[VersionPy], NoFile, Torn}
           \/ Working(i) /\ staging'[VersionPy] = inst[i].rel
        /\ \/ app'[VersionPy] = app[VersionPy]
           \/ Working(i) /\ app'[VersionPy] \in {inst[i].rel, Torn}
           \/ /\ inst[i].pc = "applying" /\ staging[VersionPy] # NoFile
              /\ app'[VersionPy] = staging[VersionPy]
    BY <1>4, VersionPyAfter
  <2>5. app'[VersionPy] = Torn \/ app'[VersionPy] >= appVersion
    <3>1. CASE app'[VersionPy] = app[VersionPy]
      BY <3>1 DEF ForwardInv
    <3>2. CASE Working(i) /\ app'[VersionPy] \in {inst[i].rel, Torn}
      <4>1. inst[i].rel \in Nat /\ inst[i].rel > appVersion
        BY <1>1, <3>2, VersionsAreNat DEF ForwardInv, InstallStates
      <4> QED
        BY <1>1, <3>2, <4>1
    <3>3. CASE inst[i].pc = "applying" /\ staging[VersionPy] # NoFile
               /\ app'[VersionPy] = staging[VersionPy]
      <4>1. staging[VersionPy] = Torn \/ staging[VersionPy] \in Nat
        BY <3>3, VersionsAreNat, OtaAssumption DEF TypeInv, TypeOK, Contents, OtaAssumption
      <4> QED
        BY <1>1, <3>3, <4>1 DEF ForwardInv
    <3> QED
      BY <2>4, <3>1, <3>2, <3>3
  <2>6. (\E j \in Installers : inst'[j].pc \in {"staging", "applying"}) =>
            staging'[VersionPy] \in {NoFile, Torn} \/ staging'[VersionPy] > appVersion
    <3>1. CASE ClearStaging(i)
      BY <3>1, OtaAssumption DEF ClearStaging, Empty, OtaAssumption
    <3>2. CASE ~ClearStaging(i)
      <4>1. ASSUME inst'[i].pc \in {"staging", "applying"}
            PROVE  inst[i].pc \in {"staging", "applying"}
        BY <1>4, <3>2, <4>1, InstallFrame
      <4>2. ASSUME NEW j \in Installers, inst'[j].pc \in {"staging", "applying"}
            PROVE  inst[j].pc \in {"staging", "applying"}
        BY <2>2, <4>1, <4>2
      <4> QED
        BY <2>4, <4>2 DEF ForwardInv
    <3> QED
      BY <3>1, <3>2
  <2>7. up
    BY <2>2 DEF ForwardInv
  <2>8. PopupRead' => PopupRead
    BY <2>1, <2>2 DEF PopupRead
  <2>9. \A j \in Installers : Working(j)' => inst'[j].rel > appVersion
    BY <2>2, <2>3 DEF ForwardInv, Working
  <2> QED
    BY <1>2, <2>1, <2>5, <2>6, <2>7, <2>8, <2>9 DEF ForwardInv
<1> QED
  BY <1>3, <1>4

LEMMA ForwardAlways == Spec => [](TypeInv /\ ForwardInv)
<1>1. Init => TypeInv /\ ForwardInv
  <2>1. ASSUME Init PROVE ForwardInv
    <3>1. app[VersionPy] = 0 /\ appVersion = 0
      BY <2>1, OtaAssumption DEF Init, OtaAssumption, Versions
    <3> QED
      BY <2>1, <3>1 DEF Init, ForwardInv, PopupRead, Working, ClosedModal, IdleCheck, IdleInstall
  <2> QED
    BY <2>1, InitType, InitLists DEF TypeInv
<1>2. TypeInv /\ ForwardInv /\ [Next]_vars => TypeInv' /\ ForwardInv'
  <2>1. ASSUME TypeInv, ForwardInv, [Next]_vars PROVE ForwardInv'
    <3>1. CASE UNCHANGED vars
      BY <2>1, <3>1 DEF vars, ForwardInv, PopupRead, Working
    <3> QED
      BY <2>1, <3>1, ForwardWorld, ForwardCheck, ForwardInstall DEF Next
  <2> QED
    BY <2>1, NextTypeInv
<1> QED
  BY <1>1, <1>2, PTL DEF Spec

\* From one start to the next the application never goes back to an older
\* release, for any number of check and install threads and although what is on
\* offer changes under them: APP_VERSION may be stale after an install whose
\* restart failed, and the staged version.py may be another thread's or torn
\* (updater.py:392-414, 446-491).
THEOREM NeverDowngradesHolds == Spec => NeverDowngrades
<1>1. ASSUME TypeInv, ForwardInv, [Next]_vars, appVersion' # appVersion
      PROVE  appVersion' >= appVersion
  <2>1. StartApp
    BY <1>1
    DEF Next, vars, Publish, ToggleChannel, ExitApp, StopApp, ProcessGone, world, CheckStep,
        StartManualCheck, FetchOk, FetchFail, Rule, Scan, OpenModal, ChooseLater, ChooseSkip,
        ChooseInstall, InstallStep, Begin, ClearStaging, OpenStaged, WriteStaged, StageFail,
        ApplyFile, ApplyFail, RemoveFile, FinishApply, RestartOk, RestartFail
  <2> QED
    BY <1>1, <2>1 DEF StartApp, ForwardInv
<1>2. TypeInv /\ ForwardInv /\ [Next]_vars => [appVersion' >= appVersion]_vars
  BY <1>1, VersionsAreNat DEF TypeInv, TypeOK
<1> QED
  BY <1>2, ForwardAlways, PTL DEF Spec, NeverDowngrades

-----------------------------------------------------------------------------
(* Torn files.  With one install thread at a time none reaches the tree.   *)

\* The open file is the thread's own, in the staging directory; what is staged
\* already, and what is left to apply, is written to its end.
WholeInv ==
    /\ NothingTorn
    /\ \A i \in Installers :
           /\ fd[i].at # "none" => fd[i].at = "staging" /\ ~fd[i].shared
           /\ inst[i].pc = "staging" =>
                  \A p \in inst[i].files \ inst[i].left : staging[p] # Torn
           /\ inst[i].pc = "applying" => \A p \in inst[i].left : staging[p] # Torn

\* With one thread, only its own steps touch the tree, the staging directory and
\* the open file.
LEMMA WholeInstall ==
  ASSUME TypeInv, WholeInv, NEW i \in Installers, \A j \in Installers : j = i, InstallStep(i)
  PROVE  WholeInv'
<1>1. /\ app \in [Files -> Contents] /\ staging \in [Files -> Contents]
      /\ inst \in [Installers -> InstallStates] /\ fd \in [Installers -> OpenFiles]
      /\ NoFile # Torn
  BY OtaAssumption DEF TypeInv, TypeOK, OtaAssumption
<1>2. /\ inst[i].pc \in {"staging", "applying"} => inst[i].left \subseteq inst[i].files
      /\ inst[i].pc = "clearing" => inst[i].left = inst[i].files
      /\ fd[i].at # "none" => inst[i].pc = "staging" /\ fd[i].path \in inst[i].left
  BY DEF TypeInv, ListsFromManifests, Working
\* The invariant of the one thread, as it is to be shown of the next state.
<1>3. SUFFICES /\ \A p \in Files : app'[p] # Torn
               /\ fd'[i].at # "none" => fd'[i].at = "staging" /\ ~fd'[i].shared
               /\ inst'[i].pc = "staging" =>
                      \A p \in inst'[i].files \ inst'[i].left : staging'[p] # Torn
               /\ inst'[i].pc = "applying" => \A p \in inst'[i].left : staging'[p] # Torn
  BY DEF WholeInv, NothingTorn
<1>4. CASE Begin(i)
  <2>1. inst'[i].pc \in {"restarting", "clearing"}
    BY <1>1, <1>4 DEF Begin
  <2> QED
    BY <1>4, <2>1 DEF Begin, WholeInv, NothingTorn, card
<1>5. CASE ClearStaging(i)
  <2>1. /\ inst'[i].pc = "staging" /\ inst'[i].files = inst[i].files
        /\ inst'[i].left = inst[i].left /\ UNCHANGED app
    BY <1>1, <1>5 DEF ClearStaging, InstallStates
  <2>2. fd[i].at = "none"
    BY <1>2, <1>5 DEF ClearStaging
  <2>3. fd'[i].at = "none"
    BY <1>1, <1>5, <2>2, RelocatedFacts DEF ClearStaging
  <2> QED
    BY <1>2, <1>5, <2>1, <2>3 DEF ClearStaging, WholeInv, NothingTorn
<1>6. CASE OpenStaged(i)
  <2>1. PICK p \in inst[i].left :
           LET others == {j \in Installers : fd[j].at = "staging" /\ fd[j].path = p}
           IN  /\ staging' = [staging EXCEPT ![p] = Torn]
               /\ fd' = [j \in Installers |->
                     CASE j = i -> [path |-> p, at |-> "staging",
                                    shared |-> \E k \in others : inst[k].rel # inst[i].rel]
                       [] j \in others -> [fd[j] EXCEPT !.shared = TRUE]
                       [] OTHER -> fd[j]]
    BY <1>6 DEF OpenStaged
  <2> DEFINE others == {j \in Installers : fd[j].at = "staging" /\ fd[j].path = p}
             mixed == \E k \in others : inst[k].rel # inst[i].rel
  <2>2. ~mixed
    OBVIOUS
  <2>3. ~fd'[i].shared /\ fd'[i].at = "staging"
    <3>1. fd'[i] = [path |-> p, at |-> "staging", shared |-> mixed]
      <4> DEFINE opened(j) == CASE j = i -> [path |-> p, at |-> "staging", shared |-> mixed]
                                [] j \in others -> [fd[j] EXCEPT !.shared = TRUE]
                                [] OTHER -> fd[j]
      <4>1. fd' = [j \in Installers |-> opened(j)]
        BY <2>1
      <4>2. opened(i) = [path |-> p, at |-> "staging", shared |-> mixed]
        <5>1. i \notin others
          BY <1>6 DEF OpenStaged
        <5> HIDE DEF mixed, others
        <5> QED
          BY <5>1, Zenon
      <4> HIDE DEF opened
      <4> QED
        BY <4>1, <4>2, Zenon
    <3> HIDE DEF mixed
    <3> QED
      BY <2>2, <3>1
  <2>4. UNCHANGED <<app, inst>> /\ inst[i].pc = "staging"
    BY <1>6 DEF OpenStaged
  <2>5. \A q \in inst[i].files \ inst[i].left : q # p /\ q \in Files
    BY <1>1 DEF InstallStates
  <2>6. \A q \in inst[i].files \ inst[i].left : staging'[q] # Torn
    BY <1>1, <2>1, <2>4, <2>5 DEF WholeInv
  <2> QED
    BY <2>3, <2>4, <2>6 DEF WholeInv, NothingTorn
<1>7. CASE WriteStaged(i)
  <2> DEFINE q == fd[i].path
             r == inst[i].rel
  <2>1. fd[i].at = "staging" /\ ~fd[i].shared /\ inst[i].pc = "staging" /\ q \in inst[i].left
    BY <1>2, <1>7 DEF WriteStaged, WholeInv
  <2>2. Written(i) = {Sha[r][q]}
    BY <2>1 DEF Written
  <2>3. staging' = [staging EXCEPT ![q] = Sha[r][q]] /\ app' = app
    BY <1>7, <2>1, <2>2 DEF WriteStaged
  <2>4. Sha[r][q] # Torn
    <3>1. r \in Releases /\ q \in Files
      BY <1>1, <2>1 DEF TypeInv, ListsFromManifests, Working, OpenFiles
    <3> QED
      BY <3>1, ShaType DEF Versions
  <2>5. fd'[i].at = "none"
    BY <1>1, <1>7, NotOpenType DEF WriteStaged
  <2>6. inst' = IF inst[i].left = {q}
                  THEN [inst EXCEPT ![i].pc = "applying", ![i].left = inst[i].files]
                  ELSE [inst EXCEPT ![i].left = inst[i].left \ {q}]
    BY <1>7 DEF WriteStaged
  <2>7. \A p \in inst[i].files : p \notin inst[i].left \/ p = q => staging'[p] # Torn
    BY <1>1, <2>1, <2>3, <2>4 DEF WholeInv, InstallStates
  <2>8. CASE inst[i].left = {q}
    <3>1. inst'[i].pc = "applying" /\ inst'[i].left = inst[i].files
      BY <1>1, <2>6, <2>8 DEF InstallStates
    <3> QED
      BY <2>3, <2>5, <2>7, <2>8, <3>1 DEF WholeInv, NothingTorn
  <2>9. CASE inst[i].left # {q}
    <3>1. /\ inst'[i].pc = "staging" /\ inst'[i].left = inst[i].left \ {q}
          /\ inst'[i].files = inst[i].files
      BY <1>1, <2>1, <2>6, <2>9 DEF InstallStates
    <3> QED
      BY <2>3, <2>5, <2>7, <3>1 DEF WholeInv, NothingTorn
  <2> QED
    BY <2>8, <2>9
<1>8. CASE StageFail(i)
  <2>1. fd'[i].at = "none"
    BY <1>1, <1>8, NotOpenType, RelocatedFacts DEF StageFail
  <2>2. inst'[i].pc = "idle" /\ UNCHANGED app
    BY <1>1, <1>8 DEF StageFail, InstallFailed, IdleInstall
  <2> QED
    BY <2>1, <2>2 DEF WholeInv, NothingTorn
<1>9. CASE ApplyFile(i)
  <2>1. PICK p \in inst[i].left :
           /\ app' = [app EXCEPT ![p] = staging[p]]
           /\ staging' = [staging EXCEPT ![p] = NoFile]
           /\ fd' = Relocated(Relocated(fd, {p}, "app", "gone"), {p}, "staging", "app")
           /\ inst' = IF inst[i].left = {p}
                         THEN [inst EXCEPT ![i].pc = "removing",
                                           ![i].left = Dropped[inst[i].rel]]
                         ELSE [inst EXCEPT ![i].left = inst[i].left \ {p}]
    BY <1>9 DEF ApplyFile
  <2>2. inst[i].pc = "applying" /\ fd[i].at = "none"
    BY <1>2, <1>9 DEF ApplyFile
  <2>3. \A q \in Files : app'[q] # Torn
    BY <1>1, <2>1, <2>2 DEF WholeInv, NothingTorn
  <2>4. fd'[i].at = "none"
    <3> DEFINE f == Relocated(fd, {p}, "app", "gone")
    <3>1. f \in [Installers -> OpenFiles] /\ f[i].at = "none"
      BY <1>1, <2>2, RelocatedFacts
    <3>2. Relocated(f, {p}, "staging", "app")[i].at = "none" <=> f[i].at = "none"
      BY <3>1, RelocatedFacts
    <3> QED
      BY <2>1, <3>1, <3>2
  <2>5. \A q \in inst[i].left : staging'[q] # Torn
    BY <1>1, <2>1, <2>2 DEF WholeInv, InstallStates
  <2>6. \/ inst'[i].pc = "removing"
        \/ inst'[i].pc = "applying" /\ inst'[i].left \subseteq inst[i].left
    BY <1>1, <2>1, <2>2 DEF InstallStates
  <2> QED
    BY <2>3, <2>4, <2>5, <2>6
<1>10. CASE RemoveFile(i)
  <2>1. fd[i].at = "none" /\ inst[i].pc = "removing"
    BY <1>2, <1>10 DEF RemoveFile
  <2>2. fd'[i].at = "none" /\ inst'[i].pc = "removing"
    BY <1>1, <1>10, <2>1, RelocatedFacts DEF RemoveFile, InstallStates
  <2>3. \A q \in Files : app'[q] # Torn
    BY <1>1, <1>10 DEF RemoveFile, WholeInv, NothingTorn
  <2> QED
    BY <2>2, <2>3
<1>11. CASE FinishApply(i)
  <2>1. fd[i].at = "none"
    BY <1>2, <1>11 DEF FinishApply
  <2>2. fd'[i].at = "none" /\ inst'[i].pc = "restarting" /\ UNCHANGED app
    BY <1>1, <1>11, <2>1, RelocatedFacts DEF FinishApply, InstallStates
  <2> QED
    BY <2>2 DEF WholeInv, NothingTorn
<1>12. CASE ApplyFail(i) \/ RestartOk(i) \/ RestartFail(i)
  <2>1. inst'[i].pc = "idle" /\ UNCHANGED <<app, fd>>
    BY <1>1, <1>12 DEF ApplyFail, RestartOk, RestartFail, InstallFailed, IdleInstall, card
  <2> QED
    BY <2>1 DEF WholeInv, NothingTorn
<1> QED
  BY <1>4, <1>5, <1>6, <1>7, <1>8, <1>9, <1>10, <1>11, <1>12 DEF InstallStep

\* With one install thread at a time a file that is not written to its end never
\* reaches the tree: not after a failed download or write, a failed os.replace or
\* a stop at any step, although nobody removes what they leave behind
\* (updater.py:446-463, 477-491).  That two threads run is what hazard H1 needs.
THEOREM NothingTornHolds ==
    ASSUME \A i, j \in Installers : i = j PROVE Spec => []NothingTorn
<1>1. Init => TypeInv /\ WholeInv
  <2>1. ASSUME Init PROVE WholeInv
    <3>2. NothingTorn
      BY <2>1, ShaType DEF Init, NothingTorn, Versions
    <3> QED
      BY <2>1, <3>2, NotOpenType DEF Init, WholeInv, IdleInstall
  <2> QED
    BY <2>1, InitType, InitLists DEF TypeInv
<1>2. TypeInv /\ WholeInv /\ [Next]_vars => TypeInv' /\ WholeInv'
  <2>1. ASSUME TypeInv, WholeInv, [Next]_vars PROVE WholeInv'
    <3>1. ASSUME UNCHANGED <<app, staging, inst, fd>> PROVE WholeInv'
      BY <2>1, <3>1 DEF WholeInv, NothingTorn
    <3>2. CASE ExitApp \/ StopApp
      <4>1. app' = app
        BY <3>2 DEF ExitApp, StopApp, ProcessGone, card
      <4>2. \A i \in Installers : inst'[i].pc = "idle" /\ fd'[i].at = "none"
        BY <3>2, NotOpenType DEF ExitApp, StopApp, ProcessGone, IdleInstall
      <4> QED
        BY <2>1, <4>1, <4>2 DEF WholeInv, NothingTorn
    <3>3. ASSUME NEW i \in Installers, ChooseInstall(i) PROVE WholeInv'
      <4>1. inst'[i].pc = "started" /\ \A j \in Installers : j = i
        BY <3>3, <2>1 DEF ChooseInstall, TypeInv, TypeOK, InstallStates
      <4>2. UNCHANGED <<app, fd>>
        BY <3>3 DEF ChooseInstall, card
      <4> QED
        BY <2>1, <4>1, <4>2 DEF WholeInv, NothingTorn
    <3>4. ASSUME NEW i \in Installers, InstallStep(i) PROVE WholeInv'
      BY <2>1, <3>4, WholeInstall
    <3> QED
      BY <2>1, <3>1, <3>2, <3>3, <3>4
      DEF Next, vars, Publish, ToggleChannel, StartApp, CheckStep, StartManualCheck, FetchOk,
          FetchFail, Rule, Scan, OpenModal, ChooseLater, ChooseSkip, card, world
  <2> QED
    BY <2>1, NextTypeInv
<1>3. WholeInv => NothingTorn
  BY DEF WholeInv
<1> QED
  BY <1>1, <1>2, <1>3, PTL DEF Spec
=============================================================================
