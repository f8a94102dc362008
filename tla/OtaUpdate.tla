----------------------------- MODULE OtaUpdate -----------------------------
(***************************************************************************)
(* The over-the-air updater of the application: files/rh/updater.py, the   *)
(* popup in files/rh/modals/update.py and the check threads started by     *)
(* files/rh/screens/home.py.                                               *)
(*                                                                         *)
(* Check threads download a manifest, apply the channel and version rules, *)
(* hash the installed files and open the one update popup.  The popup      *)
(* starts install threads, which share one staging directory.  The process *)
(* may stop at any step; only the card survives.                           *)
(*                                                                         *)
(* A release is a natural number and version order is <.  The content of a *)
(* file is named by the release that last changed it, so a SHA-256 match   *)
(* is an equality.  Lists of files are sets: the order of the files in a   *)
(* manifest is abstracted to any order, except that version.py is last.    *)
(***************************************************************************)
EXTENDS Naturals, FiniteSets

CONSTANTS
    Releases,       \* the releases that can be published; 0 is the factory image
    Prereleases,    \* those whose manifest says "prerelease": true
    Files,          \* the files of the application tree, without settings.json
    VersionPy,      \* rh/version.py
    Listed,         \* Listed[r]: the paths in "files" of r's manifest
    Dropped,        \* Dropped[r]: the paths in "remove" of r's manifest
    Sha,            \* Sha[r][p]: the content of p in release r
    NoFile,         \* the content of a path that does not exist
    Torn,           \* the content of a file that is not written to its end
    AutoChecks,     \* check threads HomeScreen.on_enter starts
    ManualChecks,   \* check threads the "update" menu item starts
    Installers,     \* install threads of the popup
    Publishing,     \* the sources at which releases appear; the others stay empty
    SteadyOffer,    \* TRUE: what is on offer does not change under an open session
    MaxStops        \* bound on process stops and power losses

Versions == Releases \cup {0}
Contents == Versions \cup {NoFile, Torn}
Checks == AutoChecks \cup ManualChecks
Sources == {"release", "main", "beta"}
Channels == {"stable", "beta"}

\* What make_release.py writes: every release lists version.py, whose content
\* names the release; no release both lists and removes a path.
ASSUME OtaAssumption ==
    /\ Releases \subseteq Nat \ {0}
    /\ Prereleases \subseteq Releases
    /\ VersionPy \in Files
    /\ Listed \in [Releases -> SUBSET Files]
    /\ Dropped \in [Releases -> SUBSET Files]
    /\ Sha \in [Versions -> [Files -> Versions \cup {NoFile}]]
    /\ NoFile \notin Nat /\ Torn \notin Nat /\ NoFile # Torn
    /\ \A r \in Releases : /\ VersionPy \in Listed[r]
                           /\ Listed[r] \cap Dropped[r] = {}
                           /\ \A p \in Listed[r] : Sha[r][p] # NoFile
    /\ \A r \in Versions : Sha[r][VersionPy] = r
    /\ AutoChecks \cap ManualChecks = {}
    /\ Publishing \subseteq Sources
    /\ SteadyOffer \in BOOLEAN
    /\ MaxStops \in Nat

VARIABLES
    app,        \* the installed tree, path -> content               (on the card)
    staging,    \* .update_staging, path -> content                  (on the card)
    skippedOnCard, \* skipped_versions in settings.json              (on the card)
    published,  \* the manifest each source serves                   (GitHub)
    channel,    \* state.update_channel
    up,         \* the application process is running
    quitting,   \* engine.running was cleared by engine.quit
    appVersion, \* APP_VERSION, read once when the process starts
    skipped,    \* state.skipped_versions
    chk,        \* check threads
    modal,      \* the UpdateModal object
    inst,       \* install threads
    fd,         \* the staged file each of them has open for writing
    stops,      \* process stops so far (bounded by MaxStops)
    betaChosen  \* history: the beta channel has been selected once

card == <<app, staging, skippedOnCard>>
world == <<published, channel, betaChosen>>
vars == <<app, staging, skippedOnCard, published, channel, up, quitting,
          appVersion, skipped, chk, modal, inst, fd, stops, betaChosen>>

IdleCheck == [pc |-> "idle", rel |-> 0, todo |-> {}, files |-> {}]
IdleInstall == [pc |-> "idle", rel |-> 0, files |-> {}, left |-> {}]
ClosedModal == [open |-> FALSE, rel |-> 0, files |-> {}, busy |-> FALSE, failed |-> FALSE]

NotOpen == [path |-> VersionPy, at |-> "none", shared |-> FALSE]

Empty == [p \in Files |-> NoFile]

-----------------------------------------------------------------------------
(* The release rules of check_for_update.                                  *)

\* The sources a check on channel ch may end up reading: the stable channel
\* tries the latest Release first and falls back to the main branch, which
\* may carry a prerelease.
SourcesOf(ch) == IF ch = "beta" THEN {"beta"} ELSE {"release", "main"}

\* Mutant: any different version is taken for a newer one.
IsNewerDiffers(r, v) == r # v

IsNewer(r, v) == r > v

\* Mutant: the stable channel takes whatever the manifest source serves.
ChannelAcceptsAny(r, v, ch) == ch = "beta" => r \in Prereleases

ChannelAccepts(r, v, ch) ==
    IF ch = "beta" THEN r \in Prereleases
                   ELSE r \in Prereleases => v \in Prereleases

\* The releases some check may offer to a process running v on channel ch.
OnOffer(v, ch, pub) ==
    {r \in {pub[s] : s \in SourcesOf(ch)} \ {0} :
        ChannelAccepts(r, v, ch) /\ IsNewer(r, v)}

OneOffer(v, ch, pub) == \A r, s \in OnOffer(v, ch, pub) : r = s

\* Between update sessions: no thread of the updater is alive, the popup is
\* closed and no installed version waits for a restart.
Quiet == /\ up => appVersion = app[VersionPy]
         /\ \A c \in Checks : chk[c].pc = "idle"
         /\ \A i \in Installers : inst[i].pc = "idle"
         /\ ~modal.open

-----------------------------------------------------------------------------
CheckStates ==
    [pc : {"idle", "fetching", "ruling", "scanning"}, rel : Versions,
     todo : SUBSET Files, files : SUBSET Files]
PopupStates ==
    [open : BOOLEAN, rel : Versions, files : SUBSET Files, busy : BOOLEAN, failed : BOOLEAN]
InstallStates ==
    [pc : {"idle", "started", "clearing", "staging", "applying", "removing", "restarting"},
     rel : Versions, files : SUBSET Files, left : SUBSET Files]

\* A file stays open wherever it is moved to; "gone": it has no name any more.
OpenFiles ==
    [path : Files, at : {"none", "staging", "app", "gone"}, shared : BOOLEAN]

TypeOK ==
    /\ app \in [Files -> Contents]
    /\ app[VersionPy] # NoFile
    /\ staging \in [Files -> Contents]
    /\ fd \in [Installers -> OpenFiles]
    /\ skippedOnCard \subseteq Versions
    /\ published \in [Sources -> Versions]
    /\ channel \in Channels
    /\ up \in BOOLEAN /\ quitting \in BOOLEAN /\ betaChosen \in BOOLEAN
    /\ appVersion \in Versions
    /\ skipped \subseteq Versions
    /\ chk \in [Checks -> CheckStates]
    /\ modal \in PopupStates
    /\ inst \in [Installers -> InstallStates]
    /\ stops \in 0..MaxStops

Init ==
    /\ app = Sha[0]
    /\ staging = Empty
    /\ skippedOnCard = {}
    /\ published = [s \in Sources |-> 0]
    /\ channel = "stable"
    /\ up = FALSE /\ quitting = FALSE /\ betaChosen = FALSE
    /\ appVersion = 0
    /\ skipped = {}
    /\ chk = [c \in Checks |-> IdleCheck]
    /\ modal = ClosedModal
    /\ inst = [i \in Installers |-> IdleInstall]
    /\ fd = [i \in Installers |-> NotOpen]
    /\ stops = 0

-----------------------------------------------------------------------------
(* The surroundings: GitHub, the settings screen, the launcher.            *)

\* A change of what is on offer.  With SteadyOffer it falls between update
\* sessions, and leaves at most one release a check could offer.
OfferMayChange ==
    SteadyOffer => Quiet /\ OneOffer(appVersion', channel', published')

\* A release appears at a source.  Only the beta source and the main branch
\* serve prereleases; what a source serves never goes back.
Publish(s, r) ==
    /\ s \in Publishing
    /\ r > published[s]
    /\ s = "release" => r \notin Prereleases
    /\ s = "beta" => r \in Prereleases
    /\ published' = [published EXCEPT ![s] = r]
    /\ UNCHANGED <<card, channel, betaChosen, up, quitting, appVersion, skipped,
                   chk, modal, inst, fd, stops>>
    /\ OfferMayChange

\* The settings screen switches the channel.
ToggleChannel ==
    /\ up /\ ~modal.open
    /\ channel' = IF channel = "beta" THEN "stable" ELSE "beta"
    /\ betaChosen' = TRUE
    /\ UNCHANGED <<card, published, up, quitting, appVersion, skipped, chk, modal,
                   inst, fd, stops>>
    /\ OfferMayChange

\* The launcher starts the application: version.py is imported once, the
\* settings are loaded, and the home screen starts the automatic check when
\* auto_update is set.  With a torn version.py there is no APP_VERSION to import.
StartApp ==
    /\ ~up
    /\ app[VersionPy] # Torn
    /\ up' = TRUE
    /\ quitting' = FALSE
    /\ appVersion' = app[VersionPy]
    /\ skipped' = skippedOnCard
    /\ \E auto \in SUBSET AutoChecks :
           chk' = [c \in Checks |->
                      IF c \in auto THEN [IdleCheck EXCEPT !.pc = "fetching"] ELSE IdleCheck]
    /\ UNCHANGED <<card, world, modal, inst, fd, stops>>
    /\ SteadyOffer => OneOffer(appVersion', channel, published)

\* The process is gone: its daemon threads die where they are.
ProcessGone ==
    /\ up' = FALSE
    /\ quitting' = FALSE
    /\ chk' = [c \in Checks |-> IdleCheck]
    /\ modal' = ClosedModal
    /\ inst' = [i \in Installers |-> IdleInstall]
    /\ fd' = [i \in Installers |-> NotOpen]
    /\ UNCHANGED <<card, world, appVersion, skipped>>

\* The main loop leaves after engine.quit("update_restart").
ExitApp == up /\ quitting /\ ProcessGone /\ UNCHANGED stops

\* Power loss, a killed process, SDL_QUIT or the exit menu, at any step.
StopApp == up /\ stops < MaxStops /\ ProcessGone /\ stops' = stops + 1

-----------------------------------------------------------------------------
(* Check threads: HomeScreen._check_pending_update and _force_update_check. *)

\* The "update" menu item starts a thread, whatever other checks are alive;
\* the home screen has the input only while no popup is active.
StartManualCheck(c) ==
    /\ up /\ ~modal.open
    /\ c \in ManualChecks
    /\ chk[c].pc = "idle"
    /\ chk' = [chk EXCEPT ![c].pc = "fetching"]
    /\ UNCHANGED <<card, world, up, quitting, appVersion, skipped, modal, inst, fd, stops>>

\* fetch_manifest: some source of the channel answered.
FetchOk(c) ==
    /\ chk[c].pc = "fetching"
    /\ \E s \in SourcesOf(channel) :
           /\ published[s] # 0
           /\ chk' = [chk EXCEPT ![c].pc = "ruling", ![c].rel = published[s]]
    /\ UNCHANGED <<card, world, up, quitting, appVersion, skipped, modal, inst, fd, stops>>

\* fetch_manifest: no source answered with a valid manifest.
FetchFail(c) ==
    /\ chk[c].pc = "fetching"
    /\ chk' = [chk EXCEPT ![c] = IdleCheck]
    /\ UNCHANGED <<card, world, up, quitting, appVersion, skipped, modal, inst, fd, stops>>

\* Mutant: the skipped list also hides a release from the manual check.
OffersUnforced(c, r) ==
    ChannelAccepts(r, appVersion, channel) /\ IsNewer(r, appVersion) /\ r \notin skipped

Offers(c, r) ==
    /\ ChannelAccepts(r, appVersion, channel)
    /\ IsNewer(r, appVersion)
    /\ c \in ManualChecks \/ r \notin skipped

\* check_for_update after the manifest has arrived: the channel is read a
\* second time, then the version and, unless forced, the skipped list.
Rule(c) ==
    /\ chk[c].pc = "ruling"
    /\ chk' = [chk EXCEPT ![c] =
                  IF Offers(c, chk[c].rel)
                    THEN [pc |-> "scanning", rel |-> chk[c].rel,
                          todo |-> Listed[chk[c].rel], files |-> {}]
                    ELSE IdleCheck]
    /\ UNCHANGED <<card, world, up, quitting, appVersion, skipped, modal, inst, fd, stops>>

\* Mutant: a file is pending only when it is missing.
ScanMissing(c) ==
    /\ chk[c].pc = "scanning"
    /\ \E p \in chk[c].todo :
           chk' = IF app[p] = NoFile
                    THEN [chk EXCEPT ![c].todo = chk[c].todo \ {p},
                                     ![c].files = chk[c].files \cup {p}]
                    ELSE [chk EXCEPT ![c].todo = chk[c].todo \ {p}]
    /\ UNCHANGED <<card, world, up, quitting, appVersion, skipped, modal, inst, fd, stops>>

\* pending_files: hash the next file.
Scan(c) ==
    /\ chk[c].pc = "scanning"
    /\ \E p \in chk[c].todo :
           chk' = IF app[p] # Sha[chk[c].rel][p]
                    THEN [chk EXCEPT ![c].todo = chk[c].todo \ {p},
                                     ![c].files = chk[c].files \cup {p}]
                    ELSE [chk EXCEPT ![c].todo = chk[c].todo \ {p}]
    /\ UNCHANGED <<card, world, up, quitting, appVersion, skipped, modal, inst, fd, stops>>

\* engine.open_modal -> UpdateModal.open: every field of the one popup is set,
\* whether or not an install of the previous offer is running.
OpenModal(c) ==
    /\ chk[c].pc = "scanning"
    /\ chk[c].todo = {}
    /\ modal' = [open |-> TRUE, rel |-> chk[c].rel, files |-> chk[c].files,
                 busy |-> FALSE, failed |-> FALSE]
    /\ chk' = [chk EXCEPT ![c] = IdleCheck]
    /\ UNCHANGED <<card, world, up, quitting, appVersion, skipped, inst, fd, stops>>

-----------------------------------------------------------------------------
(* The popup: UpdateModal._activate.  While busy it takes no input.        *)

ChooseInstall(i) ==
    /\ modal.open /\ ~modal.busy
    /\ inst[i].pc = "idle"
    /\ modal' = [modal EXCEPT !.busy = TRUE]
    /\ inst' = [inst EXCEPT ![i].pc = "started"]
    /\ UNCHANGED <<card, world, up, quitting, appVersion, skipped, chk, fd, stops>>

ChooseLater ==
    /\ modal.open /\ ~modal.busy
    /\ modal' = [modal EXCEPT !.open = FALSE]
    /\ UNCHANGED <<card, world, up, quitting, appVersion, skipped, chk, inst, fd, stops>>

\* skip_version: the list is extended in memory and saved, or the save fails.
ChooseSkip ==
    /\ modal.open /\ ~modal.busy
    /\ modal' = [modal EXCEPT !.open = FALSE]
    /\ skipped' = skipped \cup {modal.rel}
    /\ skippedOnCard' \in {skipped', skippedOnCard}
    /\ UNCHANGED <<app, staging, world, up, quitting, appVersion, chk, inst, fd, stops>>

-----------------------------------------------------------------------------
(* Install threads: UpdateModal._run_install, download_update, apply_update. *)

\* The new thread reads the popup's manifest and files when it first runs.
\* An empty file list skips the download and the installation.
Begin(i) ==
    /\ inst[i].pc = "started"
    /\ inst' = [inst EXCEPT ![i] =
                   [pc |-> IF modal.files = {} THEN "restarting" ELSE "clearing",
                    rel |-> modal.rel, files |-> modal.files, left |-> modal.files]]
    /\ UNCHANGED <<card, world, up, quitting, appVersion, skipped, chk, modal, fd, stops>>

\* The open files of paths P that were at one place are now at another.
Relocated(f, P, from, to) ==
    [j \in Installers |-> IF f[j].path \in P /\ f[j].at = from
                            THEN [f[j] EXCEPT !.at = to] ELSE f[j]]

\* _stage_files: the staging directory is removed and made again.
ClearStaging(i) ==
    /\ inst[i].pc = "clearing"
    /\ staging' = Empty
    /\ fd' = Relocated(fd, Files, "staging", "gone")
    /\ inst' = [inst EXCEPT ![i].pc = "staging"]
    /\ UNCHANGED <<app, skippedOnCard, world, up, quitting, appVersion, skipped, chk,
                   modal, stops>>

\* _stage_files: the next file was downloaded and verified; open(dst, "wb")
\* truncates it.  A thread that has the same file open is truncated under its
\* hands; two threads with different contents mix them.
OpenStaged(i) ==
    /\ inst[i].pc = "staging" /\ fd[i].at = "none"
    /\ \E p \in inst[i].left :
           LET others == {j \in Installers : fd[j].at = "staging" /\ fd[j].path = p}
           IN  /\ staging' = [staging EXCEPT ![p] = Torn]
               /\ fd' = [j \in Installers |->
                     CASE j = i -> [path |-> p, at |-> "staging",
                                    shared |-> \E k \in others : inst[k].rel # inst[i].rel]
                       [] j \in others -> [fd[j] EXCEPT !.shared = TRUE]
                       [] OTHER -> fd[j]]
    /\ UNCHANGED <<app, skippedOnCard, world, up, quitting, appVersion, skipped, chk,
                   modal, inst, stops>>

\* What the open file holds when the thread has written its data.
Written(i) ==
    LET p == fd[i].path
        right == Sha[inst[i].rel][p]
        now == IF fd[i].at = "app" THEN app[p] ELSE staging[p]
    IN  IF fd[i].shared /\ now # right THEN {right, Torn} ELSE {right}

\* write, flush and fsync, to wherever the file is by now; then the next file.
WriteStaged(i) ==
    /\ fd[i].at # "none"
    /\ \E c \in Written(i) :
           /\ staging' = IF fd[i].at = "staging" THEN [staging EXCEPT ![fd[i].path] = c]
                                                 ELSE staging
           /\ app' = IF fd[i].at = "app" THEN [app EXCEPT ![fd[i].path] = c] ELSE app
    /\ fd' = [fd EXCEPT ![i] = NotOpen]
    /\ inst' = IF inst[i].left = {fd[i].path}
                  THEN [inst EXCEPT ![i].pc = "applying", ![i].left = inst[i].files]
                  ELSE [inst EXCEPT ![i].left = inst[i].left \ {fd[i].path}]
    /\ UNCHANGED <<skippedOnCard, world, up, quitting, appVersion, skipped, chk, modal, stops>>

\* Mutant: the failing paths return before the "finally" that clears busy.
InstallFailedBusy(i) ==
    /\ inst' = [inst EXCEPT ![i] = IdleInstall]
    /\ modal' = [modal EXCEPT !.failed = TRUE]

\* What _run_install does when a step returned False.
InstallFailed(i) ==
    /\ inst' = [inst EXCEPT ![i] = IdleInstall]
    /\ modal' = [modal EXCEPT !.busy = FALSE, !.failed = TRUE]

\* Mutant: a file that could not be written is taken for staged.
StageFailGoesOn(i) ==
    /\ fd[i].at # "none"
    /\ fd' = [fd EXCEPT ![i] = NotOpen]
    /\ inst' = IF inst[i].left = {fd[i].path}
                  THEN [inst EXCEPT ![i].pc = "applying", ![i].left = inst[i].files]
                  ELSE [inst EXCEPT ![i].left = inst[i].left \ {fd[i].path}]
    /\ UNCHANGED <<card, world, up, quitting, appVersion, skipped, chk, modal, stops>>

\* A download, an open or a write failed: download_update removes the staging
\* directory.  A file that was moved away while it was open stays torn.
StageFail(i) ==
    /\ inst[i].pc = "staging"
    /\ staging' = Empty
    /\ fd' = [Relocated(fd, Files, "staging", "gone") EXCEPT ![i] = NotOpen]
    /\ InstallFailed(i)
    /\ UNCHANGED <<app, skippedOnCard, world, up, quitting, appVersion, skipped, chk, stops>>

\* Mutant: the list is applied in manifest order.
MayApplyAnyOrder(p, left) == p \in left

\* apply_update orders the list so that version.py is replaced last.
MayApply(p, left) == p \in left /\ (p = VersionPy => left = {VersionPy})

\* Mutant: a staged file that is gone is not an error.
ApplyFileUnchecked(i) ==
    /\ inst[i].pc = "applying"
    /\ \E p \in inst[i].left :
           /\ MayApply(p, inst[i].left)
           /\ app' = [app EXCEPT ![p] = staging[p]]
           /\ staging' = [staging EXCEPT ![p] = NoFile]
           /\ inst' = [inst EXCEPT ![i].left = inst[i].left \ {p}]
    /\ UNCHANGED <<skippedOnCard, world, up, quitting, appVersion, skipped, chk, modal, fd,
                   stops>>

\* apply_update: os.replace of the next staged file, whatever it holds and
\* whoever has it open, made durable by the fsync of its directory.
ApplyFile(i) ==
    /\ inst[i].pc = "applying"
    /\ \E p \in inst[i].left :
           /\ MayApply(p, inst[i].left)
           /\ staging[p] # NoFile
           /\ app' = [app EXCEPT ![p] = staging[p]]
           /\ staging' = [staging EXCEPT ![p] = NoFile]
           /\ fd' = Relocated(Relocated(fd, {p}, "app", "gone"), {p}, "staging", "app")
           /\ inst' = IF inst[i].left = {p}
                         THEN [inst EXCEPT ![i].pc = "removing",
                                           ![i].left = Dropped[inst[i].rel]]
                         ELSE [inst EXCEPT ![i].left = inst[i].left \ {p}]
    /\ UNCHANGED <<skippedOnCard, world, up, quitting, appVersion, skipped, chk, modal, stops>>

\* os.replace raised OSError: because the staged file is gone or for any other
\* reason.  The files already replaced and the staging directory stay.
ApplyFail(i) ==
    /\ inst[i].pc = "applying"
    /\ InstallFailed(i)
    /\ UNCHANGED <<card, world, up, quitting, appVersion, skipped, chk, fd, stops>>

\* apply_update: os.remove of the next path in "remove"; its failure is ignored.
RemoveFile(i) ==
    /\ inst[i].pc = "removing"
    /\ \E p \in inst[i].left :
           /\ \/ app' = [app EXCEPT ![p] = NoFile] /\ fd' = Relocated(fd, {p}, "app", "gone")
              \/ UNCHANGED <<app, fd>>
           /\ inst' = [inst EXCEPT ![i].left = inst[i].left \ {p}]
    /\ UNCHANGED <<staging, skippedOnCard, world, up, quitting, appVersion, skipped, chk,
                   modal, stops>>

\* apply_update: the staging directory is removed at the end.
FinishApply(i) ==
    /\ inst[i].pc = "removing" /\ inst[i].left = {}
    /\ staging' = Empty
    /\ fd' = Relocated(fd, Files, "staging", "gone")
    /\ inst' = [inst EXCEPT ![i].pc = "restarting"]
    /\ UNCHANGED <<app, skippedOnCard, world, up, quitting, appVersion, skipped, chk,
                   modal, stops>>

\* request_restart wrote /tmp/launch_game.sh: the engine is told to quit.
RestartOk(i) ==
    /\ inst[i].pc = "restarting"
    /\ quitting' = TRUE
    /\ inst' = [inst EXCEPT ![i] = IdleInstall]
    /\ modal' = [modal EXCEPT !.busy = FALSE]
    /\ UNCHANGED <<card, world, up, appVersion, skipped, chk, fd, stops>>

\* request_restart failed: the popup reports a failed update.
RestartFail(i) ==
    /\ inst[i].pc = "restarting"
    /\ InstallFailed(i)
    /\ UNCHANGED <<card, world, up, quitting, appVersion, skipped, chk, fd, stops>>

-----------------------------------------------------------------------------
CheckStep(c) ==
    StartManualCheck(c) \/ FetchOk(c) \/ FetchFail(c) \/ Rule(c) \/ Scan(c) \/ OpenModal(c)

InstallStep(i) ==
    \/ Begin(i) \/ ClearStaging(i) \/ OpenStaged(i) \/ WriteStaged(i) \/ StageFail(i)
    \/ ApplyFile(i) \/ ApplyFail(i) \/ RemoveFile(i) \/ FinishApply(i) \/ RestartOk(i)
    \/ RestartFail(i)

Next ==
    \/ \E s \in Sources, r \in Releases : Publish(s, r)
    \/ ToggleChannel \/ StartApp \/ ExitApp \/ StopApp
    \/ \E c \in Checks : CheckStep(c)
    \/ ChooseLater \/ ChooseSkip
    \/ \E i \in Installers : ChooseInstall(i) \/ InstallStep(i)

Spec == Init /\ [][Next]_vars

-----------------------------------------------------------------------------
(* Safety.                                                                 *)

\* Every file release r lists has r's content.
Complete(r) == \A p \in Listed[r] : app[p] = Sha[r][p]

\* The tree is what its own version.py claims it to be.
Matches(v) == v = 0 \/ Complete(v)

\* "version.py is swapped last" (updater.py:386, 467): after the step that makes a
\* new version.py visible no file of its release has another release's content,
\* whatever threads, failures and restarts came before.  A file of the release
\* may be torn: another install thread has it open.
VersionLast ==
    [][app'[VersionPy] # app[VersionPy] =>
           \E r \in Releases : \A p \in Listed[r] : app'[p] \in {Sha[r][p], Torn}]_vars

\* The other half of updater.py:386-387: a tree in which a failed or interrupted
\* install left a file of another release is never stuck: some source still
\* serves a release newer than the one version.py shows, so the next check can
\* repair it.
MixedTreeIsOffered ==
    LET v == app[VersionPy] IN
        v \in Releases /\ (\E p \in Listed[v] : app[p] \notin {Sha[v][p], Torn})
            => \E s \in Sources : published[s] > v

\* From one start to the next the application never goes back to an older
\* release: although APP_VERSION is that of the last start while newer files may
\* be in the tree, the popup keeps the list of an older check, the channel
\* changes, and threads share the staging directory.
NeverDowngrades == [][appVersion' >= appVersion]_vars

\* "Only a remote version newer than APP_VERSION is shown" (updater.py:384), read
\* for the tree: an install never replaces version.py by an older one.
TreeNeverGoesBack ==
    [][{app[VersionPy], app'[VersionPy]} \subseteq Versions
           => app'[VersionPy] >= app[VersionPy]]_vars

\* A file that is not written to its end never reaches the tree, over failed
\* downloads and writes, stops, and what they leave in the staging directory.
NothingTorn == \A p \in Files : app[p] # Torn

\* updater.py:386-387: an update interrupted by the end of the process keeps its
\* old version, and is offered again.
InterruptedIsOffered ==
    LET v == app[VersionPy] IN
        ~up => v # Torn /\ (Matches(v) \/ \E s \in Sources : published[s] > v)

\* A user who never chose the beta channel never runs a prerelease, although
\* the main-branch fallback of the stable channel may serve one.
StableStaysStable == ~betaChosen => app[VersionPy] \notin Prereleases

\* The comment on the release rules (updater.py:386-387): an interrupted update
\* keeps the old version and is offered again.  Read for the whole manifest:
\* if a path the installed release removes is still there, some source serves a
\* newer release.
LeftoversAreOffered ==
    LET v == app[VersionPy] IN
        /\ v \in Releases
        /\ \E p \in Dropped[v] : app[p] # NoFile
        /\ \A i \in Installers : inst[i].pc = "idle"
        => \E s \in Sources : published[s] > v

-----------------------------------------------------------------------------
(* Why VersionLast holds: the inductive invariant, conjunct by conjunct.   *)

\* An install thread has read the popup, or is about to.
PopupRead == modal.open \/ \E i \in Installers : inst[i].pc = "started"
Working(i) == inst[i].pc \notin {"idle", "started"}

\* Every manifest in use is one that was published, every list a part of it.
ListsFromManifests ==
    /\ \A c \in Checks : chk[c].pc = "scanning" =>
           /\ chk[c].rel \in Releases
           /\ chk[c].files \cup chk[c].todo \subseteq Listed[chk[c].rel]
    /\ PopupRead => modal.rel \in Releases /\ modal.files \subseteq Listed[modal.rel]
    /\ \A i \in Installers : Working(i) =>
           /\ inst[i].rel \in Releases
           /\ inst[i].files \subseteq Listed[inst[i].rel]
           /\ inst[i].pc \in {"staging", "applying"} =>
                  inst[i].left # {} /\ inst[i].left \subseteq inst[i].files
           /\ inst[i].pc = "removing" => inst[i].left \subseteq Dropped[inst[i].rel]
           /\ inst[i].pc = "clearing" => inst[i].files # {} /\ inst[i].left = inst[i].files
    /\ \A i \in Installers :
           fd[i].at # "none" => inst[i].pc = "staging" /\ fd[i].path \in inst[i].left

OnOfferNow(r) == r \in OnOffer(appVersion, channel, published)

\* One release is on offer, and everything alive works for it.
OneSession ==
    /\ OneOffer(appVersion, channel, published)
    /\ \A c \in Checks :
           /\ chk[c].pc = "ruling" => \E s \in SourcesOf(channel) : published[s] = chk[c].rel
           /\ chk[c].pc = "ruling" => chk[c].rel # 0
           /\ chk[c].pc = "scanning" => OnOfferNow(chk[c].rel)
    /\ PopupRead => OnOfferNow(modal.rel)
    /\ \A i \in Installers : Working(i) => OnOfferNow(inst[i].rel)
    /\ up /\ app[VersionPy] \notin {appVersion, Torn} => OnOfferNow(app[VersionPy])
    /\ ~up => Quiet

\* A file that no list holds any more, or never held, is r's, or torn.
Covers(r, list) == \A p \in Listed[r] \ list : app[p] \in {Sha[r][p], Torn}

\* What a check found, a popup offers and a thread has left to do covers the
\* tree, although the hashes were taken earlier and other threads have worked
\* since; staged files are those of the release on offer; a version.py that is
\* still written to when it shows has the files of its release beside it.
ListsCoverTree ==
    /\ \A c \in Checks :
           chk[c].pc = "scanning" => Covers(chk[c].rel, chk[c].files \cup chk[c].todo)
    /\ PopupRead => Covers(modal.rel, modal.files)
    /\ \A i \in Installers :
           /\ Working(i) => Covers(inst[i].rel, inst[i].files)
           /\ inst[i].pc = "applying" => Covers(inst[i].rel, inst[i].left)
           /\ inst[i].pc \in {"staging", "applying"} =>
                  \A p \in Files : staging[p] \in {NoFile, Torn, Sha[inst[i].rel][p]}
           /\ Working(i) /\ fd[i].at = "app" /\ fd[i].path = VersionPy =>
                  Covers(inst[i].rel, {VersionPy})

SessionInv == ListsFromManifests /\ OneSession /\ ListsCoverTree

-----------------------------------------------------------------------------
(* Progress.                                                               *)

\* A step that fails although it could have been done.
NeedlessFailure ==
    \/ \E c \in Checks : FetchFail(c) /\ \E s \in SourcesOf(channel) : published[s] # 0
    \/ \E i \in Installers :
          \/ StageFail(i) \/ RestartFail(i)
          \/ ApplyFail(i) /\ \A p \in inst[i].left : staging[p] # NoFile

\* Threads and the launcher loop are scheduled; the user keeps asking for
\* updates and sometimes accepts; failures of the network and the card end.
Fairness ==
    /\ WF_vars(StartApp) /\ WF_vars(ExitApp)
    /\ \A c \in Checks : WF_vars(FetchOk(c)) /\ WF_vars(Rule(c)) /\ WF_vars(Scan(c))
                           /\ WF_vars(OpenModal(c))
    /\ \A i \in Installers : WF_vars(InstallStep(i))
    /\ SF_vars(\E c \in ManualChecks : StartManualCheck(c))
    /\ SF_vars(\E i \in Installers : ChooseInstall(i))
    /\ <>[][~NeedlessFailure]_vars

FairSpec == Spec /\ Fairness

\* No release stays on offer for ever: after any number of failed, interrupted
\* or postponed installs a user who keeps accepting gets it installed, or it is
\* superseded.
EventuallyInstalled ==
    \A r \in Releases :
        []<>~(/\ r \in OnOffer(app[VersionPy], channel, published)
              /\ \A s \in SourcesOf(channel) : published[s] = r)

\* The popup never stays busy: every path of _run_install clears the flag that
\* blocks its input.
PopupComesBack == modal.busy ~> ~modal.busy
=============================================================================
