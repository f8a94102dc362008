# Verification of trimui-chiaki-ng

TLA+ models, TLC runs and TLAPS proofs kept beside the code of
`trimui-chiaki-ng`, a PlayStation remote-play client for TrimUI handhelds: a
Python/SDL application with an over-the-air updater, a Go Bluetooth backend that
turns the handheld into a gamepad, native C programs that stream, and the shell
scripts that hold them together.  Paths below are relative to the repository.

Contents: [the system](#the-system) · [modules](#the-modules) ·
[runs](#the-runs) · [fairness](#fairness) · [proofs](#the-proofs) ·
[disagreements found](#disagreements-between-code-and-claims) ·
[not modelled](#what-is-not-modelled) · [plan](#plan)

## The system

`files/launch.sh` runs `files/app.py` in a loop.  The app ends to let the
launcher run a stream or restart it after an update.  It starts daemon threads
for updates, scans, pairing and diagnostics, and one child, the shell
`files/bluetooth-session.sh`, which in turn runs the backend `brick-pro-bt`
(`bluetooth-native/`) three ways: `--guard`, `--run`, `--recover`.

| component | state | operations | interacts by |
|---|---|---|---|
| OTA updater (`rh/updater.py`, `rh/modals/update.py`, `rh/screens/home.py`) | installed tree, staging directory, skipped versions; popup fields; threads | check, rule, hash, popup, stage, apply, remove, restart | one popup object and one staging directory shared by all threads; GitHub; the launcher |
| HID server (`server_linux.go`) | two channels, two bounded queues, peer, suspended flag, timers, status file | poll turn: input, accept, receive, timers, flush, resend; close | L2CAP sockets, BlueZ events, status file read by the app |
| Radio lease (`radio_linux.go`, `main_linux.go`) | stock service, own daemon, recovery marker, `restoreNeeded` | take the stock Bluetooth service over, give it back, recover | init scripts, D-Bus, the marker file |
| Session supervisor (`bluetooth-session.sh`, `rh/bluetooth_gamepad.py`) | Wi-Fi state, child processes, session directory | start, stop, clean-up, app crash and relaunch | signals, files in the session directory |
| Exit guard (`guard_linux.go`) | pressed buttons, gesture timer | report ready, cancel | cancel file |
| Diagnostics (`rh/log_uploader.py`) | queue of reasons, history file, two locks | raise, send, clear, retry at start and exit | `.pending_crash`, the logs, HTTPS relay |
| Launcher (`launch.sh`, `app.py`) | where its loop is, `/tmp/launch_game.sh` | run the app, the stream, the uploader; mark a crash | exit codes, `.pending_crash` |
| Issue relay (`deploy/issue-relay`) | remembered reports, rate limit | create an issue, recognise a duplicate | HTTPS, GitHub |
| Pairing and credentials (`rh/screens/pair.py`, `rh/state.py`, `rh/chiaki.py`) | `settings.json`, `paired_hosts.json`, screen fields | register in a thread, save twice, look keys up | engine's screen stack |
| Screens and modals (`rh/engine.py`, `rh/screens/`, `rh/modals/`) | stack of screens, active modal, quit flag | push, pop, open, close, one handler per screen and modal | called from the loop and from threads |
| Home scan (`rh/screens/home.py`, `rh/chiaki.py`) | host list, selected index, `scanning` | start, finish, late answers | threads against UI loop |
| Logger (`rh/logger.py`, `launch.sh`) | log, backups, the handler's file, descriptor 2 | write, rotate, clear, cap | two writers of one file; the uploader reads it |
| Button test (`rh/pad_probe.py`, `rh/screens/button_test.py`) | keys down, lines, the gesture's clock, the saved log | read events, close a line, save, leave | the pad's event queue, the loop |
| Native player (`native/chiaki-stream.c`) | `running`, `exit_code`, `frame_ready`, audio device | main loop, library callbacks | atomics shared with callback threads |
| Settings, gamepad map, versions | one file each | load, save, parse | read by other components |

### What is hard, and what makes each part correct

*Updater.*  Nothing stops a second check while an install runs, all threads
share one popup and one staging directory, and power may go between any two
renames.  It is right when a visible new `version.py` means that no file of an
older release is left beside it, when a mixed tree is always offered an update
again, when a half-written file is never installed, when the version that starts
never goes back and a stable user never gets a prerelease, and when the popup
does not stay busy.

*HID server.*  Two channels open in any order from several phones; a phone stops
reading, suspends, resumes, vanishes; four timers; a full queue drops the link
inside any handler.  It is right when one phone owns both channels and gets
nothing meant for another, when the last report it will be sent is the state of
the pad, when a suspended phone is left alone, and when no button stays down
after the session.

*Radio lease and session.*  The stock Bluetooth service has to be stopped for the
session and started again after *every* way out of it: errors, signals, kills at
time limits, crashes of the app.  It is right when the service is never down
without a marker that says so, when worker and recovery of a session never
overlap, when no worker outlives its shell, and when Wi-Fi comes back.

*Diagnostics.*  Threads of the app and the launcher's own process send from one
queue file, to a relay that may act without being heard; the app is left, or
loses its power, at any step, and the owner may delete the logs meanwhile.  It is
right when nothing leaves the queue unreported, when a crash stays marked and its
lines stay in the log until there is an issue, and when the queue drains.

*Screens.*  The loop reads the top of the stack several times in a frame, while a
scan replaces the host list, workers of an older scan extend it, an update check
opens a popup, and a registration pops a screen a second after it is done.  They
are right when the selected host is one of the list and when each way out of a
screen pops that screen, so that the home screen stays below all others.

*Pairing.*  One screen object, threads that outlive a visit to it, two files
written one after the other, writes and reads that fail, an app that ends at any
step.  It is right when a reported success is what the next stream starts with,
until the user pairs again, and when every attempt ends and lets another begin.

*Logger.*  The handler renames and reopens a file that the process also has as
its standard error, and any of these calls may fail on a card.  It is right when
rotation loses old lines only, and in order, and when error output stays where
reports look for it.

*Button test.*  Lines are identified by their number, and the keys of the way out
are also keys under test.  It is right when a line once closed is never moved or
removed, when leaving saves all lines, and when the way out works.

The hazards behind these properties are listed with their lines in
`PROJECT.json`, as many as it holds; those of the HID server's descriptors and
event buffer, of a script that outlives its time limit, of the adapter's
properties and of the player are described under [not
modelled](#what-is-not-modelled).

## The modules

| module | models | lines it rests on |
|---|---|---|
| `OtaUpdate` | the updater | `updater.py`, `modals/update.py`, `screens/home.py` |
| `OtaUpdateProofs` | theorems about it | |
| `HidServer` | one HID session from loop to close | `server_linux.go`, `hid.go`, `input_linux.go` |
| `HidServerProofs` | theorems about it | |
| `RadioLoan` | abstract: service down only while owed | what `radio_test.go` and the docs promise |
| `RadioLease` | worker and recovery processes | `radio_linux.go`, `main_linux.go` |
| `BtSession` | `RadioLease` composed with shell and app | `bluetooth-session.sh`, `bluetooth_gamepad.py` |
| `BtSessionProofs` | theorems about both, refinement of `RadioLoan` | |
| `DiagQueue` | queue, uploaders, launcher loop, relay | `log_uploader.py`, `launch.sh`, `app.py`, `logger.py`, `worker.js` |
| `DiagQueueProofs` | theorems about it | |
| `Screens` | loop, stack, modals, home scan, all handlers | `engine.py`, `screens/*.py`, `modals/*.py`, `inputs.py`, `chiaki.py`, `app.py` |
| `ScreensProofs` | theorems about it | |
| `Pairing` | registration threads, two stores, choice of credentials | `pair.py`, `state.py`, `chiaki.py`, `ps4_regist.py`, `home.py` |
| `PairingProofs` | theorems about it | |
| `Logger` | error log, rotation, standard error | `logger.py`, `launch.sh` |
| `LoggerProofs` | theorems about it | |
| `PadProbe` | button test and its recorder | `pad_probe.py`, `button_test.py` |
| `PadProbeProofs` | theorems about it | |
| `MC*` | constants for TLC | |

### OtaUpdate

State: the installed tree `app` and `staging` map paths to contents, a content
being the release that last changed the file, so a hash match is an equality, or
`Torn`: truncated or not written to its end.
`chk` are the check threads of the home screen, `modal` is the one
`UpdateModal`, `inst` its install threads and `fd` the staged file each of them has
open, wherever that file has been moved since.  `published` is what each of the
three sources (latest Release, main branch, beta) serves.

Actions: `FetchOk`/`FetchFail`, `Rule`, `Scan` (one file), `OpenModal` for a
check; `ChooseInstall`, `ChooseLater`, `ChooseSkip` for the user; `Begin`,
`ClearStaging`, `OpenStaged` (the file is truncated), `WriteStaged` (written and
synced), `ApplyFile` (one rename), `RemoveFile`, `FinishApply`, `RestartOk` and
their failures for an install.  A second thread may truncate a file the first one
is writing, mix its bytes with it, move it into the tree or delete it; the writer
goes on with the file it opened.  `StopApp` ends the process between any two steps
and keeps only what is on the card.

Abstractions.  The order of a manifest is any order, `version.py` last, which
`apply_update` enforces.  Opening the popup, and reading its fields when the
thread begins, are one step each: the GIL may split them, but the fields are set
in a block without I/O.  `rmtree` and `makedirs` of the staging directory are one
step, though a second thread could stage a file between them; so is a write with
its sync.  A
manifest is assumed to list what `tools/make_release.py` writes: every file of
the release, `version.py` among them, none also removed.  `SteadyOffer` says
that no second release comes on offer while a session of the updater is open.
`SessionInv`, `VersionLast` and `MixedTreeIsOffered` need it; without it `VersionLast`
fails (see [disagreements](#disagreements-between-code-and-claims)).  The other
properties are checked, and proved, without it.

### HidServer

One goroutine.  `stage` and `ch` say where in its turn `hidServer.loop` is; each
stage is one step per packet, connection or queue operation, so that a handler
that drops the link is followed by the rest of the turn.  What a system call or
a D-Bus call returns is chosen when the stage runs.  Each timer of the code is a
flag that time may set between two stages (`old` packets, `resendDue`, `late`,
`stall`, `windowOver`), so the orders in which they run out are all covered.
The phone (`reading`, `shown`) is external: it takes packets or not.

The status file has three writers: the server ("waiting", "connected"), the clean-up
of `runSession`, which writes "restoring" before `close` flushes the last packet with
both channels open, and the shell, which writes its reason ("stopping", one value for
all three) before it sends the signal (`ShellStops`, at any moment).  So the file may
say less than there is, never more: `StatusTellsTruth`.

Abstractions.  A report is an identifier, all that the pad does is `Emit`; the
content of a reply on the control channel is the report, since only its place in
the queue matters.  The buffer of eight BlueZ events and the reuse of a
descriptor number within one turn are left out (both are listed hazards).
`lost` and `linked` are history variables for the properties.

### RadioLoan, RadioLease, BtSession

`RadioLoan` is what the stock system is promised: taking the service down needs
a written debt, and the debt is forgotten only when the service is up.
`RadioLease` has per session a worker (`runSession`: ensure, bind, write the
marker, stop the service, own daemon, serve, and back) and a recovery
(`--recover`).  A service script is one step that may fail with or without its
effect; a killed worker may leave a script running, which then has its effect at
the kill.  `owed <- marker # {}` is the refinement mapping.

`BtSession` extends it: `sup` is where each session's shell is, `term` the
shells with a SIGTERM pending, `saved` those that have to bring Wi-Fi up;
`app`/`cur` are the screen's `BluetoothGamepadSession`.  Worker steps are those
of `RadioLease`, and `LeaseUsedAsAgreed` checks that the shell drives them the
way `RadioLease` takes for granted, so everything proved of `LeaseSpec` holds of
the sessions while no directory is removed.

Constants choose the misfortunes: `StartFails` (starting the stock service may
fail), `Crashes` (of the app), `Hurries` (a SIGTERM or SIGKILL that reaches a
shell in its clean-up), `Kills` (a worker outlives `stop_child`'s four seconds),
`Orphans` (the shell is killed from outside, counted as a hurry).  The guard is
only seen through the shell: it reports, fails, cancels or is lost at any time.
`stop` kills after 20 s, when the two `stop_child` of four seconds are over, so
`StopKills` finds the shell at its last step.  The stock daemon's input plugin
holds the HID channels, so `bind` fails while the service is up.  Every start
makes a fresh directory.  A reboot, which starts the stock service by itself, is
not modelled.

### DiagQueue

State: `marked`/`reasons` are `.pending_crash`, which the launcher only touches
(no reasons) and `queue_diagnostic` fills; `up` are the uploaders, one per thread
of the app and `Cli`, the launcher's process; `relay` the requests at the other
end, which go on when nobody waits for the answer (`by = "nobody"`); `sh` and
`game` the launcher loop.  An upload is `ReadQueue`, `Collect`, `Post`,
`Accepted`, `Record`, `Clear` (or `ClearDuplicate`), with the app free to end between any two.

Abstractions.  `Without`, what `_clear_uploaded_reasons` keeps of the list, is a recursive
function.  The text of the logs is not modelled.  A fingerprint hashes the
report's reasons and the tail of the logs, so two reports have the same one when
their names are equal and no line was logged between them: a report is `current`
until the next line, and `Logs` is part of every action that logs one.  A report
tells of what it names and of the crash it was made after (`Telling`), not of what
happens later, be it the same reason or a crash once more (`LogsNew`).  More is not
claimed: it has the last 24000 bytes of each log (`log_uploader.py:120`), and
rotation (`logger.py:114`) and the cap of the runtime log (`launch.sh:139`) may have
taken the lines of a crash before a retry succeeds.  Two crashes before an issue are
one: a report made after both tells of both.  The relay handles a request
in one step per outcome; a rate limit, a rejected payload and a GitHub error are
one refusal.  An upload is configured and the logs are readable.  An app killed
without having logged a line is left out.  `due` and `lost` are history
variables.

### Screens

`pc` is where the loop of `ChiakiEngine.run` is: poll, the modal's or the
screen's handler, the screen's `update`, render.  `current_screen` is read again
at each of them, so threads act in between (`NoScreen` is the exception that an
empty stack raises).  `Inputs` is any set of keys of one frame; `Pressed` takes the
first of a handler's `if` chain.  Threads: `ScanFound`, `ScanDone`, `LateAnswer`
(a worker of `discovery_broadcast` waits for up to 6.2 s, and is waited for 3.5),
`CheckEnds`, `InstallEnds`, `PairAnswers`, `PairPops`.  `given` is the modal the loop
found, which gets the keys although a thread may have put the popup in its place.
`left` and `latePop` are history variables.

Abstractions.  Hosts are counted.  The selected row of a menu is any row.  What a
registration stores is `Pairing`'s, how the button test leaves is `PadProbe`'s,
how the Bluetooth session ends is `BtSession`'s; the popup's threads are
`OtaUpdate`'s, here only their effect on modal and quit flag.  One registration
thread at a time here, several in `Pairing`.

### Pairing

`screen` is `PairScreen.host`, which a thread reads when it uses it; `pc`,
`asked`, `info`, `paired` are a thread's position and locals in `_do_pair`; `mem`
the fields of `state`, `settings` and `hosts` the two files.  A thread goes through
`Search`, `Request`, `SetAddr`, `SetKeys`, `Save`, `ReadList`, `ReplaceList`,
`PopScreen`, or `Fail`; the app may end between any two, and any other
`save_settings` of the app (`SaveElsewhere`) may come between them.
`Credentials` is what `prepare_stream_launch` takes, from a list that it could read
or, silently, from none.

Abstractions.  The list of paired hosts has one entry per console
(`Replaced` is the filter and append of `pair.py`), so it is a function of the
consoles.  An answer is a key nobody else has, with the target of the host as some scan found
it, before or after an upgrade of the console;
writing a file and putting it in place is one step, since it is renamed at the
end.  The PS5 is switched off.  `done` remembers what a success obtained, and
gives up where the code is known not to keep it: a list that a thread cannot read is
replaced (`pair.py:204`), which loses the other consoles, and a screen entered again
while a thread runs (`pair.py:43`, 189) mixes two consoles, so that nothing is claimed
of any until the next success.

### Logger

`name` maps the log and its backups to files and `data` files to lines; `fh` is
the handler's file with its mode and position, `err` that of descriptor 2.
`_rotate` is one step under its lock whose parts fail one by one (`Failures`).
A file opened for writing is written at the handler's own position, over what
another descriptor has put there.  `Start` is `launch.sh` and `init_logger`.
Every line has the length of one unit and is known by the number it has in the
order of writing; `run.own` and `run.others` say which of them the handler and
the other writers of this run of the app wrote.

### PadProbe

A finger presses, holds and releases keys, the kernel queues events, `ReadEvent`
is one turn of the loop in `poll`, `EndFrame` the rest of `update`; a device that is lost
(`DeviceLost`) takes what was not read with it, and `poll` still closes the open line.  Clocks count
ticks up to their limits.  `write_log` empties the file first, so a failed write
leaves nothing.

## The runs

| run | instance | shows |
|---|---|---|
| `ota_race` | a prerelease and a stable release at the main branch and the beta source, 2 files, 2 checks, 2 install threads, 1 stop; the offer changes between sessions | `TypeOK`, the inductive `SessionInv`, `VersionLast`, `MixedTreeIsOffered`: two installs race over popup and staging, truncate and move each other's files, and `version.py` is still last |
| `ota_live` | the same releases, the second removes a file; manual check, 1 install thread, 1 stop; the offer changes at any time | `NothingTorn`, `StableStaysStable`, `NeverDowngrades`, `EventuallyInstalled`, `PopupComesBack` |
| `hid_peers` | 2 paired phones and a stranger, queue of 2, all control transactions | `TypeOK`, `OnePhone`, `StatusTellsTruth` |
| `hid_reports` | 1 phone, queue of 3, transactions that change the link | `QuietWhileSuspended`, `PhoneCatchesUp`, `ReleasedOnExit`, `EventuallyShown`, `HalfLinkEnds` |
| `radio_lease` | 3 overlapping sessions, kills, failing scripts | `LeaseIsHeld`, `DebtIsKept`, refinement `LoanKept` (the types are part of `TypeOK` of `bt_session`) |
| `bt_session` | 2 sessions, a crash, a hurry or a killed shell, kills, failing scripts | `TypeOK`, `LeaseUsedAsAgreed`, `WorkerKeepsLease`, `SessionsDoNotOverlap`, `WifiReturned`, `DebtIsSettled`, `OrphanEnds` |
| `diag_queue` | 3 reasons, queue of 2, 2 threads and the launcher's uploader, 1 request at the relay, 1 failure | `TypeOK`, `CrashKeepsMark`, `EntriesLeaveReported`, `QueueDrains` |
| `screens` | 2 hosts, 2 keys in a frame, 1 check and 1 install at a time | `SelectionIsTaken`: only a scan that replaces a list made longer by late answers can take the selected host away; `HomeIsBottom` |
| `screens_pop` | the same | violates `HomeStays` |
| `pairing` | 2 consoles, 2 threads, 2 answers, 1 failure | `ReportedKeyIsUsed`, `PairingEnds` |
| `logger` | 2 backups, files of 1 line, 7 lines, 1 failing operation | `NewestLinesKept`, `ErrorOutputKept` |
| `pad_probe` | 1 button and the 3 keys of the ways out, 2 presses, repeats while there are fewer than 2 lines, 2 events in the queue | `LinesAreKept`, `SavedOnLeave`, `MenuLeaves` |

Every property of a passing run has a mutant in `PROJECT.json`: a plausible bug
in one definition under which TLC finds the property violated.  The mutated
operators stand before the definitions they change, marked "mutant".

**Bounds, and why they are enough.**
*OTA*: the hazards are races between two threads over three shared objects; two
checks and two installs give every pair, one stop gives a crash at every step
followed by a whole new session.  `Publishing` leaves out GitHub's latest Release
there: under `SteadyOffer` the stable channel has one release to offer, from
whichever source; the three sources side by side are `ota_live`'s.
`version.py` and one other file, which changes or is removed, are the two sides of every order of writes and renames.  `ota_live` has one install thread: two
may clear each other's staging directory for ever, and what they may do to a torn
file is `ota_race`'s.  It has one check thread: a second would only reopen the
popup.  `EventuallyInstalled` says *that every source of the channel serves the
release* for ever, or it is not on offer: with two releases a fetch that keeps
alternating with the main branch starves one of them, which no fairness the code
offers rules out.  Nothing in the repository's release tool writes a `remove` list
today, so removals are covered before they are used.
*HID*: a queue of two or three packets instead of 64 fills up in every way; two
paired phones are enough for a mix of channels, a third address is the one that
is refused; two reports tell the neutral from a pressed pad.  Sessions are
symmetric in the phones.
*Radio*: a debt can be lost when one process settles while another takes the
service down, so two sessions are needed; the third adds a bystander.
*Session*: an old session whose shell still works and the new one; one crash,
one hurry.  A second crash only repeats the first with other names.
*Diagnostics*: three reasons overflow a queue of two, as nine do one of eight;
two threads and the launcher give an uploader that sends, one that waits and one
left over; one failure (a lost answer, a refusal, a failed write, a restart or a
power loss) meets every step of the others.
*Screens*: the stack is not bounded, its reachable height is that of the menus;
two hosts tell a selection that exists from one that does not, and a longer list from a shorter; two keys in a
frame are what a handler's `if` chain decides between.
*Pairing*: an older thread and a newer one, with one console each; two answers
make an old and a new key; one failure meets every step of both threads.
*Logger*: enough lines to rotate the oldest backup out; one failing operation in
any of its calls.
*Button test*: two presses are both keys of a way out, or one line and MENU; a
repeated code gives a second line; a cooldown of one tick and a hold of two make
every order of the two clocks; every frame with a line saves, as it does after
the 120th.

## Fairness

*OTA* (`ota_live`): threads and the launcher loop run (weak fairness of each
step of a check and of an install, of starting and leaving the app); the user
keeps asking for updates and sometimes accepts (strong fairness, since the menu
and the popup are not always there); failures of network and card cease
(`<>[][~NeedlessFailure]_vars`), without which no update can be promised.
Postponing, skipping and switching channels stay possible for ever.
*HID*: `poll` waits at most 8 ms, so the loop goes round (weak fairness of each
unconditional stage and of a turn), and time passes (weak fairness of each
timer).  Nothing is assumed of the phone; `EventuallyShown` has what it needs
from it as its hypothesis.
*Diagnostics* (`diag_queue`): uploaders, the relay and the launcher's loop go on
(weak fairness of each), and the owner goes on opening and leaving the app (weak
fairness of `Owner`), because nothing but a start or an end of the app retries.
*Pairing* (`pairing`): a registration thread goes on as long as the app runs (weak
fairness of each thread): its sockets have time limits.
*Button test* (`pad_probe`): the loop calls `update` every 16 ms and time passes
(weak fairness of the end of a frame, since `poll` reads sixteen times at most, and
of a tick); nothing is assumed of the finger or the firmware.
*Session*: the shell polls, scripts run under time limits, `stop_child` gives up
after four seconds, a worker that was asked to stop has a cancelled context, and
it looks for its parent every 250 ms.  Nothing is assumed of a worker that was
not asked, of the daemon, the guard, the user or the app.

## The proofs

TLAPS checks the following for every value of the constants, from the named
assumptions `OtaAssumption`, `LeaseAssumption`, `BtAssumption`, `DiagAssumption`,
`ScreensAssumption`, `HidAssumption`, `PadAssumption`, `PairingAssumption` and
`LoggerAssumption` only.  Every invariant and action property that a run checks is
a theorem, and so is the refinement.

**OtaUpdateProofs.**  For any releases, files, number of checks and install
threads and number of stops.  `TypeCorrect` is inductive alone.  The others rest
on one invariant each.  Under `SteadyOffer`, `SessionInv`: `ListsFromManifests`
(every list in use is a part of a published manifest), `OneSession` (at most one
release is on offer and everything alive works for it) and `ListsCoverTree` (what a
check found, a popup holds or a thread has left to do covers every file that is
neither right nor torn).  The last is what makes stale lists harmless: hashes taken
before other threads worked can only name too many files.  When `version.py` is
renamed the thread's list is `{version.py}`, and when a thread writes a
`version.py` that another one moved, the other's list was (`OpenInTree`): either
way no other listed file is another release's, `VersionLastHolds`;
`MixedTreeIsOfferedHolds` follows.  The rest needs no `SteadyOffer`.
`NeverDowngradesHolds` rests on `ForwardInv`: everything alive works for a release
above `APP_VERSION`, and `version.py`, in the tree and staged, is above it or torn.
`NothingTornHolds` is for one install thread at a time (`WholeInv`: the only open
file is the thread's own, in the staging directory).  `StableHolds` rests on
`StableInv`, by which every release that a thread, the popup, the staging directory
or the process knows is stable as long as the beta channel was never chosen.

**BtSessionProofs, the lease.**  For any number of overlapping sessions.  The invariant is
`LeaseTypeOK /\ LeaseIsHeld /\ LeaseIsLate /\ DebtIsKept`, where `LeaseIsLate`
says a worker that has not reached the switch has no lease.  `LoanIsKept` is the
refinement: initial states map to initial states and each step to `Borrow`,
`Take`, `Return`, `Settle` or a stutter; `DebtIsKept` is what makes a removed
marker a `Settle`.

**BtSessionProofs, the session.**  For any number of sessions, crashes and hurries.
`BaseInv` (types, and the order in which shell, worker, recovery and app move)
holds on every path and gives `BtTypes` and `LeaseUse`.  `BtInv` adds
`WorkerKeepsLease`, `CleanEnds` (unhurried, a shell that ended left nothing
running and Wi-Fi has someone to restore it) and `OneSession`, and gives
`WorkerAlwaysKeepsLease`, `NoOverlap` and `WifiComesBack`.

**DiagQueueProofs.**  For any number of reasons, uploaders, requests and
failures.  `CrashStaysMarked` (marked until an issue made after the crash exists, the logs not
deleted by the user before) rests on `MarkInv`: uploaders work only where the
launcher's loop lets them (`WhoRuns`), a request that is waited for carries the
report of the one that waits (`WhoWaits`), and wherever something takes for
granted that there is an issue (the history, the relay's memory, an uploader
after its answer, a screen about to delete the logs) the crash is not owed
(`CrashIsTold`).  The two others rest on `QueueInv`.  `EntriesAreReported` needs that
nothing an uploader took and its report tells of is still owed once an answer
says so, which rests on the request carrying that very report, and that what the
history or the relay remembers is owed to nobody (`ToldInv`): only
then is every entry that `Without` drops one that an issue has, or one raised again
since.  `QueueTypes`
needs that a list without some of its entries still has no entry twice and is no
longer than it was (`WithoutFacts`), an induction over the list.

**ScreensProofs.**  For any number of hosts, keys in a frame and checks.
`ScreensTypes` is inductive alone.  `ConsoleSelected` rests on `ListInv`: a scan
starts from the menu, so a list that is there before it ends was made by late answers
to an older one.  Keys, late answers and the way back to the menu keep the selected
host in the list (`ListKeys`); only such a scan, with fewer hosts, does not.  `HomeStaysAtBottom` rests on `StackInv`:
the home screen is at the bottom *and nowhere else*, so no handler but home's own
acts on it and that one never pops; and a registration whose screen was not left
has that screen on top, so its pop is the right one.  It speaks of the states before
a pop comes late.  Both exceptions are real (see the next section).

**HidServerProofs.**  For any phones, reports, control transactions and a queue
limit of at least two.  `IInv` holds of the link in two forms.  Until close runs
it *serves* (`Serving`): besides `OnePhone` and a status that is "connected" or the
shell's on a complete link, an interrupt
channel that still waits for the control channel has an empty queue.  That is why
`accept`, which queues two reports and then writes "connected" without looking,
never writes it over a link that its own queueing dropped; with a limit of one
packet it would, so `QueueCap >= 2` is needed.  Every step that queues ends the
queue with the current report or drops the link (`QueueServes`, `AcceptedServes`,
`HandledServes`), which gives `CatchesUp`.  Once close runs, no packet grows old
and the last is neutral (`ReleasingFacts`), which gives `ExitReleases`, and the status
is no longer "connected" and cannot become so, which with `Serving` gives
`StatusIsTrue`.

**PadProbeProofs.**  For any keys, clocks and limits (`RepeatLimit`, the bound on
the firmware's repeats, included).  `ClosedLinesStay` rests on types and on a line being
open only if there is one: all that `DropExitLine` may take is the open line.
`LeavingSaves` rests on `SaveInv`: without a closed line the file is empty
(`EmptyLog`), because a frame writes lines only after closing them; otherwise a
line could be saved, dropped for the gesture, and stay in the file of an empty log,
which `_save` does not write.

**PairingProofs.**  For any number of consoles, threads, registrations and
failures.  `SuccessIsUsed` rests on `Listed` (a reported success is in the list of
hosts, with a key) and on `Alone`: as long as no screen was entered over an older
thread, the thread that runs is the only one, what it asked, was answered and has
put in memory is that of the screen's console, and the list it read has everything
reported before (`ThreadHas`).  That is what `ReplaceList` needs, which puts the
whole list back.  For a list that cannot be read when a stream is prepared it rests on
`Ahead`: keys are numbered as they are given out, and neither memory nor
`settings.json` has one older than a reported one.  All of it is about consoles for
which nothing was given up.  `KeysHaveOwners` is `KeyOwner` with its one exception (see
the next section), and shows there is no other; it is about the list of hosts, not
about `settings.json`.

**LoggerProofs.**  For any number and size of backups, any number of lines and
failures.  `_rotate` is a loop that stops in the middle of nothing: whichever calls
fail, a file moves by at most one name (`ShiftedFacts`); where another call failed it
may replace the file that has stayed there, and the lines that are left keep their order (`ShiftedOrdered`); the second writer never comes between
them because a line of the handler goes to the end of the log, or, in a log opened
for writing, behind the last line of its own (`Placed`).  `NewestAreKept` rests on
`KeptInv`: a line of the run is behind files that only the run writes, each full,
or has fallen off their end.  It is inductive only with the order: the line that
falls off in a rotation is older than all others because of it (`RotateKept`).
`ErrorsAreKept` rests on `ErrInv`: until a rotation the log is the file of
descriptor 2 and the handler appends to it.

Loops and filters are recursive functions, and what is proved of them by induction
takes the numbers that satisfy a statement as a set (`Induction`, from the
well-foundedness of the naturals, which needs no operator as a parameter); that a
recursive function is what its definition says is proved first (`TurnsExist`,
`WithoutIsKept`).

Only model-checked: liveness (`EventuallyInstalled`, `PopupComesBack`,
`EventuallyShown`, `HalfLinkEnds`, `DebtIsSettled`, `OrphanEnds`, `QueueDrains`,
`PairingEnds`, `MenuLeaves`), which is out of the prover's reach.

## Disagreements between code and claims

The run `screens_pop` ends in a counterexample to what the pairing screen says of
itself: B leaves it at any time (`pair.py:60`, `i18n.py:201`), but a second after
a success the thread pops whatever is on top (`pair.py:230`).  B pressed within
that second makes it pop the home screen: the stack is empty, the loop has nobody
to give a key to, and only `SDL_QUIT` ends the app.

The modules keep more statements of this kind, each with the line it comes from.
TLC finds these violated with the instances named; they are not part of the runs:

* `OtaUpdate!InterruptedIsOffered` (the instance of `ota_race`): two install threads
  share `.update_staging`.  One truncates the staged `version.py`, the other moves it
  into the tree, the power goes: `version.py` is torn, and the application does not
  start, although an interrupted update "keeps the old version" (`updater.py:386`,
  452, 482).
* `OtaUpdate!VersionLast`, when the offer may change in a session: with two releases
  in one session (the stable source falls back to the main branch) a popup opened
  over a running install, or a list that is never recomputed, makes `version.py`
  visible before its release is complete (`updater.py:467`).
* `OtaUpdate!TreeNeverGoesBack` (the instance of `ota_live`): after an install whose
  restart failed `APP_VERSION` is still the old one (`updater.py:407`), so a release
  below the one in the tree is offered and installed over it.  What starts next is
  newer than what started before (`NeverDowngrades`), but older than what was
  installed.
* `HidServer!DeadPeerIsDropped` (one phone, queue of 2): `trackStall` forgets the stall in each turn that sheds
  nothing, so a phone that never reads again is kept when the pad rests
  (`server_linux.go:75`, 320).
* `BtSession!NextRunRecovers` (2 sessions, a crash): a fresh directory per start means the next session never sees
  the marker of a crashed one (`docs/BLUETOOTH_GAMEPAD.md:470`).
* `BtSession!WifiAlwaysReturned` (2 sessions, a hurry): `cleanup` resets the traps first, so a SIGTERM in it leaves Wi-Fi
  down (`docs/BLUETOOTH_GAMEPAD.md:468`).
* `DiagQueue!RetryIsDeduped` (2 reasons, 2 requests, a failure): the log is part of a fingerprint and every start, end and failed
  upload logs a line, so the retry of a report that was sent makes a second issue
  (`docs/NEW_SESSION_HANDOFF.md:256`).
* `DiagQueue!RaisedIsReported` (the instance of `diag_queue`): a reason raised again between the
  collecting of its report and the clearing is the same entry, so the clearing takes
  it with nothing sent of it, although `queue_diagnostic` says it "keeps it pending
  until confirmed" (`log_uploader.py:341`, 315).
* `Screens!SelectedExists` (the instance of `screens`): a scan finds nothing in time; a
  second one runs while two late answers to the first fill the list and the user
  moves to the second host; the second scan ends with one host.  The footer and the
  next key raise `IndexError` and the app ends (`home.py:81-83`, 106, 168-178).
* `Pairing!KeyOwner` (the instance of `pairing`): the thread reads `self.host`
  again after the registration (`pair.py:189`), and entering the screen for
  another console meanwhile stores one console's keys under the other's address.
* `Pairing!StateOwner` (the same): the address is stored before the keys
  (`pair.py:189-193`), and `save_settings` of another screen between them leaves one
  console's keys with the other's address in `settings.json`.
* `Pairing!StreamKeyIsReported` (the same): a list that cannot be read is passed over in
  silence (`chiaki.py:111-112`).  If the last registration ended before its entry was
  written, the stream starts with a key whose pairing was never reported, from the
  settings.
* `PadProbe!OneLinePerPress` (the instance of `pad_probe`): `poll` closes the open line in each
  frame, so a held button whose code the firmware repeats gets a line for every
  cooldown that passes, although "each numbered line is one physical press"
  (`pad_probe.py:405`).
* `PadProbe!ExitIsNotRecorded` (the instance of `pad_probe`): with START and SELECT
  in different frames the first is recorded as a press (`pad_probe.py:26`).

Six statements more are in the modules, violated too, each by a short path that is
plain from the code.  `LeftoversAreOffered`: a stop between the rename of `version.py` and
the removals leaves them undone; latent while `remove` is empty.
`StallMeansUnread`: the clock of a stall also runs in turns that deliver.
`NeutralFirst`: the neutral report of a new link may be shed before it is sent.
`WindowNeedsLink`: a half link when the window ends counts as a link.
`MarkerKeptUntilRestored`: a directory is removed with the marker of a recovery
that failed.  `PendingKeepsLog`: `clear_runtime_logs` looks for a pending report
and deletes afterwards, without the queue's lock: a reason raised in between
loses its lines (`logger.py:306`).

Met while reading, too: `button_test.py:106` keeps "quit" as a safe way back, but
the handler only reports it as handled, so without a device the screen has no way
out.  `INSTALL.md:91` says a stream that ended well is reported only when its quality
was poor; `launch.sh:135-137` reports every one.  Because the uploader logs its
own success, the history file matches next to nothing.

## What is not modelled

Drawing, texts and fonts; vendored SDL bindings, libraries and certificates; the
release tools; ciphers and wire formats of registration and discovery; the SDP
record; making a button map of a log's lines and reading it; the values of
settings other than those of a pairing and the update channel.  Time is never
measured, only ordered.  D-Bus, BlueZ, the kernel, the consoles and the phone are
nondeterministic environments.  The app is assumed to run once at a time, as the
launcher does it.

Hazards that no module reaches.  HID: a descriptor number reused within one turn
(`server_linux.go:403`), the buffer of eight BlueZ events (`bluez.go:141`).  Radio:
what a script killed at its time limit left running finishes later
(`radio_linux.go:219`); a property call that timed out but took effect
(`bluez.go:71`); the dying daemon of a killed worker when `--recover` starts the
stock one (`radio_linux.go:237`).  Player (`chiaki-stream.c:253`): the quit
callback, a failed frame and the exit chord set `exit_code` and `running` from
different threads; what the streaming library guarantees of its callbacks is not
in this repository.  Versions (`version.py:53`): `OtaUpdate` takes for granted
that `is_newer` is a strict order.

## Plan

1. `OtaUpdate`, `RadioLoan`, `RadioLease`, `BtSession`, `DiagQueue` with proofs,
   `HidServer` with its runs: done.
2. `Screens` with proofs, `Pairing`, `Logger`, `PadProbe` with their runs: done.
3. Proofs of every safety property the runs check: done.
4. Bounded checks of pure code: `is_newer`, a report's sticks, triggers and hat.

The suite stays at a dozen runs: a new part takes the place of a run that shows a
disagreement, whose statement then stays in its module.
