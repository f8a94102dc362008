------------------------------ MODULE BtSession ------------------------------
(***************************************************************************)
(* A Bluetooth gamepad session as the user starts and leaves it: the       *)
(* screen's BluetoothGamepadSession (files/rh/bluetooth_gamepad.py), the   *)
(* supervising shell files/bluetooth-session.sh, and under it the backend  *)
(* processes of RadioLease.  Every start has a directory of its own.       *)
(*                                                                         *)
(* The exit guard is seen by the shell only: it may report, ask to cancel  *)
(* or be lost at any time.  The app may crash and be started again while   *)
(* the shell of its last session is still at work.                         *)
(***************************************************************************)
EXTENDS RadioLease, Integers

CONSTANTS
    Crashes,    \* how often the app may crash
    Hurries,    \* how often the app may be left while the shell is cleaning up
    Kills,      \* workers may outlive stop_child's four seconds
    Orphans     \* the shell may be killed from outside, which counts as a hurry

ASSUME BtAssumption ==
    /\ Runs = 1 .. Cardinality(Runs) /\ IsFiniteSet(Runs)
    /\ Crashes \in Nat /\ Hurries \in Nat /\ Kills \in BOOLEAN
    /\ Orphans \in BOOLEAN

VARIABLES
    app,        \* "idle", "running", "stopping" or "dead"
    cur,        \* the session the app has the handle and directory of; 0: none
    crashed,    \* crashes so far
    hurried,    \* how often the app did not wait for the clean-up so far
    sup,        \* where the shell of a session is
    term,       \* shells that were sent SIGTERM
    wifi,       \* the Wi-Fi interface is up
    saved       \* sessions that took Wi-Fi down and have to bring it up again

shellVars == <<sup, term, wifi, saved>>
appVars == <<app, cur, crashed, hurried>>
vars == <<leaseVars, shellVars, appVars>>

ShellStates == {"none", "begin", "recover", "guard", "work", "stop",
                "cleanup", "wifi", "last", "dead"}

Init ==
    /\ LeaseInit
    /\ app = "idle" /\ cur = 0 /\ crashed = 0 /\ hurried = 0
    /\ sup = [r \in Runs |-> "none"]
    /\ term = {} /\ wifi = TRUE /\ saved = {}

InShell(r, phase) == sup[r] = phase
ShellAlive(r) == sup[r] \notin {"none", "dead"}
Enter(r, phase) == sup' = [sup EXCEPT ![r] = phase]
Cleaning(r) == sup[r] \in {"cleanup", "wifi", "last"}
AppAlive(r) == app # "dead" /\ cur = r

-----------------------------------------------------------------------------
(* The shell.                                                              *)

\* wifi_save
Begin(r) ==
    /\ InShell(r, "begin")
    /\ saved' = IF wifi THEN saved \cup {r} ELSE saved
    /\ wifi' = FALSE
    /\ Enter(r, "recover")
    /\ UNCHANGED <<term, appVars, leaseVars>>

\* A marker in the session's own directory is recovered first; a recovery that
\* leaves its marker has failed, and ends the session.
RecoverFirst(r) ==
    /\ InShell(r, "recover") /\ RecoveryIdle(r)
    /\ IF recovery[r] = "none" /\ r \in marker
       THEN LaunchRecovery(r) /\ UNCHANGED shellVars
       ELSE /\ Enter(r, IF r \in marker THEN "cleanup" ELSE "guard")
            /\ UNCHANGED <<term, wifi, saved, leaseVars>>
    /\ UNCHANGED appVars

\* The guard is ready: the worker is started.
GuardReady(r) ==
    /\ InShell(r, "guard")
    /\ Launch(r)
    /\ Enter(r, "work")
    /\ UNCHANGED <<term, wifi, saved, appVars>>

\* The guard failed or did not report in time, or the app is gone.
GuardFails(r) ==
    /\ InShell(r, "guard")
    /\ Enter(r, "cleanup")
    /\ UNCHANGED <<term, wifi, saved, appVars, leaseVars>>

WorkerEnded(r) ==
    /\ InShell(r, "work") /\ ~WorkerAlive(r)
    /\ Enter(r, "cleanup")
    /\ UNCHANGED <<term, wifi, saved, appVars, leaseVars>>

\* The cancel file, the guard lost, or the app gone: stop_child.
StopWorker(r) ==
    /\ InShell(r, "work") /\ WorkerAlive(r)
    /\ Ask(r)
    /\ Enter(r, "stop")
    /\ UNCHANGED <<term, wifi, saved, appVars>>

WorkerStopped(r) ==
    /\ InShell(r, "stop") /\ ~WorkerAlive(r)
    /\ Enter(r, "cleanup")
    /\ UNCHANGED <<term, wifi, saved, appVars, leaseVars>>

\* stop_child loses patience
KillWorker(r) ==
    /\ Kills
    /\ sup[r] \in {"stop", "cleanup"} /\ r \in asked
    /\ Kill(r)
    /\ UNCHANGED <<shellVars, appVars>>

\* mutant: no trap
HandleTermUntrapped(r) ==
    /\ r \in term /\ ShellAlive(r)
    /\ Enter(r, "dead")
    /\ term' = term \ {r}
    /\ UNCHANGED <<wifi, saved, appVars, leaseVars>>

\* The trap turns SIGTERM into an exit once the command in the foreground ends;
\* cleanup has put the default action back, and there SIGTERM ends the shell.
HandleTerm(r) ==
    /\ r \in term /\ ShellAlive(r)
    /\ Enter(r, IF Cleaning(r) THEN "dead" ELSE "cleanup")
    /\ InShell(r, "recover") => RecoveryIdle(r)
    /\ UNCHANGED <<wifi, saved, appVars, leaseVars>>
    /\ term' = term \ {r}

\* cleanup: stop_child of a worker that is still there, then of the guard
CleanupAsks(r) ==
    /\ InShell(r, "cleanup")
    /\ Ask(r)
    /\ UNCHANGED <<shellVars, appVars>>

\* mutant: the shell goes on while the worker gives the service back
CleanupNotWaiting(r) ==
    /\ InShell(r, "cleanup")
    /\ Enter(r, "wifi")
    /\ UNCHANGED <<term, wifi, saved, appVars, leaseVars>>

CleanupStopped(r) ==
    /\ InShell(r, "cleanup") /\ ~WorkerAlive(r)
    /\ Enter(r, "wifi")
    /\ UNCHANGED <<term, wifi, saved, appVars, leaseVars>>

RestoreWifi(r) ==
    /\ InShell(r, "wifi")
    /\ wifi' = (wifi \/ r \in saved)
    /\ saved' = saved \ {r}
    /\ Enter(r, "last")
    /\ UNCHANGED <<term, appVars, leaseVars>>

\* The last thing the shell does is --recover, if there is a marker.
LastRecovery(r) ==
    /\ InShell(r, "last")
    /\ r \in marker
    /\ recovery[r] = "none"
    /\ LaunchRecovery(r)
    /\ UNCHANGED <<shellVars, appVars>>

\* mutant: the shell ends without --recover
ShellEndsAtOnce(r) ==
    /\ InShell(r, "last")
    /\ Enter(r, "dead")
    /\ UNCHANGED <<term, wifi, saved, appVars, leaseVars>>

ShellEnds(r) ==
    /\ InShell(r, "last") /\ RecoveryIdle(r)
    /\ r \in marker => recovery[r] = "done"
    /\ Enter(r, "dead")
    /\ UNCHANGED <<term, wifi, saved, appVars, leaseVars>>

-----------------------------------------------------------------------------
(* The app.                                                                *)

\* cleanup_runtime, when there is no process: the directory of the last session
\* is removed, whatever is in it.
Discards(r) == dirs' = dirs \ {r} /\ marker' = marker \ {r}

\* start: cleanup_runtime, a new directory, a new shell
Start ==
    /\ app = "idle"
    /\ cur' \in {r \in Runs : sup[r] = "none" /\ \A o \in Runs : o < r => sup[o] # "none"}
    /\ app' = "running"
    /\ sup' = [sup EXCEPT ![cur'] = "begin"]
    /\ dirs' = (dirs \ {cur}) \cup {cur'}
    /\ marker' = marker \ {cur}
    /\ UNCHANGED <<crashed, hurried, term, wifi, saved, stock, private, worker, leased, asked, recovery>>

\* poll: the shell has ended
Poll ==
    /\ app = "running" /\ ~ShellAlive(cur)
    /\ app' = "idle"
    /\ UNCHANGED <<cur, crashed, hurried, shellVars, leaseVars>>

\* A signal that reaches a shell in cleanup is counted.
Hurry(inCleanup) ==
    /\ inCleanup => hurried < Hurries
    /\ hurried' = IF inCleanup THEN hurried + 1 ELSE hurried

\* stop: SIGTERM to the shell
Stop ==
    /\ app = "running" /\ ShellAlive(cur)
    /\ Hurry(Cleaning(cur))
    /\ app' = "stopping"
    /\ term' = term \cup {cur}
    /\ UNCHANGED <<cur, crashed, sup, wifi, saved, leaseVars>>

Stopped ==
    /\ app = "stopping" /\ ~ShellAlive(cur)
    /\ app' = "idle"
    /\ UNCHANGED <<cur, crashed, hurried, shellVars, leaseVars>>

\* stop after 20 s: SIGKILL.  By then the shell has brought the interface up (its
\* two stop_child take eight seconds) and waits for an address or for --recover.
StopKills ==
    /\ app = "stopping" /\ InShell(cur, "last")
    /\ Hurry(TRUE)
    /\ Enter(cur, "dead")
    /\ app' = "idle"
    /\ UNCHANGED <<cur, crashed, term, wifi, saved, leaseVars>>

\* mutant: the directory is removed under a session that still runs
CloseRunning ==
    /\ cur # 0
    /\ Discards(cur)
    /\ cur' = 0
    /\ UNCHANGED <<app, crashed, hurried, shellVars, stock, private, worker, leased, asked, recovery>>

\* close: the screen is left (or the app ends) with no process
Close ==
    /\ app = "idle" /\ cur # 0
    /\ Discards(cur)
    /\ cur' = 0
    /\ UNCHANGED <<app, crashed, hurried, shellVars, stock, private, worker, leased, asked, recovery>>

Crash ==
    /\ app # "dead" /\ crashed < Crashes
    /\ app' = "dead" /\ crashed' = crashed + 1
    /\ UNCHANGED <<cur, hurried, shellVars, leaseVars>>

\* The app is started again; it knows of no session.
Relaunch ==
    /\ app = "dead"
    /\ app' = "idle" /\ cur' = 0
    /\ UNCHANGED <<crashed, hurried, shellVars, leaseVars>>

\* The shell is killed from outside: no trap, no clean-up.
ShellKilled ==
    /\ Orphans
    /\ Hurry(TRUE)
    /\ \E r \in Runs : ShellAlive(r) /\ Enter(r, "dead")
    /\ UNCHANGED <<app, cur, crashed, term, wifi, saved, leaseVars>>

-----------------------------------------------------------------------------
\* mutant: the worker does not watch its parent
ParentIgnored(r) == FALSE /\ UNCHANGED vars

\* A worker whose shell is gone asks itself to stop (--parent-pid).
ParentLost(r) ==
    /\ InShell(r, "dead")
    /\ Ask(r)
    /\ UNCHANGED <<shellVars, appVars>>

WorkerSteps(r) == WorkerStep(r) /\ UNCHANGED <<shellVars, appVars>>
RecoverySteps(r) == RecoveryStep(r) /\ UNCHANGED <<shellVars, appVars>>
DaemonDies(r) == DaemonExits(r) /\ UNCHANGED <<shellVars, appVars>>

\* A signal that has arrived is handled before the shell's next command.
ShellStep(r) ==
    \/ HandleTerm(r)
    \/ /\ r \notin term
       /\ \/ Begin(r) \/ RecoverFirst(r) \/ GuardReady(r) \/ GuardFails(r)
          \/ WorkerEnded(r) \/ StopWorker(r) \/ WorkerStopped(r)
          \/ CleanupAsks(r) \/ CleanupStopped(r)
          \/ RestoreWifi(r) \/ LastRecovery(r) \/ ShellEnds(r)

AppStep == Start \/ Poll \/ Stop \/ Stopped \/ StopKills \/ Close \/ Crash \/ Relaunch
           \/ ShellKilled

\* Every session of the bound has been used.
NoRunLeft == app = "idle" /\ (\A r \in Runs : InShell(r, "dead")) /\ UNCHANGED vars

Next ==
    \/ AppStep \/ NoRunLeft
    \/ \E r \in Runs :
        \/ ShellStep(r) \/ KillWorker(r) \/ ParentLost(r)
        \/ WorkerSteps(r) \/ RecoverySteps(r) \/ DaemonDies(r)

Spec == Init /\ [][Next]_vars

\* The shell's loops poll, stop_child gives up after four seconds, a worker that
\* was asked to stop has a cancelled context, and scripts run under time limits.
FairSpec ==
    /\ Spec
    /\ \A r \in Runs :
        /\ WF_vars(ShellStep(r)) /\ WF_vars(KillWorker(r)) /\ WF_vars(ParentLost(r))
        /\ WF_vars(r \in asked /\ WorkerSteps(r)) /\ WF_vars(RecoverySteps(r))

-----------------------------------------------------------------------------
(* Properties.                                                             *)

\* Types of the shell's and the app's state.
TypeOK ==
    /\ LeaseTypeOK
    /\ app \in {"idle", "running", "stopping", "dead"}
    /\ cur \in Runs \cup {0} /\ crashed \in 0 .. Crashes /\ hurried \in 0 .. Hurries
    /\ app \in {"running", "stopping"} => cur # 0
    /\ sup \in [Runs -> ShellStates]
    /\ term \subseteq Runs /\ wifi \in BOOLEAN /\ saved \subseteq Runs

\* The shell and the app use the backend as RadioLease takes for granted: worker
\* and recovery of a session never overlap, and only rmtree takes markers away.
ChangesDirs == UNCHANGED <<stock, private, worker, leased, asked, recovery>>
LeaseUsedAsAgreed == [][LeaseNext \/ ChangesDirs]_leaseVars

Busy(r) == ShellAlive(r) \/ WorkerAlive(r) \/ ~RecoveryIdle(r)

\* As long as the app neither crashes nor hurries a shell that cleans up, the
\* processes of two sessions never work at the same time (running, stop_child).
SessionsDoNotOverlap ==
    crashed + hurried = 0 => \A r, o \in Runs : Busy(r) /\ Busy(o) => r = o

\* A worker keeps its marker, and works beside no recovery, whatever else ends.
WorkerKeepsLease == hurried = 0 => LeaseIsHeld

AllShellsEnded == \A r \in Runs : ~ShellAlive(r)

\* Once every shell has ended Wi-Fi is up again, unless one was hurried in its
\* clean-up: crashes of the app, SIGTERM and overlapping sessions included
\* (wifi_save, wifi_restore).
WifiReturned == hurried = 0 /\ AllShellsEnded => wifi

\* docs/BLUETOOTH_GAMEPAD.md:468: wifi_restore runs on every way out of a session.
WifiAlwaysReturned == AllShellsEnded => wifi

\* A session that cleans up with a marker left settles it, by its worker or else
\* by --recover, which gets its turn even if the worker has to be killed.
DebtIsSettled ==
    \A r \in Runs :
        InShell(r, "cleanup") /\ r \in marker
            ~> r \notin marker \/ recovery[r] = "done" \/ hurried > 0

\* A worker does not outlive its shell for good, however the shell ended: it sees
\* that its parent is gone and ends its session by itself (main_linux.go:280).
OrphanEnds == \A r \in Runs : InShell(r, "dead") /\ WorkerAlive(r) ~> ~WorkerAlive(r)

\* radio_test.go:12, TestFailedRestoreKeepsRecoveryMarker: the marker of a
\* session is kept until the service is up again.
MarkerKeptUntilRestored ==
    [][\A r \in Runs : r \in marker /\ r \notin marker' => stock]_vars

\* INSTALL.md:80: "launcher has a recovery marker to try and start the stock
\* service again at the next run": a session that passed its recovery leaves no
\* marker of an earlier one behind.
NextRunRecovers ==
    [][\A r, o \in Runs :
        InShell(r, "recover") /\ sup'[r] = "guard" /\ o \in marker' => Busy(o)]_vars
=============================================================================
