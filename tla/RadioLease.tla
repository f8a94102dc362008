----------------------------- MODULE RadioLease -----------------------------
(***************************************************************************)
(* The backend processes of bluetooth-native/main_linux.go that take the   *)
(* stock Bluetooth service over for a gamepad session and give it back:    *)
(* the worker (--run, runSession) and the recovery (--recover), one of     *)
(* each per session directory, with the recovery marker they share.        *)
(*                                                                         *)
(* A service script, the start of a daemon and the wait for an adapter are *)
(* one step that may fail, with or without its effect.  Any process may be *)
(* killed between two steps; the session itself (register, the HID server) *)
(* is the step from "serve".                                               *)
(***************************************************************************)
EXTENDS FiniteSets

CONSTANTS
    Runs,       \* sessions, each with a directory and a marker of its own
    StartFails  \* starting the stock service to give it back may fail

ASSUME LeaseAssumption == StartFails \in BOOLEAN

VARIABLES
    stock,      \* the stock Bluetooth service is up
    private,    \* sessions whose own bluetoothd --noplugin=input is up
    dirs,       \* session directories that exist
    marker,     \* sessions whose directory holds a recovery marker
    worker,     \* where the worker of a session is
    leased,     \* sessions whose worker has restoreNeeded set
    asked,      \* sessions whose worker was sent SIGTERM
    recovery    \* where the recovery of a session is

leaseVars == <<stock, private, dirs, marker, worker, leased, asked, recovery>>

WorkerStates == {"none", "ensure", "bind", "switch", "owner", "daemon", "serve",
                 "restore", "return", "settle", "dead"}
RecoveryStates == {"none", "start", "remove", "done"}

LeaseInit ==
    /\ stock \in BOOLEAN
    /\ private = {} /\ dirs = {} /\ marker = {} /\ leased = {} /\ asked = {}
    /\ worker = [r \in Runs |-> "none"]
    /\ recovery = [r \in Runs |-> "none"]

At(r, phase) == worker[r] = phase
WorkerAlive(r) == worker[r] \notin {"none", "dead"}
Go(r, phase) == worker' = [worker EXCEPT ![r] = phase]
RecoveryIdle(r) == recovery[r] \in {"none", "done"}

\* tempfile.mkdtemp of the session directory
MakeDir(r) ==
    /\ dirs' = dirs \cup {r}
    /\ UNCHANGED <<stock, private, marker, worker, leased, asked, recovery>>

-----------------------------------------------------------------------------
(* The worker: runSession.                                                 *)

Launch(r) ==
    /\ At(r, "none") /\ r \in dirs
    /\ Go(r, "ensure")
    /\ UNCHANGED <<stock, private, dirs, marker, leased, asked, recovery>>

\* ensureRadio: a missing adapter starts the stock service
HasAdapter == stock \/ private # {}

EnsureRadio(r) ==
    /\ At(r, "ensure")
    /\ \/ HasAdapter /\ Go(r, "bind") /\ UNCHANGED stock
       \/ ~HasAdapter /\ Go(r, "bind") /\ stock' = TRUE
       \/ ~HasAdapter /\ Go(r, "dead") /\ stock' \in BOOLEAN
       \/ Go(r, "dead") /\ UNCHANGED stock
    /\ UNCHANGED <<private, dirs, marker, leased, asked, recovery>>

\* bindHID: the stock daemon's input plugin, or another worker, has the PSMs
HidInUse(r) == stock \/ \E o \in Runs \ {r} : At(o, "serve")

BindHID(r) ==
    /\ At(r, "bind")
    /\ \/ ~HidInUse(r) /\ Go(r, "serve")
       \/ Go(r, "dead")
    /\ UNCHANGED <<stock, private, dirs, marker, leased, asked, recovery>>

\* mutant: the service is stopped before the marker is written
WriteMarkerLater(r) ==
    /\ At(r, "bind") /\ HidInUse(r)
    /\ r \in dirs
    /\ leased' = leased \cup {r}
    /\ Go(r, "switch")
    /\ UNCHANGED <<stock, private, dirs, marker, asked, recovery>>

\* switchToHID: first the marker, then restoreNeeded
WriteMarker(r) ==
    /\ At(r, "bind") /\ HidInUse(r)
    /\ r \in dirs
    /\ marker' = marker \cup {r}
    /\ leased' = leased \cup {r}
    /\ Go(r, "switch")
    /\ UNCHANGED <<stock, private, dirs, asked, recovery>>

StopStock(r) ==
    /\ At(r, "switch")
    /\ \/ stock' = FALSE /\ Go(r, "owner")
       \/ stock' \in {stock, FALSE} /\ Go(r, "restore")
    /\ UNCHANGED <<private, dirs, marker, leased, asked, recovery>>

\* org.bluez must lose its owner within three seconds
AwaitOwner(r) ==
    /\ At(r, "owner")
    /\ \/ ~HasAdapter /\ Go(r, "daemon")
       \/ Go(r, "restore")
    /\ UNCHANGED <<stock, private, dirs, marker, leased, asked, recovery>>

StartDaemon(r) ==
    /\ At(r, "daemon")
    /\ \/ private' = private \cup {r} /\ worker' \in {[worker EXCEPT ![r] = "serve"],
                                                     [worker EXCEPT ![r] = "restore"]}
       \/ Go(r, "restore") /\ UNCHANGED private
    /\ UNCHANGED <<stock, dirs, marker, leased, asked, recovery>>

\* The session ends: asked to, by the exit gesture, or with an error.
ServeEnds(r) ==
    /\ At(r, "serve")
    /\ Go(r, IF r \in leased THEN "restore" ELSE "dead")
    /\ UNCHANGED <<stock, private, dirs, marker, leased, asked, recovery>>

\* SIGTERM, or the worker's parent is gone: the context is cancelled, and
\* whatever runSession waits for returns an error.
Ask(r) ==
    /\ WorkerAlive(r) /\ r \notin asked
    /\ asked' = asked \cup {r}
    /\ UNCHANGED <<stock, private, dirs, marker, worker, leased, recovery>>

\* restoreWith stops and waits for the session's own daemon first
StopDaemon(r) ==
    /\ At(r, "restore")
    /\ private' = private \ {r}
    /\ Go(r, "return")
    /\ UNCHANGED <<stock, dirs, marker, leased, asked, recovery>>

\* mutant: the marker is dropped whether or not the service came back
ReturnAndForget(r) ==
    /\ At(r, "return")
    /\ stock' \in {stock, TRUE} /\ Go(r, "settle")
    /\ UNCHANGED <<private, dirs, marker, leased, asked, recovery>>

\* restoreNormalServiceFromMarker: what to start is read from the marker
ReturnStock(r) ==
    /\ At(r, "return")
    /\ \/ r \in marker /\ stock' = TRUE /\ Go(r, "settle")
       \/ StartFails /\ r \in marker /\ stock' \in {stock, TRUE} /\ Go(r, "dead")
       \/ r \notin marker /\ Go(r, "dead") /\ UNCHANGED stock
    /\ UNCHANGED <<private, dirs, marker, leased, asked, recovery>>

SettleMarker(r) ==
    /\ At(r, "settle")
    /\ leased' = leased \ {r}
    /\ marker' = marker \ {r}
    /\ Go(r, "dead")
    /\ UNCHANGED <<stock, private, dirs, asked, recovery>>

\* SIGKILL: a service script that is running goes on by itself
Kill(r) ==
    /\ WorkerAlive(r)
    /\ Go(r, "dead")
    /\ stock' \in CASE At(r, "switch") -> {stock, FALSE}
                    [] At(r, "ensure") \/ (At(r, "return") /\ r \in marker) -> {stock, TRUE}
                    [] OTHER -> {stock}
    /\ UNCHANGED <<private, dirs, marker, leased, asked, recovery>>

\* The daemon exits by itself, or by its parent-death signal.
DaemonExits(r) ==
    /\ r \in private
    /\ private' = private \ {r}
    /\ UNCHANGED <<stock, dirs, marker, worker, leased, asked, recovery>>

-----------------------------------------------------------------------------
(* The recovery: --recover.                                                *)

LaunchRecovery(r) ==
    /\ RecoveryIdle(r)
    /\ recovery' = [recovery EXCEPT ![r] = IF r \in marker THEN "start" ELSE "done"]
    /\ UNCHANGED <<stock, private, dirs, marker, worker, leased, asked>>

RecoverStock(r) ==
    /\ recovery[r] = "start"
    /\ \/ r \in marker /\ stock' = TRUE /\ recovery' = [recovery EXCEPT ![r] = "remove"]
       \/ (StartFails \/ r \notin marker) /\ stock' \in {stock, stock \/ r \in marker}
          /\ recovery' = [recovery EXCEPT ![r] = "done"]
    /\ UNCHANGED <<private, dirs, marker, worker, leased, asked>>

RecoverRemove(r) ==
    /\ recovery[r] = "remove"
    /\ marker' = marker \ {r}
    /\ recovery' = [recovery EXCEPT ![r] = "done"]
    /\ UNCHANGED <<stock, private, dirs, worker, leased, asked>>

-----------------------------------------------------------------------------
WorkerStep(r) ==
    \/ EnsureRadio(r) \/ BindHID(r) \/ WriteMarker(r)
    \/ StopStock(r) \/ AwaitOwner(r) \/ StartDaemon(r) \/ ServeEnds(r)
    \/ StopDaemon(r) \/ ReturnStock(r) \/ SettleMarker(r)

RecoveryStep(r) == RecoverStock(r) \/ RecoverRemove(r)

\* The processes under any supervisor that keeps the session directories and
\* never runs the worker and the recovery of a session at the same time.
LeaseNext ==
    \E r \in Runs :
        \/ MakeDir(r)
        \/ RecoveryIdle(r) /\ Launch(r)
        \/ ~WorkerAlive(r) /\ LaunchRecovery(r)
        \/ WorkerStep(r) \/ RecoveryStep(r)
        \/ Ask(r) \/ Kill(r) \/ DaemonExits(r)

LeaseSpec == LeaseInit /\ [][LeaseNext]_leaseVars

-----------------------------------------------------------------------------
(* Properties.                                                             *)

\* Types; a session's own daemon and marker belong to a lease that was taken, and
\* a marker is only written into a directory that is still there.
LeaseTypeOK ==
    /\ stock \in BOOLEAN
    /\ dirs \subseteq Runs /\ leased \subseteq Runs /\ asked \subseteq Runs
    /\ private \subseteq leased /\ marker \subseteq leased \cap dirs
    /\ worker \in [Runs -> WorkerStates]
    /\ recovery \in [Runs -> RecoveryStates]

\* A worker that has begun to take the service over holds the lease and its
\* marker until it has given the service back, its own daemon is gone before the
\* service is started (restoreWith), and no recovery works beside it.
Leasing == {"switch", "owner", "daemon", "restore", "return", "settle"}
LeaseIsHeld ==
    \A r \in Runs :
        /\ worker[r] \in Leasing => r \in leased /\ r \in marker
        /\ r \in leased /\ WorkerAlive(r) => r \in marker
        /\ worker[r] \in {"return", "settle"} => r \notin private
        /\ WorkerAlive(r) => RecoveryIdle(r)
        /\ recovery[r] \in {"start", "remove"} => r \in marker

\* Someone still has to bring the service back: a marker that no process is
\* about to remove.
Outstanding(r) == r \in marker /\ worker[r] # "settle" /\ recovery[r] # "remove"

\* While a marker is left and the service is down, a marker is outstanding:
\* no process removes the last trace of a service that is down, whatever is
\* killed and whichever scripts fail (switchToHID, restoreWith, --recover).
DebtIsKept == ~stock /\ marker # {} => \E r \in Runs : Outstanding(r)

\* The processes keep the promise of RadioLoan.
Loan == INSTANCE RadioLoan WITH owed <- marker # {}
LoanKept == Loan!Spec
=============================================================================
