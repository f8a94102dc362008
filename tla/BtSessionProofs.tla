--------------------------- MODULE BtSessionProofs ---------------------------
(***************************************************************************)
(* Proofs about RadioLease and BtSession, for any number of sessions,      *)
(* crashes and hurried clean-ups: the invariants of the lease and that its *)
(* processes keep the promise of RadioLoan; that shell and app use the     *)
(* backend as RadioLease assumes; and what holds while nobody hurries a    *)
(* clean-up.                                                               *)
(***************************************************************************)
EXTENDS BtSession, FiniteSetTheorems, TLAPS

-----------------------------------------------------------------------------
(* The lease: RadioLease by itself.                                        *)

\* A worker has no lease before it has written its marker.
LeaseIsLate == \A r \in Runs : worker[r] \in {"none", "ensure", "bind"} => r \notin leased

\* What LeaseIsHeld says of the lease and the daemon, which holds even where the
\* session directories are removed.
LeaseOrder ==
    \A r \in Runs :
        /\ worker[r] \in Leasing => r \in leased
        /\ worker[r] \in {"return", "settle"} => r \notin private

\* The inductive invariant: the three that TLC checks, and LeaseIsLate.
LeaseInv == LeaseTypeOK /\ LeaseIsHeld /\ LeaseIsLate /\ DebtIsKept

\* One step of one session.
Step(r) ==
    \/ MakeDir(r)
    \/ RecoveryIdle(r) /\ Launch(r)
    \/ ~WorkerAlive(r) /\ LaunchRecovery(r)
    \/ WorkerStep(r) \/ RecoveryStep(r)
    \/ Ask(r) \/ Kill(r) \/ DaemonExits(r)

\* The next-state relation is a step of one session.
LEMMA StepOfNext == LeaseNext <=> \E r \in Runs : Step(r)
  BY DEF LeaseNext, Step

-----------------------------------------------------------------------------
\* Every action keeps the types, a daemon or a marker only where a lease is, and
\* the order in which a worker goes on.
LEMMA TypeStep ==
  ASSUME LeaseTypeOK, LeaseOrder, NEW r \in Runs, Step(r)
  PROVE  LeaseTypeOK' /\ LeaseOrder'
<1> USE DEF LeaseTypeOK, LeaseOrder, Leasing, WorkerStates, RecoveryStates, Go, At
<1>1. CASE MakeDir(r)
  BY <1>1 DEF MakeDir
<1>2. CASE Launch(r)
  BY <1>2 DEF Launch
<1>3. CASE LaunchRecovery(r)
  BY <1>3 DEF LaunchRecovery
<1>4. CASE EnsureRadio(r)
  BY <1>4 DEF EnsureRadio
<1>5. CASE BindHID(r)
  BY <1>5 DEF BindHID
<1>6. CASE WriteMarker(r)
  BY <1>6 DEF WriteMarker
<1>7. CASE StopStock(r)
  BY <1>7 DEF StopStock
<1>8. CASE AwaitOwner(r)
  BY <1>8 DEF AwaitOwner
<1>9. CASE StartDaemon(r)
  <2>1. r \in leased
    BY <1>9 DEF StartDaemon
  <2> QED BY <1>9, <2>1 DEF StartDaemon
<1>10. CASE ServeEnds(r)
  BY <1>10 DEF ServeEnds
<1>11. CASE StopDaemon(r)
  BY <1>11 DEF StopDaemon
<1>12. CASE ReturnStock(r)
  BY <1>12 DEF ReturnStock
<1>13. CASE SettleMarker(r)
  <2>1. r \notin private
    BY <1>13 DEF SettleMarker
  <2> QED BY <1>13, <2>1 DEF SettleMarker
<1>14. CASE RecoverStock(r)
  BY <1>14 DEF RecoverStock
<1>15. CASE RecoverRemove(r)
  BY <1>15 DEF RecoverRemove
<1>16. CASE Ask(r)
  BY <1>16 DEF Ask
<1>17. CASE Kill(r)
  <2>1. stock' \in BOOLEAN
    BY <1>17 DEF Kill
  <2> QED BY <1>17, <2>1 DEF Kill
<1>18. CASE DaemonExits(r)
  BY <1>18 DEF DaemonExits
<1> QED
  BY <1>1, <1>2, <1>3, <1>4, <1>5, <1>6, <1>7, <1>8, <1>9, <1>10, <1>11, <1>12,
     <1>13, <1>14, <1>15, <1>16, <1>17, <1>18 DEF Step, WorkerStep, RecoveryStep

\* A worker gets its lease no sooner than its marker.
LEMMA LateStep ==
  ASSUME LeaseTypeOK, LeaseIsLate, NEW r \in Runs, Step(r)
  PROVE  LeaseIsLate'
<1> USE DEF LeaseTypeOK, LeaseIsLate, Go, At
<1>1. CASE WorkerStep(r)
  BY <1>1 DEF WorkerStep, EnsureRadio, BindHID, WriteMarker, StopStock, AwaitOwner, StartDaemon,
              ServeEnds, StopDaemon, ReturnStock, SettleMarker
<1>2. CASE ~WorkerStep(r)
  BY <1>2 DEF Step, RecoveryStep, MakeDir, Launch, LaunchRecovery, RecoverStock, RecoverRemove,
              Ask, Kill, DaemonExits
<1> QED BY <1>1, <1>2

\* Every action keeps the lease and its marker with the worker.
LEMMA HeldStep ==
  ASSUME LeaseTypeOK, LeaseIsHeld, LeaseIsLate, NEW r \in Runs, Step(r)
  PROVE  LeaseIsHeld'
<1> USE DEF LeaseTypeOK, LeaseIsHeld, LeaseIsLate, Leasing, WorkerAlive, RecoveryIdle, Go, At
<1>1. CASE MakeDir(r)
  BY <1>1 DEF MakeDir
<1>2. CASE RecoveryIdle(r) /\ Launch(r)
  BY <1>2 DEF Launch
<1>3. CASE ~WorkerAlive(r) /\ LaunchRecovery(r)
  BY <1>3 DEF LaunchRecovery
<1>4. CASE EnsureRadio(r)
  BY <1>4 DEF EnsureRadio
<1>5. CASE BindHID(r)
  BY <1>5 DEF BindHID
<1>6. CASE WriteMarker(r)
  BY <1>6 DEF WriteMarker
<1>7. CASE StopStock(r)
  BY <1>7 DEF StopStock
<1>8. CASE AwaitOwner(r)
  BY <1>8 DEF AwaitOwner
<1>9. CASE StartDaemon(r)
  BY <1>9 DEF StartDaemon
<1>10. CASE ServeEnds(r)
  BY <1>10 DEF ServeEnds
<1>11. CASE StopDaemon(r)
  BY <1>11 DEF StopDaemon
<1>12. CASE ReturnStock(r)
  BY <1>12 DEF ReturnStock
<1>13. CASE SettleMarker(r)
  BY <1>13 DEF SettleMarker
<1>14. CASE RecoverStock(r)
  BY <1>14 DEF RecoverStock
<1>15. CASE RecoverRemove(r)
  BY <1>15 DEF RecoverRemove
<1>16. CASE Ask(r)
  BY <1>16 DEF Ask
<1>17. CASE Kill(r)
  BY <1>17 DEF Kill
<1>18. CASE DaemonExits(r)
  BY <1>18 DEF DaemonExits
<1> QED
  BY <1>1, <1>2, <1>3, <1>4, <1>5, <1>6, <1>7, <1>8, <1>9, <1>10, <1>11, <1>12,
     <1>13, <1>14, <1>15, <1>16, <1>17, <1>18 DEF Step, WorkerStep, RecoveryStep

-----------------------------------------------------------------------------
\* A step that neither takes the service down nor removes a marker, and begins
\* no removal, leaves the debt where it is.
LEMMA DebtStays ==
  ASSUME DebtIsKept, stock => stock', marker' = marker,
         \A o \in Runs : worker'[o] = "settle" => worker[o] = "settle",
         \A o \in Runs : recovery'[o] = "remove" => recovery[o] = "remove"
  PROVE  DebtIsKept'
  BY DEF DebtIsKept, Outstanding

\* The marker that goes is not the outstanding one.
LEMMA OtherDebt ==
  ASSUME DebtIsKept, NEW r \in Runs, r \in marker, ~Outstanding(r), marker' = marker \ {r},
         stock' = stock,
         \A o \in Runs \ {r} : worker'[o] = worker[o] /\ recovery'[o] = recovery[o]
  PROVE  DebtIsKept' /\ (~stock => marker' # {})
<1> SUFFICES ASSUME ~stock
             PROVE  \E o \in Runs : Outstanding(o)'
  BY DEF DebtIsKept, Outstanding
<1>1. PICK o \in Runs : Outstanding(o)
  BY DEF DebtIsKept
<1>2. Outstanding(o)'
  BY <1>1 DEF Outstanding
<1> QED BY <1>2

\* The session whose service script runs is the one that owes.
LEMMA OwnDebt ==
  ASSUME NEW r \in Runs, (r \in marker)', worker'[r] # "settle", recovery'[r] # "remove"
  PROVE  DebtIsKept'
  BY DEF DebtIsKept, Outstanding

\* Every action keeps the debt written down.
LEMMA DebtStep ==
  ASSUME LeaseInv, NEW r \in Runs, Step(r)
  PROVE  DebtIsKept'
<1> USE DEF LeaseInv, LeaseTypeOK, Go, At
<1>a. ASSUME r \in marker, WorkerAlive(r), worker'[r] # "settle", UNCHANGED <<marker, recovery>>
      PROVE  DebtIsKept'
  BY <1>a, OwnDebt DEF LeaseIsHeld, RecoveryIdle
<1>1. CASE MakeDir(r)
  BY <1>1, DebtStays DEF MakeDir
<1>2. CASE Launch(r)
  BY <1>2, DebtStays DEF Launch
<1>3. CASE LaunchRecovery(r)
  BY <1>3, DebtStays DEF LaunchRecovery
<1>4. CASE EnsureRadio(r)
  BY <1>4, DebtStays DEF EnsureRadio, HasAdapter
<1>5. CASE BindHID(r)
  BY <1>5, DebtStays DEF BindHID
<1>6. CASE WriteMarker(r)
  BY <1>6, OwnDebt DEF WriteMarker, LeaseIsHeld, RecoveryIdle, WorkerAlive
<1>7. CASE StopStock(r)
  BY <1>7, <1>a DEF StopStock, LeaseIsHeld, Leasing, WorkerAlive
<1>8. CASE AwaitOwner(r)
  BY <1>8, DebtStays DEF AwaitOwner
<1>9. CASE StartDaemon(r)
  BY <1>9, DebtStays DEF StartDaemon
<1>10. CASE ServeEnds(r)
  BY <1>10, DebtStays DEF ServeEnds
<1>11. CASE StopDaemon(r)
  BY <1>11, DebtStays DEF StopDaemon
<1>12. CASE ReturnStock(r)
  <2>1. CASE stock'
    BY <2>1 DEF DebtIsKept
  <2>2. CASE ~stock'
    BY <1>12, <2>2, DebtStays DEF ReturnStock
  <2> QED BY <2>1, <2>2
<1>13. CASE SettleMarker(r)
  BY <1>13, OtherDebt DEF SettleMarker, LeaseIsHeld, Leasing, Outstanding
<1>14. CASE RecoverStock(r)
  <2>1. CASE stock'
    BY <2>1 DEF DebtIsKept
  <2>2. CASE ~stock'
    BY <1>14, <2>2, DebtStays DEF RecoverStock
  <2> QED BY <2>1, <2>2
<1>15. CASE RecoverRemove(r)
  BY <1>15, OtherDebt DEF RecoverRemove, LeaseIsHeld, Outstanding
<1>16. CASE Ask(r)
  BY <1>16, DebtStays DEF Ask
<1>17. CASE Kill(r)
  <2>1. CASE At(r, "switch")
    BY <1>17, <2>1, <1>a DEF Kill, LeaseIsHeld, Leasing, WorkerAlive
  <2>2. CASE ~At(r, "switch")
    BY <1>17, <2>2, DebtStays DEF Kill
  <2> QED BY <2>1, <2>2
<1>18. CASE DaemonExits(r)
  BY <1>18, DebtStays DEF DaemonExits
<1> QED
  BY <1>1, <1>2, <1>3, <1>4, <1>5, <1>6, <1>7, <1>8, <1>9, <1>10, <1>11, <1>12,
     <1>13, <1>14, <1>15, <1>16, <1>17, <1>18 DEF Step, WorkerStep, RecoveryStep

-----------------------------------------------------------------------------
\* The inductive invariant holds where the processes begin, none of them running.
LEMMA InvInit == LeaseInit => LeaseInv
  BY DEF LeaseInit, LeaseInv, LeaseTypeOK, LeaseIsHeld, LeaseIsLate, DebtIsKept,
         WorkerStates, RecoveryStates, Leasing, WorkerAlive, RecoveryIdle

\* Every step of the processes keeps the inductive invariant.
LEMMA InvStep == LeaseInv /\ [LeaseNext]_leaseVars => LeaseInv'
<1> SUFFICES ASSUME LeaseInv, [LeaseNext]_leaseVars
             PROVE  LeaseInv'
  OBVIOUS
<1>1. CASE LeaseNext
  <2>1. PICK r \in Runs : Step(r)
    BY <1>1, StepOfNext
  <2>2. LeaseOrder
    BY DEF LeaseInv, LeaseOrder, LeaseIsHeld
  <2> QED BY <2>1, <2>2, TypeStep, LateStep, HeldStep, DebtStep DEF LeaseInv
<1>2. CASE UNCHANGED leaseVars
  BY <1>2 DEF leaseVars, LeaseInv, LeaseTypeOK, LeaseIsHeld, LeaseIsLate, DebtIsKept,
             Outstanding, WorkerAlive, RecoveryIdle
<1> QED BY <1>1, <1>2

\* The types, and that a daemon and a marker belong to a lease (radioLease).
THEOREM LeaseTypes == LeaseSpec => []LeaseTypeOK
<1>1. LeaseInv => LeaseTypeOK
  BY DEF LeaseInv
<1> QED BY InvInit, InvStep, <1>1, PTL DEF LeaseSpec

\* A worker that has begun to take the service over holds lease and marker until
\* it has given the service back, its own daemon gone first (restoreWith).
THEOREM LeaseStaysHeld == LeaseSpec => []LeaseIsHeld
<1>1. LeaseInv => LeaseIsHeld
  BY DEF LeaseInv
<1> QED BY InvInit, InvStep, <1>1, PTL DEF LeaseSpec

\* No process removes the last trace of a service that is down.
THEOREM DebtStaysKept == LeaseSpec => []DebtIsKept
<1>1. LeaseInv => DebtIsKept
  BY DEF LeaseInv
<1> QED BY InvInit, InvStep, <1>1, PTL DEF LeaseSpec

-----------------------------------------------------------------------------
\* Every step of a process is one of RadioLoan, or none.
LEMMA LoanStep ==
  ASSUME LeaseInv, NEW r \in Runs, Step(r)
  PROVE  [Loan!Next]_<<stock, marker # {}>>
<1> USE DEF LeaseInv, LeaseTypeOK, Loan!Next, Go, At
<1>1. CASE UNCHANGED <<stock, marker>>
  BY <1>1
<1>2. CASE stock' = TRUE /\ UNCHANGED marker
  BY <1>2 DEF Loan!Return
<1>3. CASE r \in marker /\ stock' \in {stock, FALSE} /\ UNCHANGED marker
  BY <1>3 DEF Loan!Take
<1>4. CASE WriteMarker(r)
  BY <1>4 DEF WriteMarker, Loan!Borrow
<1>5. ASSUME r \in marker, ~Outstanding(r), marker' = marker \ {r}, stock' = stock,
             \A o \in Runs \ {r} : worker'[o] = worker[o] /\ recovery'[o] = recovery[o]
      PROVE  [Loan!Next]_<<stock, marker # {}>>
  <2>1. CASE stock
    BY <1>5, <2>1 DEF Loan!Settle
  <2>2. CASE ~stock
    <3>1. marker # {} /\ marker' # {}
      BY <1>5, <2>2, OtherDebt
    <3> QED BY <1>5, <3>1
  <2> QED BY <2>1, <2>2
<1>6. CASE SettleMarker(r)
  BY <1>6, <1>5 DEF SettleMarker, LeaseIsHeld, Leasing, Outstanding
<1>7. CASE RecoverRemove(r)
  BY <1>7, <1>5 DEF RecoverRemove, LeaseIsHeld, Outstanding
<1>8. CASE StopStock(r)
  BY <1>8, <1>3 DEF StopStock, LeaseIsHeld, Leasing
<1>9. CASE Kill(r)
  <2>1. CASE At(r, "switch")
    BY <1>9, <2>1, <1>3 DEF Kill, LeaseIsHeld, Leasing
  <2>2. CASE ~At(r, "switch")
    BY <1>9, <2>2, <1>1, <1>2 DEF Kill
  <2> QED BY <2>1, <2>2
<1>10. CASE EnsureRadio(r)
  BY <1>10, <1>1, <1>2 DEF EnsureRadio, HasAdapter
<1>11. CASE ReturnStock(r)
  BY <1>11, <1>1, <1>2 DEF ReturnStock
<1>12. CASE RecoverStock(r)
  BY <1>12, <1>1, <1>2 DEF RecoverStock
<1>13. CASE MakeDir(r) \/ Launch(r) \/ LaunchRecovery(r) \/ BindHID(r) \/ AwaitOwner(r)
            \/ StartDaemon(r) \/ ServeEnds(r) \/ StopDaemon(r) \/ Ask(r) \/ DaemonExits(r)
  BY <1>13, <1>1 DEF MakeDir, Launch, LaunchRecovery, BindHID, AwaitOwner, StartDaemon,
                     ServeEnds, StopDaemon, Ask, DaemonExits
<1> QED
  BY <1>4, <1>6, <1>7, <1>8, <1>9, <1>10, <1>11, <1>12, <1>13 DEF Step, WorkerStep, RecoveryStep

\* The processes keep the promise of RadioLoan: the service is taken down only
\* when a marker is written, and the last marker goes only when it is up.
THEOREM LoanIsKept == LeaseSpec => LoanKept
<1>1. LeaseInit => Loan!Init
  BY DEF LeaseInit, Loan!Init
<1>2. LeaseInv /\ [LeaseNext]_leaseVars => [Loan!Next]_<<stock, marker # {}>>
  <2> SUFFICES ASSUME LeaseInv, [LeaseNext]_leaseVars
               PROVE  [Loan!Next]_<<stock, marker # {}>>
    OBVIOUS
  <2>1. CASE LeaseNext
    <3>1. PICK r \in Runs : Step(r)
      BY <2>1, StepOfNext
    <3> QED BY <3>1, LoanStep
  <2>2. CASE UNCHANGED leaseVars
    BY <2>2 DEF leaseVars
  <2> QED BY <2>1, <2>2
<1> QED BY InvInit, InvStep, <1>1, <1>2, PTL DEF LeaseSpec, LoanKept, Loan!Spec

-----------------------------------------------------------------------------
(* The session around it.                                                  *)

\* Worker and recovery follow the shell of their session: nothing is started
\* twice, and never the two together.
InOrder(r) ==
    /\ sup[r] \in {"none", "begin", "recover", "guard"} => worker[r] = "none"
    /\ sup[r] \in {"wifi", "last"} => ~WorkerAlive(r)
    /\ sup[r] \in {"none", "begin", "guard", "work", "stop", "cleanup", "wifi"} => RecoveryIdle(r)
    /\ WorkerAlive(r) => RecoveryIdle(r)

ShellOrder == \A r \in Runs : InOrder(r)

\* An idle app has a session only if its shell has ended.
AppOrder ==
    /\ app = "idle" /\ cur # 0 => sup[cur] = "dead"
    /\ app \in {"running", "stopping"} => sup[cur] # "none"

\* While no clean-up was hurried: a shell that cleans up has no SIGTERM pending,
\* one that has ended left nothing running, and Wi-Fi has someone to restore it.
CleanEnds ==
    hurried = 0 =>
        /\ \A r \in Runs :
               /\ r \in term => ~Cleaning(r)
               /\ sup[r] = "dead" => ~WorkerAlive(r) /\ RecoveryIdle(r)
               /\ r \in saved =>
                      sup[r] \in {"recover", "guard", "work", "stop", "cleanup", "wifi"}
        /\ ~wifi => saved # {}

\* The app is there, and only its own session is busy.
OneSession ==
    crashed + hurried = 0 =>
        /\ app # "dead"
        /\ \A r \in Runs : Busy(r) => r = cur /\ app \in {"running", "stopping"}

\* What holds on every path.
BaseInv == TypeOK /\ LeaseOrder /\ LeaseIsLate /\ ShellOrder /\ AppOrder

BtInv == BaseInv /\ WorkerKeepsLease /\ CleanEnds /\ OneSession

\* A step of a session's processes.
SessionStep(r) ==
    \/ ShellStep(r) \/ KillWorker(r) \/ ParentLost(r)
    \/ WorkerSteps(r) \/ RecoverySteps(r) \/ DaemonDies(r)

\* 0, the app's "no session", is not a session.
LEMMA NoSessionZero == 0 \notin Runs
<1>1. Cardinality(Runs) \in Nat
  BY BtAssumption, FS_CardinalityType DEF BtAssumption
<1> QED BY <1>1, BtAssumption DEF BtAssumption

-----------------------------------------------------------------------------
\* The shell, and the processes it leaves, only do to the lease what a process
\* of RadioLease does.
LEMMA SessionUse ==
  ASSUME BaseInv, NEW r \in Runs, SessionStep(r)
  PROVE  Step(r) \/ UNCHANGED leaseVars
<1> USE DEF BaseInv, ShellOrder, InOrder, Step, InShell
<1>1. CASE ShellStep(r)
  <2>1. CASE HandleTerm(r) \/ Begin(r) \/ GuardFails(r) \/ WorkerEnded(r) \/ WorkerStopped(r)
             \/ CleanupStopped(r) \/ RestoreWifi(r) \/ ShellEnds(r)
    BY <2>1 DEF HandleTerm, Begin, GuardFails, WorkerEnded, WorkerStopped, CleanupStopped,
                RestoreWifi, ShellEnds
  <2>2. CASE RecoverFirst(r)
    BY <2>2 DEF RecoverFirst, WorkerAlive
  <2>3. CASE GuardReady(r)
    BY <2>3 DEF GuardReady
  <2>4. CASE StopWorker(r) \/ CleanupAsks(r)
    BY <2>4 DEF StopWorker, CleanupAsks
  <2>5. CASE LastRecovery(r)
    BY <2>5 DEF LastRecovery
  <2> QED BY <1>1, <2>1, <2>2, <2>3, <2>4, <2>5 DEF ShellStep
<1>2. CASE ~ShellStep(r)
  BY <1>2 DEF SessionStep, KillWorker, ParentLost, WorkerSteps, RecoverySteps, DaemonDies
<1> QED BY <1>1, <1>2

\* The app only makes and removes directories.
LEMMA AppUse ==
  ASSUME AppStep
  PROVE  ChangesDirs
  BY DEF AppStep, ChangesDirs, Start, Poll, Stop, Stopped, StopKills, Close, Crash, Relaunch, ShellKilled,
         leaseVars

-----------------------------------------------------------------------------
\* The processes of a session touch nothing of another.
LEMMA OthersStay ==
  ASSUME BaseInv, NEW r \in Runs, SessionStep(r), NEW o \in Runs, o # r
  PROVE  /\ sup'[o] = sup[o] /\ worker'[o] = worker[o] /\ recovery'[o] = recovery[o]
         /\ (o \in term') = (o \in term) /\ (o \in saved') = (o \in saved)
<1> USE DEF BaseInv, TypeOK, LeaseTypeOK
<1>1. /\ worker'[o] = worker[o] /\ recovery'[o] = recovery[o]
  <2>1. CASE Step(r)
    <3>1. CASE WorkerStep(r)
      BY <3>1 DEF WorkerStep, EnsureRadio, BindHID, WriteMarker, StopStock, AwaitOwner, Go,
                  StartDaemon, ServeEnds, StopDaemon, ReturnStock, SettleMarker
    <3>2. CASE ~WorkerStep(r)
      BY <2>1, <3>2 DEF Step, RecoveryStep, MakeDir, Launch, LaunchRecovery, RecoverStock,
                        RecoverRemove, Ask, Kill, DaemonExits, Go
    <3> QED BY <3>1, <3>2
  <2>2. CASE UNCHANGED leaseVars
    BY <2>2 DEF leaseVars
  <2> QED BY <2>1, <2>2, SessionUse
<1>2. /\ sup'[o] = sup[o]
      /\ (o \in term') = (o \in term) /\ (o \in saved') = (o \in saved)
  <2>1. CASE ShellStep(r)
    BY <2>1 DEF ShellStep, HandleTerm, Begin, RecoverFirst, GuardReady, GuardFails, WorkerEnded,
                StopWorker, WorkerStopped, CleanupAsks, CleanupStopped, RestoreWifi,
                LastRecovery, ShellEnds, Enter, shellVars
  <2>2. CASE ~ShellStep(r)
    BY <2>2 DEF SessionStep, KillWorker, ParentLost, WorkerSteps, RecoverySteps, DaemonDies,
                shellVars
  <2> QED BY <2>1, <2>2
<1> QED BY <1>1, <1>2

\* A step of a session's processes keeps the types of shell and app.
LEMMA SessionTypes ==
  ASSUME TypeOK, NEW r \in Runs, SessionStep(r)
  PROVE  /\ UNCHANGED appVars
         /\ sup' \in [Runs -> ShellStates]
         /\ term' \subseteq Runs /\ wifi' \in BOOLEAN /\ saved' \subseteq Runs
<1> USE DEF TypeOK, ShellStates, Enter, shellVars
<1>1. CASE ShellStep(r)
  <2>1. CASE HandleTerm(r) \/ Begin(r) \/ RecoverFirst(r) \/ GuardReady(r) \/ GuardFails(r)
             \/ WorkerEnded(r)
    BY <2>1 DEF HandleTerm, Begin, RecoverFirst, GuardReady, GuardFails, WorkerEnded
  <2>2. CASE StopWorker(r) \/ WorkerStopped(r) \/ CleanupAsks(r) \/ CleanupStopped(r)
             \/ RestoreWifi(r) \/ LastRecovery(r) \/ ShellEnds(r)
    BY <2>2 DEF StopWorker, WorkerStopped, CleanupAsks, CleanupStopped, RestoreWifi,
                LastRecovery, ShellEnds
  <2> QED BY <1>1, <2>1, <2>2 DEF ShellStep
<1>2. CASE ~ShellStep(r)
  BY <1>2 DEF SessionStep, KillWorker, ParentLost, WorkerSteps, RecoverySteps, DaemonDies
<1> QED BY <1>1, <1>2

\* How the worker and the recovery of the session itself may move.
LEMMA OwnMoves ==
  ASSUME BaseInv, NEW r \in Runs, SessionStep(r), ~GuardReady(r)
  PROVE  /\ worker[r] = "none" => worker'[r] = "none"
         /\ worker'[r] = "none" => worker[r] = "none"
         /\ worker[r] = "dead" => worker'[r] = "dead"
<1> USE DEF BaseInv, TypeOK, LeaseTypeOK, shellVars
<1>1. CASE WorkerStep(r)
  BY <1>1 DEF WorkerStep, EnsureRadio, BindHID, WriteMarker, StopStock, AwaitOwner, Go, At,
              StartDaemon, ServeEnds, StopDaemon, ReturnStock, SettleMarker
<1>2. CASE ~WorkerStep(r)
  BY <1>2 DEF SessionStep, ShellStep, HandleTerm, Begin, RecoverFirst, GuardFails, WorkerEnded,
              StopWorker, WorkerStopped, CleanupAsks, CleanupStopped, RestoreWifi, WorkerAlive,
              LastRecovery, ShellEnds, KillWorker, ParentLost, WorkerSteps, RecoverySteps,
              DaemonDies, RecoveryStep, LaunchRecovery, RecoverStock, RecoverRemove, Ask, Kill,
              DaemonExits, Go, leaseVars
<1> QED BY <1>1, <1>2

\* A shell that has ended stays so, and one that has begun is not new again.
LEMMA ShellMoves ==
  ASSUME TypeOK, NEW r \in Runs, SessionStep(r)
  PROVE  /\ sup[r] = "dead" => sup'[r] = "dead"
         /\ sup'[r] = "none" <=> sup[r] = "none"
         /\ sup[r] = "none" => sup'[r] = "none"
<1> USE DEF TypeOK, ShellStates, Enter, shellVars, InShell, ShellAlive
<1>1. CASE ShellStep(r)
  <2>1. CASE HandleTerm(r) \/ Begin(r) \/ RecoverFirst(r) \/ GuardReady(r) \/ GuardFails(r)
             \/ WorkerEnded(r)
    BY <2>1 DEF HandleTerm, Begin, RecoverFirst, GuardReady, GuardFails, WorkerEnded
  <2>2. CASE StopWorker(r) \/ WorkerStopped(r) \/ CleanupAsks(r) \/ CleanupStopped(r)
             \/ RestoreWifi(r) \/ LastRecovery(r) \/ ShellEnds(r)
    BY <2>2 DEF StopWorker, WorkerStopped, CleanupAsks, CleanupStopped, RestoreWifi,
                LastRecovery, ShellEnds
  <2> QED BY <1>1, <2>1, <2>2 DEF ShellStep
<1>2. CASE ~ShellStep(r)
  BY <1>2 DEF SessionStep, KillWorker, ParentLost, WorkerSteps, RecoverySteps, DaemonDies
<1> QED BY <1>1, <1>2

\* The session's own worker and recovery stay in step with its shell.
LEMMA OwnOrder ==
  ASSUME BaseInv, NEW r \in Runs, SessionStep(r)
  PROVE  InOrder(r)'
<1> USE DEF BaseInv, TypeOK, LeaseTypeOK, ShellOrder, InOrder, RecoveryIdle, WorkerAlive,
            InShell, Enter, shellVars
<1>1. CASE GuardReady(r)
  BY <1>1 DEF GuardReady, Launch, Go
<1>2. CASE HandleTerm(r)
  BY <1>2 DEF HandleTerm, ShellAlive, ShellStates, Cleaning, leaseVars
<1>3. CASE Begin(r) \/ GuardFails(r) \/ WorkerEnded(r) \/ WorkerStopped(r)
           \/ CleanupStopped(r) \/ RestoreWifi(r) \/ ShellEnds(r)
  BY <1>3 DEF Begin, GuardFails, WorkerEnded, WorkerStopped, CleanupStopped, RestoreWifi,
              ShellEnds, leaseVars
<1>4. CASE RecoverFirst(r)
  BY <1>4 DEF RecoverFirst, LaunchRecovery, leaseVars
<1>5. CASE LastRecovery(r)
  BY <1>5 DEF LastRecovery, LaunchRecovery
<1>6. CASE StopWorker(r) \/ CleanupAsks(r) \/ ParentLost(r)
  BY <1>6 DEF StopWorker, CleanupAsks, ParentLost, Ask
<1>7. CASE KillWorker(r)
  BY <1>7 DEF KillWorker, Kill, Go
<1>8. CASE DaemonDies(r)
  BY <1>8 DEF DaemonDies, DaemonExits
<1>9. CASE RecoverySteps(r)
  BY <1>9 DEF RecoverySteps, RecoveryStep, RecoverStock, RecoverRemove
<1>10. CASE WorkerSteps(r)
  <2>1. UNCHANGED <<sup, recovery>> /\ WorkerAlive(r)
    BY <1>10 DEF WorkerSteps, WorkerStep, EnsureRadio, BindHID, WriteMarker, StopStock, At,
                 AwaitOwner, StartDaemon, ServeEnds, StopDaemon, ReturnStock, SettleMarker
  <2> QED BY <2>1
<1> QED
  BY <1>1, <1>2, <1>3, <1>4, <1>5, <1>6, <1>7, <1>8, <1>9, <1>10 DEF SessionStep, ShellStep

\* A step of a session's processes keeps what holds on every path.
LEMMA SessionBase ==
  ASSUME BaseInv, NEW r \in Runs, SessionStep(r)
  PROVE  BaseInv'
<1> USE DEF BaseInv
<1>1. LeaseTypeOK' /\ LeaseOrder' /\ LeaseIsLate'
  <2>1. CASE Step(r)
    BY <2>1, TypeStep, LateStep DEF TypeOK
  <2>2. CASE UNCHANGED leaseVars
    BY <2>2 DEF leaseVars, TypeOK, LeaseTypeOK, LeaseOrder, LeaseIsLate
  <2> QED BY <2>1, <2>2, SessionUse
<1>2. TypeOK'
  BY <1>1, SessionTypes DEF TypeOK, appVars
<1>3. ShellOrder'
  BY OwnOrder, OthersStay DEF ShellOrder, InOrder, RecoveryIdle, WorkerAlive
<1>4. AppOrder'
  <2>1. UNCHANGED <<app, cur>>
    BY SessionTypes DEF appVars
  <2>2. \A o \in Runs : (sup[o] = "dead" => sup'[o] = "dead") /\ (sup[o] # "none" => sup'[o] # "none")
    BY OthersStay, ShellMoves
  <2> QED BY <2>1, <2>2 DEF AppOrder, TypeOK
<1> QED BY <1>1, <1>2, <1>3, <1>4

\* What the app does to the session directories keeps the lease's types.
LEMMA DirsBase ==
  ASSUME LeaseTypeOK, LeaseOrder, LeaseIsLate, ChangesDirs, dirs' \subseteq Runs,
         marker' \subseteq marker \cap dirs'
  PROVE  LeaseTypeOK' /\ LeaseOrder' /\ LeaseIsLate'
  BY DEF LeaseTypeOK, LeaseOrder, LeaseIsLate, ChangesDirs

\* A step of the app keeps what holds on every path.
LEMMA AppBase ==
  ASSUME BaseInv, AppStep
  PROVE  BaseInv'
<1> USE DEF BaseInv, TypeOK, LeaseTypeOK, shellVars
<1>1. LeaseTypeOK' /\ LeaseOrder' /\ LeaseIsLate'
  <2>1. dirs' \subseteq Runs /\ marker' \subseteq marker \cap dirs'
    BY DEF AppStep, Start, Poll, Stop, Stopped, StopKills, Close, Discards, Crash, Relaunch,
           ShellKilled,
           leaseVars
  <2> QED BY <2>1, AppUse, DirsBase
<1>2. TypeOK'
  <2>1. CASE Start \/ Close \/ Relaunch
    BY <1>1, <2>1, NoSessionZero DEF Start, Close, Relaunch, ShellStates
  <2>5. CASE Crash
    BY <1>1, <2>5, BtAssumption DEF BtAssumption, Crash
  <2>2. CASE Poll \/ Stopped
    BY <1>1, <2>2 DEF Poll, Stopped
  <2>3. CASE Stop
    <3>1. hurried' \in 0 .. Hurries
      BY <2>3, BtAssumption DEF BtAssumption, Stop, Hurry
    <3> QED BY <1>1, <2>3, <3>1 DEF Stop
  <2>4. CASE StopKills
    <3>1. hurried' \in 0 .. Hurries
      BY <2>4, BtAssumption DEF BtAssumption, StopKills, Hurry
    <3> QED BY <1>1, <2>4, <3>1 DEF StopKills, Enter, ShellStates
  <2>6. CASE ShellKilled
    <3>1. hurried' \in 0 .. Hurries
      BY <2>6, BtAssumption DEF BtAssumption, ShellKilled, Hurry
    <3> QED BY <1>1, <2>6, <3>1 DEF ShellKilled, Enter, ShellStates
  <2> QED BY <2>1, <2>2, <2>3, <2>4, <2>5, <2>6 DEF AppStep
<1>3. ShellOrder'
  BY AppUse DEF ChangesDirs, AppStep, Start, Poll, Stop, Stopped, StopKills, Close, Crash,
     Relaunch, ShellKilled, ShellOrder, InOrder, RecoveryIdle, WorkerAlive, Enter, InShell
<1>4. AppOrder'
  BY NoSessionZero DEF AppOrder, AppStep, Start, Poll, Stop, Stopped, StopKills, Close, Crash,
     Relaunch, ShellKilled, Enter, InShell, ShellAlive
<1> QED BY <1>1, <1>2, <1>3, <1>4

-----------------------------------------------------------------------------
\* A step is the app's, a session's, or none.
LEMMA NextCases ==
  ASSUME Next
  PROVE  AppStep \/ UNCHANGED vars \/ \E r \in Runs : SessionStep(r)
  BY DEF Next, NoRunLeft, SessionStep

\* What holds on every path holds before the first session.
LEMMA BaseInit == Init => BaseInv
  BY BtAssumption, NoSessionZero
     DEF Init, LeaseInit, BtAssumption, BaseInv, TypeOK, LeaseTypeOK, LeaseOrder, LeaseIsLate,
         ShellOrder, InOrder, AppOrder, WorkerStates, RecoveryStates, ShellStates, Leasing,
         WorkerAlive, RecoveryIdle

\* Every step keeps what holds on every path.
LEMMA BaseStep == BaseInv /\ [Next]_vars => BaseInv'
<1> SUFFICES ASSUME BaseInv, [Next]_vars
             PROVE  BaseInv'
  OBVIOUS
<1>1. CASE AppStep
  BY <1>1, AppBase
<1>2. CASE \E r \in Runs : SessionStep(r)
  BY <1>2, SessionBase
<1>3. CASE UNCHANGED vars
  BY <1>3 DEF vars, leaseVars, shellVars, appVars, BaseInv, TypeOK, LeaseTypeOK, LeaseOrder,
     LeaseIsLate, ShellOrder, InOrder, AppOrder, WorkerAlive, RecoveryIdle
<1> QED BY <1>1, <1>2, <1>3, NextCases

\* The types of shell, app and lease, whatever crashes and whoever hurries.
THEOREM BtTypes == Spec => []TypeOK
<1>1. BaseInv => TypeOK
  BY DEF BaseInv
<1> QED BY BaseInit, BaseStep, <1>1, PTL DEF Spec

\* Shell and app use the backend as RadioLease assumes: the worker of a session
\* is started once, and never beside its recovery (bluetooth-session.sh).
THEOREM LeaseUse == Spec => LeaseUsedAsAgreed
<1>1. BaseInv /\ [Next]_vars => [LeaseNext \/ ChangesDirs]_leaseVars
  <2> SUFFICES ASSUME BaseInv, [Next]_vars
               PROVE  [LeaseNext \/ ChangesDirs]_leaseVars
    OBVIOUS
  <2>1. CASE AppStep
    BY <2>1, AppUse
  <2>2. CASE \E r \in Runs : SessionStep(r)
    BY <2>2, SessionUse, StepOfNext
  <2>3. CASE UNCHANGED vars
    BY <2>3 DEF vars
  <2> QED BY <2>1, <2>2, <2>3, NextCases
<1> QED BY BaseInit, BaseStep, <1>1, PTL DEF Spec, LeaseUsedAsAgreed

-----------------------------------------------------------------------------
(* While nobody hurries a clean-up.                                        *)

\* A sum of two naturals is zero only if both are.
LEMMA SumIsZero ==
  ASSUME NEW a \in Nat, NEW b \in Nat
  PROVE  a + b = 0 <=> a = 0 /\ b = 0
  OBVIOUS

\* The two counters of misfortunes, crashes and hurried clean-ups, are naturals.
LEMMA Counters ==
  ASSUME TypeOK
  PROVE  /\ crashed \in Nat /\ hurried \in Nat
         /\ crashed + hurried = 0 <=> crashed = 0 /\ hurried = 0
  BY BtAssumption DEF BtAssumption, TypeOK

\* A session of which nothing is left takes no step but the exit of its daemon.
LEMMA DoneIsDone ==
  ASSUME NEW r \in Runs, SessionStep(r), ~Busy(r)
  PROVE  UNCHANGED <<appVars, shellVars, marker, worker, leased, recovery>>
<1> USE DEF Busy, ShellAlive, WorkerAlive, RecoveryIdle, InShell, At
<1>1. ~ShellStep(r)
  BY DEF ShellStep, HandleTerm, Begin, RecoverFirst, GuardReady, GuardFails, WorkerEnded,
         StopWorker, WorkerStopped, CleanupAsks, CleanupStopped, RestoreWifi, LastRecovery,
         ShellEnds
<1>2. ~WorkerSteps(r) /\ ~RecoverySteps(r)
  BY DEF WorkerSteps, WorkerStep, EnsureRadio, BindHID, WriteMarker, StopStock, AwaitOwner,
         StartDaemon, ServeEnds, StopDaemon, ReturnStock, SettleMarker, RecoverySteps,
         RecoveryStep, RecoverStock, RecoverRemove
<1>3. ~KillWorker(r) /\ ~ParentLost(r)
  BY DEF KillWorker, ParentLost, Kill, Ask
<1> QED BY <1>1, <1>2, <1>3 DEF SessionStep, DaemonDies, DaemonExits

\* The shell's own part of CleanEnds.
EndsClean(r) ==
    /\ r \in term => ~Cleaning(r)
    /\ sup[r] = "dead" => ~WorkerAlive(r) /\ RecoveryIdle(r)
    /\ r \in saved => sup[r] \in {"recover", "guard", "work", "stop", "cleanup", "wifi"}

\* A step of a session's processes keeps its own part of CleanEnds, and leaves Wi-Fi
\* to somebody.
LEMMA OwnEnds ==
  ASSUME BaseInv, NEW r \in Runs, SessionStep(r), EndsClean(r), ~wifi => saved # {}
  PROVE  EndsClean(r)' /\ (~wifi' => saved' # {})
<1> USE DEF BaseInv, TypeOK, LeaseTypeOK, EndsClean, Cleaning, InShell, ShellStates
<1>1. CASE sup[r] = "dead"
  <2>1. ~Busy(r)
    BY <1>1 DEF Busy, ShellAlive
  <2>2. UNCHANGED <<appVars, shellVars, marker, worker, leased, recovery>>
    BY <2>1, DoneIsDone
  <2> QED BY <2>2 DEF shellVars, WorkerAlive, RecoveryIdle
<1>2. CASE ShellStep(r)
  <2> USE DEF Enter, shellVars
  <2>1. CASE HandleTerm(r)
    BY <2>1 DEF HandleTerm, ShellAlive
  <2>2. CASE r \notin term /\ Begin(r)
    BY <2>2 DEF Begin
  <2>3. CASE r \notin term /\ RestoreWifi(r)
    BY <2>3 DEF RestoreWifi
  <2>4. CASE r \notin term /\ ShellEnds(r)
    BY <2>4 DEF ShellEnds, leaseVars, ShellOrder, InOrder, WorkerAlive, RecoveryIdle
  <2>5. CASE r \notin term /\ (RecoverFirst(r) \/ GuardReady(r) \/ GuardFails(r) \/ WorkerEnded(r)
             \/ StopWorker(r) \/ WorkerStopped(r) \/ CleanupAsks(r) \/ CleanupStopped(r)
             \/ LastRecovery(r))
    <3>1. UNCHANGED <<term, wifi, saved>> /\ sup[r] # "none"
      BY <2>5 DEF RecoverFirst, GuardReady, GuardFails, WorkerEnded, StopWorker, WorkerStopped,
                  CleanupAsks, CleanupStopped, LastRecovery
    <3>2. sup'[r] \in {"recover", "guard", "work", "stop", "cleanup", "wifi"} \/ sup'[r] = sup[r]
      BY <2>5 DEF RecoverFirst, GuardReady, GuardFails, WorkerEnded, StopWorker, WorkerStopped,
                  CleanupAsks, CleanupStopped, LastRecovery
    <3>3. sup'[r] # "dead"
      BY <2>5, <3>2, <1>1, <1>2 DEF RecoverFirst, GuardReady, GuardFails, WorkerEnded,
                  StopWorker, WorkerStopped, CleanupAsks, CleanupStopped, LastRecovery
    <3> QED BY <2>5, <3>1, <3>2, <3>3
  <2> QED BY <1>2, <2>1, <2>2, <2>3, <2>4, <2>5 DEF ShellStep
<1>3. CASE ~ShellStep(r) /\ sup[r] # "dead"
  <2>1. UNCHANGED shellVars
    BY <1>3 DEF SessionStep, KillWorker, ParentLost, WorkerSteps, RecoverySteps, DaemonDies
  <2> QED BY <1>3, <2>1 DEF shellVars
<1> QED BY <1>1, <1>2, <1>3

\* A step of a session's processes keeps the rest of the invariant.
LEMMA SessionRest ==
  ASSUME BtInv, NEW r \in Runs, SessionStep(r)
  PROVE  WorkerKeepsLease' /\ CleanEnds' /\ OneSession'
<1> USE DEF BtInv, BaseInv
<1>1. UNCHANGED appVars
  BY SessionTypes
<1>2. WorkerKeepsLease'
  <2>1. CASE Step(r)
    BY <1>1, <2>1, HeldStep DEF TypeOK, WorkerKeepsLease, appVars
  <2>2. CASE UNCHANGED leaseVars
    BY <1>1, <2>2 DEF leaseVars, WorkerKeepsLease, LeaseIsHeld, appVars, WorkerAlive,
                      RecoveryIdle
  <2> QED BY <2>1, <2>2, SessionUse
<1>3. CleanEnds'
  <2> SUFFICES ASSUME hurried' = 0
               PROVE  (\A o \in Runs : EndsClean(o)') /\ (~wifi' => saved' # {})
    BY DEF CleanEnds, EndsClean
  <2>1. (\A o \in Runs : EndsClean(o)) /\ (~wifi => saved # {})
    BY <1>1 DEF CleanEnds, EndsClean, appVars
  <2>2. EndsClean(r)' /\ (~wifi' => saved' # {})
    BY <2>1, OwnEnds
  <2>3. ASSUME NEW o \in Runs, o # r
        PROVE  EndsClean(o)'
    BY <2>1, <2>3, OthersStay DEF EndsClean, Cleaning, WorkerAlive, RecoveryIdle
  <2> QED BY <2>2, <2>3
<1>4. OneSession'
  <2> SUFFICES ASSUME crashed + hurried = 0
               PROVE  app # "dead" /\ \A o \in Runs : Busy(o)' => o = cur /\ app \in {"running", "stopping"}
    BY <1>1 DEF OneSession, appVars
  <2>1. app # "dead" /\ \A o \in Runs : Busy(o) => o = cur /\ app \in {"running", "stopping"}
    BY DEF OneSession
  <2>2. Busy(r)' => Busy(r)
    BY DoneIsDone DEF Busy, shellVars, ShellAlive, WorkerAlive, RecoveryIdle
  <2>3. \A o \in Runs \ {r} : Busy(o)' => Busy(o)
    BY OthersStay DEF Busy, ShellAlive, WorkerAlive, RecoveryIdle
  <2> QED BY <2>1, <2>2, <2>3
<1> QED BY <1>2, <1>3, <1>4

\* While nobody hurried, a session whose directory the app removes has ended.
LEMMA RemovedIsDone ==
  ASSUME BtInv, app = "idle", cur # 0, hurried = 0
  PROVE  cur \in Runs /\ ~Busy(cur)
  BY DEF BtInv, BaseInv, TypeOK, AppOrder, CleanEnds, Busy, ShellAlive

\* Removing the directory of a session that has ended disturbs no lease.
LEMMA RemoveKeepsHeld ==
  ASSUME LeaseIsHeld, ChangesDirs, NEW c, c \in Runs => ~Busy(c), marker' = marker \ {c}
  PROVE  LeaseIsHeld'
  BY DEF LeaseIsHeld, ChangesDirs, Busy, WorkerAlive, RecoveryIdle, Leasing

\* A step of the app keeps the rest of the invariant.
LEMMA AppRest ==
  ASSUME BtInv, AppStep
  PROVE  WorkerKeepsLease' /\ CleanEnds' /\ OneSession'
<1> USE DEF BtInv, BaseInv
<1>a. crashed \in Nat /\ hurried \in Nat
  BY Counters
<1>b. ChangesDirs
  BY AppUse
<1>d. crashed' \in Nat /\ hurried' \in Nat
  BY AppBase, BtAssumption DEF BtAssumption, TypeOK
<1>c. CASE hurried' # 0 \/ StopKills \/ ShellKilled
  <2>1. hurried' # 0
    BY <1>a, <1>c DEF StopKills, ShellKilled, Hurry
  <2>2. crashed' + hurried' # 0
    BY <1>d, <2>1, SumIsZero
  <2> QED BY <2>1, <2>2 DEF WorkerKeepsLease, CleanEnds, OneSession
<1>1. CASE hurried' = 0 /\ ~StopKills /\ ~ShellKilled
  <2>1. hurried = 0
    BY <1>1, <1>a DEF AppStep, Start, Poll, Stop, Hurry, Stopped, Close, Crash, Relaunch
  <2>2. WorkerKeepsLease'
    <3>1. CASE Start \/ Close
      <4>1. marker' = marker \ {cur} /\ app = "idle"
        BY <3>1 DEF Start, Close, Discards
      <4>2. cur \in Runs => ~Busy(cur)
        BY <4>1, <2>1, RemovedIsDone, NoSessionZero
      <4> QED BY <4>1, <4>2, <1>b, <2>1, RemoveKeepsHeld DEF WorkerKeepsLease
    <3>2. CASE UNCHANGED leaseVars
      BY <3>2, <2>1 DEF leaseVars, WorkerKeepsLease, LeaseIsHeld, WorkerAlive, RecoveryIdle
    <3> QED BY <3>1, <3>2, <1>1 DEF AppStep, Poll, Stop, Stopped, Crash, Relaunch
  <2>3. CleanEnds'
    <3>1. CASE Start
      BY <2>1, <3>1, <1>b DEF Start, CleanEnds, Cleaning, WorkerAlive, RecoveryIdle, ChangesDirs,
                              TypeOK
    <3>2. CASE Stop
      BY <2>1, <3>2, <1>1 DEF Stop, Hurry, CleanEnds, Cleaning, WorkerAlive, RecoveryIdle,
                              leaseVars
    <3>3. CASE UNCHANGED shellVars
      BY <2>1, <3>3, <1>b DEF shellVars, CleanEnds, Cleaning, WorkerAlive, RecoveryIdle,
                              ChangesDirs
    <3> QED BY <3>1, <3>2, <3>3, <1>1 DEF AppStep, Poll, Stopped, Close, Crash, Relaunch
  <2>4. OneSession'
    <3> SUFFICES ASSUME (crashed + hurried = 0)'
                 PROVE  app' # "dead" /\ \A r \in Runs : Busy(r)' => r = cur' /\ app' \in {"running", "stopping"}
      BY DEF OneSession
    <3>1. crashed = 0 /\ hurried = 0 /\ ~Crash
      BY <1>a, <1>1, <2>1 DEF AppStep, Start, Poll, Stop, Stopped, Close, Crash, Relaunch
    <3>2. app # "dead" /\ \A r \in Runs : Busy(r) => r = cur /\ app \in {"running", "stopping"}
      BY <3>1 DEF OneSession
    <3>3. CASE Start
      BY <3>2, <3>3, <1>b DEF Start, Busy, ShellAlive, WorkerAlive, RecoveryIdle, ChangesDirs,
                              TypeOK
    <3>4. CASE Poll \/ Stopped
      <4>1. cur \in Runs /\ ~Busy(cur)
        BY <3>4, <2>1 DEF Poll, Stopped, TypeOK, AppOrder, CleanEnds, Busy, ShellAlive
      <4>2. \A r \in Runs : ~Busy(r)
        BY <3>2, <4>1
      <4> QED BY <3>4, <4>2, <1>b DEF Poll, Stopped, Busy, ShellAlive, WorkerAlive,
                                     RecoveryIdle, ChangesDirs, shellVars
    <3>5. CASE Stop \/ Close
      BY <3>2, <3>5, <1>b DEF Stop, Close, Busy, ShellAlive, WorkerAlive, RecoveryIdle,
                              ChangesDirs, shellVars
    <3>6. ~Relaunch
      BY <3>2 DEF Relaunch
    <3> QED BY <3>1, <3>3, <3>4, <3>5, <3>6, <1>1 DEF AppStep
  <2> QED BY <2>2, <2>3, <2>4
<1> QED BY <1>c, <1>1

\* The whole invariant holds before the first session.
LEMMA BtInvInit == Init => BtInv
<1> SUFFICES ASSUME Init
             PROVE  BtInv
  OBVIOUS
<1>1. BaseInv
  BY BaseInit
<1>2. WorkerKeepsLease
  BY DEF Init, LeaseInit, WorkerKeepsLease, LeaseIsHeld, Leasing, WorkerAlive, RecoveryIdle
<1>3. CleanEnds
  BY DEF Init, LeaseInit, CleanEnds
<1>4. OneSession
  BY DEF Init, LeaseInit, OneSession, Busy, ShellAlive, WorkerAlive, RecoveryIdle
<1> QED BY <1>1, <1>2, <1>3, <1>4 DEF BtInv

\* Every step keeps the whole invariant.
LEMMA BtInvStep == BtInv /\ [Next]_vars => BtInv'
<1> SUFFICES ASSUME BtInv, [Next]_vars
             PROVE  BtInv'
  OBVIOUS
<1>1. BaseInv'
  BY BaseStep DEF BtInv
<1>2. CASE AppStep
  BY <1>1, <1>2, AppRest DEF BtInv
<1>3. CASE \E r \in Runs : SessionStep(r)
  BY <1>1, <1>3, SessionRest DEF BtInv
<1>4. CASE UNCHANGED vars
  BY <1>1, <1>4 DEF vars, leaseVars, shellVars, appVars, BtInv, WorkerKeepsLease, LeaseIsHeld,
     CleanEnds, Cleaning, OneSession, Busy, ShellAlive, WorkerAlive, RecoveryIdle
<1> QED BY <1>2, <1>3, <1>4, NextCases

\* A worker keeps its marker, and works beside no recovery, as long as nobody
\* hurried a clean-up; the app may crash (cleanup_runtime, cleanup).
THEOREM WorkerAlwaysKeepsLease == Spec => []WorkerKeepsLease
<1>1. BtInv => WorkerKeepsLease
  BY DEF BtInv
<1> QED BY BtInvInit, BtInvStep, <1>1, PTL DEF Spec

\* Without crashes and hurried clean-ups two sessions never work at once.
THEOREM NoOverlap == Spec => []SessionsDoNotOverlap
<1>1. BtInv => SessionsDoNotOverlap
  BY DEF BtInv, OneSession, SessionsDoNotOverlap
<1> QED BY BtInvInit, BtInvStep, <1>1, PTL DEF Spec

\* Wi-Fi is up again once every shell has ended, unless one was hurried.
THEOREM WifiComesBack == Spec => []WifiReturned
<1>1. BtInv => WifiReturned
  <2> SUFFICES ASSUME BtInv, hurried = 0, AllShellsEnded
               PROVE  wifi
    BY DEF WifiReturned
  <2>1. \A r \in Runs : r \notin saved
    BY DEF BtInv, CleanEnds, AllShellsEnded, ShellAlive
  <2>2. saved = {}
    BY <2>1 DEF BtInv, BaseInv, TypeOK
  <2> QED BY <2>2 DEF BtInv, CleanEnds
<1> QED BY BtInvInit, BtInvStep, <1>1, PTL DEF Spec
=============================================================================
