----------------------------- MODULE DiagQueue -----------------------------
(***************************************************************************)
(* How a diagnostic reaches the maintainers: the queue file .pending_crash *)
(* and its uploaders (files/rh/log_uploader.py), the launcher loop that    *)
(* marks crashes and streams and runs one more uploader itself             *)
(* (files/launch.sh), the "clear logs" entry of the settings screen, and   *)
(* the issue relay at the other end (deploy/issue-relay/worker.js).        *)
(*                                                                         *)
(* A fingerprint hashes the reasons of a report and the log it was made    *)
(* from.  The log is not modelled as text: a report is current as long as  *)
(* no line was logged since it was made, and one that is not current       *)
(* equals no report that can still be made.  A report has the last 24000   *)
(* bytes of the logs, which are rotated and capped: it tells that          *)
(* something happened, by naming it or by being made after it, and no more *)
(* is said of which lines of it are still there.                           *)
(***************************************************************************)
EXTENDS Naturals, Sequences, SequencesExt

CONSTANTS
    Reasons,        \* what queue_diagnostic is called with
    Threads,        \* uploader threads an app may have at one time
    Slots,          \* reports the relay may be working on at one time
    MaxReasons,     \* MAX_PENDING_REASONS
    MaxStops,       \* bound: lost answers, refusals, failed writes, power losses
    Cli             \* the launcher's own uploader process

ASSUME DiagAssumption ==
    /\ MaxReasons \in Nat \ {0} /\ MaxStops \in Nat
    /\ Cli \notin Threads /\ "nobody" \notin Threads \cup {Cli}
    /\ "crash" \notin Reasons

VARIABLES
    marked,     \* .pending_crash exists
    reasons,    \* the reasons it lists, oldest first
    history,    \* what .log_upload_state.json remembers, if it is still current
    seen,       \* current reports the relay's key-value store remembers
    up,         \* the uploaders
    relay,      \* the requests the relay is working on
    sh,         \* where launch.sh is
    game,       \* what the app left in /tmp/launch_game.sh
    clearing,   \* the settings screen has seen that no report is pending
    stops,      \* failures so far
    due,        \* history variable: reasons raised, and a crash, no issue tells of
    lost        \* history variable: those of them the user deleted the lines of

queue == <<marked, reasons>>
owed == <<due, lost>>
shell == <<sh, game, clearing>>
vars == <<queue, history, seen, up, relay, shell, stops, owed>>

Uploaders == Threads \cup {Cli}
Crash == "crash"
Startup == "startup_retry"
UserExit == "user_exit_retry"
ExitCode == "exit_code"
StreamEnd == "native_stream"
Unnamed == {Startup, UserExit}
Callers == Reasons \cup {Startup, UserExit, ExitCode, StreamEnd}
Marks == Reasons \cup {Crash}

Nothing == {}
Report == [names : SUBSET Callers, tells : SUBSET Marks, current : BOOLEAN]
NoReport == [names |-> Nothing, tells |-> {}, current |-> FALSE]

Idle == [pc |-> "idle", caller |-> Startup, took |-> {}, report |-> NoReport]
Waiting(c) == [Idle EXCEPT !.pc = "wait", !.caller = c]
Free == [pc |-> "free", by |-> "nobody", report |-> NoReport, known |-> FALSE]

TypeOK ==
    /\ marked \in BOOLEAN /\ clearing \in BOOLEAN
    /\ reasons \in Seq(Reasons) /\ Len(reasons) <= MaxReasons
    /\ IsInjective(reasons) /\ (reasons # <<>> => marked)
    /\ history \in SUBSET Callers /\ seen \subseteq SUBSET Callers
    /\ up \in [Uploaders ->
                 [pc : {"idle", "wait", "collect", "post", "sent", "record", "clear",
                        "known"},
                  caller : Callers, took : SUBSET Reasons, report : Report]]
    /\ relay \in [Slots -> [pc : {"free", "asked", "accepted", "refused"},
                            by : Uploaders \cup {"nobody"}, report : Report,
                            known : BOOLEAN]]
    /\ sh \in {"off", "app", "exit_mark", "exit_send", "game", "stream_send",
               "retry_send"}
    /\ game \in {"none", "stream", "restart"}
    /\ stops \in 0 .. MaxStops
    /\ lost \subseteq due /\ due \subseteq Marks

Init ==
    /\ marked = FALSE /\ reasons = <<>> /\ history = Nothing /\ seen = {}
    /\ up = [u \in Uploaders |-> Idle]
    /\ relay = [s \in Slots |-> Free]
    /\ sh = "off" /\ game = "none" /\ clearing = FALSE /\ stops = 0
    /\ due = {} /\ lost = {}

Fails == stops < MaxStops /\ stops' = stops + 1
Set(u, state) == [up EXCEPT ![u] = state]
Become(u, state) == up' = Set(u, state)
To(u, pc) == up' = [up EXCEPT ![u].pc = pc]

\* _upload_lock: the app's threads share it, and the launcher's process runs
\* when there is no app.
LockFree == \A u \in Uploaders : up[u].pc \in {"idle", "wait"}

InSeen(request) == request.known \/ (request.report.current /\ request.report.names \in seen)

Stale(report, new) == [report EXCEPT !.current = FALSE, !.tells = report.tells \ new]

\* A line is logged while the uploaders and the requests change to up1 and
\* relay1: no report made before is current any more, and none tells of what is
\* new with this line, be it the same reason or a crash once more.
LogsNew(new, up1, relay1) ==
    /\ up' = [u \in Uploaders |-> [up1[u] EXCEPT !.report = Stale(up1[u].report, new)]]
    /\ relay' = [s \in Slots |-> [relay1[s] EXCEPT !.known = InSeen(relay1[s]),
                                                   !.report = Stale(relay1[s].report, new)]]
    /\ history' = Nothing /\ seen' = {}

Logs(up1, relay1) == LogsNew({}, up1, relay1)

-----------------------------------------------------------------------------
(* The queue file.                                                         *)

\* mutant: no limit
RememberedAll(r) == IF r \in ToSet(reasons) THEN reasons ELSE Append(reasons, r)

\* _remember_pending_reason: a new reason is appended and the oldest goes when
\* there are too many.
Remembered(r) ==
    IF r \in ToSet(reasons) THEN reasons
    ELSE LET all == Append(reasons, r)
         IN  IF Len(all) > MaxReasons THEN Tail(all) ELSE all

\* queue_diagnostic, after the caller logged what happened: remember the reason
\* and start an uploader.  A reason that is queued or being sent is raised anew,
\* though the file does not show it.  A write that fails leaves the line only
\* (LogLine).
Raise(r, t) ==
    /\ sh = "app" /\ up[t].pc = "idle"
    /\ reasons' = Remembered(r) /\ marked' = TRUE
    /\ LogsNew({r}, Set(t, Waiting(r)), relay)
    /\ due' = due \cup {r} /\ lost' = lost \ {r}
    /\ UNCHANGED <<shell, stops>>

\* Any line anything on the device logs.
LogLine ==
    /\ sh # "off"
    /\ Logs(up, relay)
    /\ UNCHANGED <<queue, shell, stops, owed>>

\* mutant: the file goes, whatever was added since it was read
ClearedAll(took) == reasons' = <<>> /\ marked' = FALSE

\* The list without what was taken, in its order; a function, since the provers
\* know nothing of SelectSeq.
Without(list, took) ==
    LET kept[i \in 0..Len(list)] ==
            IF i = 0 THEN <<>>
            ELSE IF list[i] \in took THEN kept[i - 1] ELSE Append(kept[i - 1], list[i])
    IN  kept[Len(list)]

\* _clear_uploaded_reasons
Cleared(took) == reasons' = Without(reasons, took) /\ marked' = (reasons' # <<>>)

-----------------------------------------------------------------------------
(* The uploader, _upload_pending.                                          *)

\* What a report is called: the queue, and with it what the launcher or a thread
\* was started for, but not the words for a mere retry.
Named(u) ==
    LET c == up[u].caller
    IN  CASE reasons = <<>> -> {c}
          [] c \in Unnamed  -> ToSet(reasons)
          [] OTHER          -> ToSet(reasons) \cup {c}

\* The lock is taken and the queue is read.
ReadQueue(u) ==
    /\ up[u].pc = "wait" /\ LockFree
    /\ Become(u, IF marked
                 THEN [up[u] EXCEPT !.pc = "collect", !.took = ToSet(reasons),
                                    !.report = [NoReport EXCEPT !.names = Named(u)]]
                 ELSE Idle)
    /\ UNCHANGED <<queue, history, seen, relay, shell, stops, owed>>

\* The same report, or a retry with no reason of its own over the same log, is
\* not sent twice.
Duplicate(u) ==
    /\ history # Nothing
    /\ history = up[u].report.names \/ (up[u].took = {} /\ up[u].caller \in Unnamed)

\* A report tells of the reasons it names, and of the crash it was made after.
Telling(names) == due \cap (names \cup {Crash})

Collected(names) == [names |-> names, tells |-> Telling(names), current |-> TRUE]

Collect(u) ==
    /\ up[u].pc = "collect"
    /\ Become(u, [up[u] EXCEPT !.pc = IF Duplicate(u) THEN "known" ELSE "post",
                               !.report = Collected(up[u].report.names)])
    /\ UNCHANGED <<queue, history, seen, relay, shell, stops, owed>>

\* _post_relay
Post(u, s) ==
    /\ up[u].pc = "post" /\ relay[s].pc = "free"
    /\ To(u, "sent")
    /\ relay' = [relay EXCEPT ![s] = [pc |-> "asked", by |-> u,
                                      report |-> up[u].report, known |-> FALSE]]
    /\ UNCHANGED <<queue, history, seen, shell, stops, owed>>

\* The answer does not come within TIMEOUT, or the connection fails: the relay
\* may go on with the request.  The uploader logs it and keeps the queue.
Forgotten(gone) ==
    [s \in Slots |-> IF relay[s].by \in gone
                     THEN [relay[s] EXCEPT !.by = "nobody"] ELSE relay[s]]

GiveUp(u) ==
    /\ up[u].pc \in {"post", "sent"} /\ Fails
    /\ Logs(Set(u, Idle), Forgotten({u}))
    /\ UNCHANGED <<queue, shell, owed>>

Answered(u, s, answer) == up[u].pc = "sent" /\ relay[s].by = u /\ relay[s].pc = answer
Freed(s) == [relay EXCEPT ![s] = Free]

Refused(u, s) ==
    /\ Answered(u, s, "refused")
    /\ Logs(Set(u, Idle), Freed(s))
    /\ UNCHANGED <<queue, shell, stops, owed>>

Accepted(u, s) ==
    /\ Answered(u, s, "accepted")
    /\ To(u, "record")
    /\ relay' = Freed(s)
    /\ UNCHANGED <<queue, history, seen, shell, stops, owed>>

\* .log_upload_state.json is written.
Record(u) ==
    /\ up[u].pc = "record"
    /\ To(u, "clear")
    /\ history' = IF up[u].report.current THEN up[u].report.names ELSE Nothing
    /\ UNCHANGED <<queue, seen, relay, shell, stops, owed>>

\* The queue is cleared, and that the report was uploaded is logged.
Clear(u) ==
    /\ up[u].pc = "clear"
    /\ Cleared(up[u].took)
    /\ Logs(Set(u, Idle), relay)
    /\ UNCHANGED <<shell, stops, owed>>

ClearDuplicate(u) ==
    /\ up[u].pc = "known"
    /\ Cleared(up[u].took)
    /\ Become(u, Idle)
    /\ UNCHANGED <<history, seen, relay, shell, stops, owed>>

\* An OSError from either write: the queue is kept.  The card that refuses them
\* takes no log line either.
WriteFails(u) ==
    /\ up[u].pc \in {"record", "clear", "known"} /\ Fails
    /\ Become(u, Idle)
    /\ UNCHANGED <<queue, history, seen, relay, shell, owed>>

-----------------------------------------------------------------------------
(* The relay, handleReport.  Between its awaits other requests run, but none *)
(* with the same fingerprint: a device that did not wait for an answer has   *)
(* logged that.  So each outcome is one step.                                *)

Answer(s, answer) ==
    /\ relay[s].pc = "asked"
    /\ relay' = [relay EXCEPT ![s].pc = answer]
    /\ UNCHANGED <<queue, history, up, shell>>

\* A report that is remembered is accepted again without a second issue.
AcceptAgain(s) ==
    /\ InSeen(relay[s])
    /\ Answer(s, "accepted")
    /\ UNCHANGED <<seen, stops, owed>>

NewIssue(s) ==
    /\ ~InSeen(relay[s])
    /\ due' = due \ relay[s].report.tells /\ lost' = lost \ relay[s].report.tells

CreateIssue(s) ==
    /\ NewIssue(s)
    /\ Answer(s, "accepted")
    /\ seen' = IF relay[s].report.current THEN seen \cup {relay[s].report.names} ELSE seen
    /\ UNCHANGED stops

\* The issue exists, the store failed.
CreateUnseen(s) ==
    /\ NewIssue(s) /\ Fails
    /\ Answer(s, "refused")
    /\ UNCHANGED seen

\* The rate limit, the checks of the payload, or GitHub.
Refuse(s) ==
    /\ Answer(s, "refused") /\ Fails
    /\ UNCHANGED <<seen, owed>>

\* The answer to a request nobody waits for any more.
Unheard(s) ==
    /\ relay[s].by = "nobody" /\ relay[s].pc \in {"accepted", "refused"}
    /\ relay' = Freed(s)
    /\ UNCHANGED <<queue, history, seen, up, shell, stops, owed>>

-----------------------------------------------------------------------------
(* The launcher, and the app it runs.                                      *)

\* main of app.py: what is pending is retried as soon as the app is up.
AppStarts ==
    /\ sh' = "app" /\ game' = "none"
    /\ \E t \in Threads : Logs(IF marked THEN Set(t, Waiting(Startup)) ELSE up, relay)
    /\ UNCHANGED <<queue, clearing, stops, owed>>

Open == sh = "off" /\ AppStarts

\* Uploaders that are killed; what they have sent goes on.
Killed(gone) ==
    Logs([u \in Uploaders |-> IF u \in gone THEN Idle ELSE up[u]], Forgotten(gone))

\* The app ends, and with it its uploaders, which are daemon threads.
AppEnds(code, left) ==
    /\ sh = "app"
    /\ IF left = "restart" THEN Fails ELSE UNCHANGED stops
    /\ sh' = IF code # 0 THEN "exit_mark" ELSE "game"
    /\ game' = left /\ clearing' = FALSE
    /\ Killed(Threads)
    /\ UNCHANGED <<queue, owed>>

\* What went wrong, or the stream, is in the log: touch .pending_crash, and the
\* uploader is run.
MarkAndSend(caller, next) ==
    /\ marked' = TRUE
    /\ LogsNew({Crash}, Set(Cli, Waiting(caller)), relay)
    /\ due' = due \cup {Crash} /\ lost' = lost \ {Crash}
    /\ sh' = next
    /\ UNCHANGED <<reasons, game, clearing, stops>>

MarkExit == sh = "exit_mark" /\ MarkAndSend(ExitCode, "exit_send")

\* The uploader the launcher waits for has ended.
Sent(phase) == sh = phase /\ up[Cli].pc = "idle"
Goto(next) ==
    /\ sh' = next
    /\ UNCHANGED <<queue, history, seen, up, relay, game, clearing, stops, owed>>

ExitSent == Sent("exit_send") /\ Goto("game")

\* The stream, well ended or not, is reported; a restart after an update is not.
StreamEnds == sh = "game" /\ game = "stream" /\ MarkAndSend(StreamEnd, "stream_send")
StreamSent == Sent("stream_send") /\ AppStarts
Restart == sh = "game" /\ game = "restart" /\ AppStarts

\* mutant: what is pending is left to the next start
LeaveQuietly == sh = "game" /\ game = "none" /\ Goto("off")

\* The user has left: one more try if something is pending.  A process that
\* imports the logger logs that.
UserLeft ==
    /\ sh = "game" /\ game = "none"
    /\ IF marked
       THEN /\ Logs(Set(Cli, Waiting(UserExit)), relay) /\ sh' = "retry_send"
            /\ UNCHANGED <<queue, game, clearing, stops, owed>>
       ELSE Goto("off")
RetrySent == Sent("retry_send") /\ Goto("off")

\* mutant: protect_pending is ignored
CheckNothing ==
    /\ sh = "app" /\ ~clearing
    /\ clearing' = TRUE
    /\ UNCHANGED <<queue, history, seen, up, relay, sh, game, stops, owed>>

\* clear_runtime_logs: the logs go only when no report is pending.
CheckPending ==
    /\ sh = "app" /\ ~clearing /\ ~marked
    /\ clearing' = TRUE
    /\ UNCHANGED <<queue, history, seen, up, relay, sh, game, stops, owed>>

ClearLogs ==
    /\ sh = "app" /\ clearing
    /\ Logs(up, relay)
    /\ lost' = due
    /\ clearing' = FALSE
    /\ UNCHANGED <<queue, sh, game, stops, due>>

PowerLoss ==
    /\ sh # "off" /\ Fails
    /\ sh' = "off" /\ game' = "none" /\ clearing' = FALSE
    /\ Killed(Uploaders)
    /\ UNCHANGED <<queue, owed>>

-----------------------------------------------------------------------------
Upload(u) ==
    \/ ReadQueue(u) \/ Collect(u) \/ Record(u) \/ Clear(u) \/ ClearDuplicate(u)
    \/ \E s \in Slots : Post(u, s) \/ Accepted(u, s) \/ Refused(u, s)

Relay(s) == AcceptAgain(s) \/ CreateIssue(s) \/ Unheard(s)

Launcher ==
    \/ MarkExit \/ ExitSent \/ StreamEnds \/ StreamSent \/ Restart
    \/ UserLeft \/ RetrySent

Owner == Open \/ \E code \in {0, 1}, left \in {"none", "stream", "restart"} :
                     AppEnds(code, left)

Next ==
    \/ \E u \in Uploaders : Upload(u) \/ GiveUp(u) \/ WriteFails(u)
    \/ \E s \in Slots : Relay(s) \/ CreateUnseen(s) \/ Refuse(s)
    \/ Launcher \/ Owner
    \/ \E r \in Reasons, t \in Threads : Raise(r, t)
    \/ LogLine \/ CheckPending \/ ClearLogs \/ PowerLoss

Spec == Init /\ [][Next]_vars

\* Every process the device and the relay run goes on; the owner goes on using
\* the app: it is opened again, and left.
FairSpec ==
    /\ Spec
    /\ \A u \in Uploaders : WF_vars(Upload(u))
    /\ \A s \in Slots : WF_vars(Relay(s))
    /\ WF_vars(Launcher) /\ WF_vars(Owner)

-----------------------------------------------------------------------------
(* Properties.                                                             *)

\* A reason leaves the queue file only when there is an issue that names it, made
\* after it was last raised, or in one of the two ways the code has to lose it:
\* displaced by a newer one, as the oldest of a full queue, or cleared by an
\* uploader that took it and made its report before it was raised once more.
Displaced(r) ==
    r = Head(reasons) /\ Len(reasons) = MaxReasons /\ Len(reasons') = MaxReasons
RaisedSince(r) ==
    \E u \in Uploaders : /\ up[u].pc \in {"clear", "known"}
                         /\ r \in up[u].took \ up[u].report.tells
EntriesLeaveReported ==
    [][\A r \in ToSet(reasons) \ ToSet(reasons') :
          r \notin due' \/ Displaced(r) \/ RaisedSince(r)]_vars

\* A crash or a stream the launcher marked stays marked until there is an issue
\* made after it, whatever fails and however often the device loses its power,
\* and the user cannot delete its lines before.
CrashKeepsMark == Crash \in due => marked /\ Crash \notin lost

\* When failures end, what waits in the queue leaves it, if the owner goes on
\* opening and leaving the app.
QueueDrains == \A r \in Reasons : r \in ToSet(reasons) ~> r \notin ToSet(reasons)

\* What a caller of queue_diagnostic may expect: what it raised is reported, be it
\* for the second time.
RaisedIsReported ==
    [][\A r \in ToSet(reasons) \ ToSet(reasons') : r \notin due' \/ Displaced(r)]_vars

\* What docs/NEW_SESSION_HANDOFF.md says of retries: that of an error there is an
\* issue of already is recognised, so a retry makes an issue only of something no
\* issue has told of.
RetryIsDeduped ==
    [][\A s \in Slots, u \in Uploaders :
          CreateIssue(s) /\ relay[s].by = u /\ up[u].caller \in Unnamed
          => relay[s].report.tells \cap due # {}]_vars

\* What clear_runtime_logs says of itself (files/rh/logger.py): deleting the logs
\* does not lose a report that waits for its upload.
PendingKeepsLog == ToSet(reasons) \cap lost = {}
=============================================================================
