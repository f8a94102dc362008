-------------------------- MODULE DiagQueueProofs --------------------------
(***************************************************************************)
(* Proofs about DiagQueue, for any number of reasons, uploaders, requests  *)
(* and failures: a crash the launcher marked stays marked until there is   *)
(* an issue made after it; the queue file keeps its shape and its limit;   *)
(* and an entry leaves it only once there is an issue of it, displaced, or *)
(* raised once more while its report is sent.                              *)
(***************************************************************************)
EXTENDS DiagQueue, WellFoundedInduction, TLAPS

-----------------------------------------------------------------------------
(* The inductive invariant.                                                *)

\* The records have their fields.  What sets of reasons they name does not
\* matter: they come from some T that has all the code can put there.
UploaderPc == {"idle", "wait", "collect", "post", "sent", "record", "clear", "known"}
RequestPc == {"free", "asked", "accepted", "refused"}
Waiters == Uploaders \cup {"nobody"}
ReportIn(T) == [names : T, tells : T, current : BOOLEAN]
UploaderIn(T) ==
    [pc : UploaderPc, caller : Callers, took : T, report : ReportIn(T)]
RequestIn(T) ==
    [pc : RequestPc, by : Waiters, report : ReportIn(T), known : BOOLEAN]

ShapesIn(T) ==
    /\ {} \in T
    /\ up \in [Uploaders -> UploaderIn(T)]
    /\ relay \in [Slots -> RequestIn(T)]
Shapes == \E T : ShapesIn(T)

\* Threads work only while the app runs, the launcher's process only while the
\* launcher waits for it, and an uploader waits for one request, with its report.
WhoRuns ==
    /\ \A t \in Threads : up[t].pc # "idle" => sh = "app"
    /\ up[Cli].pc # "idle" => sh \in {"exit_send", "stream_send", "retry_send"}
    /\ clearing => sh = "app"

WhoWaits ==
    \A s \in Slots : \A u \in Uploaders :
        relay[s].by = u => /\ up[u].pc = "sent"
                           /\ relay[s].report.tells = up[u].report.tells
                           /\ \A q \in Slots : relay[q].by = u => q = s

\* If a crash is owed, this report tells of it.
TellsCrash(rep) == Crash \in due => Crash \in rep.tells

\* The crash is no longer owed where something takes for granted that there is an
\* issue of it: the history, the relay's memory, an uploader after its answer.
CrashIsTold ==
    /\ clearing \/ history # Nothing \/ seen # {} => Crash \notin due
    /\ \A u \in Uploaders :
          /\ up[u].pc \in {"post", "sent"} => TellsCrash(up[u].report)
          /\ up[u].pc \in {"record", "clear", "known"} => Crash \notin due
    /\ \A s \in Slots :
          /\ relay[s].report.current => TellsCrash(relay[s].report)
          /\ relay[s].by \in Uploaders /\ (relay[s].known \/ relay[s].pc = "accepted")
             => Crash \notin due

MarkInv == Shapes /\ WhoRuns /\ WhoWaits /\ CrashIsTold /\ CrashKeepsMark

-----------------------------------------------------------------------------
(* A line is logged.                                                       *)

\* Logging something new keeps the shapes, what else the reports tell, and every
\* field but current and known.
LEMMA LogsFields ==
  ASSUME NEW T, NEW new, NEW up1 \in [Uploaders -> UploaderIn(T)],
         NEW relay1 \in [Slots -> RequestIn(T)],
         LogsNew(new, up1, relay1)
  PROVE  /\ \E T1 : /\ T \subseteq T1
                    /\ up' \in [Uploaders -> UploaderIn(T1)]
                    /\ relay' \in [Slots -> RequestIn(T1)]
         /\ history' = Nothing /\ seen' = {}
         /\ \A u \in Uploaders :
               up'[u].pc = up1[u].pc /\ up'[u].report.tells = up1[u].report.tells \ new
         /\ \A s \in Slots :
               /\ relay'[s].pc = relay1[s].pc /\ relay'[s].by = relay1[s].by
               /\ relay'[s].report.tells = relay1[s].report.tells \ new
               /\ relay'[s].known = InSeen(relay1[s])
               /\ relay'[s].report.current = FALSE
<1>0. PICK T1 : T1 = T \cup {x \ new : x \in T}
  OBVIOUS
<1>1. \A rep \in ReportIn(T) :
         /\ Stale(rep, new) \in ReportIn(T1)
         /\ Stale(rep, new).tells = rep.tells \ new /\ Stale(rep, new).current = FALSE
  <2> TAKE rep \in ReportIn(T)
  <2>1. PICK told \in T1 : told = rep.tells \ new
    BY <1>0 DEF ReportIn
  <2>2. Stale(rep, new) = [rep EXCEPT !.current = FALSE, !.tells = told]
    BY <2>1 DEF Stale
  <2> QED BY <1>0, <2>1, <2>2 DEF ReportIn
<1>2. ASSUME NEW u \in Uploaders
      PROVE  /\ up'[u] \in UploaderIn(T1)
             /\ up'[u].pc = up1[u].pc /\ up'[u].report.tells = up1[u].report.tells \ new
  <2>1. up'[u] = [up1[u] EXCEPT !.report = Stale(up1[u].report, new)]
    BY DEF LogsNew
  <2>2. up1[u] \in UploaderIn(T) /\ up1[u].report \in ReportIn(T)
    BY DEF UploaderIn
  <2>3. PICK rep \in ReportIn(T1) : rep = Stale(up1[u].report, new)
    BY <1>1, <2>2
  <2>4. up'[u] = [up1[u] EXCEPT !.report = rep]
    BY <2>1, <2>3
  <2>5. up'[u] \in UploaderIn(T1) /\ up'[u].pc = up1[u].pc /\ up'[u].report = rep
    BY <1>0, <2>2, <2>4 DEF UploaderIn
  <2> QED BY <1>1, <2>2, <2>3, <2>5
<1>3. ASSUME NEW s \in Slots
      PROVE  /\ relay'[s] \in RequestIn(T1)
             /\ relay'[s].pc = relay1[s].pc /\ relay'[s].by = relay1[s].by
             /\ relay'[s].report.tells = relay1[s].report.tells \ new
             /\ relay'[s].known = InSeen(relay1[s])
             /\ relay'[s].report.current = FALSE
  <2>1. relay'[s] = [relay1[s] EXCEPT !.known = InSeen(relay1[s]),
                                      !.report = Stale(relay1[s].report, new)]
    BY DEF LogsNew
  <2>2. relay1[s] \in RequestIn(T) /\ relay1[s].report \in ReportIn(T)
    BY DEF RequestIn
  <2>3. PICK b \in BOOLEAN : b = InSeen(relay1[s])
    BY DEF InSeen, RequestIn
  <2>4. PICK rep \in ReportIn(T1) : rep = Stale(relay1[s].report, new)
    BY <1>1, <2>2
  <2>5. relay'[s] = [relay1[s] EXCEPT !.known = b, !.report = rep]
    BY <2>1, <2>3, <2>4
  <2>6. /\ relay'[s] \in RequestIn(T1)
        /\ relay'[s].pc = relay1[s].pc /\ relay'[s].by = relay1[s].by
        /\ relay'[s].report = rep /\ relay'[s].known = b
    BY <2>2, <2>5 DEF RequestIn
  <2> QED BY <1>1, <2>2, <2>3, <2>4, <2>6
<1>5. history' = Nothing /\ seen' = {}
  BY DEF LogsNew
<1>6. up' \in [Uploaders -> UploaderIn(T1)] /\ relay' \in [Slots -> RequestIn(T1)]
  BY <1>2, <1>3 DEF LogsNew
<1> QED BY <1>0, <1>2, <1>3, <1>5, <1>6

\* A step that logs, leaves, stops or starts uploaders, and only forgets or
\* answers requests, keeps what the invariant says of reports, unless it owes a
\* crash while an uploader works.
LEMMA NewsStep ==
  ASSUME MarkInv, NEW T, ShapesIn(T),
         NEW up1 \in [Uploaders -> UploaderIn(T)],
         NEW relay1 \in [Slots -> RequestIn(T)],
         NEW new, LogsNew(new, up1, relay1),
         \A u \in Uploaders : up1[u] = up[u] \/ up1[u].pc \in {"idle", "wait"},
         \A s \in Slots : \A u \in Uploaders :
            relay1[s].by = u => relay1[s] = relay[s] /\ up1[u] = up[u],
         \/ Crash \notin new /\ (Crash \in due' => Crash \in due)
         \/ ~clearing' /\ \A u \in Uploaders : up1[u].pc \in {"idle", "wait"},
         clearing' => clearing
  PROVE  /\ Shapes' /\ WhoWaits' /\ CrashIsTold'
         /\ \A u \in Uploaders : up'[u].pc = up1[u].pc
<1>1. /\ \E T1 : /\ T \subseteq T1
                 /\ up' \in [Uploaders -> UploaderIn(T1)]
                 /\ relay' \in [Slots -> RequestIn(T1)]
      /\ history' = Nothing /\ seen' = {}
      /\ \A u \in Uploaders :
            up'[u].pc = up1[u].pc /\ up'[u].report.tells = up1[u].report.tells \ new
      /\ \A s \in Slots :
            /\ relay'[s].pc = relay1[s].pc /\ relay'[s].by = relay1[s].by
            /\ relay'[s].report.tells = relay1[s].report.tells \ new
            /\ relay'[s].known = InSeen(relay1[s])
            /\ relay'[s].report.current = FALSE
  BY LogsFields
<1>2. Shapes'
  BY <1>1 DEF Shapes, ShapesIn
<1>3. WhoWaits'
  <2> SUFFICES ASSUME NEW s \in Slots, NEW u \in Uploaders, relay'[s].by = u
               PROVE  /\ up'[u].pc = "sent"
                      /\ relay'[s].report.tells = up'[u].report.tells
                      /\ \A q \in Slots : relay'[q].by = u => q = s
    BY DEF WhoWaits
  <2>1. relay1[s] = relay[s] /\ up1[u] = up[u] /\ relay[s].by = u
    BY <1>1
  <2>2. \A q \in Slots : relay'[q].by = u => relay[q].by = u
    BY <1>1
  <2>3. /\ up[u].pc = "sent" /\ relay[s].report.tells = up[u].report.tells
        /\ \A q \in Slots : relay[q].by = u => q = s
    BY <2>1 DEF MarkInv, WhoWaits
  <2>4. \A q \in Slots : relay'[q].by = u => q = s
    BY <2>2, <2>3
  <2>5. up'[u].pc = "sent"
    BY <1>1, <2>1, <2>3
  <2>6. relay'[s].report.tells = up'[u].report.tells
    <3>1. /\ relay'[s].report.tells = relay1[s].report.tells \ new
          /\ up'[u].report.tells = up1[u].report.tells \ new
      BY <1>1
    <3> QED BY <2>1, <2>3, <3>1
  <2> QED BY <2>4, <2>5, <2>6
<1>4. ASSUME NEW u \in Uploaders
      PROVE  /\ (up[u].pc \in {"post", "sent"} => TellsCrash(up[u].report))'
             /\ (up[u].pc \in {"record", "clear", "known"} => Crash \notin due)'
  BY <1>1 DEF MarkInv, CrashIsTold, TellsCrash
<1>5. ASSUME NEW s \in Slots, relay'[s].by \in Uploaders
      PROVE  relay'[s].known \/ relay'[s].pc = "accepted" => Crash \notin due'
  <2>1. PICK u \in Uploaders : u = relay'[s].by
    BY <1>5
  <2>2. relay1[s] = relay[s] /\ up1[u] = up[u] /\ relay[s].by = u
    BY <1>1, <2>1
  <2>3. up[u].pc = "sent"
    BY <2>2 DEF MarkInv, WhoWaits
  <2>4. Crash \in due' => Crash \in due
    BY <2>2, <2>3, Zenon
  <2>5. InSeen(relay[s]) => Crash \notin due
    BY <2>1, <2>2 DEF MarkInv, CrashIsTold, InSeen
  <2> QED BY <1>1, <2>1, <2>2, <2>4, <2>5 DEF MarkInv, CrashIsTold
<1>6. clearing' \/ history' # Nothing \/ seen' # {} => Crash \notin due'
  BY <1>1 DEF MarkInv, CrashIsTold
<1>7. CrashIsTold'
  BY <1>1, <1>4, <1>5, <1>6 DEF CrashIsTold
<1> QED BY <1>1, <1>2, <1>3, <1>7

\* The same for a line that tells of nothing new.
LEMMA LoggedStep ==
  ASSUME MarkInv, NEW T, ShapesIn(T),
         NEW up1 \in [Uploaders -> UploaderIn(T)],
         NEW relay1 \in [Slots -> RequestIn(T)],
         Logs(up1, relay1),
         \A u \in Uploaders : up1[u] = up[u] \/ up1[u].pc \in {"idle", "wait"},
         \A s \in Slots : \A u \in Uploaders :
            relay1[s].by = u => relay1[s] = relay[s] /\ up1[u] = up[u],
         Crash \in due' => Crash \in due, clearing' => clearing
  PROVE  /\ Shapes' /\ WhoWaits' /\ CrashIsTold'
         /\ \A u \in Uploaders : up'[u].pc = up1[u].pc
<1>1. LogsNew({}, up1, relay1) /\ Crash \notin {}
  BY DEF Logs
<1> HIDE DEF Crash
<1> QED BY <1>1, NewsStep

-----------------------------------------------------------------------------
(* Initially.                                                              *)

LEMMA InertRecords ==
  ASSUME NEW T, {} \in T
  PROVE  NoReport \in ReportIn(T) /\ Idle \in UploaderIn(T) /\ Free \in RequestIn(T)
<1>1. NoReport \in ReportIn(T)
  BY DEF NoReport, Nothing, ReportIn
<1>2. Startup \in Callers /\ "nobody" \in Waiters
  BY DEF Callers, Waiters
<1>3. Idle \in UploaderIn(T)
  BY <1>1, <1>2 DEF Idle, UploaderIn, UploaderPc
<1>4. Free \in RequestIn(T)
  BY <1>1, <1>2 DEF Free, RequestIn, RequestPc
<1> QED BY <1>1, <1>3, <1>4

LEMMA MarkInit == Init => MarkInv
<1> SUFFICES ASSUME Init PROVE MarkInv
  OBVIOUS
<1>1. PICK T : T = {{}}
  OBVIOUS
<1>3. Idle \in UploaderIn(T) /\ Free \in RequestIn(T)
  BY <1>1, InertRecords
<1>4. Shapes
  BY <1>1, <1>3 DEF Init, Shapes, ShapesIn
<1>5. /\ Idle.pc = "idle" /\ Free.by = "nobody" /\ Free.pc = "free"
      /\ Free.known = FALSE /\ Free.report.current = FALSE
  BY DEF Idle, Free, NoReport
<1>6. WhoRuns /\ WhoWaits /\ CrashIsTold /\ CrashKeepsMark
  BY <1>5, DiagAssumption
     DEF Init, WhoRuns, WhoWaits, CrashIsTold, CrashKeepsMark, Uploaders, Nothing
<1> QED BY <1>4, <1>6 DEF MarkInv

-----------------------------------------------------------------------------
(* The uploaders.                                                          *)

\* An uploader that waits for no answer becomes x, and nothing is logged.
LEMMA PlainStep ==
  ASSUME MarkInv, NEW T, ShapesIn(T), NEW u \in Uploaders, NEW x \in UploaderIn(T),
         up[u].pc \notin {"idle", "sent"}, up' = [up EXCEPT ![u] = x],
         x.pc # "sent", x.pc = "post" => TellsCrash(x.report),
         x.pc \in {"record", "clear", "known"} => Crash \notin due,
         relay' = relay, seen' = seen, shell' = shell, owed' = owed,
         history' = history \/ Crash \notin due
  PROVE  Shapes' /\ WhoRuns' /\ WhoWaits' /\ CrashIsTold'
<1>1. /\ up' \in [Uploaders -> UploaderIn(T)] /\ up'[u] = x
      /\ \A v \in Uploaders : v # u => up'[v] = up[v]
  BY DEF ShapesIn
<1>2. Shapes'
  BY <1>1 DEF Shapes, ShapesIn
<1>3. WhoRuns'
  BY <1>1 DEF MarkInv, WhoRuns, Uploaders, shell
<1>4. WhoWaits'
  BY <1>1 DEF MarkInv, WhoWaits
<1>5. CrashIsTold'
  BY <1>1 DEF MarkInv, CrashIsTold, TellsCrash, shell, owed
<1> QED BY <1>2, <1>3, <1>4, <1>5

LEMMA ReadQueueStep ==
  ASSUME MarkInv, NEW u \in Uploaders, ReadQueue(u)
  PROVE  MarkInv'
<1>1. PICK T0 : ShapesIn(T0)
  BY DEF MarkInv, Shapes
<1>2. PICK T : T = T0 \cup {ToSet(reasons), Named(u)}
  OBVIOUS
<1>3. ShapesIn(T)
  BY <1>1, <1>2 DEF ShapesIn, UploaderIn, RequestIn, ReportIn
<1>4. up[u] \in UploaderIn(T) /\ Idle \in UploaderIn(T) /\ NoReport \in ReportIn(T)
  BY <1>3, InertRecords DEF ShapesIn
<1> DEFINE rep == [NoReport EXCEPT !.names = Named(u)]
           x == [up[u] EXCEPT !.pc = "collect", !.took = ToSet(reasons), !.report = rep]
<1>5. rep \in ReportIn(T)
  BY <1>2, <1>4 DEF ReportIn
<1>6. x \in UploaderIn(T) /\ x.pc = "collect"
  <2> HIDE DEF rep
  <2> QED BY <1>2, <1>4, <1>5 DEF UploaderIn, UploaderPc
<1>7. PICK y \in UploaderIn(T) : up' = [up EXCEPT ![u] = y] /\ y.pc \in {"collect", "idle"}
  <2> HIDE DEF x
  <2>1. CASE marked
    BY <2>1, <1>6 DEF ReadQueue, Become, Set, x
  <2>2. CASE ~marked
    BY <2>2, <1>4 DEF ReadQueue, Become, Set, Idle
  <2> QED BY <2>1, <2>2
<1>8. Shapes' /\ WhoRuns' /\ WhoWaits' /\ CrashIsTold'
  BY <1>3, <1>7, PlainStep DEF ReadQueue, shell, owed
<1>9. CrashKeepsMark'
  BY DEF MarkInv, CrashKeepsMark, ReadQueue, queue, owed
<1> QED BY <1>8, <1>9 DEF MarkInv

LEMMA CollectStep ==
  ASSUME MarkInv, NEW u \in Uploaders, Collect(u)
  PROVE  MarkInv'
<1>1. PICK T0 : ShapesIn(T0)
  BY DEF MarkInv, Shapes
<1> DEFINE names == up[u].report.names
           told == Telling(names)
<1>2. PICK T : T = T0 \cup {told}
  OBVIOUS
<1>3. ShapesIn(T)
  BY <1>1, <1>2 DEF ShapesIn, UploaderIn, RequestIn, ReportIn
<1>4. up[u] \in UploaderIn(T) /\ names \in T
  BY <1>3 DEF ShapesIn, UploaderIn, ReportIn
<1>5. PICK rep \in ReportIn(T) : rep = Collected(names) /\ rep.tells = told
  <2>1. told \in T
    BY <1>2
  <2>2. Collected(names) = [names |-> names, tells |-> told, current |-> TRUE]
    BY DEF Collected
  <2> HIDE DEF names, told
  <2>3. [names |-> names, tells |-> told, current |-> TRUE] \in ReportIn(T)
    BY <1>4, <2>1 DEF ReportIn
  <2> QED BY <2>2, <2>3
<1>6. PICK pc \in {"known", "post"} :
         /\ pc = IF Duplicate(u) THEN "known" ELSE "post"
         /\ pc = "known" => history # Nothing
  BY DEF Duplicate
<1> DEFINE y == [up[u] EXCEPT !.pc = pc, !.report = rep]
<1>7. y \in UploaderIn(T) /\ y.pc = pc /\ y.report = rep
  BY <1>4, <1>5, <1>6 DEF UploaderIn, UploaderPc
<1>8. up' = [up EXCEPT ![u] = y]
  BY <1>5, <1>6 DEF Collect, Become, Set
<1>9. TellsCrash(rep)
  BY <1>5 DEF TellsCrash, Telling
<1>10. pc = "known" => Crash \notin due
  BY <1>6 DEF MarkInv, CrashIsTold
<1>11. Shapes' /\ WhoRuns' /\ WhoWaits' /\ CrashIsTold'
  <2> HIDE DEF y
  <2> QED BY <1>3, <1>6, <1>7, <1>8, <1>9, <1>10, PlainStep DEF Collect, shell, owed
<1>12. CrashKeepsMark'
  BY DEF MarkInv, CrashKeepsMark, Collect, queue, owed
<1> QED BY <1>11, <1>12 DEF MarkInv

LEMMA RecordStep ==
  ASSUME MarkInv, NEW u \in Uploaders, Record(u)
  PROVE  MarkInv'
<1>1. PICK T : ShapesIn(T)
  BY DEF MarkInv, Shapes
<1> DEFINE x == [up[u] EXCEPT !.pc = "clear"]
<1>2. x \in UploaderIn(T) /\ x.pc = "clear"
  BY <1>1 DEF ShapesIn, UploaderIn, UploaderPc
<1>3. up' = [up EXCEPT ![u] = x] /\ up[u].pc = "record"
  BY DEF Record, To
<1>4. Crash \notin due
  BY <1>3 DEF MarkInv, CrashIsTold
<1>5. Shapes' /\ WhoRuns' /\ WhoWaits' /\ CrashIsTold'
  <2> HIDE DEF x
  <2> QED BY <1>1, <1>2, <1>3, <1>4, PlainStep DEF Record, shell, owed
<1>6. CrashKeepsMark'
  BY DEF MarkInv, CrashKeepsMark, Record, queue, owed
<1> QED BY <1>5, <1>6 DEF MarkInv

LEMMA ClearDuplicateStep ==
  ASSUME MarkInv, NEW u \in Uploaders, ClearDuplicate(u)
  PROVE  MarkInv'
<1>1. PICK T : ShapesIn(T)
  BY DEF MarkInv, Shapes
<1>2. Idle \in UploaderIn(T) /\ Idle.pc = "idle"
  BY <1>1, InertRecords DEF ShapesIn, Idle
<1>3. up' = [up EXCEPT ![u] = Idle] /\ up[u].pc = "known"
  BY DEF ClearDuplicate, Become, Set
<1>4. Crash \notin due
  BY <1>3 DEF MarkInv, CrashIsTold
<1>5. Shapes' /\ WhoRuns' /\ WhoWaits' /\ CrashIsTold'
  BY <1>1, <1>2, <1>3, <1>4, PlainStep DEF ClearDuplicate, shell, owed
<1>6. CrashKeepsMark'
  BY <1>4 DEF CrashKeepsMark, ClearDuplicate, owed
<1> QED BY <1>5, <1>6 DEF MarkInv

\* A write fails.
LEMMA WriteFailsStep ==
  ASSUME MarkInv, NEW u \in Uploaders, WriteFails(u)
  PROVE  MarkInv'
<1>1. PICK T : ShapesIn(T)
  BY DEF MarkInv, Shapes
<1>2. Idle \in UploaderIn(T) /\ Idle.pc = "idle"
  BY <1>1, InertRecords DEF ShapesIn, Idle
<1>3. up' = [up EXCEPT ![u] = Idle] /\ up[u].pc \in {"record", "clear", "known"}
  BY DEF WriteFails, Become, Set
<1>4. Shapes' /\ WhoRuns' /\ WhoWaits' /\ CrashIsTold'
  BY <1>1, <1>2, <1>3, PlainStep DEF WriteFails, shell, owed
<1>5. CrashKeepsMark'
  BY DEF MarkInv, CrashKeepsMark, WriteFails, queue, owed
<1> QED BY <1>4, <1>5 DEF MarkInv

LEMMA PostStep ==
  ASSUME MarkInv, NEW u \in Uploaders, NEW s \in Slots, Post(u, s), DiagAssumption
  PROVE  MarkInv'
<1>1. PICK T : ShapesIn(T)
  BY DEF MarkInv, Shapes
<1>2. up[u] \in UploaderIn(T) /\ up[u].report \in ReportIn(T) /\ up[u].pc = "post"
  BY <1>1 DEF ShapesIn, UploaderIn, Post
<1> DEFINE x == [up[u] EXCEPT !.pc = "sent"]
           y == [pc |-> "asked", by |-> u, report |-> up[u].report, known |-> FALSE]
<1>3. x \in UploaderIn(T) /\ x.pc = "sent" /\ x.report = up[u].report
  BY <1>2 DEF UploaderIn, UploaderPc
<1>4. /\ y \in RequestIn(T) /\ y.pc = "asked" /\ y.by = u /\ y.known = FALSE
      /\ y.report = up[u].report
  BY <1>2 DEF RequestIn, RequestPc, Waiters
<1>5. /\ up' \in [Uploaders -> UploaderIn(T)] /\ up'[u] = x
      /\ \A v \in Uploaders : v # u => up'[v] = up[v]
  <2>1. up' = [up EXCEPT ![u] = x]
    BY DEF Post, To
  <2> HIDE DEF x
  <2> QED BY <1>1, <1>3, <2>1 DEF ShapesIn
<1>6. /\ relay' \in [Slots -> RequestIn(T)] /\ relay'[s] = y
      /\ \A q \in Slots : q # s => relay'[q] = relay[q]
  <2>1. relay' = [relay EXCEPT ![s] = y]
    BY DEF Post
  <2> HIDE DEF y
  <2> QED BY <1>1, <1>4, <2>1 DEF ShapesIn
<1>7. TellsCrash(up[u].report)
  BY <1>2 DEF MarkInv, CrashIsTold
<1> HIDE DEF x, y
<1>8. Shapes'
  BY <1>1, <1>5, <1>6 DEF Shapes, ShapesIn
<1>9. WhoRuns'
  BY <1>2, <1>3, <1>5 DEF MarkInv, WhoRuns, Uploaders, shell, Post
<1>10. WhoWaits'
  BY <1>2, <1>3, <1>4, <1>5, <1>6 DEF MarkInv, WhoWaits
<1>11. CrashIsTold'
  BY <1>3, <1>4, <1>5, <1>6, <1>7 DEF MarkInv, CrashIsTold, TellsCrash, shell, owed, Post
<1>12. CrashKeepsMark'
  BY DEF MarkInv, CrashKeepsMark, Post, queue, owed
<1> QED BY <1>8, <1>9, <1>10, <1>11, <1>12 DEF MarkInv

\* A request that is done with frees its place.
LEMMA FreedFits ==
  ASSUME NEW T, ShapesIn(T), NEW s \in Slots, DiagAssumption
  PROVE  /\ Freed(s) \in [Slots -> RequestIn(T)]
         /\ Freed(s)[s] = Free /\ Free.by \notin Uploaders /\ ~Free.report.current
         /\ \A q \in Slots : q # s => Freed(s)[q] = relay[q]
<1>1. Free \in RequestIn(T)
  BY InertRecords DEF ShapesIn
<1>2. Free.by = "nobody" /\ Free.report.current = FALSE
  BY DEF Free, NoReport
<1> QED BY <1>1, <1>2, DiagAssumption DEF ShapesIn, Freed, Uploaders

\* A request nobody waits for any more goes on unchanged.
LEMMA ForgottenFits ==
  ASSUME NEW T, ShapesIn(T), NEW gone \in SUBSET Uploaders, DiagAssumption
  PROVE  /\ Forgotten(gone) \in [Slots -> RequestIn(T)]
         /\ \A s \in Slots : Forgotten(gone)[s].by \in Uploaders =>
               Forgotten(gone)[s] = relay[s] /\ Forgotten(gone)[s].by \notin gone
<1>1. ASSUME NEW s \in Slots
      PROVE  /\ Forgotten(gone)[s] \in RequestIn(T)
             /\ Forgotten(gone)[s].by \in Uploaders =>
                  Forgotten(gone)[s] = relay[s] /\ Forgotten(gone)[s].by \notin gone
  <2> DEFINE y == [relay[s] EXCEPT !.by = "nobody"]
  <2>1. relay[s] \in RequestIn(T)
    BY DEF ShapesIn
  <2>2. y \in RequestIn(T) /\ y.by = "nobody"
    BY <2>1 DEF RequestIn, Waiters
  <2>3. Forgotten(gone)[s] = IF relay[s].by \in gone THEN y ELSE relay[s]
    BY DEF Forgotten
  <2> HIDE DEF y
  <2> QED BY <2>1, <2>2, <2>3, DiagAssumption DEF Uploaders
<1>2. Forgotten(gone) \in [Slots -> RequestIn(T)]
  BY <1>1 DEF Forgotten
<1> QED BY <1>1, <1>2

LEMMA AcceptedStep ==
  ASSUME MarkInv, NEW u \in Uploaders, NEW s \in Slots, Accepted(u, s), DiagAssumption
  PROVE  MarkInv'
<1>1. PICK T : ShapesIn(T)
  BY DEF MarkInv, Shapes
<1> DEFINE x == [up[u] EXCEPT !.pc = "record"]
<1>2. x \in UploaderIn(T) /\ x.pc = "record"
  BY <1>1 DEF ShapesIn, UploaderIn, UploaderPc
<1>3. up[u].pc = "sent" /\ relay[s].by = u /\ relay[s].pc = "accepted"
  BY DEF Accepted, Answered
<1>4. /\ up' \in [Uploaders -> UploaderIn(T)] /\ up'[u] = x
      /\ \A v \in Uploaders : v # u => up'[v] = up[v]
  <2>1. up' = [up EXCEPT ![u] = x]
    BY DEF Accepted, To
  <2> HIDE DEF x
  <2> QED BY <1>1, <1>2, <2>1 DEF ShapesIn
<1>5. /\ relay' \in [Slots -> RequestIn(T)] /\ relay'[s] = Free
      /\ Free.by \notin Uploaders /\ ~Free.report.current
      /\ \A q \in Slots : q # s => relay'[q] = relay[q]
  BY <1>1, FreedFits DEF Accepted
<1>6. Crash \notin due
  BY <1>3 DEF MarkInv, CrashIsTold
<1> HIDE DEF x
<1>7. Shapes'
  BY <1>1, <1>4, <1>5 DEF Shapes, ShapesIn
<1>8. WhoRuns'
  BY <1>2, <1>3, <1>4 DEF MarkInv, WhoRuns, Uploaders, shell, Accepted
<1>9. WhoWaits'
  BY <1>2, <1>3, <1>4, <1>5 DEF MarkInv, WhoWaits
<1>10. CrashIsTold'
  BY <1>2, <1>4, <1>5, <1>6 DEF MarkInv, CrashIsTold, TellsCrash, shell, owed, Accepted
<1>11. CrashKeepsMark'
  BY DEF MarkInv, CrashKeepsMark, Accepted, queue, owed
<1> QED BY <1>7, <1>8, <1>9, <1>10, <1>11 DEF MarkInv

\* Steps that log: the queue is cleared, or an answer is given up or refused.
LEMMA EndUploadStep ==
  ASSUME MarkInv, NEW u \in Uploaders, DiagAssumption,
         \/ Clear(u) \/ GiveUp(u) \/ \E s \in Slots : Refused(u, s)
  PROVE  MarkInv'
<1>1. PICK T : ShapesIn(T)
  BY DEF MarkInv, Shapes
<1>2. Idle \in UploaderIn(T) /\ Idle.pc = "idle"
  BY <1>1, InertRecords DEF ShapesIn, Idle
<1>3. /\ Set(u, Idle) \in [Uploaders -> UploaderIn(T)] /\ Set(u, Idle)[u] = Idle
      /\ \A v \in Uploaders : v # u => Set(u, Idle)[v] = up[v]
  BY <1>1, <1>2 DEF ShapesIn, Set
<1>4. PICK relay1 \in [Slots -> RequestIn(T)] :
         /\ Logs(Set(u, Idle), relay1)
         /\ \A s \in Slots : relay1[s].by \in Uploaders =>
               relay1[s] = relay[s] /\ relay1[s].by # u
  <2>1. CASE Clear(u)
    <3>1. \A s \in Slots : relay[s].by # u
      BY <2>1 DEF MarkInv, WhoWaits, Clear
    <3> QED BY <1>1, <2>1, <3>1 DEF Clear, ShapesIn
  <2>2. CASE GiveUp(u)
    <3>1. Forgotten({u}) \in [Slots -> RequestIn(T)]
      BY <1>1, ForgottenFits
    <3> QED BY <1>1, <2>2, ForgottenFits DEF GiveUp
  <2>3. ASSUME NEW s \in Slots, Refused(u, s)
        PROVE  \E relay1 \in [Slots -> RequestIn(T)] :
                 /\ Logs(Set(u, Idle), relay1)
                 /\ \A q \in Slots : relay1[q].by \in Uploaders =>
                       relay1[q] = relay[q] /\ relay1[q].by # u
    <3>1. relay[s].by = u /\ \A q \in Slots : q # s => relay[q].by # u
      BY <2>3 DEF MarkInv, WhoWaits, Refused, Answered
    <3> QED BY <1>1, <2>3, <3>1, FreedFits DEF Refused
  <2> QED BY <2>1, <2>2, <2>3
<1>5. /\ Shapes' /\ WhoWaits' /\ CrashIsTold'
      /\ \A v \in Uploaders : up'[v].pc = Set(u, Idle)[v].pc
  <2>1. clearing' = clearing /\ due' = due
    BY DEF Clear, GiveUp, Refused, shell, owed
  <2> QED BY <1>1, <1>2, <1>3, <1>4, <2>1, LoggedStep
<1>6. WhoRuns'
  <2>1. sh' = sh /\ clearing' = clearing
    BY DEF Clear, GiveUp, Refused, shell
  <2> QED BY <1>2, <1>3, <1>5, <2>1 DEF MarkInv, WhoRuns, Uploaders
<1>7. CrashKeepsMark'
  <2>1. CASE Clear(u)
    BY <2>1 DEF Clear, MarkInv, CrashIsTold, CrashKeepsMark, owed
  <2>2. CASE ~Clear(u)
    BY <2>2 DEF GiveUp, Refused, MarkInv, CrashKeepsMark, queue, owed
  <2> QED BY <2>1, <2>2
<1> QED BY <1>5, <1>6, <1>7 DEF MarkInv

LEMMA UploadStep ==
  ASSUME MarkInv, NEW u \in Uploaders, DiagAssumption,
         Upload(u) \/ GiveUp(u) \/ WriteFails(u)
  PROVE  MarkInv'
  BY ReadQueueStep, CollectStep, RecordStep, ClearDuplicateStep, WriteFailsStep,
     PostStep, AcceptedStep, EndUploadStep DEF Upload

-----------------------------------------------------------------------------
(* The relay.                                                              *)

\* An answer: no line is logged on the device, and the marks an issue tells of
\* are no longer owed.
LEMMA AnswerStep ==
  ASSUME MarkInv, NEW s \in Slots, NEW answer \in {"accepted", "refused"},
         Answer(s, answer),
         due' \subseteq due, lost' = lost \/ lost' \subseteq lost,
         answer = "accepted" /\ relay[s].by \in Uploaders => Crash \notin due',
         seen' = seen \/ Crash \notin due'
  PROVE  MarkInv'
<1>1. PICK T : ShapesIn(T)
  BY DEF MarkInv, Shapes
<1> DEFINE y == [relay[s] EXCEPT !.pc = answer]
<1>2. /\ y \in RequestIn(T) /\ y.pc = answer /\ y.by = relay[s].by
      /\ y.report = relay[s].report /\ y.known = relay[s].known
  BY <1>1 DEF ShapesIn, RequestIn, RequestPc
<1>3. /\ relay' \in [Slots -> RequestIn(T)] /\ relay'[s] = y
      /\ \A q \in Slots : q # s => relay'[q] = relay[q]
  <2>1. relay' = [relay EXCEPT ![s] = y]
    BY DEF Answer
  <2> HIDE DEF y
  <2> QED BY <1>1, <1>2, <2>1 DEF ShapesIn
<1>4. up' = up /\ sh' = sh /\ clearing' = clearing /\ history' = history /\ marked' = marked
  BY DEF Answer, shell, queue
<1> HIDE DEF y
<1>5. Shapes'
  BY <1>1, <1>3, <1>4 DEF Shapes, ShapesIn
<1>6. WhoRuns' /\ WhoWaits'
  BY <1>2, <1>3, <1>4 DEF MarkInv, WhoRuns, WhoWaits
<1>7. CrashIsTold'
  BY <1>2, <1>3, <1>4 DEF MarkInv, CrashIsTold, TellsCrash
<1>8. CrashKeepsMark'
  BY <1>4 DEF MarkInv, CrashKeepsMark
<1> QED BY <1>5, <1>6, <1>7, <1>8 DEF MarkInv

LEMMA RelayStep ==
  ASSUME MarkInv, NEW s \in Slots, DiagAssumption,
         Relay(s) \/ CreateUnseen(s) \/ Refuse(s)
  PROVE  MarkInv'
<1>1. /\ relay[s].by \in Uploaders => TellsCrash(relay[s].report)
      /\ relay[s].report.current => TellsCrash(relay[s].report)
  BY DEF MarkInv, WhoWaits, CrashIsTold, TellsCrash
<1>2. CASE AcceptAgain(s)
  <2>1. relay[s].by \in Uploaders => Crash \notin due
    BY <1>2 DEF AcceptAgain, InSeen, MarkInv, CrashIsTold
  <2> QED BY <1>2, <2>1, AnswerStep DEF AcceptAgain, Answer, shell, owed
<1>3. CASE CreateIssue(s)
  <2>1. TellsCrash(relay[s].report) => Crash \notin due'
    BY <1>3 DEF CreateIssue, NewIssue, TellsCrash
  <2>2. due' \subseteq due /\ lost' \subseteq lost
    BY <1>3 DEF CreateIssue, NewIssue
  <2>3. seen' = seen \/ relay[s].report.current
    BY <1>3 DEF CreateIssue
  <2> QED BY <1>1, <1>3, <2>1, <2>2, <2>3, AnswerStep DEF CreateIssue, Answer, shell
<1>4. CASE CreateUnseen(s)
  BY <1>4, AnswerStep DEF CreateUnseen, NewIssue, Answer, shell
<1>5. CASE Refuse(s)
  BY <1>5, AnswerStep DEF Refuse, Answer, shell, owed
<1>6. CASE Unheard(s)
  <2>1. PICK T : ShapesIn(T)
    BY DEF MarkInv, Shapes
  <2>2. /\ relay' \in [Slots -> RequestIn(T)] /\ relay'[s] = Free
        /\ Free.by \notin Uploaders /\ ~Free.report.current
        /\ \A q \in Slots : q # s => relay'[q] = relay[q]
    BY <1>6, <2>1, FreedFits DEF Unheard
  <2>3. Shapes'
    BY <1>6, <2>1, <2>2 DEF Shapes, ShapesIn, Unheard
  <2>4. WhoRuns' /\ WhoWaits'
    BY <1>6, <2>2 DEF MarkInv, WhoRuns, WhoWaits, Unheard, shell
  <2>5. CrashIsTold' /\ CrashKeepsMark'
    BY <1>6, <2>2
       DEF MarkInv, CrashIsTold, CrashKeepsMark, TellsCrash, Unheard, queue, shell, owed
  <2> QED BY <2>3, <2>4, <2>5 DEF MarkInv
<1> QED BY <1>2, <1>3, <1>4, <1>5, <1>6 DEF Relay

-----------------------------------------------------------------------------
(* The launcher and the app.                                               *)

\* One uploader starts to wait for the lock.
LEMMA StartFits ==
  ASSUME NEW T, ShapesIn(T), NEW u \in Uploaders, NEW c \in Callers
  PROVE  /\ Set(u, Waiting(c)) \in [Uploaders -> UploaderIn(T)]
         /\ Set(u, Waiting(c))[u].pc = "wait"
         /\ \A v \in Uploaders : v # u => Set(u, Waiting(c))[v] = up[v]
<1>1. Idle \in UploaderIn(T)
  BY InertRecords DEF ShapesIn
<1>2. Waiting(c) \in UploaderIn(T) /\ Waiting(c).pc = "wait"
  BY <1>1 DEF Waiting, UploaderIn, UploaderPc
<1> QED BY <1>2 DEF ShapesIn, Set

LEMMA RaiseStep ==
  ASSUME MarkInv, NEW r \in Reasons, NEW t \in Threads, Raise(r, t), DiagAssumption
  PROVE  MarkInv'
<1>1. PICK T : ShapesIn(T)
  BY DEF MarkInv, Shapes
<1>2. PICK up1 \in [Uploaders -> UploaderIn(T)] :
         /\ up1 = Set(t, Waiting(r)) /\ up1[t].pc = "wait"
         /\ \A v \in Uploaders : v # t => up1[v] = up[v]
  <2>1. t \in Uploaders /\ r \in Callers
    BY DEF Uploaders, Callers
  <2> QED BY <1>1, <2>1, StartFits
<1>3. \A s \in Slots : relay[s].by # t
  BY DEF Raise, MarkInv, WhoWaits, Uploaders
<1>4. /\ Crash \notin {r} /\ (Crash \in due' => Crash \in due)
      /\ (Crash \in lost' => Crash \in lost)
  BY DiagAssumption DEF Raise, Crash
<1>5. sh' = sh /\ sh = "app" /\ clearing' = clearing /\ marked' = TRUE
  BY DEF Raise, shell
<1>6. /\ Shapes' /\ WhoWaits' /\ CrashIsTold'
      /\ \A v \in Uploaders : up'[v].pc = up1[v].pc
  BY <1>1, <1>2, <1>3, <1>4, <1>5, NewsStep DEF Raise, ShapesIn
<1>7. WhoRuns'
  BY <1>2, <1>5, <1>6, DiagAssumption DEF MarkInv, WhoRuns, Uploaders
<1>8. CrashKeepsMark'
  BY <1>4, <1>5 DEF MarkInv, CrashKeepsMark
<1> QED BY <1>6, <1>7, <1>8 DEF MarkInv

\* Lines that are logged, and logs that are deleted.
LEMMA LogStep ==
  ASSUME MarkInv, LogLine \/ ClearLogs
  PROVE  MarkInv'
<1>1. PICK T : ShapesIn(T)
  BY DEF MarkInv, Shapes
<1>2. /\ Logs(up, relay) /\ sh' = sh /\ marked' = marked /\ due' = due
      /\ clearing' => clearing
  BY DEF LogLine, ClearLogs, queue, shell, owed
<1>3. /\ Shapes' /\ WhoWaits' /\ CrashIsTold'
      /\ \A v \in Uploaders : up'[v].pc = up[v].pc
  BY <1>1, <1>2, LoggedStep DEF ShapesIn
<1>4. WhoRuns'
  BY <1>2, <1>3 DEF MarkInv, WhoRuns, Uploaders
<1>5. CrashKeepsMark'
  <2>1. CASE LogLine
    BY <2>1 DEF LogLine, MarkInv, CrashKeepsMark, queue, owed
  <2>2. CASE ClearLogs
    BY <2>2 DEF ClearLogs, MarkInv, CrashIsTold, CrashKeepsMark
  <2> QED BY <2>1, <2>2
<1> QED BY <1>3, <1>4, <1>5 DEF MarkInv

\* Nothing is pending when the logs are about to be deleted, so no crash is owed.
LEMMA CheckPendingStep ==
  ASSUME MarkInv, CheckPending
  PROVE  MarkInv'
<1> USE DEF CheckPending, MarkInv, queue, owed
<1>1. Crash \notin due
  BY DEF CrashKeepsMark
<1>2. Shapes' /\ WhoRuns' /\ WhoWaits' /\ CrashKeepsMark'
  BY DEF Shapes, ShapesIn, WhoRuns, WhoWaits, CrashKeepsMark
<1>3. CrashIsTold'
  BY <1>1 DEF CrashIsTold, TellsCrash
<1> QED BY <1>2, <1>3

\* The app ends, or the power goes: the uploaders in gone are killed.
LEMMA KilledStep ==
  ASSUME MarkInv, NEW gone \in SUBSET Uploaders, Killed(gone), DiagAssumption,
         Threads \subseteq gone, Cli \in gone \/ up[Cli].pc = "idle",
         clearing' = FALSE, UNCHANGED <<queue, owed>>
  PROVE  MarkInv'
<1>1. PICK T : ShapesIn(T)
  BY DEF MarkInv, Shapes
<1> DEFINE up1 == [u \in Uploaders |-> IF u \in gone THEN Idle ELSE up[u]]
<1>2. Idle \in UploaderIn(T) /\ Idle.pc = "idle"
  BY <1>1, InertRecords DEF ShapesIn, Idle
<1>3. /\ up1 \in [Uploaders -> UploaderIn(T)]
      /\ \A u \in Uploaders : up1[u].pc = "idle" /\ (u \in gone \/ up1[u] = up[u])
  BY <1>1, <1>2 DEF ShapesIn, Uploaders
<1>4. Logs(up1, Forgotten(gone))
  BY DEF Killed
<1> HIDE DEF up1
<1>5. /\ Shapes' /\ WhoWaits' /\ CrashIsTold'
      /\ \A v \in Uploaders : up'[v].pc = up1[v].pc
  BY <1>1, <1>3, <1>4, ForgottenFits, LoggedStep DEF owed
<1>6. WhoRuns'
  BY <1>3, <1>5 DEF WhoRuns, Uploaders
<1>7. CrashKeepsMark'
  BY DEF MarkInv, CrashKeepsMark, queue, owed
<1> QED BY <1>5, <1>6, <1>7 DEF MarkInv

LEMMA AppStartsStep ==
  ASSUME MarkInv, AppStarts, sh # "app", up[Cli].pc = "idle", DiagAssumption
  PROVE  MarkInv'
<1>1. PICK T : ShapesIn(T)
  BY DEF MarkInv, Shapes
<1>2. PICK t \in Threads : Logs(IF marked THEN Set(t, Waiting(Startup)) ELSE up, relay)
  BY DEF AppStarts
<1>3. PICK up1 \in [Uploaders -> UploaderIn(T)] :
         /\ Logs(up1, relay) /\ up1[Cli] = up[Cli]
         /\ \A u \in Uploaders : up1[u] = up[u] \/ up1[u].pc = "wait"
  <2>1. CASE marked
    <3>1. t \in Uploaders /\ Cli \in Uploaders /\ Cli # t /\ Startup \in Callers
      BY DiagAssumption DEF Uploaders, Callers
    <3>2. PICK up1 \in [Uploaders -> UploaderIn(T)] :
             /\ up1 = Set(t, Waiting(Startup)) /\ up1[t].pc = "wait"
             /\ \A v \in Uploaders : v # t => up1[v] = up[v]
      BY <1>1, <3>1, StartFits
    <3> QED BY <1>2, <2>1, <3>1, <3>2
  <2>2. CASE ~marked
    BY <1>1, <1>2, <2>2 DEF ShapesIn
  <2> QED BY <2>1, <2>2
<1>4. \A u \in Uploaders : up[u].pc = "idle"
  BY DEF MarkInv, WhoRuns, Uploaders
<1>5. \A s \in Slots : relay[s].by \notin Uploaders
  BY <1>4 DEF MarkInv, WhoWaits
<1>6. /\ Shapes' /\ WhoWaits' /\ CrashIsTold'
      /\ \A v \in Uploaders : up'[v].pc = up1[v].pc
  BY <1>1, <1>3, <1>5, LoggedStep DEF AppStarts, ShapesIn, owed
<1>7. WhoRuns'
  BY <1>3, <1>6 DEF WhoRuns, Uploaders, AppStarts
<1>8. CrashKeepsMark'
  BY DEF MarkInv, CrashKeepsMark, AppStarts, queue, owed
<1> QED BY <1>6, <1>7, <1>8 DEF MarkInv

\* The launcher marks a crash, or only retries, and runs its uploader.
LEMMA SendStep ==
  ASSUME MarkInv, NEW c \in Callers, DiagAssumption,
         \A u \in Uploaders : up[u].pc = "idle",
         NEW new, LogsNew(new, Set(Cli, Waiting(c)), relay), sh # "app",
         sh' \in {"exit_send", "stream_send", "retry_send"}, clearing' = clearing,
         Crash \in due' => marked' /\ Crash \notin lost'
  PROVE  MarkInv'
<1>1. PICK T : ShapesIn(T)
  BY DEF MarkInv, Shapes
<1>2. Cli \in Uploaders
  BY DEF Uploaders
<1>3. PICK up1 \in [Uploaders -> UploaderIn(T)] :
         /\ up1 = Set(Cli, Waiting(c)) /\ up1[Cli].pc = "wait"
         /\ \A v \in Uploaders : v # Cli => up1[v] = up[v]
  BY <1>1, <1>2, StartFits
<1>4. ~clearing /\ \A s \in Slots : relay[s].by \notin Uploaders
  BY DEF MarkInv, WhoRuns, WhoWaits
<1>5. \A u \in Uploaders : up1[u].pc \in {"idle", "wait"} /\ (up1[u] = up[u] \/ up1[u].pc = "wait")
  BY <1>3
<1>6. /\ Shapes' /\ WhoWaits' /\ CrashIsTold'
      /\ \A v \in Uploaders : up'[v].pc = up1[v].pc
  BY <1>1, <1>3, <1>4, <1>5, NewsStep DEF ShapesIn
<1>7. WhoRuns'
  BY <1>3, <1>4, <1>6, DiagAssumption DEF WhoRuns, Uploaders
<1>8. CrashKeepsMark'
  BY DEF CrashKeepsMark
<1> QED BY <1>6, <1>7, <1>8 DEF MarkInv

\* The launcher goes on, and nothing else changes.
LEMMA GotoStep ==
  ASSUME MarkInv, NEW next, Goto(next), sh # "app", up[Cli].pc = "idle"
  PROVE  MarkInv'
<1> USE DEF MarkInv, Goto, queue, owed
<1>1. Shapes' /\ WhoWaits' /\ CrashKeepsMark'
  BY DEF Shapes, ShapesIn, WhoWaits, CrashKeepsMark
<1>2. WhoRuns'
  BY DEF WhoRuns
<1>3. CrashIsTold'
  BY DEF CrashIsTold, TellsCrash
<1> QED BY <1>1, <1>2, <1>3

LEMMA LauncherStep ==
  ASSUME MarkInv, Launcher, DiagAssumption
  PROVE  MarkInv'
<1>1. /\ sh \in {"exit_mark", "game", "off"} => \A u \in Uploaders : up[u].pc = "idle"
      /\ Cli \in Uploaders
  BY DEF MarkInv, WhoRuns, Uploaders
<1>2. ExitCode \in Callers /\ StreamEnd \in Callers /\ UserExit \in Callers
  BY DEF Callers
<1>3. CASE MarkExit
  BY <1>1, <1>2, <1>3, SendStep DEF MarkExit, MarkAndSend
<1>4. CASE StreamEnds
  BY <1>1, <1>2, <1>4, SendStep DEF StreamEnds, MarkAndSend
<1>5. CASE ExitSent \/ RetrySent
  BY <1>5, GotoStep DEF ExitSent, RetrySent, Sent
<1>6. CASE StreamSent
  BY <1>6, AppStartsStep DEF StreamSent, Sent
<1>7. CASE Restart
  BY <1>1, <1>7, AppStartsStep DEF Restart
<1>8. CASE UserLeft /\ marked
  BY <1>1, <1>2, <1>8, SendStep DEF Logs, UserLeft, MarkInv, CrashKeepsMark, queue, owed
<1>9. CASE UserLeft /\ ~marked
  BY <1>1, <1>9, GotoStep DEF UserLeft
<1> QED BY <1>3, <1>4, <1>5, <1>6, <1>7, <1>8, <1>9 DEF Launcher

LEMMA OwnerStep ==
  ASSUME MarkInv, Owner \/ PowerLoss, DiagAssumption
  PROVE  MarkInv'
<1>1. /\ sh \in {"app", "off"} => up[Cli].pc = "idle"
      /\ Threads \subseteq Uploaders /\ Cli \in Uploaders
  BY DEF MarkInv, WhoRuns, Uploaders
<1>2. CASE Open
  BY <1>1, <1>2, AppStartsStep DEF Open
<1>3. ASSUME NEW code \in {0, 1}, NEW left \in {"none", "stream", "restart"},
             AppEnds(code, left)
      PROVE  MarkInv'
  BY <1>1, <1>3, KilledStep DEF AppEnds
<1>4. CASE PowerLoss
  BY <1>1, <1>4, KilledStep DEF PowerLoss
<1> QED BY <1>2, <1>3, <1>4 DEF Owner

-----------------------------------------------------------------------------
(* The theorem.                                                            *)

\* Every step keeps the invariant.
LEMMA MarkStep == MarkInv /\ [Next]_vars => MarkInv'
<1> SUFFICES ASSUME MarkInv, [Next]_vars PROVE MarkInv'
  OBVIOUS
<1>1. CASE \E u \in Uploaders : Upload(u) \/ GiveUp(u) \/ WriteFails(u)
  BY <1>1, DiagAssumption, UploadStep
<1>2. CASE \E s \in Slots : Relay(s) \/ CreateUnseen(s) \/ Refuse(s)
  BY <1>2, DiagAssumption, RelayStep
<1>3. CASE Launcher
  BY <1>3, DiagAssumption, LauncherStep
<1>4. CASE Owner \/ PowerLoss
  BY <1>4, DiagAssumption, OwnerStep
<1>5. CASE \E r \in Reasons, t \in Threads : Raise(r, t)
  BY <1>5, DiagAssumption, RaiseStep
<1>6. CASE LogLine \/ ClearLogs
  BY <1>6, LogStep
<1>7. CASE CheckPending
  BY <1>7, CheckPendingStep
<1>8. CASE UNCHANGED vars
  <2> USE <1>8 DEF vars, queue, shell, owed
  <2>1. Shapes' /\ WhoRuns' /\ WhoWaits' /\ CrashKeepsMark'
    BY DEF MarkInv, Shapes, ShapesIn, WhoRuns, WhoWaits, CrashKeepsMark
  <2>2. CrashIsTold'
    BY DEF MarkInv, CrashIsTold, TellsCrash
  <2> QED BY <2>1, <2>2 DEF MarkInv
<1> QED BY <1>1, <1>2, <1>3, <1>4, <1>5, <1>6, <1>7, <1>8 DEF Next

\* A crash or a stream the launcher marked (files/launch.sh) stays marked until
\* there is an issue made after it, and the settings screen does not delete the logs
\* before: for any number of reasons, uploaders, requests, lost answers, failed
\* writes and power losses.
THEOREM CrashStaysMarked == Spec => []CrashKeepsMark
<1>1. MarkInv => CrashKeepsMark
  BY DEF MarkInv
<1> QED BY MarkInit, MarkStep, <1>1, PTL DEF Spec
-----------------------------------------------------------------------------
(* Lists.                                                                  *)

\* Induction: in a set without the next number of some n there is no least one.
LEMMA Induction ==
  ASSUME NEW P \in SUBSET Nat, 0 \in P, \A n \in P : n + 1 \in P
  PROVE  P = Nat
<1> SUFFICES ASSUME Nat \ P # {} PROVE FALSE
  OBVIOUS
<1> DEFINE R == OpToRel(<, Nat)
<1>1. PICK n \in Nat \ P : \A k \in Nat \ P : <<k, n>> \notin R
  <2>1. IsWellFoundedOn(R, Nat)
    BY NatLessThanWellFounded
  <2> HIDE DEF R
  <2> QED BY <2>1, WFMin
<1>2. n - 1 \in Nat \ P
  <2>1. n \in Nat /\ n # 0
    BY <1>1
  <2>2. n - 1 \in Nat /\ (n - 1) + 1 = n
    BY <2>1
  <2> QED BY <1>1, <2>2
<1>3. <<n - 1, n>> \in R
  BY <1>1, <1>2 DEF OpToRel
<1> QED BY <1>1, <1>2, <1>3

\* f is the function of Without, up to n.
KeptUpTo(list, took, f, n) ==
    \A i \in 0..n : f[i] = IF i = 0 THEN <<>>
                           ELSE IF list[i] \in took THEN f[i - 1] ELSE Append(f[i - 1], list[i])

LEMMA KeptUpToExists ==
  ASSUME NEW S, NEW list \in Seq(S), NEW took
  PROVE  \E f \in [0..Len(list) -> Seq(S)] : KeptUpTo(list, took, f, Len(list))
<1> DEFINE P == {n \in Nat : n <= Len(list) =>
                     \E f \in [0..n -> Seq(S)] : KeptUpTo(list, took, f, n)}
<1>1. 0 \in P
  <2>1. [i \in 0..0 |-> <<>>] \in [0..0 -> Seq(S)]
    OBVIOUS
  <2>2. KeptUpTo(list, took, [i \in 0..0 |-> <<>>], 0)
    BY DEF KeptUpTo
  <2> QED BY <2>1, <2>2
<1>2. ASSUME NEW n \in P PROVE n + 1 \in P
  <2> SUFFICES ASSUME n + 1 <= Len(list)
               PROVE  \E f \in [0..n + 1 -> Seq(S)] : KeptUpTo(list, took, f, n + 1)
    OBVIOUS
  <2>1. PICK g \in [0..n -> Seq(S)] : KeptUpTo(list, took, g, n)
    BY <1>2
  <2>2. PICK v \in Seq(S) : v = IF list[n + 1] \in took THEN g[n] ELSE Append(g[n], list[n + 1])
    <3>1. g[n] \in Seq(S) /\ list[n + 1] \in S
      BY <2>1
    <3>2. Append(g[n], list[n + 1]) \in Seq(S)
      BY <3>1
    <3>3. CASE list[n + 1] \in took
      BY <3>1, <3>3
    <3>4. CASE list[n + 1] \notin took
      BY <3>2, <3>4
    <3> QED BY <3>3, <3>4
  <2> DEFINE f == [i \in 0..n + 1 |-> IF i <= n THEN g[i] ELSE v]
  <2>3. f \in [0..n + 1 -> Seq(S)]
    BY <2>2
  <2>4. ASSUME NEW i \in 0..n
        PROVE  f[i] = g[i] /\ (i # 0 => i - 1 \in 0..n /\ f[i - 1] = g[i - 1])
    OBVIOUS
  <2>5. f[n + 1] = v /\ f[n] = g[n] /\ (n + 1) - 1 = n /\ n + 1 # 0
    OBVIOUS
  <2> HIDE DEF f
  <2>6. ASSUME NEW i \in 0..n + 1
        PROVE  f[i] = IF i = 0 THEN <<>>
                      ELSE IF list[i] \in took THEN f[i - 1] ELSE Append(f[i - 1], list[i])
    <3>1. CASE i \in 0..n
      BY <2>1, <2>4, <3>1 DEF KeptUpTo
    <3>2. CASE i = n + 1
      BY <2>2, <2>5, <3>2
    <3> QED BY <3>1, <3>2
  <2> QED BY <2>3, <2>6 DEF KeptUpTo
<1>3. P = Nat
  <2>1. P \in SUBSET Nat
    OBVIOUS
  <2> HIDE DEF P
  <2> QED BY <1>1, <1>2, <2>1, Induction
<1>4. Len(list) \in P
  BY <1>3
<1> QED BY <1>4

\* Without is what its recursive equations say.
LEMMA WithoutIsKept ==
  ASSUME NEW S, NEW list \in Seq(S), NEW took
  PROVE  \E f \in [0..Len(list) -> Seq(S)] :
             KeptUpTo(list, took, f, Len(list)) /\ Without(list, took) = f[Len(list)]
<1> DEFINE Is(f) == f = [i \in 0..Len(list) |->
            IF i = 0 THEN <<>>
            ELSE IF list[i] \in took THEN f[i - 1] ELSE Append(f[i - 1], list[i])]
<1>1. PICK f \in [0..Len(list) -> Seq(S)] : KeptUpTo(list, took, f, Len(list))
  BY KeptUpToExists
<1>2. Is(f)
  BY <1>1 DEF KeptUpTo
<1>3. \A g : Is(g) => g = f
  <2> SUFFICES ASSUME NEW g, Is(g) PROVE g = f
    OBVIOUS
  <2>1. KeptUpTo(list, took, g, Len(list)) /\ g = [i \in 0..Len(list) |-> g[i]]
    BY DEF KeptUpTo
  <2> HIDE DEF Is
  <2> DEFINE P == {n \in Nat : n <= Len(list) => g[n] = f[n]}
  <2>2. 0 \in P
    <3>1. 0 \in 0..Len(list)
      OBVIOUS
    <3>2. g[0] = <<>> /\ f[0] = <<>>
      BY <1>1, <2>1, <3>1 DEF KeptUpTo
    <3> QED BY <3>2
  <2>3. ASSUME NEW n \in P PROVE n + 1 \in P
    <3> SUFFICES ASSUME n + 1 <= Len(list) PROVE g[n + 1] = f[n + 1]
      OBVIOUS
    <3>1. g[n] = f[n] /\ n + 1 \in 0..Len(list) /\ (n + 1) - 1 = n /\ n + 1 # 0
      OBVIOUS
    <3> HIDE DEF P
    <3> QED BY <1>1, <2>1, <3>1 DEF KeptUpTo
  <2>4. P = Nat
    <3>1. P \in SUBSET Nat
      OBVIOUS
    <3> HIDE DEF P
    <3> QED BY <2>2, <2>3, <3>1, Induction
  <2>5. \A n \in 0..Len(list) : g[n] = f[n]
    <3>1. \A n \in Nat : n <= Len(list) => g[n] = f[n]
      BY <2>4
    <3>2. Len(list) \in Nat
      OBVIOUS
    <3> QED BY <3>1, <3>2
  <2> QED BY <2>1, <2>5
<1>4. (CHOOSE g : Is(g)) = f
  <2> HIDE DEF Is
  <2> QED BY <1>2, <1>3
<1>5. Without(list, took) = f[Len(list)]
  BY <1>4 DEF Without
<1> QED BY <1>1, <1>5

\* A new last element.
LEMMA AppendFacts ==
  ASSUME NEW S, NEW list \in Seq(S), NEW x \in S
  PROVE  /\ Append(list, x) \in Seq(S) /\ Len(Append(list, x)) = Len(list) + 1
         /\ ToSet(Append(list, x)) = ToSet(list) \cup {x}
         /\ IsInjective(list) /\ x \notin ToSet(list) => IsInjective(Append(list, x))
<1> DEFINE more == Append(list, x)
<1>1. /\ more \in Seq(S) /\ Len(more) = Len(list) + 1 /\ more[Len(list) + 1] = x
      /\ \A i \in 1..Len(list) : more[i] = list[i]
      /\ DOMAIN more = 1..Len(list) + 1 /\ DOMAIN list = 1..Len(list) /\ Len(list) \in Nat
  OBVIOUS
<1> HIDE DEF more
<1>2. \A i \in 1..Len(list) + 1 : i \in 1..Len(list) \/ i = Len(list) + 1
  BY <1>1
<1>3. ToSet(more) = ToSet(list) \cup {x}
  BY <1>1, <1>2 DEF ToSet
<1>4. ASSUME IsInjective(list), x \notin ToSet(list) PROVE IsInjective(more)
  <2>1. \A i \in 1..Len(list) : list[i] # x
    BY <1>1, <1>4 DEF ToSet
  <2>2. \A i, j \in 1..Len(list) : list[i] = list[j] => i = j
    BY <1>1, <1>4 DEF IsInjective
  <2> SUFFICES ASSUME NEW i \in 1..Len(list) + 1, NEW j \in 1..Len(list) + 1, more[i] = more[j]
               PROVE  i = j
    BY <1>1 DEF IsInjective
  <2> QED BY <1>1, <1>2, <2>1, <2>2
<1> QED BY <1>1, <1>3, <1>4 DEF more

\* The list without its first element.
LEMMA TailFacts ==
  ASSUME NEW S, NEW list \in Seq(S), list # <<>>
  PROVE  /\ Tail(list) \in Seq(S) /\ Len(Tail(list)) = Len(list) - 1
         /\ ToSet(Tail(list)) \subseteq ToSet(list)
         /\ IsInjective(list) => IsInjective(Tail(list))
<1> DEFINE rest == Tail(list)
<1>1. /\ rest \in Seq(S) /\ Len(rest) = Len(list) - 1 /\ Len(list) \in Nat \ {0}
      /\ DOMAIN rest = 1..Len(list) - 1 /\ DOMAIN list = 1..Len(list)
      /\ \A i \in 1..Len(list) - 1 : rest[i] = list[i + 1]
  OBVIOUS
<1> HIDE DEF rest
<1>2. \A i \in 1..Len(list) - 1 : i \in Nat /\ i + 1 \in 1..Len(list)
  BY <1>1
<1>3. ToSet(rest) \subseteq ToSet(list)
  BY <1>1, <1>2 DEF ToSet
<1>4. ASSUME IsInjective(list) PROVE IsInjective(rest)
  <2> SUFFICES ASSUME NEW i \in 1..Len(list) - 1, NEW j \in 1..Len(list) - 1, rest[i] = rest[j]
               PROVE  i = j
    BY <1>1 DEF IsInjective
  <2>1. i + 1 = j + 1
    BY <1>1, <1>2, <1>4 DEF IsInjective
  <2> QED BY <1>2, <2>1
<1> QED BY <1>1, <1>3, <1>4 DEF rest

\* What _clear_uploaded_reasons leaves: the other reasons, each once.
LEMMA WithoutFacts ==
  ASSUME NEW S, NEW list \in Seq(S), NEW took, IsInjective(list)
  PROVE  /\ Without(list, took) \in Seq(S) /\ Len(Without(list, took)) <= Len(list)
         /\ ToSet(Without(list, took)) = ToSet(list) \ took
         /\ IsInjective(Without(list, took))
<1>1. PICK f \in [0..Len(list) -> Seq(S)] :
         KeptUpTo(list, took, f, Len(list)) /\ Without(list, took) = f[Len(list)]
  BY WithoutIsKept
<1> DEFINE first(n) == {list[i] : i \in 1..n}
           P == {n \in Nat : n <= Len(list) =>
                    /\ Len(f[n]) <= n /\ ToSet(f[n]) = first(n) \ took /\ IsInjective(f[n])}
<1>2. 0 \in P
  <2>1. f[0] = <<>> /\ first(0) = {}
    BY <1>1 DEF KeptUpTo
  <2>2. Len(<<>>) = 0 /\ ToSet(<<>>) = {} /\ IsInjective(<<>>)
    BY DEF ToSet, IsInjective
  <2> QED BY <2>1, <2>2
<1>3. ASSUME NEW n \in P PROVE n + 1 \in P
  <2> SUFFICES ASSUME n + 1 <= Len(list)
               PROVE  /\ Len(f[n + 1]) <= n + 1 /\ ToSet(f[n + 1]) = first(n + 1) \ took
                      /\ IsInjective(f[n + 1])
    OBVIOUS
  <2> DEFINE x == list[n + 1]
  <2>1. /\ n \in Nat /\ n + 1 \in 0..Len(list) /\ (n + 1) - 1 = n /\ n + 1 # 0
        /\ f[n] \in Seq(S) /\ x \in S
        /\ Len(f[n]) <= n /\ ToSet(f[n]) = first(n) \ took /\ IsInjective(f[n])
    BY <1>1
  <2>2. f[n + 1] = IF x \in took THEN f[n] ELSE Append(f[n], x)
    BY <1>1, <2>1 DEF KeptUpTo
  <2>3. first(n + 1) = first(n) \cup {x}
    <3>1. 1..n + 1 = 1..n \cup {n + 1}
      BY <2>1
    <3> QED BY <3>1
  <2>4. x \notin first(n)
    <3>1. \A i \in 1..n : i \in DOMAIN list /\ i # n + 1
      BY <2>1
    <3>2. n + 1 \in DOMAIN list
      BY <2>1
    <3> QED BY <3>1, <3>2 DEF IsInjective
  <2> HIDE DEF P, first, x
  <2>5. CASE x \in took
    BY <2>1, <2>2, <2>3, <2>5
  <2>6. CASE x \notin took
    <3>1. /\ Len(f[n + 1]) = Len(f[n]) + 1 /\ ToSet(f[n + 1]) = ToSet(f[n]) \cup {x}
          /\ IsInjective(f[n + 1])
      BY <2>1, <2>2, <2>4, <2>6, AppendFacts
    <3>2. Len(f[n]) \in Nat
      BY <2>1
    <3> QED BY <2>1, <2>3, <2>6, <3>1, <3>2
  <2> QED BY <2>5, <2>6
<1>4. P = Nat
  <2>1. P \in SUBSET Nat
    OBVIOUS
  <2> HIDE DEF P
  <2> QED BY <1>2, <1>3, <2>1, Induction
<1>5. Len(list) \in Nat /\ Len(list) <= Len(list) /\ f[Len(list)] \in Seq(S)
  BY <1>1
<1>6. first(Len(list)) = ToSet(list)
  BY DEF ToSet
<1>7. /\ Len(f[Len(list)]) <= Len(list) /\ ToSet(f[Len(list)]) = first(Len(list)) \ took
      /\ IsInjective(f[Len(list)])
  <2>1. Len(list) \in P
    BY <1>4, <1>5
  <2> HIDE DEF first
  <2> QED BY <1>5, <2>1
<1> HIDE DEF first
<1> QED BY <1>1, <1>5, <1>6, <1>7
-----------------------------------------------------------------------------
(* The queue and the types.                                                *)

Uploading == [pc : UploaderPc, caller : Callers, took : SUBSET Reasons, report : Report]
Requests == [pc : RequestPc, by : Waiters, report : Report, known : BOOLEAN]

TypedDevices ==
    /\ history \in SUBSET Callers /\ seen \subseteq SUBSET Callers
    /\ up \in [Uploaders -> Uploading] /\ relay \in [Slots -> Requests]

TypedQueue ==
    /\ marked \in BOOLEAN /\ reasons \in Seq(Reasons) /\ Len(reasons) <= MaxReasons
    /\ IsInjective(reasons) /\ (reasons # <<>> => marked)

TypedShell ==
    /\ clearing \in BOOLEAN /\ stops \in 0 .. MaxStops
    /\ sh \in {"off", "app", "exit_mark", "exit_send", "game", "stream_send", "retry_send"}
    /\ game \in {"none", "stream", "restart"}
    /\ lost \subseteq due /\ due \subseteq Marks

\* A report names what its uploader took from the queue.  Once it is known to be
\* reported, nothing that was taken and that it tells of is owed.  A report made
\* after the last line in the log tells of all that it names and is owed.
UploaderTold(x) ==
    /\ x.took \subseteq x.report.names
    /\ x.pc \in {"post", "sent"} /\ x.report.current =>
          x.report.names \cap due \subseteq x.report.tells
    /\ x.pc \in {"record", "clear", "known"} => x.took \cap x.report.tells \cap due = {}
    /\ x.pc = "record" /\ x.report.current => x.report.names \cap due = {}

RequestTold(q) ==
    q.report.current =>
        /\ ~q.known
        /\ q.report.names \cap due \subseteq q.report.tells
        /\ q.pc = "accepted" => q.report.names \cap due = {}

\* The request q carries the report of the uploader x.
WaiterTold(q, x) ==
    /\ q.report.names = x.report.names /\ q.report.current = x.report.current
    /\ q.known \/ q.pc = "accepted" => x.took \cap x.report.tells \cap due = {}

ToldInv ==
    /\ \A names \in seen \cup {history} : names \cap due = {}
    /\ \A u \in Uploaders : UploaderTold(up[u])
    /\ \A s \in Slots : RequestTold(relay[s])
    /\ \A s \in Slots, u \in Uploaders : relay[s].by = u => WaiterTold(relay[s], up[u])

QueueInv == TypedDevices /\ TypedQueue /\ TypedShell /\ ToldInv

LEMMA InertTyped ==
  /\ NoReport \in Report /\ Idle \in Uploading /\ Free \in Requests
  /\ Idle.pc = "idle" /\ Idle.took = {} /\ Idle.report.names = {}
  /\ Free.by = "nobody" /\ Free.report.current = FALSE
<1>1. NoReport \in Report /\ NoReport.names = {} /\ NoReport.current = FALSE
  BY DEF NoReport, Nothing, Report
<1>2. Startup \in Callers
  BY DEF Callers
<1>3. Idle \in Uploading /\ Idle.report = NoReport
  BY <1>1, <1>2 DEF Idle, Uploading, UploaderPc
<1>4. Free \in Requests /\ Free.report = NoReport
  BY <1>1 DEF Free, Requests, RequestPc, Waiters
<1> QED BY <1>1, <1>3, <1>4 DEF Idle, Free

\* Logging something new keeps the types, what else the reports tell, and every
\* field but current and known.
LEMMA LogsTyped ==
  ASSUME NEW up1 \in [Uploaders -> Uploading], NEW relay1 \in [Slots -> Requests],
         NEW new, LogsNew(new, up1, relay1)
  PROVE  /\ TypedDevices'
         /\ history' = Nothing /\ seen' = {}
         /\ \A u \in Uploaders :
               /\ up'[u].pc = up1[u].pc /\ up'[u].took = up1[u].took
               /\ up'[u].report.names = up1[u].report.names
               /\ up'[u].report.tells = up1[u].report.tells \ new
               /\ up'[u].report.current = FALSE
         /\ \A s \in Slots :
               /\ relay'[s].pc = relay1[s].pc /\ relay'[s].by = relay1[s].by
               /\ relay'[s].report.names = relay1[s].report.names
               /\ relay'[s].known = InSeen(relay1[s])
               /\ relay'[s].report.current = FALSE
<1>1. \A rep \in Report :
         /\ Stale(rep, new) \in Report /\ Stale(rep, new).names = rep.names
         /\ Stale(rep, new).tells = rep.tells \ new /\ Stale(rep, new).current = FALSE
  <2> TAKE rep \in Report
  <2>1. PICK told \in SUBSET Marks : told = rep.tells \ new
    BY DEF Report
  <2>2. Stale(rep, new) = [rep EXCEPT !.current = FALSE, !.tells = told]
    BY <2>1 DEF Stale
  <2> QED BY <2>1, <2>2 DEF Report
<1>2. ASSUME NEW u \in Uploaders
      PROVE  /\ up'[u] \in Uploading
             /\ up'[u].pc = up1[u].pc /\ up'[u].took = up1[u].took
             /\ up'[u].report = Stale(up1[u].report, new) /\ up1[u].report \in Report
  <2>1. PICK rep \in Report : rep = Stale(up1[u].report, new)
    BY <1>1 DEF Uploading
  <2>2. up'[u] = [up1[u] EXCEPT !.report = rep]
    BY <2>1 DEF LogsNew
  <2>3. up1[u] \in Uploading
    OBVIOUS
  <2> QED BY <2>1, <2>2, <2>3 DEF Uploading
<1>3. ASSUME NEW s \in Slots
      PROVE  /\ relay'[s] \in Requests
             /\ relay'[s].pc = relay1[s].pc /\ relay'[s].by = relay1[s].by
             /\ relay'[s].report = Stale(relay1[s].report, new) /\ relay1[s].report \in Report
             /\ relay'[s].known = InSeen(relay1[s])
  <2>1. PICK rep \in Report : rep = Stale(relay1[s].report, new)
    BY <1>1 DEF Requests
  <2>2. PICK b \in BOOLEAN : b = InSeen(relay1[s])
    BY DEF InSeen
  <2>3. relay'[s] = [relay1[s] EXCEPT !.known = b, !.report = rep]
    BY <2>1, <2>2 DEF LogsNew
  <2>4. relay1[s] \in Requests
    OBVIOUS
  <2>5. /\ relay'[s] \in Requests /\ relay'[s].pc = relay1[s].pc
        /\ relay'[s].by = relay1[s].by /\ relay'[s].report = rep /\ relay'[s].known = b
        /\ relay1[s].report \in Report
    BY <2>3, <2>4 DEF Requests
  <2> QED BY <2>1, <2>2, <2>5
<1>4. history' = Nothing /\ seen' = {} /\ TypedDevices'
  BY <1>2, <1>3 DEF LogsNew, TypedDevices, Nothing
<1> HIDE DEF Report
<1> QED BY <1>1, <1>2, <1>3, <1>4

\* A step that logs, and owes no more than what is new: uploaders go on, or start
\* or end with nothing taken, and whoever still waits for a request is left alone.
LEMMA NewsTold ==
  ASSUME QueueInv, NEW up1 \in [Uploaders -> Uploading], NEW relay1 \in [Slots -> Requests],
         NEW new, LogsNew(new, up1, relay1),
         \A u \in Uploaders :
            up1[u] = up[u] \/ (up1[u].took = {} /\ up1[u].pc \in {"idle", "wait"}),
         \A s \in Slots : \A u \in Uploaders :
            relay1[s].by = u => relay1[s] = relay[s] /\ up1[u] = up[u],
         due' \subseteq due \cup new
  PROVE  TypedDevices' /\ ToldInv'
<1>1. /\ TypedDevices'
      /\ history' = Nothing /\ seen' = {}
      /\ \A u \in Uploaders :
            /\ up'[u].pc = up1[u].pc /\ up'[u].took = up1[u].took
            /\ up'[u].report.names = up1[u].report.names
            /\ up'[u].report.tells = up1[u].report.tells \ new
            /\ up'[u].report.current = FALSE
      /\ \A s \in Slots :
            /\ relay'[s].pc = relay1[s].pc /\ relay'[s].by = relay1[s].by
            /\ relay'[s].report.names = relay1[s].report.names
            /\ relay'[s].known = InSeen(relay1[s])
            /\ relay'[s].report.current = FALSE
  BY LogsTyped
<1>2. ASSUME NEW u \in Uploaders PROVE UploaderTold(up[u])'
  <2>1. CASE up1[u] = up[u]
    <3>1. UploaderTold(up[u])
      BY DEF QueueInv, ToldInv
    <3> QED BY <1>1, <2>1, <3>1 DEF UploaderTold
  <2>2. CASE up1[u].took = {} /\ up1[u].pc \in {"idle", "wait"}
    BY <1>1, <2>2 DEF UploaderTold
  <2> QED BY <2>1, <2>2
<1>3. ASSUME NEW s \in Slots PROVE RequestTold(relay[s])'
  BY <1>1 DEF RequestTold
<1>4. ASSUME NEW s \in Slots, NEW u \in Uploaders, relay'[s].by = u
      PROVE  WaiterTold(relay[s], up[u])'
  <2>1. relay1[s] = relay[s] /\ up1[u] = up[u] /\ relay[s].by = u
    BY <1>1, <1>4
  <2>2. WaiterTold(relay[s], up[u]) /\ UploaderTold(up[u])
    BY <2>1 DEF QueueInv, ToldInv
  <2>3. InSeen(relay[s]) => relay[s].known \/ relay[s].report.names \cap due = {}
    BY DEF QueueInv, ToldInv, InSeen
  <2>4. InSeen(relay[s]) \/ relay[s].pc = "accepted" =>
           up[u].took \cap up[u].report.tells \cap due = {}
    BY <2>1, <2>2, <2>3 DEF WaiterTold, UploaderTold
  <2>5. relay'[s].known => InSeen(relay[s])
    BY <1>1, <2>1
  <2>6. /\ relay'[s].pc = relay[s].pc /\ up'[u].took = up[u].took
        /\ up'[u].report.tells = up[u].report.tells \ new
    BY <1>1, <2>1
  <2>7. relay'[s].known \/ relay'[s].pc = "accepted" =>
           up'[u].took \cap up'[u].report.tells \cap due' = {}
    BY <2>4, <2>5, <2>6
  <2>8. relay'[s].report.names = up'[u].report.names
    BY <1>1, <2>1, <2>2 DEF WaiterTold
  <2> QED BY <1>1, <2>7, <2>8 DEF WaiterTold
<1>5. \A names \in (seen \cup {history})' : names \cap due' = {}
  BY <1>1 DEF Nothing
<1> QED BY <1>1, <1>2, <1>3, <1>4, <1>5 DEF ToldInv

\* The same for a line that tells of nothing new.
LEMMA LoggedTold ==
  ASSUME QueueInv, NEW up1 \in [Uploaders -> Uploading], NEW relay1 \in [Slots -> Requests],
         Logs(up1, relay1), due' \subseteq due,
         \A u \in Uploaders :
            up1[u] = up[u] \/ (up1[u].took = {} /\ up1[u].pc \in {"idle", "wait"}),
         \A s \in Slots : \A u \in Uploaders :
            relay1[s].by = u => relay1[s] = relay[s] /\ up1[u] = up[u]
  PROVE  TypedDevices' /\ ToldInv'
<1>1. LogsNew({}, up1, relay1) /\ due' \subseteq due \cup {}
  BY DEF Logs
<1> QED BY <1>1, NewsTold

\* An uploader that waits for no answer becomes x, and nothing is logged.
LEMMA PlainTold ==
  ASSUME MarkInv, QueueInv, NEW u \in Uploaders, NEW x \in Uploading,
         up[u].pc # "sent", up' = [up EXCEPT ![u] = x], UploaderTold(x),
         relay' = relay, seen' = seen, owed' = owed,
         history' \in SUBSET Callers, history' \cap due = {}
  PROVE  TypedDevices' /\ ToldInv'
<1>1. /\ up' \in [Uploaders -> Uploading] /\ up'[u] = x
      /\ \A v \in Uploaders : v # u => up'[v] = up[v]
  BY DEF QueueInv, TypedDevices
<1>2. \A s \in Slots : relay[s].by # u
  BY DEF MarkInv, WhoWaits
<1>3. TypedDevices'
  BY <1>1 DEF QueueInv, TypedDevices
<1>4. due' = due
  BY DEF owed
<1>5. \A v \in Uploaders : UploaderTold(up[v])'
  <2>1. \A v \in Uploaders : UploaderTold(up'[v])
    BY <1>1 DEF QueueInv, ToldInv
  <2> QED BY <1>4, <2>1 DEF UploaderTold
<1>6. \A s \in Slots : RequestTold(relay[s])'
  BY <1>4 DEF QueueInv, ToldInv, RequestTold
<1>7. \A s \in Slots, v \in Uploaders : relay'[s].by = v => WaiterTold(relay[s], up[v])'
  BY <1>1, <1>2, <1>4 DEF QueueInv, ToldInv, WaiterTold
<1>8. \A names \in (seen \cup {history})' : names \cap due' = {}
  BY <1>4 DEF QueueInv, ToldInv
<1> QED BY <1>3, <1>5, <1>6, <1>7, <1>8 DEF ToldInv

\* Other threads' and processes' steps of an uploader.
LEMMA UploaderSteps ==
  ASSUME MarkInv, QueueInv, NEW u \in Uploaders, DiagAssumption,
         ReadQueue(u) \/ Collect(u) \/ Record(u) \/ ClearDuplicate(u) \/ WriteFails(u)
  PROVE  TypedDevices' /\ ToldInv'
<1>1. /\ up[u] \in Uploading /\ up[u].report \in Report /\ UploaderTold(up[u])
      /\ history \in SUBSET Callers /\ history \cap due = {} /\ due \subseteq Marks
  BY DEF QueueInv, TypedDevices, TypedShell, ToldInv, Uploading
<1>2. CASE ReadQueue(u)
  <2>1. /\ Named(u) \in SUBSET Callers /\ ToSet(reasons) \in SUBSET Reasons
        /\ ToSet(reasons) \subseteq Named(u)
    <3>1. ToSet(reasons) \in SUBSET Reasons /\ (reasons = <<>> => ToSet(reasons) = {})
      BY DEF QueueInv, TypedQueue, ToSet
    <3>2. up[u].caller \in Callers /\ Reasons \subseteq Callers
      BY <1>1 DEF Uploading, Callers
    <3> QED BY <3>1, <3>2 DEF Named
  <2> DEFINE rep == [NoReport EXCEPT !.names = Named(u)]
             y == [up[u] EXCEPT !.pc = "collect", !.took = ToSet(reasons), !.report = rep]
  <2>2. rep \in Report /\ rep.names = Named(u)
    BY <2>1, InertTyped DEF Report
  <2>3. y \in Uploading /\ y.pc = "collect" /\ y.took = ToSet(reasons) /\ y.report = rep
    <3> HIDE DEF rep
    <3> QED BY <1>1, <2>1, <2>2 DEF Uploading, UploaderPc
  <2>4. PICK x \in Uploading : up' = [up EXCEPT ![u] = x] /\ (x = y \/ x = Idle)
    <3>1. up' = [up EXCEPT ![u] = IF marked THEN y ELSE Idle]
      BY <1>2 DEF ReadQueue, Become, Set
    <3> HIDE DEF y
    <3> QED BY <2>3, <3>1, InertTyped
  <2> HIDE DEF y, rep
  <2>5. UploaderTold(x)
    BY <2>1, <2>2, <2>3, <2>4, InertTyped DEF UploaderTold
  <2> QED BY <1>1, <1>2, <2>4, <2>5, PlainTold DEF ReadQueue
<1>3. CASE Collect(u)
  <2> DEFINE names == up[u].report.names
  <2>1. names \in SUBSET Callers /\ Telling(names) \in SUBSET Marks /\ names \cap due \subseteq Telling(names)
    BY <1>1 DEF Report, Telling
  <2> DEFINE rep == Collected(names)
  <2>2. rep \in Report /\ rep.names = names /\ rep.tells = Telling(names)
    <3> HIDE DEF names
    <3> QED BY <2>1 DEF Collected, Report
  <2>3. PICK pc \in {"known", "post"} :
           /\ pc = IF Duplicate(u) THEN "known" ELSE "post"
           /\ pc = "known" => up[u].took = {} \/ history = names
    BY DEF Duplicate
  <2> DEFINE x == [up[u] EXCEPT !.pc = pc, !.report = rep]
  <2>4. x \in Uploading /\ x.pc = pc /\ x.report = rep /\ x.took = up[u].took
    <3> HIDE DEF rep
    <3> QED BY <1>1, <2>2, <2>3 DEF Uploading, UploaderPc
  <2>5. up' = [up EXCEPT ![u] = x]
    BY <1>3, <2>3 DEF Collect, Become, Set
  <2> HIDE DEF x, rep
  <2>6. UploaderTold(x)
    BY <1>1, <2>1, <2>2, <2>3, <2>4 DEF UploaderTold
  <2>7. relay' = relay /\ seen' = seen /\ owed' = owed /\ history' = history /\ up[u].pc = "collect"
    BY <1>3 DEF Collect
  <2> QED BY <1>1, <2>4, <2>5, <2>6, <2>7, PlainTold
<1>4. CASE Record(u)
  <2> DEFINE x == [up[u] EXCEPT !.pc = "clear"]
  <2>1. x \in Uploading /\ x.pc = "clear" /\ x.report = up[u].report /\ x.took = up[u].took
    BY <1>1 DEF Uploading, UploaderPc
  <2>2. up' = [up EXCEPT ![u] = x] /\ up[u].pc = "record"
    BY <1>4 DEF Record, To
  <2> HIDE DEF x
  <2>3. UploaderTold(x)
    BY <1>1, <2>1, <2>2 DEF UploaderTold
  <2>4. history' \in SUBSET Callers /\ history' \cap due = {}
    BY <1>1, <1>4, <2>2 DEF Record, UploaderTold, Report, Nothing
  <2>5. relay' = relay /\ seen' = seen /\ owed' = owed
    BY <1>4 DEF Record
  <2> QED BY <2>1, <2>2, <2>3, <2>4, <2>5, PlainTold
<1>5. CASE ClearDuplicate(u) \/ WriteFails(u)
  <2>1. UploaderTold(Idle)
    BY InertTyped DEF UploaderTold
  <2> QED BY <1>1, <1>5, <2>1, InertTyped, PlainTold DEF ClearDuplicate, WriteFails, Become, Set
<1> QED BY <1>2, <1>3, <1>4, <1>5

LEMMA PostTold ==
  ASSUME MarkInv, QueueInv, NEW u \in Uploaders, NEW s \in Slots, Post(u, s)
  PROVE  TypedDevices' /\ ToldInv'
<1>1. /\ up[u] \in Uploading /\ up[u].report \in Report /\ up[u].pc = "post"
      /\ UploaderTold(up[u])
  BY DEF QueueInv, TypedDevices, ToldInv, Uploading, Post
<1> DEFINE x == [up[u] EXCEPT !.pc = "sent"]
           y == [pc |-> "asked", by |-> u, report |-> up[u].report, known |-> FALSE]
<1>2. x \in Uploading /\ x.pc = "sent" /\ x.report = up[u].report /\ x.took = up[u].took
  BY <1>1 DEF Uploading, UploaderPc
<1>3. /\ y \in Requests /\ y.pc = "asked" /\ y.by = u /\ y.report = up[u].report /\ ~y.known
      /\ up' = [up EXCEPT ![u] = x] /\ relay' = [relay EXCEPT ![s] = y]
  BY <1>1 DEF Requests, RequestPc, Waiters, Post, To
<1> HIDE DEF x, y
<1>4. /\ up' \in [Uploaders -> Uploading] /\ up'[u] = x
      /\ \A v \in Uploaders : v # u => up'[v] = up[v]
  BY <1>2, <1>3 DEF QueueInv, TypedDevices
<1>5. /\ relay' \in [Slots -> Requests] /\ relay'[s] = y
      /\ \A q \in Slots : q # s => relay'[q] = relay[q]
  BY <1>3 DEF QueueInv, TypedDevices
<1>6. \A q \in Slots : relay[q].by # u
  BY <1>1 DEF MarkInv, WhoWaits
<1>7. TypedDevices' /\ due' = due /\ seen' = seen /\ history' = history
  BY <1>4, <1>5 DEF Post, QueueInv, TypedDevices, owed
<1>8. UploaderTold(x) /\ RequestTold(y) /\ WaiterTold(y, x)
  BY <1>1, <1>2, <1>3 DEF UploaderTold, RequestTold, WaiterTold
<1>9. \A v \in Uploaders : UploaderTold(up[v])'
  <2>1. \A v \in Uploaders : UploaderTold(up'[v])
    BY <1>4, <1>8 DEF QueueInv, ToldInv
  <2> QED BY <1>7, <2>1 DEF UploaderTold
<1>10. \A q \in Slots : RequestTold(relay[q])'
  <2>1. \A q \in Slots : RequestTold(relay'[q])
    BY <1>5, <1>8 DEF QueueInv, ToldInv
  <2> QED BY <1>7, <2>1 DEF RequestTold
<1>11. \A q \in Slots, v \in Uploaders : relay'[q].by = v => WaiterTold(relay[q], up[v])'
  <2>1. \A q \in Slots, v \in Uploaders : relay'[q].by = v => WaiterTold(relay'[q], up'[v])
    BY <1>3, <1>4, <1>5, <1>6, <1>8 DEF QueueInv, ToldInv
  <2> QED BY <1>7, <2>1 DEF WaiterTold
<1>12. \A names \in (seen \cup {history})' : names \cap due' = {}
  BY <1>7 DEF QueueInv, ToldInv
<1> QED BY <1>7, <1>9, <1>10, <1>11, <1>12 DEF ToldInv

\* Requests that are freed, or that nobody waits for any more.
LEMMA FewerRequests ==
  ASSUME QueueInv, DiagAssumption
  PROVE  /\ \A s \in Slots :
               /\ Freed(s) \in [Slots -> Requests] /\ Freed(s)[s] = Free
               /\ \A q \in Slots : q # s => Freed(s)[q] = relay[q]
         /\ \A gone \in SUBSET Uploaders :
               /\ Forgotten(gone) \in [Slots -> Requests]
               /\ \A s \in Slots : Forgotten(gone)[s].by \in Uploaders =>
                     Forgotten(gone)[s] = relay[s] /\ relay[s].by \notin gone
<1>1. ASSUME NEW gone \in SUBSET Uploaders, NEW s \in Slots
      PROVE  /\ Forgotten(gone)[s] \in Requests
             /\ Forgotten(gone)[s].by \in Uploaders =>
                  Forgotten(gone)[s] = relay[s] /\ relay[s].by \notin gone
  <2>1. relay[s] \in Requests
    BY DEF QueueInv, TypedDevices
  <2> DEFINE y == [relay[s] EXCEPT !.by = "nobody"]
  <2>2. y \in Requests /\ y.by = "nobody"
    BY <2>1 DEF Requests, Waiters
  <2>3. Forgotten(gone)[s] = IF relay[s].by \in gone THEN y ELSE relay[s]
    BY DEF Forgotten
  <2> HIDE DEF y
  <2> QED BY <2>1, <2>2, <2>3, DiagAssumption DEF Uploaders
<1>2. \A gone \in SUBSET Uploaders : Forgotten(gone) \in [Slots -> Requests]
  BY <1>1 DEF Forgotten
<1>3. \A s \in Slots :
         /\ Freed(s) \in [Slots -> Requests] /\ Freed(s)[s] = Free
         /\ \A q \in Slots : q # s => Freed(s)[q] = relay[q]
  BY InertTyped DEF Freed, QueueInv, TypedDevices
<1> QED BY <1>1, <1>2, <1>3

LEMMA AcceptedTold ==
  ASSUME MarkInv, QueueInv, NEW u \in Uploaders, NEW s \in Slots, Accepted(u, s), DiagAssumption
  PROVE  TypedDevices' /\ ToldInv'
<1>1. /\ up[u] \in Uploading /\ up[u].pc = "sent" /\ relay[s].by = u /\ relay[s].pc = "accepted"
      /\ UploaderTold(up[u]) /\ RequestTold(relay[s]) /\ WaiterTold(relay[s], up[u])
  BY DEF QueueInv, TypedDevices, ToldInv, Accepted, Answered
<1> DEFINE x == [up[u] EXCEPT !.pc = "record"]
<1>2. /\ x \in Uploading /\ x.pc = "record" /\ x.report = up[u].report /\ x.took = up[u].took
      /\ up' = [up EXCEPT ![u] = x]
  BY <1>1 DEF Uploading, UploaderPc, Accepted, To
<1> HIDE DEF x
<1>3. /\ up' \in [Uploaders -> Uploading] /\ up'[u] = x
      /\ \A v \in Uploaders : v # u => up'[v] = up[v]
  BY <1>2 DEF QueueInv, TypedDevices
<1>4. /\ relay' \in [Slots -> Requests] /\ relay'[s] = Free
      /\ Free.by \notin Uploaders /\ ~Free.report.current
      /\ \A q \in Slots : q # s => relay'[q] = relay[q]
  BY FewerRequests, InertTyped, DiagAssumption DEF Accepted, Uploaders
<1>5. TypedDevices' /\ due' = due /\ seen' = seen /\ history' = history
  BY <1>3, <1>4 DEF Accepted, QueueInv, TypedDevices, owed
<1>6. UploaderTold(x)
  BY <1>1, <1>2 DEF UploaderTold, RequestTold, WaiterTold
<1>7. \A v \in Uploaders : UploaderTold(up[v])'
  <2>1. \A v \in Uploaders : UploaderTold(up'[v])
    BY <1>3, <1>6 DEF QueueInv, ToldInv
  <2> QED BY <1>5, <2>1 DEF UploaderTold
<1>8. \A q \in Slots : RequestTold(relay[q])'
  <2>1. \A q \in Slots : RequestTold(relay'[q])
    <3>1. RequestTold(Free)
      BY <1>4 DEF RequestTold
    <3> QED BY <1>4, <3>1 DEF QueueInv, ToldInv
  <2> QED BY <1>5, <2>1 DEF RequestTold
<1>9. \A q \in Slots, v \in Uploaders : relay'[q].by = v => WaiterTold(relay[q], up[v])'
  <2>1. \A q \in Slots : q # s => relay[q].by # u
    BY <1>1 DEF MarkInv, WhoWaits
  <2>2. \A q \in Slots, v \in Uploaders : relay'[q].by = v => WaiterTold(relay'[q], up'[v])
    BY <1>3, <1>4, <2>1 DEF QueueInv, ToldInv
  <2> QED BY <1>5, <2>2 DEF WaiterTold
<1>10. \A names \in (seen \cup {history})' : names \cap due' = {}
  BY <1>5 DEF QueueInv, ToldInv
<1> QED BY <1>5, <1>7, <1>8, <1>9, <1>10 DEF ToldInv

\* An answer: what the new issue tells of is no longer owed.
LEMMA AnswerTold ==
  ASSUME MarkInv, QueueInv, NEW s \in Slots, NEW answer \in {"accepted", "refused"},
         Answer(s, answer), due' \subseteq due,
         seen' \subseteq SUBSET Callers, \A names \in seen' : names \cap due' = {},
         answer = "accepted" =>
            /\ relay[s].report.current => relay[s].report.names \cap due' = {}
            /\ \A u \in Uploaders :
                  relay[s].by = u => up[u].took \cap up[u].report.tells \cap due' = {}
  PROVE  TypedDevices' /\ ToldInv'
<1> DEFINE y == [relay[s] EXCEPT !.pc = answer]
<1>1. /\ relay[s] \in Requests /\ RequestTold(relay[s])
      /\ \A q \in Slots, u \in Uploaders : relay[q].by = u => WaiterTold(relay[q], up[u])
  BY DEF QueueInv, TypedDevices, ToldInv
<1>2. /\ y \in Requests /\ y.pc = answer /\ y.by = relay[s].by
      /\ y.report = relay[s].report /\ y.known = relay[s].known
  BY <1>1 DEF Requests, RequestPc
<1>3. up' = up /\ history' = history /\ relay' = [relay EXCEPT ![s] = y]
  BY DEF Answer
<1> HIDE DEF y
<1>4. /\ relay' \in [Slots -> Requests] /\ relay'[s] = y
      /\ \A q \in Slots : q # s => relay'[q] = relay[q]
  BY <1>2, <1>3 DEF QueueInv, TypedDevices
<1>5. TypedDevices'
  BY <1>3, <1>4 DEF QueueInv, TypedDevices
<1>6. \A u \in Uploaders : UploaderTold(up[u])'
  BY <1>3 DEF QueueInv, ToldInv, UploaderTold
<1>7. ASSUME NEW q \in Slots PROVE RequestTold(relay[q])'
  <2>1. CASE q = s
    BY <1>1, <1>2, <1>4, <2>1 DEF RequestTold
  <2>2. CASE q # s
    <3>1. RequestTold(relay[q])
      BY DEF QueueInv, ToldInv
    <3> QED BY <1>4, <2>2, <3>1 DEF RequestTold
  <2> QED BY <2>1, <2>2
<1>8. ASSUME NEW q \in Slots, NEW u \in Uploaders, relay'[q].by = u
      PROVE  WaiterTold(relay[q], up[u])'
  <2>1. CASE q = s
    <3>1. WaiterTold(relay[s], up[u])
      BY <1>1, <1>2, <1>4, <1>8, <2>1
    <3> QED BY <1>2, <1>3, <1>4, <1>8, <2>1, <3>1 DEF WaiterTold
  <2>2. CASE q # s
    <3>1. WaiterTold(relay[q], up[u])
      BY <1>1, <1>4, <1>8, <2>2
    <3> QED BY <1>3, <1>4, <2>2, <3>1 DEF WaiterTold
  <2> QED BY <2>1, <2>2
<1>9. \A names \in (seen \cup {history})' : names \cap due' = {}
  BY <1>3 DEF QueueInv, ToldInv
<1> QED BY <1>5, <1>6, <1>7, <1>8, <1>9 DEF ToldInv

LEMMA RelayTold ==
  ASSUME MarkInv, QueueInv, NEW s \in Slots, DiagAssumption,
         Relay(s) \/ CreateUnseen(s) \/ Refuse(s)
  PROVE  TypedDevices' /\ ToldInv'
<1> DEFINE names == relay[s].report.names
           tells == relay[s].report.tells
<1>1. /\ RequestTold(relay[s]) /\ relay[s] \in Requests /\ names \in SUBSET Callers
      /\ seen \subseteq SUBSET Callers /\ \A n \in seen : n \cap due = {}
  BY DEF QueueInv, TypedDevices, ToldInv, Requests, Report
<1>2. ASSUME NEW u \in Uploaders, relay[s].by = u
      PROVE  /\ WaiterTold(relay[s], up[u]) /\ up[u].took \subseteq names
             /\ up[u].report.tells = tells
  BY <1>2 DEF QueueInv, ToldInv, UploaderTold, WaiterTold, MarkInv, WhoWaits
<1>3. CASE AcceptAgain(s)
  <2>1. due' = due /\ seen' = seen /\ Answer(s, "accepted")
    BY <1>3 DEF AcceptAgain, owed
  <2>2. relay[s].known \/ names \cap due = {}
    BY <1>1, <1>3 DEF AcceptAgain, InSeen
  <2>3. relay[s].report.current => names \cap due = {}
    BY <1>1, <2>2 DEF RequestTold
  <2>4. \A u \in Uploaders :
           relay[s].by = u => up[u].took \cap up[u].report.tells \cap due = {}
    BY <1>2, <2>2 DEF WaiterTold
  <2> QED BY <1>1, <2>1, <2>3, <2>4, AnswerTold
<1>4. CASE CreateIssue(s)
  <2>1. due' = due \ tells /\ Answer(s, "accepted")
    BY <1>4 DEF CreateIssue, NewIssue
  <2>2. relay[s].report.current => names \cap due' = {}
    BY <1>1, <2>1 DEF RequestTold
  <2>3. \A u \in Uploaders :
           relay[s].by = u => up[u].took \cap up[u].report.tells \cap due' = {}
    BY <1>2, <2>1
  <2>4. seen' \subseteq SUBSET Callers /\ \A n \in seen' : n \cap due' = {}
    BY <1>1, <1>4, <2>1, <2>2 DEF CreateIssue
  <2> HIDE DEF names, tells
  <2> QED BY <2>1, <2>2, <2>3, <2>4, AnswerTold DEF names, tells
<1>5. CASE CreateUnseen(s) \/ Refuse(s)
  <2>1. due' \subseteq due /\ seen' = seen /\ Answer(s, "refused")
    BY <1>5 DEF CreateUnseen, NewIssue, Refuse, owed
  <2> QED BY <1>1, <2>1, AnswerTold
<1>6. CASE Unheard(s)
  <2>1. up' = up /\ history' = history /\ seen' = seen /\ due' = due
    BY <1>6 DEF Unheard, owed
  <2>2. /\ relay' \in [Slots -> Requests] /\ relay'[s] = Free
        /\ Free.by \notin Uploaders /\ ~Free.report.current
        /\ \A q \in Slots : q # s => relay'[q] = relay[q]
    BY <1>6, FewerRequests, InertTyped, DiagAssumption DEF Unheard, Uploaders
  <2>3. TypedDevices'
    BY <2>1, <2>2 DEF QueueInv, TypedDevices
  <2>4. \A u \in Uploaders : UploaderTold(up[u])'
    BY <2>1 DEF QueueInv, ToldInv, UploaderTold
  <2>5. \A q \in Slots : RequestTold(relay[q])'
    BY <2>1, <2>2 DEF QueueInv, ToldInv, RequestTold
  <2>6. \A q \in Slots, u \in Uploaders : relay'[q].by = u => WaiterTold(relay[q], up[u])'
    BY <2>1, <2>2 DEF QueueInv, ToldInv, WaiterTold
  <2>7. \A n \in (seen \cup {history})' : n \cap due' = {}
    BY <2>1 DEF QueueInv, ToldInv
  <2> QED BY <2>3, <2>4, <2>5, <2>6, <2>7 DEF ToldInv
<1> QED BY <1>3, <1>4, <1>5, <1>6 DEF Relay

\* The steps that log.
LEMMA LogSteps ==
  ASSUME MarkInv, QueueInv, DiagAssumption,
         \/ \E u \in Uploaders : Clear(u) \/ GiveUp(u) \/ \E s \in Slots : Refused(u, s)
         \/ \E gone \in SUBSET Uploaders : Killed(gone) /\ due' = due
         \/ LogLine \/ ClearLogs
  PROVE  TypedDevices' /\ ToldInv'
<1>1. up \in [Uploaders -> Uploading] /\ relay \in [Slots -> Requests]
  BY DEF QueueInv, TypedDevices
<1>2. ASSUME NEW u \in Uploaders
      PROVE  /\ Set(u, Idle) \in [Uploaders -> Uploading] /\ Set(u, Idle)[u] = Idle
             /\ \A v \in Uploaders : v # u => Set(u, Idle)[v] = up[v]
  BY <1>1, InertTyped DEF Set
<1>3. ASSUME NEW u \in Uploaders, Clear(u) PROVE TypedDevices' /\ ToldInv'
  <2>1. \A s \in Slots : relay[s].by # u
    BY <1>3 DEF MarkInv, WhoWaits, Clear
  <2>2. Logs(Set(u, Idle), relay) /\ due' = due
    BY <1>3 DEF Clear, owed
  <2> QED BY <1>1, <1>2, <2>1, <2>2, InertTyped, LoggedTold
<1>4. ASSUME NEW u \in Uploaders, GiveUp(u) PROVE TypedDevices' /\ ToldInv'
  <2>1. Logs(Set(u, Idle), Forgotten({u})) /\ due' = due
    BY <1>4 DEF GiveUp, owed
  <2>2. /\ Forgotten({u}) \in [Slots -> Requests]
        /\ \A s \in Slots : Forgotten({u})[s].by \in Uploaders =>
              Forgotten({u})[s] = relay[s] /\ relay[s].by # u
    <3>1. {u} \in SUBSET Uploaders
      OBVIOUS
    <3> QED BY <3>1, FewerRequests
  <2>3. \A s \in Slots : \A v \in Uploaders :
           Forgotten({u})[s].by = v => Forgotten({u})[s] = relay[s] /\ Set(u, Idle)[v] = up[v]
    BY <1>2, <2>2
  <2>4. \A v \in Uploaders :
           \/ Set(u, Idle)[v] = up[v]
           \/ Set(u, Idle)[v].took = {} /\ Set(u, Idle)[v].pc \in {"idle", "wait"}
    BY <1>2, <2>1, InertTyped
  <2>5. Set(u, Idle) \in [Uploaders -> Uploading]
    BY <1>2
  <2> QED BY <2>1, <2>2, <2>3, <2>4, <2>5, LoggedTold
<1>5. ASSUME NEW u \in Uploaders, NEW s \in Slots, Refused(u, s) PROVE TypedDevices' /\ ToldInv'
  <2>1. Logs(Set(u, Idle), Freed(s)) /\ due' = due
    BY <1>5 DEF Refused, owed
  <2>2. \A q \in Slots : q # s => relay[q].by # u
    BY <1>5 DEF MarkInv, WhoWaits, Refused, Answered
  <2>3. /\ Freed(s) \in [Slots -> Requests] /\ Freed(s)[s] = Free
        /\ Free.by \notin Uploaders
        /\ \A q \in Slots : q # s => Freed(s)[q] = relay[q]
    BY FewerRequests, InertTyped, DiagAssumption DEF Uploaders
  <2>4. \A q \in Slots : \A v \in Uploaders :
           Freed(s)[q].by = v => Freed(s)[q] = relay[q] /\ Set(u, Idle)[v] = up[v]
    BY <1>2, <2>2, <2>3
  <2> QED BY <1>2, <2>1, <2>3, <2>4, InertTyped, LoggedTold
<1>6. ASSUME NEW gone \in SUBSET Uploaders, Killed(gone), due' = due
      PROVE  TypedDevices' /\ ToldInv'
  <2> DEFINE up1 == [u \in Uploaders |-> IF u \in gone THEN Idle ELSE up[u]]
  <2>1. /\ up1 \in [Uploaders -> Uploading]
        /\ \A u \in Uploaders : up1[u] = IF u \in gone THEN Idle ELSE up[u]
    BY <1>1, InertTyped
  <2>2. Logs(up1, Forgotten(gone))
    BY <1>6 DEF Killed
  <2>3. /\ Forgotten(gone) \in [Slots -> Requests]
        /\ \A s \in Slots : Forgotten(gone)[s].by \in Uploaders =>
              Forgotten(gone)[s] = relay[s] /\ relay[s].by \notin gone
    BY FewerRequests
  <2> HIDE DEF up1
  <2>4. \A s \in Slots : \A u \in Uploaders :
           Forgotten(gone)[s].by = u => Forgotten(gone)[s] = relay[s] /\ up1[u] = up[u]
    BY <2>1, <2>3
  <2>5. \A u \in Uploaders :
           up1[u] = up[u] \/ (up1[u].took = {} /\ up1[u].pc \in {"idle", "wait"})
    BY <2>1, InertTyped
  <2> QED BY <1>6, <2>1, <2>2, <2>3, <2>4, <2>5, LoggedTold
<1>7. CASE LogLine \/ ClearLogs
  <2>1. Logs(up, relay) /\ due' = due
    BY <1>7 DEF LogLine, ClearLogs, owed
  <2> QED BY <1>1, <2>1, LoggedTold
<1> QED BY <1>3, <1>4, <1>5, <1>6, <1>7

\* An uploader starts, and what it is started for is logged.
LEMMA StartTold ==
  ASSUME MarkInv, QueueInv, NEW u \in Uploaders, NEW c \in Callers,
         up[u].pc = "idle", NEW new, LogsNew(new, Set(u, Waiting(c)), relay),
         due' \subseteq due \cup new
  PROVE  TypedDevices' /\ ToldInv'
<1>1. up \in [Uploaders -> Uploading] /\ relay \in [Slots -> Requests]
  BY DEF QueueInv, TypedDevices
<1>2. Waiting(c) \in Uploading /\ Waiting(c).pc = "wait" /\ Waiting(c).took = {}
  BY InertTyped DEF Waiting, Uploading, UploaderPc
<1>3. /\ Set(u, Waiting(c)) \in [Uploaders -> Uploading] /\ Set(u, Waiting(c))[u] = Waiting(c)
      /\ \A v \in Uploaders : v # u => Set(u, Waiting(c))[v] = up[v]
  BY <1>1, <1>2 DEF Set
<1>4. \A s \in Slots : relay[s].by # u
  BY DEF MarkInv, WhoWaits
<1> QED BY <1>1, <1>2, <1>3, <1>4, NewsTold

\* A reason is raised: it is owed, and no report made before tells of that.
LEMMA RaiseTold ==
  ASSUME MarkInv, QueueInv, NEW r \in Reasons, NEW t \in Threads, Raise(r, t)
  PROVE  TypedDevices' /\ ToldInv'
<1>1. /\ t \in Uploaders /\ r \in Callers /\ up[t].pc = "idle"
      /\ LogsNew({r}, Set(t, Waiting(r)), relay) /\ due' \subseteq due \cup {r}
  BY DEF Uploaders, Callers, Raise
<1> QED BY <1>1, StartTold

LEMMA AppStartsTold ==
  ASSUME MarkInv, QueueInv, AppStarts, sh # "app"
  PROVE  TypedDevices' /\ ToldInv'
<1>1. up \in [Uploaders -> Uploading] /\ relay \in [Slots -> Requests] /\ due' = due
  BY DEF QueueInv, TypedDevices, AppStarts, owed
<1>2. PICK t \in Threads : Logs(IF marked THEN Set(t, Waiting(Startup)) ELSE up, relay)
  BY DEF AppStarts
<1>3. CASE marked
  <2>1. t \in Uploaders /\ Startup \in Callers /\ up[t].pc = "idle"
    BY <1>2 DEF Uploaders, Callers, MarkInv, WhoRuns
  <2>2. LogsNew({}, Set(t, Waiting(Startup)), relay) /\ due' \subseteq due \cup {}
    BY <1>1, <1>2, <1>3 DEF Logs
  <2> QED BY <1>1, <2>1, <2>2, StartTold
<1>4. CASE ~marked
  <2>1. Logs(up, relay)
    BY <1>2, <1>4
  <2> QED BY <1>1, <2>1, LoggedTold
<1> QED BY <1>3, <1>4

\* Nothing of all this changes.
LEMMA SameTold ==
  ASSUME QueueInv, up' = up, relay' = relay, history' = history, seen' = seen, due' = due
  PROVE  TypedDevices' /\ ToldInv'
<1>1. TypedDevices'
  BY DEF QueueInv, TypedDevices
<1>2. /\ \A u \in Uploaders : UploaderTold(up[u])'
      /\ \A s \in Slots : RequestTold(relay[s])'
      /\ \A s \in Slots, u \in Uploaders : relay'[s].by = u => WaiterTold(relay[s], up[u])'
  BY DEF QueueInv, ToldInv, UploaderTold, RequestTold, WaiterTold
<1> QED BY <1>1, <1>2 DEF QueueInv, ToldInv

LEMMA ShellTold ==
  ASSUME MarkInv, QueueInv, DiagAssumption, Launcher \/ Owner \/ PowerLoss \/ CheckPending
  PROVE  TypedDevices' /\ ToldInv'
<1>1. \A c \in {ExitCode, StreamEnd, UserExit} : c \in Callers
  BY DEF Callers
<1>2. sh = "game" \/ sh = "exit_mark" => up[Cli].pc = "idle"
  BY DEF MarkInv, WhoRuns
<1>3. ASSUME NEW c \in {ExitCode, StreamEnd}, NEW next, MarkAndSend(c, next), up[Cli].pc = "idle"
      PROVE  TypedDevices' /\ ToldInv'
  <2>1. /\ LogsNew({Crash}, Set(Cli, Waiting(c)), relay) /\ due' \subseteq due \cup {Crash}
        /\ c \in Callers /\ Cli \in Uploaders
    BY <1>1, <1>3 DEF MarkAndSend, Uploaders
  <2> HIDE DEF Crash
  <2> QED BY <1>3, <2>1, StartTold
<1>4. CASE MarkExit \/ StreamEnds
  BY <1>2, <1>3, <1>4 DEF MarkExit, StreamEnds
<1>5. ASSUME NEW next, Goto(next) PROVE TypedDevices' /\ ToldInv'
  <2>1. up' = up /\ relay' = relay /\ history' = history /\ seen' = seen /\ due' = due
    BY <1>5 DEF Goto, owed
  <2> QED BY <2>1, SameTold
<1>6. CASE ExitSent \/ RetrySent
  BY <1>5, <1>6 DEF ExitSent, RetrySent
<1>7. CASE UserLeft
  <2>1. CASE marked
    <3>1. /\ LogsNew({}, Set(Cli, Waiting(UserExit)), relay) /\ due' \subseteq due \cup {}
          /\ up[Cli].pc = "idle" /\ Cli \in Uploaders
      BY <1>2, <1>7, <2>1 DEF Logs, UserLeft, owed, Uploaders
    <3> QED BY <1>1, <3>1, StartTold
  <2>2. CASE ~marked
    BY <1>5, <1>7, <2>2 DEF UserLeft
  <2> QED BY <2>1, <2>2
<1>8. CASE StreamSent \/ Restart \/ Open
  BY <1>8, AppStartsTold DEF StreamSent, Restart, Open, Sent
<1>9. CASE CheckPending
  <2>1. up' = up /\ relay' = relay /\ history' = history /\ seen' = seen /\ due' = due
    BY <1>9 DEF CheckPending, owed
  <2> QED BY <2>1, SameTold
<1>10. CASE PowerLoss \/ \E code \in {0, 1}, left \in {"none", "stream", "restart"} :
                            AppEnds(code, left)
  <2>1. PICK gone \in SUBSET Uploaders : Killed(gone) /\ due' = due
    BY <1>10 DEF PowerLoss, AppEnds, owed, Uploaders
  <2> QED BY <2>1, LogSteps
<1> QED BY <1>4, <1>6, <1>7, <1>8, <1>9, <1>10 DEF Launcher, Owner

LEMMA ToldStep ==
  ASSUME MarkInv, QueueInv, DiagAssumption, [Next]_vars
  PROVE  TypedDevices' /\ ToldInv'
<1>1. ASSUME NEW u \in Uploaders, Upload(u) \/ GiveUp(u) \/ WriteFails(u)
      PROVE  TypedDevices' /\ ToldInv'
  <2>1. CASE ReadQueue(u) \/ Collect(u) \/ Record(u) \/ ClearDuplicate(u) \/ WriteFails(u)
    BY <2>1, UploaderSteps
  <2>2. CASE Clear(u) \/ GiveUp(u) \/ \E s \in Slots : Refused(u, s)
    BY <2>2, LogSteps
  <2>3. CASE \E s \in Slots : Post(u, s) \/ Accepted(u, s)
    BY <2>3, PostTold, AcceptedTold
  <2> QED BY <1>1, <2>1, <2>2, <2>3 DEF Upload
<1>2. ASSUME NEW s \in Slots, Relay(s) \/ CreateUnseen(s) \/ Refuse(s)
      PROVE  TypedDevices' /\ ToldInv'
  BY <1>2, RelayTold
<1>3. CASE \E r \in Reasons, t \in Threads : Raise(r, t)
  BY <1>3, RaiseTold
<1>4. CASE Launcher \/ Owner \/ PowerLoss \/ CheckPending
  BY <1>4, ShellTold
<1>5. CASE LogLine \/ ClearLogs
  BY <1>5, LogSteps
<1>6. CASE UNCHANGED vars
  <2>1. up' = up /\ relay' = relay /\ history' = history /\ seen' = seen /\ due' = due
    BY <1>6 DEF vars, owed
  <2> QED BY <2>1, SameTold
<1> QED BY <1>1, <1>2, <1>3, <1>4, <1>5, <1>6 DEF Next

\* _remember_pending_reason keeps the file a list of different reasons, and only
\* the oldest reason of a full one leaves it.
LEMMA RememberedFacts ==
  ASSUME TypedQueue, DiagAssumption, NEW r \in Reasons
  PROVE  /\ Remembered(r) \in Seq(Reasons) /\ Len(Remembered(r)) <= MaxReasons
         /\ IsInjective(Remembered(r))
         /\ \A old \in ToSet(reasons) \ ToSet(Remembered(r)) :
               /\ old = Head(reasons)
               /\ Len(reasons) = MaxReasons /\ Len(Remembered(r)) = MaxReasons
<1> DEFINE all == Append(reasons, r)
<1>1. reasons \in Seq(Reasons) /\ IsInjective(reasons) /\ Len(reasons) \in Nat
      /\ Len(reasons) <= MaxReasons /\ MaxReasons \in Nat \ {0}
  BY DiagAssumption DEF TypedQueue
<1>2. CASE r \in ToSet(reasons)
  BY <1>1, <1>2 DEF Remembered
<1>3. CASE r \notin ToSet(reasons)
  <2>1. /\ all \in Seq(Reasons) /\ Len(all) = Len(reasons) + 1 /\ IsInjective(all)
        /\ ToSet(all) = ToSet(reasons) \cup {r}
    BY <1>1, <1>3, AppendFacts
  <2>2. Remembered(r) = IF Len(all) > MaxReasons THEN Tail(all) ELSE all
    BY <1>3 DEF Remembered
  <2> HIDE DEF all
  <2>3. CASE Len(all) > MaxReasons
    <3>1. all # <<>>
      BY <1>1, <2>1
    <3>2. Tail(all) \in Seq(Reasons) /\ Len(Tail(all)) = Len(all) - 1 /\ IsInjective(Tail(all))
      BY <2>1, <3>1, TailFacts
    <3>3. \A old \in ToSet(reasons) \ ToSet(Tail(all)) : old = Head(reasons)
      <4> TAKE old \in ToSet(reasons) \ ToSet(Tail(all))
      <4>1. PICK i \in 1 .. Len(reasons) : old = reasons[i]
        BY <1>1 DEF ToSet
      <4>2. CASE i = 1
        BY <1>1, <4>1, <4>2
      <4>3. CASE i # 1
        <5>1. all[i] = reasons[i] /\ i - 1 \in 1 .. Len(Tail(all))
          BY <1>1, <2>1, <3>2, <4>1, <4>3 DEF all
        <5>2. Tail(all)[i - 1] = all[i]
          BY <2>1, <3>1, <3>2, <4>1, <4>3, <5>1
        <5>3. old \in ToSet(Tail(all))
          <6>1. Tail(all)[i - 1] = old /\ DOMAIN Tail(all) = 1 .. Len(Tail(all))
            BY <3>2, <4>1, <5>1, <5>2
          <6> QED BY <5>1, <6>1 DEF ToSet
        <5> QED BY <5>3
      <4> QED BY <4>2, <4>3
    <3> QED BY <1>1, <2>1, <2>2, <2>3, <3>2, <3>3
  <2>4. CASE ~(Len(all) > MaxReasons)
    BY <1>1, <2>1, <2>2, <2>4
  <2> QED BY <2>3, <2>4
<1> QED BY <1>2, <1>3

\* Who changes the file, and how.
LEMMA QueueChanges ==
  ASSUME TypedQueue, DiagAssumption, [Next]_vars
  PROVE  \/ reasons' = reasons /\ (marked' = marked \/ marked' = TRUE)
         \/ \E r \in Reasons : reasons' = Remembered(r) /\ marked' = TRUE
         \/ \E u \in Uploaders :
              /\ up[u].pc \in {"clear", "known"} /\ Cleared(up[u].took) /\ due' = due
<1>1. ASSUME NEW u \in Uploaders, Upload(u) \/ GiveUp(u) \/ WriteFails(u)
      PROVE  \/ reasons' = reasons /\ marked' = marked
             \/ up[u].pc \in {"clear", "known"} /\ Cleared(up[u].took) /\ due' = due
  <2>1. CASE ReadQueue(u) \/ Collect(u) \/ Record(u) \/ GiveUp(u) \/ WriteFails(u)
    BY <2>1 DEF ReadQueue, Collect, Record, GiveUp, WriteFails, queue
  <2>2. CASE \E s \in Slots : Post(u, s) \/ Accepted(u, s) \/ Refused(u, s)
    BY <2>2 DEF Post, Accepted, Refused, queue
  <2>3. CASE Clear(u) \/ ClearDuplicate(u)
    BY <2>3 DEF Clear, ClearDuplicate, owed
  <2> QED BY <1>1, <2>1, <2>2, <2>3 DEF Upload
<1>2. ASSUME NEW s \in Slots, Relay(s) \/ CreateUnseen(s) \/ Refuse(s)
      PROVE  reasons' = reasons /\ marked' = marked
  BY <1>2 DEF Relay, AcceptAgain, CreateIssue, CreateUnseen, Refuse, Answer, Unheard, queue
<1>3. CASE \E r \in Reasons, t \in Threads : Raise(r, t)
  BY <1>3 DEF Raise
<1>4. CASE Launcher \/ Owner
  BY <1>4 DEF Launcher, Owner, MarkExit, ExitSent, StreamEnds, StreamSent, Restart, UserLeft,
              RetrySent, MarkAndSend, Goto, AppStarts, Open, AppEnds, queue
<1>5. CASE LogLine \/ CheckPending \/ ClearLogs \/ PowerLoss
  BY <1>5 DEF LogLine, CheckPending, ClearLogs, PowerLoss, queue
<1>6. CASE UNCHANGED vars
  BY <1>6 DEF vars, queue
<1> QED BY <1>1, <1>2, <1>3, <1>4, <1>5, <1>6 DEF Next

LEMMA TypedQueueStep ==
  ASSUME TypedQueue, DiagAssumption, [Next]_vars
  PROVE  TypedQueue'
<1>1. CASE reasons' = reasons /\ (marked' = marked \/ marked' = TRUE)
  BY <1>1 DEF TypedQueue, IsInjective
<1>2. ASSUME NEW r \in Reasons, reasons' = Remembered(r), marked' = TRUE PROVE TypedQueue'
  BY <1>2, RememberedFacts DEF TypedQueue, IsInjective
<1>3. ASSUME NEW took, Cleared(took) PROVE TypedQueue'
  <2>1. /\ reasons' = Without(reasons, took) /\ marked' = (reasons' # <<>>)
        /\ reasons \in Seq(Reasons) /\ IsInjective(reasons) /\ Len(reasons) <= MaxReasons
    BY <1>3 DEF Cleared, TypedQueue
  <2>2. /\ reasons' \in Seq(Reasons) /\ Len(reasons') <= Len(reasons) /\ IsInjective(reasons')
    BY <2>1, WithoutFacts
  <2>3. marked' \in BOOLEAN /\ (reasons' # <<>> => marked')
    BY <2>1
  <2>4. Len(reasons') <= MaxReasons
    BY <2>1, <2>2, DiagAssumption
  <2> QED BY <2>2, <2>3, <2>4 DEF TypedQueue, IsInjective
<1> QED BY <1>1, <1>2, <1>3, QueueChanges

\* Where the launcher is, the settings screen, and what is owed.
LEMMA TypedShellStep ==
  ASSUME TypedShell, DiagAssumption, [Next]_vars
  PROVE  TypedShell'
<1>1. Reasons \subseteq Marks /\ Crash \in Marks /\ MaxStops \in Nat /\ stops \in 0 .. MaxStops
  BY DiagAssumption DEF Marks, TypedShell
<1>2. Fails => stops' \in 0 .. MaxStops
  BY <1>1 DEF Fails
<1>3. ASSUME NEW u \in Uploaders, Upload(u) \/ GiveUp(u) \/ WriteFails(u) PROVE TypedShell'
  <2>1. shell' = shell /\ owed' = owed /\ (stops' = stops \/ Fails)
    BY <1>3 DEF Upload, ReadQueue, Collect, Record, Clear, ClearDuplicate, Post, Accepted,
                Refused, GiveUp, WriteFails
  <2> QED BY <1>1, <1>2, <2>1 DEF TypedShell, shell, owed
<1>4. ASSUME NEW s \in Slots, Relay(s) \/ CreateUnseen(s) \/ Refuse(s) PROVE TypedShell'
  <2>1. /\ shell' = shell /\ (stops' = stops \/ Fails)
        /\ \/ owed' = owed
           \/ \E told : due' = due \ told /\ lost' = lost \ told
    BY <1>4 DEF Relay, AcceptAgain, CreateIssue, CreateUnseen, Refuse, Answer, Unheard, NewIssue
  <2> QED BY <1>1, <1>2, <2>1 DEF TypedShell, shell, owed
<1>5. ASSUME NEW r \in Reasons, NEW t \in Threads, Raise(r, t) PROVE TypedShell'
  BY <1>1, <1>5 DEF Raise, TypedShell, shell
<1>6. ASSUME NEW c, NEW next \in {"exit_send", "stream_send"}, MarkAndSend(c, next)
      PROVE  TypedShell'
  BY <1>1, <1>6 DEF MarkAndSend, TypedShell
<1>7. CASE Launcher \/ Owner
  <2>1. CASE MarkExit \/ StreamEnds
    BY <1>6, <2>1 DEF MarkExit, StreamEnds
  <2>2. CASE ExitSent \/ RetrySent \/ UserLeft
    BY <1>1, <2>2 DEF ExitSent, RetrySent, UserLeft, Goto, TypedShell, owed
  <2>3. CASE StreamSent \/ Restart \/ Open
    BY <1>1, <2>3 DEF StreamSent, Restart, Open, AppStarts, TypedShell, owed
  <2>4. ASSUME NEW code \in {0, 1}, NEW left \in {"none", "stream", "restart"}, AppEnds(code, left)
        PROVE  TypedShell'
    <3>1. stops' \in 0 .. MaxStops
      BY <1>1, <1>2, <2>4 DEF AppEnds
    <3>2. /\ sh' \in {"exit_mark", "game"} /\ game' = left /\ clearing' = FALSE
          /\ due' = due /\ lost' = lost
      BY <2>4 DEF AppEnds, owed
    <3> QED BY <3>1, <3>2 DEF TypedShell
  <2> QED BY <1>7, <2>1, <2>2, <2>3, <2>4 DEF Launcher, Owner
<1>8. CASE LogLine \/ CheckPending \/ ClearLogs
  BY <1>1, <1>8 DEF LogLine, CheckPending, ClearLogs, TypedShell, shell, owed
<1>9. CASE PowerLoss
  BY <1>1, <1>2, <1>9 DEF PowerLoss, TypedShell, owed
<1>10. CASE UNCHANGED vars
  BY <1>1, <1>10 DEF vars, TypedShell, shell, owed
<1> QED BY <1>3, <1>4, <1>5, <1>7, <1>8, <1>9, <1>10 DEF Next

LEMMA QueueInit ==
  ASSUME Init, DiagAssumption
  PROVE  QueueInv
<1>1. up = [u \in Uploaders |-> Idle] /\ relay = [s \in Slots |-> Free] /\ seen = {}
      /\ history = {} /\ due = {} /\ lost = {}
  BY DEF Init, Nothing
<1>2. TypedDevices
  BY <1>1, InertTyped DEF TypedDevices
<1>3. TypedQueue
  <2>1. reasons = <<>> /\ marked = FALSE
    BY DEF Init
  <2>2. <<>> \in Seq(Reasons) /\ Len(<<>>) = 0 /\ IsInjective(<<>>)
    BY DEF IsInjective
  <2>3. 0 <= MaxReasons
    BY DiagAssumption
  <2> HIDE DEF DiagAssumption
  <2> QED BY <2>1, <2>2, <2>3 DEF TypedQueue
<1>4. TypedShell
  <2>1. MaxStops \in Nat
    BY DiagAssumption
  <2>2. 0 \in 0 .. MaxStops
    BY <2>1
  <2>3. sh = "off" /\ game = "none" /\ clearing = FALSE /\ stops = 0
    BY DEF Init
  <2> QED BY <1>1, <2>2, <2>3 DEF TypedShell
<1>5. ToldInv
  <2>1. Free.by \notin Uploaders
    BY InertTyped, DiagAssumption DEF Uploaders
  <2> QED BY <1>1, <2>1, InertTyped DEF ToldInv, UploaderTold, RequestTold
<1> QED BY <1>2, <1>3, <1>4, <1>5 DEF QueueInv

LEMMA QueueStep == MarkInv /\ QueueInv /\ [Next]_vars => QueueInv'
<1> SUFFICES ASSUME MarkInv, QueueInv, [Next]_vars PROVE QueueInv'
  OBVIOUS
<1>1. TypedQueue' /\ TypedShell'
  BY DiagAssumption, TypedQueueStep, TypedShellStep DEF QueueInv
<1>2. TypedDevices' /\ ToldInv'
  BY DiagAssumption, ToldStep
<1> QED BY <1>1, <1>2 DEF QueueInv

\* The queue file lists different reasons, never more than MAX_PENDING_REASONS,
\* and exists as long as there is one; everything else has its type.
THEOREM QueueTypes == Spec => []TypeOK
<1>1. Init => MarkInv /\ QueueInv
  BY DiagAssumption, MarkInit, QueueInit
<1>2. MarkInv /\ QueueInv /\ [Next]_vars => (MarkInv /\ QueueInv)'
  BY MarkStep, QueueStep
<1>3. QueueInv => TypeOK
  BY DEF QueueInv, TypedDevices, TypedQueue, TypedShell, TypeOK, Uploading, Requests,
         UploaderPc, RequestPc, Waiters
<1> QED BY <1>1, <1>2, <1>3, PTL DEF Spec

\* _clear_uploaded_reasons takes from the queue only what there is an issue of,
\* whoever queued, sent, gave up or was killed since the queue was read, unless it
\* was raised once more after the report was made; and what is displaced unreported
\* is the oldest of a full queue.
THEOREM EntriesAreReported == Spec => EntriesLeaveReported
<1>1. Init => MarkInv /\ QueueInv
  BY DiagAssumption, MarkInit, QueueInit
<1>2. MarkInv /\ QueueInv /\ [Next]_vars => (MarkInv /\ QueueInv)'
  BY MarkStep, QueueStep
<1>3. QueueInv /\ [Next]_vars =>
        [\A r \in ToSet(reasons) \ ToSet(reasons') :
            r \notin due' \/ Displaced(r) \/ RaisedSince(r)]_vars
  <2> SUFFICES ASSUME QueueInv, [Next]_vars, NEW r \in ToSet(reasons) \ ToSet(reasons')
               PROVE  r \notin due' \/ Displaced(r) \/ RaisedSince(r)
    OBVIOUS
  <2>1. TypedQueue /\ reasons \in Seq(Reasons) /\ IsInjective(reasons)
    BY DEF QueueInv, TypedQueue
  <2>2. CASE reasons' = reasons
    BY <2>2
  <2>3. ASSUME NEW r2 \in Reasons, reasons' = Remembered(r2)
        PROVE  Displaced(r)
    BY <2>1, <2>3, RememberedFacts, DiagAssumption DEF Displaced
  <2>4. ASSUME NEW u \in Uploaders, up[u].pc \in {"clear", "known"}, Cleared(up[u].took), due' = due
        PROVE  r \notin due' \/ RaisedSince(r)
    <3>1. ToSet(reasons') = ToSet(reasons) \ up[u].took
      BY <2>1, <2>4, WithoutFacts DEF Cleared
    <3>2. up[u].took \cap up[u].report.tells \cap due = {}
      BY <2>4 DEF QueueInv, ToldInv, UploaderTold
    <3>3. r \in up[u].took
      BY <3>1
    <3> QED BY <2>4, <3>2, <3>3 DEF RaisedSince
  <2> QED BY <2>1, <2>2, <2>3, <2>4, QueueChanges, DiagAssumption
<1> QED BY <1>1, <1>2, <1>3, PTL DEF Spec, EntriesLeaveReported
=============================================================================
