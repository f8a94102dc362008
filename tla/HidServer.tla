------------------------------ MODULE HidServer ------------------------------
(***************************************************************************)
(* The Bluetooth gamepad server of bluetooth-native/server_linux.go: one   *)
(* goroutine that polls the pad, two L2CAP listeners and the two channels  *)
(* of one phone (0 is control, 1 is interrupt), and sends the pad state as *)
(* input reports.                                                          *)
(*                                                                         *)
(* One turn of hidServer.loop is a fixed sequence of stages; what a system *)
(* call or a D-Bus call returns, and what the phone does, is chosen when   *)
(* the stage runs.  Every timer of the code is one flag which time may set *)
(* between any two stages:                                                 *)
(*   link.old[i]  how many packets at the head of queue i are older than   *)
(*                250 ms (stalePacket)                                     *)
(*   resendDue    4 s since lastReport                                     *)
(*   late         5 s since accepted                                       *)
(*   stall        stallStart: not set, set, or set 15 s ago (stallBudget)  *)
(*   windowOver   the pairing window is over (bluez.pairUntil)             *)
(***************************************************************************)
EXTENDS Integers, Sequences

CONSTANTS
    Peers,          \* Bluetooth addresses that may connect
    Paired,         \* those BlueZ reports as paired
    NoPeer,         \* the empty address, a closed channel
    Reports,        \* input reports: what the pad state is encoded to
    Neutral,        \* the report of the zero pad state
    NoReport,       \* nothing received on this connection yet
    QueueCap,       \* packets a queue holds (64 in the code)
    ControlKinds    \* the HIDP control transactions the phone uses

ASSUME HidAssumption ==
    /\ Paired \subseteq Peers
    /\ NoPeer \notin Peers
    /\ Neutral \in Reports
    /\ NoReport \notin Reports
    /\ QueueCap \in Nat /\ QueueCap >= 2

Channels == {0, 1}
Control == 0
Interrupt == 1

VARIABLES
    stage,      \* where in its turn the loop is
    ch,         \* the channel that stage is at
    closing,    \* loop has returned, close is running
    link,       \* channels, queues, peer, suspended, and what the status file says
    current,    \* hidServer.current
    resendDue, late, stall, windowOver,   \* the timers
    stalled,    \* flush shed a packet in this turn
    pairClosed, \* hidServer.pairClosed
    reading,    \* the phone takes packets off its channels
    shown,      \* the last report the phone received on this connection
    lost,       \* the newest report of this connection was shed
    linked      \* a complete connection existed in this session

timers == <<resendDue, late, stall, windowOver>>
phone == <<reading, shown, lost, linked>>
vars == <<stage, ch, closing, link, current, timers, stalled, pairClosed, phone>>

NoLink == [chan |-> [i \in Channels |-> NoPeer], peer |-> NoPeer,
           q |-> [i \in Channels |-> <<>>], old |-> [i \in Channels |-> 0],
           suspended |-> FALSE, status |-> "waiting"]

IsUp(l) == \A i \in Channels : l.chan[i] # NoPeer
IsHalf(l) == l.chan[Control] = NoPeer <=> l.chan[Interrupt] # NoPeer
LinkUp == IsUp(link)

-----------------------------------------------------------------------------
(* What the methods of hidServer do to the link.                           *)

\* hidServer.disconnect
Disconnect(l) ==
    [NoLink EXCEPT !.status = IF pairClosed THEN "waiting_closed" ELSE "waiting"]

\* mutant: push without its limit
QueueUnlimited(l, i, data) ==
    IF l.chan[i] = NoPeer THEN l
    ELSE [l EXCEPT !.q = [l.q EXCEPT ![i] = Append(l.q[i], data)]]

\* hidServer.queue and packetQueue.push: a full queue drops the link
Queue(l, i, data) ==
    IF l.chan[i] = NoPeer THEN l
    ELSE IF Len(l.q[i]) >= QueueCap THEN Disconnect(l)
    ELSE [l EXCEPT !.q = [l.q EXCEPT ![i] = Append(l.q[i], data)]]

\* mutant: the status is set before the pair is complete
AcceptedEarly(l, i, p) ==
    [Queue(Queue([l EXCEPT !.peer = p, !.chan = [l.chan EXCEPT ![i] = p], !.suspended = FALSE],
                 Interrupt, Neutral), Interrupt, current) EXCEPT !.status = "connected"]

\* hidServer.accept of a connection from p that BlueZ allows; a complete
\* link gets the neutral report and then the real one
Accepted(l, i, p) ==
    LET a == [l EXCEPT !.peer = p, !.chan = [l.chan EXCEPT ![i] = p]]
        released == Queue([a EXCEPT !.suspended = FALSE], Interrupt, Neutral)
    IN  IF IsUp(a)
        THEN [Queue(released, Interrupt, current) EXCEPT !.status = "connected"]
        ELSE a

\* controlResponse: what the server owes the phone, and what it does
Answered(kind) == kind = "request"

\* mutant: suspending keeps the queue
HandledKeepingQueue(l, kind) ==
    CASE Answered(kind) -> Queue(l, Control, current)
      [] kind = "unplug" -> Disconnect(l)
      [] kind = "suspend" -> [l EXCEPT !.suspended = TRUE]
      [] kind \in {"exit_suspend", "set_protocol", "reset"} ->
            Queue([l EXCEPT !.suspended = FALSE], Interrupt, current)
      [] OTHER -> l

\* mutant: resuming queues nothing
HandledInSilence(l, kind) ==
    CASE Answered(kind) -> Queue(l, Control, current)
      [] kind = "unplug" -> Disconnect(l)
      [] kind = "suspend" -> [l EXCEPT !.suspended = TRUE,
                                       !.q = [l.q EXCEPT ![Interrupt] = <<>>],
                                       !.old = [l.old EXCEPT ![Interrupt] = 0]]
      [] OTHER -> [l EXCEPT !.suspended = FALSE]

\* the answer and the action of hidServer.receive for one control packet
Handled(l, kind) ==
    CASE Answered(kind) -> Queue(l, Control, current)
      [] kind = "unplug" -> Disconnect(l)
      [] kind = "suspend" -> [l EXCEPT !.suspended = TRUE,
                                       !.q = [l.q EXCEPT ![Interrupt] = <<>>],
                                       !.old = [l.old EXCEPT ![Interrupt] = 0]]
      [] kind \in {"exit_suspend", "set_protocol", "reset"} ->
            Queue([l EXCEPT !.suspended = FALSE], Interrupt, current)
      [] OTHER -> l

\* packetQueue.flush takes the packet at the head of queue i
Popped(l, i) ==
    [l EXCEPT !.q = [l.q EXCEPT ![i] = Tail(l.q[i])],
              !.old = [l.old EXCEPT ![i] = IF l.old[i] > 0 THEN l.old[i] - 1 ELSE 0]]

\* mutant: the last packet is whatever the pad shows
ReleasingCurrent(l) ==
    Queue([l EXCEPT !.q = [l.q EXCEPT ![Interrupt] = <<>>],
                    !.old = [l.old EXCEPT ![Interrupt] = 0]], Interrupt, current)

\* hidServer.close: the last packet releases every button
Releasing(l) ==
    Queue([l EXCEPT !.q = [l.q EXCEPT ![Interrupt] = <<>>],
                    !.old = [l.old EXCEPT ![Interrupt] = 0]], Interrupt, Neutral)

\* The phone forgets what it was shown when its interrupt channel closes.
PhoneFollows(l) ==
    /\ UNCHANGED reading
    /\ linked' = (linked \/ IsUp(l))
    /\ IF l.chan[Interrupt] = NoPeer
       THEN shown' = NoReport /\ lost' = FALSE
       ELSE UNCHANGED <<shown, lost>>

LinkBecomes(l) == link' = l /\ PhoneFollows(l)

-----------------------------------------------------------------------------
(* Stages.                                                                 *)

Goto(s) == stage' = s /\ ch' = 0
GotoNext(next) == IF ch = 0 THEN stage' = stage /\ ch' = 1 ELSE Goto(next)

\* What a closed server leaves: no channel, and the status as it is.
Closed(l) == [NoLink EXCEPT !.status = l.status]

\* loop returns, for whatever reason, and runSession's cleanup writes "restoring"
\* before it calls close.
StopWith(l) ==
    LET r == [l EXCEPT !.status = "restoring"]
    IN  /\ closing' = TRUE
        /\ stalled' = FALSE
        /\ IF l.chan[Interrupt] # NoPeer
           THEN LinkBecomes(Releasing(r)) /\ Goto("flush")
           ELSE LinkBecomes(Closed(r)) /\ Goto("ended")

Init ==
    /\ stage = "top" /\ ch = 0 /\ closing = FALSE
    /\ link = NoLink
    /\ current \in Reports
    /\ resendDue = TRUE /\ late = FALSE /\ stall = "none" /\ windowOver = FALSE
    /\ stalled = FALSE /\ pairClosed = FALSE
    /\ reading = TRUE /\ shown = NoReport /\ lost = FALSE /\ linked = FALSE

\* The select and the poll: nothing ends the session.
Poll ==
    /\ stage = "top"
    /\ Goto("input")
    /\ UNCHANGED <<closing, link, current, timers, stalled, pairClosed, phone>>

\* The select takes a RequestDisconnection of BlueZ.
BlueZDisconnects ==
    /\ stage = "top"
    /\ LinkBecomes(Disconnect(link))
    /\ Goto("input")
    /\ UNCHANGED <<closing, current, timers, stalled, pairClosed>>

\* A signal, the profile released, BlueZ or D-Bus gone, poll failed, pad lost.
SessionStops ==
    /\ stage = "top"
    /\ StopWith(link)
    /\ UNCHANGED <<current, timers, pairClosed>>

\* emit for one changed report; inputDevice.read may call it many times.
Emit(r) ==
    /\ stage = "input"
    /\ r # current
    /\ current' = r
    /\ resendDue' = FALSE
    /\ LinkBecomes(IF LinkUp /\ ~link.suspended THEN Queue(link, Interrupt, r)
                                                ELSE link)
    /\ UNCHANGED <<stage, ch, closing, late, stall, windowOver, stalled, pairClosed>>

InputRead ==
    /\ stage = "input"
    /\ Goto("accept")
    /\ UNCHANGED <<closing, link, current, timers, stalled, pairClosed, phone>>

\* mutant: a second phone may take the other channel
MayAcceptAny(i, p) == link.chan[i] = NoPeer /\ p \in Paired

MayAccept(i, p) ==
    /\ link.chan[i] = NoPeer
    /\ link.peer \in {NoPeer, p}
    /\ p \in Paired

\* allowedAddress and trustDevice are D-Bus calls, which take time.
Accept(p) ==
    /\ stage = "accept"
    /\ MayAccept(ch, p)
    /\ late' = (late /\ link.peer # NoPeer)
    /\ LinkBecomes(Accepted(link, ch, p))
    /\ GotoNext("receive")
    /\ UNCHANGED <<closing, current, resendDue, stall, windowOver, stalled, pairClosed>>

\* No connection waits on this listener, or it is turned away.
AcceptNone ==
    /\ stage = "accept"
    /\ GotoNext("receive")
    /\ UNCHANGED <<closing, link, current, timers, stalled, pairClosed, phone>>

\* A control packet; on the interrupt channel the code drops what it reads.
Receive(kind) ==
    /\ stage = "receive" /\ ch = Control
    /\ link.chan[Control] # NoPeer
    /\ LinkBecomes(Handled(link, kind))
    /\ GotoNext("timers")
    /\ UNCHANGED <<closing, current, timers, stalled, pairClosed>>

ReceiveNone ==
    /\ stage = "receive"
    /\ GotoNext("timers")
    /\ UNCHANGED <<closing, link, current, timers, stalled, pairClosed, phone>>

\* The phone closed the channel, a read failed or was cut short (receive goes
\* on with the other channel, which is closed now), or poll reported an error
\* (the loop over the channels breaks): the turn goes on either way.
ReceiveError ==
    /\ stage = "receive"
    /\ link.chan[ch] # NoPeer
    /\ LinkBecomes(Disconnect(link))
    /\ Goto("timers")
    /\ UNCHANGED <<closing, current, timers, stalled, pairClosed>>

\* The exit gesture ends the session before the timers are looked at.
Gesture ==
    /\ stage = "timers"
    /\ StopWith(link)
    /\ UNCHANGED <<current, timers, pairClosed>>

\* mutant: an incomplete pair is kept
PairTimeoutNever == link

\* An incomplete pair times out; then the pairing window may end, which fails
\* when BlueZ does not take the new properties, or when nobody is there.
PairTimeout == IF IsHalf(link) /\ late THEN Disconnect(link) ELSE link
WindowEnds == windowOver /\ ~pairClosed
MaySurviveWindow(l) == l.peer # NoPeer

CheckTimers ==
    /\ stage = "timers"
    /\ WindowEnds => MaySurviveWindow(PairTimeout)
    /\ pairClosed' = (pairClosed \/ WindowEnds)
    /\ LinkBecomes(PairTimeout)
    /\ stalled' = FALSE
    /\ Goto("flush")
    /\ UNCHANGED <<closing, current, timers>>

WindowFails ==
    /\ stage = "timers"
    /\ WindowEnds
    /\ pairClosed' = TRUE
    /\ StopWith(PairTimeout)
    /\ UNCHANGED <<current, timers>>

-----------------------------------------------------------------------------
(* hidServer.flush, of the loop and of close: one packet a step.           *)

Flushing(i) == stage = "flush" /\ ch = i /\ link.chan[i] # NoPeer

Shed(i) ==
    /\ Flushing(i)
    /\ link.old[i] > 0
    /\ link' = Popped(link, i)
    /\ lost' = (lost \/ i = Interrupt)
    /\ stalled' = TRUE
    /\ UNCHANGED <<stage, ch, closing, current, timers, pairClosed, reading, shown, linked>>

Send(i) ==
    /\ Flushing(i)
    /\ link.old[i] = 0 /\ link.q[i] # <<>>
    /\ reading
    /\ link' = Popped(link, i)
    /\ IF i = Interrupt THEN shown' = Head(link.q[i]) /\ lost' = FALSE
                        ELSE UNCHANGED <<shown, lost>>
    /\ UNCHANGED <<stage, ch, closing, current, timers, stalled, pairClosed, reading, linked>>

\* A send fails: the link is dropped, whoever flushes, and flush returns at once.
SendError(i) ==
    /\ Flushing(i)
    /\ link.old[i] = 0 /\ link.q[i] # <<>>
    /\ LinkBecomes(Disconnect(link))
    /\ Goto(IF closing THEN "ended" ELSE "resend")
    /\ UNCHANGED <<closing, current, timers, stalled, pairClosed>>

\* The channel is closed, its queue is empty, or the send would block.
Flushed(i) ==
    \/ link.chan[i] = NoPeer
    \/ link.q[i] = <<>>
    \/ link.old[i] = 0 /\ ~reading

FlushControlDone ==
    /\ stage = "flush" /\ ch = Control
    /\ Flushed(Control)
    /\ ch' = Interrupt
    /\ UNCHANGED <<stage, closing, link, current, timers, stalled, pairClosed, phone>>

\* trackStall: one turn that sheds nothing forgets the stall.
StallAfter ==
    IF ~stalled THEN "none" ELSE IF stall = "none" THEN "running" ELSE stall
StallOver == stalled /\ stall = "over"

FlushDone ==
    /\ stage = "flush" /\ ch = Interrupt
    /\ Flushed(Interrupt)
    /\ stall' = StallAfter
    /\ LinkBecomes(CASE StallOver -> Disconnect(link)
                      [] closing /\ ~StallOver -> Closed(link)
                      [] OTHER -> link)
    /\ Goto(IF closing THEN "ended" ELSE "resend")
    /\ UNCHANGED <<closing, current, resendDue, late, windowOver, stalled, pairClosed>>

\* mutant: no resend timer
ShouldResendNever == FALSE

ShouldResend == LinkUp /\ ~link.suspended /\ resendDue

Resend ==
    /\ stage = "resend"
    /\ LinkBecomes(IF ShouldResend THEN Queue(link, Interrupt, current) ELSE link)
    /\ resendDue' = (resendDue /\ ~ShouldResend)
    /\ Goto("top")
    /\ UNCHANGED <<closing, current, late, stall, windowOver, stalled, pairClosed>>

-----------------------------------------------------------------------------
(* Time and the phone.  packetQueue.flush reads the clock once, so packets *)
(* do not age while it runs.                                               *)

GrowStale(i) ==
    /\ stage \notin {"flush", "ended"}
    /\ link.old[i] < Len(link.q[i])
    /\ link' = [link EXCEPT !.old = [link.old EXCEPT ![i] = link.old[i] + 1]]
    /\ UNCHANGED <<stage, ch, closing, current, timers, stalled, pairClosed, phone>>

FourSecondsPass ==
    /\ stage # "ended" /\ ~resendDue
    /\ resendDue' = TRUE
    /\ UNCHANGED <<stage, ch, closing, link, current, late, stall, windowOver, stalled,
                   pairClosed, phone>>

FiveSecondsPass ==
    /\ stage # "ended" /\ ~late /\ IsHalf(link)
    /\ late' = TRUE
    /\ UNCHANGED <<stage, ch, closing, link, current, resendDue, stall, windowOver, stalled,
                   pairClosed, phone>>

StallBudgetPasses ==
    /\ stage # "ended" /\ stall = "running"
    /\ stall' = "over"
    /\ UNCHANGED <<stage, ch, closing, link, current, resendDue, late, windowOver, stalled,
                   pairClosed, phone>>

PairWindowPasses ==
    /\ stage # "ended" /\ ~windowOver
    /\ windowOver' = TRUE
    /\ UNCHANGED <<stage, ch, closing, link, current, resendDue, late, stall, stalled,
                   pairClosed, phone>>

PhoneStallsOrReads ==
    /\ stage # "ended" /\ link.chan[Interrupt] # NoPeer
    /\ reading' = ~reading
    /\ UNCHANGED <<stage, ch, closing, link, current, timers, stalled, pairClosed, shown,
                   lost, linked>>

\* bluetooth-session.sh gives up: it writes its reason, one of three, to the
\* status file, and then sends the signal that SessionStops takes.
ShellStops ==
    /\ stage # "ended"
    /\ link' = [link EXCEPT !.status = "stopping"]
    /\ UNCHANGED <<stage, ch, closing, current, timers, stalled, pairClosed, phone>>

Ended == stage = "ended" /\ UNCHANGED vars

-----------------------------------------------------------------------------
Turn ==
    \/ Poll \/ BlueZDisconnects \/ SessionStops
    \/ \E r \in Reports : Emit(r)
    \/ InputRead
    \/ \E p \in Peers : Accept(p)
    \/ AcceptNone
    \/ \E kind \in ControlKinds : Receive(kind)
    \/ ReceiveNone \/ ReceiveError
    \/ Gesture \/ CheckTimers \/ WindowFails
    \/ \E i \in Channels : Shed(i) \/ Send(i) \/ SendError(i)
    \/ FlushControlDone \/ FlushDone
    \/ Resend

Time ==
    \/ \E i \in Channels : GrowStale(i)
    \/ FourSecondsPass \/ FiveSecondsPass \/ StallBudgetPasses \/ PairWindowPasses

Next == Turn \/ Time \/ PhoneStallsOrReads \/ ShellStops \/ Ended

Spec == Init /\ [][Next]_vars

\* The loop never waits longer than poll's 8 ms, and time passes: a packet that
\* stays queued grows old and every timer runs out.  A stage that inputDevice.read
\* or an accept could repeat is left because their batches are bounded.
FairSpec ==
    /\ Spec
    /\ WF_vars(Poll) /\ WF_vars(InputRead) /\ WF_vars(AcceptNone)
    /\ WF_vars(ReceiveNone) /\ WF_vars(CheckTimers) /\ WF_vars(Turn)
    /\ \A i \in Channels : WF_vars(GrowStale(i))
    /\ WF_vars(FourSecondsPass) /\ WF_vars(FiveSecondsPass) /\ WF_vars(StallBudgetPasses)
-----------------------------------------------------------------------------
(* Properties.                                                             *)

Stages == {"top", "input", "accept", "receive", "timers", "flush", "resend", "ended"}
Links == [chan : [Channels -> Paired \cup {NoPeer}], peer : Paired \cup {NoPeer},
          q : [Channels -> Seq(Reports)], old : [Channels -> Nat],
          suspended : BOOLEAN,
          status : {"waiting", "waiting_closed", "connected", "stopping", "restoring"}]

\* Types; the queues never hold more than packetQueue.push lets in, and no more
\* packets are old than there are.
TypeOK ==
    /\ stage \in Stages /\ ch \in Channels /\ closing \in BOOLEAN
    /\ link \in Links
    /\ \A i \in Channels : link.old[i] <= Len(link.q[i]) /\ Len(link.q[i]) <= QueueCap
    /\ current \in Reports
    /\ resendDue \in BOOLEAN /\ late \in BOOLEAN /\ windowOver \in BOOLEAN
    /\ stall \in {"none", "running", "over"}
    /\ stalled \in BOOLEAN /\ pairClosed \in BOOLEAN /\ reading \in BOOLEAN
    /\ shown \in Reports \cup {NoReport} /\ lost \in BOOLEAN /\ linked \in BOOLEAN

\* Both channels belong to the one paired phone the server calls its peer, which
\* it forgets exactly when it holds no channel, and a closed channel leaves no
\* packet behind that a later connection would be sent (accept, disconnect).
OnePhone ==
    /\ link.peer = NoPeer <=> \A i \in Channels : link.chan[i] = NoPeer
    /\ \A i \in Channels : link.chan[i] \in {NoPeer, link.peer}
    /\ link.peer \in Paired \cup {NoPeer}
    /\ \A i \in Channels : link.chan[i] = NoPeer => link.q[i] = <<>>

\* A phone that suspended the link is sent no report until it resumes it or
\* opens a new link: nothing waits for it, whatever the pad does (emit, receive).
QuietWhileSuspended == link.suspended /\ ~closing => link.q[Interrupt] = <<>>

\* On a complete link that is not suspended, what the phone will have been shown
\* once the queue is drained is the state of the pad: the newest packet queued is
\* the current report, and with nothing queued the phone shows it, unless that
\* report was shed as stale (emit, receive, flush, the resend timer).
PhoneCatchesUp ==
    LinkUp /\ ~link.suspended /\ ~closing =>
        LET q == link.q[Interrupt]
        IN  IF q = <<>> THEN shown = current \/ lost ELSE q[Len(q)] = current

\* When close has drained the interrupt channel the phone holds no button down
\* (close, "so the phone does not keep a menu held down").
ReleasedOnExit ==
    closing /\ link.chan[Interrupt] # NoPeer =>
        LET q == link.q[Interrupt]
        IN  IF q = <<>> THEN shown = Neutral ELSE q[Len(q)] = Neutral

\* The status file says connected only while both channels are open and the
\* session serves them; and while it does, nothing else stands there but the
\* shell's reason to stop (disconnect, accept, waiting, runSession's cleanup).
StatusTellsTruth ==
    /\ link.status = "connected" => LinkUp /\ ~closing
    /\ LinkUp /\ ~closing => link.status \in {"connected", "stopping"}

\* The phone shows the state of the pad in the end, if the link stays up with a
\* phone that reads, packets no longer grow old before a turn is over and the
\* pad rests: the resend timer repairs what a stall shed (shouldResend).
Steady == LinkUp /\ ~link.suspended /\ reading /\ link.old[Interrupt] = 0
EventuallyShown ==
    <>[]Steady /\ <>[][current' = current]_current => <>[](shown = current)

\* One channel without the other never blocks the server for good: the pair is
\* completed or dropped (the 5 s rule of loop).
HalfLinkEnds == IsHalf(link) ~> ~IsHalf(link)

\* stallBudget, server_linux.go:75: "how long the peer may leave reports unread
\* before the link is declared dead".
DeadPeerIsDropped == (LinkUp /\ ~reading) ~> (~LinkUp \/ reading \/ link.suspended)

\* trackStall, server_linux.go:317: "give up only if the peer reads nothing for
\* the whole budget": a link is not declared dead in a turn in which the phone
\* took a report.
StallMeansUnread ==
    [][stage = "flush" /\ ch = Interrupt /\ StallOver /\ ~closing /\ LinkUp
       => ~reading]_vars

\* accept, server_linux.go:240: "Release anything the host is still holding
\* down, then hand over the real state".
NeutralFirst == [][shown = NoReport /\ shown' # NoReport => shown' = Neutral]_vars

\* loop, server_linux.go:430: the session goes on past the pairing window only
\* if that did not end "without a complete HID connection".
WindowNeedsLink == pairClosed /\ ~closing /\ stage # "ended" => linked
=============================================================================
