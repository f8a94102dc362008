-------------------------- MODULE HidServerProofs --------------------------
(***************************************************************************)
(* Proofs about HidServer, for any phones, reports, control transactions   *)
(* and queue limit of at least two: its types, one phone at a time, the    *)
(* status file, silence while suspended, that the phone catches up with    *)
(* the pad, and that close releases every button.                          *)
(***************************************************************************)
EXTENDS HidServer, SequenceTheorems, TLAPS

\* What holds of the link at every stage, also while close runs.
LinkOK(l) ==
    /\ l \in Links
    /\ \A i \in Channels : l.old[i] <= Len(l.q[i]) /\ Len(l.q[i]) <= QueueCap
    /\ l.peer = NoPeer <=> \A i \in Channels : l.chan[i] = NoPeer
    /\ \A i \in Channels : l.chan[i] \in {NoPeer, l.peer}
    /\ \A i \in Channels : l.chan[i] = NoPeer => l.q[i] = <<>>
    /\ l.status = "connected" => IsUp(l)

\* What holds of it until close runs.  An interrupt channel that waits for the
\* control channel has nothing queued: with a full queue there, accept would drop
\* the link it completes and still write "connected".
Serving(l) ==
    /\ LinkOK(l)
    /\ l.chan[Control] = NoPeer => l.q[Interrupt] = <<>>
    /\ l.suspended => l.q[Interrupt] = <<>>
    /\ IsUp(l) => l.status \in {"connected", "stopping"}

\* The newest packet queued for the phone is report r.
EndsWith(l, r) ==
    LET q == l.q[Interrupt] IN q # <<>> /\ q[Len(q)] = r

LinkInv ==
    /\ LinkOK(link) /\ current \in Reports
    /\ {closing, reading, lost, linked} \subseteq BOOLEAN
    /\ shown \in Reports \cup {NoReport}
    /\ ~closing => Serving(link) /\ PhoneCatchesUp
    /\ closing => link.old[Interrupt] = 0 /\ ReleasedOnExit /\ link.status # "connected"

FlagsOK ==
    /\ stage \in Stages /\ ch \in Channels
    /\ closing => stage \in {"flush", "ended"}
    /\ {resendDue, late, windowOver, stalled, pairClosed} \subseteq BOOLEAN
    /\ stall \in {"none", "running", "over"}

\* The safety properties one by one are not inductive: that a new link is sent
\* the pad state rests on the queues being empty, that close ends with a neutral
\* report on no packet growing old meanwhile.
IInv == LinkInv /\ FlagsOK

-----------------------------------------------------------------------------
(* The queues.                                                             *)

\* What a packet put at the end of a queue does to it.
LEMMA AppendFacts ==
  ASSUME NEW S, NEW s \in Seq(S), NEW d \in S
  PROVE  /\ Append(s, d) \in Seq(S) /\ Append(s, d) # <<>>
         /\ Len(Append(s, d)) = Len(s) + 1
         /\ Append(s, d)[Len(Append(s, d))] = d
  OBVIOUS

\* A function on the channels changed at one of them.
LEMMA SetsOne ==
  ASSUME NEW S, NEW f \in [Channels -> S], NEW i \in Channels, NEW v \in S
  PROVE  [f EXCEPT ![i] = v] \in [Channels -> S]
  OBVIOUS

\* What taking the first packet does to a queue: the newest stays the newest.
LEMMA TailFacts ==
  ASSUME NEW S, NEW s \in Seq(S), s # <<>>
  PROVE  /\ Tail(s) \in Seq(S) /\ Head(s) \in S /\ Len(Tail(s)) = Len(s) - 1
         /\ Tail(s) # <<>> => Tail(s)[Len(Tail(s))] = s[Len(s)]
         /\ Tail(s) = <<>> => s[Len(s)] = Head(s)
<1>1. Len(s) \in Nat \ {0}
  OBVIOUS
<1>2. Tail(s) \in Seq(S) /\ Head(s) \in S /\ Len(Tail(s)) = Len(s) - 1
  OBVIOUS
<1>3. \A i \in 1..Len(Tail(s)) : Tail(s)[i] = s[i + 1]
  OBVIOUS
<1>4. ASSUME Tail(s) # <<>> PROVE Tail(s)[Len(Tail(s))] = s[Len(s)]
  <2>1. Len(Tail(s)) \in 1..Len(Tail(s))
    BY <1>1, <1>2, <1>4
  <2> QED BY <2>1, <1>1, <1>2, <1>3
<1>5. ASSUME Tail(s) = <<>> PROVE s[Len(s)] = Head(s)
  <2>1. Len(s) = 1
    BY <1>1, <1>2, <1>5
  <2> QED BY <2>1
<1> QED BY <1>2, <1>4, <1>5

-----------------------------------------------------------------------------
(* What the methods do to the link.                                        *)

\* Without a connection nothing is owed to anyone.
LEMMA NoLinkServes == Serving(NoLink)
<1>1. NoLink.q = [i \in Channels |-> <<>>] /\ NoLink.old = [i \in Channels |-> 0]
  BY DEF NoLink
<1>2. <<>> \in Seq(Reports) /\ Len(<<>>) = 0
  OBVIOUS
<1> QED BY <1>1, <1>2, HidAssumption
    DEF Serving, LinkOK, Links, NoLink, IsUp, Channels, Control, Interrupt, HidAssumption

\* hidServer.disconnect
LEMMA DisconnectServes ==
  ASSUME NEW l
  PROVE  /\ Serving(Disconnect(l)) /\ ~IsUp(Disconnect(l))
         /\ \A i \in Channels : Disconnect(l).chan[i] = NoPeer
<1> DEFINE d == Disconnect(l)
<1>1. /\ d.chan = [i \in Channels |-> NoPeer] /\ d.peer = NoPeer
      /\ d.q = [i \in Channels |-> <<>>] /\ d.old = [i \in Channels |-> 0]
      /\ d.suspended = FALSE /\ d.status \in {"waiting", "waiting_closed"}
  BY DEF Disconnect, NoLink
<1>2. d \in Links
  <2>1. <<>> \in Seq(Reports)
    OBVIOUS
  <2> QED BY <2>1 DEF Links, Disconnect, NoLink
<1>3. Len(<<>>) = 0
  OBVIOUS
<1> HIDE DEF d
<1>4. Serving(d) /\ ~IsUp(d) /\ \A i \in Channels : d.chan[i] = NoPeer
  BY <1>1, <1>2, <1>3, HidAssumption
    DEF Serving, LinkOK, IsUp, Channels, Control, Interrupt, HidAssumption
<1> QED BY <1>4 DEF d

\* Only the status of a closed server is left.
LEMMA ClosedIsOK ==
  ASSUME NEW l, LinkOK(l), l.status # "connected", NEW m, m = Closed(l)
  PROVE  /\ LinkOK(m) /\ m.status = l.status /\ m.old[Interrupt] = 0
         /\ m.chan[Interrupt] = NoPeer
<1>1. /\ m.chan = [i \in Channels |-> NoPeer] /\ m.peer = NoPeer
      /\ m.q = [i \in Channels |-> <<>>] /\ m.old = [i \in Channels |-> 0]
      /\ m.suspended = FALSE /\ m.status = l.status
  BY DEF Closed, NoLink
<1>2. m \in Links
  <2>1. <<>> \in Seq(Reports)
    OBVIOUS
  <2> QED BY <2>1 DEF LinkOK, Links, Closed, NoLink
<1>3. Len(<<>>) = 0
  OBVIOUS
<1> QED BY <1>1, <1>2, <1>3, HidAssumption
    DEF LinkOK, IsUp, Channels, Control, Interrupt, HidAssumption

\* hidServer.queue: a closed channel takes nothing, a full one drops the link.
LEMMA QueueCases ==
  ASSUME NEW l, LinkOK(l), NEW i \in Channels, NEW d \in Reports
  PROVE  LET m == Queue(l, i, d) IN
           \/ l.chan[i] = NoPeer /\ m = l
           \/ l.chan[i] # NoPeer /\ Len(l.q[i]) >= QueueCap /\ m = Disconnect(l)
           \/ /\ l.chan[i] # NoPeer /\ Len(l.q[i]) < QueueCap
              /\ m = [l EXCEPT !.q = [l.q EXCEPT ![i] = Append(l.q[i], d)]]
<1>1. Len(l.q[i]) \in Nat
  BY DEF LinkOK, Links
<1> QED BY <1>1, HidAssumption DEF Queue, HidAssumption

\* Where a packet is appended, nothing but that queue changes.
LEMMA AppendKeepsLink ==
  ASSUME NEW l, LinkOK(l), NEW i \in Channels, NEW d \in Reports, NEW m,
         l.chan[i] # NoPeer, Len(l.q[i]) < QueueCap,
         m = [l EXCEPT !.q = [l.q EXCEPT ![i] = Append(l.q[i], d)]]
  PROVE  /\ LinkOK(m)
         /\ m.chan = l.chan /\ m.suspended = l.suspended /\ m.old = l.old
         /\ m.status = l.status
         /\ m.q[i] = Append(l.q[i], d)
         /\ \A j \in Channels : j # i => m.q[j] = l.q[j]
<1>1. /\ m.chan = l.chan /\ m.peer = l.peer /\ m.old = l.old
      /\ m.suspended = l.suspended /\ m.status = l.status
      /\ m.q = [l.q EXCEPT ![i] = Append(l.q[i], d)]
  BY DEF LinkOK, Links
<1>2. l.q \in [Channels -> Seq(Reports)] /\ l.old \in [Channels -> Nat]
  BY DEF LinkOK, Links
<1>3. /\ Append(l.q[i], d) \in Seq(Reports)
      /\ Len(Append(l.q[i], d)) = Len(l.q[i]) + 1 /\ Len(l.q[i]) \in Nat
  BY <1>2
<1>4. m.q[i] = Append(l.q[i], d) /\ \A j \in Channels : j # i => m.q[j] = l.q[j]
  BY <1>1, <1>2
<1>5. m.q \in [Channels -> Seq(Reports)]
  BY <1>1, <1>2, <1>3
<1>6. m \in Links
  BY <1>5 DEF LinkOK, Links
<1>7. \A j \in Channels : m.old[j] <= Len(m.q[j]) /\ Len(m.q[j]) <= QueueCap
  <2> TAKE j \in Channels
  <2>1. CASE j # i
    BY <2>1, <1>1, <1>4 DEF LinkOK
  <2>2. CASE j = i
    <3>1. l.old[i] <= Len(l.q[i]) /\ l.old[i] \in Nat
      BY <1>2 DEF LinkOK
    <3> QED BY <2>2, <3>1, <1>1, <1>3, <1>4, HidAssumption DEF HidAssumption
  <2> QED BY <2>1, <2>2
<1>8. \A j \in Channels : m.chan[j] = NoPeer => m.q[j] = <<>>
  BY <1>1, <1>4 DEF LinkOK
<1> QED BY <1>1, <1>4, <1>6, <1>7, <1>8 DEF LinkOK, IsUp

\* A report queued for a link that is not suspended ends its queue, or the link is
\* gone.
LEMMA QueueServes ==
  ASSUME NEW l, Serving(l), ~l.suspended, NEW d \in Reports, l.chan[Control] # NoPeer,
         NEW m, m = Queue(l, Interrupt, d)
  PROVE  Serving(m) /\ (IsUp(m) => EndsWith(m, d))
<1>1. LinkOK(l) /\ Interrupt \in Channels /\ Control \in Channels
  BY DEF Serving, Channels, Interrupt, Control
<1>2. CASE m = l /\ l.chan[Interrupt] = NoPeer
  BY <1>1, <1>2 DEF IsUp
<1>3. CASE m = Disconnect(l)
  BY <1>3, DisconnectServes
<1>4. CASE /\ l.chan[Interrupt] # NoPeer /\ Len(l.q[Interrupt]) < QueueCap
           /\ m = [l EXCEPT !.q = [l.q EXCEPT ![Interrupt] = Append(l.q[Interrupt], d)]]
  <2>1. LinkOK(m) /\ m.chan = l.chan /\ m.suspended = l.suspended /\ m.status = l.status
    BY <1>1, <1>4, AppendKeepsLink
  <2>2. l.q[Interrupt] \in Seq(Reports)
    BY <1>1 DEF LinkOK, Links
  <2>3. m.q[Interrupt] = Append(l.q[Interrupt], d)
    BY <1>1, <1>4 DEF LinkOK, Links
  <2>4. EndsWith(m, d)
    BY <2>2, <2>3, AppendFacts DEF EndsWith
  <2> QED BY <2>1, <2>4 DEF Serving, IsUp
<1> QED BY <1>1, <1>2, <1>3, <1>4, QueueCases

\* The answer to a request waits on the control channel, behind no report.
LEMMA AnswerServes ==
  ASSUME NEW l, Serving(l), NEW d \in Reports, NEW m, m = Queue(l, Control, d)
  PROVE  /\ Serving(m)
         /\ IsUp(m) => /\ IsUp(l) /\ m.q[Interrupt] = l.q[Interrupt]
                       /\ m.suspended = l.suspended
<1>1. LinkOK(l) /\ Interrupt \in Channels /\ Control \in Channels /\ Interrupt # Control
  BY DEF Serving, Channels, Interrupt, Control
<1>2. CASE m = l
  BY <1>2
<1>3. CASE m = Disconnect(l)
  BY <1>3, DisconnectServes
<1>4. CASE /\ l.chan[Control] # NoPeer /\ Len(l.q[Control]) < QueueCap
           /\ m = [l EXCEPT !.q = [l.q EXCEPT ![Control] = Append(l.q[Control], d)]]
  <2>1. /\ LinkOK(m) /\ m.chan = l.chan /\ m.suspended = l.suspended
        /\ m.q[Interrupt] = l.q[Interrupt] /\ m.status = l.status
    BY <1>1, <1>4, AppendKeepsLink
  <2> QED BY <2>1 DEF Serving, IsUp
<1> QED BY <1>1, <1>2, <1>3, <1>4, QueueCases

\* hidServer.accept: the new channel belongs to the only phone there is, and a link
\* that is complete now is sent the neutral report and the pad state.
LEMMA AcceptedServes ==
  ASSUME NEW l, Serving(l), NEW i \in Channels, NEW p \in Paired, current \in Reports,
         l.chan[i] = NoPeer, l.peer \in {NoPeer, p}, NEW m, m = Accepted(l, i, p)
  PROVE  Serving(m) /\ (IsUp(m) => EndsWith(m, current))
<1> DEFINE a == [l EXCEPT !.peer = p, !.chan = [l.chan EXCEPT ![i] = p]]
<1>1. /\ LinkOK(l) /\ p # NoPeer /\ l.chan \in [Channels -> Paired \cup {NoPeer}]
      /\ l.q \in [Channels -> Seq(Reports)] /\ l.old \in [Channels -> Nat]
  BY HidAssumption DEF Serving, LinkOK, Links, HidAssumption
<1>2. /\ a \in Links /\ a.peer = p /\ a.chan[i] = p
      /\ \A j \in Channels : j # i => a.chan[j] = l.chan[j]
      /\ a.q = l.q /\ a.old = l.old /\ a.suspended = l.suspended /\ a.status = l.status
  BY <1>1 DEF LinkOK, Links
<1> HIDE DEF a
<1>3. \A j \in Channels : a.chan[j] \in {NoPeer, p}
  BY <1>1, <1>2 DEF LinkOK
<1>4. \A j \in Channels : a.chan[j] = NoPeer => a.q[j] = <<>>
  BY <1>1, <1>2 DEF LinkOK
<1>5. l.status # "connected"
  BY <1>1 DEF LinkOK, IsUp
<1>6. CASE ~IsUp(a)
  <2>1. m = a
    BY <1>6 DEF Accepted, a
  <2>2. LinkOK(a)
    BY <1>1, <1>2, <1>3, <1>4, <1>5, <1>6 DEF LinkOK
  <2>3. a.chan[Control] = NoPeer => a.q[Interrupt] = <<>>
    BY <1>1, <1>2, <1>4, <1>6 DEF Serving, IsUp, Channels, Control, Interrupt
  <2> QED BY <2>1, <2>2, <2>3, <1>2, <1>6 DEF Serving
<1>7. CASE IsUp(a)
  <2> DEFINE one == Append(<<>>, Neutral)
             two == Append(one, current)
             b == [a EXCEPT !.suspended = FALSE]
             c == Queue(b, Interrupt, Neutral)
             d == Queue(c, Interrupt, current)
  <2>1. l.q[Interrupt] = <<>> /\ a.chan[Interrupt] # NoPeer /\ a.chan[Control] # NoPeer
    BY <1>1, <1>2, <1>7 DEF Serving, LinkOK, IsUp, Channels, Control, Interrupt
  <2>2. Interrupt \in Channels /\ Control \in Channels
    BY DEF Channels, Control, Interrupt
  <2>3. /\ <<>> \in Seq(Reports) /\ Len(<<>>) = 0
        /\ one \in Seq(Reports) /\ Len(one) = 1
        /\ two \in Seq(Reports) /\ Len(two) = 2 /\ two # <<>> /\ two[Len(two)] = current
    <3>1. <<>> \in Seq(Reports) /\ Len(<<>>) = 0
      OBVIOUS
    <3>2. one \in Seq(Reports) /\ Len(one) = 1
      BY <3>1, AppendFacts, HidAssumption DEF HidAssumption
    <3> HIDE DEF one
    <3>3. two \in Seq(Reports) /\ two # <<>> /\ two[Len(two)] = current
      BY <3>2, AppendFacts
    <3>4. Len(two) = Len(one) + 1
      BY <3>2, AppendFacts
    <3> QED BY <3>1, <3>2, <3>3, <3>4
  <2> HIDE DEF one, two
  <2>4. /\ b \in Links /\ b.chan = a.chan /\ b.peer = p /\ b.q = l.q /\ b.old = l.old
        /\ b.suspended = FALSE
    BY <1>2 DEF Links
  <2> HIDE DEF b
  <2>5. c = [b EXCEPT !.q = [l.q EXCEPT ![Interrupt] = one]]
    BY <2>1, <2>3, <2>4, HidAssumption DEF Queue, one, HidAssumption
  <2> HIDE DEF c
  <2>6. /\ c \in Links /\ c.chan = a.chan /\ c.peer = p /\ c.old = l.old
        /\ c.suspended = FALSE /\ c.q = [l.q EXCEPT ![Interrupt] = one]
    BY <1>1, <2>3, <2>4, <2>5 DEF Links
  <2>7. d = [c EXCEPT !.q = [l.q EXCEPT ![Interrupt] = two]]
    <3>1. c.q[Interrupt] = one /\ [c.q EXCEPT ![Interrupt] = two] = [l.q EXCEPT ![Interrupt] = two]
      BY <1>1, <2>2, <2>6
    <3> QED BY <3>1, <2>1, <2>3, <2>6, HidAssumption DEF Queue, two, HidAssumption
  <2>8. m = [d EXCEPT !.status = "connected"]
    BY <1>7 DEF Accepted, a, b, c
  <2> HIDE DEF d
  <2>9. /\ m \in Links /\ m.chan = a.chan /\ m.peer = p /\ m.old = l.old
        /\ m.suspended = FALSE /\ m.status = "connected"
        /\ m.q = [l.q EXCEPT ![Interrupt] = two]
    <3>1. /\ d \in Links /\ d.chan = a.chan /\ d.peer = p /\ d.old = l.old
          /\ d.suspended = FALSE /\ d.q = [l.q EXCEPT ![Interrupt] = two]
      BY <1>1, <2>3, <2>6, <2>7 DEF Links
    <3> QED BY <3>1, <2>8 DEF Links
  <2>10. m.q[Interrupt] = two /\ \A j \in Channels : j # Interrupt => m.q[j] = l.q[j]
    BY <1>1, <2>2, <2>9
  <2>11. \A j \in Channels : m.old[j] <= Len(m.q[j]) /\ Len(m.q[j]) <= QueueCap
    <3> TAKE j \in Channels
    <3>1. CASE j # Interrupt
      BY <3>1, <2>9, <2>10, <1>1 DEF LinkOK
    <3>2. CASE j = Interrupt
      <4>1. l.old[Interrupt] = 0
        BY <1>1, <2>1, <2>2, <2>3 DEF LinkOK
      <4>2. m.old[j] = 0 /\ m.q[j] = two
        BY <3>2, <4>1, <2>9, <2>10
      <4> QED BY <4>2, <2>3, HidAssumption DEF HidAssumption
    <3> QED BY <3>1, <3>2
  <2>12. LinkOK(m)
    BY <2>9, <2>11, <1>1, <1>3, <1>7 DEF LinkOK, IsUp
  <2>13. EndsWith(m, current)
    BY <2>3, <2>10 DEF EndsWith
  <2> QED BY <2>1, <2>9, <2>12, <2>13 DEF Serving, IsUp
<1> QED BY <1>6, <1>7

\* packetQueue.flush takes one packet: the newest stays, unless it was the last.
LEMMA PoppedFacts ==
  ASSUME NEW l, LinkOK(l), NEW i \in Channels, l.q[i] # <<>>, NEW m, m = Popped(l, i)
  PROVE  /\ LinkOK(m) /\ (Serving(l) => Serving(m))
         /\ m.chan = l.chan /\ m.suspended = l.suspended /\ m.status = l.status
         /\ m.q[i] = Tail(l.q[i])
         /\ \A j \in Channels : j # i => m.q[j] = l.q[j] /\ m.old[j] = l.old[j]
         /\ l.old[i] = 0 => m.old[i] = 0
<1> DEFINE o == IF l.old[i] > 0 THEN l.old[i] - 1 ELSE 0
<1>1. l.q \in [Channels -> Seq(Reports)] /\ l.old \in [Channels -> Nat]
  BY DEF LinkOK, Links
<1>2. /\ m.chan = l.chan /\ m.peer = l.peer /\ m.suspended = l.suspended
      /\ m.status = l.status /\ m.q = [l.q EXCEPT ![i] = Tail(l.q[i])]
      /\ m.old = [l.old EXCEPT ![i] = o]
  BY DEF Popped, LinkOK, Links
<1>3. /\ Tail(l.q[i]) \in Seq(Reports) /\ Len(Tail(l.q[i])) = Len(l.q[i]) - 1
      /\ Len(l.q[i]) \in Nat \ {0} /\ o \in Nat
      /\ l.old[i] <= Len(l.q[i]) => o <= Len(l.q[i]) - 1
  BY <1>1
<1>4. /\ m.q[i] = Tail(l.q[i]) /\ m.old[i] = o
      /\ \A j \in Channels : j # i => m.q[j] = l.q[j] /\ m.old[j] = l.old[j]
  BY <1>1, <1>2
<1>5. m \in Links
  <2>1. m.q \in [Channels -> Seq(Reports)] /\ m.old \in [Channels -> Nat]
    BY <1>1, <1>2, <1>3
  <2> HIDE DEF o
  <2> QED BY <2>1 DEF Popped, LinkOK, Links
<1>6. \A j \in Channels : m.old[j] <= Len(m.q[j]) /\ Len(m.q[j]) <= QueueCap
  <2> HIDE DEF o
  <2> TAKE j \in Channels
  <2>1. CASE j # i
    BY <2>1, <1>4 DEF LinkOK
  <2>2. CASE j = i
    BY <2>2, <1>3, <1>4, HidAssumption DEF LinkOK, HidAssumption
  <2> QED BY <2>1, <2>2
<1>7. l.chan[i] # NoPeer
  BY DEF LinkOK
<1>8. LinkOK(m)
  BY <1>2, <1>4, <1>5, <1>6, <1>7 DEF LinkOK, IsUp
<1>9. ASSUME Serving(l) PROVE Serving(m)
  <2>1. l.q[Interrupt] = <<>> => m.q[Interrupt] = <<>>
    BY <1>4 DEF Channels, Interrupt
  <2> QED BY <1>2, <1>8, <1>9, <2>1 DEF Serving, IsUp
<1> QED BY <1>2, <1>4, <1>8, <1>9

\* m is l as far as the phone's picture of the pad goes.
Untouched(l, m) == IsUp(l) /\ ~l.suspended /\ m.q[Interrupt] = l.q[Interrupt]

\* m promises the phone report r, or what l promised it.
Shows(l, m, r) == IsUp(m) /\ ~m.suspended => EndsWith(m, r) \/ Untouched(l, m)

\* The suspended flag is cleared, or set with the report queue emptied.
LEMMA FlagServes ==
  ASSUME NEW l, Serving(l), NEW m,
         \/ m = [l EXCEPT !.suspended = FALSE]
         \/ m = [l EXCEPT !.suspended = TRUE, !.q = [l.q EXCEPT ![Interrupt] = <<>>],
                          !.old = [l.old EXCEPT ![Interrupt] = 0]]
  PROVE  Serving(m) /\ m.chan = l.chan
<1>1. LinkOK(l) /\ l \in Links /\ Interrupt \in Channels
  BY DEF Serving, LinkOK, Channels, Interrupt
<1>2. CASE m = [l EXCEPT !.suspended = FALSE]
  <2>1. /\ m \in Links /\ m.suspended = FALSE /\ m.chan = l.chan /\ m.peer = l.peer
        /\ m.q = l.q /\ m.old = l.old /\ m.status = l.status
    BY <1>1, <1>2 DEF Links
  <2> QED BY <1>1, <2>1 DEF Serving, LinkOK, IsUp
<1>3. CASE m = [l EXCEPT !.suspended = TRUE, !.q = [l.q EXCEPT ![Interrupt] = <<>>],
                         !.old = [l.old EXCEPT ![Interrupt] = 0]]
  <2>1. l.q \in [Channels -> Seq(Reports)] /\ l.old \in [Channels -> Nat]
    BY <1>1 DEF Links
  <2>2. /\ m.chan = l.chan /\ m.peer = l.peer /\ m.status = l.status /\ m.suspended = TRUE
        /\ m.q = [l.q EXCEPT ![Interrupt] = <<>>] /\ m.old = [l.old EXCEPT ![Interrupt] = 0]
    BY <1>1, <1>3 DEF Links
  <2>3. /\ m.q[Interrupt] = <<>> /\ m.old[Interrupt] = 0
        /\ \A j \in Channels : j # Interrupt => m.q[j] = l.q[j] /\ m.old[j] = l.old[j]
    BY <1>1, <2>1, <2>2
  <2>4. <<>> \in Seq(Reports) /\ Len(<<>>) = 0
    OBVIOUS
  <2>5. m \in Links
    <3>1. m.q \in [Channels -> Seq(Reports)]
      BY ONLY <1>1, <2>1, <2>2, <2>4, SetsOne
    <3>2. m.old \in [Channels -> Nat]
      BY ONLY <1>1, <2>1, <2>2, SetsOne, 0 \in Nat
    <3> QED BY <1>1, <1>3, <3>1, <3>2, <2>2 DEF Links
  <2>6. \A j \in Channels : m.old[j] <= Len(m.q[j]) /\ Len(m.q[j]) <= QueueCap
    BY <1>1, <2>3, <2>4, HidAssumption DEF LinkOK, HidAssumption
  <2> QED BY <1>1, <2>2, <2>3, <2>5, <2>6 DEF Serving, LinkOK, IsUp
<1> QED BY <1>2, <1>3

\* The answer and the action for one control packet.
LEMMA HandledServes ==
  ASSUME NEW l, Serving(l), l.chan[Control] # NoPeer, current \in Reports,
         NEW kind, NEW m, m = Handled(l, kind)
  PROVE  Serving(m) /\ Shows(l, m, current)
<1>1. CASE Answered(kind)
  <2>1. m = Queue(l, Control, current)
    BY <1>1 DEF Handled, Answered
  <2>2. /\ Serving(m)
        /\ IsUp(m) => /\ IsUp(l) /\ m.q[Interrupt] = l.q[Interrupt]
                      /\ m.suspended = l.suspended
    BY <2>1, AnswerServes
  <2> QED BY <2>2 DEF Shows, Untouched
<1>2. CASE kind = "unplug"
  <2>1. m = Disconnect(l)
    BY <1>2 DEF Handled, Answered
  <2> QED BY <2>1, DisconnectServes DEF Shows
<1>3. CASE kind = "suspend"
  <2>1. m = [l EXCEPT !.suspended = TRUE, !.q = [l.q EXCEPT ![Interrupt] = <<>>],
                      !.old = [l.old EXCEPT ![Interrupt] = 0]]
    BY <1>3 DEF Handled, Answered
  <2>2. m.suspended = TRUE
    BY <2>1 DEF Serving, LinkOK, Links
  <2> QED BY <2>1, <2>2, FlagServes DEF Shows
<1>4. CASE kind \in {"exit_suspend", "set_protocol", "reset"}
  <2> DEFINE a == [l EXCEPT !.suspended = FALSE]
  <2>1. m = Queue(a, Interrupt, current)
    BY <1>4 DEF Handled, Answered
  <2>2. Serving(a) /\ a.chan = l.chan
    BY FlagServes
  <2>3. ~a.suspended
    BY DEF Serving, LinkOK, Links
  <2> HIDE DEF a
  <2>4. Serving(m) /\ (IsUp(m) => EndsWith(m, current))
    BY <2>1, <2>2, <2>3, QueueServes
  <2> QED BY <2>4 DEF Shows
<1>5. CASE ~ (Answered(kind) \/ kind \in {"unplug", "suspend", "exit_suspend", "set_protocol", "reset"})
  <2>1. m = l
    BY <1>5 DEF Handled
  <2> QED BY <2>1 DEF Shows, Untouched
<1> QED BY <1>1, <1>2, <1>3, <1>4, <1>5

\* close puts the neutral report at the end, and nothing is old.
LEMMA ReleasingFacts ==
  ASSUME NEW l, LinkOK(l), l.chan[Interrupt] # NoPeer, NEW m, m = Releasing(l)
  PROVE  /\ LinkOK(m) /\ m.chan = l.chan /\ m.old[Interrupt] = 0 /\ EndsWith(m, Neutral)
         /\ m.status = l.status
<1> DEFINE a == [l EXCEPT !.q = [l.q EXCEPT ![Interrupt] = <<>>],
                          !.old = [l.old EXCEPT ![Interrupt] = 0]]
<1>1. Interrupt \in Channels /\ Neutral \in Reports /\ l \in Links
  BY HidAssumption DEF LinkOK, HidAssumption, Channels, Interrupt
<1>2. l.q \in [Channels -> Seq(Reports)] /\ l.old \in [Channels -> Nat]
  BY <1>1 DEF Links
<1>3. /\ a.chan = l.chan /\ a.peer = l.peer /\ a.status = l.status
      /\ a.q = [l.q EXCEPT ![Interrupt] = <<>>] /\ a.old = [l.old EXCEPT ![Interrupt] = 0]
  BY <1>1 DEF Links
<1>4. <<>> \in Seq(Reports) /\ Len(<<>>) = 0
  OBVIOUS
<1>5. a \in Links
  <2>1. a.q \in [Channels -> Seq(Reports)]
    BY ONLY <1>1, <1>2, <1>3, <1>4, SetsOne
  <2>2. a.old \in [Channels -> Nat]
    BY ONLY <1>1, <1>2, <1>3, SetsOne, 0 \in Nat
  <2> QED BY <1>1, <2>1, <2>2 DEF Links
<1>6. m = Queue(a, Interrupt, Neutral)
  BY DEF Releasing
<1> HIDE DEF a
<1>7. /\ a.q[Interrupt] = <<>> /\ a.old[Interrupt] = 0
      /\ \A j \in Channels : j # Interrupt => a.q[j] = l.q[j] /\ a.old[j] = l.old[j]
  BY <1>1, <1>2, <1>3
<1>8. LinkOK(a)
  <2>1. \A j \in Channels : a.old[j] <= Len(a.q[j]) /\ Len(a.q[j]) <= QueueCap
    BY <1>4, <1>7, HidAssumption DEF LinkOK, HidAssumption
  <2> QED BY <1>3, <1>5, <1>7, <2>1 DEF LinkOK, IsUp
<1>9. /\ ~(Len(a.q[Interrupt]) >= QueueCap) /\ Len(a.q[Interrupt]) < QueueCap
      /\ a.chan[Interrupt] # NoPeer
  BY <1>3, <1>4, <1>7, HidAssumption DEF HidAssumption
<1>10. m = [a EXCEPT !.q = [a.q EXCEPT ![Interrupt] = Append(a.q[Interrupt], Neutral)]]
  BY <1>6, <1>9 DEF Queue
<1>11. LinkOK(m) /\ m.chan = a.chan /\ m.old = a.old /\ m.status = a.status
  BY <1>1, <1>8, <1>9, <1>10, AppendKeepsLink
<1>12. m.q[Interrupt] = Append(a.q[Interrupt], Neutral) /\ a.q[Interrupt] \in Seq(Reports)
  BY <1>1, <1>5, <1>10 DEF Links
<1>13. EndsWith(m, Neutral)
  BY <1>1, <1>12, AppendFacts DEF EndsWith
<1> QED BY <1>3, <1>7, <1>11, <1>13

-----------------------------------------------------------------------------
(* The steps.                                                              *)

\* A step that leaves the link, the pad and the phone alone.
LEMMA LinkUnchanged ==
  ASSUME LinkInv, UNCHANGED <<link, current, closing, phone>>
  PROVE  LinkInv'
  BY DEF LinkInv, phone, PhoneCatchesUp, ReleasedOnExit, LinkUp, IsUp, LinkOK, Serving, Links

\* A link that serves, and promises the phone the report of the pad.
LEMMA LinkServes ==
  ASSUME LinkInv, ~closing, UNCHANGED closing, current' \in Reports,
         NEW m, Serving(m), LinkBecomes(m),
         \/ UNCHANGED current /\ Shows(link, m, current)
         \/ IsUp(m) /\ ~m.suspended => EndsWith(m, current')
  PROVE  LinkInv'
<1>1. link' = m /\ PhoneFollows(m)
  BY DEF LinkBecomes
<1>2. /\ reading' = reading /\ linked' \in BOOLEAN /\ lost' \in BOOLEAN
      /\ shown' \in Reports \cup {NoReport}
  BY <1>1 DEF PhoneFollows, LinkInv
<1>3. ASSUME IsUp(m), ~m.suspended
      PROVE  LET q == m.q[Interrupt]
             IN  IF q = <<>> THEN shown' = current' \/ lost' ELSE q[Len(q)] = current'
  <2>1. shown' = shown /\ lost' = lost
    BY <1>1, <1>3 DEF PhoneFollows, IsUp, Channels, Interrupt
  <2>2. CASE EndsWith(m, current')
    BY <2>2 DEF EndsWith
  <2>3. CASE UNCHANGED current /\ Untouched(link, m)
    <3>1. LET q == link.q[Interrupt]
          IN  IF q = <<>> THEN shown = current \/ lost ELSE q[Len(q)] = current
      BY <2>3 DEF LinkInv, PhoneCatchesUp, LinkUp, Untouched
    <3> QED BY <2>1, <2>3, <3>1 DEF Untouched
  <2> QED BY <1>3, <2>2, <2>3 DEF Shows
<1>4. PhoneCatchesUp'
  BY <1>1, <1>3 DEF PhoneCatchesUp, LinkUp, IsUp
<1>5. Serving(link)' /\ LinkOK(link)'
  BY <1>1 DEF Serving, LinkOK, IsUp, Links
<1> QED BY <1>2, <1>4, <1>5 DEF LinkInv

\* The pad rests while the link changes.
LEMMA LinkShows ==
  ASSUME LinkInv, ~closing, UNCHANGED <<closing, current>>,
         NEW m, Serving(m), LinkBecomes(m), Shows(link, m, current)
  PROVE  LinkInv'
  BY LinkServes DEF LinkInv

\* loop returns and close runs: the neutral report is queued last.
LEMMA StopReleases ==
  ASSUME LinkInv, ~closing, UNCHANGED current, NEW l, LinkOK(l), StopWith(l)
  PROVE  /\ LinkInv'
         /\ closing' = TRUE /\ stalled' = FALSE /\ ch' = 0 /\ stage' \in {"flush", "ended"}
<1>1. closing' = TRUE /\ stalled' = FALSE /\ ch' = 0 /\ stage' \in {"flush", "ended"}
  BY DEF StopWith, Goto
<1> DEFINE r == [l EXCEPT !.status = "restoring"]
<1>4. LinkOK(r) /\ r.chan = l.chan /\ r.status = "restoring"
  BY DEF LinkOK, Links, IsUp
<1>2. CASE l.chan[Interrupt] # NoPeer
  <2> DEFINE m == Releasing(r)
  <2>1. link' = m /\ PhoneFollows(m)
    BY <1>2 DEF StopWith, LinkBecomes
  <2> HIDE DEF r
  <2>2. /\ LinkOK(m) /\ m.chan = l.chan /\ m.old[Interrupt] = 0 /\ EndsWith(m, Neutral)
        /\ m.status = "restoring"
    BY <1>2, <1>4, ReleasingFacts
  <2> HIDE DEF m
  <2>3. LinkOK(link)' /\ (link.old[Interrupt] = 0)'
    BY <2>1, <2>2 DEF LinkOK, IsUp, Links
  <2>4. ReleasedOnExit'
    BY <2>1, <2>2 DEF ReleasedOnExit, EndsWith
  <2>5. /\ reading' = reading /\ linked' \in BOOLEAN /\ lost' \in BOOLEAN
        /\ shown' \in Reports \cup {NoReport}
    BY <2>1 DEF PhoneFollows, LinkInv
  <2> QED BY <1>1, <2>1, <2>2, <2>3, <2>4, <2>5 DEF LinkInv
<1>3. CASE l.chan[Interrupt] = NoPeer
  <2> DEFINE m == Closed(r)
  <2>1. link' = m /\ PhoneFollows(m)
    BY <1>3 DEF StopWith, LinkBecomes
  <2> HIDE DEF r
  <2>2. /\ LinkOK(m) /\ m.status = "restoring" /\ m.old[Interrupt] = 0
        /\ m.chan[Interrupt] = NoPeer
    BY <1>4, ClosedIsOK
  <2> HIDE DEF m
  <2>3. LinkOK(link)' /\ ReleasedOnExit' /\ (link.old[Interrupt] = 0)'
    BY <2>1, <2>2 DEF ReleasedOnExit, LinkOK, IsUp, Links
  <2>4. /\ reading' = reading /\ linked' \in BOOLEAN /\ lost' \in BOOLEAN
        /\ shown' \in Reports \cup {NoReport}
    BY <2>1 DEF PhoneFollows, LinkInv
  <2> QED BY <1>1, <2>1, <2>2, <2>3, <2>4 DEF LinkInv
<1> QED BY <1>1, <1>2, <1>3

\* One packet leaves a queue, shed or sent.
LEMMA PacketLeaves ==
  ASSUME LinkInv, UNCHANGED <<closing, current, reading, linked>>,
         NEW i \in Channels, link.q[i] # <<>>, link' = Popped(link, i),
         lost' \in BOOLEAN, shown' \in Reports \cup {NoReport},
         i # Interrupt => UNCHANGED <<shown, lost>>,
         i = Interrupt => \/ lost' = TRUE /\ ~closing
                          \/ shown' = Head(link.q[i])
  PROVE  LinkInv'
<1>1. LinkOK(link) /\ link.q[i] \in Seq(Reports)
  BY DEF LinkInv, LinkOK, Links
<1> DEFINE m == Popped(link, i)
<1>2. /\ LinkOK(m) /\ (Serving(link) => Serving(m))
      /\ m.chan = link.chan /\ m.suspended = link.suspended /\ m.status = link.status
      /\ m.q[i] = Tail(link.q[i])
      /\ \A j \in Channels : j # i => m.q[j] = link.q[j] /\ m.old[j] = link.old[j]
      /\ link.old[i] = 0 => m.old[i] = 0
  BY <1>1, PoppedFacts
<1>3. /\ Tail(link.q[i]) # <<>> => Tail(link.q[i])[Len(Tail(link.q[i]))] = link.q[i][Len(link.q[i])]
      /\ Tail(link.q[i]) = <<>> => link.q[i][Len(link.q[i])] = Head(link.q[i])
  BY <1>1, TailFacts
<1>4. link' = m
  OBVIOUS
<1> HIDE DEF m
<1>5. Interrupt \in Channels
  BY DEF Interrupt, Channels
<1>6. ASSUME ~closing PROVE Serving(link)' /\ PhoneCatchesUp'
  <2>1. Serving(link)'
    <3>1. Serving(link)
      BY <1>6 DEF LinkInv
    <3>2. Serving(m)
      BY <1>2, <3>1
    <3> QED BY <1>4, <3>2 DEF Serving, LinkOK, IsUp, Links
  <2>2. ASSUME LinkUp', ~link'.suspended
        PROVE  LET q == m.q[Interrupt]
               IN  IF q = <<>> THEN shown' = current \/ lost' ELSE q[Len(q)] = current
    <3>1. LinkUp /\ ~link.suspended
      BY <1>2, <1>4, <2>2 DEF LinkUp, IsUp
    <3>2. LET q == link.q[Interrupt]
          IN  IF q = <<>> THEN shown = current \/ lost ELSE q[Len(q)] = current
      BY <1>6, <3>1 DEF LinkInv, PhoneCatchesUp
    <3>3. CASE i # Interrupt
      BY <1>2, <1>5, <3>2, <3>3
    <3>4. CASE i = Interrupt
      BY <1>2, <1>3, <3>2, <3>4
    <3> QED BY <3>3, <3>4
  <2>3. PhoneCatchesUp'
    BY <1>4, <2>2 DEF PhoneCatchesUp, LinkUp
  <2> QED BY <2>1, <2>3
<1>7. ASSUME closing
      PROVE  (link.old[Interrupt] = 0 /\ link.status # "connected")' /\ ReleasedOnExit'
  <2>1. m.old[Interrupt] = 0
    BY <1>2, <1>5, <1>7 DEF LinkInv
  <2>2. ASSUME m.chan[Interrupt] # NoPeer
        PROVE  LET q == m.q[Interrupt]
               IN  IF q = <<>> THEN shown' = Neutral ELSE q[Len(q)] = Neutral
    <3>1. LET q == link.q[Interrupt]
          IN  IF q = <<>> THEN shown = Neutral ELSE q[Len(q)] = Neutral
      BY <1>2, <1>7, <2>2 DEF LinkInv, ReleasedOnExit
    <3>2. CASE i # Interrupt
      BY <1>2, <1>5, <3>1, <3>2
    <3>3. CASE i = Interrupt
      BY <1>2, <1>3, <1>7, <3>1, <3>3
    <3> QED BY <3>2, <3>3
  <2>3. m.status # "connected"
    BY <1>2, <1>7 DEF LinkInv
  <2> QED BY <1>4, <2>1, <2>2, <2>3 DEF ReleasedOnExit
<1>8. LinkOK(link)'
  BY <1>2, <1>4 DEF LinkOK, IsUp, Links
<1> QED BY <1>6, <1>7, <1>8 DEF LinkInv

\* close ends with both channels shut, and never says connected.
LEMMA LinkCloses ==
  ASSUME LinkInv, closing, UNCHANGED <<closing, current>>,
         NEW m, m = Disconnect(link) \/ m = Closed(link), LinkBecomes(m)
  PROVE  LinkInv'
<1>1. link' = m /\ PhoneFollows(m)
  BY DEF LinkBecomes
<1>2. /\ LinkOK(m) /\ m.old[Interrupt] = 0 /\ m.chan[Interrupt] = NoPeer
      /\ m.status # "connected"
  <2>1. CASE m = Closed(link)
    BY <2>1, ClosedIsOK DEF LinkInv
  <2>2. CASE m = Disconnect(link)
    BY <2>2, DisconnectServes
      DEF Serving, LinkOK, Disconnect, NoLink, Channels, Interrupt
  <2> QED BY <2>1, <2>2
<1>3. /\ reading' = reading /\ linked' \in BOOLEAN /\ lost' \in BOOLEAN
      /\ shown' \in Reports \cup {NoReport}
  BY <1>1 DEF PhoneFollows, LinkInv
<1>4. LinkOK(link)' /\ ReleasedOnExit' /\ (link.old[Interrupt] = 0)'
  BY <1>1, <1>2 DEF ReleasedOnExit, LinkOK, IsUp, Links
<1> QED BY <1>1, <1>2, <1>3, <1>4 DEF LinkInv

-----------------------------------------------------------------------------
(* The invariant.                                                          *)

\* A new session has no link and has shown nothing.
LEMMA InitInv == Init => IInv
<1> SUFFICES ASSUME Init PROVE IInv
  OBVIOUS
<1>1. link = NoLink /\ Serving(NoLink)
  BY NoLinkServes DEF Init
<1>2. ~IsUp(NoLink)
  BY DEF IsUp, NoLink, Channels
<1>3. PhoneCatchesUp
  BY <1>1, <1>2 DEF PhoneCatchesUp, LinkUp
<1>4. LinkInv
  BY <1>1, <1>3 DEF LinkInv, Init, Serving
<1>5. FlagsOK
  BY DEF Init, FlagsOK, Stages, Channels
<1> QED BY <1>4, <1>5 DEF IInv

\* The types of one channel.
LEMMA LinkTypes ==
  ASSUME LinkInv, NEW i \in Channels
  PROVE  LinkOK(link) /\ link.chan[i] \in Paired \cup {NoPeer} /\ link.q[i] \in Seq(Reports)
  BY DEF LinkInv, LinkOK, Links

\* Every stage of a turn, and close.
LEMMA TurnInv ==
  ASSUME IInv, Turn
  PROVE  IInv'
<1> USE DEF IInv
<1>1. LinkInv /\ FlagsOK /\ current \in Reports /\ LinkOK(link)
  BY DEF LinkInv
<1>2. ~closing => Serving(link)
  BY DEF LinkInv
<1>3. stage \notin {"flush", "ended"} => ~closing
  BY DEF FlagsOK
<1>4. CASE Poll
  <2>1. LinkInv'
    BY <1>1, <1>4, LinkUnchanged DEF Poll
  <2>2. FlagsOK'
    BY <1>3, <1>4 DEF Poll, Goto, timers, FlagsOK, Stages, Channels
  <2> QED BY <2>1, <2>2
<1>5. CASE BlueZDisconnects
  <2>1. ~closing /\ UNCHANGED <<closing, current>> /\ LinkBecomes(Disconnect(link))
    BY <1>3, <1>5 DEF BlueZDisconnects
  <2>2. Serving(Disconnect(link)) /\ Shows(link, Disconnect(link), current)
    BY DisconnectServes DEF Shows
  <2>3. LinkInv'
    BY <1>1, <2>1, <2>2, LinkShows
  <2>4. FlagsOK'
    BY <2>1, <1>5 DEF BlueZDisconnects, Goto, timers, FlagsOK, Stages, Channels
  <2> QED BY <2>3, <2>4
<1>6. CASE SessionStops \/ Gesture
  <2>1. ~closing /\ UNCHANGED <<current, timers, pairClosed>> /\ StopWith(link)
    BY <1>3, <1>6 DEF SessionStops, Gesture
  <2>2. /\ LinkInv'
        /\ closing' = TRUE /\ stalled' = FALSE /\ ch' = 0 /\ stage' \in {"flush", "ended"}
    BY <1>1, <2>1, StopReleases
  <2>3. FlagsOK'
    BY <2>1, <2>2 DEF timers, FlagsOK, Stages, Channels
  <2> QED BY <2>2, <2>3
<1>7. ASSUME NEW r \in Reports, Emit(r) PROVE IInv'
  <2> DEFINE m == IF LinkUp /\ ~link.suspended THEN Queue(link, Interrupt, r) ELSE link
  <2>1. ~closing /\ UNCHANGED closing /\ current' = r /\ LinkBecomes(m)
    BY <1>3, <1>7 DEF Emit
  <2>2. Serving(m) /\ (IsUp(m) /\ ~m.suspended => EndsWith(m, r))
    <3>1. CASE LinkUp /\ ~link.suspended
      <4>1. link.chan[Control] # NoPeer
        BY <3>1 DEF LinkUp, IsUp, Channels, Control
      <4> QED BY <1>2, <2>1, <3>1, <4>1, QueueServes
    <3>2. CASE ~(LinkUp /\ ~link.suspended)
      BY <1>2, <2>1, <3>2 DEF LinkUp
    <3> QED BY <3>1, <3>2
  <2> HIDE DEF m
  <2>3. LinkInv'
    BY <1>1, <2>1, <2>2, LinkServes
  <2>4. FlagsOK'
    BY <1>7 DEF Emit, FlagsOK
  <2> QED BY <2>3, <2>4
<1>8. CASE InputRead
  <2>1. LinkInv'
    BY <1>1, <1>8, LinkUnchanged DEF InputRead
  <2>2. FlagsOK'
    BY <1>3, <1>8 DEF InputRead, Goto, timers, FlagsOK, Stages, Channels
  <2> QED BY <2>1, <2>2
<1>9. ASSUME NEW p \in Peers, Accept(p) PROVE IInv'
  <2> DEFINE m == Accepted(link, ch, p)
  <2>1. /\ ~closing /\ UNCHANGED <<closing, current>> /\ LinkBecomes(m)
        /\ p \in Paired /\ link.chan[ch] = NoPeer /\ link.peer \in {NoPeer, p} /\ ch \in Channels
    BY <1>3, <1>9 DEF Accept, MayAccept, FlagsOK
  <2>2. Serving(m) /\ (IsUp(m) => EndsWith(m, current))
    BY <1>1, <1>2, <2>1, AcceptedServes
  <2> HIDE DEF m
  <2>3. LinkInv'
    BY <1>1, <2>1, <2>2, LinkShows DEF Shows
  <2>4. FlagsOK'
    BY <2>1, <1>9 DEF Accept, GotoNext, Goto, FlagsOK, Stages, Channels
  <2> QED BY <2>3, <2>4
<1>10. CASE AcceptNone \/ ReceiveNone
  <2>1. /\ UNCHANGED <<closing, link, current, timers, stalled, pairClosed, phone>>
        /\ ~closing
    BY <1>3, <1>10 DEF AcceptNone, ReceiveNone
  <2>2. LinkInv'
    BY <1>1, <2>1, LinkUnchanged
  <2>3. FlagsOK'
    BY <2>1, <1>10 DEF AcceptNone, ReceiveNone, GotoNext, Goto, timers, FlagsOK, Stages, Channels
  <2> QED BY <2>2, <2>3
<1>11. ASSUME NEW kind \in ControlKinds, Receive(kind) PROVE IInv'
  <2> DEFINE m == Handled(link, kind)
  <2>1. ~closing /\ UNCHANGED <<closing, current>> /\ LinkBecomes(m) /\ link.chan[Control] # NoPeer
    BY <1>3, <1>11 DEF Receive
  <2>2. Serving(m) /\ Shows(link, m, current)
    BY <1>1, <1>2, <2>1, HandledServes
  <2> HIDE DEF m
  <2>3. LinkInv'
    BY <1>1, <2>1, <2>2, LinkShows
  <2>4. FlagsOK'
    BY <2>1, <1>11 DEF Receive, GotoNext, Goto, timers, FlagsOK, Stages, Channels
  <2> QED BY <2>3, <2>4
<1>12. CASE ReceiveError
  <2>1. ~closing /\ UNCHANGED <<closing, current>> /\ LinkBecomes(Disconnect(link))
    BY <1>3, <1>12 DEF ReceiveError
  <2>2. Serving(Disconnect(link)) /\ Shows(link, Disconnect(link), current)
    BY DisconnectServes DEF Shows
  <2>3. LinkInv'
    BY <1>1, <2>1, <2>2, LinkShows
  <2>4. FlagsOK'
    BY <2>1, <1>12 DEF ReceiveError, Goto, timers, FlagsOK, Stages, Channels
  <2> QED BY <2>3, <2>4
<1>13. ~closing => Serving(PairTimeout) /\ Shows(link, PairTimeout, current)
  BY <1>2, DisconnectServes DEF PairTimeout, Shows, Untouched
<1>14. CASE CheckTimers
  <2>1. ~closing /\ UNCHANGED <<closing, current>> /\ LinkBecomes(PairTimeout)
    BY <1>3, <1>14 DEF CheckTimers
  <2>2. LinkInv'
    BY <1>1, <1>13, <2>1, LinkShows
  <2>3. pairClosed' \in BOOLEAN
    BY <1>14 DEF CheckTimers
  <2>4. FlagsOK'
    BY <2>1, <2>3, <1>14 DEF CheckTimers, Goto, timers, FlagsOK, Stages, Channels
  <2> QED BY <2>2, <2>4
<1>15. CASE WindowFails
  <2>1. ~closing /\ UNCHANGED <<current, timers>> /\ pairClosed' = TRUE /\ StopWith(PairTimeout)
    BY <1>3, <1>15 DEF WindowFails
  <2>2. LinkOK(PairTimeout)
    BY <1>13, <2>1 DEF Serving
  <2>3. /\ LinkInv'
        /\ closing' = TRUE /\ stalled' = FALSE /\ ch' = 0 /\ stage' \in {"flush", "ended"}
    BY <1>1, <2>1, <2>2, StopReleases
  <2>4. FlagsOK'
    BY <2>1, <2>3 DEF timers, FlagsOK, Stages, Channels
  <2> QED BY <2>3, <2>4
<1>16. ASSUME NEW i \in Channels, Shed(i) PROVE IInv'
  <2>1. /\ link.q[i] # <<>> /\ link.old[i] > 0
    <3>1. link.old[i] > 0 /\ link.old[i] <= Len(link.q[i])
      BY <1>1, <1>16 DEF Shed, LinkOK
    <3>2. link.q[i] = <<>> => Len(link.q[i]) = 0
      OBVIOUS
    <3>3. link.old[i] \in Nat
      BY <1>1 DEF LinkOK, Links
    <3> QED BY <3>1, <3>2, <3>3
  <2>2. i = Interrupt => ~closing
    BY <2>1 DEF LinkInv
  <2>3. /\ UNCHANGED <<closing, current, reading, linked, shown>> /\ link' = Popped(link, i)
        /\ lost' = (lost \/ i = Interrupt)
    BY <1>16 DEF Shed
  <2>4. lost' \in BOOLEAN /\ (i # Interrupt => lost' = lost) /\ (i = Interrupt => lost' = TRUE)
    BY <1>1, <2>3 DEF LinkInv
  <2>5. LinkInv'
    <3>1. shown' \in Reports \cup {NoReport}
      BY <1>1, <2>3 DEF LinkInv
    <3> QED BY <1>1, <2>1, <2>2, <2>3, <2>4, <3>1, PacketLeaves
  <2>6. FlagsOK'
    BY <1>16 DEF Shed, timers, FlagsOK
  <2> QED BY <2>5, <2>6
<1>17. ASSUME NEW i \in Channels, Send(i) PROVE IInv'
  <2>1. /\ UNCHANGED <<closing, current, reading, linked>> /\ link' = Popped(link, i)
        /\ link.q[i] # <<>>
        /\ IF i = Interrupt THEN shown' = Head(link.q[i]) /\ lost' = FALSE
                            ELSE UNCHANGED <<shown, lost>>
    BY <1>17 DEF Send
  <2>2. lost' \in BOOLEAN /\ shown' \in Reports \cup {NoReport}
    <3>1. link.q[i] \in Seq(Reports)
      BY <1>1, LinkTypes
    <3>2. Head(link.q[i]) \in Reports
      BY <2>1, <3>1, TailFacts
    <3> QED BY <1>1, <2>1, <3>2 DEF LinkInv
  <2>3. LinkInv'
    BY <1>1, <2>1, <2>2, PacketLeaves
  <2>4. FlagsOK'
    BY <1>17 DEF Send, timers, FlagsOK
  <2> QED BY <2>3, <2>4
<1>18. ASSUME NEW i \in Channels, SendError(i) PROVE IInv'
  <2> DEFINE m == Disconnect(link)
  <2>1. UNCHANGED <<closing, current>> /\ LinkBecomes(m)
    BY <1>18 DEF SendError
  <2>2. ASSUME closing PROVE LinkInv'
    BY <1>1, <2>1, <2>2, LinkCloses
  <2>3. ASSUME ~closing PROVE LinkInv'
    <3>1. Serving(m) /\ Shows(link, m, current)
      BY DisconnectServes DEF Shows
    <3> HIDE DEF m
    <3> QED BY <1>1, <2>1, <2>3, <3>1, LinkShows
  <2>4. FlagsOK'
    BY <1>18 DEF SendError, Goto, timers, FlagsOK, Stages, Channels
  <2> QED BY <2>2, <2>3, <2>4, <1>1 DEF LinkInv
<1>19. CASE FlushControlDone
  <2>1. LinkInv'
    BY <1>1, <1>19, LinkUnchanged DEF FlushControlDone
  <2>2. FlagsOK'
    BY <1>19 DEF FlushControlDone, timers, FlagsOK, Channels, Interrupt
  <2> QED BY <2>1, <2>2
<1>20. CASE FlushDone
  <2>1. UNCHANGED <<closing, current, resendDue, late, windowOver, stalled, pairClosed>>
    BY <1>20 DEF FlushDone
  <2>2. ASSUME closing PROVE LinkInv'
    <3> DEFINE m == IF StallOver THEN Disconnect(link) ELSE Closed(link)
    <3>1. LinkBecomes(m)
      BY <1>20, <2>2 DEF FlushDone
    <3>2. m = Disconnect(link) \/ m = Closed(link)
      OBVIOUS
    <3> HIDE DEF m
    <3> QED BY <1>1, <2>1, <2>2, <3>1, <3>2, LinkCloses
  <2>3. ASSUME ~closing PROVE LinkInv'
    <3> DEFINE m == IF StallOver THEN Disconnect(link) ELSE link
    <3>1. LinkBecomes(m)
      BY <1>20, <2>3 DEF FlushDone
    <3>2. Serving(m) /\ Shows(link, m, current)
      BY <1>2, <2>3, DisconnectServes DEF Shows, Untouched
    <3> HIDE DEF m
    <3> QED BY <1>1, <2>1, <2>3, <3>1, <3>2, LinkShows
  <2>4. stage' \in {"ended", "resend"} /\ (closing => stage' = "ended") /\ ch' = 0
    BY <1>20 DEF FlushDone, Goto
  <2>5. stall' \in {"none", "running", "over"}
    BY <1>20 DEF FlushDone, StallAfter, FlagsOK
  <2>6. FlagsOK'
    BY <2>1, <2>4, <2>5 DEF FlagsOK, Stages, Channels
  <2> QED BY <1>1, <2>2, <2>3, <2>6 DEF LinkInv
<1>21. CASE Resend
  <2> DEFINE m == IF ShouldResend THEN Queue(link, Interrupt, current) ELSE link
  <2>1. ~closing /\ UNCHANGED <<closing, current>> /\ LinkBecomes(m)
    BY <1>3, <1>21 DEF Resend
  <2>2. Serving(m) /\ Shows(link, m, current)
    <3>1. CASE ShouldResend
      <4>1. link.chan[Control] # NoPeer /\ ~link.suspended
        BY <3>1 DEF ShouldResend, LinkUp, IsUp, Channels, Control
      <4>2. Serving(m) /\ (IsUp(m) => EndsWith(m, current))
        BY <1>1, <1>2, <2>1, <3>1, <4>1, QueueServes
      <4> HIDE DEF m
      <4> QED BY <4>2 DEF Shows
    <3>2. CASE ~ShouldResend
      BY <1>2, <2>1, <3>2 DEF Shows, Untouched
    <3> QED BY <3>1, <3>2
  <2> HIDE DEF m
  <2>3. LinkInv'
    BY <1>1, <2>1, <2>2, LinkShows
  <2>4. resendDue' \in BOOLEAN
    BY <1>21 DEF Resend, FlagsOK
  <2>5. FlagsOK'
    BY <2>1, <2>4, <1>21 DEF Resend, Goto, FlagsOK, Stages, Channels
  <2> QED BY <2>3, <2>5
<1> QED BY <1>4, <1>5, <1>6, <1>7, <1>8, <1>9, <1>10, <1>11, <1>12, <1>14, <1>15, <1>16,
           <1>17, <1>18, <1>19, <1>20, <1>21 DEF Turn

\* A packet grows old.
LEMMA PacketAges ==
  ASSUME LinkInv, ~closing, UNCHANGED <<closing, current, phone>>, NEW i \in Channels,
         link.old[i] < Len(link.q[i]),
         link' = [link EXCEPT !.old = [link.old EXCEPT ![i] = link.old[i] + 1]]
  PROVE  LinkInv'
<1> DEFINE m == [link EXCEPT !.old = [link.old EXCEPT ![i] = link.old[i] + 1]]
<1>1. Serving(link) /\ LinkOK(link) /\ link \in Links
  BY DEF LinkInv, Serving, LinkOK
<1>2. /\ link.q \in [Channels -> Seq(Reports)] /\ link.old \in [Channels -> Nat]
      /\ m.chan = link.chan /\ m.peer = link.peer /\ m.suspended = link.suspended
      /\ m.status = link.status /\ m.q = link.q
      /\ m.old = [link.old EXCEPT ![i] = link.old[i] + 1]
  BY <1>1 DEF Links
<1>3. m \in Links
  <2>1. m.old \in [Channels -> Nat]
    BY <1>2
  <2> QED BY <1>1, <2>1, <1>2 DEF Links
<1>4. \A j \in Channels : m.old[j] <= Len(m.q[j]) /\ Len(m.q[j]) <= QueueCap
  <2> TAKE j \in Channels
  <2>1. m.old[j] = IF j = i THEN link.old[i] + 1 ELSE link.old[j]
    BY <1>2
  <2>2. link.old[j] \in Nat /\ Len(link.q[j]) \in Nat
    BY <1>2
  <2> HIDE DEF m
  <2> QED BY <1>1, <1>2, <2>1, <2>2 DEF LinkOK
<1>5. link' = m
  OBVIOUS
<1> HIDE DEF m
<1>6. LinkOK(m)
  BY <1>1, <1>2, <1>3, <1>4 DEF LinkOK, IsUp
<1>7. Serving(m)
  BY <1>1, <1>2, <1>6 DEF Serving, IsUp
<1>8. PhoneCatchesUp'
  BY <1>2, <1>5 DEF LinkInv, PhoneCatchesUp, LinkUp, IsUp, phone
<1>9. Serving(link)' /\ LinkOK(link)'
  BY <1>5, <1>6, <1>7 DEF Serving, LinkOK, IsUp, Links
<1> QED BY <1>8, <1>9 DEF LinkInv, phone

\* Time passes, the phone stops reading or starts again, the shell gives up.
LEMMA TimeInv ==
  ASSUME IInv, Time \/ PhoneStallsOrReads \/ ShellStops
  PROVE  IInv'
<1> USE DEF IInv
<1>1. ASSUME NEW i \in Channels, GrowStale(i) PROVE IInv'
  <2>1. ~closing
    BY <1>1 DEF GrowStale, FlagsOK
  <2>2. LinkInv'
    BY <1>1, <2>1, PacketAges DEF GrowStale
  <2>3. FlagsOK'
    BY <1>1 DEF GrowStale, timers, FlagsOK
  <2> QED BY <2>2, <2>3
<1>2. CASE FourSecondsPass \/ FiveSecondsPass \/ StallBudgetPasses \/ PairWindowPasses
  <2>1. UNCHANGED <<link, current, closing, phone>>
    BY <1>2 DEF FourSecondsPass, FiveSecondsPass, StallBudgetPasses, PairWindowPasses
  <2>2. LinkInv'
    BY <2>1, LinkUnchanged
  <2>3. FlagsOK'
    <3>1. UNCHANGED <<stage, ch, closing, stalled, pairClosed>>
      BY <1>2 DEF FourSecondsPass, FiveSecondsPass, StallBudgetPasses, PairWindowPasses
    <3>2. /\ resendDue' \in {resendDue, TRUE} /\ late' \in {late, TRUE}
          /\ windowOver' \in {windowOver, TRUE} /\ stall' \in {stall, "over"}
      BY <1>2 DEF FourSecondsPass, FiveSecondsPass, StallBudgetPasses, PairWindowPasses
    <3> QED BY <3>1, <3>2 DEF FlagsOK
  <2> QED BY <2>2, <2>3
<1>3. CASE PhoneStallsOrReads
  <2>1. UNCHANGED <<closing, link, current, shown, lost, linked>> /\ reading' \in BOOLEAN
    BY <1>3 DEF PhoneStallsOrReads
  <2>2. LinkInv'
    BY <2>1 DEF LinkInv, PhoneCatchesUp, ReleasedOnExit, LinkUp, IsUp, LinkOK, Serving, Links
  <2>3. FlagsOK'
    BY <1>3 DEF PhoneStallsOrReads, timers, FlagsOK
  <2> QED BY <2>2, <2>3
<1>4. CASE ShellStops
  <2> DEFINE m == [link EXCEPT !.status = "stopping"]
  <2>1. link' = m /\ UNCHANGED <<closing, current, phone>>
    BY <1>4 DEF ShellStops
  <2>2. LinkOK(link) /\ link \in Links
    BY DEF LinkInv, LinkOK
  <2>3. /\ m \in Links /\ m.chan = link.chan /\ m.peer = link.peer /\ m.q = link.q
        /\ m.old = link.old /\ m.suspended = link.suspended /\ m.status = "stopping"
    BY <2>2 DEF Links
  <2> HIDE DEF m
  <2>4. LinkOK(m) /\ (Serving(link) => Serving(m))
    BY <2>2, <2>3 DEF LinkOK, Serving, IsUp
  <2>5. LinkOK(link)' /\ (~closing => Serving(link)')
    BY <2>1, <2>4 DEF LinkInv, LinkOK, Serving, IsUp, Links
  <2>6. (~closing => PhoneCatchesUp') /\ (closing => ReleasedOnExit')
    BY <2>1, <2>3 DEF LinkInv, PhoneCatchesUp, ReleasedOnExit, LinkUp, IsUp, phone
  <2>7. LinkInv'
    BY <2>1, <2>3, <2>5, <2>6 DEF LinkInv, phone
  <2>8. FlagsOK'
    BY <1>4 DEF ShellStops, timers, FlagsOK
  <2> QED BY <2>7, <2>8
<1> QED BY <1>1, <1>2, <1>3, <1>4 DEF Time

\* The invariant of every run of the server.
THEOREM Invariance == Spec => []IInv
<1>1. Init => IInv
  BY InitInv
<1>2. IInv /\ [Next]_vars => IInv'
  <2> SUFFICES ASSUME IInv, [Next]_vars PROVE IInv'
    OBVIOUS
  <2>1. CASE Turn
    BY <2>1, TurnInv
  <2>2. CASE Time \/ PhoneStallsOrReads \/ ShellStops
    BY <2>2, TimeInv
  <2>3. CASE UNCHANGED vars
    <3>1. LinkInv'
      BY <2>3, LinkUnchanged DEF IInv, vars
    <3>2. FlagsOK'
      BY <2>3 DEF IInv, vars, timers, FlagsOK
    <3> QED BY <3>1, <3>2 DEF IInv
  <2> QED BY <2>1, <2>2, <2>3 DEF Next, Ended
<1> QED BY <1>1, <1>2, PTL DEF Spec

-----------------------------------------------------------------------------
(* What follows from it.                                                   *)

\* Every variable keeps its type and no queue outgrows its limit (packetQueue).
THEOREM TypeCorrect == Spec => []TypeOK
<1>1. IInv => TypeOK
  BY DEF IInv, LinkInv, LinkOK, FlagsOK, TypeOK
<1> QED BY <1>1, Invariance, PTL

\* Both channels belong to one paired phone, and a closed channel keeps no packet
\* (accept, disconnect).
THEOREM OnePhoneOnly == Spec => []OnePhone
<1>1. IInv => OnePhone
  BY DEF IInv, LinkInv, LinkOK, Links, OnePhone
<1> QED BY <1>1, Invariance, PTL

\* The status file says connected only while both channels are open and served,
\* and says so, or the shell's reason to stop, for as long as they are.
THEOREM StatusIsTrue == Spec => []StatusTellsTruth
<1>1. IInv => StatusTellsTruth
  BY DEF IInv, LinkInv, LinkOK, Serving, StatusTellsTruth, LinkUp
<1> QED BY <1>1, Invariance, PTL

\* No report waits for a phone that suspended the link (emit, receive).
THEOREM SuspendedIsQuiet == Spec => []QuietWhileSuspended
<1>1. IInv => QuietWhileSuspended
  BY DEF IInv, LinkInv, Serving, QuietWhileSuspended
<1> QED BY <1>1, Invariance, PTL

\* A phone with a complete link will have been shown the state of the pad when the
\* queue is drained, unless that report was shed as stale.
THEOREM CatchesUp == Spec => []PhoneCatchesUp
<1>1. IInv => PhoneCatchesUp
  BY DEF IInv, LinkInv, PhoneCatchesUp
<1> QED BY <1>1, Invariance, PTL

\* When close has drained the interrupt channel the phone holds no button down.
THEOREM ExitReleases == Spec => []ReleasedOnExit
<1>1. IInv => ReleasedOnExit
  BY DEF IInv, LinkInv, ReleasedOnExit
<1> QED BY <1>1, Invariance, PTL
=============================================================================
