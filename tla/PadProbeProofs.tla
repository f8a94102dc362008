--------------------------- MODULE PadProbeProofs ---------------------------
(***************************************************************************)
(* Proofs about PadProbe, for any buttons, clocks, limits and events: no   *)
(* closed line of the log is changed, and leaving by the gesture saves     *)
(* every line.                                                             *)
(***************************************************************************)
EXTENDS PadProbe, SequenceTheorems, TLAPS

\* A line is open only if there is one.
LinesInv == TypeOK /\ (open => reported # <<>>)

\* SavedOnLeave is not inductive.  Without a closed line the log is empty, although
\* a frame may have written it: a line that was written was closed first, so no way
\* out takes it back.
EmptyLog ==
    screen = "on" /\ ~writeFailed =>
        /\ reported = <<>> => file = <<>>
        /\ fd = "open" /\ ClosedLines = <<>> => file = <<>>

SaveInv ==
    /\ EmptyLog /\ SavedOnLeave
    /\ leftBy # "" => screen = "off"

-----------------------------------------------------------------------------
\* The types of the log and of what the events change in it.
LEMMA LinesTypes ==
  ASSUME LinesInv
  PROVE  /\ reported \in Seq(Entry) /\ open \in BOOLEAN /\ (open => reported # <<>>)
         /\ queue \in Seq(Event) /\ burst \subseteq Keys /\ keys \subseteq Keys
  BY DEF LinesInv, TypeOK

\* All lines but the last.
LEMMA FrontFacts ==
  ASSUME NEW S, NEW s \in Seq(S), s # <<>>
  PROVE  /\ Front(s) \in Seq(S) /\ Len(Front(s)) = Len(s) - 1
         /\ \A i \in 1..Len(s) - 1 : Front(s)[i] = s[i]
<1> DEFINE n == Len(s) - 1
<1>1. n \in Nat /\ n <= Len(s)
  OBVIOUS
<1>2. \A i \in 1..n : s[i] \in S
  BY <1>1
<1>3. Front(s) = SubSeq(s, 1, n)
  BY DEF Front
<1> HIDE DEF n
<1>4. /\ SubSeq(s, 1, n) \in Seq(S)
      /\ Len(SubSeq(s, 1, n)) = IF 1 <= n THEN n - 1 + 1 ELSE 0
      /\ \A i \in 1..n - 1 + 1 : SubSeq(s, 1, n)[i] = s[1 + i - 1]
  BY <1>1, <1>2, SubSeqProperties
<1>5. Len(Front(s)) = n
  BY <1>1, <1>3, <1>4
<1>6. \A i \in 1..n : Front(s)[i] = s[i]
  BY <1>1, <1>3, <1>4
<1> QED BY <1>3, <1>4, <1>5, <1>6 DEF n

\* The open line is closed: its place and every line before it stay.
LEMMA ClosedFacts ==
  ASSUME LinesInv
  PROVE  /\ Closed \in Seq(Entry) /\ Len(Closed) = Len(reported)
         /\ ClosedLines \in Seq(Entry) /\ Len(ClosedLines) \in Nat
         /\ Len(ClosedLines) = IF open THEN Len(reported) - 1 ELSE Len(reported)
         /\ \A i \in 1..Len(ClosedLines) : ClosedLines[i] = reported[i] /\ Closed[i] = reported[i]
<1>1. CASE ~open
  BY <1>1, LinesTypes DEF Closed, ClosedLines
<1>2. CASE open
  <2>1. reported \in Seq(Entry) /\ Len(reported) \in Nat \ {0}
    BY <1>2, LinesTypes
  <2>2. ClosedLines = Front(reported) /\ reported # <<>>
    BY <1>2, LinesTypes DEF ClosedLines
  <2>3. /\ ClosedLines \in Seq(Entry) /\ Len(ClosedLines) = Len(reported) - 1
        /\ \A i \in 1..Len(reported) - 1 : ClosedLines[i] = reported[i]
    BY <2>1, <2>2, FrontFacts
  <2>4. Closed = [reported EXCEPT ![Len(reported)].codes = burst]
    BY <1>2 DEF Closed
  <2>5. [reported[Len(reported)] EXCEPT !.codes = burst] \in Entry
    <3>1. reported[Len(reported)] \in Entry
      BY <2>1
    <3> QED BY <3>1, LinesTypes DEF Entry
  <2>6. Closed \in Seq(Entry) /\ Len(Closed) = Len(reported)
    BY <2>1, <2>4, <2>5
  <2>7. \A i \in 1..Len(reported) - 1 : Closed[i] = reported[i]
    BY <2>1, <2>4
  <2> QED BY <1>2, <2>1, <2>3, <2>6, <2>7
<1> QED BY <1>1, <1>2, LinesTypes

\* What one event does to the lines: nothing, one more, or the open one dropped.
LinesStep ==
    \/ UNCHANGED <<reported, open>>
    \/ \E e \in Entry : reported' = Append(Closed, e) /\ open' = TRUE
    \/ open /\ reported' = Front(reported) /\ open' = FALSE

LEMMA EventStep ==
  ASSUME LinesInv, PadAssumption, ReadEvent
  PROVE  LinesStep /\ burst' \subseteq Keys /\ keys' \subseteq Keys
<1> DEFINE e == Head(queue)
<1>1. e \in Event
  BY LinesTypes DEF ReadEvent
<1>2. e.code \in Keys /\ e.id \in Ids
  BY <1>1 DEF Event
<1>3. Len(reported) + 1 \in Nat
  BY LinesTypes
<1>4. ASSUME NEW ks \in SUBSET Keys, Line(ks, e.id)
      PROVE  LinesStep /\ burst' \subseteq Keys
  <2> DEFINE l == [index |-> Len(reported) + 1, keys |-> ks, codes |-> {}, id |-> e.id]
  <2>1. l \in Entry
    BY <1>2, <1>3 DEF Entry
  <2>2. reported' = Append(Closed, l) /\ open' = TRUE /\ burst' = ks
    BY <1>4 DEF Line
  <2> HIDE DEF l
  <2> QED BY <2>1, <2>2 DEF LinesStep
<1>5. \A ks \in SUBSET Keys : DropExitLine(ks) => LinesStep
  BY DEF DropExitLine, LinesStep
<1>6. CASE KeyDown(e)
  <2>1. keys' \subseteq Keys /\ {e.code} \in SUBSET Keys
    BY <1>2, <1>6, LinesTypes DEF KeyDown
  <2>2. \/ UNCHANGED <<reported, open, burst>>
        \/ DropExitLine(keys \cup {e.code}) /\ UNCHANGED burst
        \/ UNCHANGED <<reported, open>> /\ burst' = burst \cup {e.code}
        \/ Line({e.code}, e.id)
    BY <1>6 DEF KeyDown
  <2> HIDE DEF e
  <2> QED BY <1>2, <1>4, <1>5, <2>1, <2>2, LinesTypes DEF LinesStep
<1>7. CASE KeyUp(e)
  <2>1. keys' = keys \ {e.code} /\ DropExitLine(keys \ {e.code}) /\ UNCHANGED burst
    BY <1>7 DEF KeyUp
  <2> HIDE DEF e
  <2> QED BY <1>5, <2>1, LinesTypes
<1>8. CASE HatMoved(e)
  <2>1. UNCHANGED keys /\ (UNCHANGED <<reported, open, burst>> \/ Line({}, e.id))
    BY <1>8 DEF HatMoved
  <2> HIDE DEF e
  <2> QED BY <1>4, <2>1, LinesTypes DEF LinesStep
<1> QED BY <1>6, <1>7, <1>8 DEF ReadEvent

-----------------------------------------------------------------------------
(* LinesAreKept.                                                           *)

\* What happens to the lines in one step while the screen is shown, or hidden.
LEMMA StepOnLines ==
  ASSUME LinesInv, [Next]_vars
  PROVE  \/ LinesStep
         \/ reported' = Closed /\ open' = FALSE
         \/ screen = "off" /\ reported' = <<>> /\ open' = FALSE
<1>1. CASE Finger
  BY <1>1 DEF Finger, Press, Repeat, Release, Hat, probe, LinesStep
<1>2. CASE ReadEvent
  BY <1>2, EventStep, PadAssumption
<1>3. CASE FrameEnds
  <2> PICK ok \in BOOLEAN, again \in BOOLEAN : EndFrame(ok, again)
    BY <1>3 DEF FrameEnds
  <2>1. open' = FALSE /\ reported' = Closed
    BY DEF EndFrame
  <2> QED BY <2>1
<1>4. CASE Tick \/ AppEnds \/ UNCHANGED vars
  BY <1>4 DEF Tick, AppEnds, vars, probe, LinesStep
<1>6. CASE DeviceLost
  BY <1>6 DEF DeviceLost
<1>5. ASSUME NEW found \in BOOLEAN, NEW cleared \in BOOLEAN, Enter(found, cleared)
      PROVE  screen = "off" /\ reported' = <<>> /\ open' = FALSE
  BY <1>5 DEF Enter, NewProbe
<1> QED BY <1>1, <1>2, <1>3, <1>4, <1>5, <1>6 DEF Next


\* One step on a log of well-formed lines leaves such a log.
LEMMA LinesTyped ==
  ASSUME LinesInv, [Next]_vars
  PROVE  /\ reported' \in Seq(Entry) /\ open' \in BOOLEAN
         /\ open' => reported' # <<>>
<1>1. /\ reported \in Seq(Entry) /\ open \in BOOLEAN /\ (open => reported # <<>>)
  BY LinesTypes
<1>2. Closed \in Seq(Entry) /\ Len(Closed) = Len(reported)
  BY ClosedFacts
<1>3. CASE LinesStep
  <2>1. CASE UNCHANGED <<reported, open>>
    BY <1>1, <2>1
  <2>2. ASSUME NEW e \in Entry, reported' = Append(Closed, e), open' = TRUE
        PROVE  reported' \in Seq(Entry) /\ open' \in BOOLEAN /\ reported' # <<>>
    BY <1>2, <2>2
  <2>3. CASE open /\ reported' = Front(reported) /\ open' = FALSE
    BY <1>1, <2>3, FrontFacts
  <2> QED BY <1>3, <2>1, <2>2, <2>3 DEF LinesStep
<1>4. CASE reported' = Closed /\ open' \in BOOLEAN /\ (open' => open)
  <2>1. reported # <<>> => Closed # <<>>
    BY <1>1, <1>2
  <2> QED BY <1>1, <1>2, <1>4, <2>1
<1>5. CASE screen = "off" /\ reported' = <<>> /\ open' = FALSE
  <2>1. <<>> \in Seq(Entry)
    OBVIOUS
  <2> QED BY <1>5, <2>1
<1>6. \/ LinesStep
      \/ reported' = Closed /\ open' \in BOOLEAN /\ (open' => open)
      \/ screen = "off" /\ reported' = <<>> /\ open' = FALSE
  BY StepOnLines
<1> QED BY <1>3, <1>4, <1>5, <1>6

\* An event is queued.
LEMMA QueueTyped ==
  ASSUME LinesInv, NEW kind \in {"down", "repeat", "up", "hat"}, NEW k \in Keys,
         NEW id \in Ids, Queued(kind, k, id)
  PROVE  queue' \in Seq(Event)
<1>1. [kind |-> kind, code |-> k, id |-> id] \in Event
  BY DEF Event
<1> DEFINE e == [kind |-> kind, code |-> k, id |-> id]
<1>2. queue' \in {queue, Append(queue, e)}
  BY DEF Queued
<1> HIDE DEF e
<1> QED BY <1>1, <1>2, LinesTypes DEF e

\* The pad, the queue and what the probe believes of them.
LEMMA PadTyped ==
  ASSUME LinesInv, [Next]_vars
  PROVE  /\ down' \subseteq Keys /\ pressOf' \in [Keys -> Ids] /\ presses' \in Ids
         /\ queue' \in Seq(Event) /\ keys' \subseteq Keys /\ burst' \subseteq Keys
<1> DEFINE Was == /\ down \subseteq Keys /\ pressOf \in [Keys -> Ids] /\ presses \in Ids
                  /\ queue \in Seq(Event) /\ keys \subseteq Keys /\ burst \subseteq Keys
<1>1. Was
  BY DEF LinesInv, TypeOK
<1>2. ASSUME NEW k \in Keys, Press(k) \/ Hat(k)
      PROVE  presses + 1 \in Ids /\ queue' \in Seq(Event) /\ UNCHANGED <<keys, burst>>
  <2>1. presses + 1 \in Ids
    BY <1>1, <1>2, PadAssumption DEF Press, Hat, Ids, PadAssumption
  <2> QED BY <1>2, <2>1, QueueTyped DEF Press, Hat, probe
<1>3. ASSUME NEW k \in Keys, Repeat(k) \/ Release(k)
      PROVE  queue' \in Seq(Event) /\ UNCHANGED <<keys, burst, presses, pressOf>>
  <2>1. pressOf[k] \in Ids
    BY <1>1
  <2> QED BY <1>3, <2>1, QueueTyped DEF Repeat, Release, probe, pad
<1>4. CASE Finger
  <2>1. ASSUME NEW k \in Keys, Press(k) PROVE Was'
    <3>1. /\ down' = down \cup {k} /\ presses' = presses + 1
          /\ pressOf' = [pressOf EXCEPT ![k] = presses + 1]
      BY <2>1 DEF Press
    <3> QED BY <1>1, <1>2, <2>1, <3>1
  <2>2. ASSUME NEW k \in Keys, Hat(k) PROVE Was'
    <3>1. UNCHANGED <<down, pressOf>> /\ presses' = presses + 1
      BY <2>2 DEF Hat
    <3> QED BY <1>1, <1>2, <2>2, <3>1
  <2>3. ASSUME NEW k \in Keys, Repeat(k) \/ Release(k) PROVE Was'
    <3>1. down' \subseteq down
      BY <2>3 DEF Repeat, Release, pad
    <3> QED BY <1>1, <1>3, <2>3, <3>1
  <2> QED BY <1>4, <2>1, <2>2, <2>3 DEF Finger
<1>5. CASE ReadEvent
  <2>1. burst' \subseteq Keys /\ keys' \subseteq Keys
    BY <1>5, EventStep, PadAssumption
  <2>2. UNCHANGED pad /\ queue' = Tail(queue) /\ queue # <<>>
    BY <1>5 DEF ReadEvent
  <2> QED BY <1>1, <2>1, <2>2 DEF pad
<1>6. CASE FrameEnds \/ Tick \/ DeviceLost \/ AppEnds \/ UNCHANGED vars
  <2>1. <<>> \in Seq(Event) /\ Len(<<>>) = 0 /\ MaxQueue \in Nat
    BY PadAssumption DEF PadAssumption
  <2> QED BY <1>1, <1>6, <2>1 DEF FrameEnds, EndFrame, Tick, DeviceLost, AppEnds, vars, pad, probe
<1>7. ASSUME NEW found \in BOOLEAN, NEW cleared \in BOOLEAN, Enter(found, cleared)
      PROVE  Was'
  <2>1. <<>> \in Seq(Event)
    OBVIOUS
  <2> QED BY <1>1, <1>7, <2>1 DEF Enter, NewProbe, pad
<1> QED BY <1>4, <1>5, <1>6, <1>7 DEF Next

\* The screen, the file and the clocks.
LEMMA ScreenTyped ==
  ASSUME LinesInv, [Next]_vars
  PROVE  /\ file' \in Seq(Entry) /\ fd' \in {"none", "open"} /\ screen' \in {"off", "on"}
         /\ since' \in 0..Cooldown /\ hold' \in 0..NoHold
         /\ saved' \in BOOLEAN /\ writeFailed' \in BOOLEAN
         /\ leftBy' \in {"", "menu", "start_select"}
<1> DEFINE Shown == /\ file \in Seq(Entry) /\ fd \in {"none", "open"} /\ screen \in {"off", "on"}
                    /\ saved \in BOOLEAN /\ writeFailed \in BOOLEAN
                    /\ leftBy \in {"", "menu", "start_select"}
           Clocks == since \in 0..Cooldown /\ hold \in 0..NoHold
<1>1. Shown /\ Clocks
  BY DEF LinesInv, TypeOK
<1>2. /\ Cooldown \in Nat /\ HoldLimit \in Nat /\ NoHold \in Nat /\ HoldLimit <= NoHold
      /\ 0 \in 0..Cooldown /\ 0 \in 0..NoHold /\ NoHold \in 0..NoHold
  BY PadAssumption DEF PadAssumption, NoHold
<1>3. <<>> \in Seq(Entry) /\ Closed \in Seq(Entry) /\ reported \in Seq(Entry)
  <2>1. <<>> \in Seq(Entry)
    OBVIOUS
  <2> QED BY <2>1, ClosedFacts, LinesTypes
<1>4. CASE Finger \/ UNCHANGED vars
  BY <1>1, <1>4 DEF Finger, Press, Repeat, Release, Hat, vars, probe, session
<1>5. CASE ReadEvent
  <2>1. UNCHANGED session
    BY <1>5 DEF ReadEvent
  <2>2. since' \in {since, 0} /\ hold' \in {hold, 0, NoHold}
    BY <1>5 DEF ReadEvent, KeyDown, KeyUp, HatMoved, Line, HoldAfter
  <2> QED BY <1>1, <1>2, <2>1, <2>2 DEF session
<1>6. CASE FrameEnds
  <2> PICK ok \in BOOLEAN, again \in BOOLEAN : EndFrame(ok, again)
    BY <1>6 DEF FrameEnds
  <2> DEFINE lines == Closed
  <2>1. UNCHANGED <<since, hold>>
    BY DEF EndFrame
  <2>2. \A o \in BOOLEAN : Save(lines, o) => /\ file' \in {file, lines, <<>>}
                                              /\ saved' \in BOOLEAN /\ writeFailed' \in BOOLEAN
    BY <1>1 DEF Save
  <2>3. file' \in {file, lines, <<>>} /\ saved' \in BOOLEAN /\ writeFailed' \in BOOLEAN
    <3>1. (ok \/ (~saved /\ again)) \in BOOLEAN
      OBVIOUS
    <3>2. \/ Save(lines, ok \/ (~saved /\ again)) \/ Save(lines, ok)
          \/ UNCHANGED <<file, saved, writeFailed>>
      BY DEF EndFrame
    <3> HIDE DEF lines
    <3> QED BY <1>1, <2>2, <3>1, <3>2
  <2>4. screen' \in {"off", screen} /\ fd' \in {"none", fd} /\ leftBy' \in {leftBy, "", "menu", "start_select"}
    BY DEF EndFrame, Gesture
  <2>5. lines \in Seq(Entry)
    BY <1>3
  <2> HIDE DEF lines
  <2> QED BY <1>1, <1>3, <2>1, <2>3, <2>4, <2>5
<1>7. CASE Tick
  <2>1. UNCHANGED session
    BY <1>7 DEF Tick
  <2>2. since' \in 0..Cooldown /\ hold' \in 0..NoHold
    <3>1. since' \in 0..Cooldown
      <4>1. since' = IF since < Cooldown THEN since + 1 ELSE since
        BY <1>7 DEF Tick
      <4>2. since \in 0..Cooldown /\ Cooldown \in Nat
        BY <1>1, <1>2
      <4> QED BY ONLY <4>1, <4>2
    <3>2. hold' = IF hold < HoldLimit THEN hold + 1 ELSE hold
      BY <1>7 DEF Tick
    <3>3. hold' \in 0..NoHold
      <4>1. hold \in 0..HoldLimit + 1 /\ HoldLimit \in Nat
        BY <1>1, <1>2 DEF NoHold
      <4>2. hold' \in 0..HoldLimit + 1
        BY ONLY <3>2, <4>1
      <4> QED BY <4>2 DEF NoHold
    <3> QED BY <3>1, <3>3
  <2> QED BY <1>1, <2>1, <2>2 DEF session
<1>8. CASE DeviceLost \/ AppEnds
  BY <1>1, <1>8 DEF DeviceLost, AppEnds, probe
<1>9. ASSUME NEW found \in BOOLEAN, NEW cleared \in BOOLEAN, Enter(found, cleared)
      PROVE  Shown' /\ Clocks'
  <2>1. since' = Cooldown /\ hold' = NoHold
    BY <1>9 DEF Enter, NewProbe
  <2>2. /\ screen' = "on" /\ fd' \in {"none", "open"} /\ file' \in {file, <<>>}
        /\ saved' \in BOOLEAN /\ writeFailed' \in BOOLEAN /\ leftBy' = ""
    BY <1>9 DEF Enter, FindGamepad
  <2>3. Shown'
    BY <1>1, <1>3, <2>2
  <2>4. Clocks'
    BY <1>2, <2>1, PadAssumption DEF PadAssumption
  <2> QED BY <2>3, <2>4
<1> QED BY <1>4, <1>5, <1>6, <1>7, <1>8, <1>9 DEF Next

\* The app starts with no line.
LEMMA InitLines == Init => LinesInv
<1> SUFFICES ASSUME Init PROVE LinesInv
  OBVIOUS
<1>1. <<>> \in Seq(Entry) /\ <<>> \in Seq(Event)
  OBVIOUS
<1>2. 0 \in Ids /\ Cooldown \in 0..Cooldown /\ NoHold \in 0..NoHold
  BY PadAssumption DEF PadAssumption, Ids, NoHold
<1> QED BY <1>1, <1>2 DEF Init, LinesInv, TypeOK

\* Every step keeps the log well formed.
LEMMA LinesStay == LinesInv /\ [Next]_vars => LinesInv'
<1> SUFFICES ASSUME LinesInv, [Next]_vars PROVE LinesInv'
  OBVIOUS
<1> QED BY LinesTyped, PadTyped, ScreenTyped DEF LinesInv, TypeOK

\* The variables keep their types, and a line is open only if there is one.
THEOREM PadTypes == Spec => [](TypeOK /\ (open => reported # <<>>))
<1> QED BY InitLines, LinesStay, PTL DEF Spec, LinesInv

\* A step while the screen is shown keeps every closed line in its place.
LEMMA StepKeeps ==
  ASSUME LinesInv, [Next]_vars, screen = "on"
  PROVE  \A i \in 1..Len(ClosedLines) : i <= Len(reported') /\ reported'[i] = reported[i]
<1>1. /\ reported \in Seq(Entry) /\ (open => reported # <<>>)
  BY LinesTypes
<1>2. /\ Closed \in Seq(Entry) /\ Len(Closed) = Len(reported)
      /\ Len(ClosedLines) \in Nat
      /\ Len(ClosedLines) = IF open THEN Len(reported) - 1 ELSE Len(reported)
      /\ \A i \in 1..Len(ClosedLines) : Closed[i] = reported[i]
  BY ClosedFacts
<1>3. Len(reported) \in Nat /\ Len(ClosedLines) <= Len(reported)
  BY <1>1, <1>2
<1>4. CASE UNCHANGED reported
  BY <1>3, <1>4
<1>5. ASSUME NEW e \in Entry, reported' = Append(Closed, e)
      PROVE  \A i \in 1..Len(ClosedLines) : i <= Len(reported') /\ reported'[i] = reported[i]
  <2>1. /\ Len(reported') = Len(Closed) + 1
        /\ \A i \in 1..Len(Closed) : reported'[i] = Closed[i]
    BY <1>2, <1>5
  <2> QED BY <1>2, <1>3, <2>1
<1>6. CASE open /\ reported' = Front(reported)
  <2>1. /\ Len(reported') = Len(reported) - 1
        /\ \A i \in 1..Len(reported) - 1 : reported'[i] = reported[i]
    BY <1>1, <1>6, FrontFacts
  <2> QED BY <1>2, <1>6, <2>1
<1>7. CASE reported' = Closed
  BY <1>2, <1>3, <1>7
<1>8. LinesStep \/ reported' = Closed
  BY StepOnLines
<1> QED BY <1>4, <1>5, <1>6, <1>7, <1>8 DEF LinesStep

\* A line that was closed is never changed, renumbered or removed while the screen
\* is shown (_drop_exit_only_entry, _discard, _close_open).
THEOREM ClosedLinesStay == Spec => LinesAreKept
<1>1. LinesInv /\ [Next]_vars =>
        [screen = "on" => \A i \in 1..Len(ClosedLines) :
             i <= Len(reported') /\ reported'[i] = reported[i]]_vars
  BY StepKeeps
<1> QED BY InitLines, LinesStay, <1>1, PTL DEF Spec, LinesAreKept

-----------------------------------------------------------------------------
(* SavedOnLeave.                                                           *)

\* When the log is empty, and which lines are closed.
LEMMA EmptyFacts ==
  ASSUME LinesInv
  PROVE  /\ Closed = <<>> <=> reported = <<>>
         /\ reported = <<>> => ClosedLines = <<>>
         /\ ~open => ClosedLines = reported
         /\ open => ClosedLines = Front(reported)
<1>1. reported \in Seq(Entry) /\ (open => reported # <<>>)
  BY LinesTypes
<1>2. Closed \in Seq(Entry) /\ Len(Closed) = Len(reported)
  BY ClosedFacts
<1>3. Closed = <<>> <=> reported = <<>>
  BY <1>1, <1>2
<1> QED BY <1>1, <1>3 DEF ClosedLines

\* One event is read: a line that is written stays, so an empty log was not written.
LEMMA ReadKeepsEmptyLog ==
  ASSUME LinesInv, SaveInv, ReadEvent
  PROVE  SaveInv'
<1>1. /\ screen = "on" /\ fd = "open" /\ leftBy = ""
      /\ UNCHANGED <<screen, fd, file, writeFailed, leftBy>>
  BY DEF ReadEvent, session, SaveInv
<1>2. LinesStep
  BY EventStep, PadAssumption
<1>3. SUFFICES ASSUME ~writeFailed
               PROVE  /\ reported' = <<>> => file = <<>>
                      /\ ClosedLines' = <<>> => file = <<>>
  BY <1>1 DEF SaveInv, EmptyLog, SavedOnLeave
<1>4. /\ reported = <<>> => file = <<>>
      /\ ClosedLines = <<>> => file = <<>>
  BY <1>1, <1>3 DEF SaveInv, EmptyLog
<1>5. CASE UNCHANGED <<reported, open>>
  BY <1>4, <1>5 DEF ClosedLines
<1>6. ASSUME NEW e \in Entry, reported' = Append(Closed, e), open' = TRUE
      PROVE  /\ reported' = <<>> => file = <<>>
             /\ ClosedLines' = <<>> => file = <<>>
  <2>1. Closed \in Seq(Entry)
    BY ClosedFacts
  <2>2. reported' \in Seq(Entry) /\ reported' # <<>> /\ Len(reported') = Len(Closed) + 1
    BY <1>6, <2>1
  <2>3. ClosedLines' = Front(reported')
    BY <1>6 DEF ClosedLines, Front
  <2>4. Len(ClosedLines') = Len(reported') - 1
    BY <2>2, <2>3, FrontFacts
  <2>5. ASSUME ClosedLines' = <<>> PROVE Closed = <<>>
    <3>1. Len(ClosedLines') = 0
      BY <2>5
    <3>2. Len(Closed) = 0
      BY <2>1, <2>2, <2>4, <3>1
    <3> QED BY <2>1, <3>2
  <2> QED BY <1>4, <2>2, <2>5, EmptyFacts
<1>7. CASE open /\ reported' = Front(reported) /\ open' = FALSE
  <2>1. reported' = ClosedLines /\ ClosedLines' = reported'
    BY <1>7 DEF ClosedLines
  <2> QED BY <1>4, <2>1
<1> QED BY <1>2, <1>5, <1>6, <1>7 DEF LinesStep

\* A frame ends, with or without the gesture.
LEMMA FrameKeepsEmptyLog ==
  ASSUME LinesInv, SaveInv, NEW ok \in BOOLEAN, NEW again \in BOOLEAN, EndFrame(ok, again)
  PROVE  SaveInv'
<1> DEFINE lines == Closed
<1>1. screen = "on" /\ leftBy = "" /\ reported' = lines /\ open' = FALSE
  BY DEF EndFrame, SaveInv
<1>2. lines = <<>> <=> reported = <<>>
  BY EmptyFacts
<1>3. ~writeFailed /\ lines = <<>> => file = <<>>
  BY <1>1, <1>2 DEF SaveInv, EmptyLog
<1>4. \A o \in BOOLEAN : Save(lines, o) /\ ~writeFailed' => file' = lines
  BY <1>3 DEF Save
<1>5. CASE ExitHeld
  <2>1. Save(lines, ok \/ (~saved /\ again)) /\ screen' = "off"
    BY <1>5 DEF EndFrame
  <2>2. ~writeFailed' => file' = reported'
    <3>1. (ok \/ (~saved /\ again)) \in BOOLEAN
      OBVIOUS
    <3> HIDE DEF lines
    <3> QED BY <1>1, <1>4, <2>1, <3>1
  <2> QED BY <2>1, <2>2 DEF SaveInv, EmptyLog, SavedOnLeave
<1>6. CASE ~ExitHeld
  <2>1. /\ UNCHANGED <<screen, fd, leftBy>>
        /\ Save(lines, ok) \/ UNCHANGED <<file, saved, writeFailed>>
    BY <1>6 DEF EndFrame
  <2>2. ~writeFailed' /\ reported' = <<>> => file' = <<>>
    <3> HIDE DEF lines
    <3> QED BY <1>1, <1>3, <1>4, <2>1
  <2>3. ~writeFailed' /\ fd' = "open" /\ ClosedLines' = <<>> => file' = <<>>
    <3>1. fd' = "open" => ClosedLines' = reported'
      BY <1>1, <2>1 DEF ClosedLines
    <3> QED BY <2>2, <3>1
  <2> QED BY <1>1, <2>1, <2>2, <2>3 DEF SaveInv, EmptyLog, SavedOnLeave
<1> QED BY <1>5, <1>6

\* Every step keeps what leaving by the gesture relies on.
LEMMA SaveStep ==
  ASSUME LinesInv, SaveInv, [Next]_vars
  PROVE  SaveInv'
<1>1. CASE Finger \/ Tick \/ UNCHANGED vars
  <2>1. UNCHANGED <<session, reported, open>>
    BY <1>1 DEF Finger, Press, Repeat, Release, Hat, Tick, vars, probe
  <2> QED BY <2>1 DEF SaveInv, EmptyLog, SavedOnLeave, ClosedLines, session
<1>2. CASE ReadEvent
  BY <1>2, ReadKeepsEmptyLog
<1>3. CASE FrameEnds
  BY <1>3, FrameKeepsEmptyLog DEF FrameEnds
<1>4. CASE DeviceLost
  <2>1. /\ UNCHANGED <<screen, file, writeFailed, leftBy>> /\ fd' = "none"
        /\ reported' = Closed /\ screen = "on"
    BY <1>4 DEF DeviceLost
  <2>2. reported' = <<>> <=> reported = <<>>
    BY <2>1, EmptyFacts
  <2> QED BY <2>1, <2>2 DEF SaveInv, EmptyLog, SavedOnLeave
<1>5. CASE AppEnds
  BY <1>5 DEF AppEnds, SaveInv, EmptyLog, SavedOnLeave
<1>6. ASSUME NEW found \in BOOLEAN, NEW cleared \in BOOLEAN, Enter(found, cleared)
      PROVE  SaveInv'
  <2>1. leftBy' = "" /\ (~writeFailed' => file' = <<>>)
    BY <1>6 DEF Enter
  <2> QED BY <2>1 DEF SaveInv, EmptyLog, SavedOnLeave
<1> QED BY <1>1, <1>2, <1>3, <1>4, <1>5, <1>6 DEF Next

\* Leaving by the gesture with no failed write, the file has every line, although
\* earlier frames may have written it while lines were still open (_save, write_log,
\* on_exit).
THEOREM LeavingSaves == Spec => []SavedOnLeave
<1>1. Init => SaveInv
  BY DEF Init, SaveInv, EmptyLog, SavedOnLeave
<1>2. LinesInv /\ SaveInv /\ [Next]_vars => LinesInv' /\ SaveInv'
  BY LinesStay, SaveStep
<1>3. SaveInv => SavedOnLeave
  BY DEF SaveInv
<1> QED BY InitLines, <1>1, <1>2, <1>3, PTL DEF Spec
=============================================================================
