------------------------------ MODULE PadProbe ------------------------------
(***************************************************************************)
(* The button test screen (screens/button_test.py) and the recorder under  *)
(* it (pad_probe.py).  The kernel queues the events of the pad; update()   *)
(* runs once a frame, reads them all, closes the line it opened, and       *)
(* leaves the screen when MENU alone, or START and SELECT together, have   *)
(* been held for two seconds.  The lines, one for each press, are written  *)
(* to BrickButtons.log; a button map is made from them afterwards, by      *)
(* their numbers.                                                          *)
(*                                                                         *)
(* Abstracted: the two clocks count ticks and stop at their limits; the    *)
(* value of a hat; the notes appended to the file, which no one reads      *)
(* back.  held_ms is left out: it is the time since a line was opened      *)
(* when it is closed, and both happen in one poll().                       *)
(***************************************************************************)
EXTENDS Naturals, Sequences

CONSTANTS
    Buttons,      \* key codes that are not part of a way out
    Menu, Select, Start,
    Cooldown,     \* ticks in COOLDOWN_SECONDS
    HoldLimit,    \* ticks in HOLD_EXIT_SECONDS and HOLD_START_SELECT_SECONDS
    RecordLimit,  \* lines after which every frame saves the log
    RepeatLimit,  \* bound: the firmware repeats the code of a held button while
                  \* there are fewer lines; 0 for a firmware that does not repeat
    MaxPresses,   \* bound: presses in a behaviour
    MaxQueue      \* bound: events the kernel holds

ExitKeys == {Menu, Select, Start}
Keys == Buttons \cup ExitKeys
Ids == 0..MaxPresses        \* presses are numbered in the order they are made
NoHold == HoldLimit + 1     \* hold_started is None

ASSUME PadAssumption ==
    /\ Cooldown \in Nat \ {0} /\ HoldLimit \in Nat \ {0}
    /\ {RecordLimit, RepeatLimit, MaxPresses, MaxQueue} \subseteq Nat
    /\ ExitKeys \cap Buttons = {}

VARIABLES
    \* the pad and the kernel
    down,       \* the keys a finger is on
    pressOf,    \* the press that put each key down last
    presses,    \* how many presses there have been
    queue,      \* events not yet read
    \* PadProbe
    fd,         \* "none", "open"
    keys,       \* self.keys, the keys the probe believes are down
    since,      \* ticks since last_press, at most Cooldown
    hold,       \* ticks since hold_started, at most HoldLimit, or NoHold
    open,       \* open_entry is the last line
    burst,      \* codes seen since the last line was opened
    reported,   \* the lines
    \* ButtonTestScreen
    screen,     \* "off", "on"
    saved,      \* saved_path is set
    file,       \* the lines in BrickButtons.log
    writeFailed,\* the last write, or removal, of the log failed
    leftBy      \* the gesture that left the screen last, or ""

pad == <<down, pressOf, presses>>
probe == <<keys, since, hold, open, burst, reported>>
session == <<screen, fd, saved, file, writeFailed, leftBy>>
vars == <<pad, queue, probe, session>>

Event == [kind : {"down", "repeat", "up", "hat"}, code : Keys, id : Ids]
Entry == [index : Nat, keys : SUBSET Keys, codes : SUBSET Keys, id : Ids]

Init ==
    /\ down = {} /\ pressOf = [k \in Keys |-> 0] /\ presses = 0
    /\ queue = <<>> /\ fd = "none"
    /\ keys = {} /\ since = Cooldown /\ hold = NoHold /\ open = FALSE
    /\ burst = {} /\ reported = <<>>
    /\ screen = "off" /\ saved = FALSE /\ file = <<>>
    /\ writeFailed = FALSE /\ leftBy = ""

-----------------------------------------------------------------------------
(* The pad.  A button is pressed, repeated by the firmware, released; a    *)
(* hat moves.  Events are queued while the device is open.                 *)

Queued(kind, k, id) ==
    /\ Len(queue) < MaxQueue
    /\ queue' = IF fd = "open" THEN Append(queue, [kind |-> kind, code |-> k, id |-> id])
                ELSE queue

Press(k) ==
    /\ k \notin down /\ presses < MaxPresses
    /\ down' = down \cup {k}
    /\ presses' = presses + 1
    /\ pressOf' = [pressOf EXCEPT ![k] = presses + 1]
    /\ Queued("down", k, presses + 1)
    /\ UNCHANGED <<probe, session>>

Repeat(k) ==
    /\ Len(reported) < RepeatLimit /\ k \in down /\ fd = "open"
    /\ Queued("repeat", k, pressOf[k])
    /\ UNCHANGED <<pad, probe, session>>

Release(k) ==
    /\ k \in down
    /\ down' = down \ {k}
    /\ Queued("up", k, pressOf[k])
    /\ UNCHANGED <<pressOf, presses, probe, session>>

Hat(k) ==
    /\ fd = "open" /\ presses < MaxPresses
    /\ presses' = presses + 1
    /\ Queued("hat", k, presses + 1)
    /\ UNCHANGED <<down, pressOf, probe, session>>

-----------------------------------------------------------------------------
(* PadProbe.                                                               *)

\* mutant: MENU is taken for one of the buttons under test
GamepadGesture(ks) == IF ks = {Select, Start} THEN "start_select" ELSE ""

\* _exit_gesture: MENU alone, or exactly START and SELECT
Gesture(ks) ==
    IF ks = {Select, Start} THEN "start_select" ELSE IF ks = {Menu} THEN "menu" ELSE ""

\* _sync_hold: the clock of the gesture starts when its last key goes down
HoldAfter(ks) ==
    IF Gesture(ks) = "" THEN NoHold ELSE IF hold = NoHold THEN 0 ELSE hold

Last(s) == s[Len(s)]
Front(s) == SubSeq(s, 1, Len(s) - 1)

\* mutant: the line dropped for a gesture need not be the one still open
DropAnyExitLine(ks) ==
    IF /\ Gesture(ks) # "" /\ reported # <<>>
       /\ Last(reported).keys # {} /\ Last(reported).keys \subseteq ks \cap ExitKeys
    THEN reported' = Front(reported) /\ open' = FALSE
    ELSE UNCHANGED <<reported, open>>

\* _drop_exit_only_entry, _discard: a line still open that is part of the
\* gesture is dropped
DropExitLine(ks) ==
    IF /\ Gesture(ks) # "" /\ open
       /\ Last(reported).keys # {} /\ Last(reported).keys \subseteq ks \cap ExitKeys
    THEN reported' = Front(reported) /\ open' = FALSE
    ELSE UNCHANGED <<reported, open>>

\* _close_open
Closed == IF open THEN [reported EXCEPT ![Len(reported)].codes = burst] ELSE reported

\* the entry opened by _on_key and _on_hat
Line(ks, id) ==
    /\ reported' = Append(Closed, [index |-> Len(reported) + 1, keys |-> ks,
                                   codes |-> {}, id |-> id])
    /\ open' = TRUE /\ burst' = ks /\ since' = 0

\* the code of a button that is held, or one too soon after the last line
Noise(k) == (k \in keys /\ open) \/ since < Cooldown

KeyDown(e) ==
    LET ks == keys \cup {e.code} IN
    /\ keys' = ks
    /\ hold' = IF e.code \in keys THEN hold ELSE HoldAfter(ks)
    /\ \/ /\ hold' # NoHold             \* a way out is held: nothing is recorded
          /\ IF e.code \in keys THEN UNCHANGED <<reported, open>> ELSE DropExitLine(ks)
          /\ UNCHANGED <<since, burst>>
       \/ /\ hold' = NoHold /\ Noise(e.code)
          /\ burst' = burst \cup {e.code}
          /\ UNCHANGED <<since, open, reported>>
       \/ /\ hold' = NoHold /\ ~Noise(e.code)
          /\ Line({e.code}, e.id)

KeyUp(e) ==
    LET ks == keys \ {e.code} IN
    /\ keys' = ks /\ hold' = HoldAfter(ks)
    /\ DropExitLine(ks)
    /\ UNCHANGED <<since, burst>>

\* _on_hat: only the key cooldown applies
HatMoved(e) ==
    /\ IF since < Cooldown THEN UNCHANGED <<since, open, burst, reported>> ELSE Line({}, e.id)
    /\ UNCHANGED <<keys, hold>>

\* one event of the loop in poll()
ReadEvent ==
    /\ screen = "on" /\ fd = "open" /\ queue # <<>>
    /\ LET e == Head(queue) IN
          \/ e.kind \in {"down", "repeat"} /\ KeyDown(e)
          \/ e.kind = "up" /\ KeyUp(e)
          \/ e.kind = "hat" /\ HatMoved(e)
    /\ queue' = Tail(queue)
    /\ UNCHANGED <<pad, session>>

\* os.read fails, since the device is gone, and with it what was not read; poll()
\* goes on to _close_open
DeviceLost ==
    /\ screen = "on" /\ fd = "open"
    /\ fd' = "none" /\ queue' = <<>>
    /\ reported' = Closed /\ open' = FALSE
    /\ UNCHANGED <<pad, keys, since, hold, burst, screen, saved, file, writeFailed, leftBy>>

\* exit_held
ExitHeld == hold = HoldLimit /\ Gesture(keys) # ""

-----------------------------------------------------------------------------
(* ButtonTestScreen.                                                       *)

\* mutant: a log that was saved once is not saved again
SaveOnce(lines, ok) ==
    IF lines = <<>> \/ saved THEN UNCHANGED <<file, saved, writeFailed>>
    ELSE file' = (IF ok THEN lines ELSE <<>>) /\ saved' = ok /\ writeFailed' = ~ok

\* _save, write_log: opening the file empties it, so a write that fails leaves
\* nothing
Save(lines, ok) ==
    IF lines = <<>> THEN UNCHANGED <<file, saved, writeFailed>>
    ELSE /\ file' = IF ok THEN lines ELSE <<>>
         /\ saved' = (saved \/ ok) /\ writeFailed' = ~ok

\* find_gamepad, and opening what it found
FindGamepad(found) == fd' = IF found THEN "open" ELSE "none"

\* PadProbe.__init__
NewProbe ==
    /\ keys' = {} /\ since' = Cooldown /\ hold' = NoHold /\ open' = FALSE
    /\ burst' = {} /\ reported' = <<>>

\* on_enter, clear_log.  Without a device the screen is shown all the same.
Enter(found, cleared) ==
    /\ screen = "off"
    /\ screen' = "on" /\ queue' = <<>>
    /\ FindGamepad(found) /\ NewProbe
    /\ saved' = (saved /\ ~found)
    /\ file' = IF found /\ cleared THEN <<>> ELSE file
    /\ writeFailed' = ~(found /\ cleared) /\ leftBy' = ""
    /\ UNCHANGED pad

\* the end of poll() and the rest of update(); an event may come after the last
\* read.  Without a device poll() returns at once, and no line is open.
EndFrame(ok, again) ==
    /\ screen = "on"
    /\ reported' = Closed /\ open' = FALSE
    /\ UNCHANGED <<pad, queue, keys, since, hold, burst>>
    /\ \/ /\ ExitHeld               \* _save, then on_exit, which writes again
          /\ Save(Closed, ok \/ (~saved /\ again))   \* if nothing was saved
          /\ screen' = "off" /\ fd' = "none" /\ leftBy' = Gesture(keys)
       \/ /\ ~ExitHeld
          /\ IF Len(Closed) > RecordLimit THEN Save(Closed, ok)
             ELSE UNCHANGED <<file, saved, writeFailed>>
          /\ UNCHANGED <<screen, fd, leftBy>>

\* the app ends under the screen: app.py calls on_exit of the Bluetooth screen
\* only, and what was not saved is lost
AppEnds ==
    /\ screen = "on"
    /\ screen' = "off" /\ fd' = "none" /\ leftBy' = "" /\ saved' = FALSE
    /\ UNCHANGED <<pad, queue, probe, file, writeFailed>>

\* time passes between two frames
Tick ==
    /\ screen = "on"
    /\ since' = IF since < Cooldown THEN since + 1 ELSE since
    /\ hold' = IF hold < HoldLimit THEN hold + 1 ELSE hold
    /\ <<since', hold'>> # <<since, hold>>
    /\ UNCHANGED <<pad, queue, keys, open, burst, reported, session>>

-----------------------------------------------------------------------------
Finger == \E k \in Keys : Press(k) \/ Repeat(k) \/ Release(k) \/ Hat(k)
FrameEnds == \E ok, again \in BOOLEAN : EndFrame(ok, again)
Next ==
    \/ Finger \/ ReadEvent \/ FrameEnds \/ Tick \/ DeviceLost \/ AppEnds
    \/ \E found, cleared \in BOOLEAN : Enter(found, cleared)

Spec == Init /\ [][Next]_vars
\* The engine's loop calls update() every frame, poll() reads sixteen times at
\* most, and time passes.
FairSpec == Spec /\ WF_vars(FrameEnds) /\ WF_vars(Tick)

-----------------------------------------------------------------------------
(* Properties.                                                             *)

TypeOK ==
    /\ down \subseteq Keys /\ keys \subseteq Keys /\ burst \subseteq Keys
    /\ pressOf \in [Keys -> Ids] /\ presses \in Ids
    /\ queue \in Seq(Event) /\ reported \in Seq(Entry) /\ file \in Seq(Entry)
    /\ fd \in {"none", "open"} /\ screen \in {"off", "on"}
    /\ since \in 0..Cooldown /\ hold \in 0..NoHold
    /\ {open, saved, writeFailed} \subseteq BOOLEAN
    /\ leftBy \in {"", "menu", "start_select"}

\* "The log must keep the numbering" (pad_probe.py:344-350): a line that was
\* closed is never changed, renumbered or removed while the screen is shown.
ClosedLines == IF open THEN Front(reported) ELSE reported
LinesAreKept ==
    [][screen = "on" => \A i \in 1..Len(ClosedLines) :
                            i <= Len(reported') /\ reported'[i] = reported[i]]_vars

\* "Each numbered line is one physical press" (pad_probe.py:405): each line
\* stands for another press, in the order they were made.  Not so with a firmware
\* that repeats the code of a held button, since poll() closes the line of each
\* frame (232) and the next repeat opens another.  Not part of a run.
OneLinePerPress ==
    \A i, j \in 1..Len(reported) : i < j => reported[i].id < reported[j].id

\* Leaving by the gesture with no failed write, the file has every line: a
\* frame may have saved an earlier state of the log already.
SavedOnLeave == leftBy # "" /\ ~writeFailed => file = reported

\* The screen's only way out works: MENU alone is not held for ever, whatever
\* happened to the device since.
MenuLeaves == ~<>[](screen = "on" /\ keys = {Menu})

\* "The gesture itself is not recorded as a press" (pad_probe.py:26-27); not so
\* when START and SELECT go down in different frames.  Not part of a run.
ExitIsNotRecorded ==
    leftBy = "start_select" =>
        \A i \in 1..Len(reported) : reported[i].id \notin {pressOf[Start], pressOf[Select]}
=============================================================================
