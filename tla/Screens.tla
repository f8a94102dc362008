------------------------------ MODULE Screens -------------------------------
(***************************************************************************)
(* What is on the screen: the engine's stack of screens and its one modal  *)
(* (engine.py), the handlers of the screens and modals that change them,   *)
(* and the threads that do so as well: a scan that fills the home screen's *)
(* list, an update check that opens the update popup, an install that ends *)
(* the app, a registration that pops a screen one second after it said     *)
(* "success".                                                              *)
(*                                                                         *)
(* Abstracted: hosts are counted, not named; which of them is paired is    *)
(* Pairing's; which row of a menu or of the settings is selected (any may  *)
(* be); what the screens draw; the Bluetooth session and the button test,  *)
(* which have modules of their own.                                        *)
(***************************************************************************)
EXTENDS Naturals, Sequences, FiniteSets

CONSTANTS
    MaxHosts,    \* bound: consoles that answer
    MaxEdges,    \* bound: presses within one frame
    MaxChecks    \* bound: update checks at a time

ASSUME ScreensAssumption ==
    MaxHosts \in Nat /\ MaxEdges \in Nat /\ MaxChecks \in Nat \ {0}

Keys == {"a", "b", "x", "y", "up", "down", "left", "right", "quit"}
Items == {"scan", "bluetooth", "guide", "settings", "update", "info", "exit"}  \* HomeScreen.ITEMS
Rows == {"value", "clear_logs", "back"}                              \* SettingsScreen.rows
ScreenNames == {"home", "guide", "info", "settings", "pair", "bluetooth", "button_test"}
Modals == {"none", "update", "info", "confirm"}
Reasons == {"running", "user_exit", "quit_input", "sdl_quit", "stream_launch",
            "update_restart", "exception"}

VARIABLES
    pc,         \* the step of the loop: "intro", "poll", "modal", "screen", "update", "render", "end"
    running, reason,  \* Engine.running, exit_reason
    stack,      \* screen_stack
    modal,      \* active_modal
    given,      \* the modal that was active when run() looked, and gets the keys
    busy,       \* UpdateModal.busy
    hosts,      \* how many hosts it lists
    hostSel,    \* host_selected
    scan,       \* "no", "searching", "listed": the list is set, the flag not yet cleared
    listening,  \* a discovery worker outlives its scan, and the list it fills is the one shown
    session,    \* a Bluetooth session runs
    checks, installs,  \* threads of the updater
    pairer,     \* the registration thread: "none", "registering", "success"
    pairing,    \* PairScreen.pairing
    left,       \* PairScreen was left since that thread started
    latePop     \* the thread popped a screen although PairScreen was left

quitVars == <<running, reason>>
loopVars == <<pc, quitVars, given>>
homeVars == <<hosts, hostSel, scan, listening>>
pairVars == <<pairer, pairing, left, latePop>>
otherVars == <<session, checks, installs>>
vars == <<loopVars, stack, modal, busy, homeVars, pairVars, otherVars>>

\* app.py pushes the home screen, whose on_enter checks for updates if
\* auto_update is set, and runs the engine
Init ==
    /\ pc = "intro" /\ running = TRUE /\ reason = "running" 
    /\ stack = <<"home">> /\ modal = "none" /\ given = "none" /\ busy = FALSE
    /\ hosts = 0 /\ hostSel = 0 /\ scan = "no"
    /\ listening = FALSE
    /\ session = FALSE
    /\ checks \in {0, 1} /\ installs = 0
    /\ pairer = "none" /\ pairing = FALSE /\ left = FALSE /\ latePop = FALSE

Alive == pc # "end"
Top == stack[Len(stack)]
Popped == SubSeq(stack, 1, Len(stack) - 1)

\* the edges of a frame: feed_event collects the keys that went down since the
\* last poll
Inputs == {keys \in SUBSET Keys : Cardinality(keys) <= MaxEdges}

\* the first key of an if-chain that was pressed
Pressed(inputs, chain) ==
    IF \E i \in 1..Len(chain) : chain[i] \in inputs
    THEN chain[CHOOSE i \in 1..Len(chain) : /\ chain[i] \in inputs
                                            /\ \A j \in 1..i - 1 : chain[j] \notin inputs]
    ELSE "none"

\* Engine.quit: the frame is finished, and the loop then ends
Quit(why) == running' = FALSE /\ reason' = why

\* an exception leaves run() at once
Raise == pc' = "end" /\ running' = FALSE /\ reason' = "exception"

-----------------------------------------------------------------------------
(* The engine.                                                             *)

\* push_screen and on_enter.  PairScreen.on_enter clears the flag of a thread
\* that may still run.
Push(s) ==
    /\ stack' = Append(stack, s)
    /\ pairing' = (pairing /\ s # "pair")
    /\ left' = (left \/ (s = "pair" /\ pairer # "none"))

\* pop_screen and on_exit; with an empty stack nothing happens
Pop ==
    /\ stack' = IF stack = <<>> THEN stack ELSE Popped
    /\ session' = (session /\ ~(stack # <<>> /\ Top = "bluetooth"))
    /\ left' = (left \/ (stack # <<>> /\ Top = "pair" /\ pairer # "none"))

\* play_intro: any key skips it
IntroEnds ==
    /\ pc = "intro"
    /\ pc' = "poll"
    /\ UNCHANGED <<quitVars, given, stack, modal, busy, homeVars, pairVars, otherVars>>

SdlQuit ==
    /\ pc \in {"intro", "poll"}
    /\ Quit("sdl_quit") /\ pc' = "end"
    /\ UNCHANGED <<given, stack, modal, busy, homeVars, pairVars, otherVars>>

\* the top of the loop: the modal has the input, or else the screen on top
Poll ==
    /\ pc = "poll" /\ running
    /\ pc' = IF modal # "none" THEN "modal" ELSE IF stack # <<>> THEN "screen" ELSE "render"
    /\ given' = modal
    /\ UNCHANGED <<quitVars, stack, modal, busy, homeVars, pairVars, otherVars>>

LoopEnds ==
    /\ pc = "poll" /\ ~running
    /\ pc' = "end"
    /\ UNCHANGED <<quitVars, given, stack, modal, busy, homeVars, pairVars, otherVars>>

\* current_screen is read again for each call: without a screen it is None
NoScreen ==
    /\ pc \in {"screen", "update"} /\ stack = <<>>
    /\ Raise
    /\ UNCHANGED <<given, stack, modal, busy, homeVars, pairVars, otherVars>>

\* current_screen.update: the button test leaves by its gesture (PadProbe)
Update ==
    /\ pc = "update" /\ stack # <<>>
    /\ pc' = "render"
    /\ \/ UNCHANGED <<stack, session, left>>
       \/ Top = "button_test" /\ Pop
    /\ UNCHANGED <<quitVars, given, modal, busy, homeVars, pairer, pairing, latePop,
                   checks, installs>>

\* the frame is drawn; the footer of the home screen reads the selected host
Render ==
    /\ pc = "render"
    /\ IF stack # <<>> /\ Top = "home" /\ hosts > 0 /\ hostSel >= hosts
       THEN Raise
       ELSE pc' = "poll" /\ UNCHANGED quitVars
    /\ UNCHANGED <<given, stack, modal, busy, homeVars, pairVars, otherVars>>

-----------------------------------------------------------------------------
(* The modals.                                                             *)

\* BaseModal.close: the engine forgets the modal only if it is still this one
Closed == IF modal = given THEN "none" ELSE modal

\* ConfirmModal: closes, then calls back; _clear_logs opens the info modal
HandleConfirm(inputs) ==
    /\ modal' = CASE Pressed(inputs, <<"a", "b", "quit">>) = "a" -> "info"
                  [] Pressed(inputs, <<"a", "b", "quit">>) \in {"b", "quit"} -> Closed
                  [] OTHER -> modal
    /\ UNCHANGED <<busy, installs>>

HandleInfo(inputs) ==
    /\ modal' = IF inputs \cap {"a", "b", "quit"} # {} THEN Closed ELSE modal
    /\ UNCHANGED <<busy, installs>>

\* UpdateModal, whose three choices are OtaUpdate's: while busy it takes nothing
HandleUpdate(inputs) ==
    LET k == Pressed(inputs, <<"left", "right", "up", "down", "a", "b", "quit">>) IN
    \/ /\ ~busy /\ k = "a" /\ installs < MaxChecks
       /\ busy' = TRUE /\ installs' = installs + 1 /\ UNCHANGED modal
    \/ ~busy /\ k \in {"a", "b", "quit"} /\ modal' = Closed /\ UNCHANGED <<busy, installs>>
    \/ (busy \/ k \notin {"a", "b", "quit"}) /\ UNCHANGED <<modal, busy, installs>>

\* the modal that run() found active gets the keys, although a thread may have
\* put the popup in its place since
HandleModal(inputs) ==
    /\ pc = "modal"
    /\ pc' = "render"
    /\ \/ given = "confirm" /\ HandleConfirm(inputs)
       \/ given = "info" /\ HandleInfo(inputs)
       \/ given = "update" /\ HandleUpdate(inputs)
    /\ UNCHANGED <<quitVars, given, stack, homeVars, pairVars, session, checks>>

-----------------------------------------------------------------------------
(* The screens.                                                            *)

OnTop(s) == pc = "screen" /\ stack # <<>> /\ Top = s

\* mutant: the list is left and the selection is not
ListLeft == hosts' = 0 /\ UNCHANGED hostSel

\* B in the list of hosts
LeaveList == hosts' = 0 /\ hostSel' = 0

\* HomeScreen.handle_input with hosts listed; _start_stream either ends the
\* app or says why not
HandleList(inputs) ==
    /\ OnTop("home") /\ hosts > 0
    /\ LET k == Pressed(inputs, <<"down", "up", "y", "x", "a", "b", "quit">>) IN
       \/ /\ k \in {"down", "up"}
          /\ hostSel' = (IF k = "down" THEN hostSel + 1 ELSE hostSel + hosts - 1) % hosts
          /\ pc' = "update"
          /\ UNCHANGED <<quitVars, stack, pairing, left, hosts, listening>>
       \/ /\ k \in {"y", "x", "a"} /\ hostSel >= hosts    \* IndexError
          /\ Raise
          /\ UNCHANGED <<stack, pairing, left, hosts, hostSel, listening>>
       \/ /\ k \in {"y", "x", "a"} /\ hostSel < hosts     \* _open_pair
          /\ Push("pair") /\ pc' = "update"
          /\ UNCHANGED <<quitVars, hosts, hostSel, listening>>
       \/ /\ k = "a" /\ hostSel < hosts                   \* _start_stream
          /\ Quit("stream_launch") \/ UNCHANGED quitVars
          /\ pc' = "update"
          /\ UNCHANGED <<stack, pairing, left, hosts, hostSel, listening>>
       \/ /\ k = "b" /\ LeaveList /\ listening' = FALSE
          /\ pc' = "update"
          /\ UNCHANGED <<quitVars, stack, pairing, left>>
       \/ /\ k = "quit" /\ Quit("quit_input") /\ pc' = "update"
          /\ UNCHANGED <<stack, pairing, left, hosts, hostSel, listening>>
       \/ /\ k = "none" /\ pc' = "update"
          /\ UNCHANGED <<quitVars, stack, pairing, left, hosts, hostSel, listening>>
    /\ UNCHANGED <<given, modal, busy, scan, pairer, latePop, otherVars>>

\* _activate: one scan at a time; the update check is a thread
Activate(item) ==
    \/ /\ item = "scan"
       /\ scan' = IF scan = "no" THEN "searching" ELSE scan
       /\ UNCHANGED <<quitVars, stack, pairing, left, checks>>
    \/ /\ item \in ScreenNames
       /\ Push(item)
       /\ UNCHANGED <<quitVars, scan, checks>>
    \/ /\ item = "update" /\ checks < MaxChecks
       /\ checks' = checks + 1
       /\ UNCHANGED <<quitVars, stack, pairing, left, scan>>
    \/ /\ item = "exit" /\ Quit("user_exit")
       /\ UNCHANGED <<stack, pairing, left, scan, checks>>

\* HomeScreen.handle_input in the menu
HandleMenu(inputs) ==
    /\ OnTop("home") /\ hosts = 0
    /\ LET k == Pressed(inputs, <<"up", "down", "a", "quit">>) IN
       \/ /\ k \in {"up", "down", "none"}
          /\ UNCHANGED <<quitVars, stack, pairing, left, scan, checks>>
       \/ k = "a" /\ \E item \in Items : Activate(item)
       \/ /\ k = "quit" /\ Quit("quit_input")
          /\ UNCHANGED <<stack, pairing, left, scan, checks>>
    /\ pc' = "update"
    /\ UNCHANGED <<given, modal, busy, hosts, hostSel, listening, pairer, latePop,
                   session, installs>>

\* mutant: B pops, and the back row pops again in the same frame
BackTwice(inputs) ==
    /\ stack' = SubSeq(stack, 1, Len(stack) - (IF "b" \in inputs /\ "a" \in inputs THEN 2 ELSE 1))
    /\ UNCHANGED <<session, left>>

Back(inputs) == Pop

\* SettingsScreen.handle_input: B or quit leave before A can change a value
HandleSettings(inputs) ==
    /\ OnTop("settings")
    /\ LET k == Pressed(inputs, <<"up", "down", "b", "quit", "left", "right", "a">>) IN
       \E row \in Rows :
          \/ /\ k \in {"b", "quit"} \/ (row = "back" /\ k \in {"left", "right", "a"})
             /\ Back(inputs) /\ UNCHANGED modal
          \/ /\ row = "clear_logs" /\ k \in {"left", "right", "a"} /\ "a" \in inputs
             /\ modal' \in {"confirm", "info"}        \* "info": there is no log
             /\ UNCHANGED <<stack, session, left>>
          \/ /\ row = "value" \/ k \in {"up", "down", "none"} \/ (row = "clear_logs" /\ "a" \notin inputs)
             /\ k \notin {"b", "quit"}
             /\ UNCHANGED <<stack, session, left, modal>>
    /\ pc' = "update"
    /\ UNCHANGED <<quitVars, given, busy, homeVars, pairer, pairing, latePop, checks, installs>>

\* GuideScreen and InfoScreen
HandleReading(inputs) ==
    /\ OnTop("guide") \/ OnTop("info")
    /\ IF inputs \cap {"b", "quit"} # {} THEN Pop ELSE UNCHANGED <<stack, session, left>>
    /\ pc' = "update"
    /\ UNCHANGED <<quitVars, given, modal, busy, homeVars, pairer, pairing, latePop, checks, installs>>

\* PairScreen: B leaves at any time; A starts the thread, if none runs for this
\* entry (and, a bound of this module, none of an earlier one)
HandlePair(inputs) ==
    /\ OnTop("pair")
    /\ LET k == Pressed(inputs, <<"b", "quit", "up", "down", "left", "right", "a">>) IN
       \/ k \in {"b", "quit"} /\ Pop /\ UNCHANGED <<pairer, pairing>>
       \/ /\ k = "a" /\ ~pairing /\ pairer = "none"
          /\ pairing' = TRUE /\ pairer' = "registering" /\ left' = FALSE
          /\ UNCHANGED <<stack, session>>
       \/ k \notin {"b", "quit"} /\ UNCHANGED <<stack, session, left, pairer, pairing>>
    /\ pc' = "update"
    /\ UNCHANGED <<quitVars, given, modal, busy, homeVars, latePop, checks, installs>>

\* BluetoothScreen: while a session runs B is a button of the gamepad
HandleBluetooth(inputs) ==
    /\ OnTop("bluetooth")
    /\ LET k == Pressed(inputs, <<"b", "quit", "x", "a", "right", "left">>) IN
       \/ /\ ~session /\ k \in {"b", "quit"}
          /\ Pop /\ UNCHANGED <<pairing>>
       \/ /\ session /\ k = "quit"                     \* stop; the status follows
          /\ session' \in BOOLEAN /\ UNCHANGED <<stack, pairing, left>>
       \/ /\ ~session /\ k = "x" /\ Push("button_test") /\ UNCHANGED session
       \/ /\ ~session /\ k = "a"
          /\ session' \in BOOLEAN /\ UNCHANGED <<stack, pairing, left>>
       \/ /\ (session /\ k # "quit") \/ k \in {"left", "right", "none"}
          /\ UNCHANGED <<stack, session, pairing, left>>
    /\ pc' = "update"
    /\ UNCHANGED <<quitVars, given, modal, busy, homeVars, pairer, latePop, checks, installs>>

\* the session ends by itself, or by its gesture (BtSession)
SessionEnds ==
    /\ Alive /\ session /\ session' = FALSE
    /\ UNCHANGED <<loopVars, stack, modal, busy, homeVars, pairVars,
                   checks, installs>>

\* ButtonTestScreen takes no action from the keys
HandleButtonTest ==
    /\ OnTop("button_test")
    /\ pc' = "update"
    /\ UNCHANGED <<quitVars, given, stack, modal, busy, homeVars, pairVars, otherVars>>

-----------------------------------------------------------------------------
(* The threads.                                                            *)

\* _do_scan: discovery_broadcast returns what its workers have found, which
\* may still be listening on the same list
ScanFound(found) ==
    /\ Alive /\ scan = "searching"
    /\ hosts' = found /\ scan' = "listed"
    /\ listening' \in BOOLEAN
    /\ UNCHANGED <<loopVars, stack, modal, busy, hostSel, pairVars, otherVars>>

ScanDone ==
    /\ Alive /\ scan = "listed" /\ scan' = "no"
    /\ UNCHANGED <<loopVars, stack, modal, busy, hosts, hostSel, listening,
                   pairVars, otherVars>>

\* a worker of discovery_broadcast appends an answer after the call returned
LateAnswer ==
    /\ Alive /\ listening /\ hosts < MaxHosts
    /\ hosts' = hosts + 1
    /\ UNCHANGED <<loopVars, stack, modal, busy, hostSel, scan, listening,
                   pairVars, otherVars>>

\* _check_pending_update and _force_update_check: the popup takes the place of
\* any modal
CheckEnds ==
    /\ Alive /\ checks > 0
    /\ checks' = checks - 1
    /\ \/ modal' = "update" /\ busy' = FALSE
       \/ UNCHANGED <<modal, busy>>
    /\ UNCHANGED <<loopVars, stack, homeVars, pairVars, session, installs>>

\* UpdateModal._run_install: a restart, or the popup says it failed
InstallEnds ==
    /\ Alive /\ installs > 0
    /\ installs' = installs - 1 /\ busy' = FALSE
    /\ Quit("update_restart") \/ UNCHANGED quitVars
    /\ UNCHANGED <<pc, given, stack, modal, homeVars, pairVars, session, checks>>

\* PairScreen._do_pair: it says how it went, and after a success waits a second
PairAnswers ==
    /\ Alive /\ pairer = "registering"
    /\ \/ pairer' = "success" /\ UNCHANGED <<pairing, left>>
       \/ pairer' = "none" /\ pairing' = FALSE /\ left' = FALSE
    /\ UNCHANGED <<loopVars, stack, modal, busy, homeVars, latePop, otherVars>>

\* and pops whatever screen is on top then
PairPops ==
    /\ Alive /\ pairer = "success"
    /\ stack' = IF stack = <<>> THEN stack ELSE Popped
    /\ session' = (session /\ ~(stack # <<>> /\ Top = "bluetooth"))
    /\ pairer' = "none" /\ pairing' = FALSE /\ left' = FALSE
    /\ latePop' = (latePop \/ left)
    /\ UNCHANGED <<loopVars, modal, busy, homeVars, checks, installs>>

-----------------------------------------------------------------------------
Loop == IntroEnds \/ Poll \/ LoopEnds \/ NoScreen \/ Update \/ Render
Handlers(inputs) ==
    \/ HandleModal(inputs) \/ HandleList(inputs) \/ HandleMenu(inputs) \/ HandleSettings(inputs)
    \/ HandleReading(inputs) \/ HandlePair(inputs) \/ HandleBluetooth(inputs)
Threads ==
    \/ \E n \in 0..MaxHosts : ScanFound(n)
    \/ ScanDone \/ LateAnswer \/ CheckEnds \/ InstallEnds \/ PairAnswers \/ PairPops \/ SessionEnds
Next == Loop \/ HandleButtonTest \/ Threads \/ SdlQuit \/ \E inputs \in Inputs : Handlers(inputs)

Spec == Init /\ [][Next]_vars

-----------------------------------------------------------------------------
(* Properties.                                                             *)

TypeOK ==
    /\ pc \in {"intro", "poll", "modal", "screen", "update", "render", "end"}
    /\ running \in BOOLEAN /\ reason \in Reasons
    /\ stack \in Seq(ScreenNames) /\ modal \in Modals /\ given \in Modals /\ busy \in BOOLEAN
    /\ hosts \in 0..MaxHosts /\ hostSel \in Nat /\ scan \in {"no", "searching", "listed"}
    /\ listening \in BOOLEAN /\ session \in BOOLEAN
    /\ checks \in 0..MaxChecks /\ installs \in 0..MaxChecks
    /\ pairer \in {"none", "registering", "success"}
    /\ pairing \in BOOLEAN /\ left \in BOOLEAN /\ latePop \in BOOLEAN

\* The selection is a host of the list, or back at its start
Selected == hostSel = 0 \/ hostSel < hosts

\* The selection is for a list that other threads replace and extend, and reading
\* it out of range ends the app (home.py:81-88, 168-192).  One thing only can take
\* the selected host away: a scan that ends with fewer hosts than the list has by
\* then from late answers to the scan before (home.py:99-106, chiaki.py:586-602).
\* No key, no late answer and no scan from the menu does.
SelectionIsTaken ==
    [][Selected /\ ~Selected' =>
          scan = "searching" /\ scan' = "listed" /\ listening /\ hosts' < hosts]_vars

\* The footer and the keys index the list with the selection whenever there is a
\* list (home.py:81-83, 168-178).  Violated: that one case is an IndexError.
SelectedExists == hosts > 0 => hostSel < hosts

\* The home screen stays under all others: every way out of a screen pops that
\* screen and no other.  The exception is the registration's pop when the user
\* has left its screen within the second after "success".
HomeIsBottom == ~latePop => stack # <<>> /\ stack[1] = "home"

\* "After pairing, scan again, choose the PS4 and press A" (i18n.py:121): there
\* is always a screen to do it on.
HomeStays == Alive => stack # <<>> /\ stack[1] = "home"
=============================================================================
