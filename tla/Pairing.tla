------------------------------ MODULE Pairing -------------------------------
(***************************************************************************)
(* Pairing a console and using what was stored: PairScreen's registration  *)
(* thread (pair.py), the settings in memory and in settings.json           *)
(* (state.py), paired_hosts.json, and the credentials a stream starts with *)
(* (chiaki.py).  The screen can be left and entered again while the thread *)
(* runs; a save or a read can fail; the app can end at any step.           *)
(*                                                                         *)
(* Abstracted: a registration answers with the two keys and the console's  *)
(* target, here one key that no other registration gets; the cipher and    *)
(* the wire format; the PIN, eight digits when A is pressed; texts.  The   *)
(* list of paired_hosts.json has at most one entry of a console, since it  *)
(* is only ever written with the older one filtered out, and is read by    *)
(* address: here a function of the consoles.  The PS5 is switched off in   *)
(* this code (PS5_ENABLED).  Whether the pop after a success finds its own *)
(* screen on top is the question of Screens.                               *)
(***************************************************************************)
EXTENDS Naturals

CONSTANTS
    Consoles,    \* their addresses
    Targets,     \* protocol targets by firmware, host.target
    Firmware,    \* console: its target at first
    NoHost,
    Threads,     \* bound: registration threads at a time
    MaxRegs,     \* bound: registrations a console answers
    MaxFaults    \* bound: writes and reads that fail

ASSUME PairingAssumption ==
    /\ NoHost \notin Consoles /\ Targets \subseteq Nat \ {0} /\ Firmware \in [Consoles -> Targets]
    /\ MaxRegs \in Nat /\ MaxFaults \in Nat

VARIABLES
    up,         \* the app runs
    screen,     \* PairScreen.host, also after the screen was left
    shown,      \* PairScreen is on the stack
    pairing,    \* PairScreen.pairing
    pc,         \* thread: its step of _do_pair
    asked,      \* thread: the console it registers with
    info,       \* thread: the answer, a key and a target
    paired,     \* thread: the list it is about to write
    mem,        \* state.host_addr, host_target, regist_key and rp_key
    settings,   \* the same in settings.json
    hosts,      \* paired_hosts.json: console: the entry with its address
    firmware,   \* the consoles: their target, as a scan shows it
    session,    \* the session file of a stream: address, key, target
    issued,     \* keys given out
    faults,
    done,       \* console: what the last reported success obtained; given up where
                \* the code is known not to keep it: for all when the screen is entered
                \* over a running thread, for the others when the list is lost
    overlap     \* when the screen was last entered, a thread of an earlier visit ran

screenVars == <<screen, shown, pairing>>
threadVars == <<pc, asked, info, paired>>
storeVars == <<mem, settings, hosts>>
worldVars == <<firmware, session, issued, faults>>
ghostVars == <<done, overlap>>
vars == <<up, screenVars, threadVars, storeVars, worldVars, ghostVars>>

NoKey == 0
NoInfo == [key |-> NoKey, target |-> 0]
Blank == [addr |-> NoHost, key |-> NoKey, target |-> 0]
NoEntries == [c \in Consoles |-> NoInfo]

Init ==
    /\ up = TRUE /\ screen = NoHost /\ shown = FALSE /\ pairing = FALSE
    /\ pc = [t \in Threads |-> "idle"] /\ asked = [t \in Threads |-> NoHost]
    /\ info = [t \in Threads |-> NoInfo] /\ paired = [t \in Threads |-> NoEntries]
    /\ mem = Blank /\ settings = Blank /\ hosts = NoEntries
    /\ firmware = Firmware /\ session = Blank /\ issued = 0 /\ faults = 0
    /\ done = [c \in Consoles |-> NoInfo] /\ overlap = FALSE

Fault == faults < MaxFaults /\ faults' = faults + 1

-----------------------------------------------------------------------------
(* What is stored.                                                         *)

\* _paired_credentials: the entry of the list it read, else what the state has
Credentials(list, c) ==
    IF list[c].key # NoKey THEN list[c]
    ELSE IF mem.addr = c THEN [key |-> mem.key, target |-> mem.target] ELSE NoInfo

\* HomeScreen._is_paired
IsPaired(list, c) == Credentials(list, c).key # NoKey

\* the target of a host in the home screen's list: that of the scan that found it
Scanned(c) == {Firmware[c], firmware[c]}

\* mutant: an older entry of the console stays, before the new one
AddedLast(list, c, new) == IF list[c].key = NoKey THEN [list EXCEPT ![c] = new] ELSE list

\* the list without the console's entry, and the new one
Replaced(list, c, new) == [list EXCEPT ![c] = new]

-----------------------------------------------------------------------------
(* The user.                                                               *)

\* HomeScreen._open_pair and PairScreen.on_enter
OpenPair(c) ==
    /\ up /\ ~shown
    /\ screen' = c /\ shown' = TRUE /\ pairing' = FALSE
    /\ overlap' = \E t \in Threads : pc[t] # "idle"
    /\ done' = IF overlap' THEN [console \in Consoles |-> NoInfo] ELSE done
    /\ UNCHANGED <<up, threadVars, storeVars, worldVars>>

\* B, at any time: the thread goes on
Back ==
    /\ up /\ shown /\ shown' = FALSE
    /\ UNCHANGED <<up, screen, pairing, threadVars, storeVars, worldVars, ghostVars>>

\* A: _start_pair
StartPair(t) ==
    /\ up /\ shown /\ ~pairing /\ pc[t] = "idle"
    /\ pairing' = TRUE
    /\ pc' = [pc EXCEPT ![t] = "search"]
    /\ UNCHANGED <<up, screen, shown, asked, info, paired, storeVars, worldVars, ghostVars>>

\* any other save_settings: of the settings screen, the update popup, the
\* Bluetooth profile
SaveElsewhere ==
    /\ up /\ settings' = mem
    /\ UNCHANGED <<up, screenVars, threadVars, mem, hosts, worldVars, ghostVars>>

\* the process ends, and with it its threads, which are daemons
Gone ==
    /\ up' = FALSE
    /\ screen' = NoHost /\ shown' = FALSE /\ pairing' = FALSE /\ mem' = Blank
    /\ pc' = [t \in Threads |-> "idle"] /\ asked' = [t \in Threads |-> NoHost]
    /\ info' = [t \in Threads |-> NoInfo] /\ paired' = [t \in Threads |-> NoEntries]
    /\ overlap' = FALSE

\* prepare_stream_launch: refused when the console was found with another firmware
\* than it was paired with; a list that cannot be read is taken for an empty one
StreamWith(list, c) ==
    /\ IsPaired(list, c) /\ Credentials(list, c).target \in Scanned(c)
    /\ session' = [addr |-> c, key |-> Credentials(list, c).key,
                   target |-> Credentials(list, c).target]

StartStream(c) ==
    /\ up /\ ~shown
    /\ \/ StreamWith(hosts, c) /\ UNCHANGED faults
       \/ Fault /\ StreamWith(NoEntries, c)
    /\ Gone
    /\ UNCHANGED <<settings, hosts, firmware, issued, done>>

-----------------------------------------------------------------------------
(* The thread.                                                             *)

Goes(t, step) == pc' = [pc EXCEPT ![t] = step]

\* the thread ends, and its variables with it
Ended(t) ==
    /\ Goes(t, "idle")
    /\ asked' = [asked EXCEPT ![t] = NoHost]
    /\ info' = [info EXCEPT ![t] = NoInfo]
    /\ paired' = [paired EXCEPT ![t] = NoEntries]

\* mutant: the screen is not told
FailSilently(t) == Ended(t) /\ UNCHANGED pairing

Fail(t) == Ended(t) /\ pairing' = FALSE

\* register: the account is decoded, and the console answers the search, or not
Search(t) ==
    /\ pc[t] = "search"
    /\ \/ /\ Goes(t, "request") /\ asked' = [asked EXCEPT ![t] = screen]
          /\ UNCHANGED <<info, paired, pairing>>
       \/ Fail(t)
    /\ UNCHANGED <<up, screen, shown, storeVars, worldVars, ghostVars>>

\* regist_with_pin: a new key, and the target of the host it was called with
Registered(t) == [key : {issued + 1}, target : Scanned(asked[t])]

\* the POST and its answer: _recv_http, _parse_result
Request(t) ==
    /\ pc[t] = "request"
    /\ \/ /\ issued < MaxRegs /\ issued' = issued + 1
          /\ \E answer \in Registered(t) : info' = [info EXCEPT ![t] = answer]
          /\ Goes(t, "addr") /\ UNCHANGED <<asked, paired, pairing>>
       \/ Fail(t) /\ UNCHANGED issued
    /\ UNCHANGED <<up, screen, shown, storeVars, firmware, session, faults, ghostVars>>

\* _do_pair, after the answer: the address is that of the screen's host now
SetAddr(t) ==
    /\ pc[t] = "addr" /\ Goes(t, "keys")
    /\ mem' = [mem EXCEPT !.addr = screen, !.target = info[t].target]
    /\ UNCHANGED <<up, screenVars, asked, info, paired, settings, hosts, worldVars, ghostVars>>

SetKeys(t) ==
    /\ pc[t] = "keys" /\ Goes(t, "save")
    /\ mem' = [mem EXCEPT !.key = info[t].key]
    /\ UNCHANGED <<up, screenVars, asked, info, paired, settings, hosts, worldVars, ghostVars>>

Save(t) ==
    /\ pc[t] = "save"
    /\ \/ /\ Goes(t, "list") /\ settings' = mem
          /\ UNCHANGED <<asked, info, paired, pairing, faults>>
       \/ Fault /\ Fail(t) /\ UNCHANGED settings
    /\ UNCHANGED <<up, screen, shown, mem, hosts, firmware, session, issued, ghostVars>>

\* the list is read; one that cannot be is taken for an empty one, and what it
\* said of the other consoles is lost
ReadList(t) ==
    /\ pc[t] = "list" /\ Goes(t, "replace")
    /\ LET new == [key |-> mem.key, target |-> info[t].target] IN
       \/ /\ paired' = [paired EXCEPT ![t] = Replaced(hosts, screen, new)]
          /\ UNCHANGED <<faults, done>>
       \/ /\ Fault /\ paired' = [paired EXCEPT ![t] = Replaced(NoEntries, screen, new)]
          /\ done' = [c \in Consoles |-> IF c = screen THEN done[c] ELSE NoInfo]
    /\ UNCHANGED <<up, screenVars, asked, info, storeVars, firmware, session, issued, overlap>>

\* the new list takes the place of the old one, and the screen says "success"
ReplaceList(t) ==
    /\ pc[t] = "replace"
    /\ \/ /\ Goes(t, "success") /\ hosts' = paired[t]
          /\ done' = IF overlap THEN done ELSE [done EXCEPT ![screen] = info[t]]
          /\ UNCHANGED <<asked, info, paired, pairing, faults>>
       \/ Fault /\ Fail(t) /\ UNCHANGED <<hosts, done>>
    /\ UNCHANGED <<up, screen, shown, mem, settings, firmware, session, issued, overlap>>

\* a second later
PopScreen(t) ==
    /\ pc[t] = "success"
    /\ Ended(t) /\ shown' = FALSE /\ pairing' = FALSE
    /\ UNCHANGED <<up, screen, storeVars, worldVars, ghostVars>>

Thread(t) ==
    \/ Search(t) \/ Request(t) \/ SetAddr(t) \/ SetKeys(t) \/ Save(t)
    \/ ReadList(t) \/ ReplaceList(t) \/ PopScreen(t)

-----------------------------------------------------------------------------
(* The app and the consoles.                                               *)

\* the app ends, at any step
Ends ==
    /\ up /\ Gone
    /\ UNCHANGED <<settings, hosts, worldVars, done>>

\* state._load: settings that cannot be read are taken for the defaults
Starts ==
    /\ ~up /\ up' = TRUE
    /\ \/ mem' = settings /\ UNCHANGED faults
       \/ Fault /\ mem' = Blank
    /\ session' = Blank
    /\ UNCHANGED <<screenVars, threadVars, settings, hosts, firmware, issued, ghostVars>>

\* the console is updated; a bound of this module, one console once
Upgraded(c) ==
    /\ firmware = Firmware
    /\ \E target \in Targets :
          firmware[c] < target /\ firmware' = [firmware EXCEPT ![c] = target]
    /\ UNCHANGED <<up, screenVars, threadVars, storeVars, session, issued, faults, ghostVars>>

-----------------------------------------------------------------------------
Next ==
    \/ \E c \in Consoles : OpenPair(c) \/ StartStream(c) \/ Upgraded(c)
    \/ Back \/ SaveElsewhere \/ Ends \/ Starts
    \/ \E t \in Threads : StartPair(t) \/ Thread(t)

Spec == Init /\ [][Next]_vars

\* a thread runs as long as the app does
FairSpec == Spec /\ \A t \in Threads : WF_vars(Thread(t))

-----------------------------------------------------------------------------
(* Properties.                                                             *)

Keys == [key : 0..MaxRegs, target : Targets \cup {0}]
StoredKeys == [addr : Consoles \cup {NoHost}, key : 0..MaxRegs, target : Targets \cup {0}]

TypeOK ==
    /\ {up, shown, pairing, overlap} \subseteq BOOLEAN /\ screen \in Consoles \cup {NoHost}
    /\ pc \in [Threads -> {"idle", "search", "request", "addr", "keys", "save", "list",
                           "replace", "success"}]
    /\ asked \in [Threads -> Consoles \cup {NoHost}]
    /\ info \in [Threads -> Keys] /\ paired \in [Threads -> [Consoles -> Keys]]
    /\ {mem, settings, session} \subseteq StoredKeys
    /\ hosts \in [Consoles -> Keys] /\ done \in [Consoles -> Keys]
    /\ firmware \in [Consoles -> Targets] /\ issued \in 0..MaxRegs /\ faults \in 0..MaxFaults

\* Once "success" was shown for a console, a stream to it starts with the key
\* and the target of that registration, through failed attempts after it,
\* pairings of other consoles, lost settings and restarts (pair.py:187-228,
\* chiaki.py:101-153).  If the list cannot be read when the stream is prepared, it
\* starts with no older key.  The claim is given up (done) for the other consoles
\* when a thread cannot read the list, and for all when the screen is entered
\* while a thread runs.
ReportedKeyIsUsed ==
    [][\A c \in Consoles :
          session' # session /\ session'.addr = c /\ done[c] # NoInfo =>
             \/ session'.key = done[c].key /\ session'.target = done[c].target
             \/ faults' > faults /\ session'.key >= done[c].key]_vars

\* A stream starts with a key whose pairing was reported.  Not so: a list that
\* cannot be read is passed over in silence, and the state may have the key of a
\* registration that never got as far (pair.py:196-216, chiaki.py:111-122).
StreamKeyIsReported ==
    session.addr \in Consoles /\ done[session.addr] # NoInfo =>
        session.key = done[session.addr].key

\* A pairing comes to an end, and A can start another: every way out of the
\* thread clears the flag (pair.py:181-242).
PairingEnds == pairing ~> ~pairing

\* The entry that a thread is about to write under the screen's console is what
\* that console answered.  Not so: the thread reads the screen's host again after
\* the registration (pair.py:189, 205-207).
KeyOwner ==
    \A t \in Threads : pc[t] = "replace" => asked[t] = screen /\ paired[t][screen] = info[t]

\* What settings.json has for a console is not another one's key.  Not so: the
\* address is stored before the keys (pair.py:189-193), and any save or end of the
\* app may come between.
StateOwner ==
    settings.addr \in Consoles /\ settings.key # NoKey =>
        \A c \in Consoles \ {settings.addr} : hosts[c].key # settings.key
=============================================================================
