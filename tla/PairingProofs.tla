--------------------------- MODULE PairingProofs ---------------------------
(***************************************************************************)
(* Proof of what a stream starts with after a reported pairing, for any    *)
(* number of consoles, threads, registrations and failures; and that a     *)
(* thread that is the only one puts what a console answered into the list  *)
(* under that console's address.                                           *)
(***************************************************************************)
EXTENDS Pairing, TLAPS

-----------------------------------------------------------------------------
(* Types.                                                                  *)

\* A thread runs only with the app, after the screen was opened for a console,
\* and registers with one.
Running ==
    /\ \A t \in Threads : pc[t] # "idle" => up /\ screen \in Consoles
    /\ \A t \in Threads : pc[t] = "request" => asked[t] \in Consoles
    /\ shown => up /\ screen \in Consoles

TypeInv == TypeOK /\ Running

\* Init and its values.
LEMMA Blanks ==
  ASSUME PairingAssumption
  PROVE  /\ NoInfo \in Keys /\ Blank \in StoredKeys /\ NoEntries \in [Consoles -> Keys]
         /\ NoInfo.key = NoKey /\ NoKey = 0
<1>1. 0 \in 0..MaxRegs
  BY DEF PairingAssumption
<1> QED BY <1>1 DEF NoInfo, Blank, NoEntries, Keys, StoredKeys, NoKey

LEMMA TypeInit == Init => TypeInv
<1> SUFFICES ASSUME Init PROVE TypeInv
  OBVIOUS
<1>1. 0 \in 0..MaxRegs /\ 0 \in 0..MaxFaults /\ Firmware \in [Consoles -> Targets]
  BY PairingAssumption DEF PairingAssumption
<1>2. TypeOK
  BY <1>1, Blanks, PairingAssumption DEF Init, TypeOK, NoEntries
<1> QED BY <1>2 DEF Init, TypeInv, Running

\* The process ends.
LEMMA GoneTyped ==
  ASSUME TypeInv, Gone, UNCHANGED <<settings, hosts, firmware, issued, done>>,
         session' \in StoredKeys, faults' \in 0..MaxFaults
  PROVE  TypeInv'
<1>1. /\ up' = FALSE /\ screen' = NoHost /\ shown' = FALSE /\ pairing' = FALSE /\ mem' = Blank
      /\ pc' = [t \in Threads |-> "idle"] /\ asked' = [t \in Threads |-> NoHost]
      /\ info' = [t \in Threads |-> NoInfo] /\ paired' = [t \in Threads |-> NoEntries]
      /\ overlap' = FALSE
  BY DEF Gone
<1>2. TypeOK'
  BY <1>1, Blanks, PairingAssumption DEF TypeInv, TypeOK
<1> QED BY <1>1, <1>2 DEF TypeInv, Running

\* A thread ends.
LEMMA EndedTyped ==
  ASSUME TypeOK, NEW t \in Threads, Ended(t)
  PROVE  /\ pc' = [pc EXCEPT ![t] = "idle"]
         /\ asked' \in [Threads -> Consoles \cup {NoHost}]
         /\ info' \in [Threads -> Keys] /\ paired' \in [Threads -> [Consoles -> Keys]]
BY Blanks, PairingAssumption DEF Ended, Goes, TypeOK

LEMMA UserTyped ==
  ASSUME TypeInv, [Next]_vars, PairingAssumption,
         \/ \E c \in Consoles : OpenPair(c) \/ StartStream(c) \/ Upgraded(c)
         \/ Back \/ SaveElsewhere \/ Ends \/ Starts
         \/ \E t \in Threads : StartPair(t)
         \/ UNCHANGED vars
  PROVE  TypeInv'
<1>1. ASSUME NEW c \in Consoles, OpenPair(c) PROVE TypeInv'
  <2>1. overlap' \in BOOLEAN
    BY <1>1 DEF OpenPair
  <2>2. done' \in [Consoles -> Keys]
    <3>1. [console \in Consoles |-> NoInfo] \in [Consoles -> Keys]
      BY Blanks
    <3> QED BY <1>1, <3>1 DEF OpenPair, TypeInv, TypeOK
  <2>3. TypeOK'
    BY <1>1, <2>1, <2>2 DEF OpenPair, TypeInv, TypeOK, threadVars, storeVars, worldVars
  <2> QED BY <1>1, <2>3 DEF OpenPair, TypeInv, Running, threadVars
<1>2. ASSUME NEW c \in Consoles, StartStream(c) PROVE TypeInv'
  <2>1. ASSUME NEW list \in [Consoles -> Keys], StreamWith(list, c)
        PROVE  session' \in StoredKeys
    <3>1. Credentials(list, c) \in Keys
      BY Blanks DEF Credentials, TypeInv, TypeOK, Keys, StoredKeys
    <3> QED BY <2>1, <3>1 DEF StreamWith, Keys, StoredKeys
  <2>2. hosts \in [Consoles -> Keys] /\ NoEntries \in [Consoles -> Keys]
    BY Blanks DEF TypeInv, TypeOK
  <2>3. session' \in StoredKeys
    BY <1>2, <2>1, <2>2 DEF StartStream
  <2>4. faults' \in 0..MaxFaults
    BY <1>2 DEF StartStream, Fault, TypeInv, TypeOK, PairingAssumption
  <2> QED BY <1>2, <2>3, <2>4, GoneTyped DEF StartStream
<1>3. ASSUME NEW c \in Consoles, Upgraded(c) PROVE TypeInv'
  BY <1>3 DEF Upgraded, TypeInv, TypeOK, Running, screenVars, threadVars, storeVars, ghostVars
<1>4. CASE Back
  BY <1>4 DEF Back, TypeInv, TypeOK, Running, threadVars, storeVars, worldVars, ghostVars
<1>5. CASE SaveElsewhere
  BY <1>5 DEF SaveElsewhere, TypeInv, TypeOK, Running, screenVars, threadVars, worldVars, ghostVars
<1>6. CASE Ends
  <2>1. session' \in StoredKeys /\ faults' \in 0..MaxFaults
    BY <1>6 DEF Ends, worldVars, TypeInv, TypeOK
  <2> QED BY <1>6, <2>1, GoneTyped DEF Ends, worldVars
<1>7. CASE Starts
  <2>1. mem' \in StoredKeys /\ faults' \in 0..MaxFaults /\ session' \in StoredKeys
    BY <1>7, Blanks, PairingAssumption DEF Starts, Fault, PairingAssumption, TypeInv, TypeOK
  <2>2. TypeOK'
    BY <1>7, <2>1 DEF Starts, TypeInv, TypeOK, screenVars, threadVars, ghostVars
  <2> QED BY <1>7, <2>2 DEF Starts, TypeInv, Running, screenVars, threadVars
<1>8. ASSUME NEW t \in Threads, StartPair(t) PROVE TypeInv'
  <2>1. pc' = [pc EXCEPT ![t] = "search"] /\ up /\ shown
    BY <1>8 DEF StartPair
  <2>2. TypeOK'
    BY <1>8, <2>1 DEF StartPair, TypeInv, TypeOK, storeVars, worldVars, ghostVars
  <2> QED BY <1>8, <2>1, <2>2 DEF StartPair, TypeInv, TypeOK, Running
<1>9. CASE UNCHANGED vars
  BY <1>9 DEF vars, TypeInv, TypeOK, Running, screenVars, threadVars, storeVars, worldVars, ghostVars
<1> QED BY <1>1, <1>2, <1>3, <1>4, <1>5, <1>6, <1>7, <1>8, <1>9

\* The thread's steps, each with its ways to fail.
LEMMA ThreadTyped ==
  ASSUME TypeInv, NEW t \in Threads, Thread(t)
  PROVE  TypeInv'
<1>1. TypeOK /\ up /\ screen \in Consoles /\ info[t] \in Keys
  <2>1. pc[t] # "idle"
    BY DEF Thread, Search, Request, SetAddr, SetKeys, Save, ReadList, ReplaceList, PopScreen
  <2> QED BY <2>1 DEF TypeInv, Running, TypeOK
<1>2. Fault => faults' \in 0..MaxFaults
  BY <1>1, PairingAssumption DEF Fault, PairingAssumption, TypeOK
<1>3. Fail(t) =>
        /\ pc' = [pc EXCEPT ![t] = "idle"] /\ pairing' = FALSE
        /\ asked' = [asked EXCEPT ![t] = NoHost]
        /\ asked' \in [Threads -> Consoles \cup {NoHost}]
        /\ info' \in [Threads -> Keys] /\ paired' \in [Threads -> [Consoles -> Keys]]
  BY <1>1, EndedTyped DEF Fail, Ended
<1>4. ASSUME up' = up, screen' = screen, shown' = shown \/ shown' = FALSE,
             NEW step, step # "request", pc' = [pc EXCEPT ![t] = step],
             asked' = asked \/ asked' = [asked EXCEPT ![t] = NoHost]
      PROVE  Running'
  BY <1>1, <1>4 DEF TypeInv, TypeOK, Running
<1>5. CASE Search(t)
  <2>1. CASE Fail(t)
    <3>1. TypeOK'
      BY <1>1, <1>3, <1>5, <2>1 DEF Search, TypeOK, storeVars, worldVars, ghostVars
    <3> QED BY <1>3, <1>4, <1>5, <2>1, <3>1 DEF Search, TypeInv
  <2>2. CASE /\ Goes(t, "request") /\ asked' = [asked EXCEPT ![t] = screen]
             /\ UNCHANGED <<info, paired, pairing>>
    <3>1. TypeOK'
      BY <1>1, <1>5, <2>2 DEF Search, Goes, TypeOK, storeVars, worldVars, ghostVars
    <3>2. Running'
      BY <1>1, <1>5, <2>2 DEF Search, Goes, TypeInv, TypeOK, Running
    <3> QED BY <3>1, <3>2 DEF TypeInv
  <2> QED BY <1>5, <2>1, <2>2 DEF Search
<1>6. CASE Request(t)
  <2>1. CASE Fail(t) /\ UNCHANGED issued
    <3>1. TypeOK'
      BY <1>1, <1>3, <1>6, <2>1 DEF Request, TypeOK, storeVars, ghostVars
    <3> QED BY <1>3, <1>4, <1>6, <2>1, <3>1 DEF Request, TypeInv
  <2>2. CASE /\ issued < MaxRegs /\ issued' = issued + 1
             /\ \E answer \in Registered(t) : info' = [info EXCEPT ![t] = answer]
             /\ Goes(t, "addr") /\ UNCHANGED <<asked, paired, pairing>>
    <3>1. issued' \in 0..MaxRegs
      BY <1>1, <2>2, PairingAssumption DEF PairingAssumption, TypeOK
    <3>2. asked[t] \in Consoles
      BY <1>6 DEF Request, TypeInv, Running
    <3>3. Registered(t) \subseteq Keys
      BY <1>1, <2>2, <3>1, <3>2, PairingAssumption
      DEF Registered, Scanned, Keys, TypeOK, PairingAssumption
    <3>4. TypeOK'
      BY <1>1, <1>6, <2>2, <3>1, <3>3 DEF Request, Goes, TypeOK, storeVars, ghostVars
    <3> QED BY <1>4, <1>6, <2>2, <3>4 DEF Request, Goes, TypeInv
  <2> QED BY <1>6, <2>1, <2>2 DEF Request
<1>7. CASE SetAddr(t)
  <2>1. mem' \in StoredKeys
    BY <1>1, <1>7 DEF SetAddr, StoredKeys, Keys, TypeOK
  <2>2. TypeOK'
    BY <1>1, <1>7, <2>1 DEF SetAddr, Goes, TypeOK, screenVars, worldVars, ghostVars
  <2> QED BY <1>4, <1>7, <2>2 DEF SetAddr, Goes, screenVars, TypeInv
<1>8. CASE SetKeys(t)
  <2>1. mem' \in StoredKeys
    BY <1>1, <1>8 DEF SetKeys, StoredKeys, Keys, TypeOK
  <2>2. TypeOK'
    BY <1>1, <1>8, <2>1 DEF SetKeys, Goes, TypeOK, screenVars, worldVars, ghostVars
  <2> QED BY <1>4, <1>8, <2>2 DEF SetKeys, Goes, screenVars, TypeInv
<1>9. CASE Save(t)
  <2>1. CASE Fault /\ Fail(t) /\ UNCHANGED settings
    <3>1. TypeOK'
      BY <1>1, <1>2, <1>3, <1>9, <2>1 DEF Save, TypeOK, ghostVars
    <3> QED BY <1>3, <1>4, <1>9, <2>1, <3>1 DEF Save, TypeInv
  <2>2. CASE /\ Goes(t, "list") /\ settings' = mem
             /\ UNCHANGED <<asked, info, paired, pairing, faults>>
    <3>1. TypeOK'
      BY <1>1, <1>9, <2>2 DEF Save, Goes, TypeOK, ghostVars
    <3> QED BY <1>4, <1>9, <2>2, <3>1 DEF Save, Goes, TypeInv
  <2> QED BY <1>9, <2>1, <2>2 DEF Save
<1>10. CASE ReadList(t)
  <2> DEFINE new == [key |-> mem.key, target |-> info[t].target]
  <2>1. new \in Keys
    BY <1>1 DEF Keys, StoredKeys, TypeOK
  <2>2. /\ Replaced(hosts, screen, new) \in [Consoles -> Keys]
        /\ Replaced(NoEntries, screen, new) \in [Consoles -> Keys]
    <3> HIDE DEF new
    <3> QED BY <1>1, <2>1, Blanks, PairingAssumption DEF Replaced, TypeOK
  <2>3. /\ paired' \in [Threads -> [Consoles -> Keys]] /\ faults' \in 0..MaxFaults
        /\ done' \in [Consoles -> Keys]
    <3>1. [c \in Consoles |-> IF c = screen THEN done[c] ELSE NoInfo] \in [Consoles -> Keys]
      BY <1>1, Blanks, PairingAssumption DEF TypeOK
    <3> QED BY <1>1, <1>2, <1>10, <2>2, <3>1 DEF ReadList, TypeOK
  <2>4. TypeOK'
    BY <1>1, <1>10, <2>3 DEF ReadList, Goes, TypeOK, screenVars, storeVars
  <2> QED BY <1>4, <1>10, <2>4 DEF ReadList, Goes, screenVars, TypeInv
<1>11. CASE ReplaceList(t)
  <2>1. CASE Fault /\ Fail(t) /\ UNCHANGED <<hosts, done>>
    <3>1. TypeOK'
      BY <1>1, <1>2, <1>3, <1>11, <2>1 DEF ReplaceList, TypeOK
    <3> QED BY <1>3, <1>4, <1>11, <2>1, <3>1 DEF ReplaceList, TypeInv
  <2>2. CASE /\ Goes(t, "success") /\ hosts' = paired[t]
             /\ done' = IF overlap THEN done ELSE [done EXCEPT ![screen] = info[t]]
             /\ UNCHANGED <<asked, info, paired, pairing, faults>>
    <3>1. hosts' \in [Consoles -> Keys] /\ done' \in [Consoles -> Keys]
      BY <1>1, <2>2 DEF TypeOK
    <3>2. TypeOK'
      BY <1>1, <1>11, <2>2, <3>1 DEF ReplaceList, Goes, TypeOK
    <3> QED BY <1>4, <1>11, <2>2, <3>2 DEF ReplaceList, Goes, TypeInv
  <2> QED BY <1>11, <2>1, <2>2 DEF ReplaceList
<1>12. CASE PopScreen(t)
  <2>1. /\ asked' = [asked EXCEPT ![t] = NoHost] /\ pc' = [pc EXCEPT ![t] = "idle"]
        /\ asked' \in [Threads -> Consoles \cup {NoHost}]
        /\ info' \in [Threads -> Keys] /\ paired' \in [Threads -> [Consoles -> Keys]]
    BY <1>1, <1>12, EndedTyped DEF PopScreen, Ended
  <2>2. TypeOK'
    BY <1>1, <1>12, <2>1 DEF PopScreen, TypeOK, storeVars, worldVars, ghostVars
  <2> QED BY <1>4, <1>12, <2>1, <2>2 DEF PopScreen, TypeInv
<1> QED BY <1>5, <1>6, <1>7, <1>8, <1>9, <1>10, <1>11, <1>12 DEF Thread

LEMMA TypeStep == TypeInv /\ [Next]_vars => TypeInv'
BY UserTyped, ThreadTyped, PairingAssumption DEF Next

\* What is in memory, in both files and in a session are addresses of consoles,
\* keys that were given out and targets of consoles, or nothing.
THEOREM StoredTypes == Spec => []TypeOK
<1>1. Init => TypeInv
  BY TypeInit
<1>2. TypeInv /\ [Next]_vars => TypeInv'
  BY TypeStep
<1>3. TypeInv => TypeOK
  BY DEF TypeInv
<1> QED BY <1>1, <1>2, <1>3, PTL DEF Spec

-----------------------------------------------------------------------------
(* The inductive invariant.                                                *)

\* What a thread has of its registration at each step: the screen's console, its
\* answer, the key in memory, and the list it will write.
ThreadHas(t) ==
    /\ pc[t] # "search" => asked[t] = screen
    /\ pc[t] \in {"addr", "keys", "save", "list", "replace"} => info[t].key # NoKey
    /\ pc[t] \in {"save", "list"} => mem.key = info[t].key
    /\ pc[t] = "replace" =>
          /\ paired[t][screen] = info[t]
          /\ \A c \in Consoles \ {screen} : done[c] # NoInfo => paired[t][c] = done[c]

\* If no thread was left over when the screen was entered, there is one at most,
\* and A starts no other before it ends.
Alone ==
    ~overlap => \A t \in Threads : pc[t] # "idle" =>
        /\ pairing /\ ThreadHas(t)
        /\ \A q \in Threads : pc[q] # "idle" => q = t

\* A reported success is in the list.
Listed ==
    /\ overlap => \A c \in Consoles : done[c] = NoInfo
    /\ \A c \in Consoles : done[c] # NoInfo => hosts[c] = done[c] /\ done[c].key # NoKey

PairingInv == TypeInv /\ Alone /\ Listed

LEMMA PairingInit == Init => PairingInv
BY TypeInit DEF Init, PairingInv, Alone, Listed, NoInfo

\* No thread runs after the step, and the list and what it owes are the same, or
\* nothing is owed.
LEMMA QuietStep ==
  ASSUME Listed, hosts' = hosts,
         done' = done \/ done' = [c \in Consoles |-> NoInfo],
         overlap' => overlap \/ done' = [c \in Consoles |-> NoInfo],
         ~overlap' => \A t \in Threads : pc'[t] = "idle"
  PROVE  Alone' /\ Listed'
BY DEF Alone, Listed

LEMMA UserStep ==
  ASSUME PairingInv,
         \/ \E c \in Consoles : OpenPair(c) \/ StartStream(c) \/ Upgraded(c)
         \/ Back \/ SaveElsewhere \/ Ends \/ Starts
         \/ \E t \in Threads : StartPair(t)
         \/ UNCHANGED vars
  PROVE  Alone' /\ Listed'
<1>1. TypeOK /\ Running /\ Alone /\ Listed
  BY DEF PairingInv, TypeInv
<1>2. ASSUME NEW c \in Consoles, OpenPair(c) PROVE Alone' /\ Listed'
  <2>1. /\ hosts' = hosts /\ pc' = pc
        /\ overlap' = \E t \in Threads : pc[t] # "idle"
        /\ done' = IF overlap' THEN [console \in Consoles |-> NoInfo] ELSE done
    BY <1>2 DEF OpenPair, storeVars, threadVars
  <2> QED BY <1>1, <2>1, QuietStep
<1>3. ASSUME Gone, hosts' = hosts, done' = done PROVE Alone' /\ Listed'
  <2>1. overlap' = FALSE /\ \A t \in Threads : pc'[t] = "idle"
    BY <1>3 DEF Gone
  <2> QED BY <1>1, <1>3, <2>1, QuietStep
<1>4. CASE Ends \/ \E c \in Consoles : StartStream(c)
  BY <1>3, <1>4 DEF Ends, StartStream, worldVars
<1>5. CASE Starts
  <2>1. /\ hosts' = hosts /\ done' = done /\ overlap' = overlap /\ pc' = pc
        /\ \A t \in Threads : pc[t] = "idle"
    BY <1>1, <1>5 DEF Starts, Running, threadVars, ghostVars
  <2> QED BY <1>1, <2>1, QuietStep
<1>6. ASSUME /\ screen' = screen /\ pairing' = pairing /\ pc' = pc /\ asked' = asked
             /\ info' = info /\ paired' = paired /\ mem' = mem /\ hosts' = hosts
             /\ done' = done /\ overlap' = overlap
      PROVE  Alone' /\ Listed'
  <2>1. Listed'
    BY <1>1, <1>6 DEF Listed
  <2> QED BY <1>1, <1>6, <2>1 DEF Alone, ThreadHas
<1>7. CASE Back \/ SaveElsewhere \/ UNCHANGED vars \/ \E c \in Consoles : Upgraded(c)
  BY <1>6, <1>7 DEF Back, SaveElsewhere, vars, Upgraded, screenVars, threadVars, storeVars,
                    ghostVars
<1>8. ASSUME NEW t \in Threads, StartPair(t) PROVE Alone' /\ Listed'
  <2>1. /\ hosts' = hosts /\ done' = done /\ overlap' = overlap
        /\ pairing' = TRUE /\ ~pairing /\ pc' = [pc EXCEPT ![t] = "search"]
    BY <1>8 DEF StartPair, storeVars, ghostVars
  <2>2. Listed'
    BY <1>1, <2>1 DEF Listed
  <2>3. ASSUME ~overlap', NEW q \in Threads, pc'[q] # "idle" PROVE q = t
    BY <1>1, <2>1, <2>3 DEF Alone, TypeOK
  <2>4. pc'[t] = "search"
    BY <1>1, <2>1 DEF TypeOK
  <2>5. ThreadHas(t)'
    BY <2>4 DEF ThreadHas
  <2> QED BY <2>1, <2>2, <2>3, <2>5 DEF Alone
<1> QED BY <1>2, <1>4, <1>5, <1>7, <1>8

\* The only thread goes on, or ends.
LEMMA OnlyThread ==
  ASSUME PairingInv, NEW t \in Threads, pc[t] # "idle", NEW step,
         pc' = [pc EXCEPT ![t] = step], overlap' = overlap, Listed',
         ~overlap => step = "idle" \/ (ThreadHas(t)' /\ pairing' = pairing)
  PROVE  Alone' /\ Listed'
<1>1. pc \in [Threads -> {"idle", "search", "request", "addr", "keys", "save", "list",
                          "replace", "success"}]
  BY DEF PairingInv, TypeInv, TypeOK
<1>2. ASSUME ~overlap, NEW q \in Threads, pc'[q] # "idle"
      PROVE  q = t /\ step # "idle" /\ pairing
  BY <1>1, <1>2 DEF PairingInv, Alone
<1> QED BY <1>2 DEF Alone

LEMMA ThreadStep ==
  ASSUME PairingInv, NEW t \in Threads, Thread(t)
  PROVE  Alone' /\ Listed'
<1>1. TypeOK /\ Listed /\ pc[t] # "idle" /\ pc = [q \in Threads |-> pc[q]] /\ screen \in Consoles
      /\ (~overlap => ThreadHas(t))
  <2>1. pc[t] # "idle"
    BY DEF Thread, Search, Request, SetAddr, SetKeys, Save, ReadList, ReplaceList, PopScreen
  <2>2. TypeOK /\ Listed /\ Running /\ Alone
    BY DEF PairingInv, TypeInv
  <2>3. pc = [q \in Threads |-> pc[q]]
    BY <2>2 DEF TypeOK
  <2> QED BY <2>1, <2>2, <2>3 DEF Running, Alone
<1>2. ASSUME hosts' = hosts, done' = done, overlap' = overlap PROVE Listed'
  BY <1>1, <1>2 DEF Listed
<1>3. ASSUME Ended(t), hosts' = hosts, done' = done, overlap' = overlap PROVE Alone' /\ Listed'
  BY <1>1, <1>2, <1>3, OnlyThread DEF Ended, Goes
<1>4. ASSUME NEW step, Goes(t, step)
      PROVE  pc' = [pc EXCEPT ![t] = step] /\ pc'[t] = step
  BY <1>1, <1>4 DEF Goes
<1>5. CASE Search(t)
  <2>1. hosts' = hosts /\ done' = done /\ overlap' = overlap /\ screen' = screen
    BY <1>5 DEF Search, storeVars, ghostVars
  <2>2. CASE Fail(t)
    BY <1>3, <2>1, <2>2 DEF Fail
  <2>3. CASE Goes(t, "request") /\ asked' = [asked EXCEPT ![t] = screen] /\ pairing' = pairing
    <3>1. ThreadHas(t)'
      <4>1. pc'[t] = "request" /\ asked'[t] = screen'
        BY <1>1, <1>4, <2>1, <2>3 DEF TypeOK
      <4> QED BY <4>1 DEF ThreadHas
    <3> QED BY <1>1, <1>2, <1>4, <2>1, <2>3, <3>1, OnlyThread
  <2> QED BY <1>5, <2>2, <2>3 DEF Search
<1>6. CASE Request(t)
  <2>1. hosts' = hosts /\ done' = done /\ overlap' = overlap /\ screen' = screen
    BY <1>6 DEF Request, storeVars, ghostVars
  <2>2. CASE Fail(t)
    BY <1>3, <2>1, <2>2 DEF Fail
  <2>3. CASE /\ \E answer \in Registered(t) : info' = [info EXCEPT ![t] = answer]
             /\ Goes(t, "addr") /\ asked' = asked /\ pairing' = pairing
    <3>1. info'[t].key # NoKey
      <4>1. issued \in Nat /\ info'[t].key = issued + 1
        BY <1>1, <2>3 DEF TypeOK, Registered
      <4> QED BY <4>1 DEF NoKey
    <3>2. ~overlap => ThreadHas(t)'
      BY <1>1, <1>4, <1>6, <2>1, <2>3, <3>1 DEF ThreadHas, Request
    <3> QED BY <1>1, <1>2, <1>4, <2>1, <2>3, <3>2, OnlyThread
  <2> QED BY <1>6, <2>2, <2>3 DEF Request
<1>7. CASE SetAddr(t)
  <2>1. /\ hosts' = hosts /\ done' = done /\ overlap' = overlap /\ screen' = screen
        /\ pairing' = pairing /\ asked' = asked /\ info' = info /\ pc[t] = "addr" /\ Goes(t, "keys")
    BY <1>7 DEF SetAddr, screenVars, ghostVars
  <2>2. ~overlap => ThreadHas(t)'
    BY <1>1, <1>4, <2>1 DEF ThreadHas
  <2> QED BY <1>1, <1>2, <1>4, <2>1, <2>2, OnlyThread
<1>8. CASE SetKeys(t)
  <2>1. /\ hosts' = hosts /\ done' = done /\ overlap' = overlap /\ screen' = screen
        /\ pairing' = pairing /\ asked' = asked /\ info' = info /\ pc[t] = "keys" /\ Goes(t, "save")
        /\ mem' = [mem EXCEPT !.key = info[t].key]
    BY <1>8 DEF SetKeys, screenVars, ghostVars
  <2>2. mem'.key = info[t].key
    BY <1>1, <2>1 DEF TypeOK, StoredKeys
  <2>3. ~overlap => ThreadHas(t)'
    BY <1>1, <1>4, <2>1, <2>2 DEF ThreadHas
  <2> QED BY <1>1, <1>2, <1>4, <2>1, <2>3, OnlyThread
<1>9. CASE Save(t)
  <2>1. /\ hosts' = hosts /\ done' = done /\ overlap' = overlap /\ screen' = screen
        /\ mem' = mem /\ pc[t] = "save"
    BY <1>9 DEF Save, ghostVars
  <2>2. CASE Fail(t)
    BY <1>3, <2>1, <2>2 DEF Fail
  <2>3. CASE Goes(t, "list") /\ asked' = asked /\ info' = info /\ pairing' = pairing
    <3>1. ~overlap => ThreadHas(t)'
      BY <1>1, <1>4, <2>1, <2>3 DEF ThreadHas
    <3> QED BY <1>1, <1>2, <1>4, <2>1, <2>3, <3>1, OnlyThread
  <2> QED BY <1>9, <2>2, <2>3 DEF Save
<1>10. CASE ReadList(t)
  <2> DEFINE new == [key |-> mem.key, target |-> info[t].target]
  <2>1. /\ hosts' = hosts /\ overlap' = overlap /\ screen' = screen /\ pairing' = pairing
        /\ asked' = asked /\ info' = info /\ pc[t] = "list" /\ Goes(t, "replace")
    BY <1>10 DEF ReadList, screenVars, storeVars
  <2>2. ~overlap => new = info[t] /\ info[t].key # NoKey /\ asked[t] = screen
    BY <1>1, <2>1 DEF ThreadHas, TypeOK, Keys
  <2> HIDE DEF new
  <2>3. CASE paired' = [paired EXCEPT ![t] = Replaced(hosts, screen, new)] /\ done' = done
    <3>1. /\ paired'[t][screen] = new
          /\ \A c \in Consoles \ {screen} : paired'[t][c] = hosts[c]
      BY <1>1, <2>3 DEF Replaced, TypeOK
    <3>2. ~overlap => ThreadHas(t)'
      BY <1>1, <1>4, <2>1, <2>2, <2>3, <3>1 DEF ThreadHas, Listed
    <3> QED BY <1>1, <1>2, <1>4, <2>1, <2>3, <3>2, OnlyThread
  <2>4. CASE /\ paired' = [paired EXCEPT ![t] = Replaced(NoEntries, screen, new)]
             /\ done' = [c \in Consoles |-> IF c = screen THEN done[c] ELSE NoInfo]
    <3>1. paired'[t][screen] = new
      BY <1>1, <2>4 DEF Replaced, NoEntries, TypeOK
    <3>2. ~overlap => ThreadHas(t)'
      BY <1>1, <1>4, <2>1, <2>2, <2>4, <3>1 DEF ThreadHas
    <3>3. Listed'
      BY <1>1, <2>1, <2>4 DEF Listed
    <3> QED BY <1>1, <1>4, <2>1, <2>4, <3>2, <3>3, OnlyThread
  <2> QED BY <1>10, <2>3, <2>4 DEF ReadList, new
<1>11. CASE ReplaceList(t)
  <2>1. overlap' = overlap /\ screen' = screen /\ pc[t] = "replace"
    BY <1>11 DEF ReplaceList
  <2>2. CASE Fail(t) /\ hosts' = hosts /\ done' = done
    BY <1>3, <2>1, <2>2 DEF Fail
  <2>3. CASE /\ Goes(t, "success") /\ hosts' = paired[t]
             /\ done' = IF overlap THEN done ELSE [done EXCEPT ![screen] = info[t]]
             /\ asked' = asked /\ pairing' = pairing
    <3>1. ~overlap => ThreadHas(t)'
      BY <1>1, <1>4, <2>1, <2>3 DEF ThreadHas
    <3>2. Listed'
      <4>1. CASE overlap
        BY <1>1, <2>1, <2>3, <4>1 DEF Listed
      <4>2. CASE ~overlap
        <5>1. /\ done'[screen] = info[t] /\ info[t].key # NoKey /\ paired[t][screen] = info[t]
              /\ \A c \in Consoles \ {screen} :
                    done'[c] = done[c] /\ (done[c] # NoInfo => paired[t][c] = done[c])
          BY <1>1, <2>1, <2>3, <4>2 DEF ThreadHas, TypeOK
        <5> QED BY <1>1, <2>1, <2>3, <4>2, <5>1 DEF Listed
      <4> QED BY <4>1, <4>2
    <3> QED BY <1>1, <1>4, <2>1, <2>3, <3>1, <3>2, OnlyThread
  <2> QED BY <1>11, <2>2, <2>3 DEF ReplaceList
<1>12. CASE PopScreen(t)
  BY <1>3, <1>12 DEF PopScreen, storeVars, ghostVars
<1> QED BY <1>5, <1>6, <1>7, <1>8, <1>9, <1>10, <1>11, <1>12 DEF Thread

LEMMA PairingStep == PairingInv /\ [Next]_vars => PairingInv'
<1> SUFFICES ASSUME PairingInv, [Next]_vars PROVE PairingInv'
  OBVIOUS
<1>1. TypeInv'
  BY TypeStep DEF PairingInv
<1>2. Alone' /\ Listed'
  BY UserStep, ThreadStep DEF Next
<1> QED BY <1>1, <1>2 DEF PairingInv

LEMMA PairingAlways == Spec => []PairingInv
BY PairingInit, PairingStep, PTL DEF Spec

-----------------------------------------------------------------------------
(* No older key.                                                           *)

\* What a thread has is newer than all that was reported before.
ThreadAhead(t) ==
    /\ pc[t] \in {"addr", "keys", "save", "list", "replace"} =>
          info[t].key <= issued /\ \A c \in Consoles : done[c].key <= info[t].key
    /\ pc[t] \in {"save", "list", "replace"} => mem.key = info[t].key
    /\ pc[t] \in {"list", "replace"} => settings.key = info[t].key

\* The settings, in memory and in the file, have no key older than a reported one.
Ahead ==
    /\ \A c \in Consoles : /\ done[c].key <= issued
                           /\ mem.key = NoKey \/ done[c].key <= mem.key
                           /\ settings.key = NoKey \/ done[c].key <= settings.key
    /\ ~overlap => \A t \in Threads : ThreadAhead(t)

LEMMA KeyNumbers ==
  ASSUME TypeOK
  PROVE  /\ issued \in Nat /\ mem.key \in Nat /\ settings.key \in Nat
         /\ \A c \in Consoles : done[c].key \in Nat
         /\ \A t \in Threads : info[t].key \in Nat
BY DEF TypeOK, StoredKeys, Keys

\* Nothing is reported while a thread of an earlier visit may run.
LEMMA OverlapAhead ==
  ASSUME TypeOK, Listed, overlap
  PROVE  Ahead
<1>1. \A c \in Consoles : done[c].key = 0
  <2>1. \A c \in Consoles : done[c] = NoInfo
    BY DEF Listed
  <2> QED BY <2>1, Blanks, PairingAssumption
<1> QED BY <1>1, KeyNumbers DEF Ahead

LEMMA AheadInit == Init => Ahead
BY DEF Init, Ahead, ThreadAhead, NoInfo, NoKey, Blank

LEMMA UserAhead ==
  ASSUME PairingInv, Ahead, TypeOK', Listed',
         \/ \E c \in Consoles : OpenPair(c) \/ StartStream(c) \/ Upgraded(c)
         \/ Back \/ SaveElsewhere \/ Ends \/ Starts
         \/ \E t \in Threads : StartPair(t)
         \/ UNCHANGED vars
  PROVE  Ahead'
<1> SUFFICES ASSUME ~overlap' PROVE Ahead'
  <2>1. overlap' => Ahead'
    BY OverlapAhead, PTL
  <2> QED BY <2>1
<1>1. TypeOK /\ Running
  BY DEF PairingInv, TypeInv
<1>2. ASSUME NEW c \in Consoles, OpenPair(c) PROVE Ahead'
  <2>1. /\ \A t \in Threads : pc'[t] = "idle"
        /\ UNCHANGED <<done, issued, mem, settings>>
    BY <1>2 DEF OpenPair, threadVars, storeVars, worldVars
  <2> QED BY <2>1 DEF Ahead, ThreadAhead
<1>3. ASSUME Gone, UNCHANGED <<done, issued, settings>> PROVE Ahead'
  <2>1. mem'.key = NoKey /\ \A t \in Threads : pc'[t] = "idle"
    BY <1>3 DEF Gone, Blank
  <2> QED BY <1>3, <2>1 DEF Ahead, ThreadAhead
<1>4. CASE Ends \/ \E c \in Consoles : StartStream(c)
  BY <1>3, <1>4 DEF Ends, StartStream, worldVars
<1>5. CASE Starts
  <2>1. /\ mem' = settings \/ mem'.key = NoKey
        /\ \A t \in Threads : pc'[t] = "idle"
        /\ UNCHANGED <<done, issued, settings>>
    BY <1>1, <1>5 DEF Starts, Running, Blank, threadVars, ghostVars
  <2> QED BY <2>1 DEF Ahead, ThreadAhead
<1>6. CASE SaveElsewhere
  <2>1. settings' = mem /\ UNCHANGED <<done, issued, mem, overlap, pc, info>>
    BY <1>6 DEF SaveElsewhere, threadVars, worldVars, ghostVars
  <2> QED BY <2>1 DEF Ahead, ThreadAhead
<1>7. CASE Back \/ UNCHANGED vars \/ \E c \in Consoles : Upgraded(c)
  <2>1. UNCHANGED <<done, issued, mem, settings, overlap, pc, info>>
    BY <1>7 DEF Back, vars, Upgraded, threadVars, storeVars, worldVars, ghostVars
  <2> QED BY <2>1 DEF Ahead, ThreadAhead
<1>8. ASSUME NEW t \in Threads, StartPair(t) PROVE Ahead'
  <2>1. /\ UNCHANGED <<done, issued, mem, settings, overlap, info>>
        /\ pc' = [pc EXCEPT ![t] = "search"]
    BY <1>8 DEF StartPair, storeVars, worldVars, ghostVars
  <2>2. ASSUME NEW q \in Threads PROVE ThreadAhead(q)'
    BY <1>1, <2>1 DEF Ahead, ThreadAhead, TypeOK
  <2> QED BY <2>1, <2>2 DEF Ahead
<1> QED BY <1>2, <1>4, <1>5, <1>6, <1>7, <1>8

\* The thread that runs alone.
LEMMA ThreadAheadStep ==
  ASSUME PairingInv, Ahead, TypeOK', Listed', NEW t \in Threads, Thread(t)
  PROVE  Ahead'
<1> SUFFICES ASSUME ~overlap' PROVE Ahead'
  <2>1. overlap' => Ahead'
    BY OverlapAhead, PTL
  <2> QED BY <2>1
<1>1. ~overlap /\ pc[t] # "idle" /\ TypeOK /\ ThreadHas(t) /\ ThreadAhead(t)
      /\ \A q \in Threads \ {t} : pc[q] = "idle"
  <2>1. overlap' = overlap /\ pc[t] # "idle"
    BY DEF Thread, Search, Request, SetAddr, SetKeys, Save, ReadList, ReplaceList, PopScreen,
           ghostVars
  <2> QED BY <2>1 DEF PairingInv, TypeInv, Alone, Ahead
<1>2. /\ issued \in Nat /\ mem.key \in Nat /\ settings.key \in Nat
      /\ \A c \in Consoles : done[c].key \in Nat
      /\ \A q \in Threads : info[q].key \in Nat
  BY <1>1, KeyNumbers
<1>3. ASSUME NEW step, pc' = [pc EXCEPT ![t] = step], step = "idle" \/ ThreadAhead(t)'
      PROVE  \A q \in Threads : ThreadAhead(q)'
  <2>1. \A q \in Threads \ {t} : pc'[q] = "idle"
    BY <1>1, <1>3 DEF TypeOK
  <2>2. pc'[t] = step
    BY <1>1, <1>3 DEF TypeOK
  <2>3. ASSUME NEW q \in Threads, pc'[q] = "idle" PROVE ThreadAhead(q)'
    BY <2>3 DEF ThreadAhead
  <2> QED BY <1>3, <2>1, <2>2, <2>3
<1>4. ASSUME UNCHANGED <<done, issued, mem, settings>>, NEW step, pc' = [pc EXCEPT ![t] = step],
             step = "idle" \/ ThreadAhead(t)'
      PROVE  Ahead'
  BY <1>3, <1>4 DEF Ahead
<1>5. CASE Search(t)
  <2>1. UNCHANGED <<done, issued, mem, settings>>
    BY <1>5 DEF Search, storeVars, worldVars, ghostVars
  <2>2. pc' = [pc EXCEPT ![t] = "request"] \/ pc' = [pc EXCEPT ![t] = "idle"]
    BY <1>5 DEF Search, Fail, Ended, Goes
  <2>3. pc'[t] = "request" => ThreadAhead(t)'
    BY DEF ThreadAhead
  <2>4. pc' = [pc EXCEPT ![t] = "request"] => pc'[t] = "request"
    BY <1>1 DEF TypeOK
  <2> QED BY <1>4, <2>1, <2>2, <2>3, <2>4
<1>6. CASE Request(t)
  <2>1. UNCHANGED <<done, mem, settings>>
    BY <1>6 DEF Request, storeVars, ghostVars
  <2>2. CASE Fail(t) /\ UNCHANGED issued
    BY <1>4, <2>1, <2>2 DEF Fail, Ended, Goes
  <2>3. CASE /\ issued' = issued + 1 /\ Goes(t, "addr")
             /\ \E answer \in Registered(t) : info' = [info EXCEPT ![t] = answer]
    <3>1. pc' = [pc EXCEPT ![t] = "addr"] /\ pc'[t] = "addr" /\ info'[t].key = issued + 1
      BY <1>1, <2>3 DEF Goes, Registered, TypeOK
    <3>2. \A c \in Consoles : done[c].key <= issued + 1
      BY <1>2 DEF Ahead
    <3>3. ThreadAhead(t)'
      <4>1. info'[t].key <= issued' /\ \A c \in Consoles : done'[c].key <= info'[t].key
        BY <1>2, <2>1, <2>3, <3>1, <3>2
      <4> QED BY <3>1, <4>1 DEF ThreadAhead
    <3>4. \A q \in Threads : ThreadAhead(q)'
      BY <1>3, <3>1, <3>3
    <3> QED BY <2>1, <2>3, <3>2, <3>4 DEF Ahead
  <2> QED BY <1>6, <2>2, <2>3 DEF Request
<1>7. CASE SetAddr(t)
  <2>1. /\ UNCHANGED <<done, issued, settings, info>> /\ pc[t] = "addr"
        /\ pc' = [pc EXCEPT ![t] = "keys"] /\ pc'[t] = "keys" /\ mem'.key = mem.key
    BY <1>1, <1>7 DEF SetAddr, Goes, worldVars, ghostVars, TypeOK, StoredKeys
  <2>2. ThreadAhead(t)'
    BY <1>1, <2>1 DEF ThreadAhead
  <2>3. \A q \in Threads : ThreadAhead(q)'
    BY <1>3, <2>1, <2>2
  <2> QED BY <2>1, <2>3 DEF Ahead
<1>8. CASE SetKeys(t)
  <2>1. /\ UNCHANGED <<done, issued, settings, info>> /\ pc[t] = "keys"
        /\ pc' = [pc EXCEPT ![t] = "save"] /\ pc'[t] = "save" /\ mem'.key = info[t].key
    BY <1>1, <1>8 DEF SetKeys, Goes, worldVars, ghostVars, TypeOK, StoredKeys
  <2>2. ThreadAhead(t)'
    BY <1>1, <2>1 DEF ThreadAhead
  <2>3. \A q \in Threads : ThreadAhead(q)'
    BY <1>3, <2>1, <2>2
  <2> QED BY <1>1, <2>1, <2>3 DEF Ahead, ThreadAhead
<1>9. CASE Save(t)
  <2>1. UNCHANGED <<done, issued, mem>> /\ pc[t] = "save"
    BY <1>9 DEF Save, ghostVars
  <2>2. CASE Fail(t) /\ UNCHANGED settings
    BY <1>4, <2>1, <2>2 DEF Fail, Ended, Goes
  <2>3. CASE Goes(t, "list") /\ settings' = mem /\ info' = info
    <3>1. pc' = [pc EXCEPT ![t] = "list"] /\ pc'[t] = "list" /\ settings'.key = info[t].key
      BY <1>1, <2>1, <2>3 DEF Goes, TypeOK, ThreadAhead
    <3>2. ThreadAhead(t)'
      BY <1>1, <2>1, <2>3, <3>1 DEF ThreadAhead
    <3>3. \A q \in Threads : ThreadAhead(q)'
      BY <1>3, <3>1, <3>2
    <3> QED BY <2>1, <2>3, <3>3 DEF Ahead
  <2> QED BY <1>9, <2>2, <2>3 DEF Save
<1>10. CASE ReadList(t)
  <2>1. /\ UNCHANGED <<issued, mem, settings, info>> /\ pc[t] = "list"
        /\ pc' = [pc EXCEPT ![t] = "replace"] /\ pc'[t] = "replace"
    BY <1>1, <1>10 DEF ReadList, Goes, storeVars, TypeOK
  <2>2. \A c \in Consoles : done'[c].key = done[c].key \/ done'[c].key = 0
    BY <1>10 DEF ReadList, NoInfo, NoKey
  <2>3. ThreadAhead(t)'
    BY <1>1, <1>2, <2>1, <2>2 DEF ThreadAhead
  <2>4. \A q \in Threads : ThreadAhead(q)'
    BY <1>3, <2>1, <2>3
  <2> QED BY <1>2, <2>1, <2>2, <2>4 DEF Ahead
<1>11. CASE ReplaceList(t)
  <2>1. UNCHANGED <<issued, mem, settings>> /\ pc[t] = "replace"
    BY <1>11 DEF ReplaceList
  <2>2. CASE Fail(t) /\ UNCHANGED done
    BY <1>4, <2>1, <2>2 DEF Fail, Ended, Goes
  <2>3. CASE Goes(t, "success") /\ done' = [done EXCEPT ![screen] = info[t]]
    <3>1. pc' = [pc EXCEPT ![t] = "success"] /\ pc'[t] = "success"
      BY <1>1, <2>3 DEF Goes, TypeOK
    <3>2. ThreadAhead(t)'
      BY <3>1 DEF ThreadAhead
    <3>3. \A q \in Threads : ThreadAhead(q)'
      BY <1>3, <3>1, <3>2
    <3>4. \A c \in Consoles : done'[c].key = done[c].key \/ done'[c].key = info[t].key
      BY <1>1, <2>3 DEF TypeOK
    <3>5. mem.key = info[t].key /\ settings.key = info[t].key
      BY <1>1, <2>1 DEF ThreadAhead
    <3>6. info[t].key <= issued
      BY <1>1, <2>1, <3>5 DEF ThreadAhead
    <3> QED BY <1>2, <2>1, <3>3, <3>4, <3>5, <3>6 DEF Ahead
  <2> QED BY <1>1, <1>11, <2>2, <2>3 DEF ReplaceList
<1>12. CASE PopScreen(t)
  <2>1. UNCHANGED <<done, issued, mem, settings>> /\ pc' = [pc EXCEPT ![t] = "idle"]
    BY <1>12 DEF PopScreen, Ended, Goes, storeVars, worldVars, ghostVars
  <2> QED BY <1>4, <2>1
<1> QED BY <1>5, <1>6, <1>7, <1>8, <1>9, <1>10, <1>11, <1>12 DEF Thread

LEMMA AheadAlways == Spec => []Ahead
<1>1. PairingInv /\ PairingInv' /\ Ahead /\ [Next]_vars => Ahead'
  BY UserAhead, ThreadAheadStep DEF Next, PairingInv, TypeInv
<1> QED BY <1>1, AheadInit, PairingAlways, PTL DEF Spec

-----------------------------------------------------------------------------
(* What a stream starts with.                                              *)

\* The step of ReportedKeyIsUsed, for one console
StreamStep(c) ==
    session' # session /\ session'.addr = c /\ done[c] # NoInfo =>
       \/ session'.key = done[c].key /\ session'.target = done[c].target
       \/ faults' > faults /\ session'.key >= done[c].key

LEMMA StreamSteps ==
  ASSUME PairingInv, Ahead, [Next]_vars, NEW c \in Consoles
  PROVE  StreamStep(c)
<1> SUFFICES ASSUME session' # session, session'.addr = c, done[c] # NoInfo
             PROVE  \/ session'.key = done[c].key /\ session'.target = done[c].target
                    \/ faults' > faults /\ session'.key >= done[c].key
  BY DEF StreamStep
<1>1. c # NoHost /\ TypeOK
  BY PairingAssumption DEF PairingAssumption, PairingInv, TypeInv
<1>2. StartStream(c)
  <2>1. Starts => session'.addr = NoHost
    BY DEF Starts, Blank
  <2>2. \A d \in Consoles : StartStream(d) => session'.addr = d
    BY DEF StartStream, StreamWith
  <2>3. ~(UNCHANGED vars \/ Back \/ SaveElsewhere \/ Ends)
    BY DEF vars, Back, SaveElsewhere, Ends, worldVars
  <2>4. \A d \in Consoles : ~(OpenPair(d) \/ Upgraded(d))
    BY DEF OpenPair, Upgraded, worldVars
  <2>5. \A t \in Threads : ~(StartPair(t) \/ Thread(t))
    BY DEF StartPair, Thread, Search, Request, SetAddr, SetKeys, Save, ReadList, ReplaceList,
           PopScreen, worldVars
  <2> QED BY <1>1, <2>1, <2>2, <2>3, <2>4, <2>5 DEF Next
<1>3. CASE StreamWith(hosts, c)
  <2>1. hosts[c] = done[c] /\ done[c].key # NoKey
    BY DEF PairingInv, Listed
  <2> QED BY <1>3, <2>1 DEF StreamWith, Credentials
<1>4. CASE Fault /\ StreamWith(NoEntries, c)
  <2>1. NoEntries[c].key = NoKey /\ NoInfo.key = NoKey
    BY DEF NoEntries, NoInfo
  <2>2. session'.key = mem.key /\ mem.key # NoKey
    BY <1>4, <2>1 DEF StreamWith, IsPaired, Credentials
  <2>3. done[c].key <= mem.key
    BY <2>2 DEF Ahead
  <2>4. mem.key \in Nat /\ done[c].key \in Nat /\ faults \in Nat
    BY <1>1, KeyNumbers DEF TypeOK
  <2> QED BY <1>4, <2>2, <2>3, <2>4 DEF Fault
<1> QED BY <1>2, <1>3, <1>4 DEF StartStream

\* A stream to a console whose pairing was reported as a success starts with the
\* key and the target of that registration, or, if the list could not be read, with
\* no older key (pair.py:187-228, chiaki.py:101-153).
THEOREM SuccessIsUsed == Spec => ReportedKeyIsUsed
<1>1. PairingInv /\ Ahead /\ [Next]_vars =>
        [\A c \in Consoles :
          session' # session /\ session'.addr = c /\ done[c] # NoInfo =>
             \/ session'.key = done[c].key /\ session'.target = done[c].target
             \/ faults' > faults /\ session'.key >= done[c].key]_vars
  BY StreamSteps DEF StreamStep
<1> QED BY <1>1, PairingAlways, AheadAlways, PTL DEF Spec, ReportedKeyIsUsed

\* KeyOwner with its one exception: as long as the screen was not entered over a
\* thread of an earlier visit, the entry a thread is about to write into the list
\* under the screen's console is what that console answered (pair.py:189-215).
THEOREM KeysHaveOwners == Spec => [](~overlap => KeyOwner)
<1>1. PairingInv => (~overlap => KeyOwner)
  BY DEF PairingInv, Alone, ThreadHas, KeyOwner
<1> QED BY <1>1, PairingAlways, PTL
=============================================================================
