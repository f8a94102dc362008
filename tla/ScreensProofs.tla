--------------------------- MODULE ScreensProofs ----------------------------
(***************************************************************************)
(* Proofs about Screens, for any number of consoles, of presses in a frame *)
(* and of update checks: its types, what can take the selected console     *)
(* away, and that the home screen stays at the bottom of the stack.        *)
(***************************************************************************)
EXTENDS Screens, SequenceTheorems, TLAPS

\* A scan starts from the menu, with no list: if there is one before it ends, late
\* answers to an older scan have made it.
ListInv == scan = "searching" /\ hosts > 0 => listening

\* What SelectionIsTaken says of a step
SelectionStep ==
    Selected /\ ~Selected' =>
        scan = "searching" /\ scan' = "listed" /\ listening /\ hosts' < hosts

\* The home screen is at the bottom and nowhere else.
HomeOnce ==
    /\ stack # <<>> /\ stack[1] = "home"
    /\ \A i \in 2..Len(stack) : stack[i] # "home"

\* HomeIsBottom is not inductive: that a thread pops its own screen rests on its
\* screen being on top for as long as it was not left.
StackInv ==
    ~latePop => /\ HomeOnce
                /\ pairer # "none" /\ ~left => Top = "pair"

-----------------------------------------------------------------------------
(* The types.                                                              *)

\* A screen is put on the stack, or taken from it.
LEMMA PushPopTypes ==
  ASSUME stack \in Seq(ScreenNames)
  PROVE  /\ \A s \in ScreenNames : Append(stack, s) \in Seq(ScreenNames)
         /\ stack # <<>> => Top \in ScreenNames /\ Popped \in Seq(ScreenNames)
  BY DEF Top, Popped

\* The step of a screen or modal, for any keys, keeps the types.
LEMMA HandlerTypes ==
  ASSUME TypeOK, NEW inputs \in Inputs, Handlers(inputs)
  PROVE  TypeOK'
<1>0. /\ \A s \in ScreenNames : Append(stack, s) \in Seq(ScreenNames)
      /\ stack # <<>> => Top \in ScreenNames /\ Popped \in Seq(ScreenNames)
  BY PushPopTypes DEF TypeOK
<1>1. \A s \in ScreenNames : Push(s) => stack' \in Seq(ScreenNames) /\ pairing' \in BOOLEAN /\ left' \in BOOLEAN
  BY <1>0 DEF Push, TypeOK
<1>2. Pop => stack' \in Seq(ScreenNames) /\ session' \in BOOLEAN /\ left' \in BOOLEAN
  BY <1>0 DEF Pop, TypeOK
<1> USE ScreensAssumption DEF TypeOK, loopVars, quitVars, homeVars, pairVars, otherVars, ScreensAssumption
<1>3. CASE HandleModal(inputs)
  <2>1. pc' = "render" /\ UNCHANGED <<quitVars, given, stack, homeVars, pairVars, session, checks>>
    BY <1>3 DEF HandleModal
  <2>2. modal' \in Modals /\ busy' \in BOOLEAN /\ installs' \in 0..MaxChecks
    <3>1. CASE HandleConfirm(inputs)
      <4>1. modal' \in {"info", "none", modal}
        BY <3>1 DEF HandleConfirm, Closed
      <4> QED BY <3>1, <4>1 DEF HandleConfirm, Modals
    <3>2. CASE HandleInfo(inputs)
      BY <3>2 DEF HandleInfo, Closed, Modals
    <3>3. CASE HandleUpdate(inputs)
      <4>1. modal' \in Modals
        BY <3>3 DEF HandleUpdate, Closed, Modals
      <4>2. installs' \in 0..MaxChecks
        BY <3>3 DEF HandleUpdate
      <4>3. UNCHANGED busy \/ busy' = TRUE
        BY <3>3 DEF HandleUpdate
      <4> QED BY <4>1, <4>2, <4>3
    <3> QED BY <1>3, <3>1, <3>2, <3>3 DEF HandleModal
  <2> QED BY <2>1, <2>2
<1>4. CASE HandleList(inputs)
  <2>1. UNCHANGED <<given, modal, busy, scan, pairer, latePop, otherVars>>
    BY <1>4 DEF HandleList
  <2>2. stack' \in Seq(ScreenNames) /\ pairing' \in BOOLEAN /\ left' \in BOOLEAN
    BY <1>4, <1>1 DEF HandleList, ScreenNames
  <2>3. /\ hosts' \in 0..MaxHosts /\ hostSel' \in Nat /\ listening' \in BOOLEAN
    <3>1. hosts \in Nat \ {0} /\ (hostSel + 1) % hosts \in Nat /\ (hostSel + hosts - 1) % hosts \in Nat
      BY <1>4 DEF HandleList
    <3>2. /\ hosts' \in {hosts, 0}
          /\ hostSel' \in {hostSel, 0, (hostSel + 1) % hosts, (hostSel + hosts - 1) % hosts}
      BY <1>4 DEF HandleList, LeaveList
    <3>3. UNCHANGED listening \/ listening' = FALSE
      BY <1>4 DEF HandleList
    <3>4. hosts' \in 0..MaxHosts /\ hostSel' \in Nat
      BY <3>1, <3>2
    <3> QED BY <3>3, <3>4
  <2>4. running' \in BOOLEAN /\ reason' \in Reasons /\ pc' \in {"update", "end"}
    BY <1>4 DEF HandleList, Raise, Quit, Reasons
  <2> QED BY <2>1, <2>2, <2>3, <2>4
<1>5. CASE HandleMenu(inputs)
  <2>1. pc' = "update" /\ UNCHANGED <<given, modal, busy, hosts, hostSel, listening, pairer, latePop, session, installs>>
    BY <1>5 DEF HandleMenu
  <2> DEFINE MenuTypes ==
        /\ stack' \in Seq(ScreenNames) /\ pairing' \in BOOLEAN /\ left' \in BOOLEAN
        /\ running' \in BOOLEAN /\ reason' \in Reasons
        /\ scan' \in {"no", "searching", "listed"} /\ checks' \in 0..MaxChecks
  <2>2. MenuTypes
    <3>1. ASSUME NEW item \in Items, Activate(item)
          PROVE  MenuTypes
      <4>1. CASE item = "scan"
        BY <3>1, <4>1 DEF Activate, ScreenNames
      <4>2. CASE item \in ScreenNames
        <5>1. Push(item) /\ UNCHANGED <<quitVars, scan, checks>>
          BY <3>1, <4>2 DEF Activate, ScreenNames
        <5>2. UNCHANGED <<running, reason, scan, checks>>
          BY <5>1
        <5>3. /\ stack' \in Seq(ScreenNames)
              /\ pairing' \in BOOLEAN /\ left' \in BOOLEAN
          BY <5>1, <1>1, <4>2
        <5> HIDE <1>1
        <5> QED BY <5>2, <5>3
      <4>3. CASE item = "update"
        <5>1. checks' = checks + 1 /\ checks < MaxChecks
          BY <3>1, <4>3 DEF Activate, ScreenNames
        <5>2. UNCHANGED <<quitVars, stack, pairing, left, scan>>
          BY <3>1, <4>3 DEF Activate, ScreenNames
        <5> QED BY <5>1, <5>2
      <4>4. CASE item = "exit"
        BY <3>1, <4>4 DEF Activate, ScreenNames, Quit, Reasons
      <4> QED BY <3>1, <4>1, <4>2, <4>3, <4>4 DEF Activate
    <3> QED BY <1>5, <3>1 DEF HandleMenu, Quit, Reasons
  <2> QED BY <2>1, <2>2
<1>6. CASE HandleSettings(inputs)
  BY <1>6, <1>2 DEF HandleSettings, Back, Modals
<1>7. CASE HandleReading(inputs)
  BY <1>7, <1>2 DEF HandleReading
<1>8. CASE HandlePair(inputs)
  BY <1>8, <1>2 DEF HandlePair
<1>9. CASE HandleBluetooth(inputs)
  <2>1. pc' = "update" /\ UNCHANGED <<quitVars, given, modal, busy, homeVars, pairer, latePop, checks, installs>>
    BY <1>9 DEF HandleBluetooth
  <2>2. stack' \in Seq(ScreenNames)
    BY <1>9, <1>1, <1>2 DEF HandleBluetooth, ScreenNames
  <2>3. session' \in BOOLEAN /\ pairing' \in BOOLEAN /\ left' \in BOOLEAN
    BY <1>9, <1>1, <1>2 DEF HandleBluetooth, ScreenNames
  <2> QED BY <2>1, <2>2, <2>3
<1> QED BY <1>3, <1>4, <1>5, <1>6, <1>7, <1>8, <1>9 DEF Handlers

\* Every step of Screens keeps the types.
LEMMA TypeStep ==
  ASSUME TypeOK, [Next]_vars
  PROVE  TypeOK'
<1>0. stack # <<>> => Top \in ScreenNames /\ Popped \in Seq(ScreenNames)
  BY PushPopTypes DEF TypeOK
<1>1. CASE \E inputs \in Inputs : Handlers(inputs)
  BY <1>1, HandlerTypes
<1> USE ScreensAssumption DEF TypeOK, loopVars, quitVars, homeVars, pairVars, otherVars, ScreensAssumption
<1>2. CASE IntroEnds \/ Poll \/ LoopEnds \/ NoScreen \/ Render \/ SdlQuit \/ HandleButtonTest
  <2>1. UNCHANGED <<stack, modal, busy, homeVars, pairVars, otherVars>>
    BY <1>2 DEF IntroEnds, Poll, LoopEnds, NoScreen, Render, SdlQuit, HandleButtonTest
  <2>4. UNCHANGED given \/ given' = modal
    BY <1>2 DEF IntroEnds, Poll, LoopEnds, NoScreen, Render, SdlQuit, HandleButtonTest
  <2>2. pc' \in {"intro", "poll", "modal", "screen", "update", "render", "end"}
    BY <1>2 DEF IntroEnds, Poll, LoopEnds, NoScreen, Render, SdlQuit, HandleButtonTest, Raise
  <2>3. UNCHANGED quitVars \/ (running' = FALSE /\ reason' \in Reasons)
    BY <1>2 DEF IntroEnds, Poll, LoopEnds, NoScreen, Render, SdlQuit, HandleButtonTest, Quit, Raise, Reasons
  <2> QED BY <2>1, <2>2, <2>3, <2>4
<1>3. CASE Update
  BY <1>3, <1>0 DEF Update, Pop
<1>4. CASE \E n \in 0..MaxHosts : ScanFound(n)
  BY <1>4 DEF ScanFound
<1>5. CASE ScanDone
  BY <1>5 DEF ScanDone
<1>12. CASE SessionEnds
  <2>1. session' \in BOOLEAN
    BY <1>12 DEF SessionEnds
  <2> QED BY <1>12, <2>1 DEF SessionEnds
<1>6. CASE LateAnswer
  <2>1. hosts' \in 0..MaxHosts
    BY <1>6 DEF LateAnswer
  <2> QED BY <1>6, <2>1 DEF LateAnswer
<1>10. CASE CheckEnds
  <2>1. checks' \in 0..MaxChecks
    BY <1>10 DEF CheckEnds
  <2>2. modal' \in Modals /\ busy' \in BOOLEAN
    BY <1>10 DEF CheckEnds, Modals
  <2> QED BY <1>10, <2>1, <2>2 DEF CheckEnds
<1>11. CASE InstallEnds
  <2>1. installs' \in 0..MaxChecks
    BY <1>11 DEF InstallEnds
  <2>2. running' \in BOOLEAN /\ reason' \in Reasons
    BY <1>11 DEF InstallEnds, Quit, Reasons
  <2> QED BY <1>11, <2>1, <2>2 DEF InstallEnds
<1>7. CASE PairAnswers
  BY <1>7 DEF PairAnswers
<1>8. CASE PairPops
  BY <1>8, <1>0 DEF PairPops
<1>9. CASE UNCHANGED vars
  BY <1>9 DEF vars
<1> QED BY <1>1, <1>2, <1>3, <1>4, <1>5, <1>6, <1>7, <1>8, <1>9, <1>10, <1>11, <1>12
    DEF Next, Loop, Threads

\* The types hold at the start.
LEMMA InitTypes == Init => TypeOK
<1> SUFFICES ASSUME Init PROVE TypeOK
  OBVIOUS
<1>1. stack \in Seq(ScreenNames)
  BY DEF Init, ScreenNames
<1>2. checks \in 0..MaxChecks /\ installs \in 0..MaxChecks /\ hosts \in 0..MaxHosts
  BY ScreensAssumption DEF Init, ScreensAssumption
<1> QED BY <1>1, <1>2 DEF Init, TypeOK, Modals, Reasons

\* The variables keep their types (the state of engine.py, home.py, pair.py and
\* update.py that Screens models).
THEOREM ScreensTypes == Spec => []TypeOK
<1>1. TypeOK /\ [Next]_vars => TypeOK'
  BY TypeStep
<1> QED BY InitTypes, <1>1, PTL DEF Spec

-----------------------------------------------------------------------------
(* The list of consoles.                                                   *)

\* The keys of a list that is shown leave its selection in it, and no scan is over.
LEMMA ListKeys ==
  ASSUME TypeOK, ListInv, NEW inputs \in Inputs, HandleList(inputs)
  PROVE  ListInv' /\ (Selected => Selected')
<1>1. hosts \in Nat \ {0} /\ hostSel \in Nat
  BY DEF TypeOK, HandleList
<1>2. (hostSel + 1) % hosts \in 0..hosts - 1 /\ (hostSel + hosts - 1) % hosts \in 0..hosts - 1
  BY <1>1
<1>3. UNCHANGED scan
  BY DEF HandleList
<1>4. \/ UNCHANGED <<hosts, hostSel, listening>>
      \/ UNCHANGED <<hosts, listening>> /\ hostSel' \in {(hostSel + 1) % hosts, (hostSel + hosts - 1) % hosts}
      \/ hosts' = 0 /\ hostSel' = 0
  BY DEF HandleList, LeaveList
<1> QED BY <1>1, <1>2, <1>3, <1>4 DEF ListInv, Selected

\* Every step keeps the list's invariant, and the selection as SelectionIsTaken says.
LEMMA ListStep ==
  ASSUME TypeOK, ListInv, [Next]_vars
  PROVE  ListInv' /\ SelectionStep
<1>1. ASSUME NEW inputs \in Inputs, HandleList(inputs)
      PROVE  ListInv' /\ SelectionStep
  BY <1>1, ListKeys DEF SelectionStep
<1>2. CASE UNCHANGED <<hosts, hostSel, scan, listening>>
  BY <1>2 DEF ListInv, Selected, SelectionStep
<1>3. ASSUME NEW n \in 0..MaxHosts, ScanFound(n)
      PROVE  ListInv' /\ SelectionStep
  <2>1. hosts' = n /\ scan' = "listed" /\ scan = "searching" /\ UNCHANGED hostSel
    BY <1>3 DEF ScanFound
  <2>2. hosts \in Nat /\ hostSel \in Nat /\ n \in Nat
    BY ScreensAssumption DEF TypeOK, ScreensAssumption
  <2>3. Selected /\ ~Selected' => hosts' < hosts /\ hosts > 0
    BY <2>1, <2>2 DEF Selected
  <2> QED BY <2>1, <2>3 DEF ListInv, SelectionStep
<1>4. CASE LateAnswer
  <2>1. hosts' = hosts + 1 /\ listening' /\ UNCHANGED <<hostSel, scan>>
    BY <1>4 DEF LateAnswer
  <2> QED BY <2>1 DEF ListInv, Selected, SelectionStep, TypeOK
<1>5. CASE ScanDone
  BY <1>5 DEF ScanDone, ListInv, Selected, SelectionStep
<1>6. ASSUME NEW inputs \in Inputs, HandleMenu(inputs)
      PROVE  ListInv' /\ SelectionStep
  <2>1. hosts = 0 /\ UNCHANGED <<hosts, hostSel, listening>>
    BY <1>6 DEF HandleMenu
  <2> QED BY <2>1 DEF ListInv, Selected, SelectionStep
<1> USE DEF loopVars, quitVars, homeVars, pairVars, otherVars
<1>7. ASSUME NEW inputs \in Inputs, Handlers(inputs), ~HandleList(inputs), ~HandleMenu(inputs)
      PROVE  UNCHANGED <<hosts, hostSel, scan, listening>>
  BY <1>7 DEF Handlers, HandleModal, HandleSettings, HandleReading, HandlePair, HandleBluetooth
<1>8. CASE Loop \/ SdlQuit \/ HandleButtonTest
  BY <1>2, <1>8 DEF Loop, IntroEnds, Poll, LoopEnds, NoScreen, Update, Render, SdlQuit, HandleButtonTest
<1>9. CASE CheckEnds \/ InstallEnds \/ PairAnswers \/ PairPops \/ SessionEnds
  BY <1>2, <1>9 DEF CheckEnds, InstallEnds, PairAnswers, PairPops, SessionEnds
<1>10. CASE UNCHANGED vars
  BY <1>2, <1>10 DEF vars
<1> QED BY <1>1, <1>2, <1>3, <1>4, <1>5, <1>6, <1>7, <1>8, <1>9, <1>10 DEF Next, Threads

\* A selected console leaves the list only when a scan replaces what late answers
\* have made of it by something shorter (home.py:81-88, 99-106, 168-192).
THEOREM ConsoleSelected == Spec => SelectionIsTaken
<1>1. Init => TypeOK /\ ListInv
  BY InitTypes DEF Init, ListInv
<1>2. TypeOK /\ ListInv /\ [Next]_vars => TypeOK' /\ ListInv' /\ SelectionStep
  BY TypeStep, ListStep
<1>3. SelectionStep => [Selected /\ ~Selected' => scan = "searching" /\ scan' = "listed" /\ listening /\ hosts' < hosts]_vars
  BY DEF SelectionStep
<1> QED BY <1>1, <1>2, <1>3, PTL DEF Spec, SelectionIsTaken

-----------------------------------------------------------------------------
(* The stack.                                                              *)

\* A screen that is not the home screen may be put on the stack, or taken off.
LEMMA HomeUnder ==
  ASSUME stack \in Seq(ScreenNames), HomeOnce
  PROVE  /\ \A s \in ScreenNames \ {"home"} : stack' = Append(stack, s) => HomeOnce' /\ Top' = s
         /\ Top # "home" /\ stack' = Popped => HomeOnce'
<1> USE DEF HomeOnce
<1>1. Len(stack) \in Nat /\ Len(stack) >= 1
  OBVIOUS
<1>2. ASSUME NEW s \in ScreenNames \ {"home"}, stack' = Append(stack, s)
      PROVE  HomeOnce' /\ Top' = s
  <2>1. Len(stack') = Len(stack) + 1
    BY <1>2
  <2>2. \A i \in 1..Len(stack) : stack'[i] = stack[i]
    BY <1>2
  <2>3. stack'[Len(stack) + 1] = s
    BY <1>2
  <2>4. stack'[1] = "home" /\ stack' # <<>>
    BY <1>1, <1>2, <2>1, <2>2
  <2>5. ASSUME NEW i \in 2..Len(stack')
        PROVE  stack'[i] # "home"
    <3>1. CASE i = Len(stack) + 1
      BY <1>2, <2>3, <3>1
    <3>2. CASE i # Len(stack) + 1
      <4>1. i \in 2..Len(stack)
        BY <1>1, <2>1, <2>5, <3>2
      <4> QED BY <2>2, <4>1
    <3> QED BY <3>1, <3>2
  <2> QED BY <2>1, <2>3, <2>4, <2>5 DEF Top
<1>3. ASSUME Top # "home", stack' = Popped
      PROVE  HomeOnce'
  <2>1. Len(stack) \in Nat /\ Len(stack) >= 2
    <3>1. Len(stack) # 1
      BY <1>3 DEF Top
    <3>2. \A n \in Nat : n >= 1 /\ n # 1 => n >= 2
      OBVIOUS
    <3> QED BY <1>1, <3>1, <3>2
  <2>2. /\ Len(stack') = Len(stack) - 1
        /\ \A i \in 1..Len(stack) - 1 : stack'[i] = stack[i]
    <3>1. \A i \in 1..Len(stack) - 1 : stack[i] \in ScreenNames
      BY <2>1
    <3>2. Len(stack) - 1 \in Int /\ 1 \in Int /\ 1 <= Len(stack) - 1
      BY <2>1
    <3>3. /\ Len(Popped) = Len(stack) - 1 - 1 + 1
          /\ \A i \in 1..Len(stack) - 1 - 1 + 1 : Popped[i] = stack[1 + i - 1]
      BY <3>1, <3>2, SubSeqProperties DEF Popped
    <3> QED BY <1>3, <2>1, <3>3
  <2>3. stack'[1] = "home"
    BY <2>1, <2>2
  <2>4. stack' # <<>>
    BY <2>1, <2>2
  <2>5. \A i \in 2..Len(stack') : stack'[i] # "home"
    BY <2>1, <2>2
  <2> QED BY <2>3, <2>4, <2>5
<1> QED BY <1>2, <1>3

\* The steps that put screens on the stack do so over a screen that is not
\* PairScreen; those that take one off find theirs on top.
LEMMA Pushed ==
  ASSUME TypeOK, StackInv, stack # <<>>, Top \in {"home", "bluetooth"},
         NEW s \in ScreenNames \ {"home"}, Push(s), UNCHANGED <<pairer, latePop>>
  PROVE  StackInv'
<1> SUFFICES ASSUME ~latePop PROVE HomeOnce' /\ (pairer' # "none" /\ ~left' => Top' = "pair")
  BY DEF StackInv
<1>1. HomeOnce /\ (pairer # "none" /\ ~left => Top = "pair")
  BY DEF StackInv
<1>2. HomeOnce'
  BY <1>1, HomeUnder DEF Push, TypeOK
<1>3. pairer # "none" => left
  BY <1>1
<1>4. pairer' # "none" => left'
  BY <1>3 DEF Push
<1> QED BY <1>2, <1>4

LEMMA PoppedOwn ==
  ASSUME TypeOK, StackInv, stack # <<>>, Top # "home", Pop, UNCHANGED <<pairer, latePop>>
  PROVE  StackInv'
<1> SUFFICES ASSUME ~latePop PROVE HomeOnce' /\ (pairer' # "none" /\ ~left' => Top' = "pair")
  BY DEF StackInv
<1>1. HomeOnce /\ (pairer # "none" /\ ~left => Top = "pair")
  BY DEF StackInv
<1>2. HomeOnce'
  BY <1>1, HomeUnder DEF Pop, TypeOK
<1>3. pairer # "none" => left \/ Top = "pair"
  BY <1>1
<1>4. pairer' # "none" => left'
  BY <1>3 DEF Pop
<1> QED BY <1>2, <1>4

\* The keys of the screens keep StackInv.
LEMMA StackKeys ==
  ASSUME TypeOK, StackInv, NEW inputs \in Inputs, Handlers(inputs)
  PROVE  StackInv'
<1> USE DEF quitVars, homeVars, pairVars, otherVars
<1>0. CASE UNCHANGED <<stack, pairer, left, latePop>>
  BY <1>0 DEF StackInv, HomeOnce, Top
<1>1. CASE HandleModal(inputs)
  BY <1>0, <1>1 DEF HandleModal
<1>2. CASE HandleList(inputs)
  <2>1. stack # <<>> /\ Top = "home" /\ UNCHANGED <<pairer, latePop>>
    BY <1>2 DEF HandleList, OnTop
  <2>2. UNCHANGED <<stack, left>> \/ Push("pair")
    BY <1>2 DEF HandleList
  <2>3. "pair" \in ScreenNames \ {"home"}
    BY DEF ScreenNames
  <2> QED BY <1>0, <2>1, <2>2, <2>3, Pushed
<1>3. CASE HandleMenu(inputs)
  <2>1. stack # <<>> /\ Top = "home" /\ UNCHANGED <<pairer, latePop>>
    BY <1>3 DEF HandleMenu, OnTop
  <2>2. UNCHANGED <<stack, left>> \/ \E s \in Items \cap ScreenNames : Push(s)
    BY <1>3 DEF HandleMenu, Activate
  <2>3. Items \cap ScreenNames \subseteq ScreenNames \ {"home"}
    BY DEF Items
  <2> QED BY <1>0, <2>1, <2>2, <2>3, Pushed
<1>4. CASE HandleSettings(inputs)
  <2>1. stack # <<>> /\ Top = "settings" /\ UNCHANGED <<pairer, latePop>>
    BY <1>4 DEF HandleSettings, OnTop
  <2>2. UNCHANGED <<stack, left>> \/ Pop
    BY <1>4 DEF HandleSettings, Back
  <2> QED BY <1>0, <2>1, <2>2, PoppedOwn
<1>5. CASE HandleReading(inputs)
  <2>1. stack # <<>> /\ Top \in {"guide", "info"} /\ UNCHANGED <<pairer, latePop>>
    BY <1>5 DEF HandleReading, OnTop
  <2>2. UNCHANGED <<stack, left>> \/ Pop
    BY <1>5 DEF HandleReading
  <2> QED BY <1>0, <2>1, <2>2, PoppedOwn
<1>6. CASE HandlePair(inputs)
  <2>1. stack # <<>> /\ Top = "pair" /\ UNCHANGED latePop
    BY <1>6 DEF HandlePair, OnTop
  <2>2. \/ Pop /\ UNCHANGED pairer
        \/ UNCHANGED stack
    BY <1>6 DEF HandlePair
  <2>3. CASE UNCHANGED stack
    BY <2>1, <2>3 DEF StackInv, HomeOnce, Top
  <2> QED BY <2>1, <2>2, <2>3, PoppedOwn
<1>7. CASE HandleBluetooth(inputs)
  <2>1. stack # <<>> /\ Top = "bluetooth" /\ UNCHANGED <<pairer, latePop>>
    BY <1>7 DEF HandleBluetooth, OnTop
  <2>2. UNCHANGED <<stack, left>> \/ Pop \/ Push("button_test")
    BY <1>7 DEF HandleBluetooth
  <2>3. "button_test" \in ScreenNames \ {"home"}
    BY DEF ScreenNames
  <2> QED BY <1>0, <2>1, <2>2, <2>3, Pushed, PoppedOwn
<1> QED BY <1>1, <1>2, <1>3, <1>4, <1>5, <1>6, <1>7 DEF Handlers

\* Every step keeps StackInv.
LEMMA StackStep ==
  ASSUME TypeOK, StackInv, [Next]_vars
  PROVE  StackInv'
<1>1. CASE \E inputs \in Inputs : Handlers(inputs)
  BY <1>1, StackKeys
<1> USE DEF loopVars, quitVars, homeVars, pairVars, otherVars
<1>2. CASE UNCHANGED <<stack, pairer, left, latePop>>
  BY <1>2 DEF StackInv, HomeOnce, Top
<1>3. CASE IntroEnds \/ Poll \/ LoopEnds \/ NoScreen \/ Render \/ SdlQuit \/ HandleButtonTest
  BY <1>2, <1>3 DEF IntroEnds, Poll, LoopEnds, NoScreen, Render, SdlQuit, HandleButtonTest
<1>4. CASE Update
  <2>1. stack # <<>> /\ UNCHANGED <<pairer, latePop>>
    BY <1>4 DEF Update
  <2>2. UNCHANGED <<stack, left>> \/ (Top = "button_test" /\ Pop)
    BY <1>4 DEF Update
  <2> QED BY <1>2, <2>1, <2>2, PoppedOwn
<1>5. CASE (\E n \in 0..MaxHosts : ScanFound(n)) \/ ScanDone \/ LateAnswer \/ SessionEnds
  BY <1>2, <1>5 DEF ScanFound, ScanDone, LateAnswer, SessionEnds
<1>6. CASE CheckEnds \/ InstallEnds
  BY <1>2, <1>6 DEF CheckEnds, InstallEnds
<1>7. CASE PairAnswers
  <2>1. UNCHANGED <<stack, latePop>> /\ pairer = "registering"
    BY <1>7 DEF PairAnswers
  <2>2. (pairer' = "success" /\ UNCHANGED left) \/ pairer' = "none"
    BY <1>7 DEF PairAnswers
  <2> QED BY <2>1, <2>2 DEF StackInv, HomeOnce, Top
<1>8. CASE PairPops
  <2>1. pairer = "success" /\ pairer' = "none" /\ stack' = IF stack = <<>> THEN stack ELSE Popped
    BY <1>8 DEF PairPops
  <2>2. ~latePop' => ~latePop /\ ~left
    BY <1>8 DEF PairPops, TypeOK
  <2> SUFFICES ASSUME ~latePop' PROVE HomeOnce'
    BY <2>1 DEF StackInv
  <2>3. HomeOnce /\ Top = "pair"
    BY <2>1, <2>2 DEF StackInv
  <2>4. stack' = Popped
    BY <2>1, <2>3 DEF HomeOnce
  <2> QED BY <2>3, <2>4, HomeUnder DEF TypeOK
<1>9. CASE UNCHANGED vars
  BY <1>2, <1>9 DEF vars
<1> QED BY <1>1, <1>3, <1>4, <1>5, <1>6, <1>7, <1>8, <1>9 DEF Next, Loop, Threads

\* The home screen stays at the bottom of the stack, unless the registration's
\* thread pops a screen after its own was left (engine.py:136-146, pair.py:229-231).
THEOREM HomeStaysAtBottom == Spec => []HomeIsBottom
<1>1. Init => TypeOK /\ StackInv
  <2>1. Init => HomeOnce /\ pairer = "none"
    BY DEF Init, HomeOnce
  <2> QED BY InitTypes, <2>1 DEF StackInv
<1>2. TypeOK /\ StackInv /\ [Next]_vars => TypeOK' /\ StackInv'
  BY TypeStep, StackStep
<1>3. StackInv => HomeIsBottom
  BY DEF StackInv, HomeOnce, HomeIsBottom
<1> QED BY <1>1, <1>2, <1>3, PTL DEF Spec
=============================================================================
