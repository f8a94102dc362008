---------------------------- MODULE MCHidServer ----------------------------
(***************************************************************************)
(* TLC instances of HidServer: two reports, queues of three packets.       *)
(***************************************************************************)
EXTENDS HidServer, TLC

CONSTANTS neutral, pressed, tilted, iphone, android, stranger

MCReports == {neutral, pressed}
ThreeReports == MCReports \cup {tilted}
TwoPhones == {iphone, android, stranger}
TwoPaired == {iphone, android}
OnePhoneOnly == {iphone}

\* every transaction controlResponse tells apart; none; the ones that pause the link
AllControl == {"request", "unplug", "suspend", "exit_suspend", "set_protocol", "reset"}
StateControl == AllControl \ {"request"}
PauseControl == {"suspend", "exit_suspend"}
NoControl == {}

Phones == Permutations(TwoPaired)
=============================================================================
