----------------------------- MODULE RadioLoan -----------------------------
(***************************************************************************)
(* What the Bluetooth backend promises the stock system: it takes the      *)
(* stock Bluetooth service down only after it has written down that it     *)
(* owes it, and forgets the debt only once the service is up again.        *)
(***************************************************************************)
VARIABLES stock, owed

Init == stock \in BOOLEAN /\ owed = FALSE

Borrow == owed' = TRUE /\ UNCHANGED stock
Take == owed /\ stock' = FALSE /\ UNCHANGED owed
Return == stock' = TRUE /\ UNCHANGED owed
Settle == stock /\ owed' = FALSE /\ UNCHANGED stock

Next == Borrow \/ Take \/ Return \/ Settle
Spec == Init /\ [][Next]_<<stock, owed>>
=============================================================================
