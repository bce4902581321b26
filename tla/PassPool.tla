------------------------------ MODULE PassPool ------------------------------
(***************************************************************************)
(* What the allocation machinery promises the administrator, without       *)
(* agents, sub-agents or rows: passes of one type are granted, unsold ones *)
(* are withdrawn, and nobody ever sells a pass that was not granted.       *)
(***************************************************************************)
EXTENDS Naturals

CONSTANT Quantities     \* the quantities one request may name

VARIABLES granted,      \* passes the administrator has put in circulation
          sold          \* passes sold to customers

vars == <<granted, sold>>

Init == granted = 0 /\ sold = 0

Grant(q) == granted' = granted + q /\ UNCHANGED sold

Withdraw(q) == /\ granted - q >= sold
               /\ granted' = granted - q
               /\ UNCHANGED sold

Sell(q) == /\ sold + q <= granted
           /\ sold' = sold + q
           /\ UNCHANGED granted

Next == \E q \in Quantities : Grant(q) \/ Withdraw(q) \/ Sell(q)

Spec == Init /\ [][Next]_vars
=============================================================================
