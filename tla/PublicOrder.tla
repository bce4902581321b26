---------------------------- MODULE PublicOrder ----------------------------
(***************************************************************************)
(* What a customer may rely on about a public order, without requests,     *)
(* locks, events or pages: an order is placed once, it becomes PAID only   *)
(* after the gateway took the money for it, and a deleted order stays      *)
(* deleted.  Booking and PaymentConfirmation both implement it, each with  *)
(* the part of the other as one step.                                      *)
(***************************************************************************)
CONSTANTS Orders,
          TestOrders  \* staging test payments write an order PAID at once

VARIABLES order,      \* commercial_orders.order_status
          captured    \* the gateway holds the customer's money

vars == <<order, captured>>

Init == /\ order = [o \in Orders |-> "none"]
        /\ captured = [o \in Orders |-> FALSE]

(* An order changes from one of the given states. *)
Move(o, from, to) == /\ order[o] \in from
                     /\ order' = [order EXCEPT ![o] = to]
                     /\ UNCHANGED captured

Place(o)     == Move(o, {"none"}, "PENDING")
PlaceTest(o) == TestOrders /\ Move(o, {"none"}, "PAID")
Confirm(o)   == captured[o] /\ Move(o, {"PENDING", "CANCELLED"}, "PAID")
Cancel(o)    == Move(o, {"PENDING", "PAID"}, "CANCELLED")
Delete(o)    == Move(o, {"PENDING", "PAID", "CANCELLED"}, "deleted")

(* Money may still be taken for an order that was deleted meanwhile, but   *)
(* for none that was never placed.                                         *)
Capture(o) == /\ order[o] # "none" /\ ~captured[o]
              /\ captured' = [captured EXCEPT ![o] = TRUE]
              /\ UNCHANGED order

Next == \E o \in Orders : \/ Place(o) \/ PlaceTest(o) \/ Confirm(o)
                          \/ Cancel(o) \/ Delete(o) \/ Capture(o)

Spec == Init /\ [][Next]_vars
=============================================================================
