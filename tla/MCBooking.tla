----------------------------- MODULE MCBooking ------------------------------
(* Every page has the same mobile number. *)
EXTENDS Booking, TLC

Symmetry == Permutations(Handlers) \cup Permutations(Orders)

MCMobile == [p \in Pages |-> CHOOSE m \in Mobiles : TRUE]
=============================================================================
