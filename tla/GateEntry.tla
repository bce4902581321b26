----------------------------- MODULE GateEntry -----------------------------
(***************************************************************************)
(* What check-in promises (src/docs/PRE_PRODUCTION_AUDIT.md, "Physical     *)
(* Duplicate Prevention"; checkin.service.ts, "it can only be redeemed     *)
(* once in total"): a pass lets one person in per event date, an Any Day   *)
(* pass on one date only, until the entry is reversed.                     *)
(***************************************************************************)
EXTENDS Naturals

CONSTANTS Attendees, Dates, AnyDay

VARIABLE inside  \* entries granted and not reversed, by pass and date

Init == inside = [a \in Attendees |-> [d \in Dates |-> 0]]

Enter(a, d) == /\ \A e \in Dates : (e = d \/ a \in AnyDay) => inside[a][e] = 0
               /\ inside' = [inside EXCEPT ![a][d] = 1]

Reverse(a, d) == /\ inside[a][d] = 1
                 /\ inside' = [inside EXCEPT ![a][d] = 0]

Next == \E a \in Attendees, d \in Dates : Enter(a, d) \/ Reverse(a, d)

Spec == Init /\ [][Next]_inside
=============================================================================
