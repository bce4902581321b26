----------------------------- MODULE MCCheckin -----------------------------
(* Model values for TLC.  a1 and a3 are booked for d1, a2 has an Any Day   *)
(* pass; handlers are interchangeable where no liveness is checked.        *)
EXTENDS Checkin, TLC

CONSTANTS a1, a2, a3, d1, d2

BookedD1 == [a \in Attendees |-> IF a = a2 THEN {} ELSE {d1}]

Symmetry == Permutations(Handlers)
=============================================================================
