--------------------------- MODULE MCDailyPasses ---------------------------
(* Model values for TLC: every attendee registered with the employee e1.   *)
EXTENDS DailyPasses, TLC

CONSTANT e1

OneFamily == [a \in Attendees |-> e1]
=============================================================================
