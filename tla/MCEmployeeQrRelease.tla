----------------------- MODULE MCEmployeeQrRelease -----------------------
(* Model values for TLC: see the .cfg files.  Processes are                *)
(* interchangeable, and so are attendees, in the runs without liveness.    *)
EXTENDS EmployeeQrRelease, TLC

Symmetry == Permutations(Processes) \cup Permutations(Attendees)
=============================================================================
