--------------------------- MODULE MCEventControl ---------------------------
(* Model values for TLC. *)
EXTENDS EventControl, TLC

AdminSymmetry == Permutations(Admins)
=============================================================================
