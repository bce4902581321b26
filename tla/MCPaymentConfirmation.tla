----------------------- MODULE MCPaymentConfirmation -----------------------
(* Model values for TLC: see the .cfg files.  Handlers are interchangeable *)
(* in the runs without liveness.                                           *)
EXTENDS PaymentConfirmation, TLC

Symmetry == Permutations(Handlers)
=============================================================================
