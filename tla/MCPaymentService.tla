-------------------------- MODULE MCPaymentService --------------------------
(* Small instances of the payment service on its own, with every call the  *)
(* booking service could make.                                             *)
EXTENDS PaymentService, TLC

Symmetry == Permutations(Requests) \cup Permutations(Captures) \cup Permutations(Keys)
=============================================================================
