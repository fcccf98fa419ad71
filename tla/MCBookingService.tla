------------------------- MODULE MCBookingService -------------------------
(* Small instances of the booking service on its own, with every answer   *)
(* the payment and notification services could give.                      *)
EXTENDS BookingService, TLC

(* Requests are interchangeable, and so are captures and keys. *)
Symmetry == Permutations(Requests) \cup Permutations(Captures) \cup Permutations(Keys)
============================================================================
