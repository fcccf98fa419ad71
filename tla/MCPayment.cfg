\* Three createPayment calls for any bookings and keys, with failures.
CONSTANTS
  None = None
  Requests = {r1, r2, r3}
  Captures = {}
  Keys = {k1, k2}
  Faults = TRUE
  Overlap = TRUE
SPECIFICATION PaymentSpec
SYMMETRY Symmetry
CHECK_DEADLOCK FALSE
INVARIANTS OnePaymentPerKey OnePaymentPerBooking OutboxTellsOfPayments
