\* Two requests, two keys and two captures, a client starting one only when
\* the other is over, with failures.
CONSTANTS
  None = None
  Requests = {r1, r2}
  Captures = {c1, c2}
  Cancels = {}
  Keys = {k1, k2}
  Events = {e1}
  SeatCounts = {1}
  MaxQty = 1
  Faults = TRUE
  Overlap = FALSE
SPECIFICATION FairSpec
CHECK_DEADLOCK FALSE
INVARIANTS CapturedIsLinked OneTicketPerSeat TicketsBackedByCaptures
PROPERTIES RequestsEnd CapturesEnd RunsBookingService RunsPaymentService ImplementsSale
