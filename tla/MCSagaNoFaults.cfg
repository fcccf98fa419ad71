\* Two requests for up to two of two seats, with one key or two; two captures
\* that may overlap; nothing fails.
CONSTANTS
  None = None
  Requests = {r1, r2}
  Captures = {c1, c2}
  Cancels = {}
  Keys = {k1, k2}
  Events = {e1}
  SeatCounts = {2}
  MaxQty = 2
  Faults = FALSE
  Overlap = TRUE
SPECIFICATION FairSpec
CHECK_DEADLOCK FALSE
INVARIANTS LinkSound TicketsBackedByCaptures StrandedOnlyByBadMethod
PROPERTIES RetriesTakeNoSeats CaptureReachesBooking BuyerIsNotified
