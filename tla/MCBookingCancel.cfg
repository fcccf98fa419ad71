\* Two requests, two keys, and two cancellations that may overlap each other;
\* processes and connections may fail.
CONSTANTS
  None = None
  Requests = {r1, r2}
  Captures = {}
  Cancels = {x1, x2}
  Keys = {k1, k2}
  Events = {e1}
  SeatCounts = {3}
  MaxQty = 2
  Faults = TRUE
SPECIFICATION BookingSpec
SYMMETRY Symmetry
CHECK_DEADLOCK FALSE
INVARIANTS BookingTypeOK SeatConservation
