\* One request, two captures; a call may be lost, and the client keeps trying.
CONSTANTS
  None = None
  Requests = {r1}
  Captures = {c1, c2}
  Cancels = {}
  Keys = {k1}
  Events = {e1}
  SeatCounts = {1}
  MaxQty = 1
  Faults = TRUE
  Overlap = FALSE
SPECIFICATION RetrySpec
CHECK_DEADLOCK FALSE
PROPERTIES CaptureReachesBooking
