\* Two requests race for up to two of two or three seats and two keys; one confirm call
\* of any content; processes and connections may fail.
CONSTANTS
  None = None
  Requests = {r1, r2}
  Captures = {c1}
  Cancels = {}
  Keys = {k1, k2}
  Events = {e1}
  SeatCounts = {2, 3}
  MaxQty = 2
  Faults = TRUE
SPECIFICATION BookingSpec
SYMMETRY Symmetry
CHECK_DEADLOCK FALSE
INVARIANTS NoOversell OneWinnerPerVersion KeyNamesOneBooking
PROPERTIES ImplementsLedger RefusalHasWinner
