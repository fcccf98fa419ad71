\* Two requests at a time, any number one after the other, from a buyer and
\* a partner; two bookings per window of two ticks; one restart of the booking
\* service in any two ticks; handlers may die.  Categories have their own run.
CONSTANTS
  None = None
  Calls = {c1, c2}
  Buyers = {b1}
  Partners = {p1}
  People = {b1, p1}
  MaxRequests = 2
  Window = 2
  MaxRestarts = 1
  Codes = {}
  Emails = {noreply, m1}
  NoReply = noreply
  Faults = TRUE
SPECIFICATION FrontSpec
SYMMETRY Symmetry
CHECK_DEADLOCK FALSE
INVARIANTS FrontTypeOK WorksForItsCaller WithinLimit
PROPERTIES PartnersWriteTheirOwn
