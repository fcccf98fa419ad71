\* Two requests at a time about two category codes, which updates may swap;
\* the routes of categories take no token, and internal ones run beside them.
CONSTANTS
  None = None
  Calls = {c1, c2}
  Buyers = {}
  Partners = {}
  People = {}
  MaxRequests = 1
  Window = 1
  MaxRestarts = 0
  Codes = {k1, k2}
  Emails = {noreply}
  NoReply = noreply
  Faults = TRUE
SPECIFICATION FrontSpec
SYMMETRY Symmetry
CHECK_DEADLOCK FALSE
INVARIANTS OneRowPerCode
PROPERTIES HiddenUntilUpdated
