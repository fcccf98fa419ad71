\* One event, two publish calls; the partner tries again, calls may be lost.
CONSTANTS
  None = None
  CatalogEvents = {e1}
  Publishes = {p1, p2}
  Queries = {q1}
  Searches = {}
  Faults = TRUE
SPECIFICATION RepublishSpec
CHECK_DEADLOCK FALSE
PROPERTIES RepublishWorks
