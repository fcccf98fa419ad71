\* One event, one publish call, two searches; nothing fails.
CONSTANTS
  None = None
  CatalogEvents = {e1}
  Publishes = {p1}
  Queries = {q1}
  Searches = {s1, s2}
  Faults = FALSE
SPECIFICATION PipelineSpec
CHECK_DEADLOCK FALSE
INVARIANTS FreshAfterIngest
