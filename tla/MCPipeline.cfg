\* One event, two publish calls that race for it or repeat each other, one
\* pair of searches; anything may fail.
CONSTANTS
  None = None
  CatalogEvents = {e1}
  Publishes = {p1, p2}
  Queries = {q1}
  Searches = {s1, s2}
  Faults = TRUE
SPECIFICATION PipelineSpec
CHECK_DEADLOCK FALSE
INVARIANTS PublishedIsOnSale AnnouncedOnce IndexedIsOnSale SuggestedIsIndexed
  UnindexedIsExplained StaleResultIsExplained
PROPERTIES ImplementsLife PublishedIsSearchable
