\* One event with two seats; two calls take one or two, two reads of the
\* city's list, a filtered list or the event; anything may fail.
CONSTANTS
  Absent = Absent
  CityList = city
  Lists = {city, filtered}
  Details = {event}
  Takers = {t1, t2}
  Readers = {r1, r2}
  Seats = 2
  Quantities = {1, 2}
  Faults = TRUE
SPECIFICATION DiscoverySpec
CHECK_DEADLOCK FALSE
INVARIANTS DiscoveryTypeOK CityStaleIsExplained
