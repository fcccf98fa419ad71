---------------------------- MODULE DiscoveryCache ----------------------------
(***************************************************************************)
(* The public reads of the booking service and their Redis cache:          *)
(* discoverEvents and getEventById fill one key per query, and             *)
(* publishFromCatalog and decrementSeats, after they changed a row, delete *)
(* a single one of these keys, the list of the row's city without filters. *)
(* One event is followed; a cached value is what it says of that event.    *)
(***************************************************************************)
EXTENDS Integers, FiniteSets

CONSTANTS
  Lists,     \* list queries that match the event, each a cache key
  Details,   \* ids the event is read by: its own and its catalogue id
  CityList,  \* the list of the event's city, spelt as the row spells it
  Takers,    \* decrementSeats calls
  Readers,   \* GET events and GET events/:id calls
  Seats,     \* totalSeats of the event
  Quantities,\* numbers of tickets a call takes
  Absent,    \* there is no row
  Faults     \* TRUE when calls may fail and Redis may be off

ASSUME DiscoveryAssumption ==
  /\ CityList \in Lists /\ Lists \cap Details = {}
  /\ Seats \in Nat /\ Quantities \subseteq Nat \ {0}
  /\ Absent \notin Nat /\ Faults \in BOOLEAN

VARIABLES
  seats,      \* availableSeats of the row, Absent before it is published
  cache,      \* per query: is there a value, the value, and whether the row
              \* had changed between the read and the write of that value
  publisher,  \* the publishFromCatalog call
  taker,      \* decrementSeats calls
  reader      \* discoverEvents and getEventById calls

discoveryVars == <<seats, cache, publisher, taker, reader>>

Views == Lists \cup Details
SeatsOrAbsent == (0 .. Seats) \cup {Absent}
WriterState == {"idle", "invalidate", "done", "skipped", "failed"}

(* The value of a key, and raced, a record of how it came about.           *)
NotCached == [full |-> FALSE, value |-> Absent, raced |-> FALSE]
Cached(value, raced) == [full |-> TRUE, value |-> value, raced |-> raced]

ReaderType ==
  [pc : {"idle", "query", "fill", "done", "failed"}, view : Views, value : SeatsOrAbsent]

DiscoveryTypeOK ==
  /\ seats \in SeatsOrAbsent
  /\ cache \in [Views -> [full : BOOLEAN, value : SeatsOrAbsent, raced : BOOLEAN]]
  /\ publisher \in WriterState
  /\ taker \in [Takers -> WriterState \cup {"reread"}]
  /\ reader \in [Readers -> ReaderType]

DiscoveryInit ==
  /\ seats = Absent
  /\ cache = [v \in Views |-> NotCached]
  /\ publisher = "idle"
  /\ taker = [t \in Takers |-> "idle"]
  /\ reader = [r \in Readers |-> [pc |-> "idle", view |-> CityList, value |-> Absent]]

-----------------------------------------------------------------------------
(* Writers *)

(* invalidateDiscoveryCache: the key has the city and no other part.       *)
StaysCachedById(v) == v \in Lists  \* mutant: the key is built from the id, as for an event
StaysCached(v) == v # CityList

Invalidated == [v \in Views |-> IF StaysCached(v) THEN cache[v] ELSE NotCached]

PublishRow ==
  /\ publisher = "idle" /\ seats = Absent
  /\ seats' = Seats
  /\ publisher' = "invalidate"
  /\ UNCHANGED <<cache, taker, reader>>

(* RedisService.del does nothing when Redis is off.                        *)
PublishInvalidate ==
  /\ publisher = "invalidate"
  /\ \/ cache' = Invalidated /\ publisher' = "done"
     \/ Faults /\ publisher' = "skipped" /\ UNCHANGED cache
  /\ UNCHANGED <<seats, taker, reader>>

PublishError ==
  /\ Faults /\ publisher = "invalidate"
  /\ publisher' = "failed"
  /\ UNCHANGED <<seats, cache, taker, reader>>

(* The UPDATE with its condition; the version only refuses more of them.   *)
EnoughSeatsUnchecked(q) == TRUE  \* mutant: no availableSeats: { gte: quantity }
EnoughSeats(q) == seats >= q

TakeSeats(t, q) ==
  /\ taker[t] = "idle" /\ seats # Absent
  /\ EnoughSeats(q)
  /\ seats' = seats - q
  /\ taker' = [taker EXCEPT ![t] = "reread"]
  /\ UNCHANGED <<cache, publisher, reader>>

TakeReread(t) ==
  /\ taker[t] = "reread"
  /\ taker' = [taker EXCEPT ![t] = "invalidate"]
  /\ UNCHANGED <<seats, cache, publisher, reader>>

TakeInvalidate(t) ==
  /\ taker[t] = "invalidate"
  /\ \/ cache' = Invalidated /\ taker' = [taker EXCEPT ![t] = "done"]
     \/ Faults /\ taker' = [taker EXCEPT ![t] = "skipped"] /\ UNCHANGED cache
  /\ UNCHANGED <<seats, publisher, reader>>

TakeError(t) ==
  /\ Faults /\ taker[t] \in {"reread", "invalidate"}
  /\ taker' = [taker EXCEPT ![t] = "failed"]
  /\ UNCHANGED <<seats, cache, publisher, reader>>

-----------------------------------------------------------------------------
(* Readers *)

ReadLookup(r, v) ==
  /\ reader[r].pc = "idle"
  /\ \/ /\ cache[v].full
        /\ reader' = [reader EXCEPT ![r] = [pc |-> "done", view |-> v, value |-> cache[v].value]]
     \/ /\ ~cache[v].full \/ Faults  \* RedisService.get: Redis off is a miss
        /\ reader' = [reader EXCEPT ![r] = [pc |-> "query", view |-> v, value |-> Absent]]
  /\ UNCHANGED <<seats, cache, publisher, taker>>

(* A list is cached even if it is empty, an event only if it was found.    *)
ReadQuery(r) ==
  LET fills == reader[r].view \in Lists \/ seats # Absent IN
  /\ reader[r].pc = "query"
  /\ reader' = [reader EXCEPT ![r].pc = IF fills THEN "fill" ELSE "done", ![r].value = seats]
  /\ UNCHANGED <<seats, cache, publisher, taker>>

ReadFill(r) ==
  /\ reader[r].pc = "fill"
  /\ \/ cache' = [cache EXCEPT ![reader[r].view] =
                    Cached(reader[r].value, reader[r].value # seats)]
     \/ Faults /\ UNCHANGED cache
  /\ reader' = [reader EXCEPT ![r].pc = "done"]
  /\ UNCHANGED <<seats, publisher, taker>>

ReadError(r) ==
  /\ Faults /\ reader[r].pc \in {"idle", "query", "fill"}
  /\ reader' = [reader EXCEPT ![r].pc = "failed"]
  /\ UNCHANGED <<seats, cache, publisher, taker>>

(* The TTL of 60 seconds for lists and 120 for an event.                   *)
ViewExpires(v) ==
  /\ cache[v].full
  /\ cache' = [cache EXCEPT ![v] = NotCached]
  /\ UNCHANGED <<seats, publisher, taker, reader>>

DiscoveryNext ==
  \/ PublishRow \/ PublishInvalidate \/ PublishError
  \/ \E t \in Takers :
       \/ \E q \in Quantities : TakeSeats(t, q)
       \/ TakeReread(t) \/ TakeInvalidate(t) \/ TakeError(t)
  \/ \E r \in Readers :
       \/ \E v \in Views : ReadLookup(r, v)
       \/ ReadQuery(r) \/ ReadFill(r) \/ ReadError(r)
  \/ \E v \in Views : ViewExpires(v)

DiscoverySpec == DiscoveryInit /\ [][DiscoveryNext]_discoveryVars

-----------------------------------------------------------------------------
Unfinished == {"reread", "invalidate", "skipped", "failed"}

(* When the city's list in the cache differs from the table, either some   *)
(* writer has not deleted it yet, or never will because it failed or found *)
(* Redis off, or a reader raced a writer when it filled the key.  In       *)
(* particular the invalidations of other writers, and readers that do not  *)
(* overlap one, leave nothing stale behind.                                *)
CityStaleIsExplained ==
  cache[CityList].full /\ cache[CityList].value # seats
  => \/ cache[CityList].raced
     \/ publisher \in Unfinished
     \/ \E t \in Takers : taker[t] \in Unfinished
=============================================================================
