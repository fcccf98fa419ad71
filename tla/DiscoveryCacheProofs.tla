------------------------ MODULE DiscoveryCacheProofs ------------------------
(***************************************************************************)
(* What the discovery cache promises of the city's list, for any number of *)
(* queries, readers and writers, with or without failures.                 *)
(***************************************************************************)
EXTENDS DiscoveryCache, TLAPS

(* One action on the variables it names keeps the types. *)
LEMMA DiscoveryTypeInit ==
  DiscoveryInit => DiscoveryTypeOK
BY DiscoveryAssumption
   DEF DiscoveryInit, DiscoveryTypeOK, Views, SeatsOrAbsent, WriterState, ReaderType, NotCached

LEMMA WritersKeepTypes ==
  ASSUME DiscoveryTypeOK,
         \/ PublishRow \/ PublishInvalidate \/ PublishError
         \/ \E t \in Takers :
              \/ \E q \in Quantities : TakeSeats(t, q)
              \/ TakeReread(t) \/ TakeInvalidate(t) \/ TakeError(t)
  PROVE  DiscoveryTypeOK'
<1> USE DiscoveryAssumption DEF DiscoveryTypeOK, SeatsOrAbsent, WriterState
<1>0. Invalidated \in [Views -> [full : BOOLEAN, value : SeatsOrAbsent, raced : BOOLEAN]]
  BY DEF Invalidated, NotCached
<1>1. CASE PublishRow
  BY <1>1 DEF PublishRow
<1>2. CASE PublishInvalidate
  BY <1>0, <1>2 DEF PublishInvalidate
<1>3. CASE PublishError
  BY <1>3 DEF PublishError
<1>4. CASE \E t \in Takers, q \in Quantities : TakeSeats(t, q)
  <2>1. PICK t \in Takers, q \in Quantities : TakeSeats(t, q)
    BY <1>4
  <2>2. seats' \in SeatsOrAbsent
    BY <2>1 DEF TakeSeats, EnoughSeats
  <2> QED BY <2>1, <2>2 DEF TakeSeats
<1>5. CASE \E t \in Takers : TakeReread(t)
  BY <1>5 DEF TakeReread
<1>6. CASE \E t \in Takers : TakeInvalidate(t)
  BY <1>0, <1>6 DEF TakeInvalidate
<1>7. CASE \E t \in Takers : TakeError(t)
  BY <1>7 DEF TakeError
<1> QED BY <1>1, <1>2, <1>3, <1>4, <1>5, <1>6, <1>7

LEMMA ReadersKeepTypes ==
  ASSUME DiscoveryTypeOK,
         \/ \E r \in Readers :
              \/ \E v \in Views : ReadLookup(r, v)
              \/ ReadQuery(r) \/ ReadFill(r) \/ ReadError(r)
         \/ \E v \in Views : ViewExpires(v)
  PROVE  DiscoveryTypeOK'
<1>1. CASE \E r \in Readers, v \in Views : ReadLookup(r, v)
  <2>1. PICK r \in Readers, v \in Views : ReadLookup(r, v)
    BY <1>1
  <2>2. \E n \in ReaderType : reader' = [reader EXCEPT ![r] = n]
    BY <2>1 DEF ReadLookup, DiscoveryTypeOK, ReaderType, SeatsOrAbsent
  <2> QED BY <2>1, <2>2 DEF ReadLookup, DiscoveryTypeOK
<1>2. CASE \E r \in Readers : ReadQuery(r)
  BY <1>2 DEF ReadQuery, DiscoveryTypeOK, ReaderType
<1>3. CASE \E r \in Readers : ReadFill(r)
  <2>1. PICK r \in Readers : ReadFill(r)
    BY <1>3
  <2>2. reader' \in [Readers -> ReaderType]
    BY <2>1 DEF ReadFill, DiscoveryTypeOK, ReaderType
  <2>3. reader[r].view \in Views /\ reader[r].value \in SeatsOrAbsent
    BY <2>1 DEF DiscoveryTypeOK, ReaderType
  <2>4. cache' \in [Views -> [full : BOOLEAN, value : SeatsOrAbsent, raced : BOOLEAN]]
    <3>1. Cached(reader[r].value, reader[r].value # seats)
            \in [full : BOOLEAN, value : SeatsOrAbsent, raced : BOOLEAN]
      BY <2>3 DEF Cached
    <3> QED BY <2>1, <2>3, <3>1 DEF ReadFill, DiscoveryTypeOK
  <2> QED BY <2>1, <2>2, <2>4 DEF ReadFill, DiscoveryTypeOK
<1>4. CASE \E r \in Readers : ReadError(r)
  BY <1>4 DEF ReadError, DiscoveryTypeOK, ReaderType
<1>5. CASE \E v \in Views : ViewExpires(v)
  BY <1>5 DEF ViewExpires, NotCached, SeatsOrAbsent, DiscoveryTypeOK
<1> QED BY <1>1, <1>2, <1>3, <1>4, <1>5

(* Every variable keeps its type; in particular no interleaving of calls   *)
(* takes a seat that is not there (decrementSeats).                        *)
THEOREM DiscoveryTypeCorrect == DiscoverySpec => []DiscoveryTypeOK
<1>1. ASSUME DiscoveryTypeOK, [DiscoveryNext]_discoveryVars PROVE DiscoveryTypeOK'
  <2>1. CASE DiscoveryNext
    BY <1>1, <2>1, WritersKeepTypes, ReadersKeepTypes DEF DiscoveryNext
  <2>2. CASE UNCHANGED discoveryVars
    BY <1>1, <2>2 DEF discoveryVars, DiscoveryTypeOK
  <2> QED BY <1>1, <2>1, <2>2
<1> QED BY <1>1, DiscoveryTypeInit, PTL DEF DiscoverySpec

-----------------------------------------------------------------------------
(* A writer that invalidates leaves no list of the city behind. *)
LEMMA InvalidatedCity ==
  ~Invalidated[CityList].full
BY DiscoveryAssumption DEF Invalidated, StaysCached, NotCached, Views

(* A writer at work, or one that ended without invalidating, explains.     *)
LEMMA WritersExplain ==
  ASSUME DiscoveryTypeOK, CityStaleIsExplained,
         \/ PublishRow \/ PublishInvalidate \/ PublishError
         \/ \E t \in Takers :
              \/ \E q \in Quantities : TakeSeats(t, q)
              \/ TakeReread(t) \/ TakeInvalidate(t) \/ TakeError(t)
  PROVE  CityStaleIsExplained'
<1>1. CASE PublishRow \/ PublishError
  BY <1>1 DEF PublishRow, PublishError, CityStaleIsExplained, Unfinished
<1>2. CASE PublishInvalidate
  BY <1>2, InvalidatedCity DEF PublishInvalidate, CityStaleIsExplained, Unfinished
<1>3. CASE \E t \in Takers :
             (\E q \in Quantities : TakeSeats(t, q)) \/ TakeReread(t) \/ TakeError(t)
  <2>1. \E t \in Takers : taker'[t] \in Unfinished
    BY <1>3 DEF TakeSeats, TakeReread, TakeError, Unfinished, DiscoveryTypeOK
  <2> QED BY <2>1 DEF CityStaleIsExplained
<1>4. CASE \E t \in Takers : TakeInvalidate(t)
  <2>1. PICK t \in Takers : TakeInvalidate(t)
    BY <1>4
  <2>2. cache' = Invalidated \/ taker'[t] = "skipped"
    BY <2>1 DEF TakeInvalidate, DiscoveryTypeOK
  <2> QED BY <2>2, InvalidatedCity DEF CityStaleIsExplained, Unfinished
<1> QED BY <1>1, <1>2, <1>3, <1>4

(* A reader that fills the city's key with what is no longer so has raced. *)
LEMMA ReadersExplain ==
  ASSUME DiscoveryTypeOK, CityStaleIsExplained,
         \/ \E r \in Readers :
              \/ \E v \in Views : ReadLookup(r, v)
              \/ ReadQuery(r) \/ ReadFill(r) \/ ReadError(r)
         \/ \E v \in Views : ViewExpires(v)
  PROVE  CityStaleIsExplained'
<1>1. CASE \E r \in Readers :
             (\E v \in Views : ReadLookup(r, v)) \/ ReadQuery(r) \/ ReadError(r)
  BY <1>1 DEF ReadLookup, ReadQuery, ReadError, CityStaleIsExplained
<1>2. CASE \E r \in Readers : ReadFill(r)
  <2>1. PICK r \in Readers : ReadFill(r)
    BY <1>2
  <2>2. CASE cache'[CityList] = cache[CityList]
    BY <2>1, <2>2 DEF ReadFill, CityStaleIsExplained
  <2>3. CASE cache'[CityList] = Cached(reader[r].value, reader[r].value # seats)
    <3>1. cache'[CityList].value = reader[r].value /\ seats' = seats
      BY <2>1, <2>3 DEF ReadFill, Cached
    <3>2. cache'[CityList].raced = (reader[r].value # seats)
      BY <2>3 DEF Cached
    <3> QED BY <3>1, <3>2, Zenon DEF CityStaleIsExplained
  <2>4. CityList \in Views
    BY DiscoveryAssumption DEF Views
  <2> QED BY <2>1, <2>2, <2>3, <2>4 DEF ReadFill, DiscoveryTypeOK
<1>3. CASE \E v \in Views : ViewExpires(v)
  <2>1. CityList \in Views
    BY DiscoveryAssumption DEF Views
  <2>2. cache'[CityList] = cache[CityList] \/ ~cache'[CityList].full
    BY <1>3, <2>1 DEF ViewExpires, NotCached, DiscoveryTypeOK
  <2> QED BY <1>3, <2>2 DEF ViewExpires, CityStaleIsExplained
<1> QED BY <1>1, <1>2, <1>3

(* A stale list of the city in the cache has an unfinished writer or a     *)
(* reader that raced one behind it (invalidateDiscoveryCache).             *)
THEOREM CityStaleHasCause == DiscoverySpec => []CityStaleIsExplained
<1>1. DiscoveryInit => CityStaleIsExplained
  BY DiscoveryAssumption DEF DiscoveryInit, CityStaleIsExplained, Views, NotCached
<1>2. ASSUME DiscoveryTypeOK, CityStaleIsExplained, [DiscoveryNext]_discoveryVars
      PROVE  CityStaleIsExplained'
  <2>1. CASE DiscoveryNext
    BY <1>2, <2>1, WritersExplain, ReadersExplain DEF DiscoveryNext
  <2>2. CASE UNCHANGED discoveryVars
    BY <1>2, <2>2 DEF discoveryVars, CityStaleIsExplained
  <2> QED BY <1>2, <2>1, <2>2
<1> QED BY <1>1, <1>2, DiscoveryTypeCorrect, PTL DEF DiscoverySpec
=============================================================================
