---------------------------- MODULE EventSearch ----------------------------
(***************************************************************************)
(* The event search service: ingestEvent, run for each message of          *)
(* event.published, writes the index, the per-city sets of categories and  *)
(* of suggestions, and deletes the city's cached results; search reads the *)
(* cache, then the index, then fills the cache.  All events and queries    *)
(* are of one city and one neighbourhood: what the cache key and the       *)
(* filter tell apart otherwise does not interact.                          *)
(***************************************************************************)
EXTENDS EventTopic

CONSTANTS
  Queries,   \* query strings, each a cache key of the city
  Searches   \* GET /search calls

VARIABLES
  index,        \* documents of the events index
  categories,   \* events whose category is in the city's SET
  suggestions,  \* events whose title is in the city's ZSET
  cache,        \* cached results, per query; late is history, set by a fill that
                \* misses an event whose ingestion has listed the keys already
  ingest,       \* ingestEvent handlers, one per message
  search        \* search handlers

searchVars == <<index, categories, suggestions, cache, ingest, search>>
sets == <<categories, suggestions>>

Results == SUBSET CatalogEvents
NotCached == [full |-> FALSE, events |-> {}, late |-> FALSE]
Cached(found, late) == [full |-> TRUE, events |-> found, late |-> late]

CacheType == [full : BOOLEAN, events : Results, late : BOOLEAN]
IngestType ==
  [pc : {"idle", "category", "suggest", "keys", "delete", "done", "dropped"},
   keys : SUBSET Queries]
SearchType ==
  [pc : {"idle", "query", "fill", "done", "failed"}, query : Queries \cup {None},
   result : Results]

SearchTypeOK ==
  /\ index \in Results /\ categories \in Results /\ suggestions \in Results
  /\ cache \in [Queries -> CacheType]
  /\ ingest \in [Publishes -> IngestType]
  /\ search \in [Searches -> SearchType]

SearchInit ==
  /\ index = {} /\ categories = {} /\ suggestions = {}
  /\ cache = [q \in Queries |-> NotCached]
  /\ ingest = [p \in Publishes |-> [pc |-> "idle", keys |-> {}]]
  /\ search = [s \in Searches |-> [pc |-> "idle", query |-> None, result |-> {}]]

-----------------------------------------------------------------------------
(* ingestEvent *)

IngestGoto(p, pc) == ingest' = [ingest EXCEPT ![p].pc = pc]

(* client.index overwrites the document of the event, if there is one.      *)
IndexedWith(p) == index \cup {topic[p]}

AfterIndexSuggest == "suggest"  \* mutant: the category is not listed
AfterIndex == "category"

IngestIndex(p) ==
  /\ ingest[p].pc = "idle" /\ Arrived(p)
  /\ index' = IndexedWith(p)
  /\ IngestGoto(p, AfterIndex)
  /\ UNCHANGED <<categories, suggestions, cache, search, topic>>

IngestCategory(p) ==
  /\ ingest[p].pc = "category"
  /\ categories' = categories \cup {topic[p]}
  /\ IngestGoto(p, "suggest")
  /\ UNCHANGED <<index, suggestions, cache, search, topic>>

IngestSuggest(p) ==
  /\ ingest[p].pc = "suggest"
  /\ suggestions' = suggestions \cup {topic[p]}
  /\ IngestGoto(p, "keys")
  /\ UNCHANGED <<index, categories, cache, search, topic>>

(* KEYS lists what is cached now; DEL, a second command, deletes that. *)
MatchingUnfolded == {}  \* mutant: the pattern spells the city as the event does
Matching == {q \in Queries : cache[q].full}

IngestKeys(p) ==
  /\ ingest[p].pc = "keys"
  /\ ingest' = [ingest EXCEPT ![p] = [pc |-> "delete", keys |-> Matching]]
  /\ UNCHANGED <<index, sets, cache, search, topic>>

IngestDelete(p) ==
  /\ ingest[p].pc = "delete"
  /\ cache' = [q \in Queries |-> IF q \in ingest[p].keys THEN NotCached ELSE cache[q]]
  /\ IngestGoto(p, "done")
  /\ UNCHANGED <<index, sets, search, topic>>

(* A call that throws is logged, and the message counts as handled. *)
AfterErrorGoOn(p) ==  \* mutant: the error of the index call is caught on its own
  IF ingest[p].pc = "idle" THEN "category" ELSE "dropped"
AfterError(p) == "dropped"

IngestError(p) ==
  /\ Faults
  /\ \/ ingest[p].pc \in {"category", "suggest", "keys", "delete"}
     \/ ingest[p].pc = "idle" /\ Arrived(p)
  /\ IngestGoto(p, AfterError(p))
  /\ UNCHANGED <<index, sets, cache, search, topic>>

(* A crash before the offset is committed: the message comes again. *)
IngestRedelivered(p) ==
  /\ Faults
  /\ ingest[p].pc \in {"category", "suggest", "keys", "delete", "done", "dropped"}
  /\ ingest' = [ingest EXCEPT ![p] = [pc |-> "idle", keys |-> {}]]
  /\ UNCHANGED <<index, sets, cache, search, topic>>

-----------------------------------------------------------------------------
(* search; located is the set of events whose document has coordinates,    *)
(* the only ones the geo_distance filter lets through.                     *)

SearchLookup(s, q) ==
  /\ search[s].pc = "idle"
  /\ \/ /\ cache[q].full
        /\ search' = [search EXCEPT ![s] = [pc |-> "done", query |-> q, result |-> cache[q].events]]
     \/ /\ ~cache[q].full \/ Faults  \* an error of Redis counts as a miss
        /\ search' = [search EXCEPT ![s] = [pc |-> "query", query |-> q, result |-> {}]]
  /\ UNCHANGED <<index, sets, cache, ingest, topic>>

SearchQuery(s, located) ==
  /\ search[s].pc = "query"
  /\ search' = [search EXCEPT ![s].pc = "fill", ![s].result = index \cap located]
  /\ UNCHANGED <<index, sets, cache, ingest, topic>>

(* The result is cached for 300 seconds and returned. *)
Late(found, located) ==
  \E p \in Publishes :
    topic[p] \in (index \cap located) \ found /\ ingest[p].pc \in {"delete", "done"}

SearchFill(s, located) ==
  LET found == search[s].result IN
  /\ search[s].pc = "fill"
  /\ \/ cache' = [cache EXCEPT ![search[s].query] = Cached(found, Late(found, located))]
     \/ Faults /\ UNCHANGED cache
  /\ search' = [search EXCEPT ![s].pc = "done"]
  /\ UNCHANGED <<index, sets, ingest, topic>>

SearchFail(s) ==
  /\ Faults
  /\ search[s].pc \in {"query", "fill"}
  /\ search' = [search EXCEPT ![s].pc = "failed"]
  /\ UNCHANGED <<index, sets, cache, ingest, topic>>

Expire(q) ==
  /\ cache[q].full
  /\ cache' = [cache EXCEPT ![q] = NotCached]
  /\ UNCHANGED <<index, sets, ingest, search, topic>>

IngestStep(p) ==
  IngestIndex(p) \/ IngestCategory(p) \/ IngestSuggest(p) \/ IngestKeys(p) \/ IngestDelete(p)
SearchStep(s, located) == SearchQuery(s, located) \/ SearchFill(s, located)

SearchNext(located) ==
  \/ \E p \in Publishes : IngestStep(p) \/ IngestError(p) \/ IngestRedelivered(p)
  \/ \E s \in Searches :
       (\E q \in Queries : SearchLookup(s, q)) \/ SearchStep(s, located) \/ SearchFail(s)
  \/ \E q \in Queries : Expire(q)
=============================================================================
