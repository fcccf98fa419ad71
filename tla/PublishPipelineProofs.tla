----------------------- MODULE PublishPipelineProofs -----------------------
(***************************************************************************)
(* The safety of publishing, for any number of events, publish calls,      *)
(* queries and searches, with or without failures.                         *)
(***************************************************************************)
EXTENDS PublishPipeline, TLAPS

(* What the places of the two handlers of a publish call say of its past.  *)
CallInv(p) ==
  /\ publish[p].pc = "idle" => pubCall[p] = "idle"
  /\ pubCall[p] = "idle" => stock[p] = "idle" /\ publish[p].pc \in {"idle", "failed"}
  /\ pubCall[p] # "idle" => publish[p].event \in CatalogEvents
  /\ stock[p] \in {"counters", "done"} => p \in rows
  /\ stock[p] \in {"idle", "insert"} => p \notin rows
  /\ pubCall[p] = "ok" => p \in rows
  /\ publish[p].pc \in {"mark", "emit", "done"} => pubCall[p] = "ok"
  /\ publish[p].pc \in {"emit", "done"} => catalog[publish[p].event].status = "PUBLISHED"
  /\ topic[p] # None => publish[p].pc = "done" /\ topic[p] = publish[p].event

OneRowPerEvent == \A p, q \in rows : publish[p].event = publish[q].event => p = q
PublishedHasRow ==
  \A e \in CatalogEvents :
    catalog[e].status = "PUBLISHED" =>
      \E p \in rows : publish[p].event = e /\ publish[p].pc \in {"emit", "done", "failed"}

PublishIInv ==
  /\ PublishTypeOK
  /\ \A p \in Publishes : CallInv(p)
  /\ OneRowPerEvent /\ PublishedHasRow

LEMMA PublishInitInv ==
  PublishInit => PublishIInv
BY CatalogAssumption
   DEF PublishInit, PublishIInv, PublishTypeOK, CallInv, OneRowPerEvent, PublishedHasRow,
       CatalogType, PublishType, CallState, TopicTypeOK, TopicInit

(* A draft replaces no published event.                                    *)
LEMMA CreateDraftInv ==
  ASSUME PublishIInv, NEW e \in CatalogEvents, NEW able \in BOOLEAN, NEW located \in BOOLEAN, CreateDraft(e, able, located)
  PROVE  PublishIInv'
<1> USE DEF CreateDraft
<1>1. PublishTypeOK'
  BY DEF PublishIInv, PublishTypeOK, CatalogType, PublishType, CallState, TopicTypeOK
<1>2. \A q \in Publishes : CallInv(q)'
  BY CatalogAssumption
     DEF PublishIInv, CallInv, PublishTypeOK, CatalogType, PublishType, CallState, TopicTypeOK
<1>3. OneRowPerEvent'
  BY DEF PublishIInv, CallInv, OneRowPerEvent, PublishTypeOK, PublishType
<1>4. PublishedHasRow'
  BY DEF PublishIInv, CallInv, PublishedHasRow, PublishTypeOK, CatalogType, PublishType
<1> QED BY <1>1, <1>2, <1>3, <1>4 DEF PublishIInv

(* A call that starts has no row and no message.                           *)
LEMMA PublishReadInv ==
  ASSUME PublishIInv, NEW p \in Publishes, NEW e \in CatalogEvents, PublishRead(p, e)
  PROVE  PublishIInv'
<1> USE DEF PublishRead
<1>1. PublishTypeOK'
  <2>1. \E c \in {"call", "failed"} : publish' = [publish EXCEPT ![p] = [pc |-> c, event |-> e]]
    OBVIOUS
  <2>2. publish' \in [Publishes -> PublishType]
    BY <2>1 DEF PublishIInv, PublishTypeOK, PublishType
  <2>3. pubCall' \in [Publishes -> CallState]
    BY DEF PublishIInv, PublishTypeOK, CallState
  <2> QED BY <2>2, <2>3 DEF PublishIInv, PublishTypeOK, TopicTypeOK
<1>2. \A q \in Publishes : CallInv(q)'
  BY CatalogAssumption
     DEF PublishIInv, CallInv, PublishTypeOK, CatalogType, PublishType, CallState, TopicTypeOK
<1>3. OneRowPerEvent'
  BY DEF PublishIInv, CallInv, OneRowPerEvent, PublishTypeOK, PublishType
<1>4. PublishedHasRow'
  BY DEF PublishIInv, CallInv, PublishedHasRow, PublishTypeOK, CatalogType, PublishType
<1> QED BY <1>1, <1>2, <1>3, <1>4 DEF PublishIInv

(* Only an answer below 400 leads on, and then there is a row.             *)
LEMMA PublishAnsweredInv ==
  ASSUME PublishIInv, NEW p \in Publishes, PublishAnswered(p)
  PROVE  PublishIInv'
<1> USE DEF PublishAnswered, StockGranted, AfterStock, CallFailed
<1>1. PublishTypeOK'
  BY DEF PublishIInv, PublishTypeOK, CatalogType, PublishType, CallState, TopicTypeOK
<1>2. \A q \in Publishes : CallInv(q)'
  BY CatalogAssumption
     DEF PublishIInv, CallInv, PublishTypeOK, CatalogType, PublishType, CallState, TopicTypeOK
<1>3. OneRowPerEvent'
  BY DEF PublishIInv, CallInv, OneRowPerEvent, PublishTypeOK, PublishType
<1>4. PublishedHasRow'
  BY DEF PublishIInv, CallInv, PublishedHasRow, PublishTypeOK, CatalogType, PublishType
<1> QED BY <1>1, <1>2, <1>3, <1>4 DEF PublishIInv

(* The status follows the row.                                             *)
LEMMA PublishMarkInv ==
  ASSUME PublishIInv, NEW p \in Publishes, PublishMark(p)
  PROVE  PublishIInv'
<1> USE DEF PublishMark
<1>1. PublishTypeOK'
  BY ZenonT(40) DEF PublishIInv, PublishTypeOK, CatalogType, PublishType, CallState, TopicTypeOK
<1>2. \A q \in Publishes : CallInv(q)'
  BY CatalogAssumption
     DEF PublishIInv, CallInv, PublishTypeOK, CatalogType, PublishType, CallState, TopicTypeOK
<1>3. OneRowPerEvent'
  BY DEF PublishIInv, CallInv, OneRowPerEvent, PublishTypeOK, PublishType
<1>4. PublishedHasRow'
  BY DEF PublishIInv, CallInv, PublishedHasRow, PublishTypeOK, CatalogType, PublishType
<1> QED BY <1>1, <1>2, <1>3, <1>4 DEF PublishIInv

(* The message follows the status.                                         *)
LEMMA PublishEmitInv ==
  ASSUME PublishIInv, NEW p \in Publishes, PublishEmit(p)
  PROVE  PublishIInv'
<1> USE DEF PublishEmit
<1>1. PublishTypeOK'
  BY ZenonT(40) DEF PublishIInv, PublishTypeOK, CatalogType, PublishType, CallState, TopicTypeOK
<1>2. \A q \in Publishes : CallInv(q)'
  BY CatalogAssumption
     DEF PublishIInv, CallInv, PublishTypeOK, CatalogType, PublishType, CallState, TopicTypeOK
<1>3. OneRowPerEvent'
  BY DEF PublishIInv, CallInv, OneRowPerEvent, PublishTypeOK, PublishType
<1>4. PublishedHasRow'
  BY DEF PublishIInv, CallInv, PublishedHasRow, PublishTypeOK, CatalogType, PublishType
<1> QED BY <1>1, <1>2, <1>3, <1>4 DEF PublishIInv

(* A failed call leaves what it did.                                       *)
LEMMA PublishFailInv ==
  ASSUME PublishIInv, NEW p \in Publishes, PublishFail(p)
  PROVE  PublishIInv'
<1> USE DEF PublishFail
<1>1. PublishTypeOK'
  BY DEF PublishIInv, PublishTypeOK, CatalogType, PublishType, CallState, TopicTypeOK
<1>2. \A q \in Publishes : CallInv(q)'
  BY CatalogAssumption
     DEF PublishIInv, CallInv, PublishTypeOK, CatalogType, PublishType, CallState, TopicTypeOK
<1>3. OneRowPerEvent'
  BY DEF PublishIInv, CallInv, OneRowPerEvent, PublishTypeOK, PublishType
<1>4. PublishedHasRow'
  BY DEF PublishIInv, CallInv, PublishedHasRow, PublishTypeOK, CatalogType, PublishType
<1> QED BY <1>1, <1>2, <1>3, <1>4 DEF PublishIInv

(* The look-up writes nothing.                                             *)
LEMMA StockLookupInv ==
  ASSUME PublishIInv, NEW p \in Publishes, StockLookup(p)
  PROVE  PublishIInv'
<1> USE DEF StockLookup, StockAnswer, Answer, Deliverable
<1>1. PublishTypeOK'
  BY DEF PublishIInv, PublishTypeOK, CatalogType, PublishType, CallState, TopicTypeOK
<1>2. \A q \in Publishes : CallInv(q)'
  BY CatalogAssumption
     DEF PublishIInv, CallInv, PublishTypeOK, CatalogType, PublishType, CallState, TopicTypeOK
<1>3. OneRowPerEvent'
  BY DEF PublishIInv, CallInv, OneRowPerEvent, PublishTypeOK, PublishType
<1>4. PublishedHasRow'
  BY DEF PublishIInv, CallInv, PublishedHasRow, PublishTypeOK, CatalogType, PublishType
<1> QED BY <1>1, <1>2, <1>3, <1>4 DEF PublishIInv

(* The unique index keeps one row per event.                               *)
LEMMA StockInsertInv ==
  ASSUME PublishIInv, NEW p \in Publishes, StockInsert(p)
  PROVE  PublishIInv'
<1> USE DEF StockInsert, StockAnswer, Answer, StockFree, RowsOf
<1>1. PublishTypeOK'
  BY DEF PublishIInv, PublishTypeOK, CatalogType, PublishType, CallState, TopicTypeOK
<1>2. \A q \in Publishes : CallInv(q)'
  BY CatalogAssumption
     DEF PublishIInv, CallInv, PublishTypeOK, CatalogType, PublishType, CallState, TopicTypeOK
<1>3. OneRowPerEvent'
  BY DEF PublishIInv, CallInv, OneRowPerEvent, PublishTypeOK, PublishType
<1>4. PublishedHasRow'
  BY DEF PublishIInv, CallInv, PublishedHasRow, PublishTypeOK, CatalogType, PublishType
<1> QED BY <1>1, <1>2, <1>3, <1>4 DEF PublishIInv

(* A granted call has its row.                                             *)
LEMMA StockCountersInv ==
  ASSUME PublishIInv, NEW p \in Publishes, StockCounters(p)
  PROVE  PublishIInv'
<1> USE DEF StockCounters, StockAnswer, Answer
<1>1. PublishTypeOK'
  <2>1. p \in rows /\ rows' = rows
    BY DEF PublishIInv, CallInv
  <2>2. counters' \in SUBSET rows
    BY <2>1 DEF PublishIInv, PublishTypeOK
  <2>3. pubCall' \in [Publishes -> CallState]
    BY DEF PublishIInv, PublishTypeOK, CallState
  <2> QED BY <2>1, <2>2, <2>3 DEF PublishIInv, PublishTypeOK, TopicTypeOK
<1>2. \A q \in Publishes : CallInv(q)'
  BY CatalogAssumption
     DEF PublishIInv, CallInv, PublishTypeOK, CatalogType, PublishType, CallState, TopicTypeOK
<1>3. OneRowPerEvent'
  BY DEF PublishIInv, CallInv, OneRowPerEvent, PublishTypeOK, PublishType
<1>4. PublishedHasRow'
  BY DEF PublishIInv, CallInv, PublishedHasRow, PublishTypeOK, CatalogType, PublishType
<1> QED BY <1>1, <1>2, <1>3, <1>4 DEF PublishIInv

(* A failure is never answered as a grant.                                 *)
LEMMA StockFailInv ==
  ASSUME PublishIInv, NEW p \in Publishes, StockFail(p)
  PROVE  PublishIInv'
<1> USE DEF StockFail, StockAnswer, Answer
<1>1. PublishTypeOK'
  BY DEF PublishIInv, PublishTypeOK, CatalogType, PublishType, CallState, TopicTypeOK
<1>2. \A q \in Publishes : CallInv(q)'
  BY CatalogAssumption
     DEF PublishIInv, CallInv, PublishTypeOK, CatalogType, PublishType, CallState, TopicTypeOK
<1>3. OneRowPerEvent'
  BY DEF PublishIInv, CallInv, OneRowPerEvent, PublishTypeOK, PublishType
<1>4. PublishedHasRow'
  BY DEF PublishIInv, CallInv, PublishedHasRow, PublishTypeOK, CatalogType, PublishType
<1> QED BY <1>1, <1>2, <1>3, <1>4 DEF PublishIInv

(* A lost call grants nothing.                                             *)
LEMMA DropPublishInv ==
  ASSUME PublishIInv, NEW p \in Publishes, DropPublish(p)
  PROVE  PublishIInv'
<1> USE DEF DropPublish
<1>1. PublishTypeOK'
  BY DEF PublishIInv, PublishTypeOK, CatalogType, PublishType, CallState, TopicTypeOK
<1>2. \A q \in Publishes : CallInv(q)'
  BY CatalogAssumption
     DEF PublishIInv, CallInv, PublishTypeOK, CatalogType, PublishType, CallState, TopicTypeOK
<1>3. OneRowPerEvent'
  BY DEF PublishIInv, CallInv, OneRowPerEvent, PublishTypeOK, PublishType
<1>4. PublishedHasRow'
  BY DEF PublishIInv, CallInv, PublishedHasRow, PublishTypeOK, CatalogType, PublishType
<1> QED BY <1>1, <1>2, <1>3, <1>4 DEF PublishIInv

LEMMA PublishNextInv ==
  ASSUME PublishIInv, PublishNext
  PROVE  PublishIInv'
BY CreateDraftInv, PublishReadInv, PublishAnsweredInv, PublishMarkInv, PublishEmitInv,
   PublishFailInv, StockLookupInv, StockInsertInv, StockCountersInv, StockFailInv, DropPublishInv
   DEF PublishNext, PublishStep, StockStep

-----------------------------------------------------------------------------
(* The search side writes what arrives in the topic, in one order.         *)
IngestInv(p) ==
  /\ ingest[p].pc \notin {"idle", "dropped"} => topic[p] # None /\ topic[p] \in index
  /\ ingest[p].pc = "suggest" => topic[p] \in categories

SearchIInv ==
  /\ SearchTypeOK
  /\ \A p \in Publishes : IngestInv(p)
  /\ SuggestedIsIndexed
  /\ \A e \in index : catalog[e].status = "PUBLISHED"

(* A published event stays published, and a message stays as it is.        *)
LEMMA PublishedStays ==
  ASSUME PublishIInv, PublishNext
  PROVE  /\ \A e \in CatalogEvents :
              catalog[e].status = "PUBLISHED" => catalog'[e].status = "PUBLISHED"
         /\ \A p \in Publishes : topic[p] # None => topic'[p] = topic[p]
<1>1. CASE \E e \in CatalogEvents, able, located \in BOOLEAN : CreateDraft(e, able, located)
  BY <1>1 DEF CreateDraft, PublishIInv, PublishTypeOK, CatalogType
<1>2. CASE \E p \in Publishes : PublishMark(p)
  BY <1>2 DEF PublishMark, PublishIInv, PublishTypeOK, CatalogType
<1>3. CASE \E p \in Publishes : PublishEmit(p)
  <2>1. PICK p \in Publishes : PublishEmit(p)
    BY <1>3
  <2>2. topic[p] = None
    BY <2>1 DEF PublishEmit, PublishIInv, CallInv
  <2> QED BY <2>1, <2>2 DEF PublishEmit, PublishIInv, PublishTypeOK, TopicTypeOK
<1>4. CASE UNCHANGED <<catalog, topic>>
  BY <1>4
<1> QED BY <1>1, <1>2, <1>3, <1>4
        DEF PublishNext, PublishStep, StockStep, PublishRead, PublishAnswered, PublishFail,
            StockLookup, StockInsert, StockCounters, StockFail, DropPublish

LEMMA PublishMoveInv ==
  ASSUME PublishIInv, SearchIInv, PublishNext, UNCHANGED searchVars
  PROVE  SearchIInv'
<1>1. SearchTypeOK'
  BY DEF SearchIInv, SearchTypeOK, searchVars
<1>2. \A p \in Publishes : IngestInv(p)'
  BY PublishedStays DEF SearchIInv, IngestInv, searchVars
<1>3. SuggestedIsIndexed'
  BY DEF SearchIInv, SuggestedIsIndexed, searchVars
<1>4. \A e \in index' : catalog'[e].status = "PUBLISHED"
  BY PublishedStays DEF SearchIInv, SearchTypeOK, Results, searchVars
<1> QED BY <1>1, <1>2, <1>3, <1>4 DEF SearchIInv

(* Ingestion; only IngestIndex adds a document, that of a message.         *)
LEMMA IngestInvKept ==
  ASSUME PublishIInv, SearchIInv, NEW p \in Publishes,
         IngestStep(p) \/ IngestError(p) \/ IngestRedelivered(p),
         UNCHANGED catalogVars
  PROVE  SearchIInv'
<1>t. topic' = topic /\ catalog' = catalog
  BY DEF catalogVars, IngestStep, IngestIndex, IngestCategory, IngestSuggest, IngestKeys,
         IngestDelete, IngestError, IngestRedelivered
<1>1. CASE IngestIndex(p)
  <2>1. /\ topic[p] \in CatalogEvents /\ topic[p] # None
        /\ catalog[topic[p]].status = "PUBLISHED"
    BY <1>1 DEF IngestIndex, Arrived, PublishIInv, PublishTypeOK, TopicTypeOK, CallInv
  <2>2. /\ index' = index \cup {topic[p]}
        /\ ingest' = [ingest EXCEPT ![p].pc = "category"]
        /\ UNCHANGED <<categories, suggestions, cache, search>>
    BY <1>1 DEF IngestIndex, IndexedWith, AfterIndex, IngestGoto
  <2>3. SearchTypeOK'
    BY <2>1, <2>2 DEF SearchIInv, SearchTypeOK, IngestType, Results
  <2>4. \A q \in Publishes : IngestInv(q)'
    BY <1>t, <2>1, <2>2 DEF SearchIInv, IngestInv, SearchTypeOK, IngestType
  <2> QED BY <1>t, <2>1, <2>2, <2>3, <2>4 DEF SearchIInv, SuggestedIsIndexed
<1>2. CASE IngestCategory(p)
  <2>1. /\ topic[p] \in CatalogEvents
        /\ categories' = categories \cup {topic[p]}
        /\ ingest' = [ingest EXCEPT ![p].pc = "suggest"]
        /\ UNCHANGED <<index, suggestions, cache, search>>
    BY <1>2 DEF IngestCategory, IngestGoto, SearchIInv, IngestInv, PublishIInv, PublishTypeOK, TopicTypeOK
  <2>2. SearchTypeOK'
    BY <2>1 DEF SearchIInv, SearchTypeOK, IngestType, Results
  <2>3. \A q \in Publishes : IngestInv(q)'
    BY <1>t, <1>2, <2>1 DEF IngestCategory, SearchIInv, IngestInv, SearchTypeOK, IngestType
  <2> QED BY <1>t, <2>1, <2>2, <2>3 DEF SearchIInv, SuggestedIsIndexed
<1>3. CASE IngestSuggest(p)
  <2>1. /\ topic[p] \in index \cap categories
        /\ suggestions' = suggestions \cup {topic[p]}
        /\ ingest' = [ingest EXCEPT ![p].pc = "keys"]
        /\ UNCHANGED <<index, categories, cache, search>>
    BY <1>3 DEF IngestSuggest, IngestGoto, SearchIInv, IngestInv
  <2>2. SearchTypeOK'
    BY <2>1 DEF SearchIInv, SearchTypeOK, IngestType, Results
  <2>3. \A q \in Publishes : IngestInv(q)'
    BY <1>t, <1>3, <2>1 DEF IngestSuggest, SearchIInv, IngestInv, SearchTypeOK, IngestType
  <2> QED BY <1>t, <2>1, <2>2, <2>3 DEF SearchIInv, SuggestedIsIndexed
<1>4. CASE IngestKeys(p) \/ IngestDelete(p) \/ IngestError(p) \/ IngestRedelivered(p)
  <2>1. UNCHANGED <<index, categories, suggestions, search>>
    BY <1>4 DEF IngestKeys, IngestDelete, IngestError, IngestRedelivered, sets
  <2>2. cache' \in [Queries -> CacheType]
    <3>1. NotCached \in CacheType
      BY DEF NotCached, CacheType, Results
    <3>2. cache \in [Queries -> CacheType]
      BY DEF SearchIInv, SearchTypeOK
    <3>3. CASE IngestDelete(p)
      BY <3>1, <3>2, <3>3 DEF IngestDelete
    <3>4. CASE IngestKeys(p) \/ IngestError(p) \/ IngestRedelivered(p)
      BY <3>2, <3>4 DEF IngestKeys, IngestError, IngestRedelivered
    <3> QED BY <1>4, <3>3, <3>4
  <2>3. ingest' \in [Publishes -> IngestType]
    <3>1. CASE IngestKeys(p)
      BY <3>1 DEF IngestKeys, Matching, SearchIInv, SearchTypeOK, IngestType
    <3>2. CASE IngestRedelivered(p)
      BY <3>2 DEF IngestRedelivered, SearchIInv, SearchTypeOK, IngestType
    <3>3. CASE IngestDelete(p) \/ IngestError(p)
      BY <3>3 DEF IngestDelete, IngestError, AfterError, IngestGoto, SearchIInv, SearchTypeOK, IngestType
    <3> QED BY <1>4, <3>1, <3>2, <3>3
  <2>4. /\ \A q \in Publishes \ {p} : ingest'[q] = ingest[q]
        /\ ingest'[p].pc \notin {"category", "suggest"}
        /\ ingest'[p].pc \notin {"idle", "dropped"} => ingest[p].pc \notin {"idle", "dropped"}
    BY <1>4 DEF IngestKeys, IngestDelete, IngestError, AfterError, IngestRedelivered, IngestGoto,
                SearchIInv, SearchTypeOK, IngestType
  <2>5. SearchTypeOK'
    BY <2>1, <2>2, <2>3 DEF SearchIInv, SearchTypeOK
  <2>6. \A q \in Publishes : IngestInv(q)'
    BY <1>t, <2>1, <2>4 DEF SearchIInv, IngestInv
  <2> QED BY <1>t, <2>1, <2>5, <2>6 DEF SearchIInv, SuggestedIsIndexed
<1> QED BY <1>1, <1>2, <1>3, <1>4 DEF IngestStep

(* Searches and expiry touch the cache and themselves. *)
LEMMA SearchStepsKept ==
  ASSUME SearchIInv, UNCHANGED catalogVars,
         \/ \E r \in Searches :
              (\E q \in Queries : SearchLookup(r, q)) \/ SearchStep(r, Located) \/ SearchFail(r)
         \/ \E q \in Queries : Expire(q)
  PROVE  SearchIInv'
<1>1. UNCHANGED <<index, categories, suggestions, ingest, topic, catalog>>
  BY DEF SearchLookup, SearchStep, SearchQuery, SearchFill, SearchFail, Expire, sets, catalogVars
<1>2. /\ cache' \in [Queries -> CacheType]
      /\ search' \in [Searches -> SearchType]
  <2> USE DEF SearchIInv, SearchTypeOK, SearchType, Results
  <2>1. CASE \E r \in Searches, q \in Queries : SearchLookup(r, q)
    <3>1. PICK r \in Searches, q \in Queries : SearchLookup(r, q)
      BY <2>1
    <3>2. \E n \in SearchType : search' = [search EXCEPT ![r] = n]
      BY <3>1 DEF SearchLookup, CacheType
    <3> QED BY <3>1, <3>2 DEF SearchLookup
  <2>2. CASE \E r \in Searches : SearchQuery(r, Located)
    <3>1. PICK r \in Searches : SearchQuery(r, Located)
      BY <2>2
    <3>2. index \cap Located \in Results
      OBVIOUS
    <3>3. search' \in [Searches -> SearchType]
      BY ZenonT(40), <3>1, <3>2 DEF SearchQuery
    <3> QED BY <3>1, <3>3 DEF SearchQuery
  <2>3. CASE \E r \in Searches : SearchFill(r, Located)
    <3>1. PICK r \in Searches : SearchFill(r, Located)
      BY <2>3
    <3>2. Cached(search[r].result, Late(search[r].result, Located)) \in CacheType
      BY <3>1 DEF Cached, CacheType, Late
    <3>3. cache' \in [Queries -> CacheType]
      BY <3>1, <3>2 DEF SearchFill
    <3>4. search' \in [Searches -> SearchType]
      BY <3>1 DEF SearchFill
    <3> QED BY <3>3, <3>4
  <2>4. CASE \E r \in Searches : SearchFail(r)
    BY SMTT(30), <2>4 DEF SearchFail
  <2>5. CASE \E q \in Queries : Expire(q)
    BY <2>5 DEF Expire, NotCached, CacheType
  <2> QED BY <2>1, <2>2, <2>3, <2>4, <2>5 DEF SearchStep
<1>3. SearchTypeOK'
  BY <1>1, <1>2 DEF SearchIInv, SearchTypeOK
<1>4. \A p \in Publishes : IngestInv(p)'
  BY <1>1 DEF SearchIInv, IngestInv
<1> QED BY <1>1, <1>3, <1>4 DEF SearchIInv, SuggestedIsIndexed

-----------------------------------------------------------------------------
PipelineIInv == PublishIInv /\ SearchIInv

LEMMA PipelineInitInv ==
  PipelineInit => PipelineIInv
<1>1. SearchInit => SearchIInv
  BY DEF SearchInit, SearchIInv, SearchTypeOK, IngestInv, SuggestedIsIndexed, IngestType,
         SearchType, Results, NotCached, CacheType
<1> QED BY <1>1, PublishInitInv DEF PipelineInit, PipelineIInv

LEMMA PipelineStepInv ==
  ASSUME PipelineIInv, [PipelineNext]_pipelineVars
  PROVE  PipelineIInv'
<1>1. CASE PublishMove
  BY <1>1, PublishNextInv, PublishMoveInv DEF PublishMove, PipelineIInv
<1>2. CASE SearchMove
  <2>1. UNCHANGED catalogVars /\ SearchNext(Located)
    BY <1>2 DEF SearchMove
  <2>2. SearchIInv'
    BY <2>1, IngestInvKept, SearchStepsKept DEF SearchNext, PipelineIInv
  <2>3. UNCHANGED topic
    BY <2>1 DEF SearchNext, IngestStep, IngestIndex, IngestCategory, IngestSuggest, IngestKeys,
                IngestDelete, IngestError, IngestRedelivered, SearchLookup, SearchStep,
                SearchQuery, SearchFill, SearchFail, Expire
  <2>4. PublishIInv'
    BY <2>1, <2>3 DEF PipelineIInv, PublishIInv, PublishTypeOK, TopicTypeOK, CallInv,
                      OneRowPerEvent, PublishedHasRow, catalogVars
  <2> QED BY <2>2, <2>4 DEF PipelineIInv
<1>3. CASE UNCHANGED pipelineVars
  <2>1. PublishIInv'
    BY <1>3 DEF pipelineVars, publishVars, catalogVars, PipelineIInv, PublishIInv, PublishTypeOK,
                TopicTypeOK, CallInv, OneRowPerEvent, PublishedHasRow
  <2>2. SearchIInv'
    BY <1>3 DEF pipelineVars, publishVars, catalogVars, searchVars, PipelineIInv, SearchIInv,
                SearchTypeOK, IngestInv, SuggestedIsIndexed
  <2> QED BY <2>1, <2>2 DEF PipelineIInv
<1> QED BY <1>1, <1>2, <1>3 DEF PipelineNext

(* The inductive invariant of the pipeline. *)
THEOREM PipelineInvariance == PipelineSpec => []PipelineIInv
BY PipelineInitInv, PipelineStepInv, PTL DEF PipelineSpec

(* Every variable of the three services keeps its type.                    *)
THEOREM PipelineTypeCorrect == PipelineSpec => []PipelineTypeOK
<1>1. PipelineIInv => PipelineTypeOK
  BY DEF PipelineIInv, PublishIInv, SearchIInv, PipelineTypeOK
<1> QED BY <1>1, PipelineInvariance, PTL

(* The catalogue never calls an event published that has no inventory      *)
(* (publishEvent awaits publishFromCatalog before it updates the status).  *)
THEOREM PublishedAlwaysOnSale == PipelineSpec => []PublishedIsOnSale
<1>1. PipelineIInv => PublishedIsOnSale
  BY DEF PipelineIInv, PublishIInv, PublishedHasRow, PublishedIsOnSale, RowsOf, PublishTypeOK
<1> QED BY <1>1, PipelineInvariance, PTL

(* Racing publish calls announce an event once (unique catalogEventId).    *)
THEOREM AnnouncedAtMostOnce == PipelineSpec => []AnnouncedOnce
<1>1. PipelineIInv => AnnouncedOnce
  BY DEF PipelineIInv, PublishIInv, CallInv, OneRowPerEvent, AnnouncedOnce
<1> QED BY <1>1, PipelineInvariance, PTL

(* Whatever the search index has is published and on sale (ingestEvent     *)
(* indexes what publishEvent emitted).                                     *)
THEOREM IndexedAlwaysOnSale == PipelineSpec => []IndexedIsOnSale
<1>1. PipelineIInv => IndexedIsOnSale
  BY DEF PipelineIInv, PublishIInv, SearchIInv, SearchTypeOK, Results, PublishedHasRow,
         IndexedIsOnSale, RowsOf, PublishTypeOK
<1> QED BY <1>1, PipelineInvariance, PTL

(* A suggestion is only stored behind its document and its category, also  *)
(* when messages are redelivered or their ingestion fails (ingestEvent).   *)
THEOREM SuggestedAlwaysIndexed == PipelineSpec => []SuggestedIsIndexed
<1>1. PipelineIInv => SuggestedIsIndexed
  BY DEF PipelineIInv, SearchIInv
<1> QED BY <1>1, PipelineInvariance, PTL

(* Only a call that died, an emit that was lost or a message not yet       *)
(* handled or given up keeps a published event out of the index            *)
(* (publishEvent's emit, handleEventPublished's catch).                    *)
THEOREM UnindexedHasCause == PipelineSpec => []UnindexedIsExplained
<1>1. PipelineIInv => UnindexedIsExplained
  <2> SUFFICES ASSUME PipelineIInv, NEW e \in CatalogEvents,
                      catalog[e].status = "PUBLISHED", e \notin index
               PROVE  \E p \in RowsOf(e) :
                        \/ publish[p].pc \in {"emit", "failed"}
                        \/ publish[p].pc = "done" /\ topic[p] = None
                        \/ topic[p] = e /\ ingest[p].pc \in {"idle", "dropped"}
    BY DEF UnindexedIsExplained
  <2>1. PICK p \in rows : publish[p].event = e /\ publish[p].pc \in {"emit", "done", "failed"}
    BY DEF PipelineIInv, PublishIInv, PublishedHasRow
  <2>2. p \in Publishes /\ p \in RowsOf(e)
    BY <2>1 DEF RowsOf, PipelineIInv, PublishIInv, PublishTypeOK
  <2>3. topic[p] # None => topic[p] = e
    BY <2>1, <2>2 DEF PipelineIInv, PublishIInv, CallInv
  <2>4. topic[p] = e => ingest[p].pc \in {"idle", "dropped"}
    BY <2>2 DEF PipelineIInv, SearchIInv, IngestInv
  <2> QED BY <2>1, <2>2, <2>3, <2>4
<1> QED BY <1>1, PipelineInvariance, PTL

-----------------------------------------------------------------------------
(* An ingestion that is about to delete has every key whose result misses  *)
(* its event, but for the results that say they came late.                 *)
DeleteInv(p) ==
  ingest[p].pc = "delete" /\ topic[p] \in Located =>
    \A q \in Queries :
      cache[q].full /\ topic[p] \notin cache[q].events
      => cache[q].late \/ q \in ingest[p].keys

CacheInv ==
  /\ \A e \in index : \E p \in Publishes : topic[p] = e
  /\ StaleResultIsExplained
  /\ \A p \in Publishes : DeleteInv(p)

(* Publishing moves no document, no cached result and no ingestion, and    *)
(* what is indexed keeps its coordinates.                                  *)
LEMMA PublishKeepsCacheInv ==
  ASSUME PipelineIInv, CacheInv, PublishNext, UNCHANGED searchVars
  PROVE  CacheInv'
<1>1. \A p \in Publishes : topic[p] # None => topic'[p] = topic[p]
  BY PublishedStays DEF PipelineIInv
<1>2. \A e \in index : e \in CatalogEvents /\ e # None
  BY CatalogAssumption DEF PipelineIInv, SearchIInv, SearchTypeOK, Results
<1>3. \A e \in index : e \in Located' <=> e \in Located
  <2>1. \A e \in index : catalog[e].status = "PUBLISHED"
    BY DEF PipelineIInv, SearchIInv
  <2>2. \A e \in index : catalog'[e].located = catalog[e].located
    <3>1. CASE \E e \in CatalogEvents, able, located \in BOOLEAN : CreateDraft(e, able, located)
      BY <1>2, <2>1, <3>1 DEF CreateDraft, PipelineIInv, PublishIInv, PublishTypeOK, CatalogType
    <3>2. CASE \E p \in Publishes : PublishMark(p)
      BY <1>2, <3>2 DEF PublishMark, PipelineIInv, PublishIInv, PublishTypeOK, CatalogType
    <3>3. CASE UNCHANGED catalog
      BY <3>3
    <3> QED BY <3>1, <3>2, <3>3
            DEF PublishNext, PublishStep, StockStep, PublishRead, PublishAnswered, PublishFail,
                PublishEmit, StockLookup, StockInsert, StockCounters, StockFail, DropPublish
  <2> QED BY <1>2, <2>2 DEF Located
<1>4. UNCHANGED <<index, cache, ingest>>
  BY DEF searchVars
<1>5. \A e \in index' : \E p \in Publishes : topic'[p] = e
  BY <1>1, <1>2, <1>4 DEF CacheInv
<1>6. StaleResultIsExplained'
  BY <1>1, <1>2, <1>3, <1>4 DEF CacheInv, StaleResultIsExplained
<1>7. \A p \in Publishes : DeleteInv(p)'
  <2>1. ASSUME NEW p \in Publishes, ingest[p].pc = "delete"
        PROVE  topic[p] # None /\ topic[p] \in index /\ topic'[p] = topic[p]
    BY <1>1, <2>1 DEF PipelineIInv, SearchIInv, IngestInv
  <2> QED BY <1>3, <1>4, <2>1 DEF CacheInv, DeleteInv
<1> QED BY <1>5, <1>6, <1>7 DEF CacheInv

(* A step of an ingestion: KEYS lists every cached result, and DEL leaves  *)
(* none that misses the event but those that came late.                    *)
LEMMA IngestKeepsCacheInv ==
  ASSUME PipelineIInv, CacheInv, NEW p \in Publishes,
         IngestStep(p) \/ IngestError(p) \/ IngestRedelivered(p),
         UNCHANGED catalogVars
  PROVE  CacheInv'
<1>1. /\ topic' = topic /\ Located' = Located
      /\ ingest \in [Publishes -> IngestType] /\ cache \in [Queries -> CacheType]
      /\ \A q \in Publishes \ {p} : ingest'[q] = ingest[q]
  BY DEF Located, catalogVars, IngestStep, IngestIndex, IngestCategory, IngestSuggest, IngestKeys,
         IngestDelete, IngestError, IngestRedelivered, IngestGoto, PipelineIInv, SearchIInv, SearchTypeOK
<1>2. CASE IngestIndex(p)
  <2>1. index' = index \cup {topic[p]} /\ cache' = cache /\ ingest'[p].pc = "category"
    BY <1>1, <1>2 DEF IngestIndex, IndexedWith, AfterIndex, IngestGoto, IngestType
  <2>2. StaleResultIsExplained'
    BY <1>1, <2>1 DEF CacheInv, StaleResultIsExplained
  <2>3. \A r \in Publishes : DeleteInv(r)'
    BY <1>1, <2>1 DEF CacheInv, DeleteInv
  <2> QED BY <1>1, <2>1, <2>2, <2>3 DEF CacheInv
<1>3. CASE IngestCategory(p) \/ IngestSuggest(p) \/ IngestError(p) \/ IngestRedelivered(p)
  <2>1. index' = index /\ cache' = cache /\ ingest'[p].pc \in {"suggest", "keys", "dropped", "idle"}
    BY <1>1, <1>3 DEF IngestCategory, IngestSuggest, IngestError, AfterError, IngestRedelivered,
                      IngestGoto, IngestType
  <2>2. StaleResultIsExplained'
    BY <1>1, <2>1 DEF CacheInv, StaleResultIsExplained
  <2>3. \A r \in Publishes : DeleteInv(r)'
    BY <1>1, <2>1 DEF CacheInv, DeleteInv
  <2> QED BY <1>1, <2>1, <2>2, <2>3 DEF CacheInv
<1>4. CASE IngestKeys(p)
  <2>1. /\ index' = index /\ cache' = cache
        /\ ingest'[p] = [pc |-> "delete", keys |-> {q \in Queries : cache[q].full}]
    BY <1>1, <1>4 DEF IngestKeys, Matching
  <2>2. StaleResultIsExplained'
    BY <1>1, <2>1 DEF CacheInv, StaleResultIsExplained
  <2>3. \A r \in Publishes : DeleteInv(r)'
    BY <1>1, <2>1 DEF CacheInv, DeleteInv
  <2> QED BY <1>1, <2>1, <2>2, <2>3 DEF CacheInv
<1>5. CASE IngestDelete(p)
  <2>1. /\ index' = index /\ ingest[p].pc = "delete" /\ ingest'[p].pc = "done"
        /\ \A q \in Queries : /\ q \in ingest[p].keys => ~cache'[q].full
                              /\ q \notin ingest[p].keys => cache'[q] = cache[q]
    BY <1>1, <1>5 DEF IngestDelete, IngestGoto, IngestType, NotCached
  <2>2. StaleResultIsExplained'
    <3> SUFFICES ASSUME NEW q \in Queries, NEW e \in index \cap Located,
                        cache'[q].full, e \notin cache'[q].events, ~cache'[q].late
                 PROVE  \E r \in Publishes : topic[r] = e /\ ingest'[r].pc # "done"
      BY <1>1, <2>1 DEF StaleResultIsExplained
    <3>1. q \notin ingest[p].keys /\ cache'[q] = cache[q]
      BY <2>1
    <3>2. PICK r \in Publishes : topic[r] = e /\ ingest[r].pc # "done"
      BY <3>1 DEF CacheInv, StaleResultIsExplained
    <3>3. topic[p] # e
      BY <2>1, <3>1 DEF CacheInv, DeleteInv
    <3> QED BY <1>1, <3>2, <3>3
  <2>3. \A r \in Publishes : DeleteInv(r)'
    BY <1>1, <2>1 DEF CacheInv, DeleteInv
  <2> QED BY <1>1, <2>1, <2>2, <2>3 DEF CacheInv
<1> QED BY <1>2, <1>3, <1>4, <1>5 DEF IngestStep

(* Searches and expiry: a fill that misses what an ingestion past KEYS     *)
(* indexed is marked late, and before that the ingestion has yet to list.  *)
LEMMA SearchKeepsCacheInv ==
  ASSUME PipelineIInv, CacheInv, UNCHANGED catalogVars,
         \/ \E r \in Searches :
              (\E q \in Queries : SearchLookup(r, q)) \/ SearchStep(r, Located) \/ SearchFail(r)
         \/ \E q \in Queries : Expire(q)
  PROVE  CacheInv'
<1>1. /\ UNCHANGED <<index, ingest, topic>> /\ Located' = Located
      /\ cache \in [Queries -> CacheType]
  BY DEF SearchLookup, SearchStep, SearchQuery, SearchFill, SearchFail, Expire, catalogVars, Located,
         PipelineIInv, SearchIInv, SearchTypeOK
<1>2. CASE cache' = cache
  BY <1>1, <1>2 DEF CacheInv, StaleResultIsExplained, DeleteInv
<1>3. CASE \E q \in Queries : Expire(q)
  <2>1. \A q \in Queries : cache'[q] = cache[q] \/ ~cache'[q].full
    BY <1>1, <1>3 DEF Expire, NotCached
  <2> QED BY <1>1, <2>1 DEF CacheInv, StaleResultIsExplained, DeleteInv
<1>4. CASE \E s \in Searches : SearchFill(s, Located) /\ cache' # cache
  <2>1. PICK s \in Searches : SearchFill(s, Located) /\ cache' # cache
    BY <1>4
  <2>2. PICK o, found : /\ o = search[s].query /\ found = search[s].result
    OBVIOUS
  <2>3. /\ \A q \in Queries \ {o} : cache'[q] = cache[q]
        /\ o \in Queries => /\ cache'[o].events = found
                            /\ cache'[o].late = Late(found, Located)
    BY <1>1, <2>1, <2>2 DEF SearchFill, Cached
  <2>4. StaleResultIsExplained'
    <3> SUFFICES ASSUME NEW q \in Queries, NEW e \in index \cap Located,
                        cache'[q].full, e \notin cache'[q].events, ~cache'[q].late
                 PROVE  \E p \in Publishes : topic[p] = e /\ ingest[p].pc # "done"
      BY <1>1 DEF StaleResultIsExplained
    <3>1. CASE q # o
      BY <2>3, <3>1 DEF CacheInv, StaleResultIsExplained
    <3>2. CASE q = o
      BY <2>3, <3>2 DEF CacheInv, Late
    <3> QED BY <3>1, <3>2
  <2>5. \A p \in Publishes : DeleteInv(p)'
    <3> SUFFICES ASSUME NEW p \in Publishes, ingest[p].pc = "delete", topic[p] \in Located,
                        NEW q \in Queries, cache'[q].full, topic[p] \notin cache'[q].events,
                        ~cache'[q].late
                 PROVE  q \in ingest[p].keys
      BY <1>1 DEF DeleteInv
    <3>1. topic[p] \in index
      BY DEF PipelineIInv, SearchIInv, IngestInv
    <3>2. q # o
      BY <2>3, <3>1 DEF Late
    <3> QED BY <2>3, <3>2 DEF CacheInv, DeleteInv
  <2> QED BY <1>1, <2>4, <2>5 DEF CacheInv
<1> QED BY <1>2, <1>3, <1>4 DEF SearchLookup, SearchStep, SearchQuery, SearchFail

(* No cached search result misses an indexed event for another reason than *)
(* a fill that overlapped the invalidation, or an ingestion that is not    *)
(* finished or was given up (ingestEvent's KEYS and DEL, search's SETEX).  *)
THEOREM StaleResultHasCause == PipelineSpec => []StaleResultIsExplained
<1>1. PipelineInit => CacheInv
  BY DEF PipelineInit, SearchInit, CacheInv, StaleResultIsExplained, DeleteInv
<1>2. ASSUME PipelineIInv, CacheInv, [PipelineNext]_pipelineVars PROVE CacheInv'
  <2>1. CASE PublishMove
    BY <1>2, <2>1, PublishKeepsCacheInv DEF PublishMove
  <2>2. CASE SearchMove
    BY <1>2, <2>2, IngestKeepsCacheInv, SearchKeepsCacheInv DEF SearchMove, SearchNext
  <2>3. CASE UNCHANGED pipelineVars
    BY <1>2, <2>3 DEF pipelineVars, publishVars, catalogVars, searchVars, CacheInv,
                      StaleResultIsExplained, DeleteInv, Located
  <2> QED BY <1>2, <2>1, <2>2, <2>3 DEF PipelineNext
<1>3. CacheInv => StaleResultIsExplained
  BY DEF CacheInv
<1> QED BY <1>1, <1>2, <1>3, PipelineInvariance, PTL DEF PipelineSpec

-----------------------------------------------------------------------------
(* A call that reached the booking service is for a complete event.        *)
SentIsComplete ==
  \A p \in Publishes :
    pubCall[p] # "idle" =>
      catalog[publish[p].event].status # "none" /\ catalog[publish[p].event].publishable

(* What the catalogue says of an event does not change but for the status. *)
EventsStay ==
  \A e \in CatalogEvents :
    catalog[e].status # "none" =>
      catalog'[e].status # "none" /\ catalog'[e].publishable = catalog[e].publishable

(* The steps of publishing that write what the life of an event shows.     *)
LifeWrites ==
  \/ \E e \in CatalogEvents, able, located \in BOOLEAN : CreateDraft(e, able, located)
  \/ \E p \in Publishes : PublishMark(p) \/ PublishEmit(p) \/ StockInsert(p)

LEMMA OtherWrites ==
  ASSUME PublishNext
  PROVE  \/ LifeWrites
         \/ \E p \in Publishes, e \in CatalogEvents : PublishRead(p, e)
         \/ UNCHANGED <<catalog, rows, publish, topic>>
         \/ \E p \in Publishes : /\ PublishAnswered(p) \/ PublishFail(p)
                                 /\ UNCHANGED <<catalog, rows, topic, pubCall>>
BY DEF PublishNext, LifeWrites, PublishStep, StockStep, PublishAnswered, PublishFail, StockLookup,
       StockCounters, StockFail, DropPublish

LEMMA EventsDoStay ==
  ASSUME PublishIInv, [PublishNext]_publishVars
  PROVE  EventsStay
<1>1. CASE \E e \in CatalogEvents, able, located \in BOOLEAN : CreateDraft(e, able, located)
  BY <1>1 DEF CreateDraft, EventsStay, PublishIInv, PublishTypeOK, CatalogType
<1>2. CASE \E p \in Publishes : PublishMark(p)
  BY <1>2 DEF PublishMark, EventsStay, PublishIInv, PublishTypeOK, CatalogType
<1>3. CASE UNCHANGED catalog
  BY <1>3 DEF EventsStay
<1> QED BY <1>1, <1>2, <1>3, OtherWrites
        DEF LifeWrites, PublishEmit, StockInsert, PublishRead, publishVars, catalogVars

(* But for a call that starts, calls keep their event, and none is sent.   *)
LEMMA CallsMove ==
  ASSUME PublishIInv, NEW p \in Publishes,
         PublishStep(p) \/ PublishFail(p) \/ StockStep(p) \/ StockFail(p) \/ DropPublish(p)
  PROVE  \A q \in Publishes : /\ publish'[q].event = publish[q].event
                              /\ pubCall[q] = "idle" => pubCall'[q] = "idle"
<1>1. /\ publish \in [Publishes -> PublishType] /\ pubCall \in [Publishes -> CallState]
      /\ stock[p] # "idle" => pubCall[p] # "idle"
  BY DEF PublishIInv, PublishTypeOK, CallInv
<1>2. CASE PublishStep(p) \/ PublishFail(p)
  BY <1>1, <1>2 DEF PublishStep, PublishAnswered, PublishMark, PublishEmit, PublishFail, PublishType
<1>3. CASE StockStep(p) \/ StockFail(p) \/ DropPublish(p)
  <2>1. publish' = publish
    BY <1>3 DEF StockStep, StockLookup, StockInsert, StockCounters, StockFail, DropPublish
  <2>2. pubCall[p] # "idle"
    BY <1>1, <1>3 DEF StockStep, StockLookup, StockInsert, StockCounters, StockFail, DropPublish, Deliverable
  <2>3. \A q \in Publishes \ {p} : pubCall'[q] = pubCall[q]
    BY <1>1, <1>3 DEF StockStep, StockLookup, StockInsert, StockCounters, StockFail, DropPublish, StockAnswer
  <2> QED BY <2>1, <2>2, <2>3
<1> QED BY <1>2, <1>3

LEMMA NextSentIsComplete ==
  ASSUME PipelineIInv, SentIsComplete, [PipelineNext]_pipelineVars
  PROVE  SentIsComplete'
<1>1. CASE UNCHANGED catalogVars
  BY <1>1 DEF catalogVars, SentIsComplete
<1>2. CASE PublishNext
  <2>1. EventsStay
    BY <1>2, EventsDoStay DEF PipelineIInv
  <2>2. /\ publish \in [Publishes -> PublishType] /\ pubCall \in [Publishes -> CallState]
        /\ \A p \in Publishes : pubCall[p] # "idle" => publish[p].event \in CatalogEvents
        /\ \A p \in Publishes : publish[p].pc = "idle" => pubCall[p] = "idle"
    BY DEF PipelineIInv, PublishIInv, PublishTypeOK, CallInv
  <2>3. ASSUME \A q \in Publishes : /\ publish'[q].event = publish[q].event
                                    /\ pubCall[q] = "idle" => pubCall'[q] = "idle"
        PROVE  SentIsComplete'
    BY <2>1, <2>2, <2>3 DEF EventsStay, SentIsComplete
  <2>4. ASSUME NEW p \in Publishes, NEW e \in CatalogEvents, PublishRead(p, e)
        PROVE  SentIsComplete'
    <3>1. /\ catalog' = catalog /\ publish'[p].event = e
          /\ MayPublish(e) \/ pubCall'[p] = "idle"
          /\ \A q \in Publishes \ {p} : publish'[q] = publish[q] /\ pubCall'[q] = pubCall[q]
      BY <2>2, <2>4 DEF PublishRead
    <3> QED BY <3>1 DEF MayPublish, SentIsComplete
  <2>5. ASSUME NEW e \in CatalogEvents, NEW able \in BOOLEAN, NEW located \in BOOLEAN,
               CreateDraft(e, able, located)
        PROVE  SentIsComplete'
    BY <2>3, <2>5 DEF CreateDraft
  <2> QED BY <1>2, <2>3, <2>4, <2>5, CallsMove DEF PipelineIInv, PublishNext
<1> QED BY <1>1, <1>2 DEF PipelineNext, PublishMove, SearchMove, pipelineVars, publishVars

-----------------------------------------------------------------------------
(* The life of an event as the services' variables show it. *)
Drafted == {e \in CatalogEvents : catalog[e].status # "none"}
Complete == {e \in CatalogEvents : catalog[e].status # "none" /\ catalog[e].publishable}
OnSale == {e \in CatalogEvents : RowsOf(e) # {}}
Published == {e \in CatalogEvents : catalog[e].status = "PUBLISHED"}
Announced == {e \in CatalogEvents : \E p \in Publishes : topic[p] = e}

LEMMA LifeStays ==
  ASSUME UNCHANGED <<Drafted, Complete, OnSale, Published, Announced, index, sets>>
  PROVE  UNCHANGED Life!lifeVars
BY DEF Life!lifeVars, Drafted, Complete, OnSale, Published, Announced, sets

(* Rows are found by the event of the call that inserted them, which a row *)
(* keeps, because its call was sent.                                       *)
LEMMA RowsStay ==
  ASSUME PublishIInv, NEW p \in Publishes,
         \/ PublishStep(p) \/ PublishFail(p) \/ StockStep(p) \/ StockFail(p) \/ DropPublish(p)
         \/ \E e \in CatalogEvents : PublishRead(p, e),
         rows' = rows
  PROVE  OnSale' = OnSale
<1>1. \A q \in rows : q \in Publishes /\ publish[q].pc # "idle"
  BY DEF PublishIInv, PublishTypeOK, CallInv
<1>2. \A q \in rows : publish'[q].event = publish[q].event
  <2>1. CASE \E e \in CatalogEvents : PublishRead(p, e)
    BY <1>1, <2>1 DEF PublishRead, PublishIInv, PublishTypeOK
  <2> QED BY <1>1, <2>1, CallsMove
<1> QED BY <1>2 DEF OnSale, RowsOf

LEMMA DraftStep ==
  ASSUME PublishIInv, NEW e \in CatalogEvents, NEW able \in BOOLEAN, NEW located \in BOOLEAN,
         CreateDraft(e, able, located), UNCHANGED searchVars
  PROVE  Life!Draft(e)
<1>1. /\ catalog \in [CatalogEvents -> CatalogType] /\ catalog[e].status = "none"
      /\ catalog' = [catalog EXCEPT ![e] = [status |-> "DRAFT", publishable |-> able, located |-> located]]
      /\ UNCHANGED <<rows, publish, topic, index, categories, suggestions>>
  BY DEF CreateDraft, PublishIInv, PublishTypeOK, searchVars
<1>2. e \notin Drafted /\ Drafted' = Drafted \cup {e} /\ Published' = Published
  BY <1>1 DEF Drafted, Published, CatalogType
<1>3. OnSale' = OnSale /\ Announced' = Announced
  BY <1>1 DEF OnSale, RowsOf, Announced
<1>4. Complete' \in {Complete, Complete \cup {e}}
  <2>1. e \notin Complete
    BY <1>1 DEF Complete
  <2>2. Complete' = IF able THEN Complete \cup {e} ELSE Complete
    BY <1>1, <2>1 DEF Complete, CatalogType
  <2> QED BY <2>2
<1> QED BY <1>1, <1>2, <1>3, <1>4 DEF Life!Draft, Drafted, Complete, OnSale, Published, Announced

(* The booking service inserts a row. *)
LEMMA StockStepOfLife ==
  ASSUME PipelineIInv, SentIsComplete, NEW p \in Publishes, StockInsert(p), UNCHANGED searchVars
  PROVE  [Life!LifeNext]_(Life!lifeVars)
<1>1. PICK e \in CatalogEvents : e = publish[p].event
  BY DEF StockInsert, PipelineIInv, PublishIInv, CallInv
<1>2. UNCHANGED <<catalog, publish, topic, index, categories, suggestions, sets>>
  BY DEF StockInsert, searchVars, sets
<1>3. UNCHANGED <<Drafted, Complete, Published, Announced>>
  BY <1>2 DEF Drafted, Complete, Published, Announced
<1>4. CASE rows' = rows
  BY <1>2, <1>3, <1>4, LifeStays DEF OnSale, RowsOf
<1>5. CASE rows' = rows \cup {p} /\ RowsOf(e) = {}
  <2>1. e \in Drafted \cap Complete /\ e \notin OnSale
    BY <1>1, <1>5 DEF StockInsert, SentIsComplete, PipelineIInv, PublishIInv, CallInv, Drafted, Complete, OnSale
  <2>2. OnSale' = OnSale \cup {e}
    BY <1>1, <1>2, <1>5 DEF OnSale, RowsOf
  <2>3. Life!Stock(e)
    BY <1>2, <1>3, <2>1, <2>2 DEF Life!Stock, Drafted, Complete, OnSale, Published, Announced
  <2> QED BY <2>3 DEF Life!LifeNext
<1> QED BY <1>1, <1>4, <1>5 DEF StockInsert, StockFree

(* The partner service marks the event published. *)
LEMMA MarkStep ==
  ASSUME PipelineIInv, SentIsComplete, NEW p \in Publishes, PublishMark(p), UNCHANGED searchVars
  PROVE  [Life!LifeNext]_(Life!lifeVars)
<1>1. PICK e \in CatalogEvents : e = publish[p].event
  BY DEF PublishMark, PipelineIInv, PublishIInv, CallInv
<1>2. /\ catalog \in [CatalogEvents -> CatalogType] /\ p \in rows
      /\ catalog' = [catalog EXCEPT ![e].status = "PUBLISHED"]
      /\ UNCHANGED <<rows, topic, index, categories, suggestions>>
  BY <1>1 DEF PublishMark, PipelineIInv, PublishIInv, PublishTypeOK, CallInv, searchVars
<1>3. OnSale' = OnSale /\ Announced' = Announced
  BY <1>2, RowsStay DEF PublishStep, PipelineIInv, Announced
<1>4. e \in OnSale
  BY <1>1, <1>2 DEF OnSale, RowsOf
<1>5. catalog[e].status # "none"
  BY <1>1 DEF PublishMark, SentIsComplete, PipelineIInv, PublishIInv, CallInv
<1>6. Drafted' = Drafted /\ Complete' = Complete /\ Published' = Published \cup {e}
  BY <1>2, <1>5 DEF Drafted, Complete, Published, CatalogType
<1>7. Life!Publish(e)
  BY <1>2, <1>3, <1>4, <1>6 DEF Life!Publish, Drafted, Complete, OnSale, Published, Announced
<1> QED BY <1>7 DEF Life!LifeNext

(* The partner service emits the message. *)
LEMMA EmitStep ==
  ASSUME PipelineIInv, NEW p \in Publishes, PublishEmit(p), UNCHANGED searchVars
  PROVE  [Life!LifeNext]_(Life!lifeVars)
<1>1. PICK e \in CatalogEvents : e = publish[p].event
  BY DEF PublishEmit, PipelineIInv, PublishIInv, CallInv
<1>2. /\ topic \in [Publishes -> CatalogEvents \cup {None}] /\ topic[p] = None
      /\ catalog[e].status = "PUBLISHED"
      /\ UNCHANGED <<catalog, rows, index, categories, suggestions, sets>>
  BY <1>1 DEF PublishEmit, PipelineIInv, PublishIInv, PublishTypeOK, TopicTypeOK, CallInv, searchVars, sets
<1>3. UNCHANGED <<Drafted, Complete, OnSale, Published>>
  BY <1>2, RowsStay DEF PublishStep, PipelineIInv, Drafted, Complete, Published
<1>4. CASE topic' = topic
  BY <1>2, <1>3, <1>4, LifeStays DEF Announced
<1>5. CASE topic' = [topic EXCEPT ![p] = e]
  <2>1. Announced' = Announced \cup {e}
    BY <1>2, <1>5, CatalogAssumption DEF Announced
  <2>2. e \in Published
    BY <1>2 DEF Published
  <2>3. CASE e \in Announced
    <3>1. Announced' = Announced
      BY <2>1, <2>3
    <3> QED BY <1>2, <1>3, <3>1, LifeStays
  <2>4. CASE e \notin Announced
    <3>1. Life!Announce(e)
      BY <1>2, <1>3, <2>1, <2>2, <2>4 DEF Life!Announce, Drafted, Complete, OnSale, Published, Announced
    <3> QED BY <3>1 DEF Life!LifeNext
  <2> QED BY <2>3, <2>4
<1> QED BY <1>1, <1>4, <1>5 DEF PublishEmit

(* The event search service takes what it was told a step further. *)
LEMMA IngestStepOfLife ==
  ASSUME PipelineIInv, NEW p \in Publishes,
         IngestIndex(p) \/ IngestCategory(p) \/ IngestSuggest(p), UNCHANGED catalogVars
  PROVE  [Life!LifeNext]_(Life!lifeVars)
<1>1. /\ UNCHANGED <<catalog, rows, publish, topic>> /\ topic[p] \in CatalogEvents
      /\ ingest[p].pc \in {"category", "suggest"} => topic[p] \in index
      /\ ingest[p].pc = "suggest" => topic[p] \in categories
  BY DEF catalogVars, IngestIndex, IngestCategory, IngestSuggest, Arrived, PipelineIInv, PublishIInv,
         PublishTypeOK, TopicTypeOK, SearchIInv, IngestInv
<1>2. UNCHANGED <<Drafted, Complete, OnSale, Published, Announced>>
  BY <1>1 DEF Drafted, Complete, OnSale, RowsOf, Published, Announced
<1>3. PICK e \in CatalogEvents : e = topic[p]
  BY <1>1
<1>4. CASE IngestIndex(p)
  <2>1. e \in Announced /\ index' = index \cup {e} /\ UNCHANGED <<categories, suggestions>>
    BY <1>3, <1>4 DEF IngestIndex, IndexedWith, Announced
  <2>2. Life!Index(e)
    BY <1>2, <2>1 DEF Life!Index, Drafted, Complete, OnSale, Published, Announced
  <2> QED BY <2>2 DEF Life!LifeNext
<1>5. CASE IngestCategory(p)
  <2>1. e \in index /\ categories' = categories \cup {e} /\ UNCHANGED <<index, suggestions>>
    BY <1>1, <1>3, <1>5 DEF IngestCategory
  <2>2. Life!List(e)
    BY <1>2, <2>1 DEF Life!List, Drafted, Complete, OnSale, Published, Announced
  <2> QED BY <2>2 DEF Life!LifeNext
<1>6. CASE IngestSuggest(p)
  <2>1. e \in categories /\ suggestions' = suggestions \cup {e} /\ UNCHANGED <<index, categories>>
    BY <1>1, <1>3, <1>6 DEF IngestSuggest
  <2>2. Life!Suggest(e)
    BY <1>2, <2>1 DEF Life!Suggest, Drafted, Complete, OnSale, Published, Announced
  <2> QED BY <2>2 DEF Life!LifeNext
<1> QED BY <1>4, <1>5, <1>6

(* What is left shows no change of any event's life. *)
LEMMA PublishingStutters ==
  ASSUME PipelineIInv, PublishNext, ~LifeWrites, UNCHANGED searchVars
  PROVE  UNCHANGED Life!lifeVars
<1>1. UNCHANGED <<index, sets>>
  BY DEF searchVars, sets
<1>2. UNCHANGED <<catalog, rows, topic>>
  BY OtherWrites DEF PublishRead
<1>3. OnSale' = OnSale
  <2>1. PICK p \in Publishes :
          \/ PublishStep(p) \/ PublishFail(p) \/ StockStep(p) \/ StockFail(p) \/ DropPublish(p)
          \/ \E e \in CatalogEvents : PublishRead(p, e)
    BY DEF PublishNext, LifeWrites
  <2> QED BY <1>2, <2>1, RowsStay DEF PipelineIInv
<1> QED BY <1>1, <1>2, <1>3, LifeStays DEF Drafted, Complete, Published, Announced

LEMMA SearchingStutters ==
  ASSUME SearchNext(Located), UNCHANGED catalogVars,
         \A p \in Publishes : ~IngestIndex(p) /\ ~IngestCategory(p) /\ ~IngestSuggest(p)
  PROVE  UNCHANGED Life!lifeVars
<1>1. UNCHANGED <<index, sets, topic>>
  <2>1. ASSUME NEW p \in Publishes, IngestStep(p) \/ IngestError(p) \/ IngestRedelivered(p)
        PROVE  UNCHANGED <<index, sets, topic>>
    BY <2>1 DEF IngestStep, IngestKeys, IngestDelete, IngestError, IngestRedelivered
  <2>2. ASSUME \/ \E s \in Searches :
                    (\E q \in Queries : SearchLookup(s, q)) \/ SearchStep(s, Located) \/ SearchFail(s)
               \/ \E q \in Queries : Expire(q)
        PROVE  UNCHANGED <<index, sets, topic>>
    BY <2>2 DEF SearchLookup, SearchStep, SearchQuery, SearchFill, SearchFail, Expire
  <2> QED BY <2>1, <2>2 DEF SearchNext
<1>2. UNCHANGED <<catalog, rows, publish>>
  BY DEF catalogVars
<1> QED BY <1>1, <1>2, LifeStays DEF Drafted, Complete, OnSale, RowsOf, Published, Announced

LEMMA LifeSteps ==
  ASSUME PipelineIInv, SentIsComplete, [PipelineNext]_pipelineVars
  PROVE  [Life!LifeNext]_(Life!lifeVars)
<1>1. CASE PublishMove
  <2>1. ASSUME NEW e \in CatalogEvents, NEW able \in BOOLEAN, NEW located \in BOOLEAN,
               CreateDraft(e, able, located)
        PROVE  [Life!LifeNext]_(Life!lifeVars)
    <3>1. Life!Draft(e)
      BY <1>1, <2>1, DraftStep DEF PublishMove, PipelineIInv
    <3> QED BY <3>1 DEF Life!LifeNext
  <2>2. ASSUME NEW p \in Publishes, PublishMark(p) \/ PublishEmit(p) \/ StockInsert(p)
        PROVE  [Life!LifeNext]_(Life!lifeVars)
    BY <1>1, <2>2, MarkStep, EmitStep, StockStepOfLife DEF PublishMove
  <2> QED BY <1>1, <2>1, <2>2, PublishingStutters DEF PublishMove, LifeWrites
<1>2. CASE SearchMove
  <2>1. ASSUME NEW p \in Publishes, IngestIndex(p) \/ IngestCategory(p) \/ IngestSuggest(p)
        PROVE  [Life!LifeNext]_(Life!lifeVars)
    BY <1>2, <2>1, IngestStepOfLife DEF SearchMove
  <2> QED BY <1>2, <2>1, SearchingStutters DEF SearchMove
<1>3. CASE UNCHANGED pipelineVars
  BY <1>3, LifeStays DEF pipelineVars, publishVars, catalogVars, searchVars, sets,
     Drafted, Complete, OnSale, RowsOf, Published, Announced
<1> QED BY <1>1, <1>2, <1>3 DEF PipelineNext

LEMMA LifeStarts == PipelineInit => Life!LifeInit
BY CatalogAssumption
   DEF PipelineInit, PublishInit, SearchInit, TopicInit, RowsOf, Life!LifeInit

(* The partner, booking and event search services lead every event through *)
(* its life in order and take nothing back, whatever is lost, refused,     *)
(* retried or delivered twice (publishEvent, publishFromCatalog,           *)
(* ingestEvent).                                                           *)
THEOREM PipelineImplementsLife == PipelineSpec => ImplementsLife
<1>1. PipelineInit => SentIsComplete
  BY DEF PipelineInit, PublishInit, SentIsComplete
<1>2. PipelineIInv /\ SentIsComplete /\ [PipelineNext]_pipelineVars => SentIsComplete'
  BY NextSentIsComplete
<1>3. PipelineIInv /\ SentIsComplete /\ [PipelineNext]_pipelineVars => [Life!LifeNext]_(Life!lifeVars)
  BY LifeSteps
<1> QED BY <1>1, <1>2, <1>3, LifeStarts, PipelineInvariance, PTL
        DEF PipelineSpec, ImplementsLife, Life!LifeSpec
=============================================================================
