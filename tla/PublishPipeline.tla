--------------------------- MODULE PublishPipeline ---------------------------
(***************************************************************************)
(* From the partner's draft to the buyer's search result: the partner, the *)
(* booking and the event search services around the topic event.published. *)
(***************************************************************************)
EXTENDS CatalogPublish, EventSearch

pipelineVars == <<publishVars, searchVars>>

PipelineTypeOK == PublishTypeOK /\ SearchTypeOK

Located == {e \in CatalogEvents : catalog[e].located}

PipelineInit == PublishInit /\ SearchInit
PublishMove == PublishNext /\ UNCHANGED searchVars
SearchMove == SearchNext(Located) /\ UNCHANGED catalogVars
PipelineNext == PublishMove \/ SearchMove

(* Started handlers run on, sent calls and messages arrive.  Nothing       *)
(* forces a draft, a publish call, a search or a fault.                    *)
PipelineFairness ==
  \A p \in Publishes :
    /\ WF_pipelineVars(PublishStep(p) /\ UNCHANGED searchVars)
    /\ WF_pipelineVars(/\ StockStep(p) /\ UNCHANGED searchVars
                       /\ stock[p] = "idle" => pubCall[p] = "sent")
    /\ WF_pipelineVars(IngestStep(p) /\ UNCHANGED catalogVars)

PipelineSpec == PipelineInit /\ [][PipelineNext]_pipelineVars /\ PipelineFairness

(* Partners that publish a draft again as long as it is one. *)
RepublishSpec ==
  /\ PipelineSpec
  /\ \A p \in Publishes :
       WF_pipelineVars(/\ \E e \in CatalogEvents : catalog[e].status = "DRAFT" /\ PublishRead(p, e)
                       /\ UNCHANGED searchVars)

-----------------------------------------------------------------------------
(* What a buyer can find is on sale: an event in the search index is       *)
(* published in the catalogue and has inventory to book, three databases   *)
(* written by three services in turn.                                      *)
IndexedIsOnSale ==
  \A e \in index : catalog[e].status = "PUBLISHED" /\ RowsOf(e) # {}

(* A title is suggested only once its event is indexed and its category    *)
(* listed, also when an ingestion fails half way or is run again.  (The    *)
(* geo search still returns no suggested event that has no coordinates.)   *)
SuggestedIsIndexed == suggestions \subseteq index /\ suggestions \subseteq categories

(* The three services together lead an event through its life, whatever is *)
(* refused, lost, retried or delivered twice: only a complete draft goes   *)
(* on sale, no service is ahead of the one before it, and none goes back.  *)
Life == INSTANCE EventLife WITH
  Events <- CatalogEvents,
  drafted <- {e \in CatalogEvents : catalog[e].status # "none"},
  complete <- {e \in CatalogEvents : catalog[e].status # "none" /\ catalog[e].publishable},
  onSale <- {e \in CatalogEvents : RowsOf(e) # {}},
  published <- {e \in CatalogEvents : catalog[e].status = "PUBLISHED"},
  announced <- {e \in CatalogEvents : \E p \in Publishes : topic[p] = e},
  indexed <- index,
  listed <- categories,
  suggested <- suggestions

ImplementsLife == Life!LifeSpec

(* A published event that is not indexed has one of four stories, told of  *)
(* the one call whose inventory row it has: the call has yet to emit, died *)
(* after the update of the status, lost its message in the un-awaited      *)
(* emit, or has a message that is on its way or that the consumer gave up. *)
UnindexedIsExplained ==
  \A e \in CatalogEvents :
    catalog[e].status = "PUBLISHED" /\ e \notin index
    => \E p \in RowsOf(e) :
         \/ publish[p].pc \in {"emit", "failed"}
         \/ publish[p].pc = "done" /\ topic[p] = None
         \/ topic[p] = e /\ ingest[p].pc \in {"idle", "dropped"}

(* A cached result that misses an event the index has and the filter lets  *)
(* through was stored by a search that had read the index before the event *)
(* and stored its result after the ingestion had listed the keys to        *)
(* delete; or the event's ingestion is not finished, or was given up.      *)
StaleResultIsExplained ==
  \A q \in Queries, e \in index \cap Located :
    cache[q].full /\ e \notin cache[q].events
    => cache[q].late \/ \E p \in Publishes : topic[p] = e /\ ingest[p].pc # "done"

(* Publishing a complete draft ends with the event published and indexed,  *)
(* whichever of the calls that race for it is refused, unless the call     *)
(* that should bring it there was lost on the way: no call could insert    *)
(* the row; or the handler of the one that did has failed, its message was *)
(* never sent, or the consumer gave it up.                                 *)
PublishedIsSearchable ==
  \A p \in Publishes, e \in CatalogEvents :
    publish[p].pc = "call" /\ publish[p].event = e
    ~> \/ catalog[e].status = "PUBLISHED" /\ e \in index
       \/ RowsOf(e) = {} /\ publish[p].pc = "failed"
       \/ \E q \in RowsOf(e) :
            \/ publish[q].pc = "failed"
            \/ publish[q].pc = "done" /\ topic[q] = None
            \/ ingest[q].pc = "dropped"

(* "Invalidate cached query results for this city to force update": after  *)
(* the ingestion of an event no cached result of the city misses it.       *)
FreshAfterIngest ==
  \A p \in Publishes, q \in Queries :
    ingest[p].pc = "done" /\ topic[p] \in Located /\ cache[q].full
    => topic[p] \in cache[q].events

(* "When an event is published, it transitions from a catalog draft into   *)
(* an active, bookable transaction inventory": if a call left an event on  *)
(* sale but a draft, a later publish call ends with the event published,   *)
(* unless a fault hits that call too.                                      *)
RepublishWorks ==
  \A e \in CatalogEvents, p \in Publishes :
    /\ catalog[e].status = "DRAFT" /\ RowsOf(e) # {}
    /\ publish[p].pc = "idle"
    ~> \/ catalog[e].status = "PUBLISHED"
       \/ publish[p].event \notin {None, e}
       \/ publish[p].pc = "failed" /\ pubCall[p] # "error"
=============================================================================
