--------------------------- MODULE CatalogPublish ---------------------------
(***************************************************************************)
(* Publishing an event: publishEvent of the partner service, which reads   *)
(* the draft, has the booking service create the inventory over HTTP,      *)
(* marks the draft published and emits event.published; and                *)
(* publishFromCatalog of the booking service, which creates the inventory  *)
(* row and the Redis counters of its ticket types.  publish[p] is the      *)
(* handler of call p in the partner service, stock[p] the one its HTTP     *)
(* call starts in the booking service.                                     *)
(***************************************************************************)
EXTENDS EventTopic, HttpCall

VARIABLES
  catalog,   \* Event rows of the partner service
  rows,      \* EventInventory rows, named by the call that inserted them
  counters,  \* calls whose row has its Redis counters
  publish,   \* publishEvent handlers
  stock,     \* publishFromCatalog handlers
  pubCall    \* progress of the HTTP call in between

catalogVars == <<catalog, rows, counters, publish, stock, pubCall>>
publishVars == <<catalogVars, topic>>

(* publishable: has tickets, a venue or an address, and times that parse;  *)
(* located: has coordinates.  No code cancels or edits an event.           *)
CatalogType ==
  [status : {"none", "DRAFT", "PUBLISHED"}, publishable : BOOLEAN, located : BOOLEAN]
PublishType ==
  [pc : {"idle", "call", "mark", "emit", "done", "failed"}, event : CatalogEvents \cup {None}]

PublishTypeOK ==
  /\ catalog \in [CatalogEvents -> CatalogType]
  /\ rows \in SUBSET Publishes /\ counters \in SUBSET rows
  /\ publish \in [Publishes -> PublishType]
  /\ stock \in [Publishes -> {"idle", "insert", "counters", "done", "failed"}]
  /\ pubCall \in [Publishes -> CallState]
  /\ TopicTypeOK

PublishInit ==
  /\ catalog = [e \in CatalogEvents |->
                  [status |-> "none", publishable |-> FALSE, located |-> FALSE]]
  /\ rows = {} /\ counters = {}
  /\ publish = [p \in Publishes |-> [pc |-> "idle", event |-> None]]
  /\ stock = [p \in Publishes |-> "idle"]
  /\ pubCall = [p \in Publishes |-> "idle"]
  /\ TopicInit

RowsOf(e) == {p \in rows : publish[p].event = e}

-----------------------------------------------------------------------------
(* The partner service *)

CreateDraft(e, able, located) ==
  /\ catalog[e].status = "none"
  /\ catalog' = [catalog EXCEPT ![e] =
                   [status |-> "DRAFT", publishable |-> able, located |-> located]]
  /\ UNCHANGED <<rows, counters, publish, stock, pubCall, topic>>

(* Only a draft that can be sold is sent on to the booking service. *)
MayPublishAnyDraft(e) == catalog[e].status = "DRAFT"  \* mutant: what it lacks is not looked at
MayPublish(e) == catalog[e].status = "DRAFT" /\ catalog[e].publishable

PublishRead(p, e) ==
  /\ publish[p].pc = "idle"
  /\ \/ /\ MayPublish(e)
        /\ publish' = [publish EXCEPT ![p] = [pc |-> "call", event |-> e]]
        /\ pubCall' = [pubCall EXCEPT ![p] = "sent"]
     \/ /\ ~MayPublish(e)
        /\ publish' = [publish EXCEPT ![p] = [pc |-> "failed", event |-> e]]
        /\ UNCHANGED pubCall
  /\ UNCHANGED <<catalog, rows, counters, stock, topic>>

(* BookingClientService.publishInventory: axios resolves on every status,  *)
(* and a status from 400 is turned into an exception.                      *)
StockAnswered(p) == pubCall[p] \in {"ok", "error"}  \* mutant: the status is not looked at
StockGranted(p) == pubCall[p] = "ok"

AfterStockEmit == "emit"  \* mutant: the message is emitted without the update
AfterStock == "mark"

PublishAnswered(p) ==
  /\ publish[p].pc = "call"
  /\ \/ /\ StockGranted(p)
        /\ publish' = [publish EXCEPT ![p].pc = AfterStock]
     \/ /\ CallFailed(pubCall[p])
        /\ publish' = [publish EXCEPT ![p].pc = "failed"]
  /\ UNCHANGED <<catalog, rows, counters, stock, pubCall, topic>>

PublishMark(p) ==
  /\ publish[p].pc = "mark"
  /\ catalog' = [catalog EXCEPT ![publish[p].event].status = "PUBLISHED"]
  /\ publish' = [publish EXCEPT ![p].pc = "emit"]
  /\ UNCHANGED <<rows, counters, stock, pubCall, topic>>

(* kafkaClient.emit is not awaited: the handler ends whether or not the    *)
(* message reaches the broker.                                             *)
PublishEmit(p) ==
  /\ publish[p].pc = "emit"
  /\ \/ topic' = [topic EXCEPT ![p] = publish[p].event]
     \/ Faults /\ UNCHANGED topic
  /\ publish' = [publish EXCEPT ![p].pc = "done"]
  /\ UNCHANGED <<catalog, rows, counters, stock, pubCall>>

PublishFail(p) ==
  /\ Faults
  /\ publish[p].pc \in {"call", "mark", "emit"}
  /\ publish' = [publish EXCEPT ![p].pc = "failed"]
  /\ UNCHANGED <<catalog, rows, counters, stock, pubCall, topic>>

-----------------------------------------------------------------------------
(* The booking service *)

StockAnswer(p, a) == pubCall' = [pubCall EXCEPT ![p] = Answer(@, a)]

(* 409 if the event has inventory already. *)
StockLookup(p) ==
  LET exists == RowsOf(publish[p].event) # {} IN
  /\ stock[p] = "idle" /\ Deliverable(pubCall[p])
  /\ \/ exists /\ stock' = [stock EXCEPT ![p] = "failed"] /\ StockAnswer(p, "error")
     \/ ~exists /\ stock' = [stock EXCEPT ![p] = "insert"] /\ UNCHANGED pubCall
  /\ UNCHANGED <<catalog, rows, counters, publish, topic>>

(* The unique index on catalogEventId lets an insert through. *)
StockFreeUnindexed(e) == TRUE  \* mutant: no unique index
StockFree(e) == RowsOf(e) = {}

StockInsert(p) ==
  LET free == StockFree(publish[p].event) IN
  /\ stock[p] = "insert"
  /\ \/ /\ free
        /\ rows' = rows \cup {p}
        /\ stock' = [stock EXCEPT ![p] = "counters"]
        /\ UNCHANGED pubCall
     \/ /\ ~free
        /\ stock' = [stock EXCEPT ![p] = "failed"]
        /\ StockAnswer(p, "error")
        /\ UNCHANGED rows
  /\ UNCHANGED <<catalog, counters, publish, topic>>

(* The counters are set, unless Redis is off, and the row is answered. *)
StockCounters(p) ==
  /\ stock[p] = "counters"
  /\ \/ counters' = counters \cup {p}
     \/ Faults /\ UNCHANGED counters
  /\ stock' = [stock EXCEPT ![p] = "done"]
  /\ StockAnswer(p, "ok")
  /\ UNCHANGED <<catalog, rows, publish, topic>>

StockFail(p) ==
  /\ Faults
  /\ stock[p] \in {"insert", "counters"}
  /\ stock' = [stock EXCEPT ![p] = "failed"]
  /\ StockAnswer(p, "error")
  /\ UNCHANGED <<catalog, rows, counters, publish, topic>>

DropPublish(p) ==
  /\ Faults /\ pubCall[p] = "sent"
  /\ pubCall' = [pubCall EXCEPT ![p] = "lost"]
  /\ UNCHANGED <<catalog, rows, counters, publish, stock, topic>>

PublishStep(p) == PublishAnswered(p) \/ PublishMark(p) \/ PublishEmit(p)
StockStep(p) == StockLookup(p) \/ StockInsert(p) \/ StockCounters(p)

PublishNext ==
  \/ \E e \in CatalogEvents, able, located \in BOOLEAN : CreateDraft(e, able, located)
  \/ \E p \in Publishes :
       \/ \E e \in CatalogEvents : PublishRead(p, e)
       \/ PublishStep(p) \/ PublishFail(p)
       \/ StockStep(p) \/ StockFail(p) \/ DropPublish(p)

-----------------------------------------------------------------------------
(* An event the catalogue shows as published is on sale: the status in the *)
(* one database never runs ahead of the inventory in the other, whatever   *)
(* is lost, refused or retried in between.                                 *)
PublishedIsOnSale ==
  \A e \in CatalogEvents : catalog[e].status = "PUBLISHED" => RowsOf(e) # {}

(* An event is announced once, however many publish calls race for it.     *)
AnnouncedOnce ==
  \A p, q \in Publishes : topic[p] # None /\ topic[p] = topic[q] => p = q
=============================================================================
