----------------------------- MODULE EventTopic -----------------------------
(***************************************************************************)
(* The Kafka topic event.published between the partner service and the     *)
(* event search service.  A publish call emits at most one message, so a   *)
(* message is named by its call.                                           *)
(***************************************************************************)
EXTENDS FiniteSets

CONSTANTS
  CatalogEvents,  \* events of the partner catalogue
  Publishes,      \* POST /events/:id/publish calls
  None,           \* no event, no message
  Faults          \* TRUE when processes may crash and calls and messages may be lost

ASSUME CatalogAssumption == None \notin CatalogEvents /\ Faults \in BOOLEAN

VARIABLE topic  \* topic[p]: the event in the message of call p, None if there is none

TopicTypeOK == topic \in [Publishes -> CatalogEvents \cup {None}]
TopicInit == topic = [p \in Publishes |-> None]

(* The broker has a message for the consumer. *)
Arrived(p) == topic[p] # None
=============================================================================
