----------------------------- MODULE EventLife -----------------------------
(***************************************************************************)
(* What the partner, booking and event search services promise together    *)
(* about an event, without handlers, calls, messages or failures: it is    *)
(* drafted once, put on sale if it is complete, published, announced,      *)
(* found by searches, listed under its category and suggested, in this     *)
(* order, and nothing of it is ever taken back.                            *)
(***************************************************************************)
CONSTANT Events

VARIABLES
  drafted,    \* events in the catalogue
  complete,   \* events that had tickets, a place and times when drafted
  onSale,     \* events with inventory
  published,  \* events the catalogue shows as published
  announced,  \* events the other services were told of
  indexed,    \* events a search can find
  listed,     \* events whose category the city lists
  suggested   \* events whose title is suggested

lifeVars == <<drafted, complete, onSale, published, announced, indexed, listed, suggested>>

LifeInit ==
  /\ drafted = {} /\ complete = {} /\ onSale = {} /\ published = {}
  /\ announced = {} /\ indexed = {} /\ listed = {} /\ suggested = {}

Draft(e) ==
  /\ e \notin drafted
  /\ drafted' = drafted \cup {e}
  /\ complete' \in {complete, complete \cup {e}}
  /\ UNCHANGED <<onSale, published, announced, indexed, listed, suggested>>

Stock(e) ==
  /\ e \in (drafted \cap complete) \ onSale
  /\ onSale' = onSale \cup {e}
  /\ UNCHANGED <<drafted, complete, published, announced, indexed, listed, suggested>>

Publish(e) ==
  /\ e \in onSale
  /\ published' = published \cup {e}
  /\ UNCHANGED <<drafted, complete, onSale, announced, indexed, listed, suggested>>

Announce(e) ==
  /\ e \in published \ announced
  /\ announced' = announced \cup {e}
  /\ UNCHANGED <<drafted, complete, onSale, published, indexed, listed, suggested>>

Index(e) ==
  /\ e \in announced
  /\ indexed' = indexed \cup {e}
  /\ UNCHANGED <<drafted, complete, onSale, published, announced, listed, suggested>>

List(e) ==
  /\ e \in indexed
  /\ listed' = listed \cup {e}
  /\ UNCHANGED <<drafted, complete, onSale, published, announced, indexed, suggested>>

Suggest(e) ==
  /\ e \in listed
  /\ suggested' = suggested \cup {e}
  /\ UNCHANGED <<drafted, complete, onSale, published, announced, indexed, listed>>

LifeNext ==
  \E e \in Events :
    Draft(e) \/ Stock(e) \/ Publish(e) \/ Announce(e) \/ Index(e) \/ List(e) \/ Suggest(e)

LifeSpec == LifeInit /\ [][LifeNext]_lifeVars
=============================================================================
