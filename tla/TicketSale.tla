----------------------------- MODULE TicketSale -----------------------------
(***************************************************************************)
(* What the booking, payment and notification services promise together    *)
(* about a purchase, without handlers, calls, retries or crashes.  An      *)
(* order is placed under a key of its own and never changes; it is charged *)
(* once; its payment is offered to the client once it exists; only what    *)
(* was offered is captured; tickets are issued a batch at a time, never    *)
(* more batches than captures; the buyer hears only of tickets issued.     *)
(***************************************************************************)
EXTENDS Naturals

CONSTANTS
  Orders, Keys, Events, MaxQty, None,
  Once   \* TRUE when a payment is captured at most once

VARIABLES
  placed,    \* orders placed
  order,     \* key, event and seats of each, None and 0 until it is placed
  charged,   \* orders a payment was made for
  offered,   \* orders whose payment the client may be told of
  captured,  \* captures of the payment of each order
  tickets,   \* tickets of each order
  noticed    \* orders whose buyer was told of tickets

saleVars == <<placed, order, charged, offered, captured, tickets, noticed>>

SaleInit ==
  /\ placed = {} /\ charged = {} /\ offered = {} /\ noticed = {}
  /\ order = [o \in Orders |-> [key |-> None, event |-> None, seats |-> 0]]
  /\ captured = [o \in Orders |-> 0] /\ tickets = [o \in Orders |-> 0]

Place(o, k, e, n) ==
  /\ o \notin placed /\ \A p \in placed : order[p].key # k
  /\ placed' = placed \cup {o}
  /\ order' = [order EXCEPT ![o] = [key |-> k, event |-> e, seats |-> n]]
  /\ UNCHANGED <<charged, offered, captured, tickets, noticed>>

Charge(o) ==
  /\ o \in placed \ charged
  /\ charged' = charged \cup {o}
  /\ UNCHANGED <<placed, order, offered, captured, tickets, noticed>>

Offer(o) ==
  /\ o \in charged
  /\ offered' = offered \cup {o}
  /\ UNCHANGED <<placed, order, charged, captured, tickets, noticed>>

Capture(o) ==
  /\ o \in offered /\ (Once => captured[o] = 0)
  /\ captured' = [captured EXCEPT ![o] = @ + 1]
  /\ UNCHANGED <<placed, order, charged, offered, tickets, noticed>>

Issue(o) ==
  /\ o \in offered /\ tickets[o] + order[o].seats <= order[o].seats * captured[o]
  /\ tickets' = [tickets EXCEPT ![o] = @ + order[o].seats]
  /\ UNCHANGED <<placed, order, charged, offered, captured, noticed>>

Notify(o) ==
  /\ tickets[o] > 0
  /\ noticed' = noticed \cup {o}
  /\ UNCHANGED <<placed, order, charged, offered, captured, tickets>>

SaleNext ==
  \E o \in Orders :
    \/ \E k \in Keys, e \in Events, n \in 1..MaxQty : Place(o, k, e, n)
    \/ Charge(o) \/ Offer(o) \/ Capture(o) \/ Issue(o) \/ Notify(o)

SaleSpec == SaleInit /\ [][SaleNext]_saleVars
=============================================================================
