--------------------------- MODULE BookingService ---------------------------
(***************************************************************************)
(* The booking service: the seat inventory of published events, the        *)
(* handlers createBooking, confirmBooking and cancelPendingBooking, and    *)
(* the bookings, tickets and outbox rows they write.  A handler gives up   *)
(* control at every await, so each handler is a record with a pc and the   *)
(* local variables it carries from one await to the next.                  *)
(*                                                                         *)
(* The payment and notification services are seen through the mailboxes of *)
(* ServiceCalls; Env answers and calls in every way they could, so that    *)
(* what is proved of BookingSpec holds whatever those services do.         *)
(* Prices, references, codes and the ticket-type branch (unreachable from  *)
(* the controller, which passes no ticketTypeInventoryId) are left out.    *)
(* Nothing validates the body of a request.  methodOk and userOk say       *)
(* whether its paymentMethod and its userId are usable; the other fields   *)
(* are there, as a request without them fails before it takes any seats    *)
(* (the README says of which one that is not so).                          *)
(***************************************************************************)
EXTENDS ServiceCalls

CONSTANTS
  Events,       \* event inventory ids
  SeatCounts,   \* totalSeats values an event may be published with
  MaxQty,       \* the most tickets one request asks for
  Cancels       \* invocations of cancelPendingBooking; {} = no caller, as shipped

ASSUME SeatCountsAssumption == SeatCounts \subseteq Nat
ASSUME MaxQtyAssumption == MaxQty \in Nat
ASSUME CancelsAssumption == IsFiniteSet(Cancels)
ASSUME EventsAssumption == None \notin Events

VARIABLES
  inventory,      \* EventInventory rows
  bookings,       \* Booking rows, bookings[r] the one request r inserts
  tickets,        \* number of Ticket rows of each booking
  bookingOutbox,  \* number of BOOKING_CONFIRMED rows of each booking
  reserve,        \* createBooking handlers
  confirm,        \* confirmBooking handlers, one per confirm call
  cancel          \* cancelPendingBooking handlers

storeVars == <<inventory, bookings, tickets, bookingOutbox>>
bookingVars == <<inventory, bookings, tickets, bookingOutbox, reserve, confirm, cancel>>

BookingStatus == {"none", "PENDING", "CONFIRMED", "CANCELLED"}
InventoryType ==
  [published : BOOLEAN, totalSeats : Nat, availableSeats : Nat, version : Nat]
BookingType ==
  [status : BookingStatus, event : Events \cup {None}, qty : 0..MaxQty,
   key : Keys \cup {None}, payment : IdOrNone]
ReserveType ==
  [pc : {"idle", "lookup", "read", "decrement", "create", "pay", "link", "done", "failed"},
   key : Keys \cup {None}, event : Events \cup {None}, qty : 0..MaxQty,
   methodOk : BOOLEAN, userOk : BOOLEAN, version : Nat, took : BOOLEAN,
   booking : IdOrNone, payment : IdOrNone]
ConfirmType ==
  [pc : {"idle", "commit", "notify", "done", "failed"}, booking : IdOrNone]
CancelType ==
  [pc : {"idle", "release", "mark", "done", "failed"}, booking : IdOrNone,
   released : BOOLEAN]

BookingTypeOK ==
  /\ inventory \in [Events -> InventoryType]
  /\ bookings \in [Requests -> BookingType]
  /\ tickets \in [Requests -> Nat]
  /\ bookingOutbox \in [Requests -> Nat]
  /\ reserve \in [Requests -> ReserveType]
  /\ confirm \in [Captures -> ConfirmType]
  /\ cancel \in [Cancels -> CancelType]
  /\ CallsTypeOK

BookingInit ==
  /\ inventory = [e \in Events |-> [published |-> FALSE, totalSeats |-> 0,
                                    availableSeats |-> 0, version |-> 0]]
  /\ bookings = [r \in Requests |-> [status |-> "none", event |-> None, qty |-> 0,
                                     key |-> None, payment |-> None]]
  /\ tickets = [r \in Requests |-> 0]
  /\ bookingOutbox = [r \in Requests |-> 0]
  /\ reserve = [r \in Requests |->
                  [pc |-> "idle", key |-> None, event |-> None, qty |-> 0,
                   methodOk |-> FALSE, userOk |-> FALSE, version |-> 0, took |-> FALSE,
                   booking |-> None, payment |-> None]]
  /\ confirm = [c \in Captures |-> [pc |-> "idle", booking |-> None]]
  /\ cancel = [x \in Cancels |-> [pc |-> "idle", booking |-> None, released |-> FALSE]]

Booked == {b \in Requests : bookings[b].status # "none"}
BookedWithKey(k) == {b \in Booked : bookings[b].key = k}

(* The unique index on idempotencyKey lets an insert through. *)
KeyFreeUnindexed(k) == TRUE           \* mutant: no unique index
KeyFree(k) == BookedWithKey(k) = {}

-----------------------------------------------------------------------------
(* publishFromCatalog inserts the inventory row of an event once: both the *)
(* lookup and the unique catalogEventId turn a second publish away.        *)
PublishInventory(e, n) ==
  /\ ~inventory[e].published
  /\ inventory' = [inventory EXCEPT ![e] = [published |-> TRUE, totalSeats |-> n,
                                            availableSeats |-> n, version |-> 0]]
  /\ UNCHANGED <<bookings, tickets, bookingOutbox, reserve, confirm, cancel, callVars>>

-----------------------------------------------------------------------------
(* createBooking *)

(* The handler starts; fewer than one ticket is a bad request. *)
Submit(r, k, e, q, m, u) ==
  /\ reserve[r].pc = "idle"
  /\ reserve' = [reserve EXCEPT ![r].pc = IF q < 1 THEN "failed" ELSE "lookup",
                                ![r].key = k, ![r].event = e,
                                ![r].qty = q, ![r].methodOk = m, ![r].userOk = u]
  /\ UNCHANGED <<storeVars, confirm, cancel, callVars>>

(* The bookings a request with this idempotency key is a retry of. *)
RetriedWhilePending(k) ==  \* mutant: a booking that was confirmed is not found
  {b \in BookedWithKey(k) : bookings[b].status = "PENDING"}
Retried(k) == BookedWithKey(k)

(* A booking with this idempotency key is returned as it stands, with the  *)
(* payment it is linked to, if any.                                        *)
LookupKey(r) ==
  /\ reserve[r].pc = "lookup"
  /\ \/ \E b \in Retried(reserve[r].key) :
          reserve' = [reserve EXCEPT ![r].pc = "done", ![r].booking = b,
                                     ![r].payment = bookings[b].payment]
     \/ /\ Retried(reserve[r].key) = {}
        /\ reserve' = [reserve EXCEPT ![r].pc = "read"]
  /\ UNCHANGED <<storeVars, confirm, cancel, callVars>>

(* The inventory row is read for its price and its version. *)
ReadInventory(r) ==
  LET inv == inventory[reserve[r].event] IN
  /\ reserve[r].pc = "read"
  /\ reserve' = [reserve EXCEPT ![r].pc = IF inv.published THEN "decrement" ELSE "failed",
                                ![r].version = inv.version]
  /\ UNCHANGED <<storeVars, confirm, cancel, callVars>>

(* The WHERE and the SET of the one conditional UPDATE that takes seats:   *)
(* enough are left, and the row has the version read before.               *)
EnoughLeftUnchecked(e, q) == TRUE  \* mutant: availableSeats is not in the WHERE
EnoughLeft(e, q) == inventory[e].availableSeats >= q
SameVersionUnchecked(r) == TRUE    \* mutant: version is not in the WHERE
SameVersionLater(r) ==             \* mutant: compared with the version after the update
  inventory[reserve[r].event].version = reserve[r].version + 1
SameVersion(r) == inventory[reserve[r].event].version = reserve[r].version
TakeOneSeat(e, q) ==               \* mutant: { decrement: 1 }
  inventory' = [inventory EXCEPT ![e].availableSeats = @ - 1, ![e].version = @ + 1]
TakeSeats(e, q) ==
  inventory' = [inventory EXCEPT ![e].availableSeats = @ - q, ![e].version = @ + 1]

DecrementSeats(r) ==
  LET e == reserve[r].event
      q == reserve[r].qty
      open == EnoughLeft(e, q) /\ SameVersion(r)
  IN
  /\ reserve[r].pc = "decrement"
  /\ \/ /\ open
        /\ TakeSeats(e, q)
        /\ reserve' = [reserve EXCEPT ![r].pc = "create", ![r].took = TRUE]
     \/ /\ ~open
        /\ reserve' = [reserve EXCEPT ![r].pc = "failed"]
        /\ UNCHANGED inventory
  /\ UNCHANGED <<bookings, tickets, bookingOutbox, confirm, cancel, callVars>>

(* The insert of the booking row is rejected when the unique               *)
(* idempotencyKey is taken by now, or when the userId is no string.        *)
Insertable(r) == KeyFree(reserve[r].key) /\ reserve[r].userOk

(* The booking row is inserted and the payment service is called; if the   *)
(* insert is rejected, the seats stay taken.                               *)
CreateBooking(r) ==
  LET k == reserve[r].key IN
  /\ reserve[r].pc = "create"
  /\ \/ /\ Insertable(r)
        /\ bookings' = [bookings EXCEPT ![r] =
             [status |-> "PENDING", event |-> reserve[r].event, qty |-> reserve[r].qty,
              key |-> k, payment |-> None]]
        /\ payCall' = [payCall EXCEPT ![r] =
             [st |-> "sent", booking |-> r, key |-> k,
              methodOk |-> reserve[r].methodOk, payment |-> None]]
        /\ reserve' = [reserve EXCEPT ![r].pc = "pay"]
     \/ /\ ~Insertable(r)
        /\ reserve' = [reserve EXCEPT ![r].pc = "failed"]
        /\ UNCHANGED <<bookings, payCall>>
  /\ UNCHANGED <<inventory, tickets, bookingOutbox, confirm, cancel, confirmCall, noticeCall>>

(* PaymentClientService: anything but a success is a 503 to the client. *)
PaymentAnswered(r) ==
  /\ reserve[r].pc = "pay"
  /\ \/ /\ payCall[r].st = "ok"
        /\ reserve' = [reserve EXCEPT ![r].pc = "link", ![r].payment = payCall[r].payment]
     \/ /\ CallFailed(payCall[r].st)
        /\ reserve' = [reserve EXCEPT ![r].pc = "failed"]
  /\ UNCHANGED <<storeVars, confirm, cancel, callVars>>

(* The booking is linked to its payment (paymentId is unique) and both are *)
(* returned to the client.                                                 *)
LinkPayment(r) ==
  LET p == reserve[r].payment
      linked == \E b \in Booked \ {r} : bookings[b].payment = p
  IN
  /\ reserve[r].pc = "link"
  /\ \/ /\ ~linked
        /\ bookings' = [bookings EXCEPT ![r].payment = p]
        /\ reserve' = [reserve EXCEPT ![r].pc = "done", ![r].booking = r]
     \/ /\ linked
        /\ reserve' = [reserve EXCEPT ![r].pc = "failed"]
        /\ UNCHANGED bookings
  /\ UNCHANGED <<inventory, tickets, bookingOutbox, confirm, cancel, callVars>>

(* The process dies, or the database call of the next step throws. *)
ReserveFail(r) ==
  /\ Faults
  /\ reserve[r].pc \in {"lookup", "read", "decrement", "create", "pay", "link"}
  /\ reserve' = [reserve EXCEPT ![r].pc = "failed"]
  /\ UNCHANGED <<storeVars, confirm, cancel, callVars>>

-----------------------------------------------------------------------------
(* confirmBooking *)

ConfirmAnswer(c, a) == confirmCall' = [confirmCall EXCEPT ![c].st = Answer(@, a)]

(* The booking is read and the three early exits are taken: it does not    *)
(* exist, it is confirmed already, it has another payment.                 *)
ConfirmRead(c) ==
  LET b == confirmCall[c].booking
      row == bookings[b]
      mayConfirm == row.status \in {"PENDING", "CANCELLED"} /\ row.payment = confirmCall[c].payment
  IN
  /\ confirm[c].pc = "idle" /\ Deliverable(confirmCall[c].st)
  /\ \/ /\ mayConfirm
        /\ confirm' = [confirm EXCEPT ![c] = [pc |-> "commit", booking |-> b]]
        /\ UNCHANGED confirmCall
     \/ /\ row.status = "CONFIRMED"
        /\ confirm' = [confirm EXCEPT ![c] = [pc |-> "done", booking |-> b]]
        /\ ConfirmAnswer(c, "ok")
     \/ /\ ~mayConfirm /\ row.status # "CONFIRMED"
        /\ confirm' = [confirm EXCEPT ![c] = [pc |-> "failed", booking |-> b]]
        /\ ConfirmAnswer(c, "error")
  /\ UNCHANGED <<storeVars, reserve, cancel, payCall, noticeCall>>

(* The loop for (i = 0; i < booking.numberOfTickets; i++). *)
TicketsForOffByOne(b) == bookings[b].qty + 1  \* mutant: i <= numberOfTickets
TicketsFor(b) == bookings[b].qty

(* One transaction confirms the booking, inserts a ticket per seat and an  *)
(* outbox row; nothing in it looks at the status again.  Then the          *)
(* notification service is called.                                         *)
IssueTickets(c) ==
  LET b == confirm[c].booking IN
  /\ confirm[c].pc = "commit"
  /\ bookings' = [bookings EXCEPT ![b].status = "CONFIRMED"]
  /\ tickets' = [tickets EXCEPT ![b] = @ + TicketsFor(b)]
  /\ bookingOutbox' = [bookingOutbox EXCEPT ![b] = @ + 1]
  /\ noticeCall' = [noticeCall EXCEPT ![c] = "sent"]
  /\ confirm' = [confirm EXCEPT ![c].pc = "notify"]
  /\ UNCHANGED <<inventory, reserve, cancel, payCall, confirmCall>>

(* Whatever became of the notification, the confirm answers. *)
ConfirmDone(c) ==
  /\ confirm[c].pc = "notify" /\ noticeCall[c] # "sent"
  /\ confirm' = [confirm EXCEPT ![c].pc = "done"]
  /\ ConfirmAnswer(c, "ok")
  /\ UNCHANGED <<storeVars, reserve, cancel, payCall, noticeCall>>

ConfirmFail(c) ==
  /\ Faults
  /\ confirm[c].pc \in {"commit", "notify"}
  /\ confirm' = [confirm EXCEPT ![c].pc = "failed"]
  /\ ConfirmAnswer(c, "error")
  /\ UNCHANGED <<storeVars, reserve, cancel, payCall, noticeCall>>

-----------------------------------------------------------------------------
(* cancelPendingBooking: the status check, the release of the seats and    *)
(* the mark are three separate database calls.                             *)
CancelRead(x, b) ==
  /\ cancel[x].pc = "idle"
  /\ cancel' = [cancel EXCEPT
       ![x].pc = IF bookings[b].status = "PENDING" THEN "release" ELSE "done",
       ![x].booking = b]
  /\ UNCHANGED <<storeVars, reserve, confirm, callVars>>

CancelRelease(x) ==
  LET row == bookings[cancel[x].booking] IN
  /\ cancel[x].pc = "release"
  /\ inventory' = [inventory EXCEPT ![row.event].availableSeats = @ + row.qty]
  /\ cancel' = [cancel EXCEPT ![x].pc = "mark", ![x].released = TRUE]
  /\ UNCHANGED <<bookings, tickets, bookingOutbox, reserve, confirm, callVars>>

CancelMark(x) ==
  /\ cancel[x].pc = "mark"
  /\ bookings' = [bookings EXCEPT ![cancel[x].booking].status = "CANCELLED"]
  /\ cancel' = [cancel EXCEPT ![x].pc = "done"]
  /\ UNCHANGED <<inventory, tickets, bookingOutbox, reserve, confirm, callVars>>

CancelFail(x) ==
  /\ Faults
  /\ cancel[x].pc \in {"release", "mark"}
  /\ cancel' = [cancel EXCEPT ![x].pc = "failed"]
  /\ UNCHANGED <<storeVars, reserve, confirm, callVars>>

-----------------------------------------------------------------------------
(* What the other services may do to the mailboxes. *)
EnvPay(r, a, p) ==
  /\ payCall[r].st = "sent"
  /\ payCall' = [payCall EXCEPT ![r].st = a, ![r].payment = p]
  /\ UNCHANGED <<bookingVars, confirmCall, noticeCall>>

EnvConfirm(c, b, p) ==
  /\ confirmCall[c].st = "idle"
  /\ confirmCall' = [confirmCall EXCEPT ![c] = [st |-> "sent", booking |-> b, payment |-> p]]
  /\ UNCHANGED <<bookingVars, payCall, noticeCall>>

EnvNotice(c, a) ==
  /\ noticeCall[c] = "sent"
  /\ noticeCall' = [noticeCall EXCEPT ![c] = a]
  /\ UNCHANGED <<bookingVars, payCall, confirmCall>>

BookingEnv ==
  \/ \E r \in Requests, p \in IdOrNone, a \in {"ok", "error"} :
       (a = "ok" <=> p # None) /\ EnvPay(r, a, p)
  \/ \E c \in Captures, b, p \in Requests : EnvConfirm(c, b, p)
  \/ \E c \in Captures, a \in {"ok", "error"} : EnvNotice(c, a)
  \/ Drop /\ UNCHANGED bookingVars

ReserveStep(r) ==
  \/ LookupKey(r) \/ ReadInventory(r) \/ DecrementSeats(r) \/ CreateBooking(r)
  \/ PaymentAnswered(r) \/ LinkPayment(r)
ConfirmStep(c) == ConfirmRead(c) \/ IssueTickets(c) \/ ConfirmDone(c)
CancelStep(x) == CancelRelease(x) \/ CancelMark(x)

BookingSystem ==
  \/ \E e \in Events, n \in SeatCounts : PublishInventory(e, n)
  \/ \E r \in Requests :
       \/ \E k \in Keys, e \in Events, q \in 0..MaxQty, m, u \in BOOLEAN :
            Submit(r, k, e, q, m, u)
       \/ ReserveStep(r) \/ ReserveFail(r)
  \/ \E c \in Captures : ConfirmStep(c) \/ ConfirmFail(c)
  \/ \E x \in Cancels : (\E b \in Requests : CancelRead(x, b)) \/ CancelStep(x) \/ CancelFail(x)

BookingNext == BookingSystem \/ BookingEnv

allBookingVars == <<bookingVars, callVars>>
BookingStart == BookingInit /\ CallsInit
BookingSpec == BookingStart /\ [][BookingNext]_allBookingVars
-----------------------------------------------------------------------------
(* Seat counts are stated as cardinalities: seat j of request r is <<r, j>>. *)
TakenSeats(e) ==
  {u \in Requests \X (1..MaxQty) :
     reserve[u[1]].took /\ reserve[u[1]].event = e /\ u[2] <= reserve[u[1]].qty}
BookedSeats(e) ==
  {u \in Requests \X (1..MaxQty) :
     /\ bookings[u[1]].status \in {"PENDING", "CONFIRMED"}
     /\ bookings[u[1]].event = e /\ u[2] <= bookings[u[1]].qty}
ReleasedSeats(e) ==
  {u \in Cancels \X (1..MaxQty) :
     /\ cancel[u[1]].released
     /\ bookings[cancel[u[1]].booking].event = e
     /\ u[2] <= bookings[cancel[u[1]].booking].qty}

(* No seat appears or vanishes: whatever the requests racing on a row, the *)
(* retries and the crashes, the counter of an event is its seats minus the *)
(* seats requests took plus the seats cancellations gave back.             *)
SeatConservation ==
  \A e \in Events :
    inventory[e].availableSeats + Cardinality(TakenSeats(e))
      = inventory[e].totalSeats + Cardinality(ReleasedSeats(e))

(* Pending and confirmed bookings of an event never ask for more seats     *)
(* than it has.  It needs that nothing cancels (Cancels = {}): cancelling  *)
(* releases before it marks, and can release twice.                        *)
NoOversell == \A e \in Events : Cardinality(BookedSeats(e)) <= inventory[e].totalSeats

(* Optimistic locking: of all requests that read one version of an event   *)
(* row, at most one takes seats from it.                                   *)
OneWinnerPerVersion ==
  \A r, s \in Requests :
    /\ r # s /\ reserve[r].took /\ reserve[s].took
    /\ reserve[r].event = reserve[s].event
    => reserve[r].version # reserve[s].version

(* Idempotency: two requests with one key that are answered with a booking *)
(* are answered with the same booking, however they overlap.               *)
KeyNamesOneBooking ==
  \A r, s \in Requests :
    /\ reserve[r].booking # None /\ reserve[s].booking # None
    /\ reserve[r].key = reserve[s].key
    => reserve[r].booking = reserve[s].booking

(* A retry takes no seats: once a key has a booking, whatever has become   *)
(* of it since, a request under that key that has still to look it up      *)
(* never takes any.  Two requests of one key both take seats only if they  *)
(* overlap; then the loser of the insert leaves its seats taken.           *)
RetriesTakeNoSeats ==
  \A r \in Requests :
    [](reserve[r].pc = "lookup" /\ BookedWithKey(reserve[r].key) # {} => []~reserve[r].took)

(* The booking service implements the abstract seat ledger: a handler that *)
(* took seats is a grant, a confirmed booking an issue.                    *)
Ledger == INSTANCE SeatLedger WITH
  opened <- {e \in Events : inventory[e].published},
  seats <- [e \in Events |-> inventory[e].totalSeats],
  grants <- {<<u[1], reserve[u[1]].event, u[2]>> :
               u \in {v \in Requests \X (1..MaxQty) :
                        reserve[v[1]].took /\ v[2] <= reserve[v[1]].qty}},
  issued <- {b \in Requests : bookings[b].status = "CONFIRMED"}

ImplementsLedger == Ledger!LedgerSpec

(* Somebody wins: a request told "Not enough seats available" while there  *)
(* are enough lost the version it had read to a request that took seats.   *)
RefusalIsLost ==
  \A r \in Requests :
    DecrementSeats(r) /\ reserve'[r].pc = "failed" =>
      \/ inventory[reserve[r].event].availableSeats < reserve[r].qty
      \/ \E s \in Requests : /\ reserve[s].took /\ reserve[s].event = reserve[r].event
                             /\ reserve[s].version = reserve[r].version
RefusalHasWinner == [][RefusalIsLost]_allBookingVars
=============================================================================
