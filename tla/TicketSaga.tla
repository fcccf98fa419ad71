----------------------------- MODULE TicketSaga -----------------------------
(***************************************************************************)
(* Buying a ticket, end to end: the booking, payment and notification      *)
(* services together with their clients.  A request reserves seats and     *)
(* creates a payment; a client that was told a payment's id captures it;   *)
(* the capture confirms the booking, which issues the tickets and sends a  *)
(* notice.                                                                 *)
(***************************************************************************)
EXTENDS BookingService, PaymentService, NotificationService

vars == <<bookingVars, paymentVars, noticeVars, callVars>>

SagaTypeOK == BookingTypeOK /\ PaymentTypeOK /\ NoticeTypeOK

Init == BookingInit /\ PaymentInit /\ NoticeInit /\ CallsInit

(* A client learns a payment's id from the answer to its request. *)
KnownWhenCharged ==  \* mutant: the client is answered before the link is stored
  {payCall[r].payment : r \in {s \in Requests : payCall[s].st = "ok"}} \ {None}
KnownPayments == {reserve[r].payment : r \in {s \in Requests : reserve[s].pc = "done"}} \ {None}

BookingMove == BookingSystem /\ UNCHANGED <<paymentVars, noticeVars>>
PaymentMove == PaymentSystem(KnownPayments) /\ UNCHANGED <<bookingVars, noticeVars>>
NoticeMove == NoticeSystem /\ UNCHANGED <<bookingVars, paymentVars>>
NetworkMove == Drop /\ UNCHANGED <<bookingVars, paymentVars, noticeVars>>

Next == BookingMove \/ PaymentMove \/ NoticeMove \/ NetworkMove

(* A started handler is run on by its event loop, and a request that was   *)
(* sent reaches a service that is up; nobody is forced to send a request,  *)
(* to publish an event, or to fail.                                        *)
Fairness ==
  /\ \A r \in Requests :
       /\ WF_vars(ReserveStep(r) /\ UNCHANGED <<paymentVars, noticeVars>>)
       /\ WF_vars(/\ ChargeStep(r) /\ UNCHANGED <<bookingVars, noticeVars>>
                  /\ charge[r].pc = "idle" => payCall[r].st = "sent")
  /\ \A c \in Captures :
       /\ WF_vars(CaptureStep(c) /\ UNCHANGED <<bookingVars, noticeVars>>)
       /\ WF_vars(/\ ConfirmStep(c) /\ UNCHANGED <<paymentVars, noticeVars>>
                  /\ confirm[c].pc = "idle" => confirmCall[c].st = "sent")
       /\ WF_vars(/\ NoticeStep(c) /\ UNCHANGED <<bookingVars, paymentVars>>
                  /\ notify[c] = "idle" => noticeCall[c] = "sent")

Spec == Init /\ [][Next]_vars
FairSpec == Spec /\ Fairness

(* Clients that keep trying to capture what they know of. *)
RetrySpec ==
  /\ FairSpec
  /\ \A c \in Captures :
       WF_vars(\E p \in KnownPayments : CaptureRead(c, p) /\ UNCHANGED <<bookingVars, noticeVars>>)

-----------------------------------------------------------------------------
(* The two services agree on who pays for what: a payment a booking is     *)
(* linked to was made for that booking under that booking's key.           *)
LinkSound ==
  \A b \in Booked :
    bookings[b].payment # None =>
      LET p == payments[bookings[b].payment] IN
      p.status # "none" /\ p.booking = b /\ p.key = bookings[b].key

(* A captured payment is one its booking knows, so that confirmBooking     *)
(* never turns a paid booking away with "Payment does not match booking",  *)
(* even though the link is written after the payment exists.               *)
CapturedIsLinked ==
  \A p \in Paid :
    payments[p].status = "COMPLETED" => bookings[payments[p].booking].payment = p

(* No ticket without money: each batch of tickets of a booking is covered  *)
(* by a capture logged for its payment, in the other service's database.   *)
TicketsBackedByCaptures ==
  \A b \in Booked :
    tickets[b] > 0 =>
      /\ bookings[b].payment \in Paid
      /\ payments[bookings[b].payment].status = "COMPLETED"
      /\ tickets[b] <= bookings[b].qty * paymentLog[bookings[b].payment]

(* A booking has a ticket per seat, or none.  It needs clients that do not *)
(* start a capture before the previous one is over (Overlap = FALSE).      *)
OneTicketPerSeat == \A b \in Booked : tickets[b] \in {0, bookings[b].qty}

(* When no process fails, a request that failed and left a pending booking *)
(* (and its seats) behind had named a payment method that does not exist.  *)
StrandedOnlyByBadMethod ==
  \A r \in Requests :
    ~Faults /\ reserve[r].pc = "failed" /\ bookings[r].status = "PENDING"
    => ~reserve[r].methodOk

(* Each service on its own is what the composed system runs: the open      *)
(* specifications the component theorems are about cover every behaviour.  *)
RunsBookingService == BookingSpec
RunsPaymentService == PaymentSpec

(* The three services together implement the sale of tickets: a payment is *)
(* found by the booking it is for, a notice by the booking that sent it.   *)
(* With captures one after the other the sale captures each payment once.  *)
Sale == INSTANCE TicketSale WITH
  Orders <- Requests,
  Once <- ~Overlap,
  placed <- Booked,
  order <- [b \in Requests |-> [key |-> bookings[b].key, event |-> bookings[b].event,
                                seats |-> bookings[b].qty]],
  charged <- {b \in Requests : PaymentsOfBooking(b) # {}},
  offered <- {b \in Requests : bookings[b].payment # None},
  captured <- [b \in Requests |->
                 IF bookings[b].payment = None THEN 0 ELSE paymentLog[bookings[b].payment]],
  noticed <- {b \in Requests : \E c \in Captures : confirm[c].booking = b /\ notices[c] = "SENT"}

ImplementsSale == Sale!SaleSpec

(* Every request and every capture a client started is answered or fails;  *)
(* no handler waits for another forever, also when processes crash.        *)
RequestsEnd ==
  \A r \in Requests :
    reserve[r].pc \notin {"idle", "done", "failed"} ~> reserve[r].pc \in {"done", "failed"}
CapturesEnd ==
  \A c \in Captures :
    capture[c].pc \in {"commit", "notify"} ~> capture[c].pc \in {"done", "failed"}

(* A captured payment leads to a confirmed booking ("Outbox for notifying  *)
(* booking service after payment capture").                                *)
CaptureReachesBooking ==
  \A p, b \in Requests :
    payments[p].status = "COMPLETED" /\ payments[p].booking = b
      ~> bookings[b].status = "CONFIRMED"

(* A confirmed booking leads to a notice marked SENT, though nobody waits  *)
(* for its outcome.                                                        *)
BuyerIsNotified ==
  \A b \in Requests :
    bookings[b].status = "CONFIRMED"
      ~> \E c \in Captures : confirm[c].booking = b /\ notices[c] = "SENT"
=============================================================================
