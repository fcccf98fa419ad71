-------------------------- MODULE TicketSagaProofs --------------------------
(***************************************************************************)
(* Proofs about buying a ticket end to end: the composed system runs the   *)
(* open specification of each service, so that what is proved of them      *)
(* holds in it, and the services agree with each other, for any number of  *)
(* requests, captures, events and keys and under all failures.             *)
(***************************************************************************)
EXTENDS TicketSaga, BookingServiceProofs, PaymentServiceProofs

-----------------------------------------------------------------------------
(* The inductive invariant: those of the two services, and what their      *)
(* states say of each other.  Row r of the payment service, if any, is     *)
(* made for row r of the booking service.                                  *)
RequestInv(r) ==
  LET h == reserve[r]  call == payCall[r] IN
  /\ h.pc \in {"idle", "lookup", "read", "decrement", "create"} => call.st = "idle"
  /\ call.st # "idle" => /\ call.booking = r /\ r \in Booked
                         /\ call.key = bookings[r].key /\ call.methodOk = h.methodOk
  /\ call.st = "ok" => call.payment = r
  /\ h.pc = "link" => h.payment = r /\ call.st = "ok"
  /\ h.pc = "done" => h.payment \in {p \in Requests : bookings[p].payment = p} \cup {None}

RowLinkInv(b) ==
  /\ bookings[b].payment \in {None, b}
  /\ bookings[b].payment = b => b \in Booked /\ b \in Paid
  /\ payments[b].status = "COMPLETED" => bookings[b].payment = b

CallInv(c) ==
  /\ capture[c].pc \in {"idle", "commit"} => confirmCall[c].st = "idle"
  /\ capture[c].pc \in {"commit", "notify"} => bookings[capture[c].payment].payment = capture[c].payment
  /\ confirmCall[c].st # "idle" =>
       /\ confirmCall[c].booking = confirmCall[c].payment
       /\ payments[confirmCall[c].payment].status = "COMPLETED"
  /\ confirm[c].pc # "idle" => /\ confirmCall[c].st # "idle"
                               /\ confirm[c].booking = confirmCall[c].booking
  /\ confirm[c].pc \in {"idle", "commit"} => noticeCall[c] = "idle"

(* The captures logged for a payment and the batches of tickets issued for *)
(* a booking, counted by the calls that follow them.                       *)
Logged(p) == {c \in Captures : confirmCall[c].st # "idle" /\ confirmCall[c].payment = p}
Issued(b) == {c \in Captures : noticeCall[c] # "idle" /\ confirm[c].booking = b}

CountInv(b) ==
  /\ paymentLog[b] = Cardinality(Logged(b))
  /\ tickets[b] = TicketsFor(b) * Cardinality(Issued(b))

Linked ==
  /\ \A r \in Requests : RequestInv(r) /\ RowLinkInv(r) /\ CountInv(r)
  /\ \A c \in Captures : CallInv(c)

SInv == IInv /\ PInv /\ NoticeTypeOK /\ Linked

LEMMA InitSInv == Init => SInv
<1> SUFFICES ASSUME Init PROVE SInv
  OBVIOUS
<1>1. IInv /\ PInv
  BY InitInv, InitPInv DEF Init, PaymentStart
<1>2. NoticeTypeOK
  BY DEF Init, NoticeInit, NoticeTypeOK
<1>3. ASSUME NEW r \in Requests PROVE RequestInv(r) /\ RowLinkInv(r)
  BY IdsAssumption DEF Init, BookingInit, PaymentInit, CallsInit, RequestInv, RowLinkInv
<1>4. ASSUME NEW c \in Captures PROVE CallInv(c)
  BY DEF Init, BookingInit, PaymentInit, CallsInit, CallInv
<1>5. ASSUME NEW r \in Requests PROVE CountInv(r)
  <2>1. Logged(r) = {} /\ Issued(r) = {} /\ paymentLog[r] = 0 /\ tickets[r] = 0 /\ TicketsFor(r) = 0
    BY DEF Init, BookingInit, PaymentInit, CallsInit, Logged, Issued, TicketsFor
  <2>2. Cardinality({}) = 0
    BY FS_EmptySet
  <2> QED BY <2>1, <2>2 DEF CountInv
<1> QED BY <1>1, <1>2, <1>3, <1>4, <1>5 DEF SInv, Linked

-----------------------------------------------------------------------------
(* What the steps of one service are to the other.                         *)

(* A payment row is one of the row with the same id in the other service.  *)
LEMMA PaymentOfItsBooking ==
  ASSUME SInv, NEW p \in Paid
  PROVE  /\ p \in Requests /\ payments[p].booking = p /\ p \in Booked
         /\ payments[p].key = bookings[p].key
BY DEF SInv, Linked, PInv, RowInv, RequestInv, Paid

(* Payments made under one key are one payment.                            *)
LEMMA PaymentUnderKey ==
  ASSUME SInv, NEW r \in Requests, payCall[r].st # "idle", NEW p \in PaymentsWithKey(payCall[r].key)
  PROVE  p = r
<1>1. p \in Paid /\ payments[p].key = bookings[r].key /\ r \in Booked
  BY DEF SInv, Linked, RequestInv, PaymentsWithKey
<1>2. p \in Booked /\ p \in Requests /\ bookings[p].key = bookings[r].key
  BY <1>1, PaymentOfItsBooking
<1> QED BY <1>1, <1>2 DEF SInv, Linked, IInv, BookingInv, Booked

(* The answer to a createPayment call, or none, as the booking service     *)
(* expects it of its environment.                                          *)
LEMMA AnswerIsEnv ==
  ASSUME SInv, NEW r \in Requests, NEW a \in {"ok", "error"}, NEW p \in IdOrNone,
         a = "ok" <=> p # None, ChargeAnswer(r, a, p),
         UNCHANGED <<bookingVars, confirmCall, noticeCall>>
  PROVE  [BookingNext]_allBookingVars
<1>1. payCall \in [Requests -> PayCallType]
  BY DEF SInv, Linked, IInv, BookingTypeOK, CallsTypeOK
<1>2. CASE payCall[r].st = "sent"
  <2>1. EnvPay(r, a, p)
    BY <1>1, <1>2 DEF ChargeAnswer, Answer, EnvPay
  <2> QED BY <2>1 DEF BookingNext, BookingEnv
<1>3. CASE payCall[r].st # "sent"
  <2>1. payCall' = payCall
    BY <1>1, <1>3 DEF ChargeAnswer, Answer, PayCallType
  <2> QED BY <2>1 DEF allBookingVars, callVars
<1> QED BY <1>2, <1>3
LEMMA PaymentStepsAreEnv ==
  ASSUME SInv, PaymentMove
  PROVE  [BookingNext]_allBookingVars
<1>1. /\ UNCHANGED <<inventory, bookings, tickets, bookingOutbox, reserve, confirm, cancel>>
      /\ UNCHANGED bookingVars
  BY DEF PaymentMove, bookingVars
<1>2. ASSUME NEW r \in Requests, ChargeStep(r) \/ ChargeFail(r)
      PROVE  [BookingNext]_allBookingVars
  <2>1. UNCHANGED <<confirmCall, noticeCall>>
    BY <1>2 DEF ChargeStep, ChargeLookup, ChargeCheck, ChargeInsert, ChargeOutbox, ChargeFail
  <2>2. \/ UNCHANGED payCall
        \/ ChargeAnswer(r, "error", None)
        \/ \E p \in Requests : ChargeAnswer(r, "ok", p)
    BY <1>2 DEF ChargeStep, ChargeLookup, ChargeCheck, ChargeInsert, ChargeOutbox, ChargeFail,
                PaymentsWithKey, Paid
  <2>3. CASE UNCHANGED payCall
    BY <1>1, <2>1, <2>3 DEF allBookingVars, callVars
  <2>4. CASE ChargeAnswer(r, "error", None)
    BY <1>1, <2>1, <2>4, AnswerIsEnv DEF IdOrNone
  <2>5. ASSUME NEW p \in Requests, ChargeAnswer(r, "ok", p) PROVE [BookingNext]_allBookingVars
    BY <1>1, <2>1, <2>5, AnswerIsEnv, IdsAssumption DEF IdOrNone
  <2> QED BY <2>2, <2>3, <2>4, <2>5
<1>3. ASSUME NEW c \in Captures, CaptureCommit(c) PROVE [BookingNext]_allBookingVars
  <2> DEFINE p == capture[c].payment
  <2>1. p \in Paid /\ confirmCall[c].st = "idle"
    BY <1>3 DEF CaptureCommit, SInv, Linked, PInv, CaptureInv, CallInv
  <2>2. p \in Requests /\ payments[p].booking = p
    BY <2>1, PaymentOfItsBooking
  <2>3. EnvConfirm(c, p, p)
    BY <1>1, <1>3, <2>1, <2>2 DEF CaptureCommit, EnvConfirm
  <2> QED BY <2>2, <2>3 DEF BookingNext, BookingEnv
<1>4. ASSUME NEW c \in Captures, NEW p, CaptureRead(c, p) PROVE [BookingNext]_allBookingVars
  BY <1>1, <1>4 DEF CaptureRead, allBookingVars
<1>5. ASSUME NEW c \in Captures, CaptureDone(c) \/ CaptureFail(c) PROVE [BookingNext]_allBookingVars
  BY <1>1, <1>5 DEF CaptureDone, CaptureFail, allBookingVars
<1> QED BY <1>2, <1>3, <1>4, <1>5 DEF PaymentMove, PaymentSystem, CaptureStep

LEMMA BookingStepsAreEnv ==
  ASSUME SInv, BookingMove
  PROVE  [PaymentNext]_allPaymentVars
<1>1. UNCHANGED paymentVars
  BY DEF BookingMove
<1>2. ASSUME UNCHANGED callVars PROVE [PaymentNext]_allPaymentVars
  BY <1>1, <1>2 DEF allPaymentVars
<1>3. ASSUME NEW e \in Events, NEW n \in SeatCounts, PublishInventory(e, n)
      PROVE  [PaymentNext]_allPaymentVars
  BY <1>2, <1>3 DEF PublishInventory, callVars
<1>4. ASSUME NEW r \in Requests, NEW k \in Keys, NEW e \in Events, NEW q \in 0..MaxQty,
             NEW m \in BOOLEAN, NEW u \in BOOLEAN, Submit(r, k, e, q, m, u)
      PROVE  [PaymentNext]_allPaymentVars
  BY <1>2, <1>4 DEF Submit
<1>5. ASSUME NEW r \in Requests, ReserveStep(r) \/ ReserveFail(r) PROVE [PaymentNext]_allPaymentVars
  <2>1. CASE CreateBooking(r) /\ Insertable(r)
    <3> DEFINE k == reserve[r].key
    <3>1. payCall[r].st = "idle" /\ k \in Keys /\ reserve[r].methodOk \in BOOLEAN
      BY <2>1 DEF CreateBooking, SInv, Linked, IInv, RequestInv, ReserveInv, BookingTypeOK, ReserveType
    <3>2. EnvCharge(r, r, k, reserve[r].methodOk)
      BY <1>1, <2>1, <3>1 DEF CreateBooking, EnvCharge
    <3> QED BY <3>1, <3>2 DEF PaymentNext, PaymentEnv
  <2>2. CASE CreateBooking(r) /\ ~Insertable(r)
    BY <1>2, <2>2 DEF CreateBooking, callVars
  <2>3. CASE LookupKey(r) \/ ReadInventory(r) \/ DecrementSeats(r) \/ PaymentAnswered(r)
             \/ LinkPayment(r) \/ ReserveFail(r)
    BY <1>2, <2>3 DEF LookupKey, ReadInventory, DecrementSeats, PaymentAnswered, LinkPayment, ReserveFail
  <2> QED BY <1>5, <2>1, <2>2, <2>3 DEF ReserveStep
<1>6. ASSUME NEW c \in Captures, NEW a \in {"ok", "error"}, Deliverable(confirmCall[c].st),
             ConfirmAnswer(c, a), UNCHANGED <<payCall, noticeCall>>
      PROVE  [PaymentNext]_allPaymentVars
  <2>1. confirmCall \in [Captures -> ConfirmCallType]
    BY DEF SInv, Linked, IInv, BookingTypeOK, CallsTypeOK
  <2>2. CASE confirmCall[c].st = "sent"
    <3>1. EnvConfirmed(c, a)
      BY <1>1, <1>6, <2>1, <2>2 DEF EnvConfirmed, ConfirmAnswer, Answer
    <3> QED BY <3>1 DEF PaymentNext, PaymentEnv
  <2>3. CASE confirmCall[c].st # "sent"
    <3>1. UNCHANGED callVars
      BY <1>6, <2>1, <2>3 DEF ConfirmAnswer, Answer, ConfirmCallType, callVars
    <3> QED BY <1>2, <3>1
  <2> QED BY <2>2, <2>3
<1>7. ASSUME NEW c \in Captures, ConfirmStep(c) \/ ConfirmFail(c) PROVE [PaymentNext]_allPaymentVars
  <2>1. CASE IssueTickets(c)
    <3>1. EnvNotices(c, "sent") /\ "sent" \in CallState
      BY <1>1, <2>1 DEF IssueTickets, EnvNotices, CallState
    <3> QED BY <3>1 DEF PaymentNext, PaymentEnv
  <2>2. CASE ConfirmRead(c) /\ confirmCall' = confirmCall
    BY <1>2, <2>2 DEF ConfirmRead, callVars
  <2>3. ASSUME confirmCall[c].st # "idle", confirmCall[c].st \in CallState,
               \/ ConfirmAnswer(c, "ok")
               \/ ConfirmAnswer(c, "error"),
               UNCHANGED <<payCall, noticeCall>>
        PROVE  [PaymentNext]_allPaymentVars
    <3>1. CASE Deliverable(confirmCall[c].st)
      BY <1>6, <2>3, <3>1
    <3>2. CASE ~Deliverable(confirmCall[c].st)
      <4>1. confirmCall' = confirmCall
        BY <2>3, <3>2 DEF Deliverable, ConfirmAnswer, Answer, SInv, Linked, IInv, BookingTypeOK, CallsTypeOK,
                          ConfirmCallType
      <4> QED BY <1>2, <2>3, <4>1 DEF callVars
    <3> QED BY <3>1, <3>2
  <2>4. confirmCall[c].st \in CallState /\ (confirm[c].pc # "idle" => confirmCall[c].st # "idle")
    BY DEF SInv, Linked, IInv, BookingTypeOK, CallsTypeOK, ConfirmCallType, CallInv
  <2>5. CASE ConfirmRead(c) /\ confirmCall' # confirmCall
    BY <2>3, <2>4, <2>5 DEF ConfirmRead, Deliverable
  <2>6. CASE ConfirmDone(c) \/ ConfirmFail(c)
    BY <2>3, <2>4, <2>6 DEF ConfirmDone, ConfirmFail
  <2> QED BY <1>7, <2>1, <2>2, <2>5, <2>6 DEF ConfirmStep
<1>8. ASSUME NEW x \in Cancels, (\E b \in Requests : CancelRead(x, b)) \/ CancelStep(x) \/ CancelFail(x)
      PROVE  [PaymentNext]_allPaymentVars
  BY <1>2, <1>8 DEF CancelRead, CancelStep, CancelRelease, CancelMark, CancelFail
<1> QED BY <1>3, <1>4, <1>5, <1>7, <1>8 DEF BookingMove, BookingSystem

LEMMA NoticeStepsAreEnv ==
  ASSUME SInv, NoticeMove
  PROVE  [BookingNext]_allBookingVars /\ [PaymentNext]_allPaymentVars
<1>1. UNCHANGED <<bookingVars, paymentVars>>
  BY DEF NoticeMove
<1>2. noticeCall \in [Captures -> CallState]
  BY DEF SInv, Linked, IInv, BookingTypeOK, CallsTypeOK
<1>3. ASSUME UNCHANGED callVars PROVE [BookingNext]_allBookingVars /\ [PaymentNext]_allPaymentVars
  BY <1>1, <1>3 DEF allBookingVars, allPaymentVars
<1>4. ASSUME NEW c \in Captures, NEW a \in {"ok", "error"}, UNCHANGED <<payCall, confirmCall>>,
             noticeCall' = [noticeCall EXCEPT ![c] = Answer(@, a)]
      PROVE  [BookingNext]_allBookingVars /\ [PaymentNext]_allPaymentVars
  <2>1. CASE noticeCall[c] # "sent"
    <3>1. noticeCall' = noticeCall
      BY <1>2, <1>4, <2>1 DEF Answer
    <3> QED BY <1>3, <1>4, <3>1 DEF callVars
  <2>2. CASE noticeCall[c] = "sent"
    <3>1. EnvNotice(c, a) /\ EnvNotices(c, a) /\ a \in CallState
      BY <1>1, <1>2, <1>4, <2>2 DEF Answer, EnvNotice, EnvNotices, CallState
    <3> QED BY <3>1 DEF BookingNext, BookingEnv, PaymentNext, PaymentEnv
  <2> QED BY <2>1, <2>2
<1>5. ASSUME NEW c \in Captures, NoticeStep(c) \/ NoticeFail(c)
      PROVE  [BookingNext]_allBookingVars /\ [PaymentNext]_allPaymentVars
  BY <1>3, <1>4, <1>5 DEF NoticeStep, InsertNotice, MarkSent, NoticeFail
<1> QED BY <1>5 DEF NoticeMove, NoticeSystem

(* Every step of the system is a step of each service, of its environment, *)
(* or none.                                                                *)
LEMMA SagaSteps ==
  ASSUME SInv, [Next]_vars
  PROVE  [BookingNext]_allBookingVars /\ [PaymentNext]_allPaymentVars
<1>1. CASE BookingMove
  BY <1>1, BookingStepsAreEnv DEF BookingMove, BookingNext
<1>2. CASE PaymentMove
  <2>1. KnownPayments \subseteq Requests
    BY DEF KnownPayments, SInv, Linked, IInv, BookingTypeOK, ReserveType, IdOrNone
  <2>2. PaymentSystem(Requests)
    BY <1>2, <2>1 DEF PaymentMove, PaymentSystem
  <2> QED BY <1>2, <2>2, PaymentStepsAreEnv DEF PaymentNext
<1>3. CASE NoticeMove
  BY <1>3, NoticeStepsAreEnv
<1>4. CASE NetworkMove
  BY <1>4 DEF NetworkMove, BookingNext, BookingEnv, PaymentNext, PaymentEnv
<1>5. CASE UNCHANGED vars
  BY <1>5 DEF vars, allBookingVars, allPaymentVars
<1> QED BY <1>1, <1>2, <1>3, <1>4, <1>5 DEF Next
-----------------------------------------------------------------------------
(* What steps leave alone, part by part.                                   *)

(* A booking that exists keeps its key, its seats and its payment.         *)
RowsGrow ==
  \A b \in Requests :
    /\ bookings[b].payment = b => bookings'[b].payment = b
    /\ b \in Booked => /\ b \in Booked' /\ bookings'[b].key = bookings[b].key
                       /\ bookings'[b].qty = bookings[b].qty

RequestKept(r) ==
  /\ reserve'[r].pc = reserve[r].pc /\ reserve'[r].payment = reserve[r].payment
  /\ reserve'[r].methodOk = reserve[r].methodOk
  /\ \/ payCall'[r] = payCall[r]
     \/ /\ payCall[r].st = "sent" /\ payCall'[r].st \in {"ok", "error", "lost"}
        /\ payCall'[r].booking = payCall[r].booking /\ payCall'[r].key = payCall[r].key
        /\ payCall'[r].methodOk = payCall[r].methodOk
        /\ payCall'[r].st = "ok" => payCall'[r].payment = r

LinksKept ==
  \A b \in Requests :
    /\ bookings'[b].payment = bookings[b].payment
    /\ b \in Booked => b \in Booked'
    /\ b \in Paid => b \in Paid'
    /\ payments'[b].status = "COMPLETED" => payments[b].status = "COMPLETED"

CallsKept ==
  \A c \in Captures :
    /\ confirmCall'[c].st = "idle" <=> confirmCall[c].st = "idle"
    /\ confirmCall'[c].booking = confirmCall[c].booking
    /\ confirmCall'[c].payment = confirmCall[c].payment
    /\ noticeCall'[c] = "idle" <=> noticeCall[c] = "idle"
    /\ \/ confirm'[c] = confirm[c]
       \/ /\ confirm[c].pc # "idle" /\ confirm'[c].pc \in {"done", "failed"}
          /\ confirm'[c].booking = confirm[c].booking
    /\ capture'[c] = capture[c] \/ capture'[c].pc \in {"done", "failed"}

StaysCompleted ==
  \A p \in Requests : payments[p].status = "COMPLETED" => payments'[p].status = "COMPLETED"

LEMMA RequestsFrame ==
  ASSUME SInv, RowsGrow, NEW r \in Requests, RequestKept(r)
  PROVE  RequestInv(r)'
<1>1. \A p \in Requests : bookings[p].payment = p => bookings'[p].payment = p
  BY DEF RowsGrow
<1>2. RequestInv(r)
  BY DEF SInv, Linked
<1> QED BY <1>1, <1>2 DEF RequestKept, RowsGrow, RequestInv

LEMMA LinksFrame ==
  ASSUME SInv, LinksKept, NEW b \in Requests
  PROVE  RowLinkInv(b)'
BY DEF SInv, Linked, LinksKept, RowLinkInv

LEMMA CallOfPayment ==
  ASSUME SInv, NEW c \in Captures
  PROVE  /\ confirmCall[c].st # "idle" =>
              /\ confirmCall[c].payment \in Requests /\ confirmCall[c].payment \in Booked
              /\ bookings[confirmCall[c].payment].payment = confirmCall[c].payment
         /\ capture[c].pc \in {"commit", "notify"} => capture[c].payment \in Requests
         /\ confirm[c].pc # "idle" => /\ confirmCall[c].st # "idle"
                                      /\ confirm[c].booking = confirmCall[c].payment
         /\ noticeCall[c] # "idle" => confirm[c].pc # "idle"
<1>1. CallInv(c) /\ ConfirmInv(c) /\ CaptureInv(c)
  BY DEF SInv, Linked, IInv, PInv
<1> QED BY <1>1 DEF CallInv, ConfirmInv, CaptureInv, SInv, Linked, RowLinkInv, Paid

LEMMA CallsFrame ==
  ASSUME SInv, CallsKept, RowsGrow, StaysCompleted, NEW c \in Captures
  PROVE  CallInv(c)'
<1>1. CallInv(c)
  BY DEF SInv, Linked
<1>2. confirmCall[c].st # "idle" => payments'[confirmCall[c].payment].status = "COMPLETED"
  BY <1>1, CallOfPayment DEF CallInv, StaysCompleted
<1>3. capture[c].pc \in {"commit", "notify"} =>
        bookings'[capture[c].payment].payment = capture[c].payment
  BY <1>1, CallOfPayment DEF CallInv, RowsGrow
<1> QED BY <1>1, <1>2, <1>3 DEF CallsKept, CallInv

LEMMA CountsFrame ==
  ASSUME SInv, IInv', CallsKept, RowsGrow, NEW b \in Requests,
         paymentLog'[b] = paymentLog[b], tickets'[b] = tickets[b]
  PROVE  CountInv(b)'
<1>1. Logged(b)' = Logged(b)
  BY DEF Logged, CallsKept
<1>2. Issued(b)' = Issued(b)
  BY DEF Issued, CallsKept
<1>3. CountInv(b)
  BY DEF SInv, Linked
<1>4. CASE b \in Booked
  BY <1>1, <1>2, <1>3, <1>4 DEF RowsGrow, CountInv, TicketsFor
<1>5. CASE b \notin Booked
  <2>1. Issued(b) = {}
    BY <1>5, CallOfPayment DEF Issued
  <2>2. Cardinality(Issued(b)) = 0
    BY <2>1, FS_EmptySet
  <2>3. bookings[b].qty \in Nat /\ bookings'[b].qty \in Nat
    BY MaxQtyAssumption DEF SInv, Linked, IInv, BookingTypeOK, BookingType
  <2> QED BY <1>1, <1>2, <1>3, <2>2, <2>3 DEF CountInv, TicketsFor
<1> QED BY <1>4, <1>5
LEMMA Frames ==
  ASSUME SInv, IInv', \A r \in Requests : RequestKept(r), LinksKept, CallsKept, RowsGrow,
         StaysCompleted, tickets' = tickets, paymentLog' = paymentLog
  PROVE  Linked'
<1>1. ASSUME NEW r \in Requests PROVE RequestInv(r)' /\ RowLinkInv(r)' /\ CountInv(r)'
  BY RequestsFrame, LinksFrame, CountsFrame
<1>2. ASSUME NEW c \in Captures PROVE CallInv(c)'
  BY CallsFrame
<1> QED BY <1>1, <1>2 DEF Linked

(* Bookings that only change their status among those of a booking.        *)
LEMMA SameRowsFrame ==
  ASSUME \A b \in Requests :
           /\ bookings'[b].payment = bookings[b].payment /\ bookings'[b].key = bookings[b].key
           /\ bookings'[b].qty = bookings[b].qty
           /\ bookings'[b].status = "none" <=> bookings[b].status = "none",
         payments' = payments
  PROVE  LinksKept /\ RowsGrow /\ StaysCompleted
BY DEF LinksKept, RowsGrow, StaysCompleted, Booked, Paid

-----------------------------------------------------------------------------
(* The steps of the booking service.                                       *)
LEMMA ReserveLinked ==
  ASSUME SInv, IInv', NEW r \in Requests, \A s \in Requests \ {r} : reserve'[s] = reserve[s],
         UNCHANGED <<bookings, tickets, confirm, callVars, paymentVars>>, RequestInv(r)'
  PROVE  Linked'
<1>1. UNCHANGED <<payCall, confirmCall, noticeCall, payments, paymentLog, capture>>
  BY DEF callVars, paymentVars
<1>2. LinksKept /\ RowsGrow /\ StaysCompleted /\ CallsKept
  BY <1>1, SameRowsFrame DEF CallsKept
<1>3. ASSUME NEW s \in Requests PROVE RequestInv(s)' /\ RowLinkInv(s)' /\ CountInv(s)'
  <2>1. RequestInv(s)'
    BY <1>1, <1>2, RequestsFrame DEF RequestKept
  <2> QED BY <1>1, <1>2, <2>1, LinksFrame, CountsFrame
<1>4. ASSUME NEW c \in Captures PROVE CallInv(c)'
  BY <1>2, CallsFrame
<1> QED BY <1>3, <1>4 DEF Linked

LEMMA HandlersLinked ==
  ASSUME SInv, IInv', UNCHANGED paymentVars, NEW r \in Requests,
         \/ \E k \in Keys, e \in Events, q \in 0..MaxQty, m, u \in BOOLEAN : Submit(r, k, e, q, m, u)
         \/ LookupKey(r) \/ ReadInventory(r) \/ DecrementSeats(r) \/ PaymentAnswered(r)
         \/ ReserveFail(r)
  PROVE  Linked'
<1>1. /\ reserve \in [Requests -> ReserveType] /\ reserve[r] \in ReserveType
      /\ RequestInv(r) /\ \A b \in Requests : RowLinkInv(b)
  BY DEF SInv, Linked, IInv, BookingTypeOK
<1>2. UNCHANGED <<bookings, tickets, confirm, callVars>>
  <2>1. ASSUME NEW k, NEW e, NEW q, NEW m, NEW u, Submit(r, k, e, q, m, u) PROVE <1>2!:
    BY <2>1 DEF Submit, storeVars
  <2>2. CASE LookupKey(r) \/ ReadInventory(r) \/ DecrementSeats(r) \/ PaymentAnswered(r)
             \/ ReserveFail(r)
    BY <2>2 DEF LookupKey, ReadInventory, DecrementSeats, PaymentAnswered, ReserveFail, storeVars
  <2> QED BY <2>1, <2>2
<1>3. UNCHANGED payCall
  BY <1>2 DEF callVars
<1>4. Booked' = Booked
  BY <1>2 DEF Booked
<1>5. /\ \A s \in Requests \ {r} : reserve'[s] = reserve[s]
      /\ RequestInv(r)'
  <2>1. ASSUME NEW k, NEW e, NEW q, NEW m, NEW u, Submit(r, k, e, q, m, u) PROVE <1>5!:
    <3> DEFINE pc == IF q < 1 THEN "failed" ELSE "lookup"
    <3>1. /\ reserve[r].pc = "idle" /\ pc \in {"failed", "lookup"}
          /\ reserve' = [reserve EXCEPT ![r].pc = pc, ![r].key = k, ![r].event = e,
                                        ![r].qty = q, ![r].methodOk = m, ![r].userOk = u]
      BY <2>1 DEF Submit
    <3> HIDE DEF pc
    <3> QED BY <1>1, <1>2, <1>3, <1>4, <3>1 DEF RequestInv, ReserveType
  <2>2. ASSUME NEW pc \in {"decrement", "failed"}, NEW v, reserve[r].pc = "read",
               reserve' = [reserve EXCEPT ![r].pc = pc, ![r].version = v]
        PROVE  <1>5!:
    BY <1>1, <1>2, <1>3, <1>4, <2>2 DEF RequestInv, ReserveType
  <2>3. CASE ReadInventory(r)
    BY <2>2, <2>3 DEF ReadInventory
  <2>4. CASE DecrementSeats(r)
    BY <1>1, <1>2, <1>3, <1>4, <2>4 DEF DecrementSeats, RequestInv, ReserveType
  <2>5. CASE ReserveFail(r)
    BY <1>1, <1>2, <1>3, <1>4, <2>5 DEF ReserveFail, RequestInv, ReserveType
  <2>6. CASE LookupKey(r)
    <3>1. ASSUME NEW b \in Retried(reserve[r].key),
                 reserve' = [reserve EXCEPT ![r].pc = "done", ![r].booking = b,
                                            ![r].payment = bookings[b].payment]
          PROVE  <1>5!:
      <4>1. b \in Requests /\ bookings[b].payment \in {p \in Requests : bookings[p].payment = p} \cup {None}
        BY <1>1 DEF Retried, BookedWithKey, Booked, RowLinkInv
      <4> QED BY <1>1, <1>2, <1>3, <1>4, <2>6, <3>1, <4>1 DEF LookupKey, RequestInv, ReserveType
    <3>2. CASE reserve' = [reserve EXCEPT ![r].pc = "read"]
      BY <1>1, <1>2, <1>3, <1>4, <2>6, <3>2 DEF LookupKey, RequestInv, ReserveType
    <3> QED BY <2>6, <3>1, <3>2 DEF LookupKey
  <2>7. CASE PaymentAnswered(r)
    BY <1>1, <1>2, <1>3, <1>4, <2>7 DEF PaymentAnswered, RequestInv, ReserveType
  <2> QED BY <2>1, <2>3, <2>4, <2>5, <2>6, <2>7
<1> QED BY <1>2, <1>5, ReserveLinked
(* A handler that fails to insert or to link has changed nothing.          *)
LEMMA GiveUpLinked ==
  ASSUME SInv, IInv', NEW r \in Requests, reserve[r].pc \in {"create", "link"},
         reserve' = [reserve EXCEPT ![r].pc = "failed"],
         UNCHANGED <<bookings, tickets, confirm, callVars, paymentVars>>
  PROVE  Linked'
<1>1. /\ reserve \in [Requests -> ReserveType] /\ RequestInv(r) /\ UNCHANGED payCall
      /\ Booked' = Booked
  BY DEF SInv, Linked, IInv, BookingTypeOK, callVars, Booked
<1>2. /\ \A s \in Requests \ {r} : reserve'[s] = reserve[s]
      /\ RequestInv(r)'
  BY <1>1 DEF RequestInv, ReserveType
<1> QED BY <1>2, ReserveLinked

LEMMA CreateLinked ==
  ASSUME SInv, IInv', NEW r \in Requests, CreateBooking(r), UNCHANGED paymentVars
  PROVE  Linked'
<1> DEFINE k == reserve[r].key
           row == [status |-> "PENDING", event |-> reserve[r].event, qty |-> reserve[r].qty,
                   key |-> k, payment |-> None]
           sent == [st |-> "sent", booking |-> r, key |-> k,
                    methodOk |-> reserve[r].methodOk, payment |-> None]
<1>1. /\ reserve \in [Requests -> ReserveType] /\ bookings \in [Requests -> BookingType]
      /\ payCall \in [Requests -> PayCallType]
      /\ reserve[r].pc = "create" /\ bookings[r].status = "none"
      /\ RequestInv(r) /\ RowLinkInv(r) /\ r \notin Booked
  BY DEF CreateBooking, SInv, Linked, IInv, BookingTypeOK, CallsTypeOK, ReserveInv, Booked
<1>2. UNCHANGED <<tickets, confirm, confirmCall, noticeCall, payments, paymentLog, capture>>
  BY DEF CreateBooking, paymentVars
<1>3. CASE ~Insertable(r)
  BY <1>1, <1>2, <1>3, GiveUpLinked DEF CreateBooking, callVars
<1>4. CASE Insertable(r)
  <2>1. /\ bookings' = [bookings EXCEPT ![r] = row] /\ payCall' = [payCall EXCEPT ![r] = sent]
        /\ reserve' = [reserve EXCEPT ![r].pc = "pay"]
    BY <1>4 DEF CreateBooking
  <2>2. /\ bookings'[r] = row /\ payCall'[r] = sent
        /\ \A s \in Requests \ {r} : /\ bookings'[s] = bookings[s] /\ payCall'[s] = payCall[s]
                                     /\ reserve'[s] = reserve[s]
        /\ Booked' = Booked \cup {r}
    BY <1>1, <2>1 DEF Booked
  <2>3. bookings[r].payment = None /\ r # None /\ payments[r].status # "COMPLETED"
    BY <1>1, IdsAssumption DEF RowLinkInv
  <2>4. RowsGrow /\ StaysCompleted /\ CallsKept
    BY <1>1, <1>2, <2>2, <2>3 DEF RowsGrow, StaysCompleted, CallsKept, Booked
  <2>5. RequestInv(r)'
    BY <1>1, <2>1, <2>2 DEF RequestInv
  <2>6. ASSUME NEW s \in Requests PROVE RequestInv(s)'
    BY <2>2, <2>4, <2>5, <2>6, RequestsFrame DEF RequestKept
  <2>7. ASSUME NEW s \in Requests PROVE RowLinkInv(s)'
    BY <1>2, <2>2, <2>3, <2>7 DEF SInv, Linked, RowLinkInv, Paid
  <2>8. ASSUME NEW s \in Requests PROVE CountInv(s)'
    BY <1>2, <2>4, CountsFrame
  <2>9. ASSUME NEW c \in Captures PROVE CallInv(c)'
    BY <2>4, CallsFrame
  <2> QED BY <2>6, <2>7, <2>8, <2>9 DEF Linked
<1> QED BY <1>3, <1>4

LEMMA LinkLinked ==
  ASSUME SInv, PInv, IInv', NEW r \in Requests, LinkPayment(r), UNCHANGED paymentVars
  PROVE  Linked'
<1>1. /\ reserve \in [Requests -> ReserveType] /\ bookings \in [Requests -> BookingType]
      /\ reserve[r].pc = "link" /\ reserve[r].payment = r
      /\ RequestInv(r) /\ r \in Booked /\ payCall[r].st = "ok" /\ payCall[r].payment = r
  BY DEF LinkPayment, SInv, Linked, IInv, BookingTypeOK, RequestInv
<1>2. r \in Paid
  BY <1>1 DEF PInv, AnswerInv
<1>3. /\ UNCHANGED <<tickets, confirm, payCall, confirmCall, noticeCall, payments, paymentLog, capture>>
      /\ UNCHANGED callVars
  BY DEF LinkPayment, paymentVars, callVars
<1>4. CASE UNCHANGED bookings /\ reserve' = [reserve EXCEPT ![r].pc = "failed"]
  BY <1>1, <1>3, <1>4, GiveUpLinked
<1>5. CASE /\ bookings' = [bookings EXCEPT ![r].payment = r]
           /\ reserve' = [reserve EXCEPT ![r].pc = "done", ![r].booking = r]
  <2>1. /\ bookings'[r] = [bookings[r] EXCEPT !.payment = r]
        /\ \A s \in Requests \ {r} : bookings'[s] = bookings[s] /\ reserve'[s] = reserve[s]
        /\ reserve'[r].pc = "done" /\ reserve'[r].payment = r
        /\ reserve'[r].methodOk = reserve[r].methodOk
    BY <1>1, <1>5 DEF ReserveType
  <2>2. /\ bookings'[r].payment = r /\ bookings'[r].key = bookings[r].key
        /\ bookings'[r].qty = bookings[r].qty /\ bookings'[r].status = bookings[r].status
    BY <1>1, <2>1 DEF BookingType
  <2>3. Booked' = Booked
    BY <2>1, <2>2 DEF Booked
  <2>4. RowsGrow /\ StaysCompleted /\ CallsKept
    BY <1>3, <2>1, <2>2, <2>3 DEF RowsGrow, StaysCompleted, CallsKept
  <2>5. RequestInv(r)'
    BY <1>1, <1>3, <2>1, <2>2, <2>3 DEF RequestInv
  <2>6. ASSUME NEW s \in Requests PROVE RequestInv(s)'
    BY <1>3, <2>1, <2>4, <2>5, <2>6, RequestsFrame DEF RequestKept
  <2>7. ASSUME NEW s \in Requests PROVE RowLinkInv(s)'
    BY <1>1, <1>2, <1>3, <2>1, <2>2, <2>3, <2>7 DEF SInv, Linked, RowLinkInv, Paid
  <2>8. ASSUME NEW s \in Requests PROVE CountInv(s)'
    BY <1>3, <2>4, CountsFrame
  <2>9. ASSUME NEW c \in Captures PROVE CallInv(c)'
    BY <2>4, CallsFrame
  <2> QED BY <2>6, <2>7, <2>8, <2>9 DEF Linked
<1> QED BY <1>1, <1>4, <1>5 DEF LinkPayment

LEMMA ConfirmReadLinked ==
  ASSUME SInv, IInv', NEW c \in Captures, ConfirmRead(c), UNCHANGED paymentVars
  PROVE  Linked'
<1>1. /\ confirm \in [Captures -> ConfirmType] /\ confirmCall \in [Captures -> ConfirmCallType]
      /\ confirm[c].pc = "idle" /\ confirmCall[c].st \in {"sent", "lost"} /\ noticeCall[c] = "idle"
      /\ \A d \in Captures : CallInv(d)
  BY DEF ConfirmRead, Deliverable, SInv, Linked, IInv, BookingTypeOK, CallsTypeOK, CallInv
<1>2. /\ UNCHANGED <<bookings, tickets, reserve, payCall, noticeCall, payments, paymentLog, capture>>
      /\ Booked' = Booked /\ Paid' = Paid
  BY DEF ConfirmRead, storeVars, paymentVars, Booked, Paid
<1>3. PICK pc \in {"commit", "done", "failed"} :
        /\ confirm' = [confirm EXCEPT ![c] = [pc |-> pc, booking |-> confirmCall[c].booking]]
        /\ \/ UNCHANGED confirmCall
           \/ ConfirmAnswer(c, "ok") \/ ConfirmAnswer(c, "error")
  BY DEF ConfirmRead
<1>4. /\ confirm'[c] = [pc |-> pc, booking |-> confirmCall[c].booking]
      /\ \A d \in Captures \ {c} : confirm'[d] = confirm[d] /\ confirmCall'[d] = confirmCall[d]
  BY <1>1, <1>3 DEF ConfirmAnswer
<1>5. /\ confirmCall'[c].st # "idle" /\ confirmCall'[c].booking = confirmCall[c].booking
      /\ confirmCall'[c].payment = confirmCall[c].payment
  BY <1>1, <1>3 DEF ConfirmAnswer, Answer, ConfirmCallType
<1>6. LinksKept /\ RowsGrow
  BY <1>2, SameRowsFrame
<1>7. ASSUME NEW s \in Requests PROVE RequestInv(s)' /\ RowLinkInv(s)'
  BY <1>2, <1>6, RequestsFrame, LinksFrame DEF RequestKept
<1>8. ASSUME NEW d \in Captures PROVE CallInv(d)'
  BY <1>1, <1>2, <1>4, <1>5 DEF CallInv
<1>9. ASSUME NEW s \in Requests PROVE CountInv(s)'
  <2>1. Logged(s)' = Logged(s) /\ Issued(s)' = Issued(s)
    BY <1>1, <1>2, <1>4, <1>5 DEF Logged, Issued
  <2> QED BY <1>2, <2>1 DEF SInv, Linked, CountInv, TicketsFor
<1> QED BY <1>7, <1>8, <1>9 DEF Linked

(* One more batch of tickets, one more call that stands for it.            *)
LEMMA IssueLinked ==
  ASSUME SInv, IInv', NEW c \in Captures, IssueTickets(c), UNCHANGED paymentVars
  PROVE  Linked'
<1> DEFINE b == confirm[c].booking
<1>1. /\ confirm \in [Captures -> ConfirmType] /\ bookings \in [Requests -> BookingType]
      /\ noticeCall \in [Captures -> CallState] /\ tickets \in [Requests -> Nat]
      /\ confirm[c].pc = "commit" /\ noticeCall[c] = "idle" /\ CallInv(c)
      /\ b \in Requests /\ bookings[b].status # "none"
  BY DEF IssueTickets, SInv, Linked, IInv, BookingTypeOK, CallsTypeOK, CallInv, ConfirmInv
<1>2. /\ UNCHANGED <<reserve, payCall, confirmCall, payments, paymentLog, capture>>
      /\ bookings' = [bookings EXCEPT ![b].status = "CONFIRMED"]
      /\ tickets' = [tickets EXCEPT ![b] = @ + TicketsFor(b)]
      /\ noticeCall' = [noticeCall EXCEPT ![c] = "sent"]
      /\ confirm' = [confirm EXCEPT ![c].pc = "notify"]
  BY DEF IssueTickets, paymentVars
<1>3. \A s \in Requests :
        /\ bookings'[s].payment = bookings[s].payment /\ bookings'[s].key = bookings[s].key
        /\ bookings'[s].qty = bookings[s].qty
        /\ bookings'[s].status = "none" <=> bookings[s].status = "none"
  BY <1>1, <1>2 DEF BookingType
<1>4. LinksKept /\ RowsGrow /\ StaysCompleted
  BY <1>2, <1>3, SameRowsFrame
<1>5. ASSUME NEW s \in Requests PROVE RequestInv(s)' /\ RowLinkInv(s)'
  BY <1>2, <1>4, RequestsFrame, LinksFrame DEF RequestKept
<1>6. /\ confirm'[c].pc = "notify" /\ confirm'[c].booking = b /\ noticeCall'[c] = "sent"
      /\ \A d \in Captures \ {c} : confirm'[d] = confirm[d] /\ noticeCall'[d] = noticeCall[d]
  BY <1>1, <1>2 DEF ConfirmType
<1>7. ASSUME NEW d \in Captures PROVE CallInv(d)'
  <2>1. CallInv(d) /\ (capture[d].pc \in {"commit", "notify"} => capture[d].payment \in Requests)
    BY CallOfPayment DEF SInv, Linked
  <2> QED BY <1>1, <1>2, <1>3, <1>6, <2>1 DEF CallInv
<1>8. ASSUME NEW s \in Requests PROVE CountInv(s)'
  <2>1. Logged(s)' = Logged(s) /\ CountInv(s) /\ TicketsFor(s)' = TicketsFor(s)
    BY <1>2, <1>3 DEF Logged, SInv, Linked, TicketsFor
  <2>2. CASE s # b
    <3>1. Issued(s)' = Issued(s) /\ tickets'[s] = tickets[s]
      BY <1>1, <1>2, <1>6, <2>2 DEF Issued
    <3> QED BY <1>2, <2>1, <3>1 DEF CountInv
  <2>3. CASE s = b
    <3>1. Issued(b)' = Issued(b) \cup {c} /\ c \notin Issued(b)
      BY <1>1, <1>6 DEF Issued
    <3>2. IsFiniteSet(Issued(b))
      BY IdsAssumption, FS_Subset DEF Issued
    <3>3. /\ Cardinality(Issued(b) \cup {c}) = Cardinality(Issued(b)) + 1
          /\ Cardinality(Issued(b)) \in Nat
      BY <3>1, <3>2, FS_AddElement, FS_CardinalityType
    <3>4. tickets'[b] = tickets[b] + TicketsFor(b) /\ TicketsFor(b) \in Nat
      BY <1>1, <1>2, MaxQtyAssumption DEF TicketsFor, BookingType
    <3>5. tickets'[b] = TicketsFor(b) * Cardinality(Issued(b)')
      BY <2>1, <2>3, <3>1, <3>3, <3>4 DEF CountInv
    <3> QED BY <1>2, <2>1, <2>3, <3>5 DEF CountInv
  <2> QED BY <2>2, <2>3
<1> QED BY <1>5, <1>7, <1>8 DEF Linked
LEMMA ConfirmEndLinked ==
  ASSUME SInv, IInv', NEW c \in Captures, ConfirmDone(c) \/ ConfirmFail(c), UNCHANGED paymentVars
  PROVE  Linked'
<1>1. /\ confirm \in [Captures -> ConfirmType] /\ confirmCall \in [Captures -> ConfirmCallType]
      /\ confirm[c].pc # "idle" /\ CallInv(c)
  BY DEF ConfirmDone, ConfirmFail, SInv, Linked, IInv, BookingTypeOK, CallsTypeOK
<1>2. UNCHANGED <<bookings, tickets, reserve, payCall, noticeCall, payments, paymentLog, capture>>
  BY DEF ConfirmDone, ConfirmFail, storeVars, paymentVars
<1>3. PICK pc \in {"done", "failed"}, a \in {"ok", "error"} :
        confirm' = [confirm EXCEPT ![c].pc = pc] /\ ConfirmAnswer(c, a)
  BY DEF ConfirmDone, ConfirmFail
<1>4. /\ confirm'[c].pc = pc /\ confirm'[c].booking = confirm[c].booking
      /\ \A d \in Captures \ {c} : confirm'[d] = confirm[d] /\ confirmCall'[d] = confirmCall[d]
  BY <1>1, <1>3 DEF ConfirmAnswer, ConfirmType
<1>5. /\ confirmCall'[c].st # "idle" /\ confirmCall[c].st # "idle"
      /\ confirmCall'[c].booking = confirmCall[c].booking
      /\ confirmCall'[c].payment = confirmCall[c].payment
  BY <1>1, <1>3 DEF ConfirmAnswer, Answer, ConfirmCallType, CallInv
<1>6. LinksKept /\ RowsGrow /\ StaysCompleted
  BY <1>2, SameRowsFrame
<1>7. CallsKept
  BY <1>1, <1>2, <1>4, <1>5 DEF CallsKept
<1>8. \A r \in Requests : RequestKept(r)
  BY <1>2 DEF RequestKept
<1> QED BY <1>2, <1>6, <1>7, <1>8, Frames

LEMMA InventoryLinked ==
  ASSUME SInv, IInv', UNCHANGED paymentVars,
         \/ \E e \in Events, n \in SeatCounts : PublishInventory(e, n)
         \/ \E x \in Cancels : \/ \E b \in Requests : CancelRead(x, b)
                              \/ CancelStep(x) \/ CancelFail(x)
  PROVE  Linked'
<1>1. UNCHANGED <<tickets, reserve, confirm, payCall, confirmCall, noticeCall,
                  payments, paymentLog, capture>>
  BY DEF PublishInventory, CancelRead, CancelStep, CancelRelease, CancelMark, CancelFail,
         storeVars, callVars, paymentVars
<1>2. \A b \in Requests :
        /\ bookings'[b].payment = bookings[b].payment /\ bookings'[b].key = bookings[b].key
        /\ bookings'[b].qty = bookings[b].qty
        /\ bookings'[b].status = "none" <=> bookings[b].status = "none"
  <2>1. ASSUME NEW x \in Cancels, CancelMark(x) PROVE <1>2!:
    <3>1. /\ bookings \in [Requests -> BookingType]
          /\ cancel[x].booking \in Requests /\ bookings[cancel[x].booking].status # "none"
      BY <2>1 DEF CancelMark, SInv, IInv, CancelInv, BookingTypeOK
    <3> QED BY <2>1, <3>1 DEF CancelMark, BookingType
  <2>2. CASE UNCHANGED bookings
    BY <2>2
  <2> QED BY <2>1, <2>2 DEF PublishInventory, CancelRead, CancelStep, CancelRelease, CancelFail, storeVars
<1>3. LinksKept /\ RowsGrow /\ StaysCompleted
  BY <1>1, <1>2, SameRowsFrame
<1> QED BY <1>1, <1>3, Frames DEF CallsKept, RequestKept

LEMMA BookingLinked ==
  ASSUME SInv, IInv', BookingMove
  PROVE  Linked'
<1>1. UNCHANGED paymentVars
  BY DEF BookingMove
<1>2. ASSUME NEW r \in Requests,
             \/ \E k \in Keys, e \in Events, q \in 0..MaxQty, m, u \in BOOLEAN : Submit(r, k, e, q, m, u)
             \/ ReserveStep(r) \/ ReserveFail(r)
      PROVE  Linked'
  <2>1. PInv
    BY DEF SInv
  <2> QED BY <1>1, <1>2, <2>1, HandlersLinked, CreateLinked, LinkLinked DEF ReserveStep
<1>3. ASSUME NEW c \in Captures, ConfirmStep(c) \/ ConfirmFail(c) PROVE Linked'
  BY <1>1, <1>3, ConfirmReadLinked, IssueLinked, ConfirmEndLinked DEF ConfirmStep
<1> QED BY <1>1, <1>2, <1>3, InventoryLinked DEF BookingMove, BookingSystem

-----------------------------------------------------------------------------
(* The steps of the payment service.                                       *)
LEMMA AnswerKept ==
  ASSUME SInv, NEW r \in Requests, NEW a \in {"ok", "error"}, NEW p, a = "ok" => p = r,
         ChargeAnswer(r, a, p), reserve' = reserve
  PROVE  \A s \in Requests : RequestKept(s)
<1>1. payCall \in [Requests -> PayCallType]
  BY DEF SInv, IInv, BookingTypeOK, CallsTypeOK
<1>2. \A s \in Requests \ {r} : payCall'[s] = payCall[s]
  BY <1>1 DEF ChargeAnswer
<1>3. CASE payCall[r].st = "sent"
  <2>1. payCall' = [payCall EXCEPT ![r].st = a, ![r].payment = p]
    BY <1>1, <1>3 DEF ChargeAnswer, Answer
  <2>2. /\ payCall'[r].st = a /\ payCall'[r].payment = p
        /\ payCall'[r].booking = payCall[r].booking /\ payCall'[r].key = payCall[r].key
        /\ payCall'[r].methodOk = payCall[r].methodOk
    BY <1>1, <2>1 DEF PayCallType
  <2> QED BY <1>2, <1>3, <2>2 DEF RequestKept
<1>4. CASE payCall[r].st # "sent"
  <2>1. payCall' = payCall
    BY <1>1, <1>4 DEF ChargeAnswer, Answer, PayCallType
  <2> QED BY <2>1 DEF RequestKept
<1> QED BY <1>3, <1>4

LEMMA ChargeLinked ==
  ASSUME SInv, IInv', NEW r \in Requests, ChargeStep(r) \/ ChargeFail(r), UNCHANGED bookingVars
  PROVE  Linked'
<1>1. /\ UNCHANGED <<bookings, tickets, reserve, confirm, confirmCall, noticeCall, paymentLog, capture>>
      /\ Booked' = Booked
  BY DEF bookingVars, Booked, paymentStore, ChargeStep, ChargeLookup, ChargeCheck, ChargeInsert,
         ChargeOutbox, ChargeFail
<1>2. \A s \in Requests : RequestKept(s)
  <2>1. CASE UNCHANGED payCall
    BY <1>1, <2>1 DEF RequestKept
  <2>2. CASE ChargeAnswer(r, "error", None)
    BY <1>1, <2>2, AnswerKept
  <2>3. ASSUME ChargeLookup(r), NEW p \in PaymentsWithKey(payCall[r].key), ChargeAnswer(r, "ok", p)
        PROVE  <1>2!:
    <3>1. p = r
      BY <2>3, PaymentUnderKey DEF ChargeLookup, Deliverable
    <3> QED BY <1>1, <2>3, <3>1, AnswerKept
  <2>4. CASE ChargeAnswer(r, "ok", r)
    BY <1>1, <2>4, AnswerKept
  <2> QED BY <2>1, <2>2, <2>3, <2>4
         DEF ChargeStep, ChargeLookup, ChargeCheck, ChargeInsert, ChargeOutbox, ChargeFail
<1>3. \A s \in Requests : \/ payments'[s] = payments[s]
                          \/ payments'[s].status = "PENDING" /\ payments[s].status = "none"
  <2>1. CASE UNCHANGED payments
    BY <2>1
  <2>2. CASE ChargeInsert(r) /\ payments' # payments
    <3>1. payments \in [Requests -> PaymentType] /\ payments[r].status = "none"
      BY <2>2 DEF ChargeInsert, SInv, PInv, PaymentTypeOK, ChargeInv
    <3>2. payments' = [payments EXCEPT ![r] =
            [status |-> "PENDING", booking |-> payCall[r].booking, key |-> payCall[r].key]]
      BY <2>2 DEF ChargeInsert
    <3>3. payments'[r].status = "PENDING" /\ \A s \in Requests \ {r} : payments'[s] = payments[s]
      BY <3>1, <3>2
    <3> QED BY <3>1, <3>3
  <2>3. UNCHANGED payments \/ ChargeInsert(r)
    BY DEF ChargeStep, ChargeLookup, ChargeCheck, ChargeOutbox, ChargeFail, paymentStore
  <2> QED BY <2>1, <2>2, <2>3
<1>4. LinksKept /\ RowsGrow /\ StaysCompleted /\ CallsKept
  BY <1>1, <1>3 DEF LinksKept, RowsGrow, StaysCompleted, CallsKept, Paid
<1> QED BY <1>1, <1>2, <1>4, Frames

LEMMA CaptureReadLinked ==
  ASSUME SInv, IInv', NEW c \in Captures, NEW p \in KnownPayments, CaptureRead(c, p),
         UNCHANGED bookingVars
  PROVE  Linked'
<1>1. /\ UNCHANGED <<bookings, tickets, reserve, confirm, payCall, confirmCall, noticeCall,
                     payments, paymentLog>>
      /\ capture \in [Captures -> CaptureType] /\ capture[c].pc = "idle" /\ CallInv(c)
      /\ capture' = [capture EXCEPT ![c] = [pc |-> CaptureOutcome(p), payment |-> p]]
  BY DEF CaptureRead, bookingVars, paymentStore, callVars, SInv, Linked, PInv, PaymentTypeOK
<1>2. p \in Requests /\ bookings[p].payment = p
  BY DEF KnownPayments, SInv, Linked, RequestInv
<1>3. CaptureOutcome(p) \in {"failed", "done", "commit"}
  BY <1>2 DEF CaptureOutcome, SInv, PInv, PaymentTypeOK, PaymentType
<1>4. LinksKept /\ RowsGrow
  BY <1>1, SameRowsFrame
<1>5. ASSUME NEW s \in Requests PROVE RequestInv(s)' /\ RowLinkInv(s)'
  BY <1>1, <1>4, RequestsFrame, LinksFrame DEF RequestKept
<1>6. ASSUME NEW d \in Captures PROVE CallInv(d)'
  BY <1>1, <1>2, <1>3 DEF SInv, Linked, CallInv
<1>7. ASSUME NEW s \in Requests PROVE CountInv(s)'
  BY <1>1 DEF SInv, Linked, CountInv, Logged, Issued, TicketsFor
<1> QED BY <1>5, <1>6, <1>7 DEF Linked

(* One more logged capture, one more call that stands for it.              *)
LEMMA CommitLinked ==
  ASSUME SInv, IInv', NEW c \in Captures, CaptureCommit(c), UNCHANGED bookingVars
  PROVE  Linked'
<1> DEFINE p == capture[c].payment
           sent == [st |-> "sent", booking |-> payments[p].booking, payment |-> p]
<1>1. /\ capture \in [Captures -> CaptureType] /\ confirmCall \in [Captures -> ConfirmCallType]
      /\ payments \in [Requests -> PaymentType] /\ paymentLog \in [Requests -> Nat]
      /\ capture[c].pc = "commit" /\ CallInv(c) /\ confirmCall[c].st = "idle" /\ p \in Paid
      /\ bookings[p].payment = p
  BY DEF CaptureCommit, SInv, Linked, PInv, PaymentTypeOK, CallsTypeOK, CallInv, CaptureInv
<1>2. p \in Requests /\ payments[p].booking = p
  BY <1>1, PaymentOfItsBooking
<1>3. /\ UNCHANGED <<bookings, tickets, reserve, confirm, payCall, noticeCall>>
      /\ payments' = [payments EXCEPT ![p].status = "COMPLETED"]
      /\ paymentLog' = [paymentLog EXCEPT ![p] = @ + 1]
      /\ confirmCall' = [confirmCall EXCEPT ![c] = sent]
      /\ capture' = [capture EXCEPT ![c].pc = "notify"]
      /\ Booked' = Booked
  BY DEF CaptureCommit, bookingVars, Booked
<1>4. /\ payments'[p].status = "COMPLETED" /\ \A s \in Requests \ {p} : payments'[s] = payments[s]
      /\ Paid' = Paid
  BY <1>1, <1>2, <1>3 DEF PaymentType, Paid
<1>5. /\ confirmCall'[c] = sent /\ capture'[c].pc = "notify" /\ capture'[c].payment = p
      /\ \A d \in Captures \ {c} : confirmCall'[d] = confirmCall[d] /\ capture'[d] = capture[d]
  BY <1>1, <1>3 DEF CaptureType
<1>6. RowsGrow /\ StaysCompleted
  BY <1>3, <1>4 DEF RowsGrow, StaysCompleted
<1>7. ASSUME NEW s \in Requests PROVE RequestInv(s)' /\ RowLinkInv(s)'
  <2>1. RequestInv(s)'
    BY <1>3, <1>6, RequestsFrame DEF RequestKept
  <2> QED BY <1>1, <1>3, <1>4, <2>1 DEF SInv, Linked, RowLinkInv
<1>8. ASSUME NEW d \in Captures PROVE CallInv(d)'
  <2>1. CallInv(d) /\ (confirmCall[d].st # "idle" => confirmCall[d].payment \in Requests)
    BY CallOfPayment DEF SInv, Linked
  <2> QED BY <1>1, <1>2, <1>3, <1>4, <1>5, <2>1 DEF CallInv
<1>9. ASSUME NEW s \in Requests PROVE CountInv(s)'
  <2>1. /\ Issued(s)' = Issued(s) /\ TicketsFor(s)' = TicketsFor(s) /\ tickets'[s] = tickets[s]
        /\ CountInv(s)
    BY <1>3 DEF Issued, TicketsFor, SInv, Linked
  <2>2. CASE s # p
    <3>1. Logged(s)' = Logged(s) /\ paymentLog'[s] = paymentLog[s]
      BY <1>1, <1>2, <1>3, <1>5, <2>2 DEF Logged
    <3> QED BY <2>1, <3>1 DEF CountInv
  <2>3. CASE s = p
    <3>1. Logged(p)' = Logged(p) \cup {c} /\ c \notin Logged(p)
      BY <1>1, <1>5 DEF Logged
    <3>2. IsFiniteSet(Logged(p))
      BY IdsAssumption, FS_Subset DEF Logged
    <3>3. Cardinality(Logged(p) \cup {c}) = Cardinality(Logged(p)) + 1
      BY <3>1, <3>2, FS_AddElement
    <3>4. paymentLog'[p] = paymentLog[p] + 1
      BY <1>1, <1>2, <1>3
    <3>5. paymentLog[p] = Cardinality(Logged(p))
      BY <2>1, <2>3 DEF CountInv
    <3>6. paymentLog'[p] = Cardinality(Logged(p)')
      BY <3>1, <3>3, <3>4, <3>5
    <3> QED BY <1>5, <2>1, <2>3, <3>6 DEF CountInv
  <2> QED BY <2>2, <2>3
<1> QED BY <1>7, <1>8, <1>9 DEF Linked

LEMMA CaptureEndLinked ==
  ASSUME SInv, IInv', NEW c \in Captures, CaptureDone(c) \/ CaptureFail(c), UNCHANGED bookingVars
  PROVE  Linked'
<1>1. /\ UNCHANGED <<bookings, tickets, reserve, confirm, payCall, confirmCall, noticeCall,
                     payments, paymentLog>>
      /\ capture \in [Captures -> CaptureType]
  BY DEF CaptureDone, CaptureFail, bookingVars, paymentStore, callVars, SInv, PInv, PaymentTypeOK
<1>2. PICK pc \in {"done", "failed"} : capture' = [capture EXCEPT ![c].pc = pc]
  BY DEF CaptureDone, CaptureFail
<1>3. \A d \in Captures : capture'[d] = capture[d] \/ capture'[d].pc \in {"done", "failed"}
  BY <1>1, <1>2 DEF CaptureType
<1>4. LinksKept /\ RowsGrow /\ StaysCompleted
  BY <1>1, SameRowsFrame
<1> QED BY <1>1, <1>3, <1>4, Frames DEF CallsKept, RequestKept

LEMMA PaymentLinked ==
  ASSUME SInv, IInv', PaymentMove
  PROVE  Linked'
BY ChargeLinked, CaptureReadLinked, CommitLinked, CaptureEndLinked
   DEF PaymentMove, PaymentSystem, CaptureStep

-----------------------------------------------------------------------------
(* The steps of the notification service and of the network.               *)
(* A call whose connection may have broken. *)
LostOrKept(call, after) ==
  \/ after = call
  \/ call.st = "sent" /\ after = [call EXCEPT !.st = "lost"]

LEMMA CallsLinked ==
  ASSUME SInv, IInv', UNCHANGED <<bookingVars, paymentVars>>,
         \A r \in Requests : LostOrKept(payCall[r], payCall'[r]),
         \A c \in Captures : LostOrKept(confirmCall[c], confirmCall'[c]),
         \A c \in Captures : noticeCall'[c] = "idle" <=> noticeCall[c] = "idle"
  PROVE  Linked'
<1>1. UNCHANGED <<bookings, tickets, reserve, confirm, payments, paymentLog, capture>>
  BY DEF bookingVars, paymentVars
<1>2. /\ payCall \in [Requests -> PayCallType] /\ confirmCall \in [Captures -> ConfirmCallType]
  BY DEF SInv, IInv, BookingTypeOK, CallsTypeOK
<1>3. ASSUME NEW r \in Requests PROVE RequestKept(r)
  <2>1. payCall[r] \in PayCallType
    BY <1>2
  <2>2. CASE payCall'[r] = payCall[r]
    BY <1>1, <2>2 DEF RequestKept
  <2>3. CASE payCall[r].st = "sent" /\ payCall'[r] = [payCall[r] EXCEPT !.st = "lost"]
    BY <1>1, <2>1, <2>3 DEF RequestKept, PayCallType
  <2> QED BY <2>2, <2>3 DEF LostOrKept
<1>4. CallsKept
  <2>1. ASSUME NEW c \in Captures
        PROVE  /\ confirmCall'[c].st = "idle" <=> confirmCall[c].st = "idle"
               /\ confirmCall'[c].booking = confirmCall[c].booking
               /\ confirmCall'[c].payment = confirmCall[c].payment
    <3>1. confirmCall[c] \in ConfirmCallType
      BY <1>2
    <3>2. CASE confirmCall[c].st = "sent" /\ confirmCall'[c] = [confirmCall[c] EXCEPT !.st = "lost"]
      BY <3>1, <3>2 DEF ConfirmCallType
    <3> QED BY <3>2 DEF LostOrKept
  <2> QED BY <1>1, <2>1 DEF CallsKept
<1>5. LinksKept /\ RowsGrow /\ StaysCompleted
  BY <1>1, SameRowsFrame
<1> QED BY <1>1, <1>3, <1>4, <1>5, Frames

LEMMA NoticeLinked ==
  ASSUME SInv, IInv', NoticeMove
  PROVE  Linked' /\ NoticeTypeOK'
<1>1. PICK c \in Captures : NoticeStep(c) \/ NoticeFail(c)
  BY DEF NoticeMove, NoticeSystem
<1>2. /\ UNCHANGED <<bookingVars, paymentVars, payCall, confirmCall>>
      /\ noticeCall \in [Captures -> CallState] /\ NoticeTypeOK
  BY <1>1 DEF NoticeMove, NoticeStep, InsertNotice, MarkSent, NoticeFail, callVars,
              SInv, IInv, BookingTypeOK, CallsTypeOK
<1>3. \/ noticeCall' = noticeCall
      \/ \E a \in {"ok", "error"} : noticeCall' = [noticeCall EXCEPT ![c] = Answer(@, a)]
  BY <1>1 DEF NoticeStep, InsertNotice, MarkSent, NoticeFail, callVars
<1>4. \A d \in Captures : noticeCall'[d] = "idle" <=> noticeCall[d] = "idle"
  BY <1>2, <1>3 DEF Answer
<1>5. Linked'
  <2>1. /\ \A s \in Requests : LostOrKept(payCall[s], payCall'[s])
        /\ \A d \in Captures : LostOrKept(confirmCall[d], confirmCall'[d])
    BY <1>2 DEF LostOrKept
  <2> QED BY <1>2, <1>4, <2>1, CallsLinked
<1>6. NoticeTypeOK'
  BY <1>1, <1>2 DEF NoticeTypeOK, NoticeStep, InsertNotice, MarkSent, NoticeFail
<1> QED BY <1>5, <1>6

LEMMA NetworkLinked ==
  ASSUME SInv, IInv', NetworkMove
  PROVE  Linked'
<1>1. UNCHANGED <<bookingVars, paymentVars>> /\ Drop
  BY DEF NetworkMove
<1>2. /\ payCall \in [Requests -> PayCallType] /\ confirmCall \in [Captures -> ConfirmCallType]
      /\ noticeCall \in [Captures -> CallState]
  BY DEF SInv, IInv, BookingTypeOK, CallsTypeOK
<1>3. ASSUME NEW r \in Requests, DropPay(r) PROVE Linked'
  <2>1. \A s \in Requests : LostOrKept(payCall[s], payCall'[s])
    BY <1>2, <1>3 DEF DropPay, LostOrKept, PayCallType
  <2>2. \A d \in Captures : /\ LostOrKept(confirmCall[d], confirmCall'[d])
                            /\ noticeCall'[d] = "idle" <=> noticeCall[d] = "idle"
    BY <1>3 DEF DropPay, LostOrKept
  <2> QED BY <1>1, <2>1, <2>2, CallsLinked
<1>4. ASSUME NEW c \in Captures, DropConfirm(c) PROVE Linked'
  <2>1. \A d \in Captures : LostOrKept(confirmCall[d], confirmCall'[d])
    BY <1>2, <1>4 DEF DropConfirm, LostOrKept, ConfirmCallType
  <2>2. /\ \A s \in Requests : LostOrKept(payCall[s], payCall'[s])
        /\ \A d \in Captures : noticeCall'[d] = "idle" <=> noticeCall[d] = "idle"
    BY <1>4 DEF DropConfirm, LostOrKept
  <2> QED BY <1>1, <2>1, <2>2, CallsLinked
<1>5. ASSUME NEW c \in Captures, DropNotice(c) PROVE Linked'
  <2>1. \A d \in Captures : noticeCall'[d] = "idle" <=> noticeCall[d] = "idle"
    BY <1>2, <1>5 DEF DropNotice
  <2>2. /\ \A s \in Requests : LostOrKept(payCall[s], payCall'[s])
        /\ \A d \in Captures : LostOrKept(confirmCall[d], confirmCall'[d])
    BY <1>5 DEF DropNotice, LostOrKept
  <2> QED BY <1>1, <2>1, <2>2, CallsLinked
<1> QED BY <1>1, <1>3, <1>4, <1>5 DEF Drop

LEMMA NextSInv ==
  ASSUME SInv, [Next]_vars
  PROVE  SInv'
<1>1. IInv'
  BY SagaSteps, NextInv DEF SInv
<1>2. PInv'
  BY SagaSteps, NextPInv DEF SInv
<1>3. CASE BookingMove \/ PaymentMove \/ NetworkMove
  <2>1. Linked'
    BY <1>1, <1>3, BookingLinked, PaymentLinked, NetworkLinked
  <2>2. NoticeTypeOK'
    BY <1>3 DEF BookingMove, PaymentMove, NetworkMove, noticeVars, SInv, NoticeTypeOK
  <2> QED BY <1>1, <1>2, <2>1, <2>2 DEF SInv
<1>4. CASE NoticeMove
  BY <1>1, <1>2, <1>4, NoticeLinked DEF SInv
<1>5. CASE UNCHANGED vars
  <2>1. UNCHANGED <<bookingVars, paymentVars, noticeVars, payCall, confirmCall, noticeCall>>
    BY <1>5 DEF vars, callVars
  <2>2. /\ \A s \in Requests : LostOrKept(payCall[s], payCall'[s])
        /\ \A d \in Captures : LostOrKept(confirmCall[d], confirmCall'[d])
    BY <2>1 DEF LostOrKept
  <2>3. Linked'
    BY <1>1, <2>1, <2>2, CallsLinked
  <2> QED BY <1>1, <1>2, <2>1, <2>3 DEF SInv, NoticeTypeOK, noticeVars
<1> QED BY <1>3, <1>4, <1>5 DEF Next

-----------------------------------------------------------------------------
(* SInv holds in every reachable state of the composed system. *)
THEOREM SagaInvariance == Spec => []SInv
BY InitSInv, NextSInv, PTL DEF Spec

(* The variables of all three services and the mailboxes between them keep *)
(* their types.                                                            *)
THEOREM SagaTypeCorrect == Spec => []SagaTypeOK
<1>1. SInv => SagaTypeOK
  BY DEF SInv, IInv, PInv, SagaTypeOK
<1> QED BY <1>1, SagaInvariance, PTL

(* The composed system runs the booking service: all that the theorems of  *)
(* BookingServiceProofs say of BookingSpec, they say of it.                *)
THEOREM SagaRunsBookingService == Spec => RunsBookingService
<1>1. Init => BookingStart
  BY DEF Init, BookingStart
<1>2. SInv /\ [Next]_vars => [BookingNext]_allBookingVars
  BY SagaSteps
<1> QED BY <1>1, <1>2, SagaInvariance, PTL DEF Spec, RunsBookingService, BookingSpec

(* The composed system runs the payment service likewise.                  *)
THEOREM SagaRunsPaymentService == Spec => RunsPaymentService
<1>1. Init => PaymentStart
  BY DEF Init, PaymentStart
<1>2. SInv /\ [Next]_vars => [PaymentNext]_allPaymentVars
  BY SagaSteps
<1> QED BY <1>1, <1>2, SagaInvariance, PTL DEF Spec, RunsPaymentService, PaymentSpec

(* A booking is only ever linked to the payment made for it, under its key. *)
THEOREM LinksAreSound == Spec => []LinkSound
<1>1. SInv => LinkSound
  <2> SUFFICES ASSUME SInv, NEW b \in Booked, bookings[b].payment # None
               PROVE  LET p == payments[bookings[b].payment] IN
                      p.status # "none" /\ p.booking = b /\ p.key = bookings[b].key
    BY DEF LinkSound
  <2>1. bookings[b].payment = b /\ b \in Paid
    BY DEF SInv, Linked, RowLinkInv, Booked
  <2> QED BY <2>1, PaymentOfItsBooking DEF Paid
<1> QED BY <1>1, SagaInvariance, PTL

(* confirmBooking never meets a captured payment its booking does not know, *)
(* whatever crashed between the payment and the link.                      *)
THEOREM CapturesAreLinked == Spec => []CapturedIsLinked
<1>1. SInv => CapturedIsLinked
  <2> SUFFICES ASSUME SInv, NEW p \in Paid, payments[p].status = "COMPLETED"
               PROVE  bookings[payments[p].booking].payment = p
    BY DEF CapturedIsLinked
  <2> QED BY PaymentOfItsBooking DEF SInv, Linked, RowLinkInv
<1> QED BY <1>1, SagaInvariance, PTL

(* Each batch of tickets of a booking stands for a capture logged for the  *)
(* payment of that booking.                                                *)
LEMMA IssuedAreLogged ==
  ASSUME SInv, NEW b \in Requests
  PROVE  /\ Issued(b) \subseteq Logged(b) /\ IsFiniteSet(Logged(b))
         /\ Cardinality(Issued(b)) \in Nat /\ Cardinality(Logged(b)) \in Nat
         /\ Cardinality(Issued(b)) <= Cardinality(Logged(b))
<1>1. Issued(b) \subseteq Logged(b)
  <2> SUFFICES ASSUME NEW c \in Issued(b) PROVE c \in Logged(b)
    OBVIOUS
  <2>1. c \in Captures /\ noticeCall[c] # "idle" /\ confirm[c].booking = b
    BY DEF Issued
  <2> QED BY <2>1, CallOfPayment DEF Logged
<1>2. IsFiniteSet(Logged(b))
  BY IdsAssumption, FS_Subset DEF Logged
<1> QED BY <1>1, <1>2, FS_Subset, FS_CardinalityType

(* No ticket without a captured payment, nor more batches than captures.   *)
THEOREM NoTicketWithoutMoney == Spec => []TicketsBackedByCaptures
<1>1. SInv => TicketsBackedByCaptures
  <2> SUFFICES ASSUME SInv, NEW b \in Booked, tickets[b] > 0
               PROVE  /\ bookings[b].payment \in Paid
                      /\ payments[bookings[b].payment].status = "COMPLETED"
                      /\ tickets[b] <= bookings[b].qty * paymentLog[bookings[b].payment]
    BY DEF TicketsBackedByCaptures
  <2>1. /\ b \in Requests /\ CountInv(b) /\ RowLinkInv(b) /\ TicketsFor(b) = bookings[b].qty
        /\ bookings[b].qty \in Nat
    BY MaxQtyAssumption DEF Booked, SInv, Linked, TicketsFor, IInv, BookingTypeOK, BookingType
  <2>2. /\ Issued(b) \subseteq Logged(b)
        /\ Cardinality(Issued(b)) \in Nat /\ Cardinality(Logged(b)) \in Nat
        /\ Cardinality(Issued(b)) <= Cardinality(Logged(b))
    BY <2>1, IssuedAreLogged
  <2>3. Issued(b) # {}
    <3>1. ASSUME Issued(b) = {} PROVE FALSE
      <4>1. Cardinality(Issued(b)) = 0
        BY <3>1, FS_EmptySet
      <4> QED BY <2>1, <4>1 DEF CountInv
    <3> QED BY <3>1
  <2>4. PICK c \in Captures : c \in Logged(b)
    BY <2>2, <2>3 DEF Logged
  <2>5. bookings[b].payment = b /\ payments[b].status = "COMPLETED"
    BY <2>4, CallOfPayment DEF Logged, SInv, Linked, CallInv
  <2>6. tickets[b] <= bookings[b].qty * paymentLog[b]
    <3>1. /\ tickets[b] = bookings[b].qty * Cardinality(Issued(b))
          /\ paymentLog[b] = Cardinality(Logged(b))
      BY <2>1 DEF CountInv
    <3>2. \A q, i, l \in Nat : i <= l => q * i <= q * l
      OBVIOUS
    <3> QED BY <2>1, <2>2, <3>1, <3>2
  <2> QED BY <2>1, <2>5, <2>6 DEF RowLinkInv
<1> QED BY <1>1, SagaInvariance, PTL

-----------------------------------------------------------------------------
(* Clients that do not start a capture before the previous one of the same *)
(* payment is over: a payment is captured once, as the strengthening says. *)
SerialInv ==
  /\ \A c \in Captures :
       capture[c].pc = "commit" => payments[capture[c].payment].status = "PENDING"
  /\ \A c, d \in Captures :
       /\ capture[c].pc \in {"commit", "notify"} /\ capture[d].pc \in {"commit", "notify"}
       /\ capture[c].payment = capture[d].payment
       => c = d
  /\ \A p \in Requests : paymentLog[p] = IF payments[p].status = "COMPLETED" THEN 1 ELSE 0

LEMMA ChargeSerial ==
  ASSUME SInv, SerialInv, NEW r \in Requests, ChargeStep(r) \/ ChargeFail(r)
  PROVE  SerialInv'
<1>1. UNCHANGED <<paymentLog, capture>>
  BY DEF paymentStore, ChargeStep, ChargeLookup, ChargeCheck, ChargeInsert, ChargeOutbox, ChargeFail
<1>2. UNCHANGED payments \/ (ChargeInsert(r) /\ payments' # payments)
  BY DEF paymentStore, ChargeStep, ChargeLookup, ChargeCheck, ChargeInsert, ChargeOutbox, ChargeFail
<1>3. CASE UNCHANGED payments
  BY <1>1, <1>3 DEF SerialInv
<1>4. CASE ChargeInsert(r) /\ payments' # payments
  <2>1. payments \in [Requests -> PaymentType] /\ payments[r].status = "none"
    BY <1>4 DEF ChargeInsert, SInv, PInv, PaymentTypeOK, ChargeInv
  <2>2. payments' = [payments EXCEPT ![r] =
          [status |-> "PENDING", booking |-> payCall[r].booking, key |-> payCall[r].key]]
    BY <1>4 DEF ChargeInsert
  <2>3. payments'[r].status = "PENDING" /\ \A s \in Requests \ {r} : payments'[s] = payments[s]
    BY <2>1, <2>2
  <2>4. \A c \in Captures : capture[c].pc = "commit" => capture[c].payment \in Requests
    BY CallOfPayment
  <2> QED BY <1>1, <2>1, <2>3, <2>4 DEF SerialInv
<1> QED BY <1>2, <1>3, <1>4

LEMMA ReadSerial ==
  ASSUME SInv, SerialInv, ~Overlap, NEW c \in Captures, NEW p \in Requests, CaptureRead(c, p)
  PROVE  SerialInv'
<1>1. /\ capture \in [Captures -> CaptureType] /\ payments[p].status \in {"none", "PENDING", "COMPLETED"}
      /\ Capturing(p) = {} /\ UNCHANGED <<payments, paymentLog>>
      /\ capture' = [capture EXCEPT ![c] = [pc |-> CaptureOutcome(p), payment |-> p]]
  BY DEF CaptureRead, paymentStore, SInv, PInv, PaymentTypeOK, PaymentType
<1>2. /\ capture'[c].payment = p /\ capture'[c].pc \in {"failed", "done", "commit"}
      /\ capture'[c].pc = "commit" => payments[p].status = "PENDING"
      /\ \A d \in Captures \ {c} : capture'[d] = capture[d]
  BY <1>1 DEF CaptureOutcome
<1>3. \A d \in Captures : capture[d].pc \in {"commit", "notify"} => capture[d].payment # p
  BY <1>1 DEF Capturing
<1> QED BY <1>1, <1>2, <1>3 DEF SerialInv

LEMMA CommitSerial ==
  ASSUME SInv, SerialInv, NEW c \in Captures, CaptureCommit(c)
  PROVE  SerialInv'
<1> DEFINE p == capture[c].payment
<1>1. /\ capture \in [Captures -> CaptureType] /\ payments \in [Requests -> PaymentType]
      /\ paymentLog \in [Requests -> Nat] /\ capture[c].pc = "commit" /\ p \in Requests
      /\ payments' = [payments EXCEPT ![p].status = "COMPLETED"]
      /\ paymentLog' = [paymentLog EXCEPT ![p] = @ + 1]
      /\ capture' = [capture EXCEPT ![c].pc = "notify"]
  BY CallOfPayment DEF CaptureCommit, SInv, PInv, PaymentTypeOK
<1>2. /\ payments'[p].status = "COMPLETED" /\ payments[p].status = "PENDING"
      /\ paymentLog'[p] = 1
      /\ \A q \in Requests \ {p} : payments'[q] = payments[q] /\ paymentLog'[q] = paymentLog[q]
  BY <1>1 DEF SerialInv, PaymentType
<1>3. /\ capture'[c].pc = "notify" /\ capture'[c].payment = p
      /\ \A d \in Captures \ {c} : capture'[d] = capture[d]
  BY <1>1 DEF CaptureType
<1>4. \A d \in Captures \ {c} :
        capture[d].pc \in {"commit", "notify"} => capture[d].payment \in Requests \ {p}
  BY <1>1, CallOfPayment DEF SerialInv
<1> QED BY <1>1, <1>2, <1>3, <1>4 DEF SerialInv

LEMMA NextSerialInv ==
  ASSUME SInv, SerialInv, ~Overlap, [Next]_vars
  PROVE  SerialInv'
<1>1. CASE UNCHANGED paymentVars
  BY <1>1 DEF paymentVars, SerialInv
<1>2. ASSUME NEW c \in Captures, CaptureDone(c) \/ CaptureFail(c) PROVE SerialInv'
  <2>1. /\ UNCHANGED <<payments, paymentLog>> /\ capture \in [Captures -> CaptureType]
        /\ capture[c].pc \in {"commit", "notify"}
    BY <1>2 DEF CaptureDone, CaptureFail, paymentStore, SInv, PInv, PaymentTypeOK
  <2>2. PICK pc \in {"done", "failed"} : capture' = [capture EXCEPT ![c].pc = pc]
    BY <1>2 DEF CaptureDone, CaptureFail
  <2>3. /\ capture'[c].pc \in {"done", "failed"}
        /\ \A d \in Captures \ {c} : capture'[d] = capture[d]
    BY <2>1, <2>2 DEF CaptureType
  <2> QED BY <2>1, <2>3 DEF SerialInv
<1>3. KnownPayments \subseteq Requests
  BY DEF KnownPayments, SInv, IInv, BookingTypeOK, ReserveType, IdOrNone
<1>4. CASE PaymentMove
  BY <1>2, <1>3, <1>4, ChargeSerial, ReadSerial, CommitSerial
     DEF PaymentMove, PaymentSystem, CaptureStep
<1> QED BY <1>1, <1>4 DEF Next, BookingMove, NoticeMove, NetworkMove, vars

(* A booking has a ticket per seat, or none, if no client overlaps its     *)
(* captures: the code counts on the status it read before its transaction. *)
THEOREM OneTicketForEachSeat ==
  ASSUME ~Overlap
  PROVE  Spec => []OneTicketPerSeat
<1>1. Init => SerialInv
  BY DEF Init, PaymentInit, SerialInv
<1>2. SInv /\ SerialInv /\ [Next]_vars => SerialInv'
  BY NextSerialInv
<1>3. SInv /\ SerialInv => OneTicketPerSeat
  <2> SUFFICES ASSUME SInv, SerialInv, NEW b \in Booked PROVE tickets[b] \in {0, bookings[b].qty}
    BY DEF OneTicketPerSeat
  <2>1. /\ b \in Requests /\ tickets[b] = bookings[b].qty * Cardinality(Issued(b))
        /\ paymentLog[b] = Cardinality(Logged(b)) /\ bookings[b].qty \in Nat
    BY MaxQtyAssumption DEF Booked, SInv, Linked, CountInv, TicketsFor, IInv, BookingTypeOK, BookingType
  <2>2. paymentLog[b] \in {0, 1}
    BY <2>1 DEF SerialInv
  <2>3. Cardinality(Issued(b)) \in {0, 1}
    BY <2>1, <2>2, IssuedAreLogged
  <2> QED BY <2>1, <2>3
<1> QED BY <1>1, <1>2, <1>3, SagaInvariance, PTL DEF Spec

-----------------------------------------------------------------------------
(* Without faults: only a payment method that does not exist turns a call  *)
(* for a payment down, so that nothing else leaves a booking stranded.     *)
NoFaultInv ==
  \A r \in Requests :
    /\ payCall[r].st # "lost"
    /\ payCall[r].st = "error" => ~payCall[r].methodOk
    /\ reserve[r].pc = "failed" /\ r \in Booked => ~reserve[r].methodOk

(* What a step must leave alone, request by request.                       *)
LEMMA NoFaultFrame ==
  ASSUME NoFaultInv,
         \A r \in Requests :
           /\ \/ payCall'[r] = payCall[r]
              \/ payCall'[r].st \notin {"lost", "error"}
              \/ payCall'[r].st = "error" /\ ~payCall'[r].methodOk
           /\ \/ reserve'[r] = reserve[r] /\ (r \in Booked' => r \in Booked)
              \/ reserve'[r].pc # "failed"
              \/ r \notin Booked'
              \/ ~reserve'[r].methodOk
  PROVE  NoFaultInv'
BY DEF NoFaultInv

(* The only payment a call for a payment can meet is its own.              *)
LEMMA NoOtherPayment ==
  ASSUME SInv, NEW r \in Requests, charge[r].pc \in {"byBooking", "insert"}
  PROVE  /\ PaymentsOfBooking(payCall[r].booking) = {} /\ PaymentsWithKey(payCall[r].key) = {}
         /\ payCall[r].st # "idle"
<1>1. payCall[r].st # "idle" /\ payments[r].status = "none" /\ payCall[r].booking = r
  BY DEF SInv, PInv, ChargeInv, Linked, RequestInv
<1>2. ASSUME NEW p \in PaymentsOfBooking(r) PROVE FALSE
  BY <1>1, <1>2, PaymentOfItsBooking DEF PaymentsOfBooking, Paid
<1>3. ASSUME NEW p \in PaymentsWithKey(payCall[r].key) PROVE FALSE
  BY <1>1, <1>3, PaymentUnderKey DEF PaymentsWithKey, Paid
<1> QED BY <1>1, <1>2, <1>3

LEMMA ReserveNoFault ==
  ASSUME SInv, NoFaultInv, ~Faults, NEW r \in Requests,
         \/ \E k \in Keys, e \in Events, q \in 0..MaxQty, m, u \in BOOLEAN : Submit(r, k, e, q, m, u)
         \/ ReserveStep(r) \/ ReserveFail(r)
  PROVE  NoFaultInv'
<1>1. /\ reserve \in [Requests -> ReserveType] /\ payCall \in [Requests -> PayCallType]
      /\ bookings \in [Requests -> BookingType] /\ BookingInv(r) /\ RequestInv(r)
      /\ \A b \in Requests : RowLinkInv(b)
  BY DEF SInv, Linked, IInv, BookingTypeOK, CallsTypeOK
<1>2. CASE \E k \in Keys, e \in Events, q \in 0..MaxQty, m, u \in BOOLEAN : Submit(r, k, e, q, m, u)
  <2>1. PICK k \in Keys, e \in Events, q \in 0..MaxQty, m, u \in BOOLEAN : Submit(r, k, e, q, m, u)
    BY <1>2
  <2>2. /\ UNCHANGED <<bookings, payCall>> /\ reserve[r].pc = "idle"
        /\ \A s \in Requests \ {r} : reserve'[s] = reserve[s]
    BY <1>1, <2>1 DEF Submit, storeVars, callVars
  <2>3. r \notin Booked
    BY <1>1, <2>2 DEF BookingInv, Booked
  <2> QED BY <2>2, <2>3, NoFaultFrame DEF Booked
<1>3. CASE LookupKey(r) \/ ReadInventory(r) \/ DecrementSeats(r)
  <2>1. /\ UNCHANGED <<bookings, payCall>> /\ r \notin Booked
        /\ \A s \in Requests \ {r} : reserve'[s] = reserve[s]
    BY <1>1, <1>3 DEF LookupKey, ReadInventory, DecrementSeats, storeVars, callVars, BookingInv, Booked
  <2> QED BY <2>1, NoFaultFrame DEF Booked
<1>4. CASE CreateBooking(r)
  <2>1. CASE Insertable(r)
    <3>1. /\ reserve' = [reserve EXCEPT ![r].pc = "pay"]
          /\ payCall' = [payCall EXCEPT ![r] =
               [st |-> "sent", booking |-> r, key |-> reserve[r].key,
                methodOk |-> reserve[r].methodOk, payment |-> None]]
          /\ \A s \in Requests \ {r} : bookings'[s] = bookings[s]
      BY <1>1, <1>4, <2>1 DEF CreateBooking
    <3>2. /\ reserve'[r].pc = "pay" /\ payCall'[r].st = "sent"
          /\ \A s \in Requests \ {r} : reserve'[s] = reserve[s] /\ payCall'[s] = payCall[s]
      BY <1>1, <3>1 DEF ReserveType
    <3> QED BY <3>1, <3>2, NoFaultFrame DEF Booked
  <2>2. CASE ~Insertable(r)
    <3>1. /\ UNCHANGED <<bookings, payCall>> /\ r \notin Booked
          /\ \A s \in Requests \ {r} : reserve'[s] = reserve[s]
      BY <1>1, <1>4, <2>2 DEF CreateBooking, BookingInv, Booked
    <3> QED BY <3>1, NoFaultFrame DEF Booked
  <2> QED BY <2>1, <2>2
<1>5. CASE PaymentAnswered(r)
  <2>1. UNCHANGED <<bookings, payCall>> /\ reserve[r].pc = "pay"
    BY <1>5 DEF PaymentAnswered, storeVars, callVars
  <2>2. reserve'[r].pc = "link" \/ (reserve'[r].methodOk = reserve[r].methodOk /\ payCall[r].st = "error")
    BY <1>1, <1>5 DEF PaymentAnswered, CallFailed, ReserveType, NoFaultInv
  <2>3. payCall[r].st = "error" => ~reserve[r].methodOk
    BY <1>1 DEF RequestInv, NoFaultInv
  <2>4. \A s \in Requests \ {r} : reserve'[s] = reserve[s]
    BY <1>1, <1>5 DEF PaymentAnswered
  <2> QED BY <2>1, <2>2, <2>3, <2>4, NoFaultFrame DEF Booked
<1>6. CASE LinkPayment(r)
  <2>1. \A b \in Booked \ {r} : bookings[b].payment # reserve[r].payment
    BY <1>1, <1>6, IdsAssumption DEF LinkPayment, RequestInv, RowLinkInv, Booked
  <2>2. /\ bookings' = [bookings EXCEPT ![r].payment = reserve[r].payment]
        /\ reserve' = [reserve EXCEPT ![r].pc = "done", ![r].booking = r]
        /\ UNCHANGED payCall
    BY <1>6, <2>1 DEF LinkPayment, callVars
  <2>3. /\ reserve'[r].pc = "done" /\ \A s \in Requests \ {r} : reserve'[s] = reserve[s]
        /\ \A s \in Requests : bookings'[s].status = bookings[s].status
    BY <1>1, <2>2 DEF ReserveType, BookingType
  <2> QED BY <2>2, <2>3, NoFaultFrame DEF Booked
<1>7. ~ReserveFail(r)
  BY DEF ReserveFail
<1> QED BY <1>2, <1>3, <1>4, <1>5, <1>6, <1>7 DEF ReserveStep

LEMMA BookingNoFault ==
  ASSUME SInv, NoFaultInv, ~Faults, BookingMove
  PROVE  NoFaultInv'
<1>1. CASE \E r \in Requests :
             \/ \E k \in Keys, e \in Events, q \in 0..MaxQty, m, u \in BOOLEAN : Submit(r, k, e, q, m, u)
             \/ ReserveStep(r) \/ ReserveFail(r)
  BY <1>1, ReserveNoFault
<1>2. CASE ~\E r \in Requests :
              \/ \E k \in Keys, e \in Events, q \in 0..MaxQty, m, u \in BOOLEAN : Submit(r, k, e, q, m, u)
              \/ ReserveStep(r) \/ ReserveFail(r)
  <2>1. UNCHANGED <<reserve, payCall>>
    BY <1>2 DEF BookingMove, BookingSystem, PublishInventory, ConfirmStep, ConfirmRead, IssueTickets,
                ConfirmDone, ConfirmFail, CancelRead, CancelStep, CancelRelease, CancelMark, CancelFail,
                callVars
  <2>2. \A b \in Requests : b \in Booked' => b \in Booked
    <3>1. CASE UNCHANGED bookings
      BY <3>1 DEF Booked
    <3>2. ASSUME NEW c \in Captures, IssueTickets(c) PROVE <2>2!:
      <4>1. confirm[c].booking \in Booked /\ bookings \in [Requests -> BookingType]
        BY <3>2 DEF IssueTickets, SInv, IInv, ConfirmInv, Booked, BookingTypeOK
      <4> QED BY <3>2, <4>1 DEF IssueTickets, Booked
    <3>3. ASSUME NEW x \in Cancels, CancelMark(x) PROVE <2>2!:
      <4>1. cancel[x].booking \in Booked /\ bookings \in [Requests -> BookingType]
        BY <3>3 DEF CancelMark, SInv, IInv, CancelInv, Booked, BookingTypeOK
      <4> QED BY <3>3, <4>1 DEF CancelMark, Booked
    <3> QED BY <1>2, <3>1, <3>2, <3>3
            DEF BookingMove, BookingSystem, PublishInventory, ConfirmStep, ConfirmRead,
                ConfirmDone, ConfirmFail, CancelRead, CancelStep, CancelRelease, CancelFail, storeVars
  <2> QED BY <2>1, <2>2, NoFaultFrame
<1> QED BY <1>1, <1>2

LEMMA PaymentNoFault ==
  ASSUME SInv, NoFaultInv, ~Faults, PaymentMove
  PROVE  NoFaultInv'
<1>1. UNCHANGED <<bookings, reserve>> /\ payCall \in [Requests -> PayCallType]
  BY DEF PaymentMove, bookingVars, SInv, IInv, BookingTypeOK, CallsTypeOK
<1>2. CASE UNCHANGED payCall
  BY <1>1, <1>2, NoFaultFrame DEF Booked
<1>3. ASSUME NEW r \in Requests, NEW a \in {"ok", "error"}, NEW p, ChargeAnswer(r, a, p),
             a = "error" => ~payCall[r].methodOk
      PROVE  NoFaultInv'
  <2>1. CASE payCall[r].st = "sent"
    <3>1. payCall' = [payCall EXCEPT ![r].st = a, ![r].payment = p]
      BY <1>1, <1>3, <2>1 DEF ChargeAnswer, Answer
    <3>2. /\ payCall'[r].st = a /\ payCall'[r].methodOk = payCall[r].methodOk
          /\ \A s \in Requests \ {r} : payCall'[s] = payCall[s]
      BY <1>1, <3>1 DEF PayCallType
    <3> QED BY <1>1, <1>3, <3>2, NoFaultFrame DEF Booked
  <2>2. CASE payCall[r].st # "sent"
    <3>1. payCall' = payCall
      BY <1>1, <1>3, <2>2 DEF ChargeAnswer, Answer, PayCallType
    <3> QED BY <1>2, <3>1
  <2> QED BY <2>1, <2>2
<1>4. ASSUME NEW r \in Requests, ChargeStep(r) \/ ChargeFail(r) PROVE NoFaultInv'
  <2>1. CASE ChargeLookup(r)
    <3>1. UNCHANGED payCall \/ \E p \in PaymentsWithKey(payCall[r].key) : ChargeAnswer(r, "ok", p)
      BY <2>1 DEF ChargeLookup
    <3> QED BY <1>2, <1>3, <3>1
  <2>2. CASE ChargeCheck(r)
    <3>1. PaymentsOfBooking(payCall[r].booking) = {}
      BY <2>2, NoOtherPayment DEF ChargeCheck
    <3>2. UNCHANGED payCall \/ (ChargeAnswer(r, "error", None) /\ ~payCall[r].methodOk)
      BY <2>2, <3>1 DEF ChargeCheck
    <3> QED BY <1>2, <1>3, <3>2
  <2>3. CASE ChargeInsert(r)
    <3>1. RowFree(payCall[r].booking, payCall[r].key)
      BY <2>3, NoOtherPayment DEF ChargeInsert, RowFree
    <3> QED BY <1>2, <2>3, <3>1 DEF ChargeInsert
  <2>4. CASE ChargeOutbox(r)
    BY <1>3, <2>4 DEF ChargeOutbox
  <2>5. ~ChargeFail(r)
    BY DEF ChargeFail
  <2> QED BY <1>4, <2>1, <2>2, <2>3, <2>4, <2>5 DEF ChargeStep
<1>5. ASSUME NEW c \in Captures, NEW p, CaptureRead(c, p) \/ CaptureStep(c) \/ CaptureFail(c)
      PROVE  UNCHANGED payCall
  BY <1>5 DEF CaptureRead, CaptureStep, CaptureCommit, CaptureDone, CaptureFail, callVars
<1> QED BY <1>2, <1>4, <1>5 DEF PaymentMove, PaymentSystem

LEMMA NextNoFaultInv ==
  ASSUME SInv, NoFaultInv, ~Faults, [Next]_vars
  PROVE  NoFaultInv'
<1>1. CASE NoticeMove \/ UNCHANGED vars
  <2>1. UNCHANGED <<bookings, reserve, payCall>>
    BY <1>1 DEF NoticeMove, NoticeSystem, NoticeStep, InsertNotice, MarkSent, NoticeFail,
                vars, bookingVars, callVars
  <2> QED BY <2>1, NoFaultFrame DEF Booked
<1>2. ~NetworkMove
  BY DEF NetworkMove, Drop, DropPay, DropConfirm, DropNotice
<1> QED BY <1>1, <1>2, BookingNoFault, PaymentNoFault DEF Next

(* Without faults a request that fails and leaves a pending booking behind *)
(* named a payment method that does not exist: the races of createBooking  *)
(* and createPayment leave none.                                           *)
THEOREM OnlyBadMethodsStrand == Spec => []StrandedOnlyByBadMethod
<1>1. CASE Faults
  <2>1. StrandedOnlyByBadMethod
    BY <1>1 DEF StrandedOnlyByBadMethod
  <2> QED BY <2>1, PTL
<1>2. CASE ~Faults
  <2>1. Init => NoFaultInv
    BY DEF Init, BookingInit, CallsInit, NoFaultInv, Booked
  <2>2. SInv /\ NoFaultInv /\ [Next]_vars => NoFaultInv'
    BY <1>2, NextNoFaultInv
  <2>3. NoFaultInv => StrandedOnlyByBadMethod
    BY DEF NoFaultInv, StrandedOnlyByBadMethod, Booked
  <2> QED BY <2>1, <2>2, <2>3, SagaInvariance, PTL DEF Spec
<1> QED BY <1>1, <1>2
=============================================================================
