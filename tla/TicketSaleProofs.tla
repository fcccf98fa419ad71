-------------------------- MODULE TicketSaleProofs --------------------------
(***************************************************************************)
(* Proofs that the booking, payment and notification services together     *)
(* implement the sale of tickets, and that what was proved of each service *)
(* holds in their composition.                                             *)
(***************************************************************************)
EXTENDS TicketSagaProofs, BookingLedgerProofs

-----------------------------------------------------------------------------
(* The notification service, which no other part of the invariant follows: *)
(* a notice stands for a call, and so for a batch of tickets.              *)
NoticeInv ==
  \A c \in Captures :
    /\ notify[c] = "idle" => notices[c] = "none"
    /\ notify[c] # "idle" => noticeCall[c] # "idle"

(* A call for a notice that was made is not unmade. *)
NoticesAsked == \A c \in Captures : noticeCall[c] # "idle" => noticeCall'[c] # "idle"

LEMMA NoticesStayAsked ==
  ASSUME SInv, [Next]_vars
  PROVE  NoticesAsked
<1>1. noticeCall \in [Captures -> CallState]
  BY DEF SInv, IInv, BookingTypeOK, CallsTypeOK
<1>2. CASE UNCHANGED noticeCall
  BY <1>2 DEF NoticesAsked
<1>3. ASSUME NEW c \in Captures, NEW st \in CallState \ {"idle"},
             noticeCall' = [noticeCall EXCEPT ![c] = st]
      PROVE  NoticesAsked
  BY <1>1, <1>3 DEF NoticesAsked
<1>4. CASE BookingMove
  <2>1. ASSUME NEW c \in Captures, IssueTickets(c) PROVE NoticesAsked
    BY <1>3, <2>1 DEF IssueTickets, CallState
  <2>2. ASSUME NEW r \in Requests,
               \/ \E k \in Keys, e \in Events, q \in 0..MaxQty, m, u \in BOOLEAN : Submit(r, k, e, q, m, u)
               \/ ReserveStep(r) \/ ReserveFail(r)
        PROVE  UNCHANGED noticeCall
    <3>1. CASE LookupKey(r) \/ ReadInventory(r) \/ DecrementSeats(r)
      BY <3>1 DEF LookupKey, ReadInventory, DecrementSeats, callVars
    <3>2. CASE CreateBooking(r)
      BY <3>2 DEF CreateBooking
    <3>3. CASE PaymentAnswered(r) \/ LinkPayment(r)
      BY <3>3 DEF PaymentAnswered, LinkPayment, callVars
    <3>4. CASE ReserveFail(r)
      BY <3>4 DEF ReserveFail, callVars
    <3>5. ASSUME NEW k \in Keys, NEW e \in Events, NEW q \in 0..MaxQty, NEW m \in BOOLEAN,
                 NEW u \in BOOLEAN, Submit(r, k, e, q, m, u)
          PROVE  UNCHANGED noticeCall
      BY <3>5 DEF Submit, callVars
    <3> QED BY <2>2, <3>1, <3>2, <3>3, <3>4, <3>5 DEF ReserveStep
  <2>3. ASSUME NEW c \in Captures, ConfirmStep(c) \/ ConfirmFail(c), ~IssueTickets(c)
        PROVE  UNCHANGED noticeCall
    BY <2>3 DEF ConfirmStep, ConfirmRead, ConfirmDone, ConfirmFail
  <2>4. ASSUME \/ \E e \in Events, n \in SeatCounts : PublishInventory(e, n)
               \/ \E x \in Cancels : \/ \E b \in Requests : CancelRead(x, b)
                                    \/ CancelStep(x) \/ CancelFail(x)
        PROVE  UNCHANGED noticeCall
    BY <2>4 DEF PublishInventory, CancelRead, CancelStep, CancelRelease, CancelMark, CancelFail, callVars
  <2> QED BY <1>2, <1>4, <2>1, <2>2, <2>3, <2>4 DEF BookingMove, BookingSystem
<1>5. CASE PaymentMove
  BY <1>2, <1>5 DEF PaymentMove, PaymentSystem, ChargeStep, ChargeLookup, ChargeCheck, ChargeInsert,
     ChargeOutbox, ChargeFail, CaptureRead, CaptureStep, CaptureCommit, CaptureDone, CaptureFail, callVars
<1>6. ASSUME NEW c \in Captures, NoticeStep(c) \/ NoticeFail(c) PROVE NoticesAsked
  <2>1. ASSUME NEW a \in {"ok", "error"}, noticeCall' = [noticeCall EXCEPT ![c] = Answer(@, a)]
        PROVE  NoticesAsked
    BY <1>1, <2>1 DEF NoticesAsked, Answer
  <2> QED BY <1>2, <1>6, <2>1 DEF NoticeStep, InsertNotice, MarkSent, NoticeFail, callVars
<1>7. CASE NetworkMove
  BY <1>1, <1>2, <1>7 DEF NetworkMove, Drop, DropPay, DropConfirm, DropNotice, NoticesAsked
<1>8. CASE UNCHANGED vars
  BY <1>2, <1>8 DEF vars, callVars
<1> QED BY <1>4, <1>5, <1>6, <1>7, <1>8 DEF Next, NoticeMove, NoticeSystem

LEMMA NextNoticeInv ==
  ASSUME SInv, NoticeInv, [Next]_vars
  PROVE  NoticeInv'
<1>1. NoticesAsked
  BY NoticesStayAsked
<1>2. CASE UNCHANGED noticeVars
  BY <1>1, <1>2 DEF noticeVars, NoticeInv, NoticesAsked
<1>3. ASSUME NEW c \in Captures, NoticeStep(c) \/ NoticeFail(c) PROVE NoticeInv'
  <2>1. /\ notices \in [Captures -> {"none", "PENDING", "SENT"}]
        /\ notify \in [Captures -> {"idle", "deliver", "done", "failed"}]
    BY DEF SInv, NoticeTypeOK
  <2>2. noticeCall[c] # "idle"
    BY <1>3 DEF NoticeStep, InsertNotice, MarkSent, NoticeFail, Deliverable, NoticeInv
  <2>3. /\ notify'[c] # "idle"
        /\ \A d \in Captures \ {c} : notify'[d] = notify[d] /\ notices'[d] = notices[d]
    BY <1>3, <2>1 DEF NoticeStep, InsertNotice, MarkSent, NoticeFail
  <2> QED BY <1>1, <2>2, <2>3 DEF NoticeInv, NoticesAsked
<1> QED
  BY <1>2, <1>3 DEF Next, BookingMove, PaymentMove, NetworkMove, NoticeMove, NoticeSystem, vars

-----------------------------------------------------------------------------
(* The sale as the services' variables show it: found by its booking, a    *)
(* payment is the row with the booking's own id.                           *)
Orders == [b \in Requests |-> [key |-> bookings[b].key, event |-> bookings[b].event,
                               seats |-> bookings[b].qty]]
Charged == {b \in Requests : PaymentsOfBooking(b) # {}}
Offered == {b \in Requests : bookings[b].payment # None}
Captured == [b \in Requests |->
               IF bookings[b].payment = None THEN 0 ELSE paymentLog[bookings[b].payment]]
Noticed == {b \in Requests : \E c \in Captures : confirm[c].booking = b /\ notices[c] = "SENT"}

LinkedRows == {b \in Requests : bookings[b].payment = b}

LEMMA SaleSeen ==
  ASSUME SInv
  PROVE  Charged = Paid /\ Offered = LinkedRows /\ Captured = paymentLog
<1>1. Charged = Paid
  <2>1. \A p \in Paid : p \in Requests /\ payments[p].booking = p
    BY PaymentOfItsBooking
  <2> QED BY <2>1 DEF Charged, PaymentsOfBooking, Paid
<1>2. \A b \in Requests : bookings[b].payment \in {None, b} /\ b # None
  BY IdsAssumption DEF SInv, Linked, RowLinkInv
<1>3. Offered = LinkedRows
  BY <1>2 DEF Offered, LinkedRows
<1>4. Captured = paymentLog
  <2>1. paymentLog \in [Requests -> Nat]
    BY DEF SInv, PInv, PaymentTypeOK
  <2>2. ASSUME NEW b \in Requests, bookings[b].payment = None PROVE paymentLog[b] = 0
    <3>1. Logged(b) = {}
      BY <1>2, <2>2, CallOfPayment DEF Logged
    <3>2. paymentLog[b] = Cardinality(Logged(b))
      BY DEF SInv, Linked, CountInv
    <3> QED BY <3>1, <3>2, FS_EmptySet
  <2>3. \A b \in Requests : Captured[b] = paymentLog[b]
    BY <1>2, <2>2 DEF Captured
  <2> QED BY <2>1, <2>3 DEF Captured
<1> QED BY <1>1, <1>3, <1>4

LEMMA SaleStillSeen ==
  SInv' => (Charged = Paid /\ Offered = LinkedRows /\ Captured = paymentLog)'
<1>1. SInv => Charged = Paid /\ Offered = LinkedRows /\ Captured = paymentLog
  BY SaleSeen
<1> QED BY <1>1, PTL

(* A step of the sale, in these terms. *)
SaleVars == <<Booked, Orders, Charged, Offered, Captured, tickets, Noticed>>

LEMMA SaleVarsAre == UNCHANGED SaleVars => UNCHANGED Sale!saleVars
BY DEF SaleVars, Sale!saleVars, Orders, Charged, Offered, Captured, Noticed

(* What a step leaves of the rows that the sale shows. *)
RowsSame ==
  \A b \in Requests :
    /\ bookings'[b].key = bookings[b].key /\ bookings'[b].event = bookings[b].event
    /\ bookings'[b].qty = bookings[b].qty /\ bookings'[b].payment = bookings[b].payment
    /\ bookings'[b].status = "none" <=> bookings[b].status = "none"
PaymentsSame == \A b \in Requests : payments'[b].status = "none" <=> payments[b].status = "none"

LEMMA RowsSameOrders ==
  ASSUME RowsSame
  PROVE  Booked' = Booked /\ Orders' = Orders /\ LinkedRows' = LinkedRows
BY DEF RowsSame, Booked, Orders, LinkedRows

LEMMA Stutters ==
  ASSUME SInv, SInv', RowsSame, PaymentsSame, UNCHANGED <<paymentLog, tickets, Noticed>>
  PROVE  UNCHANGED Sale!saleVars
<1>1. Paid' = Paid
  BY DEF PaymentsSame, Paid
<1> QED BY <1>1, RowsSameOrders, SaleSeen, SaleStillSeen, SaleVarsAre DEF SaleVars

(* One order's step is a step of the sale. *)
LEMMA StepOfOrder ==
  ASSUME NEW o \in Requests,
         \/ Sale!Charge(o) \/ Sale!Offer(o) \/ Sale!Capture(o) \/ Sale!Issue(o) \/ Sale!Notify(o)
         \/ \E k \in Keys, e \in Events, n \in 1..MaxQty : Sale!Place(o, k, e, n)
  PROVE  Sale!SaleNext
BY DEF Sale!SaleNext

(* createBooking inserts a row. *)
LEMMA PlaceStep ==
  ASSUME SInv, SInv', NEW r \in Requests, CreateBooking(r), UNCHANGED <<paymentVars, noticeVars>>
  PROVE  [Sale!SaleNext]_(Sale!saleVars)
<1> DEFINE k == reserve[r].key  e == reserve[r].event  n == reserve[r].qty
           row == [status |-> "PENDING", event |-> e, qty |-> n, key |-> k, payment |-> None]
<1>1. /\ bookings \in [Requests -> BookingType] /\ bookings[r].status = "none"
      /\ k \in Keys /\ e \in Events /\ n \in 1..MaxQty /\ r # None
      /\ \A b \in Requests : bookings[b].payment \in {None, b}
  BY IdsAssumption, MaxQtyAssumption
     DEF CreateBooking, SInv, Linked, RowLinkInv, IInv, ReserveInv, InFlight, BookingTypeOK, ReserveType
<1>2. UNCHANGED <<tickets, confirm, payments, paymentLog, notices>>
  BY DEF CreateBooking, paymentVars, noticeVars
<1>3. Paid' = Paid /\ Noticed' = Noticed
  BY <1>2 DEF Paid, Noticed
<1>4. CASE ~Insertable(r)
  <2>1. RowsSame /\ PaymentsSame
    BY <1>2, <1>4 DEF CreateBooking, RowsSame, PaymentsSame
  <2> QED BY <1>2, <1>3, <2>1, Stutters
<1>5. CASE Insertable(r)
  <2>1. bookings' = [bookings EXCEPT ![r] = row]
    BY <1>5 DEF CreateBooking
  <2>2. Booked' = Booked \cup {r} /\ r \notin Booked
    BY <1>1, <2>1 DEF Booked
  <2>3. Orders' = [Orders EXCEPT ![r] = [key |-> k, event |-> e, seats |-> n]]
    BY <1>1, <2>1 DEF Orders
  <2>4. \A p \in Booked : Orders[p].key # k
    <3> SUFFICES ASSUME NEW p \in Booked PROVE Orders[p].key # k
      OBVIOUS
    <3>1. bookings[p].key # k
      BY <1>5 DEF Insertable, KeyFree, BookedWithKey
    <3>2. p \in Requests
      BY DEF Booked
    <3>3. Orders[p].key = bookings[p].key
      BY <3>2 DEF Orders
    <3> QED BY <3>1, <3>3
  <2>5. LinkedRows' = LinkedRows
    <3>1. bookings[r].payment # r
      BY <1>1, <2>2, IdsAssumption DEF SInv, Linked, RowLinkInv
    <3> QED BY <1>1, <2>1, <3>1 DEF LinkedRows
  <2>6. UNCHANGED <<Charged, Offered, Captured, tickets, Noticed>>
    BY <1>2, <1>3, <2>5, SaleSeen, SaleStillSeen
  <2>7. PICK kk \in Keys, ee \in Events, nn \in 1..MaxQty : kk = k /\ ee = e /\ nn = n
    BY <1>1
  <2>8. Sale!Place(r, kk, ee, nn)
    BY <2>2, <2>3, <2>4, <2>6, <2>7 DEF Sale!Place, Orders, Charged, Offered, Captured, Noticed
  <2> QED BY <2>8, StepOfOrder
<1> QED BY <1>4, <1>5

(* createPayment inserts a row. *)
LEMMA ChargeStepOfSale ==
  ASSUME SInv, SInv', NEW r \in Requests, ChargeStep(r) \/ ChargeFail(r), UNCHANGED <<bookingVars, noticeVars>>
  PROVE  [Sale!SaleNext]_(Sale!saleVars)
<1>1. /\ UNCHANGED <<bookings, tickets, confirm, paymentLog, notices>>
      /\ payments \in [Requests -> PaymentType]
  BY DEF bookingVars, noticeVars, paymentStore, ChargeStep, ChargeLookup, ChargeCheck, ChargeInsert,
         ChargeOutbox, ChargeFail, SInv, PInv, PaymentTypeOK
<1>2. RowsSame /\ Noticed' = Noticed
  BY <1>1 DEF RowsSame, Noticed
<1>3. CASE UNCHANGED payments
  BY <1>1, <1>2, <1>3, Stutters DEF PaymentsSame
<1>4. CASE ChargeInsert(r) /\ payments' # payments
  <2>1. /\ payments' = [payments EXCEPT ![r] =
             [status |-> "PENDING", booking |-> payCall[r].booking, key |-> payCall[r].key]]
        /\ payments[r].status = "none" /\ payCall[r].st # "idle"
    BY <1>4 DEF ChargeInsert, SInv, PInv, ChargeInv
  <2>2. r \in Booked /\ r \notin Paid /\ Paid' = Paid \cup {r}
    BY <1>1, <2>1 DEF SInv, Linked, RequestInv, Paid
  <2>3. UNCHANGED <<Booked, Orders, Offered, Captured, tickets, Noticed>> /\ Charged' = Charged \cup {r}
    BY <1>1, <1>2, <2>2, RowsSameOrders, SaleSeen, SaleStillSeen
  <2>4. r \notin Charged
    BY <2>2, SaleSeen
  <2>5. Sale!Charge(r)
    BY <2>2, <2>3, <2>4 DEF Sale!Charge, Orders, Charged, Offered, Captured, Noticed
  <2> QED BY <2>5, StepOfOrder
<1> QED BY <1>3, <1>4 DEF ChargeStep, ChargeLookup, ChargeCheck, ChargeInsert, ChargeOutbox, ChargeFail,
                          paymentStore

(* createBooking links the row to its payment. *)
LEMMA OfferStep ==
  ASSUME SInv, SInv', NEW r \in Requests, LinkPayment(r), UNCHANGED <<paymentVars, noticeVars>>
  PROVE  [Sale!SaleNext]_(Sale!saleVars)
<1>1. /\ UNCHANGED <<tickets, confirm, payments, paymentLog, notices>>
      /\ bookings \in [Requests -> BookingType]
      /\ reserve[r].payment = r /\ payCall[r].st = "ok" /\ payCall[r].payment = r
  BY DEF LinkPayment, paymentVars, noticeVars, SInv, Linked, RequestInv, IInv, BookingTypeOK
<1>2. r \in Paid
  BY <1>1 DEF SInv, PInv, AnswerInv
<1>3. Paid' = Paid /\ Noticed' = Noticed /\ PaymentsSame
  BY <1>1 DEF Paid, Noticed, PaymentsSame
<1>4. CASE UNCHANGED bookings
  BY <1>1, <1>3, <1>4, Stutters DEF RowsSame
<1>5. CASE bookings' = [bookings EXCEPT ![r].payment = r]
  <2>1. Booked' = Booked /\ Orders' = Orders
    BY <1>1, <1>5 DEF Booked, Orders, BookingType
  <2>2. LinkedRows' = LinkedRows \cup {r}
    BY <1>1, <1>5 DEF LinkedRows, BookingType
  <2>3. /\ UNCHANGED <<Booked, Orders, Charged, Captured, tickets, Noticed>>
        /\ Offered' = Offered \cup {r} /\ r \in Charged
    BY <1>1, <1>2, <1>3, <2>1, <2>2, SaleSeen, SaleStillSeen
  <2>4. Sale!Offer(r)
    BY <2>3 DEF Sale!Offer, Orders, Charged, Offered, Captured, Noticed
  <2> QED BY <2>4, StepOfOrder
<1> QED BY <1>1, <1>4, <1>5 DEF LinkPayment

(* capturePayment completes and logs. *)
LEMMA CaptureStepOfSale ==
  ASSUME SInv, SInv', NEW c \in Captures, CaptureCommit(c), UNCHANGED <<bookingVars, noticeVars>>,
         ~Overlap => SerialInv'
  PROVE  [Sale!SaleNext]_(Sale!saleVars)
<1> DEFINE p == capture[c].payment
<1>1. /\ UNCHANGED <<bookings, tickets, confirm, notices>>
      /\ payments \in [Requests -> PaymentType] /\ paymentLog \in [Requests -> Nat]
      /\ p \in Requests /\ p \in Paid /\ bookings[p].payment = p
      /\ payments' = [payments EXCEPT ![p].status = "COMPLETED"]
      /\ paymentLog' = [paymentLog EXCEPT ![p] = @ + 1]
  BY CallOfPayment DEF CaptureCommit, bookingVars, noticeVars, SInv, Linked, CallInv, PInv, PaymentTypeOK,
                       CaptureInv
<1>2. RowsSame /\ Noticed' = Noticed
  BY <1>1 DEF RowsSame, Noticed
<1>3. Paid' = Paid
  BY <1>1 DEF Paid, PaymentType
<1>4. UNCHANGED <<Booked, Orders, Charged, Offered, tickets, Noticed>>
  BY <1>1, <1>2, <1>3, RowsSameOrders, SaleSeen, SaleStillSeen
<1>5. Captured' = [Captured EXCEPT ![p] = @ + 1] /\ p \in Offered
  BY <1>1, SaleSeen, SaleStillSeen DEF LinkedRows
<1>6. ~Overlap => Captured[p] = 0
  <2> SUFFICES ASSUME ~Overlap PROVE paymentLog[p] = 0
    BY SaleSeen
  <2>1. paymentLog'[p] \in {0, 1} /\ paymentLog'[p] = paymentLog[p] + 1 /\ paymentLog[p] \in Nat
    BY <1>1 DEF SerialInv
  <2> QED BY <2>1
<1>7. PICK o \in Requests : o = p
  BY <1>1
<1>8. Sale!Capture(o)
  BY <1>4, <1>5, <1>6, <1>7 DEF Sale!Capture, Orders, Charged, Offered, Captured, Noticed
<1> QED BY <1>8, StepOfOrder

(* What the sale's guard of a batch asks of the counters. *)
LEMMA BatchesCovered ==
  ASSUME SInv, NEW b \in Requests
  PROVE  tickets[b] <= bookings[b].qty * paymentLog[b]
<1>1. /\ tickets[b] = bookings[b].qty * Cardinality(Issued(b))
      /\ paymentLog[b] = Cardinality(Logged(b)) /\ bookings[b].qty \in Nat
  BY MaxQtyAssumption DEF SInv, Linked, CountInv, TicketsFor, IInv, BookingTypeOK, BookingType
<1>2. \A q, i, l \in Nat : i <= l => q * i <= q * l
  OBVIOUS
<1> QED BY <1>1, <1>2, IssuedAreLogged

LEMMA BatchesStillCovered ==
  SInv' => (\A b \in Requests : tickets[b] <= bookings[b].qty * paymentLog[b])'
<1>1. SInv => \A b \in Requests : tickets[b] <= bookings[b].qty * paymentLog[b]
  BY BatchesCovered
<1> QED BY <1>1, PTL

(* confirmBooking issues tickets. *)
LEMMA IssueStep ==
  ASSUME SInv, SInv', NoticeInv, NEW c \in Captures, IssueTickets(c), UNCHANGED <<paymentVars, noticeVars>>
  PROVE  [Sale!SaleNext]_(Sale!saleVars)
<1> DEFINE b == confirm[c].booking
<1>1. /\ UNCHANGED <<payments, paymentLog, notices>>
      /\ bookings \in [Requests -> BookingType] /\ confirm \in [Captures -> ConfirmType]
      /\ tickets \in [Requests -> Nat]
      /\ b \in Requests /\ bookings[b].status # "none" /\ bookings[b].payment = b
      /\ bookings' = [bookings EXCEPT ![b].status = "CONFIRMED"]
      /\ tickets' = [tickets EXCEPT ![b] = @ + TicketsFor(b)]
      /\ confirm' = [confirm EXCEPT ![c].pc = "notify"]
  BY CallOfPayment DEF IssueTickets, paymentVars, noticeVars, SInv, IInv, BookingTypeOK, ConfirmInv
<1>2. RowsSame
  BY <1>1 DEF RowsSame, BookingType
<1>3. Noticed' = Noticed /\ Paid' = Paid
  BY <1>1 DEF Noticed, Paid, ConfirmType
<1>4. UNCHANGED <<Booked, Orders, Charged, Offered, Captured, Noticed>>
  BY <1>1, <1>2, <1>3, RowsSameOrders, SaleSeen, SaleStillSeen
<1>5. Orders[b].seats = TicketsFor(b) /\ bookings'[b].qty = TicketsFor(b) /\ Captured[b] = paymentLog[b]
  BY <1>1, <1>2, SaleSeen DEF Orders, TicketsFor, RowsSame
<1>6. tickets[b] + Orders[b].seats <= Orders[b].seats * Captured[b]
  <2>1. tickets'[b] <= bookings'[b].qty * paymentLog'[b]
    BY <1>1, BatchesStillCovered
  <2> QED BY <1>1, <1>5, <2>1
<1>7. tickets' = [tickets EXCEPT ![b] = @ + Orders[b].seats] /\ b \in Offered
  BY <1>1, <1>5, SaleSeen DEF LinkedRows
<1>8. PICK o \in Requests : o = b
  BY <1>1
<1>9. Sale!Issue(o)
  BY <1>4, <1>6, <1>7, <1>8 DEF Sale!Issue, Orders, Charged, Offered, Captured, Noticed
<1> QED BY <1>9, StepOfOrder

(* sendBookingConfirmation marks a notice sent. *)
LEMMA NotifyStep ==
  ASSUME SInv, SInv', NoticeInv, NEW c \in Captures, NoticeStep(c) \/ NoticeFail(c),
         UNCHANGED <<bookingVars, paymentVars>>
  PROVE  [Sale!SaleNext]_(Sale!saleVars)
<1> DEFINE b == confirm[c].booking
<1>1. /\ UNCHANGED <<bookings, tickets, confirm, payments, paymentLog>>
      /\ notices \in [Captures -> {"none", "PENDING", "SENT"}]
  BY DEF bookingVars, paymentVars, SInv, NoticeTypeOK
<1>2. RowsSame /\ PaymentsSame
  BY <1>1 DEF RowsSame, PaymentsSame
<1>3. CASE InsertNotice(c) \/ NoticeFail(c)
  <2>1. notices' = notices \/ (notices' = [notices EXCEPT ![c] = "PENDING"] /\ notices[c] = "none")
    BY <1>3 DEF InsertNotice, NoticeFail, NoticeInv
  <2>2. Noticed' = Noticed
    BY <1>1, <2>1 DEF Noticed
  <2> QED BY <1>1, <1>2, <2>2, Stutters
<1>4. CASE MarkSent(c)
  <2>1. notices' = [notices EXCEPT ![c] = "SENT"] /\ noticeCall[c] # "idle"
    BY <1>4 DEF MarkSent, NoticeInv
  <2>2. c \in Issued(b) /\ b \in Requests /\ bookings[b].status # "none"
    BY <2>1, CallOfPayment DEF Issued, Booked
  <2>3. tickets[b] > 0
    <3>1. IsFiniteSet(Issued(b)) /\ Cardinality(Issued(b)) \in Nat
      BY <2>2, IssuedAreLogged, FS_Subset
    <3>2. Cardinality(Issued(b)) # 0
      BY <2>2, <3>1, FS_EmptySet
    <3>3. bookings[b].qty \in Nat /\ bookings[b].qty >= 1
      BY <2>2, MaxQtyAssumption
         DEF SInv, IInv, BookingInv, ReserveInv, BookingTypeOK, BookingType
    <3>4. \A q, i, l \in Nat : i <= l => q * i <= q * l
      OBVIOUS
    <3>5. bookings[b].qty * 1 <= bookings[b].qty * Cardinality(Issued(b))
      BY <3>1, <3>2, <3>3, <3>4
    <3>6. tickets[b] = bookings[b].qty * Cardinality(Issued(b))
      BY <2>2 DEF SInv, Linked, CountInv, TicketsFor
    <3> QED BY <3>1, <3>3, <3>5, <3>6
  <2>4. Noticed' = Noticed \cup {b}
    BY <1>1, <2>1, <2>2 DEF Noticed
  <2>5. Paid' = Paid
    BY <1>1 DEF Paid
  <2>6. UNCHANGED <<Booked, Orders, Charged, Offered, Captured, tickets>>
    BY <1>1, <1>2, <2>5, RowsSameOrders, SaleSeen, SaleStillSeen
  <2>7. PICK o \in Requests : o = b
    BY <2>2
  <2>8. Sale!Notify(o)
    BY <2>3, <2>4, <2>6, <2>7 DEF Sale!Notify, Orders, Charged, Offered, Captured, Noticed
  <2> QED BY <2>8, StepOfOrder
<1> QED BY <1>3, <1>4 DEF NoticeStep

-----------------------------------------------------------------------------
(* What is left shows no change of the sale. *)
LEMMA BookingStutters ==
  ASSUME SInv, SInv', BookingMove,
         \A r \in Requests : ~CreateBooking(r) /\ ~LinkPayment(r),
         \A c \in Captures : ~IssueTickets(c) /\ ~ConfirmStep(c) /\ ~ConfirmFail(c)
  PROVE  UNCHANGED Sale!saleVars
<1>1. /\ UNCHANGED <<payments, paymentLog, notices>> /\ bookings \in [Requests -> BookingType]
      /\ PaymentsSame
  BY DEF BookingMove, paymentVars, noticeVars, SInv, IInv, BookingTypeOK, PaymentsSame
<1>2. ASSUME UNCHANGED <<bookings, tickets, confirm>> PROVE UNCHANGED Sale!saleVars
  <2>1. RowsSame /\ Noticed' = Noticed
    BY <1>1, <1>2 DEF RowsSame, Noticed
  <2> QED BY <1>1, <1>2, <2>1, Stutters
<1>3. ASSUME NEW r \in Requests,
             \/ \E k \in Keys, e \in Events, q \in 0..MaxQty, m, u \in BOOLEAN : Submit(r, k, e, q, m, u)
             \/ ReserveStep(r) \/ ReserveFail(r)
      PROVE  UNCHANGED <<bookings, tickets, confirm>>
  <2>1. CASE LookupKey(r) \/ ReadInventory(r) \/ DecrementSeats(r)
    BY <2>1 DEF LookupKey, ReadInventory, DecrementSeats, storeVars
  <2>2. CASE PaymentAnswered(r) \/ ReserveFail(r)
    BY <2>2 DEF PaymentAnswered, ReserveFail, storeVars
  <2>3. ASSUME NEW k \in Keys, NEW e \in Events, NEW q \in 0..MaxQty, NEW m \in BOOLEAN,
               NEW u \in BOOLEAN, Submit(r, k, e, q, m, u)
        PROVE  UNCHANGED <<bookings, tickets, confirm>>
    BY <2>3 DEF Submit, storeVars
  <2> QED BY <1>3, <2>1, <2>2, <2>3 DEF ReserveStep
<1>4. ASSUME \/ \E e \in Events, n \in SeatCounts : PublishInventory(e, n)
             \/ \E x \in Cancels : \/ \E b \in Requests : CancelRead(x, b)
                                  \/ CancelRelease(x) \/ CancelFail(x)
      PROVE  UNCHANGED <<bookings, tickets, confirm>>
  BY <1>4 DEF PublishInventory, CancelRead, CancelRelease, CancelFail, storeVars
<1>5. ASSUME NEW x \in Cancels, CancelMark(x) PROVE UNCHANGED Sale!saleVars
  <2>1. /\ cancel[x].booking \in Requests /\ bookings[cancel[x].booking].status # "none"
        /\ bookings' = [bookings EXCEPT ![cancel[x].booking].status = "CANCELLED"]
        /\ UNCHANGED <<tickets, confirm>>
    BY <1>5 DEF CancelMark, SInv, IInv, CancelInv
  <2>2. RowsSame /\ Noticed' = Noticed
    BY <1>1, <2>1 DEF RowsSame, Noticed, BookingType
  <2> QED BY <1>1, <2>1, <2>2, Stutters
<1> QED BY <1>2, <1>3, <1>4, <1>5 DEF BookingMove, BookingSystem, CancelStep

(* A confirm that starts names its booking, but has no notice yet. *)
LEMMA ConfirmStutters ==
  ASSUME SInv, SInv', NoticeInv, NEW c \in Captures,
         ConfirmRead(c) \/ ConfirmDone(c) \/ ConfirmFail(c), UNCHANGED <<paymentVars, noticeVars>>
  PROVE  UNCHANGED Sale!saleVars
<1>1. /\ UNCHANGED <<bookings, tickets, payments, paymentLog, notices>>
      /\ confirm \in [Captures -> ConfirmType]
  BY DEF ConfirmRead, ConfirmDone, ConfirmFail, storeVars, paymentVars, noticeVars, SInv, IInv, BookingTypeOK
<1>2. RowsSame /\ PaymentsSame
  BY <1>1 DEF RowsSame, PaymentsSame
<1>3. \A d \in Captures \ {c} : confirm'[d] = confirm[d]
  BY <1>1 DEF ConfirmRead, ConfirmDone, ConfirmFail
<1>4. CASE ConfirmRead(c)
  <2>1. notices[c] = "none"
    BY <1>4, CallOfPayment DEF ConfirmRead, SInv, Linked, CallInv, NoticeInv
  <2>2. Noticed' = Noticed
    BY <1>1, <1>3, <2>1 DEF Noticed
  <2> QED BY <1>1, <1>2, <2>2, Stutters
<1>5. CASE ConfirmDone(c) \/ ConfirmFail(c)
  <2>1. confirm'[c].booking = confirm[c].booking
    BY <1>1, <1>5 DEF ConfirmDone, ConfirmFail, ConfirmType
  <2>2. Noticed' = Noticed
    BY <1>1, <1>3, <2>1 DEF Noticed
  <2> QED BY <1>1, <1>2, <2>2, Stutters
<1> QED BY <1>4, <1>5

LEMMA PaymentStutters ==
  ASSUME SInv, SInv', UNCHANGED <<bookingVars, noticeVars, paymentStore>>
  PROVE  UNCHANGED Sale!saleVars
<1>1. UNCHANGED <<bookings, tickets, confirm, payments, paymentLog, notices>>
  BY DEF bookingVars, noticeVars, paymentStore
<1>2. RowsSame /\ PaymentsSame /\ Noticed' = Noticed
  BY <1>1 DEF RowsSame, PaymentsSame, Noticed
<1> QED BY <1>1, <1>2, Stutters

(* Every step of the services is a step of the sale, or shows none. *)
LEMMA SaleSteps ==
  ASSUME SInv, SInv', NoticeInv, ~Overlap => SerialInv', [Next]_vars
  PROVE  [Sale!SaleNext]_(Sale!saleVars)
<1>1. CASE BookingMove
  <2>1. UNCHANGED <<paymentVars, noticeVars>>
    BY <1>1 DEF BookingMove
  <2>2. ASSUME NEW r \in Requests, CreateBooking(r) \/ LinkPayment(r)
        PROVE  [Sale!SaleNext]_(Sale!saleVars)
    BY <2>1, <2>2, PlaceStep, OfferStep
  <2>3. ASSUME NEW c \in Captures, IssueTickets(c) \/ ConfirmStep(c) \/ ConfirmFail(c)
        PROVE  [Sale!SaleNext]_(Sale!saleVars)
    BY <2>1, <2>3, IssueStep, ConfirmStutters DEF ConfirmStep
  <2> QED BY <1>1, <2>2, <2>3, BookingStutters
<1>2. CASE PaymentMove
  <2>1. UNCHANGED <<bookingVars, noticeVars>>
    BY <1>2 DEF PaymentMove
  <2>2. ASSUME NEW r \in Requests, ChargeStep(r) \/ ChargeFail(r)
        PROVE  [Sale!SaleNext]_(Sale!saleVars)
    BY <2>1, <2>2, ChargeStepOfSale
  <2>3. ASSUME NEW c \in Captures, CaptureCommit(c)
        PROVE  [Sale!SaleNext]_(Sale!saleVars)
    BY <2>1, <2>3, CaptureStepOfSale
  <2>4. ASSUME NEW c \in Captures, (\E p \in KnownPayments : CaptureRead(c, p)) \/ CaptureDone(c) \/ CaptureFail(c)
        PROVE  [Sale!SaleNext]_(Sale!saleVars)
    <3>1. UNCHANGED paymentStore
      BY <2>4 DEF CaptureRead, CaptureDone, CaptureFail
    <3> QED BY <2>1, <3>1, PaymentStutters
  <2> QED BY <1>2, <2>2, <2>3, <2>4 DEF PaymentMove, PaymentSystem, CaptureStep
<1>3. CASE NoticeMove
  BY <1>3, NotifyStep DEF NoticeMove, NoticeSystem
<1>4. CASE NetworkMove \/ UNCHANGED vars
  <2>1. UNCHANGED <<bookingVars, noticeVars, paymentStore>>
    BY <1>4 DEF NetworkMove, vars, paymentVars, paymentStore
  <2> QED BY <2>1, PaymentStutters
<1> QED BY <1>1, <1>2, <1>3, <1>4 DEF Next

LEMMA SaleStarts == Init => Sale!SaleInit
<1> SUFFICES ASSUME Init PROVE Sale!SaleInit
  OBVIOUS
<1>1. /\ \A b \in Requests : /\ bookings[b].status = "none" /\ bookings[b].key = None
                             /\ bookings[b].event = None /\ bookings[b].qty = 0
                             /\ bookings[b].payment = None /\ payments[b].status = "none"
      /\ tickets = [b \in Requests |-> 0]
      /\ \A c \in Captures : notices[c] = "none"
  BY DEF Init, BookingInit, PaymentInit, NoticeInit
<1> QED BY <1>1 DEF Sale!SaleInit, Booked, Paid, PaymentsOfBooking

(* The three services implement the sale: orders under keys of their own,  *)
(* one charge each, captures only of payments a client was told of, never  *)
(* more batches of tickets than captures, notices only of tickets issued - *)
(* and one capture each, when clients do not overlap theirs.               *)
THEOREM SagaImplementsSale == Spec => ImplementsSale
<1>1. Init => Sale!SaleInit /\ NoticeInv /\ SerialInv
  BY SaleStarts DEF Init, PaymentInit, NoticeInit, NoticeInv, SerialInv
<1>2. SInv /\ NoticeInv /\ [Next]_vars => NoticeInv'
  BY NextNoticeInv
<1>3. CASE Overlap
  <2>1. SInv /\ SInv' /\ NoticeInv /\ [Next]_vars => [Sale!SaleNext]_(Sale!saleVars)
    BY <1>3, SaleSteps
  <2> QED BY <1>1, <1>2, <2>1, SagaInvariance, PTL DEF Spec, ImplementsSale, Sale!SaleSpec
<1>4. CASE ~Overlap
  <2>1. SInv /\ SerialInv /\ [Next]_vars => SerialInv'
    BY <1>4, NextSerialInv
  <2>2. SInv /\ SInv' /\ SerialInv' /\ NoticeInv /\ [Next]_vars => [Sale!SaleNext]_(Sale!saleVars)
    BY SaleSteps
  <2> QED BY <1>1, <1>2, <2>1, <2>2, SagaInvariance, PTL DEF Spec, ImplementsSale, Sale!SaleSpec
<1> QED BY <1>3, <1>4

-----------------------------------------------------------------------------
(* What was proved of each service against any environment that keeps to   *)
(* its calls holds when the other services are that environment.           *)

(* With payments and notifications around it, the booking service keeps    *)
(* its seats accounted for, its keys to one booking each and one winner    *)
(* per version, and takes no seats for a retry.                            *)
THEOREM SagaKeepsBookings ==
  /\ Spec => [](SeatConservation /\ KeyNamesOneBooking /\ OneWinnerPerVersion)
  /\ Spec => RetriesTakeNoSeats
<1>1. Spec => BookingSpec
  BY SagaRunsBookingService DEF RunsBookingService
<1> QED BY <1>1, SeatsConserved, KeyIdempotent, OptimisticLock, RetriesKeepSeats, PTL

(* With bookings and captures around it, the payment service charges a     *)
(* booking once and a key once, and its outbox tells of what it stored.    *)
THEOREM SagaKeepsPayments ==
  Spec => [](OnePaymentPerBooking /\ OnePaymentPerKey /\ OutboxTellsOfPayments)
BY SagaRunsPaymentService, NeverChargedTwice, PaymentIdempotent, OutboxFollowsPayments, PTL
   DEF RunsPaymentService

(* Without cancellations, the composed system implements the ledger of     *)
(* seats, and sells no seat twice.                                         *)
THEOREM SagaSellsSeatsOnce ==
  ASSUME Cancels = {}
  PROVE  Spec => ImplementsLedger /\ []NoOversell
BY SagaRunsBookingService, ServiceImplementsLedger, NeverOversold, PTL DEF RunsBookingService
=============================================================================
