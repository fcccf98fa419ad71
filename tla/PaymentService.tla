--------------------------- MODULE PaymentService ---------------------------
(***************************************************************************)
(* The payment service: createPayment, called by the booking service for a *)
(* new booking, and capturePayment, called by the client.  charge[r] is    *)
(* the createPayment handler of the call of request r, and the payment row *)
(* it inserts has id r.  Amounts and the (simulated) gateway are left out. *)
(***************************************************************************)
EXTENDS ServiceCalls

CONSTANT Overlap  \* TRUE when a client may start a capture of a payment while
                  \* another capture of it has not been answered

ASSUME OverlapAssumption == Overlap \in BOOLEAN

VARIABLES
  payments,       \* Payment rows
  paymentLog,     \* number of CAPTURED log rows of each payment
  paymentOutbox,  \* PAYMENT_CREATED and PAYMENT_CAPTURED rows of each payment
  charge,         \* createPayment handlers
  capture         \* capturePayment handlers

paymentStore == <<payments, paymentLog, paymentOutbox>>
paymentVars == <<payments, paymentLog, paymentOutbox, charge, capture>>

PaymentType ==
  [status : {"none", "PENDING", "COMPLETED"}, booking : IdOrNone, key : Keys \cup {None}]
ChargeType == [pc : {"idle", "byBooking", "insert", "outbox", "done", "failed"}]
CaptureType ==
  [pc : {"idle", "commit", "notify", "done", "failed"}, payment : IdOrNone]

PaymentTypeOK ==
  /\ payments \in [Requests -> PaymentType]
  /\ paymentLog \in [Requests -> Nat]
  /\ paymentOutbox \in [Requests -> [created : Nat, captured : Nat]]
  /\ charge \in [Requests -> ChargeType]
  /\ capture \in [Captures -> CaptureType]
  /\ CallsTypeOK

PaymentInit ==
  /\ payments = [p \in Requests |-> [status |-> "none", booking |-> None, key |-> None]]
  /\ paymentLog = [p \in Requests |-> 0]
  /\ paymentOutbox = [p \in Requests |-> [created |-> 0, captured |-> 0]]
  /\ charge = [r \in Requests |-> [pc |-> "idle"]]
  /\ capture = [c \in Captures |-> [pc |-> "idle", payment |-> None]]

Paid == {p \in Requests : payments[p].status # "none"}

-----------------------------------------------------------------------------
(* createPayment *)

ChargeAnswer(r, a, p) ==
  payCall' = [payCall EXCEPT ![r].st = Answer(@, a),
                             ![r].payment = IF payCall[r].st = "sent" THEN p ELSE @]

(* The payment already made under this idempotency key is returned. *)
PaymentsWithKey(k) == {p \in Paid : payments[p].key = k}
PaymentsOfBooking(b) == {p \in Paid : payments[p].booking = b}

ChargeLookup(r) ==
  LET k == payCall[r].key IN
  /\ charge[r].pc = "idle" /\ Deliverable(payCall[r].st)
  /\ \/ \E p \in PaymentsWithKey(k) :
          /\ charge' = [charge EXCEPT ![r].pc = "done"]
          /\ ChargeAnswer(r, "ok", p)
     \/ /\ PaymentsWithKey(k) = {}
        /\ charge' = [charge EXCEPT ![r].pc = "byBooking"]
        /\ UNCHANGED payCall
  /\ UNCHANGED <<paymentStore, capture, confirmCall, noticeCall>>

(* A booking that has a payment, or a payment method that does not exist,  *)
(* is refused.                                                             *)
ChargeCheck(r) ==
  LET refused == PaymentsOfBooking(payCall[r].booking) # {} \/ ~payCall[r].methodOk IN
  /\ charge[r].pc = "byBooking"
  /\ \/ /\ refused
        /\ charge' = [charge EXCEPT ![r].pc = "failed"]
        /\ ChargeAnswer(r, "error", None)
     \/ /\ ~refused
        /\ charge' = [charge EXCEPT ![r].pc = "insert"]
        /\ UNCHANGED payCall
  /\ UNCHANGED <<paymentStore, capture, confirmCall, noticeCall>>

(* The unique indexes on bookingId and idempotencyKey let an insert through. *)
RowFreeUnindexed(b, k) == TRUE         \* mutant: no unique index
RowFreeWrongColumn(b, k) == Paid = {}  \* mutant: the index is on another column
RowFree(b, k) == PaymentsOfBooking(b) = {} /\ PaymentsWithKey(k) = {}

AfterRowDone == "done"  \* mutant: the outbox row is forgotten
AfterRow == "outbox"

ChargeInsert(r) ==
  LET call == payCall[r] IN
  /\ charge[r].pc = "insert"
  /\ \/ /\ RowFree(call.booking, call.key)
        /\ payments' = [payments EXCEPT ![r] =
             [status |-> "PENDING", booking |-> call.booking, key |-> call.key]]
        /\ charge' = [charge EXCEPT ![r].pc = AfterRow]
        /\ UNCHANGED payCall
     \/ /\ ~RowFree(call.booking, call.key)
        /\ charge' = [charge EXCEPT ![r].pc = "failed"]
        /\ ChargeAnswer(r, "error", None)
        /\ UNCHANGED payments
  /\ UNCHANGED <<paymentLog, paymentOutbox, capture, confirmCall, noticeCall>>

(* A second, separate insert writes the outbox row; then the answer. *)
ChargeOutbox(r) ==
  /\ charge[r].pc = "outbox"
  /\ paymentOutbox' = [paymentOutbox EXCEPT ![r].created = @ + 1]
  /\ charge' = [charge EXCEPT ![r].pc = "done"]
  /\ ChargeAnswer(r, "ok", r)
  /\ UNCHANGED <<payments, paymentLog, capture, confirmCall, noticeCall>>

ChargeFail(r) ==
  /\ Faults
  /\ charge[r].pc \in {"byBooking", "insert", "outbox"}
  /\ charge' = [charge EXCEPT ![r].pc = "failed"]
  /\ ChargeAnswer(r, "error", None)
  /\ UNCHANGED <<paymentStore, capture, confirmCall, noticeCall>>

-----------------------------------------------------------------------------
(* capturePayment *)

Capturing(p) == {c \in Captures : capture[c].pc \in {"commit", "notify"}
                                  /\ capture[c].payment = p}

CaptureAgain(p) ==  \* mutant: a completed payment is captured again
  IF payments[p].status = "none" THEN "failed" ELSE "commit"
CaptureOutcome(p) ==
  CASE payments[p].status = "none" -> "failed"
    [] payments[p].status = "COMPLETED" -> "done"
    [] payments[p].status = "PENDING" -> "commit"

(* A client that knows the payment captures it; a completed payment is     *)
(* returned without another word to the booking service.                   *)
CaptureRead(c, p) ==
  /\ capture[c].pc = "idle"
  /\ Overlap \/ Capturing(p) = {}
  /\ capture' = [capture EXCEPT ![c] = [pc |-> CaptureOutcome(p), payment |-> p]]
  /\ UNCHANGED <<paymentStore, charge, callVars>>

(* One transaction completes the payment, logs the capture and writes the  *)
(* outbox row; nothing in it looks at the status again.  Then the booking  *)
(* service is called.                                                      *)
CaptureCommit(c) ==
  LET p == capture[c].payment IN
  /\ capture[c].pc = "commit"
  /\ payments' = [payments EXCEPT ![p].status = "COMPLETED"]
  /\ paymentLog' = [paymentLog EXCEPT ![p] = @ + 1]
  /\ paymentOutbox' = [paymentOutbox EXCEPT ![p].captured = @ + 1]
  /\ confirmCall' = [confirmCall EXCEPT ![c] =
       [st |-> "sent", booking |-> payments[p].booking, payment |-> p]]
  /\ capture' = [capture EXCEPT ![c].pc = "notify"]
  /\ UNCHANGED <<charge, payCall, noticeCall>>

ConfirmSucceeded(c) == confirmCall[c].st = "ok"  \* mutant: waits for a success
ConfirmOver(c) == confirmCall[c].st # "sent"

(* BookingClientService swallows errors and broken connections alike. *)
CaptureDone(c) ==
  /\ capture[c].pc = "notify" /\ ConfirmOver(c)
  /\ capture' = [capture EXCEPT ![c].pc = "done"]
  /\ UNCHANGED <<paymentStore, charge, callVars>>

CaptureFail(c) ==
  /\ Faults
  /\ capture[c].pc \in {"commit", "notify"}
  /\ capture' = [capture EXCEPT ![c].pc = "failed"]
  /\ UNCHANGED <<paymentStore, charge, callVars>>

-----------------------------------------------------------------------------
(* What the booking service may do to the mailboxes. *)
EnvCharge(r, b, k, m) ==
  /\ payCall[r].st = "idle"
  /\ payCall' = [payCall EXCEPT ![r] =
       [st |-> "sent", booking |-> b, key |-> k, methodOk |-> m, payment |-> None]]
  /\ UNCHANGED <<paymentVars, confirmCall, noticeCall>>

EnvConfirmed(c, a) ==
  /\ confirmCall[c].st = "sent"
  /\ confirmCall' = [confirmCall EXCEPT ![c].st = a]
  /\ UNCHANGED <<paymentVars, payCall, noticeCall>>

EnvNotices(c, a) ==
  /\ noticeCall' = [noticeCall EXCEPT ![c] = a]
  /\ UNCHANGED <<paymentVars, payCall, confirmCall>>

PaymentEnv ==
  \/ \E r, b \in Requests, k \in Keys, m \in BOOLEAN : EnvCharge(r, b, k, m)
  \/ \E c \in Captures, a \in {"ok", "error"} : EnvConfirmed(c, a)
  \/ \E c \in Captures, a \in CallState : EnvNotices(c, a)
  \/ Drop /\ UNCHANGED paymentVars

ChargeStep(r) == ChargeLookup(r) \/ ChargeCheck(r) \/ ChargeInsert(r) \/ ChargeOutbox(r)
CaptureStep(c) == CaptureCommit(c) \/ CaptureDone(c)

(* Known is the set of payments whose id a client has been told. *)
PaymentSystem(Known) ==
  \/ \E r \in Requests : ChargeStep(r) \/ ChargeFail(r)
  \/ \E c \in Captures : (\E p \in Known : CaptureRead(c, p)) \/ CaptureStep(c) \/ CaptureFail(c)

PaymentNext == PaymentSystem(Requests) \/ PaymentEnv

allPaymentVars == <<paymentVars, callVars>>
PaymentStart == PaymentInit /\ CallsInit
PaymentSpec == PaymentStart /\ [][PaymentNext]_allPaymentVars

-----------------------------------------------------------------------------
(* Idempotency of the internal call: calls under one key that succeed name *)
(* one payment.                                                            *)
OnePaymentPerKey ==
  \A r, s \in Requests :
    payCall[r].st = "ok" /\ payCall[s].st = "ok" /\ payCall[r].key = payCall[s].key
    => payCall[r].payment = payCall[s].payment

(* A booking is never charged twice: at most one payment, whatever calls   *)
(* race for it.                                                            *)
OnePaymentPerBooking == \A b \in Requests : Cardinality(PaymentsOfBooking(b)) <= 1

(* The outbox tells of every payment once.  The row is inserted apart from *)
(* the payment, so that it may be missing, but only while the handler that *)
(* made the payment is between the two or because it failed there: a retry *)
(* under the key returns the payment and writes nothing.                   *)
OutboxTellsOfPayments ==
  \A p \in Requests :
    /\ paymentOutbox[p].created <= 1
    /\ paymentOutbox[p].created = 1 => p \in Paid
    /\ p \in Paid /\ paymentOutbox[p].created = 0 => charge[p].pc \in {"outbox", "failed"}
=============================================================================
