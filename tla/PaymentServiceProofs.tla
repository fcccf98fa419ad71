------------------------ MODULE PaymentServiceProofs ------------------------
(***************************************************************************)
(* Proofs about the payment service, for any number of calls, bookings,    *)
(* keys and captures, and for whatever the booking service does around it. *)
(***************************************************************************)
EXTENDS PaymentService, FiniteSetTheorems, TLAPS

-----------------------------------------------------------------------------
(* The inductive invariant: the payment row with id r is made by call r,   *)
(* for the booking and the key of that call, and its outbox row follows    *)
(* it; the unique indexes hold; and an answer names a payment made under   *)
(* the key of the call.                                                    *)
ChargeInv(r) ==
  /\ charge[r].pc # "idle" => payCall[r].st # "idle"
  /\ charge[r].pc \in {"idle", "byBooking", "insert"} => payments[r].status = "none"
  /\ charge[r].pc = "outbox" => r \in Paid /\ paymentOutbox[r].created = 0
  /\ paymentOutbox[r].created <= 1
  /\ paymentOutbox[r].created = 1 => r \in Paid
  /\ charge[r].pc \in {"idle", "byBooking", "insert"} => paymentOutbox[r].created = 0
  /\ r \in Paid /\ paymentOutbox[r].created = 0 => charge[r].pc \in {"outbox", "failed"}

RowInv(r) ==
  r \in Paid =>
    /\ payments[r].booking = payCall[r].booking /\ payments[r].key = payCall[r].key
    /\ payCall[r].st # "idle"
    /\ \A s \in Paid : payments[s].booking = payments[r].booking
                       \/ payments[s].key = payments[r].key => s = r

AnswerInv(r) ==
  payCall[r].st = "ok" =>
    payCall[r].payment \in Paid /\ payments[payCall[r].payment].key = payCall[r].key

CaptureInv(c) ==
  capture[c].pc \in {"commit", "notify"} => capture[c].payment \in Paid

PInv ==
  /\ PaymentTypeOK
  /\ \A r \in Requests : ChargeInv(r) /\ RowInv(r) /\ AnswerInv(r)
  /\ \A c \in Captures : CaptureInv(c)

LEMMA InitPInv == PaymentStart => PInv
<1> SUFFICES ASSUME PaymentStart PROVE PInv
  OBVIOUS
<1>1. PaymentTypeOK
  BY DEF PaymentStart, PaymentInit, CallsInit, PaymentTypeOK, CallsTypeOK, PaymentType,
         ChargeType, CaptureType, PayCallType, ConfirmCallType, CallState, IdOrNone
<1>2. ASSUME NEW r \in Requests PROVE ChargeInv(r) /\ RowInv(r) /\ AnswerInv(r)
  BY DEF PaymentStart, PaymentInit, CallsInit, ChargeInv, RowInv, AnswerInv, Paid
<1>3. \A c \in Captures : CaptureInv(c)
  BY DEF PaymentStart, PaymentInit, CaptureInv
<1> QED BY <1>1, <1>2, <1>3 DEF PInv

(* The answer to call r, if it is still awaited, and the step of its       *)
(* handler from one pc to the next, when no row is written.                *)
LEMMA ChargeMoves ==
  ASSUME PInv, NEW r \in Requests, NEW pc \in {"byBooking", "insert", "done", "failed"},
         charge' = [charge EXCEPT ![r].pc = pc],
         payCall[r].st # "idle",
         UNCHANGED <<paymentStore, capture, confirmCall, noticeCall>>,
         \/ UNCHANGED payCall
         \/ ChargeAnswer(r, "error", None)
         \/ \E p \in PaymentsWithKey(payCall[r].key) : ChargeAnswer(r, "ok", p),
         pc \in {"byBooking", "insert"} => charge[r].pc \in {"idle", "byBooking"},
         pc = "done" => charge[r].pc = "idle"
  PROVE  PInv'
<1>1. /\ PaymentTypeOK
      /\ UNCHANGED <<payments, paymentLog, paymentOutbox, capture, confirmCall, noticeCall>>
  BY DEF PInv, paymentStore
<1>2. /\ payCall' \in [Requests -> PayCallType]
      /\ \A s \in Requests : /\ payCall'[s].key = payCall[s].key
                             /\ payCall'[s].booking = payCall[s].booking
                             /\ payCall[s].st # "idle" => payCall'[s].st # "idle"
                             /\ payCall'[s].st = "ok" /\ payCall[s].st # "ok" =>
                                  payCall'[s].payment \in PaymentsWithKey(payCall[s].key)
                             /\ payCall[s].st = "ok" => payCall'[s] = payCall[s]
  <2>1. payCall \in [Requests -> PayCallType]
    BY <1>1 DEF PaymentTypeOK, CallsTypeOK
  <2>2. CASE UNCHANGED payCall
    BY <2>1, <2>2
  <2>3. ASSUME NEW a \in {"ok", "error"}, NEW p \in IdOrNone, ChargeAnswer(r, a, p),
               a = "ok" => p \in PaymentsWithKey(payCall[r].key)
        PROVE  <1>2!:
    <3> DEFINE new == [payCall[r] EXCEPT !.st = Answer(@, a),
                                         !.payment = IF payCall[r].st = "sent" THEN p ELSE @]
    <3>1. payCall' = [payCall EXCEPT ![r] = new]
      BY <2>1, <2>3 DEF ChargeAnswer
    <3>2. new \in PayCallType /\ payCall[r] \in PayCallType
      BY <2>1, <2>3 DEF Answer, PayCallType, CallState
    <3>3. /\ new.key = payCall[r].key /\ new.booking = payCall[r].booking
          /\ new.st # "idle"
          /\ new.st = "ok" /\ payCall[r].st # "ok" => new.payment = p /\ a = "ok"
          /\ payCall[r].st = "ok" => new = payCall[r]
      BY <2>1, <2>3, <3>2 DEF Answer, PayCallType
    <3> HIDE DEF new
    <3> QED BY <2>1, <2>3, <3>1, <3>2, <3>3
  <2>4. PaymentsWithKey(payCall[r].key) \subseteq IdOrNone
    BY DEF PaymentsWithKey, Paid, IdOrNone
  <2> QED BY <2>2, <2>3, <2>4 DEF IdOrNone
<1>3. PaymentTypeOK'
  BY <1>1, <1>2 DEF PaymentTypeOK, CallsTypeOK, ChargeType
<1>4. ASSUME NEW s \in Requests PROVE ChargeInv(s)'
  BY <1>1, <1>2 DEF PInv, ChargeInv, Paid, PaymentTypeOK, ChargeType
<1>5. ASSUME NEW s \in Requests PROVE RowInv(s)'
  BY <1>1, <1>2 DEF PInv, RowInv, Paid
<1>6. ASSUME NEW s \in Requests PROVE AnswerInv(s)'
  BY <1>1, <1>2 DEF PInv, AnswerInv, Paid, PaymentsWithKey
<1>7. \A c \in Captures : CaptureInv(c)'
  BY <1>1 DEF PInv, CaptureInv, Paid
<1> QED BY <1>3, <1>4, <1>5, <1>6, <1>7 DEF PInv
LEMMA LookupPInv ==
  ASSUME PInv, NEW r \in Requests, ChargeLookup(r)
  PROVE  PInv'
<1>1. payCall[r].st # "idle" /\ charge[r].pc = "idle"
      /\ UNCHANGED <<paymentStore, capture, confirmCall, noticeCall>>
  BY DEF ChargeLookup, Deliverable
<1>2. ASSUME NEW p \in PaymentsWithKey(payCall[r].key), charge' = [charge EXCEPT ![r].pc = "done"],
             ChargeAnswer(r, "ok", p)
      PROVE  PInv'
  BY <1>1, <1>2, ChargeMoves
<1>3. CASE charge' = [charge EXCEPT ![r].pc = "byBooking"] /\ UNCHANGED payCall
  BY <1>1, <1>3, ChargeMoves
<1> QED BY <1>2, <1>3 DEF ChargeLookup

LEMMA CheckPInv ==
  ASSUME PInv, NEW r \in Requests, ChargeCheck(r)
  PROVE  PInv'
<1>1. payCall[r].st # "idle" /\ charge[r].pc = "byBooking"
      /\ UNCHANGED <<paymentStore, capture, confirmCall, noticeCall>>
  BY DEF ChargeCheck, PInv, ChargeInv
<1>2. CASE charge' = [charge EXCEPT ![r].pc = "failed"] /\ ChargeAnswer(r, "error", None)
  BY <1>1, <1>2, ChargeMoves
<1>3. CASE charge' = [charge EXCEPT ![r].pc = "insert"] /\ UNCHANGED payCall
  BY <1>1, <1>3, ChargeMoves
<1> QED BY <1>2, <1>3 DEF ChargeCheck

LEMMA ChargeFailPInv ==
  ASSUME PInv, NEW r \in Requests, ChargeFail(r)
  PROVE  PInv'
<1>1. payCall[r].st # "idle"
  BY DEF ChargeFail, PInv, ChargeInv
<1> QED BY <1>1, ChargeMoves DEF ChargeFail

(* The insert, when the indexes let it through, and when they do not.      *)
LEMMA InsertPInv ==
  ASSUME PInv, NEW r \in Requests, ChargeInsert(r)
  PROVE  PInv'
<1> DEFINE call == payCall[r]
           row == [status |-> "PENDING", booking |-> call.booking, key |-> call.key]
<1>1. /\ PaymentTypeOK /\ charge[r].pc = "insert" /\ payCall[r].st # "idle"
      /\ payments[r].status = "none" /\ r \notin Paid /\ paymentOutbox[r].created = 0
      /\ UNCHANGED <<paymentLog, paymentOutbox, capture, confirmCall, noticeCall>>
  BY DEF ChargeInsert, PInv, ChargeInv, Paid
<1>2. CASE ~RowFree(call.booking, call.key)
  <2>1. /\ charge' = [charge EXCEPT ![r].pc = "failed"] /\ ChargeAnswer(r, "error", None)
        /\ UNCHANGED <<paymentStore, capture, confirmCall, noticeCall>>
    BY <1>1, <1>2 DEF ChargeInsert, paymentStore
  <2> QED BY <1>1, <2>1, ChargeMoves
<1>3. CASE RowFree(call.booking, call.key)
  <2>1. /\ payments' = [payments EXCEPT ![r] = row]
        /\ charge' = [charge EXCEPT ![r].pc = "outbox"]
        /\ UNCHANGED payCall
    BY <1>3 DEF ChargeInsert, AfterRow
  <2>2. /\ payCall[r] \in PayCallType /\ row \in PaymentType
        /\ payments'[r] = row /\ \A s \in Requests \ {r} : payments'[s] = payments[s]
    BY <1>1, <2>1 DEF PaymentTypeOK, CallsTypeOK, PayCallType, PaymentType
  <2>3. PaymentTypeOK'
    BY <1>1, <2>1, <2>2 DEF PaymentTypeOK, CallsTypeOK, ChargeType
  <2>4. Paid' = Paid \cup {r}
    BY <2>2 DEF Paid
  <2>5. ASSUME NEW s \in Requests PROVE ChargeInv(s)'
    BY <1>1, <2>1, <2>2, <2>4 DEF PInv, ChargeInv, PaymentTypeOK, ChargeType
  <2>6. \A s \in Paid : payments[s].booking # call.booking /\ payments[s].key # call.key
    BY <1>3 DEF RowFree, PaymentsOfBooking, PaymentsWithKey
  <2>7. ASSUME NEW s \in Requests PROVE RowInv(s)'
    BY <1>1, <2>1, <2>2, <2>4, <2>6 DEF PInv, RowInv
  <2>8. ASSUME NEW s \in Requests PROVE AnswerInv(s)'
    <3>1. payCall[s].payment \in Paid => payments'[payCall[s].payment] = payments[payCall[s].payment]
      BY <1>1, <2>2 DEF Paid
    <3> QED BY <2>1, <2>4, <3>1 DEF PInv, AnswerInv
  <2>9. \A c \in Captures : CaptureInv(c)'
    BY <1>1, <2>4 DEF PInv, CaptureInv
  <2> QED BY <2>3, <2>5, <2>7, <2>8, <2>9 DEF PInv
<1> QED BY <1>2, <1>3

LEMMA OutboxPInv ==
  ASSUME PInv, NEW r \in Requests, ChargeOutbox(r)
  PROVE  PInv'
<1> DEFINE new == [payCall[r] EXCEPT !.st = Answer(@, "ok"),
                                     !.payment = IF payCall[r].st = "sent" THEN r ELSE @]
<1>1. /\ PaymentTypeOK /\ charge[r].pc = "outbox" /\ r \in Paid /\ payCall[r].st # "idle"
      /\ payments[r].key = payCall[r].key /\ paymentOutbox[r].created = 0
      /\ UNCHANGED <<payments, paymentLog, capture, confirmCall, noticeCall>>
  BY DEF ChargeOutbox, PInv, ChargeInv, RowInv
<1>2. /\ payCall' = [payCall EXCEPT ![r] = new] /\ payCall[r] \in PayCallType
      /\ charge' = [charge EXCEPT ![r].pc = "done"]
  BY <1>1 DEF ChargeOutbox, ChargeAnswer, PaymentTypeOK, CallsTypeOK
<1>3. /\ new \in PayCallType
      /\ new.key = payCall[r].key /\ new.booking = payCall[r].booking
      /\ new.st # "idle"
      /\ new.st = "ok" => new.payment = r \/ new = payCall[r]
  BY <1>1, <1>2 DEF Answer, PayCallType, CallState, IdOrNone
<1> HIDE DEF new
<1>4. /\ paymentOutbox'[r].created = 1 /\ paymentOutbox' \in [Requests -> [created : Nat, captured : Nat]]
      /\ \A s \in Requests \ {r} : paymentOutbox'[s] = paymentOutbox[s]
  BY <1>1 DEF ChargeOutbox, PaymentTypeOK
<1>5. PaymentTypeOK'
  BY <1>1, <1>2, <1>3, <1>4 DEF PaymentTypeOK, CallsTypeOK, ChargeType
<1>6. ASSUME NEW s \in Requests PROVE ChargeInv(s)'
  BY <1>1, <1>2, <1>3, <1>4 DEF PInv, ChargeInv, PaymentTypeOK, CallsTypeOK, ChargeType, Paid
<1>7. ASSUME NEW s \in Requests PROVE RowInv(s)'
  BY <1>1, <1>2, <1>3 DEF PInv, RowInv, Paid, PaymentTypeOK, CallsTypeOK
<1>8. ASSUME NEW s \in Requests PROVE AnswerInv(s)'
  BY <1>1, <1>2, <1>3 DEF PInv, AnswerInv, Paid, PaymentTypeOK, CallsTypeOK
<1>9. \A c \in Captures : CaptureInv(c)'
  BY <1>1 DEF PInv, CaptureInv, Paid
<1> QED BY <1>5, <1>6, <1>7, <1>8, <1>9 DEF PInv
(* Steps that leave the createPayment handlers and what they wrote alone:   *)
(* a payment may be completed, a call may be sent or answered by the        *)
(* environment, but not with a success that nobody answered.                *)
SamePayments ==
  /\ charge' = charge
  /\ \A r \in Requests :
       /\ payments'[r].status = "none" <=> payments[r].status = "none"
       /\ payments'[r].booking = payments[r].booking /\ payments'[r].key = payments[r].key
       /\ paymentOutbox'[r].created = paymentOutbox[r].created
       /\ \/ payCall'[r] = payCall[r]
          \/ payCall[r].st = "idle" /\ payCall'[r].st = "sent"
          \/ /\ payCall'[r].st = "lost" /\ payCall[r].st = "sent"
             /\ payCall'[r].booking = payCall[r].booking /\ payCall'[r].key = payCall[r].key

LEMMA PaymentsKept ==
  ASSUME PInv, SamePayments, PaymentTypeOK', \A c \in Captures : CaptureInv(c)'
  PROVE  PInv'
<1>1. Paid' = Paid
  BY DEF SamePayments, Paid
<1>2. ASSUME NEW r \in Requests PROVE ChargeInv(r)' /\ RowInv(r)'
  <2>1. /\ payCall[r].st # "idle" => /\ payCall'[r].st # "idle"
                                    /\ payCall'[r].booking = payCall[r].booking
                                    /\ payCall'[r].key = payCall[r].key
    BY DEF SamePayments
  <2>2. ChargeInv(r)'
    BY <1>1, <2>1 DEF SamePayments, PInv, ChargeInv
  <2>3. \A s \in Paid : s \in Requests
    BY DEF Paid
  <2>4. RowInv(r)'
    BY <1>1, <2>1, <2>3 DEF SamePayments, PInv, RowInv
  <2> QED BY <2>2, <2>4
<1>3. ASSUME NEW r \in Requests PROVE AnswerInv(r)'
  <2>1. payCall'[r].st = "ok" => payCall'[r] = payCall[r]
    BY DEF SamePayments
  <2>2. \A s \in Paid : s \in Requests
    BY DEF Paid
  <2> QED BY <1>1, <2>1, <2>2 DEF SamePayments, PInv, AnswerInv
<1> QED BY <1>2, <1>3 DEF PInv

LEMMA CapturePInv ==
  ASSUME PInv, NEW c \in Captures,
         (\E p \in Requests : CaptureRead(c, p)) \/ CaptureStep(c) \/ CaptureFail(c)
  PROVE  PInv'
<1>1. PaymentTypeOK /\ CaptureInv(c)
  BY DEF PInv
<1>2. ASSUME NEW p \in Requests, CaptureRead(c, p) PROVE PInv'
  <2>1. /\ UNCHANGED <<payments, paymentLog, paymentOutbox, charge, payCall, confirmCall, noticeCall>>
        /\ capture' = [capture EXCEPT ![c] = [pc |-> CaptureOutcome(p), payment |-> p]]
    BY <1>2 DEF CaptureRead, paymentStore, callVars
  <2>2. payments[p].status \in {"none", "PENDING", "COMPLETED"}
    BY <1>1 DEF PaymentTypeOK, PaymentType
  <2>3. /\ CaptureOutcome(p) \in {"failed", "done", "commit"}
        /\ CaptureOutcome(p) = "commit" => p \in Paid
    BY <2>2 DEF CaptureOutcome, Paid
  <2>4. PaymentTypeOK'
    BY <1>1, <2>1, <2>3 DEF PaymentTypeOK, CallsTypeOK, CaptureType, IdOrNone
  <2>5. ASSUME NEW d \in Captures PROVE CaptureInv(d)'
    BY <1>1, <2>1, <2>3 DEF PInv, CaptureInv, PaymentTypeOK, Paid
  <2>6. SamePayments
    BY <2>1 DEF SamePayments
  <2> QED BY <2>4, <2>5, <2>6, PaymentsKept
<1>3. CASE CaptureCommit(c)
  <2> DEFINE p == capture[c].payment
             sent == [st |-> "sent", booking |-> payments[p].booking, payment |-> p]
  <2>1. p \in Paid /\ p \in Requests /\ payments[p] \in PaymentType
    BY <1>1, <1>3 DEF CaptureCommit, CaptureInv, Paid, PaymentTypeOK
  <2>2. /\ UNCHANGED <<charge, payCall, noticeCall>>
        /\ payments' = [payments EXCEPT ![p].status = "COMPLETED"]
        /\ paymentLog' = [paymentLog EXCEPT ![p] = @ + 1]
        /\ paymentOutbox' = [paymentOutbox EXCEPT ![p].captured = @ + 1]
        /\ confirmCall' = [confirmCall EXCEPT ![c] = sent]
        /\ capture' = [capture EXCEPT ![c].pc = "notify"]
    BY <1>3 DEF CaptureCommit
  <2>3. /\ payments' \in [Requests -> PaymentType] /\ paymentLog' \in [Requests -> Nat]
        /\ capture' \in [Captures -> CaptureType]
    <3>1. [payments[p] EXCEPT !.status = "COMPLETED"] \in PaymentType
      BY <2>1 DEF PaymentType
    <3>2. payments' \in [Requests -> PaymentType]
      BY <1>1, <2>1, <2>2, <3>1 DEF PaymentTypeOK
    <3>3. paymentLog' \in [Requests -> Nat]
      BY <1>1, <2>1, <2>2 DEF PaymentTypeOK
    <3>4. capture' \in [Captures -> CaptureType]
      BY <1>1, <2>2 DEF PaymentTypeOK, CaptureType
    <3> QED BY <3>2, <3>3, <3>4
  <2>4. paymentOutbox' \in [Requests -> [created : Nat, captured : Nat]]
    BY <1>1, <2>1, <2>2 DEF PaymentTypeOK
  <2>5. confirmCall' \in [Captures -> ConfirmCallType]
    BY <1>1, <2>1, <2>2 DEF PaymentTypeOK, CallsTypeOK, ConfirmCallType, PaymentType, CallState, IdOrNone
  <2>6. PaymentTypeOK'
    BY <1>1, <2>2, <2>3, <2>4, <2>5 DEF PaymentTypeOK, CallsTypeOK
  <2>7. SamePayments
    <3>1. /\ payments'[p].status # "none" /\ payments[p].status # "none"
          /\ payments'[p].booking = payments[p].booking /\ payments'[p].key = payments[p].key
          /\ \A r \in Requests \ {p} : payments'[r] = payments[r]
      BY <1>1, <2>1, <2>2 DEF PaymentTypeOK, PaymentType, Paid
    <3>2. \A r \in Requests : paymentOutbox'[r].created = paymentOutbox[r].created
      BY <1>1, <2>1, <2>2 DEF PaymentTypeOK
    <3> QED BY <2>2, <3>1, <3>2 DEF SamePayments
  <2>8. ASSUME NEW d \in Captures PROVE CaptureInv(d)'
    <3>1. Paid' = Paid
      BY <2>7 DEF SamePayments, Paid
    <3> QED BY <1>1, <2>1, <2>2, <3>1 DEF PInv, CaptureInv, PaymentTypeOK
  <2> QED BY <2>6, <2>7, <2>8, PaymentsKept
<1>4. ASSUME NEW pc \in {"done", "failed"}, capture' = [capture EXCEPT ![c].pc = pc],
             UNCHANGED <<paymentStore, charge, callVars>>
      PROVE  PInv'
  <2>1. UNCHANGED <<payments, paymentLog, paymentOutbox, charge, payCall, confirmCall, noticeCall>>
    BY <1>4 DEF paymentStore, callVars
  <2>2. PaymentTypeOK'
    BY <1>1, <1>4, <2>1 DEF PaymentTypeOK, CallsTypeOK, CaptureType
  <2>3. ASSUME NEW d \in Captures PROVE CaptureInv(d)'
    BY <1>1, <1>4, <2>1 DEF PInv, CaptureInv, PaymentTypeOK, CaptureType, Paid
  <2>4. SamePayments
    BY <2>1 DEF SamePayments
  <2> QED BY <2>2, <2>3, <2>4, PaymentsKept
<1>5. CASE CaptureDone(c) \/ CaptureFail(c)
  BY <1>4, <1>5 DEF CaptureDone, CaptureFail
<1> QED BY <1>2, <1>3, <1>5 DEF CaptureStep

LEMMA EnvPInv ==
  ASSUME PInv, PaymentEnv \/ UNCHANGED allPaymentVars
  PROVE  PInv'
<1>1. PaymentTypeOK /\ UNCHANGED <<payments, paymentLog, paymentOutbox, charge, capture>>
  BY DEF PInv, PaymentEnv, EnvCharge, EnvConfirmed, EnvNotices, paymentVars, allPaymentVars
<1>2. ASSUME CallsTypeOK', \A r \in Requests :
             \/ payCall'[r] = payCall[r]
             \/ payCall[r].st = "idle" /\ payCall'[r].st = "sent"
             \/ /\ payCall'[r].st = "lost" /\ payCall[r].st = "sent"
                /\ payCall'[r].booking = payCall[r].booking /\ payCall'[r].key = payCall[r].key
      PROVE  PInv'
  <2>1. PaymentTypeOK'
    BY <1>1, <1>2 DEF PaymentTypeOK
  <2>2. SamePayments
    BY <1>1, <1>2 DEF SamePayments
  <2>3. \A c \in Captures : CaptureInv(c)'
    BY <1>1 DEF PInv, CaptureInv, Paid
  <2> QED BY <2>1, <2>2, <2>3, PaymentsKept
<1>3. ASSUME NEW r \in Requests, NEW b \in Requests, NEW k \in Keys, NEW m \in BOOLEAN,
             EnvCharge(r, b, k, m)
      PROVE  PInv'
  <2>1. CallsTypeOK'
    BY <1>1, <1>3 DEF EnvCharge, PaymentTypeOK, CallsTypeOK, PayCallType, CallState, IdOrNone
  <2> QED BY <1>1, <1>2, <1>3, <2>1 DEF EnvCharge, PaymentTypeOK, CallsTypeOK
<1>4. ASSUME NEW c \in Captures, NEW a \in {"ok", "error"}, EnvConfirmed(c, a) PROVE PInv'
  <2>1. CallsTypeOK'
    BY <1>1, <1>4 DEF EnvConfirmed, PaymentTypeOK, CallsTypeOK, ConfirmCallType, CallState
  <2> QED BY <1>2, <1>4, <2>1 DEF EnvConfirmed
<1>5. ASSUME NEW c \in Captures, NEW a \in CallState, EnvNotices(c, a) PROVE PInv'
  <2>1. CallsTypeOK'
    BY <1>1, <1>5 DEF EnvNotices, PaymentTypeOK, CallsTypeOK
  <2> QED BY <1>2, <1>5, <2>1 DEF EnvNotices
<1>6. ASSUME NEW r \in Requests, DropPay(r) PROVE PInv'
  <2>1. CallsTypeOK'
    BY <1>1, <1>6 DEF DropPay, PaymentTypeOK, CallsTypeOK, PayCallType, CallState
  <2> QED BY <1>1, <1>2, <1>6, <2>1 DEF DropPay, PaymentTypeOK, CallsTypeOK, PayCallType
<1>7. ASSUME NEW c \in Captures, DropConfirm(c) \/ DropNotice(c) PROVE PInv'
  <2>1. CallsTypeOK'
    BY ZenonT(40), <1>1, <1>7 DEF DropConfirm, DropNotice, PaymentTypeOK, CallsTypeOK, ConfirmCallType, CallState
  <2> QED BY <1>2, <1>7, <2>1 DEF DropConfirm, DropNotice
<1>8. CASE UNCHANGED allPaymentVars
  BY <1>1, <1>2, <1>8 DEF allPaymentVars, callVars, PaymentTypeOK, CallsTypeOK
<1> QED BY <1>3, <1>4, <1>5, <1>6, <1>7, <1>8 DEF PaymentEnv, Drop

LEMMA NextPInv == PInv /\ [PaymentNext]_allPaymentVars => PInv'
<1> SUFFICES ASSUME PInv, [PaymentNext]_allPaymentVars PROVE PInv'
  OBVIOUS
<1>1. ASSUME NEW r \in Requests, ChargeStep(r) \/ ChargeFail(r) PROVE PInv'
  BY <1>1, LookupPInv, CheckPInv, InsertPInv, OutboxPInv, ChargeFailPInv DEF ChargeStep
<1>2. ASSUME NEW c \in Captures,
             (\E p \in Requests : CaptureRead(c, p)) \/ CaptureStep(c) \/ CaptureFail(c)
      PROVE  PInv'
  BY <1>2, CapturePInv
<1> QED BY <1>1, <1>2, EnvPInv DEF PaymentNext, PaymentSystem

(* PInv is inductive: it holds in every reachable state.                   *)
THEOREM PaymentInvariance == PaymentSpec => []PInv
BY InitPInv, NextPInv, PTL DEF PaymentSpec

(* Whatever calls the payment service is sent and however its handlers     *)
(* interleave and fail, its rows, counters and handlers keep their types.  *)
THEOREM PaymentTypeCorrect == PaymentSpec => []PaymentTypeOK
<1>1. PInv => PaymentTypeOK
  BY DEF PInv
<1> QED BY <1>1, PaymentInvariance, PTL

(* createPayment never charges a booking twice.                            *)
THEOREM NeverChargedTwice == PaymentSpec => []OnePaymentPerBooking
<1>1. PInv => OnePaymentPerBooking
  <2> SUFFICES ASSUME PInv, NEW b \in Requests PROVE Cardinality(PaymentsOfBooking(b)) <= 1
    BY DEF OnePaymentPerBooking
  <2>1. \A p, q \in PaymentsOfBooking(b) : p = q
    BY DEF PaymentsOfBooking, Paid, PInv, RowInv
  <2>2. CASE PaymentsOfBooking(b) = {}
    BY <2>2, FS_EmptySet
  <2>3. ASSUME NEW p \in PaymentsOfBooking(b) PROVE Cardinality(PaymentsOfBooking(b)) <= 1
    <3>1. PaymentsOfBooking(b) = {p}
      BY <2>1, <2>3
    <3> QED BY <3>1, FS_Singleton
  <2> QED BY <2>2, <2>3
<1> QED BY <1>1, PaymentInvariance, PTL

(* createPayment answers calls under one idempotency key with one payment. *)
THEOREM PaymentIdempotent == PaymentSpec => []OnePaymentPerKey
<1>1. PInv => OnePaymentPerKey
  BY DEF OnePaymentPerKey, PInv, AnswerInv, RowInv, Paid
<1> QED BY <1>1, PaymentInvariance, PTL

(* createPayment leaves a payment without its PAYMENT_CREATED row only     *)
(* between its two inserts or when it failed there, and never writes two.  *)
THEOREM OutboxFollowsPayments == PaymentSpec => []OutboxTellsOfPayments
<1>1. PInv => OutboxTellsOfPayments
  BY DEF OutboxTellsOfPayments, PInv, ChargeInv
<1> QED BY <1>1, PaymentInvariance, PTL
=============================================================================
