---------------------------- MODULE ServiceCalls ----------------------------
(***************************************************************************)
(* The HTTP calls in flight between the booking, payment and notification  *)
(* services, and the identities the three share.                           *)
(***************************************************************************)
EXTENDS Naturals, FiniteSets, HttpCall

CONSTANTS
  Requests,   \* POST /bookings calls; also the id of the booking row, and of
              \* the payment row, such a call creates (each creates at most one)
  Captures,   \* POST /payments/:id/capture calls
  Keys,       \* idempotency keys the clients send
  None,       \* absent id (SQL NULL)
  Faults      \* TRUE when processes may crash and connections may break

ASSUME IdsAssumption ==
  None \notin Requests /\ IsFiniteSet(Requests) /\ IsFiniteSet(Captures)
ASSUME FaultsAssumption == Faults \in BOOLEAN

VARIABLES
  payCall,      \* payCall[r]: booking -> payment, POST internal/payments
  confirmCall,  \* confirmCall[c]: payment -> booking, POST internal/bookings/confirm
  noticeCall    \* noticeCall[c]: booking -> notification, on behalf of confirm c

callVars == <<payCall, confirmCall, noticeCall>>

IdOrNone == Requests \cup {None}

PayCallType ==
  [st : CallState, booking : IdOrNone, key : Keys \cup {None},
   methodOk : BOOLEAN, payment : IdOrNone]
ConfirmCallType == [st : CallState, booking : IdOrNone, payment : IdOrNone]

CallsTypeOK ==
  /\ payCall \in [Requests -> PayCallType]
  /\ confirmCall \in [Captures -> ConfirmCallType]
  /\ noticeCall \in [Captures -> CallState]

CallsInit ==
  /\ payCall = [r \in Requests |-> [st |-> "idle", booking |-> None, key |-> None,
                                    methodOk |-> FALSE, payment |-> None]]
  /\ confirmCall = [c \in Captures |-> [st |-> "idle", booking |-> None, payment |-> None]]
  /\ noticeCall = [c \in Captures |-> "idle"]

(* A connection breaks: the caller's axios.post rejects. *)
DropPay(r) ==
  /\ Faults /\ payCall[r].st = "sent"
  /\ payCall' = [payCall EXCEPT ![r].st = "lost"]
  /\ UNCHANGED <<confirmCall, noticeCall>>

DropConfirm(c) ==
  /\ Faults /\ confirmCall[c].st = "sent"
  /\ confirmCall' = [confirmCall EXCEPT ![c].st = "lost"]
  /\ UNCHANGED <<payCall, noticeCall>>

DropNotice(c) ==
  /\ Faults /\ noticeCall[c] = "sent"
  /\ noticeCall' = [noticeCall EXCEPT ![c] = "lost"]
  /\ UNCHANGED <<payCall, confirmCall>>

Drop == \/ \E r \in Requests : DropPay(r)
        \/ \E c \in Captures : DropConfirm(c) \/ DropNotice(c)
=============================================================================
