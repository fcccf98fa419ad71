------------------------ MODULE BookingServiceProofs ------------------------
(***************************************************************************)
(* Proofs about the booking service, for any requests, events, seat counts *)
(* and cancellations, and for any behaviour of the services around it.     *)
(***************************************************************************)
EXTENDS BookingService, FiniteSetTheorems, TLAPS

-----------------------------------------------------------------------------
(* The inductive invariant: types, and what the pc of a handler says of its *)
(* local variables and of the rows it has read or written.                  *)
InFlight == {"lookup", "read", "decrement", "create", "pay", "link"}

ReserveInv(r) ==
  LET h == reserve[r] IN
  /\ h.pc # "idle" => h.event \in Events /\ h.key \in Keys
  /\ h.pc \in InFlight => h.qty >= 1
  /\ h.pc = "decrement" => /\ inventory[h.event].published
                           /\ h.version <= inventory[h.event].version
  /\ h.took => /\ h.pc \in {"create", "pay", "link", "done", "failed"}
               /\ h.qty >= 1
               /\ inventory[h.event].published
               /\ h.version < inventory[h.event].version
  /\ h.pc = "create" => h.took /\ bookings[r].status = "none"
  /\ h.pc \in {"pay", "link"} => bookings[r].status # "none"
  /\ h.booking # None => /\ h.pc = "done"
                         /\ bookings[h.booking].status # "none"
                         /\ bookings[h.booking].key = h.key

BookingInv(b) ==
  bookings[b].status # "none" =>
    /\ reserve[b].took /\ reserve[b].pc \in {"pay", "link", "done", "failed"}
    /\ bookings[b].event = reserve[b].event
    /\ bookings[b].qty = reserve[b].qty
    /\ bookings[b].key = reserve[b].key
    /\ \A c \in Requests :
         bookings[c].status # "none" /\ bookings[c].key = bookings[b].key => c = b

ConfirmInv(c) ==
  /\ confirmCall[c].st # "idle" => confirmCall[c].booking \in Requests
  /\ confirm[c].pc \in {"commit", "notify"} =>
       confirm[c].booking \in Requests /\ bookings[confirm[c].booking].status # "none"

CancelInv(x) ==
  /\ cancel[x].pc \in {"release", "mark"} \/ cancel[x].released =>
       cancel[x].booking \in Requests /\ bookings[cancel[x].booking].status # "none"
  /\ cancel[x].pc \in {"idle", "release"} => ~cancel[x].released

IInv ==
  /\ BookingTypeOK
  /\ \A r \in Requests : ReserveInv(r) /\ BookingInv(r)
  /\ \A c \in Captures : ConfirmInv(c)
  /\ \A x \in Cancels : CancelInv(x)

-----------------------------------------------------------------------------
(* A step that only moves the createBooking handler of r on, without taking *)
(* seats, preserves the invariant if it leaves r in a state the invariant   *)
(* allows and keeps what r's booking, if any, says of it.                   *)
LEMMA HandlerMoves ==
  ASSUME IInv, NEW r \in Requests, NEW new \in ReserveType,
         reserve' = [reserve EXCEPT ![r] = new],
         UNCHANGED <<storeVars, confirm, cancel, callVars>>,
         ReserveInv(r)',
         bookings[r].status # "none" =>
           /\ new.took /\ new.pc \in {"pay", "link", "done", "failed"}
           /\ new.event = reserve[r].event /\ new.qty = reserve[r].qty
           /\ new.key = reserve[r].key
  PROVE  IInv'
<1>1. /\ UNCHANGED <<inventory, bookings, tickets, bookingOutbox, confirm, cancel,
                     payCall, confirmCall, noticeCall>>
      /\ BookingTypeOK
  BY DEF IInv, storeVars, callVars
<1>2. BookingTypeOK'
  BY <1>1 DEF BookingTypeOK, CallsTypeOK
<1>3. ASSUME NEW s \in Requests PROVE ReserveInv(s)'
  BY <1>1, <1>3 DEF IInv, BookingTypeOK, ReserveInv
<1>4. ASSUME NEW s \in Requests PROVE BookingInv(s)'
  BY <1>1, <1>4 DEF IInv, BookingTypeOK, BookingInv
<1>5. \A c \in Captures : ConfirmInv(c)'
  BY <1>1 DEF IInv, ConfirmInv
<1>6. \A x \in Cancels : CancelInv(x)'
  BY <1>1 DEF IInv, CancelInv
<1> QED BY <1>2, <1>3, <1>4, <1>5, <1>6 DEF IInv

LEMMA SubmitInv ==
  ASSUME IInv, NEW r \in Requests, NEW k \in Keys, NEW e \in Events, NEW q \in 0..MaxQty,
         NEW m \in BOOLEAN, NEW u \in BOOLEAN, Submit(r, k, e, q, m, u)
  PROVE  IInv'
<1> DEFINE new == [reserve[r] EXCEPT !.pc = IF q < 1 THEN "failed" ELSE "lookup",
                                     !.key = k, !.event = e, !.qty = q, !.methodOk = m, !.userOk = u]
<1>1. /\ BookingTypeOK /\ reserve[r] \in ReserveType /\ reserve[r].pc = "idle"
      /\ ReserveInv(r) /\ BookingInv(r)
      /\ UNCHANGED <<storeVars, confirm, cancel, callVars>>
  BY DEF Submit, IInv, BookingTypeOK
<1>2. reserve' = [reserve EXCEPT ![r] = new] /\ reserve'[r] = new
  BY <1>1 DEF Submit, BookingTypeOK
<1>3. new \in ReserveType
  BY <1>1 DEF ReserveType
<1>4. ~new.took /\ bookings[r].status = "none"
  BY <1>1 DEF ReserveInv, BookingInv, ReserveType
<1>5. ReserveInv(r)'
  BY <1>1, <1>2, <1>4 DEF ReserveInv, InFlight, ReserveType, storeVars
<1> QED BY <1>1, <1>2, <1>3, <1>4, <1>5, HandlerMoves

LEMMA LookupInv ==
  ASSUME IInv, NEW r \in Requests, LookupKey(r)
  PROVE  IInv'
<1>1. /\ BookingTypeOK /\ reserve[r] \in ReserveType /\ reserve[r].pc = "lookup"
      /\ ReserveInv(r) /\ BookingInv(r)
      /\ UNCHANGED <<storeVars, confirm, cancel, callVars>>
  BY DEF LookupKey, IInv, BookingTypeOK
<1>2. ~reserve[r].took /\ bookings[r].status = "none"
  BY <1>1 DEF ReserveInv, BookingInv
<1>3. ASSUME NEW b \in Retried(reserve[r].key),
             reserve' = [reserve EXCEPT ![r].pc = "done", ![r].booking = b,
                                        ![r].payment = bookings[b].payment]
      PROVE  IInv'
  <2> DEFINE new == [reserve[r] EXCEPT !.pc = "done", !.booking = b,
                                       !.payment = bookings[b].payment]
  <2>1. /\ b \in Requests /\ bookings[b].status # "none"
        /\ bookings[b].key = reserve[r].key /\ bookings[b].payment \in IdOrNone
    BY <1>1 DEF Retried, BookedWithKey, Booked, BookingTypeOK, BookingType
  <2>2. new \in ReserveType
    BY <1>1, <2>1 DEF ReserveType, IdOrNone
  <2>3. reserve' = [reserve EXCEPT ![r] = new] /\ reserve'[r] = new
    BY <1>1, <1>3 DEF BookingTypeOK
  <2>4. ReserveInv(r)'
    BY <1>1, <1>2, <2>1, <2>3 DEF ReserveInv, InFlight, ReserveType, storeVars
  <2> QED BY <1>1, <1>2, <2>2, <2>3, <2>4, HandlerMoves
<1>4. CASE reserve' = [reserve EXCEPT ![r].pc = "read"]
  <2> DEFINE new == [reserve[r] EXCEPT !.pc = "read"]
  <2>1. new \in ReserveType
    BY <1>1 DEF ReserveType
  <2>2. reserve' = [reserve EXCEPT ![r] = new] /\ reserve'[r] = new
    BY <1>1, <1>4 DEF BookingTypeOK
  <2>3. ReserveInv(r)'
    BY <1>1, <1>2, <2>2 DEF ReserveInv, InFlight, ReserveType, storeVars
  <2> QED BY <1>1, <1>2, <2>1, <2>2, <2>3, HandlerMoves
<1> QED BY <1>3, <1>4 DEF LookupKey

LEMMA ReadInv ==
  ASSUME IInv, NEW r \in Requests, ReadInventory(r)
  PROVE  IInv'
<1> DEFINE inv == inventory[reserve[r].event]
           new == [reserve[r] EXCEPT !.pc = IF inv.published THEN "decrement" ELSE "failed",
                                     !.version = inv.version]
<1>1. /\ BookingTypeOK /\ reserve[r] \in ReserveType /\ reserve[r].pc = "read"
      /\ ReserveInv(r) /\ BookingInv(r)
      /\ UNCHANGED <<storeVars, confirm, cancel, callVars>>
  BY DEF ReadInventory, IInv, BookingTypeOK
<1>2. ~reserve[r].took /\ bookings[r].status = "none" /\ inv \in InventoryType
  BY <1>1 DEF ReserveInv, BookingInv, BookingTypeOK
<1>3. new \in ReserveType
  BY <1>1, <1>2 DEF ReserveType, InventoryType
<1>4. reserve' = [reserve EXCEPT ![r] = new] /\ reserve'[r] = new
  BY <1>1 DEF ReadInventory, BookingTypeOK
<1>5. ReserveInv(r)'
  BY <1>1, <1>2, <1>4 DEF ReserveInv, InFlight, ReserveType, storeVars, InventoryType
<1> QED BY <1>1, <1>2, <1>3, <1>4, <1>5, HandlerMoves

(* A handler that gives up keeps everything but its pc. *)
LEMMA GiveUpInv ==
  ASSUME IInv, NEW r \in Requests, reserve[r].pc \in InFlight,
         reserve' = [reserve EXCEPT ![r].pc = "failed"],
         UNCHANGED <<storeVars, confirm, cancel, callVars>>
  PROVE  IInv'
<1> DEFINE new == [reserve[r] EXCEPT !.pc = "failed"]
<1>1. BookingTypeOK /\ reserve[r] \in ReserveType /\ ReserveInv(r) /\ BookingInv(r)
  BY DEF IInv, BookingTypeOK
<1>2. new \in ReserveType
  BY <1>1 DEF ReserveType
<1>3. reserve' = [reserve EXCEPT ![r] = new] /\ reserve'[r] = new
  BY <1>1 DEF BookingTypeOK
<1>4. ReserveInv(r)'
  BY <1>1, <1>3 DEF ReserveInv, InFlight, ReserveType, storeVars
<1>5. bookings[r].status # "none" =>
        /\ new.took /\ new.pc \in {"pay", "link", "done", "failed"}
        /\ new.event = reserve[r].event /\ new.qty = reserve[r].qty
        /\ new.key = reserve[r].key
  BY <1>1 DEF BookingInv, ReserveType
<1> QED BY <1>2, <1>3, <1>4, <1>5, HandlerMoves

LEMMA PayInv ==
  ASSUME IInv, NEW r \in Requests, PaymentAnswered(r)
  PROVE  IInv'
<1>1. /\ BookingTypeOK /\ reserve[r] \in ReserveType /\ reserve[r].pc = "pay"
      /\ ReserveInv(r) /\ BookingInv(r)
      /\ UNCHANGED <<storeVars, confirm, cancel, callVars>>
  BY DEF PaymentAnswered, IInv, BookingTypeOK
<1>2. CASE reserve' = [reserve EXCEPT ![r].pc = "link", ![r].payment = payCall[r].payment]
  <2> DEFINE new == [reserve[r] EXCEPT !.pc = "link", !.payment = payCall[r].payment]
  <2>1. payCall[r].payment \in IdOrNone
    BY <1>1 DEF BookingTypeOK, CallsTypeOK, PayCallType
  <2>2. new \in ReserveType
    BY <1>1, <2>1 DEF ReserveType
  <2>3. reserve' = [reserve EXCEPT ![r] = new] /\ reserve'[r] = new
    BY <1>1, <1>2 DEF BookingTypeOK
  <2>4. ReserveInv(r)'
    BY <1>1, <2>3 DEF ReserveInv, InFlight, ReserveType, storeVars
  <2>5. bookings[r].status # "none" =>
          /\ new.took /\ new.pc \in {"pay", "link", "done", "failed"}
          /\ new.event = reserve[r].event /\ new.qty = reserve[r].qty
          /\ new.key = reserve[r].key
    BY <1>1 DEF BookingInv, ReserveType
  <2> QED BY <1>1, <2>2, <2>3, <2>4, <2>5, HandlerMoves
<1>3. CASE reserve' = [reserve EXCEPT ![r].pc = "failed"]
  BY <1>1, <1>3, GiveUpInv DEF InFlight
<1> QED BY <1>2, <1>3 DEF PaymentAnswered

(* Rows that move on: the seats of an event go down and its version up, a  *)
(* booking keeps its event, quantity and key.                              *)
LEMMA DecrementInv ==
  ASSUME IInv, NEW r \in Requests, DecrementSeats(r)
  PROVE  IInv'
<1> DEFINE e == reserve[r].event
           q == reserve[r].qty
<1>1. /\ BookingTypeOK /\ reserve[r] \in ReserveType /\ reserve[r].pc = "decrement"
      /\ ReserveInv(r) /\ BookingInv(r)
      /\ UNCHANGED <<bookings, tickets, bookingOutbox, confirm, cancel, callVars>>
  BY DEF DecrementSeats, IInv, BookingTypeOK
<1>2. /\ ~reserve[r].took /\ bookings[r].status = "none"
      /\ e \in Events /\ inventory[e] \in InventoryType /\ q \in Nat
  BY <1>1, MaxQtyAssumption DEF ReserveInv, BookingInv, BookingTypeOK, InFlight, ReserveType
<1>3. CASE reserve' = [reserve EXCEPT ![r].pc = "failed"] /\ UNCHANGED inventory
  BY <1>1, <1>3, GiveUpInv DEF InFlight, storeVars
<1>4. CASE /\ EnoughLeft(e, q) /\ SameVersion(r) /\ TakeSeats(e, q)
           /\ reserve' = [reserve EXCEPT ![r].pc = "create", ![r].took = TRUE]
  <2> DEFINE new == [reserve[r] EXCEPT !.pc = "create", !.took = TRUE]
             row == [inventory[e] EXCEPT !.availableSeats = @ - q, !.version = @ + 1]
  <2>1. new \in ReserveType /\ reserve' = [reserve EXCEPT ![r] = new] /\ reserve'[r] = new
    BY <1>1, <1>4 DEF BookingTypeOK, ReserveType
  <2>2. row \in InventoryType /\ inventory' = [inventory EXCEPT ![e] = row] /\ inventory'[e] = row
    BY <1>1, <1>2, <1>4 DEF BookingTypeOK, EnoughLeft, TakeSeats, InventoryType
  <2>3. BookingTypeOK'
    BY <1>1, <1>2, <2>1, <2>2 DEF BookingTypeOK, CallsTypeOK, callVars
  <2>4. \A d \in Events : /\ inventory[d] \in InventoryType
                          /\ inventory'[d].published = inventory[d].published
                          /\ inventory'[d].version >= inventory[d].version
    BY <1>1, <1>2, <2>2 DEF BookingTypeOK, InventoryType
  <2>5. ReserveInv(r)'
    BY <1>1, <1>2, <2>1, <2>2, <1>4 DEF ReserveInv, InFlight, ReserveType, SameVersion, InventoryType
  <2>6. ASSUME NEW s \in Requests, s # r PROVE ReserveInv(s)'
    <3>1. reserve'[s] = reserve[s] /\ ReserveInv(s) /\ reserve[s] \in ReserveType
      BY <1>1, <2>1, <2>6 DEF BookingTypeOK, IInv
    <3>2. reserve[s].pc # "idle" => reserve[s].event \in Events
      BY <3>1 DEF ReserveInv
    <3>3. reserve[s].event \in Events =>
            /\ inventory'[reserve[s].event].published = inventory[reserve[s].event].published
            /\ inventory'[reserve[s].event].version >= inventory[reserve[s].event].version
            /\ inventory'[reserve[s].event].version \in Nat
            /\ inventory[reserve[s].event].version \in Nat
      BY <2>3, <2>4 DEF BookingTypeOK, InventoryType
    <3> QED
      BY <1>1, <3>1, <3>2, <3>3 DEF ReserveInv, ReserveType
  <2>7. ASSUME NEW s \in Requests PROVE BookingInv(s)'
    BY <1>1, <1>2, <2>1 DEF IInv, BookingTypeOK, BookingInv
  <2>8. (\A c \in Captures : ConfirmInv(c)') /\ (\A x \in Cancels : CancelInv(x)')
    BY <1>1 DEF IInv, ConfirmInv, CancelInv, callVars
  <2> QED BY <2>3, <2>5, <2>6, <2>7, <2>8 DEF IInv
<1> QED BY <1>3, <1>4 DEF DecrementSeats

(* Inserting the row of r, whose key no other row has. *)
LEMMA CreateInv ==
  ASSUME IInv, NEW r \in Requests, CreateBooking(r)
  PROVE  IInv'
<1> DEFINE k == reserve[r].key
<1>1. /\ BookingTypeOK /\ reserve[r] \in ReserveType /\ reserve[r].pc = "create"
      /\ ReserveInv(r)
      /\ UNCHANGED <<inventory, tickets, bookingOutbox, confirm, cancel, confirmCall, noticeCall>>
  BY DEF CreateBooking, IInv, BookingTypeOK
<1>2. /\ reserve[r].took /\ bookings[r].status = "none"
      /\ reserve[r].event \in Events /\ k \in Keys /\ reserve[r].qty >= 1
  BY <1>1 DEF ReserveInv
<1>3. CASE reserve' = [reserve EXCEPT ![r].pc = "failed"] /\ UNCHANGED <<bookings, payCall>>
  BY <1>1, <1>3, GiveUpInv DEF InFlight, storeVars, callVars
<1>4. ASSUME Insertable(r),
             bookings' = [bookings EXCEPT ![r] =
               [status |-> "PENDING", event |-> reserve[r].event, qty |-> reserve[r].qty,
                key |-> k, payment |-> None]],
             payCall' = [payCall EXCEPT ![r] =
               [st |-> "sent", booking |-> r, key |-> k,
                methodOk |-> reserve[r].methodOk, payment |-> None]],
             reserve' = [reserve EXCEPT ![r].pc = "pay"]
      PROVE IInv'
  <2> DEFINE new == [reserve[r] EXCEPT !.pc = "pay"]
             row == [status |-> "PENDING", event |-> reserve[r].event, qty |-> reserve[r].qty,
                     key |-> k, payment |-> None]
  <2>1. new \in ReserveType /\ reserve' = [reserve EXCEPT ![r] = new] /\ reserve'[r] = new
    BY <1>1, <1>4 DEF BookingTypeOK, ReserveType
  <2>2. row \in BookingType /\ bookings'[r] = row
    BY <1>1, <1>2, <1>4 DEF BookingTypeOK, ReserveType, BookingType, BookingStatus, IdOrNone
  <2>3. payCall' \in [Requests -> PayCallType]
    <3>1. [st |-> "sent", booking |-> r, key |-> k, methodOk |-> reserve[r].methodOk,
           payment |-> None] \in PayCallType
      BY <1>1, <1>2 DEF PayCallType, CallState, IdOrNone, ReserveType
    <3> QED BY <1>1, <1>4, <3>1 DEF BookingTypeOK, CallsTypeOK
  <2>4. BookingTypeOK'
    BY <1>1, <1>4, <2>1, <2>2, <2>3 DEF BookingTypeOK, CallsTypeOK
  <2>5. \A c \in Requests : bookings[c].status # "none" => bookings[c].key # k /\ c # r
    BY <1>2, <1>4 DEF Insertable, KeyFree, BookedWithKey, Booked
  <2>6. ReserveInv(r)'
    BY <1>1, <1>2, <2>1, <2>2, <1>4 DEF ReserveInv, InFlight, ReserveType
  <2>7. ASSUME NEW s \in Requests, s # r PROVE ReserveInv(s)'
    <3>1. /\ reserve'[s] = reserve[s] /\ ReserveInv(s) /\ bookings'[s] = bookings[s]
          /\ reserve[s].booking \in IdOrNone
      BY <1>1, <1>4, <2>1, <2>7 DEF BookingTypeOK, IInv, ReserveType
    <3>2. reserve[s].booking # None => bookings'[reserve[s].booking] = bookings[reserve[s].booking]
      BY <1>1, <1>4, <2>5, <3>1 DEF BookingTypeOK, ReserveInv, IdOrNone
    <3> QED
      BY <1>1, <3>1, <3>2 DEF ReserveInv
  <2>8. ASSUME NEW s \in Requests PROVE BookingInv(s)'
    <3>1. CASE s = r
      BY <1>1, <1>2, <1>4, <2>1, <2>2, <2>5, <3>1 DEF BookingTypeOK, BookingInv, ReserveType
    <3>2. CASE s # r
      BY <1>1, <1>4, <2>1, <2>2, <2>5, <3>2 DEF BookingTypeOK, BookingInv, IInv
    <3> QED BY <3>1, <3>2
  <2>9. \A c \in Captures : ConfirmInv(c)'
    BY <1>1, <1>2, <1>4 DEF IInv, ConfirmInv, BookingTypeOK
  <2>10. \A x \in Cancels : CancelInv(x)'
    BY <1>1, <1>2, <1>4 DEF IInv, CancelInv, BookingTypeOK
  <2> QED BY <2>4, <2>6, <2>7, <2>8, <2>9, <2>10 DEF IInv
<1> QED BY <1>3, <1>4 DEF CreateBooking

(* Two bookings tables that hold the same rows, apart from payments and    *)
(* from which status of an existing row it is.                             *)
SameRows ==
  \A b \in Requests :
    /\ bookings'[b].status = "none" <=> bookings[b].status = "none"
    /\ bookings'[b].event = bookings[b].event
    /\ bookings'[b].qty = bookings[b].qty
    /\ bookings'[b].key = bookings[b].key

(* A step that leaves inventory and handlers alone and keeps the rows.     *)
LEMMA RowsKept ==
  ASSUME IInv, BookingTypeOK', SameRows, UNCHANGED <<inventory, reserve>>
  PROVE  \A r \in Requests : ReserveInv(r)' /\ BookingInv(r)'
<1>1. BookingTypeOK /\ \A r \in Requests : reserve[r].booking \in IdOrNone
  BY DEF IInv, BookingTypeOK, ReserveType
<1>2. ASSUME NEW r \in Requests PROVE ReserveInv(r)'
  BY <1>1, <1>2 DEF IInv, ReserveInv, SameRows, IdOrNone
<1>3. ASSUME NEW r \in Requests PROVE BookingInv(r)'
  BY <1>1, <1>3 DEF IInv, BookingInv, SameRows
<1> QED BY <1>2, <1>3

LEMMA LinkInv ==
  ASSUME IInv, NEW r \in Requests, LinkPayment(r)
  PROVE  IInv'
<1>1. /\ BookingTypeOK /\ reserve[r] \in ReserveType /\ reserve[r].pc = "link"
      /\ ReserveInv(r) /\ BookingInv(r)
      /\ UNCHANGED <<inventory, tickets, bookingOutbox, confirm, cancel, callVars>>
  BY DEF LinkPayment, IInv, BookingTypeOK
<1>2. CASE reserve' = [reserve EXCEPT ![r].pc = "failed"] /\ UNCHANGED bookings
  BY <1>1, <1>2, GiveUpInv DEF InFlight, storeVars
<1>3. CASE /\ bookings' = [bookings EXCEPT ![r].payment = reserve[r].payment]
           /\ reserve' = [reserve EXCEPT ![r].pc = "done", ![r].booking = r]
  <2> DEFINE new == [reserve[r] EXCEPT !.pc = "done", !.booking = r]
  <2>1. new \in ReserveType /\ reserve' = [reserve EXCEPT ![r] = new] /\ reserve'[r] = new
    BY <1>1, <1>3 DEF BookingTypeOK, ReserveType, IdOrNone
  <2>2. [bookings[r] EXCEPT !.payment = reserve[r].payment] \in BookingType
    BY ZenonT(40), <1>1 DEF BookingTypeOK, BookingType, ReserveType
  <2>3. BookingTypeOK' /\ SameRows
    BY <1>1, <1>3, <2>1, <2>2 DEF BookingTypeOK, CallsTypeOK, callVars, SameRows, BookingType
  <2>4. ReserveInv(r)'
    BY <1>1, <2>1, <2>3 DEF ReserveInv, BookingInv, InFlight, ReserveType, SameRows
  <2>5. ASSUME NEW s \in Requests, s # r PROVE ReserveInv(s)'
    <3>1. reserve'[s] = reserve[s] /\ ReserveInv(s) /\ reserve[s].booking \in IdOrNone
      BY <1>1, <2>1, <2>5 DEF BookingTypeOK, IInv, ReserveType
    <3> QED BY <1>1, <2>3, <3>1 DEF ReserveInv, SameRows, IdOrNone
  <2>6. ASSUME NEW s \in Requests PROVE BookingInv(s)'
    <3>1. /\ reserve'[s].took = reserve[s].took /\ reserve'[s].event = reserve[s].event
          /\ reserve'[s].qty = reserve[s].qty /\ reserve'[s].key = reserve[s].key
          /\ reserve'[s].pc \in {reserve[s].pc, "done"}
      BY <1>1, <2>1 DEF BookingTypeOK, ReserveType
    <3> QED BY <2>3, <3>1 DEF IInv, BookingInv, SameRows
  <2>7. (\A c \in Captures : ConfirmInv(c)') /\ (\A x \in Cancels : CancelInv(x)')
    BY <1>1, <2>3 DEF IInv, ConfirmInv, CancelInv, callVars, SameRows
  <2> QED BY <2>3, <2>4, <2>5, <2>6, <2>7 DEF IInv
<1> QED BY <1>2, <1>3 DEF LinkPayment

LEMMA ConfirmReadInv ==
  ASSUME IInv, NEW c \in Captures, ConfirmRead(c)
  PROVE  IInv'
<1> DEFINE b == confirmCall[c].booking
<1>1. /\ BookingTypeOK /\ ConfirmInv(c) /\ confirmCall[c].st \in {"sent", "lost"}
      /\ UNCHANGED <<inventory, bookings, tickets, bookingOutbox, reserve, cancel, payCall, noticeCall>>
  BY DEF ConfirmRead, IInv, storeVars, Deliverable
<1>2. b \in Requests /\ bookings[b] \in BookingType
  BY <1>1 DEF ConfirmInv, BookingTypeOK
<1>3. \E p \in {"commit", "done", "failed"} :
        /\ confirm' = [confirm EXCEPT ![c] = [pc |-> p, booking |-> b]]
        /\ p = "commit" => bookings[b].status # "none"
  BY <1>2 DEF ConfirmRead
<1>4. /\ confirmCall' \in [Captures -> ConfirmCallType]
      /\ \A d \in Captures : /\ confirmCall'[d].booking = confirmCall[d].booking
                             /\ confirmCall[d].st = "idle" => confirmCall'[d].st = "idle"
  <2>1. confirmCall' = confirmCall \/ \E a \in {"ok", "error"} : ConfirmAnswer(c, a)
    BY DEF ConfirmRead
  <2> QED
    BY SMTT(30), <1>1, <2>1 DEF BookingTypeOK, CallsTypeOK, ConfirmAnswer, Answer, ConfirmCallType, CallState
<1>5. BookingTypeOK'
  <2>1. confirm' \in [Captures -> ConfirmType]
    BY <1>1, <1>2, <1>3 DEF BookingTypeOK, ConfirmType, IdOrNone
  <2> QED BY <1>1, <1>4, <2>1 DEF BookingTypeOK, CallsTypeOK
<1>6. \A r \in Requests : ReserveInv(r)' /\ BookingInv(r)'
  BY <1>1, <1>5, RowsKept DEF SameRows
<1>7. \A d \in Captures : ConfirmInv(d)'
  BY <1>1, <1>2, <1>3, <1>4 DEF IInv, ConfirmInv, BookingTypeOK, CallsTypeOK, ConfirmType, ConfirmCallType
<1>8. \A x \in Cancels : CancelInv(x)'
  BY <1>1 DEF IInv, CancelInv
<1> QED BY <1>5, <1>6, <1>7, <1>8 DEF IInv

LEMMA IssueInv ==
  ASSUME IInv, NEW c \in Captures, IssueTickets(c)
  PROVE  IInv'
<1> DEFINE b == confirm[c].booking
<1>1. /\ BookingTypeOK /\ ConfirmInv(c) /\ confirm[c].pc = "commit"
      /\ UNCHANGED <<inventory, reserve, cancel, payCall, confirmCall>>
  BY DEF IssueTickets, IInv
<1>2. /\ b \in Requests /\ bookings[b] \in BookingType /\ bookings[b].status # "none"
      /\ bookings[b].qty \in Nat
  BY <1>1, MaxQtyAssumption DEF ConfirmInv, BookingTypeOK, BookingType
<1>3. [bookings[b] EXCEPT !.status = "CONFIRMED"] \in BookingType
  BY <1>2 DEF BookingType, BookingStatus
<1>4. BookingTypeOK' /\ SameRows
  BY <1>1, <1>2, <1>3 DEF IssueTickets, TicketsFor, BookingTypeOK, CallsTypeOK, CallState,
     ConfirmType, SameRows, BookingType
<1>5. \A r \in Requests : ReserveInv(r)' /\ BookingInv(r)'
  BY <1>1, <1>4, RowsKept
<1>6. \A d \in Captures : ConfirmInv(d)'
  BY <1>1, <1>2, <1>4 DEF IssueTickets, IInv, ConfirmInv, SameRows, BookingTypeOK, ConfirmType
<1>7. \A x \in Cancels : CancelInv(x)'
  BY <1>1, <1>4 DEF IInv, CancelInv, SameRows
<1> QED BY <1>4, <1>5, <1>6, <1>7 DEF IInv

(* The ends of a confirm touch its own record and the answer only. *)
LEMMA ConfirmEndInv ==
  ASSUME IInv, NEW c \in Captures, ConfirmDone(c) \/ ConfirmFail(c)
  PROVE  IInv'
<1>1. /\ BookingTypeOK /\ confirm[c].pc \in {"commit", "notify"}
      /\ UNCHANGED <<inventory, bookings, tickets, bookingOutbox, reserve, cancel, payCall, noticeCall>>
  BY DEF ConfirmDone, ConfirmFail, IInv, storeVars
<1>2. \E p \in {"done", "failed"} : confirm' = [confirm EXCEPT ![c].pc = p]
  BY DEF ConfirmDone, ConfirmFail
<1>3. \E a \in {"ok", "error"} :
        confirmCall' = [confirmCall EXCEPT ![c].st = IF confirmCall[c].st = "sent" THEN a ELSE confirmCall[c].st]
  BY <1>1 DEF ConfirmDone, ConfirmFail, ConfirmAnswer, Answer, BookingTypeOK, CallsTypeOK
<1>4. BookingTypeOK'
  <2>1. confirm' \in [Captures -> ConfirmType]
    BY <1>1, <1>2 DEF BookingTypeOK, ConfirmType
  <2>2. confirmCall' \in [Captures -> ConfirmCallType]
    BY <1>1, <1>3 DEF BookingTypeOK, CallsTypeOK, ConfirmCallType, CallState
  <2> QED BY <1>1, <2>1, <2>2 DEF BookingTypeOK, CallsTypeOK
<1>5. \A r \in Requests : ReserveInv(r)' /\ BookingInv(r)'
  BY <1>1, <1>4, RowsKept DEF SameRows
<1>6. \A d \in Captures : ConfirmInv(d)'
  BY <1>1, <1>2, <1>3 DEF IInv, ConfirmInv, BookingTypeOK, CallsTypeOK, ConfirmType, ConfirmCallType
<1>7. \A x \in Cancels : CancelInv(x)'
  BY <1>1 DEF IInv, CancelInv
<1> QED BY <1>4, <1>5, <1>6, <1>7 DEF IInv

LEMMA CancelReadInv ==
  ASSUME IInv, NEW x \in Cancels, NEW b \in Requests, CancelRead(x, b)
  PROVE  IInv'
<1>1. /\ BookingTypeOK /\ CancelInv(x) /\ cancel[x].pc = "idle"
      /\ UNCHANGED <<inventory, bookings, tickets, bookingOutbox, reserve, confirm,
                     payCall, confirmCall, noticeCall>>
  BY DEF CancelRead, IInv, storeVars, callVars
<1>2. \E p \in {"release", "done"} :
        /\ cancel' = [cancel EXCEPT ![x].pc = p, ![x].booking = b]
        /\ p = "release" => bookings[b].status # "none"
  BY DEF CancelRead
<1>3. BookingTypeOK'
  <2>1. PICK p \in {"release", "done"} : cancel' = [cancel EXCEPT ![x].pc = p, ![x].booking = b]
    BY <1>2
  <2>2. [cancel[x] EXCEPT !.pc = p, !.booking = b] \in CancelType
    BY <1>1 DEF BookingTypeOK, CancelType, IdOrNone
  <2>3. cancel' \in [Cancels -> CancelType]
    BY <1>1, <2>1, <2>2 DEF BookingTypeOK
  <2> QED BY <1>1, <2>3 DEF BookingTypeOK, CallsTypeOK
<1>4. \A r \in Requests : ReserveInv(r)' /\ BookingInv(r)'
  BY <1>1, <1>3, RowsKept DEF SameRows
<1>5. \A y \in Cancels : CancelInv(y)'
  BY <1>1, <1>2 DEF IInv, CancelInv, BookingTypeOK, CancelType
<1>6. \A c \in Captures : ConfirmInv(c)'
  BY <1>1 DEF IInv, ConfirmInv
<1> QED BY <1>3, <1>4, <1>5, <1>6 DEF IInv

LEMMA CancelReleaseInv ==
  ASSUME IInv, NEW x \in Cancels, CancelRelease(x)
  PROVE  IInv'
<1> DEFINE row == bookings[cancel[x].booking]
<1>1. /\ BookingTypeOK /\ CancelInv(x) /\ cancel[x].pc = "release"
      /\ UNCHANGED <<bookings, tickets, bookingOutbox, reserve, confirm,
                     payCall, confirmCall, noticeCall>>
      /\ inventory' = [inventory EXCEPT ![row.event].availableSeats = @ + row.qty]
      /\ cancel' = [cancel EXCEPT ![x].pc = "mark", ![x].released = TRUE]
  BY DEF CancelRelease, IInv, callVars
<1>2. /\ row \in BookingType /\ row.status # "none" /\ row.qty \in Nat
      /\ cancel[x].booking \in Requests
  BY <1>1, MaxQtyAssumption DEF CancelInv, BookingTypeOK, BookingType
<1>3. row.event \in Events
  BY <1>2 DEF IInv, BookingInv, ReserveInv
<1>4. inventory' \in [Events -> InventoryType]
  <2>1. [inventory[row.event] EXCEPT !.availableSeats = @ + row.qty] \in InventoryType
    BY <1>1, <1>2, <1>3 DEF BookingTypeOK, InventoryType
  <2> QED BY <1>1, <1>3, <2>1 DEF BookingTypeOK
<1>5. BookingTypeOK'
  BY <1>1, <1>4 DEF BookingTypeOK, CallsTypeOK, CancelType
<1>6. \A e \in Events : /\ inventory'[e].published = inventory[e].published
                        /\ inventory'[e].version = inventory[e].version
  BY <1>1, <1>3 DEF BookingTypeOK, InventoryType
<1>7. ASSUME NEW r \in Requests PROVE ReserveInv(r)' /\ BookingInv(r)'
  <2>1. ReserveInv(r) /\ BookingInv(r)
    BY DEF IInv
  <2>2. BookingInv(r)'
    BY <1>1, <2>1 DEF BookingInv
  <2>3. reserve[r].pc # "idle" => reserve[r].event \in Events
    BY <2>1 DEF ReserveInv
  <2>4. ReserveInv(r)'
    BY <1>1, <1>6, <2>1, <2>3 DEF ReserveInv, InFlight
  <2> QED BY <2>2, <2>4
<1>8. \A y \in Cancels : CancelInv(y)'
  BY <1>1 DEF IInv, CancelInv, BookingTypeOK, CancelType
<1>9. \A c \in Captures : ConfirmInv(c)'
  BY <1>1 DEF IInv, ConfirmInv
<1> QED BY <1>5, <1>7, <1>8, <1>9 DEF IInv

LEMMA CancelMarkInv ==
  ASSUME IInv, NEW x \in Cancels, CancelMark(x)
  PROVE  IInv'
<1> DEFINE b == cancel[x].booking
<1>1. /\ BookingTypeOK /\ CancelInv(x) /\ cancel[x].pc = "mark"
      /\ UNCHANGED <<inventory, tickets, bookingOutbox, reserve, confirm,
                     payCall, confirmCall, noticeCall>>
      /\ bookings' = [bookings EXCEPT ![b].status = "CANCELLED"]
      /\ cancel' = [cancel EXCEPT ![x].pc = "done"]
  BY DEF CancelMark, IInv, callVars
<1>2. b \in Requests /\ bookings[b] \in BookingType /\ bookings[b].status # "none"
  BY <1>1 DEF CancelInv, BookingTypeOK
<1>3. [bookings[b] EXCEPT !.status = "CANCELLED"] \in BookingType
  BY <1>2 DEF BookingType, BookingStatus
<1>4. BookingTypeOK' /\ SameRows
  BY SMTT(30), <1>1, <1>2, <1>3 DEF BookingTypeOK, CallsTypeOK, CancelType, SameRows, BookingType
<1>5. \A r \in Requests : ReserveInv(r)' /\ BookingInv(r)'
  BY <1>1, <1>4, RowsKept
<1>6. \A y \in Cancels : CancelInv(y)'
  BY <1>1, <1>4 DEF IInv, CancelInv, SameRows, BookingTypeOK, CancelType
<1>7. \A c \in Captures : ConfirmInv(c)'
  BY <1>1, <1>4 DEF IInv, ConfirmInv, SameRows
<1> QED BY <1>4, <1>5, <1>6, <1>7 DEF IInv

LEMMA CancelFailInv ==
  ASSUME IInv, NEW x \in Cancels, CancelFail(x)
  PROVE  IInv'
<1>1. /\ BookingTypeOK
      /\ UNCHANGED <<inventory, bookings, tickets, bookingOutbox, reserve, confirm,
                     payCall, confirmCall, noticeCall>>
      /\ cancel' = [cancel EXCEPT ![x].pc = "failed"]
  BY DEF CancelFail, IInv, storeVars, callVars
<1>2. BookingTypeOK'
  BY <1>1 DEF BookingTypeOK, CallsTypeOK, CancelType
<1>3. \A r \in Requests : ReserveInv(r)' /\ BookingInv(r)'
  BY <1>1, <1>2, RowsKept DEF SameRows
<1>4. \A y \in Cancels : CancelInv(y)'
  BY <1>1 DEF IInv, CancelInv, BookingTypeOK, CancelType
<1>5. \A c \in Captures : ConfirmInv(c)'
  BY <1>1 DEF IInv, ConfirmInv
<1> QED BY <1>2, <1>3, <1>4, <1>5 DEF IInv

LEMMA PublishInv ==
  ASSUME IInv, NEW e \in Events, NEW n \in SeatCounts, PublishInventory(e, n)
  PROVE  IInv'
<1> DEFINE row == [published |-> TRUE, totalSeats |-> n, availableSeats |-> n, version |-> 0]
<1>1. /\ BookingTypeOK /\ ~inventory[e].published
      /\ UNCHANGED <<bookings, tickets, bookingOutbox, reserve, confirm, cancel,
                     payCall, confirmCall, noticeCall>>
      /\ inventory' = [inventory EXCEPT ![e] = row]
  BY DEF PublishInventory, IInv, callVars
<1>2. row \in InventoryType
  BY SeatCountsAssumption DEF InventoryType
<1>3. BookingTypeOK'
  BY <1>1, <1>2 DEF BookingTypeOK, CallsTypeOK
<1>4. ASSUME NEW r \in Requests PROVE ReserveInv(r)'
  <2>1. \A d \in Events : inventory[d].published => inventory'[d] = inventory[d]
    BY <1>1 DEF BookingTypeOK
  <2> QED BY <1>1, <2>1, <1>4 DEF IInv, ReserveInv, InFlight
<1>5. ASSUME NEW r \in Requests PROVE BookingInv(r)'
  BY <1>1, <1>5 DEF IInv, BookingInv
<1>6. (\A c \in Captures : ConfirmInv(c)') /\ (\A x \in Cancels : CancelInv(x)')
  BY <1>1 DEF IInv, ConfirmInv, CancelInv
<1> QED BY <1>3, <1>4, <1>5, <1>6 DEF IInv

(* The other services and the network move only the mailboxes. *)
LEMMA EnvInv ==
  ASSUME IInv, BookingEnv
  PROVE  IInv'
<1>1. /\ BookingTypeOK
      /\ UNCHANGED <<inventory, bookings, tickets, bookingOutbox, reserve, confirm, cancel>>
  BY DEF BookingEnv, EnvPay, EnvConfirm, EnvNotice, bookingVars, IInv
<1>2. CallsTypeOK' /\ \A c \in Captures : ConfirmInv(c)'
  <2>1. ASSUME NEW r \in Requests, NEW p \in IdOrNone, NEW a \in {"ok", "error"}, EnvPay(r, a, p)
        PROVE  CallsTypeOK' /\ \A c \in Captures : ConfirmInv(c)'
    <3>1. [payCall[r] EXCEPT !.st = a, !.payment = p] \in PayCallType
      BY <1>1 DEF BookingTypeOK, CallsTypeOK, PayCallType, CallState
    <3> QED BY <1>1, <2>1, <3>1 DEF EnvPay, BookingTypeOK, CallsTypeOK, IInv, ConfirmInv
  <2>2. ASSUME NEW c \in Captures, NEW b \in Requests, NEW p \in Requests, EnvConfirm(c, b, p)
        PROVE  CallsTypeOK' /\ \A d \in Captures : ConfirmInv(d)'
    <3>1. [st |-> "sent", booking |-> b, payment |-> p] \in ConfirmCallType
      BY DEF ConfirmCallType, CallState, IdOrNone
    <3> QED BY <1>1, <2>2, <3>1 DEF EnvConfirm, BookingTypeOK, CallsTypeOK, IInv, ConfirmInv
  <2>3. ASSUME NEW c \in Captures, NEW a \in {"ok", "error"}, EnvNotice(c, a)
        PROVE  CallsTypeOK' /\ \A d \in Captures : ConfirmInv(d)'
    BY <1>1, <2>3 DEF EnvNotice, BookingTypeOK, CallsTypeOK, CallState, IInv, ConfirmInv
  <2>4. ASSUME NEW r \in Requests, DropPay(r)
        PROVE  CallsTypeOK' /\ \A c \in Captures : ConfirmInv(c)'
    BY <1>1, <2>4 DEF DropPay, BookingTypeOK, CallsTypeOK, PayCallType, CallState, IInv, ConfirmInv
  <2>5. ASSUME NEW c \in Captures, DropConfirm(c)
        PROVE  CallsTypeOK' /\ \A d \in Captures : ConfirmInv(d)'
    BY <1>1, <2>5 DEF DropConfirm, BookingTypeOK, CallsTypeOK, ConfirmCallType, CallState, IInv, ConfirmInv
  <2>6. ASSUME NEW c \in Captures, DropNotice(c)
        PROVE  CallsTypeOK' /\ \A d \in Captures : ConfirmInv(d)'
    BY <1>1, <2>6 DEF DropNotice, BookingTypeOK, CallsTypeOK, CallState, IInv, ConfirmInv
  <2> QED BY <2>1, <2>2, <2>3, <2>4, <2>5, <2>6 DEF BookingEnv, Drop
<1>3. BookingTypeOK'
  BY <1>1, <1>2 DEF BookingTypeOK
<1>4. \A r \in Requests : ReserveInv(r)' /\ BookingInv(r)'
  BY <1>1, <1>3, RowsKept DEF SameRows
<1>5. \A x \in Cancels : CancelInv(x)'
  BY <1>1 DEF IInv, CancelInv
<1> QED BY <1>2, <1>3, <1>4, <1>5 DEF IInv

-----------------------------------------------------------------------------
LEMMA InitInv == BookingInit /\ CallsInit => IInv
<1> SUFFICES ASSUME BookingInit, CallsInit PROVE IInv
  OBVIOUS
<1>1. BookingTypeOK
  <2>1. 0 \in 0..MaxQty
    BY MaxQtyAssumption
  <2>2. inventory \in [Events -> InventoryType]
    BY DEF BookingInit, InventoryType
  <2>3. bookings \in [Requests -> BookingType]
    BY <2>1 DEF BookingInit, BookingType, BookingStatus, IdOrNone
  <2>4. reserve \in [Requests -> ReserveType]
    BY <2>1 DEF BookingInit, ReserveType, IdOrNone
  <2>5. confirm \in [Captures -> ConfirmType] /\ cancel \in [Cancels -> CancelType]
    BY DEF BookingInit, ConfirmType, CancelType, IdOrNone
  <2>6. CallsTypeOK
    BY DEF CallsInit, CallsTypeOK, PayCallType, ConfirmCallType, CallState, IdOrNone
  <2> QED BY <2>2, <2>3, <2>4, <2>5, <2>6 DEF BookingTypeOK, BookingInit
<1>2. \A r \in Requests : ReserveInv(r) /\ BookingInv(r)
  BY DEF BookingInit, ReserveInv, BookingInv, InFlight
<1>3. \A c \in Captures : ConfirmInv(c)
  BY DEF BookingInit, CallsInit, ConfirmInv
<1>4. \A x \in Cancels : CancelInv(x)
  BY DEF BookingInit, CancelInv
<1> QED BY <1>1, <1>2, <1>3, <1>4 DEF IInv

LEMMA NextInv == IInv /\ [BookingNext]_allBookingVars => IInv'
<1> SUFFICES ASSUME IInv, [BookingNext]_allBookingVars PROVE IInv'
  OBVIOUS
<1>1. CASE BookingEnv
  BY <1>1, EnvInv
<1>2. ASSUME NEW e \in Events, NEW n \in SeatCounts, PublishInventory(e, n) PROVE IInv'
  BY <1>2, PublishInv
<1>3. ASSUME NEW r \in Requests, NEW k \in Keys, NEW e \in Events, NEW q \in 0..MaxQty,
             NEW m \in BOOLEAN, NEW u \in BOOLEAN, Submit(r, k, e, q, m, u)
      PROVE  IInv'
  BY <1>3, SubmitInv
<1>4. ASSUME NEW r \in Requests, ReserveStep(r) PROVE IInv'
  BY <1>4, LookupInv, ReadInv, DecrementInv, CreateInv, PayInv, LinkInv DEF ReserveStep
<1>5. ASSUME NEW r \in Requests, ReserveFail(r) PROVE IInv'
  BY <1>5, GiveUpInv DEF ReserveFail, InFlight
<1>6. ASSUME NEW c \in Captures, ConfirmStep(c) \/ ConfirmFail(c) PROVE IInv'
  BY <1>6, ConfirmReadInv, IssueInv, ConfirmEndInv DEF ConfirmStep
<1>7. ASSUME NEW x \in Cancels, NEW b \in Requests, CancelRead(x, b) PROVE IInv'
  BY <1>7, CancelReadInv
<1>8. ASSUME NEW x \in Cancels, CancelStep(x) \/ CancelFail(x) PROVE IInv'
  BY <1>8, CancelReleaseInv, CancelMarkInv, CancelFailInv DEF CancelStep
<1>9. CASE UNCHANGED allBookingVars
  <2>1. /\ UNCHANGED <<inventory, bookings, tickets, bookingOutbox, reserve, confirm, cancel>>
        /\ UNCHANGED <<payCall, confirmCall, noticeCall>>
    BY <1>9 DEF allBookingVars, bookingVars, callVars
  <2>2. BookingTypeOK'
    BY <2>1 DEF IInv, BookingTypeOK, CallsTypeOK
  <2>3. \A r \in Requests : ReserveInv(r)' /\ BookingInv(r)'
    BY <2>1, <2>2, RowsKept DEF SameRows
  <2>4. (\A c \in Captures : ConfirmInv(c)') /\ (\A x \in Cancels : CancelInv(x)')
    BY <2>1 DEF IInv, ConfirmInv, CancelInv
  <2> QED BY <2>2, <2>3, <2>4 DEF IInv
<1> QED
  BY <1>1, <1>2, <1>3, <1>4, <1>5, <1>6, <1>7, <1>8, <1>9 DEF BookingNext, BookingSystem

(* IInv holds in every reachable state: it is inductive. *)
THEOREM Invariance == BookingSpec => []IInv
BY InitInv, NextInv, PTL DEF BookingSpec, BookingStart

(* Every variable keeps its type; in particular availableSeats, decremented *)
(* under a condition on a version read by another statement, stays >= 0.    *)
THEOREM BookingTypeCorrect == BookingSpec => []BookingTypeOK
<1>1. IInv => BookingTypeOK
  BY DEF IInv
<1> QED BY <1>1, Invariance, PTL

(* Answers under one idempotency key name one booking. *)
THEOREM KeyIdempotent == BookingSpec => []KeyNamesOneBooking
<1>1. IInv => KeyNamesOneBooking
  <2> SUFFICES ASSUME IInv, NEW r \in Requests, NEW s \in Requests,
                      reserve[r].booking # None, reserve[s].booking # None,
                      reserve[r].key = reserve[s].key
               PROVE  reserve[r].booking = reserve[s].booking
    BY DEF KeyNamesOneBooking
  <2>1. reserve[r].booking \in Requests /\ reserve[s].booking \in Requests
    BY DEF IInv, BookingTypeOK, ReserveType, IdOrNone
  <2> QED BY <2>1 DEF IInv, ReserveInv, BookingInv
<1> QED BY <1>1, Invariance, PTL

-----------------------------------------------------------------------------
(* Counting seats. *)

LEMMA BlockCard ==
  ASSUME NEW S, IsFiniteSet(S), NEW x, NEW q \in Nat, S \cap ({x} \X (1..q)) = {}
  PROVE  /\ IsFiniteSet(S \cup ({x} \X (1..q)))
         /\ Cardinality(S \cup ({x} \X (1..q))) = Cardinality(S) + q
<1> DEFINE B == {x} \X (1..q)
<1>1. IsFiniteSet({x}) /\ Cardinality({x}) = 1
  BY FS_Singleton
<1>2. IsFiniteSet(1..q) /\ Cardinality(1..q) = q
  BY FS_Interval
<1>3. IsFiniteSet(B) /\ Cardinality(B) = Cardinality({x}) * Cardinality(1..q)
  BY <1>1, <1>2, FS_Product
<1>4. Cardinality(B) = q
  BY <1>1, <1>2, <1>3
<1>5. S \cap B = {} /\ Cardinality(S \cap B) = 0 /\ Cardinality(S) \in Nat
  BY FS_EmptySet, FS_CardinalityType
<1> HIDE DEF B
<1>6. /\ IsFiniteSet(S \cup B)
      /\ Cardinality(S \cup B) = Cardinality(S) + Cardinality(B) - Cardinality(S \cap B)
  BY <1>3, FS_Union
<1>7. IsFiniteSet(S \cup B) /\ Cardinality(S \cup B) = Cardinality(S) + q
  BY <1>4, <1>5, <1>6
<1> QED BY <1>7 DEF B

LEMMA SeatsFinite ==
  ASSUME NEW e
  PROVE  /\ IsFiniteSet(TakenSeats(e)) /\ Cardinality(TakenSeats(e)) \in Nat
         /\ IsFiniteSet(BookedSeats(e)) /\ Cardinality(BookedSeats(e)) \in Nat
         /\ IsFiniteSet(ReleasedSeats(e)) /\ Cardinality(ReleasedSeats(e)) \in Nat
<1>1. IsFiniteSet(1..MaxQty)
  BY MaxQtyAssumption, FS_Interval
<1>2. IsFiniteSet(Requests \X (1..MaxQty)) /\ IsFiniteSet(Cancels \X (1..MaxQty))
  BY <1>1, IdsAssumption, CancelsAssumption, FS_Product
<1>3. /\ TakenSeats(e) \in SUBSET (Requests \X (1..MaxQty))
      /\ BookedSeats(e) \in SUBSET (Requests \X (1..MaxQty))
      /\ ReleasedSeats(e) \in SUBSET (Cancels \X (1..MaxQty))
  BY DEF TakenSeats, BookedSeats, ReleasedSeats
<1>4. IsFiniteSet(TakenSeats(e)) /\ IsFiniteSet(BookedSeats(e)) /\ IsFiniteSet(ReleasedSeats(e))
  BY <1>2, <1>3, FS_Subset
<1> QED BY <1>4, FS_CardinalityType

(* What a step may leave alone: the seats taken, the seats released, the    *)
(* counters of the rows.                                                    *)
TakenKept ==
  \A r \in Requests :
    /\ reserve'[r].took = reserve[r].took
    /\ reserve[r].took => /\ reserve'[r].event = reserve[r].event
                          /\ reserve'[r].qty = reserve[r].qty
                          /\ reserve'[r].version = reserve[r].version
ReleasedKept ==
  \A x \in Cancels :
    /\ cancel'[x].released = cancel[x].released
    /\ cancel[x].released =>
         /\ cancel'[x].booking = cancel[x].booking
         /\ bookings'[cancel[x].booking].event = bookings[cancel[x].booking].event
         /\ bookings'[cancel[x].booking].qty = bookings[cancel[x].booking].qty
Takes(r) == DecrementSeats(r) /\ TakeSeats(reserve[r].event, reserve[r].qty)
            /\ EnoughLeft(reserve[r].event, reserve[r].qty) /\ SameVersion(r)
            /\ reserve' = [reserve EXCEPT ![r].pc = "create", ![r].took = TRUE]

(* Every step is one of four kinds. *)
LEMMA StepKinds ==
  ASSUME IInv, [BookingNext]_allBookingVars
  PROVE  \/ TakenKept /\ ReleasedKept /\ UNCHANGED inventory
         \/ \E e \in Events, n \in SeatCounts : PublishInventory(e, n)
         \/ \E r \in Requests : Takes(r)
         \/ \E x \in Cancels : CancelRelease(x)
<1> DEFINE Kept == TakenKept /\ ReleasedKept /\ UNCHANGED inventory
<1>1. BookingTypeOK
  BY DEF IInv
<1>2. CASE BookingEnv \/ UNCHANGED allBookingVars
  <2>1. UNCHANGED <<inventory, bookings, reserve, cancel>>
    BY <1>2 DEF BookingEnv, EnvPay, EnvConfirm, EnvNotice, bookingVars, allBookingVars
  <2> QED BY <2>1 DEF TakenKept, ReleasedKept
<1>3. ASSUME NEW r \in Requests, NEW k \in Keys, NEW e \in Events, NEW q \in 0..MaxQty,
             NEW m \in BOOLEAN, NEW u \in BOOLEAN, Submit(r, k, e, q, m, u)
      PROVE  Kept
  <2>1. ~reserve[r].took /\ UNCHANGED <<inventory, bookings, cancel>>
    BY <1>3 DEF Submit, IInv, ReserveInv, storeVars
  <2> QED BY <1>1, <1>3, <2>1 DEF Submit, TakenKept, ReleasedKept, BookingTypeOK, ReserveType
<1>4. ASSUME NEW r \in Requests, LookupKey(r) \/ ReadInventory(r) \/ PaymentAnswered(r) \/ ReserveFail(r)
      PROVE  Kept
  <2>1. UNCHANGED <<inventory, bookings, cancel>>
    BY <1>4 DEF LookupKey, ReadInventory, PaymentAnswered, ReserveFail, storeVars
  <2>2. CASE ReadInventory(r)
    <3>1. ~reserve[r].took
      BY <2>2 DEF ReadInventory, IInv, ReserveInv
    <3> QED BY <1>1, <2>1, <2>2, <3>1 DEF ReadInventory, TakenKept, ReleasedKept, BookingTypeOK, ReserveType
  <2>3. CASE LookupKey(r)
    <3>1. CASE reserve' = [reserve EXCEPT ![r].pc = "read"]
      BY <1>1, <2>1, <3>1 DEF TakenKept, ReleasedKept, BookingTypeOK, ReserveType
    <3>2. ASSUME NEW b, NEW p,
                 reserve' = [reserve EXCEPT ![r].pc = "done", ![r].booking = b, ![r].payment = p]
          PROVE  Kept
      BY <1>1, <2>1, <3>2 DEF TakenKept, ReleasedKept, BookingTypeOK, ReserveType
    <3> QED BY <2>3, <3>1, <3>2 DEF LookupKey
  <2>4. CASE PaymentAnswered(r)
    BY <1>1, <2>1, <2>4 DEF PaymentAnswered, TakenKept, ReleasedKept, BookingTypeOK, ReserveType
  <2>5. CASE ReserveFail(r)
    BY <1>1, <2>1, <2>5 DEF ReserveFail, TakenKept, ReleasedKept, BookingTypeOK, ReserveType
  <2> QED BY <1>4, <2>2, <2>3, <2>4, <2>5
<1>5. ASSUME NEW r \in Requests, DecrementSeats(r), ~Takes(r) PROVE Kept
  <2>1. /\ reserve' = [reserve EXCEPT ![r].pc = "failed"]
        /\ UNCHANGED <<inventory, bookings, cancel>>
    BY <1>5 DEF DecrementSeats, Takes
  <2> QED BY <1>1, <2>1 DEF TakenKept, ReleasedKept, BookingTypeOK, ReserveType
<1>6. ASSUME NEW r \in Requests, CreateBooking(r) PROVE Kept
  <2>1. bookings[r].status = "none" /\ UNCHANGED <<inventory, cancel>>
    BY <1>6 DEF CreateBooking, IInv, ReserveInv
  <2>2. TakenKept
    <3>1. PICK pc \in {"pay", "failed"} : reserve' = [reserve EXCEPT ![r].pc = pc]
      BY <1>6 DEF CreateBooking
    <3>2. reserve \in [Requests -> ReserveType]
      BY <1>1 DEF BookingTypeOK
    <3> QED BY <3>1, <3>2 DEF TakenKept, ReserveType
  <2>3. \A b \in Requests : b # r => bookings'[b] = bookings[b]
    BY <1>1, <1>6 DEF CreateBooking, BookingTypeOK
  <2>4. ReleasedKept
    BY <1>1, <2>1, <2>3 DEF IInv, CancelInv, ReleasedKept
  <2> QED BY <2>1, <2>2, <2>4
<1>7. ASSUME NEW r \in Requests, LinkPayment(r) PROVE Kept
  <2>1. UNCHANGED <<inventory, cancel>>
    BY <1>7 DEF LinkPayment
  <2>2. TakenKept
    <3>1. CASE reserve' = [reserve EXCEPT ![r].pc = "failed"]
      BY <1>1, <3>1 DEF TakenKept, BookingTypeOK, ReserveType
    <3>2. CASE reserve' = [reserve EXCEPT ![r].pc = "done", ![r].booking = r]
      BY <1>1, <3>2 DEF TakenKept, BookingTypeOK, ReserveType
    <3> QED BY <1>7, <3>1, <3>2 DEF LinkPayment
  <2>3. \A b \in Requests : bookings'[b].event = bookings[b].event /\ bookings'[b].qty = bookings[b].qty
    BY <1>1, <1>7 DEF LinkPayment, BookingTypeOK, BookingType
  <2>4. ReleasedKept
    BY <2>1, <2>3 DEF IInv, CancelInv, ReleasedKept
  <2> QED BY <2>1, <2>2, <2>4
<1>8. ASSUME NEW c \in Captures, ConfirmStep(c) \/ ConfirmFail(c) PROVE Kept
  <2>1. UNCHANGED <<inventory, reserve, cancel>>
    BY <1>8 DEF ConfirmStep, ConfirmRead, IssueTickets, ConfirmDone, ConfirmFail, storeVars
  <2>2. \A b \in Requests : bookings'[b].event = bookings[b].event /\ bookings'[b].qty = bookings[b].qty
    BY <1>1, <1>8 DEF ConfirmStep, ConfirmRead, IssueTickets, ConfirmDone, ConfirmFail, storeVars,
       BookingTypeOK, BookingType
  <2> QED BY <2>1, <2>2 DEF IInv, CancelInv, TakenKept, ReleasedKept
<1>9. ASSUME NEW x \in Cancels,
             (\E b \in Requests : CancelRead(x, b)) \/ CancelMark(x) \/ CancelFail(x)
      PROVE  Kept
  <2>1. UNCHANGED <<inventory, reserve>>
    BY <1>9 DEF CancelRead, CancelMark, CancelFail, storeVars
  <2>2. \A b \in Requests : bookings'[b].event = bookings[b].event /\ bookings'[b].qty = bookings[b].qty
    <3>1. bookings' = bookings \/ bookings' = [bookings EXCEPT ![cancel[x].booking].status = "CANCELLED"]
      BY <1>9 DEF CancelRead, CancelMark, CancelFail, storeVars
    <3> QED BY <1>1, <3>1 DEF BookingTypeOK, BookingType
  <2>3. \A y \in Cancels : /\ cancel'[y].released = cancel[y].released
                           /\ cancel[y].released => cancel'[y].booking = cancel[y].booking
    <3>1. CASE \E b \in Requests : CancelRead(x, b)
      <4>1. ~cancel[x].released /\ cancel[x] \in CancelType
        BY <1>1, <3>1 DEF CancelRead, IInv, CancelInv, BookingTypeOK
      <4>2. PICK b \in Requests, p \in {"release", "done"} :
              cancel' = [cancel EXCEPT ![x].pc = p, ![x].booking = b]
        BY <3>1 DEF CancelRead
      <4> QED BY <1>1, <4>1, <4>2 DEF BookingTypeOK, CancelType
    <3>2. CASE CancelMark(x) \/ CancelFail(x)
      <4>1. PICK p \in {"done", "failed"} : cancel' = [cancel EXCEPT ![x].pc = p]
        BY <3>2 DEF CancelMark, CancelFail
      <4> QED BY <1>1, <4>1 DEF BookingTypeOK, CancelType
    <3> QED BY <1>9, <3>1, <3>2
  <2> QED BY <2>1, <2>2, <2>3 DEF IInv, CancelInv, TakenKept, ReleasedKept
<1> QED
  BY <1>2, <1>3, <1>4, <1>5, <1>6, <1>7, <1>8, <1>9
     DEF BookingNext, BookingSystem, ReserveStep, CancelStep

LEMMA SeatsKept ==
  ASSUME TakenKept, ReleasedKept, NEW e
  PROVE  TakenSeats(e)' = TakenSeats(e) /\ ReleasedSeats(e)' = ReleasedSeats(e)
<1>1. ASSUME NEW r \in Requests, NEW j \in 1..MaxQty
      PROVE  <<r, j>> \in TakenSeats(e)' <=> <<r, j>> \in TakenSeats(e)
  BY DEF TakenKept, TakenSeats
<1>2. ASSUME NEW x \in Cancels, NEW j \in 1..MaxQty
      PROVE  <<x, j>> \in ReleasedSeats(e)' <=> <<x, j>> \in ReleasedSeats(e)
  BY DEF ReleasedKept, ReleasedSeats
<1> QED BY <1>1, <1>2 DEF TakenSeats, ReleasedSeats

(* A grant adds exactly the block of seats it asks for to its event. *)
LEMMA TakesSeats ==
  ASSUME IInv, NEW r \in Requests, Takes(r), NEW e \in Events
  PROVE  /\ TakenSeats(e)' = IF e = reserve[r].event
                              THEN TakenSeats(e) \cup ({r} \X (1..reserve[r].qty))
                              ELSE TakenSeats(e)
         /\ TakenSeats(e) \cap ({r} \X (1..reserve[r].qty)) = {}
         /\ ReleasedSeats(e)' = ReleasedSeats(e)
<1>1. /\ BookingTypeOK /\ ~reserve[r].took /\ reserve[r].qty \in 0..MaxQty
      /\ UNCHANGED <<bookings, cancel>>
      /\ reserve' = [reserve EXCEPT ![r].pc = "create", ![r].took = TRUE]
  BY DEF Takes, DecrementSeats, IInv, ReserveInv, BookingTypeOK, ReserveType
<1>2. \A s \in Requests : /\ reserve'[s].event = reserve[s].event
                          /\ reserve'[s].qty = reserve[s].qty
                          /\ reserve'[s].took = IF s = r THEN TRUE ELSE reserve[s].took
  BY <1>1 DEF BookingTypeOK, ReserveType
<1>3. ReleasedSeats(e)' = ReleasedSeats(e)
  BY <1>1 DEF ReleasedSeats
<1>4. TakenSeats(e) \cap ({r} \X (1..reserve[r].qty)) = {}
  BY <1>1 DEF TakenSeats
<1>5. ASSUME NEW s \in Requests, NEW j \in 1..MaxQty
      PROVE  <<s, j>> \in TakenSeats(e)' <=>
               \/ <<s, j>> \in TakenSeats(e)
               \/ s = r /\ e = reserve[r].event /\ j <= reserve[r].qty
  BY <1>1, <1>2 DEF TakenSeats
<1>6. 1..reserve[r].qty \subseteq 1..MaxQty
  BY <1>1, MaxQtyAssumption
<1>7. CASE e = reserve[r].event
  <2>1. ASSUME NEW s \in Requests, NEW j \in 1..MaxQty
        PROVE  <<s, j>> \in TakenSeats(e)' <=>
                 <<s, j>> \in TakenSeats(e) \cup ({r} \X (1..reserve[r].qty))
    BY <1>1, <1>5, <1>7, MaxQtyAssumption
  <2> QED BY <1>3, <1>4, <1>6, <1>7, <2>1 DEF TakenSeats
<1>8. CASE e # reserve[r].event
  <2>1. TakenSeats(e)' = TakenSeats(e)
    BY <1>5, <1>8 DEF TakenSeats
  <2> QED BY <1>3, <1>4, <1>8, <2>1
<1> QED BY <1>7, <1>8

LEMMA ReleasesSeats ==
  ASSUME IInv, NEW x \in Cancels, CancelRelease(x), NEW e \in Events
  PROVE  LET row == bookings[cancel[x].booking] IN
         /\ ReleasedSeats(e)' = IF e = row.event
                                 THEN ReleasedSeats(e) \cup ({x} \X (1..row.qty))
                                 ELSE ReleasedSeats(e)
         /\ ReleasedSeats(e) \cap ({x} \X (1..row.qty)) = {}
         /\ TakenSeats(e)' = TakenSeats(e)
         /\ row.event \in Events /\ row.qty \in Nat
<1> DEFINE row == bookings[cancel[x].booking]
<1>1. /\ BookingTypeOK /\ ~cancel[x].released /\ cancel[x].booking \in Requests
      /\ row.status # "none" /\ row.qty \in 0..MaxQty
      /\ UNCHANGED <<bookings, reserve>>
      /\ cancel' = [cancel EXCEPT ![x].pc = "mark", ![x].released = TRUE]
  BY DEF CancelRelease, IInv, CancelInv, BookingTypeOK, BookingType
<1>2. row.event \in Events
  BY <1>1 DEF IInv, BookingInv, ReserveInv
<1>3. \A y \in Cancels : /\ cancel'[y].booking = cancel[y].booking
                         /\ cancel'[y].released = IF y = x THEN TRUE ELSE cancel[y].released
  BY <1>1 DEF BookingTypeOK, CancelType
<1>4. TakenSeats(e)' = TakenSeats(e)
  BY <1>1 DEF TakenSeats
<1>5. ReleasedSeats(e) \cap ({x} \X (1..row.qty)) = {}
  BY <1>1 DEF ReleasedSeats
<1>6. ASSUME NEW y \in Cancels, NEW j \in 1..MaxQty
      PROVE  <<y, j>> \in ReleasedSeats(e)' <=>
               \/ <<y, j>> \in ReleasedSeats(e)
               \/ y = x /\ e = row.event /\ j <= row.qty
  BY <1>1, <1>3 DEF ReleasedSeats
<1>7. 1..row.qty \subseteq 1..MaxQty
  BY <1>1, MaxQtyAssumption
<1>8. CASE e = row.event
  <2>1. ASSUME NEW y \in Cancels, NEW j \in 1..MaxQty
        PROVE  <<y, j>> \in ReleasedSeats(e)' <=>
                 <<y, j>> \in ReleasedSeats(e) \cup ({x} \X (1..row.qty))
    BY <1>1, <1>6, <1>8, MaxQtyAssumption
  <2>2. ReleasedSeats(e)' = ReleasedSeats(e) \cup ({x} \X (1..row.qty))
    BY <1>7, <2>1 DEF ReleasedSeats
  <2> QED BY <1>1, <1>2, <1>4, <1>5, <1>8, <2>2
<1>9. CASE e # row.event
  <2>1. ReleasedSeats(e)' = ReleasedSeats(e)
    BY <1>6, <1>9 DEF ReleasedSeats
  <2> QED BY <1>1, <1>2, <1>4, <1>5, <1>9, <2>1
<1> QED BY <1>8, <1>9

(* Nothing is taken from or given back to an event that is not published.   *)
LEMMA UnpublishedEmpty ==
  ASSUME IInv, NEW e \in Events, ~inventory[e].published
  PROVE  Cardinality(TakenSeats(e)) = 0 /\ Cardinality(ReleasedSeats(e)) = 0
<1>1. TakenSeats(e) = {}
  BY DEF TakenSeats, IInv, ReserveInv
<1>2. ReleasedSeats(e) = {}
  BY DEF ReleasedSeats, IInv, CancelInv, BookingInv, ReserveInv
<1> QED BY <1>1, <1>2, FS_EmptySet

(* In every reachable state the counter of each event is its seats, minus   *)
(* the seats taken by requests (also by those that failed afterwards), plus *)
(* the seats given back by cancellations.                                   *)
THEOREM SeatsConserved == BookingSpec => []SeatConservation
<1>1. BookingInit /\ CallsInit => SeatConservation
  <2> SUFFICES ASSUME BookingInit, CallsInit, NEW e \in Events
               PROVE  inventory[e].availableSeats + Cardinality(TakenSeats(e))
                        = inventory[e].totalSeats + Cardinality(ReleasedSeats(e))
    BY DEF SeatConservation
  <2>1. IInv /\ ~inventory[e].published
    BY InitInv DEF BookingInit
  <2> QED BY <2>1, UnpublishedEmpty DEF BookingInit
<1>2. IInv /\ SeatConservation /\ [BookingNext]_allBookingVars => SeatConservation'
  <2> SUFFICES ASSUME IInv, SeatConservation, [BookingNext]_allBookingVars, NEW e \in Events
               PROVE  (inventory[e].availableSeats + Cardinality(TakenSeats(e))
                        = inventory[e].totalSeats + Cardinality(ReleasedSeats(e)))'
    BY DEF SeatConservation
  <2> DEFINE taken == Cardinality(TakenSeats(e))
             released == Cardinality(ReleasedSeats(e))
  <2>1. /\ BookingTypeOK /\ taken \in Nat /\ released \in Nat
        /\ inventory[e].availableSeats \in Nat /\ inventory[e].totalSeats \in Nat
        /\ inventory[e].availableSeats + taken = inventory[e].totalSeats + released
    BY SeatsFinite DEF IInv, BookingTypeOK, InventoryType, SeatConservation
  <2>2. CASE TakenKept /\ ReleasedKept /\ UNCHANGED inventory
    BY <2>1, <2>2, SeatsKept
  <2>3. ASSUME NEW d \in Events, NEW n \in SeatCounts, PublishInventory(d, n)
        PROVE  (inventory[e].availableSeats + taken = inventory[e].totalSeats + released)'
    <3>1. TakenSeats(e)' = TakenSeats(e) /\ ReleasedSeats(e)' = ReleasedSeats(e)
      BY <2>3 DEF PublishInventory, TakenSeats, ReleasedSeats
    <3>2. CASE e = d
      <4>1. taken = 0 /\ released = 0
        BY <2>3, <3>2, UnpublishedEmpty DEF PublishInventory
      <4>2. inventory'[e].availableSeats = inventory'[e].totalSeats /\ inventory'[e].totalSeats \in Nat
        BY <2>1, <2>3, <3>2, SeatCountsAssumption DEF PublishInventory, BookingTypeOK
      <4> QED BY <3>1, <4>1, <4>2
    <3>3. CASE e # d
      BY <2>1, <2>3, <3>1, <3>3 DEF PublishInventory, BookingTypeOK
    <3> QED BY <3>2, <3>3
  <2>4. ASSUME NEW r \in Requests, Takes(r)
        PROVE  (inventory[e].availableSeats + taken = inventory[e].totalSeats + released)'
    <3> DEFINE q == reserve[r].qty
    <3>1. /\ q \in Nat /\ reserve[r].event \in Events
          /\ inventory' = [inventory EXCEPT ![reserve[r].event].availableSeats = @ - q,
                                            ![reserve[r].event].version = @ + 1]
      BY <2>1, <2>4, MaxQtyAssumption
         DEF Takes, DecrementSeats, TakeSeats, IInv, ReserveInv, BookingTypeOK, ReserveType
    <3>2. CASE e = reserve[r].event
      <4> DEFINE block == {r} \X (1..q)
      <4>3. /\ TakenSeats(e)' = TakenSeats(e) \cup block
            /\ TakenSeats(e) \cap block = {}
            /\ ReleasedSeats(e)' = ReleasedSeats(e)
        BY <2>4, <3>2, TakesSeats
      <4>4. Cardinality(TakenSeats(e) \cup block) = Cardinality(TakenSeats(e)) + q
        BY <3>1, <4>3, SeatsFinite, BlockCard
      <4>1. taken' = taken + q /\ released' = released
        BY <4>3, <4>4
      <4>2. /\ inventory'[e].availableSeats = inventory[e].availableSeats - q
            /\ inventory'[e].totalSeats = inventory[e].totalSeats
        BY <2>1, <3>1, <3>2 DEF BookingTypeOK, InventoryType
      <4>5. q \in Nat
        BY <3>1
      <4> HIDE DEF taken, released, q
      <4> QED BY <2>1, <4>1, <4>2, <4>5
    <3>3. CASE e # reserve[r].event
      <4>1. taken' = taken /\ released' = released
        BY <2>4, <3>3, TakesSeats
      <4>2. inventory'[e] = inventory[e]
        BY <2>1, <3>1, <3>3 DEF BookingTypeOK
      <4> QED BY <2>1, <4>1, <4>2
    <3> QED BY <3>2, <3>3
  <2>5. ASSUME NEW x \in Cancels, CancelRelease(x)
        PROVE  (inventory[e].availableSeats + taken = inventory[e].totalSeats + released)'
    <3> DEFINE row == bookings[cancel[x].booking]
    <3>1. /\ row.qty \in Nat /\ row.event \in Events
          /\ inventory' = [inventory EXCEPT ![row.event].availableSeats = @ + row.qty]
      BY <2>5, ReleasesSeats DEF CancelRelease
    <3>2. CASE e = row.event
      <4> DEFINE block == {x} \X (1..row.qty)
      <4>3. /\ ReleasedSeats(e)' = ReleasedSeats(e) \cup block
            /\ ReleasedSeats(e) \cap block = {}
            /\ TakenSeats(e)' = TakenSeats(e)
        BY <2>5, <3>2, ReleasesSeats
      <4>4. Cardinality(ReleasedSeats(e) \cup block) = Cardinality(ReleasedSeats(e)) + row.qty
        BY <3>1, <4>3, SeatsFinite, BlockCard
      <4>1. taken' = taken /\ released' = released + row.qty
        BY <4>3, <4>4
      <4>2. /\ inventory'[e].availableSeats = inventory[e].availableSeats + row.qty
            /\ inventory'[e].totalSeats = inventory[e].totalSeats
        BY <2>1, <3>1, <3>2 DEF BookingTypeOK, InventoryType
      <4>5. row.qty \in Nat
        BY <3>1
      <4> HIDE DEF taken, released, row
      <4> QED BY <2>1, <4>1, <4>2, <4>5
    <3>3. CASE e # row.event
      <4>1. taken' = taken /\ released' = released
        BY <2>5, <3>3, ReleasesSeats
      <4>2. inventory'[e] = inventory[e]
        BY <2>1, <3>1, <3>3 DEF BookingTypeOK
      <4> QED BY <2>1, <4>1, <4>2
    <3> QED BY <3>2, <3>3
  <2> QED BY <2>2, <2>3, <2>4, <2>5, StepKinds
<1> QED BY <1>1, <1>2, Invariance, PTL DEF BookingSpec, BookingStart

(* As long as nothing cancels bookings, the pending and confirmed bookings  *)
(* of an event never ask for more seats than the event has.                 *)
THEOREM NeverOversold ==
  ASSUME Cancels = {}
  PROVE  BookingSpec => []NoOversell
<1>1. IInv /\ SeatConservation => NoOversell
  <2> SUFFICES ASSUME IInv, SeatConservation, NEW e \in Events
               PROVE  Cardinality(BookedSeats(e)) <= inventory[e].totalSeats
    BY DEF NoOversell
  <2>1. BookedSeats(e) \in SUBSET TakenSeats(e)
    BY DEF BookedSeats, TakenSeats, IInv, BookingInv
  <2>2. Cardinality(BookedSeats(e)) <= Cardinality(TakenSeats(e))
    BY <2>1, SeatsFinite, FS_Subset
  <2>3. ReleasedSeats(e) = {}
    BY DEF ReleasedSeats
  <2>4. Cardinality(ReleasedSeats(e)) = 0
    BY <2>3, FS_EmptySet
  <2>5. /\ inventory[e].availableSeats \in Nat /\ inventory[e].totalSeats \in Nat
        /\ Cardinality(TakenSeats(e)) \in Nat /\ Cardinality(BookedSeats(e)) \in Nat
    BY SeatsFinite DEF IInv, BookingTypeOK, InventoryType
  <2> QED BY <2>2, <2>4, <2>5 DEF SeatConservation
<1> QED BY <1>1, Invariance, SeatsConserved, PTL

(* Of the requests that read one version of a row, at most one takes seats. *)
THEOREM OptimisticLock == BookingSpec => []OneWinnerPerVersion
<1>1. BookingInit /\ CallsInit => OneWinnerPerVersion
  BY DEF BookingInit, OneWinnerPerVersion
<1>2. IInv /\ OneWinnerPerVersion /\ [BookingNext]_allBookingVars => OneWinnerPerVersion'
  <2> SUFFICES ASSUME IInv, OneWinnerPerVersion, [BookingNext]_allBookingVars
               PROVE  OneWinnerPerVersion'
    OBVIOUS
  <2>1. CASE TakenKept
    BY <2>1 DEF TakenKept, OneWinnerPerVersion
  <2>2. ASSUME NEW r \in Requests, Takes(r) PROVE OneWinnerPerVersion'
    <3>1. /\ BookingTypeOK /\ reserve[r].event \in Events
          /\ reserve[r].version = inventory[reserve[r].event].version
          /\ reserve' = [reserve EXCEPT ![r].pc = "create", ![r].took = TRUE]
      BY <2>2 DEF Takes, DecrementSeats, SameVersion, IInv, ReserveInv
    <3>2. \A s \in Requests : /\ reserve'[s].event = reserve[s].event
                              /\ reserve'[s].version = reserve[s].version
                              /\ reserve'[s].took = IF s = r THEN TRUE ELSE reserve[s].took
      BY ZenonT(40), <3>1 DEF BookingTypeOK, ReserveType
    <3>3. ASSUME NEW s \in Requests, reserve[s].took, reserve[s].event = reserve[r].event
          PROVE  reserve[s].version # reserve[r].version
      <4>1. reserve[s].version < inventory[reserve[r].event].version
        BY <3>3 DEF IInv, ReserveInv
      <4>2. /\ reserve[s].version \in Nat
            /\ inventory[reserve[r].event].version \in Nat
        BY <3>1 DEF BookingTypeOK, ReserveType, InventoryType
      <4> QED BY <3>1, <4>1, <4>2
    <3>4. ASSUME NEW s \in Requests, NEW t \in Requests, s # t,
                 reserve'[s].took, reserve'[t].took, reserve'[s].event = reserve'[t].event
          PROVE  reserve'[s].version # reserve'[t].version
      <4>1. /\ reserve[s].event = reserve[t].event
            /\ reserve'[s].version = reserve[s].version /\ reserve'[t].version = reserve[t].version
            /\ s # r => reserve[s].took
            /\ t # r => reserve[t].took
        BY <3>2, <3>4
      <4>2. CASE s # r /\ t # r
        BY <3>4, <4>1, <4>2 DEF OneWinnerPerVersion
      <4>3. CASE s = r
        BY <3>3, <3>4, <4>1, <4>3
      <4>4. CASE t = r
        BY <3>3, <3>4, <4>1, <4>4
      <4> QED BY <4>2, <4>3, <4>4
    <3> QED BY <3>4 DEF OneWinnerPerVersion
  <2>3. ASSUME NEW e \in Events, NEW n \in SeatCounts, PublishInventory(e, n)
        PROVE  OneWinnerPerVersion'
    BY <2>3 DEF PublishInventory, OneWinnerPerVersion
  <2>4. ASSUME NEW x \in Cancels, CancelRelease(x) PROVE OneWinnerPerVersion'
    BY <2>4 DEF CancelRelease, OneWinnerPerVersion
  <2> QED BY <2>1, <2>2, <2>3, <2>4, StepKinds
<1> QED BY <1>1, <1>2, Invariance, PTL DEF BookingSpec, BookingStart
=============================================================================
