------------------------ MODULE BookingLedgerProofs ------------------------
(***************************************************************************)
(* More proofs about the booking service: it implements the abstract seat  *)
(* ledger, a refused request lost to another, and a retry takes no seats.  *)
(***************************************************************************)
EXTENDS BookingServiceProofs

-----------------------------------------------------------------------------
(* Optimistic locking again, from the loser's side: each version a row has *)
(* left behind was read by a request that took seats.                      *)
VersionsWon ==
  \A e \in Events : \A v \in Nat :
    v < inventory[e].version =>
      \E s \in Requests : reserve[s].took /\ reserve[s].event = e /\ reserve[s].version = v

LEMMA NextVersionsWon ==
  ASSUME IInv, VersionsWon, [BookingNext]_allBookingVars
  PROVE  VersionsWon'
<1>1. BookingTypeOK
  BY DEF IInv
<1>2. CASE TakenKept /\ UNCHANGED inventory
  BY <1>2 DEF TakenKept, VersionsWon
<1>3. ASSUME NEW e \in Events, NEW n \in SeatCounts, PublishInventory(e, n) PROVE VersionsWon'
  <2>1. /\ inventory'[e].version = 0 /\ UNCHANGED reserve
        /\ \A d \in Events \ {e} : inventory'[d] = inventory[d]
    BY <1>1, <1>3 DEF PublishInventory, BookingTypeOK
  <2> QED BY <2>1 DEF VersionsWon
<1>4. ASSUME NEW r \in Requests, Takes(r) PROVE VersionsWon'
  <2> DEFINE e == reserve[r].event
  <2>1. /\ e \in Events /\ inventory \in [Events -> InventoryType]
        /\ reserve \in [Requests -> ReserveType]
        /\ reserve[r].version = inventory[e].version /\ ~reserve[r].took
        /\ reserve' = [reserve EXCEPT ![r].pc = "create", ![r].took = TRUE]
        /\ inventory' = [inventory EXCEPT ![e].availableSeats = @ - reserve[r].qty,
                                          ![e].version = @ + 1]
    BY <1>1, <1>4 DEF Takes, DecrementSeats, TakeSeats, SameVersion, IInv, ReserveInv, BookingTypeOK
  <2>2. /\ reserve'[r].took /\ reserve'[r].event = e /\ reserve'[r].version = inventory[e].version
        /\ \A s \in Requests \ {r} : reserve'[s] = reserve[s]
    BY <2>1 DEF ReserveType
  <2>3. /\ inventory'[e].version = inventory[e].version + 1 /\ inventory[e].version \in Nat
        /\ \A d \in Events \ {e} : inventory'[d] = inventory[d]
    BY <2>1 DEF InventoryType
  <2>4. ASSUME NEW d \in Events, NEW v \in Nat, v < inventory'[d].version
        PROVE  \E s \in Requests :
                 reserve'[s].took /\ reserve'[s].event = d /\ reserve'[s].version = v
    <3>1. CASE d = e /\ v = inventory[e].version
      BY <2>2, <3>1
    <3>2. CASE ~(d = e /\ v = inventory[e].version)
      <4>1. v < inventory[d].version
        BY <2>3, <2>4, <3>2
      <4>2. PICK s \in Requests :
              reserve[s].took /\ reserve[s].event = d /\ reserve[s].version = v
        BY <4>1 DEF VersionsWon
      <4> QED BY <2>1, <2>2, <4>2
    <3> QED BY <3>1, <3>2
  <2> QED BY <2>4 DEF VersionsWon
<1>5. ASSUME NEW x \in Cancels, CancelRelease(x) PROVE VersionsWon'
  <2>1. /\ UNCHANGED reserve
        /\ \A e \in Events : inventory'[e].version = inventory[e].version
    BY <1>1, <1>5 DEF CancelRelease, BookingTypeOK, InventoryType
  <2> QED BY <2>1 DEF VersionsWon
<1> QED BY <1>2, <1>3, <1>4, <1>5, StepKinds

(* createBooking answers "Not enough seats available" only when there are  *)
(* not, or when the version it read was won by a request that took seats.  *)
THEOREM RefusalsHaveWinners == BookingSpec => RefusalHasWinner
<1>1. BookingStart => VersionsWon
  BY DEF BookingStart, BookingInit, VersionsWon
<1>2. IInv /\ VersionsWon /\ [BookingNext]_allBookingVars => VersionsWon'
  BY NextVersionsWon
<1>3. ASSUME IInv, VersionsWon, NEW r \in Requests, DecrementSeats(r), reserve'[r].pc = "failed",
             ~(inventory[reserve[r].event].availableSeats < reserve[r].qty)
      PROVE  \E s \in Requests : /\ reserve[s].took /\ reserve[s].event = reserve[r].event
                                 /\ reserve[s].version = reserve[r].version
  <2> DEFINE e == reserve[r].event
  <2>1. /\ BookingTypeOK /\ e \in Events /\ reserve[r].version <= inventory[e].version
        /\ reserve[r].version \in Nat /\ inventory[e].version \in Nat
        /\ inventory[e].availableSeats \in Nat /\ reserve[r].qty \in Nat
    BY <1>3, MaxQtyAssumption
       DEF DecrementSeats, IInv, ReserveInv, BookingTypeOK, ReserveType, InventoryType
  <2>2. EnoughLeft(e, reserve[r].qty)
    BY <1>3, <2>1 DEF EnoughLeft
  <2>3. ~SameVersion(r)
    <3>1. ASSUME SameVersion(r) PROVE FALSE
      <4>1. reserve' = [reserve EXCEPT ![r].pc = "create", ![r].took = TRUE]
        BY <1>3, <2>2, <3>1 DEF DecrementSeats
      <4> QED BY <1>3, <2>1, <4>1 DEF BookingTypeOK, ReserveType
    <3> QED BY <3>1
  <2>4. reserve[r].version < inventory[e].version
    BY <2>1, <2>3 DEF SameVersion
  <2> QED BY <1>3, <2>1, <2>4 DEF VersionsWon
<1>4. IInv /\ VersionsWon => RefusalIsLost
  BY <1>3 DEF RefusalIsLost
<1> QED BY <1>1, <1>2, <1>4, Invariance, PTL DEF BookingSpec, RefusalHasWinner

-----------------------------------------------------------------------------
(* Bookings stay, under their key. *)
BookedKept ==
  \A b \in Requests : b \in Booked => b \in Booked' /\ bookings'[b].key = bookings[b].key

LEMMA NextKeepsBooked ==
  ASSUME IInv, [BookingNext]_allBookingVars
  PROVE  BookedKept
<1>1. /\ reserve \in [Requests -> ReserveType] /\ bookings \in [Requests -> BookingType]
  BY DEF IInv, BookingTypeOK
<1>2. ASSUME UNCHANGED bookings PROVE BookedKept
  BY <1>2 DEF BookedKept, Booked
<1>3. CASE BookingEnv \/ UNCHANGED allBookingVars
  BY <1>2, <1>3 DEF BookingEnv, EnvPay, EnvConfirm, EnvNotice, bookingVars, allBookingVars
<1>4. ASSUME NEW e \in Events, NEW n \in SeatCounts, PublishInventory(e, n) PROVE BookedKept
  BY <1>2, <1>4 DEF PublishInventory
<1>5. ASSUME NEW r \in Requests, NEW k \in Keys, NEW e \in Events, NEW q \in 0..MaxQty,
             NEW m \in BOOLEAN, NEW u \in BOOLEAN, Submit(r, k, e, q, m, u)
      PROVE  BookedKept
  BY <1>2, <1>5 DEF Submit, storeVars
<1>6. ASSUME NEW r \in Requests, ReserveStep(r) \/ ReserveFail(r) PROVE BookedKept
  <2>1. CASE CreateBooking(r)
    <3>1. r \notin Booked /\ \A s \in Requests \ {r} : bookings'[s] = bookings[s]
      BY <1>1, <2>1 DEF CreateBooking, IInv, ReserveInv, Booked
    <3> QED BY <3>1 DEF BookedKept, Booked
  <2>2. CASE LinkPayment(r)
    BY <1>1, <2>2 DEF LinkPayment, BookedKept, Booked, BookingType
  <2> QED BY <1>2, <1>6, <2>1, <2>2
          DEF ReserveStep, LookupKey, ReadInventory, DecrementSeats, PaymentAnswered, ReserveFail, storeVars
<1>7. ASSUME NEW c \in Captures, ConfirmStep(c) \/ ConfirmFail(c) PROVE BookedKept
  BY <1>1, <1>7 DEF ConfirmStep, ConfirmRead, IssueTickets, ConfirmDone, ConfirmFail, storeVars,
                    BookedKept, Booked, BookingType
<1>8. ASSUME NEW x \in Cancels,
             (\E b \in Requests : CancelRead(x, b)) \/ CancelStep(x) \/ CancelFail(x)
      PROVE  BookedKept
  <2>1. bookings' = bookings \/ bookings' = [bookings EXCEPT ![cancel[x].booking].status = "CANCELLED"]
    BY <1>8 DEF CancelStep, CancelRead, CancelRelease, CancelMark, CancelFail, storeVars
  <2> QED BY <1>1, <2>1 DEF BookedKept, Booked, BookingType
<1> QED BY <1>3, <1>4, <1>5, <1>6, <1>7, <1>8 DEF BookingNext, BookingSystem

(* A request that will never take seats any more: it is over, or it is     *)
(* about to find the booking of its key.                                   *)
Settled(r) ==
  /\ ~reserve[r].took
  /\ \/ reserve[r].pc \in {"done", "failed"}
     \/ reserve[r].pc = "lookup" /\ BookedWithKey(reserve[r].key) # {}

(* A key once booked stays booked. *)
LEMMA KeyStaysBooked ==
  ASSUME BookedKept, NEW k, BookedWithKey(k) # {}
  PROVE  BookedWithKey(k)' # {}
BY DEF BookedKept, BookedWithKey, Booked

(* A settled request only looks its booking up, or fails.                  *)
LEMMA OwnStepSettled ==
  ASSUME IInv, NEW r \in Requests, Settled(r), ReserveStep(r) \/ ReserveFail(r)
  PROVE  reserve'[r].pc \in {"done", "failed"} /\ ~reserve'[r].took
<1>1. reserve \in [Requests -> ReserveType]
  BY DEF IInv, BookingTypeOK
<1>2. CASE LookupKey(r)
  <2>1. PICK b : reserve' = [reserve EXCEPT ![r].pc = "done", ![r].booking = b,
                                            ![r].payment = bookings[b].payment]
    BY <1>2 DEF Settled, LookupKey, Retried
  <2> QED BY <1>1, <2>1 DEF Settled, ReserveType
<1>3. CASE ReserveFail(r)
  BY <1>1, <1>3 DEF Settled, ReserveFail, ReserveType
<1> QED BY <1>2, <1>3 DEF Settled, ReserveStep, ReadInventory, DecrementSeats, CreateBooking,
                          PaymentAnswered, LinkPayment

LEMMA SettledStays ==
  ASSUME IInv, NEW r \in Requests, Settled(r), [BookingNext]_allBookingVars
  PROVE  Settled(r)'
<1>1. reserve \in [Requests -> ReserveType]
  BY DEF IInv, BookingTypeOK
<1>2. ASSUME reserve'[r] = reserve[r] PROVE Settled(r)'
  BY <1>2, NextKeepsBooked, KeyStaysBooked DEF Settled
<1>3. CASE BookingEnv \/ UNCHANGED allBookingVars
  BY <1>2, <1>3 DEF BookingEnv, EnvPay, EnvConfirm, EnvNotice, bookingVars, allBookingVars
<1>4. ASSUME NEW e \in Events, NEW n \in SeatCounts, PublishInventory(e, n) PROVE Settled(r)'
  BY <1>2, <1>4 DEF PublishInventory
<1>5. ASSUME NEW s \in Requests, NEW k \in Keys, NEW e \in Events, NEW q \in 0..MaxQty,
             NEW m \in BOOLEAN, NEW u \in BOOLEAN, Submit(s, k, e, q, m, u)
      PROVE  Settled(r)'
  <2>1. s # r
    BY <1>5 DEF Submit, Settled
  <2> QED BY <1>1, <1>2, <1>5, <2>1 DEF Submit
<1>6. ASSUME NEW s \in Requests, ReserveStep(s) \/ ReserveFail(s) PROVE Settled(r)'
  <2>1. CASE s = r
    BY <1>6, <2>1, OwnStepSettled DEF Settled
  <2>2. CASE s # r
    <3>1. reserve'[r] = reserve[r]
      BY <1>1, <1>6, <2>2 DEF ReserveStep, LookupKey, ReadInventory, DecrementSeats, CreateBooking,
                              PaymentAnswered, LinkPayment, ReserveFail
    <3> QED BY <1>2, <3>1
  <2> QED BY <2>1, <2>2
<1>7. ASSUME NEW c \in Captures, ConfirmStep(c) \/ ConfirmFail(c) PROVE Settled(r)'
  BY <1>2, <1>7 DEF ConfirmStep, ConfirmRead, IssueTickets, ConfirmDone, ConfirmFail
<1>8. ASSUME NEW x \in Cancels,
             (\E b \in Requests : CancelRead(x, b)) \/ CancelStep(x) \/ CancelFail(x)
      PROVE  Settled(r)'
  BY <1>2, <1>8 DEF CancelStep, CancelRead, CancelRelease, CancelMark, CancelFail
<1> QED BY <1>3, <1>4, <1>5, <1>6, <1>7, <1>8 DEF BookingNext, BookingSystem

(* Once a key has a booking, createBooking takes no seats for a request    *)
(* under that key that has not looked it up yet, for any number of retries *)
(* and whatever fails, confirms or cancels in between.                     *)
THEOREM RetriesKeepSeats == BookingSpec => RetriesTakeNoSeats
<1> SUFFICES ASSUME NEW r \in Requests
             PROVE  BookingSpec =>
                      [](reserve[r].pc = "lookup" /\ BookedWithKey(reserve[r].key) # {}
                         => []~reserve[r].took)
  BY DEF RetriesTakeNoSeats
<1>1. IInv /\ reserve[r].pc = "lookup" /\ BookedWithKey(reserve[r].key) # {} => Settled(r)
  BY DEF IInv, ReserveInv, Settled
<1>2. IInv /\ Settled(r) /\ [BookingNext]_allBookingVars => Settled(r)'
  BY SettledStays
<1>3. Settled(r) => ~reserve[r].took
  BY DEF Settled
<1> QED BY <1>1, <1>2, <1>3, Invariance, PTL DEF BookingSpec

-----------------------------------------------------------------------------
(* The abstract state of the ledger, as the refinement maps it.            *)
Opened == {e \in Events : inventory[e].published}
SeatsOf == [e \in Events |-> inventory[e].totalSeats]
Grants == {<<u[1], reserve[u[1]].event, u[2]>> :
             u \in {v \in Requests \X (1..MaxQty) :
                      reserve[v[1]].took /\ v[2] <= reserve[v[1]].qty}}
Confirmed == {b \in Requests : bookings[b].status = "CONFIRMED"}

(* The grants, told one by one. *)
GrantSet ==
  {g \in Requests \X Events \X (1..MaxQty) :
     reserve[g[1]].took /\ reserve[g[1]].event = g[2] /\ g[3] <= reserve[g[1]].qty}

LEMMA GrantsToldApart == ASSUME IInv PROVE Grants = GrantSet
<1>1. \A r \in Requests : reserve[r].took => reserve[r].event \in Events
  BY DEF IInv, ReserveInv
<1>2. ASSUME NEW g \in Grants PROVE g \in GrantSet
  BY <1>1 DEF Grants, GrantSet
<1>3. ASSUME NEW g \in GrantSet PROVE g \in Grants
  <2>1. <<g[1], g[3]>> \in {v \in Requests \X (1..MaxQty) :
                              reserve[v[1]].took /\ v[2] <= reserve[v[1]].qty}
    BY DEF GrantSet
  <2>2. g = <<g[1], reserve[g[1]].event, g[3]>>
    BY DEF GrantSet
  <2> QED BY <2>1, <2>2 DEF Grants
<1> QED BY <1>2, <1>3

LEMMA GrantsStillApart == IInv' => (Grants = GrantSet)'
<1>1. IInv => Grants = GrantSet
  BY GrantsToldApart
<1> QED BY <1>1, PTL

(* A seat granted of an event is a seat taken of it. *)
LEMMA GrantedCount ==
  ASSUME NEW e \in Events
  PROVE  Cardinality({g \in GrantSet : g[2] = e}) = Cardinality(TakenSeats(e))
<1> DEFINE G == {g \in GrantSet : g[2] = e}
           f == [u \in TakenSeats(e) |-> <<u[1], e, u[2]>>]
<1>1. f \in [TakenSeats(e) -> G]
  BY DEF TakenSeats, GrantSet
<1>2. \A u, v \in TakenSeats(e) : f[u] = f[v] => u = v
  BY DEF TakenSeats
<1>3. \A g \in G : \E u \in TakenSeats(e) : f[u] = g
  <2> SUFFICES ASSUME NEW g \in G PROVE \E u \in TakenSeats(e) : f[u] = g
    OBVIOUS
  <2>1. <<g[1], g[3]>> \in TakenSeats(e) /\ g = <<g[1], e, g[3]>>
    BY DEF TakenSeats, GrantSet
  <2> QED BY <2>1
<1>4. ExistsBijection(TakenSeats(e), G)
  <2>1. f \in Bijection(TakenSeats(e), G)
    BY <1>1, <1>2, <1>3 DEF Bijection, Injection, Surjection, IsInjective
  <2> QED BY <2>1 DEF ExistsBijection
<1> QED BY <1>4, SeatsFinite, FS_Bijection

LEMMA TakesGrants ==
  ASSUME IInv, NEW r \in Requests, Takes(r)
  PROVE  /\ GrantSet' = GrantSet \cup Ledger!Grant(r, reserve[r].event, reserve[r].qty)
         /\ \A g \in GrantSet : g[1] # r
<1>1. /\ reserve \in [Requests -> ReserveType] /\ ~reserve[r].took
      /\ reserve[r].event \in Events /\ reserve[r].qty \in 1..MaxQty
      /\ reserve' = [reserve EXCEPT ![r].pc = "create", ![r].took = TRUE]
  BY MaxQtyAssumption DEF Takes, DecrementSeats, IInv, ReserveInv, InFlight, BookingTypeOK, ReserveType
<1>2. \A s \in Requests : /\ reserve'[s].event = reserve[s].event
                          /\ reserve'[s].qty = reserve[s].qty
                          /\ reserve'[s].took = IF s = r THEN TRUE ELSE reserve[s].took
  BY <1>1 DEF ReserveType
<1>3. \A g \in GrantSet : g[1] # r
  BY <1>1 DEF GrantSet
<1>4. ASSUME NEW g \in GrantSet' PROVE g \in GrantSet \cup Ledger!Grant(r, reserve[r].event, reserve[r].qty)
  BY <1>1, <1>2 DEF GrantSet, Ledger!Grant
<1>5. ASSUME NEW g \in GrantSet \cup Ledger!Grant(r, reserve[r].event, reserve[r].qty) PROVE g \in GrantSet'
  BY <1>1, <1>2, MaxQtyAssumption DEF GrantSet, Ledger!Grant
<1> QED BY <1>3, <1>4, <1>5

(* Only the commit of a confirmBooking confirms, when nothing cancels.     *)
LEMMA ConfirmsOnlyIssued ==
  ASSUME IInv, Cancels = {}, [BookingNext]_allBookingVars
  PROVE  \/ Confirmed' = Confirmed
         \/ \E b \in Requests : /\ bookings[b].status # "none"
                                /\ Confirmed' = Confirmed \cup {b}
                                /\ UNCHANGED <<inventory, reserve>>
<1> DEFINE Goal == \/ Confirmed' = Confirmed
                   \/ \E b \in Requests : /\ bookings[b].status # "none"
                                          /\ Confirmed' = Confirmed \cup {b}
                                          /\ UNCHANGED <<inventory, reserve>>
<1>1. bookings \in [Requests -> BookingType]
  BY DEF IInv, BookingTypeOK
<1>2. ASSUME UNCHANGED bookings PROVE Goal
  BY <1>2 DEF Confirmed
<1>3. CASE BookingEnv \/ UNCHANGED allBookingVars
  BY <1>2, <1>3 DEF BookingEnv, EnvPay, EnvConfirm, EnvNotice, bookingVars, allBookingVars
<1>4. ASSUME NEW e \in Events, NEW n \in SeatCounts, PublishInventory(e, n) PROVE Goal
  BY <1>2, <1>4 DEF PublishInventory
<1>5. ASSUME NEW r \in Requests, NEW k \in Keys, NEW e \in Events, NEW q \in 0..MaxQty,
             NEW m \in BOOLEAN, NEW u \in BOOLEAN, Submit(r, k, e, q, m, u)
      PROVE  Goal
  BY <1>2, <1>5 DEF Submit, storeVars
<1>6. ASSUME NEW r \in Requests, ReserveStep(r) \/ ReserveFail(r) PROVE Goal
  <2>1. CASE CreateBooking(r) \/ LinkPayment(r)
    <3>1. \A b \in Requests : bookings'[b].status = "CONFIRMED" <=> bookings[b].status = "CONFIRMED"
      <4>1. CASE CreateBooking(r)
        <5>1. bookings[r].status = "none"
          BY <4>1 DEF CreateBooking, IInv, ReserveInv
        <5> QED BY <1>1, <4>1, <5>1 DEF CreateBooking
      <4>2. CASE LinkPayment(r)
        BY <1>1, <4>2 DEF LinkPayment, BookingType
      <4> QED BY <2>1, <4>1, <4>2
    <3> QED BY <3>1 DEF Confirmed
  <2> QED BY <1>2, <1>6, <2>1
          DEF ReserveStep, LookupKey, ReadInventory, DecrementSeats, PaymentAnswered, ReserveFail, storeVars
<1>7. ASSUME NEW c \in Captures, ConfirmStep(c) \/ ConfirmFail(c) PROVE Goal
  <2>1. CASE IssueTickets(c)
    <3> DEFINE b == confirm[c].booking
    <3>1. /\ b \in Requests /\ bookings[b].status # "none"
          /\ UNCHANGED <<inventory, reserve>>
          /\ bookings' = [bookings EXCEPT ![b].status = "CONFIRMED"]
      BY <2>1 DEF IssueTickets, IInv, ConfirmInv
    <3>2. Confirmed' = Confirmed \cup {b}
      BY <1>1, <3>1 DEF Confirmed, BookingType
    <3> QED BY <3>1, <3>2
  <2> QED BY <1>2, <1>7, <2>1 DEF ConfirmStep, ConfirmRead, ConfirmDone, ConfirmFail, storeVars
<1> QED BY <1>3, <1>4, <1>5, <1>6, <1>7 DEF BookingNext, BookingSystem

(* The ledger counts as the service does. *)
LEMMA LedgerCounts == ASSUME NEW S PROVE Ledger!Cardinality(S) = Cardinality(S)
BY DEF Ledger!Cardinality, Cardinality

(* Every step of the service is a step of the ledger, or none.             *)
LEMMA LedgerSteps ==
  ASSUME IInv, IInv', SeatConservation, Cancels = {}, [BookingNext]_allBookingVars
  PROVE  [Ledger!LedgerNext]_(Ledger!ledgerVars)
<1> DEFINE Stutters == UNCHANGED <<Opened, SeatsOf, Grants, Confirmed>>
<1>1. Stutters => UNCHANGED Ledger!ledgerVars
  BY DEF Ledger!ledgerVars, Opened, SeatsOf, Grants, Confirmed
<1>2. Grants = GrantSet /\ Grants' = GrantSet'
  BY GrantsToldApart, GrantsStillApart
<1>3. CASE Confirmed' # Confirmed
  <2>1. PICK b \in Requests : /\ bookings[b].status # "none"
                              /\ Confirmed' = Confirmed \cup {b}
                              /\ UNCHANGED <<inventory, reserve>>
    BY <1>3, ConfirmsOnlyIssued
  <2>2. UNCHANGED <<Opened, SeatsOf, Grants>>
    BY <2>1 DEF Opened, SeatsOf, Grants
  <2>3. <<b, reserve[b].event, 1>> \in Grants
    <3>1. reserve[b].took /\ reserve[b].qty \in 1..MaxQty
      BY <2>1 DEF IInv, BookingInv, ReserveInv, BookingTypeOK, ReserveType
    <3>2. <<b, 1>> \in {v \in Requests \X (1..MaxQty) :
                          reserve[v[1]].took /\ v[2] <= reserve[v[1]].qty}
      BY <3>1, MaxQtyAssumption
    <3> QED BY <3>2 DEF Grants
  <2>4. b \in Ledger!Holders
    <3>1. Ledger!Holders = {g[1] : g \in Grants}
      BY DEF Ledger!Holders, Grants
    <3> QED BY <2>3, <3>1
  <2>5. Ledger!Issue(b)
    BY <2>1, <2>2, <2>4 DEF Ledger!Issue, Opened, SeatsOf, Grants, Confirmed
  <2> QED BY <2>5 DEF Ledger!LedgerNext
<1>4. CASE Confirmed' = Confirmed
  <2>1. CASE TakenKept /\ UNCHANGED inventory
    <3>1. GrantSet' = GrantSet
      BY <2>1 DEF TakenKept, GrantSet
    <3> QED BY <1>1, <1>2, <1>4, <2>1, <3>1 DEF Opened, SeatsOf
  <2>2. ASSUME NEW e \in Events, NEW n \in SeatCounts, PublishInventory(e, n)
        PROVE  Ledger!LedgerNext
    <3>1. /\ inventory \in [Events -> InventoryType] /\ ~inventory[e].published
          /\ UNCHANGED reserve
          /\ inventory' = [inventory EXCEPT ![e] =
               [published |-> TRUE, totalSeats |-> n, availableSeats |-> n, version |-> 0]]
      BY <2>2 DEF PublishInventory, IInv, BookingTypeOK
    <3>2. e \notin Opened /\ Opened' = Opened \cup {e} /\ SeatsOf' = [SeatsOf EXCEPT ![e] = n]
      BY <3>1 DEF Opened, SeatsOf
    <3>3. Grants' = Grants
      BY <3>1 DEF Grants
    <3>4. Ledger!Open(e, n)
      BY <1>4, <3>2, <3>3 DEF Ledger!Open, Opened, SeatsOf, Grants, Confirmed
    <3> QED BY <3>4 DEF Ledger!LedgerNext
  <2>3. ASSUME NEW r \in Requests, Takes(r) PROVE Ledger!LedgerNext
    <3>0. /\ reserve[r].pc = "decrement" /\ ReserveInv(r) /\ reserve[r] \in ReserveType
          /\ inventory \in [Events -> InventoryType]
      BY <2>3 DEF Takes, DecrementSeats, IInv, BookingTypeOK
    <3>1. PICK e \in Events, q \in 1..MaxQty :
            /\ e = reserve[r].event /\ q = reserve[r].qty
            /\ inventory[e].published /\ inventory[e].availableSeats >= q
            /\ inventory' = [inventory EXCEPT ![e].availableSeats = @ - q, ![e].version = @ + 1]
      <4>1. /\ reserve[r].event \in Events /\ inventory[reserve[r].event].published
            /\ reserve[r].qty \in 1..MaxQty
        BY <3>0, MaxQtyAssumption DEF ReserveInv, InFlight, ReserveType
      <4> QED BY <2>3, <4>1 DEF Takes, TakeSeats, EnoughLeft
    <3>2. UNCHANGED <<Opened, SeatsOf>>
      BY <3>0, <3>1 DEF Opened, SeatsOf, InventoryType
    <3>3. Grants' = Grants \cup Ledger!Grant(r, e, q)
      BY <1>2, <2>3, <3>1, TakesGrants
    <3>4. r \notin Ledger!Holders
      <4>1. \A g \in Grants : g[1] # r
        BY <1>2, <2>3, TakesGrants
      <4>2. Ledger!Holders = {g[1] : g \in Grants}
        BY DEF Ledger!Holders, Grants
      <4> QED BY <4>1, <4>2
    <3>5. Cardinality(Ledger!Granted(e)) + q <= SeatsOf[e]
      <4>1. Cardinality(Ledger!Granted(e)) = Cardinality(TakenSeats(e))
        BY <1>2, <3>1, GrantedCount DEF Ledger!Granted, Grants
      <4>2. ReleasedSeats(e) = {} /\ Cardinality(ReleasedSeats(e)) = 0
        BY FS_EmptySet DEF ReleasedSeats
      <4>3. inventory[e].availableSeats + Cardinality(TakenSeats(e)) = inventory[e].totalSeats
        BY <3>0, <3>1, <4>2 DEF SeatConservation, InventoryType
      <4>4. /\ inventory[e].availableSeats \in Nat /\ inventory[e].totalSeats \in Nat
            /\ Cardinality(TakenSeats(e)) \in Nat
        BY <3>0, <3>1, SeatsFinite DEF InventoryType
      <4> QED BY <3>0, <3>1, <4>1, <4>3, <4>4, MaxQtyAssumption DEF SeatsOf
    <3>6. e \in Opened
      BY <3>1 DEF Opened
    <3>7. Ledger!Reserve(r, e, q)
      <4>1. Ledger!Reserve(r, e, q) <=>
              /\ e \in Opened /\ r \notin Ledger!Holders
              /\ Cardinality(Ledger!Granted(e)) + q <= SeatsOf[e]
              /\ Grants' = Grants \cup Ledger!Grant(r, e, q)
              /\ UNCHANGED <<Opened, SeatsOf, Confirmed>>
        BY LedgerCounts DEF Ledger!Reserve, Opened, SeatsOf, Grants, Confirmed
      <4> QED BY <1>4, <3>2, <3>3, <3>4, <3>5, <3>6, <4>1
    <3>8. \E d \in Events, n \in 1..MaxQty : Ledger!Reserve(r, d, n)
      BY <3>1, <3>7
    <3> QED BY <3>8 DEF Ledger!LedgerNext
  <2> QED BY <2>1, <2>2, <2>3, StepKinds
<1> QED BY <1>3, <1>4

(* When nothing cancels, as the service is shipped, it implements the seat *)
(* ledger, whatever requests race and fail and whatever the other services *)
(* answer and call.                                                        *)
THEOREM ServiceImplementsLedger ==
  ASSUME Cancels = {}
  PROVE  BookingSpec => ImplementsLedger
<1>1. BookingStart => Ledger!LedgerInit
  <2> SUFFICES ASSUME BookingStart PROVE Ledger!LedgerInit
    OBVIOUS
  <2>1. Opened = {} /\ SeatsOf = [e \in Events |-> 0] /\ Grants = {} /\ Confirmed = {}
    BY DEF BookingStart, BookingInit, Opened, SeatsOf, Grants, Confirmed
  <2> QED BY <2>1 DEF Ledger!LedgerInit, Opened, SeatsOf, Grants, Confirmed
<1>2. IInv /\ IInv' /\ SeatConservation /\ [BookingNext]_allBookingVars
        => [Ledger!LedgerNext]_(Ledger!ledgerVars)
  BY LedgerSteps
<1> QED BY <1>1, <1>2, Invariance, SeatsConserved, PTL DEF BookingSpec, ImplementsLedger, Ledger!LedgerSpec
=============================================================================
