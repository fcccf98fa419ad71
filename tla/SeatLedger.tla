----------------------------- MODULE SeatLedger -----------------------------
(***************************************************************************)
(* What the booking service promises about seats, without versions,        *)
(* counters, handlers or calls: an event opens once with a number of       *)
(* seats; a request is granted all the seats it asks for, at once, only    *)
(* while that many are free; a grant is never revoked or changed; tickets  *)
(* are issued only for a grant.                                            *)
(***************************************************************************)
EXTENDS Naturals, FiniteSets

CONSTANTS Requests, Events, SeatCounts, MaxQty

VARIABLES
  opened,   \* events open for sale
  seats,    \* seats of each event, 0 until it opens
  grants,   \* the seats granted, as triples <<request, event, j>>
  issued    \* requests whose tickets were issued

ledgerVars == <<opened, seats, grants, issued>>

Grant(r, e, q) == {r} \X {e} \X (1..q)
Granted(e) == {g \in grants : g[2] = e}
Holders == {g[1] : g \in grants}

LedgerInit ==
  opened = {} /\ seats = [e \in Events |-> 0] /\ grants = {} /\ issued = {}

Open(e, n) ==
  /\ e \notin opened
  /\ opened' = opened \cup {e} /\ seats' = [seats EXCEPT ![e] = n]
  /\ UNCHANGED <<grants, issued>>

Reserve(r, e, q) ==
  /\ e \in opened /\ r \notin Holders
  /\ Cardinality(Granted(e)) + q <= seats[e]
  /\ grants' = grants \cup Grant(r, e, q)
  /\ UNCHANGED <<opened, seats, issued>>

Issue(r) ==
  /\ r \in Holders
  /\ issued' = issued \cup {r}
  /\ UNCHANGED <<opened, seats, grants>>

LedgerNext ==
  \/ \E e \in Events, n \in SeatCounts : Open(e, n)
  \/ \E r \in Requests : Issue(r) \/ \E e \in Events, q \in 1..MaxQty : Reserve(r, e, q)

LedgerSpec == LedgerInit /\ [][LedgerNext]_ledgerVars
=============================================================================
