----------------------------- MODULE RequestPath -----------------------------
(***************************************************************************)
(* What a request passes before a handler runs: the gateway (auth-route),  *)
(* which verifies the token of every route off its own public list, and    *)
(* the guards of the service, which verify it again and know the public    *)
(* and internal routes by their decorators; for bookings also the rate     *)
(* limit.  Between the two checks the request is on the wire, and a token  *)
(* that passed one may fail the other.                                     *)
(***************************************************************************)
EXTENDS Integers

CONSTANTS
  Calls,        \* requests in progress; when one is over its name is used again
  Buyers,       \* Cognito identities in the group user
  Partners,     \* and in the group partner
  People,       \* all of them
  None,         \* no token, no user, no row
  MaxRequests,  \* BOOKING_RATE_LIMIT_PER_MINUTE
  Window,       \* WINDOW_MS, in ticks of the clock
  MaxRestarts   \* bound: restarts of the booking service within WINDOW_MS

ASSUME PathAssumption ==
  /\ Buyers \cup Partners \subseteq People /\ None \notin People
  /\ MaxRequests \in Nat \ {0} /\ Window \in Nat \ {0} /\ MaxRestarts \in Nat

VARIABLES
  call,     \* what is known of each request and where it is
  windows,  \* store of the rate limit guard; left = 0 when resetAt <= now
  recent,   \* history: bookings of a buyer let through in this tick and n before
  restarts  \* history: restarts of the booking service in this tick and n before

limitVars == <<windows, recent, restarts>>
pathVars == <<call, limitVars>>

(* One route per kind of access, with the paths that share it.             *)
UserRoutes == {"bookings"}                  \* and, without limit, capture and profile
PartnerRoutes == {"savePartner", "venues"}  \* and events, events/:id/publish
InternalRoutes == {"internal"}              \* confirm, payments, publish, notifications
OpenRoutes == {"register", "eventCategories", "ticketCategories"} \* and events, search, health
Routes == UserRoutes \cup PartnerRoutes \cup InternalRoutes \cup OpenRoutes

(* The gateway's list has no ticket categories, which their service opens. *)
(* It is matched as a list of prefixes, so other paths may pass with it.   *)
PublicPaths == OpenRoutes \ {"ticketCategories"}
IsPublicRoute(route) == route \in PublicPaths

GroupsOf(user) == {g \in {"user", "partner"} : user \in IF g = "user" THEN Buyers ELSE Partners}
RequiredRoles(route) ==
  {g \in {"user", "partner"} : route \in IF g = "user" THEN UserRoutes ELSE PartnerRoutes}
HasRole(user, route) ==
  RequiredRoles(route) = {} \/ RequiredRoles(route) \cap GroupsOf(user) # {}

Idle == [pc |-> "idle", route |-> "register", token |-> None, key |-> "missing", user |-> None]

PathTypeOK ==
  /\ call \in [Calls -> [pc : {"idle", "forwarded", "handling"}, route : Routes,
                         token : People \cup {None}, key : {"missing", "wrong", "right"},
                         user : People \cup {None}]]
  /\ windows \in [Buyers -> [count : 0 .. MaxRequests + 1, left : 0 .. Window]]
  /\ recent \in [Buyers -> [0 .. Window - 1 -> Nat]]
  /\ restarts \in [0 .. Window - 1 -> Nat]

PathInit ==
  /\ call = [c \in Calls |-> Idle]
  /\ windows = [u \in Buyers |-> [count |-> 0, left |-> 0]]
  /\ recent = [u \in Buyers |-> [n \in 0 .. Window - 1 |-> 0]]
  /\ restarts = [n \in 0 .. Window - 1 |-> 0]

-----------------------------------------------------------------------------
(* handleProxy.  Paths of no service, requests without a token and tokens  *)
(* that do not verify end here (400, 503, 401) and leave nothing behind;   *)
(* the rest is sent on, with Authorization and no other credential, and    *)
(* without a token where the path only begins like a public one.  The      *)
(* awaits in between share no state with anything, hence one step.         *)
Arrive(c) ==
  /\ call[c].pc = "idle"
  /\ \E route \in Routes, token \in People \cup {None} :
       /\ IsPublicRoute(route) => token = None  \* on public routes it is ignored
       /\ call' = [call EXCEPT ![c] = [Idle EXCEPT
            !.pc = "forwarded", !.route = route, !.token = token]]
  /\ UNCHANGED limitVars

(* Another service calls an internal route, with the key it was started    *)
(* with, or an empty one.                                                  *)
ArriveFromService(c) ==
  /\ call[c].pc = "idle"
  /\ \E route \in InternalRoutes, key \in {"wrong", "right"} :
       call' = [call EXCEPT ![c] = [Idle EXCEPT !.pc = "forwarded", !.route = route, !.key = key]]
  /\ UNCHANGED limitVars

(* A token that expired or cannot be verified now, a service not reached,  *)
(* a guard that throws: the request is answered and over.                  *)
End(c) == call' = [call EXCEPT ![c] = Idle]
Refused(c) ==
  /\ call[c].pc = "forwarded"
  /\ End(c)
  /\ UNCHANGED limitVars

Handle(c, user) == call' = [call EXCEPT ![c].pc = "handling", ![c].user = user]

(* A public route looks at no token: its handler never knows who calls.    *)
AdmitPublic(c) ==
  /\ call[c].pc = "forwarded" /\ call[c].route \in OpenRoutes
  /\ call' = [call EXCEPT ![c].pc = "handling", ![c].token = None]
  /\ UNCHANGED limitVars

KeyMatchesUnset(c, configured) ==  \* mutant: no header equals no key
  IF configured THEN call[c].key = "right" ELSE call[c].key = "missing"
KeyMatches(c, configured) == configured /\ call[c].key = "right"

(* The key is per service and need not be configured.                      *)
AdmitInternal(c) ==
  /\ call[c].pc = "forwarded" /\ call[c].route \in InternalRoutes
  /\ \E configured \in BOOLEAN : KeyMatches(c, configured)
  /\ Handle(c, None)
  /\ UNCHANGED limitVars

(* RateLimitGuard: the window of a buyer starts with the first request     *)
(* after the last one is over, and refused requests count too.  The count  *)
(* stops at MaxRequests + 1, all higher ones being refused alike.          *)
FreshWindowUndated == [count |-> 0, left |-> 0]  \* mutant: resetAt = now
FreshWindowTwice == [count |-> 0, left |-> 2 * Window]  \* mutant: the wrong unit
FreshWindow == [count |-> 0, left |-> Window]
Counted(u) ==
  LET entry == IF windows[u].left = 0 THEN FreshWindow ELSE windows[u]
  IN [entry EXCEPT !.count = IF @ > MaxRequests THEN @ ELSE @ + 1]
WithinMax(u) == Counted(u).count <= MaxRequests

Admissible(c) ==
  /\ call[c].pc = "forwarded" /\ call[c].route \in UserRoutes \cup PartnerRoutes
  /\ call[c].token # None /\ HasRole(call[c].token, call[c].route)

AdmitPartner(c) ==
  /\ Admissible(c) /\ call[c].route \in PartnerRoutes
  /\ Handle(c, call[c].token)
  /\ UNCHANGED limitVars

AdmitBooking(c) ==
  /\ Admissible(c) /\ call[c].route = "bookings" /\ WithinMax(call[c].token)
  /\ Handle(c, call[c].token)
  /\ windows' = [windows EXCEPT ![call[c].token] = Counted(call[c].token)]
  /\ recent' = [recent EXCEPT ![call[c].token] = [n \in 0 .. Window - 1 |-> @[n] + 1]]
  /\ UNCHANGED restarts

LimitBooking(c) ==
  /\ Admissible(c) /\ call[c].route = "bookings" /\ ~WithinMax(call[c].token)
  /\ End(c)
  /\ windows' = [windows EXCEPT ![call[c].token] = Counted(call[c].token)]
  /\ UNCHANGED <<recent, restarts>>

Tick ==
  /\ windows' = [u \in Buyers |->
       [windows[u] EXCEPT !.left = IF @ = 0 THEN 0 ELSE @ - 1]]
  /\ recent' = [u \in Buyers |->
       [n \in 0 .. Window - 1 |-> IF n = 0 THEN 0 ELSE recent[u][n - 1]]]
  /\ restarts' = [n \in 0 .. Window - 1 |-> IF n = 0 THEN 0 ELSE restarts[n - 1]]
  /\ UNCHANGED call

(* The store lives in the memory of one process, and is lost with it.      *)
Restart ==
  /\ restarts[Window - 1] < MaxRestarts
  /\ windows' = [u \in Buyers |-> [count |-> 0, left |-> 0]]
  /\ restarts' = [n \in 0 .. Window - 1 |-> restarts[n] + 1]
  /\ UNCHANGED <<call, recent>>

Admit(c) == AdmitPublic(c) \/ AdmitInternal(c) \/ AdmitPartner(c) \/ AdmitBooking(c)
Turned(c) == Refused(c) \/ LimitBooking(c)
=============================================================================
