-------------------------- MODULE FrontDoorProofs --------------------------
(***************************************************************************)
(* Proofs about the request path and the reference data, for any number of *)
(* concurrent requests, identities, codes and emails and any rate limit.   *)
(***************************************************************************)
EXTENDS FrontDoor, TLAPS

-----------------------------------------------------------------------------
(* The inductive invariant: what the place of a request, and of its        *)
(* handler, say of its caller and of the rows the handler has looked up.   *)
CallerInv(c) ==
  /\ call[c].pc = "forwarded" /\ call[c].key = "right" => call[c].token = None
  /\ call[c].pc = "handling" =>
       /\ call[c].route \in InternalRoutes => call[c].token = None /\ call[c].key = "right"
       /\ call[c].route \in UserRoutes \cup PartnerRoutes =>
            call[c].user = call[c].token /\ HasRole(call[c].user, call[c].route)

(* What a handler knows of the token it works for.                         *)
Knows(w, token) ==
  /\ w.pc \in {"find", "insert", "locate", "write"} => \E k \in Codes : w.codes = {k}
  /\ w.pc \in {"locate", "write"} => w.to \in Codes
  /\ w.pc = "save" => w.id \in People
  /\ w.pc = "save" /\ w.service = "partner" => w.id \in Partners /\ w.id = token
  /\ w.pc \in {"owner", "place"} => w.id \in Partners /\ w.id = token

WorkInv(c) ==
  /\ work[c].pc # "idle" => call[c].pc = "handling"
  /\ Knows(work[c], call[c].token)

FInv ==
  /\ FrontTypeOK /\ OneRowPerCode
  /\ \A c \in Calls : CallerInv(c) /\ WorkInv(c)

LEMMA InitFInv == FrontInit => FInv
<1> SUFFICES ASSUME FrontInit PROVE FInv
  OBVIOUS
<1>1. Idle \in [pc : {"idle", "forwarded", "handling"}, route : Routes,
                token : People \cup {None}, key : {"missing", "wrong", "right"},
                user : People \cup {None}]
  BY DEF Idle, Routes, OpenRoutes
<1>2. PathTypeOK
  BY <1>1, PathAssumption DEF FrontInit, PathInit, PathTypeOK
<1>3. NoWork \in [pc : {"idle", "find", "insert", "bulk", "locate", "write",
                        "save", "owner", "place", "other"},
                  table : Tables, codes : SUBSET Codes, active : Flags,
                  to : Codes \cup {None}, service : Services, id : People \cup {None}, email : Emails]
  BY DataAssumption DEF NoWork, Tables, Services, Flags
<1>4. DataTypeOK
  BY <1>3 DEF FrontInit, DataInit, DataTypeOK
<1>5. OneRowPerCode
  BY DEF FrontInit, DataInit, OneRowPerCode, Row
<1>6. ASSUME NEW c \in Calls PROVE CallerInv(c) /\ WorkInv(c)
  BY DEF FrontInit, PathInit, DataInit, CallerInv, WorkInv, Knows, Idle, NoWork
<1> QED BY <1>2, <1>4, <1>5, <1>6 DEF FInv, FrontTypeOK

-----------------------------------------------------------------------------
(* The request path. *)

(* Where a step may leave request c. *)
CallOf == [pc : {"idle", "forwarded", "handling"}, route : Routes,
           token : People \cup {None}, key : {"missing", "wrong", "right"},
           user : People \cup {None}]

(* The windows and the history keep their types, whatever is counted.      *)
LimitTypeOK ==
  /\ windows \in [Buyers -> [count : 0 .. MaxRequests + 1, left : 0 .. Window]]
  /\ recent \in [Buyers -> [0 .. Window - 1 -> Nat]]
  /\ restarts \in [0 .. Window - 1 -> Nat]

(* A step of request c: what is left to show is its own.                   *)
LEMMA Frame ==
  ASSUME FInv, NEW c \in Calls, FrontTypeOK', OneRowPerCode',
         \A d \in Calls \ {c} : call'[d] = call[d] /\ work'[d] = work[d],
         CallerInv(c)', WorkInv(c)'
  PROVE  FInv'
<1>1. ASSUME NEW d \in Calls, d # c PROVE CallerInv(d)' /\ WorkInv(d)'
  BY <1>1 DEF FInv, CallerInv, WorkInv, Knows
<1> QED BY <1>1 DEF FInv

(* A step of the path that touches no handler.                             *)
LEMMA PathMoves ==
  ASSUME FInv, NEW c \in Calls, NEW new \in CallOf, call' = [call EXCEPT ![c] = new],
         work[c].pc = "idle", UNCHANGED dataVars, CallerInv(c)', LimitTypeOK'
  PROVE  FInv'
<1>1. UNCHANGED <<categories, profiles, venues, work>>
  BY DEF dataVars
<1>2. FrontTypeOK'
  BY <1>1 DEF FInv, FrontTypeOK, PathTypeOK, DataTypeOK, CallOf, LimitTypeOK
<1>3. OneRowPerCode'
  BY <1>1 DEF FInv, OneRowPerCode, Row
<1>4. \A d \in Calls \ {c} : call'[d] = call[d] /\ work'[d] = work[d]
  BY <1>1 DEF FInv, FrontTypeOK, PathTypeOK
<1>5. WorkInv(c)'
  BY <1>1 DEF WorkInv, Knows
<1> QED BY <1>2, <1>3, <1>4, <1>5, Frame

LEMMA RoutesApart ==
  /\ UserRoutes \cap PartnerRoutes = {} /\ InternalRoutes \cap (UserRoutes \cup PartnerRoutes) = {}
  /\ OpenRoutes \cap (InternalRoutes \cup UserRoutes \cup PartnerRoutes) = {}
  /\ UserRoutes \subseteq Routes /\ PartnerRoutes \subseteq Routes
  /\ InternalRoutes \subseteq Routes /\ OpenRoutes \subseteq Routes
BY DEF Routes, UserRoutes, PartnerRoutes, InternalRoutes, OpenRoutes

(* A role a route requires is one of the caller's groups.                  *)
LEMMA RolesMeanGroups ==
  ASSUME NEW user, NEW route, HasRole(user, route)
  PROVE  /\ route \in UserRoutes => user \in Buyers
         /\ route \in PartnerRoutes => user \in Partners
<1>1. UserRoutes \cap PartnerRoutes = {}
  BY RoutesApart
<1>2. route \in UserRoutes => RequiredRoles(route) = {"user"}
  BY <1>1 DEF RequiredRoles
<1>3. route \in PartnerRoutes => RequiredRoles(route) = {"partner"}
  BY <1>1 DEF RequiredRoles
<1>4. /\ "user" \in GroupsOf(user) => user \in Buyers
      /\ "partner" \in GroupsOf(user) => user \in Partners
  BY DEF GroupsOf
<1> QED BY <1>2, <1>3, <1>4 DEF HasRole

LEMMA CountedType ==
  ASSUME LimitTypeOK, NEW u \in Buyers
  PROVE  Counted(u) \in [count : 0 .. MaxRequests + 1, left : 0 .. Window]
<1> DEFINE entry == IF windows[u].left = 0 THEN FreshWindow ELSE windows[u]
<1>1. entry \in [count : 0 .. MaxRequests + 1, left : 0 .. Window]
  BY PathAssumption DEF LimitTypeOK, FreshWindow
<1>2. (IF entry.count > MaxRequests THEN entry.count ELSE entry.count + 1) \in 0 .. MaxRequests + 1
  BY <1>1, PathAssumption
<1> HIDE DEF entry
<1>3. [entry EXCEPT !.count = IF @ > MaxRequests THEN @ ELSE @ + 1]
        \in [count : 0 .. MaxRequests + 1, left : 0 .. Window]
  BY <1>1, <1>2
<1> QED BY <1>3 DEF Counted, entry

(* The bookings of the current window that were let through.              *)
Passed(u) == IF windows[u].count > MaxRequests THEN MaxRequests ELSE windows[u].count

LEMMA PassedType ==
  ASSUME LimitTypeOK, NEW u \in Buyers
  PROVE  /\ Passed(u) \in 0 .. MaxRequests
         /\ windows[u].count > 0 => Passed(u) > 0
         /\ windows[u].count \in 0 .. MaxRequests + 1 /\ windows[u].left \in 0 .. Window
         /\ \A n \in 0 .. Window - 1 : recent[u][n] \in Nat
<1>1. windows[u] \in [count : 0 .. MaxRequests + 1, left : 0 .. Window]
  BY DEF LimitTypeOK
<1>2. recent[u] \in [0 .. Window - 1 -> Nat]
  BY DEF LimitTypeOK
<1> QED BY <1>1, <1>2, PathAssumption DEF Passed

(* What a booking leaves in the store of the guard, let through or not.    *)
Counts(u) ==
  /\ windows' = [windows EXCEPT ![u] = Counted(u)]
  /\ \/ /\ WithinMax(u)
        /\ recent' = [recent EXCEPT ![u] = [n \in 0 .. Window - 1 |-> @[n] + 1]]
     \/ ~WithinMax(u) /\ UNCHANGED recent
  /\ UNCHANGED restarts

LEMMA CountingType == ASSUME LimitTypeOK, NEW u \in Buyers, Counts(u) PROVE LimitTypeOK'
<1>1. windows' \in [Buyers -> [count : 0 .. MaxRequests + 1, left : 0 .. Window]]
  BY CountedType DEF LimitTypeOK, Counts
<1>r. restarts' \in [0 .. Window - 1 -> Nat]
  BY DEF LimitTypeOK, Counts
<1>2. CASE UNCHANGED recent
  BY <1>1, <1>2, <1>r DEF LimitTypeOK
<1>3. CASE recent' = [recent EXCEPT ![u] = [n \in 0 .. Window - 1 |-> @[n] + 1]]
  <2> DEFINE hist == [n \in 0 .. Window - 1 |-> recent[u][n] + 1]
  <2>1. recent' = [recent EXCEPT ![u] = hist]
    BY <1>3, Zenon DEF LimitTypeOK
  <2>2. recent[u] \in [0 .. Window - 1 -> Nat]
    BY DEF LimitTypeOK
  <2>3. hist \in [0 .. Window - 1 -> Nat]
    <3>1. ASSUME NEW n \in 0 .. Window - 1 PROVE recent[u][n] + 1 \in Nat
      <4>1. recent[u][n] \in Nat
        BY PassedType
      <4> QED BY <4>1
    <3> QED BY <3>1
  <2> HIDE DEF hist
  <2> QED BY <1>1, <1>r, <2>1, <2>3 DEF LimitTypeOK
<1> QED BY <1>2, <1>3 DEF Counts

LEMMA PathKeeps == ASSUME FInv, NEW c \in Calls, PathMove(c) PROVE FInv'
<1> USE RoutesApart
<1>t. /\ call \in [Calls -> CallOf] /\ LimitTypeOK /\ CallerInv(c)
      /\ call[c].pc # "handling" => work[c].pc = "idle"
  BY DEF FInv, FrontTypeOK, PathTypeOK, LimitTypeOK, CallOf, WorkInv
<1>u. UNCHANGED dataVars
  BY DEF PathMove
<1>i. Idle \in CallOf
  BY DEF Idle, CallOf, Routes, OpenRoutes
<1>1. CASE Arrive(c)
  <2>1. PICK route \in Routes, token \in People \cup {None} :
          call' = [call EXCEPT ![c] = [Idle EXCEPT
                    !.pc = "forwarded", !.route = route, !.token = token]]
    BY <1>1 DEF Arrive
  <2> DEFINE new == [Idle EXCEPT !.pc = "forwarded", !.route = route, !.token = token]
  <2>2. new \in CallOf /\ new.pc = "forwarded" /\ new.key = "missing"
    BY DEF Idle, CallOf
  <2>3. call'[c] = new
    BY <1>t, <2>1
  <2>4. CallerInv(c)'
    BY <2>2, <2>3 DEF CallerInv
  <2>5. work[c].pc = "idle" /\ LimitTypeOK'
    BY <1>1, <1>t DEF Arrive, LimitTypeOK, limitVars
  <2> HIDE DEF new
  <2> QED BY <1>u, <2>1, <2>2, <2>4, <2>5, PathMoves DEF new
<1>2. CASE ArriveFromService(c)
  <2>1. PICK route \in InternalRoutes, key \in {"wrong", "right"} :
          call' = [call EXCEPT ![c] = [Idle EXCEPT
                    !.pc = "forwarded", !.route = route, !.key = key]]
    BY <1>2 DEF ArriveFromService
  <2> DEFINE new == [Idle EXCEPT !.pc = "forwarded", !.route = route, !.key = key]
  <2>2. new \in CallOf /\ new.pc = "forwarded" /\ new.token = None
    BY DEF Idle, CallOf
  <2>3. call'[c] = new
    BY <1>t, <2>1
  <2>4. CallerInv(c)'
    BY <2>2, <2>3 DEF CallerInv
  <2>5. work[c].pc = "idle" /\ LimitTypeOK'
    BY <1>2, <1>t DEF ArriveFromService, LimitTypeOK, limitVars
  <2> HIDE DEF new
  <2> QED BY <1>u, <2>1, <2>2, <2>4, <2>5, PathMoves DEF new
<1>3. CASE Turned(c)
  <2>1. call[c].pc = "forwarded" /\ call' = [call EXCEPT ![c] = Idle]
    BY <1>3 DEF Turned, Refused, LimitBooking, Admissible, End
  <2>2. CallerInv(c)'
    BY <1>t, <2>1 DEF CallerInv, Idle
  <2>3. LimitTypeOK'
    <3>1. CASE Refused(c)
      BY <1>t, <3>1 DEF Refused, LimitTypeOK, limitVars
    <3>2. CASE LimitBooking(c)
      <4>1. call[c].token \in Buyers
        BY <3>2, RolesMeanGroups DEF LimitBooking, Admissible, UserRoutes
      <4> QED BY <1>t, <3>2, <4>1, CountingType DEF LimitBooking, Counts
    <3> QED BY <1>3, <3>1, <3>2 DEF Turned
  <2> QED BY <1>i, <1>t, <1>u, <2>1, <2>2, <2>3, PathMoves
<1> QED BY <1>1, <1>2, <1>3 DEF PathMove

(* What a request that was let through to its handler has shown.           *)
LEMMA Admits ==
  ASSUME FInv, NEW c \in Calls, Admit(c)
  PROVE  /\ PathTypeOK' /\ CallerInv(c)' /\ work[c].pc = "idle"
         /\ call'[c].pc = "handling" /\ call'[c].route = call[c].route
         /\ call[c].route \in PartnerRoutes => call'[c].user \in Partners
         /\ \A d \in Calls \ {c} : call'[d] = call[d]
<1> USE RoutesApart
<1>t. call \in [Calls -> CallOf] /\ LimitTypeOK /\ CallerInv(c) /\ WorkInv(c)
  BY DEF FInv, FrontTypeOK, PathTypeOK, LimitTypeOK, CallOf
<1>f. call[c].pc = "forwarded"
  BY DEF Admit, AdmitPublic, AdmitInternal, AdmitPartner, AdmitBooking, Admissible
<1>i. work[c].pc = "idle"
  BY <1>f, <1>t DEF WorkInv
<1>p. LimitTypeOK' /\ call' \in [Calls -> CallOf] => PathTypeOK'
  BY DEF PathTypeOK, LimitTypeOK, CallOf
<1>1. CASE AdmitPublic(c)
  <2>1. /\ call[c].route \in OpenRoutes
        /\ call' = [call EXCEPT ![c].pc = "handling", ![c].token = None]
    BY <1>1 DEF AdmitPublic
  <2>2. LimitTypeOK'
    BY <1>1, <1>t DEF AdmitPublic, LimitTypeOK, limitVars
  <2> DEFINE new == [call[c] EXCEPT !.pc = "handling", !.token = None]
  <2>n. new \in CallOf
    BY <1>t DEF CallOf
  <2>o. call' = [call EXCEPT ![c] = new]
    BY <1>t, <2>1
  <2> HIDE DEF new
  <2>3. call' \in [Calls -> CallOf]
    BY <1>t, <2>n, <2>o
  <2>4. CallerInv(c)' /\ call'[c].pc = "handling" /\ call'[c].route = call[c].route
    BY <1>t, <2>1 DEF CallerInv, CallOf
  <2> QED BY <1>t, <1>i, <1>p, <2>1, <2>2, <2>3, <2>4
<1>2. CASE AdmitInternal(c)
  <2>1. /\ call[c].route \in InternalRoutes /\ call[c].key = "right"
        /\ call' = [call EXCEPT ![c].pc = "handling", ![c].user = None]
    BY <1>2 DEF AdmitInternal, KeyMatches, Handle
  <2>2. LimitTypeOK'
    BY <1>2, <1>t DEF AdmitInternal, LimitTypeOK, limitVars
  <2> DEFINE new == [call[c] EXCEPT !.pc = "handling", !.user = None]
  <2>n. new \in CallOf
    BY <1>t DEF CallOf
  <2>o. call' = [call EXCEPT ![c] = new]
    BY <1>t, <2>1
  <2> HIDE DEF new
  <2>3. call' \in [Calls -> CallOf]
    BY <1>t, <2>n, <2>o
  <2>4. CallerInv(c)' /\ call'[c].pc = "handling" /\ call'[c].route = call[c].route
    BY <1>t, <1>f, <2>1 DEF CallerInv, CallOf
  <2> QED BY <1>t, <1>i, <1>p, <2>1, <2>2, <2>3, <2>4
<1>3. CASE AdmitPartner(c) \/ AdmitBooking(c)
  <2>1. /\ Admissible(c) /\ call[c].route \in UserRoutes \cup PartnerRoutes
        /\ call' = [call EXCEPT ![c].pc = "handling", ![c].user = call[c].token]
    BY <1>3 DEF AdmitPartner, AdmitBooking, Handle, Admissible
  <2>2. HasRole(call[c].token, call[c].route)
    BY <2>1 DEF Admissible
  <2>3. LimitTypeOK'
    <3>1. CASE AdmitPartner(c)
      BY <1>t, <3>1 DEF AdmitPartner, LimitTypeOK, limitVars
    <3>2. CASE AdmitBooking(c)
      <4>1. call[c].token \in Buyers
        BY <3>2, <2>2, RolesMeanGroups DEF AdmitBooking, UserRoutes
      <4> QED BY <1>t, <3>2, <4>1, CountingType DEF AdmitBooking, Counts
    <3> QED BY <1>3, <3>1, <3>2
  <2> DEFINE new == [call[c] EXCEPT !.pc = "handling", !.user = call[c].token]
  <2>n. new \in CallOf
    BY <1>t DEF CallOf
  <2>o. call' = [call EXCEPT ![c] = new]
    BY <1>t, <2>1
  <2> HIDE DEF new
  <2>4. call' \in [Calls -> CallOf]
    BY <1>t, <2>n, <2>o
  <2>5. /\ call'[c].pc = "handling" /\ call'[c].route = call[c].route
        /\ call'[c].user = call[c].token /\ call'[c].token = call[c].token
    BY <1>t, <2>1 DEF CallOf
  <2>6. CallerInv(c)'
    BY <2>1, <2>2, <2>5 DEF CallerInv, HasRole, RequiredRoles, GroupsOf
  <2>7. call[c].route \in PartnerRoutes => call'[c].user \in Partners
    BY <2>2, <2>5, RolesMeanGroups
  <2> QED BY <1>t, <1>i, <1>p, <2>1, <2>3, <2>4, <2>5, <2>6, <2>7
<1> QED BY <1>1, <1>2, <1>3 DEF Admit

-----------------------------------------------------------------------------
(* The handlers. *)

Handlers == [pc : {"idle", "find", "insert", "bulk", "locate", "write",
                   "save", "owner", "place", "other"},
             table : Tables, codes : SUBSET Codes, active : Flags,
             to : Codes \cup {None}, service : Services, id : People \cup {None}, email : Emails]

LEMMA NoWorkKnows == NoWork \in Handlers /\ NoWork.pc = "idle" /\ \A token : Knows(NoWork, token)
BY DataAssumption DEF NoWork, Handlers, Knows, Tables, Services, Flags

(* The work a request starts, with all that its handler will rely on.      *)
LEMMA Begins ==
  ASSUME FInv, NEW c \in Calls, Begin(c),
         NEW token,
         call[c].route \in PartnerRoutes => call'[c].user \in Partners /\ call'[c].user = token
  PROVE  KeepRows /\ \E w \in Handlers : Knows(w, token) /\ Start(c, w)
<1> USE DataAssumption DEF NoWork, Handlers, Tables, Services, Flags
<1>1. ASSUME NEW t \in Tables, BeginCategories(c, t)
      PROVE  KeepRows /\ \E w \in Handlers : Knows(w, token) /\ Start(c, w)
  <2>1. KeepRows
    BY <1>1 DEF BeginCategories
  <2>2. ASSUME NEW codes \in SUBSET Codes \ {{}}, NEW active \in {"on", "off"},
               NEW pc \in {"find", "bulk"}, pc = "find" => \E k \in codes : codes = {k},
               Start(c, [NoWork EXCEPT !.pc = pc, !.table = t, !.codes = codes, !.active = active])
        PROVE  \E w \in Handlers : Knows(w, token) /\ Start(c, w)
    <3> DEFINE w == [NoWork EXCEPT !.pc = pc, !.table = t, !.codes = codes, !.active = active]
    <3>1. w \in Handlers /\ w.pc = pc /\ w.codes = codes
      OBVIOUS
    <3> HIDE DEF w
    <3>2. Knows(w, token)
      BY <2>2, <3>1 DEF Knows
    <3> QED BY <2>2, <3>1, <3>2 DEF w
  <2>3. ASSUME NEW k \in Codes, NEW to \in Codes, NEW active \in Flags,
               Start(c, [NoWork EXCEPT !.pc = "locate", !.table = t, !.codes = {k}, !.to = to,
                                       !.active = active])
        PROVE  \E w \in Handlers : Knows(w, token) /\ Start(c, w)
    <3> DEFINE w == [NoWork EXCEPT !.pc = "locate", !.table = t, !.codes = {k}, !.to = to,
                                   !.active = active]
    <3>1. w \in Handlers /\ w.pc = "locate" /\ w.codes = {k} /\ w.to = to
      OBVIOUS
    <3> HIDE DEF w
    <3>2. Knows(w, token)
      BY <3>1 DEF Knows
    <3> QED BY <2>3, <3>1, <3>2 DEF w
  <2> HIDE DEF Flags, NoWork, Handlers
  <2> QED BY <1>1, <2>1, <2>2, <2>3 DEF BeginCategories
<1>2. ASSUME NEW user \in Partners, user = token, BeginSavePartner(c, user)
      PROVE  KeepRows /\ \E w \in Handlers : Knows(w, token) /\ Start(c, w)
  <2>1. PICK email \in Emails : Start(c, [NoWork EXCEPT
          !.pc = "save", !.service = "partner", !.id = user, !.email = email])
    BY <1>2 DEF BeginSavePartner
  <2> DEFINE w == [NoWork EXCEPT !.pc = "save", !.service = "partner", !.id = user, !.email = email]
  <2>2. w \in Handlers /\ w.pc = "save" /\ w.id = user
    BY PathAssumption
  <2> HIDE DEF w
  <2>3. Knows(w, token)
    BY <1>2, <2>2, PathAssumption DEF Knows
  <2>4. KeepRows
    BY <1>2 DEF BeginSavePartner
  <2> QED BY <2>1, <2>2, <2>3, <2>4 DEF w
<1>3. ASSUME NEW user \in Partners, user = token, BeginVenue(c, user)
      PROVE  KeepRows /\ \E w \in Handlers : Knows(w, token) /\ Start(c, w)
  <2> DEFINE w == [NoWork EXCEPT !.pc = "owner", !.id = user]
  <2>1. w \in Handlers /\ w.pc = "owner" /\ w.id = user
    BY PathAssumption
  <2>2. Start(c, w) /\ KeepRows
    BY <1>3 DEF BeginVenue
  <2> HIDE DEF w
  <2>3. Knows(w, token)
    BY <1>3, <2>1 DEF Knows
  <2> QED BY <2>1, <2>2, <2>3
<1>4. ASSUME BeginRegister(c)
      PROVE  KeepRows /\ \E w \in Handlers : Knows(w, token) /\ Start(c, w)
  <2>1. PICK id \in People, email \in Emails \ {NoReply} :
          Start(c, [NoWork EXCEPT !.pc = "save", !.id = id, !.email = email])
    BY <1>4 DEF BeginRegister
  <2> DEFINE w == [NoWork EXCEPT !.pc = "save", !.id = id, !.email = email]
  <2>2. w \in Handlers /\ w.pc = "save" /\ w.id = id /\ w.service = "user"
    OBVIOUS
  <2> HIDE DEF w
  <2>3. Knows(w, token)
    BY <2>2 DEF Knows
  <2>4. KeepRows
    BY <1>4 DEF BeginRegister
  <2> QED BY <2>1, <2>2, <2>3, <2>4 DEF w
<1>5. ASSUME BeginOther(c)
      PROVE  KeepRows /\ \E w \in Handlers : Knows(w, token) /\ Start(c, w)
  <2> DEFINE w == [NoWork EXCEPT !.pc = "other"]
  <2>1. w \in Handlers /\ w.pc = "other"
    OBVIOUS
  <2>2. Start(c, w) /\ KeepRows
    BY <1>5 DEF BeginOther
  <2> HIDE DEF w
  <2>3. Knows(w, token)
    BY <2>1 DEF Knows
  <2> QED BY <2>1, <2>2, <2>3
<1>6. call[c].route \in {"savePartner", "venues"} => call'[c].user \in Partners /\ call'[c].user = token
  BY DEF PartnerRoutes
<1> HIDE DEF NoWork, Handlers
<1> QED BY <1>1, <1>2, <1>3, <1>4, <1>5, <1>6 DEF Begin

LEMMA BeginMoves ==
  ASSUME FInv, NEW c \in Calls, BeginMove(c)
  PROVE  KeepRows /\ \E w \in Handlers : Knows(w, call'[c].token) /\ Start(c, w)
<1>1. CallerInv(c)' /\ call'[c].pc = "handling" /\ call'[c].route = call[c].route
  BY Admits DEF BeginMove
<1>2. call[c].route \in PartnerRoutes => call'[c].user \in Partners
  BY Admits DEF BeginMove
<1>3. call[c].route \in PartnerRoutes => call'[c].user = call'[c].token
  BY <1>1 DEF CallerInv
<1> QED BY <1>2, <1>3, Begins DEF BeginMove

LEMMA BeginKeeps == ASSUME FInv, NEW c \in Calls, BeginMove(c) PROVE FInv'
<1>1. /\ PathTypeOK' /\ CallerInv(c)' /\ call'[c].pc = "handling"
      /\ \A d \in Calls \ {c} : call'[d] = call[d]
  BY Admits DEF BeginMove
<1>2. KeepRows /\ \E w \in Handlers : Knows(w, call'[c].token) /\ Start(c, w)
  BY BeginMoves
<1>3. PICK w \in Handlers : Knows(w, call'[c].token) /\ work' = [work EXCEPT ![c] = w]
  BY <1>2 DEF Start
<1>r. UNCHANGED <<categories, profiles, venues>>
  BY <1>2 DEF KeepRows
<1>t. work \in [Calls -> Handlers]
  BY DEF FInv, FrontTypeOK, DataTypeOK, Handlers
<1>4. work' \in [Calls -> Handlers] /\ work'[c] = w /\ \A d \in Calls \ {c} : work'[d] = work[d]
  BY <1>3, <1>t
<1>5. FrontTypeOK'
  BY <1>1, <1>4, <1>r DEF FInv, FrontTypeOK, DataTypeOK, Handlers
<1>6. OneRowPerCode'
  BY <1>r DEF FInv, OneRowPerCode, Row
<1>7. WorkInv(c)'
  BY <1>1, <1>3, <1>4 DEF WorkInv, Knows
<1> QED BY <1>1, <1>4, <1>5, <1>6, <1>7, Frame

(* What a step of a handler leaves behind.                                 *)
RowsOK ==
  /\ categories \in [Tables -> [Codes -> [rows : Nat, active : BOOLEAN]]]
  /\ profiles \in [Services -> [People -> Emails \cup {None}]]
  /\ venues \subseteq People
  /\ OneRowPerCode

LEMMA HandlerKeepsIf ==
  ASSUME FInv, NEW c \in Calls, Respond(c), work[c].pc # "idle", RowsOK',
         NEW w \in Handlers, work' = [work EXCEPT ![c] = w], Knows(w, call[c].token)
  PROVE  FInv'
<1>t. work \in [Calls -> Handlers] /\ call \in [Calls -> CallOf] /\ LimitTypeOK
  BY DEF FInv, FrontTypeOK, DataTypeOK, Handlers, PathTypeOK, CallOf, LimitTypeOK
<1>i. CallerInv(c) /\ WorkInv(c)
  BY DEF FInv
<1>1. work' \in [Calls -> Handlers] /\ work'[c] = w /\ \A d \in Calls \ {c} : work'[d] = work[d]
  BY <1>t
<1>2. Idle \in CallOf /\ Idle.pc = "idle"
  BY DEF Idle, CallOf, Routes, OpenRoutes
<1>3. call' = IF w.pc = "idle" THEN [call EXCEPT ![c] = Idle] ELSE call
  BY <1>1 DEF Respond, End
<1>4. /\ call' \in [Calls -> CallOf] /\ \A d \in Calls \ {c} : call'[d] = call[d]
      /\ call'[c] = IF w.pc = "idle" THEN Idle ELSE call[c]
  BY <1>t, <1>2, <1>3
<1>5. LimitTypeOK'
  BY <1>t DEF Respond, limitVars, LimitTypeOK
<1>6. FrontTypeOK'
  BY <1>1, <1>4, <1>5 DEF RowsOK, FrontTypeOK, DataTypeOK, PathTypeOK, Handlers, CallOf, LimitTypeOK
<1>7. CallerInv(c)'
  BY <1>i, <1>2, <1>4 DEF CallerInv
<1>8. WorkInv(c)'
  BY <1>i, <1>1, <1>4 DEF WorkInv, Knows
<1> QED BY <1>1, <1>4, <1>6, <1>7, <1>8, Frame DEF RowsOK

(* Handlers that leave the rows alone: they go on, or they are over.       *)
LEMMA IdleRows ==
  ASSUME FInv, NEW c \in Calls, Respond(c), work[c].pc # "idle", KeepRows,
         NEW w \in Handlers, work' = [work EXCEPT ![c] = w], Knows(w, call[c].token)
  PROVE  FInv'
<1>1. RowsOK'
  BY DEF KeepRows, FInv, FrontTypeOK, DataTypeOK, RowsOK, OneRowPerCode, Row
<1> QED BY <1>1, HandlerKeepsIf

(* Handlers that touch categories alone and are over.                      *)
LEMMA CategoryRows ==
  ASSUME FInv, NEW c \in Calls, Respond(c), work[c].pc # "idle", UNCHANGED <<profiles, venues>>,
         categories' \in [Tables -> [Codes -> [rows : Nat, active : BOOLEAN]]],
         OneRowPerCode',
         NEW w \in Handlers, work' = [work EXCEPT ![c] = w], Knows(w, call[c].token)
  PROVE  FInv'
<1>1. RowsOK'
  BY DEF FInv, FrontTypeOK, DataTypeOK, RowsOK
<1> QED BY <1>1, HandlerKeepsIf

LEMMA Singletons ==
  ASSUME FInv, NEW c \in Calls, work[c].pc \in {"find", "insert", "locate", "write"}
  PROVE  /\ Code(c) \in Codes /\ work[c].codes = {Code(c)} /\ work[c].table \in Tables
         /\ work[c].pc = "write" => work[c].to \in Codes
BY DEF FInv, WorkInv, Knows, Code, FrontTypeOK, DataTypeOK

(* A handler that goes on where its facts are those of the place it left.  *)
LEMMA MovesOn ==
  ASSUME FInv, NEW c \in Calls,
         NEW pc \in {"insert", "write", "place"},
         work[c].pc = CASE pc = "insert" -> "find" [] pc = "write" -> "locate" [] OTHER -> "owner"
  PROVE  /\ [work[c] EXCEPT !.pc = pc] \in Handlers
         /\ Knows([work[c] EXCEPT !.pc = pc], call[c].token)
<1>1. work[c] \in Handlers /\ WorkInv(c)
  BY DEF FInv, FrontTypeOK, DataTypeOK, Handlers
<1> DEFINE w == [work[c] EXCEPT !.pc = pc]
<1>2. /\ w \in Handlers /\ w.pc = pc /\ w.codes = work[c].codes /\ w.id = work[c].id
      /\ w.to = work[c].to
  BY <1>1 DEF Handlers
<1> HIDE DEF w
<1>3. Knows(w, call[c].token)
  BY <1>1, <1>2 DEF WorkInv, Knows
<1> QED BY <1>2, <1>3 DEF w

(* An update leaves one row at the most at each code, and moves nothing or *)
(* the row it found, with what the body says of isActive.                  *)
LEMMA MovedRows ==
  ASSUME categories \in [Tables -> [Codes -> [rows : Nat, active : BOOLEAN]]],
         NEW t \in Tables, \A l \in Codes : categories[t][l].rows <= 1,
         NEW k \in Codes, NEW to \in Codes, NEW flag \in BOOLEAN,
         Exists(t, k), to = k \/ CodeFree(t, to)
  PROVE  LET rows == Moved(categories[t], k, to, flag)
         IN  /\ rows \in [Codes -> [rows : Nat, active : BOOLEAN]]
             /\ \A l \in Codes : rows[l].rows <= 1
             /\ rows[to] = [rows |-> 1, active |-> flag]
             /\ \A l \in Codes \ {k, to} : rows[l] = categories[t][l]
<1> DEFINE left == [rows |-> categories[t][k].rows - 1, active |-> FALSE]
           gone == [categories[t] EXCEPT ![k] = left]
           row == AddRow(gone[to], flag)
<1>1. categories[t][k].rows = 1 /\ categories[t] \in [Codes -> [rows : Nat, active : BOOLEAN]]
  BY DEF Exists, Row
<1>2. left = [rows |-> 0, active |-> FALSE]
  BY <1>1
<1>3. gone \in [Codes -> [rows : Nat, active : BOOLEAN]] /\ gone[k] = left
      /\ \A l \in Codes \ {k} : gone[l] = categories[t][l]
  BY <1>1, <1>2
<1>4. gone[to].rows = 0
  <2>1. CASE to = k
    BY <1>2, <1>3, <2>1
  <2>2. CASE to # k
    BY <1>1, <1>3, <2>2 DEF CodeFree, Exists, Row
  <2> QED BY <2>1, <2>2
<1>5. row = [rows |-> 1, active |-> flag]
  BY <1>4 DEF AddRow
<1>6. Moved(categories[t], k, to, flag) = [gone EXCEPT ![to] = row]
  BY <1>1, <1>3, Zenon DEF Moved
<1> HIDE DEF left, gone, row
<1>7. \A l \in Codes : gone[l].rows <= 1
  BY <1>2, <1>3
<1> QED BY <1>3, <1>5, <1>6, <1>7

LEMMA WriteMoves ==
  ASSUME FInv, NEW c \in Calls, Write(c)
  PROVE  \/ UNCHANGED categories
         \/ \E flag \in BOOLEAN :
              /\ flag = IF work[c].active = "same" THEN Row(work[c].table, Code(c)).active
                        ELSE work[c].active = "on"
              /\ Exists(work[c].table, Code(c))
              /\ work[c].to = Code(c) \/ CodeFree(work[c].table, work[c].to)
              /\ categories' = [categories EXCEPT ![work[c].table] =
                   Moved(categories[work[c].table], Code(c), work[c].to, flag)]
<1> DEFINE t == work[c].table  k == Code(c)
           flag == IF work[c].active = "same" THEN Row(t, k).active ELSE work[c].active = "on"
<1>1. t \in Tables /\ k \in Codes
  BY Singletons DEF Write, At
<1>2. categories \in [Tables -> [Codes -> [rows : Nat, active : BOOLEAN]]]
  BY DEF FInv, FrontTypeOK, DataTypeOK
<1>3. flag \in BOOLEAN
  BY <1>1, <1>2 DEF Row
<1>4. \/ UNCHANGED categories
      \/ /\ Exists(t, k)
         /\ work[c].to = k \/ CodeFree(t, work[c].to)
         /\ categories' = [categories EXCEPT ![t] = Moved(categories[t], k, work[c].to, flag)]
  BY <1>1, <1>2, Zenon DEF Write
<1> QED BY <1>3, <1>4

LEMMA CategorySteps ==
  ASSUME FInv, NEW c \in Calls, Respond(c),
         Find(c) \/ Insert(c) \/ UpsertItem(c) \/ CreateMany(c) \/ Locate(c) \/ Write(c)
  PROVE  FInv'
<1>t. /\ work \in [Calls -> Handlers] /\ WorkInv(c)
      /\ categories \in [Tables -> [Codes -> [rows : Nat, active : BOOLEAN]]]
      /\ \A t \in Tables, k \in Codes : categories[t][k].rows <= 1
  BY DEF FInv, FrontTypeOK, DataTypeOK, Handlers, OneRowPerCode, Row
<1> USE NoWorkKnows
<1>1. CASE Find(c)
  <2>1. CASE Exists(work[c].table, Code(c))
    BY <1>1, <2>1, IdleRows DEF Find, At, Done
  <2>2. CASE ~Exists(work[c].table, Code(c))
    <3>1. work' = [work EXCEPT ![c] = [work[c] EXCEPT !.pc = "insert"]]
      BY <1>1, <1>t, <2>2 DEF Find, Goto
    <3>2. work[c].pc = "find" /\ KeepRows
      BY <1>1 DEF Find, At
    <3> DEFINE w == [work[c] EXCEPT !.pc = "insert"]
    <3>3. w \in Handlers /\ Knows(w, call[c].token)
      BY <3>2, MovesOn
    <3> HIDE DEF w
    <3> QED BY <3>1, <3>2, <3>3, IdleRows DEF w
  <2> QED BY <2>1, <2>2
<1>2. CASE Insert(c)
  <2>1. work[c].pc = "insert" /\ work' = [work EXCEPT ![c] = NoWork] /\ UNCHANGED <<profiles, venues>>
    BY <1>2 DEF Insert, At, Done
  <2> DEFINE t == work[c].table  k == Code(c)
  <2>2. t \in Tables /\ k \in Codes
    BY <2>1, Singletons
  <2>3. CASE ~CodeFree(t, k)
    <3>1. categories' = categories
      BY <1>2, <2>3 DEF Insert
    <3> QED BY <1>t, <2>1, <3>1, CategoryRows DEF OneRowPerCode, Row
  <2>4. CASE CodeFree(t, k)
    <3> DEFINE row == AddRow(categories[t][k], work[c].active = "on")
    <3>1. categories' = [categories EXCEPT ![t] = [categories[t] EXCEPT ![k] = row]]
      BY <1>2, <1>t, <2>2, <2>4, Zenon DEF Insert
    <3>2. row \in [rows : Nat, active : BOOLEAN] /\ row.rows <= 1
      BY <1>t, <2>2, <2>4 DEF AddRow, CodeFree, Exists, Row
    <3> HIDE DEF row, t, k
    <3>3. /\ categories' \in [Tables -> [Codes -> [rows : Nat, active : BOOLEAN]]]
          /\ \A u \in Tables, l \in Codes : categories'[u][l].rows <= 1
      BY <1>t, <2>2, <3>1, <3>2
    <3> QED BY <2>1, <3>3, CategoryRows DEF OneRowPerCode, Row
  <2> QED BY <2>3, <2>4
<1>3. CASE UpsertItem(c)
  <2>1. PICK k \in work[c].codes :
          /\ categories' = [categories EXCEPT !["event"][k] = UpsertRow(@, work[c].active = "on")]
          /\ IF work[c].codes = {k} THEN Done(c)
             ELSE work' = [work EXCEPT ![c].codes = @ \ {k}]
    BY <1>3 DEF UpsertItem
  <2>2. work[c].pc = "bulk" /\ UNCHANGED <<profiles, venues>>
    BY <1>3 DEF UpsertItem, At
  <2>3. k \in Codes /\ "event" \in Tables
    BY <1>t DEF Handlers, Tables
  <2> DEFINE row == UpsertRow(categories["event"][k], work[c].active = "on")
  <2>4. categories' = [categories EXCEPT !["event"] = [categories["event"] EXCEPT ![k] = row]]
    BY <1>t, <2>1, <2>3, Zenon
  <2>5. row \in [rows : Nat, active : BOOLEAN] /\ row.rows <= 1
    BY <1>t, <2>3 DEF UpsertRow, AddRow
  <2> HIDE DEF row
  <2>6. /\ categories' \in [Tables -> [Codes -> [rows : Nat, active : BOOLEAN]]]
        /\ \A u \in Tables, l \in Codes : categories'[u][l].rows <= 1
    BY <1>t, <2>3, <2>4, <2>5
  <2>7. OneRowPerCode'
    BY <2>6 DEF OneRowPerCode, Row
  <2>8. CASE work[c].codes = {k}
    BY <2>1, <2>2, <2>6, <2>7, <2>8, CategoryRows DEF Done
  <2>9. CASE work[c].codes # {k}
    <3> DEFINE w == [work[c] EXCEPT !.codes = work[c].codes \ {k}]
    <3>1. w \in Handlers /\ w.pc = "bulk"
      BY <1>t, <2>2 DEF Handlers
    <3>2. work' = [work EXCEPT ![c] = w]
      BY <1>t, <2>1, <2>9
    <3> HIDE DEF w
    <3>3. Knows(w, call[c].token)
      BY <3>1 DEF Knows
    <3> QED BY <2>2, <2>6, <2>7, <3>1, <3>2, <3>3, CategoryRows
  <2> QED BY <2>8, <2>9
<1>4. CASE CreateMany(c)
  <2>1. work[c].pc = "bulk" /\ work' = [work EXCEPT ![c] = NoWork] /\ UNCHANGED <<profiles, venues>>
    BY <1>4 DEF CreateMany, At, Done
  <2> DEFINE New(k) == IF k \in work[c].codes /\ ~Exists("ticket", k)
                       THEN AddRow(Row("ticket", k), work[c].active = "on") ELSE Row("ticket", k)
  <2>2. categories' = [categories EXCEPT !["ticket"] = [k \in Codes |-> New(k)]]
    BY <1>4 DEF CreateMany
  <2>3. "ticket" \in Tables
    BY <1>t DEF Handlers, Tables
  <2>4. ASSUME NEW k \in Codes
        PROVE  New(k) \in [rows : Nat, active : BOOLEAN] /\ New(k).rows <= 1
    BY <1>t, <2>3 DEF AddRow, Exists, Row
  <2> HIDE DEF New
  <2>5. /\ categories' \in [Tables -> [Codes -> [rows : Nat, active : BOOLEAN]]]
        /\ \A u \in Tables, l \in Codes : categories'[u][l].rows <= 1
    BY <1>t, <2>2, <2>3, <2>4
  <2> QED BY <2>1, <2>5, CategoryRows DEF OneRowPerCode, Row
<1>5. CASE Locate(c)
  <2>1. CASE ~Exists(work[c].table, Code(c))
    BY <1>5, <2>1, IdleRows DEF Locate, At, Done
  <2>2. CASE Exists(work[c].table, Code(c))
    <3>1. work' = [work EXCEPT ![c] = [work[c] EXCEPT !.pc = "write"]]
      BY <1>5, <1>t, <2>2 DEF Locate, Goto
    <3>2. work[c].pc = "locate" /\ KeepRows
      BY <1>5 DEF Locate, At
    <3> DEFINE w == [work[c] EXCEPT !.pc = "write"]
    <3>3. w \in Handlers /\ Knows(w, call[c].token)
      BY <3>2, MovesOn
    <3> HIDE DEF w
    <3> QED BY <3>1, <3>2, <3>3, IdleRows DEF w
  <2> QED BY <2>1, <2>2
<1>6. CASE Write(c)
  <2>1. work[c].pc = "write" /\ work' = [work EXCEPT ![c] = NoWork] /\ UNCHANGED <<profiles, venues>>
    BY <1>6 DEF Write, At, Done
  <2> DEFINE t == work[c].table  k == Code(c)  to == work[c].to
  <2>2. t \in Tables /\ k \in Codes /\ to \in Codes
    BY <2>1, Singletons
  <2>3. CASE UNCHANGED categories
    BY <1>t, <2>1, <2>3, CategoryRows DEF OneRowPerCode, Row
  <2>4. ASSUME NEW flag \in BOOLEAN, Exists(t, k), to = k \/ CodeFree(t, to),
               categories' = [categories EXCEPT ![t] = Moved(categories[t], k, to, flag)]
        PROVE  FInv'
    <3> DEFINE rows == Moved(categories[t], k, to, flag)
    <3> HIDE DEF t, k, to
    <3>1. rows \in [Codes -> [rows : Nat, active : BOOLEAN]] /\ \A l \in Codes : rows[l].rows <= 1
      BY <1>t, <2>2, <2>4, MovedRows
    <3> HIDE DEF rows
    <3>2. /\ categories' \in [Tables -> [Codes -> [rows : Nat, active : BOOLEAN]]]
          /\ \A u \in Tables, l \in Codes : categories'[u][l].rows <= 1
      BY <1>t, <2>2, <2>4, <3>1 DEF rows
    <3> QED BY <2>1, <3>2, CategoryRows DEF OneRowPerCode, Row
  <2> QED BY <1>6, <1>t, <2>2, <2>3, <2>4, WriteMoves
<1> QED BY <1>1, <1>2, <1>3, <1>4, <1>5, <1>6

LEMMA ProfileSteps ==
  ASSUME FInv, NEW c \in Calls, Respond(c), SaveProfile(c) \/ FindOwner(c) \/ PlaceVenue(c)
  PROVE  FInv'
<1>t. /\ work \in [Calls -> Handlers] /\ WorkInv(c) /\ work[c] \in Handlers
      /\ profiles \in [Services -> [People -> Emails \cup {None}]]
      /\ categories \in [Tables -> [Codes -> [rows : Nat, active : BOOLEAN]]]
      /\ OneRowPerCode /\ venues \subseteq People
  BY DEF FInv, FrontTypeOK, DataTypeOK, Handlers
<1> USE NoWorkKnows
<1>1. CASE SaveProfile(c)
  <2> DEFINE s == work[c].service  i == work[c].id
             email == Saved(s, i, work[c].email)
  <2>1. work[c].pc = "save" /\ work' = [work EXCEPT ![c] = NoWork] /\ UNCHANGED <<categories, venues>>
    BY <1>1 DEF SaveProfile, At, Done
  <2>2. s \in Services /\ i \in People
    BY <1>t, <2>1 DEF Handlers, WorkInv, Knows
  <2>3. profiles' = [profiles EXCEPT ![s] = [profiles[s] EXCEPT ![i] = email]]
    BY <1>1, <1>t, <2>2, Zenon DEF SaveProfile
  <2>4. email \in Emails \cup {None}
    BY <1>t, <2>2 DEF Saved, Handlers
  <2> HIDE DEF s, i, email
  <2>5. profiles' \in [Services -> [People -> Emails \cup {None}]]
    BY <1>t, <2>2, <2>3, <2>4
  <2>6. RowsOK'
    BY <1>t, <2>1, <2>5 DEF RowsOK, OneRowPerCode, Row
  <2> QED BY <2>1, <2>6, HandlerKeepsIf
<1>2. CASE FindOwner(c)
  <2>1. work[c].pc = "owner" /\ KeepRows
    BY <1>2 DEF FindOwner, At
  <2>2. CASE ~OwnerKnown(work[c].id)
    BY <1>2, <2>1, <2>2, IdleRows DEF FindOwner, Done
  <2>3. CASE OwnerKnown(work[c].id)
    <3>1. work' = [work EXCEPT ![c] = [work[c] EXCEPT !.pc = "place"]]
      BY <1>2, <1>t, <2>3 DEF FindOwner, Goto
    <3> DEFINE w == [work[c] EXCEPT !.pc = "place"]
    <3>2. w \in Handlers /\ Knows(w, call[c].token)
      BY <2>1, MovesOn
    <3> HIDE DEF w
    <3> QED BY <2>1, <3>1, <3>2, IdleRows DEF w
  <2> QED BY <2>2, <2>3
<1>3. CASE PlaceVenue(c)
  <2>1. /\ work[c].pc = "place" /\ work' = [work EXCEPT ![c] = NoWork]
        /\ venues' = venues \cup {work[c].id} /\ UNCHANGED <<categories, profiles>>
    BY <1>3 DEF PlaceVenue, At, Done
  <2>2. work[c].id \in People
    BY <1>t, <2>1, PathAssumption DEF WorkInv, Knows
  <2>3. RowsOK'
    BY <1>t, <2>1, <2>2 DEF RowsOK, OneRowPerCode, Row
  <2> QED BY <2>1, <2>3, HandlerKeepsIf
<1> QED BY <1>1, <1>2, <1>3

-----------------------------------------------------------------------------
(* Time, restarts, and all steps together. *)

LEMMA ClockKeeps == ASSUME FInv, Tick \/ Restart, UNCHANGED dataVars PROVE FInv'
<1>t. LimitTypeOK
  BY DEF FInv, FrontTypeOK, PathTypeOK, LimitTypeOK
<1>1. LimitTypeOK'
  <2>1. CASE Restart
    <3>1. \A n \in 0 .. Window - 1 : restarts[n] + 1 \in Nat
      BY <1>t DEF LimitTypeOK
    <3> QED BY <1>t, <2>1, <3>1, PathAssumption DEF Restart, LimitTypeOK
  <2>2. CASE Tick
    <3>1. ASSUME NEW u \in Buyers
          PROVE  [windows[u] EXCEPT !.left = IF @ = 0 THEN 0 ELSE @ - 1]
                   \in [count : 0 .. MaxRequests + 1, left : 0 .. Window]
      <4>1. windows[u] \in [count : 0 .. MaxRequests + 1, left : 0 .. Window]
        BY <1>t DEF LimitTypeOK
      <4> QED BY <4>1, PathAssumption
    <3>2. ASSUME NEW u \in Buyers, NEW n \in 0 .. Window - 1
          PROVE  (IF n = 0 THEN 0 ELSE recent[u][n - 1]) \in Nat
      <4>1. CASE n = 0
        BY <4>1
      <4>2. CASE n # 0
        <5>1. n - 1 \in 0 .. Window - 1
          BY <4>2, PathAssumption
        <5>2. recent[u] \in [0 .. Window - 1 -> Nat]
          BY <1>t DEF LimitTypeOK
        <5> QED BY <4>2, <5>1, <5>2
      <4> QED BY <4>1, <4>2
    <3>3. ASSUME NEW n \in 0 .. Window - 1
          PROVE  (IF n = 0 THEN 0 ELSE restarts[n - 1]) \in Nat
      <4>1. n # 0 => n - 1 \in 0 .. Window - 1
        BY PathAssumption
      <4> QED BY <1>t, <4>1 DEF LimitTypeOK
    <3> QED BY <2>2, <3>1, <3>2, <3>3 DEF Tick, LimitTypeOK
  <2> QED BY <2>1, <2>2
<1>2. UNCHANGED <<call, categories, profiles, venues, work>>
  BY DEF Tick, Restart, dataVars
<1>3. FrontTypeOK'
  BY <1>1, <1>2 DEF FInv, FrontTypeOK, PathTypeOK, DataTypeOK, LimitTypeOK
<1> QED BY <1>2, <1>3 DEF FInv, OneRowPerCode, Row, CallerInv, WorkInv, Knows

LEMMA NextFInv == FInv /\ [FrontNext]_frontVars => FInv'
<1> SUFFICES ASSUME FInv, [FrontNext]_frontVars PROVE FInv'
  OBVIOUS
<1>1. CASE UNCHANGED frontVars
  BY <1>1 DEF frontVars, pathVars, limitVars, dataVars, FInv, FrontTypeOK, PathTypeOK, DataTypeOK,
     OneRowPerCode, Row, CallerInv, WorkInv, Knows
<1>2. ASSUME NEW c \in Calls, HandlerMove(c) PROVE FInv'
  <2>1. Respond(c) /\ HandlerStep(c)
    BY <1>2 DEF HandlerMove
  <2>2. CASE OtherDone(c)
    BY <2>1, <2>2, NoWorkKnows, IdleRows DEF OtherDone, At, Done
  <2> QED BY <2>1, <2>2, CategorySteps, ProfileSteps DEF HandlerStep
<1>3. ASSUME NEW c \in Calls, FailMove(c) PROVE FInv'
  BY <1>3, NoWorkKnows, IdleRows DEF FailMove, HandlerFail, At, Done
<1> QED BY <1>1, <1>2, <1>3, PathKeeps, BeginKeeps, ClockKeeps DEF FrontNext

THEOREM FrontInvariance == FrontSpec => []FInv
BY InitFInv, NextFInv, PTL DEF FrontSpec

(* Every variable of the request path and of the handlers keeps its type.  *)
THEOREM FrontTypeCorrect == FrontSpec => []FrontTypeOK
<1>1. FInv => FrontTypeOK
  BY DEF FInv
<1> QED BY <1>1, FrontInvariance, PTL

(* The gateway and the guards of a service, in whatever order requests     *)
(* come: a handler of an internal route never works for a client, and one  *)
(* of a user's or partner's route for the identity of its token only.      *)
THEOREM CallersAreRight == FrontSpec => []WorksForItsCaller
<1>1. FInv => WorksForItsCaller
  BY DEF FInv, CallerInv, WorksForItsCaller
<1> QED BY <1>1, FrontInvariance, PTL

(* However find and insert of several requests interleave, a category code *)
(* has one row.                                                            *)
THEOREM OneRowForEachCode == FrontSpec => []OneRowPerCode
<1>1. FInv => OneRowPerCode
  BY DEF FInv
<1> QED BY <1>1, FrontInvariance, PTL

-----------------------------------------------------------------------------
(* The rate limit.  WithinLimit looks at the end of a window's worth of    *)
(* time, which is seldom the end of a window: the inductive form says of   *)
(* every time before now how many bookings it saw.  Of those since the     *)
(* current window began the guard keeps count, less the one that opened it *)
(* if that lies outside; the window before added one maximum at most, and  *)
(* so did what each restart made the guard forget.                         *)
Bound(u, n) ==
  IF windows[u].left = 0 THEN MaxRequests
  ELSE IF n < Window - windows[u].left THEN Passed(u) ELSE Passed(u) + MaxRequests
Lost(n) == restarts[n] * MaxRequests
LimitInv ==
  \A u \in Buyers :
    /\ windows[u].left > 0 => windows[u].count > 0
    /\ \A n \in 0 .. Window - 1 : recent[u][n] < Bound(u, n) + Lost(n)

LEMMA BoundType ==
  ASSUME LimitTypeOK, NEW u \in Buyers, NEW n \in 0 .. Window - 1
  PROVE  /\ Bound(u, n) \in Nat /\ Bound(u, n) <= 2 * MaxRequests
         /\ Lost(n) \in Nat /\ restarts[n] \in Nat /\ recent[u][n] \in Nat
<1>1. Passed(u) \in 0 .. MaxRequests /\ windows[u].left \in 0 .. Window /\ recent[u][n] \in Nat
  BY PassedType
<1>2. MaxRequests \in Nat /\ Window \in Nat /\ restarts[n] \in Nat
  BY PathAssumption DEF LimitTypeOK
<1>3. restarts[n] * MaxRequests \in Nat
  BY <1>2
<1> QED BY <1>1, <1>2, <1>3 DEF Bound, Lost

(* A booking counted against one buyer, let through or not.                *)
LEMMA CountKeepsLimit ==
  ASSUME LimitTypeOK, LimitInv, NEW u \in Buyers, Counts(u)
  PROVE  LimitInv'
<1> DEFINE w == windows[u]
<1>t. /\ w.count \in 0 .. MaxRequests + 1 /\ w.left \in 0 .. Window /\ Passed(u) \in 0 .. MaxRequests
      /\ w \in [count : 0 .. MaxRequests + 1, left : 0 .. Window]
      /\ windows \in [Buyers -> [count : 0 .. MaxRequests + 1, left : 0 .. Window]]
      /\ recent \in [Buyers -> [0 .. Window - 1 -> Nat]]
  BY PassedType DEF LimitTypeOK
<1>m. MaxRequests \in Nat \ {0} /\ Window \in Nat \ {0}
  BY PathAssumption
<1>l. \A n \in 0 .. Window - 1 : Lost(n)' = Lost(n)
  BY DEF Counts, Lost
<1>1. ASSUME NEW v \in Buyers, v # u
      PROVE  windows'[v] = windows[v] /\ recent'[v] = recent[v]
  BY <1>1, <1>t DEF Counts
<1>2. windows'[u] = Counted(u)
  BY <1>t DEF Counts
<1>3. ASSUME NEW v \in Buyers, v # u, NEW n \in 0 .. Window - 1
      PROVE  recent'[v][n] < Bound(v, n)' + Lost(n)'
  <2>1. Bound(v, n)' = Bound(v, n)
    BY <1>1, <1>3 DEF Bound, Passed
  <2> QED BY <1>1, <1>3, <1>l, <2>1 DEF LimitInv
<1>4. CASE w.left = 0
  <2>1. Counted(u) = [count |-> 1, left |-> Window]
    BY <1>4, <1>m DEF Counted, FreshWindow
  <2>2. WithinMax(u)
    BY <2>1, <1>m DEF WithinMax
  <2>3. Passed(u)' = 1 /\ windows'[u].left = Window /\ windows'[u].count = 1
    BY <1>2, <1>m, <2>1 DEF Passed
  <2>4. ASSUME NEW n \in 0 .. Window - 1 PROVE recent'[u][n] < Bound(u, n)' + Lost(n)'
    <3>1. recent'[u][n] = recent[u][n] + 1
      BY <2>2, <1>t DEF Counts
    <3>2. recent[u][n] < MaxRequests + Lost(n)
      BY <1>4 DEF LimitInv, Bound
    <3>3. Bound(u, n)' = 1 + MaxRequests
      BY <1>m, <2>3 DEF Bound
    <3>4. recent[u][n] \in Nat /\ Lost(n) \in Nat /\ Lost(n)' = Lost(n)
      BY <1>l, BoundType
    <3> QED BY <1>m, <3>1, <3>2, <3>3, <3>4
  <2> QED BY <1>1, <1>3, <2>3, <2>4 DEF LimitInv
<1>5. CASE w.left > 0
  <2>1. /\ Counted(u).left = w.left
        /\ Counted(u).count = IF w.count > MaxRequests THEN w.count ELSE w.count + 1
    BY <1>5, <1>t DEF Counted
  <2>2. w.count > 0 /\ windows'[u].left = w.left /\ windows'[u].count > 0
    BY <1>2, <1>5, <1>t, <2>1 DEF LimitInv
  <2>3. ASSUME NEW n \in 0 .. Window - 1 PROVE recent'[u][n] < Bound(u, n)' + Lost(n)'
    <3>1. /\ recent[u][n] \in Nat /\ Bound(u, n) \in Nat /\ Lost(n) \in Nat
          /\ recent[u][n] < Bound(u, n) + Lost(n) /\ Lost(n)' = Lost(n)
      BY <1>l, BoundType DEF LimitInv
    <3>2. CASE WithinMax(u)
      <4>1. Passed(u)' = Passed(u) + 1
        BY <1>2, <1>t, <1>m, <2>1, <3>2 DEF WithinMax, Passed
      <4>2. Bound(u, n)' = Bound(u, n) + 1
        <5> HIDE DEF Passed
        <5>1. Bound(u, n) = IF n < Window - w.left THEN Passed(u) ELSE Passed(u) + MaxRequests
          BY <1>5, <1>t DEF Bound
        <5>2. Bound(u, n)' = IF n < Window - w.left THEN Passed(u) + 1 ELSE Passed(u) + 1 + MaxRequests
          BY <1>5, <1>t, <2>2, <4>1 DEF Bound
        <5> QED BY <1>t, <1>m, <5>1, <5>2, SMTT(40)
      <4>3. recent'[u][n] = recent[u][n] + 1
        BY <1>t, <3>2 DEF Counts
      <4> QED BY <3>1, <4>2, <4>3
    <3>3. CASE ~WithinMax(u)
      <4>1. Passed(u)' = Passed(u)
        BY <1>2, <1>t, <1>m, <2>1, <3>3 DEF WithinMax, Passed
      <4>2. Bound(u, n)' = Bound(u, n)
        BY <2>2, <4>1 DEF Bound
      <4>3. recent' = recent
        BY <3>3 DEF Counts
      <4> QED BY <3>1, <4>2, <4>3
    <3> QED BY <3>2, <3>3
  <2> QED BY <1>1, <1>3, <2>2, <2>3 DEF LimitInv
<1> QED BY <1>4, <1>5, <1>t

LEMMA TickKeepsLimit == ASSUME LimitTypeOK, LimitInv, Tick PROVE LimitInv'
<1>m. MaxRequests \in Nat \ {0} /\ Window \in Nat \ {0}
  BY PathAssumption
<1> SUFFICES ASSUME NEW u \in Buyers
             PROVE  /\ windows'[u].left > 0 => windows'[u].count > 0
                    /\ \A n \in 0 .. Window - 1 : recent'[u][n] < Bound(u, n)' + Lost(n)'
  BY DEF LimitInv
<1> DEFINE w == windows[u]
<1>t. /\ w \in [count : 0 .. MaxRequests + 1, left : 0 .. Window]
      /\ Passed(u) \in 0 .. MaxRequests /\ (w.count > 0 => Passed(u) > 0)
      /\ w.left > 0 => w.count > 0
  BY PassedType DEF LimitTypeOK, LimitInv
<1>1. /\ windows'[u].left = IF w.left = 0 THEN 0 ELSE w.left - 1
      /\ windows'[u].count = w.count
  BY <1>t DEF Tick
<1>2. Passed(u)' = Passed(u)
  BY <1>1 DEF Passed
<1>3. ASSUME NEW n \in 0 .. Window - 1
      PROVE  /\ recent'[u][n] = IF n = 0 THEN 0 ELSE recent[u][n - 1]
             /\ restarts'[n] = IF n = 0 THEN 0 ELSE restarts[n - 1]
  BY DEF Tick
<1>4. windows'[u].left > 0 => windows'[u].count > 0
  BY <1>1, <1>t
<1>5. ASSUME NEW n \in 0 .. Window - 1 PROVE recent'[u][n] < Bound(u, n)' + Lost(n)'
  <2>1. Bound(u, n)' \in Nat /\ Bound(u, n)' > 0
    BY <1>1, <1>2, <1>m, <1>t DEF Bound
  <2>2. CASE n = 0
    <3>1. recent'[u][n] = 0 /\ Lost(n)' = 0
      BY <1>3, <1>m, <2>2 DEF Lost
    <3> QED BY <2>1, <3>1
  <2>3. CASE n # 0
    <3>1. n - 1 \in 0 .. Window - 1 /\ recent'[u][n] = recent[u][n - 1] /\ Lost(n)' = Lost(n - 1)
      BY <1>3, <1>m, <2>3 DEF Lost
    <3>2. /\ recent[u][n - 1] \in Nat /\ Bound(u, n - 1) \in Nat /\ Lost(n - 1) \in Nat
          /\ recent[u][n - 1] < Bound(u, n - 1) + Lost(n - 1)
      BY <3>1, BoundType DEF LimitInv
    <3>3. Bound(u, n - 1) <= Bound(u, n)'
      BY <1>1, <1>2, <1>m, <1>t, <2>3 DEF Bound
    <3> QED BY <2>1, <3>1, <3>2, <3>3
  <2> QED BY <2>2, <2>3
<1> QED BY <1>4, <1>5

(* The guard forgets the current window and the one before: one maximum    *)
(* for the restart, the other for the window to come.                      *)
LEMMA RestartKeepsLimit == ASSUME LimitTypeOK, LimitInv, Restart PROVE LimitInv'
<1> SUFFICES ASSUME NEW u \in Buyers
             PROVE  /\ windows'[u].left > 0 => windows'[u].count > 0
                    /\ \A n \in 0 .. Window - 1 : recent'[u][n] < Bound(u, n)' + Lost(n)'
  BY DEF LimitInv
<1>m. MaxRequests \in Nat
  BY PathAssumption
<1>1. windows'[u].left = 0
  BY DEF Restart
<1>2. ASSUME NEW n \in 0 .. Window - 1 PROVE recent'[u][n] < Bound(u, n)' + Lost(n)'
  <2>1. /\ recent[u][n] \in Nat /\ Bound(u, n) \in Nat /\ Bound(u, n) <= 2 * MaxRequests
        /\ Lost(n) \in Nat /\ restarts[n] \in Nat /\ recent[u][n] < Bound(u, n) + Lost(n)
    BY BoundType DEF LimitInv
  <2>2. Bound(u, n)' = MaxRequests
    BY <1>1 DEF Bound
  <2>3. Lost(n)' = Lost(n) + MaxRequests
    <3>1. Lost(n)' = (restarts[n] + 1) * MaxRequests
      BY DEF Restart, Lost
    <3> QED BY <1>m, <2>1, <3>1 DEF Lost
  <2>4. recent'[u][n] = recent[u][n]
    BY DEF Restart
  <2> QED BY <1>m, <2>1, <2>2, <2>3, <2>4
<1> QED BY <1>1, <1>2

LEMMA NextLimitInv == FInv /\ LimitInv /\ [FrontNext]_frontVars => LimitInv'
<1> SUFFICES ASSUME FInv, LimitInv, [FrontNext]_frontVars PROVE LimitInv'
  OBVIOUS
<1>t. LimitTypeOK
  BY DEF FInv, FrontTypeOK, PathTypeOK, LimitTypeOK
<1>1. CASE UNCHANGED limitVars
  BY <1>1 DEF limitVars, LimitInv, Bound, Lost, Passed
<1>2. ASSUME NEW c \in Calls, AdmitBooking(c) \/ LimitBooking(c) PROVE LimitInv'
  <2>1. call[c].token \in Buyers
    BY <1>2, RolesMeanGroups DEF AdmitBooking, LimitBooking, Admissible, UserRoutes
  <2>2. Counts(call[c].token)
    BY <1>2 DEF Counts, AdmitBooking, LimitBooking
  <2> QED BY <1>t, <2>1, <2>2, CountKeepsLimit
<1>3. ASSUME NEW c \in Calls, PathMove(c) PROVE LimitInv'
  BY <1>1, <1>2, <1>3 DEF PathMove, Turned, Arrive, ArriveFromService, Refused
<1>4. ASSUME NEW c \in Calls, BeginMove(c) PROVE LimitInv'
  BY <1>1, <1>2, <1>4 DEF BeginMove, Admit, AdmitPublic, AdmitInternal, AdmitPartner
<1>5. ASSUME NEW c \in Calls, HandlerMove(c) \/ FailMove(c) PROVE LimitInv'
  BY <1>1, <1>5 DEF HandlerMove, FailMove, Respond
<1>6. CASE UNCHANGED frontVars
  BY <1>1, <1>6 DEF frontVars, pathVars, limitVars
<1>7. CASE Tick \/ Restart
  BY <1>t, <1>7, TickKeepsLimit, RestartKeepsLimit
<1> QED BY <1>3, <1>4, <1>5, <1>6, <1>7 DEF FrontNext

(* Whatever a buyer sends and however the windows of the guard fall, in no *)
(* WINDOW_MS are there more than twice the maximum less one bookings of    *)
(* one buyer let through, and one maximum more for each restart within it. *)
THEOREM RateIsLimited == FrontSpec => []WithinLimit
<1>1. FrontInit => LimitInv
  BY PathAssumption DEF FrontInit, PathInit, LimitInv, Bound, Lost
<1>2. FInv /\ LimitInv => WithinLimit
  <2> SUFFICES ASSUME FInv, LimitInv, NEW u \in Buyers
               PROVE  recent[u][Window - 1] < (2 + restarts[Window - 1]) * MaxRequests
    BY DEF WithinLimit
  <2> DEFINE n == Window - 1
  <2>1. LimitTypeOK
    BY DEF FInv, FrontTypeOK, PathTypeOK, LimitTypeOK
  <2>2. n \in 0 .. Window - 1 /\ MaxRequests \in Nat
    BY PathAssumption
  <2> HIDE DEF n
  <2>3. /\ recent[u][n] < Bound(u, n) + Lost(n) /\ recent[u][n] \in Nat
        /\ Bound(u, n) \in Nat /\ Bound(u, n) <= 2 * MaxRequests
        /\ Lost(n) \in Nat /\ restarts[n] \in Nat
    BY <2>1, <2>2, BoundType DEF LimitInv
  <2>4. (2 + restarts[n]) * MaxRequests = 2 * MaxRequests + Lost(n)
    BY <2>2, <2>3 DEF Lost
  <2>5. recent[u][n] < (2 + restarts[n]) * MaxRequests
    BY <2>2, <2>3, <2>4
  <2> QED BY <2>5 DEF n
<1>3. FrontSpec => []LimitInv
  BY <1>1, NextLimitInv, FrontInvariance, PTL DEF FrontSpec
<1> QED BY <1>2, <1>3, FrontInvariance, PTL

-----------------------------------------------------------------------------
(* What no step does. *)

LEMMA SameCategories == ASSUME UNCHANGED categories PROVE OnlyUpdatesShow
BY DEF OnlyUpdatesShow, Hidden, Exists, Row

(* One entry changes, and it was no row, or it keeps isActive.             *)
LEMMA OneEntry ==
  ASSUME categories \in [Tables -> [Codes -> [rows : Nat, active : BOOLEAN]]],
         NEW t \in Tables, NEW k \in Codes, NEW row,
         categories' = [categories EXCEPT ![t] = [categories[t] EXCEPT ![k] = row]],
         t = "event" /\ Hidden(k) => row.rows > 0 /\ ~row.active
  PROVE  OnlyUpdatesShow
<1> SUFFICES ASSUME NEW l \in Codes, Hidden(l) PROVE Hidden(l)'
  BY DEF OnlyUpdatesShow
<1>e. "event" \in Tables
  BY DEF Tables
<1>1. CASE t = "event" /\ l = k
  <2>1. categories'["event"][l] = row
    BY <1>e, <1>1
  <2> QED BY <1>1, <2>1 DEF Hidden, Exists, Row
<1>2. CASE t # "event" \/ l # k
  <2>1. categories'["event"][l] = categories["event"][l]
    BY <1>e, <1>2
  <2> QED BY <2>1 DEF Hidden, Exists, Row
<1> QED BY <1>1, <1>2

LEMMA StepsShowNothing ==
  ASSUME FInv, NEW c \in Calls, Insert(c) \/ UpsertItem(c) \/ CreateMany(c)
  PROVE  OnlyUpdatesShow
<1>t. /\ work \in [Calls -> Handlers]
      /\ categories \in [Tables -> [Codes -> [rows : Nat, active : BOOLEAN]]]
  BY DEF FInv, FrontTypeOK, DataTypeOK, Handlers
<1>1. CASE Insert(c)
  <2> DEFINE t == work[c].table  k == Code(c)
             row == AddRow(categories[t][k], work[c].active = "on")
  <2>1. t \in Tables /\ k \in Codes
    BY <1>1, Singletons DEF Insert, At
  <2>2. CASE ~CodeFree(t, k)
    BY <1>1, <2>2, SameCategories DEF Insert
  <2>3. CASE CodeFree(t, k)
    <3>1. categories' = [categories EXCEPT ![t] = [categories[t] EXCEPT ![k] = row]]
      BY <1>1, <1>t, <2>1, <2>3, Zenon DEF Insert
    <3>2. ~(t = "event" /\ Hidden(k))
      BY <2>3 DEF CodeFree, Hidden
    <3> HIDE DEF t, k, row
    <3> QED BY <1>t, <2>1, <3>1, <3>2, OneEntry
  <2> QED BY <2>2, <2>3
<1>2. CASE UpsertItem(c)
  <2>1. PICK k \in work[c].codes :
          categories' = [categories EXCEPT !["event"][k] = UpsertRow(@, work[c].active = "on")]
    BY <1>2 DEF UpsertItem
  <2>2. k \in Codes /\ "event" \in Tables
    BY <1>t DEF Handlers, Tables
  <2> DEFINE row == UpsertRow(categories["event"][k], work[c].active = "on")
  <2>3. categories' = [categories EXCEPT !["event"] = [categories["event"] EXCEPT ![k] = row]]
    BY <1>t, <2>1, <2>2, Zenon
  <2>4. Hidden(k) => row.rows > 0 /\ ~row.active
    BY <1>t, <2>2 DEF Hidden, Exists, Row, UpsertRow
  <2> HIDE DEF row
  <2> QED BY <1>t, <2>2, <2>3, <2>4, OneEntry
<1>3. CASE CreateMany(c)
  <2>1. categories'["event"] = categories["event"]
    BY <1>3, <1>t DEF CreateMany, Tables
  <2> QED BY <2>1 DEF OnlyUpdatesShow, Hidden, Exists, Row
<1> QED BY <1>1, <1>2, <1>3

LEMMA UpdatesShow == ASSUME FInv, NEW c \in Calls, Write(c) PROVE OnlyUpdatesShow
<1>t. /\ categories \in [Tables -> [Codes -> [rows : Nat, active : BOOLEAN]]]
      /\ \A u \in Tables, l \in Codes : categories[u][l].rows <= 1
  BY DEF FInv, FrontTypeOK, DataTypeOK, OneRowPerCode, Row
<1>1. PICK t \in Tables, k \in Codes, to \in Codes :
        t = work[c].table /\ k = Code(c) /\ to = work[c].to /\ work[c].codes = {k}
  BY Singletons DEF Write, At
<1>e. "event" \in Tables
  BY DEF Tables
<1> SUFFICES ASSUME NEW l \in Codes, Hidden(l), ~Hidden(l)'
             PROVE  t = "event" /\ l = k /\ (work[c].active = "on" \/ Hidden(to)')
  BY <1>1 DEF OnlyUpdatesShow
<1>2. PICK flag \in BOOLEAN :
        /\ flag = IF work[c].active = "same" THEN Row(t, k).active ELSE work[c].active = "on"
        /\ Exists(t, k) /\ (to = k \/ CodeFree(t, to))
        /\ categories' = [categories EXCEPT ![t] = Moved(categories[t], k, to, flag)]
  <2>1. ~UNCHANGED categories
    BY DEF Hidden, Exists, Row
  <2> QED BY <1>1, <2>1, WriteMoves
<1> DEFINE rows == Moved(categories[t], k, to, flag)
<1>3. rows[to] = [rows |-> 1, active |-> flag] /\ \A m \in Codes \ {k, to} : rows[m] = categories[t][m]
  <2>1. \A m \in Codes : categories[t][m].rows <= 1
    BY <1>t
  <2>2. categories \in [Tables -> [Codes -> [rows : Nat, active : BOOLEAN]]]
    BY <1>t
  <2>3. Exists(t, k) /\ (to = k \/ CodeFree(t, to))
    BY <1>2
  <2> QED BY <2>1, <2>2, <2>3, MovedRows
<1>4. categories' = [categories EXCEPT ![t] = rows]
  BY <1>2
<1> HIDE DEF rows
<1>5. t = "event"
  <2>1. t # "event" => categories'["event"] = categories["event"]
    BY <1>t, <1>e, <1>4
  <2> QED BY <2>1 DEF Hidden, Exists, Row
<1>6. categories'["event"] = rows
  BY <1>t, <1>e, <1>4, <1>5
<1>7. l = k
  <2>1. CASE l = to /\ to # k
    BY <1>2, <1>5, <2>1 DEF CodeFree, Hidden
  <2>2. CASE l # to /\ l # k
    <3>1. categories'["event"][l] = categories["event"][l]
      BY <1>3, <1>5, <1>6, <2>2
    <3> QED BY <3>1 DEF Hidden, Exists, Row
  <2> QED BY <2>1, <2>2
<1>8. work[c].active = "on" \/ ~flag
  BY <1>2, <1>5, <1>7 DEF Hidden
<1>9. ~flag => Hidden(to)'
  <2>1. categories'["event"][to] = [rows |-> 1, active |-> flag]
    BY <1>3, <1>6
  <2> QED BY <2>1 DEF Hidden, Exists, Row
<1> QED BY <1>5, <1>7, <1>8, <1>9

LEMMA NextShowsUpdates == FInv /\ [FrontNext]_frontVars => OnlyUpdatesShow
<1> SUFFICES ASSUME FInv, [FrontNext]_frontVars PROVE OnlyUpdatesShow
  OBVIOUS
<1>1. CASE UNCHANGED frontVars
  BY <1>1, SameCategories DEF frontVars, dataVars
<1>2. ASSUME NEW c \in Calls, BeginMove(c) PROVE UNCHANGED categories
  BY <1>2, BeginMoves DEF KeepRows
<1>3. ASSUME NEW c \in Calls, HandlerStep(c) PROVE OnlyUpdatesShow
  BY <1>3, SameCategories, StepsShowNothing, UpdatesShow
     DEF HandlerStep, Find, Locate, SaveProfile, FindOwner, PlaceVenue, OtherDone, KeepRows
<1> QED
  BY <1>1, <1>2, <1>3, SameCategories
     DEF FrontNext, PathMove, HandlerMove, FailMove, HandlerFail, KeepRows, dataVars

(* A write to a partner's profile or venues is the end of a call whose     *)
(* token, by the invariant, is that partner's.                             *)
LEMMA NextWritesTheirOwn == FInv /\ [FrontNext]_frontVars => WriteTheirOwn
<1> SUFFICES ASSUME FInv, [FrontNext]_frontVars PROVE WriteTheirOwn
  OBVIOUS
<1>1. CASE UNCHANGED <<profiles, venues>>
  BY <1>1 DEF WriteTheirOwn
<1>2. ASSUME NEW c \in Calls, BeginMove(c) PROVE UNCHANGED <<profiles, venues>>
  BY <1>2, BeginMoves DEF KeepRows
<1>3. ASSUME NEW c \in Calls, HandlerMove(c), SaveProfile(c) \/ PlaceVenue(c)
      PROVE  WriteTheirOwn
  <2>1. /\ call \in [Calls -> CallOf] /\ work \in [Calls -> Handlers] /\ WorkInv(c)
        /\ profiles \in [Services -> [People -> Emails \cup {None}]]
    BY DEF FInv, FrontTypeOK, PathTypeOK, DataTypeOK, CallOf, Handlers
  <2>2. work[c].pc \in {"save", "place"} /\ work' = [work EXCEPT ![c] = NoWork]
    BY <1>3 DEF SaveProfile, PlaceVenue, At, Done
  <2>3. call[c].pc = "handling" /\ call'[c].pc = "idle"
    BY <1>3, <2>1, <2>2, NoWorkKnows DEF WorkInv, HandlerMove, Respond, End, Idle
  <2> SUFFICES ASSUME NEW i \in People,
                      profiles'["partner"][i] # profiles["partner"][i] \/ i \in venues' \ venues
               PROVE  i \in Partners /\ call[c].token = i
    BY <2>3 DEF WriteTheirOwn
  <2>4. CASE SaveProfile(c)
    <3> DEFINE s == work[c].service  j == work[c].id
               email == Saved(s, j, work[c].email)
    <3>1. s \in Services /\ j \in People /\ venues' = venues
      BY <2>1, <2>4 DEF Handlers, WorkInv, Knows, SaveProfile, At
    <3>2. profiles' = [profiles EXCEPT ![s] = [profiles[s] EXCEPT ![j] = email]]
      BY <2>1, <2>4, <3>1, Zenon DEF SaveProfile
    <3> HIDE DEF s, j, email
    <3>3. s = "partner" /\ j = i
      BY <2>1, <3>1, <3>2 DEF Services
    <3> QED BY <2>1, <2>4, <3>3 DEF WorkInv, Knows, SaveProfile, At, s, j
  <2>5. CASE PlaceVenue(c)
    BY <2>1, <2>5 DEF WorkInv, Knows, PlaceVenue, At
  <2> QED BY <1>3, <2>4, <2>5
<1>4. ASSUME NEW c \in Calls, HandlerMove(c) PROVE WriteTheirOwn
  BY <1>1, <1>3, <1>4
     DEF HandlerMove, HandlerStep, Find, Insert, UpsertItem, CreateMany, Locate, Write, FindOwner,
         OtherDone, KeepRows
<1>5. CASE UNCHANGED frontVars
  BY <1>1, <1>5 DEF frontVars, dataVars
<1> QED
  BY <1>1, <1>2, <1>4, <1>5
     DEF FrontNext, PathMove, FailMove, HandlerFail, KeepRows, dataVars

(* A removed event category comes back by an update that switches it on,   *)
(* and by nothing else, whatever code it has by then: not by creating a    *)
(* category anew, nor by a bulk request.                                   *)
THEOREM RemovedStaysHidden == FrontSpec => HiddenUntilUpdated
BY FrontInvariance, NextShowsUpdates, PTL DEF FrontSpec, HiddenUntilUpdated

(* However requests interleave between their awaits, a partner's profile   *)
(* and venues are written for that partner's token only.                   *)
THEOREM WritesAreTheirOwn == FrontSpec => PartnersWriteTheirOwn
BY FrontInvariance, NextWritesTheirOwn, PTL DEF FrontSpec, PartnersWriteTheirOwn
=============================================================================
