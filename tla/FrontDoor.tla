------------------------------ MODULE FrontDoor ------------------------------
(***************************************************************************)
(* Requests from the gateway through the guards to the handlers of the     *)
(* partner and user services and back; handlers of other routes are there  *)
(* only for as long as they run.                                           *)
(***************************************************************************)
EXTENDS ReferenceData

frontVars == <<pathVars, dataVars>>

FrontTypeOK == PathTypeOK /\ DataTypeOK
FrontInit == PathInit /\ DataInit

(* The guards and the handler up to its first await run in one go.         *)
Begin(c) ==
  LET route == call[c].route  user == call'[c].user IN
    \/ route = "eventCategories" /\ BeginCategories(c, "event")
    \/ route = "ticketCategories" /\ BeginCategories(c, "ticket")
    \/ route = "savePartner" /\ BeginSavePartner(c, user)
    \/ route = "venues" /\ BeginVenue(c, user)
    \/ route = "register" /\ BeginRegister(c)
    \/ route \in UserRoutes \cup InternalRoutes /\ BeginOther(c)

PathMove(c) ==
  (Arrive(c) \/ ArriveFromService(c) \/ Turned(c)) /\ UNCHANGED dataVars
BeginMove(c) == Admit(c) /\ Begin(c)

(* The answer of a handler that ends goes back to the client.              *)
Respond(c) ==
  /\ IF work'[c].pc = "idle" THEN End(c) ELSE UNCHANGED call
  /\ UNCHANGED limitVars
HandlerMove(c) == HandlerStep(c) /\ Respond(c)
FailMove(c) == HandlerFail(c) /\ Respond(c)

FrontNext ==
  \/ \E c \in Calls : PathMove(c) \/ BeginMove(c) \/ HandlerMove(c) \/ FailMove(c)
  \/ (Tick \/ Restart) /\ UNCHANGED dataVars

FrontSpec == FrontInit /\ [][FrontNext]_frontVars

-----------------------------------------------------------------------------
(* The gateway and two guards together: whatever the configuration, an     *)
(* internal handler works for a service with the key only, never for a     *)
(* client, whether a token or a path that begins like a public one opened  *)
(* the gateway; and a user's or partner's handler for the identity of its  *)
(* token, of that group.                                                   *)
WorksForItsCaller ==
  \A c \in Calls : call[c].pc = "handling" =>
    /\ call[c].route \in InternalRoutes => call[c].token = None /\ call[c].key = "right"
    /\ call[c].route \in UserRoutes \cup PartnerRoutes =>
         call[c].user = call[c].token /\ HasRole(call[c].user, call[c].route)

(* The rate limit as a client meets it: windows are fixed, so that the end *)
(* of one and the start of the next let through up to twice the maximum    *)
(* less one (the booking that opened the first) within WINDOW_MS, and each *)
(* restart within that time, which loses the store, one maximum more.      *)
WithinLimit ==
  \A u \in Buyers : recent[u][Window - 1] < (2 + restarts[Window - 1]) * MaxRequests

(* Creating a category looks for its code first and inserts it later, and  *)
(* an update may take the code meanwhile; requests that all found nothing  *)
(* still leave one row.                                                    *)
OneRowPerCode == \A t \in Tables, k \in Codes : Row(t, k).rows <= 1

(* An event category that was removed stays hidden, under the code that an *)
(* update may have given it, until an update switches it on: creating its  *)
(* code anew or in bulk does not bring it back.                            *)
OnlyUpdatesShow ==
  \A k \in Codes :
    Hidden(k) /\ ~Hidden(k)' =>
      \E c \in Calls :
        /\ Write(c) /\ work[c].table = "event" /\ work[c].codes = {k}
        /\ work[c].active = "on" \/ \E to \in Codes : to = work[c].to /\ Hidden(to)'
HiddenUntilUpdated == [][OnlyUpdatesShow]_frontVars

(* A partner's profile and venues change by requests with that partner's   *)
(* token alone, from the gateway over the guards and the handler's awaits  *)
(* to the write that ends the request.                                     *)
WriteTheirOwn ==
  \A i \in People :
    profiles'["partner"][i] # profiles["partner"][i] \/ i \in venues' \ venues =>
      /\ i \in Partners
      /\ \E c \in Calls :
           call[c].pc = "handling" /\ call[c].token = i /\ call'[c].pc = "idle"
PartnersWriteTheirOwn == [][WriteTheirOwn]_frontVars
=============================================================================
