---------------------------- MODULE ReferenceData ----------------------------
(***************************************************************************)
(* The handlers of the partner and user services that RequestPath lets     *)
(* requests through to: event and ticket categories (find, then create;    *)
(* upserts in a loop or one createMany; updates that may rename; soft      *)
(* deletes), partner and user profiles (upserts by the Cognito identity,   *)
(* with a unique email) and venues.  An action is the code from one await  *)
(* to the next.  No body is validated before it is stored.                 *)
(***************************************************************************)
EXTENDS RequestPath

CONSTANTS
  Codes,    \* category codes
  Emails,   \* addresses, one of them the default of the partner service
  NoReply,  \* that default
  Faults    \* TRUE when handlers may die or an await reject

ASSUME DataAssumption == None \notin Emails /\ NoReply \in Emails /\ Faults \in BOOLEAN

VARIABLES
  categories,  \* per table and code: number of rows, and isActive
  profiles,    \* per service and identity: the email of its row, or None
  venues,      \* partners with an EventVenues row
  work         \* the handler of each request with its local variables

dataVars == <<categories, profiles, venues, work>>

Tables == {"event", "ticket"}
Flags == {"on", "off", "same"}  \* isActive in a body, or its absence
Services == {"partner", "user"}
NoWork == [pc |-> "idle", table |-> "event", codes |-> {}, active |-> "on",
           to |-> None, service |-> "user", id |-> None, email |-> NoReply]

DataTypeOK ==
  /\ categories \in [Tables -> [Codes -> [rows : Nat, active : BOOLEAN]]]
  /\ profiles \in [Services -> [People -> Emails \cup {None}]]
  /\ venues \subseteq People
  /\ work \in [Calls -> [pc : {"idle", "find", "insert", "bulk", "locate", "write",
                               "save", "owner", "place", "other"},
                         table : Tables, codes : SUBSET Codes, active : Flags,
                         to : Codes \cup {None}, service : Services, id : People \cup {None}, email : Emails]]

DataInit ==
  /\ categories = [t \in Tables |-> [k \in Codes |-> [rows |-> 0, active |-> FALSE]]]
  /\ profiles = [s \in Services |-> [i \in People |-> None]]
  /\ venues = {}
  /\ work = [c \in Calls |-> NoWork]

Row(t, k) == categories[t][k]
Exists(t, k) == Row(t, k).rows > 0

(* The list of event categories leaves removed ones out; that of ticket    *)
(* categories shows every row.                                             *)
Hidden(k) == Exists("event", k) /\ ~Row("event", k).active

(* The code of a handler that works on one.                                *)
Code(c) == CHOOSE k \in Codes : k \in work[c].codes
Start(c, w) == work[c].pc = "idle" /\ work' = [work EXCEPT ![c] = w]
Goto(c, pc) == work' = [work EXCEPT ![c].pc = pc]
Done(c) == work' = [work EXCEPT ![c] = NoWork]
At(c, pc) == work[c].pc = pc
KeepRows == UNCHANGED <<categories, profiles, venues>>

-----------------------------------------------------------------------------
(* The controllers hand the body to a handler.  An item to create is       *)
(* active unless it says otherwise.  An update stores whatever columns the *)
(* body names, isActive and the code among them; a removal is an update    *)
(* that only switches the category off.                                    *)
BeginCategories(c, t) ==
  /\ \/ \E codes \in SUBSET Codes \ {{}}, active \in {"on", "off"}, pc \in {"find", "bulk"} :
          /\ pc = "find" => \E k \in codes : codes = {k}
          /\ Start(c, [NoWork EXCEPT !.pc = pc, !.table = t, !.codes = codes, !.active = active])
     \/ \E k \in Codes, to \in Codes, active \in Flags :
          Start(c, [NoWork EXCEPT !.pc = "locate", !.table = t, !.codes = {k}, !.to = to,
                                  !.active = active])
  /\ KeepRows

(* Every partner without an email gets the default; the row is the one of  *)
(* the token's identity.                                                   *)
BeginSavePartnerNamed(c, user) ==  \* mutant: the body names the identity, as in register
  /\ \E id \in People, email \in Emails :
       Start(c, [NoWork EXCEPT !.pc = "save", !.service = "partner", !.id = id, !.email = email])
  /\ KeepRows
BeginSavePartner(c, user) ==
  /\ \E email \in Emails :
       Start(c, [NoWork EXCEPT !.pc = "save", !.service = "partner", !.id = user, !.email = email])
  /\ KeepRows

(* register has no user to ask: the body names the identity.               *)
BeginRegister(c) ==
  /\ \E id \in People, email \in Emails \ {NoReply} :
       Start(c, [NoWork EXCEPT !.pc = "save", !.id = id, !.email = email])
  /\ KeepRows

BeginVenue(c, user) == Start(c, [NoWork EXCEPT !.pc = "owner", !.id = user]) /\ KeepRows
BeginOther(c) == Start(c, [NoWork EXCEPT !.pc = "other"]) /\ KeepRows

-----------------------------------------------------------------------------
(* create: find first, then insert against the unique code.                *)
Find(c) ==
  /\ At(c, "find")
  /\ IF Exists(work[c].table, Code(c)) THEN Done(c) ELSE Goto(c, "insert")
  /\ KeepRows

AddRow(row, flag) == [rows |-> row.rows + 1, active |-> flag]
CodeFreeUnindexed(t, k) == TRUE  \* mutant: no unique index
CodeFree(t, k) == ~Exists(t, k)

Insert(c) ==
  /\ At(c, "insert")
  /\ categories' = IF CodeFree(work[c].table, Code(c))
       THEN [categories EXCEPT ![work[c].table][Code(c)] = AddRow(@, work[c].active = "on")]
       ELSE categories
  /\ Done(c)
  /\ UNCHANGED <<profiles, venues>>

(* createBulk: an upsert per item, which renames a row and leaves isActive *)
(* alone; the next item may never come.                                    *)
UpsertRowActive(row, flag) ==  \* mutant: the update carries the body's isActive
  IF row.rows > 0 THEN [row EXCEPT !.active = flag] ELSE AddRow(row, flag)
UpsertRow(row, flag) == IF row.rows > 0 THEN row ELSE AddRow(row, flag)

UpsertItem(c) ==
  /\ At(c, "bulk") /\ work[c].table = "event"
  /\ \E k \in work[c].codes :
       /\ categories' = [categories EXCEPT !["event"][k] = UpsertRow(@, work[c].active = "on")]
       /\ IF work[c].codes = {k} THEN Done(c)
          ELSE work' = [work EXCEPT ![c].codes = @ \ {k}]
  /\ UNCHANGED <<profiles, venues>>

(* createMany with skipDuplicates: one statement.                          *)
CreateMany(c) ==
  /\ At(c, "bulk") /\ work[c].table = "ticket"
  /\ categories' = [categories EXCEPT !["ticket"] = [k \in Codes |->
       IF k \in work[c].codes /\ ~Exists("ticket", k)
       THEN AddRow(Row("ticket", k), work[c].active = "on") ELSE Row("ticket", k)]]
  /\ Done(c)
  /\ UNCHANGED <<profiles, venues>>

(* update and remove: findOne, then an update that needs its row.          *)
Locate(c) ==
  /\ At(c, "locate")
  /\ IF Exists(work[c].table, Code(c)) THEN Goto(c, "write") ELSE Done(c)
  /\ KeepRows

(* The row at code k becomes, or stays, the row at code to.                *)
Moved(rows, k, to, flag) ==
  [[rows EXCEPT ![k] = [rows |-> @.rows - 1, active |-> FALSE]] EXCEPT ![to] = AddRow(@, flag)]

(* The row may be gone by now (P2025) and the new code taken (P2002).      *)
Write(c) ==
  LET t == work[c].table  k == Code(c)  to == work[c].to
      flag == IF work[c].active = "same" THEN Row(t, k).active ELSE work[c].active = "on" IN
    /\ At(c, "write")
    /\ categories' = IF Exists(t, k) /\ (to = k \/ CodeFree(t, to))
         THEN [categories EXCEPT ![t] = Moved(@, k, to, flag)] ELSE categories
    /\ Done(c)
    /\ UNCHANGED <<profiles, venues>>

(* The upsert by cognitoId is one statement (INSERT ... ON CONFLICT); an   *)
(* existing row keeps its email, a new one may meet the unique index on it.*)
EmailFree(s, email) == \A i \in People : profiles[s][i] # email
Saved(s, i, email) ==
  IF profiles[s][i] # None \/ ~EmailFree(s, email) THEN profiles[s][i] ELSE email
SaveProfile(c) ==
  /\ At(c, "save")
  /\ profiles' = [profiles EXCEPT ![work[c].service][work[c].id] =
       Saved(work[c].service, work[c].id, work[c].email)]
  /\ Done(c)
  /\ UNCHANGED <<categories, venues>>

(* createEventVenue: the partner's row first, then the venue.              *)
OwnerKnown(id) == profiles["partner"][id] # None
FindOwner(c) ==
  /\ At(c, "owner")
  /\ IF OwnerKnown(work[c].id) THEN Goto(c, "place") ELSE Done(c)
  /\ KeepRows
PlaceVenue(c) ==
  /\ At(c, "place")
  /\ venues' = venues \cup {work[c].id}
  /\ Done(c)
  /\ UNCHANGED <<categories, profiles>>

(* A handler modelled elsewhere, or one that only reads.                   *)
OtherDone(c) == At(c, "other") /\ Done(c) /\ KeepRows
HandlerFail(c) == Faults /\ ~At(c, "idle") /\ Done(c) /\ KeepRows

HandlerStep(c) ==
  \/ Find(c) \/ Insert(c) \/ UpsertItem(c) \/ CreateMany(c) \/ Locate(c) \/ Write(c)
  \/ SaveProfile(c) \/ FindOwner(c) \/ PlaceVenue(c) \/ OtherDone(c)
=============================================================================
