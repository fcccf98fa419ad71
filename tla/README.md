# Formal model of the Tikitu microservices

TLA+ specifications of the two processes that cross the services of Tikitu, the
purchase of a ticket (booking, payment, notification) and the publication of an
event (partner, booking, event search), and of the way in: gateway, guards, rate
limit and the handlers of users, partners, venues and categories. TLC checks
them on small instances; TLAPS proofs cover instances of any size of each
service with state and of the composed purchase.
File names below are relative to `src/services/` unless they start with
`docs/`.

## 1. The system

| Component | State it keeps | Operations | Talks to |
|---|---|---|---|
| Booking: bookings | `Booking`, `Ticket`, `BookingOutbox` rows | `createBooking`, `confirmBooking`, `cancelPendingBooking` | payment, notification (HTTP) |
| Booking: inventory | `EventInventory`, `TicketTypeInventory` rows, Redis counters and caches | `publishFromCatalog`, `decrementSeats`, `decrementTicketTypeSeats`, `incrementTicketTypeSeats`, `discoverEvents`, `getEventById` | Redis |
| Booking: rate limit guard | a window per user, in process memory | `canActivate` | - |
| Payment | `Payment`, `PaymentLog`, `PaymentOutbox` rows | `createPayment`, `capturePayment` | booking (HTTP) |
| Notification | `Notification` rows | `sendBookingConfirmation` | - |
| Partner: events | `Event`, ticket type rows | `createDraftEvent`, `publishEvent`, lists | booking (HTTP), Kafka |
| Partner: profiles, venues, categories | one table each | upsert by identity; create, create in bulk, update, soft delete | - |
| Event search | OpenSearch index, Redis sets and query cache | `ingestEvent`, `search`, `autocomplete` | Kafka (consumer) |
| Gateway (auth-route) | none | `handleProxy` | every service |
| Common guards | none | token, role and internal key checks | Cognito |
| User | `User` rows | `register`, `getProfile` | - |
| Admin, health | none | - | - |

How the parts interact. A client's `POST /bookings` takes seats, inserts a
PENDING booking, creates a payment over HTTP and links the two. The client then
captures the payment; the payment service commits the capture and calls the
booking service, which confirms the booking, inserts the tickets and calls the
notification service. Publishing goes partner -> booking (inventory) and
partner -> Kafka -> event search. There is no shared database and no
distributed transaction. Every client request passes the gateway, which looks
at its token unless the path is on a public list of its own, and then the
guards of the service, which look at the token again and go by decorators;
services call each other past the gateway, with a shared key. The HTTP clients
set no timeout and never retry; none of the two outbox tables has a reader.

What is hard. Every handler is a chain of awaits over several databases, and
any number of handlers interleave at those awaits. A process may die between
two of them, a connection may break after the callee got the request, clients
repeat requests under one idempotency key, and capture twice. Seats are guarded
by optimistic locking: a version read in one statement, compared in another.
Categories are looked up and then inserted, profiles upserted under two unique
columns, and access is the agreement of three lists kept in different places.

What makes each component correct:

- inventory: the counter accounts for every seat taken; no event is oversold;
  one winner per version; a refusal is justified.
- bookings: one booking per idempotency key; one ticket per seat; a request
  always ends.
- payment: one payment per booking and per key; a capture is confirmed once.
- across services: a link points to the booking's own payment; no tickets
  without a capture; a capture leads to tickets; tickets lead to a notice.
- the way in: a handler only works for whom its route is for; no window of the
  clock lets more bookings through than two fixed windows, and the restarts in
  it, can share; a partner's rows change by that partner's requests.
- reference data: one row per code; an event category that was removed stays
  hidden until an update switches it on, also under another code.
- publish and search: what can be found is on sale, an event is announced once,
  what is published gets indexed unless a fault hits it, and what a stale cached
  answer misses, it misses for a known reason.

`PROJECT.json` lists every component with its status and every hazard at its
line with the properties about it.

## 2. Modules

| Module | Models | EXTENDS / INSTANCE |
|---|---|---|
| `HttpCall` | one HTTP call as its caller sees it | - |
| `ServiceCalls` | the calls in flight of the purchase, broken connections, shared identities | `HttpCall` |
| `BookingService` | `booking/src/bookings`, the seat part of `booking/src/inventory` | `ServiceCalls`, instance of `SeatLedger` |
| `SeatLedger` | what the booking service promises about seats (abstract) | - |
| `TicketSale` | what the three purchase services promise about an order (abstract) | - |
| `EventLife` | what the three publishing services promise about an event (abstract) | - |
| `PaymentService` | `payment/src/payments` | `ServiceCalls` |
| `NotificationService` | `notification/src/notifications` | `ServiceCalls` |
| `TicketSaga` | the purchase end to end: three services and their clients | the three services, instance of `TicketSale` |
| `EventTopic` | the Kafka topic `event.published` | - |
| `CatalogPublish` | `partner/src/events`, `partner/src/partner/booking-client`, `publishFromCatalog` of the booking service | `EventTopic`, `HttpCall` |
| `EventSearch` | `event-search/src/search` | `EventTopic` |
| `PublishPipeline` | from draft to search result: both of them | `CatalogPublish`, `EventSearch`, instance of `EventLife` |
| `DiscoveryCache` | the cached public reads of `booking/src/inventory` and the writers that invalidate them | - |
| `RequestPath` | `auth-route/src/gateway`, the guards of `common`, the rate limit guard of the booking service | - |
| `ReferenceData` | categories, profiles and venues of the partner service, `register` of the user service | `RequestPath` |
| `FrontDoor` | requests from the gateway to a handler and back: both of them | `ReferenceData` |
| `BookingServiceProofs`, `BookingLedgerProofs` | theorems about `BookingSpec`; the second: refinement, refusals, retries | `BookingService`; the first |
| `PaymentServiceProofs` | theorems about `PaymentSpec` | `PaymentService` |
| `TicketSagaProofs` | theorems about the composed `Spec` | `TicketSaga`, the proofs of both services |
| `TicketSaleProofs` | its refinement of `TicketSale`; the services' theorems in the composition | `TicketSagaProofs`, `BookingLedgerProofs` |
| `PublishPipelineProofs`, `DiscoveryCacheProofs`, `FrontDoorProofs` | theorems about `PipelineSpec`, `DiscoverySpec`, `FrontSpec` | the module they are about |
| `MCBookingService`, `MCPaymentService`, `MCTicketSaga`, `MCPublishPipeline`, `MCDiscoveryCache`, `MCFrontDoor` | symmetry sets for TLC | the module checked |

### State and steps

A handler (one invocation of a service method) is a record whose `pc` says
which await it is at and whose other fields are its local variables:
`reserve[r]` for `createBooking`, `confirm[c]` for `confirmBooking`,
`cancel[x]` for `cancelPendingBooking`, `charge[r]` for `createPayment`,
`capture[c]` for `capturePayment`, `notify[c]` for `sendBookingConfirmation`,
`publish[p]` for `publishEvent`, `stock[p]` for `publishFromCatalog`,
`ingest[p]` for `ingestEvent`, `search[s]` for `search`. For the way in,
`call[c]` is a request with what is known of it, and `work[c]` the handler it
has reached.
One action is the code from one await to the next: Node.js runs it without
interruption, and each database statement or `$transaction` is atomic.

| Code | Actions |
|---|---|
| `createBooking` 23-121 | `Submit`, `LookupKey`, `ReadInventory`, `DecrementSeats`, `CreateBooking`, `PaymentAnswered`, `LinkPayment`, `ReserveFail` |
| `confirmBooking` 123-189 | `ConfirmRead`, `IssueTickets`, `ConfirmDone`, `ConfirmFail` |
| `cancelPendingBooking` 191-217 | `CancelRead`, `CancelRelease`, `CancelMark`, `CancelFail` |
| `publishFromCatalog` 15-75 | `PublishInventory` (the seat counters) |
| `createPayment` 18-65 | `ChargeLookup`, `ChargeCheck`, `ChargeInsert`, `ChargeOutbox`, `ChargeFail` |
| `capturePayment` 67-115 | `CaptureRead`, `CaptureCommit`, `CaptureDone`, `CaptureFail` |
| `sendBookingConfirmation` 11-43 | `InsertNotice`, `MarkSent`, `NoticeFail` |
| `createDraftEvent` 39-66 | `CreateDraft` |
| `publishEvent` 81-200 | `PublishRead`, `PublishAnswered`, `PublishMark`, `PublishEmit`, `PublishFail` |
| `publishFromCatalog` 15-75, in full | `StockLookup`, `StockInsert`, `StockCounters`, `StockFail` |
| `ingestEvent` 138-207 and its controller | `IngestIndex`, `IngestCategory`, `IngestSuggest`, `IngestKeys`, `IngestDelete`, `IngestError`, `IngestRedelivered` |
| `discoverEvents` 77-129, `getEventById` 131-156 | `ReadLookup`, `ReadQuery`, `ReadFill`, `ReadError`, `ViewExpires` |
| `invalidateDiscoveryCache` 248-250 and its callers | `PublishRow`, `PublishInvalidate`, `PublishError`, `TakeSeats`, `TakeReread`, `TakeInvalidate`, `TakeError` |
| `search` 210-323 | `SearchLookup`, `SearchQuery`, `SearchFill`, `SearchFail`, `Expire` |
| `handleProxy` 39-111 | `Arrive`, `Refused` |
| authentication, roles and internal key guards | `AdmitPublic`, `AdmitPartner`, `AdmitBooking`, `AdmitInternal`, `Refused` |
| `canActivate` of the rate limit guard | `Counted` in `AdmitBooking` and `LimitBooking`; `Tick`, `Restart` |
| `create`, `createBulk`, `update`, `remove` of both category services | `BeginCategories`, `Find`, `Insert`, `UpsertItem`, `CreateMany`, `Locate`, `Write` |
| `savePartner`, `register` | `BeginSavePartner`, `BeginRegister`, `SaveProfile` |
| `createEventVenue` | `BeginVenue`, `FindOwner`, `PlaceVenue` |
| axios calls and their catch blocks | `payCall`, `confirmCall`, `noticeCall`, `Answer`, `Drop` |

Rows are identified by the request that inserts them (a request inserts at most
one booking and one payment), so `bookings[r]` is the booking of request `r` and
`status = "none"` means there is no row. Tickets and outbox rows are counted.
A call is `idle`, `sent`, answered (`ok`, `error`) or `lost`: the caller of a
lost call has given up, and the callee may or may not still run it
(`Deliverable`), but its answer reaches nobody (`Answer`).
`ReserveFail`, `ConfirmFail`, ... stand for a crash of the process or an await
that rejects, at every await; they and `Drop` are enabled only if `Faults`.

The unique indexes of the Prisma schemas are part of the model (`KeyFree`,
`RowFree`, the `linked` test of `LinkPayment`): an insert that violates one
throws, and the handler fails with everything it did before in place.

Nothing validates the body of a request. Of `createBooking`'s, the model keeps
whether the payment method exists (`methodOk`) and whether Prisma takes the
`userId` (`userOk`): an insert it does not take fails, with the seats taken,
without any fault (`Insertable`). Outside the model is a body without
`eventInventoryId`: Prisma drops a filter that is undefined, so that the look-up
and the UPDATE meet events nobody named before the handler throws.

Abstracted away: prices, the text of messages, references and ticket codes
(drawn at random, and taken to be distinct), and the ticket-type branch of
`createBooking` and `cancelPendingBooking`, which the controller cannot reach
because it passes no `ticketTypeInventoryId` (`bookings.controller.ts` 28-35).
The rate limit guard runs before the handler and only removes requests; it is
in `RequestPath`. `ticketSalesClose` is stored but `createBooking` never looks
at it, so neither does the model.

The publish pipeline follows the same conventions. An `EventInventory` row and a
Kafka message are named by the publish call they come from. A draft is reduced
to whether `publishEvent` lets it through (`publishable`: tickets, a venue or an
address, times that parse) and whether its document gets coordinates
(`located`), without which the `geo_distance` filter never finds it. All events
and queries are of one city and neighbourhood, with each query a cache key;
cities, geohashes, dates and pages only make more keys. (Where they would
matter: the inventory takes the venue's city first, the Kafka message the
event's own, `events.service.ts` 111 and 174. The model has one city and does
not show this.) The consumer may handle messages concurrently, more than one
Kafka partition would allow. `client.index` overwrites, `SADD` and `ZADD` add to
sets, so that a redelivered message changes nothing that is there already; that
it may come in between other steps is in the model. `autocomplete`, the lists
and the health endpoints only read. `TicketSaga` and `PublishPipeline` meet in
the inventory row; the purchase needs of publishing only that a row appears
once, with its seats (`PublishInventory`), and nothing a purchase does is read
by the pipeline, so they are checked apart.

`DiscoveryCache` follows one event through the cached reads. A cached list or
event is reduced to what it says of that event's `availableSeats`, or that it is
not there; the OpenSearch stub always returns null and is left out. `CityList`
is the one key the writers delete; `Lists` has it and the lists with a
category, a date or the city in other letters (the query ignores case, the key
does not), `Details` the event by either id. `raced` in a cached value is a
history variable: the row had changed between the query and the `SET`.

A cached search result has a history variable too: `late` says that the search
that stored it had missed an indexed event whose ingestion had already listed
the keys to delete (`Late`).

`RequestPath` keeps one route per kind of access. The gateway's check and the
service's guards are two steps, between which a token may stop verifying
(`Refused`); guards, and the handler up to its first await, are one. The token
check itself is external: a token names an identity or is refused. The public
list is matched as a prefix of the path as it came, so that a path outside it
may pass without a token, which `Arrive` allows for any route. `recent` is a
history variable, `recent[u][n]` the bookings of `u` let through in this tick
and the `n` before; `restarts` is another, the restarts of the booking service
in the same times. `Tick` moves the clock; `Restart` empties the limiter's
store and nothing else, at most `MaxRestarts` times in a window. In
`ReferenceData` a category row is counted, so that two under one code would
show, and a profile is its email. An update stores the columns its body names:
`isActive` may be on, off or not there, and the code may be a new one
(`Moved`), refused if it is taken. Only the list of event categories leaves out
what was removed (`Hidden`); that of ticket categories shows every row. A
Prisma `upsert` whose `where` is one unique column and whose `create` and
`update` are plain is one `INSERT ... ON CONFLICT`, hence one step; the other
unique column (the email) may still refuse it. Handlers of routes modelled in
other modules are `BeginOther` and `OtherDone`.

Three things the modules take from the code that its texts do not say.
`register` is public, so that no guard sets `req.user` and the "auth token"
its message offers instead of `cognitoId` (`users.service.ts` 24) is never
there: `BeginRegister` takes any identity from the body. The gateway's public
list lacks the ticket categories, which their service opens: through the gateway
they need a token. And a partner who saves no email gets
one default address, which is unique: only one such partner ever gets a row.

`BookingSpec` and `PaymentSpec` are open: `BookingEnv` and `PaymentEnv` let the
other services answer and call in every way the wire allows. What holds of them
holds whatever the other services do, and `saga_serial` checks that the
composition is a special case (`RunsBookingService`, `RunsPaymentService`).

Three abstract specifications have no handlers, calls or failures. `SeatLedger`
is the booking service's; it needs `Cancels = {}`. `TicketSale` is a purchase:
orders are placed under keys of their own and do not change, each is charged
once, a payment is captured only after a client could be told of it, there are
never more batches of tickets than captures, and the buyer hears only of tickets
issued. Nothing in it is undone: charges, captures, tickets and notices only
grow. Its `Once` (a payment is captured once) is `~Overlap`. The mapping looks
a payment up by its booking, a notice by the confirm call that asked for it.
`EventLife` leads an event from draft over inventory, publication, announcement
and index to its suggestion; only a complete draft goes on sale, and nothing is
taken back. The abstract modules translate no code and are not in the map.

Definitions whose comment says `mutant:` are never used by a specification.
They are plausible bugs, and each checked property is known to fail when one of
them takes the place of the definition that follows it.

## 3. Runs

| Run | Instance | Question and answer |
|---|---|---|
| `booking_cancel` | 2 requests, 2 cancellations, 3 seats, up to 2 tickets each, failures | Do the counters account for every seat, and stay >= 0, even when cancellations overlap? Yes. |
| `booking_ledger` | 2 requests, 1 confirm call of any content, 2 or 3 seats, up to 2 tickets each, 2 keys, failures | Is anything oversold, double-booked under a key, or granted to two holders of one version? No; and the service implements `SeatLedger`. Is anyone refused seats that are there for nothing? No: only one who lost them to a winner of the same version (`RefusalHasWinner`). |
| `payment` | 3 calls with any booking and key, failures | Can a booking be charged twice, or a key name two payments? No. Which payments have no `PAYMENT_CREATED` row? Those whose handler is between the two inserts, or died there; no retry repairs them (`OutboxTellsOfPayments`). |
| `saga_serial` | 2 requests, 1 seat, 2 captures one after the other, failures, fairness | Do the services agree on links, captures and tickets when anything may fail? Yes: a captured payment is linked, no ticket is without money, one ticket per seat. Every handler ends, the composition refines its parts, and the three services implement `TicketSale`. (With overlapping captures they do too, with `Once` false: by the theorem `SagaImplementsSale`.) |
| `saga_no_faults` | 2 requests for up to 2 of 2 seats, 1 or 2 keys, 2 captures that may overlap, no failures, fairness | Are links sound, and tickets covered by captures even when two overlap? Yes, though by captures and not by seats. Does a retry of a request that has its booking take seats again? No, whatever has become of the booking. Does every capture reach its booking and every confirmed booking its notice? Yes. What leaves a booking pending for good? Only a payment method that does not exist. |
| `saga_lost_confirm` (violation) | 1 request, 2 captures, failures, fair clients that retry | Does the capture reach the booking "by outbox"? No: one lost call and it never does. |
| `pipeline` | 1 event, 2 publish calls, 1 query, 2 searches, failures, fairness | Does anything get found that is not on sale, announced twice, or suggested before it is indexed? No; and the three services implement `EventLife`. Why may a published event not be indexed, or an indexed one be missing from a cached result? For the reasons `UnindexedIsExplained` and `StaleResultIsExplained` name, and no other. Does publishing a complete draft end with the event published and indexed? Yes, whichever call is refused, unless the call with the row fails or its message is lost (`PublishedIsSearchable`). |
| `pipeline_stale` (violation) | 1 event, 1 publish call, 2 searches, no failures | Does the invalidation leave only fresh results? No: a search that read before the ingestion fills the cache after it. |
| `pipeline_stuck` (violation) | 1 event, 2 publish calls, failures, a partner who tries again | Can a publication that failed half-way be completed? No: the retry is refused with 409 before it reaches the status update, and the event is on sale and a draft for good. |
| `discovery` | 1 event of 2 seats, 2 takers of 1 or 2 seats, 2 readers of 2 lists and the event, failures, Redis on or off | When does the city's list in the cache differ from the table? Only while a writer has not invalidated, or if it failed to, or if a reader raced one; what is never deleted waits for its TTL. |
| `front_door` | 2 requests at a time, any number in sequence, a buyer and a partner, 2 emails, 2 bookings per window of 2 ticks, failures, 1 restart per window | Does a handler ever work for someone it should not, a partner's profile or venue change by another's request, or a window of the clock let through twice the limit, one limit more per restart in it? No. |
| `categories` | 2 requests at a time, any number in sequence, 2 codes per table that updates may swap, failures | Does a code get two rows, or a removed event category come back by being created? No. |

What the passing runs say beyond "no bug": some properties hold only under a
named condition or with a weaker bound, and that is the finding.

- `OneTicketPerSeat` needs captures of a payment that do not overlap
  (`Overlap = FALSE`). Two overlapping captures both pass the status check of
  `capturePayment` and of `confirmBooking`, and tickets are issued twice; with
  overlap, what holds is `TicketsBackedByCaptures`.
- `NoOversell` needs `Cancels = {}`. Cancelling releases before it marks, can
  release twice, and can release seats a concurrent confirm has sold. No code
  calls `cancelPendingBooking` today.
- `WithinLimit` is less than twice the maximum, and that is tight: the window
  is fixed, so that all but the booking that opened it may come at its end, and
  a full window follow. Each restart within the same time empties the store and
  lets one maximum more through.
- `RetriesTakeNoSeats` is about retries that come after the first insert. Two
  overlapping requests of one key may both take seats, and the loser's are gone.
- Seats are lost without any failure in at least three ways, all of them in the
  model: by the loser of a race for a key, by a `userId` that Prisma rejects,
  and by a booking whose payment method does not exist, which stays PENDING. No
  property says that they come back; `SeatConservation` accounts for them.
- `CityStaleIsExplained` and `StaleResultIsExplained` name the causes of stale
  results and do not exclude them. Filtered lists and cached events are never
  deleted at all; what they show ends with the TTL only.

### Bounds

Two requests are enough for every race in the code: each unique index and the
version are contended by pairs, and a request interacts with others only
through rows. Two captures give an overlapping pair (`saga_no_faults`) and a
retry after a failure (`saga_serial`); that links and tickets are right with
both at once is left to the theorems. Two cancellations give a double release.
Keys: two, so that requests may share a key or not. Seats: 1 to 3 with up to
two tickets per request, so that both requests fit, one fits, or none does;
quantity 0 exercises the bad request. Three calls in `payment` let a third find
what two racing ones left. No counter needs an extra bound: versions, tickets
and logs are bounded by the number of handlers. In the pipeline, two publish
calls race for a draft or repeat each other, and two searches are the one that
hits and the one that fills; a second event meets the first only in cached
results, where one event missing from a result is already the whole question.
Redelivery is unbounded and needs no bound: it returns the handler to its
start. In `discovery` one reader fills a key while the other hits or fills it,
one writer invalidates while the other has just taken seats; the third view
stands for all that are never invalidated. In `front_door` a request's name is
used again when it is over, so that two names give every pair of concurrent
requests after any history, and `MaxRestarts` bounds the restarts in any
window; categories read and write nothing the other routes do, hence a run of
their own, with a second code for an update to take or leave; of the two emails
one is the partner service's default; two ticks are the least window whose end
and next start differ. `count` stops at `MaxRequests + 1`: all higher counts
are refused alike. Requests, captures, keys and calls are symmetric, and
symmetry is used in the runs without temporal properties and, for safety
properties that treat the names alike (`ImplementsLedger`, `RefusalHasWinner`,
the action properties of `front_door` and `categories`), with them. Deadlock is
not checked: the system stops when all handlers have ended.

### Fairness

`Fairness` is weak fairness of the steps of a handler that has started and of
the delivery of a call that is `sent`: the event loop runs what is ready, and a
service that is up takes requests. It does not cover failures, clients, lost
calls or publishing. Only `RetrySpec` adds clients that keep capturing, to show
that not even those help in `saga_lost_confirm`. `saga_no_faults` needs
`CaptureReachesBooking` without failures, since a capture whose confirm call is
lost is the finding.

`PipelineFairness` says the same of the pipeline: handlers that have started
run on, a call that is `sent` arrives, a message in the topic is consumed. Of
the ends that failures may bring instead, `PublishedIsSearchable` names each;
it promises no suggestion, since a consumer may crash after the index for ever.
`RepublishSpec` adds the partner who publishes again as long as the event is a
draft. `DiscoverySpec` and `FrontSpec`, like the open `BookingSpec` and
`PaymentSpec`, have no fairness: all that is asked of them is safety. That
Redis expires what has a TTL is a step (`Expire`, `ViewExpires`) that nothing
relies on.

## 4. Proofs

`BookingServiceProofs` proves, for any requests (a finite set), keys, events,
seat counts, confirm calls and finitely many cancellations, with or without
failures and for every behaviour of the services around it:

| Theorem | Property |
|---|---|
| `BookingTypeCorrect` | `BookingTypeOK`, in particular `availableSeats >= 0` |
| `KeyIdempotent` | `KeyNamesOneBooking` |
| `SeatsConserved` | `SeatConservation` |
| `NeverOversold` (if `Cancels = {}`) | `NoOversell` |
| `OptimisticLock` | `OneWinnerPerVersion` |

Assumptions: `None` is neither a request nor an event; `Requests` and `Cancels`
are finite; `SeatCounts` are naturals; `MaxQty` is a natural.

The argument. `BookingTypeOK` is not inductive: that `availableSeats - q` is
natural is in the UPDATE's condition, but that the row is an existing one, that
`q >= 1` and that a confirmed or cancelled id names a row needs what the pc of a
handler says of its past. `IInv` adds: `ReserveInv` (a handler that took seats
did so from a published event, at a version below the present one; one at
`create` has no row yet; an answered one names a row with its key),
`BookingInv` (a row copies its handler's event, quantity and key, its handler
took the seats, and no other row has its key), `ConfirmInv` and `CancelInv` (a
handler past its read points to an existing row). There is one lemma per action;
`Invariance` combines them. `KeyIdempotent` follows from `IInv` alone.

For the counting theorems, `StepKinds` sorts every step into four kinds: it
keeps seats and counters, publishes an event, takes seats for one request, or
releases the seats of one booking. `TakesSeats` and `ReleasesSeats` say that
the last two add one block `{r} \X 1..q` to the taken or released seats of one
event, and `BlockCard` that the cardinality grows by `q`. `NeverOversold` then
holds because booked seats are a subset of taken ones and nothing is released.

`PublishPipelineProofs` proves, for any events, publish calls, queries and
searches, with or without failures:

| Theorem | Property |
|---|---|
| `PipelineTypeCorrect` | `PipelineTypeOK` (not a property of a run) |
| `PublishedAlwaysOnSale` | `PublishedIsOnSale` |
| `AnnouncedAtMostOnce` | `AnnouncedOnce` |
| `IndexedAlwaysOnSale` | `IndexedIsOnSale` |
| `SuggestedAlwaysIndexed` | `SuggestedIsIndexed` |
| `UnindexedHasCause` | `UnindexedIsExplained` |
| `StaleResultHasCause` | `StaleResultIsExplained` |
| `PipelineImplementsLife` | `ImplementsLife` |

The only assumption is that `None` is no event. None of the properties is
inductive: that `PublishMark` may set the status needs to know that a granted
call left a row, which is in another service. `CallInv` says what the places of
the two handlers of a call, its answer and its message say of each other, and
`OneRowPerEvent` what the unique index keeps. On the search side `IngestInv`
says that a handler past a write has written. There is one lemma per action of
publishing; the search actions are grouped by what they write.

`UnindexedHasCause` follows from the same invariant: a published event has the
row of one call, which is past the update of the status (`PublishedHasRow`).
`StaleResultHasCause` needs one beside it, `CacheInv`: an ingestion that is
about to delete (`DeleteInv`) has every key whose result misses its event, but
for those stored late; and what is indexed is in some message, so that a fill
that is not late has an unfinished ingestion for all it misses.

The refinement of `EventLife` adds one invariant, `SentIsComplete`: a call that
reached the booking service is for a complete draft, which it stays
(`EventsStay`), so that the row inserted two services later is for an event that
passed the checks. `OneRowPerEvent` lets an event go on sale once, `CallInv`
gives the order of status and message, `IngestInv` that of the search's writes.
Rows are found through their calls, so `RowsStay` shows that no other step of a
call changes what is on sale. Redelivered and repeated steps are stutters.

`DiscoveryCacheProofs` proves `DiscoveryTypeCorrect` and `CityStaleHasCause`
(`CityStaleIsExplained`), for any views, readers and writers. There the property
is inductive given the types: a writer explains from its update to its
invalidation, which empties the key.

`BookingLedgerProofs` adds to the booking service:

| Theorem | Property |
|---|---|
| `ServiceImplementsLedger` (if `Cancels = {}`) | `ImplementsLedger` |
| `RefusalsHaveWinners` | `RefusalHasWinner` |
| `RetriesKeepSeats` | `RetriesTakeNoSeats` |

The refinement goes by `StepKinds` again: taking seats is the ledger's
`Reserve`, confirming its `Issue`, and the ledger's guard (granted seats and the
new ones fit) comes from conservation. A refusal's winner needs `VersionsWon`:
every version below the present one was read by a request that took seats.
`RetriesKeepSeats` uses that a key that has a booking keeps one, and that the
only way to take seats leads past a look-up that found none.

`PaymentServiceProofs`, for any calls, bookings, keys and captures, and whatever
the booking service does: `PaymentTypeCorrect` (`PaymentTypeOK`),
`NeverChargedTwice` (`OnePaymentPerBooking`), `PaymentIdempotent`
(`OnePaymentPerKey`), `OutboxFollowsPayments` (`OutboxTellsOfPayments`). `PInv`
says that a row is its call's (same booking, same key), that the unique indexes
hold, and that an answer names a payment under the key of the call.

`TicketSagaProofs`, for the composition:

| Theorem | Property |
|---|---|
| `SagaTypeCorrect` | `SagaTypeOK` (not a property of a run) |
| `SagaRunsBookingService`, `SagaRunsPaymentService` | `RunsBookingService`, `RunsPaymentService` |
| `LinksAreSound`, `CapturesAreLinked` | `LinkSound`, `CapturedIsLinked` |
| `NoTicketWithoutMoney` | `TicketsBackedByCaptures` |
| `OneTicketForEachSeat` (if `~Overlap`) | `OneTicketPerSeat` |
| `OnlyBadMethodsStrand` | `StrandedOnlyByBadMethod` |

The argument is compositional. Every step of the saga is, for each service, one
of its own steps or a step its open specification allows to its environment; so
the saga runs both open specifications, and their inductive invariants `IInv`
and `PInv`, and all their theorems, hold in it. `SInv` adds only what the two
services' states say of each other (`Linked`): payment row `r` is made for
booking row `r`, a link or an answer names it, a confirm call in flight means a
completed payment. Tickets are then counted by confirm calls and captures by
log rows, and each confirm call comes from one capture. `SerialInv` (without
overlap one capture per payment is between its read and its end) and
`NoFaultInv` are invariants beside it for the two conditional theorems. Besides
the assumptions above, the sets of captures and requests are finite.

`TicketSaleProofs`:

| Theorem | Property |
|---|---|
| `SagaImplementsSale` | `ImplementsSale` |
| `SagaKeepsBookings` | `SeatConservation`, `KeyNamesOneBooking`, `OneWinnerPerVersion`, `RetriesTakeNoSeats` in the composition |
| `SagaKeepsPayments` | `OnePaymentPerBooking`, `OnePaymentPerKey`, `OutboxTellsOfPayments` in the composition |
| `SagaSellsSeatsOnce` (if `Cancels = {}`) | `ImplementsLedger` and `NoOversell` in the composition |

`SagaImplementsSale` has no condition: with `Overlap` the abstract sale may
capture a payment again, without it the sale may not, and `SerialInv'` gives the
guard of its `Capture`. `SaleSeen` first says what the mapping is in a reachable
state: charged are the orders with a payment row of their own id, offered those
linked to it, and the captures are the log. Then there is a lemma for each step
of the sale and the action that takes it: `CreateBooking` places, `ChargeInsert`
charges, `LinkPayment` offers, `CaptureCommit` captures, `IssueTickets` issues,
`MarkSent` notifies; all other actions are stutters (`BookingStutters`,
`ConfirmStutters`, `PaymentStutters`). Two guards are not local to their action.
`Issue` asks for a capture no batch was issued for yet: the action looks at no
capture, but after it the batches are still calls that stand for logged
captures (`BatchesCovered` in the next state). `Notify` asks for tickets: the
notification service looks at no booking, but `NoticeInv`, a third invariant
beside `SInv`, says that a notice stands for a call, which stands for a batch,
and a batch has at least one ticket. The other three theorems follow from
`SagaRunsBookingService` and `SagaRunsPaymentService` with the theorems of the
services.

`FrontDoorProofs`, for any number of concurrent requests, identities, codes and
emails and any limit and window:

| Theorem | Property |
|---|---|
| `FrontTypeCorrect` | `FrontTypeOK` |
| `CallersAreRight` | `WorksForItsCaller` |
| `RateIsLimited` | `WithinLimit` |
| `OneRowForEachCode` | `OneRowPerCode` |
| `RemovedStaysHidden` | `HiddenUntilUpdated` |
| `WritesAreTheirOwn` | `PartnersWriteTheirOwn` |

`FInv` adds what the places of a request and its handler say: a request with the
right key came without a token, a handler that writes a category has one code
and one to write it under, and a handler of a partner works for the identity of
the token its request came with, at every await (`Knows`).
Assumed are: buyers and partners are among the people, `None` is no person and
no email, and the default address is an email.

`WithinLimit` looks back a window's worth of ticks from any moment, which is
seldom a window of the guard, and is far from inductive. `LimitInv` bounds what
every shorter time before now has seen. If no window is open, that is less than
the maximum. If one is, then the bookings since it began are those the guard
counts, and a time that reaches further back saw less than a maximum on top; a
time that does not reach the opening booking misses that one. For each restart
within the time add one maximum (`Lost`), the most the guard forgot. `Tick`
shifts the times and may close the window, a count moves them all, a restart
closes all windows.

Only model-checked: liveness, which is beyond the prover (`RequestsEnd`,
`CapturesEnd`, `CaptureReachesBooking`, `BuyerIsNotified`,
`PublishedIsSearchable`). Every safety property of a passing run, every
action property and every refinement is a theorem. The type invariants of the
two compositions are only proved: they are what their parts' invariants say.

## 5. Order and state of the work

The order put the purchase first; all of it is done.

1. `ServiceCalls`, `BookingService`, `SeatLedger`: seats, bookings, tickets.
2. `PaymentService`, `NotificationService`.
3. `TicketSaga`: cross-service invariants, fairness, liveness.
4. `BookingServiceProofs`: types, idempotency, conservation, no overselling.
5. `EventTopic`, `CatalogPublish`, `EventSearch`, `PublishPipeline`.
6. `DiscoveryCache`, `PublishPipelineProofs`, `DiscoveryCacheProofs`.
7. `RequestPath`, `ReferenceData`, `FrontDoor`.
8. `PaymentServiceProofs`, `BookingLedgerProofs`, `TicketSagaProofs`,
   `FrontDoorProofs`.
9. `TicketSale`, `EventLife` and their refinement, `TicketSaleProofs`; the rate
   limit.

What would come next if the code grew: a model of the ticket-type counter once a
controller passes a `ticketTypeInventoryId`, of the outbox readers once there
are any, and of whatever job will call `cancelPendingBooking`.

## 6. Not modelled

- The ticket-type counter in Redis and its copy in the database
  (`inventory.service.ts` 187-246, the Lua script and `INCRBY` of
  `redis.service.ts`): no controller, client or job passes the id that leads
  there, so no run of the program reaches it.
- The OpenSearch stub of the booking service, its deprecated events controller,
  the admin service and the health endpoints: they keep no state.
- Reads: `autocomplete`, the lists, `getProfile`, address suggestions of AWS
  Location. They change nothing and no handler relies on them.
- Geohashes, distances, dates, pages and cities of the search: they only make
  more cache keys and filters, and the checked questions are about one.
- Tables no code writes (preferences, addresses, favourites, templates).
- Bootstrap, Prisma and Kafka wiring, seeds, scripts, docs, deployment files:
  configuration and generation, run before or outside the services.
