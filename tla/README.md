# Behshahr Delivery, in TLA+

Behshahr Delivery takes orders from customers and from a WooCommerce store, has
them carried by couriers, and keeps an audit trail of what happened to each.
This directory holds a formal model of the parts where that is hard: TLA+
modules translated from the source, TLC configurations that check them on small
instances, and proofs, checked by TLAPS, of what holds on instances of any size.

Contents: 1 the system; 2 the modules; 3 the runs; 4 fairness and bounds;
5 what is proved; 6 what the models found; 7 what is not modelled; 8 the plan.

## 1. The system

An API (NestJS, `src/apps/api`) over PostgreSQL (Prisma) and Redis; three web
applications (Next.js) whose servers proxy the browser's calls; a WordPress
plugin (`src/integrations/wordpress`) in the store. Nothing in the API keeps
business state in memory except the channels of the realtime signals, so
components interact through rows, keys and HTTP calls. Handlers run
concurrently and interleave at every `await`; no transaction sets an isolation
level, hence all run at READ COMMITTED.

| Component | State it keeps | Operations | Interacts with |
|---|---|---|---|
| Dispatch core: `couriers.service`, `courier-capacity`, `admin.service`, `admin-courier.service` | `couriers` (status, vehicle), `users.status`, `orders` (status, courier) | go on/off line, accept, reject, pick up, deliver; assign, reassign; suspend, activate, change vehicle | every path that moves an order shares `reserveCourierSlot` and `releaseCourierIfIdle` |
| Order lifecycle and audit | `orders.status`, `order_events` | REQUESTED, ASSIGNED, PICKED_UP, DELIVERED, CANCELLED | written by dispatch, customer, operator and store |
| Payments: `admin-payment.service`, `orders.service` | `payments`, `payment_events` | created with the order, confirmed by the operator, cancelled with the order | `cancel` and `markPaid` race for a row |
| Quotes: `quotes.service` | `quotes:<id>` in Redis, ten minutes to live | create, consume (`GETDEL`), restore (`SET NX`) | order intake; pricing rule, service area, routing |
| Order intake: `orders.service` | `orders`, `external_order_links` | `create`, `createFromIntegration` | consumes quotes; unique index over the external key |
| WooCommerce integration of the API | the same rows | import, look up, assign a courier, sync the store's status | order intake, dispatch |
| WordPress connector | scheduled jobs, meta data of the store's orders | background and manual sending, courier box, status pushes | the API over HTTP, twelve seconds at most |
| Realtime and tracking | subscribers per order, in memory | `subscribe`, `publish`, `stream`; the customer's order page | published after commits |
| Sign-in: `auth.service`, the login pages | code, attempts, cool-down and hourly count of a number, each a key in Redis | request and verify a code | the SMS provider; issues sessions |
| Sessions: `auth.service`, `jwt-auth.guard`, the servers of the web apps | refresh sessions in Redis; two cookies in each browser | refresh, logout; every proxied request | the guard reads the account with every request |
| Pricing rules, service zones: `admin-pricing.service`, `admin-zones.service` | `pricing_rules`, `service_zones` | publish, deactivate; create, open, close | quotes |
| Geography, routing: `geo.service`, `routing` | none | service area, route, with fallbacks | quotes; map providers |
| Courier's app: `home/page.tsx` | what the page shows, its loads, the button in progress | load by timer, button or press; accept, reject, pick up, deliver, go on or off line | dispatch, through its proxy |
| Addresses; courier profiles and positions | their rows | create, change, remove | copied into quotes; shown to the customer |
| Operators' and customers' pages, operations, infrastructure | none | pages; deployment, backup | the API |

What is hard, and what makes a component correct:

- **Dispatch.** Rows read before a transaction are used in it; two transactions
  count each other's uncommitted orders; updates take locks in different orders;
  a process may die between any two statements. Correct means: orders follow
  their lifecycle and every step is audited; DELIVERED and CANCELLED are final
  and what left with a courier stays with it; no courier has more active orders
  than the limit; a courier is BUSY exactly while it has an active order; a
  suspended courier's account is suspended; the courier has the vehicle the order
  was priced for; every request is answered.
- **Payments.** Each payment event starts where the one before ended.
- **Quotes and intake.** Two requests hold one quote; an insert fails after the
  quote is consumed, or after it took effect; the catch block puts the quote
  back; Redis evicts. Correct means: a quote is the price of one order, and is
  not lost without a cause; a store's order is imported once.
- **Connector.** The answer is late or lost, the process dies before it is
  saved, background job, manager and courier box work on one order at once.
  Correct means: what the store notes down is the order there is; it shows no
  courier the API did not assign.
- **Tracking.** A change falls between the snapshot a stream starts with and its
  subscription; signals overtake reads; streams break, overlap and are refused;
  a restart forgets every channel. Correct means: channels count their
  listeners; a connection never goes back in time; a page that stays open shows
  the last state in the end.
- **Sign-in.** Cool-down, code, attempts and hourly count are separate keys; two
  pages of one number interleave between any two commands; a request dies after
  it counted and before it set a time to live; a message is lost or reported as
  lost. Correct means: requests for a code take turns; a code is compared with no
  more attempts than allowed and disappears only for a reason of its own; a number is
  never locked for good.
- **Sessions.** A refresh deletes one key and writes another; its answer may be
  lost in between; requests of one browser overlap and answers set or clear
  cookies in any order; accounts are suspended meanwhile. Correct means: a
  browser that makes one request at a time keeps its session, and what it gives up
  is over; a dead cookie does not stay; a suspended user is signed out everywhere.
- **Pricing and zones.** Publications archive what they see and lock row by row;
  a quote reads zones, rule and route at different times; prices are rounded twice in binary
  floating point. Correct means: a vehicle keeps a price, an old price does
  not come back by itself, a quote is made within the area and costs what the rule
  says.
- **Courier's page.** Loads overlap and consist of up to three requests; presses are
  answered late, by errors or not at all. Correct means: the page catches up,
  its buttons do not stay disabled, a suspended courier is sent to the login.

`PROJECT.json` lists every component, and every such hazard at its line with
the properties that cover it.

## 2. The modules

| Module | What it is |
|---|---|
| `RowStore` | A PostgreSQL row under READ COMMITTED: committed version, draft, and the request that holds its lock. External: modelled from how handlers rely on it |
| `Lifecycle` | Abstract specification: orders take one legal step at a time and each step leaves one event |
| `Dispatch` | The dispatch core, order lifecycle and payments, one action per awaited statement |
| `DispatchProofs` | Theorems about `Dispatch`: the lifecycle, its audit, and payments |
| `CourierProofs`, `DeadlockProofs` | Theorems about the couriers of `Dispatch` (extends `DispatchProofs`), and about its locks (extends `CourierProofs`) |
| `Voucher` | Abstract specification of a quote: made, open, then used or gone |
| `Intake` | Quotes, customers' orders and the store's imports, one action per await |
| `Connector` | The WordPress plugin, over `Intake` (EXTENDS it and composes the two) |
| `IntakeProofs` | Theorems about `Connector` and `Intake` |
| `Tracking`, `TrackingProofs` | The channel of an order's signals, the streams over it and the customer's page; theorems about them |
| `SignIn`, `SignInProofs` | One number's codes and the login pages; theorems about them |
| `Sessions`, `SessionsProofs` | One user's refresh sessions, the cookies of its browsers and the proxies; theorems about them |
| `Tariff` | Pricing rules, zones, and the quote that looks at them: area, route, price |
| `TariffProofs` | Theorems about the rules of `Tariff` and about its quotes |
| `CourierApp` | The courier's home page against the answers of the API |
| `MCDispatch`, `MCIntake`, `MCTracking`, `MCSignIn`, `MCSessions`, `MCTariff`, `MCCourierApp` | Model values, instance functions and symmetry for TLC |

### Dispatch

`order`, `courier` and `payment` hold rows of `RowStore`; `trail` and
`payTrail` the last committed event of each order and payment; `tx` what each
request is doing: its handler, the statement it awaits next, its arguments, and
what it has read and will use again. Events are only ever inserted, in the
transaction of the step they describe, so they are kept in `tx` until `Commit`.

A handler begins with one of the actions in `Arrive`, which stands for its
guards and for everything read before its transaction, or for its first
`updateMany`; the rest are the actions in `Continue`:

| Code | Actions |
|---|---|
| `acceptOrder` | `ReadForAccept`, `ClaimCourier`, `ClaimOrder`, `Commit` |
| `rejectOrder`, `markPickedUp`, `markDelivered` | `RejectOrder`, `PickUpOrder`, `DeliverOrder`, then `ReleaseScan`, `Release`, `Commit` |
| `updateAvailability` | `ReadAvailability`, `SetAvailability` |
| admin `assign`, `reassign`; `assignCourier` of the store | `AssignRead`, `ReassignRead`, `WooAssignRead`; `ReadTargetCourier`, `ReserveScan`, `Reserve`, `CountActive`; `AssignMove`, `ReassignMove`, `WooAssignMove`; `ReleaseScan`, `Release`; `Commit` |
| change of vehicle, suspension, activation | `ReadForVehicle`, `CountForVehicle`, `SetVehicle`; `ReadForSuspend`, `CountForSuspend`, `SetSuspended`; `ReadForActivate`, `SetActivated` |
| `cancel`, `markPaid`, `updateOrderStatus` of the store | `ReadForCancel`, `CancelOrder`, `ReadPaymentForCancel`, `CancelPayment`; `ReadForPaid`, `PayPayment`; `SyncRead`, `SyncOrder` |
| a thrown error, a lost connection, the end of the process | `Rollback`, `Abort` |

An update whose row is locked waits; PostgreSQL then evaluates the WHERE again
on the version the other transaction left. Waiting is implicit: the action is
disabled while the row is locked and matches. Who waits for whom is also written
out (`WaitsFor`, from the WHERE clause of each statement), for the deadlock detector
and to state what a deadlock is. The re-evaluation covers the
row's own columns only: a subquery over other rows keeps its old snapshot. That
is why `releaseCourierIfIdle` and `reserveCourierSlot` are two actions each, a
`...Scan` (the statement's snapshot) and the update.

Abstractions: the courier row and its user row are one row, written together
when a courier is suspended or activated; `markDelivered`'s read and update are
one action (nothing changes a PICKED_UP order but its own courier); a request
its first read refuses changes nothing and takes no step; the locks foreign keys
take (KEY SHARE) conflict with none of these updates; of an order there is only
status, courier, quoted vehicle and whether it was imported; of a trail only the
last row. Courier and order listings only read.

### Intake and Connector

`quote` says of each quote whether it was made, for whom and how much time it
has left: *fresh*, *closing* (under a second, which `restoreLockedQuote` cuts to
zero and does not restore) or *expired*. `redis` is the set of quotes Redis
holds, `orders` the rows inserted, `req` what each request is doing.

| Code | Actions |
|---|---|
| `QuotesService.create` | `AskQuote` |
| `OrdersService.create` | `PlaceOrder`, `SeeQuote`, `TakeQuote`, `InsertOrder`, `RestoreQuote` |
| WooCommerce `createOrder`, `createFromIntegration` | `SendKey`, `FindExisting`, `QuoteImport`, `FindExisting`, `SeeQuote`, `TakeQuote`, `InsertOrder`, `RestoreQuote` |
| time, TTL, `allkeys-lru` | `Age`, `Evict` |
| a failing read or the end of the process, at any await | `Break` |
| `status_changed`, `async_send`, `manual_send`, `ajax_assign`, `send_order` | `StatusChanged`, `AsyncSend`, `ManualSend`, `AssignBox`, `Post`, `ReadAnswer`, `GiveUp`, `AssignCourier`, `ShowCourier` |
| the end of a PHP process; an assignment made without the plugin | `WorkerDies`, `AssignElsewhere` |

`Faults` says what may go wrong in an instance: `evict`, `break`, `insertFails`,
and `commitLost` (the insert took effect and was reported as failed). The
plugin waits twelve seconds: `GiveUp` may happen at any time and the API goes on
with the request. The setting `manual_dispatch_only` is read from the database
at each check and may be another value every time. A job may be scheduled again
while it runs, as WP-Cron allows. The assignment call is one step;
`AssignElsewhere` also covers the one whose caller has given up.

### Tracking

One order and one page. `order` is the committed order, cut down to a version
and whether its status is final; `unpublished` counts the handlers that have
committed and not yet called `publish`. `stream` is the API's side of each
connection: the read under way, what has been sent, and what is on its way to
the page; `load` the page's own requests, `shown` what it shows, and `source`
its `EventSource`.

| Code | Actions |
|---|---|
| any handler that changes an order; `publish` | `Change`; `Publish` |
| `stream`: snapshot, `concat`, `subscribe`, `switchMap` | `StreamRead`, `StreamSend`, `Publish` |
| the teardown of `subscribe`; a restart of the API | `StreamEnds`; `Restart` |
| the page: `load`, `safetyRefresh`, the effect on the order, `onOrder` | `Load`, `SafetyRefresh`, `LoadRead`, `LoadAnswered`, `LoadFails`, `Show`, `Receive` |
| `EventSource` and the proxy of the stream | `Connect`, `ConnectFails` |

`get` reads its order in several SELECTs; a snapshot is one read here. An
`EventSource` connects again after a broken connection but not after an answer
other than 200, hence `"failed"`; the refresh goes on. The API may notice late
that a page has gone: `StreamEnds` is not tied to the page's `close`, and
streams overlap. A page that is sent to the login page (401) is gone, and no
longer in question.

### SignIn

`login` says of each page which form it shows, or which command the API awaits
for it; `cooldown`, `hour`, `code` and `attempts` are the keys in Redis. `tries` and the
request's `nth` are history: which of the tries at the stored code a request is.

| Code | Actions |
|---|---|
| `requestOtp`: `SET NX` of the cool-down, `INCR` of the hour, release, `SET` of the code, SMS, undo | `AskCode`, `CountHour`, `ReleaseCooldown`, `StoreCode`, `SendCode`, `UndoCode` |
| `verifyOtp`: `INCR`, `EXPIRE`, burn, `GET` and compare, `DEL`, account and session | `Attempt`, `SetExpiry`, `BurnCode`, `MatchCode`, `ForgetCode`, `OpenSession` |
| the login pages | `AskCode`, `Attempt`, `StartOver` |
| times to live; a request that dies | `CooldownExpires`, `CodeExpires`, `AttemptsExpire`, `HourTurns`; `Break` |

Two facts about time are assumed and named where they are used: sending
takes less than the cool-down (5 s and 60 s), and the attempts at a code do not
expire before it, as they are counted after it was stored. Commands sent together by `Promise.all`
run one right after the other on the one connection there is.

### Sessions

`req` is a request on its way: which step waits, the cookies it came with, the
session it was given. Servers act on the cookies a request *came* with; only
`AnswerClears` and `AnswerSets` change a browser's.

| Code | Actions |
|---|---|
| the proxies of the three apps, `me`, login and logout routes | `StartCall`, `StartSignedOut`, `StartSignIn`, `StartLogout`, `GuardRetries`, `GuardRefuses`, `MeFails` |
| `jwt-auth.guard` | `GuardAdmits`, and what refuses |
| `refresh`, `logout`, `issueSession` | `ReadSession`, `ReadAccount`, `Revoke`, `Rotate`, `Issue`, `EndSession`, `ApiFails` |
| browsers, network, time, operators | `AnswerKeeps`, `AnswerClears`, `AnswerSets`, `Lose`; `TokenExpires`, `CookieExpires`, `SessionExpires`; `SuspendOrRestore` |

`rough` is history: browsers whose requests overlap or fail from now on
(`Roughen`). The safety properties are about the others, the liveness properties about all.

### Tariff

A publication is a transaction: `FindActive` is the snapshot of its `updateMany`,
`ArchiveRow` locks one row and looks at it again, `Insert`, `Commit`. A row is
locked while it is in the `held` of an open transaction.

| Code | Actions |
|---|---|
| `AdminPricingService.create`, `deactivate` | `Publish`, `ArchiveRow`, `Insert`, `Commit`, `Abort`; `Deactivate` |
| `AdminZonesService` | `CreateZone`, `OpenZone`, `CloseZone` |
| `QuotesService.create`, `GeoService`, `RoutingService` | `Ask`, `CheckArea`, `GoPrice`, `FindRule`, `RouteFound`, `RouteFails`, `Calculate`, `Answered` |
| `calculatePrice` | `Billable`, `DistanceFare`, `Subtotal`, `WithSurge`, `Price` |

The price is calculated with doubles in the code. Integers below 2^53 are exact and rounding up
absorbs every error but one: a product that should be an integer and comes out
a little above, for which one toman is added. `OverKm` and `OverSurge` name
these products; those of the instance were computed with the code's expressions.

### CourierApp

`order` and `status` are the server as this courier sees it, `page` what is
shown, `load` the loads under way and `press` the button in progress.

| Code | Actions |
|---|---|
| `load`: profile, missions, queue | `Load`, `ReadProfile`, `ShowProfile`, `ReadActive`, `ShowActive`, `ReadQueue`, `ShowQueue`, `LoadFails`, `LoadLost`, `LoadRefused` |
| `orderAction`, `setAvailability` | `orderAction`, `setAvailability`, `PressWorked`, `PressFailed`, `PressRefused` |
| the API, one step for each handler | `Serve`; `Appears`, `Goes`, `Given`, `Suspend`, `Activate` |

### Slips

Operators marked `(Slip: ...)` are no part of the system. Each repeats an action
with one plausible mistake: a dropped guard, a missing reset, an update by id
alone, a missing event, a swapped order. For every property of a passing run
there is one that breaks it under the same configuration (`mutants` in
`PROJECT.json`): the properties are sensitive to the code they are about.

## 3. The runs

| Run | Instance | Distinct states | Shows |
|---|---|---|---|
| `dispatch_serial` | one request at a time, 2 orders, 2 couriers, 2 vehicles, limit 2, every operation | 213,864 | Without concurrency a courier is BUSY exactly while it works (`WorkingIsBusy`, `BusyIsWorking`) and payment events chain (`PaymentTrailChains`), although requests die between statements; no request is ever stuck (deadlock is checked) |
| `dispatch_races` | two requests, 2 orders (one imported), 2 couriers who stay on line, 2 vehicles, limit 1; every operation but shifts and `markPaid` | 1,096,500 | `OrderInv`, `CapacityRespected`, `WorkersOnLine`, `VehicleMatches`, `SuspensionHolds`, `PaymentTrailMatches` and `CustodyKept` survive all races |
| `dispatch_ends` | two requests: assign, reassign, accept, reject; limit 2; fair locks and deadlock detection | 133,774 | A deadlock is a circle of reassignments (`DeadlocksAreCrosswise`), `EveryRequestEnds`, and `Dispatch` implements `Lifecycle` (`OrdersFollowLifecycle`) |
| `over_capacity` | two requests, 1 courier, limit 1; accept, assign, go on line | violated | Section 6 |
| `store_intake` | 1 store order, 2 quotes, 2 requests, 2 PHP processes, every fault | 361,226 | `ImportedOnce`, `MetaNamesTheOrder`, `ShownWasAssigned` |
| `quotes` | 2 customers, 2 quotes, 3 requests; evictions, breaks, failing inserts | 77,146 | `QuoteNotLost`, and quotes implement `Voucher` (`QuotesAreVouchers`) |
| `tracking` | 1 page, 2 connections, 2 requests, an order with 2 changes | 116,238 | `ListenersCounted`, `StreamMonotonic`, and under fairness `PageCatchesUp` |
| `sign_in` | 2 pages of one number, 4 codes, 1 request an hour, 2 attempts, every fault | 296,044 | `OneSender`, `TriesBounded`, `CodeLasts`, and under fairness `NumberRecovers` |
| `sessions` | a customer's browser with 2 requests, 3 keys, every trouble | 143,044 | `SessionKept`, `GivenUpIsOver`, and under fairness `DeadCookieGoes`, `SuspensionEnds` |
| `session_lost` | the same without any trouble | violated | Section 6 |
| `tariff` | 3 publications of one vehicle, 2 zones, one quote at a time, 2 distances | 371,067 | `TwoOnlyByOverlap`, `QuoteHonest`, `PriceStays`, `NoWayBack`; no deadlock |
| `courier_app` | one order, a timer's load beside a press's, a network that fails until it recovers | 242,956 | Under fairness `CatchesUp`, `BusyEnds`, `SuspendedLeaves`; no deadlock |

`TypeOK` is an invariant of `dispatch_serial` (and part of `OrderInv`), `store_intake`, `sign_in` and `tariff`;
that of `Tracking` and that of `Sessions` are proved; in `CourierApp` it only documents the variables.

Also checked while the models were written, without a configuration here: the
intake run with three quotes (1,980,132 states, no error); `CapacityRespected`
with three requests, three orders and limit 2 without availability writes
(511,556 states, no error); `WorkersOnLine`, `VehicleMatches` and `SuspensionHolds` with limit 2
in `dispatch_races` (738,696 states, no error); `EveryRequestEnds` without deadlock detection where
no operation reassigns (151,428 states, no error); `DeadlocksAreCrosswise`
with three requests that assign, reassign and reject (438,749 states up to symmetry, no error); that a request can continue
exactly if it waits for nobody (`ENABLED Continue(p)` against `WaitsFor`: the instance of `dispatch_ends`, and the first 8
million states of one with payments, shifts and suspensions, no error); the inductive invariants of the
proofs, on the instances of the runs; the sessions of a member of the
staff, whose proxy clears cookies where the others set them.

`CHECK_DEADLOCK FALSE` stands where an instance runs out of things to do: all
orders are final and its operations are few, no key or code is left, or nobody opens
another page.

## 4. Fairness and bounds

Five runs assume fairness, and no more than this; the others assume none.

`dispatch_ends`: `FairSpec` has strong fairness for every
request's next statement: node's event loop runs every callback that is ready,
and PostgreSQL serves the waiters of a row in order, so that a statement which
can run again and again runs at last. `DetectSpec` adds weak fairness for
ending one request of a cycle of waits (`Cycle`), which is what
PostgreSQL does after `deadlock_timeout`. Nothing is assumed about clients: a request need not arrive.

`tracking`: weak fairness for the refresh (a browser's timer
of an open page fires) and strong fairness for each request of the page: not
every one is lost to a restart or answered by an error. Nothing is assumed about
signals or streams; `PageCatchesUp` holds if none of them ever works. It is
about a page whose first load succeeded: one that failed has no timer and waits
for the customer. `UpToDate` counts a final status as shown whatever its
version, because a page of a final order has neither stream nor timer: a payment
confirmed after delivery appears only when the customer reloads. In between, a
late answer may put an older snapshot in place of a newer one
(`page.tsx:112` sets whatever arrives).

`sign_in`: weak fairness for the next command of a request and for the keys whose time to
live ends; strong fairness for one user who goes back to the first form and asks again
(`Patient`): waiting is all the message tells it to do, and other pages
may take the cool-down or the hour first. `CountHour` and `StoreCode` are strongly fair, so
that not *every* request for a code dies before the same command. Nothing is assumed about
messages: `NumberRecovers` needs no code to arrive.

`sessions`: weak fairness for the next step of a request; strong fairness for
the arrival of answers (not every one is lost) and for a page's next call (timers and clicks);
tokens grow old, and a session no browser holds reaches its time. A
browser used at least once in 30 days is assumed.

`courier_app`: weak fairness for the timer, for the steps of a load, for the answer to
a press and for what the page does with it. The network may lose anything
until `NetworkRecovers`, which need not happen: `BusyEnds` does not
depend on it, `CatchesUp` and `SuspendedLeaves` name it.

Bounds. *Dispatch*: two requests suffice for a race between two handlers. Two
hazards need three: a deadlock that catches a bystander, which the theorem covers and section 3 mentions,
and a suspension that slips in between an assignment and a hand-back (section 6). Limit 1 with two orders reaches the limit and
its refusal; in the serial run limit 2 lets a courier keep one of two orders. Two
vehicles matter where one changes. No counter grows. The operations left out of
`dispatch_races` are those its properties do not survive (shifts, section 6) or that
concern payments alone. *Intake*: three
requests for two quotes have one holding, one waiting and one restoring; two PHP
processes make a background job and a manager meet; the supply of quotes bounds the orders, apart from orders made
twice from one quote, which `nth` tells apart and which end with the supply of
lost commits (a quote not restored is gone). *Tracking*: two changes, one snapshot on the wire of a connection (`WireBound`) and
two connections have a signal overtake a read, a change in the gap before the
subscription, and a stream that ends beside the one that replaces it. *SignIn*: two pages
are two requests at a time, two codes beside the stored one are in somebody's hands at most (so four suffice);
one request an hour and two attempts reach and pass both limits; counters
are kept up to one beyond their limit (`UpTo`), as no handler looks further.
*Sessions*: two requests of one browser, three keys: its own and one for each
request; `NewKey` takes one not in use. Another browser has keys of its own, so that one
browser is enough. *Tariff*: three publications have two open at the same time while a third is
in force, which is what two active rules need; `clock` counts at most the three
inserts; two zones differ in what they cover; the two distances lie below and above the included one, with
products at which doubles err. *CourierApp*: one order is every combination of a mission, an offer and
nothing; a load of the timer overlaps the load of a press. With more orders the page
treats each alike.

Symmetry is over requests, couriers
(where vehicles are equal), quotes, customers, PHP processes and rules: no action
distinguishes them. It is not used for liveness.

## 5. What is proved

All proofs are for any sets of couriers, vehicles, requests, customers,
quotes, keys and PHP processes, finite or not; for any limit, any set of
operations and, where not said otherwise, any faults. They rest on the named
assumptions only: `None` is no value of any table, every order has a vehicle,
imported orders are orders, there are finitely many orders and streams (they are counted),
the limit is a positive number (five, `courier-capacity.ts:4`), the store's user is
no customer, faults are known ones, codes are told from each other and from no code,
the numbers of a fare are those its form admits, and doubles err only where the exact
product is an integer. TLC evaluates them in every run.

`DispatchProofs`, about `Spec` of `Dispatch`:

- `OrderInvariant`: `OrderInv` always. `OrdersConsistent` and `TrailMatches`
  are not inductive: they say nothing about uncommitted rows, which the next
  `Commit` publishes. The strengthening is `DraftsAudited` (a written order
  belongs to one request, the step from committed to written version is legal,
  and the request holds exactly the event of that step), `EventsWritten` (a
  request with an event has written its order) and `RequestKnows` (what a
  request carries at each statement). Each action treats order rows in one of
  four ways (leaves them, writes one, commits, rolls back); there is a lemma for
  each way and a step for each action.
- `TypeCorrect`, `OrdersStayConsistent`, `TrailStaysTrue`: its parts.
- `ImplementsLifecycle`: `Spec => OrdersFollowLifecycle`. Commits map to
  `Advance`, everything else stutters.
- `CustodyStaysKept`: final orders never change, orders on the road never
  change hands.

- `PaymentInvariant`, `PaymentTrailStaysTrue`: `PaymentTrailMatches` always, also while a
  payment is confirmed and cancelled at the same time. Inductive relative to `OrderInv` is
  `PaymentInv`: besides, a written payment belongs to one request, which holds
  the event that leads to the written status (`PaymentsAudited`), and that request is about to commit
  (`PayEventsWritten`).
- `PaymentTrailStaysChained`: `PaymentTrailChains`, if `PaymentsApart`: one request at a time, or
  no confirmations, or no cancellations. Without this it is false (section 6): `cancel` updates by
  id what it read a statement earlier. `ChainInv` says that what a cancellation has
  read is still so, as it holds the order, and that an event at hand starts from the committed status.

`CourierProofs`, about the same `Spec`. Shifts are left out (`Ops \cap Shifts = {}`) or
requests come one at a time (`OneAtATime`), because a shift is written by id after an
earlier read and `over_capacity` shows what becomes of the limit then; shifts are the two
operations of `updateAvailability`, and everything else may interleave.

- `CourierInvariant`: `CourierInv`, inductive relative to `OrderInv`. The limit alone says
  nothing of an order written and not committed. The strengthening: an order joins a
  courier's load only by a request that holds the courier's row, which it made BUSY
  (`JoinsHeld`), and that has seen room for it after it locked the row (`CourierKnows`); a
  courier who is AVAILABLE has room (`AvailableHasRoom`), which is why `acceptOrder` need not count;
  and a request that sets a courier AVAILABLE has taken an order from it, which is what keeps
  this true although its snapshot may be old.
- `CapacityStaysRespected`, `SuspensionStaysTrue`: its consequences, for any limit.
- `OnLineInvariant`, with `WorkersStayOnLine` and `VehiclesStayMatched`: who works is on line and has
  the order's vehicle, if besides `SuspensionSafe` holds: the limit is one, or nobody suspends.
  With the code's limit and suspensions this is false (section 6). The invariant: what
  a claim has read of the vehicle is still so (`VehicleKnown`), a courier changes it
  only off line, and no order is with it then (`Steady`, `JoinsMatch`).
- `SerialInvariant`, with `WorkersStayBusy` and `BusyStaysTrue`: one request at a time, all operations
  and all deaths included, a courier is BUSY exactly while it has an active order. At each
  statement this is so of what is written, but for the courier the
  request is about to look at.

`DeadlockProofs`, about the same `Spec`, without any hypothesis:

- `LocksInvariant`: `LocksKnown`, inductive relative to `OrderInv`: a request holds no courier but
  the one it has reserved, and comes to a release with the order it took from that courier.
- `DeadlocksStayCrosswise`: `DeadlocksAreCrosswise`. Who holds a payment is about to commit, so
  that nobody waits for one in a deadlock. Who holds an order and waits is about to release the courier the
  order is still with, so that only a move of that order, away from that courier, waits for it.
  Hence who holds a courier and waits is a reassignment, and the courier its order is taken from is
  held by the next one. Hand-backs can only hang on the circle: they hold no courier.

`IntakeProofs`, about `Spec` of `Connector`:

- `StoreInvariant`: `StoreInv`, inductive: types and finiteness, one order per
  key (`OneLinkPerKey`), answers name committed orders of their key
  (`AnswersTrue`), requests have their quote and user when they need them
  (`RequestsReady`), a PHP process waits for a request of its own which imports
  its own order (`WaitsForOwn`, `BusyWithOrder`), meta data and courier are true
  (`MetaTrue`, `ShownTrue`). Finiteness is needed because a new order is
  numbered by a cardinality.
- `IntakeTypeCorrect`, `OrdersImportedOnce`, `StoreKnowsItsOrder`,
  `ShownCouriersWereAssigned`: its consequences, with every fault, lost commits
  included.

- `QuotesImplementVouchers`: if no commit is lost,
  `Spec => QuotesAreVouchers`. The invariant `OnePlace` says that a quote is in at
  most one place: in Redis, in the hands of one request, or turned into orders.
  Every action moves one quote between places, or none; `GETDEL` is what keeps two
  requests from holding one.
- `QuotesAreNotLost`: the action property `QuoteNotLost`, with every fault, lost commits included.
  It needs `OwnerSeen`: who is about to take a quote has seen that it is its own, and a
  quote's owner never changes.

`TrackingProofs`, about `Spec` of `Tracking`, for any number of connections, requests and changes:

- `TrackingInvariant`: `TrackingInv`, inductive: types, `ListenersCounted`, and `StreamsInOrder`: a stream has one read under
  way at most, whose result is no older than what was sent and no newer than the order.
- `ListenersStayCounted`, `TrackingTypes`: its parts; `StreamsStayMonotonic`: the action property
  `StreamMonotonic`.

`SignInProofs`, about `Spec` of `SignIn`, for any pages, codes and limits, with and without faults:

- `SignInInvHolds`: `SignInInv`, inductive: types, `OneSender`, `Counted` (while
  there is a code, the counter in Redis has missed no attempt at it) and `Relies` (what a
  request may count on before its next command: the sender owns the code, a request
  that compares or forgets was within the limit).
- `SendersTakeTurns`, `TriesAreBounded`, `CodesLast`: `OneSender`, `TriesBounded` and
  the action property `CodeLasts`, its consequences; `SignInTypeCorrect`: its part.

`SessionsProofs`, about `Spec` of `Sessions`, for any browsers, apps, requests and keys:

- `SessionInvHolds`: `SessionInv`, inductive. `SessionKept` alone says nothing of a
  request that is under way. Besides types it has `Apart` (no two browsers have or await
  the same session, so that what one gives up is nobody else's), `OneAtATime` (a
  browser that is not rough has one request at most) and `SmoothKnow` (what that request
  knows, at each await, of the session in the cookies: alive until its refresh
  revokes it, and from then on replaced by the new one it carries).
- `SessionStaysKept`, `WhatIsGivenUpIsOver`: `SessionKept` and the action property
  `GivenUpIsOver`, its consequences; `SessionsTypeCorrect`: its part.

`TariffProofs`, about `Spec` of `Tariff`:

- `RulesKept`: `RuleInv`, inductive. That two active rules overlapped says nothing of
  a transaction before its commit. The strengthening is `Publications` (what an open one has locked is
  of its vehicle, active, and, once its own rule is inserted, older), `LocksExclude`, `OpenNoted` and `MissedNoted`
  (an active rule that an open publication will not archive was published while
  it was open).
- `TwoOnlyByOverlapHolds`: its part. `PriceStaysHolds`, `NoWayBackHolds`: each step that takes an
  active rule away puts a later one of its vehicle there, or deactivates it; a bounded set of numbers has
  a greatest, by the well-foundedness of the naturals.
- `QuoteHonestHolds`: `QuoteHonest`. The invariant `Quotes` says what a request has found out when
  it is at each stage: the ends it has looked at were served, and the rule it
  carries keeps its numbers whatever becomes of it (`FareKept`). The rest is
  arithmetic (`PriceGrows`, `PriceBounds`): rounding up is monotone, and a
  product that errs is a multiple of the divisor, so a greater one rounds to more.
- `TypeCorrect`: types of all variables.

Only model-checked: liveness everywhere (`EveryRequestEnds`, `NumberRecovers`, `DeadCookieGoes`,
`SuspensionEnds`, `PageCatchesUp`), and with it all of `CourierApp`, whose three properties are of that
kind; that `WaitsFor` says exactly when a statement waits, which needs ENABLED. Both are out of the
prover's reach.

## 6. What the models found

Two statements of the documents do not hold of the code and have a run with
the shortest behaviour TLC finds.

1. `over_capacity`: `updateAvailability` writes by id after an earlier read; a
   late write turns a courier who has just claimed an order AVAILABLE again, and
   it claims one more than the limit (`couriers.service.ts:31`,
   `docs/WOOCOMMERCE_CONNECTOR.md:182`).
2. `session_lost`: of two overlapping requests that refresh one session the
   second is refused, and its answer clears the cookies the first one has set: the
   refresh is not transparent (`[...path]/route.ts:85` of the customer's app,
   `docs/ROADMAP.md:53`).

Seen as well, without a run:

- a courier suspended at work: `suspend` counts the active orders before it locks the courier's row. Two orders
  are assigned after that; the courier hands back the first, whose release waits for the second
  assignment and then sets the courier AVAILABLE by the snapshot it took before; and
  the suspension's update, which asks for the status only, goes through
  (`admin-courier.service.ts:154`, `docs/COURIER_MANAGEMENT.md:13`; `WorkersOnLine` with assign, reject and
  suspend, three requests, one courier, two orders and limit 2: 23 states);
- two last jobs completed at the same time each see the other as active in
  their own snapshot; nobody frees the courier, who stays BUSY without an order
  (`courier-capacity.ts:23`, `docs/WOOCOMMERCE_CONNECTOR.md:182`; limit 2 and two requests);
- a courier working but AVAILABLE: an assignment commits between the snapshot and the
  lock of a release (`courier-capacity.ts:23`; limit 2 and two requests: at limit 1 the order being
  given back still counts, and the assignment is refused); a stale availability write that undoes a suspension of the courier row
  while the account stays suspended (`docs/COURIER_MANAGEMENT.md:9`); a courier
  who claims with the vehicle read before a change of vehicle
  (`docs/COURIER_MANAGEMENT.md:11`);
- `cancel` overwrites a payment that was marked PAID in between, and both events
  leave PENDING (`orders.service.ts:390`, `docs/SECURITY_REVIEW.md:25`);
- the catch block of `create` restores the quote after *any* error, also when the
  commit took effect and only its answer was lost: the quote is used twice
  (`orders.service.ts:108`, `docs/SECURITY_REVIEW.md:24`). `QuotesAreVouchers` names
  this one case as its exception;
- of two concurrent sends of one store order the second is answered with an error,
  not with the existing order (`orders.service.ts:144`,
  `docs/WOOCOMMERCE_CONNECTOR.md:86`); no duplicate is made;
- the store completes an order nobody has claimed, which is DELIVERED without a
  courier (`docs/DATA_MODEL.md:111`); the courier the store's list shows may be an earlier
  one after a reassignment;
- two publications at the same time leave two active rules; deactivating the
  newer brings the older back, while the operators' page says that there are no
  quotes until a new price is published (`pricing/page.tsx:122`, `:139`);
- the legacy radius holds before the first zone is made (`zones/page.tsx:127`), and
  the two ends of a trip are checked by separate queries: both may be served, and never at the same time;
- the price formula of `docs/DATA_MODEL.md:117` charges begun kilometres, the code exact ones rounded
  up to a toman; binary fractions add a toman (0.134 km at 15,000 a kilometre costs 2,011);
- `ROUTING_PROVIDER=auto` always has the approximate distance to fall back on, so that a trip
  without a road has a price;
- a verification in progress when a new code is stored was counted before and may
  burn or forget the new one; two verifications of one code at the same time both sign in;
- two overlapping refreshes that have both read the session are both served, and one of the new sessions is left to its
  time to live;
- a press answered by an error does not load the page again: the courier sees the old card until
  the timer fires; a load that began earlier may bring a card back, and a "reject"
  pressed on it rejects an assignment made since.

## 7. What is not modelled

Addresses are rows of one user, created, changed and removed one request at a time and
copied into quotes. Courier profiles, phones and positions are read by pages and by
nothing that decides; that the courier's page sends a position no more often than every
so many seconds (`home/page.tsx:222`) is left out with them. The operators' and the
customers' other pages load, send one request and load again; their calls
arrive in any order in the models of the API. Listings only read.
Geometry (points in polygons, distances on the globe) and the lengths of routes are pure functions or data
of other services. Deployment, backup, configuration, validation, logging and error messages
keep no state the properties depend on. In the
plugin: settings, columns, coordinates. Orders with bad settings or without
coordinates are never sent.

Only one API process, one database and one Redis are modelled, as deployed; a restart of either
store is a broken request and, for Redis, evictions. In `SignIn` and
`Sessions` keys are not evicted: an eviction there is an early expiry.

## 8. The plan

Done, in this order: `RowStore`, `Lifecycle`, `Dispatch` and its invariant;
`Voucher`, `Intake`, `Connector` and theirs; `Tracking`; `SignIn` and its invariant;
`Sessions`; `Tariff`; `CourierApp`; the invariants of the payments, the sessions, the
rules and the quotes; those of the couriers, the locks and the streams. Every safety property of a passing run
is a theorem.

1. Proofs: the limit while couriers go off line but not on, and with shifts one at a time; which
   couriers may be BUSY without an order, or AVAILABLE with one, while requests interleave.
2. The status pushes of the plugin, composed with `Lifecycle`: late and
   reordered pushes.
3. The courier's positions: their throttle, and what the customer's page shows of them.
