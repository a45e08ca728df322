# A verification project for the taxi bot

The repository is a VK bot that runs a small-town taxi service: passengers and
dispatchers create orders by message, drivers stand in a line and get the orders
one by one. This directory holds TLA+ models of it, the TLC configurations that
check them and machine-checked proofs of the main safety properties. Paths such
as `bot/handlers.py` are relative to the repository's root.

Contents: 1 the system, 2 what can go wrong, 3 the modules, 4 the correspondence
between them and the code, 5 the runs and their bounds, 6 fairness, 7 the
proofs, 8 where code and promise disagree, 9 what is not modelled.

## 1. The system and its components

| Component | State it keeps | Operations | Talks to |
|---|---|---|---|
| Driver line: `queue_service`, `lines` | `drivers_queue` rows (position, waiting/offered/assigned/away), `users.driver_status`, `is_on_line` | join, leave, away, mark assigned/offered, release, restore, repair, choose next | called by every handler that touches an order |
| Order dispatch: `order_service` | `orders` rows: status, driver, offered driver, declined drivers, cards | offer to next, accept timeout, no driver, chat fallback, watchdog of duplicates | line, passenger queue, timers, messages |
| Passenger queue: `passenger_queue` | `passenger_queue` rows (position, waiting/polling) | enqueue, remove, try_promote, question and answer, dispatcher's deadline, recovery worker | dispatch, line, FSM |
| Parallel orders: `parallel_orders` | `parallel_driver_id`, `parallel_eta` | take, arrival time, decline, timeout, promote, release; automatic offers of village orders | dispatch, line, passenger queue |
| Handlers: `handlers` | FSM rows (`states_service`) | the messages of passengers, drivers, dispatchers, administrators | everything |
| Watchdogs: `accept_timeout_service`, `driver_away_timeout_service`, `admin_order_cancel_service` | none of their own | run the timeout handlers for rows whose timers were lost; cancel from the administration | dispatch, line |
| Outgoing messages: `outbox_service`, `vk_client` | `outbox_messages` rows and messages in flight | enqueue, deliver, edit, delete, recover | VK, every handler |
| Timers: `timers` | a heap in memory, `scheduled_jobs` rows | schedule, cancel, fire, retry, restore | every service |
| Event loop: `main` | `processed_events`, one queue per actor | claim an event, run its handler in one transaction | handlers |
| Bookings: `booking_service` | `bookings` rows, the form in the FSM data | fill in, publish, take, depart, give back, cancel, expire, complete | handlers, timers, false calls |
| Deliveries: `delivery_service` | the order's price columns, the driver's FSM row | take, price, agree, decline, time out, buy, finish, cancel | handlers, timers, line |
| False calls: `fake_calls_service` | `fake_calls` rows, the passenger's lock | create, ask to pay, remind, mark as paid, repair the lock | handlers, timers, bookings |
| Choice of a driver: `handlers` (`select_direct_driver`) | `driver_selections` rows, the driver's row | hold, order, offer, refuse, release, time out | line, dispatch, timers |
| Waiting fee, abuse limits, blocks | counters and durations of one row | see the files of those names | handlers |
| Prices, streets, maps, texts, keyboards, statistics, migrations | settings | look-ups | none |

Each component is correct when:

* Line: positions are a strict order, a driver keeps the place unless leaving
  it, a free driver has a row, a busy or offered driver is never free.
* Dispatch: an order is offered to one driver and a driver has one offer; a
  refusal is final; what is searched for is in front of somebody; closed is
  closed; an assignment ends the offer.
* Passenger queue: its rows are exactly the queued orders; nobody waits for ever
  while a willing driver stands free; a cancelled order is not promoted.
* Parallel orders: a reservation exists besides a ride only, at most one per
  driver, and becomes a ride or goes back to the queue whichever way the ride ends.
* Rides: one per driver, no offer besides it, kept until it is closed.
* Messages: a withdrawn card leaves the screen, an unsent one is never sent.
* Timers: what is scheduled runs, what is cancelled does not, also after a restart.
* Events: the handler of an event takes effect once; one actor's events in order.
* Bookings: one active booking per passenger; one that waits expires; it ends with
  its ride.
* Deliveries: a busy driver has a delivery; an agreement stands until it is carried out or cancelled.
* False calls: a debtor is locked out until nothing is owed.
* Choice of a driver: a hold keeps its driver, no mark outlives its reason, and a
  personal order stays with the driver it was made for.

## 2. What is hard here

One event (a message, a timer, a pass of a worker) runs in one database
transaction, and the handlers take row locks, so most interleavings are
interleavings of whole events: several dozen kinds of them, from any driver,
passenger, dispatcher, administrator or timer, in any order. The invariants relate
records that no single handler owns (the line's row, three columns of the order, the
FSM row of its creator, the passenger queue). Three details of the code make it harder:

* The sessions do not autoflush. A query in the middle of a handler sees the
  rows as they were last flushed, not as the handler has changed them.
  `passenger_cancel`, `confirm` and `_poll_timeout` end with `try_promote` on
  such rows; `disp_cancel_order` asks for a reservation on them.
* The creator's FSM row carries a marker (`current_offer`) and a pending
  dialogue (the address question) that outlive the event that set them. All
  orders of one dispatcher share that row.
* Availability is written in three places (`drivers_queue.status`,
  `users.driver_status`, `users.is_on_line`) and repaired before every choice.

The services meet the same three dangers in other forms. A transaction may read a row,
wait for its lock and go on with what it read, because a locking query does not refresh an
object the session already holds (deliveries, village orders). A timer's callback may have
started when the event that makes it pointless commits. And memory (the timers' heap, the
queues of the event loop) and rows have to agree after any roll-back and restart.

`PROJECT.json` lists the hazards at their lines, with the properties that cover
them; for those without one it says why.

## 3. The modules

| Module | What it is |
|---|---|
| `Dispatch` | the line, the dispatch of orders, the passenger queue, parallel orders and the rides, with their properties |
| `Assignment` | abstract: every order is open, offered, reserved, held or closed, and every driver has one thing to do |
| `DispatchRefinement` | the mapping under which `Dispatch` implements `Assignment` |
| `MCDispatch` | the instances of `Dispatch` for TLC: creators, symmetry, one bound |
| `Dispatch_proofs` | the theorems about the offers, the line and the passenger queue of `Dispatch`, and their proofs |
| `Rides_proofs` | the theorems about its rides and reservations, the refinement of `Assignment`, and their proofs |
| `Outbox` | the rows of `outbox_messages`, the handlers' transactions on them, the worker and its jobs, VK |
| `Outbox_proofs` | the theorems about `Outbox` and their proofs |
| `MCOutbox` | the instance of `Outbox` for the run that TLC refutes |
| `Timers` | the scheduler: memory, durable rows, the callbacks' pool, the transactions around the calls, restart |
| `EventLoop` | the reception of VK events: slots, shards, claims, failures, two processes |
| `Process_proofs` | the theorems about `EventLoop` and `Timers`, and their proofs |
| `Users` | the roles of users, shared by the services |
| `FalseCalls` | debts, the lock of a debtor and its lifting |
| `Bookings` | bookings, with the rides they become; extends `FalseCalls`, whose debts its cancellations make |
| `Bookings_proofs` | the theorems about `Bookings`, with its `FalseCalls`, and their proofs |
| `Deliveries` | one delivery from the order to its end |
| `RouteOffers` | one village order: village line, drivers on their way, town line |
| `RouteOffers_proofs` | the theorems about `RouteOffers` and their proofs |
| `PersonalOrders` | holds on chosen drivers and the orders made for them |
| `Services_proofs` | the theorems about `Deliveries` and `PersonalOrders`, and their proofs |
| `MCComponents` | one instance of all service modules for TLC |
| `Components_proofs` | what the theorems about the services say of all of them together |

`Dispatch` and the services are separate state machines: the code couples them through the
availability of a driver (which each service keeps as far as it writes it) and through timers
(which `Timers` models and the services take as steps). `Bookings` composes bookings, rides
and debts, because they share passengers and numbers of timers.

The models also hold, beside the definitions they vary, operators introduced by
a comment "Mutant of ...". They take no part in `Spec`. Each one is a
plausible slip in the code (a guard or an assignment forgotten, an order
reversed); put in the place of its original it makes TLC violate a property, so
no property of a passing run holds merely by the shape of the model. The pairs are
the "mutants" of `PROJECT.json`.

## 4. How the modules correspond to the code

### Dispatch

State. `db` is a record of the columns dispatch reads, named after them where the
name is short enough: `status`, `driver` (`driver_id`), `offered`
(`offered_driver_id`), `parallel` (`parallel_driver_id`), `declined`, `special`
("far" is among the refusal reasons), `confirmed` (`actuality_confirmed`), `temp`
(`chat_driver_was_offline`), `card` (`offer_outbox_id` is set), `peta`
(`parallel_eta` is set), `chatcard` (a card was published), `deadline` (the dispatcher
timer is pending), `row`/`ahead` (`drivers_queue`), `dstat`, `online`,
`pq`/`pahead` (`passenger_queue`), `current`, `address` (FSM). The integer positions
of the two queues are abstracted to the strict order they induce, which is all the code
compares.

Steps. A handler is an operator from record to record; an action applies it and
the trailing `try_promote` where the code has one, in the same step. Helpers
have the names of the functions they stand for (`MarkAssigned` for
`mark_assigned`, and so on; `PROJECT.json`, "map", gives the lines).

* `Repair`, `NextWaiting`, `OfferNext`, `NoDriver` are
  `_repair_visibly_free_drivers`, `next_waiting_driver`, `offer_to_next_driver`
  and `_handle_no_driver`; `Promotes(v, s)` is `try_promote`, with the flushed rows
  `v` and the rows in memory `s`. It is a set: whether an order has waited long
  enough to be asked about first is a choice.
* `Begin(d)` is what `_handle_message_impl` does before any command of a driver: the
  repairs of `active_order_for` and `_release_stale_offer_for_active_ride`.
* Commands the menu lock or the offer lock refuses are guarded by `MenuOpen` and
  `OnRide`.
* The two kinds of creators, passengers and dispatchers, are told apart by
  `Dispatchers`. The reasons of a refusal that the code treats alike are one
  reason: "delivery" is "far", "spam" is "booking".
* A timer is a step that may happen while the row is in the state its
  callback asks for. That is sound for a lost, late or repeated timer too, because
  each callback re-reads the row. One timer is kept as state, the dispatcher's
  deadline, since it outlives the states in which it matters.

Simplifications. One universal line. The columns of a closed order that nobody
reads again are forgotten (`Close`), which keeps the state space small. VK edits of
a card succeed. A tap on a question that was withdrawn is not modelled (the code
answers it with a message). A passenger locked out by a false call is in the
menu. The 60-second question of a chat claim (`chat_actuality_timeout`) is not
reachable: a chat card is published for "far" and "delivery" only, and both go straight to
the arrival menu. A driver keeps the driver role.

Bounds. `NOrders` is how many orders are ever created. `DeclineReasons` and
`ParallelUsers` say which buttons the drivers of an instance use. `OneRefused`
(in `MCDispatch`) lets only the first order be refused.

### Outbox

State. `row[m]` is the committed row: `status`, what `last_error` says of the VK ids
(`ids`: none, a usable one, or the marker "undeletable"), whether the text is still the card
with its buttons or already the final one (`card`), and whether the priority is above zero
(`critical`). `tx[m]` is the row as the open transaction that has it locked has changed it;
`trim[m]` the rows that the transaction posting `m` has chosen to cancel; `job[m]` the
executor's job, with the columns it will write; `phase` the worker's next claim; `screen[m]`
what VK shows, `event[m]` the MESSAGE_REPLY event, `over[m]` whether the order of the card is
closed.

Steps. A handler's call is two steps, the read under the lock (`Cancel`, `Finalize`) and the
commit or roll-back of the transaction around it, which may come much later. A job is
one step for each transaction and each VK call, and one for the commit: `_deliver_one` is
`DeliverRead`, `DeliverCall`, `DeliverLoad`, `JobWrite`, with `DeliverRaises` and
`DeliverRescue` for its except branch. SQLAlchemy writes the columns that were changed and
checks nothing else, hence `Written`: a job writes its columns on whatever the row has become.
`DeliverLoad` includes the deletion that `_deliver_one` performs itself when it finds the
withdrawal. VK calls that fail may have taken effect; a send with a known `random_id` has none.
The cap of `send_message` reads the rows it drops without a lock (`PostOverCap`) and
writes them at its commit.

Simplifications. Times (retry delays, the thirty seconds of a claim or of a missing id) are
choices: a row may be due or not whenever it is looked at. Every event carries its
`random_id`. The redispatch of an offer whose driver is unreachable (VK error 901) belongs
to `Dispatch` and is left out on both sides; here the row is cancelled.
`update_tracked_message` has no caller.

### Assignment and DispatchRefinement

`PlaceOf` reads the phase of an order off its columns: `driver_id` makes it a ride whatever
the status says, as `active_order_for` sees it; `offered_driver_id` counts while the order is
searching; `parallel_assigned` is a reservation. `Assignment` then says what one event may do to
an order (`Moves`) and what holds of all orders afterwards (`Exclusive`: one thing to do per
driver, a reservation only beside a ride). One event may move several orders, because an order
that ends promotes another. A claim may overtake an offer to somebody else (`IsTaken`): the chat
card of an order outlives its search, and the code accepts it.

### Timers

State. A timer is known by its key, kind and number. In memory: `entries` (`_entries`), `heap`,
the tokens in the order given (`made`), `pool` with how far each callback is, `holder` (the
callback whose thread holds `_condition` over a database call). Durable: `rows`, and what each
open transaction has done to each (`write`). `schedule` and `cancel` are two steps each, memory
under the lock and then the row in the caller's session, so a transaction can wait between
them. A callback has a transaction of its own (`Txns`) for the calls it makes; when it has
returned, `ClearBegins` takes the lock and `ClearRow` deletes the row, waiting while another
transaction has it; one that raised schedules itself again (`Retry`, `PersistRetry`).
`RestoreTimers` is the death of the process and `restore_persistent`. `kept`
and `elapsed` are history: which tokens were committed, whose delay is over. Two transactions
on one key do not overlap (`Alone`): their callers lock the order, booking or debt first.

### EventLoop

Each process has its own slots, shards and threads; the table of claims is shared. `sender` is
chosen at the start. `SubmitEvent` blocks when no slot is free. `ClaimEvent` waits for another
open transaction that has inserted the same key, and ends the work when the claim is there.
`HandleEvent` is the handler with its commit: `handle_message` swallows an exception of the
handler and the claim is committed with whatever was flushed, so for this module it is the
same step. `EventFails` is a roll-back (a lost connection), after which VK's repetition, if
any, runs the event again. `LoopRestart` loses a process's queues.

### Bookings and FalseCalls

Every handler of a booking locks its row first, so each is one step: the form (`FillForm`,
`Confirm`), `TakeBooking`, `Depart` (which makes the order), `DriverCancelBooking` (back to the
chat), the cancellations, `Expire`. Ordinary rides appear as far as they meet bookings: they end,
change drivers or block a departure. `cancel_all_for_order(n)` cancels the timers of number n,
whatever row the number belongs to (`TimersGone`). Nothing in `fake_calls_service` locks a row:
`mark_paid` and the repair in `handle_locked_input` are two steps each, a look for other
debts and the commit that lifts the flag. `during` is history: the debt was made between them.

### Deliveries

One order. Handlers that lock it before they read are one step; the price, the purchase, the
end and the passenger's cancellation read it without a lock and are two (`reads`), the second of
which writes the columns the code assigns. The timeout's callback starts (`late`) and then waits
for the row. `overtaken` is history: a cancellation was committed on an older reading.

### RouteOffers

One order of a dispatcher from a village. The functions that pass it on call one another
in a circle and lock no driver; `task` is the function that runs, with the row as
read (`base`) and as changed (`work`), and each call is a step, so drivers come and go between
two. `snap` is a transaction that has read the row and not locked it yet; it goes on with what it
read. The commit writes the columns that were changed (`Merged`). The circle has no bound in the
code; `MaxChances` bounds it, and `Overflows` says where the bound is met (the recursion error
is swallowed and committed, as any exception).

### PersonalOrders

`hold` is the row of `driver_selections`, `mark` the status in `drivers_queue`, `personal` the
order of each choosing passenger, `work` what ordinary orders ask of a driver. Every handler
locks the hold before the row, so each is one step. `Repaired` is
`_repair_visibly_free_drivers` with its exception for held drivers, `Takers` what a search finds.

## 5. The runs

Every safety run of `Dispatch` uses the symmetry of the drivers: no constant tells one from another.
Deadlock is not an error: once all orders of the bound are closed and everybody is off the
line, nothing happens.

| Run | Instance | Shows |
|---|---|---|
| `dispatch_line` | 3 drivers, 1 order; refusals "dislike", "away", "booking" | the line: strict positions, places kept, first come first served, refusals final |
| `dispatch_address` | 2 drivers, 2 passengers; "need_address" | offers and the passenger queue under the address dialogue, whose answer may come before or after a claim, a breakdown, a cancellation; a driver who let an offer run out is left alone; the refinement of `Assignment` |
| `dispatch_rides` | 2 drivers, 2 passengers; both drivers reserve; drivers' chat; "far"; bound `OneRefused` | rides and reservations, every way a ride ends, claims from the chat against live offers, from the line and from home; passengers' cancellations, whose trailing promotions read rows that are not flushed; the refinement |
| `dispatch_dispatcher` | 2 drivers, 2 orders of one dispatcher; "dislike", "need_address" | the shared FSM row: through stale markers, the hand-over of stale offers, cancellation and deadline no order is left searching without an offer |
| `dispatch_liveness` | 1 driver, 2 passengers; "dislike"; the driver reserves | no order is left waiting while a willing driver stands free |
| `components` | see below | the services, each under its own crashes, late callbacks and stale reads |
| `address_claim`, `cancel_reserved`, `stale_marker` | 1 or 2 drivers, 1 or 2 orders | disagreements of section 8 |
| `outbox_cancel_lost`, `timers_lock`, `route_timeout_race` | 2 messages; 2 timers; 2 drivers | disagreements of section 8 |

Why the bounds of `Dispatch` are enough to be interesting. The conflicts are pairwise: two offers
for a driver, a ride and an offer, a ride and a reservation, two orders of one creator, the
head of the queue and the order behind it. Two drivers and two orders reach all
of them; the fairness of the line needs a third driver (one passed over by two).
Features that multiply the states without meeting in the code (reservations and the address
dialogue, dispatchers and passengers) are checked in instances of their own, and the proofs
of section 7 have no bounds at all. `OneRefused` lets only the first order be refused, taken
from off the line or asked about; the second takes the same code earlier.

`components` is one instance of all the service modules. They share no variable, so a
behaviour is of one of them, chosen at the start (`focus`), while the others rest: the state
space is the sum of theirs, not the product, and says exactly what separate runs would.
Its bounds:

* Outbox: 2 messages, a cap of one unsent message (20 in the code). Messages meet in two
  places, the phases of the worker and the cap: one message with every operation and one that
  is only sent or dropped by the cap (`SecondIsPlain`) reach both.
* Timers: 1 key, 1 transaction, 3 schedulings. A timer, its replacement and the
  replacement of that one; more keys meet in `holder` only (`timers_lock` has two).
* Event loop: 2 processes, 2 shards, 2 slots, 2 events of any actors, 2 deliveries per process.
* Bookings: 1 passenger, 1 dispatcher, 2 drivers; 2 bookings, 2 rides, 2 debts, 1 reminder, and
  at most five rows together (`FewRows`: beside a second booking one ride and no debt, beside a
  second debt no reminder and no form).
* Deliveries: one order, 2 drivers, ordered by a passenger or a dispatcher.
* Village orders: one order, 2 drivers with one trip each (`MaxTrips`), one final chance
  (`MaxChances`); `OneOvertaken` leaves a taken or closed order alone and does not combine an
  open reading with refusals of free drivers, nor the half hour with trips.
* Chosen drivers: 2 passengers, 2 drivers; no counter.

What the properties say is written above each. The ones a reviewer would
look at first: `OfferExclusive`, `RideExclusive`, `NoOfferWhileRiding`,
`ReservationHasRide` (who has what), `ImplementsAssignment` (all of that at once, step by
step), `QueuedIsParked`, `SearchingIsOffered` (nothing is
lost), `CancelSticks`, `RideKept` (nothing is undone), `PlaceKept`,
`FirstInLineFirst` (the line is fair), `NotLeftWaiting` (liveness); `ArmedIsDurable`,
`EffectOnce`, `PendingExpires`, `AgreementBinds`, `TownIsFinal`, `PersonalStays` of the services.

`NoOfferWhileRiding`, `RideKept` and `CancelSticks` are checked in the
instances whose features keep them and refuted in the instances that do not (section 8);
the passing runs show that the named path is the only culprit within their bounds, and the theorems
of section 7 that nothing else is: they hold without the address dialogue, and with no
reservation of a dispatcher's order.
Properties that hold but for named events (`PendingExpires`, `DebtorIsLocked`, `BusyHasDelivery`,
`HoldIsHonoured`, `PersonalStays`) name them in the formula: within the bounds nothing else breaks them.

## 6. Fairness

`FairSpec` assumes weak fairness of the steps that run without a user:
`AcceptTimeout` (timer and watchdog), `ConfirmNo` (`_poll_timeout`),
`ChatTimeout`, `DispatcherUnclaimed`, `ParallelEtaTimeout` (timers) and
`RecoveryWorker` (every three seconds). The timers are rows of `scheduled_jobs`,
restored at start-up and retried after an error; a step's guard is the condition its
callback re-reads, so weak fairness is what a timer that eventually fires gives. No
fairness is assumed of any person. The counterpart is that `NotLeftWaiting` promises
nothing when every driver refuses, leaves or keeps riding, which is right.

The services state no liveness: a lost VK answer, a deleting row after a crash or a timer
whose number another order shares may stop the thing that should happen (section 8), so
what holds there are safety properties and action properties.

## 7. The proofs

`Dispatch_proofs` proves, for any sets of drivers, any number of orders, any creators
and settings:

* `Typing`: `Spec => []TypeOK`.
* `OneOfferPerDriver`: `Spec => []OfferExclusive`.
* `OfferEndsWithAssignment`: `Spec => []OfferedIsUnassigned` (proved only: no run checks it).
* `FreeDriversStand`: `Spec => []FreeDriverHasRow`.
* `PlacesStand`: `Spec => PlaceKept`.
* `QueueHoldsTheQueued`: `Spec => []QueuedIsParked`.
* `RefusalsStand`: `Spec => []NotOfferedAgain`.
* `BothLinesOrdered`: `Spec => []LinesOrdered`.
* `FirstServed`: `Spec => FirstInLineFirst`.

`Rides_proofs`, which goes on from there, proves under `Plain` (no refusal asks for a better
address, and there are no dispatchers or nobody who reserves orders):

* `OneRidePerDriver`: `Spec => []RideExclusive`.
* `RidersAreNotServed`: `Spec => []RiderNotFree`.
* `ReservationsHaveRides`: `Spec => []ReservationHasRide`.
* `RidersAreNotAsked`: `Spec => []NoOfferWhileRiding`.
* `OfferedAreReserved`: `Spec => []OfferedIsReserved`.
* `TimedOutAreLeft`: `Spec => TimedOutMovesOn`.
* `SearchesAreOffered`: `Spec => []SearchingIsOffered`.
* `RidesAreKept`: `Spec => RideKept`.
* `MenusStand`: `Spec => RideInMenuIsStable`.
* `Implements`: `Spec => ImplementsAssignment`.
* `CancellationsStand`: `Spec => CancelSticks`, with any refusals: for it only the second part of
  `Plain` is assumed.

Other assumptions: only those `Dispatch` declares (NULL is neither a driver nor an
order, `NOrders` is a natural number, every order has a creator, the settings
have their types).

The argument for the first three. `Good(s)` says of any record `s` (a state, or the intermediate value
of a handler) that it has the types of the columns, that no driver holds two
offers and that an offered order has no driver and no reservation. The last part is
what makes the second one inductive: an offer moves only through `Offer`, and `Offer` is
applied to a driver that the choice found free, hence without an offer in the
view it was chosen on. Where a handler chooses on flushed rows and writes
others (`Promotes(v, s)` with `v # s`), the offers of `s` have to be among those
of `v`: that is the relation `Fewer`, which every handler that uses a stale view
satisfies (it has only withdrawn offers since), and which is the real content of the
proof. `Keeps(s, t)` is the same fact about a helper that touches no offer.
There is one lemma per helper and one per action; `StepGood` assembles them and
`IInv == Good(db)` is the inductive invariant.

The line of drivers. Neither `FreeDriverHasRow` nor `PlaceKept` says enough to be kept by the
next step. `InLine(s)` does: whoever is on (`is_on_line`) has a row, whatever the status
shown; `ahead` relates two different drivers with rows, and any two of them in exactly one
direction. `is_on_line` is the point: an away driver keeps the row, and comes
to be shown as free again by many handlers that do not look at it. A handler is then one of three kinds. Most
keep the order of those who are in line (`Kept`, of a step `From`), those that take a
driver out included; `GoOnline` puts one driver to the tail (`JoinedBy`), and a claim
puts there a driver who was off the line or away (`ClaimedBy`). `LineStep` is what is common to
the three, and gives `PlaceKept` as well as the invariant.

The passenger queue. `Parked(s)` says that `pahead` orders the orders with a row (`Lined`) and, of
every order (`Place`), that it has a row exactly when it is queued, that a parked order is
nobody's, that only an order being searched for is offered, and not to a driver who has
refused it. The third part is the strengthening: an order that leaves the search by
one column and keeps its offer in the other would be parked with it later. A handler
breaks `Place` for the order it works on and mends it at its end, so the lemmas about helpers speak
of `Loose(s, o)`, the same for all orders but `o`, and the last one that touches `o` closes the
gap (`SettledQueued`). `Promotes(v, s)` needs nothing of the view `v` but its types here: what it takes from
the old rows is checked again in the new ones.

First come, first served. A handler may release a driver, offer one order to the next and
another one after it, so the property of the step has to be followed through the handler.
`InTurn(t)` says of the rows `t` reached so far that no offer made since the step began passes
a driver who was free then and still is idle (shown as free, with nothing to do: `Idle`), but one
who refused the order. It is about the free drivers of two moments, and a helper may spoil it in two ways: by making
somebody idle, or by changing the line between the two. `Harmless(s, t, d)` is
what every helper but `Offer` does: nobody but `d`, whose message is handled, becomes idle, and
nobody gets ahead of another. `Mine` says why `d` does no harm: either nothing has been offered so far, or `d` was
engaged before the step and is none of those the property is about. An
`Offer` takes the first of those its view shows as free, who include all that are `Still` idle. No invariant but those of
the offers and of the line is needed, and no assumption on the constants.

The rides. `Plain` covers the configuration of `dispatch_rides`, with any drivers,
orders, reservations, chat and refusals but "need_address", and that of dispatchers without
reservations. It is what the findings of section 8 leave: with the address dialogue, or a
dispatcher's cancellation of a reserved order, the statements about rides are false of the code.
`AtRest(s)` is the invariant. Every order `Fits`: a ride has a driver, whose row is `assigned` or gone;
a reservation names its driver in both columns; an offered order is searching, and its driver is
online and marked; no other order names anybody, except that a cancelled one keeps its driver. Rides and
reservations are `Single`, and a reservation has a ride of its driver beside it. And every order
is `Settled`: none is left `created`, or searching without an offer. The last part is broken
and mended inside almost every handler, so the lemmas on helpers speak of `Orderly`, which is
`AtRest` without it. The row is what excludes: an offer needs a row that says `offered`, a ride
one that says `assigned`, or none, so that to prove `NoOfferWhileRiding` is to follow the row
through every way to a ride (acceptance, list, chat, a reservation whose turn has
come). The difficult handlers are those that end a ride: they promote the driver's reservation, which
may have been refused meanwhile and is then handed on, to a driver or to the queue, and promote the
queue afterwards on rows they have not flushed.

A step is also judged by what it does to each order. `Goes(s, t, o)` lists the moves: an order stays,
closes, waits again (but not with the driver it was with), is reserved, becomes
a ride, or a ride of its reserver. `Reaches(s, t)` is `AtRest(t)` and `Goes` of every
order. Moves compose, so it is proved helper by helper as the invariant is. Only `CancelForCar` takes a ride from
its driver, and it has a relation of its own (`CarLeft`), under which nobody else's ride moves.
`RidesAreKept` follows at once, and so does the refinement: initial states map to initial states, each move in `Goes`
and `CarLeft` is a move of `Assignment`, what `AtRest` says of the new state is `Exclusive`, and a
step that moves no order is a stutter.

`CancelSticks` needs no `AtRest`. A passenger's cancellation takes the order out of every status from
which a promotion could take it, and the promotions that follow look at the status again (`Waits`), whatever
view they chose on. A dispatcher's cancellation looks for a reservation of the driver on the rows as they were
(the finding `cancel_reserved`); where nobody may reserve, there is none (`Unreserved`, an invariant of its own,
which needs nothing of the rest), and the order it has cancelled is left alone.

`Process_proofs` proves of the event loop, for any numbers of processes, shards, events and actors:

* `EventsTakeEffectOnce`: `LoopSpec => []EffectOnce`.
* `ActorsAreServedInOrder`: `LoopSpec => []ActorInOrder`.
* `LoopTypes`: `LoopSpec => []LoopTypeOK`.

Assumptions: actors are natural numbers, there is a shard and a slot. The argument. Neither
property is inductive. `LoopInv` adds what makes them so: an event has one effect if its
claim is committed and none otherwise (`Counted`); a thread that handles an event found no
claim (`Unclaimed`) and no other thread handles it (`OneHandler`, from the wait for the inserted key);
a queue holds numbers of deliveries in ascending order (`Sorted`), each of an actor of
that shard (`OfShard`), and a working thread has a head (`Busy`). Order follows from the
last three, single effect from the first three. One lemma per action. The types hold a bound:
a process has between 0 and `MaxPending` free slots. That is `Slotted`: free slots and
unfinished deliveries together always make `MaxPending`, so that no path through a failure,
a repeated event or a restart gives a slot back twice or keeps it.

The same module proves of the scheduler, for any finite set of keys and any transactions:

* `CommittedTimersSurvive`: `TimersSpec => []ArmedIsDurable`.
* `NothingFiresEarly`: `TimersSpec => FiresWhenDue`.
* `TimerTypes`: `TimersSpec => []TimersTypeOK`.

Assumptions: the set of keys is finite, the bound on tokens is a natural number. The
argument. What can go wrong is that a transaction takes the row of a timer that another one
has committed. `TimerInv` says why it cannot: transactions that work on a key exclude each
other, through the lock of the row (`Apart`); as soon as one of them has changed a key, in
memory or in the rows, the timer of the key is no committed one any more (`Replaced`); a timer
it has itself scheduled has its row written, or the statement is the next step of the call
(`Rewritten`), and a cancel that is at its row has left no entry (`Cancelled`). The thread that
deletes the row of a returned callback holds `_condition`, and nothing is armed under its
key (`Clearing`). Then `Durable`, the property itself, survives every commit, rollback, retry and
restart. `NothingFiresEarly` needs no invariant, only that no other action
starts a callback and that the key's entry is the token whose delay is over. The types need
`Pooled`: delays that are over are in the heap, and whoever holds `_condition` is a callback
that is clearing.

`Bookings_proofs` proves, for any users and any numbers of bookings, rides, debts and payments:

* `DebtorsStayLocked`: `BookingsSpec => []DebtorIsLocked`.
* `PassengersBookOnce`: `BookingsSpec => []OneActiveBooking`.
* `BookingsEndWithRides`: `BookingsSpec => []CompletedEndsBooking`.
* `WaitingBookingsExpire`: `BookingsSpec => PendingExpires`.
* `BookingTypes`: `BookingsSpec => []BookingsTypeOK`.

Assumptions: a user has one active role, and nobody is not a user; drivers on the line are
drivers; the bounds on bookings, rides, reminders and debts are natural numbers. The argument. `BookInv` holds
that whoever has a booking or rides is a driver (`Booked`, `Ridden`), so that a booking that is
given back is given back by its own driver and comes back under the guards of the code; that two
active bookings of a passenger are one (`Single`); and, of debts, that a transaction that will
lift a lock has seen every debt of the debtor but those made while it was open (`Healed`,
`Lifted`), which is what makes `DebtsLock` inductive. A payment lifts a lock in one
transaction and looks for other debts in it before: without `Lifted` the proof stops there,
and a debt made in between is the exception the property states. A second invariant,
`Paired`, says that bookings on their way have a ride each, their own, not completed: two
with the same ride would leave one behind when `mark_completed` deletes the other. The
timers need no invariant beyond these two: each action that publishes a booking arms its
expiry, and whatever else takes a timer away ends an order of that number. The types add that timers are
armed only for rows that exist, and rows made only within the bounds (`Rowed`).

`Outbox_proofs` proves, for any finite set of messages and any cap:

* `TypeCorrect`: `Spec => []TypeOK`.
* `SentIsShownAlways`: `Spec => []SentIsShown`.
* `GoneIsWithdrawnAlways`: `Spec => []GoneIsWithdrawn`.
* `WithdrawalStands`: `Spec => WithdrawalIsFinal`.

Assumptions: the set of messages is finite, the cap is positive. The argument. A
commit writes the changed columns on whatever the row has become, so the invariant
`MessageInv` has to follow each job from its read to its write. A job that will write `sent`
has seen the message on the screen, and only a delete job takes it from there (`SentJob`); a
delete job is on a withdrawn row and writes a withdrawn status (`DeleteJob`); a deliver
job on a message that is gone can write only its withdrawal (`GoneJob`); a critical row has
the status its job was claimed under (`CriticalJob`); a locked row has become what
a handler makes of it (`Locked`). The rows the cap drops are posted and not critical
(`Trimmed`), which is why the last theorem is about critical rows only. It needs the same
invariant and one lemma per kind of step.

`Services_proofs` proves of deliveries, for any drivers and customers:

* `BusyDriversDeliver`: `DeliveriesSpec => []BusyHasDelivery`.
* `AgreementStands`: `DeliveriesSpec => AgreementBinds`.
* `DeliveryTypes`: `DeliveriesSpec => []DeliveriesTypeOK`.

Assumptions: the customer of the delivery is no driver, nobody is nobody. The argument. A
stale transaction writes the status and the driver it has read. `DeliveryInv` adds that a
driver with an open transaction still has the order (`ReaderIsDriver`): the only transaction
that takes it from another driver is his own, or a cancellation that sets `overtaken`. What
the second theorem says of a stale price needs one more invariant (`PriceReader`): whoever has
read an order as agreed, to name a price for it, is asked for the price still, or the order has been closed
meanwhile. A price that had read the order before the agreement assigns `actuality_confirmed` the
value it has read, so the column is not written; a price that read it afterwards is a new one, and there
is no agreement to undo until it is answered. Nobody else's transaction can be open
(`ReaderIsDriver`), the timeout and the second answer read after they have the lock, and a claim needs
an order without a driver.

`RouteOffers_proofs` proves, for any drivers, trips and chances:

* `OffersEndWithTrips`: `RouteSpec => []OfferEndsWithTrip`.
* `TownStaysFinal`: `RouteSpec => TownIsFinal`.
* `RouteTypes`: `RouteSpec => []RouteTypeOK`.

Assumptions: the two bounds are natural numbers, nobody is not a driver. The argument. Two
handlers may work on the row, one of them on what it read before the other committed.
`RouteInv` says, in `Fits`, what the one that runs may hold: either its base is the row as it is,
and the offers of its work are true (`OnTrip`, `Asked`), or it is stale, and then it is on its
way to the town (`Townward`): it has dropped the automatic offer, it offers to nobody
before it has set the flag, and the row's own offers are true. What it commits in
either case is a true row. That a stale handler is never in any other place of the circle is
what makes both properties true, and is why `_route_offer_timeout` does no
more harm than section 8 says.

`Services_proofs` proves of orders for chosen drivers, for any passengers and drivers:

* `MarksHaveReasons`: `PersonalSpec => []MarkHasReason`.
* `HoldsAreHonoured`: `PersonalSpec => HoldIsHonoured`.
* `OrdersStayPersonal`: `PersonalSpec => PersonalStays`.
* `PersonalTypes`: `PersonalSpec => []PersonalTypeOK`.

Assumptions: nobody is not a driver. The argument. The mark is shared, so it is enough that
nobody is held twice (`OneHold`), that a driver has one task, a personal order or
another (`OneTask`), that who rides is marked as assigned (`Riding`), and that a passenger who
is still choosing has no order (`Ordering`). Then the end of a hold frees the driver's row
exactly when no offer needs the mark.

`Components_proofs` proves `ComponentTypes`: `Components => []TypesOK`, for the services together as
the run `components` has them. Each of them behaves there as it does alone
(`EachBehaves`: a step of the whole is a step or a stutter of each), so the theorems on types
above apply; and so do all the others.

Only model-checked:

* What the theorems about the rides exclude by `Plain` and nevertheless holds in instances: in
  `dispatch_address`, `NoOfferWhileRiding`, `OfferedIsReserved`, `TimedOutMovesOn` and the refinement
  under the address dialogue without reservations; in `dispatch_dispatcher`, `SearchingIsOffered` under it.
* Liveness (`NotLeftWaiting`), whose proof needs ENABLED and fairness reasoning that is out of the
  prover's reach.

## 8. Where the code and its promises disagree

Each of these is a run that TLC refutes, with a short trace.

* `address_claim` (`RideKept`). `passenger_update_address` never looks at the status
  of the order. A driver claims the order from the pending list while its
  passenger is typing; the text then turns the ride into a searched order that still
  names its driver, whom nothing tells.
* `cancel_reserved` (`CancelSticks`). `disp_cancel_order` of a reserved order asks
  for the driver's reservation before its own change is flushed, finds the order it
  is cancelling and promotes it: the dispatcher reads "cancelled" and the driver
  drives.
* `stale_marker` (`NoOfferWhileRiding`). After "need_address" a dispatcher's order
  is in `created` with no offered driver, and `_current_offer` falls back on the
  marker of the dispatcher's FSM row, which another order of the same dispatcher
  has set. The driver can accept the old card, and has a ride and an offer until the
  next message repairs it.

* `outbox_cancel_lost` (`CancelRequestHeld`). A handler withdraws a message that is being
  sent; its transaction is open when the job re-reads the row, so the job still sees
  `sending`, and writes `sent` or `failed` over the `cancel_requested` the handler commits
  meanwhile. The handler has been told that the card will go; it stays, or is even sent after.

* `timers_lock` (`LaterScheduleProceeds`). `_safe_run` deletes the row of a finished timer
  with `_condition` held. A transaction that has deleted that row by `cancel`
  and calls `schedule` or `cancel` again (of another timer, too) waits for `_condition`, while the deletion waits for its row. The database does not see the cycle,
  and the scheduler's thread needs `_condition` as well: no timer fires any more.
* `route_timeout_race` (`OneWinner`). `_route_offer_timeout` reads the order, then locks it;
  the locking query returns the object as read. A driver who accepts in between is overruled:
  the order is reserved by him and handed on at once.

Three more in `Outbox` are reachable and have no run of their own. A deletion whose process or
database dies leaves the row in `deleting`, which neither a claim nor `start_worker` looks at.
A card finalized while it is being sent is in `finalize_requested`; if the process dies before
the send, nothing sends it any more. And a message cancelled at start-up (`cancel_requested`
without an id) whose event comes afterwards stays on the screen, because the event revives only
rows marked undeletable. They are why no liveness of settling is claimed.

Two more in `Dispatch`, of the same roots, are in the reachable states and have no run of their own: the
late address text of a reserved order can put it in the place of the ride in
the driver's menu, and a card left by a driver whose car broke down hides the order
from the busy drivers although `available` promises to show it.

Of the services, reachable in the models and without a run of their own:

* `timers.cancel_all_for_order(n)` cancels the expiry of booking n and the reminder of debt n
  (the exception in `PendingExpires`).
* The failed callback of a replaced timer schedules itself again over the newer one
  (`bot/timers.py:85`); a roll-back leaves memory and rows apart until the timer fires.
* A booking whose ride was cancelled as an ordinary one stays `driver_en_route`; its later
  cancellation closes the order again, frees a driver who may have another ride, and makes a
  second debt. A booking published without a configured chat never expires.
* A debt made while the payment of another is being committed leaves its debtor unlocked (the
  exception in `DebtorIsLocked`).
* A cancelled delivery can be written back by a price, a purchase or an end that had read it
  before; a delivery taken from the chat completes without a price; a press on the card of an earlier
  price, committed while the next price is, agrees to a sum the customer has not seen (the agreement
  stands, `AgreementBinds`; the sums are not in the model); `_decline` cancels although
  `bot/delivery_service.py:14` says the order goes to the next driver; agreement on the card
  of a driver who broke down gives an order "assigned" to nobody; a cancellation that had read
  the order before it was taken leaves the driver busy (`overtaken`).
* The circle of functions that passes a village order on does not end when the only waiting
  driver of the village has refused it and stays (`Overflows`). A late `decline` of an automatic
  offer cancels the timer of the offer made after it. The dispatcher's deadline closes an order
  that was taken after it read it. A driver on his way who was passed over because somebody waited in the
  village is not asked when that one leaves.
* An order for a chosen driver goes to others when he claims another order in the chat or
  breaks down (the exceptions in `PersonalStays`), although refusals never pass it on. A
  held driver who uses the menu of the lines or claims in the chat ends the hold without
  the passenger's knowledge (the exceptions in `HoldIsHonoured`).

## 9. What is not modelled

* Counters and durations: abuse limits, blocks, temporary drivers, the waiting fee and prices.
  Each is local to one row and compared with the clock or computed from decimals; no
  step of the protocol depends on another's result.
* Texts, keyboards, streets, maps, statistics, reviews, tips, broadcast, migrations: no
  protocol state. Away notices only send messages.
* The positions of a driver on several lines at once: `Dispatch` has one universal line, and
  `RouteOffers` the choice between the village's and the town's without positions.
* Two transactions inside one another on an ordinary order. `Dispatch` takes a handler as one
  step; the reads before a lock are modelled where they are in a delivery's or a
  village order's handlers.
* What the first half of a handler that raised leaves in the rows (`handle_message` commits it).
* Events without `random_id`, uploads and profile look-ups of the VK client.
* In `PersonalOrders`, the passenger's ordinary order during a hold, bans and car data; in
  `Bookings`, the four handlers no command reaches (`driver_mark_booking_unclaimed`,
  `driver_mark_chat_order_unclaimed`, `driver_cancel_order`, `driver_cancel_passenger_order`).
