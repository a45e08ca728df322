------------------------------ MODULE Dispatch ------------------------------
(***************************************************************************)
(* The dispatcher of the taxi bot: how an order finds a driver.            *)
(*                                                                         *)
(* Free drivers stand in one FIFO line (drivers_queue).  An order is       *)
(* offered to the first of them, who accepts, declines or lets the offer   *)
(* time out; with nobody free it is parked in a second FIFO line           *)
(* (passenger_queue), or published in the drivers' chat.  A driver on a    *)
(* ride may reserve one parked order as the next ride (a parallel order).  *)
(*                                                                         *)
(* The bot runs one event (a VK message, a timer, a pass of a worker) as   *)
(* one database transaction, so a step of this module is one event.  The   *)
(* state is the database: `db' is a record of the columns the dispatcher   *)
(* reads, and a handler is an operator from one such record to another.    *)
(* The sessions do not autoflush: a query in the middle of a handler sees  *)
(* the rows as last flushed.  Where the two differ a handler takes the     *)
(* flushed rows `v' (the view) besides the rows in memory `s'.             *)
(*                                                                         *)
(* One universal line (Gornozavodsk) and regular orders: the village       *)
(* lines, deliveries and orders for a chosen driver are not in this        *)
(* module.  Cars are complete, edits of sent VK messages succeed.          *)
(***************************************************************************)
EXTENDS Naturals

CONSTANTS
    Drivers,        \* users with the driver role
    NONE,           \* SQL NULL
    NOrders,        \* bound: how many orders are ever created
    CreatorOf,      \* the passenger or dispatcher who creates each order
    Dispatchers,    \* the creators that are dispatchers
    ChatPeer,       \* whether driver_fallback_chat_peer_id is configured
    DeclineReasons, \* the buttons of the decline menu the drivers use
    ParallelUsers   \* the drivers that reserve parallel orders

Orders == 1..NOrders    \* ids are serial: a larger id is a newer order
Creators == {CreatorOf[o] : o \in Orders}
Reasons == {"far", "booking", "need_address", "away", "dislike"}

ASSUME NoneAssumption == NONE \notin Drivers /\ NONE \notin Orders
ASSUME NOrdersAssumption == NOrders \in Nat
ASSUME CreatorAssumption == DOMAIN CreatorOf = Orders
ASSUME BehaviourAssumption ==
    /\ Dispatchers \subseteq Creators
    /\ ChatPeer \in BOOLEAN
    /\ DeclineReasons \subseteq Reasons
    /\ ParallelUsers \subseteq Drivers

VARIABLE db

Riding == {"assigned", "arrived", "in_progress"}
Closed == {"completed", "cancelled"}
Candidate == {"created", "queued", "no_drivers"}   \* PARALLEL_CANDIDATE_STATUSES
Pending == Candidate \cup {"searching", "chat_search"}
Statuses == {"unborn", "parallel_assigned"} \cup Riding \cup Closed \cup Pending

\* The columns.  Positions of the two queues are strict orders: <<x, y>> in
\* `ahead' when x has the smaller position.
Rows == [
    status: [Orders -> Statuses],
    driver: [Orders -> Drivers \cup {NONE}],      \* driver_id
    offered: [Orders -> Drivers \cup {NONE}],     \* offered_driver_id
    parallel: [Orders -> Drivers \cup {NONE}],    \* parallel_driver_id
    declined: [Orders -> SUBSET Drivers],         \* declined_driver_ids
    special: [Orders -> BOOLEAN],    \* "far" is among decline_reasons_json
    confirmed: [Orders -> BOOLEAN],  \* actuality_confirmed
    temp: [Orders -> BOOLEAN],       \* chat_driver_was_offline
    card: [Orders -> BOOLEAN],       \* offer_outbox_id is set
    peta: [Orders -> BOOLEAN],       \* parallel_eta is set
    chatcard: [Orders -> BOOLEAN],   \* chat_take buttons for it were sent
    deadline: [Orders -> BOOLEAN],   \* timer dispatcher_unclaimed is pending
    row: [Drivers -> {"none", "waiting", "offered", "assigned", "away"}],
    dstat: [Drivers -> {"offline", "online", "away", "busy"}],
    online: [Drivers -> BOOLEAN],    \* is_on_line
    ahead: SUBSET (Drivers \X Drivers),
    pq: [Orders -> {"none", "waiting", "polling"}],
    pahead: SUBSET (Orders \X Orders),
    current: [Creators -> Drivers \cup {NONE}],   \* FSM data current_offer
    address: [Creators -> Orders \cup {NONE}] ]   \* FSM P_NEW_ADDRESS, its order_id

Init == db = [
    status |-> [o \in Orders |-> "unborn"],
    driver |-> [o \in Orders |-> NONE],
    offered |-> [o \in Orders |-> NONE],
    parallel |-> [o \in Orders |-> NONE],
    declined |-> [o \in Orders |-> {}],
    special |-> [o \in Orders |-> FALSE],
    confirmed |-> [o \in Orders |-> FALSE],
    temp |-> [o \in Orders |-> FALSE],
    card |-> [o \in Orders |-> FALSE],
    peta |-> [o \in Orders |-> FALSE],
    chatcard |-> [o \in Orders |-> FALSE],
    deadline |-> [o \in Orders |-> FALSE],
    row |-> [d \in Drivers |-> "none"],
    dstat |-> [d \in Drivers |-> "offline"],
    online |-> [d \in Drivers |-> FALSE],
    ahead |-> {},
    pq |-> [o \in Orders |-> "none"],
    pahead |-> {},
    current |-> [c \in Creators |-> NONE],
    address |-> [c \in Creators |-> NONE] ]

ByDispatcher(o) == CreatorOf[o] \in Dispatchers

\* The order of A with the largest (the smallest) id, NONE when A is empty.
Newest(A) ==
    LET last == {o \in A : \A p \in A : p <= o}
    IN IF last = {} THEN NONE ELSE CHOOSE o \in last : TRUE

Oldest(A) ==
    LET first == {o \in A : \A p \in A : o <= p}
    IN IF first = {} THEN NONE ELSE CHOOSE o \in first : TRUE

(***************************************************************************)
(* queue_service: the line of drivers                                      *)
(***************************************************************************)
LeaveQueue(s, d) ==
    [s EXCEPT !.row[d] = "none", !.dstat[d] = "offline",
              !.ahead = {p \in @ : p[1] # d /\ p[2] # d}]

\* Mutants of JoinQueue: the old position is kept besides the new one; a driver
\* without a row gets none.
JoinKeepsPlace(s, d) ==
    [s EXCEPT !.row[d] = "waiting", !.dstat[d] = "online",
              !.ahead = @ \cup {<<e, d>> : e \in {e \in Drivers \ {d} : s.row[e] # "none"}}]
JoinOnlyUpdates(s, d) ==
    [s EXCEPT !.row[d] = IF @ = "none" THEN @ ELSE "waiting", !.dstat[d] = "online"]

\* join_queue and return_from_away: free, at the tail.
JoinQueue(s, d) ==
    [s EXCEPT !.row[d] = "waiting", !.dstat[d] = "online",
              !.ahead = {p \in @ : p[1] # d /\ p[2] # d} \cup
                        {<<e, d>> : e \in {e \in Drivers \ {d} : s.row[e] # "none"}}]

SetAway(s, d) ==
    [s EXCEPT !.row[d] = IF @ = "none" THEN @ ELSE "away", !.dstat[d] = "away"]

\* Mutant of MarkAssigned: the row stays as it was.
MarkAssignedKeepsRow(s, d) == [s EXCEPT !.dstat[d] = "busy"]

MarkAssigned(s, d) ==
    [s EXCEPT !.row[d] = IF @ = "none" THEN @ ELSE "assigned", !.dstat[d] = "busy"]

\* Mutant of ReleaseOffer: a refusal sends the driver to the tail.
ReleaseToTail(s, d) == JoinQueue(s, d)

ReleaseOffer(s, d) ==
    [s EXCEPT !.row[d] = IF @ = "offered" THEN "waiting" ELSE @,
              !.dstat[d] = IF @ = "away" THEN @ ELSE "online"]

RestorePosition(s, d) ==
    [s EXCEPT !.row[d] = IF @ = "none" THEN @ ELSE "waiting",
              !.dstat[d] = IF s.row[d] = "none" THEN "offline" ELSE "online"]

HasOffer(v, d) == \E o \in Orders : v.status[o] = "searching" /\ v.offered[o] = d

\* Mutant of Engaged: offers are not counted.
EngagedByRideOnly(v, d) ==
    \E o \in Orders : v.status[o] \in Riding \cup {"parallel_assigned"} /\ v.driver[o] = d

\* Drivers the dispatch queries leave out whatever their queue row says.
Engaged(v, d) ==
    \/ HasOffer(v, d)
    \/ \E o \in Orders : /\ v.status[o] \in Riding \cup {"parallel_assigned"}
                         /\ v.driver[o] = d
    \/ \E o \in Orders : v.status[o] = "parallel_assigned" /\ v.parallel[o] = d

\* _repair_visibly_free_drivers: a driver shown as free gets a free row.  It
\* selects the drivers in the view and changes the rows in memory.
Repair(v, s) ==
    LET free == {d \in Drivers : v.online[d] /\ v.dstat[d] = "online" /\ ~Engaged(v, d)}
        missing == {d \in free : s.row[d] = "none"}
    IN [s EXCEPT !.row = [d \in Drivers |-> IF d \in free THEN "waiting" ELSE s.row[d]],
                 !.ahead = @ \cup ({d \in Drivers : s.row[d] # "none"} \X missing)]

Free(v) == {d \in Drivers : /\ v.row[d] = "waiting"
                            /\ v.online[d]
                            /\ v.dstat[d] = "online"
                            /\ ~Engaged(v, d)}

\* Mutants of NextWaiting: the exclusions are ignored; the order is reversed.
NextWaitingAny(v, excluded) ==
    LET first == {d \in Free(v) : \A e \in Free(v) \ {d} : <<d, e>> \in v.ahead}
    IN IF first = {} THEN NONE ELSE CHOOSE d \in first : TRUE
NextWaitingLast(v, excluded) ==
    LET able == Free(v) \ excluded
        last == {d \in able : \A e \in able \ {d} : <<e, d>> \in v.ahead}
    IN IF last = {} THEN NONE ELSE CHOOSE d \in last : TRUE

\* The free driver with the smallest position, NONE when there is none.
NextWaiting(v, excluded) ==
    LET able == Free(v) \ excluded
        first == {d \in able : \A e \in able \ {d} : <<d, e>> \in v.ahead}
    IN IF first = {} THEN NONE ELSE CHOOSE d \in first : TRUE

(***************************************************************************)
(* passenger_queue: the line of parked orders                              *)
(***************************************************************************)
Dequeue(s, o) == [s EXCEPT !.pq[o] = "none",
                           !.pahead = {p \in @ : p[1] # o /\ p[2] # o}]

\* Mutant of Enqueue: the order gets the status of its row.
EnqueueWaiting(s, o) ==
    IF s.pq[o] # "none" THEN s
    ELSE [s EXCEPT !.pq[o] = "waiting", !.status[o] = "waiting",
                   !.pahead = @ \cup {<<p, o>> : p \in {p \in Orders : s.pq[p] # "none"}}]

\* enqueue: an order already parked keeps its row and its status.
Enqueue(s, o) ==
    IF s.pq[o] # "none" THEN s
    ELSE [s EXCEPT !.pq[o] = "waiting", !.status[o] = "queued",
                   !.pahead = @ \cup {<<p, o>> : p \in {p \in Orders : s.pq[p] # "none"}}]

\* Mutant of ResetCreator: the address dialogue survives.
ResetCreatorKeepsAddress(s, o) == [s EXCEPT !.current[CreatorOf[o]] = NONE]

\* A change of the FSM state of the creator that drops the stored data.
ResetCreator(s, o) ==
    [s EXCEPT !.current[CreatorOf[o]] = NONE, !.address[CreatorOf[o]] = NONE]

\* pause_actuality_prompts: the visible questions of all but one order go.
PausePrompts(v, s, except) ==
    LET asked == {o \in Orders : v.pq[o] = "polling" /\ o # except}
        owners == {CreatorOf[o] : o \in asked}
    IN [s EXCEPT !.pq = [o \in Orders |-> IF o \in asked /\ s.pq[o] # "none"
                                          THEN "waiting" ELSE s.pq[o]],
                 !.current = [c \in Creators |-> IF c \in owners THEN NONE ELSE s.current[c]],
                 !.address = [c \in Creators |-> IF c \in owners THEN NONE ELSE s.address[c]]]

(***************************************************************************)
(* order_service: offering an order                                        *)
(***************************************************************************)
\* The owner of a pending offer: the durable column, else the FSM marker.
CurrentOffer(s, o) ==
    IF s.offered[o] # NONE THEN s.offered[o] ELSE s.current[CreatorOf[o]]

\* Mutant of Offer: the driver is not marked.
OfferUnmarked(s, o, d) ==
    [s EXCEPT !.status[o] = "searching", !.offered[o] = d, !.card[o] = TRUE,
              !.current[CreatorOf[o]] = d]

\* The successful end of offer_to_next_driver.  mark_offered cannot fail here:
\* a driver that is free in the view has a waiting row in memory.
Offer(s, o, d) ==
    LET offered == [s EXCEPT !.status[o] = "searching", !.offered[o] = d, !.card[o] = TRUE,
                             !.current[CreatorOf[o]] = d, !.row[d] = "offered"]
    IN PausePrompts(offered, offered, o)

\* Mutant of NoDriver: the order is not parked.
NoDriverUnparked(s, o) == [s EXCEPT !.status[o] = "no_drivers"]

\* The end of _handle_no_driver: park the order or publish it in the chat.
NoDriver(s, o) ==
    LET t == [s EXCEPT !.status[o] = "no_drivers"]
    IN IF ~ByDispatcher(o) /\ s.special[o]
       THEN IF ChatPeer
            THEN [t EXCEPT !.status[o] = "chat_search", !.chatcard[o] = TRUE]
            ELSE t
       ELSE Enqueue(t, o)

\* Mutant of Dispatchable: an order that is searched for already is left alone.
DispatchableUnlessSearching(s, o) ==
    /\ s.driver[o] = NONE
    /\ s.parallel[o] = NONE
    /\ s.status[o] \notin Riding \cup Closed \cup {"parallel_assigned", "searching"}

Dispatchable(s, o) ==
    /\ s.driver[o] = NONE
    /\ s.parallel[o] = NONE
    /\ s.status[o] \notin Riding \cup Closed \cup {"parallel_assigned"}
    /\ ~(s.status[o] = "searching" /\ s.offered[o] # NONE)

\* offer_to_next_driver.  When nobody is left after the temporary exclusions
\* _handle_no_driver looks once more, without them.
OfferNext(s, o, excluded) ==
    IF ~Dispatchable(s, o) THEN s
    ELSE LET r == Repair(s, s)
             d == NextWaiting(r, excluded \cup r.declined[o])
             e == NextWaiting(r, r.declined[o])
         IN IF d # NONE THEN Offer(r, o, d)
            ELSE IF e # NONE THEN Offer(r, o, e)
            ELSE NoDriver(r, o)

(***************************************************************************)
(* passenger_queue.try_promote: one parked order meets a free driver       *)
(***************************************************************************)
\* request_actuality_for_order and _poll: an order that has waited three
\* minutes is not offered before its passenger says that it still stands.
Asked(s, o) == [s EXCEPT !.pq[o] = "polling", !.address[CreatorOf[o]] = NONE]

\* Take the order out of the passenger queue and offer it.
Served(v, s, o) ==
    LET d == NextWaiting(v, s.declined[o])
        t == Offer(Dequeue(s, o), o, d)
    IN IF ByDispatcher(o) THEN t ELSE ResetCreator(t, o)

\* The outcomes for the parked order whose turn it is.  An order in another
\* state ends the pass.
Outcomes(v, s, o) ==
    LET asks == ~ByDispatcher(o) /\ ~s.confirmed[o]
        served == IF s.status[o] \in Candidate /\ s.driver[o] = NONE /\ s.parallel[o] = NONE
                  THEN Served(v, s, o) ELSE s
    IN {served} \cup
       (IF asks /\ s.status[o] = "queued" /\ s.pq[o] = "waiting" THEN {Asked(s, o)} ELSE {})

\* The parked orders listed in `list' that could have a driver in the view.
Servable(list, v, s) ==
    {o \in Orders : list.pq[o] = "waiting" /\ NextWaiting(v, s.declined[o]) # NONE}

Scan(list, v, s) ==
    LET able == Servable(list, v, s)
        first == {o \in able : \A p \in able \ {o} : <<o, p>> \in list.pahead}
    IN IF first = {} THEN {s} ELSE UNION {Outcomes(v, s, o) : o \in first}

\* try_promote on the flushed rows v and the rows in memory s: the possible
\* results.  A question nobody could serve any more is withdrawn first; a
\* repair of the line, which flushes, brings the view up to date.
Promotes(v, s) ==
    LET polled == {o \in Orders : v.pq[o] = "polling"}
        r == Repair(v, s)
        w == IF r = s THEN v ELSE r
        lost == \E o \in polled : NextWaiting(w, r.declined[o]) = NONE
    IN IF \A o \in Orders : v.pq[o] = "none" THEN {s}
       ELSE IF polled = {} THEN Scan(v, w, r)
       ELSE IF lost THEN Scan(w, w, PausePrompts(w, r, NONE))
       ELSE {r}

(***************************************************************************)
(* parallel_orders                                                         *)
(***************************************************************************)
Reserved(v, d) ==
    Oldest({o \in Orders : v.parallel[o] = d /\ v.status[o] = "parallel_assigned"})

\* promote_after_current: the reserved order becomes the ride.
PromoteAfter(v, s, d) ==
    LET o == Reserved(v, d)
    IN [s EXCEPT !.status[o] = "assigned", !.driver[o] = d, !.parallel[o] = NONE,
                 !.peta[o] = FALSE]

\* _release, up to its try_promote: a reserved order is parked again.
Release(s, o) ==
    LET t == Enqueue([s EXCEPT !.parallel[o] = NONE, !.peta[o] = FALSE, !.driver[o] = NONE,
                               !.status[o] = "queued"], o)
    IN [t EXCEPT !.pq[o] = "waiting"]

(***************************************************************************)
(* What the handlers ask of a driver and of a creator                      *)
(***************************************************************************)
\* Mutant of ActiveOf: a reserved order counts as the ride.
ActiveOfReserved(s, d) ==
    {o \in Orders : s.driver[o] = d /\ s.status[o] \in
                    Riding \cup {"created", "queued", "searching", "chat_search",
                                "parallel_assigned"}}

ActiveOf(s, d) ==
    {o \in Orders : s.driver[o] = d /\ s.status[o] \in
                    Riding \cup {"created", "queued", "searching", "chat_search"}}

\* active_order_for a driver: the newest one.
ActiveRide(s, d) == Newest(ActiveOf(s, d))

\* offered_order_for: the oldest request waiting for this driver's answer.
PendingOffer(s, d) ==
    Oldest({o \in Orders : s.status[o] = "searching" /\ s.offered[o] = d /\ s.driver[o] = NONE})

\* active_order_for a passenger: the newest one.
OrderOf(s, c) ==
    Newest({o \in Orders : /\ CreatorOf[o] = c
                           /\ s.status[o] \in Riding \cup {"created", "queued", "searching",
                                                           "chat_search", "parallel_assigned"}})

\* What active_order_for changes besides: a promoted order that still carries
\* its reservation becomes an ordinary ride of the driver.
Adopt(s, d) ==
    LET legacy == Newest({o \in Orders : /\ s.parallel[o] = d /\ s.driver[o] = NONE
                                         /\ s.status[o] \in Riding})
        t == IF legacy # NONE /\ ActiveRide(s, d) = NONE
             THEN [s EXCEPT !.driver[legacy] = d] ELSE s
        ride == ActiveRide(t, d)
    IN IF ride # NONE /\ t.parallel[ride] = d
       THEN [t EXCEPT !.parallel[ride] = NONE, !.peta[ride] = FALSE]
       ELSE t

\* Every message of a driver first hands an offer that came during a ride to
\* somebody else (_release_stale_offer_for_active_ride).
ReleaseStale(s, d) ==
    LET o == PendingOffer(s, d)
        ride == ActiveRide(s, d)
    IN IF o = NONE \/ ride = NONE \/ o = ride THEN s
       ELSE OfferNext(MarkAssigned([s EXCEPT !.offered[o] = NONE, !.status[o] = "created",
                                             !.card[o] = FALSE], d), o, {d})

\* Mutants of MenuOpen: only the offer, or only the ride, locks the menu.
MenuOpenWhileRiding(s, d) == PendingOffer(s, d) = NONE
MenuOpenDuringOffer(s, d) == ActiveRide(s, d) = NONE

\* A menu command is refused while an offer waits for the driver's answer or
\* the driver has a ride.
MenuOpen(s, d) == PendingOffer(s, d) = NONE /\ ActiveRide(s, d) = NONE
\* A command about the ride: refused by the offer lock only.
OnRide(s, d) == PendingOffer(s, d) = NONE /\ ActiveRide(s, d) # NONE

\* Where the handler of a driver's message starts from.
Begin(d) == ReleaseStale(Adopt(db, d), d)

\* The columns of a closed order that nobody reads again are forgotten.  (The
\* driver would be read by UpdateAddress alone, see CancelForCar.)
ForgetSearch(s, o) ==
    [s EXCEPT !.declined[o] = {}, !.special[o] = FALSE, !.confirmed[o] = FALSE,
              !.chatcard[o] = FALSE, !.deadline[o] = FALSE]
ForgetRide(s, o) == [s EXCEPT !.temp[o] = FALSE, !.card[o] = FALSE, !.peta[o] = FALSE]
Close(s, o, status) ==
    [ForgetRide(ForgetSearch(s, o), o) EXCEPT !.status[o] = status, !.driver[o] = NONE]

\* The creator of a closed order goes back to the menu; a dispatcher's dialogue
\* is not touched.  A passenger who owes for a false call is locked out of it
\* and goes to the menu after paying.
CloseFor(s, o, status) ==
    IF ByDispatcher(o) THEN Close(s, o, status) ELSE ResetCreator(Close(s, o, status), o)

(***************************************************************************)
(* The driver and the line                                                 *)
(***************************************************************************)
\* Any message without an effect of its own.
DriverMessage(d) == db' = Begin(d) /\ db' # db

\* driver_go_online, set_driver_line, stay_line: the same on the one line.
GoOnline(d) ==
    LET s == Begin(d)
        t == [JoinQueue(s, d) EXCEPT !.online[d] = TRUE]
    IN /\ MenuOpen(s, d)
       /\ db' \in Promotes(t, t)

\* driver_go_offline, leave_line.
GoOffline(d) ==
    LET s == Begin(d)
    IN /\ MenuOpen(s, d)
       /\ db' = [LeaveQueue(s, d) EXCEPT !.online[d] = FALSE]

GoAway(d) ==
    LET s == Begin(d)
    IN /\ MenuOpen(s, d)
       /\ db' = SetAway(s, d)

\* driver_away_timeout_service.expire, thirty minutes later.
AwayExpire(d) ==
    /\ db.dstat[d] = "away"
    /\ db' = [LeaveQueue(db, d) EXCEPT !.online[d] = FALSE]

(***************************************************************************)
(* The creator of an order                                                 *)
(***************************************************************************)
\* create_passenger_order, repeat_order: only with no active order.
CreateOrder(o) ==
    LET s == ResetCreator([db EXCEPT !.status[o] = "created"], o)
    IN /\ db.status[o] = "unborn"
       /\ \A p \in 1..(o - 1) : db.status[p] # "unborn"
       /\ ~ByDispatcher(o)
       /\ OrderOf(db, CreatorOf[o]) = NONE
       /\ db' = OfferNext(s, o, {})

\* disp_create_order_from_draft, with its thirty-minute timer.
DispCreate(o) ==
    LET s == ResetCreator([db EXCEPT !.status[o] = "created", !.deadline[o] = TRUE], o)
    IN /\ db.status[o] = "unborn"
       /\ \A p \in 1..(o - 1) : db.status[p] # "unborn"
       /\ ByDispatcher(o)
       /\ db' = OfferNext(s, o, {})

\* Mutant of UpdateAddress: a row in the passenger queue stays.
UpdateAddressKeepsRow(c) ==
    LET o == db.address[c]
        s == ResetCreator([db EXCEPT !.offered[o] = NONE, !.status[o] = "searching"], o)
    IN /\ o # NONE
       /\ db' = OfferNext(s, o, {})

\* passenger_update_address: the passenger's next text after need_address.
UpdateAddress(c) ==
    LET o == db.address[c]
        s == ResetCreator(Dequeue([db EXCEPT !.offered[o] = NONE, !.status[o] = "searching"], o), o)
    IN /\ o # NONE
       /\ db' = OfferNext(s, o, {})

\* cancel_flow: the passenger leaves the question unanswered.
LeaveDialogue(c) ==
    /\ db.address[c] # NONE
    /\ db' = [db EXCEPT !.address[c] = NONE, !.current[c] = NONE]

\* Mutant of Relieve: the reservation is forgotten.
RelieveInPlace(v, s, d) == RestorePosition(s, d)

\* The driver of a cancelled ride: on to the reserved order, or free in place.
Relieve(v, s, d) ==
    IF Reserved(v, d) # NONE THEN PromoteAfter(v, s, d) ELSE RestorePosition(s, d)

\* Mutant of PassengerCancel: a reserved order relieves its driver like a ride, as
\* disp_cancel_order has it.
PassengerCancelRelieves(c) ==
    LET o == OrderOf(db, c)
        d == db.driver[o]
        s == Dequeue(CloseFor(db, o, "cancelled"), o)
    IN /\ o # NONE
       /\ ~ByDispatcher(o)
       /\ db.status[o] # "in_progress"
       /\ IF d = NONE
          THEN LET t == IF db.offered[o] = NONE THEN s
                        ELSE [ReleaseOffer(s, db.offered[o]) EXCEPT !.offered[o] = NONE]
               IN db' \in Promotes(db, t)
          ELSE LET t == Relieve(db, s, d) IN \E v \in {db, t} : db' \in Promotes(v, t)

\* passenger_cancel.  It does not flush before try_promote, unless it records a
\* false call (the ride was cancelled past the grace period).
PassengerCancel(c) ==
    LET o == OrderOf(db, c)
        d == db.driver[o]
        s == Dequeue(CloseFor(db, o, "cancelled"), o)
        free == [s EXCEPT !.parallel[o] = NONE, !.driver[o] = NONE]
    IN /\ o # NONE
       /\ ~ByDispatcher(o)
       /\ db.status[o] # "in_progress"
       /\ IF d = NONE
          THEN LET t == IF db.offered[o] = NONE THEN s
                        ELSE [ReleaseOffer(s, db.offered[o]) EXCEPT !.offered[o] = NONE]
               IN db' \in Promotes(db, t)
          ELSE IF db.parallel[o] # NONE THEN db' \in Promotes(db, free)
          ELSE LET t == Relieve(db, s, d) IN \E v \in {db, t} : db' \in Promotes(v, t)

\* disp_cancel_order.
DispCancel(o) ==
    LET d == db.driver[o]
        s == Dequeue(Close(db, o, "cancelled"), o)
    IN /\ ByDispatcher(o)
       /\ db.status[o] \in Riding \cup {"created", "searching", "queued", "chat_search",
                                        "parallel_assigned"}
       /\ IF d # NONE THEN db' = Relieve(db, s, d)
          ELSE IF db.offered[o] # NONE
          THEN db' = [ReleaseOffer(s, db.offered[o]) EXCEPT !.offered[o] = NONE]
          ELSE db' = s

\* _dispatcher_unclaimed_timeout: nobody took the order in thirty minutes.
DispatcherUnclaimed(o) ==
    LET off == db.offered[o]
        s == IF off = NONE THEN db ELSE ReleaseOffer(db, off)
        open == /\ db.driver[o] = NONE /\ db.parallel[o] = NONE
                /\ db.status[o] \in Pending
    IN /\ db.deadline[o]
       /\ db' = IF open
                THEN Dequeue(Close([s EXCEPT !.offered[o] = NONE], o, "cancelled"), o)
                ELSE [db EXCEPT !.deadline[o] = FALSE]

\* _driver_chat_timeout: nobody took it from the chat in 45 minutes.
ChatTimeout(o) ==
    /\ db.status[o] = "chat_search"
    /\ db' = CloseFor(db, o, "cancelled")

\* cancel_from_admin, run by the web process.
AdminCancel(o) ==
    LET prev == db.status[o]
        off == db.offered[o]
        d == db.driver[o]
        Restore(s, e) ==
            IF s.row[e] = "none" THEN [s EXCEPT !.dstat[e] = "offline"]
            ELSE IF s.online[e] THEN [s EXCEPT !.row[e] = "waiting", !.dstat[e] = "online"]
            ELSE s
        s == ResetCreator(Dequeue(Close(db, o, "cancelled"), o), o)
        t == IF off = NONE THEN s ELSE Restore(s, off)
        u == IF d = NONE \/ d = off \/ prev \notin Riding THEN t
             ELSE IF Reserved(db, d) # NONE THEN PromoteAfter(db, t, d)
             ELSE Restore(t, d)
    IN /\ prev \notin Closed \cup {"unborn"}
       /\ db' = [u EXCEPT !.offered[o] = NONE, !.parallel[o] = NONE]

(***************************************************************************)
(* An offer: its answer, or none                                           *)
(***************************************************************************)
\* driver_accept.  The card becomes the menu of arrival times.
Accept(d, o) ==
    LET s == Begin(d)
    IN /\ s.status[o] \in {"searching", "created"}
       /\ CurrentOffer(s, o) = d
       /\ s.online[d]
       /\ db' = MarkAssigned([s EXCEPT !.offered[o] = NONE, !.driver[o] = d,
                                       !.status[o] = "assigned", !.card[o] = TRUE,
                                       !.deadline[o] = FALSE], d)

\* driver_decline up to the reason: the offer ends, the driver is free in place.
Declined(s, d, o) ==
    [ReleaseOffer(s, d) EXCEPT !.offered[o] = NONE, !.card[o] = FALSE,
                               !.current[CreatorOf[o]] = NONE]

Decline(d, o, reason) ==
    LET s == Begin(d)
        t == Declined(s, d, o)
        next == [t EXCEPT !.declined[o] = @ \cup {d}]
        far == [next EXCEPT !.special[o] = TRUE]
        cancelled == Dequeue(CloseFor(t, o, "cancelled"), o)
        \* «Не хватает адреса»: only a passenger's dialogue takes the answer.
        asking == [t EXCEPT !.status[o] = "created",
                            !.address[CreatorOf[o]] = IF ByDispatcher(o) THEN @ ELSE o]
        Passed(r) == LET u == OfferNext(r, o, {}) IN Promotes(u, u)
    IN /\ s.status[o] = "searching"
       /\ CurrentOffer(s, o) = d
       /\ CASE reason = "booking" -> db' \in Promotes(cancelled, cancelled)  \* and «Спам»
            [] reason = "need_address" -> db' \in Promotes(asking, asking)
            [] reason = "away" -> db' = OfferNext(SetAway(next, d), o, {})
            [] reason = "dislike" -> db' \in Passed(next)
            [] reason = "far" -> db' \in Passed(far)                   \* and «Доставка»

\* Mutant of AcceptTimeout: the driver is only released, and stays in the line.
AcceptTimeoutReleases(o) ==
    LET d == db.offered[o]
        s == [ReleaseOffer(db, d) EXCEPT !.offered[o] = NONE, !.card[o] = FALSE,
                                         !.current[CreatorOf[o]] = NONE]
        t == OfferNext(s, o, {d})
    IN /\ db.status[o] = "searching"
       /\ d # NONE
       /\ db' \in Promotes(t, t)

\* _accept_timeout, run by its timer or by the watchdog.  The driver is off the
\* line, which alone keeps the order from coming back to the same driver.
AcceptTimeout(o) ==
    LET d == db.offered[o]
        s == [LeaveQueue(db, d) EXCEPT !.online[d] = FALSE, !.offered[o] = NONE,
                                       !.card[o] = FALSE, !.current[CreatorOf[o]] = NONE]
        t == OfferNext(s, o, {d})
    IN /\ db.status[o] = "searching"
       /\ d # NONE
       /\ db' \in Promotes(t, t)

(***************************************************************************)
(* Claims of an order that is not offered                                  *)
(***************************************************************************)
\* The order leaves the passenger queue and becomes the driver's ride; a driver
\* off the line, or away, comes back on it first.
Claim(s, d, o, back) ==
    LET j == IF back THEN [JoinQueue(s, d) EXCEPT !.online[d] = TRUE] ELSE s
    IN MarkAssigned([Dequeue(j, o) EXCEPT !.offered[o] = NONE, !.driver[o] = d,
                                          !.status[o] = "assigned", !.deadline[o] = FALSE], d)

\* driver_take_pending, from the list of pending orders.
TakePending(d, o) ==
    LET s == Begin(d)
        back == s.dstat[d] \in {"offline", "away"} \/ ~s.online[d]
    IN /\ MenuOpen(s, d)
       /\ s.status[o] \in Pending
       /\ s.driver[o] = NONE /\ s.parallel[o] = NONE /\ s.offered[o] = NONE
       /\ db' = [Claim(s, d, o, back) EXCEPT !.parallel[o] = NONE, !.temp[o] = FALSE,
                                             !.card[o] = TRUE]

\* Mutant of ChatOpen: the order is not looked at again.
ChatOpenAnyOrder(s, d, o) == ActiveRide(s, d) \in {NONE, o}

\* What driver_take_from_chat asks of the driver and of the order.
ChatOpen(s, d, o) ==
    /\ ActiveRide(s, d) \in {NONE, o}
    /\ s.driver[o] \in {NONE, d}
    /\ s.status[o] \notin Riding \cup Closed \cup {"parallel_assigned"}

\* driver_take_from_chat on the rows s, with the driver's other offer dropped
\* from them already, and offered on afterwards.
Taken(s, d, o, other) ==
    LET temp == ~s.online[d]
        t == [Claim(s, d, o, temp \/ s.dstat[d] = "away") EXCEPT !.temp[o] = temp,
                                                                 !.card[o] = TRUE]
    IN IF other = NONE THEN t ELSE OfferNext(t, other, {})

\* Mutant of ChatTake: the offer on the driver's screen is forgotten.
ChatTakeKeepsOffer(d, o) ==
    LET s == Adopt(db, d)
    IN /\ s.status[o] = "chat_search"
       /\ s.chatcard[o]
       /\ ChatOpen(s, d, o)
       /\ db' = Taken(s, d, o, NONE)

\* The card in the drivers' chat.  Not even an offer on the driver's screen
\* keeps the driver from it; a dead reservation is dropped before.
ChatTake(d, o) ==
    LET s == Adopt(db, d)
        p == PendingOffer(s, d)
        dead == [s EXCEPT !.offered[p] = NONE]
        live == ReleaseOffer(dead, d)
    IN /\ s.status[o] = "chat_search"
       /\ s.chatcard[o]
       /\ ChatOpen(s, d, o)
       /\ db' = IF p = NONE THEN Taken(s, d, o, NONE)
                ELSE IF s.row[d] # "offered" THEN Taken(dead, d, o, NONE)
                ELSE Taken(live, d, o, p)

\* A copy of the chat card in the driver's private messages outlives the search.
ChatTakeLate(d, o) ==
    LET s == Begin(d)
    IN /\ PendingOffer(s, d) = NONE
       /\ s.chatcard[o]
       /\ ChatOpen(s, d, o)
       /\ db' = Taken(s, d, o, NONE)

(***************************************************************************)
(* The ride                                                                *)
(***************************************************************************)
\* driver_show_eta_menu, driver_depart_from_chat_order.
ShowEtaMenu(d) ==
    LET s == Begin(d)
    IN /\ OnRide(s, d)
       /\ db' = [s EXCEPT !.card[ActiveRide(s, d)] = TRUE]

\* The dialogue of the passenger moves on with the ride.
Follow(s, o) == IF ByDispatcher(o) THEN s ELSE [s EXCEPT !.address[CreatorOf[o]] = NONE]

SetEta(d) ==
    LET s == Begin(d)
        o == ActiveRide(s, d)
    IN /\ OnRide(s, d)
       /\ db' = Follow([s EXCEPT !.card[o] = FALSE], o)

Arrived(d) ==
    LET s == Begin(d)
        o == ActiveRide(s, d)
    IN /\ OnRide(s, d)
       /\ db' = Follow([s EXCEPT !.status[o] = "arrived"], o)

Seated(d) ==
    LET s == Begin(d)
        o == ActiveRide(s, d)
    IN /\ OnRide(s, d)
       /\ db' = Follow([s EXCEPT !.status[o] = "in_progress"], o)

\* _leave_temporary_chat_line: a driver who was off the line before the ride.
LeaveTemporary(s, d, temp) ==
    IF temp THEN [LeaveQueue(s, d) EXCEPT !.online[d] = FALSE] ELSE s

\* driver_complete_ride.  Without a reserved order the driver is away until the
\* choice of a line (ask_post_ride_line).
Complete(d) ==
    LET s == Begin(d)
        o == ActiveRide(s, d)
        t == LeaveTemporary(CloseFor(s, o, "completed"), d, s.temp[o])
    IN /\ OnRide(s, d)
       /\ db' = IF Reserved(s, d) # NONE THEN PromoteAfter(s, t, d) ELSE SetAway(t, d)

\* driver_cancel_active: «клиент захотел отменить» and «клиент не вышел».
CancelForClient(d) ==
    LET s == Begin(d)
        o == ActiveRide(s, d)
        c == CloseFor(s, o, "cancelled")
        t == LeaveTemporary(SetAway(c, d), d, s.temp[o])
    IN /\ OnRide(s, d)
       /\ s.status[o] \in Riding \cup {"searching"}
       /\ IF Reserved(s, d) # NONE
          THEN db' = PromoteAfter(s, LeaveTemporary(c, d, s.temp[o]), d)
          ELSE db' \in {SetAway(r, d) : r \in Promotes(t, t)}

\* driver_cancel_active: the car broke down.  The reserved order and the ride
\* go back to dispatch, a ride taken from the chat is cancelled instead.
CancelForCar(d) ==
    LET s == Begin(d)
        o == ActiveRide(s, d)
        first == [s EXCEPT !.deadline[o] = FALSE]
        t == Release(first, Reserved(s, d))
        Released == IF Reserved(s, d) = NONE THEN {first} ELSE Promotes(t, t)
        Ended(r) == {SetAway([LeaveQueue(Close(r, o, "cancelled"), d)
                                 EXCEPT !.online[d] = FALSE, !.driver[o] = d], d)}
        Again(r) == LET u == OfferNext(SetAway([r EXCEPT !.driver[o] = NONE,
                                                         !.status[o] = "searching"], d), o, {})
                    IN {SetAway(q, d) : q \in Promotes(u, u)}
    IN /\ OnRide(s, d)
       /\ s.status[o] \in Riding \cup {"searching"}
       /\ \E r \in Released : db' \in IF s.temp[o] THEN Ended(r) ELSE Again(r)

(***************************************************************************)
(* The reserved (parallel) order                                           *)
(***************************************************************************)
\* parallel_orders.take: never while a free driver could have the order, nor
\* while it still has a card of its own.
ParallelTake(d, o) ==
    LET s == Begin(d)
        t == Repair(s, s)
    IN /\ d \in ParallelUsers
       /\ PendingOffer(s, d) = NONE
       /\ \E r \in Orders : s.driver[r] = d /\ s.status[r] \in Riding
       /\ Reserved(s, d) = NONE
       /\ s.status[o] \in Candidate
       /\ s.driver[o] = NONE /\ s.parallel[o] = NONE
       /\ s.offered[o] = NONE /\ ~s.card[o]
       /\ NextWaiting(t, s.declined[o]) = NONE
       /\ db' = MarkAssigned([Dequeue(t, o) EXCEPT !.parallel[o] = d, !.driver[o] = d,
                                                   !.status[o] = "parallel_assigned",
                                                   !.card[o] = TRUE], d)

ParallelEta(d, o) ==
    LET s == Begin(d)
    IN /\ PendingOffer(s, d) = NONE
       /\ s.status[o] = "parallel_assigned" /\ s.parallel[o] = d
       /\ db' = [s EXCEPT !.card[o] = FALSE, !.peta[o] = TRUE]

ParallelDecline(d, o) ==
    LET s == Begin(d)
        t == Release([s EXCEPT !.card[o] = FALSE], o)
    IN /\ PendingOffer(s, d) = NONE
       /\ s.status[o] = "parallel_assigned" /\ s.parallel[o] = d
       /\ db' \in Promotes(t, t)

\* _eta_timeout: no arrival time in two minutes.
ParallelEtaTimeout(o) ==
    LET t == Release([db EXCEPT !.card[o] = FALSE], o)
    IN /\ db.status[o] = "parallel_assigned"
       /\ ~db.peta[o]
       /\ db' \in Promotes(t, t)

(***************************************************************************)
(* The question whether a parked order still stands                        *)
(***************************************************************************)
\* confirm, «Да».  The view of try_promote still has the question open.
ConfirmYes(o) ==
    LET s == ResetCreator(PausePrompts(db, [db EXCEPT !.confirmed[o] = TRUE,
                                                      !.pq[o] = "waiting"], o), o)
    IN /\ db.pq[o] = "polling"
       /\ db' \in Promotes(db, s)

\* confirm, «Нет», and _poll_timeout, a minute without an answer.
ConfirmNo(o) ==
    LET s == CloseFor(Dequeue(db, o), o, "cancelled")
    IN /\ db.pq[o] = "polling"
       /\ db' \in Promotes(db, s)

\* wait_choice, «Не ждать».
WaitNo(c) ==
    LET o == Newest({o \in Orders : CreatorOf[o] = c /\ db.status[o] = "queued"})
    IN /\ o # NONE
       /\ c \notin Dispatchers
       /\ db' = CloseFor(Dequeue(db, o), o, "cancelled")

\* _recovery_worker, every three seconds.
RecoveryWorker == db' \in Promotes(db, db)

-----------------------------------------------------------------------------
DriverStep(d) ==
    \/ DriverMessage(d)
    \/ GoOnline(d)
    \/ GoOffline(d)
    \/ GoAway(d)
    \/ AwayExpire(d)
    \/ ShowEtaMenu(d)
    \/ SetEta(d)
    \/ Arrived(d)
    \/ Seated(d)
    \/ Complete(d)
    \/ CancelForClient(d)
    \/ CancelForCar(d)

DriverOrderStep(d, o) ==
    \/ Accept(d, o)
    \/ \E reason \in DeclineReasons : Decline(d, o, reason)
    \/ TakePending(d, o)
    \/ ChatTake(d, o)
    \/ ChatTakeLate(d, o)
    \/ ParallelTake(d, o)
    \/ ParallelEta(d, o)
    \/ ParallelDecline(d, o)

CreatorStep(c) ==
    \/ UpdateAddress(c)
    \/ LeaveDialogue(c)
    \/ PassengerCancel(c)
    \/ WaitNo(c)

OrderStep(o) ==
    \/ CreateOrder(o)
    \/ DispCreate(o)
    \/ DispCancel(o)
    \/ DispatcherUnclaimed(o)
    \/ ChatTimeout(o)
    \/ AdminCancel(o)
    \/ AcceptTimeout(o)
    \/ ParallelEtaTimeout(o)
    \/ ConfirmYes(o)
    \/ ConfirmNo(o)

Next ==
    \/ \E d \in Drivers : DriverStep(d)
    \/ \E d \in Drivers, o \in Orders : DriverOrderStep(d, o)
    \/ \E c \in Creators : CreatorStep(c)
    \/ \E o \in Orders : OrderStep(o)
    \/ RecoveryWorker

Spec == Init /\ [][Next]_db

\* The timers of timers.py, which a restart restores, and the three-second worker
\* run whatever the users do.  (A user may answer before a timer does.)
Timers ==
    /\ \A o \in Orders : /\ WF_db(AcceptTimeout(o))
                         /\ WF_db(ConfirmNo(o))
                         /\ WF_db(ChatTimeout(o))
                         /\ WF_db(DispatcherUnclaimed(o))
                         /\ WF_db(ParallelEtaTimeout(o))
    /\ WF_db(RecoveryWorker)

FairSpec == Spec /\ Timers

-----------------------------------------------------------------------------
(***************************************************************************)
(* Properties                                                              *)
(***************************************************************************)
\* The columns hold the values they are read as.
TypeOK == db \in Rows

\* No driver is shown two orders to accept at the same time: mark_offered and
\* the exclusions of next_waiting_driver, on every path that offers an order.
OfferExclusive ==
    \A o, p \in Orders :
        /\ db.status[o] = "searching" /\ db.status[p] = "searching"
        /\ db.offered[o] # NONE /\ db.offered[o] = db.offered[p]
        => o = p

\* An offer is for an order nobody has: whatever gives an order a driver (accept,
\* claim, reservation, promotion of a reservation) ends the offer in the same step.
OfferedIsUnassigned ==
    \A o \in Orders : db.offered[o] # NONE => db.driver[o] = NONE /\ db.parallel[o] = NONE

\* A driver carries out one ride at a time, however the ride was taken: by
\* offer, from the list of pending orders, from the chat or by reservation.
RideExclusive ==
    \A o, p \in Orders :
        /\ db.status[o] \in Riding /\ db.status[p] \in Riding
        /\ db.driver[o] = db.driver[p]
        => o = p

\* "A driver may never have both an active trip and an unanswered ordinary
\* offer" (_release_stale_offer_for_active_ride).
NoOfferWhileRiding ==
    \A o, p \in Orders :
        db.status[o] = "searching" /\ db.status[p] \in Riding /\ db.offered[o] # NONE
        => db.offered[o] # db.driver[p]

\* A driver with an offer on the screen is reserved in the line: the lock is
\* live (offer_lock_is_live), so the timeout will find and remove the driver.
OfferedIsReserved ==
    \A o \in Orders :
        db.status[o] = "searching" /\ db.offered[o] # NONE
        => /\ db.row[db.offered[o]] = "offered"
           /\ db.online[db.offered[o]]
           /\ db.dstat[db.offered[o]] = "online"

\* An order being searched for is in front of some driver: else no timer and no
\* worker would ever touch it again.
SearchingIsOffered ==
    \A o \in Orders : db.status[o] = "searching" => db.offered[o] # NONE

\* An order is never offered to a driver who refused it.
NotOfferedAgain ==
    \A o \in Orders : db.offered[o] \notin db.declined[o]

\* The passenger queue holds the queued orders and no other: an order without a
\* row would wait for ever, a row of another order would block the queue
\* (try_promote stops at it).
QueuedIsParked ==
    \A o \in Orders :
        /\ db.status[o] = "queued" <=> db.pq[o] # "none"
        /\ db.pq[o] # "none" => /\ db.driver[o] = NONE
                                /\ db.parallel[o] = NONE
                                /\ db.offered[o] = NONE

\* A driver reserves one order at most, and only besides a ride ("waiting orders
\* that a busy driver can reserve for the next ride"): whatever ends the ride
\* promotes the reservation or releases it.
ReservationHasRide ==
    \A o \in Orders : db.status[o] = "parallel_assigned" =>
        /\ db.parallel[o] # NONE
        /\ db.driver[o] = db.parallel[o]
        /\ \E p \in Orders : db.status[p] \in Riding /\ db.driver[p] = db.driver[o]
        /\ \A p \in Orders \ {o} : db.parallel[p] # db.parallel[o]

\* A driver on a ride is not in the free part of the line.
RiderNotFree ==
    \A o \in Orders : db.status[o] \in Riding =>
        /\ db.driver[o] # NONE
        /\ db.row[db.driver[o]] \in {"assigned", "none"}

\* Two drivers in the line never share a position, nor do two parked orders:
\* there always is a first one.
LinesOrdered ==
    /\ \A d, e \in Drivers : d # e /\ db.row[d] # "none" /\ db.row[e] # "none" =>
          (<<d, e>> \in db.ahead) # (<<e, d>> \in db.ahead)
    /\ \A o, p \in Orders : o # p /\ db.pq[o] # "none" /\ db.pq[p] # "none" =>
          (<<o, p>> \in db.pahead) # (<<p, o>> \in db.pahead)

\* A driver shown as free on the line has a row in it (what the repair of
\* _repair_visibly_free_drivers is there to restore).
FreeDriverHasRow ==
    \A d \in Drivers : db.online[d] /\ db.dstat[d] = "online" => db.row[d] # "none"

\* Who lets an offer run out gets no other in the same step, nor the same one again:
\* _handle_no_driver looks once more without the exclusions, and try_promote, which
\* ends the callback, never had them.
TimedOutMovesOn ==
    [][\A o \in Orders : AcceptTimeout(o) =>
          \A p \in Orders : db'.offered[p] # db.offered[o]]_db

\* An order its creator cancels is cancelled when the handler is done, waiting,
\* offered, reserved or taken, whatever the trailing promotions find in the rows it
\* has not flushed: the answer is "Заявка отменена" and the buttons are gone.
CancelSticks ==
    [][/\ \A o \in Orders : DispCancel(o) => db'.status[o] = "cancelled"
       /\ \A c \in Creators : PassengerCancel(c) => db'.status[OrderOf(db, c)] = "cancelled"]_db

\* The ride in the driver's menu stays there while it lasts: "a reserved parallel
\* order must not replace the ride currently shown in the driver's active-order
\* menu" (active_order_for).
RideInMenuIsStable ==
    [][\A d \in Drivers : LET o == ActiveRide(db, d)
                          IN o # NONE /\ o \in ActiveOf(db', d) => ActiveRide(db', d) = o]_db

\* A ride leaves its driver only to be closed or to be dispatched again after a
\* breakdown; nothing hands it to another driver or back to the line.
RideKept ==
    [][\A o \in Orders : db.status[o] \in Riding =>
          \/ db'.status[o] \in Closed
          \/ db'.driver[o] = db.driver[o] /\ db'.status[o] \in Riding
          \/ CancelForCar(db.driver[o])]_db

\* Nobody loses the place in the line but by taking the tail oneself: a refusal,
\* a cancelled ride or a repair keeps the position.
PlaceKept ==
    [][\A d, e \in Drivers : <<d, e>> \in db.ahead /\ <<e, d>> \in db'.ahead =>
          db.dstat[d] \in {"offline", "away"} \/ ~db.online[d] \/ GoOnline(d)]_db

\* The line is served first come, first served: a driver gets an order only when
\* every free driver further ahead has refused it.
FirstInLineFirst ==
    [][\A o \in Orders : LET d == db'.offered[o] IN
          d # NONE /\ d # db.offered[o] =>
             \A e \in Free(db) \ {d} : <<e, d>> \in db.ahead \cap db'.ahead =>
                 e \in db'.declined[o] \/ e \notin Free(db')]_db

\* While a driver who has not refused an order stands free on the line, the order
\* is not left waiting for ever: the offer to another driver times out, the queue
\* moves on, an unanswered question closes its order.
NotLeftWaiting ==
    \A o \in Orders :
        []<>~(/\ db.status[o] \in Pending
              /\ db.driver[o] = NONE
              /\ NextWaiting(db, db.declined[o]) # NONE)
=============================================================================
