----------------------------- MODULE RouteOffers -----------------------------
(***************************************************************************)
(* The automatic offers of village orders (bot/parallel_orders.py).        *)
(*                                                                         *)
(* An order from a village goes through three stages: the line of the      *)
(* village; one driver on his way to it, who has a minute to answer; and,  *)
(* for good, the line of the town.  One such order, a dispatcher's, goes   *)
(* through the handlers here.  The functions that pass it on call one      *)
(* another in a circle (offer_to_next_driver, _handle_no_driver,           *)
(* notify_busy_drivers, _fallback_to_free_drivers, try_promote); each call *)
(* is a step, for drivers come and go while the order's row is locked.     *)
(*                                                                         *)
(* A handler that has read the row before it locks it goes on with what it *)
(* read: a locking query does not refresh an object of the session.  Its   *)
(* commit writes the columns it has changed.                               *)
(***************************************************************************)

EXTENDS Users

CONSTANTS
    MaxTrips,   \* bound on the trips of a driver
    MaxChances  \* bound on the final chances of the village line in one handler

ASSUME RouteBounds == MaxTrips \in Nat /\ MaxChances \in Nat

VARIABLES
    route,   \* the row of the order
    waits,   \* it has a row in the passenger queue
    armed,   \* the "route_parallel_offer" timer is armed
    snap,    \* an open transaction that has read the order without a lock
    task,    \* the handler that holds the lock, and where it is
    stand,   \* the line each driver has chosen, while he is on it
    duty,    \* what he does
    trips    \* his current trip to the village: its number, and whether it is muted

routeVars == <<route, waits, armed, snap, task, stand, duty, trips>>

Places == {"village", "town"}
Unassigned == {"created", "queued", "no_drivers"}
Route == [status: Unassigned \cup {"searching", "reserved", "taken", "closed"},
          offered: Cabs \cup {Nobody},   \* offered_driver_id
          driver: Cabs \cup {Nobody},    \* driver_id, parallel_driver_id
          busy: Cabs \cup {Nobody},      \* parallel_offer_driver_id
          trip: 0..MaxTrips,             \* parallel_offer_trip_id
          eta: BOOLEAN,                  \* parallel_eta is set
          excluded: SUBSET Cabs,         \* parallel_auto_excluded_driver_ids
          declined: SUBSET Cabs,         \* declined_driver_ids
          fallback: BOOLEAN]             \* parallel_route_fallback
NoSnap == [by |-> "none"]
NoTask == [at |-> "none"]
Duties == {"off", "waiting", "offered", "riding"}

RouteInit ==
    /\ route = [status |-> "created", offered |-> Nobody, driver |-> Nobody,
                busy |-> Nobody, trip |-> 0, eta |-> FALSE,
                excluded |-> {}, declined |-> {}, fallback |-> FALSE]
    /\ waits = FALSE /\ armed = FALSE
    /\ snap = NoSnap /\ task = NoTask
    /\ stand = [d \in Cabs |-> "town"]
    /\ duty = [d \in Cabs |-> "off"]
    /\ trips = [d \in Cabs |-> [n |-> 0, muted |-> FALSE]]

Own(w) == w.status \in Unassigned /\ w.driver = Nobody

\* Mutant of Stage: every stage looks at the line of the village.
StageVillage(w) == "village"

Stage(w) == IF w.fallback THEN "town" ELSE "village"
Waiting(where) == {d \in Cabs : duty[d] = "waiting" /\ stand[d] = where}

\* _clear_route_offer_state.
Unoffered(w) == [w EXCEPT !.busy = Nobody, !.trip = 0]

\* _auto_offer_trip_is_eligible, on a trip that goes to the village.
Eligible(w) == {d \in Cabs : duty[d] = "riding" /\ d # w.driver /\ d \notin w.excluded
                             /\ trips[d].n > 0 /\ ~trips[d].muted}

\* _free_driver_has_priority.
FreeFirst(w) == w.offered # Nobody \/ Waiting(Stage(w)) # {}

---------------------------------------------------------------------------
(* The handler that holds the row. *)

Free == task = NoTask

\* The columns that differ from what was loaded are written.
Merged(base, work) ==
    [f \in DOMAIN route |-> IF work[f] = base[f] THEN route[f] ELSE work[f]]

StartsAt(at, base, work, recheck, trailing) ==
    /\ task' = [at |-> at, base |-> base, work |-> work, recheck |-> recheck,
                trailing |-> trailing, chances |-> 0]
    /\ UNCHANGED route

\* The handler goes on at another function, or its work is done: then comes the
\* try_promote it ends with, if any, and the commit.
GoesOn(at, work) ==
    /\ task' = [task EXCEPT !.at = at, !.work = work]
    /\ UNCHANGED route
Recheck(work) ==
    /\ task' = [task EXCEPT !.at = "fallback", !.work = work, !.recheck = TRUE]
    /\ UNCHANGED route
Commits(work) == route' = Merged(task.base, work) /\ task' = NoTask
Returns(work) ==
    IF task.trailing
    THEN /\ task' = [task EXCEPT !.at = "promote", !.work = work, !.trailing = FALSE]
         /\ UNCHANGED route
    ELSE Commits(work)

\* offer_to_next_driver.
OfferStep ==
    LET w == task.work
        able == Waiting(Stage(w)) \ w.declined
    IN  /\ task.at = "offer"
        /\ \/ /\ w.driver # Nobody \/ w.status \in {"reserved", "taken", "closed"}
                 \/ (w.status = "searching" /\ w.offered # Nobody)
              /\ Returns(w) /\ UNCHANGED <<armed, duty>>
           \/ /\ w.driver = Nobody /\ w.status \notin {"reserved", "taken", "closed"}
              /\ ~(w.status = "searching" /\ w.offered # Nobody)
              /\ IF able = {}
                 THEN GoesOn("nobody", w) /\ UNCHANGED <<armed, duty>>
                 ELSE \E d \in able :
                        /\ duty' = [duty EXCEPT ![d] = "offered"]
                        /\ armed' = FALSE
                        /\ Returns([Unoffered(w) EXCEPT !.status = "searching",
                                                        !.offered = d])
        /\ UNCHANGED <<waits, snap, stand, trips>>

\* enqueue: an order that is in the queue already keeps the status it has.
Parked(status) == IF waits THEN status ELSE "queued"

\* _handle_no_driver, for the order of a dispatcher.
NobodyStep ==
    LET w == task.work
    IN  /\ task.at = "nobody"
        /\ IF Waiting(Stage(w)) \ w.declined # {}
           THEN GoesOn("offer", w) /\ UNCHANGED waits
           ELSE /\ GoesOn("notify", [w EXCEPT !.status = Parked("no_drivers")])
                /\ waits' = TRUE
        /\ UNCHANGED <<armed, snap, stand, duty, trips>>

\* notify_busy_drivers; all its callers go on with _fallback_to_free_drivers when it
\* has found nobody.
NotifyStep ==
    LET w == task.work
        nobody == FreeFirst(w) \/ w.fallback \/ Eligible(w) = {}
    IN  /\ task.at = "notify"
        /\ \/ /\ (w.busy # Nobody /\ Own(w)) \/ (~nobody /\ ~Own(w))
              /\ Returns(w) /\ UNCHANGED armed
           \/ /\ nobody /\ ~(w.busy # Nobody /\ Own(w))
              /\ Recheck(w) /\ UNCHANGED armed
           \/ /\ ~nobody /\ w.busy = Nobody /\ Own(w)
              /\ \E d \in Eligible(w) :
                   Returns([w EXCEPT !.busy = d, !.trip = trips[d].n])
              /\ armed' = TRUE
        /\ UNCHANGED <<waits, snap, stand, duty, trips>>

\* _fallback_to_free_drivers.
FallbackStep ==
    LET w == [Unoffered(task.work) EXCEPT !.status = "queued", !.driver = Nobody,
                                          !.eta = FALSE]
        chance == task.recheck /\ ~w.fallback /\ Waiting("village") # {}
        again == chance \/ (w.fallback /\ Waiting("town") # {})
    IN  /\ task.at = "fallback"
        /\ IF ~Own(task.work)
           THEN Returns(task.work) /\ UNCHANGED <<waits, armed>>
           ELSE /\ armed' = FALSE
                /\ \/ /\ ~chance /\ Waiting("town") = {}
                      /\ Returns([w EXCEPT !.fallback = TRUE]) /\ waits' = TRUE
                   \/ /\ chance \/ Waiting("town") # {}
                      /\ again => task.chances < MaxChances
                      /\ task' = [task EXCEPT !.at = "offer",
                            !.chances = IF again THEN @ + 1 ELSE @,
                            !.work = [w EXCEPT !.status = "searching",
                                               !.fallback = ~chance]]
                      /\ waits' = FALSE /\ UNCHANGED route
        /\ UNCHANGED <<snap, stand, duty, trips>>

\* The circle ends in a RecursionError, at whatever call: the message loop logs it
\* and commits what there is.
Overflows ==
    /\ task.at = "fallback" /\ Own(task.work) /\ task.chances = MaxChances
    /\ Waiting(Stage(task.work)) # {} /\ (task.recheck \/ task.work.fallback)
    /\ \E status \in {"searching", "no_drivers", "queued"} :
         Commits([Unoffered(task.work) EXCEPT !.status = status])
    /\ waits' \in BOOLEAN
    /\ UNCHANGED <<armed, snap, stand, duty, trips>>

\* try_promote, for this order; a dispatcher is not asked whether it is still wanted.
PromoteStep ==
    LET w == task.work
        some == Waiting(Stage(w)) # {}
        parallel == w.busy # Nobody
                    \/ (~FreeFirst(w) /\ ~w.fallback /\ Eligible(w) # {})
    IN  /\ task.at = "promote"
        /\ \/ /\ ~waits \/ (some /\ ~Own(w)) \/ (~some /\ ~parallel /\ w.fallback)
              /\ Commits(w) /\ UNCHANGED <<waits, armed>>
           \/ /\ waits /\ some /\ Own(w)
              /\ waits' = FALSE /\ armed' = FALSE
              /\ GoesOn("offer", [Unoffered(w) EXCEPT !.status = "searching"])
           \/ /\ waits /\ ~some /\ parallel
              /\ GoesOn("notify", w) /\ UNCHANGED <<waits, armed>>
           \/ /\ waits /\ ~some /\ ~parallel /\ ~w.fallback
              /\ Recheck(w) /\ UNCHANGED <<waits, armed>>
        /\ UNCHANGED <<snap, stand, duty, trips>>

TaskSteps == OfferStep \/ NobodyStep \/ NotifyStep \/ FallbackStep \/ PromoteStep
             \/ Overflows

---------------------------------------------------------------------------
(* The line and the trips. *)

\* Going on the line ends with try_promote, which skips an order that is locked.
JoinsLine(d, where) ==
    /\ duty[d] = "off"
    /\ duty' = [duty EXCEPT ![d] = "waiting"] /\ stand' = [stand EXCEPT ![d] = where]
    /\ IF Free /\ waits THEN StartsAt("promote", route, route, FALSE, FALSE)
       ELSE UNCHANGED <<route, task>>
    /\ UNCHANGED <<waits, armed, snap, trips>>

LeavesLine(d) ==
    /\ duty[d] = "waiting"
    /\ duty' = [duty EXCEPT ![d] = "off"] /\ stand' = [stand EXCEPT ![d] = "town"]
    /\ UNCHANGED <<route, waits, armed, snap, task, trips>>

\* He gets an order to the village and sets out.
StartsTrip(d) ==
    /\ duty[d] \in {"off", "waiting"} /\ trips[d].n < MaxTrips
    /\ duty' = [duty EXCEPT ![d] = "riding"]
    /\ stand' = [stand EXCEPT ![d] = "town"]
    /\ trips' = [trips EXCEPT ![d] = [n |-> @.n + 1, muted |-> FALSE]]
    /\ UNCHANGED <<route, waits, armed, snap, task>>

\* The handler at work has locked the trip of d, or the order is his.
Locks(d) == ~Free /\ d \in {route.busy, route.driver, task.base.busy, task.work.busy}

\* Mutant of Released: the offer stays with the trip that has ended.
ReleasedNot(d) == FALSE

\* release_route_offers_for_trip.
Released(d) == route.busy = d /\ route.trip = trips[d].n

\* The trip ends; promote_after_current makes the reservation the next trip.
EndsTrip(d) ==
    /\ duty[d] = "riding" /\ ~Locks(d) /\ ~(route.status = "taken" /\ route.driver = d)
    /\ IF route.status = "reserved" /\ route.driver = d
       THEN route' = [route EXCEPT !.status = "taken"] /\ UNCHANGED <<task, armed, duty>>
       ELSE /\ duty' = [duty EXCEPT ![d] = "off"]
            /\ IF Released(d)
               THEN /\ StartsAt("fallback", route, Unoffered(route), FALSE, FALSE)
                    /\ armed' = FALSE
               ELSE UNCHANGED <<route, task, armed>>
    /\ UNCHANGED <<waits, snap, stand, trips>>

\* _release: back to the passenger queue.
Relinquished == [route EXCEPT !.status = "queued", !.driver = Nobody, !.eta = FALSE]

\* The car breaks down: release_reserved.
BreaksDown(d) ==
    /\ duty[d] = "riding" /\ Free /\ route.status = "reserved" /\ route.driver = d
    /\ duty' = [duty EXCEPT ![d] = "off"]
    /\ waits' = TRUE
    /\ StartsAt("promote", route, Relinquished, FALSE, FALSE)
    /\ UNCHANGED <<armed, snap, stand, trips>>

---------------------------------------------------------------------------
(* The order and its offers. *)

\* dispatch_new_order.
DispatchRoute ==
    /\ Free /\ route.status = "created"
    /\ IF Waiting("village") # {}
       THEN StartsAt("offer", route, route, FALSE, FALSE) /\ UNCHANGED waits
       ELSE /\ StartsAt("notify", route, [route EXCEPT !.status = Parked(@)], FALSE, FALSE)
            /\ waits' = TRUE
    /\ UNCHANGED <<armed, snap, stand, duty, trips>>

\* take, take_route_offer.
TakesRoute(d, live) ==
    /\ Free /\ duty[d] = "riding" /\ Own(route) /\ ~FreeFirst(route)
    /\ live => route.busy = d /\ route.trip = trips[d].n /\ ~trips[d].muted
    /\ route' = [Unoffered(route) EXCEPT !.status = "reserved", !.driver = d]
    /\ waits' = FALSE /\ armed' = FALSE
    /\ UNCHANGED <<snap, task, stand, duty, trips>>

SavesEta(d) ==
    /\ Free /\ route.status = "reserved" /\ route.driver = d
    /\ route' = [route EXCEPT !.eta = TRUE]
    /\ UNCHANGED <<waits, armed, snap, task, stand, duty, trips>>

\* _eta_timeout locks before it reads.
EtaRunsOut ==
    /\ Free /\ route.status = "reserved" /\ ~route.eta
    /\ waits' = TRUE
    /\ StartsAt("promote", route, Relinquished, FALSE, FALSE)
    /\ UNCHANGED <<armed, snap, stand, duty, trips>>

\* _route_offer_timeout, decline_route_offer, decline and the half hour of a
\* dispatcher's order read the row before they lock it.
Reads(by, d) == snap = NoSnap /\ snap' = [by |-> by, driver |-> d, seen |-> route]

SnapReads ==
    /\ Free
    /\ \/ armed /\ route.busy # Nobody /\ armed' = FALSE /\ Reads("timeout", route.busy)
       \/ \E d \in Cabs : route.busy = d /\ Reads("refuse", d) /\ UNCHANGED armed
       \/ \E d \in Cabs : /\ route.status = "reserved" /\ route.driver = d
                          /\ Reads("give up", d) /\ UNCHANGED armed
       \/ /\ Own(route) \/ route.status = "searching"
          /\ Reads("half hour", Nobody) /\ UNCHANGED armed
    /\ UNCHANGED <<route, waits, task, stand, duty, trips>>

SnapEnds == snap' = NoSnap
OnSameTrip == duty[snap.driver] = "riding" /\ trips[snap.driver].n = snap.seen.trip
Refused(w) == [Unoffered(w) EXCEPT !.excluded = @ \cup {snap.driver}]

\* Its re-check compares the object with itself.
TimeoutGoesOn ==
    /\ Free /\ snap.by = "timeout" /\ SnapEnds
    /\ trips' = IF OnSameTrip THEN [trips EXCEPT ![snap.driver].muted = TRUE] ELSE trips
    /\ armed' = FALSE
    /\ StartsAt("fallback", snap.seen, Refused(snap.seen), FALSE, TRUE)
    /\ UNCHANGED <<waits, stand, duty>>

\* The candidate filter is a condition of the query, so it sees the row.
RefusalGoesOn ==
    /\ Free /\ snap.by = "refuse" /\ SnapEnds
    /\ IF Own(route) /\ OnSameTrip
       THEN /\ armed' = FALSE
            /\ StartsAt("fallback", snap.seen, Refused(snap.seen), FALSE, FALSE)
       ELSE UNCHANGED <<route, task, armed>>
    /\ UNCHANGED <<waits, stand, duty, trips>>

GivesUp ==
    /\ Free /\ snap.by = "give up" /\ SnapEnds
    /\ StartsAt("fallback", snap.seen,
                [snap.seen EXCEPT !.status = "queued", !.driver = Nobody, !.eta = FALSE],
                FALSE, FALSE)
    /\ UNCHANGED <<waits, armed, stand, duty, trips>>

\* _dispatcher_unclaimed_timeout.
HalfHourOver ==
    /\ Free /\ snap.by = "half hour" /\ SnapEnds
    /\ route' = Merged(snap.seen, [Unoffered(snap.seen) EXCEPT !.status = "closed",
                                                             !.offered = Nobody])
    /\ duty' = [d \in Cabs |-> IF d = snap.seen.offered /\ duty[d] = "offered"
                               THEN "waiting" ELSE duty[d]]
    /\ waits' = FALSE
    /\ armed' = (armed /\ snap.seen.busy = Nobody)
    /\ UNCHANGED <<task, stand, trips>>

\* driver_accept, driver_decline and _accept_timeout lock before they read.
Holds(d) == Free /\ route.status = "searching" /\ route.offered = d

FreeAccepts(d) ==
    /\ Holds(d)
    /\ route' = [route EXCEPT !.status = "taken", !.driver = d, !.offered = Nobody]
    /\ duty' = [duty EXCEPT ![d] = "riding"]
    /\ UNCHANGED <<waits, armed, snap, task, stand, trips>>

\* He stays on the line (dislike), or steps out (away); only the former ends with
\* try_promote.
FreeDeclines(d, stays) ==
    /\ Holds(d)
    /\ duty' = [duty EXCEPT ![d] = IF stays THEN "waiting" ELSE "off"]
    /\ StartsAt("offer", route, [route EXCEPT !.offered = Nobody, !.declined = @ \cup {d}],
                FALSE, stays)
    /\ UNCHANGED <<waits, armed, snap, stand, trips>>

FreeTimesOut(d) ==
    /\ Holds(d)
    /\ duty' = [duty EXCEPT ![d] = "off"]
    /\ StartsAt("offer", route, [route EXCEPT !.offered = Nobody], FALSE, TRUE)
    /\ UNCHANGED <<waits, armed, snap, stand, trips>>

\* disp_cancel_order, while nobody has reserved the order.
DispatcherCloses ==
    /\ Free /\ (Own(route) \/ route.status = "searching")
    /\ route' = [Unoffered(route) EXCEPT !.status = "closed", !.offered = Nobody]
    /\ duty' = [d \in Cabs |-> IF d = route.offered /\ duty[d] = "offered"
                               THEN "waiting" ELSE duty[d]]
    /\ waits' = FALSE /\ armed' = FALSE
    /\ UNCHANGED <<snap, task, stand, trips>>

\* The process dies between the transactions; the row of the timer is still there.
RouteRestart ==
    /\ Free /\ snap # NoSnap /\ SnapEnds
    /\ armed' = (armed \/ snap.by = "timeout")
    /\ UNCHANGED <<route, waits, task, stand, duty, trips>>

RouteNext ==
    \/ TaskSteps
    \/ \E d \in Cabs : \/ \E where \in Places : JoinsLine(d, where)
                       \/ LeavesLine(d) \/ StartsTrip(d) \/ EndsTrip(d) \/ BreaksDown(d)
                       \/ \E live \in BOOLEAN : TakesRoute(d, live)
                       \/ SavesEta(d) \/ FreeAccepts(d) \/ FreeTimesOut(d)
                       \/ \E stays \in BOOLEAN : FreeDeclines(d, stays)
    \/ DispatchRoute \/ EtaRunsOut \/ SnapReads \/ TimeoutGoesOn \/ RefusalGoesOn
    \/ GivesUp \/ HalfHourOver \/ DispatcherCloses \/ RouteRestart

RouteSpec == RouteInit /\ [][RouteNext]_routeVars

---------------------------------------------------------------------------
(* Properties. *)

RouteTypeOK ==
    /\ route \in Route
    /\ waits \in BOOLEAN /\ armed \in BOOLEAN
    /\ snap = NoSnap \/ snap \in [by: {"timeout", "refuse", "give up", "half hour"},
                                  driver: Cabs \cup {Nobody}, seen: Route]
    /\ task = NoTask \/ task \in [at: {"offer", "nobody", "notify", "fallback", "promote"},
                                  base: Route, work: Route, recheck: BOOLEAN,
                                  trailing: BOOLEAN, chances: 0..MaxChances]
    /\ stand \in [Cabs -> Places] /\ duty \in [Cabs -> Duties]
    /\ trips \in [Cabs -> [n: 0..MaxTrips, muted: BOOLEAN]]

\* An automatic offer never outlives the trip it was made for: the driver it names is
\* on that very trip, however the trip ends and whoever answers meanwhile.
OfferEndsWithTrip ==
    LET d == route.busy
    IN  Free /\ d # Nobody => duty[d] = "riding" /\ trips[d].n = route.trip

\* The town stage is final: once an order has entered it, no driver on a trip and no
\* driver of the village line gets an offer of it, not even from a handler that had
\* read the order before.
TownIsFinal ==
    [][route.fallback =>
         /\ route'.fallback
         /\ route'.busy \in {Nobody, route.busy}
         /\ route'.offered \in {Nobody, route.offered} \cup Waiting("town")
                               \cup {d \in Cabs : stand[d] = "town"}]_routeVars

\* A button and the timeout pressed at once have one winner: an order somebody has
\* reserved or taken is neither offered to others nor waiting for them.
OneWinner ==
    Free /\ route.driver # Nobody /\ route.status # "closed" =>
        route.status \in {"reserved", "taken"} /\ ~waits /\ route.offered = Nobody
=============================================================================
