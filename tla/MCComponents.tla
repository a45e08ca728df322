---------------------------- MODULE MCComponents ----------------------------
(***************************************************************************)
(* One instance of every service module for TLC.  The services share no    *)
(* state here but the users, so one behaviour is of one of them (focus)    *)
(* and the others rest in a fixed initial state: the state space is the    *)
(* sum of theirs.                                                          *)
(***************************************************************************)
EXTENDS Outbox, Timers, EventLoop, Bookings, Deliveries, RouteOffers, PersonalOrders, TLC

CONSTANTS m1, m2, p1, p2, c1, d1, d2, k1, e1, e2, w1, w2, x1

VARIABLE focus

components == <<vars, timerVars, loopVars, bookingVars, deliveryVars, routeVars,
                personalVars, focus>>

ComponentsInit ==
    /\ focus \in {"outbox", "timers", "loop", "bookings", "deliveries", "routes", "personal"}
    /\ Init /\ TimersInit /\ LoopInit /\ BookingsInit /\ DeliveriesInit
    /\ RouteInit /\ PersonalInit
    /\ focus # "loop" => \A e \in Received : sender[e] = 1
    /\ focus # "deliveries" => ~parcel.caller /\ \A d \in Cabs : spot[d] = "off"

OutboxFocus == /\ focus = "outbox" /\ Next
               /\ UNCHANGED <<timerVars, loopVars, bookingVars, deliveryVars, routeVars, personalVars>>
TimersFocus == /\ focus = "timers" /\ TimersNext
               /\ UNCHANGED <<vars, loopVars, bookingVars, deliveryVars, routeVars, personalVars>>
LoopFocus == /\ focus = "loop" /\ LoopNext
             /\ UNCHANGED <<vars, timerVars, bookingVars, deliveryVars, routeVars, personalVars>>
BookingsFocus == /\ focus = "bookings" /\ BookingsNext
                 /\ UNCHANGED <<vars, timerVars, loopVars, deliveryVars, routeVars, personalVars>>
DeliveriesFocus == /\ focus = "deliveries" /\ DeliveriesNext
                   /\ UNCHANGED <<vars, timerVars, loopVars, bookingVars, routeVars, personalVars>>
RoutesFocus == /\ focus = "routes" /\ RouteNext
               /\ UNCHANGED <<vars, timerVars, loopVars, bookingVars, deliveryVars, personalVars>>
PersonalFocus == /\ focus = "personal" /\ PersonalNext
                 /\ UNCHANGED <<vars, timerVars, loopVars, bookingVars, deliveryVars, routeVars>>

ComponentsNext ==
    /\ \/ OutboxFocus \/ TimersFocus \/ LoopFocus
       \/ BookingsFocus \/ DeliveriesFocus \/ RoutesFocus \/ PersonalFocus
    /\ UNCHANGED focus

Components == ComponentsInit /\ [][ComponentsNext]_components

CabSymmetry == Permutations(Cabs)

\* Each variable has its type, in the states of its component.
TypesOK ==
    CASE focus = "outbox" -> TypeOK
      [] focus = "timers" -> TimersTypeOK
      [] focus = "loop" -> LoopTypeOK
      [] focus = "bookings" -> BookingsTypeOK
      [] focus = "deliveries" -> DeliveriesTypeOK
      [] focus = "routes" -> RouteTypeOK
      [] focus = "personal" -> PersonalTypeOK

---------------------------------------------------------------------------
(* Bounds. *)

\* Outbox: one message meets every operation beside one that is only sent, or
\* cancelled by the cap: m2 is not critical, its order stays open, no handler locks
\* the row, no event comes of it and no job raises an exception.
SecondIsPlain ==
    /\ ~over[m2] /\ Unlocked(m2) /\ ~row[m2].critical
    /\ event[m2] = "none"
    /\ job[m2].step # "rescue"

\* Bookings: five rows in all; beside a second booking one ride and no debt, beside a
\* second debt no reminder and no form.
FewRows ==
    /\ Len(bookings) + Len(rides) + Len(debts) <= 5
    /\ Len(bookings) = 2 => debts = << >> /\ Len(rides) <= 1
    /\ Len(debts) = 2 =>
         /\ filled = {}
         /\ \A f \in Debts : debts[f].reminded = 0

\* RouteOffers: a taken or closed order is left alone; a transaction that has read
\* the order meets no refusal of a free driver, and the half hour no trips.
OneOvertaken ==
    /\ ~(Free /\ snap = NoSnap /\ route.status \in {"closed", "taken"})
    /\ snap # NoSnap => route.declined = {}
    /\ snap # NoSnap /\ snap.by = "half hour" => \A d \in Cabs : trips[d].n = 0

Bounds == SecondIsPlain /\ FewRows /\ OneOvertaken
=============================================================================
