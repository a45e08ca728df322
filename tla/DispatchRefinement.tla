------------------------- MODULE DispatchRefinement -------------------------
(***************************************************************************)
(* The dispatcher implements Assignment: the columns of an order's row     *)
(* give its phase and its driver.                                          *)
(***************************************************************************)
EXTENDS Dispatch

\* driver_id makes the order a ride, whatever the status says (active_order_for),
\* unless it is the copy of a reservation; offered_driver_id is read while the order
\* is searching.
PlaceOf(o) ==
    LET status == db.status[o]  d == db.driver[o]  e == db.offered[o]
        At(p, who) == [phase |-> p, by |-> who]
    IN  CASE status = "unborn" -> At("new", NONE)
          [] status \in Closed -> At("closed", NONE)
          [] status = "parallel_assigned" -> At("reserved", db.parallel[o])
          [] OTHER -> IF d # NONE THEN At("held", d)
                      ELSE IF status = "searching" /\ e # NONE THEN At("offered", e)
                      ELSE At("open", NONE)

Assigned == INSTANCE Assignment WITH place <- [o \in Orders |-> PlaceOf(o)]

\* Every step of the dispatcher is a step of Assignment or changes nothing it knows
\* of: no handler gives a ride to a second driver, shows a rider an offer, loses a
\* reservation's ride, or moves a closed order.
ImplementsAssignment == Assigned!Spec
=============================================================================
