----------------------------- MODULE Assignment -----------------------------
(***************************************************************************)
(* What the dispatcher promises, whatever queues, timers and buttons it    *)
(* uses: every order is with one driver at most, and every driver has at   *)
(* most one thing to do.                                                   *)
(*                                                                         *)
(* An order is open, offered to a driver, reserved by a driver for later,  *)
(* or held: it is the driver's ride.  One event may move several orders,   *)
(* for an order that ends lets another one go on.                          *)
(***************************************************************************)

CONSTANTS Orders, Drivers, NONE

VARIABLE place   \* of each order: its phase, and the driver it is with

With(p, d) == [phase |-> p, by |-> d]
New == With("new", NONE)
Open == With("open", NONE)
Closed == With("closed", NONE)

Init == place = [o \in Orders |-> New]

\* A new order, a refusal, a reservation given up, a breakdown.
Opens(was, is) == was # Closed /\ is = Open

\* It is offered to somebody other than the one who gives it up in the same event.
IsOffered(was, is) == was # Closed /\ is.phase = "offered" /\ was.by # is.by

IsReserved(was, is) == was = Open /\ is.phase = "reserved"

\* The driver accepts the offer, claims an open order, or comes to the reservation.  A
\* claim may overtake the offer to another: a chat card outlives the search.
IsTaken(was, is) ==
    /\ is.phase = "held"
    /\ was.phase \in {"open", "offered"} \/ was = With("reserved", is.by)

Closes(was, is) == was # New /\ is = Closed

Moves(was, is) ==
    was = is \/ Opens(was, is) \/ IsOffered(was, is) \/ IsReserved(was, is)
    \/ IsTaken(was, is) \/ Closes(was, is)

\* A driver looks at one offer or carries out one ride, and reserves one order, only
\* beside a ride.
Exclusive ==
    /\ \A o, p \in Orders :
         o # p /\ place[o].by # NONE /\ place[o].by = place[p].by =>
             {place[o].phase, place[p].phase} = {"reserved", "held"}
    /\ \A o \in Orders : place[o].phase = "reserved" =>
         \E p \in Orders : place[p] = With("held", place[o].by)

Next ==
    /\ \A o \in Orders : Moves(place[o], place'[o])
    /\ Exclusive'

Spec == Init /\ [][Next]_place
=============================================================================
