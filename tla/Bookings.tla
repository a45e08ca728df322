------------------------------ MODULE Bookings ------------------------------
(***************************************************************************)
(* Advance bookings (bot/booking_service.py and its handlers), with the    *)
(* rides they become and the debts their cancellation makes.               *)
(*                                                                         *)
(* A booking is published in the drivers' chat and expires there after     *)
(* forty-five minutes; a driver takes it, departs on an ordinary order,    *)
(* or gives it back.  Every handler locks the row of the booking, so each  *)
(* is one step.  Ordinary rides appear as far as they meet a booking: by   *)
(* their driver, their passenger and their number, for the timers of order *)
(* n, booking n and debt n are cancelled together.                         *)
(***************************************************************************)

EXTENDS FalseCalls

CONSTANTS
    OnLine,       \* the drivers with a row on the line
    MaxBookings,  \* bound on the bookings ever made
    MaxRides      \* bound on the rides ever made

ASSUME OnLineAssumption == OnLine \subseteq Cabs
ASSUME BookingBounds == MaxBookings \in Nat /\ MaxRides \in Nat

VARIABLES
    filled,    \* the customers whose booking form is complete in the FSM data
    bookings,  \* the rows of bookings, by their numbers
    expiry,    \* the bookings whose "booking_chat" timer is armed
    rides,     \* the orders somebody rides, by their numbers
    line       \* the row of each driver on the line

bookingVars == <<filled, bookings, expiry, rides, line, debtVars>>

Active == {"pending", "assigned", "driver_en_route"}
Booking == [owner: Customers, status: Active \cup {"deleted"}, driver: Cabs \cup {Nobody},
            ride: Nat, card: BOOLEAN, reminded: BOOLEAN]
Ride == [owner: Customers, driver: Cabs \cup {Nobody},
         status: {"searching", "riding", "completed", "cancelled"}]
Books == DOMAIN bookings
Rides == DOMAIN rides
Lines == {"off", "waiting", "away", "assigned"}

BookingsInit ==
    /\ DebtsInit
    /\ filled = {}
    /\ bookings = << >> /\ expiry = {} /\ rides = << >>
    /\ line = [d \in Cabs |-> IF d \in OnLine THEN "waiting" ELSE "off"]

ActiveOf(c) == {b \in Books : bookings[b].owner = c /\ bookings[b].status \in Active}
RidesOf(d) == {r \in Rides : rides[r].driver = d /\ rides[r].status = "riding"}
OrdersOf(c) == {r \in Rides : rides[r].owner = c /\ rides[r].status \in {"searching", "riding"}}

---------------------------------------------------------------------------
(* Effects of the handlers. *)

\* mark_assigned, set_away, and return_to_queue or restore_position (places in the
\* line are not kept here); a driver without a row stays off the line.
Moves(d, to) == line' = [line EXCEPT ![d] = IF d \in OnLine THEN to ELSE @]
Assigned(d) == Moves(d, "assigned")
Freed(d) == Moves(d, "waiting")

\* cancel_all_for_order: the timers of the same number go, of whatever kind.
TimersGone(n) == expiry' = expiry \ {n} /\ reminder' = reminder \ {n}

CloseRide(r, status) == rides' = [rides EXCEPT ![r].status = status]

\* The row is deleted, its card withdrawn.
Deleted(b) == bookings' = [bookings EXCEPT ![b] =
                  [owner |-> @.owner, status |-> "deleted", driver |-> Nobody,
                   ride |-> 0, card |-> FALSE, reminded |-> FALSE]]

\* Mutant of Rearmed: only a new booking gets its timer.
RearmedNew(b, published) ==
    expiry' = IF published /\ b \notin Books THEN expiry \cup {b} ELSE expiry

\* _broadcast_booking_to_driver_chat: no chat, no timer.
Rearmed(b, published) == expiry' = IF published THEN expiry \cup {b} ELSE expiry

---------------------------------------------------------------------------
(* The customer. *)

\* The form, to its last step: each step stores its field in the draft, whatever
\* the state; confirmed before it is complete, it starts anew.
FillForm(c) ==
    /\ MayAct(c) /\ c \notin filled
    /\ filled' = filled \cup {c}
    /\ UNCHANGED <<bookings, expiry, rides, line, debtVars>>

\* Mutant of MayBook: a booking is looked for when the form starts only.
MayBookAlways(c) == TRUE

MayBook(c) == c \in Callers \/ ActiveOf(c) = {}

\* passenger_booking_confirm, with the broadcast.
Confirm(c) ==
    /\ MayAct(c) /\ c \in filled /\ MayBook(c)
    /\ Len(bookings) < MaxBookings
    /\ \E published \in BOOLEAN :
         /\ bookings' = Append(bookings,
                [owner |-> c, status |-> "pending", driver |-> Nobody, ride |-> 0,
                 card |-> published, reminded |-> FALSE])
         /\ Rearmed(Len(bookings) + 1, published)
    /\ filled' = filled \ {c}
    /\ UNCHANGED <<rides, line, debtVars>>

\* The passenger cancels after the departure: the driver is freed, the passenger
\* owes, whatever has become of the ride since.
CancelEnRoute(p, b) ==
    LET r == bookings[b].ride  d == bookings[b].driver
    IN  /\ bookings[b].status = "driver_en_route"
        /\ CloseRide(r, "cancelled")
        /\ Owe(p, d)
        /\ expiry' = expiry \ {b, r}
        /\ reminder' = (reminder \ {r}) \cup {NewDebt}
        /\ Freed(d)

CancelBefore(b) ==
    /\ bookings[b].status # "driver_en_route"
    /\ expiry' = expiry \ {b}
    /\ UNCHANGED <<rides, line, debtVars>>

PassengerCancelBooking(p, b) ==
    /\ MayAct(p) /\ bookings[b].owner = p /\ bookings[b].status \in Active
    /\ CancelEnRoute(p, b) \/ CancelBefore(b)
    /\ Deleted(b)
    /\ filled' = filled \ {p}

DispCancelBooking(c, b) ==
    /\ bookings[b].owner = c /\ bookings[b].status \in Active
    /\ Deleted(b)
    /\ LET r == bookings[b].ride
       IN  IF r # 0
           THEN /\ CloseRide(r, "cancelled")
                /\ expiry' = expiry \ {b, r} /\ reminder' = reminder \ {r}
                /\ Freed(bookings[b].driver)
                /\ UNCHANGED <<debts, locked, paying, healing>>
           ELSE expiry' = expiry \ {b} /\ UNCHANGED <<rides, line, debtVars>>
    /\ UNCHANGED filled

---------------------------------------------------------------------------
(* The driver. *)

\* take_booking, from the chat or from the menu, on the line or off it.
TakeBooking(d, b) ==
    /\ bookings[b].status = "pending"
    /\ bookings' = [bookings EXCEPT ![b].status = "assigned", ![b].driver = d,
                                    ![b].reminded = FALSE, ![b].card = FALSE]
    /\ expiry' = expiry \ {b}
    /\ UNCHANGED <<filled, rides, line, debtVars>>

\* driver_cancel_booking: the booking is published again.
DriverCancelBooking(d, b) ==
    /\ bookings[b].status = "assigned" /\ bookings[b].driver = d
    /\ \E published \in BOOLEAN :
         /\ bookings' = [bookings EXCEPT ![b].status = "pending", ![b].driver = Nobody,
                                         ![b].ride = 0, ![b].card = published]
         /\ Rearmed(b, published)
    /\ Freed(d)
    /\ UNCHANGED <<filled, rides, debtVars>>

\* driver_depart_booking.
Depart(d, b) ==
    /\ bookings[b].status = "assigned" /\ bookings[b].driver = d /\ RidesOf(d) = {}
    /\ Len(rides) < MaxRides
    /\ rides' = Append(rides, [owner |-> bookings[b].owner, driver |-> d,
                               status |-> "riding"])
    /\ bookings' = [bookings EXCEPT ![b].status = "driver_en_route",
                                    ![b].ride = Len(rides) + 1]
    /\ filled' = filled \ ({bookings[b].owner} \cap Riders)
    /\ Assigned(d)
    /\ UNCHANGED <<expiry, debtVars>>

\* expire_unclaimed_booking.
Expire(b) ==
    /\ b \in expiry
    /\ expiry' = expiry \ {b}
    /\ IF bookings[b].status = "pending" THEN Deleted(b) ELSE UNCHANGED bookings
    /\ UNCHANGED <<filled, rides, line, debtVars>>

\* _send_due_reminders.
RemindDriver(b) ==
    /\ bookings[b].status = "assigned" /\ ~bookings[b].reminded
    /\ bookings' = [bookings EXCEPT ![b].reminded = TRUE]
    /\ UNCHANGED <<filled, expiry, rides, line, debtVars>>

---------------------------------------------------------------------------
(* The rides. *)

\* A driver gets an ordinary order: a new one, or a ride left by a breakdown.
StartRide(c, d) ==
    /\ MayAct(c) /\ OrdersOf(c) = {} /\ RidesOf(d) = {}
    /\ Len(rides) < MaxRides
    /\ rides' = Append(rides, [owner |-> c, driver |-> d, status |-> "riding"])
    /\ filled' = filled \ {c}
    /\ Assigned(d)
    /\ UNCHANGED <<bookings, expiry, debtVars>>

TakeOver(d, r) ==
    /\ rides[r].status = "searching" /\ RidesOf(d) = {}
    /\ rides' = [rides EXCEPT ![r].status = "riding", ![r].driver = d]
    /\ Assigned(d)
    /\ UNCHANGED <<filled, bookings, expiry, debtVars>>

\* Mutant of MarkCompleted: a booking is completed for its own driver only.
MarkCompletedForDriver(r) ==
    LET done == {b \in Books : /\ bookings[b].ride = r
                               /\ bookings[b].status = "driver_en_route"
                               /\ bookings[b].driver = rides[r].driver}
    IN  IF done = {} THEN UNCHANGED bookings ELSE \E b \in done : Deleted(b)

\* mark_completed_for_order.
MarkCompleted(r) ==
    LET done == {b \in Books : bookings[b].ride = r
                               /\ bookings[b].status = "driver_en_route"}
    IN  IF done = {} THEN UNCHANGED bookings ELSE \E b \in done : Deleted(b)

\* driver_complete_ride, driver_complete_delivery.
CompleteRide(r) ==
    /\ rides[r].status = "riding"
    /\ CloseRide(r, "completed")
    /\ MarkCompleted(r)
    /\ TimersGone(r)
    /\ Freed(rides[r].driver)
    /\ UNCHANGED <<filled, debts, locked, paying, healing>>

\* passenger_cancel, driver_cancel_active for a client who cancels or does not come;
\* the ride of a dispatcher, and an early cancellation, cost nothing.
CancelRide(r) ==
    LET p == rides[r].owner  d == rides[r].driver
    IN  /\ rides[r].status = "riding"
        /\ CloseRide(r, "cancelled")
        /\ expiry' = expiry \ {r}
        /\ \/ /\ p \in Riders /\ Owe(p, d)
              /\ reminder' = (reminder \ {r}) \cup {NewDebt}
           \/ /\ reminder' = reminder \ {r}
              /\ UNCHANGED <<debts, locked, paying, healing>>
        /\ Freed(d)
        /\ UNCHANGED <<filled, bookings>>

\* driver_cancel_active for a broken car.
Breakdown(r) ==
    /\ rides[r].status = "riding"
    /\ rides' = [rides EXCEPT ![r].status = "searching", ![r].driver = Nobody]
    /\ TimersGone(r)
    /\ Moves(rides[r].driver, "away")
    /\ UNCHANGED <<filled, bookings, debts, locked, paying, healing>>

BookingsNext ==
    \/ DebtSteps /\ UNCHANGED <<filled, bookings, expiry, rides, line>>
    \/ \E c \in Customers : FillForm(c) \/ Confirm(c)
    \/ \E b \in Books :
         \/ \E p \in Riders : PassengerCancelBooking(p, b)
         \/ \E c \in Callers : DispCancelBooking(c, b)
         \/ \E d \in Cabs : TakeBooking(d, b) \/ DriverCancelBooking(d, b) \/ Depart(d, b)
         \/ Expire(b) \/ RemindDriver(b)
    \/ \E c \in Customers, d \in Cabs : StartRide(c, d)
    \/ \E r \in Rides : CompleteRide(r) \/ CancelRide(r) \/ Breakdown(r)
                        \/ \E d \in Cabs : TakeOver(d, r)

BookingsSpec == BookingsInit /\ [][BookingsNext]_bookingVars

---------------------------------------------------------------------------
(* Properties. *)

BookingsTypeOK ==
    /\ DebtsTypeOK
    /\ filled \subseteq Customers
    /\ bookings \in Seq(Booking) /\ Len(bookings) <= MaxBookings
    /\ expiry \subseteq Books
    /\ rides \in Seq(Ride) /\ Len(rides) <= MaxRides
    /\ line \in [Cabs -> Lines]

\* A passenger has one active booking at most, though the form keeps no lock while
\* it is filled in and a booking may come back to him from the driver meanwhile.
OneActiveBooking == \A p \in Riders : Cardinality(ActiveOf(p)) <= 1

Waits(b) == bookings[b].status = "pending" /\ bookings[b].card
EndsOrder(r) ==
    r \in Rides /\ \/ rides'[r] # rides[r]
                   \/ \E b \in Books : bookings[b].ride = r /\ bookings[b] # bookings'[b]

\* A booking that waits in the chat expires: its timer is armed when it is published,
\* anew when the driver gives it back, and is not lost as long as it waits, unless an
\* order of the same number ends and takes the timers of that number with it.
PendingExpires ==
    [][\A b \in DOMAIN bookings' :
         Waits(b)' /\ b \notin expiry' =>
             (b \in Books /\ Waits(b) /\ b \notin expiry) \/ EndsOrder(b)]_bookingVars

\* The booking ends with its ride: once the ride is completed, by whichever driver
\* after a breakdown, no booking of it blocks the passenger or can be cancelled.
CompletedEndsBooking ==
    \A b \in Books :
        bookings[b].status = "driver_en_route" => rides[bookings[b].ride].status # "completed"
=============================================================================
