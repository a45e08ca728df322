----------------------------- MODULE Deliveries -----------------------------
(***************************************************************************)
(* Deliveries (bot/delivery_service.py and its handlers).                  *)
(*                                                                         *)
(* The driver who takes a delivery names a price; the customer agrees or   *)
(* declines, and silence declines.  A dispatcher agrees at once.  From the *)
(* drivers' chat a delivery is taken without a price.                      *)
(*                                                                         *)
(* Not every transaction locks the order before it reads it.  The ones     *)
(* that do are one step.  The others (the price, the purchase and the end  *)
(* of the driver, the cancellation of the passenger) are two: what they    *)
(* have read, and the columns they write on that ground.                   *)
(***************************************************************************)

EXTENDS Users

VARIABLES
    parcel,  \* the row of the order
    carded,  \* the customer has got a card with a price; it stays pressable
    timer,   \* the "delivery" timer is armed
    late,    \* its callback has started and waits for the row of the order
    asking,  \* what the bot asks each driver for (the FSM state)
    spot,    \* the row of each driver on the line
    reads    \* what the open transaction of a driver, or of the customer, has read

deliveryVars == <<parcel, carded, timer, late, asking, spot, reads>>

Going == {"assigned", "in_progress"}
Parcel == [status: Going \cup {"searching", "chat_search", "completed", "cancelled"},
           driver: Cabs \cup {Nobody},   \* driver_id
           price: Cabs \cup {Nobody},    \* the driver who has named the price
           confirmed: BOOLEAN,           \* actuality_confirmed
           temp: BOOLEAN,                \* chat_driver_was_offline
           caller: BOOLEAN,              \* ordered by a dispatcher
           overtaken: BOOLEAN]           \* cancelled on what was true before
Customer == "customer"
ASSUME CustomerAssumption == Customer \notin Cabs
Actions == {"price", "bought", "finish", "cancel"}
NotReading == [act |-> "none"]
Asking == {"menu", "price", "eta", "ride", "line"}

DeliveriesInit ==
    /\ parcel \in [status: {"searching"}, driver: {Nobody}, price: {Nobody},
                   confirmed: {FALSE}, temp: {FALSE}, caller: BOOLEAN, overtaken: {FALSE}]
    /\ carded = FALSE /\ timer = FALSE /\ late = FALSE
    /\ asking = [d \in Cabs |-> "menu"]
    /\ spot \in [Cabs -> {"off", "waiting"}]
    /\ reads = [w \in Cabs \cup {Customer} |-> NotReading]

---------------------------------------------------------------------------
(* The line and the taking of the order. *)

Stands(d, where) == spot' = IF d = Nobody THEN spot ELSE [spot EXCEPT ![d] = where]
Asks(d, what) == asking' = IF d = Nobody THEN asking ELSE [asking EXCEPT ![d] = what]
NothingRead(d) == reads[d] = NotReading

\* A driver without a ride goes on the line and off it.
MovesOnLine(d) ==
    /\ NothingRead(d) /\ spot[d] # "assigned"
    /\ \E where \in {"off", "waiting", "away"} :
         where # spot[d] /\ (where = "away" => spot[d] = "waiting") /\ Stands(d, where)
    /\ asking' = [asking EXCEPT ![d] = "menu"]
    /\ UNCHANGED <<parcel, carded, timer, late, reads>>

\* Nobody on the line takes it: the drivers' chat.
PublishDelivery ==
    /\ parcel.status = "searching"
    /\ parcel' = [parcel EXCEPT !.status = "chat_search"]
    /\ UNCHANGED <<carded, timer, late, asking, spot, reads>>

MayTake(d) == NothingRead(d) /\ spot[d] # "assigned" /\ parcel.driver = Nobody

\* driver_accept, driver_take_pending: request_price.
AcceptDelivery(d) ==
    /\ MayTake(d) /\ parcel.status \in {"searching", "chat_search"}
    /\ parcel' = [parcel EXCEPT !.status = "assigned", !.driver = d, !.temp = FALSE]
    /\ Stands(d, "assigned") /\ Asks(d, "price")
    /\ UNCHANGED <<carded, timer, late, reads>>

\* driver_take_from_chat: the arrival menu, and no price.
TakeFromChat(d) ==
    /\ MayTake(d) /\ parcel.status \in {"searching", "chat_search"}
    /\ parcel' = [parcel EXCEPT !.status = "assigned", !.driver = d,
                                !.temp = (spot[d] = "off")]
    /\ Stands(d, "assigned") /\ Asks(d, "eta")
    /\ UNCHANGED <<carded, timer, late, reads>>

---------------------------------------------------------------------------
(* The price and the answer. *)

ReadsOrder(who, act) == reads' = [reads EXCEPT ![who] = [act |-> act, seen |-> parcel]]
Reading(who, act) == reads[who] # NotReading /\ reads[who].act = act
Ends(who) == reads' = [reads EXCEPT ![who] = NotReading]

\* _order_for_driver.
PriceReads(d) ==
    /\ NothingRead(d) /\ asking[d] = "price"
    /\ parcel.driver = d /\ parcel.status \in {"assigned", "searching"}
    /\ ReadsOrder(d, "price")
    /\ UNCHANGED <<parcel, carded, timer, late, asking, spot>>

\* Mutant of Flushed: every column that is assigned is written.
FlushedAlways(now, seen, new) == new

\* A column at the commit: written if the new value differs from the one read.
Flushed(now, seen, new) == IF seen = new THEN now ELSE new

\* The rest of submit_price.  The dispatcher's order is confirmed at once.
PriceCommits(d) ==
    /\ Reading(d, "price")
    /\ LET seen == reads[d].seen
           agreed == seen.caller
       IN  /\ parcel' = [parcel EXCEPT
                !.price = Flushed(@, seen.price, d),
                !.confirmed = Flushed(@, seen.confirmed, agreed)]
           /\ Asks(d, IF agreed THEN "eta" ELSE "ride")
           /\ carded' = (carded \/ ~agreed)
           /\ timer' = (timer \/ ~agreed)
    /\ Ends(d)
    /\ UNCHANGED <<late, spot>>

Answerable == parcel.status \in {"assigned", "searching"} /\ ~parcel.confirmed

\* _confirm.
Agree ==
    /\ parcel' = [parcel EXCEPT !.status = "assigned", !.confirmed = TRUE]
    /\ Asks(parcel.driver, "eta")
    /\ UNCHANGED spot

\* Mutant of Decline: the driver is not put back into the queue.
DeclineKeeps ==
    /\ parcel' = [parcel EXCEPT !.status = "cancelled"]
    /\ UNCHANGED spot
    /\ Asks(parcel.driver, "menu")

\* _decline.
Decline ==
    /\ parcel' = [parcel EXCEPT !.status = "cancelled"]
    /\ Stands(parcel.driver, IF parcel.temp THEN "off" ELSE "waiting")
    /\ Asks(parcel.driver, "menu")

\* passenger_response, under the lock of the row.
Respond ==
    /\ carded /\ Answerable
    /\ timer' = FALSE
    /\ Agree \/ Decline
    /\ UNCHANGED <<carded, late, reads>>

\* The scheduler takes the callback; it may wait for the row while it is answered.
TimeoutStarts ==
    /\ timer /\ ~late
    /\ timer' = FALSE /\ late' = TRUE
    /\ UNCHANGED <<parcel, carded, asking, spot, reads>>

\* _confirm_timeout.
TimeoutRuns ==
    /\ late /\ late' = FALSE
    /\ IF Answerable THEN Decline ELSE UNCHANGED <<parcel, asking, spot>>
    /\ UNCHANGED <<carded, timer, reads>>

---------------------------------------------------------------------------
(* The ride. *)

MyRide(d) == NothingRead(d) /\ parcel.driver = d /\ parcel.status \in Going

\* _apply_eta, and the way back to the ride from another screen.
SetsOut(d) ==
    /\ MyRide(d) /\ asking[d] # "ride"
    /\ Asks(d, "ride")
    /\ UNCHANGED <<parcel, carded, timer, late, spot, reads>>

\* active_order_for, at the start of driver_bought and of driver_finish_prompt.
RideReads(d) ==
    /\ MyRide(d)
    /\ \E act \in {"bought", "finish"} : ReadsOrder(d, act)
    /\ UNCHANGED <<parcel, carded, timer, late, asking, spot>>

\* driver_bought.
BoughtCommits(d) ==
    /\ Reading(d, "bought")
    /\ parcel' = [parcel EXCEPT !.status =
                    Flushed(@, reads[d].seen.status, "in_progress")]
    /\ Asks(d, "ride") /\ Ends(d)
    /\ UNCHANGED <<carded, timer, late, spot>>

\* driver_complete_delivery, whether or not a price was agreed; a driver
\* from the chat leaves the line.
FinishCommits(d) ==
    /\ Reading(d, "finish")
    /\ parcel' = [parcel EXCEPT !.status = "completed"]
    /\ timer' = FALSE
    /\ Stands(d, IF reads[d].seen.temp THEN "off" ELSE "away")
    /\ Asks(d, "line") /\ Ends(d)
    /\ UNCHANGED <<carded, late>>

\* driver_cancel_active, which locks and reads anew: the client cancels or does not
\* come, or the car has broken down; the order of a driver from the chat ends then.
DriverCancels(d, reason) ==
    /\ MyRide(d)
    /\ timer' = FALSE
    /\ parcel' = IF reason = "car" /\ ~parcel.temp
                 THEN [parcel EXCEPT !.status = "searching", !.driver = Nobody]
                 ELSE [parcel EXCEPT !.status = "cancelled"]
    /\ Stands(d, IF parcel.temp THEN "off" ELSE "away") /\ Asks(d, "line")
    /\ UNCHANGED <<carded, late, reads>>

---------------------------------------------------------------------------
(* The customer cancels. *)

Frees(d) == Stands(d, "waiting") /\ Asks(d, "menu")

\* disp_cancel_order locks before it reads.
DispatcherCancels ==
    /\ parcel.caller /\ parcel.status \in Going \cup {"searching", "chat_search"}
    /\ parcel' = [parcel EXCEPT !.status = "cancelled"]
    /\ timer' = FALSE
    /\ Frees(parcel.driver)
    /\ UNCHANGED <<carded, late, reads>>

\* passenger_cancel reads the order, and locks it without reading it anew.
CancelReads ==
    /\ ~parcel.caller /\ NothingRead(Customer)
    /\ parcel.status \in {"searching", "chat_search", "assigned"}
    /\ ReadsOrder(Customer, "cancel")
    /\ UNCHANGED <<parcel, carded, timer, late, asking, spot>>

CancelCommits ==
    /\ Reading(Customer, "cancel")
    /\ LET seen == reads[Customer].seen
       IN  /\ parcel' = [parcel EXCEPT !.status = "cancelled",
                            !.overtaken = (seen.driver # parcel.driver)]
           /\ Frees(seen.driver)
    /\ timer' = FALSE
    /\ Ends(Customer)
    /\ UNCHANGED <<carded, late>>

DeliveriesNext ==
    \/ PublishDelivery \/ Respond \/ TimeoutStarts \/ TimeoutRuns
    \/ DispatcherCancels \/ CancelReads \/ CancelCommits
    \/ \E d \in Cabs :
         \/ MovesOnLine(d) \/ AcceptDelivery(d) \/ TakeFromChat(d)
         \/ PriceReads(d) \/ PriceCommits(d) \/ SetsOut(d)
         \/ RideReads(d) \/ BoughtCommits(d) \/ FinishCommits(d)
         \/ \E reason \in {"customer_cancel", "no_show", "car"} : DriverCancels(d, reason)

DeliveriesSpec == DeliveriesInit /\ [][DeliveriesNext]_deliveryVars

---------------------------------------------------------------------------
(* Properties. *)

DeliveriesTypeOK ==
    /\ parcel \in Parcel
    /\ carded \in BOOLEAN /\ timer \in BOOLEAN /\ late \in BOOLEAN
    /\ asking \in [Cabs -> Asking]
    /\ spot \in [Cabs -> {"off", "waiting", "away", "assigned"}]
    /\ reads \in [Cabs \cup {Customer} -> {NotReading} \cup [act: Actions, seen: Parcel]]

\* A driver whose row says he is busy is busy: the order is his and open.  So nobody
\* is lost for the line when a price is declined, runs out or comes too late, the
\* customer cancels, or a card of an earlier price is pressed; the one exception is a
\* passenger's cancellation that had read the order before another driver took it.
BusyHasDelivery ==
    \A d \in Cabs :
        spot[d] = "assigned" =>
            (parcel.driver = d /\ parcel.status \in Going) \/ parcel.overtaken

\* A driver carries out the delivery at the price he has named, and it is agreed to.
Agreed(d) ==
    /\ parcel.driver = d /\ parcel.status \in Going
    /\ parcel.price = d /\ parcel.confirmed
    /\ asking[d] # "price" /\ spot[d] = "assigned"

\* What is agreed ends when the driver completes or cancels the delivery, or the
\* customer cancels it, and in no other way: neither a timeout that waited for the row,
\* nor a second press of the card, nor a price whose transaction had read the order
\* before the customer agreed, nor another driver undoes it, or calls the driver back.
AgreementBinds ==
    [][\A d \in Cabs : Agreed(d) /\ ~Agreed(d)' =>
         \/ FinishCommits(d)
         \/ \E reason \in {"customer_cancel", "no_show", "car"} : DriverCancels(d, reason)
         \/ DispatcherCancels \/ CancelCommits]_deliveryVars
=============================================================================
