-------------------------- MODULE Services_proofs --------------------------
(***************************************************************************)
(* What holds of the two services that leave a mark on a driver's row of   *)
(* the line, for any users: of a delivery, and of the orders of passengers *)
(* who choose their driver.                                                *)
(***************************************************************************)
EXTENDS Deliveries, PersonalOrders, TLAPS

(***************************************************************************)
(* Deliveries: whose row on the line says he is busy has the delivery, and *)
(* what driver and customer have agreed to stands.                         *)
(***************************************************************************)
\* The inductive invariant.  Only the driver of the order is busy, open or overtaken
\* as it may be; and a driver whose transaction is open has the order still, for
\* nobody but himself takes it from him.
BusyIsDriver ==
    \A d \in Cabs :
        spot[d] = "assigned" =>
            parcel.driver = d /\ (parcel.status \in Going \/ parcel.overtaken)
ReaderIsDriver == \A d \in Cabs : reads[d] # NotReading => parcel.driver = d

DeliveryInv == DeliveriesTypeOK /\ BusyIsDriver /\ ReaderIsDriver

---------------------------------------------------------------------------
(* The line, the menus and the open transactions. *)

LEMMA StandsRow ==
  ASSUME DeliveriesTypeOK, NEW d \in Cabs \cup {Nobody},
         NEW where \in {"off", "waiting", "away", "assigned"}, Stands(d, where)
  PROVE  /\ spot' \in [Cabs -> {"off", "waiting", "away", "assigned"}]
         /\ \A e \in Cabs : spot'[e] = IF e = d THEN where ELSE spot[e]
BY RidersAssumption DEF DeliveriesTypeOK, Stands

LEMMA AsksType ==
  ASSUME DeliveriesTypeOK, NEW d \in Cabs \cup {Nobody}, NEW what \in Asking, Asks(d, what)
  PROVE  asking' \in [Cabs -> Asking]
BY RidersAssumption DEF DeliveriesTypeOK, Asks

LEMMA ReadsType ==
  ASSUME DeliveriesTypeOK, NEW who \in Cabs \cup {Customer}
  PROVE  /\ \A act \in Actions : ReadsOrder(who, act) =>
              /\ reads' \in [Cabs \cup {Customer} -> {NotReading} \cup [act: Actions, seen: Parcel]]
              /\ \A e \in (Cabs \cup {Customer}) \ {who} : reads'[e] = reads[e]
         /\ Ends(who) =>
              /\ reads' \in [Cabs \cup {Customer} -> {NotReading} \cup [act: Actions, seen: Parcel]]
              /\ reads'[who] = NotReading
              /\ \A e \in (Cabs \cup {Customer}) \ {who} : reads'[e] = reads[e]
         /\ \A act \in Actions : Reading(who, act) =>
              reads[who] # NotReading /\ reads[who].seen \in Parcel
<1>1. ASSUME NEW act \in Actions, ReadsOrder(who, act)
      PROVE  /\ reads' \in [Cabs \cup {Customer} -> {NotReading} \cup [act: Actions, seen: Parcel]]
             /\ \A e \in (Cabs \cup {Customer}) \ {who} : reads'[e] = reads[e]
  <2>1. [act |-> act, seen |-> parcel] \in [act: Actions, seen: Parcel]
    BY DEF DeliveriesTypeOK
  <2> QED  BY <1>1, <2>1 DEF ReadsOrder, DeliveriesTypeOK
<1>2. ASSUME Ends(who)
      PROVE  /\ reads' \in [Cabs \cup {Customer} -> {NotReading} \cup [act: Actions, seen: Parcel]]
             /\ reads'[who] = NotReading
             /\ \A e \in (Cabs \cup {Customer}) \ {who} : reads'[e] = reads[e]
  BY <1>2 DEF Ends, DeliveriesTypeOK
<1>3. ASSUME NEW act \in Actions, Reading(who, act)
      PROVE  reads[who] # NotReading /\ reads[who].seen \in Parcel
  BY <1>3 DEF Reading, DeliveriesTypeOK
<1> QED  BY <1>1, <1>2, <1>3

\* The order changes, its driver and its overtaking do not, and he alone moves on the
\* line: he leaves it, or the order is still open.
LEMMA SameDriver ==
  ASSUME DeliveryInv, parcel' \in Parcel, parcel'.driver = parcel.driver,
         parcel'.overtaken = parcel.overtaken,
         \A d \in Cabs : \/ spot'[d] = spot[d] /\ (parcel.status \in Going => parcel'.status \in Going)
                         \/ spot'[d] # "assigned"
                         \/ spot'[d] = spot[d] /\ parcel.driver # d,
         \A d \in Cabs : reads'[d] \in {reads[d], NotReading}
  PROVE  BusyIsDriver' /\ ReaderIsDriver'
BY DEF DeliveryInv, BusyIsDriver, ReaderIsDriver

---------------------------------------------------------------------------
(* The drivers. *)

LEMMA LineInv ==
  ASSUME DeliveryInv, NEW d \in Cabs, MovesOnLine(d)  PROVE DeliveryInv'
<1>1. PICK where \in {"off", "waiting", "away"} : Stands(d, where)
  BY DEF MovesOnLine
<1>2. /\ DeliveriesTypeOK /\ NothingRead(d) /\ asking' = [asking EXCEPT ![d] = "menu"]
      /\ UNCHANGED <<parcel, carded, timer, late, reads>>
  BY DEF MovesOnLine, DeliveryInv
<1>3. /\ spot' \in [Cabs -> {"off", "waiting", "away", "assigned"}]
      /\ \A e \in Cabs : spot'[e] = IF e = d THEN where ELSE spot[e]
  BY <1>1, <1>2, StandsRow
<1>4. DeliveriesTypeOK'
  BY <1>2, <1>3 DEF DeliveriesTypeOK, Asking
<1>5. BusyIsDriver' /\ ReaderIsDriver'
  BY <1>2, <1>3, SameDriver DEF DeliveriesTypeOK
<1> QED  BY <1>4, <1>5 DEF DeliveryInv

\* Who takes the order finds it without a driver: nobody is busy, nobody is reading.
LEMMA TakeInv ==
  ASSUME DeliveryInv, NEW d \in Cabs, AcceptDelivery(d) \/ TakeFromChat(d)
  PROVE  DeliveryInv'
<1>1. /\ DeliveriesTypeOK /\ NothingRead(d) /\ parcel.driver = Nobody
      /\ UNCHANGED <<carded, timer, late, reads>>
      /\ Stands(d, "assigned") /\ (Asks(d, "price") \/ Asks(d, "eta"))
      /\ parcel' = [parcel EXCEPT !.status = "assigned", !.driver = d, !.temp = parcel'.temp]
      /\ parcel'.temp \in BOOLEAN
  BY DEF AcceptDelivery, TakeFromChat, MayTake, DeliveryInv, DeliveriesTypeOK, Parcel
<1>2. parcel' \in Parcel /\ parcel'.driver = d /\ parcel'.status = "assigned"
  BY <1>1 DEF DeliveriesTypeOK, Parcel, Going
<1>3. asking' \in [Cabs -> Asking]
  BY <1>1, AsksType DEF Asking
<1>4. /\ spot' \in [Cabs -> {"off", "waiting", "away", "assigned"}]
      /\ \A e \in Cabs : spot'[e] = IF e = d THEN "assigned" ELSE spot[e]
  BY <1>1, StandsRow
<1>5. DeliveriesTypeOK'
  BY <1>1, <1>2, <1>3, <1>4 DEF DeliveriesTypeOK
<1>6. \A e \in Cabs : spot[e] # "assigned" /\ reads[e] = NotReading
  BY <1>1, RidersAssumption DEF DeliveryInv, BusyIsDriver, ReaderIsDriver
<1>7. BusyIsDriver'
  BY <1>2, <1>4, <1>6 DEF BusyIsDriver, Going
<1>8. ReaderIsDriver'
  BY <1>1, <1>6 DEF ReaderIsDriver
<1> QED  BY <1>5, <1>7, <1>8 DEF DeliveryInv

LEMMA ReadInv ==
  ASSUME DeliveryInv, NEW d \in Cabs, PriceReads(d) \/ RideReads(d)  PROVE DeliveryInv'
<1>1. PICK act \in Actions : ReadsOrder(d, act)
  BY DEF PriceReads, RideReads, Actions
<1>2. /\ DeliveriesTypeOK /\ parcel.driver = d
      /\ UNCHANGED <<parcel, carded, timer, late, asking, spot>>
  BY DEF PriceReads, RideReads, MyRide, DeliveryInv
<1>3. /\ reads' \in [Cabs \cup {Customer} -> {NotReading} \cup [act: Actions, seen: Parcel]]
      /\ \A e \in (Cabs \cup {Customer}) \ {d} : reads'[e] = reads[e]
  BY <1>1, <1>2, ReadsType
<1>4. DeliveriesTypeOK'
  BY <1>2, <1>3 DEF DeliveriesTypeOK
<1>5. BusyIsDriver' /\ ReaderIsDriver'
  BY <1>2, <1>3 DEF DeliveryInv, BusyIsDriver, ReaderIsDriver
<1> QED  BY <1>4, <1>5 DEF DeliveryInv

LEMMA PriceInv ==
  ASSUME DeliveryInv, NEW d \in Cabs, PriceCommits(d)  PROVE DeliveryInv'
<1> DEFINE seen == reads[d].seen
<1>1. /\ DeliveriesTypeOK /\ Reading(d, "price")
      /\ parcel' = [parcel EXCEPT
                !.price = IF seen.price = d THEN @ ELSE d,
                !.confirmed = IF seen.confirmed = seen.caller THEN @ ELSE seen.caller]
      /\ Asks(d, "eta") \/ Asks(d, "ride")
      /\ carded' = (carded \/ ~seen.caller) /\ timer' = (timer \/ ~seen.caller)
      /\ Ends(d) /\ UNCHANGED <<late, spot>>
  BY DEF PriceCommits, Flushed, DeliveryInv
<1>2. seen \in Parcel
  BY <1>1, ReadsType DEF Actions
<1>3. /\ parcel' \in Parcel /\ parcel'.driver = parcel.driver
      /\ parcel'.status = parcel.status /\ parcel'.overtaken = parcel.overtaken
  <2> HIDE DEF seen
  <2>1. seen.caller \in BOOLEAN
    BY <1>2 DEF Parcel
  <2> QED  BY <1>1, <2>1 DEF DeliveriesTypeOK, Parcel
<1>4. asking' \in [Cabs -> Asking]
  BY <1>1, AsksType DEF Asking
<1>5. /\ reads' \in [Cabs \cup {Customer} -> {NotReading} \cup [act: Actions, seen: Parcel]]
      /\ reads'[d] = NotReading
      /\ \A e \in (Cabs \cup {Customer}) \ {d} : reads'[e] = reads[e]
  BY <1>1, ReadsType
<1>6. carded' \in BOOLEAN /\ timer' \in BOOLEAN
  BY <1>1
<1>7. DeliveriesTypeOK'
  BY <1>1, <1>3, <1>4, <1>5, <1>6 DEF DeliveriesTypeOK
<1>8. BusyIsDriver' /\ ReaderIsDriver'
  BY <1>1, <1>3, <1>5, SameDriver
<1> QED  BY <1>7, <1>8 DEF DeliveryInv

LEMMA SetsOutInv ==
  ASSUME DeliveryInv, NEW d \in Cabs, SetsOut(d)  PROVE DeliveryInv'
<1>1. DeliveriesTypeOK /\ Asks(d, "ride") /\ UNCHANGED <<parcel, carded, timer, late, spot, reads>>
  BY DEF SetsOut, DeliveryInv
<1>2. asking' \in [Cabs -> Asking]
  BY <1>1, AsksType DEF Asking
<1>3. DeliveriesTypeOK'
  BY <1>1, <1>2 DEF DeliveriesTypeOK
<1> QED  BY <1>1, <1>3 DEF DeliveryInv, BusyIsDriver, ReaderIsDriver

LEMMA BoughtInv ==
  ASSUME DeliveryInv, NEW d \in Cabs, BoughtCommits(d)  PROVE DeliveryInv'
<1>1. /\ DeliveriesTypeOK /\ Asks(d, "ride") /\ Ends(d)
      /\ UNCHANGED <<carded, timer, late, spot>>
      /\ parcel' = [parcel EXCEPT !.status =
                       IF reads[d].seen.status = "in_progress" THEN @ ELSE "in_progress"]
  BY DEF BoughtCommits, Flushed, DeliveryInv
<1>2. /\ parcel' \in Parcel /\ parcel'.driver = parcel.driver
      /\ parcel'.overtaken = parcel.overtaken /\ parcel'.status \in {parcel.status, "in_progress"}
  BY <1>1 DEF DeliveriesTypeOK, Parcel, Going
<1>3. asking' \in [Cabs -> Asking]
  BY <1>1, AsksType DEF Asking
<1>4. /\ reads' \in [Cabs \cup {Customer} -> {NotReading} \cup [act: Actions, seen: Parcel]]
      /\ reads'[d] = NotReading
      /\ \A e \in (Cabs \cup {Customer}) \ {d} : reads'[e] = reads[e]
  BY <1>1, ReadsType
<1>5. DeliveriesTypeOK'
  BY <1>1, <1>2, <1>3, <1>4 DEF DeliveriesTypeOK
<1>6. BusyIsDriver' /\ ReaderIsDriver'
  BY <1>1, <1>2, <1>4, SameDriver DEF Going
<1> QED  BY <1>5, <1>6 DEF DeliveryInv

\* The driver who finishes has the order, so he is the only one it can free.
LEMMA FinishInv ==
  ASSUME DeliveryInv, NEW d \in Cabs, FinishCommits(d)  PROVE DeliveryInv'
<1>1. /\ DeliveriesTypeOK /\ Reading(d, "finish") /\ Asks(d, "line") /\ Ends(d)
      /\ parcel' = [parcel EXCEPT !.status = "completed"]
      /\ timer' = FALSE /\ UNCHANGED <<carded, late>>
      /\ Stands(d, "off") \/ Stands(d, "away")
  BY DEF FinishCommits, DeliveryInv
<1>2. parcel.driver = d
  BY <1>1 DEF Reading, DeliveryInv, ReaderIsDriver
<1>3. /\ parcel' \in Parcel /\ parcel'.driver = parcel.driver
      /\ parcel'.overtaken = parcel.overtaken
  BY <1>1 DEF DeliveriesTypeOK, Parcel
<1>4. asking' \in [Cabs -> Asking]
  BY <1>1, AsksType DEF Asking
<1>5. /\ reads' \in [Cabs \cup {Customer} -> {NotReading} \cup [act: Actions, seen: Parcel]]
      /\ reads'[d] = NotReading
      /\ \A e \in (Cabs \cup {Customer}) \ {d} : reads'[e] = reads[e]
  BY <1>1, ReadsType
<1>6. /\ spot' \in [Cabs -> {"off", "waiting", "away", "assigned"}]
      /\ spot'[d] # "assigned" /\ \A e \in Cabs \ {d} : spot'[e] = spot[e]
  BY <1>1, StandsRow
<1>7. DeliveriesTypeOK'
  BY <1>1, <1>3, <1>4, <1>5, <1>6 DEF DeliveriesTypeOK
<1>8. BusyIsDriver' /\ ReaderIsDriver'
  BY <1>2, <1>3, <1>5, <1>6, SameDriver
<1> QED  BY <1>7, <1>8 DEF DeliveryInv

\* A driver who gives the order back has no transaction open, nor has another.
LEMMA DriverCancelsInv ==
  ASSUME DeliveryInv, NEW d \in Cabs, NEW reason, DriverCancels(d, reason)  PROVE DeliveryInv'
<1>1. /\ DeliveriesTypeOK /\ NothingRead(d) /\ parcel.driver = d
      /\ timer' = FALSE /\ UNCHANGED <<carded, late, reads>> /\ Asks(d, "line")
      /\ Stands(d, "off") \/ Stands(d, "away")
      /\ \/ parcel' = [parcel EXCEPT !.status = "searching", !.driver = Nobody]
         \/ parcel' = [parcel EXCEPT !.status = "cancelled"]
  BY DEF DriverCancels, MyRide, DeliveryInv
<1>2. parcel' \in Parcel
  BY <1>1 DEF DeliveriesTypeOK, Parcel
<1>3. asking' \in [Cabs -> Asking]
  BY <1>1, AsksType DEF Asking
<1>4. /\ spot' \in [Cabs -> {"off", "waiting", "away", "assigned"}]
      /\ spot'[d] # "assigned" /\ \A e \in Cabs \ {d} : spot'[e] = spot[e]
  BY <1>1, StandsRow
<1>5. DeliveriesTypeOK'
  BY <1>1, <1>2, <1>3, <1>4 DEF DeliveriesTypeOK
<1>6. \A e \in Cabs : reads'[e] = NotReading
  BY <1>1 DEF NothingRead, DeliveryInv, ReaderIsDriver
<1>7. \A e \in Cabs : spot'[e] # "assigned"
  BY <1>1, <1>4 DEF DeliveryInv, BusyIsDriver
<1> QED  BY <1>5, <1>6, <1>7 DEF DeliveryInv, BusyIsDriver, ReaderIsDriver

---------------------------------------------------------------------------
(* The answer and the end. *)

LEMMA AgreeInv ==
  ASSUME DeliveryInv, Agree, UNCHANGED <<late, reads>>, carded' \in BOOLEAN, timer' \in BOOLEAN
  PROVE  DeliveryInv'
<1>1. /\ DeliveriesTypeOK /\ Asks(parcel.driver, "eta") /\ spot' = spot
      /\ parcel' = [parcel EXCEPT !.status = "assigned", !.confirmed = TRUE]
      /\ parcel.driver \in Cabs \cup {Nobody}
  BY DEF Agree, DeliveryInv, DeliveriesTypeOK, Parcel
<1>2. /\ parcel' \in Parcel /\ parcel'.driver = parcel.driver
      /\ parcel'.overtaken = parcel.overtaken /\ parcel'.status = "assigned"
  BY <1>1 DEF DeliveriesTypeOK, Parcel, Going
<1>3. asking' \in [Cabs -> Asking]
  BY <1>1, AsksType DEF Asking
<1>4. DeliveriesTypeOK'
  BY <1>1, <1>2, <1>3 DEF DeliveriesTypeOK
<1>5. BusyIsDriver' /\ ReaderIsDriver'
  BY <1>1, <1>2, SameDriver DEF Going
<1> QED  BY <1>4, <1>5 DEF DeliveryInv

\* The order is closed and the driver it names leaves it.
LEMMA ClosedInv ==
  ASSUME DeliveryInv, parcel' = [parcel EXCEPT !.status = "cancelled"],
         NEW where \in {"off", "waiting"}, Stands(parcel.driver, where),
         Asks(parcel.driver, "menu"), UNCHANGED reads,
         carded' \in BOOLEAN, timer' \in BOOLEAN, late' \in BOOLEAN
  PROVE  DeliveryInv'
<1>1. DeliveriesTypeOK /\ parcel.driver \in Cabs \cup {Nobody}
  BY DEF DeliveryInv, DeliveriesTypeOK, Parcel
<1>2. /\ parcel' \in Parcel /\ parcel'.driver = parcel.driver
      /\ parcel'.overtaken = parcel.overtaken
  BY <1>1 DEF DeliveriesTypeOK, Parcel
<1>3. asking' \in [Cabs -> Asking]
  BY <1>1, AsksType DEF Asking
<1>4. /\ spot' \in [Cabs -> {"off", "waiting", "away", "assigned"}]
      /\ \A e \in Cabs : spot'[e] = IF e = parcel.driver THEN where ELSE spot[e]
  BY <1>1, StandsRow
<1>5. DeliveriesTypeOK'
  BY <1>1, <1>2, <1>3, <1>4 DEF DeliveriesTypeOK
<1>6. BusyIsDriver' /\ ReaderIsDriver'
  BY <1>2, <1>4, SameDriver
<1> QED  BY <1>5, <1>6 DEF DeliveryInv

LEMMA DeclineInv ==
  ASSUME DeliveryInv, Decline, UNCHANGED reads,
         carded' \in BOOLEAN, timer' \in BOOLEAN, late' \in BOOLEAN
  PROVE  DeliveryInv'
<1>1. PICK where \in {"off", "waiting"} : Stands(parcel.driver, where)
  BY DEF Decline
<1> QED  BY <1>1, ClosedInv DEF Decline

\* What the customer's cancellation has read may name a driver who has left: the
\* order is then marked as overtaken, and its new driver stays busy.
LEMMA CancelCommitsInv ==
  ASSUME DeliveryInv, CancelCommits  PROVE DeliveryInv'
<1> DEFINE seen == reads[Customer].seen
<1>1. /\ DeliveriesTypeOK /\ Reading(Customer, "cancel") /\ Ends(Customer) /\ timer' = FALSE
      /\ UNCHANGED <<carded, late>> /\ Stands(seen.driver, "waiting") /\ Asks(seen.driver, "menu")
      /\ parcel' = [parcel EXCEPT !.status = "cancelled",
                                  !.overtaken = (seen.driver # parcel.driver)]
  BY DEF CancelCommits, Frees, DeliveryInv
<1>2. seen.driver \in Cabs \cup {Nobody}
  BY <1>1, ReadsType DEF Actions, Parcel
<1> HIDE DEF seen
<1>3. /\ parcel' \in Parcel /\ parcel'.driver = parcel.driver
      /\ parcel'.overtaken = (seen.driver # parcel.driver)
  BY <1>1 DEF DeliveriesTypeOK, Parcel
<1>4. asking' \in [Cabs -> Asking]
  BY <1>1, <1>2, AsksType DEF Asking
<1>5. /\ spot' \in [Cabs -> {"off", "waiting", "away", "assigned"}]
      /\ \A e \in Cabs : spot'[e] = IF e = seen.driver THEN "waiting" ELSE spot[e]
  BY <1>1, <1>2, StandsRow
<1>6. /\ reads' \in [Cabs \cup {Customer} -> {NotReading} \cup [act: Actions, seen: Parcel]]
      /\ \A e \in Cabs : reads'[e] = reads[e]
  BY <1>1, ReadsType, CustomerAssumption
<1>7. DeliveriesTypeOK'
  BY <1>1, <1>3, <1>4, <1>5, <1>6 DEF DeliveriesTypeOK
<1>8. BusyIsDriver'
  BY <1>3, <1>5 DEF DeliveryInv, BusyIsDriver
<1>9. ReaderIsDriver'
  BY <1>3, <1>6 DEF DeliveryInv, ReaderIsDriver
<1> QED  BY <1>7, <1>8, <1>9 DEF DeliveryInv

LEMMA CancelReadsInv ==
  ASSUME DeliveryInv, CancelReads  PROVE DeliveryInv'
<1>1. /\ DeliveriesTypeOK /\ ReadsOrder(Customer, "cancel")
      /\ UNCHANGED <<parcel, carded, timer, late, asking, spot>>
  BY DEF CancelReads, DeliveryInv
<1>2. /\ reads' \in [Cabs \cup {Customer} -> {NotReading} \cup [act: Actions, seen: Parcel]]
      /\ \A e \in Cabs : reads'[e] = reads[e]
  BY <1>1, ReadsType, CustomerAssumption DEF Actions
<1>3. DeliveriesTypeOK'
  BY <1>1, <1>2 DEF DeliveriesTypeOK
<1> QED  BY <1>1, <1>2, <1>3 DEF DeliveryInv, BusyIsDriver, ReaderIsDriver

---------------------------------------------------------------------------
(* The theorems. *)

LEMMA DeliveryInit == DeliveriesInit => DeliveryInv
<1> SUFFICES ASSUME DeliveriesInit  PROVE DeliveryInv
  OBVIOUS
<1>1. parcel \in Parcel
  BY DEF DeliveriesInit, Parcel, Going
<1>2. DeliveriesTypeOK
  BY <1>1 DEF DeliveriesInit, DeliveriesTypeOK, Asking
<1>3. BusyIsDriver /\ ReaderIsDriver
  BY DEF DeliveriesInit, BusyIsDriver, ReaderIsDriver
<1> QED  BY <1>2, <1>3 DEF DeliveryInv

LEMMA DeliveryStep == DeliveryInv /\ [DeliveriesNext]_deliveryVars => DeliveryInv'
<1> SUFFICES ASSUME DeliveryInv, [DeliveriesNext]_deliveryVars  PROVE DeliveryInv'
  OBVIOUS
<1>1. CASE PublishDelivery
  <2>1. /\ parcel.status = "searching" /\ parcel' = [parcel EXCEPT !.status = "chat_search"]
        /\ UNCHANGED <<carded, timer, late, asking, spot, reads>>
    BY <1>1 DEF PublishDelivery
  <2>2. DeliveriesTypeOK' /\ parcel'.driver = parcel.driver /\ parcel'.overtaken = parcel.overtaken
    BY <2>1 DEF DeliveryInv, DeliveriesTypeOK, Parcel
  <2> QED
    BY <2>1, <2>2 DEF DeliveryInv, BusyIsDriver, ReaderIsDriver, Going
<1>2. CASE Respond
  <2>1. Agree \/ Decline
    BY <1>2 DEF Respond
  <2>2. UNCHANGED <<carded, late, reads>> /\ carded' \in BOOLEAN /\ timer' \in BOOLEAN
        /\ late' \in BOOLEAN
    BY <1>2 DEF Respond, DeliveryInv, DeliveriesTypeOK
  <2> QED  BY <2>1, <2>2, AgreeInv, DeclineInv
<1>3. CASE TimeoutStarts
  <2>1. timer' = FALSE /\ late' = TRUE /\ UNCHANGED <<parcel, carded, asking, spot, reads>>
    BY <1>3 DEF TimeoutStarts
  <2> QED  BY <2>1 DEF DeliveryInv, DeliveriesTypeOK, BusyIsDriver, ReaderIsDriver
<1>4. CASE TimeoutRuns
  <2>1. /\ late' = FALSE /\ UNCHANGED <<carded, timer, reads>>
        /\ Decline \/ UNCHANGED <<parcel, asking, spot>>
    BY <1>4 DEF TimeoutRuns
  <2>2. carded' \in BOOLEAN /\ timer' \in BOOLEAN /\ late' \in BOOLEAN
    BY <2>1 DEF DeliveryInv, DeliveriesTypeOK
  <2>3. CASE Decline
    BY <2>1, <2>2, <2>3, DeclineInv
  <2>4. CASE UNCHANGED <<parcel, asking, spot>>
    BY <2>1, <2>2, <2>4 DEF DeliveryInv, DeliveriesTypeOK, BusyIsDriver, ReaderIsDriver
  <2> QED  BY <2>1, <2>3, <2>4
<1>5. CASE DispatcherCancels
  <2>1. /\ parcel' = [parcel EXCEPT !.status = "cancelled"] /\ timer' = FALSE
        /\ Stands(parcel.driver, "waiting") /\ Asks(parcel.driver, "menu")
        /\ UNCHANGED <<carded, late, reads>>
    BY <1>5 DEF DispatcherCancels, Frees
  <2>2. carded' \in BOOLEAN /\ timer' \in BOOLEAN /\ late' \in BOOLEAN
    BY <2>1 DEF DeliveryInv, DeliveriesTypeOK
  <2> QED  BY <2>1, <2>2, ClosedInv
<1>6. CASE CancelReads
  BY <1>6, CancelReadsInv
<1>7. CASE CancelCommits
  BY <1>7, CancelCommitsInv
<1>8. ASSUME NEW d \in Cabs,
             \/ MovesOnLine(d) \/ AcceptDelivery(d) \/ TakeFromChat(d)
             \/ PriceReads(d) \/ PriceCommits(d) \/ SetsOut(d)
             \/ RideReads(d) \/ BoughtCommits(d) \/ FinishCommits(d)
             \/ \E reason \in {"customer_cancel", "no_show", "car"} : DriverCancels(d, reason)
      PROVE  DeliveryInv'
  BY <1>8, LineInv, TakeInv, ReadInv, PriceInv, SetsOutInv, BoughtInv, FinishInv, DriverCancelsInv
<1>9. CASE UNCHANGED deliveryVars
  BY <1>9 DEF deliveryVars, DeliveryInv, DeliveriesTypeOK, BusyIsDriver, ReaderIsDriver
<1> QED  BY <1>1, <1>2, <1>3, <1>4, <1>5, <1>6, <1>7, <1>8, <1>9 DEF DeliveriesNext

\* The inductive invariant holds in every state of every execution.
THEOREM DeliveryInvariant == DeliveriesSpec => []DeliveryInv
BY DeliveryInit, DeliveryStep, PTL DEF DeliveriesSpec

\* No driver is lost for the line: one whose row says he is busy has the delivery, and
\* it is open, whatever transactions of delivery_service.py were open meanwhile.  The
\* exception is the passenger_cancel that had read the order before he took it.
THEOREM BusyDriversDeliver == DeliveriesSpec => []BusyHasDelivery
<1>1. DeliveryInv => BusyHasDelivery
  BY DEF DeliveryInv, BusyIsDriver, BusyHasDelivery
<1> QED  BY <1>1, DeliveryInvariant, PTL

\* Who has read an order that was agreed to, and is about to name a price, is asked for
\* it still, unless the order has been closed meanwhile: nobody answers a second time.
PriceReader ==
    \A d \in Cabs :
        Reading(d, "price") /\ reads[d].seen.confirmed =>
            parcel.confirmed /\ (asking[d] = "price" \/ parcel.status \notin Going)

\* A step leaves the reader of a price what he has read, or ends his transaction.
LEMMA ReadingStays ==
  ASSUME DeliveryInv, DeliveriesNext, NEW d \in Cabs, Reading(d, "price")'
  PROVE  PriceReads(d) \/ reads'[d] = reads[d]
<1>1. /\ reads \in [Cabs \cup {Customer} -> {NotReading} \cup [act: Actions, seen: Parcel]]
      /\ d # Customer
  BY CustomerAssumption DEF DeliveryInv, DeliveriesTypeOK
<1>2. reads'[d] # NotReading /\ reads'[d].act = "price"
  BY DEF Reading
<1>3. CASE UNCHANGED reads
  BY <1>3
<1>4. CASE CancelReads \/ CancelCommits
  BY <1>1, <1>4 DEF CancelReads, CancelCommits, ReadsOrder, Ends
<1>5. ASSUME NEW e \in Cabs, PriceReads(e) \/ RideReads(e)
      PROVE  PriceReads(d) \/ reads'[d] = reads[d]
  <2>1. CASE e = d /\ RideReads(e)
    BY <1>1, <1>2, <2>1 DEF RideReads, ReadsOrder
  <2>2. CASE e # d
    BY <1>1, <1>5, <2>2 DEF PriceReads, RideReads, ReadsOrder
  <2> QED  BY <1>5, <2>1, <2>2
<1>6. ASSUME NEW e \in Cabs, PriceCommits(e) \/ BoughtCommits(e) \/ FinishCommits(e)
      PROVE  reads'[d] = reads[d]
  <2>1. Ends(e)
    BY <1>6 DEF PriceCommits, BoughtCommits, FinishCommits
  <2> QED  BY <1>1, <1>2, <2>1 DEF Ends
<1>7. ASSUME NEW e \in Cabs,
             \/ MovesOnLine(e) \/ AcceptDelivery(e) \/ TakeFromChat(e) \/ SetsOut(e)
             \/ \E reason \in {"customer_cancel", "no_show", "car"} : DriverCancels(e, reason)
      PROVE  UNCHANGED reads
  BY <1>7 DEF MovesOnLine, AcceptDelivery, TakeFromChat, SetsOut, DriverCancels
<1>8. CASE PublishDelivery \/ Respond \/ TimeoutStarts \/ TimeoutRuns \/ DispatcherCancels
  BY <1>8 DEF PublishDelivery, Respond, TimeoutStarts, TimeoutRuns, DispatcherCancels
<1> QED  BY <1>3, <1>4, <1>5, <1>6, <1>7, <1>8 DEF DeliveriesNext

LEMMA PriceReaderStep ==
  DeliveryInv /\ PriceReader /\ [DeliveriesNext]_deliveryVars => PriceReader'
<1> SUFFICES ASSUME DeliveryInv, PriceReader, DeliveriesNext,
                    NEW d \in Cabs, Reading(d, "price")', reads'[d].seen.confirmed
             PROVE  parcel'.confirmed /\ (asking'[d] = "price" \/ parcel'.status \notin Going)
  BY DEF PriceReader, deliveryVars, Reading
<1>1. /\ DeliveriesTypeOK /\ parcel \in Parcel /\ asking \in [Cabs -> Asking]
      /\ reads \in [Cabs \cup {Customer} -> {NotReading} \cup [act: Actions, seen: Parcel]]
      /\ d # Customer /\ d # Nobody
  BY CustomerAssumption, RidersAssumption DEF DeliveryInv, DeliveriesTypeOK
<1>2. CASE PriceReads(d)
  <2>1. reads'[d].seen = parcel
    BY <1>1, <1>2 DEF PriceReads, ReadsOrder
  <2> QED  BY <1>2, <2>1 DEF PriceReads
<1>3. CASE reads'[d] = reads[d]
  <2>1. Reading(d, "price") /\ reads[d].seen.confirmed /\ reads[d] # NotReading
    BY <1>3 DEF Reading
  <2>2. /\ parcel.driver = d
        /\ parcel.confirmed /\ (asking[d] = "price" \/ parcel.status \notin Going)
    BY <2>1 DEF DeliveryInv, ReaderIsDriver, PriceReader
  \* An answered order is not answered again.
  <2>3. CASE Respond \/ TimeoutRuns
    <3>1. UNCHANGED <<parcel, asking>>
      BY <2>2, <2>3 DEF Respond, TimeoutRuns, Answerable
    <3> QED  BY <2>2, <3>1
  \* A closed order asks nothing.
  <2>4. CASE DispatcherCancels \/ CancelCommits
    <3>1. parcel'.status = "cancelled" /\ parcel'.confirmed = parcel.confirmed
      BY <1>1, <2>4 DEF DispatcherCancels, CancelCommits, Parcel
    <3> QED  BY <2>2, <3>1 DEF Going
  <2>5. CASE PublishDelivery \/ TimeoutStarts \/ CancelReads
    <3>1. UNCHANGED asking /\ parcel'.confirmed = parcel.confirmed
          /\ (parcel' = parcel \/ parcel'.status = "chat_search")
      BY <1>1, <2>5 DEF PublishDelivery, TimeoutStarts, CancelReads, Parcel
    <3> QED  BY <2>2, <3>1 DEF Going
  \* The others have no transaction that touches the order of d.
  <2>6. ASSUME NEW e \in Cabs, e # d
        PROVE  /\ ~PriceCommits(e) /\ ~BoughtCommits(e) /\ ~FinishCommits(e)
               /\ ~AcceptDelivery(e) /\ ~TakeFromChat(e)
               /\ \A reason : ~DriverCancels(e, reason)
    <3>1. reads[e] = NotReading
      BY <2>2, <2>6 DEF DeliveryInv, ReaderIsDriver
    <3> QED
      BY <1>1, <2>2, <2>6, <3>1 DEF PriceCommits, BoughtCommits, FinishCommits, Reading,
         AcceptDelivery, TakeFromChat, MayTake, DriverCancels, MyRide
  \* His own is open.
  <2>7. /\ ~AcceptDelivery(d) /\ ~TakeFromChat(d) /\ ~MovesOnLine(d) /\ ~SetsOut(d)
        /\ ~BoughtCommits(d) /\ ~FinishCommits(d) /\ ~PriceCommits(d)
        /\ \A reason : ~DriverCancels(d, reason)
    <3>1. ~Ends(d)
      BY <1>1, <1>3, <2>1 DEF Ends
    <3> QED
      BY <2>1, <3>1 DEF AcceptDelivery, TakeFromChat, MayTake, MovesOnLine, SetsOut, MyRide,
         NothingRead, BoughtCommits, FinishCommits, PriceCommits, DriverCancels
  <2>8. ASSUME NEW e \in Cabs, MovesOnLine(e) \/ SetsOut(e)
        PROVE  parcel' = parcel /\ asking'[d] = asking[d]
    <3>1. e # d
      BY <2>7, <2>8
    <3> QED  BY <1>1, <2>8, <3>1 DEF MovesOnLine, SetsOut, Asks
  <2>9. ASSUME NEW e \in Cabs, PriceReads(e) \/ RideReads(e)
        PROVE  UNCHANGED <<parcel, asking>>
    BY <2>9 DEF PriceReads, RideReads
  <2> QED  BY <2>2, <2>3, <2>4, <2>5, <2>6, <2>7, <2>8, <2>9 DEF DeliveriesNext
<1> QED  BY <1>2, <1>3, ReadingStays

LEMMA PriceReaders == DeliveriesSpec => []PriceReader
<1>1. DeliveriesInit => PriceReader
  BY CustomerAssumption DEF DeliveriesInit, PriceReader, Reading
<1> QED  BY <1>1, PriceReaderStep, DeliveryInvariant, PTL DEF DeliveriesSpec

\* A price is committed by its driver: for another's agreement there is none, and his
\* own transaction leaves the answer, if it came after he had read the order.
LEMMA PriceKeepsAgreement ==
  ASSUME DeliveryInv, PriceReader, NEW d \in Cabs, NEW e \in Cabs, Agreed(d), PriceCommits(e)
  PROVE  Agreed(d)'
<1> DEFINE seen == reads[d].seen
<1>1. e = d /\ Reading(d, "price")
  BY DEF PriceCommits, Reading, Agreed, DeliveryInv, ReaderIsDriver
<1>2. parcel \in Parcel /\ asking \in [Cabs -> Asking] /\ d # Nobody
  BY RidersAssumption DEF DeliveryInv, DeliveriesTypeOK
<1>3. seen \in Parcel
  BY <1>1, ReadsType DEF DeliveryInv, Actions
<1>4. ~seen.confirmed
  BY <1>1 DEF PriceReader, Agreed
<1>5. /\ parcel' = [parcel EXCEPT !.price = IF seen.price = d THEN @ ELSE d,
                                  !.confirmed = IF seen.confirmed = seen.caller THEN @
                                                ELSE seen.caller]
      /\ Asks(d, IF seen.caller THEN "eta" ELSE "ride") /\ spot' = spot
  BY <1>1 DEF PriceCommits, Flushed
<1> HIDE DEF seen
<1>6. parcel'.price = d /\ parcel'.driver = parcel.driver /\ parcel'.status = parcel.status
  BY <1>2, <1>5 DEF Parcel, Agreed
<1>7. parcel'.confirmed
  <2>1. seen.confirmed \in BOOLEAN /\ seen.caller \in BOOLEAN
    BY <1>3 DEF Parcel
  <2>2. parcel'.confirmed = IF seen.confirmed = seen.caller THEN parcel.confirmed ELSE seen.caller
    BY <1>2, <1>5 DEF Parcel
  <2>3. CASE seen.caller
    BY <1>4, <2>1, <2>2, <2>3
  <2>4. CASE ~seen.caller
    BY <1>4, <2>1, <2>2, <2>4 DEF Agreed
  <2> QED  BY <2>3, <2>4
<1>8. asking'[d] # "price"
  BY <1>2, <1>5 DEF Asks
<1> QED  BY <1>5, <1>6, <1>7, <1>8 DEF Agreed

\* An agreement stands, whoever's timeout, second answer, stale price or claim comes
\* after it: only the driver's own end of the delivery and the cancellations undo it.
THEOREM AgreementStands == DeliveriesSpec => AgreementBinds
<1> DEFINE Ended(d) == \/ FinishCommits(d)
                       \/ \E reason \in {"customer_cancel", "no_show", "car"} :
                            DriverCancels(d, reason)
                       \/ DispatcherCancels \/ CancelCommits
<1>1. ASSUME DeliveryInv, PriceReader, [DeliveriesNext]_deliveryVars,
             NEW d \in Cabs, Agreed(d), ~Agreed(d)'
      PROVE  Ended(d)
  <2>1. /\ parcel \in Parcel /\ asking \in [Cabs -> Asking] /\ d # Nobody
        /\ spot \in [Cabs -> {"off", "waiting", "away", "assigned"}]
    BY <1>1, RidersAssumption DEF DeliveryInv, DeliveriesTypeOK
  <2>2. CASE Respond \/ TimeoutStarts \/ TimeoutRuns \/ CancelReads \/ UNCHANGED deliveryVars
    <3>1. UNCHANGED <<parcel, asking, spot>>
      BY <1>1, <2>2 DEF Respond, TimeoutStarts, TimeoutRuns, CancelReads, deliveryVars,
         Answerable, Agreed
    <3> QED  BY <1>1, <3>1 DEF Agreed
  <2>3. ~PublishDelivery
    BY <1>1 DEF PublishDelivery, Agreed, Going
  <2>4. ASSUME NEW e \in Cabs, PriceReads(e) \/ RideReads(e)  PROVE FALSE
    <3>1. UNCHANGED <<parcel, asking, spot>>
      BY <2>4 DEF PriceReads, RideReads
    <3> QED  BY <1>1, <3>1 DEF Agreed
  <2>5. ASSUME NEW e \in Cabs, AcceptDelivery(e) \/ TakeFromChat(e)  PROVE FALSE
    BY <1>1, <2>1, <2>5 DEF AcceptDelivery, TakeFromChat, MayTake, Agreed
  <2>6. ASSUME NEW e \in Cabs, PriceCommits(e)  PROVE FALSE
    BY <1>1, <2>6, PriceKeepsAgreement
  <2>7. ASSUME NEW e \in Cabs, MovesOnLine(e)  PROVE FALSE
    <3>1. e # d
      BY <1>1, <2>7 DEF MovesOnLine, Agreed
    <3>2. parcel' = parcel /\ asking'[d] = asking[d] /\ spot'[d] = spot[d]
      BY <2>1, <2>7, <3>1 DEF MovesOnLine, Stands
    <3> QED  BY <1>1, <3>2 DEF Agreed
  <2>8. ASSUME NEW e \in Cabs, SetsOut(e)  PROVE FALSE
    <3>1. parcel' = parcel /\ spot' = spot /\ asking'[d] \in {asking[d], "ride"}
      BY <2>1, <2>8 DEF SetsOut, Asks
    <3> QED  BY <1>1, <3>1 DEF Agreed
  <2>9. ASSUME NEW e \in Cabs, BoughtCommits(e)  PROVE FALSE
    <3>1. /\ parcel' = [parcel EXCEPT !.status =
                          IF reads[e].seen.status = "in_progress" THEN @ ELSE "in_progress"]
          /\ Asks(e, "ride") /\ spot' = spot
      BY <2>9 DEF BoughtCommits, Flushed
    <3>2. /\ parcel'.driver = parcel.driver /\ parcel'.price = parcel.price
          /\ parcel'.confirmed = parcel.confirmed
          /\ parcel'.status \in {parcel.status, "in_progress"}
      BY <2>1, <3>1 DEF Parcel
    <3>3. asking'[d] \in {asking[d], "ride"}
      BY <2>1, <3>1 DEF Asks
    <3> QED  BY <1>1, <3>1, <3>2, <3>3 DEF Agreed, Going
  <2>10. ASSUME NEW e \in Cabs,
                \/ FinishCommits(e)
                \/ \E reason \in {"customer_cancel", "no_show", "car"} : DriverCancels(e, reason)
         PROVE  e = d
    BY <1>1, <2>10 DEF FinishCommits, Reading, DriverCancels, MyRide, Agreed, DeliveryInv,
       ReaderIsDriver
  <2> QED
    BY <1>1, <2>2, <2>3, <2>4, <2>5, <2>6, <2>7, <2>8, <2>9, <2>10 DEF DeliveriesNext
<1>2. DeliveryInv /\ PriceReader /\ [DeliveriesNext]_deliveryVars =>
        [\A d \in Cabs : Agreed(d) /\ ~Agreed(d)' =>
           \/ FinishCommits(d)
           \/ \E reason \in {"customer_cancel", "no_show", "car"} : DriverCancels(d, reason)
           \/ DispatcherCancels \/ CancelCommits]_deliveryVars
  BY <1>1
<1> QED  BY <1>2, DeliveryInvariant, PriceReaders, PTL DEF DeliveriesSpec, AgreementBinds

\* Every variable of the deliveries keeps its type: DeliveriesTypeOK, of
\* delivery_service.py's row, its timer and the handlers that have read it.
THEOREM DeliveryTypes == DeliveriesSpec => []DeliveriesTypeOK
<1>1. DeliveryInv => DeliveriesTypeOK
  BY DEF DeliveryInv
<1> QED  BY <1>1, DeliveryInvariant, PTL

(***************************************************************************)
(* Personal orders: the mark on a driver's row has its reason, a hold is   *)
(* honoured, and an order stays with the driver it was made for.           *)
(***************************************************************************)
\* The inductive invariant: a passenger in the dialogue has no order yet; nobody is
\* held twice, or has two orders; and who rides is marked as assigned.
Ordering ==
    \A p \in Choosers : dialog[p] \in {"choose", "text", "address"} => personal[p] = NoOrder
OneHold == \A p, q \in Choosers : hold[p] = hold[q] /\ hold[p] # Nobody => p = q
OneTask ==
    /\ \A p, q \in Choosers :
         personal[p].by = personal[q].by /\ personal[p].by # Nobody => p = q
    /\ \A p \in Choosers : personal[p].by # Nobody => work[personal[p].by] = "none"
Riding == \A d \in Cabs : Drives(d) => mark[d] = "assigned"

PersonalInv == PersonalTypeOK /\ Ordering /\ OneHold /\ OneTask /\ Riding /\ MarkHasReason

---------------------------------------------------------------------------
(* Marks and orders. *)

LEMMA Orders ==
  /\ NoOrder.by = Nobody /\ NoOrder.status = "none" /\ Nobody \notin Cabs /\ NoOrder \notin Personal
  /\ \A x \in Personal \cup {NoOrder} : x.by \in Cabs \cup {Nobody}
  /\ \A x \in Personal \cup {NoOrder} : x.by # Nobody => x.status \in {"searching", "riding"}
BY RidersAssumption DEF NoOrder, Personal

LEMMA UnheldRow ==
  ASSUME PersonalTypeOK, NEW p \in Choosers
  PROVE  /\ Unheld(p) \in [Cabs -> PersonalRows]
         /\ \A d \in Cabs : Unheld(p)[d] =
              IF d = hold[p] /\ mark[d] = "offered" /\ ~Considers(d) THEN "waiting" ELSE mark[d]
BY DEF PersonalTypeOK, Unheld, Freeing, PersonalRows

LEMMA RepairedRow ==
  ASSUME NEW rows \in [Cabs -> PersonalRows]
  PROVE  /\ Repaired(rows) \in [Cabs -> PersonalRows]
         /\ \A d \in Cabs : Repaired(rows)[d] =
              IF rows[d] = "offered" /\ ~Considers(d) /\ ~Held(d) THEN "waiting" ELSE rows[d]
BY DEF Repaired, PersonalRows

LEMMA Taker ==
  ASSUME NEW rows \in [Cabs -> PersonalRows], NEW d \in Takers(rows)
  PROVE  /\ d \in Cabs /\ ~Considers(d) /\ ~Drives(d)
         /\ rows[d] = "waiting" \/ (rows[d] = "offered" /\ ~Held(d))
<1>1. d \in Cabs /\ ~Considers(d) /\ ~Drives(d) /\ Repaired(rows)[d] = "waiting"
  BY DEF Takers
<1> QED  BY <1>1, RepairedRow

\* What becomes of an order handed on to e, and of the marks.
GivenTo(p, e) == [personal[p] EXCEPT !.status = "searching", !.by = e]
Passed(p, e, rows) ==
    /\ personal' = [personal EXCEPT ![p] = GivenTo(p, e)]
    /\ mark' \in [Cabs -> PersonalRows]
    /\ e # Nobody => /\ ~Considers(e) /\ ~Drives(e) /\ mark'[e] = "offered"
                     /\ rows[e] = "waiting" \/ (rows[e] = "offered" /\ ~Held(e))
    /\ \A d \in Cabs \ {e} :
         \/ mark'[d] = rows[d]
         \/ mark'[d] = "waiting" /\ rows[d] = "offered" /\ ~Considers(d) /\ ~Held(d)

LEMMA Given ==
  ASSUME NEW p, personal[p] \in Personal, NEW e \in Cabs \cup {Nobody}
  PROVE  /\ GivenTo(p, e) \in Personal
         /\ GivenTo(p, e).by = e /\ GivenTo(p, e).status = "searching"
         /\ GivenTo(p, e).chosen = personal[p].chosen
BY DEF GivenTo, Personal

LEMMA HandedOn ==
  ASSUME PersonalTypeOK, NEW p \in Choosers, NEW rows \in [Cabs -> PersonalRows],
         HandOn(p, rows)
  PROVE  \E e \in Cabs \cup {Nobody} : Passed(p, e, rows)
<1>1. ASSUME NEW e, personal' = [personal EXCEPT ![p].status = "searching", ![p].by = e]
      PROVE  personal' = [personal EXCEPT ![p] = GivenTo(p, e)]
  BY <1>1 DEF PersonalTypeOK, GivenTo
<1>2. CASE \E e \in Takers(rows) :
             /\ personal' = [personal EXCEPT ![p].status = "searching", ![p].by = e]
             /\ mark' = [Repaired(rows) EXCEPT ![e] = "offered"]
  <2>1. PICK e \in Takers(rows) :
             /\ personal' = [personal EXCEPT ![p].status = "searching", ![p].by = e]
             /\ mark' = [Repaired(rows) EXCEPT ![e] = "offered"]
    BY <1>2
  <2>2. /\ e \in Cabs /\ ~Considers(e) /\ ~Drives(e)
        /\ rows[e] = "waiting" \/ (rows[e] = "offered" /\ ~Held(e))
    BY Taker
  <2>3. /\ mark' \in [Cabs -> PersonalRows] /\ mark'[e] = "offered"
        /\ \A d \in Cabs \ {e} :
             \/ mark'[d] = rows[d]
             \/ mark'[d] = "waiting" /\ rows[d] = "offered" /\ ~Considers(d) /\ ~Held(d)
    BY <2>1, <2>2, RepairedRow DEF PersonalRows
  <2>4. Passed(p, e, rows)
    BY <1>1, <2>1, <2>2, <2>3 DEF Passed
  <2> QED  BY <2>2, <2>4
<1>3. CASE /\ personal' = [personal EXCEPT ![p].status = "searching", ![p].by = Nobody]
           /\ mark' = rows
  <2>1. Passed(p, Nobody, rows)
    BY <1>1, <1>3 DEF Passed
  <2> QED  BY <2>1
<1> QED  BY <1>2, <1>3 DEF HandOn

\* The order of p becomes x: of the drivers only its former one and its new one are
\* concerned.
LEMMA OrderChanges ==
  ASSUME PersonalInv, NEW p \in Choosers, NEW x \in Personal \cup {NoOrder},
         personal' = [personal EXCEPT ![p] = x], work' = work,
         x.by # Nobody /\ x.by # personal[p].by => ~Considers(x.by) /\ ~Drives(x.by)
  PROVE  /\ OneTask'
         /\ \A d \in Cabs :
              /\ Considers(d)' <=> IF d = x.by THEN x.status = "searching"
                                   ELSE d # personal[p].by /\ Considers(d)
              /\ Drives(d)' <=> IF d = x.by THEN x.status = "riding"
                                ELSE d # personal[p].by /\ Drives(d)
<1>1. /\ personal \in [Choosers -> Personal \cup {NoOrder}] /\ work \in [Cabs -> {"none", "offer", "ride"}]
      /\ personal'[p] = x /\ \A q \in Choosers \ {p} : personal'[q] = personal[q]
  BY DEF PersonalInv, PersonalTypeOK
<1>2. \A q \in Choosers : personal[q].by \in Cabs \cup {Nobody}
        /\ (personal[q].by # Nobody => personal[q].status \in {"searching", "riding"})
  BY <1>1, Orders
<1>3. x.by # Nobody => work[x.by] = "none" /\ \A q \in Choosers \ {p} : personal[q].by # x.by
  <2>1. CASE x.by # Nobody /\ x.by = personal[p].by
    BY <2>1 DEF PersonalInv, OneTask
  <2>2. CASE x.by # Nobody /\ x.by # personal[p].by
    <3>1. ~Considers(x.by) /\ ~Drives(x.by) /\ x.by \in Cabs
      BY <2>2, Orders
    <3>2. work[x.by] = "none"
      BY <1>1, <3>1 DEF Considers, Drives
    <3>3. \A q \in Choosers : personal[q].by # x.by
      BY <1>2, <2>2, <3>1 DEF Considers, Drives
    <3> QED  BY <3>2, <3>3
  <2> QED  BY <2>1, <2>2
<1>4. OneTask'
  BY <1>1, <1>3 DEF PersonalInv, OneTask
<1>5. ASSUME NEW d \in Cabs, d = x.by
      PROVE  (Considers(d)' <=> x.status = "searching") /\ (Drives(d)' <=> x.status = "riding")
  BY <1>1, <1>3, <1>5, Orders DEF Considers, Drives
<1>6. ASSUME NEW d \in Cabs, d # x.by, d = personal[p].by
      PROVE  ~Considers(d)' /\ ~Drives(d)'
  <2>1. work[d] = "none" /\ \A q \in Choosers \ {p} : personal[q].by # d
    BY <1>6, Orders DEF PersonalInv, OneTask
  <2> QED  BY <1>1, <1>6, <2>1 DEF Considers, Drives
<1>7. ASSUME NEW d \in Cabs, d # x.by, d # personal[p].by
      PROVE  (Considers(d)' <=> Considers(d)) /\ (Drives(d)' <=> Drives(d))
  BY <1>1, <1>7 DEF Considers, Drives
<1> QED  BY <1>4, <1>5, <1>6, <1>7

\* A step that leaves the orders as they are.
LEMMA OrdersStay ==
  ASSUME PersonalInv, UNCHANGED <<personal, work>>, PersonalTypeOK', Ordering', OneHold',
         \A d \in Cabs : /\ Considers(d) => mark'[d] = "offered"
                         /\ Drives(d) => mark'[d] = "assigned"
                         /\ mark'[d] = "offered" => Considers(d) \/ Held(d)'
  PROVE  PersonalInv'
<1>1. \A d \in Cabs : (Considers(d)' <=> Considers(d)) /\ (Drives(d)' <=> Drives(d))
  BY DEF Considers, Drives
<1>2. OneTask'
  BY DEF PersonalInv, OneTask
<1> QED  BY <1>1, <1>2 DEF PersonalInv, Riding, MarkHasReason

\* A step on the order of p alone.
LEMMA OrderStep ==
  ASSUME PersonalInv, NEW p \in Choosers, NEW x \in Personal \cup {NoOrder},
         personal' = [personal EXCEPT ![p] = x], work' = work,
         x.by # Nobody /\ x.by # personal[p].by => ~Considers(x.by) /\ ~Drives(x.by),
         PersonalTypeOK', Ordering', OneHold',
         x.by # Nobody => mark'[x.by] = IF x.status = "searching" THEN "offered" ELSE "assigned",
         \A d \in Cabs \ {x.by} :
            /\ d # personal[p].by /\ Considers(d) => mark'[d] = "offered"
            /\ d # personal[p].by /\ Drives(d) => mark'[d] = "assigned"
            /\ mark'[d] = "offered" => (d # personal[p].by /\ Considers(d)) \/ Held(d)'
  PROVE  PersonalInv'
<1>1. /\ OneTask'
      /\ \A d \in Cabs :
              /\ Considers(d)' <=> IF d = x.by THEN x.status = "searching"
                                   ELSE d # personal[p].by /\ Considers(d)
              /\ Drives(d)' <=> IF d = x.by THEN x.status = "riding"
                                ELSE d # personal[p].by /\ Drives(d)
  BY OrderChanges
<1>2. x.by # Nobody => x.status \in {"searching", "riding"}
  BY Orders
<1>3. Riding'
  BY <1>1, <1>2, Orders DEF Riding
<1>4. MarkHasReason'
  BY <1>1, <1>2, Orders DEF MarkHasReason
<1> QED  BY <1>1, <1>3, <1>4 DEF PersonalInv

---------------------------------------------------------------------------
(* The hold. *)

\* A hold that ends frees the driver's row unless he has got an offer meanwhile.
LEMMA EndHoldInv ==
  ASSUME PersonalInv, NEW p \in Choosers,
         NEW next \in Dialogs, EndHold(p, next),
         next \in {"choose", "text", "address"} => personal[p] = NoOrder
  PROVE  PersonalInv'
<1>1. /\ mark' = Unheld(p) /\ hold' = [hold EXCEPT ![p] = Nobody] /\ overdue' = overdue \ {p}
      /\ dialog' = [dialog EXCEPT ![p] = next] /\ UNCHANGED <<personal, work>>
  BY DEF EndHold
<1>2. /\ mark' \in [Cabs -> PersonalRows]
      /\ \A d \in Cabs : mark'[d] =
           IF d = hold[p] /\ mark[d] = "offered" /\ ~Considers(d) THEN "waiting" ELSE mark[d]
  BY <1>1, UnheldRow DEF PersonalInv
<1>3. PersonalTypeOK'
  BY <1>1, <1>2 DEF PersonalInv, PersonalTypeOK
<1>4. Ordering' /\ OneHold'
  BY <1>1 DEF PersonalInv, PersonalTypeOK, Ordering, OneHold
<1>5. \A d \in Cabs \ {hold[p]} : Held(d)' <=> Held(d)
  BY <1>1, Orders DEF PersonalInv, PersonalTypeOK, Held
<1>6. \A d \in Cabs : /\ Considers(d) => mark'[d] = "offered"
                      /\ Drives(d) => mark'[d] = "assigned"
                      /\ mark'[d] = "offered" => Considers(d) \/ Held(d)'
  BY <1>2, <1>5 DEF PersonalInv, Riding, MarkHasReason
<1> QED  BY <1>1, <1>3, <1>4, <1>6, OrdersStay

LEMMA SelectInv ==
  ASSUME PersonalInv, NEW p \in Choosers, NEW d \in Cabs, Select(p, d)  PROVE PersonalInv'
<1>1. CASE EndHold(p, "choose")
  BY <1>1, EndHoldInv DEF Select, Dialogs
<1>2. CASE /\ Unheld(p)[d] = "waiting" /\ ~Drives(d) /\ ~Considers(d)
           /\ \A q \in Choosers \ {p} : hold[q] # d
           /\ mark' = [Unheld(p) EXCEPT ![d] = "offered"]
           /\ hold' = [hold EXCEPT ![p] = d] /\ overdue' = overdue \ {p}
           /\ dialog' = [dialog EXCEPT ![p] = "text"]
           /\ UNCHANGED <<personal, work>>
  <2>1. /\ mark' \in [Cabs -> PersonalRows] /\ mark'[d] = "offered"
        /\ \A e \in Cabs \ {d} : mark'[e] =
             IF e = hold[p] /\ mark[e] = "offered" /\ ~Considers(e) THEN "waiting" ELSE mark[e]
    BY <1>2, UnheldRow DEF PersonalInv, PersonalRows
  <2>2. PersonalTypeOK'
    BY <1>2, <2>1 DEF PersonalInv, PersonalTypeOK, Dialogs
  <2>3. personal[p] = NoOrder
    BY DEF Select
  <2>4. Ordering' /\ OneHold'
    BY <1>2, <2>3 DEF PersonalInv, PersonalTypeOK, Ordering, OneHold
  <2>5. Held(d)' /\ \A e \in Cabs \ {d, hold[p]} : Held(e)' <=> Held(e)
    BY <1>2 DEF PersonalInv, PersonalTypeOK, Held
  <2>6. \A e \in Cabs : /\ Considers(e) => mark'[e] = "offered"
                        /\ Drives(e) => mark'[e] = "assigned"
                        /\ mark'[e] = "offered" => Considers(e) \/ Held(e)'
    BY <1>2, <2>1, <2>5 DEF PersonalInv, Riding, MarkHasReason
  <2> QED  BY <1>2, <2>2, <2>4, <2>6, OrdersStay
<1> QED  BY <1>1, <1>2 DEF Select

\* The dialogue goes on, or a hold becomes overdue.
LEMMA DialogueInv ==
  ASSUME PersonalInv, UNCHANGED <<hold, personal, work, mark>>,
         dialog' \in [Choosers -> Dialogs], overdue' \subseteq Choosers, Ordering'
  PROVE  PersonalInv'
<1>1. PersonalTypeOK' /\ OneHold'
  BY DEF PersonalInv, PersonalTypeOK, OneHold
<1>2. \A d \in Cabs : Held(d)' <=> Held(d)
  BY DEF Held
<1> QED  BY <1>1, <1>2, OrdersStay DEF PersonalInv, Riding, MarkHasReason

LEMMA OpenListInv ==
  ASSUME PersonalInv, NEW p \in Choosers, OpenList(p) \/ Wander(p) \/ TimePasses(p)
  PROVE  PersonalInv'
<1>1. /\ UNCHANGED <<hold, personal, work, mark>> /\ overdue' \subseteq Choosers
      /\ \/ dialog' = dialog \/ dialog' = [dialog EXCEPT ![p] = "menu"]
         \/ dialog' = [dialog EXCEPT ![p] = "choose"] /\ personal[p] = NoOrder
  BY DEF OpenList, Wander, TimePasses, PersonalInv, PersonalTypeOK
<1>2. dialog' \in [Choosers -> Dialogs] /\ Ordering'
  BY <1>1 DEF PersonalInv, PersonalTypeOK, Ordering, Dialogs
<1> QED  BY <1>1, <1>2, DialogueInv

LEMMA SubmitTextInv ==
  ASSUME PersonalInv, NEW p \in Choosers, SubmitText(p)  PROVE PersonalInv'
<1>1. personal[p] = NoOrder
  BY DEF SubmitText, PersonalInv, Ordering
<1>2. CASE EndHold(p, "menu") \/ EndHold(p, "choose")
  BY <1>1, <1>2, EndHoldInv DEF Dialogs
<1>3. CASE dialog' = [dialog EXCEPT ![p] = "address"]
             /\ UNCHANGED <<hold, overdue, personal, work, mark>>
  <2>1. dialog' \in [Choosers -> Dialogs] /\ overdue' \subseteq Choosers /\ Ordering'
    BY <1>1, <1>3 DEF PersonalInv, PersonalTypeOK, Ordering, Dialogs
  <2> QED  BY <1>3, <2>1, DialogueInv
<1> QED  BY <1>2, <1>3 DEF SubmitText

\* The hold becomes an offer: the mark has the same driver and another reason.
LEMMA CreatePersonalInv ==
  ASSUME PersonalInv, NEW p \in Choosers, CreatePersonal(p)  PROVE PersonalInv'
<1>1. personal[p] = NoOrder
  BY DEF CreatePersonal, PersonalInv, Ordering
<1>2. CASE EndHold(p, "menu") \/ EndHold(p, "choose")
  BY <1>1, <1>2, EndHoldInv DEF Dialogs
<1>3. CASE /\ HoldStands(p)
           /\ personal' = [personal EXCEPT ![p] =
                 [status |-> "searching", chosen |-> hold[p], by |-> hold[p]]]
           /\ hold' = [hold EXCEPT ![p] = Nobody]
           /\ dialog' = [dialog EXCEPT ![p] = "waiting"]
           /\ UNCHANGED <<overdue, work, mark>>
  <2> DEFINE x == [status |-> "searching", chosen |-> hold[p], by |-> hold[p]]
  <2>1. /\ hold[p] \in Cabs /\ mark[hold[p]] = "offered"
        /\ ~Drives(hold[p]) /\ ~Considers(hold[p])
    BY <1>3 DEF HoldStands, PersonalInv, PersonalTypeOK
  <2>2. x \in Personal /\ x.by = hold[p] /\ x.status = "searching"
    BY <2>1 DEF Personal
  <2>3. PersonalTypeOK'
    BY <1>3, <2>2 DEF PersonalInv, PersonalTypeOK, Dialogs
  <2>4. Ordering' /\ OneHold'
    BY <1>3 DEF PersonalInv, PersonalTypeOK, Ordering, OneHold
  <2>5. \A d \in Cabs \ {hold[p]} : Held(d)' <=> Held(d)
    BY <1>3, Orders DEF PersonalInv, PersonalTypeOK, Held
  <2>6. personal[p].by = Nobody
    BY <1>1, Orders
  <2>7. \A d \in Cabs \ {x.by} :
            /\ d # personal[p].by /\ Considers(d) => mark'[d] = "offered"
            /\ d # personal[p].by /\ Drives(d) => mark'[d] = "assigned"
            /\ mark'[d] = "offered" => (d # personal[p].by /\ Considers(d)) \/ Held(d)'
    BY <1>3, <2>2, <2>5, <2>6, Orders DEF PersonalInv, Riding, MarkHasReason
  <2> HIDE DEF x
  <2> QED  BY <1>3, <2>1, <2>2, <2>3, <2>4, <2>7, OrderStep DEF x
<1> QED  BY <1>2, <1>3 DEF CreatePersonal

---------------------------------------------------------------------------
(* The offers. *)

\* The former driver of the order, if any, has no other, and is not marked for this one.
LEMMA PassedInv ==
  ASSUME PersonalInv, NEW p \in Choosers, personal[p] \in Personal,
         NEW rows, NEW e \in Cabs \cup {Nobody}, Passed(p, e, rows),
         \A d \in Cabs \ {personal[p].by} : rows[d] = mark[d],
         personal[p].by # Nobody => rows[personal[p].by] \notin {"waiting", "offered"},
         UNCHANGED <<dialog, hold, overdue, work>>
  PROVE  PersonalInv'
<1> DEFINE x == GivenTo(p, e)
           d == personal[p].by
<1>1. x \in Personal /\ x.by = e /\ x.status = "searching"
  BY Given
<1> HIDE DEF x
<1>2. /\ personal' = [personal EXCEPT ![p] = x] /\ mark' \in [Cabs -> PersonalRows]
      /\ x.by # Nobody => ~Considers(x.by) /\ ~Drives(x.by) /\ mark'[x.by] = "offered"
  BY <1>1 DEF Passed, x
<1>3. PersonalTypeOK'
  BY <1>1, <1>2 DEF PersonalInv, PersonalTypeOK
<1>4. Ordering' /\ OneHold'
  BY <1>1, <1>2, Orders DEF PersonalInv, PersonalTypeOK, Ordering, OneHold
<1>5. \A f \in Cabs : Held(f)' <=> Held(f)
  BY DEF Held
<1>6. d \in Cabs \cup {Nobody}
  BY Orders
<1> HIDE DEF d
<1>7. \A f \in Cabs \ {e} :
        IF f = d THEN mark'[f] # "offered"
        ELSE \/ mark'[f] = mark[f]
             \/ mark'[f] = "waiting" /\ mark[f] = "offered" /\ ~Considers(f) /\ ~Held(f)
  BY <1>6, Orders DEF Passed, d
<1>8. \A f \in Cabs \ {x.by} :
            /\ f # d /\ Considers(f) => mark'[f] = "offered"
            /\ f # d /\ Drives(f) => mark'[f] = "assigned"
            /\ mark'[f] = "offered" => (f # d /\ Considers(f)) \/ Held(f)'
  BY <1>1, <1>5, <1>7 DEF PersonalInv, Riding, MarkHasReason
<1> QED  BY <1>1, <1>2, <1>3, <1>4, <1>8, OrderStep DEF d

LEMMA ServeParkedInv ==
  ASSUME PersonalInv, NEW p \in Choosers, ServeParked(p)  PROVE PersonalInv'
<1>1. /\ personal[p].by = Nobody /\ HandOn(p, mark) /\ UNCHANGED <<dialog, hold, overdue, work>>
      /\ personal[p] \in Personal /\ PersonalTypeOK /\ mark \in [Cabs -> PersonalRows]
  BY Orders DEF ServeParked, PersonalInv, PersonalTypeOK
<1>2. PICK e \in Cabs \cup {Nobody} : Passed(p, e, mark)
  BY <1>1, HandedOn
<1> QED  BY <1>1, <1>2, PassedInv

\* Whose order is closed has no other: his mark is what the handler makes of it.
LEMMA ClosePersonalInv ==
  ASSUME PersonalInv, NEW p \in Choosers, personal[p] # NoOrder,
         NEW to \in {"waiting", "away", "none"}, ClosePersonal(p, personal[p].by, to)
  PROVE  PersonalInv'
<1> DEFINE d == personal[p].by
<1>1. /\ personal' = [personal EXCEPT ![p] = NoOrder]
      /\ dialog' = [dialog EXCEPT ![p] = "menu"]
      /\ mark' = IF d = Nobody THEN mark ELSE [mark EXCEPT ![d] = to]
      /\ UNCHANGED <<hold, overdue, work>>
  BY DEF ClosePersonal
<1>2. d \in Cabs \cup {Nobody}
  BY Orders DEF PersonalInv, PersonalTypeOK
<1> HIDE DEF d
<1>3. /\ mark' \in [Cabs -> PersonalRows]
      /\ \A e \in Cabs : mark'[e] = IF e = d THEN to ELSE mark[e]
  BY <1>1, <1>2, Orders DEF PersonalInv, PersonalTypeOK, PersonalRows
<1>4. PersonalTypeOK'
  BY <1>1, <1>3 DEF PersonalInv, PersonalTypeOK, Dialogs
<1>5. Ordering' /\ OneHold'
  BY <1>1 DEF PersonalInv, PersonalTypeOK, Ordering, OneHold
<1>6. \A e \in Cabs : Held(e)' <=> Held(e)
  BY <1>1 DEF Held
<1>7. \A e \in Cabs \ {NoOrder.by} :
            /\ e # d /\ Considers(e) => mark'[e] = "offered"
            /\ e # d /\ Drives(e) => mark'[e] = "assigned"
            /\ mark'[e] = "offered" => (e # d /\ Considers(e)) \/ Held(e)'
  BY <1>3, <1>6 DEF PersonalInv, Riding, MarkHasReason
<1> QED  BY <1>1, <1>4, <1>5, <1>7, Orders, OrderStep DEF d

LEMMA AcceptPersonalInv ==
  ASSUME PersonalInv, NEW p \in Choosers, NEW d \in Cabs, AcceptPersonal(d, p)
  PROVE  PersonalInv'
<1> DEFINE x == [personal[p] EXCEPT !.status = "riding"]
<1>1. /\ personal[p].status = "searching" /\ personal[p].by = d
      /\ personal' = [personal EXCEPT ![p].status = "riding"]
      /\ mark' = [mark EXCEPT ![d] = "assigned"] /\ UNCHANGED <<dialog, hold, overdue, work>>
  BY DEF AcceptPersonal
<1>2. personal[p] \in Personal
  BY <1>1, Orders DEF PersonalInv, PersonalTypeOK
<1>3. x \in Personal /\ x.by = d /\ x.status = "riding" /\ personal' = [personal EXCEPT ![p] = x]
  BY <1>1, <1>2 DEF Personal, PersonalInv, PersonalTypeOK
<1> HIDE DEF x
<1>4. mark' \in [Cabs -> PersonalRows]
      /\ \A e \in Cabs : mark'[e] = IF e = d THEN "assigned" ELSE mark[e]
  BY <1>1 DEF PersonalInv, PersonalTypeOK, PersonalRows
<1>5. PersonalTypeOK'
  BY <1>1, <1>3, <1>4 DEF PersonalInv, PersonalTypeOK
<1>6. Ordering' /\ OneHold'
  BY <1>1, <1>2, <1>3, Orders DEF PersonalInv, PersonalTypeOK, Ordering, OneHold
<1>7. \A e \in Cabs : Held(e)' <=> Held(e)
  BY <1>1 DEF Held
<1>8. \A e \in Cabs \ {x.by} :
            /\ e # personal[p].by /\ Considers(e) => mark'[e] = "offered"
            /\ e # personal[p].by /\ Drives(e) => mark'[e] = "assigned"
            /\ mark'[e] = "offered" => (e # personal[p].by /\ Considers(e)) \/ Held(e)'
  BY <1>1, <1>3, <1>4, <1>7 DEF PersonalInv, Riding, MarkHasReason
<1>9. /\ x.by = personal[p].by /\ x \in Personal \cup {NoOrder} /\ work' = work
      /\ mark'[x.by] = IF x.status = "searching" THEN "offered" ELSE "assigned"
  BY <1>1, <1>3, <1>4
<1> QED  BY <1>3, <1>5, <1>6, <1>8, <1>9, OrderStep

LEMMA BreakdownPersonalInv ==
  ASSUME PersonalInv, NEW p \in Choosers, NEW d \in Cabs, BreakdownPersonal(d, p)
  PROVE  PersonalInv'
<1> DEFINE rows == [mark EXCEPT ![d] = "away"]
<1>1. /\ personal[p].status = "riding" /\ personal[p].by = d /\ HandOn(p, rows)
      /\ UNCHANGED <<dialog, hold, overdue, work>> /\ PersonalTypeOK
  BY DEF BreakdownPersonal, PersonalInv
<1>2. personal[p] \in Personal /\ rows \in [Cabs -> PersonalRows] /\ rows[d] = "away"
      /\ \A e \in Cabs \ {d} : rows[e] = mark[e]
  BY <1>1, Orders DEF PersonalTypeOK, PersonalRows
<1> HIDE DEF rows
<1>3. PICK e \in Cabs \cup {Nobody} : Passed(p, e, rows)
  BY <1>1, <1>2, HandedOn
<1>4. \A f \in Cabs \ {personal[p].by} : rows[f] = mark[f]
  BY <1>1, <1>2
<1>5. rows[personal[p].by] \notin {"waiting", "offered"}
  BY <1>1, <1>2
<1> QED  BY <1>1, <1>2, <1>3, <1>4, <1>5, PassedInv

LEMMA ClosingInv ==
  ASSUME PersonalInv, NEW p \in Choosers, NEW d \in Cabs,
         DeclinePersonal(d, p) \/ CancelPersonal(p) \/ CompletePersonal(d, p)
  PROVE  PersonalInv'
<1>1. personal[p] # NoOrder
  BY Orders DEF DeclinePersonal, CancelPersonal, CompletePersonal
<1>2. \E to \in {"waiting", "away", "none"} : ClosePersonal(p, personal[p].by, to)
  BY DEF DeclinePersonal, CancelPersonal, CompletePersonal, ChosenRefused
<1> QED  BY <1>1, <1>2, ClosePersonalInv

---------------------------------------------------------------------------
(* The driver. *)

LEMMA GoesOffInv ==
  ASSUME PersonalInv, NEW d \in Cabs, NEW to \in {"none", "away"}, GoesOff(d, to)
  PROVE  PersonalInv'
<1> DEFINE held == {p \in Choosers : hold[p] = d}
<1>1. /\ ~Considers(d) /\ ~Drives(d) /\ mark' = [mark EXCEPT ![d] = to]
      /\ hold' = [p \in Choosers |-> IF p \in held THEN Nobody ELSE hold[p]]
      /\ overdue' = overdue \ held
      /\ dialog' = [p \in Choosers |-> IF p \in held /\ dialog[p] = "text"
                                       THEN "menu" ELSE dialog[p]]
      /\ UNCHANGED <<personal, work>>
  BY DEF GoesOff, AtMenu
<1>2. PersonalTypeOK'
  BY <1>1 DEF PersonalInv, PersonalTypeOK, PersonalRows, Dialogs
<1>3. Ordering' /\ OneHold'
  BY <1>1 DEF PersonalInv, Ordering, OneHold
<1>4. \A e \in Cabs \ {d} : Held(e)' <=> Held(e)
  BY <1>1, Orders DEF Held
<1>5. \A e \in Cabs : mark'[e] = IF e = d THEN to ELSE mark[e]
  BY <1>1 DEF PersonalInv, PersonalTypeOK
<1>6. \A e \in Cabs : /\ Considers(e) => mark'[e] = "offered"
                      /\ Drives(e) => mark'[e] = "assigned"
                      /\ mark'[e] = "offered" => Considers(e) \/ Held(e)'
  BY <1>1, <1>4, <1>5 DEF PersonalInv, Riding, MarkHasReason
<1> QED  BY <1>1, <1>2, <1>3, <1>6, OrdersStay

LEMMA LineMenuInv ==
  ASSUME PersonalInv, NEW d \in Cabs, NEW to \in {"waiting", "none"}, LineMenu(d, to)
  PROVE  PersonalInv'
<1>1. /\ ~Considers(d) /\ ~Drives(d) /\ mark' = [mark EXCEPT ![d] = to]
      /\ UNCHANGED <<dialog, hold, overdue, personal, work>>
  BY DEF LineMenu, AtMenu
<1>2. PersonalTypeOK' /\ Ordering' /\ OneHold'
  BY <1>1 DEF PersonalInv, PersonalTypeOK, PersonalRows, Ordering, OneHold
<1>3. \A e \in Cabs : (Held(e)' <=> Held(e)) /\ mark'[e] = IF e = d THEN to ELSE mark[e]
  BY <1>1 DEF PersonalInv, PersonalTypeOK, Held
<1>4. \A e \in Cabs : /\ Considers(e) => mark'[e] = "offered"
                      /\ Drives(e) => mark'[e] = "assigned"
                      /\ mark'[e] = "offered" => Considers(e) \/ Held(e)'
  BY <1>1, <1>3 DEF PersonalInv, Riding, MarkHasReason
<1> QED  BY <1>1, <1>2, <1>4, OrdersStay

LEMMA OrdinaryOfferInv ==
  ASSUME PersonalInv, NEW d \in Cabs, OrdinaryOffer(d)  PROVE PersonalInv'
<1>1. /\ d \in Takers(mark) /\ work' = [work EXCEPT ![d] = "offer"]
      /\ mark' = [Repaired(mark) EXCEPT ![d] = "offered"]
      /\ UNCHANGED <<dialog, hold, overdue, personal>> /\ mark \in [Cabs -> PersonalRows]
  BY DEF OrdinaryOffer, PersonalInv, PersonalTypeOK
<1>2. ~Considers(d) /\ ~Drives(d)
  BY <1>1, Taker
<1>3. /\ mark' \in [Cabs -> PersonalRows] /\ mark'[d] = "offered"
      /\ \A e \in Cabs \ {d} : mark'[e] =
           IF mark[e] = "offered" /\ ~Considers(e) /\ ~Held(e) THEN "waiting" ELSE mark[e]
  BY <1>1, RepairedRow DEF PersonalRows
<1>4. work' \in [Cabs -> {"none", "offer", "ride"}] /\ work'[d] = "offer"
      /\ \A e \in Cabs \ {d} : work'[e] = work[e]
  BY <1>1 DEF PersonalInv, PersonalTypeOK
<1>5. PersonalTypeOK' /\ Ordering' /\ OneHold'
  BY <1>1, <1>3, <1>4 DEF PersonalInv, PersonalTypeOK, Ordering, OneHold
<1>6. \A p \in Choosers : personal[p].by # d
  BY <1>2, Orders DEF PersonalInv, PersonalTypeOK, Considers, Drives
<1>7. OneTask'
  BY <1>1, <1>4, <1>6, Orders DEF PersonalInv, PersonalTypeOK, OneTask
<1>8. \A e \in Cabs \ {d} : /\ Considers(e)' <=> Considers(e)
                            /\ Drives(e)' <=> Drives(e)
                            /\ Held(e)' <=> Held(e)
  BY <1>1, <1>4 DEF Considers, Drives, Held
<1>9. Considers(d)' /\ ~Drives(d)'
  BY <1>1, <1>4, <1>6 DEF Considers, Drives
<1>10. Riding' /\ MarkHasReason'
  BY <1>3, <1>8, <1>9 DEF PersonalInv, Riding, MarkHasReason
<1> QED  BY <1>5, <1>7, <1>10 DEF PersonalInv

\* A driver with an ordinary order has no personal one.
LEMMA OrdinaryEndsInv ==
  ASSUME PersonalInv, NEW d \in Cabs, OrdinaryEnds(d)  PROVE PersonalInv'
<1>1. /\ work[d] # "none" /\ UNCHANGED <<dialog, hold, overdue, personal>>
      /\ work' = [work EXCEPT ![d] = work'[d]] /\ mark' = [mark EXCEPT ![d] = mark'[d]]
      /\ \/ work'[d] = "ride" /\ mark'[d] = "assigned"
         \/ work'[d] = "none" /\ mark'[d] \in {"waiting", "away", "none"}
  BY DEF OrdinaryEnds, PersonalInv, PersonalTypeOK
<1>2. /\ \A e \in Cabs \ {d} : mark'[e] = mark[e] /\ work'[e] = work[e]
      /\ mark' \in [Cabs -> PersonalRows] /\ work' \in [Cabs -> {"none", "offer", "ride"}]
  BY <1>1 DEF PersonalInv, PersonalTypeOK, PersonalRows
<1>3. PersonalTypeOK' /\ Ordering' /\ OneHold'
  BY <1>1, <1>2 DEF PersonalInv, PersonalTypeOK, Ordering, OneHold
<1>4. \A p \in Choosers : personal[p].by # d
  BY <1>1, Orders DEF PersonalInv, OneTask
<1>5. OneTask'
  BY <1>1, <1>2, <1>4, Orders DEF PersonalInv, PersonalTypeOK, OneTask
<1>6. \A e \in Cabs \ {d} : /\ Considers(e)' <=> Considers(e)
                            /\ Drives(e)' <=> Drives(e)
                            /\ Held(e)' <=> Held(e)
  BY <1>1, <1>2 DEF Considers, Drives, Held
<1>7. ~Considers(d)' /\ (Drives(d)' => mark'[d] = "assigned")
  BY <1>1, <1>4 DEF Considers, Drives
<1>8. Riding' /\ MarkHasReason'
  BY <1>1, <1>2, <1>6, <1>7 DEF PersonalInv, Riding, MarkHasReason
<1> QED  BY <1>3, <1>5, <1>8 DEF PersonalInv

\* A claim in the chat: the one order offered to the driver goes on without him.
LEMMA ClaimInChatInv ==
  ASSUME PersonalInv, NEW d \in Cabs, ClaimInChat(d)  PROVE PersonalInv'
<1> DEFINE rows == [mark EXCEPT ![d] = "assigned"]
           mine == {p \in Choosers : personal[p].status = "searching" /\ personal[p].by = d}
<1>1. /\ ~Drives(d) /\ work' = [work EXCEPT ![d] = "ride"]
      /\ UNCHANGED <<dialog, hold, overdue>> /\ PersonalTypeOK
      /\ \/ mine = {} /\ mark' = rows /\ UNCHANGED personal
         \/ \E p \in mine : HandOn(p, rows)
  BY DEF ClaimInChat, PersonalInv
<1>2. rows \in [Cabs -> PersonalRows] /\ rows[d] = "assigned"
      /\ \A e \in Cabs \ {d} : rows[e] = mark[e]
  BY <1>1 DEF PersonalTypeOK, PersonalRows
<1>3. /\ work' \in [Cabs -> {"none", "offer", "ride"}] /\ work'[d] = "ride"
      /\ \A e \in Cabs \ {d} : work'[e] = work[e]
  BY <1>1 DEF PersonalTypeOK
<1>4. \A e \in Cabs : Held(e)' <=> Held(e)
  BY <1>1 DEF Held
<1>5. \A p \in Choosers : /\ personal[p] \in Personal \cup {NoOrder}
                          /\ personal[p].by = d => p \in mine
  BY <1>1, Orders DEF PersonalTypeOK, Drives
<1> HIDE DEF rows
<1>6. CASE mine = {} /\ mark' = rows /\ UNCHANGED personal
  <2>1. PersonalTypeOK' /\ Ordering' /\ OneHold'
    BY <1>1, <1>2, <1>3, <1>6 DEF PersonalInv, PersonalTypeOK, Ordering, OneHold
  <2>2. \A p \in Choosers : personal[p].by # d
    BY <1>5, <1>6
  <2>3. OneTask'
    BY <1>3, <1>5, <1>6, <2>2, Orders DEF PersonalInv, OneTask
  <2>4. \A e \in Cabs \ {d} : (Considers(e)' <=> Considers(e)) /\ (Drives(e)' <=> Drives(e))
    BY <1>3, <1>6 DEF Considers, Drives
  <2>5. ~Considers(d)' /\ Drives(d)'
    BY <1>3, <1>6, <2>2 DEF Considers, Drives
  <2>6. Riding' /\ MarkHasReason'
    BY <1>2, <1>4, <1>6, <2>4, <2>5 DEF PersonalInv, Riding, MarkHasReason
  <2> QED  BY <2>1, <2>3, <2>6 DEF PersonalInv
<1>7. ASSUME NEW p \in mine, HandOn(p, rows)  PROVE PersonalInv'
  <2>1. p \in Choosers /\ personal[p].status = "searching" /\ personal[p].by = d
    OBVIOUS
  <2>2. PICK e \in Cabs \cup {Nobody} : Passed(p, e, rows)
    BY <1>1, <1>2, <1>7, <2>1, HandedOn
  <2>3. personal[p] \in Personal
    BY <1>5, <2>1, Orders
  <2> DEFINE x == GivenTo(p, e)
  <2>4. x \in Personal /\ x.by = e /\ x.status = "searching"
    BY <2>3, Given
  <2> HIDE DEF x
  <2>5. /\ personal' = [personal EXCEPT ![p] = x] /\ mark' \in [Cabs -> PersonalRows]
        /\ e # Nobody => /\ ~Considers(e) /\ ~Drives(e) /\ mark'[e] = "offered" /\ e # d
                         /\ e \in Cabs
    BY <1>2, <2>2 DEF Passed, x
  <2>6. /\ personal'[p] = x /\ \A q \in Choosers \ {p} : personal'[q] = personal[q]
    BY <1>1, <2>1, <2>5 DEF PersonalTypeOK
  <2>7. PersonalTypeOK' /\ Ordering' /\ OneHold'
    BY <1>1, <1>3, <2>1, <2>4, <2>5, <2>6, Orders
       DEF PersonalInv, PersonalTypeOK, Ordering, OneHold
  <2>8. e # Nobody => work[e] = "none" /\ \A q \in Choosers : personal[q].by # e
    <3>1. e # Nobody => work[e] = "none"
      BY <1>1, <2>5 DEF PersonalTypeOK, Considers, Drives
    <3>2. e # Nobody => \A q \in Choosers : personal[q].by # e
      BY <1>5, <2>5, Orders DEF Considers, Drives
    <3> QED  BY <3>1, <3>2
  <2>9. \A q \in Choosers \ {p} : personal[q].by # d
    BY <2>1, Orders DEF PersonalInv, OneTask
  <2>10. OneTask'
    <3>1. \A q \in Choosers : personal'[q].by # Nobody => work'[personal'[q].by] = "none"
      BY <1>3, <1>5, <2>4, <2>5, <2>6, <2>8, <2>9, Orders DEF PersonalInv, OneTask
    <3>2. \A q, r \in Choosers :
            personal'[q].by = personal'[r].by /\ personal'[q].by # Nobody => q = r
      BY <2>4, <2>6, <2>8 DEF PersonalInv, OneTask
    <3> QED  BY <3>1, <3>2 DEF OneTask
  <2>11. \A f \in Cabs \ {d, e} :
           (Considers(f)' <=> Considers(f)) /\ (Drives(f)' <=> Drives(f))
    BY <1>3, <2>1, <2>4, <2>6 DEF Considers, Drives
  <2>12. ~Considers(d)' /\ Drives(d)'
    BY <1>3, <2>4, <2>5, <2>6, <2>9, Orders DEF Considers, Drives
  <2>13. e # Nobody => Considers(e)' /\ ~Drives(e)'
    BY <1>3, <2>1, <2>4, <2>5, <2>6, <2>8 DEF Considers, Drives
  <2>14. \A f \in Cabs \ {e} :
           IF f = d THEN mark'[f] = "assigned"
           ELSE \/ mark'[f] = mark[f]
                \/ mark'[f] = "waiting" /\ mark[f] = "offered" /\ ~Considers(f) /\ ~Held(f)
    BY <1>2, <2>2 DEF Passed
  <2>15. ASSUME NEW f \in Cabs
         PROVE  /\ Drives(f)' => mark'[f] = "assigned"
                /\ Considers(f)' => mark'[f] = "offered"
                /\ mark'[f] = "offered" => Considers(f)' \/ Held(f)'
    <3>1. CASE f = d
      BY <2>5, <2>12, <2>14, <3>1, Orders
    <3>2. CASE f = e
      BY <2>5, <2>13, <3>2, Orders
    <3>3. CASE f # d /\ f # e
      BY <1>4, <2>11, <2>14, <3>3 DEF PersonalInv, Riding, MarkHasReason
    <3> QED  BY <3>1, <3>2, <3>3
  <2> QED  BY <2>7, <2>10, <2>15 DEF PersonalInv, Riding, MarkHasReason
<1> QED  BY <1>1, <1>6, <1>7

---------------------------------------------------------------------------
(* The theorems. *)

LEMMA PersonalInitInv == PersonalInit => PersonalInv
<1> SUFFICES ASSUME PersonalInit  PROVE PersonalInv
  OBVIOUS
<1>1. PersonalTypeOK
  BY DEF PersonalInit, PersonalTypeOK, Dialogs, PersonalRows
<1>2. \A d \in Cabs : ~Considers(d) /\ ~Drives(d)
  BY Orders DEF PersonalInit, Considers, Drives
<1> QED  BY <1>1, <1>2, Orders DEF PersonalInit, PersonalInv, Ordering, OneHold, OneTask, Riding,
         MarkHasReason

\* One step of a passenger's dialogue or order, and one of a driver.
PassengerStep(p) ==
    \/ OpenList(p) \/ CancelHold(p) \/ Wander(p) \/ SubmitText(p) \/ CreatePersonal(p)
    \/ TimePasses(p) \/ HoldTimeout(p) \/ CancelPersonal(p) \/ ServeParked(p)
    \/ \E d \in Cabs : Select(p, d) \/ AcceptPersonal(d, p) \/ DeclinePersonal(d, p)
                       \/ CompletePersonal(d, p) \/ BreakdownPersonal(d, p)
DriverStep(d) ==
    \/ GoesOff(d, "none") \/ GoesOff(d, "away")
    \/ LineMenu(d, "waiting") \/ LineMenu(d, "none")
    \/ ClaimInChat(d) \/ OrdinaryOffer(d) \/ OrdinaryEnds(d)

LEMMA Steps ==
  PersonalNext <=> (\E p \in Choosers : PassengerStep(p)) \/ (\E d \in Cabs : DriverStep(d))
BY DEF PersonalNext, PassengerStep, DriverStep

LEMMA PersonalStep == PersonalInv /\ [PersonalNext]_personalVars => PersonalInv'
<1> SUFFICES ASSUME PersonalInv, [PersonalNext]_personalVars  PROVE PersonalInv'
  OBVIOUS
<1>1. ASSUME NEW p \in Choosers, CancelHold(p)  PROVE PersonalInv'
  BY <1>1, EndHoldInv DEF CancelHold, Dialogs
<1>2. ASSUME NEW p \in Choosers, HoldTimeout(p)  PROVE PersonalInv'
  <2> DEFINE next == IF dialog[p] = "text" THEN "menu" ELSE dialog[p]
  <2>1. EndHold(p, next)
    BY <1>2 DEF HoldTimeout
  <2>2. next \in Dialogs /\ (next \in {"choose", "text", "address"} => personal[p] = NoOrder)
    BY DEF PersonalInv, PersonalTypeOK, Ordering, Dialogs
  <2> HIDE DEF next
  <2> QED  BY <2>1, <2>2, EndHoldInv
<1>3. ASSUME NEW p \in Choosers, CancelPersonal(p)  PROVE PersonalInv'
  BY <1>3, ClosePersonalInv DEF CancelPersonal
<1>4. ASSUME NEW p \in Choosers, PassengerStep(p)  PROVE PersonalInv'
  BY <1>1, <1>2, <1>3, <1>4, OpenListInv, SubmitTextInv, CreatePersonalInv, ServeParkedInv,
     SelectInv, AcceptPersonalInv, ClosingInv, BreakdownPersonalInv DEF PassengerStep
<1>5. ASSUME NEW d \in Cabs, DriverStep(d)  PROVE PersonalInv'
  BY <1>5, GoesOffInv, LineMenuInv, ClaimInChatInv, OrdinaryOfferInv, OrdinaryEndsInv
     DEF DriverStep
<1>6. CASE UNCHANGED personalVars
  BY <1>6 DEF personalVars, PersonalInv, PersonalTypeOK, Ordering, OneHold, OneTask, Riding,
     MarkHasReason, Considers, Drives, Held
<1> QED  BY <1>4, <1>5, <1>6, Steps

\* The inductive invariant holds in every state of every execution.
THEOREM PersonalInvariant == PersonalSpec => []PersonalInv
BY PersonalInitInv, PersonalStep, PTL DEF PersonalSpec

\* The mark "offered" on a driver's row, which holds and offers share, is there for
\* one of them: _release_direct_selection keeps it for a driver with an offer, and no
\* end of a hold or of an offer leaves it behind.
THEOREM MarksHaveReasons == PersonalSpec => []MarkHasReason
<1>1. PersonalInv => MarkHasReason
  BY DEF PersonalInv
<1> QED  BY <1>1, PersonalInvariant, PTL

\* What a step other than the driver's own menus does to the row of a driver who is
\* held, and has neither an offer nor a ride.
LEMMA HeldStays ==
  ASSUME PersonalInv, PersonalNext, NEW p \in Choosers, NEW d \in Cabs,
         hold[p] = d, hold'[p] = d, mark[d] = "offered", ~Considers(d)
  PROVE  \/ mark'[d] = "offered" /\ ~Considers(d)'
         \/ LineMenu(d, "waiting") \/ LineMenu(d, "none") \/ ClaimInChat(d)
<1>1. /\ PersonalTypeOK /\ ~Drives(d) /\ Held(d) /\ work[d] = "none" /\ d # Nobody
      /\ \A q \in Choosers \ {p} : hold[q] # d
      /\ \A q \in Choosers : personal[q].by # d
  <2>1. PersonalTypeOK /\ ~Drives(d) /\ Held(d) /\ d # Nobody
    BY Orders DEF PersonalInv, Riding, Held
  <2>2. work[d] = "none"
    BY <2>1 DEF PersonalTypeOK, Considers, Drives
  <2>3. \A q \in Choosers \ {p} : hold[q] # d
    BY <2>1 DEF PersonalInv, OneHold
  <2>4. \A q \in Choosers : personal[q].by # d
    BY <2>1, Orders DEF PersonalTypeOK, Considers, Drives
  <2> QED  BY <2>1, <2>2, <2>3, <2>4
<1>2. ASSUME work' = work \/ (\E e \in Cabs \ {d} : \E w : work' = [work EXCEPT ![e] = w]),
             \/ personal' = personal
             \/ \E q \in Choosers : \E x : personal' = [personal EXCEPT ![q] = x] /\ x.by # d
      PROVE  ~Considers(d)'
  BY <1>1, <1>2 DEF PersonalTypeOK, Considers
<1>3. ASSUME NEW q \in Choosers, NEW next, EndHold(q, next)
      PROVE  mark'[d] = "offered" /\ ~Considers(d)'
  <2>1. q # p
    BY <1>1, <1>3 DEF EndHold, PersonalTypeOK
  <2>2. mark'[d] = "offered"
    BY <1>1, <1>3, <2>1, UnheldRow DEF EndHold
  <2> QED  BY <1>2, <1>3, <2>2 DEF EndHold
<1>4. ASSUME NEW q \in Choosers, NEW e \in Cabs, Select(q, e)
      PROVE  mark'[d] = "offered" /\ ~Considers(d)'
  <2>1. CASE EndHold(q, "choose")
    BY <1>3, <2>1
  <2>2. CASE /\ mark' = [Unheld(q) EXCEPT ![e] = "offered"]
             /\ hold' = [hold EXCEPT ![q] = e] /\ UNCHANGED <<personal, work>>
    <3>1. q = p => e = d
      BY <1>1, <2>2 DEF PersonalTypeOK
    <3>2. mark'[d] = "offered"
      BY <1>1, <2>2, <3>1, UnheldRow
    <3> QED  BY <1>2, <2>2, <3>2
  <2> QED  BY <1>4, <2>1, <2>2 DEF Select
<1>5. ASSUME NEW q \in Choosers, CreatePersonal(q)
      PROVE  mark'[d] = "offered" /\ ~Considers(d)'
  <2>1. CASE EndHold(q, "menu") \/ EndHold(q, "choose")
    BY <1>3, <2>1
  <2>2. CASE /\ personal' = [personal EXCEPT ![q] =
                 [status |-> "searching", chosen |-> hold[q], by |-> hold[q]]]
             /\ hold' = [hold EXCEPT ![q] = Nobody] /\ UNCHANGED <<overdue, work, mark>>
    <3>1. q # p
      BY <1>1, <2>2 DEF PersonalTypeOK
    <3>2. hold[q] # d
      BY <1>1, <3>1
    <3> DEFINE x == [status |-> "searching", chosen |-> hold[q], by |-> hold[q]]
    <3>3. x.by # d /\ personal' = [personal EXCEPT ![q] = x]
      BY <2>2, <3>2
    <3> HIDE DEF x
    <3> QED  BY <1>2, <2>2, <3>3
  <2> QED  BY <1>5, <2>1, <2>2 DEF CreatePersonal
<1>6. ASSUME NEW q \in Choosers, NEW rows \in [Cabs -> PersonalRows], rows[d] = "offered",
             personal[q] \in Personal, HandOn(q, rows), UNCHANGED <<work>>
      PROVE  mark'[d] = "offered" /\ ~Considers(d)'
  <2>1. PICK e \in Cabs \cup {Nobody} : Passed(q, e, rows)
    BY <1>1, <1>6, HandedOn
  <2>2. e # d
    BY <1>1, <1>6, <2>1 DEF Passed
  <2>3. GivenTo(q, e).by # d
    BY <1>6, <2>2, Given
  <2>4. mark'[d] = "offered"
    BY <1>1, <1>6, <2>1, <2>2 DEF Passed
  <2> QED  BY <1>2, <1>6, <2>1, <2>3, <2>4 DEF Passed
<1>7. ASSUME NEW q \in Choosers, ServeParked(q)
      PROVE  mark'[d] = "offered" /\ ~Considers(d)'
  <2>1. personal[q] \in Personal /\ mark \in [Cabs -> PersonalRows]
    BY <1>1, <1>7, Orders DEF ServeParked, PersonalTypeOK
  <2> QED  BY <1>6, <1>7, <2>1 DEF ServeParked
<1>8. ASSUME NEW q \in Choosers, NEW e \in Cabs, BreakdownPersonal(e, q)
      PROVE  mark'[d] = "offered" /\ ~Considers(d)'
  <2>1. e # d /\ personal[q] \in Personal
    BY <1>1, <1>8, Orders DEF BreakdownPersonal, PersonalTypeOK
  <2> DEFINE rows == [mark EXCEPT ![e] = "away"]
  <2>2. rows \in [Cabs -> PersonalRows] /\ rows[d] = "offered"
    BY <1>1, <2>1 DEF PersonalTypeOK, PersonalRows
  <2>3. HandOn(q, rows) /\ UNCHANGED <<work>>
    BY <1>8 DEF BreakdownPersonal
  <2> HIDE DEF rows
  <2> QED  BY <1>6, <2>1, <2>2, <2>3
<1>9. ASSUME NEW q \in Choosers, NEW to, ClosePersonal(q, personal[q].by, to)
      PROVE  mark'[d] = "offered" /\ ~Considers(d)'
  <2>1. personal' = [personal EXCEPT ![q] = NoOrder] /\ work' = work
        /\ mark' = IF personal[q].by = Nobody THEN mark ELSE [mark EXCEPT ![personal[q].by] = to]
    BY <1>9 DEF ClosePersonal
  <2>2. mark'[d] = "offered"
    BY <1>1, <2>1 DEF PersonalTypeOK
  <2>3. NoOrder.by # d
    BY <1>1, Orders
  <2> QED  BY <1>2, <2>1, <2>2, <2>3
<1>10. ASSUME NEW q \in Choosers, NEW e \in Cabs, AcceptPersonal(e, q)
       PROVE  mark'[d] = "offered" /\ ~Considers(d)'
  <2>1. e # d /\ personal[q].by = e /\ work' = work
        /\ personal' = [personal EXCEPT ![q].status = "riding"]
        /\ mark' = [mark EXCEPT ![e] = "assigned"]
    BY <1>1, <1>10 DEF AcceptPersonal
  <2>2. mark'[d] = "offered"
    BY <1>1, <2>1 DEF PersonalTypeOK
  <2> DEFINE x == [personal[q] EXCEPT !.status = "riding"]
  <2>3. personal[q] \in Personal
    BY <1>1, <1>10, Orders DEF AcceptPersonal, PersonalTypeOK
  <2>4. x.by # d /\ personal' = [personal EXCEPT ![q] = x]
    BY <1>1, <2>1, <2>3 DEF Personal, PersonalTypeOK
  <2> HIDE DEF x
  <2> QED  BY <1>2, <2>1, <2>2, <2>4
<1>11. ASSUME NEW q \in Choosers, NEW e \in Cabs,
              DeclinePersonal(e, q) \/ CancelPersonal(q) \/ CompletePersonal(e, q)
       PROVE  mark'[d] = "offered" /\ ~Considers(d)'
  <2>1. \E to : ClosePersonal(q, personal[q].by, to)
    BY <1>11 DEF DeclinePersonal, CancelPersonal, CompletePersonal, ChosenRefused
  <2> QED  BY <1>9, <2>1
<1>12. ASSUME NEW q \in Choosers, CancelHold(q) \/ HoldTimeout(q)
       PROVE  mark'[d] = "offered" /\ ~Considers(d)'
  <2>1. \E next : EndHold(q, next)
    BY <1>12 DEF CancelHold, HoldTimeout
  <2> QED  BY <1>3, <2>1
<1>13. ASSUME NEW q \in Choosers, OpenList(q) \/ Wander(q) \/ SubmitText(q) \/ TimePasses(q)
       PROVE  mark'[d] = "offered" /\ ~Considers(d)'
  <2>1. UNCHANGED <<personal, work, mark>> \/ \E next : EndHold(q, next)
    BY <1>13 DEF OpenList, Wander, SubmitText, TimePasses
  <2> QED  BY <1>2, <1>3, <2>1
<1>14. ASSUME NEW q \in Choosers, PassengerStep(q)
       PROVE  mark'[d] = "offered" /\ ~Considers(d)'
  BY <1>4, <1>5, <1>7, <1>8, <1>10, <1>11, <1>12, <1>13, <1>14 DEF PassengerStep
<1>15. ASSUME NEW e \in Cabs, DriverStep(e)
       PROVE  \/ mark'[d] = "offered" /\ ~Considers(d)'
              \/ LineMenu(d, "waiting") \/ LineMenu(d, "none") \/ ClaimInChat(d)
  <2>1. ASSUME NEW to, GoesOff(e, to)  PROVE mark'[d] = "offered" /\ ~Considers(d)'
    <3>1. e # d
      BY <1>1, <2>1 DEF GoesOff
    <3> QED  BY <1>1, <1>2, <2>1, <3>1 DEF GoesOff, PersonalTypeOK
  <2>2. ASSUME NEW to, LineMenu(e, to), e # d  PROVE mark'[d] = "offered" /\ ~Considers(d)'
    BY <1>1, <1>2, <2>2 DEF LineMenu, PersonalTypeOK
  <2>3. ASSUME ClaimInChat(e), e # d  PROVE mark'[d] = "offered" /\ ~Considers(d)'
    <3> DEFINE rows == [mark EXCEPT ![e] = "assigned"]
               mine == {q \in Choosers : personal[q].status = "searching" /\ personal[q].by = e}
    <3>1. /\ work' = [work EXCEPT ![e] = "ride"]
          /\ (mark' = rows /\ UNCHANGED personal) \/ \E q \in mine : HandOn(q, rows)
      BY <2>3 DEF ClaimInChat
    <3>2. rows \in [Cabs -> PersonalRows] /\ rows[d] = "offered"
      BY <1>1, <2>3 DEF PersonalTypeOK, PersonalRows
    <3>3. CASE mark' = rows /\ UNCHANGED personal
      BY <1>2, <2>3, <3>1, <3>2, <3>3
    <3>4. ASSUME NEW q \in mine, HandOn(q, rows)  PROVE mark'[d] = "offered" /\ ~Considers(d)'
      <4> HIDE DEF rows
      <4>1. PICK f \in Cabs \cup {Nobody} : Passed(q, f, rows)
        BY <1>1, <3>2, <3>4, HandedOn
      <4>2. f # d /\ mark'[d] = "offered"
        BY <1>1, <3>2, <4>1 DEF Passed
      <4>3. personal[q] \in Personal
        BY <1>1, Orders DEF PersonalTypeOK
      <4>4. GivenTo(q, f).by # d
        BY <4>2, <4>3, Given
      <4> QED  BY <1>2, <2>3, <3>1, <4>1, <4>2, <4>4 DEF Passed
    <3> QED  BY <3>1, <3>3, <3>4
  <2>4. ASSUME OrdinaryOffer(e)  PROVE mark'[d] = "offered" /\ ~Considers(d)'
    <3>1. /\ e \in Takers(mark) /\ work' = [work EXCEPT ![e] = "offer"]
          /\ mark' = [Repaired(mark) EXCEPT ![e] = "offered"]
          /\ UNCHANGED personal /\ mark \in [Cabs -> PersonalRows]
      BY <1>1, <2>4 DEF OrdinaryOffer, PersonalTypeOK
    <3>2. e # d
      BY <1>1, <3>1, Taker
    <3>3. mark'[d] = "offered"
      BY <1>1, <3>1, <3>2, RepairedRow
    <3> QED  BY <1>2, <3>1, <3>2, <3>3
  <2>5. ASSUME OrdinaryEnds(e)  PROVE mark'[d] = "offered" /\ ~Considers(d)'
    <3>1. /\ e # d /\ UNCHANGED personal
          /\ \E w, to : work' = [work EXCEPT ![e] = w] /\ mark' = [mark EXCEPT ![e] = to]
      BY <1>1, <2>5 DEF OrdinaryEnds
    <3> QED  BY <1>1, <1>2, <3>1 DEF PersonalTypeOK
  <2> QED  BY <1>15, <2>1, <2>2, <2>3, <2>4, <2>5 DEF DriverStep
<1> QED  BY <1>14, <1>15, Steps

\* While the hold of a passenger lasts nobody but the held driver ends its mark: no
\* search (_repair_visibly_free_drivers), no breakdown and no other passenger; he does
\* by the menu of the lines, which looks for no hold, or by a claim in the chat.
THEOREM HoldsAreHonoured == PersonalSpec => HoldIsHonoured
<1>1. PersonalInv /\ [PersonalNext]_personalVars =>
        [\A p \in Choosers, d \in Cabs :
           hold[p] = d /\ hold'[p] = d /\ mark[d] = "offered" /\ ~Considers(d) =>
             \/ mark'[d] = "offered" /\ ~Considers(d)'
             \/ LineMenu(d, "waiting") \/ LineMenu(d, "none") \/ ClaimInChat(d)]_personalVars
  BY HeldStays
<1> QED  BY <1>1, PersonalInvariant, PTL DEF PersonalSpec, HoldIsHonoured

\* A step changes the driver of an order, while it lasts, in three ways: the search
\* serves an order that has none, or the driver's claim or breakdown passes it on.
LEMMA DriverStays ==
  ASSUME PersonalInv, PersonalNext, NEW p \in Choosers,
         personal[p].by # Nobody, personal'[p] # NoOrder
  PROVE  \/ personal'[p].by = personal[p].by
         \/ ClaimInChat(personal[p].by) \/ BreakdownPersonal(personal[p].by, p)
<1>1. PersonalTypeOK /\ personal[p] # NoOrder /\ personal[p] \in Personal
  BY Orders DEF PersonalInv, PersonalTypeOK
<1>2. ASSUME NEW q \in Choosers, q # p, NEW x, personal' = [personal EXCEPT ![q] = x]
      PROVE  personal'[p].by = personal[p].by
  BY <1>1, <1>2 DEF PersonalTypeOK
<1>3. ASSUME NEW q \in Choosers, NEW rows, HandOn(q, rows), q # p
      PROVE  personal'[p].by = personal[p].by
  BY <1>1, <1>3 DEF HandOn, PersonalTypeOK
<1>4. ASSUME NEW q \in Choosers, PassengerStep(q)
      PROVE  personal'[p].by = personal[p].by \/ BreakdownPersonal(personal[p].by, p)
  <2>1. CASE personal' = personal
    BY <2>1
  <2>2. CASE CreatePersonal(q)
    <3>1. q = p => personal' = personal
      BY <1>1, <2>2 DEF CreatePersonal, EndHold, PersonalInv, Ordering
    <3>2. personal' = personal \/ \E x : personal' = [personal EXCEPT ![q] = x]
      BY <2>2 DEF CreatePersonal, EndHold
    <3> QED  BY <1>2, <3>1, <3>2
  <2>3. CASE ServeParked(q)
    BY <1>3, <2>3 DEF ServeParked
  <2>4. ASSUME NEW d \in Cabs, AcceptPersonal(d, q)  PROVE personal'[p].by = personal[p].by
    BY <1>1, <2>4 DEF AcceptPersonal, PersonalTypeOK, Personal
  <2>5. ASSUME NEW d, NEW to, ClosePersonal(q, d, to)  PROVE personal'[p].by = personal[p].by
    <3>1. q # p
      BY <1>1, <2>5 DEF ClosePersonal, PersonalTypeOK
    <3> QED  BY <1>2, <2>5, <3>1 DEF ClosePersonal
  <2>6. ASSUME NEW d \in Cabs, BreakdownPersonal(d, q)
        PROVE  personal'[p].by = personal[p].by \/ BreakdownPersonal(personal[p].by, p)
    BY <1>3, <2>6 DEF BreakdownPersonal
  <2>7. ASSUME NEW d \in Cabs, DeclinePersonal(d, q) \/ CompletePersonal(d, q)
        PROVE  personal'[p].by = personal[p].by
    BY <2>5, <2>7 DEF DeclinePersonal, ChosenRefused, CompletePersonal
  <2>8. CASE CancelPersonal(q)
    BY <2>5, <2>8 DEF CancelPersonal
  <2>9. ASSUME NEW d \in Cabs, Select(q, d)  PROVE personal' = personal
    BY <2>9 DEF Select, EndHold
  <2>10. CASE OpenList(q) \/ CancelHold(q) \/ Wander(q) \/ SubmitText(q) \/ TimePasses(q)
              \/ HoldTimeout(q)
    BY <2>10 DEF OpenList, CancelHold, Wander, SubmitText, TimePasses, HoldTimeout, EndHold
  <2> QED
    BY <1>4, <2>1, <2>2, <2>3, <2>4, <2>6, <2>7, <2>8, <2>9, <2>10 DEF PassengerStep
<1>5. ASSUME NEW d \in Cabs, DriverStep(d)
      PROVE  personal'[p].by = personal[p].by \/ ClaimInChat(personal[p].by)
  <2>1. CASE ClaimInChat(d)
    <3>1. \/ UNCHANGED personal
          \/ \E q \in Choosers : \E rows : personal[q].by = d /\ HandOn(q, rows)
      BY <2>1 DEF ClaimInChat
    <3> QED  BY <1>3, <2>1, <3>1
  <2>2. CASE UNCHANGED personal
    BY <2>2
  <2> QED  BY <1>5, <2>1, <2>2 DEF DriverStep, GoesOff, LineMenu, OrdinaryOffer, OrdinaryEnds
<1> QED  BY <1>4, <1>5, Steps

\* An order made for a driver is his until it is closed: a refusal or a timeout closes
\* it (offer_to_selected_driver), and only his own claim in the chat or the breakdown
\* of his car hands it to the next driver.
THEOREM OrdersStayPersonal == PersonalSpec => PersonalStays
<1>1. PersonalInv /\ [PersonalNext]_personalVars =>
        [\A p \in Choosers :
           personal[p].by # Nobody /\ personal[p].by = personal[p].chosen
             /\ personal'[p] # NoOrder =>
               \/ personal'[p].by = personal[p].chosen
               \/ ClaimInChat(personal[p].by) \/ BreakdownPersonal(personal[p].by, p)]_personalVars
  BY DriverStays
<1> QED  BY <1>1, PersonalInvariant, PTL DEF PersonalSpec, PersonalStays

\* Every variable of the personal orders keeps its type: PersonalTypeOK, of
\* bot/handlers.py's dialogues, holds and orders for a chosen driver.
THEOREM PersonalTypes == PersonalSpec => []PersonalTypeOK
<1>1. PersonalInv => PersonalTypeOK
  BY DEF PersonalInv
<1> QED  BY <1>1, PersonalInvariant, PTL
============================================================================
