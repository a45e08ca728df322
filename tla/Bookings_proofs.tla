--------------------------- MODULE Bookings_proofs ---------------------------
(***************************************************************************)
(* What holds of bookings and debts for every number of them and for any   *)
(* users: a passenger has one active booking, and a debtor is locked out.  *)
(***************************************************************************)
EXTENDS Bookings, FiniteSetTheorems, SequenceTheorems, TLAPS

\* The inductive invariant: types; who rides has a driver; one active booking; and of
\* the debts, what the open transactions that will lift a flag have not seen was made
\* while they were open.
Rows ==
    /\ bookings \in Seq(Booking)
    /\ rides \in Seq(Ride)
    /\ debts \in Seq(Debt) /\ Len(debts) <= MaxDebts
    /\ paying \in [1..MaxDebts -> Paying]
Booked == \A b \in Books : bookings[b].status \in {"assigned", "driver_en_route"} =>
                             bookings[b].driver \in Cabs
Ridden == \A r \in Rides : rides[r].status = "riding" => rides[r].driver \in Cabs
Single ==
    \A b, e \in Books :
        /\ bookings[b].owner \in Riders /\ bookings[e].owner = bookings[b].owner
        /\ bookings[b].status \in Active /\ bookings[e].status \in Active
        => b = e
Owed(f) == debts[f].status = "pending" /\ ~debts[f].during
DebtsLock == \A f \in Debts : Owed(f) => debts[f].owner \in locked
Healed == \A f \in Debts : debts[f].owner \in healing => ~Owed(f)
Lifted ==
    \A f, g \in Debts :
        paying[f] = "lift" /\ debts[g].owner = debts[f].owner /\ g # f => ~Owed(g)
NotPaying == \A f \in (1..MaxDebts) \ Debts : paying[f] = "no"
DebtInv == DebtsLock /\ Healed /\ Lifted /\ NotPaying
BookInv == Rows /\ Booked /\ Ridden /\ Single /\ DebtInv

---------------------------------------------------------------------------
(* Sequences of rows. *)

LEMMA Updated ==
  ASSUME NEW S, NEW s \in Seq(S), NEW i, NEW e, i \in DOMAIN s => e \in S
  PROVE  LET t == [s EXCEPT ![i] = e]
         IN  /\ t \in Seq(S) /\ Len(t) = Len(s) /\ DOMAIN t = DOMAIN s
             /\ \A j \in DOMAIN s : t[j] = IF j = i THEN e ELSE s[j]
<1> DEFINE t == [s EXCEPT ![i] = e]
<1>1. DOMAIN t = DOMAIN s /\ \A j \in DOMAIN s : t[j] = IF j = i THEN e ELSE s[j]
  OBVIOUS
<1>2. Len(s) \in Nat /\ DOMAIN s = 1..Len(s) /\ \A j \in DOMAIN s : s[j] \in S
  BY LenProperties
<1>3. t \in [1..Len(s) -> S]
  BY <1>2
<1>4. t \in Seq(S)  BY <1>2, <1>3, SeqDef
<1>5. Len(t) = Len(s)  BY <1>1, <1>2, <1>4, LenProperties
<1> QED  BY <1>1, <1>4, <1>5

LEMMA Appended ==
  ASSUME NEW S, NEW s \in Seq(S), NEW e \in S
  PROVE  /\ Append(s, e) \in Seq(S) /\ Len(s) \in Nat /\ DOMAIN s = 1..Len(s)
         /\ Len(Append(s, e)) = Len(s) + 1 /\ Len(s) + 1 \notin DOMAIN s
         /\ DOMAIN Append(s, e) = DOMAIN s \cup {Len(s) + 1}
         /\ Append(s, e)[Len(s) + 1] = e
         /\ \A j \in DOMAIN s : Append(s, e)[j] = s[j]
OBVIOUS

---------------------------------------------------------------------------
(* The debts. *)

debtRows == <<debts, locked, paying, healing>>

\* A change of what no decision looks at.
LEMMA SameDebts ==
  ASSUME DebtInv, debts' \in Seq(Debt), DOMAIN debts' = DOMAIN debts,
         UNCHANGED <<locked, paying, healing>>,
         \A f \in Debts : /\ debts'[f].owner = debts[f].owner
                          /\ debts'[f].status = debts[f].status
                          /\ debts'[f].during = debts[f].during
  PROVE  DebtInv'
<1>1. Debts' = Debts /\ \A f \in Debts : Owed(f)' <=> Owed(f)
  BY DEF Debts, Owed
<1> QED  BY <1>1 DEF DebtInv, DebtsLock, Healed, Lifted, NotPaying

LEMMA OweInv ==
  ASSUME Rows, DebtInv, NEW p \in Riders, NEW d \in Cabs, Owe(p, d)
  PROVE  DebtInv' /\ debts' \in Seq(Debt) /\ Len(debts') <= MaxDebts /\ UNCHANGED paying
<1>0. PICK n \in Nat : n = Len(debts) + 1
  BY LenProperties DEF Rows
<1> DEFINE e == [owner |-> p, driver |-> d, status |-> "pending", requested |-> FALSE,
                 reminded |-> 0, during |-> BeingLifted(p)]
<1>1. /\ Len(debts) < MaxDebts /\ debts' = Append(debts, e)
      /\ locked' = locked \cup {p} /\ UNCHANGED <<paying, healing>>
  BY DEF Owe
<1>2. BeingLifted(p) \in BOOLEAN  BY DEF BeingLifted
<1>3. e \in Debt
  BY <1>2, RemindersAssumption DEF Debt
<1>4. e.owner = p /\ e.status = "pending" /\ (e.during <=> BeingLifted(p))
  OBVIOUS
<1> HIDE DEF e
<1>5. /\ debts' \in Seq(Debt) /\ Len(debts) \in Nat /\ Debts = 1..Len(debts)
      /\ Len(debts') = Len(debts) + 1 /\ Debts' = Debts \cup {n} /\ n \notin Debts
      /\ debts'[n] = e /\ \A f \in Debts : debts'[f] = debts[f]
  BY <1>0, <1>1, <1>3, Appended DEF Rows, Debts
<1>6. n \in 1..MaxDebts /\ Len(debts') <= MaxDebts
  BY <1>0, <1>1, <1>5, RemindersAssumption
<1>7. \A f \in Debts : Owed(f)' <=> Owed(f)
  BY <1>5 DEF Owed
<1>8. debts'[n].owner = p /\ (Owed(n)' <=> ~BeingLifted(p))
  BY <1>4, <1>5 DEF Owed
<1>9. DebtsLock'
  BY <1>1, <1>5, <1>7, <1>8 DEF DebtInv, DebtsLock
<1>10. Healed'
  BY <1>1, <1>5, <1>7, <1>8 DEF DebtInv, Healed, BeingLifted
<1>11. paying[n] = "no"  BY <1>5, <1>6 DEF DebtInv, NotPaying
<1>12. Lifted'
  <2> SUFFICES ASSUME NEW f \in Debts', NEW g \in Debts', paying[f] = "lift",
                      debts'[g].owner = debts'[f].owner, g # f
               PROVE  ~Owed(g)'
    BY <1>1 DEF Lifted
  <2>1. f \in Debts  BY <1>5, <1>11
  <2>2. CASE g = n
    BY <2>1, <2>2, <1>5, <1>8 DEF BeingLifted
  <2>3. CASE g \in Debts
    BY <2>1, <2>3, <1>5, <1>7 DEF DebtInv, Lifted
  <2> QED  BY <2>2, <2>3, <1>5
<1>13. NotPaying'
  BY <1>1, <1>5 DEF DebtInv, NotPaying
<1> QED  BY <1>1, <1>5, <1>6, <1>9, <1>10, <1>12, <1>13 DEF DebtInv

LEMMA DebtFields ==
  ASSUME Rows, NEW f \in Debts
  PROVE  /\ f \in 1..MaxDebts /\ debts[f] \in Debt /\ debts[f].owner \in Riders
         /\ debts[f].status \in {"pending", "paid"} /\ debts[f].during \in BOOLEAN
         /\ debts[f].reminded \in 0..MaxReminders
<1>1. debts[f] \in Debt /\ f \in 1..Len(debts) /\ Len(debts) \in Nat
  BY LenProperties DEF Rows, Debts
<1>2. f \in 1..MaxDebts  BY <1>1, RemindersAssumption DEF Rows
<1> QED  BY <1>1, <1>2 DEF Debt

LEMMA DebtStepsInv ==
  ASSUME Rows, DebtInv, DebtSteps
  PROVE  DebtInv' /\ debts' \in Seq(Debt) /\ Len(debts') <= MaxDebts
         /\ paying' \in [1..MaxDebts -> Paying]
<1> DEFINE Goal == DebtInv' /\ debts' \in Seq(Debt) /\ Len(debts') <= MaxDebts
                   /\ paying' \in [1..MaxDebts -> Paying]
<1>1. ASSUME NEW p \in Riders, ReadyToPay(p)  PROVE Goal
  <2>1. PICK l : /\ debts' = [debts EXCEPT ![l] = [debts[l] EXCEPT !.requested = TRUE]]
                 /\ UNCHANGED <<locked, paying, healing>>
    BY <1>1 DEF ReadyToPay
  <2>2. l \in Debts => [debts[l] EXCEPT !.requested = TRUE] \in Debt
    BY DebtFields DEF Debt
  <2>3. debts' \in Seq(Debt) /\ Len(debts') = Len(debts) /\ DOMAIN debts' = DOMAIN debts
        /\ \A f \in Debts : debts'[f] = IF f = l THEN [debts[l] EXCEPT !.requested = TRUE]
                                      ELSE debts[f]
    BY <2>1, <2>2, Updated DEF Rows, Debts
  <2>4. \A f \in Debts : /\ debts'[f].owner = debts[f].owner
                        /\ debts'[f].status = debts[f].status
                        /\ debts'[f].during = debts[f].during
    BY <2>3, DebtFields DEF Debt
  <2> QED  BY <2>1, <2>3, <2>4, SameDebts DEF Rows
<1>2. ASSUME NEW p \in Riders, HealReads(p)  PROVE Goal
  <2>1. /\ PendingOf(p) = {} /\ healing' = healing \cup {p}
        /\ UNCHANGED <<debts, locked, paying>>
    BY <1>2 DEF HealReads
  <2>2. \A f \in Debts : debts[f].owner = p => ~Owed(f)
    BY <2>1 DEF PendingOf, Owed
  <2>3. Debts' = Debts /\ \A f \in Debts : Owed(f)' <=> Owed(f)
    BY <2>1 DEF Debts, Owed
  <2> QED  BY <2>1, <2>2, <2>3 DEF DebtInv, DebtsLock, Healed, Lifted, NotPaying, Rows
<1>3. ASSUME NEW p \in Riders, HealCommits(p)  PROVE Goal
  <2>1. /\ p \in healing /\ locked' = locked \ {p} /\ healing' = healing \ {p}
        /\ UNCHANGED <<debts, paying>>
    BY <1>3 DEF HealCommits
  <2>2. Debts' = Debts /\ \A f \in Debts : Owed(f)' <=> Owed(f)
    BY <2>1 DEF Debts, Owed
  <2> QED  BY <2>1, <2>2 DEF DebtInv, DebtsLock, Healed, Lifted, NotPaying, Rows
<1>4. ASSUME NEW f \in Debts, PaidReads(f)  PROVE Goal
  <2>1. PICK w \in {"keep", "lift"} :
          /\ paying' = [paying EXCEPT ![f] = w]
          /\ w = "lift" => PendingOf(debts[f].owner) \ {f} = {}
          /\ UNCHANGED <<debts, locked, healing>>
    BY <1>4 DEF PaidReads, OthersPending
  <2>2. Debts' = Debts /\ \A g \in Debts : Owed(g)' <=> Owed(g)
    BY <2>1 DEF Debts, Owed
  <2>3. paying' \in [1..MaxDebts -> Paying]
        /\ \A g \in 1..MaxDebts : paying'[g] = IF g = f THEN w ELSE paying[g]
    BY <2>1, DebtFields DEF Rows, Paying
  <2>4. w = "lift" => \A g \in Debts : debts[g].owner = debts[f].owner /\ g # f => ~Owed(g)
    BY <2>1 DEF PendingOf, Owed
  <2>5. Lifted'
    BY <2>1, <2>2, <2>3, <2>4, DebtFields DEF DebtInv, Lifted
  <2> QED  BY <2>1, <2>2, <2>3, <2>5 DEF DebtInv, DebtsLock, Healed, NotPaying, Rows
<1>5. ASSUME NEW f \in Debts, PaidCommits(f)  PROVE Goal
  <2> DEFINE e == [debts[f] EXCEPT !.status = "paid"]
  <2>1. /\ debts' = [debts EXCEPT ![f] = e]
        /\ locked' = IF paying[f] = "lift" THEN locked \ {debts[f].owner} ELSE locked
        /\ paying' = [paying EXCEPT ![f] = "no"] /\ UNCHANGED healing
    BY <1>5 DEF PaidCommits
  <2>2. e \in Debt /\ e.status = "paid" /\ e.owner = debts[f].owner
    BY DebtFields DEF Debt
  <2>3. debts' \in Seq(Debt) /\ Len(debts') = Len(debts) /\ DOMAIN debts' = DOMAIN debts
        /\ \A g \in Debts : debts'[g] = IF g = f THEN e ELSE debts[g]
    BY <2>1, <2>2, Updated DEF Rows, Debts
  <2>4. paying' \in [1..MaxDebts -> Paying]
        /\ \A g \in 1..MaxDebts : paying'[g] = IF g = f THEN "no" ELSE paying[g]
    BY <2>1, DebtFields DEF Rows, Paying
  <2>5. /\ Debts' = Debts
        /\ \A g \in Debts : debts'[g].owner = debts[g].owner /\ (Owed(g)' <=> g # f /\ Owed(g))
    BY <2>2, <2>3 DEF Debts, Owed
  <2>6. DebtsLock'
    BY <2>1, <2>5 DEF DebtInv, DebtsLock, Lifted
  <2>7. Lifted'
    BY <2>4, <2>5, DebtFields DEF DebtInv, Lifted
  <2> QED  BY <2>1, <2>3, <2>4, <2>5, <2>6, <2>7 DEF DebtInv, Healed, NotPaying, Rows
<1>6. ASSUME NEW f \in Debts, Remind(f)  PROVE Goal
  <2>1. CASE UNCHANGED debts
    BY <1>6, <2>1, SameDebts DEF Remind, Rows
  <2>2. CASE debts' # debts
    <3> DEFINE e == [debts[f] EXCEPT !.reminded = @ + 1]
    <3>1. /\ debts[f].reminded < MaxReminders /\ debts' = [debts EXCEPT ![f] = e]
          /\ UNCHANGED <<locked, paying, healing>>
      BY <1>6, <2>2 DEF Remind
    <3>2. debts[f].reminded + 1 \in 0..MaxReminders
      BY <3>1, DebtFields, RemindersAssumption
    <3>3. /\ e \in Debt /\ e.owner = debts[f].owner /\ e.status = debts[f].status
          /\ e.during = debts[f].during
      BY <3>2, DebtFields DEF Debt
    <3>4. debts' \in Seq(Debt) /\ Len(debts') = Len(debts) /\ DOMAIN debts' = DOMAIN debts
          /\ \A g \in Debts : debts'[g] = IF g = f THEN e ELSE debts[g]
      BY <3>1, <3>3, Updated DEF Rows, Debts
    <3> HIDE DEF e
    <3> QED  BY <3>1, <3>3, <3>4, SameDebts DEF Rows
  <2> QED  BY <2>1, <2>2
<1> QED  BY <1>1, <1>2, <1>3, <1>4, <1>5, <1>6 DEF DebtSteps

\* A step that leaves the debts alone.
LEMMA DebtsAlone ==
  ASSUME Rows, DebtInv, UNCHANGED debtRows
  PROVE  DebtInv' /\ debts' \in Seq(Debt) /\ Len(debts') <= MaxDebts
         /\ paying' \in [1..MaxDebts -> Paying]
BY SameDebts DEF debtRows, Rows

---------------------------------------------------------------------------
(* The bookings and the rides. *)

LEMMA BookingFields ==
  ASSUME Rows, NEW b \in Books
  PROVE  /\ bookings[b] \in Booking /\ bookings[b].owner \in Customers
         /\ bookings[b].status \in Active \cup {"deleted"}
<1>1. bookings[b] \in Booking  BY LenProperties DEF Rows, Books
<1> QED  BY <1>1 DEF Booking

LEMMA RideFields ==
  ASSUME Rows, NEW r \in Rides
  PROVE  rides[r] \in Ride /\ rides[r].owner \in Customers
<1>1. rides[r] \in Ride  BY LenProperties DEF Rows, Rides
<1> QED  BY <1>1 DEF Ride

\* One booking changes, without becoming active or another customer's.
LEMMA BookingUpdated ==
  ASSUME Rows, Booked, Single, NEW b \in Books, NEW e \in Booking,
         bookings' = [bookings EXCEPT ![b] = e],
         e.owner = bookings[b].owner,
         e.status \in Active => bookings[b].status \in Active,
         e.status \in {"assigned", "driver_en_route"} => e.driver \in Cabs
  PROVE  bookings' \in Seq(Booking) /\ Booked' /\ Single'
<1>1. bookings' \in Seq(Booking) /\ DOMAIN bookings' = DOMAIN bookings
      /\ \A j \in Books : bookings'[j] = IF j = b THEN e ELSE bookings[j]
  BY Updated DEF Rows, Books
<1>2. Books' = Books  BY <1>1 DEF Books
<1>3. \A j \in Books : /\ bookings'[j].owner = bookings[j].owner
                     /\ bookings'[j].status \in Active => bookings[j].status \in Active
  BY <1>1
<1>4. Booked'  BY <1>1, <1>2 DEF Booked
<1>5. Single'  BY <1>2, <1>3 DEF Single
<1> QED  BY <1>1, <1>4, <1>5

LEMMA BookingsAlone ==
  ASSUME Rows, Booked, Single, UNCHANGED bookings
  PROVE  bookings' \in Seq(Booking) /\ Booked' /\ Single'
BY DEF Rows, Booked, Single, Books

LEMMA BookingDeleted ==
  ASSUME Rows, Booked, Single, NEW b \in Books, Deleted(b)
  PROVE  bookings' \in Seq(Booking) /\ Booked' /\ Single'
<1> DEFINE e == [owner |-> bookings[b].owner, status |-> "deleted", driver |-> Nobody,
                 ride |-> 0, card |-> FALSE, reminded |-> FALSE]
<1>1. bookings' = [bookings EXCEPT ![b] = e]  BY DEF Deleted
<1>2. e \in Booking /\ e.owner = bookings[b].owner /\ e.status = "deleted"
  BY BookingFields DEF Booking
<1>3. e.status \notin Active /\ e.status \notin {"assigned", "driver_en_route"}
  BY DEF Active
<1> HIDE DEF e
<1> QED  BY <1>1, <1>2, <1>3, BookingUpdated

LEMMA RideUpdated ==
  ASSUME Rows, Ridden, NEW r, NEW e, rides' = [rides EXCEPT ![r] = e],
         r \in Rides => e \in Ride /\ (e.status = "riding" => e.driver \in Cabs)
  PROVE  rides' \in Seq(Ride) /\ Ridden'
<1>1. rides' \in Seq(Ride) /\ DOMAIN rides' = DOMAIN rides
      /\ \A j \in Rides : rides'[j] = IF j = r THEN e ELSE rides[j]
  BY Updated DEF Rows, Rides
<1> QED  BY <1>1 DEF Ridden, Rides

LEMMA RideClosed ==
  ASSUME Rows, Ridden, NEW r, NEW status \in {"completed", "cancelled"},
         CloseRide(r, status)
  PROVE  rides' \in Seq(Ride) /\ Ridden'
<1> DEFINE e == [rides[r] EXCEPT !.status = status]
<1>1. rides' = [rides EXCEPT ![r] = e]  BY DEF CloseRide
<1>2. r \in Rides => e \in Ride /\ e.status = status  BY RideFields DEF Ride
<1> HIDE DEF e
<1> QED  BY <1>1, <1>2, RideUpdated

LEMMA RideAdded ==
  ASSUME Rows, Ridden, NEW c \in Customers, NEW d \in Cabs,
         rides' = Append(rides, [owner |-> c, driver |-> d, status |-> "riding"])
  PROVE  rides' \in Seq(Ride) /\ Ridden'
<1> DEFINE e == [owner |-> c, driver |-> d, status |-> "riding"]
<1>1. e \in Ride /\ e.driver = d  BY DEF Ride
<1> HIDE DEF e
<1>2. /\ rides' \in Seq(Ride) /\ Rides' = Rides \cup {Len(rides) + 1}
      /\ rides'[Len(rides) + 1] = e /\ \A j \in Rides : rides'[j] = rides[j]
  BY <1>1, Appended DEF Rows, Rides, e
<1> QED  BY <1>1, <1>2 DEF Ridden

LEMMA RidesAlone ==
  ASSUME Rows, Ridden, UNCHANGED rides
  PROVE  rides' \in Seq(Ride) /\ Ridden'
BY DEF Rows, Ridden, Rides

---------------------------------------------------------------------------
(* The actions. *)

LEMMA ConfirmInv ==
  ASSUME BookInv, NEW c \in Customers, Confirm(c)
  PROVE  BookInv'
<1> USE DEF BookInv
<1>1. PICK published \in BOOLEAN :
        bookings' = Append(bookings,
            [owner |-> c, status |-> "pending", driver |-> Nobody, ride |-> 0,
             card |-> published, reminded |-> FALSE])
  BY DEF Confirm
<1> DEFINE e == [owner |-> c, status |-> "pending", driver |-> Nobody, ride |-> 0,
                 card |-> published, reminded |-> FALSE]
<1>2. e \in Booking /\ e.owner = c /\ e.status = "pending"
  BY DEF Booking, Active
<1>3. MayBook(c) /\ UNCHANGED rides /\ UNCHANGED debtRows
  BY DEF Confirm, debtVars, debtRows
<1> HIDE DEF e
<1>4. PICK n \in Nat : n = Len(bookings) + 1
  BY LenProperties DEF Rows
<1>5. /\ bookings' \in Seq(Booking) /\ Books' = Books \cup {n} /\ n \notin Books
      /\ bookings'[n] = e /\ \A j \in Books : bookings'[j] = bookings[j]
  BY <1>1, <1>2, <1>4, Appended DEF Rows, Books, e
<1>6. Booked'
  BY <1>2, <1>5 DEF Booked
<1>7. c \in Riders => \A b \in Books : ~(bookings[b].owner = c /\ bookings[b].status \in Active)
  BY <1>3, RolesAssumption DEF MayBook, ActiveOf
<1>8. Single'
  <2> SUFFICES ASSUME NEW b \in Books', NEW f \in Books',
                      bookings'[b].owner \in Riders, bookings'[f].owner = bookings'[b].owner,
                      bookings'[b].status \in Active, bookings'[f].status \in Active
               PROVE  b = f
    BY DEF Single
  <2>1. CASE b = n /\ f = n  BY <2>1
  <2>2. CASE b = n /\ f # n  BY <2>2, <1>2, <1>5, <1>7
  <2>3. CASE b # n /\ f = n  BY <2>3, <1>2, <1>5, <1>7
  <2>4. CASE b # n /\ f # n  BY <2>4, <1>5 DEF Single
  <2> QED  BY <2>1, <2>2, <2>3, <2>4
<1> QED  BY <1>3, <1>5, <1>6, <1>8, DebtsAlone, RidesAlone DEF Rows

LEMMA PassengerCancelInv ==
  ASSUME BookInv, NEW b \in Books, NEW p \in Riders, PassengerCancelBooking(p, b)
  PROVE  BookInv'
<1> USE DEF BookInv
<1>1. bookings' \in Seq(Booking) /\ Booked' /\ Single'
  BY BookingDeleted DEF PassengerCancelBooking
<1>2. CASE CancelEnRoute(p, b)
  <2>1. bookings[b].driver \in Cabs
    BY <1>2 DEF CancelEnRoute, Booked
  <2>2. CloseRide(bookings[b].ride, "cancelled") /\ Owe(p, bookings[b].driver)
    BY <1>2 DEF CancelEnRoute
  <2>3. rides' \in Seq(Ride) /\ Ridden'  BY <2>2, RideClosed
  <2>4. DebtInv' /\ debts' \in Seq(Debt) /\ Len(debts') <= MaxDebts /\ UNCHANGED paying
    BY <2>1, <2>2, OweInv
  <2> QED  BY <1>1, <2>3, <2>4 DEF Rows
<1>3. CASE CancelBefore(b)
  <2>1. UNCHANGED rides /\ UNCHANGED debtRows
    BY <1>3 DEF CancelBefore, debtVars, debtRows
  <2> QED  BY <1>1, <2>1, DebtsAlone, RidesAlone DEF Rows
<1> QED  BY <1>2, <1>3 DEF PassengerCancelBooking

LEMMA DispCancelInv ==
  ASSUME BookInv, NEW b \in Books, NEW c \in Callers, DispCancelBooking(c, b)
  PROVE  BookInv'
<1> USE DEF BookInv
<1>1. bookings' \in Seq(Booking) /\ Booked' /\ Single'
  BY BookingDeleted DEF DispCancelBooking
<1>2. rides' \in Seq(Ride) /\ Ridden'
  <2>1. CASE bookings[b].ride # 0
    BY <2>1, RideClosed DEF DispCancelBooking
  <2>2. CASE bookings[b].ride = 0
    BY <2>2, RidesAlone DEF DispCancelBooking
  <2> QED  BY <2>1, <2>2
<1>3. UNCHANGED debtRows
  BY DEF DispCancelBooking, debtVars, debtRows
<1> QED  BY <1>1, <1>2, <1>3, DebtsAlone DEF Rows

LEMMA DriverInv ==
  ASSUME BookInv, NEW b \in Books, NEW d \in Cabs,
         TakeBooking(d, b) \/ DriverCancelBooking(d, b) \/ Depart(d, b)
  PROVE  BookInv'
<1> USE DEF BookInv
<1>1. UNCHANGED debtRows
  BY DEF TakeBooking, DriverCancelBooking, Depart, debtVars, debtRows
<1>2. Len(rides) + 1 \in Nat  BY LenProperties DEF Rows
<1>3. bookings[b].status \in {"pending", "assigned"}
  BY DEF TakeBooking, DriverCancelBooking, Depart
<1>4. bookings' \in Seq(Booking) /\ Booked' /\ Single'
  <2>1. CASE TakeBooking(d, b)
    <3> DEFINE e == [bookings[b] EXCEPT !.status = "assigned", !.driver = d,
                                        !.reminded = FALSE, !.card = FALSE]
    <3>1. bookings' = [bookings EXCEPT ![b] = e]  BY <2>1 DEF TakeBooking, Rows, Booking
    <3>2. e \in Booking /\ e.owner = bookings[b].owner /\ e.driver = d
      BY BookingFields DEF Booking, Active
    <3> HIDE DEF e
    <3> QED  BY <3>1, <3>2, <1>3, BookingUpdated DEF Active
  <2>2. CASE DriverCancelBooking(d, b)
    <3>1. PICK published \in BOOLEAN :
            bookings' = [bookings EXCEPT ![b].status = "pending", ![b].driver = Nobody,
                                         ![b].ride = 0, ![b].card = published]
      BY <2>2 DEF DriverCancelBooking
    <3> DEFINE e == [bookings[b] EXCEPT !.status = "pending", !.driver = Nobody,
                                        !.ride = 0, !.card = published]
    <3>2. bookings' = [bookings EXCEPT ![b] = e]  BY <3>1 DEF Rows, Booking
    <3>3. e \in Booking /\ e.owner = bookings[b].owner /\ e.status = "pending"
      BY BookingFields DEF Booking, Active
    <3> HIDE DEF e
    <3> QED  BY <3>2, <3>3, <1>3, BookingUpdated DEF Active
  <2>3. CASE Depart(d, b)
    <3> DEFINE e == [bookings[b] EXCEPT !.status = "driver_en_route",
                                        !.ride = Len(rides) + 1]
    <3>1. bookings' = [bookings EXCEPT ![b] = e]  BY <2>3 DEF Depart, Rows, Booking
    <3>2. e \in Booking /\ e.owner = bookings[b].owner /\ e.driver = bookings[b].driver
      BY <1>2, BookingFields DEF Booking, Active
    <3>3. bookings[b].driver = d  BY <2>3 DEF Depart
    <3> HIDE DEF e
    <3> QED  BY <3>1, <3>2, <3>3, <1>3, BookingUpdated DEF Active
  <2> QED  BY <2>1, <2>2, <2>3
<1>5. rides' \in Seq(Ride) /\ Ridden'
  <2>1. CASE UNCHANGED rides  BY <2>1, RidesAlone
  <2>2. CASE Depart(d, b)
    BY <2>2, BookingFields, RideAdded DEF Depart
  <2> QED  BY <2>1, <2>2 DEF TakeBooking, DriverCancelBooking
<1> QED  BY <1>1, <1>4, <1>5, DebtsAlone DEF Rows

LEMMA ClockInv ==
  ASSUME BookInv, NEW b \in Books, Expire(b) \/ RemindDriver(b)
  PROVE  BookInv'
<1> USE DEF BookInv
<1>1. UNCHANGED debtRows /\ UNCHANGED rides
  BY DEF Expire, RemindDriver, debtVars, debtRows
<1>2. bookings' \in Seq(Booking) /\ Booked' /\ Single'
  <2>1. CASE Expire(b)
    BY <2>1, BookingDeleted, BookingsAlone DEF Expire
  <2>2. CASE RemindDriver(b)
    <3> DEFINE e == [bookings[b] EXCEPT !.reminded = TRUE]
    <3>1. bookings' = [bookings EXCEPT ![b] = e]  BY <2>2 DEF RemindDriver
    <3>2. e \in Booking /\ e.owner = bookings[b].owner /\ e.driver = bookings[b].driver
          /\ e.status = bookings[b].status
      BY BookingFields DEF Booking
    <3> HIDE DEF e
    <3> QED  BY <3>1, <3>2, BookingUpdated DEF Booked
  <2> QED  BY <2>1, <2>2
<1> QED  BY <1>1, <1>2, DebtsAlone, RidesAlone DEF Rows

LEMMA RidesInv ==
  ASSUME BookInv, NEW r \in Rides, CompleteRide(r) \/ CancelRide(r) \/ Breakdown(r)
  PROVE  BookInv'
<1> USE DEF BookInv
<1>1. rides' \in Seq(Ride) /\ Ridden'
  <2>1. CASE CompleteRide(r)  BY <2>1, RideClosed DEF CompleteRide
  <2>2. CASE CancelRide(r)  BY <2>2, RideClosed DEF CancelRide
  <2>3. CASE Breakdown(r)
    <3> DEFINE e == [rides[r] EXCEPT !.status = "searching", !.driver = Nobody]
    <3>1. rides' = [rides EXCEPT ![r] = e]  BY <2>3 DEF Breakdown, Rows, Ride
    <3>2. e \in Ride /\ e.status = "searching"  BY RideFields DEF Ride
    <3> HIDE DEF e
    <3> QED  BY <3>1, <3>2, RideUpdated
  <2> QED  BY <2>1, <2>2, <2>3
<1>2. bookings' \in Seq(Booking) /\ Booked' /\ Single'
  <2>1. CASE UNCHANGED bookings  BY <2>1, BookingsAlone
  <2>2. CASE \E b \in Books : Deleted(b)  BY <2>2, BookingDeleted
  <2> QED  BY <2>1, <2>2 DEF CompleteRide, CancelRide, Breakdown, MarkCompleted
<1>3. CASE UNCHANGED debtRows
  BY <1>1, <1>2, <1>3, DebtsAlone DEF Rows
<1>4. CASE rides[r].owner \in Riders /\ rides[r].status = "riding"
           /\ Owe(rides[r].owner, rides[r].driver)
  <2>1. rides[r].driver \in Cabs  BY <1>4 DEF Ridden
  <2>2. DebtInv' /\ debts' \in Seq(Debt) /\ Len(debts') <= MaxDebts /\ UNCHANGED paying
    BY <2>1, <1>4, OweInv
  <2> QED  BY <1>1, <1>2, <2>2 DEF Rows
<1> QED  BY <1>3, <1>4 DEF CompleteRide, CancelRide, Breakdown, debtRows

LEMMA TakeOverInv ==
  ASSUME BookInv, NEW r \in Rides, NEW d \in Cabs, TakeOver(d, r)
  PROVE  BookInv'
<1> USE DEF BookInv
<1> DEFINE e == [rides[r] EXCEPT !.status = "riding", !.driver = d]
<1>1. rides' = [rides EXCEPT ![r] = e]  BY DEF TakeOver, Rows, Ride
<1>2. e \in Ride /\ e.driver = d  BY RideFields DEF Ride
<1> HIDE DEF e
<1>3. rides' \in Seq(Ride) /\ Ridden'  BY <1>1, <1>2, RideUpdated
<1>4. UNCHANGED bookings /\ UNCHANGED debtRows
  BY DEF TakeOver, debtVars, debtRows
<1> QED  BY <1>3, <1>4, DebtsAlone, BookingsAlone DEF Rows

LEMMA StartRideInv ==
  ASSUME BookInv, NEW c \in Customers, NEW d \in Cabs, StartRide(c, d)
  PROVE  BookInv'
<1> USE DEF BookInv
<1>1. rides' \in Seq(Ride) /\ Ridden'  BY RideAdded DEF StartRide
<1>2. UNCHANGED bookings /\ UNCHANGED debtRows
  BY DEF StartRide, debtVars, debtRows
<1> QED  BY <1>1, <1>2, DebtsAlone, BookingsAlone DEF Rows

LEMMA BookingsInitInv == BookingsInit => BookInv
<1> SUFFICES ASSUME BookingsInit PROVE BookInv
  OBVIOUS
<1>1. Books = {} /\ Rides = {} /\ Debts = {}
  BY DEF BookingsInit, DebtsInit, Books, Rides, Debts
<1>2. Rows
  BY RemindersAssumption DEF Rows, BookingsInit, DebtsInit, Paying
<1>3. Booked /\ Ridden /\ Single
  BY <1>1 DEF Booked, Ridden, Single
<1>4. DebtInv
  BY <1>1 DEF DebtInv, DebtsLock, Healed, Lifted, NotPaying, BookingsInit, DebtsInit
<1> QED  BY <1>2, <1>3, <1>4 DEF BookInv

LEMMA BookingsInvariant == BookingsSpec => []BookInv
<1>1. BookInv /\ [BookingsNext]_bookingVars => BookInv'
  <2> SUFFICES ASSUME BookInv, [BookingsNext]_bookingVars  PROVE BookInv'
    OBVIOUS
  <2> USE DEF BookInv
  <2>1. CASE UNCHANGED bookingVars
    BY <2>1, DebtsAlone, BookingsAlone, RidesAlone DEF bookingVars, debtVars, debtRows, Rows
  <2>2. CASE DebtSteps /\ UNCHANGED <<filled, bookings, expiry, rides, line>>
    BY <2>2, DebtStepsInv, BookingsAlone, RidesAlone DEF Rows
  <2>3. ASSUME NEW c \in Customers, FillForm(c)  PROVE BookInv'
    BY <2>3, DebtsAlone, BookingsAlone, RidesAlone DEF FillForm, debtVars, debtRows, Rows
  <2> HIDE DEF BookInv
  <2>4. CASE BookingsNext
    <3>1. CASE \E c \in Customers : FillForm(c) \/ Confirm(c)
      BY <3>1, <2>3, ConfirmInv
    <3>2. CASE \E b \in Books :
                 \/ \E p \in Riders : PassengerCancelBooking(p, b)
                 \/ \E c \in Callers : DispCancelBooking(c, b)
                 \/ \E d \in Cabs : TakeBooking(d, b) \/ DriverCancelBooking(d, b) \/ Depart(d, b)
                 \/ Expire(b) \/ RemindDriver(b)
      BY <3>2, PassengerCancelInv, DispCancelInv, DriverInv, ClockInv
    <3>3. CASE \E c \in Customers, d \in Cabs : StartRide(c, d)
      BY <3>3, StartRideInv
    <3>4. CASE \E r \in Rides : CompleteRide(r) \/ CancelRide(r) \/ Breakdown(r)
                                \/ \E d \in Cabs : TakeOver(d, r)
      BY <3>4, RidesInv, TakeOverInv
    <3> QED  BY <2>4, <2>2, <3>1, <3>2, <3>3, <3>4 DEF BookingsNext
  <2> QED  BY <2>1, <2>4
<1> QED  BY <1>1, BookingsInitInv, PTL DEF BookingsSpec

\* Whoever owes for a false call is locked out, but for a debt made while the lock was
\* being lifted: DebtorIsLocked, of bot/fake_calls_service.py's create, mark_paid and
\* handle_locked_input.
THEOREM DebtorsStayLocked == BookingsSpec => []DebtorIsLocked
<1>1. BookInv => DebtorIsLocked
  BY DEF BookInv, DebtInv, DebtsLock, Owed, DebtorIsLocked, PendingOf
<1> QED  BY <1>1, BookingsInvariant, PTL

\* A passenger has one active booking at most: OneActiveBooking, of
\* passenger_booking_confirm and of the handlers that give a booking back.
THEOREM PassengersBookOnce == BookingsSpec => []OneActiveBooking
<1>1. BookInv => OneActiveBooking
  <2> SUFFICES ASSUME BookInv, NEW p \in Riders  PROVE Cardinality(ActiveOf(p)) <= 1
    BY DEF OneActiveBooking
  <2>1. \A b, e \in ActiveOf(p) : b = e
    BY DEF BookInv, Single, ActiveOf
  <2>2. CASE ActiveOf(p) = {}
    <3>1. Cardinality(ActiveOf(p)) = 0  BY <2>2, FS_EmptySet
    <3> QED  BY <3>1
  <2>3. CASE ActiveOf(p) # {}
    <3>1. PICK b : ActiveOf(p) = {b}  BY <2>1, <2>3
    <3>2. Cardinality(ActiveOf(p)) = 1  BY <3>1, FS_Singleton
    <3> QED  BY <3>2
  <2> QED  BY <2>2, <2>3
<1> QED  BY <1>1, BookingsInvariant, PTL

---------------------------------------------------------------------------
(* The bookings and their rides. *)

EnRoute(b) == bookings[b].status = "driver_en_route"

\* A second inductive invariant: a booking names a ride that exists, its own while the
\* driver is on his way; and that ride has not been completed.
Paired ==
    /\ \A b \in Books : /\ bookings[b].ride \in Rides \cup {0}
                        /\ EnRoute(b) => /\ bookings[b].ride \in Rides
                                         /\ rides[bookings[b].ride].status # "completed"
    /\ \A b, e \in Books :
         EnRoute(b) /\ EnRoute(e) /\ bookings[b].ride = bookings[e].ride => b = e

\* What a step other than a departure keeps of it.
LEMMA PairedKeeps ==
  ASSUME Paired, \A r \in Rides : r \in Rides',
         \A b \in Books' : \/ bookings'[b].ride = 0 /\ ~EnRoute(b)'
                           \/ /\ b \in Books /\ bookings'[b].ride = bookings[b].ride
                              /\ EnRoute(b)' => EnRoute(b),
         \A r \in Rides : \/ rides'[r].status = "completed" => rides[r].status = "completed"
                          \/ \A b \in Books' : EnRoute(b)' => bookings'[b].ride # r
  PROVE  Paired'
<1>1. ASSUME NEW b \in Books'
      PROVE  /\ bookings'[b].ride \in Rides' \cup {0}
             /\ EnRoute(b)' => /\ b \in Books /\ EnRoute(b)
                               /\ bookings'[b].ride = bookings[b].ride
                               /\ bookings'[b].ride \in Rides'
                               /\ rides'[bookings'[b].ride].status # "completed"
  BY <1>1, Zenon DEF Paired
<1> QED  BY <1>1 DEF Paired

LEMMA BookingDeletedIs ==
  ASSUME Rows, NEW b \in Books, Deleted(b)
  PROVE  /\ Books' = Books /\ bookings'[b].status = "deleted" /\ bookings'[b].ride = 0
         /\ \A j \in Books \ {b} : bookings'[j] = bookings[j]
<1> DEFINE e == [owner |-> bookings[b].owner, status |-> "deleted", driver |-> Nobody,
                 ride |-> 0, card |-> FALSE, reminded |-> FALSE]
<1>1. bookings' = [bookings EXCEPT ![b] = e]  BY DEF Deleted
<1>2. e.status = "deleted" /\ e.ride = 0
  OBVIOUS
<1> HIDE DEF e
<1>3. DOMAIN bookings' = DOMAIN bookings
      /\ \A j \in Books : bookings'[j] = IF j = b THEN e ELSE bookings[j]
  BY <1>1 DEF Books
<1> QED  BY <1>2, <1>3 DEF Books

LEMMA RideClosedIs ==
  ASSUME Rows, NEW r, NEW status, CloseRide(r, status)
  PROVE  /\ Rides' = Rides /\ \A j \in Rides \ {r} : rides'[j] = rides[j]
         /\ r \in Rides => rides'[r].status = status
<1> DEFINE e == [rides[r] EXCEPT !.status = status]
<1>1. rides' = [rides EXCEPT ![r] = e]  BY DEF CloseRide
<1>2. r \in Rides => e.status = status  BY RideFields DEF Ride
<1> HIDE DEF e
<1>3. DOMAIN rides' = DOMAIN rides /\ \A j \in Rides : rides'[j] = IF j = r THEN e ELSE rides[j]
  BY <1>1 DEF Rides
<1> QED  BY <1>2, <1>3 DEF Rides

\* A booking is deleted, and its ride, if any, cancelled.
LEMMA CancelPaired ==
  ASSUME Rows, Paired, NEW b \in Books, Deleted(b),
         UNCHANGED rides \/ \E r : CloseRide(r, "cancelled")
  PROVE  Paired'
<1>1. /\ \A r \in Rides : r \in Rides'
      /\ \A r \in Rides : rides'[r].status = "completed" => rides[r].status = "completed"
  <2>1. CASE UNCHANGED rides  BY <2>1 DEF Rides
  <2>2. CASE \E r : CloseRide(r, "cancelled")
    <3>1. PICK r : CloseRide(r, "cancelled")  BY <2>2
    <3>2. /\ Rides' = Rides /\ \A j \in Rides \ {r} : rides'[j] = rides[j]
          /\ r \in Rides => rides'[r].status = "cancelled"
      BY <3>1, RideClosedIs
    <3> QED  BY <3>2
  <2> QED  BY <2>1, <2>2
<1>2. \A j \in Books' : \/ bookings'[j].ride = 0 /\ ~EnRoute(j)'
                        \/ /\ j \in Books /\ bookings'[j].ride = bookings[j].ride
                           /\ EnRoute(j)' => EnRoute(j)
  BY BookingDeletedIs DEF EnRoute
<1> QED  BY <1>1, <1>2, PairedKeeps

LEMMA CustomersPaired ==
  ASSUME Rows, Paired, NEW c \in Customers, Confirm(c)  PROVE Paired'
<1>1. PICK published \in BOOLEAN :
        bookings' = Append(bookings,
            [owner |-> c, status |-> "pending", driver |-> Nobody, ride |-> 0,
             card |-> published, reminded |-> FALSE])
  BY DEF Confirm
<1> DEFINE e == [owner |-> c, status |-> "pending", driver |-> Nobody, ride |-> 0,
                 card |-> published, reminded |-> FALSE]
<1>2. e \in Booking /\ e.status = "pending" /\ e.ride = 0
  BY DEF Booking, Active
<1> HIDE DEF e
<1>3. PICK n \in Nat : n = Len(bookings) + 1
  BY LenProperties DEF Rows
<1>4. /\ Books' = Books \cup {n} /\ bookings'[n] = e
      /\ \A j \in Books : bookings'[j] = bookings[j]
  BY <1>1, <1>2, <1>3, Appended DEF Rows, Books, e
<1>5. UNCHANGED rides /\ Rides' = Rides
  BY DEF Confirm, Rides
<1>6. \A j \in Books' : \/ bookings'[j].ride = 0 /\ ~EnRoute(j)'
                        \/ /\ j \in Books /\ bookings'[j].ride = bookings[j].ride
                           /\ EnRoute(j)' => EnRoute(j)
  BY <1>2, <1>4 DEF EnRoute
<1> QED  BY <1>5, <1>6, PairedKeeps

\* A booking becomes another that is not on its way, with its ride or none.
LEMMA UpdatePaired ==
  ASSUME Rows, Paired, NEW b \in Books, NEW e, bookings' = [bookings EXCEPT ![b] = e],
         e.status # "driver_en_route", e.ride \in {0, bookings[b].ride}, UNCHANGED rides
  PROVE  Paired'
<1>1. DOMAIN bookings' = DOMAIN bookings
      /\ \A j \in Books : bookings'[j] = IF j = b THEN e ELSE bookings[j]
  BY DEF Books
<1>2. \A j \in Books' : \/ bookings'[j].ride = 0 /\ ~EnRoute(j)'
                        \/ /\ j \in Books /\ bookings'[j].ride = bookings[j].ride
                           /\ EnRoute(j)' => EnRoute(j)
  BY <1>1 DEF EnRoute, Books
<1>3. Rides' = Rides  BY DEF Rides
<1> QED  BY <1>2, <1>3, PairedKeeps

LEMMA DepartPaired ==
  ASSUME Rows, Paired, NEW b \in Books, NEW d \in Cabs, Depart(d, b)  PROVE Paired'
<1>1. PICK n \in Nat : n = Len(rides) + 1
  BY LenProperties DEF Rows
<1> DEFINE e == [bookings[b] EXCEPT !.status = "driver_en_route", !.ride = n]
           q == [owner |-> bookings[b].owner, driver |-> d, status |-> "riding"]
<1>2. bookings' = [bookings EXCEPT ![b] = e]
  BY <1>1 DEF Depart, Rows, Booking
<1>3. e.ride = n
  BY BookingFields DEF Booking
<1>4. q \in Ride /\ q.status = "riding"
  BY BookingFields DEF Ride
<1>5. rides' = Append(rides, q)  BY DEF Depart
<1> HIDE DEF e, q
<1>6. DOMAIN bookings' = DOMAIN bookings
      /\ \A j \in Books : bookings'[j] = IF j = b THEN e ELSE bookings[j]
  BY <1>2 DEF Books
<1>7. /\ Rides' = Rides \cup {n} /\ n \notin Rides /\ rides'[n] = q
      /\ \A j \in Rides : rides'[j] = rides[j]
  BY <1>1, <1>4, <1>5, Appended DEF Rows, Rides
<1>8. Books' = Books  BY <1>6 DEF Books
<1>9. \A j \in Books' : j # b => bookings'[j].ride = bookings[j].ride /\ (EnRoute(j)' <=> EnRoute(j))
  BY <1>6, <1>8 DEF EnRoute
<1>10. bookings'[b].ride = n
  BY <1>3, <1>6
<1>11. \A j \in Books' \ {b} :
         /\ bookings'[j].ride \in Rides' \cup {0}
         /\ EnRoute(j)' => /\ bookings'[j].ride \in Rides
                           /\ rides'[bookings'[j].ride].status # "completed"
  BY <1>7, <1>8, <1>9 DEF Paired
<1>12. \A j \in Books' : bookings'[j].ride \in Rides' \cup {0}
         /\ (EnRoute(j)' => /\ bookings'[j].ride \in Rides'
                            /\ rides'[bookings'[j].ride].status # "completed")
  BY <1>4, <1>7, <1>10, <1>11
<1>13. \A j, k \in Books' :
         EnRoute(j)' /\ EnRoute(k)' /\ bookings'[j].ride = bookings'[k].ride => j = k
  BY <1>7, <1>8, <1>9, <1>10, <1>11 DEF Paired
<1> QED  BY <1>12, <1>13 DEF Paired

LEMMA DriversPaired ==
  ASSUME Rows, Paired, NEW b \in Books, NEW d \in Cabs,
         TakeBooking(d, b) \/ DriverCancelBooking(d, b)
  PROVE  Paired'
<1>1. CASE TakeBooking(d, b)
  <2> DEFINE e == [bookings[b] EXCEPT !.status = "assigned", !.driver = d,
                                      !.reminded = FALSE, !.card = FALSE]
  <2>1. bookings' = [bookings EXCEPT ![b] = e] /\ UNCHANGED rides
    BY <1>1 DEF TakeBooking, Rows, Booking
  <2>2. e.status = "assigned" /\ e.ride = bookings[b].ride
    BY BookingFields DEF Booking
  <2> HIDE DEF e
  <2> QED  BY <2>1, <2>2, UpdatePaired
<1>2. CASE DriverCancelBooking(d, b)
  <2>1. PICK published \in BOOLEAN :
          bookings' = [bookings EXCEPT ![b].status = "pending", ![b].driver = Nobody,
                                       ![b].ride = 0, ![b].card = published]
    BY <1>2 DEF DriverCancelBooking
  <2> DEFINE e == [bookings[b] EXCEPT !.status = "pending", !.driver = Nobody,
                                      !.ride = 0, !.card = published]
  <2>2. bookings' = [bookings EXCEPT ![b] = e]  BY <2>1 DEF Rows, Booking
  <2>3. e.status = "pending" /\ e.ride = 0
    BY BookingFields DEF Booking
  <2>4. UNCHANGED rides  BY <1>2 DEF DriverCancelBooking
  <2> HIDE DEF e
  <2> QED  BY <2>2, <2>3, <2>4, UpdatePaired
<1> QED  BY <1>1, <1>2

LEMMA ClockPaired ==
  ASSUME Rows, Paired, NEW b \in Books, Expire(b) \/ RemindDriver(b)  PROVE Paired'
<1>1. CASE Expire(b) /\ Deleted(b)
  BY <1>1, CancelPaired DEF Expire
<1>2. CASE Expire(b) /\ UNCHANGED bookings
  BY <1>2, PairedKeeps DEF Expire, EnRoute, Books, Rides
<1>3. CASE RemindDriver(b)
  <2> DEFINE e == [bookings[b] EXCEPT !.reminded = TRUE]
  <2>1. bookings' = [bookings EXCEPT ![b] = e] /\ UNCHANGED rides
    BY <1>3 DEF RemindDriver
  <2>2. e.status = bookings[b].status /\ e.ride = bookings[b].ride
    BY BookingFields DEF Booking
  <2>3. e.status # "driver_en_route"
    BY <1>3, <2>2 DEF RemindDriver
  <2> HIDE DEF e
  <2> QED  BY <2>1, <2>2, <2>3, UpdatePaired
<1> QED  BY <1>1, <1>2, <1>3 DEF Expire

\* The ride is completed: its booking, the only one, goes with it.
LEMMA CompletePaired ==
  ASSUME Rows, Paired, NEW r \in Rides, CompleteRide(r)  PROVE Paired'
<1> DEFINE done == {b \in Books : bookings[b].ride = r
                                  /\ bookings[b].status = "driver_en_route"}
<1>1. /\ Rides' = Rides /\ \A j \in Rides \ {r} : rides'[j] = rides[j]
  BY RideClosedIs DEF CompleteRide
<1>2. CASE done = {}
  <2>1. UNCHANGED bookings
    BY <1>2 DEF CompleteRide, MarkCompleted
  <2>2. \A b \in Books' : b \in Books /\ (EnRoute(b)' <=> EnRoute(b)) /\ bookings'[b].ride = bookings[b].ride
    BY <2>1 DEF Books, EnRoute
  <2>3. \A b \in Books' : EnRoute(b)' => bookings'[b].ride # r
    BY <1>2, <2>2 DEF EnRoute
  <2> QED  BY <1>1, <2>2, <2>3, PairedKeeps
<1>3. CASE done # {}
  <2>1. PICK b \in done : Deleted(b)
    BY <1>3 DEF CompleteRide, MarkCompleted
  <2>2. /\ Books' = Books /\ bookings'[b].status = "deleted" /\ bookings'[b].ride = 0
        /\ \A j \in Books \ {b} : bookings'[j] = bookings[j]
    BY <2>1, BookingDeletedIs
  <2>3. \A j \in Books \ {b} : EnRoute(j) => bookings[j].ride # r
    BY <2>1 DEF Paired, EnRoute
  <2>4. \A j \in Books' : \/ bookings'[j].ride = 0 /\ ~EnRoute(j)'
                          \/ /\ j \in Books /\ bookings'[j].ride = bookings[j].ride
                             /\ EnRoute(j)' => EnRoute(j)
    BY <2>2 DEF EnRoute
  <2>5. \A j \in Books' : EnRoute(j)' => bookings'[j].ride # r
    BY <2>2, <2>3 DEF EnRoute
  <2> QED  BY <1>1, <2>4, <2>5, PairedKeeps
<1> QED  BY <1>2, <1>3

LEMMA RidesPaired ==
  ASSUME Rows, Paired
  PROVE  /\ \A r \in Rides : CancelRide(r) \/ Breakdown(r) => Paired'
         /\ \A r \in Rides, d \in Cabs : TakeOver(d, r) => Paired'
         /\ \A c \in Customers, d \in Cabs : StartRide(c, d) => Paired'
<1>1. ASSUME UNCHANGED bookings, \A r \in Rides : r \in Rides',
             \A r \in Rides : rides'[r].status = "completed" => rides[r].status = "completed"
      PROVE  Paired'
  <2>1. Books' = Books /\ \A b \in Books : EnRoute(b)' <=> EnRoute(b)
    BY <1>1 DEF Books, EnRoute
  <2> QED  BY <1>1, <2>1, PairedKeeps
<1>2. ASSUME NEW r \in Rides, CancelRide(r)  PROVE Paired'
  <2>1. UNCHANGED bookings /\ CloseRide(r, "cancelled")
    BY <1>2 DEF CancelRide
  <2>2. /\ Rides' = Rides /\ \A j \in Rides \ {r} : rides'[j] = rides[j]
        /\ rides'[r].status = "cancelled"
    BY <2>1, RideClosedIs
  <2> QED  BY <1>1, <2>1, <2>2
<1>3. ASSUME NEW r \in Rides, NEW e, rides' = [rides EXCEPT ![r] = e], e.status # "completed",
             UNCHANGED bookings
      PROVE  Paired'
  <2>1. Rides' = Rides /\ \A j \in Rides : rides'[j] = IF j = r THEN e ELSE rides[j]
    BY <1>3 DEF Rides
  <2> QED  BY <1>1, <1>3, <2>1
<1>4. ASSUME NEW r \in Rides, Breakdown(r)  PROVE Paired'
  <2> DEFINE e == [rides[r] EXCEPT !.status = "searching", !.driver = Nobody]
  <2>1. rides' = [rides EXCEPT ![r] = e] /\ UNCHANGED bookings
    BY <1>4 DEF Breakdown, Rows, Ride
  <2>2. e.status = "searching"  BY RideFields DEF Ride
  <2> HIDE DEF e
  <2> QED  BY <1>3, <2>1, <2>2
<1>5. ASSUME NEW r \in Rides, NEW d \in Cabs, TakeOver(d, r)  PROVE Paired'
  <2> DEFINE e == [rides[r] EXCEPT !.status = "riding", !.driver = d]
  <2>1. rides' = [rides EXCEPT ![r] = e] /\ UNCHANGED bookings
    BY <1>5 DEF TakeOver, Rows, Ride
  <2>2. e.status = "riding"  BY RideFields DEF Ride
  <2> HIDE DEF e
  <2> QED  BY <1>3, <2>1, <2>2
<1>6. ASSUME NEW c \in Customers, NEW d \in Cabs, StartRide(c, d)  PROVE Paired'
  <2> DEFINE e == [owner |-> c, driver |-> d, status |-> "riding"]
  <2>1. e \in Ride /\ rides' = Append(rides, e) /\ UNCHANGED bookings
    BY <1>6 DEF Ride, StartRide
  <2> HIDE DEF e
  <2>2. \A r \in Rides : r \in Rides' /\ rides'[r] = rides[r]
    BY <2>1, Appended DEF Rows, Rides
  <2> QED  BY <1>1, <2>1, <2>2
<1> QED  BY <1>2, <1>4, <1>5, <1>6

LEMMA NextPaired ==
  ASSUME BookInv, Paired, [BookingsNext]_bookingVars  PROVE Paired'
<1>1. Rows
  BY DEF BookInv
<1>2. ASSUME UNCHANGED <<bookings, rides>>  PROVE Paired'
  BY <1>2, PairedKeeps DEF Books, Rides, EnRoute
<1>3. CASE UNCHANGED bookingVars \/ (DebtSteps /\ UNCHANGED <<filled, bookings, expiry, rides, line>>)
  BY <1>2, <1>3 DEF bookingVars
<1>4. CASE \E c \in Customers : FillForm(c) \/ Confirm(c)
  BY <1>1, <1>2, <1>4, CustomersPaired DEF FillForm
<1>5. ASSUME NEW b \in Books, NEW p \in Riders, PassengerCancelBooking(p, b)  PROVE Paired'
  <2>1. Deleted(b) /\ (UNCHANGED rides \/ CloseRide(bookings[b].ride, "cancelled"))
    BY <1>5 DEF PassengerCancelBooking, CancelEnRoute, CancelBefore
  <2> QED  BY <1>1, <2>1, CancelPaired
<1>6. ASSUME NEW b \in Books, NEW c \in Callers, DispCancelBooking(c, b)  PROVE Paired'
  <2>1. Deleted(b) /\ (UNCHANGED rides \/ CloseRide(bookings[b].ride, "cancelled"))
    BY <1>6 DEF DispCancelBooking
  <2> QED  BY <1>1, <2>1, CancelPaired
<1>7. CASE \E b \in Books :
             \/ \E p \in Riders : PassengerCancelBooking(p, b)
             \/ \E c \in Callers : DispCancelBooking(c, b)
             \/ \E d \in Cabs : TakeBooking(d, b) \/ DriverCancelBooking(d, b) \/ Depart(d, b)
             \/ Expire(b) \/ RemindDriver(b)
  BY <1>1, <1>5, <1>6, <1>7, DepartPaired, DriversPaired, ClockPaired
<1>8. CASE \E c \in Customers, d \in Cabs : StartRide(c, d)
  BY <1>1, <1>8, RidesPaired
<1>9. CASE \E r \in Rides : CompleteRide(r) \/ CancelRide(r) \/ Breakdown(r)
                            \/ \E d \in Cabs : TakeOver(d, r)
  BY <1>1, <1>9, CompletePaired, RidesPaired
<1> QED  BY <1>3, <1>4, <1>7, <1>8, <1>9 DEF BookingsNext

LEMMA PairedInvariant == BookingsSpec => [](BookInv /\ Paired)
<1>1. BookingsInit => Paired
  BY DEF BookingsInit, Paired, Books
<1>2. BookInv /\ Paired /\ [BookingsNext]_bookingVars => Paired'
  BY NextPaired
<1> QED  BY <1>1, <1>2, BookingsInvariant, PTL DEF BookingsSpec

\* A booking ends with its ride, whichever driver has completed it after a breakdown:
\* CompletedEndsBooking, of booking_service.py's mark_completed_for_order.
THEOREM BookingsEndWithRides == BookingsSpec => []CompletedEndsBooking
<1>1. Paired => CompletedEndsBooking
  BY DEF Paired, CompletedEndsBooking, EnRoute
<1> QED  BY <1>1, PairedInvariant, PTL

---------------------------------------------------------------------------
(* The timers of the bookings in the chat. *)

\* What PendingExpires says of one booking in a step.
Timed(b) ==
    Waits(b)' /\ b \notin expiry' =>
        (b \in Books /\ Waits(b) /\ b \notin expiry) \/ EndsOrder(b)

\* The timers that go are those of bookings that do not wait, and of orders that end.
LEMMA TimersKept ==
  ASSUME \A b \in Books' : Waits(b)' =>
           \/ b \in expiry'
           \/ b \in Books /\ Waits(b) /\ (b \in expiry => b \in expiry' \/ EndsOrder(b))
  PROVE  \A b \in Books' : Timed(b)
BY DEF Timed

\* A booking is deleted with its timer, and with those of its ride.
LEMMA CancelTimed ==
  ASSUME BookInv, Paired, NEW b \in Books, Deleted(b), bookings[b].status \in Active,
         \/ expiry' = expiry \ {b}
         \/ bookings[b].ride # 0 /\ expiry' = expiry \ {b, bookings[b].ride}
  PROVE  \A j \in Books' : Timed(j)
<1>1. /\ Books' = Books /\ bookings'[b].status = "deleted"
      /\ \A j \in Books \ {b} : bookings'[j] = bookings[j]
  BY BookingDeletedIs DEF BookInv
<1>2. bookings'[b] # bookings[b]
  BY <1>1 DEF Active
<1>3. bookings[b].ride # 0 => EndsOrder(bookings[b].ride)
  BY <1>2 DEF EndsOrder, Paired
<1>4. \A j \in Books' : Waits(j)' => j # b /\ j \in Books /\ Waits(j)
  BY <1>1 DEF Waits
<1> QED  BY <1>3, <1>4, TimersKept

\* A ride ends, and the timers of its number with it.
LEMMA RideTimed ==
  ASSUME NEW r \in Rides, rides'[r] # rides[r], expiry' = expiry \ {r},
         \A j \in Books' : Waits(j)' => j \in Books /\ Waits(j)
  PROVE  \A j \in Books' : Timed(j)
<1>1. EndsOrder(r)
  BY DEF EndsOrder
<1> QED  BY <1>1, TimersKept

LEMMA PublishTimed ==
  ASSUME BookInv, NEW b, NEW published \in BOOLEAN, Rearmed(b, published),
         bookings'[b].card = published,
         \A j \in Books' : Waits(j)' /\ j # b => j \in Books /\ Waits(j)
  PROVE  \A j \in Books' : Timed(j)
<1>1. CASE published = TRUE
  BY <1>1, TimersKept DEF Rearmed
<1>2. CASE published = FALSE
  <2>1. ~Waits(b)'
    BY <1>2 DEF Waits
  <2> QED  BY <1>2, <2>1, TimersKept DEF Rearmed
<1> QED  BY <1>1, <1>2

LEMMA ConfirmTimed ==
  ASSUME BookInv, NEW c \in Customers, Confirm(c)  PROVE \A j \in Books' : Timed(j)
<1>1. PICK published \in BOOLEAN :
        /\ bookings' = Append(bookings,
               [owner |-> c, status |-> "pending", driver |-> Nobody, ride |-> 0,
                card |-> published, reminded |-> FALSE])
        /\ Rearmed(Len(bookings) + 1, published)
  BY DEF Confirm
<1> DEFINE e == [owner |-> c, status |-> "pending", driver |-> Nobody, ride |-> 0,
                 card |-> published, reminded |-> FALSE]
<1>2. e \in Booking /\ e.card = published
  BY DEF Booking, Active
<1> HIDE DEF e
<1>3. PICK n \in Nat : n = Len(bookings) + 1
  BY LenProperties DEF BookInv, Rows
<1>4. /\ Books' = Books \cup {n} /\ bookings'[n] = e
      /\ \A j \in Books : bookings'[j] = bookings[j]
  BY <1>1, <1>2, <1>3, Appended DEF BookInv, Rows, Books, e
<1>5. \A j \in Books' : Waits(j)' /\ j # n => j \in Books /\ Waits(j)
  BY <1>4 DEF Waits
<1>6. bookings'[n].card = published /\ Rearmed(n, published)
  BY <1>1, <1>2, <1>3, <1>4
<1> QED  BY <1>5, <1>6, PublishTimed

LEMMA DriversTimed ==
  ASSUME BookInv, NEW b \in Books, NEW d \in Cabs,
         TakeBooking(d, b) \/ DriverCancelBooking(d, b) \/ Depart(d, b)
  PROVE  \A j \in Books' : Timed(j)
<1>0. Rows
  BY DEF BookInv
<1>1. ASSUME NEW e, bookings' = [bookings EXCEPT ![b] = e]
      PROVE  Books' = Books /\ bookings'[b] = e /\ \A j \in Books \ {b} : bookings'[j] = bookings[j]
  BY <1>1 DEF Books
<1>2. CASE TakeBooking(d, b)
  <2> DEFINE e == [bookings[b] EXCEPT !.status = "assigned", !.driver = d,
                                      !.reminded = FALSE, !.card = FALSE]
  <2>1. bookings' = [bookings EXCEPT ![b] = e] /\ expiry' = expiry \ {b}
    BY <1>0, <1>2 DEF TakeBooking, Rows, Booking
  <2>2. e.status = "assigned"
    BY <1>0, BookingFields DEF Booking
  <2> HIDE DEF e
  <2>3. \A j \in Books' : Waits(j)' => j \in Books \ {b} /\ Waits(j)
    BY <1>1, <2>1, <2>2 DEF Waits
  <2> QED  BY <2>1, <2>3, TimersKept
<1>3. CASE DriverCancelBooking(d, b)
  <2>1. PICK published \in BOOLEAN :
          /\ bookings' = [bookings EXCEPT ![b].status = "pending", ![b].driver = Nobody,
                                          ![b].ride = 0, ![b].card = published]
          /\ Rearmed(b, published)
    BY <1>3 DEF DriverCancelBooking
  <2> DEFINE e == [bookings[b] EXCEPT !.status = "pending", !.driver = Nobody,
                                      !.ride = 0, !.card = published]
  <2>2. bookings' = [bookings EXCEPT ![b] = e]  BY <1>0, <2>1 DEF Rows, Booking
  <2>3. e.card = published
    BY <1>0, BookingFields DEF Booking
  <2> HIDE DEF e
  <2>4. bookings'[b].card = published
    BY <1>1, <2>2, <2>3
  <2>5. \A j \in Books' : Waits(j)' /\ j # b => j \in Books /\ Waits(j)
    BY <1>1, <2>2 DEF Waits
  <2> QED  BY <2>1, <2>4, <2>5, PublishTimed
<1>4. CASE Depart(d, b)
  <2> DEFINE n == Len(rides) + 1
             e == [bookings[b] EXCEPT !.status = "driver_en_route", !.ride = n]
  <2>1. bookings' = [bookings EXCEPT ![b] = e] /\ UNCHANGED expiry
    BY <1>0, <1>4 DEF Depart, Rows, Booking
  <2> HIDE DEF n
  <2>2. e.status = "driver_en_route"
    BY <1>0, BookingFields DEF Booking
  <2> HIDE DEF e
  <2>3. \A j \in Books' : Waits(j)' => j \in Books /\ Waits(j)
    BY <1>1, <2>1, <2>2 DEF Waits
  <2> QED  BY <2>1, <2>3, TimersKept
<1> QED  BY <1>2, <1>3, <1>4

LEMMA ClockTimed ==
  ASSUME BookInv, NEW b \in Books, Expire(b) \/ RemindDriver(b)
  PROVE  \A j \in Books' : Timed(j)
<1>0. Rows
  BY DEF BookInv
<1>1. CASE Expire(b) /\ Deleted(b)
  <2>1. /\ Books' = Books /\ bookings'[b].status = "deleted"
        /\ \A j \in Books \ {b} : bookings'[j] = bookings[j]
    BY <1>0, <1>1, BookingDeletedIs
  <2>2. \A j \in Books' : Waits(j)' => j \in Books \ {b} /\ Waits(j)
    BY <2>1 DEF Waits
  <2> QED  BY <1>1, <2>2, TimersKept DEF Expire
<1>2. CASE Expire(b) /\ bookings[b].status # "pending" /\ UNCHANGED bookings
  <2>1. \A j \in Books' : Waits(j)' => j \in Books \ {b} /\ Waits(j)
    BY <1>2 DEF Waits, Books
  <2> QED  BY <1>2, <2>1, TimersKept DEF Expire
<1>3. CASE RemindDriver(b)
  <2> DEFINE e == [bookings[b] EXCEPT !.reminded = TRUE]
  <2>1. /\ bookings' = [bookings EXCEPT ![b] = e] /\ UNCHANGED expiry
        /\ bookings[b].status = "assigned"
    BY <1>3 DEF RemindDriver
  <2>2. e.status = bookings[b].status
    BY <1>0, BookingFields DEF Booking
  <2> HIDE DEF e
  <2>3. Books' = Books /\ bookings'[b] = e /\ \A j \in Books \ {b} : bookings'[j] = bookings[j]
    BY <2>1 DEF Books
  <2>4. \A j \in Books' : Waits(j)' => j \in Books /\ Waits(j)
    BY <2>1, <2>2, <2>3 DEF Waits
  <2> QED  BY <2>1, <2>4, TimersKept
<1> QED  BY <1>1, <1>2, <1>3 DEF Expire

LEMMA RidesTimed ==
  ASSUME BookInv, NEW r \in Rides, CompleteRide(r) \/ CancelRide(r) \/ Breakdown(r)
  PROVE  \A j \in Books' : Timed(j)
<1>0. Rows
  BY DEF BookInv
<1>1. expiry' = expiry \ {r} /\ rides[r].status = "riding"
  BY DEF CompleteRide, CancelRide, Breakdown, TimersGone
<1>2. rides'[r] # rides[r]
  <2>1. CASE CompleteRide(r)
    BY <1>0, <1>1, <2>1, RideClosedIs DEF CompleteRide
  <2>2. CASE CancelRide(r)
    BY <1>0, <1>1, <2>2, RideClosedIs DEF CancelRide
  <2>3. CASE Breakdown(r)
    <3> DEFINE e == [rides[r] EXCEPT !.status = "searching", !.driver = Nobody]
    <3>1. rides' = [rides EXCEPT ![r] = e]  BY <1>0, <2>3 DEF Breakdown, Rows, Ride
    <3>2. e.status = "searching"  BY <1>0, RideFields DEF Ride
    <3> HIDE DEF e
    <3>3. rides'[r] = e  BY <3>1 DEF Rides
    <3> QED  BY <1>1, <3>2, <3>3
  <2> QED  BY <2>1, <2>2, <2>3
<1>3. \A j \in Books' : Waits(j)' => j \in Books /\ Waits(j)
  <2>1. CASE UNCHANGED bookings
    BY <2>1 DEF Books, Waits
  <2>2. CASE \E b \in Books : Deleted(b)
    BY <1>0, <2>2, BookingDeletedIs DEF Waits
  <2> QED  BY <2>1, <2>2 DEF CompleteRide, CancelRide, Breakdown, MarkCompleted
<1> QED  BY <1>1, <1>2, <1>3, RideTimed

LEMMA NextTimed ==
  ASSUME BookInv, Paired, [BookingsNext]_bookingVars  PROVE \A j \in Books' : Timed(j)
<1>1. ASSUME UNCHANGED <<bookings, expiry>>  PROVE \A j \in Books' : Timed(j)
  BY <1>1 DEF Timed, Books, Waits
<1>2. CASE UNCHANGED bookingVars \/ (DebtSteps /\ UNCHANGED <<filled, bookings, expiry, rides, line>>)
  BY <1>1, <1>2 DEF bookingVars
<1>3. CASE \E c \in Customers : FillForm(c) \/ Confirm(c)
  BY <1>1, <1>3, ConfirmTimed DEF FillForm
<1>4. ASSUME NEW b \in Books, NEW p \in Riders, PassengerCancelBooking(p, b)
      PROVE  \A j \in Books' : Timed(j)
  <2>1. Deleted(b) /\ bookings[b].status \in Active
    BY <1>4 DEF PassengerCancelBooking
  <2>2. CASE CancelBefore(b)
    BY <2>1, <2>2, CancelTimed DEF CancelBefore
  <2>3. CASE CancelEnRoute(p, b)
    <3>1. expiry' = expiry \ {b, bookings[b].ride}
      BY <2>3 DEF CancelEnRoute
    <3>2. bookings[b].ride \in Rides /\ 0 \notin Rides
      <4>1. Rides = 1..Len(rides) /\ Len(rides) \in Nat
        BY LenProperties DEF BookInv, Rows, Rides
      <4> QED  BY <2>3, <4>1 DEF CancelEnRoute, Paired, EnRoute
    <3> QED  BY <2>1, <3>1, <3>2, CancelTimed
  <2> QED  BY <1>4, <2>2, <2>3 DEF PassengerCancelBooking
<1>5. ASSUME NEW b \in Books, NEW c \in Callers, DispCancelBooking(c, b)
      PROVE  \A j \in Books' : Timed(j)
  BY <1>5, CancelTimed DEF DispCancelBooking
<1>6. CASE \E b \in Books :
             \/ \E p \in Riders : PassengerCancelBooking(p, b)
             \/ \E c \in Callers : DispCancelBooking(c, b)
             \/ \E d \in Cabs : TakeBooking(d, b) \/ DriverCancelBooking(d, b) \/ Depart(d, b)
             \/ Expire(b) \/ RemindDriver(b)
  BY <1>4, <1>5, <1>6, DriversTimed, ClockTimed
<1>7. CASE \E c \in Customers, d \in Cabs : StartRide(c, d)
  BY <1>1, <1>7 DEF StartRide
<1>8. CASE \E r \in Rides : CompleteRide(r) \/ CancelRide(r) \/ Breakdown(r)
                            \/ \E d \in Cabs : TakeOver(d, r)
  BY <1>1, <1>8, RidesTimed DEF TakeOver
<1> QED  BY <1>2, <1>3, <1>6, <1>7, <1>8 DEF BookingsNext

\* A booking that waits in the chat expires: no step leaves it without its timer, unless an
\* order of the same number ends (PendingExpires, of _broadcast_booking_to_driver_chat and
\* of timers.py's cancel_all_for_order).
THEOREM WaitingBookingsExpire == BookingsSpec => PendingExpires
<1>1. BookInv /\ Paired /\ [BookingsNext]_bookingVars =>
        [\A b \in DOMAIN bookings' :
           Waits(b)' /\ b \notin expiry' =>
             (b \in Books /\ Waits(b) /\ b \notin expiry) \/ EndsOrder(b)]_bookingVars
  BY NextTimed DEF Timed, Books
<1> QED  BY <1>1, PairedInvariant, PTL DEF BookingsSpec, PendingExpires

---------------------------------------------------------------------------
(* The rest of the types. *)

\* What the other invariants leave of the types: the numbers of the rows, the timers of
\* rows that exist, and the users.
Rowed ==
    /\ Len(bookings) <= MaxBookings /\ expiry \subseteq Books
    /\ Len(rides) <= MaxRides
    /\ reminder \subseteq Debts
Seated ==
    /\ filled \subseteq Customers
    /\ locked \subseteq Riders /\ healing \subseteq Riders
    /\ line \in [Cabs -> Lines]

LEMMA SameLength ==
  ASSUME NEW S, NEW s \in Seq(S), NEW t \in Seq(S), DOMAIN t = DOMAIN s  PROVE Len(t) = Len(s)
<1>1. /\ Len(s) \in Nat /\ Len(t) \in Nat
      /\ DOMAIN s = 1..Len(s) /\ DOMAIN t = 1..Len(t)
  BY LenProperties
<1>2. 1..Len(t) = 1..Len(s)
  BY <1>1
<1> QED
  BY <1>1, <1>2

LEMMA BooksStand ==
  ASSUME BookInv, BookInv', Rowed, Books' = Books
  PROVE  Len(bookings') <= MaxBookings
<1>1. bookings \in Seq(Booking) /\ bookings' \in Seq(Booking)
  BY DEF BookInv, Rows
<1> QED
  BY <1>1, SameLength DEF Rowed, Books

LEMMA RidesStand ==
  ASSUME BookInv, BookInv', Rowed, Rides' = Rides
  PROVE  Len(rides') <= MaxRides
<1>1. rides \in Seq(Ride) /\ rides' \in Seq(Ride)
  BY DEF BookInv, Rows
<1> QED
  BY <1>1, SameLength DEF Rowed, Rides

LEMMA RideAppended ==
  ASSUME BookInv, Rowed, Len(rides) < MaxRides,
         NEW c \in Customers, NEW d \in Cabs,
         rides' = Append(rides, [owner |-> c, driver |-> d, status |-> "riding"])
  PROVE  Len(rides') <= MaxRides
<1> DEFINE e == [owner |-> c, driver |-> d, status |-> "riding"]
<1>1. rides \in Seq(Ride) /\ e \in Ride
  BY DEF BookInv, Rows, Ride
<1> HIDE DEF e
<1>2. Len(rides) \in Nat /\ Len(Append(rides, e)) = Len(rides) + 1
  BY <1>1, Appended
<1>3. rides' = Append(rides, e)
  BY DEF e
<1> QED
  BY <1>2, <1>3, BookingBounds

LEMMA Placed ==
  ASSUME line \in [Cabs -> Lines], NEW d, NEW to \in Lines, Moves(d, to)
  PROVE  line' \in [Cabs -> Lines]
BY DEF Moves

\* A new debt has a row for its timer, and its owner is a passenger.
LEMMA Owed1 ==
  ASSUME BookInv, NEW p \in Riders, NEW d \in Cabs, Owe(p, d)
  PROVE  Debts' = Debts \cup {NewDebt}
<1> DEFINE e == [owner |-> p, driver |-> d, status |-> "pending", requested |-> FALSE,
                 reminded |-> 0, during |-> BeingLifted(p)]
<1>1. debts' = Append(debts, e) /\ debts \in Seq(Debt)
  BY DEF Owe, BookInv, Rows
<1>2. e \in Debt
  BY RemindersAssumption DEF Debt, BeingLifted
<1> HIDE DEF e
<1> QED
  BY <1>1, <1>2, Appended DEF Debts, NewDebt

LEMMA DebtsRowed ==
  ASSUME BookInv, BookInv', Rowed, Seated, DebtSteps,
         UNCHANGED <<filled, bookings, expiry, rides, line>>
  PROVE  Rowed' /\ Seated'
<1>1. Books' = Books /\ Rides' = Rides
  BY DEF Books, Rides
<1>2. Debts' = Debts /\ reminder' \subseteq reminder
  BY DEF DebtSteps, ReadyToPay, HealReads, HealCommits, PaidReads, PaidCommits, Remind, Debts
<1>3. locked' \subseteq locked /\ healing' \subseteq healing \cup Riders
  BY DEF DebtSteps, ReadyToPay, HealReads, HealCommits, PaidReads, PaidCommits, Remind
<1> QED
  BY <1>1, <1>2, <1>3, BooksStand, RidesStand DEF Rowed, Seated

LEMMA ConfirmRowed ==
  ASSUME BookInv, BookInv', Rowed, Seated, NEW c \in Customers, Confirm(c)
  PROVE  Rowed' /\ Seated'
<1>1. PICK published \in BOOLEAN :
        /\ bookings' = Append(bookings,
                [owner |-> c, status |-> "pending", driver |-> Nobody, ride |-> 0,
                 card |-> published, reminded |-> FALSE])
        /\ Rearmed(Len(bookings) + 1, published)
  BY DEF Confirm
<1> DEFINE e == [owner |-> c, status |-> "pending", driver |-> Nobody, ride |-> 0,
                 card |-> published, reminded |-> FALSE]
<1>2. bookings \in Seq(Booking) /\ e \in Booking
  BY DEF BookInv, Rows, Booking, Active
<1>3. bookings' = Append(bookings, e)
  BY <1>1
<1> HIDE DEF e
<1>4. /\ Len(bookings) \in Nat /\ Len(bookings') = Len(bookings) + 1
      /\ Books' = Books \cup {Len(bookings) + 1}
  BY <1>2, <1>3, Appended DEF Books
<1>5. Len(bookings') <= MaxBookings
  BY <1>4, BookingBounds DEF Confirm
<1>6. expiry' \subseteq Books'
  BY <1>1, <1>4 DEF Rearmed, Rowed
<1>7. UNCHANGED <<rides, line, debts, locked, reminder, healing>> /\ filled' \subseteq filled
  BY DEF Confirm, debtVars
<1>8. Rides' = Rides /\ Debts' = Debts
  BY <1>7 DEF Rides, Debts
<1> QED
  BY <1>5, <1>6, <1>7, <1>8, RidesStand DEF Rowed, Seated

LEMMA FormRowed ==
  ASSUME BookInv, BookInv', Rowed, Seated, NEW c \in Customers, FillForm(c)
  PROVE  Rowed' /\ Seated'
<1>1. UNCHANGED <<bookings, expiry, rides, line, debts, locked, reminder, healing>>
  BY DEF FillForm, debtVars
<1>2. Books' = Books /\ Rides' = Rides /\ Debts' = Debts
  BY <1>1 DEF Books, Rides, Debts
<1> QED
  BY <1>1, <1>2 DEF FillForm, Rowed, Seated

LEMMA CancelsRowed ==
  ASSUME BookInv, BookInv', Rowed, Seated, NEW b \in Books,
         \/ \E p \in Riders : PassengerCancelBooking(p, b)
         \/ \E c \in Callers : DispCancelBooking(c, b)
  PROVE  Rowed' /\ Seated'
<1>1. Books' = Books
  BY DEF PassengerCancelBooking, DispCancelBooking, Deleted, Books
<1>2. Rides' = Rides
  BY DEF PassengerCancelBooking, DispCancelBooking, CancelEnRoute, CancelBefore, CloseRide, Rides
<1>3. expiry' \subseteq expiry /\ filled' \subseteq filled
  BY DEF PassengerCancelBooking, DispCancelBooking, CancelEnRoute, CancelBefore
<1>4. line' \in [Cabs -> Lines]
  <2>1. \/ UNCHANGED line \/ \E d : Moves(d, "waiting")
    BY DEF PassengerCancelBooking, DispCancelBooking, CancelEnRoute, CancelBefore, Freed
  <2> QED
    BY <2>1, Placed DEF Seated, Lines
<1>5. reminder' \subseteq Debts' /\ locked' \subseteq Riders /\ healing' \subseteq Riders
  <2>1. CASE UNCHANGED debts /\ UNCHANGED <<locked, healing>> /\ reminder' \subseteq reminder
    BY <2>1 DEF Rowed, Seated, Debts
  <2>2. ASSUME NEW p \in Riders, CancelEnRoute(p, b)
        PROVE  reminder' \subseteq Debts' /\ locked' \subseteq Riders /\ healing' \subseteq Riders
    <3>1. bookings[b].driver \in Cabs
      BY <2>2 DEF CancelEnRoute, BookInv, Booked
    <3>2. Owe(p, bookings[b].driver)
      BY <2>2 DEF CancelEnRoute
    <3>3. Debts' = Debts \cup {NewDebt}
      BY <3>1, <3>2, Owed1
    <3>4. reminder' \subseteq reminder \cup {NewDebt}
      BY <2>2 DEF CancelEnRoute
    <3> QED
      BY <3>2, <3>3, <3>4 DEF Owe, Rowed, Seated
  <2> QED
    BY <2>1, <2>2 DEF PassengerCancelBooking, DispCancelBooking, CancelBefore, debtVars
<1> QED
  BY <1>1, <1>2, <1>3, <1>4, <1>5, BooksStand, RidesStand DEF Rowed, Seated

LEMMA BookersRowed ==
  ASSUME BookInv, BookInv', Rowed, Seated, NEW b \in Books,
         \/ \E d \in Cabs : TakeBooking(d, b) \/ DriverCancelBooking(d, b) \/ Depart(d, b)
         \/ Expire(b) \/ RemindDriver(b)
  PROVE  Rowed' /\ Seated'
<1>1. Books' = Books
  BY DEF TakeBooking, DriverCancelBooking, Depart, Expire, Deleted, RemindDriver, Books
<1>2. Len(rides') <= MaxRides
  <2>1. CASE Rides' = Rides
    BY <2>1, RidesStand
  <2>2. ASSUME NEW d \in Cabs, Depart(d, b)  PROVE Len(rides') <= MaxRides
    <3>1. bookings[b].owner \in Customers
      BY BookingFields DEF BookInv
    <3> QED
      BY <2>2, <3>1, RideAppended DEF Depart
  <2> QED
    BY <2>1, <2>2 DEF TakeBooking, DriverCancelBooking, Expire, RemindDriver, Rides
<1>3. expiry' \subseteq Books
  BY DEF Rowed, TakeBooking, DriverCancelBooking, Rearmed, Depart, Expire, RemindDriver
<1>4. UNCHANGED <<debts, locked, reminder, healing>> /\ filled' \subseteq filled
  BY DEF TakeBooking, DriverCancelBooking, Depart, Expire, RemindDriver, debtVars
<1>5. line' \in [Cabs -> Lines]
  <2>1. UNCHANGED line \/ \E d : Moves(d, "waiting") \/ Moves(d, "assigned")
    BY DEF TakeBooking, DriverCancelBooking, Depart, Expire, RemindDriver, Freed, Assigned
  <2> QED
    BY <2>1, Placed DEF Seated, Lines
<1>6. Debts' = Debts
  BY <1>4 DEF Debts
<1> QED
  BY <1>1, <1>2, <1>3, <1>4, <1>5, <1>6, BooksStand DEF Rowed, Seated

LEMMA StartsRowed ==
  ASSUME BookInv, BookInv', Rowed, Seated, NEW c \in Customers, NEW d \in Cabs, StartRide(c, d)
  PROVE  Rowed' /\ Seated'
<1>1. UNCHANGED <<bookings, expiry, debts, locked, reminder, healing>> /\ filled' \subseteq filled
  BY DEF StartRide, debtVars
<1>2. Books' = Books /\ Debts' = Debts
  BY <1>1 DEF Books, Debts
<1>3. Len(rides') <= MaxRides
  BY RideAppended DEF StartRide
<1>4. line' \in [Cabs -> Lines]
  BY Placed DEF StartRide, Assigned, Seated, Lines
<1> QED
  BY <1>1, <1>2, <1>3, <1>4 DEF Rowed, Seated

LEMMA RidesRowed ==
  ASSUME BookInv, BookInv', Rowed, Seated, NEW r \in Rides,
         CompleteRide(r) \/ CancelRide(r) \/ Breakdown(r) \/ \E d \in Cabs : TakeOver(d, r)
  PROVE  Rowed' /\ Seated'
<1>1. Books' = Books
  BY DEF CompleteRide, MarkCompleted, Deleted, CancelRide, Breakdown, TakeOver, Books
<1>2. Rides' = Rides
  BY DEF CompleteRide, CancelRide, CloseRide, Breakdown, TakeOver, Rides
<1>3. expiry' \subseteq expiry /\ filled' \subseteq filled
  BY DEF CompleteRide, TimersGone, CancelRide, Breakdown, TakeOver
<1>4. line' \in [Cabs -> Lines]
  <2>1. \E d : Moves(d, "waiting") \/ Moves(d, "assigned") \/ Moves(d, "away")
    BY DEF CompleteRide, CancelRide, Breakdown, TakeOver, Freed, Assigned
  <2> QED
    BY <2>1, Placed DEF Seated, Lines
<1>5. reminder' \subseteq Debts' /\ locked' \subseteq Riders /\ healing' \subseteq Riders
  <2>1. CASE UNCHANGED debts /\ UNCHANGED <<locked, healing>> /\ reminder' \subseteq reminder
    BY <2>1 DEF Rowed, Seated, Debts
  <2>2. CASE /\ CancelRide(r) /\ rides[r].owner \in Riders
             /\ Owe(rides[r].owner, rides[r].driver)
             /\ reminder' = (reminder \ {r}) \cup {NewDebt}
    <3>1. rides[r].driver \in Cabs
      BY <2>2 DEF CancelRide, BookInv, Ridden
    <3>2. Debts' = Debts \cup {NewDebt}
      BY <2>2, <3>1, Owed1
    <3> QED
      BY <2>2, <3>2 DEF Owe, Rowed, Seated
  <2> QED
    BY <2>1, <2>2 DEF CompleteRide, TimersGone, CancelRide, Breakdown, TakeOver, debtVars
<1> QED
  BY <1>1, <1>2, <1>3, <1>4, <1>5, BooksStand, RidesStand DEF Rowed, Seated

LEMMA RowedInvariant == BookingsSpec => [](BookInv /\ Rowed /\ Seated)
<1>1. BookingsInit => Rowed /\ Seated
  <2> SUFFICES ASSUME BookingsInit  PROVE Rowed /\ Seated
    OBVIOUS
  <2>1. Len(bookings) = 0 /\ Len(rides) = 0
    BY DEF BookingsInit
  <2> QED
    BY <2>1, BookingBounds DEF BookingsInit, DebtsInit, Rowed, Seated, Lines
<1>2. BookInv /\ BookInv' /\ Rowed /\ Seated /\ [BookingsNext]_bookingVars => Rowed' /\ Seated'
  <2> SUFFICES ASSUME BookInv, BookInv', Rowed, Seated, [BookingsNext]_bookingVars
               PROVE  Rowed' /\ Seated'
    OBVIOUS
  <2>1. CASE UNCHANGED bookingVars
    BY <2>1 DEF bookingVars, debtVars, Rowed, Seated, Books, Debts
  <2>2. CASE BookingsNext
    BY <2>2, DebtsRowed, FormRowed, ConfirmRowed, CancelsRowed, BookersRowed, StartsRowed,
       RidesRowed DEF BookingsNext
  <2> QED
    BY <2>1, <2>2
<1> QED
  BY <1>1, <1>2, BookingsInvariant, PTL DEF BookingsSpec

\* Every variable of bookings, rides and debts keeps its type; above all a timer of
\* booking_service.py or fake_calls_service.py is armed for a row that exists
\* (BookingsTypeOK): the handlers that arm one and those that end the timers of a number
\* whose rows are of other kinds.
THEOREM BookingTypes == BookingsSpec => []BookingsTypeOK
<1>1. BookInv /\ Rowed /\ Seated => BookingsTypeOK
  BY DEF BookInv, Rows, Rowed, Seated, BookingsTypeOK, DebtsTypeOK
<1> QED
  BY <1>1, RowedInvariant, PTL
===============================================================================
