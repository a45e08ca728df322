---------------------------- MODULE Rides_proofs ----------------------------
(***************************************************************************)
(* What holds of the rides, the reservations and the offers of Dispatch,   *)
(* on top of the invariants of Dispatch_proofs: while nobody is asked for  *)
(* a better address, and no order of a dispatcher can be reserved, the     *)
(* columns of an order agree with each other and with the row of its       *)
(* driver (AtRest), so that rides, reservations and offers exclude each    *)
(* other.  The dispatcher then implements Assignment.                      *)
(***************************************************************************)
EXTENDS Dispatch_proofs, DispatchRefinement

\* Where the findings of this module are not: no address dialogues, and no driver that
\* could reserve a dispatcher's order.
Plain ==
    /\ "need_address" \notin DeclineReasons
    /\ Dispatchers = {} \/ ParallelUsers = {}

\* The columns of an order fit its status and the row of its driver.
Fits(s, o) ==
    /\ s.status[o] \in Riding =>
         /\ s.driver[o] # NONE /\ s.parallel[o] = NONE
         /\ s.row[s.driver[o]] \in {"assigned", "none"}
    /\ s.status[o] = "parallel_assigned" => s.driver[o] # NONE /\ s.parallel[o] = s.driver[o]
    /\ s.driver[o] # NONE => s.status[o] \in Riding \cup {"parallel_assigned", "cancelled"}
    /\ s.parallel[o] # NONE => s.status[o] = "parallel_assigned"
    /\ s.offered[o] # NONE =>
         /\ s.status[o] = "searching" /\ s.row[s.offered[o]] = "offered"
         /\ s.online[s.offered[o]] /\ s.dstat[s.offered[o]] = "online"
    /\ s.chatcard[o] => s.status[o] # "unborn"

\* A driver has one ride, and one reservation at most beside it.
Single(s) ==
    /\ \A o, p \in Orders :
         /\ s.status[o] \in Riding /\ s.status[p] \in Riding /\ s.driver[o] = s.driver[p]
         => o = p
    /\ \A o, p \in Orders :
         /\ s.status[o] = "parallel_assigned" /\ s.status[p] = "parallel_assigned"
         /\ s.driver[o] = s.driver[p]
         => o = p
    /\ \A o \in Orders : s.status[o] = "parallel_assigned" =>
         \E p \in Orders : s.status[p] \in Riding /\ s.driver[p] = s.driver[o]

Orderly(s) ==
    /\ Good(s) /\ Single(s)
    /\ \A o \in Orders : Fits(s, o)
    /\ \A c \in Creators : s.address[c] = NONE

\* No handler is at work on the order.
Settled(s, o) ==
    s.status[o] # "created" /\ (s.status[o] = "searching" => s.offered[o] # NONE)

AtRest(s) == Orderly(s) /\ \A o \in Orders : Settled(s, o)

\* A reserved order is one of a driver that reserves orders.
Reserves(s) ==
    \A o \in Orders : s.status[o] = "parallel_assigned" => s.driver[o] \in ParallelUsers

\* What a step may do to an order: the order keeps its place, or its ride goes
\* on; it is closed; it waits for a driver, another than before; it is reserved or
\* taken by one.
Goes(s, t, o) ==
    \/ /\ t.status[o] = s.status[o] /\ t.offered[o] = s.offered[o]
       /\ t.driver[o] = s.driver[o] /\ t.parallel[o] = s.parallel[o]
    \/ /\ s.status[o] \in Riding /\ t.status[o] \in Riding /\ t.driver[o] = s.driver[o]
    \/ s.status[o] # "unborn" /\ t.status[o] \in Closed
    \/ /\ s.status[o] \notin Closed \cup Riding /\ t.status[o] \in Pending
       /\ t.offered[o] # NONE => t.offered[o] \notin {s.offered[o], s.parallel[o]}
    \/ /\ s.status[o] \in Pending /\ s.offered[o] = NONE
       /\ t.status[o] = "parallel_assigned" /\ t.driver[o] \in ParallelUsers
    \/ s.status[o] \in Pending /\ t.status[o] \in Riding
    \/ /\ s.status[o] = "parallel_assigned" /\ t.status[o] \in Riding
       /\ t.driver[o] = s.driver[o]

\* The columns of a driver, and what a handler must not do besides.
SameDriver(s, t, d) ==
    t.row[d] = s.row[d] /\ t.dstat[d] = s.dstat[d] /\ t.online[d] = s.online[d]
Calm(s, t) ==
    /\ \A c \in Creators : s.address[c] = NONE => t.address[c] = NONE
    /\ \A o \in Orders : t.chatcard[o] => s.chatcard[o] \/ t.status[o] # "unborn"

\* No order changes.
Likewise(s, t) == \A o \in Orders : SameOrder(s, t, o)

\* No driver but d changes; no driver does.
Beside(s, t, d) == Calm(s, t) /\ \A e \in Drivers \ {d} : SameDriver(s, t, e)
SameDrivers(s, t) == Calm(s, t) /\ \A e \in Drivers : SameDriver(s, t, e)

\* The driver has nothing to do with any order but o.
Spare(s, d, o) ==
    \A p \in Orders \ {o} :
        s.offered[p] # d /\ (s.driver[p] = d => s.status[p] = "cancelled")

LEMMA SameDriversBeside ==
  ASSUME NEW s, NEW t, SameDrivers(s, t), NEW d  PROVE Beside(s, t, d)
BY DEF SameDrivers, Beside

LEMMA SameDriversRefl == ASSUME NEW s  PROVE SameDrivers(s, s)
BY DEF SameDrivers, SameDriver, Calm

\* Calm needs that no order becomes unborn.
LEMMA OrderlyRows ==
  ASSUME NEW s, Orderly(s)
  PROVE  /\ Good(s) /\ s \in Rows
         /\ \A o \in Orders : /\ s.driver[o] \in Drivers \cup {NONE}
                              /\ s.offered[o] \in Drivers \cup {NONE}
                              /\ s.parallel[o] \in Drivers \cup {NONE}
BY DEF Orderly, Good, Rows

\* An order that stays as it is still fits, when its driver does too.
LEMMA OtherFits ==
  ASSUME NEW s, Orderly(s), NEW t, Calm(s, t), NEW p \in Orders, SameOrder(s, t, p),
         s.offered[p] # NONE => SameDriver(s, t, s.offered[p]),
         s.status[p] \in Riding => SameDriver(s, t, s.driver[p])
  PROVE  Fits(t, p)
<1>1. Fits(s, p)
  BY DEF Orderly
<1>2. t.chatcard[p] => t.status[p] # "unborn"
  BY <1>1 DEF Calm, Fits, SameOrder
<1> QED
  BY <1>1, <1>2 DEF Fits, SameDriver, SameOrder

LEMMA OthersFit ==
  ASSUME NEW s, Orderly(s), NEW t, NEW d, Beside(s, t, d), NEW o, Spare(s, d, o),
         NEW p \in Orders \ {o}, SameOrder(s, t, p)
  PROVE  Fits(t, p)
<1>1. s.driver[p] \in Drivers \cup {NONE} /\ s.offered[p] \in Drivers \cup {NONE}
  BY OrderlyRows
<1>2. s.offered[p] # d /\ (s.driver[p] = d => s.status[p] \notin Riding)
  BY DEF Spare, Riding
<1>3. s.status[p] \in Riding => s.driver[p] # NONE
  BY DEF Orderly, Fits
<1> QED
  BY <1>1, <1>2, <1>3, OtherFits DEF Beside

\* The driver d changes, and is at most at o, which is given to d or to nobody.
LEMMA GivenOrderly ==
  ASSUME NEW s, Orderly(s), NEW t, Good(t), NEW o \in Orders, NEW d \in Drivers,
         \A p \in Orders \ {o} : SameOrder(s, t, p), Beside(s, t, d), Spare(s, d, o),
         t.status[o] \in Riding, t.driver[o] = d, t.parallel[o] = NONE, t.offered[o] = NONE,
         t.row[d] \in {"assigned", "none"}, s.status[o] \in Riding => s.driver[o] = d
  PROVE  Orderly(t)
<1>2. t.status[o] \notin {"unborn", "searching", "parallel_assigned", "cancelled"}
  BY DEF Riding
<1>3. ASSUME NEW p \in Orders PROVE Fits(t, p)
  <2>1. CASE p = o
    BY <1>2, <2>1, NoneAssumption DEF Fits
  <2>2. CASE p # o
    BY <2>2, OthersFit
  <2> QED
    BY <2>1, <2>2
<1>4. \A p \in Orders \ {o} : t.status[p] = s.status[p] /\ t.driver[p] = s.driver[p]
  BY DEF SameOrder
<1>5. \A p \in Orders \ {o} : s.status[p] \in Riding \cup {"parallel_assigned"} => s.driver[p] # d
  BY DEF Spare, Riding
<1>6. Single(t)
  <2>1. \A p, q \in Orders :
          t.status[p] \in Riding /\ t.status[q] \in Riding /\ t.driver[p] = t.driver[q] => p = q
    BY <1>4, <1>5 DEF Orderly, Single
  <2>2. \A p, q \in Orders :
          /\ t.status[p] = "parallel_assigned" /\ t.status[q] = "parallel_assigned"
          /\ t.driver[p] = t.driver[q]
          => p = q
    BY <1>2, <1>4 DEF Orderly, Single
  <2>3. \A p \in Orders : t.status[p] = "parallel_assigned" =>
          \E q \in Orders : t.status[q] \in Riding /\ t.driver[q] = t.driver[p]
    BY <1>2, <1>4, <1>5 DEF Orderly, Single
  <2> QED
    BY <2>1, <2>2, <2>3 DEF Single
<1>7. \A c \in Creators : t.address[c] = NONE
  BY DEF Orderly, Beside, Calm
<1> QED
  BY <1>3, <1>6, <1>7 DEF Orderly

\* The order is nobody's any more, or is offered to nobody.
LEMMA FreedOrderly ==
  ASSUME NEW s, Orderly(s), NEW t, Good(t), NEW o \in Orders, NEW d \in Drivers,
         \A p \in Orders \ {o} : SameOrder(s, t, p), Beside(s, t, d), Spare(s, d, o),
         t.status[o] \notin Riding \cup {"parallel_assigned", "unborn"},
         t.driver[o] # NONE => t.status[o] = "cancelled",
         t.parallel[o] = NONE, t.offered[o] = NONE, s.status[o] \in Riding => s.driver[o] = d
  PROVE  Orderly(t)
<1>3. ASSUME NEW p \in Orders PROVE Fits(t, p)
  <2>1. CASE p = o
    BY <2>1, NoneAssumption DEF Fits
  <2>2. CASE p # o
    BY <2>2, OthersFit
  <2> QED
    BY <2>1, <2>2
<1>4. \A p \in Orders \ {o} : t.status[p] = s.status[p] /\ t.driver[p] = s.driver[p]
  BY DEF SameOrder
<1>5. \A p \in Orders \ {o} : s.status[p] \in Riding \cup {"parallel_assigned"} => s.driver[p] # d
  BY DEF Spare, Riding
<1>6. Single(t)
  BY <1>4, <1>5 DEF Orderly, Single
<1>7. \A c \in Creators : t.address[c] = NONE
  BY DEF Orderly, Beside, Calm
<1> QED
  BY <1>3, <1>6, <1>7 DEF Orderly

\* Nobody was at the order, and nobody is.
LEMMA OpenOrderly ==
  ASSUME NEW s, Orderly(s), NEW t, Good(t), NEW o \in Orders,
         \A p \in Orders \ {o} : SameOrder(s, t, p), SameDrivers(s, t),
         s.status[o] \notin Riding, t.status[o] \notin Riding \cup {"parallel_assigned", "unborn"},
         t.driver[o] = NONE, t.parallel[o] = NONE, t.offered[o] = NONE
  PROVE  Orderly(t)
<1>1. \A p \in Orders : /\ s.driver[p] \in Drivers \cup {NONE}
                        /\ s.offered[p] \in Drivers \cup {NONE}
  BY OrderlyRows
<1>3. ASSUME NEW p \in Orders PROVE Fits(t, p)
  <2>1. CASE p = o
    BY <2>1, NoneAssumption DEF Fits
  <2>2. CASE p # o
    <3>1. s.status[p] \in Riding => s.driver[p] \in Drivers
      BY <1>1 DEF Orderly, Fits
    <3> QED
      BY <1>1, <2>2, <3>1, OtherFits DEF SameDrivers
  <2> QED
    BY <2>1, <2>2
<1>4. \A p \in Orders \ {o} : t.status[p] = s.status[p] /\ t.driver[p] = s.driver[p]
  BY DEF SameOrder
<1>6. Single(t)
  BY <1>4 DEF Orderly, Single
<1>7. \A c \in Creators : t.address[c] = NONE
  BY DEF Orderly, SameDrivers, Calm
<1> QED
  BY <1>3, <1>6, <1>7 DEF Orderly

\* No order changes, nor any driver who has one.
LEMMA SameOrderly ==
  ASSUME NEW s, Orderly(s), NEW t, Good(t), Likewise(s, t), Calm(s, t),
         \A d \in Drivers : SameDriver(s, t, d) \/ Spare(s, d, NONE)
  PROVE  Orderly(t)
<1>1. \A p \in Orders : /\ s.driver[p] \in Drivers \cup {NONE}
                        /\ s.offered[p] \in Drivers \cup {NONE}
  BY OrderlyRows
<1>2. \A p \in Orders : SameOrder(s, t, p)
  BY DEF Likewise
<1>3. ASSUME NEW p \in Orders PROVE Fits(t, p)
  <2>1. /\ s.offered[p] # NONE => SameDriver(s, t, s.offered[p])
        /\ s.status[p] \in Riding => SameDriver(s, t, s.driver[p])
    BY <1>1, NoneAssumption DEF Spare, Orderly, Fits, Riding
  <2> QED
    BY <1>2, <2>1, OtherFits
<1>4. \A p \in Orders : t.status[p] = s.status[p] /\ t.driver[p] = s.driver[p]
  BY <1>2 DEF SameOrder
<1>5. Single(t)
  BY <1>4 DEF Orderly, Single
<1>6. \A c \in Creators : t.address[c] = NONE
  BY DEF Orderly, Calm
<1> QED
  BY <1>3, <1>5, <1>6 DEF Orderly

LEMMA SameDriversOrderly ==
  ASSUME NEW s, Orderly(s), NEW t, Good(t), Likewise(s, t), SameDrivers(s, t)
  PROVE  Orderly(t)
BY SameOrderly DEF SameDrivers

LEMMA SpareOrderly ==
  ASSUME NEW s, Orderly(s), NEW t, Good(t), Likewise(s, t), NEW d, Beside(s, t, d),
         Spare(s, d, NONE)
  PROVE  Orderly(t)
BY SameOrderly DEF Beside

(***************************************************************************)
(* Which drivers an operator changes                                       *)
(***************************************************************************)
LEMMA BesideTrans ==
  ASSUME NEW r, NEW s, NEW t, NEW d, Beside(r, s, d), Beside(s, t, d),
         \A o \in Orders : s.status[o] # "unborn" => t.status[o] # "unborn"
  PROVE  Beside(r, t, d)
BY DEF Beside, SameDriver, Calm

LEMMA SameDriversTrans ==
  ASSUME NEW r, NEW s, NEW t, SameDrivers(r, s), SameDrivers(s, t),
         \A o \in Orders : s.status[o] # "unborn" => t.status[o] # "unborn"
  PROVE  SameDrivers(r, t)
BY DEF SameDrivers, SameDriver, Calm

LEMMA LeavesBeside ==
  ASSUME NEW s \in Rows, NEW d \in Drivers
  PROVE  LET t == [LeaveQueue(s, d) EXCEPT !.online[d] = FALSE]
         IN Beside(s, t, d) /\ t.row[d] = "none" /\ t.dstat[d] = "offline" /\ ~t.online[d]
<1> DEFINE l == LeaveQueue(s, d)
           t == [l EXCEPT !.online[d] = FALSE]
<1>1. /\ l.row = [s.row EXCEPT ![d] = "none"] /\ l.dstat = [s.dstat EXCEPT ![d] = "offline"]
      /\ l.online = s.online /\ l.address = s.address /\ l.chatcard = s.chatcard
      /\ DOMAIN s.row = Drivers /\ DOMAIN s.dstat = Drivers /\ DOMAIN s.online = Drivers
      /\ DOMAIN l = DOMAIN s
  BY DEF LeaveQueue, Rows
<1> HIDE DEF l
<1>2. /\ t.row = l.row /\ t.dstat = l.dstat /\ t.online = [l.online EXCEPT ![d] = FALSE]
      /\ t.address = l.address /\ t.chatcard = l.chatcard
  BY <1>1 DEF Rows
<1> HIDE DEF t
<1>3. Beside(s, t, d) /\ t.row[d] = "none" /\ t.dstat[d] = "offline" /\ ~t.online[d]
  BY <1>1, <1>2 DEF Beside, Calm, SameDriver
<1> QED
  BY <1>3 DEF t, l

LEMMA JoinsBeside ==
  ASSUME NEW s \in Rows, NEW d \in Drivers
  PROVE  LET t == [JoinQueue(s, d) EXCEPT !.online[d] = TRUE]
         IN Beside(s, t, d) /\ t.row[d] = "waiting" /\ t.dstat[d] = "online" /\ t.online[d]
<1> DEFINE l == JoinQueue(s, d)
           t == [l EXCEPT !.online[d] = TRUE]
<1>1. /\ l.row = [s.row EXCEPT ![d] = "waiting"] /\ l.dstat = [s.dstat EXCEPT ![d] = "online"]
      /\ l.online = s.online /\ l.address = s.address /\ l.chatcard = s.chatcard
      /\ DOMAIN s.row = Drivers /\ DOMAIN s.dstat = Drivers /\ DOMAIN s.online = Drivers
      /\ DOMAIN l = DOMAIN s
  BY DEF JoinQueue, Rows
<1> HIDE DEF l
<1>2. /\ t.row = l.row /\ t.dstat = l.dstat /\ t.online = [l.online EXCEPT ![d] = TRUE]
      /\ t.address = l.address /\ t.chatcard = l.chatcard
  BY <1>1 DEF Rows
<1> HIDE DEF t
<1>3. Beside(s, t, d) /\ t.row[d] = "waiting" /\ t.dstat[d] = "online" /\ t.online[d]
  BY <1>1, <1>2 DEF Beside, Calm, SameDriver
<1> QED
  BY <1>3 DEF t, l

LEMMA DriversBeside ==
  ASSUME NEW s \in Rows, NEW d \in Drivers
  PROVE  /\ Beside(s, SetAway(s, d), d) /\ SetAway(s, d).dstat[d] = "away"
         /\ Beside(s, MarkAssigned(s, d), d) /\ MarkAssigned(s, d).row[d] \in {"assigned", "none"}
         /\ Beside(s, ReleaseOffer(s, d), d) /\ Beside(s, RestorePosition(s, d), d)
         /\ \A temp : /\ Beside(s, LeaveTemporary(s, d, temp), d)
                      /\ LeaveTemporary(s, d, temp).row[d] \in {s.row[d], "none"}
                      /\ LeaveTemporary(s, d, temp).dstat[d] \in {s.dstat[d], "offline"}
<1>0. DOMAIN s.row = Drivers /\ DOMAIN s.dstat = Drivers
  BY DEF Rows
<1>1. Beside(s, SetAway(s, d), d) /\ SetAway(s, d).dstat[d] = "away"
  <2> DEFINE t == SetAway(s, d)
             x == IF s.row[d] = "none" THEN s.row[d] ELSE "away"
             y == "away"
  <2>1. /\ t.row = [s.row EXCEPT ![d] = x] /\ t.dstat = [s.dstat EXCEPT ![d] = y]
        /\ t.online = s.online /\ t.address = s.address /\ t.chatcard = s.chatcard
    BY DEF SetAway, Rows
  <2> HIDE DEF t, x
  <2>3. Beside(s, t, d) /\ t.row[d] = x /\ t.dstat[d] = y
    BY <1>0, <2>1 DEF Beside, Calm, SameDriver
  <2> QED
    BY <2>3 DEF t
<1>2. Beside(s, MarkAssigned(s, d), d) /\ MarkAssigned(s, d).row[d] \in {"assigned", "none"}
  <2> DEFINE t == MarkAssigned(s, d)
             x == IF s.row[d] = "none" THEN s.row[d] ELSE "assigned"
             y == "busy"
  <2>1. /\ t.row = [s.row EXCEPT ![d] = x] /\ t.dstat = [s.dstat EXCEPT ![d] = y]
        /\ t.online = s.online /\ t.address = s.address /\ t.chatcard = s.chatcard
    BY DEF MarkAssigned, Rows
  <2>2. x \in {"assigned", "none"}
    OBVIOUS
  <2> HIDE DEF t, x, y
  <2>3. Beside(s, t, d) /\ t.row[d] = x /\ t.dstat[d] = y
    BY <1>0, <2>1 DEF Beside, Calm, SameDriver
  <2> QED
    BY <2>3, <2>2 DEF t
<1>3. Beside(s, ReleaseOffer(s, d), d)
  <2> DEFINE t == ReleaseOffer(s, d)
             x == IF s.row[d] = "offered" THEN "waiting" ELSE s.row[d]
             y == IF s.dstat[d] = "away" THEN s.dstat[d] ELSE "online"
  <2>1. /\ t.row = [s.row EXCEPT ![d] = x] /\ t.dstat = [s.dstat EXCEPT ![d] = y]
        /\ t.online = s.online /\ t.address = s.address /\ t.chatcard = s.chatcard
    BY DEF ReleaseOffer, Rows
  <2> HIDE DEF t, x, y
  <2>3. Beside(s, t, d) /\ t.row[d] = x /\ t.dstat[d] = y
    BY <1>0, <2>1 DEF Beside, Calm, SameDriver
  <2> QED
    BY <2>3 DEF t
<1>4. Beside(s, RestorePosition(s, d), d)
  <2> DEFINE t == RestorePosition(s, d)
             x == IF s.row[d] = "none" THEN s.row[d] ELSE "waiting"
             y == IF s.row[d] = "none" THEN "offline" ELSE "online"
  <2>1. /\ t.row = [s.row EXCEPT ![d] = x] /\ t.dstat = [s.dstat EXCEPT ![d] = y]
        /\ t.online = s.online /\ t.address = s.address /\ t.chatcard = s.chatcard
    BY DEF RestorePosition, Rows
  <2> HIDE DEF t, x, y
  <2>3. Beside(s, t, d) /\ t.row[d] = x /\ t.dstat[d] = y
    BY <1>0, <2>1 DEF Beside, Calm, SameDriver
  <2> QED
    BY <2>3 DEF t
<1>5. ASSUME NEW temp
      PROVE  /\ Beside(s, LeaveTemporary(s, d, temp), d)
             /\ LeaveTemporary(s, d, temp).row[d] \in {s.row[d], "none"}
             /\ LeaveTemporary(s, d, temp).dstat[d] \in {s.dstat[d], "offline"}
  BY LeavesBeside, SameDriversRefl, SameDriversBeside DEF LeaveTemporary
<1> QED
  BY <1>1, <1>2, <1>3, <1>4, <1>5

\* What the operators on orders and creators leave of the drivers: everything.
LEMMA ColumnsSameDrivers ==
  ASSUME NEW s, NEW t, t.row = s.row, t.dstat = s.dstat, t.online = s.online,
         Calm(s, t)
  PROVE  SameDrivers(s, t)
BY DEF SameDrivers, SameDriver

LEMMA OrdersSameDrivers ==
  ASSUME NEW s \in Rows, NEW o \in Orders
  PROVE  /\ SameDrivers(s, Dequeue(s, o)) /\ SameDrivers(s, Enqueue(s, o))
         /\ SameDrivers(s, ResetCreator(s, o)) /\ SameDrivers(s, Follow(s, o))
         /\ SameDrivers(s, Asked(s, o))
<1>1. SameDrivers(s, Dequeue(s, o))
  BY DEF SameDrivers, SameDriver, Calm, Dequeue, Rows
<1>2. SameDrivers(s, Enqueue(s, o))
  BY DEF SameDrivers, SameDriver, Calm, Enqueue, Rows
<1>3. CreatorOf[o] \in Creators /\ DOMAIN s.address = Creators
  BY DEF Creators, Rows
<1>4. SameDrivers(s, ResetCreator(s, o))
  BY <1>3 DEF SameDrivers, SameDriver, Calm, ResetCreator, Rows
<1>5. SameDrivers(s, Follow(s, o))
  BY <1>3 DEF SameDrivers, SameDriver, Calm, Follow, Rows
<1>6. SameDrivers(s, Asked(s, o))
  BY <1>3 DEF SameDrivers, SameDriver, Calm, Asked, Rows
<1> QED
  BY <1>1, <1>2, <1>4, <1>5, <1>6

LEMMA CloseSameDrivers ==
  ASSUME NEW s \in Rows, NEW o \in Orders, NEW status
  PROVE  SameDrivers(s, Close(s, o, status)) /\ SameDrivers(s, CloseFor(s, o, status))
<1> DEFINE f == ForgetSearch(s, o)
           g == ForgetRide(f, o)
           c == [g EXCEPT !.status[o] = status, !.driver[o] = NONE]
           r == ResetCreator(c, o)
           Alike(x, y) == /\ x.row = y.row /\ x.dstat = y.dstat /\ x.online = y.online
                          /\ DOMAIN x = DOMAIN y
<1>1. Alike(f, s) /\ f.address = s.address /\ f.chatcard = [s.chatcard EXCEPT ![o] = FALSE]
  BY DEF ForgetSearch, Rows
<1>2. Alike(g, f) /\ g.address = f.address /\ g.chatcard = f.chatcard
  BY <1>1 DEF ForgetRide, Rows
<1> HIDE DEF f, g
<1>3. Alike(c, g) /\ c.address = g.address /\ c.chatcard = g.chatcard
  BY <1>1, <1>2 DEF Rows
<1> HIDE DEF c
<1>4. Alike(r, c) /\ r.address = [c.address EXCEPT ![CreatorOf[o]] = NONE]
      /\ r.chatcard = c.chatcard
  BY <1>1, <1>2, <1>3 DEF ResetCreator, Rows
<1> HIDE DEF r
<1>5. DOMAIN s.address = Creators /\ DOMAIN s.chatcard = Orders
  BY DEF Rows
<1>6. Calm(s, c) /\ Calm(s, r)
  BY <1>1, <1>2, <1>3, <1>4, <1>5 DEF Calm
<1>7. SameDrivers(s, c) /\ SameDrivers(s, r)
  BY <1>1, <1>2, <1>3, <1>4, <1>6, ColumnsSameDrivers
<1> QED
  BY <1>7, SameDriversRefl DEF Close, CloseFor, f, g, c, r

LEMMA PauseSameDrivers ==
  ASSUME NEW v, NEW s \in Rows, NEW x  PROVE SameDrivers(s, PausePrompts(v, s, x))
<1> DEFINE asked == {o \in Orders : v.pq[o] = "polling" /\ o # x}
           owners == {CreatorOf[o] : o \in asked}
           pq == [o \in Orders |-> IF o \in asked /\ s.pq[o] # "none"
                                   THEN "waiting" ELSE s.pq[o]]
           current == [c \in Creators |-> IF c \in owners THEN NONE ELSE s.current[c]]
           address == [c \in Creators |-> IF c \in owners THEN NONE ELSE s.address[c]]
           t == PausePrompts(v, s, x)
<1>1. t = [s EXCEPT !.pq = pq, !.current = current, !.address = address]
  BY DEF PausePrompts
<1>2. \A c \in Creators : s.address[c] = NONE => address[c] = NONE
  OBVIOUS
<1> HIDE DEF asked, owners, pq, current, address, t
<1>3. /\ t.row = s.row /\ t.dstat = s.dstat /\ t.online = s.online
      /\ t.address = address /\ t.chatcard = s.chatcard
  BY <1>1 DEF Rows
<1>4. Calm(s, t)
  BY <1>2, <1>3 DEF Calm
<1>5. SameDrivers(s, t)
  BY <1>3, <1>4, ColumnsSameDrivers
<1> QED
  BY <1>5 DEF t

LEMMA ReleaseSameDrivers ==
  ASSUME NEW s \in Rows, NEW o \in Orders
  PROVE  SameDrivers(s, Release(s, o))
<1> DEFINE q == [s EXCEPT !.parallel[o] = NONE, !.peta[o] = FALSE, !.driver[o] = NONE,
                          !.status[o] = "queued"]
           e == Enqueue(q, o)
           t == [e EXCEPT !.pq[o] = "waiting"]
           Alike(x, y) == /\ x.row = y.row /\ x.dstat = y.dstat /\ x.online = y.online
                          /\ x.address = y.address /\ x.chatcard = y.chatcard
                          /\ DOMAIN x = DOMAIN y
<1>1. Alike(q, s)
  BY DEF Rows
<1> HIDE DEF q
<1>2. Alike(e, q)
  BY <1>1 DEF Enqueue, Rows
<1> HIDE DEF e
<1>3. Alike(t, e)
  BY <1>1, <1>2 DEF Rows
<1> HIDE DEF t
<1>4. SameDrivers(s, t)
  BY <1>1, <1>2, <1>3, ColumnsSameDrivers DEF Calm
<1> QED
  BY <1>4 DEF Release, q, e, t

LEMMA PromoteAfterSameDrivers ==
  ASSUME NEW s \in Rows, NEW v, NEW d  PROVE SameDrivers(s, PromoteAfter(v, s, d))
<1> DEFINE t == PromoteAfter(v, s, d)
<1>1. t.row = s.row /\ t.dstat = s.dstat /\ t.online = s.online
      /\ t.address = s.address /\ t.chatcard = s.chatcard
  BY DEF PromoteAfter, Rows
<1> QED
  BY <1>1, ColumnsSameDrivers DEF Calm

(***************************************************************************)
(* Offering an order and try_promote                                       *)
(***************************************************************************)
\* The drivers that the dispatch queries may find: whoever is idle in the view, is
\* free in the rows.
LEMMA IdleSpare ==
  ASSUME NEW s, Orderly(s), NEW d \in Idle(s)
  PROVE  Spare(s, d, NONE) /\ ~HasOffer(s, d) /\ d \in Drivers
BY NoneAssumption DEF Idle, Spare, Engaged, HasOffer, Orderly, Fits

LEMMA SpareIdle ==
  ASSUME NEW s, Orderly(s), NEW d \in Drivers, Spare(s, d, NONE),
         s.online[d], s.dstat[d] = "online"
  PROVE  d \in Idle(s)
BY NoneAssumption DEF Idle, Spare, Engaged, HasOffer, Orderly, Fits, Riding

LEMMA SameIdle ==
  ASSUME NEW s, NEW t, Likewise(s, t),
         \A d \in Drivers : t.dstat[d] = s.dstat[d] /\ t.online[d] = s.online[d]
  PROVE  Idle(t) = Idle(s)
<1>1. \A o \in Orders : /\ t.status[o] = s.status[o] /\ t.offered[o] = s.offered[o]
                        /\ t.driver[o] = s.driver[o] /\ t.parallel[o] = s.parallel[o]
  BY DEF Likewise, SameOrder
<1>2. \A d \in Drivers : Engaged(t, d) <=> Engaged(s, d)
  BY <1>1, Zenon DEF Engaged, HasOffer
<1> QED
  BY <1>2 DEF Idle

\* Orders find drivers, or come to wait for one.
Advances(s, t) ==
    /\ \A p \in Orders :
         /\ t.declined[p] = s.declined[p]
         /\ t.driver[p] = s.driver[p] /\ t.parallel[p] = s.parallel[p]
         /\ \/ t.status[p] = s.status[p] /\ t.offered[p] = s.offered[p]
            \/ /\ s.status[p] \in Pending /\ s.offered[p] = NONE
               /\ s.driver[p] = NONE /\ s.parallel[p] = NONE /\ t.status[p] \in Pending
         /\ Settled(s, p) => Settled(t, p)
    /\ \A d \in Drivers : t.dstat[d] = s.dstat[d] /\ t.online[d] = s.online[d]

LEMMA AdvancesTrans ==
  ASSUME NEW r, NEW s, NEW t, Advances(r, s), Advances(s, t)  PROVE Advances(r, t)
BY DEF Advances

LEMMA SameAdvances ==
  ASSUME NEW s, NEW t, Likewise(s, t),
         \A d \in Drivers : t.dstat[d] = s.dstat[d] /\ t.online[d] = s.online[d]
  PROVE  Advances(s, t)
BY DEF Advances, Likewise, SameOrder, Settled

LEMMA SameDriversAdvances ==
  ASSUME NEW s, NEW t, Likewise(s, t), SameDrivers(s, t)
  PROVE  Advances(s, t) /\ Idle(t) = Idle(s)
BY SameAdvances, SameIdle DEF SameDrivers, SameDriver

LEMMA RepairOrderly ==
  ASSUME NEW v, v \in Rows, NEW s, Orderly(s), Idle(v) \subseteq Idle(s)
  PROVE  /\ Orderly(Repair(v, s)) /\ SameOrders(s, Repair(v, s))
         /\ Advances(s, Repair(v, s)) /\ Idle(Repair(v, s)) = Idle(s)
<1> DEFINE missing == {d \in Idle(v) : s.row[d] = "none"}
           row == [d \in Drivers |-> IF d \in Idle(v) THEN "waiting" ELSE s.row[d]]
           new == {d \in Drivers : s.row[d] # "none"} \X missing
           r == Repair(v, s)
<1>1. s \in Rows /\ Good(r) /\ SameOrders(s, r)
  BY OrderlyRows, RepairGood, RepairPark
<1>2. r = [s EXCEPT !.row = row, !.ahead = @ \cup new]
  BY DEF Repair, Idle
<1> HIDE DEF missing, new, r
<1>3. /\ r.row = row /\ r.dstat = s.dstat /\ r.online = s.online
      /\ r.address = s.address /\ r.chatcard = s.chatcard
  BY <1>1, <1>2 DEF Rows
<1>4. \A d \in Drivers : SameDriver(s, r, d) \/ Spare(s, d, NONE)
  BY <1>3, IdleSpare, Zenon DEF SameDriver
<1>5. Calm(s, r)
  BY <1>3 DEF Calm
<1>6. Orderly(r)
  BY <1>1, <1>4, <1>5, SameOrderly DEF SameOrders, Likewise
<1>7. Advances(s, r) /\ Idle(r) = Idle(s)
  BY <1>1, <1>3, SameAdvances, SameIdle DEF SameOrders, Likewise
<1> QED
  BY <1>1, <1>6, <1>7 DEF r

LEMMA OfferOrderly ==
  ASSUME NEW s, Orderly(s), NEW o \in Orders, NEW d \in Idle(s), s.status[o] \in Pending,
         s.driver[o] = NONE, s.parallel[o] = NONE, s.offered[o] = NONE
  PROVE  LET t == Offer(s, o, d) IN Orderly(t) /\ Advances(s, t) /\ Settled(t, o)
<1> DEFINE c == CreatorOf[o]
           t == [s EXCEPT !.status[o] = "searching", !.offered[o] = d, !.card[o] = TRUE,
                          !.current[c] = d, !.row[d] = "offered"]
           u == PausePrompts(t, t, o)
<1>0. u = Offer(s, o, d)
  BY DEF Offer
<1>1. s \in Rows /\ Good(s) /\ d \in Drivers /\ Spare(s, d, NONE) /\ ~HasOffer(s, d)
      /\ s.online[d] /\ s.dstat[d] = "online"
  BY OrderlyRows, IdleSpare DEF Idle
<1>2. c \in Creators /\ "searching" \in Statuses
  BY DEF Creators, Statuses, Pending
<1>3. t \in Rows
  <2> HIDE DEF c
  <2> QED
    BY <1>1, <1>2 DEF Rows
<1>4. /\ t.status = [s.status EXCEPT ![o] = "searching"]
      /\ t.offered = [s.offered EXCEPT ![o] = d] /\ t.declined = s.declined
      /\ t.driver = s.driver /\ t.parallel = s.parallel /\ t.row = [s.row EXCEPT ![d] = "offered"]
      /\ t.dstat = s.dstat /\ t.online = s.online
      /\ t.address = s.address /\ t.chatcard = s.chatcard
      /\ DOMAIN s.status = Orders /\ DOMAIN s.offered = Orders /\ DOMAIN s.row = Drivers
  BY <1>1 DEF Rows
<1> HIDE DEF c, t
<1>5. SameOrders(t, u) /\ SameDrivers(t, u)
  BY <1>3, PausePark, PauseSameDrivers
<1>6. Good(u)
  BY <1>0, <1>1, OfferGood
<1> HIDE DEF u
<1>7. /\ \A p \in Orders \ {o} : SameOrder(s, u, p)
      /\ u.status[o] = "searching" /\ u.offered[o] = d /\ u.declined[o] = s.declined[o]
      /\ u.driver[o] = NONE /\ u.parallel[o] = NONE
  BY <1>4, <1>5 DEF SameOrders, SameOrder
<1>8. /\ \A e \in Drivers : u.dstat[e] = s.dstat[e] /\ u.online[e] = s.online[e]
      /\ \A e \in Drivers \ {d} : u.row[e] = s.row[e]
      /\ u.row[d] = "offered"
  BY <1>1, <1>4, <1>5 DEF SameDrivers, SameDriver
<1>9. Beside(s, u, d)
  BY <1>4, <1>5, <1>7, <1>8 DEF Beside, SameDriver, SameDrivers, Calm, SameOrder
<1>10. Spare(s, d, o)
  BY <1>1, NoneAssumption DEF Spare
<1>11. \A p \in Orders \ {o} : Fits(u, p)
  BY <1>7, <1>9, <1>10, OthersFit
<1>12. Fits(u, o)
  BY <1>1, <1>7, <1>8, NoneAssumption DEF Fits, Riding
<1>13. Single(u)
  <2>1. s.status[o] \notin Riding \cup {"parallel_assigned"}
    BY DEF Orderly, Fits
  <2>2. "searching" \notin Riding \cup {"parallel_assigned"}
    BY DEF Riding
  <2>3. \A p \in Orders : p # o => u.status[p] = s.status[p] /\ u.driver[p] = s.driver[p]
    BY <1>7 DEF SameOrder
  <2> QED
    BY <1>7, <2>1, <2>2, <2>3 DEF Orderly, Single
<1>14. \A x \in Creators : u.address[x] = NONE
  BY <1>9 DEF Beside, Calm, Orderly
<1>15. Orderly(u)
  BY <1>6, <1>11, <1>12, <1>13, <1>14 DEF Orderly
<1>16. Settled(u, o)
  BY <1>1, <1>7, NoneAssumption DEF Settled
<1>17. Advances(s, u)
  BY <1>7, <1>8, <1>16 DEF Advances, SameOrder, Settled, Pending
<1> QED
  BY <1>0, <1>15, <1>16, <1>17

LEMMA NoDriverOrderly ==
  ASSUME NEW s, Orderly(s), NEW o \in Orders, s.status[o] \in Pending,
         s.driver[o] = NONE, s.parallel[o] = NONE, s.offered[o] = NONE
  PROVE  LET t == NoDriver(s, o) IN Orderly(t) /\ Advances(s, t) /\ Settled(t, o)
<1> DEFINE t == [s EXCEPT !.status[o] = "no_drivers"]
           u == [t EXCEPT !.status[o] = "chat_search", !.chatcard[o] = TRUE]
           e == Enqueue(t, o)
           n == NoDriver(s, o)
           Alike(x, y) == /\ x.offered = y.offered /\ x.declined = y.declined
                          /\ x.driver = y.driver /\ x.parallel = y.parallel /\ x.row = y.row
                          /\ x.dstat = y.dstat /\ x.online = y.online /\ x.address = y.address
<1>1. s \in Rows /\ Good(s) /\ Good(n)
  BY OrderlyRows, NoDriverGood
<1>2. "no_drivers" \in Statuses
  BY DEF Statuses, Pending, Candidate
<1>3. t \in Rows
  BY <1>1, <1>2 DEF Rows
<1>4. Alike(t, s) /\ t.status = [s.status EXCEPT ![o] = "no_drivers"] /\ t.chatcard = s.chatcard
      /\ DOMAIN s.status = Orders /\ DOMAIN s.chatcard = Orders
  BY <1>1 DEF Rows
<1> HIDE DEF t
<1>5. Alike(u, t) /\ u.status = [t.status EXCEPT ![o] = "chat_search"]
      /\ u.chatcard = [t.chatcard EXCEPT ![o] = TRUE]
  BY <1>3 DEF Rows
<1>6. Alike(e, t) /\ t.chatcard = e.chatcard
      /\ \/ e.status = t.status
         \/ e.status = [t.status EXCEPT ![o] = "queued"]
  BY <1>3 DEF Enqueue, Rows
<1>7. n \in {t, u, e}
  BY DEF NoDriver, t
<1> HIDE DEF u, e, n
<1>8. /\ Alike(n, s) /\ n.status[o] \in {"no_drivers", "chat_search", "queued"}
      /\ \A p \in Orders \ {o} : n.status[p] = s.status[p] /\ n.chatcard[p] = s.chatcard[p]
  BY <1>4, <1>5, <1>6, <1>7
<1>9. \A p \in Orders \ {o} : SameOrder(s, n, p)
  BY <1>8 DEF SameOrder
<1>10. SameDrivers(s, n)
  BY <1>8 DEF SameDrivers, SameDriver, Calm
<1>11. s.status[o] \notin Riding
  BY DEF Orderly, Fits
<1>12. Orderly(n)
  BY <1>1, <1>8, <1>9, <1>10, <1>11, OpenOrderly DEF Riding
<1>13. Settled(n, o)
  BY <1>8 DEF Settled
<1>14. Advances(s, n)
  BY <1>8, <1>13 DEF Advances, Settled, Pending, Candidate
<1> QED
  BY <1>12, <1>13, <1>14 DEF n

\* An order that waits for a driver is settled when it is dispatched.
LEMMA OfferNextOrderly ==
  ASSUME NEW s, Orderly(s), NEW o \in Orders, s.status[o] \in Pending,
         s.driver[o] = NONE, s.parallel[o] = NONE, s.offered[o] = NONE, NEW excluded
  PROVE  LET t == OfferNext(s, o, excluded)
         IN Orderly(t) /\ Advances(s, t) /\ Settled(t, o)
<1> DEFINE r == Repair(s, s)
           d == NextWaiting(r, excluded \cup r.declined[o])
           e == NextWaiting(r, r.declined[o])
           n == OfferNext(s, o, excluded)
<1>1. Dispatchable(s, o)
  BY DEF Dispatchable, Pending, Candidate, Riding, Closed
<1>2. Orderly(r) /\ SameOrders(s, r) /\ Advances(s, r)
  BY RepairOrderly, OrderlyRows
<1>3. n = IF d # NONE THEN Offer(r, o, d) ELSE IF e # NONE THEN Offer(r, o, e) ELSE NoDriver(r, o)
  BY <1>1 DEF OfferNext
<1> HIDE DEF r, n
<1>4. /\ r.status[o] \in Pending /\ r.driver[o] = NONE
      /\ r.parallel[o] = NONE /\ r.offered[o] = NONE
  BY <1>2 DEF SameOrders, SameOrder
<1>5. Free(r) \subseteq Idle(r)
  BY DEF Free, Idle
<1>6. /\ d # NONE => d \in Idle(r)
      /\ e # NONE => e \in Idle(r)
  BY <1>5, NextWaitingOn
<1> HIDE DEF d, e
<1>7. Orderly(n) /\ Advances(r, n) /\ Settled(n, o)
  BY <1>2, <1>3, <1>4, <1>6, OfferOrderly, NoDriverOrderly
<1> QED
  BY <1>2, <1>7, AdvancesTrans DEF n

LEMMA ServedOrderly ==
  ASSUME NEW v, NEW s, Orderly(s), Idle(v) \subseteq Idle(s), NEW o \in Orders,
         s.status[o] \in Candidate, s.driver[o] = NONE, s.parallel[o] = NONE,
         NextWaiting(v, s.declined[o]) # NONE
  PROVE  Orderly(Served(v, s, o)) /\ Advances(s, Served(v, s, o))
<1> DEFINE d == NextWaiting(v, s.declined[o])
           q == Dequeue(s, o)
           t == Offer(q, o, d)
           u == ResetCreator(t, o)
<1>1. Free(v) \subseteq Idle(v)
  BY DEF Free, Idle
<1>2. d \in Idle(s)
  BY <1>1, NextWaitingOn
<1> HIDE DEF d
<1>3. Good(s) /\ s \in Rows /\ Good(q) /\ SameDrivers(s, q)
  BY OrderlyRows, DequeueGood, OrdersSameDrivers, GoodRows
<1>4. q.status = s.status /\ q.offered = s.offered /\ q.declined = s.declined
      /\ q.driver = s.driver /\ q.parallel = s.parallel
  BY <1>3 DEF Dequeue, Rows
<1> HIDE DEF q
<1>5. Orderly(q) /\ Advances(s, q) /\ Idle(q) = Idle(s)
  <2>1. Likewise(s, q)
    BY <1>4 DEF SameOrder, Likewise
  <2> QED
    BY <1>3, <2>1, SameDriversOrderly, SameDriversAdvances
<1>6. s.offered[o] = NONE /\ s.status[o] \in Pending
  BY DEF Orderly, Fits, Candidate, Pending
<1>7. Orderly(t) /\ Advances(q, t)
  BY <1>2, <1>4, <1>5, <1>6, OfferOrderly
<1> HIDE DEF t
<1>8. Good(t) /\ t \in Rows
  BY <1>7, OrderlyRows
<1>9. Good(u) /\ SameOrders(t, u) /\ SameDrivers(t, u)
  BY <1>8, ResetCreatorGood, CreatorsPark, OrdersSameDrivers, GoodRows
<1> HIDE DEF u
<1>10. Orderly(u) /\ Advances(t, u)
  BY <1>7, <1>9, SameDriversOrderly, SameDriversAdvances DEF SameOrders, Likewise
<1>11. Advances(s, t) /\ Advances(s, u)
  BY <1>5, <1>7, <1>10, AdvancesTrans
<1> QED
  BY <1>7, <1>10, <1>11 DEF Served, d, q, t, u

LEMMA AskedOrderly ==
  ASSUME NEW s, Orderly(s), NEW o \in Orders
  PROVE  Orderly(Asked(s, o)) /\ Advances(s, Asked(s, o))
<1> DEFINE t == Asked(s, o)
<1>1. Good(s) /\ s \in Rows /\ Good(t) /\ SameDrivers(s, t)
  BY OrderlyRows, AskedGood, OrdersSameDrivers
<1>2. t.status = s.status /\ t.offered = s.offered /\ t.declined = s.declined
      /\ t.driver = s.driver /\ t.parallel = s.parallel
  BY <1>1 DEF Asked, Rows
<1>3. Likewise(s, t)
  BY <1>2 DEF Likewise, SameOrder
<1> QED
  BY <1>1, <1>3, SameDriversOrderly, SameDriversAdvances

LEMMA ScanOrderly ==
  ASSUME NEW list, NEW v, NEW s, Orderly(s), Idle(v) \subseteq Idle(s), NEW t \in Scan(list, v, s)
  PROVE  Orderly(t) /\ Advances(s, t)
<1>1. CASE t = s
  BY <1>1 DEF Advances
<1>2. CASE t # s
  <2>1. PICK o \in Servable(list, v, s) : t \in Outcomes(v, s, o)
    BY <1>2 DEF Scan
  <2>2. o \in Orders /\ NextWaiting(v, s.declined[o]) # NONE
    BY <2>1 DEF Servable
  <2>3. \/ t = Asked(s, o)
        \/ /\ t = Served(v, s, o) /\ s.status[o] \in Candidate
           /\ s.driver[o] = NONE /\ s.parallel[o] = NONE
    BY <1>2, <2>1 DEF Outcomes
  <2> QED
    BY <2>2, <2>3, ServedOrderly, AskedOrderly
<1> QED
  BY <1>1, <1>2

\* A promotion finds only drivers who are idle, on whatever rows it starts.
LEMMA PromotesOrderly ==
  ASSUME NEW v, NEW s, v \in Rows, Orderly(s), Idle(v) \subseteq Idle(s), NEW t \in Promotes(v, s)
  PROVE  Orderly(t) /\ Advances(s, t)
<1> DEFINE r == Repair(v, s)
           w == IF r = s THEN v ELSE r
           p == PausePrompts(w, r, NONE)
<1>1. Orderly(r) /\ Advances(s, r) /\ Idle(r) = Idle(s)
  BY RepairOrderly
<1>2. t \in {s, r} \cup Scan(v, w, r) \cup Scan(w, w, p)
  BY DEF Promotes
<1>3. Idle(w) \subseteq Idle(r)
  BY <1>1
<1> HIDE DEF r, w
<1>4. Good(r) /\ r \in Rows
  BY <1>1, OrderlyRows
<1>5. Good(p) /\ SameOrders(r, p) /\ SameDrivers(r, p)
  BY <1>4, PausePromptsGood, PausePark, PauseSameDrivers
<1> HIDE DEF p
<1>6. Orderly(p) /\ Advances(r, p) /\ Idle(p) = Idle(r)
  BY <1>1, <1>5, SameDriversOrderly, SameDriversAdvances DEF SameOrders, Likewise
<1>7. Advances(s, s) /\ Advances(s, p)
  BY <1>1, <1>6, AdvancesTrans DEF Advances
<1>8. CASE t \in Scan(v, w, r)
  <2>1. Orderly(t) /\ Advances(r, t)
    BY <1>1, <1>3, <1>8, ScanOrderly
  <2> QED
    BY <1>1, <2>1, AdvancesTrans
<1>9. CASE t \in Scan(w, w, p)
  <2>1. Orderly(t) /\ Advances(p, t)
    BY <1>3, <1>6, <1>9, ScanOrderly
  <2> QED
    BY <1>7, <2>1, AdvancesTrans
<1> QED
  BY <1>1, <1>2, <1>7, <1>8, <1>9

LEMMA PromotesAtRest ==
  ASSUME NEW v, NEW s, v \in Rows, AtRest(s), Idle(v) \subseteq Idle(s), NEW t \in Promotes(v, s)
  PROVE  AtRest(t) /\ Advances(s, t)
BY PromotesOrderly DEF AtRest, Advances

LEMMA PromotesSelfAtRest ==
  ASSUME NEW s, AtRest(s), NEW t \in Promotes(s, s)  PROVE AtRest(t) /\ Advances(s, t)
BY PromotesAtRest, OrderlyRows DEF AtRest

LEMMA SameOrderGoes ==
  ASSUME NEW r, NEW s, NEW t, NEW o \in Orders, SameOrder(r, s, o), Advances(s, t)
  PROVE  Goes(r, t, o)
BY DEF Advances, SameOrder, Goes, Pending, Candidate, Riding, Closed

LEMMA AdvancesGoes ==
  ASSUME NEW s, NEW t, Advances(s, t)  PROVE \A o \in Orders : Goes(s, t, o)
BY SameOrderGoes DEF SameOrder

(***************************************************************************)
(* What the queries for a driver find: one order, or none                  *)
(***************************************************************************)
LEMMA OneOrder ==
  ASSUME NEW A, A \subseteq Orders, \A o, p \in A : o = p
  PROVE  /\ A = {} => Newest(A) = NONE /\ Oldest(A) = NONE
         /\ \A o \in A : Newest(A) = o /\ Oldest(A) = o
<1>1. CASE A = {}
  BY <1>1 DEF Newest, Oldest
<1>2. ASSUME NEW o \in A PROVE Newest(A) = o /\ Oldest(A) = o
  <2>1. A = {o}
    BY <1>2
  <2>3. o \in Nat
    BY NOrdersAssumption DEF Orders
  <2>2. {q \in A : \A p \in A : p <= q} = {o} /\ {q \in A : \A p \in A : q <= p} = {o}
    BY <2>1, <2>3
  <2> QED
    BY <2>2 DEF Newest, Oldest
<1> QED
  BY <1>1, <1>2

\* The ride of a driver.
Rides(s, d, o) == s.status[o] \in Riding /\ s.driver[o] = d

LEMMA RideIs ==
  ASSUME NEW s, Orderly(s), NEW d \in Drivers
  PROVE  /\ ActiveRide(s, d) # NONE => /\ ActiveRide(s, d) \in Orders
                                       /\ Rides(s, d, ActiveRide(s, d))
         /\ \A o \in Orders : Rides(s, d, o) => ActiveRide(s, d) = o
<1> DEFINE A == ActiveOf(s, d)
<1>1. A = {o \in Orders : Rides(s, d, o)}
  BY NoneAssumption DEF ActiveOf, Rides, Orderly, Fits, Riding
<1>2. \A o, p \in A : o = p
  BY <1>1 DEF Rides, Orderly, Single
<1> HIDE DEF A
<1>3. /\ A = {} => Newest(A) = NONE
      /\ \A o \in A : Newest(A) = o
  BY <1>1, <1>2, OneOrder
<1> QED
  BY <1>1, <1>3 DEF ActiveRide, A

LEMMA OfferIs ==
  ASSUME NEW s, Orderly(s), NEW d \in Drivers
  PROVE  /\ PendingOffer(s, d) # NONE => /\ PendingOffer(s, d) \in Orders
                                         /\ s.offered[PendingOffer(s, d)] = d
         /\ \A o \in Orders : s.offered[o] = d => PendingOffer(s, d) = o
<1> DEFINE A == {o \in Orders : s.status[o] = "searching" /\ s.offered[o] = d /\ s.driver[o] = NONE}
<1>1. A = {o \in Orders : s.offered[o] = d}
  BY NoneAssumption DEF Orderly, Fits, Riding
<1>2. \A o, p \in A : o = p
  BY <1>1, NoneAssumption DEF Orderly, Good, Fits
<1>3. PendingOffer(s, d) = Oldest(A)
  BY DEF PendingOffer
<1> HIDE DEF A
<1>4. /\ A = {} => Oldest(A) = NONE
      /\ \A o \in A : Oldest(A) = o
  BY <1>1, <1>2, OneOrder
<1> QED
  BY <1>1, <1>3, <1>4

LEMMA ReservedIs ==
  ASSUME NEW s, Orderly(s), NEW d \in Drivers
  PROVE  \A o \in Orders : s.status[o] = "parallel_assigned" /\ s.driver[o] = d =>
                             Reserved(s, d) = o
<1> DEFINE A == {o \in Orders : s.parallel[o] = d /\ s.status[o] = "parallel_assigned"}
<1>1. \A o, p \in A : o = p
  BY DEF Orderly, Fits, Single
<1>2. Reserved(s, d) = Oldest(A)
  BY DEF Reserved
<1>3. \A o \in Orders : s.status[o] = "parallel_assigned" /\ s.driver[o] = d => o \in A
  BY DEF Orderly, Fits
<1> HIDE DEF A
<1>4. \A o \in A : Oldest(A) = o
  <2>1. A \subseteq Orders
    BY DEF A
  <2> QED
    BY <1>1, <2>1, OneOrder
<1> QED
  BY <1>2, <1>3, <1>4

\* A driver without a ride has no reservation either.
LEMMA NothingIsSpare ==
  ASSUME NEW s, Orderly(s), NEW d \in Drivers, MenuOpen(s, d)
  PROVE  Spare(s, d, NONE)
<1>1. \A o \in Orders : s.offered[o] # d /\ ~Rides(s, d, o)
  BY RideIs, OfferIs, NoneAssumption DEF MenuOpen
<1>2. \A o \in Orders : s.driver[o] = d => s.status[o] # "parallel_assigned"
  BY <1>1 DEF Orderly, Single, Rides
<1> QED
  BY <1>1, <1>2, NoneAssumption DEF Spare, Orderly, Fits, Rides

\* A driver on a ride without a reservation has nothing to do with other orders.
LEMMA RiderIsSpare ==
  ASSUME NEW s, Orderly(s), NEW d \in Drivers, NEW o \in Orders, Rides(s, d, o),
         Reserved(s, d) = NONE
  PROVE  Spare(s, d, o)
<1>1. \A p \in Orders \ {o} : ~Rides(s, d, p)
  BY DEF Rides, Orderly, Single
<1>2. \A p \in Orders : s.driver[p] = d => s.status[p] # "parallel_assigned"
  BY ReservedIs, NoneAssumption
<1>3. \A p \in Orders : s.offered[p] # d
  BY NoneAssumption DEF Rides, Orderly, Fits
<1> QED
  BY <1>1, <1>2, <1>3, NoneAssumption DEF Spare, Orderly, Fits, Rides

\* No reservation is left over, no offer is stale: a driver's message starts from
\* the rows as they are.
LEMMA BeginsAsIs ==
  ASSUME Orderly(db), NEW d \in Drivers  PROVE Adopt(db, d) = db /\ Begin(d) = db
<1>1. \A o \in Orders : db.status[o] \in Riding => db.parallel[o] # d
  BY NoneAssumption DEF Orderly, Fits
<1>2. Newest({o \in Orders : db.parallel[o] = d /\ db.driver[o] = NONE
                             /\ db.status[o] \in Riding}) = NONE
  <2>1. {o \in Orders : db.parallel[o] = d /\ db.driver[o] = NONE /\ db.status[o] \in Riding} = {}
    BY <1>1
  <2> QED
    BY <2>1, OneOrder
<1>3. ActiveRide(db, d) # NONE => db.parallel[ActiveRide(db, d)] # d
  BY <1>1, RideIs DEF Rides
<1>4. Adopt(db, d) = db
  BY <1>2, <1>3 DEF Adopt
<1>5. PendingOffer(db, d) = NONE \/ ActiveRide(db, d) = NONE
  BY RideIs, OfferIs, NoneAssumption DEF Rides, Orderly, Fits
<1> QED
  BY <1>4, <1>5 DEF Begin, ReleaseStale

(***************************************************************************)
(* Handlers that change one order and its driver                           *)
(***************************************************************************)
\* No order but o changes, no driver but d; no offer is made, o does not become unborn.
Edit(s, t, o, d) ==
    /\ Keeps(s, t) /\ Beside(s, t, d)
    /\ \A p \in Orders \ {o} : SameOrder(s, t, p)
    /\ s.status[o] # "unborn" => t.status[o] # "unborn"

LEMMA EditTrans ==
  ASSUME NEW r, NEW s, NEW t, NEW o, NEW d, Edit(r, s, o, d), Edit(s, t, o, d)
  PROVE  Edit(r, t, o, d)
<1>1. Keeps(r, t)
  BY KeepsTransitive DEF Edit
<1>2. \A p \in Orders : s.status[p] # "unborn" => t.status[p] # "unborn"
  BY DEF Edit, SameOrder
<1>3. Beside(r, t, d)
  BY <1>2, BesideTrans DEF Edit
<1>4. \A p \in Orders \ {o} : SameOrder(r, t, p)
  BY DEF Edit, SameOrder
<1> QED
  BY <1>1, <1>3, <1>4 DEF Edit

\* No order changes, and no driver but d.
Moves(s, t, d) == Keeps(s, t) /\ Likewise(s, t) /\ Beside(s, t, d)

LEMMA MovesEdit ==
  ASSUME NEW s, NEW t, NEW o \in Orders, NEW d, Moves(s, t, d)
  PROVE  Edit(s, t, o, d) /\ Likewise(s, t) /\ Good(t)
BY DEF Moves, Edit, Likewise, SameOrder, Keeps

LEMMA DriverMoves ==
  ASSUME NEW s, Good(s), NEW d \in Drivers
  PROVE  /\ Moves(s, SetAway(s, d), d) /\ Moves(s, MarkAssigned(s, d), d)
         /\ Moves(s, ReleaseOffer(s, d), d) /\ Moves(s, RestorePosition(s, d), d)
         /\ Moves(s, [LeaveQueue(s, d) EXCEPT !.online[d] = FALSE], d)
         /\ Moves(s, [JoinQueue(s, d) EXCEPT !.online[d] = TRUE], d)
         /\ \A temp : Moves(s, LeaveTemporary(s, d, temp), d)
<1>1. s \in Rows
  BY DEF Good
<1>2. /\ Moves(s, SetAway(s, d), d) /\ Moves(s, MarkAssigned(s, d), d)
      /\ Moves(s, ReleaseOffer(s, d), d) /\ Moves(s, RestorePosition(s, d), d)
      /\ \A temp : Moves(s, LeaveTemporary(s, d, temp), d)
  BY <1>1, SetAwayGood, MarkAssignedGood, ReleaseOfferGood, RestorePositionGood,
     LeaveTemporaryKeeps, DriversPark, DriversBeside DEF Moves, SameOrders, Likewise
<1>3. Moves(s, [LeaveQueue(s, d) EXCEPT !.online[d] = FALSE], d)
  BY <1>1, LeaveLineKeeps, DriversPark, LeavesBeside DEF Moves, SameOrders, Likewise
<1>4. Moves(s, [JoinQueue(s, d) EXCEPT !.online[d] = TRUE], d)
  BY <1>1, JoinLineKeeps, DriversPark, JoinsBeside DEF Moves, SameOrders, Likewise
<1> QED
  BY <1>2, <1>3, <1>4

LEMMA OrderEdits ==
  ASSUME NEW s, Good(s), NEW d, NEW o \in Orders,
         NEW t \in {Dequeue(s, o), ResetCreator(s, o)}
  PROVE  Edit(s, t, o, d) /\ Likewise(s, t) /\ SameDrivers(s, t)
<1>1. s \in Rows
  BY DEF Good
<1>2. Keeps(s, t)
  BY DequeueGood, ResetCreatorGood
<1>3. Likewise(s, t)
  <2>1. \A p \in Orders : SameOrder(s, Dequeue(s, o), p)
    BY <1>1 DEF Dequeue, Rows, SameOrder
  <2> QED
    BY <1>1, <2>1, CreatorsPark DEF SameOrders, Likewise
<1>4. SameDrivers(s, t)
  BY <1>1, OrdersSameDrivers
<1> QED
  BY <1>2, <1>3, <1>4, MovesEdit, SameDriversBeside DEF Moves

\* A closed order: nobody's, with its offer and its reservation as they were.
Shut(s, t, o, status) ==
    /\ t.status[o] = status /\ t.driver[o] = NONE
    /\ t.offered[o] = s.offered[o] /\ t.parallel[o] = s.parallel[o]

LEMMA CloseEdits ==
  ASSUME NEW s, Good(s), NEW d, NEW o \in Orders, NEW status \in Closed,
         NEW t \in {Close(s, o, status), CloseFor(s, o, status)}
  PROVE  Edit(s, t, o, d) /\ Shut(s, t, o, status) /\ SameDrivers(s, t)
<1>1. s \in Rows
  BY DEF Good
<1>2. Keeps(s, t)
  BY CloseGood, CloseForGood
<1>3. SameDrivers(s, t)
  BY <1>1, CloseSameDrivers
<1>4. /\ Aside(s, t, o) /\ t.offered = s.offered /\ t.parallel = s.parallel /\ t.status[o] = status
  BY <1>1, CloseAside
<1>5. t.driver[o] = NONE
  <2>1. Close(s, o, status).driver[o] = NONE
    <3> DEFINE f == ForgetSearch(s, o)
               g == ForgetRide(f, o)
               c == [g EXCEPT !.status[o] = status, !.driver[o] = NONE]
    <3>1. f.driver = s.driver /\ DOMAIN f = DOMAIN s
      BY <1>1 DEF ForgetSearch, Rows
    <3>2. g.driver = s.driver /\ DOMAIN g = DOMAIN s
      BY <3>1 DEF ForgetRide
    <3> HIDE DEF f, g
    <3>3. c.driver = [g.driver EXCEPT ![o] = NONE] /\ DOMAIN s.driver = Orders
      BY <1>1, <3>2 DEF Rows
    <3> HIDE DEF c
    <3>4. c.driver[o] = NONE
      BY <3>2, <3>3
    <3> QED
      BY <3>4 DEF Close, f, g, c
  <2>2. Close(s, o, status) \in Rows
    BY CloseGood DEF Keeps, Good
  <2>3. ResetCreator(Close(s, o, status), o).driver = Close(s, o, status).driver
    BY <2>2 DEF ResetCreator, Rows
  <2> QED
    BY <2>1, <2>3 DEF CloseFor
<1> QED
  BY <1>2, <1>3, <1>4, <1>5, SameDriversBeside DEF Edit, Shut, Aside, Closed

LEMMA CancelEdits ==
  ASSUME NEW s, Good(s), NEW d, NEW o \in Orders,
         NEW t \in {Dequeue(Close(s, o, "cancelled"), o), Dequeue(CloseFor(s, o, "cancelled"), o),
                    CloseFor(Dequeue(s, o), o, "cancelled")}
  PROVE  Edit(s, t, o, d) /\ Shut(s, t, o, "cancelled") /\ SameDrivers(s, t)
<1>1. "cancelled" \in Closed
  BY DEF Closed
<1>2. CASE t = CloseFor(Dequeue(s, o), o, "cancelled")
  <2> DEFINE q == Dequeue(s, o)
  <2>1. Good(q) /\ Edit(s, q, o, d) /\ Likewise(s, q) /\ SameDrivers(s, q)
    BY OrderEdits, DequeueGood, GoodRows
  <2> HIDE DEF q
  <2>2. t = CloseFor(q, o, "cancelled")
    BY <1>2 DEF q
  <2>3. Edit(q, t, o, d) /\ Shut(q, t, o, "cancelled") /\ SameDrivers(q, t)
    BY <1>1, <2>1, <2>2, CloseEdits
  <2>4. \A p \in Orders : q.status[p] # "unborn" => t.status[p] # "unborn"
    BY <2>3 DEF Edit, SameOrder
  <2> QED
    BY <2>1, <2>3, <2>4, EditTrans, SameDriversTrans DEF Shut, Likewise, SameOrder
<1>3. CASE \E c \in {Close(s, o, "cancelled"), CloseFor(s, o, "cancelled")} : t = Dequeue(c, o)
  <2>1. PICK c \in {Close(s, o, "cancelled"), CloseFor(s, o, "cancelled")} : t = Dequeue(c, o)
    BY <1>3
  <2>2. Edit(s, c, o, d) /\ Shut(s, c, o, "cancelled") /\ SameDrivers(s, c)
    BY <1>1, CloseEdits
  <2>3. Good(c)
    BY <2>2 DEF Edit, Keeps
  <2>4. Edit(c, t, o, d) /\ Likewise(c, t) /\ SameDrivers(c, t)
    BY <2>1, <2>3, OrderEdits
  <2>5. \A p \in Orders : c.status[p] # "unborn" => t.status[p] # "unborn"
    BY <2>4 DEF Likewise, SameOrder
  <2> QED
    BY <2>2, <2>4, <2>5, EditTrans, SameDriversTrans DEF Shut, Likewise, SameOrder
<1> QED
  BY <1>2, <1>3

\* Two columns of an order are cleared.
LEMMA ClearEdits ==
  ASSUME NEW s, Good(s), NEW d, NEW o \in Orders
  PROVE  /\ LET t == [s EXCEPT !.offered[o] = NONE]
            IN /\ Edit(s, t, o, d) /\ SameDrivers(s, t) /\ t.offered[o] = NONE
               /\ t.status[o] = s.status[o] /\ t.driver[o] = s.driver[o]
               /\ t.parallel[o] = s.parallel[o]
         /\ LET t == [s EXCEPT !.parallel[o] = NONE, !.driver[o] = NONE]
            IN /\ Edit(s, t, o, d) /\ SameDrivers(s, t) /\ t.offered[o] = s.offered[o]
               /\ t.status[o] = s.status[o] /\ t.driver[o] = NONE /\ t.parallel[o] = NONE
         /\ LET t == [s EXCEPT !.offered[o] = NONE, !.parallel[o] = NONE]
            IN /\ Edit(s, t, o, d) /\ SameDrivers(s, t) /\ t.offered[o] = NONE
               /\ t.status[o] = s.status[o] /\ t.driver[o] = s.driver[o] /\ t.parallel[o] = NONE
<1> DEFINE a == [s EXCEPT !.offered[o] = NONE]
           b == [s EXCEPT !.parallel[o] = NONE, !.driver[o] = NONE]
           c == [s EXCEPT !.offered[o] = NONE, !.parallel[o] = NONE]
           Alike(t) == /\ t.status = s.status /\ t.row = s.row /\ t.dstat = s.dstat
                       /\ t.online = s.online /\ t.address = s.address /\ t.declined = s.declined
                       /\ t.chatcard = s.chatcard /\ t \in Rows
<1>0. s \in Rows /\ DOMAIN s.offered = Orders /\ DOMAIN s.driver = Orders
      /\ DOMAIN s.parallel = Orders
  BY DEF Good, Rows
<1>1. /\ Alike(a) /\ a.offered = [s.offered EXCEPT ![o] = NONE] /\ a.driver = s.driver
      /\ a.parallel = s.parallel
  BY <1>0 DEF Rows
<1>2. /\ Alike(b) /\ b.offered = s.offered /\ b.driver = [s.driver EXCEPT ![o] = NONE]
      /\ b.parallel = [s.parallel EXCEPT ![o] = NONE]
  BY <1>0 DEF Rows
<1>3. /\ Alike(c) /\ c.offered = [s.offered EXCEPT ![o] = NONE] /\ c.driver = s.driver
      /\ c.parallel = [s.parallel EXCEPT ![o] = NONE]
  BY <1>0 DEF Rows
<1> HIDE DEF a, b, c
<1>4. ASSUME NEW t \in {a, b, c}
      PROVE  /\ \A p \in Orders \ {o} : SameOrder(s, t, p)
             /\ SameDrivers(s, t) /\ Fewer(s, t)
             /\ \A p \in Orders : /\ t.offered[p] \in {s.offered[p], NONE}
                                  /\ t.driver[p] \in {s.driver[p], NONE}
                                  /\ t.parallel[p] \in {s.parallel[p], NONE}
  BY <1>0, <1>1, <1>2, <1>3, <1>4 DEF SameOrder, SameDrivers, SameDriver, Calm, Fewer
<1>5. ASSUME NEW t \in {a, b, c} PROVE Edit(s, t, o, d)
  <2>1. t \in Rows /\ t.status = s.status
    BY <1>1, <1>2, <1>3
  <2>2. \A p \in Orders : t.offered[p] # NONE => t.driver[p] = NONE /\ t.parallel[p] = NONE
    BY <1>4 DEF Good
  <2>3. Keeps(s, t)
    BY <1>4, <2>1, <2>2, FewerIsGood
  <2> QED
    BY <1>4, <2>1, <2>3, SameDriversBeside DEF Edit
<1>6. /\ a.offered[o] = NONE /\ a.status[o] = s.status[o] /\ a.driver[o] = s.driver[o]
      /\ a.parallel[o] = s.parallel[o]
  BY <1>0, <1>1
<1>7. /\ b.offered[o] = s.offered[o] /\ b.status[o] = s.status[o] /\ b.driver[o] = NONE
      /\ b.parallel[o] = NONE
  BY <1>0, <1>2
<1>8. /\ c.offered[o] = NONE /\ c.status[o] = s.status[o] /\ c.driver[o] = s.driver[o]
      /\ c.parallel[o] = NONE
  BY <1>0, <1>3
<1> QED
  BY <1>4, <1>5, <1>6, <1>7, <1>8 DEF a, b, c

(***************************************************************************)
(* What a handler leaves                                                   *)
(***************************************************************************)
Reaches(s, t) == AtRest(t) /\ \A o \in Orders : Goes(s, t, o)

LEMMA LikewiseGoes ==
  ASSUME NEW r, NEW s, NEW t, Likewise(s, t), NEW o \in Orders
  PROVE  /\ Goes(r, s, o) => Goes(r, t, o)
         /\ Goes(s, t, o)
         /\ Settled(s, o) => Settled(t, o)
BY DEF Likewise, SameOrder, Goes, Settled

\* Only a driver with nothing to do changes.
LEMMA SpareReaches ==
  ASSUME NEW r, NEW s, AtRest(s), NEW t, NEW d, Moves(s, t, d), Spare(s, d, NONE)
  PROVE  AtRest(t) /\ Reaches(s, t) /\ (Reaches(r, s) => Reaches(r, t))
<1>1. Orderly(t)
  BY SpareOrderly DEF AtRest, Moves, Keeps, Likewise
<1> QED
  BY <1>1, LikewiseGoes DEF AtRest, Reaches, Moves

\* The other orders stay.
LEMMA EditReaches ==
  ASSUME NEW s, AtRest(s), NEW t, Orderly(t), NEW o \in Orders, NEW d, Edit(s, t, o, d),
         Settled(t, o), Goes(s, t, o)
  PROVE  Reaches(s, t)
BY DEF AtRest, Reaches, Edit, SameOrder, Goes, Settled

LEMMA ClosedReaches ==
  ASSUME NEW s, AtRest(s), NEW t, NEW o \in Orders, NEW d, Edit(s, t, o, d),
         s.status[o] # "unborn", t.status[o] \in Closed,
         t.driver[o] # NONE => t.status[o] = "cancelled",
         t.offered[o] = NONE, t.parallel[o] = NONE,
         \/ /\ d \in Drivers /\ Spare(s, d, o)
            /\ s.status[o] \in Riding => s.driver[o] = d
         \/ SameDrivers(s, t) /\ s.status[o] \notin Riding /\ t.driver[o] = NONE
  PROVE  Reaches(s, t)
<1>1. Good(t) /\ Beside(s, t, d) /\ \A p \in Orders \ {o} : SameOrder(s, t, p)
  BY DEF Edit, Keeps
<1>2. t.status[o] \notin Riding \cup {"parallel_assigned", "unborn"}
  BY DEF Closed, Riding
<1>3. Orderly(s)
  BY DEF AtRest
<1>4. Orderly(t)
  BY <1>1, <1>2, <1>3, FreedOrderly, OpenOrderly
<1> QED
  BY <1>4, EditReaches DEF Settled, Goes, Closed

\* An order closes, and the others who are free stay free.
LEMMA StillIdle ==
  ASSUME NEW s, Orderly(s), NEW t, Orderly(t), NEW o \in Orders, NEW d, Edit(s, t, o, d),
         t.driver[o] = NONE, t.offered[o] = NONE, d \notin Idle(s)
  PROVE  Idle(s) \subseteq Idle(t)
<1> SUFFICES ASSUME NEW e \in Idle(s)  PROVE e \in Idle(t)
  OBVIOUS
<1>1. e \in Drivers /\ e # d /\ Spare(s, e, NONE) /\ s.online[e] /\ s.dstat[e] = "online"
  BY IdleSpare DEF Idle
<1>2. t.online[e] /\ t.dstat[e] = "online"
  BY <1>1 DEF Edit, Beside, SameDriver
<1>3. Spare(t, e, NONE)
  BY <1>1, NoneAssumption DEF Spare, Edit, SameOrder
<1> QED
  BY <1>1, <1>2, <1>3, SpareIdle

\* Orders that are not open stay while others are promoted.
LEMMA ThenAdvances ==
  ASSUME NEW s, NEW t, NEW u, AtRest(u), Advances(t, u),
         \A p \in Orders : SameOrder(s, t, p) \/ (Goes(s, t, p) /\ t.status[p] \notin Pending)
  PROVE  Reaches(s, u)
<1> SUFFICES ASSUME NEW p \in Orders  PROVE Goes(s, u, p)
  BY DEF Reaches
<1>1. CASE SameOrder(s, t, p)
  BY <1>1, SameOrderGoes
<1>2. CASE Goes(s, t, p) /\ t.status[p] \notin Pending
  <2>1. /\ u.status[p] = t.status[p] /\ u.offered[p] = t.offered[p]
        /\ u.driver[p] = t.driver[p] /\ u.parallel[p] = t.parallel[p]
    BY <1>2 DEF Advances, Pending, Candidate
  <2> QED
    BY <1>2, <2>1 DEF Goes
<1> QED
  BY <1>1, <1>2

\* An order closes, and a parked order is promoted.
LEMMA ClosedThenPromotes ==
  ASSUME NEW s, AtRest(s), NEW t, NEW o \in Orders, NEW d, Edit(s, t, o, d), Reaches(s, t),
         t.status[o] \in Closed, t.driver[o] = NONE, t.offered[o] = NONE,
         NEW v \in {s, t}, v = s => d \notin Idle(s),
         NEW u \in Promotes(v, t)
  PROVE  Reaches(s, u) /\ Advances(t, u)
<1>1. Orderly(s) /\ Orderly(t) /\ AtRest(t)
  BY DEF AtRest, Reaches
<1>2. v \in Rows
  BY <1>1, OrderlyRows
<1>3. Idle(v) \subseteq Idle(t)
  BY <1>1, StillIdle
<1>4. AtRest(u) /\ Advances(t, u)
  BY <1>1, <1>2, <1>3, PromotesAtRest
<1>5. \A p \in Orders : SameOrder(s, t, p) \/ (Goes(s, t, p) /\ t.status[p] \notin Pending)
  BY DEF Edit, Reaches, Closed, Pending, Candidate
<1> QED
  BY <1>4, <1>5, ThenAdvances

\* A driver with nothing to do, who is not free on the line, is not found.
LEMMA SpareStays ==
  ASSUME NEW s, NEW t, Orderly(t), Advances(s, t), NEW d \in Drivers, Spare(s, d, NONE),
         s.dstat[d] # "online"
  PROVE  Spare(t, d, NONE)
<1>1. t.dstat[d] # "online"
  BY DEF Advances
<1>2. \A p \in Orders : t.offered[p] # d
  BY <1>1, NoneAssumption DEF Orderly, Fits
<1>3. \A p \in Orders : t.driver[p] = d => t.status[p] = "cancelled"
  BY NoneAssumption DEF Advances, Spare, Pending, Candidate
<1> QED
  BY <1>2, <1>3 DEF Spare

\* The driver of a ride and of an offer.
LEMMA Busy ==
  ASSUME NEW s, Orderly(s), NEW o \in Orders
  PROVE  /\ s.status[o] \in Riding => s.driver[o] \in Drivers \ Idle(s)
         /\ s.offered[o] # NONE =>
              /\ s.offered[o] \in Drivers \ Idle(s) /\ Spare(s, s.offered[o], o)
              /\ s.status[o] = "searching" /\ s.driver[o] = NONE /\ s.parallel[o] = NONE
<1>1. s.driver[o] \in Drivers \cup {NONE} /\ s.offered[o] \in Drivers \cup {NONE}
  BY OrderlyRows
<1>2. s.status[o] \in Riding => s.driver[o] \in Drivers /\ Engaged(s, s.driver[o])
  BY <1>1 DEF Orderly, Fits, Engaged
<1>3. ASSUME s.offered[o] # NONE
      PROVE  /\ s.offered[o] \in Drivers /\ Engaged(s, s.offered[o])
             /\ s.status[o] = "searching" /\ s.driver[o] = NONE /\ s.parallel[o] = NONE
  BY <1>1, <1>3 DEF Orderly, Good, Fits, Engaged, HasOffer
<1>4. ASSUME s.offered[o] # NONE  PROVE Spare(s, s.offered[o], o)
  <2> DEFINE d == s.offered[o]
  <2>1. d \in Drivers /\ s.row[d] = "offered" /\ s.status[o] = "searching"
    BY <1>3, <1>4 DEF Orderly, Fits
  <2>2. \A p \in Orders \ {o} : s.offered[p] # d
    BY <1>4, <2>1 DEF Orderly, Good, Fits
  <2>3. \A p \in Orders : ~Rides(s, d, p)
    BY <2>1 DEF Rides, Orderly, Fits
  <2>4. \A p \in Orders : s.driver[p] = d => s.status[p] # "parallel_assigned"
    BY <2>3 DEF Rides, Orderly, Single
  <2> QED
    BY <2>1, <2>2, <2>3, <2>4, NoneAssumption DEF Spare, Rides, Orderly, Fits
<1> QED
  BY <1>2, <1>3, <1>4 DEF Idle

\* The ride ends, the reserved order is the next one.
LEMMA PassedOn ==
  ASSUME NEW s, AtRest(s), NEW d \in Drivers, NEW o \in Orders, Rides(s, d, o),
         NEW t, Edit(s, t, o, d), t.status[o] \in Closed, t.driver[o] = NONE,
         t.offered[o] = NONE, t.parallel[o] = NONE, t.row[d] \in {"assigned", "none"},
         NEW q, q = Reserved(s, d), q # NONE
  PROVE  LET u == PromoteAfter(s, t, d)
         IN /\ AtRest(u) /\ Reaches(s, u) /\ Idle(s) \subseteq Idle(u)
            /\ q \in Orders \ {o} /\ u.status[q] = "assigned" /\ SameDrivers(t, u)
            /\ \A p \in Orders \ {o, q} : SameOrder(s, u, p)
            /\ u.status[o] \in Closed /\ u.driver[o] = NONE
<1> DEFINE u == PromoteAfter(s, t, d)
<1>1. Orderly(s) /\ Good(s) /\ Keeps(s, t) /\ t \in Rows
  BY OrderlyRows, GoodRows DEF AtRest, Edit
<1>2. /\ q \in Orders \ {o} /\ s.status[q] = "parallel_assigned" /\ s.parallel[q] = d
      /\ s.driver[q] = d /\ s.offered[q] = NONE
  <2>1. q \in Orders /\ s.status[q] = "parallel_assigned" /\ s.parallel[q] = d
    BY ReservedIn
  <2>2. s.driver[q] = d /\ s.offered[q] = NONE
    BY <1>1, <2>1 DEF Orderly, Fits
  <2> QED
    BY <2>1, <2>2 DEF Rides, Riding
<1>3. Good(u)
  BY <1>1, PromoteAfterGood, GoodRows
<1>4. u = [t EXCEPT !.status[q] = "assigned", !.driver[q] = d, !.parallel[q] = NONE,
                    !.peta[q] = FALSE]
  BY DEF PromoteAfter
<1> HIDE DEF u
<1>5. /\ u.status = [t.status EXCEPT ![q] = "assigned"] /\ u.driver = [t.driver EXCEPT ![q] = d]
      /\ u.parallel = [t.parallel EXCEPT ![q] = NONE] /\ u.offered = t.offered
      /\ u.declined = t.declined /\ u.row = t.row /\ u.dstat = t.dstat /\ u.online = t.online
      /\ u.address = t.address /\ u.chatcard = t.chatcard
      /\ DOMAIN t.status = Orders /\ DOMAIN t.driver = Orders /\ DOMAIN t.parallel = Orders
  BY <1>1, <1>4 DEF Rows
<1>6. /\ u.status[q] = "assigned" /\ u.driver[q] = d /\ u.parallel[q] = NONE
      /\ u.offered[q] = NONE
      /\ \A p \in Orders \ {q} : SameOrder(t, u, p)
  BY <1>2, <1>5 DEF SameOrder, Edit
<1>7. \A p \in Orders \ {o, q} : SameOrder(s, u, p)
  BY <1>6 DEF Edit, SameOrder
<1>8. /\ u.status[o] = t.status[o] /\ u.driver[o] = NONE
      /\ u.parallel[o] = NONE /\ u.offered[o] = NONE
  BY <1>2, <1>6 DEF SameOrder
<1>9. SameDrivers(t, u)
  BY <1>5, ColumnsSameDrivers DEF Calm
<1>10. \A p \in Orders : t.status[p] # "unborn" => u.status[p] # "unborn"
  BY <1>6 DEF SameOrder
<1>11. Beside(s, u, d)
  BY <1>9, <1>10, SameDriversBeside, BesideTrans DEF Edit
<1>12. \A p \in Orders \ {o, q} :
         s.offered[p] # d /\ s.status[p] \in Riding \cup {"parallel_assigned"} => s.driver[p] # d
  BY <1>1, <1>2 DEF Rides, Orderly, Single
<1>13. \A p \in Orders : s.offered[p] # d
  BY <1>1, NoneAssumption DEF Rides, Orderly, Fits
<1>14. u.row[d] \in {"assigned", "none"}
  BY <1>5
<1>15. ASSUME NEW p \in Orders PROVE Fits(u, p)
  <2>1. CASE p = o
    BY <1>8, <2>1, NoneAssumption DEF Fits, Closed, Riding
  <2>2. CASE p = q
    BY <1>6, <1>14, <2>2, NoneAssumption DEF Fits, Riding
  <2>3. CASE p \notin {o, q}
    <3>1. /\ s.offered[p] # NONE => SameDriver(s, u, s.offered[p])
          /\ s.status[p] \in Riding => SameDriver(s, u, s.driver[p])
      <4>1. s.driver[p] \in Drivers \cup {NONE} /\ s.offered[p] \in Drivers \cup {NONE}
        BY <1>1, OrderlyRows
      <4>2. s.status[p] \in Riding => s.driver[p] \in Drivers \ {d}
        BY <1>1, <1>2, <2>3, <4>1 DEF Rides, Orderly, Single, Fits
      <4> QED
        BY <1>11, <1>13, <4>1, <4>2 DEF Beside
    <3> QED
      BY <1>1, <1>7, <1>11, <2>3, <3>1, OtherFits DEF Beside
  <2> QED
    BY <2>1, <2>2, <2>3
<1>16. Single(u)
  <2>1. /\ \A p \in Orders \ {o, q} : u.status[p] = s.status[p] /\ u.driver[p] = s.driver[p]
        /\ u.status[o] \notin Riding \cup {"parallel_assigned"}
    BY <1>7, <1>8 DEF SameOrder, Closed, Riding
  <2>2. \A p \in Orders \ {o, q} :
          s.status[p] \in Riding \cup {"parallel_assigned"} => s.driver[p] # d
    BY <1>1, <1>2 DEF Rides, Orderly, Single
  <2>3. u.status[q] \in Riding /\ u.status[q] # "parallel_assigned"
    BY <1>6 DEF Riding
  <2>4. \A x, y \in Orders :
          u.status[x] \in Riding /\ u.status[y] \in Riding /\ u.driver[x] = u.driver[y] => x = y
    BY <1>1, <1>6, <2>1, <2>2, <2>3 DEF Orderly, Single
  <2>5. \A x, y \in Orders :
          /\ u.status[x] = "parallel_assigned" /\ u.status[y] = "parallel_assigned"
          /\ u.driver[x] = u.driver[y]
          => x = y
    BY <1>1, <1>6, <2>1, <2>2, <2>3 DEF Orderly, Single
  <2>6. \A x \in Orders : u.status[x] = "parallel_assigned" =>
          \E y \in Orders : u.status[y] \in Riding /\ u.driver[y] = u.driver[x]
    BY <1>1, <1>2, <2>1, <2>2, <2>3 DEF Orderly, Single, Rides
  <2> QED
    BY <2>4, <2>5, <2>6 DEF Single
<1>17. Orderly(u)
  BY <1>1, <1>3, <1>11, <1>15, <1>16 DEF Orderly, Beside, Calm
<1>18. AtRest(u)
  BY <1>6, <1>7, <1>8, <1>17 DEF AtRest, Settled, SameOrder, Closed
<1>19. ASSUME NEW p \in Orders PROVE Goes(s, u, p)
  <2>1. CASE p = o
    BY <1>8, <2>1 DEF Goes, Rides, Riding
  <2>2. CASE p = q
    BY <1>2, <1>6, <2>2 DEF Goes, Riding
  <2>3. CASE p \notin {o, q}
    BY <1>7, <2>3 DEF Goes, SameOrder
  <2> QED
    BY <2>1, <2>2, <2>3
<1>20. Idle(s) \subseteq Idle(u)
  <2> SUFFICES ASSUME NEW e \in Idle(s)  PROVE e \in Idle(u)
    OBVIOUS
  <2>1. e \in Drivers /\ Spare(s, e, NONE) /\ s.online[e] /\ s.dstat[e] = "online"
    BY <1>1, IdleSpare DEF Idle
  <2>2. e # d
    BY <1>1, Busy DEF Rides, Idle
  <2>3. u.online[e] /\ u.dstat[e] = "online"
    BY <1>11, <2>1, <2>2 DEF Beside, SameDriver
  <2>4. Spare(u, e, NONE)
    BY <1>6, <1>7, <1>8, <2>1, <2>2, NoneAssumption DEF Spare, SameOrder
  <2> QED
    BY <1>17, <2>1, <2>3, <2>4, SpareIdle
<1> QED
  BY <1>2, <1>6, <1>7, <1>8, <1>9, <1>18, <1>19, <1>20 DEF u, Reaches

(***************************************************************************)
(* The driver and the ride                                                 *)
(***************************************************************************)
LEMMA AtRestRows ==
  ASSUME NEW s, AtRest(s)  PROVE Orderly(s) /\ Good(s) /\ s \in Rows
BY OrderlyRows DEF AtRest

\* A driver with nothing to do moves on the line, and a parked order is promoted.
LEMMA SpareThenPromotes ==
  ASSUME NEW s, AtRest(s), NEW t, NEW d, Moves(s, t, d), Spare(s, d, NONE), NEW u \in Promotes(t, t)
  PROVE  Reaches(s, u)
<1>1. AtRest(t)
  BY SpareReaches
<1>2. AtRest(u) /\ Advances(t, u)
  BY <1>1, PromotesSelfAtRest
<1> QED
  BY <1>2, ThenAdvances DEF Moves, Likewise

\* A driver without an offer leaves the line.
LEMMA OfflineReaches ==
  ASSUME NEW s, AtRest(s), NEW t, NEW d, Moves(s, t, d),
         t.row[d] \in {"assigned", "none"}, \A o \in Orders : s.offered[o] # d
  PROVE  Reaches(s, t)
<1>1. Orderly(s) /\ Good(t) /\ Likewise(s, t) /\ Beside(s, t, d)
  BY DEF AtRest, Moves, Keeps
<1>2. \A p \in Orders : /\ s.driver[p] \in Drivers \cup {NONE}
                        /\ s.offered[p] \in Drivers \cup {NONE}
  BY <1>1, OrderlyRows
<1>3. ASSUME NEW p \in Orders PROVE Fits(t, p)
  <2>1. Fits(s, p) /\ SameOrder(s, t, p)
    BY <1>1 DEF Orderly, Likewise
  <2>2. s.offered[p] # NONE => SameDriver(s, t, s.offered[p])
    BY <1>1, <1>2 DEF Beside
  <2>3. s.status[p] \in Riding => t.row[s.driver[p]] \in {"assigned", "none"}
    BY <1>1, <1>2, <2>1 DEF Beside, SameDriver, Fits
  <2>4. t.chatcard[p] => t.status[p] # "unborn"
    BY <1>1, <2>1 DEF Beside, Calm, Fits, SameOrder
  <2> QED
    BY <2>1, <2>2, <2>3, <2>4 DEF Fits, SameOrder, SameDriver
<1>4. Single(t)
  BY <1>1 DEF Orderly, Single, Likewise, SameOrder
<1>5. Orderly(t)
  BY <1>1, <1>3, <1>4 DEF Orderly, Beside, Calm
<1> QED
  BY <1>1, <1>5, LikewiseGoes DEF AtRest, Reaches

LEMMA LineActionsReach ==
  ASSUME AtRest(db), NEW d \in Drivers,
         DriverMessage(d) \/ GoOnline(d) \/ GoOffline(d) \/ GoAway(d) \/ AwayExpire(d)
  PROVE  Reaches(db, db')
<1>1. Begin(d) = db /\ Good(db) /\ Orderly(db) /\ db \in Rows
  BY BeginsAsIs, AtRestRows
<1>2. MenuOpen(db, d) => Spare(db, d, NONE)
  BY <1>1, NothingIsSpare
<1>3. CASE DriverMessage(d)
  BY <1>1, <1>3 DEF DriverMessage
<1>4. CASE GoOnline(d)
  <2> DEFINE t == [JoinQueue(db, d) EXCEPT !.online[d] = TRUE]
  <2>1. Moves(db, t, d)
    BY <1>1, DriverMoves
  <2>2. Spare(db, d, NONE) /\ db' \in Promotes(t, t)
    BY <1>1, <1>2, <1>4 DEF GoOnline
  <2> HIDE DEF t
  <2> QED
    BY <2>1, <2>2, SpareThenPromotes
<1>5. CASE GoOffline(d) \/ GoAway(d)
  <2> DEFINE l == [LeaveQueue(db, d) EXCEPT !.online[d] = FALSE]
  <2>1. Spare(db, d, NONE) /\ (db' = SetAway(db, d) \/ db' = l)
    BY <1>1, <1>2, <1>5 DEF GoOffline, GoAway
  <2>2. Moves(db, SetAway(db, d), d) /\ Moves(db, l, d)
    BY <1>1, DriverMoves
  <2> HIDE DEF l
  <2>3. Moves(db, db', d)
    BY <2>1, <2>2
  <2> QED
    BY <2>1, <2>3, SpareReaches
<1>6. CASE AwayExpire(d)
  <2>1. db.dstat[d] = "away" /\ db' = [LeaveQueue(db, d) EXCEPT !.online[d] = FALSE]
    BY <1>6 DEF AwayExpire
  <2>2. Moves(db, db', d) /\ db'.row[d] = "none"
    BY <1>1, <2>1, DriverMoves, LeavesBeside
  <2>3. \A o \in Orders : db.offered[o] # d
    BY <1>1, <2>1, NoneAssumption DEF Orderly, Fits
  <2> QED
    BY <2>2, <2>3, OfflineReaches
<1> QED
  BY <1>3, <1>4, <1>5, <1>6

\* The ride of the driver who may speak of it.
LEMMA OnRideRides ==
  ASSUME NEW s, Orderly(s), NEW d \in Drivers, OnRide(s, d), NEW o, o = ActiveRide(s, d)
  PROVE  /\ o \in Orders /\ Rides(s, d, o)
         /\ s.status[o] # "unborn" /\ s.driver[o] = d /\ s.parallel[o] = NONE
         /\ s.offered[o] = NONE /\ s.row[d] \in {"assigned", "none"} /\ d \notin Idle(s)
         /\ \A p \in Orders : s.offered[p] # d
         /\ Reserved(s, d) = NONE => Spare(s, d, o)
<1>1. o \in Orders /\ Rides(s, d, o)
  BY RideIs DEF OnRide
<1> QED
  BY <1>1, Busy, RiderIsSpare, NoneAssumption DEF Rides, Orderly, Fits, Riding

\* The ride goes on.
LEMMA OnwardReaches ==
  ASSUME NEW s, AtRest(s), NEW t, Good(t), NEW d, NEW o \in Orders, Rides(s, d, o),
         SameDrivers(s, t), \A p \in Orders \ {o} : SameOrder(s, t, p),
         t.status[o] \in Riding, t.driver[o] = d, t.parallel[o] = s.parallel[o],
         t.offered[o] = s.offered[o]
  PROVE  Reaches(s, t)
<1>1. Orderly(s)
  BY DEF AtRest
<1>2. \A p \in Orders : /\ s.driver[p] \in Drivers \cup {NONE}
                        /\ s.offered[p] \in Drivers \cup {NONE}
  BY <1>1, OrderlyRows
<1>3. ASSUME NEW p \in Orders PROVE Fits(t, p)
  <2>1. Fits(s, p)
    BY <1>1 DEF Orderly
  <2>2. CASE p = o
    BY <1>2, <2>1, <2>2, NoneAssumption DEF Fits, Rides, Riding, SameDrivers, SameDriver
  <2>3. CASE p # o
    <3>1. /\ s.offered[p] # NONE => SameDriver(s, t, s.offered[p])
          /\ s.status[p] \in Riding => SameDriver(s, t, s.driver[p])
      BY <1>2, <2>1 DEF SameDrivers, Fits
    <3> QED
      BY <1>1, <2>3, <3>1, OtherFits DEF SameDrivers
  <2> QED
    BY <2>2, <2>3
<1>4. \A p \in Orders : /\ t.driver[p] = s.driver[p]
                        /\ t.status[p] \in Riding <=> s.status[p] \in Riding
                        /\ t.status[p] = "parallel_assigned" <=> s.status[p] = "parallel_assigned"
  BY DEF SameOrder, Rides, Riding
<1>5. Single(t)
  BY <1>1, <1>4 DEF Orderly, Single
<1>6. Orderly(t)
  BY <1>1, <1>3, <1>5 DEF Orderly, SameDrivers, Calm
<1>7. \A p \in Orders : Settled(t, p)
  BY DEF AtRest, Settled, SameOrder, Riding
<1>8. \A p \in Orders : Goes(s, t, p)
  BY DEF Goes, SameOrder, Rides
<1> QED
  BY <1>6, <1>7, <1>8 DEF AtRest, Reaches

LEMMA RideActionsReach ==
  ASSUME AtRest(db), NEW d \in Drivers,
         ShowEtaMenu(d) \/ SetEta(d) \/ Arrived(d) \/ Seated(d)
  PROVE  Reaches(db, db')
<1> DEFINE o == ActiveRide(db, d)
<1>1. Begin(d) = db /\ Good(db) /\ Orderly(db) /\ db \in Rows
  BY BeginsAsIs, AtRestRows
<1>2. OnRide(db, d)
  BY <1>1 DEF ShowEtaMenu, SetEta, Arrived, Seated
<1>3. o \in Orders /\ Rides(db, d, o)
  BY <1>1, <1>2, OnRideRides
<1>4. \/ \E b \in BOOLEAN : db' = [db EXCEPT !.card[o] = b]
      \/ \E b \in BOOLEAN : db' = Follow([db EXCEPT !.card[o] = b], o)
      \/ \E x \in Riding : db' = Follow([db EXCEPT !.status[o] = x], o)
  BY <1>1 DEF ShowEtaMenu, SetEta, Arrived, Seated, Riding
<1>5. Good(db')
  BY <1>1, RideActions
<1> HIDE DEF o
<1>6. ASSUME NEW r, NEW b \in BOOLEAN, r = [db EXCEPT !.card[o] = b]
      PROVE  r \in Rows /\ Likewise(db, r) /\ SameDrivers(db, r)
  <2>1. /\ r \in Rows /\ r.status = db.status /\ r.offered = db.offered /\ r.driver = db.driver
        /\ r.parallel = db.parallel /\ r.declined = db.declined
        /\ r.row = db.row /\ r.dstat = db.dstat /\ r.online = db.online
        /\ r.address = db.address /\ r.chatcard = db.chatcard
    BY <1>1, <1>3, <1>6, ZenonT(40) DEF Rows
  <2> QED
    BY <2>1, ColumnsSameDrivers DEF Likewise, SameOrder, Calm
<1>7. ASSUME NEW r, NEW x \in Riding, r = [db EXCEPT !.status[o] = x]
      PROVE  /\ r \in Rows /\ SameDrivers(db, r) /\ \A p \in Orders \ {o} : SameOrder(db, r, p)
             /\ r.status[o] = x /\ r.driver[o] = db.driver[o] /\ r.parallel[o] = db.parallel[o]
             /\ r.offered[o] = db.offered[o]
  <2>0. x \in Statuses
    BY StatusValues
  <2>1. /\ r \in Rows /\ r.status = [db.status EXCEPT ![o] = x] /\ DOMAIN db.status = Orders
        /\ r.offered = db.offered /\ r.driver = db.driver
        /\ r.parallel = db.parallel /\ r.declined = db.declined
        /\ r.row = db.row /\ r.dstat = db.dstat /\ r.online = db.online
        /\ r.address = db.address /\ r.chatcard = db.chatcard
    BY <1>1, <1>3, <1>7, <2>0, Zenon DEF Rows
  <2>2. Calm(db, r)
    BY <1>3, <2>1 DEF Calm, Riding
  <2> QED
    BY <1>3, <2>1, <2>2, ColumnsSameDrivers DEF SameOrder
<1>8. ASSUME NEW r \in Rows  PROVE Likewise(r, Follow(r, o)) /\ SameDrivers(r, Follow(r, o))
  BY <1>3, CreatorsPark, OrdersSameDrivers DEF SameOrders, Likewise
<1>9. CASE \E b \in BOOLEAN : db' = [db EXCEPT !.card[o] = b]
  <2>1. Likewise(db, db') /\ SameDrivers(db, db')
    BY <1>6, <1>9
  <2> QED
    BY <1>3, <1>5, <2>1, OnwardReaches DEF Likewise, SameOrder, Rides
<1>10. CASE \E b \in BOOLEAN : db' = Follow([db EXCEPT !.card[o] = b], o)
  <2>1. PICK b \in BOOLEAN : db' = Follow([db EXCEPT !.card[o] = b], o)
    BY <1>10
  <2> DEFINE r == [db EXCEPT !.card[o] = b]
  <2>2. r \in Rows /\ Likewise(db, r) /\ SameDrivers(db, r) /\ db' = Follow(r, o)
    BY <1>6, <2>1
  <2> HIDE DEF r
  <2>3. Likewise(r, db') /\ SameDrivers(r, db')
    BY <1>8, <2>2
  <2>4. Likewise(db, db') /\ SameDrivers(db, db')
    BY <2>2, <2>3, SameDriversTrans DEF Likewise, SameOrder
  <2> QED
    BY <1>3, <1>5, <2>4, OnwardReaches DEF Likewise, SameOrder, Rides
<1>11. CASE \E x \in Riding : db' = Follow([db EXCEPT !.status[o] = x], o)
  <2>1. PICK x \in Riding : db' = Follow([db EXCEPT !.status[o] = x], o)
    BY <1>11
  <2> DEFINE r == [db EXCEPT !.status[o] = x]
  <2>2. /\ r \in Rows /\ SameDrivers(db, r) /\ \A p \in Orders \ {o} : SameOrder(db, r, p)
        /\ r.status[o] = x /\ r.driver[o] = db.driver[o] /\ r.parallel[o] = db.parallel[o]
        /\ r.offered[o] = db.offered[o] /\ db' = Follow(r, o)
    BY <1>7, <2>1
  <2> HIDE DEF r
  <2>3. Likewise(r, db') /\ SameDrivers(r, db')
    BY <1>8, <2>2
  <2>4. SameDrivers(db, db')
    BY <2>2, <2>3, SameDriversTrans DEF Likewise, SameOrder
  <2>5. /\ \A p \in Orders \ {o} : SameOrder(db, db', p)
        /\ db'.status[o] = x /\ db'.driver[o] = d /\ db'.parallel[o] = db.parallel[o]
        /\ db'.offered[o] = db.offered[o]
    BY <1>3, <2>2, <2>3 DEF Likewise, SameOrder, Rides
  <2> QED
    BY <1>3, <1>5, <2>4, <2>5, OnwardReaches
<1> QED
  BY <1>4, <1>9, <1>10, <1>11

\* The ride ends, and its driver has no other order.
LEMMA EndsSpare ==
  ASSUME NEW s, NEW t, NEW d, NEW o \in Orders, Edit(s, t, o, d), Spare(s, d, o), d # NONE,
         t.offered[o] = NONE, t.driver[o] = d => t.status[o] = "cancelled"
  PROVE  Spare(t, d, NONE)
BY NoneAssumption DEF Spare, Edit, SameOrder

LEMMA ClosedRide ==
  ASSUME NEW s, AtRest(s), NEW d \in Drivers, OnRide(s, d), NEW o, o = ActiveRide(s, d),
         NEW status \in Closed, NEW c, c = CloseFor(s, o, status)
  PROVE  /\ Good(c) /\ Edit(s, c, o, d) /\ c.status[o] = status /\ c.driver[o] = NONE
         /\ c.offered[o] = NONE /\ c.parallel[o] = NONE /\ c.row[d] = s.row[d]
<1>1. o \in Orders /\ s.offered[o] = NONE /\ s.parallel[o] = NONE /\ Good(s)
  BY OnRideRides, AtRestRows
<1>2. Edit(s, c, o, d) /\ Shut(s, c, o, status) /\ SameDrivers(s, c)
  BY <1>1, CloseEdits
<1> QED
  BY <1>1, <1>2 DEF Shut, Edit, Keeps, SameDrivers, SameDriver

\* A driver's row or the columns of the driver change after the edit.
LEMMA EditMoves ==
  ASSUME NEW s, NEW c, NEW o \in Orders, NEW d, Edit(s, c, o, d), NEW t, Moves(c, t, d)
  PROVE  Edit(s, t, o, d) /\ Good(t) /\ SameOrder(c, t, o)
BY MovesEdit, EditTrans DEF Likewise, SameOrder

LEMMA CompleteReaches ==
  ASSUME AtRest(db), NEW d \in Drivers, Complete(d)  PROVE Reaches(db, db')
<1> DEFINE o == ActiveRide(db, d)
           c == CloseFor(db, o, "completed")
           t == LeaveTemporary(c, d, db.temp[o])
<1>1. Begin(d) = db /\ Good(db) /\ Orderly(db) /\ db \in Rows
  BY BeginsAsIs, AtRestRows
<1>2. /\ OnRide(db, d) /\ "completed" \in Closed
      /\ db' = IF Reserved(db, d) # NONE THEN PromoteAfter(db, t, d) ELSE SetAway(t, d)
  BY <1>1 DEF Complete, Closed
<1>3. /\ o \in Orders /\ Rides(db, d, o) /\ db.status[o] # "unborn" /\ db.driver[o] = d
      /\ db.row[d] \in {"assigned", "none"}
      /\ Reserved(db, d) = NONE => Spare(db, d, o)
  BY <1>1, <1>2, OnRideRides
<1>4. /\ Good(c) /\ Edit(db, c, o, d) /\ c.status[o] = "completed" /\ c.driver[o] = NONE
      /\ c.offered[o] = NONE /\ c.parallel[o] = NONE /\ c.row[d] = db.row[d]
  BY <1>2, ClosedRide
<1> HIDE DEF o, c
<1>5. Moves(c, t, d) /\ t.row[d] \in {"assigned", "none"}
  <2>1. c \in Rows
    BY <1>4 DEF Good
  <2>2. t.row[d] \in {c.row[d], "none"}
    BY <2>1, DriversBeside
  <2> QED
    BY <1>3, <1>4, <2>2, DriverMoves
<1> HIDE DEF t
<1>6. /\ Edit(db, t, o, d) /\ Good(t) /\ t.status[o] \in Closed /\ t.driver[o] = NONE
      /\ t.offered[o] = NONE /\ t.parallel[o] = NONE
  <2>1. Edit(db, t, o, d) /\ Good(t) /\ SameOrder(c, t, o)
    BY <1>3, <1>4, <1>5, EditMoves
  <2> QED
    BY <1>2, <1>4, <2>1 DEF SameOrder, Closed
<1>7. CASE Reserved(db, d) # NONE
  BY <1>2, <1>3, <1>5, <1>6, <1>7, PassedOn
<1>8. CASE Reserved(db, d) = NONE
  <2>1. db' = SetAway(t, d) /\ Moves(t, db', d)
    BY <1>2, <1>6, <1>8, DriverMoves
  <2>2. /\ Edit(db, db', o, d) /\ db'.status[o] \in Closed /\ db'.driver[o] = NONE
        /\ db'.offered[o] = NONE /\ db'.parallel[o] = NONE
    BY <1>3, <1>6, <2>1, EditMoves DEF SameOrder
  <2> QED
    BY <1>3, <1>8, <2>2, ClosedReaches
<1> QED
  BY <1>7, <1>8

LEMMA CancelForClientReaches ==
  ASSUME AtRest(db), NEW d \in Drivers, CancelForClient(d)  PROVE Reaches(db, db')
<1> DEFINE o == ActiveRide(db, d)
           c == CloseFor(db, o, "cancelled")
           l == LeaveTemporary(c, d, db.temp[o])
           a == SetAway(c, d)
           t == LeaveTemporary(a, d, db.temp[o])
<1>1. Begin(d) = db /\ Good(db) /\ Orderly(db) /\ db \in Rows
  BY BeginsAsIs, AtRestRows
<1>2. /\ OnRide(db, d) /\ "cancelled" \in Closed
      /\ IF Reserved(db, d) # NONE THEN db' = PromoteAfter(db, l, d)
         ELSE db' \in {SetAway(r, d) : r \in Promotes(t, t)}
  BY <1>1 DEF CancelForClient, Closed
<1>3. /\ o \in Orders /\ Rides(db, d, o) /\ db.status[o] # "unborn" /\ db.driver[o] = d
      /\ db.row[d] \in {"assigned", "none"}
      /\ Reserved(db, d) = NONE => Spare(db, d, o)
      /\ d \notin Idle(db)
  BY <1>1, <1>2, OnRideRides
<1>4. /\ Good(c) /\ Edit(db, c, o, d) /\ c.status[o] = "cancelled" /\ c.driver[o] = NONE
      /\ c.offered[o] = NONE /\ c.parallel[o] = NONE /\ c.row[d] = db.row[d]
  BY <1>2, ClosedRide
<1> HIDE DEF o, c
<1>5. CASE Reserved(db, d) # NONE
  <2>1. Moves(c, l, d) /\ l.row[d] \in {"assigned", "none"}
    <3>1. c \in Rows
      BY <1>4 DEF Good
    <3>2. l.row[d] \in {c.row[d], "none"}
      BY <3>1, DriversBeside
    <3> QED
      BY <1>3, <1>4, <3>2, DriverMoves
  <2>2. db' = PromoteAfter(db, l, d)
    BY <1>2, <1>5
  <2> HIDE DEF l
  <2>3. /\ Edit(db, l, o, d) /\ l.status[o] \in Closed /\ l.driver[o] = NONE
        /\ l.offered[o] = NONE /\ l.parallel[o] = NONE
    <3>1. Edit(db, l, o, d) /\ SameOrder(c, l, o)
      BY <1>3, <1>4, <2>1, EditMoves
    <3> QED
      BY <1>2, <1>4, <3>1 DEF SameOrder
  <2> QED
    BY <1>3, <1>5, <2>1, <2>2, <2>3, PassedOn
<1>6. CASE Reserved(db, d) = NONE
  <2>1. PICK r \in Promotes(t, t) : db' = SetAway(r, d)
    BY <1>2, <1>6
  <2>2. Moves(c, a, d) /\ a.dstat[d] = "away" /\ Good(a) /\ a \in Rows
    <3>1. c \in Rows
      BY <1>4 DEF Good
    <3>2. Moves(c, a, d) /\ a.dstat[d] = "away"
      BY <1>4, <3>1, DriverMoves, DriversBeside
    <3> QED
      BY <3>2 DEF Moves, Keeps, Good
  <2> HIDE DEF a
  <2>3. Moves(a, t, d) /\ t.dstat[d] \in {"away", "offline"}
    BY <2>2, DriverMoves, DriversBeside
  <2> HIDE DEF t
  <2>4. /\ Edit(db, t, o, d) /\ t.status[o] \in Closed /\ t.driver[o] = NONE
        /\ t.offered[o] = NONE /\ t.parallel[o] = NONE
    <3>1. /\ Edit(db, a, o, d) /\ a.status[o] = "cancelled" /\ a.driver[o] = NONE
          /\ a.offered[o] = NONE /\ a.parallel[o] = NONE
      <4>1. Edit(db, c, o, d) /\ Moves(c, a, d) /\ o \in Orders
        BY <1>3, <1>4, <2>2
      <4>2. Edit(db, a, o, d) /\ SameOrder(c, a, o)
        BY <4>1, EditMoves
      <4> QED
        BY <1>4, <4>2 DEF SameOrder
    <3>2. Edit(db, t, o, d) /\ SameOrder(a, t, o)
      BY <1>3, <2>3, <3>1, EditMoves
    <3> QED
      BY <1>2, <3>1, <3>2 DEF SameOrder
  <2>5. Reaches(db, t)
    BY <1>3, <1>6, <2>4, ClosedReaches
  <2>6. Reaches(db, r) /\ Advances(t, r)
    BY <1>3, <2>4, <2>5, ClosedThenPromotes
  <2>7. Spare(t, d, NONE)
    BY <1>3, <1>6, <2>4, EndsSpare, NoneAssumption
  <2>8. AtRest(r) /\ Orderly(r) /\ Good(r)
    BY <2>6, AtRestRows DEF Reaches
  <2>9. Spare(r, d, NONE)
    BY <2>3, <2>6, <2>7, <2>8, SpareStays
  <2>10. Moves(r, db', d)
    BY <2>1, <2>8, DriverMoves
  <2> QED
    BY <2>6, <2>8, <2>9, <2>10, SpareReaches
<1> QED
  BY <1>5, <1>6

\* A reserved order is parked again.
LEMMA ReleaseEdits ==
  ASSUME NEW s, Good(s), NEW q \in Orders, s.offered[q] = NONE, s.status[q] # "unborn"
  PROVE  LET t == Release(s, q)
         IN /\ Good(t) /\ SameDrivers(s, t) /\ \A p \in Orders \ {q} : SameOrder(s, t, p)
            /\ t.status[q] = "queued" /\ t.driver[q] = NONE /\ t.parallel[q] = NONE
            /\ t.offered[q] = NONE
<1> DEFINE a == [s EXCEPT !.parallel[q] = NONE, !.peta[q] = FALSE, !.driver[q] = NONE,
                          !.status[q] = "queued"]
           e == Enqueue(a, q)
           t == [e EXCEPT !.pq[q] = "waiting"]
           Alike(x, y) == /\ x.status = y.status /\ x.driver = y.driver
                          /\ x.parallel = y.parallel /\ x.offered = y.offered
                          /\ x.declined = y.declined /\ DOMAIN x = DOMAIN y
<1>1. s \in Rows
  BY DEF Good
<1>2. /\ a.status = [s.status EXCEPT ![q] = "queued"] /\ a.driver = [s.driver EXCEPT ![q] = NONE]
      /\ a.parallel = [s.parallel EXCEPT ![q] = NONE] /\ a.offered = s.offered
      /\ a.declined = s.declined /\ DOMAIN a = DOMAIN s /\ DOMAIN s.status = Orders
      /\ DOMAIN s.driver = Orders /\ DOMAIN s.parallel = Orders
  BY <1>1 DEF Rows
<1> HIDE DEF a
<1>3. /\ e.status = a.status \/ e.status = [a.status EXCEPT ![q] = "queued"]
      /\ e.driver = a.driver /\ e.parallel = a.parallel /\ e.offered = a.offered
      /\ e.declined = a.declined /\ DOMAIN e = DOMAIN a
  BY <1>1, <1>2 DEF Enqueue, Rows
<1> HIDE DEF e
<1>4. Alike(t, e)
  BY <1>1, <1>2, <1>3 DEF Rows
<1> HIDE DEF t
<1>5. t = Release(s, q)
  BY DEF Release, a, e, t
<1>6. Good(t) /\ SameDrivers(s, t)
  BY <1>1, <1>5, ReleaseGood, ReleaseSameDrivers, GoodRows
<1>7. /\ \A p \in Orders \ {q} : SameOrder(s, t, p)
      /\ t.status[q] = "queued" /\ t.driver[q] = NONE /\ t.parallel[q] = NONE
      /\ t.offered[q] = NONE
  BY <1>2, <1>3, <1>4 DEF SameOrder
<1> QED
  BY <1>5, <1>6, <1>7

\* A reserved order of a driver who rides.
LEMMA ReleaseReaches ==
  ASSUME NEW s, AtRest(s), NEW q \in Orders, s.status[q] = "parallel_assigned",
         NEW t, t = Release(s, q)
  PROVE  /\ AtRest(t) /\ Reaches(s, t) /\ SameDrivers(s, t)
         /\ \A p \in Orders \ {q} : SameOrder(s, t, p)
         /\ t.status[q] = "queued" /\ t.driver[q] = NONE /\ t.parallel[q] = NONE
         /\ t.offered[q] = NONE
<1>1. Orderly(s) /\ Good(s) /\ s.offered[q] = NONE
  BY AtRestRows DEF Orderly, Fits
<1>2. /\ Good(t) /\ SameDrivers(s, t) /\ \A p \in Orders \ {q} : SameOrder(s, t, p)
      /\ t.status[q] = "queued" /\ t.driver[q] = NONE /\ t.parallel[q] = NONE
      /\ t.offered[q] = NONE
  BY <1>1, ReleaseEdits
<1>3. Orderly(t)
  BY <1>1, <1>2, OpenOrderly DEF Riding
<1>4. AtRest(t)
  BY <1>2, <1>3 DEF AtRest, Settled, SameOrder
<1>5. Reaches(s, t)
  BY <1>2, <1>4 DEF Reaches, Goes, SameOrder, Pending, Candidate, Closed, Riding
<1> QED
  BY <1>2, <1>4, <1>5

\* The ride of d ends, or its order is dispatched again, and d goes away.
CarLeft(s, t, d) ==
    /\ AtRest(t)
    /\ \A p \in Orders :
         \/ Goes(s, t, p)
         \/ /\ s.status[p] \in Riding /\ s.driver[p] = d
            /\ t.status[p] \in Closed \cup Pending /\ t.offered[p] # d

LEMMA FirstLike ==
  ASSUME NEW s, Good(s), NEW o \in Orders
  PROVE  LET t == [s EXCEPT !.deadline[o] = FALSE] IN Likewise(s, t) /\ SameDrivers(s, t)
<1> DEFINE t == [s EXCEPT !.deadline[o] = FALSE]
<1>1. /\ t.status = s.status /\ t.offered = s.offered /\ t.driver = s.driver
      /\ t.parallel = s.parallel /\ t.declined = s.declined
      /\ t.row = s.row /\ t.dstat = s.dstat /\ t.online = s.online
      /\ t.address = s.address /\ t.chatcard = s.chatcard
  BY DEF Good, Rows
<1> HIDE DEF t
<1>2. Likewise(s, t) /\ SameDrivers(s, t)
  BY <1>1, ColumnsSameDrivers DEF Likewise, SameOrder, Calm
<1> QED
  BY <1>2 DEF t

\* The order of the driver who left, cancelled or open again.
LeftCancelled(r, d, o) ==
    [LeaveQueue(Close(r, o, "cancelled"), d) EXCEPT !.online[d] = FALSE, !.driver[o] = d]
LeftOpen(r, o) == [r EXCEPT !.driver[o] = NONE, !.status[o] = "searching"]

LEMMA LeftOrder ==
  ASSUME NEW r, Good(r), NEW d \in Drivers, NEW o \in Orders, r.offered[o] = NONE,
         r.parallel[o] = NONE, r.status[o] # "unborn"
  PROVE  /\ LET t == LeftCancelled(r, d, o)
            IN /\ Edit(r, t, o, d) /\ t.status[o] = "cancelled" /\ t.driver[o] = d
               /\ t.parallel[o] = NONE /\ t.offered[o] = NONE
         /\ LET t == LeftOpen(r, o)
            IN /\ Edit(r, t, o, d) /\ t.status[o] = "searching" /\ t.driver[o] = NONE
               /\ t.parallel[o] = NONE /\ t.offered[o] = NONE
<1> DEFINE c == Close(r, o, "cancelled")
           l == [LeaveQueue(c, d) EXCEPT !.online[d] = FALSE]
           t == LeftCancelled(r, d, o)
           a == LeftOpen(r, o)
<1>1. Edit(r, c, o, d) /\ Shut(r, c, o, "cancelled") /\ Good(c)
  BY CloseEdits DEF Edit, Keeps, Closed
<1> HIDE DEF c
<1>2. Moves(c, l, d)
  BY <1>1, DriverMoves
<1>3. /\ Edit(r, l, o, d) /\ Good(l) /\ l.status[o] = "cancelled" /\ l.driver[o] = NONE
      /\ l.offered[o] = NONE /\ l.parallel[o] = NONE
  <2>1. Edit(r, c, o, d) /\ Moves(c, l, d) /\ o \in Orders
    BY <1>1, <1>2
  <2>2. Edit(r, l, o, d) /\ Good(l) /\ SameOrder(c, l, o)
    BY <2>1, EditMoves
  <2> QED
    BY <1>1, <2>2 DEF Shut, SameOrder
<1>4. c \in Rows /\ l \in Rows
  BY <1>1, <1>3 DEF Good
<1>5. LeaveQueue(c, d).driver = c.driver
  BY <1>4, Zenon DEF LeaveQueue, Rows
<1>6. t = [l EXCEPT !.driver[o] = d]
  BY <1>5 DEF LeftCancelled, c
<1> HIDE DEF l, t
<1>7. /\ t \in Rows /\ t.driver = [l.driver EXCEPT ![o] = d] /\ DOMAIN l.driver = Orders
      /\ t.status = l.status /\ t.offered = l.offered /\ t.parallel = l.parallel
      /\ t.declined = l.declined /\ t.row = l.row /\ t.dstat = l.dstat /\ t.online = l.online
      /\ t.address = l.address /\ t.chatcard = l.chatcard
  BY <1>4, <1>6, ZenonT(40) DEF Rows
<1>8. /\ \A p \in Orders \ {o} : SameOrder(l, t, p)
      /\ t.status[o] = "cancelled" /\ t.driver[o] = d
      /\ t.parallel[o] = NONE /\ t.offered[o] = NONE
  BY <1>3, <1>7 DEF SameOrder
<1>9. Keeps(l, t)
  BY <1>3, <1>7, <1>8, OneOrderKeeps DEF SameOrder
<1>10. Beside(l, t, d)
  <2>1. Calm(l, t)
    BY <1>7 DEF Calm
  <2> QED
    BY <1>7, <2>1, ColumnsSameDrivers, SameDriversBeside
<1>11. Edit(l, t, o, d)
  BY <1>8, <1>9, <1>10 DEF Edit
<1>12. Edit(r, t, o, d)
  BY <1>3, <1>11, EditTrans
<1>13. r \in Rows /\ "searching" \in Statuses
  BY StatusValues DEF Good
<1>14. /\ a \in Rows /\ a.driver = [r.driver EXCEPT ![o] = NONE] /\ DOMAIN r.driver = Orders
       /\ a.status = [r.status EXCEPT ![o] = "searching"] /\ DOMAIN r.status = Orders
       /\ a.offered = r.offered /\ a.parallel = r.parallel /\ a.declined = r.declined
       /\ a.row = r.row /\ a.dstat = r.dstat /\ a.online = r.online
       /\ a.address = r.address /\ a.chatcard = r.chatcard
  BY <1>13 DEF Rows, LeftOpen
<1> HIDE DEF a
<1>15. /\ \A p \in Orders \ {o} : SameOrder(r, a, p)
       /\ a.status[o] = "searching" /\ a.driver[o] = NONE
       /\ a.parallel[o] = NONE /\ a.offered[o] = NONE
  BY <1>14 DEF SameOrder
<1>16. Keeps(r, a)
  BY <1>14, <1>15, OneOrderKeeps DEF SameOrder
<1>17. Beside(r, a, d)
  <2>1. Calm(r, a)
    BY <1>14 DEF Calm
  <2> QED
    BY <1>14, <2>1, ColumnsSameDrivers, SameDriversBeside
<1>18. Edit(r, a, o, d)
  BY <1>15, <1>16, <1>17 DEF Edit
<1> QED
  BY <1>8, <1>12, <1>15, <1>18 DEF t, a

LEMMA CancelForCarReaches ==
  ASSUME AtRest(db), NEW d \in Drivers, CancelForCar(d)  PROVE CarLeft(db, db', d)
<1> DEFINE o == ActiveRide(db, d)
           q == Reserved(db, d)
           first == [db EXCEPT !.deadline[o] = FALSE]
           f == Release(first, q)
           Released == IF q = NONE THEN {first} ELSE Promotes(f, f)
           Again(r) == OfferNext(SetAway(LeftOpen(r, o), d), o, {})
<1>1. Begin(d) = db /\ Good(db) /\ Orderly(db) /\ db \in Rows
  BY BeginsAsIs, AtRestRows
<1>2. OnRide(db, d) /\ \E r \in Released :
        \/ db' = SetAway(LeftCancelled(r, d, o), d)
        \/ \E u \in Promotes(Again(r), Again(r)) : db' = SetAway(u, d)
  BY <1>1, Zenon DEF CancelForCar, LeftCancelled, LeftOpen
<1>3. /\ o \in Orders /\ Rides(db, d, o) /\ db.status[o] # "unborn" /\ db.driver[o] = d
      /\ db.parallel[o] = NONE /\ db.offered[o] = NONE
      /\ q = NONE => Spare(db, d, o)
  BY <1>1, <1>2, OnRideRides
<1> HIDE DEF o
<1>4. PICK r \in Released :
        \/ db' = SetAway(LeftCancelled(r, d, o), d)
        \/ \E u \in Promotes(Again(r), Again(r)) : db' = SetAway(u, d)
  BY <1>2
<1>5. /\ Likewise(db, first) /\ SameDrivers(db, first) /\ Good(first)
  BY <1>1, <1>3, FirstLike, DeadlineKeeps, GoodRows
<1> HIDE DEF first, f
<1>6. AtRest(first) /\ Orderly(first)
  BY <1>1, <1>5, SameDriversOrderly, LikewiseGoes DEF AtRest
<1> HIDE DEF q
<1>7. /\ AtRest(r) /\ SameOrder(db, r, o) /\ Spare(r, d, o)
      /\ \A p \in Orders \ {o} :
           \/ SameOrder(db, r, p)
           \/ /\ db.status[p] \notin Closed \cup Riding /\ r.status[p] \in Pending
              /\ db.offered[p] = NONE /\ db.parallel[p] \in {NONE, d}
  <2>1. CASE q = NONE
    <3>1. r = first
      BY <2>1
    <3>2. \A p \in Orders : SameOrder(db, r, p)
      BY <1>5, <3>1 DEF Likewise
    <3> QED
      BY <1>3, <1>6, <2>1, <3>1, <3>2 DEF Spare, SameOrder
  <2>2. CASE q # NONE
    <3>1. /\ q \in Orders \ {o} /\ db.status[q] = "parallel_assigned" /\ db.driver[q] = d
          /\ db.parallel[q] = d /\ r \in Promotes(f, f)
      BY <1>1, <1>3, <2>2, ReservedIn DEF q, Rides, Riding, Orderly, Fits
    <3>2. first.status[q] = "parallel_assigned"
      BY <1>5, <3>1 DEF Likewise, SameOrder
    <3>3. /\ AtRest(f) /\ \A p \in Orders \ {q} : SameOrder(first, f, p)
          /\ f.status[q] = "queued" /\ f.driver[q] = NONE /\ f.parallel[q] = NONE
          /\ f.offered[q] = NONE
      BY <1>6, <3>1, <3>2, ReleaseReaches DEF f
    <3>4. AtRest(r) /\ Advances(f, r) /\ Orderly(r)
      BY <3>1, <3>3, PromotesSelfAtRest, AtRestRows
    <3>5. /\ \A p \in Orders \ {q} : SameOrder(db, f, p)
          /\ f.status[o] \in Riding
      BY <1>3, <1>5, <3>1, <3>3 DEF Likewise, SameOrder, Rides
    <3>6. SameOrder(db, r, o)
      <4>1. SameOrder(db, f, o) /\ f.status[o] \notin Pending
        BY <1>3, <3>1, <3>5 DEF Pending, Candidate, Riding
      <4>2. SameOrder(f, r, o)
        BY <1>3, <3>4, <4>1 DEF Advances, SameOrder
      <4> QED
        BY <4>1, <4>2 DEF SameOrder
    <3>7. \A p \in Orders \ {q} : db.offered[p] # d /\ r.driver[p] = db.driver[p]
      BY <1>1, <1>3, <3>4, <3>5, NoneAssumption DEF Advances, SameOrder, Rides, Orderly, Fits
    <3>8. \A p \in Orders : r.offered[p] # d
      BY <1>3, <3>4, <3>6, NoneAssumption DEF Rides, Orderly, Fits, SameOrder
    <3>9. \A p \in Orders \ {o, q} : db.driver[p] = d => db.status[p] = "cancelled"
      BY <1>1, <1>3, <3>1 DEF Rides, Orderly, Single, Fits
    <3>10. \A p \in Orders \ {o, q} : db.status[p] = "cancelled" => r.status[p] = "cancelled"
      BY <3>4, <3>5 DEF Advances, SameOrder, Pending, Candidate
    <3>11. r.driver[q] = NONE /\ r.status[q] \in Pending /\ db.offered[q] = NONE
      BY <1>1, <3>1, <3>3, <3>4 DEF Advances, Pending, Candidate, Orderly, Fits
    <3>12. Spare(r, d, o)
      BY <3>7, <3>8, <3>9, <3>10, <3>11, NoneAssumption DEF Spare
    <3>13. ASSUME NEW p \in Orders \ {o}
           PROVE  \/ SameOrder(db, r, p)
                  \/ /\ db.status[p] \notin Closed \cup Riding /\ r.status[p] \in Pending
                     /\ db.offered[p] = NONE /\ db.parallel[p] \in {NONE, d}
      <4>1. CASE p = q
        BY <3>1, <3>11, <4>1, NoneAssumption DEF Closed, Riding
      <4>2. CASE p # q
        BY <3>4, <3>5, <3>7, <4>2 DEF Advances, SameOrder, Pending, Candidate, Closed, Riding
      <4> QED
        BY <4>1, <4>2
    <3> QED
      BY <3>4, <3>6, <3>12, <3>13
  <2> QED
    BY <2>1, <2>2
<1>8. Good(r) /\ Orderly(r) /\ r.status[o] \in Riding /\ r.driver[o] = d
      /\ r.parallel[o] = NONE /\ r.offered[o] = NONE /\ r.status[o] # "unborn"
  BY <1>3, <1>7, AtRestRows DEF SameOrder, Rides
<1>9. ASSUME NEW t, AtRest(t), \A p \in Orders : t.offered[p] # d,
             t.status[o] \in Closed \cup Pending,
             \A p \in Orders \ {o} :
               \/ SameOrder(r, t, p)
               \/ /\ r.status[p] \in Pending /\ r.offered[p] = NONE /\ r.driver[p] = NONE
                  /\ r.parallel[p] = NONE /\ t.status[p] \in Pending
                  /\ t.driver[p] = NONE /\ t.parallel[p] = NONE
      PROVE  CarLeft(db, t, d)
  <2> SUFFICES ASSUME NEW p \in Orders \ {o}  PROVE Goes(db, t, p)
    BY <1>3, <1>9 DEF CarLeft, Rides
  <2>1. CASE SameOrder(db, r, p) /\ SameOrder(r, t, p)
    BY <2>1 DEF SameOrder, Goes
  <2>2. CASE SameOrder(db, r, p) /\ ~SameOrder(r, t, p)
    <3>1. /\ db.status[p] \in Pending /\ db.offered[p] = NONE /\ db.parallel[p] = NONE
          /\ t.status[p] \in Pending
      BY <1>9, <2>2 DEF SameOrder
    <3> QED
      BY <3>1 DEF Goes, Pending, Candidate, Closed, Riding
  <2>3. CASE ~SameOrder(db, r, p)
    <3>1. /\ db.status[p] \notin Closed \cup Riding /\ t.status[p] \in Pending
          /\ db.offered[p] = NONE /\ db.parallel[p] \in {NONE, d}
      BY <1>7, <1>9, <2>3 DEF SameOrder
    <3> QED
      BY <1>9, <3>1 DEF Goes
  <2> QED
    BY <2>1, <2>2, <2>3
<1>10. CASE db' = SetAway(LeftCancelled(r, d, o), d)
  <2> DEFINE t == LeftCancelled(r, d, o)
  <2>1. Edit(r, t, o, d) /\ t.status[o] = "cancelled" /\ t.driver[o] = d
        /\ t.parallel[o] = NONE /\ t.offered[o] = NONE
    BY <1>3, <1>8, LeftOrder
  <2>2. db' = SetAway(t, d)
    BY <1>10
  <2> HIDE DEF t
  <2>3. Moves(t, db', d)
    BY <2>1, <2>2, DriverMoves DEF Edit, Keeps
  <2>4. /\ Edit(r, db', o, d) /\ db'.status[o] = "cancelled" /\ db'.driver[o] = d
        /\ db'.parallel[o] = NONE /\ db'.offered[o] = NONE
    <3>1. Edit(r, t, o, d) /\ Moves(t, db', d) /\ o \in Orders
      BY <1>3, <2>1, <2>3
    <3>2. Edit(r, db', o, d) /\ SameOrder(t, db', o)
      BY <3>1, EditMoves
    <3> QED
      BY <2>1, <3>2 DEF SameOrder
  <2>5. Reaches(r, db')
    BY <1>3, <1>7, <1>8, <2>4, ClosedReaches DEF Closed, Riding
  <2>6. Spare(db', d, NONE)
    BY <1>3, <1>7, <2>4, EndsSpare, NoneAssumption
  <2>7. AtRest(db') /\ \A p \in Orders : db'.offered[p] # d
    BY <2>5, <2>6, NoneAssumption DEF Reaches, Spare
  <2>8. db'.status[o] \in Closed \cup Pending
    BY <2>4 DEF Closed
  <2>9. \A p \in Orders \ {o} : SameOrder(r, db', p)
    BY <2>4 DEF Edit
  <2> QED
    BY <1>9, <2>7, <2>8, <2>9
<1>11. CASE \E u \in Promotes(Again(r), Again(r)) : db' = SetAway(u, d)
  <2> DEFINE a == LeftOpen(r, o)
             b == SetAway(a, d)
             n == OfferNext(b, o, {})
  <2>1. PICK u \in Promotes(n, n) : db' = SetAway(u, d)
    BY <1>11
  <2>2. Edit(r, a, o, d) /\ a.status[o] = "searching" /\ a.driver[o] = NONE
        /\ a.parallel[o] = NONE /\ a.offered[o] = NONE
    BY <1>3, <1>8, LeftOrder
  <2> HIDE DEF a
  <2>3. Good(a) /\ a \in Rows
    BY <2>2 DEF Edit, Keeps, Good
  <2>4. Moves(a, b, d) /\ b.dstat[d] = "away"
    BY <2>3, DriverMoves, DriversBeside
  <2> HIDE DEF b
  <2>5. /\ Edit(r, b, o, d) /\ b.status[o] = "searching" /\ b.driver[o] = NONE
        /\ b.parallel[o] = NONE /\ b.offered[o] = NONE
    BY <1>3, <2>2, <2>4, EditMoves DEF SameOrder
  <2>6. Orderly(b)
    BY <1>3, <1>7, <1>8, <2>5, FreedOrderly DEF Edit, Keeps, Riding
  <2>7. Orderly(n) /\ Advances(b, n) /\ Settled(n, o)
    BY <1>3, <2>5, <2>6, OfferNextOrderly DEF Pending
  <2> HIDE DEF n
  <2>8. \A p \in Orders : Settled(n, p)
    BY <1>7, <2>5, <2>7 DEF AtRest, Settled, Advances, Edit, SameOrder
  <2>9. AtRest(n)
    BY <2>7, <2>8 DEF AtRest
  <2>10. AtRest(u) /\ Advances(n, u) /\ Orderly(u) /\ Good(u)
    BY <2>1, <2>9, PromotesSelfAtRest, AtRestRows
  <2>11. Advances(b, u)
    BY <2>7, <2>10, AdvancesTrans
  <2>12. Spare(b, d, NONE)
    BY <1>3, <1>7, <2>5, EndsSpare, NoneAssumption
  <2>13. Spare(u, d, NONE)
    BY <2>4, <2>10, <2>11, <2>12, SpareStays
  <2>14. Moves(u, db', d)
    BY <2>1, <2>10, DriverMoves
  <2>15. AtRest(db')
    BY <2>10, <2>13, <2>14, SpareReaches
  <2>16. Likewise(u, db')
    BY <2>14 DEF Moves
  <2>17. \A p \in Orders : db'.offered[p] # d
    BY <2>13, <2>16, NoneAssumption DEF Spare, Likewise, SameOrder
  <2>18. ASSUME NEW p \in Orders \ {o}
         PROVE  \/ SameOrder(r, db', p)
                \/ /\ r.status[p] \in Pending /\ r.offered[p] = NONE /\ r.driver[p] = NONE
                   /\ r.parallel[p] = NONE /\ db'.status[p] \in Pending
                   /\ db'.driver[p] = NONE /\ db'.parallel[p] = NONE
    BY <2>5, <2>11, <2>16 DEF Edit, SameOrder, Likewise, Advances
  <2>19. db'.status[o] \in Closed \cup Pending
    BY <1>3, <2>5, <2>11, <2>16 DEF Advances, Likewise, SameOrder, Pending
  <2> QED
    BY <1>9, <2>15, <2>17, <2>18, <2>19
<1> QED
  BY <1>4, <1>10, <1>11

(***************************************************************************)
(* The creators                                                            *)
(***************************************************************************)
\* An order is open for dispatch again, and a driver is looked for.
LEMMA OpenedReaches ==
  ASSUME NEW s, AtRest(s), NEW t, NEW o \in Orders, \A p \in Orders \ {o} : SameOrder(s, t, p),
         s.status[o] \notin Closed \cup Riding, t.status[o] \in Pending,
         NEW u, Orderly(u), Advances(t, u), Settled(u, o),
         u.offered[o] # NONE => u.offered[o] \notin {s.offered[o], s.parallel[o]}
  PROVE  Reaches(s, u)
<1>1. ASSUME NEW p \in Orders \ {o}  PROVE Settled(u, p) /\ Goes(s, u, p)
  <2>1. SameOrder(s, t, p) /\ Settled(t, p)
    BY DEF AtRest, Settled, SameOrder
  <2> QED
    BY <2>1, SameOrderGoes DEF Advances
<1>2. u.status[o] \in Pending
  BY DEF Advances
<1>3. Goes(s, u, o)
  BY <1>2 DEF Goes
<1> QED
  BY <1>1, <1>3 DEF Reaches, AtRest

LEMMA CreateReaches ==
  ASSUME AtRest(db), NEW o \in Orders, CreateOrder(o) \/ DispCreate(o)  PROVE Reaches(db, db')
<1> DEFINE b == [db EXCEPT !.status[o] = "created"]
           e == [db EXCEPT !.status[o] = "created", !.deadline[o] = TRUE]
<1>1. Orderly(db) /\ Good(db) /\ db \in Rows
  BY AtRestRows
<1>0. PICK a \in {b, e} : db.status[o] = "unborn" /\ db' = OfferNext(ResetCreator(a, o), o, {})
  BY Zenon DEF CreateOrder, DispCreate
<1> DEFINE s == ResetCreator(a, o)
<1>2. db.status[o] = "unborn" /\ db' = OfferNext(s, o, {})
  BY <1>0
<1>3. db.driver[o] = NONE /\ db.parallel[o] = NONE /\ db.offered[o] = NONE
  BY <1>1, <1>2 DEF Orderly, Fits, Riding
<1>4. Good(a)
  <2>1. Good(b)
    BY <1>1, StatusKeeps, StatusValues, GoodRows
  <2>2. e = [b EXCEPT !.deadline[o] = TRUE]
    BY <1>1 DEF Rows
  <2> HIDE DEF b, e
  <2>3. e \in Rows /\ e.status = b.status /\ e.offered = b.offered /\ e.driver = b.driver
        /\ e.parallel = b.parallel
    BY <2>1, <2>2 DEF Good, Rows
  <2>4. Good(e)
    BY <2>1, <2>3, SameIsGood DEF Keeps
  <2> QED
    BY <1>0, <2>1, <2>4
<1>5. /\ a.status = [db.status EXCEPT ![o] = "created"] /\ DOMAIN db.status = Orders
      /\ a.driver = db.driver /\ a.parallel = db.parallel /\ a.offered = db.offered
      /\ a.declined = db.declined /\ a.row = db.row /\ a.dstat = db.dstat
      /\ a.online = db.online /\ a.address = db.address /\ a.chatcard = db.chatcard
      /\ a \in Rows
  <2>1. CASE a = b
    BY <1>1, <1>4, <2>1 DEF Good, Rows
  <2>2. CASE a = e
    BY <1>1, <1>4, <2>2 DEF Good, Rows
  <2> QED
    BY <2>1, <2>2
<1> HIDE DEF b, e
<1>6. SameDrivers(db, a)
  BY <1>5, ColumnsSameDrivers DEF Calm
<1>7. /\ \A p \in Orders \ {o} : SameOrder(db, a, p)
      /\ a.status[o] = "created" /\ a.driver[o] = NONE /\ a.parallel[o] = NONE
      /\ a.offered[o] = NONE
  BY <1>3, <1>5 DEF SameOrder
<1>8. Good(s) /\ SameOrders(a, s) /\ SameDrivers(a, s)
  BY <1>4, <1>5, ResetCreatorGood, GoodRows, CreatorsPark, OrdersSameDrivers
<1> HIDE DEF s
<1>9. SameDrivers(db, s)
  BY <1>6, <1>8, SameDriversTrans DEF SameOrders, SameOrder
<1>10. /\ \A p \in Orders \ {o} : SameOrder(db, s, p)
       /\ s.status[o] = "created" /\ s.driver[o] = NONE /\ s.parallel[o] = NONE
       /\ s.offered[o] = NONE
  BY <1>7, <1>8 DEF SameOrders, SameOrder
<1>11. Orderly(s)
  BY <1>1, <1>2, <1>8, <1>9, <1>10, OpenOrderly DEF Riding
<1>12. s.status[o] \in Pending
  BY <1>10 DEF Pending, Candidate
<1>13. Orderly(db') /\ Advances(s, db') /\ Settled(db', o)
  BY <1>2, <1>10, <1>11, <1>12, OfferNextOrderly
<1> QED
  BY <1>2, <1>3, <1>10, <1>12, <1>13, OpenedReaches DEF Closed, Riding

\* The driver of a cancelled ride is free in place, or goes on to the reserved order.
LEMMA RelieveReaches ==
  ASSUME NEW s, AtRest(s), NEW d \in Drivers, NEW o \in Orders, Rides(s, d, o),
         NEW t, Edit(s, t, o, d), SameDrivers(s, t), t.status[o] \in Closed, t.driver[o] = NONE,
         t.offered[o] = NONE, t.parallel[o] = NONE,
         NEW u, u = Relieve(s, t, d)
  PROVE  /\ Reaches(s, u) /\ Idle(s) \subseteq Idle(u)
         /\ \A p \in Orders : SameOrder(s, u, p) \/ (Goes(s, u, p) /\ u.status[p] \notin Pending)
<1>1. Orderly(s) /\ s.status[o] # "unborn" /\ s.row[d] \in {"assigned", "none"}
      /\ s.driver[o] = d /\ d \notin Idle(s)
  BY AtRestRows, Busy DEF Rides, Riding, Orderly, Fits
<1>2. CASE Reserved(s, d) # NONE
  <2> DEFINE q == Reserved(s, d)
  <2>1. u = PromoteAfter(s, t, d) /\ t.row[d] \in {"assigned", "none"}
    BY <1>1, <1>2 DEF Relieve, SameDrivers, SameDriver
  <2>2. /\ Reaches(s, u) /\ Idle(s) \subseteq Idle(u)
        /\ u.status[q] = "assigned" /\ u.status[o] \in Closed
        /\ \A p \in Orders \ {o, q} : SameOrder(s, u, p)
    BY <1>2, <2>1, PassedOn
  <2>3. u.status[q] \notin Pending /\ u.status[o] \notin Pending
    BY <2>2 DEF Pending, Candidate, Closed
  <2> QED
    BY <2>2, <2>3 DEF Reaches
<1>3. CASE Reserved(s, d) = NONE
  <2>1. u = RestorePosition(t, d) /\ Good(t) /\ Spare(s, d, o)
    BY <1>1, <1>3, RiderIsSpare DEF Relieve, Edit, Keeps
  <2>2. Moves(t, u, d)
    BY <2>1, DriverMoves
  <2>3. Edit(s, u, o, d) /\ SameOrder(t, u, o)
    BY <2>2, EditMoves
  <2>4. /\ u.status[o] \in Closed /\ u.driver[o] = NONE /\ u.offered[o] = NONE
        /\ u.parallel[o] = NONE
    BY <2>3 DEF SameOrder
  <2>5. Reaches(s, u)
    BY <1>1, <2>1, <2>3, <2>4, ClosedReaches
  <2>6. Idle(s) \subseteq Idle(u)
    BY <1>1, <2>3, <2>4, <2>5, StillIdle DEF Reaches, AtRest
  <2>7. u.status[o] \notin Pending
    BY <2>4 DEF Pending, Candidate, Closed
  <2> QED
    BY <2>3, <2>5, <2>6, <2>7 DEF Edit, Reaches
<1> QED
  BY <1>2, <1>3

\* Nobody's order is cancelled.
LEMMA OpenCancelled ==
  ASSUME NEW s, AtRest(s), NEW o \in Orders, s.status[o] \notin Closed \cup Riding \cup {"unborn"},
         s.offered[o] = NONE, NEW t, Edit(s, t, o, NONE), SameDrivers(s, t),
         t.status[o] = "cancelled", t.driver[o] = NONE, t.offered[o] = NONE, t.parallel[o] = NONE
  PROVE  /\ Reaches(s, t)
         /\ \A v \in {s, t} : \A u \in Promotes(v, t) : Reaches(s, u)
<1>1. t.status[o] \in Closed
  BY DEF Closed
<1>2. Reaches(s, t)
  BY <1>1, ClosedReaches
<1>3. NONE \notin Idle(s)
  BY NoneAssumption DEF Idle
<1>4. ASSUME NEW v \in {s, t}, NEW u \in Promotes(v, t)  PROVE Reaches(s, u)
  BY <1>1, <1>2, <1>3, ClosedThenPromotes
<1> QED
  BY <1>2, <1>4

\* The order on a driver's screen is cancelled, the driver is released.
Withdrawn(s, o, d) == [ReleaseOffer(s, d) EXCEPT !.offered[o] = NONE]

LEMMA WithdrawnStatus ==
  ASSUME NEW s, Good(s), NEW o \in Orders, NEW d \in Drivers
  PROVE  Good(Withdrawn(s, o, d)) /\ Withdrawn(s, o, d).status[o] = s.status[o]
<1> DEFINE m == ReleaseOffer(s, d)
           n == [m EXCEPT !.offered[o] = NONE]
<1>1. Good(m) /\ Likewise(s, m)
  BY DriverMoves, Zenon DEF Moves, Keeps
<1> HIDE DEF m
<1>2. Good(n) /\ n.status[o] = m.status[o]
  BY <1>1, ClearEdits, Zenon DEF Edit, Keeps
<1>3. Withdrawn(s, o, d) = n
  BY DEF m, Withdrawn
<1> QED
  BY <1>1, <1>2, <1>3 DEF Likewise, SameOrder

LEMMA WithdrawnReaches ==
  ASSUME NEW s, AtRest(s), NEW o \in Orders, NEW d, d = s.offered[o], d # NONE,
         NEW c, Edit(s, c, o, d), Shut(s, c, o, "cancelled"), NEW t, t = Withdrawn(c, o, d)
  PROVE  /\ Reaches(s, t)
         /\ \A u \in Promotes(s, t) : Reaches(s, u)
<1>1. /\ d \in Drivers \ Idle(s) /\ Spare(s, d, o) /\ s.status[o] = "searching"
      /\ s.driver[o] = NONE /\ s.parallel[o] = NONE
  BY AtRestRows, Busy
<1>2. Good(c)
  BY DEF Edit, Keeps
<1> DEFINE r == ReleaseOffer(c, d)
<1>3. Moves(c, r, d)
  BY <1>1, <1>2, DriverMoves
<1> DEFINE w == [r EXCEPT !.offered[o] = NONE]
<1>4. t = w
  BY DEF Withdrawn
<1> HIDE DEF r
<1>5. Edit(s, r, o, d) /\ Good(r) /\ SameOrder(c, r, o)
  BY <1>3, EditMoves
<1>12. /\ Edit(r, w, o, d) /\ w.offered[o] = NONE /\ w.status[o] = r.status[o]
       /\ w.driver[o] = r.driver[o] /\ w.parallel[o] = r.parallel[o]
  BY <1>5, ClearEdits, Zenon
<1> HIDE DEF w
<1>6. /\ Edit(r, t, o, d) /\ t.offered[o] = NONE /\ t.status[o] = r.status[o]
      /\ t.driver[o] = r.driver[o] /\ t.parallel[o] = r.parallel[o]
  BY <1>4, <1>12
<1>7. Edit(s, t, o, d)
  BY <1>5, <1>6, EditTrans
<1>8. t.status[o] \in Closed /\ t.driver[o] = NONE /\ t.parallel[o] = NONE
  BY <1>1, <1>5, <1>6 DEF Shut, SameOrder, Closed
<1>9. s.status[o] \notin Riding /\ s.status[o] # "unborn"
  BY <1>1 DEF Riding
<1>10. Reaches(s, t)
  BY <1>1, <1>6, <1>7, <1>8, <1>9, ClosedReaches
<1>11. ASSUME NEW u \in Promotes(s, t)  PROVE Reaches(s, u)
  BY <1>1, <1>6, <1>7, <1>8, <1>10, ClosedThenPromotes
<1> QED
  BY <1>10, <1>11

LEMMA PassengerCancelReaches ==
  ASSUME AtRest(db), NEW c \in Creators, PassengerCancel(c)  PROVE Reaches(db, db')
<1> DEFINE o == OrderOf(db, c)
           d == db.driver[o]
           off == db.offered[o]
           s == Dequeue(CloseFor(db, o, "cancelled"), o)
           free == [s EXCEPT !.parallel[o] = NONE, !.driver[o] = NONE]
           u == Relieve(db, s, d)
<1>1. Orderly(db) /\ Good(db) /\ db \in Rows
  BY AtRestRows
<1>2. /\ o \in Orders
      /\ db.status[o] \in Riding \cup {"created", "queued", "searching", "chat_search",
                                       "parallel_assigned"}
  BY NewestIn, Zenon DEF PassengerCancel, OrderOf
<1>3. IF d = NONE THEN db' \in Promotes(db, IF off = NONE THEN s ELSE Withdrawn(s, o, off))
      ELSE IF db.parallel[o] # NONE THEN db' \in Promotes(db, free)
      ELSE \E v \in {db, u} : db' \in Promotes(v, u)
  BY DEF PassengerCancel, Withdrawn
<1> HIDE DEF o
<1>4. SameDrivers(db, s) /\ Shut(db, s, o, "cancelled") /\ \A e : Edit(db, s, o, e)
  BY <1>1, <1>2, CancelEdits
<1>5. Good(s)
  BY <1>4 DEF Edit, Keeps
<1>6. /\ d = NONE => db.status[o] \notin Riding /\ db.parallel[o] = NONE
      /\ d # NONE => off = NONE
      /\ db.parallel[o] # NONE => db.status[o] = "parallel_assigned"
      /\ d # NONE /\ db.parallel[o] = NONE => Rides(db, d, o)
  BY <1>1, <1>2 DEF Orderly, Good, Fits, Rides
<1>7. d \in Drivers \cup {NONE} /\ db.status[o] \notin Closed \cup {"unborn"}
  BY <1>1, <1>2, OrderlyRows DEF Closed, Riding
<1>8. s.status[o] = "cancelled" /\ s.driver[o] = NONE
  BY <1>4 DEF Shut
<1> HIDE DEF s
<1>9. CASE d = NONE /\ off = NONE
  <2>1. s.offered[o] = NONE /\ s.parallel[o] = NONE
    BY <1>4, <1>6, <1>9 DEF Shut
  <2> QED
    BY <1>2, <1>3, <1>4, <1>6, <1>7, <1>8, <1>9, <2>1, OpenCancelled
<1>10. CASE d = NONE /\ off # NONE
  BY <1>2, <1>3, <1>4, <1>10, WithdrawnReaches
<1>11. CASE d # NONE /\ db.parallel[o] # NONE
  <2>1. /\ Edit(s, free, o, NONE) /\ SameDrivers(s, free) /\ free.offered[o] = s.offered[o]
        /\ free.status[o] = s.status[o] /\ free.driver[o] = NONE /\ free.parallel[o] = NONE
    BY <1>2, <1>5, ClearEdits, Zenon
  <2> HIDE DEF free
  <2>2. Edit(db, free, o, NONE)
    BY <1>4, <2>1, EditTrans
  <2>3. \A p \in Orders : s.status[p] # "unborn" => free.status[p] # "unborn"
    BY <2>1 DEF Edit, SameOrder
  <2>4. SameDrivers(db, free)
    BY <1>4, <2>1, <2>3, SameDriversTrans
  <2>5. free.offered[o] = NONE /\ off = NONE
    BY <1>4, <1>6, <1>11, <2>1 DEF Shut
  <2>6. db.status[o] \notin Riding
    BY <1>6, <1>11 DEF Riding
  <2> QED
    BY <1>2, <1>3, <1>7, <1>8, <1>11, <2>1, <2>2, <2>4, <2>5, <2>6, OpenCancelled
<1>12. CASE d # NONE /\ db.parallel[o] = NONE
  <2>1. PICK v \in {db, u} : db' \in Promotes(v, u)
    BY <1>3, <1>12
  <2>2. s.offered[o] = NONE /\ s.parallel[o] = NONE /\ s.status[o] \in Closed
    BY <1>4, <1>6, <1>8, <1>12 DEF Shut, Closed
  <2>3. /\ Reaches(db, u) /\ Idle(db) \subseteq Idle(u)
        /\ \A p \in Orders : SameOrder(db, u, p) \/ (Goes(db, u, p) /\ u.status[p] \notin Pending)
    BY <1>2, <1>4, <1>6, <1>7, <1>8, <1>12, <2>2, RelieveReaches
  <2> HIDE DEF u
  <2>4. AtRest(u) /\ v \in Rows
    BY <1>1, <2>3, AtRestRows DEF Reaches
  <2>5. AtRest(db') /\ Advances(u, db')
    BY <2>1, <2>3, <2>4, PromotesAtRest
  <2> QED
    BY <2>3, <2>5, ThenAdvances
<1> QED
  BY <1>9, <1>10, <1>11, <1>12

\* Without reservations a dispatcher's order that is cancelled stays so.
LEMMA DispCancelReaches ==
  ASSUME AtRest(db), Reserves(db), ParallelUsers = {}, NEW o \in Orders, DispCancel(o)
  PROVE  Reaches(db, db') /\ db'.status[o] = "cancelled"
<1> DEFINE d == db.driver[o]
           off == db.offered[o]
           s == Dequeue(Close(db, o, "cancelled"), o)
           u == Relieve(db, s, d)
<1>1. Orderly(db) /\ Good(db) /\ db \in Rows
  BY AtRestRows
<1>2. \A p \in Orders : db.status[p] # "parallel_assigned"
  BY DEF Reserves
<1>3. db.status[o] \in Riding \cup {"created", "searching", "queued", "chat_search"}
  BY <1>2, Zenon DEF DispCancel
<1>4. db' = IF d # NONE THEN u ELSE IF off # NONE THEN Withdrawn(s, o, off) ELSE s
  BY Zenon DEF DispCancel, Withdrawn
<1>5. SameDrivers(db, s) /\ Shut(db, s, o, "cancelled") /\ \A e : Edit(db, s, o, e)
  BY <1>1, CancelEdits
<1> HIDE DEF s
<1>6. /\ Good(s) /\ s.status[o] = "cancelled" /\ s.driver[o] = NONE /\ s.status[o] \in Closed
      /\ s.offered[o] = db.offered[o] /\ s.parallel[o] = db.parallel[o]
  BY <1>5 DEF Edit, Keeps, Shut, Closed
<1>7. /\ d \in Drivers \cup {NONE} /\ off \in Drivers \cup {NONE}
      /\ db.status[o] \notin Closed \cup {"unborn"}
      /\ d = NONE => db.status[o] \notin Riding
      /\ d # NONE => off = NONE /\ Rides(db, d, o)
      /\ db.parallel[o] = NONE
  BY <1>1, <1>2, <1>3, OrderlyRows DEF Orderly, Good, Fits, Rides, Closed, Riding
<1>8. CASE d # NONE
  <2>1. Reaches(db, u)
    BY <1>5, <1>6, <1>7, <1>8, RelieveReaches
  <2>2. Reserved(db, d) = NONE
    <3> SUFFICES ASSUME Reserved(db, d) # NONE PROVE FALSE
      OBVIOUS
    <3>1. Reserved(db, d) \in {p \in Orders : db.parallel[p] = d
                                              /\ db.status[p] = "parallel_assigned"}
      BY OldestIn DEF Reserved
    <3> QED
      BY <1>2, <3>1
  <2>3. u = RestorePosition(s, d)
    BY <2>2 DEF Relieve
  <2>4. Moves(s, u, d)
    BY <1>6, <1>7, <1>8, <2>3, DriverMoves
  <2> QED
    BY <1>4, <1>6, <1>8, <2>1, <2>4 DEF Moves, Likewise, SameOrder
<1>9. CASE d = NONE /\ off # NONE
  BY <1>4, <1>5, <1>6, <1>7, <1>9, WithdrawnReaches, WithdrawnStatus
<1>10. CASE d = NONE /\ off = NONE
  BY <1>4, <1>5, <1>6, <1>7, <1>10, OpenCancelled
<1> QED
  BY <1>8, <1>9, <1>10

(***************************************************************************)
(* Timers, the question to the passenger, the administrator                *)
(***************************************************************************)
LEMMA TurnedAway ==
  ASSUME NEW s, AtRest(s), NEW o \in Orders,
         s.status[o] \in {"queued", "chat_search", "created", "no_drivers"},
         NEW t \in {CloseFor(s, o, "cancelled"), CloseFor(Dequeue(s, o), o, "cancelled")}
  PROVE  /\ Reaches(s, t)
         /\ \A v \in {s, t} : \A u \in Promotes(v, t) : Reaches(s, u)
<1>1. Orderly(s) /\ Good(s)
  BY AtRestRows
<1>2. /\ s.status[o] \notin Closed \cup Riding \cup {"unborn"}
      /\ s.offered[o] = NONE /\ s.parallel[o] = NONE
  BY <1>1 DEF Closed, Riding, Orderly, Fits
<1>3. Edit(s, t, o, NONE) /\ Shut(s, t, o, "cancelled") /\ SameDrivers(s, t)
  BY <1>1, CloseEdits, CancelEdits DEF Closed
<1>4. t.status[o] = "cancelled" /\ t.driver[o] = NONE /\ t.offered[o] = NONE /\ t.parallel[o] = NONE
  BY <1>2, <1>3 DEF Shut
<1> QED
  BY <1>2, <1>3, <1>4, OpenCancelled

LEMMA WaitNoReaches ==
  ASSUME AtRest(db), NEW c \in Creators, WaitNo(c)  PROVE Reaches(db, db')
<1> DEFINE A == {o \in Orders : CreatorOf[o] = c /\ db.status[o] = "queued"}
           o == Newest(A)
<1>1. o \in A
  BY NewestIn DEF WaitNo
<1>2. db' = CloseFor(Dequeue(db, o), o, "cancelled")
  BY DEF WaitNo
<1>3. o \in Orders /\ db.status[o] = "queued"
  BY <1>1
<1> HIDE DEF o
<1> QED
  BY <1>2, <1>3, TurnedAway

LEMMA ConfirmReaches ==
  ASSUME AtRest(db), Queued(db), NEW o \in Orders, ConfirmYes(o) \/ ConfirmNo(o)
  PROVE  Reaches(db, db')
<1>1. Orderly(db) /\ Good(db) /\ db \in Rows
  BY AtRestRows
<1>2. CASE ConfirmYes(o)
  <2> DEFINE y == [db EXCEPT !.confirmed[o] = TRUE, !.pq[o] = "waiting"]
             p == PausePrompts(db, y, o)
             s == ResetCreator(p, o)
  <2>1. db' \in Promotes(db, s)
    BY <1>2 DEF ConfirmYes
  <2>2. /\ y \in Rows /\ y.status = db.status /\ y.offered = db.offered
        /\ y.driver = db.driver /\ y.parallel = db.parallel /\ y.declined = db.declined
        /\ y.row = db.row /\ y.dstat = db.dstat /\ y.online = db.online
        /\ y.address = db.address /\ y.chatcard = db.chatcard
    BY <1>1 DEF Rows
  <2> HIDE DEF y
  <2>3. Good(y) /\ Likewise(db, y) /\ SameDrivers(db, y)
    BY <1>1, <2>2, SameIsGood, GoodRows, ColumnsSameDrivers DEF Likewise, SameOrder, Calm
  <2>4. Good(p) /\ SameOrders(y, p) /\ SameDrivers(y, p)
    BY <2>2, <2>3, PausePromptsGood, PausePark, PauseSameDrivers
  <2> HIDE DEF p
  <2>5. Good(s) /\ SameOrders(p, s) /\ SameDrivers(p, s)
    BY <2>4, ResetCreatorGood, GoodRows, CreatorsPark, OrdersSameDrivers DEF Good
  <2> HIDE DEF s
  <2>6. Likewise(db, p) /\ Likewise(db, s)
    BY <2>3, <2>4, <2>5 DEF Likewise, SameOrders, SameOrder
  <2>7. SameDrivers(db, p)
    BY <2>3, <2>4, SameDriversTrans DEF SameOrders, SameOrder
  <2>8. SameDrivers(db, s)
    BY <2>5, <2>7, SameDriversTrans DEF SameOrders, SameOrder
  <2>9. Orderly(s)
    BY <1>1, <2>5, <2>6, <2>8, SameDriversOrderly
  <2>10. AtRest(s)
    BY <2>6, <2>9, LikewiseGoes DEF AtRest
  <2>11. Idle(db) \subseteq Idle(s)
    BY <2>6, <2>8, SameDriversAdvances
  <2>12. AtRest(db') /\ Advances(s, db')
    BY <1>1, <2>1, <2>10, <2>11, PromotesAtRest
  <2> QED
    BY <2>6, <2>12, ThenAdvances DEF Likewise
<1>3. CASE ConfirmNo(o)
  <2> DEFINE s == CloseFor(Dequeue(db, o), o, "cancelled")
  <2>1. db' \in Promotes(db, s) /\ db.status[o] = "queued"
    BY <1>3 DEF ConfirmNo, Queued, Parked, Place
  <2> HIDE DEF s
  <2>2. s \in {CloseFor(db, o, "cancelled"), CloseFor(Dequeue(db, o), o, "cancelled")}
    BY DEF s
  <2> QED
    BY <2>1, <2>2, TurnedAway
<1> QED
  BY <1>2, <1>3

LEMMA RecoveryReaches ==
  ASSUME AtRest(db), RecoveryWorker  PROVE Reaches(db, db')
BY PromotesSelfAtRest, AdvancesGoes DEF RecoveryWorker, Reaches

LEMMA TimeoutsReach ==
  ASSUME AtRest(db), NEW o \in Orders, DispatcherUnclaimed(o) \/ ChatTimeout(o)
  PROVE  Reaches(db, db')
<1>1. Orderly(db) /\ Good(db) /\ db \in Rows
  BY AtRestRows
<1>2. CASE ChatTimeout(o)
  <2>1. db.status[o] = "chat_search" /\ db' = CloseFor(db, o, "cancelled")
    BY <1>2 DEF ChatTimeout
  <2> QED
    BY <2>1, TurnedAway
<1>3. CASE DispatcherUnclaimed(o)
  <2> DEFINE off == db.offered[o]
             r == ReleaseOffer(db, off)
             s == IF off = NONE THEN db ELSE r
             w == [s EXCEPT !.offered[o] = NONE]
             t == Dequeue(Close(w, o, "cancelled"), o)
             f == [db EXCEPT !.deadline[o] = FALSE]
  <2>1. \/ /\ db' = t /\ db.driver[o] = NONE /\ db.parallel[o] = NONE /\ db.status[o] \in Pending
        \/ db' = f
    BY <1>3 DEF DispatcherUnclaimed
  <2>2. CASE db' = f
    <3>1. Likewise(db, f) /\ SameDrivers(db, f)
      BY <1>1, FirstLike
    <3>2. Good(f)
      BY <1>1, DeadlineKeeps, GoodRows
    <3> HIDE DEF f
    <3>3. Orderly(f)
      BY <1>1, <3>1, <3>2, SameDriversOrderly
    <3> QED
      BY <2>2, <3>1, <3>3, LikewiseGoes DEF AtRest, Reaches
  <2>3. CASE db' = t /\ db.driver[o] = NONE /\ db.parallel[o] = NONE /\ db.status[o] \in Pending
    <3>1. off # NONE => off \in Drivers /\ Spare(db, off, o)
      BY <1>1, Busy
    <3>2. Moves(db, db, off) /\ SameDrivers(db, db)
      BY <1>1, SameIsGood, SameDriversRefl, SameDriversBeside DEF Moves, Likewise, SameOrder
    <3>3. off # NONE => Moves(db, r, off)
      BY <1>1, <3>1, DriverMoves
    <3> HIDE DEF off, r
    <3>4. Moves(db, s, off) /\ (off = NONE => SameDrivers(db, s))
      BY <3>2, <3>3
    <3> HIDE DEF s
    <3>5. Edit(db, s, o, off) /\ Good(s) /\ Likewise(db, s)
      BY <3>4, MovesEdit
    <3>6. /\ Edit(s, w, o, off) /\ SameDrivers(s, w) /\ w.offered[o] = NONE
          /\ w.status[o] = s.status[o] /\ w.driver[o] = s.driver[o] /\ w.parallel[o] = s.parallel[o]
      BY <3>5, ClearEdits, Zenon
    <3> HIDE DEF w
    <3>7. Edit(db, w, o, off) /\ Good(w)
      BY <3>5, <3>6, EditTrans DEF Edit, Keeps
    <3>8. Edit(w, t, o, off) /\ Shut(w, t, o, "cancelled") /\ SameDrivers(w, t)
      BY <3>7, CancelEdits
    <3> HIDE DEF t
    <3>9. Edit(db, t, o, off)
      BY <3>7, <3>8, EditTrans
    <3>10. t.status[o] = "cancelled" /\ t.driver[o] = NONE /\ t.offered[o] = NONE /\ t.parallel[o] = NONE
      BY <2>3, <3>5, <3>6, <3>8 DEF Shut, Likewise, SameOrder
    <3>11. db.status[o] \notin Closed \cup Riding \cup {"unborn"} /\ t.status[o] \in Closed
      BY <2>3, <3>10 DEF Pending, Candidate, Closed, Riding
    <3>12. CASE off # NONE
      BY <2>3, <3>1, <3>9, <3>10, <3>11, <3>12, ClosedReaches
    <3>13. CASE off = NONE
      <4>1. \A p \in Orders : /\ s.status[p] # "unborn" => w.status[p] # "unborn"
                              /\ w.status[p] # "unborn" => t.status[p] # "unborn"
        BY <3>6, <3>8 DEF Edit, SameOrder
      <4>2. SameDrivers(db, w)
        BY <3>4, <3>6, <3>13, <4>1, SameDriversTrans
      <4>3. SameDrivers(db, t)
        BY <3>8, <4>1, <4>2, SameDriversTrans
      <4> QED
        BY <2>3, <3>9, <3>10, <3>11, <4>3, ClosedReaches
    <3> QED
      BY <3>12, <3>13
  <2> QED
    BY <2>1, <2>2, <2>3
<1> QED
  BY <1>2, <1>3

\* The administrator's way to free a driver, a definition within AdminCancel.
Restored(s, e) ==
    IF s.row[e] = "none" THEN [s EXCEPT !.dstat[e] = "offline"]
    ELSE IF s.online[e] THEN [s EXCEPT !.row[e] = "waiting", !.dstat[e] = "online"]
    ELSE s

LEMMA RestoredMoves ==
  ASSUME NEW s, Good(s), NEW e \in Drivers  PROVE Moves(s, Restored(s, e), e)
<1> DEFINE x == [s EXCEPT !.dstat[e] = "offline"]
           y == [s EXCEPT !.row[e] = "waiting", !.dstat[e] = "online"]
<1>1. s \in Rows
  BY DEF Good
<1>2. /\ x \in Rows /\ x.status = s.status /\ x.offered = s.offered /\ x.driver = s.driver
      /\ x.parallel = s.parallel /\ x.declined = s.declined /\ x.row = s.row
      /\ x.dstat = [s.dstat EXCEPT ![e] = "offline"] /\ DOMAIN s.dstat = Drivers
      /\ x.online = s.online /\ x.address = s.address /\ x.chatcard = s.chatcard
  BY <1>1 DEF Rows
<1>3. /\ y \in Rows /\ y.status = s.status /\ y.offered = s.offered /\ y.driver = s.driver
      /\ y.parallel = s.parallel /\ y.declined = s.declined
      /\ y.row = [s.row EXCEPT ![e] = "waiting"] /\ DOMAIN s.row = Drivers
      /\ y.dstat = [s.dstat EXCEPT ![e] = "online"] /\ DOMAIN s.dstat = Drivers
      /\ y.online = s.online /\ y.address = s.address /\ y.chatcard = s.chatcard
  BY <1>1 DEF Rows
<1>4. Restored(s, e) \in {s, x, y}
  BY DEF Restored
<1> HIDE DEF x, y
<1>5. Moves(s, s, e)
  BY <1>1, SameIsGood, SameDriversRefl, SameDriversBeside DEF Moves, Likewise, SameOrder
<1>6. Moves(s, x, e)
  BY <1>2, SameIsGood DEF Moves, Likewise, SameOrder, Beside, SameDriver, Calm
<1>7. Moves(s, y, e)
  BY <1>3, SameIsGood DEF Moves, Likewise, SameOrder, Beside, SameDriver, Calm
<1> QED
  BY <1>4, <1>5, <1>6, <1>7

LEMMA AdminCancelReaches ==
  ASSUME AtRest(db), NEW o \in Orders, AdminCancel(o)  PROVE Reaches(db, db')
<1> DEFINE off == db.offered[o]
           d == db.driver[o]
           c == Dequeue(Close(db, o, "cancelled"), o)
           s == ResetCreator(c, o)
           t == IF off = NONE THEN s ELSE Restored(s, off)
           u == IF d = NONE \/ d = off \/ db.status[o] \notin Riding THEN t
                ELSE IF Reserved(db, d) # NONE THEN PromoteAfter(db, t, d)
                ELSE Restored(t, d)
           w == [u EXCEPT !.offered[o] = NONE, !.parallel[o] = NONE]
<1>1. Orderly(db) /\ Good(db) /\ db \in Rows
  BY AtRestRows
<1>2. db' = w /\ db.status[o] \notin Closed \cup {"unborn"}
  BY DEF AdminCancel, Restored
<1>3. Edit(db, c, o, NONE) /\ Edit(db, c, o, d) /\ Edit(db, c, o, off)
      /\ Shut(db, c, o, "cancelled") /\ SameDrivers(db, c)
  BY <1>1, CancelEdits
<1>4. Good(c)
  BY <1>3 DEF Edit, Keeps
<1> HIDE DEF c
<1>5. /\ Edit(c, s, o, NONE) /\ Edit(c, s, o, d) /\ Edit(c, s, o, off)
      /\ Likewise(c, s) /\ SameDrivers(c, s)
  BY <1>4, OrderEdits
<1> HIDE DEF s
<1>6. /\ Edit(db, s, o, NONE) /\ Edit(db, s, o, d) /\ Edit(db, s, o, off)
      /\ Good(s) /\ s.status[o] = "cancelled" /\ s.driver[o] = NONE
  <2>1. Edit(db, s, o, NONE) /\ Edit(db, s, o, d) /\ Edit(db, s, o, off)
    BY <1>3, <1>5, EditTrans
  <2>2. Good(s)
    BY <2>1 DEF Edit, Keeps
  <2>3. s.status[o] = "cancelled" /\ s.driver[o] = NONE
    BY <1>3, <1>5 DEF Shut, Likewise, SameOrder
  <2> QED
    BY <2>1, <2>2, <2>3
<1>7. SameDrivers(db, s)
  BY <1>3, <1>5, SameDriversTrans DEF Likewise, SameOrder
<1>8. /\ off # NONE => off \in Drivers /\ Spare(db, off, o) /\ d = NONE /\ db.status[o] \notin Riding
      /\ d \in Drivers \cup {NONE}
      /\ db.status[o] \in Riding => Rides(db, d, o) /\ d # NONE /\ db.parallel[o] = NONE
  BY <1>1, Busy, OrderlyRows DEF Rides, Riding, Orderly, Fits
<1>9. "cancelled" \in Closed
  BY DEF Closed
\* The order that leaves u is closed and has no columns left.
<1>10. ASSUME NEW e, Edit(db, u, o, e), u.status[o] = "cancelled", u.driver[o] = NONE
       PROVE  /\ Edit(db, w, o, e) /\ Edit(u, w, o, e) /\ SameDrivers(u, w)
              /\ w.status[o] = "cancelled" /\ w.driver[o] = NONE
              /\ w.offered[o] = NONE /\ w.parallel[o] = NONE
  <2> HIDE DEF u
  <2>1. Good(u)
    BY <1>10 DEF Edit, Keeps
  <2>2. /\ Edit(u, w, o, e) /\ SameDrivers(u, w) /\ w.offered[o] = NONE
        /\ w.status[o] = u.status[o] /\ w.driver[o] = u.driver[o] /\ w.parallel[o] = NONE
    BY <2>1, ClearEdits, Zenon
  <2> HIDE DEF w
  <2>3. Edit(db, w, o, e)
    BY <1>10, <2>2, EditTrans
  <2> QED
    BY <1>10, <2>2, <2>3
<1> HIDE DEF w
<1>11. CASE off # NONE
  <2>1. u = Restored(s, off)
    BY <1>8, <1>11
  <2> HIDE DEF off, u
  <2>2. Moves(s, u, off)
    BY <1>6, <1>8, <1>11, <2>1, RestoredMoves
  <2>3. Edit(db, u, o, off) /\ SameOrder(s, u, o)
    BY <1>6, <2>2, EditMoves
  <2>4. u.status[o] = "cancelled" /\ u.driver[o] = NONE
    BY <1>6, <2>3 DEF SameOrder
  <2>5. Edit(db, w, o, off) /\ w.status[o] = "cancelled" /\ w.driver[o] = NONE
        /\ w.offered[o] = NONE /\ w.parallel[o] = NONE
    BY <1>10, <2>3, <2>4
  <2> QED
    BY <1>2, <1>8, <1>9, <1>11, <2>5, ClosedReaches
<1>12. CASE off = NONE /\ db.status[o] \notin Riding
  <2>1. u = s
    BY <1>12
  <2> HIDE DEF u
  <2>2. Edit(db, w, o, NONE) /\ SameDrivers(u, w)
        /\ w.status[o] = "cancelled" /\ w.driver[o] = NONE
        /\ w.offered[o] = NONE /\ w.parallel[o] = NONE
    BY <1>6, <1>10, <2>1
  <2>3. \A p \in Orders : s.status[p] # "unborn" => w.status[p] # "unborn"
    BY <1>6, <2>2 DEF Edit, SameOrder
  <2>4. SameDrivers(db, w)
    BY <1>7, <2>1, <2>2, <2>3, SameDriversTrans
  <2> QED
    BY <1>2, <1>9, <1>12, <2>2, <2>4, ClosedReaches
<1>13. CASE off = NONE /\ db.status[o] \in Riding /\ Reserved(db, d) = NONE
  <2>1. u = Restored(s, d) /\ d \in Drivers /\ Spare(db, d, o) /\ db.driver[o] = d
    BY <1>1, <1>8, <1>13, RiderIsSpare
  <2> HIDE DEF u, d
  <2>2. Moves(s, u, d)
    BY <1>6, <2>1, RestoredMoves
  <2>3. Edit(db, u, o, d) /\ SameOrder(s, u, o)
    BY <1>6, <2>2, EditMoves
  <2>4. u.status[o] = "cancelled" /\ u.driver[o] = NONE
    BY <1>6, <2>3 DEF SameOrder
  <2>5. Edit(db, w, o, d) /\ w.status[o] = "cancelled" /\ w.driver[o] = NONE
        /\ w.offered[o] = NONE /\ w.parallel[o] = NONE
    BY <1>10, <2>3, <2>4
  <2> QED
    BY <1>2, <1>9, <2>1, <2>5, ClosedReaches
<1>14. CASE off = NONE /\ db.status[o] \in Riding /\ Reserved(db, d) # NONE
  <2>1. u = PromoteAfter(db, s, d) /\ d \in Drivers /\ Rides(db, d, o)
    BY <1>8, <1>14
  <2>2. s.row[d] \in {"assigned", "none"}
    <3>1. db.row[d] \in {"assigned", "none"}
      BY <1>1, <1>14 DEF Orderly, Fits
    <3> QED
      BY <1>7, <2>1, <3>1 DEF SameDrivers, SameDriver
  <2>3. s.offered[o] = NONE /\ s.parallel[o] = NONE
    BY <1>3, <1>5, <1>8, <1>14 DEF Shut, Likewise, SameOrder
  <2> HIDE DEF d, u
  <2>4. Reaches(db, u) /\ u.status[o] \in Closed /\ u.driver[o] = NONE
    BY <1>6, <1>9, <1>14, <2>1, <2>2, <2>3, PassedOn
  <2>5. Good(u) /\ AtRest(u) /\ u.status[o] # "unborn" /\ u.status[o] \notin Riding
    BY <2>4, AtRestRows DEF Reaches, Closed, Riding
  <2> DEFINE x == [u EXCEPT !.offered[o] = NONE, !.parallel[o] = NONE]
  <2>6. /\ Edit(u, x, o, NONE) /\ SameDrivers(u, x) /\ x.offered[o] = NONE
        /\ x.status[o] = u.status[o] /\ x.driver[o] = u.driver[o] /\ x.parallel[o] = NONE
    BY <2>5, ClearEdits, Zenon
  <2>7. x = w
    BY DEF w
  <2> HIDE DEF x
  <2>8. Reaches(u, x)
    BY <2>4, <2>5, <2>6, ClosedReaches
  <2>9. ASSUME NEW p \in Orders  PROVE Goes(db, x, p)
    <3>1. CASE p = o
      BY <1>2, <2>4, <2>6, <3>1 DEF Goes
    <3>2. CASE p # o
      BY <2>4, <2>6, <3>2 DEF Reaches, Goes, Edit, SameOrder
    <3> QED
      BY <3>1, <3>2
  <2> QED
    BY <1>2, <2>7, <2>8, <2>9 DEF Reaches
<1> QED
  BY <1>11, <1>12, <1>13, <1>14

(***************************************************************************)
(* A driver takes an order                                                 *)
(***************************************************************************)
LEMMA GivenReaches ==
  ASSUME NEW s, AtRest(s), NEW t, NEW o \in Orders, NEW d \in Drivers, Edit(s, t, o, d),
         Spare(s, d, o), s.status[o] \in Pending,
         t.status[o] = "assigned", t.driver[o] = d, t.offered[o] = NONE, t.parallel[o] = NONE,
         t.row[d] \in {"assigned", "none"}
  PROVE  Reaches(s, t)
<1>1. /\ Good(t) /\ Beside(s, t, d) /\ \A p \in Orders \ {o} : SameOrder(s, t, p)
      /\ t.status[o] \in Riding /\ s.status[o] \notin Riding
  BY DEF Edit, Keeps, Riding, Pending, Candidate
<1>2. Orderly(t)
  BY <1>1, GivenOrderly DEF AtRest
<1>3. Settled(t, o) /\ Goes(s, t, o)
  BY <1>1 DEF Settled, Goes
<1> QED
  BY <1>2, <1>3, EditReaches

\* The order is written to the driver.
Given(s, t, o, d) ==
    /\ t \in Rows /\ t.status = [s.status EXCEPT ![o] = "assigned"]
    /\ t.driver = [s.driver EXCEPT ![o] = d] /\ t.offered = [s.offered EXCEPT ![o] = NONE]
    /\ t.parallel = s.parallel /\ t.declined = s.declined
    /\ t.row = s.row /\ t.dstat = s.dstat /\ t.online = s.online
    /\ t.address = s.address /\ t.chatcard = s.chatcard

LEMMA GivenEdits ==
  ASSUME NEW s, Good(s), NEW o \in Orders, NEW d \in Drivers, NEW t, Given(s, t, o, d)
  PROVE  /\ Edit(s, t, o, d) /\ t.status[o] = "assigned" /\ t.driver[o] = d
         /\ t.offered[o] = NONE /\ t.parallel[o] = s.parallel[o]
<1>1. DOMAIN s.status = Orders /\ DOMAIN s.driver = Orders /\ DOMAIN s.offered = Orders
  BY DEF Good, Rows
<1>2. /\ t.status[o] = "assigned" /\ t.driver[o] = d
      /\ t.offered[o] = NONE /\ t.parallel[o] = s.parallel[o]
      /\ \A p \in Orders \ {o} : SameOrder(s, t, p)
  BY <1>1 DEF Given, SameOrder
<1>3. Keeps(s, t)
  <2>1. t \in Rows
    BY DEF Given
  <2>2. \A p \in Orders \ {o} :
           /\ t.status[p] = s.status[p] /\ t.offered[p] = s.offered[p]
           /\ t.driver[p] = s.driver[p] /\ t.parallel[p] = s.parallel[p]
           /\ t.declined[p] = s.declined[p]
    BY <1>2 DEF SameOrder
  <2> QED
    BY <1>2, <2>1, <2>2, OneOrderKeeps
<1>4. Calm(s, t)
  BY DEF Given, Calm
<1>5. Beside(s, t, d)
  BY <1>4, ColumnsSameDrivers, SameDriversBeside DEF Given
<1> QED
  BY <1>2, <1>3, <1>5 DEF Edit

\* The driver of the order has no other row than that of a rider.
LEMMA AssignedEdits ==
  ASSUME NEW s, NEW t, NEW o \in Orders, NEW d \in Drivers, Edit(s, t, o, d),
         NEW u, u = MarkAssigned(t, d)
  PROVE  /\ Edit(s, u, o, d) /\ SameOrder(t, u, o) /\ u.row[d] \in {"assigned", "none"}
<1>1. Good(t) /\ t \in Rows
  BY DEF Edit, Keeps, Good
<1>2. Moves(t, u, d)
  BY <1>1, DriverMoves
<1>3. Edit(s, u, o, d) /\ SameOrder(t, u, o)
  BY <1>2, EditMoves
<1> QED
  BY <1>1, <1>3, DriversBeside

LEMMA AcceptReaches ==
  ASSUME AtRest(db), NEW d \in Drivers, NEW o \in Orders, Accept(d, o)  PROVE Reaches(db, db')
<1> DEFINE t == [db EXCEPT !.offered[o] = NONE, !.driver[o] = d, !.status[o] = "assigned",
                           !.card[o] = TRUE, !.deadline[o] = FALSE]
<1>1. Begin(d) = db /\ Good(db) /\ Orderly(db) /\ db \in Rows
  BY BeginsAsIs, AtRestRows
<1>2. /\ db.status[o] \in {"searching", "created"} /\ CurrentOffer(db, o) = d
      /\ db' = MarkAssigned(t, d)
  BY <1>1 DEF Accept
<1>3. db.status[o] = "searching" /\ db.offered[o] = d
  BY <1>2 DEF AtRest, Settled, CurrentOffer
<1>4. Spare(db, d, o) /\ db.parallel[o] = NONE
  BY <1>1, <1>3, Busy, NoneAssumption
<1>5. Given(db, t, o, d)
  <2>1. t \in Rows
    BY <1>1, StatusValues, ZenonT(40) DEF Rows
  <2>2. /\ t.status = [db.status EXCEPT ![o] = "assigned"]
        /\ t.driver = [db.driver EXCEPT ![o] = d] /\ t.offered = [db.offered EXCEPT ![o] = NONE]
        /\ t.parallel = db.parallel /\ t.declined = db.declined
        /\ t.row = db.row /\ t.dstat = db.dstat /\ t.online = db.online
        /\ t.address = db.address /\ t.chatcard = db.chatcard
    BY <1>1 DEF Rows
  <2> HIDE DEF t
  <2> QED
    BY <2>1, <2>2 DEF Given
<1> HIDE DEF t
<1>6. /\ Edit(db, t, o, d) /\ t.status[o] = "assigned" /\ t.driver[o] = d
      /\ t.offered[o] = NONE /\ t.parallel[o] = NONE
  BY <1>1, <1>4, <1>5, GivenEdits
<1>7. Edit(db, db', o, d) /\ SameOrder(t, db', o) /\ db'.row[d] \in {"assigned", "none"}
  BY <1>2, <1>6, AssignedEdits
<1>8. /\ db'.status[o] = "assigned" /\ db'.driver[o] = d
      /\ db'.offered[o] = NONE /\ db'.parallel[o] = NONE
  BY <1>6, <1>7 DEF SameOrder
<1>9. db.status[o] \in Pending
  BY <1>3 DEF Pending
<1> QED
  BY <1>4, <1>7, <1>8, <1>9, GivenReaches

\* A claim: the order is the driver's, whoever had it on the screen.
Claimed(s, t, o, d) ==
    /\ Edit(s, t, o, d) /\ t.status[o] = "assigned" /\ t.driver[o] = d
    /\ t.offered[o] = NONE /\ t.parallel[o] = s.parallel[o]
    /\ t.row[d] \in {"assigned", "none"}

LEMMA ClaimEdits ==
  ASSUME NEW s, Good(s), NEW o \in Orders, NEW d \in Drivers, NEW back
  PROVE  Claimed(s, Claim(s, d, o, back), o, d)
<1> DEFINE j == IF back THEN [JoinQueue(s, d) EXCEPT !.online[d] = TRUE] ELSE s
           q == Dequeue(j, o)
           t == [q EXCEPT !.offered[o] = NONE, !.driver[o] = d, !.status[o] = "assigned",
                          !.deadline[o] = FALSE]
           u == MarkAssigned(t, d)
<1>1. u = Claim(s, d, o, back)
  BY DEF Claim
<1>2. Moves(s, s, d)
  BY SameIsGood, SameDriversRefl, SameDriversBeside DEF Good, Moves, Likewise, SameOrder
<1>3. Moves(s, j, d)
  BY <1>2, DriverMoves
<1> HIDE DEF j
<1>4. Edit(s, j, o, d) /\ Good(j) /\ Likewise(s, j)
  BY <1>3, MovesEdit
<1>5. Edit(j, q, o, d) /\ Likewise(j, q)
  BY <1>4, OrderEdits
<1> HIDE DEF q
<1>6. Edit(s, q, o, d) /\ Likewise(s, q) /\ Good(q)
  BY <1>4, <1>5, EditTrans DEF Likewise, SameOrder, Edit, Keeps
<1>7. Given(q, t, o, d)
  BY <1>6, StatusValues, Zenon DEF Good, Given, Rows
<1> HIDE DEF t
<1>8. /\ Edit(q, t, o, d) /\ t.status[o] = "assigned" /\ t.driver[o] = d
      /\ t.offered[o] = NONE /\ t.parallel[o] = q.parallel[o]
  BY <1>6, <1>7, GivenEdits
<1>9. Edit(s, t, o, d)
  BY <1>6, <1>8, EditTrans
<1>10. Edit(s, u, o, d) /\ SameOrder(t, u, o) /\ u.row[d] \in {"assigned", "none"}
  BY <1>9, AssignedEdits
<1> HIDE DEF u
<1>11. /\ u.status[o] = "assigned" /\ u.driver[o] = d
       /\ u.offered[o] = NONE /\ u.parallel[o] = s.parallel[o]
  BY <1>6, <1>8, <1>10 DEF SameOrder, Likewise
<1> QED
  BY <1>1, <1>10, <1>11 DEF Claimed

\* What a claim writes besides.
Alongside(s, t) ==
    /\ t.status = s.status /\ t.driver = s.driver /\ t.offered = s.offered
    /\ t.declined = s.declined /\ t.row = s.row /\ t.dstat = s.dstat /\ t.online = s.online
    /\ t.address = s.address /\ t.chatcard = s.chatcard

LEMMA AlongsideMoves ==
  ASSUME NEW c, Good(c), NEW d, NEW t, t \in Rows, Alongside(c, t), t.parallel = c.parallel
  PROVE  Moves(c, t, d) /\ SameDrivers(c, t)
<1>1. Keeps(c, t) /\ Likewise(c, t)
  BY SameIsGood DEF Alongside, Likewise, SameOrder
<1>2. Calm(c, t)
  BY DEF Alongside, Calm
<1>3. SameDrivers(c, t)
  BY <1>2, ColumnsSameDrivers DEF Alongside
<1> QED
  BY <1>1, <1>3, SameDriversBeside DEF Moves

LEMMA AlongsideClaimed ==
  ASSUME NEW s, NEW c, NEW o \in Orders, NEW d \in Drivers, Claimed(s, c, o, d),
         s.parallel[o] = NONE, NEW t, t \in Rows, Alongside(c, t), t.parallel = c.parallel
  PROVE  Claimed(s, t, o, d)
<1>1. Good(c) /\ Edit(s, c, o, d)
  BY DEF Claimed, Edit, Keeps
<1>2. Edit(s, t, o, d) /\ SameOrder(c, t, o)
  BY <1>1, AlongsideMoves, EditMoves
<1> QED
  BY <1>2 DEF Claimed, SameOrder, Alongside

LEMMA ClaimedReaches ==
  ASSUME NEW s, AtRest(s), NEW t, NEW o \in Orders, NEW d \in Drivers, Claimed(s, t, o, d),
         Spare(s, d, o), s.status[o] \in Pending
  PROVE  Reaches(s, t)
<1>1. s.parallel[o] = NONE
  BY AtRestRows DEF Orderly, Fits, Pending, Candidate
<1> QED
  BY <1>1, GivenReaches DEF Claimed

LEMMA SpareAside ==
  ASSUME NEW s, NEW d, Spare(s, d, NONE), NEW o  PROVE Spare(s, d, o)
BY NoneAssumption DEF Spare

LEMMA TakePendingReaches ==
  ASSUME AtRest(db), NEW d \in Drivers, NEW o \in Orders, TakePending(d, o)
  PROVE  Reaches(db, db')
<1> DEFINE c == Claim(db, d, o, db.dstat[d] \in {"offline", "away"} \/ ~db.online[d])
           t == [c EXCEPT !.parallel[o] = NONE, !.temp[o] = FALSE, !.card[o] = TRUE]
<1>1. Begin(d) = db /\ Good(db) /\ Orderly(db) /\ db \in Rows
  BY BeginsAsIs, AtRestRows
<1>2. /\ MenuOpen(db, d) /\ db.status[o] \in Pending /\ db.parallel[o] = NONE
      /\ db' = t
  BY <1>1 DEF TakePending
<1>3. Spare(db, d, o)
  BY <1>1, <1>2, NothingIsSpare, SpareAside
<1>4. Claimed(db, c, o, d)
  BY <1>1, ClaimEdits
<1> HIDE DEF c
<1>5. c \in Rows /\ c.parallel[o] = NONE
  BY <1>2, <1>4 DEF Claimed, Edit, Keeps, Good
<1>6. t \in Rows /\ Alongside(c, t) /\ t.parallel = [c.parallel EXCEPT ![o] = NONE]
  <2>1. t \in Rows
    BY <1>5, ZenonT(40) DEF Rows
  <2>2. /\ t.status = c.status /\ t.driver = c.driver /\ t.offered = c.offered
        /\ t.declined = c.declined /\ t.row = c.row /\ t.dstat = c.dstat /\ t.online = c.online
        /\ t.address = c.address /\ t.chatcard = c.chatcard
        /\ t.parallel = [c.parallel EXCEPT ![o] = NONE]
    BY <1>5 DEF Rows
  <2> HIDE DEF t
  <2> QED
    BY <2>1, <2>2 DEF Alongside
<1> HIDE DEF t
<1>7. t.parallel = c.parallel
  <2>1. c.parallel \in [Orders -> Drivers \cup {NONE}]
    BY <1>5 DEF Rows
  <2> QED
    BY <1>5, <1>6, <2>1
<1>8. Claimed(db, t, o, d)
  BY <1>2, <1>4, <1>6, <1>7, AlongsideClaimed
<1> QED
  BY <1>2, <1>3, <1>8, ClaimedReaches

\* What the chat card gives: the order, whoever has it on the screen.
LEMMA TakenIsClaimed ==
  ASSUME NEW s, Good(s), NEW o \in Orders, NEW d \in Drivers, s.parallel[o] = NONE
  PROVE  Claimed(s, Taken(s, d, o, NONE), o, d)
<1> DEFINE temp == ~s.online[d]
           c == Claim(s, d, o, temp \/ s.dstat[d] = "away")
           t == [c EXCEPT !.temp[o] = temp, !.card[o] = TRUE]
<1>1. t = Taken(s, d, o, NONE)
  BY DEF Taken
<1>2. Claimed(s, c, o, d)
  BY ClaimEdits
<1>3. temp \in BOOLEAN
  OBVIOUS
<1> HIDE DEF c, temp
<1>4. c \in Rows
  BY <1>2 DEF Claimed, Edit, Keeps, Good
<1>5. t \in Rows
  BY <1>3, <1>4, Zenon DEF Rows
<1>6. /\ t.status = c.status /\ t.driver = c.driver /\ t.offered = c.offered
      /\ t.declined = c.declined /\ t.row = c.row /\ t.dstat = c.dstat /\ t.online = c.online
      /\ t.address = c.address /\ t.chatcard = c.chatcard /\ t.parallel = c.parallel
  BY <1>4 DEF Rows
<1> HIDE DEF t
<1>7. Alongside(c, t)
  BY <1>6 DEF Alongside
<1>8. t.parallel = c.parallel
  BY <1>6
<1>9. Claimed(s, t, o, d)
  BY <1>2, <1>5, <1>7, <1>8, AlongsideClaimed
<1> QED
  BY <1>1, <1>9

\* The order of a live chat card has no driver, and its taker no ride.
LEMMA ChatIsOpen ==
  ASSUME NEW s, Orderly(s), NEW o \in Orders, NEW d \in Drivers, ChatOpen(s, d, o), s.chatcard[o]
  PROVE  ActiveRide(s, d) = NONE /\ s.status[o] \in Pending /\ s.parallel[o] = NONE
<1>1. s.status[o] \notin Riding \cup Closed \cup {"parallel_assigned"}
  BY DEF ChatOpen
<1>2. s.status[o] # "unborn" /\ s.parallel[o] = NONE
  BY <1>1 DEF Orderly, Fits
<1>3. s.status[o] \in Statuses
  BY OrderlyRows DEF Rows
<1>4. s.status[o] \in Pending
  BY <1>1, <1>2, <1>3 DEF Statuses
<1>5. ActiveRide(s, d) # o \/ ActiveRide(s, d) = NONE
  BY <1>1, RideIs DEF Rides
<1> QED
  BY <1>2, <1>4, <1>5 DEF ChatOpen

\* The driver has an offer on the screen: it is dropped, and offered on afterwards.
LEMMA TakenReaches ==
  ASSUME NEW s, AtRest(s), NEW o \in Orders, NEW d \in Drivers, NEW p \in Orders,
         s.offered[p] = d, s.status[o] \in Pending, s.parallel[o] = NONE, o # p,
         NEW live, live = ReleaseOffer([s EXCEPT !.offered[p] = NONE], d),
         NEW u, u = Taken(live, d, o, p)
  PROVE  Reaches(s, u)
<1> DEFINE dead == [s EXCEPT !.offered[p] = NONE]
           t == Taken(live, d, o, NONE)
<1>1. Orderly(s) /\ Good(s) /\ s \in Rows
  BY AtRestRows
<1>2. /\ d # NONE /\ p # NONE /\ s.status[p] = "searching"
      /\ s.driver[p] = NONE /\ s.parallel[p] = NONE /\ Spare(s, d, p)
  BY <1>1, Busy, NoneAssumption
<1>3. /\ Edit(s, dead, p, d) /\ dead.offered[p] = NONE
      /\ dead.status[p] = s.status[p] /\ dead.driver[p] = s.driver[p]
      /\ dead.parallel[p] = s.parallel[p]
  BY <1>1, ClearEdits, Zenon
<1>4. u = OfferNext(t, p, {})
  BY <1>2 DEF Taken
<1> HIDE DEF dead, t
<1>5. Moves(dead, live, d)
  <2>1. Good(dead)
    BY <1>3 DEF Edit, Keeps
  <2> QED
    BY <2>1, DriverMoves DEF dead
<1>6. Edit(s, live, p, d) /\ Good(live) /\ SameOrder(dead, live, p)
  BY <1>3, <1>5, EditMoves
<1>7. /\ live.offered[p] = NONE /\ live.status[p] = "searching"
      /\ live.driver[p] = NONE /\ live.parallel[p] = NONE
  BY <1>2, <1>3, <1>6 DEF SameOrder
<1>8. Orderly(live)
  <2>1. (\A q \in Orders \ {p} : SameOrder(s, live, q)) /\ Beside(s, live, d)
    BY <1>6 DEF Edit
  <2>2. live.status[p] \notin Riding \cup {"parallel_assigned", "unborn"}
    BY <1>7 DEF Riding
  <2>3. s.status[p] \notin Riding
    BY <1>2 DEF Riding
  <2> QED
    BY <1>1, <1>2, <1>6, <1>7, <2>1, <2>2, <2>3, FreedOrderly
<1>9. Spare(live, d, NONE)
  BY <1>2, <1>6, <1>7, EndsSpare
<1>10. SameOrder(s, live, o)
  BY <1>6 DEF Edit
<1>11. Claimed(live, t, o, d)
  <2>1. live.parallel[o] = NONE
    BY <1>10 DEF SameOrder
  <2> QED
    BY <1>6, <2>1, TakenIsClaimed DEF t
<1>12. /\ Good(t) /\ Beside(live, t, d) /\ \A q \in Orders \ {o} : SameOrder(live, t, q)
       /\ t.status[o] = "assigned" /\ t.driver[o] = d /\ t.offered[o] = NONE
       /\ t.parallel[o] = NONE /\ t.row[d] \in {"assigned", "none"}
  BY <1>10, <1>11 DEF Claimed, Edit, Keeps, SameOrder
<1>13. Orderly(t)
  <2>1. live.status[o] \notin Riding /\ t.status[o] \in Riding
    BY <1>10, <1>12 DEF SameOrder, Riding, Pending, Candidate
  <2>2. Spare(live, d, o)
    BY <1>9, SpareAside
  <2> QED
    BY <1>8, <1>12, <2>1, <2>2, GivenOrderly
<1>14. /\ t.offered[p] = NONE /\ t.status[p] = "searching"
       /\ t.driver[p] = NONE /\ t.parallel[p] = NONE
  BY <1>7, <1>12 DEF SameOrder
<1>15. Orderly(u) /\ Advances(t, u) /\ Settled(u, p)
  <2>1. t.status[p] \in Pending
    BY <1>14 DEF Pending
  <2> QED
    BY <1>4, <1>13, <1>14, <2>1, OfferNextOrderly
<1>16. u.status[o] = "assigned" /\ u.driver[o] = d
  BY <1>12, <1>15 DEF Advances, Pending, Candidate
<1>17. u.offered[p] # d
  BY <1>2, <1>15, <1>16 DEF Orderly, Fits, Riding
<1>18. \A q \in Orders \ {o, p} : SameOrder(s, t, q)
  BY <1>6, <1>12 DEF Edit, SameOrder
<1>19. u.status[p] \in Pending
  BY <1>14, <1>15 DEF Advances, Pending
<1>20. ASSUME NEW q \in Orders PROVE Settled(u, q) /\ Goes(s, u, q)
  <2>1. CASE q = p
    BY <1>2, <1>15, <1>17, <1>19, <2>1 DEF Goes, Closed, Riding
  <2>2. CASE q = o
    BY <1>16, <2>2 DEF Settled, Goes, Riding
  <2>3. CASE q \notin {o, p}
    <3>1. SameOrder(s, t, q)
      BY <1>18, <2>3
    <3>2. Settled(t, q)
      BY <3>1 DEF AtRest, Settled, SameOrder
    <3>3. Settled(u, q)
      BY <1>15, <3>2 DEF Advances
    <3> QED
      BY <1>15, <3>1, <3>3, SameOrderGoes
  <2> QED
    BY <2>1, <2>2, <2>3
<1> QED
  BY <1>15, <1>20 DEF Reaches, AtRest

LEMMA ChatReaches ==
  ASSUME AtRest(db), NEW d \in Drivers, NEW o \in Orders, ChatTake(d, o) \/ ChatTakeLate(d, o)
  PROVE  Reaches(db, db')
<1> DEFINE p == PendingOffer(db, d)
<1>1. Adopt(db, d) = db /\ Begin(d) = db /\ Good(db) /\ Orderly(db)
  BY BeginsAsIs, AtRestRows
<1>2. db.chatcard[o] /\ ChatOpen(db, d, o)
  BY <1>1 DEF ChatTake, ChatTakeLate
<1>3. ActiveRide(db, d) = NONE /\ db.status[o] \in Pending /\ db.parallel[o] = NONE
  BY <1>1, <1>2, ChatIsOpen
<1>4. CASE p = NONE
  <2>1. db' = Taken(db, d, o, NONE)
    BY <1>1, <1>4 DEF ChatTake, ChatTakeLate
  <2>2. Spare(db, d, o)
    BY <1>1, <1>3, <1>4, NothingIsSpare, SpareAside DEF MenuOpen
  <2>3. Claimed(db, db', o, d)
    BY <1>1, <1>3, <2>1, TakenIsClaimed
  <2> QED
    BY <1>3, <2>2, <2>3, ClaimedReaches
<1>5. CASE p # NONE
  <2>1. p \in Orders /\ db.offered[p] = d
    BY <1>1, <1>5, OfferIs
  <2>2. db.row[d] = "offered" /\ db.status[p] = "searching"
    BY <1>1, <2>1, NoneAssumption DEF Orderly, Fits
  <2> DEFINE live == ReleaseOffer([db EXCEPT !.offered[p] = NONE], d)
  <2>3. db.status[o] = "chat_search" /\ db' = Taken(live, d, o, p)
    BY <1>1, <1>5, <2>2 DEF ChatTake, ChatTakeLate
  <2> HIDE DEF live, p
  <2>4. o # p
    BY <2>2, <2>3
  <2> QED
    BY <1>3, <2>1, <2>3, <2>4, TakenReaches DEF live
<1> QED
  BY <1>4, <1>5

(***************************************************************************)
(* An offer that is not accepted                                           *)
(***************************************************************************)
\* The order is offered on: it waits or is on the screen of another driver.
LEMMA OfferedOn ==
  ASSUME NEW s, AtRest(s), NEW o \in Orders, NEW d \in Drivers, s.offered[o] = d,
         NEW r, Edit(s, r, o, d), r.status[o] = "searching", r.driver[o] = NONE,
         r.parallel[o] = NONE, r.offered[o] = NONE, NEW excluded,
         NEW u, u = OfferNext(r, o, excluded)
  PROVE  /\ AtRest(u) /\ Advances(r, u)
         /\ \A w : AtRest(w) /\ Advances(u, w) /\ w.offered[o] # d => Reaches(s, w)
<1>1. Orderly(s)
  BY AtRestRows
<1>2. /\ s.status[o] = "searching" /\ s.parallel[o] = NONE /\ Spare(s, d, o)
      /\ d # NONE
  BY <1>1, Busy, NoneAssumption
<1>3. Good(r) /\ Beside(s, r, d) /\ \A p \in Orders \ {o} : SameOrder(s, r, p)
  BY DEF Edit, Keeps
<1>4. Orderly(r)
  <2>1. r.status[o] \notin Riding \cup {"parallel_assigned", "unborn"} /\ s.status[o] \notin Riding
    BY <1>2 DEF Riding
  <2> QED
    BY <1>1, <1>2, <1>3, <2>1, FreedOrderly
<1>5. r.status[o] \in Pending
  BY DEF Pending
<1>6. Orderly(u) /\ Advances(r, u) /\ Settled(u, o)
  BY <1>4, <1>5, OfferNextOrderly
<1>7. ASSUME NEW p \in Orders PROVE Settled(u, p)
  <2>1. CASE p = o
    BY <1>6, <2>1
  <2>2. CASE p # o
    <3>1. SameOrder(s, r, p)
      BY <1>3, <2>2
    <3>2. Settled(r, p)
      BY <3>1 DEF AtRest, Settled, SameOrder
    <3> QED
      BY <1>6, <3>2 DEF Advances
  <2> QED
    BY <2>1, <2>2
<1>8. ASSUME NEW w, AtRest(w), Advances(u, w), w.offered[o] # d PROVE Reaches(s, w)
  <2>1. Orderly(w) /\ Settled(w, o) /\ Advances(r, w)
    BY <1>6, <1>8, AtRestRows, AdvancesTrans DEF AtRest
  <2>2. s.status[o] \notin Closed \cup Riding
    BY <1>2 DEF Closed, Riding
  <2>3. w.offered[o] # NONE => w.offered[o] \notin {s.offered[o], s.parallel[o]}
    BY <1>2, <1>8
  <2> QED
    BY <1>3, <1>5, <2>1, <2>2, <2>3, OpenedReaches
<1> QED
  BY <1>6, <1>7, <1>8 DEF AtRest

\* The driver is let go and the offer is taken back, with its card and its marker.
TakenBack(m, o) ==
    [m EXCEPT !.offered[o] = NONE, !.card[o] = FALSE, !.current[CreatorOf[o]] = NONE]

\* The offer ends, the order keeps its other columns.
OfferEnded(s, t, o, d) ==
    /\ Edit(s, t, o, d) /\ t.offered[o] = NONE /\ t.status[o] = s.status[o]
    /\ t.driver[o] = s.driver[o] /\ t.parallel[o] = s.parallel[o]

LEMMA TakenBackEdits ==
  ASSUME NEW s, NEW m, NEW o \in Orders, NEW d \in Drivers, Moves(s, m, d)
  PROVE  /\ OfferEnded(s, TakenBack(m, o), o, d)
         /\ TakenBack(m, o).dstat[d] = m.dstat[d]
<1> DEFINE t == TakenBack(m, o)
           c == [m EXCEPT !.offered[o] = NONE]
<1>1. Good(m) /\ Edit(s, m, o, d) /\ SameOrder(s, m, o)
  BY MovesEdit DEF Likewise
<1>2. m \in Rows
  BY <1>1 DEF Good
<1>3. /\ Edit(m, c, o, d) /\ c.offered[o] = NONE /\ c.status[o] = m.status[o]
      /\ c.driver[o] = m.driver[o] /\ c.parallel[o] = m.parallel[o]
  BY <1>1, ClearEdits, Zenon
<1>4. t \in Rows
  BY <1>2 DEF TakenBack, Rows
<1>5. /\ t.status = c.status /\ t.driver = c.driver /\ t.offered = c.offered
      /\ t.declined = c.declined /\ t.row = c.row /\ t.dstat = c.dstat /\ t.online = c.online
      /\ t.address = c.address /\ t.chatcard = c.chatcard /\ t.parallel = c.parallel
      /\ t.declined = m.declined /\ t.dstat = m.dstat
  BY <1>2 DEF TakenBack, Rows
<1> HIDE DEF c, t
<1>6. Edit(s, c, o, d) /\ Good(c)
  BY <1>1, <1>3, EditTrans DEF Edit, Keeps
<1>7. Moves(c, t, d)
  <2>1. Alongside(c, t)
    BY <1>5 DEF Alongside
  <2> QED
    BY <1>4, <1>5, <1>6, <2>1, AlongsideMoves
<1>8. Edit(s, t, o, d) /\ SameOrder(c, t, o)
  BY <1>6, <1>7, EditMoves
<1> QED
  BY <1>1, <1>3, <1>5, <1>8 DEF SameOrder, OfferEnded, t

\* Who lets an offer run out is off the line when the callback is done, so there is
\* nothing in front of the driver.
LEMMA AcceptTimeoutLeaves ==
  ASSUME AtRest(db), NEW o \in Orders, AcceptTimeout(o)
  PROVE  /\ Reaches(db, db') /\ db.offered[o] \in Drivers
         /\ db'.dstat[db.offered[o]] = "offline"
<1> DEFINE d == db.offered[o]
           m == [LeaveQueue(db, d) EXCEPT !.online[d] = FALSE]
           s == TakenBack(m, o)
           t == OfferNext(s, o, {d})
<1>1. Orderly(db) /\ Good(db) /\ db \in Rows /\ d # NONE
  BY AtRestRows DEF AcceptTimeout
<1>2. /\ d \in Drivers /\ db.status[o] = "searching"
      /\ db.driver[o] = NONE /\ db.parallel[o] = NONE
  BY <1>1, Busy
<1>3. db' \in Promotes(t, t)
  BY DEF AcceptTimeout, TakenBack
<1>4. m.dstat[d] = "offline"
  BY <1>1, <1>2, LeavesBeside
<1>5. Moves(db, m, d)
  BY <1>1, <1>2, DriverMoves
<1> HIDE DEF m
<1>6. /\ Edit(db, s, o, d) /\ s.offered[o] = NONE /\ s.status[o] = "searching"
      /\ s.driver[o] = NONE /\ s.parallel[o] = NONE /\ s.dstat[d] = "offline"
  <2>1. OfferEnded(db, s, o, d) /\ s.dstat[d] = m.dstat[d]
    BY <1>2, <1>5, TakenBackEdits
  <2> HIDE DEF s
  <2> QED
    BY <1>2, <1>4, <2>1 DEF OfferEnded
<1> HIDE DEF s
<1>7. AtRest(t) /\ Advances(s, t)
  BY <1>2, <1>6, OfferedOn
<1>8. AtRest(db') /\ Advances(t, db')
  <2> HIDE DEF t
  <2> QED
    BY <1>3, <1>7, PromotesSelfAtRest
<1>9. db'.dstat[d] = "offline"
  <2> HIDE DEF t
  <2> QED
    BY <1>2, <1>6, <1>7, <1>8 DEF Advances
<1>10. db'.offered[o] # d
  BY <1>1, <1>8, <1>9 DEF AtRest, Orderly, Fits
<1>11. Reaches(db, db')
  BY <1>2, <1>6, <1>8, <1>10, OfferedOn
<1> QED
  BY <1>2, <1>9, <1>11

\* The refusal is written down.
Noted(s, t, o, d) ==
    /\ t \in Rows /\ t.declined = [s.declined EXCEPT ![o] = @ \cup {d}]
    /\ t.status = s.status /\ t.driver = s.driver /\ t.offered = s.offered
    /\ t.parallel = s.parallel /\ t.row = s.row /\ t.dstat = s.dstat /\ t.online = s.online
    /\ t.address = s.address /\ t.chatcard = s.chatcard

LEMMA NotedEdits ==
  ASSUME NEW s, Good(s), NEW o \in Orders, NEW d \in Drivers, NEW t, Noted(s, t, o, d)
  PROVE  /\ Edit(s, t, o, d) /\ d \in t.declined[o]
         /\ t.status[o] = s.status[o] /\ t.driver[o] = s.driver[o]
         /\ t.offered[o] = s.offered[o] /\ t.parallel[o] = s.parallel[o]
<1>1. s.declined \in [Orders -> SUBSET Drivers]
  BY DEF Good, Rows
<1>2. /\ d \in t.declined[o] /\ t \in Rows
      /\ \A p \in Orders \ {o} : SameOrder(s, t, p)
  BY <1>1 DEF Noted, SameOrder
<1>3. Keeps(s, t)
  BY <1>2, SameIsGood DEF Noted
<1>4. Calm(s, t)
  BY DEF Noted, Calm
<1>5. Beside(s, t, d)
  BY <1>4, ColumnsSameDrivers, SameDriversBeside DEF Noted
<1> QED
  BY <1>2, <1>3, <1>5 DEF Edit, Noted

\* A refusal of some order ends with the order in front of somebody else.
LEMMA RefusedReaches ==
  ASSUME AtRest(db), NEW d \in Drivers, NEW o \in Orders, db.offered[o] = d,
         NEW t, t = Declined(db, d, o), NEW n, Noted(t, n, o, d), NEW r \in {n, SetAway(n, d)},
         NEW u, u = OfferNext(r, o, {}), db' = u \/ db' \in Promotes(u, u), Parked(db')
  PROVE  Reaches(db, db')
<1> DEFINE m == ReleaseOffer(db, d)
<1>1. Orderly(db) /\ Good(db)
  BY AtRestRows
<1>2. db.status[o] = "searching" /\ db.driver[o] = NONE /\ db.parallel[o] = NONE
  BY <1>1, Busy, NoneAssumption
<1>3. t = TakenBack(m, o)
  BY DEF Declined, TakenBack
<1>4. Moves(db, m, d)
  BY <1>1, DriverMoves
<1> HIDE DEF m
<1>5. /\ Edit(db, t, o, d) /\ t.offered[o] = NONE /\ t.status[o] = db.status[o]
      /\ t.driver[o] = db.driver[o] /\ t.parallel[o] = db.parallel[o]
  <2>1. OfferEnded(db, t, o, d)
    BY <1>3, <1>4, TakenBackEdits
  <2> QED
    BY <2>1 DEF OfferEnded
<1>6. Good(t)
  BY <1>5 DEF Edit, Keeps
<1>7. /\ Edit(t, n, o, d) /\ d \in n.declined[o]
      /\ n.status[o] = t.status[o] /\ n.driver[o] = t.driver[o]
      /\ n.offered[o] = t.offered[o] /\ n.parallel[o] = t.parallel[o]
  BY <1>6, NotedEdits
<1>8. Edit(db, n, o, d) /\ Good(n)
  BY <1>5, <1>7, EditTrans DEF Edit, Keeps
<1>9. Edit(db, r, o, d) /\ SameOrder(n, r, o)
  <2>1. CASE r = n
    BY <1>8, <2>1 DEF SameOrder
  <2>2. CASE r = SetAway(n, d)
    <3>1. Moves(n, r, d)
      BY <1>8, <2>2, DriverMoves
    <3> QED
      BY <1>8, <3>1, EditMoves
  <2> QED
    BY <2>1, <2>2
<1>10. /\ d \in r.declined[o] /\ r.status[o] = "searching" /\ r.driver[o] = NONE
       /\ r.offered[o] = NONE /\ r.parallel[o] = NONE
  BY <1>2, <1>5, <1>7, <1>9 DEF SameOrder
<1>11. AtRest(u) /\ Advances(r, u)
  BY <1>9, <1>10, OfferedOn
<1>12. AtRest(db') /\ Advances(u, db')
  <2>1. CASE db' = u
    BY <1>11, <2>1, SameAdvances DEF Likewise, SameOrder
  <2>2. CASE db' \in Promotes(u, u)
    BY <1>11, <2>2, PromotesSelfAtRest
  <2> QED
    BY <2>1, <2>2
<1>13. db'.offered[o] # d
  <2>1. d \in db'.declined[o]
    BY <1>10, <1>11, <1>12 DEF Advances
  <2> QED
    BY <2>1 DEF Parked, Place
<1> QED
  BY <1>9, <1>10, <1>12, <1>13, OfferedOn

\* The passenger is told that the driver has no car for it: the order is closed.
LEMMA BookedUpReaches ==
  ASSUME AtRest(db), NEW d \in Drivers, NEW o \in Orders, db.offered[o] = d,
         NEW t, t = Declined(db, d, o), NEW c, c = Dequeue(CloseFor(t, o, "cancelled"), o),
         db' \in Promotes(c, c)
  PROVE  Reaches(db, db')
<1> DEFINE m == ReleaseOffer(db, d)
<1>1. Orderly(db) /\ Good(db)
  BY AtRestRows
<1>2. /\ db.status[o] = "searching" /\ db.driver[o] = NONE /\ db.parallel[o] = NONE
      /\ Spare(db, d, o)
  BY <1>1, Busy, NoneAssumption
<1>3. t = TakenBack(m, o)
  BY DEF Declined, TakenBack
<1>4. Moves(db, m, d)
  BY <1>1, DriverMoves
<1> HIDE DEF m
<1>5. /\ Edit(db, t, o, d) /\ t.offered[o] = NONE /\ t.status[o] = db.status[o]
      /\ t.driver[o] = db.driver[o] /\ t.parallel[o] = db.parallel[o]
  <2>1. OfferEnded(db, t, o, d)
    BY <1>3, <1>4, TakenBackEdits
  <2> QED
    BY <2>1 DEF OfferEnded
<1>6. Good(t)
  BY <1>5 DEF Edit, Keeps
<1>7. Edit(t, c, o, d) /\ Shut(t, c, o, "cancelled")
  BY <1>6, CancelEdits
<1>8. /\ Edit(db, c, o, d) /\ c.status[o] = "cancelled" /\ c.driver[o] = NONE
      /\ c.offered[o] = NONE /\ c.parallel[o] = NONE
  BY <1>2, <1>5, <1>7, EditTrans DEF Shut
<1>9. Reaches(db, c)
  <2>1. /\ db.status[o] # "unborn" /\ c.status[o] \in Closed
        /\ (db.status[o] \in Riding => db.driver[o] = d)
    BY <1>2, <1>8 DEF Closed, Riding
  <2> QED
    BY <1>2, <1>8, <2>1, NoneAssumption, ClosedReaches
<1>10. c.status[o] \in Closed
  BY <1>8 DEF Closed
<1>11. c # db
  BY <1>2, <1>8
<1> QED
  BY <1>8, <1>9, <1>10, <1>11, ClosedThenPromotes

LEMMA DeclineReaches ==
  ASSUME AtRest(db), Queued(db), Plain, NEW d \in Drivers, NEW o \in Orders,
         NEW reason \in DeclineReasons, Decline(d, o, reason)
  PROVE  Reaches(db, db')
<1> DEFINE t == Declined(db, d, o)
           next == [t EXCEPT !.declined[o] = @ \cup {d}]
           far == [next EXCEPT !.special[o] = TRUE]
           cancelled == Dequeue(CloseFor(t, o, "cancelled"), o)
           u == OfferNext(next, o, {})
           f == OfferNext(far, o, {})
           a == OfferNext(SetAway(next, d), o, {})
<1>1. Begin(d) = db /\ Orderly(db) /\ Good(db) /\ db \in Rows
  BY BeginsAsIs, AtRestRows
<1>2. db.status[o] = "searching" /\ CurrentOffer(db, o) = d
  BY <1>1 DEF Decline
<1>3. db.offered[o] = d
  BY <1>2 DEF AtRest, Settled, CurrentOffer
<1>4. /\ reason = "booking" => db' \in Promotes(cancelled, cancelled)
      /\ reason = "away" => db' = a
      /\ reason = "dislike" => db' \in Promotes(u, u)
      /\ reason = "far" => db' \in Promotes(f, f)
  BY <1>1 DEF Decline
<1>5. reason \in {"booking", "away", "dislike", "far"}
  BY BehaviourAssumption DEF Plain, Reasons
<1>6. Parked(db')
  <2>1. reason \in Reasons
    BY BehaviourAssumption
  <2> QED
    BY <2>1, DeclineQueued DEF Queued
<1>7. t \in Rows
  <2> DEFINE m == ReleaseOffer(db, d)
  <2>1. Moves(db, m, d)
    BY <1>1, DriverMoves
  <2>2. t = TakenBack(m, o)
    BY DEF Declined, TakenBack
  <2> HIDE DEF m, t
  <2> QED
    BY <2>1, <2>2, TakenBackEdits DEF OfferEnded, Edit, Keeps, Good
<1> HIDE DEF t
<1>8. Noted(t, next, o, d)
  <2>1. next \in Rows
    <3>1. t.declined[o] \cup {d} \in SUBSET Drivers
      BY <1>7 DEF Rows
    <3> QED
      BY <1>7, <3>1 DEF Rows
  <2>2. /\ next.declined = [t.declined EXCEPT ![o] = @ \cup {d}]
        /\ next.status = t.status /\ next.driver = t.driver /\ next.offered = t.offered
        /\ next.parallel = t.parallel /\ next.row = t.row /\ next.dstat = t.dstat
        /\ next.online = t.online /\ next.address = t.address /\ next.chatcard = t.chatcard
    BY <1>7 DEF Rows
  <2> HIDE DEF next
  <2> QED
    BY <2>1, <2>2 DEF Noted
<1> HIDE DEF next
<1>9. Noted(t, far, o, d)
  <2>1. next \in Rows
    BY <1>8 DEF Noted
  <2>2. far \in Rows
    BY <2>1 DEF Rows
  <2>3. /\ far.declined = next.declined
        /\ far.status = next.status /\ far.driver = next.driver /\ far.offered = next.offered
        /\ far.parallel = next.parallel /\ far.row = next.row /\ far.dstat = next.dstat
        /\ far.online = next.online /\ far.address = next.address /\ far.chatcard = next.chatcard
    BY <2>1 DEF Rows
  <2> HIDE DEF far
  <2> QED
    BY <1>8, <2>2, <2>3 DEF Noted
<1> HIDE DEF far
<1>10. CASE reason = "booking"
  <2>1. db' \in Promotes(cancelled, cancelled)
    BY <1>4, <1>10
  <2> QED
    BY <1>3, <2>1, BookedUpReaches DEF t
<1>11. CASE reason = "away"
  BY <1>3, <1>4, <1>6, <1>8, <1>11, RefusedReaches DEF t
<1>12. CASE reason = "dislike"
  BY <1>3, <1>4, <1>6, <1>8, <1>12, RefusedReaches DEF t
<1>13. CASE reason = "far"
  BY <1>3, <1>4, <1>6, <1>9, <1>13, RefusedReaches DEF t
<1> QED
  BY <1>5, <1>10, <1>11, <1>12, <1>13

(***************************************************************************)
(* The reserved order                                                      *)
(***************************************************************************)
\* Nothing happens to the orders nor to the drivers.
LEMMA StillReaches ==
  ASSUME NEW s, AtRest(s), NEW t, Good(t), Likewise(s, t), SameDrivers(s, t)  PROVE Reaches(s, t)
<1>1. Orderly(t)
  BY AtRestRows, SameDriversOrderly
<1>2. \A o \in Orders : Goes(s, t, o) /\ Settled(t, o)
  BY LikewiseGoes DEF AtRest
<1> QED
  BY <1>1, <1>2 DEF Reaches, AtRest

LEMMA CardReaches ==
  ASSUME NEW s, AtRest(s), NEW t, t \in Rows, Alongside(s, t), t.parallel = s.parallel
  PROVE  Reaches(s, t) /\ AtRest(t) /\ Likewise(s, t)
<1>1. Good(s)
  BY AtRestRows
<1>2. Moves(s, t, NONE) /\ SameDrivers(s, t)
  BY <1>1, AlongsideMoves
<1>3. Good(t) /\ Likewise(s, t)
  BY <1>2 DEF Moves, Keeps
<1> QED
  BY <1>2, <1>3, StillReaches DEF Reaches

LEMMA ReserveOrderly ==
  ASSUME NEW s, Orderly(s), NEW t, Good(t), NEW o \in Orders, NEW d \in Drivers,
         \A p \in Orders \ {o} : SameOrder(s, t, p), Beside(s, t, d),
         NEW r \in Orders, Rides(s, d, r), s.status[o] \notin Riding,
         \A p \in Orders : s.driver[p] = d => s.status[p] # "parallel_assigned",
         t.status[o] = "parallel_assigned", t.driver[o] = d, t.parallel[o] = d,
         t.offered[o] = NONE, t.row[d] \in {"assigned", "none"}
  PROVE  Orderly(t)
<1>1. r # o /\ t.status[r] \in Riding /\ t.driver[r] = d
  BY DEF Rides, SameOrder
<1>2. \A p \in Orders : s.offered[p] # d
  BY NoneAssumption DEF Rides, Orderly, Fits
<1>3. Fits(t, o)
  BY NoneAssumption DEF Fits, Riding
<1>4. ASSUME NEW p \in Orders \ {o} PROVE Fits(t, p)
  <2>1. SameOrder(s, t, p) /\ Calm(s, t)
    BY DEF Beside
  <2>2. s.offered[p] # NONE => SameDriver(s, t, s.offered[p])
    BY <1>2, OrderlyRows DEF Beside
  <2>3. CASE s.status[p] \in Riding /\ s.driver[p] = d
    <3>1. s.driver[p] # NONE /\ s.parallel[p] = NONE /\ s.offered[p] = NONE
      BY <2>3 DEF Orderly, Fits, Riding
    <3>2. t.chatcard[p] => t.status[p] # "unborn"
      BY <2>1, <2>3 DEF SameOrder, Riding
    <3> QED
      BY <2>1, <2>3, <3>1, <3>2 DEF Fits, SameOrder, Riding
  <2>4. CASE s.status[p] \in Riding => s.driver[p] # d
    <3>1. s.status[p] \in Riding => SameDriver(s, t, s.driver[p])
      BY <2>4, OrderlyRows DEF Beside, Orderly, Fits
    <3> QED
      BY <2>1, <2>2, <3>1, OtherFits
  <2> QED
    BY <2>3, <2>4
<1>5. Single(t)
  <2>1. ASSUME NEW p \in Orders, NEW q \in Orders, t.status[p] \in Riding, t.status[q] \in Riding,
               t.driver[p] = t.driver[q]
        PROVE  p = q
    <3>1. p # o /\ q # o
      BY <2>1 DEF Riding
    <3> QED
      BY <2>1, <3>1 DEF SameOrder, Orderly, Single
  <2>2. ASSUME NEW p \in Orders, NEW q \in Orders, t.status[p] = "parallel_assigned",
               t.status[q] = "parallel_assigned", t.driver[p] = t.driver[q]
        PROVE  p = q
    <3>1. CASE p = o \/ q = o
      BY <2>2, <3>1 DEF SameOrder
    <3>2. CASE p # o /\ q # o
      BY <2>2, <3>2 DEF SameOrder, Orderly, Single
    <3> QED
      BY <3>1, <3>2
  <2>3. ASSUME NEW p \in Orders, t.status[p] = "parallel_assigned"
        PROVE  \E q \in Orders : t.status[q] \in Riding /\ t.driver[q] = t.driver[p]
    <3>1. CASE p = o
      BY <1>1, <3>1
    <3>2. CASE p # o
      <4>1. s.status[p] = "parallel_assigned" /\ s.driver[p] = t.driver[p]
        BY <2>3, <3>2 DEF SameOrder
      <4>2. PICK q \in Orders : s.status[q] \in Riding /\ s.driver[q] = s.driver[p]
        BY <4>1 DEF Orderly, Single
      <4>3. q # o
        BY <4>2
      <4>4. t.status[q] \in Riding /\ t.driver[q] = t.driver[p]
        BY <4>1, <4>2, <4>3 DEF SameOrder
      <4> QED
        BY <4>4
    <3> QED
      BY <3>1, <3>2
  <2> QED
    BY <2>1, <2>2, <2>3 DEF Single
<1>6. \A c \in Creators : t.address[c] = NONE
  BY DEF Orderly, Beside, Calm
<1> QED
  BY <1>3, <1>4, <1>5, <1>6 DEF Orderly

\* The order becomes the next one of a driver on a ride.
Booked(s, o, d) == [s EXCEPT !.parallel[o] = d, !.driver[o] = d,
                             !.status[o] = "parallel_assigned", !.card[o] = TRUE]

LEMMA BookedEdits ==
  ASSUME NEW s, Good(s), NEW o \in Orders, NEW d \in Drivers, s.offered[o] = NONE
  PROVE  LET t == Booked(s, o, d)
         IN /\ Edit(s, t, o, d) /\ t.status[o] = "parallel_assigned" /\ t.driver[o] = d
            /\ t.parallel[o] = d /\ t.offered[o] = NONE
<1> DEFINE t == Booked(s, o, d)
<1>1. s \in Rows
  BY DEF Good
<1>2. t \in Rows
  BY <1>1, StatusValues, Zenon DEF Booked, Rows
<1>3. /\ t.status = [s.status EXCEPT ![o] = "parallel_assigned"]
      /\ t.driver = [s.driver EXCEPT ![o] = d] /\ t.parallel = [s.parallel EXCEPT ![o] = d]
      /\ t.offered = s.offered /\ t.declined = s.declined
      /\ t.row = s.row /\ t.dstat = s.dstat /\ t.online = s.online
      /\ t.address = s.address /\ t.chatcard = s.chatcard
  BY <1>1 DEF Booked, Rows
<1>4. DOMAIN s.status = Orders /\ DOMAIN s.driver = Orders /\ DOMAIN s.parallel = Orders
  BY <1>1 DEF Rows
<1> HIDE DEF t
<1>5. /\ t.status[o] = "parallel_assigned" /\ t.driver[o] = d
      /\ t.parallel[o] = d /\ t.offered[o] = NONE
      /\ \A p \in Orders \ {o} : SameOrder(s, t, p)
  BY <1>3, <1>4 DEF SameOrder
<1>6. Keeps(s, t)
  <2>1. \A p \in Orders \ {o} :
           /\ t.status[p] = s.status[p] /\ t.offered[p] = s.offered[p]
           /\ t.driver[p] = s.driver[p] /\ t.parallel[p] = s.parallel[p]
    BY <1>5 DEF SameOrder
  <2> QED
    BY <1>2, <1>5, <2>1, OneOrderKeeps
<1>7. Calm(s, t)
  BY <1>3 DEF Calm
<1>8. Beside(s, t, d)
  BY <1>3, <1>7, ColumnsSameDrivers, SameDriversBeside
<1>9. t.status[o] # "unborn"
  BY <1>5
<1> QED
  BY <1>5, <1>6, <1>8, <1>9 DEF Edit, t

LEMMA ParallelTakeReaches ==
  ASSUME AtRest(db), NEW d \in Drivers, NEW o \in Orders, ParallelTake(d, o)
  PROVE  Reaches(db, db')
<1> DEFINE t == Repair(db, db)
           q == Dequeue(t, o)
           b == Booked(q, o, d)
<1>1. Begin(d) = db /\ Orderly(db) /\ Good(db) /\ db \in Rows
  BY BeginsAsIs, AtRestRows
<1>2. /\ \E r \in Orders : Rides(db, d, r)
      /\ Reserved(db, d) = NONE /\ db.status[o] \in Candidate
      /\ db.offered[o] = NONE /\ db' = MarkAssigned(b, d) /\ d \in ParallelUsers
  BY <1>1 DEF ParallelTake, Rides, Booked
<1>3. Orderly(t) /\ SameOrders(db, t)
  BY <1>1, RepairOrderly
<1> HIDE DEF t
<1>4. Edit(t, q, o, d) /\ Likewise(t, q) /\ SameDrivers(t, q)
  BY <1>3, OrderlyRows, OrderEdits
<1> HIDE DEF q
<1>5. Orderly(q) /\ Good(q)
  <2>1. Good(q)
    BY <1>4 DEF Edit, Keeps
  <2> QED
    BY <1>3, <1>4, <2>1, SameDriversOrderly
<1>6. \A p \in Orders : SameOrder(db, q, p)
  BY <1>3, <1>4 DEF SameOrders, Likewise, SameOrder
<1>7. q.offered[o] = NONE
  BY <1>2, <1>6 DEF SameOrder
<1>8. /\ Edit(q, b, o, d) /\ b.status[o] = "parallel_assigned" /\ b.driver[o] = d
      /\ b.parallel[o] = d /\ b.offered[o] = NONE
  BY <1>5, <1>7, BookedEdits
<1> HIDE DEF b
<1>9. Edit(q, db', o, d) /\ SameOrder(b, db', o) /\ db'.row[d] \in {"assigned", "none"}
  BY <1>2, <1>8, AssignedEdits
<1>10. /\ db'.status[o] = "parallel_assigned" /\ db'.driver[o] = d
       /\ db'.parallel[o] = d /\ db'.offered[o] = NONE
  BY <1>8, <1>9 DEF SameOrder
<1>11. /\ Good(db') /\ Beside(q, db', d) /\ \A p \in Orders \ {o} : SameOrder(q, db', p)
  BY <1>9 DEF Edit, Keeps
<1>12. PICK r \in Orders : Rides(q, d, r)
  BY <1>2, <1>6 DEF Rides, SameOrder
<1>13. q.status[o] \in Candidate
  BY <1>2, <1>6 DEF SameOrder
<1>14. \A p \in Orders : q.driver[p] = d => q.status[p] # "parallel_assigned"
  <2>1. \A p \in Orders : db.driver[p] = d => db.status[p] # "parallel_assigned"
    BY <1>1, <1>2, ReservedIs, NoneAssumption
  <2> QED
    BY <1>6, <2>1 DEF SameOrder
<1>15. Orderly(db')
  <2>1. q.status[o] \notin Riding
    BY <1>13 DEF Candidate, Riding
  <2> QED
    BY <1>5, <1>9, <1>10, <1>11, <1>12, <1>14, <2>1, ReserveOrderly
<1>16. ASSUME NEW p \in Orders PROVE Settled(db', p) /\ Goes(db, db', p)
  <2>1. CASE p = o
    BY <1>2, <1>10, <2>1 DEF Settled, Goes, Pending
  <2>2. CASE p # o
    <3>1. SameOrder(db, db', p)
      BY <1>6, <1>11, <2>2 DEF SameOrder
    <3> QED
      BY <3>1 DEF SameOrder, AtRest, Settled, Goes
  <2> QED
    BY <2>1, <2>2
<1> QED
  BY <1>15, <1>16 DEF Reaches, AtRest

\* A reservation given up waits again, or is on the screen of another driver.
LEMMA GivenUpReaches ==
  ASSUME AtRest(db), NEW o \in Orders, db.status[o] = "parallel_assigned",
         NEW t, t = Release([db EXCEPT !.card[o] = FALSE], o), db' \in Promotes(t, t)
  PROVE  Reaches(db, db')
<1> DEFINE c == [db EXCEPT !.card[o] = FALSE]
           d == db.driver[o]
<1>1. Orderly(db) /\ Good(db) /\ db \in Rows
  BY AtRestRows
<1>2. AtRest(c) /\ Likewise(db, c)
  <2>1. c \in Rows
    BY <1>1 DEF Rows
  <2>2. /\ c.status = db.status /\ c.driver = db.driver /\ c.offered = db.offered
        /\ c.declined = db.declined /\ c.row = db.row /\ c.dstat = db.dstat
        /\ c.online = db.online /\ c.address = db.address /\ c.chatcard = db.chatcard
        /\ c.parallel = db.parallel
    BY <1>1 DEF Rows
  <2> HIDE DEF c
  <2>3. Alongside(db, c)
    BY <2>2 DEF Alongside
  <2> QED
    BY <2>1, <2>2, <2>3, CardReaches
<1>3. c.status[o] = "parallel_assigned"
  BY <1>2 DEF Likewise, SameOrder
<1>4. t = Release(c, o)
  OBVIOUS
<1> HIDE DEF c
<1>5. /\ AtRest(t) /\ \A p \in Orders \ {o} : SameOrder(c, t, p)
      /\ t.status[o] = "queued" /\ t.offered[o] = NONE
  BY <1>2, <1>3, <1>4, ReleaseReaches
<1>6. \A p \in Orders \ {o} : SameOrder(db, t, p)
  BY <1>2, <1>5, ZenonT(40) DEF Likewise, SameOrder
<1>7. AtRest(db') /\ Advances(t, db')
  BY <1>5, PromotesSelfAtRest
<1>8. d # NONE /\ db.parallel[o] = d /\ db.offered[o] = NONE
  BY <1>1 DEF Orderly, Fits
<1>9. PICK r \in Orders : Rides(db, d, r)
  BY <1>1 DEF Orderly, Single, Rides
<1>10. t.status[r] \in Riding /\ t.driver[r] = d
  <2>1. r # o
    BY <1>9 DEF Rides, Riding
  <2> QED
    BY <1>6, <1>9, <2>1 DEF Rides, SameOrder
<1>11. db'.status[r] \in Riding /\ db'.driver[r] = d
  BY <1>7, <1>10 DEF Advances, Pending, Candidate, Riding
<1>12. db'.offered[o] # d
  BY <1>7, <1>8, <1>11 DEF AtRest, Orderly, Fits
<1>13. /\ db.status[o] \notin Closed \cup Riding /\ t.status[o] \in Pending
       /\ Orderly(db') /\ Settled(db', o)
  BY <1>5, <1>7 DEF Closed, Riding, Pending, Candidate, AtRest
<1> QED
  BY <1>6, <1>7, <1>8, <1>12, <1>13, OpenedReaches

LEMMA ParallelReaches ==
  ASSUME AtRest(db), NEW o \in Orders,
         \/ \E d \in Drivers : ParallelEta(d, o) \/ ParallelDecline(d, o)
         \/ ParallelEtaTimeout(o)
  PROVE  Reaches(db, db')
<1>1. CASE ParallelEtaTimeout(o)
  BY <1>1, GivenUpReaches DEF ParallelEtaTimeout
<1>2. ASSUME NEW d \in Drivers, ParallelDecline(d, o) PROVE Reaches(db, db')
  <2>1. Begin(d) = db
    BY BeginsAsIs, AtRestRows
  <2>2. /\ db.status[o] = "parallel_assigned"
        /\ LET t == Release([db EXCEPT !.card[o] = FALSE], o) IN db' \in Promotes(t, t)
    BY <1>2, <2>1 DEF ParallelDecline
  <2> QED
    BY <2>2, GivenUpReaches
<1>3. ASSUME NEW d \in Drivers, ParallelEta(d, o) PROVE Reaches(db, db')
  <2>1. Begin(d) = db /\ db \in Rows
    BY BeginsAsIs, AtRestRows
  <2>2. db' = [db EXCEPT !.card[o] = FALSE, !.peta[o] = TRUE]
    BY <1>3, <2>1, Zenon DEF ParallelEta
  <2>3. db' \in Rows
    BY <2>1, <2>2 DEF Rows
  <2>4. /\ db'.status = db.status /\ db'.driver = db.driver /\ db'.offered = db.offered
        /\ db'.declined = db.declined /\ db'.row = db.row /\ db'.dstat = db.dstat
        /\ db'.online = db.online /\ db'.address = db.address /\ db'.chatcard = db.chatcard
        /\ db'.parallel = db.parallel
    BY <2>1, <2>2 DEF Rows
  <2>5. Alongside(db, db')
    BY <2>4 DEF Alongside
  <2> QED
    BY <2>3, <2>4, <2>5, CardReaches
<1> QED
  BY <1>1, <1>2, <1>3

(***************************************************************************)
(* The invariant of the rides, and what it says                            *)
(***************************************************************************)
RideInv == AtRest(db) /\ Reserves(db)

LEMMA InitAtRest == Init => AtRest(db)
<1> SUFFICES ASSUME Init PROVE AtRest(db)
  OBVIOUS
<1>1. Good(db)
  BY InitGood
<1>2. \A o \in Orders : /\ db.status[o] = "unborn" /\ db.driver[o] = NONE
                        /\ db.offered[o] = NONE /\ db.parallel[o] = NONE /\ ~db.chatcard[o]
  BY DEF Init
<1>3. \A c \in Creators : db.address[c] = NONE
  BY DEF Init
<1>4. \A o \in Orders : Fits(db, o) /\ Settled(db, o)
  BY <1>2 DEF Fits, Settled, Riding
<1>5. Single(db)
  BY <1>2 DEF Single, Riding
<1> QED
  BY <1>1, <1>3, <1>4, <1>5 DEF AtRest, Orderly

\* What a step does to the orders: they go on, but for the ride of a broken car.
RideStep ==
    \/ Reaches(db, db')
    \/ \E d \in Drivers : CancelForCar(d) /\ CarLeft(db, db', d)

LEMMA StepReserves ==
  ASSUME Reserves(db), RideStep  PROVE Reserves(db')
<1> SUFFICES ASSUME NEW o \in Orders, db'.status[o] = "parallel_assigned"
             PROVE  db'.driver[o] \in ParallelUsers
  BY DEF Reserves
<1>1. Goes(db, db', o)
  BY DEF RideStep, Reaches, CarLeft, Closed, Pending, Candidate
<1> QED
  BY <1>1 DEF Goes, Reserves, Closed, Riding, Pending, Candidate

LEMMA RideSteps ==
  ASSUME Plain, RideInv, Queued(db), [Next]_db  PROVE RideStep
<1>0. AtRest(db) /\ Reserves(db)
  BY DEF RideInv
<1>1. CASE UNCHANGED db
  <2>1. db' = db
    BY <1>1
  <2>2. Likewise(db, db') /\ SameDrivers(db, db')
    BY <2>1, SameDriversRefl DEF Likewise, SameOrder
  <2>3. Good(db')
    BY <1>0, <2>1, AtRestRows
  <2> QED
    BY <1>0, <2>2, <2>3, StillReaches DEF RideStep
<1>2. ASSUME NEW d \in Drivers, DriverStep(d) PROVE RideStep
  <2>1. CASE CancelForCar(d)
    BY <1>0, <2>1, CancelForCarReaches DEF RideStep
  <2>2. CASE ~CancelForCar(d)
    <3>1. Reaches(db, db')
      BY <1>0, <1>2, <2>2, LineActionsReach, RideActionsReach, CompleteReaches,
         CancelForClientReaches DEF DriverStep
    <3> QED
      BY <3>1 DEF RideStep
  <2> QED
    BY <2>1, <2>2
<1>3. ASSUME NEW d \in Drivers, NEW o \in Orders, DriverOrderStep(d, o) PROVE RideStep
  <2>1. ASSUME NEW reason \in DeclineReasons, Decline(d, o, reason) PROVE Reaches(db, db')
    BY <1>0, <2>1, DeclineReaches
  <2>2. Reaches(db, db')
    BY <1>0, <1>3, <2>1, AcceptReaches, TakePendingReaches, ChatReaches, ParallelTakeReaches,
       ParallelReaches DEF DriverOrderStep
  <2> QED
    BY <2>2 DEF RideStep
<1>4. ASSUME NEW c \in Creators, CreatorStep(c) PROVE RideStep
  <2>1. db.address[c] = NONE
    BY <1>0, AtRestRows DEF Orderly
  <2>2. Reaches(db, db')
    BY <1>0, <1>4, <2>1, PassengerCancelReaches, WaitNoReaches
       DEF CreatorStep, UpdateAddress, LeaveDialogue
  <2> QED
    BY <2>2 DEF RideStep
<1>5. ASSUME NEW o \in Orders, OrderStep(o) PROVE RideStep
  <2>1. ASSUME DispCancel(o) PROVE Reaches(db, db')
    <3>1. ParallelUsers = {}
      BY <2>1 DEF DispCancel, ByDispatcher, Plain
    <3> QED
      BY <1>0, <2>1, <3>1, DispCancelReaches
  <2>2. Reaches(db, db')
    BY <1>0, <1>5, <2>1, CreateReaches, TimeoutsReach, AdminCancelReaches, AcceptTimeoutLeaves,
       ParallelReaches, ConfirmReaches DEF OrderStep
  <2> QED
    BY <2>2 DEF RideStep
<1>6. CASE RecoveryWorker
  BY <1>0, <1>6, RecoveryReaches DEF RideStep
<1> QED
  BY <1>1, <1>2, <1>3, <1>4, <1>5, <1>6 DEF Next

LEMMA RideInvariance == ASSUME Plain  PROVE Spec => []RideInv
<1>1. Init => RideInv
  BY InitAtRest DEF RideInv, Reserves, Init
<1>2. RideInv /\ ParkInv /\ [Next]_db => RideInv'
  <2> SUFFICES ASSUME RideInv, ParkInv, [Next]_db PROVE AtRest(db') /\ Reserves(db')
    BY DEF RideInv
  <2>1. RideStep
    BY RideSteps DEF ParkInv
  <2> QED
    BY <2>1, StepReserves DEF RideInv, RideStep, Reaches, CarLeft
<1> QED
  BY ParkInvariance, <1>1, <1>2, PTL DEF Spec

\* A driver has one ride, however it was taken: an accepted offer, a claim from the
\* list or the chat, a reservation whose turn has come.
THEOREM OneRidePerDriver == ASSUME Plain  PROVE Spec => []RideExclusive
<1>1. RideInv => RideExclusive
  BY DEF RideInv, AtRest, Orderly, Single, RideExclusive
<1> QED
  BY RideInvariance, <1>1, PTL

\* The driver of a ride is never served as a free one: the row says so, or is gone.
THEOREM RidersAreNotServed == ASSUME Plain  PROVE Spec => []RiderNotFree
<1>1. RideInv => RiderNotFree
  BY DEF RideInv, AtRest, Orderly, Fits, RiderNotFree
<1> QED
  BY RideInvariance, <1>1, PTL

\* A reservation has the ride it is made beside, and is the only one of its driver:
\* whatever ends the ride (arrival, a refusal, a breakdown, the passenger, the
\* administrator) takes the reservation along.
THEOREM ReservationsHaveRides == ASSUME Plain  PROVE Spec => []ReservationHasRide
<1>1. RideInv => ReservationHasRide
  <2> SUFFICES ASSUME RideInv, NEW o \in Orders, db.status[o] = "parallel_assigned"
               PROVE  /\ db.parallel[o] # NONE /\ db.driver[o] = db.parallel[o]
                      /\ \E p \in Orders : db.status[p] \in Riding /\ db.driver[p] = db.driver[o]
                      /\ \A p \in Orders \ {o} : db.parallel[p] # db.parallel[o]
    BY DEF ReservationHasRide
  <2>1. Single(db) /\ \A p \in Orders : Fits(db, p)
    BY DEF RideInv, AtRest, Orderly
  <2>2. db.parallel[o] # NONE /\ db.driver[o] = db.parallel[o]
    BY <2>1 DEF Fits
  <2>3. ASSUME NEW p \in Orders \ {o} PROVE db.parallel[p] # db.parallel[o]
    BY <2>1, <2>2 DEF Fits, Single
  <2> QED
    BY <2>1, <2>2, <2>3 DEF Single
<1> QED
  BY RideInvariance, <1>1, PTL

\* A driver on a ride is shown no offer: whoever takes an order in another way gives
\* the offer up in the same step.
THEOREM RidersAreNotAsked == ASSUME Plain  PROVE Spec => []NoOfferWhileRiding
<1>1. RideInv => NoOfferWhileRiding
  BY DEF RideInv, AtRest, Orderly, Fits, NoOfferWhileRiding
<1> QED
  BY RideInvariance, <1>1, PTL

\* The driver of an offer is online and marked, so its timeout finds the driver.
THEOREM OfferedAreReserved == ASSUME Plain  PROVE Spec => []OfferedIsReserved
<1>1. RideInv => OfferedIsReserved
  BY DEF RideInv, AtRest, Orderly, Fits, OfferedIsReserved
<1> QED
  BY RideInvariance, <1>1, PTL

\* Who lets an offer run out is given no order by the callback, by the second look of
\* _handle_no_driver as little as by the promotion that follows.
THEOREM TimedOutAreLeft == ASSUME Plain  PROVE Spec => TimedOutMovesOn
<1> DEFINE A == \A o \in Orders : AcceptTimeout(o) =>
                   \A p \in Orders : db'.offered[p] # db.offered[o]
<1>1. ASSUME RideInv, RideInv', NEW o \in Orders, AcceptTimeout(o), NEW p \in Orders
      PROVE  db'.offered[p] # db.offered[o]
  <2>1. db.offered[o] \in Drivers /\ db'.dstat[db.offered[o]] = "offline"
    BY <1>1, AcceptTimeoutLeaves DEF RideInv
  <2>2. db'.offered[p] # NONE => db'.dstat[db'.offered[p]] = "online"
    BY <1>1 DEF RideInv, AtRest, Orderly, Fits
  <2> QED
    BY <2>1, <2>2, NoneAssumption
<1>2. RideInv /\ RideInv' => A
  BY <1>1
<1>3. TimedOutMovesOn <=> [][A]_db
  BY DEF TimedOutMovesOn
<1> HIDE DEF A
<1> QED
  BY RideInvariance, <1>2, <1>3, PTL DEF Spec

\* No order is left searching without a driver to wait for.
THEOREM SearchesAreOffered == ASSUME Plain  PROVE Spec => []SearchingIsOffered
<1>1. RideInv => SearchingIsOffered
  BY DEF RideInv, AtRest, Settled, SearchingIsOffered
<1> QED
  BY RideInvariance, <1>1, PTL

\* A ride stays with its driver until it is closed or the car breaks down.
THEOREM RidesAreKept == ASSUME Plain  PROVE Spec => RideKept
<1> DEFINE A == \A o \in Orders : db.status[o] \in Riding =>
                  \/ db'.status[o] \in Closed
                  \/ db'.driver[o] = db.driver[o] /\ db'.status[o] \in Riding
                  \/ CancelForCar(db.driver[o])
<1>1. ASSUME RideInv, ParkInv, [Next]_db, NEW o \in Orders, db.status[o] \in Riding
      PROVE  \/ db'.status[o] \in Closed
             \/ db'.driver[o] = db.driver[o] /\ db'.status[o] \in Riding
             \/ CancelForCar(db.driver[o])
  <2>1. RideStep
    BY <1>1, RideSteps DEF RideInv, ParkInv
  <2>2. CASE Goes(db, db', o)
    BY <1>1, <2>2 DEF Goes, Riding, Pending, Candidate
  <2>3. CASE ~Goes(db, db', o)
    BY <1>1, <2>1, <2>3 DEF RideStep, Reaches, CarLeft
  <2> QED
    BY <2>2, <2>3
<1>2. RideInv /\ ParkInv /\ [Next]_db => A
  BY <1>1
<1>3. RideKept <=> [][A]_db
  BY DEF RideKept
<1> HIDE DEF A
<1> QED
  BY RideInvariance, ParkInvariance, <1>2, <1>3, PTL DEF Spec

(***************************************************************************)
(* The refinement                                                          *)
(***************************************************************************)
\* The place of an order in the rows s.
At(phase, who) == [phase |-> phase, by |-> who]
PlaceIn(s, o) ==
    CASE s.status[o] = "unborn" -> At("new", NONE)
      [] s.status[o] \in Closed -> At("closed", NONE)
      [] s.status[o] = "parallel_assigned" -> At("reserved", s.parallel[o])
      [] OTHER -> IF s.driver[o] # NONE THEN At("held", s.driver[o])
                  ELSE IF s.status[o] = "searching" /\ s.offered[o] # NONE
                       THEN At("offered", s.offered[o])
                  ELSE At("open", NONE)

LEMMA PlaceIsIn ==
  ASSUME NEW o  PROVE PlaceOf(o) = PlaceIn(db, o) /\ PlaceOf(o)' = PlaceIn(db', o)
BY DEF PlaceOf, PlaceIn, At

\* At rest the status alone says which place it is.
LEMMA PlaceByStatus ==
  ASSUME NEW s, AtRest(s), NEW o \in Orders
  PROVE  /\ s.status[o] = "unborn" => PlaceIn(s, o) = At("new", NONE)
         /\ s.status[o] \in Closed => PlaceIn(s, o) = At("closed", NONE)
         /\ s.status[o] = "parallel_assigned" => PlaceIn(s, o) = At("reserved", s.driver[o])
         /\ s.status[o] \in Riding => PlaceIn(s, o) = At("held", s.driver[o])
         /\ s.status[o] = "searching" =>
              PlaceIn(s, o) = At("offered", s.offered[o]) /\ s.offered[o] # NONE
         /\ s.status[o] \in Pending \ {"searching"} =>
              PlaceIn(s, o) = At("open", NONE) /\ s.offered[o] = NONE
<1>1. Orderly(s)
  BY AtRestRows
<1>2. s.status[o] = "unborn" => PlaceIn(s, o) = At("new", NONE)
  BY DEF PlaceIn, Closed
<1>3. s.status[o] \in Closed => PlaceIn(s, o) = At("closed", NONE)
  BY DEF PlaceIn, Closed
<1>4. s.status[o] = "parallel_assigned" => PlaceIn(s, o) = At("reserved", s.driver[o])
  <2>1. s.status[o] = "parallel_assigned" => s.driver[o] = s.parallel[o]
    BY <1>1 DEF Orderly, Fits
  <2> QED
    BY <2>1 DEF PlaceIn, Closed
<1>5. s.status[o] \in Riding => PlaceIn(s, o) = At("held", s.driver[o])
  <2>1. s.status[o] \in Riding => s.driver[o] # NONE
    BY <1>1 DEF Orderly, Fits
  <2> QED
    BY <2>1 DEF PlaceIn, Closed, Riding
<1>6. s.status[o] \in Pending => s.driver[o] = NONE
  BY <1>1 DEF Orderly, Fits, Pending, Candidate, Riding
<1>7. /\ s.status[o] = "searching" => s.offered[o] # NONE
      /\ s.status[o] \in Pending \ {"searching"} => s.offered[o] = NONE
  BY <1>1 DEF AtRest, Orderly, Fits, Settled
<1>8. s.status[o] = "searching" => PlaceIn(s, o) = At("offered", s.offered[o])
  BY <1>6, <1>7 DEF PlaceIn, Closed, Pending
<1>9. s.status[o] \in Pending \ {"searching"} => PlaceIn(s, o) = At("open", NONE)
  BY <1>6, <1>7 DEF PlaceIn, Closed, Pending, Candidate
<1> QED
  BY <1>2, <1>3, <1>4, <1>5, <1>7, <1>8, <1>9

LEMMA AtIs ==
  ASSUME NEW p, NEW d, NEW q, NEW e
  PROVE  /\ At(p, d).phase = p /\ At(p, d).by = d
         /\ At(p, d) = At(q, e) <=> p = q /\ d = e
         /\ Assigned!With(p, d) = At(p, d)
<1>1. At(p, d).phase = p /\ At(p, d).by = d /\ At(q, e).phase = q /\ At(q, e).by = e
  BY DEF At
<1>2. Assigned!With(p, d) = At(p, d)
  BY DEF At, Assigned!With
<1> QED
  BY <1>1, <1>2

\* A handler that moves an order as it may moves its place as Assignment allows.
LEMMA GoesMoves ==
  ASSUME NEW s, AtRest(s), NEW t, AtRest(t), NEW o \in Orders,
         \/ Goes(s, t, o)
         \/ /\ s.status[o] \in Riding /\ t.status[o] \in Closed \cup Pending
            /\ t.offered[o] # s.driver[o]
  PROVE  Assigned!Moves(PlaceIn(s, o), PlaceIn(t, o))
<1> DEFINE was == PlaceIn(s, o)
           is == PlaceIn(t, o)
<1>1. s.status[o] \in Statuses /\ t.status[o] \in Statuses
  BY AtRestRows DEF Rows
<1>2. /\ Assigned!New = At("new", NONE) /\ Assigned!Open = At("open", NONE)
      /\ Assigned!Closed = At("closed", NONE)
  BY AtIs DEF Assigned!New, Assigned!Open, Assigned!Closed
<1>3. CASE PlaceIn(t, o) = PlaceIn(s, o)
  BY <1>3 DEF Assigned!Moves
<1>4. CASE s.status[o] # "unborn" /\ t.status[o] \in Closed
  <2>1. is = At("closed", NONE)
    BY <1>4, PlaceByStatus
  <2>2. was.phase # "new"
    BY <1>1, <1>4, PlaceByStatus, AtIs DEF Statuses
  <2>3. was # Assigned!New
    BY <1>2, <2>2, AtIs
  <2> QED
    BY <1>2, <2>1, <2>3 DEF Assigned!Moves, Assigned!Closes
<1>5. CASE /\ s.status[o] \notin Closed /\ t.status[o] \in Pending
           /\ t.offered[o] # NONE => t.offered[o] # was.by
  <2>1. was # Assigned!Closed
    <3>1. was.phase # "closed"
      BY <1>1, <1>5, PlaceByStatus, AtIs DEF Statuses
    <3> QED
      BY <1>2, <3>1, AtIs
  <2>2. CASE t.status[o] = "searching"
    <3>1. is = At("offered", t.offered[o]) /\ t.offered[o] # NONE
      BY <2>2, PlaceByStatus
    <3>2. is.phase = "offered" /\ is.by = t.offered[o]
      BY <3>1, AtIs
    <3> QED
      BY <1>5, <2>1, <3>1, <3>2 DEF Assigned!Moves, Assigned!IsOffered
  <2>3. CASE t.status[o] # "searching"
    <3>1. is = At("open", NONE)
      BY <1>5, <2>3, PlaceByStatus
    <3> QED
      BY <1>2, <2>1, <3>1 DEF Assigned!Moves, Assigned!Opens
  <2> QED
    BY <2>2, <2>3
<1>6. CASE s.status[o] \in Riding /\ t.status[o] \in Pending /\ t.offered[o] # s.driver[o]
  <2>1. was.by = s.driver[o]
    BY <1>6, PlaceByStatus, AtIs
  <2>2. s.status[o] \notin Closed
    BY <1>6 DEF Riding, Closed
  <2> QED
    BY <1>5, <1>6, <2>1, <2>2
<1>7. CASE /\ s.status[o] \notin Closed \cup Riding /\ t.status[o] \in Pending
           /\ t.offered[o] # NONE => t.offered[o] \notin {s.offered[o], s.parallel[o]}
  <2>1. was.by \in {NONE, s.offered[o], s.driver[o]}
    BY <1>1, <1>7, PlaceByStatus, AtIs DEF Statuses
  <2>2. CASE s.status[o] = "parallel_assigned"
    <3>1. was.by = s.parallel[o]
      BY <2>2, AtIs DEF PlaceIn, Closed
    <3> QED
      BY <1>5, <1>7, <3>1
  <2>3. CASE s.status[o] # "parallel_assigned"
    <3>1. was.by \in {NONE, s.offered[o]}
      BY <1>1, <1>7, <2>3, PlaceByStatus, AtIs DEF Statuses
    <3> QED
      BY <1>5, <1>7, <3>1
  <2> QED
    BY <2>2, <2>3
<1>8. CASE /\ s.status[o] \in Pending /\ s.offered[o] = NONE
           /\ t.status[o] = "parallel_assigned"
  <2>1. was = At("open", NONE) /\ is = At("reserved", t.driver[o])
    BY <1>8, PlaceByStatus
  <2>2. is.phase = "reserved"
    BY <2>1, AtIs
  <2> QED
    BY <1>2, <2>1, <2>2 DEF Assigned!Moves, Assigned!IsReserved
<1>9. CASE s.status[o] \in Pending /\ t.status[o] \in Riding
  <2>1. is.phase = "held"
    BY <1>9, PlaceByStatus, AtIs
  <2>2. was.phase \in {"open", "offered"}
    BY <1>9, PlaceByStatus, AtIs
  <2> QED
    BY <2>1, <2>2 DEF Assigned!Moves, Assigned!IsTaken
<1>10. CASE /\ s.status[o] = "parallel_assigned" /\ t.status[o] \in Riding
            /\ t.driver[o] = s.driver[o]
  <2>1. was = At("reserved", s.driver[o]) /\ is = At("held", s.driver[o])
    BY <1>10, PlaceByStatus
  <2>2. is.phase = "held" /\ was = Assigned!With("reserved", is.by)
    BY <2>1, AtIs
  <2> QED
    BY <2>2 DEF Assigned!Moves, Assigned!IsTaken
<1>11. CASE /\ t.status[o] = s.status[o] /\ t.offered[o] = s.offered[o]
            /\ t.driver[o] = s.driver[o] /\ t.parallel[o] = s.parallel[o]
  <2>1. PlaceIn(t, o) = PlaceIn(s, o)
    BY <1>11 DEF PlaceIn
  <2> QED
    BY <1>3, <2>1
<1>12. CASE s.status[o] \in Riding /\ t.status[o] \in Riding /\ t.driver[o] = s.driver[o]
  <2>1. PlaceIn(t, o) = PlaceIn(s, o)
    BY <1>12, PlaceByStatus
  <2> QED
    BY <1>3, <2>1
<1>13. s.status[o] \in Riding => s.status[o] # "unborn"
  BY DEF Riding
<1> QED
  BY <1>4, <1>6, <1>7, <1>8, <1>9, <1>10, <1>11, <1>12, <1>13 DEF Goes

\* At rest a driver has one thing to do, or a ride and a reservation.
LEMMA PlacesExclude ==
  ASSUME NEW s, AtRest(s)
  PROVE  /\ \A o, p \in Orders :
              o # p /\ PlaceIn(s, o).by # NONE /\ PlaceIn(s, o).by = PlaceIn(s, p).by =>
                  {PlaceIn(s, o).phase, PlaceIn(s, p).phase} = {"reserved", "held"}
         /\ \A o \in Orders : PlaceIn(s, o).phase = "reserved" =>
              \E p \in Orders : PlaceIn(s, p) = At("held", PlaceIn(s, o).by)
<1>1. Orderly(s) /\ Single(s) /\ Good(s) /\ s \in Rows
  BY AtRestRows DEF Orderly
<1>2. ASSUME NEW o \in Orders
      PROVE  \/ PlaceIn(s, o).by = NONE /\ PlaceIn(s, o).phase \in {"new", "closed", "open"}
             \/ /\ s.status[o] = "parallel_assigned" /\ PlaceIn(s, o).by = s.driver[o]
                /\ PlaceIn(s, o).phase = "reserved"
             \/ /\ s.status[o] \in Riding /\ PlaceIn(s, o).by = s.driver[o]
                /\ PlaceIn(s, o).phase = "held" /\ PlaceIn(s, o) = At("held", s.driver[o])
             \/ /\ s.status[o] = "searching" /\ PlaceIn(s, o).by = s.offered[o]
                /\ PlaceIn(s, o).phase = "offered" /\ s.offered[o] # NONE
  <2>1. s.status[o] \in Statuses
    BY <1>1 DEF Rows
  <2> QED
    BY <2>1, PlaceByStatus, AtIs DEF Statuses
<1>3. ASSUME NEW o \in Orders, NEW p \in Orders, s.status[o] = "searching", s.offered[o] # NONE,
             s.status[p] \in Riding
      PROVE  s.offered[o] # s.driver[p]
  BY <1>1, <1>3 DEF Orderly, Fits
<1>4. ASSUME NEW o \in Orders, NEW p \in Orders, s.status[o] = "searching", s.offered[o] # NONE,
             s.status[p] = "parallel_assigned"
      PROVE  s.offered[o] # s.driver[p]
  <2>1. PICK q \in Orders : s.status[q] \in Riding /\ s.driver[q] = s.driver[p]
    BY <1>1, <1>4 DEF Single
  <2> QED
    BY <1>3, <1>4, <2>1
<1>5. ASSUME NEW o \in Orders, NEW p \in Orders, o # p, PlaceIn(s, o).by # NONE,
             PlaceIn(s, o).by = PlaceIn(s, p).by
      PROVE  {PlaceIn(s, o).phase, PlaceIn(s, p).phase} = {"reserved", "held"}
  <2>1. \/ PlaceIn(s, o).phase = "reserved" /\ PlaceIn(s, p).phase = "held"
        \/ PlaceIn(s, o).phase = "held" /\ PlaceIn(s, p).phase = "reserved"
    <3>1. CASE s.status[o] = "searching" /\ PlaceIn(s, o).by = s.offered[o]
      <4>1. s.status[p] = "searching" /\ s.offered[p] = s.offered[o]
        BY <1>2, <1>3, <1>4, <1>5, <3>1
      <4> QED
        BY <1>1, <1>5, <3>1, <4>1 DEF Good
    <3>2. CASE s.status[o] \in Riding /\ PlaceIn(s, o).phase = "held" /\ PlaceIn(s, o).by = s.driver[o]
      <4>1. s.status[p] \in Riding => s.driver[p] # s.driver[o]
        BY <1>1, <1>5, <3>2 DEF Single
      <4> QED
        BY <1>2, <1>3, <1>5, <3>2, <4>1
    <3>3. CASE /\ s.status[o] = "parallel_assigned" /\ PlaceIn(s, o).phase = "reserved"
               /\ PlaceIn(s, o).by = s.driver[o]
      <4>1. s.status[p] = "parallel_assigned" => s.driver[p] # s.driver[o]
        BY <1>1, <1>5, <3>3 DEF Single
      <4> QED
        BY <1>2, <1>4, <1>5, <3>3, <4>1
    <3> QED
      BY <1>2, <1>5, <3>1, <3>2, <3>3
  <2> QED
    BY <2>1
<1>6. ASSUME NEW o \in Orders, PlaceIn(s, o).phase = "reserved"
      PROVE  \E p \in Orders : PlaceIn(s, p) = At("held", PlaceIn(s, o).by)
  <2>1. s.status[o] = "parallel_assigned" /\ PlaceIn(s, o).by = s.driver[o]
    BY <1>2, <1>6
  <2>2. PICK p \in Orders : s.status[p] \in Riding /\ s.driver[p] = s.driver[o]
    BY <1>1, <2>1 DEF Single
  <2>3. PlaceIn(s, p) = At("held", PlaceIn(s, o).by)
    BY <2>1, <2>2, PlaceByStatus
  <2> QED
    BY <2>3
<1> QED
  BY <1>5, <1>6

\* The dispatcher implements Assignment: every event of the bot, whatever it moves,
\* is one step of it, in which each order goes on as Assignment allows and each
\* driver keeps one thing to do.
THEOREM Implements == ASSUME Plain  PROVE Spec => ImplementsAssignment
<1> DEFINE place == [o \in Orders |-> PlaceOf(o)]
<1>1. Init => Assigned!Init
  <2> SUFFICES ASSUME Init, NEW o \in Orders PROVE PlaceOf(o) = Assigned!New
    BY DEF Assigned!Init
  <2>1. db.status[o] = "unborn"
    BY DEF Init
  <2>2. PlaceIn(db, o) = At("new", NONE)
    BY <2>1 DEF PlaceIn, Closed
  <2> QED
    BY <2>2, PlaceIsIn, AtIs DEF Assigned!New
<1>2. RideInv /\ ParkInv /\ [Next]_db => Assigned!Next
  <2> SUFFICES ASSUME RideInv, ParkInv, [Next]_db PROVE Assigned!Next
    OBVIOUS
  <2>1. RideStep /\ AtRest(db)
    BY RideSteps DEF RideInv, ParkInv
  <2>2. AtRest(db')
    BY <2>1 DEF RideStep, Reaches, CarLeft
  <2>3. \A o \in Orders : place[o] = PlaceIn(db, o) /\ place'[o] = PlaceIn(db', o)
    BY PlaceIsIn
  <2>4. ASSUME NEW o \in Orders PROVE Assigned!Moves(PlaceIn(db, o), PlaceIn(db', o))
    <3>1. \/ Goes(db, db', o)
          \/ /\ db.status[o] \in Riding /\ db'.status[o] \in Closed \cup Pending
             /\ db'.offered[o] # db.driver[o]
      BY <2>1 DEF RideStep, Reaches, CarLeft
    <3> QED
      BY <2>1, <2>2, <3>1, GoesMoves
  <2>5. /\ \A o, p \in Orders :
             o # p /\ place'[o].by # NONE /\ place'[o].by = place'[p].by =>
                 {place'[o].phase, place'[p].phase} = {"reserved", "held"}
        /\ \A o \in Orders : place'[o].phase = "reserved" =>
             \E p \in Orders : place'[p] = Assigned!With("held", place'[o].by)
    BY <2>2, <2>3, PlacesExclude, AtIs
  <2> QED
    BY <2>3, <2>4, <2>5 DEF Assigned!Next, Assigned!Exclusive
<1> QED
  BY RideInvariance, ParkInvariance, <1>1, <1>2, PTL DEF Spec, ImplementsAssignment, Assigned!Spec

(***************************************************************************)
(* Cancellations stand, and the menu of a ride                             *)
(***************************************************************************)
\* The promotions move no order but those that wait.
Waits(s, t) == \A o \in Orders : t.status[o] = s.status[o] \/ s.status[o] \in Candidate

LEMMA PauseStatus ==
  ASSUME NEW v, NEW s \in Rows, NEW x  PROVE PausePrompts(v, s, x).status = s.status
<1> DEFINE asked == {o \in Orders : v.pq[o] = "polling" /\ o # x}
           owners == {CreatorOf[o] : o \in asked}
           pq == [o \in Orders |-> IF o \in asked /\ s.pq[o] # "none"
                                   THEN "waiting" ELSE s.pq[o]]
           current == [c \in Creators |-> IF c \in owners THEN NONE ELSE s.current[c]]
           address == [c \in Creators |-> IF c \in owners THEN NONE ELSE s.address[c]]
<1>1. PausePrompts(v, s, x) = [s EXCEPT !.pq = pq, !.current = current, !.address = address]
  BY DEF PausePrompts
<1> HIDE DEF pq, current, address
<1> QED
  BY <1>1 DEF Rows

LEMMA ServedWaits ==
  ASSUME NEW v, NEW s \in Rows, NEW o \in Orders, s.status[o] \in Candidate,
         NextWaiting(v, s.declined[o]) # NONE
  PROVE  Waits(s, Served(v, s, o))
<1> DEFINE d == NextWaiting(v, s.declined[o])
           q == Dequeue(s, o)
           m == [q EXCEPT !.status[o] = "searching", !.offered[o] = d, !.card[o] = TRUE,
                          !.current[CreatorOf[o]] = d, !.row[d] = "offered"]
           t == PausePrompts(m, m, o)
           u == ResetCreator(t, o)
<1>1. d \in Drivers /\ CreatorOf[o] \in Creators /\ "searching" \in Statuses
  BY NextWaitingFree DEF Creators, Statuses, Pending
<1>2. Served(v, s, o) = IF ByDispatcher(o) THEN t ELSE u
  BY DEF Served, Offer
<1> HIDE DEF d
<1>3. q \in Rows /\ q.status = s.status
  BY Zenon DEF Dequeue, Rows
<1> HIDE DEF q
<1>4. m \in Rows
  BY <1>1, <1>3 DEF Rows
<1>5. m.status = [s.status EXCEPT ![o] = "searching"] /\ s.status \in [Orders -> Statuses]
  BY <1>3 DEF Rows
<1> HIDE DEF m
<1>6. t \in Rows /\ t.status = m.status
  BY <1>4, PauseLine, PauseStatus
<1> HIDE DEF t
<1>7. u.status = t.status
  BY <1>1, <1>6 DEF ResetCreator, Rows
<1> HIDE DEF u
<1>8. Served(v, s, o).status = [s.status EXCEPT ![o] = "searching"]
  BY <1>2, <1>5, <1>6, <1>7
<1> QED
  BY <1>5, <1>8 DEF Waits

LEMMA ScanWaits ==
  ASSUME NEW list, NEW v, NEW s \in Rows, NEW t \in Scan(list, v, s)  PROVE Waits(s, t)
<1>1. CASE t = s
  BY <1>1 DEF Waits
<1>2. CASE t # s
  <2>1. PICK o \in Servable(list, v, s) : t \in Outcomes(v, s, o)
    BY <1>2 DEF Scan
  <2>2. o \in Orders /\ NextWaiting(v, s.declined[o]) # NONE
    BY <2>1 DEF Servable
  <2>3. \/ t = Asked(s, o)
        \/ t = Served(v, s, o) /\ s.status[o] \in Candidate
    BY <1>2, <2>1 DEF Outcomes
  <2>4. CASE t = Asked(s, o)
    <3>1. t.status = s.status
      BY <2>4 DEF Asked, Rows
    <3> QED
      BY <3>1 DEF Waits
  <2> QED
    BY <2>2, <2>3, <2>4, ServedWaits
<1> QED
  BY <1>1, <1>2

LEMMA PromotesWaits ==
  ASSUME NEW v \in Rows, NEW s, Good(s), NEW t \in Promotes(v, s)  PROVE Waits(s, t)
<1> DEFINE r == Repair(v, s)
           w == IF r = s THEN v ELSE r
           p == PausePrompts(w, r, NONE)
<1>1. Good(r) /\ r.status = s.status /\ r \in Rows
  BY RepairGood DEF Good
<1>2. t \in {s, r} \cup Scan(v, w, r) \cup Scan(w, w, p)
  BY DEF Promotes
<1> HIDE DEF r, w
<1>3. p \in Rows /\ p.status = s.status
  BY <1>1, PauseLine, PauseStatus
<1> HIDE DEF p
<1> QED
  BY <1>1, <1>2, <1>3, ScanWaits DEF Waits

\* An order closed by its passenger stays closed through the promotions.
LEMMA PassengerCancelSticks ==
  ASSUME Good(db), NEW c \in Creators, PassengerCancel(c)
  PROVE  db'.status[OrderOf(db, c)] = "cancelled"
<1> DEFINE o == OrderOf(db, c)
           d == db.driver[o]
           off == db.offered[o]
           s == Dequeue(CloseFor(db, o, "cancelled"), o)
           free == [s EXCEPT !.parallel[o] = NONE, !.driver[o] = NONE]
           t == IF off = NONE THEN s ELSE [ReleaseOffer(s, off) EXCEPT !.offered[o] = NONE]
           u == Relieve(db, s, d)
<1>1. o \in Orders
  BY NewestIn DEF PassengerCancel, OrderOf
<1>2. IF d = NONE THEN db' \in Promotes(db, t)
      ELSE IF db.parallel[o] # NONE THEN db' \in Promotes(db, free)
      ELSE \E v \in {db, u} : db' \in Promotes(v, u)
  BY DEF PassengerCancel
<1> HIDE DEF o
<1>3. off \in Drivers \cup {NONE} /\ d \in Drivers \cup {NONE}
  BY <1>1, OrderColumns
<1> HIDE DEF d, off
<1>4. Good(s) /\ s.status[o] = "cancelled"
  BY <1>1, CancelEdits DEF Edit, Keeps, Shut
<1> HIDE DEF s
<1>5. Good(t) /\ t.status[o] = "cancelled"
  <2>1. CASE off = NONE
    BY <1>4, <2>1
  <2>2. CASE off # NONE
    <3>1. t = Withdrawn(s, o, off)
      BY <2>2 DEF Withdrawn
    <3> HIDE DEF t
    <3> QED
      BY <1>1, <1>3, <1>4, <2>2, <3>1, WithdrawnStatus
  <2> QED
    BY <2>1, <2>2
<1>6. Good(free) /\ free.status[o] = "cancelled"
  BY <1>1, <1>4, ClearEdits, Zenon DEF Edit, Keeps
<1>7. ASSUME d # NONE, db.parallel[o] = NONE PROVE Good(u) /\ u.status[o] = "cancelled"
  <2>1. Good(u)
    <3>1. Keeps(db, s)
      BY <1>1, ClosedDequeued DEF s
    <3> QED
      BY <1>3, <1>7, <3>1, RelieveGood DEF Keeps
  <2>2. CASE Reserved(db, d) = NONE
    <3>1. Likewise(s, u)
      BY <1>3, <1>4, <1>7, <2>2, DriverMoves DEF Relieve, Moves
    <3> QED
      BY <1>1, <1>4, <2>1, <3>1 DEF Likewise, SameOrder
  <2>3. CASE Reserved(db, d) # NONE
    <3> DEFINE q == Reserved(db, d)
    <3>1. db.parallel[q] = d /\ q # o
      <4>1. q \in {p \in Orders : db.parallel[p] = d /\ db.status[p] = "parallel_assigned"}
        BY <2>3, OldestIn DEF Reserved
      <4> QED
        BY <1>7, <4>1
    <3>2. u = [s EXCEPT !.status[q] = "assigned", !.driver[q] = d, !.parallel[q] = NONE,
                        !.peta[q] = FALSE]
      BY <2>3 DEF Relieve, PromoteAfter
    <3> HIDE DEF q, u
    <3>3. u.status = [s.status EXCEPT ![q] = "assigned"] /\ DOMAIN s.status = Orders
      BY <1>4, <3>2 DEF Good, Rows
    <3> QED
      BY <1>1, <1>4, <2>1, <3>1, <3>3 DEF u
  <2> QED
    BY <2>1, <2>2, <2>3
<1> HIDE DEF t, free, u
<1>8. ASSUME NEW v \in Rows, NEW w, Good(w), w.status[o] = "cancelled", db' \in Promotes(v, w)
      PROVE  db'.status[o] = "cancelled"
  BY <1>1, <1>8, PromotesWaits DEF Waits, Candidate
<1>9. db \in Rows /\ (Good(u) => u \in Rows)
  BY DEF Good
<1> QED
  BY <1>2, <1>5, <1>6, <1>7, <1>8, <1>9 DEF o

(***************************************************************************)
(* Without reservations                                                    *)
(***************************************************************************)
\* No order is reserved: nothing but ParallelTake writes a driver into the column.
Unreserved(s) == "parallel" \in DOMAIN s /\ s.parallel = [o \in Orders |-> NONE]

LEMMA LineUnreserved ==
  ASSUME NEW s, Unreserved(s), NEW d
  PROVE  /\ Unreserved(SetAway(s, d)) /\ Unreserved(MarkAssigned(s, d))
         /\ Unreserved(ReleaseOffer(s, d)) /\ Unreserved(RestorePosition(s, d))
         /\ Unreserved([LeaveQueue(s, d) EXCEPT !.online[d] = FALSE])
         /\ Unreserved([JoinQueue(s, d) EXCEPT !.online[d] = TRUE])
         /\ Unreserved(LeaveQueue(s, d))
         /\ \A temp : Unreserved(LeaveTemporary(s, d, temp))
BY DEF Unreserved, SetAway, MarkAssigned, ReleaseOffer, RestorePosition, LeaveQueue, JoinQueue,
       LeaveTemporary

LEMMA RowsUnreserved ==
  ASSUME NEW s, Unreserved(s), NEW o
  PROVE  /\ Unreserved(Dequeue(s, o)) /\ Unreserved(Enqueue(s, o))
         /\ Unreserved(ResetCreator(s, o)) /\ Unreserved(Follow(s, o)) /\ Unreserved(Asked(s, o))
         /\ \A v : Unreserved(Repair(v, s))
         /\ \A v : Unreserved(PausePrompts(v, s, o))
         /\ \A v, d : Unreserved(PromoteAfter(v, s, d))
<1>1. Unreserved(Dequeue(s, o)) /\ Unreserved(Enqueue(s, o))
  BY DEF Unreserved, Dequeue, Enqueue
<1>2. Unreserved(ResetCreator(s, o)) /\ Unreserved(Follow(s, o)) /\ Unreserved(Asked(s, o))
  BY DEF Unreserved, ResetCreator, Follow, Asked
<1>3. \A v : Unreserved(Repair(v, s))
  BY DEF Unreserved, Repair
<1>4. \A v : Unreserved(PausePrompts(v, s, o))
  BY DEF Unreserved, PausePrompts
<1>5. \A v, d : Unreserved(PromoteAfter(v, s, d))
  BY DEF Unreserved, PromoteAfter
<1> QED
  BY <1>1, <1>2, <1>3, <1>4, <1>5

LEMMA OfferUnreserved ==
  ASSUME NEW s, Unreserved(s), NEW o
  PROVE  /\ \A d : Unreserved(Offer(s, o, d))
         /\ Unreserved(NoDriver(s, o))
         /\ \A excluded : Unreserved(OfferNext(s, o, excluded))
<1>1. ASSUME NEW r, Unreserved(r), NEW d  PROVE Unreserved(Offer(r, o, d))
  <2> DEFINE t == [r EXCEPT !.status[o] = "searching", !.offered[o] = d, !.card[o] = TRUE,
                            !.current[CreatorOf[o]] = d, !.row[d] = "offered"]
  <2>1. Unreserved(t)
    BY <1>1 DEF Unreserved
  <2> HIDE DEF t
  <2>2. Unreserved(PausePrompts(t, t, o))
    BY <2>1, RowsUnreserved
  <2> QED
    BY <2>2 DEF Offer, t
<1>2. ASSUME NEW r, Unreserved(r)  PROVE Unreserved(NoDriver(r, o))
  <2> DEFINE t == [r EXCEPT !.status[o] = "no_drivers"]
             u == [t EXCEPT !.status[o] = "chat_search", !.chatcard[o] = TRUE]
  <2>1. Unreserved(t)
    BY <1>2 DEF Unreserved
  <2> HIDE DEF t
  <2>2. Unreserved(u) /\ Unreserved(Enqueue(t, o))
    BY <2>1, RowsUnreserved DEF Unreserved
  <2> HIDE DEF u
  <2>3. NoDriver(r, o) \in {t, u, Enqueue(t, o)}
    BY DEF NoDriver, t, u
  <2> QED
    BY <2>1, <2>2, <2>3
<1>3. Unreserved(Repair(s, s))
  BY RowsUnreserved
<1>4. \A excluded : Unreserved(OfferNext(s, o, excluded))
  BY <1>1, <1>2, <1>3 DEF OfferNext
<1> QED
  BY <1>1, <1>2, <1>4

LEMMA PromotesUnreserved ==
  ASSUME NEW v, NEW s, Unreserved(s), NEW t \in Promotes(v, s)  PROVE Unreserved(t)
<1>1. ASSUME NEW list, NEW w, NEW r, Unreserved(r), NEW u \in Scan(list, w, r)  PROVE Unreserved(u)
  <2>1. ASSUME NEW o  PROVE Unreserved(Served(w, r, o)) /\ Unreserved(Asked(r, o))
    <3>1. Unreserved(Dequeue(r, o)) /\ Unreserved(Asked(r, o))
      BY <1>1, RowsUnreserved
    <3>2. \A d : Unreserved(Offer(Dequeue(r, o), o, d))
      BY <3>1, OfferUnreserved
    <3>3. \A d : Unreserved(ResetCreator(Offer(Dequeue(r, o), o, d), o))
      BY <3>2, RowsUnreserved
    <3> QED
      BY <3>1, <3>2, <3>3 DEF Served
  <2>2. u = r \/ \E o \in Orders : u \in Outcomes(w, r, o)
    BY <1>1 DEF Scan, Servable
  <2> QED
    BY <1>1, <2>1, <2>2 DEF Outcomes
<1> DEFINE r == Repair(v, s)
           w == IF r = s THEN v ELSE r
           p == PausePrompts(w, r, NONE)
<1>2. Unreserved(r)
  BY RowsUnreserved
<1>3. t \in {s, r} \cup Scan(v, w, r) \cup Scan(w, w, p)
  BY DEF Promotes
<1> HIDE DEF r, w
<1>4. Unreserved(p)
  BY <1>2, RowsUnreserved
<1> HIDE DEF p
<1> QED
  BY <1>1, <1>2, <1>3, <1>4

LEMMA CloseUnreserved ==
  ASSUME NEW s, Unreserved(s), NEW o
  PROVE  /\ \A status : Unreserved(Close(s, o, status)) /\ Unreserved(CloseFor(s, o, status))
         /\ Unreserved(Release(s, o))
         /\ \A v, d : Unreserved(Relieve(v, s, d))
<1>1. ASSUME NEW status  PROVE Unreserved(Close(s, o, status))
  <2> DEFINE t == ForgetSearch(s, o)
             u == ForgetRide(t, o)
  <2>1. Unreserved(t)
    BY DEF Unreserved, ForgetSearch
  <2> HIDE DEF t
  <2>2. Unreserved(u)
    BY <2>1 DEF Unreserved, ForgetRide
  <2> HIDE DEF u
  <2>3. Unreserved([u EXCEPT !.status[o] = status, !.driver[o] = NONE])
    BY <2>2 DEF Unreserved
  <2> QED
    BY <2>3 DEF Close, t, u
<1>2. ASSUME NEW status  PROVE Unreserved(CloseFor(s, o, status))
  BY <1>1, RowsUnreserved DEF CloseFor
<1>3. Unreserved(Release(s, o))
  <2> DEFINE t == [s EXCEPT !.parallel[o] = NONE, !.peta[o] = FALSE, !.driver[o] = NONE,
                            !.status[o] = "queued"]
             u == Enqueue(t, o)
  <2>1. Unreserved(t)
    BY DEF Unreserved
  <2> HIDE DEF t
  <2>2. Unreserved(u)
    BY <2>1, RowsUnreserved
  <2> HIDE DEF u
  <2>3. Unreserved([u EXCEPT !.pq[o] = "waiting"])
    BY <2>2 DEF Unreserved
  <2> QED
    BY <2>3 DEF Release, t, u
<1>4. \A v, d : Unreserved(Relieve(v, s, d))
  BY RowsUnreserved, LineUnreserved DEF Relieve
<1> QED
  BY <1>1, <1>2, <1>3, <1>4

LEMMA BeginUnreserved ==
  ASSUME Unreserved(db), NEW d
  PROVE  Unreserved(Adopt(db, d)) /\ Unreserved(Begin(d))
<1>1. Unreserved(Adopt(db, d))
  <2>1. \A o : Unreserved([db EXCEPT !.driver[o] = d])
    BY DEF Unreserved
  <2>2. ASSUME NEW t, Unreserved(t), NEW o
        PROVE  Unreserved([t EXCEPT !.parallel[o] = NONE, !.peta[o] = FALSE])
    BY <2>2 DEF Unreserved
  <2> QED
    BY <2>1, <2>2, Zenon DEF Adopt
<1>2. ASSUME NEW s, Unreserved(s)  PROVE Unreserved(ReleaseStale(s, d))
  <2>1. ASSUME NEW o
        PROVE  Unreserved(OfferNext(MarkAssigned([s EXCEPT !.offered[o] = NONE,
                 !.status[o] = "created", !.card[o] = FALSE], d), o, {d}))
    <3> DEFINE t == [s EXCEPT !.offered[o] = NONE, !.status[o] = "created", !.card[o] = FALSE]
               u == MarkAssigned(t, d)
    <3>1. Unreserved(t)
      BY <1>2 DEF Unreserved
    <3> HIDE DEF t
    <3>2. Unreserved(u)
      BY <3>1, LineUnreserved
    <3> HIDE DEF u
    <3>3. Unreserved(OfferNext(u, o, {d}))
      BY <3>2, OfferUnreserved
    <3> QED
      BY <3>3 DEF t, u
  <2> QED
    BY <1>2, <2>1, Zenon DEF ReleaseStale
<1> QED
  BY <1>1, <1>2 DEF Begin

LEMMA TakenUnreserved ==
  ASSUME NEW s, Unreserved(s), NEW d, NEW o
  PROVE  /\ \A back : Unreserved(Claim(s, d, o, back))
         /\ \A other : Unreserved(Taken(s, d, o, other))
<1>1. ASSUME NEW back  PROVE Unreserved(Claim(s, d, o, back))
  <2> DEFINE j == IF back THEN [JoinQueue(s, d) EXCEPT !.online[d] = TRUE] ELSE s
             q == Dequeue(j, o)
             u == [q EXCEPT !.offered[o] = NONE, !.driver[o] = d, !.status[o] = "assigned",
                            !.deadline[o] = FALSE]
  <2>1. Unreserved(j)
    BY LineUnreserved
  <2> HIDE DEF j
  <2>2. Unreserved(q)
    BY <2>1, RowsUnreserved
  <2> HIDE DEF q
  <2>3. Unreserved(u)
    BY <2>2 DEF Unreserved
  <2> HIDE DEF u
  <2>4. Unreserved(MarkAssigned(u, d))
    BY <2>3, LineUnreserved
  <2> QED
    BY <2>4 DEF Claim, j, q, u
<1>2. ASSUME NEW c, Unreserved(c), NEW temp  PROVE Unreserved([c EXCEPT !.temp[o] = temp, !.card[o] = TRUE])
  BY <1>2 DEF Unreserved
<1>3. ASSUME NEW other  PROVE Unreserved(Taken(s, d, o, other))
  <2> DEFINE temp == ~s.online[d]
             c == Claim(s, d, o, temp \/ s.dstat[d] = "away")
             t == [c EXCEPT !.temp[o] = temp, !.card[o] = TRUE]
  <2>1. Unreserved(c)
    BY <1>1
  <2> HIDE DEF c
  <2>2. Unreserved(t)
    BY <1>2, <2>1, Zenon
  <2>3. Taken(s, d, o, other) = IF other = NONE THEN t ELSE OfferNext(t, other, {})
    BY DEF Taken, c
  <2> HIDE DEF t
  <2> QED
    BY <2>2, <2>3, OfferUnreserved
<1> QED
  BY <1>1, <1>3

\* One handler after the other.
LEMMA LineActionsUnreserved ==
  ASSUME Unreserved(db), NEW d,
         \/ DriverMessage(d) \/ GoOnline(d) \/ GoOffline(d) \/ GoAway(d) \/ AwayExpire(d)
         \/ ShowEtaMenu(d) \/ SetEta(d) \/ Arrived(d) \/ Seated(d)
  PROVE  Unreserved(db')
<1> DEFINE s == Begin(d)
           o == ActiveRide(s, d)
           j == [JoinQueue(s, d) EXCEPT !.online[d] = TRUE]
<1>1. Unreserved(s)
  BY BeginUnreserved
<1>2. CASE DriverMessage(d) \/ GoOffline(d) \/ GoAway(d) \/ AwayExpire(d)
  <2>1. db' \in {s, [LeaveQueue(s, d) EXCEPT !.online[d] = FALSE], SetAway(s, d),
                 [LeaveQueue(db, d) EXCEPT !.online[d] = FALSE]}
    BY <1>2, Zenon DEF DriverMessage, GoOffline, GoAway, AwayExpire
  <2> HIDE DEF s
  <2>2. /\ Unreserved([LeaveQueue(s, d) EXCEPT !.online[d] = FALSE])
        /\ Unreserved(SetAway(s, d))
        /\ Unreserved([LeaveQueue(db, d) EXCEPT !.online[d] = FALSE])
    BY <1>1, LineUnreserved
  <2> QED
    BY <1>1, <2>1, <2>2, Zenon
<1>3. CASE GoOnline(d)
  <2>1. Unreserved(j) /\ db' \in Promotes(j, j)
    BY <1>1, <1>3, LineUnreserved DEF GoOnline
  <2> HIDE DEF j
  <2> QED
    BY <2>1, PromotesUnreserved
<1> HIDE DEF s
<1>4. CASE ShowEtaMenu(d) \/ SetEta(d) \/ Arrived(d) \/ Seated(d)
  <2> HIDE DEF o
  <2>1. /\ \A b : Unreserved([s EXCEPT !.card[o] = b])
        /\ \A status : Unreserved([s EXCEPT !.status[o] = status])
    BY <1>1 DEF Unreserved
  <2>2. \/ \E b \in BOOLEAN : db' = [s EXCEPT !.card[o] = b] \/ db' = Follow([s EXCEPT !.card[o] = b], o)
        \/ \E status \in Riding : db' = Follow([s EXCEPT !.status[o] = status], o)
    BY <1>4 DEF ShowEtaMenu, SetEta, Arrived, Seated, s, o, Riding
  <2> QED
    BY <2>1, <2>2, RowsUnreserved
<1> QED
  BY <1>2, <1>3, <1>4

LEMMA EndsUnreserved ==
  ASSUME Unreserved(db), NEW d, Complete(d) \/ CancelForClient(d)
  PROVE  Unreserved(db')
<1> DEFINE s == Begin(d)
           o == ActiveRide(s, d)
<1>1. Unreserved(s)
  BY BeginUnreserved
<1>2. CASE Complete(d)
  <2> DEFINE c == CloseFor(s, o, "completed")
             t == LeaveTemporary(c, d, s.temp[o])
  <2>1. Unreserved(c)
    BY <1>1, CloseUnreserved
  <2>2. db' = PromoteAfter(s, t, d) \/ db' = SetAway(t, d)
    BY <1>2 DEF Complete
  <2> HIDE DEF c, s, o
  <2>3. Unreserved(t)
    BY <2>1, LineUnreserved
  <2> HIDE DEF t
  <2> QED
    BY <2>2, <2>3, LineUnreserved, RowsUnreserved
<1>3. CASE CancelForClient(d)
  <2> DEFINE c == CloseFor(s, o, "cancelled")
             w == LeaveTemporary(c, d, s.temp[o])
             t == LeaveTemporary(SetAway(c, d), d, s.temp[o])
  <2>1. Unreserved(c)
    BY <1>1, CloseUnreserved
  <2>2. db' = PromoteAfter(s, w, d) \/ \E r \in Promotes(t, t) : db' = SetAway(r, d)
    BY <1>3 DEF CancelForClient
  <2> HIDE DEF c, s, o
  <2>3. Unreserved(w) /\ Unreserved(t)
    BY <2>1, LineUnreserved
  <2> HIDE DEF t, w
  <2> QED
    BY <2>2, <2>3, PromotesUnreserved, LineUnreserved, RowsUnreserved
<1> QED
  BY <1>2, <1>3

LEMMA CarUnreserved ==
  ASSUME Unreserved(db), NEW d, CancelForCar(d)
  PROVE  Unreserved(db')
<1> DEFINE s == Begin(d)
           o == ActiveRide(s, d)
           first == [s EXCEPT !.deadline[o] = FALSE]
           t == Release(first, Reserved(s, d))
           Ended(r) == SetAway([LeaveQueue(Close(r, o, "cancelled"), d)
                                   EXCEPT !.online[d] = FALSE, !.driver[o] = d], d)
           Again(r) == OfferNext(SetAway([r EXCEPT !.driver[o] = NONE,
                                                   !.status[o] = "searching"], d), o, {})
<1>1. PICK r \in {first} \cup Promotes(t, t) :
        db' = Ended(r) \/ \E q \in Promotes(Again(r), Again(r)) : db' = SetAway(q, d)
  BY Zenon DEF CancelForCar
<1>2. Unreserved(s)
  BY BeginUnreserved
<1> HIDE DEF s, o
<1>3. Unreserved(first)
  BY <1>2 DEF Unreserved
<1> HIDE DEF first
<1>4. Unreserved(t)
  BY <1>3, CloseUnreserved
<1> HIDE DEF t
<1>5. Unreserved(r)
  BY <1>1, <1>3, <1>4, PromotesUnreserved
<1>6. Unreserved(Ended(r))
  <2> DEFINE c == LeaveQueue(Close(r, o, "cancelled"), d)
             e == [c EXCEPT !.online[d] = FALSE, !.driver[o] = d]
  <2>1. Unreserved(c)
    BY <1>5, CloseUnreserved, LineUnreserved
  <2> HIDE DEF c
  <2>2. Unreserved(e)
    BY <2>1 DEF Unreserved
  <2> HIDE DEF e
  <2>3. Unreserved(SetAway(e, d))
    BY <2>2, LineUnreserved
  <2> QED
    BY <2>3 DEF c, e
<1>7. Unreserved(Again(r))
  <2> DEFINE b == [r EXCEPT !.driver[o] = NONE, !.status[o] = "searching"]
             a == SetAway(b, d)
  <2>1. Unreserved(b)
    BY <1>5 DEF Unreserved
  <2> HIDE DEF b
  <2>2. Unreserved(a)
    BY <2>1, LineUnreserved
  <2> HIDE DEF a
  <2>3. Unreserved(OfferNext(a, o, {}))
    BY <2>2, OfferUnreserved
  <2> QED
    BY <2>3 DEF a, b
<1> HIDE DEF Ended, Again
<1> QED
  BY <1>1, <1>6, <1>7, PromotesUnreserved, LineUnreserved

LEMMA AnswersUnreserved ==
  ASSUME Unreserved(db), NEW d, NEW o, Accept(d, o) \/ \E reason \in Reasons : Decline(d, o, reason)
  PROVE  Unreserved(db')
<1> DEFINE s == Begin(d)
<1>1. Unreserved(s)
  BY BeginUnreserved
<1>2. CASE Accept(d, o)
  <2> DEFINE t == [s EXCEPT !.offered[o] = NONE, !.driver[o] = d, !.status[o] = "assigned",
                            !.card[o] = TRUE, !.deadline[o] = FALSE]
  <2>1. db' = MarkAssigned(t, d)
    BY <1>2 DEF Accept
  <2> HIDE DEF s
  <2>2. Unreserved(t)
    BY <1>1 DEF Unreserved
  <2> HIDE DEF t
  <2> QED
    BY <2>1, <2>2, LineUnreserved
<1>3. ASSUME NEW reason \in Reasons, Decline(d, o, reason)  PROVE Unreserved(db')
  <2> DEFINE t == Declined(s, d, o)
             next == [t EXCEPT !.declined[o] = @ \cup {d}]
             far == [next EXCEPT !.special[o] = TRUE]
             closed == CloseFor(t, o, "cancelled")
             cancelled == Dequeue(closed, o)
             asking == [t EXCEPT !.status[o] = "created",
                                 !.address[CreatorOf[o]] = IF ByDispatcher(o) THEN @ ELSE o]
             away == SetAway(next, d)
             N(r) == OfferNext(r, o, {})
  <2>1. \/ db' \in Promotes(cancelled, cancelled) \/ db' \in Promotes(asking, asking)
        \/ db' = N(away) \/ db' \in Promotes(N(next), N(next)) \/ db' \in Promotes(N(far), N(far))
    BY <1>3 DEF Decline, Reasons
  <2>2. Unreserved(t)
    <3> DEFINE f == ReleaseOffer(s, d)
    <3>1. Unreserved(f)
      BY <1>1, LineUnreserved
    <3>2. t = [f EXCEPT !.offered[o] = NONE, !.card[o] = FALSE, !.current[CreatorOf[o]] = NONE]
      BY DEF Declined
    <3> HIDE DEF f, t
    <3> QED
      BY <3>1, <3>2 DEF Unreserved
  <2> HIDE DEF t
  <2>3. Unreserved(next) /\ Unreserved(asking)
    BY <2>2 DEF Unreserved
  <2> HIDE DEF next, asking
  <2>4. Unreserved(far)
    BY <2>3 DEF Unreserved
  <2> HIDE DEF far
  <2>5. Unreserved(closed) /\ Unreserved(away)
    BY <2>2, <2>3, CloseUnreserved, LineUnreserved
  <2> HIDE DEF closed, away
  <2>6. Unreserved(cancelled)
    BY <2>5, RowsUnreserved
  <2> HIDE DEF cancelled
  <2>7. Unreserved(N(next)) /\ Unreserved(N(far)) /\ Unreserved(N(away))
    BY <2>3, <2>4, <2>5, OfferUnreserved
  <2> HIDE DEF N
  <2> QED
    BY <2>1, <2>3, <2>6, <2>7, PromotesUnreserved
<1> QED
  BY <1>2, <1>3

LEMMA ClaimsUnreserved ==
  ASSUME Unreserved(db), NEW d, NEW o, TakePending(d, o) \/ ChatTake(d, o) \/ ChatTakeLate(d, o)
  PROVE  Unreserved(db')
<1>1. Unreserved(Begin(d)) /\ Unreserved(Adopt(db, d))
  BY BeginUnreserved
<1>2. CASE TakePending(d, o)
  <2>1. PICK back : db' = [Claim(Begin(d), d, o, back) EXCEPT !.parallel[o] = NONE,
                                !.temp[o] = FALSE, !.card[o] = TRUE]
    BY <1>2, Zenon DEF TakePending
  <2> DEFINE c == Claim(Begin(d), d, o, back)
  <2>2. Unreserved(c)
    BY <1>1, TakenUnreserved
  <2> HIDE DEF c
  <2>3. Unreserved([c EXCEPT !.parallel[o] = NONE, !.temp[o] = FALSE, !.card[o] = TRUE])
    BY <2>2 DEF Unreserved
  <2> QED
    BY <2>1, <2>3 DEF c
<1>3. CASE ChatTake(d, o)
  <2> DEFINE s == Adopt(db, d)
             p == PendingOffer(s, d)
             dead == [s EXCEPT !.offered[p] = NONE]
             live == ReleaseOffer(dead, d)
  <2>1. db' \in {Taken(s, d, o, NONE), Taken(dead, d, o, NONE), Taken(live, d, o, p)}
    BY <1>3 DEF ChatTake
  <2>2. Unreserved(s)
    BY <1>1
  <2> HIDE DEF s, p
  <2>3. Unreserved(dead)
    BY <2>2 DEF Unreserved
  <2> HIDE DEF dead
  <2>4. Unreserved(live)
    BY <2>3, LineUnreserved
  <2> HIDE DEF live
  <2> QED
    BY <2>1, <2>2, <2>3, <2>4, TakenUnreserved
<1>4. CASE ChatTakeLate(d, o)
  BY <1>1, <1>4, TakenUnreserved DEF ChatTakeLate
<1> QED
  BY <1>2, <1>3, <1>4

LEMMA ReservedUnreserved ==
  ASSUME Unreserved(db), ParallelUsers = {}, NEW d, NEW o,
         \/ ParallelTake(d, o) \/ ParallelEta(d, o) \/ ParallelDecline(d, o)
         \/ ParallelEtaTimeout(o)
  PROVE  Unreserved(db')
<1>1. ~ParallelTake(d, o)
  BY DEF ParallelTake
<1>2. ASSUME NEW s, Unreserved(s)
      PROVE  /\ Unreserved([s EXCEPT !.card[o] = FALSE, !.peta[o] = TRUE])
             /\ Unreserved(Release([s EXCEPT !.card[o] = FALSE], o))
  <2> DEFINE t == [s EXCEPT !.card[o] = FALSE]
  <2>1. Unreserved(t) /\ Unreserved([s EXCEPT !.card[o] = FALSE, !.peta[o] = TRUE])
    BY <1>2 DEF Unreserved
  <2> HIDE DEF t
  <2>2. Unreserved(Release(t, o))
    BY <2>1, CloseUnreserved
  <2> QED
    BY <2>1, <2>2 DEF t
<1>3. Unreserved(Begin(d))
  BY BeginUnreserved
<1>4. CASE ParallelEta(d, o)
  BY <1>2, <1>3, <1>4, Zenon DEF ParallelEta
<1>5. CASE ParallelDecline(d, o) \/ ParallelEtaTimeout(o)
  <2>1. \E s \in {db, Begin(d)} : LET t == Release([s EXCEPT !.card[o] = FALSE], o)
                                  IN db' \in Promotes(t, t)
    BY <1>5 DEF ParallelDecline, ParallelEtaTimeout
  <2> QED
    BY <1>2, <1>3, <2>1, PromotesUnreserved, Zenon
<1> QED
  BY <1>1, <1>4, <1>5

LEMMA CreatorsUnreserved ==
  ASSUME Unreserved(db), NEW c, CreatorStep(c)
  PROVE  Unreserved(db')
<1>1. CASE UpdateAddress(c)
  <2> DEFINE o == db.address[c]
             e == [db EXCEPT !.offered[o] = NONE, !.status[o] = "searching"]
             s == ResetCreator(Dequeue(e, o), o)
  <2>1. db' = OfferNext(s, o, {})
    BY <1>1 DEF UpdateAddress
  <2> HIDE DEF o
  <2>2. Unreserved(e)
    BY DEF Unreserved
  <2> HIDE DEF e
  <2>3. Unreserved(s)
    BY <2>2, RowsUnreserved
  <2> HIDE DEF s
  <2> QED
    BY <2>1, <2>3, OfferUnreserved
<1>2. CASE LeaveDialogue(c)
  BY <1>2 DEF LeaveDialogue, Unreserved
<1>3. CASE PassengerCancel(c)
  <2> DEFINE o == OrderOf(db, c)
             d == db.driver[o]
             closed == CloseFor(db, o, "cancelled")
             s == Dequeue(closed, o)
             free == [s EXCEPT !.parallel[o] = NONE, !.driver[o] = NONE]
             l == ReleaseOffer(s, db.offered[o])
             t == [l EXCEPT !.offered[o] = NONE]
             u == Relieve(db, s, d)
  <2>1. \E v, w : w \in {s, t, free, u} /\ db' \in Promotes(v, w)
    BY <1>3 DEF PassengerCancel
  <2>2. Unreserved(closed)
    BY CloseUnreserved
  <2> HIDE DEF o, closed
  <2>3. Unreserved(s)
    BY <2>2, RowsUnreserved
  <2> HIDE DEF s, d
  <2>4. Unreserved(free)
    BY <2>3 DEF Unreserved
  <2>5. Unreserved(l) /\ Unreserved(u)
    BY <2>3, LineUnreserved, CloseUnreserved
  <2> HIDE DEF l, u
  <2>6. Unreserved(t)
    BY <2>5 DEF Unreserved
  <2> HIDE DEF free, t
  <2> QED
    BY <2>1, <2>3, <2>4, <2>5, <2>6, PromotesUnreserved
<1>4. CASE WaitNo(c)
  <2>1. \E o : db' = CloseFor(Dequeue(db, o), o, "cancelled")
    BY <1>4 DEF WaitNo
  <2> QED
    BY <2>1, CloseUnreserved, RowsUnreserved
<1> QED
  BY <1>1, <1>2, <1>3, <1>4 DEF CreatorStep

LEMMA OrdersUnreserved ==
  ASSUME Unreserved(db), ParallelUsers = {}, NEW o, OrderStep(o)
  PROVE  Unreserved(db')
<1>1. CASE CreateOrder(o) \/ DispCreate(o)
  <2>1. /\ Unreserved([db EXCEPT !.status[o] = "created"])
        /\ Unreserved([db EXCEPT !.status[o] = "created", !.deadline[o] = TRUE])
    BY DEF Unreserved
  <2>2. \E s : Unreserved(s) /\ db' = OfferNext(ResetCreator(s, o), o, {})
    BY <1>1, <2>1 DEF CreateOrder, DispCreate
  <2> QED
    BY <2>2, RowsUnreserved, OfferUnreserved
<1>2. CASE DispCancel(o)
  <2> DEFINE s == Dequeue(Close(db, o, "cancelled"), o)
             l == ReleaseOffer(s, db.offered[o])
  <2>1. \/ db' = s \/ db' = Relieve(db, s, db.driver[o]) \/ db' = [l EXCEPT !.offered[o] = NONE]
    BY <1>2 DEF DispCancel
  <2>2. Unreserved(s)
    BY CloseUnreserved, RowsUnreserved
  <2> HIDE DEF s
  <2>3. Unreserved(l)
    BY <2>2, LineUnreserved
  <2> HIDE DEF l
  <2>4. Unreserved([l EXCEPT !.offered[o] = NONE])
    BY <2>3 DEF Unreserved
  <2> QED
    BY <2>1, <2>2, <2>4, CloseUnreserved
<1>3. CASE DispatcherUnclaimed(o)
  <2> DEFINE s == IF db.offered[o] = NONE THEN db ELSE ReleaseOffer(db, db.offered[o])
             e == [s EXCEPT !.offered[o] = NONE]
  <2>1. \/ db' = Dequeue(Close(e, o, "cancelled"), o)
        \/ db' = [db EXCEPT !.deadline[o] = FALSE]
    BY <1>3 DEF DispatcherUnclaimed
  <2>2. Unreserved(s)
    BY LineUnreserved
  <2> HIDE DEF s
  <2>3. Unreserved(e) /\ Unreserved([db EXCEPT !.deadline[o] = FALSE])
    BY <2>2 DEF Unreserved
  <2> HIDE DEF e
  <2> QED
    BY <2>1, <2>3, CloseUnreserved, RowsUnreserved
<1>4. CASE ChatTimeout(o)
  BY <1>4, CloseUnreserved DEF ChatTimeout
<1>5. CASE AdminCancel(o)
  <2> DEFINE off == db.offered[o]
             d == db.driver[o]
             s == ResetCreator(Dequeue(Close(db, o, "cancelled"), o), o)
             t == IF off = NONE THEN s ELSE Restored(s, off)
             u == IF d = NONE \/ d = off \/ db.status[o] \notin Riding THEN t
                  ELSE IF Reserved(db, d) # NONE THEN PromoteAfter(db, t, d)
                  ELSE Restored(t, d)
  <2>1. db' = [u EXCEPT !.offered[o] = NONE, !.parallel[o] = NONE]
    BY <1>5 DEF AdminCancel, Restored
  <2>2. ASSUME NEW r, Unreserved(r), NEW e  PROVE Unreserved(Restored(r, e))
    BY <2>2 DEF Unreserved, Restored
  <2>3. Unreserved(s)
    BY CloseUnreserved, RowsUnreserved
  <2> HIDE DEF s, off, d
  <2>4. Unreserved(t)
    BY <2>2, <2>3
  <2> HIDE DEF t
  <2>5. Unreserved(u)
    BY <2>2, <2>4, RowsUnreserved
  <2> HIDE DEF u
  <2> QED
    BY <2>1, <2>5 DEF Unreserved
<1>6. CASE AcceptTimeout(o)
  <2> DEFINE d == db.offered[o]
             l == LeaveQueue(db, d)
             s == [l EXCEPT !.online[d] = FALSE, !.offered[o] = NONE,
                            !.card[o] = FALSE, !.current[CreatorOf[o]] = NONE]
             t == OfferNext(s, o, {d})
  <2>1. db' \in Promotes(t, t)
    BY <1>6 DEF AcceptTimeout
  <2>2. Unreserved(l)
    BY LineUnreserved
  <2> HIDE DEF l, d
  <2>3. Unreserved(s)
    BY <2>2 DEF Unreserved
  <2> HIDE DEF s
  <2>4. Unreserved(t)
    BY <2>3, OfferUnreserved
  <2> HIDE DEF t
  <2> QED
    BY <2>1, <2>4, PromotesUnreserved
<1>7. CASE ParallelEtaTimeout(o)
  BY <1>7, ReservedUnreserved
<1>8. CASE ConfirmYes(o) \/ ConfirmNo(o)
  <2> DEFINE y == [db EXCEPT !.confirmed[o] = TRUE, !.pq[o] = "waiting"]
  <2>1. db' \in Promotes(db, ResetCreator(PausePrompts(db, y, o), o))
        \/ db' \in Promotes(db, CloseFor(Dequeue(db, o), o, "cancelled"))
    BY <1>8 DEF ConfirmYes, ConfirmNo
  <2>2. Unreserved(y)
    BY DEF Unreserved
  <2> HIDE DEF y
  <2>3. Unreserved(PausePrompts(db, y, o)) /\ Unreserved(Dequeue(db, o))
    BY <2>2, RowsUnreserved
  <2>4. /\ Unreserved(ResetCreator(PausePrompts(db, y, o), o))
        /\ Unreserved(CloseFor(Dequeue(db, o), o, "cancelled"))
    BY <2>3, RowsUnreserved, CloseUnreserved
  <2> QED
    BY <2>1, <2>4, PromotesUnreserved
<1> QED
  BY <1>1, <1>2, <1>3, <1>4, <1>5, <1>6, <1>7, <1>8 DEF OrderStep

LEMMA UnreservedInvariance == ASSUME ParallelUsers = {}  PROVE Spec => []Unreserved(db)
<1>1. Init => Unreserved(db)
  BY DEF Init, Unreserved
<1>2. Unreserved(db) /\ [Next]_db => Unreserved(db)'
  <2> SUFFICES ASSUME Unreserved(db), [Next]_db  PROVE Unreserved(db')
    OBVIOUS
  <2>1. CASE UNCHANGED db
    BY <2>1
  <2>2. CASE Next
    <3>1. ASSUME NEW d \in Drivers, DriverStep(d)  PROVE Unreserved(db')
      BY <3>1, LineActionsUnreserved, EndsUnreserved, CarUnreserved DEF DriverStep
    <3>2. ASSUME NEW d \in Drivers, NEW o \in Orders, DriverOrderStep(d, o)
          PROVE  Unreserved(db')
      BY <3>2, BehaviourAssumption, AnswersUnreserved, ClaimsUnreserved, ReservedUnreserved
         DEF DriverOrderStep
    <3>3. CASE RecoveryWorker
      BY <3>3, PromotesUnreserved DEF RecoveryWorker
    <3> QED
      BY <2>2, <3>1, <3>2, <3>3, CreatorsUnreserved, OrdersUnreserved DEF Next
  <2> QED
    BY <2>1, <2>2
<1> QED
  BY <1>1, <1>2, PTL DEF Spec

\* With no reserved order to start, disp_cancel_order leaves what it cancelled alone.
LEMMA DispCancelSticks ==
  ASSUME Good(db), Unreserved(db), NEW o \in Orders, DispCancel(o)
  PROVE  db'.status[o] = "cancelled"
<1> DEFINE d == db.driver[o]
           off == db.offered[o]
           s == Dequeue(Close(db, o, "cancelled"), o)
           u == Relieve(db, s, d)
<1>1. db' = IF d # NONE THEN u ELSE IF off # NONE THEN Withdrawn(s, o, off) ELSE s
  BY Zenon DEF DispCancel, Withdrawn
<1>2. d \in Drivers \cup {NONE} /\ off \in Drivers \cup {NONE}
  BY OrderColumns
<1>3. Good(s) /\ s.status[o] = "cancelled"
  BY CancelEdits DEF Edit, Keeps, Shut
<1>4. CASE d # NONE
  <2>1. Reserved(db, d) = NONE
    <3> SUFFICES ASSUME Reserved(db, d) # NONE PROVE FALSE
      OBVIOUS
    <3>1. Reserved(db, d) \in {p \in Orders : db.parallel[p] = d
                                              /\ db.status[p] = "parallel_assigned"}
      BY OldestIn DEF Reserved
    <3> QED
      BY <1>4, <3>1 DEF Unreserved
  <2>2. u = RestorePosition(s, d)
    BY <2>1 DEF Relieve
  <2> HIDE DEF s, d
  <2>3. Likewise(s, u)
    BY <1>2, <1>3, <1>4, <2>2, DriverMoves DEF Moves
  <2> QED
    BY <1>1, <1>3, <1>4, <2>3 DEF Likewise, SameOrder
<1>5. CASE d = NONE /\ off # NONE
  <2> HIDE DEF s, off, d
  <2> QED
    BY <1>1, <1>2, <1>3, <1>5, WithdrawnStatus
<1>6. CASE d = NONE /\ off = NONE
  BY <1>1, <1>3, <1>6
<1> QED
  BY <1>4, <1>5, <1>6

\* An order its creator cancels is cancelled when the handler is done, although the
\* trailing promotions of passenger_cancel read rows the cancellation is not flushed to.
\* (A dispatcher's order that is reserved is promoted again by disp_cancel_order: the
\* finding, and all the assumption leaves out.)
THEOREM CancellationsStand ==
  ASSUME Dispatchers = {} \/ ParallelUsers = {}  PROVE Spec => CancelSticks
<1> DEFINE A == /\ \A o \in Orders : DispCancel(o) => db'.status[o] = "cancelled"
                /\ \A c \in Creators : PassengerCancel(c) =>
                     db'.status[OrderOf(db, c)] = "cancelled"
<1>1. CancelSticks <=> [][A]_db
  BY DEF CancelSticks
<1>2. CASE Dispatchers = {}
  <2>1. IInv /\ [Next]_db => A
    <3>1. \A o \in Orders : ~DispCancel(o)
      BY <1>2 DEF DispCancel, ByDispatcher
    <3> QED
      BY <3>1, PassengerCancelSticks DEF IInv
  <2> HIDE DEF A
  <2> QED
    BY Invariance, <1>1, <2>1, PTL DEF Spec
<1>3. CASE ParallelUsers = {}
  <2>1. IInv /\ Unreserved(db) => A
    BY PassengerCancelSticks, DispCancelSticks DEF IInv
  <2> HIDE DEF A
  <2>2. Spec => []Unreserved(db)
    BY <1>3, UnreservedInvariance
  <2> QED
    BY Invariance, <1>1, <2>1, <2>2, PTL DEF Spec
<1> QED
  BY <1>2, <1>3

\* The ride the driver's menu shows stays there until it ends, whatever the driver
\* reserves beside it.
THEOREM MenusStand == ASSUME Plain  PROVE Spec => RideInMenuIsStable
<1> DEFINE A == \A d \in Drivers : LET o == ActiveRide(db, d)
                                   IN o # NONE /\ o \in ActiveOf(db', d) => ActiveRide(db', d) = o
<1>1. ASSUME RideInv', NEW d \in Drivers, NEW o, o \in ActiveOf(db', d)
      PROVE  ActiveRide(db', d) = o
  <2>1. Orderly(db')
    BY <1>1 DEF RideInv, AtRest
  <2>2. o \in Orders /\ db'.driver[o] = d /\ db'.status[o] \notin {"parallel_assigned", "cancelled"}
    BY <1>1 DEF ActiveOf, Riding
  <2>3. Rides(db', d, o)
    BY <2>1, <2>2, NoneAssumption DEF Rides, Orderly, Fits
  <2> QED
    BY <2>1, <2>2, <2>3, RideIs
<1>2. RideInv' => A
  BY <1>1
<1>3. RideInMenuIsStable <=> [][A]_db
  BY DEF RideInMenuIsStable
<1> HIDE DEF A
<1> QED
  BY RideInvariance, <1>2, <1>3, PTL DEF Spec
=============================================================================
