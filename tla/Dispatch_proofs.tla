--------------------------- MODULE Dispatch_proofs ---------------------------
(***************************************************************************)
(* What holds of Dispatch for every set of drivers, every number of orders *)
(* and every use of the menus.                                             *)
(*                                                                         *)
(* A handler is a composition of operators from rows to rows, so a proof   *)
(* has a lemma per operator, saying that it keeps the inductive invariant, *)
(* and a lemma per action that puts them together.  Three invariants are   *)
(* proved so, one on top of the other, and a property of each step:        *)
(*                                                                         *)
(*   Good     the columns keep their types, no driver is shown two orders  *)
(*            to accept, an order somebody has is not offered;             *)
(*   InLine   the drivers on the line are ordered, and nobody loses the    *)
(*            place there;                                                 *)
(*   Parked   the passenger queue holds the queued orders, in order, and   *)
(*            refusals stand;                                              *)
(*   InTurn   an order is offered to the first in the line who has not     *)
(*            refused it.                                                  *)
(***************************************************************************)
EXTENDS Dispatch, TLAPS

QueueStates == {"none", "waiting", "offered", "assigned", "away"}
DriverStates == {"offline", "online", "away", "busy"}

\* The inductive invariant of rows s.  OfferExclusive alone is not inductive: a
\* ride whose car breaks down is searched for again, and would bring an old
\* offer back if it had kept one.
Good(s) ==
    /\ s \in Rows
    /\ \A o, p \in Orders :
          /\ s.status[o] = "searching" /\ s.status[p] = "searching"
          /\ s.offered[o] # NONE /\ s.offered[o] = s.offered[p]
          => o = p
    /\ \A o \in Orders : s.offered[o] # NONE => s.driver[o] = NONE /\ s.parallel[o] = NONE

\* The offers of t are offers of s.
Fewer(s, t) ==
    \A o \in Orders : t.offered[o] # NONE =>
        /\ t.offered[o] = s.offered[o]
        /\ t.status[o] = "searching" => s.status[o] = "searching"

Keeps(s, t) == Good(t) /\ Fewer(s, t)

LEMMA KeepsTransitive ==
  ASSUME NEW r, NEW s, NEW t, Keeps(r, s), Keeps(s, t)
  PROVE  Keeps(r, t)
BY DEF Keeps, Fewer

\* Rows that make no new offer, and give no driver to an offered order, stay good.
LEMMA FewerIsGood ==
  ASSUME NEW s, NEW t, Good(s), t \in Rows, Fewer(s, t),
         \A o \in Orders : t.offered[o] # NONE => t.driver[o] = NONE /\ t.parallel[o] = NONE
  PROVE  Keeps(s, t)
BY DEF Good, Fewer, Keeps

LEMMA SameIsGood ==
  ASSUME NEW s, NEW t, Good(s), t \in Rows,
         t.status = s.status, t.offered = s.offered,
         t.driver = s.driver, t.parallel = s.parallel
  PROVE  Keeps(s, t)
BY DEF Good, Fewer, Keeps

\* Rows that differ in one order, which has no offer in them, stay good.
LEMMA OneOrderKeeps ==
  ASSUME NEW s, NEW t, Good(s), t \in Rows, NEW o \in Orders, t.offered[o] = NONE,
         \A p \in Orders \ {o} : /\ t.status[p] = s.status[p] /\ t.offered[p] = s.offered[p]
                               /\ t.driver[p] = s.driver[p] /\ t.parallel[p] = s.parallel[p]
  PROVE  Keeps(s, t)
<1>1. Fewer(s, t)
  BY DEF Fewer
<1>2. \A p \in Orders : t.offered[p] # NONE => t.driver[p] = NONE /\ t.parallel[p] = NONE
  BY DEF Good
<1> QED
  BY <1>1, <1>2, FewerIsGood

LEMMA GoodRows ==
  ASSUME NEW s, NEW t, Keeps(s, t)  PROVE Good(t) /\ t \in Rows
BY DEF Keeps, Good

LEMMA StatusValues ==
  /\ Riding \subseteq Statuses /\ Closed \subseteq Statuses /\ Pending \subseteq Statuses
  /\ {"assigned", "arrived", "in_progress", "completed", "cancelled", "created", "queued",
      "no_drivers", "searching", "chat_search", "parallel_assigned"} \subseteq Statuses
BY DEF Statuses, Riding, Closed, Pending, Candidate

(***************************************************************************)
(* The line of drivers                                                     *)
(***************************************************************************)
LEMMA DriverColumns ==
  ASSUME NEW s \in Rows, NEW d \in Drivers, NEW x \in QueueStates, NEW y \in DriverStates
  PROVE  [s EXCEPT !.row[d] = x, !.dstat[d] = y] \in Rows
BY DEF Rows, QueueStates, DriverStates

LEMMA DriverColumnsGood ==
  ASSUME NEW s, Good(s), NEW d \in Drivers, NEW x \in QueueStates, NEW y \in DriverStates
  PROVE  Keeps(s, [s EXCEPT !.row[d] = x, !.dstat[d] = y])
<1> DEFINE t == [s EXCEPT !.row[d] = x, !.dstat[d] = y]
<1>1. s \in Rows
  BY DEF Good
<1>2. t \in Rows
  BY <1>1, DriverColumns, Zenon
<1>3. t.status = s.status /\ t.offered = s.offered /\ t.driver = s.driver /\ t.parallel = s.parallel
  BY <1>1 DEF Rows
<1> HIDE DEF t
<1>4. Keeps(s, t)
  BY <1>2, <1>3, SameIsGood
<1> QED
  BY <1>4 DEF t

LEMMA RowColumns ==
  ASSUME NEW s, Good(s), NEW d \in Drivers
  PROVE  s.row[d] \in QueueStates /\ s.dstat[d] \in DriverStates
BY DEF Good, Rows, QueueStates, DriverStates

LEMMA SetAwayGood ==
  ASSUME NEW s, Good(s), NEW d \in Drivers  PROVE Keeps(s, SetAway(s, d))
BY RowColumns, DriverColumnsGood, Zenon DEF SetAway, QueueStates, DriverStates

LEMMA MarkAssignedGood ==
  ASSUME NEW s, Good(s), NEW d \in Drivers  PROVE Keeps(s, MarkAssigned(s, d))
BY RowColumns, DriverColumnsGood, Zenon DEF MarkAssigned, QueueStates, DriverStates

LEMMA ReleaseOfferGood ==
  ASSUME NEW s, Good(s), NEW d \in Drivers  PROVE Keeps(s, ReleaseOffer(s, d))
BY RowColumns, DriverColumnsGood, Zenon DEF ReleaseOffer, QueueStates, DriverStates

LEMMA RestorePositionGood ==
  ASSUME NEW s, Good(s), NEW d \in Drivers  PROVE Keeps(s, RestorePosition(s, d))
BY RowColumns, DriverColumnsGood, Zenon DEF RestorePosition, QueueStates, DriverStates

LEMMA LeaveQueueGood ==
  ASSUME NEW s, Good(s), NEW d \in Drivers  PROVE Keeps(s, LeaveQueue(s, d))
<1>1. s \in Rows
  BY DEF Good
<1>2. LeaveQueue(s, d) \in Rows
  BY <1>1, Zenon DEF LeaveQueue, Rows
<1> DEFINE t == LeaveQueue(s, d)
<1>3. t.status = s.status /\ t.offered = s.offered /\ t.driver = s.driver /\ t.parallel = s.parallel
  BY <1>1 DEF LeaveQueue, Rows
<1> QED
  BY <1>2, <1>3, SameIsGood

LEMMA JoinQueueGood ==
  ASSUME NEW s, Good(s), NEW d \in Drivers  PROVE Keeps(s, JoinQueue(s, d))
<1> DEFINE A == {p \in s.ahead : p[1] # d /\ p[2] # d}
           B == {<<e, d>> : e \in {e \in Drivers \ {d} : s.row[e] # "none"}}
           u == [s EXCEPT !.row[d] = "waiting", !.dstat[d] = "online"]
           t == JoinQueue(s, d)
<1>1. s \in Rows /\ u \in Rows
  BY DriverColumns, Zenon DEF Good, QueueStates, DriverStates
<1>2. A \cup B \in SUBSET (Drivers \X Drivers)
  BY <1>1 DEF Rows
<1>3. t = [u EXCEPT !.ahead = A \cup B]
  BY <1>1 DEF JoinQueue, Rows
<1>4. t.status = s.status /\ t.offered = s.offered /\ t.driver = s.driver /\ t.parallel = s.parallel
  BY <1>1 DEF JoinQueue, Rows
<1> HIDE DEF A, B, u, t
<1>5. t \in Rows
  BY <1>1, <1>2, <1>3 DEF Rows
<1>6. Keeps(s, t)
  BY <1>4, <1>5, SameIsGood
<1> QED
  BY <1>6 DEF t

LEMMA RepairGood ==
  ASSUME NEW v, NEW s, v \in Rows, Good(s)
  PROVE  /\ Good(Repair(v, s))
         /\ Repair(v, s).status = s.status /\ Repair(v, s).offered = s.offered
         /\ Repair(v, s).driver = s.driver /\ Repair(v, s).parallel = s.parallel
<1> DEFINE free == {d \in Drivers : v.online[d] /\ v.dstat[d] = "online" /\ ~Engaged(v, d)}
           missing == {d \in free : s.row[d] = "none"}
           row == [d \in Drivers |-> IF d \in free THEN "waiting" ELSE s.row[d]]
           new == {d \in Drivers : s.row[d] # "none"} \X missing
           t == Repair(v, s)
<1>1. s \in Rows
  BY DEF Good
<1>2. t = [s EXCEPT !.row = row, !.ahead = @ \cup new]
  BY DEF Repair
<1>3. row \in [Drivers -> QueueStates] /\ new \in SUBSET (Drivers \X Drivers)
  BY <1>1 DEF Rows, QueueStates
<1> HIDE DEF free, missing, row, new, t
<1>4. s.ahead \cup new \in SUBSET (Drivers \X Drivers)
  BY <1>1, <1>3 DEF Rows
<1>5. t \in Rows
  BY <1>1, <1>2, <1>3, <1>4 DEF Rows, QueueStates
<1>6. t.status = s.status /\ t.offered = s.offered /\ t.driver = s.driver /\ t.parallel = s.parallel
  BY <1>1, <1>2 DEF Rows
<1>7. Good(t)
  BY <1>5, <1>6, SameIsGood DEF Keeps
<1> QED
  BY <1>6, <1>7 DEF t

(***************************************************************************)
(* The line of parked orders                                               *)
(***************************************************************************)
LEMMA DequeueGood ==
  ASSUME NEW s, Good(s), NEW o \in Orders
  PROVE  /\ Keeps(s, Dequeue(s, o))
         /\ Dequeue(s, o).status = s.status /\ Dequeue(s, o).offered = s.offered
         /\ Dequeue(s, o).driver = s.driver /\ Dequeue(s, o).parallel = s.parallel
<1> DEFINE t == Dequeue(s, o)
<1>1. s \in Rows
  BY DEF Good
<1>2. t \in Rows
  BY <1>1, Zenon DEF Dequeue, Rows
<1>3. t.status = s.status /\ t.offered = s.offered /\ t.driver = s.driver /\ t.parallel = s.parallel
  BY <1>1 DEF Dequeue, Rows
<1> QED
  BY <1>2, <1>3, SameIsGood

LEMMA EnqueueGood ==
  ASSUME NEW s, Good(s), NEW o \in Orders
  PROVE  Keeps(s, Enqueue(s, o)) /\ Enqueue(s, o).driver = s.driver
<1> DEFINE new == {<<p, o>> : p \in {p \in Orders : s.pq[p] # "none"}}
           t == [s EXCEPT !.pq[o] = "waiting", !.status[o] = "queued", !.pahead = @ \cup new]
<1>1. s \in Rows
  BY DEF Good
<1>2. "queued" \in Statuses
  BY DEF Statuses, Pending, Candidate
<1>3. s.pahead \cup new \in SUBSET (Orders \X Orders)
  BY <1>1 DEF Rows
<1> HIDE DEF new
<1>4. t \in Rows
  BY <1>1, <1>2, <1>3 DEF Rows
<1>5. Fewer(s, t) /\ t.offered = s.offered /\ t.driver = s.driver /\ t.parallel = s.parallel
  BY <1>1 DEF Rows, Fewer
<1> HIDE DEF t
<1>6. Keeps(s, t) /\ Keeps(s, s)
  BY <1>1, <1>4, <1>5, FewerIsGood, SameIsGood DEF Good
<1> QED
  BY <1>5, <1>6 DEF Enqueue, t, new

LEMMA ResetCreatorGood ==
  ASSUME NEW s, Good(s), NEW o \in Orders  PROVE Keeps(s, ResetCreator(s, o))
<1> DEFINE t == ResetCreator(s, o)
<1>1. s \in Rows /\ CreatorOf[o] \in Creators
  BY DEF Good, Creators
<1>2. t \in Rows
  BY <1>1 DEF ResetCreator, Rows
<1>3. t.status = s.status /\ t.offered = s.offered /\ t.driver = s.driver /\ t.parallel = s.parallel
  BY <1>1 DEF ResetCreator, Rows
<1> QED
  BY <1>2, <1>3, SameIsGood

LEMMA PausePromptsGood ==
  ASSUME NEW v, NEW s, NEW x, Good(s)
  PROVE  /\ Good(PausePrompts(v, s, x))
         /\ PausePrompts(v, s, x).status = s.status /\ PausePrompts(v, s, x).offered = s.offered
         /\ PausePrompts(v, s, x).driver = s.driver /\ PausePrompts(v, s, x).parallel = s.parallel
<1> DEFINE t == PausePrompts(v, s, x)
           asked == {o \in Orders : v.pq[o] = "polling" /\ o # x}
           owners == {CreatorOf[o] : o \in asked}
           pq == [o \in Orders |-> IF o \in asked /\ s.pq[o] # "none"
                                    THEN "waiting" ELSE s.pq[o]]
           current == [c \in Creators |-> IF c \in owners THEN NONE ELSE s.current[c]]
           address == [c \in Creators |-> IF c \in owners THEN NONE ELSE s.address[c]]
<1>1. s \in Rows
  BY DEF Good
<1>2. t = [s EXCEPT !.pq = pq, !.current = current, !.address = address]
  BY DEF PausePrompts
<1>3. /\ pq \in [Orders -> {"none", "waiting", "polling"}]
      /\ current \in [Creators -> Drivers \cup {NONE}]
      /\ address \in [Creators -> Orders \cup {NONE}]
  BY <1>1 DEF Rows
<1> HIDE DEF t, asked, owners, pq, current, address
<1>4. t \in Rows
  BY <1>1, <1>2, <1>3 DEF Rows
<1>5. t.status = s.status /\ t.offered = s.offered /\ t.driver = s.driver /\ t.parallel = s.parallel
  BY <1>1, <1>2 DEF Rows
<1>6. Good(t)
  BY <1>4, <1>5, SameIsGood DEF Keeps
<1> QED
  BY <1>5, <1>6 DEF t

(***************************************************************************)
(* Offering an order                                                       *)
(***************************************************************************)
\* The driver that next_waiting_driver returns has no offer in the view.
LEMMA NextWaitingFree ==
  ASSUME NEW v, NEW excluded, NextWaiting(v, excluded) # NONE
  PROVE  NextWaiting(v, excluded) \in Drivers /\ ~HasOffer(v, NextWaiting(v, excluded))
<1> DEFINE able == Free(v) \ excluded
           first == {d \in able : \A e \in able \ {d} : <<d, e>> \in v.ahead}
<1>1. NextWaiting(v, excluded) = IF first = {} THEN NONE ELSE CHOOSE d \in first : TRUE
  BY DEF NextWaiting
<1>2. first # {}
  BY <1>1
<1>3. NextWaiting(v, excluded) \in first
  BY <1>1, <1>2
<1> QED
  BY <1>3 DEF Free, Engaged

LEMMA FewerHasOffer ==
  ASSUME NEW v, NEW s, Fewer(v, s), NEW d \in Drivers, ~HasOffer(v, d)
  PROVE  ~HasOffer(s, d)
BY NoneAssumption DEF Fewer, HasOffer

LEMMA OfferGood ==
  ASSUME NEW s, Good(s), NEW o \in Orders, NEW d \in Drivers, ~HasOffer(s, d),
         s.driver[o] = NONE, s.parallel[o] = NONE
  PROVE  Good(Offer(s, o, d)) /\ Offer(s, o, d).driver = s.driver
<1> DEFINE c == CreatorOf[o]
           t == [s EXCEPT !.status[o] = "searching", !.offered[o] = d, !.card[o] = TRUE,
                          !.current[c] = d, !.row[d] = "offered"]
<1>1. s \in Rows /\ c \in Creators /\ "searching" \in Statuses
  BY DEF Good, Creators, Statuses, Pending
<1> HIDE DEF c
<1>2. t \in Rows
  BY <1>1 DEF Rows
<1>3. t.driver = s.driver /\ t.parallel = s.parallel
  BY <1>1 DEF Rows
<1>4. /\ t.status = [s.status EXCEPT ![o] = "searching"]
      /\ t.offered = [s.offered EXCEPT ![o] = d]
      /\ s.status \in [Orders -> Statuses] /\ s.offered \in [Orders -> Drivers \cup {NONE}]
  BY <1>1 DEF Rows
<1> HIDE DEF t
<1>5. Good(t)
  BY <1>2, <1>3, <1>4, NoneAssumption DEF Good, HasOffer
<1>6. Good(PausePrompts(t, t, o))
  BY <1>5, PausePromptsGood
<1>7. PausePrompts(t, t, o).driver = s.driver
  BY <1>3, <1>5, PausePromptsGood
<1> QED
  BY <1>6, <1>7 DEF Offer, t, c

LEMMA NoDriverGood ==
  ASSUME NEW s, Good(s), NEW o \in Orders  PROVE Good(NoDriver(s, o))
<1> DEFINE t == [s EXCEPT !.status[o] = "no_drivers"]
           u == [t EXCEPT !.status[o] = "chat_search", !.chatcard[o] = TRUE]
<1>1. s \in Rows /\ {"no_drivers", "chat_search"} \subseteq Statuses
  BY DEF Good, Statuses, Pending, Candidate
<1>2. t \in Rows
  BY <1>1 DEF Rows
<1>3. Fewer(s, t) /\ t.offered = s.offered /\ t.driver = s.driver /\ t.parallel = s.parallel
  BY <1>1 DEF Rows, Fewer
<1> HIDE DEF t
<1>4. Keeps(s, t)
  BY <1>2, <1>3, FewerIsGood DEF Good
<1>5. u \in Rows
  BY <1>1, <1>2 DEF Rows
<1>6. Fewer(t, u) /\ u.offered = t.offered /\ u.driver = t.driver /\ u.parallel = t.parallel
  BY <1>2 DEF Rows, Fewer
<1> HIDE DEF u
<1>7. Good(t)
  BY <1>4 DEF Keeps
<1>8. Keeps(t, u)
  BY <1>5, <1>6, <1>7, FewerIsGood DEF Good
<1> QED
  BY <1>7, <1>8, EnqueueGood DEF NoDriver, Keeps, t, u

LEMMA OfferNextGood ==
  ASSUME NEW s, Good(s), NEW o \in Orders, NEW excluded
  PROVE  Good(OfferNext(s, o, excluded))
<1>1. CASE ~Dispatchable(s, o)
  BY <1>1 DEF OfferNext
<1>2. CASE Dispatchable(s, o)
  <2> DEFINE r == Repair(s, s)
             d == NextWaiting(r, excluded \cup r.declined[o])
             e == NextWaiting(r, r.declined[o])
  <2>1. Good(r) /\ r.driver[o] = NONE /\ r.parallel[o] = NONE
    <3>1. s \in Rows
      BY DEF Good
    <3> QED
      BY <1>2, <3>1, RepairGood DEF Dispatchable
  <2> HIDE DEF r
  <2>2. ASSUME d # NONE PROVE Good(Offer(r, o, d))
    BY <2>1, <2>2, NextWaitingFree, OfferGood
  <2>3. ASSUME e # NONE PROVE Good(Offer(r, o, e))
    BY <2>1, <2>3, NextWaitingFree, OfferGood
  <2>4. Good(NoDriver(r, o))
    BY <2>1, NoDriverGood
  <2>5. OfferNext(s, o, excluded) = IF d # NONE THEN Offer(r, o, d)
                                    ELSE IF e # NONE THEN Offer(r, o, e) ELSE NoDriver(r, o)
    BY <1>2 DEF OfferNext, r
  <2> QED
    BY <2>2, <2>3, <2>4, <2>5
<1> QED
  BY <1>1, <1>2

(***************************************************************************)
(* try_promote: an offer is made on the flushed rows v to the rows s, whose *)
(* offers are among those of v.                                            *)
(***************************************************************************)
LEMMA ServedGood ==
  ASSUME NEW v, NEW s, Good(s), Fewer(v, s), NEW o \in Orders,
         s.driver[o] = NONE, s.parallel[o] = NONE, NextWaiting(v, s.declined[o]) # NONE
  PROVE  Good(Served(v, s, o)) /\ Served(v, s, o).driver = s.driver
<1> DEFINE d == NextWaiting(v, s.declined[o])
           q == Dequeue(s, o)
           t == Offer(q, o, d)
           u == ResetCreator(t, o)
<1>1. d \in Drivers /\ ~HasOffer(v, d)
  BY NextWaitingFree
<1>2. Good(q) /\ q.status = s.status /\ q.offered = s.offered
              /\ q.driver = s.driver /\ q.parallel = s.parallel
  BY DequeueGood DEF Keeps
<1> HIDE DEF d
<1>3. Fewer(v, q)
  BY <1>2 DEF Fewer
<1> HIDE DEF q
<1>4. ~HasOffer(q, d)
  BY <1>1, <1>3, FewerHasOffer
<1>5. Good(t) /\ t.driver = s.driver
  BY <1>1, <1>2, <1>4, OfferGood
<1> HIDE DEF t
<1>6. Good(u) /\ u.driver = s.driver
  <2>1. t \in Rows
    BY <1>5 DEF Good
  <2>2. u.driver = t.driver
    BY <2>1 DEF ResetCreator, Rows
  <2> QED
    BY <1>5, <2>2, ResetCreatorGood DEF Keeps
<1> QED
  BY <1>5, <1>6 DEF Served, d, q, t, u

LEMMA AskedGood ==
  ASSUME NEW s, Good(s), NEW o \in Orders
  PROVE  Good(Asked(s, o)) /\ Asked(s, o).driver = s.driver
<1> DEFINE t == Asked(s, o)
<1>1. s \in Rows /\ CreatorOf[o] \in Creators
  BY DEF Good, Creators
<1>2. t \in Rows
  BY <1>1 DEF Asked, Rows
<1>3. t.status = s.status /\ t.offered = s.offered /\ t.driver = s.driver /\ t.parallel = s.parallel
  BY <1>1 DEF Asked, Rows
<1> QED
  BY <1>2, <1>3, SameIsGood DEF Keeps

LEMMA ScanGood ==
  ASSUME NEW list, NEW v, NEW s, Good(s), Fewer(v, s), NEW t \in Scan(list, v, s)
  PROVE  Good(t) /\ t.driver = s.driver
<1>1. CASE t = s
  BY <1>1
<1>2. CASE t # s
  <2>1. PICK o \in Servable(list, v, s) : t \in Outcomes(v, s, o)
    BY <1>2 DEF Scan
  <2>2. o \in Orders /\ NextWaiting(v, s.declined[o]) # NONE
    BY <2>1 DEF Servable
  <2>3. \/ t = Asked(s, o)
        \/ t = Served(v, s, o) /\ s.driver[o] = NONE /\ s.parallel[o] = NONE
    BY <1>2, <2>1 DEF Outcomes
  <2> QED
    BY <2>2, <2>3, ServedGood, AskedGood
<1> QED
  BY <1>1, <1>2

LEMMA PromotesGood ==
  ASSUME NEW v, NEW s, v \in Rows, Good(s), Fewer(v, s), NEW t \in Promotes(v, s)
  PROVE  Good(t) /\ t.driver = s.driver
<1> DEFINE r == Repair(v, s)
           w == IF r = s THEN v ELSE r
           p == PausePrompts(w, r, NONE)
<1>1. Good(r) /\ r.status = s.status /\ r.offered = s.offered /\ r.driver = s.driver
  BY RepairGood
<1>2. t \in {s, r} \cup Scan(v, w, r) \cup Scan(w, w, p)
  BY DEF Promotes
<1>3. Fewer(w, r)
  BY <1>1 DEF Fewer
<1> HIDE DEF r, w
<1>4. Good(p) /\ p.driver = s.driver /\ Fewer(w, p)
  BY <1>1, <1>3, PausePromptsGood DEF Fewer
<1> HIDE DEF p
<1> QED
  BY <1>1, <1>2, <1>3, <1>4, ScanGood

(***************************************************************************)
(* Rides, reservations and closed orders                                   *)
(***************************************************************************)
LEMMA NewestIn ==
  ASSUME NEW A, Newest(A) # NONE  PROVE Newest(A) \in A
<1> DEFINE last == {o \in A : \A p \in A : p <= o}
<1>1. Newest(A) = IF last = {} THEN NONE ELSE CHOOSE o \in last : TRUE
  BY DEF Newest
<1>2. last # {}
  BY <1>1
<1>3. Newest(A) \in last
  BY <1>1, <1>2
<1> QED
  BY <1>3

LEMMA OldestIn ==
  ASSUME NEW A, Oldest(A) # NONE  PROVE Oldest(A) \in A
<1> DEFINE first == {o \in A : \A p \in A : o <= p}
<1>1. Oldest(A) = IF first = {} THEN NONE ELSE CHOOSE o \in first : TRUE
  BY DEF Oldest
<1>2. first # {}
  BY <1>1
<1>3. Oldest(A) \in first
  BY <1>1, <1>2
<1> QED
  BY <1>3

LEMMA ReservedIn ==
  ASSUME NEW v, NEW d, Reserved(v, d) # NONE
  PROVE  /\ Reserved(v, d) \in Orders
         /\ v.parallel[Reserved(v, d)] = d /\ v.status[Reserved(v, d)] = "parallel_assigned"
BY OldestIn DEF Reserved

LEMMA ActiveRideIn ==
  ASSUME NEW s, NEW d, ActiveRide(s, d) # NONE
  PROVE  ActiveRide(s, d) \in Orders /\ s.driver[ActiveRide(s, d)] = d
BY NewestIn DEF ActiveRide, ActiveOf

LEMMA PendingOfferIn ==
  ASSUME NEW s, NEW d, PendingOffer(s, d) # NONE
  PROVE  /\ PendingOffer(s, d) \in Orders
         /\ s.status[PendingOffer(s, d)] = "searching" /\ s.offered[PendingOffer(s, d)] = d
BY OldestIn DEF PendingOffer

LEMMA PromoteAfterGood ==
  ASSUME NEW v, NEW s, Good(v), Keeps(v, s), NEW d \in Drivers, Reserved(v, d) # NONE
  PROVE  Keeps(s, PromoteAfter(v, s, d))
<1> DEFINE o == Reserved(v, d)
           t == PromoteAfter(v, s, d)
<1>1. s \in Rows /\ o \in Orders /\ v.parallel[o] = d /\ "assigned" \in Statuses
  BY ReservedIn DEF Keeps, Good, Statuses, Riding
<1>2. s.offered[o] = NONE
  BY <1>1, NoneAssumption DEF Good, Keeps, Fewer
<1>3. t = [s EXCEPT !.status[o] = "assigned", !.driver[o] = d, !.parallel[o] = NONE,
                    !.peta[o] = FALSE]
  BY DEF PromoteAfter
<1> HIDE DEF o, t
<1>4. t \in Rows
  BY <1>1, <1>3 DEF Rows
<1>5. /\ t.offered = s.offered
      /\ \A p \in Orders : p # o => /\ t.status[p] = s.status[p] /\ t.driver[p] = s.driver[p]
                                    /\ t.parallel[p] = s.parallel[p]
  BY <1>1, <1>3 DEF Rows
<1>6. Good(s)
  BY DEF Keeps
<1>7. Keeps(s, t)
  BY <1>2, <1>4, <1>5, <1>6, FewerIsGood DEF Good, Fewer
<1> QED
  BY <1>7 DEF t

LEMMA ReleaseGood ==
  ASSUME NEW s, Good(s), NEW o \in Orders
  PROVE  /\ Keeps(s, Release(s, o))
         /\ \A p \in Orders \ {o} : Release(s, o).driver[p] = s.driver[p]
<1> DEFINE q == [s EXCEPT !.parallel[o] = NONE, !.peta[o] = FALSE, !.driver[o] = NONE,
                          !.status[o] = "queued"]
           e == Enqueue(q, o)
           t == [e EXCEPT !.pq[o] = "waiting"]
<1>1. s \in Rows /\ "queued" \in Statuses
  BY DEF Good, Statuses, Pending, Candidate
<1>2. q \in Rows
  BY <1>1 DEF Rows
<1>3. /\ q.offered = s.offered
      /\ q.status = [s.status EXCEPT ![o] = "queued"] /\ q.driver = [s.driver EXCEPT ![o] = NONE]
      /\ q.parallel = [s.parallel EXCEPT ![o] = NONE]
      /\ s.status \in [Orders -> Statuses] /\ s.driver \in [Orders -> Drivers \cup {NONE}]
      /\ s.parallel \in [Orders -> Drivers \cup {NONE}]
  BY <1>1 DEF Rows
<1> HIDE DEF q
<1>4. Keeps(s, q)
  BY <1>2, <1>3, FewerIsGood DEF Good, Fewer
<1>5. Keeps(q, e) /\ e.driver = q.driver
  BY <1>4, EnqueueGood DEF Keeps
<1> HIDE DEF e
<1>6. e \in Rows /\ Good(e)
  BY <1>5 DEF Keeps, Good
<1>7. t \in Rows
  BY <1>6 DEF Rows
<1>8. t.status = e.status /\ t.offered = e.offered /\ t.driver = e.driver /\ t.parallel = e.parallel
  BY <1>6 DEF Rows
<1> HIDE DEF t
<1>9. Keeps(e, t)
  BY <1>6, <1>7, <1>8, SameIsGood
<1>10. Keeps(s, t) /\ \A p \in Orders \ {o} : t.driver[p] = s.driver[p]
  BY <1>3, <1>4, <1>5, <1>8, <1>9, KeepsTransitive
<1> QED
  BY <1>10 DEF Release, q, e, t

LEMMA ForgetGood ==
  ASSUME NEW s, Good(s), NEW o \in Orders
  PROVE  Keeps(s, ForgetSearch(s, o)) /\ Keeps(s, ForgetRide(s, o))
<1> DEFINE f == ForgetSearch(s, o)
           t == ForgetRide(s, o)
<1>1. s \in Rows
  BY DEF Good
<1>2. f \in Rows /\ f.status = s.status /\ f.offered = s.offered /\ f.driver = s.driver
                 /\ f.parallel = s.parallel
  BY <1>1 DEF ForgetSearch, Rows
<1>3. t \in Rows /\ t.status = s.status /\ t.offered = s.offered /\ t.driver = s.driver
                 /\ t.parallel = s.parallel
  BY <1>1 DEF ForgetRide, Rows
<1> HIDE DEF f, t
<1>4. Keeps(s, f) /\ Keeps(s, t)
  BY <1>2, <1>3, SameIsGood
<1> QED
  BY <1>4 DEF f, t

LEMMA CloseGood ==
  ASSUME NEW s, Good(s), NEW o \in Orders, NEW status \in Closed
  PROVE  Keeps(s, Close(s, o, status))
<1> DEFINE f == ForgetSearch(s, o)
           r == ForgetRide(f, o)
           t == [r EXCEPT !.status[o] = status, !.driver[o] = NONE]
<1>1. Keeps(s, f)
  BY ForgetGood
<1>2. Keeps(f, r)
  BY <1>1, ForgetGood DEF Keeps
<1>3. Keeps(s, r)
  BY <1>1, <1>2, KeepsTransitive
<1> HIDE DEF f, r
<1>4. Good(r) /\ r \in Rows /\ status \in Statuses
  BY <1>3 DEF Keeps, Good, Statuses
<1>5. t \in Rows
  BY <1>4 DEF Rows
<1>6. /\ t.offered = r.offered /\ t.parallel = r.parallel
      /\ t.status = [r.status EXCEPT ![o] = status] /\ t.driver = [r.driver EXCEPT ![o] = NONE]
      /\ r.status \in [Orders -> Statuses] /\ r.driver \in [Orders -> Drivers \cup {NONE}]
  BY <1>4 DEF Rows
<1> HIDE DEF t
<1>7. Keeps(r, t)
  BY <1>4, <1>5, <1>6, FewerIsGood DEF Good, Fewer, Closed
<1> QED
  BY <1>3, <1>7, KeepsTransitive DEF Close, f, r, t

LEMMA CloseForGood ==
  ASSUME NEW s, Good(s), NEW o \in Orders, NEW status \in Closed
  PROVE  Keeps(s, CloseFor(s, o, status))
<1>1. Keeps(s, Close(s, o, status))
  BY CloseGood
<1>2. Keeps(Close(s, o, status), ResetCreator(Close(s, o, status), o))
  BY <1>1, ResetCreatorGood DEF Keeps
<1> QED
  BY <1>1, <1>2, KeepsTransitive DEF CloseFor

(***************************************************************************)
(* What a driver's message does before its handler                         *)
(***************************************************************************)
LEMMA OnlineKeeps ==
  ASSUME NEW s, Good(s), NEW d \in Drivers, NEW b \in BOOLEAN
  PROVE  Keeps(s, [s EXCEPT !.online[d] = b])
<1> DEFINE t == [s EXCEPT !.online[d] = b]
<1>1. s \in Rows
  BY DEF Good
<1>2. t \in Rows
  BY <1>1 DEF Rows
<1>3. t.status = s.status /\ t.offered = s.offered /\ t.driver = s.driver /\ t.parallel = s.parallel
  BY <1>1 DEF Rows
<1> HIDE DEF t
<1>4. Keeps(s, t)
  BY <1>2, <1>3, SameIsGood
<1> QED
  BY <1>4 DEF t

LEMMA LeaveLineKeeps ==
  ASSUME NEW s, Good(s), NEW d \in Drivers
  PROVE  Keeps(s, [LeaveQueue(s, d) EXCEPT !.online[d] = FALSE])
BY LeaveQueueGood, OnlineKeeps, KeepsTransitive DEF Keeps

LEMMA JoinLineKeeps ==
  ASSUME NEW s, Good(s), NEW d \in Drivers
  PROVE  Keeps(s, [JoinQueue(s, d) EXCEPT !.online[d] = TRUE])
BY JoinQueueGood, OnlineKeeps, KeepsTransitive DEF Keeps

LEMMA AdoptKeeps ==
  ASSUME NEW s, Good(s), NEW d \in Drivers  PROVE Keeps(s, Adopt(s, d))
<1> DEFINE legacy == Newest({o \in Orders : /\ s.parallel[o] = d /\ s.driver[o] = NONE
                                           /\ s.status[o] \in Riding})
           t == IF legacy # NONE /\ ActiveRide(s, d) = NONE
                THEN [s EXCEPT !.driver[legacy] = d] ELSE s
           ride == ActiveRide(t, d)
           u == [t EXCEPT !.parallel[ride] = NONE, !.peta[ride] = FALSE]
<1>1. s \in Rows
  BY DEF Good
<1>2. Keeps(s, t)
  <2>1. CASE legacy = NONE \/ ActiveRide(s, d) # NONE
    <3>1. t = s
      BY <2>1
    <3>2. Keeps(s, s)
      BY <1>1, SameIsGood
    <3> QED
      BY <3>1, <3>2
  <2>2. CASE legacy # NONE /\ ActiveRide(s, d) = NONE
    <3>1. legacy \in Orders /\ s.parallel[legacy] = d
      BY <2>2, NewestIn
    <3>2. s.offered[legacy] = NONE
      BY <3>1, NoneAssumption DEF Good
    <3>3. t = [s EXCEPT !.driver[legacy] = d]
      BY <2>2
    <3> HIDE DEF legacy, t
    <3>4. t \in Rows
      BY <1>1, <3>1, <3>3, Zenon DEF Rows
    <3>5. /\ t.status = s.status /\ t.offered = s.offered /\ t.parallel = s.parallel
          /\ \A p \in Orders \ {legacy} : t.driver[p] = s.driver[p]
      BY <1>1, <3>1, <3>3 DEF Rows
    <3> QED
      BY <3>1, <3>2, <3>4, <3>5, OneOrderKeeps
  <2> QED
    BY <2>1, <2>2
<1>3. Good(t) /\ t \in Rows
  BY <1>2, GoodRows
<1>4. CASE ride # NONE /\ t.parallel[ride] = d
  <2> HIDE DEF t
  <2>1. ride \in Orders /\ t.driver[ride] = d
    BY <1>4, ActiveRideIn
  <2> HIDE DEF ride
  <2>2. t.offered[ride] = NONE
    BY <1>3, <2>1, NoneAssumption DEF Good
  <2>3. u \in Rows
    BY <1>3, <2>1 DEF Rows
  <2>4. /\ u.status = t.status /\ u.offered = t.offered /\ u.driver = t.driver
        /\ \A p \in Orders \ {ride} : u.parallel[p] = t.parallel[p]
    BY <1>3, <2>1 DEF Rows
  <2> HIDE DEF u
  <2>5. Keeps(t, u)
    BY <1>3, <2>1, <2>2, <2>3, <2>4, OneOrderKeeps
  <2> QED
    BY <1>2, <1>4, <2>5, KeepsTransitive DEF Adopt, t, u, ride, legacy
<1>5. CASE ~(ride # NONE /\ t.parallel[ride] = d)
  BY <1>2, <1>5 DEF Adopt
<1> QED
  BY <1>4, <1>5

LEMMA ReleaseStaleGood ==
  ASSUME NEW s, Good(s), NEW d \in Drivers  PROVE Good(ReleaseStale(s, d))
<1> DEFINE o == PendingOffer(s, d)
           t == [s EXCEPT !.offered[o] = NONE, !.status[o] = "created", !.card[o] = FALSE]
           m == MarkAssigned(t, d)
<1>1. CASE o = NONE
  BY <1>1 DEF ReleaseStale
<1>2. CASE o # NONE
  <2>1. s \in Rows /\ o \in Orders /\ "created" \in Statuses
    BY <1>2, PendingOfferIn, StatusValues DEF Good
  <2> HIDE DEF o
  <2>2. t \in Rows
    BY <2>1 DEF Rows
  <2>3. /\ t.driver = s.driver /\ t.parallel = s.parallel /\ t.offered[o] = NONE
        /\ \A p \in Orders \ {o} : t.status[p] = s.status[p] /\ t.offered[p] = s.offered[p]
    BY <2>1 DEF Rows
  <2> HIDE DEF t
  <2>4. Good(t)
    BY <2>1, <2>2, <2>3, OneOrderKeeps DEF Keeps
  <2>5. Good(m)
    BY <2>4, MarkAssignedGood DEF Keeps
  <2> HIDE DEF m
  <2>6. Good(OfferNext(m, o, {d}))
    BY <2>1, <2>5, OfferNextGood
  <2> QED
    BY <2>6 DEF ReleaseStale, o, t, m
<1> QED
  BY <1>1, <1>2

LEMMA BeginGood ==
  ASSUME Good(db), NEW d \in Drivers  PROVE Good(Begin(d)) /\ Begin(d) \in Rows
<1>1. Good(Adopt(db, d))
  BY AdoptKeeps DEF Keeps
<1>2. Good(Begin(d))
  BY <1>1, ReleaseStaleGood DEF Begin
<1> QED
  BY <1>2 DEF Good

(***************************************************************************)
(* Claims and the end of a ride                                            *)
(***************************************************************************)
LEMMA ClaimKeeps ==
  ASSUME NEW s, Good(s), NEW d \in Drivers, NEW o \in Orders, NEW back
  PROVE  Keeps(s, Claim(s, d, o, back))
<1> DEFINE j == IF back THEN [JoinQueue(s, d) EXCEPT !.online[d] = TRUE] ELSE s
           q == Dequeue(j, o)
           t == [q EXCEPT !.offered[o] = NONE, !.driver[o] = d, !.status[o] = "assigned",
                          !.deadline[o] = FALSE]
           m == MarkAssigned(t, d)
<1>1. Keeps(s, s)
  BY SameIsGood DEF Good
<1>2. Keeps(s, j)
  BY <1>1, JoinLineKeeps
<1> HIDE DEF j
<1>3. Keeps(s, q)
  BY <1>2, DequeueGood, KeepsTransitive, GoodRows
<1> HIDE DEF q
<1>4. Good(q) /\ q \in Rows /\ "assigned" \in Statuses
  BY <1>3, GoodRows, StatusValues
<1>5. t \in Rows
  BY <1>4 DEF Rows
<1>6. /\ t.parallel = q.parallel /\ t.offered[o] = NONE
      /\ \A p \in Orders \ {o} : /\ t.status[p] = q.status[p] /\ t.offered[p] = q.offered[p]
                                /\ t.driver[p] = q.driver[p]
  BY <1>4 DEF Rows
<1> HIDE DEF t
<1>7. Keeps(q, t)
  BY <1>4, <1>5, <1>6, OneOrderKeeps
<1>8. Keeps(t, m)
  BY <1>7, MarkAssignedGood, GoodRows
<1> HIDE DEF m
<1>9. Keeps(s, m)
  BY <1>3, <1>7, <1>8, KeepsTransitive
<1> QED
  BY <1>9 DEF Claim, j, q, t, m

LEMMA TakenGood ==
  ASSUME NEW s, Good(s), NEW d \in Drivers, NEW o \in Orders, NEW other \in Orders \cup {NONE}
  PROVE  Good(Taken(s, d, o, other))
<1> DEFINE temp == ~s.online[d]
           c == Claim(s, d, o, temp \/ s.dstat[d] = "away")
           t == [c EXCEPT !.temp[o] = temp, !.card[o] = TRUE]
<1>1. Good(c) /\ c \in Rows
  BY ClaimKeeps, GoodRows
<1>2. temp \in BOOLEAN
  OBVIOUS
<1> HIDE DEF temp, c
<1>3. t \in Rows
  BY <1>1, <1>2 DEF Rows
<1>4. t.status = c.status /\ t.offered = c.offered /\ t.driver = c.driver /\ t.parallel = c.parallel
  BY <1>1 DEF Rows
<1> HIDE DEF t
<1>5. Good(t)
  BY <1>1, <1>3, <1>4, SameIsGood DEF Keeps
<1>6. ASSUME other # NONE PROVE Good(OfferNext(t, other, {}))
  BY <1>5, <1>6, OfferNextGood
<1> QED
  BY <1>5, <1>6 DEF Taken, temp, c, t

LEMMA RelieveGood ==
  ASSUME NEW v, NEW s, Good(v), Keeps(v, s), NEW d \in Drivers
  PROVE  Keeps(s, Relieve(v, s, d))
BY PromoteAfterGood, RestorePositionGood, GoodRows DEF Relieve

LEMMA LeaveTemporaryKeeps ==
  ASSUME NEW s, Good(s), NEW d \in Drivers, NEW temp
  PROVE  Keeps(s, LeaveTemporary(s, d, temp))
<1>1. Keeps(s, s)
  BY SameIsGood DEF Good
<1> QED
  BY <1>1, LeaveLineKeeps DEF LeaveTemporary

LEMMA FollowGood ==
  ASSUME NEW s, Good(s), NEW o \in Orders  PROVE Good(Follow(s, o))
<1> DEFINE t == [s EXCEPT !.address[CreatorOf[o]] = NONE]
<1>1. s \in Rows
  BY DEF Good
<1>2. t \in Rows
  BY <1>1 DEF Rows
<1>3. t.status = s.status /\ t.offered = s.offered /\ t.driver = s.driver /\ t.parallel = s.parallel
  BY <1>1 DEF Rows
<1> HIDE DEF t
<1>4. Good(t)
  BY <1>2, <1>3, SameIsGood DEF Keeps
<1> QED
  BY <1>4 DEF Follow, t

(***************************************************************************)
(* The actions of a driver                                                 *)
(***************************************************************************)
LEMMA FewerRefl == ASSUME NEW s PROVE Fewer(s, s)
BY DEF Fewer

LEMMA PromotesSelf ==
  ASSUME NEW s, Good(s), NEW t \in Promotes(s, s)
  PROVE  Good(t) /\ t.driver = s.driver
BY FewerRefl, PromotesGood DEF Good

LEMMA LineActions ==
  ASSUME Good(db), NEW d \in Drivers,
         DriverMessage(d) \/ GoOnline(d) \/ GoOffline(d) \/ GoAway(d) \/ AwayExpire(d)
  PROVE  Good(db')
<1>1. Good(Begin(d))
  BY BeginGood
<1>2. CASE DriverMessage(d)
  BY <1>1, <1>2 DEF DriverMessage
<1>3. CASE GoOnline(d)
  BY <1>1, <1>3, JoinLineKeeps, GoodRows, PromotesSelf DEF GoOnline
<1>4. CASE GoOffline(d)
  BY <1>1, <1>4, LeaveLineKeeps, GoodRows DEF GoOffline
<1>5. CASE GoAway(d)
  BY <1>1, <1>5, SetAwayGood, GoodRows DEF GoAway
<1>6. CASE AwayExpire(d)
  BY <1>6, LeaveLineKeeps, GoodRows DEF AwayExpire
<1> QED
  BY <1>2, <1>3, <1>4, <1>5, <1>6

\* A change of the ride that gives it a status and leaves its driver.
LEMMA RideStatusGood ==
  ASSUME NEW s, Good(s), NEW d \in Drivers, NEW o \in Orders, s.driver[o] = d,
         NEW status \in Riding
  PROVE  Good([s EXCEPT !.status[o] = status])
<1> DEFINE t == [s EXCEPT !.status[o] = status]
<1>1. s \in Rows /\ status \in Statuses /\ s.offered[o] = NONE
  BY StatusValues, NoneAssumption DEF Good
<1>2. t \in Rows
  BY <1>1, ZenonT(40) DEF Rows
<1>3. /\ t.offered = s.offered /\ t.driver = s.driver /\ t.parallel = s.parallel
      /\ \A p \in Orders \ {o} : t.status[p] = s.status[p]
  BY <1>1 DEF Rows
<1> HIDE DEF t
<1>4. Good(t)
  BY <1>1, <1>2, <1>3, OneOrderKeeps DEF Keeps
<1> QED
  BY <1>4 DEF t

LEMMA CardGood ==
  ASSUME NEW s, Good(s), NEW o \in Orders, NEW b \in BOOLEAN
  PROVE  Keeps(s, [s EXCEPT !.card[o] = b])
<1> DEFINE t == [s EXCEPT !.card[o] = b]
<1>1. s \in Rows
  BY DEF Good
<1>2. t \in Rows
  BY <1>1 DEF Rows
<1>3. t.status = s.status /\ t.offered = s.offered /\ t.driver = s.driver /\ t.parallel = s.parallel
  BY <1>1 DEF Rows
<1> HIDE DEF t
<1>4. Keeps(s, t)
  BY <1>2, <1>3, SameIsGood
<1> QED
  BY <1>4 DEF t

LEMMA RideActions ==
  ASSUME Good(db), NEW d \in Drivers,
         ShowEtaMenu(d) \/ SetEta(d) \/ Arrived(d) \/ Seated(d)
  PROVE  Good(db')
<1> DEFINE s == Begin(d)
           o == ActiveRide(s, d)
<1>1. Good(s)
  BY BeginGood
<1>2. o \in Orders /\ s.driver[o] = d
  BY ActiveRideIn DEF ShowEtaMenu, SetEta, Arrived, Seated, OnRide
<1>3. CASE ShowEtaMenu(d)
  BY <1>1, <1>2, <1>3, CardGood, GoodRows DEF ShowEtaMenu
<1>4. CASE SetEta(d)
  BY <1>1, <1>2, <1>4, CardGood, FollowGood, GoodRows DEF SetEta
<1>5. CASE Arrived(d)
  BY <1>1, <1>2, <1>5, RideStatusGood, FollowGood DEF Arrived, Riding
<1>6. CASE Seated(d)
  BY <1>1, <1>2, <1>6, RideStatusGood, FollowGood DEF Seated, Riding
<1> QED
  BY <1>3, <1>4, <1>5, <1>6

LEMMA CompleteGood ==
  ASSUME Good(db), NEW d \in Drivers, Complete(d)  PROVE Good(db')
<1> DEFINE s == Begin(d)
           o == ActiveRide(s, d)
           c == CloseFor(s, o, "completed")
           t == LeaveTemporary(c, d, s.temp[o])
<1>1. Good(s) /\ o \in Orders
  BY BeginGood, ActiveRideIn DEF Complete, OnRide
<1>2. db' = IF Reserved(s, d) # NONE THEN PromoteAfter(s, t, d) ELSE SetAway(t, d)
  BY DEF Complete
<1> HIDE DEF s, o
<1>3. Keeps(s, c)
  BY <1>1, CloseForGood DEF Closed
<1> HIDE DEF c
<1>4. Keeps(c, t)
  BY <1>3, LeaveTemporaryKeeps, GoodRows
<1> HIDE DEF t
<1>5. Keeps(s, t)
  BY <1>3, <1>4, KeepsTransitive
<1> QED
  BY <1>1, <1>2, <1>5, PromoteAfterGood, SetAwayGood, GoodRows

LEMMA CancelForClientGood ==
  ASSUME Good(db), NEW d \in Drivers, CancelForClient(d)  PROVE Good(db')
<1> DEFINE s == Begin(d)
           o == ActiveRide(s, d)
           c == CloseFor(s, o, "cancelled")
           t == LeaveTemporary(SetAway(c, d), d, s.temp[o])
           u == LeaveTemporary(c, d, s.temp[o])
<1>1. Good(s) /\ o \in Orders
  BY BeginGood, ActiveRideIn DEF CancelForClient, OnRide
<1>2. IF Reserved(s, d) # NONE THEN db' = PromoteAfter(s, u, d)
      ELSE db' \in {SetAway(r, d) : r \in Promotes(t, t)}
  BY DEF CancelForClient
<1> HIDE DEF s, o
<1>3. Keeps(s, c)
  BY <1>1, CloseForGood DEF Closed
<1> HIDE DEF c
<1>4. Good(t)
  BY <1>3, SetAwayGood, LeaveTemporaryKeeps, GoodRows
<1>5. Keeps(c, u)
  BY <1>3, LeaveTemporaryKeeps, GoodRows
<1> HIDE DEF t, u
<1>6. Keeps(s, u)
  BY <1>3, <1>5, KeepsTransitive
<1>7. CASE Reserved(s, d) # NONE
  BY <1>1, <1>2, <1>6, <1>7, PromoteAfterGood, GoodRows
<1>8. CASE Reserved(s, d) = NONE
  BY <1>2, <1>4, <1>8, PromotesSelf, SetAwayGood, GoodRows
<1> QED
  BY <1>7, <1>8

LEMMA CancelForCarGood ==
  ASSUME Good(db), NEW d \in Drivers, CancelForCar(d)  PROVE Good(db')
<1> DEFINE s == Begin(d)
           o == ActiveRide(s, d)
           first == [s EXCEPT !.deadline[o] = FALSE]
           t == Release(first, Reserved(s, d))
           Released == IF Reserved(s, d) = NONE THEN {first} ELSE Promotes(t, t)
           Ended(r) == SetAway([LeaveQueue(Close(r, o, "cancelled"), d)
                                  EXCEPT !.online[d] = FALSE, !.driver[o] = d], d)
           Search(r) == SetAway([r EXCEPT !.driver[o] = NONE, !.status[o] = "searching"], d)
           Again(r) == OfferNext(Search(r), o, {})
<1>0. Good(s) /\ s \in Rows
  BY BeginGood
<1>1. o \in Orders /\ s.driver[o] = d
  BY ActiveRideIn DEF CancelForCar, OnRide
<1>2. /\ s.status[o] \in Riding \cup {"searching"}
      /\ \E r \in Released : \/ db' = Ended(r)
                            \/ db' \in {SetAway(q, d) : q \in Promotes(Again(r), Again(r))}
  BY Zenon DEF CancelForCar
<1> HIDE DEF s, o
<1>3. first \in Rows /\ first.status = s.status /\ first.offered = s.offered
      /\ first.driver = s.driver /\ first.parallel = s.parallel
  BY <1>0, <1>1 DEF Rows
<1> HIDE DEF first
<1>4. Good(first)
  BY <1>0, <1>3, SameIsGood DEF Keeps
<1>5. \A r \in Released : Good(r) /\ r.driver[o] = d
  <2>1. CASE Reserved(s, d) = NONE
    BY <1>1, <1>3, <1>4, <2>1
  <2>2. CASE Reserved(s, d) # NONE
    <3>1. Reserved(s, d) \in Orders \ {o}
      BY <1>2, <2>2, ReservedIn DEF Riding
    <3>2. Good(t) /\ t.driver[o] = d
      BY <1>1, <1>3, <1>4, <3>1, ReleaseGood DEF Keeps
    <3> HIDE DEF t
    <3> QED
      BY <2>2, <3>2, PromotesSelf
  <2> QED
    BY <2>1, <2>2
<1> HIDE DEF Released
<1>6. PICK r \in Released : \/ db' = Ended(r)
                            \/ db' \in {SetAway(q, d) : q \in Promotes(Again(r), Again(r))}
  BY <1>2, Zenon
<1>7. Good(r) /\ r \in Rows /\ r.offered[o] = NONE
  BY <1>1, <1>5, NoneAssumption DEF Good
<1>8. CASE db' = Ended(r)
  <2> DEFINE c == Close(r, o, "cancelled")
             l == [LeaveQueue(c, d) EXCEPT !.online[d] = FALSE]
             e == [l EXCEPT !.driver[o] = d]
  <2>1. Keeps(r, c)
    BY <1>1, <1>7, CloseGood DEF Closed
  <2> HIDE DEF c
  <2>2. Keeps(c, l)
    BY <2>1, LeaveLineKeeps, GoodRows
  <2> HIDE DEF l
  <2>3. Good(l) /\ l \in Rows /\ l.offered[o] = NONE
    <3>1. Keeps(r, l)
      BY <2>1, <2>2, KeepsTransitive
    <3>2. Fewer(r, l)
      BY <3>1 DEF Keeps
    <3>3. l.offered[o] = NONE
      BY <1>1, <1>7, <3>2 DEF Fewer
    <3> QED
      BY <3>1, <3>3, GoodRows
  <2>4. e \in Rows
    <3>1. o \in Orders
      BY <1>1
    <3> QED
      BY <2>3, <3>1, ZenonT(40) DEF Rows
  <2>5. /\ e.status = l.status /\ e.offered = l.offered /\ e.parallel = l.parallel
        /\ \A p \in Orders \ {o} : e.driver[p] = l.driver[p]
    <3>1. e.status = l.status /\ e.offered = l.offered /\ e.parallel = l.parallel
      BY <2>3 DEF Rows
    <3>2. e.driver = [l.driver EXCEPT ![o] = d] /\ l.driver \in [Orders -> Drivers \cup {NONE}]
      BY <2>3 DEF Rows
    <3> QED
      BY <3>1, <3>2
  <2>6. db' = SetAway(e, d)
    <3>1. e = [LeaveQueue(c, d) EXCEPT !.online[d] = FALSE, !.driver[o] = d]
      BY DEF l
    <3> QED
      BY <1>8, <3>1 DEF c
  <2> HIDE DEF e
  <2>7. Good(e)
    BY <1>1, <2>3, <2>4, <2>5, OneOrderKeeps DEF Keeps
  <2> QED
    BY <2>6, <2>7, SetAwayGood DEF Keeps
<1>9. CASE db' \in {SetAway(q, d) : q \in Promotes(Again(r), Again(r))}
  <2> DEFINE e == [r EXCEPT !.driver[o] = NONE, !.status[o] = "searching"]
  <2>1. e \in Rows
    BY <1>1, <1>7, StatusValues, Zenon DEF Rows
  <2>2. /\ e.offered = r.offered /\ e.parallel = r.parallel
        /\ \A p \in Orders \ {o} : e.status[p] = r.status[p] /\ e.driver[p] = r.driver[p]
    BY <1>1, <1>7 DEF Rows
  <2> HIDE DEF e
  <2>3. Good(e)
    BY <1>1, <1>7, <2>1, <2>2, OneOrderKeeps DEF Keeps
  <2>4. Good(SetAway(e, d))
    BY <2>3, SetAwayGood DEF Keeps
  <2>5. Good(Again(r))
    BY <1>1, <2>4, OfferNextGood DEF e
  <2> HIDE DEF Again
  <2> QED
    BY <1>9, <2>5, PromotesSelf, SetAwayGood DEF Keeps
<1> QED
  BY <1>6, <1>8, <1>9

(***************************************************************************)
(* The actions of a creator and of the administrator                       *)
(***************************************************************************)
LEMMA StatusKeeps ==
  ASSUME NEW s, Good(s), NEW o \in Orders, NEW status \in Statuses \ {"searching"}
  PROVE  Keeps(s, [s EXCEPT !.status[o] = status])
<1> DEFINE t == [s EXCEPT !.status[o] = status]
<1>1. s \in Rows
  BY DEF Good
<1>2. t \in Rows
  BY <1>1 DEF Rows
<1>3. t.offered = s.offered /\ t.driver = s.driver /\ t.parallel = s.parallel
  BY <1>1 DEF Rows
<1>4. t.status = [s.status EXCEPT ![o] = status] /\ s.status \in [Orders -> Statuses]
  BY <1>1 DEF Rows
<1> HIDE DEF t
<1>5. Keeps(s, t)
  BY <1>2, <1>3, <1>4, FewerIsGood DEF Good, Fewer
<1> QED
  BY <1>5 DEF t

LEMMA DeadlineKeeps ==
  ASSUME NEW s, Good(s), NEW o \in Orders, NEW b \in BOOLEAN
  PROVE  Keeps(s, [s EXCEPT !.deadline[o] = b])
<1> DEFINE t == [s EXCEPT !.deadline[o] = b]
<1>1. s \in Rows
  BY DEF Good
<1>2. t \in Rows
  BY <1>1 DEF Rows
<1>3. t.status = s.status /\ t.offered = s.offered /\ t.driver = s.driver /\ t.parallel = s.parallel
  BY <1>1 DEF Rows
<1> HIDE DEF t
<1>4. Keeps(s, t)
  BY <1>2, <1>3, SameIsGood
<1> QED
  BY <1>4 DEF t

LEMMA ClearOfferKeeps ==
  ASSUME NEW s, Good(s), NEW o \in Orders
  PROVE  Keeps(s, [s EXCEPT !.offered[o] = NONE])
<1> DEFINE t == [s EXCEPT !.offered[o] = NONE]
<1>1. s \in Rows
  BY DEF Good
<1>2. t \in Rows
  BY <1>1 DEF Rows
<1>3. t.status = s.status /\ t.driver = s.driver /\ t.parallel = s.parallel
  BY <1>1 DEF Rows
<1>4. t.offered[o] = NONE /\ \A p \in Orders \ {o} : t.offered[p] = s.offered[p]
  BY <1>1 DEF Rows
<1> HIDE DEF t
<1>5. Keeps(s, t)
  BY <1>2, <1>3, <1>4, OneOrderKeeps
<1> QED
  BY <1>5 DEF t

LEMMA CreateActions ==
  ASSUME Good(db), NEW o \in Orders, CreateOrder(o) \/ DispCreate(o)
  PROVE  Good(db')
<1> DEFINE c == [db EXCEPT !.status[o] = "created"]
           e == [c EXCEPT !.deadline[o] = TRUE]
<1>1. Good(c)
  BY StatusKeeps, StatusValues, GoodRows
<1>2. e = [db EXCEPT !.status[o] = "created", !.deadline[o] = TRUE]
  OBVIOUS
<1> HIDE DEF c
<1>3. Good(e)
  BY <1>1, DeadlineKeeps, GoodRows
<1> HIDE DEF e
<1>4. Good(ResetCreator(c, o)) /\ Good(ResetCreator(e, o))
  BY <1>1, <1>3, ResetCreatorGood, GoodRows
<1>5. CASE CreateOrder(o)
  BY <1>4, <1>5, OfferNextGood DEF CreateOrder, c
<1>6. CASE DispCreate(o)
  BY <1>2, <1>4, <1>6, OfferNextGood DEF DispCreate
<1> QED
  BY <1>5, <1>6

LEMMA DialogueActions ==
  ASSUME Good(db), NEW c \in Creators, UpdateAddress(c) \/ LeaveDialogue(c)
  PROVE  Good(db')
<1>1. db \in Rows
  BY DEF Good
<1>2. CASE UpdateAddress(c)
  <2> DEFINE o == db.address[c]
             t == [db EXCEPT !.offered[o] = NONE, !.status[o] = "searching"]
             s == ResetCreator(Dequeue(t, o), o)
  <2>1. o \in Orders
    BY <1>1, <1>2 DEF UpdateAddress, Rows
  <2>2. db' = OfferNext(s, o, {})
    BY <1>2 DEF UpdateAddress
  <2> HIDE DEF o
  <2>3. t \in Rows
    BY <1>1, <2>1, StatusValues DEF Rows
  <2>4. t.driver = db.driver /\ t.parallel = db.parallel /\ t.offered[o] = NONE
    BY <1>1, <2>1 DEF Rows
  <2>5. \A p \in Orders \ {o} : t.status[p] = db.status[p] /\ t.offered[p] = db.offered[p]
    BY <1>1, <2>1 DEF Rows
  <2> HIDE DEF t
  <2>6. Good(t)
    BY <2>1, <2>3, <2>4, <2>5, OneOrderKeeps, GoodRows
  <2>7. Good(s)
    BY <2>1, <2>6, DequeueGood, ResetCreatorGood, GoodRows
  <2> QED
    BY <2>1, <2>2, <2>7, OfferNextGood
<1>3. CASE LeaveDialogue(c)
  <2> DEFINE t == [db EXCEPT !.address[c] = NONE, !.current[c] = NONE]
  <2>1. t \in Rows
    BY <1>1 DEF Rows
  <2>2. t.status = db.status /\ t.offered = db.offered
        /\ t.driver = db.driver /\ t.parallel = db.parallel
    BY <1>1 DEF Rows
  <2>3. db' = t
    BY <1>3 DEF LeaveDialogue
  <2> HIDE DEF t
  <2> QED
    BY <2>1, <2>2, <2>3, SameIsGood, GoodRows
<1> QED
  BY <1>2, <1>3

LEMMA ClosedDequeued ==
  ASSUME NEW s, Good(s), NEW o \in Orders
  PROVE  /\ Keeps(s, Dequeue(CloseFor(s, o, "cancelled"), o))
         /\ Keeps(s, Dequeue(Close(s, o, "cancelled"), o))
<1> DEFINE c == CloseFor(s, o, "cancelled")
           e == Close(s, o, "cancelled")
<1>1. Keeps(s, c) /\ Keeps(s, e)
  BY CloseForGood, CloseGood DEF Closed
<1> HIDE DEF c, e
<1>2. Keeps(c, Dequeue(c, o)) /\ Keeps(e, Dequeue(e, o))
  BY <1>1, DequeueGood, GoodRows
<1>3. Keeps(s, Dequeue(c, o)) /\ Keeps(s, Dequeue(e, o))
  BY <1>1, <1>2, KeepsTransitive
<1> QED
  BY <1>3 DEF c, e

LEMMA OfferWithdrawn ==
  ASSUME NEW s, Good(s), NEW o \in Orders, NEW d \in Drivers
  PROVE  Keeps(s, [ReleaseOffer(s, d) EXCEPT !.offered[o] = NONE])
BY ReleaseOfferGood, ClearOfferKeeps, KeepsTransitive, GoodRows

LEMMA OrderColumns ==
  ASSUME NEW s, Good(s), NEW o \in Orders
  PROVE  s.offered[o] \in Drivers \cup {NONE} /\ s.driver[o] \in Drivers \cup {NONE}
BY DEF Good, Rows

LEMMA PassengerCancelGood ==
  ASSUME Good(db), NEW c \in Creators, PassengerCancel(c)  PROVE Good(db')
<1> DEFINE o == OrderOf(db, c)
           d == db.driver[o]
           off == db.offered[o]
           s == Dequeue(CloseFor(db, o, "cancelled"), o)
           free == [s EXCEPT !.parallel[o] = NONE, !.driver[o] = NONE]
           t == IF off = NONE THEN s ELSE [ReleaseOffer(s, off) EXCEPT !.offered[o] = NONE]
           u == Relieve(db, s, d)
<1>1. o \in Orders
  BY NewestIn, Zenon DEF PassengerCancel, OrderOf
<1>2. IF d = NONE THEN db' \in Promotes(db, t)
      ELSE IF db.parallel[o] # NONE THEN db' \in Promotes(db, free)
      ELSE \E v \in {db, u} : db' \in Promotes(v, u)
  BY DEF PassengerCancel
<1> HIDE DEF o
<1>3. Keeps(db, s)
  BY <1>1, ClosedDequeued
<1>4. off \in Drivers \cup {NONE} /\ d \in Drivers \cup {NONE}
  BY <1>1, OrderColumns
<1> HIDE DEF d, off, s
<1>5. Keeps(db, t)
  BY <1>1, <1>3, <1>4, OfferWithdrawn, KeepsTransitive, GoodRows
<1>6. Keeps(db, free)
  <2>1. Good(s) /\ s \in Rows
    BY <1>3, GoodRows
  <2>2. free \in Rows
    BY <1>1, <2>1 DEF Rows
  <2>3. free.status = s.status /\ free.offered = s.offered
    BY <2>1 DEF Rows
  <2>4. free.driver = [s.driver EXCEPT ![o] = NONE] /\ free.parallel = [s.parallel EXCEPT ![o] = NONE]
        /\ s.driver \in [Orders -> Drivers \cup {NONE}]
        /\ s.parallel \in [Orders -> Drivers \cup {NONE}]
    BY <2>1 DEF Rows
  <2> HIDE DEF free
  <2>5. Keeps(s, free)
    BY <1>1, <2>1, <2>2, <2>3, <2>4, FewerIsGood DEF Good, Fewer
  <2> QED
    BY <1>3, <2>5, KeepsTransitive
<1>7. ASSUME d # NONE PROVE Keeps(db, u)
  BY <1>3, <1>4, <1>7, RelieveGood, KeepsTransitive
<1> HIDE DEF t, free, u
<1>8. \A q : Keeps(db, q) => \A x \in Promotes(db, q) : Good(x)
  BY PromotesGood DEF Keeps, Good
<1>9. ASSUME d # NONE, NEW v \in {db, u}, db' \in Promotes(v, u) PROVE Good(db')
  BY <1>7, <1>8, <1>9, PromotesSelf, GoodRows
<1> QED
  BY <1>2, <1>5, <1>6, <1>8, <1>9

LEMMA DispCancelGood ==
  ASSUME Good(db), NEW o \in Orders, DispCancel(o)  PROVE Good(db')
<1> DEFINE d == db.driver[o]
           off == db.offered[o]
           s == Dequeue(Close(db, o, "cancelled"), o)
<1>1. IF d # NONE THEN db' = Relieve(db, s, d)
      ELSE IF off # NONE THEN db' = [ReleaseOffer(s, off) EXCEPT !.offered[o] = NONE]
      ELSE db' = s
  BY DEF DispCancel
<1>2. Keeps(db, s)
  BY ClosedDequeued
<1>3. off \in Drivers \cup {NONE} /\ d \in Drivers \cup {NONE}
  BY OrderColumns
<1> HIDE DEF d, off, s
<1>4. Good(s)
  BY <1>2, GoodRows
<1>5. ASSUME d # NONE PROVE Good(Relieve(db, s, d))
  BY <1>2, <1>3, <1>5, RelieveGood, GoodRows
<1>6. ASSUME off # NONE PROVE Good([ReleaseOffer(s, off) EXCEPT !.offered[o] = NONE])
  BY <1>3, <1>4, <1>6, OfferWithdrawn, GoodRows
<1> QED
  BY <1>1, <1>4, <1>5, <1>6

LEMMA TimeoutActions ==
  ASSUME Good(db), NEW o \in Orders, DispatcherUnclaimed(o) \/ ChatTimeout(o)
  PROVE  Good(db')
<1>1. CASE DispatcherUnclaimed(o)
  <2> DEFINE off == db.offered[o]
             s == IF off = NONE THEN db ELSE ReleaseOffer(db, off)
             t == [s EXCEPT !.offered[o] = NONE]
  <2>1. db' \in {Dequeue(Close(t, o, "cancelled"), o), [db EXCEPT !.deadline[o] = FALSE]}
    BY <1>1 DEF DispatcherUnclaimed
  <2>2. off \in Drivers \cup {NONE}
    BY OrderColumns
  <2> HIDE DEF off
  <2>3. Good(s)
    BY <2>2, ReleaseOfferGood, GoodRows
  <2> HIDE DEF s
  <2>4. Good(t)
    BY <2>3, ClearOfferKeeps, GoodRows
  <2> HIDE DEF t
  <2> QED
    BY <2>1, <2>4, ClosedDequeued, DeadlineKeeps, GoodRows
<1>2. CASE ChatTimeout(o)
  BY <1>2, CloseForGood, GoodRows DEF ChatTimeout, Closed
<1> QED
  BY <1>1, <1>2

LEMMA AdminCancelGood ==
  ASSUME Good(db), NEW o \in Orders, AdminCancel(o)  PROVE Good(db')
<1> DEFINE Restore(s, e) ==
             IF s.row[e] = "none" THEN [s EXCEPT !.dstat[e] = "offline"]
             ELSE IF s.online[e] THEN [s EXCEPT !.row[e] = "waiting", !.dstat[e] = "online"]
             ELSE s
           off == db.offered[o]
           d == db.driver[o]
           q == Dequeue(Close(db, o, "cancelled"), o)
           s == ResetCreator(q, o)
           t == IF off = NONE THEN s ELSE Restore(s, off)
           u == IF d = NONE \/ d = off \/ db.status[o] \notin Riding THEN t
                ELSE IF Reserved(db, d) # NONE THEN PromoteAfter(db, t, d)
                ELSE Restore(t, d)
           w == [u EXCEPT !.offered[o] = NONE, !.parallel[o] = NONE]
<1>1. db' = w
  BY DEF AdminCancel
<1>2. off \in Drivers \cup {NONE} /\ d \in Drivers \cup {NONE}
  BY OrderColumns
<1>3. ASSUME NEW r, Good(r), NEW e \in Drivers PROVE Keeps(r, Restore(r, e))
  <2> DEFINE x == [r EXCEPT !.dstat[e] = "offline"]
  <2>1. r \in Rows
    BY <1>3 DEF Good
  <2>2. x \in Rows
    BY <1>3, <2>1, Zenon DEF Rows
  <2>3. x.status = r.status /\ x.offered = r.offered /\ x.driver = r.driver /\ x.parallel = r.parallel
    BY <2>1 DEF Rows
  <2> HIDE DEF x
  <2>4. Keeps(r, x) /\ Keeps(r, r)
    BY <1>3, <2>1, <2>2, <2>3, SameIsGood
  <2>5. Keeps(r, [r EXCEPT !.row[e] = "waiting", !.dstat[e] = "online"])
    BY <1>3, DriverColumnsGood, Zenon DEF QueueStates, DriverStates
  <2> QED
    BY <2>4, <2>5 DEF x
<1>4. Keeps(db, q)
  BY ClosedDequeued
<1> HIDE DEF off, d, q, Restore
<1>5. Keeps(db, s)
  BY <1>4, ResetCreatorGood, KeepsTransitive, GoodRows
<1> HIDE DEF s
<1>6. Keeps(db, t)
  BY <1>2, <1>3, <1>5, KeepsTransitive, GoodRows
<1> HIDE DEF t
<1>7. Good(u)
  BY <1>2, <1>3, <1>6, PromoteAfterGood, GoodRows
<1> HIDE DEF u
<1>8. Good(w)
  <2>1. u \in Rows
    BY <1>7 DEF Good
  <2>2. w \in Rows
    BY <2>1 DEF Rows
  <2>3. w.status = u.status /\ w.driver = u.driver
    BY <2>1 DEF Rows
  <2>4. /\ w.offered = [u.offered EXCEPT ![o] = NONE] /\ w.parallel = [u.parallel EXCEPT ![o] = NONE]
        /\ u.offered \in [Orders -> Drivers \cup {NONE}]
        /\ u.parallel \in [Orders -> Drivers \cup {NONE}]
    BY <2>1 DEF Rows
  <2> HIDE DEF w
  <2> QED
    BY <1>7, <2>2, <2>3, <2>4, OneOrderKeeps, GoodRows
<1> QED
  BY <1>1, <1>8

(***************************************************************************)
(* The answers to an offer, and the claims                                 *)
(***************************************************************************)
LEMMA AcceptGood ==
  ASSUME Good(db), NEW d \in Drivers, NEW o \in Orders, Accept(d, o)  PROVE Good(db')
<1> DEFINE s == Begin(d)
           t == [s EXCEPT !.offered[o] = NONE, !.driver[o] = d, !.status[o] = "assigned",
                          !.card[o] = TRUE, !.deadline[o] = FALSE]
<1>1. Good(s) /\ s \in Rows
  BY BeginGood
<1>2. db' = MarkAssigned(t, d)
  BY DEF Accept
<1> HIDE DEF s
<1>3. t \in Rows
  BY <1>1, StatusValues DEF Rows
<1>4. t.offered[o] = NONE /\ t.parallel = s.parallel
  BY <1>1 DEF Rows
<1>5. \A p \in Orders \ {o} : /\ t.status[p] = s.status[p] /\ t.offered[p] = s.offered[p]
                            /\ t.driver[p] = s.driver[p]
  BY <1>1 DEF Rows
<1> HIDE DEF t
<1>6. Good(t)
  BY <1>1, <1>3, <1>4, <1>5, OneOrderKeeps, GoodRows
<1> QED
  BY <1>2, <1>6, MarkAssignedGood, GoodRows

LEMMA DeclinedGood ==
  ASSUME NEW s, Good(s), NEW d \in Drivers, NEW o \in Orders
  PROVE  Good(Declined(s, d, o)) /\ Declined(s, d, o).offered[o] = NONE
<1> DEFINE r == ReleaseOffer(s, d)
           c == CreatorOf[o]
           t == [r EXCEPT !.offered[o] = NONE, !.card[o] = FALSE, !.current[c] = NONE]
<1>1. Good(r) /\ r \in Rows /\ c \in Creators
  BY ReleaseOfferGood, GoodRows DEF Creators
<1>2. Declined(s, d, o) = t
  BY DEF Declined
<1> HIDE DEF r, c
<1>3. t \in Rows
  BY <1>1 DEF Rows
<1>4. t.offered[o] = NONE /\ t.status = r.status /\ t.driver = r.driver /\ t.parallel = r.parallel
  BY <1>1 DEF Rows
<1>5. \A p \in Orders \ {o} : t.offered[p] = r.offered[p]
  BY <1>1 DEF Rows
<1> HIDE DEF t
<1>6. Good(t)
  BY <1>1, <1>3, <1>4, <1>5, OneOrderKeeps, GoodRows
<1> QED
  BY <1>2, <1>4, <1>6

LEMMA DeclineGood ==
  ASSUME Good(db), NEW d \in Drivers, NEW o \in Orders, NEW reason \in Reasons,
         Decline(d, o, reason)
  PROVE  Good(db')
<1> DEFINE s == Begin(d)
           t == Declined(s, d, o)
           c == CreatorOf[o]
           next == [t EXCEPT !.declined[o] = @ \cup {d}]
           far == [next EXCEPT !.special[o] = TRUE]
           cancelled == Dequeue(CloseFor(t, o, "cancelled"), o)
           asking == [t EXCEPT !.status[o] = "created",
                               !.address[c] = IF ByDispatcher(o) THEN @ ELSE o]
           Passed(r) == LET u == OfferNext(r, o, {}) IN Promotes(u, u)
<1>1. Good(t) /\ t \in Rows /\ c \in Creators
  BY BeginGood, DeclinedGood DEF Good, Creators
<1>2. \/ db' \in Promotes(cancelled, cancelled)
      \/ db' \in Promotes(asking, asking)
      \/ db' = OfferNext(SetAway(next, d), o, {})
      \/ db' \in Passed(next)
      \/ db' \in Passed(far)
  BY DEF Decline, Reasons
<1> HIDE DEF t, c
<1>3. Good(next)
  <2> DEFINE refusers == t.declined[o] \cup {d}
  <2>0. refusers \in SUBSET Drivers
    BY <1>1 DEF Rows
  <2> HIDE DEF refusers
  <2>1. next \in Rows
    <3>1. [t EXCEPT !.declined[o] = refusers] \in Rows
      BY <1>1, <2>0 DEF Rows
    <3> QED
      BY <3>1 DEF refusers
  <2>2. next.status = t.status /\ next.offered = t.offered
        /\ next.driver = t.driver /\ next.parallel = t.parallel
    BY <1>1 DEF Rows
  <2> HIDE DEF next
  <2> QED
    BY <1>1, <2>1, <2>2, SameIsGood, GoodRows
<1> HIDE DEF next
<1>4. Good(far)
  <2>1. next \in Rows
    BY <1>3 DEF Good
  <2>2. far \in Rows
    BY <2>1 DEF Rows
  <2>3. far.status = next.status /\ far.offered = next.offered
        /\ far.driver = next.driver /\ far.parallel = next.parallel
    BY <2>1 DEF Rows
  <2> HIDE DEF far
  <2> QED
    BY <1>3, <2>2, <2>3, SameIsGood, GoodRows
<1>5. Good(cancelled)
  BY <1>1, ClosedDequeued, GoodRows
<1>6. Good(asking)
  <2> DEFINE a == IF ByDispatcher(o) THEN t.address[c] ELSE o
  <2>1. a \in Orders \cup {NONE}
    BY <1>1 DEF Rows
  <2> HIDE DEF a
  <2>2. asking \in Rows
    <3>1. [t EXCEPT !.status[o] = "created", !.address[c] = a] \in Rows
      BY <1>1, <2>1, StatusValues DEF Rows
    <3> QED
      BY <3>1 DEF a
  <2>3. asking.offered = t.offered /\ asking.driver = t.driver /\ asking.parallel = t.parallel
    BY <1>1 DEF Rows
  <2>4. asking.status = [t.status EXCEPT ![o] = "created"] /\ t.status \in [Orders -> Statuses]
    BY <1>1 DEF Rows
  <2> HIDE DEF asking
  <2> QED
    BY <1>1, <2>2, <2>3, <2>4, FewerIsGood, GoodRows DEF Fewer, Good
<1> HIDE DEF far, cancelled, asking
<1>7. \A r : Good(r) => \A x \in Passed(r) : Good(x)
  BY OfferNextGood, PromotesSelf
<1> HIDE DEF Passed
<1> QED
  BY <1>2, <1>3, <1>4, <1>5, <1>6, <1>7, PromotesSelf, SetAwayGood, OfferNextGood, GoodRows

LEMMA AcceptTimeoutGood ==
  ASSUME Good(db), NEW o \in Orders, AcceptTimeout(o)  PROVE Good(db')
<1> DEFINE d == db.offered[o]
           c == CreatorOf[o]
           l == [LeaveQueue(db, d) EXCEPT !.online[d] = FALSE]
           s == [l EXCEPT !.offered[o] = NONE, !.card[o] = FALSE, !.current[c] = NONE]
           t == OfferNext(s, o, {d})
<1>1. d \in Drivers /\ c \in Creators
  BY OrderColumns DEF AcceptTimeout, Creators
<1>2. db' \in Promotes(t, t)
  <2>1. s = [LeaveQueue(db, d) EXCEPT !.online[d] = FALSE, !.offered[o] = NONE,
                                      !.card[o] = FALSE, !.current[c] = NONE]
    OBVIOUS
  <2> HIDE DEF s
  <2> QED
    BY <2>1 DEF AcceptTimeout
<1> HIDE DEF d, c
<1>3. Good(l) /\ l \in Rows
  BY <1>1, LeaveLineKeeps, GoodRows
<1> HIDE DEF l
<1>4. s \in Rows
  BY <1>1, <1>3 DEF Rows
<1>5. s.offered[o] = NONE /\ s.status = l.status /\ s.driver = l.driver /\ s.parallel = l.parallel
  BY <1>3 DEF Rows
<1>6. \A p \in Orders \ {o} : s.offered[p] = l.offered[p]
  BY <1>3 DEF Rows
<1> HIDE DEF s
<1>7. Good(s)
  BY <1>3, <1>4, <1>5, <1>6, OneOrderKeeps, GoodRows
<1>8. Good(t)
  BY <1>7, OfferNextGood
<1> HIDE DEF t
<1> QED
  BY <1>2, <1>8, PromotesSelf

LEMMA TakePendingGood ==
  ASSUME Good(db), NEW d \in Drivers, NEW o \in Orders, TakePending(d, o)  PROVE Good(db')
<1> DEFINE s == Begin(d)
           c == Claim(s, d, o, s.dstat[d] \in {"offline", "away"} \/ ~s.online[d])
           t == [c EXCEPT !.parallel[o] = NONE, !.temp[o] = FALSE, !.card[o] = TRUE]
<1>1. db' = t
  BY DEF TakePending
<1>2. Good(c) /\ c \in Rows
  BY BeginGood, ClaimKeeps, GoodRows
<1> HIDE DEF c
<1>3. t \in Rows
  BY <1>2 DEF Rows
<1>4. t.status = c.status /\ t.offered = c.offered /\ t.driver = c.driver
  BY <1>2 DEF Rows
<1>5. t.parallel = [c.parallel EXCEPT ![o] = NONE] /\ c.parallel \in [Orders -> Drivers \cup {NONE}]
  BY <1>2 DEF Rows
<1> HIDE DEF t
<1>6. Good(t)
  BY <1>2, <1>3, <1>4, <1>5, FewerIsGood, GoodRows DEF Good, Fewer
<1> QED
  BY <1>1, <1>6

LEMMA ChatTakeActions ==
  ASSUME Good(db), NEW d \in Drivers, NEW o \in Orders, ChatTake(d, o) \/ ChatTakeLate(d, o)
  PROVE  Good(db')
<1>1. CASE ChatTake(d, o)
  <2> DEFINE s == Adopt(db, d)
             p == PendingOffer(s, d)
             dead == [s EXCEPT !.offered[p] = NONE]
             live == ReleaseOffer(dead, d)
  <2>1. db' = IF p = NONE THEN Taken(s, d, o, NONE)
              ELSE IF s.row[d] # "offered" THEN Taken(dead, d, o, NONE)
              ELSE Taken(live, d, o, p)
    BY <1>1 DEF ChatTake
  <2>2. Good(s)
    BY AdoptKeeps, GoodRows
  <2>3. p # NONE => p \in Orders
    BY PendingOfferIn
  <2> HIDE DEF s, p
  <2>4. ASSUME p # NONE PROVE Good(dead)
    BY <2>2, <2>3, <2>4, ClearOfferKeeps, GoodRows
  <2> HIDE DEF dead
  <2>5. ASSUME p # NONE PROVE Good(live)
    BY <2>4, <2>5, ReleaseOfferGood, GoodRows
  <2> HIDE DEF live
  <2> QED
    BY <2>1, <2>2, <2>3, <2>4, <2>5, TakenGood
<1>2. CASE ChatTakeLate(d, o)
  BY <1>2, BeginGood, TakenGood DEF ChatTakeLate
<1> QED
  BY <1>1, <1>2

(***************************************************************************)
(* Reserved orders, and the question to the passenger of a parked order    *)
(***************************************************************************)
LEMMA ParallelTakeGood ==
  ASSUME Good(db), NEW d \in Drivers, NEW o \in Orders, ParallelTake(d, o)  PROVE Good(db')
<1> DEFINE s == Begin(d)
           q == Dequeue(Repair(s, s), o)
           t == [q EXCEPT !.parallel[o] = d, !.driver[o] = d,
                          !.status[o] = "parallel_assigned", !.card[o] = TRUE]
<1>1. db' = MarkAssigned(t, d) /\ s.offered[o] = NONE
  BY DEF ParallelTake
<1>2. Good(s) /\ s \in Rows
  BY BeginGood
<1> HIDE DEF s
<1>3. Good(q) /\ q.offered = s.offered
  BY <1>2, RepairGood, DequeueGood, GoodRows
<1>4. q \in Rows
  BY <1>3 DEF Good
<1> HIDE DEF q
<1>5. t \in Rows
  BY <1>4, StatusValues DEF Rows
<1>6. t.offered = q.offered
  BY <1>4 DEF Rows
<1>7. \A p \in Orders \ {o} : /\ t.status[p] = q.status[p] /\ t.driver[p] = q.driver[p]
                            /\ t.parallel[p] = q.parallel[p]
  BY <1>4 DEF Rows
<1> HIDE DEF t
<1>8. Good(t)
  BY <1>1, <1>3, <1>5, <1>6, <1>7, OneOrderKeeps, GoodRows
<1> QED
  BY <1>1, <1>8, MarkAssignedGood, GoodRows

LEMMA ReservationActions ==
  ASSUME Good(db), NEW d \in Drivers, NEW o \in Orders,
         ParallelEta(d, o) \/ ParallelDecline(d, o)
  PROVE  Good(db')
<1>1. CASE ParallelEta(d, o)
  <2> DEFINE s == Begin(d)
             t == [s EXCEPT !.card[o] = FALSE, !.peta[o] = TRUE]
  <2>1. Good(s) /\ s \in Rows /\ db' = t
    BY <1>1, BeginGood DEF ParallelEta
  <2> HIDE DEF s
  <2>2. t \in Rows
    BY <2>1 DEF Rows
  <2>3. t.status = s.status /\ t.offered = s.offered /\ t.driver = s.driver /\ t.parallel = s.parallel
    BY <2>1 DEF Rows
  <2> HIDE DEF t
  <2> QED
    BY <2>1, <2>2, <2>3, SameIsGood, GoodRows
<1>2. CASE ParallelDecline(d, o)
  <2> DEFINE t == Release([Begin(d) EXCEPT !.card[o] = FALSE], o)
  <2>1. db' \in Promotes(t, t)
    BY <1>2 DEF ParallelDecline
  <2>2. Good(t)
    BY BeginGood, CardGood, ReleaseGood, GoodRows
  <2> HIDE DEF t
  <2> QED
    BY <2>1, <2>2, PromotesSelf
<1> QED
  BY <1>1, <1>2

LEMMA ConfirmGood ==
  ASSUME Good(db), NEW o \in Orders, ConfirmYes(o) \/ ConfirmNo(o)  PROVE Good(db')
<1>1. \A s : Keeps(db, s) => \A t \in Promotes(db, s) : Good(t)
  BY PromotesGood DEF Keeps, Good
<1>2. CASE ConfirmYes(o)
  <2> DEFINE y == [db EXCEPT !.confirmed[o] = TRUE, !.pq[o] = "waiting"]
             p == PausePrompts(db, y, o)
             s == ResetCreator(p, o)
  <2>0. db \in Rows
    BY DEF Good
  <2>1. y \in Rows
    BY <2>0 DEF Rows
  <2>2. y.status = db.status /\ y.offered = db.offered
        /\ y.driver = db.driver /\ y.parallel = db.parallel
    BY <2>0 DEF Rows
  <2>3. db' \in Promotes(db, s)
    BY <1>2 DEF ConfirmYes
  <2> HIDE DEF y
  <2>4. Good(y)
    BY <2>1, <2>2, SameIsGood, GoodRows
  <2>5. Good(p) /\ p.status = y.status /\ p.offered = y.offered
    BY <2>4, PausePromptsGood
  <2> HIDE DEF p
  <2>6. Keeps(p, s)
    BY <2>5, ResetCreatorGood
  <2>7. Fewer(db, p)
    BY <2>2, <2>5 DEF Fewer
  <2>8. Keeps(db, s)
    BY <2>5, <2>6, <2>7, KeepsTransitive DEF Keeps
  <2> QED
    BY <1>1, <2>3, <2>8
<1>3. CASE ConfirmNo(o)
  <2> DEFINE q == Dequeue(db, o)
             s == CloseFor(q, o, "cancelled")
  <2>1. db' \in Promotes(db, s)
    BY <1>3 DEF ConfirmNo
  <2>2. Keeps(db, q)
    BY DequeueGood
  <2> HIDE DEF q
  <2>3. Keeps(q, s)
    BY <2>2, CloseForGood, GoodRows DEF Closed
  <2> HIDE DEF s
  <2> QED
    BY <1>1, <2>1, <2>2, <2>3, KeepsTransitive
<1> QED
  BY <1>2, <1>3

LEMMA WaitNoGood ==
  ASSUME Good(db), NEW c \in Creators, WaitNo(c)  PROVE Good(db')
<1> DEFINE o == Newest({o \in Orders : CreatorOf[o] = c /\ db.status[o] = "queued"})
<1>1. o # NONE /\ db' = CloseFor(Dequeue(db, o), o, "cancelled")
  BY DEF WaitNo
<1>2. o \in Orders
  BY <1>1, NewestIn
<1> HIDE DEF o
<1> QED
  BY <1>1, <1>2, DequeueGood, CloseForGood, GoodRows DEF Closed

(***************************************************************************)
(* The theorems                                                            *)
(***************************************************************************)
LEMMA InitGood == Init => Good(db)
<1> SUFFICES ASSUME Init PROVE Good(db)
  OBVIOUS
<1>1. db \in Rows
  BY DEF Init, Rows, Statuses
<1>2. \A o \in Orders : db.offered[o] = NONE
  BY DEF Init
<1> QED
  BY <1>1, <1>2 DEF Good

LEMMA StepGood == Good(db) /\ [Next]_db => Good(db')
<1> SUFFICES ASSUME Good(db), [Next]_db PROVE Good(db')
  OBVIOUS
<1>1. CASE UNCHANGED db
  BY <1>1 DEF Good
<1>2. ASSUME NEW d \in Drivers, DriverStep(d) PROVE Good(db')
  BY <1>2, LineActions, RideActions, CompleteGood, CancelForClientGood, CancelForCarGood
     DEF DriverStep
<1>3. ASSUME NEW d \in Drivers, NEW o \in Orders, DriverOrderStep(d, o) PROVE Good(db')
  <2>1. ASSUME NEW reason \in DeclineReasons, Decline(d, o, reason) PROVE Good(db')
    BY <2>1, DeclineGood, BehaviourAssumption
  <2> QED
    BY <1>3, <2>1, AcceptGood, TakePendingGood, ChatTakeActions, ParallelTakeGood,
       ReservationActions DEF DriverOrderStep
<1>4. ASSUME NEW c \in Creators, CreatorStep(c) PROVE Good(db')
  BY <1>4, DialogueActions, PassengerCancelGood, WaitNoGood DEF CreatorStep
<1>5. ASSUME NEW o \in Orders, OrderStep(o) PROVE Good(db')
  <2>1. CASE ParallelEtaTimeout(o)
    <3> DEFINE t == Release([db EXCEPT !.card[o] = FALSE], o)
    <3>1. db' \in Promotes(t, t)
      BY <2>1 DEF ParallelEtaTimeout
    <3>2. Good(t)
      BY CardGood, ReleaseGood, GoodRows
    <3> HIDE DEF t
    <3> QED
      BY <3>1, <3>2, PromotesSelf
  <2> QED
    BY <1>5, <2>1, CreateActions, DispCancelGood, TimeoutActions, AdminCancelGood,
       AcceptTimeoutGood, ConfirmGood DEF OrderStep
<1>6. CASE RecoveryWorker
  BY <1>6, PromotesSelf DEF RecoveryWorker
<1> QED
  BY <1>1, <1>2, <1>3, <1>4, <1>5, <1>6 DEF Next

IInv == Good(db)

LEMMA Invariance == Spec => []IInv
<1>1. Init => IInv
  BY InitGood DEF IInv
<1>2. IInv /\ [Next]_db => IInv'
  BY StepGood DEF IInv
<1> QED
  BY <1>1, <1>2, PTL DEF Spec

\* Every column keeps the values its reader expects, in every reachable state.
THEOREM Typing == Spec => []TypeOK
<1>1. IInv => TypeOK
  BY DEF IInv, Good, TypeOK
<1> QED
  BY Invariance, <1>1, PTL

\* No driver is ever shown two orders to accept, however many drivers and orders
\* there are and whatever the users press: the exclusions of next_waiting_driver
\* suffice on every path that offers an order.
THEOREM OneOfferPerDriver == Spec => []OfferExclusive
<1>1. IInv => OfferExclusive
  BY DEF IInv, Good, OfferExclusive
<1> QED
  BY Invariance, <1>1, PTL

\* An order with a driver, or a reservation, has no offer: whoever answers late
\* finds the offer gone.
THEOREM OfferEndsWithAssignment == Spec => []OfferedIsUnassigned
<1>1. IInv => OfferedIsUnassigned
  BY DEF IInv, Good, OfferedIsUnassigned
<1> QED
  BY Invariance, <1>1, PTL

(***************************************************************************)
(* The line.  Who is on has a row; `ahead' relates drivers with rows, each  *)
(* two of them one way.                                                    *)
(***************************************************************************)
Before(s, d, e) == <<d, e>> \in s.ahead
InLine(s) ==
    /\ \A d \in Drivers : s.online[d] => s.row[d] # "none"
    /\ \A d, e \in Drivers :
         Before(s, d, e) => d # e /\ s.row[d] # "none" /\ s.row[e] # "none"
    /\ \A d, e \in Drivers :
         d # e /\ s.row[d] # "none" /\ s.row[e] # "none" => (Before(s, d, e) <=> ~Before(s, e, d))

\* The same drivers stand in the same order, and the same are on.
SameLine(s, t) ==
    /\ \A d \in Drivers : t.row[d] = "none" <=> s.row[d] = "none"
    /\ t.online = s.online /\ t.ahead = s.ahead

LEMMA SameLineRefl == ASSUME NEW s  PROVE SameLine(s, s)
BY DEF SameLine

LEMMA SameLineTrans ==
  ASSUME NEW r, NEW s, NEW t, SameLine(r, s), SameLine(s, t)  PROVE SameLine(r, t)
BY DEF SameLine

LEMMA SameInLine ==
  ASSUME NEW s, NEW t, InLine(s), SameLine(s, t)  PROVE InLine(t)
BY DEF InLine, SameLine, Before

LEMMA SameColumns ==
  ASSUME NEW s, NEW t, t.row = s.row, t.online = s.online, t.ahead = s.ahead
  PROVE  SameLine(s, t)
BY DEF SameLine

\* A column of the driver changes, and whether there is a row does not.
LEMMA DriverLine ==
  ASSUME NEW s \in Rows, NEW d \in Drivers, NEW x, NEW y, x = "none" <=> s.row[d] = "none"
  PROVE  SameLine(s, [s EXCEPT !.row[d] = x, !.dstat[d] = y])
<1> DEFINE t == [s EXCEPT !.row[d] = x, !.dstat[d] = y]
<1>1. t.row = [s.row EXCEPT ![d] = x] /\ t.online = s.online /\ t.ahead = s.ahead
  BY DEF Rows
<1> HIDE DEF t
<1>2. \A e \in Drivers : t.row[e] = IF e = d THEN x ELSE s.row[e]
  BY <1>1 DEF Rows
<1>3. SameLine(s, t)
  BY <1>1, <1>2 DEF SameLine
<1> QED  BY <1>3 DEF t

LEMMA DriversLine ==
  ASSUME NEW s \in Rows, NEW d \in Drivers
  PROVE  /\ SameLine(s, SetAway(s, d)) /\ SameLine(s, MarkAssigned(s, d))
         /\ SameLine(s, ReleaseOffer(s, d)) /\ SameLine(s, RestorePosition(s, d))
<1>1. SameLine(s, SetAway(s, d))
  BY DriverLine, Zenon DEF SetAway
<1>2. SameLine(s, MarkAssigned(s, d))
  BY DriverLine, Zenon DEF MarkAssigned
<1>3. SameLine(s, ReleaseOffer(s, d))
  BY DriverLine, Zenon DEF ReleaseOffer
<1>4. SameLine(s, RestorePosition(s, d))
  BY DriverLine, Zenon DEF RestorePosition
<1> QED  BY <1>1, <1>2, <1>3, <1>4

\* Nobody who is on in the view has lost his row.
Stands(v, s) == \A d \in Drivers : v.online[d] => s.row[d] # "none"

LEMMA RepairLine ==
  ASSUME NEW v, NEW s \in Rows, Stands(v, s)
  PROVE  SameLine(s, Repair(v, s))
<1> DEFINE free == {d \in Drivers : v.online[d] /\ v.dstat[d] = "online" /\ ~Engaged(v, d)}
           missing == {d \in free : s.row[d] = "none"}
           row == [d \in Drivers |-> IF d \in free THEN "waiting" ELSE s.row[d]]
           new == {d \in Drivers : s.row[d] # "none"} \X missing
           t == Repair(v, s)
<1>1. t = [s EXCEPT !.row = row, !.ahead = @ \cup new]
  BY DEF Repair
<1>2. missing = {}
  BY DEF Stands
<1>3. new = {}
  BY <1>2
<1>4. \A d \in Drivers : row[d] = "none" <=> s.row[d] = "none"
  BY Zenon DEF Stands
<1> HIDE DEF free, missing, row, new, t
<1>5. t.row = row /\ t.online = s.online /\ t.ahead = s.ahead
  BY <1>1, <1>3 DEF Rows
<1>6. SameLine(s, t)
  BY <1>4, <1>5 DEF SameLine
<1> QED  BY <1>6 DEF t

\* The operators that leave the line alone.
LEMMA OrdersLine ==
  ASSUME NEW s \in Rows, NEW o \in Orders
  PROVE  /\ SameLine(s, Dequeue(s, o)) /\ SameLine(s, Enqueue(s, o))
         /\ SameLine(s, ResetCreator(s, o)) /\ SameLine(s, Asked(s, o))
         /\ \A v : \A d : SameLine(s, PromoteAfter(v, s, d))
<1>1. SameLine(s, Dequeue(s, o))
  BY DEF SameLine, Dequeue, Rows
<1>2. SameLine(s, Enqueue(s, o))
  BY DEF SameLine, Enqueue, Rows
<1>3. SameLine(s, ResetCreator(s, o))
  BY DEF SameLine, ResetCreator, Rows
<1>4. SameLine(s, Asked(s, o))
  BY DEF SameLine, Asked, Rows
<1>5. ASSUME NEW v, NEW d  PROVE SameLine(s, PromoteAfter(v, s, d))
  BY DEF SameLine, PromoteAfter, Rows
<1> QED  BY <1>1, <1>2, <1>3, <1>4, <1>5

\* A chosen driver is on in the view.
LEMMA NextWaitingOn ==
  ASSUME NEW v, NEW excluded, NextWaiting(v, excluded) # NONE
  PROVE  /\ NextWaiting(v, excluded) \in Free(v) \ excluded
         /\ NextWaiting(v, excluded) \in Drivers /\ v.online[NextWaiting(v, excluded)]
<1> DEFINE able == Free(v) \ excluded
           first == {d \in able : \A e \in able \ {d} : <<d, e>> \in v.ahead}
<1>1. NextWaiting(v, excluded) = IF first = {} THEN NONE ELSE CHOOSE d \in first : TRUE
  BY DEF NextWaiting
<1>2. first # {}
  BY <1>1
<1>3. NextWaiting(v, excluded) \in first
  BY <1>1, <1>2
<1> QED
  BY <1>3 DEF Free

LEMMA PauseLine ==
  ASSUME NEW v, NEW s \in Rows, NEW x
  PROVE  PausePrompts(v, s, x) \in Rows /\ SameLine(s, PausePrompts(v, s, x))
<1> DEFINE asked == {o \in Orders : v.pq[o] = "polling" /\ o # x}
           owners == {CreatorOf[o] : o \in asked}
           pq == [o \in Orders |-> IF o \in asked /\ s.pq[o] # "none"
                                   THEN "waiting" ELSE s.pq[o]]
           current == [c \in Creators |-> IF c \in owners THEN NONE ELSE s.current[c]]
           address == [c \in Creators |-> IF c \in owners THEN NONE ELSE s.address[c]]
           t == PausePrompts(v, s, x)
<1>1. t = [s EXCEPT !.pq = pq, !.current = current, !.address = address]
  BY DEF PausePrompts
<1>2. /\ pq \in [Orders -> {"none", "waiting", "polling"}]
      /\ current \in [Creators -> Drivers \cup {NONE}]
      /\ address \in [Creators -> Orders \cup {NONE}]
  BY DEF Rows
<1> HIDE DEF asked, owners, pq, current, address, t
<1>3. t \in Rows /\ t.row = s.row /\ t.online = s.online /\ t.ahead = s.ahead
  BY <1>1, <1>2 DEF Rows
<1> QED
  BY <1>3 DEF SameLine, t

LEMMA OfferLine ==
  ASSUME NEW s \in Rows, NEW o \in Orders, NEW d \in Drivers, s.row[d] # "none"
  PROVE  SameLine(s, Offer(s, o, d)) /\ Offer(s, o, d) \in Rows
<1> DEFINE c == CreatorOf[o]
           t == [s EXCEPT !.status[o] = "searching", !.offered[o] = d, !.card[o] = TRUE,
                          !.current[c] = d, !.row[d] = "offered"]
<1>1. c \in Creators /\ "searching" \in Statuses
  BY DEF Creators, Statuses, Pending
<1> HIDE DEF c
<1>2. t \in Rows
  BY <1>1 DEF Rows
<1>3. t.row = [s.row EXCEPT ![d] = "offered"] /\ t.online = s.online /\ t.ahead = s.ahead
  BY DEF Rows
<1> HIDE DEF t
<1>4. SameLine(s, t)
  BY <1>3 DEF SameLine, Rows
<1>5. SameLine(t, PausePrompts(t, t, o)) /\ PausePrompts(t, t, o) \in Rows
  BY <1>2, PauseLine
<1> QED
  BY <1>4, <1>5, SameLineTrans DEF Offer, t, c

LEMMA NoDriverLine ==
  ASSUME NEW s \in Rows, NEW o \in Orders  PROVE SameLine(s, NoDriver(s, o))
<1> DEFINE t == [s EXCEPT !.status[o] = "no_drivers"]
           u == [t EXCEPT !.status[o] = "chat_search", !.chatcard[o] = TRUE]
<1>1. "no_drivers" \in Statuses
  BY DEF Statuses, Pending, Candidate
<1>2. t \in Rows /\ SameLine(s, t)
  BY <1>1 DEF Rows, SameLine
<1> HIDE DEF t
<1>3. SameLine(t, u)
  BY <1>2 DEF Rows, SameLine
<1>4. SameLine(t, Enqueue(t, o))
  BY <1>2, OrdersLine
<1> HIDE DEF u
<1> QED
  BY <1>2, <1>3, <1>4, SameLineTrans DEF NoDriver, t, u

LEMMA OfferNextLine ==
  ASSUME NEW s, Good(s), InLine(s), NEW o \in Orders, NEW excluded
  PROVE  SameLine(s, OfferNext(s, o, excluded))
<1>1. CASE ~Dispatchable(s, o)
  BY <1>1, SameLineRefl DEF OfferNext
<1>2. CASE Dispatchable(s, o)
  <2> DEFINE r == Repair(s, s)
             d == NextWaiting(r, excluded \cup r.declined[o])
             e == NextWaiting(r, r.declined[o])
  <2>1. s \in Rows /\ Stands(s, s)
    BY DEF Good, InLine, Stands
  <2>2. SameLine(s, r) /\ r \in Rows
    BY <2>1, RepairLine, RepairGood DEF Good
  <2>3. \A x \in Drivers : r.online[x] => r.row[x] # "none"
    BY <2>2 DEF SameLine, InLine
  <2> HIDE DEF r
  <2>4. ASSUME d # NONE PROVE SameLine(r, Offer(r, o, d))
    BY <2>2, <2>3, <2>4, NextWaitingOn, OfferLine
  <2>5. ASSUME e # NONE PROVE SameLine(r, Offer(r, o, e))
    BY <2>2, <2>3, <2>5, NextWaitingOn, OfferLine
  <2>6. SameLine(r, NoDriver(r, o))
    BY <2>2, NoDriverLine
  <2>7. OfferNext(s, o, excluded) = IF d # NONE THEN Offer(r, o, d)
                                    ELSE IF e # NONE THEN Offer(r, o, e) ELSE NoDriver(r, o)
    BY <1>2 DEF OfferNext, r
  <2> QED
    BY <2>2, <2>4, <2>5, <2>6, <2>7, SameLineTrans
<1> QED
  BY <1>1, <1>2

LEMMA ServedLine ==
  ASSUME NEW v, NEW s, Good(s), Stands(v, s), NEW o \in Orders,
         NextWaiting(v, s.declined[o]) # NONE
  PROVE  SameLine(s, Served(v, s, o))
<1> DEFINE d == NextWaiting(v, s.declined[o])
           q == Dequeue(s, o)
           t == Offer(q, o, d)
           u == ResetCreator(t, o)
<1>1. d \in Drivers /\ s.row[d] # "none"
  BY NextWaitingOn DEF Stands
<1> HIDE DEF d
<1>2. q \in Rows /\ SameLine(s, q)
  BY DequeueGood, OrdersLine DEF Keeps, Good
<1>3. q.row[d] # "none"
  BY <1>1, <1>2 DEF SameLine
<1> HIDE DEF q
<1>4. SameLine(q, t) /\ t \in Rows
  BY <1>1, <1>2, <1>3, OfferLine
<1> HIDE DEF t
<1>5. SameLine(t, u)
  BY <1>4, OrdersLine
<1> HIDE DEF u
<1> QED
  BY <1>2, <1>4, <1>5, SameLineTrans DEF Served, d, q, t, u

LEMMA ScanLine ==
  ASSUME NEW list, NEW v, NEW s, Good(s), Stands(v, s), NEW t \in Scan(list, v, s)
  PROVE  SameLine(s, t)
<1>1. CASE t = s
  BY <1>1, SameLineRefl
<1>2. CASE t # s
  <2>1. PICK o \in Servable(list, v, s) : t \in Outcomes(v, s, o)
    BY <1>2 DEF Scan
  <2>2. o \in Orders /\ NextWaiting(v, s.declined[o]) # NONE
    BY <2>1 DEF Servable
  <2>3. t = Asked(s, o) \/ t = Served(v, s, o)
    BY <1>2, <2>1 DEF Outcomes
  <2>4. s \in Rows
    BY DEF Good
  <2> QED
    BY <2>2, <2>3, <2>4, ServedLine, OrdersLine
<1> QED
  BY <1>1, <1>2

LEMMA PromotesLine ==
  ASSUME NEW v, NEW s, v \in Rows, Good(s), Stands(v, v), Stands(v, s),
         Stands(s, s), NEW t \in Promotes(v, s)
  PROVE  SameLine(s, t)
<1> DEFINE r == Repair(v, s)
           w == IF r = s THEN v ELSE r
           p == PausePrompts(w, r, NONE)
<1>1. Good(r) /\ SameLine(s, r)
  BY RepairGood, RepairLine DEF Good
<1>2. t \in {s, r} \cup Scan(v, w, r) \cup Scan(w, w, p)
  BY DEF Promotes
<1> HIDE DEF r
<1>3. Good(p) /\ SameLine(r, p)
  BY <1>1, PausePromptsGood, PauseLine DEF Good
<1>4. SameLine(s, p)
  BY <1>1, <1>3, SameLineTrans
<1>5. Stands(w, r) /\ Stands(w, p)
  BY <1>1, <1>4 DEF Stands, SameLine
<1> HIDE DEF w, p
<1>6. ASSUME t \in Scan(v, w, r) PROVE SameLine(s, t)
  BY <1>1, <1>5, <1>6, ScanLine, SameLineTrans
<1>7. ASSUME t \in Scan(w, w, p) PROVE SameLine(s, t)
  BY <1>3, <1>4, <1>5, <1>7, ScanLine, SameLineTrans
<1> QED
  BY <1>1, <1>2, <1>6, <1>7, SameLineRefl

\* try_promote on rows that are all flushed.
LEMMA PromotesSelfLine ==
  ASSUME NEW s, Good(s), InLine(s), NEW t \in Promotes(s, s)  PROVE SameLine(s, t)
BY PromotesLine DEF Good, InLine, Stands

(***************************************************************************)
(* Orders close and are released, drivers come and go                      *)
(***************************************************************************)
LEMMA CloseLine ==
  ASSUME NEW s \in Rows, NEW o \in Orders, NEW status
  PROVE  /\ SameLine(s, Close(s, o, status)) /\ SameLine(s, CloseFor(s, o, status))
<1> DEFINE f == ForgetSearch(s, o)
           g == ForgetRide(f, o)
           c == Close(s, o, status)
           r == ResetCreator(c, o)
<1>1. f.row = s.row /\ f.online = s.online /\ f.ahead = s.ahead /\ DOMAIN f = DOMAIN s
  BY DEF ForgetSearch, Rows
<1>2. g.row = f.row /\ g.online = f.online /\ g.ahead = f.ahead /\ DOMAIN g = DOMAIN f
  BY <1>1 DEF ForgetRide, Rows
<1>3. c.row = g.row /\ c.online = g.online /\ c.ahead = g.ahead /\ DOMAIN c = DOMAIN g
  BY <1>1, <1>2 DEF Close, Rows
<1> HIDE DEF f, g, c
<1>4. r.row = c.row /\ r.online = c.online /\ r.ahead = c.ahead
  BY <1>1, <1>2, <1>3 DEF ResetCreator, Rows
<1> HIDE DEF r
<1>5. SameLine(s, c) /\ SameLine(s, r)
  BY <1>1, <1>2, <1>3, <1>4 DEF SameLine
<1> QED
  BY <1>5 DEF CloseFor, c, r

LEMMA ReleaseLine ==
  ASSUME NEW s \in Rows, NEW o \in Orders  PROVE SameLine(s, Release(s, o))
<1> DEFINE q == [s EXCEPT !.parallel[o] = NONE, !.peta[o] = FALSE, !.driver[o] = NONE,
                          !.status[o] = "queued"]
           e == Enqueue(q, o)
           t == [e EXCEPT !.pq[o] = "waiting"]
<1>1. q.row = s.row /\ q.online = s.online /\ q.ahead = s.ahead /\ DOMAIN q = DOMAIN s
  BY DEF Rows
<1> HIDE DEF q
<1>2. e.row = q.row /\ e.online = q.online /\ e.ahead = q.ahead /\ DOMAIN e = DOMAIN q
  BY <1>1 DEF Enqueue, Rows
<1> HIDE DEF e
<1>3. t.row = e.row /\ t.online = e.online /\ t.ahead = e.ahead
  BY <1>1, <1>2 DEF Rows
<1> HIDE DEF t
<1>4. SameLine(s, t)
  BY <1>1, <1>2, <1>3 DEF SameLine
<1> QED
  BY <1>4 DEF Release, t, e, q

LEMMA AdoptLine ==
  ASSUME NEW s \in Rows, NEW d  PROVE SameLine(s, Adopt(s, d)) /\ Adopt(s, d).dstat = s.dstat
<1> DEFINE legacy == Newest({o \in Orders : /\ s.parallel[o] = d /\ s.driver[o] = NONE
                                           /\ s.status[o] \in Riding})
           a == [s EXCEPT !.driver[legacy] = d]
           t == IF legacy # NONE /\ ActiveRide(s, d) = NONE THEN a ELSE s
           ride == ActiveRide(t, d)
           u == [t EXCEPT !.parallel[ride] = NONE, !.peta[ride] = FALSE]
<1> HIDE DEF legacy
<1>1. a.row = s.row /\ a.online = s.online /\ a.ahead = s.ahead /\ a.dstat = s.dstat
      /\ DOMAIN a = DOMAIN s
  BY DEF Rows
<1> HIDE DEF a
<1>2. t.row = s.row /\ t.online = s.online /\ t.ahead = s.ahead /\ t.dstat = s.dstat
      /\ DOMAIN t = DOMAIN s
  BY <1>1
<1> HIDE DEF t, ride
<1>3. u.row = t.row /\ u.online = t.online /\ u.ahead = t.ahead /\ u.dstat = t.dstat
  BY <1>2 DEF Rows
<1>4. Adopt(s, d) = IF ride # NONE /\ t.parallel[ride] = d THEN u ELSE t
  BY DEF Adopt, ride, t, a, legacy
<1> HIDE DEF u
<1> QED
  BY <1>2, <1>3, <1>4 DEF SameLine

LEMMA RelieveLine ==
  ASSUME NEW v, NEW s \in Rows, NEW d \in Drivers  PROVE SameLine(s, Relieve(v, s, d))
<1>1. SameLine(s, PromoteAfter(v, s, d))
  BY DEF SameLine, PromoteAfter, Rows
<1> QED
  BY <1>1, DriversLine DEF Relieve

LEMMA FollowLine ==
  ASSUME NEW s \in Rows, NEW o  PROVE SameLine(s, Follow(s, o))
BY DEF SameLine, Follow, Rows

\* Drivers may leave or change their state: who is ahead of whom in t was so in s.
Kept(s, t) == InLine(t) /\ t.ahead \subseteq s.ahead

LEMMA KeptTrans ==
  ASSUME NEW r, NEW s, NEW t, Kept(r, s), Kept(s, t)  PROVE Kept(r, t)
BY DEF Kept

LEMMA SameKept ==
  ASSUME NEW s, NEW t, InLine(s), SameLine(s, t)  PROVE Kept(s, t)
BY SameInLine DEF Kept, SameLine

LEMMA LeaveKept ==
  ASSUME NEW s \in Rows, InLine(s), NEW d \in Drivers
  PROVE  Kept(s, [LeaveQueue(s, d) EXCEPT !.online[d] = FALSE])
<1> DEFINE l == LeaveQueue(s, d)
           t == [l EXCEPT !.online[d] = FALSE]
           ahead == {p \in s.ahead : p[1] # d /\ p[2] # d}
<1>1. /\ l.row = [s.row EXCEPT ![d] = "none"] /\ l.online = s.online /\ l.ahead = ahead
      /\ DOMAIN l = DOMAIN s
  BY DEF LeaveQueue, Rows
<1> HIDE DEF l
<1>2. t.row = l.row /\ t.online = [l.online EXCEPT ![d] = FALSE] /\ t.ahead = l.ahead
  BY <1>1 DEF Rows
<1> HIDE DEF t
<1>0. s.row \in [Drivers -> QueueStates] /\ s.online \in [Drivers -> BOOLEAN]
  BY DEF Rows, QueueStates
<1>3. \A e \in Drivers : /\ t.row[e] = IF e = d THEN "none" ELSE s.row[e]
                         /\ t.online[e] = IF e = d THEN FALSE ELSE s.online[e]
  BY <1>0, <1>1, <1>2
<1>4. \A e, f \in Drivers : Before(t, e, f) <=> Before(s, e, f) /\ e # d /\ f # d
  BY <1>1, <1>2 DEF Before
<1>5. InLine(t)
  <2>1. \A e \in Drivers : t.online[e] => t.row[e] # "none"
    BY <1>3 DEF InLine
  <2>2. \A e, f \in Drivers :
          Before(t, e, f) => e # f /\ t.row[e] # "none" /\ t.row[f] # "none"
    BY <1>3, <1>4, ZenonT(40) DEF InLine
  <2>3. \A e, f \in Drivers :
          e # f /\ t.row[e] # "none" /\ t.row[f] # "none"
          => (Before(t, e, f) <=> ~Before(t, f, e))
    BY <1>3, <1>4 DEF InLine
  <2> QED
    BY <2>1, <2>2, <2>3 DEF InLine
<1>6. t.ahead \subseteq s.ahead
  BY <1>1, <1>2
<1> HIDE DEF ahead
<1> QED
  BY <1>5, <1>6 DEF Kept, t, l

\* Only d passes anybody.
JoinedBy(s, t, d) ==
    /\ InLine(t)
    /\ \A e, f \in Drivers : Before(t, e, f) => Before(s, e, f) \/ f = d

LEMMA JoinLine ==
  ASSUME NEW s \in Rows, InLine(s), NEW d \in Drivers
  PROVE  JoinedBy(s, [JoinQueue(s, d) EXCEPT !.online[d] = TRUE], d)
<1> DEFINE l == JoinQueue(s, d)
           t == [l EXCEPT !.online[d] = TRUE]
           old == {p \in s.ahead : p[1] # d /\ p[2] # d}
           new == {<<e, d>> : e \in {e \in Drivers \ {d} : s.row[e] # "none"}}
<1>1. /\ l.row = [s.row EXCEPT ![d] = "waiting"] /\ l.online = s.online
      /\ l.ahead = old \cup new /\ DOMAIN l = DOMAIN s
  BY DEF JoinQueue, Rows
<1> HIDE DEF l
<1>2. t.row = l.row /\ t.online = [l.online EXCEPT ![d] = TRUE] /\ t.ahead = l.ahead
  BY <1>1 DEF Rows
<1> HIDE DEF t
<1>0. s.row \in [Drivers -> QueueStates] /\ s.online \in [Drivers -> BOOLEAN]
  BY DEF Rows, QueueStates
<1>3. \A e \in Drivers : /\ t.row[e] = IF e = d THEN "waiting" ELSE s.row[e]
                         /\ t.online[e] = IF e = d THEN TRUE ELSE s.online[e]
  BY <1>0, <1>1, <1>2
<1>4. \A e, f \in Drivers : Before(t, e, f) <=> \/ Before(s, e, f) /\ e # d /\ f # d
                                                \/ f = d /\ e # d /\ s.row[e] # "none"
  <2>1. \A e, f \in Drivers : <<e, f>> \in old <=> <<e, f>> \in s.ahead /\ e # d /\ f # d
    OBVIOUS
  <2>2. \A e, f \in Drivers : <<e, f>> \in new <=> f = d /\ e # d /\ s.row[e] # "none"
    OBVIOUS
  <2> HIDE DEF old, new
  <2> QED
    BY <1>1, <1>2, <2>1, <2>2, Zenon DEF Before
<1> HIDE DEF old, new
<1>5. InLine(t)
  BY <1>3, <1>4, ZenonT(40) DEF InLine
<1> QED
  BY <1>4, <1>5 DEF JoinedBy, t, l

\* Looking for a driver gives nobody another status.
LEMMA OfferNextDstat ==
  ASSUME NEW s, Good(s), NEW o \in Orders, NEW excluded
  PROVE  OfferNext(s, o, excluded).dstat = s.dstat
<1> DEFINE r == Repair(s, s)
<1>1. s \in Rows /\ r \in Rows
  BY RepairGood DEF Good
<1>2. r.dstat = s.dstat
  BY <1>1, Zenon DEF Repair, Rows
<1> HIDE DEF r
<1>3. ASSUME NEW e PROVE Offer(r, o, e).dstat = r.dstat
  <2> DEFINE t == [r EXCEPT !.status[o] = "searching", !.offered[o] = e, !.card[o] = TRUE,
                            !.current[CreatorOf[o]] = e, !.row[e] = "offered"]
  <2>1. t.dstat = r.dstat /\ DOMAIN t = DOMAIN r
    BY <1>1 DEF Rows
  <2> HIDE DEF t
  <2>2. PausePrompts(t, t, o).dstat = t.dstat
    BY <1>1, <2>1 DEF PausePrompts, Rows
  <2> QED
    BY <2>1, <2>2 DEF Offer, t
<1>4. NoDriver(r, o).dstat = r.dstat
  <2> DEFINE t == [r EXCEPT !.status[o] = "no_drivers"]
             u == [t EXCEPT !.status[o] = "chat_search", !.chatcard[o] = TRUE]
  <2>1. t.dstat = r.dstat /\ DOMAIN t = DOMAIN r
    BY <1>1 DEF Rows
  <2> HIDE DEF t
  <2>2. u.dstat = t.dstat /\ Enqueue(t, o).dstat = t.dstat
    BY <1>1, <2>1 DEF Enqueue, Rows
  <2> HIDE DEF u
  <2> QED
    BY <2>1, <2>2 DEF NoDriver, t, u
<1> QED
  BY <1>2, <1>3, <1>4 DEF OfferNext, r

LEMMA ReleaseStaleLine ==
  ASSUME NEW s, Good(s), InLine(s), NEW d \in Drivers
  PROVE  /\ SameLine(s, ReleaseStale(s, d))
         /\ ReleaseStale(s, d).dstat[d] \in {"offline", "away"}
            => s.dstat[d] \in {"offline", "away"}
<1> DEFINE o == PendingOffer(s, d)
           t == [s EXCEPT !.offered[o] = NONE, !.status[o] = "created", !.card[o] = FALSE]
           m == MarkAssigned(t, d)
           n == OfferNext(m, o, {d})
<1>1. CASE ReleaseStale(s, d) = s
  BY <1>1, SameLineRefl
<1>2. CASE ReleaseStale(s, d) # s
  <2>0. ReleaseStale(s, d) = n /\ o # NONE
    BY <1>2 DEF ReleaseStale
  <2>1. s \in Rows /\ o \in Orders /\ "created" \in Statuses
    BY <2>0, PendingOfferIn, StatusValues DEF Good
  <2> HIDE DEF o
  <2>2. t \in Rows
    BY <2>1 DEF Rows
  <2>3. /\ t.driver = s.driver /\ t.parallel = s.parallel /\ t.offered[o] = NONE
        /\ t.row = s.row /\ t.online = s.online /\ t.ahead = s.ahead
        /\ \A p \in Orders \ {o} : t.status[p] = s.status[p] /\ t.offered[p] = s.offered[p]
    BY <2>1 DEF Rows
  <2> HIDE DEF t
  <2>4. Good(t) /\ SameLine(s, t)
    BY <2>1, <2>2, <2>3, OneOrderKeeps, SameColumns DEF Keeps
  <2>5. Good(m) /\ SameLine(t, m)
    BY <2>2, <2>4, MarkAssignedGood, DriversLine DEF Keeps
  <2>6. m.dstat = [t.dstat EXCEPT ![d] = "busy"] /\ DOMAIN t.dstat = Drivers
    BY <2>2 DEF MarkAssigned, Rows
  <2> HIDE DEF m
  <2>7. SameLine(s, m) /\ InLine(m)
    BY <2>4, <2>5, SameLineTrans, SameInLine
  <2>8. SameLine(m, n) /\ n.dstat = m.dstat
    BY <2>1, <2>5, <2>7, OfferNextLine, OfferNextDstat
  <2> HIDE DEF n
  <2> QED
    BY <2>0, <2>6, <2>7, <2>8, SameLineTrans
<1> QED
  BY <1>1, <1>2

LEMMA BeginLine ==
  ASSUME Good(db), InLine(db), NEW d \in Drivers
  PROVE  /\ SameLine(db, Begin(d)) /\ InLine(Begin(d))
         /\ Begin(d).dstat[d] \in {"offline", "away"} => db.dstat[d] \in {"offline", "away"}
<1> DEFINE s == Adopt(db, d)
           t == ReleaseStale(s, d)
<1>1. Good(s)
  BY AdoptKeeps DEF Keeps
<1>2. SameLine(db, s) /\ s.dstat = db.dstat
  BY AdoptLine DEF Good
<1> HIDE DEF s
<1>3. InLine(s)
  BY <1>2, SameInLine
<1>4. SameLine(s, t) /\ (t.dstat[d] \in {"offline", "away"} => s.dstat[d] \in {"offline", "away"})
  BY <1>1, <1>3, ReleaseStaleLine
<1>5. Begin(d) = t
  BY DEF Begin, s
<1> HIDE DEF t
<1> QED
  BY <1>2, <1>4, <1>5, SameLineTrans, SameInLine

LEMMA LeaveTemporaryLine ==
  ASSUME NEW s \in Rows, InLine(s), NEW d \in Drivers, NEW temp
  PROVE  Kept(s, LeaveTemporary(s, d, temp))
BY LeaveKept, SameLineRefl, SameKept DEF LeaveTemporary

LEMMA ClaimLine ==
  ASSUME NEW s, Good(s), InLine(s), NEW d \in Drivers, NEW o \in Orders, NEW back
  PROVE  /\ InLine(Claim(s, d, o, back))
         /\ \A e, f \in Drivers :
              Before(Claim(s, d, o, back), e, f) => Before(s, e, f) \/ (back /\ f = d)
<1> DEFINE j == IF back THEN [JoinQueue(s, d) EXCEPT !.online[d] = TRUE] ELSE s
           q == Dequeue(j, o)
           t == [q EXCEPT !.offered[o] = NONE, !.driver[o] = d, !.status[o] = "assigned",
                          !.deadline[o] = FALSE]
           m == MarkAssigned(t, d)
<1>1. Keeps(s, s) /\ s \in Rows
  BY SameIsGood DEF Good
<1>2. Keeps(s, j)
  BY <1>1, JoinLineKeeps
<1>3. InLine(j) /\ \A e, f \in Drivers : Before(j, e, f) => Before(s, e, f) \/ (back /\ f = d)
  BY <1>1, JoinLine DEF JoinedBy
<1> HIDE DEF j
<1>4. SameLine(j, q) /\ q \in Rows
  BY <1>2, DequeueGood, OrdersLine, GoodRows
<1> HIDE DEF q
<1>5. t \in Rows /\ t.row = q.row /\ t.online = q.online /\ t.ahead = q.ahead
  BY <1>4, StatusValues DEF Rows
<1> HIDE DEF t
<1>6. SameLine(t, m)
  BY <1>5, DriversLine
<1> HIDE DEF m
<1>7. SameLine(j, m)
  BY <1>4, <1>5, <1>6, SameLineTrans, SameColumns
<1>8. InLine(m) /\ \A e, f \in Drivers : Before(m, e, f) => Before(j, e, f)
  BY <1>3, <1>7, SameInLine DEF SameLine, Before
<1> QED
  BY <1>3, <1>8 DEF Claim, m, t, q, j

LEMMA TakenLine ==
  ASSUME NEW s, Good(s), InLine(s), NEW d \in Drivers, NEW o \in Orders,
         NEW other \in Orders \cup {NONE}
  PROVE  /\ InLine(Taken(s, d, o, other))
         /\ \A e, f \in Drivers : Before(Taken(s, d, o, other), e, f) =>
              Before(s, e, f) \/ (f = d /\ (~s.online[d] \/ s.dstat[d] = "away"))
<1> DEFINE temp == ~s.online[d]
           back == temp \/ s.dstat[d] = "away"
           c == Claim(s, d, o, back)
           t == [c EXCEPT !.temp[o] = temp, !.card[o] = TRUE]
           n == OfferNext(t, other, {})
<1>1. Good(c) /\ c \in Rows
  BY ClaimKeeps, GoodRows
<1>2. InLine(c) /\ \A e, f \in Drivers : Before(c, e, f) => Before(s, e, f) \/ (back /\ f = d)
  BY ClaimLine
<1>3. temp \in BOOLEAN
  OBVIOUS
<1>4. Taken(s, d, o, other) = IF other = NONE THEN t ELSE n
  BY DEF Taken
<1>5. back => ~s.online[d] \/ s.dstat[d] = "away"
  OBVIOUS
<1> HIDE DEF temp, back, c
<1>6. t \in Rows
  BY <1>1, <1>3 DEF Rows
<1>7. /\ t.status = c.status /\ t.offered = c.offered /\ t.driver = c.driver
      /\ t.parallel = c.parallel /\ t.row = c.row /\ t.online = c.online /\ t.ahead = c.ahead
  BY <1>1 DEF Rows
<1> HIDE DEF t
<1>8. Good(t) /\ SameLine(c, t) /\ InLine(t)
  BY <1>1, <1>2, <1>6, <1>7, SameIsGood, SameColumns, SameInLine DEF Keeps
<1>9. ASSUME other # NONE PROVE SameLine(c, n)
  BY <1>8, <1>9, OfferNextLine, SameLineTrans
<1> HIDE DEF n
<1>10. SameLine(c, Taken(s, d, o, other))
  BY <1>4, <1>8, <1>9
<1>11. Taken(s, d, o, other).ahead = c.ahead /\ InLine(Taken(s, d, o, other))
  BY <1>2, <1>10, SameInLine DEF SameLine
<1> QED
  BY <1>2, <1>5, <1>11 DEF Before

(***************************************************************************)
(* Rows t, good again, that come from rows s without anybody passing        *)
(* anybody in the line.                                                    *)
(***************************************************************************)
From(s, t) == Good(t) /\ Kept(s, t)
Stood(s) == Good(s) /\ InLine(s)

LEMMA FromTrans ==
  ASSUME NEW r, NEW s, NEW t, From(r, s), From(s, t)  PROVE From(r, t)
BY KeptTrans DEF From

LEMMA FromStood ==
  ASSUME NEW s, NEW t, From(s, t)  PROVE Stood(t) /\ Good(t) /\ InLine(t) /\ t \in Rows
BY DEF From, Stood, Kept, Good

LEMMA FromRefl == ASSUME NEW s, Stood(s) PROVE From(s, s)
BY SameLineRefl, SameKept DEF From, Stood

LEMMA SameFrom ==
  ASSUME NEW s, NEW t, Stood(s), Good(t), SameLine(s, t)  PROVE From(s, t)
BY SameKept DEF From, Stood

LEMMA ColumnsFrom ==
  ASSUME NEW s, NEW t, Stood(s), Good(t),
         t.row = s.row, t.online = s.online, t.ahead = s.ahead
  PROVE  From(s, t)
BY SameFrom, SameColumns

LEMMA DriversFrom ==
  ASSUME NEW s, Stood(s), NEW d \in Drivers
  PROVE  /\ From(s, SetAway(s, d)) /\ From(s, MarkAssigned(s, d))
         /\ From(s, ReleaseOffer(s, d)) /\ From(s, RestorePosition(s, d))
         /\ From(s, [LeaveQueue(s, d) EXCEPT !.online[d] = FALSE])
         /\ \A temp : From(s, LeaveTemporary(s, d, temp))
<1>1. s \in Rows /\ Good(s) /\ InLine(s)
  BY DEF Stood, Good
<1>2. From(s, SetAway(s, d)) /\ From(s, MarkAssigned(s, d))
  BY <1>1, SameFrom, DriversLine, SetAwayGood, MarkAssignedGood, GoodRows
<1>3. From(s, ReleaseOffer(s, d)) /\ From(s, RestorePosition(s, d))
  BY <1>1, SameFrom, DriversLine, ReleaseOfferGood, RestorePositionGood, GoodRows
<1>4. From(s, [LeaveQueue(s, d) EXCEPT !.online[d] = FALSE])
  BY <1>1, LeaveLineKeeps, LeaveKept, GoodRows DEF From
<1>5. ASSUME NEW temp PROVE From(s, LeaveTemporary(s, d, temp))
  BY <1>1, LeaveTemporaryKeeps, LeaveTemporaryLine, GoodRows DEF From
<1> QED
  BY <1>2, <1>3, <1>4, <1>5

LEMMA OrdersFrom ==
  ASSUME NEW s, Stood(s), NEW o \in Orders
  PROVE  /\ From(s, Dequeue(s, o)) /\ From(s, ResetCreator(s, o))
         /\ From(s, Release(s, o)) /\ From(s, Follow(s, o))
         /\ \A excluded : From(s, OfferNext(s, o, excluded))
<1>1. s \in Rows /\ Good(s) /\ InLine(s)
  BY DEF Stood, Good
<1>2. From(s, Dequeue(s, o)) /\ From(s, ResetCreator(s, o))
  BY <1>1, SameFrom, OrdersLine, DequeueGood, ResetCreatorGood, GoodRows
<1>3. From(s, Release(s, o)) /\ From(s, Follow(s, o))
  BY <1>1, SameFrom, ReleaseLine, FollowLine, ReleaseGood, FollowGood, GoodRows
<1>4. ASSUME NEW excluded PROVE From(s, OfferNext(s, o, excluded))
  BY <1>1, SameFrom, OfferNextLine, OfferNextGood
<1> QED
  BY <1>2, <1>3, <1>4

LEMMA CloseFrom ==
  ASSUME NEW s, Stood(s), NEW o \in Orders, NEW status \in Closed
  PROVE  From(s, Close(s, o, status)) /\ From(s, CloseFor(s, o, status))
BY SameFrom, CloseLine, CloseGood, CloseForGood, GoodRows DEF Stood, Good

LEMMA CancelledFrom ==
  ASSUME NEW s, Stood(s), NEW o \in Orders
  PROVE  /\ From(s, Dequeue(CloseFor(s, o, "cancelled"), o))
         /\ From(s, Dequeue(Close(s, o, "cancelled"), o))
BY CloseFrom, OrdersFrom, FromTrans, FromStood DEF Closed

LEMMA PromotesFrom ==
  ASSUME NEW s, Stood(s), NEW t \in Promotes(s, s)  PROVE From(s, t)
BY SameFrom, PromotesSelf, PromotesSelfLine DEF Stood

\* try_promote on rows whose changes are not flushed yet.
LEMMA PromotesUnflushed ==
  ASSUME NEW v, NEW s, Stood(v), Keeps(v, s), SameLine(v, s), NEW t \in Promotes(v, s)
  PROVE  From(v, t)
<1>1. v \in Rows /\ Good(s) /\ Fewer(v, s) /\ InLine(s)
  BY SameInLine DEF Stood, Good, Keeps
<1>2. Good(t)
  BY <1>1, PromotesGood
<1>3. Stands(v, v) /\ Stands(v, s) /\ Stands(s, s)
  BY <1>1 DEF Stands, Stood, InLine, SameLine
<1>4. SameLine(s, t)
  BY <1>1, <1>3, PromotesLine
<1> QED
  BY <1>2, <1>4, SameFrom, SameLineTrans

LEMMA PromoteAfterFrom ==
  ASSUME NEW v, NEW s, Stood(v), Keeps(v, s), InLine(s), NEW d \in Drivers,
         Reserved(v, d) # NONE
  PROVE  From(s, PromoteAfter(v, s, d))
<1>1. s \in Rows /\ Stood(s) /\ Good(v)
  BY DEF Stood, Keeps, Good
<1>2. SameLine(s, PromoteAfter(v, s, d))
  BY <1>1 DEF SameLine, PromoteAfter, Rows
<1> QED
  BY <1>1, <1>2, SameFrom, PromoteAfterGood, GoodRows

LEMMA BeginFrom ==
  ASSUME Stood(db), NEW d \in Drivers  PROVE From(db, Begin(d))
BY SameFrom, BeginLine, BeginGood DEF Stood

(***************************************************************************)
(* The actions: nobody is passed but by a driver who takes the tail        *)
(***************************************************************************)
LEMMA LineActionsFrom ==
  ASSUME Stood(db), NEW d \in Drivers,
         DriverMessage(d) \/ GoOffline(d) \/ GoAway(d) \/ AwayExpire(d)
  PROVE  From(db, db')
<1>1. From(db, Begin(d)) /\ Stood(Begin(d))
  BY BeginFrom, FromStood
<1>2. CASE DriverMessage(d)
  BY <1>1, <1>2 DEF DriverMessage
<1>3. CASE GoOffline(d)
  BY <1>1, <1>3, DriversFrom, FromTrans DEF GoOffline
<1>4. CASE GoAway(d)
  BY <1>1, <1>4, DriversFrom, FromTrans DEF GoAway
<1>5. CASE AwayExpire(d)
  BY <1>5, DriversFrom DEF AwayExpire
<1> QED
  BY <1>2, <1>3, <1>4, <1>5

LEMMA GoOnlineLine ==
  ASSUME Stood(db), NEW d \in Drivers, GoOnline(d)  PROVE JoinedBy(db, db', d)
<1> DEFINE s == Begin(d)
           t == [JoinQueue(s, d) EXCEPT !.online[d] = TRUE]
<1>1. From(db, s) /\ Good(s) /\ InLine(s) /\ s \in Rows
  BY BeginFrom, FromStood
<1>2. db' \in Promotes(t, t)
  BY DEF GoOnline
<1> HIDE DEF s
<1>3. Good(t) /\ JoinedBy(s, t, d)
  BY <1>1, JoinLineKeeps, JoinLine, GoodRows
<1> HIDE DEF t
<1>4. From(t, db')
  BY <1>2, <1>3, PromotesFrom DEF Stood, JoinedBy
<1> QED
  BY <1>1, <1>3, <1>4 DEF From, Kept, JoinedBy, Before

LEMMA RideActionsFrom ==
  ASSUME Stood(db), NEW d \in Drivers,
         ShowEtaMenu(d) \/ SetEta(d) \/ Arrived(d) \/ Seated(d)
  PROVE  From(db, db')
<1> DEFINE s == Begin(d)
           o == ActiveRide(s, d)
<1>1. From(db, s) /\ Stood(s) /\ Good(s) /\ s \in Rows
  BY BeginFrom, FromStood
<1>2. o \in Orders /\ s.driver[o] = d
  BY ActiveRideIn DEF ShowEtaMenu, SetEta, Arrived, Seated, OnRide
<1>3. ShowEtaMenu(d) => db' = [s EXCEPT !.card[o] = TRUE]
  BY DEF ShowEtaMenu
<1>4. SetEta(d) => db' = Follow([s EXCEPT !.card[o] = FALSE], o)
  BY DEF SetEta
<1>5. Arrived(d) => db' = Follow([s EXCEPT !.status[o] = "arrived"], o)
  BY DEF Arrived
<1>6. Seated(d) => db' = Follow([s EXCEPT !.status[o] = "in_progress"], o)
  BY DEF Seated
<1> HIDE DEF s, o
<1>7. ASSUME NEW b \in BOOLEAN PROVE From(s, [s EXCEPT !.card[o] = b])
  <2> DEFINE t == [s EXCEPT !.card[o] = b]
  <2>1. Good(t)
    BY <1>1, <1>2, <1>7, CardGood, GoodRows
  <2>2. t.row = s.row /\ t.online = s.online /\ t.ahead = s.ahead
    BY <1>1 DEF Rows
  <2> HIDE DEF t
  <2>3. From(s, t)
    BY <1>1, <2>1, <2>2, ColumnsFrom
  <2> QED
    BY <2>3 DEF t
<1>8. ASSUME NEW status \in Riding PROVE From(s, [s EXCEPT !.status[o] = status])
  <2> DEFINE t == [s EXCEPT !.status[o] = status]
  <2>1. Good(t)
    BY <1>1, <1>2, <1>8, RideStatusGood
  <2>2. t.row = s.row /\ t.online = s.online /\ t.ahead = s.ahead
    BY <1>1 DEF Rows
  <2> HIDE DEF t
  <2>3. From(s, t)
    BY <1>1, <2>1, <2>2, ColumnsFrom
  <2> QED
    BY <2>3 DEF t
<1>9. \A t : From(s, t) => From(db, t) /\ From(db, Follow(t, o))
  BY <1>1, <1>2, OrdersFrom, FromTrans, FromStood
<1>10. "arrived" \in Riding /\ "in_progress" \in Riding
  BY DEF Riding
<1> QED
  BY <1>3, <1>4, <1>5, <1>6, <1>7, <1>8, <1>9, <1>10

LEMMA CompleteFrom ==
  ASSUME Stood(db), NEW d \in Drivers, Complete(d)  PROVE From(db, db')
<1> DEFINE s == Begin(d)
           o == ActiveRide(s, d)
           c == CloseFor(s, o, "completed")
           t == LeaveTemporary(c, d, s.temp[o])
<1>1. From(db, s) /\ Stood(s) /\ Good(s) /\ o \in Orders
  BY BeginFrom, FromStood, ActiveRideIn DEF Complete, OnRide
<1>2. db' = IF Reserved(s, d) # NONE THEN PromoteAfter(s, t, d) ELSE SetAway(t, d)
  BY DEF Complete
<1> HIDE DEF s, o
<1>3. From(s, c) /\ Keeps(s, c) /\ Stood(c) /\ Good(c)
  BY <1>1, CloseFrom, CloseForGood, FromStood DEF Closed
<1> HIDE DEF c
<1>4. From(c, t) /\ Keeps(c, t)
  BY <1>3, DriversFrom, LeaveTemporaryKeeps
<1> HIDE DEF t
<1>5. From(s, t) /\ Keeps(s, t) /\ Stood(t) /\ InLine(t)
  BY <1>3, <1>4, KeepsTransitive, FromTrans, FromStood
<1>6. From(t, db')
  BY <1>1, <1>2, <1>5, PromoteAfterFrom, DriversFrom
<1> QED
  BY <1>1, <1>5, <1>6, FromTrans

LEMMA CancelForClientFrom ==
  ASSUME Stood(db), NEW d \in Drivers, CancelForClient(d)  PROVE From(db, db')
<1> DEFINE s == Begin(d)
           o == ActiveRide(s, d)
           c == CloseFor(s, o, "cancelled")
           t == LeaveTemporary(SetAway(c, d), d, s.temp[o])
           u == LeaveTemporary(c, d, s.temp[o])
<1>1. From(db, s) /\ Stood(s) /\ Good(s) /\ o \in Orders
  BY BeginFrom, FromStood, ActiveRideIn DEF CancelForClient, OnRide
<1>2. IF Reserved(s, d) # NONE THEN db' = PromoteAfter(s, u, d)
      ELSE db' \in {SetAway(r, d) : r \in Promotes(t, t)}
  BY DEF CancelForClient
<1> HIDE DEF s, o
<1>3. From(s, c) /\ Keeps(s, c) /\ Stood(c) /\ Good(c)
  BY <1>1, CloseFrom, CloseForGood, FromStood DEF Closed
<1> HIDE DEF c
<1>4. From(c, t)
  BY <1>3, DriversFrom, FromTrans, FromStood
<1>5. From(c, u) /\ Keeps(c, u)
  BY <1>3, DriversFrom, LeaveTemporaryKeeps
<1> HIDE DEF t, u
<1>6. From(db, t) /\ Stood(t) /\ From(db, u) /\ Keeps(s, u) /\ InLine(u)
  BY <1>1, <1>3, <1>4, <1>5, KeepsTransitive, FromTrans, FromStood
<1>7. CASE Reserved(s, d) # NONE
  BY <1>1, <1>2, <1>6, <1>7, PromoteAfterFrom, FromTrans
<1>8. CASE Reserved(s, d) = NONE
  BY <1>2, <1>6, <1>8, PromotesFrom, DriversFrom, FromTrans, FromStood
<1> QED
  BY <1>7, <1>8

LEMMA CancelForCarFrom ==
  ASSUME Stood(db), NEW d \in Drivers, CancelForCar(d)  PROVE From(db, db')
<1> DEFINE s == Begin(d)
           o == ActiveRide(s, d)
           first == [s EXCEPT !.deadline[o] = FALSE]
           t == Release(first, Reserved(s, d))
           Released == IF Reserved(s, d) = NONE THEN {first} ELSE Promotes(t, t)
           Ended(r) == SetAway([LeaveQueue(Close(r, o, "cancelled"), d)
                                  EXCEPT !.online[d] = FALSE, !.driver[o] = d], d)
           Search(r) == SetAway([r EXCEPT !.driver[o] = NONE, !.status[o] = "searching"], d)
           Again(r) == OfferNext(Search(r), o, {})
<1>0. From(db, s) /\ Stood(s) /\ Good(s) /\ s \in Rows
  BY BeginFrom, FromStood
<1>1. o \in Orders /\ s.driver[o] = d
  BY ActiveRideIn DEF CancelForCar, OnRide
<1>2. /\ s.status[o] \in Riding \cup {"searching"}
      /\ \E r \in Released : \/ db' = Ended(r)
                            \/ db' \in {SetAway(q, d) : q \in Promotes(Again(r), Again(r))}
  BY Zenon DEF CancelForCar
<1> HIDE DEF s, o
<1>3. first \in Rows /\ first.status = s.status /\ first.offered = s.offered
      /\ first.driver = s.driver /\ first.parallel = s.parallel
      /\ first.row = s.row /\ first.online = s.online /\ first.ahead = s.ahead
  BY <1>0, <1>1 DEF Rows
<1> HIDE DEF first
<1>4. From(s, first) /\ Stood(first)
  BY <1>0, <1>3, SameIsGood, ColumnsFrom, FromStood DEF Keeps
<1>5. \A r \in Released : From(s, r) /\ r.driver[o] = d
  <2>1. CASE Reserved(s, d) = NONE
    BY <1>1, <1>3, <1>4, <2>1
  <2>2. CASE Reserved(s, d) # NONE
    <3>1. Reserved(s, d) \in Orders \ {o}
      BY <1>2, <2>2, ReservedIn DEF Riding
    <3>2. Good(t) /\ t.driver[o] = d
      BY <1>1, <1>3, <1>4, <3>1, ReleaseGood DEF Keeps, Stood
    <3>3. From(s, t) /\ Stood(t)
      BY <1>4, <3>1, OrdersFrom, FromTrans, FromStood
    <3> HIDE DEF t
    <3> QED
      BY <2>2, <3>2, <3>3, PromotesSelf, PromotesFrom, FromTrans
  <2> QED
    BY <2>1, <2>2
<1> HIDE DEF Released
<1>6. PICK r \in Released : \/ db' = Ended(r)
                            \/ db' \in {SetAway(q, d) : q \in Promotes(Again(r), Again(r))}
  BY <1>2, Zenon
<1>7. From(db, r) /\ Stood(r) /\ Good(r) /\ r \in Rows /\ r.offered[o] = NONE
  BY <1>0, <1>1, <1>5, FromTrans, FromStood, NoneAssumption DEF Good
<1>8. CASE db' = Ended(r)
  <2> DEFINE c == Close(r, o, "cancelled")
             l == [LeaveQueue(c, d) EXCEPT !.online[d] = FALSE]
             e == [l EXCEPT !.driver[o] = d]
  <2>1. From(r, c) /\ Stood(c)
    BY <1>1, <1>7, CloseFrom, FromStood DEF Closed
  <2>2. Kept(r, SetAway(e, d))
    <3>1. From(c, l)
      BY <2>1, DriversFrom
    <3> HIDE DEF c, l
    <3>2. From(r, l) /\ l \in Rows /\ InLine(l)
      BY <2>1, <3>1, FromTrans, FromStood
    <3>3. e \in Rows
      <4>1. o \in Orders
        BY <1>1
      <4> QED
        BY <3>2, <4>1 DEF Rows
    <3>4. e.row = l.row /\ e.online = l.online /\ e.ahead = l.ahead
      BY <3>2 DEF Rows
    <3> HIDE DEF e
    <3>5. SameLine(l, SetAway(e, d))
      BY <3>3, <3>4, DriversLine, SameColumns, SameLineTrans
    <3> QED
      BY <3>2, <3>5, SameKept, KeptTrans DEF From
  <2>3. db' = SetAway(e, d)
    <3>1. e = [LeaveQueue(c, d) EXCEPT !.online[d] = FALSE, !.driver[o] = d]
      BY DEF l
    <3> QED
      BY <1>8, <3>1 DEF c
  <2> HIDE DEF e
  <2>4. Kept(db, db')
    BY <1>7, <2>2, <2>3, KeptTrans DEF From
  <2> QED
    BY <2>4, CancelForCarGood DEF From, Stood
<1>9. CASE db' \in {SetAway(q, d) : q \in Promotes(Again(r), Again(r))}
  <2> DEFINE e == [r EXCEPT !.driver[o] = NONE, !.status[o] = "searching"]
  <2>1. e \in Rows
    BY <1>1, <1>7, StatusValues, Zenon DEF Rows
  <2>2. /\ e.offered = r.offered /\ e.parallel = r.parallel
        /\ e.row = r.row /\ e.online = r.online /\ e.ahead = r.ahead
        /\ \A p \in Orders \ {o} : e.status[p] = r.status[p] /\ e.driver[p] = r.driver[p]
    BY <1>1, <1>7 DEF Rows
  <2> HIDE DEF e
  <2>3. Good(e)
    BY <1>1, <1>7, <2>1, <2>2, OneOrderKeeps DEF Keeps
  <2>4. From(r, e) /\ Stood(e)
    BY <1>7, <2>2, <2>3, ColumnsFrom, FromStood
  <2>5. From(r, SetAway(e, d)) /\ Stood(SetAway(e, d))
    BY <2>4, DriversFrom, FromTrans, FromStood
  <2>6. From(r, Again(r)) /\ Stood(Again(r))
    BY <1>1, <2>5, OrdersFrom, FromTrans, FromStood DEF e
  <2> HIDE DEF Again
  <2> QED
    BY <1>7, <1>9, <2>6, PromotesFrom, DriversFrom, FromTrans, FromStood
<1> QED
  BY <1>6, <1>8, <1>9

LEMMA CreateActionsFrom ==
  ASSUME Stood(db), NEW o \in Orders, CreateOrder(o) \/ DispCreate(o)
  PROVE  From(db, db')
<1> DEFINE c == [db EXCEPT !.status[o] = "created"]
           e == [c EXCEPT !.deadline[o] = TRUE]
<1>0. db \in Rows /\ Good(db)
  BY DEF Stood, Good
<1>1. c.row = db.row /\ c.online = db.online /\ c.ahead = db.ahead
  BY <1>0 DEF Rows
<1>2. Good(c) /\ c \in Rows
  BY <1>0, StatusKeeps, StatusValues, GoodRows
<1>3. e = [db EXCEPT !.status[o] = "created", !.deadline[o] = TRUE]
  OBVIOUS
<1> HIDE DEF c
<1>4. Good(e)
  BY <1>2, DeadlineKeeps, GoodRows
<1>5. e.row = c.row /\ e.online = c.online /\ e.ahead = c.ahead
  BY <1>2 DEF Rows
<1> HIDE DEF e
<1>6. From(db, c) /\ From(db, e)
  BY <1>1, <1>2, <1>4, <1>5, ColumnsFrom
<1>7. \A t : From(db, t) => From(db, OfferNext(ResetCreator(t, o), o, {}))
  BY OrdersFrom, FromTrans, FromStood
<1>8. CASE CreateOrder(o)
  BY <1>6, <1>7, <1>8 DEF CreateOrder, c
<1>9. CASE DispCreate(o)
  BY <1>3, <1>6, <1>7, <1>9 DEF DispCreate
<1> QED
  BY <1>8, <1>9

LEMMA DialogueActionsFrom ==
  ASSUME Stood(db), NEW c \in Creators, UpdateAddress(c) \/ LeaveDialogue(c)
  PROVE  From(db, db')
<1>1. db \in Rows /\ Good(db)
  BY DEF Good, Stood
<1>2. CASE UpdateAddress(c)
  <2> DEFINE o == db.address[c]
             t == [db EXCEPT !.offered[o] = NONE, !.status[o] = "searching"]
             s == ResetCreator(Dequeue(t, o), o)
  <2>1. o \in Orders
    BY <1>1, <1>2 DEF UpdateAddress, Rows
  <2>2. db' = OfferNext(s, o, {})
    BY <1>2 DEF UpdateAddress
  <2> HIDE DEF o
  <2>3. t \in Rows
    BY <1>1, <2>1, StatusValues DEF Rows
  <2>4. t.driver = db.driver /\ t.parallel = db.parallel /\ t.offered[o] = NONE
        /\ t.row = db.row /\ t.online = db.online /\ t.ahead = db.ahead
    BY <1>1, <2>1 DEF Rows
  <2>5. \A p \in Orders \ {o} : t.status[p] = db.status[p] /\ t.offered[p] = db.offered[p]
    BY <1>1, <2>1 DEF Rows
  <2> HIDE DEF t
  <2>6. Good(t)
    BY <1>1, <2>1, <2>3, <2>4, <2>5, OneOrderKeeps, GoodRows
  <2>7. From(db, t) /\ Stood(t)
    BY <2>4, <2>6, ColumnsFrom, FromStood
  <2>8. From(db, s) /\ Stood(s)
    BY <2>1, <2>7, OrdersFrom, FromTrans, FromStood
  <2> HIDE DEF s
  <2> QED
    BY <2>1, <2>2, <2>8, OrdersFrom, FromTrans
<1>3. CASE LeaveDialogue(c)
  <2>1. db'.row = db.row /\ db'.online = db.online /\ db'.ahead = db.ahead
    BY <1>1, <1>3 DEF LeaveDialogue, Rows
  <2> QED
    BY <1>1, <1>3, <2>1, DialogueActions, ColumnsFrom
<1> QED
  BY <1>2, <1>3

\* What the two cancellations do to the rows is not flushed yet when try_promote
\* runs, and does not move the line.
LEMMA CancelledLine ==
  ASSUME NEW s, Good(s), NEW o \in Orders
  PROVE  /\ SameLine(s, Dequeue(CloseFor(s, o, "cancelled"), o))
         /\ SameLine(s, Dequeue(Close(s, o, "cancelled"), o))
<1> DEFINE c == CloseFor(s, o, "cancelled")
           e == Close(s, o, "cancelled")
<1>1. s \in Rows
  BY DEF Good
<1>2. SameLine(s, c) /\ SameLine(s, e)
  BY <1>1, CloseLine
<1>3. c \in Rows /\ e \in Rows
  BY CloseForGood, CloseGood, GoodRows DEF Closed
<1> HIDE DEF c, e
<1>4. SameLine(c, Dequeue(c, o)) /\ SameLine(e, Dequeue(e, o))
  BY <1>3, OrdersLine
<1>5. SameLine(s, Dequeue(c, o)) /\ SameLine(s, Dequeue(e, o))
  BY <1>2, <1>4, SameLineTrans
<1> QED
  BY <1>5 DEF c, e

LEMMA WithdrawnLine ==
  ASSUME NEW s, Good(s), NEW o \in Orders, NEW d \in Drivers
  PROVE  SameLine(s, [ReleaseOffer(s, d) EXCEPT !.offered[o] = NONE])
<1> DEFINE r == ReleaseOffer(s, d)
           t == [r EXCEPT !.offered[o] = NONE]
<1>1. r \in Rows /\ SameLine(s, r)
  BY ReleaseOfferGood, DriversLine, GoodRows DEF Good
<1> HIDE DEF r
<1>2. t.row = r.row /\ t.online = r.online /\ t.ahead = r.ahead
  BY <1>1 DEF Rows
<1> HIDE DEF t
<1>3. SameLine(s, t)
  BY <1>1, <1>2, SameColumns, SameLineTrans
<1> QED
  BY <1>3 DEF r, t

\* The rows that try_promote gets after a passenger cancelled.
LEMMA PassengerCancelRows ==
  ASSUME Stood(db), NEW c \in Creators, PassengerCancel(c)
  PROVE  \E q : /\ Keeps(db, q) /\ SameLine(db, q)
               /\ db' \in Promotes(db, q) \cup Promotes(q, q)
<1> DEFINE o == OrderOf(db, c)
           d == db.driver[o]
           off == db.offered[o]
           s == Dequeue(CloseFor(db, o, "cancelled"), o)
           free == [s EXCEPT !.parallel[o] = NONE, !.driver[o] = NONE]
           t == IF off = NONE THEN s ELSE [ReleaseOffer(s, off) EXCEPT !.offered[o] = NONE]
           u == Relieve(db, s, d)
<1>0. Good(db)
  BY DEF Stood
<1>1. o \in Orders
  BY NewestIn, Zenon DEF PassengerCancel, OrderOf
<1>2. IF d = NONE THEN db' \in Promotes(db, t)
      ELSE IF db.parallel[o] # NONE THEN db' \in Promotes(db, free)
      ELSE \E v \in {db, u} : db' \in Promotes(v, u)
  BY DEF PassengerCancel
<1> HIDE DEF o
<1>3. Keeps(db, s) /\ SameLine(db, s) /\ Good(s) /\ s \in Rows
  BY <1>0, <1>1, ClosedDequeued, CancelledLine, GoodRows
<1>4. off \in Drivers \cup {NONE} /\ d \in Drivers \cup {NONE}
  BY <1>0, <1>1, OrderColumns
<1> HIDE DEF d, off, s
<1>5. Keeps(db, t) /\ SameLine(db, t)
  BY <1>1, <1>3, <1>4, OfferWithdrawn, WithdrawnLine, KeepsTransitive, SameLineTrans
<1>6. Keeps(db, free) /\ SameLine(db, free)
  <2>1. free \in Rows
    BY <1>1, <1>3 DEF Rows
  <2>2. free.status = s.status /\ free.offered = s.offered
        /\ free.row = s.row /\ free.online = s.online /\ free.ahead = s.ahead
    BY <1>3 DEF Rows
  <2>3. free.driver = [s.driver EXCEPT ![o] = NONE] /\ free.parallel = [s.parallel EXCEPT ![o] = NONE]
        /\ s.driver \in [Orders -> Drivers \cup {NONE}]
        /\ s.parallel \in [Orders -> Drivers \cup {NONE}]
    BY <1>3 DEF Rows
  <2> HIDE DEF free
  <2>4. Keeps(s, free)
    BY <1>1, <1>3, <2>1, <2>2, <2>3, FewerIsGood DEF Good, Fewer
  <2> QED
    BY <1>3, <2>2, <2>4, KeepsTransitive, SameColumns, SameLineTrans
<1>7. ASSUME d # NONE PROVE Keeps(db, u) /\ SameLine(db, u)
  BY <1>0, <1>3, <1>4, <1>7, RelieveGood, RelieveLine, KeepsTransitive, SameLineTrans
<1> HIDE DEF t, free, u
<1> QED
  BY <1>2, <1>5, <1>6, <1>7

LEMMA PassengerCancelFrom ==
  ASSUME Stood(db), NEW c \in Creators, PassengerCancel(c)  PROVE From(db, db')
<1>1. PICK q : /\ Keeps(db, q) /\ SameLine(db, q)
               /\ db' \in Promotes(db, q) \cup Promotes(q, q)
  BY PassengerCancelRows
<1>2. From(db, q) /\ Stood(q)
  BY <1>1, SameFrom, FromStood, GoodRows
<1> QED
  BY <1>1, <1>2, PromotesUnflushed, PromotesFrom, FromTrans

LEMMA DispCancelFrom ==
  ASSUME Stood(db), NEW o \in Orders, DispCancel(o)  PROVE From(db, db')
<1> DEFINE d == db.driver[o]
           off == db.offered[o]
           s == Dequeue(Close(db, o, "cancelled"), o)
<1>1. IF d # NONE THEN db' = Relieve(db, s, d)
      ELSE IF off # NONE THEN db' = [ReleaseOffer(s, off) EXCEPT !.offered[o] = NONE]
      ELSE db' = s
  BY DEF DispCancel
<1>2. SameLine(db, s) /\ Good(s) /\ s \in Rows
  BY CancelledLine, ClosedDequeued, GoodRows DEF Stood
<1>3. off \in Drivers \cup {NONE} /\ d \in Drivers \cup {NONE}
  BY OrderColumns DEF Stood
<1> HIDE DEF d, off, s
<1>4. SameLine(s, db')
  BY <1>1, <1>2, <1>3, RelieveLine, WithdrawnLine, SameLineRefl
<1>5. Good(db')
  BY DispCancelGood DEF Stood
<1> QED
  BY <1>2, <1>4, <1>5, SameFrom, SameLineTrans

LEMMA TimeoutActionsFrom ==
  ASSUME Stood(db), NEW o \in Orders, DispatcherUnclaimed(o) \/ ChatTimeout(o)
  PROVE  From(db, db')
<1>0. db \in Rows /\ Good(db)
  BY DEF Stood, Good
<1>1. CASE DispatcherUnclaimed(o)
  <2> DEFINE off == db.offered[o]
             s == IF off = NONE THEN db ELSE ReleaseOffer(db, off)
             t == [s EXCEPT !.offered[o] = NONE]
             u == [db EXCEPT !.deadline[o] = FALSE]
  <2>1. db' = Dequeue(Close(t, o, "cancelled"), o) \/ db' = u
    BY <1>1 DEF DispatcherUnclaimed
  <2>2. off \in Drivers \cup {NONE}
    BY <1>0, OrderColumns
  <2> HIDE DEF off
  <2>3. From(db, s) /\ Stood(s) /\ Good(s) /\ s \in Rows
    BY <2>2, DriversFrom, FromRefl, FromStood
  <2> HIDE DEF s
  <2>4. Good(t)
    BY <2>3, ClearOfferKeeps, GoodRows
  <2>5. t.row = s.row /\ t.online = s.online /\ t.ahead = s.ahead
    BY <2>3 DEF Rows
  <2> HIDE DEF t
  <2>6. From(db, t) /\ Stood(t)
    BY <2>3, <2>4, <2>5, ColumnsFrom, FromTrans, FromStood
  <2>7. From(db, Dequeue(Close(t, o, "cancelled"), o))
    BY <2>6, CancelledFrom, FromTrans
  <2>8. Good(u)
    BY <1>0, DeadlineKeeps, GoodRows
  <2>9. u.row = db.row /\ u.online = db.online /\ u.ahead = db.ahead
    BY <1>0 DEF Rows
  <2> HIDE DEF u
  <2> QED
    BY <2>1, <2>7, <2>8, <2>9, ColumnsFrom
<1>2. CASE ChatTimeout(o)
  BY <1>2, CloseFrom DEF ChatTimeout, Closed
<1> QED
  BY <1>1, <1>2

LEMMA AdminCancelFrom ==
  ASSUME Stood(db), NEW o \in Orders, AdminCancel(o)  PROVE From(db, db')
<1> DEFINE Restore(s, e) ==
             IF s.row[e] = "none" THEN [s EXCEPT !.dstat[e] = "offline"]
             ELSE IF s.online[e] THEN [s EXCEPT !.row[e] = "waiting", !.dstat[e] = "online"]
             ELSE s
           off == db.offered[o]
           d == db.driver[o]
           q == Dequeue(Close(db, o, "cancelled"), o)
           s == ResetCreator(q, o)
           t == IF off = NONE THEN s ELSE Restore(s, off)
           u == IF d = NONE \/ d = off \/ db.status[o] \notin Riding THEN t
                ELSE IF Reserved(db, d) # NONE THEN PromoteAfter(db, t, d)
                ELSE Restore(t, d)
           w == [u EXCEPT !.offered[o] = NONE, !.parallel[o] = NONE]
<1>0. Good(db)
  BY DEF Stood
<1>1. db' = w
  BY DEF AdminCancel
<1>2. off \in Drivers \cup {NONE} /\ d \in Drivers \cup {NONE}
  BY <1>0, OrderColumns
<1>3. ASSUME NEW r \in Rows, NEW e \in Drivers
      PROVE  SameLine(r, Restore(r, e)) /\ DOMAIN Restore(r, e) = DOMAIN r
  <2>1. r.row[e] # "none" => SameLine(r, [r EXCEPT !.row[e] = "waiting", !.dstat[e] = "online"])
    BY <1>3, DriverLine, Zenon
  <2>2. SameLine(r, [r EXCEPT !.dstat[e] = "offline"])
    BY <1>3 DEF SameLine, Rows
  <2>3. SameLine(r, r)
    BY SameLineRefl
  <2>4. DOMAIN Restore(r, e) = DOMAIN r
    BY <1>3 DEF Rows
  <2> QED
    BY <2>1, <2>2, <2>3, <2>4
<1>4. SameLine(db, q) /\ Good(q)
  BY <1>0, CancelledLine, ClosedDequeued, GoodRows
<1>5. SameLine(q, s) /\ s \in Rows
  BY <1>4, OrdersLine, ResetCreatorGood, GoodRows DEF Good
<1>6. ASSUME NEW r \in Rows, NEW e \in Drivers PROVE Restore(r, e) \in Rows
  <2>1. [r EXCEPT !.dstat[e] = "offline"] \in Rows
    BY <1>6, Zenon DEF Rows
  <2>2. [r EXCEPT !.row[e] = "waiting", !.dstat[e] = "online"] \in Rows
    BY <1>6, DriverColumns, Zenon DEF QueueStates, DriverStates
  <2> QED
    BY <1>6, <2>1, <2>2
<1> HIDE DEF off, d, q, s, Restore
<1>7. SameLine(s, t) /\ t \in Rows
  BY <1>2, <1>3, <1>5, <1>6, SameLineRefl
<1> HIDE DEF t
<1>8. SameLine(t, u) /\ DOMAIN u = DOMAIN t
  <2>1. SameLine(t, PromoteAfter(db, t, d)) /\ DOMAIN PromoteAfter(db, t, d) = DOMAIN t
    BY <1>7 DEF SameLine, PromoteAfter, Rows
  <2> QED
    BY <1>2, <1>3, <1>7, <2>1, SameLineRefl
<1> HIDE DEF u
<1>9. w.row = u.row /\ w.online = u.online /\ w.ahead = u.ahead
  BY <1>7, <1>8 DEF Rows
<1>10. SameLine(u, w)
  BY <1>9, SameColumns
<1> HIDE DEF w
<1>11. SameLine(db, w)
  BY <1>4, <1>5, <1>7, <1>8, <1>10, SameLineTrans
<1>12. Good(db')
  BY <1>0, AdminCancelGood
<1> QED
  BY <1>1, <1>11, <1>12, SameFrom

LEMMA AcceptFrom ==
  ASSUME Stood(db), NEW d \in Drivers, NEW o \in Orders, Accept(d, o)  PROVE From(db, db')
<1> DEFINE s == Begin(d)
           t == [s EXCEPT !.offered[o] = NONE, !.driver[o] = d, !.status[o] = "assigned",
                          !.card[o] = TRUE, !.deadline[o] = FALSE]
<1>1. From(db, s) /\ InLine(s) /\ s \in Rows
  BY BeginFrom, FromStood
<1>2. db' = MarkAssigned(t, d)
  BY DEF Accept
<1> HIDE DEF s
<1>3. t \in Rows /\ t.row = s.row /\ t.online = s.online /\ t.ahead = s.ahead
  BY <1>1, StatusValues DEF Rows
<1> HIDE DEF t
<1>4. SameLine(s, db')
  BY <1>2, <1>3, SameColumns, DriversLine, SameLineTrans
<1>5. Kept(db, db')
  BY <1>1, <1>4, SameKept, KeptTrans DEF From
<1> QED
  BY <1>5, AcceptGood DEF From, Stood

LEMMA DeclinedFrom ==
  ASSUME NEW s, Stood(s), NEW d \in Drivers, NEW o \in Orders  PROVE From(s, Declined(s, d, o))
<1> DEFINE r == ReleaseOffer(s, d)
           t == Declined(s, d, o)
<1>1. From(s, r) /\ Stood(r) /\ r \in Rows
  BY DriversFrom, FromStood
<1>2. t.row = r.row /\ t.online = r.online /\ t.ahead = r.ahead
  <2> HIDE DEF r
  <2>1. t = [r EXCEPT !.offered[o] = NONE, !.card[o] = FALSE, !.current[CreatorOf[o]] = NONE]
    BY DEF Declined, r
  <2> HIDE DEF t
  <2> QED
    BY <1>1, <2>1 DEF Rows
<1>3. Good(t)
  BY DeclinedGood DEF Stood
<1> HIDE DEF r, t
<1>4. From(s, t)
  BY <1>1, <1>2, <1>3, ColumnsFrom, FromTrans
<1> QED
  BY <1>4 DEF t

LEMMA DeclineFrom ==
  ASSUME Stood(db), NEW d \in Drivers, NEW o \in Orders, NEW reason \in Reasons,
         Decline(d, o, reason)
  PROVE  From(db, db')
<1> DEFINE s == Begin(d)
           t == Declined(s, d, o)
           c == CreatorOf[o]
           next == [t EXCEPT !.declined[o] = @ \cup {d}]
           far == [next EXCEPT !.special[o] = TRUE]
           cancelled == Dequeue(CloseFor(t, o, "cancelled"), o)
           asking == [t EXCEPT !.status[o] = "created",
                               !.address[c] = IF ByDispatcher(o) THEN @ ELSE o]
           Passed(r) == LET u == OfferNext(r, o, {}) IN Promotes(u, u)
<1>1. From(db, t) /\ Stood(t) /\ Good(t) /\ t \in Rows /\ c \in Creators
  BY BeginFrom, DeclinedFrom, FromTrans, FromStood DEF Creators
<1>2. \/ db' \in Promotes(cancelled, cancelled)
      \/ db' \in Promotes(asking, asking)
      \/ db' = OfferNext(SetAway(next, d), o, {})
      \/ db' \in Passed(next)
      \/ db' \in Passed(far)
  BY DEF Decline, Reasons
<1> HIDE DEF t, c
<1>3. Good(next) /\ next \in Rows
  <2> DEFINE refusers == t.declined[o] \cup {d}
  <2>0. refusers \in SUBSET Drivers
    BY <1>1 DEF Rows
  <2> HIDE DEF refusers
  <2>1. next \in Rows
    <3>1. [t EXCEPT !.declined[o] = refusers] \in Rows
      BY <1>1, <2>0 DEF Rows
    <3> QED
      BY <3>1 DEF refusers
  <2>2. next.status = t.status /\ next.offered = t.offered
        /\ next.driver = t.driver /\ next.parallel = t.parallel
    BY <1>1 DEF Rows
  <2> HIDE DEF next
  <2> QED
    BY <1>1, <2>1, <2>2, SameIsGood, GoodRows
<1>4. next.row = t.row /\ next.online = t.online /\ next.ahead = t.ahead
  BY <1>1 DEF Rows
<1> HIDE DEF next
<1>5. From(db, next) /\ Stood(next)
  BY <1>1, <1>3, <1>4, ColumnsFrom, FromTrans, FromStood
<1>6. Good(far)
  <2>1. far \in Rows
    BY <1>3 DEF Rows
  <2>2. far.status = next.status /\ far.offered = next.offered
        /\ far.driver = next.driver /\ far.parallel = next.parallel
    BY <1>3 DEF Rows
  <2> HIDE DEF far
  <2> QED
    BY <1>3, <2>1, <2>2, SameIsGood, GoodRows
<1>7. far.row = next.row /\ far.online = next.online /\ far.ahead = next.ahead
  BY <1>3 DEF Rows
<1> HIDE DEF far
<1>8. From(db, far) /\ Stood(far)
  BY <1>5, <1>6, <1>7, ColumnsFrom, FromTrans, FromStood
<1>9. From(db, cancelled) /\ Stood(cancelled)
  BY <1>1, CancelledFrom, FromTrans, FromStood
<1>10. From(db, asking) /\ Stood(asking)
  <2> DEFINE a == IF ByDispatcher(o) THEN t.address[c] ELSE o
  <2>1. a \in Orders \cup {NONE}
    BY <1>1 DEF Rows
  <2> HIDE DEF a
  <2>2. asking \in Rows
    <3>1. [t EXCEPT !.status[o] = "created", !.address[c] = a] \in Rows
      BY <1>1, <2>1, StatusValues DEF Rows
    <3> QED
      BY <3>1 DEF a
  <2>3. asking.offered = t.offered /\ asking.driver = t.driver /\ asking.parallel = t.parallel
        /\ asking.row = t.row /\ asking.online = t.online /\ asking.ahead = t.ahead
    BY <1>1 DEF Rows
  <2>4. asking.status = [t.status EXCEPT ![o] = "created"] /\ t.status \in [Orders -> Statuses]
    BY <1>1 DEF Rows
  <2> HIDE DEF asking
  <2>5. Good(asking)
    BY <1>1, <2>2, <2>3, <2>4, FewerIsGood, GoodRows DEF Fewer, Good
  <2> QED
    BY <1>1, <2>3, <2>5, ColumnsFrom, FromTrans, FromStood
<1> HIDE DEF cancelled, asking
<1>11. \A r : From(db, r) => \A x \in Passed(r) : From(db, x)
  BY OrdersFrom, PromotesFrom, FromTrans, FromStood
<1> HIDE DEF Passed
<1>12. From(db, OfferNext(SetAway(next, d), o, {}))
  BY <1>5, DriversFrom, OrdersFrom, FromTrans, FromStood
<1> QED
  BY <1>2, <1>5, <1>8, <1>9, <1>10, <1>11, <1>12, PromotesFrom, FromTrans

LEMMA AcceptTimeoutFrom ==
  ASSUME Stood(db), NEW o \in Orders, AcceptTimeout(o)  PROVE From(db, db')
<1> DEFINE d == db.offered[o]
           c == CreatorOf[o]
           l == [LeaveQueue(db, d) EXCEPT !.online[d] = FALSE]
           s == [l EXCEPT !.offered[o] = NONE, !.card[o] = FALSE, !.current[c] = NONE]
           t == OfferNext(s, o, {d})
<1>1. d \in Drivers /\ c \in Creators
  BY OrderColumns DEF AcceptTimeout, Creators, Stood
<1>2. db' \in Promotes(t, t)
  <2>1. s = [LeaveQueue(db, d) EXCEPT !.online[d] = FALSE, !.offered[o] = NONE,
                                      !.card[o] = FALSE, !.current[c] = NONE]
    OBVIOUS
  <2> HIDE DEF s
  <2> QED
    BY <2>1 DEF AcceptTimeout
<1> HIDE DEF d, c
<1>3. From(db, l) /\ Stood(l) /\ Good(l) /\ l \in Rows
  BY <1>1, DriversFrom, FromStood
<1> HIDE DEF l
<1>4. s \in Rows
  BY <1>1, <1>3 DEF Rows
<1>5. s.offered[o] = NONE /\ s.status = l.status /\ s.driver = l.driver /\ s.parallel = l.parallel
      /\ s.row = l.row /\ s.online = l.online /\ s.ahead = l.ahead
  BY <1>3 DEF Rows
<1>6. \A p \in Orders \ {o} : s.offered[p] = l.offered[p]
  BY <1>3 DEF Rows
<1> HIDE DEF s
<1>7. Good(s)
  BY <1>3, <1>4, <1>5, <1>6, OneOrderKeeps, GoodRows
<1>8. From(db, s) /\ Stood(s)
  BY <1>3, <1>5, <1>7, ColumnsFrom, FromTrans, FromStood
<1>9. From(db, t) /\ Stood(t)
  BY <1>8, OrdersFrom, FromTrans, FromStood
<1> HIDE DEF t
<1> QED
  BY <1>2, <1>9, PromotesFrom, FromTrans

\* A driver who claims an order passes others only when off the line, or away.
ClaimedBy(d) ==
    /\ InLine(db')
    /\ \A e, f \in Drivers : Before(db', e, f) =>
          Before(db, e, f) \/ (f = d /\ (~db.online[d] \/ db.dstat[d] \in {"offline", "away"}))

LEMMA TakePendingLine ==
  ASSUME Stood(db), NEW d \in Drivers, NEW o \in Orders, TakePending(d, o)
  PROVE  ClaimedBy(d)
<1> DEFINE s == Begin(d)
           back == s.dstat[d] \in {"offline", "away"} \/ ~s.online[d]
           c == Claim(s, d, o, back)
           t == [c EXCEPT !.parallel[o] = NONE, !.temp[o] = FALSE, !.card[o] = TRUE]
<1>1. db' = t
  BY DEF TakePending
<1>2. From(db, s) /\ Good(s) /\ InLine(s)
  BY BeginFrom, FromStood
<1>3. back => ~db.online[d] \/ db.dstat[d] \in {"offline", "away"}
  BY BeginLine DEF Stood, SameLine
<1>4. c \in Rows
  BY <1>2, ClaimKeeps, GoodRows
<1>5. InLine(c) /\ \A e, f \in Drivers : Before(c, e, f) => Before(s, e, f) \/ (back /\ f = d)
  BY <1>2, ClaimLine
<1> HIDE DEF s, back, c
<1>6. t.row = c.row /\ t.online = c.online /\ t.ahead = c.ahead
  BY <1>4 DEF Rows
<1> HIDE DEF t
<1>7. InLine(t) /\ \A e, f \in Drivers : Before(t, e, f) => Before(c, e, f)
  BY <1>5, <1>6, SameColumns, SameInLine DEF Before
<1>8. \A e, f \in Drivers : Before(s, e, f) => Before(db, e, f)
  BY <1>2 DEF From, Kept, Before
<1> QED
  BY <1>1, <1>3, <1>5, <1>7, <1>8 DEF ClaimedBy

LEMMA TakenClaims ==
  ASSUME Stood(db), NEW s, From(db, s), NEW d \in Drivers, NEW o \in Orders,
         NEW other \in Orders \cup {NONE}, db' = Taken(s, d, o, other),
         ~s.online[d] \/ s.dstat[d] = "away"
           => ~db.online[d] \/ db.dstat[d] \in {"offline", "away"}
  PROVE  ClaimedBy(d)
<1> DEFINE t == Taken(s, d, o, other)
<1>1. Good(s) /\ InLine(s)
  BY FromStood
<1>2. /\ InLine(t)
      /\ \A e, f \in Drivers : Before(t, e, f) =>
           Before(s, e, f) \/ (f = d /\ (~s.online[d] \/ s.dstat[d] = "away"))
  BY <1>1, TakenLine
<1> HIDE DEF t
<1>3. \A e, f \in Drivers : Before(s, e, f) => Before(db, e, f)
  BY DEF From, Kept, Before
<1> QED
  BY <1>2, <1>3 DEF ClaimedBy, t

LEMMA ChatTakeLine ==
  ASSUME Stood(db), NEW d \in Drivers, NEW o \in Orders, ChatTake(d, o) \/ ChatTakeLate(d, o)
  PROVE  ClaimedBy(d)
<1>1. CASE ChatTake(d, o)
  <2> DEFINE s == Adopt(db, d)
             p == PendingOffer(s, d)
             dead == [s EXCEPT !.offered[p] = NONE]
             live == ReleaseOffer(dead, d)
  <2>1. db' = IF p = NONE THEN Taken(s, d, o, NONE)
              ELSE IF s.row[d] # "offered" THEN Taken(dead, d, o, NONE)
              ELSE Taken(live, d, o, p)
    BY <1>1 DEF ChatTake
  <2>2. Good(s) /\ s \in Rows
    BY AdoptKeeps, GoodRows DEF Stood
  <2>3. SameLine(db, s) /\ s.dstat = db.dstat
    BY AdoptLine DEF Stood, Good
  <2>4. From(db, s) /\ Stood(s) /\ s.online = db.online
    BY <2>2, <2>3, SameFrom, FromStood DEF SameLine
  <2>5. p # NONE => p \in Orders
    BY PendingOfferIn
  <2> HIDE DEF s, p
  <2>6. ASSUME p # NONE
        PROVE  /\ From(db, dead) /\ Stood(dead) /\ dead \in Rows
               /\ dead.online = db.online /\ dead.dstat = db.dstat
    <3>1. Good(dead)
      BY <2>2, <2>5, <2>6, ClearOfferKeeps, GoodRows
    <3>2. dead.row = s.row /\ dead.online = s.online /\ dead.ahead = s.ahead /\ dead.dstat = s.dstat
      BY <2>2 DEF Rows
    <3> HIDE DEF dead
    <3> QED
      BY <2>3, <2>4, <3>1, <3>2, ColumnsFrom, FromTrans, FromStood
  <2> HIDE DEF dead
  <2>7. ASSUME p # NONE
        PROVE  /\ From(db, live) /\ live.online = db.online
               /\ live.dstat[d] = "away" => db.dstat[d] = "away"
    <3>1. live.online = dead.online
          /\ live.dstat = [dead.dstat EXCEPT ![d] = IF @ = "away" THEN @ ELSE "online"]
          /\ d \in DOMAIN dead.dstat
      BY <2>6, <2>7 DEF ReleaseOffer, Rows
    <3>2. From(dead, live)
      BY <2>6, <2>7, DriversFrom
    <3> HIDE DEF live
    <3> QED
      BY <2>6, <2>7, <3>1, <3>2, FromTrans
  <2> HIDE DEF live
  <2>8. CASE p = NONE
    BY <2>1, <2>3, <2>4, <2>8, TakenClaims
  <2>9. CASE p # NONE /\ s.row[d] # "offered"
    BY <2>1, <2>6, <2>9, TakenClaims
  <2>10. CASE p # NONE /\ s.row[d] = "offered"
    BY <2>1, <2>5, <2>7, <2>10, TakenClaims
  <2> QED
    BY <2>8, <2>9, <2>10
<1>2. CASE ChatTakeLate(d, o)
  <2>1. db' = Taken(Begin(d), d, o, NONE)
    BY <1>2 DEF ChatTakeLate
  <2>2. From(db, Begin(d)) /\ Begin(d).online = db.online
    BY BeginFrom, BeginLine DEF Stood, SameLine
  <2>3. Begin(d).dstat[d] = "away" => db.dstat[d] \in {"offline", "away"}
    BY BeginLine DEF Stood
  <2> QED
    BY <2>1, <2>2, <2>3, TakenClaims
<1> QED
  BY <1>1, <1>2

LEMMA ParallelTakeFrom ==
  ASSUME Stood(db), NEW d \in Drivers, NEW o \in Orders, ParallelTake(d, o)
  PROVE  From(db, db')
<1> DEFINE s == Begin(d)
           r == Repair(s, s)
           q == Dequeue(r, o)
           t == [q EXCEPT !.parallel[o] = d, !.driver[o] = d,
                          !.status[o] = "parallel_assigned", !.card[o] = TRUE]
<1>1. db' = MarkAssigned(t, d)
  BY DEF ParallelTake
<1>2. From(db, s) /\ Stood(s) /\ Good(s) /\ InLine(s) /\ s \in Rows
  BY BeginFrom, FromStood
<1> HIDE DEF s
<1>3. Good(r) /\ SameLine(s, r)
  BY <1>2, RepairGood, RepairLine DEF Stands, InLine
<1> HIDE DEF r
<1>4. Good(q) /\ SameLine(r, q) /\ q \in Rows
  BY <1>3, DequeueGood, OrdersLine, GoodRows DEF Good
<1> HIDE DEF q
<1>5. t \in Rows
  BY <1>4, StatusValues DEF Rows
<1>6. t.row = q.row /\ t.online = q.online /\ t.ahead = q.ahead
  BY <1>4 DEF Rows
<1> HIDE DEF t
<1>7. SameLine(t, db')
  BY <1>1, <1>5, DriversLine
<1>8. SameLine(s, db')
  BY <1>3, <1>4, <1>6, <1>7, SameColumns, SameLineTrans
<1>9. Kept(db, db')
  BY <1>2, <1>8, SameKept, KeptTrans DEF From
<1> QED
  BY <1>9, ParallelTakeGood DEF From, Stood

LEMMA CardFrom ==
  ASSUME NEW s, Stood(s), NEW o \in Orders, NEW b \in BOOLEAN
  PROVE  From(s, [s EXCEPT !.card[o] = b])
<1> DEFINE t == [s EXCEPT !.card[o] = b]
<1>1. s \in Rows
  BY DEF Stood, Good
<1>2. t.row = s.row /\ t.online = s.online /\ t.ahead = s.ahead
  BY <1>1 DEF Rows
<1>3. Good(t)
  BY CardGood, GoodRows DEF Stood
<1> HIDE DEF t
<1>4. From(s, t)
  BY <1>2, <1>3, ColumnsFrom
<1> QED
  BY <1>4 DEF t

LEMMA ReservationActionsFrom ==
  ASSUME Stood(db), NEW d \in Drivers, NEW o \in Orders,
         ParallelEta(d, o) \/ ParallelDecline(d, o)
  PROVE  From(db, db')
<1>0. From(db, Begin(d)) /\ Stood(Begin(d))
  BY BeginFrom, FromStood
<1>1. CASE ParallelEta(d, o)
  <2> DEFINE s == Begin(d)
             t == [s EXCEPT !.card[o] = FALSE, !.peta[o] = TRUE]
  <2>1. s \in Rows /\ db' = t
    BY <1>0, <1>1 DEF ParallelEta, Stood, Good
  <2>2. From(db, s) /\ Stood(s)
    BY <1>0
  <2> HIDE DEF s
  <2>3. t.row = s.row /\ t.online = s.online /\ t.ahead = s.ahead
    BY <2>1 DEF Rows
  <2> HIDE DEF t
  <2>4. Good(db')
    BY <1>1, ReservationActions DEF Stood
  <2> QED
    BY <2>1, <2>2, <2>3, <2>4, ColumnsFrom, FromTrans
<1>2. CASE ParallelDecline(d, o)
  <2> DEFINE s == Begin(d)
             c == [s EXCEPT !.card[o] = FALSE]
             t == Release(c, o)
  <2>1. db' \in Promotes(t, t)
    BY <1>2 DEF ParallelDecline
  <2>2. From(db, c) /\ Stood(c)
    BY <1>0, CardFrom, FromTrans, FromStood
  <2> HIDE DEF c
  <2>3. From(db, t) /\ Stood(t)
    BY <2>2, OrdersFrom, FromTrans, FromStood
  <2> HIDE DEF t
  <2> QED
    BY <2>1, <2>3, PromotesFrom, FromTrans
<1> QED
  BY <1>1, <1>2

LEMMA ParallelEtaTimeoutFrom ==
  ASSUME Stood(db), NEW o \in Orders, ParallelEtaTimeout(o)  PROVE From(db, db')
<1> DEFINE c == [db EXCEPT !.card[o] = FALSE]
           t == Release(c, o)
<1>1. db' \in Promotes(t, t)
  BY DEF ParallelEtaTimeout
<1>2. From(db, c) /\ Stood(c)
  BY CardFrom, FromStood
<1> HIDE DEF c
<1>3. From(db, t) /\ Stood(t)
  BY <1>2, OrdersFrom, FromTrans, FromStood
<1> HIDE DEF t
<1> QED
  BY <1>1, <1>3, PromotesFrom, FromTrans

\* The rows that try_promote gets after an answer.
LEMMA ConfirmRows ==
  ASSUME Stood(db), NEW o \in Orders, ConfirmYes(o) \/ ConfirmNo(o)
  PROVE  \E s : Keeps(db, s) /\ SameLine(db, s) /\ db' \in Promotes(db, s)
<1>0. db \in Rows /\ Good(db)
  BY DEF Stood, Good
<1>2. CASE ConfirmYes(o)
  <2> DEFINE y == [db EXCEPT !.confirmed[o] = TRUE, !.pq[o] = "waiting"]
             p == PausePrompts(db, y, o)
             s == ResetCreator(p, o)
  <2>1. y \in Rows
    BY <1>0 DEF Rows
  <2>2. y.status = db.status /\ y.offered = db.offered
        /\ y.driver = db.driver /\ y.parallel = db.parallel
        /\ y.row = db.row /\ y.online = db.online /\ y.ahead = db.ahead
    BY <1>0 DEF Rows
  <2>3. db' \in Promotes(db, s)
    BY <1>2 DEF ConfirmYes
  <2> HIDE DEF y
  <2>4. Good(y) /\ SameLine(db, y)
    BY <1>0, <2>1, <2>2, SameIsGood, GoodRows, SameColumns
  <2>5. Good(p) /\ p.status = y.status /\ p.offered = y.offered /\ SameLine(y, p) /\ p \in Rows
    BY <2>1, <2>4, PausePromptsGood, PauseLine
  <2> HIDE DEF p
  <2>6. Keeps(p, s) /\ SameLine(p, s)
    BY <2>5, ResetCreatorGood, OrdersLine
  <2>7. Fewer(db, p)
    BY <2>2, <2>5 DEF Fewer
  <2> HIDE DEF s
  <2>8. Keeps(db, s) /\ SameLine(db, s)
    BY <2>4, <2>5, <2>6, <2>7, KeepsTransitive, SameLineTrans DEF Keeps
  <2> QED
    BY <2>3, <2>8
<1>3. CASE ConfirmNo(o)
  <2> DEFINE q == Dequeue(db, o)
             s == CloseFor(q, o, "cancelled")
  <2>1. db' \in Promotes(db, s)
    BY <1>3 DEF ConfirmNo
  <2>2. Keeps(db, q) /\ SameLine(db, q) /\ Good(q) /\ q \in Rows
    BY <1>0, DequeueGood, OrdersLine, GoodRows
  <2> HIDE DEF q
  <2>3. Keeps(q, s) /\ SameLine(q, s)
    BY <2>2, CloseForGood, CloseLine DEF Closed
  <2> HIDE DEF s
  <2> QED
    BY <2>1, <2>2, <2>3, KeepsTransitive, SameLineTrans
<1> QED
  BY <1>2, <1>3

LEMMA ConfirmFrom ==
  ASSUME Stood(db), NEW o \in Orders, ConfirmYes(o) \/ ConfirmNo(o)  PROVE From(db, db')
BY ConfirmRows, PromotesUnflushed

LEMMA WaitNoFrom ==
  ASSUME Stood(db), NEW c \in Creators, WaitNo(c)  PROVE From(db, db')
<1> DEFINE o == Newest({o \in Orders : CreatorOf[o] = c /\ db.status[o] = "queued"})
<1>1. o # NONE /\ db' = CloseFor(Dequeue(db, o), o, "cancelled")
  BY DEF WaitNo
<1>2. o \in Orders
  BY <1>1, NewestIn
<1> HIDE DEF o
<1> QED
  BY <1>1, <1>2, OrdersFrom, CloseFrom, FromTrans, FromStood DEF Closed

(***************************************************************************)
(* The theorems about the line                                             *)
(***************************************************************************)
\* A driver falls behind another one only if he was off the line, or away, or goes
\* online himself in this step.
LineStep ==
    /\ InLine(db')
    /\ \A e, f \in Drivers : Before(db', e, f) =>
          \/ Before(db, e, f)
          \/ db.dstat[f] \in {"offline", "away"} \/ ~db.online[f] \/ GoOnline(f)

LEMMA LineSteps == Stood(db) /\ [Next]_db => LineStep
<1> SUFFICES ASSUME Stood(db), [Next]_db PROVE LineStep
  OBVIOUS
<1>1. ASSUME From(db, db') PROVE LineStep
  BY <1>1 DEF From, Kept, LineStep, Before
<1>2. ASSUME NEW d \in Drivers, ClaimedBy(d) PROVE LineStep
  BY <1>2 DEF ClaimedBy, LineStep
<1>3. CASE UNCHANGED db
  BY <1>3 DEF Stood, LineStep, InLine, Before
<1>4. ASSUME NEW d \in Drivers, DriverStep(d) PROVE LineStep
  <2>1. CASE GoOnline(d)
    BY <2>1, GoOnlineLine DEF JoinedBy, LineStep
  <2> QED
    BY <1>1, <1>4, <2>1, LineActionsFrom, RideActionsFrom, CompleteFrom, CancelForClientFrom,
       CancelForCarFrom DEF DriverStep
<1>5. ASSUME NEW d \in Drivers, NEW o \in Orders, DriverOrderStep(d, o) PROVE LineStep
  <2>1. ASSUME NEW reason \in DeclineReasons, Decline(d, o, reason) PROVE From(db, db')
    BY <2>1, DeclineFrom, BehaviourAssumption
  <2> QED
    BY <1>1, <1>2, <1>5, <2>1, AcceptFrom, TakePendingLine, ChatTakeLine, ParallelTakeFrom,
       ReservationActionsFrom DEF DriverOrderStep
<1>6. ASSUME NEW c \in Creators, CreatorStep(c) PROVE LineStep
  BY <1>1, <1>6, DialogueActionsFrom, PassengerCancelFrom, WaitNoFrom DEF CreatorStep
<1>7. ASSUME NEW o \in Orders, OrderStep(o) PROVE LineStep
  BY <1>1, <1>7, CreateActionsFrom, DispCancelFrom, TimeoutActionsFrom, AdminCancelFrom,
     AcceptTimeoutFrom, ParallelEtaTimeoutFrom, ConfirmFrom DEF OrderStep
<1>8. CASE RecoveryWorker
  BY <1>1, <1>8, PromotesFrom DEF RecoveryWorker
<1> QED
  BY <1>3, <1>4, <1>5, <1>6, <1>7, <1>8 DEF Next

LineInv == InLine(db)

LEMMA LineInvariance == Spec => []LineInv
<1>1. Init => LineInv
  BY DEF Init, LineInv, InLine, Before
<1>2. IInv /\ LineInv /\ [Next]_db => LineInv'
  BY LineSteps DEF IInv, LineInv, Stood, LineStep
<1> QED
  BY Invariance, <1>1, <1>2, PTL DEF Spec

\* A driver shown as free on the line has a row in it, so the line serves the driver.
THEOREM FreeDriversStand == Spec => []FreeDriverHasRow
<1>1. LineInv => FreeDriverHasRow
  BY DEF LineInv, InLine, FreeDriverHasRow
<1> QED
  BY LineInvariance, <1>1, PTL

\* Whatever happens to the offers and rides, a driver passes another one in the
\* line only by coming back to it.
THEOREM PlacesStand == Spec => PlaceKept
<1> DEFINE A == \A d, e \in Drivers : <<d, e>> \in db.ahead /\ <<e, d>> \in db'.ahead =>
                  db.dstat[d] \in {"offline", "away"} \/ ~db.online[d] \/ GoOnline(d)
<1>1. IInv /\ LineInv /\ [Next]_db => A
  <2> SUFFICES ASSUME IInv, LineInv, [Next]_db,
                      NEW d \in Drivers, NEW e \in Drivers, Before(db, d, e), Before(db', e, d)
               PROVE  db.dstat[d] \in {"offline", "away"} \/ ~db.online[d] \/ GoOnline(d)
    BY DEF Before
  <2>1. LineStep
    BY LineSteps DEF IInv, LineInv, Stood
  <2>2. ~Before(db, e, d)
    BY DEF LineInv, InLine
  <2> QED
    BY <2>1, <2>2 DEF LineStep
<1>2. PlaceKept <=> [][A]_db
  BY DEF PlaceKept
<1> HIDE DEF A
<1> QED
  BY Invariance, LineInvariance, <1>1, <1>2, PTL DEF Spec

(***************************************************************************)
(* The passenger queue.  An order has its place there exactly while it is  *)
(* queued, nobody has it or is asked about it then, and `pahead' orders    *)
(* the parked orders.                                                      *)
(***************************************************************************)
Place(s, o) ==
    /\ s.status[o] = "queued" <=> s.pq[o] # "none"
    /\ s.pq[o] # "none" => s.driver[o] = NONE /\ s.parallel[o] = NONE
    /\ s.offered[o] # NONE => s.status[o] = "searching"
    /\ s.offered[o] \notin s.declined[o]

Lined(s) ==
    /\ \A o, p \in Orders :
         <<o, p>> \in s.pahead => o # p /\ s.pq[o] # "none" /\ s.pq[p] # "none"
    /\ \A o, p \in Orders :
         o # p /\ s.pq[o] # "none" /\ s.pq[p] # "none"
         => (<<o, p>> \in s.pahead <=> <<p, o>> \notin s.pahead)

Parked(s) == Lined(s) /\ \A o \in Orders : Place(s, o)

\* The other orders are in their places, while a handler is at work on o.
Loose(s, o) == Lined(s) /\ \A p \in Orders \ {o} : Place(s, p)

\* The same orders are parked, in the same order.
SameParked(s, t) ==
    t.pahead = s.pahead /\ \A o \in Orders : t.pq[o] = "none" <=> s.pq[o] = "none"
SameOrder(s, t, o) ==
    /\ t.status[o] = s.status[o] /\ t.offered[o] = s.offered[o] /\ t.declined[o] = s.declined[o]
    /\ t.driver[o] = s.driver[o] /\ t.parallel[o] = s.parallel[o]

\* Nothing of the orders but o changes, nothing of any order.
Aside(s, t, o) == SameParked(s, t) /\ \A p \in Orders \ {o} : SameOrder(s, t, p)
SameOrders(s, t) == SameParked(s, t) /\ \A p \in Orders : SameOrder(s, t, p)

LEMMA LinedSame ==
  ASSUME NEW s, NEW t, Lined(s), SameParked(s, t)  PROVE Lined(t)
BY DEF Lined, SameParked

LEMMA AsideLoose ==
  ASSUME NEW s, NEW t, NEW o, Loose(s, o), Aside(s, t, o)  PROVE Loose(t, o)
BY LinedSame DEF Loose, Aside, Place, SameOrder, SameParked

LEMMA SameOrdersParked ==
  ASSUME NEW s, NEW t, Parked(s), SameOrders(s, t)  PROVE Parked(t)
BY LinedSame DEF Parked, SameOrders, Place, SameOrder, SameParked

LEMMA ParkedLoose ==
  ASSUME NEW s, Parked(s), NEW o  PROVE Loose(s, o)
BY DEF Parked, Loose

LEMMA LooseParked ==
  ASSUME NEW s, NEW o, Loose(s, o), Place(s, o)  PROVE Parked(s)
BY DEF Parked, Loose

LEMMA SameOrdersRefl == ASSUME NEW s PROVE SameOrders(s, s)
BY DEF SameOrders, SameOrder, SameParked

LEMMA SameOrdersTrans ==
  ASSUME NEW r, NEW s, NEW t, SameOrders(r, s), SameOrders(s, t)  PROVE SameOrders(r, t)
BY DEF SameOrders, SameOrder, SameParked

\* The columns that are equal, as a handler leaves them.
SameOrderColumns(s, t) ==
    /\ t.status = s.status /\ t.offered = s.offered /\ t.declined = s.declined
    /\ t.driver = s.driver /\ t.parallel = s.parallel
    /\ t.pq = s.pq /\ t.pahead = s.pahead

LEMMA ColumnsSameOrders ==
  ASSUME NEW s, NEW t, SameOrderColumns(s, t)  PROVE SameOrders(s, t)
BY DEF SameOrderColumns, SameOrders, SameOrder, SameParked

LEMMA DriversPark ==
  ASSUME NEW s \in Rows, NEW d
  PROVE  /\ SameOrders(s, SetAway(s, d)) /\ SameOrders(s, MarkAssigned(s, d))
         /\ SameOrders(s, ReleaseOffer(s, d)) /\ SameOrders(s, RestorePosition(s, d))
         /\ SameOrders(s, [LeaveQueue(s, d) EXCEPT !.online[d] = FALSE])
         /\ SameOrders(s, [JoinQueue(s, d) EXCEPT !.online[d] = TRUE])
         /\ \A temp : SameOrders(s, LeaveTemporary(s, d, temp))
<1>1. SameOrderColumns(s, SetAway(s, d)) /\ SameOrderColumns(s, MarkAssigned(s, d))
  BY DEF SameOrderColumns, SetAway, MarkAssigned, Rows
<1>2. SameOrderColumns(s, ReleaseOffer(s, d)) /\ SameOrderColumns(s, RestorePosition(s, d))
  BY DEF SameOrderColumns, ReleaseOffer, RestorePosition, Rows
<1>3. SameOrderColumns(s, [LeaveQueue(s, d) EXCEPT !.online[d] = FALSE])
  BY DEF SameOrderColumns, LeaveQueue, Rows
<1>4. SameOrderColumns(s, [JoinQueue(s, d) EXCEPT !.online[d] = TRUE])
  BY DEF SameOrderColumns, JoinQueue, Rows
<1>5. \A temp : SameOrders(s, LeaveTemporary(s, d, temp))
  BY <1>3, ColumnsSameOrders, SameOrdersRefl DEF LeaveTemporary
<1> QED
  BY <1>1, <1>2, <1>3, <1>4, <1>5, ColumnsSameOrders

LEMMA CreatorsPark ==
  ASSUME NEW s \in Rows, NEW o
  PROVE  SameOrders(s, ResetCreator(s, o)) /\ SameOrders(s, Follow(s, o))
<1>1. SameOrderColumns(s, ResetCreator(s, o))
  BY DEF SameOrderColumns, ResetCreator, Rows
<1>2. SameOrderColumns(s, [s EXCEPT !.address[CreatorOf[o]] = NONE])
  BY DEF SameOrderColumns, Rows
<1> QED
  BY <1>1, <1>2, ColumnsSameOrders, SameOrdersRefl DEF Follow

LEMMA RepairPark ==
  ASSUME NEW v, NEW s \in Rows  PROVE SameOrders(s, Repair(v, s))
<1>1. SameOrderColumns(s, Repair(v, s))
  BY DEF SameOrderColumns, Repair, Rows
<1> QED
  BY <1>1, ColumnsSameOrders

LEMMA PausePark ==
  ASSUME NEW v, NEW s \in Rows, NEW x  PROVE SameOrders(s, PausePrompts(v, s, x))
<1> DEFINE asked == {o \in Orders : v.pq[o] = "polling" /\ o # x}
           owners == {CreatorOf[o] : o \in asked}
           pq == [o \in Orders |-> IF o \in asked /\ s.pq[o] # "none"
                                   THEN "waiting" ELSE s.pq[o]]
           current == [c \in Creators |-> IF c \in owners THEN NONE ELSE s.current[c]]
           address == [c \in Creators |-> IF c \in owners THEN NONE ELSE s.address[c]]
           t == PausePrompts(v, s, x)
<1>1. t = [s EXCEPT !.pq = pq, !.current = current, !.address = address]
  BY DEF PausePrompts
<1>2. \A o \in Orders : pq[o] = "none" <=> s.pq[o] = "none"
  OBVIOUS
<1> HIDE DEF asked, owners, pq, current, address, t
<1>3. /\ t.pq = pq /\ t.pahead = s.pahead /\ t.status = s.status /\ t.offered = s.offered
      /\ t.declined = s.declined /\ t.driver = s.driver /\ t.parallel = s.parallel
  BY <1>1 DEF Rows
<1>4. SameOrders(s, t)
  BY <1>2, <1>3 DEF SameOrders, SameOrder, SameParked
<1> QED
  BY <1>4 DEF t

\* An order that leaves the queue leaves the others in theirs.
LEMMA DequeueLoose ==
  ASSUME NEW s \in Rows, NEW o \in Orders, Loose(s, o)
  PROVE  /\ Loose(Dequeue(s, o), o) /\ Dequeue(s, o).pq[o] = "none"
         /\ \A p \in Orders : SameOrder(s, Dequeue(s, o), p)
         /\ \A p \in Orders : s.pq[p] = "none" => Dequeue(s, o).pq[p] = "none"
<1> DEFINE t == Dequeue(s, o)
           pahead == {p \in s.pahead : p[1] # o /\ p[2] # o}
<1>1. /\ t.pq = [s.pq EXCEPT ![o] = "none"] /\ t.pahead = pahead
      /\ t.status = s.status /\ t.offered = s.offered
      /\ t.declined = s.declined /\ t.driver = s.driver /\ t.parallel = s.parallel
  BY DEF Dequeue, Rows
<1>2. s.pq \in [Orders -> {"none", "waiting", "polling"}]
  BY DEF Rows
<1>3. \A p, q \in Orders : <<p, q>> \in pahead <=> <<p, q>> \in s.pahead /\ p # o /\ q # o
  OBVIOUS
<1> HIDE DEF t, pahead
<1>4. \A p \in Orders : t.pq[p] = IF p = o THEN "none" ELSE s.pq[p]
  BY <1>1, <1>2
<1>5. \A p, q \in Orders : <<p, q>> \in t.pahead <=> <<p, q>> \in s.pahead /\ p # o /\ q # o
  BY <1>1, <1>3, Zenon
<1>6. Lined(t)
  <2>1. \A p, q \in Orders : <<p, q>> \in t.pahead => p # q /\ t.pq[p] # "none" /\ t.pq[q] # "none"
    BY <1>4, <1>5 DEF Loose, Lined
  <2>2. \A p, q \in Orders : p # q /\ t.pq[p] # "none" /\ t.pq[q] # "none"
                             => (<<p, q>> \in t.pahead <=> <<q, p>> \notin t.pahead)
    BY <1>4, <1>5 DEF Loose, Lined
  <2> QED
    BY <2>1, <2>2 DEF Lined
<1>7. \A p \in Orders \ {o} : Place(t, p)
  BY <1>1, <1>4 DEF Loose, Place
<1>8. Loose(t, o)
  BY <1>6, <1>7 DEF Loose
<1>9. \A p \in Orders : SameOrder(s, t, p)
  BY <1>1 DEF SameOrder
<1> QED
  BY <1>4, <1>8, <1>9 DEF t

LEMMA EnqueueParked ==
  ASSUME NEW s \in Rows, NEW o \in Orders, Loose(s, o), s.pq[o] = "none",
         s.driver[o] = NONE, s.parallel[o] = NONE, s.offered[o] = NONE
  PROVE  Parked(Enqueue(s, o))
<1> DEFINE new == {<<p, o>> : p \in {p \in Orders : s.pq[p] # "none"}}
           t == [s EXCEPT !.pq[o] = "waiting", !.status[o] = "queued", !.pahead = @ \cup new]
<1>1. /\ t.pq = [s.pq EXCEPT ![o] = "waiting"] /\ t.status = [s.status EXCEPT ![o] = "queued"]
      /\ t.pahead = s.pahead \cup new /\ t.offered = s.offered
      /\ t.declined = s.declined /\ t.driver = s.driver /\ t.parallel = s.parallel
  BY DEF Rows
<1>2. s.pq \in [Orders -> {"none", "waiting", "polling"}] /\ s.status \in [Orders -> Statuses]
      /\ s.declined[o] \in SUBSET Drivers
  BY DEF Rows
<1>3. \A p, q \in Orders : <<p, q>> \in new <=> q = o /\ s.pq[p] # "none"
  OBVIOUS
<1> HIDE DEF new, t
<1>4. \A p \in Orders : /\ t.pq[p] = IF p = o THEN "waiting" ELSE s.pq[p]
                        /\ t.status[p] = IF p = o THEN "queued" ELSE s.status[p]
  BY <1>1, <1>2
<1>5. \A p, q \in Orders : <<p, q>> \in t.pahead <=>
                           \/ <<p, q>> \in s.pahead
                           \/ q = o /\ s.pq[p] # "none"
  BY <1>1, <1>3, Zenon
<1>6. \A p \in Orders : <<p, o>> \notin s.pahead /\ <<o, p>> \notin s.pahead
  BY DEF Loose, Lined
<1>7. Lined(t)
  <2>1. \A p, q \in Orders : <<p, q>> \in t.pahead => p # q /\ t.pq[p] # "none" /\ t.pq[q] # "none"
    BY <1>4, <1>5 DEF Loose, Lined
  <2>2. \A p, q \in Orders : p # q /\ t.pq[p] # "none" /\ t.pq[q] # "none"
                             => (<<p, q>> \in t.pahead <=> <<q, p>> \notin t.pahead)
    BY <1>4, <1>5, <1>6 DEF Loose, Lined
  <2> QED
    BY <2>1, <2>2 DEF Lined
<1>8. \A p \in Orders \ {o} : Place(t, p)
  BY <1>1, <1>4 DEF Loose, Place
<1>9. Place(t, o)
  BY <1>1, <1>2, <1>4, NoneAssumption DEF Place
<1>10. Parked(t)
  BY <1>7, <1>8, <1>9 DEF Parked
<1> QED
  BY <1>10 DEF Enqueue, t, new

LEMMA OfferParked ==
  ASSUME NEW s \in Rows, NEW o \in Orders, Loose(s, o), s.pq[o] = "none",
         NEW d \in Drivers, d \notin s.declined[o]
  PROVE  Parked(Offer(s, o, d))
<1> DEFINE c == CreatorOf[o]
           t == [s EXCEPT !.status[o] = "searching", !.offered[o] = d, !.card[o] = TRUE,
                          !.current[c] = d, !.row[d] = "offered"]
<1>1. c \in Creators /\ "searching" \in Statuses
  BY DEF Creators, Statuses, Pending
<1> HIDE DEF c
<1>2. t \in Rows
  BY <1>1 DEF Rows
<1>3. /\ t.status = [s.status EXCEPT ![o] = "searching"]
      /\ t.offered = [s.offered EXCEPT ![o] = d]
      /\ s.status \in [Orders -> Statuses] /\ s.offered \in [Orders -> Drivers \cup {NONE}]
      /\ t.declined = s.declined /\ t.driver = s.driver /\ t.parallel = s.parallel
      /\ t.pq = s.pq /\ t.pahead = s.pahead
  BY DEF Rows
<1> HIDE DEF t
<1>4. Aside(s, t, o)
  BY <1>3 DEF Aside, SameParked, SameOrder
<1>5. Place(t, o)
  BY <1>3 DEF Place
<1>6. Parked(t)
  BY <1>4, <1>5, AsideLoose, LooseParked
<1>7. Parked(PausePrompts(t, t, o))
  BY <1>2, <1>6, PausePark, SameOrdersParked
<1> QED
  BY <1>7 DEF Offer, t, c

LEMMA NoDriverParked ==
  ASSUME NEW s \in Rows, NEW o \in Orders, Loose(s, o), s.pq[o] = "none",
         s.driver[o] = NONE, s.parallel[o] = NONE, s.offered[o] = NONE
  PROVE  Parked(NoDriver(s, o))
<1> DEFINE t == [s EXCEPT !.status[o] = "no_drivers"]
           u == [t EXCEPT !.status[o] = "chat_search", !.chatcard[o] = TRUE]
<1>1. "no_drivers" \in Statuses
  BY DEF Statuses, Pending, Candidate
<1>2. t \in Rows
  BY <1>1 DEF Rows
<1>3. /\ t.status = [s.status EXCEPT ![o] = "no_drivers"] /\ s.status \in [Orders -> Statuses]
      /\ t.offered = s.offered /\ t.declined = s.declined /\ t.driver = s.driver
      /\ t.parallel = s.parallel /\ t.pq = s.pq /\ t.pahead = s.pahead
      /\ s.declined[o] \in SUBSET Drivers
  BY DEF Rows
<1> HIDE DEF t
<1>4. Loose(t, o)
  BY <1>3, AsideLoose DEF Aside, SameParked, SameOrder
<1>5. Parked(t)
  BY <1>3, <1>4, LooseParked, NoneAssumption DEF Place
<1>6. /\ u.status = [t.status EXCEPT ![o] = "chat_search"] /\ t.status \in [Orders -> Statuses]
      /\ u.offered = t.offered /\ u.declined = t.declined /\ u.driver = t.driver
      /\ u.parallel = t.parallel /\ u.pq = t.pq /\ u.pahead = t.pahead
  BY <1>2 DEF Rows
<1> HIDE DEF u
<1>7. Loose(u, o)
  BY <1>4, <1>6, AsideLoose DEF Aside, SameParked, SameOrder
<1>8. Parked(u)
  BY <1>3, <1>6, <1>7, LooseParked, NoneAssumption DEF Place
<1>9. Parked(Enqueue(t, o))
  BY <1>2, <1>3, <1>4, EnqueueParked
<1> QED
  BY <1>5, <1>8, <1>9 DEF NoDriver, t, u

LEMMA OfferNextParked ==
  ASSUME NEW s, Good(s), Parked(s), NEW o \in Orders, s.pq[o] = "none", NEW excluded
  PROVE  Parked(OfferNext(s, o, excluded))
<1>1. CASE ~Dispatchable(s, o)
  BY <1>1 DEF OfferNext
<1>2. CASE Dispatchable(s, o)
  <2> DEFINE r == Repair(s, s)
             d == NextWaiting(r, excluded \cup r.declined[o])
             e == NextWaiting(r, r.declined[o])
  <2>1. s \in Rows
    BY DEF Good
  <2>2. s.driver[o] = NONE /\ s.parallel[o] = NONE /\ s.offered[o] = NONE
    BY <1>2 DEF Dispatchable, Parked, Place
  <2>3. r \in Rows /\ SameOrders(s, r)
    BY <2>1, RepairGood, RepairPark DEF Good
  <2> HIDE DEF r
  <2>4. Loose(r, o) /\ r.pq[o] = "none"
    BY <2>3, SameOrdersParked, ParkedLoose DEF SameOrders, SameParked
  <2>5. r.driver[o] = NONE /\ r.parallel[o] = NONE /\ r.offered[o] = NONE
    BY <2>2, <2>3 DEF SameOrders, SameOrder
  <2>6. ASSUME d # NONE PROVE Parked(Offer(r, o, d))
    BY <2>3, <2>4, <2>6, NextWaitingOn, OfferParked
  <2>7. ASSUME e # NONE PROVE Parked(Offer(r, o, e))
    BY <2>3, <2>4, <2>7, NextWaitingOn, OfferParked
  <2>8. Parked(NoDriver(r, o))
    BY <2>3, <2>4, <2>5, NoDriverParked
  <2>9. OfferNext(s, o, excluded) = IF d # NONE THEN Offer(r, o, d)
                                    ELSE IF e # NONE THEN Offer(r, o, e) ELSE NoDriver(r, o)
    BY <1>2 DEF OfferNext, r
  <2> QED
    BY <2>6, <2>7, <2>8, <2>9
<1> QED
  BY <1>1, <1>2

(***************************************************************************)
(* try_promote keeps the queue, whatever rows it has read                  *)
(***************************************************************************)
LEMMA ServedParked ==
  ASSUME NEW v, NEW s, Good(s), Parked(s), NEW o \in Orders,
         NextWaiting(v, s.declined[o]) # NONE
  PROVE  Parked(Served(v, s, o))
<1> DEFINE d == NextWaiting(v, s.declined[o])
           q == Dequeue(s, o)
           t == Offer(q, o, d)
           u == ResetCreator(t, o)
<1>1. d \in Drivers /\ d \notin s.declined[o]
  BY NextWaitingOn
<1> HIDE DEF d
<1>2. q \in Rows /\ Loose(q, o) /\ q.pq[o] = "none" /\ q.declined[o] = s.declined[o]
  BY ParkedLoose, DequeueGood, DequeueLoose, GoodRows DEF Good, SameOrder
<1> HIDE DEF q
<1>3. Parked(t)
  BY <1>1, <1>2, OfferParked
<1>4. Parked(u)
  <2>1. SameOrderColumns(t, u)
    BY <1>2, Zenon DEF SameOrderColumns, ResetCreator, Offer, PausePrompts, Rows
  <2> QED
    BY <1>3, <2>1, ColumnsSameOrders, SameOrdersParked
<1> QED
  BY <1>3, <1>4 DEF Served, d, q, t, u

LEMMA ScanParked ==
  ASSUME NEW list, NEW v, NEW s, Good(s), Parked(s), NEW t \in Scan(list, v, s)
  PROVE  Parked(t)
<1>1. CASE t = s
  BY <1>1
<1>2. CASE t # s
  <2>1. PICK o \in Servable(list, v, s) : t \in Outcomes(v, s, o)
    BY <1>2 DEF Scan
  <2>2. o \in Orders /\ NextWaiting(v, s.declined[o]) # NONE
    BY <2>1 DEF Servable
  <2>3. \/ t = Asked(s, o) /\ s.pq[o] = "waiting"
        \/ t = Served(v, s, o)
    BY <1>2, <2>1 DEF Outcomes
  <2>4. CASE t = Asked(s, o) /\ s.pq[o] = "waiting"
    <3>1. s \in Rows
      BY DEF Good
    <3>2. /\ t.pq = [s.pq EXCEPT ![o] = "polling"] /\ t.pahead = s.pahead
          /\ t.status = s.status /\ t.offered = s.offered
          /\ t.declined = s.declined /\ t.driver = s.driver /\ t.parallel = s.parallel
          /\ o \in DOMAIN s.pq
      BY <2>2, <2>4, <3>1 DEF Asked, Rows
    <3>3. SameOrders(s, t)
      BY <2>4, <3>2 DEF SameOrders, SameOrder, SameParked
    <3> QED
      BY <3>3, SameOrdersParked
  <2> QED
    BY <2>2, <2>3, <2>4, ServedParked
<1> QED
  BY <1>1, <1>2

LEMMA PromotesParked ==
  ASSUME NEW v, NEW s, v \in Rows, Good(s), Parked(s), NEW t \in Promotes(v, s)
  PROVE  Parked(t)
<1> DEFINE r == Repair(v, s)
           w == IF r = s THEN v ELSE r
           p == PausePrompts(w, r, NONE)
<1>1. Good(r) /\ r \in Rows /\ Parked(r)
  BY RepairGood, RepairPark, SameOrdersParked DEF Good
<1>2. t \in {s, r} \cup Scan(v, w, r) \cup Scan(w, w, p)
  BY DEF Promotes
<1> HIDE DEF r, w
<1>3. Good(p) /\ Parked(p)
  BY <1>1, PausePromptsGood, PausePark, SameOrdersParked
<1> HIDE DEF p
<1> QED
  BY <1>1, <1>2, <1>3, ScanParked

(***************************************************************************)
(* Rides, reservations and closed orders                                   *)
(***************************************************************************)
LEMMA PromoteAfterParked ==
  ASSUME NEW v, NEW s \in Rows, NEW d \in Drivers, Parked(s), Reserved(v, d) # NONE,
         s.pq[Reserved(v, d)] = "none", s.offered[Reserved(v, d)] = NONE
  PROVE  Parked(PromoteAfter(v, s, d))
<1> DEFINE o == Reserved(v, d)
           t == PromoteAfter(v, s, d)
<1>1. o \in Orders
  BY ReservedIn
<1>2. t = [s EXCEPT !.status[o] = "assigned", !.driver[o] = d, !.parallel[o] = NONE,
                    !.peta[o] = FALSE]
  BY DEF PromoteAfter
<1> HIDE DEF o, t
<1>3. /\ t.status = [s.status EXCEPT ![o] = "assigned"] /\ s.status \in [Orders -> Statuses]
      /\ t.driver = [s.driver EXCEPT ![o] = d] /\ t.parallel = [s.parallel EXCEPT ![o] = NONE]
      /\ s.driver \in [Orders -> Drivers \cup {NONE}]
      /\ s.parallel \in [Orders -> Drivers \cup {NONE}]
      /\ t.offered = s.offered /\ t.declined = s.declined /\ t.pq = s.pq /\ t.pahead = s.pahead
  BY <1>1, <1>2 DEF Rows
<1>4. Loose(t, o)
  BY <1>1, <1>3, ParkedLoose, AsideLoose DEF Aside, SameParked, SameOrder
<1>5. Place(t, o)
  BY <1>1, <1>3 DEF Place, Parked, o
<1> QED
  BY <1>4, <1>5, LooseParked DEF t

LEMMA ReleaseParked ==
  ASSUME NEW s, Good(s), Parked(s), NEW o \in Orders, s.offered[o] = NONE
  PROVE  Parked(Release(s, o))
<1> DEFINE q == [s EXCEPT !.parallel[o] = NONE, !.peta[o] = FALSE, !.driver[o] = NONE,
                          !.status[o] = "queued"]
           e == Enqueue(q, o)
           t == [e EXCEPT !.pq[o] = "waiting"]
<1>1. s \in Rows /\ "queued" \in Statuses
  BY DEF Good, Statuses, Pending, Candidate
<1>2. q \in Rows
  BY <1>1, ZenonT(40) DEF Rows
<1>3. /\ q.status = [s.status EXCEPT ![o] = "queued"] /\ q.driver = [s.driver EXCEPT ![o] = NONE]
      /\ q.parallel = [s.parallel EXCEPT ![o] = NONE]
      /\ s.status \in [Orders -> Statuses] /\ s.driver \in [Orders -> Drivers \cup {NONE}]
      /\ s.parallel \in [Orders -> Drivers \cup {NONE}]
      /\ q.offered = s.offered /\ q.declined = s.declined /\ q.pq = s.pq /\ q.pahead = s.pahead
  BY <1>1 DEF Rows
<1> HIDE DEF q
<1>4. Loose(q, o)
  BY <1>3, ParkedLoose, AsideLoose DEF Aside, SameParked, SameOrder
<1>5. Parked(e) /\ e.pq[o] # "none"
  <2>1. CASE s.pq[o] = "none"
    <3>1. Parked(e)
      BY <1>2, <1>3, <1>4, <2>1, EnqueueParked
    <3>2. e.pq = [q.pq EXCEPT ![o] = "waiting"] /\ o \in DOMAIN q.pq
      BY <1>2, <1>3, <2>1 DEF Enqueue, Rows
    <3> HIDE DEF e
    <3> QED
      BY <3>1, <3>2
  <2>2. CASE s.pq[o] # "none"
    <3>1. e = q
      BY <1>3, <2>2 DEF Enqueue
    <3>2. Place(q, o)
      BY <1>3, <2>2 DEF Place, Parked
    <3> QED
      BY <1>3, <1>4, <2>2, <3>1, <3>2, LooseParked
  <2> QED
    BY <2>1, <2>2
<1>6. DOMAIN e = DOMAIN q /\ DOMAIN e.pq = Orders
  BY <1>2 DEF Enqueue, Rows
<1> HIDE DEF e
<1>7. /\ t.pq = [e.pq EXCEPT ![o] = "waiting"] /\ t.pahead = e.pahead
      /\ t.status = e.status /\ t.offered = e.offered
      /\ t.declined = e.declined /\ t.driver = e.driver /\ t.parallel = e.parallel
  BY <1>2, <1>6 DEF Rows
<1> HIDE DEF t
<1>8. SameOrders(e, t)
  BY <1>5, <1>6, <1>7 DEF SameOrders, SameOrder, SameParked
<1>9. Parked(t)
  BY <1>5, <1>8, SameOrdersParked
<1> QED
  BY <1>9 DEF Release, q, e, t

\* An order that is not queued and not offered is in its place off the queue.
LEMMA OffQueue ==
  ASSUME NEW s \in Rows, NEW o \in Orders, s.pq[o] = "none", s.status[o] # "queued",
         s.offered[o] = NONE
  PROVE  Place(s, o)
<1>1. s.declined[o] \in SUBSET Drivers
  BY DEF Rows
<1> QED
  BY <1>1, NoneAssumption DEF Place

\* Of a closed order the columns of the search and of the ride are cleared; its
\* offer is not.
LEMMA CloseAside ==
  ASSUME NEW s \in Rows, NEW o \in Orders, NEW status \in Closed,
         NEW t \in {Close(s, o, status), CloseFor(s, o, status)}
  PROVE  /\ Aside(s, t, o) /\ t.pq = s.pq /\ t.offered = s.offered /\ t.parallel = s.parallel
         /\ t.status[o] = status
<1> DEFINE f == ForgetSearch(s, o)
           g == ForgetRide(f, o)
           c == [g EXCEPT !.status[o] = status, !.driver[o] = NONE]
           r == ResetCreator(c, o)
           Alike(x, y) == /\ x.pq = y.pq /\ x.pahead = y.pahead /\ x.offered = y.offered
                          /\ x.parallel = y.parallel /\ DOMAIN x = DOMAIN y
<1>1. Alike(f, s) /\ f.status = s.status /\ f.driver = s.driver
      /\ f.declined = [s.declined EXCEPT ![o] = {}]
  BY DEF ForgetSearch, Rows
<1>2. Alike(g, f) /\ g.status = f.status /\ g.driver = f.driver /\ g.declined = f.declined
  BY <1>1 DEF ForgetRide, Rows
<1> HIDE DEF f, g
<1>3. Alike(c, g) /\ c.status = [g.status EXCEPT ![o] = status]
      /\ c.driver = [g.driver EXCEPT ![o] = NONE] /\ c.declined = g.declined
  BY <1>1, <1>2 DEF Rows
<1> HIDE DEF c
<1>4. Alike(r, c) /\ r.status = c.status /\ r.driver = c.driver /\ r.declined = c.declined
  BY <1>1, <1>2, <1>3 DEF ResetCreator, Rows
<1> HIDE DEF r
<1>5. DOMAIN s.status = Orders /\ DOMAIN s.driver = Orders /\ DOMAIN s.declined = Orders
  BY DEF Rows
<1>6. ASSUME NEW x \in {c, r}
      PROVE  /\ Aside(s, x, o) /\ x.pq = s.pq /\ x.offered = s.offered /\ x.parallel = s.parallel
             /\ x.status[o] = status
  <2>1. Alike(x, s) /\ x.status = [s.status EXCEPT ![o] = status]
        /\ x.driver = [s.driver EXCEPT ![o] = NONE] /\ x.declined = [s.declined EXCEPT ![o] = {}]
    BY <1>1, <1>2, <1>3, <1>4, <1>6
  <2> QED
    BY <1>5, <2>1 DEF Aside, SameParked, SameOrder
<1>7. t \in {c, r}
  BY DEF Close, CloseFor, f, g, c, r
<1> QED
  BY <1>6, <1>7

LEMMA CloseParked ==
  ASSUME NEW s, Good(s), NEW o \in Orders, Loose(s, o), s.pq[o] = "none", s.offered[o] = NONE,
         NEW status \in Closed
  PROVE  Parked(Close(s, o, status)) /\ Parked(CloseFor(s, o, status))
<1>1. s \in Rows
  BY DEF Good
<1>2. ASSUME NEW t \in {Close(s, o, status), CloseFor(s, o, status)} PROVE Parked(t)
  <2>1. /\ Aside(s, t, o) /\ t.pq = s.pq /\ t.offered = s.offered /\ t.status[o] = status
    BY <1>1, <1>2, CloseAside
  <2>2. t \in Rows
    BY <1>2, CloseGood, CloseForGood, GoodRows
  <2>3. Place(t, o)
    BY <2>1, <2>2, OffQueue DEF Closed
  <2> QED
    BY <2>1, <2>3, AsideLoose, LooseParked
<1> QED
  BY <1>2

\* A cancelled order leaves the queue; its offer is still to be cleared.
LEMMA CancelledLoose ==
  ASSUME NEW s, Good(s), NEW o \in Orders, Loose(s, o),
         NEW t \in {Dequeue(Close(s, o, "cancelled"), o), Dequeue(CloseFor(s, o, "cancelled"), o)}
  PROVE  /\ Loose(t, o) /\ t.pq[o] = "none" /\ t.status[o] = "cancelled" /\ t \in Rows
         /\ \A p \in Orders : /\ t.offered[p] = s.offered[p]
                              /\ s.pq[p] = "none" => t.pq[p] = "none"
<1>1. s \in Rows
  BY DEF Good
<1>2. PICK c \in {Close(s, o, "cancelled"), CloseFor(s, o, "cancelled")} : t = Dequeue(c, o)
  OBVIOUS
<1>3. c \in Rows /\ Aside(s, c, o) /\ c.pq = s.pq /\ c.offered = s.offered
      /\ c.status[o] = "cancelled"
  BY <1>1, CloseAside, CloseGood, CloseForGood, GoodRows, SMTT(30) DEF Closed
<1>4. Loose(c, o)
  BY <1>3, AsideLoose
<1>5. t \in Rows
  BY <1>2, ClosedDequeued, GoodRows
<1>6. /\ Loose(t, o) /\ t.pq[o] = "none" /\ \A p \in Orders : SameOrder(c, t, p)
      /\ \A p \in Orders : c.pq[p] = "none" => t.pq[p] = "none"
  BY <1>2, <1>3, <1>4, DequeueLoose
<1> QED
  BY <1>3, <1>5, <1>6 DEF SameOrder

LEMMA CancelledParked ==
  ASSUME NEW s, Good(s), NEW o \in Orders, Loose(s, o), s.offered[o] = NONE
  PROVE  /\ Parked(Dequeue(Close(s, o, "cancelled"), o))
         /\ Parked(Dequeue(CloseFor(s, o, "cancelled"), o))
BY CancelledLoose, OffQueue, LooseParked

(***************************************************************************)
(* What a driver's message does before its handler, and claims             *)
(***************************************************************************)
LEMMA AdoptParked ==
  ASSUME NEW s \in Rows, Parked(s), NEW d \in Drivers  PROVE Parked(Adopt(s, d))
<1> DEFINE legacy == Newest({o \in Orders : /\ s.parallel[o] = d /\ s.driver[o] = NONE
                                           /\ s.status[o] \in Riding})
           a == [s EXCEPT !.driver[legacy] = d]
           t == IF legacy # NONE /\ ActiveRide(s, d) = NONE THEN a ELSE s
           ride == ActiveRide(t, d)
           u == [t EXCEPT !.parallel[ride] = NONE, !.peta[ride] = FALSE]
<1>1. legacy # NONE => legacy \in Orders /\ s.status[legacy] \in Riding
  BY NewestIn
<1> HIDE DEF legacy
<1>2. ASSUME legacy # NONE PROVE Parked(a) /\ a \in Rows
  <2>1. legacy \in Orders /\ s.status[legacy] \in Riding
    BY <1>1, <1>2
  <2>2. a \in Rows
    BY <2>1 DEF Rows
  <2>3. /\ a.driver = [s.driver EXCEPT ![legacy] = d] /\ a.status = s.status
        /\ s.driver \in [Orders -> Drivers \cup {NONE}]
        /\ a.offered = s.offered /\ a.declined = s.declined /\ a.parallel = s.parallel
        /\ a.pq = s.pq /\ a.pahead = s.pahead
    BY DEF Rows
  <2> HIDE DEF a
  <2>4. Loose(a, legacy)
    BY <2>3, ParkedLoose, AsideLoose DEF Aside, SameParked, SameOrder
  <2>5. Place(a, legacy)
    BY <2>1, <2>3 DEF Place, Parked, Riding
  <2> QED
    BY <2>2, <2>4, <2>5, LooseParked
<1> HIDE DEF a
<1>3. Parked(t) /\ t \in Rows
  BY <1>2
<1>4. ride # NONE => ride \in Orders
  BY ActiveRideIn
<1> HIDE DEF t, ride
<1>5. ASSUME ride # NONE PROVE Parked(u)
  <2>1. ride \in Orders
    BY <1>4, <1>5
  <2>2. /\ u.parallel = [t.parallel EXCEPT ![ride] = NONE] /\ u.status = t.status
        /\ u.offered = t.offered /\ u.declined = t.declined /\ u.driver = t.driver
        /\ u.pq = t.pq /\ u.pahead = t.pahead /\ t.parallel \in [Orders -> Drivers \cup {NONE}]
    BY <1>3 DEF Rows
  <2> HIDE DEF u
  <2>3. Loose(u, ride)
    BY <1>3, <2>2, ParkedLoose, AsideLoose DEF Aside, SameParked, SameOrder
  <2>4. Place(u, ride)
    BY <1>3, <2>1, <2>2 DEF Place, Parked
  <2> QED
    BY <2>3, <2>4, LooseParked
<1>6. Adopt(s, d) = IF ride # NONE /\ t.parallel[ride] = d THEN u ELSE t
  BY DEF Adopt, ride, t, a, legacy
<1> HIDE DEF u
<1> QED
  BY <1>3, <1>5, <1>6

LEMMA ReleaseStaleParked ==
  ASSUME NEW s, Good(s), Parked(s), NEW d \in Drivers  PROVE Parked(ReleaseStale(s, d))
<1> DEFINE o == PendingOffer(s, d)
           t == [s EXCEPT !.offered[o] = NONE, !.status[o] = "created", !.card[o] = FALSE]
           m == MarkAssigned(t, d)
<1>1. CASE o = NONE
  BY <1>1 DEF ReleaseStale
<1>2. CASE o # NONE
  <2>1. s \in Rows /\ o \in Orders /\ "created" \in Statuses /\ s.status[o] = "searching"
    BY <1>2, PendingOfferIn, StatusValues DEF Good
  <2> HIDE DEF o
  <2>2. t \in Rows
    BY <2>1 DEF Rows
  <2>3. /\ t.driver = s.driver /\ t.parallel = s.parallel /\ t.declined = s.declined
        /\ t.pq = s.pq /\ t.pahead = s.pahead /\ t.offered[o] = NONE /\ t.status[o] = "created"
        /\ \A p \in Orders \ {o} : t.status[p] = s.status[p] /\ t.offered[p] = s.offered[p]
    BY <2>1 DEF Rows
  <2> HIDE DEF t
  <2>4. Good(t)
    BY <2>1, <2>2, <2>3, OneOrderKeeps DEF Keeps
  <2>5. t.pq[o] = "none"
    BY <2>1, <2>3 DEF Parked, Place
  <2>6. Loose(t, o)
    BY <2>3, ParkedLoose, AsideLoose DEF Aside, SameParked, SameOrder
  <2>7. Parked(t)
    BY <2>1, <2>2, <2>3, <2>5, <2>6, OffQueue, LooseParked
  <2>8. Good(m) /\ SameOrders(t, m)
    BY <2>2, <2>4, MarkAssignedGood, DriversPark DEF Keeps
  <2> HIDE DEF m
  <2>9. Parked(m) /\ m.pq[o] = "none"
    BY <2>1, <2>5, <2>7, <2>8, SameOrdersParked DEF SameOrders, SameParked
  <2>10. Parked(OfferNext(m, o, {d}))
    BY <2>1, <2>8, <2>9, OfferNextParked
  <2> QED
    BY <2>10 DEF ReleaseStale, o, t, m
<1> QED
  BY <1>1, <1>2

LEMMA BeginParked ==
  ASSUME Good(db), Parked(db), NEW d \in Drivers  PROVE Parked(Begin(d))
<1>1. Good(Adopt(db, d)) /\ Parked(Adopt(db, d))
  BY AdoptKeeps, AdoptParked DEF Keeps, Good
<1> QED
  BY <1>1, ReleaseStaleParked DEF Begin

LEMMA ClaimParked ==
  ASSUME NEW s, Good(s), Parked(s), NEW d \in Drivers, NEW o \in Orders, NEW back
  PROVE  /\ Parked(Claim(s, d, o, back))
         /\ \A p \in Orders : s.pq[p] = "none" => Claim(s, d, o, back).pq[p] = "none"
         /\ Claim(s, d, o, back).pq[o] = "none"
<1> DEFINE j == IF back THEN [JoinQueue(s, d) EXCEPT !.online[d] = TRUE] ELSE s
           q == Dequeue(j, o)
           t == [q EXCEPT !.offered[o] = NONE, !.driver[o] = d, !.status[o] = "assigned",
                          !.deadline[o] = FALSE]
           m == MarkAssigned(t, d)
<1>0. Claim(s, d, o, back) = m
  BY DEF Claim
<1>1. Keeps(s, s) /\ s \in Rows
  BY SameIsGood DEF Good
<1>2. Good(j) /\ j \in Rows /\ SameOrders(s, j)
  BY <1>1, JoinLineKeeps, DriversPark, SameOrdersRefl, GoodRows
<1> HIDE DEF j
<1>3. Loose(j, o)
  BY <1>2, SameOrdersParked, ParkedLoose
<1>4. q \in Rows /\ Loose(q, o) /\ q.pq[o] = "none"
      /\ \A p \in Orders : j.pq[p] = "none" => q.pq[p] = "none"
  BY <1>2, <1>3, DequeueGood, DequeueLoose, GoodRows
<1> HIDE DEF q
<1>5. t \in Rows
  BY <1>4, StatusValues DEF Rows
<1>6. /\ t.parallel = q.parallel /\ t.offered[o] = NONE /\ t.status[o] = "assigned"
      /\ t.declined = q.declined /\ t.pq = q.pq /\ t.pahead = q.pahead
      /\ \A p \in Orders \ {o} : /\ t.status[p] = q.status[p] /\ t.offered[p] = q.offered[p]
                                /\ t.driver[p] = q.driver[p]
  BY <1>4 DEF Rows
<1> HIDE DEF t
<1>7. Aside(q, t, o)
  BY <1>6 DEF Aside, SameParked, SameOrder
<1>8. Parked(t)
  BY <1>4, <1>5, <1>6, <1>7, AsideLoose, OffQueue, LooseParked
<1>9. SameOrders(t, m)
  BY <1>5, DriversPark
<1> HIDE DEF m
<1>10. Parked(m) /\ \A p \in Orders : t.pq[p] = "none" => m.pq[p] = "none"
  BY <1>8, <1>9, SameOrdersParked DEF SameOrders, SameParked
<1>11. \A p \in Orders : s.pq[p] = "none" => j.pq[p] = "none"
  BY <1>2 DEF SameOrders, SameParked
<1> QED
  BY <1>0, <1>4, <1>6, <1>10, <1>11

LEMMA TakenParked ==
  ASSUME NEW s, Good(s), Parked(s), NEW d \in Drivers, NEW o \in Orders,
         NEW other \in Orders \cup {NONE}, other # NONE => s.pq[other] = "none"
  PROVE  Parked(Taken(s, d, o, other))
<1> DEFINE temp == ~s.online[d]
           back == temp \/ s.dstat[d] = "away"
           c == Claim(s, d, o, back)
           t == [c EXCEPT !.temp[o] = temp, !.card[o] = TRUE]
           n == OfferNext(t, other, {})
<1>1. Good(c) /\ c \in Rows /\ Parked(c) /\ (other # NONE => c.pq[other] = "none")
  BY ClaimKeeps, ClaimParked, GoodRows
<1>2. temp \in BOOLEAN
  OBVIOUS
<1>3. Taken(s, d, o, other) = IF other = NONE THEN t ELSE n
  BY DEF Taken
<1> HIDE DEF temp, back, c
<1>4. t \in Rows
  BY <1>1, <1>2 DEF Rows
<1>5. /\ t.status = c.status /\ t.offered = c.offered /\ t.driver = c.driver
      /\ t.parallel = c.parallel
  BY <1>1 DEF Rows
<1>6. SameOrderColumns(c, t)
  BY <1>1 DEF SameOrderColumns, Rows
<1>7. t.pq = c.pq
  BY <1>6 DEF SameOrderColumns
<1> HIDE DEF t
<1>8. Good(t) /\ Parked(t)
  BY <1>1, <1>4, <1>5, <1>6, SameIsGood, ColumnsSameOrders, SameOrdersParked DEF Keeps
<1>9. ASSUME other # NONE PROVE Parked(n)
  BY <1>1, <1>7, <1>8, <1>9, OfferNextParked
<1> HIDE DEF n
<1> QED
  BY <1>3, <1>8, <1>9

(***************************************************************************)
(* The actions keep the queue                                              *)
(***************************************************************************)
Queued(s) == Good(s) /\ Parked(s)

LEMMA QueuedRows == ASSUME NEW s, Queued(s) PROVE Good(s) /\ Parked(s) /\ s \in Rows
BY DEF Queued, Good

LEMMA DriversQueued ==
  ASSUME NEW s, Queued(s), NEW d \in Drivers
  PROVE  /\ Queued(SetAway(s, d)) /\ Queued(MarkAssigned(s, d))
         /\ Queued(ReleaseOffer(s, d)) /\ Queued(RestorePosition(s, d))
         /\ Queued([LeaveQueue(s, d) EXCEPT !.online[d] = FALSE])
         /\ Queued([JoinQueue(s, d) EXCEPT !.online[d] = TRUE])
         /\ \A temp : Queued(LeaveTemporary(s, d, temp))
<1>1. Good(s) /\ Parked(s) /\ s \in Rows
  BY QueuedRows
<1>2. Queued(SetAway(s, d)) /\ Queued(MarkAssigned(s, d))
  BY <1>1, SetAwayGood, MarkAssignedGood, DriversPark, SameOrdersParked, GoodRows DEF Queued
<1>3. Queued(ReleaseOffer(s, d)) /\ Queued(RestorePosition(s, d))
  BY <1>1, ReleaseOfferGood, RestorePositionGood, DriversPark, SameOrdersParked, GoodRows
     DEF Queued
<1>4. Queued([LeaveQueue(s, d) EXCEPT !.online[d] = FALSE])
  BY <1>1, LeaveLineKeeps, DriversPark, SameOrdersParked, GoodRows DEF Queued
<1>5. Queued([JoinQueue(s, d) EXCEPT !.online[d] = TRUE])
  BY <1>1, JoinLineKeeps, DriversPark, SameOrdersParked, GoodRows DEF Queued
<1>6. ASSUME NEW temp PROVE Queued(LeaveTemporary(s, d, temp))
  BY <1>1, LeaveTemporaryKeeps, DriversPark, SameOrdersParked, GoodRows DEF Queued
<1> QED
  BY <1>2, <1>3, <1>4, <1>5, <1>6

LEMMA OrdersQueued ==
  ASSUME NEW s, Queued(s), NEW o \in Orders
  PROVE  /\ Queued(ResetCreator(s, o)) /\ Queued(Follow(s, o))
         /\ s.offered[o] = NONE => Queued(Release(s, o))
         /\ s.pq[o] = "none" => \A excluded : Queued(OfferNext(s, o, excluded))
<1>1. Good(s) /\ Parked(s) /\ s \in Rows
  BY QueuedRows
<1>2. Queued(ResetCreator(s, o)) /\ Queued(Follow(s, o))
  BY <1>1, ResetCreatorGood, FollowGood, CreatorsPark, SameOrdersParked, GoodRows DEF Queued
<1>3. s.offered[o] = NONE => Queued(Release(s, o))
  BY <1>1, ReleaseGood, ReleaseParked, GoodRows DEF Queued
<1>4. ASSUME s.pq[o] = "none", NEW excluded PROVE Queued(OfferNext(s, o, excluded))
  BY <1>1, <1>4, OfferNextGood, OfferNextParked DEF Queued
<1> QED
  BY <1>2, <1>3, <1>4

LEMMA ColumnsQueued ==
  ASSUME NEW s, NEW t, Queued(s), t \in Rows, SameOrderColumns(s, t)  PROVE Queued(t)
BY SameIsGood, ColumnsSameOrders, SameOrdersParked, GoodRows DEF Queued, SameOrderColumns

LEMMA CancelledQueued ==
  ASSUME NEW s, Queued(s), NEW o \in Orders, s.offered[o] = NONE
  PROVE  /\ Queued(Dequeue(Close(s, o, "cancelled"), o))
         /\ Queued(Dequeue(CloseFor(s, o, "cancelled"), o))
BY ClosedDequeued, CancelledParked, ParkedLoose, GoodRows DEF Queued

LEMMA CloseQueued ==
  ASSUME NEW s, Queued(s), NEW o \in Orders, s.pq[o] = "none", s.offered[o] = NONE,
         NEW status \in Closed
  PROVE  Queued(Close(s, o, status)) /\ Queued(CloseFor(s, o, status))
BY CloseParked, CloseGood, CloseForGood, ParkedLoose, GoodRows DEF Queued

LEMMA PromotesQueued ==
  ASSUME NEW s, Queued(s), NEW t \in Promotes(s, s)  PROVE Queued(t)
BY PromotesSelf, PromotesParked DEF Queued, Good

\* An order somebody has is not in the queue, nor offered.
LEMMA DrivenOffQueue ==
  ASSUME NEW s, Queued(s), NEW o \in Orders, s.driver[o] # NONE \/ s.parallel[o] # NONE
  PROVE  s.pq[o] = "none" /\ s.offered[o] = NONE
BY DEF Queued, Good, Parked, Place

LEMMA ReservedOffQueue ==
  ASSUME NEW s, Queued(s), NEW d \in Drivers, Reserved(s, d) # NONE
  PROVE  /\ Reserved(s, d) \in Orders
         /\ s.pq[Reserved(s, d)] = "none" /\ s.offered[Reserved(s, d)] = NONE
BY ReservedIn, DrivenOffQueue, NoneAssumption

LEMMA BeginQueued ==
  ASSUME Queued(db), NEW d \in Drivers  PROVE Queued(Begin(d)) /\ Begin(d) \in Rows
BY BeginGood, BeginParked DEF Queued

LEMMA LineActionsQueued ==
  ASSUME Queued(db), NEW d \in Drivers,
         DriverMessage(d) \/ GoOnline(d) \/ GoOffline(d) \/ GoAway(d) \/ AwayExpire(d)
  PROVE  Queued(db')
<1>1. Queued(Begin(d))
  BY BeginQueued
<1>2. CASE DriverMessage(d)
  BY <1>1, <1>2 DEF DriverMessage
<1>3. CASE GoOnline(d)
  BY <1>1, <1>3, DriversQueued, PromotesQueued DEF GoOnline
<1>4. CASE GoOffline(d)
  BY <1>1, <1>4, DriversQueued DEF GoOffline
<1>5. CASE GoAway(d)
  BY <1>1, <1>5, DriversQueued DEF GoAway
<1>6. CASE AwayExpire(d)
  BY <1>6, DriversQueued DEF AwayExpire
<1> QED
  BY <1>2, <1>3, <1>4, <1>5, <1>6

LEMMA CardQueued ==
  ASSUME NEW s, Queued(s), NEW o \in Orders, NEW b \in BOOLEAN
  PROVE  Queued([s EXCEPT !.card[o] = b])
<1>1. s \in Rows
  BY QueuedRows
<1>2. [s EXCEPT !.card[o] = b] \in Rows
  BY <1>1 DEF Rows
<1>3. SameOrderColumns(s, [s EXCEPT !.card[o] = b])
  BY <1>1 DEF SameOrderColumns, Rows
<1> QED
  BY <1>2, <1>3, ColumnsQueued

\* A ride goes on.
LEMMA RideStatusQueued ==
  ASSUME NEW s, Queued(s), NEW d \in Drivers, NEW o \in Orders, s.driver[o] = d,
         NEW status \in Riding
  PROVE  Queued([s EXCEPT !.status[o] = status])
<1> DEFINE t == [s EXCEPT !.status[o] = status]
<1>1. s \in Rows /\ Good(s) /\ Loose(s, o)
  BY QueuedRows, ParkedLoose
<1>2. s.pq[o] = "none" /\ s.offered[o] = NONE
  BY DrivenOffQueue, NoneAssumption
<1>3. Good(t) /\ t \in Rows
  BY <1>1, RideStatusGood DEF Good
<1>4. /\ t.offered = s.offered /\ t.driver = s.driver /\ t.parallel = s.parallel
      /\ t.declined = s.declined /\ t.pq = s.pq /\ t.pahead = s.pahead
      /\ t.status[o] = status /\ \A p \in Orders \ {o} : t.status[p] = s.status[p]
  BY <1>1 DEF Rows
<1> HIDE DEF t
<1>5. Loose(t, o)
  BY <1>1, <1>4, AsideLoose DEF Aside, SameParked, SameOrder
<1>6. Parked(t)
  BY <1>2, <1>3, <1>4, <1>5, OffQueue, LooseParked DEF Riding
<1> QED
  BY <1>3, <1>6 DEF Queued, t

LEMMA RideActionsQueued ==
  ASSUME Queued(db), NEW d \in Drivers,
         ShowEtaMenu(d) \/ SetEta(d) \/ Arrived(d) \/ Seated(d)
  PROVE  Queued(db')
<1> DEFINE s == Begin(d)
           o == ActiveRide(s, d)
<1>1. Queued(s)
  BY BeginQueued
<1>2. o \in Orders /\ s.driver[o] = d
  BY ActiveRideIn DEF ShowEtaMenu, SetEta, Arrived, Seated, OnRide
<1>3. CASE ShowEtaMenu(d)
  BY <1>1, <1>2, <1>3, CardQueued DEF ShowEtaMenu
<1>4. CASE SetEta(d)
  BY <1>1, <1>2, <1>4, CardQueued, OrdersQueued DEF SetEta
<1>5. CASE Arrived(d)
  BY <1>1, <1>2, <1>5, RideStatusQueued, OrdersQueued DEF Arrived, Riding
<1>6. CASE Seated(d)
  BY <1>1, <1>2, <1>6, RideStatusQueued, OrdersQueued DEF Seated, Riding
<1> QED
  BY <1>3, <1>4, <1>5, <1>6

\* The driver of a closed ride goes on to the reserved order.
LEMMA EndedQueued ==
  ASSUME NEW s, Queued(s), NEW d \in Drivers, NEW o \in Orders, s.driver[o] = d,
         NEW status \in Closed, NEW temp, Reserved(s, d) # NONE
  PROVE  Queued(PromoteAfter(s, LeaveTemporary(CloseFor(s, o, status), d, temp), d))
<1> DEFINE r == Reserved(s, d)
           c == CloseFor(s, o, status)
           t == LeaveTemporary(c, d, temp)
<1>1. Good(s) /\ s \in Rows
  BY QueuedRows
<1>2. r \in Orders /\ s.pq[r] = "none" /\ s.offered[r] = NONE
  BY ReservedOffQueue
<1>3. s.pq[o] = "none" /\ s.offered[o] = NONE
  BY DrivenOffQueue, NoneAssumption
<1>4. Queued(c) /\ Keeps(s, c)
  BY <1>1, <1>3, CloseQueued, CloseForGood
<1>5. c.pq = s.pq /\ c.offered = s.offered
  BY <1>1, CloseAside
<1> HIDE DEF c
<1>6. Queued(t) /\ Keeps(c, t) /\ SameOrders(c, t)
  BY <1>4, DriversQueued, LeaveTemporaryKeeps, DriversPark, QueuedRows
<1> HIDE DEF t
<1>7. t.pq[r] = "none" /\ t.offered[r] = NONE
  BY <1>2, <1>5, <1>6 DEF SameOrders, SameOrder, SameParked
<1>8. Parked(PromoteAfter(s, t, d))
  BY <1>6, <1>7, PromoteAfterParked, QueuedRows DEF r
<1>9. Good(PromoteAfter(s, t, d))
  BY <1>1, <1>4, <1>6, KeepsTransitive, PromoteAfterGood, GoodRows
<1> QED
  BY <1>8, <1>9 DEF Queued, t, c

LEMMA CompleteQueued ==
  ASSUME Queued(db), NEW d \in Drivers, Complete(d)  PROVE Queued(db')
<1> DEFINE s == Begin(d)
           o == ActiveRide(s, d)
           t == LeaveTemporary(CloseFor(s, o, "completed"), d, s.temp[o])
<1>1. Queued(s) /\ o \in Orders /\ s.driver[o] = d
  BY BeginQueued, ActiveRideIn DEF Complete, OnRide
<1>2. db' = IF Reserved(s, d) # NONE THEN PromoteAfter(s, t, d) ELSE SetAway(t, d)
  BY DEF Complete
<1>3. "completed" \in Closed
  BY DEF Closed
<1> HIDE DEF s, o
<1>4. Queued(SetAway(t, d))
  BY <1>1, <1>3, CloseQueued, DrivenOffQueue, DriversQueued, NoneAssumption
<1>5. Reserved(s, d) # NONE => Queued(PromoteAfter(s, t, d))
  BY <1>1, <1>3, EndedQueued
<1> QED
  BY <1>2, <1>4, <1>5

LEMMA CancelForClientQueued ==
  ASSUME Queued(db), NEW d \in Drivers, CancelForClient(d)  PROVE Queued(db')
<1> DEFINE s == Begin(d)
           o == ActiveRide(s, d)
           c == CloseFor(s, o, "cancelled")
           t == LeaveTemporary(SetAway(c, d), d, s.temp[o])
           u == LeaveTemporary(c, d, s.temp[o])
<1>1. Queued(s) /\ o \in Orders /\ s.driver[o] = d
  BY BeginQueued, ActiveRideIn DEF CancelForClient, OnRide
<1>2. IF Reserved(s, d) # NONE THEN db' = PromoteAfter(s, u, d)
      ELSE db' \in {SetAway(r, d) : r \in Promotes(t, t)}
  BY DEF CancelForClient
<1>3. "cancelled" \in Closed
  BY DEF Closed
<1> HIDE DEF s, o
<1>4. Queued(t)
  BY <1>1, <1>3, CloseQueued, DrivenOffQueue, DriversQueued, NoneAssumption
<1> HIDE DEF t
<1>5. Reserved(s, d) # NONE => Queued(PromoteAfter(s, u, d))
  BY <1>1, <1>3, EndedQueued
<1> HIDE DEF u
<1>6. \A r \in Promotes(t, t) : Queued(SetAway(r, d))
  BY <1>4, PromotesQueued, DriversQueued
<1> QED
  BY <1>2, <1>5, <1>6

LEMMA CancelForCarQueued ==
  ASSUME Queued(db), NEW d \in Drivers, CancelForCar(d)  PROVE Queued(db')
<1> DEFINE s == Begin(d)
           o == ActiveRide(s, d)
           first == [s EXCEPT !.deadline[o] = FALSE]
           t == Release(first, Reserved(s, d))
           Released == IF Reserved(s, d) = NONE THEN {first} ELSE Promotes(t, t)
           Ended(r) == SetAway([LeaveQueue(Close(r, o, "cancelled"), d)
                                  EXCEPT !.online[d] = FALSE, !.driver[o] = d], d)
           Search(r) == SetAway([r EXCEPT !.driver[o] = NONE, !.status[o] = "searching"], d)
           Again(r) == OfferNext(Search(r), o, {})
<1>0. Queued(s) /\ s \in Rows
  BY BeginQueued
<1>1. o \in Orders /\ s.driver[o] = d
  BY ActiveRideIn DEF CancelForCar, OnRide
<1>2. /\ s.status[o] \in Riding \cup {"searching"}
      /\ \E r \in Released : \/ db' = Ended(r)
                            \/ db' \in {SetAway(q, d) : q \in Promotes(Again(r), Again(r))}
  BY Zenon DEF CancelForCar
<1> HIDE DEF s, o
<1>3. first \in Rows /\ SameOrderColumns(s, first)
  BY <1>0, <1>1 DEF Rows, SameOrderColumns
<1> HIDE DEF first
<1>4. Queued(first) /\ first.driver = s.driver
  BY <1>0, <1>3, ColumnsQueued DEF SameOrderColumns
<1>5. \A r \in Released : Queued(r) /\ r.driver[o] = d
  <2>1. CASE Reserved(s, d) = NONE
    BY <1>1, <1>4, <2>1
  <2>2. CASE Reserved(s, d) # NONE
    <3>1. Reserved(s, d) \in Orders \ {o} /\ first.offered[Reserved(s, d)] = NONE
      <4>1. Reserved(s, d) \in Orders /\ s.status[Reserved(s, d)] = "parallel_assigned"
        BY <2>2, ReservedIn
      <4>2. Reserved(s, d) # o
        BY <1>2, <4>1 DEF Riding
      <4>3. s.offered[Reserved(s, d)] = NONE
        BY <1>0, <2>2, ReservedOffQueue
      <4> QED
        BY <1>3, <4>1, <4>2, <4>3 DEF SameOrderColumns
    <3>2. Queued(t)
      BY <1>4, <3>1, OrdersQueued
    <3>3. \A p \in Orders \ {Reserved(s, d)} : t.driver[p] = first.driver[p]
      BY <1>4, <3>1, ReleaseGood DEF Queued
    <3>4. t.driver[o] = d
      BY <1>1, <1>4, <3>1, <3>3
    <3> HIDE DEF t
    <3> QED
      BY <2>2, <3>2, <3>4, PromotesSelf, PromotesQueued DEF Queued
  <2> QED
    BY <2>1, <2>2
<1> HIDE DEF Released
<1>6. PICK r \in Released : \/ db' = Ended(r)
                            \/ db' \in {SetAway(q, d) : q \in Promotes(Again(r), Again(r))}
  BY <1>2, Zenon
<1>7. Queued(r) /\ r \in Rows /\ r.pq[o] = "none" /\ r.offered[o] = NONE
  BY <1>1, <1>5, NoneAssumption, DrivenOffQueue, QueuedRows
<1>8. CASE db' = Ended(r)
  <2> DEFINE c == Close(r, o, "cancelled")
             l == [LeaveQueue(c, d) EXCEPT !.online[d] = FALSE]
             e == [l EXCEPT !.driver[o] = d]
  <2>1. Queued(c) /\ c.pq = r.pq /\ c.offered = r.offered /\ c.status[o] = "cancelled"
    BY <1>1, <1>7, CloseQueued, CloseAside DEF Closed
  <2>2. db' = SetAway(e, d)
    <3>1. e = [LeaveQueue(c, d) EXCEPT !.online[d] = FALSE, !.driver[o] = d]
      BY DEF l
    <3> QED
      BY <1>8, <3>1 DEF c
  <2> HIDE DEF c
  <2>3. Queued(l) /\ SameOrders(c, l) /\ l \in Rows
    BY <2>1, DriversQueued, DriversPark, QueuedRows
  <2>4. l.pq[o] = "none" /\ l.offered[o] = NONE /\ l.status[o] = "cancelled"
    BY <1>1, <1>7, <2>1, <2>3 DEF SameOrders, SameOrder, SameParked
  <2> HIDE DEF l
  <2>5. e \in Rows
    <3>1. o \in Orders
      BY <1>1
    <3> QED
      BY <2>3, <3>1 DEF Rows
  <2>6. /\ e.driver = [l.driver EXCEPT ![o] = d] /\ l.driver \in [Orders -> Drivers \cup {NONE}]
        /\ e.status = l.status /\ e.offered = l.offered /\ e.declined = l.declined
        /\ e.parallel = l.parallel /\ e.pq = l.pq /\ e.pahead = l.pahead
    BY <2>3 DEF Rows
  <2> HIDE DEF e
  <2>7. Loose(e, o)
    BY <2>3, <2>6, QueuedRows, ParkedLoose, AsideLoose DEF Aside, SameParked, SameOrder
  <2>8. Parked(e)
    BY <1>1, <2>4, <2>5, <2>6, <2>7, OffQueue, LooseParked
  <2>9. Parked(db')
    BY <2>2, <2>5, <2>8, DriversPark, SameOrdersParked
  <2> QED
    BY <2>9, CancelForCarGood DEF Queued
<1>9. CASE db' \in {SetAway(q, d) : q \in Promotes(Again(r), Again(r))}
  <2> DEFINE e == [r EXCEPT !.driver[o] = NONE, !.status[o] = "searching"]
  <2>1. e \in Rows
    BY <1>1, <1>7, StatusValues, Zenon DEF Rows
  <2>2. /\ e.offered = r.offered /\ e.parallel = r.parallel /\ e.declined = r.declined
        /\ e.pq = r.pq /\ e.pahead = r.pahead /\ e.status[o] = "searching"
        /\ \A p \in Orders \ {o} : e.status[p] = r.status[p] /\ e.driver[p] = r.driver[p]
    BY <1>1, <1>7 DEF Rows
  <2> HIDE DEF e
  <2>3. Good(e)
    BY <1>1, <1>7, <2>1, <2>2, OneOrderKeeps, QueuedRows DEF Keeps
  <2>4. Loose(e, o)
    BY <1>7, <2>2, QueuedRows, ParkedLoose, AsideLoose DEF Aside, SameParked, SameOrder
  <2>5. Queued(e)
    BY <1>1, <1>7, <2>1, <2>2, <2>3, <2>4, OffQueue, LooseParked DEF Queued
  <2>6. Queued(SetAway(e, d)) /\ SameOrders(e, SetAway(e, d))
    BY <2>1, <2>5, DriversQueued, DriversPark
  <2>7. SetAway(e, d).pq[o] = "none"
    BY <1>1, <1>7, <2>2, <2>6 DEF SameOrders, SameParked
  <2>8. Queued(Again(r))
    BY <1>1, <2>6, <2>7, OrdersQueued DEF e
  <2> HIDE DEF Again
  <2> QED
    BY <1>9, <2>8, PromotesQueued, DriversQueued
<1> QED
  BY <1>6, <1>8, <1>9

LEMMA CreateActionsQueued ==
  ASSUME Queued(db), NEW o \in Orders, CreateOrder(o) \/ DispCreate(o)
  PROVE  Queued(db')
<1> DEFINE c == [db EXCEPT !.status[o] = "created"]
           e == [c EXCEPT !.deadline[o] = TRUE]
           Next1(s) == OfferNext(ResetCreator(s, o), o, {})
<1>0. db \in Rows /\ Good(db) /\ Parked(db) /\ Loose(db, o)
  BY QueuedRows, ParkedLoose
<1>1. db.pq[o] = "none" /\ db.offered[o] = NONE
  BY <1>0 DEF CreateOrder, DispCreate, Parked, Place
<1>2. Good(c) /\ c \in Rows
  BY <1>0, StatusKeeps, StatusValues, GoodRows
<1>3. /\ c.offered = db.offered /\ c.driver = db.driver /\ c.parallel = db.parallel
      /\ c.declined = db.declined /\ c.pq = db.pq /\ c.pahead = db.pahead
      /\ c.status[o] = "created" /\ \A p \in Orders \ {o} : c.status[p] = db.status[p]
  BY <1>0 DEF Rows
<1>4. e = [db EXCEPT !.status[o] = "created", !.deadline[o] = TRUE]
  OBVIOUS
<1> HIDE DEF c
<1>5. Loose(c, o)
  BY <1>0, <1>3, AsideLoose DEF Aside, SameParked, SameOrder
<1>6. Queued(c) /\ c.pq[o] = "none"
  BY <1>1, <1>2, <1>3, <1>5, OffQueue, LooseParked DEF Queued
<1>7. e \in Rows /\ SameOrderColumns(c, e)
  BY <1>2 DEF Rows, SameOrderColumns
<1> HIDE DEF e
<1>8. Queued(e) /\ e.pq[o] = "none"
  BY <1>6, <1>7, ColumnsQueued DEF SameOrderColumns
<1>9. ASSUME NEW s, Queued(s), s.pq[o] = "none" PROVE Queued(Next1(s))
  <2>1. Queued(ResetCreator(s, o)) /\ SameOrders(s, ResetCreator(s, o))
    BY <1>9, OrdersQueued, CreatorsPark, QueuedRows
  <2> QED
    BY <1>9, <2>1, OrdersQueued DEF SameOrders, SameParked
<1>10. CASE CreateOrder(o)
  BY <1>6, <1>9, <1>10 DEF CreateOrder, c
<1>11. CASE DispCreate(o)
  BY <1>4, <1>8, <1>9, <1>11 DEF DispCreate
<1> QED
  BY <1>10, <1>11

LEMMA DialogueActionsQueued ==
  ASSUME Queued(db), NEW c \in Creators, UpdateAddress(c) \/ LeaveDialogue(c)
  PROVE  Queued(db')
<1>1. db \in Rows /\ Good(db) /\ Parked(db)
  BY QueuedRows
<1>2. CASE UpdateAddress(c)
  <2> DEFINE o == db.address[c]
             t == [db EXCEPT !.offered[o] = NONE, !.status[o] = "searching"]
             q == Dequeue(t, o)
             s == ResetCreator(q, o)
  <2>1. o \in Orders
    BY <1>1, <1>2 DEF UpdateAddress, Rows
  <2>2. db' = OfferNext(s, o, {})
    BY <1>2 DEF UpdateAddress
  <2> HIDE DEF o
  <2>3. t \in Rows
    BY <1>1, <2>1, StatusValues DEF Rows
  <2>4. /\ t.driver = db.driver /\ t.parallel = db.parallel /\ t.offered[o] = NONE
        /\ t.declined = db.declined /\ t.pq = db.pq /\ t.pahead = db.pahead
        /\ t.status[o] = "searching"
    BY <1>1, <2>1 DEF Rows
  <2>5. \A p \in Orders \ {o} : t.status[p] = db.status[p] /\ t.offered[p] = db.offered[p]
    BY <1>1, <2>1 DEF Rows
  <2> HIDE DEF t
  <2>6. Good(t)
    BY <1>1, <2>1, <2>3, <2>4, <2>5, OneOrderKeeps, GoodRows
  <2>7. Loose(t, o)
    BY <1>1, <2>4, <2>5, ParkedLoose, AsideLoose DEF Aside, SameParked, SameOrder
  <2>8. Good(q) /\ q \in Rows
    BY <2>1, <2>6, DequeueGood, GoodRows
  <2>9. Loose(q, o) /\ q.pq[o] = "none" /\ q.offered[o] = NONE /\ q.status[o] = "searching"
    BY <2>1, <2>3, <2>4, <2>7, DequeueLoose DEF SameOrder
  <2> HIDE DEF q
  <2>10. Queued(q)
    BY <2>1, <2>8, <2>9, OffQueue, LooseParked DEF Queued
  <2>11. Queued(s) /\ s.pq[o] = "none"
    BY <2>1, <2>8, <2>9, <2>10, OrdersQueued, CreatorsPark DEF SameOrders, SameParked
  <2> HIDE DEF s
  <2> QED
    BY <2>1, <2>2, <2>11, OrdersQueued
<1>3. CASE LeaveDialogue(c)
  <2>1. SameOrderColumns(db, db')
    BY <1>1, <1>3 DEF LeaveDialogue, Rows, SameOrderColumns
  <2>2. db' \in Rows
    BY <1>1, <1>3, DialogueActions DEF Good
  <2> QED
    BY <2>1, <2>2, ColumnsQueued
<1> QED
  BY <1>2, <1>3

\* The offer of a cancelled order is withdrawn: the order is done with.
LEMMA WithdrawnParked ==
  ASSUME NEW s \in Rows, NEW o \in Orders, Loose(s, o), s.pq[o] = "none",
         s.status[o] # "queued", NEW d \in Drivers
  PROVE  Parked([ReleaseOffer(s, d) EXCEPT !.offered[o] = NONE])
<1> DEFINE r == ReleaseOffer(s, d)
           t == [r EXCEPT !.offered[o] = NONE]
<1>1. r \in Rows
  <2>1. s.row[d] \in QueueStates /\ s.dstat[d] \in DriverStates
    BY DEF Rows, QueueStates, DriverStates
  <2> QED
    BY <2>1, DriverColumns, Zenon DEF ReleaseOffer, QueueStates, DriverStates
<1>2. SameOrders(s, r)
  BY DriversPark
<1> HIDE DEF r
<1>3. Loose(r, o) /\ r.pq[o] = "none" /\ r.status[o] # "queued"
  BY <1>2, AsideLoose DEF SameOrders, Aside, SameOrder, SameParked
<1>4. t \in Rows
  BY <1>1 DEF Rows
<1>5. /\ t.status = r.status /\ t.driver = r.driver /\ t.parallel = r.parallel
      /\ t.declined = r.declined /\ t.pq = r.pq /\ t.pahead = r.pahead
      /\ t.offered[o] = NONE /\ \A p \in Orders \ {o} : t.offered[p] = r.offered[p]
  BY <1>1 DEF Rows
<1> HIDE DEF t
<1>6. Loose(t, o)
  BY <1>3, <1>5, AsideLoose DEF Aside, SameParked, SameOrder
<1>7. Parked(t)
  BY <1>3, <1>4, <1>5, <1>6, OffQueue, LooseParked
<1> QED
  BY <1>7 DEF t, r

\* The driver of a cancelled ride, on to the reserved order or free.
LEMMA RelieveParked ==
  ASSUME NEW v, NEW s, Queued(v), Queued(s), NEW d \in Drivers,
         \A p \in Orders : /\ v.pq[p] = "none" => s.pq[p] = "none"
                           /\ s.offered[p] = v.offered[p]
  PROVE  Parked(Relieve(v, s, d))
<1>1. s \in Rows /\ Parked(s)
  BY QueuedRows
<1>2. ASSUME Reserved(v, d) # NONE PROVE Parked(PromoteAfter(v, s, d))
  BY <1>1, <1>2, ReservedOffQueue, PromoteAfterParked
<1>3. Parked(RestorePosition(s, d))
  BY <1>1, DriversPark, SameOrdersParked
<1> QED
  BY <1>2, <1>3 DEF Relieve

LEMMA PassengerCancelQueued ==
  ASSUME Queued(db), NEW c \in Creators, PassengerCancel(c)  PROVE Queued(db')
<1> DEFINE o == OrderOf(db, c)
           d == db.driver[o]
           off == db.offered[o]
           s == Dequeue(CloseFor(db, o, "cancelled"), o)
           free == [s EXCEPT !.parallel[o] = NONE, !.driver[o] = NONE]
           t == IF off = NONE THEN s ELSE [ReleaseOffer(s, off) EXCEPT !.offered[o] = NONE]
           u == Relieve(db, s, d)
<1>0. Good(db) /\ db \in Rows /\ Parked(db)
  BY QueuedRows
<1>1. o \in Orders
  BY NewestIn DEF PassengerCancel, OrderOf
<1>2. IF d = NONE THEN db' \in Promotes(db, t)
      ELSE IF db.parallel[o] # NONE THEN db' \in Promotes(db, free)
      ELSE \E v \in {db, u} : db' \in Promotes(v, u)
  BY DEF PassengerCancel
<1> HIDE DEF o
<1>3. Keeps(db, s) /\ Good(s) /\ s \in Rows
  BY <1>0, <1>1, ClosedDequeued, GoodRows
<1>4. off \in Drivers \cup {NONE} /\ d \in Drivers \cup {NONE}
  BY <1>0, <1>1, OrderColumns
<1>5. /\ Loose(s, o) /\ s.pq[o] = "none" /\ s.status[o] = "cancelled"
      /\ \A p \in Orders : s.offered[p] = db.offered[p] /\ (db.pq[p] = "none" => s.pq[p] = "none")
  BY <1>0, <1>1, ParkedLoose, CancelledLoose
<1>6. off = NONE => Queued(s)
  BY <1>0, <1>1, <1>3, ParkedLoose, CancelledParked DEF Queued
<1>7. d # NONE => off = NONE
  BY <1>0, <1>1 DEF Good
<1> HIDE DEF s
<1>8. Keeps(db, t) /\ Parked(t)
  <2>1. Keeps(db, t)
    BY <1>1, <1>3, <1>4, OfferWithdrawn, KeepsTransitive
  <2>2. Parked(t)
    BY <1>1, <1>3, <1>4, <1>5, <1>6, WithdrawnParked DEF Queued
  <2> QED
    BY <2>1, <2>2
<1>9. ASSUME d # NONE PROVE Good(free) /\ Parked(free)
  <2>1. free \in Rows
    BY <1>1, <1>3 DEF Rows
  <2>2. free.status = s.status /\ free.offered = s.offered /\ free.declined = s.declined
        /\ free.pq = s.pq /\ free.pahead = s.pahead
    BY <1>3 DEF Rows
  <2>3. free.driver = [s.driver EXCEPT ![o] = NONE] /\ free.parallel = [s.parallel EXCEPT ![o] = NONE]
        /\ s.driver \in [Orders -> Drivers \cup {NONE}]
        /\ s.parallel \in [Orders -> Drivers \cup {NONE}]
    BY <1>3 DEF Rows
  <2> HIDE DEF free
  <2>4. Good(free)
    BY <1>1, <1>3, <2>1, <2>2, <2>3, FewerIsGood, GoodRows DEF Good, Fewer
  <2>5. Loose(free, o)
    BY <1>1, <1>5, <2>2, <2>3, AsideLoose DEF Aside, SameParked, SameOrder
  <2>6. free.offered[o] = NONE
    BY <1>1, <1>5, <1>7, <1>9, <2>2
  <2>7. Place(free, o)
    BY <1>1, <1>5, <2>1, <2>2, <2>6, OffQueue
  <2> QED
    BY <2>4, <2>5, <2>7, LooseParked
<1>10. ASSUME d # NONE PROVE Keeps(db, u) /\ Good(u) /\ Parked(u)
  <2>1. Keeps(db, u)
    BY <1>0, <1>3, <1>4, <1>10, RelieveGood, KeepsTransitive
  <2>2. Parked(u)
    BY <1>4, <1>5, <1>6, <1>7, <1>10, RelieveParked
  <2> QED
    BY <2>1, <2>2, GoodRows
<1> HIDE DEF t, free, u, d
<1>11. Good(db')
  BY <1>0, PassengerCancelGood
<1>12. \A q : Good(q) /\ Parked(q) => \A x \in Promotes(db, q) : Parked(x)
  BY <1>0, PromotesParked
<1>13. ASSUME d # NONE, NEW v \in {db, u}, db' \in Promotes(v, u) PROVE Parked(db')
  BY <1>10, <1>12, <1>13, PromotesParked DEF Good
<1>14. Parked(db')
  BY <1>2, <1>8, <1>9, <1>12, <1>13, GoodRows
<1> QED
  BY <1>11, <1>14 DEF Queued

LEMMA DispCancelQueued ==
  ASSUME Queued(db), NEW o \in Orders, DispCancel(o)  PROVE Queued(db')
<1> DEFINE d == db.driver[o]
           off == db.offered[o]
           s == Dequeue(Close(db, o, "cancelled"), o)
<1>0. Good(db) /\ db \in Rows /\ Parked(db)
  BY QueuedRows
<1>1. IF d # NONE THEN db' = Relieve(db, s, d)
      ELSE IF off # NONE THEN db' = [ReleaseOffer(s, off) EXCEPT !.offered[o] = NONE]
      ELSE db' = s
  BY DEF DispCancel
<1>2. Good(s) /\ s \in Rows
  BY <1>0, ClosedDequeued, GoodRows
<1>3. off \in Drivers \cup {NONE} /\ d \in Drivers \cup {NONE}
  BY <1>0, OrderColumns
<1>4. /\ Loose(s, o) /\ s.pq[o] = "none" /\ s.status[o] = "cancelled"
      /\ \A p \in Orders : s.offered[p] = db.offered[p] /\ (db.pq[p] = "none" => s.pq[p] = "none")
  BY <1>0, ParkedLoose, CancelledLoose
<1>5. off = NONE => Queued(s)
  BY <1>0, <1>2, ParkedLoose, CancelledParked DEF Queued
<1>6. d # NONE => off = NONE
  BY <1>0 DEF Good
<1> HIDE DEF d, off, s
<1>7. Parked(db')
  <2>1. CASE d # NONE
    BY <1>1, <1>3, <1>4, <1>5, <1>6, <2>1, RelieveParked
  <2>2. CASE d = NONE /\ off # NONE
    BY <1>1, <1>2, <1>3, <1>4, <2>2, WithdrawnParked
  <2>3. CASE d = NONE /\ off = NONE
    BY <1>1, <1>5, <2>3 DEF Queued
  <2> QED
    BY <2>1, <2>2, <2>3
<1> QED
  BY <1>0, <1>7, DispCancelGood DEF Queued

\* A handler is done with an order that is in no queue and not offered.
LEMMA SettledQueued ==
  ASSUME NEW s, NEW t, Good(t), NEW o \in Orders, Loose(s, o), Aside(s, t, o),
         t.pq[o] = "none", t.status[o] # "queued", t.offered[o] = NONE
  PROVE  Queued(t)
BY AsideLoose, OffQueue, LooseParked DEF Queued, Good

LEMMA ClearOfferLoose ==
  ASSUME NEW s, Queued(s), NEW o \in Orders
  PROVE  LET t == [s EXCEPT !.offered[o] = NONE]
         IN Good(t) /\ t \in Rows /\ Loose(t, o) /\ t.offered[o] = NONE /\ Aside(s, t, o)
            /\ t.status = s.status /\ t.pq = s.pq
<1> DEFINE t == [s EXCEPT !.offered[o] = NONE]
<1>1. Good(s) /\ s \in Rows /\ Loose(s, o)
  BY QueuedRows, ParkedLoose
<1>2. Good(t) /\ t \in Rows
  BY <1>1, ClearOfferKeeps, GoodRows
<1>3. /\ t.status = s.status /\ t.driver = s.driver /\ t.parallel = s.parallel
      /\ t.declined = s.declined /\ t.pq = s.pq /\ t.pahead = s.pahead
      /\ t.offered[o] = NONE /\ \A p \in Orders \ {o} : t.offered[p] = s.offered[p]
  BY <1>1 DEF Rows
<1> HIDE DEF t
<1>4. Aside(s, t, o)
  BY <1>3 DEF Aside, SameParked, SameOrder
<1>5. Loose(t, o)
  BY <1>1, <1>4, AsideLoose
<1> QED
  BY <1>2, <1>3, <1>4, <1>5 DEF t

LEMMA TimeoutActionsQueued ==
  ASSUME Queued(db), NEW o \in Orders, DispatcherUnclaimed(o) \/ ChatTimeout(o)
  PROVE  Queued(db')
<1>0. Good(db) /\ db \in Rows /\ Parked(db)
  BY QueuedRows
<1>1. CASE DispatcherUnclaimed(o)
  <2> DEFINE off == db.offered[o]
             s == IF off = NONE THEN db ELSE ReleaseOffer(db, off)
             t == [s EXCEPT !.offered[o] = NONE]
             e == [db EXCEPT !.deadline[o] = FALSE]
  <2>1. db' \in {Dequeue(Close(t, o, "cancelled"), o), e}
    BY <1>1 DEF DispatcherUnclaimed
  <2>2. off \in Drivers \cup {NONE}
    BY <1>0, OrderColumns
  <2> HIDE DEF off
  <2>3. Queued(s)
    BY <2>2, DriversQueued
  <2> HIDE DEF s
  <2>4. Good(t) /\ Loose(t, o) /\ t.offered[o] = NONE
    BY <2>3, ClearOfferLoose
  <2> HIDE DEF t
  <2>5. Queued(Dequeue(Close(t, o, "cancelled"), o))
    BY <2>4, CancelledParked, ClosedDequeued, GoodRows DEF Queued
  <2>6. Queued(e)
    <3>1. e \in Rows
      BY <1>0 DEF Rows
    <3>2. SameOrderColumns(db, e)
      BY <1>0 DEF Rows, SameOrderColumns
    <3> QED
      BY <3>1, <3>2, ColumnsQueued
  <2> HIDE DEF e
  <2> QED
    BY <2>1, <2>5, <2>6
<1>2. CASE ChatTimeout(o)
  <2>1. db.pq[o] = "none" /\ db.offered[o] = NONE
    BY <1>0, <1>2 DEF ChatTimeout, Parked, Place
  <2> QED
    BY <1>2, <2>1, CloseQueued DEF ChatTimeout, Closed
<1> QED
  BY <1>1, <1>2

\* An order the web panel closes stays off the queue all along.
LEMMA AdminCancelQueued ==
  ASSUME Queued(db), NEW o \in Orders, AdminCancel(o)  PROVE Queued(db')
<1> DEFINE Restore(s, e) ==
             IF s.row[e] = "none" THEN [s EXCEPT !.dstat[e] = "offline"]
             ELSE IF s.online[e] THEN [s EXCEPT !.row[e] = "waiting", !.dstat[e] = "online"]
             ELSE s
           off == db.offered[o]
           d == db.driver[o]
           q == Dequeue(Close(db, o, "cancelled"), o)
           s == ResetCreator(q, o)
           t == IF off = NONE THEN s ELSE Restore(s, off)
           u == IF d = NONE \/ d = off \/ db.status[o] \notin Riding THEN t
                ELSE IF Reserved(db, d) # NONE THEN PromoteAfter(db, t, d)
                ELSE Restore(t, d)
           w == [u EXCEPT !.offered[o] = NONE, !.parallel[o] = NONE]
           Done(x) == /\ x \in Rows /\ Loose(x, o) /\ x.pq[o] = "none" /\ x.status[o] # "queued"
                      /\ \A p \in Orders : /\ x.offered[p] = db.offered[p]
                                           /\ db.pq[p] = "none" => x.pq[p] = "none"
<1>0. Good(db) /\ db \in Rows /\ Parked(db)
  BY QueuedRows
<1>1. db' = w
  BY DEF AdminCancel
<1>2. off \in Drivers \cup {NONE} /\ d \in Drivers \cup {NONE}
  BY <1>0, OrderColumns
<1>3. ASSUME NEW r \in Rows, NEW e \in Drivers
      PROVE  Restore(r, e) \in Rows /\ SameOrders(r, Restore(r, e))
  <2>1. [r EXCEPT !.dstat[e] = "offline"] \in Rows
    BY <1>3, Zenon DEF Rows
  <2>2. [r EXCEPT !.row[e] = "waiting", !.dstat[e] = "online"] \in Rows
    BY <1>3, DriverColumns DEF QueueStates, DriverStates
  <2>3. SameOrderColumns(r, [r EXCEPT !.dstat[e] = "offline"])
    BY <1>3 DEF Rows, SameOrderColumns
  <2>4. SameOrderColumns(r, [r EXCEPT !.row[e] = "waiting", !.dstat[e] = "online"])
    BY <1>3 DEF Rows, SameOrderColumns
  <2> QED
    BY <1>3, <2>1, <2>2, <2>3, <2>4, ColumnsSameOrders, SameOrdersRefl
<1>4. ASSUME NEW x, NEW y, Done(x), y \in Rows, SameOrders(x, y) PROVE Done(y)
  BY <1>4, AsideLoose DEF SameOrders, Aside, SameOrder, SameParked
<1>5. Done(q) /\ Good(q)
  BY <1>0, ParkedLoose, CancelledLoose, ClosedDequeued, GoodRows
<1> HIDE DEF q, Restore, Done
<1>6. Done(s)
  <2>1. s \in Rows /\ SameOrders(q, s)
    BY <1>5, ResetCreatorGood, CreatorsPark, GoodRows DEF Good
  <2> QED
    BY <1>4, <1>5, <2>1
<1> HIDE DEF s
<1>7. Done(t)
  <2>1. s \in Rows
    BY <1>6 DEF Done
  <2> QED
    BY <1>2, <1>3, <1>4, <1>6, <2>1
<1> HIDE DEF t
<1>8. u \in Rows /\ Loose(u, o) /\ u.pq[o] = "none" /\ u.status[o] # "queued"
  <2>1. t \in Rows /\ Loose(t, o) /\ t.pq[o] = "none" /\ t.status[o] # "queued"
    BY <1>7 DEF Done
  <2>2. CASE u = t
    BY <2>1, <2>2
  <2>3. CASE u = Restore(t, d) /\ d # NONE
    <3>1. Done(u)
      BY <1>2, <1>3, <1>4, <1>7, <2>1, <2>3
    <3> QED
      BY <3>1 DEF Done
  <2>4. CASE u = PromoteAfter(db, t, d) /\ d # NONE /\ Reserved(db, d) # NONE
             /\ db.status[o] \in Riding
    <3> DEFINE r == Reserved(db, d)
    <3>1. r \in Orders /\ db.pq[r] = "none" /\ db.offered[r] = NONE
      BY <1>2, <2>4, ReservedOffQueue
    <3>2. t.pq[r] = "none" /\ t.offered[r] = NONE
      BY <1>7, <3>1 DEF Done
    <3>3. t.offered[o] = NONE
      BY <1>0, <1>7, <2>4 DEF Done, Good, d
    <3>4. Parked(t)
      BY <2>1, <3>3, OffQueue, LooseParked
    <3>5. Parked(u)
      BY <1>2, <2>1, <2>4, <3>2, <3>4, PromoteAfterParked
    <3>6. r # o
      BY <2>4, ReservedIn DEF Riding
    <3>7. u = [t EXCEPT !.status[r] = "assigned", !.driver[r] = d, !.parallel[r] = NONE,
                        !.peta[r] = FALSE]
      BY <2>4 DEF PromoteAfter
    <3> HIDE DEF r, u
    <3>8. u \in Rows
      <4>1. d \in Drivers /\ r \in Orders /\ t \in Rows
        BY <1>2, <2>1, <2>4, <3>1
      <4> QED
        BY <3>7, <4>1, StatusValues DEF Rows
    <3>9. u.pq = t.pq /\ u.status[o] = t.status[o]
      BY <2>1, <3>6, <3>7 DEF Rows
    <3> QED
      BY <2>1, <3>5, <3>8, <3>9, ParkedLoose
  <2> QED
    BY <2>2, <2>3, <2>4
<1> HIDE DEF u
<1>9. /\ w.status = u.status /\ w.driver = u.driver /\ w.declined = u.declined
      /\ w.pq = u.pq /\ w.pahead = u.pahead /\ w.offered[o] = NONE
      /\ \A p \in Orders \ {o} : w.offered[p] = u.offered[p] /\ w.parallel[p] = u.parallel[p]
  BY <1>8 DEF Rows
<1> HIDE DEF w
<1>10. Aside(u, w, o)
  BY <1>9 DEF Aside, SameParked, SameOrder
<1>11. Good(w)
  BY <1>0, <1>1, AdminCancelGood
<1> QED
  BY <1>1, <1>8, <1>9, <1>10, <1>11, SettledQueued

LEMMA SettledAside ==
  ASSUME NEW s, Queued(s), NEW t \in Rows, NEW o \in Orders, Aside(s, t, o),
         t.pq[o] = "none", t.status[o] # "queued", t.offered[o] = NONE
  PROVE  Queued(t)
<1>1. Good(t)
  BY QueuedRows, OneOrderKeeps, GoodRows DEF Aside, SameOrder
<1> QED
  BY <1>1, QueuedRows, ParkedLoose, SettledQueued

LEMMA AcceptQueued ==
  ASSUME Queued(db), NEW d \in Drivers, NEW o \in Orders, Accept(d, o)  PROVE Queued(db')
<1> DEFINE s == Begin(d)
           t == [s EXCEPT !.offered[o] = NONE, !.driver[o] = d, !.status[o] = "assigned",
                          !.card[o] = TRUE, !.deadline[o] = FALSE]
<1>1. Queued(s) /\ s \in Rows
  BY BeginQueued
<1>2. db' = MarkAssigned(t, d) /\ s.status[o] \in {"searching", "created"}
  BY DEF Accept
<1> HIDE DEF s
<1>3. s.pq[o] = "none"
  BY <1>1, <1>2 DEF Queued, Parked, Place
<1>4. t \in Rows
  BY <1>1, StatusValues DEF Rows
<1>5. /\ t.offered[o] = NONE /\ t.parallel = s.parallel /\ t.status[o] = "assigned"
      /\ t.declined = s.declined /\ t.pq = s.pq /\ t.pahead = s.pahead
  BY <1>1 DEF Rows
<1>6. \A p \in Orders \ {o} : /\ t.status[p] = s.status[p] /\ t.offered[p] = s.offered[p]
                            /\ t.driver[p] = s.driver[p]
  BY <1>1 DEF Rows
<1> HIDE DEF t
<1>7. Aside(s, t, o)
  BY <1>5, <1>6 DEF Aside, SameParked, SameOrder
<1>8. Queued(t)
  BY <1>1, <1>3, <1>4, <1>5, <1>7, SettledAside
<1> QED
  BY <1>2, <1>8, DriversQueued

LEMMA DeclinedQueued ==
  ASSUME NEW s, Queued(s), NEW d \in Drivers, NEW o \in Orders, s.status[o] = "searching"
  PROVE  /\ Queued(Declined(s, d, o)) /\ Declined(s, d, o).pq[o] = "none"
         /\ Declined(s, d, o).offered[o] = NONE /\ Declined(s, d, o).status[o] = "searching"
<1> DEFINE r == ReleaseOffer(s, d)
           c == CreatorOf[o]
           t == [r EXCEPT !.offered[o] = NONE, !.card[o] = FALSE, !.current[c] = NONE]
<1>1. s \in Rows /\ s.pq[o] = "none"
  BY QueuedRows DEF Parked, Place
<1>2. Queued(r) /\ r \in Rows /\ SameOrders(s, r) /\ c \in Creators
  BY <1>1, DriversQueued, DriversPark, QueuedRows DEF Creators
<1>3. Declined(s, d, o) = t
  BY DEF Declined
<1> HIDE DEF r, c
<1>4. r.pq[o] = "none" /\ r.status[o] = "searching"
  BY <1>1, <1>2 DEF SameOrders, SameOrder, SameParked
<1>5. t \in Rows
  BY <1>2 DEF Rows
<1>6. /\ t.offered[o] = NONE /\ t.status = r.status /\ t.driver = r.driver
      /\ t.parallel = r.parallel /\ t.declined = r.declined /\ t.pq = r.pq
      /\ t.pahead = r.pahead /\ \A p \in Orders \ {o} : t.offered[p] = r.offered[p]
  BY <1>2 DEF Rows
<1> HIDE DEF t
<1>7. Aside(r, t, o)
  BY <1>6 DEF Aside, SameParked, SameOrder
<1>8. Queued(t)
  BY <1>2, <1>4, <1>5, <1>6, <1>7, SettledAside
<1> QED
  BY <1>3, <1>4, <1>6, <1>8

LEMMA DeclineQueued ==
  ASSUME Queued(db), NEW d \in Drivers, NEW o \in Orders, NEW reason \in Reasons,
         Decline(d, o, reason)
  PROVE  Queued(db')
<1> DEFINE s == Begin(d)
           t == Declined(s, d, o)
           c == CreatorOf[o]
           next == [t EXCEPT !.declined[o] = @ \cup {d}]
           far == [next EXCEPT !.special[o] = TRUE]
           cancelled == Dequeue(CloseFor(t, o, "cancelled"), o)
           asking == [t EXCEPT !.status[o] = "created",
                               !.address[c] = IF ByDispatcher(o) THEN @ ELSE o]
           Passed(r) == LET u == OfferNext(r, o, {}) IN Promotes(u, u)
<1>1. s.status[o] = "searching" /\ Queued(s)
  BY BeginQueued DEF Decline
<1>2. /\ Queued(t) /\ t \in Rows /\ t.pq[o] = "none" /\ t.offered[o] = NONE
      /\ t.status[o] = "searching" /\ c \in Creators
  BY <1>1, DeclinedQueued, QueuedRows DEF Creators
<1>3. \/ db' \in Promotes(cancelled, cancelled)
      \/ db' \in Promotes(asking, asking)
      \/ db' = OfferNext(SetAway(next, d), o, {})
      \/ db' \in Passed(next)
      \/ db' \in Passed(far)
  BY DEF Decline, Reasons
<1> HIDE DEF s, t, c
<1>4. Queued(next) /\ next \in Rows /\ next.pq[o] = "none"
  <2> DEFINE refusers == t.declined[o] \cup {d}
             x == [t EXCEPT !.declined[o] = refusers]
  <2>0. refusers \in SUBSET Drivers /\ next = x
    BY <1>2 DEF Rows
  <2> HIDE DEF refusers, next
  <2>1. x \in Rows
    BY <1>2, <2>0, ZenonT(40) DEF Rows
  <2>2. /\ x.status = t.status /\ x.offered = t.offered /\ x.driver = t.driver
        /\ x.parallel = t.parallel /\ x.pq = t.pq /\ x.pahead = t.pahead
        /\ \A p \in Orders \ {o} : x.declined[p] = t.declined[p]
    BY <1>2 DEF Rows
  <2> HIDE DEF x
  <2>3. Aside(t, x, o)
    BY <2>2 DEF Aside, SameParked, SameOrder
  <2>4. Queued(x) /\ x.pq[o] = "none"
    BY <1>2, <2>1, <2>2, <2>3, SettledAside
  <2> QED
    BY <2>0, <2>1, <2>4
<1> HIDE DEF next
<1>5. Queued(far) /\ far.pq[o] = "none"
  <2>1. far \in Rows
    BY <1>4 DEF Rows
  <2>2. SameOrderColumns(next, far)
    BY <1>4 DEF Rows, SameOrderColumns
  <2> HIDE DEF far
  <2> QED
    BY <1>4, <2>1, <2>2, ColumnsQueued DEF SameOrderColumns
<1>6. Queued(cancelled)
  BY <1>2, CancelledQueued
<1>7. Queued(asking)
  <2> DEFINE a == IF ByDispatcher(o) THEN t.address[c] ELSE o
             x == [t EXCEPT !.status[o] = "created", !.address[c] = a]
  <2>1. a \in Orders \cup {NONE} /\ asking = x
    BY <1>2 DEF Rows
  <2> HIDE DEF a, asking
  <2>2. x \in Rows
    BY <1>2, <2>1, StatusValues, Zenon DEF Rows
  <2>3. /\ x.offered = t.offered /\ x.driver = t.driver /\ x.parallel = t.parallel
        /\ x.declined = t.declined /\ x.pq = t.pq /\ x.pahead = t.pahead
        /\ x.status[o] = "created" /\ \A p \in Orders \ {o} : x.status[p] = t.status[p]
    BY <1>2 DEF Rows
  <2> HIDE DEF x
  <2>4. Aside(t, x, o)
    BY <2>3 DEF Aside, SameParked, SameOrder
  <2> QED
    BY <1>2, <2>1, <2>2, <2>3, <2>4, SettledAside
<1>8. Queued(SetAway(next, d)) /\ SetAway(next, d).pq[o] = "none"
  <2>1. SameOrders(next, SetAway(next, d)) /\ Queued(SetAway(next, d))
    BY <1>4, DriversPark, DriversQueued
  <2> QED
    BY <1>4, <2>1 DEF SameOrders, SameParked
<1> HIDE DEF far, cancelled, asking
<1>9. \A r : Queued(r) /\ r.pq[o] = "none" => \A x \in Passed(r) : Queued(x)
  BY OrdersQueued, PromotesQueued
<1> HIDE DEF Passed
<1>10. Queued(OfferNext(SetAway(next, d), o, {}))
  BY <1>8, OrdersQueued
<1> QED
  BY <1>3, <1>4, <1>5, <1>6, <1>7, <1>9, <1>10, PromotesQueued

LEMMA AcceptTimeoutQueued ==
  ASSUME Queued(db), NEW o \in Orders, AcceptTimeout(o)  PROVE Queued(db')
<1> DEFINE d == db.offered[o]
           c == CreatorOf[o]
           l == [LeaveQueue(db, d) EXCEPT !.online[d] = FALSE]
           s == [l EXCEPT !.offered[o] = NONE, !.card[o] = FALSE, !.current[c] = NONE]
           t == OfferNext(s, o, {d})
<1>0. db \in Rows /\ Good(db) /\ db.status[o] = "searching" /\ db.pq[o] = "none"
  BY QueuedRows DEF AcceptTimeout, Parked, Place
<1>1. d \in Drivers /\ c \in Creators
  BY <1>0, OrderColumns DEF AcceptTimeout, Creators
<1>2. db' \in Promotes(t, t)
  <2>1. s = [LeaveQueue(db, d) EXCEPT !.online[d] = FALSE, !.offered[o] = NONE,
                                      !.card[o] = FALSE, !.current[c] = NONE]
    OBVIOUS
  <2> HIDE DEF s
  <2> QED
    BY <2>1 DEF AcceptTimeout
<1> HIDE DEF d, c
<1>3. Queued(l) /\ l \in Rows /\ SameOrders(db, l)
  BY <1>0, <1>1, DriversQueued, DriversPark, QueuedRows
<1> HIDE DEF l
<1>4. s \in Rows
  BY <1>1, <1>3 DEF Rows
<1>5. /\ s.offered[o] = NONE /\ s.status = l.status /\ s.driver = l.driver
      /\ s.parallel = l.parallel /\ s.declined = l.declined /\ s.pq = l.pq
      /\ s.pahead = l.pahead /\ \A p \in Orders \ {o} : s.offered[p] = l.offered[p]
  BY <1>3 DEF Rows
<1> HIDE DEF s
<1>6. s.pq[o] = "none" /\ s.status[o] = "searching"
  BY <1>0, <1>3, <1>5 DEF SameOrders, SameOrder, SameParked
<1>7. Aside(l, s, o)
  BY <1>5 DEF Aside, SameParked, SameOrder
<1>8. Queued(s)
  BY <1>3, <1>4, <1>5, <1>6, <1>7, SettledAside
<1>9. Queued(t)
  BY <1>6, <1>8, OrdersQueued
<1> HIDE DEF t
<1> QED
  BY <1>2, <1>9, PromotesQueued

LEMMA TakePendingQueued ==
  ASSUME Queued(db), NEW d \in Drivers, NEW o \in Orders, TakePending(d, o)
  PROVE  Queued(db')
<1> DEFINE s == Begin(d)
           back == s.dstat[d] \in {"offline", "away"} \/ ~s.online[d]
           c == Claim(s, d, o, back)
           t == [c EXCEPT !.parallel[o] = NONE, !.temp[o] = FALSE, !.card[o] = TRUE]
<1>1. db' = t
  BY DEF TakePending
<1>2. Queued(s)
  BY BeginQueued
<1> HIDE DEF s, back
<1>3. Good(c) /\ c \in Rows /\ Parked(c)
  BY <1>2, ClaimKeeps, ClaimParked, QueuedRows, GoodRows
<1> HIDE DEF c
<1>4. t.status = c.status /\ t.offered = c.offered /\ t.driver = c.driver
      /\ t.declined = c.declined /\ t.pq = c.pq /\ t.pahead = c.pahead
  BY <1>3 DEF Rows
<1>5. t.parallel = [c.parallel EXCEPT ![o] = NONE] /\ c.parallel \in [Orders -> Drivers \cup {NONE}]
  BY <1>3 DEF Rows
<1> HIDE DEF t
<1>6. Aside(c, t, o)
  BY <1>4, <1>5 DEF Aside, SameParked, SameOrder
<1>7. Place(t, o)
  BY <1>3, <1>4, <1>5 DEF Place, Parked
<1>8. Parked(t)
  BY <1>3, <1>6, <1>7, ParkedLoose, AsideLoose, LooseParked
<1>9. Good(db')
  BY QueuedRows, TakePendingGood
<1> QED
  BY <1>1, <1>8, <1>9 DEF Queued

LEMMA ChatTakeQueued ==
  ASSUME Queued(db), NEW d \in Drivers, NEW o \in Orders, ChatTake(d, o) \/ ChatTakeLate(d, o)
  PROVE  Queued(db')
<1>1. CASE ChatTake(d, o)
  <2> DEFINE s == Adopt(db, d)
             p == PendingOffer(s, d)
             dead == [s EXCEPT !.offered[p] = NONE]
             live == ReleaseOffer(dead, d)
  <2>1. db' = IF p = NONE THEN Taken(s, d, o, NONE)
              ELSE IF s.row[d] # "offered" THEN Taken(dead, d, o, NONE)
              ELSE Taken(live, d, o, p)
    BY <1>1 DEF ChatTake
  <2>2. Queued(s)
    BY QueuedRows, AdoptKeeps, AdoptParked, GoodRows DEF Queued
  <2>3. p # NONE => p \in Orders /\ s.status[p] = "searching"
    BY PendingOfferIn
  <2> HIDE DEF s, p
  <2>4. ASSUME p # NONE
        PROVE  Queued(dead) /\ dead \in Rows /\ dead.pq[p] = "none"
    <3>1. p \in Orders /\ s.status[p] = "searching" /\ s.pq[p] = "none"
      BY <2>2, <2>3, <2>4 DEF Queued, Parked, Place
    <3>2. /\ dead \in Rows /\ dead.offered[p] = NONE /\ Aside(s, dead, p)
          /\ dead.status = s.status /\ dead.pq = s.pq
      BY <2>2, <3>1, ClearOfferLoose
    <3> HIDE DEF dead
    <3> QED
      BY <2>2, <3>1, <3>2, SettledAside
  <2> HIDE DEF dead
  <2>5. ASSUME p # NONE PROVE Queued(live) /\ live.pq[p] = "none"
    BY <2>3, <2>4, <2>5, DriversQueued, DriversPark DEF SameOrders, SameParked
  <2> HIDE DEF live
  <2>6. \A r : Queued(r) => Queued(Taken(r, d, o, NONE))
    BY TakenGood, TakenParked DEF Queued
  <2>7. ASSUME p # NONE PROVE Queued(Taken(live, d, o, p))
    BY <2>3, <2>5, <2>7, TakenGood, TakenParked DEF Queued
  <2> QED
    BY <2>1, <2>2, <2>4, <2>6, <2>7
<1>2. CASE ChatTakeLate(d, o)
  BY <1>2, BeginQueued, TakenGood, TakenParked DEF ChatTakeLate, Queued
<1> QED
  BY <1>1, <1>2

LEMMA ParallelTakeQueued ==
  ASSUME Queued(db), NEW d \in Drivers, NEW o \in Orders, ParallelTake(d, o)
  PROVE  Queued(db')
<1> DEFINE s == Begin(d)
           r == Repair(s, s)
           q == Dequeue(r, o)
           t == [q EXCEPT !.parallel[o] = d, !.driver[o] = d,
                          !.status[o] = "parallel_assigned", !.card[o] = TRUE]
<1>1. db' = MarkAssigned(t, d) /\ s.offered[o] = NONE
  BY DEF ParallelTake
<1>2. Queued(s) /\ s \in Rows
  BY BeginQueued
<1> HIDE DEF s
<1>3. Good(r) /\ r \in Rows /\ Loose(r, o) /\ r.offered = s.offered
  BY <1>2, RepairGood, RepairPark, SameOrdersParked, ParkedLoose DEF Queued, Good
<1> HIDE DEF r
<1>4. Good(q) /\ q \in Rows /\ Loose(q, o) /\ q.pq[o] = "none" /\ q.offered = r.offered
  BY <1>3, DequeueGood, DequeueLoose, GoodRows
<1> HIDE DEF q
<1>5. t \in Rows
  BY <1>4, StatusValues DEF Rows
<1>6. /\ t.offered = q.offered /\ t.declined = q.declined /\ t.pq = q.pq
      /\ t.pahead = q.pahead /\ t.status[o] = "parallel_assigned"
  BY <1>4 DEF Rows
<1>7. \A p \in Orders \ {o} : /\ t.status[p] = q.status[p] /\ t.driver[p] = q.driver[p]
                            /\ t.parallel[p] = q.parallel[p]
  BY <1>4 DEF Rows
<1> HIDE DEF t
<1>8. Good(t)
  BY <1>1, <1>3, <1>4, <1>5, <1>6, <1>7, OneOrderKeeps, GoodRows
<1>9. Aside(q, t, o)
  BY <1>6, <1>7 DEF Aside, SameParked, SameOrder
<1>10. Queued(t)
  BY <1>1, <1>3, <1>4, <1>6, <1>8, <1>9, SettledQueued
<1> QED
  BY <1>1, <1>10, DriversQueued

LEMMA ReleasedQueued ==
  ASSUME NEW s, Queued(s), NEW o \in Orders, s.status[o] = "parallel_assigned",
         NEW t, t = Release([s EXCEPT !.card[o] = FALSE], o), NEW x \in Promotes(t, t)
  PROVE  Queued(x)
<1> DEFINE c == [s EXCEPT !.card[o] = FALSE]
<1>1. s \in Rows /\ s.offered[o] = NONE
  BY QueuedRows DEF Parked, Place
<1>2. Queued(c)
  BY CardQueued
<1>3. c.offered[o] = NONE
  BY <1>1 DEF Rows
<1>4. t = Release(c, o)
  OBVIOUS
<1> HIDE DEF c
<1>5. Queued(t)
  BY <1>2, <1>3, <1>4, OrdersQueued
<1> QED
  BY <1>5, PromotesQueued

LEMMA ReservationActionsQueued ==
  ASSUME Queued(db), NEW d \in Drivers, NEW o \in Orders,
         ParallelEta(d, o) \/ ParallelDecline(d, o)
  PROVE  Queued(db')
<1>1. CASE ParallelEta(d, o)
  <2> DEFINE s == Begin(d)
             t == [s EXCEPT !.card[o] = FALSE, !.peta[o] = TRUE]
  <2>1. Queued(s) /\ s \in Rows /\ db' = t
    BY <1>1, BeginQueued DEF ParallelEta
  <2> HIDE DEF s
  <2>2. t \in Rows
    BY <2>1 DEF Rows
  <2>3. SameOrderColumns(s, t)
    BY <2>1 DEF Rows, SameOrderColumns
  <2> HIDE DEF t
  <2> QED
    BY <2>1, <2>2, <2>3, ColumnsQueued
<1>2. CASE ParallelDecline(d, o)
  BY <1>2, BeginQueued, ReleasedQueued DEF ParallelDecline
<1> QED
  BY <1>1, <1>2

\* A parked order that its passenger, or nobody, answers for.
LEMMA ParkedClosed ==
  ASSUME Queued(db), NEW o \in Orders, db.pq[o] # "none" \/ db.status[o] = "queued"
  PROVE  Queued(CloseFor(Dequeue(db, o), o, "cancelled"))
<1> DEFINE q == Dequeue(db, o)
<1>1. Good(db) /\ db \in Rows /\ Loose(db, o) /\ db.offered[o] = NONE
  BY QueuedRows, ParkedLoose DEF Parked, Place
<1>2. Good(q) /\ Loose(q, o) /\ q.pq[o] = "none" /\ q.offered[o] = NONE
  BY <1>1, DequeueGood, DequeueLoose, GoodRows
<1> HIDE DEF q
<1>3. Queued(CloseFor(q, o, "cancelled"))
  BY <1>2, CloseParked, CloseForGood, GoodRows DEF Queued, Closed
<1> QED
  BY <1>3 DEF q

LEMMA ConfirmQueued ==
  ASSUME Queued(db), NEW o \in Orders, ConfirmYes(o) \/ ConfirmNo(o)  PROVE Queued(db')
<1>0. db \in Rows /\ Good(db) /\ Parked(db)
  BY QueuedRows
<1>1. \A s : Queued(s) => \A t \in Promotes(db, s) : Parked(t)
  BY <1>0, PromotesParked DEF Queued
<1>2. CASE ConfirmYes(o)
  <2> DEFINE y == [db EXCEPT !.confirmed[o] = TRUE, !.pq[o] = "waiting"]
             p == PausePrompts(db, y, o)
             s == ResetCreator(p, o)
  <2>1. db' \in Promotes(db, s) /\ db.pq[o] = "polling"
    BY <1>2 DEF ConfirmYes
  <2>2. y \in Rows
    BY <1>0 DEF Rows
  <2>3. /\ y.status = db.status /\ y.offered = db.offered /\ y.declined = db.declined
        /\ y.driver = db.driver /\ y.parallel = db.parallel /\ y.pahead = db.pahead
        /\ y.pq[o] = "waiting" /\ \A x \in Orders \ {o} : y.pq[x] = db.pq[x]
    BY <1>0 DEF Rows
  <2> HIDE DEF y
  <2>4. SameOrders(db, y)
    BY <2>1, <2>3 DEF SameOrders, SameOrder, SameParked
  <2>5. Queued(y)
    BY <1>0, <2>2, <2>3, <2>4, SameIsGood, SameOrdersParked, GoodRows DEF Queued
  <2>6. Queued(p)
    BY <2>2, <2>5, PausePromptsGood, PausePark, SameOrdersParked DEF Queued
  <2> HIDE DEF p
  <2>7. Queued(s)
    BY <2>6, OrdersQueued
  <2> HIDE DEF s
  <2>8. Parked(db')
    BY <1>1, <2>1, <2>7
  <2> QED
    BY <1>0, <1>2, <2>8, ConfirmGood DEF Queued
<1>3. CASE ConfirmNo(o)
  <2>1. Parked(db')
    BY <1>1, <1>3, ParkedClosed DEF ConfirmNo
  <2> QED
    BY <1>0, <1>3, <2>1, ConfirmGood DEF Queued
<1> QED
  BY <1>2, <1>3

LEMMA WaitNoQueued ==
  ASSUME Queued(db), NEW c \in Creators, WaitNo(c)  PROVE Queued(db')
<1> DEFINE o == Newest({o \in Orders : CreatorOf[o] = c /\ db.status[o] = "queued"})
<1>1. o # NONE /\ db' = CloseFor(Dequeue(db, o), o, "cancelled")
  BY DEF WaitNo
<1>2. o \in Orders /\ db.status[o] = "queued"
  BY <1>1, NewestIn
<1> HIDE DEF o
<1> QED
  BY <1>1, <1>2, ParkedClosed

LEMMA InitQueued == Init => Queued(db)
<1> SUFFICES ASSUME Init PROVE Queued(db)
  OBVIOUS
<1>1. \A o \in Orders : /\ db.status[o] = "unborn" /\ db.pq[o] = "none" /\ db.offered[o] = NONE
                       /\ db.declined[o] = {}
  BY DEF Init
<1>2. db.pahead = {}
  BY DEF Init
<1>3. Parked(db)
  BY <1>1, <1>2 DEF Parked, Lined, Place
<1> QED
  BY <1>3, InitGood DEF Queued

LEMMA QueuedStep == Queued(db) /\ [Next]_db => Queued(db')
<1> SUFFICES ASSUME Queued(db), [Next]_db PROVE Queued(db')
  OBVIOUS
<1>1. CASE UNCHANGED db
  <2>1. db' = db
    BY <1>1
  <2> QED
    BY <2>1
<1>2. ASSUME NEW d \in Drivers, DriverStep(d) PROVE Queued(db')
  BY <1>2, LineActionsQueued, RideActionsQueued, CompleteQueued, CancelForClientQueued,
     CancelForCarQueued DEF DriverStep
<1>3. ASSUME NEW d \in Drivers, NEW o \in Orders, DriverOrderStep(d, o) PROVE Queued(db')
  <2>1. ASSUME NEW reason \in DeclineReasons, Decline(d, o, reason) PROVE Queued(db')
    BY <2>1, DeclineQueued, BehaviourAssumption
  <2> QED
    BY <1>3, <2>1, AcceptQueued, TakePendingQueued, ChatTakeQueued, ParallelTakeQueued,
       ReservationActionsQueued DEF DriverOrderStep
<1>4. ASSUME NEW c \in Creators, CreatorStep(c) PROVE Queued(db')
  BY <1>4, DialogueActionsQueued, PassengerCancelQueued, WaitNoQueued DEF CreatorStep
<1>5. ASSUME NEW o \in Orders, OrderStep(o) PROVE Queued(db')
  <2>1. CASE ParallelEtaTimeout(o)
    BY <2>1, ReleasedQueued DEF ParallelEtaTimeout
  <2> QED
    BY <1>5, <2>1, CreateActionsQueued, DispCancelQueued, TimeoutActionsQueued,
       AdminCancelQueued, AcceptTimeoutQueued, ConfirmQueued DEF OrderStep
<1>6. CASE RecoveryWorker
  BY <1>6, PromotesQueued DEF RecoveryWorker
<1> QED
  BY <1>1, <1>2, <1>3, <1>4, <1>5, <1>6 DEF Next

ParkInv == Queued(db)

LEMMA ParkInvariance == Spec => []ParkInv
<1>1. Init => ParkInv
  BY InitQueued DEF ParkInv
<1>2. ParkInv /\ [Next]_db => ParkInv'
  BY QueuedStep DEF ParkInv
<1> QED
  BY <1>1, <1>2, PTL DEF Spec

\* An order waits in the passenger queue if and only if it is queued, and while
\* it does no driver has it, has reserved it or is asked about it: however an
\* order leaves the queue (offered, claimed, reserved, closed by any of five
\* handlers), its row goes in the same step, and no other row is left behind.
THEOREM QueueHoldsTheQueued == Spec => []QueuedIsParked
<1>1. ParkInv => QueuedIsParked
  BY DEF ParkInv, Queued, Parked, Place, QueuedIsParked
<1> QED
  BY ParkInvariance, <1>1, PTL

\* No order is on the screen of a driver who has refused it, though the drivers
\* are chosen in rows that are older than the ones the refusal is written to.
THEOREM RefusalsStand == Spec => []NotOfferedAgain
<1>1. ParkInv => NotOfferedAgain
  BY DEF ParkInv, Queued, Parked, Place, NotOfferedAgain
<1> QED
  BY ParkInvariance, <1>1, PTL

\* Both lines are lines: of two drivers in the one, or two orders in the other,
\* exactly one is ahead, through joins, repairs, releases and re-parking.
THEOREM BothLinesOrdered == Spec => []LinesOrdered
<1>1. LineInv /\ ParkInv => LinesOrdered
  <2> SUFFICES ASSUME LineInv, ParkInv PROVE LinesOrdered
    OBVIOUS
  <2>1. ASSUME NEW d \in Drivers, NEW e \in Drivers, d # e, db.row[d] # "none", db.row[e] # "none"
        PROVE  (<<d, e>> \in db.ahead) # (<<e, d>> \in db.ahead)
    BY <2>1 DEF LineInv, InLine, Before
  <2>2. ASSUME NEW o \in Orders, NEW p \in Orders, o # p, db.pq[o] # "none", db.pq[p] # "none"
        PROVE  (<<o, p>> \in db.pahead) # (<<p, o>> \in db.pahead)
    BY <2>2 DEF ParkInv, Queued, Parked, Lined
  <2> QED
    BY <2>1, <2>2 DEF LinesOrdered
<1> QED
  BY LineInvariance, ParkInvariance, <1>1, PTL

(***************************************************************************)
(* First come, first served.  The step starts from the rows db; a handler  *)
(* may offer several orders before it ends.  In rows t on the way, InTurn  *)
(* says that the offers made so far pass no driver who was free before the *)
(* step and still is idle, but for those who refused the order.            *)
(***************************************************************************)
Engages(v, o, d) ==
    \/ v.status[o] = "searching" /\ v.offered[o] = d
    \/ v.status[o] \in Riding \cup {"parallel_assigned"} /\ v.driver[o] = d
    \/ v.status[o] = "parallel_assigned" /\ v.parallel[o] = d

\* The drivers shown as free, and with nothing to do: those whom the dispatch queries
\* may find after a repair of the line.
Idle(v) == {d \in Drivers : v.online[d] /\ v.dstat[d] = "online" /\ ~Engaged(v, d)}

Still(t) == Free(db) \cap Idle(t)

\* t offers no order to a driver who did not have the offer before the step.
Unoffered(t) == \A o \in Orders : t.offered[o] \in {NONE, db.offered[o]}

InTurn(t) ==
    \A o \in Orders : t.offered[o] \notin {NONE, db.offered[o]} =>
        \A e \in Still(t) :
            e # t.offered[o] /\ <<e, t.offered[o]>> \in db.ahead \cap t.ahead
            => e \in t.declined[o]

\* Rows s become rows t without a new offer, and nobody but d becomes idle.
Harmless(s, t, d) ==
    /\ Still(t) \ {d} \subseteq Idle(s)
    /\ db.ahead \cap t.ahead \subseteq s.ahead
    /\ \A o \in Orders : t.offered[o] # NONE =>
          t.offered[o] = s.offered[o] /\ s.declined[o] \subseteq t.declined[o]

\* Where the handler of a message of d stands: either it has offered nothing yet,
\* or d was engaged before the step.
Mine(t, d) == Unoffered(t) \/ (InTurn(t) /\ d \notin Free(db))

LEMMA EngagedBy == ASSUME NEW v, NEW d  PROVE Engaged(v, d) <=> \E o \in Orders : Engages(v, o, d)
BY DEF Engaged, HasOffer, Engages

LEMMA UnofferedInTurn == ASSUME NEW t, Unoffered(t)  PROVE InTurn(t)
BY DEF Unoffered, InTurn

LEMMA MineInTurn == ASSUME NEW t, NEW d, Mine(t, d)  PROVE InTurn(t)
BY UnofferedInTurn DEF Mine

LEMMA FewerUnoffered ==
  ASSUME NEW t, Fewer(db, t) \/ Keeps(db, t)
  PROVE  Unoffered(t) /\ InTurn(t) /\ \A d : Mine(t, d)
BY UnofferedInTurn DEF Fewer, Keeps, Unoffered, Mine

LEMMA HarmlessTrans ==
  ASSUME NEW r, NEW s, NEW t, NEW d, Harmless(r, s, d), Harmless(s, t, d)
  PROVE  Harmless(r, t, d)
<1>1. Still(t) \ {d} \subseteq Idle(r)
  BY DEF Harmless, Still
<1>2. db.ahead \cap t.ahead \subseteq r.ahead
  BY DEF Harmless
<1>3. ASSUME NEW o \in Orders, t.offered[o] # NONE
      PROVE  t.offered[o] = r.offered[o] /\ r.declined[o] \subseteq t.declined[o]
  BY <1>3 DEF Harmless
<1> QED
  BY <1>1, <1>2, <1>3 DEF Harmless

LEMMA HarmlessInTurn ==
  ASSUME NEW s, NEW t, NEW d, InTurn(s), Harmless(s, t, d), d \notin Still(t)
  PROVE  InTurn(t)
<1> SUFFICES ASSUME NEW o \in Orders, t.offered[o] \notin {NONE, db.offered[o]},
                    NEW e \in Still(t), e # t.offered[o],
                    <<e, t.offered[o]>> \in db.ahead \cap t.ahead
             PROVE  e \in t.declined[o]
  BY DEF InTurn
<1>1. t.offered[o] = s.offered[o] /\ s.declined[o] \subseteq t.declined[o]
  BY DEF Harmless
<1>2. e \in Still(s)
  BY DEF Harmless, Still
<1>3. <<e, s.offered[o]>> \in db.ahead \cap s.ahead
  BY <1>1 DEF Harmless
<1> QED
  BY <1>1, <1>2, <1>3 DEF InTurn

LEMMA HarmlessMine ==
  ASSUME NEW s, NEW t, NEW d, Mine(s, d), Harmless(s, t, d)  PROVE Mine(t, d)
<1>1. CASE Unoffered(s)
  BY <1>1 DEF Unoffered, Harmless, Mine
<1>2. CASE InTurn(s) /\ d \notin Free(db)
  BY <1>2, HarmlessInTurn DEF Mine, Still
<1> QED
  BY <1>1, <1>2 DEF Mine

\* The same drivers are shown as free, but for d, whose orders alone may change.
LEMMA HarmlessColumns ==
  ASSUME NEW s, NEW t, NEW d,
         \A e \in Drivers \ {d} : t.online[e] /\ t.dstat[e] = "online"
                                  => s.online[e] /\ s.dstat[e] = "online",
         \A o \in Orders : \A e \in Free(db) \ {d} : Engages(s, o, e) => Engages(t, o, e),
         db.ahead \cap t.ahead \subseteq s.ahead,
         \A o \in Orders : t.offered[o] # NONE =>
            t.offered[o] = s.offered[o] /\ s.declined[o] \subseteq t.declined[o]
  PROVE  Harmless(s, t, d)
<1>1. ASSUME NEW e \in Still(t) \ {d} PROVE e \in Idle(s)
  BY <1>1, EngagedBy DEF Still, Idle
<1> QED
  BY <1>1 DEF Harmless

\* The columns the search for a driver reads of the orders and of the drivers.
SameSearch(s, t) ==
    /\ t.status = s.status /\ t.offered = s.offered /\ t.driver = s.driver
    /\ t.parallel = s.parallel /\ t.declined = s.declined
    /\ t.online = s.online /\ t.dstat = s.dstat

LEMMA SameSearchRefl == ASSUME NEW s PROVE SameSearch(s, s)
BY DEF SameSearch

LEMMA SameSearchTrans ==
  ASSUME NEW r, NEW s, NEW t, SameSearch(r, s), SameSearch(s, t)  PROVE SameSearch(r, t)
BY DEF SameSearch

LEMMA SameSearchIdle ==
  ASSUME NEW s, NEW t, SameSearch(s, t)
  PROVE  /\ Idle(t) = Idle(s) /\ Still(t) = Still(s)
         /\ \A o, d : Engages(t, o, d) <=> Engages(s, o, d)
<1>1. \A o, d : Engages(t, o, d) <=> Engages(s, o, d)
  BY DEF SameSearch, Engages
<1>2. \A d : Engaged(t, d) <=> Engaged(s, d)
  BY <1>1, EngagedBy
<1>3. Idle(t) = Idle(s)
  BY <1>2 DEF SameSearch, Idle
<1> QED
  BY <1>1, <1>3 DEF Still

LEMMA SameSearchHarmless ==
  ASSUME NEW s, NEW t, SameSearch(s, t), db.ahead \cap t.ahead \subseteq s.ahead
  PROVE  \A d : Harmless(s, t, d)
<1>1. Idle(t) = Idle(s)
  BY SameSearchIdle
<1> QED
  BY <1>1 DEF Harmless, Still, SameSearch

LEMMA SameSearchInTurn ==
  ASSUME NEW s, NEW t, SameSearch(s, t), t.ahead = s.ahead, InTurn(s)  PROVE InTurn(t)
<1>1. Still(t) = Still(s)
  BY SameSearchIdle
<1> QED
  BY <1>1 DEF InTurn, SameSearch

\* The operators that change none of those columns, nor the line.
LEMMA SearchUntouched ==
  ASSUME NEW s \in Rows, NEW o
  PROVE  /\ SameSearch(s, Dequeue(s, o)) /\ Dequeue(s, o).ahead = s.ahead
         /\ SameSearch(s, ResetCreator(s, o)) /\ ResetCreator(s, o).ahead = s.ahead
         /\ SameSearch(s, Follow(s, o)) /\ Follow(s, o).ahead = s.ahead
         /\ SameSearch(s, Asked(s, o)) /\ Asked(s, o).ahead = s.ahead
         /\ \A v, x : /\ SameSearch(s, PausePrompts(v, s, x))
                      /\ PausePrompts(v, s, x).ahead = s.ahead
<1>1. SameSearch(s, Dequeue(s, o)) /\ Dequeue(s, o).ahead = s.ahead
  BY DEF SameSearch, Dequeue, Rows
<1>2. SameSearch(s, ResetCreator(s, o)) /\ ResetCreator(s, o).ahead = s.ahead
  BY DEF SameSearch, ResetCreator, Rows
<1>3. SameSearch(s, Follow(s, o)) /\ Follow(s, o).ahead = s.ahead
  BY DEF SameSearch, Follow, Rows
<1>4. SameSearch(s, Asked(s, o)) /\ Asked(s, o).ahead = s.ahead
  BY DEF SameSearch, Asked, Rows
<1>5. ASSUME NEW v, NEW x
      PROVE  SameSearch(s, PausePrompts(v, s, x)) /\ PausePrompts(v, s, x).ahead = s.ahead
  BY DEF SameSearch, PausePrompts, Rows
<1> QED
  BY <1>1, <1>2, <1>3, <1>4, <1>5

\* A repaired row says waiting of everybody who is idle in the view.
LEMMA RepairSearch ==
  ASSUME NEW v, NEW s \in Rows, Stands(v, s)
  PROVE  /\ SameSearch(s, Repair(v, s)) /\ Repair(v, s).ahead = s.ahead
         /\ \A d \in Idle(v) : Repair(v, s).row[d] = "waiting"
<1> DEFINE missing == {d \in Idle(v) : s.row[d] = "none"}
           row == [d \in Drivers |-> IF d \in Idle(v) THEN "waiting" ELSE s.row[d]]
           new == {d \in Drivers : s.row[d] # "none"} \X missing
           r == Repair(v, s)
<1>1. r = [s EXCEPT !.row = row, !.ahead = @ \cup new]
  BY DEF Repair, Idle
<1>2. SameLine(s, r)
  BY RepairLine
<1>3. \A d \in Idle(v) : row[d] = "waiting"
  BY DEF Idle
<1> HIDE DEF missing, row, new, r
<1>4. SameSearch(s, r) /\ r.row = row
  BY <1>1 DEF SameSearch, Rows
<1> QED
  BY <1>2, <1>3, <1>4 DEF r, SameLine

\* The chosen driver stands ahead of every other one who could have been chosen.
LEMMA NextWaitingFirst ==
  ASSUME NEW v, NEW excluded, NextWaiting(v, excluded) # NONE, InLine(v),
         NEW e \in Free(v) \ excluded, e # NextWaiting(v, excluded)
  PROVE  <<e, NextWaiting(v, excluded)>> \notin v.ahead
<1> DEFINE able == Free(v) \ excluded
           first == {d \in able : \A f \in able \ {d} : <<d, f>> \in v.ahead}
           d == NextWaiting(v, excluded)
<1>1. d = IF first = {} THEN NONE ELSE CHOOSE f \in first : TRUE
  BY DEF NextWaiting
<1>2. d \in first
  BY <1>1
<1>3. <<d, e>> \in v.ahead /\ d \in Drivers /\ e \in Drivers
  BY <1>2 DEF Free
<1> HIDE DEF d
<1>4. <<e, d>> \notin v.ahead
  <2>1. v.row[d] # "none" /\ v.row[e] # "none" /\ d # e
    BY <1>3, Zenon DEF InLine, Before
  <2> QED
    BY <1>3, <2>1, Zenon DEF InLine, Before
<1> QED
  BY <1>4 DEF d

\* An order nobody is engaged by goes to a driver whom nobody in the line who is
\* idle, and has not refused it, stands ahead of.
LEMMA OfferInTurn ==
  ASSUME NEW s \in Rows, InTurn(s), NEW o \in Orders, NEW d \in Drivers,
         \A e \in Drivers : ~Engages(s, o, e),
         \A e \in Still(s) \ {d} : <<e, d>> \in db.ahead \cap s.ahead => e \in s.declined[o]
  PROVE  InTurn(Offer(s, o, d)) /\ Offer(s, o, d) \in Rows
<1> DEFINE c == CreatorOf[o]
           t == [s EXCEPT !.status[o] = "searching", !.offered[o] = d, !.card[o] = TRUE,
                          !.current[c] = d, !.row[d] = "offered"]
           u == PausePrompts(t, t, o)
<1>0. c \in Creators /\ "searching" \in Statuses
  BY StatusValues DEF Creators
<1> HIDE DEF c
<1>1. t \in Rows
  BY <1>0 DEF Rows
<1>2. /\ t.driver = s.driver /\ t.parallel = s.parallel /\ t.declined = s.declined
      /\ t.online = s.online /\ t.dstat = s.dstat /\ t.ahead = s.ahead /\ t.offered[o] = d
      /\ \A p \in Orders \ {o} : t.status[p] = s.status[p] /\ t.offered[p] = s.offered[p]
  BY DEF Rows
<1> HIDE DEF t
<1>3. \A p \in Orders : \A e \in Drivers : Engages(s, p, e) => Engages(t, p, e)
  BY <1>2 DEF Engages
<1>4. Still(t) \subseteq Still(s)
  BY <1>2, <1>3, EngagedBy DEF Still, Idle
<1>5. InTurn(t)
  <2> SUFFICES ASSUME NEW p \in Orders, t.offered[p] \notin {NONE, db.offered[p]},
                      NEW e \in Still(t), e # t.offered[p],
                      <<e, t.offered[p]>> \in db.ahead \cap t.ahead
               PROVE  e \in t.declined[p]
    BY DEF InTurn
  <2>1. CASE p = o
    BY <1>2, <1>4, <2>1
  <2>2. CASE p # o
    BY <1>2, <1>4, <2>2 DEF InTurn
  <2> QED
    BY <2>1, <2>2
<1>6. InTurn(u) /\ u \in Rows
  BY <1>1, <1>5, SearchUntouched, SameSearchInTurn, PauseLine
<1> QED
  BY <1>6 DEF Offer, u, t, c

\* Rows whose view w shows as free all who matter.
Shown(w, s) == InLine(w) /\ w.ahead = s.ahead /\ Still(s) \subseteq Free(w)

\* The driver chosen in the view is the right one.
LEMMA ChosenInTurn ==
  ASSUME NEW w, NEW s \in Rows, Shown(w, s), InTurn(s), NEW o \in Orders, NEW excluded,
         \A e \in Drivers : ~Engages(s, o, e),
         excluded \cap Still(s) \subseteq s.declined[o], NextWaiting(w, excluded) # NONE
  PROVE  /\ InTurn(Offer(s, o, NextWaiting(w, excluded)))
         /\ Offer(s, o, NextWaiting(w, excluded)) \in Rows
<1> DEFINE d == NextWaiting(w, excluded)
<1>1. d \in Drivers
  BY NextWaitingOn
<1>2. ASSUME NEW e \in Still(s) \ {d}, <<e, d>> \in db.ahead \cap s.ahead
      PROVE  e \in s.declined[o]
  <2>1. e \in Free(w) /\ <<e, d>> \in w.ahead
    BY <1>2 DEF Shown
  <2>2. e \in excluded
    BY <1>2, <2>1, NextWaitingFirst DEF Shown
  <2> QED
    BY <1>2, <2>2
<1> HIDE DEF d
<1>3. InTurn(Offer(s, o, d)) /\ Offer(s, o, d) \in Rows
  BY <1>1, <1>2, OfferInTurn
<1> QED
  BY <1>3 DEF d

LEMMA RepairShown ==
  ASSUME NEW s, Stood(s)
  PROVE  /\ Shown(Repair(s, s), Repair(s, s)) /\ SameSearch(s, Repair(s, s))
         /\ Repair(s, s) \in Rows /\ Repair(s, s).ahead = s.ahead
<1> DEFINE r == Repair(s, s)
<1>1. s \in Rows /\ Stands(s, s) /\ Good(s) /\ InLine(s)
  BY DEF Stood, Good, InLine, Stands
<1>2. r \in Rows /\ SameLine(s, r)
  BY <1>1, RepairGood, RepairLine DEF Good
<1>3. SameSearch(s, r) /\ r.ahead = s.ahead /\ \A d \in Idle(s) : r.row[d] = "waiting"
  BY <1>1, RepairSearch
<1>4. InLine(r)
  BY <1>1, <1>2, SameInLine
<1> HIDE DEF r
<1>5. Idle(r) = Idle(s)
  BY <1>3, SameSearchIdle
<1>6. Still(r) \subseteq Free(r)
  BY <1>3, <1>5 DEF Still, Idle, Free
<1> QED
  BY <1>2, <1>3, <1>4, <1>6 DEF Shown, r

LEMMA NoDriverInTurn ==
  ASSUME NEW s \in Rows, InTurn(s), NEW o \in Orders, \A e \in Drivers : ~Engages(s, o, e)
  PROVE  InTurn(NoDriver(s, o))
<1> DEFINE t == [s EXCEPT !.status[o] = "no_drivers"]
           u == [t EXCEPT !.status[o] = "chat_search", !.chatcard[o] = TRUE]
           n == NoDriver(s, o)
           SameBut(x) ==
             /\ x.driver = s.driver /\ x.parallel = s.parallel /\ x.declined = s.declined
             /\ x.online = s.online /\ x.dstat = s.dstat /\ x.ahead = s.ahead
             /\ x.offered = s.offered
             /\ \A p \in Orders \ {o} : x.status[p] = s.status[p]
<1>1. /\ t.driver = s.driver /\ t.parallel = s.parallel /\ t.declined = s.declined
      /\ t.online = s.online /\ t.dstat = s.dstat /\ t.ahead = s.ahead /\ t.offered = s.offered
      /\ \A p \in Orders \ {o} : t.status[p] = s.status[p]
      /\ DOMAIN t = DOMAIN s /\ DOMAIN t.status = Orders
  BY DEF Rows
<1> HIDE DEF t
<1>2. SameBut(u) /\ SameBut(Enqueue(t, o))
  <2>1. SameBut(u)
    BY <1>1 DEF Rows
  <2>2. SameBut(Enqueue(t, o))
    BY <1>1 DEF Enqueue, Rows
  <2> QED
    BY <2>1, <2>2
<1>3. n \in {t, u, Enqueue(t, o)}
  BY DEF NoDriver, t
<1> HIDE DEF u, n
<1>4. SameBut(n)
  BY <1>1, <1>2, <1>3
<1>5. \A p \in Orders : \A e \in Free(db) : Engages(s, p, e) => Engages(n, p, e)
  BY <1>4 DEF Engages, Free
<1>6. Harmless(s, n, NONE)
  BY <1>4, <1>5, HarmlessColumns
<1>7. NONE \notin Still(n)
  BY NoneAssumption DEF Still, Free
<1>8. InTurn(n)
  BY <1>6, <1>7, HarmlessInTurn
<1> QED
  BY <1>8 DEF n

LEMMA OfferNextInTurn ==
  ASSUME NEW s, Stood(s), InTurn(s), NEW o \in Orders, NEW excluded, excluded \cap Still(s) = {}
  PROVE  InTurn(OfferNext(s, o, excluded))
<1>1. CASE ~Dispatchable(s, o)
  BY <1>1 DEF OfferNext
<1>2. CASE Dispatchable(s, o)
  <2> DEFINE r == Repair(s, s)
             x == excluded \cup r.declined[o]
  <2>1. /\ Shown(r, r) /\ SameSearch(s, r) /\ r \in Rows /\ r.ahead = s.ahead
        /\ Still(r) = Still(s)
    BY RepairShown, SameSearchIdle
  <2>2. \A e \in Drivers : ~Engages(s, o, e)
    BY <1>2, NoneAssumption DEF Dispatchable, Engages
  <2>3. OfferNext(s, o, excluded) =
          IF NextWaiting(r, x) # NONE THEN Offer(r, o, NextWaiting(r, x))
          ELSE IF NextWaiting(r, r.declined[o]) # NONE
          THEN Offer(r, o, NextWaiting(r, r.declined[o])) ELSE NoDriver(r, o)
    BY <1>2 DEF OfferNext
  <2> HIDE DEF r
  <2>4. InTurn(r) /\ \A e \in Drivers : ~Engages(r, o, e)
    BY <2>1, <2>2, SameSearchInTurn, SameSearchIdle
  <2>5. x \cap Still(r) \subseteq r.declined[o]
    BY <2>1
  <2> HIDE DEF x
  <2>6. NextWaiting(r, x) # NONE => InTurn(Offer(r, o, NextWaiting(r, x)))
    BY <2>1, <2>4, <2>5, ChosenInTurn
  <2>7. NextWaiting(r, r.declined[o]) # NONE
        => InTurn(Offer(r, o, NextWaiting(r, r.declined[o])))
    BY <2>1, <2>4, ChosenInTurn
  <2>8. InTurn(NoDriver(r, o))
    BY <2>1, <2>4, NoDriverInTurn
  <2> QED
    BY <2>3, <2>6, <2>7, <2>8
<1> QED
  BY <1>1, <1>2

LEMMA ScanInTurn ==
  ASSUME NEW list, NEW w, NEW s, Good(s), Shown(w, s), InTurn(s), NEW t \in Scan(list, w, s)
  PROVE  InTurn(t)
<1>0. s \in Rows
  BY DEF Good
<1>1. CASE t = s
  BY <1>1
<1>2. CASE t # s
  <2>1. PICK o \in Servable(list, w, s) : t \in Outcomes(w, s, o)
    BY <1>2 DEF Scan
  <2>2. o \in Orders /\ NextWaiting(w, s.declined[o]) # NONE
    BY <2>1 DEF Servable
  <2>3. \/ t = Asked(s, o)
        \/ /\ t = Served(w, s, o)
           /\ s.status[o] \in Candidate /\ s.driver[o] = NONE /\ s.parallel[o] = NONE
    BY <1>2, <2>1 DEF Outcomes
  <2>4. CASE t = Asked(s, o)
    BY <1>0, <2>4, SearchUntouched, SameSearchInTurn
  <2>5. CASE /\ t = Served(w, s, o)
             /\ s.status[o] \in Candidate /\ s.driver[o] = NONE /\ s.parallel[o] = NONE
    <3> DEFINE q == Dequeue(s, o)
               d == NextWaiting(w, s.declined[o])
               u == Offer(q, o, d)
    <3>1. q \in Rows /\ SameSearch(s, q) /\ q.ahead = s.ahead
      BY <1>0, <2>2, SearchUntouched, DequeueGood, GoodRows
    <3>2. t \in {u, ResetCreator(u, o)}
      BY <2>5 DEF Served
    <3>3. \A e \in Drivers : ~Engages(s, o, e)
      BY <2>5 DEF Engages, Candidate, Riding
    <3> HIDE DEF q
    <3>4. /\ InTurn(q) /\ Shown(w, q) /\ q.declined = s.declined
          /\ \A e \in Drivers : ~Engages(q, o, e)
      BY <3>1, <3>3, SameSearchInTurn, SameSearchIdle DEF Shown, SameSearch
    <3>5. InTurn(u) /\ u \in Rows
      BY <2>2, <3>1, <3>4, ChosenInTurn
    <3> HIDE DEF u
    <3> QED
      BY <3>2, <3>5, SearchUntouched, SameSearchInTurn
  <2> QED
    BY <2>3, <2>4, <2>5
<1> QED
  BY <1>1, <1>2

\* try_promote on flushed rows, or on the rows before the step.
LEMMA PromotesInTurn ==
  ASSUME NEW v, NEW s, Stood(s), InTurn(s),
         v = s \/ (v = db /\ Stood(db) /\ SameLine(db, s)), NEW t \in Promotes(v, s)
  PROVE  InTurn(t)
<1> DEFINE r == Repair(v, s)
           w == IF r = s THEN v ELSE r
           p == PausePrompts(w, r, NONE)
<1>1. s \in Rows /\ v \in Rows /\ Stands(v, s) /\ InLine(s) /\ InLine(v) /\ v.ahead = s.ahead
      /\ Good(s)
  BY DEF Stood, Good, InLine, SameLine, Stands
<1>2. Good(r) /\ r \in Rows /\ SameLine(s, r) /\ SameSearch(s, r) /\ r.ahead = s.ahead
      /\ \A d \in Idle(v) : r.row[d] = "waiting"
  BY <1>1, RepairGood, RepairLine, RepairSearch DEF Good
<1>3. t \in {s, r} \cup Scan(v, w, r) \cup Scan(w, w, p)
  BY DEF Promotes
<1> HIDE DEF r
<1>4. InTurn(r) /\ InLine(r) /\ Still(r) = Still(s) /\ Idle(r) = Idle(s)
  BY <1>1, <1>2, SameSearchInTurn, SameInLine, SameSearchIdle
<1>5. Still(r) \subseteq Free(w)
  <2>1. \A d \in Still(r) : d \in Idle(v)
    <3>1. CASE v = s
      BY <1>4, <3>1 DEF Still
    <3>2. CASE v = db
      BY <3>2 DEF Still, Free, Idle
    <3> QED
      BY <3>1, <3>2
  <2>2. Still(r) \subseteq Free(r)
    BY <1>2, <2>1 DEF Still, Idle, Free
  <2>3. v = db => Still(r) \subseteq Free(v)
    BY DEF Still
  <2> QED
    BY <2>2, <2>3
<1>6. Shown(w, r)
  BY <1>1, <1>2, <1>4, <1>5 DEF Shown
<1> HIDE DEF w
<1>7. Good(p) /\ SameSearch(r, p) /\ p.ahead = r.ahead
  BY <1>2, PausePromptsGood, SearchUntouched
<1> HIDE DEF p
<1>8. InTurn(p) /\ Shown(w, p)
  BY <1>4, <1>6, <1>7, SameSearchInTurn, SameSearchIdle DEF Shown
<1> QED
  BY <1>2, <1>3, <1>4, <1>6, <1>7, <1>8, ScanInTurn

\* What a handler does to the driver whose message it answers.
LEMMA DriverHarmless ==
  ASSUME NEW s \in Rows, NEW d \in Drivers
  PROVE  /\ Harmless(s, SetAway(s, d), d) /\ d \notin Idle(SetAway(s, d))
         /\ Harmless(s, MarkAssigned(s, d), d) /\ d \notin Idle(MarkAssigned(s, d))
         /\ Harmless(s, ReleaseOffer(s, d), d)
         /\ Harmless(s, [LeaveQueue(s, d) EXCEPT !.online[d] = FALSE], d)
         /\ \A temp : Harmless(s, LeaveTemporary(s, d, temp), d)
<1> DEFINE Moved(t) ==
             /\ t.status = s.status /\ t.offered = s.offered /\ t.driver = s.driver
             /\ t.parallel = s.parallel /\ t.declined = s.declined
             /\ \A e \in Drivers \ {d} : t.online[e] = s.online[e] /\ t.dstat[e] = s.dstat[e]
             /\ t.ahead \subseteq s.ahead
<1>1. ASSUME NEW t, Moved(t) PROVE Harmless(s, t, d)
  <2>1. \A o \in Orders : \A e \in Drivers : Engages(s, o, e) => Engages(t, o, e)
    BY <1>1 DEF Engages
  <2>2. \A o \in Orders : \A e \in Free(db) \ {d} : Engages(s, o, e) => Engages(t, o, e)
    BY <2>1 DEF Free
  <2> QED
    BY <1>1, <2>2, HarmlessColumns
<1>2. Moved(SetAway(s, d)) /\ SetAway(s, d).dstat[d] = "away"
  BY DEF SetAway, Rows
<1>3. Moved(MarkAssigned(s, d)) /\ MarkAssigned(s, d).dstat[d] = "busy"
  BY DEF MarkAssigned, Rows
<1>4. Moved(ReleaseOffer(s, d))
  BY DEF ReleaseOffer, Rows
<1>5. Moved([LeaveQueue(s, d) EXCEPT !.online[d] = FALSE])
  <2> DEFINE l == LeaveQueue(s, d)
             t == [l EXCEPT !.online[d] = FALSE]
  <2>1. Moved(l) /\ l.online = s.online /\ DOMAIN l = DOMAIN s
    BY DEF LeaveQueue, Rows
  <2> HIDE DEF l
  <2>2. /\ t.online = [s.online EXCEPT ![d] = FALSE] /\ t.dstat = l.dstat /\ t.ahead = l.ahead
        /\ t.status = l.status /\ t.offered = l.offered /\ t.driver = l.driver
        /\ t.parallel = l.parallel /\ t.declined = l.declined
    BY <2>1 DEF Rows
  <2> HIDE DEF t
  <2>3. Moved(t)
    BY <2>1, <2>2 DEF Rows
  <2> QED
    BY <2>3 DEF t, l
<1>6. Moved(s)
  OBVIOUS
<1> HIDE DEF Moved
<1>7. \A temp : Harmless(s, LeaveTemporary(s, d, temp), d)
  BY <1>1, <1>5, <1>6 DEF LeaveTemporary
<1> QED
  BY <1>1, <1>2, <1>3, <1>4, <1>5, <1>7 DEF Idle

\* The tail of the line: behind everybody who was in it before the step.
LEMMA JoinHarmless ==
  ASSUME NEW s \in Rows, NEW d \in Drivers, db.ahead \subseteq s.ahead
  PROVE  Harmless(s, [JoinQueue(s, d) EXCEPT !.online[d] = TRUE], d)
<1> DEFINE l == JoinQueue(s, d)
           t == [l EXCEPT !.online[d] = TRUE]
<1>1. /\ l.status = s.status /\ l.offered = s.offered /\ l.driver = s.driver
      /\ l.parallel = s.parallel /\ l.declined = s.declined /\ l.online = s.online
      /\ l.dstat = [s.dstat EXCEPT ![d] = "online"] /\ DOMAIN l = DOMAIN s
  BY DEF JoinQueue, Rows
<1> HIDE DEF l
<1>2. /\ t.status = s.status /\ t.offered = s.offered /\ t.driver = s.driver
      /\ t.parallel = s.parallel /\ t.declined = s.declined
      /\ t.online = [s.online EXCEPT ![d] = TRUE] /\ t.dstat = l.dstat
  BY <1>1 DEF Rows
<1> HIDE DEF t
<1>3. \A e \in Drivers \ {d} : t.online[e] = s.online[e] /\ t.dstat[e] = s.dstat[e]
  BY <1>1, <1>2 DEF Rows
<1>4. \A o \in Orders : \A e \in Free(db) \ {d} : Engages(s, o, e) => Engages(t, o, e)
  BY <1>2 DEF Engages
<1>5. Harmless(s, t, d)
  BY <1>2, <1>3, <1>4, HarmlessColumns
<1> QED
  BY <1>5 DEF t, l

\* Nobody who was free before the step has the order, but perhaps d.
OnlyBy(s, o, d) == \A e \in Free(db) \ {d} : ~Engages(s, o, e)

\* One order changes, which makes nobody else idle, and is not offered anew.
LEMMA OrderHarmless ==
  ASSUME NEW s, NEW t, NEW o \in Orders, NEW d, OnlyBy(s, o, d),
         \A p \in Orders \ {o} : /\ t.status[p] = s.status[p] /\ t.offered[p] = s.offered[p]
                               /\ t.driver[p] = s.driver[p] /\ t.parallel[p] = s.parallel[p]
                               /\ t.declined[p] = s.declined[p],
         t.offered[o] = NONE \/ (t.offered[o] = s.offered[o] /\ s.declined[o] \subseteq t.declined[o]),
         t.online = s.online, t.dstat = s.dstat, t.ahead = s.ahead
  PROVE  Harmless(s, t, d)
<1>1. \A p \in Orders : \A e \in Free(db) \ {d} : Engages(s, p, e) => Engages(t, p, e)
  BY DEF Engages, OnlyBy
<1> QED
  BY <1>1, HarmlessColumns

LEMMA CloseHarmless ==
  ASSUME NEW s \in Rows, NEW o \in Orders, NEW d, OnlyBy(s, o, d), s.offered[o] = NONE, NEW status
  PROVE  Harmless(s, Close(s, o, status), d) /\ Harmless(s, CloseFor(s, o, status), d)
<1> DEFINE f == ForgetSearch(s, o)
           g == ForgetRide(f, o)
           c == Close(s, o, status)
<1>1. /\ f.status = s.status /\ f.offered = s.offered /\ f.driver = s.driver
      /\ f.parallel = s.parallel /\ f.online = s.online /\ f.dstat = s.dstat
      /\ f.ahead = s.ahead /\ f.declined = [s.declined EXCEPT ![o] = {}] /\ DOMAIN f = DOMAIN s
  BY DEF ForgetSearch, Rows
<1> HIDE DEF f
<1>2. /\ g.status = s.status /\ g.offered = s.offered /\ g.driver = s.driver
      /\ g.parallel = s.parallel /\ g.online = s.online /\ g.dstat = s.dstat
      /\ g.ahead = s.ahead /\ g.declined = f.declined /\ DOMAIN g = DOMAIN s
  BY <1>1 DEF ForgetRide, Rows
<1>3. c = [g EXCEPT !.status[o] = status, !.driver[o] = NONE]
  BY DEF Close, f, g
<1> HIDE DEF g, c
<1>4. /\ c.offered = s.offered /\ c.parallel = s.parallel /\ c.online = s.online
      /\ c.dstat = s.dstat /\ c.ahead = s.ahead /\ c.declined = f.declined /\ DOMAIN c = DOMAIN s
      /\ \A p \in Orders \ {o} : c.status[p] = s.status[p] /\ c.driver[p] = s.driver[p]
  BY <1>2, <1>3 DEF Rows
<1>5. Harmless(s, c, d)
  <2>1. \A p \in Orders \ {o} : c.declined[p] = s.declined[p]
    BY <1>1, <1>4 DEF Rows
  <2> QED
    BY <1>4, <2>1, OrderHarmless
<1>6. Harmless(c, ResetCreator(c, o), d)
  <2> DEFINE r == ResetCreator(c, o)
  <2>1. SameSearch(c, r) /\ r.ahead = c.ahead
    BY <1>4 DEF SameSearch, ResetCreator, Rows
  <2> HIDE DEF r
  <2>2. Harmless(c, r, d)
    BY <2>1, SameSearchHarmless
  <2> QED
    BY <2>2 DEF r
<1>7. CloseFor(s, o, status) = c \/ CloseFor(s, o, status) = ResetCreator(c, o)
  BY DEF CloseFor, c
<1>8. Harmless(s, ResetCreator(c, o), d)
  BY <1>5, <1>6, HarmlessTrans
<1>9. Harmless(s, c, d) /\ Harmless(s, CloseFor(s, o, status), d)
  BY <1>5, <1>7, <1>8
<1> QED
  BY <1>9 DEF c

(***************************************************************************)
(* Where a driver's handler starts from                                    *)
(***************************************************************************)
\* The offer that a driver on a ride hands on was the driver's before the step.
LEMMA BeginMine ==
  ASSUME Stood(db), NEW d \in Drivers  PROVE Mine(Begin(d), d)
<1> DEFINE s == Adopt(db, d)
           o == PendingOffer(s, d)
           t == [s EXCEPT !.offered[o] = NONE, !.status[o] = "created", !.card[o] = FALSE]
           m == MarkAssigned(t, d)
<1>1. Good(db) /\ Keeps(db, s) /\ Good(s) /\ s \in Rows
  BY AdoptKeeps, GoodRows DEF Stood
<1>2. SameLine(db, s) /\ InLine(s)
  BY <1>1, AdoptLine, SameInLine DEF Stood, Good
<1>3. Begin(d) = s \/ (o # NONE /\ Begin(d) = OfferNext(m, o, {d}))
  BY DEF Begin, ReleaseStale
<1> HIDE DEF s
<1>4. CASE Begin(d) = s
  BY <1>1, <1>4, FewerUnoffered
<1>5. CASE o # NONE /\ Begin(d) = OfferNext(m, o, {d})
  <2>1. o \in Orders /\ s.status[o] = "searching" /\ s.offered[o] = d
    BY <1>5, PendingOfferIn
  <2> HIDE DEF o
  <2>2. d \notin Free(db)
    BY <1>1, <2>1, NoneAssumption DEF Keeps, Fewer, Free, Engaged, HasOffer
  <2>3. t \in Rows /\ t.row = s.row /\ t.online = s.online /\ t.ahead = s.ahead
        /\ t.offered[o] = NONE /\ t.driver = s.driver /\ t.parallel = s.parallel
        /\ \A p \in Orders \ {o} : t.status[p] = s.status[p] /\ t.offered[p] = s.offered[p]
    BY <1>1, <2>1, StatusValues, ZenonT(40) DEF Rows
  <2> HIDE DEF t
  <2>4. Keeps(s, t)
    BY <1>1, <2>1, <2>3, OneOrderKeeps
  <2>5. Keeps(t, m) /\ SameLine(t, m)
    BY <2>3, <2>4, MarkAssignedGood, DriversLine, GoodRows
  <2> HIDE DEF m
  <2>6. Keeps(db, m) /\ SameLine(s, m)
    BY <1>1, <2>3, <2>4, <2>5, KeepsTransitive, SameColumns, SameLineTrans
  <2>7. InTurn(m) /\ Stood(m)
    BY <1>2, <2>6, FewerUnoffered, SameInLine, GoodRows DEF Stood
  <2>8. {d} \cap Still(m) = {}
    BY <2>2 DEF Still
  <2>9. InTurn(OfferNext(m, o, {d}))
    BY <2>1, <2>7, <2>8, OfferNextInTurn
  <2> QED
    BY <1>5, <2>2, <2>9 DEF Mine
<1> QED
  BY <1>3, <1>4, <1>5

LEMMA BeginReady ==
  ASSUME Stood(db), NEW d \in Drivers
  PROVE  Mine(Begin(d), d) /\ Stood(Begin(d)) /\ Good(Begin(d)) /\ Begin(d) \in Rows
         /\ Begin(d).ahead = db.ahead
BY BeginMine, BeginFrom, FromStood, BeginLine DEF Stood, SameLine

\* Looking for a driver reserves no order, and changes the status of none other.
LEMMA OfferNextStatus ==
  ASSUME NEW s, Good(s), NEW o \in Orders, NEW excluded
  PROVE  /\ OfferNext(s, o, excluded).driver = s.driver
         /\ OfferNext(s, o, excluded).parallel = s.parallel
         /\ \A p \in Orders \ {o} : OfferNext(s, o, excluded).status[p] = s.status[p]
         /\ OfferNext(s, o, excluded).status[o] \in Pending \cup {s.status[o]}
<1> DEFINE r == Repair(s, s)
           Found(t) == /\ t.driver = s.driver /\ t.parallel = s.parallel
                       /\ \A p \in Orders \ {o} : t.status[p] = s.status[p]
                       /\ t.status[o] \in Pending
<1>1. /\ r \in Rows /\ r.status = s.status /\ r.driver = s.driver /\ r.parallel = s.parallel
      /\ s \in Rows
  BY RepairGood DEF Good
<1> HIDE DEF r
<1>2. ASSUME NEW e PROVE Found(Offer(r, o, e))
  <2> DEFINE t == [r EXCEPT !.status[o] = "searching", !.offered[o] = e, !.card[o] = TRUE,
                            !.current[CreatorOf[o]] = e, !.row[e] = "offered"]
             u == PausePrompts(t, t, o)
  <2>1. Found(t) /\ DOMAIN t = DOMAIN r
    BY <1>1 DEF Rows, Pending
  <2> HIDE DEF t
  <2>2. u.status = t.status /\ u.driver = t.driver /\ u.parallel = t.parallel
    BY <1>1, <2>1 DEF PausePrompts, Rows
  <2> HIDE DEF u
  <2>3. Found(u)
    BY <2>1, <2>2
  <2> QED
    BY <2>3 DEF Offer, t, u
<1>3. Found(NoDriver(r, o))
  <2> DEFINE t == [r EXCEPT !.status[o] = "no_drivers"]
             u == [t EXCEPT !.status[o] = "chat_search", !.chatcard[o] = TRUE]
  <2>1. Found(t) /\ DOMAIN t = DOMAIN r /\ DOMAIN t.status = Orders
    BY <1>1 DEF Rows, Pending, Candidate
  <2> HIDE DEF t
  <2>2. Found(u)
    BY <1>1, <2>1 DEF Rows, Pending
  <2>3. Found(Enqueue(t, o))
    BY <1>1, <2>1 DEF Enqueue, Rows, Pending, Candidate
  <2> HIDE DEF u
  <2> QED
    BY <2>1, <2>2, <2>3 DEF NoDriver, t, u
<1>4. CASE ~Dispatchable(s, o)
  BY <1>4 DEF OfferNext
<1>5. CASE Dispatchable(s, o)
  <2>1. OfferNext(s, o, excluded) = NoDriver(r, o)
        \/ \E e : OfferNext(s, o, excluded) = Offer(r, o, e)
    BY <1>5 DEF OfferNext, r
  <2> QED
    BY <1>2, <1>3, <2>1
<1> QED
  BY <1>4, <1>5

LEMMA AdoptOrders ==
  ASSUME NEW s \in Rows, NEW d
  PROVE  /\ Adopt(s, d).status = s.status
         /\ \A o \in Orders : s.status[o] = "parallel_assigned" =>
               /\ Adopt(s, d).driver[o] = s.driver[o]
               /\ Adopt(s, d).parallel[o] = s.parallel[o]
<1> DEFINE legacy == Newest({o \in Orders : /\ s.parallel[o] = d /\ s.driver[o] = NONE
                                           /\ s.status[o] \in Riding})
           a == [s EXCEPT !.driver[legacy] = d]
           t == IF legacy # NONE /\ ActiveRide(s, d) = NONE THEN a ELSE s
           ride == ActiveRide(t, d)
           u == [t EXCEPT !.parallel[ride] = NONE, !.peta[ride] = FALSE]
<1>1. legacy # NONE => s.status[legacy] \in Riding
  BY NewestIn
<1>2. ride # NONE => t.status[ride] # "parallel_assigned"
  <2> HIDE DEF t
  <2> QED
    BY NewestIn DEF ActiveRide, ActiveOf, Riding
<1> HIDE DEF legacy
<1>3. a.status = s.status /\ a.parallel = s.parallel /\ DOMAIN a = DOMAIN s
      /\ \A o \in Orders : o # legacy => a.driver[o] = s.driver[o]
  BY DEF Rows
<1> HIDE DEF a
<1>4. t.status = s.status /\ t.parallel = s.parallel /\ DOMAIN t = DOMAIN s
      /\ \A o \in Orders : s.status[o] = "parallel_assigned" => t.driver[o] = s.driver[o]
  BY <1>1, <1>3 DEF Riding
<1> HIDE DEF t, ride
<1>5. u.status = t.status /\ u.driver = t.driver
      /\ \A o \in Orders : o # ride => u.parallel[o] = t.parallel[o]
  BY <1>4 DEF Rows
<1>6. \/ Adopt(s, d) = u /\ ride # NONE
      \/ Adopt(s, d) = t
  BY DEF Adopt, ride, t, a, legacy
<1> HIDE DEF u
<1>7. CASE Adopt(s, d) = u /\ ride # NONE
  BY <1>2, <1>4, <1>5, <1>7
<1>8. CASE Adopt(s, d) = t
  BY <1>4, <1>8
<1> QED
  BY <1>6, <1>7, <1>8

\* A reserved order was so before the step: its driver was not free.
LEMMA BeginReserved ==
  ASSUME Stood(db), NEW d \in Drivers, NEW o \in Orders,
         Begin(d).status[o] = "parallel_assigned"
  PROVE  \A e : OnlyBy(Begin(d), o, e)
<1> DEFINE s == Adopt(db, d)
           p == PendingOffer(s, d)
           t == [s EXCEPT !.offered[p] = NONE, !.status[p] = "created", !.card[p] = FALSE]
           m == MarkAssigned(t, d)
           b == Begin(d)
<1>1. Good(db) /\ Keeps(db, s) /\ Good(s) /\ s \in Rows /\ db \in Rows
  BY AdoptKeeps, GoodRows DEF Stood, Good
<1>2. /\ s.status = db.status
      /\ db.status[o] = "parallel_assigned"
         => s.driver[o] = db.driver[o] /\ s.parallel[o] = db.parallel[o]
  BY <1>1, AdoptOrders
<1>3. b = s \/ (p # NONE /\ b = OfferNext(m, p, {d}))
  BY DEF Begin, ReleaseStale
<1> HIDE DEF s
<1>4. s.status[o] = "parallel_assigned" /\ b.driver[o] = s.driver[o] /\ b.parallel[o] = s.parallel[o]
  <2>1. CASE b = s
    BY <2>1
  <2>2. CASE p # NONE /\ b = OfferNext(m, p, {d})
    <3>1. p \in Orders /\ s.status[p] = "searching" /\ s.offered[p] = d
      BY <2>2, PendingOfferIn
    <3> HIDE DEF p
    <3>2. t \in Rows
      BY <1>1, <3>1, StatusValues DEF Rows
    <3>7. /\ t.offered[p] = NONE /\ t.driver = s.driver /\ t.parallel = s.parallel
          /\ t.status[p] = "created"
          /\ \A q \in Orders \ {p} : t.status[q] = s.status[q] /\ t.offered[q] = s.offered[q]
      BY <1>1, <3>1 DEF Rows
    <3> HIDE DEF t
    <3>8. Keeps(s, t)
      BY <1>1, <3>1, <3>2, <3>7, OneOrderKeeps
    <3>3. Good(t)
      BY <3>8 DEF Keeps
    <3>4. Good(m) /\ m.status = t.status /\ m.driver = t.driver /\ m.parallel = t.parallel
      BY <3>2, <3>3, MarkAssignedGood, GoodRows DEF MarkAssigned, Rows
    <3> HIDE DEF m
    <3>5. /\ b.driver = s.driver /\ b.parallel = s.parallel
          /\ \A q \in Orders \ {p} : b.status[q] = s.status[q]
          /\ b.status[p] \in Pending \cup {"created"}
      BY <2>2, <3>1, <3>7, <3>4, OfferNextStatus
    <3>6. p # o
      BY <3>5 DEF Pending, Candidate
    <3> QED
      BY <3>5, <3>6
  <2> QED
    BY <1>3, <2>1, <2>2
<1> HIDE DEF b
<1>5. \A e : Engages(b, o, e) => Engages(db, o, e)
  BY <1>2, <1>4 DEF Engages, b
<1>6. \A e \in Free(db) : ~Engages(b, o, e)
  BY <1>5, EngagedBy DEF Free
<1> QED
  BY <1>6 DEF OnlyBy, b

(***************************************************************************)
(* What the handlers do besides                                            *)
(***************************************************************************)
LEMMA SettledInTurn ==
  ASSUME NEW s, Stood(s), InTurn(s), NEW t \in Promotes(s, s)  PROVE InTurn(t)
BY PromotesInTurn

LEMMA UnflushedInTurn ==
  ASSUME NEW s, Stood(db), Keeps(db, s), SameLine(db, s), NEW t \in Promotes(db, s)
  PROVE  InTurn(t)
BY FewerUnoffered, SameInLine, PromotesInTurn DEF Stood, Keeps

\* The order is offered, and then perhaps another one.
LEMMA PassedInTurn ==
  ASSUME NEW s, Stood(s), InTurn(s), NEW o \in Orders,
         NEW t \in Promotes(OfferNext(s, o, {}), OfferNext(s, o, {}))
  PROVE  InTurn(t)
<1>1. Stood(OfferNext(s, o, {})) /\ InTurn(OfferNext(s, o, {}))
  BY OrdersFrom, FromStood, OfferNextInTurn
<1> QED
  BY <1>1, SettledInTurn

\* The driver's handler does nothing but harmless changes.
LEMMA MessageInTurn ==
  ASSUME Stood(db), NEW d \in Drivers, NEW t, Harmless(Begin(d), t, d)  PROVE InTurn(t)
BY BeginReady, HarmlessMine, MineInTurn

\* Columns of one order that say who is engaged by it.
SameOffer(s, t, o) ==
    /\ t.status[o] = s.status[o] /\ t.offered[o] = s.offered[o]
    /\ t.driver[o] = s.driver[o] /\ t.parallel[o] = s.parallel[o]

LEMMA SameOfferOnlyBy ==
  ASSUME NEW s, NEW t, NEW o, NEW d, SameOffer(s, t, o), OnlyBy(s, o, d)  PROVE OnlyBy(t, o, d)
BY DEF SameOffer, OnlyBy, Engages

\* The ride of a driver is nobody else's.
LEMMA RideOnlyBy ==
  ASSUME NEW s, Good(s), NEW d \in Drivers, ActiveRide(s, d) # NONE
  PROVE  /\ ActiveRide(s, d) \in Orders /\ s.driver[ActiveRide(s, d)] = d
         /\ s.offered[ActiveRide(s, d)] = NONE /\ OnlyBy(s, ActiveRide(s, d), d)
         /\ s.status[ActiveRide(s, d)] # "parallel_assigned"
<1> DEFINE o == ActiveRide(s, d)
<1>1. /\ o \in Orders /\ s.driver[o] = d
      /\ s.status[o] \in Riding \cup {"created", "queued", "searching", "chat_search"}
  BY NewestIn DEF ActiveRide, ActiveOf
<1> HIDE DEF o
<1>2. s.offered[o] = NONE
  BY <1>1, NoneAssumption DEF Good
<1>3. s.status[o] # "parallel_assigned"
  BY <1>1 DEF Riding
<1>4. OnlyBy(s, o, d)
  BY <1>1, <1>2, <1>3, NoneAssumption DEF OnlyBy, Engages, Free
<1> QED
  BY <1>1, <1>2, <1>3, <1>4 DEF o

LEMMA PromoteAfterHarmless ==
  ASSUME NEW v, NEW s \in Rows, NEW d \in Drivers, Reserved(v, d) \in Orders,
         OnlyBy(s, Reserved(v, d), d)
  PROVE  Harmless(s, PromoteAfter(v, s, d), d)
<1> DEFINE o == Reserved(v, d)
           t == [s EXCEPT !.status[o] = "assigned", !.driver[o] = d, !.parallel[o] = NONE,
                          !.peta[o] = FALSE]
<1>0. o \in Orders /\ OnlyBy(s, o, d)
  OBVIOUS
<1>1. PromoteAfter(v, s, d) = t
  BY DEF PromoteAfter
<1> HIDE DEF o
<1>2. /\ t.offered = s.offered /\ t.declined = s.declined /\ t.online = s.online
      /\ t.dstat = s.dstat /\ t.ahead = s.ahead
      /\ \A p \in Orders \ {o} : /\ t.status[p] = s.status[p] /\ t.driver[p] = s.driver[p]
                                /\ t.parallel[p] = s.parallel[p]
  BY <1>0 DEF Rows
<1> HIDE DEF t
<1>3. Harmless(s, t, d)
  BY <1>0, <1>2, OrderHarmless
<1> QED
  BY <1>1, <1>3

\* A reserved order that is parked again.
LEMMA ReleaseHarmless ==
  ASSUME NEW s \in Rows, NEW o \in Orders, NEW d, OnlyBy(s, o, d)
  PROVE  Harmless(s, Release(s, o), d)
<1> DEFINE q == [s EXCEPT !.parallel[o] = NONE, !.peta[o] = FALSE, !.driver[o] = NONE,
                          !.status[o] = "queued"]
           e == Enqueue(q, o)
           t == [e EXCEPT !.pq[o] = "waiting"]
           But(x) == /\ x.offered = s.offered /\ x.declined = s.declined /\ x.online = s.online
                     /\ x.dstat = s.dstat /\ x.ahead = s.ahead
                     /\ \A p \in Orders \ {o} : /\ x.status[p] = s.status[p]
                                               /\ x.driver[p] = s.driver[p]
                                               /\ x.parallel[p] = s.parallel[p]
<1>1. But(q) /\ DOMAIN q = DOMAIN s /\ DOMAIN q.status = Orders
  BY DEF Rows
<1> HIDE DEF q
<1>2. But(e) /\ DOMAIN e = DOMAIN s
  BY <1>1 DEF Enqueue, Rows
<1> HIDE DEF e
<1>3. But(t)
  BY <1>2 DEF Rows
<1> HIDE DEF t
<1>4. Harmless(s, t, d)
  BY <1>3, OrderHarmless
<1> QED
  BY <1>4 DEF Release, q, e, t

\* Closing an order, and leaving the line, change no other order.
LEMMA CloseElsewhere ==
  ASSUME NEW s \in Rows, NEW o \in Orders, NEW status,
         NEW p \in Orders \ {o}
  PROVE  SameOffer(s, CloseFor(s, o, status), p)
<1> DEFINE c == Close(s, o, status)
<1>1. /\ c.offered = s.offered /\ c.parallel = s.parallel /\ DOMAIN c = DOMAIN s
      /\ c.status[p] = s.status[p] /\ c.driver[p] = s.driver[p]
  <2> DEFINE f == ForgetSearch(s, o)
             g == ForgetRide(f, o)
  <2>1. /\ f.status = s.status /\ f.offered = s.offered /\ f.driver = s.driver
        /\ f.parallel = s.parallel /\ DOMAIN f = DOMAIN s
    BY DEF ForgetSearch, Rows
  <2> HIDE DEF f
  <2>2. /\ g.status = s.status /\ g.offered = s.offered /\ g.driver = s.driver
        /\ g.parallel = s.parallel /\ DOMAIN g = DOMAIN s
    BY <2>1 DEF ForgetRide, Rows
  <2>3. c = [g EXCEPT !.status[o] = status, !.driver[o] = NONE]
    BY DEF Close, f, g
  <2> HIDE DEF g, c
  <2> QED
    BY <2>2, <2>3 DEF Rows
<1> HIDE DEF c
<1>2. SameOffer(s, c, p) /\ SameOffer(c, ResetCreator(c, o), p)
  BY <1>1 DEF SameOffer, ResetCreator, Rows
<1> QED
  BY <1>2 DEF CloseFor, c, SameOffer

LEMMA LeaveElsewhere ==
  ASSUME NEW s \in Rows, NEW d, NEW temp, NEW p
  PROVE  SameOffer(s, LeaveTemporary(s, d, temp), p)
<1> DEFINE l == LeaveQueue(s, d)
           t == [l EXCEPT !.online[d] = FALSE]
<1>1. /\ l.status = s.status /\ l.offered = s.offered /\ l.driver = s.driver
      /\ l.parallel = s.parallel /\ DOMAIN l = DOMAIN s
  BY DEF LeaveQueue, Rows
<1> HIDE DEF l
<1>2. SameOffer(s, t, p) /\ SameOffer(s, s, p)
  BY <1>1 DEF SameOffer, Rows
<1> QED
  BY <1>2 DEF LeaveTemporary, l, t

\* try_promote leaves alone the orders that have a driver.
LEMMA PromotesHeld ==
  ASSUME NEW v, v \in Rows, NEW s, Good(s), NEW t \in Promotes(v, s)
  PROVE  \A p \in Orders : s.driver[p] # NONE =>
            t.status[p] = s.status[p] /\ t.parallel[p] = s.parallel[p]
<1> DEFINE r == Repair(v, s)
           w == IF r = s THEN v ELSE r
           u == PausePrompts(w, r, NONE)
           Held(x, y) == /\ y.driver = x.driver /\ y.parallel = x.parallel
                         /\ \A p \in Orders : x.driver[p] # NONE => y.status[p] = x.status[p]
<1>1. Good(r) /\ r.status = s.status /\ r.driver = s.driver /\ r.parallel = s.parallel
  BY RepairGood
<1>2. t \in {s, r} \cup Scan(v, w, r) \cup Scan(w, w, u)
  BY DEF Promotes
<1> HIDE DEF r
<1>3. Good(u) /\ u.status = r.status /\ u.driver = r.driver /\ u.parallel = r.parallel
  BY <1>1, PausePromptsGood
<1>4. ASSUME NEW list, NEW x, Good(x), NEW y \in Scan(list, w, x)  PROVE Held(x, y)
  <2>0. x \in Rows
    BY <1>4 DEF Good
  <2>1. y = x \/ \E o \in Orders : y \in Outcomes(w, x, o)
    BY <1>4 DEF Scan, Servable
  <2>2. CASE y = x
    BY <2>2
  <2> SUFFICES ASSUME y # x PROVE Held(x, y)
    BY <2>2
  <2> PICK o \in Orders : y \in Outcomes(w, x, o)
    BY <2>1
  <2>3. y = Asked(x, o) \/ (y = Served(w, x, o) /\ x.driver[o] = NONE)
    BY DEF Outcomes
  <2>4. CASE y = Asked(x, o)
    BY <2>0, <2>4 DEF Asked, Rows
  <2>5. CASE y = Served(w, x, o) /\ x.driver[o] = NONE
    <3> DEFINE q == Dequeue(x, o)
               d == NextWaiting(w, x.declined[o])
               m == [q EXCEPT !.status[o] = "searching", !.offered[o] = d, !.card[o] = TRUE,
                              !.current[CreatorOf[o]] = d, !.row[d] = "offered"]
               z == PausePrompts(m, m, o)
    <3>1. q.status = x.status /\ q.driver = x.driver /\ q.parallel = x.parallel
          /\ DOMAIN q = DOMAIN x
      BY <2>0 DEF Dequeue, Rows
    <3> HIDE DEF q, d
    <3>2. /\ m.driver = x.driver /\ m.parallel = x.parallel /\ DOMAIN m = DOMAIN x
          /\ \A p \in Orders \ {o} : m.status[p] = x.status[p]
      BY <2>0, <3>1 DEF Rows
    <3> HIDE DEF m
    <3>3. Held(x, z) /\ DOMAIN z = DOMAIN x
      BY <2>0, <2>5, <3>2 DEF PausePrompts, Rows
    <3> HIDE DEF z
    <3>4. Held(x, ResetCreator(z, o))
      BY <2>0, <3>3 DEF ResetCreator, Rows
    <3>5. y \in {z, ResetCreator(z, o)}
      BY <2>5 DEF Served, Offer, q, d, m, z
    <3> QED
      BY <3>3, <3>4, <3>5
  <2> QED
    BY <2>3, <2>4, <2>5
<1> HIDE DEF u, w
<1>5. Held(r, t) \/ Held(u, t) \/ t \in {s, r}
  <2> HIDE DEF Held
  <2> QED
    BY <1>1, <1>2, <1>3, <1>4
<1> QED
  BY <1>1, <1>3, <1>5

(***************************************************************************)
(* The actions: nobody free is passed over                                 *)
(***************************************************************************)
LEMMA LineActionsInTurn ==
  ASSUME Stood(db), NEW d \in Drivers,
         DriverMessage(d) \/ GoOffline(d) \/ GoAway(d) \/ AwayExpire(d)
  PROVE  InTurn(db')
<1>1. Begin(d) \in Rows /\ Mine(Begin(d), d)
  BY BeginReady
<1>2. CASE DriverMessage(d)
  BY <1>1, <1>2, MineInTurn DEF DriverMessage
<1>3. CASE GoOffline(d)
  BY <1>1, <1>3, DriverHarmless, MessageInTurn DEF GoOffline
<1>4. CASE GoAway(d)
  BY <1>1, <1>4, DriverHarmless, MessageInTurn DEF GoAway
<1>5. CASE AwayExpire(d)
  <2>1. db \in Rows /\ Mine(db, d)
    BY FewerRefl, FewerUnoffered DEF Stood, Good
  <2> QED
    BY <1>5, <2>1, DriverHarmless, HarmlessMine, MineInTurn DEF AwayExpire
<1> QED
  BY <1>2, <1>3, <1>4, <1>5

LEMMA GoOnlineInTurn ==
  ASSUME Stood(db), NEW d \in Drivers, GoOnline(d)  PROVE InTurn(db')
<1> DEFINE s == Begin(d)
           t == [JoinQueue(s, d) EXCEPT !.online[d] = TRUE]
<1>1. Stood(s) /\ Good(s) /\ s \in Rows /\ s.ahead = db.ahead
  BY BeginReady
<1>2. db' \in Promotes(t, t)
  BY DEF GoOnline
<1>3. InTurn(t)
  BY <1>1, JoinHarmless, MessageInTurn
<1> HIDE DEF s
<1>4. Stood(t)
  BY <1>1, JoinLineKeeps, JoinLine, GoodRows DEF Stood, JoinedBy
<1> HIDE DEF t
<1> QED
  BY <1>2, <1>3, <1>4, SettledInTurn

LEMMA CardHarmless ==
  ASSUME NEW s \in Rows, NEW o \in Orders, NEW b, NEW d
  PROVE  Harmless(s, [s EXCEPT !.card[o] = b], d) /\ Harmless(s, [s EXCEPT !.deadline[o] = b], d)
<1> DEFINE t == [s EXCEPT !.card[o] = b]
           u == [s EXCEPT !.deadline[o] = b]
<1>1. SameSearch(s, t) /\ t.ahead = s.ahead /\ SameSearch(s, u) /\ u.ahead = s.ahead
  BY DEF SameSearch, Rows
<1> HIDE DEF t, u
<1>2. Harmless(s, t, d) /\ Harmless(s, u, d)
  BY <1>1, SameSearchHarmless
<1> QED
  BY <1>2 DEF t, u

LEMMA RideActionsInTurn ==
  ASSUME Stood(db), NEW d \in Drivers,
         ShowEtaMenu(d) \/ SetEta(d) \/ Arrived(d) \/ Seated(d)
  PROVE  InTurn(db')
<1> DEFINE s == Begin(d)
           o == ActiveRide(s, d)
<1>1. Good(s) /\ s \in Rows
  BY BeginReady
<1>2. o \in Orders /\ s.offered[o] = NONE /\ OnlyBy(s, o, d)
  BY <1>1, RideOnlyBy DEF ShowEtaMenu, SetEta, Arrived, Seated, OnRide
<1>3. ShowEtaMenu(d) => db' = [s EXCEPT !.card[o] = TRUE]
  BY DEF ShowEtaMenu
<1>4. SetEta(d) => db' = Follow([s EXCEPT !.card[o] = FALSE], o)
  BY DEF SetEta
<1>5. Arrived(d) => db' = Follow([s EXCEPT !.status[o] = "arrived"], o)
  BY DEF Arrived
<1>6. Seated(d) => db' = Follow([s EXCEPT !.status[o] = "in_progress"], o)
  BY DEF Seated
<1>7. \A t : Harmless(s, t, d) => InTurn(t)
  BY MessageInTurn
<1> HIDE DEF s, o
<1>8. ASSUME NEW b \in BOOLEAN
      PROVE  [s EXCEPT !.card[o] = b] \in Rows /\ Harmless(s, [s EXCEPT !.card[o] = b], d)
  BY <1>1, <1>2, <1>8, CardGood, CardHarmless, GoodRows
<1>9. ASSUME NEW status \in Riding
      PROVE  [s EXCEPT !.status[o] = status] \in Rows /\ Harmless(s, [s EXCEPT !.status[o] = status], d)
  <2> DEFINE t == [s EXCEPT !.status[o] = status]
  <2>1. t \in Rows
    BY <1>1, <1>9, StatusValues DEF Rows
  <2>2. /\ t.offered = s.offered /\ t.declined = s.declined /\ t.driver = s.driver
        /\ t.parallel = s.parallel /\ t.online = s.online /\ t.dstat = s.dstat
        /\ t.ahead = s.ahead /\ \A p \in Orders \ {o} : t.status[p] = s.status[p]
    BY <1>1 DEF Rows
  <2> HIDE DEF t
  <2>3. Harmless(s, t, d)
    BY <1>2, <2>2, OrderHarmless
  <2> QED
    BY <2>1, <2>3 DEF t
<1>10. ASSUME NEW t \in Rows, Harmless(s, t, d)  PROVE InTurn(t) /\ InTurn(Follow(t, o))
  BY <1>7, <1>10, SearchUntouched, SameSearchInTurn
<1>11. "arrived" \in Riding /\ "in_progress" \in Riding
  BY DEF Riding
<1> QED
  BY <1>3, <1>4, <1>5, <1>6, <1>8, <1>9, <1>10, <1>11

\* A closed ride of the driver; what follows knows the reserved order.
LEMMA RideClosed ==
  ASSUME Stood(db), NEW d \in Drivers, NEW s, s = Begin(d), ActiveRide(s, d) # NONE,
         NEW status \in Closed
  PROVE  LET c == CloseFor(s, ActiveRide(s, d), status)
         IN /\ Harmless(s, c, d) /\ Stood(c) /\ c \in Rows /\ Keeps(s, c)
            /\ Reserved(s, d) # NONE => Reserved(s, d) \in Orders /\ OnlyBy(c, Reserved(s, d), d)
<1> DEFINE o == ActiveRide(s, d)
           c == CloseFor(s, o, status)
           r == Reserved(s, d)
<1>1. Good(s) /\ s \in Rows /\ Stood(s)
  BY BeginReady
<1>2. o \in Orders /\ s.offered[o] = NONE /\ OnlyBy(s, o, d) /\ s.status[o] # "parallel_assigned"
  BY <1>1, RideOnlyBy
<1>3. r # NONE => r \in Orders /\ s.status[r] = "parallel_assigned"
  BY ReservedIn
<1> HIDE DEF o, r
<1>4. r # NONE => r \in Orders \ {o} /\ OnlyBy(s, r, d)
  BY <1>2, <1>3, BeginReserved
<1>5. Harmless(s, c, d) /\ Stood(c) /\ c \in Rows /\ Keeps(s, c)
  BY <1>1, <1>2, CloseHarmless, CloseFrom, CloseForGood, FromStood
<1>6. r # NONE => OnlyBy(c, r, d)
  BY <1>1, <1>2, <1>4, CloseElsewhere, SameOfferOnlyBy
<1> QED
  BY <1>4, <1>5, <1>6 DEF o, c, r

LEMMA CompleteInTurn ==
  ASSUME Stood(db), NEW d \in Drivers, Complete(d)  PROVE InTurn(db')
<1> DEFINE s == Begin(d)
           o == ActiveRide(s, d)
           c == CloseFor(s, o, "completed")
           t == LeaveTemporary(c, d, s.temp[o])
           r == Reserved(s, d)
<1>1. db' = IF r # NONE THEN PromoteAfter(s, t, d) ELSE SetAway(t, d)
  BY DEF Complete
<1>2. /\ Harmless(s, c, d) /\ Stood(c) /\ c \in Rows
      /\ r # NONE => r \in Orders /\ OnlyBy(c, r, d)
  BY RideClosed DEF Complete, OnRide, Closed
<1>3. \A x : Harmless(s, x, d) => InTurn(x)
  BY MessageInTurn
<1> HIDE DEF s, o, c
<1>4. Harmless(c, t, d) /\ t \in Rows /\ \A p : SameOffer(c, t, p)
  BY <1>2, DriverHarmless, DriversFrom, LeaveElsewhere, FromStood
<1> HIDE DEF t
<1>5. Harmless(s, t, d) /\ (r # NONE => OnlyBy(t, r, d))
  BY <1>2, <1>4, HarmlessTrans, SameOfferOnlyBy
<1>6. Harmless(t, db', d)
  BY <1>1, <1>2, <1>4, <1>5, PromoteAfterHarmless, DriverHarmless
<1> QED
  BY <1>3, <1>5, <1>6, HarmlessTrans

LEMMA CancelForClientInTurn ==
  ASSUME Stood(db), NEW d \in Drivers, CancelForClient(d)  PROVE InTurn(db')
<1> DEFINE s == Begin(d)
           o == ActiveRide(s, d)
           c == CloseFor(s, o, "cancelled")
           t == LeaveTemporary(SetAway(c, d), d, s.temp[o])
           u == LeaveTemporary(c, d, s.temp[o])
           r == Reserved(s, d)
<1>1. IF r # NONE THEN db' = PromoteAfter(s, u, d)
      ELSE db' \in {SetAway(q, d) : q \in Promotes(t, t)}
  BY DEF CancelForClient
<1>2. /\ Harmless(s, c, d) /\ Stood(c) /\ c \in Rows
      /\ r # NONE => r \in Orders /\ OnlyBy(c, r, d)
  BY RideClosed DEF CancelForClient, OnRide, Closed
<1>3. \A x : Harmless(s, x, d) => InTurn(x)
  BY MessageInTurn
<1> HIDE DEF s, o, c
<1>4. CASE r # NONE
  <2>1. Harmless(c, u, d) /\ u \in Rows /\ \A p : SameOffer(c, u, p)
    BY <1>2, DriverHarmless, DriversFrom, LeaveElsewhere, FromStood
  <2> HIDE DEF u
  <2>2. Harmless(s, u, d) /\ OnlyBy(u, r, d)
    BY <1>2, <1>4, <2>1, HarmlessTrans, SameOfferOnlyBy
  <2>3. Harmless(u, db', d)
    BY <1>1, <1>2, <1>4, <2>1, <2>2, PromoteAfterHarmless
  <2> QED
    BY <1>3, <2>2, <2>3, HarmlessTrans
<1>5. CASE r = NONE
  <2> DEFINE a == SetAway(c, d)
  <2>1. Harmless(c, a, d) /\ Stood(a) /\ a \in Rows
    BY <1>2, DriverHarmless, DriversFrom, FromStood
  <2>2. Harmless(a, t, d) /\ Stood(t)
    BY <2>1, DriverHarmless, DriversFrom, FromStood
  <2> HIDE DEF a, t
  <2>3. InTurn(t)
    BY <1>2, <1>3, <2>1, <2>2, HarmlessTrans
  <2>4. PICK q \in Promotes(t, t) : db' = SetAway(q, d)
    BY <1>1, <1>5
  <2>5. InTurn(q) /\ q \in Rows
    BY <2>2, <2>3, SettledInTurn, PromotesFrom, FromStood
  <2> QED
    BY <2>4, <2>5, DriverHarmless, HarmlessInTurn DEF Still
<1> QED
  BY <1>4, <1>5

LEMMA CancelForCarInTurn ==
  ASSUME Stood(db), NEW d \in Drivers, CancelForCar(d)  PROVE InTurn(db')
<1> DEFINE s == Begin(d)
           o == ActiveRide(s, d)
           first == [s EXCEPT !.deadline[o] = FALSE]
           rv == Reserved(s, d)
           t == Release(first, rv)
           Released == IF rv = NONE THEN {first} ELSE Promotes(t, t)
           Ended(r) == SetAway([LeaveQueue(Close(r, o, "cancelled"), d)
                                  EXCEPT !.online[d] = FALSE, !.driver[o] = d], d)
           Search(r) == SetAway([r EXCEPT !.driver[o] = NONE, !.status[o] = "searching"], d)
           Again(r) == OfferNext(Search(r), o, {})
<1>0. Stood(s) /\ Good(s) /\ s \in Rows
  BY BeginReady
<1>1. o \in Orders /\ s.driver[o] = d /\ s.offered[o] = NONE /\ s.status[o] # "parallel_assigned"
  BY <1>0, RideOnlyBy DEF CancelForCar, OnRide
<1>2. \E r \in Released : \/ db' = Ended(r)
                          \/ db' \in {SetAway(q, d) : q \in Promotes(Again(r), Again(r))}
  BY Zenon DEF CancelForCar
<1>3. rv # NONE => rv \in Orders \ {o} /\ OnlyBy(s, rv, d)
  <2>1. rv # NONE => rv \in Orders /\ s.status[rv] = "parallel_assigned"
    BY ReservedIn
  <2> HIDE DEF o, rv
  <2> QED
    BY <1>1, <2>1, BeginReserved
<1>4. \A x : Harmless(s, x, d) => InTurn(x)
  BY MessageInTurn
<1> HIDE DEF s, o, rv
<1>5. Harmless(s, first, d)
  BY <1>0, <1>1, CardHarmless
<1>6. /\ first \in Rows /\ first.status = s.status /\ first.offered = s.offered
      /\ first.driver = s.driver /\ first.parallel = s.parallel
      /\ first.row = s.row /\ first.online = s.online /\ first.ahead = s.ahead
  <2>1. s \in Rows /\ o \in Orders
    BY <1>0, <1>1
  <2>2. first \in Rows
    BY ONLY <2>1, Zenon DEF first, Rows
  <2> QED
    BY <2>1, <2>2 DEF Rows
<1> HIDE DEF first
<1>7. Stood(first)
  BY <1>0, <1>6, SameIsGood, ColumnsFrom, FromStood DEF Keeps
<1>8. \A r \in Released : /\ InTurn(r) /\ Stood(r) /\ r.driver[o] = d
                          /\ r.status[o] # "parallel_assigned"
  <2>1. CASE rv = NONE
    BY <1>1, <1>4, <1>5, <1>6, <1>7, <2>1
  <2>2. CASE rv # NONE
    <3>1. OnlyBy(first, rv, d)
      BY <1>3, <1>6, <2>2, SameOfferOnlyBy DEF SameOffer
    <3>2. Harmless(s, t, d)
      BY <1>3, <1>5, <1>6, <2>2, <3>1, ReleaseHarmless, HarmlessTrans
    <3>3. InTurn(t) /\ Stood(t)
      BY <1>3, <1>4, <1>7, <2>2, <3>2, OrdersFrom, FromStood
    <3>4. t.driver[o] = d /\ t.status[o] # "parallel_assigned"
      <4> DEFINE q == [first EXCEPT !.parallel[rv] = NONE, !.peta[rv] = FALSE,
                                    !.driver[rv] = NONE, !.status[rv] = "queued"]
                 e == Enqueue(q, rv)
      <4>0. rv \in Orders \ {o}
        BY <1>3, <2>2
      <4>1. q.driver[o] = first.driver[o] /\ q.status[o] = first.status[o] /\ DOMAIN q = DOMAIN first
            /\ DOMAIN q.status = Orders
        BY <1>6, <4>0 DEF Rows
      <4> HIDE DEF q
      <4>2. e.driver[o] = q.driver[o] /\ e.status[o] = q.status[o] /\ DOMAIN e = DOMAIN first
        BY <1>6, <4>0, <4>1 DEF Enqueue, Rows
      <4> HIDE DEF e
      <4>3. t = [e EXCEPT !.pq[rv] = "waiting"]
        BY DEF Release, t, e, q
      <4> HIDE DEF t
      <4> QED
        BY <1>1, <1>6, <4>1, <4>2, <4>3 DEF Rows
    <3> HIDE DEF t
    <3>5. ASSUME NEW r \in Promotes(t, t)
          PROVE  /\ InTurn(r) /\ Stood(r) /\ r.driver[o] = d
                 /\ r.status[o] # "parallel_assigned"
      <4>1. InTurn(r) /\ Stood(r)
        BY <3>3, <3>5, SettledInTurn, PromotesFrom, FromStood
      <4>2. Good(t) /\ t \in Rows
        BY <3>3 DEF Stood, Good
      <4>3. d # NONE
        BY NoneAssumption
      <4> QED
        BY <1>1, <3>4, <3>5, <4>1, <4>2, <4>3, PromotesSelf, PromotesHeld
    <3> QED
      BY <2>2, <3>5
  <2> QED
    BY <2>1, <2>2
<1> HIDE DEF Released
<1> PICK r \in Released : \/ db' = Ended(r)
                          \/ db' \in {SetAway(q, d) : q \in Promotes(Again(r), Again(r))}
  BY <1>2, Zenon
<1>9. InTurn(r) /\ Stood(r) /\ Good(r) /\ r \in Rows /\ r.offered[o] = NONE /\ OnlyBy(r, o, d)
  <2>1. Stood(r) /\ Good(r) /\ r \in Rows
    BY <1>8 DEF Stood, Good
  <2>2. r.offered[o] = NONE /\ r.driver[o] = d /\ r.status[o] # "parallel_assigned"
    BY <1>1, <1>8, <2>1, NoneAssumption DEF Good
  <2> QED
    BY <1>8, <2>1, <2>2, NoneAssumption DEF OnlyBy, Engages, Free
<1>10. CASE db' = Ended(r)
  <2> DEFINE c == Close(r, o, "cancelled")
             l == LeaveQueue(c, d)
             m == [l EXCEPT !.online[d] = FALSE]
             e == [m EXCEPT !.driver[o] = d]
  <2>1. Harmless(r, c, d) /\ c \in Rows /\ c.status[o] = "cancelled"
    <3>1. Harmless(r, c, d) /\ c \in Rows
      BY <1>1, <1>9, CloseHarmless, CloseFrom, FromStood DEF Closed
    <3>2. c.status[o] = "cancelled"
      <4> DEFINE f == ForgetRide(ForgetSearch(r, o), o)
      <4>1. f \in Rows
        BY <1>1, <1>9, ForgetGood, GoodRows
      <4> HIDE DEF f
      <4>2. c = [f EXCEPT !.status[o] = "cancelled", !.driver[o] = NONE]
        BY DEF Close, f
      <4> HIDE DEF c
      <4> QED
        BY <1>1, <4>1, <4>2 DEF Rows
    <3> QED
      BY <3>1, <3>2
  <2> HIDE DEF c
  <2>2. Harmless(c, m, d)
    BY <2>1, DriverHarmless
  <2>3. l.status = c.status /\ DOMAIN l = DOMAIN c /\ l \in Rows
    BY <2>1 DEF LeaveQueue, Rows
  <2> HIDE DEF l
  <2>4. m.status[o] = "cancelled" /\ m \in Rows
    BY <2>1, <2>3 DEF Rows
  <2> HIDE DEF m
  <2>5. e \in Rows
    <3>1. o \in Orders /\ m \in Rows
      BY <1>1, <2>4
    <3> QED
      BY <3>1, ZenonT(40) DEF Rows
  <2>6. /\ e.status = m.status /\ e.offered = m.offered /\ e.parallel = m.parallel
        /\ e.declined = m.declined /\ e.online = m.online /\ e.dstat = m.dstat
        /\ e.ahead = m.ahead /\ \A p \in Orders \ {o} : e.driver[p] = m.driver[p]
    BY <1>1, <2>4 DEF Rows
  <2>7. db' = SetAway(e, d)
    <3>1. e = [LeaveQueue(c, d) EXCEPT !.online[d] = FALSE, !.driver[o] = d]
      BY DEF l, m
    <3> QED
      BY <1>10, <3>1 DEF c
  <2> HIDE DEF e
  <2>8. OnlyBy(m, o, d)
    BY <2>4 DEF OnlyBy, Engages, Riding
  <2>9. Harmless(m, e, d)
    BY <1>1, <2>6, <2>8, OrderHarmless
  <2>10. Harmless(e, db', d) /\ d \notin Idle(db')
    BY <2>5, <2>7, DriverHarmless
  <2>11. Harmless(r, db', d)
    BY <2>1, <2>2, <2>9, <2>10, HarmlessTrans
  <2> QED
    BY <1>9, <2>10, <2>11, HarmlessInTurn DEF Still
<1>11. CASE db' \in {SetAway(q, d) : q \in Promotes(Again(r), Again(r))}
  <2> DEFINE e == [r EXCEPT !.driver[o] = NONE, !.status[o] = "searching"]
             a == SetAway(e, d)
  <2>1. e \in Rows
    BY <1>1, <1>9, StatusValues, Zenon DEF Rows
  <2>2. /\ e.offered = r.offered /\ e.parallel = r.parallel /\ e.declined = r.declined
        /\ e.row = r.row /\ e.online = r.online /\ e.ahead = r.ahead /\ e.dstat = r.dstat
        /\ \A p \in Orders \ {o} : e.status[p] = r.status[p] /\ e.driver[p] = r.driver[p]
    BY <1>1, <1>9 DEF Rows
  <2> HIDE DEF e
  <2>3. Good(e)
    BY <1>1, <1>9, <2>1, <2>2, OneOrderKeeps DEF Keeps
  <2>4. Harmless(r, e, d) /\ Stood(e)
    BY <1>1, <1>9, <2>2, <2>3, OrderHarmless, ColumnsFrom, FromStood
  <2>5. Harmless(e, a, d) /\ d \notin Idle(a) /\ Stood(a)
    BY <2>1, <2>4, DriverHarmless, DriversFrom, FromStood
  <2>6. Again(r) = OfferNext(a, o, {})
    BY DEF e
  <2> HIDE DEF a, Again
  <2>7. Harmless(r, a, d)
    BY <2>4, <2>5, HarmlessTrans
  <2>8. InTurn(a)
    BY <1>9, <2>5, <2>7, HarmlessInTurn DEF Still
  <2>9. PICK q \in Promotes(Again(r), Again(r)) : db' = SetAway(q, d)
    BY <1>11
  <2>10. InTurn(q)
    BY <1>1, <2>5, <2>6, <2>8, <2>9, PassedInTurn
  <2>11. q \in Rows
    BY <1>1, <2>5, <2>6, <2>9, OrdersFrom, PromotesFrom, FromStood
  <2> QED
    BY <2>9, <2>10, <2>11, DriverHarmless, HarmlessInTurn DEF Still
<1> QED
  BY <1>10, <1>11

LEMMA CreateActionsInTurn ==
  ASSUME Stood(db), NEW o \in Orders, CreateOrder(o) \/ DispCreate(o)
  PROVE  InTurn(db')
<1> DEFINE c == [db EXCEPT !.status[o] = "created"]
           e == [c EXCEPT !.deadline[o] = TRUE]
<1>0. db \in Rows /\ Good(db)
  BY DEF Stood, Good
<1>1. Keeps(db, c) /\ Good(c) /\ c \in Rows
  BY <1>0, StatusKeeps, StatusValues, GoodRows
<1>2. c.row = db.row /\ c.online = db.online /\ c.ahead = db.ahead
  BY <1>0 DEF Rows
<1>3. e = [db EXCEPT !.status[o] = "created", !.deadline[o] = TRUE]
  OBVIOUS
<1> HIDE DEF c
<1>4. Keeps(c, e)
  BY <1>1, DeadlineKeeps
<1>5. e.row = c.row /\ e.online = c.online /\ e.ahead = c.ahead
  BY <1>1 DEF Rows
<1> HIDE DEF e
<1>6. ASSUME NEW t, Keeps(db, t), Stood(t)  PROVE InTurn(OfferNext(ResetCreator(t, o), o, {}))
  <2>1. Keeps(t, ResetCreator(t, o))
    BY <1>6, ResetCreatorGood DEF Stood
  <2>2. InTurn(ResetCreator(t, o))
    BY <1>6, <2>1, KeepsTransitive, FewerUnoffered
  <2> QED
    BY <1>6, <2>2, OrdersFrom, FromStood, OfferNextInTurn
<1>7. Keeps(db, e) /\ Stood(c) /\ Stood(e)
  BY <1>1, <1>2, <1>4, <1>5, KeepsTransitive, GoodRows, ColumnsFrom, FromStood
<1>8. CASE CreateOrder(o)
  BY <1>1, <1>6, <1>7, <1>8 DEF CreateOrder, c
<1>9. CASE DispCreate(o)
  BY <1>3, <1>6, <1>7, <1>9 DEF DispCreate
<1> QED
  BY <1>8, <1>9

LEMMA DialogueActionsInTurn ==
  ASSUME Stood(db), NEW c \in Creators, UpdateAddress(c) \/ LeaveDialogue(c)
  PROVE  InTurn(db')
<1>1. db \in Rows /\ Good(db)
  BY DEF Good, Stood
<1>2. CASE UpdateAddress(c)
  <2> DEFINE o == db.address[c]
             t == [db EXCEPT !.offered[o] = NONE, !.status[o] = "searching"]
             q == Dequeue(t, o)
             s == ResetCreator(q, o)
  <2>1. o \in Orders
    BY <1>1, <1>2 DEF UpdateAddress, Rows
  <2>2. db' = OfferNext(s, o, {})
    BY <1>2 DEF UpdateAddress
  <2> HIDE DEF o
  <2>3. t \in Rows
    BY <1>1, <2>1, StatusValues DEF Rows
  <2>4. t.driver = db.driver /\ t.parallel = db.parallel /\ t.offered[o] = NONE
        /\ t.row = db.row /\ t.online = db.online /\ t.ahead = db.ahead
    BY <1>1, <2>1 DEF Rows
  <2>5. \A p \in Orders \ {o} : t.status[p] = db.status[p] /\ t.offered[p] = db.offered[p]
    BY <1>1, <2>1 DEF Rows
  <2> HIDE DEF t
  <2>6. Keeps(db, t)
    BY <1>1, <2>1, <2>3, <2>4, <2>5, OneOrderKeeps
  <2>7. Stood(t)
    BY <2>4, <2>6, ColumnsFrom, FromStood, GoodRows
  <2>8. Keeps(t, q)
    BY <2>1, <2>6, DequeueGood, GoodRows
  <2>9. Keeps(q, s)
    BY <2>1, <2>8, ResetCreatorGood, GoodRows
  <2>10. InTurn(s)
    BY <2>6, <2>8, <2>9, KeepsTransitive, FewerUnoffered
  <2>11. Stood(s)
    BY <2>1, <2>7, OrdersFrom, FromStood
  <2> HIDE DEF s
  <2> QED
    BY <2>1, <2>2, <2>10, <2>11, OfferNextInTurn
<1>3. CASE LeaveDialogue(c)
  <2>1. db'.offered = db.offered
    BY <1>1, <1>3 DEF LeaveDialogue, Rows
  <2> QED
    BY <2>1, UnofferedInTurn DEF Unoffered
<1> QED
  BY <1>2, <1>3

LEMMA PassengerCancelInTurn ==
  ASSUME Stood(db), NEW c \in Creators, PassengerCancel(c)  PROVE InTurn(db')
<1>1. PICK q : /\ Keeps(db, q) /\ SameLine(db, q)
               /\ db' \in Promotes(db, q) \cup Promotes(q, q)
  BY PassengerCancelRows
<1>2. InTurn(q) /\ Stood(q)
  BY <1>1, FewerUnoffered, SameInLine DEF Stood, Keeps
<1> QED
  BY <1>1, <1>2, UnflushedInTurn, SettledInTurn

LEMMA DispCancelInTurn ==
  ASSUME Stood(db), NEW o \in Orders, DispCancel(o)  PROVE InTurn(db')
<1> DEFINE d == db.driver[o]
           off == db.offered[o]
           s == Dequeue(Close(db, o, "cancelled"), o)
<1>1. IF d # NONE THEN db' = Relieve(db, s, d)
      ELSE IF off # NONE THEN db' = [ReleaseOffer(s, off) EXCEPT !.offered[o] = NONE]
      ELSE db' = s
  BY DEF DispCancel
<1>2. Keeps(db, s) /\ Good(s) /\ Good(db)
  BY ClosedDequeued, GoodRows DEF Stood
<1>3. off \in Drivers \cup {NONE} /\ d \in Drivers \cup {NONE}
  BY OrderColumns DEF Stood
<1> HIDE DEF d, off, s
<1>4. Keeps(s, db') \/ db' = s
  BY <1>1, <1>2, <1>3, RelieveGood, OfferWithdrawn
<1>5. Keeps(db, db')
  BY <1>2, <1>4, KeepsTransitive
<1> QED
  BY <1>5, FewerUnoffered

LEMMA TimeoutActionsInTurn ==
  ASSUME Stood(db), NEW o \in Orders, DispatcherUnclaimed(o) \/ ChatTimeout(o)
  PROVE  InTurn(db')
<1>0. db \in Rows /\ Good(db)
  BY DEF Stood, Good
<1>1. CASE DispatcherUnclaimed(o)
  <2> DEFINE off == db.offered[o]
             s == IF off = NONE THEN db ELSE ReleaseOffer(db, off)
             t == [s EXCEPT !.offered[o] = NONE]
             u == [db EXCEPT !.deadline[o] = FALSE]
  <2>1. db' = Dequeue(Close(t, o, "cancelled"), o) \/ db' = u
    BY <1>1 DEF DispatcherUnclaimed
  <2>2. off \in Drivers \cup {NONE}
    BY <1>0, OrderColumns
  <2> HIDE DEF off
  <2>3. Keeps(db, s)
    BY <1>0, <2>2, ReleaseOfferGood, FewerRefl DEF Keeps
  <2> HIDE DEF s
  <2>4. Keeps(s, t)
    BY <2>3, ClearOfferKeeps, GoodRows
  <2> HIDE DEF t
  <2>5. Keeps(t, Dequeue(Close(t, o, "cancelled"), o))
    BY <2>4, ClosedDequeued, GoodRows
  <2>6. Keeps(db, u)
    BY <1>0, DeadlineKeeps
  <2> HIDE DEF u
  <2> QED
    BY <2>1, <2>3, <2>4, <2>5, <2>6, KeepsTransitive, FewerUnoffered
<1>2. CASE ChatTimeout(o)
  BY <1>0, <1>2, CloseForGood, FewerUnoffered DEF ChatTimeout, Closed
<1> QED
  BY <1>1, <1>2

LEMMA AdminCancelInTurn ==
  ASSUME Stood(db), NEW o \in Orders, AdminCancel(o)  PROVE InTurn(db')
<1> DEFINE Restore(s, e) ==
             IF s.row[e] = "none" THEN [s EXCEPT !.dstat[e] = "offline"]
             ELSE IF s.online[e] THEN [s EXCEPT !.row[e] = "waiting", !.dstat[e] = "online"]
             ELSE s
           off == db.offered[o]
           d == db.driver[o]
           q == Dequeue(Close(db, o, "cancelled"), o)
           s == ResetCreator(q, o)
           t == IF off = NONE THEN s ELSE Restore(s, off)
           u == IF d = NONE \/ d = off \/ db.status[o] \notin Riding THEN t
                ELSE IF Reserved(db, d) # NONE THEN PromoteAfter(db, t, d)
                ELSE Restore(t, d)
           w == [u EXCEPT !.offered[o] = NONE, !.parallel[o] = NONE]
<1>1. db' = w
  BY DEF AdminCancel
<1>2. Keeps(db, q) /\ Good(q)
  BY ClosedDequeued, GoodRows DEF Stood
<1>3. Keeps(q, s) /\ s \in Rows
  BY <1>2, ResetCreatorGood, GoodRows
<1>4. Unoffered(s)
  BY <1>2, <1>3, KeepsTransitive, FewerUnoffered
<1> HIDE DEF q, s, off, d
<1>5. t.offered = s.offered /\ DOMAIN t = DOMAIN s
  BY <1>3 DEF Rows
<1> HIDE DEF t
<1>6. u.offered = t.offered /\ DOMAIN u = DOMAIN s
  BY <1>3, <1>5 DEF PromoteAfter, Rows
<1> HIDE DEF u
<1>7. \A p \in Orders : w.offered[p] \in {NONE, s.offered[p]}
  BY <1>3, <1>5, <1>6 DEF Rows
<1> HIDE DEF w
<1> QED
  BY <1>1, <1>4, <1>7, UnofferedInTurn DEF Unoffered

LEMMA WaitNoInTurn ==
  ASSUME Stood(db), NEW c \in Creators, WaitNo(c)  PROVE InTurn(db')
<1> DEFINE o == Newest({o \in Orders : CreatorOf[o] = c /\ db.status[o] = "queued"})
<1>1. o # NONE /\ db' = CloseFor(Dequeue(db, o), o, "cancelled")
  BY DEF WaitNo
<1>2. o \in Orders
  BY <1>1, NewestIn
<1> HIDE DEF o
<1>3. Keeps(db, Dequeue(db, o))
  BY <1>2, DequeueGood DEF Stood
<1>4. Keeps(Dequeue(db, o), db')
  BY <1>1, <1>2, <1>3, CloseForGood, GoodRows DEF Closed
<1> QED
  BY <1>3, <1>4, KeepsTransitive, FewerUnoffered

LEMMA ConfirmInTurn ==
  ASSUME Stood(db), NEW o \in Orders, ConfirmYes(o) \/ ConfirmNo(o)  PROVE InTurn(db')
BY ConfirmRows, UnflushedInTurn

LEMMA ParallelEtaTimeoutInTurn ==
  ASSUME Stood(db), NEW o \in Orders, ParallelEtaTimeout(o)  PROVE InTurn(db')
<1> DEFINE c == [db EXCEPT !.card[o] = FALSE]
           t == Release(c, o)
<1>1. db' \in Promotes(t, t)
  BY DEF ParallelEtaTimeout
<1>2. Keeps(db, c) /\ Stood(c)
  BY CardFrom, CardGood, FromStood DEF Stood
<1> HIDE DEF c
<1>3. Keeps(c, t) /\ Stood(t)
  BY <1>2, ReleaseGood, OrdersFrom, FromStood, GoodRows
<1>4. InTurn(t)
  BY <1>2, <1>3, KeepsTransitive, FewerUnoffered
<1> HIDE DEF t
<1> QED
  BY <1>1, <1>3, <1>4, SettledInTurn

LEMMA AcceptInTurn ==
  ASSUME Stood(db), NEW d \in Drivers, NEW o \in Orders, Accept(d, o)  PROVE InTurn(db')
<1> DEFINE s == Begin(d)
           t == [s EXCEPT !.offered[o] = NONE, !.driver[o] = d, !.status[o] = "assigned",
                          !.card[o] = TRUE, !.deadline[o] = FALSE]
<1>1. s \in Rows
  BY BeginReady
<1>2. db' = MarkAssigned(t, d) /\ s.status[o] \in {"searching", "created"}
      /\ s.offered[o] \in {NONE, d}
  BY DEF Accept, CurrentOffer
<1>3. \A x : Harmless(s, x, d) => InTurn(x)
  BY MessageInTurn
<1> HIDE DEF s
<1>4. OnlyBy(s, o, d)
  BY <1>2, NoneAssumption DEF OnlyBy, Engages, Riding, Free
<1>5. t \in Rows
  BY <1>1, StatusValues DEF Rows
<1>6. /\ t.offered[o] = NONE /\ t.parallel = s.parallel /\ t.declined = s.declined
      /\ t.online = s.online /\ t.dstat = s.dstat /\ t.ahead = s.ahead
      /\ \A p \in Orders \ {o} : /\ t.status[p] = s.status[p] /\ t.offered[p] = s.offered[p]
                                /\ t.driver[p] = s.driver[p]
  BY <1>1 DEF Rows
<1> HIDE DEF t
<1>7. Harmless(s, t, d)
  BY <1>4, <1>6, OrderHarmless
<1>8. Harmless(t, db', d)
  BY <1>2, <1>5, DriverHarmless
<1> QED
  BY <1>3, <1>7, <1>8, HarmlessTrans

\* An order whose offer has ended engages nobody, whatever becomes of it.
LEMMA DeclinedHarmless ==
  ASSUME NEW s, Good(s), NEW d \in Drivers, NEW o \in Orders, s.status[o] = "searching",
         CurrentOffer(s, o) = d
  PROVE  /\ Harmless(s, Declined(s, d, o), d) /\ Declined(s, d, o).offered[o] = NONE
         /\ Declined(s, d, o).status[o] = "searching"
<1> DEFINE r == ReleaseOffer(s, d)
           c == CreatorOf[o]
           t == [r EXCEPT !.offered[o] = NONE, !.card[o] = FALSE, !.current[c] = NONE]
<1>0. s \in Rows
  BY DEF Good
<1>1. r \in Rows /\ Harmless(s, r, d) /\ r.status = s.status /\ r.offered = s.offered
  <2>1. r.status = s.status /\ r.offered = s.offered
    BY <1>0 DEF ReleaseOffer, Rows
  <2> QED
    BY <1>0, <2>1, ReleaseOfferGood, GoodRows, DriverHarmless
<1>2. Declined(s, d, o) = t
  BY DEF Declined
<1>3. s.offered[o] \in {NONE, d}
  BY DEF CurrentOffer
<1> HIDE DEF r, c
<1>4. /\ t.offered[o] = NONE /\ t.parallel = r.parallel /\ t.declined = r.declined
      /\ t.online = r.online /\ t.dstat = r.dstat /\ t.ahead = r.ahead
      /\ t.status = r.status /\ t.driver = r.driver
      /\ \A p \in Orders \ {o} : t.offered[p] = r.offered[p]
  BY <1>1 DEF Rows
<1> HIDE DEF t
<1>5. OnlyBy(r, o, d)
  BY <1>1, <1>3, NoneAssumption DEF OnlyBy, Engages, Riding, Free
<1>6. Harmless(r, t, d)
  BY <1>4, <1>5, OrderHarmless
<1> QED
  BY <1>1, <1>2, <1>4, <1>6, HarmlessTrans

LEMMA DeclineInTurn ==
  ASSUME Stood(db), NEW d \in Drivers, NEW o \in Orders, NEW reason \in Reasons,
         Decline(d, o, reason)
  PROVE  InTurn(db')
<1> DEFINE s == Begin(d)
           t == Declined(s, d, o)
           c == CreatorOf[o]
           next == [t EXCEPT !.declined[o] = @ \cup {d}]
           far == [next EXCEPT !.special[o] = TRUE]
           closed == CloseFor(t, o, "cancelled")
           cancelled == Dequeue(closed, o)
           asking == [t EXCEPT !.status[o] = "created",
                               !.address[c] = IF ByDispatcher(o) THEN @ ELSE o]
           a == SetAway(next, d)
           Passed(r) == LET u == OfferNext(r, o, {}) IN Promotes(u, u)
<1>0. Stood(s) /\ Good(s)
  BY BeginReady
<1>1. Stood(t) /\ Good(t) /\ t \in Rows /\ c \in Creators
  BY <1>0, DeclinedFrom, FromStood DEF Creators
<1>2. \/ db' \in Promotes(cancelled, cancelled)
      \/ db' \in Promotes(asking, asking)
      \/ db' = OfferNext(a, o, {})
      \/ db' \in Passed(next)
      \/ db' \in Passed(far)
  BY DEF Decline, Reasons
<1>3. Harmless(s, t, d) /\ t.offered[o] = NONE /\ t.status[o] = "searching"
  BY <1>0, DeclinedHarmless DEF Decline
<1>4. \A x : Harmless(s, x, d) => InTurn(x)
  BY MessageInTurn
<1> HIDE DEF s, t, c
<1>5. OnlyBy(t, o, d)
  BY <1>3, NoneAssumption DEF OnlyBy, Engages, Riding, Free
<1>6. /\ next.status = t.status /\ next.offered = t.offered /\ next.driver = t.driver
      /\ next.parallel = t.parallel /\ next.online = t.online /\ next.dstat = t.dstat
      /\ next.ahead = t.ahead /\ next.row = t.row
      /\ \A p \in Orders \ {o} : next.declined[p] = t.declined[p]
  BY <1>1 DEF Rows
<1>7. next \in Rows
  <2> DEFINE refusers == t.declined[o] \cup {d}
  <2>0. refusers \in SUBSET Drivers
    BY <1>1 DEF Rows
  <2> HIDE DEF refusers
  <2>1. [t EXCEPT !.declined[o] = refusers] \in Rows
    BY <1>1, <2>0 DEF Rows
  <2> QED
    BY <2>1 DEF refusers
<1> HIDE DEF next
<1>8. Harmless(s, next, d)
  BY <1>3, <1>5, <1>6, OrderHarmless, HarmlessTrans
<1>9. Stood(next)
  BY <1>1, <1>6, <1>7, SameIsGood, GoodRows, ColumnsFrom, FromStood
<1>10. InTurn(next) /\ InTurn(a) /\ Stood(a)
  BY <1>4, <1>7, <1>8, <1>9, DriverHarmless, HarmlessTrans, DriversFrom, FromStood
<1>11. InTurn(far) /\ Stood(far)
  <2>1. SameSearch(next, far) /\ far.ahead = next.ahead /\ far.row = next.row
    BY <1>7 DEF SameSearch, Rows
  <2>2. far \in Rows
    BY <1>7 DEF Rows
  <2> HIDE DEF far
  <2>3. Good(far)
    BY <1>9, <2>1, <2>2, SameIsGood, GoodRows DEF SameSearch, Stood
  <2> QED
    BY <1>9, <1>10, <2>1, <2>3, SameSearchInTurn, ColumnsFrom, FromStood DEF SameSearch
<1>12. InTurn(cancelled) /\ Stood(cancelled)
  <2>1. Harmless(t, closed, d) /\ Stood(closed)
    BY <1>1, <1>3, <1>5, CloseHarmless, CloseFrom, FromStood DEF Closed
  <2> HIDE DEF closed
  <2>2. InTurn(closed) /\ closed \in Rows
    BY <1>3, <1>4, <2>1, HarmlessTrans DEF Stood, Good
  <2> QED
    BY <2>1, <2>2, SearchUntouched, SameSearchInTurn, OrdersFrom, FromStood
<1>13. InTurn(asking) /\ Stood(asking)
  <2> DEFINE b == IF ByDispatcher(o) THEN t.address[c] ELSE o
  <2>1. b \in Orders \cup {NONE}
    BY <1>1 DEF Rows
  <2> HIDE DEF b
  <2>2. asking \in Rows
    <3>1. [t EXCEPT !.status[o] = "created", !.address[c] = b] \in Rows
      BY <1>1, <2>1, StatusValues DEF Rows
    <3> QED
      BY <3>1 DEF b
  <2>3. asking.offered = t.offered /\ asking.driver = t.driver /\ asking.parallel = t.parallel
        /\ asking.row = t.row /\ asking.online = t.online /\ asking.ahead = t.ahead
        /\ asking.declined = t.declined /\ asking.dstat = t.dstat
        /\ \A p \in Orders \ {o} : asking.status[p] = t.status[p]
    BY <1>1 DEF Rows
  <2> HIDE DEF asking
  <2>4. Keeps(t, asking)
    BY <1>1, <1>3, <2>2, <2>3, OneOrderKeeps
  <2>5. Harmless(t, asking, d)
    BY <1>5, <2>3, OrderHarmless
  <2> QED
    BY <1>1, <1>3, <1>4, <2>3, <2>4, <2>5, HarmlessTrans, GoodRows, ColumnsFrom, FromStood
<1> HIDE DEF cancelled, asking, a, far
<1>14. \A r : Stood(r) /\ InTurn(r) => \A x \in Passed(r) : InTurn(x)
  BY PassedInTurn
<1> HIDE DEF Passed
<1>15. InTurn(OfferNext(a, o, {}))
  BY <1>10, OfferNextInTurn
<1> QED
  BY <1>2, <1>9, <1>10, <1>11, <1>12, <1>13, <1>14, <1>15, SettledInTurn

LEMMA AcceptTimeoutInTurn ==
  ASSUME Stood(db), NEW o \in Orders, AcceptTimeout(o)  PROVE InTurn(db')
<1> DEFINE d == db.offered[o]
           c == CreatorOf[o]
           l == [LeaveQueue(db, d) EXCEPT !.online[d] = FALSE]
           s == [l EXCEPT !.offered[o] = NONE, !.card[o] = FALSE, !.current[c] = NONE]
           t == OfferNext(s, o, {d})
<1>1. d \in Drivers /\ c \in Creators /\ d \notin Free(db)
  BY OrderColumns DEF AcceptTimeout, Creators, Stood, Free, Engaged, HasOffer
<1>2. db' \in Promotes(t, t)
  <2>1. s = [LeaveQueue(db, d) EXCEPT !.online[d] = FALSE, !.offered[o] = NONE,
                                      !.card[o] = FALSE, !.current[c] = NONE]
    OBVIOUS
  <2> HIDE DEF s
  <2> QED
    BY <2>1 DEF AcceptTimeout
<1> HIDE DEF d, c
<1>3. Stood(l) /\ Good(l) /\ l \in Rows /\ Keeps(db, l)
  BY <1>1, DriversFrom, FromStood, LeaveLineKeeps DEF Stood
<1> HIDE DEF l
<1>4. s \in Rows
  BY <1>1, <1>3 DEF Rows
<1>5. s.offered[o] = NONE /\ s.status = l.status /\ s.driver = l.driver /\ s.parallel = l.parallel
      /\ s.row = l.row /\ s.online = l.online /\ s.ahead = l.ahead
  BY <1>3 DEF Rows
<1>6. \A p \in Orders \ {o} : s.offered[p] = l.offered[p]
  BY <1>3 DEF Rows
<1> HIDE DEF s
<1>7. Keeps(l, s)
  BY <1>3, <1>4, <1>5, <1>6, OneOrderKeeps
<1>8. Stood(s) /\ InTurn(s)
  BY <1>3, <1>5, <1>7, GoodRows, ColumnsFrom, FromStood, KeepsTransitive, FewerUnoffered
<1>9. InTurn(t) /\ Stood(t)
  BY <1>1, <1>8, OfferNextInTurn, OrdersFrom, FromStood DEF Still
<1> HIDE DEF t
<1> QED
  BY <1>2, <1>9, SettledInTurn

\* An order becomes the ride of a driver, who may take the tail of the line first.
LEMMA ClaimHarmless ==
  ASSUME NEW s, Good(s), db.ahead \subseteq s.ahead, NEW d \in Drivers, NEW o \in Orders, NEW back,
         OnlyBy(s, o, d)
  PROVE  LET c == Claim(s, d, o, back)
         IN Harmless(s, c, d) /\ c \in Rows /\ c.status[o] = "assigned" /\ c.driver[o] = d
<1> DEFINE k == JoinQueue(s, d)
           l == [k EXCEPT !.online[d] = TRUE]
           j == IF back THEN l ELSE s
           q == Dequeue(j, o)
           t == [q EXCEPT !.offered[o] = NONE, !.driver[o] = d, !.status[o] = "assigned",
                          !.deadline[o] = FALSE]
           m == MarkAssigned(t, d)
<1>0. s \in Rows
  BY DEF Good
<1>1. Harmless(s, l, d) /\ Good(l)
  BY <1>0, JoinHarmless, JoinLineKeeps, GoodRows
<1>2. SameOffer(s, l, o)
  <2>1. /\ k.status = s.status /\ k.offered = s.offered /\ k.driver = s.driver
        /\ k.parallel = s.parallel /\ DOMAIN k = DOMAIN s
    BY <1>0 DEF JoinQueue, Rows
  <2> HIDE DEF k
  <2> QED
    BY <1>0, <2>1 DEF SameOffer, Rows
<1>3. Harmless(s, s, d)
  BY DEF Harmless, Still
<1> HIDE DEF l
<1>4. Harmless(s, j, d) /\ Good(j) /\ j \in Rows /\ OnlyBy(j, o, d)
  BY <1>0, <1>1, <1>2, <1>3, SameOfferOnlyBy DEF Good
<1> HIDE DEF j
<1>5. SameSearch(j, q) /\ q.ahead = j.ahead /\ q \in Rows
  BY <1>4, SearchUntouched, DequeueGood, GoodRows
<1> HIDE DEF q
<1>6. Harmless(j, q, d) /\ OnlyBy(q, o, d)
  BY <1>4, <1>5, SameSearchHarmless, SameOfferOnlyBy DEF SameOffer, SameSearch
<1>7. t \in Rows
  BY <1>5, StatusValues DEF Rows
<1>8. /\ t.offered[o] = NONE /\ t.parallel = q.parallel /\ t.declined = q.declined
      /\ t.online = q.online /\ t.dstat = q.dstat /\ t.ahead = q.ahead
      /\ t.status[o] = "assigned" /\ t.driver[o] = d
      /\ \A p \in Orders \ {o} : /\ t.status[p] = q.status[p] /\ t.offered[p] = q.offered[p]
                                /\ t.driver[p] = q.driver[p]
  BY <1>5 DEF Rows
<1> HIDE DEF t
<1>9. Harmless(q, t, d)
  BY <1>6, <1>8, OrderHarmless
<1>10. Harmless(t, m, d)
  BY <1>7, DriverHarmless
<1>11. m \in Rows /\ m = Claim(s, d, o, back)
  BY ClaimKeeps, GoodRows DEF Claim, m, t, q, j, l, k
<1>12. m.status[o] = "assigned" /\ m.driver[o] = d
  BY <1>7, <1>8 DEF MarkAssigned, Rows
<1> HIDE DEF m
<1>13. Harmless(s, m, d)
  BY <1>4, <1>6, <1>9, <1>10, HarmlessTrans
<1> QED
  BY <1>11, <1>12, <1>13

LEMMA TakePendingInTurn ==
  ASSUME Stood(db), NEW d \in Drivers, NEW o \in Orders, TakePending(d, o)
  PROVE  InTurn(db')
<1> DEFINE s == Begin(d)
           back == s.dstat[d] \in {"offline", "away"} \/ ~s.online[d]
           c == Claim(s, d, o, back)
           t == [c EXCEPT !.parallel[o] = NONE, !.temp[o] = FALSE, !.card[o] = TRUE]
<1>1. db' = t /\ s.status[o] \in Pending /\ s.driver[o] = NONE /\ s.offered[o] = NONE
  BY DEF TakePending
<1>2. Good(s) /\ s.ahead = db.ahead
  BY BeginReady
<1>3. \A x : Harmless(s, x, d) => InTurn(x)
  BY MessageInTurn
<1> HIDE DEF s, back
<1>4. OnlyBy(s, o, d)
  BY <1>1, NoneAssumption DEF OnlyBy, Engages, Riding, Pending, Candidate, Free
<1>5. Harmless(s, c, d) /\ c \in Rows /\ c.status[o] = "assigned" /\ c.driver[o] = d
  BY <1>2, <1>4, ClaimHarmless
<1> HIDE DEF c
<1>6. /\ t.status = c.status /\ t.offered = c.offered /\ t.driver = c.driver
      /\ t.declined = c.declined /\ t.online = c.online /\ t.dstat = c.dstat
      /\ t.ahead = c.ahead /\ \A p \in Orders \ {o} : t.parallel[p] = c.parallel[p]
  BY <1>5 DEF Rows
<1> HIDE DEF t
<1>7. OnlyBy(c, o, d)
  BY <1>5 DEF OnlyBy, Engages, Riding
<1>8. Harmless(c, t, d)
  BY <1>6, <1>7, OrderHarmless
<1> QED
  BY <1>1, <1>3, <1>5, <1>8, HarmlessTrans

LEMMA TakenHarmless ==
  ASSUME NEW s, Good(s), db.ahead \subseteq s.ahead, NEW d \in Drivers, NEW o \in Orders,
         OnlyBy(s, o, d)
  PROVE  Harmless(s, Taken(s, d, o, NONE), d)
<1> DEFINE temp == ~s.online[d]
           c == Claim(s, d, o, temp \/ s.dstat[d] = "away")
           t == [c EXCEPT !.temp[o] = temp, !.card[o] = TRUE]
<1>1. Harmless(s, c, d) /\ c \in Rows
  BY ClaimHarmless
<1> HIDE DEF temp, c
<1>2. SameSearch(c, t) /\ t.ahead = c.ahead
  BY <1>1 DEF SameSearch, Rows
<1>3. Taken(s, d, o, NONE) = t
  BY DEF Taken, t, c, temp
<1> HIDE DEF t
<1> QED
  BY <1>1, <1>2, <1>3, SameSearchHarmless, HarmlessTrans

\* A driver whose message hands an offer on has a ride.
LEMMA BeginFewer ==
  ASSUME Stood(db), NEW d \in Drivers
  PROVE  Fewer(db, Begin(d)) \/ ActiveRide(Begin(d), d) # NONE
<1> DEFINE s == Adopt(db, d)
           p == PendingOffer(s, d)
           t == [s EXCEPT !.offered[p] = NONE, !.status[p] = "created", !.card[p] = FALSE]
           m == MarkAssigned(t, d)
           b == Begin(d)
<1>1. Keeps(db, s) /\ Good(s) /\ s \in Rows
  BY AdoptKeeps, GoodRows DEF Stood
<1>2. b = s \/ (p # NONE /\ ActiveRide(s, d) # NONE /\ b = OfferNext(m, p, {d}))
  BY DEF Begin, ReleaseStale
<1> HIDE DEF s
<1>3. CASE b = s
  BY <1>1, <1>3 DEF Keeps
<1>4. CASE p # NONE /\ ActiveRide(s, d) # NONE /\ b = OfferNext(m, p, {d})
  <2>1. p \in Orders /\ s.driver[p] = NONE
    BY <1>4, OldestIn DEF PendingOffer
  <2> HIDE DEF p
  <2>2. t \in Rows
    BY <1>1, <2>1, StatusValues, ZenonT(40) DEF Rows
  <2>3. /\ t.offered[p] = NONE /\ t.driver = s.driver /\ t.parallel = s.parallel
        /\ \A q \in Orders \ {p} : t.status[q] = s.status[q] /\ t.offered[q] = s.offered[q]
    BY <1>1, <2>1 DEF Rows
  <2> HIDE DEF t
  <2>4. Keeps(s, t)
    BY <1>1, <2>1, <2>2, <2>3, OneOrderKeeps
  <2>5. Good(m) /\ m.status = t.status /\ m.driver = t.driver
    <3>1. m.status = t.status /\ m.driver = t.driver
      BY <2>2 DEF MarkAssigned, Rows
    <3> QED
      BY <2>4, <3>1, MarkAssignedGood, GoodRows
  <2> HIDE DEF m
  <2>6. b.driver = s.driver /\ \A q \in Orders \ {p} : b.status[q] = s.status[q]
    BY <1>4, <2>1, <2>3, <2>5, OfferNextStatus
  <2> HIDE DEF b
  <2>7. ActiveOf(b, d) = ActiveOf(s, d)
    BY <2>1, <2>6, NoneAssumption DEF ActiveOf
  <2>8. ActiveRide(b, d) # NONE
    BY <1>4, <2>7 DEF ActiveRide
  <2> QED
    BY <2>8 DEF b
<1> QED
  BY <1>2, <1>3, <1>4

LEMMA ChatTakeInTurn ==
  ASSUME Stood(db), NEW d \in Drivers, NEW o \in Orders, ChatTake(d, o) \/ ChatTakeLate(d, o)
  PROVE  InTurn(db')
<1>1. CASE ChatTake(d, o)
  <2> DEFINE s == Adopt(db, d)
             p == PendingOffer(s, d)
             dead == [s EXCEPT !.offered[p] = NONE]
             live == ReleaseOffer(dead, d)
  <2>1. /\ db' = IF p = NONE THEN Taken(s, d, o, NONE)
                 ELSE IF s.row[d] # "offered" THEN Taken(dead, d, o, NONE)
                 ELSE Taken(live, d, o, p)
        /\ s.status[o] = "chat_search"
    BY <1>1 DEF ChatTake
  <2>2. Keeps(db, s) /\ Good(s) /\ s \in Rows /\ SameLine(db, s) /\ Stood(s)
    BY AdoptKeeps, AdoptLine, GoodRows, SameInLine DEF Stood, Good
  <2>3. p # NONE => p \in Orders /\ s.status[p] = "searching" /\ s.offered[p] = d
    BY PendingOfferIn
  <2> HIDE DEF s, p
  <2>4. ASSUME NEW r, Keeps(db, r), SameLine(db, r), r.status = s.status
        PROVE  /\ Good(r) /\ Harmless(r, Taken(r, d, o, NONE), d) /\ Mine(r, d)
               /\ InTurn(Taken(r, d, o, NONE)) /\ Stood(Taken(r, d, o, NONE))
    <3>1. Good(r) /\ InLine(r) /\ db.ahead = r.ahead /\ Mine(r, d)
      BY <2>4, GoodRows, SameInLine, FewerUnoffered DEF Stood, SameLine
    <3>2. OnlyBy(r, o, d)
      BY <2>1, <2>4 DEF OnlyBy, Engages, Riding
    <3>3. Harmless(r, Taken(r, d, o, NONE), d)
      BY <3>1, <3>2, TakenHarmless
    <3>4. Stood(Taken(r, d, o, NONE))
      BY <3>1, TakenGood, TakenLine DEF Stood
    <3> QED
      BY <3>1, <3>3, <3>4, HarmlessMine, MineInTurn
  <2>5. ASSUME p # NONE
        PROVE  /\ Keeps(db, dead) /\ SameLine(db, dead) /\ dead.status = s.status
               /\ Keeps(db, live) /\ SameLine(db, live) /\ live.status = s.status
    <3>1. Keeps(s, dead)
      BY <2>2, <2>3, <2>5, ClearOfferKeeps
    <3>2. /\ dead.row = s.row /\ dead.online = s.online /\ dead.ahead = s.ahead
          /\ dead.status = s.status
      BY <2>2 DEF Rows
    <3> HIDE DEF dead
    <3>3. Keeps(dead, live) /\ SameLine(dead, live)
      BY <3>1, ReleaseOfferGood, DriversLine, GoodRows
    <3>4. live.status = dead.status
      BY <3>1, GoodRows DEF ReleaseOffer, Rows
    <3> HIDE DEF live
    <3> QED
      BY <2>2, <3>1, <3>2, <3>3, <3>4, KeepsTransitive, SameColumns, SameLineTrans
  <2> HIDE DEF dead, live
  <2>6. CASE p = NONE
    BY <2>1, <2>2, <2>4, <2>6
  <2>7. CASE p # NONE /\ s.row[d] # "offered"
    BY <2>1, <2>4, <2>5, <2>7
  <2>8. CASE p # NONE /\ s.row[d] = "offered"
    <3>1. Taken(live, d, o, p) = OfferNext(Taken(live, d, o, NONE), p, {})
      BY <2>8 DEF Taken
    <3>2. InTurn(Taken(live, d, o, NONE)) /\ Stood(Taken(live, d, o, NONE))
      BY <2>4, <2>5, <2>8
    <3>3. InTurn(Taken(live, d, o, p))
      BY <2>3, <2>8, <3>1, <3>2, OfferNextInTurn
    <3> QED
      BY <2>1, <2>8, <3>3
  <2> QED
    BY <2>6, <2>7, <2>8
<1>2. CASE ChatTakeLate(d, o)
  <2> DEFINE s == Begin(d)
  <2>1. /\ db' = Taken(s, d, o, NONE)
        /\ ActiveRide(s, d) \in {NONE, o} /\ s.driver[o] \in {NONE, d}
        /\ s.status[o] \notin Riding \cup {"parallel_assigned"}
    BY <1>2 DEF ChatTakeLate, ChatOpen
  <2>2. Good(s) /\ s.ahead = db.ahead
    BY BeginReady
  <2>3. OnlyBy(s, o, d)
    <3>1. CASE ActiveRide(s, d) # NONE
      BY <2>1, <2>2, <3>1, RideOnlyBy
    <3>2. CASE Fewer(db, s)
      <4> HIDE DEF s
      <4>1. \A e \in Drivers : Engages(s, o, e) => Engages(db, o, e)
        BY <2>1, <3>2, NoneAssumption DEF Engages, Fewer
      <4> QED
        BY <4>1, EngagedBy DEF OnlyBy, Free
    <3> QED
      BY <3>1, <3>2, BeginFewer
  <2> QED
    BY <2>1, <2>2, <2>3, TakenHarmless, MessageInTurn
<1> QED
  BY <1>1, <1>2

LEMMA ParallelTakeInTurn ==
  ASSUME Stood(db), NEW d \in Drivers, NEW o \in Orders, ParallelTake(d, o)
  PROVE  InTurn(db')
<1> DEFINE s == Begin(d)
           r == Repair(s, s)
           q == Dequeue(r, o)
           t == [q EXCEPT !.parallel[o] = d, !.driver[o] = d,
                          !.status[o] = "parallel_assigned", !.card[o] = TRUE]
<1>1. db' = MarkAssigned(t, d) /\ s.status[o] \in Candidate
  BY DEF ParallelTake
<1>2. Stood(s) /\ Good(s) /\ s \in Rows
  BY BeginReady
<1>3. \A x : Harmless(s, x, d) => InTurn(x)
  BY MessageInTurn
<1>4. SameSearch(s, r) /\ r \in Rows /\ r.ahead = s.ahead
  BY <1>2, RepairShown
<1> HIDE DEF s, r
<1>5. SameSearch(r, q) /\ q.ahead = r.ahead /\ q \in Rows
  <2>1. Good(r)
    BY <1>2, <1>4, SameIsGood, GoodRows DEF SameSearch
  <2> QED
    BY <1>4, <2>1, SearchUntouched, DequeueGood, GoodRows
<1> HIDE DEF q
<1>6. SameSearch(s, q) /\ q.ahead = s.ahead
  BY <1>4, <1>5, SameSearchTrans
<1>7. Harmless(s, q, d) /\ OnlyBy(q, o, d)
  BY <1>1, <1>6, SameSearchHarmless DEF SameSearch, OnlyBy, Engages, Candidate, Riding
<1>8. t \in Rows
  BY <1>5, StatusValues DEF Rows
<1>9. /\ t.offered = q.offered /\ t.declined = q.declined
      /\ t.online = q.online /\ t.dstat = q.dstat /\ t.ahead = q.ahead
      /\ \A p \in Orders \ {o} : /\ t.status[p] = q.status[p] /\ t.parallel[p] = q.parallel[p]
                                /\ t.driver[p] = q.driver[p]
  BY <1>5 DEF Rows
<1> HIDE DEF t
<1>10. Harmless(q, t, d)
  BY <1>7, <1>9, OrderHarmless
<1>11. Harmless(t, db', d)
  BY <1>1, <1>8, DriverHarmless
<1> QED
  BY <1>3, <1>7, <1>10, <1>11, HarmlessTrans

LEMMA ReservationActionsInTurn ==
  ASSUME Stood(db), NEW d \in Drivers, NEW o \in Orders,
         ParallelEta(d, o) \/ ParallelDecline(d, o)
  PROVE  InTurn(db')
<1> DEFINE s == Begin(d)
           c == [s EXCEPT !.card[o] = FALSE]
           t == Release(c, o)
           u == [s EXCEPT !.card[o] = FALSE, !.peta[o] = TRUE]
<1>0. Stood(s) /\ s \in Rows
  BY BeginReady
<1>1. \A x : Harmless(s, x, d) => InTurn(x)
  BY MessageInTurn
<1>2. CASE ParallelEta(d, o)
  <2>1. db' = u
    BY <1>2 DEF ParallelEta
  <2> HIDE DEF s
  <2>2. SameSearch(s, u) /\ u.ahead = s.ahead
    BY <1>0 DEF SameSearch, Rows
  <2> HIDE DEF u
  <2> QED
    BY <1>1, <2>1, <2>2, SameSearchHarmless
<1>3. CASE ParallelDecline(d, o)
  <2>1. db' \in Promotes(t, t) /\ s.status[o] = "parallel_assigned"
    BY <1>3 DEF ParallelDecline
  <2>2. OnlyBy(s, o, d)
    BY <2>1, BeginReserved
  <2> HIDE DEF s
  <2>3. Harmless(s, c, d) /\ Stood(c) /\ c \in Rows
    BY <1>0, CardHarmless, CardFrom, FromStood
  <2>4. SameOffer(s, c, o)
    BY <1>0 DEF SameOffer, Rows
  <2> HIDE DEF c
  <2>5. Harmless(s, t, d) /\ Stood(t)
    BY <2>2, <2>3, <2>4, SameOfferOnlyBy, ReleaseHarmless, HarmlessTrans, OrdersFrom, FromStood
  <2> HIDE DEF t
  <2> QED
    BY <1>1, <2>1, <2>5, SettledInTurn
<1> QED
  BY <1>2, <1>3

(***************************************************************************)
(* The theorem about the order of service                                  *)
(***************************************************************************)
LEMMA InTurnSteps == Stood(db) /\ [Next]_db => InTurn(db')
<1> SUFFICES ASSUME Stood(db), [Next]_db PROVE InTurn(db')
  OBVIOUS
<1>1. CASE UNCHANGED db
  BY <1>1 DEF InTurn
<1>2. ASSUME NEW d \in Drivers, DriverStep(d) PROVE InTurn(db')
  BY <1>2, LineActionsInTurn, GoOnlineInTurn, RideActionsInTurn, CompleteInTurn,
     CancelForClientInTurn, CancelForCarInTurn DEF DriverStep
<1>3. ASSUME NEW d \in Drivers, NEW o \in Orders, DriverOrderStep(d, o) PROVE InTurn(db')
  <2>1. ASSUME NEW reason \in DeclineReasons, Decline(d, o, reason) PROVE InTurn(db')
    BY <2>1, DeclineInTurn, BehaviourAssumption
  <2> QED
    BY <1>3, <2>1, AcceptInTurn, TakePendingInTurn, ChatTakeInTurn, ParallelTakeInTurn,
       ReservationActionsInTurn DEF DriverOrderStep
<1>4. ASSUME NEW c \in Creators, CreatorStep(c) PROVE InTurn(db')
  BY <1>4, DialogueActionsInTurn, PassengerCancelInTurn, WaitNoInTurn DEF CreatorStep
<1>5. ASSUME NEW o \in Orders, OrderStep(o) PROVE InTurn(db')
  BY <1>5, CreateActionsInTurn, DispCancelInTurn, TimeoutActionsInTurn, AdminCancelInTurn,
     AcceptTimeoutInTurn, ParallelEtaTimeoutInTurn, ConfirmInTurn DEF OrderStep
<1>6. CASE RecoveryWorker
  BY <1>6, FewerRefl, FewerUnoffered, SettledInTurn DEF RecoveryWorker, Stood
<1> QED
  BY <1>1, <1>2, <1>3, <1>4, <1>5, <1>6 DEF Next

\* However the orders, the offers and the rides of the drivers mix, an order passes
\* no free driver further ahead in the line who has not refused it.
THEOREM FirstServed == Spec => FirstInLineFirst
<1> DEFINE A == \A o \in Orders : LET d == db'.offered[o] IN
                  d # NONE /\ d # db.offered[o] =>
                     \A e \in Free(db) \ {d} : <<e, d>> \in db.ahead \cap db'.ahead =>
                         e \in db'.declined[o] \/ e \notin Free(db')
<1>1. IInv /\ LineInv /\ [Next]_db => A
  <2> SUFFICES ASSUME IInv, LineInv, [Next]_db, NEW o \in Orders,
                      db'.offered[o] \notin {NONE, db.offered[o]},
                      NEW e \in Free(db) \ {db'.offered[o]},
                      <<e, db'.offered[o]>> \in db.ahead \cap db'.ahead, e \in Free(db')
               PROVE  e \in db'.declined[o]
    BY Zenon
  <2>1. InTurn(db')
    BY InTurnSteps DEF IInv, LineInv, Stood
  <2>2. e \in Still(db')
    BY DEF Still, Free, Idle
  <2> QED
    BY <2>1, <2>2 DEF InTurn
<1>2. FirstInLineFirst <=> [][A]_db
  BY DEF FirstInLineFirst
<1> HIDE DEF A
<1> QED
  BY Invariance, LineInvariance, <1>1, <1>2, PTL DEF Spec
=============================================================================
