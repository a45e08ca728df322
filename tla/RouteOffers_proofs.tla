-------------------------- MODULE RouteOffers_proofs --------------------------
(***************************************************************************)
(* What holds of a village order for any drivers, trips and chances: an    *)
(* offer ends with the trip it was made for, and the town stage is final.  *)
(***************************************************************************)
EXTENDS RouteOffers, TLAPS

\* A row of the order names a trip and its driver together, and no trip at all once the
\* order is reserved.
Whole(w) ==
    /\ w.busy = Nobody <=> w.trip = 0
    /\ w.status = "reserved" => w.busy = Nobody

\* The driver a row names is on the trip it names; the driver it is offered to is asked.
OnTrip(w, does, rides) ==
    w.busy # Nobody => does[w.busy] = "riding" /\ rides[w.busy].n = w.trip
Asked(w, does) == w.offered # Nobody => does[w.offered] = "offered"

\* A handler that goes on with an old row is on its way to the town: it has dropped the
\* offer, and it will not look for drivers again before it has set the flag.
Townward(at, recheck, base, work) ==
    /\ work.busy = Nobody
    /\ \/ work.fallback
       \/ /\ work.offered \in {Nobody, base.offered}
          /\ \/ at = "fallback" /\ ~recheck
             \/ at \in {"fallback", "promote", "notify"} /\ ~Own(work)

\* A driver of a line whom the handler has chosen is asked, and nobody else after him.
NewOffer(at, base, work, does, on) ==
    work.offered \notin {Nobody, base.offered} =>
        /\ work.status = "searching" /\ at # "nobody"
        /\ does[work.offered] = "offered"
        /\ work.fallback => on[work.offered] = "town"

\* A handler that loaded base and goes on with work, at a row of the order.
Fits(at, recheck, base, work, row, does, on, rides) ==
    /\ Whole(base) /\ Whole(work) /\ OnTrip(work, does, rides)
    /\ work.status = "reserved" => base.status = "reserved"
    /\ base.fallback => work.fallback /\ work.busy \in {Nobody, base.busy}
    /\ NewOffer(at, base, work, does, on)
    /\ \/ base = row /\ Asked(work, does)
       \/ /\ Townward(at, recheck, base, work)
          /\ OnTrip(row, does, rides) /\ Asked(row, does)

SnapInv ==
    /\ Whole(snap.seen)
    /\ snap.by \in {"timeout", "refuse"} => snap.driver \in Cabs
    /\ snap.by = "give up" => snap.seen.status = "reserved"

RowInv ==
    IF Free THEN OnTrip(route, duty, trips) /\ Asked(route, duty)
            ELSE Fits(task.at, task.recheck, task.base, task.work,
                      route, duty, stand, trips)

\* The inductive invariant.
RouteInv == RouteTypeOK /\ Whole(route) /\ RowInv /\ (snap # NoSnap => SnapInv)

---------------------------------------------------------------------------
(* Rows, snapshots and handlers. *)

Stops == {"offer", "nobody", "notify", "fallback", "promote"}
Tasks == [at: Stops, base: Route, work: Route, recheck: BOOLEAN, trailing: BOOLEAN,
          chances: 0..MaxChances]
Snaps == [by: {"timeout", "refuse", "give up", "half hour"}, driver: Cabs \cup {Nobody},
          seen: Route]

LEMMA TaskIs ==
  ASSUME NEW t \in Tasks
  PROVE  /\ t # NoTask
         /\ t.at \in Stops /\ t.base \in Route /\ t.work \in Route
         /\ t.recheck \in BOOLEAN /\ t.trailing \in BOOLEAN /\ t.chances \in 0..MaxChances
<1>1. NoTask.at = "none"  BY DEF NoTask
<1>2. t.at \in Stops  BY DEF Tasks
<1> QED  BY <1>1, <1>2 DEF Tasks, Stops

LEMMA SnapIs ==
  ASSUME NEW s \in Snaps
  PROVE  /\ s # NoSnap
         /\ s.by \in {"timeout", "refuse", "give up", "half hour"}
         /\ s.driver \in Cabs \cup {Nobody} /\ s.seen \in Route
<1>1. NoSnap.by = "none"  BY DEF NoSnap
<1>2. s.by \in {"timeout", "refuse", "give up", "half hour"}  BY DEF Snaps
<1> QED  BY <1>1, <1>2 DEF Snaps

LEMMA Types ==
  ASSUME RouteTypeOK
  PROVE  /\ route \in Route /\ (Free \/ task \in Tasks) /\ (snap = NoSnap \/ snap \in Snaps)
         /\ waits \in BOOLEAN /\ armed \in BOOLEAN
         /\ stand \in [Cabs -> Places] /\ duty \in [Cabs -> Duties]
         /\ trips \in [Cabs -> [n: 0..MaxTrips, muted: BOOLEAN]]
BY DEF RouteTypeOK, Tasks, Snaps, Stops, Free

LEMMA TypesBack ==
  ASSUME route' \in Route, Free' \/ task' \in Tasks, snap' = NoSnap \/ snap' \in Snaps,
         waits' \in BOOLEAN, armed' \in BOOLEAN,
         stand' \in [Cabs -> Places], duty' \in [Cabs -> Duties],
         trips' \in [Cabs -> [n: 0..MaxTrips, muted: BOOLEAN]]
  PROVE  RouteTypeOK'
BY DEF RouteTypeOK, Tasks, Snaps, Stops, Free

\* A row of the order, its columns, and how each update of it types.
LEMMA RouteIs ==
  ASSUME NEW w \in Route
  PROVE  /\ w.status \in Unassigned \cup {"searching", "reserved", "taken", "closed"}
         /\ w.offered \in Cabs \cup {Nobody} /\ w.driver \in Cabs \cup {Nobody}
         /\ w.busy \in Cabs \cup {Nobody} /\ w.trip \in 0..MaxTrips
         /\ w.eta \in BOOLEAN /\ w.excluded \in SUBSET Cabs /\ w.declined \in SUBSET Cabs
         /\ w.fallback \in BOOLEAN
BY DEF Route

LEMMA UnofferedIs ==
  ASSUME NEW w \in Route
  PROVE  /\ Unoffered(w) \in Route
         /\ Unoffered(w).busy = Nobody /\ Unoffered(w).trip = 0
         /\ Unoffered(w).status = w.status /\ Unoffered(w).offered = w.offered
         /\ Unoffered(w).driver = w.driver /\ Unoffered(w).fallback = w.fallback
<1> DEFINE u == [w EXCEPT !.busy = Nobody]
<1>1. /\ u \in Route /\ u.busy = Nobody
      /\ u.status = w.status /\ u.offered = w.offered /\ u.driver = w.driver
      /\ u.fallback = w.fallback
  BY DEF Route
<1>2. Unoffered(w) = [u EXCEPT !.trip = 0]
  BY DEF Unoffered
<1> HIDE DEF u
<1>3. 0 \in 0..MaxTrips
  BY RouteBounds
<1> QED  BY <1>1, <1>2, <1>3 DEF Route

\* What a commit writes.
LEMMA MergedIs ==
  ASSUME route \in Route, NEW base \in Route, NEW work \in Route
  PROVE  /\ Merged(base, work) \in Route
         /\ \A f \in {"status", "offered", "driver", "busy", "trip", "fallback"} :
              Merged(base, work)[f] = IF work[f] = base[f] THEN route[f] ELSE work[f]
         /\ base = route => Merged(base, work) = work
<1>1. DOMAIN route = {"status", "offered", "driver", "busy", "trip", "eta", "excluded",
                      "declined", "fallback"}
  BY DEF Route
<1>2. \A f \in DOMAIN route :
        Merged(base, work)[f] = IF work[f] = base[f] THEN route[f] ELSE work[f]
  BY DEF Merged
<1>3. Merged(base, work) \in Route
  BY <1>1 DEF Merged, Route
<1>4. ASSUME base = route  PROVE Merged(base, work) = work
  <2>1. DOMAIN work = DOMAIN route  BY DEF Route
  <2>2. Merged(base, work) = [f \in DOMAIN route |-> work[f]]
    BY <1>4 DEF Merged
  <2>3. work = [f \in DOMAIN work |-> work[f]]
    BY DEF Route
  <2> QED  BY <2>1, <2>2, <2>3
<1> QED  BY <1>1, <1>2, <1>3, <1>4

LEMMA MergedFits ==
  ASSUME route \in Route, Whole(route), NEW base \in Route, NEW work \in Route,
         NEW at, NEW recheck, NEW does, NEW on, NEW rides,
         Fits(at, recheck, base, work, route, does, on, rides)
  PROVE  /\ Merged(base, work) \in Route /\ Whole(Merged(base, work))
         /\ OnTrip(Merged(base, work), does, rides) /\ Asked(Merged(base, work), does)
<1> DEFINE m == Merged(base, work)
<1>1. /\ m \in Route
      /\ m.status = IF work.status = base.status THEN route.status ELSE work.status
      /\ m.offered = IF work.offered = base.offered THEN route.offered ELSE work.offered
      /\ m.busy = IF work.busy = base.busy THEN route.busy ELSE work.busy
      /\ m.trip = IF work.trip = base.trip THEN route.trip ELSE work.trip
      /\ base = route => m = work
  BY MergedIs
<1>2. CASE base = route /\ Asked(work, does)
  BY <1>1, <1>2 DEF Fits
<1>3. CASE Townward(at, recheck, base, work) /\ OnTrip(route, does, rides) /\ Asked(route, does)
  <2>1. work.busy = Nobody /\ work.trip = 0 /\ Whole(base)
    BY <1>3 DEF Fits, Townward, Whole
  <2>2. Whole(m)
    BY <1>1, <2>1 DEF Whole, Fits
  <2>3. OnTrip(m, does, rides)
    BY <1>1, <1>3, <2>1 DEF Whole, OnTrip
  <2>4. Asked(m, does)
    BY <1>1, <1>3 DEF Asked, Fits, NewOffer
  <2> QED  BY <1>1, <2>2, <2>3, <2>4
<1> QED  BY <1>2, <1>3 DEF Fits

\* The rows the handler has to do with stay true when other drivers come and go.
LEMMA FitsKeeps ==
  ASSUME NEW at, NEW recheck, NEW base \in Route, NEW work \in Route, NEW row \in Route,
         NEW does, NEW on, NEW rides, NEW does2, NEW on2, NEW rides2,
         Fits(at, recheck, base, work, row, does, on, rides),
         \A d \in Cabs : d \in {work.busy, row.busy} /\ does[d] = "riding" =>
                           does2[d] = "riding" /\ rides2[d].n = rides[d].n,
         \A d \in Cabs : does[d] = "offered" => does2[d] = "offered" /\ on2[d] = on[d]
  PROVE  Fits(at, recheck, base, work, row, does2, on2, rides2)
<1> USE RidersAssumption
<1>1. /\ work.busy \in Cabs \cup {Nobody} /\ row.busy \in Cabs \cup {Nobody}
      /\ work.offered \in Cabs \cup {Nobody} /\ row.offered \in Cabs \cup {Nobody}
  BY RouteIs
<1>2. OnTrip(work, does2, rides2) /\ (OnTrip(row, does, rides) => OnTrip(row, does2, rides2))
  BY <1>1 DEF Fits, OnTrip
<1>3. /\ Asked(work, does) => Asked(work, does2)
      /\ Asked(row, does) => Asked(row, does2)
  BY <1>1 DEF Asked
<1>4. NewOffer(at, base, work, does2, on2)
  BY <1>1 DEF Fits, NewOffer
<1> QED  BY <1>2, <1>3, <1>4 DEF Fits

---------------------------------------------------------------------------
(* How the handlers change a row. *)

LEMMA ColumnIs ==
  ASSUME NEW w \in Route
  PROVE  /\ \A s \in Unassigned \cup {"searching", "reserved", "taken", "closed"} :
              LET u == [w EXCEPT !.status = s]
              IN  /\ u \in Route /\ u.status = s /\ u.offered = w.offered /\ u.driver = w.driver
                  /\ u.busy = w.busy /\ u.trip = w.trip /\ u.fallback = w.fallback
         /\ \A d \in Cabs \cup {Nobody} :
              LET u == [w EXCEPT !.offered = d]
              IN  /\ u \in Route /\ u.status = w.status /\ u.offered = d /\ u.driver = w.driver
                  /\ u.busy = w.busy /\ u.trip = w.trip /\ u.fallback = w.fallback
         /\ \A d \in Cabs \cup {Nobody} :
              LET u == [w EXCEPT !.driver = d]
              IN  /\ u \in Route /\ u.status = w.status /\ u.offered = w.offered /\ u.driver = d
                  /\ u.busy = w.busy /\ u.trip = w.trip /\ u.fallback = w.fallback
         /\ \A d \in Cabs \cup {Nobody} :
              LET u == [w EXCEPT !.busy = d]
              IN  /\ u \in Route /\ u.status = w.status /\ u.offered = w.offered
                  /\ u.driver = w.driver /\ u.busy = d /\ u.trip = w.trip
                  /\ u.fallback = w.fallback
         /\ \A n \in 0..MaxTrips :
              LET u == [w EXCEPT !.trip = n]
              IN  /\ u \in Route /\ u.status = w.status /\ u.offered = w.offered
                  /\ u.driver = w.driver /\ u.busy = w.busy /\ u.trip = n
                  /\ u.fallback = w.fallback
         /\ \A b \in BOOLEAN :
              LET u == [w EXCEPT !.eta = b]
              IN  /\ u \in Route /\ u.status = w.status /\ u.offered = w.offered
                  /\ u.driver = w.driver /\ u.busy = w.busy /\ u.trip = w.trip
                  /\ u.fallback = w.fallback
         /\ \A S \in SUBSET Cabs :
              LET u == [w EXCEPT !.excluded = S]
              IN  /\ u \in Route /\ u.status = w.status /\ u.offered = w.offered
                  /\ u.driver = w.driver /\ u.busy = w.busy /\ u.trip = w.trip
                  /\ u.fallback = w.fallback
         /\ \A S \in SUBSET Cabs :
              LET u == [w EXCEPT !.declined = S]
              IN  /\ u \in Route /\ u.status = w.status /\ u.offered = w.offered
                  /\ u.driver = w.driver /\ u.busy = w.busy /\ u.trip = w.trip
                  /\ u.fallback = w.fallback
         /\ \A b \in BOOLEAN :
              LET u == [w EXCEPT !.fallback = b]
              IN  /\ u \in Route /\ u.status = w.status /\ u.offered = w.offered
                  /\ u.driver = w.driver /\ u.busy = w.busy /\ u.trip = w.trip
                  /\ u.fallback = b
BY DEF Route

\* offer_to_next_driver: the order is offered to a driver of a line.
LEMMA OfferedIs ==
  ASSUME NEW w \in Route, NEW d \in Cabs
  PROVE  LET u == [Unoffered(w) EXCEPT !.status = "searching", !.offered = d]
         IN  /\ u \in Route /\ u.status = "searching" /\ u.offered = d /\ u.driver = w.driver
             /\ u.busy = Nobody /\ u.trip = 0 /\ u.fallback = w.fallback
<1> DEFINE a == [Unoffered(w) EXCEPT !.status = "searching"]
<1>1. /\ a \in Route /\ a.status = "searching" /\ a.driver = w.driver
      /\ a.busy = Nobody /\ a.trip = 0 /\ a.fallback = w.fallback
  BY UnofferedIs, ColumnIs
<1> HIDE DEF a
<1>2. LET u == [a EXCEPT !.offered = d]
      IN  /\ u \in Route /\ u.status = "searching" /\ u.offered = d /\ u.driver = w.driver
          /\ u.busy = Nobody /\ u.trip = 0 /\ u.fallback = w.fallback
  BY <1>1, ColumnIs
<1> QED  BY <1>2 DEF a

\* _release and _fallback_to_free_drivers: back to the queue, without a driver.
LEMMA QueuedIs ==
  ASSUME NEW w \in Route
  PROVE  LET u == [w EXCEPT !.status = "queued", !.driver = Nobody, !.eta = FALSE]
         IN  /\ u \in Route /\ u.status = "queued" /\ u.offered = w.offered
             /\ u.driver = Nobody /\ u.busy = w.busy /\ u.trip = w.trip
             /\ u.fallback = w.fallback
<1> DEFINE a == [w EXCEPT !.status = "queued"]
           b == [a EXCEPT !.driver = Nobody]
<1>0. "queued" \in Unassigned
  BY DEF Unassigned
<1>1. /\ a \in Route /\ a.status = "queued" /\ a.offered = w.offered
      /\ a.busy = w.busy /\ a.trip = w.trip /\ a.fallback = w.fallback
  BY <1>0, ColumnIs
<1> HIDE DEF a
<1>2. /\ b \in Route /\ b.status = "queued" /\ b.offered = w.offered /\ b.driver = Nobody
      /\ b.busy = w.busy /\ b.trip = w.trip /\ b.fallback = w.fallback
  BY <1>1, ColumnIs
<1> HIDE DEF b
<1>3. LET u == [b EXCEPT !.eta = FALSE]
      IN  /\ u \in Route /\ u.status = "queued" /\ u.offered = w.offered
          /\ u.driver = Nobody /\ u.busy = w.busy /\ u.trip = w.trip
          /\ u.fallback = w.fallback
  BY <1>2, ColumnIs
<1> QED  BY <1>3 DEF a, b

\* Two columns of the order in the queue.
LEMMA StageIs ==
  ASSUME NEW w \in Route, NEW b \in BOOLEAN
  PROVE  /\ LET u == [w EXCEPT !.status = "searching", !.fallback = b]
            IN  /\ u \in Route /\ u.status = "searching" /\ u.offered = w.offered
                /\ u.driver = w.driver /\ u.busy = w.busy /\ u.trip = w.trip
                /\ u.fallback = b
<1> DEFINE a == [w EXCEPT !.status = "searching"]
<1>1. /\ a \in Route /\ a.status = "searching" /\ a.offered = w.offered
      /\ a.driver = w.driver /\ a.busy = w.busy /\ a.trip = w.trip
  BY ColumnIs
<1> HIDE DEF a
<1>2. LET u == [a EXCEPT !.fallback = b]
      IN  /\ u \in Route /\ u.status = "searching" /\ u.offered = w.offered
          /\ u.driver = w.driver /\ u.busy = w.busy /\ u.trip = w.trip
          /\ u.fallback = b
  BY <1>1, ColumnIs
<1> QED  BY <1>2 DEF a

\* A timeout, a refusal: the driver on a trip is not asked again.
LEMMA RefusedIs ==
  ASSUME NEW w \in Route, snap.driver \in Cabs
  PROVE  /\ Refused(w) \in Route /\ Refused(w).status = w.status
         /\ Refused(w).offered = w.offered /\ Refused(w).driver = w.driver
         /\ Refused(w).busy = Nobody /\ Refused(w).trip = 0
         /\ Refused(w).fallback = w.fallback
<1> DEFINE a == Unoffered(w)
<1>1. /\ a \in Route /\ a.status = w.status /\ a.offered = w.offered /\ a.driver = w.driver
      /\ a.busy = Nobody /\ a.trip = 0 /\ a.fallback = w.fallback
  BY UnofferedIs
<1>2. Refused(w) = [a EXCEPT !.excluded = a.excluded \cup {snap.driver}]
  BY DEF Refused
<1> HIDE DEF a
<1>3. a.excluded \cup {snap.driver} \in SUBSET Cabs
  BY <1>1, RouteIs
<1> QED  BY <1>1, <1>2, <1>3, ColumnIs

\* An order that is closed, whoever it was offered to.
LEMMA ClosedIs ==
  ASSUME NEW w \in Route
  PROVE  LET u == [Unoffered(w) EXCEPT !.status = "closed", !.offered = Nobody]
         IN  /\ u \in Route /\ u.status = "closed" /\ u.offered = Nobody
             /\ u.driver = w.driver /\ u.busy = Nobody /\ u.trip = 0
             /\ u.fallback = w.fallback
<1> DEFINE a == [Unoffered(w) EXCEPT !.status = "closed"]
<1>1. /\ a \in Route /\ a.status = "closed" /\ a.driver = w.driver
      /\ a.busy = Nobody /\ a.trip = 0 /\ a.fallback = w.fallback
  BY UnofferedIs, ColumnIs
<1> HIDE DEF a
<1>2. LET u == [a EXCEPT !.offered = Nobody]
      IN  /\ u \in Route /\ u.status = "closed" /\ u.offered = Nobody
          /\ u.driver = w.driver /\ u.busy = Nobody /\ u.trip = 0
          /\ u.fallback = w.fallback
  BY <1>1, ColumnIs
<1> QED  BY <1>2 DEF a

---------------------------------------------------------------------------
(* The town stage is final. *)

\* What a step may do to a row that is in the town stage.
InTown ==
    /\ route'.fallback
    /\ route'.busy \in {Nobody, route.busy}
    /\ route'.offered \in {Nobody, route.offered} \cup Waiting("town")
                          \cup {d \in Cabs : stand[d] = "town"}

LEMMA SameRowTown ==
  ASSUME route.fallback, UNCHANGED route  PROVE InTown
BY DEF InTown

\* A commit of a handler, whose work fits the row.
LEMMA CommitTown ==
  ASSUME route.fallback, route \in Route, task.base \in Route, NEW work \in Route,
         NEW at, NEW recheck, NEW does, NEW rides,
         Fits(at, recheck, task.base, work, route, does, stand, rides),
         Commits(work)
  PROVE  InTown
<1> DEFINE base == task.base
           m == Merged(base, work)
<1>1. route' = m
  BY DEF Commits
<1>2. /\ m.fallback = IF work.fallback = base.fallback THEN route.fallback ELSE work.fallback
      /\ m.busy = IF work.busy = base.busy THEN route.busy ELSE work.busy
      /\ m.offered = IF work.offered = base.offered THEN route.offered ELSE work.offered
  <2>1. \A f \in {"fallback", "busy", "offered"} :
          m[f] = IF work[f] = base[f] THEN route[f] ELSE work[f]
    BY MergedIs
  <2> HIDE DEF m
  <2> QED  BY <2>1, Zenon
<1>3. /\ work.fallback \in BOOLEAN /\ base.fallback \in BOOLEAN
      /\ work.offered \in Cabs \cup {Nobody} /\ route.fallback \in BOOLEAN
  BY RouteIs
<1> HIDE DEF m
<1>4. m.fallback
  <2>1. base.fallback => work.fallback
    BY DEF Fits
  <2>2. CASE ~work.fallback
    <3>1. work.fallback = base.fallback
      BY <1>3, <2>1, <2>2
    <3>2. m.fallback = route.fallback
      BY <1>2, <3>1
    <3> QED  BY <3>2
  <2>3. CASE work.fallback
    <3>1. m.fallback = route.fallback \/ m.fallback = work.fallback
      BY <1>2
    <3> QED  BY <2>3, <3>1
  <2> QED  BY <2>2, <2>3
<1>5. m.busy \in {Nobody, route.busy}
  BY <1>2, <1>3 DEF Fits, Townward
<1>6. work.offered \notin {Nobody, base.offered} => work.fallback
  BY <1>3 DEF Fits, Townward
<1>7. m.offered \in {Nobody, route.offered} \cup {d \in Cabs : stand[d] = "town"}
  BY <1>2, <1>3, <1>6 DEF Fits, NewOffer
<1> QED  BY <1>1, <1>4, <1>5, <1>7 DEF InTown

\* What a step of a handler keeps.
Kept == RouteInv' /\ (route.fallback => InTown)

---------------------------------------------------------------------------
(* How the handler goes on. *)

\* What every step of the handler leaves alone.
Around ==
    /\ waits' \in BOOLEAN /\ armed' \in BOOLEAN /\ duty' \in [Cabs -> Duties]
    /\ UNCHANGED <<snap, stand, trips>>

LEMMA SnapStays ==
  ASSUME RouteInv, UNCHANGED snap
  PROVE  snap' # NoSnap => SnapInv'
BY DEF RouteInv, SnapInv

LEMMA WorksOn ==
  ASSUME RouteInv, ~Free, Around, UNCHANGED route, task' \in Tasks,
         Fits(task'.at, task'.recheck, task'.base, task'.work, route, duty', stand, trips)
  PROVE  Kept
<1>1. RouteTypeOK'
  BY Types, TypesBack DEF RouteInv, Around
<1>2. Whole(route)' /\ (snap' # NoSnap => SnapInv')
  BY SnapStays DEF RouteInv, Around, Whole
<1>3. ~Free'
  BY TaskIs DEF Free
<1>4. RowInv'
  BY <1>3 DEF RowInv, Around
<1> QED  BY <1>1, <1>2, <1>4, SameRowTown DEF RouteInv, Kept

LEMMA GoesOnInv ==
  ASSUME RouteInv, ~Free, Around, NEW at \in Stops, NEW work \in Route, GoesOn(at, work),
         Fits(at, task.recheck, task.base, work, route, duty', stand, trips)
  PROVE  Kept
<1>1. task \in Tasks
  BY Types DEF RouteInv
<1>2. /\ task' \in Tasks /\ task'.at = at /\ task'.work = work /\ task'.base = task.base
      /\ task'.recheck = task.recheck
  <2> DEFINE t == [task EXCEPT !.at = at]
  <2>1. t \in Tasks /\ t.at = at /\ t.base = task.base /\ t.recheck = task.recheck
    BY <1>1 DEF Tasks
  <2>2. task' = [t EXCEPT !.work = work]
    BY DEF GoesOn
  <2> HIDE DEF t
  <2> QED  BY <2>1, <2>2 DEF Tasks
<1>3. UNCHANGED route
  BY DEF GoesOn
<1> QED  BY <1>2, <1>3, WorksOn

LEMMA RecheckInv ==
  ASSUME RouteInv, ~Free, Around, NEW work \in Route, Recheck(work),
         Fits("fallback", TRUE, task.base, work, route, duty', stand, trips)
  PROVE  Kept
<1>1. task \in Tasks
  BY Types DEF RouteInv
<1>2. /\ task' \in Tasks /\ task'.at = "fallback" /\ task'.work = work
      /\ task'.base = task.base /\ task'.recheck = TRUE
  <2> DEFINE t == [task EXCEPT !.at = "fallback"]
             u == [t EXCEPT !.work = work]
  <2>1. t \in Tasks /\ t.at = "fallback" /\ t.base = task.base
    BY <1>1 DEF Tasks, Stops
  <2> HIDE DEF t
  <2>2. u \in Tasks /\ u.at = "fallback" /\ u.base = task.base /\ u.work = work
    BY <2>1 DEF Tasks
  <2>3. task' = [u EXCEPT !.recheck = TRUE]
    BY DEF Recheck, t
  <2> HIDE DEF u
  <2> QED  BY <2>2, <2>3 DEF Tasks
<1>3. UNCHANGED route
  BY DEF Recheck
<1> QED  BY <1>2, <1>3, WorksOn

LEMMA CommitsInv ==
  ASSUME RouteInv, ~Free, Around, NEW at, NEW recheck, NEW work \in Route, Commits(work),
         Fits(at, recheck, task.base, work, route, duty', stand, trips)
  PROVE  Kept
<1>1. task \in Tasks /\ route \in Route
  BY Types DEF RouteInv
<1>2. task.base \in Route
  BY <1>1, TaskIs
<1>3. /\ route' \in Route /\ Whole(route')
      /\ OnTrip(route', duty', trips) /\ Asked(route', duty')
  BY <1>1, <1>2, MergedFits DEF Commits, RouteInv
<1>4. Free'
  BY DEF Commits, Free
<1>5. RouteTypeOK'
  BY <1>3, <1>4, Types, TypesBack DEF RouteInv, Around
<1>6. RowInv'
  BY <1>3, <1>4 DEF RowInv, Around
<1>7. RouteInv'
  BY <1>3, <1>5, <1>6, SnapStays DEF RouteInv, Around
<1>8. route.fallback => InTown
  BY <1>1, <1>2, CommitTown
<1> QED  BY <1>7, <1>8 DEF Kept

LEMMA ReturnsInv ==
  ASSUME RouteInv, ~Free, Around, NEW work \in Route, Returns(work),
         Fits("promote", task.recheck, task.base, work, route, duty', stand, trips)
  PROVE  Kept
<1>1. task \in Tasks
  BY Types DEF RouteInv
<1>2. CASE task.trailing
  <2>1. /\ UNCHANGED route
        /\ task' = [task EXCEPT !.at = "promote", !.work = work, !.trailing = FALSE]
    BY <1>2 DEF Returns
  <2>2. /\ task' \in Tasks /\ task'.at = "promote" /\ task'.work = work
        /\ task'.base = task.base /\ task'.recheck = task.recheck
    <3> DEFINE t == [task EXCEPT !.at = "promote"]
               u == [t EXCEPT !.work = work]
    <3>1. t \in Tasks /\ t.at = "promote" /\ t.base = task.base /\ t.recheck = task.recheck
      BY <1>1 DEF Tasks, Stops
    <3> HIDE DEF t
    <3>2. /\ u \in Tasks /\ u.at = "promote" /\ u.base = task.base /\ u.work = work
          /\ u.recheck = task.recheck
      BY <3>1 DEF Tasks
    <3>3. task' = [u EXCEPT !.trailing = FALSE]
      BY <2>1 DEF t
    <3> HIDE DEF u
    <3> QED  BY <3>2, <3>3 DEF Tasks
  <2> QED  BY <2>1, <2>2, WorksOn
<1>3. CASE ~task.trailing
  <2>1. Commits(work)
    BY <1>3 DEF Returns
  <2> QED  BY <2>1, CommitsInv
<1> QED  BY <1>2, <1>3

\* A handler begins.
LEMMA StartsInv ==
  ASSUME RouteTypeOK, Whole(route), NEW at \in Stops, NEW base \in Route, NEW work \in Route,
         NEW trailing \in BOOLEAN, StartsAt(at, base, work, FALSE, trailing),
         Fits(at, FALSE, base, work, route, duty', stand', trips'),
         waits' \in BOOLEAN, armed' \in BOOLEAN, stand' \in [Cabs -> Places],
         duty' \in [Cabs -> Duties], trips' \in [Cabs -> [n: 0..MaxTrips, muted: BOOLEAN]],
         snap' = NoSnap \/ (UNCHANGED snap /\ (snap # NoSnap => SnapInv))
  PROVE  RouteInv'
<1>1. /\ task' = [at |-> at, base |-> base, work |-> work, recheck |-> FALSE,
                  trailing |-> trailing, chances |-> 0]
      /\ UNCHANGED route
  BY DEF StartsAt
<1>2. 0 \in 0..MaxChances
  BY RouteBounds
<1>3. /\ task' \in Tasks /\ task'.at = at /\ task'.base = base /\ task'.work = work
      /\ task'.recheck = FALSE
  BY <1>1, <1>2 DEF Tasks
<1>4. ~Free'
  BY <1>3, TaskIs DEF Free
<1>5. RouteTypeOK'
  BY <1>1, <1>3, Types, TypesBack
<1>6. Whole(route)'
  BY <1>1
<1>7. RowInv'
  BY <1>1, <1>3, <1>4 DEF RowInv
<1>8. snap' # NoSnap => SnapInv'
  BY DEF SnapInv
<1> QED  BY <1>5, <1>6, <1>7, <1>8 DEF RouteInv

---------------------------------------------------------------------------
(* The steps of the handler. *)

\* The facts every step of the handler starts from.
LEMMA AtWork ==
  ASSUME RouteInv, ~Free
  PROVE  /\ task \in Tasks /\ route \in Route
         /\ task.base \in Route /\ task.work \in Route /\ task.at \in Stops
         /\ Fits(task.at, task.recheck, task.base, task.work, route, duty, stand, trips)
         /\ duty \in [Cabs -> Duties] /\ stand \in [Cabs -> Places]
         /\ waits \in BOOLEAN /\ armed \in BOOLEAN
         /\ trips \in [Cabs -> [n: 0..MaxTrips, muted: BOOLEAN]]
<1>1. /\ task \in Tasks /\ route \in Route /\ duty \in [Cabs -> Duties]
      /\ waits \in BOOLEAN /\ armed \in BOOLEAN /\ stand \in [Cabs -> Places]
      /\ trips \in [Cabs -> [n: 0..MaxTrips, muted: BOOLEAN]]
  BY Types DEF RouteInv
<1> QED  BY <1>1, TaskIs DEF RouteInv, RowInv

\* The handler goes on with the row it has, at another function.
LEMMA FitsMoves ==
  ASSUME NEW base \in Route, NEW work \in Route, NEW row \in Route, NEW from, NEW recheck,
         NEW does, NEW on, NEW rides, NEW at, NEW recheck2,
         Fits(from, recheck, base, work, row, does, on, rides),
         at # "nobody" \/ work.offered \in {Nobody, base.offered},
         \/ from \in {"offer", "nobody"}
         \/ at \in {"fallback", "promote", "notify"} /\ from \in {"notify", "promote"}
         \/ at \in {"fallback", "promote", "notify"} /\ ~Own(work)
  PROVE  Fits(at, recheck2, base, work, row, does, on, rides)
<1>1. NewOffer(at, base, work, does, on)
  BY DEF Fits, NewOffer
<1>2. Townward(from, recheck, base, work) => Townward(at, recheck2, base, work)
  BY DEF Townward
<1> QED  BY <1>1, <1>2 DEF Fits

LEMMA OfferInv ==
  ASSUME RouteInv, ~Free, OfferStep  PROVE Kept
<1> DEFINE w == task.work
           able == Waiting(Stage(w)) \ w.declined
<1>1. /\ task \in Tasks /\ route \in Route /\ task.base \in Route /\ w \in Route
      /\ Fits("offer", task.recheck, task.base, w, route, duty, stand, trips)
      /\ task.at = "offer"
      /\ waits \in BOOLEAN /\ armed \in BOOLEAN /\ duty \in [Cabs -> Duties]
  BY AtWork DEF OfferStep
<1>2. UNCHANGED <<waits, snap, stand, trips>>
  BY DEF OfferStep
<1>3. CASE Returns(w) /\ UNCHANGED <<armed, duty>>
  <2>1. Fits("promote", task.recheck, task.base, w, route, duty', stand, trips)
    BY <1>1, <1>3, FitsMoves
  <2>2. Around
    BY <1>1, <1>2, <1>3 DEF Around
  <2> QED  BY <1>1, <1>3, <2>1, <2>2, ReturnsInv
<1>4. CASE /\ ~(w.status = "searching" /\ w.offered # Nobody)
           /\ GoesOn("nobody", w) /\ UNCHANGED <<armed, duty>>
  <2>1. w.offered \in {Nobody, task.base.offered}
    BY <1>1, <1>4 DEF Fits, NewOffer
  <2>2. Fits("nobody", task.recheck, task.base, w, route, duty', stand, trips)
    BY <1>1, <1>4, <2>1, FitsMoves
  <2>3. Around
    BY <1>1, <1>2, <1>4 DEF Around
  <2> QED  BY <1>1, <1>4, <2>2, <2>3, GoesOnInv DEF Stops
<1>5. ASSUME NEW d \in able, duty' = [duty EXCEPT ![d] = "offered"], armed' = FALSE,
             Returns([Unoffered(w) EXCEPT !.status = "searching", !.offered = d])
      PROVE  Kept
  <2> DEFINE u == [Unoffered(w) EXCEPT !.status = "searching", !.offered = d]
  <2>1. d \in Cabs /\ duty[d] = "waiting" /\ stand[d] = Stage(w)
    BY <1>5 DEF Waiting
  <2>2. /\ u \in Route /\ u.status = "searching" /\ u.offered = d
        /\ u.busy = Nobody /\ u.trip = 0 /\ u.fallback = w.fallback
    BY <1>1, <2>1, OfferedIs
  <2>3. Returns(u)
    BY <1>5
  <2> HIDE DEF u
  <2>4. Around
    BY <1>1, <1>2, <1>5 DEF Around, Duties
  <2>5. duty'[d] = "offered" /\ \A e \in Cabs \ {d} : duty'[e] = duty[e]
    BY <1>1, <1>5, <2>1
  <2>6. /\ Whole(u) /\ OnTrip(u, duty', trips) /\ Asked(u, duty')
        /\ NewOffer("promote", task.base, u, duty', stand)
    BY <2>1, <2>2, <2>5 DEF Whole, OnTrip, Asked, NewOffer, Stage
  <2>7. CASE task.base = route
    BY <1>1, <2>2, <2>3, <2>4, <2>6, <2>7, ReturnsInv DEF Fits
  <2>8. CASE Townward("offer", task.recheck, task.base, w)
             /\ OnTrip(route, duty, trips) /\ Asked(route, duty)
    <3>1. Townward("promote", task.recheck, task.base, u)
      BY <2>2, <2>8 DEF Townward
    <3>2. route.busy \in Cabs \cup {Nobody} /\ route.offered \in Cabs \cup {Nobody}
      BY <1>1, RouteIs
    <3>3. OnTrip(route, duty', trips) /\ Asked(route, duty')
      BY <2>1, <2>5, <2>8, <3>2 DEF OnTrip, Asked
    <3>4. Fits("promote", task.recheck, task.base, u, route, duty', stand, trips)
      BY <1>1, <2>2, <2>6, <3>1, <3>3 DEF Fits
    <3> QED  BY <2>2, <2>3, <2>4, <3>4, ReturnsInv
  <2> QED  BY <1>1, <2>7, <2>8 DEF Fits
<1> QED  BY <1>3, <1>4, <1>5 DEF OfferStep

LEMMA NobodyInv ==
  ASSUME RouteInv, ~Free, NobodyStep  PROVE Kept
<1> DEFINE w == task.work
<1>1. /\ task \in Tasks /\ route \in Route /\ task.base \in Route /\ w \in Route
      /\ Fits("nobody", task.recheck, task.base, w, route, duty, stand, trips)
      /\ waits \in BOOLEAN /\ armed \in BOOLEAN /\ duty \in [Cabs -> Duties]
  BY AtWork DEF NobodyStep
<1>2. /\ UNCHANGED <<armed, snap, stand, duty, trips>> /\ waits' \in BOOLEAN
  BY <1>1 DEF NobodyStep
<1>3. Around
  BY <1>1, <1>2 DEF Around
<1>4. w.offered \in {Nobody, task.base.offered}
  BY <1>1 DEF Fits, NewOffer
<1>5. CASE GoesOn("offer", w)
  <2>1. Fits("offer", task.recheck, task.base, w, route, duty', stand, trips)
    BY <1>1, <1>2, FitsMoves
  <2> QED  BY <1>1, <1>3, <1>5, <2>1, GoesOnInv DEF Stops
<1>6. CASE GoesOn("notify", [w EXCEPT !.status = Parked("no_drivers")])
  <2> DEFINE u == [w EXCEPT !.status = Parked("no_drivers")]
  <2>1. Parked("no_drivers") \in Unassigned
    BY DEF Parked, Unassigned
  <2>2. /\ u \in Route /\ u.status \in Unassigned /\ u.offered = w.offered
        /\ u.driver = w.driver /\ u.busy = w.busy /\ u.trip = w.trip
        /\ u.fallback = w.fallback
    BY <1>1, <2>1, ColumnIs
  <2>3. GoesOn("notify", u)
    BY <1>6
  <2> HIDE DEF u
  <2>4. Fits("notify", task.recheck, task.base, u, route, duty', stand, trips)
    BY <1>1, <1>2, <1>4, <2>2
       DEF Fits, NewOffer, Townward, Whole, OnTrip, Asked, Unassigned
  <2> QED  BY <1>3, <2>2, <2>3, <2>4, GoesOnInv DEF Stops
<1> QED  BY <1>5, <1>6 DEF NobodyStep

LEMMA NotifyInv ==
  ASSUME RouteInv, ~Free, NotifyStep  PROVE Kept
<1> DEFINE w == task.work
           nobody == FreeFirst(w) \/ w.fallback \/ Eligible(w) = {}
<1>1. /\ task \in Tasks /\ route \in Route /\ task.base \in Route /\ w \in Route
      /\ Fits("notify", task.recheck, task.base, w, route, duty, stand, trips)
      /\ waits \in BOOLEAN /\ armed \in BOOLEAN /\ duty \in [Cabs -> Duties]
      /\ trips \in [Cabs -> [n: 0..MaxTrips, muted: BOOLEAN]]
  BY AtWork DEF NotifyStep
<1>2. /\ UNCHANGED <<waits, snap, stand, duty, trips>> /\ armed' \in BOOLEAN
  BY <1>1 DEF NotifyStep
<1>3. Around
  BY <1>1, <1>2 DEF Around
<1>4. CASE Returns(w)
  <2>1. Fits("promote", task.recheck, task.base, w, route, duty', stand, trips)
    BY <1>1, <1>2, FitsMoves
  <2> QED  BY <1>1, <1>3, <1>4, <2>1, ReturnsInv
<1>5. CASE Recheck(w)
  <2>1. Fits("fallback", TRUE, task.base, w, route, duty', stand, trips)
    BY <1>1, <1>2, FitsMoves
  <2> QED  BY <1>1, <1>3, <1>5, <2>1, RecheckInv
<1>6. ASSUME ~nobody, Own(w), NEW d \in Eligible(w),
             Returns([w EXCEPT !.busy = d, !.trip = trips[d].n])
      PROVE  Kept
  <2> DEFINE n == trips[d].n
             a == [w EXCEPT !.busy = d]
             u == [a EXCEPT !.trip = n]
  <2>1. d \in Cabs /\ duty[d] = "riding" /\ n > 0
    BY <1>6 DEF Eligible
  <2>2. n \in 0..MaxTrips
    BY <1>1, <2>1
  <2> HIDE DEF n
  <2>3. /\ a \in Route /\ a.status = w.status /\ a.offered = w.offered
        /\ a.busy = d /\ a.fallback = w.fallback
    BY <1>1, <2>1, ColumnIs
  <2> HIDE DEF a
  <2>4. /\ u \in Route /\ u.status = w.status /\ u.offered = w.offered
        /\ u.busy = d /\ u.trip = n /\ u.fallback = w.fallback
    BY <2>2, <2>3, ColumnIs
  <2>5. Returns(u)
    BY <1>6 DEF n, a
  <2> HIDE DEF u
  <2>6. task.base = route /\ Asked(w, duty)
    BY <1>1, <1>6 DEF Fits, Townward
  <2>7. Whole(u)
    BY <1>6, <2>1, <2>2, <2>4, RidersAssumption DEF Whole, Own, Unassigned
  <2>8. Fits("promote", task.recheck, task.base, u, route, duty', stand, trips)
    BY <1>1, <1>2, <1>6, <2>1, <2>4, <2>6, <2>7 DEF Fits, NewOffer, OnTrip, Asked, n
  <2> QED  BY <1>3, <2>4, <2>5, <2>8, ReturnsInv
<1> QED  BY <1>4, <1>5, <1>6 DEF NotifyStep

\* _fallback_to_free_drivers, when it does something: the row has no driver and no offer.
LEMMA QueuesAgain ==
  ASSUME RouteInv, ~Free, task.at = "fallback", Own(task.work)
  PROVE  LET w == [Unoffered(task.work) EXCEPT !.status = "queued", !.driver = Nobody,
                                               !.eta = FALSE]
         IN  /\ w \in Route /\ w.status = "queued" /\ w.offered = task.work.offered
             /\ w.busy = Nobody /\ w.trip = 0 /\ w.fallback = task.work.fallback
             /\ w.offered \in {Nobody, task.base.offered}
<1> DEFINE u == Unoffered(task.work)
<1>1. /\ task.work \in Route
      /\ Fits("fallback", task.recheck, task.base, task.work, route, duty, stand, trips)
  BY AtWork
<1>2. /\ u \in Route /\ u.offered = task.work.offered /\ u.busy = Nobody /\ u.trip = 0
      /\ u.fallback = task.work.fallback
  BY <1>1, UnofferedIs
<1>3. task.work.offered \in {Nobody, task.base.offered}
  BY <1>1 DEF Fits, NewOffer, Own, Unassigned
<1> HIDE DEF u
<1>4. LET w == [u EXCEPT !.status = "queued", !.driver = Nobody, !.eta = FALSE]
      IN  /\ w \in Route /\ w.status = "queued" /\ w.offered = u.offered
          /\ w.driver = Nobody /\ w.busy = u.busy /\ w.trip = u.trip
          /\ w.fallback = u.fallback
  BY <1>2, QueuedIs
<1> QED  BY <1>2, <1>3, <1>4 DEF u

LEMMA FallbackInv ==
  ASSUME RouteInv, ~Free, FallbackStep  PROVE Kept
<1> DEFINE w == [Unoffered(task.work) EXCEPT !.status = "queued", !.driver = Nobody,
                                             !.eta = FALSE]
           chance == task.recheck /\ ~w.fallback /\ Waiting("village") # {}
           again == chance \/ (w.fallback /\ Waiting("town") # {})
<1>1. /\ task \in Tasks /\ route \in Route /\ task.base \in Route /\ task.work \in Route
      /\ Fits("fallback", task.recheck, task.base, task.work, route, duty, stand, trips)
      /\ waits \in BOOLEAN /\ armed \in BOOLEAN /\ duty \in [Cabs -> Duties]
      /\ task.at = "fallback"
  BY AtWork DEF FallbackStep
<1>2. /\ UNCHANGED <<snap, stand, duty, trips>>
      /\ waits' \in BOOLEAN /\ armed' \in BOOLEAN
  BY <1>1 DEF FallbackStep
<1>3. Around
  BY <1>1, <1>2 DEF Around
<1>4. CASE ~Own(task.work)
  <2>1. Fits("promote", task.recheck, task.base, task.work, route, duty', stand, trips)
    BY <1>1, <1>2, <1>4, FitsMoves
  <2>2. Returns(task.work)
    BY <1>4 DEF FallbackStep
  <2> QED  BY <1>1, <1>3, <2>1, <2>2, ReturnsInv
<1>5. CASE Own(task.work)
  <2>1. /\ w \in Route /\ w.status = "queued" /\ w.offered = task.work.offered
        /\ w.busy = Nobody /\ w.trip = 0 /\ w.fallback = task.work.fallback
        /\ w.offered \in {Nobody, task.base.offered}
    BY <1>1, <1>5, QueuesAgain
  <2>2. \/ Returns([w EXCEPT !.fallback = TRUE])
        \/ /\ chance \/ Waiting("town") # {}
           /\ again => task.chances < MaxChances
           /\ task' = [task EXCEPT !.at = "offer",
                         !.chances = IF again THEN @ + 1 ELSE @,
                         !.work = [w EXCEPT !.status = "searching", !.fallback = ~chance]]
           /\ UNCHANGED route
    BY <1>5 DEF FallbackStep
  <2>3. task.base.fallback => w.fallback
    BY <1>1, <2>1 DEF Fits
  <2>4. task.base = route \/ ~chance
    BY <1>1, <1>5, <2>1 DEF Fits, Townward
  <2>5. CASE Returns([w EXCEPT !.fallback = TRUE])
    <3> DEFINE u == [w EXCEPT !.fallback = TRUE]
    <3> HIDE DEF w
    <3>1. /\ u \in Route /\ u.status = "queued" /\ u.offered = w.offered
          /\ u.busy = Nobody /\ u.trip = 0 /\ u.fallback = TRUE
      BY <2>1, ColumnIs
    <3>2. Returns(u)
      BY <2>5
    <3> HIDE DEF u
    <3>3. Fits("promote", task.recheck, task.base, u, route, duty', stand, trips)
      BY <1>1, <1>2, <2>1, <3>1 DEF Fits, NewOffer, Townward, Whole, OnTrip, Asked
    <3> QED  BY <1>3, <3>1, <3>2, <3>3, ReturnsInv
  <2>6. CASE /\ again => task.chances < MaxChances
             /\ task' = [task EXCEPT !.at = "offer",
                           !.chances = IF again THEN @ + 1 ELSE @,
                           !.work = [w EXCEPT !.status = "searching", !.fallback = ~chance]]
             /\ UNCHANGED route
    <3> DEFINE c == ~chance
               u == [w EXCEPT !.status = "searching", !.fallback = c]
               n == IF again THEN task.chances + 1 ELSE task.chances
               t == [task EXCEPT !.at = "offer"]
               v == [t EXCEPT !.chances = n]
    <3>1. c \in BOOLEAN /\ (w.fallback => c) /\ (task.base = route \/ c)
      BY <2>4
    <3>2. n \in 0..MaxChances
      BY <1>1, <2>6, TaskIs, RouteBounds
    <3>3. task' = [v EXCEPT !.work = u]
      BY <2>6
    <3> HIDE DEF c, n, w, chance, again
    <3>4. /\ u \in Route /\ u.status = "searching" /\ u.offered = w.offered
          /\ u.busy = Nobody /\ u.trip = 0 /\ u.fallback = c
      BY <2>1, <3>1, StageIs
    <3>5. t \in Tasks /\ t.at = "offer" /\ t.base = task.base /\ t.recheck = task.recheck
      BY <1>1 DEF Tasks, Stops
    <3> HIDE DEF u, t
    <3>6. v \in Tasks /\ v.at = "offer" /\ v.base = task.base /\ v.recheck = task.recheck
      BY <3>2, <3>5 DEF Tasks
    <3> HIDE DEF v
    <3>7. /\ task' \in Tasks /\ task'.at = "offer" /\ task'.base = task.base
          /\ task'.recheck = task.recheck /\ task'.work = u
      BY <3>3, <3>4, <3>6 DEF Tasks
    <3>8. Fits("offer", task.recheck, task.base, u, route, duty', stand, trips)
      BY <1>1, <1>2, <2>1, <2>3, <3>1, <3>4
         DEF Fits, NewOffer, Townward, Whole, OnTrip, Asked
    <3> QED  BY <1>3, <2>6, <3>7, <3>8, WorksOn
  <2> QED  BY <2>2, <2>5, <2>6
<1> QED  BY <1>4, <1>5

LEMMA OverflowsInv ==
  ASSUME RouteInv, ~Free, Overflows  PROVE Kept
<1>1. /\ task \in Tasks /\ route \in Route /\ task.base \in Route /\ task.work \in Route
      /\ Fits("fallback", task.recheck, task.base, task.work, route, duty, stand, trips)
      /\ armed \in BOOLEAN /\ duty \in [Cabs -> Duties]
      /\ task.at = "fallback" /\ Own(task.work)
  BY AtWork DEF Overflows
<1>2. Around /\ UNCHANGED duty
  BY <1>1 DEF Overflows, Around
<1>3. PICK status \in {"searching", "no_drivers", "queued"} :
        Commits([Unoffered(task.work) EXCEPT !.status = status])
  BY DEF Overflows
<1> DEFINE w == Unoffered(task.work)
           u == [w EXCEPT !.status = status]
<1>4. /\ w \in Route /\ w.offered = task.work.offered /\ w.busy = Nobody /\ w.trip = 0
      /\ w.fallback = task.work.fallback
  BY <1>1, UnofferedIs
<1> HIDE DEF w
<1>5. status \in Unassigned \cup {"searching"}
  BY DEF Unassigned
<1>6. /\ u \in Route /\ u.status = status /\ u.offered = w.offered
      /\ u.busy = Nobody /\ u.trip = 0 /\ u.fallback = w.fallback
  BY <1>4, <1>5, ColumnIs
<1>7. Commits(u)
  BY <1>3 DEF w
<1> HIDE DEF u
<1>8. u.offered \in {Nobody, task.base.offered}
  BY <1>1, <1>4, <1>6 DEF Fits, NewOffer, Own, Unassigned
<1>9. Fits("fallback", FALSE, task.base, u, route, duty', stand, trips)
  BY <1>1, <1>2, <1>4, <1>6, <1>8 DEF Fits, NewOffer, Townward, Whole, OnTrip, Asked
<1> QED  BY <1>2, <1>6, <1>7, <1>9, CommitsInv

LEMMA PromoteInv ==
  ASSUME RouteInv, ~Free, PromoteStep  PROVE Kept
<1> DEFINE w == task.work
<1>1. /\ task \in Tasks /\ route \in Route /\ task.base \in Route /\ w \in Route
      /\ Fits("promote", task.recheck, task.base, w, route, duty, stand, trips)
      /\ waits \in BOOLEAN /\ armed \in BOOLEAN /\ duty \in [Cabs -> Duties]
  BY AtWork DEF PromoteStep
<1>2. Around /\ UNCHANGED duty
  BY <1>1 DEF PromoteStep, Around
<1>3. CASE Commits(w)
  BY <1>1, <1>2, <1>3, CommitsInv
<1>4. CASE Own(w) /\ GoesOn("offer", [Unoffered(w) EXCEPT !.status = "searching"])
  <2> DEFINE a == Unoffered(w)
             u == [a EXCEPT !.status = "searching"]
  <2>1. /\ a \in Route /\ a.offered = w.offered /\ a.busy = Nobody /\ a.trip = 0
        /\ a.fallback = w.fallback
    BY <1>1, UnofferedIs
  <2> HIDE DEF a
  <2>2. /\ u \in Route /\ u.status = "searching" /\ u.offered = w.offered
        /\ u.busy = Nobody /\ u.trip = 0 /\ u.fallback = w.fallback
    BY <2>1, ColumnIs
  <2>3. GoesOn("offer", u)
    BY <1>4 DEF a
  <2> HIDE DEF u
  <2>4. w.offered \in {Nobody, task.base.offered}
    BY <1>1, <1>4 DEF Fits, NewOffer, Own, Unassigned
  <2>5. Fits("offer", task.recheck, task.base, u, route, duty', stand, trips)
    BY <1>1, <1>2, <1>4, <2>2, <2>4 DEF Fits, NewOffer, Townward, Whole, OnTrip, Asked
  <2> QED  BY <1>2, <2>2, <2>3, <2>5, GoesOnInv DEF Stops
<1>5. CASE GoesOn("notify", w)
  <2>1. Fits("notify", task.recheck, task.base, w, route, duty', stand, trips)
    BY <1>1, <1>2, FitsMoves
  <2> QED  BY <1>1, <1>2, <1>5, <2>1, GoesOnInv DEF Stops
<1>6. CASE Recheck(w)
  <2>1. Fits("fallback", TRUE, task.base, w, route, duty', stand, trips)
    BY <1>1, <1>2, FitsMoves
  <2> QED  BY <1>1, <1>2, <1>6, <2>1, RecheckInv
<1> QED  BY <1>3, <1>4, <1>5, <1>6 DEF PromoteStep

---------------------------------------------------------------------------
(* The drivers. *)

\* The facts a step of the drivers and of the offers starts from.
LEMMA IdleRoute ==
  ASSUME RouteInv
  PROVE  /\ route \in Route /\ Whole(route)
         /\ Free => OnTrip(route, duty, trips) /\ Asked(route, duty)
         /\ duty \in [Cabs -> Duties] /\ stand \in [Cabs -> Places]
         /\ waits \in BOOLEAN /\ armed \in BOOLEAN
         /\ trips \in [Cabs -> [n: 0..MaxTrips, muted: BOOLEAN]]
         /\ snap # NoSnap => snap \in Snaps /\ SnapInv
BY Types DEF RouteInv, RowInv

\* A step that leaves no handler at work.
LEMMA StaysFree ==
  ASSUME RouteInv, Free, UNCHANGED task,
         route' \in Route, Whole(route'), OnTrip(route', duty', trips'), Asked(route', duty'),
         waits' \in BOOLEAN, armed' \in BOOLEAN, stand' \in [Cabs -> Places],
         duty' \in [Cabs -> Duties], trips' \in [Cabs -> [n: 0..MaxTrips, muted: BOOLEAN]],
         snap' = NoSnap \/ UNCHANGED snap \/ (snap' \in Snaps /\ SnapInv')
  PROVE  RouteInv'
<1>1. Free'
  BY DEF Free
<1>2. snap' = NoSnap \/ snap' \in Snaps
  BY Types DEF RouteInv
<1>3. RouteTypeOK'
  BY <1>1, <1>2, TypesBack
<1>4. RowInv'
  BY <1>1 DEF RowInv
<1>5. snap' # NoSnap => SnapInv'
  BY DEF RouteInv, SnapInv
<1> QED  BY <1>3, <1>4, <1>5 DEF RouteInv

\* A driver moves whom neither the handler nor the order counts on.
LEMMA OthersMove ==
  ASSUME RouteInv, UNCHANGED <<route, task, snap>>,
         waits' \in BOOLEAN, armed' \in BOOLEAN, stand' \in [Cabs -> Places],
         duty' \in [Cabs -> Duties], trips' \in [Cabs -> [n: 0..MaxTrips, muted: BOOLEAN]],
         \A e \in Cabs :
            /\ (Free => e = route.busy) /\ (~Free => e \in {task.work.busy, route.busy})
               /\ duty[e] = "riding" =>
                  duty'[e] = "riding" /\ trips'[e].n = trips[e].n
            /\ duty[e] = "offered" => duty'[e] = "offered" /\ stand'[e] = stand[e]
  PROVE  RouteInv'
<1>1. CASE Free
  <2>1. /\ route \in Route /\ OnTrip(route, duty, trips) /\ Asked(route, duty)
        /\ route.busy \in Cabs \cup {Nobody} /\ route.offered \in Cabs \cup {Nobody}
        /\ Whole(route)
    BY <1>1, IdleRoute, RouteIs
  <2>2. OnTrip(route, duty', trips') /\ Asked(route, duty')
    BY <1>1, <2>1 DEF OnTrip, Asked
  <2> QED  BY <1>1, <2>1, <2>2, StaysFree
<1>2. CASE ~Free
  <2>1. /\ task \in Tasks /\ task.base \in Route /\ task.work \in Route /\ route \in Route
        /\ Fits(task.at, task.recheck, task.base, task.work, route, duty, stand, trips)
    BY <1>2, AtWork
  <2>2. Fits(task.at, task.recheck, task.base, task.work, route, duty', stand', trips')
    BY <1>2, <2>1, FitsKeeps
  <2>3. RouteTypeOK'
    BY <2>1, Types, TypesBack DEF RouteInv
  <2>4. Whole(route)' /\ (snap' # NoSnap => SnapInv')
    BY SnapStays DEF RouteInv
  <2>5. RowInv'
    BY <1>2, <2>2 DEF RowInv, Free
  <2> QED  BY <2>3, <2>4, <2>5 DEF RouteInv
<1> QED  BY <1>1, <1>2

\* A handler that goes through the row as it is.
LEMMA FreshFits ==
  ASSUME NEW row \in Route, Whole(row), NEW work \in Route, NEW at, NEW recheck,
         NEW does, NEW on, NEW rides, Whole(work), OnTrip(work, does, rides),
         Asked(work, does), work.status = "reserved" => row.status = "reserved",
         work.fallback = row.fallback, work.busy \in {Nobody, row.busy},
         work.offered \in {Nobody, row.offered}
  PROVE  Fits(at, recheck, row, work, row, does, on, rides)
BY DEF Fits, NewOffer

LEMMA JoinsInv ==
  ASSUME RouteInv, NEW d \in Cabs, NEW where \in Places, JoinsLine(d, where)  PROVE RouteInv'
<1>1. /\ duty[d] = "off" /\ UNCHANGED <<waits, armed, snap, trips>>
      /\ duty' = [duty EXCEPT ![d] = "waiting"] /\ stand' = [stand EXCEPT ![d] = where]
  BY DEF JoinsLine
<1>2. /\ duty' \in [Cabs -> Duties] /\ stand' \in [Cabs -> Places]
      /\ \A e \in Cabs \ {d} : duty'[e] = duty[e] /\ stand'[e] = stand[e]
      /\ waits' \in BOOLEAN /\ armed' \in BOOLEAN
      /\ trips' \in [Cabs -> [n: 0..MaxTrips, muted: BOOLEAN]]
  BY <1>1, IdleRoute DEF Duties
<1>3. CASE UNCHANGED <<route, task>>
  BY <1>1, <1>2, <1>3, OthersMove
<1>4. CASE Free /\ StartsAt("promote", route, route, FALSE, FALSE)
  <2>1. /\ route \in Route /\ Whole(route) /\ OnTrip(route, duty, trips) /\ Asked(route, duty)
        /\ route.busy \in Cabs \cup {Nobody} /\ route.offered \in Cabs \cup {Nobody}
    BY <1>4, IdleRoute, RouteIs
  <2>2. OnTrip(route, duty', trips') /\ Asked(route, duty')
    BY <1>1, <1>2, <2>1 DEF OnTrip, Asked
  <2>3. Fits("promote", FALSE, route, route, route, duty', stand', trips')
    BY <2>1, <2>2, FreshFits
  <2>4. RouteTypeOK /\ (snap # NoSnap => SnapInv)
    BY DEF RouteInv
  <2> QED  BY <1>1, <1>2, <1>4, <2>1, <2>3, <2>4, StartsInv DEF Stops
<1> QED  BY <1>3, <1>4 DEF JoinsLine

LEMMA LeavesInv ==
  ASSUME RouteInv, NEW d \in Cabs, LeavesLine(d)  PROVE RouteInv'
<1>1. /\ duty[d] = "waiting" /\ UNCHANGED <<route, waits, armed, snap, task, trips>>
      /\ duty' = [duty EXCEPT ![d] = "off"] /\ stand' = [stand EXCEPT ![d] = "town"]
  BY DEF LeavesLine
<1>2. /\ duty' \in [Cabs -> Duties] /\ stand' \in [Cabs -> Places]
      /\ \A e \in Cabs \ {d} : duty'[e] = duty[e] /\ stand'[e] = stand[e]
      /\ waits' \in BOOLEAN /\ armed' \in BOOLEAN
      /\ trips' \in [Cabs -> [n: 0..MaxTrips, muted: BOOLEAN]]
  BY <1>1, IdleRoute DEF Duties, Places
<1> QED  BY <1>1, <1>2, OthersMove

LEMMA StartsTripInv ==
  ASSUME RouteInv, NEW d \in Cabs, StartsTrip(d)  PROVE RouteInv'
<1>1. /\ duty[d] \in {"off", "waiting"} /\ trips[d].n < MaxTrips
      /\ UNCHANGED <<route, waits, armed, snap, task>>
      /\ duty' = [duty EXCEPT ![d] = "riding"] /\ stand' = [stand EXCEPT ![d] = "town"]
      /\ trips' = [trips EXCEPT ![d] = [n |-> @.n + 1, muted |-> FALSE]]
  BY DEF StartsTrip
<1>2. trips[d].n + 1 \in 0..MaxTrips
  BY <1>1, IdleRoute, RouteBounds
<1>3. /\ duty' \in [Cabs -> Duties] /\ stand' \in [Cabs -> Places]
      /\ \A e \in Cabs \ {d} : duty'[e] = duty[e] /\ stand'[e] = stand[e]
      /\ waits' \in BOOLEAN /\ armed' \in BOOLEAN
  BY <1>1, IdleRoute DEF Duties, Places
<1>4. /\ trips' \in [Cabs -> [n: 0..MaxTrips, muted: BOOLEAN]]
      /\ \A e \in Cabs \ {d} : trips'[e] = trips[e]
  BY <1>1, <1>2, IdleRoute
<1> QED  BY <1>1, <1>3, <1>4, OthersMove

LEMMA EndsTripInv ==
  ASSUME RouteInv, NEW d \in Cabs, EndsTrip(d)  PROVE RouteInv'
<1>1. /\ duty[d] = "riding" /\ ~Locks(d) /\ UNCHANGED <<waits, snap, stand, trips>>
  BY DEF EndsTrip
<1>2. /\ route \in Route /\ Whole(route) /\ waits' \in BOOLEAN
      /\ route.busy \in Cabs \cup {Nobody} /\ route.offered \in Cabs \cup {Nobody}
      /\ Free => OnTrip(route, duty, trips) /\ Asked(route, duty)
      /\ duty \in [Cabs -> Duties] /\ stand' \in [Cabs -> Places] /\ armed \in BOOLEAN
      /\ trips' \in [Cabs -> [n: 0..MaxTrips, muted: BOOLEAN]]
  BY <1>1, IdleRoute, RouteIs
<1>3. CASE /\ route.status = "reserved" /\ route.driver = d
           /\ route' = [route EXCEPT !.status = "taken"] /\ UNCHANGED <<task, armed, duty>>
  <2>1. Free
    BY <1>1, <1>3 DEF Locks
  <2>2. /\ route' \in Route /\ route'.status = "taken" /\ route'.busy = route.busy
        /\ route'.trip = route.trip /\ route'.offered = route.offered
    <3> DEFINE u == [route EXCEPT !.status = "taken"]
    <3>0. route \in Route
      BY <1>2
    <3>1. /\ u \in Route /\ u.status = "taken" /\ u.busy = route.busy
          /\ u.trip = route.trip /\ u.offered = route.offered
      BY <3>0, ColumnIs
    <3>2. route' = u
      BY <1>3
    <3> HIDE DEF u
    <3> QED  BY <3>1, <3>2
  <2>3. Whole(route') /\ OnTrip(route', duty', trips') /\ Asked(route', duty')
    BY <1>1, <1>2, <1>3, <2>1, <2>2 DEF Whole, OnTrip, Asked
  <2> QED  BY <1>1, <1>2, <1>3, <2>1, <2>2, <2>3, StaysFree
<1>4. ASSUME duty' = [duty EXCEPT ![d] = "off"]  PROVE
        duty' \in [Cabs -> Duties] /\ \A e \in Cabs \ {d} : duty'[e] = duty[e]
  BY <1>2, <1>4 DEF Duties
<1>5. CASE /\ duty' = [duty EXCEPT ![d] = "off"] /\ Released(d)
           /\ StartsAt("fallback", route, Unoffered(route), FALSE, FALSE) /\ armed' = FALSE
  <2>1. Free
    BY <1>1, <1>5 DEF Locks, Released
  <2>2. /\ Unoffered(route) \in Route
        /\ Unoffered(route).busy = Nobody /\ Unoffered(route).trip = 0
        /\ Unoffered(route).status = route.status /\ Unoffered(route).offered = route.offered
        /\ Unoffered(route).fallback = route.fallback
    BY <1>2, UnofferedIs
  <2>3. /\ Whole(Unoffered(route)) /\ OnTrip(Unoffered(route), duty', trips')
        /\ Asked(Unoffered(route), duty')
    BY <1>1, <1>2, <1>4, <1>5, <2>1, <2>2 DEF Whole, OnTrip, Asked
  <2>4. Fits("fallback", FALSE, route, Unoffered(route), route, duty', stand', trips')
    BY <1>2, <2>2, <2>3, FreshFits
  <2>5. RouteTypeOK /\ (snap # NoSnap => SnapInv) /\ armed' \in BOOLEAN
    BY <1>5 DEF RouteInv
  <2> QED  BY <1>1, <1>2, <1>4, <1>5, <2>2, <2>4, <2>5, StartsInv DEF Stops
<1>6. CASE duty' = [duty EXCEPT ![d] = "off"] /\ ~Released(d) /\ UNCHANGED <<route, task, armed>>
  <2>1. Free => route.busy # d
    BY <1>2, <1>6, RidersAssumption DEF OnTrip, Released
  <2>2. ~Free => d \notin {task.work.busy, route.busy}
    BY <1>1 DEF Locks
  <2>3. armed' \in BOOLEAN
    BY <1>2, <1>6
  <2> QED  BY <1>1, <1>2, <1>4, <1>6, <2>1, <2>2, <2>3, OthersMove
<1> QED  BY <1>3, <1>5, <1>6 DEF EndsTrip

\* _release, of an order that is reserved.
LEMMA RelinquishFits ==
  ASSUME RouteInv, Free, route.status = "reserved",
         \A e \in Cabs : duty[e] = "offered" => duty'[e] = "offered"
  PROVE  /\ route \in Route /\ Relinquished \in Route
         /\ Fits("promote", FALSE, route, Relinquished, route, duty', stand', trips')
<1>1. /\ route \in Route /\ Whole(route) /\ Asked(route, duty)
      /\ route.offered \in Cabs \cup {Nobody}
  BY IdleRoute, RouteIs
<1>2. /\ Relinquished \in Route /\ Relinquished.status = "queued"
      /\ Relinquished.offered = route.offered /\ Relinquished.busy = route.busy
      /\ Relinquished.trip = route.trip /\ Relinquished.fallback = route.fallback
  BY <1>1, QueuedIs DEF Relinquished
<1>3. /\ Whole(Relinquished) /\ OnTrip(Relinquished, duty', trips')
      /\ Asked(Relinquished, duty')
  BY <1>1, <1>2 DEF Whole, OnTrip, Asked
<1> QED  BY <1>1, <1>2, <1>3, FreshFits

LEMMA BreaksInv ==
  ASSUME RouteInv, NEW d \in Cabs, BreaksDown(d)  PROVE RouteInv'
<1>1. /\ duty[d] = "riding" /\ Free /\ route.status = "reserved"
      /\ duty' = [duty EXCEPT ![d] = "off"] /\ waits' = TRUE
      /\ StartsAt("promote", route, Relinquished, FALSE, FALSE)
      /\ UNCHANGED <<armed, snap, stand, trips>>
  BY DEF BreaksDown
<1>2. /\ duty' \in [Cabs -> Duties] /\ stand' \in [Cabs -> Places]
      /\ \A e \in Cabs : duty[e] = "offered" => duty'[e] = "offered"
      /\ waits' \in BOOLEAN /\ armed' \in BOOLEAN
      /\ trips' \in [Cabs -> [n: 0..MaxTrips, muted: BOOLEAN]]
  BY <1>1, IdleRoute DEF Duties
<1>3. RouteTypeOK /\ Whole(route) /\ (snap # NoSnap => SnapInv)
  BY DEF RouteInv
<1> QED  BY <1>1, <1>2, <1>3, RelinquishFits, StartsInv DEF Stops

---------------------------------------------------------------------------
(* The order and its offers. *)

LEMMA DispatchInv ==
  ASSUME RouteInv, DispatchRoute  PROVE RouteInv'
<1>1. /\ Free /\ route.status = "created" /\ UNCHANGED <<armed, snap, stand, duty, trips>>
  BY DEF DispatchRoute
<1>2. /\ route \in Route /\ Whole(route) /\ OnTrip(route, duty, trips) /\ Asked(route, duty)
      /\ duty' \in [Cabs -> Duties] /\ stand' \in [Cabs -> Places] /\ armed' \in BOOLEAN
      /\ waits \in BOOLEAN /\ trips' \in [Cabs -> [n: 0..MaxTrips, muted: BOOLEAN]]
  BY <1>1, IdleRoute
<1>3. RouteTypeOK /\ (snap # NoSnap => SnapInv)
  BY DEF RouteInv
<1>4. CASE StartsAt("offer", route, route, FALSE, FALSE) /\ UNCHANGED waits
  <2>1. Fits("offer", FALSE, route, route, route, duty', stand', trips')
    BY <1>1, <1>2, FreshFits
  <2> QED  BY <1>1, <1>2, <1>3, <1>4, <2>1, StartsInv DEF Stops
<1>5. CASE /\ StartsAt("notify", route, [route EXCEPT !.status = Parked(route.status)],
                       FALSE, FALSE)
           /\ waits' = TRUE
  <2> DEFINE st == Parked(route.status)
             u == [route EXCEPT !.status = st]
  <2>1. st \in Unassigned
    BY <1>1 DEF Parked, Unassigned
  <2> HIDE DEF st
  <2>2. /\ u \in Route /\ u.status = st /\ u.offered = route.offered
        /\ u.busy = route.busy /\ u.trip = route.trip /\ u.fallback = route.fallback
    BY <1>2, <2>1, ColumnIs
  <2>3. StartsAt("notify", route, u, FALSE, FALSE)
    BY <1>5 DEF st
  <2> HIDE DEF u
  <2>4. Whole(u) /\ OnTrip(u, duty', trips') /\ Asked(u, duty') /\ u.status # "reserved"
    BY <1>1, <1>2, <2>1, <2>2 DEF Whole, OnTrip, Asked, Unassigned
  <2>5. Fits("notify", FALSE, route, u, route, duty', stand', trips')
    BY <1>2, <2>2, <2>4, FreshFits
  <2> QED  BY <1>1, <1>2, <1>3, <1>5, <2>2, <2>3, <2>5, StartsInv DEF Stops
<1> QED  BY <1>4, <1>5 DEF DispatchRoute

LEMMA TakesInv ==
  ASSUME RouteInv, NEW d \in Cabs, NEW live \in BOOLEAN, TakesRoute(d, live)  PROVE RouteInv'
<1>1. /\ Free /\ waits' = FALSE /\ armed' = FALSE /\ UNCHANGED <<snap, task, stand, duty, trips>>
      /\ route' = [Unoffered(route) EXCEPT !.status = "reserved", !.driver = d]
  BY DEF TakesRoute
<1>2. route \in Route /\ Asked(route, duty)
  BY <1>1, IdleRoute
<1> DEFINE a == Unoffered(route)
           b == [a EXCEPT !.status = "reserved"]
<1>3. a \in Route /\ a.offered = route.offered /\ a.busy = Nobody /\ a.trip = 0
  BY <1>2, UnofferedIs
<1> HIDE DEF a
<1>4. b \in Route /\ b.offered = route.offered /\ b.busy = Nobody /\ b.trip = 0
  BY <1>3, ColumnIs
<1>5. route' = [b EXCEPT !.driver = d]
  BY <1>1 DEF a
<1> HIDE DEF b
<1>6. [b EXCEPT !.driver = d] \in Route /\ [b EXCEPT !.driver = d].offered = route.offered
      /\ [b EXCEPT !.driver = d].busy = Nobody /\ [b EXCEPT !.driver = d].trip = 0
  BY <1>4, ColumnIs
<1>7. /\ route' \in Route /\ Whole(route')
      /\ OnTrip(route', duty', trips') /\ Asked(route', duty')
  BY <1>1, <1>2, <1>5, <1>6 DEF Whole, OnTrip, Asked
<1> QED  BY <1>1, <1>7, IdleRoute, StaysFree

LEMMA EtaInv ==
  ASSUME RouteInv  PROVE /\ \A d \in Cabs : SavesEta(d) => RouteInv'
                         /\ EtaRunsOut => RouteInv'
<1>1. ASSUME NEW d \in Cabs, SavesEta(d)  PROVE RouteInv'
  <2>1. /\ Free /\ route' = [route EXCEPT !.eta = TRUE]
        /\ UNCHANGED <<waits, armed, snap, task, stand, duty, trips>>
    BY <1>1 DEF SavesEta
  <2>2. /\ route \in Route /\ Whole(route) /\ OnTrip(route, duty, trips) /\ Asked(route, duty)
    BY <2>1, IdleRoute
  <2>3. LET u == [route EXCEPT !.eta = TRUE]
        IN  /\ u \in Route /\ u.status = route.status /\ u.offered = route.offered
            /\ u.busy = route.busy /\ u.trip = route.trip
    BY <2>2, ColumnIs
  <2>4. /\ route' \in Route /\ Whole(route')
        /\ OnTrip(route', duty', trips') /\ Asked(route', duty')
    BY <2>1, <2>2, <2>3 DEF Whole, OnTrip, Asked
  <2> QED  BY <2>1, <2>4, IdleRoute, StaysFree
<1>2. ASSUME EtaRunsOut  PROVE RouteInv'
  <2>1. /\ Free /\ route.status = "reserved" /\ waits' = TRUE
        /\ StartsAt("promote", route, Relinquished, FALSE, FALSE)
        /\ UNCHANGED <<armed, snap, stand, duty, trips>>
    BY <1>2 DEF EtaRunsOut
  <2>2. RouteTypeOK /\ Whole(route) /\ (snap # NoSnap => SnapInv)
    BY DEF RouteInv
  <2> QED  BY <2>1, <2>2, IdleRoute, RelinquishFits, StartsInv DEF Stops
<1> QED  BY <1>1, <1>2

LEMMA SnapReadsInv ==
  ASSUME RouteInv, SnapReads  PROVE RouteInv'
<1>1. /\ Free /\ UNCHANGED <<route, waits, task, stand, duty, trips>>
      /\ armed' \in BOOLEAN
  BY IdleRoute DEF SnapReads
<1>2. /\ route \in Route /\ Whole(route) /\ OnTrip(route, duty, trips) /\ Asked(route, duty)
      /\ route.busy \in Cabs \cup {Nobody}
  BY <1>1, IdleRoute, RouteIs
<1>3. ASSUME NEW by \in {"timeout", "refuse", "give up", "half hour"},
             NEW d \in Cabs \cup {Nobody}, Reads(by, d),
             by \in {"timeout", "refuse"} => d \in Cabs,
             by = "give up" => route.status = "reserved"
      PROVE  RouteInv'
  <2>1. snap' = [by |-> by, driver |-> d, seen |-> route]
    BY <1>3 DEF Reads
  <2>2. snap' \in Snaps /\ snap'.by = by /\ snap'.driver = d /\ snap'.seen = route
    BY <1>2, <2>1 DEF Snaps
  <2>3. SnapInv'
    BY <1>2, <1>3, <2>2 DEF SnapInv, Whole
  <2> QED  BY <1>1, <1>2, <2>2, <2>3, IdleRoute, StaysFree
<1>4. CASE route.busy # Nobody /\ Reads("timeout", route.busy)
  BY <1>2, <1>3, <1>4
<1>5. CASE \E d \in Cabs : Reads("refuse", d)
  BY <1>3, <1>5
<1>6. CASE \E d \in Cabs : route.status = "reserved" /\ Reads("give up", d)
  BY <1>3, <1>6
<1>7. CASE Reads("half hour", Nobody)
  BY <1>3, <1>7
<1> QED  BY <1>4, <1>5, <1>6, <1>7 DEF SnapReads

\* A handler that goes on with the row it read starts towards the town.
LEMMA StaleFits ==
  ASSUME NEW base \in Route, Whole(base), NEW work \in Route, NEW row \in Route,
         NEW does, NEW on, NEW rides,
         work.busy = Nobody, work.trip = 0, work.offered = base.offered,
         work.fallback = base.fallback, work.status = "reserved" => base.status = "reserved",
         OnTrip(row, does, rides), Asked(row, does)
  PROVE  Fits("fallback", FALSE, base, work, row, does, on, rides)
<1>1. Whole(work) /\ OnTrip(work, does, rides)
  BY DEF Whole, OnTrip
<1>2. Townward("fallback", FALSE, base, work)
  BY DEF Townward
<1> QED  BY <1>1, <1>2 DEF Fits, NewOffer

LEMMA StaleInv ==
  ASSUME RouteInv, NEW by \in {"timeout", "refuse", "give up", "half hour"}, snap.by = by
  PROVE  /\ snap # NoSnap /\ snap.seen \in Route /\ Whole(snap.seen)
         /\ by \in {"timeout", "refuse"} => snap.driver \in Cabs
         /\ by = "give up" => snap.seen.status = "reserved"
<1>1. NoSnap.by = "none"
  BY DEF NoSnap
<1>2. snap # NoSnap
  BY <1>1
<1> QED  BY <1>2, IdleRoute, SnapIs DEF SnapInv

LEMMA TimeoutInv ==
  ASSUME RouteInv, TimeoutGoesOn  PROVE RouteInv'
<1>1. /\ Free /\ snap.by = "timeout" /\ snap' = NoSnap /\ armed' = FALSE
      /\ StartsAt("fallback", snap.seen, Refused(snap.seen), FALSE, TRUE)
      /\ UNCHANGED <<waits, stand, duty>>
      /\ trips' = IF OnSameTrip THEN [trips EXCEPT ![snap.driver].muted = TRUE] ELSE trips
  BY DEF TimeoutGoesOn, SnapEnds
<1>2. /\ route \in Route /\ Whole(route) /\ OnTrip(route, duty, trips) /\ Asked(route, duty)
      /\ route.busy \in Cabs \cup {Nobody}
  BY <1>1, IdleRoute, RouteIs
<1>3. snap.seen \in Route /\ Whole(snap.seen) /\ snap.driver \in Cabs
  BY <1>1, StaleInv
<1>4. /\ trips' \in [Cabs -> [n: 0..MaxTrips, muted: BOOLEAN]]
      /\ \A d \in Cabs : trips'[d].n = trips[d].n
  BY <1>1, <1>3, IdleRoute
<1>5. OnTrip(route, duty', trips') /\ Asked(route, duty')
  BY <1>1, <1>2, <1>4 DEF OnTrip, Asked
<1>6. /\ Refused(snap.seen) \in Route
      /\ Fits("fallback", FALSE, snap.seen, Refused(snap.seen), route, duty', stand', trips')
  BY <1>2, <1>3, <1>5, RefusedIs, StaleFits
<1>7. RouteTypeOK /\ waits' \in BOOLEAN /\ stand' \in [Cabs -> Places] /\ duty' \in [Cabs -> Duties]
  BY <1>1, IdleRoute DEF RouteInv
<1> QED  BY <1>1, <1>2, <1>3, <1>4, <1>6, <1>7, StartsInv DEF Stops

LEMMA RefusalInv ==
  ASSUME RouteInv, RefusalGoesOn  PROVE RouteInv'
<1>1. /\ Free /\ snap.by = "refuse" /\ snap' = NoSnap /\ UNCHANGED <<waits, stand, duty, trips>>
  BY DEF RefusalGoesOn, SnapEnds
<1>2. /\ route \in Route /\ Whole(route) /\ OnTrip(route, duty, trips) /\ Asked(route, duty)
  BY <1>1, IdleRoute
<1>3. snap.seen \in Route /\ Whole(snap.seen) /\ snap.driver \in Cabs
  BY <1>1, StaleInv
<1>4. /\ RouteTypeOK /\ waits' \in BOOLEAN /\ armed \in BOOLEAN /\ stand' \in [Cabs -> Places]
      /\ duty' \in [Cabs -> Duties] /\ trips' \in [Cabs -> [n: 0..MaxTrips, muted: BOOLEAN]]
  BY <1>1, IdleRoute DEF RouteInv
<1>5. CASE armed' = FALSE /\ StartsAt("fallback", snap.seen, Refused(snap.seen), FALSE, FALSE)
  <2>1. /\ Refused(snap.seen) \in Route
        /\ Fits("fallback", FALSE, snap.seen, Refused(snap.seen), route, duty', stand', trips')
    BY <1>1, <1>2, <1>3, RefusedIs, StaleFits
  <2> QED  BY <1>1, <1>2, <1>3, <1>4, <1>5, <2>1, StartsInv DEF Stops
<1>6. CASE UNCHANGED <<route, task, armed>>
  <2>1. /\ route' \in Route /\ Whole(route') /\ armed' \in BOOLEAN
        /\ OnTrip(route', duty', trips') /\ Asked(route', duty')
    BY <1>1, <1>2, <1>4, <1>6
  <2> QED  BY <1>1, <1>4, <1>6, <2>1, StaysFree
<1> QED  BY <1>5, <1>6 DEF RefusalGoesOn

LEMMA GivesUpInv ==
  ASSUME RouteInv, GivesUp  PROVE RouteInv'
<1> DEFINE u == [snap.seen EXCEPT !.status = "queued", !.driver = Nobody, !.eta = FALSE]
<1>1. /\ Free /\ snap.by = "give up" /\ snap' = NoSnap
      /\ StartsAt("fallback", snap.seen, u, FALSE, FALSE)
      /\ UNCHANGED <<waits, armed, stand, duty, trips>>
  BY DEF GivesUp, SnapEnds
<1>2. /\ route \in Route /\ Whole(route) /\ OnTrip(route, duty, trips) /\ Asked(route, duty)
  BY <1>1, IdleRoute
<1>3. snap.seen \in Route /\ Whole(snap.seen) /\ snap.seen.busy = Nobody /\ snap.seen.trip = 0
  BY <1>1, StaleInv DEF Whole
<1>4. /\ u \in Route /\ u.status = "queued" /\ u.offered = snap.seen.offered
      /\ u.busy = snap.seen.busy /\ u.trip = snap.seen.trip
      /\ u.fallback = snap.seen.fallback
  BY <1>3, QueuedIs
<1> HIDE DEF u
<1>5. Fits("fallback", FALSE, snap.seen, u, route, duty', stand', trips')
  BY <1>1, <1>2, <1>3, <1>4, StaleFits
<1>6. /\ RouteTypeOK /\ waits' \in BOOLEAN /\ armed' \in BOOLEAN /\ stand' \in [Cabs -> Places]
      /\ duty' \in [Cabs -> Duties] /\ trips' \in [Cabs -> [n: 0..MaxTrips, muted: BOOLEAN]]
  BY <1>1, IdleRoute DEF RouteInv
<1> QED  BY <1>1, <1>2, <1>3, <1>4, <1>5, <1>6, StartsInv DEF Stops

\* The half hour of a dispatcher's order: the driver it was offered to goes back.
LEMMA HalfHourInv ==
  ASSUME RouteInv, HalfHourOver  PROVE RouteInv'
<1> DEFINE u == [Unoffered(snap.seen) EXCEPT !.status = "closed", !.offered = Nobody]
           m == Merged(snap.seen, u)
<1>1. /\ Free /\ snap.by = "half hour" /\ snap' = NoSnap /\ waits' = FALSE
      /\ route' = m /\ armed' = (armed /\ snap.seen.busy = Nobody)
      /\ duty' = [d \in Cabs |-> IF d = snap.seen.offered /\ duty[d] = "offered"
                                 THEN "waiting" ELSE duty[d]]
      /\ UNCHANGED <<task, stand, trips>>
  BY DEF HalfHourOver, SnapEnds
<1>2. /\ route \in Route /\ Whole(route) /\ OnTrip(route, duty, trips) /\ Asked(route, duty)
      /\ route.busy \in Cabs \cup {Nobody} /\ route.offered \in Cabs \cup {Nobody}
      /\ duty \in [Cabs -> Duties]
  BY <1>1, IdleRoute, RouteIs
<1>3. snap.seen \in Route /\ Whole(snap.seen)
  BY <1>1, StaleInv
<1>4. /\ u \in Route /\ u.status = "closed" /\ u.offered = Nobody
      /\ u.busy = Nobody /\ u.trip = 0 /\ u.fallback = snap.seen.fallback
  BY <1>3, ClosedIs
<1> HIDE DEF u
<1>5. Fits("fallback", FALSE, snap.seen, u, route, duty, stand, trips)
  BY <1>2, <1>3, <1>4 DEF Fits, NewOffer, Townward, Whole, OnTrip
<1>6. m \in Route /\ Whole(m) /\ OnTrip(m, duty, trips) /\ Asked(m, duty)
  BY <1>2, <1>3, <1>4, <1>5, MergedFits
<1>7. m.offered = IF u.offered = snap.seen.offered THEN route.offered ELSE u.offered
  BY <1>2, <1>3, <1>4, MergedIs
<1>8. m.busy \in Cabs \cup {Nobody} /\ m.offered \in Cabs \cup {Nobody}
  BY <1>6, RouteIs
<1> HIDE DEF m
<1>9. /\ duty' \in [Cabs -> Duties]
      /\ \A d \in Cabs : duty[d] = "riding" => duty'[d] = "riding"
      /\ \A d \in Cabs : d # snap.seen.offered => duty'[d] = duty[d]
  BY <1>1, <1>2 DEF Duties
<1>10. OnTrip(m, duty', trips)
  BY <1>6, <1>8, <1>9 DEF OnTrip
<1>11. Asked(m, duty')
  BY <1>4, <1>6, <1>7, <1>8, <1>9, RidersAssumption DEF Asked
<1>12. /\ route' \in Route /\ Whole(route')
       /\ OnTrip(route', duty', trips') /\ Asked(route', duty')
  BY <1>1, <1>6, <1>10, <1>11
<1>13. armed' \in BOOLEAN
  BY <1>1, IdleRoute
<1> QED  BY <1>1, <1>9, <1>12, <1>13, IdleRoute, StaysFree

LEMMA ClosesInv ==
  ASSUME RouteInv, DispatcherCloses  PROVE RouteInv'
<1> DEFINE u == [Unoffered(route) EXCEPT !.status = "closed", !.offered = Nobody]
<1>1. /\ Free /\ route' = u /\ waits' = FALSE /\ armed' = FALSE
      /\ duty' = [d \in Cabs |-> IF d = route.offered /\ duty[d] = "offered"
                                 THEN "waiting" ELSE duty[d]]
      /\ UNCHANGED <<snap, task, stand, trips>>
  BY DEF DispatcherCloses
<1>2. route \in Route /\ duty \in [Cabs -> Duties]
  BY <1>1, IdleRoute
<1>3. u \in Route /\ u.offered = Nobody /\ u.busy = Nobody /\ u.trip = 0
  BY <1>2, ClosedIs
<1> HIDE DEF u
<1>4. /\ route' \in Route /\ Whole(route')
      /\ OnTrip(route', duty', trips') /\ Asked(route', duty')
  BY <1>1, <1>3 DEF Whole, OnTrip, Asked
<1>5. duty' \in [Cabs -> Duties]
  BY <1>1, <1>2 DEF Duties
<1> QED  BY <1>1, <1>4, <1>5, IdleRoute, StaysFree

LEMMA AcceptsInv ==
  ASSUME RouteInv, NEW d \in Cabs, FreeAccepts(d)  PROVE RouteInv'
<1>1. /\ Free /\ route' = [route EXCEPT !.status = "taken", !.driver = d, !.offered = Nobody]
      /\ duty' = [duty EXCEPT ![d] = "riding"]
      /\ UNCHANGED <<waits, armed, snap, task, stand, trips>>
  BY DEF FreeAccepts, Holds
<1>2. /\ route \in Route /\ Whole(route) /\ OnTrip(route, duty, trips)
      /\ route.busy \in Cabs \cup {Nobody} /\ duty \in [Cabs -> Duties]
  BY <1>1, IdleRoute, RouteIs
<1> DEFINE a == [route EXCEPT !.status = "taken"]
           b == [a EXCEPT !.driver = d]
           c == [b EXCEPT !.offered = Nobody]
<1>3. a \in Route /\ a.status = "taken" /\ a.busy = route.busy /\ a.trip = route.trip
  <2>1. route \in Route
    BY <1>2
  <2> QED  BY <2>1, ColumnIs
<1>4. route' = [[a EXCEPT !.driver = d] EXCEPT !.offered = Nobody]
  BY <1>1
<1> HIDE DEF a
<1>5. b \in Route /\ b.status = "taken" /\ b.busy = route.busy /\ b.trip = route.trip
  BY <1>3, ColumnIs
<1>6. route' = c
  BY <1>4
<1> HIDE DEF b
<1>7. /\ c \in Route /\ c.status = "taken" /\ c.busy = route.busy /\ c.trip = route.trip
      /\ c.offered = Nobody
  BY <1>5, ColumnIs
<1> HIDE DEF c
<1>8. /\ duty' \in [Cabs -> Duties]
      /\ \A e \in Cabs : duty[e] = "riding" => duty'[e] = "riding"
  BY <1>1, <1>2 DEF Duties
<1>9. /\ route' \in Route /\ Whole(route')
      /\ OnTrip(route', duty', trips') /\ Asked(route', duty')
  BY <1>1, <1>2, <1>6, <1>7, <1>8 DEF Whole, OnTrip, Asked
<1> QED  BY <1>1, <1>8, <1>9, IdleRoute, StaysFree

\* A driver of a line answers no, or not in time: offer_to_next_driver.
LEMMA NextInv ==
  ASSUME RouteInv, NEW d \in Cabs, Holds(d), duty' \in [Cabs -> Duties],
         \A e \in Cabs : duty[e] = "riding" => duty'[e] = "riding", NEW work \in Route,
         work.status = route.status, work.busy = route.busy, work.trip = route.trip,
         work.fallback = route.fallback, work.offered = Nobody,
         \/ StartsAt("offer", route, work, FALSE, TRUE)
         \/ StartsAt("offer", route, work, FALSE, FALSE),
         UNCHANGED <<waits, armed, snap, stand, trips>>
  PROVE  RouteInv'
<1>1. /\ route \in Route /\ Whole(route) /\ OnTrip(route, duty, trips) /\ Asked(route, duty)
      /\ route.busy \in Cabs \cup {Nobody} /\ duty \in [Cabs -> Duties]
      /\ route.offered = d
  BY IdleRoute, RouteIs DEF Holds
<1>2. Whole(work) /\ OnTrip(work, duty', trips') /\ Asked(work, duty')
  BY <1>1 DEF Whole, OnTrip, Asked
<1>3. Fits("offer", FALSE, route, work, route, duty', stand', trips')
  BY <1>1, <1>2, FreshFits
<1>4. /\ RouteTypeOK /\ waits' \in BOOLEAN /\ armed' \in BOOLEAN /\ stand' \in [Cabs -> Places]
      /\ trips' \in [Cabs -> [n: 0..MaxTrips, muted: BOOLEAN]]
      /\ UNCHANGED snap /\ (snap # NoSnap => SnapInv) /\ "offer" \in Stops
  BY IdleRoute DEF RouteInv, Stops
<1>5. Whole(route)
  BY DEF RouteInv
<1>6. CASE StartsAt("offer", route, work, FALSE, TRUE)
  BY <1>1, <1>3, <1>4, <1>6, StartsInv
<1>7. CASE StartsAt("offer", route, work, FALSE, FALSE)
  BY <1>1, <1>3, <1>4, <1>7, StartsInv
<1> QED  BY <1>6, <1>7

LEMMA DeclinesInv ==
  ASSUME RouteInv, NEW d \in Cabs
  PROVE  /\ \A stays \in BOOLEAN : FreeDeclines(d, stays) => RouteInv'
         /\ FreeTimesOut(d) => RouteInv'
<1> DEFINE a == [route EXCEPT !.offered = Nobody]
           u == [a EXCEPT !.declined = a.declined \cup {d}]
<1>1. route \in Route
  BY IdleRoute
<1>2. /\ a \in Route /\ a.status = route.status /\ a.offered = Nobody
      /\ a.busy = route.busy /\ a.trip = route.trip /\ a.fallback = route.fallback
  BY <1>1, ColumnIs
<1>3. u = [route EXCEPT !.offered = Nobody, !.declined = @ \cup {d}]
  BY <1>1 DEF Route
<1>4. ASSUME Holds(d), NEW does \in {"waiting", "off"}, duty' = [duty EXCEPT ![d] = does]
      PROVE  /\ duty' \in [Cabs -> Duties]
             /\ \A e \in Cabs : duty[e] = "riding" => duty'[e] = "riding"
  <2>1. duty \in [Cabs -> Duties] /\ Asked(route, duty) /\ route.offered = d
    BY <1>4, IdleRoute DEF Holds
  <2>2. duty[d] = "offered"
    BY <2>1, RidersAssumption DEF Asked
  <2> QED  BY <1>4, <2>1, <2>2 DEF Duties
<1>5. ASSUME FreeTimesOut(d)  PROVE RouteInv'
  <2>1. /\ Holds(d) /\ duty' = [duty EXCEPT ![d] = "off"]
        /\ StartsAt("offer", route, a, FALSE, TRUE)
        /\ UNCHANGED <<waits, armed, snap, stand, trips>>
    BY <1>5 DEF FreeTimesOut
  <2> HIDE DEF a
  <2>2. /\ duty' \in [Cabs -> Duties]
        /\ \A e \in Cabs : duty[e] = "riding" => duty'[e] = "riding"
    BY <1>4, <2>1
  <2> QED  BY <1>2, <2>1, <2>2, NextInv
<1>6. ASSUME NEW stays \in BOOLEAN, FreeDeclines(d, stays)  PROVE RouteInv'
  <2> DEFINE does == IF stays THEN "waiting" ELSE "off"
  <2>1. /\ Holds(d) /\ duty' = [duty EXCEPT ![d] = does]
        /\ UNCHANGED <<waits, armed, snap, stand, trips>>
    BY <1>6 DEF FreeDeclines
  <2>2. StartsAt("offer", route, [route EXCEPT !.offered = Nobody, !.declined = @ \cup {d}],
                 FALSE, stays)
    BY <1>6 DEF FreeDeclines
  <2> HIDE DEF a
  <2>3. a.declined \cup {d} \in SUBSET Cabs
    BY <1>2, RouteIs
  <2>4. /\ u \in Route /\ u.status = a.status /\ u.offered = a.offered
        /\ u.busy = a.busy /\ u.trip = a.trip /\ u.fallback = a.fallback
    BY <1>2, <2>3, ColumnIs
  <2>5. does \in {"waiting", "off"}
    OBVIOUS
  <2>6. \/ StartsAt("offer", route, u, FALSE, TRUE)
        \/ StartsAt("offer", route, u, FALSE, FALSE)
    <3> HIDE DEF u
    <3>1. StartsAt("offer", route, u, FALSE, stays)
      BY <1>3, <2>2
    <3> QED  BY <3>1 DEF StartsAt
  <2> HIDE DEF u, does
  <2>7. /\ duty' \in [Cabs -> Duties]
        /\ \A e \in Cabs : duty[e] = "riding" => duty'[e] = "riding"
    BY <1>4, <2>1, <2>5
  <2> QED  BY <1>2, <2>1, <2>4, <2>6, <2>7, NextInv
<1> QED  BY <1>5, <1>6

LEMMA RouteRestartInv ==
  ASSUME RouteInv, RouteRestart  PROVE RouteInv'
<1>1. /\ Free /\ snap' = NoSnap /\ UNCHANGED <<route, waits, task, stand, duty, trips>>
      /\ armed' \in BOOLEAN
  BY IdleRoute DEF RouteRestart, SnapEnds
<1>2. /\ route' \in Route /\ Whole(route')
      /\ OnTrip(route', duty', trips') /\ Asked(route', duty')
  BY <1>1, IdleRoute
<1> QED  BY <1>1, <1>2, IdleRoute, StaysFree

---------------------------------------------------------------------------
(* The invariant. *)

\* A step of the handler has a handler that takes it.
LEMMA AtSomething ==
  ASSUME TaskSteps  PROVE ~Free
<1>1. NoTask.at = "none"
  BY DEF NoTask
<1> QED  BY <1>1 DEF TaskSteps, OfferStep, NobodyStep, NotifyStep, FallbackStep, PromoteStep,
                     Overflows, Free

LEMMA RouteInitInv ==
  ASSUME RouteInit  PROVE RouteInv
<1>1. 0 \in 0..MaxTrips
  BY RouteBounds
<1>2. /\ route \in Route /\ Whole(route) /\ OnTrip(route, duty, trips) /\ Asked(route, duty)
  BY <1>1 DEF RouteInit, Route, Unassigned, Whole, OnTrip, Asked
<1>3. Free /\ snap = NoSnap
  BY DEF RouteInit, Free
<1>4. RouteTypeOK
  <2>1. /\ waits \in BOOLEAN /\ armed \in BOOLEAN /\ stand \in [Cabs -> Places]
        /\ duty \in [Cabs -> Duties] /\ trips \in [Cabs -> [n: 0..MaxTrips, muted: BOOLEAN]]
    BY <1>1 DEF RouteInit, Places, Duties
  <2> QED  BY <1>2, <1>3, <2>1 DEF RouteTypeOK, Free
<1> QED  BY <1>2, <1>3, <1>4 DEF RouteInv, RowInv

LEMMA NextKeepsInv ==
  ASSUME RouteInv, RouteNext  PROVE RouteInv'
<1>1. CASE TaskSteps
  BY <1>1, AtSomething, OfferInv, NobodyInv, NotifyInv, FallbackInv, PromoteInv, OverflowsInv
     DEF TaskSteps, Kept
<1>2. ASSUME NEW d \in Cabs,
             \/ \E where \in Places : JoinsLine(d, where)
             \/ LeavesLine(d) \/ StartsTrip(d) \/ EndsTrip(d) \/ BreaksDown(d)
             \/ \E live \in BOOLEAN : TakesRoute(d, live)
             \/ SavesEta(d) \/ FreeAccepts(d) \/ FreeTimesOut(d)
             \/ \E stays \in BOOLEAN : FreeDeclines(d, stays)
      PROVE  RouteInv'
  BY <1>2, JoinsInv, LeavesInv, StartsTripInv, EndsTripInv, BreaksInv, TakesInv, EtaInv,
     AcceptsInv, DeclinesInv
<1>3. CASE \/ DispatchRoute \/ EtaRunsOut \/ SnapReads \/ TimeoutGoesOn \/ RefusalGoesOn
           \/ GivesUp \/ HalfHourOver \/ DispatcherCloses \/ RouteRestart
  BY <1>3, DispatchInv, EtaInv, SnapReadsInv, TimeoutInv, RefusalInv, GivesUpInv, HalfHourInv,
     ClosesInv, RouteRestartInv
<1> QED  BY <1>1, <1>2, <1>3 DEF RouteNext

LEMMA StutterKeepsInv ==
  ASSUME RouteInv, UNCHANGED routeVars  PROVE RouteInv'
<1>1. UNCHANGED <<route, waits, armed, snap, task, stand, duty, trips>>
  BY DEF routeVars
<1>2. RouteTypeOK'
  BY <1>1, Types, TypesBack DEF RouteInv, Free
<1>3. RowInv'
  BY <1>1 DEF RouteInv, RowInv, Free
<1>4. Whole(route)' /\ (snap' # NoSnap => SnapInv')
  BY <1>1, SnapStays DEF RouteInv
<1> QED  BY <1>2, <1>3, <1>4 DEF RouteInv

\* The inductive invariant of parallel_orders.py's automatic offers: a row of the order
\* names a driver together with his trip, and a handler with an old row goes to the town.
THEOREM RouteInvariant == RouteSpec => []RouteInv
<1>1. RouteInit => RouteInv
  BY RouteInitInv
<1>2. RouteInv /\ [RouteNext]_routeVars => RouteInv'
  BY NextKeepsInv, StutterKeepsInv
<1> QED  BY <1>1, <1>2, PTL DEF RouteSpec

\* An automatic offer never outlives the trip it was made for
\* (release_route_offers_for_trip, _clear_route_offer_state).
THEOREM OffersEndWithTrips == RouteSpec => []OfferEndsWithTrip
<1>1. RouteInv => OfferEndsWithTrip
  BY DEF RouteInv, RowInv, OnTrip, OfferEndsWithTrip
<1> QED  BY <1>1, RouteInvariant, PTL

\* The other steps of TownIsFinal: most leave the row alone, the rest keep its stage and
\* its offers or drop them.
Drops ==
    /\ route'.fallback = route.fallback
    /\ route'.busy \in {Nobody, route.busy} /\ route'.offered \in {Nobody, route.offered}

LEMMA DropsTown ==
  ASSUME route.fallback, Drops  PROVE InTown
BY DEF InTown, Drops

LEMMA DriversTown ==
  ASSUME RouteInv, NEW d \in Cabs
  PROVE  /\ \A where \in Places : JoinsLine(d, where) => Drops
         /\ LeavesLine(d) \/ StartsTrip(d) \/ BreaksDown(d) => Drops
         /\ EndsTrip(d) => Drops
<1>1. ASSUME UNCHANGED route  PROVE Drops
  BY <1>1 DEF Drops
<1>2. ASSUME NEW where \in Places, JoinsLine(d, where)  PROVE Drops
  BY <1>1, <1>2 DEF JoinsLine, StartsAt
<1>3. CASE LeavesLine(d) \/ StartsTrip(d) \/ BreaksDown(d)
  BY <1>1, <1>3 DEF LeavesLine, StartsTrip, BreaksDown, StartsAt
<1>4. CASE EndsTrip(d)
  <2> DEFINE u == [route EXCEPT !.status = "taken"]
  <2>1. CASE route' = u
    <3>1. route \in Route
      BY IdleRoute
    <3>2. /\ u.fallback = route.fallback /\ u.busy = route.busy /\ u.offered = route.offered
      BY <3>1, ColumnIs
    <3> HIDE DEF u
    <3> QED  BY <2>1, <3>2 DEF Drops
  <2> QED  BY <1>1, <1>4, <2>1 DEF EndsTrip, StartsAt
<1> QED  BY <1>2, <1>3, <1>4

LEMMA AnswersTown ==
  ASSUME RouteInv, NEW d \in Cabs
  PROVE  /\ \A live \in BOOLEAN : TakesRoute(d, live) => Drops
         /\ SavesEta(d) => Drops
         /\ FreeAccepts(d) => Drops
         /\ FreeTimesOut(d) => Drops
         /\ \A stays \in BOOLEAN : FreeDeclines(d, stays) => Drops
<1>1. route \in Route
  BY IdleRoute
<1>2. ASSUME NEW live \in BOOLEAN, TakesRoute(d, live)  PROVE Drops
  <2> DEFINE a == Unoffered(route)
             b == [a EXCEPT !.status = "reserved"]
             c == [b EXCEPT !.driver = d]
  <2>1. a \in Route /\ a.offered = route.offered /\ a.busy = Nobody /\ a.fallback = route.fallback
    BY <1>1, UnofferedIs
  <2>2. route' = [[a EXCEPT !.status = "reserved"] EXCEPT !.driver = d]
    BY <1>2 DEF TakesRoute
  <2> HIDE DEF a
  <2>3. b \in Route /\ b.offered = route.offered /\ b.busy = Nobody /\ b.fallback = route.fallback
    BY <2>1, ColumnIs
  <2>4. route' = c
    BY <2>2
  <2> HIDE DEF b
  <2>5. c.offered = route.offered /\ c.busy = Nobody /\ c.fallback = route.fallback
    BY <2>3, ColumnIs
  <2> HIDE DEF c
  <2> QED  BY <2>4, <2>5 DEF Drops
<1>3. CASE SavesEta(d)
  <2> DEFINE u == [route EXCEPT !.eta = TRUE]
  <2>1. u.offered = route.offered /\ u.busy = route.busy /\ u.fallback = route.fallback
    BY <1>1, ColumnIs
  <2>2. route' = u
    BY <1>3 DEF SavesEta
  <2> HIDE DEF u
  <2> QED  BY <2>1, <2>2 DEF Drops
<1>4. CASE FreeAccepts(d)
  <2> DEFINE a == [route EXCEPT !.status = "taken"]
             b == [a EXCEPT !.driver = d]
             c == [b EXCEPT !.offered = Nobody]
  <2>1. a \in Route /\ a.busy = route.busy /\ a.fallback = route.fallback
    BY <1>1, ColumnIs
  <2>2. route' = [[a EXCEPT !.driver = d] EXCEPT !.offered = Nobody]
    BY <1>4 DEF FreeAccepts
  <2> HIDE DEF a
  <2>3. b \in Route /\ b.busy = route.busy /\ b.fallback = route.fallback
    BY <2>1, ColumnIs
  <2>4. route' = c
    BY <2>2
  <2> HIDE DEF b
  <2>5. c.offered = Nobody /\ c.busy = route.busy /\ c.fallback = route.fallback
    BY <2>3, ColumnIs
  <2> HIDE DEF c
  <2> QED  BY <2>4, <2>5 DEF Drops
<1>5. CASE FreeTimesOut(d)
  BY <1>5 DEF FreeTimesOut, StartsAt, Drops
<1>6. ASSUME NEW stays \in BOOLEAN, FreeDeclines(d, stays)  PROVE Drops
  BY <1>6 DEF FreeDeclines, StartsAt, Drops
<1> QED  BY <1>2, <1>3, <1>4, <1>5, <1>6

LEMMA ClosesTown ==
  ASSUME RouteInv
  PROVE  HalfHourOver \/ DispatcherCloses => Drops
<1>1. route \in Route
  BY IdleRoute
<1>2. CASE HalfHourOver
  <2> DEFINE u == [Unoffered(snap.seen) EXCEPT !.status = "closed", !.offered = Nobody]
             m == Merged(snap.seen, u)
  <2>1. snap.by = "half hour" /\ route' = m
    BY <1>2 DEF HalfHourOver
  <2>2. snap.seen \in Route
    BY <2>1, StaleInv
  <2>3. u \in Route /\ u.offered = Nobody /\ u.busy = Nobody /\ u.fallback = snap.seen.fallback
    BY <2>2, ClosedIs
  <2> HIDE DEF u
  <2>4. \A f \in {"fallback", "busy", "offered"} :
          m[f] = IF u[f] = snap.seen[f] THEN route[f] ELSE u[f]
    BY <1>1, <2>2, <2>3, MergedIs
  <2> HIDE DEF m
  <2>5. m.fallback = route.fallback
    BY <2>3, <2>4
  <2>6. m.busy \in {Nobody, route.busy} /\ m.offered \in {Nobody, route.offered}
    BY <2>3, <2>4
  <2> QED  BY <2>1, <2>5, <2>6 DEF Drops
<1>3. CASE DispatcherCloses
  <2> DEFINE u == [Unoffered(route) EXCEPT !.status = "closed", !.offered = Nobody]
  <2>1. u.offered = Nobody /\ u.busy = Nobody /\ u.fallback = route.fallback
    BY <1>1, ClosedIs
  <2>2. route' = u
    BY <1>3 DEF DispatcherCloses
  <2> HIDE DEF u
  <2> QED  BY <2>1, <2>2 DEF Drops
<1> QED  BY <1>2, <1>3

LEMMA StaysInTown ==
  ASSUME RouteInv, RouteNext, route.fallback  PROVE InTown
<1>1. CASE TaskSteps
  BY <1>1, AtSomething, OfferInv, NobodyInv, NotifyInv, FallbackInv, PromoteInv, OverflowsInv
     DEF TaskSteps, Kept
<1>2. ASSUME NEW d \in Cabs,
             \/ \E where \in Places : JoinsLine(d, where)
             \/ LeavesLine(d) \/ StartsTrip(d) \/ EndsTrip(d) \/ BreaksDown(d)
             \/ \E live \in BOOLEAN : TakesRoute(d, live)
             \/ SavesEta(d) \/ FreeAccepts(d) \/ FreeTimesOut(d)
             \/ \E stays \in BOOLEAN : FreeDeclines(d, stays)
      PROVE  InTown
  BY <1>2, DriversTown, AnswersTown, DropsTown
<1>3. CASE DispatchRoute \/ EtaRunsOut \/ SnapReads \/ TimeoutGoesOn \/ GivesUp
  BY <1>3, SameRowTown DEF DispatchRoute, EtaRunsOut, SnapReads, TimeoutGoesOn, GivesUp, StartsAt
<1>4. CASE RefusalGoesOn \/ RouteRestart
  BY <1>4, SameRowTown DEF RefusalGoesOn, RouteRestart, StartsAt
<1>5. CASE HalfHourOver \/ DispatcherCloses
  BY <1>5, ClosesTown, DropsTown
<1> QED  BY <1>1, <1>2, <1>3, <1>4, <1>5 DEF RouteNext

\* The town stage is final (parallel_route_fallback): no driver on a trip and no driver of
\* the village line gets an offer of an order in it, not even from a handler that had read
\* the order before.
THEOREM TownStaysFinal == RouteSpec => TownIsFinal
<1>1. RouteInv /\ [RouteNext]_routeVars => [route.fallback => InTown]_routeVars
  BY StaysInTown
<1>2. [route.fallback => InTown]_routeVars =>
        [route.fallback =>
           /\ route'.fallback
           /\ route'.busy \in {Nobody, route.busy}
           /\ route'.offered \in {Nobody, route.offered} \cup Waiting("town")
                                 \cup {d \in Cabs : stand[d] = "town"}]_routeVars
  BY DEF InTown
<1> QED  BY <1>1, <1>2, RouteInvariant, PTL DEF RouteSpec, TownIsFinal

\* Every variable of the automatic offers keeps its type: RouteTypeOK, of
\* parallel_orders.py's rows, its timers and the handlers that have read them.
THEOREM RouteTypes == RouteSpec => []RouteTypeOK
<1>1. RouteInv => RouteTypeOK
  BY DEF RouteInv
<1> QED  BY <1>1, RouteInvariant, PTL
===============================================================================
