----------------------------- MODULE MCDispatch -----------------------------
(***************************************************************************)
(* Instances of Dispatch for TLC.  Orders are numbered, so CreatorOf is a  *)
(* sequence.  Drivers are interchangeable: no constant but the set Drivers *)
(* (and ParallelUsers, which the runs leave empty or equal to it) mentions *)
(* one, so permuting them is a symmetry of the safety runs.                *)
(***************************************************************************)
EXTENDS DispatchRefinement, TLC

CONSTANTS d1, d2, d3, p1, p2

OnePassenger == <<p1>>
TwoPassengers == <<p1, p2>>
OnePassengerTwice == <<p1, p1>>

DriverSymmetry == Permutations(Drivers)

\* Bound: the first order alone is refused, taken by a driver from off the line, or
\* asked whether it still stands (earlier in the second one they meet the same code).
OneRefused == \A o \in Orders : o > 1 =>
    /\ db.declined[o] = {} /\ ~db.temp[o]
    /\ ~db.confirmed[o] /\ db.pq[o] # "polling"
=============================================================================
