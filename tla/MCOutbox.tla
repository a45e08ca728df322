------------------------------ MODULE MCOutbox ------------------------------
(***************************************************************************)
(* Instances of Outbox for TLC.  Two messages meet in the phases of the    *)
(* worker and in the cap of the unsent ones, so one message with every     *)
(* operation is checked beside one that is only sent, or cancelled by the  *)
(* cap.                                                                    *)
(***************************************************************************)
EXTENDS Outbox

CONSTANTS m1, m2

\* Bound: of m2 the order stays open, no handler locks the row, the event is not
\* read and no job raises an exception.
SecondIsPlain ==
    /\ ~over[m2] /\ Unlocked(m2)
    /\ event[m2] \in {"none", "due"}
    /\ job[m2].step # "rescue"
=============================================================================
