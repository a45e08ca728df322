--------------------------- MODULE PersonalOrders ---------------------------
(***************************************************************************)
(* A passenger chooses his driver (bot/handlers.py, select_direct_driver). *)
(*                                                                         *)
(* The choice holds the driver, whose row on the line says "offered" while *)
(* the passenger writes the order, for ninety seconds at most.  The order  *)
(* is then offered to that driver alone: a refusal closes it.  Holds and   *)
(* offers use the same mark on the row.  Every handler locks the hold      *)
(* before the row, so each is one step.  Ordinary orders appear as far as  *)
(* they occupy a driver.                                                   *)
(***************************************************************************)

EXTENDS Users

CONSTANT Choosers   \* the passengers who choose a driver

VARIABLES
    dialog,   \* where each passenger is in the dialogue
    hold,     \* driver_selections: the driver each passenger holds
    overdue,  \* the holds whose ninety seconds are over
    personal,    \* each passenger's personal order
    work,     \* what the ordinary orders ask of each driver
    mark      \* each driver's mark on the line; it tells his status, too

personalVars == <<dialog, hold, overdue, personal, work, mark>>

Dialogs == {"menu", "choose", "text", "address", "waiting"}
PersonalRows == {"none", "waiting", "offered", "assigned", "away"}
NoOrder == [status |-> "none", chosen |-> Nobody, by |-> Nobody]
Personal == [status: {"searching", "riding"}, chosen: Cabs, by: Cabs \cup {Nobody}]

PersonalInit ==
    /\ dialog = [p \in Choosers |-> "menu"]
    /\ hold = [p \in Choosers |-> Nobody] /\ overdue = {}
    /\ personal = [p \in Choosers |-> NoOrder]
    /\ work = [d \in Cabs |-> "none"]
    /\ mark = [d \in Cabs |-> "waiting"]

Held(d) == \E p \in Choosers : hold[p] = d
Considers(d) == work[d] = "offer"
                \/ \E p \in Choosers : personal[p].status = "searching" /\ personal[p].by = d
Drives(d) == work[d] = "ride"
             \/ \E p \in Choosers : personal[p].status = "riding" /\ personal[p].by = d

---------------------------------------------------------------------------
(* The hold. *)

\* Mutant of Freeing: a later offer to the driver is not looked for.
FreeingAlways(d) == mark[d] = "offered"

Freeing(d) == mark[d] = "offered" /\ ~Considers(d)

\* _release_direct_selection: the row the hold of p reserved.
Unheld(p) == [d \in Cabs |-> IF d = hold[p] /\ Freeing(d) THEN "waiting" ELSE mark[d]]

\* The hold of p ends, with its timer.
EndHold(p, next) ==
    /\ mark' = Unheld(p)
    /\ hold' = [hold EXCEPT ![p] = Nobody] /\ overdue' = overdue \ {p}
    /\ dialog' = [dialog EXCEPT ![p] = next]
    /\ UNCHANGED <<personal, work>>

\* What the text and the order ask of the hold.
HoldStands(p) ==
    LET d == hold[p]
    IN  d # Nobody /\ p \notin overdue /\ mark[d] = "offered" /\ ~Drives(d) /\ ~Considers(d)

\* show_direct_driver_choices.
OpenList(p) ==
    /\ dialog[p] \in {"menu", "choose"} /\ personal[p] = NoOrder
    /\ dialog' = [dialog EXCEPT ![p] = "choose"]
    /\ UNCHANGED <<hold, overdue, personal, work, mark>>

\* select_direct_driver.  The passenger's former hold is released first; a driver
\* whom another passenger holds still violates a unique key, and nothing changes.
Select(p, d) ==
    /\ dialog[p] = "choose" /\ personal[p] = NoOrder
    /\ LET free == Unheld(p)[d] = "waiting" /\ ~Drives(d) /\ ~Considers(d)
       IN  \/ /\ free /\ \A q \in Choosers \ {p} : hold[q] # d
              /\ mark' = [Unheld(p) EXCEPT ![d] = "offered"]
              /\ hold' = [hold EXCEPT ![p] = d] /\ overdue' = overdue \ {p}
              /\ dialog' = [dialog EXCEPT ![p] = "text"]
              /\ UNCHANGED <<personal, work>>
           \/ ~free /\ EndHold(p, "choose")

\* cancel_direct_driver_selection: the button, or the menu instead of a text.
CancelHold(p) == hold[p] # Nobody /\ EndHold(p, "menu")

\* Any other button: the dialogue changes, the hold stays.
Wander(p) ==
    /\ dialog[p] \in {"choose", "text", "address"}
    /\ dialog' = [dialog EXCEPT ![p] = "menu"]
    /\ UNCHANGED <<hold, overdue, personal, work, mark>>

\* direct_driver_submit_text: the order, or a freight order, which is not taken here.
SubmitText(p) ==
    /\ dialog[p] = "text"
    /\ \/ /\ HoldStands(p)
          /\ dialog' = [dialog EXCEPT ![p] = "address"]
          /\ UNCHANGED <<hold, overdue, personal, work, mark>>
       \/ HoldStands(p) /\ EndHold(p, "menu")
       \/ ~HoldStands(p) /\ EndHold(p, "choose")

\* create_passenger_order, offer_to_selected_driver: the hold becomes an offer, unless
\* the passenger has made too many orders, or the hold is gone.
CreatePersonal(p) ==
    /\ dialog[p] = "address"
    /\ \/ /\ HoldStands(p)
          /\ personal' = [personal EXCEPT ![p] =
                 [status |-> "searching", chosen |-> hold[p], by |-> hold[p]]]
          /\ hold' = [hold EXCEPT ![p] = Nobody]
          /\ dialog' = [dialog EXCEPT ![p] = "waiting"]
          /\ UNCHANGED <<overdue, work, mark>>
       \/ EndHold(p, "menu")
       \/ ~HoldStands(p) /\ EndHold(p, "choose")

TimePasses(p) ==
    /\ hold[p] # Nobody /\ overdue' = overdue \cup {p}
    /\ UNCHANGED <<dialog, hold, personal, work, mark>>

\* direct_driver_selection_timeout.
HoldTimeout(p) ==
    p \in overdue /\ EndHold(p, IF dialog[p] = "text" THEN "menu" ELSE dialog[p])

---------------------------------------------------------------------------
(* The offers. *)

\* Mutant of Repaired: a hold does not keep the row from being repaired.
RepairedHeld(rows) ==
    [d \in Cabs |-> IF rows[d] = "offered" /\ ~Considers(d) THEN "waiting" ELSE rows[d]]

\* _repair_visibly_free_drivers, before every search.
Repaired(rows) ==
    [d \in Cabs |-> IF rows[d] = "offered" /\ ~Considers(d) /\ ~Held(d)
                    THEN "waiting" ELSE rows[d]]

Takers(rows) == {d \in Cabs : Repaired(rows)[d] = "waiting" /\ ~Considers(d) /\ ~Drives(d)}

\* offer_to_next_driver on the order of p, which it takes for an ordinary
\* one: a driver on the line, or the queue of waiting orders.
HandOn(p, rows) ==
    \/ \E e \in Takers(rows) :
         /\ personal' = [personal EXCEPT ![p].status = "searching", ![p].by = e]
         /\ mark' = [Repaired(rows) EXCEPT ![e] = "offered"]
    \/ /\ Takers(rows) = {}
       /\ personal' = [personal EXCEPT ![p].status = "searching", ![p].by = Nobody]
       /\ mark' = rows

\* try_promote serves it from there.
ServeParked(p) ==
    /\ personal[p].status = "searching" /\ personal[p].by = Nobody /\ Takers(mark) # {}
    /\ HandOn(p, mark)
    /\ UNCHANGED <<dialog, hold, overdue, work>>

ClosePersonal(p, d, to) ==
    /\ personal' = [personal EXCEPT ![p] = NoOrder]
    /\ dialog' = [dialog EXCEPT ![p] = "menu"]
    /\ mark' = IF d = Nobody THEN mark ELSE [mark EXCEPT ![d] = to]
    /\ UNCHANGED <<hold, overdue, work>>

\* driver_accept.
AcceptPersonal(d, p) ==
    /\ personal[p].status = "searching" /\ personal[p].by = d
    /\ personal' = [personal EXCEPT ![p].status = "riding"]
    /\ mark' = [mark EXCEPT ![d] = "assigned"]
    /\ UNCHANGED <<dialog, hold, overdue, work>>

\* Mutant of ChosenRefused: the refused order goes to the next driver.
ChosenRefusedHandsOn(d, p, to) ==
    HandOn(p, [mark EXCEPT ![d] = to]) /\ UNCHANGED <<dialog, hold, overdue, work>>

ChosenRefused(d, p, to) == ClosePersonal(p, d, to)

\* driver_decline, for the reason of being away or another; _accept_timeout.
DeclinePersonal(d, p) ==
    /\ personal[p].status = "searching" /\ personal[p].by = d
    /\ \E to \in {"waiting", "away", "none"} : ChosenRefused(d, p, to)

\* passenger_cancel.
CancelPersonal(p) ==
    /\ personal[p] # NoOrder
    /\ ClosePersonal(p, personal[p].by, "waiting")

\* driver_complete_ride; the driver is asked for his line.
CompletePersonal(d, p) ==
    /\ personal[p].status = "riding" /\ personal[p].by = d
    /\ ClosePersonal(p, d, "away")

\* driver_cancel_active for a broken car.
BreakdownPersonal(d, p) ==
    /\ personal[p].status = "riding" /\ personal[p].by = d
    /\ HandOn(p, [mark EXCEPT ![d] = "away"])
    /\ UNCHANGED <<dialog, hold, overdue, work>>

---------------------------------------------------------------------------
(* The driver. *)

AtMenu(d) == ~Considers(d) /\ ~Drives(d)

\* driver_go_offline, driver_go_away: cancel_direct_selection_for_driver comes first.
GoesOff(d, to) ==
    /\ AtMenu(d) /\ mark[d] # "none"
    /\ mark' = [mark EXCEPT ![d] = to]
    /\ LET held == {p \in Choosers : hold[p] = d}
       IN  /\ hold' = [p \in Choosers |-> IF p \in held THEN Nobody ELSE hold[p]]
           /\ overdue' = overdue \ held
           /\ dialog' = [p \in Choosers |-> IF p \in held /\ dialog[p] = "text"
                                            THEN "menu" ELSE dialog[p]]
    /\ UNCHANGED <<personal, work>>

\* driver_go_online, set_driver_line, stay_line: join_queue; leave_line.  No hold is
\* looked for here.
LineMenu(d, to) ==
    /\ AtMenu(d)
    /\ mark' = [mark EXCEPT ![d] = to]
    /\ UNCHANGED <<dialog, hold, overdue, personal, work>>

\* driver_take_from_chat: whatever is offered to him goes to the next driver.
ClaimInChat(d) ==
    /\ ~Drives(d)
    /\ work' = [work EXCEPT ![d] = "ride"]
    /\ LET rows == [mark EXCEPT ![d] = "assigned"]
           mine == {p \in Choosers : personal[p].status = "searching" /\ personal[p].by = d}
       IN  IF mine = {} THEN mark' = rows /\ UNCHANGED personal
           ELSE \E p \in mine : HandOn(p, rows)
    /\ UNCHANGED <<dialog, hold, overdue>>

\* An ordinary order: the driver gets the offer, or it ends, or the ride does.
OrdinaryOffer(d) ==
    /\ d \in Takers(mark)
    /\ work' = [work EXCEPT ![d] = "offer"]
    /\ mark' = [Repaired(mark) EXCEPT ![d] = "offered"]
    /\ UNCHANGED <<dialog, hold, overdue, personal>>

OrdinaryEnds(d) ==
    /\ work[d] # "none"
    /\ \/ /\ work[d] = "offer"
          /\ work' = [work EXCEPT ![d] = "ride"]
          /\ mark' = [mark EXCEPT ![d] = "assigned"]
       \/ /\ work' = [work EXCEPT ![d] = "none"]
          /\ \E to \in {"waiting", "away", "none"} : mark' = [mark EXCEPT ![d] = to]
    /\ UNCHANGED <<dialog, hold, overdue, personal>>

PersonalNext ==
    \/ \E p \in Choosers :
         \/ OpenList(p) \/ CancelHold(p) \/ Wander(p) \/ SubmitText(p) \/ CreatePersonal(p)
         \/ TimePasses(p) \/ HoldTimeout(p) \/ CancelPersonal(p) \/ ServeParked(p)
         \/ \E d \in Cabs : Select(p, d) \/ AcceptPersonal(d, p) \/ DeclinePersonal(d, p)
                            \/ CompletePersonal(d, p) \/ BreakdownPersonal(d, p)
    \/ \E d \in Cabs :
         \/ GoesOff(d, "none") \/ GoesOff(d, "away")
         \/ LineMenu(d, "waiting") \/ LineMenu(d, "none")
         \/ ClaimInChat(d) \/ OrdinaryOffer(d) \/ OrdinaryEnds(d)

PersonalSpec == PersonalInit /\ [][PersonalNext]_personalVars

---------------------------------------------------------------------------
(* Properties. *)

PersonalTypeOK ==
    /\ dialog \in [Choosers -> Dialogs]
    /\ hold \in [Choosers -> Cabs \cup {Nobody}] /\ overdue \subseteq Choosers
    /\ personal \in [Choosers -> Personal \cup {NoOrder}]
    /\ work \in [Cabs -> {"none", "offer", "ride"}]
    /\ mark \in [Cabs -> PersonalRows]

\* The mark on the row serves holds and offers alike and is right for both: a driver
\* with an offer keeps it when a hold on him ends, and no driver keeps it when his
\* last hold or offer is over, however it ended.
MarkHasReason ==
    \A d \in Cabs : /\ Considers(d) => mark[d] = "offered"
                    /\ mark[d] = "offered" => Considers(d) \/ Held(d)

\* While a hold lasts, nobody but the driver himself (by the menu of the lines, or
\* by a claim in the chat) takes him from it: no search, repair or other passenger.
HoldIsHonoured ==
    [][\A p \in Choosers, d \in Cabs :
         hold[p] = d /\ hold'[p] = d /\ mark[d] = "offered" /\ ~Considers(d) =>
             \/ mark'[d] = "offered" /\ ~Considers(d)'
             \/ LineMenu(d, "waiting") \/ LineMenu(d, "none") \/ ClaimInChat(d)]_personalVars

\* A personal order is its driver's until it is closed; two events alone pass it on,
\* his claim of another order in the chat, and his breakdown on the ride.
PersonalStays ==
    [][\A p \in Choosers :
         personal[p].by # Nobody /\ personal[p].by = personal[p].chosen /\ personal'[p] # NoOrder =>
             \/ personal'[p].by = personal[p].chosen
             \/ ClaimInChat(personal[p].by) \/ BreakdownPersonal(personal[p].by, p)]_personalVars
=============================================================================
