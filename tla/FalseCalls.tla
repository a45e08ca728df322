----------------------------- MODULE FalseCalls -----------------------------
(***************************************************************************)
(* The debts of passengers for false calls (bot/fake_calls_service.py).    *)
(*                                                                         *)
(* A ride cancelled too late makes its passenger a debtor of the driver.   *)
(* While the flag on his row is set the passenger can only ask whom to     *)
(* pay; the driver marks the debt as paid.  Nothing here locks a row: a    *)
(* transaction that lifts the flag has looked for other debts before.      *)
(***************************************************************************)

EXTENDS Users

CONSTANTS
    MaxReminders,  \* fake_call_reminder_max
    MaxDebts       \* bound on the debts ever made

ASSUME RemindersAssumption == MaxReminders \in Nat /\ MaxDebts \in Nat

VARIABLES
    debts,     \* the rows of fake_calls, by their numbers
    locked,    \* the passengers with passenger_fake_call_blocked
    reminder,  \* the debts whose "fakecall" timer is armed
    paying,    \* the open transaction of mark_paid on each debt
    healing    \* the passengers whose stale flag an open transaction clears

debtVars == <<debts, locked, reminder, paying, healing>>

Debt == [owner: Riders, driver: Cabs, status: {"pending", "paid"},
         requested: BOOLEAN, reminded: 0..MaxReminders, during: BOOLEAN]
Debts == DOMAIN debts
Paying == {"no", "lift", "keep"}

DebtsInit ==
    /\ debts = << >> /\ locked = {} /\ reminder = {}
    /\ paying = [f \in 1..MaxDebts |-> "no"]
    /\ healing = {}

PendingOf(p) == {f \in Debts : debts[f].owner = p /\ debts[f].status = "pending"}
LatestOf(p) == CHOOSE f \in PendingOf(p) : \A g \in PendingOf(p) : g <= f

\* A transaction is about to lift the flag of p, on what it has read before.
BeingLifted(p) ==
    p \in healing \/ \E f \in Debts : paying[f] = "lift" /\ debts[f].owner = p

\* create(), in the transaction that ends the ride.
Owe(p, d) ==
    /\ Len(debts) < MaxDebts
    /\ debts' = Append(debts, [owner |-> p, driver |-> d, status |-> "pending",
                               requested |-> FALSE, reminded |-> 0,
                               during |-> BeingLifted(p)])
    /\ locked' = locked \cup {p}
    /\ UNCHANGED <<paying, healing>>
NewDebt == Len(debts) + 1

\* handle_locked_input: what the bot still does for a passenger with the flag.
MayAct(c) == c \notin locked

\* passenger_ready_to_pay.
ReadyToPay(p) ==
    /\ p \in locked /\ PendingOf(p) # {} /\ ~debts[LatestOf(p)].requested
    /\ debts' = [debts EXCEPT ![LatestOf(p)].requested = TRUE]
    /\ reminder' = reminder \ {LatestOf(p)}
    /\ UNCHANGED <<locked, paying, healing>>

\* A flag without a debt is cleared by the next message of the passenger.
HealReads(p) ==
    /\ p \in locked \ healing /\ PendingOf(p) = {}
    /\ healing' = healing \cup {p}
    /\ UNCHANGED <<debts, locked, reminder, paying>>

HealCommits(p) ==
    /\ p \in healing
    /\ locked' = locked \ {p} /\ healing' = healing \ {p}
    /\ UNCHANGED <<debts, reminder, paying>>

\* Mutant of OthersPending: another debt of the passenger is not looked for.
OthersPendingNot(f) == FALSE

OthersPending(f) == PendingOf(debts[f].owner) \ {f} # {}

\* mark_paid; one driver's presses of the button come one after the other.
PaidReads(f) ==
    /\ debts[f].status = "pending" /\ paying[f] = "no"
    /\ paying' = [paying EXCEPT ![f] = IF OthersPending(f) THEN "keep" ELSE "lift"]
    /\ reminder' = reminder \ {f}
    /\ UNCHANGED <<debts, locked, healing>>

PaidCommits(f) ==
    /\ paying[f] # "no"
    /\ debts' = [debts EXCEPT ![f].status = "paid"]
    /\ locked' = IF paying[f] = "lift" THEN locked \ {debts[f].owner} ELSE locked
    /\ paying' = [paying EXCEPT ![f] = "no"]
    /\ UNCHANGED <<reminder, healing>>

\* _remind: the timer is armed again until the reminders are used up.
Remind(f) ==
    /\ f \in reminder
    /\ IF debts[f].status = "pending" /\ ~debts[f].requested
          /\ debts[f].reminded < MaxReminders
       THEN debts' = [debts EXCEPT ![f].reminded = @ + 1] /\ UNCHANGED reminder
       ELSE reminder' = reminder \ {f} /\ UNCHANGED debts
    /\ UNCHANGED <<locked, paying, healing>>

DebtSteps ==
    \/ \E p \in Riders : ReadyToPay(p) \/ HealReads(p) \/ HealCommits(p)
    \/ \E f \in Debts : PaidReads(f) \/ PaidCommits(f) \/ Remind(f)

---------------------------------------------------------------------------
(* Properties. *)

DebtsTypeOK ==
    /\ debts \in Seq(Debt) /\ Len(debts) <= MaxDebts
    /\ locked \subseteq Riders /\ healing \subseteq Riders
    /\ reminder \subseteq Debts
    /\ paying \in [1..MaxDebts -> Paying]

\* Whoever owes for a false call is locked out, whichever of his debts are paid and
\* in which order; the one exception is a debt made while a transaction that had
\* found no other debt was about to lift the flag.
DebtorIsLocked ==
    \A p \in Riders :
        (\E f \in PendingOf(p) : ~debts[f].during) => p \in locked
=============================================================================
