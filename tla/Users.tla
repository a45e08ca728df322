-------------------------------- MODULE Users --------------------------------
(***************************************************************************)
(* The users of the bot, as the service modules see them: a passenger, a   *)
(* dispatcher (who orders for callers) or a driver.  Who plays which role  *)
(* is fixed while a service runs.                                          *)
(***************************************************************************)

EXTENDS Naturals, FiniteSets, Sequences

CONSTANTS
    Riders,      \* the users in the role of a passenger
    Callers,     \* the users in the role of a dispatcher
    Cabs,        \* the users in the role of a driver
    Nobody       \* no user, no driver, no order

ASSUME RidersAssumption == Nobody \notin Riders \cup Callers \cup Cabs
\* users.role holds one active role (models.py:64); nobody switches it here.
ASSUME RolesAssumption == Riders \cap Callers = {}

Customers == Riders \cup Callers
=============================================================================
