-------------------------- MODULE Components_proofs --------------------------
(***************************************************************************)
(* The services together, as the runs of MCComponents have them: what the  *)
(* theorems say of each holds there, for whichever is in focus.            *)
(***************************************************************************)
EXTENDS MCComponents, Outbox_proofs, Process_proofs, Bookings_proofs, RouteOffers_proofs,
        Services_proofs

Focuses == {"outbox", "timers", "loop", "bookings", "deliveries", "routes", "personal"}

\* Beside the others, a service does what it does alone.
LEMMA EachBehaves ==
  Components => /\ Spec /\ TimersSpec /\ LoopSpec /\ BookingsSpec /\ DeliveriesSpec
                /\ RouteSpec /\ PersonalSpec /\ [](focus \in Focuses)
<1>1. ComponentsInit => /\ Init /\ TimersInit /\ LoopInit /\ BookingsInit /\ DeliveriesInit
                        /\ RouteInit /\ PersonalInit /\ focus \in Focuses
  BY DEF ComponentsInit, Focuses
<1>2. [ComponentsNext]_components =>
        /\ [Next]_vars /\ [TimersNext]_timerVars /\ [LoopNext]_loopVars
        /\ [BookingsNext]_bookingVars /\ [DeliveriesNext]_deliveryVars
        /\ [RouteNext]_routeVars /\ [PersonalNext]_personalVars
  BY DEF components, ComponentsNext, OutboxFocus, TimersFocus, LoopFocus, BookingsFocus,
         DeliveriesFocus, RoutesFocus, PersonalFocus
<1>3. focus \in Focuses /\ [ComponentsNext]_components => (focus \in Focuses)'
  BY DEF components, ComponentsNext
<1> QED
  BY <1>1, <1>2, <1>3, PTL DEF Components, Spec, TimersSpec, LoopSpec, BookingsSpec,
     DeliveriesSpec, RouteSpec, PersonalSpec

\* Every variable of every service has its type (TypesOK): the seven theorems of the
\* services, put together.
THEOREM ComponentTypes == Components => []TypesOK
<1>1. /\ focus \in Focuses
      /\ TypeOK /\ TimersTypeOK /\ LoopTypeOK /\ BookingsTypeOK /\ DeliveriesTypeOK
      /\ RouteTypeOK /\ PersonalTypeOK
      => TypesOK
  BY DEF Focuses, TypesOK
<1> QED
  BY <1>1, EachBehaves, TypeCorrect, TimerTypes, LoopTypes, BookingTypes, DeliveryTypes,
     RouteTypes, PersonalTypes, PTL
=============================================================================
