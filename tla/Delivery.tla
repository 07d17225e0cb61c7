------------------------------- MODULE Delivery --------------------------------
(***************************************************************************)
(* The two ways to learn of a message side by side on one bus: the event   *)
(* stream (Hub) and the Stop hook (Wake), whose notes are posts as well.   *)
(***************************************************************************)
EXTENDS Hub, Wake

CONSTANT Posts   \* the messages others post

ASSUME DeliveryAssumption == Posts \subseteq Message

vars == <<busVars, hubVars, wakeVars>>

Init == BusInit /\ HubInit /\ WakeInit

Next ==
  \/ (\E m \in Posts : Post(m)) /\ UNCHANGED <<hubVars, wakeVars>>
  \/ (\E s \in live : Remove(s)) /\ UNCHANGED <<hubVars, wakeVars>>
  \/ HubNext /\ UNCHANGED wakeVars
  \/ WakeNext /\ UNCHANGED hubVars

Spec == Init /\ [][Next]_vars

FairSpec == Spec /\ HubFairness /\ WakeFairness

===============================================================================
