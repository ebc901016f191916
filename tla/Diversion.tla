----------------------------- MODULE Diversion ------------------------------
(***************************************************************************)
(* What RouteManager promises the traffic: all destinations but those of   *)
(* one exclusion policy are diverted to the gateways, or none is, and one  *)
(* policy never turns into another without the host's routing in between.  *)
(***************************************************************************)
CONSTANTS Dests, Policies

VARIABLE diverted

Init == diverted = {}

Divert(excluded) == diverted = {} /\ diverted' = Dests \ excluded

Restore == diverted' = {}

Next == Restore \/ \E excluded \in Policies : Divert(excluded)

Spec == Init /\ [][Next]_diverted
=============================================================================
