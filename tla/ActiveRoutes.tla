---------------------------- MODULE ActiveRoutes ----------------------------
(***************************************************************************)
(* What the GatewayMonitor can expect of routes.Manager.  An UpdateRoutes  *)
(* that returns has made the managed routes lead to the gateways it was    *)
(* given, and to no other; on the way they never stop leading to one that  *)
(* is kept.  Between two calls they stay as they are.  A manager that      *)
(* fails, is closed or is killed only takes gateways away.                 *)
(***************************************************************************)
CONSTANT Gateways

VARIABLES
    state,   \* "off", "ready" for a call, or "busy" with one
    asked,   \* the gateways of the last call
    routed   \* the gateways that managed routes lead to

vars == <<state, asked, routed>>

Init == state = "off" /\ asked = {} /\ routed = {}

Serve ==
    /\ state = "off"
    /\ state' = "ready"
    /\ UNCHANGED <<asked, routed>>

UpdateRoutes(gs) ==
    /\ state = "ready"
    /\ state' = "busy"
    /\ asked' = gs
    /\ UNCHANGED routed

\* The routes are moved one by one.
Move ==
    /\ state = "busy"
    /\ routed' \in SUBSET (routed \cup asked)
    /\ routed \cap asked \subseteq routed'
    /\ UNCHANGED <<state, asked>>

Return ==
    /\ state = "busy"
    /\ routed = asked
    /\ state' = "ready"
    /\ UNCHANGED <<asked, routed>>

\* An error, Close or a crash.
Leave ==
    /\ state # "off"
    /\ state' = "off"
    /\ asked' = {}
    /\ UNCHANGED routed

Withdraw ==
    /\ state = "off"
    /\ routed' \in SUBSET routed
    /\ UNCHANGED <<state, asked>>

Next ==
    \/ Serve \/ Move \/ Return \/ Leave \/ Withdraw
    \/ \E gs \in SUBSET Gateways : UpdateRoutes(gs)

Spec == Init /\ [][Next]_vars
=============================================================================
