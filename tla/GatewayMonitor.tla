--------------------------- MODULE GatewayMonitor ---------------------------
(***************************************************************************)
(* pkg/monitor: GatewayMonitor.Run.  A check cycle asks every gateway at   *)
(* once, waits for all answers, gives the active gateways to the route     *)
(* manager and then to the DDNS updater.  The route manager is seen here   *)
(* through what UpdateRoutes does; a gateway may answer a check or not.    *)
(***************************************************************************)
EXTENDS FiniteSets

CONSTANT Gateways

VARIABLES
    mon,       \* where Run is
    pending,   \* gateways whose checkGateway goroutine has not finished
    isActive,  \* Gateway.IsActive
    tick,      \* the ticker's channel holds a tick
    routed,    \* the gateways the managed routes lead to
    ctxDone    \* the context is cancelled

monVars == <<mon, pending, isActive, tick, routed>>
vars == <<monVars, ctxDone>>

Active == {g \in Gateways : isActive[g]}

Init ==
    /\ mon = "created"
    /\ pending = {}
    /\ isActive = [g \in Gateways |-> FALSE]
    /\ tick = FALSE
    /\ routed \in SUBSET Gateways  \* a process that was killed leaves its routes
    /\ ctxDone = FALSE

BeginCycle == mon' = "checking" /\ pending' = Gateways

\* Run checks once before its first tick.
RunBegins ==
    /\ mon = "created"
    /\ BeginCycle
    /\ UNCHANGED <<isActive, tick, routed, ctxDone>>

\* checkGateway: a 2xx answer in time, even one that arrives just before the
\* context is cancelled, or anything else.
CheckGateway(g) ==
    /\ mon = "checking"
    /\ g \in pending
    /\ pending' = pending \ {g}
    /\ \E ok \in BOOLEAN : isActive' = [isActive EXCEPT ![g] = ok]
    /\ UNCHANGED <<mon, tick, routed, ctxDone>>

\* Wrong on purpose: gateways are added to the routes and never leave them.
UpdateRoutesAdds ==
    /\ mon = "checking"
    /\ pending = {}
    /\ routed' = routed \cup Active
    /\ mon' = "scheduling"
    /\ UNCHANGED <<pending, isActive, tick, ctxDone>>

\* Wrong on purpose: gateways leave the routes and never return.
UpdateRoutesRemoves ==
    /\ mon = "checking"
    /\ pending = {}
    /\ routed' = routed \cap Active
    /\ mon' = "scheduling"
    /\ UNCHANGED <<pending, isActive, tick, ctxDone>>

\* Wrong on purpose: the last routes are kept when every gateway is down.
UpdateRoutesKeepsLast ==
    /\ mon = "checking"
    /\ pending = {}
    /\ routed' = IF Active = {} THEN routed ELSE Active
    /\ mon' = "scheduling"
    /\ UNCHANGED <<pending, isActive, tick, ctxDone>>

\* wg.Wait returns; the routes follow, all of them or with an error.
UpdateRoutes ==
    /\ mon = "checking"
    /\ pending = {}
    /\ routed' = Active
    /\ mon' = "scheduling"
    /\ UNCHANGED <<pending, isActive, tick, ctxDone>>

UpdateRoutesFails ==
    /\ mon = "checking"
    /\ pending = {}
    /\ routed' \in SUBSET (routed \cup Active)
    /\ routed \cap Active \subseteq routed'  \* see ActiveRoutes
    /\ mon' = "failed"
    /\ UNCHANGED <<pending, isActive, tick, ctxDone>>

\* Wrong on purpose: the DDNS updater hears of the gateways before the routes.
ScheduleUpdateFirst ==
    /\ mon = "checking"
    /\ pending = {}
    /\ mon' = "selecting"
    /\ UNCHANGED <<pending, isActive, tick, routed, ctxDone>>

\* The DDNS updater gets Active; the composition joins its step.
ScheduleUpdate ==
    /\ mon = "scheduling"
    /\ mon' = "selecting"
    /\ UNCHANGED <<pending, isActive, tick, routed, ctxDone>>

NextCycle ==
    /\ mon = "selecting"
    /\ tick
    /\ tick' = FALSE
    /\ BeginCycle
    /\ UNCHANGED <<isActive, routed, ctxDone>>

\* Wrong on purpose: a tick goes before the context.
StopAfterTick ==
    /\ mon = "selecting"
    /\ ctxDone /\ ~tick
    /\ mon' = "returned"
    /\ UNCHANGED <<pending, isActive, tick, routed, ctxDone>>

\* Go chooses at random when the tick and the context are both ready.
Stop ==
    /\ mon = "selecting"
    /\ ctxDone
    /\ mon' = "returned"
    /\ UNCHANGED <<pending, isActive, tick, routed, ctxDone>>

\* A tick that finds the channel full is dropped.
Tick ==
    /\ mon \notin {"created", "returned", "failed"}
    /\ ~tick
    /\ tick' = TRUE
    /\ UNCHANGED <<mon, pending, isActive, routed, ctxDone>>
=============================================================================
