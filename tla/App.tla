-------------------------------- MODULE App ---------------------------------
(***************************************************************************)
(* cmd/main.go: the process, from the start of the DDNS updater to its     *)
(* exit, composed of the GatewayMonitor, which runs in main's goroutine,   *)
(* and the DDNSUpdater in goroutines of its own.  A signal or the failure  *)
(* of the metrics server cancels the context they share.  The addresses of *)
(* host and gateways stay as they are: DDNSUpdater alone moves them.       *)
(***************************************************************************)
EXTENDS FiniteSets

CONSTANTS Gateways, IPs, RequireIP, Faults

VARIABLES
    main,                                                    \* where run() is
    mon, pending, isActive, tick, routed,                    \* GatewayMonitor
    next, last, upd, todo, ips, dns, pub, present, found,    \* DDNSUpdater
    panicked, doubts,
    ctxDone                                                  \* shared

M == INSTANCE GatewayMonitor
U == INSTANCE DDNSUpdater

monVars == <<mon, pending, isActive, tick, routed>>
updVars == <<next, last, upd, todo, ips, dns, pub, present, found, panicked, doubts>>
vars == <<main, monVars, updVars, ctxDone>>

Init == main = "new" /\ M!Init /\ U!Init

\* monitor.New; without a monitor there is nothing to close.
NewMonitor ==
    /\ main = "new"
    /\ main' \in {"metrics", "exited"}
    /\ UNCHANGED <<monVars, updVars, ctxDone>>

StartMetricsServer ==
    /\ main = "metrics"
    /\ main' \in {"running", "closing"}
    /\ UNCHANGED <<monVars, updVars, ctxDone>>

MonitorRuns ==
    /\ main = "running"
    /\ \/ M!RunBegins \/ M!UpdateRoutes \/ M!UpdateRoutesFails
       \/ \E g \in Gateways : M!CheckGateway(g)
       \/ M!NextCycle
    /\ UNCHANGED <<main, updVars>>

MonitorStops ==
    /\ main = "running"
    /\ M!Stop
    /\ UNCHANGED <<main, updVars>>

\* A panic here unwinds main's goroutine, which runs the deferred Close.
MonitorSchedules ==
    /\ main = "running"
    /\ M!ScheduleUpdate
    /\ \/ U!ScheduleUpdate(M!Active)
       \/ M!Active = next /\ UNCHANGED updVars
    /\ main' = IF panicked' THEN "closing" ELSE main

MonitorReturns ==
    /\ main = "running"
    /\ mon \in {"returned", "failed"}
    /\ main' = "closing"
    /\ UNCHANGED <<monVars, updVars, ctxDone>>

\* The deferred gatewayMonitor.Close, which may fail to remove the routes.
CloseMonitor ==
    /\ main = "closing"
    /\ routed' \in SUBSET routed
    /\ main' = "exited"
    /\ UNCHANGED <<mon, pending, isActive, tick, updVars, ctxDone>>

UpdaterRuns ==
    /\ main # "exited"
    /\ U!Run
    /\ UNCHANGED <<main, monVars>>

\* A panic here ends the process without main's deferred calls.
AddressMonitorRuns ==
    /\ main # "exited"
    /\ U!MonitorAddresses
    /\ main' = IF panicked' THEN "exited" ELSE main
    /\ UNCHANGED monVars

Tick ==
    /\ main = "running"
    /\ M!Tick
    /\ UNCHANGED <<main, updVars>>

Cancel ==
    /\ main # "exited"
    /\ U!Cancel
    /\ UNCHANGED <<main, monVars>>

Process ==
    \/ NewMonitor \/ StartMetricsServer
    \/ MonitorRuns \/ MonitorSchedules \/ MonitorReturns
    \/ CloseMonitor

Next ==
    \/ Process \/ MonitorStops
    \/ UpdaterRuns \/ AddressMonitorRuns
    \/ Tick \/ Cancel

Spec == Init /\ [][Next]_vars

\* The scheduler runs main's goroutine, whose calls have deadlines, the
\* updater's and the ticker.  A select that finds the context done again and
\* again takes that branch at last, since Go picks among ready ones at random.
FairSpec ==
    /\ Spec
    /\ WF_vars(Process) /\ SF_vars(MonitorStops)
    /\ WF_vars(UpdaterRuns) /\ WF_vars(Tick)
-----------------------------------------------------------------------------

TypeOK ==
    /\ main \in {"new", "metrics", "running", "closing", "exited"}
    /\ mon \in {"created", "checking", "scheduling", "selecting", "returned", "failed"}
    /\ pending \subseteq Gateways /\ routed \subseteq Gateways
    /\ isActive \in [Gateways -> BOOLEAN]
    /\ tick \in BOOLEAN
    /\ U!TypeOK

\* performCheckCycle: the updater hears of a gateway set only once the routes
\* lead to it, since updating the records may need these routes.
RoutesBeforeDNS ==
    [][next' # next => routed = next']_vars

\* Between two cycles routes, activity and what the updater is to publish agree,
\* however cycles, lost wake-ups and updates interleave.
CycleAgrees ==
    main = "running" /\ mon = "selecting" =>
        routed = M!Active /\ next = M!Active

\* README: traffic only flows through working paths.  A gateway that fails
\* every check from some time on leaves the routes, or the process exits.
DeadGatewayLeaves ==
    \A g \in Gateways :
        <>[](~isActive[g]) => <>[](g \notin routed \/ main = "exited")

\* And one that answers every check from some time on joins them, whatever
\* became of the checks and updates before.
LiveGatewayJoins ==
    \A g \in Gateways :
        <>[](isActive[g]) => <>[](g \in routed \/ main = "exited")

\* A cancelled context ends the process, even while cycles fail and ticks
\* pile up.
CancelExits == ctxDone ~> main = "exited"

\* main: "graceful shutdown".
GracefulShutdown == ~panicked
=============================================================================
