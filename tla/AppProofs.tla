----------------------------- MODULE AppProofs ------------------------------
(***************************************************************************)
(* That routes and records follow the same cycle of checks, for any        *)
(* gateways, addresses and faults.                                         *)
(***************************************************************************)
EXTENDS App, TLAPS

\* main's goroutine: no cycle before run() comes to it, and after wg.Wait what
\* performCheckCycle has done of its two halves.
InCycle ==
    /\ main \in {"new", "metrics"} => mon = "created"
    /\ main = "running" =>
        /\ mon \in {"scheduling", "selecting"} => routed = M!Active
        /\ mon = "selecting" => next = M!Active
-----------------------------------------------------------------------------

(* Steps of the updater leave its types, whoever takes them. *)
LEMMA UpdaterTypes ==
    ASSUME U!TypeOK,
           \/ U!Run \/ U!MonitorAddresses \/ U!Cancel
           \/ \E gs \in SUBSET Gateways : U!ScheduleUpdate(gs)
    PROVE  U!TypeOK'
<1> USE DEF U!TypeOK, U!updater, U!world, U!Return
<1>1. CASE U!RunStarts \/ U!Load \/ U!ReturnAndClose
    BY <1>1 DEF U!RunStarts, U!Load, U!ReturnAndClose
<1>2. CASE U!CheckRequiredIP
    BY <1>2 DEF U!CheckRequiredIP
<1>3. ASSUME NEW g \in Gateways, U!FetchPublicIP(g)
      PROVE  U!TypeOK'
    BY <1>3 DEF U!FetchPublicIP
<1>4. CASE U!SkipUnchanged \/ U!UpdateRecords
    BY <1>4 DEF U!SkipUnchanged, U!UpdateRecords
<1>5. ASSUME NEW ip \in IPs, U!WriteRecord(ip)
      PROVE  U!TypeOK'
    BY <1>5 DEF U!WriteRecord
<1>6. CASE U!UpdateSucceeds \/ U!UpdateFails
    BY <1>6 DEF U!UpdateSucceeds, U!UpdateFails
<1>7. ASSUME NEW gs \in SUBSET Gateways, U!ScheduleUpdate(gs)
      PROVE  U!TypeOK'
    BY <1>7 DEF U!ScheduleUpdate, U!Offer
<1>8. CASE U!MonitorAddresses
    BY <1>8 DEF U!MonitorAddresses, U!Offer
<1>9. CASE U!Cancel
    BY <1>9 DEF U!Cancel
<1>10. QED
    BY <1>1, <1>2, <1>3, <1>4, <1>5, <1>6, <1>7, <1>8, <1>9 DEF U!Run

(* The monitor and the updater, whichever of them takes a step, leave the types
   of the whole process. *)
THEOREM TypeCorrect == (RequireIP \in BOOLEAN) => (Spec => []TypeOK)
<1> SUFFICES ASSUME RequireIP \in BOOLEAN
             PROVE  Spec => []TypeOK
    OBVIOUS
<1>1. Init => TypeOK
    BY DEF Init, TypeOK, M!Init, U!Init, U!TypeOK
<1>2. TypeOK /\ [Next]_vars => TypeOK'
    <2> SUFFICES ASSUME TypeOK, [Next]_vars
                 PROVE  TypeOK'
        OBVIOUS
    <2> USE DEF TypeOK, monVars, updVars
    <2>1. updVars' = updVars /\ ctxDone' \in BOOLEAN => U!TypeOK'
        BY DEF U!TypeOK
    <2>2. M!Active \subseteq Gateways
        BY DEF M!Active
    <2>3. ctxDone \in BOOLEAN
        BY DEF U!TypeOK
    <2>4. CASE NewMonitor \/ StartMetricsServer \/ MonitorReturns \/ CloseMonitor
        BY <2>1, <2>3, <2>4
        DEF NewMonitor, StartMetricsServer, MonitorReturns, CloseMonitor
    <2>5. CASE MonitorRuns
        BY <2>1, <2>2, <2>3, <2>5
        DEF MonitorRuns, M!RunBegins, M!BeginCycle, M!UpdateRoutes, M!UpdateRoutesFails,
            M!CheckGateway, M!NextCycle
    <2>6. CASE MonitorStops \/ Tick
        BY <2>1, <2>3, <2>6 DEF MonitorStops, M!Stop, Tick, M!Tick
    <2>7. CASE MonitorSchedules
        <3>1. U!TypeOK'
            BY <2>1, <2>2, <2>3, <2>7, UpdaterTypes DEF MonitorSchedules, M!ScheduleUpdate
        <3>2. QED
            BY <2>7, <3>1 DEF MonitorSchedules, M!ScheduleUpdate
    <2>8. CASE UpdaterRuns \/ AddressMonitorRuns \/ Cancel
        BY <2>8, UpdaterTypes DEF UpdaterRuns, AddressMonitorRuns, Cancel
    <2>9. CASE UNCHANGED vars
        BY <2>1, <2>3, <2>9 DEF vars
    <2>10. QED
        BY <2>4, <2>5, <2>6, <2>7, <2>8, <2>9 DEF Next, Process
<1>3. QED
    BY <1>1, <1>2, PTL DEF Spec
-----------------------------------------------------------------------------

(* Only the monitor's goroutine decides which gateways are scheduled. *)
LEMMA NextKept ==
    ASSUME U!Run \/ U!MonitorAddresses \/ U!Cancel
    PROVE  next' = next
BY DEF U!Run, U!RunStarts, U!Load, U!CheckRequiredIP, U!FetchPublicIP, U!SkipUnchanged,
       U!UpdateRecords, U!WriteRecord, U!UpdateSucceeds, U!UpdateFails, U!ReturnAndClose,
       U!MonitorAddresses, U!Cancel, U!Return, U!updater

(* The updater hears of the gateways the routes lead to, and of no others. *)
LEMMA ScheduledAreRouted ==
    ASSUME InCycle, MonitorSchedules
    PROVE  next' = M!Active /\ routed = M!Active
<1>1. routed = M!Active
    BY DEF InCycle, MonitorSchedules, M!ScheduleUpdate
<1>2. next' = M!Active
    BY DEF MonitorSchedules, U!ScheduleUpdate, updVars
<1>3. QED
    BY <1>1, <1>2

LEMMA CycleInit == Init => InCycle
    BY DEF Init, InCycle, M!Init

LEMMA CycleStep == InCycle /\ [Next]_vars => InCycle'
<1> SUFFICES ASSUME InCycle, [Next]_vars
             PROVE  InCycle'
    OBVIOUS
<1> USE DEF InCycle, M!Active
<1>1. CASE NewMonitor
    BY <1>1 DEF NewMonitor, monVars
<1>2. CASE StartMetricsServer
    BY <1>2 DEF StartMetricsServer, monVars
<1>3. CASE MonitorRuns
    BY <1>3 DEF MonitorRuns, M!RunBegins, M!BeginCycle, M!UpdateRoutes, M!UpdateRoutesFails,
                M!CheckGateway, M!NextCycle
<1>4. CASE MonitorSchedules
    BY <1>4, ScheduledAreRouted DEF MonitorSchedules, M!ScheduleUpdate
<1>5. CASE MonitorStops \/ MonitorReturns \/ CloseMonitor
    BY <1>5 DEF MonitorStops, M!Stop, MonitorReturns, CloseMonitor
<1>6. CASE UpdaterRuns \/ AddressMonitorRuns \/ Cancel
    BY <1>6, NextKept DEF UpdaterRuns, AddressMonitorRuns, Cancel, monVars
<1>7. CASE Tick
    BY <1>7 DEF Tick, M!Tick, updVars
<1>8. CASE UNCHANGED vars
    BY <1>8 DEF vars, monVars, updVars
<1>9. QED
    BY <1>1, <1>2, <1>3, <1>4, <1>5, <1>6, <1>7, <1>8 DEF Next, Process

(* Between two cycles routes, activity and what is to be published agree. *)
THEOREM CyclesAgree == Spec => []CycleAgrees
<1>1. InCycle => CycleAgrees
    BY DEF InCycle, CycleAgrees
<1>2. QED
    BY <1>1, CycleInit, CycleStep, PTL DEF Spec

(* The records change over to a set of gateways only after the routes have. *)
THEOREM RoutesComeFirst == Spec => RoutesBeforeDNS
<1>1. InCycle /\ [Next]_vars => [next' # next => routed = next']_vars
    <2> SUFFICES ASSUME InCycle, Next, next' # next
                 PROVE  routed = next'
        OBVIOUS
    <2>1. CASE MonitorSchedules
        BY <2>1, ScheduledAreRouted
    <2>2. ASSUME UpdaterRuns \/ AddressMonitorRuns \/ Cancel
          PROVE  FALSE
        BY <2>2, NextKept DEF UpdaterRuns, AddressMonitorRuns, Cancel
    <2>3. ASSUME NewMonitor \/ StartMetricsServer \/ MonitorRuns \/ MonitorReturns
                     \/ MonitorStops \/ CloseMonitor \/ Tick
          PROVE  FALSE
        BY <2>3 DEF NewMonitor, StartMetricsServer, MonitorRuns, MonitorReturns,
                    MonitorStops, CloseMonitor, Tick, updVars
    <2>4. QED
        BY <2>1, <2>2, <2>3 DEF Next, Process
<1>2. QED
    BY <1>1, CycleInit, CycleStep, PTL DEF Spec, RoutesBeforeDNS
=============================================================================
