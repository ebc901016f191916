------------------------- MODULE RouteManagerRoutes -------------------------
(***************************************************************************)
(* What UpdateRoutes and Close of RouteManager leave in the tables, and    *)
(* that RouteManager implements ActiveRoutes, for any networks, routes and *)
(* gateways.                                                               *)
(***************************************************************************)
EXTENDS RouteManagerProofs

\* Restarts manage the same routes.  The model checker finds a violation
\* without it: RouteManagerOtherRoutes.
SameRoutes == \A c, d \in Configs : ToSet(c.routes) = ToSet(d.routes)

RoutesOf(d) == {f \in fib : f.table = GatewayTable /\ f.dst = d}

Applied(i) == {f.via : f \in RoutesOf(cfg.routes[i])} = {want}

\* Nothing but the gateway table changes, and Close has emptied it once it goes
\* on to the rules without an error.
TablesInv ==
    /\ HostRoutes \subseteq fib
    /\ \A f \in fib \ HostRoutes : f.table = GatewayTable
    /\ pc \in {"delGateway", "delExcludes", "down"} /\ caller = "close" /\ outcome = "clean"
          => \A f \in fib : f.table # GatewayTable

\* How far UpdateRoutes is.
UpdateInv ==
    /\ pc \in {"addFallthrough", "addExcludes"} => caller = "add"
    /\ pc \in {"replacing", "dropping"} => caller = "update"
    /\ pc = "replacing" =>
          want # {} /\ \A i \in 1..Len(cfg.routes) : i < slot => Applied(i)
    /\ pc = "dropping" => want = {}
    /\ RoutesApplied

\* The gateway table holds routes of the manager only.
OwnRoutes ==
    \A f \in fib : f.table = GatewayTable => f.dst \in ToSet(cfg.routes)

(* The host starts without managed routes. *)
LEMMA TablesInit == ASSUME OwnTable PROVE Init => TablesInv
    BY DEF Init, TablesInv, HostRoutes

(* No call touches a table other than the gateway table. *)
LEMMA TablesStep ==
    ASSUME OwnTable
    PROVE  TypeOK /\ TablesInv /\ [Next]_vars => TablesInv'
<1> SUFFICES ASSUME TypeOK, TablesInv, [Next]_vars
             PROVE  TablesInv'
    OBVIOUS
<1> USE DEF TablesInv
<1>1. ASSUME NEW c \in Configs, Start(c)
      PROVE  TablesInv'
    BY <1>1 DEF Start, kernel
<1>2. CASE DelGateway
    BY <1>2 DEF DelGateway
<1>3. CASE DelExclude
    BY <1>3 DEF DelExclude
<1>4. CASE DelFallthrough
    BY <1>4 DEF DelFallthrough
<1>5. CASE RemovalFails
    BY <1>5 DEF RemovalFails, Abort, kernel
<1>6. CASE AddFallthrough
    BY <1>6 DEF AddFallthrough
<1>7. CASE AddExclude
    BY <1>7 DEF AddExclude
<1>8. CASE AddGateway
    BY <1>8 DEF AddGateway
<1>9. CASE AddFails
    BY <1>9 DEF AddFails, Abort, kernel
<1>10. ASSUME NEW gs \in SUBSET Gateways, UpdateRoutes(gs)
       PROVE  TablesInv'
    BY <1>10 DEF UpdateRoutes, kernel
<1>11. CASE ReplaceRoute
    BY <1>11 DEF ReplaceRoute, HostRoutes, OwnTable
<1>12. CASE ReplaceDone
    BY <1>12 DEF ReplaceDone, kernel
<1>13. CASE DropRoute
    BY <1>13 DEF DropRoute, HostRoutes, OwnTable
<1>14. CASE DropDone
    BY <1>14 DEF DropDone, kernel
<1>15. CASE Close
    BY <1>15 DEF Close, kernel
<1>16. CASE RouteCallFails
    BY <1>16 DEF RouteCallFails, kernel
<1>17. CASE Crash
    BY <1>17 DEF Crash, kernel
<1>18. CASE UNCHANGED vars
    BY <1>18 DEF vars
<1>19. QED
    BY <1>1, <1>2, <1>3, <1>4, <1>5, <1>6, <1>7, <1>8, <1>9, <1>10, <1>11,
       <1>12, <1>13, <1>14, <1>15, <1>16, <1>17, <1>18 DEF Next

(* A Close that reports no error restores the host's rules and tables; so does
   a start that fails and cleans up, for the rules. *)
THEOREM CloseRestores ==
    ASSUME SameSize, BelowMain, OwnTable
    PROVE  Spec => []CleanExit
<1>1. IInv /\ TablesInv => CleanExit
    BY DEF IInv, PhaseInv, TablesInv, CleanExit
<1>2. QED
    BY <1>1, RulesInductive, TypeCorrect, TablesInit, TablesStep, PTL DEF Spec
-----------------------------------------------------------------------------

(* Each route replaced stays replaced until the next UpdateRoutes. *)
LEMMA UpdateStep == TypeOK /\ UpdateInv /\ [Next]_vars => UpdateInv'
<1> SUFFICES ASSUME TypeOK, UpdateInv, [Next]_vars
             PROVE  UpdateInv'
    OBVIOUS
<1> USE DEF UpdateInv, RoutesApplied
<1>a. /\ slot \in Nat \ {0} /\ Len(cfg.routes) \in Nat
      /\ ToSet(cfg.routes) = {cfg.routes[i] : i \in 1..Len(cfg.routes)}
    BY ConfigFacts DEF TypeOK, ToSet
<1>1. ASSUME NEW c \in Configs, Start(c)
      PROVE  UpdateInv'
    BY <1>1 DEF Start
<1>2. CASE DelGateway \/ DelExclude \/ DelFallthrough \/ RemovalFails
    BY <1>2 DEF DelGateway, DelExclude, DelFallthrough, RemovalFails, Abort
<1>3. CASE AddFallthrough \/ AddExclude \/ AddFails
    BY <1>3 DEF AddFallthrough, AddExclude, AddFails, Abort
<1>4. CASE AddGateway
    BY <1>4 DEF AddGateway
<1>5. ASSUME NEW gs \in SUBSET Gateways, UpdateRoutes(gs)
      PROVE  UpdateInv'
    BY <1>5 DEF UpdateRoutes
<1>6. CASE ReplaceRoute
    <2> DEFINE dst == cfg.routes[slot]
               new == [table |-> GatewayTable, dst |-> dst, via |-> want]
    <2>1. /\ pc = "replacing" /\ pc' = pc /\ caller' = caller /\ want' = want /\ cfg' = cfg
          /\ slot \in 1..Len(cfg.routes) /\ slot' = slot + 1
        BY <1>6, <1>a DEF ReplaceRoute
    <2>2. fib' = {f \in fib : ~(f.table = GatewayTable /\ f.dst = dst)} \cup {new}
        BY <1>6 DEF ReplaceRoute
    <2>3. {f \in fib' : f.table = GatewayTable /\ f.dst = dst} = {new}
        BY <2>2
    <2>4. ASSUME NEW i \in 1..Len(cfg.routes), i < slot'
          PROVE  Applied(i)'
        <3>1. CASE cfg.routes[i] = dst
            <4>1. RoutesOf(cfg.routes[i])' = {new} /\ want' = new.via
                BY <3>1, <2>1, <2>3 DEF RoutesOf, GatewayTable
            <4>2. QED
                BY <4>1 DEF Applied
        <3>2. CASE cfg.routes[i] # dst
            <4>1. RoutesOf(cfg.routes[i])' = RoutesOf(cfg.routes[i])
                BY <3>2, <2>1, <2>2 DEF RoutesOf
            <4>2. i < slot
                BY <3>2, <2>1, <2>4, <1>a
            <4>3. Applied(i)
                BY <4>2, <2>1
            <4>4. QED
                BY <4>1, <4>3, <2>1 DEF Applied
        <3>3. QED
            BY <3>1, <3>2
    <2>5. QED
        BY <2>1, <2>4
<1>7. CASE ReplaceDone
    <2>1. /\ pc = "replacing" /\ pc' = "running" /\ caller' = caller /\ want' = want
          /\ cfg' = cfg /\ fib' = fib /\ slot > Len(cfg.routes)
        BY <1>7 DEF ReplaceDone, kernel
    <2>2. ASSUME NEW d \in ToSet(cfg.routes)
          PROVE  {f.via : f \in RoutesOf(d)} = {want}
        <3>1. PICK i \in 1..Len(cfg.routes) : d = cfg.routes[i]
            BY <1>a
        <3>2. Applied(i)
            BY <2>1, <1>a
        <3>3. QED
            BY <3>1, <3>2 DEF Applied
    <2>3. want # {}
        BY <2>1
    <2>4. RoutesApplied'
        BY <2>1, <2>2, <2>3 DEF RoutesOf
    <2>5. QED
        BY <2>1, <2>4
<1>8. CASE DropRoute
    BY <1>8 DEF DropRoute
<1>9. CASE DropDone
    BY <1>9 DEF DropDone, kernel
<1>10. CASE Close \/ RouteCallFails \/ Crash
    BY <1>10 DEF Close, RouteCallFails, Crash
<1>11. CASE UNCHANGED vars
    BY <1>11 DEF vars, Applied, RoutesOf
<1>12. QED
    BY <1>1, <1>2, <1>3, <1>4, <1>5, <1>6, <1>7, <1>8, <1>9, <1>10, <1>11 DEF Next

(* UpdateRoutes returns nil only when every managed route leads to exactly the
   gateways it was given, or, if there are none, when the table is empty. *)
THEOREM UpdatesApply == Spec => []RoutesApplied
<1>1. Init => UpdateInv
    BY DEF Init, UpdateInv, RoutesApplied
<1>2. UpdateInv => RoutesApplied
    BY DEF UpdateInv
<1>3. QED
    BY <1>1, <1>2, UpdateStep, TypeCorrect, PTL DEF Spec

(* Only managed routes enter the gateway table. *)
LEMMA OwnRoutesStep ==
    ASSUME SameRoutes
    PROVE  TypeOK /\ OwnRoutes /\ [Next]_vars => OwnRoutes'
<1> SUFFICES ASSUME TypeOK, OwnRoutes, [Next]_vars
             PROVE  OwnRoutes'
    OBVIOUS
<1>1. ToSet(cfg'.routes) = ToSet(cfg.routes)
    BY TypeCorrectStep DEF TypeOK, SameRoutes
<1>2. CASE ReplaceRoute
    <2>1. cfg.routes[slot] \in ToSet(cfg.routes)
        BY <1>2, ConfigFacts DEF ReplaceRoute, TypeOK, ToSet
    <2>2. QED
        BY <1>1, <1>2, <2>1 DEF ReplaceRoute, OwnRoutes
<1>3. CASE fib' \subseteq fib
    BY <1>1, <1>3 DEF OwnRoutes
<1>4. QED
    BY <1>2, <1>3
    DEF Next, vars, kernel, Start, DelGateway, DelExclude, DelFallthrough, RemovalFails,
        AddFallthrough, AddExclude, AddGateway, AddFails, UpdateRoutes,
        ReplaceDone, DropRoute, DropDone, Close, RouteCallFails, Crash

(* Once UpdateRoutes returned nil the gateway table leads to active gateways
   only, if earlier processes managed the same routes. *)
THEOREM ActiveGatewaysOnly ==
    ASSUME SameRoutes, OwnTable
    PROVE  Spec => []OnlyActiveGateways
<1>1. Init => OwnRoutes
    BY DEF Init, OwnRoutes, HostRoutes, OwnTable
<1>2. OwnRoutes /\ RoutesApplied => OnlyActiveGateways
    <2> SUFFICES ASSUME OwnRoutes, RoutesApplied, pc = "running", caller = "update",
                        NEW f \in fib, f.table = GatewayTable
                 PROVE  f.via \subseteq want
        BY DEF OnlyActiveGateways
    <2>1. want # {} /\ f.dst \in ToSet(cfg.routes)
        BY DEF OwnRoutes, RoutesApplied
    <2>2. {g.via : g \in {h \in fib : h.table = GatewayTable /\ h.dst = f.dst}} = {want}
        BY <2>1 DEF RoutesApplied
    <2>3. f.via = want
        BY <2>2
    <2>4. QED
        BY <2>3
<1>3. QED
    BY <1>1, <1>2, OwnRoutesStep, UpdatesApply, TypeCorrect, PTL DEF Spec

(* A route is never missing while UpdateRoutes has an active gateway for it. *)
THEOREM RoutesNeverWithdrawn == Spec => NoGap
<1> DEFINE kept == \A f \in fib : \E g \in fib' : g.table = f.table /\ g.dst = f.dst
<1>1. [Next]_vars =>
          [({pc, pc'} \subseteq {"running", "replacing"}) => kept]_vars
    <2> SUFFICES ASSUME Next, {pc, pc'} \subseteq {"running", "replacing"}
                 PROVE  kept
        OBVIOUS
    <2>1. CASE ReplaceRoute
        <3> DEFINE dst == cfg.routes[slot]
                   new == [table |-> GatewayTable, dst |-> dst, via |-> want]
        <3>1. fib' = {f \in fib : ~(f.table = GatewayTable /\ f.dst = dst)} \cup {new}
            BY <2>1 DEF ReplaceRoute
        <3>2. ASSUME NEW f \in fib
              PROVE  \E g \in fib' : g.table = f.table /\ g.dst = f.dst
            <4>1. CASE f.table = GatewayTable /\ f.dst = dst
                BY <3>1, <4>1, new.table = f.table, new.dst = f.dst
            <4>2. CASE ~(f.table = GatewayTable /\ f.dst = dst)
                BY <3>1, <4>2
            <4>3. QED
                BY <4>1, <4>2
        <3>3. QED
            BY <3>2
    <2>2. CASE fib' = fib
        BY <2>2
    <2>3. QED
        BY <2>1, <2>2
        DEF Next, kernel, Start, DelGateway, DelExclude, DelFallthrough, RemovalFails,
            AddFallthrough, AddExclude, AddGateway, AddFails, UpdateRoutes,
            ReplaceDone, DropRoute, DropDone, Close, RouteCallFails, Crash
<1>2. QED
    BY <1>1, PTL DEF Spec, NoGap
-----------------------------------------------------------------------------

\* The values of ActiveRoutes' variables.
State == IF pc = "running" THEN "ready" ELSE IF Updating THEN "busy" ELSE "off"
Asked == IF Updating THEN want ELSE {}
OwnVias == {f.via : f \in {g \in fib : g.table = GatewayTable}}
Routed == UNION OwnVias

\* A manager that is not yet serving has not been asked for anything.
NothingAsked == caller = "add" /\ pc # "down" => want = {}

ContractInv == TypeOK /\ UpdateInv /\ OwnRoutes /\ NothingAsked
-----------------------------------------------------------------------------

(* Start forgets the gateways of the last process, and only UpdateRoutes asks. *)
LEMMA NothingAskedStep == NothingAsked /\ [Next]_vars => NothingAsked'
    BY DEF NothingAsked, Next, vars, kernel, Start, DelGateway, DelExclude, DelFallthrough,
           RemovalFails, Abort, AddFallthrough, AddExclude, AddGateway, AddFails,
           UpdateRoutes, ReplaceRoute, ReplaceDone, DropRoute, DropDone, Close,
           RouteCallFails, Crash

LEMMA ContractInductive ==
    ASSUME SameRoutes, OwnTable
    PROVE  Spec => []ContractInv
<1>1. Init => UpdateInv /\ OwnRoutes /\ NothingAsked
    BY DEF Init, UpdateInv, RoutesApplied, OwnRoutes, NothingAsked, HostRoutes, OwnTable
<1>2. QED
    BY <1>1, UpdateStep, OwnRoutesStep, NothingAskedStep, TypeCorrect, PTL
    DEF Spec, ContractInv

(* One more route to the wanted gateways adds no other gateway, and takes none
   of the wanted away. *)
LEMMA ReplaceMoves ==
    ASSUME ReplaceRoute
    PROVE  /\ Routed' \subseteq Routed \cup want
           /\ Routed \cap want \subseteq Routed'
<1> DEFINE new == [table |-> GatewayTable, dst |-> cfg.routes[slot], via |-> want]
           kept == {f \in fib : ~(f.table = GatewayTable /\ f.dst = cfg.routes[slot])}
<1>1. fib' = kept \cup {new}
    BY DEF ReplaceRoute
<1>2. ASSUME NEW g \in Routed'
      PROVE  g \in Routed \cup want
    <2>1. PICK f \in fib' : f.table = GatewayTable /\ g \in f.via
        BY <1>2 DEF Routed, OwnVias, GatewayTable
    <2>2. CASE f = new
        BY <2>1, <2>2
    <2>3. CASE f \in fib
        BY <2>1, <2>3 DEF Routed, OwnVias
    <2>4. QED
        BY <1>1, <2>1, <2>2, <2>3
<1>3. want \subseteq Routed'
    <2>1. new \in fib' /\ new.table = GatewayTable' /\ new.via = want
        BY <1>1 DEF GatewayTable
    <2>2. want \in OwnVias'
        BY <2>1 DEF OwnVias
    <2>3. QED
        BY <2>2 DEF Routed
<1>4. QED
    BY <1>2, <1>3

(* When all routes are replaced, no gateway is left but the wanted ones. *)
LEMMA ReplacedAll ==
    ASSUME ContractInv, ReplaceDone
    PROVE  Routed = want
<1>1. /\ slot > Len(cfg.routes) /\ slot \in Nat
      /\ Len(cfg.routes) \in Nat /\ Len(cfg.routes) > 0
      /\ ToSet(cfg.routes) = {cfg.routes[i] : i \in 1..Len(cfg.routes)}
    <2>1. cfg.routes \in Seq(Dsts) \ {<<>>}
        BY ConfigAssumption DEF ContractInv, TypeOK
    <2>2. Len(cfg.routes) # 0
        BY <2>1
    <2>3. QED
        BY <2>1, <2>2 DEF ReplaceDone, ContractInv, TypeOK, ToSet
<1>2. \A i \in 1..Len(cfg.routes) : Applied(i)
    BY <1>1 DEF ContractInv, UpdateInv, ReplaceDone
<1>3. \A f \in fib : f.table = GatewayTable => f.via = want
    <2> SUFFICES ASSUME NEW f \in fib, f.table = GatewayTable
                 PROVE  f.via = want
        OBVIOUS
    <2>1. PICK i \in 1..Len(cfg.routes) : f.dst = cfg.routes[i]
        BY <1>1 DEF ContractInv, OwnRoutes
    <2>2. f \in RoutesOf(cfg.routes[i])
        BY <2>1 DEF RoutesOf
    <2>3. QED
        BY <1>2, <2>2 DEF Applied
<1>4. want \in OwnVias
    <2>1. want \in {f.via : f \in RoutesOf(cfg.routes[1])}
        BY <1>1, <1>2 DEF Applied
    <2>2. QED
        BY <2>1 DEF RoutesOf, OwnVias
<1>5. OwnVias = {want}
    BY <1>3, <1>4 DEF OwnVias
<1>6. QED
    BY <1>5 DEF Routed

(* The routes of other tables and the rules do not matter. *)
LEMMA SameRouted == fib' = fib => Routed' = Routed
    BY DEF Routed, OwnVias, GatewayTable

(* Every step of the manager is one of ActiveRoutes, or none. *)
LEMMA ContractStep ==
    ASSUME ContractInv, Next
    PROVE  ActiveRoutes!Next \/ (State' = State /\ Asked' = Asked /\ Routed' = Routed)
<1> USE DEF State, Asked, Updating
<1> DEFINE stays == State' = State /\ Asked' = Asked /\ Routed' = Routed
<1>1. ASSUME NEW c \in Configs, Start(c)
      PROVE  stays
    BY <1>1, SameRouted DEF Start, kernel
<1>2. CASE DelGateway \/ DelExclude \/ DelFallthrough \/ RemovalFails
    BY <1>2, SameRouted
    DEF DelGateway, DelExclude, DelFallthrough, RemovalFails, Abort, kernel
<1>3. CASE AddFallthrough \/ AddExclude \/ AddFails
    BY <1>3, SameRouted DEF AddFallthrough, AddExclude, AddFails, Abort, kernel
<1>4. CASE AddGateway
    <2>1. State = "off" /\ State' = "ready" /\ Routed' = Routed
        BY <1>4, SameRouted DEF AddGateway
    <2>2. Asked = {} /\ Asked' = {}
        BY <1>4 DEF AddGateway, ContractInv, UpdateInv, NothingAsked
    <2>3. ActiveRoutes!Serve
        BY <2>1, <2>2 DEF ActiveRoutes!Serve, Routed, OwnVias
    <2>4. QED
        BY <2>3 DEF ActiveRoutes!Next
<1>5. ASSUME NEW gs \in SUBSET Gateways, UpdateRoutes(gs)
      PROVE  ActiveRoutes!Next
    <2>1. State = "ready" /\ State' = "busy" /\ Asked' = gs /\ Routed' = Routed
        BY <1>5, SameRouted DEF UpdateRoutes, kernel
    <2>2. ActiveRoutes!UpdateRoutes(gs)
        BY <2>1 DEF ActiveRoutes!UpdateRoutes, Routed, OwnVias
    <2>3. QED
        BY <2>2 DEF ActiveRoutes!Next
<1>6. CASE ReplaceRoute
    <2>1. State = "busy" /\ State' = State /\ Asked = want /\ Asked' = Asked
        BY <1>6 DEF ReplaceRoute
    <2>2. ActiveRoutes!Move
        BY <1>6, <2>1, ReplaceMoves DEF ActiveRoutes!Move, Routed, OwnVias
    <2>3. QED
        BY <2>2 DEF ActiveRoutes!Next
<1>7. CASE ReplaceDone
    <2>1. State = "busy" /\ State' = "ready" /\ Asked = want /\ Asked' = Asked
        BY <1>7 DEF ReplaceDone
    <2>2. Routed = want /\ Routed' = Routed
        BY <1>7, ReplacedAll, SameRouted DEF ReplaceDone, kernel
    <2>3. ActiveRoutes!Return
        BY <2>1, <2>2 DEF ActiveRoutes!Return, Routed, OwnVias
    <2>4. QED
        BY <2>3 DEF ActiveRoutes!Next
<1>8. CASE DropRoute
    <2>1. Routed' \in SUBSET Routed /\ State' = State /\ Asked' = Asked
        BY <1>8 DEF DropRoute, Routed, OwnVias, GatewayTable
    <2>2. CASE pc = "dropping"
        <3>1. State = "busy" /\ Asked = {}
            BY <2>2 DEF ContractInv, UpdateInv
        <3>2. ActiveRoutes!Move
            BY <2>1, <3>1 DEF ActiveRoutes!Move, Routed, OwnVias
        <3>3. QED
            BY <3>2 DEF ActiveRoutes!Next
    <2>3. CASE pc = "closing"
        <3>1. State = "off"
            BY <2>3
        <3>2. ActiveRoutes!Withdraw
            BY <2>1, <3>1 DEF ActiveRoutes!Withdraw, Routed, OwnVias
        <3>3. QED
            BY <3>2 DEF ActiveRoutes!Next
    <2>4. QED
        BY <1>8, <2>2, <2>3 DEF DropRoute
<1>9. CASE DropDone
    <2>1. Routed = {} /\ Routed' = Routed
        BY <1>9, SameRouted DEF DropDone, kernel, Routed, OwnVias
    <2>2. CASE pc = "dropping"
        <3>1. State = "busy" /\ State' = "ready" /\ Asked = {} /\ Asked' = Asked
            BY <1>9, <2>2 DEF DropDone, ContractInv, UpdateInv
        <3>2. ActiveRoutes!Return
            BY <2>1, <3>1 DEF ActiveRoutes!Return, Routed, OwnVias
        <3>3. QED
            BY <3>2 DEF ActiveRoutes!Next
    <2>3. CASE pc = "closing"
        BY <1>9, <2>1, <2>3 DEF DropDone
    <2>4. QED
        BY <1>9, <2>2, <2>3 DEF DropDone
<1>10. CASE Close \/ RouteCallFails \/ Crash
    <2>1. State' = "off" /\ Asked' = {} /\ Routed' = Routed
        BY <1>10, SameRouted DEF Close, RouteCallFails, Crash, kernel
    <2>2. CASE State = "off"
        BY <2>1, <2>2
    <2>3. CASE State # "off"
        <3>1. ActiveRoutes!Leave
            BY <2>1, <2>3 DEF ActiveRoutes!Leave, Routed, OwnVias
        <3>2. QED
            BY <3>1 DEF ActiveRoutes!Next
    <2>4. QED
        BY <2>2, <2>3
<1>11. QED
    BY <1>1, <1>2, <1>3, <1>4, <1>5, <1>6, <1>7, <1>8, <1>9, <1>10 DEF Next

(* The manager gives the monitor what ActiveRoutes promises, through failures,
   crashes and restarts, if restarts manage the same routes. *)
THEOREM ContractImplemented ==
    ASSUME SameRoutes, OwnTable
    PROVE  Spec => RouteContract
<1>1. Init => ActiveRoutes!Init
    <2> SUFFICES ASSUME Init
                 PROVE  State = "off" /\ Asked = {} /\ Routed = {}
        BY DEF ActiveRoutes!Init, State, Asked, Routed, OwnVias
    <2>1. OwnVias = {}
        BY DEF Init, OwnVias, HostRoutes, OwnTable
    <2>2. QED
        BY <2>1 DEF Init, State, Asked, Updating, Routed
<1>2. ContractInv /\ [Next]_vars => [ActiveRoutes!Next]_<<State, Asked, Routed>>
    <2> SUFFICES ASSUME ContractInv, [Next]_vars
                 PROVE  ActiveRoutes!Next \/ (State' = State /\ Asked' = Asked /\ Routed' = Routed)
        OBVIOUS
    <2>1. CASE Next
        BY <2>1, ContractStep
    <2>2. CASE UNCHANGED vars
        BY <2>2, SameRouted DEF vars, kernel, State, Asked, Updating
    <2>3. QED
        BY <2>1, <2>2
<1>3. [ActiveRoutes!Next]_<<State, Asked, Routed>> => [ActiveRoutes!Next]_(ActiveRoutes!vars)
    BY DEF ActiveRoutes!vars, State, Asked, Routed, OwnVias
<1>4. QED
    BY <1>1, <1>2, <1>3, ContractInductive, PTL
    DEF RouteContract, ActiveRoutes!Spec, Spec
=============================================================================
