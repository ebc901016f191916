---------------------------- MODULE RouteManager ----------------------------
(***************************************************************************)
(* pkg/routes: NetlinkManager, from NewNetlinkManager to Close, one action *)
(* per netlink call.  The kernel's rules and routes outlive the process: a *)
(* crash leaves them as they are, and the next start, which may have other *)
(* networks to exclude or other routes to manage, finds them.              *)
(***************************************************************************)
EXTENDS PolicyRouting, FiniteSets, SequencesExt

CONSTANTS
    Nets,        \* disjoint destination networks that may be excluded
    Other,       \* a destination in none of them
    Dsts,        \* destinations of the routes the program may manage
    Gateways,    \* the gateways
    Configs,     \* records [nets |-> reduced networks, routes |-> Dsts], as sequences
    FirstTable,  \* -first-routing-table-id
    FirstPref,   \* -first-rule-preference
    MainPref,    \* preference of the host's main rule: 32766 in Linux
    HostRoute    \* destination of the host's own route in its main table

ASSUME ConfigAssumption ==
    Configs \subseteq [nets : Seq(Nets), routes : Seq(Dsts) \ {<<>>}]

ASSUME NumberAssumption ==
    FirstTable \in Nat /\ FirstPref \in Nat /\ MainPref \in Nat \ {0}

ASSUME NameAssumption ==
    All \notin Nets \cup {Other} /\ Other \notin Nets

LocalTable == 255
MainTable == 254
DefaultTable == 253

GatewayTable == FirstTable
FallthroughTable == FirstTable + 1

HostRules == {TableRule(0, LocalTable), TableRule(MainPref, MainTable),
              TableRule(MainPref + 1, DefaultTable)}
HostRoutes == {[table |-> MainTable, dst |-> HostRoute, via |-> {}]}

VARIABLES
    rules,    \* kernel: the policy rules
    fib,      \* kernel: the routes of all tables
    pc,       \* what the manager does next
    cfg,      \* the configuration of this, or of the last, start
    slot,     \* position in excludeNets or in the routes
    caller,   \* "add", "abort", "update" or "close": the method at work
    want,     \* the gateways of the last UpdateRoutes call
    outcome   \* "clean" while the cleanup before an exit met no error

kernel == <<rules, fib>>
vars == <<rules, fib, pc, cfg, slot, caller, want, outcome>>

\* Wrong on purpose: the preferences count down.
ExcludePrefDown(i) == FirstPref - i

\* Wrong on purpose: one preference is left out.
FallthroughPrefGap == FirstPref + Len(cfg.nets) + 2

ExcludePref(i) == FirstPref + i - 1
GatewayPref == FirstPref + Len(cfg.nets)
FallthroughPref == GatewayPref + 1

\* excludeNetworks' check of firstRulePreference; both ends are inclusive.
ValidPreference(c) ==
    FirstPref >= 1 /\ FirstPref <= MainPref - (Len(c.nets) + 2) + 1

ValidTable == FirstTable >= 1 /\ FirstTable <= 255 - 1

\* Wrong on purpose: the two tables are mixed up.
GatewayRuleSwapped == TableRule(GatewayPref, FallthroughTable)

\* Wrong on purpose: the jump leads to the gateway rule, not over it.
ExcludeRuleShort(i) == JumpRule(ExcludePref(i), cfg.nets[i], GatewayPref)

GatewayRule == TableRule(GatewayPref, GatewayTable)
FallthroughRule == TableRule(FallthroughPref, FallthroughTable)
ExcludeRule(i) == JumpRule(ExcludePref(i), cfg.nets[i], FallthroughPref)

Init ==
    /\ rules = HostRules
    /\ fib = HostRoutes
    /\ pc = "down"
    /\ cfg \in Configs
    /\ slot = 1
    /\ caller = "add"
    /\ want = {}
    /\ outcome = "none"

\* NewNetlinkManager.  An invalid configuration exits with nothing changed.
Start(c) ==
    /\ pc = "down"
    /\ ValidTable /\ ValidPreference(c)
    /\ cfg' = c
    /\ pc' = "delGateway"
    /\ caller' = "add"
    /\ want' = {}
    /\ outcome' = "none"
    /\ UNCHANGED <<kernel, slot>>

(* removeRules: the list of rules becomes a map by preference, so one rule of
   each preference is deleted.  Nothing else writes the rules meanwhile. *)
Delete(pref) ==
    \/ \E r \in rules : r.pref = pref /\ rules' = rules \ {r}
    \/ pref \notin PrefsOf(rules) /\ UNCHANGED rules

\* Wrong on purpose: the gateway rule is not removed first.
DelGatewaySkipped ==
    /\ pc = "delGateway"
    /\ pc' = "delExcludes"
    /\ slot' = 1
    /\ UNCHANGED <<kernel, cfg, caller, want, outcome>>

DelGateway ==
    /\ pc = "delGateway"
    /\ Delete(GatewayPref)
    /\ pc' = "delExcludes"
    /\ slot' = 1
    /\ UNCHANGED <<fib, cfg, caller, want, outcome>>

DelExclude ==
    /\ pc = "delExcludes"
    /\ slot <= Len(cfg.nets)
    /\ Delete(ExcludePref(slot))
    /\ slot' = slot + 1
    /\ UNCHANGED <<fib, pc, cfg, caller, want, outcome>>

\* Wrong on purpose: the fallthrough rule is kept.
DelFallthroughSkipped ==
    /\ pc = "delExcludes"
    /\ slot > Len(cfg.nets)
    /\ pc' = IF caller = "add" THEN "addFallthrough" ELSE "down"
    /\ UNCHANGED <<kernel, cfg, slot, caller, want, outcome>>

DelFallthrough ==
    /\ pc = "delExcludes"
    /\ slot > Len(cfg.nets)
    /\ Delete(FallthroughPref)
    /\ pc' = IF caller = "add" THEN "addFallthrough" ELSE "down"
    /\ UNCHANGED <<fib, cfg, slot, caller, want, outcome>>

\* excludeNetworks' cleanup after addRules failed.
Abort ==
    /\ pc' = "delGateway"
    /\ caller' = "abort"
    /\ outcome' = "clean"

\* RuleList or RuleDel returns an error, which ends removeRules.
RemovalFails ==
    /\ pc \in {"delGateway", "delExcludes"}
    /\ IF caller = "add"
       THEN Abort
       ELSE pc' = "down" /\ outcome' = "error" /\ UNCHANGED caller
    /\ UNCHANGED <<kernel, cfg, slot, want>>

\* The kernel refuses a rule it already has.
Add(r) == r \notin rules /\ rules' = rules \cup {r}

AddFallthrough ==
    /\ pc = "addFallthrough"
    /\ Add(FallthroughRule)
    /\ pc' = "addExcludes"
    /\ slot' = 1
    /\ UNCHANGED <<fib, cfg, caller, want, outcome>>

AddExclude ==
    /\ pc = "addExcludes"
    /\ slot <= Len(cfg.nets)
    /\ Add(ExcludeRule(slot))
    /\ slot' = slot + 1
    /\ UNCHANGED <<fib, pc, cfg, caller, want, outcome>>

\* Wrong on purpose: the gateway rule does not wait for the excluded networks.
AddGatewayEarly ==
    /\ pc = "addExcludes"
    /\ Add(GatewayRule)
    /\ pc' = "running"
    /\ UNCHANGED <<fib, cfg, slot, caller, want, outcome>>

AddGateway ==
    /\ pc = "addExcludes"
    /\ slot > Len(cfg.nets)
    /\ Add(GatewayRule)
    /\ pc' = "running"
    /\ UNCHANGED <<fib, cfg, slot, caller, want, outcome>>

AddFails ==
    /\ pc \in {"addFallthrough", "addExcludes"}
    /\ Abort
    /\ UNCHANGED <<kernel, cfg, slot, want>>

\* Wrong on purpose: without active gateways nothing is done.
UpdateRoutesSkipsEmpty(gs) ==
    /\ pc = "running"
    /\ want' = gs
    /\ pc' = IF gs = {} THEN "running" ELSE "replacing"
    /\ slot' = 1
    /\ caller' = "update"
    /\ UNCHANGED <<kernel, cfg, outcome>>

\* UpdateRoutes, called by the monitor with the active gateways.
UpdateRoutes(gs) ==
    /\ pc = "running"
    /\ want' = gs
    /\ pc' = IF gs = {} THEN "dropping" ELSE "replacing"
    /\ slot' = 1
    /\ caller' = "update"
    /\ UNCHANGED <<kernel, cfg, outcome>>

\* Wrong on purpose: the route is added beside the one it should replace.
ReplaceRouteAppends ==
    /\ pc = "replacing"
    /\ slot <= Len(cfg.routes)
    /\ fib' = fib \cup {[table |-> GatewayTable, dst |-> cfg.routes[slot], via |-> want]}
    /\ slot' = slot + 1
    /\ UNCHANGED <<rules, pc, cfg, caller, want, outcome>>

\* Wrong on purpose: the table is flushed before the route is added.
ReplaceRouteFlushes ==
    /\ pc = "replacing"
    /\ slot <= Len(cfg.routes)
    /\ fib' = {f \in fib : f.table # GatewayTable}
                  \cup {[table |-> GatewayTable, dst |-> cfg.routes[slot], via |-> want]}
    /\ slot' = slot + 1
    /\ UNCHANGED <<rules, pc, cfg, caller, want, outcome>>

\* replaceRouteECMP: an upsert of one route.
ReplaceRoute ==
    /\ pc = "replacing"
    /\ slot <= Len(cfg.routes)
    /\ LET d == cfg.routes[slot]
       IN  fib' = {f \in fib : ~(f.table = GatewayTable /\ f.dst = d)}
                      \cup {[table |-> GatewayTable, dst |-> d, via |-> want]}
    /\ slot' = slot + 1
    /\ UNCHANGED <<rules, pc, cfg, caller, want, outcome>>

ReplaceDone ==
    /\ pc = "replacing"
    /\ slot > Len(cfg.routes)
    /\ pc' = "running"
    /\ UNCHANGED <<kernel, cfg, slot, caller, want, outcome>>

\* removeRoutes, for UpdateRoutes ("dropping") or for Close ("closing").
DropRoute ==
    /\ pc \in {"dropping", "closing"}
    /\ \E f \in fib : f.table = GatewayTable /\ fib' = fib \ {f}
    /\ UNCHANGED <<rules, pc, cfg, slot, caller, want, outcome>>

DropDone ==
    /\ pc \in {"dropping", "closing"}
    /\ \A f \in fib : f.table # GatewayTable
    /\ IF pc = "dropping"
       THEN pc' = "running" /\ UNCHANGED caller
       ELSE pc' = "delGateway" /\ caller' = "close"
    /\ UNCHANGED <<kernel, cfg, slot, want, outcome>>

\* Close, when the monitor stops.
Close ==
    /\ pc = "running"
    /\ pc' = "closing"
    /\ outcome' = "clean"
    /\ UNCHANGED <<kernel, cfg, slot, caller, want>>

\* An error from a route call.  UpdateRoutes' is fatal to the monitor, and run
\* then closes the manager; Close goes on to the rules and reports it.
RouteCallFails ==
    /\ \/ /\ pc \in {"replacing", "dropping"}
          /\ pc' = "closing"
          /\ outcome' = "clean"
          /\ UNCHANGED caller
       \/ /\ pc = "closing"
          /\ pc' = "delGateway"
          /\ caller' = "close"
          /\ outcome' = "error"
    /\ UNCHANGED <<kernel, cfg, slot, want>>

\* The process is killed: the kernel keeps its rules and routes.
Crash ==
    /\ pc # "down"
    /\ pc' = "down"
    /\ outcome' = "none"
    /\ UNCHANGED <<kernel, cfg, slot, caller, want>>

Next ==
    \/ \E c \in Configs : Start(c)
    \/ DelGateway \/ DelExclude \/ DelFallthrough \/ RemovalFails
    \/ AddFallthrough \/ AddExclude \/ AddGateway \/ AddFails
    \/ \E gs \in SUBSET Gateways : UpdateRoutes(gs)
    \/ ReplaceRoute \/ ReplaceDone
    \/ DropRoute \/ DropDone
    \/ Close \/ RouteCallFails \/ Crash

Spec == Init /\ [][Next]_vars
-----------------------------------------------------------------------------

Dests == Nets \cup {Other}
Excluded == ToSet(cfg.nets)

\* Lookups for d consult the gateway table.
Diverted(d) == Consults(rules, d, GatewayTable)

\* The manager has set its rules up and has not begun to remove them.
Serving == pc \in {"running", "replacing", "dropping", "closing"}

TypeOK ==
    /\ rules \subseteq [pref : Nat, dst : Dests \cup {All}, table : Nat,
                        goto : Nat \cup {NoJump}]
    /\ fib \subseteq [table : Nat, dst : Dsts \cup {HostRoute},
                      via : SUBSET Gateways]
    /\ pc \in {"down", "delGateway", "delExcludes", "addFallthrough",
               "addExcludes", "running", "replacing", "dropping", "closing"}
    /\ cfg \in Configs
    /\ slot \in Nat \ {0}
    /\ caller \in {"add", "abort", "update", "close"}
    /\ want \in SUBSET Gateways
    /\ outcome \in {"none", "clean", "error"}

\* While the manager serves, lookups for an excluded destination do not consult
\* the gateway table (the rule layout documented before excludeNetworks),
\* whatever an earlier process that was killed left behind.
ExcludedBypass ==
    Serving => \A d \in Excluded : ~Diverted(d)

\* And lookups for every other destination do.
OthersDiverted ==
    Serving => \A d \in Dests \ Excluded : Diverted(d)

\* No call, in no order of failures and crashes, leaves a destination without
\* the host's main table: what the gateway table does not answer is routed as
\* if the program were not there.
HostReachable ==
    \A d \in Dests : Consults(rules, d, MainTable)

\* The order in which addRules and removeRules work never moves an excluded
\* destination onto the gateways, not even between two netlink calls.
NoNewDiversion ==
    [][\A d \in Excluded' : Diverted(d)' => Diverted(d)]_vars

\* A Close that returns nil, or a failed start whose cleanup met no error,
\* leaves the rules as it found the host's; Close leaves no managed route.
CleanExit ==
    pc = "down" /\ outcome = "clean" =>
        /\ rules = HostRules
        /\ caller = "close" => fib = HostRoutes

\* Once UpdateRoutes returned nil, each managed route goes to exactly the
\* gateways it was called with; with none, the gateway table is empty.
RoutesApplied ==
    pc = "running" /\ caller = "update" =>
        IF want = {}
        THEN \A f \in fib : f.table # GatewayTable
        ELSE \A d \in ToSet(cfg.routes) :
                {f.via : f \in {g \in fib : g.table = GatewayTable /\ g.dst = d}} = {want}

\* No route of the gateway table leads to a gateway UpdateRoutes was not given.
OnlyActiveGateways ==
    pc = "running" /\ caller = "update" =>
        \A f \in fib : f.table = GatewayTable => f.via \subseteq want

\* Routes are replaced, never withdrawn, while some gateway is active.
NoGap ==
    [][({pc, pc'} \subseteq {"running", "replacing"}) =>
         \A f \in fib : \E g \in fib' : g.table = f.table /\ g.dst = f.dst]_vars

\* To the traffic, the rule by rule work is atomic: see Diversion.
Diversion == INSTANCE Diversion WITH
    Policies <- {ToSet(c.nets) : c \in Configs},
    diverted <- {d \in Dests : Diverted(d)}

AtomicDiversion == Diversion!Spec

\* Nor can the monitor tell that routes are moved one by one: see ActiveRoutes.
Updating == pc \in {"running", "replacing", "dropping"}

ActiveRoutes == INSTANCE ActiveRoutes WITH
    state <- IF pc = "running" THEN "ready" ELSE IF Updating THEN "busy" ELSE "off",
    asked <- IF Updating THEN want ELSE {},
    routed <- UNION {f.via : f \in {g \in fib : g.table = GatewayTable}}

RouteContract == ActiveRoutes!Spec
=============================================================================
