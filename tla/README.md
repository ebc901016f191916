# A specification of gateway-route-manager

The program keeps a host's traffic on the gateways that work. It checks a list of
gateways, writes an ECMP route to the live ones for each configured destination
into a routing table of its own, steers traffic to this table with policy rules
that leave out excluded networks, and publishes the public addresses of the live
gateways as A records of a hostname.

This directory holds TLA+ modules that model it, TLC configurations that check
them on small instances, and proofs for TLAPS. `PROJECT.json` maps every
definition to the lines it models.

    tlc -config RouteManager.cfg MCRouteManager     a run (module: see "The runs")
    tlapm RouteManagerProofs.tla                    a module of proofs

## 1. The system

| Part | State | Operations | Interacts with |
|---|---|---|---|
| `pkg/routes` NetlinkManager | in the kernel: policy rules, routes | `NewNetlinkManager`, `UpdateRoutes`, `Close` | kernel (netlink); called by the monitor |
| `pkg/monitor` GatewayMonitor | `IsActive` of each gateway, ticker | `Run`, `performCheckCycle`, `checkGateway`, `Close` | gateways (HTTP), route manager, updater |
| `pkg/ddns` Updater | `nextActiveGateways`, `lastActiveIPs`, the unbuffered `updateChan` | `Run`, `ScheduleUpdate`, `update`, `monitorAddresses`, `Close` | called by the monitor; calls a provider and the gateways' address services |
| `pkg/ddns` DynuDNSProvider | domain identifier; at the service: the records | `UpdateRecords` | service (HTTPS), one goroutine per changed record |
| `cmd/main.go` | context | `run`, `runDDNSUpdater` | starts, cancels and closes the others |
| `pkg/iputil` | none | `ReduceNetworks`, `IncrementIP`, `IsIPGreater`, `HasInterfaceWithIP` | called at start, and by the updater |
| `pkg/gateway` | `IsActive`, failure counter | `GenerateGateways`, `FetchPublicIP` | called at start, and by the updater |
| `pkg/config` | flags | `ParseFlags`, `Validate` | called at start |
| `pkg/ddns` `NewProvider` | none | a provider by its name | called at start, by the updater and by the monitor |
| `pkg/metrics` | counters | `StartMetricsServer` and recording | called everywhere, influences nothing but by failing to listen |

The goroutines are main's (the monitor's loop), one per gateway under check, the
updater's `Run`, its address monitor, the metrics server and, within an update of
the records, one per request. They share the gateways, the context, `updateChan`
and the updater's mutex-protected gateway set.

What is hard, and what must be right all the same:

- **Kernel state outlives the process.** Rules are added and deleted one netlink
  call at a time. Each call may fail, and the process may be killed between any
  two. The next start finds what was left, perhaps under another configuration.
  Excluded destinations must not be caught by the gateways, not even between two
  calls; everything else must be; the host's own routing must survive.
- **Routes follow the gateways.** They must be what the last successful call
  asked for, never lead to gateways known to be down, and never be missing in
  between while some gateway is active.
- **Wake-ups are lossy.** `ScheduleUpdate` and the address monitor use a
  non-blocking send. The records must be current when the updater rests, or there
  must be a reason that can be named.
- **Partial failure.** An update of the records may fail half way. What the
  updater remembers must stay true of the records.
- **Shutdown.** A signal may arrive in any state. The process must end, and a
  goroutine that nobody waits for must not harm it.
- **What the start lets through.** Whatever the flags, the start must end; what
  `Validate` accepts must start; the range of gateways must be enumerated across carries
  and at the end of the address space; the reduction of networks must end, keep every
  address, and leave the smallest set, which is what the route manager relies on.
- **Late requests.** A call to the DNS service that was given up on may still be carried
  out, in the middle of another update.

`PROJECT.json` lists each hazard with its line and the properties aimed at it.

## 2. The modules

| Module | Models |
|---|---|
| `PolicyRouting` | the kernel's rule lookup (external): rules in order of preference, jumps forward only |
| `RouteManager` | `pkg/routes`, one action per netlink call, errors at each call, crashes and restarts |
| `Diversion` | abstract: what the rules promise the traffic |
| `ActiveRoutes` | abstract: what the monitor expects of `UpdateRoutes` |
| `DDNSUpdater` | the Updater and its environment |
| `Provider` | abstract: what the Updater expects of a provider |
| `DynuDNS` | the provider, with its parallel requests; implements `Provider` |
| `GatewayMonitor` | the actions of the monitor, as a component without specification of its own |
| `App` | `cmd/main.go`: GatewayMonitor and DDNSUpdater composed |
| `Networks` | `ReduceNetworks` |
| `Startup` | from the command line to the first check: `ParseFlags`, `Validate`, `GenerateGateways`, `excludeNetworks`, with Networks for the reduction |
| `MCRouteManager`, `MCDDNSUpdater`, `MCStartup` | configurations, fault sets and command lines for TLC |
| `RouteManagerProofs`, `RouteManagerLookups`, `RouteManagerRoutes` | proofs about the route manager and PolicyRouting |
| `DDNSUpdaterProofs`, `AppProofs`, `DynuDNSProofs` | proofs about the updater, the process and the provider |
| `NetworksProofs`, `StartupProofs` | proofs about the reduction of networks and the start |

Definitions marked *Wrong on purpose* are no part of any specification. Each is a
definition of the model with a plausible bug. Putting it in place of the right one
makes the property named for it in `PROJECT.json` fail, which shows that the
property can tell: `AddGatewayEarly`, for instance, adds the gateway rule before the
networks are excluded.

### PolicyRouting and RouteManager

A rule is a record with a preference, a destination (`All` or one network), a table
and a jump target. `Reaches` says that a lookup gets to a preference if no table answers
it before; `Consults`, that it looks into a table on the way. Networks
are model values that do not overlap: `ReduceNetworks` makes them so, and `Other`
stands for the destinations outside all of them. Jumps to a preference without a
rule are passed over, as the kernel does with unresolved jumps.

| Code | Action |
|---|---|
| `NewNetlinkManager`, checks of `excludeNetworks` | `Start` |
| `removeRules`, each rule it looks for | `DelGateway`, `DelExclude`, `DelFallthrough`, `RemovalFails` |
| `addRules`, each rule | `AddFallthrough`, `AddExclude`, `AddGateway`, `AddFails` |
| `excludeNetworks` after an error | the branch to caller `"abort"` (`Abort`) |
| `UpdateRoutes`, `replaceRouteECMP`, each route | `UpdateRoutes`, `ReplaceRoute`, `ReplaceDone` |
| `removeRoutes`, each route | `DropRoute`, `DropDone` |
| `Close` | `Close`, then the actions of `removeRoutes` and `removeRules` |
| errors of route calls | `RouteCallFails` |
| SIGKILL, power loss short of a reboot | `Crash` |

`removeRules` fetches the rules once and deletes from a map keyed by preference.
Since no one else writes at these preferences meanwhile, `Delete` looks at the
rules of the moment; of two rules with one preference it deletes one, either.

### DDNSUpdater

`Run` is waiting at its select or in one step of `update`, which is split where
other goroutines can act in between: the set of gateways is read under the lock
(`Load`), then come the check of the required address, the public addresses one by
one, the comparison, the records one by one and the store of `lastActiveIPs`.
`Offer` is the non-blocking send: taken, lost, or, once the channel is closed, a
panic. `Faults` says what the environment may do.

The required address is looked for on the interfaces: `HasInterfaceWithIP` is the set of
answers that walk may end with. With `-public-ip-service-hostname` the query for a
gateway's address is routed like any other packet, so it may tell another gateway's
(fault `"shared"`). The provider is `Provider` with records that are intact: nobody else
writes them and no request is carried out late.

`doubts` is a history variable, read by no action: it collects why the records may
not be what the scheduled gateways ask for, and is emptied of all but doubts about
the records themselves when an update begins. `IdleIsCurrent` says that the list of
reasons is complete, so each reason is a scenario in which the program rests with
old records until the gateways change again.

### GatewayMonitor and App

A check cycle starts all checks, waits for all, updates the routes, then schedules
the records. The route manager appears as what `UpdateRoutes` does to `routed`, the
gateways some managed route leads to: its two outcomes are those of `ActiveRoutes`, which
RouteManager implements (`RouteContract`). An `UpdateRoutes` that returns has made the
routes lead to exactly the given gateways; one that fails has moved some of them, and never
taken away a gateway that stays. It ends `Run`. `App` joins
the monitor's steps in main's goroutine with the updater's, follows `run` through the
metrics server and the deferred `Close`, and tells a panic in main's goroutine
(which unwinds through `Close`) from one elsewhere (which does not).

### Provider and DynuDNS

`Provider` takes the records towards the addresses asked for, one at a time, may fail
anywhere, and succeeds, if the records were intact when it looked at them, only when they
are exactly these. Intact means that no address has two records and that no request given
up on is still to be carried out. DDNSUpdater uses the same steps (`WriteRecord`,
`UpdateSucceeds`, `UpdateFails`).

`DynuDNS` has the service's records by identifier, the requests not yet sent, under way,
carried out, and late. A call may fail before or after the service has carried it out, or
be carried out after it failed (`CarryOutLate`), with the next update already under way.
It implements `Provider` under the mapping `Contract`, with the addresses of its
records for `dns`.

### Networks

A network is its prefix, a sequence of bits, so subnets are extensions and merging
drops the last bit. Networks are IPv4. The actions are the passes: the sort, the removal of
duplicates, the removal of subsets, and the merging pass, which is one network per action
(`MergeNext`, `MergeSkip`) and ends with another sort or with the result (`PassEnds`).
`Arranged` lists the elements of a sequence at some positions in an order of these positions;
the sort (`Sorted`) and the two removals (`At`) are instances of it. Equal networks cannot be
told apart, so it does not matter which of them the sort, which is not stable, puts first.
`cover` is a history variable with the addresses the call was given.

### Startup

`pc` is where `run` is, or how it ended. A command line is a record of what the start
looks at (`Config`); flags that are checked alike (ports, schemes, the log level) are one
condition `wellFormed`. An address has a family and bits; a bit stands for a byte, so a carry from
byte to byte is one from bit to bit. The reduction is Networks, with its variables, and a
step of it is a step of the start.

`Validate` lets two things through that do not start, which `AcceptedStarts` names: a range
whose ends are not both IPv4, as `IsIPGreater` is then false (a range from an IPv4 to an
IPv6 address enumerates gateways to the end of the address space and fails there), and a
check period that is not positive with a timeout no larger, on which `time.NewTicker`
panics after the rules were added (main's deferred `Close` then removes them).
`ManagerAssumptions` and `ResultSmallest` are what RouteManager assumes: disjoint networks,
at least one route, and preferences up to the host's main rule.

## 3. The runs

| Run | cfg, module | Shows |
|---|---|---|
| rules_and_routes | `RouteManager`, MCRouteManager | rules and routes are right in every state between netlink calls; RouteManager implements Diversion and ActiveRoutes |
| highest_preference | `RouteManagerMaxPref`, MCRouteManager | violation, finding 1 |
| fewer_networks | `RouteManagerFewerNets`, MCRouteManager | violation, finding 2 |
| other_routes | `RouteManagerOtherRoutes`, MCRouteManager | violation, finding 3 |
| updater | `DDNSUpdater`, MCDDNSUpdater | the records are current at rest but for the named reasons; received wake-ups are acted on |
| lost_wakeup | `DDNSUpdaterLostWakeup`, MCDDNSUpdater | violation, finding 4 |
| skipped_update | `DDNSUpdaterSkip`, MCDDNSUpdater | violation, finding 5 |
| process | `App`, App | routes before records, agreement between cycles, dead gateways leave, live ones join, a cancelled process exits |
| shutdown | `AppShutdown`, App | violation, finding 6 |
| startup | `Startup`, MCStartup | accepted command lines start but for two named gaps, every gateway is enumerated once, the networks reduced to the smallest set; every step gets on, and the start ends |
| dynudns | `DynuDNS`, DynuDNS | DynuDNS implements Provider, with duplicates and late requests |
| duplicate_records | `DynuDNSDuplicates`, DynuDNS | violation, finding 7 |

Bounds, and why they are enough to be interesting:

- *RouteManager*: three networks of which each configuration excludes two, not the
  same two, so that a restart meets a rule it knows, one it does not, and one it
  misses; two routes, so that one can be done and the other not; two gateways, so that
  the active set can be empty, partial or full. `MainPref` is 5 rather than 32766, the
  smallest at which `FirstPref` = 1 is not the last accepted value. Preferences are
  only compared. The number of crashes and restarts has no bound. The theorems remove
  every other bound.
- *DDNSUpdater*: two gateways and two addresses, which may coincide. The passing
  run has all faults: records left by an earlier process, failing calls, failures between
  any two records, moving addresses, a cancelled context.
- *App*: two gateways, one address, since what matters is who runs when. The ticker's
  channel holds one tick, as Go's does.
- *Startup*: three-bit addresses. All pairs of ends, of either family or unset; all lists of
  up to three networks, duplicates and the whole space included, and every set of three to five
  in one order, enough for merges that make merges possible in the next two passes; the
  reserved networks added to lists of up to two; routes to none, one or two destinations; all combinations of the flags within each group that is checked together
  (times, DDNS, credentials, numbers), around both ends of each accepted interval. `MainPref`
  is 5, so that the room for the first preference runs from four places, with no network
  to exclude, down to none, with four.
- *DynuDNS*: three addresses, three identifiers, any records at first, two of one
  address included, and any requests late. When the service has no identifier free, a
  creation waits. Requests under way and late requests are sets: of two equal creations given
  up on, one may still come. The theorem has no bound on addresses and identifiers.

Runs without a deadlock check are those whose system may stop: a process that exited,
an updater whose environment has nothing to do, a function that returned.

Fairness, and what justifies it:

- `DDNSUpdater`: weak fairness of `Run` and, where an address is required, of
  `MonitorAddresses`: goroutines are scheduled, an update's calls all have its context
  with its deadline (`-ddns-timeout`), and a ticker ticks. Nothing is fair about the environment.
- `App`: weak fairness of main's goroutine, of the updater's and of the ticker. The
  monitor's exit is strongly fair: a tick and a done context may both be ready at the
  select again and again, and Go picks at random among ready cases. No check is assumed
  to succeed, and cancellation is never assumed.
- `Startup`: weak fairness of the whole; it is a sequential program.
- The safety runs assume none. Neither do refinements, which state safety only.

## 4. Findings

1. **The last accepted rule preference takes the host's main rule.** `excludeNetworks`
   admits a first preference with which the fallthrough rule is at 32766, where
   `from all lookup main` is; `removeRules`, always called first, deletes that rule.
2. **A restart with fewer excluded networks leaves the old gateway rule.**
   `removeRules` only looks at the preferences of the current configuration. After a
   kill, the old gateway rule at a higher preference stays, and the jumps of the
   excluded networks land before it.
3. **A restart with other routes leaves the old ones.** `UpdateRoutes` empties the table
   only when no gateway is active; a route left for another destination keeps leading
   to gateways that have gone down.
4. **A wake-up can be lost for good.** A set scheduled while an update runs, or before
   `Run` is at its select, is stored, but later calls with the same set return early.
5. **A needed update may be skipped.** After an update that failed half way,
   `lastActiveIPs` is that of the last success; going back to it counts as no change.
6. **A send may hit the closed channel at shutdown.** `Close` closes `updateChan`
   while the monitor's last cycle or the address monitor may still send: a panic.
   In the address monitor it ends the process without removing rules and routes.
7. **Of two records with one unwanted address, one stays**, and the update succeeds. The
   run starts without such records: a creation given up on and carried out late, after the
   next update listed the records and created its own, makes them.

Two hazards are named rather than violated by a run. A gateway table of 253 or 254 is
accepted; with `FirstTable` = 254 in `RouteManager.cfg`, `CleanExit` is violated, as `Close`
empties the host's main table (with 253, the default table, which is empty in the model,
nothing is lost). And the gaps of `Validate` are part of `AcceptedStarts`.

## 5. What is proved

TLAPS checks the following for all values of the constants.

About the route manager, for all networks, routes, gateways, configurations, preferences
and tables; ConfigAssumption, NumberAssumption and NameAssumption are the assumptions of
`RouteManager`. Further hypotheses are named in each theorem:

- `SameSize`: restarts exclude equally many networks (finding 2 otherwise);
- `BelowMain`: the first preference is not the last accepted one (finding 1 otherwise);
- `SameRoutes`: restarts manage the same routes (finding 3 otherwise);
- `OwnTable`: the gateway table is not the local, main or default one. `excludeNetworks`
  admits 253 and 254, with which `removeRoutes` would empty a table of the host.

| Theorem | Statement | Hypotheses |
|---|---|---|
| `TypeCorrect` | `Spec => []TypeOK` | |
| `RulesInductive` | `Spec => []IInv` | SameSize, BelowMain |
| `ExclusionHolds` | `Spec => []ExcludedBypass` | SameSize, BelowMain, OwnTable |
| `DiversionHolds` | `Spec => []OthersDiverted` | SameSize, BelowMain |
| `HostStaysReachable` | `Spec => []HostReachable` | SameSize, BelowMain |
| `ExclusionNeverLost` | `Spec => NoNewDiversion` | SameSize, BelowMain, OwnTable |
| `Atomicity` | `Spec => AtomicDiversion`, the refinement | SameSize, BelowMain, OwnTable |
| `CloseRestores` | `Spec => []CleanExit` | SameSize, BelowMain, OwnTable |
| `UpdatesApply` | `Spec => []RoutesApplied` | |
| `ActiveGatewaysOnly` | `Spec => []OnlyActiveGateways` | SameRoutes, OwnTable |
| `RoutesNeverWithdrawn` | `Spec => NoGap` | |
| `ReachesStep` | the recursive lookup satisfies its own equation | |
| `ContractImplemented` | `Spec => RouteContract`, the refinement of ActiveRoutes | SameRoutes, OwnTable |
| `JumpedOver`, `NotJumpedOver` | preferences inside a jump are skipped, others are met | |

`ReachesStep`, `JumpedOver` and `NotJumpedOver` are about PolicyRouting alone.

About the updater, the process and the provider:

| Module, theorem | Statement | Hypotheses |
|---|---|---|
| `DDNSUpdaterProofs`, `TypeCorrect` | `Spec => []TypeOK` | FaultAssumption |
| `DDNSUpdaterProofs`, `LastKnown` | `Spec => []LastIsKnown` | FaultAssumption |
| `DDNSUpdaterProofs`, `IdleCurrent` | `Spec => []IdleIsCurrent` | FaultAssumption |
| `AppProofs`, `TypeCorrect` | `Spec => []TypeOK` | RequireIP is a truth value |
| `AppProofs`, `CyclesAgree` | `Spec => []CycleAgrees` | |
| `AppProofs`, `RoutesComeFirst` | `Spec => RoutesBeforeDNS` | |
| `DynuDNSProofs`, `TypeCorrect` | `Spec => []TypeOK` | |
| `DynuDNSProofs`, `ContractImplemented` | `Spec => ProviderContract` | DynuAssumption |

About the start and the reduction of networks, for addresses of any width, any command line
and any list of networks:

| Module, theorem | Statement | Hypotheses |
|---|---|---|
| `NetworksProofs`, `Reduction` | `Spec => [](TypeOK /\ CoverageKept /\ ResultSmallest)` | Width is a natural number |
| `NetworksProofs`, `NoFewerNetworks` | no set of networks with the same addresses is smaller than the result | the same |
| `NetworksProofs`, `PassesAdvance` | `Spec => [][Advances]_vars` | the same |
| `StartupProofs`, `Typed` | `Spec => []TypeOK` | StartupAssumption |
| `StartupProofs`, `RangesAreEnumerated` | `Spec => []RangeEnumerated` | StartupAssumption |
| `StartupProofs`, `AcceptedConfigurationsStart` | `Spec => []AcceptedStarts` | StartupAssumption |
| `StartupProofs`, `ManagerCanAssume` | `Spec => []ManagerAssumptions` | StartupAssumption |
| `StartupProofs`, `ReductionKeepsCoverage` | `Spec => []CoverageKept` | StartupAssumption |
| `StartupProofs`, `ReductionIsSmallest` | `Spec => []ResultSmallest` | StartupAssumption |
| `StartupProofs`, `StartAdvances` | `Spec => AlwaysAdvances` | StartupAssumption |

`StartupAssumption` says that an address has at least one bit, that the default route is among
the destinations, and that command lines are records of the types the flags have, with
IPv4 networks to exclude. It puts no bound on the number of networks, the length of a range
or the numbers, times and names that are given.

The argument for the rules. That an excluded destination never meets the gateway rule is not
inductive: it is a fact about a lookup over the whole set of rules. `IInv` replaces it
by facts about single rules:

- `TypeOK`;
- `RulesInv`: the host's rules are there, every other rule is one this configuration
  could have added, for whatever network, no two share a preference, and all lie below
  the main rule;
- `GuardInv`: the gateway rule never stands without the fallthrough rule and a jump at
  each preference before it;
- `PhaseInv`: how far a removal or a set-up has come, by `pc` and `slot`; while the
  program serves, each jump is that of the configured network.

It holds because the gateway rule is deleted first and added last. Lookups enter in a
second stage. `RouteManagerLookups` shows that the recursive definition has a solution
(the least set of preferences closed under a lookup's steps), that what lies within a
jump that is taken is skipped, and that what no jump leads over is met. Where one would
argue by induction over preferences it takes the least or the greatest one of a set, as
the library's induction theorems are out of the provers' reach. Then it
derives from these and `IInv` what each lookup consults, and from that the refinement:
the step that adds the gateway rule maps to `Divert`, the one that deletes it to
`Restore`, everything else stutters. `RouteManagerRoutes` adds an invariant for the
tables (`TablesInv`: the host's routes stay, the rest is in the gateway table), one for
the progress of `UpdateRoutes` (`UpdateInv`) and one for what may be in the gateway
table (`OwnRoutes`).

The refinement of ActiveRoutes adds to these `NothingAsked`, that a manager not yet serving
wants no gateways. The core of the refinement is that replacing one route neither adds a gateway
that is not wanted nor takes away one that is (`ReplaceMoves`), and that when all routes
are replaced only the wanted gateways are left (`ReplacedAll`), which is false when an
earlier process managed other routes, hence `SameRoutes`.

The updater. `IdleIsCurrent` speaks of the end of an update, so its invariant has to say
how far one is (`Progress`): while nothing misled it, the gateways still to be asked are
among the scheduled ones and the addresses collected are those of the others.

The process. `InCycle` says what is done of a cycle by the time `Run` is at a certain
point: the routes lead to the active gateways once the records are being scheduled, and
the updater has been told once `Run` is back at its select. Every step of the updater
leaves what it was told alone (`NextKept`).

The provider. `PendingInv` holds whatever happens: no request of this update undoes what
was asked for, since an identifier is not handed out while a deletion of it is under way.
`DifferenceInv` holds until the first failure, if the records were intact when they were
listed: what is under way is exactly the difference between the records and the addresses
asked for. With nothing under way the difference is empty, and that is success.

The reduction. `CoverageKept` is nearly inductive: a merge replaces two networks by one with
the same addresses (`HalvesCover`), and what is removed is within another network. `IInv` adds
what each pass has achieved: no network twice after the removal of duplicates (`Distinct`);
none within another after that of subsets, neither in what is merged nor in what is still to
be (`Apart`, kept because a network apart from both halves is apart from the whole,
`HalvesApart`); how long the output is, and, while nothing is merged, that nothing could have
been (`Counted`). So the end of the loop is the end of all merging (`Finished`). The rest is
a fact about networks only, `Absorbed`: if none is within another and no two are halves of
one, every network they cover is within one of them. Otherwise take the longest of them
within such a network; the other half of its parent is covered too, so it is one of them, as
none within it is longer, and the two could have been merged. `NoFewerNetworks` finds in any
other set with these addresses one network for each that is left.

There is no induction in this. Where one would argue by induction the proofs take what is
least or greatest in a set of numbers (`LeastElement`, `GreatestElement`), or compare
cardinalities: in an order of a finite set each place is taken by one element (`PlacesTaken`),
since the number of elements below differs. With it `ArrangedOnce` says that a sort, and a
removal, take each position once. These rest on the library's facts about well-founded
relations and finite sets that have no operator for a parameter.

The start. `Enumerating` is the loop invariant of `GenerateGateways`: the gateways so far
are the addresses from the start of the range up to the one the loop is at, which is not
past the end. It holds because `IncrementIP` answers the next address, with none in between
(`NextAddress`), and fails at the last one only. `Accepted` remembers what `Validate` found,
which `NewUpdater` and `monitor.New` rely on much later. For the reduction, whose variables
and steps are the start's, `StartupProofs` uses the invariant and the lemmas of `NetworksProofs`
(`NP == INSTANCE NetworksProofs`). `ParseFlags`, when it adds the reserved networks, begins
the call anew, in the only states in which nothing of it has been done (`Beginnings`).

Only model-checked: liveness, that is `AcceptedIsApplied`, `DeadGatewayLeaves`,
`LiveGatewayJoins`, `CancelExits` and `StartEnds`. The prover supports neither `ENABLED` nor,
with it, proofs under fairness. The safety half of `StartEnds` is `StartAdvances`: each step is
one to a later stage, to a higher address, to a later pass, to a pass with fewer networks, or
leaves fewer of them to look at, so that a start could only fail to end by standing still.
Every invariant, action property and refinement that a passing run checks is a theorem. What
the violation runs check is false.

## 6. What is left out (not modelled)

- Metrics, logging, the wording of errors; `ConsecutiveFailures`, which only feeds a metric.
  Of `pkg/metrics` only what may fail is modelled.
- HTTP, TLS and JSON: a request succeeds, fails, or fails after it took effect, or before.
- How `FetchPublicIP` reads an address in its answer, and how addresses are spelled; the
  parts of a configuration that are only passed on.
- The syntax of flags (Go's flag package), and IPv6 networks to exclude.
- Values of time: a TTL of less than a second, which is sent as 0; a timeout of 0.
- Memory: the deferred `cancel` in `Run`'s endless loop keeps each update's timer until
  `Run` returns. No state of the models shows it.
- A `Provider` that is nil, with which the updater does nothing; in DDNSUpdater, records that
  are not intact (DynuDNS and Provider have them).
- The records after the process exited: no property is stated of them.
- Rules and routes of other programs in the ranges this one uses; a reboot, which
  brings the kernel back to `Init`.
- IPv6 routes, as in the program; the other attributes of routes (metrics, scopes).
- `pkg/iputil`'s netlink handle: an interface whose calls are RouteManager's steps.

## 7. The plan

Done, in this order, the most important behaviour first: PolicyRouting and RouteManager
with Diversion; their proofs; DDNSUpdater; GatewayMonitor and App; Networks; Provider and
DynuDNS; Startup, which puts Networks to use; late requests and what becomes of
`Provider` with them; ActiveRoutes between RouteManager and GatewayMonitor; the proofs about
the updater, the process and the provider, and that RouteManager implements ActiveRoutes;
the proofs about the reduction of networks and the start.

What could follow:

1. **DDNSUpdater with records that are not intact**, to say which of its promises survive
   late requests.
2. **App with crashes and restarts of the whole process**, routes and records together;
   today RouteManager and DDNSUpdater each start from what an earlier process left.
3. **The safety half of what is only model-checked**: that an update once begun writes what
   it was told or leaves a doubt, as action properties that need no fairness.
