------------------------------- MODULE Startup -------------------------------
(***************************************************************************)
(* cmd/main.go: run, from the command line to the first check: ParseFlags, *)
(* Validate, NewUpdater, monitor.New with GenerateGateways and             *)
(* NewNetlinkManager, which calls ReduceNetworks, StartMetricsServer, and  *)
(* the monitor's ticker.                                                   *)
(*                                                                         *)
(* Addresses are those of Networks.  A byte of an address is one of their  *)
(* bits: what carries from byte to byte in the code carries from bit to    *)
(* bit here.                                                               *)
(***************************************************************************)
EXTENDS Integers, FiniteSets, SequencesExt

CONSTANTS
    Width,         \* of an IPv4 address
    CommandLines,  \* records [flags |-> ..., exclude |-> the -exclude-cidr networks]
    ReservedCIDRs, \* reservedCIDRs
    Destinations,  \* of routes, the default one among them
    MainPref       \* preference of the host's main rule

VARIABLES
    pc,                                      \* what run does next, or how it ended
    cfg,                                     \* the configuration
    currentIP,                               \* GenerateGateways: the address it is at
    gateways,                                \* GenerateGateways: those so far
    nets, cover, reducing, position, used, out  \* Networks

N == INSTANCE Networks WITH pc <- reducing, i <- position

reduction == <<nets, cover, reducing, position, used, out>>
vars == <<pc, cfg, currentIP, gateways, reduction>>

\* net.IP, one of family 0 not set.
IP == [family : {0, 4, 6}, bits : N!Addresses]

Config ==
    [start : IP, end : IP, period : Int, timeout : Int,
     provider : STRING, password : BOOLEAN, envPassword : BOOLEAN, hostname : BOOLEAN,
     ddnsTimeout : Int, ddnsTTL : Int, requireIP : IP,
     username : BOOLEAN, secret : BOOLEAN, envSecret : BOOLEAN,
     wellFormed : BOOLEAN,  \* ports, schemes and the log level
     reserved : BOOLEAN, routes : SUBSET Destinations, table : Int, pref : Int]

ASSUME StartupAssumption ==
    /\ Width \in Nat \ {0}
    /\ MainPref \in Nat \ {0}
    /\ "0.0.0.0/0" \in Destinations
    /\ ReservedCIDRs \in Seq(N!AllNets)
    /\ CommandLines \subseteq [flags : Config, exclude : Seq(N!AllNets)]

V4(bits) == [family |-> 4, bits |-> bits]
V6(bits) == [family |-> 6, bits |-> bits]
NoIP == [family |-> 0, bits |-> [k \in 1..Width |-> 0]]

\* False if either is not an IPv4 address; the first byte that differs decides.
IsIPGreater(ip1, ip2) ==
    /\ ip1.family = 4 /\ ip2.family = 4
    /\ N!Precedes(ip2.bits, ip1.bits)

Overflows(ip) == ip.family # 4 \/ \A k \in 1..Width : ip.bits[k] = 1

\* The last bit that does not wrap.
LastZero(ip) == Max({k \in 1..Width : ip.bits[k] = 0})

\* Wrong on purpose: the bytes that wrap are not reset.
IncrementIPWithoutWrap(ip) == [ip EXCEPT !.bits[LastZero(ip)] = 1]

\* The last byte that does not wrap ends the carry.
IncrementIP(ip) ==
    [ip EXCEPT !.bits = [k \in 1..Width |->
        CASE k < LastZero(ip) -> ip.bits[k]
          [] k = LastZero(ip) -> 1
          [] k > LastZero(ip) -> 0]]

\* strings.ToLower, on the names that are tried.
ToLower(name) == IF name = "DynuDNS" THEN "dynudns" ELSE name

ddnsProviders == {"dynudns"}

ValidDDNS(c) ==
    c.provider # "" =>
        /\ ToLower(c.provider) \in ddnsProviders
        /\ c.password /\ c.hostname
        /\ c.ddnsTimeout > 0 /\ c.ddnsTTL > 0

\* A range of one address is accepted whatever its family.
ValidRange(c) ==
    /\ c.start.family # 0 /\ c.end.family # 0
    /\ c.start = c.end \/ ~IsIPGreater(c.start, c.end)

Validate(c) ==
    /\ ValidRange(c)
    /\ c.period >= c.timeout
    /\ c.wellFormed
    /\ ValidDDNS(c)
    /\ c.requireIP.family \in {0, 4}
    /\ c.username <=> c.secret

Init ==
    /\ pc = "parsing"
    /\ \E line \in CommandLines : cfg = line.flags /\ N!Begins(line.exclude)
    /\ currentIP = NoIP
    /\ gateways = <<>>

\* Passwords may come from the environment; without a route there is the default.
ParseFlags ==
    /\ pc = "parsing"
    /\ cfg' = [cfg EXCEPT !.password = @ \/ (cfg.provider # "" /\ cfg.envPassword),
                          !.secret = @ \/ cfg.envSecret,
                          !.routes = IF @ = {} THEN {"0.0.0.0/0"} ELSE @]
    /\ nets' = IF cfg.reserved THEN nets \o ReservedCIDRs ELSE nets
    /\ cover' = N!AddressesOf(ToSet(nets'))
    /\ pc' = "validating"
    /\ UNCHANGED <<currentIP, gateways, reducing, position, used, out>>

ValidateConfig ==
    /\ pc = "validating"
    /\ pc' = IF Validate(cfg) THEN "metrics" ELSE "refused"
    /\ UNCHANGED <<cfg, currentIP, gateways, reduction>>

\* metrics.New: a metric may be registered already.
NewMetrics ==
    /\ pc = "metrics"
    /\ pc' \in {"updater", "noMetrics"}
    /\ UNCHANGED <<cfg, currentIP, gateways, reduction>>

\* Wrong on purpose: names are compared as they are written.
NewProviderAsWritten(name) == name = "dynudns"

\* NewProvider: whether there is one of that name.
NewProvider(name) == ToLower(name) = "dynudns"

\* A provider is made only if one is named.
NewUpdater ==
    /\ pc = "updater"
    /\ pc' = IF cfg.provider # "" /\ ~NewProvider(cfg.provider)
             THEN "noUpdater" ELSE "generating"
    /\ currentIP' = cfg.start
    /\ UNCHANGED <<cfg, gateways, reduction>>

\* One turn of GenerateGateways' loop.
GenerateGateways ==
    /\ pc = "generating"
    /\ gateways' = Append(gateways, currentIP)
    /\ \/ currentIP = cfg.end /\ pc' = "tables" /\ UNCHANGED currentIP
       \/ currentIP # cfg.end /\ Overflows(currentIP)
          /\ pc' = "noGateways" /\ UNCHANGED currentIP
       \/ currentIP # cfg.end /\ ~Overflows(currentIP)
          /\ currentIP' = IncrementIP(currentIP)
          /\ pc' = IF IsIPGreater(currentIP', cfg.end) THEN "tables" ELSE "generating"
    /\ UNCHANGED <<cfg, reduction>>

\* excludeNetworks: the tables' numbers, the networks, the rules' preferences.
CheckTables ==
    /\ pc = "tables"
    /\ pc' = IF cfg.table >= 1 /\ cfg.table <= 255 - 1 THEN "reducing" ELSE "noTables"
    /\ UNCHANGED <<cfg, currentIP, gateways, reduction>>

ReduceNetworks ==
    /\ pc = "reducing"
    /\ N!Next
    /\ UNCHANGED <<pc, cfg, currentIP, gateways>>

\* Wrong on purpose: room for the two table rules only.
RoomForTableRules(c) == c.pref >= 1 /\ c.pref <= MainPref - 2 + 1

RoomForRules(c) == c.pref >= 1 /\ c.pref <= MainPref - (Len(nets) + 2) + 1

CheckPreferences ==
    /\ pc = "reducing"
    /\ reducing = "done"
    /\ pc' = IF RoomForRules(cfg) THEN "rules" ELSE "noPreferences"
    /\ UNCHANGED <<cfg, currentIP, gateways, reduction>>

\* addRules: see RouteManager.
AddRules ==
    /\ pc = "rules"
    /\ pc' \in {"monitor", "noRules"}
    /\ UNCHANGED <<cfg, currentIP, gateways, reduction>>

\* monitor.New makes a provider of its own, only to log its name; if it could
\* not, the rules would stay.
NewMonitor ==
    /\ pc = "monitor"
    /\ pc' = IF cfg.provider # "" /\ ~NewProvider(cfg.provider)
             THEN "noMonitor" ELSE "server"
    /\ UNCHANGED <<cfg, currentIP, gateways, reduction>>

StartMetricsServer ==
    /\ pc = "server"
    /\ pc' \in {"ticker", "noServer"}
    /\ UNCHANGED <<cfg, currentIP, gateways, reduction>>

\* The first thing the monitor's Run does; time.NewTicker wants a positive time.
NewTicker ==
    /\ pc = "ticker"
    /\ pc' = IF cfg.period > 0 THEN "running" ELSE "panicked"
    /\ UNCHANGED <<cfg, currentIP, gateways, reduction>>

Next ==
    \/ ParseFlags \/ ValidateConfig \/ NewMetrics \/ NewUpdater
    \/ GenerateGateways
    \/ CheckTables \/ ReduceNetworks \/ CheckPreferences
    \/ AddRules \/ NewMonitor \/ StartMetricsServer \/ NewTicker

Spec == Init /\ [][Next]_vars

\* A sequential program takes its steps.
FairSpec == Spec /\ WF_vars(Next)
-----------------------------------------------------------------------------

Outcomes == {"refused", "noMetrics", "noUpdater", "noGateways", "noTables",
             "noPreferences", "noRules", "noMonitor", "noServer", "panicked",
             "running"}

TypeOK ==
    /\ pc \in {"parsing", "validating", "metrics", "updater", "generating", "tables",
               "reducing", "rules", "monitor", "server", "ticker"} \cup Outcomes
    /\ cfg \in Config
    /\ currentIP \in IP /\ gateways \in Seq(IP)
    /\ N!TypeOK

Within(a, first, last) == ~N!Precedes(a, first) /\ ~N!Precedes(last, a)

\* With an IPv4 start GenerateGateways answers every address up to the end, each
\* once and in order, across carries and at the end of the address space; with
\* an end of another family it walks to the last address there is.  The updater
\* takes gateways to be "uniquely identified by their IP".
RangeEnumerated ==
    LET first == cfg.start.bits
        last == IF cfg.end.family = 4 THEN cfg.end.bits ELSE [k \in 1..Width |-> 1]
    IN  cfg.start.family = 4 /\ gateways # <<>> /\ pc # "generating" =>
            /\ {gateways[k].bits : k \in DOMAIN gateways}
                   = {a \in N!Addresses : Within(a, first, last)}
            /\ \A k \in 1..(Len(gateways) - 1) :
                   IsIPGreater(gateways[k + 1], gateways[k])

\* Whatever Validate accepts can start, but for what NewNetlinkManager itself
\* checks and what the host refuses, with two exceptions: a range that is not
\* IPv4 at both ends, and a check period that is not positive.
AcceptedStarts ==
    /\ pc \notin {"noUpdater", "noMonitor"}
    /\ pc = "noGateways" => {cfg.start.family, cfg.end.family} # {4}
    /\ pc = "panicked" => cfg.period <= 0

\* What RouteManager takes for granted of its configurations: the networks are
\* disjoint, there is a route to manage, and the rules, one per network that is
\* left and two for the tables, do not get past the main rule's preference (which
\* the last one may take: see RouteManager's HostReachable).
ManagerAssumptions ==
    pc = "rules" =>
        /\ \A j, k \in DOMAIN nets :
               j # k => N!AddressesOf({nets[j]}) \cap N!AddressesOf({nets[k]}) = {}
        /\ cfg.routes # {}
        /\ cfg.pref >= 1 /\ cfg.pref + Len(nets) + 1 <= MainPref

CoverageKept == N!CoverageKept

ResultSmallest == N!ResultSmallest

Stage ==
    [parsing |-> 1, validating |-> 2, metrics |-> 3, updater |-> 4, generating |-> 5,
     tables |-> 6, reducing |-> 7, rules |-> 8, monitor |-> 9, server |-> 10, ticker |-> 11]

\* A later stage, or another turn of a loop that gets on: GenerateGateways is at a
\* higher address, of which there is a last one; see Networks for ReduceNetworks.
Advances ==
    \/ pc \notin Outcomes /\ pc' \in Outcomes
    \/ {pc, pc'} \subseteq DOMAIN Stage /\ Stage[pc'] > Stage[pc]
    \/ pc = "generating" /\ pc' = pc /\ N!Precedes(currentIP.bits, currentIP'.bits)
    \/ pc = "reducing" /\ pc' = pc /\ N!Advances

\* No step of the start leads back, and none of its loops goes round in vain.
AlwaysAdvances == [][Advances]_vars

\* Whatever the command line, with endless ranges and networks to be merged,
\* the start comes to an end.
StartEnds == <>(pc \in Outcomes)
=============================================================================
