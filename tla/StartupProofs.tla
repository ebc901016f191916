---------------------------- MODULE StartupProofs ----------------------------
(***************************************************************************)
(* What a start does with any command line, for addresses of any width.    *)
(***************************************************************************)
EXTENDS Startup, TLAPS

\* What is known of ReduceNetworks.
NP == INSTANCE NetworksProofs WITH pc <- reducing, i <- position

(* The networks of Startup are those of NetworksProofs. *)
LEMMA SameNetworks ==
    /\ N!Next <=> NP!Next
    /\ N!TypeOK <=> NP!TypeOK
    /\ N!CoverageKept <=> NP!CoverageKept
    /\ N!ResultSmallest <=> NP!ResultSmallest
    /\ N!Advances <=> NP!Advances
    /\ N!AllNets = NP!AllNets /\ N!Addresses = NP!Addresses
    /\ \A s : N!Begins(s) <=> NP!Begins(s)
    /\ \A ps : N!AddressesOf(ps) = NP!AddressesOf(ps)
    /\ \A a, b : N!Precedes(a, b) <=> NP!Precedes(a, b)
    /\ \A p, q : N!IsSubnetOf(p, q) <=> NP!IsSubnetOf(p, q)
    /\ \A s : ToSet(s) = NP!ToSet(s)
<1> USE DEF N!AllNets, NP!AllNets, N!Addresses, NP!Addresses, N!Bit, NP!Bit,
        N!IsSubnetOf, NP!IsSubnetOf, N!IsPrefix, NP!IsPrefix,
        N!AddressesOf, NP!AddressesOf, N!ToSet, NP!ToSet, ToSet
<1>1. N!ReturnEarly <=> NP!ReturnEarly
    BY DEF N!ReturnEarly, NP!ReturnEarly
<1>2. N!SortNetworks <=> NP!SortNetworks
    BY DEF N!SortNetworks, NP!SortNetworks, N!Sorted, NP!Sorted,
       N!Arranged, NP!Arranged, N!Cardinality, NP!Cardinality,
       N!Before, NP!Before, N!Precedes, NP!Precedes, N!FirstAddress, NP!FirstAddress
<1>3. N!RemoveDuplicateNetworks <=> NP!RemoveDuplicateNetworks
    BY DEF N!RemoveDuplicateNetworks, NP!RemoveDuplicateNetworks,
       N!WithoutDuplicates, NP!WithoutDuplicates, N!At, NP!At,
       N!Arranged, NP!Arranged, N!Cardinality, NP!Cardinality
<1>4. N!RemoveSubsetNetworks <=> NP!RemoveSubsetNetworks
    BY DEF N!RemoveSubsetNetworks, NP!RemoveSubsetNetworks,
       N!WithoutSubsets, NP!WithoutSubsets, N!At, NP!At,
       N!Arranged, NP!Arranged, N!Cardinality, NP!Cardinality
<1>5. N!MergeNext <=> NP!MergeNext
    BY DEF N!MergeNext, NP!MergeNext, N!Mates, NP!Mates, N!Mergeable, NP!Mergeable,
       N!Front, NP!Front, N!Last, NP!Last, N!Min, NP!Min
<1>6. N!MergeSkip <=> NP!MergeSkip
    BY DEF N!MergeSkip, NP!MergeSkip
<1>7. N!PassEnds <=> NP!PassEnds
    BY DEF N!PassEnds, NP!PassEnds, N!Sorted, NP!Sorted,
       N!Arranged, NP!Arranged, N!Cardinality, NP!Cardinality,
       N!Before, NP!Before, N!Precedes, NP!Precedes, N!FirstAddress, NP!FirstAddress
<1>8. N!Next <=> NP!Next
    BY <1>1, <1>2, <1>3, <1>4, <1>5, <1>6, <1>7 DEF N!Next, NP!Next
<1>9. N!TypeOK <=> NP!TypeOK
    BY DEF N!TypeOK, NP!TypeOK
<1>10. N!CoverageKept <=> NP!CoverageKept
    BY DEF N!CoverageKept, NP!CoverageKept, N!Rest, NP!Rest
<1>11. N!ResultSmallest <=> NP!ResultSmallest
    BY DEF N!ResultSmallest, NP!ResultSmallest, N!Maximal, NP!Maximal,
       N!Cardinality, NP!Cardinality
<1>12. \A s : N!Begins(s) <=> NP!Begins(s)
    BY DEF N!Begins, NP!Begins
<1>13. \A a, b : N!Precedes(a, b) <=> NP!Precedes(a, b)
    BY DEF N!Precedes, NP!Precedes
<1>14. /\ N!AllNets = NP!AllNets /\ N!Addresses = NP!Addresses
       /\ \A ps : N!AddressesOf(ps) = NP!AddressesOf(ps)
       /\ \A p, q : N!IsSubnetOf(p, q) <=> NP!IsSubnetOf(p, q)
       /\ \A s : ToSet(s) = NP!ToSet(s)
    OBVIOUS
<1> HIDE DEF N!AllNets, NP!AllNets, N!Addresses, NP!Addresses, N!Bit, NP!Bit,
        N!IsSubnetOf, NP!IsSubnetOf, N!IsPrefix, NP!IsPrefix,
        N!AddressesOf, NP!AddressesOf, N!ToSet, NP!ToSet, ToSet
<1>15. N!Advances <=> NP!Advances
    BY DEF N!Advances, NP!Advances, N!Pass, NP!Pass
<1>16. QED
    BY <1>8, <1>9, <1>10, <1>11, <1>12, <1>13, <1>14, <1>15

(* A step that leaves the reduction alone keeps what is known of it. *)
LEMMA ReductionUnchanged ==
    ASSUME NP!IInv, UNCHANGED reduction
    PROVE  NP!IInv'
BY DEF reduction, NP!IInv, NP!TypeOK, NP!CoverageKept, NP!Rest, NP!AddressesOf, NP!Idle,
   NP!Distinct, NP!Apart, NP!Pending, NP!Antichain, NP!Counted, NP!Finished

(* Whatever networks a call begins with. *)
LEMMA Beginning == nets \in Seq(N!AllNets) /\ N!Begins(nets) => NP!IInv
<1>1. Width \in Nat
    BY StartupAssumption
<1>2. QED
    BY <1>1, SameNetworks, NP!BeginsHolds
-----------------------------------------------------------------------------

(* Addresses are in a total order, with a last one. *)
LEMMA Order ==
    /\ \A a \in N!Addresses : ~N!Precedes(a, a)
    /\ \A a, b \in N!Addresses : a # b => N!Precedes(a, b) \/ N!Precedes(b, a)
    /\ \A a, b, c \in N!Addresses :
           N!Precedes(a, b) /\ N!Precedes(b, c) => N!Precedes(a, c)
<1>1. Width \in Nat
    BY StartupAssumption
<1>2. /\ \A a \in NP!Addresses : ~NP!Precedes(a, a)
      /\ \A a, b \in NP!Addresses : a # b => NP!Precedes(a, b) \/ NP!Precedes(b, a)
      /\ \A a, b, c \in NP!Addresses :
             NP!Precedes(a, b) /\ NP!Precedes(b, c) => NP!Precedes(a, c)
    BY <1>1, NP!AddressOrder
<1>3. QED
    BY <1>2, SameNetworks

AllOnes == [k \in 1..Width |-> 1]

LEMMA LastAddress ==
    /\ AllOnes \in N!Addresses
    /\ \A a \in N!Addresses : ~N!Precedes(AllOnes, a)
    /\ \A ip \in IP : ip.family = 4 /\ Overflows(ip) => ip.bits = AllOnes
<1>1. AllOnes \in N!Addresses
    BY DEF AllOnes, N!Addresses, N!Bit
<1>2. ASSUME NEW a \in N!Addresses
      PROVE  ~N!Precedes(AllOnes, a)
    <2>1. \A k \in 1..Width : a[k] \in {0, 1} /\ AllOnes[k] = 1
        BY DEF AllOnes, N!Addresses, N!Bit
    <2>2. \A k \in 1..Width : ~(AllOnes[k] < a[k])
        BY <2>1
    <2>3. QED
        BY <2>2 DEF N!Precedes
<1>3. ASSUME NEW ip \in IP, ip.family = 4, Overflows(ip)
      PROVE  ip.bits = AllOnes
    <2>1. ip.bits \in [1..Width -> {0, 1}] /\ \A k \in 1..Width : ip.bits[k] = 1
        BY <1>3 DEF IP, Overflows, N!Addresses, N!Bit
    <2>2. QED
        BY <2>1 DEF AllOnes
<1>4. QED
    BY <1>1, <1>2, <1>3

LEMMA LastZeroIsLast ==
    ASSUME NEW ip \in IP, ip.family = 4, ~Overflows(ip)
    PROVE  /\ LastZero(ip) \in 1..Width /\ ip.bits[LastZero(ip)] = 0
           /\ \A k \in 1..Width : LastZero(ip) < k => ip.bits[k] = 1
<1> DEFINE Z == {k \in 1..Width : ip.bits[k] = 0}
<1>1. Width \in Nat
    BY StartupAssumption
<1>2. \A k \in 1..Width : ip.bits[k] \in {0, 1}
    BY DEF IP, N!Addresses, N!Bit
<1>3. Z \in SUBSET Nat /\ Z # {} /\ \A n \in Z : n <= Width
    BY <1>1, <1>2 DEF Overflows
<1>4. \E n \in Z : \A m \in Z : m <= n
    BY <1>1, <1>3, NP!GreatestElement
<1>5. \E n \in Z : \A m \in Z : n >= m
    BY <1>3, <1>4
<1>6. LastZero(ip) = CHOOSE n \in Z : \A m \in Z : n >= m
    BY DEF LastZero, Max
<1>7. LastZero(ip) \in Z /\ \A m \in Z : LastZero(ip) >= m
    BY <1>5, <1>6
<1>8. QED
    BY <1>1, <1>2, <1>7

(* IncrementIP answers the next address: none is between the two. *)
LEMMA NextAddress ==
    ASSUME NEW ip \in IP, ip.family = 4, ~Overflows(ip)
    PROVE  /\ IncrementIP(ip) \in IP /\ IncrementIP(ip).family = 4
           /\ N!Precedes(ip.bits, IncrementIP(ip).bits)
           /\ \A b \in N!Addresses : N!Precedes(ip.bits, b) =>
                  b = IncrementIP(ip).bits \/ N!Precedes(IncrementIP(ip).bits, b)
<1> DEFINE a == ip.bits
           z == LastZero(ip)
           c == [k \in 1..Width |-> CASE k < z -> a[k] [] k = z -> 1 [] k > z -> 0]
<1>1. /\ Width \in Nat /\ z \in 1..Width /\ a[z] = 0
      /\ \A k \in 1..Width : z < k => a[k] = 1
    BY StartupAssumption, LastZeroIsLast
<1>2. a \in N!Addresses /\ \A k \in 1..Width : a[k] \in {0, 1}
    BY DEF IP, N!Addresses, N!Bit
<1>3. IncrementIP(ip) = [ip EXCEPT !.bits = c]
    BY DEF IncrementIP
<1> HIDE DEF z
<1>4. \A k \in 1..Width :
          /\ k < z => c[k] = a[k]
          /\ k = z => c[k] = 1
          /\ k > z => c[k] = 0
    BY <1>1
<1>5. c \in N!Addresses
    <2>1. \A k \in 1..Width : c[k] \in {0, 1}
        BY <1>1, <1>2, <1>4
    <2>2. QED
        BY <2>1 DEF N!Addresses, N!Bit
<1> HIDE DEF c, a
<1>6. /\ IncrementIP(ip) \in IP /\ IncrementIP(ip).family = 4
      /\ IncrementIP(ip).bits = c
    BY <1>3, <1>5 DEF IP
<1>7. N!Precedes(a, c)
    <2>1. a[z] < c[z] /\ \A j \in 1..(z - 1) : a[j] = c[j]
        BY <1>1, <1>4
    <2>2. QED
        BY <1>1, <2>1 DEF N!Precedes
<1>8. ASSUME NEW b \in N!Addresses, N!Precedes(a, b)
      PROVE  b = c \/ N!Precedes(c, b)
    <2>1. PICK k \in 1..Width : a[k] < b[k] /\ \A j \in 1..(k - 1) : a[j] = b[j]
        BY <1>8 DEF N!Precedes
    <2>2. \A j \in 1..Width : b[j] \in {0, 1}
        BY DEF N!Addresses, N!Bit
    <2>3. k <= z /\ a[k] = 0 /\ b[k] = 1
        BY <1>1, <1>2, <2>1, <2>2
    <2>4. CASE k < z
        <3>1. c[k] < b[k] /\ \A j \in 1..(k - 1) : c[j] = b[j]
            BY <1>1, <1>4, <2>1, <2>3, <2>4
        <3>2. QED
            BY <3>1 DEF N!Precedes
    <2>5. CASE k = z
        <3>1. \A j \in 1..Width : j <= z => b[j] = c[j]
            BY <1>1, <1>4, <2>1, <2>3, <2>5
        <3>2. \A j \in 1..Width : ~(b[j] < c[j])
            BY <1>1, <1>4, <2>2, <3>1
        <3>3. ~N!Precedes(b, c)
            BY <3>2 DEF N!Precedes
        <3>4. QED
            BY <1>5, <3>3, Order
    <2>6. QED
        BY <1>1, <2>3, <2>4, <2>5
<1>9. QED
    BY <1>6, <1>7, <1>8 DEF a
-----------------------------------------------------------------------------

\* Up to the reduction its variables are those of a call's begin.
Beginnings ==
    pc \in {"parsing", "validating", "metrics", "updater", "generating", "tables"}
        => N!Begins(nets)

\* What has been validated is so.
Accepted ==
    /\ pc # "parsing" => cfg.routes # {}
    /\ pc \notin {"parsing", "validating", "refused"} => ValidRange(cfg) /\ ValidDDNS(cfg)

NoneYet ==
    pc \in {"parsing", "validating", "metrics", "updater",
            "refused", "noMetrics", "noUpdater"} => gateways = <<>>

LastBits == IF cfg.end.family = 4 THEN cfg.end.bits ELSE AllOnes

\* Gateways are the addresses before the one the loop is at.
Enumerating ==
    pc = "generating" /\ cfg.start.family = 4 =>
        /\ currentIP.family = 4
        /\ Within(currentIP.bits, cfg.start.bits, LastBits)
        /\ {gateways[k].bits : k \in DOMAIN gateways}
               = {a \in N!Addresses : ~N!Precedes(a, cfg.start.bits)
                                          /\ N!Precedes(a, currentIP.bits)}
        /\ \A k \in DOMAIN gateways : gateways[k].family = 4
        /\ \A k \in 1..(Len(gateways) - 1) : IsIPGreater(gateways[k + 1], gateways[k])

Inv ==
    /\ TypeOK /\ NP!IInv
    /\ Beginnings /\ Accepted /\ NoneYet /\ Enumerating
    /\ RangeEnumerated /\ AcceptedStarts /\ ManagerAssumptions

LEMMA InitHolds == Init => Inv
<1> SUFFICES ASSUME Init
             PROVE  Inv
    OBVIOUS
<1>1. PICK line \in CommandLines : cfg = line.flags /\ N!Begins(line.exclude)
    BY DEF Init
<1>2. line \in [flags : Config, exclude : Seq(N!AllNets)]
    BY StartupAssumption
<1>3. cfg \in Config /\ nets \in Seq(N!AllNets) /\ N!Begins(nets)
    BY <1>1, <1>2 DEF N!Begins
<1>4. NP!IInv
    BY <1>3, Beginning
<1>5. N!TypeOK
    BY <1>4, SameNetworks DEF NP!IInv
<1>6. currentIP \in IP
    BY StartupAssumption DEF Init, NoIP, IP, N!Addresses, N!Bit
<1>7. TypeOK
    BY <1>3, <1>5, <1>6 DEF Init, TypeOK
<1>8. QED
    BY <1>3, <1>4, <1>7 DEF Init, Inv, Beginnings, Accepted, NoneYet, Enumerating,
       RangeEnumerated, AcceptedStarts, ManagerAssumptions

LEMMA ParseFlagsKeeps ==
    ASSUME Inv, ParseFlags
    PROVE  Inv'
<1>1. cfg \in Config /\ nets \in Seq(N!AllNets) /\ N!Begins(nets) /\ gateways = <<>>
    BY DEF Inv, TypeOK, N!TypeOK, Beginnings, NoneYet, ParseFlags
<1>2. pc' = "validating" /\ gateways' = <<>> /\ currentIP' = currentIP
    BY <1>1 DEF ParseFlags
<1>3. nets' \in Seq(N!AllNets)
    BY <1>1, StartupAssumption DEF ParseFlags
<1>4. cfg' \in Config /\ cfg'.routes # {}
    <2> DEFINE p == cfg.password \/ (cfg.provider # "" /\ cfg.envPassword)
               q == cfg.secret \/ cfg.envSecret
               r == IF cfg.routes = {} THEN {"0.0.0.0/0"} ELSE cfg.routes
    <2>1. cfg' = [cfg EXCEPT !.password = p, !.secret = q, !.routes = r]
        BY DEF ParseFlags
    <2>2. p \in BOOLEAN /\ q \in BOOLEAN
        BY Zenon
    <2>3. r \in SUBSET Destinations /\ r # {}
        BY <1>1, StartupAssumption DEF Config
    <2> HIDE DEF p, q, r
    <2>4. QED
        BY <1>1, <2>1, <2>2, <2>3 DEF Config
<1>5. N!Begins(nets)'
    BY <1>1 DEF ParseFlags, N!Begins, N!AddressesOf, N!ToSet, ToSet
<1>6. NP!IInv'
    <2>1. (nets \in Seq(N!AllNets) /\ N!Begins(nets) => NP!IInv)'
        BY Beginning, PTL
    <2>2. QED
        BY <1>3, <1>5, <2>1 DEF N!AllNets
<1>7. N!TypeOK'
    <2>1. (N!TypeOK <=> NP!TypeOK)'
        BY SameNetworks, PTL
    <2>2. QED
        BY <1>6, <2>1 DEF NP!IInv
<1>8. TypeOK'
    BY <1>2, <1>4, <1>7 DEF TypeOK, Inv, IP
<1>9. QED
    BY <1>2, <1>4, <1>5, <1>6, <1>8 DEF Inv, Beginnings, Accepted, NoneYet, Enumerating,
       RangeEnumerated, AcceptedStarts, ManagerAssumptions

LEMMA ReductionKept ==
    ASSUME NP!IInv, UNCHANGED reduction
    PROVE  NP!IInv' /\ N!TypeOK'
<1>1. NP!IInv'
    BY ReductionUnchanged
<1>2. (N!TypeOK <=> NP!TypeOK)'
    BY SameNetworks, PTL
<1>3. QED
    BY <1>1, <1>2 DEF NP!IInv

\* A step that leaves all but pc alone, outside the loop of GenerateGateways.
PcOnly ==
    /\ UNCHANGED <<cfg, currentIP, gateways, reduction>>
    /\ pc # "generating" /\ pc' # "generating"

(* Such a step keeps what is known of the data. *)
LEMMA PcOnlyKeeps ==
    ASSUME Inv, PcOnly,
           pc' \in {"parsing", "validating", "metrics", "updater", "tables", "reducing",
                    "rules", "monitor", "server", "ticker"} \cup Outcomes
    PROVE  /\ TypeOK' /\ NP!IInv' /\ Enumerating' /\ RangeEnumerated'
           /\ Beginnings /\ (N!Begins(nets)' <=> N!Begins(nets))
<1>1. NP!IInv' /\ N!TypeOK'
    BY ReductionKept DEF Inv, PcOnly
<1>2. TypeOK'
    BY <1>1 DEF TypeOK, Inv, PcOnly, IP, N!Addresses
<1>3. Enumerating'
    BY DEF Enumerating, PcOnly
<1>4. RangeEnumerated'
    BY DEF RangeEnumerated, Inv, PcOnly
<1>5. N!Begins(nets)' <=> N!Begins(nets)
    BY DEF N!Begins, PcOnly, reduction, N!AddressesOf
<1>6. Beginnings
    BY DEF Inv
<1>7. QED
    BY <1>1, <1>2, <1>3, <1>4, <1>5, <1>6

LEMMA ValidateConfigKeeps ==
    ASSUME Inv, ValidateConfig
    PROVE  Inv'
<1>1. PcOnly /\ pc' \in {"metrics", "refused"} /\ cfg' = cfg /\ gateways' = gateways
    BY DEF ValidateConfig, PcOnly
<1>2. /\ TypeOK' /\ NP!IInv' /\ Enumerating' /\ RangeEnumerated'
      /\ Beginnings /\ (N!Begins(nets)' <=> N!Begins(nets))
    BY <1>1, PcOnlyKeeps DEF Outcomes
<1>3. Accepted'
    <2>1. cfg.routes # {}
        BY DEF Inv, Accepted, ValidateConfig
    <2>2. pc' = "metrics" => ValidRange(cfg) /\ ValidDDNS(cfg)
        BY DEF ValidateConfig, Validate
    <2>3. QED
        BY <1>1, <2>1, <2>2 DEF Accepted, ValidRange, ValidDDNS
<1>4. NoneYet' /\ Beginnings'
    BY <1>1, <1>2 DEF Inv, NoneYet, ValidateConfig, Beginnings
<1>5. AcceptedStarts' /\ ManagerAssumptions'
    BY <1>1 DEF AcceptedStarts, ManagerAssumptions
<1>6. QED
    BY <1>2, <1>3, <1>4, <1>5 DEF Inv

LEMMA NewMetricsKeeps ==
    ASSUME Inv, NewMetrics
    PROVE  Inv'
<1>1. PcOnly /\ pc' \in {"updater", "noMetrics"} /\ cfg' = cfg /\ gateways' = gateways
    BY DEF NewMetrics, PcOnly
<1>2. /\ TypeOK' /\ NP!IInv' /\ Enumerating' /\ RangeEnumerated'
      /\ Beginnings /\ (N!Begins(nets)' <=> N!Begins(nets))
    BY <1>1, PcOnlyKeeps DEF Outcomes
<1>3. Accepted' /\ NoneYet' /\ Beginnings'
    BY <1>1, <1>2 DEF Inv, Accepted, NoneYet, Beginnings, NewMetrics, ValidRange, ValidDDNS
<1>4. AcceptedStarts' /\ ManagerAssumptions'
    BY <1>1 DEF AcceptedStarts, ManagerAssumptions
<1>5. QED
    BY <1>2, <1>3, <1>4 DEF Inv

(* Every provider that is accepted is one there is. *)
LEMMA AcceptedProvider ==
    ASSUME ValidDDNS(cfg), cfg.provider # ""
    PROVE  NewProvider(cfg.provider)
BY DEF ValidDDNS, ddnsProviders, NewProvider

LEMMA NewUpdaterKeeps ==
    ASSUME Inv, NewUpdater
    PROVE  Inv'
<1>1. /\ cfg \in Config /\ gateways = <<>> /\ ValidRange(cfg) /\ ValidDDNS(cfg)
      /\ cfg.routes # {}
    BY DEF Inv, TypeOK, NoneYet, Accepted, NewUpdater
<1>2. /\ pc' = "generating" /\ currentIP' = cfg.start
      /\ cfg' = cfg /\ gateways' = <<>> /\ UNCHANGED reduction
    BY <1>1, AcceptedProvider DEF NewUpdater
<1>3. NP!IInv' /\ N!TypeOK'
    BY <1>2, ReductionKept DEF Inv
<1>4. cfg.start \in IP /\ cfg.end \in IP
    BY <1>1 DEF Config
<1>5. TypeOK'
    BY <1>1, <1>2, <1>3, <1>4 DEF TypeOK, Outcomes, IP, N!Addresses
<1>6. Beginnings'
    BY <1>2 DEF Inv, Beginnings, NewUpdater, N!Begins, reduction, N!AddressesOf
<1>7. ASSUME cfg.start.family = 4
      PROVE  Within(cfg.start.bits, cfg.start.bits, LastBits)
    <2>1. cfg.start.bits \in N!Addresses /\ cfg.end.bits \in N!Addresses
        BY <1>4 DEF IP
    <2>2. cfg.end.family = 4 => ~N!Precedes(cfg.end.bits, cfg.start.bits)
        BY <1>1, <1>7, <2>1, Order DEF ValidRange, IsIPGreater
    <2>3. ~N!Precedes(LastBits, cfg.start.bits)
        BY <2>1, <2>2, LastAddress DEF LastBits
    <2>4. QED
        BY <2>1, <2>3, Order DEF Within
<1>8. Enumerating'
    <2>1. ASSUME cfg.start.family = 4
          PROVE  {gateways'[k].bits : k \in DOMAIN gateways'}
                     = {a \in N!Addresses : ~N!Precedes(a, cfg.start.bits)
                                                /\ N!Precedes(a, cfg.start.bits)}
        BY <1>2
    <2>2. LastBits' = LastBits
        BY <1>2 DEF LastBits, AllOnes
    <2>3. DOMAIN gateways' = {} /\ Len(gateways') = 0
        BY <1>2
    <2>4. QED
        BY <1>2, <1>7, <2>1, <2>2, <2>3 DEF Enumerating, Within, N!Precedes, N!Addresses
<1>9. Accepted' /\ NoneYet'
    BY <1>1, <1>2 DEF Accepted, NoneYet, ValidRange, ValidDDNS
<1>10. RangeEnumerated' /\ AcceptedStarts' /\ ManagerAssumptions'
    BY <1>2 DEF RangeEnumerated, AcceptedStarts, ManagerAssumptions
<1>11. QED
    BY <1>3, <1>5, <1>6, <1>8, <1>9, <1>10 DEF Inv

(* In the order of addresses, none is both before and not. *)
LEMMA OrderCases ==
    ASSUME NEW a \in N!Addresses, NEW b \in N!Addresses
    PROVE  ~N!Precedes(b, a) <=> N!Precedes(a, b) \/ a = b
BY Order

LEMMA GenerateGatewaysKeeps ==
    ASSUME Inv, GenerateGateways
    PROVE  Inv'
<1> DEFINE first == cfg.start.bits
           last == LastBits
           c == currentIP.bits
<1>1. /\ gateways \in Seq(IP) /\ currentIP \in IP /\ cfg \in Config
      /\ cfg.start \in IP /\ cfg.end \in IP
      /\ c \in N!Addresses /\ first \in N!Addresses /\ last \in N!Addresses
    BY LastAddress DEF Inv, TypeOK, Config, IP, LastBits
<1>2. pc = "generating" /\ gateways' = Append(gateways, currentIP)
      /\ cfg' = cfg /\ UNCHANGED reduction
    BY DEF GenerateGateways
<1>3. /\ gateways' \in Seq(IP) /\ gateways' # <<>> /\ Len(gateways) \in Nat
      /\ DOMAIN gateways = 1..Len(gateways)
      /\ DOMAIN gateways' = 1..(Len(gateways) + 1) /\ Len(gateways') = Len(gateways) + 1
      /\ \A k \in 1..Len(gateways) : gateways'[k] = gateways[k]
      /\ gateways'[Len(gateways) + 1] = currentIP
    BY <1>1, <1>2
<1>4. pc' \in {"tables", "noGateways", "generating"}
    BY DEF GenerateGateways
<1>5. currentIP' \in IP
    <2>1. ASSUME ~Overflows(currentIP)
          PROVE  IncrementIP(currentIP) \in IP
        BY <1>1, <2>1, NextAddress DEF Overflows
    <2>2. QED
        BY <1>1, <2>1 DEF GenerateGateways
<1>6. NP!IInv' /\ N!TypeOK'
    BY <1>2, ReductionKept DEF Inv
<1>7. TypeOK'
    BY <1>1, <1>2, <1>3, <1>4, <1>5, <1>6 DEF TypeOK, Outcomes, IP, N!Addresses
<1>8. Beginnings'
    BY <1>2 DEF Inv, Beginnings, N!Begins, reduction, N!AddressesOf
<1>9. Accepted' /\ NoneYet' /\ ManagerAssumptions'
    BY <1>2, <1>4 DEF Inv, Accepted, NoneYet, ManagerAssumptions, ValidRange, ValidDDNS
<1>10. CASE cfg.start.family # 4
    <2>1. Enumerating' /\ RangeEnumerated'
        BY <1>2, <1>10 DEF Enumerating, RangeEnumerated
    <2>2. AcceptedStarts'
        BY <1>2, <1>4, <1>10 DEF AcceptedStarts
    <2>3. QED
        BY <1>6, <1>7, <1>8, <1>9, <2>1, <2>2 DEF Inv
<1>11. CASE cfg.start.family = 4
    <2>1. /\ currentIP.family = 4 /\ ~N!Precedes(c, first) /\ ~N!Precedes(last, c)
          /\ {gateways[k].bits : k \in DOMAIN gateways}
                 = {a \in N!Addresses : ~N!Precedes(a, first) /\ N!Precedes(a, c)}
          /\ \A k \in DOMAIN gateways : gateways[k].family = 4
          /\ \A k \in 1..(Len(gateways) - 1) : IsIPGreater(gateways[k + 1], gateways[k])
        BY <1>2, <1>11 DEF Inv, Enumerating, Within
    <2>2. {gateways'[k].bits : k \in DOMAIN gateways'}
              = {a \in N!Addresses : ~N!Precedes(a, first) /\ (N!Precedes(a, c) \/ a = c)}
        <3>1. DOMAIN gateways' = DOMAIN gateways \cup {Len(gateways) + 1}
            BY <1>3
        <3>2. \A k \in DOMAIN gateways : gateways'[k].bits = gateways[k].bits
            BY <1>3
        <3>3. {gateways'[k].bits : k \in DOMAIN gateways'}
                  = {gateways[k].bits : k \in DOMAIN gateways} \cup {c}
            BY <1>3, <3>1, <3>2
        <3>4. QED
            BY <1>1, <2>1, <3>3
    <2>3. \A k \in DOMAIN gateways' : gateways'[k].family = 4
        BY <1>3, <2>1
    <2>4. ASSUME NEW k \in 1..(Len(gateways') - 1)
          PROVE  IsIPGreater(gateways'[k + 1], gateways'[k])
        <3>1. CASE k + 1 \in 1..Len(gateways)
            BY <1>3, <2>1, <3>1
        <3>2. CASE k = Len(gateways)
            <4>1. k \in DOMAIN gateways /\ gateways'[k] = gateways[k]
                  /\ gateways'[k + 1] = currentIP
                BY <1>3, <3>2
            <4>2. gateways[k].bits \in {a \in N!Addresses :
                      ~N!Precedes(a, first) /\ N!Precedes(a, c)}
                BY <2>1, <4>1
            <4>3. gateways[k].family = 4
                BY <2>1, <4>1
            <4>4. QED
                BY <2>1, <4>1, <4>2, <4>3 DEF IsIPGreater
        <3>3. k \in 1..Len(gateways) /\ (k = Len(gateways) \/ k + 1 \in 1..Len(gateways))
            <4>1. Len(gateways') - 1 = Len(gateways)
                BY <1>3
            <4>2. k \in 1..Len(gateways) /\ Len(gateways) \in Nat
                BY <1>3, <4>1
            <4>3. \A n \in Nat : \A m \in 1..n : m = n \/ m + 1 \in 1..n
                OBVIOUS
            <4>4. QED
                BY <4>2, <4>3
        <3>4. QED
            BY <3>1, <3>2, <3>3
    <2>5. ASSUME last = c
          PROVE  RangeEnumerated'
        <3>1. {a \in N!Addresses : ~N!Precedes(a, first) /\ (N!Precedes(a, c) \/ a = c)}
                  = {a \in N!Addresses : Within(a, first, last)}
            BY <1>1, <2>5, OrderCases DEF Within
        <3>2. {gateways'[k].bits : k \in DOMAIN gateways'}
                  = {a \in N!Addresses : Within(a, first, last)}
            BY <2>2, <3>1
        <3>3. QED
            BY <1>2, <2>4, <3>2 DEF RangeEnumerated, LastBits, AllOnes
    <2>6. ASSUME cfg.end.family = 4, currentIP # cfg.end
          PROVE  N!Precedes(c, last)
        <3>1. last = cfg.end.bits
            BY <2>6 DEF LastBits
        <3>2. c # cfg.end.bits
            BY <1>1, <2>1, <2>6 DEF IP
        <3>3. QED
            BY <1>1, <2>1, <3>1, <3>2, OrderCases
    <2>7. CASE currentIP = cfg.end
        <3>1. pc' = "tables" /\ last = c
            BY <2>1, <2>7 DEF GenerateGateways, LastBits
        <3>2. RangeEnumerated'
            BY <2>5, <3>1
        <3>3. Enumerating' /\ AcceptedStarts'
            BY <3>1 DEF Enumerating, AcceptedStarts
        <3>4. QED
            BY <1>6, <1>7, <1>8, <1>9, <3>2, <3>3 DEF Inv
    <2>8. CASE currentIP # cfg.end /\ Overflows(currentIP)
        <3>1. pc' = "noGateways" /\ c = AllOnes
            BY <1>1, <2>1, <2>8, LastAddress DEF GenerateGateways
        <3>2. cfg.end.family # 4
            BY <1>1, <2>6, <2>8, <3>1, LastAddress
        <3>3. RangeEnumerated'
            BY <2>5, <3>1, <3>2 DEF LastBits
        <3>4. Enumerating' /\ AcceptedStarts'
            BY <1>2, <3>1, <3>2 DEF Enumerating, AcceptedStarts
        <3>5. QED
            BY <1>6, <1>7, <1>8, <1>9, <3>3, <3>4 DEF Inv
    <2>9. CASE currentIP # cfg.end /\ ~Overflows(currentIP)
        <3> DEFINE d == IncrementIP(currentIP).bits
        <3>1. /\ currentIP' = IncrementIP(currentIP) /\ currentIP'.family = 4
              /\ d \in N!Addresses /\ N!Precedes(c, d)
              /\ \A b \in N!Addresses : N!Precedes(c, b) => b = d \/ N!Precedes(d, b)
            BY <1>1, <2>1, <2>9, NextAddress DEF GenerateGateways, IP
        <3> HIDE DEF d
        <3>2. ~N!Precedes(last, d)
            <4>1. CASE cfg.end.family = 4
                BY <1>1, <2>6, <2>9, <3>1, <4>1, OrderCases
            <4>2. CASE cfg.end.family # 4
                BY <3>1, <4>2, LastAddress DEF LastBits
            <4>3. QED
                BY <4>1, <4>2
        <3>3. pc' = "generating"
            <4>1. ~IsIPGreater(currentIP', cfg.end)
                BY <3>1, <3>2 DEF IsIPGreater, LastBits, d
            <4>2. QED
                BY <2>9, <4>1 DEF GenerateGateways
        <3>4. ~N!Precedes(d, first)
            BY <1>1, <2>1, <3>1, Order
        <3>5. \A a \in N!Addresses : N!Precedes(a, d) <=> N!Precedes(a, c) \/ a = c
            BY <1>1, <3>1, Order
        <3>6. {gateways'[k].bits : k \in DOMAIN gateways'}
                  = {a \in N!Addresses : ~N!Precedes(a, first) /\ N!Precedes(a, d)}
            BY <2>2, <3>5
        <3>7. currentIP'.bits = d
            BY <3>1 DEF d
        <3>8. Within(d, first, last)
            BY <3>2, <3>4 DEF Within
        <3>9. Enumerating'
            BY <1>2, <2>3, <2>4, <3>1, <3>6, <3>7, <3>8
               DEF Enumerating, LastBits, AllOnes
        <3>10. RangeEnumerated' /\ AcceptedStarts'
            BY <3>3 DEF RangeEnumerated, AcceptedStarts
        <3>11. QED
            BY <1>6, <1>7, <1>8, <1>9, <3>9, <3>10 DEF Inv
    <2>10. QED
        BY <2>7, <2>8, <2>9
<1>12. QED
    BY <1>10, <1>11

LEMMA CheckTablesKeeps ==
    ASSUME Inv, CheckTables
    PROVE  Inv'
<1>1. PcOnly /\ pc' \in {"reducing", "noTables"} /\ cfg' = cfg /\ gateways' = gateways
    BY DEF CheckTables, PcOnly
<1>2. TypeOK' /\ NP!IInv' /\ Enumerating' /\ RangeEnumerated'
    BY <1>1, PcOnlyKeeps DEF Outcomes
<1>3. Accepted' /\ NoneYet' /\ Beginnings'
    BY <1>1 DEF Inv, Accepted, NoneYet, Beginnings, CheckTables, ValidRange, ValidDDNS
<1>4. AcceptedStarts' /\ ManagerAssumptions'
    BY <1>1 DEF AcceptedStarts, ManagerAssumptions
<1>5. QED
    BY <1>2, <1>3, <1>4 DEF Inv

LEMMA ReduceNetworksKeeps ==
    ASSUME Inv, ReduceNetworks
    PROVE  Inv'
<1>1. NP!IInv'
    <2>1. NP!Next /\ Width \in Nat
        BY SameNetworks, StartupAssumption DEF ReduceNetworks
    <2>2. QED
        BY <2>1, NP!StepKeeps DEF Inv
<1>2. N!TypeOK'
    <2>1. (N!TypeOK <=> NP!TypeOK)'
        BY SameNetworks, PTL
    <2>2. QED
        BY <1>1, <2>1 DEF NP!IInv
<1>3. pc = "reducing" /\ UNCHANGED <<pc, cfg, currentIP, gateways>>
    BY DEF ReduceNetworks
<1>4. TypeOK'
    BY <1>2, <1>3 DEF Inv, TypeOK, IP, N!Addresses
<1>5. RangeEnumerated'
    BY <1>3 DEF Inv, RangeEnumerated, Within
<1>6. QED
    BY <1>1, <1>3, <1>4, <1>5 DEF Inv, Beginnings, Accepted, NoneYet, Enumerating,
       AcceptedStarts, ManagerAssumptions, ValidRange, ValidDDNS

(* Networks that are left are apart. *)
LEMMA LeftApart ==
    ASSUME NP!IInv, reducing = "done"
    PROVE  /\ Len(nets) \in Nat
           /\ \A j, k \in DOMAIN nets :
                  j # k => N!AddressesOf({nets[j]}) \cap N!AddressesOf({nets[k]}) = {}
<1>1. Width \in Nat
    BY StartupAssumption
<1>2. /\ nets \in Seq(NP!AllNets)
      /\ \A j, k \in DOMAIN nets : j # k => ~NP!IsSubnetOf(nets[j], nets[k])
    BY NP!ReducedInTheEnd
<1>3. \A j \in DOMAIN nets : nets[j] \in NP!AllNets /\ Len(nets[j]) \in Nat
    <2>1. \A j \in DOMAIN nets : nets[j] \in NP!AllNets
        BY <1>2
    <2>2. QED
        BY <1>1, <2>1, NP!NetworkShape
<1>4. ASSUME NEW j \in DOMAIN nets, NEW k \in DOMAIN nets, j # k,
             NEW a \in NP!AddressesOf({nets[j]}), a \in NP!AddressesOf({nets[k]})
      PROVE  FALSE
    <2>1. a \in NP!AllNets
        BY <1>1, NP!NetworkShape DEF NP!AddressesOf
    <2>2. NP!IsSubnetOf(a, nets[j]) /\ NP!IsSubnetOf(a, nets[k])
        BY <1>4 DEF NP!AddressesOf
    <2>3. Len(nets[k]) <= Len(nets[j]) \/ Len(nets[j]) <= Len(nets[k])
        BY <1>3
    <2>4. NP!IsSubnetOf(nets[j], nets[k]) \/ NP!IsSubnetOf(nets[k], nets[j])
        BY <1>1, <1>3, <2>1, <2>2, <2>3, NP!SubnetOrder
    <2>5. QED
        BY <1>2, <1>4, <2>4
<1>5. \A ps : N!AddressesOf(ps) = NP!AddressesOf(ps)
    BY SameNetworks
<1>6. \A j, k \in DOMAIN nets :
          j # k => NP!AddressesOf({nets[j]}) \cap NP!AddressesOf({nets[k]}) = {}
    BY <1>4
<1>7. QED
    BY <1>2, <1>5, <1>6

LEMMA CheckPreferencesKeeps ==
    ASSUME Inv, CheckPreferences
    PROVE  Inv'
<1>1. PcOnly /\ pc' \in {"rules", "noPreferences"} /\ cfg' = cfg /\ gateways' = gateways
    BY DEF CheckPreferences, PcOnly
<1>2. TypeOK' /\ NP!IInv' /\ Enumerating' /\ RangeEnumerated'
    BY <1>1, PcOnlyKeeps DEF Outcomes
<1>3. Accepted' /\ NoneYet' /\ Beginnings'
    BY <1>1 DEF Inv, Accepted, NoneYet, Beginnings, CheckPreferences, ValidRange, ValidDDNS
<1>4. ManagerAssumptions'
    <2>1. /\ Len(nets) \in Nat
          /\ \A j, k \in DOMAIN nets :
                 j # k => N!AddressesOf({nets[j]}) \cap N!AddressesOf({nets[k]}) = {}
        BY LeftApart DEF Inv, CheckPreferences
    <2>2. cfg.routes # {}
        BY DEF Inv, Accepted, CheckPreferences
    <2>3. pc' = "rules" => cfg.pref >= 1 /\ cfg.pref + Len(nets) + 1 <= MainPref
        <3>1. cfg.pref \in Int /\ MainPref \in Nat
            BY StartupAssumption DEF Inv, TypeOK, Config
        <3>2. QED
            BY <2>1, <3>1 DEF CheckPreferences, RoomForRules
    <2>4. nets' = nets /\ UNCHANGED reduction
        BY DEF CheckPreferences, reduction
    <2>5. QED
        BY <1>1, <2>1, <2>2, <2>3, <2>4 DEF ManagerAssumptions, N!AddressesOf
<1>5. AcceptedStarts'
    BY <1>1 DEF AcceptedStarts
<1>6. QED
    BY <1>2, <1>3, <1>4, <1>5 DEF Inv

(* The rest of the start: nothing that is validated is refused any more. *)
LEMMA LastStepsKeep ==
    ASSUME Inv, AddRules \/ NewMonitor \/ StartMetricsServer \/ NewTicker
    PROVE  Inv'
<1>1. cfg \in Config /\ ValidDDNS(cfg)
    BY DEF Inv, TypeOK, Accepted, AddRules, NewMonitor, StartMetricsServer, NewTicker
<1>2. /\ PcOnly /\ cfg' = cfg /\ gateways' = gateways
      /\ pc \in {"rules", "monitor", "server", "ticker"}
      /\ pc' \in {"monitor", "noRules", "server", "ticker", "noServer", "running", "panicked"}
    <2>1. CASE AddRules
        BY <2>1 DEF AddRules, PcOnly
    <2>2. CASE NewMonitor
        BY <1>1, <2>2, AcceptedProvider DEF NewMonitor, PcOnly
    <2>3. CASE StartMetricsServer
        BY <2>3 DEF StartMetricsServer, PcOnly
    <2>4. CASE NewTicker
        BY <2>4 DEF NewTicker, PcOnly
    <2>5. QED
        BY <2>1, <2>2, <2>3, <2>4
<1>3. TypeOK' /\ NP!IInv' /\ Enumerating' /\ RangeEnumerated'
    BY <1>2, PcOnlyKeeps DEF Outcomes
<1>4. Accepted' /\ NoneYet' /\ Beginnings'
    BY <1>2 DEF Inv, Accepted, NoneYet, Beginnings, ValidRange, ValidDDNS
<1>5. pc' = "panicked" => cfg.period <= 0
    <2>1. cfg.period \in Int
        BY <1>1 DEF Config
    <2>2. QED
        BY <2>1 DEF AddRules, NewMonitor, StartMetricsServer, NewTicker
<1>6. AcceptedStarts' /\ ManagerAssumptions'
    BY <1>2, <1>5 DEF AcceptedStarts, ManagerAssumptions
<1>7. QED
    BY <1>3, <1>4, <1>6 DEF Inv

LEMMA StutterKeeps ==
    ASSUME Inv, UNCHANGED vars
    PROVE  Inv'
<1>1. UNCHANGED <<pc, cfg, currentIP, gateways>> /\ UNCHANGED reduction
    BY DEF vars
<1>2. NP!IInv' /\ N!TypeOK'
    BY <1>1, ReductionKept DEF Inv
<1>3. TypeOK'
    BY <1>1, <1>2 DEF Inv, TypeOK, IP, N!Addresses
<1>4. Beginnings'
    BY <1>1 DEF Inv, Beginnings, N!Begins, reduction, N!AddressesOf
<1>5. Accepted' /\ NoneYet' /\ AcceptedStarts'
    BY <1>1 DEF Inv, Accepted, NoneYet, AcceptedStarts, ValidRange, ValidDDNS
<1>6. Enumerating' /\ RangeEnumerated'
    BY <1>1 DEF Inv, Enumerating, RangeEnumerated, Within, LastBits, AllOnes
<1>7. ManagerAssumptions'
    BY <1>1 DEF Inv, ManagerAssumptions, reduction, N!AddressesOf
<1>8. QED
    BY <1>2, <1>3, <1>4, <1>5, <1>6, <1>7 DEF Inv

LEMMA InvHolds == Spec => []Inv
<1>1. Inv /\ [Next]_vars => Inv'
    <2>1. ASSUME Inv, Next
          PROVE  Inv'
        BY <2>1, ParseFlagsKeeps, ValidateConfigKeeps, NewMetricsKeeps, NewUpdaterKeeps,
           GenerateGatewaysKeeps, CheckTablesKeeps, ReduceNetworksKeeps,
           CheckPreferencesKeeps, LastStepsKeep DEF Next
    <2>2. QED
        BY <2>1, StutterKeeps
<1>2. QED
    BY <1>1, InitHolds, PTL DEF Spec
-----------------------------------------------------------------------------

(* Whatever the command line, a start keeps to its types. *)
THEOREM Typed == Spec => []TypeOK
<1>1. Inv => TypeOK
    BY DEF Inv
<1>2. QED
    BY <1>1, InvHolds, PTL

(* GenerateGateways answers every address of a range, each once and in order,
   whatever the width of addresses and wherever the range is. *)
THEOREM RangesAreEnumerated == Spec => []RangeEnumerated
<1>1. Inv => RangeEnumerated
    BY DEF Inv
<1>2. QED
    BY <1>1, InvHolds, PTL

(* No configuration that Validate accepts fails for its provider, for an IPv4
   range, or, with a positive period, at the ticker. *)
THEOREM AcceptedConfigurationsStart == Spec => []AcceptedStarts
<1>1. Inv => AcceptedStarts
    BY DEF Inv
<1>2. QED
    BY <1>1, InvHolds, PTL

(* When the rules are added, what the route manager takes for granted holds. *)
THEOREM ManagerCanAssume == Spec => []ManagerAssumptions
<1>1. Inv => ManagerAssumptions
    BY DEF Inv
<1>2. QED
    BY <1>1, InvHolds, PTL

(* No pass of ReduceNetworks gains or loses an address, however many networks
   the command line has. *)
THEOREM ReductionKeepsCoverage == Spec => []CoverageKept
<1>1. Inv => CoverageKept
    BY SameNetworks DEF Inv, NP!IInv, CoverageKept
<1>2. QED
    BY <1>1, InvHolds, PTL

(* The networks that are left are the largest within what is covered, each
   once: by FewestInTheEnd no smaller set of networks has the same addresses. *)
THEOREM ReductionIsSmallest == Spec => []ResultSmallest
<1>1. Width \in Nat
    BY StartupAssumption
<1>2. Inv => ResultSmallest
    BY <1>1, SameNetworks, NP!SmallestInTheEnd DEF Inv, ResultSmallest
<1>3. QED
    BY <1>2, InvHolds, PTL

(* Every step gets on. *)
LEMMA StepAdvances ==
    ASSUME Inv, Next
    PROVE  Advances
<1>1. CASE GenerateGateways
    <2>1. CASE pc' = pc
        <3>1. /\ currentIP \in IP /\ ~Overflows(currentIP)
              /\ currentIP' = IncrementIP(currentIP) /\ pc = "generating"
            BY <1>1, <2>1 DEF Inv, TypeOK, GenerateGateways
        <3>2. N!Precedes(currentIP.bits, currentIP'.bits)
            BY <3>1, NextAddress DEF Overflows
        <3>3. QED
            BY <2>1, <3>1, <3>2 DEF Advances
    <2>2. CASE pc' # pc
        BY <1>1, <2>2 DEF GenerateGateways, Outcomes, Stage, Advances
    <2>3. QED
        BY <2>1, <2>2
<1>2. CASE ReduceNetworks
    <2>1. NP!IInv /\ NP!Next /\ Width \in Nat
        BY <1>2, SameNetworks, StartupAssumption DEF Inv, ReduceNetworks
    <2>2. N!Advances
        BY <2>1, NP!StepAdvances, SameNetworks
    <2>3. QED
        BY <1>2, <2>2 DEF ReduceNetworks, Advances
<1>3. CASE ParseFlags
    BY <1>3 DEF ParseFlags, Stage, Advances
<1>4. CASE ValidateConfig \/ NewMetrics \/ NewUpdater
    <2>1. CASE ValidateConfig
        BY <2>1 DEF ValidateConfig, Outcomes, Stage, Advances
    <2>2. CASE NewMetrics
        BY <2>2 DEF NewMetrics, Outcomes, Stage, Advances
    <2>3. CASE NewUpdater
        <3>1. pc = "updater" /\ pc' \in {"noUpdater", "generating"}
            BY <2>3 DEF NewUpdater
        <3>2. QED
            BY <3>1 DEF Outcomes, Stage, Advances
    <2>4. QED
        BY <1>4, <2>1, <2>2, <2>3
<1>5. CASE CheckTables \/ CheckPreferences \/ AddRules
    <2>1. CASE CheckTables
        BY <2>1 DEF CheckTables, Outcomes, Stage, Advances
    <2>2. CASE CheckPreferences
        BY <2>2 DEF CheckPreferences, Outcomes, Stage, Advances
    <2>3. CASE AddRules
        BY <2>3 DEF AddRules, Outcomes, Stage, Advances
    <2>4. QED
        BY <1>5, <2>1, <2>2, <2>3
<1>6. CASE NewMonitor \/ StartMetricsServer \/ NewTicker
    <2>1. CASE NewMonitor
        <3>1. pc = "monitor" /\ pc' \in {"noMonitor", "server"}
            BY <2>1 DEF NewMonitor
        <3>2. QED
            BY <3>1 DEF Outcomes, Stage, Advances
    <2>2. CASE StartMetricsServer
        BY <2>2 DEF StartMetricsServer, Outcomes, Stage, Advances
    <2>3. CASE NewTicker
        BY <2>3 DEF NewTicker, Outcomes, Stage, Advances
    <2>4. QED
        BY <1>6, <2>1, <2>2, <2>3
<1>7. QED
    BY <1>1, <1>2, <1>3, <1>4, <1>5, <1>6 DEF Next

(* No step of the start leads back, and none of its loops goes round in vain: with
   no bound on ranges and networks, it cannot go on for ever. *)
THEOREM StartAdvances == Spec => AlwaysAdvances
<1>1. Inv /\ [Next]_vars => [Advances]_vars
    BY StepAdvances
<1>2. QED
    BY <1>1, InvHolds, PTL DEF Spec, AlwaysAdvances
=============================================================================
