------------------------ MODULE RouteManagerLookups -------------------------
(***************************************************************************)
(* What jumps do to a lookup, for all sets of rules; and what the rules of *)
(* RouteManager do to the traffic: from the inductive invariant of         *)
(* RouteManagerProofs.                                                     *)
(***************************************************************************)
EXTENDS RouteManagerProofs, WellFoundedInduction

(* A set of natural numbers has a least element. *)
LEMMA LeastElement ==
    ASSUME NEW S \in SUBSET Nat, S # {}
    PROVE  \E n \in S : \A m \in S : n <= m
<1>1. PICK n \in S : \A m \in S : <<m, n>> \notin OpToRel(<, Nat)
    BY NatLessThanWellFounded, WFMin
<1>2. \A m \in S : ~(m < n)
    BY <1>1 DEF OpToRel
<1>3. QED
    BY <1>2

(* A set of natural numbers that has a bound has a greatest element. *)
LEMMA GreatestElement ==
    ASSUME NEW S \in SUBSET Nat, S # {}, NEW b \in Nat, \A n \in S : n <= b
    PROVE  \E n \in S : \A m \in S : m <= n
<1> DEFINE D == {b - n : n \in S}
<1>1. D \in SUBSET Nat /\ D # {}
    <2>1. \A n \in S : n \in Nat /\ n <= b => b - n \in Nat
        OBVIOUS
    <2>2. QED
        BY <2>1
<1>2. PICK k \in D : \A m \in D : k <= m
    BY <1>1, LeastElement
<1>3. PICK n \in S : k = b - n
    BY <1>2
<1>4. \A m \in S : b - n <= b - m
    BY <1>2, <1>3
<1>5. QED
    BY <1>4
-----------------------------------------------------------------------------

\* One unfolding of the function that Reaches defines.
Reached(rs, d, f) ==
    [r \in PrefsOf(rs) |->
        \/ \A p \in PrefsOf(rs) : r <= p
        \/ \E p \in PrefsOf(rs) : GoesOn(rs, d, p, r) /\ f[p]]

(* The recursive definition of Reaches is sound: such a function exists, by the
   least set of preferences that is closed under a lookup's steps. *)
LEMMA ReachesExists ==
    ASSUME NEW rs, NEW d
    PROVE  \E f : f = Reached(rs, d, f)
<1> DEFINE P == PrefsOf(rs)
           first(r) == \A p \in P : r <= p
           on(p, r) == GoesOn(rs, d, p, r)
           closed(V) == \A r \in P : first(r) \/ (\E p \in V : on(p, r)) => r \in V
           L == {r \in P : \A V \in SUBSET P : closed(V) => r \in V}
           W == {r \in L : first(r) \/ \E p \in L : on(p, r)}
           f == [r \in P |-> r \in L]
<1> HIDE DEF P, first, on
<1>1. closed(L)
    OBVIOUS
<1>2. closed(W)
    BY <1>1
<1>3. L \subseteq W
    BY <1>2
<1>4. \A r \in P : r \in L <=> (first(r) \/ \E p \in L : on(p, r))
    BY <1>1, <1>3
<1>5. ASSUME NEW r \in P
      PROVE  f[r] = (first(r) \/ \E p \in P : on(p, r) /\ f[p])
    <2>1. f[r] = (r \in L) /\ \A p \in P : f[p] = (p \in L)
        BY Zenon
    <2>2. (\E p \in L : on(p, r)) <=> \E p \in P : on(p, r) /\ f[p]
        BY <2>1, L \subseteq P
    <2>3. (r \in L) = (first(r) \/ \E p \in P : on(p, r) /\ f[p])
        BY <1>4, <2>2
    <2>4. QED
        BY <2>1, <2>3
<1>6. f = [r \in P |-> first(r) \/ \E p \in P : on(p, r) /\ f[p]]
    BY <1>5
<1>7. f = Reached(rs, d, f)
    BY <1>6 DEF Reached, P, first, on
<1>8. QED
    BY <1>7

(* A lookup reaches a preference if it is the first one or if a preference that
   is reached leads to it, and in no other way. *)
LEMMA ReachesStep ==
    ASSUME NEW rs, NEW d, NEW r \in PrefsOf(rs)
    PROVE  Reaches(rs, d, r) <=>
              \/ \A p \in PrefsOf(rs) : r <= p
              \/ \E p \in PrefsOf(rs) : GoesOn(rs, d, p, r) /\ Reaches(rs, d, p)
<1> DEFINE f == CHOOSE f : f = Reached(rs, d, f)
<1>1. f = Reached(rs, d, f)
    BY ReachesExists
<1>2. \A q : Reaches(rs, d, q) = f[q]
    BY DEF Reaches, Reached
<1> HIDE DEF f
<1>3. f[r] = (\/ \A p \in PrefsOf(rs) : r <= p
              \/ \E p \in PrefsOf(rs) : GoesOn(rs, d, p, r) /\ f[p])
    BY <1>1 DEF Reached
<1>4. QED
    BY <1>2, <1>3
-----------------------------------------------------------------------------

(* Preferences between a jump that is taken and its target are not reached, if
   no jump leads there. *)
LEMMA JumpedOver ==
    ASSUME NEW rs, PrefsOf(rs) \subseteq Nat, NEW d,
           NEW t, NEW e \in PrefsOf(rs), JumpsAt(rs, d, e) # {},
           \A r \in rs : r.goto # NoJump => r.goto = t,
           NEW q \in PrefsOf(rs), e < q, q < t
    PROVE  ~Reaches(rs, d, q)
<1> DEFINE P == PrefsOf(rs)
           S == {p \in P : Reaches(rs, d, p) /\ e < p /\ p < t}
<1> SUFFICES ASSUME S # {} PROVE FALSE
    OBVIOUS
<1>0. t \in Nat
    BY DEF JumpsAt
<1>1. PICK m \in S : \A p \in S : m <= p
    BY LeastElement
<1>2. e \in Nat /\ m \in Nat /\ m \in P /\ e < m /\ m < t
    OBVIOUS
<1>3. ~\A p \in P : m <= p
    BY <1>2
<1>4. PICK p \in P : GoesOn(rs, d, p, m) /\ Reaches(rs, d, p)
    BY <1>2, <1>3, ReachesStep
<1>5. p \in Nat /\ p < m /\ p < t
    BY <1>0, <1>2, <1>4 DEF GoesOn
<1>6. JumpsAt(rs, d, p) = {}
    BY <1>2, <1>4 DEF GoesOn, JumpsAt
<1>7. p <= e
    BY <1>1, <1>2, <1>4, <1>5
<1>8. p < e
    BY <1>2, <1>5, <1>6, <1>7
<1>9. PICK r \in rs : r.pref = e
    BY DEF PrefsOf
<1>10. QED
    BY <1>2, <1>4, <1>6, <1>8, <1>9 DEF GoesOn

(* A preference is reached if no jump that is taken leads beyond it. *)
LEMMA NotJumpedOver ==
    ASSUME NEW rs, PrefsOf(rs) \subseteq Nat, NEW d,
           NEW q \in PrefsOf(rs),
           \A p \in PrefsOf(rs) : \A r \in JumpsAt(rs, d, p) :
               p < q => p < r.goto /\ r.goto <= q
    PROVE  Reaches(rs, d, q)
<1> DEFINE P == PrefsOf(rs)
           S == {p \in P : Reaches(rs, d, p) /\ p <= q}
<1>1. S # {}
    <2>1. PICK m \in P : \A p \in P : m <= p
        BY LeastElement
    <2>2. QED
        BY <2>1, ReachesStep
<1>2. PICK m \in S : \A p \in S : p <= m
    BY <1>1, GreatestElement
<1>3. m \in P /\ m \in Nat /\ q \in Nat /\ m <= q /\ Reaches(rs, d, m)
    OBVIOUS
<1>4. SUFFICES ASSUME m < q PROVE FALSE
    BY <1>3
<1>5. ASSUME NEW n \in P, GoesOn(rs, d, m, n) PROVE ~(n <= q)
    <2>1. Reaches(rs, d, n) /\ m < n
        BY <1>3, <1>5, ReachesStep DEF GoesOn
    <2>2. QED
        BY <1>2, <1>3, <2>1
<1>6. CASE JumpsAt(rs, d, m) # {}
    <2>1. PICK r \in JumpsAt(rs, d, m) : TRUE
        BY <1>6
    <2>2. r.goto \in P /\ m < r.goto /\ r.goto <= q
        BY <1>3, <1>4, <2>1 DEF JumpsAt
    <2>3. GoesOn(rs, d, m, r.goto)
        BY <2>1, <2>2 DEF GoesOn
    <2>4. QED
        BY <2>2, <2>3, <1>5
<1>7. CASE JumpsAt(rs, d, m) = {}
    <2> DEFINE T == {p \in P : m < p}
    <2>1. q \in T
        BY <1>4
    <2>2. PICK n \in T : \A p \in T : n <= p
        BY <2>1, LeastElement
    <2>3. ASSUME NEW r \in rs, m < r.pref PROVE ~(r.pref < n)
        <3>1. r.pref \in T
            BY <2>3 DEF PrefsOf
        <3>2. QED
            BY <2>2, <3>1
    <2>4. GoesOn(rs, d, m, n)
        BY <2>2, <2>3, <1>7 DEF GoesOn
    <2>5. n <= q
        BY <2>1, <2>2
    <2>6. QED
        BY <2>4, <2>5, <1>5
<1>8. QED
    BY <1>6, <1>7
-----------------------------------------------------------------------------

(* Lookups are about natural numbers. *)
LEMMA PrefsAreNat ==
    ASSUME TypeOK
    PROVE  PrefsOf(rules) \subseteq Nat
    BY DEF TypeOK, PrefsOf

(* Every jump is one of the manager's, and leads to the fallthrough rule. *)
LEMMA JumpFacts ==
    ASSUME IInv, NEW r \in rules, r.goto # NoJump
    PROVE  /\ r.goto = FallthroughPref
           /\ 1 <= FirstPref /\ FallthroughPref < MainPref
           /\ \E i \in 1..Len(cfg.nets), n \in Nets :
                 r = JumpRule(ExcludePref(i), n, FallthroughPref)
<1>1. r \notin HostRules /\ r # GatewayRule /\ r # FallthroughRule
    BY DEF HostRules, TableRule, GatewayRule, FallthroughRule
<1>2. \E i \in 1..Len(cfg.nets), n \in Nets :
          r = JumpRule(ExcludePref(i), n, FallthroughPref)
    BY <1>1 DEF IInv, RulesInv, IsOwnRule
<1>3. 1 <= FirstPref /\ FallthroughPref < MainPref
    BY <1>1 DEF IInv, RulesInv
<1>4. QED
    BY <1>2, <1>3 DEF JumpRule

(* The gateway rule is the only one that looks the gateway table up. *)
LEMMA GatewayRuleOnly ==
    ASSUME IInv, OwnTable, NEW r \in rules, r.table = GatewayTable, r.goto = NoJump
    PROVE  r = GatewayRule
<1>1. r \notin HostRules
    BY DEF HostRules, TableRule, OwnTable
<1>2. r # FallthroughRule
    BY NumberAssumption
    DEF FallthroughRule, TableRule, FallthroughTable, GatewayTable
<1>3. FallthroughPref # NoJump
    BY PrefFacts DEF IInv, TypeOK, NoJump
<1>4. ~\E i \in 1..Len(cfg.nets), n \in Nets :
           r = JumpRule(ExcludePref(i), n, FallthroughPref)
    BY <1>3 DEF JumpRule
<1>5. QED
    BY <1>1, <1>2, <1>4 DEF IInv, RulesInv, IsOwnRule

(* Without it nothing is diverted. *)
LEMMA NothingDiverted ==
    ASSUME IInv, OwnTable, GatewayRule \notin rules, NEW d
    PROVE  ~Diverted(d)
    BY GatewayRuleOnly DEF Diverted, Consults

(* While the manager serves, the numbers of its rules are as documented. *)
LEMMA ServingFacts ==
    ASSUME IInv, Serving
    PROVE  /\ 1 <= FirstPref /\ FallthroughPref < MainPref
           /\ GatewayPref \in PrefsOf(rules) /\ FallthroughPref \in PrefsOf(rules)
           /\ GatewayPref < FallthroughPref
           /\ \A i \in 1..Len(cfg.nets) :
                 /\ ExcludePref(i) \in PrefsOf(rules)
                 /\ ExcludePref(i) < GatewayPref
<1>1. 1 <= FirstPref /\ FallthroughPref < MainPref
    BY DEF IInv, RulesInv, Serving
<1>2. /\ GatewayPref < FallthroughPref
      /\ \A i \in 1..Len(cfg.nets) : ExcludePref(i) < GatewayPref
    BY <1>1, OwnPrefs DEF IInv, TypeOK
<1>3. /\ {GatewayRule, FallthroughRule} \subseteq rules
      /\ \A i \in 1..Len(cfg.nets) : ExcludeRule(i) \in rules
    BY DEF IInv, PhaseInv
<1>4. QED
    BY <1>1, <1>2, <1>3, RulePrefs
    DEF PrefsOf, GatewayRule, FallthroughRule, ExcludeRule

(* An excluded destination jumps over the gateway rule. *)
LEMMA ExcludedNotDiverted ==
    ASSUME IInv, OwnTable, Serving, NEW d \in Excluded
    PROVE  ~Diverted(d)
<1>1. PICK i \in 1..Len(cfg.nets) : d = cfg.nets[i]
    BY DEF Excluded, ToSet
<1>2. ExcludeRule(i) \in JumpsAt(rules, d, ExcludePref(i))
    <2>1. ExcludeRule(i) \in rules
        BY DEF IInv, PhaseInv
    <2>2. FallthroughPref # NoJump /\ FallthroughPref \in PrefsOf(rules)
        BY ServingFacts, PrefsAreNat DEF IInv, NoJump
    <2>3. QED
        BY <1>1, <2>1, <2>2 DEF JumpsAt, ExcludeRule, JumpRule
<1>3. \A r \in rules : r.goto # NoJump => r.goto = FallthroughPref
    BY JumpFacts
<1>4. ~Reaches(rules, d, GatewayPref)
    BY <1>2, <1>3, ServingFacts, PrefsAreNat, JumpedOver DEF IInv
<1>5. QED
    BY <1>4, GatewayRuleOnly, RulePrefs DEF Diverted, Consults, GatewayRule

(* No jump is for any other destination. *)
LEMMA OthersAreDiverted ==
    ASSUME IInv, Serving, NEW d \in Dests \ Excluded
    PROVE  Diverted(d)
<1>1. ASSUME NEW p, NEW r \in JumpsAt(rules, d, p)
      PROVE  FALSE
    <2>1. r \in rules /\ r.goto # NoJump /\ r.dst \in {All, d}
        BY <1>1 DEF JumpsAt
    <2>2. PICK i \in 1..Len(cfg.nets), n \in Nets :
              r = JumpRule(ExcludePref(i), n, FallthroughPref)
        BY <2>1, JumpFacts
    <2>3. ExcludeRule(i) \in rules /\ ExcludeRule(i).pref = r.pref
        BY <2>2, RulePrefs DEF IInv, PhaseInv, ExcludeRule
    <2>4. r = ExcludeRule(i)
        BY <2>1, <2>3 DEF IInv, RulesInv
    <2>5. r.dst = cfg.nets[i] /\ cfg.nets[i] \in Nets
        BY <2>4, PrefFacts DEF IInv, TypeOK, ExcludeRule, JumpRule
    <2>6. cfg.nets[i] \in Excluded
        BY DEF Excluded, ToSet
    <2>7. QED
        BY <2>1, <2>5, <2>6, NameAssumption
<1>2. Reaches(rules, d, GatewayPref)
    BY <1>1, ServingFacts, PrefsAreNat, NotJumpedOver DEF IInv
<1>3. GatewayRule \in rules
    BY DEF IInv, PhaseInv
<1>4. QED
    BY <1>2, <1>3 DEF Diverted, Consults, GatewayRule, TableRule

(* No jump leads beyond the host's main rule. *)
LEMMA MainReached ==
    ASSUME IInv, NEW d
    PROVE  Consults(rules, d, MainTable)
<1>1. TableRule(MainPref, MainTable) \in rules
    BY DEF IInv, RulesInv, HostRules
<1>2. MainPref \in PrefsOf(rules)
    BY <1>1, RulePrefs DEF PrefsOf
<1>3. ASSUME NEW p, NEW r \in JumpsAt(rules, d, p)
      PROVE  p < r.goto /\ r.goto <= MainPref
    <2>1. r \in rules /\ r.goto # NoJump /\ r.pref = p
        BY <1>3 DEF JumpsAt
    <2>2. /\ r.goto = FallthroughPref /\ 1 <= FirstPref /\ FallthroughPref < MainPref
          /\ \E i \in 1..Len(cfg.nets) : p = ExcludePref(i)
        BY <2>1, JumpFacts, RulePrefs
    <2>3. QED
        BY <2>2, OwnPrefs, NumberAssumption DEF IInv, TypeOK
<1>4. Reaches(rules, d, MainPref)
    BY <1>2, <1>3, PrefsAreNat, NotJumpedOver DEF IInv
<1>5. QED
    BY <1>1, <1>4 DEF Consults, TableRule
-----------------------------------------------------------------------------

(* Excluded destinations never use the gateways while the manager serves,
   whatever was left behind by processes that excluded as many networks. *)
THEOREM ExclusionHolds ==
    ASSUME SameSize, BelowMain, OwnTable
    PROVE  Spec => []ExcludedBypass
<1>1. IInv => ExcludedBypass
    BY ExcludedNotDiverted DEF ExcludedBypass
<1>2. QED
    BY <1>1, RulesInductive, PTL

(* All other destinations do. *)
THEOREM DiversionHolds ==
    ASSUME SameSize, BelowMain
    PROVE  Spec => []OthersDiverted
<1>1. IInv => OthersDiverted
    BY OthersAreDiverted DEF OthersDiverted
<1>2. QED
    BY <1>1, RulesInductive, PTL

(* The host's main table stays reachable between any two netlink calls. *)
THEOREM HostStaysReachable ==
    ASSUME SameSize, BelowMain
    PROVE  Spec => []HostReachable
<1>1. IInv => HostReachable
    BY MainReached DEF HostReachable
<1>2. QED
    BY <1>1, RulesInductive, PTL
-----------------------------------------------------------------------------

\* The diverted destinations of a state, told from its gateway rule.
DiversionKnown ==
    /\ GatewayRule \notin rules => \A d \in Dests : ~Diverted(d)
    /\ Serving => \A d \in Dests : Diverted(d) <=> d \notin Excluded

(* And this is known of every state. *)
LEMMA DiversionIsKnown ==
    ASSUME OwnTable
    PROVE  IInv => DiversionKnown
    BY NothingDiverted, ExcludedNotDiverted, OthersAreDiverted DEF DiversionKnown

(* What a step does to the rules: nothing, or it leaves no gateway rule, or it
   completes the rules from a state without one. *)
LEMMA DiversionStep ==
    ASSUME IInv, IInv', [Next]_vars
    PROVE  \/ rules' = rules
           \/ GatewayRule' \notin rules'
           \/ GatewayRule \notin rules /\ Serving'
<1> DEFINE Away == GatewayPref \notin PrefsOf(rules)
<1>1. Away => GatewayRule \notin rules
    BY RulePrefs DEF PrefsOf, GatewayRule
<1>2. Away' => GatewayRule' \notin rules'
    BY RulePrefs DEF PrefsOf, GatewayRule
<1>3. CASE DelGateway \/ DelExclude
    <2>1. pc' = "delExcludes"
        BY <1>3 DEF DelGateway, DelExclude
    <2>2. QED
        BY <2>1, <1>2 DEF IInv, PhaseInv
<1>4. CASE DelFallthrough
    <2>1. pc = "delExcludes" /\ cfg' = cfg /\ PrefsOf(rules') \subseteq PrefsOf(rules)
        BY <1>4 DEF DelFallthrough, Delete, PrefsOf
    <2>2. Away'
        BY <2>1, SameNumbers DEF IInv, PhaseInv
    <2>3. QED
        BY <2>2, <1>2
<1>5. CASE AddFallthrough \/ AddExclude
    <2>1. pc' = "addExcludes"
        BY <1>5 DEF AddFallthrough, AddExclude
    <2>2. QED
        BY <2>1, <1>2 DEF IInv, PhaseInv
<1>6. CASE AddGateway
    <2>1. pc = "addExcludes" /\ pc' = "running"
        BY <1>6 DEF AddGateway
    <2>2. QED
        BY <2>1, <1>1 DEF IInv, PhaseInv, Serving
<1>7. QED
    BY <1>3, <1>4, <1>5, <1>6
    DEF Next, vars, kernel, Start, RemovalFails, AddFails, UpdateRoutes,
        ReplaceRoute, ReplaceDone, DropRoute, DropDone, Close, RouteCallFails, Crash

(* Diversion is a function of the rules. *)
LEMMA SameRulesSameDiversion ==
    ASSUME rules' = rules
    PROVE  \A d : Diverted(d)' <=> Diverted(d)
    BY DEF Diverted, GatewayTable

(* Between any two netlink calls, of whatever processes, an excluded
   destination that was not diverted is not diverted. *)
THEOREM ExclusionNeverLost ==
    ASSUME SameSize, BelowMain, OwnTable
    PROVE  Spec => NoNewDiversion
<1>1. IInv' => DiversionKnown'
    BY DiversionIsKnown, PTL
<1>2. Excluded' \subseteq Dests \/ ~IInv'
    <2>1. IInv => Excluded \subseteq Dests
        BY PrefFacts DEF IInv, TypeOK, Excluded, ToSet, Dests
    <2>2. IInv' => (Excluded \subseteq Dests)'
        BY <2>1, PTL
    <2>3. QED
        BY <2>2 DEF Dests
<1>3. IInv /\ IInv' /\ [Next]_vars =>
          [\A d \in Excluded' : Diverted(d)' => Diverted(d)]_vars
    <2> SUFFICES ASSUME IInv, IInv', [Next]_vars, NEW d \in Excluded', Diverted(d)'
                 PROVE  Diverted(d)
        OBVIOUS
    <2>1. d \in Dests
        BY <1>2
    <2>2. ~(GatewayRule' \notin rules') /\ ~Serving'
        BY <2>1, <1>1 DEF DiversionKnown, Dests
    <2>3. rules' = rules
        BY <2>2, DiversionStep
    <2>4. QED
        BY <2>3, SameRulesSameDiversion
<1>4. QED
    BY <1>3, RulesInductive, PTL DEF NoNewDiversion, Spec

(* The rule by rule work of all processes implements Diversion: to the traffic
   a policy is put in force, or taken away, in one step. *)
THEOREM Atomicity ==
    ASSUME SameSize, BelowMain, OwnTable
    PROVE  Spec => AtomicDiversion
<1> DEFINE now == {d \in Dests : Diverted(d)}
<1>1. IInv' => DiversionKnown'
    BY DiversionIsKnown, PTL
<1>2. Init => Diversion!Init
    <2> SUFFICES ASSUME Init PROVE now = {}
        BY DEF Diversion!Init
    <2>1. IInv /\ rules = HostRules
        BY RulesInit DEF Init
    <2>2. GatewayRule \notin rules
        BY <2>1 DEF HostRules, GatewayRule, TableRule, OwnTable
    <2>3. QED
        BY <2>1, <2>2, NothingDiverted
<1>3. IInv /\ IInv' /\ [Next]_vars => [Diversion!Next]_now
    <2> SUFFICES ASSUME IInv, IInv', [Next]_vars
                 PROVE  Diversion!Next \/ now' = now
        OBVIOUS
    <2>1. CASE rules' = rules
        BY <2>1, SameRulesSameDiversion DEF Dests
    <2>2. CASE GatewayRule' \notin rules'
        <3>1. now' = {}
            BY <2>2, <1>1 DEF DiversionKnown, Dests
        <3>2. QED
            BY <3>1 DEF Diversion!Next, Diversion!Restore
    <2>3. CASE GatewayRule \notin rules /\ Serving'
        <3>1. now = {}
            BY <2>3, NothingDiverted
        <3>2. now' = Dests \ ToSet(cfg'.nets)
            BY <2>3, <1>1 DEF DiversionKnown, Dests, Excluded
        <3>3. ToSet(cfg'.nets) \in {ToSet(c.nets) : c \in Configs}
            BY DEF IInv, TypeOK
        <3>4. QED
            BY <3>1, <3>2, <3>3 DEF Diversion!Next, Diversion!Divert
    <2>4. QED
        BY <2>1, <2>2, <2>3, DiversionStep
<1>4. QED
    BY <1>2, <1>3, RulesInductive, PTL
    DEF AtomicDiversion, Diversion!Spec, Spec
=============================================================================
