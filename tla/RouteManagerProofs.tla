------------------------- MODULE RouteManagerProofs -------------------------
(***************************************************************************)
(* Theorems about RouteManager, for all networks, routes, gateways,        *)
(* configurations and preferences.                                         *)
(***************************************************************************)
EXTENDS RouteManager, TLAPS

(* The constants have the types that the specification assumes. *)
LEMMA ConfigFacts ==
    ASSUME NEW c \in Configs
    PROVE  /\ c.nets \in Seq(Nets) /\ Len(c.nets) \in Nat
           /\ \A i \in 1..Len(c.nets) : c.nets[i] \in Nets
           /\ c.routes \in Seq(Dsts) /\ Len(c.routes) \in Nat
           /\ \A i \in 1..Len(c.routes) : c.routes[i] \in Dsts
    BY ConfigAssumption

(* No rule or route of the host is of a wrong type. *)
LEMMA TypeCorrectInit == Init => TypeOK
    BY NumberAssumption
    DEF Init, TypeOK, HostRules, HostRoutes, TableRule, LocalTable, MainTable,
        DefaultTable, NoJump

(* Nor is any that a step adds. *)
LEMMA TypeCorrectStep == TypeOK /\ [Next]_vars => TypeOK'
<1> SUFFICES ASSUME TypeOK, [Next]_vars
             PROVE  TypeOK'
    OBVIOUS
<1> USE DEF TypeOK
<1>1. ASSUME NEW c \in Configs, Start(c)
      PROVE  TypeOK'
    BY <1>1 DEF Start, kernel
<1>2. CASE DelGateway
    BY <1>2 DEF DelGateway, Delete
<1>3. CASE DelExclude
    BY <1>3 DEF DelExclude, Delete
<1>4. CASE DelFallthrough
    BY <1>4 DEF DelFallthrough, Delete
<1>5. CASE RemovalFails
    BY <1>5 DEF RemovalFails, Abort, kernel
<1>6. CASE AddFallthrough
    BY <1>6, ConfigFacts, NumberAssumption
    DEF AddFallthrough, Add, FallthroughRule, TableRule, FallthroughPref,
        GatewayPref, FallthroughTable, NoJump
<1>7. CASE AddExclude
    BY <1>7, ConfigFacts, NumberAssumption
    DEF AddExclude, Add, ExcludeRule, JumpRule, ExcludePref,
        FallthroughPref, GatewayPref, NoTable, Dests
<1>8. CASE AddGateway
    BY <1>8, ConfigFacts, NumberAssumption
    DEF AddGateway, Add, GatewayRule, TableRule, GatewayPref, GatewayTable, NoJump
<1>9. CASE AddFails
    BY <1>9 DEF AddFails, Abort, kernel
<1>10. ASSUME NEW gs \in SUBSET Gateways, UpdateRoutes(gs)
       PROVE  TypeOK'
    BY <1>10 DEF UpdateRoutes, kernel
<1>11. CASE ReplaceRoute
    BY <1>11, ConfigFacts, NumberAssumption DEF ReplaceRoute, GatewayTable
<1>12. CASE ReplaceDone
    BY <1>12 DEF ReplaceDone, kernel
<1>13. CASE DropRoute
    BY <1>13 DEF DropRoute
<1>14. CASE DropDone
    BY <1>14 DEF DropDone, kernel
<1>15. CASE Close
    BY <1>15 DEF Close, kernel
<1>16. CASE RouteCallFails
    BY <1>16 DEF RouteCallFails, kernel
<1>17. CASE Crash
    BY <1>17 DEF Crash, kernel
<1>18. CASE UNCHANGED vars
    BY <1>18 DEF vars
<1>19. QED
    BY <1>1, <1>2, <1>3, <1>4, <1>5, <1>6, <1>7, <1>8, <1>9, <1>10, <1>11,
       <1>12, <1>13, <1>14, <1>15, <1>16, <1>17, <1>18 DEF Next

(* Every state is of the right type: the records netlink is given are well
   formed at every step, at every value of the constants. *)
THEOREM TypeCorrect == Spec => []TypeOK
    BY TypeCorrectInit, TypeCorrectStep, PTL DEF Spec
-----------------------------------------------------------------------------
(* What the theorems below assume of the constants.  The model checker finds
   a violation without either: RouteManagerFewerNets, RouteManagerMaxPref. *)

\* Restarts exclude as many networks as before: the preferences stay.
SameSize == \A c, d \in Configs : Len(c.nets) = Len(d.nets)

\* The first preference is not the last one that excludeNetworks accepts.
BelowMain == \A c \in Configs : FirstPref # MainPref - (Len(c.nets) + 2) + 1

\* The gateway table is not one of the host's: the range that excludeNetworks
\* accepts includes the numbers of the main and the default table.
OwnTable == GatewayTable \notin {LocalTable, MainTable, DefaultTable}

IsOwnRule(r) ==
    \/ r = GatewayRule
    \/ r = FallthroughRule
    \/ \E i \in 1..Len(cfg.nets), n \in Nets :
          r = JumpRule(ExcludePref(i), n, FallthroughPref)

\* The kernel holds the host's rules and the manager's, one per preference.
RulesInv ==
    /\ HostRules \subseteq rules
    /\ \A r \in rules \ HostRules : IsOwnRule(r)
    /\ \A r, s \in rules : r.pref = s.pref => r = s
    /\ pc # "down" \/ rules # HostRules => 1 <= FirstPref /\ FallthroughPref < MainPref

\* The gateway rule never stands without the rules that lead around it.
GuardInv ==
    rules # HostRules /\ GatewayPref \in PrefsOf(rules) =>
        /\ FallthroughPref \in PrefsOf(rules)
        /\ \A i \in 1..Len(cfg.nets) : ExcludePref(i) \in PrefsOf(rules)

\* How far addRules and removeRules are.
PhaseInv ==
    /\ pc = "delExcludes" =>
          /\ GatewayPref \notin PrefsOf(rules)
          /\ \A i \in 1..Len(cfg.nets) : i < slot => ExcludePref(i) \notin PrefsOf(rules)
    /\ pc = "addFallthrough" => rules = HostRules
    /\ pc = "addExcludes" =>
          /\ FallthroughRule \in rules
          /\ \A i \in 1..Len(cfg.nets) :
                IF i < slot THEN ExcludeRule(i) \in rules
                            ELSE ExcludePref(i) \notin PrefsOf(rules)
          /\ GatewayPref \notin PrefsOf(rules)
    /\ Serving =>
          /\ {GatewayRule, FallthroughRule} \subseteq rules
          /\ \A i \in 1..Len(cfg.nets) : ExcludeRule(i) \in rules
    /\ pc = "down" /\ outcome = "clean" => rules = HostRules

IInv == TypeOK /\ RulesInv /\ GuardInv /\ PhaseInv

(* The numbers netlink sees, as arithmetic. *)
LEMMA PrefFacts ==
    ASSUME cfg \in Configs
    PROVE  /\ Len(cfg.nets) \in Nat
           /\ FirstPref \in Nat /\ MainPref \in Nat
           /\ GatewayPref = FirstPref + Len(cfg.nets)
           /\ FallthroughPref = FirstPref + Len(cfg.nets) + 1
           /\ \A i \in 1..Len(cfg.nets) : ExcludePref(i) = FirstPref + i - 1
           /\ \A i \in 1..Len(cfg.nets) : cfg.nets[i] \in Nets
    BY ConfigFacts, NumberAssumption DEF GatewayPref, FallthroughPref, ExcludePref

(* The preferences of the manager are its own: between those of the host's
   rules, and no two of them equal. *)
LEMMA OwnPrefs ==
    ASSUME cfg \in Configs, 1 <= FirstPref, FallthroughPref < MainPref
    PROVE  /\ GatewayPref \in Nat /\ 1 <= GatewayPref
           /\ GatewayPref < FallthroughPref /\ FallthroughPref \in Nat
           /\ \A i \in 1..Len(cfg.nets) :
                 /\ ExcludePref(i) \in Nat /\ 1 <= ExcludePref(i)
                 /\ ExcludePref(i) < GatewayPref
           /\ \A i, j \in 1..Len(cfg.nets) : i < j => ExcludePref(i) < ExcludePref(j)
<1>1. /\ Len(cfg.nets) \in Nat /\ FirstPref \in Nat
      /\ GatewayPref = FirstPref + Len(cfg.nets)
      /\ FallthroughPref = FirstPref + Len(cfg.nets) + 1
    BY PrefFacts
<1>2. ASSUME NEW i \in 1..Len(cfg.nets)
      PROVE  /\ ExcludePref(i) \in Nat /\ 1 <= ExcludePref(i)
             /\ ExcludePref(i) < GatewayPref
    BY <1>1 DEF ExcludePref
<1>3. ASSUME NEW i \in 1..Len(cfg.nets), NEW j \in 1..Len(cfg.nets), i < j
      PROVE  ExcludePref(i) < ExcludePref(j)
    BY <1>1, <1>3 DEF ExcludePref
<1>4. QED
    BY <1>1, <1>2, <1>3

(* Each rule sits at its own preference. *)
LEMMA RulePrefs ==
    /\ \A p, t : TableRule(p, t).pref = p
    /\ \A p, n, t : JumpRule(p, n, t).pref = p
    BY DEF TableRule, JumpRule

(* A step that keeps the number of excluded networks keeps what the manager
   calls its own rules. *)
LEMMA SameNumbers ==
    ASSUME Len(cfg'.nets) = Len(cfg.nets)
    PROVE  /\ GatewayPref' = GatewayPref /\ FallthroughPref' = FallthroughPref
           /\ GatewayRule' = GatewayRule /\ FallthroughRule' = FallthroughRule
           /\ \A r : IsOwnRule(r)' <=> IsOwnRule(r)
    BY DEF GatewayPref, FallthroughPref, GatewayRule, FallthroughRule, IsOwnRule

(* removeRules at a preference of the manager's takes that one rule away and
   nothing of the host's. *)
LEMMA DeleteFacts ==
    ASSUME TypeOK, RulesInv, NEW p \in Nat, 1 <= p, p < MainPref, Delete(p)
    PROVE  /\ rules' \subseteq rules
           /\ HostRules \subseteq rules'
           /\ PrefsOf(rules') = PrefsOf(rules) \ {p}
    BY NumberAssumption, RulePrefs
    DEF TypeOK, RulesInv, Delete, PrefsOf, HostRules

(* RuleAdd at a free preference. *)
LEMMA AddFacts ==
    ASSUME NEW r, Add(r)
    PROVE  rules' = rules \cup {r} /\ PrefsOf(rules') = PrefsOf(rules) \cup {r.pref}
    BY DEF Add, PrefsOf

(* The host's rules, and no others, are at the host's preferences. *)
LEMMA HostPrefs ==
    PrefsOf(HostRules) = {0, MainPref, MainPref + 1}
    BY RulePrefs DEF PrefsOf, HostRules

(* A process that has not started has no rules of its own. *)
LEMMA RulesInit == Init => IInv
<1> SUFFICES ASSUME Init PROVE RulesInv /\ GuardInv /\ PhaseInv
    BY TypeCorrectInit DEF IInv
<1>1. cfg \in Configs /\ rules = HostRules /\ pc = "down" /\ outcome = "none"
    BY DEF Init
<1>2. RulesInv
    BY <1>1, NumberAssumption, RulePrefs DEF RulesInv, HostRules
<1>3. GuardInv
    BY <1>1 DEF GuardInv
<1>4. PhaseInv
    BY <1>1 DEF PhaseInv, Serving
<1>5. QED
    BY <1>2, <1>3, <1>4

(* Steps that leave the rules alone keep what is known of them. *)
LEMMA RulesUntouched ==
    ASSUME IInv, rules' = rules, cfg' = cfg, pc # "down",
           pc' \in {"delGateway", "down"} => outcome' # "clean" \/ pc' = "delGateway",
           pc' \in {"delGateway", "down"} \/ (Serving /\ Serving')
    PROVE  RulesInv' /\ GuardInv' /\ PhaseInv'
<1>1. RulesInv'
    BY SameNumbers DEF IInv, RulesInv
<1>2. GuardInv'
    BY SameNumbers DEF IInv, GuardInv
<1>3. PhaseInv'
    BY SameNumbers DEF IInv, PhaseInv, Serving, ExcludeRule
<1>4. QED
    BY <1>1, <1>2, <1>3

(* Every netlink call keeps the rules in the order that guards the gateway
   rule, one per preference. *)
LEMMA RulesStep ==
    ASSUME SameSize, BelowMain
    PROVE  IInv /\ [Next]_vars => IInv'
<1> SUFFICES ASSUME IInv, [Next]_vars
             PROVE  RulesInv' /\ GuardInv' /\ PhaseInv'
    BY TypeCorrectStep DEF IInv
<1> DEFINE M == Len(cfg.nets)
<1>a. cfg \in Configs /\ slot \in Nat \ {0}
    BY DEF IInv, TypeOK
<1>b. /\ M \in Nat /\ FirstPref \in Nat /\ MainPref \in Nat
      /\ GatewayPref = FirstPref + M
      /\ FallthroughPref = FirstPref + M + 1
      /\ \A i \in 1..M : ExcludePref(i) = FirstPref + i - 1
      /\ \A i \in 1..M : cfg.nets[i] \in Nets
    BY <1>a, PrefFacts
<1>c. pc # "down" => 1 <= FirstPref /\ FallthroughPref < MainPref
    BY DEF IInv, RulesInv
<1>d. ASSUME pc # "down"
      PROVE  /\ GatewayPref \in Nat /\ 1 <= GatewayPref /\ GatewayPref < MainPref
             /\ FallthroughPref \in Nat /\ GatewayPref < FallthroughPref
             /\ 1 <= FallthroughPref /\ FallthroughPref < MainPref
             /\ \A i \in 1..Len(cfg.nets) :
                   /\ ExcludePref(i) \in Nat /\ 1 <= ExcludePref(i)
                   /\ ExcludePref(i) < GatewayPref /\ ExcludePref(i) < MainPref
             /\ \A i, j \in 1..Len(cfg.nets) : i # j => ExcludePref(i) # ExcludePref(j)
    <2>1. /\ GatewayPref \in Nat /\ 1 <= GatewayPref
          /\ GatewayPref < FallthroughPref /\ FallthroughPref \in Nat
          /\ FallthroughPref < MainPref /\ MainPref \in Nat
        BY <1>a, <1>b, <1>c, <1>d, OwnPrefs
    <2>2. \A i \in 1..Len(cfg.nets) :
              /\ ExcludePref(i) \in Nat /\ 1 <= ExcludePref(i)
              /\ ExcludePref(i) < GatewayPref
        BY <1>a, <1>c, <1>d, OwnPrefs
    <2>3. \A i, j \in 1..Len(cfg.nets) : i # j => ExcludePref(i) # ExcludePref(j)
        BY <1>b
    <2>4. QED
        BY <2>1, <2>2, <2>3
<1>1. ASSUME NEW c \in Configs, Start(c)
      PROVE  RulesInv' /\ GuardInv' /\ PhaseInv'
    <2>1. cfg' \in Configs /\ Len(cfg'.nets) = M
        BY <1>1, <1>a DEF Start, SameSize
    <2>2. rules' = rules /\ pc' = "delGateway" /\ outcome' = "none"
        BY <1>1 DEF Start, kernel
    <2>3. 1 <= FirstPref /\ FallthroughPref < MainPref
        <3>1. ValidPreference(c) /\ FirstPref # MainPref - (Len(c.nets) + 2) + 1
            BY <1>1, BelowMain DEF Start, BelowMain
        <3>2. Len(c.nets) = M
            BY <1>a, SameSize DEF SameSize
        <3>3. QED
            BY <3>1, <3>2, <1>b DEF ValidPreference
    <2>4. RulesInv'
        BY <2>1, <2>2, <2>3, SameNumbers DEF IInv, RulesInv
    <2>5. GuardInv'
        BY <2>1, <2>2, SameNumbers DEF IInv, GuardInv
    <2>6. PhaseInv'
        BY <2>2 DEF PhaseInv, Serving
    <2>7. QED
        BY <2>4, <2>5, <2>6
<1>2. CASE DelGateway
    <2>1. /\ pc = "delGateway" /\ pc' = "delExcludes" /\ slot' = 1
          /\ cfg' = cfg /\ Delete(GatewayPref)
        BY <1>2 DEF DelGateway
    <2>2. /\ rules' \subseteq rules /\ HostRules \subseteq rules'
          /\ PrefsOf(rules') = PrefsOf(rules) \ {GatewayPref}
        BY <2>1, <1>d, DeleteFacts DEF IInv
    <2>3. RulesInv'
        BY <2>1, <2>2, <1>c, SameNumbers DEF IInv, RulesInv
    <2>4. GuardInv'
        BY <2>1, <2>2, SameNumbers DEF GuardInv
    <2>5. PhaseInv'
        BY <2>1, <2>2, SameNumbers DEF PhaseInv, Serving
    <2>6. QED
        BY <2>3, <2>4, <2>5
<1>3. CASE DelExclude
    <2>1. /\ pc = "delExcludes" /\ pc' = pc /\ slot \in 1..M /\ slot' = slot + 1
          /\ cfg' = cfg /\ Delete(ExcludePref(slot))
        BY <1>3, <1>a, <1>b DEF DelExclude
    <2>2. /\ rules' \subseteq rules /\ HostRules \subseteq rules'
          /\ PrefsOf(rules') = PrefsOf(rules) \ {ExcludePref(slot)}
        BY <2>1, <1>d, DeleteFacts DEF IInv
    <2>3. RulesInv'
        BY <2>1, <2>2, <1>c, SameNumbers DEF IInv, RulesInv
    <2>4. GatewayPref \notin PrefsOf(rules')
        BY <2>1, <2>2 DEF IInv, PhaseInv
    <2>5. GuardInv'
        BY <2>1, <2>4, SameNumbers DEF GuardInv
    <2>6. PhaseInv'
        BY <2>1, <2>2, <2>4, <1>b, SameNumbers DEF IInv, PhaseInv, Serving
    <2>7. QED
        BY <2>3, <2>5, <2>6
<1>4. CASE DelFallthrough
    <2>1. /\ pc = "delExcludes" /\ pc' \in {"addFallthrough", "down"} /\ slot > M
          /\ cfg' = cfg /\ Delete(FallthroughPref)
        BY <1>4 DEF DelFallthrough
    <2>2. /\ rules' \subseteq rules /\ HostRules \subseteq rules'
          /\ PrefsOf(rules') = PrefsOf(rules) \ {FallthroughPref}
        BY <2>1, <1>d, DeleteFacts DEF IInv
    <2>3. /\ {GatewayPref, FallthroughPref} \cap PrefsOf(rules') = {}
          /\ \A i \in 1..M : ExcludePref(i) \notin PrefsOf(rules')
        BY <2>1, <2>2, <1>a, <1>b DEF IInv, PhaseInv
    <2>4. rules' = HostRules
        <3>1. ASSUME NEW r \in rules', r \notin HostRules
              PROVE  FALSE
            <4>1. r.pref \in PrefsOf(rules')
                BY DEF PrefsOf
            <4>2. IsOwnRule(r)
                BY <2>2, <3>1 DEF IInv, RulesInv
            <4>3. CASE r = GatewayRule \/ r = FallthroughRule
                BY <4>1, <4>3, <2>3, RulePrefs DEF GatewayRule, FallthroughRule
            <4>4. CASE \E i \in 1..M, n \in Nets :
                           r = JumpRule(ExcludePref(i), n, FallthroughPref)
                BY <4>1, <4>4, <2>3, RulePrefs
            <4>5. QED
                BY <4>2, <4>3, <4>4 DEF IsOwnRule
        <3>2. QED
            BY <2>2, <3>1
    <2>5. RulesInv'
        BY <2>1, <2>2, <2>4, <1>c, SameNumbers DEF IInv, RulesInv
    <2>6. GuardInv' /\ PhaseInv'
        BY <2>1, <2>4 DEF GuardInv, PhaseInv, Serving
    <2>7. QED
        BY <2>5, <2>6
<1>5. CASE RemovalFails
    BY <1>5, RulesUntouched DEF RemovalFails, Abort, kernel
<1>6. CASE AddFallthrough
    <2>1. /\ pc = "addFallthrough" /\ pc' = "addExcludes" /\ slot' = 1
          /\ cfg' = cfg /\ Add(FallthroughRule) /\ rules = HostRules
        BY <1>6 DEF AddFallthrough, IInv, PhaseInv
    <2>2. /\ rules' = HostRules \cup {FallthroughRule}
          /\ PrefsOf(rules') = {0, MainPref, MainPref + 1, FallthroughPref}
        BY <2>1, AddFacts, HostPrefs, RulePrefs DEF FallthroughRule
    <2>3. \A r \in HostRules : r.pref # FallthroughPref
        BY <2>1, <1>b, <1>c, RulePrefs DEF HostRules
    <2>4. RulesInv'
        BY <2>1, <2>2, <2>3, <1>c, SameNumbers, RulePrefs
        DEF IInv, RulesInv, IsOwnRule, FallthroughRule
    <2>5. /\ GatewayPref \notin PrefsOf(rules')
          /\ \A i \in 1..M : ExcludePref(i) \notin PrefsOf(rules')
        <3> DEFINE free(p) == p \in Nat /\ 1 <= p /\ p < MainPref /\ p # FallthroughPref
        <3>1. ASSUME NEW p, free(p) PROVE p \notin PrefsOf(rules')
            <4>1. PrefsOf(rules') = {0, MainPref, MainPref + 1, FallthroughPref}
                BY <2>2
            <4>2. p \notin {0, MainPref, MainPref + 1, FallthroughPref}
                BY <3>1, <1>b
            <4>3. QED
                BY <4>1, <4>2
        <3>2. pc # "down"
            BY <2>1
        <3>3. free(GatewayPref) /\ \A i \in 1..M : free(ExcludePref(i))
            BY <3>2, <1>b, <1>d
        <3>4. QED
            BY <3>1, <3>3
    <2>6. GuardInv'
        BY <2>1, <2>5, SameNumbers DEF GuardInv
    <2>7. PhaseInv'
        <3>1. FallthroughRule' \in rules'
            BY <2>1, <2>2, SameNumbers
        <3>2. \A i \in 1..Len(cfg'.nets) : ~(i < slot')
            BY <2>1, <1>b
        <3>3. QED
            BY <2>1, <2>5, <3>1, <3>2, SameNumbers DEF PhaseInv, Serving
    <2>8. QED
        BY <2>4, <2>6, <2>7
<1>7. CASE AddExclude
    <2>1. /\ pc = "addExcludes" /\ pc' = pc /\ slot \in 1..M /\ slot' = slot + 1
          /\ cfg' = cfg /\ Add(ExcludeRule(slot))
        BY <1>7, <1>a, <1>b DEF AddExclude
    <2>2. /\ rules' = rules \cup {ExcludeRule(slot)}
          /\ PrefsOf(rules') = PrefsOf(rules) \cup {ExcludePref(slot)}
        BY <2>1, AddFacts, RulePrefs DEF ExcludeRule
    <2>3. ExcludePref(slot) \notin PrefsOf(rules)
        BY <2>1, <1>b DEF IInv, PhaseInv
    <2>4. \A r \in rules : r.pref # ExcludeRule(slot).pref
        BY <2>3, RulePrefs DEF PrefsOf, ExcludeRule
    <2>5. IsOwnRule(ExcludeRule(slot))
        BY <2>1, <1>b DEF IsOwnRule, ExcludeRule
    <2>6. RulesInv'
        BY <2>1, <2>2, <2>4, <2>5, <1>c, SameNumbers DEF IInv, RulesInv
    <2>7. GatewayPref \notin PrefsOf(rules')
        <3>1. GatewayPref \notin PrefsOf(rules)
            BY <2>1 DEF IInv, PhaseInv
        <3>2. GatewayPref # ExcludePref(slot)
            BY <2>1, <1>b
        <3>3. QED
            BY <3>1, <3>2, <2>2
    <2>8. GuardInv'
        BY <2>1, <2>7, SameNumbers DEF GuardInv
    <2>9. PhaseInv'
        <3>1. FallthroughRule' \in rules'
            BY <2>1, <2>2, SameNumbers DEF IInv, PhaseInv
        <3>2. ASSUME NEW i \in 1..M
              PROVE  IF i < slot' THEN ExcludeRule(i)' \in rules'
                                  ELSE ExcludePref(i) \notin PrefsOf(rules')
            <4>1. ExcludeRule(i)' = ExcludeRule(i)
                BY <2>1, SameNumbers DEF ExcludeRule
            <4>2. CASE i < slot
                BY <4>1, <4>2, <2>1, <2>2, <1>a, <1>b DEF IInv, PhaseInv
            <4>3. CASE i = slot
                BY <4>1, <4>3, <2>1, <2>2, <1>a
            <4>4. CASE i > slot
                <5>1. ~(i < slot) /\ ~(i < slot') /\ i # slot
                    BY <4>4, <2>1, <1>a, <1>b
                <5>2. ExcludePref(i) \notin PrefsOf(rules) /\ ExcludePref(i) # ExcludePref(slot)
                    BY <5>1, <2>1, <1>d DEF IInv, PhaseInv
                <5>3. QED
                    BY <5>1, <5>2, <2>2
            <4>5. QED
                BY <4>2, <4>3, <4>4, <1>a
        <3>3. QED
            BY <2>1, <2>7, <3>1, <3>2, SameNumbers DEF PhaseInv, Serving
    <2>10. QED
        BY <2>6, <2>8, <2>9
<1>8. CASE AddGateway
    <2>1. /\ pc = "addExcludes" /\ pc' = "running" /\ slot > M
          /\ cfg' = cfg /\ Add(GatewayRule)
        BY <1>8 DEF AddGateway
    <2>2. /\ rules' = rules \cup {GatewayRule}
          /\ PrefsOf(rules') = PrefsOf(rules) \cup {GatewayPref}
        BY <2>1, AddFacts, RulePrefs DEF GatewayRule
    <2>3. /\ GatewayPref \notin PrefsOf(rules) /\ FallthroughRule \in rules
          /\ \A i \in 1..M : ExcludeRule(i) \in rules
        BY <2>1, <1>a, <1>b DEF IInv, PhaseInv
    <2>4. \A r \in rules : r.pref # GatewayRule.pref
        BY <2>3, RulePrefs DEF PrefsOf, GatewayRule
    <2>5. RulesInv'
        BY <2>1, <2>2, <2>4, <1>c, SameNumbers DEF IInv, RulesInv, IsOwnRule
    <2>6. /\ FallthroughPref \in PrefsOf(rules')
          /\ \A i \in 1..M : ExcludePref(i) \in PrefsOf(rules')
        BY <2>2, <2>3, RulePrefs DEF PrefsOf, FallthroughRule, ExcludeRule
    <2>7. GuardInv'
        BY <2>1, <2>6, SameNumbers DEF GuardInv
    <2>8. PhaseInv'
        BY <2>1, <2>2, <2>3, SameNumbers DEF PhaseInv, Serving, ExcludeRule
    <2>9. QED
        BY <2>5, <2>7, <2>8
<1>9. CASE AddFails
    BY <1>9, RulesUntouched DEF AddFails, Abort, kernel
<1>10. ASSUME NEW gs \in SUBSET Gateways, UpdateRoutes(gs)
       PROVE  RulesInv' /\ GuardInv' /\ PhaseInv'
    BY <1>10, RulesUntouched DEF UpdateRoutes, kernel, Serving
<1>11. CASE ReplaceRoute
    BY <1>11, RulesUntouched DEF ReplaceRoute, Serving
<1>12. CASE ReplaceDone
    BY <1>12, RulesUntouched DEF ReplaceDone, kernel, Serving
<1>13. CASE DropRoute
    BY <1>13, RulesUntouched DEF DropRoute, Serving
<1>14. CASE DropDone
    BY <1>14, RulesUntouched DEF DropDone, kernel, Serving
<1>15. CASE Close
    BY <1>15, RulesUntouched DEF Close, kernel, Serving
<1>16. CASE RouteCallFails
    BY <1>16, RulesUntouched DEF RouteCallFails, kernel, Serving
<1>17. CASE Crash
    BY <1>17, RulesUntouched DEF Crash, kernel
<1>18. CASE UNCHANGED vars
    BY <1>18, SameNumbers
    DEF vars, IInv, RulesInv, GuardInv, PhaseInv, Serving, ExcludeRule
<1>19. QED
    BY <1>1, <1>2, <1>3, <1>4, <1>5, <1>6, <1>7, <1>8, <1>9, <1>10, <1>11,
       <1>12, <1>13, <1>14, <1>15, <1>16, <1>17, <1>18 DEF Next

(* The kernel holds the host's rules and, one per preference, a part of the
   manager's, and never the gateway rule without the rules that lead around it,
   however starts, failures, stops and crashes follow one another. *)
THEOREM RulesInductive ==
    ASSUME SameSize, BelowMain
    PROVE  Spec => []IInv
<1>1. IInv /\ [Next]_vars => IInv'
    BY RulesStep
<1>2. QED
    BY <1>1, RulesInit, PTL DEF Spec
=============================================================================
