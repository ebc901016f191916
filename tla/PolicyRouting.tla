--------------------------- MODULE PolicyRouting ---------------------------
(***************************************************************************)
(* Linux policy routing as pkg/routes uses it: a set of prioritised rules, *)
(* and the order in which a lookup consults them.  External to src/: the   *)
(* part of the kernel that netlink.RuleAdd, RuleDel and RuleList act on.   *)
(*                                                                         *)
(* A rule selects destinations (a network, or All) at a preference, and    *)
(* either looks a table up or jumps to the rules at a higher preference.   *)
(* A lookup starts at the lowest preference and moves on to the next one   *)
(* whenever the table consulted has no route for the destination.          *)
(***************************************************************************)
EXTENDS Integers

CONSTANT All  \* the selector of a rule without a destination network

NoJump == -1  \* the Goto field of netlink.NewRule()
NoTable == 0  \* the Table field of netlink.NewRule()

TableRule(pref, table) ==
    [pref |-> pref, dst |-> All, table |-> table, goto |-> NoJump]

JumpRule(pref, net, target) ==
    [pref |-> pref, dst |-> net, table |-> NoTable, goto |-> target]

PrefsOf(rules) == {r.pref : r \in rules}

\* The jumps a lookup for d may take at p.  The kernel passes over a jump
\* whose target preference holds no rule.
JumpsAt(rules, d, p) ==
    {r \in rules : /\ r.pref = p
                   /\ r.dst \in {All, d}
                   /\ r.goto # NoJump
                   /\ r.goto \in PrefsOf(rules)}

\* A lookup for d that the rules at p have not answered goes on at q.  Jumps
\* lead forward only.
GoesOn(rules, d, p, q) ==
    /\ p < q
    /\ IF JumpsAt(rules, d, p) # {}
       THEN \E r \in JumpsAt(rules, d, p) : q = r.goto
       ELSE \A r \in rules : ~(p < r.pref /\ r.pref < q)

\* A lookup for d consults the rules at q while no table answers it.
Reaches(rules, d, q) ==
    LET prefs == PrefsOf(rules)
        reached[r \in prefs] ==
            \/ \A p \in prefs : r <= p
            \/ \E p \in prefs : GoesOn(rules, d, p, r) /\ reached[p]
    IN  reached[q]

\* A lookup for d looks the table up, in the same sense.
Consults(rules, d, table) ==
    \E r \in rules : /\ r.table = table
                     /\ r.goto = NoJump
                     /\ r.dst \in {All, d}
                     /\ Reaches(rules, d, r.pref)
=============================================================================
