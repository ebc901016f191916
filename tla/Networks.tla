------------------------------ MODULE Networks ------------------------------
(***************************************************************************)
(* pkg/iputil: ReduceNetworks, one action per pass and, within the merging *)
(* pass, per network.  A network is its prefix, a sequence of bits; its    *)
(* addresses are the bit sequences of full width that start with it.       *)
(***************************************************************************)
EXTENDS Integers, FiniteSets, SequencesExt

CONSTANT Width  \* bits of an address: 32 in the code

Bit == {0, 1}
AllNets == UNION {[1..n -> Bit] : n \in 0..Width}
Addresses == [1..Width -> Bit]

VARIABLES
    nets,   \* the working copy
    cover,  \* history: the addresses of the networks passed to the call
    pc,     \* the pass that comes next
    i,      \* mergeAdjacentNetworks: position in nets
    used,   \* mergeAdjacentNetworks: positions merged away
    out     \* mergeAdjacentNetworks: its result so far

vars == <<nets, cover, pc, i, used, out>>

IsSubnetOf(subnet, network) == IsPrefix(network, subnet)

AddressesOf(ps) == {a \in Addresses : \E p \in ps : IsSubnetOf(a, p)}

\* sortNetworks: by the first address, longer prefixes first.
FirstAddress(p) == [k \in 1..Width |-> IF k <= Len(p) THEN p[k] ELSE 0]

Precedes(a, b) == \E k \in 1..Width : a[k] < b[k] /\ \A j \in 1..(k - 1) : a[j] = b[j]

Before(p, q) ==
    \/ Precedes(FirstAddress(p), FirstAddress(q))
    \/ FirstAddress(p) = FirstAddress(q) /\ Len(p) > Len(q)

\* The elements of s at the positions of P, each after those that R puts before it.
Arranged(s, P, R) ==
    LET Nth(n) == CHOOSE k \in P : Cardinality({j \in P : <<j, k>> \in R}) = n - 1
    IN  [n \in 1..Cardinality(P) |-> s[Nth(n)]]

\* Equal networks keep their order.
Sorted(s) ==
    LET P == DOMAIN s
        R == {jk \in P \X P :
                 LET p == s[jk[1]]  q == s[jk[2]]
                 IN  Before(p, q) \/ (p = q /\ jk[1] < jk[2])}
    IN  Arranged(s, P, R)

\* The elements of s at the positions of P, in the order of s.
At(s, P) == Arranged(s, P, {jk \in P \X P : jk[1] < jk[2]})

WithoutDuplicates(s) ==
    At(s, {k \in DOMAIN s : \A j \in 1..(k - 1) : s[j] # s[k]})

WithoutSubsets(s) ==
    At(s, {k \in DOMAIN s : \A j \in DOMAIN s \ {k} : ~IsSubnetOf(s[k], s[j])})

\* Wrong on purpose: the networks need not have the same parent.
MergeableAnywhere(p, q) == Len(p) = Len(q) /\ Len(p) > 0 /\ Last(p) # Last(q)

\* tryMergeNetworks: the two halves of one network.
Mergeable(p, q) ==
    /\ Len(p) = Len(q)
    /\ Len(p) > 0
    /\ Front(p) = Front(q)
    /\ Last(p) # Last(q)

\* A call with the networks of a sequence.
Begins(networks) ==
    /\ nets = networks
    /\ cover = AddressesOf(ToSet(networks))
    /\ pc = "sort"
    /\ i = 1
    /\ used = {}
    /\ out = <<>>

Init == \E networks \in Seq(AllNets) : Begins(networks)

\* A call with at most one network returns it as it is.
ReturnEarly ==
    /\ pc = "sort"
    /\ Len(nets) <= 1
    /\ pc' = "done"
    /\ UNCHANGED <<nets, cover, i, used, out>>

SortNetworks ==
    /\ pc = "sort"
    /\ Len(nets) > 1
    /\ nets' = Sorted(nets)
    /\ pc' = "duplicates"
    /\ UNCHANGED <<cover, i, used, out>>

RemoveDuplicateNetworks ==
    /\ pc = "duplicates"
    /\ nets' = WithoutDuplicates(nets)
    /\ pc' = "subsets"
    /\ UNCHANGED <<cover, i, used, out>>

RemoveSubsetNetworks ==
    /\ pc = "subsets"
    /\ nets' = WithoutSubsets(nets)
    /\ pc' = "merge"
    /\ UNCHANGED <<cover, i, used, out>>

\* The networks after i that can be merged with it, in this pass.
Mates == {j \in (i + 1)..Len(nets) : j \notin used /\ Mergeable(nets[i], nets[j])}

MergeNext ==
    /\ pc = "merge"
    /\ i <= Len(nets)
    /\ i \notin used
    /\ IF Mates = {}
       THEN out' = Append(out, nets[i]) /\ UNCHANGED used
       ELSE /\ out' = Append(out, Front(nets[i]))
            /\ used' = used \cup {Min(Mates)}
    /\ i' = i + 1
    /\ UNCHANGED <<nets, cover, pc>>

MergeSkip ==
    /\ pc = "merge"
    /\ i <= Len(nets)
    /\ i \in used
    /\ i' = i + 1
    /\ UNCHANGED <<nets, cover, pc, used, out>>

\* Wrong on purpose: the position is not reset for the next pass.
PassEndsWithoutReset ==
    /\ pc = "merge"
    /\ i > Len(nets)
    /\ pc' = IF Len(out) = Len(nets) THEN "done" ELSE "merge"
    /\ nets' = Sorted(out)
    /\ used' = {} /\ out' = <<>>
    /\ UNCHANGED <<cover, i>>

\* Wrong on purpose: one pass, or endless ones.
PassEndsOnce ==
    /\ pc = "merge"
    /\ i > Len(nets)
    /\ pc' = "done"
    /\ nets' = Sorted(out)
    /\ i' = 1 /\ used' = {} /\ out' = <<>>
    /\ UNCHANGED cover

PassEndsNever ==
    /\ pc = "merge"
    /\ i > Len(nets)
    /\ nets' = Sorted(out)
    /\ i' = 1 /\ used' = {} /\ out' = <<>>
    /\ UNCHANGED <<cover, pc>>

\* A pass that merged something is followed by another one.
PassEnds ==
    /\ pc = "merge"
    /\ i > Len(nets)
    /\ IF Len(out) = Len(nets)
       THEN pc' = "done" /\ UNCHANGED nets
       ELSE nets' = Sorted(out) /\ UNCHANGED pc
    /\ i' = 1 /\ used' = {} /\ out' = <<>>
    /\ UNCHANGED cover

Next ==
    \/ ReturnEarly
    \/ SortNetworks \/ RemoveDuplicateNetworks \/ RemoveSubsetNetworks
    \/ MergeNext \/ MergeSkip \/ PassEnds

Spec == Init /\ [][Next]_vars

\* A sequential program takes its steps.
FairSpec == Spec /\ WF_vars(Next)
-----------------------------------------------------------------------------

TypeOK ==
    /\ nets \in Seq(AllNets) /\ out \in Seq(AllNets)
    /\ cover \subseteq Addresses
    /\ pc \in {"sort", "duplicates", "subsets", "merge", "done"}
    /\ i \in 1..(Len(nets) + 1)
    /\ used \subseteq 1..Len(nets)

\* The networks still to be looked at in this pass.
Rest == {nets[k] : k \in {k \in i..Len(nets) : k \notin used}}

\* No pass, and no single merge, gains or loses an address: what is merged and
\* what is still to be merged cover what the call was given.
CoverageKept == AddressesOf(ToSet(out) \cup Rest) = cover

\* The networks within a set of addresses that no larger one contains.
Maximal(A) ==
    LET within == {p \in AllNets : AddressesOf({p}) \subseteq A}
    IN  {p \in within : \A q \in within : IsSubnetOf(p, q) => q = p}

\* ReduceNetworks "reduces a slice of networks into the smallest possible set",
\* in which no two networks overlap.
ResultSmallest ==
    pc = "done" => /\ ToSet(nets) = Maximal(cover)
                   /\ Len(nets) = Cardinality(ToSet(nets))

Pass == [sort |-> 1, duplicates |-> 2, subsets |-> 3, merge |-> 4, done |-> 5]

\* Each step comes nearer to the end of the loop: a later pass, a merging pass with
\* fewer networks than the last one, or fewer networks left to look at in this one.
Advances ==
    \/ Pass[pc'] > Pass[pc]
    \/ pc' = pc /\ Len(nets') < Len(nets)
    \/ pc' = pc /\ nets' = nets /\ i < i' /\ i' <= Len(nets) + 1

\* The loop of merging passes ends.
Terminates == <>(pc = "done")
=============================================================================
