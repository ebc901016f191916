--------------------------- MODULE NetworksProofs ---------------------------
(***************************************************************************)
(* What ReduceNetworks does with any list of networks, for addresses of    *)
(* any width.                                                              *)
(***************************************************************************)
EXTENDS Networks, FiniteSetTheorems, SequenceTheorems, TLAPS

(* A set of natural numbers has a least element. *)
LEMMA LeastElement ==
    ASSUME NEW S \in SUBSET Nat, S # {}
    PROVE  \E n \in S : \A m \in S : n <= m
<1> DEFINE T == {1..n : n \in S}
<1>1. \A n \in S : 1..n \in FiniteSubsetsOf(Nat)
    BY FS_Interval DEF FiniteSubsetsOf
<1>2. T \subseteq FiniteSubsetsOf(Nat) /\ T # {}
    BY <1>1
<1>3. PICK X \in T : \A Y \in T : <<Y, X>> \notin StrictSubsetOrdering(Nat)
    <2> HIDE DEF T
    <2>1. QED
        BY <1>2, FS_StrictSubsetOrderingWellFounded, WFMin
<1>4. PICK n \in S : X = 1..n
    BY <1>3
<1>5. \A m \in S : <<1..m, 1..n>> \notin StrictSubsetOrdering(Nat)
    BY <1>3, <1>4
<1>6. \A m \in S : m < n => 1..m \subseteq 1..n /\ n \in 1..n /\ n \notin 1..m
    OBVIOUS
<1>7. \A m \in S : 1..m \in SUBSET Nat
    OBVIOUS
<1>8. \A m \in S : ~(m < n)
    BY <1>5, <1>6, <1>7 DEF StrictSubsetOrdering
<1>9. QED
    BY <1>8

(* One that has a bound has a greatest. *)
LEMMA GreatestElement ==
    ASSUME NEW S \in SUBSET Nat, S # {}, NEW b \in Nat, \A n \in S : n <= b
    PROVE  \E n \in S : \A m \in S : m <= n
<1> DEFINE D == {b - n : n \in S}
<1>1. D \in SUBSET Nat /\ D # {}
    <2>1. \A n \in S : n \in Nat /\ n <= b => b - n \in Nat
        OBVIOUS
    <2>2. QED
        BY <2>1
<1>2. PICK k \in D : \A m \in D : k <= m
    BY <1>1, LeastElement
<1>3. PICK n \in S : k = b - n
    BY <1>2
<1>4. \A m \in S : b - n <= b - m
    BY <1>2, <1>3
<1>5. QED
    BY <1>4
-----------------------------------------------------------------------------

\* R orders the elements of P strictly, one after the other.
Orders(R, P) ==
    /\ \A x \in P : <<x, x>> \notin R
    /\ \A x, y \in P : x # y => <<x, y>> \in R \/ <<y, x>> \in R
    /\ \A x, y, z \in P : <<x, y>> \in R /\ <<y, z>> \in R => <<x, z>> \in R

(* In a finite set in order each place is taken, by one element. *)
LEMMA PlacesTaken ==
    ASSUME NEW P, IsFiniteSet(P), NEW R, Orders(R, P)
    PROVE  [k \in P |-> Cardinality({j \in P : <<j, k>> \in R}) + 1]
               \in Bijection(P, 1..Cardinality(P))
<1> DEFINE Below(k) == {j \in P : <<j, k>> \in R}
           f == [k \in P |-> Cardinality(Below(k)) + 1]
<1>1. Cardinality(P) \in Nat /\ IsFiniteSet(1..Cardinality(P))
      /\ Cardinality(1..Cardinality(P)) = Cardinality(P)
    BY FS_CardinalityType, FS_Interval
<1>2. ASSUME NEW k \in P
      PROVE  /\ IsFiniteSet(Below(k)) /\ Cardinality(Below(k)) \in Nat
             /\ Cardinality(Below(k)) < Cardinality(P)
    <2>1. Below(k) \in SUBSET (P \ {k})
        BY DEF Orders
    <2>2. IsFiniteSet(P \ {k}) /\ Cardinality(P \ {k}) = Cardinality(P) - 1
        BY FS_RemoveElement
    <2>3. IsFiniteSet(Below(k)) /\ Cardinality(Below(k)) <= Cardinality(P \ {k})
        BY <2>1, <2>2, FS_Subset
    <2>4. Cardinality(Below(k)) \in Nat
        BY <2>3, FS_CardinalityType
    <2>5. QED
        BY <1>1, <2>2, <2>3, <2>4
<1>3. ASSUME NEW x \in P, NEW y \in P, <<x, y>> \in R
      PROVE  Cardinality(Below(x)) # Cardinality(Below(y))
    <2>1. Below(x) \in SUBSET Below(y)
        BY <1>3 DEF Orders
    <2>2. x \in Below(y) /\ x \notin Below(x)
        BY <1>3 DEF Orders
    <2>3. Cardinality(Below(y)) = Cardinality(Below(x)) => Below(y) = Below(x)
        BY <1>2, <2>1, FS_Subset
    <2>4. QED
        BY <2>2, <2>3
<1> HIDE DEF Below
<1>4. \A x, y \in P : Cardinality(Below(x)) = Cardinality(Below(y)) => x = y
    BY <1>3 DEF Orders
<1>5. f \in [P -> 1..Cardinality(P)]
    BY <1>1, <1>2
<1>6. \A x, y \in P : f[x] = f[y] => x = y
    BY <1>2, <1>4
<1>7. f \in Injection(P, 1..Cardinality(P))
    BY <1>5, <1>6 DEF Injection, IsInjective
<1>8. f \in Surjection(P, 1..Cardinality(P))
    BY <1>1, <1>7, FS_Injection
<1>9. QED
    BY <1>7, <1>8 DEF Bijection, Below

(* Arranged rearranges: it takes each position of P once. *)
LEMMA ArrangedOnce ==
    ASSUME NEW s, NEW P, IsFiniteSet(P), NEW R, Orders(R, P)
    PROVE  \E pos \in Bijection(1..Cardinality(P), P) :
               Arranged(s, P, R) = [n \in 1..Cardinality(P) |-> s[pos[n]]]
<1> DEFINE Place(k) == Cardinality({j \in P : <<j, k>> \in R})
           f == [k \in P |-> Place(k) + 1]
           Nth(n) == CHOOSE k \in P : Place(k) = n - 1
           pos == [n \in 1..Cardinality(P) |-> Nth(n)]
<1>1. f \in Bijection(P, 1..Cardinality(P))
    BY PlacesTaken
<1>2. Cardinality(P) \in Nat /\ \A k \in P : Place(k) \in Nat
    <2>1. \A k \in P : IsFiniteSet({j \in P : <<j, k>> \in R})
        BY FS_Subset
    <2>2. QED
        BY <2>1, FS_CardinalityType
<1> HIDE DEF Place
<1>3. \A k \in P : f[k] = Place(k) + 1
    OBVIOUS
<1>4. \A n \in 1..Cardinality(P) : \E k \in P : Place(k) = n - 1
    <2>1. \A n \in 1..Cardinality(P) : \E k \in P : f[k] = n
        BY <1>1 DEF Bijection, Surjection
    <2>2. QED
        BY <1>2, <1>3, <2>1
<1>5. \A n \in 1..Cardinality(P) : Nth(n) \in P /\ Place(Nth(n)) = n - 1
    BY <1>4
<1>6. \A k \in P : Place(k) + 1 \in 1..Cardinality(P) /\ Nth(Place(k) + 1) = k
    <2>1. \A k \in P : Place(k) + 1 \in 1..Cardinality(P)
        BY <1>1, <1>3 DEF Bijection, Injection
    <2>2. \A x, y \in P : Place(x) = Place(y) => x = y
        BY <1>1, <1>3 DEF Bijection, Injection, IsInjective
    <2>3. \A k \in P : Place(Nth(Place(k) + 1)) = Place(k)
        BY <1>2, <1>5, <2>1
    <2>4. QED
        BY <1>5, <2>1, <2>2, <2>3
<1> HIDE DEF Nth
<1>7. pos \in [1..Cardinality(P) -> P]
    BY <1>5
<1>8. \A m, n \in 1..Cardinality(P) : pos[m] = pos[n] => m = n
    BY <1>2, <1>5
<1>9. \A k \in P : \E n \in 1..Cardinality(P) : pos[n] = k
    BY <1>6
<1>10. pos \in Bijection(1..Cardinality(P), P)
    BY <1>7, <1>8, <1>9 DEF Bijection, Injection, IsInjective, Surjection
<1>11. Arranged(s, P, R) = [n \in 1..Cardinality(P) |-> s[pos[n]]]
    BY DEF Arranged, Nth, Place
<1>12. QED
    BY <1>10, <1>11
-----------------------------------------------------------------------------

(* A network is a sequence of at most Width bits; an address has all of them. *)
LEMMA NetworkShape ==
    ASSUME Width \in Nat
    PROVE  /\ \A p : p \in AllNets <=> p \in Seq(Bit) /\ Len(p) <= Width
           /\ \A a : a \in Addresses <=> a \in Seq(Bit) /\ Len(a) = Width
           /\ \A p \in AllNets : Len(p) \in 0..Width /\ p \in [1..Len(p) -> Bit]
           /\ Addresses \subseteq AllNets
<1>1. \A n \in Nat : \A p : p \in [1..n -> Bit] <=> p \in Seq(Bit) /\ Len(p) = n
    OBVIOUS
<1>2. \A p \in Seq(Bit) : Len(p) \in Nat
    OBVIOUS
<1>3. \A p : p \in AllNets <=> \E n \in 0..Width : p \in [1..n -> Bit]
    BY DEF AllNets
<1>4. \A p : p \in AllNets <=> p \in Seq(Bit) /\ Len(p) <= Width
    BY <1>1, <1>2, <1>3
<1>5. \A a : a \in Addresses <=> a \in Seq(Bit) /\ Len(a) = Width
    BY <1>1 DEF Addresses
<1>6. QED
    BY <1>1, <1>2, <1>4, <1>5

(* Addresses are in a total order. *)
LEMMA AddressOrder ==
    ASSUME Width \in Nat
    PROVE  /\ \A a \in Addresses : ~Precedes(a, a)
           /\ \A a, b \in Addresses : a # b => Precedes(a, b) \/ Precedes(b, a)
           /\ \A a, b, c \in Addresses :
                  Precedes(a, b) /\ Precedes(b, c) => Precedes(a, c)
<1>1. \A a \in Addresses : ~Precedes(a, a)
    BY DEF Precedes, Addresses, Bit
<1>2. ASSUME NEW a \in Addresses, NEW b \in Addresses, a # b
      PROVE  Precedes(a, b) \/ Precedes(b, a)
    <2> DEFINE D == {k \in 1..Width : a[k] # b[k]}
    <2>1. D \in SUBSET Nat /\ D # {}
        BY <1>2 DEF Addresses
    <2>2. PICK k \in D : \A j \in D : k <= j
        BY <2>1, LeastElement
    <2>3. \A j \in 1..(k - 1) : a[j] = b[j]
        BY <2>2
    <2>4. a[k] \in Bit /\ b[k] \in Bit /\ a[k] # b[k] /\ k \in 1..Width
        BY DEF Addresses
    <2>5. a[k] < b[k] \/ b[k] < a[k]
        BY <2>4 DEF Bit
    <2>6. QED
        BY <2>3, <2>4, <2>5 DEF Precedes
<1>3. ASSUME NEW a \in Addresses, NEW b \in Addresses, NEW c \in Addresses,
             Precedes(a, b), Precedes(b, c)
      PROVE  Precedes(a, c)
    <2>1. PICK j \in 1..Width : a[j] < b[j] /\ \A m \in 1..(j - 1) : a[m] = b[m]
        BY <1>3 DEF Precedes
    <2>2. PICK k \in 1..Width : b[k] < c[k] /\ \A m \in 1..(k - 1) : b[m] = c[m]
        BY <1>3 DEF Precedes
    <2>3. \A m \in 1..Width : a[m] \in Int /\ b[m] \in Int /\ c[m] \in Int
        BY DEF Addresses, Bit
    <2>4. CASE j <= k
        <3>1. a[j] < c[j]
            BY <2>1, <2>2, <2>3, <2>4
        <3>2. \A m \in 1..(j - 1) : a[m] = c[m]
            BY <2>1, <2>2, <2>4
        <3>3. QED
            BY <3>1, <3>2 DEF Precedes
    <2>5. CASE k < j
        <3>1. a[k] < c[k]
            BY <2>1, <2>2, <2>3, <2>5
        <3>2. \A m \in 1..(k - 1) : a[m] = c[m]
            BY <2>1, <2>2, <2>5
        <3>3. QED
            BY <3>1, <3>2 DEF Precedes
    <2>6. QED
        BY <2>4, <2>5
<1>4. QED
    BY <1>1, <1>2, <1>3

(* A network is the first address and the length of its prefix. *)
LEMMA FirstAddressType ==
    ASSUME Width \in Nat
    PROVE  /\ \A p \in AllNets : FirstAddress(p) \in Addresses
           /\ \A p, q \in AllNets :
                  FirstAddress(p) = FirstAddress(q) /\ Len(p) = Len(q) => p = q
<1>1. ASSUME NEW p \in AllNets
      PROVE  FirstAddress(p) \in Addresses
    <2>1. Len(p) \in 0..Width /\ p \in [1..Len(p) -> Bit]
        BY NetworkShape
    <2>2. QED
        BY <2>1 DEF FirstAddress, Addresses, Bit
<1>2. ASSUME NEW p \in AllNets, NEW q \in AllNets,
             FirstAddress(p) = FirstAddress(q), Len(p) = Len(q)
      PROVE  p = q
    <2>1. Len(p) \in 0..Width /\ p \in [1..Len(p) -> Bit] /\ q \in [1..Len(p) -> Bit]
        BY <1>2, NetworkShape
    <2>2. ASSUME NEW k \in 1..Len(p)
          PROVE  p[k] = q[k]
        <3>1. k \in 1..Width
            BY <2>1
        <3>2. FirstAddress(p)[k] = p[k] /\ FirstAddress(q)[k] = q[k]
            BY <1>2, <2>1, <3>1 DEF FirstAddress
        <3>3. QED
            BY <1>2, <3>2
    <2>3. QED
        BY <2>1, <2>2
<1>3. QED
    BY <1>1, <1>2

(* Sorting keeps the networks of a list, each as often as it is there. *)
LEMMA SortedRearranges ==
    ASSUME Width \in Nat, NEW s \in Seq(AllNets)
    PROVE  \E pos \in Bijection(1..Len(s), 1..Len(s)) :
               Sorted(s) = [n \in 1..Len(s) |-> s[pos[n]]]
<1> DEFINE P == 1..Len(s)
           R == {jk \in P \X P :
                    LET p == s[jk[1]]  q == s[jk[2]]
                    IN  Before(p, q) \/ (p = q /\ jk[1] < jk[2])}
<1>1. DOMAIN s = 1..Len(s) /\ Len(s) \in Nat /\ \A k \in 1..Len(s) : s[k] \in AllNets
    OBVIOUS
<1>2. \A j, k \in 1..Len(s) :
          <<j, k>> \in R <=> Before(s[j], s[k]) \/ (s[j] = s[k] /\ j < k)
    OBVIOUS
<1>3. /\ \A p \in AllNets : ~Before(p, p) /\ Len(p) \in Nat
      /\ \A p, q \in AllNets : p # q => Before(p, q) \/ Before(q, p)
      /\ \A p, q, r \in AllNets : Before(p, q) /\ Before(q, r) => Before(p, r)
    <2>1. \A p \in AllNets : Len(p) \in Nat
        BY NetworkShape
    <2>2. \A p \in AllNets : ~Before(p, p)
        BY <2>1, AddressOrder, FirstAddressType DEF Before
    <2>3. \A p, q \in AllNets : p # q => Before(p, q) \/ Before(q, p)
        BY <2>1, AddressOrder, FirstAddressType DEF Before
    <2>4. \A p, q, r \in AllNets : Before(p, q) /\ Before(q, r) => Before(p, r)
        BY <2>1, AddressOrder, FirstAddressType DEF Before
    <2>5. QED
        BY <2>1, <2>2, <2>3, <2>4
<1>4. Orders(R, 1..Len(s))
    <2> HIDE DEF R
    <2>1. \A x \in 1..Len(s) : <<x, x>> \notin R
        BY <1>1, <1>2, <1>3
    <2>2. \A x, y \in 1..Len(s) : x # y => <<x, y>> \in R \/ <<y, x>> \in R
        BY <1>1, <1>2, <1>3
    <2>3. \A x, y, z \in 1..Len(s) :
              <<x, y>> \in R /\ <<y, z>> \in R => <<x, z>> \in R
        BY <1>1, <1>2, <1>3
    <2>4. QED
        BY <2>1, <2>2, <2>3 DEF Orders
<1>5. IsFiniteSet(1..Len(s)) /\ Cardinality(1..Len(s)) = Len(s)
    <2>1. Len(s) \in Nat
        BY <1>1
    <2>2. QED
        BY <2>1, FS_Interval
<1>6. Sorted(s) = Arranged(s, 1..Len(s), R)
    BY <1>1 DEF Sorted
<1> HIDE DEF R
<1>7. \E pos \in Bijection(1..Cardinality(1..Len(s)), 1..Len(s)) :
          Sorted(s) = [n \in 1..Cardinality(1..Len(s)) |-> s[pos[n]]]
    <2>1. IsFiniteSet(P) /\ Orders(R, P)
        BY <1>4, <1>5
    <2> HIDE DEF P
    <2>2. \E pos \in Bijection(1..Cardinality(P), P) :
              Arranged(s, P, R) = [n \in 1..Cardinality(P) |-> s[pos[n]]]
        BY <2>1, ArrangedOnce
    <2>3. QED
        BY <1>6, <2>2 DEF P
<1>8. QED
    BY <1>5, <1>7

(* At takes the positions asked for, each once. *)
LEMMA AtRearranges ==
    ASSUME NEW S, NEW s \in Seq(S), NEW P \in SUBSET (1..Len(s))
    PROVE  /\ Cardinality(P) \in Nat
           /\ \E pos \in Bijection(1..Cardinality(P), P) :
                  At(s, P) = [n \in 1..Cardinality(P) |-> s[pos[n]]]
<1> DEFINE R == {jk \in P \X P : jk[1] < jk[2]}
<1>1. IsFiniteSet(P)
    <2>1. Len(s) \in Nat
        OBVIOUS
    <2>2. IsFiniteSet(1..Len(s))
        BY <2>1, FS_Interval
    <2>3. QED
        BY <2>2, FS_Subset
<1>2. \A j, k \in P : <<j, k>> \in R <=> j < k
    OBVIOUS
<1>3. Orders(R, P)
    <2> HIDE DEF R
    <2>1. QED
        BY <1>2 DEF Orders
<1>4. At(s, P) = Arranged(s, P, R)
    BY DEF At
<1> HIDE DEF R
<1>5. QED
    BY <1>1, <1>3, <1>4, ArrangedOnce, FS_CardinalityType
-----------------------------------------------------------------------------

(* One network is within another if it has all the bits of the other's prefix. *)
LEMMA SubnetBits ==
    ASSUME Width \in Nat, NEW p \in AllNets, NEW q \in AllNets
    PROVE  IsSubnetOf(q, p) <=> Len(p) <= Len(q) /\ \A k \in 1..Len(p) : p[k] = q[k]
<1>1. p \in Seq(Bit) /\ q \in Seq(Bit)
    BY NetworkShape
<1>2. QED
    BY <1>1 DEF IsSubnetOf, IsPrefix

(* Networks are within each other or apart: the order is that of a tree. *)
LEMMA SubnetOrder ==
    ASSUME Width \in Nat
    PROVE  /\ \A p \in AllNets : IsSubnetOf(p, p)
           /\ \A p, q \in AllNets : IsSubnetOf(p, q) => Len(q) <= Len(p)
           /\ \A p, q \in AllNets : IsSubnetOf(p, q) /\ Len(p) <= Len(q) => p = q
           /\ \A p, q, r \in AllNets :
                  IsSubnetOf(p, q) /\ IsSubnetOf(q, r) => IsSubnetOf(p, r)
           /\ \A p, q, r \in AllNets :
                  IsSubnetOf(r, p) /\ IsSubnetOf(r, q) /\ Len(q) <= Len(p)
                      => IsSubnetOf(p, q)
<1>1. \A p \in AllNets : Len(p) \in 0..Width /\ p \in [1..Len(p) -> Bit]
    BY NetworkShape
<1>2. \A p \in AllNets : IsSubnetOf(p, p)
    BY <1>1, SubnetBits
<1>3. \A p, q \in AllNets : IsSubnetOf(p, q) => Len(q) <= Len(p)
    BY SubnetBits
<1>4. ASSUME NEW p \in AllNets, NEW q \in AllNets, IsSubnetOf(p, q), Len(p) <= Len(q)
      PROVE  p = q
    <2>1. Len(p) = Len(q) /\ \A k \in 1..Len(q) : q[k] = p[k]
        BY <1>1, <1>4, SubnetBits
    <2>2. QED
        BY <1>1, <2>1
<1>5. ASSUME NEW p \in AllNets, NEW q \in AllNets, NEW r \in AllNets,
             IsSubnetOf(p, q), IsSubnetOf(q, r)
      PROVE  IsSubnetOf(p, r)
    <2>1. Len(q) <= Len(p) /\ \A k \in 1..Len(q) : q[k] = p[k]
        BY <1>5, SubnetBits
    <2>2. Len(r) <= Len(q) /\ \A k \in 1..Len(r) : r[k] = q[k]
        BY <1>5, SubnetBits
    <2>3. Len(r) <= Len(p) /\ \A k \in 1..Len(r) : r[k] = p[k]
        BY <1>1, <2>1, <2>2
    <2>4. QED
        BY <2>3, SubnetBits
<1>6. ASSUME NEW p \in AllNets, NEW q \in AllNets, NEW r \in AllNets,
             IsSubnetOf(r, p), IsSubnetOf(r, q), Len(q) <= Len(p)
      PROVE  IsSubnetOf(p, q)
    <2>1. Len(p) <= Len(r) /\ \A k \in 1..Len(p) : p[k] = r[k]
        BY <1>6, SubnetBits
    <2>2. \A k \in 1..Len(q) : q[k] = r[k]
        BY <1>6, SubnetBits
    <2>3. \A k \in 1..Len(q) : q[k] = p[k]
        BY <1>1, <1>6, <2>1, <2>2
    <2>4. QED
        BY <1>6, <2>3, SubnetBits
<1>7. QED
    BY <1>2, <1>3, <1>4, <1>5, <1>6

(* No network is empty. *)
LEMMA FirstAddressWithin ==
    ASSUME Width \in Nat, NEW p \in AllNets
    PROVE  FirstAddress(p) \in Addresses /\ IsSubnetOf(FirstAddress(p), p)
<1>1. Len(p) \in 0..Width /\ FirstAddress(p) \in Addresses
    BY NetworkShape, FirstAddressType
<1>2. Len(FirstAddress(p)) = Width /\ FirstAddress(p) \in AllNets
    BY <1>1, NetworkShape
<1>3. \A k \in 1..Len(p) : p[k] = FirstAddress(p)[k]
    BY <1>1 DEF FirstAddress
<1>4. QED
    BY <1>1, <1>2, <1>3, SubnetBits

LEMMA FrontBits ==
    ASSUME NEW p \in Seq(Bit), Len(p) > 0
    PROVE  /\ Front(p) \in Seq(Bit) /\ Len(Front(p)) = Len(p) - 1
           /\ \A k \in 1..(Len(p) - 1) : Front(p)[k] = p[k]
<1> DEFINE n == Len(p) - 1
<1>1. n \in Nat /\ \A k \in 1..n : p[k] \in Bit
    OBVIOUS
<1>2. Front(p) = SubSeq(p, 1, n)
    BY DEF Front
<1> HIDE DEF n
<1>3. /\ SubSeq(p, 1, n) \in Seq(Bit) /\ Len(SubSeq(p, 1, n)) = n
      /\ \A k \in 1..n : SubSeq(p, 1, n)[k] = p[k]
    BY <1>1, SubSeqProperties
<1>4. QED
    BY <1>2, <1>3 DEF n

(* Two networks that can be merged are the two halves of one. *)
LEMMA Halves ==
    ASSUME Width \in Nat, NEW p \in AllNets, NEW q \in AllNets, Mergeable(p, q)
    PROVE  /\ Front(p) \in AllNets /\ Len(Front(p)) = Len(p) - 1
           /\ \A x \in AllNets : IsSubnetOf(p, x) /\ x # p => IsSubnetOf(Front(p), x)
           /\ \A x \in AllNets : IsSubnetOf(x, Front(p))
                  <=> x = Front(p) \/ IsSubnetOf(x, p) \/ IsSubnetOf(x, q)
<1>1. /\ p \in Seq(Bit) /\ q \in Seq(Bit)
      /\ Len(p) \in 1..Width /\ Len(q) = Len(p)
      /\ Front(p) = Front(q) /\ p[Len(p)] # q[Len(p)]
    BY NetworkShape DEF Mergeable, Last
<1>2. /\ Front(p) \in Seq(Bit) /\ Len(Front(p)) = Len(p) - 1
      /\ \A k \in 1..(Len(p) - 1) : Front(p)[k] = p[k]
    BY <1>1, FrontBits
<1>3. \A k \in 1..(Len(p) - 1) : Front(p)[k] = q[k]
    BY <1>1, FrontBits
<1>4. Front(p) \in AllNets
    BY <1>1, <1>2, NetworkShape
<1>5. ASSUME NEW x \in AllNets, IsSubnetOf(p, x), x # p
      PROVE  IsSubnetOf(Front(p), x)
    <2>1. Len(x) \in Nat /\ Len(x) < Len(p)
        BY <1>1, <1>5, SubnetOrder, NetworkShape
    <2>2. \A k \in 1..Len(x) : x[k] = p[k]
        BY <1>5, SubnetBits
    <2>3. Len(x) <= Len(Front(p)) /\ \A k \in 1..Len(x) : x[k] = Front(p)[k]
        BY <1>1, <1>2, <2>1, <2>2
    <2>4. QED
        BY <1>4, <2>3, SubnetBits
<1>6. ASSUME NEW x \in AllNets
      PROVE  IsSubnetOf(x, Front(p))
                 <=> x = Front(p) \/ IsSubnetOf(x, p) \/ IsSubnetOf(x, q)
    <2>1. IsSubnetOf(p, Front(p)) /\ IsSubnetOf(q, Front(p))
        <3>1. Len(Front(p)) <= Len(p) /\ Len(Front(p)) <= Len(q)
            BY <1>1, <1>2
        <3>2. IsSubnetOf(p, Front(p))
            BY <1>2, <1>4, <3>1, SubnetBits
        <3>3. IsSubnetOf(q, Front(p))
            BY <1>2, <1>3, <1>4, <3>1, SubnetBits
        <3>4. QED
            BY <3>2, <3>3
    <2>2. x = Front(p) \/ IsSubnetOf(x, p) \/ IsSubnetOf(x, q) => IsSubnetOf(x, Front(p))
        BY <1>4, <2>1, SubnetOrder
    <2>3. ASSUME IsSubnetOf(x, Front(p)), x # Front(p)
          PROVE  IsSubnetOf(x, p) \/ IsSubnetOf(x, q)
        <3>1. Len(x) \in Nat /\ x \in [1..Len(x) -> Bit]
            BY NetworkShape
        <3>2. Len(p) <= Len(x)
            BY <1>1, <1>2, <1>4, <2>3, <3>1, SubnetOrder
        <3>3. \A k \in 1..(Len(p) - 1) : Front(p)[k] = x[k]
            BY <1>2, <1>4, <2>3, SubnetBits
        <3>4. x[Len(p)] \in Bit /\ p[Len(p)] \in Bit /\ q[Len(p)] \in Bit
            BY <1>1, <3>1, <3>2
        <3>5. x[Len(p)] = p[Len(p)] \/ x[Len(p)] = q[Len(p)]
            BY <1>1, <3>4 DEF Bit
        <3>6. CASE x[Len(p)] = p[Len(p)]
            <4>1. \A k \in 1..Len(p) : p[k] = x[k]
                BY <1>1, <1>2, <3>3, <3>6
            <4>2. QED
                BY <3>2, <4>1, SubnetBits
        <3>7. CASE x[Len(p)] = q[Len(p)]
            <4>1. \A k \in 1..Len(q) : q[k] = x[k]
                BY <1>1, <1>3, <3>3, <3>7
            <4>2. QED
                BY <1>1, <3>2, <4>1, SubnetBits
        <3>8. QED
            BY <3>5, <3>6, <3>7
    <2>4. QED
        BY <2>2, <2>3
<1>7. QED
    BY <1>2, <1>4, <1>5, <1>6
-----------------------------------------------------------------------------

\* t has the elements of s at the positions of P, each position once.
Takes(t, s, P) ==
    /\ ToSet(t) = {s[k] : k \in P}
    /\ \A j, k \in DOMAIN t : j # k =>
           \E m, n \in P : m # n /\ t[j] = s[m] /\ t[k] = s[n]

LEMMA TakesByPosition ==
    ASSUME NEW S, NEW s \in Seq(S), NEW P \in SUBSET (1..Len(s)), NEW n \in Nat,
           NEW pos \in Bijection(1..n, P), NEW t, t = [m \in 1..n |-> s[pos[m]]]
    PROVE  t \in Seq(S) /\ Len(t) = n /\ Takes(t, s, P)
<1>1. /\ pos \in [1..n -> P]
      /\ \A j, k \in 1..n : pos[j] = pos[k] => j = k
      /\ \A m \in P : \E k \in 1..n : pos[k] = m
    BY DEF Bijection, Injection, IsInjective, Surjection
<1>2. \A k \in 1..Len(s) : s[k] \in S
    OBVIOUS
<1>3. t \in [1..n -> S]
    BY <1>1, <1>2
<1>4. t \in Seq(S) /\ Len(t) = n /\ DOMAIN t = 1..n
    BY <1>3
<1>5. \A m \in 1..n : t[m] = s[pos[m]]
    OBVIOUS
<1>6. ToSet(t) = {s[k] : k \in P}
    <2>1. ToSet(t) = {t[m] : m \in 1..n}
        BY <1>4 DEF ToSet
    <2>2. \A m \in 1..n : pos[m] \in P /\ t[m] = s[pos[m]]
        BY <1>1, <1>5
    <2>3. \A k \in P : \E m \in 1..n : t[m] = s[k]
        BY <1>1, <1>5
    <2>4. QED
        BY <2>1, <2>2, <2>3, Zenon
<1>7. ASSUME NEW j \in 1..n, NEW k \in 1..n, j # k
      PROVE  \E a, b \in P : a # b /\ t[j] = s[a] /\ t[k] = s[b]
    <2>1. pos[j] \in P /\ pos[k] \in P /\ pos[j] # pos[k]
        BY <1>1, <1>7
    <2>2. QED
        BY <1>5, <2>1
<1>8. QED
    BY <1>4, <1>6, <1>7 DEF Takes

(* Sorting neither adds networks nor loses any. *)
LEMMA SortedTakes ==
    ASSUME Width \in Nat, NEW s \in Seq(AllNets)
    PROVE  /\ Sorted(s) \in Seq(AllNets) /\ Len(Sorted(s)) = Len(s)
           /\ Takes(Sorted(s), s, 1..Len(s)) /\ ToSet(Sorted(s)) = ToSet(s)
<1>1. Len(s) \in Nat /\ DOMAIN s = 1..Len(s)
    OBVIOUS
<1>2. PICK pos \in Bijection(1..Len(s), 1..Len(s)) :
          Sorted(s) = [n \in 1..Len(s) |-> s[pos[n]]]
    BY SortedRearranges
<1>3. /\ Sorted(s) \in Seq(AllNets) /\ Len(Sorted(s)) = Len(s)
      /\ Takes(Sorted(s), s, 1..Len(s))
    <2> DEFINE t == Sorted(s)
    <2>1. t = [n \in 1..Len(s) |-> s[pos[n]]]
        BY <1>2
    <2> HIDE DEF t
    <2>2. t \in Seq(AllNets) /\ Len(t) = Len(s) /\ Takes(t, s, 1..Len(s))
        BY <1>1, <2>1, TakesByPosition
    <2>3. QED
        BY <2>2 DEF t
<1>4. ToSet(Sorted(s)) = ToSet(s)
    BY <1>1, <1>3 DEF Takes, ToSet
<1>5. QED
    BY <1>3, <1>4

(* Neither does taking positions. *)
LEMMA AtTakes ==
    ASSUME NEW S, NEW s \in Seq(S), NEW P \in SUBSET (1..Len(s))
    PROVE  At(s, P) \in Seq(S) /\ Len(At(s, P)) \in Nat /\ Takes(At(s, P), s, P)
<1>1. Cardinality(P) \in Nat
    BY AtRearranges
<1>2. PICK pos \in Bijection(1..Cardinality(P), P) :
          At(s, P) = [n \in 1..Cardinality(P) |-> s[pos[n]]]
    BY AtRearranges
<1> DEFINE t == At(s, P)
           n == Cardinality(P)
<1>3. t = [m \in 1..n |-> s[pos[m]]] /\ n \in Nat /\ pos \in Bijection(1..n, P)
    BY <1>1, <1>2
<1> HIDE DEF t, n
<1>4. t \in Seq(S) /\ Len(t) = n /\ Takes(t, s, P)
    BY <1>3, TakesByPosition
<1>5. QED
    BY <1>3, <1>4 DEF t

(* The network that is first of each of its kind is left. *)
LEMMA DuplicatesRemoved ==
    ASSUME Width \in Nat, NEW s \in Seq(AllNets)
    PROVE  /\ WithoutDuplicates(s) \in Seq(AllNets)
           /\ ToSet(WithoutDuplicates(s)) = ToSet(s)
           /\ \A j, k \in DOMAIN WithoutDuplicates(s) :
                  j # k => WithoutDuplicates(s)[j] # WithoutDuplicates(s)[k]
<1> DEFINE P == {k \in DOMAIN s : \A j \in 1..(k - 1) : s[j] # s[k]}
           t == At(s, P)
<1>1. Len(s) \in Nat /\ DOMAIN s = 1..Len(s) /\ P \in SUBSET (1..Len(s))
    OBVIOUS
<1>2. ASSUME NEW k \in 1..Len(s)
      PROVE  \E m \in P : s[m] = s[k]
    <2> DEFINE K == {m \in 1..Len(s) : s[m] = s[k]}
    <2>1. K \in SUBSET Nat /\ K # {}
        OBVIOUS
    <2>2. PICK m \in K : \A n \in K : m <= n
        BY <2>1, LeastElement
    <2>3. \A j \in 1..(m - 1) : j \in 1..Len(s) /\ ~(m <= j)
        BY <1>1, <2>2
    <2>4. m \in P
        BY <1>1, <2>2, <2>3
    <2>5. QED
        BY <2>2, <2>4
<1>3. \A m, n \in P : m # n => s[m] # s[n]
    <2>1. \A m, n \in P : m < n => s[m] # s[n]
        BY <1>1
    <2>2. QED
        BY <1>1, <2>1
<1>4. \A k \in P : k \in 1..Len(s)
    BY <1>1
<1> HIDE DEF P
<1>5. t \in Seq(AllNets) /\ Takes(t, s, P)
    BY <1>1, AtTakes
<1>6. ToSet(t) = ToSet(s)
    <2>1. ToSet(t) = {s[k] : k \in P} /\ ToSet(s) = {s[k] : k \in 1..Len(s)}
        BY <1>1, <1>5 DEF Takes, ToSet
    <2>2. QED
        BY <1>2, <1>4, <2>1
<1>7. \A j, k \in DOMAIN t : j # k => t[j] # t[k]
    BY <1>3, <1>5 DEF Takes
<1>8. WithoutDuplicates(s) = t
    BY DEF WithoutDuplicates, P
<1>9. QED
    BY <1>5, <1>6, <1>7, <1>8

(* Networks within others can go: their addresses stay. *)
LEMMA CoveredByFewer ==
    ASSUME Width \in Nat, NEW ps \in SUBSET AllNets, NEW qs \in SUBSET ps,
           \A p \in ps : \E q \in qs : IsSubnetOf(p, q)
    PROVE  AddressesOf(qs) = AddressesOf(ps)
<1>1. ASSUME NEW a \in Addresses, NEW p \in ps, IsSubnetOf(a, p)
      PROVE  \E q \in qs : IsSubnetOf(a, q)
    <2>1. PICK q \in qs : IsSubnetOf(p, q)
        OBVIOUS
    <2>2. a \in AllNets /\ p \in AllNets /\ q \in AllNets
        BY NetworkShape
    <2>3. QED
        BY <1>1, <2>1, <2>2, SubnetOrder
<1>2. QED
    BY <1>1 DEF AddressesOf

\* No network of s is within another one.
Antichain(s) == \A j, k \in DOMAIN s : j # k => ~IsSubnetOf(s[j], s[k])

LEMMA TakesAntichain ==
    ASSUME NEW t, NEW s, NEW P \in SUBSET DOMAIN s, Takes(t, s, P), Antichain(s)
    PROVE  Antichain(t)
BY DEF Takes, Antichain

(* Of different networks, those within no other are left, and cover the rest. *)
LEMMA SubsetsRemoved ==
    ASSUME Width \in Nat, NEW s \in Seq(AllNets),
           \A j, k \in DOMAIN s : j # k => s[j] # s[k]
    PROVE  /\ WithoutSubsets(s) \in Seq(AllNets)
           /\ AddressesOf(ToSet(WithoutSubsets(s))) = AddressesOf(ToSet(s))
           /\ Antichain(WithoutSubsets(s))
<1> DEFINE P == {k \in DOMAIN s : \A j \in DOMAIN s \ {k} : ~IsSubnetOf(s[k], s[j])}
           t == At(s, P)
<1>1. DOMAIN s = 1..Len(s) /\ P \in SUBSET (1..Len(s))
    OBVIOUS
<1>2. \A k \in 1..Len(s) : s[k] \in AllNets /\ Len(s[k]) \in Nat
    <2>1. \A k \in 1..Len(s) : s[k] \in AllNets
        OBVIOUS
    <2>2. QED
        BY <2>1, NetworkShape
<1>3. ASSUME NEW k \in 1..Len(s)
      PROVE  \E m \in P : IsSubnetOf(s[k], s[m])
    <2> DEFINE L == {Len(s[m]) : m \in {m \in 1..Len(s) : IsSubnetOf(s[k], s[m])}}
    <2>1. L \in SUBSET Nat /\ L # {}
        <3>1. k \in {m \in 1..Len(s) : IsSubnetOf(s[k], s[m])}
            BY <1>2, SubnetOrder
        <3>2. QED
            BY <1>2, <3>1
    <2>2. PICK n \in L : \A x \in L : n <= x
        BY <2>1, LeastElement
    <2>3. PICK m \in 1..Len(s) : IsSubnetOf(s[k], s[m]) /\ n = Len(s[m])
        BY <2>2
    <2>4. \A j \in 1..Len(s) : IsSubnetOf(s[k], s[j]) => Len(s[m]) <= Len(s[j])
        BY <2>2, <2>3
    <2>5. ASSUME NEW j \in DOMAIN s \ {m}, IsSubnetOf(s[m], s[j])
          PROVE  FALSE
        <3>1. j \in 1..Len(s) /\ j # m
            BY <1>1
        <3>2. IsSubnetOf(s[k], s[j])
            BY <1>2, <2>3, <2>5, <3>1, SubnetOrder
        <3>3. s[m] = s[j]
            BY <1>2, <2>4, <2>5, <3>1, <3>2, SubnetOrder
        <3>4. QED
            BY <1>1, <3>1, <3>3
    <2>6. m \in P
        BY <1>1, <2>5
    <2>7. QED
        BY <2>3, <2>6
<1>4. \A m, n \in P : m # n => ~IsSubnetOf(s[m], s[n])
    OBVIOUS
<1> HIDE DEF P
<1>5. t \in Seq(AllNets) /\ Takes(t, s, P)
    BY <1>1, AtTakes
<1>6. AddressesOf(ToSet(t)) = AddressesOf(ToSet(s))
    <2>1. ToSet(t) = {s[k] : k \in P} /\ ToSet(s) = {s[k] : k \in 1..Len(s)}
        BY <1>1, <1>5 DEF Takes, ToSet
    <2>2. ToSet(s) \in SUBSET AllNets /\ ToSet(t) \in SUBSET ToSet(s)
        BY <1>1, <1>2, <2>1
    <2>3. \A p \in ToSet(s) : \E q \in ToSet(t) : IsSubnetOf(p, q)
        BY <1>3, <2>1
    <2>4. QED
        BY <2>2, <2>3, CoveredByFewer
<1>7. Antichain(t)
    BY <1>4, <1>5 DEF Takes, Antichain
<1>8. WithoutSubsets(s) = t
    BY DEF WithoutSubsets, P
<1>9. QED
    BY <1>5, <1>6, <1>7, <1>8

(* A network has the addresses of its two halves. *)
LEMMA HalvesCover ==
    ASSUME Width \in Nat, NEW p \in AllNets, NEW q \in AllNets, Mergeable(p, q),
           NEW ps \in SUBSET AllNets
    PROVE  AddressesOf(ps \cup {Front(p)}) = AddressesOf(ps \cup {p, q})
<1>1. ASSUME NEW a \in Addresses
      PROVE  IsSubnetOf(a, Front(p)) <=> IsSubnetOf(a, p) \/ IsSubnetOf(a, q)
    <2>1. a \in AllNets /\ Len(a) = Width /\ Len(p) \in 0..Width
        BY NetworkShape
    <2>2. a # Front(p)
        BY <2>1, Halves
    <2>3. QED
        BY <2>1, <2>2, Halves
<1>2. QED
    BY <1>1 DEF AddressesOf

(* A network that is apart from both halves is apart from the whole. *)
LEMMA HalvesApart ==
    ASSUME Width \in Nat, NEW p \in AllNets, NEW q \in AllNets, Mergeable(p, q),
           NEW x \in AllNets, ~IsSubnetOf(p, x), ~IsSubnetOf(x, p), ~IsSubnetOf(x, q)
    PROVE  ~IsSubnetOf(Front(p), x) /\ ~IsSubnetOf(x, Front(p))
<1>1. Front(p) \in AllNets /\ IsSubnetOf(p, Front(p))
    BY Halves, SubnetOrder
<1>2. ~IsSubnetOf(Front(p), x)
    BY <1>1, SubnetOrder
<1>3. x # Front(p)
    BY <1>1
<1>4. ~IsSubnetOf(x, Front(p))
    BY <1>3, Halves
<1>5. QED
    BY <1>2, <1>4

(* If no network is within another one and no two can be merged, then every
   network whose addresses they cover is within one of them. *)
LEMMA Absorbed ==
    ASSUME Width \in Nat, NEW S \in SUBSET AllNets,
           \A p, r \in S : p # r => ~IsSubnetOf(p, r) /\ ~Mergeable(p, r),
           NEW q \in AllNets, AddressesOf({q}) \subseteq AddressesOf(S)
    PROVE  \E p \in S : IsSubnetOf(q, p)
<1> SUFFICES ASSUME \A p \in S : ~IsSubnetOf(q, p)
             PROVE  FALSE
    OBVIOUS
<1> DEFINE L == {Len(p) : p \in {p \in S : IsSubnetOf(p, q)}}
<1>1. \A p \in AllNets : Len(p) \in Nat /\ Len(p) <= Width
    BY NetworkShape
<1>2. L \in SUBSET Nat /\ \A n \in L : n <= Width
    BY <1>1
<1>3. ASSUME NEW x \in AllNets, IsSubnetOf(x, q)
      PROVE  \E r \in S : IsSubnetOf(r, x) \/ IsSubnetOf(x, r)
    <2>1. FirstAddress(x) \in Addresses /\ IsSubnetOf(FirstAddress(x), x)
        BY FirstAddressWithin
    <2>2. FirstAddress(x) \in AllNets
        BY <2>1, NetworkShape
    <2>3. IsSubnetOf(FirstAddress(x), q)
        BY <1>3, <2>1, <2>2, SubnetOrder
    <2>4. FirstAddress(x) \in AddressesOf(S)
        BY <2>1, <2>3 DEF AddressesOf
    <2>5. PICK r \in S : IsSubnetOf(FirstAddress(x), r)
        BY <2>4 DEF AddressesOf
    <2>6. Len(r) <= Len(x) \/ Len(x) <= Len(r)
        BY <1>1
    <2>7. QED
        BY <2>1, <2>2, <2>5, <2>6, SubnetOrder
<1>4. L # {}
    <2>1. IsSubnetOf(q, q)
        BY SubnetOrder
    <2>2. PICK r \in S : IsSubnetOf(r, q)
        BY <1>3, <2>1
    <2>3. QED
        BY <2>2
<1>5. PICK n \in L : \A m \in L : m <= n
    BY <1>2, <1>4, GreatestElement
<1>6. PICK p \in S : IsSubnetOf(p, q) /\ n = Len(p)
    BY <1>5
<1>7. \A r \in S : IsSubnetOf(r, q) => Len(r) <= Len(p)
    BY <1>5, <1>6
<1>8. p \in AllNets /\ Len(p) \in 1..Width /\ Len(q) < Len(p) /\ p # q
    <2>1. p # q
        BY <1>6, SubnetOrder
    <2>2. Len(q) <= Len(p) /\ (Len(p) <= Len(q) => p = q)
        BY <1>6, SubnetOrder
    <2>3. QED
        BY <1>1, <2>1, <2>2
<1> DEFINE x == [p EXCEPT ![Len(p)] = 1 - p[Len(p)]]
<1>9. /\ x \in AllNets /\ Len(x) = Len(p)
      /\ Mergeable(p, x)
    <2>1. p \in Seq(Bit) /\ p[Len(p)] \in Bit /\ 1 - p[Len(p)] \in Bit
        BY <1>8, NetworkShape DEF Bit
    <2>2. x \in Seq(Bit) /\ Len(x) = Len(p) /\ x[Len(p)] = 1 - p[Len(p)]
        BY <1>8, <2>1
    <2>3. x \in AllNets
        BY <1>8, <2>2, NetworkShape
    <2>4. \A k \in 1..(Len(p) - 1) : x[k] = p[k]
        BY <1>8, <2>1
    <2>5. Front(p) = Front(x)
        <3> HIDE DEF x
        <3>1. /\ Len(Front(p)) = Len(p) - 1 /\ Front(p) \in Seq(Bit)
              /\ \A k \in 1..(Len(p) - 1) : Front(p)[k] = p[k]
            BY <1>8, <2>1, FrontBits
        <3>2. /\ Len(Front(x)) = Len(p) - 1 /\ Front(x) \in Seq(Bit)
              /\ \A k \in 1..(Len(p) - 1) : Front(x)[k] = x[k]
            BY <1>8, <2>2, FrontBits
        <3>3. QED
            BY <2>4, <3>1, <3>2
    <2>6. Last(p) # Last(x)
        BY <1>8, <2>1, <2>2 DEF Last, Bit
    <2>7. QED
        BY <1>8, <2>2, <2>3, <2>5, <2>6 DEF Mergeable
<1> HIDE DEF x
<1>10. IsSubnetOf(Front(p), q) /\ Front(p) \in AllNets /\ IsSubnetOf(x, Front(p))
    <2>1. IsSubnetOf(Front(p), q) /\ Front(p) \in AllNets
        BY <1>6, <1>8, <1>9, Halves
    <2>2. IsSubnetOf(x, x)
        BY <1>9, SubnetOrder
    <2>3. QED
        BY <1>8, <1>9, <2>1, <2>2, Halves
<1>11. IsSubnetOf(x, q)
    BY <1>9, <1>10, SubnetOrder
<1>12. PICK r \in S : IsSubnetOf(r, x) \/ IsSubnetOf(x, r)
    BY <1>3, <1>9, <1>11
<1>13. x # p
    BY <1>9 DEF Mergeable
<1>14. x \notin S
    BY <1>9, <1>13
<1>15. ~IsSubnetOf(r, x)
    <2>1. ASSUME IsSubnetOf(r, x)
          PROVE  FALSE
        <3>1. IsSubnetOf(r, q)
            BY <1>9, <1>11, <2>1, SubnetOrder
        <3>2. Len(r) <= Len(x)
            BY <1>7, <1>9, <3>1
        <3>3. r = x
            BY <1>9, <2>1, <3>2, SubnetOrder
        <3>4. QED
            BY <1>14, <3>3
    <2>2. QED
        BY <2>1
<1>16. ~IsSubnetOf(x, r)
    <2>1. ASSUME IsSubnetOf(x, r)
          PROVE  FALSE
        <3>1. Mergeable(x, p) /\ Front(x) = Front(p)
            BY <1>9 DEF Mergeable
        <3>2. IsSubnetOf(Front(p), r)
            BY <1>8, <1>9, <1>14, <2>1, <3>1, Halves
        <3>3. IsSubnetOf(p, Front(p))
            BY <1>8, <1>9, SubnetOrder, Halves
        <3>4. IsSubnetOf(p, r)
            BY <1>8, <1>10, <3>2, <3>3, SubnetOrder
        <3>5. p = r
            BY <3>4
        <3>6. x = p
            BY <1>8, <1>9, <2>1, <3>5, SubnetOrder
        <3>7. QED
            BY <1>13, <3>6
    <2>2. QED
        BY <2>1
<1>17. QED
    BY <1>12, <1>15, <1>16
-----------------------------------------------------------------------------

\* The merging pass leaves its variables as it finds them.
Idle == pc # "merge" => i = 1 /\ used = {} /\ out = <<>>

Distinct == pc = "subsets" => \A j, k \in DOMAIN nets : j # k => nets[j] # nets[k]

\* Positions still to be looked at in this pass.
Pending == {k \in i..Len(nets) : k \notin used}

\* In the merging pass no network is within another, merged or not.
Apart ==
    pc = "merge" =>
        /\ Antichain(nets) /\ Antichain(out)
        /\ \A j \in DOMAIN out, k \in Pending :
               ~IsSubnetOf(out[j], nets[k]) /\ ~IsSubnetOf(nets[k], out[j])

\* A pass has as many networks as before only if it has found none to merge.
Counted ==
    pc = "merge" =>
        /\ Len(out) <= i - 1
        /\ used \cap 1..(i - 1) # {} => Len(out) < i - 1
        /\ used = {} =>
               /\ ToSet(out) = {nets[k] : k \in 1..(i - 1)}
               /\ \A k \in 1..(i - 1), j \in 1..Len(nets) :
                      k < j => ~Mergeable(nets[k], nets[j])

Finished ==
    pc = "done" => \A j, k \in DOMAIN nets :
        j # k => ~IsSubnetOf(nets[j], nets[k]) /\ ~Mergeable(nets[j], nets[k])

IInv == TypeOK /\ CoverageKept /\ Idle /\ Distinct /\ Apart /\ Counted /\ Finished

LEMMA MinIsLeast ==
    ASSUME NEW S \in SUBSET Nat, S # {}
    PROVE  Min(S) \in S /\ \A n \in S : Min(S) <= n
<1>1. \E n \in S : \A m \in S : n <= m
    BY LeastElement
<1>2. QED
    BY <1>1 DEF Min

LEMMA AppendSet ==
    ASSUME NEW S, NEW s \in Seq(S), NEW x \in S
    PROVE  /\ Append(s, x) \in Seq(S) /\ Len(Append(s, x)) = Len(s) + 1
           /\ \A k \in 1..Len(s) : Append(s, x)[k] = s[k]
           /\ Append(s, x)[Len(s) + 1] = x
           /\ ToSet(Append(s, x)) = ToSet(s) \cup {x}
<1>1. /\ Append(s, x) \in Seq(S) /\ Len(Append(s, x)) = Len(s) + 1
      /\ \A k \in 1..Len(s) : Append(s, x)[k] = s[k]
      /\ Append(s, x)[Len(s) + 1] = x
      /\ Len(s) \in Nat
    OBVIOUS
<1>2. DOMAIN s = 1..Len(s) /\ DOMAIN Append(s, x) = 1..(Len(s) + 1)
    OBVIOUS
<1>3. 1..(Len(s) + 1) = 1..Len(s) \cup {Len(s) + 1}
    BY <1>1
<1>4. ToSet(Append(s, x)) = {Append(s, x)[k] : k \in 1..Len(s) \cup {Len(s) + 1}}
    BY <1>2, <1>3 DEF ToSet
<1>5. ToSet(s) = {s[k] : k \in 1..Len(s)}
    BY <1>2 DEF ToSet
<1> DEFINE t == Append(s, x)
           n == Len(s)
<1>6. /\ \A k \in 1..n : t[k] = s[k]
      /\ t[n + 1] = x
    BY <1>1
<1>7. ToSet(t) = {t[k] : k \in 1..n \cup {n + 1}}
    BY <1>4
<1> HIDE DEF t, n
<1>8. ToSet(t) = {s[k] : k \in 1..n} \cup {x}
    BY <1>6, <1>7
<1>9. QED
    BY <1>1, <1>5, <1>8 DEF t, n

(* The networks of a call, none of them looked at. *)
LEMMA BeginsHolds ==
    ASSUME Width \in Nat, NEW networks \in Seq(AllNets), Begins(networks)
    PROVE  IInv
<1>1. TypeOK
    BY DEF Begins, TypeOK, AddressesOf
<1>2. Rest = ToSet(nets) /\ ToSet(out) = {}
    BY DEF Begins, Rest, ToSet
<1>3. CoverageKept
    BY <1>2 DEF Begins, CoverageKept
<1>4. QED
    BY <1>1, <1>3 DEF Begins, IInv, Idle, Distinct, Apart, Counted, Finished

(* At the start of a pass all is still to be looked at. *)
LEMMA WholeRest ==
    ASSUME nets \in Seq(AllNets), i = 1, used = {}, out = <<>>
    PROVE  ToSet(out) \cup Rest = ToSet(nets)
<1>1. DOMAIN nets = 1..Len(nets) /\ ToSet(out) = {}
    BY DEF ToSet
<1>2. Rest = {nets[k] : k \in 1..Len(nets)}
    BY DEF Rest
<1>3. QED
    BY <1>1, <1>2 DEF ToSet

LEMMA WholeRestNext ==
    ASSUME nets' \in Seq(AllNets), i' = 1, used' = {}, out' = <<>>
    PROVE  (ToSet(out) \cup Rest)' = ToSet(nets')
<1>1. DOMAIN nets' = 1..Len(nets') /\ ToSet(out') = {}
    BY DEF ToSet
<1>2. Rest' = {nets'[k] : k \in 1..Len(nets')}
    BY DEF Rest
<1>3. QED
    BY <1>1, <1>2 DEF ToSet

LEMMA CountStarts ==
    ASSUME i' = 1, used' = {}, out' = <<>>
    PROVE  Counted'
<1>1. ToSet(out') = {} /\ {nets'[k] : k \in 1..(i' - 1)} = {}
    BY DEF ToSet
<1>2. Len(out') = 0
    OBVIOUS
<1>3. QED
    BY <1>1, <1>2 DEF Counted

LEMMA ReturnEarlyKeeps ==
    ASSUME Width \in Nat, IInv, ReturnEarly
    PROVE  IInv'
<1> USE DEF ReturnEarly, IInv
<1>1. TypeOK'
    BY DEF TypeOK
<1>2. CoverageKept'
    BY DEF CoverageKept, Rest
<1>3. nets \in Seq(AllNets) /\ \A j, k \in DOMAIN nets : j = k
    <2>1. nets \in Seq(AllNets) /\ Len(nets) \in Nat /\ DOMAIN nets = 1..Len(nets)
        BY DEF TypeOK
    <2>2. QED
        BY <2>1
<1>4. Finished'
    BY <1>3 DEF Finished
<1>5. QED
    BY <1>1, <1>2, <1>4 DEF Idle, Distinct, Apart, Counted

LEMMA SortNetworksKeeps ==
    ASSUME Width \in Nat, IInv, SortNetworks
    PROVE  IInv'
<1> USE DEF SortNetworks, IInv
<1>1. nets' \in Seq(AllNets) /\ Len(nets') \in Nat /\ ToSet(nets') = ToSet(nets)
    BY SortedTakes DEF TypeOK
<1>2. i = 1 /\ used = {} /\ out = <<>> /\ Idle'
    BY DEF Idle
<1>3. TypeOK'
    BY <1>1, <1>2 DEF TypeOK
<1>4. CoverageKept'
    <2>1. nets \in Seq(AllNets) /\ i' = 1 /\ used' = {} /\ out' = <<>>
        BY <1>2 DEF TypeOK
    <2>2. AddressesOf(ToSet(nets)) = cover
        BY <1>2, <2>1, WholeRest DEF CoverageKept
    <2>3. (ToSet(out) \cup Rest)' = ToSet(nets')
        BY <1>1, <2>1, WholeRestNext
    <2>4. QED
        BY <1>1, <2>2, <2>3 DEF CoverageKept, AddressesOf
<1>5. QED
    BY <1>2, <1>3, <1>4 DEF Distinct, Apart, Counted, Finished

LEMMA RemoveDuplicateNetworksKeeps ==
    ASSUME Width \in Nat, IInv, RemoveDuplicateNetworks
    PROVE  IInv'
<1> USE DEF RemoveDuplicateNetworks, IInv
<1>1. nets \in Seq(AllNets) /\ i = 1 /\ used = {} /\ out = <<>> /\ Idle'
    BY DEF TypeOK, Idle
<1>2. /\ nets' \in Seq(AllNets) /\ Len(nets') \in Nat /\ ToSet(nets') = ToSet(nets)
      /\ \A j, k \in DOMAIN nets' : j # k => nets'[j] # nets'[k]
    BY <1>1, DuplicatesRemoved
<1>3. TypeOK'
    BY <1>1, <1>2 DEF TypeOK
<1>4. CoverageKept'
    <2>1. AddressesOf(ToSet(nets)) = cover
        BY <1>1, WholeRest DEF CoverageKept
    <2>2. (ToSet(out) \cup Rest)' = ToSet(nets')
        BY <1>1, <1>2, WholeRestNext
    <2>3. QED
        BY <1>2, <2>1, <2>2 DEF CoverageKept, AddressesOf
<1>5. Distinct'
    BY <1>2 DEF Distinct
<1>6. QED
    BY <1>1, <1>3, <1>4, <1>5 DEF Apart, Counted, Finished

LEMMA RemoveSubsetNetworksKeeps ==
    ASSUME Width \in Nat, IInv, RemoveSubsetNetworks
    PROVE  IInv'
<1> USE DEF RemoveSubsetNetworks, IInv
<1>1. nets \in Seq(AllNets) /\ i = 1 /\ used = {} /\ out = <<>>
    BY DEF TypeOK, Idle
<1>2. \A j, k \in DOMAIN nets : j # k => nets[j] # nets[k]
    BY DEF Distinct
<1>3. /\ nets' \in Seq(AllNets) /\ Len(nets') \in Nat
      /\ AddressesOf(ToSet(nets')) = AddressesOf(ToSet(nets))
      /\ Antichain(nets')
    BY <1>1, <1>2, SubsetsRemoved
<1>4. TypeOK'
    BY <1>1, <1>3 DEF TypeOK
<1>5. CoverageKept'
    <2>1. AddressesOf(ToSet(nets)) = cover
        BY <1>1, WholeRest DEF CoverageKept
    <2>2. (ToSet(out) \cup Rest)' = ToSet(nets')
        BY <1>1, <1>3, WholeRestNext
    <2>3. QED
        BY <1>3, <2>1, <2>2 DEF CoverageKept, AddressesOf
<1>6. Apart'
    BY <1>1, <1>3 DEF Apart, Antichain
<1>7. Counted'
    BY <1>1, CountStarts
<1>8. QED
    BY <1>4, <1>5, <1>6, <1>7 DEF Idle, Distinct, Finished

LEMMA MergeSkipKeeps ==
    ASSUME Width \in Nat, IInv, MergeSkip
    PROVE  IInv'
<1> USE DEF MergeSkip, IInv
<1>1. /\ nets \in Seq(AllNets) /\ Len(nets) \in Nat /\ i \in 1..Len(nets)
      /\ out \in Seq(AllNets) /\ Len(out) \in Nat
    BY DEF TypeOK
<1>2. TypeOK'
    BY <1>1 DEF TypeOK
<1>3. Pending' = Pending
    BY <1>1 DEF Pending
<1>4. CoverageKept'
    <2>1. Rest = {nets[k] : k \in Pending} /\ Rest' = {nets[k] : k \in Pending'}
        BY DEF Rest, Pending
    <2>2. QED
        BY <1>3, <2>1 DEF CoverageKept, AddressesOf
<1>5. Apart'
    BY <1>3 DEF Apart
<1>6. Counted'
    <2>1. Len(out') <= i' - 1 /\ Len(out') < i' - 1
        BY <1>1 DEF Counted
    <2>2. used' # {}
        OBVIOUS
    <2>3. QED
        BY <2>1, <2>2 DEF Counted
<1>7. QED
    BY <1>2, <1>4, <1>5, <1>6 DEF Idle, Distinct, Finished

\* A turn of the merging pass that appends x, after which the networks at the
\* positions of taken are done with.
Turn(x, taken) ==
    /\ i' = i + 1
    /\ out' = Append(out, x)
    /\ used' = used \cup (taken \ {i})
    /\ UNCHANGED <<nets, cover, pc>>

(* What has to be checked of such a turn. *)
LEMMA TurnKeeps ==
    ASSUME Width \in Nat, IInv, pc = "merge", i <= Len(nets), i \notin used,
           NEW x \in AllNets, NEW taken \in SUBSET Pending, i \in taken, Turn(x, taken),
           \A ps \in SUBSET AllNets :
               AddressesOf(ps \cup {x}) = AddressesOf(ps \cup {nets[k] : k \in taken}),
           \A y \in AllNets : (\A k \in taken : ~IsSubnetOf(nets[k], y) /\ ~IsSubnetOf(y, nets[k]))
               => ~IsSubnetOf(x, y) /\ ~IsSubnetOf(y, x),
           taken = {i} =>
               /\ x = nets[i]
               /\ \A j \in (i + 1)..Len(nets) :
                      j \notin used => ~Mergeable(nets[i], nets[j])
    PROVE  IInv'
<1> USE DEF Turn, IInv
<1>1. /\ nets \in Seq(AllNets) /\ Len(nets) \in Nat /\ i \in 1..Len(nets)
      /\ out \in Seq(AllNets) /\ Len(out) \in Nat
      /\ used \subseteq 1..Len(nets)
      /\ taken \subseteq i..Len(nets) /\ \A k \in taken : k \notin used
    BY DEF TypeOK, Pending
<1>2. \A k \in 1..Len(nets) : nets[k] \in AllNets
    BY <1>1
<1>3. /\ out' \in Seq(AllNets) /\ Len(out') = Len(out) + 1
      /\ \A k \in 1..Len(out) : out'[k] = out[k]
      /\ out'[Len(out) + 1] = x
      /\ ToSet(out') = ToSet(out) \cup {x}
    BY <1>1, AppendSet
<1>4. Pending' = Pending \ taken
    BY <1>1 DEF Pending
<1>5. TypeOK'
    BY <1>1, <1>3 DEF TypeOK
<1>6. CoverageKept'
    <2>1. Rest = {nets[k] : k \in Pending} /\ Rest' = {nets[k] : k \in Pending'}
        BY DEF Rest, Pending
    <2> DEFINE ps == ToSet(out) \cup Rest'
               ts == {nets[k] : k \in taken}
    <2>2. Rest = Rest' \cup ts
        BY <1>4, <2>1
    <2>3. ToSet(out) \in SUBSET AllNets
        BY <1>1 DEF ToSet
    <2>4. Rest' \in SUBSET AllNets
        BY <1>1, <1>2, <1>4, <2>1 DEF Pending
    <2>5. AddressesOf(ps \cup {x}) = AddressesOf(ps \cup ts)
        BY <2>3, <2>4
    <2>6. ps \cup ts = ToSet(out) \cup Rest /\ ps \cup {x} = ToSet(out') \cup Rest'
        BY <1>3, <2>2
    <2> HIDE DEF ps, ts
    <2>7. QED
        BY <2>5, <2>6 DEF CoverageKept, AddressesOf
<1>7. \A k \in Pending' : k \in Pending /\ k \notin taken /\ k \in 1..Len(nets)
    BY <1>1, <1>4 DEF Pending
<1>8. ASSUME NEW k \in Pending'
      PROVE  ~IsSubnetOf(x, nets[k]) /\ ~IsSubnetOf(nets[k], x)
    <2>1. Antichain(nets) /\ DOMAIN nets = 1..Len(nets)
        BY <1>1 DEF Apart
    <2>2. \A m \in taken : m # k /\ m \in DOMAIN nets /\ k \in DOMAIN nets
        BY <1>1, <1>7, <2>1
    <2>3. \A m \in taken : ~IsSubnetOf(nets[m], nets[k]) /\ ~IsSubnetOf(nets[k], nets[m])
        BY <2>1, <2>2 DEF Antichain
    <2>4. QED
        BY <1>2, <1>7, <2>3
<1>9. ASSUME NEW j \in 1..Len(out)
      PROVE  /\ ~IsSubnetOf(x, out[j]) /\ ~IsSubnetOf(out[j], x)
             /\ \A k \in Pending' :
                    ~IsSubnetOf(nets[k], out[j]) /\ ~IsSubnetOf(out[j], nets[k])
    <2>1. \A k \in Pending : ~IsSubnetOf(nets[k], out[j]) /\ ~IsSubnetOf(out[j], nets[k])
        BY <1>1 DEF Apart
    <2>2. out[j] \in AllNets
        BY <1>1
    <2>3. \A k \in taken : ~IsSubnetOf(nets[k], out[j]) /\ ~IsSubnetOf(out[j], nets[k])
        BY <2>1
    <2>4. ~IsSubnetOf(x, out[j]) /\ ~IsSubnetOf(out[j], x)
        BY <2>2, <2>3
    <2>5. QED
        BY <1>7, <2>1, <2>4
<1>10. DOMAIN out' = 1..Len(out) \cup {Len(out) + 1} /\ DOMAIN out = 1..Len(out)
    BY <1>1, <1>3
<1>11. Antichain(out')
    <2>1. \A j, k \in 1..Len(out) : j # k => ~IsSubnetOf(out[j], out[k])
        BY <1>10 DEF Apart, Antichain
    <2>2. QED
        BY <1>1, <1>3, <1>9, <1>10, <2>1 DEF Antichain
<1>12. Apart'
    <2>1. Antichain(nets)
        BY DEF Apart
    <2>2. \A j \in DOMAIN out', k \in Pending' :
              ~IsSubnetOf(out'[j], nets[k]) /\ ~IsSubnetOf(nets[k], out'[j])
        BY <1>3, <1>8, <1>9, <1>10
    <2>3. nets' = nets
        OBVIOUS
    <2> QED
        BY <1>11, <2>1, <2>2, <2>3 DEF Apart, Antichain
<1>13. Counted'
    <2>1. Len(out') <= i' - 1
        BY <1>1, <1>3 DEF Counted
    <2>2. used' \cap 1..(i' - 1) = used \cap 1..(i - 1)
        BY <1>1
    <2>3. used' \cap 1..(i' - 1) # {} => Len(out') < i' - 1
        BY <1>1, <1>3, <2>2 DEF Counted
    <2>4. ASSUME used' = {}, NEW k \in 1..(i' - 1), NEW j \in 1..Len(nets), k < j
          PROVE  ~Mergeable(nets[k], nets[j])
        <3>1. used = {} /\ taken = {i}
            BY <2>4
        <3>2. CASE k = i
            BY <1>1, <2>4, <3>1, <3>2
        <3>3. CASE k # i
            <4>1. k \in 1..(i - 1)
                BY <1>1, <3>3
            <4>2. QED
                BY <2>4, <3>1, <4>1 DEF Counted
        <3>4. QED
            BY <3>2, <3>3
    <2>5. ASSUME used' = {}
          PROVE  ToSet(out') = {nets[k] : k \in 1..(i' - 1)}
        <3>1. used = {} /\ x = nets[i]
            BY <2>5
        <3>2. ToSet(out) = {nets[k] : k \in 1..(i - 1)}
            BY <3>1 DEF Counted
        <3>3. 1..(i' - 1) = 1..(i - 1) \cup {i}
            BY <1>1
        <3>4. QED
            BY <1>3, <3>1, <3>2, <3>3
    <2>6. QED
        BY <2>1, <2>3, <2>4, <2>5 DEF Counted
<1>14. QED
    BY <1>5, <1>6, <1>12, <1>13 DEF Idle, Distinct, Finished

LEMMA MergeNextKeeps ==
    ASSUME Width \in Nat, IInv, MergeNext
    PROVE  IInv'
<1>1. /\ nets \in Seq(AllNets) /\ i \in 1..Len(nets) /\ Len(nets) \in Nat
      /\ used \subseteq 1..Len(nets) /\ i \notin used
      /\ i \in Pending /\ nets[i] \in AllNets
    BY DEF MergeNext, IInv, TypeOK, Pending
<1>2. CASE Mates = {}
    <2> DEFINE x == nets[i]
               taken == {i}
    <2>1. Turn(x, taken)
        BY <1>1, <1>2 DEF Turn, MergeNext
    <2>2. \A ps : ps \cup {x} = ps \cup {nets[k] : k \in taken}
        OBVIOUS
    <2>3. /\ x = nets[i]
          /\ \A j \in (i + 1)..Len(nets) : j \notin used => ~Mergeable(nets[i], nets[j])
        BY <1>2 DEF Mates
    <2>4. x \in AllNets /\ taken \in SUBSET Pending /\ i \in taken
        BY <1>1
    <2>5. \A y \in AllNets :
              (\A k \in taken : ~IsSubnetOf(nets[k], y) /\ ~IsSubnetOf(y, nets[k]))
                  => ~IsSubnetOf(x, y) /\ ~IsSubnetOf(y, x)
        OBVIOUS
    <2>6. \A ps : AddressesOf(ps \cup {x}) = AddressesOf(ps \cup {nets[k] : k \in taken})
        BY <2>2
    <2>7. pc = "merge" /\ i <= Len(nets) /\ i \notin used
        BY DEF MergeNext
    <2> HIDE DEF x, taken
    <2>8. QED
        BY <2>1, <2>3, <2>4, <2>5, <2>6, <2>7, TurnKeeps
<1>3. CASE Mates # {}
    <2> DEFINE m == Min(Mates)
               x == Front(nets[i])
               taken == {i, m}
    <2>1. Mates \in SUBSET Nat
        BY <1>1 DEF Mates
    <2>2. m \in Mates
        BY <1>3, <2>1, MinIsLeast
    <2>3. m \in (i + 1)..Len(nets) /\ m \notin used /\ Mergeable(nets[i], nets[m])
        BY <2>2 DEF Mates
    <2>4. m \in Pending /\ nets[m] \in AllNets /\ m # i
        BY <1>1, <2>3 DEF Pending
    <2>5. x \in AllNets /\ taken \in SUBSET Pending /\ i \in taken /\ taken # {i}
        BY <1>1, <2>3, <2>4, Halves
    <2>6. Turn(x, taken)
        BY <1>3, <2>4 DEF Turn, MergeNext
    <2>7. {nets[k] : k \in taken} = {nets[i], nets[m]}
        OBVIOUS
    <2>8. \A ps \in SUBSET AllNets :
              AddressesOf(ps \cup {x}) = AddressesOf(ps \cup {nets[k] : k \in taken})
        BY <1>1, <2>3, <2>4, <2>7, HalvesCover
    <2>9. \A y \in AllNets :
              (\A k \in taken : ~IsSubnetOf(nets[k], y) /\ ~IsSubnetOf(y, nets[k]))
                  => ~IsSubnetOf(x, y) /\ ~IsSubnetOf(y, x)
        BY <1>1, <2>3, <2>4, HalvesApart
    <2>10. pc = "merge" /\ i <= Len(nets) /\ i \notin used
        BY DEF MergeNext
    <2> HIDE DEF x, taken
    <2>11. QED
        BY <2>5, <2>6, <2>8, <2>9, <2>10, TurnKeeps
<1>4. QED
    BY <1>2, <1>3

LEMMA PassEndsKeeps ==
    ASSUME Width \in Nat, IInv, PassEnds
    PROVE  IInv'
<1>1. /\ nets \in Seq(AllNets) /\ Len(nets) \in Nat /\ DOMAIN nets = 1..Len(nets)
      /\ out \in Seq(AllNets) /\ Len(out) \in Nat /\ DOMAIN out = 1..Len(out)
      /\ i = Len(nets) + 1 /\ used \subseteq 1..Len(nets) /\ cover \subseteq Addresses
    BY DEF IInv, TypeOK, PassEnds
<1>2. i' = 1 /\ used' = {} /\ out' = <<>> /\ cover' = cover /\ pc = "merge"
    BY DEF PassEnds
<1>3. Antichain(nets) /\ Antichain(out)
    BY <1>2 DEF IInv, Apart
<1>4. AddressesOf(ToSet(out)) = cover
    <2>1. Rest = {}
        BY <1>1 DEF Rest
    <2>2. QED
        BY <2>1 DEF IInv, CoverageKept
<1>5. CASE Len(out) = Len(nets)
    <2>1. pc' = "done" /\ nets' = nets
        BY <1>5 DEF PassEnds
    <2>2. i - 1 = Len(nets) /\ used \subseteq 1..(i - 1)
        BY <1>1
    <2>3. used = {}
        <3>1. ~(Len(out) < i - 1)
            BY <1>1, <1>5, <2>2
        <3>2. used \cap 1..(i - 1) = {}
            BY <1>2, <3>1 DEF IInv, Counted
        <3>3. QED
            BY <2>2, <3>2
    <2>4. \A j, k \in DOMAIN nets : j < k => ~Mergeable(nets[j], nets[k])
        BY <1>1, <1>2, <2>3 DEF IInv, Counted
    <2>5. \A j, k \in DOMAIN nets : j # k => ~Mergeable(nets[j], nets[k])
        <3>1. \A p, q : Mergeable(p, q) <=> Mergeable(q, p)
            BY DEF Mergeable
        <3>2. QED
            BY <1>1, <2>4, <3>1
    <2>6. TypeOK'
        BY <1>1, <1>2, <2>1 DEF TypeOK
    <2>7. Finished'
        BY <1>3, <2>1, <2>5 DEF Finished, Antichain
    <2>8. CoverageKept'
        <3>1. (ToSet(out) \cup Rest)' = ToSet(nets')
            BY <1>1, <1>2, <2>1, WholeRestNext
        <3>2. AddressesOf(ToSet(nets)) = cover
            <4>1. ToSet(out) = {nets[k] : k \in 1..(i - 1)} /\ i - 1 = Len(nets)
                BY <1>1, <1>2, <2>3 DEF IInv, Counted
            <4>2. ToSet(out) = ToSet(nets)
                BY <1>1, <4>1 DEF ToSet
            <4>3. QED
                BY <1>4, <4>2
        <3>3. QED
            BY <1>2, <2>1, <3>1, <3>2 DEF CoverageKept, AddressesOf
    <2>9. QED
        BY <1>2, <2>1, <2>6, <2>7, <2>8 DEF IInv, Idle, Distinct, Apart, Counted
<1>6. CASE Len(out) # Len(nets)
    <2>1. pc' = pc /\ nets' = Sorted(out)
        BY <1>6 DEF PassEnds
    <2>2. /\ nets' \in Seq(AllNets) /\ Len(nets') \in Nat
          /\ Takes(nets', out, 1..Len(out)) /\ ToSet(nets') = ToSet(out)
        BY <1>1, <2>1, SortedTakes
    <2>3. TypeOK'
        BY <1>1, <1>2, <2>1, <2>2 DEF TypeOK
    <2>4. CoverageKept'
        <3>1. (ToSet(out) \cup Rest)' = ToSet(nets')
            BY <1>2, <2>2, WholeRestNext
        <3>2. QED
            BY <1>2, <1>4, <2>2, <3>1 DEF CoverageKept, AddressesOf
    <2>5. Antichain(nets')
        BY <1>1, <1>3, <2>2, TakesAntichain
    <2>6. Apart'
        BY <1>2, <2>5 DEF Apart, Antichain
    <2>7. Counted'
        BY <1>2, CountStarts
    <2>8. QED
        BY <1>2, <2>1, <2>3, <2>4, <2>6, <2>7 DEF IInv, Idle, Distinct, Finished
<1>7. QED
    BY <1>5, <1>6

(* Every step of ReduceNetworks keeps the invariant. *)
LEMMA StepKeeps ==
    ASSUME Width \in Nat, IInv, Next
    PROVE  IInv'
<1>1. CASE ReturnEarly
    BY <1>1, ReturnEarlyKeeps
<1>2. CASE SortNetworks
    BY <1>2, SortNetworksKeeps
<1>3. CASE RemoveDuplicateNetworks
    BY <1>3, RemoveDuplicateNetworksKeeps
<1>4. CASE RemoveSubsetNetworks
    BY <1>4, RemoveSubsetNetworksKeeps
<1>5. CASE MergeNext
    BY <1>5, MergeNextKeeps
<1>6. CASE MergeSkip
    BY <1>6, MergeSkipKeeps
<1>7. CASE PassEnds
    BY <1>7, PassEndsKeeps
<1>8. QED
    BY <1>1, <1>2, <1>3, <1>4, <1>5, <1>6, <1>7 DEF Next

(* What is left in the end covers what was given, and cannot be reduced. *)
LEMMA ReducedInTheEnd ==
    ASSUME IInv, pc = "done"
    PROVE  /\ nets \in Seq(AllNets) /\ AddressesOf(ToSet(nets)) = cover
           /\ \A j, k \in DOMAIN nets :
                  j # k => ~IsSubnetOf(nets[j], nets[k]) /\ ~Mergeable(nets[j], nets[k])
<1>1. nets \in Seq(AllNets) /\ i = 1 /\ used = {} /\ out = <<>>
    BY DEF IInv, TypeOK, Idle
<1>2. AddressesOf(ToSet(nets)) = cover
    BY <1>1, WholeRest DEF IInv, CoverageKept
<1>3. QED
    BY <1>1, <1>2 DEF IInv, Finished

(* They are the largest networks within what was given. *)
LEMMA SmallestInTheEnd ==
    ASSUME Width \in Nat, IInv
    PROVE  ResultSmallest
<1> SUFFICES ASSUME pc = "done"
             PROVE  ToSet(nets) = Maximal(cover) /\ Len(nets) = Cardinality(ToSet(nets))
    BY DEF ResultSmallest
<1> DEFINE S == ToSet(nets)
<1>1. /\ nets \in Seq(AllNets) /\ DOMAIN nets = 1..Len(nets) /\ Len(nets) \in Nat
      /\ AddressesOf(S) = cover
      /\ \A j, k \in DOMAIN nets :
             j # k => ~IsSubnetOf(nets[j], nets[k]) /\ ~Mergeable(nets[j], nets[k])
    BY ReducedInTheEnd
<1>2. \A k \in DOMAIN nets : nets[k] \in AllNets
    BY <1>1
<1>3. S = {nets[k] : k \in DOMAIN nets}
    BY DEF ToSet
<1>4. S \in SUBSET AllNets
    BY <1>2, <1>3
<1>5. \A p, r \in S : p # r => ~IsSubnetOf(p, r) /\ ~Mergeable(p, r)
    BY <1>1, <1>3
<1>6. Len(nets) = Cardinality(S)
    <2>1. \A j, k \in DOMAIN nets : nets[j] = nets[k] => j = k
        BY <1>1, <1>2, SubnetOrder
    <2>2. nets \in Bijection(1..Len(nets), S)
        BY <1>1, <1>3, <2>1 DEF Bijection, Injection, IsInjective, Surjection
    <2>3. ExistsBijection(1..Len(nets), S)
        BY <2>2 DEF ExistsBijection
    <2>4. IsFiniteSet(1..Len(nets)) /\ Cardinality(1..Len(nets)) = Len(nets)
        BY <1>1, FS_Interval
    <2>5. QED
        BY <2>3, <2>4, FS_Bijection
<1> HIDE DEF S
<1> DEFINE within == {p \in AllNets : AddressesOf({p}) \subseteq cover}
<1>7. \A q \in within : \E p \in S : IsSubnetOf(q, p)
    BY <1>1, <1>4, <1>5, Absorbed
<1>8. \A p \in S : p \in within
    BY <1>1, <1>4 DEF AddressesOf
<1>9. ASSUME NEW p \in S, NEW q \in within, IsSubnetOf(p, q)
      PROVE  q = p
    <2>1. PICK r \in S : IsSubnetOf(q, r)
        BY <1>7
    <2>2. IsSubnetOf(p, r)
        BY <1>4, <1>9, <2>1, SubnetOrder
    <2>3. p = r
        BY <1>5, <2>2
    <2>4. Len(p) <= Len(q) /\ Len(q) <= Len(p) => q = p
        BY <1>4, <1>9, SubnetOrder
    <2>5. QED
        BY <1>4, <1>9, <2>1, <2>3, <2>4, SubnetOrder
<1>10. ASSUME NEW p \in within, \A q \in within : IsSubnetOf(p, q) => q = p
       PROVE  p \in S
    <2>1. PICK r \in S : IsSubnetOf(p, r)
        BY <1>7
    <2>2. QED
        BY <1>8, <1>10, <2>1
<1>11. Maximal(cover) = {p \in within : \A q \in within : IsSubnetOf(p, q) => q = p}
    BY DEF Maximal
<1> HIDE DEF within
<1>12. S = Maximal(cover)
    BY <1>8, <1>9, <1>10, <1>11
<1>13. QED
    BY <1>6, <1>12 DEF S

(* No fewer networks have the same addresses: each of those that are left needs
   one of its own. *)
LEMMA FewestInTheEnd ==
    ASSUME Width \in Nat, IInv, pc = "done",
           NEW Q \in SUBSET AllNets, IsFiniteSet(Q), AddressesOf(Q) = cover
    PROVE  Len(nets) <= Cardinality(Q)
<1> DEFINE J == 1..Len(nets)
<1>1. /\ nets \in Seq(AllNets) /\ DOMAIN nets = J /\ Len(nets) \in Nat
      /\ AddressesOf(ToSet(nets)) = cover
      /\ \A j, k \in J : j # k => ~IsSubnetOf(nets[j], nets[k]) /\ ~Mergeable(nets[j], nets[k])
    BY ReducedInTheEnd
<1>2. /\ \A j \in J : nets[j] \in AllNets
      /\ \A r \in ToSet(nets) : \E j \in J : r = nets[j]
      /\ \A j \in J : nets[j] \in ToSet(nets)
    BY <1>1 DEF ToSet
<1> HIDE DEF J
<1>3. ASSUME NEW j \in J, NEW k \in J, NEW q \in AllNets,
             IsSubnetOf(q, nets[j]), IsSubnetOf(q, nets[k])
      PROVE  j = k
    <2>1. Len(nets[j]) \in Nat /\ Len(nets[k]) \in Nat
        BY <1>2, NetworkShape
    <2>2. Len(nets[k]) <= Len(nets[j]) \/ Len(nets[j]) <= Len(nets[k])
        BY <2>1
    <2>3. IsSubnetOf(nets[j], nets[k]) \/ IsSubnetOf(nets[k], nets[j])
        BY <1>2, <1>3, <2>2, SubnetOrder
    <2>4. QED
        BY <1>1, <2>3
<1>4. ASSUME NEW j \in J
      PROVE  \E q \in Q : IsSubnetOf(q, nets[j])
    <2> DEFINE a == FirstAddress(nets[j])
    <2>1. a \in Addresses /\ a \in AllNets /\ IsSubnetOf(a, nets[j])
        BY <1>2, FirstAddressWithin, NetworkShape
    <2> HIDE DEF a
    <2>2. a \in AddressesOf(Q)
        BY <1>1, <1>2, <2>1 DEF AddressesOf
    <2>3. PICK q \in Q : IsSubnetOf(a, q)
        BY <2>2 DEF AddressesOf
    <2>4. AddressesOf({q}) \subseteq AddressesOf(ToSet(nets))
        BY <1>1 DEF AddressesOf
    <2>5. /\ ToSet(nets) \in SUBSET AllNets
          /\ \A p, r \in ToSet(nets) : p # r => ~IsSubnetOf(p, r) /\ ~Mergeable(p, r)
        BY <1>1, <1>2
    <2>6. PICK r \in ToSet(nets) : IsSubnetOf(q, r)
        BY <2>4, <2>5, Absorbed
    <2>7. PICK k \in J : r = nets[k]
        BY <1>2
    <2>8. IsSubnetOf(a, nets[k])
        BY <1>2, <2>1, <2>3, <2>6, <2>7, SubnetOrder
    <2>9. j = k
        BY <1>3, <2>1, <2>8
    <2>10. QED
        BY <2>6, <2>7, <2>9
<1> DEFINE f == [j \in J |-> CHOOSE q \in Q : IsSubnetOf(q, nets[j])]
<1>5. \A j \in J : f[j] \in Q /\ IsSubnetOf(f[j], nets[j])
    BY <1>4
<1>6. f \in [J -> Q]
    BY <1>5
<1> HIDE DEF f
<1>7. \A j, k \in J : f[j] = f[k] => j = k
    BY <1>3, <1>5
<1>8. f \in Injection(J, Q)
    BY <1>6, <1>7 DEF Injection, IsInjective
<1>9. Cardinality(J) <= Cardinality(Q)
    BY <1>8, FS_Injection
<1>10. Cardinality(J) = Len(nets)
    BY <1>1, FS_Interval DEF J
<1>11. QED
    BY <1>9, <1>10

(* The invariant holds of every call. *)
LEMMA InvariantHolds ==
    ASSUME Width \in Nat
    PROVE  Spec => []IInv
<1>1. Init => IInv
    BY BeginsHolds DEF Init
<1>2. IInv /\ [Next]_vars => IInv'
    <2>1. ASSUME IInv, UNCHANGED vars
          PROVE  IInv'
        BY <2>1 DEF vars, IInv, TypeOK, CoverageKept, Rest, AddressesOf, Idle, Distinct,
                    Apart, Pending, Antichain, Counted, Finished
    <2>2. QED
        BY <2>1, StepKeeps
<1>3. QED
    BY <1>1, <1>2, PTL DEF Spec

(* ReduceNetworks, given any list of networks, covers the same addresses as it
   was given in every pass; in the end no network could be larger, and none is
   within another one. *)
THEOREM Reduction ==
    ASSUME Width \in Nat
    PROVE  Spec => [](TypeOK /\ CoverageKept /\ ResultSmallest)
<1>1. IInv => TypeOK /\ CoverageKept /\ ResultSmallest
    BY SmallestInTheEnd DEF IInv
<1>2. QED
    BY <1>1, InvariantHolds, PTL

(* Every step comes nearer to the end. *)
LEMMA StepAdvances ==
    ASSUME Width \in Nat, IInv, Next
    PROVE  Advances
<1>1. CASE ReturnEarly \/ SortNetworks \/ RemoveDuplicateNetworks \/ RemoveSubsetNetworks
    BY <1>1 DEF Advances, Pass, ReturnEarly, SortNetworks, RemoveDuplicateNetworks,
       RemoveSubsetNetworks
<1>2. CASE MergeNext \/ MergeSkip
    <2>1. i \in Nat /\ Len(nets) \in Nat /\ i <= Len(nets) /\ i' = i + 1
          /\ pc' = pc /\ nets' = nets
        BY <1>2 DEF IInv, TypeOK, MergeNext, MergeSkip
    <2>2. QED
        BY <2>1 DEF Advances
<1>3. CASE PassEnds
    <2>1. /\ out \in Seq(AllNets) /\ Len(out) \in Nat /\ Len(nets) \in Nat
          /\ pc = "merge" /\ i = Len(nets) + 1
        BY <1>3 DEF IInv, TypeOK, PassEnds
    <2>2. CASE Len(out) = Len(nets)
        BY <1>3, <2>1, <2>2 DEF PassEnds, Advances, Pass
    <2>3. CASE Len(out) # Len(nets)
        <3>1. Len(out) <= i - 1
            BY <2>1 DEF IInv, Counted
        <3>2. pc' = pc /\ Len(nets') = Len(out)
            BY <1>3, <2>1, <2>3, SortedTakes DEF PassEnds
        <3>3. QED
            BY <2>1, <2>3, <3>1, <3>2 DEF Advances
    <2>4. QED
        BY <2>2, <2>3
<1>4. QED
    BY <1>1, <1>2, <1>3 DEF Next

(* The passes come to an end: the number of networks goes down from one merging
   pass to the next, and that of networks left within one. *)
THEOREM PassesAdvance ==
    ASSUME Width \in Nat
    PROVE  Spec => [][Advances]_vars
<1>1. IInv /\ [Next]_vars => [Advances]_vars
    BY StepAdvances
<1>2. QED
    BY <1>1, InvariantHolds, PTL DEF Spec

(* "The smallest possible set": whatever networks have the same addresses, they
   are no fewer than those that ReduceNetworks returns. *)
THEOREM NoFewerNetworks ==
    ASSUME Width \in Nat
    PROVE  Spec => [](pc = "done" =>
               \A Q \in SUBSET AllNets :
                   IsFiniteSet(Q) /\ AddressesOf(Q) = cover => Len(nets) <= Cardinality(Q))
<1> DEFINE Fewest == pc = "done" =>
               \A Q \in SUBSET AllNets :
                   IsFiniteSet(Q) /\ AddressesOf(Q) = cover => Len(nets) <= Cardinality(Q)
<1>1. IInv => Fewest
    BY FewestInTheEnd
<1> HIDE DEF Fewest
<1>2. Spec => []Fewest
    BY <1>1, InvariantHolds, PTL
<1>3. QED
    BY <1>2 DEF Fewest
=============================================================================
