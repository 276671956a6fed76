--------------------------- MODULE ShardingProofs ---------------------------
(***************************************************************************)
\* The sharded reduction conserves the candidates, keeps every call within
\* the hard limit and implements the reduction in one step, for all worksets
\* and budgets.
\*
\* The argument: components are the classes of an equivalence, so packing them
\* in any order cuts a workset into disjoint shards that cover it (Packing);
\* the findings about a shard have disjoint sources, so they stand for
\* disjoint sets of original candidates, which together with the excluded
\* ones are those of the shard (Compacting).  Sharded puts the two together.
(***************************************************************************)
EXTENDS Sharding, FiniteSetTheorems, SequenceTheorems, WellFoundedInduction, TLAPS

-----------------------------------------------------------------------------
\* Numbers.

\* A set of numbers has a least one.
LEMMA LeastIs ==
  ASSUME NEW K \in SUBSET Nat, K # {}
  PROVE  Min(K) \in K /\ \A y \in K : Min(K) <= y
<1> DEFINE R == OpToRel(<, Nat)
<1>1. PICK x \in K : \A y \in K : ~ (<<y, x>> \in R)
  <2>1. IsWellFoundedOn(R, Nat)
    BY NatLessThanWellFounded
  <2> HIDE DEF R
  <2> QED BY <2>1, WFMin
<1>2. ASSUME NEW y \in K PROVE x =< y
  <2>1. y < x => <<y, x>> \in R
    BY DEF OpToRel
  <2> HIDE DEF R
  <2>2. ~(y < x)
    BY <1>1, <2>1
  <2> QED BY <2>2
<1>3. \E z \in K : \A y \in K : z =< y
  BY <1>2
<1> QED BY <1>3, Zenon DEF Min

\* Induction: what holds of 0, and of n + 1 if it holds of n, holds of every
\* number.
LEMMA NatSetInduction ==
  ASSUME NEW S, 0 \in S, \A n \in Nat : n \in S => n + 1 \in S
  PROVE  Nat \subseteq S
<1> SUFFICES ASSUME Nat \ S # {} PROVE FALSE
  OBVIOUS
<1> DEFINE x == Min(Nat \ S)
<1>1. x \in Nat \ S /\ \A y \in Nat \ S : x <= y
  BY LeastIs
<1> HIDE DEF x
<1>2. x # 0 /\ x - 1 \in Nat /\ x - 1 < x /\ (x - 1) + 1 = x
  BY <1>1
<1>3. x - 1 \in S
  BY <1>1, <1>2
<1> QED BY <1>1, <1>2, <1>3

\* The same, up to n.
LEMMA StepInduction ==
  ASSUME NEW n \in Nat, NEW S, 0 \in S,
         \A k \in 0..(n - 1) : k \in S => k + 1 \in S
  PROVE  n \in S
<1> DEFINE T == {k \in Nat : k <= n => k \in S}
<1>1. 0 \in T
  OBVIOUS
<1>2. ASSUME NEW k \in Nat, k \in T PROVE k + 1 \in T
  BY <1>2
<1>3. Nat \subseteq T
  <2> HIDE DEF T
  <2> QED BY <1>1, <1>2, NatSetInduction
<1> QED BY <1>3

-----------------------------------------------------------------------------
\* The size of a set of candidates is a number.

Picked(s) == CHOOSE c \in s : TRUE
SizeBy(f, s) == IF s = {} THEN 0 ELSE Picked(s).size + f[s \ {Picked(s)}]

\* Of the subsets with at most n members.
Small(w, n) == {s \in SUBSET w : IsFiniteSet(s) /\ Cardinality(s) <= n}

LEMMA SmallNext ==
  ASSUME NEW w, NEW n \in Nat, NEW s \in Small(w, n + 1), s # {}
  PROVE  Picked(s) \in s /\ s \ {Picked(s)} \in Small(w, n)
<1>1. Picked(s) \in s
  BY DEF Picked
<1>2. IsFiniteSet(s) /\ Cardinality(s) \in Nat /\ Cardinality(s) <= n + 1 /\ s \in SUBSET w
  BY FS_CardinalityType DEF Small
<1>3. IsFiniteSet(s \ {Picked(s)}) /\ Cardinality(s \ {Picked(s)}) = Cardinality(s) - 1
  BY <1>1, <1>2, FS_RemoveElement
<1> QED BY <1>1, <1>2, <1>3 DEF Small

LEMMA SmallEmpty == \A w : \A s \in Small(w, 0) : s = {}
<1> SUFFICES ASSUME NEW w, NEW s \in Small(w, 0) PROVE s = {}
  OBVIOUS
<1>1. IsFiniteSet(s) /\ Cardinality(s) \in Nat /\ Cardinality(s) <= 0
  BY FS_CardinalityType DEF Small
<1>2. Cardinality(s) = 0
  BY <1>1
<1> QED BY <1>1, <1>2, FS_EmptySet

LEMMA SmallMore ==
  ASSUME NEW w, NEW n \in Nat
  PROVE  Small(w, n) \subseteq Small(w, n + 1)
<1> SUFFICES ASSUME NEW s \in Small(w, n) PROVE s \in Small(w, n + 1)
  OBVIOUS
<1>1. IsFiniteSet(s) /\ Cardinality(s) \in Nat /\ Cardinality(s) <= n /\ s \in SUBSET w
  BY FS_CardinalityType DEF Small
<1> QED BY <1>1 DEF Small

Sized(w) == IsFiniteSet(w) /\ \A c \in w : c.size \in Nat

\* The recursive function behind the sum exists.
LEMMA SizesExist ==
  ASSUME NEW w, Sized(w), NEW n \in Nat
  PROVE  \E f \in [Small(w, n) -> Nat] : \A s \in Small(w, n) : f[s] = SizeBy(f, s)
<1> DEFINE S == {m \in Nat : \E f \in [Small(w, m) -> Nat] :
                                \A s \in Small(w, m) : f[s] = SizeBy(f, s)}
<1>1. 0 \in S
  <2> DEFINE f == [s \in Small(w, 0) |-> 0]
  <2>1. f \in [Small(w, 0) -> Nat]
    OBVIOUS
  <2>2. \A s \in Small(w, 0) : f[s] = SizeBy(f, s)
    BY SmallEmpty DEF SizeBy
  <2> QED BY <2>1, <2>2
<1>2. ASSUME NEW m \in Nat, m \in S
      PROVE  m + 1 \in S
  <2>1. PICK f \in [Small(w, m) -> Nat] : \A s \in Small(w, m) : f[s] = SizeBy(f, s)
    BY <1>2
  <2> DEFINE g == [s \in Small(w, m + 1) |-> SizeBy(f, s)]
  <2>2. g \in [Small(w, m + 1) -> Nat]
    <3>1. ASSUME NEW s \in Small(w, m + 1) PROVE SizeBy(f, s) \in Nat
      <4>1. CASE s = {}
        BY <4>1 DEF SizeBy
      <4>2. CASE s # {}
        <5>1. Picked(s) \in s /\ s \ {Picked(s)} \in Small(w, m)
          BY <4>2, SmallNext
        <5>2. Picked(s).size \in Nat /\ f[s \ {Picked(s)}] \in Nat
          BY <5>1 DEF Sized, Small
        <5> QED BY <4>2, <5>2 DEF SizeBy
      <4> QED BY <4>1, <4>2
    <3> QED BY <3>1
  <2>3. \A s \in Small(w, m) : g[s] = f[s]
    BY <2>1, SmallMore
  <2>4. ASSUME NEW s \in Small(w, m + 1) PROVE g[s] = SizeBy(g, s)
    <3>1. CASE s = {}
      BY <3>1 DEF SizeBy
    <3>2. CASE s # {}
      <4>1. s \ {Picked(s)} \in Small(w, m)
        BY <3>2, SmallNext
      <4>2. g[s] = Picked(s).size + f[s \ {Picked(s)}]
        BY <3>2 DEF SizeBy
      <4>3. g[s \ {Picked(s)}] = f[s \ {Picked(s)}]
        BY <2>3, <4>1
      <4> HIDE DEF g
      <4> QED BY <3>2, <4>2, <4>3 DEF SizeBy
    <3> QED BY <3>1, <3>2
  <2> HIDE DEF g
  <2> QED BY <2>2, <2>4
<1> HIDE DEF S
<1>3. Nat \subseteq S
  BY <1>1, <1>2, NatSetInduction
<1> QED BY <1>3 DEF S

LEMMA SizeType ==
  ASSUME NEW w, Sized(w)
  PROVE  Size(w) \in Nat
<1> DEFINE R(h) == h = [s \in SUBSET w |->
                          IF s = {} THEN 0
                          ELSE LET x == CHOOSE x \in s : TRUE IN x.size + h[s \ {x}]]
           f == CHOOSE h : R(h)
           n == Cardinality(w)
<1>1. n \in Nat
  BY FS_CardinalityType DEF Sized
<1>2. Small(w, n) = SUBSET w
  BY FS_Subset DEF Small, Sized
<1>3. \A h : R(h) <=> h = [s \in SUBSET w |-> SizeBy(h, s)]
  BY DEF SizeBy, Picked
<1>4. Size(w) = f[w]
  BY Zenon DEF Size, MapThenSumSet, MapThenFoldSet, R
<1> HIDE DEF R, n
<1>5. \E h : R(h)
  <2>1. PICK h \in [Small(w, n) -> Nat] : \A s \in Small(w, n) : h[s] = SizeBy(h, s)
    BY <1>1, SizesExist
  <2>2. h = [s \in SUBSET w |-> SizeBy(h, s)]
    BY <1>2, <2>1
  <2> QED BY <1>3, <2>2
<1>6. f = [s \in SUBSET w |-> SizeBy(f, s)]
  BY <1>3, <1>5
<1> HIDE DEF f
<1> DEFINE S == {m \in Nat : \A s \in Small(w, m) : f[s] \in Nat}
<1>7. \A s \in SUBSET w : f[s] = SizeBy(f, s)
  BY <1>6
<1>8. 0 \in S
  <2>1. ASSUME NEW s \in Small(w, 0) PROVE f[s] \in Nat
    <3>1. s \in SUBSET w /\ s = {}
      BY SmallEmpty DEF Small
    <3>2. SizeBy(f, s) = 0
      BY <3>1 DEF SizeBy
    <3> QED BY <1>7, <3>1, <3>2
  <2> QED BY <2>1
<1>9. ASSUME NEW m \in Nat, m \in S PROVE m + 1 \in S
  <2>1. ASSUME NEW s \in Small(w, m + 1) PROVE f[s] \in Nat
    <3>1. s \in SUBSET w
      BY DEF Small
    <3>2. CASE s = {}
      BY <1>7, <3>1, <3>2 DEF SizeBy
    <3>3. CASE s # {}
      <4>1. Picked(s) \in s /\ s \ {Picked(s)} \in Small(w, m)
        BY <3>3, SmallNext
      <4>2. Picked(s).size \in Nat /\ f[s \ {Picked(s)}] \in Nat
        BY <1>9, <3>1, <4>1 DEF Sized
      <4>3. f[s] = Picked(s).size + f[s \ {Picked(s)}]
        BY <1>7, <3>1, <3>3 DEF SizeBy
      <4> QED BY <4>2, <4>3
    <3> QED BY <3>2, <3>3
  <2> QED BY <2>1
<1>10. Nat \subseteq S
  <2> HIDE DEF S
  <2> QED BY <1>8, <1>9, NatSetInduction
<1>11. w \in Small(w, n)
  BY <1>2
<1> QED BY <1>1, <1>4, <1>10, <1>11

-----------------------------------------------------------------------------
\* Putting groups in order.

\* No two groups begin with the same candidate.
Distinct(G) ==
    /\ \A g \in G : First(g) \in Nat
    /\ \A g, h \in G : First(g) = First(h) => g = h

Ordered(s, G) ==
    /\ s \in [1..Cardinality(G) -> G]
    /\ \A i, j \in 1..Cardinality(G) : i < j => First(s[i]) < First(s[j])

\* A set that is not empty has a group that begins before the others.
LEMMA FirstGroup ==
  ASSUME NEW G, Distinct(G), G # {}
  PROVE  \E g \in G : \A h \in G \ {g} : First(g) < First(h)
<1> DEFINE K == {First(g) : g \in G}
<1>1. K \in SUBSET Nat /\ K # {}
  BY DEF Distinct
<1>2. Min(K) \in K /\ \A y \in K : Min(K) <= y
  <2> HIDE DEF K
  <2> QED BY <1>1, LeastIs
<1>3. PICK g \in G : First(g) = Min(K)
  BY <1>2
<1>4. ASSUME NEW h \in G \ {g} PROVE First(g) < First(h)
  <2>1. First(g) <= First(h)
    BY <1>2, <1>3
  <2>2. First(g) # First(h) /\ First(g) \in Nat /\ First(h) \in Nat
    BY DEF Distinct
  <2> QED BY <2>1, <2>2
<1> QED BY <1>4

\* Groups in order, after one that begins before them.
LEMMA OrderedMore ==
  ASSUME NEW G, IsFiniteSet(G), NEW g \in G, NEW m \in Nat, Cardinality(G) = m + 1,
         \A h \in G \ {g} : First(g) < First(h),
         NEW s, Ordered(s, G \ {g})
  PROVE  \E t : Ordered(t, G)
<1>1. Cardinality(G \ {g}) = m
  BY FS_RemoveElement
<1>2. /\ s \in [1..m -> G \ {g}]
      /\ \A i, j \in 1..m : i < j => First(s[i]) < First(s[j])
  BY <1>1 DEF Ordered
<1> DEFINE t == [i \in 1..(m + 1) |-> IF i = 1 THEN g ELSE s[i - 1]]
<1>3. \A i \in 2..(m + 1) : i - 1 \in 1..m /\ i # 1 /\ i \in 1..(m + 1)
  OBVIOUS
<1>4. \A i \in 1..(m + 1) : i = 1 \/ i \in 2..(m + 1)
  OBVIOUS
<1>5. \A i \in 2..(m + 1) : t[i] = s[i - 1] /\ t[i] \in G \ {g}
  BY <1>2, <1>3
<1>6. 1 \in 1..(m + 1) /\ t[1] = g
  OBVIOUS
<1>7. t \in [1..(m + 1) -> G]
  <2>1. \A i \in 1..(m + 1) : t[i] \in G
    BY <1>4, <1>5, <1>6
  <2>2. t = [i \in 1..(m + 1) |-> t[i]]
    OBVIOUS
  <2> HIDE DEF t
  <2> QED BY <2>1, <2>2
<1> HIDE DEF t
<1>8. ASSUME NEW i \in 1..(m + 1), NEW j \in 1..(m + 1), i < j
      PROVE  First(t[i]) < First(t[j])
  <2>1. j \in 2..(m + 1)
    BY <1>8
  <2>2. CASE i = 1
    BY <1>5, <1>6, <2>1, <2>2
  <2>3. CASE i \in 2..(m + 1)
    <3>1. i - 1 < j - 1
      BY <1>8
    <3> QED BY <1>2, <1>3, <1>5, <2>1, <2>3, <3>1
  <2> QED BY <1>4, <2>2, <2>3
<1> QED BY <1>7, <1>8 DEF Ordered

\* Every finite set of groups can be put in order.
LEMMA OrderExists ==
  ASSUME NEW G, IsFiniteSet(G), Distinct(G)
  PROVE  \E s : Ordered(s, G)
<1> DEFINE T == {m \in Nat : \A H : /\ IsFiniteSet(H) /\ Cardinality(H) = m /\ Distinct(H)
                                    => \E s : Ordered(s, H)}
<1>1. 0 \in T
  <2>1. ASSUME NEW H, IsFiniteSet(H), Cardinality(H) = 0
        PROVE  \E s : Ordered(s, H)
    <3>1. <<>> \in [1..0 -> H] /\ 1..0 = {}
      OBVIOUS
    <3>2. Ordered(<<>>, H)
      BY <2>1, <3>1 DEF Ordered
    <3> QED BY <3>2
  <2> QED BY <2>1
<1>2. ASSUME NEW m \in Nat, m \in T
      PROVE  m + 1 \in T
  <2>1. ASSUME NEW H, IsFiniteSet(H), Cardinality(H) = m + 1, Distinct(H)
        PROVE  \E s : Ordered(s, H)
    <3>1. H # {}
      BY <2>1, FS_EmptySet
    <3>2. PICK g \in H : \A h \in H \ {g} : First(g) < First(h)
      BY <2>1, <3>1, FirstGroup
    <3>3. IsFiniteSet(H \ {g}) /\ Cardinality(H \ {g}) = m
      <4> HIDE DEF T
      <4>1. IsFiniteSet(H \ {g}) /\ Cardinality(H \ {g}) = Cardinality(H) - 1
        BY <2>1, FS_RemoveElement
      <4> QED BY <2>1, <4>1
    <3>4. Distinct(H \ {g})
      BY <2>1 DEF Distinct
    <3>5. PICK s : Ordered(s, H \ {g})
      BY <1>2, <3>3, <3>4
    <3> QED BY <2>1, <3>2, <3>5, OrderedMore
  <2> QED BY <2>1
<1> HIDE DEF T
<1>3. Nat \subseteq T
  BY <1>1, <1>2, NatSetInduction
<1>4. Cardinality(G) \in T
  BY <1>3, FS_CardinalityType
<1> QED BY <1>4 DEF T

\* The groups in order are a sequence in which each occurs once.
LEMMA InOrderOK ==
  ASSUME NEW G, IsFiniteSet(G), Distinct(G), NEW s, s = InOrder(G)
  PROVE  /\ s \in Seq(G)
         /\ G = {s[i] : i \in 1..Len(s)}
         /\ \A i, j \in 1..Len(s) : i # j => s[i] # s[j]
<1> DEFINE n == Cardinality(G)
<1>1. n \in Nat
  BY FS_CardinalityType
<1>2. Ordered(s, G)
  <2>1. \E r \in [1..n -> G] : \A i, j \in DOMAIN r : i < j => First(r[i]) < First(r[j])
    <3>1. PICK r : Ordered(r, G)
      BY OrderExists
    <3> QED BY <3>1 DEF Ordered
  <2>2. s \in [1..n -> G] /\ \A i, j \in DOMAIN s : i < j => First(s[i]) < First(s[j])
    BY <2>1, Zenon DEF InOrder
  <2> QED BY <2>2 DEF Ordered
<1>3. s \in [1..n -> G] /\ \A i, j \in 1..n : i < j => First(s[i]) < First(s[j])
  BY <1>2 DEF Ordered
<1> HIDE DEF n
<1>4. s \in Seq(G) /\ Len(s) = n
  BY <1>1, <1>3
<1>5. ASSUME NEW i \in 1..n, NEW j \in 1..n, i # j
      PROVE  s[i] # s[j]
  <2>1. i < j \/ j < i
    BY <1>1, <1>5
  <2>2. First(s[i]) < First(s[j]) \/ First(s[j]) < First(s[i])
    BY <1>3, <2>1
  <2>3. First(s[i]) \in Nat /\ First(s[j]) \in Nat
    BY <1>3 DEF Distinct
  <2> QED BY <2>2, <2>3
<1>6. s \in Surjection(1..n, G)
  <2>1. s \in Injection(1..n, G)
    BY <1>3, <1>5 DEF Injection, IsInjective
  <2>2. Cardinality(1..n) = n
    BY <1>1, FS_Interval
  <2> QED BY <2>1, <2>2, FS_Injection DEF n
<1>7. G = {s[i] : i \in 1..n}
  BY <1>3, <1>6 DEF Surjection
<1> QED BY <1>4, <1>5, <1>7

-----------------------------------------------------------------------------
\* Worksets.

\* Each candidate has its id, and stands for original candidates of its own.
IsWorkset(w) ==
    /\ IsFiniteSet(w)
    /\ \A c \in w : c.id \in Nat /\ c.size \in Nat
    /\ \A c, d \in w : c.id = d.id => c = d
    /\ \A c, d \in w : c # d => c.origins \cap d.origins = {}

LEMMA SubWorkset ==
  ASSUME NEW w, IsWorkset(w), NEW v \in SUBSET w
  PROVE  IsWorkset(v) /\ Under(v) \subseteq Under(w)
<1>1. IsFiniteSet(v)
  BY FS_Subset DEF IsWorkset
<1> QED BY <1>1 DEF IsWorkset, Under

\* Different candidates stand for different original ones.
LEMMA UnderDisjoint ==
  ASSUME NEW w, IsWorkset(w), NEW u \in SUBSET w, NEW v \in SUBSET w, u \cap v = {}
  PROVE  Under(u) \cap Under(v) = {}
<1> SUFFICES ASSUME NEW o \in Under(u), o \in Under(v) PROVE FALSE
  OBVIOUS
<1>1. PICK c \in u : o \in c.origins
  BY DEF Under
<1>2. PICK d \in v : o \in d.origins
  BY DEF Under
<1>3. c \in w /\ d \in w /\ c # d
  OBVIOUS
<1> QED BY <1>1, <1>2, <1>3 DEF IsWorkset

LEMMA GetIs ==
  ASSUME NEW w, IsWorkset(w), NEW c \in w
  PROVE  Get(w, c.id) = c
<1>1. Get(w, c.id) \in w /\ Get(w, c.id).id = c.id
  BY Zenon DEF Get
<1> QED BY <1>1 DEF IsWorkset

\* The origins of some ids are what their candidates stand for.
LEMMA OriginsUnder ==
  ASSUME NEW w, IsWorkset(w), NEW ids \in SUBSET IdsOf(w)
  PROVE  Origins(w, ids) = Under({c \in w : c.id \in ids})
<1>1. \A o \in Origins(w, ids) : \E c \in w : c.id \in ids /\ o \in c.origins
  BY GetIs DEF Origins, IdsOf
<1>2. \A c \in w : c.id \in ids => c.origins \subseteq Origins(w, ids)
  BY GetIs DEF Origins
<1>3. Origins(w, ids) \subseteq Under({c \in w : c.id \in ids})
  BY <1>1 DEF Under
<1>4. Under({c \in w : c.id \in ids}) \subseteq Origins(w, ids)
  BY <1>2 DEF Under
<1> QED BY <1>3, <1>4

LEMMA OriginsDisjoint ==
  ASSUME NEW w, IsWorkset(w), NEW A \in SUBSET IdsOf(w), NEW B \in SUBSET IdsOf(w),
         A \cap B = {}
  PROVE  Origins(w, A) \cap Origins(w, B) = {}
<1> DEFINE u == {c \in w : c.id \in A}
           v == {c \in w : c.id \in B}
<1>1. u \in SUBSET w /\ v \in SUBSET w /\ u \cap v = {}
  OBVIOUS
<1>2. Origins(w, A) = Under(u) /\ Origins(w, B) = Under(v)
  BY OriginsUnder
<1> HIDE DEF u, v
<1> QED BY <1>1, <1>2, UnderDisjoint

LEMMA OriginsAll ==
  ASSUME NEW w, IsWorkset(w)
  PROVE  Origins(w, IdsOf(w)) = Under(w)
<1>1. {c \in w : c.id \in IdsOf(w)} = w
  BY DEF IdsOf
<1>2. Origins(w, IdsOf(w)) = Under({c \in w : c.id \in IdsOf(w)})
  BY OriginsUnder
<1> QED BY <1>1, <1>2

-----------------------------------------------------------------------------
\* The components of a workset.

LEMMA LanesCover ==
  ASSUME NEW g
  PROVE  /\ UNION Lanes(g) = g
         /\ \A h \in Lanes(g) : h # {}
         /\ \A h, k \in Lanes(g) : h \cap k # {} => h = k
<1> DEFINE lane(c) == {d \in g : d.persona = c.persona}
<1>1. \A c \in g : c \in lane(c) /\ lane(c) \subseteq g
  OBVIOUS
<1>2. \A c, d \in g : c.persona = d.persona => lane(c) = lane(d)
  OBVIOUS
<1>3. ASSUME NEW c \in g, NEW d \in g, lane(c) \cap lane(d) # {}
      PROVE  lane(c) = lane(d)
  <2>1. c.persona = d.persona
    BY <1>3
  <2> QED BY <1>2, <2>1
<1>4. Lanes(g) = {lane(c) : c \in g}
  BY DEF Lanes
<1> HIDE DEF lane
<1> QED BY <1>1, <1>3, <1>4

LEMMA CutCover ==
  ASSUME NEW g, g # {}
  PROVE  /\ UNION Cut(g) = g
         /\ \A h \in Cut(g) : h # {}
         /\ \A h, k \in Cut(g) : h \cap k # {} => h = k
<1> DEFINE x == Cut(g)
           single == {{c} : c \in g}
<1>1. x = {g} \/ x = single \/ x = Lanes(g)
  BY DEF Cut
<1>2. /\ UNION single = g
      /\ \A h \in single : h # {}
      /\ \A h, k \in single : h \cap k # {} => h = k
  OBVIOUS
<1> HIDE DEF x, single
<1>3. CASE x = {g}
  BY <1>3 DEF x
<1>4. CASE x = single
  BY <1>2, <1>4 DEF x
<1>5. CASE x = Lanes(g)
  BY <1>5, LanesCover DEF x
<1> QED BY <1>1, <1>3, <1>4, <1>5

LEMMA ComponentsCover ==
  ASSUME NEW w
  PROVE  /\ UNION Components(w) = w
         /\ \A h \in Components(w) : h # {}
         /\ \A h, k \in Components(w) : h \cap k # {} => h = k
<1>1. \A c \in w : /\ c \in Component(w, c) /\ Component(w, c) \subseteq w
                   /\ \A d \in Component(w, c) : d.file = c.file
  BY DEF Component, Linked
<1>2. \A c, d \in w : c.file = d.file => Component(w, c) = Component(w, d)
  BY DEF Component, Linked
<1>3. \A c \in w : /\ UNION Cut(Component(w, c)) = Component(w, c)
                   /\ \A h \in Cut(Component(w, c)) : h # {}
                   /\ \A h, k \in Cut(Component(w, c)) : h \cap k # {} => h = k
  <2> SUFFICES ASSUME NEW c \in w
               PROVE  /\ UNION Cut(Component(w, c)) = Component(w, c)
                      /\ \A h \in Cut(Component(w, c)) : h # {}
                      /\ \A h, k \in Cut(Component(w, c)) : h \cap k # {} => h = k
    OBVIOUS
  <2> DEFINE g == Component(w, c)
  <2>1. g # {}
    BY <1>1
  <2> HIDE DEF g
  <2>2. /\ UNION Cut(g) = g
        /\ \A h \in Cut(g) : h # {}
        /\ \A h, k \in Cut(g) : h \cap k # {} => h = k
    BY <2>1, CutCover
  <2> QED BY <2>2 DEF g
<1>4. \A h : h \in Components(w) <=> \E c \in w : h \in Cut(Component(w, c))
  BY DEF Components
<1>5. UNION Components(w) = w
  <2>1. \A h \in Components(w) : h \subseteq w
    BY <1>1, <1>3, <1>4
  <2>2. \A c \in w : \E h \in Components(w) : c \in h
    BY <1>1, <1>3, <1>4
  <2> QED BY <2>1, <2>2
<1>6. \A h \in Components(w) : h # {}
  BY <1>3, <1>4
<1>7. ASSUME NEW h \in Components(w), NEW k \in Components(w), h \cap k # {}
      PROVE  h = k
  <2>1. PICK c \in w, d \in w : h \in Cut(Component(w, c)) /\ k \in Cut(Component(w, d))
    BY <1>4
  <2>2. h \subseteq Component(w, c) /\ k \subseteq Component(w, d)
    BY <1>3, <2>1
  <2>3. c.file = d.file
    BY <1>1, <1>7, <2>2
  <2>4. Component(w, c) = Component(w, d)
    BY <1>2, <2>3
  <2> QED BY <1>3, <1>7, <2>1, <2>4
<1> QED BY <1>5, <1>6, <1>7

\* Components are finitely many, and each has a first candidate of its own.
LEMMA ComponentsDistinct ==
  ASSUME NEW w, IsWorkset(w)
  PROVE  IsFiniteSet(Components(w)) /\ Distinct(Components(w))
<1>1. Components(w) \subseteq SUBSET w
  BY ComponentsCover
<1>2. IsFiniteSet(Components(w))
  <2>1. IsFiniteSet(SUBSET w)
    BY FS_SUBSET DEF IsWorkset
  <2> QED BY <1>1, <2>1, FS_Subset
<1>3. ASSUME NEW g \in Components(w)
      PROVE  First(g) \in Nat /\ \E c \in g : c.id = First(g)
  <2>1. IdsOf(g) \in SUBSET Nat /\ IdsOf(g) # {}
    BY <1>1, ComponentsCover DEF IdsOf, IsWorkset
  <2>2. First(g) \in IdsOf(g)
    BY <2>1, LeastIs DEF First
  <2> QED BY <2>1, <2>2 DEF IdsOf
<1>4. ASSUME NEW g \in Components(w), NEW h \in Components(w), First(g) = First(h)
      PROVE  g = h
  <2>1. PICK c \in g, d \in h : c.id = d.id
    BY <1>3, <1>4
  <2>2. c = d
    BY <1>1, <2>1 DEF IsWorkset
  <2> QED BY <2>2, ComponentsCover
<1> QED BY <1>2, <1>3, <1>4 DEF Distinct

-----------------------------------------------------------------------------
\* The fold of Add.  The sequence that a fold builds is a recursive function's
\* value, hence a choice: PacksExist shows that there is something to choose,
\* and FoldSteps names the packs after each component.

\* The largest member of a set of numbers up to n + 1 that has n + 1.
LEMMA MaxLast ==
  ASSUME NEW n \in Nat, NEW T \in SUBSET (1..(n + 1)), n + 1 \in T
  PROVE  Max(T) = n + 1 /\ T \ {Max(T)} \in SUBSET (1..n)
<1>1. \A y \in T : n + 1 >= y
  OBVIOUS
<1>2. \A x \in T : (\A y \in T : x >= y) => x = n + 1
  OBVIOUS
<1>3. Max(T) = n + 1
  BY <1>1, <1>2 DEF Max
<1> QED BY <1>3

PacksBy(f, gs, T) == IF T = {} THEN <<>> ELSE Add(f[T \ {Max(T)}], gs[Max(T)])
IsFold(f, gs, n) == f = [T \in SUBSET (1..n) |-> PacksBy(f, gs, T)]

LEMMA PacksExist ==
  ASSUME NEW gs, NEW n \in Nat
  PROVE  \E f : IsFold(f, gs, n)
<1> DEFINE S == {m \in Nat : \E f : IsFold(f, gs, m)}
<1>1. 0 \in S
  <2> DEFINE f == [T \in SUBSET (1..0) |-> <<>>]
  <2>1. \A T \in SUBSET (1..0) : T = {}
    OBVIOUS
  <2>2. IsFold(f, gs, 0)
    BY <2>1 DEF IsFold, PacksBy
  <2> QED BY <2>2
<1>2. ASSUME NEW m \in Nat, m \in S
      PROVE  m + 1 \in S
  <2>1. PICK f : IsFold(f, gs, m)
    BY <1>2
  <2> DEFINE g == [T \in SUBSET (1..(m + 1)) |->
                      IF m + 1 \in T THEN Add(f[T \ {m + 1}], gs[m + 1]) ELSE f[T]]
  <2>2. \A T \in SUBSET (1..m) : f[T] = PacksBy(f, gs, T) /\ g[T] = f[T]
    <3>1. ASSUME NEW T \in SUBSET (1..m) PROVE T \in SUBSET (1..(m + 1)) /\ m + 1 \notin T
      OBVIOUS
    <3>2. \A T \in SUBSET (1..m) : f[T] = PacksBy(f, gs, T)
      BY <2>1 DEF IsFold
    <3> QED BY <3>1, <3>2
  <2>3. ASSUME NEW T \in SUBSET (1..(m + 1))
        PROVE  g[T] = PacksBy(g, gs, T)
    <3>1. CASE m + 1 \in T
      <4>1. Max(T) = m + 1 /\ T \ {Max(T)} \in SUBSET (1..m)
        BY <3>1, MaxLast
      <4>2. g[T \ {Max(T)}] = f[T \ {Max(T)}]
        BY <2>2, <4>1
      <4>3. g[T] = Add(f[T \ {m + 1}], gs[m + 1])
        BY <3>1
      <4>4. T # {}
        BY <3>1
      <4> HIDE DEF g
      <4> QED BY <4>1, <4>2, <4>3, <4>4 DEF PacksBy
    <3>2. CASE m + 1 \notin T
      <4>0. \A i \in 1..(m + 1) : i # m + 1 => i \in 1..m
        OBVIOUS
      <4>1. T \in SUBSET (1..m) /\ T \ {Max(T)} \in SUBSET (1..m)
        BY <3>2, <4>0
      <4>2. g[T] = PacksBy(f, gs, T) /\ g[T \ {Max(T)}] = f[T \ {Max(T)}]
        BY <2>2, <4>1
      <4> HIDE DEF g
      <4> QED BY <4>2 DEF PacksBy
    <3> QED BY <3>1, <3>2
  <2>4. g = [T \in SUBSET (1..(m + 1)) |-> PacksBy(g, gs, T)]
    <3>1. g = [T \in SUBSET (1..(m + 1)) |-> g[T]]
      OBVIOUS
    <3> HIDE DEF g
    <3> QED BY <2>3, <3>1
  <2>5. IsFold(g, gs, m + 1)
    <3> HIDE DEF g
    <3> QED BY <2>4 DEF IsFold
  <2> QED BY <2>5
<1> HIDE DEF S
<1>3. Nat \subseteq S
  BY <1>1, <1>2, NatSetInduction
<1> QED BY <1>3 DEF S

Packed(gs) == FoldLeft(Add, <<>>, gs)

LEMMA FoldSteps ==
  ASSUME NEW G, NEW gs \in Seq(G)
  PROVE  \E F : /\ F[0] = <<>> /\ F[Len(gs)] = Packed(gs)
                /\ \A k \in 0..(Len(gs) - 1) : F[k + 1] = Add(F[k], gs[k + 1])
<1> DEFINE n == Len(gs)
           R(h) == h = [T \in SUBSET (DOMAIN gs) |->
                          IF T = {} THEN <<>> ELSE Add(h[T \ {Max(T)}], gs[Max(T)])]
           f == CHOOSE h : R(h)
<1>1. n \in Nat /\ DOMAIN gs = 1..n
  OBVIOUS
<1>2. \A h : R(h) <=> IsFold(h, gs, n)
  BY <1>1 DEF IsFold, PacksBy
<1>3. \E h : IsFold(h, gs, n)
  <2> HIDE DEF n
  <2> QED BY <1>1, PacksExist
<1> HIDE DEF R
<1>4. R(f)
  BY <1>2, <1>3
<1>5. Packed(gs) = f[DOMAIN gs]
  BY Zenon DEF Packed, FoldLeft, MapThenFoldSet, R
<1> HIDE DEF f, n
<1>6. \A T \in SUBSET (1..n) : f[T] = PacksBy(f, gs, T)
  BY <1>2, <1>4 DEF IsFold
<1> DEFINE F == [k \in 0..n |-> f[1..k]]
<1>7. F[0] = <<>>
  <2>1. 1..0 = {} /\ {} \in SUBSET (1..n) /\ 0 \in 0..n
    BY <1>1
  <2>2. f[{}] = <<>>
    BY <1>6, <2>1 DEF PacksBy
  <2> QED BY <2>1, <2>2
<1>8. ASSUME NEW k \in 0..(n - 1)
      PROVE  F[k + 1] = Add(F[k], gs[k + 1])
  <2>1. k \in Nat /\ k + 1 \in 0..n /\ k \in 0..n
    BY <1>1
  <2> DEFINE T == 1..(k + 1)
  <2>2. T # {} /\ k + 1 \in T /\ T \in SUBSET (1..n) /\ T \ {k + 1} = 1..k
    <3>1. k + 1 \in T
      BY <2>1
    <3>2. T \in SUBSET (1..n)
      BY <1>1, <2>1
    <3>3. T \ {k + 1} = 1..k
      BY <2>1
    <3> QED BY <3>1, <3>2, <3>3
  <2>3. Max(T) = k + 1
    <3>1. T \in SUBSET (1..(k + 1))
      OBVIOUS
    <3> HIDE DEF T
    <3> QED BY <2>1, <2>2, <3>1, MaxLast
  <2>4. f[T] = Add(f[1..k], gs[k + 1])
    <3> HIDE DEF T
    <3> QED BY <1>6, <2>2, <2>3 DEF PacksBy
  <2> QED BY <2>1, <2>4
<1>9. F[n] = Packed(gs)
  BY <1>1, <1>5
<1> HIDE DEF F
<1> QED BY <1>7, <1>8, <1>9 DEF n

-----------------------------------------------------------------------------
\* Packing.

\* The packs are disjoint and together they are v.
IsCut(p, v) ==
    /\ p \in Seq(SUBSET v)
    /\ v = UNION {p[i] : i \in 1..Len(p)}
    /\ \A i, j \in 1..Len(p) : i # j => p[i] \cap p[j] = {}

\* Add keeps them so, whether it fills the last pack or begins another.
LEMMA AddCuts ==
  ASSUME NEW v, NEW p, IsCut(p, v), NEW g, v \cap g = {}
  PROVE  IsCut(Add(p, g), v \cup g)
<1> DEFINE n == Len(p)
           u == v \cup g
           q == Append(p, g)
           r == Front(p) \o <<Last(p) \cup g>>
<1>1. p \in Seq(SUBSET u) /\ n \in Nat /\ g \in SUBSET u
  BY DEF IsCut
<1>2. \A i \in 1..n : p[i] \subseteq v /\ p[i] \cap g = {}
  BY DEF IsCut
<1>3. \A i, j \in 1..n : i # j => p[i] \cap p[j] = {}
  BY DEF IsCut
<1>4. v = UNION {p[i] : i \in 1..n}
  BY DEF IsCut
<1>5. Add(p, g) = q \/ (p # <<>> /\ Add(p, g) = r)
  BY DEF Add
<1>6. IsCut(q, u)
  <2>1. q \in Seq(SUBSET u) /\ Len(q) = n + 1 /\ q[n + 1] = g
    BY <1>1
  <2>2. \A i \in 1..n : q[i] = p[i]
    BY <1>1
  <2>3. \A i \in 1..(n + 1) : i \in 1..n \/ i = n + 1
    BY <1>1
  <2>4. 1..n \subseteq 1..(n + 1) /\ n + 1 \in 1..(n + 1)
    BY <1>1
  <2> HIDE DEF q, u, n
  <2>5. \A i, j \in 1..(n + 1) : i # j => q[i] \cap q[j] = {}
    BY <1>2, <1>3, <2>1, <2>2, <2>3
  <2>6. u = UNION {q[i] : i \in 1..(n + 1)}
    <3>1. \A o \in u : \E i \in 1..(n + 1) : o \in q[i]
      BY <1>4, <2>1, <2>2, <2>4 DEF u
    <3>2. \A i \in 1..(n + 1) : q[i] \subseteq u
      BY <1>2, <2>1, <2>2, <2>3 DEF u
    <3> QED BY <3>1, <3>2
  <2> QED BY <2>1, <2>5, <2>6 DEF IsCut
<1>7. ASSUME p # <<>> PROVE IsCut(r, u)
  <2>1. n \in Nat \ {0}
    BY <1>1, <1>7, EmptySeq
  <2>2. /\ Front(p) \in Seq(SUBSET u) /\ Len(Front(p)) = n - 1
        /\ \A i \in 1..(n - 1) : Front(p)[i] = p[i]
    <3> DEFINE X == SUBSET u
    <3>1. p \in Seq(X) /\ 1 \in 1..(Len(p) + 1) /\ n - 1 \in 0..Len(p) /\ n \in Nat \ {0}
      BY <1>1, <2>1
    <3> HIDE DEF X, n
    <3>2. /\ SubSeq(p, 1, n - 1) \in Seq(X)
          /\ Len(SubSeq(p, 1, n - 1)) = IF 1 <= n - 1 THEN (n - 1) - 1 + 1 ELSE 0
          /\ \A i \in 1..((n - 1) - 1 + 1) : SubSeq(p, 1, n - 1)[i] = p[1 + i - 1]
      BY <3>1, SubSeqProperties
    <3>3. (n - 1) - 1 + 1 = n - 1 /\ \A i \in 1..(n - 1) : 1 + i - 1 = i
      BY <3>1
    <3>4. Len(SubSeq(p, 1, n - 1)) = n - 1
      BY <3>1, <3>2
    <3> QED BY <3>2, <3>3, <3>4 DEF Front, X, n
  <2>4. Last(p) = p[n] /\ p[n] \in SUBSET u /\ n \in 1..n
    BY <1>1, <2>1 DEF Last
  <2>5. r \in Seq(SUBSET u) /\ Len(r) = n /\ r[n] = p[n] \cup g
    BY <1>1, <2>1, <2>2, <2>4
  <2>6. \A i \in 1..(n - 1) : r[i] = p[i]
    BY <2>1, <2>2
  <2>7. \A i \in 1..n : i \in 1..(n - 1) \/ i = n
    BY <2>1
  <2>8. \A i \in 1..(n - 1) : i \in 1..n /\ i # n
    BY <2>1
  <2> HIDE DEF r, u, n
  <2>9. \A i, j \in 1..n : i # j => r[i] \cap r[j] = {}
    BY <1>2, <1>3, <2>4, <2>5, <2>6, <2>7, <2>8
  <2>10. u = UNION {r[i] : i \in 1..n}
    <3>1. \A o \in u : \E i \in 1..n : o \in r[i]
      BY <1>4, <2>4, <2>5, <2>6, <2>7 DEF u
    <3>2. \A i \in 1..n : r[i] \subseteq u
      BY <1>2, <2>4, <2>5, <2>6, <2>7 DEF u
    <3> QED BY <3>1, <3>2
  <2> QED BY <2>5, <2>9, <2>10 DEF IsCut
<1> QED BY <1>5, <1>6, <1>7

\* The packs cut the workset.
LEMMA Packing ==
  ASSUME NEW w, IsWorkset(w)
  PROVE  IsCut(Pack(w), w)
<1> DEFINE G == Components(w)
           gs == InOrder(G)
<1>1. IsFiniteSet(G) /\ Distinct(G)
  BY ComponentsDistinct
<1>2. /\ UNION G = w
      /\ \A h, k \in G : h \cap k # {} => h = k
  BY ComponentsCover
<1> HIDE DEF G
<1>3. /\ gs \in Seq(G)
      /\ G = {gs[i] : i \in 1..Len(gs)}
      /\ \A i, j \in 1..Len(gs) : i # j => gs[i] # gs[j]
  BY <1>1, InOrderOK
<1>4. Pack(w) = Packed(gs)
  BY Zenon DEF Pack, Packed, G
<1> HIDE DEF gs
<1> DEFINE n == Len(gs)
           seen(k) == UNION {gs[i] : i \in 1..k}
<1>5. n \in Nat
  BY <1>3
<1>6. PICK F : /\ F[0] = <<>> /\ F[n] = Packed(gs)
               /\ \A k \in 0..(n - 1) : F[k + 1] = Add(F[k], gs[k + 1])
  BY <1>3, FoldSteps
<1>7. \A k \in 0..(n - 1) : seen(k + 1) = seen(k) \cup gs[k + 1] /\ seen(k) \cap gs[k + 1] = {}
  <2> SUFFICES ASSUME NEW k \in 0..(n - 1)
               PROVE  seen(k + 1) = seen(k) \cup gs[k + 1] /\ seen(k) \cap gs[k + 1] = {}
    OBVIOUS
  <2>1. 1..(k + 1) = (1..k) \cup {k + 1}
    OBVIOUS
  <2>2. \A i \in 1..k : i \in 1..n /\ i # k + 1
    BY <1>5
  <2>3. k + 1 \in 1..n
    BY <1>5
  <2> HIDE DEF n
  <2>4. seen(k + 1) = seen(k) \cup gs[k + 1]
    BY <2>1
  <2>5. \A i \in 1..k : gs[i] \cap gs[k + 1] = {}
    <3> SUFFICES ASSUME NEW i \in 1..k PROVE gs[i] \cap gs[k + 1] = {}
      OBVIOUS
    <3>1. gs[i] # gs[k + 1] /\ gs[i] \in G /\ gs[k + 1] \in G
      BY <1>3, <2>2, <2>3 DEF n
    <3> QED BY <1>2, <3>1
  <2> QED BY <2>4, <2>5
<1> HIDE DEF n, seen
<1> DEFINE S == {k \in Nat : k <= n => IsCut(F[k], seen(k))}
<1>8. 0 \in S
  <2>1. seen(0) = {}
    BY DEF seen
  <2>2. IsCut(<<>>, {})
    BY DEF IsCut
  <2> QED BY <1>6, <2>1, <2>2
<1>9. ASSUME NEW k \in Nat, k \in S
      PROVE  k + 1 \in S
  <2> SUFFICES ASSUME k + 1 <= n PROVE IsCut(F[k + 1], seen(k + 1))
    OBVIOUS
  <2>1. k \in 0..(n - 1) /\ k <= n
    BY <1>5
  <2>2. IsCut(F[k], seen(k)) /\ seen(k) \cap gs[k + 1] = {}
    BY <1>7, <1>9, <2>1
  <2>3. IsCut(Add(F[k], gs[k + 1]), seen(k) \cup gs[k + 1])
    BY <2>2, AddCuts
  <2> QED BY <1>6, <1>7, <2>1, <2>3
<1>10. IsCut(F[n], seen(n))
  <2>1. Nat \subseteq S
    <3> HIDE DEF S
    <3> QED BY <1>8, <1>9, NatSetInduction
  <2> QED BY <1>5, <2>1
<1>11. seen(n) = w
  BY <1>2, <1>3 DEF seen, n
<1> QED BY <1>4, <1>6, <1>10, <1>11

-----------------------------------------------------------------------------
\* Compacting.

\* What validity says of the findings: they have sources, each its own.
Judged(w, F) ==
    /\ \A f \in F : f.sources \in SUBSET IdsOf(w) /\ f.sources # {}
    /\ \A f, g \in F : f # g => f.sources \cap g.sources = {}

LEMMA FindingsFinite ==
  ASSUME NEW w, IsWorkset(w), NEW F, Judged(w, F)
  PROVE  IsFiniteSet(F)
<1>1. IsFiniteSet(IdsOf(w))
  <2> DEFINE m == [c \in w |-> c.id]
  <2>1. m \in Surjection(w, IdsOf(w))
    BY DEF Surjection, IdsOf
  <2> HIDE DEF m
  <2> QED BY <2>1, FS_Surjection DEF IsWorkset
<1>2. IsFiniteSet(SUBSET IdsOf(w))
  BY <1>1, FS_SUBSET
<1> DEFINE m == [f \in F |-> f.sources]
<1>3. m \in [F -> SUBSET IdsOf(w)]
  BY DEF Judged
<1>4. ASSUME NEW f \in F, NEW g \in F, m[f] = m[g]
      PROVE  f = g
  BY <1>4 DEF Judged
<1>5. m \in Injection(F, SUBSET IdsOf(w))
  <2> HIDE DEF m
  <2> QED BY <1>3, <1>4 DEF Injection, IsInjective
<1> HIDE DEF m
<1> QED BY <1>2, <1>5, FS_Injection

\* A finding's first source is its own.
LEMMA FirstSource ==
  ASSUME NEW w, IsWorkset(w), NEW F, Judged(w, F)
  PROVE  /\ \A f \in F : Min(f.sources) \in Nat
         /\ \A f, g \in F : Min(f.sources) = Min(g.sources) => f = g
<1>1. ASSUME NEW f \in F
      PROVE  Min(f.sources) \in f.sources /\ f.sources \in SUBSET Nat
  <2>1. f.sources \in SUBSET Nat /\ f.sources # {}
    BY DEF Judged, IsWorkset, IdsOf
  <2> QED BY <2>1, LeastIs
<1> QED BY <1>1 DEF Judged

\* The findings are numbered without a gap or a double.
LEMMA Ranks ==
  ASSUME NEW w, IsWorkset(w), NEW F, Judged(w, F)
  PROVE  /\ \A f \in F : Rank(f, F) \in 1..Cardinality(F)
         /\ \A f, g \in F : Rank(f, F) = Rank(g, F) => f = g
<1> DEFINE upto(f) == {g \in F : Min(g.sources) <= Min(f.sources)}
<1>1. IsFiniteSet(F) /\ Cardinality(F) \in Nat
  BY FindingsFinite, FS_CardinalityType
<1>2. /\ \A f \in F : Min(f.sources) \in Nat
      /\ \A f, g \in F : Min(f.sources) = Min(g.sources) => f = g
  BY FirstSource
<1>3. \A f : Rank(f, F) = Cardinality(upto(f)) /\ upto(f) \in SUBSET F
  BY DEF Rank
<1>4. \A f \in F : f \in upto(f)
  BY <1>2
<1>5. \A f \in F : \A g \in F : Min(f.sources) < Min(g.sources) =>
          upto(f) \in SUBSET upto(g) /\ g \notin upto(f)
  BY <1>2
<1> HIDE DEF upto
<1>6. \A f \in F : /\ IsFiniteSet(upto(f)) /\ Cardinality(upto(f)) \in Nat
                   /\ Cardinality(upto(f)) <= Cardinality(F) /\ Cardinality(upto(f)) # 0
  <2> SUFFICES ASSUME NEW f \in F
               PROVE  /\ IsFiniteSet(upto(f)) /\ Cardinality(upto(f)) \in Nat
                      /\ Cardinality(upto(f)) <= Cardinality(F) /\ Cardinality(upto(f)) # 0
    OBVIOUS
  <2>1. IsFiniteSet(upto(f)) /\ Cardinality(upto(f)) <= Cardinality(F)
    BY <1>1, <1>3, FS_Subset
  <2> QED BY <1>4, <2>1, FS_CardinalityType, FS_EmptySet
<1>7. ASSUME NEW f \in F, NEW g \in F, Min(f.sources) < Min(g.sources)
      PROVE  Rank(f, F) < Rank(g, F)
  <2>1. upto(f) \in SUBSET upto(g) /\ upto(f) # upto(g)
    BY <1>4, <1>5, <1>7
  <2>2. /\ Cardinality(upto(f)) <= Cardinality(upto(g))
        /\ Cardinality(upto(g)) # Cardinality(upto(f))
    BY <1>6, <2>1, FS_Subset
  <2> QED BY <1>3, <1>6, <2>2
<1>8. \A f \in F : Rank(f, F) \in 1..Cardinality(F)
  BY <1>1, <1>3, <1>6
<1>9. ASSUME NEW f \in F, NEW g \in F, Rank(f, F) = Rank(g, F)
      PROVE  f = g
  <2>1. ~(Min(f.sources) < Min(g.sources)) /\ ~(Min(g.sources) < Min(f.sources))
    BY <1>1, <1>7, <1>8, <1>9
  <2>2. Min(f.sources) = Min(g.sources)
    BY <1>2, <2>1
  <2> QED BY <1>2, <2>2
<1> QED BY <1>8, <1>9

Sources(F) == UNION {f.sources : f \in F}

\* The candidates made of findings are a workset, numbered after n, and stand
\* for what the sources of the findings do.
LEMMA Compacting ==
  ASSUME NEW w, IsWorkset(w), NEW F, Judged(w, F), NEW n \in Nat,
         NEW K, K = Compact(w, n, F)
  PROVE  /\ IsWorkset(K)
         /\ IdsOf(K) \subseteq (n + 1)..(n + Cardinality(K))
         /\ Under(K) = Origins(w, Sources(F))
<1> DEFINE k(f) == CompactCandidate(w, n + Rank(f, F), f)
           m == [f \in F |-> k(f)]
<1>1. K = {k(f) : f \in F}
  BY DEF Compact
<1>2. \A f \in F : /\ k(f).id = n + Rank(f, F) /\ k(f).size = CompactSize
                   /\ k(f).origins = Origins(w, f.sources)
  BY DEF CompactCandidate
<1>3. \A f \in F : m[f] = k(f)
  OBVIOUS
<1> HIDE DEF k
<1>4. m \in [F -> K] /\ \A c \in K : \E f \in F : m[f] = c
  BY <1>1
<1> HIDE DEF m
<1>5. IsFiniteSet(F) /\ Cardinality(F) \in Nat
  BY FindingsFinite, FS_CardinalityType
<1>6. /\ \A f \in F : Rank(f, F) \in 1..Cardinality(F)
      /\ \A f, g \in F : Rank(f, F) = Rank(g, F) => f = g
  BY Ranks
<1>7. \A f, g \in F : k(f).id = k(g).id => f = g
  BY <1>2, <1>5, <1>6
<1>8. m \in Injection(F, K) /\ m \in Surjection(F, K)
  BY <1>3, <1>4, <1>7 DEF Injection, Surjection, IsInjective
<1>9. IsFiniteSet(K) /\ Cardinality(K) = Cardinality(F)
  BY <1>5, <1>8, FS_Surjection
<1>10. IdsOf(K) \subseteq (n + 1)..(n + Cardinality(K))
  <2>1. ASSUME NEW f \in F PROVE k(f).id \in (n + 1)..(n + Cardinality(F))
    BY <1>2, <1>5, <1>6
  <2> QED BY <1>1, <1>9, <2>1 DEF IdsOf
<1>11. \A f, g \in F : f # g => k(f).origins \cap k(g).origins = {}
  <2> SUFFICES ASSUME NEW f \in F, NEW g \in F, f # g
               PROVE  k(f).origins \cap k(g).origins = {}
    OBVIOUS
  <2>1. /\ f.sources \in SUBSET IdsOf(w) /\ g.sources \in SUBSET IdsOf(w)
        /\ f.sources \cap g.sources = {}
    BY DEF Judged
  <2>2. Origins(w, f.sources) \cap Origins(w, g.sources) = {}
    BY <2>1, OriginsDisjoint
  <2> QED BY <1>2, <2>2
<1>12. IsWorkset(K)
  <2>1. \A c \in K : c.id \in Nat /\ c.size \in Nat
    <3>1. CompactSize \in Nat
      BY ShardingAssumption
    <3> QED BY <1>1, <1>2, <1>5, <1>6, <3>1
  <2>2. \A c, d \in K : c.id = d.id => c = d
    BY <1>1, <1>7
  <2>3. \A c, d \in K : c # d => c.origins \cap d.origins = {}
    BY <1>1, <1>11
  <2> QED BY <1>9, <2>1, <2>2, <2>3 DEF IsWorkset
<1>13. Under(K) = Origins(w, Sources(F))
  <2>1. Under(K) = UNION {Origins(w, f.sources) : f \in F}
    BY <1>1, <1>2 DEF Under
  <2>2. UNION {Origins(w, f.sources) : f \in F} = Origins(w, Sources(F))
    BY DEF Origins, Sources
  <2> QED BY <2>1, <2>2
<1> QED BY <1>10, <1>12, <1>13

\* Two worksets numbered one after the other are a workset.
LEMMA Numbered ==
  ASSUME NEW u, IsWorkset(u), IdsOf(u) \subseteq 1..Cardinality(u),
         NEW v, IsWorkset(v),
         IdsOf(v) \subseteq (Cardinality(u) + 1)..(Cardinality(u) + Cardinality(v)),
         Under(u) \cap Under(v) = {}
  PROVE  /\ IsWorkset(u \cup v)
         /\ IdsOf(u \cup v) \subseteq 1..Cardinality(u \cup v)
         /\ Under(u \cup v) = Under(u) \cup Under(v)
<1> DEFINE a == Cardinality(u)
           b == Cardinality(v)
<1>1. a \in Nat /\ b \in Nat /\ IsFiniteSet(u) /\ IsFiniteSet(v)
  BY FS_CardinalityType DEF IsWorkset
<1>2. \A c \in u : c.id \in 1..a /\ c.origins \subseteq Under(u)
  BY DEF IdsOf, Under
<1>3. \A c \in v : c.id \in (a + 1)..(a + b) /\ c.origins \subseteq Under(v)
  BY DEF IdsOf, Under
<1>4. \A c \in u : \A d \in v : c.id # d.id
  BY <1>1, <1>2, <1>3
<1>5. u \cap v = {}
  BY <1>4
<1>6. IsFiniteSet(u \cup v) /\ Cardinality(u \cup v) = a + b
  <2>1. /\ IsFiniteSet(u \cup v)
        /\ Cardinality(u \cup v) = Cardinality(u) + Cardinality(v) - Cardinality(u \cap v)
    BY <1>1, FS_Union
  <2>2. Cardinality(u \cap v) = 0
    BY <1>5, FS_EmptySet
  <2> QED BY <1>1, <2>1, <2>2
<1> HIDE DEF a, b
<1>7. IdsOf(u \cup v) \subseteq 1..(a + b)
  <2>1. \A c \in u \cup v : c.id \in 1..(a + b)
    BY <1>1, <1>2, <1>3
  <2> QED BY <2>1 DEF IdsOf
<1>8. \A c \in u : \A d \in v : c.origins \cap d.origins = {}
  BY <1>2, <1>3
<1>9. IsWorkset(u \cup v)
  <2>1. \A c \in u \cup v : c.id \in Nat /\ c.size \in Nat
    BY DEF IsWorkset
  <2>2. \A c, d \in u \cup v : c.id = d.id => c = d
    BY <1>4 DEF IsWorkset
  <2>3. \A c, d \in u \cup v : c # d => c.origins \cap d.origins = {}
    <3>1. ASSUME NEW c \in u \cup v, NEW d \in u \cup v, c # d
          PROVE  c.origins \cap d.origins = {}
      <4>1. CASE (c \in u /\ d \in u) \/ (c \in v /\ d \in v)
        BY <3>1, <4>1 DEF IsWorkset
      <4>2. CASE (c \in u /\ d \in v) \/ (c \in v /\ d \in u)
        BY <1>8, <4>2
      <4> QED BY <4>1, <4>2
    <3> QED BY <3>1
  <2> QED BY <1>6, <2>1, <2>2, <2>3 DEF IsWorkset
<1>10. Under(u \cup v) = Under(u) \cup Under(v)
  BY DEF Under
<1> QED BY <1>6, <1>7, <1>9, <1>10

-----------------------------------------------------------------------------
\* The inductive invariant.

\* The shards to come, each within the limit, and apart from each other.
ShardsSound ==
    /\ \E X : todo \in Seq(SUBSET X)
    /\ \A i \in 1..Len(todo) : IsWorkset(todo[i]) /\ Size(todo[i]) <= Hard
    /\ \A i, j \in 1..Len(todo) : i # j => Under(todo[i]) \cap Under(todo[j]) = {}

\* The candidates of the next level have the numbers from 1 on.
NextSound == IsWorkset(next) /\ IdsOf(next) \subseteq 1..Cardinality(next)

Apart ==
    /\ \A i \in 1..Len(todo) : Under(todo[i]) \cap Under(next) = {}
    /\ \A i \in 1..Len(todo) : Under(todo[i]) \cap excluded = {}
    /\ Under(next) \cap excluded = {}

Complete ==
    excluded \cup Under(next) \cup UNION {Under(todo[i]) : i \in 1..Len(todo)} = IdsOf(original)

\* Every original candidate is excluded or under one candidate of one shard to
\* come or of the next level.  Conserved alone is not inductive: it does not
\* say that the shards are apart, that ids are unique in a workset, nor that
\* the next level is numbered without a gap, on which the ids of the findings
\* that will join it depend.
Sound == ShardsSound /\ NextSound /\ Apart /\ Complete

Sharded == exit = "none" => Sound

\* The shards of a workset that are packed within the limit.
ShardsOf(p, w) ==
    /\ p \in Seq(SUBSET w)
    /\ \A i \in 1..Len(p) : IsWorkset(p[i]) /\ Size(p[i]) <= Hard
    /\ \A i, j \in 1..Len(p) : i # j => Under(p[i]) \cap Under(p[j]) = {}
    /\ UNION {Under(p[i]) : i \in 1..Len(p)} = Under(w)

LEMMA PackedShards ==
  ASSUME NEW w, IsWorkset(w), NEW p, p = Pack(w), ~TooLarge(p)
  PROVE  ShardsOf(p, w)
<1>1. /\ p \in Seq(SUBSET w)
      /\ w = UNION {p[i] : i \in 1..Len(p)}
      /\ \A i, j \in 1..Len(p) : i # j => p[i] \cap p[j] = {}
  BY Packing DEF IsCut
<1>2. \A i \in 1..Len(p) : p[i] \in SUBSET w
  BY <1>1
<1>3. ASSUME NEW i \in 1..Len(p) PROVE IsWorkset(p[i]) /\ Size(p[i]) <= Hard
  <2>1. IsWorkset(p[i])
    BY <1>2, SubWorkset
  <2>2. Size(p[i]) \in Nat
    BY <2>1, SizeType DEF IsWorkset, Sized
  <2>3. DOMAIN p = 1..Len(p)
    BY <1>1
  <2>4. ~(Size(p[i]) > Hard) /\ Hard \in Nat
    BY <2>3, ShardingAssumption DEF TooLarge
  <2> QED BY <2>1, <2>2, <2>4
<1>4. ASSUME NEW i \in 1..Len(p), NEW j \in 1..Len(p), i # j
      PROVE  Under(p[i]) \cap Under(p[j]) = {}
  BY <1>1, <1>2, <1>4, UnderDisjoint
<1>5. UNION {Under(p[i]) : i \in 1..Len(p)} = Under(w)
  <2>1. \A c : c \in w <=> \E i \in 1..Len(p) : c \in p[i]
    BY <1>1
  <2>2. \A i \in 1..Len(p) : Under(p[i]) \subseteq Under(w)
    BY <1>2, SubWorkset
  <2>3. \A o \in Under(w) : \E i \in 1..Len(p) : o \in Under(p[i])
    BY <2>1 DEF Under
  <2> QED BY <2>2, <2>3
<1> QED BY <1>1, <1>3, <1>4, <1>5 DEF ShardsOf

LEMMA NothingNext == IsWorkset({}) /\ IdsOf({}) = {} /\ Under({}) = {}
  BY FS_EmptySet DEF IsWorkset, IdsOf, Under

\* A run begins with a workset whose candidates stand for themselves.
LEMMA InitSharded ==
  ASSUME Init
  PROVE  Sharded
<1> SUFFICES ASSUME exit = "none" PROVE Sound
  BY DEF Sharded
<1>1. /\ original \in Worksets /\ todo = Pack(original) /\ next = {} /\ excluded = {}
      /\ ~TooLarge(todo)
  BY DEF Init
<1>2. /\ original \subseteq Candidate /\ IsFiniteSet(original)
      /\ \A c, d \in original : c.id = d.id => c = d
      /\ \A c \in original : c.origins = {c.id}
  BY <1>1, ShardingAssumption
<1>3. IsWorkset(original)
  <2>1. \A c \in original : c.id \in Nat /\ c.size \in Nat
    BY <1>2 DEF Candidate
  <2>2. \A c, d \in original : c # d => c.origins \cap d.origins = {}
    BY <1>2
  <2> QED BY <1>2, <2>1, <2>2 DEF IsWorkset
<1>4. Under(original) = IdsOf(original)
  BY <1>2 DEF Under, IdsOf
<1>5. /\ todo \in Seq(SUBSET original)
      /\ \A i \in 1..Len(todo) : IsWorkset(todo[i]) /\ Size(todo[i]) <= Hard
      /\ \A i, j \in 1..Len(todo) : i # j => Under(todo[i]) \cap Under(todo[j]) = {}
      /\ UNION {Under(todo[i]) : i \in 1..Len(todo)} = Under(original)
  <2>1. ShardsOf(todo, original)
    BY <1>1, <1>3, PackedShards
  <2> QED BY <2>1 DEF ShardsOf
<1>6. ShardsSound
  BY <1>5 DEF ShardsSound
<1>7. NextSound /\ Apart /\ Complete
  BY <1>1, <1>4, <1>5, NothingNext DEF NextSound, Apart, Complete
<1> QED BY <1>6, <1>7 DEF Sound

\* The first of the shards to come, and the others.
LEMMA FirstShard ==
  ASSUME NEW X, NEW s \in Seq(X), s # <<>>
  PROVE  /\ Head(s) = s[1] /\ 1 \in 1..Len(s)
         /\ Tail(s) \in Seq(X)
         /\ \A i \in 1..Len(Tail(s)) : i + 1 \in 1..Len(s) /\ i + 1 # 1 /\ Tail(s)[i] = s[i + 1]
         /\ \A i \in 1..Len(s) : i = 1 \/ i - 1 \in 1..Len(Tail(s))
<1>1. Len(s) \in Nat \ {0}
  BY EmptySeq
<1>2. Tail(s) \in Seq(X) /\ Len(Tail(s)) = Len(s) - 1
  BY <1>1
<1>3. \A i \in 1..Len(Tail(s)) : Tail(s)[i] = s[i + 1]
  BY <1>1, <1>2
<1>4. \A i \in 1..(Len(s) - 1) : i + 1 \in 1..Len(s) /\ i + 1 # 1
  BY <1>1
<1>5. \A i \in 1..Len(s) : i = 1 \/ i - 1 \in 1..(Len(s) - 1)
  BY <1>1
<1>6. Head(s) = s[1] /\ 1 \in 1..Len(s)
  BY <1>1
<1> QED BY <1>2, <1>3, <1>4, <1>5, <1>6

\* What a valid answer makes of a shard: what stands under it is excluded, or
\* under one of the new candidates.
LEMMA Answered ==
  ASSUME NEW w, IsWorkset(w), NEW d \in Answers(w), NEW n \in Nat,
         NEW K, K = Compact(w, n, d.findings)
  PROVE  /\ IsWorkset(K) /\ IdsOf(K) \subseteq (n + 1)..(n + Cardinality(K))
         /\ Under(K) \cup Origins(w, d.excluded) = Under(w)
         /\ Under(K) \cap Origins(w, d.excluded) = {}
<1> DEFINE F == d.findings
<1>1. Valid(IdsOf(w), EffortOf(w), CappedOf(w), d)
  BY DEF Answers
<1>2. /\ d.excluded \cup Sources(F) = IdsOf(w)
      /\ \A f \in F : f.sources \cap d.excluded = {} /\ f.sources # {}
      /\ \A f, g \in F : f # g => f.sources \cap g.sources = {}
  BY <1>1 DEF Valid, Accounted, ValidFinding, Sources
<1> HIDE DEF F
<1>3. \A f \in F : f.sources \subseteq Sources(F)
  BY DEF Sources
<1>4. Judged(w, F)
  BY <1>2, <1>3 DEF Judged
<1>5. /\ IsWorkset(K) /\ IdsOf(K) \subseteq (n + 1)..(n + Cardinality(K))
      /\ Under(K) = Origins(w, Sources(F))
  BY <1>4, Compacting DEF F
<1>6. /\ Sources(F) \in SUBSET IdsOf(w) /\ d.excluded \in SUBSET IdsOf(w)
      /\ Sources(F) \cap d.excluded = {}
  BY <1>2 DEF Sources
<1>7. Under(K) \cap Origins(w, d.excluded) = {}
  BY <1>5, <1>6, OriginsDisjoint
<1>8. Under(K) \cup Origins(w, d.excluded) = Under(w)
  <2>1. Origins(w, Sources(F)) \cup Origins(w, d.excluded) = Origins(w, IdsOf(w))
    BY <1>2 DEF Origins
  <2> QED BY <1>5, <2>1, OriginsAll
<1> QED BY <1>5, <1>7, <1>8

\* A shard's originals stay accounted for when it is reduced.
LEMMA ReduceShardSound ==
  ASSUME Sound, ReduceShard
  PROVE  Sound'
<1> DEFINE w == Head(todo)
           n == Cardinality(next)
<1>1. PICK X : todo \in Seq(SUBSET X)
  BY DEF Sound, ShardsSound
<1>2. PICK d \in Answers(w) : /\ next' = next \cup Compact(w, n, d.findings)
                              /\ excluded' = excluded \cup Origins(w, d.excluded)
  BY Zenon DEF ReduceShard
<1>3. todo # <<>> /\ todo' = Tail(todo) /\ original' = original
  BY DEF ReduceShard
<1> DEFINE K == Compact(w, n, d.findings)
           gone == Origins(w, d.excluded)
<1>4. /\ w = todo[1] /\ 1 \in 1..Len(todo)
      /\ todo' \in Seq(SUBSET X)
      /\ \A i \in 1..Len(todo') : i + 1 \in 1..Len(todo) /\ i + 1 # 1 /\ todo'[i] = todo[i + 1]
      /\ \A i \in 1..Len(todo) : i = 1 \/ i - 1 \in 1..Len(todo')
  BY <1>1, <1>3, FirstShard
<1>5. \A i, j \in 1..Len(todo') : i # j => i + 1 # j + 1
  OBVIOUS
<1>6. \A i \in 1..Len(todo) : (i - 1) + 1 = i
  OBVIOUS
<1>7. IsWorkset(w) /\ IsWorkset(next) /\ IdsOf(next) \subseteq 1..n /\ n \in Nat
  BY <1>4, FS_CardinalityType DEF Sound, ShardsSound, NextSound, IsWorkset
<1> HIDE DEF w, n
<1>8. /\ IsWorkset(K) /\ IdsOf(K) \subseteq (n + 1)..(n + Cardinality(K))
      /\ Under(K) \cup gone = Under(w)
      /\ Under(K) \cap gone = {}
  BY <1>7, Answered
<1> HIDE DEF K, gone
<1>9. next' = next \cup K /\ excluded' = excluded \cup gone
  BY <1>2 DEF K, gone
<1>10. /\ Under(w) \cap Under(next) = {} /\ Under(w) \cap excluded = {}
       /\ \A i \in 1..Len(todo') : Under(w) \cap Under(todo'[i]) = {}
  BY <1>4 DEF Sound, ShardsSound, Apart
<1>11. NextSound' /\ Under(next') = Under(next) \cup Under(K)
  <2>1. Under(next) \cap Under(K) = {}
    BY <1>8, <1>10
  <2>2. /\ IsWorkset(next \cup K)
        /\ IdsOf(next \cup K) \subseteq 1..Cardinality(next \cup K)
        /\ Under(next \cup K) = Under(next) \cup Under(K)
    BY <1>7, <1>8, <2>1, Numbered DEF n
  <2> QED BY <1>9, <2>2 DEF NextSound
<1>12. ShardsSound'
  <2>1. \A i \in 1..Len(todo') : IsWorkset(todo'[i]) /\ Size(todo'[i]) <= Hard
    BY <1>4 DEF Sound, ShardsSound
  <2>2. \A i, j \in 1..Len(todo') : i # j => Under(todo'[i]) \cap Under(todo'[j]) = {}
    BY <1>4, <1>5 DEF Sound, ShardsSound
  <2> QED BY <1>4, <2>1, <2>2 DEF ShardsSound
<1>13. Apart'
  <2>1. ASSUME NEW i \in 1..Len(todo')
        PROVE  Under(todo'[i]) \cap Under(next') = {} /\ Under(todo'[i]) \cap excluded' = {}
    <3>1. /\ Under(todo'[i]) \cap Under(next) = {} /\ Under(todo'[i]) \cap excluded = {}
          /\ Under(todo'[i]) \cap Under(w) = {}
      BY <1>4, <1>10 DEF Sound, Apart
    <3> QED BY <1>8, <1>9, <1>11, <3>1
  <2>2. Under(next') \cap excluded' = {}
    <3>1. Under(next) \cap excluded = {}
      BY DEF Sound, Apart
    <3> QED BY <1>8, <1>9, <1>10, <1>11, <3>1
  <2> QED BY <2>1, <2>2 DEF Apart
<1>14. Complete'
  <2> DEFINE U == UNION {Under(todo[i]) : i \in 1..Len(todo)}
             V == UNION {Under(todo'[i]) : i \in 1..Len(todo')}
  <2>1. U = Under(w) \cup V
    <3>1. U \subseteq Under(w) \cup V
      BY <1>4, <1>6
    <3>2. Under(w) \cup V \subseteq U
      BY <1>4
    <3> QED BY <3>1, <3>2
  <2>2. excluded \cup Under(next) \cup U = IdsOf(original)
    BY DEF Sound, Complete
  <2> HIDE DEF U
  <2>3. excluded' \cup Under(next') \cup V = IdsOf(original)
    BY <1>8, <1>9, <1>11, <2>1, <2>2
  <2> QED BY <1>3, <2>3 DEF Complete
<1> QED BY <1>11, <1>12, <1>13, <1>14 DEF Sound

\* The next level's shards, or the one shard of the last call, are what was
\* next.
LEMMA NextShards ==
  ASSUME Sound, NEW p, p = todo', todo = <<>>, ShardsOf(p, next), next' = {},
         UNCHANGED <<original, excluded>>
  PROVE  Sound'
<1>1. /\ p \in Seq(SUBSET next)
      /\ \A i \in 1..Len(p) : IsWorkset(p[i]) /\ Size(p[i]) <= Hard
      /\ \A i, j \in 1..Len(p) : i # j => Under(p[i]) \cap Under(p[j]) = {}
      /\ UNION {Under(p[i]) : i \in 1..Len(p)} = Under(next)
  BY DEF ShardsOf
<1>2. ShardsSound'
  <2>1. \E X : p \in Seq(SUBSET X)
    BY <1>1
  <2> QED BY <1>1, <2>1 DEF ShardsSound
<1>3. NextSound'
  BY NothingNext DEF NextSound
<1>4. Under(next) \cap excluded = {} /\ excluded \cup Under(next) = IdsOf(original)
  <2>1. UNION {Under(todo[i]) : i \in 1..Len(todo)} = {}
    OBVIOUS
  <2> QED BY <2>1 DEF Sound, Apart, Complete
<1>5. Apart'
  <2>1. \A i \in 1..Len(p) : Under(p[i]) \subseteq Under(next)
    BY <1>1
  <2> QED BY <1>4, <2>1, NothingNext DEF Apart
<1>6. Complete'
  BY <1>1, <1>4, NothingNext DEF Complete
<1> QED BY <1>2, <1>3, <1>5, <1>6 DEF Sound

\* One shard of everything.
LEMMA LastShard ==
  ASSUME NEW w, IsWorkset(w), Size(w) <= Hard, NEW p, p = <<w>>
  PROVE  ShardsOf(p, w)
<1>1. p \in Seq(SUBSET w) /\ Len(p) = 1 /\ p[1] = w
  OBVIOUS
<1>2. \A i \in 1..1 : i = 1
  OBVIOUS
<1>3. UNION {Under(p[i]) : i \in 1..Len(p)} = Under(w)
  BY <1>1, <1>2
<1> QED BY <1>1, <1>2, <1>3 DEF ShardsOf

LEMMA NextLevelSound ==
  ASSUME Sound, NextLevel
  PROVE  Sharded'
<1>1. exit = "none" /\ todo = <<>>
  BY DEF NextLevel
<1>2. \/ /\ LastLevel /\ todo' = <<next>> /\ next' = {}
         /\ UNCHANGED <<original, excluded, registry, exit, decisions>>
      \/ /\ ~TooLarge(Pack(next)) /\ todo' = Pack(next) /\ next' = {}
         /\ UNCHANGED <<original, excluded, registry, exit, decisions>>
      \/ Stop("depth")
  BY Zenon DEF NextLevel
<1>3. IsWorkset(next)
  BY DEF Sound, NextSound
<1>4. CASE /\ LastLevel /\ todo' = <<next>> /\ next' = {}
           /\ UNCHANGED <<original, excluded, registry, exit, decisions>>
  <2>1. ShardsOf(todo', next)
    BY <1>3, <1>4, LastShard DEF LastLevel
  <2> QED BY <1>1, <1>4, <2>1, NextShards DEF Sharded
<1>5. CASE /\ ~TooLarge(Pack(next)) /\ todo' = Pack(next) /\ next' = {}
           /\ UNCHANGED <<original, excluded, registry, exit, decisions>>
  <2>1. ShardsOf(todo', next)
    BY <1>3, <1>5, PackedShards
  <2> QED BY <1>1, <1>5, <2>1, NextShards DEF Sharded
<1>6. CASE Stop("depth")
  BY <1>6 DEF Stop, Sharded
<1> QED BY <1>2, <1>4, <1>5, <1>6

\* Every step keeps the invariant.
LEMMA ShardedStep == Sharded /\ [Next]_vars => Sharded'
<1> SUFFICES ASSUME Sharded, [Next]_vars PROVE Sharded'
  OBVIOUS
<1>1. CASE ReduceShard
  <2>1. Sound
    BY <1>1 DEF ReduceShard, Sharded
  <2> QED BY <1>1, <2>1, ReduceShardSound DEF Sharded
<1>2. CASE CallFails
  <2>1. PICK code \in {"failed", "cleanup"} : Stop(code)
    BY <1>2 DEF CallFails
  <2> QED BY <2>1 DEF Stop, Sharded
<1>3. CASE NextLevel
  <2>1. Sound
    BY <1>3 DEF NextLevel, Sharded
  <2> QED BY <1>3, <2>1, NextLevelSound
<1>4. CASE LastCall
  <2>1. exit' = "ok" \/ exit' = "failed"
    BY <1>4 DEF LastCall
  <2> QED BY <2>1 DEF Sharded
<1>5. CASE UNCHANGED vars
  BY <1>5 DEF vars, Sharded, Sound, ShardsSound, NextSound, Apart, Complete
<1> QED BY <1>1, <1>2, <1>3, <1>4, <1>5 DEF Next

\* In every state of a run that has not ended, each original candidate is
\* excluded, or stands under one candidate of one shard to come or of the next
\* level (reduce, call_reducer and compact of shard-integration.py).
THEOREM ShardedInductive == Spec => []Sharded
<1>1. Init => Sharded
  BY InitSharded
<1> QED BY <1>1, ShardedStep, PTL DEF Spec

\* No candidate is lost or counted twice at any level, whatever the workset,
\* the budgets and the answers (Conserved).
THEOREM ConservedCorrect == Spec => []Conserved
<1>1. ASSUME Sound
      PROVE  /\ excluded \cup UNION {Under(w) : w \in Rest} = IdsOf(original)
             /\ \A w \in Rest : Under(w) \cap excluded = {}
             /\ \A c, d \in UNION Rest : c # d => c.origins \cap d.origins = {}
  <2>1. DOMAIN todo = 1..Len(todo)
    BY <1>1 DEF Sound, ShardsSound
  <2>2. Rest = {todo[i] : i \in 1..Len(todo)} \cup {next}
    BY <2>1 DEF Rest
  <2>3. UNION {Under(w) : w \in Rest} =
            Under(next) \cup UNION {Under(todo[i]) : i \in 1..Len(todo)}
    <3>1. \A w \in Rest : w = next \/ \E i \in 1..Len(todo) : w = todo[i]
      BY <2>2
    <3>2. next \in Rest /\ \A i \in 1..Len(todo) : todo[i] \in Rest
      BY <2>2
    <3>3. UNION {Under(w) : w \in Rest} \subseteq
              Under(next) \cup UNION {Under(todo[i]) : i \in 1..Len(todo)}
      BY <3>1
    <3>4. Under(next) \cup UNION {Under(todo[i]) : i \in 1..Len(todo)} \subseteq
              UNION {Under(w) : w \in Rest}
      BY <3>2
    <3> QED BY <3>3, <3>4
  <2>4. excluded \cup UNION {Under(w) : w \in Rest} = IdsOf(original)
    BY <1>1, <2>3 DEF Sound, Complete
  <2>5. \A w \in Rest : Under(w) \cap excluded = {}
    BY <1>1, <2>2 DEF Sound, Apart
  <2>6. ASSUME NEW u \in Rest, NEW v \in Rest, u # v
        PROVE  Under(u) \cap Under(v) = {}
    <3>1. CASE u = next \/ v = next
      <4>1. \/ /\ u = next
               /\ \E i \in 1..Len(todo) : v = todo[i]
            \/ /\ v = next
               /\ \E i \in 1..Len(todo) : u = todo[i]
        BY <2>2, <2>6, <3>1
      <4> QED BY <1>1, <4>1 DEF Sound, Apart
    <3>2. CASE u # next /\ v # next
      <4>1. PICK i \in 1..Len(todo), j \in 1..Len(todo) : u = todo[i] /\ v = todo[j]
        BY <2>2, <3>2
      <4> QED BY <1>1, <2>6, <4>1 DEF Sound, ShardsSound
    <3> QED BY <3>1, <3>2
  <2>7. ASSUME NEW u \in Rest, NEW v \in Rest, NEW c \in u, NEW d \in v, c # d
        PROVE  c.origins \cap d.origins = {}
    <3>1. c.origins \subseteq Under(u) /\ d.origins \subseteq Under(v)
      BY DEF Under
    <3>2. IsWorkset(u)
      BY <1>1, <2>2 DEF Sound, ShardsSound, NextSound
    <3>3. CASE u = v
      BY <2>7, <3>2, <3>3 DEF IsWorkset
    <3>4. CASE u # v
      BY <2>6, <3>1, <3>4
    <3> QED BY <3>3, <3>4
  <2> QED BY <2>4, <2>5, <2>7
<1>2. Sharded => Conserved
  BY <1>1 DEF Sharded, Conserved
<1> QED BY <1>2, ShardedInductive, PTL

\* No call is given more than the hard limit (Bounded), although the worksets
\* of the later levels are the reducers' own findings.
THEOREM BoundedCorrect == Spec => []Bounded
<1>1. Sharded => Bounded
  <2>1. ASSUME Sound PROVE \A i \in DOMAIN todo : Size(todo[i]) <= Hard
    <3>1. DOMAIN todo = 1..Len(todo)
      BY <2>1 DEF Sound, ShardsSound
    <3> QED BY <2>1, <3>1 DEF Sound, ShardsSound
  <2> QED BY <2>1 DEF Sharded, Bounded
<1> QED BY <1>1, ShardedInductive, PTL

-----------------------------------------------------------------------------
\* The refinement.

\* A registry update that is kept has its sources in one finding.
LEMMA ExpandedRegistry ==
  ASSUME NEW w, NEW a, NEW d, d = Expanded(w, a)
  PROVE  \A r \in d.registry : \E f \in d.findings : r \subseteq f.sources
<1> DEFINE found == {[f EXCEPT !.sources = Origins(w, f.sources)] : f \in a.findings}
           proposed == registry \cup {Origins(w, r) : r \in a.registry}
           kept == {r \in proposed : r # {} /\ (\E f \in found : r \subseteq f.sources)}
<1>1. d.findings = found /\ d.registry = kept
  BY DEF Expanded
<1>2. \A r \in kept : \E f \in found : r \subseteq f.sources
  BY Zenon
<1> HIDE DEF found, kept
<1> QED BY <1>1, <1>2

LEMMA SameValid ==
  ASSUME NEW ids, NEW effort, NEW capped, NEW d
  PROVE  Valid(ids, effort, capped, d) <=> Whole!Valid(ids, effort, capped, d)
BY DEF Valid, Accounted, ValidFinding, Whole!Valid, Whole!Accounted, Whole!ValidFinding

\* A run of shard-integration.py is one reduction of the workset it was given:
\* it produces decisions that are valid for the original candidates, or gives
\* up and produces none.
THEOREM ShardingImplementsReduction == Spec => ImplementsReduction
<1>1. Init => Whole!Init
  <2> SUFFICES ASSUME Init PROVE Whole!Init
    OBVIOUS
  <2>1. (exit = "none" \/ exit = "depth") /\ decisions = NoDecisions
    BY DEF Init
  <2> QED BY <2>1 DEF Whole!Init, NoDecisions, Whole!NoDecisions
<1>2. [Next]_vars => [Whole!Reduce]_(Whole!vars)
  <2> SUFFICES ASSUME [Next]_vars PROVE [Whole!Reduce]_(Whole!vars)
    OBVIOUS
  <2>1. original' = original
    BY DEF Next, ReduceShard, CallFails, NextLevel, LastCall, Stop, vars
  <2>2. ASSUME exit' = exit, decisions' = decisions
        PROVE  UNCHANGED Whole!vars
    BY <2>1, <2>2 DEF Whole!vars
  <2>3. ASSUME exit = "none", exit' \in {"failed", "cleanup", "depth"}, decisions' = decisions
        PROVE  Whole!Reduce
    BY <2>1, <2>3 DEF Whole!Reduce
  <2>4. CASE ReduceShard \/ UNCHANGED vars
    BY <2>2, <2>4 DEF ReduceShard, vars
  <2>5. CASE CallFails
    BY <2>3, <2>5 DEF CallFails, Stop
  <2>6. CASE NextLevel
    <3>1. exit = "none" /\ (UNCHANGED <<exit, decisions>> \/ Stop("depth"))
      BY Zenon, <2>6 DEF NextLevel
    <3> QED BY <2>2, <2>3, <3>1 DEF Stop
  <2>7. CASE LastCall
    <3>1. exit = "none"
      BY <2>7 DEF LastCall
    <3>2. PICK a \in Answers(Head(todo)) :
             IF Checked(Expanded(Head(todo), a))
             THEN decisions' = Expanded(Head(todo), a) /\ exit' = "ok"
             ELSE exit' = "failed" /\ UNCHANGED decisions
      BY Zenon, <2>7 DEF LastCall
    <3> DEFINE d == Expanded(Head(todo), a)
    <3>3. CASE Checked(d)
      <4>1. decisions' = d /\ exit' = "ok"
        BY <3>2, <3>3
      <4>2. Valid(IdsOf(original), EffortOf(original), CappedOf(original), d)
        BY <3>3 DEF Checked
      <4>3. \A r \in d.registry : \E f \in d.findings : r \subseteq f.sources
        BY ExpandedRegistry
      <4> HIDE DEF d
      <4>4. Whole!Valid(IdsOf(original), EffortOf(original), CappedOf(original), decisions')
        BY <4>1, <4>2, SameValid
      <4>5. \A r \in decisions'.registry :
               \E f \in decisions'.findings : r \subseteq f.sources
        BY <4>1, <4>3
      <4> QED BY <2>1, <3>1, <4>1, <4>4, <4>5 DEF Whole!Reduce
    <3>4. CASE ~ Checked(d)
      BY <2>3, <3>1, <3>2, <3>4
    <3> QED BY <3>3, <3>4
  <2> QED BY <2>4, <2>5, <2>6, <2>7 DEF Next
<1> QED BY <1>1, <1>2, PTL DEF Spec, ImplementsReduction, Whole!Spec
=============================================================================
