---------------------------- MODULE NetworkLemmas ----------------------------
(***************************************************************************)
(* Lemmas for the networks: descendants in graphs, forests, trees and      *)
(* chains; walks and batches; tokens that move down the edges of a tree.   *)
(***************************************************************************)
EXTENDS GuidGraph, SequencesExt, FiniteSetTheorems, SequenceTheorems,
        WellFoundedInduction, TLAPS

(* The descendants are the least closed set: g is one,                     *)
LEMMA DescendantsSelf ==
  ASSUME NEW m, NEW g
  PROVE  g \in Descendants(m, g)
BY DEF Descendants

(* the children of one are,                                                *)
LEMMA DescendantsClosed ==
  ASSUME NEW m, NEW g, NEW h \in Descendants(m, g), NEW c \in ChildrenIn(m, h)
  PROVE  c \in Descendants(m, g)
<1> DEFINE nodes == {g} \cup DOMAIN m \cup UNION {m[k] : k \in DOMAIN m}
           Closed(S) == \A k \in S : ChildrenIn(m, k) \subseteq S
<1>1. c \in nodes
  BY DEF ChildrenIn
<1>2. ASSUME NEW S \in SUBSET nodes, g \in S, Closed(S)
      PROVE  c \in S
  <2>1. h \in S
    BY <1>2 DEF Descendants
  <2> QED
    BY <1>2, <2>1
<1> QED
  BY <1>1, <1>2 DEF Descendants

(* and every closed set with g holds them.                                 *)
LEMMA DescendantsLeast ==
  ASSUME NEW m, NEW g, NEW T,
         g \in T, \A h \in T : ChildrenIn(m, h) \subseteq T
  PROVE  Descendants(m, g) \subseteq T
<1> DEFINE nodes == {g} \cup DOMAIN m \cup UNION {m[k] : k \in DOMAIN m}
           S == T \cap nodes
<1>1. S \in SUBSET nodes /\ g \in S
  OBVIOUS
<1>2. \A k \in S : ChildrenIn(m, k) \subseteq S
  BY DEF ChildrenIn
<1> QED
  BY <1>1, <1>2 DEF Descendants

(* What is below a descendant is below.                                    *)
LEMMA DescendantsBelow ==
  ASSUME NEW m, NEW g, NEW h \in Descendants(m, g)
  PROVE  Descendants(m, h) \subseteq Descendants(m, g)
<1> DEFINE T == Descendants(m, g)
<1>1. \A k \in T : ChildrenIn(m, k) \subseteq T
  BY DescendantsClosed
<1>2. h \in T
  OBVIOUS
<1> HIDE DEF T
<1>3. Descendants(m, h) \subseteq T
  BY <1>1, <1>2, DescendantsLeast
<1> QED
  BY <1>3 DEF T

(* What is below is the node itself or below a child of it.                *)
LEMMA DescendantsStep ==
  ASSUME NEW m, NEW g, NEW x \in Descendants(m, g), x # g
  PROVE  \E c \in ChildrenIn(m, g) : x \in Descendants(m, c)
<1> DEFINE T == {g} \cup UNION {Descendants(m, c) : c \in ChildrenIn(m, g)}
<1>1. \A h \in T : ChildrenIn(m, h) \subseteq T
  <2> SUFFICES ASSUME NEW h \in T, NEW k \in ChildrenIn(m, h) PROVE k \in T
    OBVIOUS
  <2>1. CASE h = g
    BY <2>1, DescendantsSelf
  <2>2. ASSUME NEW c \in ChildrenIn(m, g), h \in Descendants(m, c) PROVE k \in T
    BY <2>2, DescendantsClosed
  <2> QED
    BY <2>1, <2>2
<1>2. g \in T
  OBVIOUS
<1> HIDE DEF T
<1>3. Descendants(m, g) \subseteq T
  BY <1>1, <1>2, DescendantsLeast
<1> QED
  BY <1>3 DEF T

(* It has a parent there, too.                                             *)
LEMMA DescendantsParent ==
  ASSUME NEW m, NEW g, NEW x \in Descendants(m, g), x # g
  PROVE  \E h \in Descendants(m, g) : x \in ChildrenIn(m, h)
<1> DEFINE T == {g} \cup UNION {ChildrenIn(m, h) : h \in Descendants(m, g)}
<1>1. T \subseteq Descendants(m, g)
  BY DescendantsSelf, DescendantsClosed
<1>2. \A h \in T : ChildrenIn(m, h) \subseteq T
  BY <1>1
<1>3. g \in T
  OBVIOUS
<1> HIDE DEF T
<1>4. Descendants(m, g) \subseteq T
  BY <1>2, <1>3, DescendantsLeast
<1> QED
  BY <1>4 DEF T

-----------------------------------------------------------------------------
(* Forests: graphs m in which the nodes of the closed set R have one       *)
(* parent at most.                                                         *)

Within(m, R) == \A h \in R : ChildrenIn(m, h) \subseteq R
OneParent(m, R) ==
  \A g \in R, h \in R : ChildrenIn(m, g) \cap ChildrenIn(m, h) # {} => g = h

(* Two nodes are one below the other, or nothing is below both.            *)
LEMMA ForestNested ==
  ASSUME NEW m, NEW R, Within(m, R), OneParent(m, R), NEW x \in R, NEW y \in R,
         x \notin Descendants(m, y), y \notin Descendants(m, x)
  PROVE  Descendants(m, x) \cap Descendants(m, y) = {}
<1>1. Descendants(m, x) \subseteq R /\ Descendants(m, y) \subseteq R
  BY DescendantsLeast DEF Within
<1> DEFINE T == Descendants(m, x) \ Descendants(m, y)
<1>2. ASSUME NEW h \in T, NEW c \in ChildrenIn(m, h) PROVE c \in T
  <2>1. c \in Descendants(m, x)
    BY DescendantsClosed
  <2>2. ASSUME c \in Descendants(m, y) PROVE FALSE
    <3>1. c # y
      BY <2>1
    <3>2. PICK k \in Descendants(m, y) : c \in ChildrenIn(m, k)
      BY <2>2, <3>1, DescendantsParent
    <3>3. k = h
      BY <1>1, <3>2 DEF OneParent
    <3> QED
      BY <3>2, <3>3
  <2> QED
    BY <2>1, <2>2
<1>3. x \in T
  BY DescendantsSelf
<1>4. \A h \in T : ChildrenIn(m, h) \subseteq T
  BY <1>2
<1> HIDE DEF T
<1>5. Descendants(m, x) \subseteq T
  BY <1>3, <1>4, DescendantsLeast
<1> QED
  BY <1>5 DEF T

(* Nothing is below two children of a node that is not below them.         *)
LEMMA ForestApart ==
  ASSUME NEW m, NEW R, Within(m, R), OneParent(m, R), NEW n \in R,
         NEW c \in ChildrenIn(m, n), NEW d \in ChildrenIn(m, n), c # d,
         n \notin Descendants(m, c), n \notin Descendants(m, d)
  PROVE  Descendants(m, c) \cap Descendants(m, d) = {}
<1>1. c \in R /\ d \in R
  BY DEF Within
<1>2. ASSUME NEW e \in ChildrenIn(m, n), NEW f \in ChildrenIn(m, n), e # f,
             n \notin Descendants(m, f), e \in Descendants(m, f)
      PROVE  FALSE
  <2>1. PICK k \in Descendants(m, f) : e \in ChildrenIn(m, k)
    BY <1>2, DescendantsParent
  <2>2. Descendants(m, f) \subseteq R
    BY DescendantsLeast DEF Within
  <2>3. k = n
    BY <2>1, <2>2 DEF OneParent
  <2> QED
    BY <1>2, <2>1, <2>3
<1> QED
  BY <1>1, <1>2, ForestNested

(* In a tree that grows from a root without a parent, no node is below its *)
(* own child.                                                              *)
LEMMA TreeNoCycle ==
  ASSUME NEW m, NEW root, OneParent(m, Descendants(m, root)),
         \A h \in Descendants(m, root) : root \notin ChildrenIn(m, h),
         NEW n \in Descendants(m, root), NEW c \in ChildrenIn(m, n)
  PROVE  n \notin Descendants(m, c)
<1> SUFFICES ASSUME n \in Descendants(m, c) PROVE FALSE
  OBVIOUS
<1>1. c \in Descendants(m, root)
  BY DescendantsClosed
<1>2. Descendants(m, c) \subseteq Descendants(m, root)
  BY <1>1, DescendantsBelow
<1> DEFINE T == Descendants(m, root) \ Descendants(m, c)
<1>3. ASSUME NEW x \in Descendants(m, c)
      PROVE  \E h \in Descendants(m, c) : x \in ChildrenIn(m, h)
  BY DescendantsParent
<1>4. root \in T
  BY <1>2, <1>3, DescendantsSelf
<1>5. ASSUME NEW h \in T, NEW x \in ChildrenIn(m, h) PROVE x \in T
  <2>1. x \in Descendants(m, root)
    BY DescendantsClosed
  <2>2. ASSUME x \in Descendants(m, c) PROVE FALSE
    <3>1. PICK k \in Descendants(m, c) : x \in ChildrenIn(m, k)
      BY <1>3, <2>2
    <3>2. k = h
      BY <1>2, <3>1 DEF OneParent
    <3> QED
      BY <3>1, <3>2
  <2> QED
    BY <2>1, <2>2
<1>6. \A h \in T : ChildrenIn(m, h) \subseteq T
  BY <1>5
<1> HIDE DEF T
<1>7. Descendants(m, root) \subseteq T
  BY <1>4, <1>6, DescendantsLeast
<1> QED
  BY <1>1, <1>7, DescendantsSelf DEF T

Tree(m, root) ==
  /\ OneParent(m, Descendants(m, root))
  /\ \A h \in Descendants(m, root) : root \notin ChildrenIn(m, h)

(* Nothing is below two children of a node of a tree.                      *)
LEMMA TreeApart ==
  ASSUME NEW m, NEW root, Tree(m, root), NEW n \in Descendants(m, root),
         NEW c \in ChildrenIn(m, n), NEW d \in ChildrenIn(m, n), c # d
  PROVE  Descendants(m, c) \cap Descendants(m, d) = {}
<1> DEFINE R == Descendants(m, root)
<1>1. Within(m, R)
  BY DescendantsClosed DEF Within
<1>2. OneParent(m, R) /\ n \in R
  BY DEF Tree
<1>3. n \notin Descendants(m, c) /\ n \notin Descendants(m, d)
  BY TreeNoCycle DEF Tree
<1> HIDE DEF R
<1> QED
  BY <1>1, <1>2, <1>3, ForestApart

(* Two nodes of a tree are not below each other.                           *)
LEMMA TreeOrder ==
  ASSUME NEW m, NEW root, Tree(m, root), NEW x \in Descendants(m, root),
         NEW y \in Descendants(m, x), x # y
  PROVE  x \notin Descendants(m, y)
<1>1. PICK c \in ChildrenIn(m, x) : y \in Descendants(m, c)
  BY DescendantsStep
<1>2. x \notin Descendants(m, c)
  BY TreeNoCycle DEF Tree
<1> QED
  BY <1>1, <1>2, DescendantsBelow

-----------------------------------------------------------------------------
(* Chains: graphs m in which a node has one child at most.                 *)

Chain(m, o) ==
  \A h \in Descendants(m, o) : \A c \in ChildrenIn(m, h), e \in ChildrenIn(m, h) : c = e

(* The end of a chain is below each of its nodes.                          *)
LEMMA ChainLeads ==
  ASSUME NEW m, NEW o, Chain(m, o), NEW d \in Descendants(m, o), ChildrenIn(m, d) = {},
         NEW x \in Descendants(m, o)
  PROVE  d \in Descendants(m, x)
<1> DEFINE T == {h \in Descendants(m, o) : d \in Descendants(m, h)}
<1>1. o \in T
  BY DescendantsSelf
<1>2. ASSUME NEW h \in T, NEW c \in ChildrenIn(m, h) PROVE c \in T
  <2>1. c \in Descendants(m, o)
    BY DescendantsClosed
  <2>2. d # h
    BY <1>2
  <2>3. PICK e \in ChildrenIn(m, h) : d \in Descendants(m, e)
    BY <2>2, DescendantsStep
  <2>4. e = c
    BY <1>2, <2>3 DEF Chain
  <2> QED
    BY <2>1, <2>3, <2>4
<1>3. \A h \in T : ChildrenIn(m, h) \subseteq T
  BY <1>2
<1> HIDE DEF T
<1>4. Descendants(m, o) \subseteq T
  BY <1>1, <1>3, DescendantsLeast
<1> QED
  BY <1>4 DEF T

(* A chain that ends does not come back.                                   *)
LEMMA ChainNoCycle ==
  ASSUME NEW m, NEW o, Chain(m, o), NEW d \in Descendants(m, o), ChildrenIn(m, d) = {},
         NEW z \in Descendants(m, o), NEW c \in ChildrenIn(m, z)
  PROVE  z \notin Descendants(m, c)
<1> SUFFICES ASSUME z \in Descendants(m, c) PROVE FALSE
  OBVIOUS
<1> DEFINE T == {u \in Descendants(m, o) : z \in Descendants(m, u)}
<1>1. z \in T
  BY DescendantsSelf
<1>2. ASSUME NEW h \in T, NEW e \in ChildrenIn(m, h) PROVE e \in T
  <2>1. e \in Descendants(m, o)
    BY DescendantsClosed
  <2>2. CASE h = z
    <3>1. e = c
      BY <2>2 DEF Chain
    <3> QED
      BY <2>1, <3>1
  <2>3. CASE h # z
    <3>1. PICK f \in ChildrenIn(m, h) : z \in Descendants(m, f)
      BY <2>3, DescendantsStep
    <3>2. f = e
      BY <1>2, <3>1 DEF Chain
    <3> QED
      BY <2>1, <3>1, <3>2
  <2> QED
    BY <2>2, <2>3
<1>3. \A h \in T : ChildrenIn(m, h) \subseteq T
  BY <1>2
<1> HIDE DEF T
<1>4. Descendants(m, z) \subseteq T
  BY <1>1, <1>3, DescendantsLeast
<1>5. d \in Descendants(m, z)
  BY ChainLeads
<1>6. z \in Descendants(m, d)
  BY <1>4, <1>5 DEF T
<1>7. z # d
  OBVIOUS
<1> QED
  BY <1>6, <1>7, DescendantsStep

(* Two nodes of a chain are one below the other.                           *)
LEMMA ChainNested ==
  ASSUME NEW m, NEW o, Chain(m, o), NEW x \in Descendants(m, o), NEW y \in Descendants(m, o)
  PROVE  x \in Descendants(m, y) \/ y \in Descendants(m, x)
<1> DEFINE T == {z \in Descendants(m, o) : x \in Descendants(m, z) \/ z \in Descendants(m, x)}
<1>1. o \in T
  BY DescendantsSelf
<1>2. ASSUME NEW h \in T, NEW c \in ChildrenIn(m, h) PROVE c \in T
  <2>1. c \in Descendants(m, o)
    BY DescendantsClosed
  <2>2. CASE h \in Descendants(m, x)
    BY <2>1, <2>2, DescendantsClosed
  <2>3. CASE h \notin Descendants(m, x)
    <3>1. x # h
      BY <2>3, DescendantsSelf
    <3>2. PICK e \in ChildrenIn(m, h) : x \in Descendants(m, e)
      BY <2>3, <3>1, DescendantsStep
    <3>3. e = c
      BY <1>2, <3>2 DEF Chain
    <3> QED
      BY <2>1, <3>2, <3>3
  <2> QED
    BY <2>2, <2>3
<1>3. \A h \in T : ChildrenIn(m, h) \subseteq T
  BY <1>2
<1> HIDE DEF T
<1>4. Descendants(m, o) \subseteq T
  BY <1>1, <1>3, DescendantsLeast
<1> QED
  BY <1>4 DEF T

(* In a chain that ends, a node has one parent.                            *)
LEMMA ChainParent ==
  ASSUME NEW m, NEW o, Chain(m, o), NEW d \in Descendants(m, o), ChildrenIn(m, d) = {},
         NEW x \in Descendants(m, o), NEW y \in Descendants(m, o),
         NEW n \in ChildrenIn(m, x), n \in ChildrenIn(m, y)
  PROVE  x = y
<1>1. ASSUME NEW u \in Descendants(m, o), NEW v \in Descendants(m, u), u # v,
             n \in ChildrenIn(m, u), n \in ChildrenIn(m, v)
      PROVE  FALSE
  <2>1. PICK e \in ChildrenIn(m, u) : v \in Descendants(m, e)
    BY <1>1, DescendantsStep
  <2>2. e = n
    BY <1>1, <2>1 DEF Chain
  <2>3. v \in Descendants(m, o)
    BY DescendantsBelow
  <2> QED
    BY <1>1, <2>1, <2>2, <2>3, ChainNoCycle
<1> QED
  BY <1>1, ChainNested

-----------------------------------------------------------------------------
(* Walks and batches.                                                      *)

(* w meets each element of S once, in n steps.                             *)
Once(w, S, n) ==
  /\ w \in [1..n -> S] /\ \A x \in S : \E i \in 1..n : w[i] = x
  /\ \A i \in 1..n, j \in 1..n : w[i] = w[j] => i = j

LEMMA WalkOnce ==
  ASSUME NEW S, IsFiniteSet(S), NEW w \in Walks(S)
  PROVE  \E n \in Nat : Once(w, S, n)
<1> DEFINE n == Cardinality(S)
<1>1. n \in Nat
  BY FS_CardinalityType
<1>2. w \in [1..n -> S] /\ \A x \in S : \E i \in DOMAIN w : w[i] = x
  BY DEF Walks
<1>3. DOMAIN w = 1..n
  BY <1>2
<1>4. w \in Surjection(1..n, S)
  BY <1>2, <1>3 DEF Surjection
<1>5. IsFiniteSet(1..n) /\ Cardinality(1..n) = n
  BY <1>1, FS_Interval
<1>6. w \in Injection(1..n, S)
  BY <1>4, <1>5, FS_SurjSameCardinalityImpliesInj
<1>7. \A i \in 1..n, j \in 1..n : w[i] = w[j] => i = j
  BY <1>6 DEF Injection, IsInjective
<1> QED
  BY <1>1, <1>2, <1>3, <1>7 DEF Once

LEMMA LeastOf ==
  ASSUME NEW T \in SUBSET Nat, T # {}
  PROVE  \E k \in T : \A j \in T : k <= j
<1> DEFINE Less == {p \in Nat \X Nat : p[1] < p[2]}
<1>1. IsWellFoundedOn(Less, Nat)
  BY NatLessThanWellFounded DEF OpToRel
<1> HIDE DEF Less
<1>2. PICK k \in T : \A j \in T : ~(<<j, k>> \in Less)
  BY <1>1, WFMin
<1>3. ASSUME NEW j \in T PROVE k <= j
  <2>1. j \in Nat /\ k \in Nat
    OBVIOUS
  <2>2. j < k => <<j, k>> \in Less
    BY <2>1 DEF Less
  <2> QED
    BY <1>2, <2>1, <2>2
<1> QED
  BY <1>3

(* The sequences of a batch joined one after the other, up to each.        *)
IsJoin(f, n, g) ==
  \A i \in 1..n : g[i] = IF i = 1 THEN f[i] ELSE g[i - 1] \o f[i]

LEMMA JoinExists ==
  ASSUME NEW S, NEW n \in Nat \ {0}, NEW f \in [1..n -> Seq(S)]
  PROVE  \E g \in [1..n -> Seq(S)] : IsJoin(f, n, g)
<1> DEFINE Fine(k) == \E g \in [1..k -> Seq(S)] : IsJoin(f, k, g)
           T == {k \in 1..n : ~Fine(k)}
<1>1. Fine(1)
  <2>1. [i \in 1..1 |-> f[i]] \in [1..1 -> Seq(S)]
    OBVIOUS
  <2>2. IsJoin(f, 1, [i \in 1..1 |-> f[i]])
    BY DEF IsJoin
  <2> QED
    BY <2>1, <2>2
<1>2. ASSUME NEW k \in 1..n, k # 1, Fine(k - 1) PROVE Fine(k)
  <2>1. PICK g \in [1..(k - 1) -> Seq(S)] : IsJoin(f, k - 1, g)
    BY <1>2
  <2> DEFINE h == [i \in 1..k |-> IF i = k THEN g[k - 1] \o f[k] ELSE g[i]]
  <2>2. k - 1 \in 1..(k - 1) /\ k \in Nat
    BY <1>2
  <2>3. g[k - 1] \o f[k] \in Seq(S)
    BY <2>2, ConcatProperties
  <2>4. h \in [1..k -> Seq(S)]
    BY <2>2, <2>3
  <2>5. ASSUME NEW i \in 1..k PROVE h[i] = IF i = 1 THEN f[i] ELSE h[i - 1] \o f[i]
    <3>1. CASE i = k
      <4>1. h[i] = g[k - 1] \o f[k] /\ h[i - 1] = g[k - 1] /\ i # 1
        BY <1>2, <2>2, <3>1
      <4> QED
        BY <3>1, <4>1
    <3>2. CASE i # k
      <4>1. i \in 1..(k - 1) /\ h[i] = g[i]
        BY <2>2, <3>2
      <4>2. g[i] = IF i = 1 THEN f[i] ELSE g[i - 1] \o f[i]
        BY <2>1, <4>1 DEF IsJoin
      <4>3. CASE i = 1
        BY <4>1, <4>2, <4>3
      <4>4. CASE i # 1
        <5>1. h[i - 1] = g[i - 1]
          BY <2>2, <4>1, <4>4
        <5> QED
          BY <4>1, <4>2, <4>4, <5>1
      <4> QED
        BY <4>3, <4>4
    <3> QED
      BY <3>1, <3>2
  <2>6. IsJoin(f, k, h)
    BY <2>5 DEF IsJoin
  <2> QED
    BY <2>4, <2>6
<1>0. T \in SUBSET Nat
  OBVIOUS
<1>3. ASSUME T # {} PROVE FALSE
  <2> HIDE DEF T
  <2>1. PICK k \in T : \A j \in T : k <= j
    BY <1>0, <1>3, LeastOf
  <2>2. k # 1 /\ k \in 1..n
    BY <1>1, <2>1 DEF T
  <2>3. k - 1 \in 1..n /\ k - 1 \notin T
    <3>1. k \in Nat /\ k - 1 \in Nat /\ ~(k <= k - 1)
      BY <2>2
    <3> QED
      BY <2>1, <2>2, <3>1
  <2>4. Fine(k - 1) /\ ~Fine(k)
    BY <2>1, <2>3 DEF T
  <2> HIDE DEF Fine
  <2> QED
    BY <1>2, <2>1, <2>2, <2>4
<1> QED
  BY <1>3

LEMMA JoinIsOne ==
  ASSUME NEW f, NEW n \in Nat \ {0}, NEW g, IsJoin(f, n, g), NEW h, IsJoin(f, n, h), NEW i \in 1..n
  PROVE  g[i] = h[i]
<1> DEFINE T == {k \in 1..n : g[k] # h[k]}
<1>0. T \in SUBSET Nat
  OBVIOUS
<1>1. ASSUME T # {} PROVE FALSE
  <2> HIDE DEF T
  <2>1. PICK k \in T : \A j \in T : k <= j
    BY <1>0, <1>1, LeastOf
  <2>0. k \in 1..n /\ g[k] # h[k]
    BY <2>1 DEF T
  <2>2. k # 1
    BY <2>0 DEF IsJoin
  <2>3. k - 1 \in 1..n /\ k - 1 \notin T
    <3>1. k \in Nat /\ k - 1 \in Nat /\ ~(k <= k - 1)
      BY <2>0
    <3> QED
      BY <2>0, <2>1, <2>2, <3>1
  <2>4. g[k - 1] = h[k - 1]
    BY <2>3 DEF T
  <2> QED
    BY <2>0, <2>2, <2>4 DEF IsJoin
<1> QED
  BY <1>1

LEMMA FlattenIsJoin ==
  ASSUME NEW S, NEW n \in Nat \ {0}, NEW f \in [1..n -> Seq(S)],
         NEW g \in [1..n -> Seq(S)], IsJoin(f, n, g)
  PROVE  FlattenSeq(f) = g[n]
<1> DEFINE Eq(h) == h = [i \in 1..n |-> IF i = 1 THEN f[i] ELSE h[i - 1] \o f[i]]
           flatten == CHOOSE h : Eq(h)
<1>1. g = [i \in 1..n |-> IF i = 1 THEN f[i] ELSE g[i - 1] \o f[i]]
  BY DEF IsJoin
<1>2. Eq(flatten)
  BY <1>1
<1>3. FlattenSeq(f) = flatten[n]
  <2>1. Len(f) = n /\ n # 0
    OBVIOUS
  <2> QED
    BY <2>1 DEF FlattenSeq
<1> HIDE DEF flatten
<1>4. IsJoin(f, n, flatten)
  BY <1>2 DEF IsJoin
<1>5. PICK h : IsJoin(f, n, h) /\ FlattenSeq(f) = h[n]
  BY <1>3, <1>4
<1>6. n \in 1..n
  OBVIOUS
<1>7. h[n] = g[n]
  BY <1>5, <1>6, JoinIsOne
<1> QED
  BY <1>5, <1>7

(* at gives the place in the sequences of f that each element of s comes   *)
(* from: the number of the sequence, then the index there, in order.       *)
Places(f, n, s, at) ==
  /\ at \in [1..Len(s) -> (1..n) \X Nat]
  /\ \A k \in 1..Len(s) : at[k][2] \in 1..Len(f[at[k][1]]) /\ s[k] = f[at[k][1]][at[k][2]]
  /\ \A k \in 1..Len(s), l \in 1..Len(s) :
       k < l => at[k][1] < at[l][1] \/ (at[k][1] = at[l][1] /\ at[k][2] < at[l][2])

LEMMA PlacesFirst ==
  ASSUME NEW S, NEW n \in Nat \ {0}, NEW f \in [1..n -> Seq(S)]
  PROVE  \E at : Places(f, 1, f[1], at)
<1> DEFINE at == [k \in 1..Len(f[1]) |-> <<1, k>>]
<1>1. f[1] \in Seq(S) /\ Len(f[1]) \in Nat
  OBVIOUS
<1>2. at \in [1..Len(f[1]) -> (1..1) \X Nat]
  BY <1>1
<1>3. \A k \in 1..Len(f[1]) : at[k] = <<1, k>> /\ at[k][1] = 1 /\ at[k][2] = k
  OBVIOUS
<1> HIDE DEF at
<1>4. Places(f, 1, f[1], at)
  BY <1>1, <1>2, <1>3 DEF Places
<1> QED
  BY <1>4

LEMMA PlacesNext ==
  ASSUME NEW S, NEW n \in Nat \ {0}, NEW f \in [1..n -> Seq(S)],
         NEW i \in 1..n, i # 1, NEW s \in Seq(S), NEW old, Places(f, i - 1, s, old)
  PROVE  \E at : Places(f, i, s \o f[i], at)
<1> DEFINE t == f[i]
           at == [k \in 1..(Len(s) + Len(t)) |->
                    IF k <= Len(s) THEN old[k] ELSE <<i, k - Len(s)>>]
<1>1. /\ t \in Seq(S) /\ Len(s) \in Nat /\ Len(t) \in Nat
      /\ Len(s \o t) = Len(s) + Len(t)
      /\ \A k \in 1..(Len(s) + Len(t)) : (s \o t)[k] = IF k <= Len(s) THEN s[k] ELSE t[k - Len(s)]
  BY ConcatProperties
<1> HIDE DEF t
<1>2. ASSUME NEW k \in 1..(Len(s) + Len(t))
      PROVE  /\ at[k] \in (1..i) \X Nat
             /\ k <= Len(s) => at[k] = old[k] /\ at[k][1] < i /\ k \in 1..Len(s)
             /\ ~(k <= Len(s)) => at[k] = <<i, k - Len(s)>> /\ k - Len(s) \in 1..Len(t)
  <2>1. CASE k <= Len(s)
    <3>1. k \in 1..Len(s)
      BY <1>1, <2>1
    <3>2. old[k] \in (1..(i - 1)) \X Nat
      BY <3>1 DEF Places
    <3>3. old[k][1] \in 1..(i - 1) /\ old[k] \in (1..i) \X Nat
      BY <3>2
    <3> QED
      BY <2>1, <3>1, <3>3
  <2>2. CASE ~(k <= Len(s))
    BY <1>1, <2>2
  <2> QED
    BY <2>1, <2>2
<1>3. at \in [1..(Len(s) + Len(t)) -> (1..i) \X Nat]
  BY <1>2
<1>4. ASSUME NEW k \in 1..(Len(s) + Len(t))
      PROVE  at[k][2] \in 1..Len(f[at[k][1]]) /\ (s \o t)[k] = f[at[k][1]][at[k][2]]
  <2>1. CASE k <= Len(s)
    BY <1>1, <1>2, <2>1 DEF Places
  <2>2. CASE ~(k <= Len(s))
    BY <1>1, <1>2, <2>2 DEF t
  <2> QED
    BY <2>1, <2>2
<1>5. ASSUME NEW k \in 1..(Len(s) + Len(t)), NEW l \in 1..(Len(s) + Len(t)), k < l
      PROVE  at[k][1] < at[l][1] \/ (at[k][1] = at[l][1] /\ at[k][2] < at[l][2])
  <2> HIDE DEF at
  <2>1. CASE l <= Len(s)
    <3>1. k <= Len(s)
      BY <1>1, <1>5, <2>1
    <3>2. k \in 1..Len(s) /\ l \in 1..Len(s) /\ at[k] = old[k] /\ at[l] = old[l]
      BY <1>2, <2>1, <3>1
    <3> QED
      BY <1>5, <3>2 DEF Places
  <2>2. CASE ~(l <= Len(s)) /\ k <= Len(s)
    BY <1>2, <2>2, SMTT(20)
  <2>3. CASE ~(l <= Len(s)) /\ ~(k <= Len(s))
    <3>1. at[k] = <<i, k - Len(s)>> /\ at[l] = <<i, l - Len(s)>>
      BY <1>2, <2>3
    <3>2. k - Len(s) < l - Len(s)
      BY <1>1, <1>5
    <3> QED
      BY <3>1, <3>2
  <2> QED
    BY <2>1, <2>2, <2>3
<1> HIDE DEF at
<1>6. Places(f, i, s \o t, at)
  BY <1>1, <1>3, <1>4, <1>5 DEF Places
<1> QED
  BY <1>6 DEF t

(* An element of a batch comes from one place, and they are in order.      *)
LEMMA FlattenPlaces ==
  ASSUME NEW S, NEW n \in Nat \ {0}, NEW f \in [1..n -> Seq(S)]
  PROVE  FlattenSeq(f) \in Seq(S) /\ \E at : Places(f, n, FlattenSeq(f), at)
<1>1. PICK g \in [1..n -> Seq(S)] : IsJoin(f, n, g)
  BY JoinExists
<1>2. FlattenSeq(f) = g[n]
  BY <1>1, FlattenIsJoin
<1>5. n \in 1..n
  OBVIOUS
<1> DEFINE T == {k \in 1..n : ~\E at : Places(f, k, g[k], at)}
<1>3. T \in SUBSET Nat
  OBVIOUS
<1>4. ASSUME T # {} PROVE FALSE
  <2> HIDE DEF T
  <2>1. PICK k \in T : \A j \in T : k <= j
    BY <1>3, <1>4, LeastOf
  <2>2. k \in 1..n /\ ~\E at : Places(f, k, g[k], at)
    BY <2>1 DEF T
  <2>3. k # 1
    BY <1>1, <2>2, PlacesFirst DEF IsJoin
  <2>4. k - 1 \in 1..n /\ k - 1 \notin T
    <3>1. k \in Nat /\ k - 1 \in Nat /\ ~(k <= k - 1)
      BY <2>2
    <3> QED
      BY <2>1, <2>2, <2>3, <3>1
  <2>5. PICK old : Places(f, k - 1, g[k - 1], old)
    BY <2>4 DEF T
  <2>6. g[k - 1] \in Seq(S) /\ g[k] = g[k - 1] \o f[k]
    BY <1>1, <2>2, <2>3, <2>4 DEF IsJoin
  <2>7. \E at : Places(f, k, g[k - 1] \o f[k], at)
    BY <2>2, <2>3, <2>5, <2>6, PlacesNext
  <2> QED
    BY <2>2, <2>6, <2>7
<1> QED
  BY <1>1, <1>2, <1>4, <1>5

-----------------------------------------------------------------------------
(* Tokens that move down the edges of a graph.  Each token is at a place;  *)
(* id and st are functions from the places to the number of a token and    *)
(* the node it is at; tokens with the number i start at start[i].          *)

Placed(id, st, m, start) ==
  \A x \in DOMAIN id : id[x] \in DOMAIN start /\ st[x] \in Descendants(m, start[id[x]])

(* Nothing is below two tokens with the same number.                       *)
Apart(id, st, m) ==
  \A x \in DOMAIN id, y \in DOMAIN id :
    id[x] = id[y] /\ x # y => Descendants(m, st[x]) \cap Descendants(m, st[y]) = {}

(* Of two tokens that start alike, the one with the lower number is not    *)
(* above the other, and at the same node its place is before.              *)
Ordered(id, st, m, start, before) ==
  \A x \in DOMAIN id, y \in DOMAIN id :
    id[x] < id[y] /\ start[id[x]] = start[id[y]] =>
      /\ st[y] \in Descendants(m, st[x]) => st[y] = st[x]
      /\ st[y] = st[x] => <<x, y>> \in before

(* A step takes a token from the place orig[x] to x: it stays at its node, *)
(* or it is one of the copies that go to different children.               *)
Moves(id1, st1, id2, st2, m, orig) ==
  /\ orig \in [DOMAIN id2 -> DOMAIN id1]
  /\ \A x \in DOMAIN id2 :
       /\ id2[x] = id1[orig[x]]
       /\ st2[x] = st1[orig[x]] \/ st2[x] \in ChildrenIn(m, st1[orig[x]])
  /\ \A x \in DOMAIN id2, y \in DOMAIN id2 :
       x # y /\ orig[x] = orig[y] =>
         /\ st2[x] # st2[y]
         /\ st2[x] \in ChildrenIn(m, st1[orig[x]]) /\ st2[y] \in ChildrenIn(m, st1[orig[x]])

(* Who stays is not overtaken, and who comes comes behind.                 *)
InTurn(st1, st2, before1, before2, orig) ==
  \A x \in DOMAIN st2, y \in DOMAIN st2 :
    x # y =>
      /\ (st2[x] = st2[y] /\ st1[orig[x]] = st1[orig[y]] /\ <<orig[x], orig[y]>> \in before1)
            => <<x, y>> \in before2
      /\ (st2[x] = st1[orig[x]] /\ st2[y] # st1[orig[y]] /\ st1[orig[x]] = st1[orig[y]])
            => <<orig[x], orig[y]>> \notin before1
      /\ (st2[x] = st1[orig[x]] /\ st2[y] # st1[orig[y]] /\ st2[x] = st2[y])
            => <<x, y>> \in before2

Trees(m, start) == \A i \in DOMAIN start : Tree(m, start[i])

LEMMA MovesPlaced ==
  ASSUME NEW m, NEW start, NEW id1, NEW st1, NEW id2, NEW st2, NEW orig,
         Placed(id1, st1, m, start), Moves(id1, st1, id2, st2, m, orig)
  PROVE  Placed(id2, st2, m, start)
<1> SUFFICES ASSUME NEW x \in DOMAIN id2
             PROVE  id2[x] \in DOMAIN start /\ st2[x] \in Descendants(m, start[id2[x]])
  BY DEF Placed
<1>1. orig[x] \in DOMAIN id1 /\ id2[x] = id1[orig[x]]
  BY DEF Moves
<1>2. id2[x] \in DOMAIN start /\ st1[orig[x]] \in Descendants(m, start[id2[x]])
  BY <1>1 DEF Placed
<1>3. st2[x] = st1[orig[x]] \/ st2[x] \in ChildrenIn(m, st1[orig[x]])
  BY DEF Moves
<1> QED
  BY <1>2, <1>3, DescendantsClosed

LEMMA MovesApart ==
  ASSUME NEW m, NEW start, NEW id1, NEW st1, NEW id2, NEW st2, NEW orig, Trees(m, start),
         Placed(id1, st1, m, start), Apart(id1, st1, m), Moves(id1, st1, id2, st2, m, orig)
  PROVE  Apart(id2, st2, m)
<1> SUFFICES ASSUME NEW x \in DOMAIN id2, NEW y \in DOMAIN id2, id2[x] = id2[y], x # y
             PROVE  Descendants(m, st2[x]) \cap Descendants(m, st2[y]) = {}
  BY DEF Apart
<1>1. /\ orig[x] \in DOMAIN id1 /\ orig[y] \in DOMAIN id1
      /\ id1[orig[x]] = id1[orig[y]]
  BY DEF Moves
<1>2. ASSUME NEW z \in DOMAIN id2 PROVE Descendants(m, st2[z]) \subseteq Descendants(m, st1[orig[z]])
  <2>1. st2[z] = st1[orig[z]] \/ st2[z] \in ChildrenIn(m, st1[orig[z]])
    BY DEF Moves
  <2>2. st2[z] \in Descendants(m, st1[orig[z]])
    BY <2>1, DescendantsSelf, DescendantsClosed
  <2> QED
    BY <2>2, DescendantsBelow
<1>3. CASE orig[x] # orig[y]
  <2>1. Descendants(m, st1[orig[x]]) \cap Descendants(m, st1[orig[y]]) = {}
    BY <1>1, <1>3 DEF Apart
  <2> QED
    BY <1>2, <2>1
<1>4. CASE orig[x] = orig[y]
  <2> DEFINE n == st1[orig[x]]
             root == start[id1[orig[x]]]
  <2>1. st2[x] # st2[y] /\ st2[x] \in ChildrenIn(m, n) /\ st2[y] \in ChildrenIn(m, n)
    BY <1>4 DEF Moves
  <2>2. n \in Descendants(m, root) /\ Tree(m, root)
    BY <1>1 DEF Placed, Trees
  <2> HIDE DEF n, root
  <2> QED
    BY <2>1, <2>2, TreeApart
<1> QED
  BY <1>3, <1>4

LEMMA MovesOrdered ==
  ASSUME NEW m, NEW start, NEW id1, NEW st1, NEW id2, NEW st2, NEW orig, Trees(m, start),
         NEW before1, NEW before2, DOMAIN st2 = DOMAIN id2, \A x \in DOMAIN id2 : id2[x] \in Nat,
         Placed(id1, st1, m, start), Ordered(id1, st1, m, start, before1),
         Moves(id1, st1, id2, st2, m, orig), InTurn(st1, st2, before1, before2, orig)
  PROVE  Ordered(id2, st2, m, start, before2)
<1> SUFFICES ASSUME NEW x \in DOMAIN id2, NEW y \in DOMAIN id2, id2[x] < id2[y],
                    start[id2[x]] = start[id2[y]], st2[y] \in Descendants(m, st2[x])
             PROVE  st2[y] = st2[x] /\ <<x, y>> \in before2
  BY DescendantsSelf DEF Ordered
<1> DEFINE a == st1[orig[x]]
           b == st1[orig[y]]
           root == start[id2[x]]
<1>1. x # y
  OBVIOUS
<1>2. /\ orig[x] \in DOMAIN id1 /\ orig[y] \in DOMAIN id1
      /\ id1[orig[x]] = id2[x] /\ id1[orig[y]] = id2[y]
  BY DEF Moves
<1>3. /\ b \in Descendants(m, a) => b = a
      /\ b = a => <<orig[x], orig[y]>> \in before1
  BY <1>2 DEF Ordered
<1>4. Tree(m, root) /\ a \in Descendants(m, root) /\ b \in Descendants(m, root)
  BY <1>2 DEF Placed, Trees
<1>5. st2[x] = a \/ st2[x] \in ChildrenIn(m, a)
  BY DEF Moves
<1>6. st2[y] = b \/ st2[y] \in ChildrenIn(m, b)
  BY DEF Moves
<1>7. InTurn(st1, st2, before1, before2, orig)
  OBVIOUS
<1>8. /\ (st2[x] = st2[y] /\ a = b /\ <<orig[x], orig[y]>> \in before1) => <<x, y>> \in before2
      /\ (st2[x] = a /\ st2[y] # b /\ a = b) => <<orig[x], orig[y]>> \notin before1
      /\ (st2[x] = a /\ st2[y] # b /\ st2[x] = st2[y]) => <<x, y>> \in before2
  BY <1>1, <1>7 DEF InTurn
<1> HIDE DEF a, b, root
<1>9. st2[x] \in Descendants(m, a)
  BY <1>5, DescendantsSelf, DescendantsClosed
<1>10. Descendants(m, st2[x]) \subseteq Descendants(m, a)
  BY <1>9, DescendantsBelow
<1>11. st2[x] \in Descendants(m, root) /\ Descendants(m, a) \subseteq Descendants(m, root)
  BY <1>4, <1>9, DescendantsBelow
<1>12. CASE st2[y] = b
  <2>1. b = a
    BY <1>3, <1>10, <1>12
  <2>2. CASE st2[x] = a
    BY <1>3, <1>8, <1>12, <2>1, <2>2
  <2>3. CASE st2[x] \in ChildrenIn(m, a)
    <3>1. a \notin Descendants(m, st2[x])
      BY <1>4, <2>3, TreeNoCycle DEF Tree
    <3> QED
      BY <1>12, <2>1, <3>1
  <2> QED
    BY <1>5, <2>2, <2>3
<1>13. CASE st2[y] # b /\ st2[y] \in ChildrenIn(m, b)
  <2>1. CASE st2[y] = st2[x]
    <3>1. CASE st2[x] = a
      BY <1>8, <1>13, <2>1, <3>1
    <3>2. CASE st2[x] \in ChildrenIn(m, a)
      <4>1. a = b
        BY <1>4, <1>13, <2>1, <3>2 DEF Tree, OneParent
      <4> QED
        BY <1>3, <1>8, <2>1, <4>1
    <3> QED
      BY <1>5, <3>1, <3>2
  <2>2. CASE st2[y] # st2[x]
    <3>1. PICK k \in Descendants(m, st2[x]) : st2[y] \in ChildrenIn(m, k)
      BY <2>2, DescendantsParent
    <3>2. k \in Descendants(m, root)
      BY <1>10, <1>11, <3>1
    <3>3. k = b
      BY <1>4, <1>13, <3>1, <3>2 DEF Tree, OneParent
    <3>4. b = a
      BY <1>3, <1>10, <3>1, <3>3
    <3>5. CASE st2[x] = a
      BY <1>3, <1>8, <1>13, <3>4, <3>5
    <3>6. CASE st2[x] \in ChildrenIn(m, a)
      <4>1. a \notin Descendants(m, st2[x])
        BY <1>4, <3>6, TreeNoCycle DEF Tree
      <4> QED
        BY <3>1, <3>3, <3>4, <4>1
    <3> QED
      BY <1>5, <3>5, <3>6
  <2> QED
    BY <2>1, <2>2
<1> QED
  BY <1>6, <1>12, <1>13

-----------------------------------------------------------------------------
(* Tokens in holders: cont gives the sequence of the tokens <<number,      *)
(* node>> in each.                                                         *)

Holds(cont, H, S) == cont \in [H -> Seq(Nat \X S)]
PlacesOf(cont) == {x \in (DOMAIN cont) \X Nat : x[2] \in 1..Len(cont[x[1]])}
TokenAt(cont, x) == cont[x[1]][x[2]]
IdsOf(cont) == [x \in PlacesOf(cont) |-> TokenAt(cont, x)[1]]
NodesOf(cont) == [x \in PlacesOf(cont) |-> TokenAt(cont, x)[2]]

(* A place is before those behind it in the holder, and before all places  *)
(* of the holders that a pair of prior puts after its own.                 *)
Before(H, prior) ==
  {p \in (H \X Nat) \X (H \X Nat) :
     (p[1][1] = p[2][1] /\ p[1][2] < p[2][2]) \/ <<p[1][1], p[2][1]>> \in prior}

TokensOK(cont, m, start, prior) ==
  /\ Placed(IdsOf(cont), NodesOf(cont), m, start)
  /\ Apart(IdsOf(cont), NodesOf(cont), m)
  /\ Ordered(IdsOf(cont), NodesOf(cont), m, start, Before(DOMAIN cont, prior))

(* The first n tokens of t are gone; tokens are pushed at the ends, and    *)
(* some of these may be thrown away.                                       *)
Dropped(c, t, n) == IF c = t THEN n ELSE 0
Shifted(cont, pushed, new, t, n) ==
  /\ DOMAIN new = DOMAIN cont /\ DOMAIN pushed = DOMAIN cont
  /\ \A c \in DOMAIN cont :
       LET kept == Len(cont[c]) - Dropped(c, t, n)
       IN  /\ Len(new[c]) <= kept + Len(pushed[c])
           /\ \A i \in 1..Len(new[c]) :
                new[c][i] = IF i <= kept THEN cont[c][i + Dropped(c, t, n)]
                            ELSE pushed[c][i - kept]

(* Tokens at one node are in one holder, or in two that prior orders.      *)
Together(cont, prior) ==
  \A x \in PlacesOf(cont), y \in PlacesOf(cont) :
    TokenAt(cont, x)[2] = TokenAt(cont, y)[2] =>
      x[1] = y[1] \/ <<x[1], y[1]>> \in prior \/ <<y[1], x[1]>> \in prior

(* The pushed tokens are copies of those gone, at different children, one  *)
(* batch of copies after the other; none is pushed into a prior holder.    *)
CopiesPushed(cont, pushed, t, n, from, m) ==
  /\ from \in [PlacesOf(pushed) -> 1..n]
  /\ \A x \in PlacesOf(pushed) :
       /\ TokenAt(pushed, x)[1] = cont[t][from[x]][1]
       /\ TokenAt(pushed, x)[2] \in ChildrenIn(m, cont[t][from[x]][2])
  /\ \A x \in PlacesOf(pushed), y \in PlacesOf(pushed) :
       /\ x # y /\ from[x] = from[y] => TokenAt(pushed, x)[2] # TokenAt(pushed, y)[2]
       /\ x[1] = y[1] /\ from[x] < from[y] => x[2] < y[2]

(* No token at the node of one that goes is in a holder prior to t.        *)
NonePrior(cont, pushed, t, n, prior) ==
  /\ \A p \in prior : p \in (DOMAIN cont) \X (DOMAIN cont) /\ p[1] # p[2] /\ pushed[p[1]] = <<>>
  /\ \A p \in prior, j \in 1..n : p[2] = t =>
       \A i \in 1..Len(cont[p[1]]) : cont[p[1]][i][2] # cont[t][j][2]

(* What is in a holder after a step was in it before, or was pushed.       *)
Counts(cont, pushed, new, t, n, kept, drop) ==
  \A c \in DOMAIN cont :
    /\ Len(cont[c]) \in Nat /\ Len(new[c]) \in Nat /\ Len(pushed[c]) \in Nat
    /\ kept[c] + drop[c] = Len(cont[c]) /\ drop[c] = (IF c = t THEN n ELSE 0)
    /\ Len(new[c]) <= kept[c] + Len(pushed[c])
    /\ \A i \in 1..Len(new[c]) :
         new[c][i] = IF i <= kept[c] THEN cont[c][i + drop[c]] ELSE pushed[c][i - kept[c]]

LEMMA ShiftedCounts ==
  ASSUME NEW S, NEW H, NEW cont, Holds(cont, H, S), NEW new, Holds(new, H, S),
         NEW pushed, Holds(pushed, H, S), NEW t, NEW n \in Nat,
         t \in H => n <= Len(cont[t]), Shifted(cont, pushed, new, t, n)
  PROVE  \E kept \in [H -> Nat], drop \in [H -> Nat] : Counts(cont, pushed, new, t, n, kept, drop)
<1> DEFINE kept == [c \in H |-> Len(cont[c]) - Dropped(c, t, n)]
           drop == [c \in H |-> Dropped(c, t, n)]
<1>1. ASSUME NEW c \in H
      PROVE  /\ Len(cont[c]) \in Nat /\ Len(new[c]) \in Nat /\ Len(pushed[c]) \in Nat
             /\ kept[c] \in Nat /\ drop[c] \in Nat
             /\ kept[c] + drop[c] = Len(cont[c]) /\ drop[c] = (IF c = t THEN n ELSE 0)
             /\ Len(new[c]) <= kept[c] + Len(pushed[c])
             /\ \A i \in 1..Len(new[c]) :
                  new[c][i] = IF i <= kept[c] THEN cont[c][i + drop[c]] ELSE pushed[c][i - kept[c]]
  <2>1. Len(cont[c]) \in Nat /\ Len(new[c]) \in Nat /\ Len(pushed[c]) \in Nat
    BY DEF Holds
  <2>2. Dropped(c, t, n) \in Nat /\ Dropped(c, t, n) <= Len(cont[c]) /\ drop[c] = (IF c = t THEN n ELSE 0)
    BY <2>1 DEF Dropped
  <2>3. kept[c] \in Nat /\ kept[c] + drop[c] = Len(cont[c]) /\ drop[c] \in Nat
    <3>1. \A a \in Nat, d \in Nat : d <= a => a - d \in Nat /\ (a - d) + d = a
      OBVIOUS
    <3> QED
      BY <2>1, <2>2, <3>1
  <2> QED
    BY <2>1, <2>2, <2>3 DEF Shifted, Holds
<1>2. kept \in [H -> Nat] /\ drop \in [H -> Nat]
  BY <1>1
<1> HIDE DEF kept, drop
<1>3. Counts(cont, pushed, new, t, n, kept, drop)
  BY <1>1 DEF Counts, Holds
<1> QED
  BY <1>2, <1>3

Stayed(cont, new, t, n, drop, x) ==
  LET old == <<x[1], x[2] + drop[x[1]]>>
  IN  old \in PlacesOf(cont) /\ TokenAt(new, x) = TokenAt(cont, old) /\ (x[1] = t => old[2] > n)
Came(pushed, new, kept, x) ==
  LET push == <<x[1], x[2] - kept[x[1]]>>
  IN  push \in PlacesOf(pushed) /\ TokenAt(new, x) = TokenAt(pushed, push)

LEMMA ShiftedPlaces ==
  ASSUME NEW S, NEW H, NEW cont, Holds(cont, H, S), NEW new, Holds(new, H, S),
         NEW pushed, Holds(pushed, H, S), NEW t, NEW n,
         NEW kept \in [H -> Nat], NEW drop \in [H -> Nat],
         Counts(cont, pushed, new, t, n, kept, drop), NEW x \in PlacesOf(new)
  PROVE  IF x[2] <= kept[x[1]] THEN Stayed(cont, new, t, n, drop, x) ELSE Came(pushed, new, kept, x)
<1>1. x[1] \in H /\ x[2] \in Nat /\ x[2] \in 1..Len(new[x[1]]) /\ x = <<x[1], x[2]>>
  BY DEF PlacesOf, Holds
<1>2. /\ Len(cont[x[1]]) \in Nat /\ Len(new[x[1]]) \in Nat /\ Len(pushed[x[1]]) \in Nat
      /\ kept[x[1]] + drop[x[1]] = Len(cont[x[1]]) /\ drop[x[1]] = (IF x[1] = t THEN n ELSE 0)
      /\ Len(new[x[1]]) <= kept[x[1]] + Len(pushed[x[1]])
      /\ new[x[1]][x[2]] = IF x[2] <= kept[x[1]] THEN cont[x[1]][x[2] + drop[x[1]]]
                           ELSE pushed[x[1]][x[2] - kept[x[1]]]
      /\ kept[x[1]] \in Nat /\ drop[x[1]] \in Nat
  BY <1>1 DEF Counts, Holds
<1>3. x[2] >= 1 /\ x[2] <= Len(new[x[1]])
  BY <1>1, <1>2
<1>4. CASE x[2] <= kept[x[1]]
  <2>1. \A i \in Nat, k \in Nat, d \in Nat :
           i >= 1 /\ i <= k => i + d \in 1..(k + d) /\ i + d > d /\ i + d \in Nat
    OBVIOUS
  <2>2. /\ x[2] + drop[x[1]] \in 1..Len(cont[x[1]]) /\ x[2] + drop[x[1]] > drop[x[1]]
        /\ x[2] + drop[x[1]] \in Nat
    BY <1>1, <1>2, <1>3, <1>4, <2>1
  <2>3. <<x[1], x[2] + drop[x[1]]>> \in PlacesOf(cont)
    BY <1>1, <2>2 DEF PlacesOf, Holds
  <2> QED
    BY <1>2, <1>4, <2>2, <2>3 DEF TokenAt, Stayed
<1>5. CASE ~(x[2] <= kept[x[1]])
  <2>1. \A i \in Nat, k \in Nat, l \in Nat, o \in Nat :
           i <= o /\ o <= k + l /\ ~(i <= k) => i - k \in 1..l /\ i - k \in Nat
    OBVIOUS
  <2>2. x[2] - kept[x[1]] \in 1..Len(pushed[x[1]]) /\ x[2] - kept[x[1]] \in Nat
    BY <1>1, <1>2, <1>3, <1>5, <2>1
  <2>3. <<x[1], x[2] - kept[x[1]]>> \in PlacesOf(pushed)
    BY <1>1, <2>2 DEF PlacesOf, Holds
  <2> QED
    BY <1>2, <1>5, <2>3 DEF TokenAt, Came
<1> QED
  BY <1>4, <1>5

LEMMA MoveSome ==
  ASSUME NEW S, NEW H, NEW cont, Holds(cont, H, S), NEW new, Holds(new, H, S),
         NEW pushed, Holds(pushed, H, S),
         NEW m, NEW start, Trees(m, start), NEW prior,
         NEW t \in H, NEW n \in Nat, n <= Len(cont[t]), Shifted(cont, pushed, new, t, n),
         NEW from, CopiesPushed(cont, pushed, t, n, from, m),
         Together(new, prior), NonePrior(cont, pushed, t, n, prior),
         TokensOK(cont, m, start, prior)
  PROVE  TokensOK(new, m, start, prior)
<1>0. PICK kept \in [H -> Nat], drop \in [H -> Nat] : Counts(cont, pushed, new, t, n, kept, drop)
  BY ShiftedCounts
<1>1. \A c \in H : Len(cont[c]) \in Nat /\ drop[c] \in Nat /\ kept[c] \in Nat
  BY <1>0 DEF Counts, Holds
<1> DEFINE Stays(x) == x[2] <= kept[x[1]]
           old(x) == <<x[1], x[2] + drop[x[1]]>>
           push(x) == <<x[1], x[2] - kept[x[1]]>>
           orig == [x \in PlacesOf(new) |-> IF Stays(x) THEN old(x) ELSE <<t, from[push(x)]>>]
           id1 == IdsOf(cont)
           st1 == NodesOf(cont)
           id2 == IdsOf(new)
           st2 == NodesOf(new)
           before == Before(H, prior)
<1>2. /\ DOMAIN id1 = PlacesOf(cont) /\ DOMAIN st1 = PlacesOf(cont)
      /\ DOMAIN id2 = PlacesOf(new) /\ DOMAIN st2 = PlacesOf(new)
      /\ \A x \in PlacesOf(cont) : id1[x] = TokenAt(cont, x)[1] /\ st1[x] = TokenAt(cont, x)[2]
      /\ \A x \in PlacesOf(new) : id2[x] = TokenAt(new, x)[1] /\ st2[x] = TokenAt(new, x)[2]
  BY DEF IdsOf, NodesOf
<1>3. ASSUME NEW x \in PlacesOf(new)
      PROVE  x[1] \in H /\ x[2] \in Nat /\ x[2] \in 1..Len(new[x[1]]) /\ x = <<x[1], x[2]>>
  BY DEF PlacesOf, Holds
<1>4. ASSUME NEW x \in PlacesOf(new), Stays(x)
      PROVE  /\ orig[x] = old(x) /\ old(x) \in PlacesOf(cont)
             /\ TokenAt(new, x) = TokenAt(cont, old(x))
             /\ x[1] = t => old(x)[2] > n
  <2>1. Stayed(cont, new, t, n, drop, x)
    BY <1>0, <1>4, ShiftedPlaces
  <2> QED
    BY <1>4, <2>1 DEF Stayed
<1>5. ASSUME NEW x \in PlacesOf(new), ~Stays(x)
      PROVE  /\ push(x) \in PlacesOf(pushed) /\ orig[x] = <<t, from[push(x)]>>
             /\ from[push(x)] \in 1..n /\ <<t, from[push(x)]>> \in PlacesOf(cont)
             /\ TokenAt(new, x) = TokenAt(pushed, push(x))
  <2>1. Came(pushed, new, kept, x)
    BY <1>0, <1>5, ShiftedPlaces
  <2>2. push(x) \in PlacesOf(pushed) /\ TokenAt(new, x) = TokenAt(pushed, push(x))
    BY <2>1 DEF Came
  <2>3. from[push(x)] \in 1..n
    <3> HIDE DEF push
    <3> QED
      BY <2>2 DEF CopiesPushed
  <2>4. <<t, from[push(x)]>> \in PlacesOf(cont)
    <3>1. PICK j \in 1..n : j = from[push(x)]
      BY <2>3
    <3>2. j \in Nat /\ j \in 1..Len(cont[t])
      BY <1>1
    <3>3. t \in DOMAIN cont
      BY DEF Holds
    <3> QED
      BY <3>1, <3>2, <3>3 DEF PlacesOf
  <2> QED
    BY <1>5, <2>2, <2>3, <2>4
<1>6. orig \in [PlacesOf(new) -> PlacesOf(cont)]
  BY <1>4, <1>5
<1>7. ASSUME NEW x \in PlacesOf(new), Stays(x)
      PROVE  id2[x] = id1[orig[x]] /\ st2[x] = st1[orig[x]]
  <2>1. orig[x] = old(x) /\ old(x) \in PlacesOf(cont) /\ TokenAt(new, x) = TokenAt(cont, old(x))
    BY <1>4, <1>7
  <2> HIDE DEF id1, st1, id2, st2, orig, old, Stays
  <2> QED
    BY <1>2, <2>1
<1>8. ASSUME NEW x \in PlacesOf(new), ~Stays(x)
      PROVE  id2[x] = id1[orig[x]] /\ st2[x] \in ChildrenIn(m, st1[orig[x]])
  <2>1. /\ TokenAt(pushed, push(x))[1] = cont[t][from[push(x)]][1]
        /\ TokenAt(pushed, push(x))[2] \in ChildrenIn(m, cont[t][from[push(x)]][2])
    BY <1>5, <1>8 DEF CopiesPushed
  <2>2. TokenAt(cont, <<t, from[push(x)]>>) = cont[t][from[push(x)]]
    BY DEF TokenAt
  <2> HIDE DEF id1, st1, id2, st2, orig, push, Stays
  <2> QED
    BY <1>2, <1>5, <1>8, <2>1, <2>2, ZenonT(20)
<1>9. ASSUME NEW x \in PlacesOf(new), NEW y \in PlacesOf(new), x # y, Stays(x), orig[x] = orig[y]
      PROVE  FALSE
  <2>1. CASE Stays(y)
    <3>1. x[1] = y[1] /\ x[2] + drop[x[1]] = y[2] + drop[y[1]]
      BY <1>4, <1>9, <2>1
    <3>2. x[2] = y[2]
      <4>1. \A i \in Nat, j \in Nat, d \in Nat : i + d = j + d => i = j
        OBVIOUS
      <4>2. x[2] + drop[x[1]] = y[2] + drop[x[1]] /\ drop[x[1]] \in Nat
        BY <1>1, <1>3, <3>1
      <4> QED
        BY <1>3, <4>1, <4>2
    <3> QED
      BY <1>3, <1>9, <3>1, <3>2
  <2>2. CASE ~Stays(y)
    <3>1. old(x) = <<t, from[push(y)]>> /\ from[push(y)] \in 1..n
      BY <1>4, <1>5, <1>9, <2>2
    <3>2. x[1] = t /\ old(x)[2] \in 1..n
      BY <3>1
    <3> QED
      BY <1>4, <1>9, <3>2
  <2> QED
    BY <2>1, <2>2
<1>10. ASSUME NEW x \in PlacesOf(new), NEW y \in PlacesOf(new), x # y, ~Stays(x), ~Stays(y)
       PROVE  /\ push(x) # push(y)
              /\ x[1] = y[1] /\ push(x)[2] < push(y)[2] => x[2] < y[2]
  <2>1. x[1] \in H /\ y[1] \in H /\ x[2] \in Nat /\ y[2] \in Nat
    BY <1>3
  <2>2. kept[x[1]] \in Nat /\ kept[y[1]] \in Nat
    <3>1. kept[x[1]] \in Nat /\ kept[y[1]] \in Nat
      BY <1>1, <2>1
    <3>2. Len(cont[x[1]]) \in Nat /\ Len(cont[y[1]]) \in Nat
      BY <1>1, <2>1
    <3> QED
      BY <3>1, <3>2
  <2>3. x[1] = y[1] => kept[x[1]] = kept[y[1]]
    OBVIOUS
  <2>4. push(x)[1] = x[1] /\ push(y)[1] = y[1] /\ push(x)[2] = x[2] - kept[x[1]] /\ push(y)[2] = y[2] - kept[y[1]]
    OBVIOUS
  <2> HIDE DEF push
  <2>5. PICK i \in Nat, j \in Nat, k \in Nat, l \in Nat :
          i = x[2] /\ j = y[2] /\ k = kept[x[1]] /\ l = kept[y[1]]
    BY <2>1, <2>2
  <2>6. k = l => (i - k = j - l => i = j) /\ (i - k < j - l => i < j)
    OBVIOUS
  <2>7. push(x) = push(y) => x[1] = y[1] /\ x[2] = y[2]
    BY <2>3, <2>4, <2>5, <2>6
  <2>8. x[1] = y[1] /\ push(x)[2] < push(y)[2] => x[2] < y[2]
    BY <2>3, <2>4, <2>5, <2>6
  <2> QED
    BY <1>3, <1>10, <2>7, <2>8
<1>11. ASSUME NEW x \in PlacesOf(new), NEW y \in PlacesOf(new), x # y, orig[x] = orig[y]
       PROVE  /\ ~Stays(x) /\ ~Stays(y) /\ st2[x] # st2[y]
  <2>1. ~Stays(x) /\ ~Stays(y)
    BY <1>9, <1>11
  <2>2. from[push(x)] = from[push(y)]
    BY <1>5, <1>11, <2>1
  <2>3. TokenAt(pushed, push(x))[2] # TokenAt(pushed, push(y))[2]
    <3>1. push(x) # push(y) /\ push(x) \in PlacesOf(pushed) /\ push(y) \in PlacesOf(pushed)
      BY <1>5, <1>10, <1>11, <2>1
    <3> HIDE DEF push
    <3> QED
      BY <2>2, <3>1 DEF CopiesPushed
  <2>4. TokenAt(new, x) = TokenAt(pushed, push(x)) /\ TokenAt(new, y) = TokenAt(pushed, push(y))
    BY <1>5, <2>1
  <2> HIDE DEF id1, st1, id2, st2, push, Stays
  <2> QED
    BY <1>2, <2>1, <2>3, <2>4
<1>12. Moves(id1, st1, id2, st2, m, orig)
  <2> HIDE DEF id1, st1, id2, st2, orig, Stays
  <2> QED
    BY <1>2, <1>6, <1>7, <1>8, <1>11 DEF Moves
<1>13. /\ Placed(id1, st1, m, start) /\ Apart(id1, st1, m)
       /\ Ordered(id1, st1, m, start, before)
  BY DEF TokensOK, Holds
<1>14. ASSUME NEW x \in PlacesOf(new), ~Stays(x) PROVE st2[x] # st1[orig[x]]
  <2>1. orig[x] \in PlacesOf(cont)
    BY <1>6
  <2> HIDE DEF id1, st1, id2, st2, orig, Stays
  <2>2. /\ id1[orig[x]] \in DOMAIN start
        /\ st1[orig[x]] \in Descendants(m, start[id1[orig[x]]])
    BY <1>2, <1>13, <2>1 DEF Placed
  <2>3. Tree(m, start[id1[orig[x]]])
    BY <2>2 DEF Trees
  <2>4. st1[orig[x]] \notin Descendants(m, st2[x])
    BY <1>8, <1>14, <2>2, <2>3, TreeNoCycle DEF Tree
  <2> QED
    BY <2>4, DescendantsSelf
<1>15. InTurn(st1, st2, before, before, orig)
  <2> SUFFICES ASSUME NEW x \in PlacesOf(new), NEW y \in PlacesOf(new), x # y
               PROVE  /\ (st2[x] = st2[y] /\ st1[orig[x]] = st1[orig[y]] /\ <<orig[x], orig[y]>> \in before)
                            => <<x, y>> \in before
                      /\ (st2[x] = st1[orig[x]] /\ st2[y] # st1[orig[y]] /\ st1[orig[x]] = st1[orig[y]])
                            => <<orig[x], orig[y]>> \notin before
                      /\ (st2[x] = st1[orig[x]] /\ st2[y] # st1[orig[y]] /\ st2[x] = st2[y])
                            => <<x, y>> \in before
    <3> HIDE DEF id1, st1, st2, orig, before
    <3> QED
      BY <1>2 DEF InTurn
  <2>1. /\ x \in H \X Nat /\ y \in H \X Nat /\ orig[x] \in H \X Nat /\ orig[y] \in H \X Nat
    BY <1>3, <1>6 DEF PlacesOf, Holds
  <2>2. ASSUME NEW a \in H \X Nat, NEW b \in H \X Nat
        PROVE  <<a, b>> \in before <=> (a[1] = b[1] /\ a[2] < b[2]) \/ <<a[1], b[1]>> \in prior
    BY <2>2 DEF Before
  <2>3. \A p \in prior : p[1] # p[2] /\ pushed[p[1]] = <<>>
    BY DEF NonePrior
  <2>4. ASSUME NEW z \in PlacesOf(new), ~Stays(z)
        PROVE  /\ \A p \in prior : p[1] # z[1]
               /\ orig[z][1] = t /\ orig[z][2] = from[push(z)] /\ orig[z][2] \in 1..n
    <3>1. push(z) \in PlacesOf(pushed) /\ push(z)[1] = z[1]
      BY <1>5, <2>4
    <3>2. pushed[z[1]] # <<>>
      <4>1. push(z)[2] \in 1..Len(pushed[z[1]])
        BY <3>1 DEF PlacesOf
      <4> HIDE DEF push
      <4> QED
        BY <4>1
    <3> QED
      BY <1>5, <2>3, <2>4, <3>2
  <2>5. CASE Stays(x) /\ Stays(y)
    <3>1. orig[x] = old(x) /\ orig[y] = old(y) /\ st2[x] = st1[orig[x]] /\ st2[y] = st1[orig[y]]
      BY <1>4, <1>7, <2>5
    <3>2. x[1] = y[1] /\ old(x)[2] < old(y)[2] => x[2] < y[2]
      <4>1. PICK d \in Nat : d = drop[x[1]]
        BY <1>1, <1>3
      <4>2. PICK i \in Nat, j \in Nat : i = x[2] /\ j = y[2]
        BY <1>3
      <4>3. i + d < j + d => i < j
        OBVIOUS
      <4> QED
        BY <4>1, <4>2, <4>3
    <3>3. old(x)[1] = x[1] /\ old(y)[1] = y[1]
      OBVIOUS
    <3> HIDE DEF st1, st2, orig, old, before, Stays
    <3> QED
      BY <2>1, <2>2, <3>1, <3>2, <3>3, ZenonT(20)
  <2>6. CASE Stays(x) /\ ~Stays(y)
    <3>1. /\ orig[x] = old(x) /\ old(x)[1] = x[1] /\ (x[1] = t => old(x)[2] > n)
          /\ st2[x] = st1[orig[x]] /\ st2[y] # st1[orig[y]]
          /\ orig[y][1] = t /\ orig[y][2] \in 1..n
      BY <1>4, <1>7, <1>14, <2>4, <2>6
    <3>2. st1[orig[x]] = st1[orig[y]] => <<orig[x], orig[y]>> \notin before
      <4> SUFFICES ASSUME st1[orig[x]] = st1[orig[y]], <<orig[x], orig[y]>> \in before PROVE FALSE
        OBVIOUS
      <4>1. orig[x] \in PlacesOf(cont) /\ orig[y] \in PlacesOf(cont)
        BY <1>6
      <4> HIDE DEF st1, st2, orig, old, Stays
      <4>2. orig[x][1] # orig[y][1] \/ ~(orig[x][2] < orig[y][2])
        <5>1. PICK i \in Nat, j \in Nat : i = orig[x][2] /\ j = orig[y][2]
          BY <2>1
        <5>2. n \in Nat
          OBVIOUS
        <5>3. j <= n
          BY <3>1, <5>1, <5>2
        <5>4. x[1] = t => i > n
          BY <3>1, <5>1
        <5>5. x[1] = t => ~(i < j)
          BY <5>2, <5>3, <5>4
        <5> QED
          BY <3>1, <5>1, <5>5
      <4>3. <<x[1], t>> \in prior
        BY <2>1, <2>2, <3>1, <4>2
      <4>4. PICK p \in prior : p = <<x[1], t>>
        BY <4>3
      <4>5. orig[x][2] \in 1..Len(cont[x[1]])
        BY <3>1, <4>1 DEF PlacesOf
      <4>6. cont[x[1]][orig[x][2]][2] # cont[t][orig[y][2]][2]
        BY <3>1, <4>4, <4>5 DEF NonePrior
      <4>7. st1[orig[x]] = cont[x[1]][orig[x][2]][2] /\ st1[orig[y]] = cont[t][orig[y][2]][2]
        BY <1>2, <3>1, <4>1 DEF TokenAt
      <4> QED
        BY <4>6, <4>7
    <3>3. st2[x] = st2[y] => <<x, y>> \in before
      <4> SUFFICES ASSUME st2[x] = st2[y] PROVE <<x, y>> \in before
        OBVIOUS
      <4>1. TokenAt(new, x)[2] = TokenAt(new, y)[2]
        <5> HIDE DEF st2, Stays
        <5> QED
          BY <1>2
      <4>2. x[1] = y[1] \/ <<x[1], y[1]>> \in prior \/ <<y[1], x[1]>> \in prior
        BY <4>1 DEF Together
      <4>3. <<y[1], x[1]>> \notin prior
        BY <2>4, <2>6
      <4>4. x[1] = y[1] => x[2] < y[2]
        <5>1. x[2] <= kept[x[1]] /\ ~(y[2] <= kept[y[1]])
          BY <2>6
        <5>2. x[1] = y[1] => kept[x[1]] = kept[y[1]]
          OBVIOUS
        <5>3. kept[x[1]] \in Nat /\ Len(cont[x[1]]) \in Nat
          BY <1>1, <1>3
        <5>4. \A i \in Nat, j \in Nat, k \in Nat : i <= k /\ ~(j <= k) => i < j
          OBVIOUS
        <5>5. x[2] \in Nat /\ y[2] \in Nat
          BY <1>3
        <5> QED
          BY <5>1, <5>2, <5>3, <5>4, <5>5
      <4> HIDE DEF before
      <4> QED
        BY <2>1, <2>2, <4>2, <4>3, <4>4
    <3>4. st2[x] = st2[y] => st1[orig[x]] # st1[orig[y]] \/ <<orig[x], orig[y]>> \notin before
      BY <3>2
    <3> HIDE DEF st1, st2, orig, old, before, Stays
    <3> QED
      BY <3>1, <3>2, <3>3
  <2>7. CASE ~Stays(x) /\ Stays(y)
    <3>1. /\ st2[y] = st1[orig[y]] /\ st2[x] # st1[orig[x]]
      BY <1>7, <1>14, <2>7
    <3> HIDE DEF st1, st2, orig, old, before, Stays
    <3> QED
      BY <3>1
  <2>8. CASE ~Stays(x) /\ ~Stays(y)
    <3>1. /\ orig[x][1] = t /\ orig[y][1] = t /\ orig[x][2] = from[push(x)] /\ orig[y][2] = from[push(y)]
          /\ st2[x] # st1[orig[x]] /\ \A p \in prior : p[1] # x[1] /\ p[1] # y[1]
      BY <1>14, <2>4, <2>8
    <3>2. ASSUME st2[x] = st2[y], <<orig[x], orig[y]>> \in before PROVE <<x, y>> \in before
      <4>1. orig[x][2] < orig[y][2]
        <5>1. <<t, t>> \notin prior
          BY <2>3
        <5> HIDE DEF st1, st2, orig, before, Stays, push
        <5> QED
          BY <2>1, <2>2, <3>1, <3>2, <5>1
      <4>2. TokenAt(new, x)[2] = TokenAt(new, y)[2]
        <5> HIDE DEF st2, Stays
        <5> QED
          BY <1>2, <3>2
      <4>3. x[1] = y[1]
        BY <3>1, <4>2 DEF Together
      <4>4. push(x)[1] = push(y)[1] /\ push(x) \in PlacesOf(pushed) /\ push(y) \in PlacesOf(pushed)
        BY <1>5, <2>8, <4>3
      <4>5. push(x)[2] < push(y)[2]
        <5> HIDE DEF orig, push, Stays
        <5> QED
          BY <3>1, <4>1, <4>4 DEF CopiesPushed
      <4>6. x[2] < y[2]
        BY <1>10, <2>8, <4>3, <4>5
      <4> HIDE DEF before
      <4> QED
        BY <2>1, <2>2, <4>3, <4>6
    <3> HIDE DEF st1, st2, orig, old, before, Stays
    <3> QED
      BY <3>1, <3>2
  <2> QED
    BY <2>5, <2>6, <2>7, <2>8
<1>16. DOMAIN st2 = DOMAIN id2 /\ \A x \in DOMAIN id2 : id2[x] \in Nat
  <2> SUFFICES ASSUME NEW x \in PlacesOf(new) PROVE TokenAt(new, x)[1] \in Nat
    BY <1>2
  <2>1. new[x[1]] \in Seq(Nat \X S) /\ x[2] \in 1..Len(new[x[1]])
    BY <1>3 DEF Holds
  <2>2. TokenAt(new, x) \in Nat \X S
    BY <2>1 DEF TokenAt
  <2> QED
    BY <2>2
<1>17. DOMAIN cont = H /\ DOMAIN new = H
  BY DEF Holds
<1> HIDE DEF id1, st1, id2, st2, orig, before
<1>18. Placed(id2, st2, m, start)
  BY <1>12, <1>13, MovesPlaced
<1>19. Apart(id2, st2, m)
  BY <1>12, <1>13, MovesApart
<1>20. Ordered(id2, st2, m, start, before)
  BY <1>12, <1>13, <1>15, <1>16, MovesOrdered
<1> QED
  BY <1>17, <1>18, <1>19, <1>20 DEF TokensOK, id2, st2, before

(* The first token of t goes to the end of a holder prior to t, at the     *)
(* same node.                                                              *)
LEMMA StayOne ==
  ASSUME NEW S, NEW H, NEW cont, Holds(cont, H, S), NEW new, Holds(new, H, S),
         NEW pushed, Holds(pushed, H, S),
         NEW m, NEW start, Trees(m, start), NEW prior,
         NEW t \in H, Len(cont[t]) >= 1, NEW h \in H, h # t, <<h, t>> \in prior,
         \A p \in prior, q \in prior : p[2] # q[1],
         pushed[h] = <<cont[t][1]>>, \A c \in H : c # h => pushed[c] = <<>>,
         Shifted(cont, pushed, new, t, 1), Together(new, prior),
         TokensOK(cont, m, start, prior)
  PROVE  TokensOK(new, m, start, prior)
<1>1. PICK kept \in [H -> Nat], drop \in [H -> Nat] : Counts(cont, pushed, new, t, 1, kept, drop)
  BY ShiftedCounts
<1> DEFINE Stays(x) == x[2] <= kept[x[1]]
           old(x) == <<x[1], x[2] + drop[x[1]]>>
           orig == [x \in PlacesOf(new) |-> IF Stays(x) THEN old(x) ELSE <<t, 1>>]
           id1 == IdsOf(cont)
           st1 == NodesOf(cont)
           id2 == IdsOf(new)
           st2 == NodesOf(new)
           before == Before(H, prior)
<1>2. /\ DOMAIN id1 = PlacesOf(cont) /\ DOMAIN st1 = PlacesOf(cont)
      /\ DOMAIN id2 = PlacesOf(new) /\ DOMAIN st2 = PlacesOf(new)
      /\ \A x \in PlacesOf(cont) : id1[x] = TokenAt(cont, x)[1] /\ st1[x] = TokenAt(cont, x)[2]
      /\ \A x \in PlacesOf(new) : id2[x] = TokenAt(new, x)[1] /\ st2[x] = TokenAt(new, x)[2]
  BY DEF IdsOf, NodesOf
<1>3. ASSUME NEW x \in PlacesOf(new)
      PROVE  x[1] \in H /\ x[2] \in Nat /\ x[2] \in 1..Len(new[x[1]]) /\ x = <<x[1], x[2]>>
  BY DEF PlacesOf, Holds
<1>4. ASSUME NEW x \in PlacesOf(new), Stays(x)
      PROVE  /\ orig[x] = old(x) /\ old(x) \in PlacesOf(cont)
             /\ TokenAt(new, x) = TokenAt(cont, old(x))
             /\ x[1] = t => old(x)[2] > 1
  <2>1. Stayed(cont, new, t, 1, drop, x)
    BY <1>1, <1>4, ShiftedPlaces
  <2> QED
    BY <1>4, <2>1 DEF Stayed
<1>5. <<t, 1>> \in PlacesOf(cont) /\ TokenAt(cont, <<t, 1>>) = cont[t][1]
  <2>1. t \in DOMAIN cont /\ Len(cont[t]) \in Nat
    BY DEF Holds
  <2> QED
    BY <2>1 DEF PlacesOf, TokenAt
<1>6. ASSUME NEW x \in PlacesOf(new), ~Stays(x)
      PROVE  /\ orig[x] = <<t, 1>> /\ TokenAt(new, x) = TokenAt(cont, <<t, 1>>)
             /\ x[1] = h /\ x[2] - kept[h] = 1
  <2> DEFINE push == <<x[1], x[2] - kept[x[1]]>>
  <2>1. Came(pushed, new, kept, x)
    BY <1>1, <1>6, ShiftedPlaces
  <2>2. push \in PlacesOf(pushed) /\ TokenAt(new, x) = TokenAt(pushed, push)
    BY <2>1 DEF Came
  <2>3. push[2] \in 1..Len(pushed[x[1]])
    BY <2>2 DEF PlacesOf
  <2>4. x[1] = h
    <3>1. Len(pushed[x[1]]) # 0
      BY <2>3
    <3> QED
      BY <1>3, <3>1
  <2>5. x[2] - kept[h] = 1
    <3>1. Len(pushed[h]) = 1 /\ push[2] = x[2] - kept[h]
      BY <2>4
    <3>2. push[2] \in 1..1
      BY <2>3, <2>4, <3>1
    <3> QED
      BY <3>1, <3>2
  <2> QED
    BY <1>5, <1>6, <2>2, <2>4, <2>5 DEF TokenAt
<1>7. orig \in [PlacesOf(new) -> PlacesOf(cont)]
  BY <1>4, <1>5, <1>6
<1>8. ASSUME NEW x \in PlacesOf(new) PROVE id2[x] = id1[orig[x]] /\ st2[x] = st1[orig[x]]
  <2>1. TokenAt(new, x) = TokenAt(cont, orig[x]) /\ orig[x] \in PlacesOf(cont)
    BY <1>4, <1>5, <1>6
  <2> HIDE DEF id1, st1, id2, st2, orig, Stays
  <2> QED
    BY <1>2, <2>1
<1>9. kept[h] \in Nat /\ \A c \in H : drop[c] \in Nat
  OBVIOUS
<1>10. ASSUME NEW x \in PlacesOf(new), NEW y \in PlacesOf(new), orig[x] = orig[y]
      PROVE  x = y
  <2>1. \A i \in Nat, j \in Nat, d \in Nat : i + d = j + d => i = j
    OBVIOUS
  <2>2. \A i \in Nat, j \in Nat, d \in Nat : i - d = 1 /\ j - d = 1 => i = j
    OBVIOUS
  <2>3. CASE Stays(x) /\ Stays(y)
    <3>1. x[1] = y[1] /\ x[2] + drop[x[1]] = y[2] + drop[x[1]]
      BY <1>4, <1>10, <2>3
    <3> QED
      BY <1>3, <1>9, <2>1, <3>1
  <2>4. CASE ~Stays(x) /\ ~Stays(y)
    <3>1. x[1] = y[1] /\ x[2] - kept[h] = 1 /\ y[2] - kept[h] = 1
      BY <1>6, <2>4
    <3>2. x[2] \in Nat /\ y[2] \in Nat
      BY <1>3
    <3>3. x[2] = y[2]
      BY <1>9, <2>2, <3>1, <3>2
    <3> QED
      BY <1>3, <3>1, <3>3
  <2>5. ASSUME NEW v \in PlacesOf(new), NEW w \in PlacesOf(new), Stays(v), ~Stays(w), orig[v] = orig[w]
        PROVE  FALSE
    <3>1. old(v) = <<t, 1>> /\ (v[1] = t => old(v)[2] > 1)
      BY <1>4, <1>6, <2>5
    <3>2. v[1] = t /\ old(v)[2] = 1
      BY <3>1
    <3> QED
      BY <3>1, <3>2
  <2> HIDE DEF Stays, orig
  <2> QED
    BY <1>10, <2>3, <2>4, <2>5
<1>11. Moves(id1, st1, id2, st2, m, orig)
  <2> HIDE DEF id1, st1, id2, st2, orig
  <2> QED
    BY <1>2, <1>7, <1>8, <1>10 DEF Moves
<1>12. /\ Placed(id1, st1, m, start) /\ Apart(id1, st1, m)
       /\ Ordered(id1, st1, m, start, before)
  BY DEF TokensOK, Holds
<1>13. InTurn(st1, st2, before, before, orig)
  <2> SUFFICES ASSUME NEW x \in PlacesOf(new), NEW y \in PlacesOf(new), x # y,
                      st2[x] = st2[y], <<orig[x], orig[y]>> \in before
               PROVE  <<x, y>> \in before
    <3> HIDE DEF id1, st1, id2, st2, orig, before
    <3> QED
      BY <1>2, <1>8 DEF InTurn
  <2>1. /\ x \in H \X Nat /\ y \in H \X Nat /\ orig[x] \in H \X Nat /\ orig[y] \in H \X Nat
    BY <1>3, <1>7 DEF PlacesOf, Holds
  <2>2. ASSUME NEW a \in H \X Nat, NEW b \in H \X Nat
        PROVE  <<a, b>> \in before <=> (a[1] = b[1] /\ a[2] < b[2]) \/ <<a[1], b[1]>> \in prior
    BY <2>2 DEF Before
  <2>3. x[1] \in H /\ y[1] \in H /\ x[2] \in Nat /\ y[2] \in Nat
    BY <1>3
  <2>4. \/ orig[x][1] = orig[y][1] /\ orig[x][2] < orig[y][2]
        \/ <<orig[x][1], orig[y][1]>> \in prior
    <3> HIDE DEF orig, before
    <3> QED
      BY <2>1, <2>2
  <2>5. CASE Stays(x) /\ Stays(y)
    <3>1. orig[x] = <<x[1], x[2] + drop[x[1]]>> /\ orig[y] = <<y[1], y[2] + drop[y[1]]>>
      BY <1>4, <2>5
    <3>2. \A i \in Nat, j \in Nat, d \in Nat : i + d < j + d => i < j
      OBVIOUS
    <3>3. x[1] = y[1] /\ orig[x][2] < orig[y][2] => x[2] < y[2]
      BY <1>9, <2>3, <3>1, <3>2
    <3>4. orig[x][1] = x[1] /\ orig[y][1] = y[1]
      BY <3>1
    <3>5. (x[1] = y[1] /\ x[2] < y[2]) \/ <<x[1], y[1]>> \in prior
      BY <2>4, <3>3, <3>4
    <3> HIDE DEF orig, before
    <3> QED
      BY <2>1, <2>2, <3>5
  <2>6. CASE Stays(x) /\ ~Stays(y)
    <3>1. /\ orig[x] = <<x[1], x[2] + drop[x[1]]>> /\ orig[y] = <<t, 1>> /\ y[1] = h
          /\ (x[1] = t => x[2] + drop[x[1]] > 1) /\ y[2] - kept[h] = 1 /\ x[2] <= kept[x[1]]
      BY <1>4, <1>6, <2>6
    <3>2. x[1] = t => ~(x[2] + drop[x[1]] < 1)
      <4>1. \A i \in Nat, d \in Nat : i + d > 1 => ~(i + d < 1)
        OBVIOUS
      <4> QED
        BY <1>9, <2>3, <3>1, <4>1
    <3>3. <<x[1], t>> \in prior
      BY <2>4, <3>1, <3>2
    <3>4. TokenAt(new, x)[2] = TokenAt(new, y)[2]
      <4> HIDE DEF st2, orig, before, Stays
      <4> QED
        BY <1>2
    <3>5. x[1] = h \/ <<x[1], h>> \in prior \/ <<h, x[1]>> \in prior
      BY <3>1, <3>4 DEF Together
    <3>6. x[1] = h
      BY <3>3, <3>5
    <3>7. x[2] < y[2]
      <4>1. \A i \in Nat, j \in Nat, k \in Nat : i <= k /\ j - k = 1 => i < j
        OBVIOUS
      <4> QED
        BY <1>9, <2>3, <3>1, <3>6, <4>1
    <3> HIDE DEF before
    <3> QED
      BY <2>1, <2>2, <3>1, <3>6, <3>7
  <2>7. CASE ~Stays(x) /\ Stays(y)
    <3>1. orig[x] = <<t, 1>> /\ orig[y] = <<y[1], y[2] + drop[y[1]]>> /\ x[1] = h
      BY <1>4, <1>6, <2>7
    <3>2. <<t, y[1]>> \notin prior
      OBVIOUS
    <3>3. y[1] = t
      BY <2>4, <3>1, <3>2
    <3> HIDE DEF before
    <3> QED
      BY <2>1, <2>2, <3>1, <3>3
  <2>8. CASE ~Stays(x) /\ ~Stays(y)
    <3>1. orig[x] = orig[y]
      BY <1>6, <2>8
    <3> QED
      BY <1>10, <3>1
  <2> QED
    BY <2>5, <2>6, <2>7, <2>8
<1>14. DOMAIN st2 = DOMAIN id2 /\ \A x \in DOMAIN id2 : id2[x] \in Nat
  <2> SUFFICES ASSUME NEW x \in PlacesOf(new) PROVE TokenAt(new, x)[1] \in Nat
    BY <1>2
  <2>1. new[x[1]] \in Seq(Nat \X S) /\ x[2] \in 1..Len(new[x[1]])
    BY <1>3 DEF Holds
  <2>2. TokenAt(new, x) \in Nat \X S
    BY <2>1 DEF TokenAt
  <2> QED
    BY <2>2
<1>15. DOMAIN cont = H /\ DOMAIN new = H
  BY DEF Holds
<1> HIDE DEF id1, st1, id2, st2, orig, before
<1>16. Placed(id2, st2, m, start)
  BY <1>11, <1>12, MovesPlaced
<1>17. Apart(id2, st2, m)
  BY <1>11, <1>12, MovesApart
<1>18. Ordered(id2, st2, m, start, before)
  BY <1>11, <1>12, <1>13, <1>14, MovesOrdered
<1> QED
  BY <1>15, <1>16, <1>17, <1>18 DEF TokensOK, id2, st2, before

Started(start, start2, i0) ==
  /\ DOMAIN start2 = (DOMAIN start) \cup {i0}
  /\ \A i \in DOMAIN start : start2[i] = start[i] /\ i \in Nat /\ i < i0

(* A token with a higher number than all others starts at the end of a     *)
(* holder.                                                                 *)
LEMMA NewOne ==
  ASSUME NEW S, NEW H, NEW cont, Holds(cont, H, S), NEW new, Holds(new, H, S),
         NEW pushed, Holds(pushed, H, S),
         NEW m, NEW start, NEW start2, NEW i0 \in Nat, NEW prior, Trees(m, start2),
         Started(start, start2, i0),
         NEW h \in H, \A p \in prior : p[1] # h,
         pushed[h] = << <<i0, start2[i0]>> >>, \A c \in H : c # h => pushed[c] = <<>>,
         Shifted(cont, pushed, new, h, 0), Together(new, prior),
         TokensOK(cont, m, start, prior)
  PROVE  TokensOK(new, m, start2, prior)
<1> USE DEF Started
<1>1. PICK kept \in [H -> Nat], drop \in [H -> Nat] : Counts(cont, pushed, new, h, 0, kept, drop)
  BY ShiftedCounts
<1> DEFINE Old(x) == x \in PlacesOf(cont) /\ x[2] <= kept[x[1]]
           id1 == IdsOf(cont)
           st1 == NodesOf(cont)
           id2 == IdsOf(new)
           st2 == NodesOf(new)
           before == Before(H, prior)
<1>2. /\ DOMAIN id1 = PlacesOf(cont) /\ DOMAIN st1 = PlacesOf(cont)
      /\ DOMAIN id2 = PlacesOf(new) /\ DOMAIN st2 = PlacesOf(new)
      /\ \A x \in PlacesOf(cont) : id1[x] = TokenAt(cont, x)[1] /\ st1[x] = TokenAt(cont, x)[2]
      /\ \A x \in PlacesOf(new) : id2[x] = TokenAt(new, x)[1] /\ st2[x] = TokenAt(new, x)[2]
  BY DEF IdsOf, NodesOf
<1>3. ASSUME NEW x \in PlacesOf(new)
      PROVE  x[1] \in H /\ x[2] \in Nat /\ x[2] \in 1..Len(new[x[1]]) /\ x = <<x[1], x[2]>>
  BY DEF PlacesOf, Holds
<1>4. ASSUME NEW x \in PlacesOf(new), x[2] <= kept[x[1]]
      PROVE  x \in PlacesOf(cont) /\ id2[x] = id1[x] /\ st2[x] = st1[x]
  <2>1. Stayed(cont, new, h, 0, drop, x)
    BY <1>1, <1>4, ShiftedPlaces
  <2>2. drop[x[1]] = 0
    BY <1>1, <1>3 DEF Counts, Holds
  <2>3. x \in PlacesOf(cont) /\ TokenAt(new, x) = TokenAt(cont, x)
    <3>1. x[2] + drop[x[1]] = x[2]
      BY <1>3, <2>2
    <3>2. <<x[1], x[2] + drop[x[1]]>> = x
      BY <1>3, <3>1
    <3> QED
      BY <2>1, <3>2 DEF Stayed
  <2> HIDE DEF id1, st1, id2, st2
  <2> QED
    BY <1>2, <2>3
<1>5. ASSUME NEW x \in PlacesOf(new), ~(x[2] <= kept[x[1]])
      PROVE  /\ id2[x] = i0 /\ st2[x] = start2[i0]
             /\ x[1] = h /\ x[2] - kept[h] = 1
  <2> DEFINE push == <<x[1], x[2] - kept[x[1]]>>
  <2>1. Came(pushed, new, kept, x)
    BY <1>1, <1>5, ShiftedPlaces
  <2>2. push \in PlacesOf(pushed) /\ TokenAt(new, x) = TokenAt(pushed, push)
    BY <2>1 DEF Came
  <2>3. push[2] \in 1..Len(pushed[x[1]])
    BY <2>2 DEF PlacesOf
  <2>4. x[1] = h
    <3>1. Len(pushed[x[1]]) # 0
      BY <2>3
    <3> QED
      BY <1>3, <3>1
  <2>5. x[2] - kept[h] = 1
    <3>1. Len(pushed[h]) = 1 /\ push[2] = x[2] - kept[h]
      BY <2>4
    <3>2. push[2] \in 1..1
      BY <2>3, <2>4, <3>1
    <3> QED
      BY <3>1, <3>2
  <2>6. TokenAt(new, x) = <<i0, start2[i0]>>
    BY <2>2, <2>4, <2>5 DEF TokenAt
  <2> HIDE DEF id1, st1, id2, st2
  <2>7. id2[x] = TokenAt(new, x)[1] /\ st2[x] = TokenAt(new, x)[2]
    BY <1>2
  <2> QED
    BY <2>4, <2>5, <2>6, <2>7
<1>6. ASSUME NEW x \in PlacesOf(new), NEW y \in PlacesOf(new),
             ~(x[2] <= kept[x[1]]), ~(y[2] <= kept[y[1]])
      PROVE  x = y
  <2>1. x[1] = y[1] /\ x[2] - kept[h] = 1 /\ y[2] - kept[h] = 1
    BY <1>5, <1>6
  <2>2. \A i \in Nat, j \in Nat, d \in Nat : i - d = 1 /\ j - d = 1 => i = j
    OBVIOUS
  <2>3. x[2] = y[2]
    BY <1>3, <2>1, <2>2
  <2> QED
    BY <1>3, <2>1, <2>3
<1>7. /\ Placed(id1, st1, m, start) /\ Apart(id1, st1, m)
      /\ Ordered(id1, st1, m, start, before)
  BY DEF TokensOK, Holds
<1>8. ASSUME NEW x \in PlacesOf(cont)
      PROVE  /\ id1[x] \in DOMAIN start /\ id1[x] \in Nat /\ id1[x] < i0 /\ id1[x] # i0
             /\ start2[id1[x]] = start[id1[x]] /\ st1[x] \in Descendants(m, start2[id1[x]])
  <2> HIDE DEF id1, st1
  <2>1. id1[x] \in DOMAIN start /\ st1[x] \in Descendants(m, start[id1[x]])
    BY <1>2, <1>7 DEF Placed
  <2>2. start2[id1[x]] = start[id1[x]] /\ id1[x] \in Nat /\ id1[x] < i0
    BY <2>1
  <2> QED
    BY <2>1, <2>2
<1> HIDE DEF id1, st1, id2, st2, before
<1>9. Placed(id2, st2, m, start2)
  <2> SUFFICES ASSUME NEW x \in PlacesOf(new)
               PROVE  id2[x] \in DOMAIN start2 /\ st2[x] \in Descendants(m, start2[id2[x]])
    BY <1>2 DEF Placed
  <2>1. CASE x[2] <= kept[x[1]]
    BY <1>4, <1>8, <2>1
  <2>2. CASE ~(x[2] <= kept[x[1]])
    BY <1>5, <2>2, DescendantsSelf
  <2> QED
    BY <2>1, <2>2
<1>10. Apart(id2, st2, m)
  <2> SUFFICES ASSUME NEW x \in PlacesOf(new), NEW y \in PlacesOf(new), id2[x] = id2[y], x # y
               PROVE  Descendants(m, st2[x]) \cap Descendants(m, st2[y]) = {}
    BY <1>2 DEF Apart
  <2>1. CASE x[2] <= kept[x[1]] /\ y[2] <= kept[y[1]]
    BY <1>2, <1>4, <1>7, <2>1 DEF Apart
  <2>2. CASE ~(x[2] <= kept[x[1]]) /\ y[2] <= kept[y[1]]
    BY <1>4, <1>5, <1>8, <2>2
  <2>3. CASE x[2] <= kept[x[1]] /\ ~(y[2] <= kept[y[1]])
    BY <1>4, <1>5, <1>8, <2>3
  <2>4. CASE ~(x[2] <= kept[x[1]]) /\ ~(y[2] <= kept[y[1]])
    BY <1>6, <2>4
  <2> QED
    BY <2>1, <2>2, <2>3, <2>4
<1>11. Ordered(id2, st2, m, start2, before)
  <2> SUFFICES ASSUME NEW x \in PlacesOf(new), NEW y \in PlacesOf(new), id2[x] < id2[y],
                      start2[id2[x]] = start2[id2[y]]
               PROVE  /\ st2[y] \in Descendants(m, st2[x]) => st2[y] = st2[x]
                      /\ st2[y] = st2[x] => <<x, y>> \in before
    BY <1>2 DEF Ordered
  <2>1. CASE x[2] <= kept[x[1]] /\ y[2] <= kept[y[1]]
    <3>1. /\ x \in PlacesOf(cont) /\ y \in PlacesOf(cont) /\ id1[x] < id1[y]
          /\ start[id1[x]] = start[id1[y]]
          /\ st2[x] = st1[x] /\ st2[y] = st1[y]
      BY <1>4, <1>8, <2>1
    <3> QED
      BY <1>2, <1>7, <3>1 DEF Ordered
  <2>2. CASE ~(x[2] <= kept[x[1]]) /\ y[2] <= kept[y[1]]
    <3>1. id2[x] = i0 /\ id2[y] \in Nat /\ id2[y] < i0
      BY <1>4, <1>5, <1>8, <2>2
    <3> QED
      BY <3>1
  <2>3. CASE x[2] <= kept[x[1]] /\ ~(y[2] <= kept[y[1]])
    <3>1. /\ id2[y] = i0 /\ st2[y] = start2[i0] /\ y[1] = h /\ y[2] - kept[h] = 1
          /\ st2[x] \in Descendants(m, start2[i0])
      BY <1>4, <1>5, <1>8, <2>3
    <3>2. Tree(m, start2[i0])
      BY DEF Trees
    <3>3. st2[y] \in Descendants(m, st2[x]) => st2[y] = st2[x]
      <4> SUFFICES ASSUME start2[i0] \in Descendants(m, st2[x]), start2[i0] # st2[x] PROVE FALSE
        BY <3>1
      <4>1. PICK k \in Descendants(m, st2[x]) : start2[i0] \in ChildrenIn(m, k)
        BY DescendantsParent
      <4>2. k \in Descendants(m, start2[i0])
        BY <3>1, <4>1, DescendantsBelow
      <4> QED
        BY <3>2, <4>1, <4>2 DEF Tree
    <3>4. ASSUME st2[y] = st2[x] PROVE <<x, y>> \in before
      <4>1. TokenAt(new, x)[2] = TokenAt(new, y)[2]
        BY <1>2, <3>4
      <4>2. x[1] = h \/ <<x[1], h>> \in prior \/ <<h, x[1]>> \in prior
        BY <3>1, <4>1 DEF Together
      <4>3. <<h, x[1]>> \notin prior
        OBVIOUS
      <4>4. x[1] = h => x[2] < y[2]
        <5>1. \A i \in Nat, j \in Nat, k \in Nat : i <= k /\ j - k = 1 => i < j
          OBVIOUS
        <5>2. x[2] \in Nat /\ y[2] \in Nat /\ kept[h] \in Nat
          BY <1>3
        <5> QED
          BY <2>3, <3>1, <5>1, <5>2
      <4>5. x \in H \X Nat /\ y \in H \X Nat
        BY <1>3
      <4>6. (x[1] = y[1] /\ x[2] < y[2]) \/ <<x[1], y[1]>> \in prior
        BY <3>1, <4>2, <4>3, <4>4
      <4> QED
        BY <4>5, <4>6 DEF before, Before
    <3> QED
      BY <3>3, <3>4
  <2>4. CASE ~(x[2] <= kept[x[1]]) /\ ~(y[2] <= kept[y[1]])
    <3>1. id2[x] = i0 /\ id2[y] = i0
      BY <1>5, <2>4
    <3> QED
      BY <3>1
  <2> QED
    BY <2>1, <2>2, <2>3, <2>4
<1>12. DOMAIN cont = H /\ DOMAIN new = H
  BY DEF Holds
<1> QED
  BY <1>9, <1>10, <1>11, <1>12 DEF TokensOK, id2, st2, before

-----------------------------------------------------------------------------
(* What a holder has after a step: without the first n, with what came, as *)
(* far as it has place.                                                    *)
Shift(s, p, s2, n) ==
  LET kept == Len(s) - n
  IN  /\ Len(s2) <= kept + Len(p)
      /\ \A i \in 1..Len(s2) : s2[i] = IF i <= kept THEN s[i + n] ELSE p[i - kept]

(* The sequence t is s, with F of each element.                            *)
IsMap(F, s, t) == Len(t) = Len(s) /\ \A i \in 1..Len(s) : t[i] = F[s[i]]

LEMMA ShiftMap ==
  ASSUME NEW S, NEW s \in Seq(S), NEW p \in Seq(S), NEW s2 \in Seq(S), NEW n \in Nat, n <= Len(s),
         Shift(s, p, s2, n), NEW F, NEW t, IsMap(F, s, t), NEW u, IsMap(F, p, u), NEW t2, IsMap(F, s2, t2)
  PROVE  Shift(t, u, t2, n)
<1> USE DEF IsMap
<1>1. Len(s) \in Nat /\ Len(p) \in Nat /\ Len(s2) \in Nat
  BY LenProperties
<1>2. \A a \in Nat : n <= a => \E k \in Nat : a = k + n /\ a - n = k
  <2>1. ASSUME NEW a \in Nat, n <= a PROVE \E k \in Nat : a = k + n /\ a - n = k
    <3>1. a - n \in Nat /\ a = (a - n) + n
      BY <2>1
    <3> QED
      BY <3>1
  <2> QED
    BY <2>1
<1>3. PICK kept \in Nat : Len(s) = kept + n /\ Len(s) - n = kept
  BY <1>1, <1>2
<1>4. Len(s2) <= kept + Len(p) /\ \A i \in 1..Len(s2) : s2[i] = IF i <= kept THEN s[i + n] ELSE p[i - kept]
  BY <1>3 DEF Shift
<1>5. \A a \in Nat, b \in Nat, k \in Nat : \A i \in 1..a :
        /\ i <= k => i + n \in 1..(k + n)
        /\ ~(i <= k) /\ a <= k + b => i - k \in 1..b
  OBVIOUS
<1>6. ASSUME NEW i \in 1..Len(s2)
      PROVE  t2[i] = IF i <= kept THEN t[i + n] ELSE u[i - kept]
  <2>1. CASE i <= kept
    <3>1. i + n \in 1..Len(s)
      BY <1>1, <1>3, <1>5, <2>1
    <3>2. t2[i] = F[s[i + n]]
      BY <1>4, <2>1
    <3> QED
      BY <3>1, <3>2, <2>1
  <2>2. CASE ~(i <= kept)
    <3>1. i - kept \in 1..Len(p)
      BY <1>1, <1>4, <1>5, <2>2
    <3>2. t2[i] = F[p[i - kept]]
      BY <1>4, <2>2
    <3> QED
      BY <3>1, <3>2, <2>2
  <2> QED
    BY <2>1, <2>2
<1> QED
  BY <1>3, <1>4, <1>6 DEF Shift

(* What comes when a queue is full is thrown away.                         *)
CutTo(u, most) == IF Len(u) <= most THEN u ELSE SubSeq(u, 1, most)

LEMMA CutShift ==
  ASSUME NEW S, NEW most \in Nat \ {0}, NEW s \in Seq(S), NEW p \in Seq(S)
  PROVE  /\ Shift(s, p, CutTo(s \o p, most), 0)
         /\ s # <<>> => Shift(s, p, CutTo(Tail(s) \o p, most), 1)
         /\ \A u \in Seq(S) : CutTo(u, most) \in Seq(S) /\ Len(CutTo(u, most)) <= most
<1>1. most \in Nat \ {0}
  OBVIOUS
<1>2. ASSUME NEW u \in Seq(S)
      PROVE  /\ CutTo(u, most) \in Seq(S) /\ Len(CutTo(u, most)) <= most
             /\ Len(CutTo(u, most)) <= Len(u) /\ \A i \in 1..Len(CutTo(u, most)) : CutTo(u, most)[i] = u[i]
  <2>1. CASE Len(u) <= most
    BY <2>1 DEF CutTo
  <2>2. CASE ~(Len(u) <= most)
    <3>1. Len(u) \in Nat
      BY LenProperties
    <3>2. 1 \in 1..(Len(u) + 1) /\ most \in 1-1..Len(u)
      BY <1>1, <2>2, <3>1
    <3>3. CutTo(u, most) = SubSeq(u, 1, most)
      BY <2>2 DEF CutTo
    <3>4. /\ CutTo(u, most) \in Seq(S) /\ Len(CutTo(u, most)) = most
          /\ \A i \in 1..most : CutTo(u, most)[i] = u[i]
      BY <1>1, <2>2, <3>1, <3>3
    <3> QED
      BY <1>1, <2>2, <3>1, <3>4
  <2> QED
    BY <2>1, <2>2
<1>3. Len(s) \in Nat /\ Len(p) \in Nat
  BY LenProperties
<1>4. Shift(s, p, CutTo(s \o p, most), 0)
  <2>1. s \o p \in Seq(S) /\ Len(s \o p) = Len(s) + Len(p)
    BY ConcatProperties
  <2>2. \A i \in 1..(Len(s) + Len(p)) : (s \o p)[i] = IF i <= Len(s) THEN s[i] ELSE p[i - Len(s)]
    BY ConcatProperties
  <2> DEFINE u == CutTo(s \o p, most)
  <2>3. /\ Len(u) \in Nat /\ Len(u) <= Len(s) + Len(p)
        /\ \A i \in 1..Len(u) : u[i] = (s \o p)[i]
    BY <1>2, <2>1, LenProperties
  <2> HIDE DEF u
  <2>4. \A i \in 1..Len(u) : i \in 1..(Len(s) + Len(p)) /\ i + 0 = i
    BY <1>3, <2>3
  <2>5. \A i \in 1..Len(u) : u[i] = IF i <= Len(s) THEN s[i + 0] ELSE p[i - Len(s)]
    BY <2>2, <2>3, <2>4
  <2>6. Len(s) - 0 = Len(s)
    BY <1>3
  <2> QED
    BY <2>3, <2>5, <2>6 DEF Shift, u
<1>5. ASSUME s # <<>> PROVE Shift(s, p, CutTo(Tail(s) \o p, most), 1)
  <2>1. /\ Tail(s) \in Seq(S) /\ Len(Tail(s)) = Len(s) - 1 /\ Len(s) - 1 \in Nat
        /\ \A i \in 1..Len(Tail(s)) : Tail(s)[i] = s[i + 1]
    BY <1>3, <1>5, HeadTailProperties, EmptySeq
  <2>2. Tail(s) \o p \in Seq(S) /\ Len(Tail(s) \o p) = (Len(s) - 1) + Len(p)
    BY <2>1, ConcatProperties
  <2>3. \A i \in 1..((Len(s) - 1) + Len(p)) :
          (Tail(s) \o p)[i] = IF i <= Len(s) - 1 THEN Tail(s)[i] ELSE p[i - (Len(s) - 1)]
    BY <2>1, ConcatProperties
  <2> DEFINE u == CutTo(Tail(s) \o p, most)
             kept == Len(s) - 1
  <2>4. /\ Len(u) \in Nat /\ Len(u) <= kept + Len(p)
        /\ \A i \in 1..Len(u) : u[i] = (Tail(s) \o p)[i]
    BY <1>2, <2>2, LenProperties
  <2>5. /\ kept \in Nat /\ \A i \in 1..kept : Tail(s)[i] = s[i + 1]
        /\ \A i \in 1..(kept + Len(p)) :
             (Tail(s) \o p)[i] = IF i <= kept THEN Tail(s)[i] ELSE p[i - kept]
    BY <2>1, <2>3
  <2> HIDE DEF u, kept
  <2>6. \A i \in 1..Len(u) : i \in 1..(kept + Len(p)) /\ (i <= kept => i \in 1..kept)
    BY <1>3, <2>4, <2>5
  <2>7. \A i \in 1..Len(u) : u[i] = IF i <= kept THEN s[i + 1] ELSE p[i - kept]
    BY <2>4, <2>5, <2>6
  <2> QED
    BY <2>4, <2>7 DEF Shift, u, kept
<1> QED
  BY <1>2, <1>4, <1>5

(* Nothing comes.                                                          *)
LEMMA TailShift ==
  ASSUME NEW S, NEW s \in Seq(S), s # <<>>
  PROVE  Shift(s, <<>>, Tail(s), 1) /\ Tail(s) \in Seq(S)
<1>1. /\ Tail(s) \in Seq(S) /\ Len(Tail(s)) = Len(s) - 1 /\ Len(s) - 1 \in Nat
      /\ \A i \in 1..Len(Tail(s)) : Tail(s)[i] = s[i + 1]
  BY LenProperties, HeadTailProperties, EmptySeq
<1>2. Len(<<>>) = 0 /\ \A i \in 1..Len(Tail(s)) : i <= Len(s) - 1
  BY <1>1
<1> QED
  BY <1>1, <1>2 DEF Shift

(* What is delivered is added.                                             *)
LEMMA AddShift ==
  ASSUME NEW S, NEW s \in Seq(S), NEW p \in Seq(S)
  PROVE  Shift(s, p, s \o p, 0) /\ s \o p \in Seq(S)
<1>1. /\ s \o p \in Seq(S) /\ Len(s \o p) = Len(s) + Len(p)
      /\ \A i \in 1..(Len(s) + Len(p)) : (s \o p)[i] = IF i <= Len(s) THEN s[i] ELSE p[i - Len(s)]
  BY ConcatProperties
<1>2. Len(s) \in Nat /\ Len(p) \in Nat /\ Len(s) - 0 = Len(s)
  BY LenProperties
<1>3. \A i \in 1..(Len(s) + Len(p)) : i + 0 = i
  BY <1>2
<1>4. Len(s \o p) <= Len(s) + Len(p)
  BY <1>1, <1>2
<1> DEFINE u == s \o p
<1>5. \A i \in 1..Len(u) : u[i] = IF i <= Len(s) THEN s[i + 0] ELSE p[i - Len(s)]
  BY <1>1, <1>3
<1> HIDE DEF u
<1>6. Shift(s, p, u, 0)
  BY <1>2, <1>4, <1>5 DEF Shift, u
<1> QED
  BY <1>1, <1>6 DEF u

LEMMA NothingShift ==
  ASSUME NEW S, NEW s \in Seq(S)
  PROVE  Shift(s, <<>>, s, 0) /\ Shift(s, <<>>, <<>>, Len(s))
<1>1. Len(s) \in Nat /\ Len(<<>>) = 0
  BY LenProperties
<1> QED
  BY <1>1 DEF Shift

-----------------------------------------------------------------------------
(* Finite sets.                                                            *)

LEMMA FiniteValues ==
  ASSUME NEW f, IsFiniteSet(DOMAIN f)
  PROVE  IsFiniteSet({f[x] : x \in DOMAIN f})
<1> DEFINE T == {f[x] : x \in DOMAIN f}
           g == [x \in DOMAIN f |-> f[x]]
<1>1. g \in Surjection(DOMAIN f, T)
  BY DEF Surjection
<1> HIDE DEF g, T
<1>2. IsFiniteSet(T)
  BY <1>1, FS_Surjection
<1> QED
  BY <1>2 DEF T

LEMMA FiniteFields ==
  ASSUME NEW L, IsFiniteSet(L), NEW j
  PROVE  IsFiniteSet({line[j] : line \in L})
<1> DEFINE f == [line \in L |-> line[j]]
<1>1. IsFiniteSet({f[i] : i \in DOMAIN f})
  BY FiniteValues
<1>2. {f[i] : i \in DOMAIN f} = {line[j] : line \in L}
  OBVIOUS
<1> QED
  BY <1>1, <1>2
=============================================================================
