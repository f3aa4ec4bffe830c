--------------------------- MODULE NameTrieProofs ---------------------------
(***************************************************************************)
(* Proofs about the nodes of a trie, for any parts and depth: what set,    *)
(* insert and remove of either table do to them.                           *)
(***************************************************************************)
EXTENDS NameTrie, SequenceTheorems, WellFoundedInduction, TLAPS

-----------------------------------------------------------------------------
(* Paths.                                                                  *)

LEMMA NameIsSeq ==
  ASSUME NEW name \in Names
  PROVE  name \in Seq(Parts) /\ Len(name) \in 0..MaxParts
  <1>1. PICK n \in 0..MaxParts : name \in [1..n -> Parts]
    BY DEF Names
  <1>2. name \in Seq(Parts) /\ Len(name) = n
    BY <1>1
  <1> QED
    BY <1>2

LEMMA PrefixOfName ==
  ASSUME NEW name \in Names, NEW i \in 0..Len(name)
  PROVE  /\ Prefix(name, i) \in Names
         /\ Len(Prefix(name, i)) = i
         /\ \A j \in 1..i : Prefix(name, i)[j] = name[j]
  <1>1. name \in Seq(Parts) /\ Len(name) \in Nat /\ Len(name) <= MaxParts
    BY NameIsSeq, TrieAssumption
  <1>2. \A j \in 1..i : name[j] \in Parts
    BY <1>1, ElementOfSeq
  <1>3. /\ Prefix(name, i) \in Seq(Parts)
        /\ Len(Prefix(name, i)) = IF 1 <= i THEN i - 1 + 1 ELSE 0
        /\ \A j \in 1..(i - 1 + 1) : Prefix(name, i)[j] = name[1 + j - 1]
    BY <1>2, SubSeqProperties DEF Prefix
  <1>4. Len(Prefix(name, i)) = i
    BY <1>3
  <1>5. Prefix(name, i) \in [1..i -> Parts] /\ i \in 0..MaxParts
    BY <1>1, <1>3, <1>4, LenProperties, TrieAssumption
  <1> QED
    BY <1>3, <1>4, <1>5 DEF Names

LEMMA PrefixOfPrefix ==
  ASSUME NEW name \in Names, NEW i \in 0..Len(name), NEW j \in 0..i
  PROVE  Prefix(Prefix(name, i), j) = Prefix(name, j)
  <1>1. Len(name) \in Nat
    BY NameIsSeq
  <1>2. /\ Prefix(name, i) \in Names /\ Len(Prefix(name, i)) = i
        /\ \A k \in 1..i : Prefix(name, i)[k] = name[k]
    BY PrefixOfName
  <1>3. j \in 0..Len(name) /\ j \in 0..Len(Prefix(name, i))
    BY <1>1, <1>2
  <1> DEFINE p == Prefix(Prefix(name, i), j)
             q == Prefix(name, j)
  <1>4. /\ p \in Names /\ Len(p) = j
        /\ \A k \in 1..j : p[k] = Prefix(name, i)[k]
    BY <1>2, <1>3, PrefixOfName
  <1>5. /\ q \in Names /\ Len(q) = j
        /\ \A k \in 1..j : q[k] = name[k]
    BY <1>3, PrefixOfName
  <1>6. p \in Seq(Parts) /\ q \in Seq(Parts)
    BY <1>4, <1>5, NameIsSeq
  <1> HIDE DEF p, q
  <1>7. \A k \in 1..Len(p) : p[k] = q[k]
    BY <1>1, <1>2, <1>4, <1>5
  <1>8. p = q
    BY <1>4, <1>5, <1>6, <1>7, SeqEqual
  <1> QED
    BY <1>8 DEF p, q

LEMMA WholePrefix ==
  ASSUME NEW name \in Names
  PROVE  Prefix(name, Len(name)) = name
  BY NameIsSeq, SubSeqFull DEF Prefix

LEMMA PathIsNames ==
  ASSUME NEW name \in Names
  PROVE  Path(name) \subseteq Names
  BY PrefixOfName DEF Path

-----------------------------------------------------------------------------
(* Growing and trimming.                                                   *)

(* What remove deletes has no value any more.                              *)
LEMMA DeletedHoldNothing ==
  ASSUME NEW name \in Names, NEW held
  PROVE  Deleted(name, held) \cap held = {}
  <1>1. Len(name) \in Nat
    BY NameIsSeq
  <1>2. ASSUME NEW i \in 1..Len(name), Emptied(name, i, held)
        PROVE  Prefix(name, i) \notin held
    BY <1>1, <1>2 DEF Emptied
  <1> QED
    BY <1>2 DEF Deleted

(* A new node that has no child is the end of its path.                    *)
LEMMA GrownLeaf ==
  ASSUME nodes \subseteq Names, NEW name \in Names, nodes' = nodes \cup Path(name),
         NEW n \in nodes', IsLeaf(n)'
  PROVE  (n \in nodes /\ IsLeaf(n)) \/ n = name
  <1>0. Len(name) \in Nat
    BY NameIsSeq
  <1>2. CASE n \in nodes
    BY <1>2 DEF IsLeaf, Children
  <1>3. CASE n \in Path(name)
    <2>1. PICK i \in 0..Len(name) : n = Prefix(name, i)
      BY <1>3 DEF Path
    <2>2. CASE i = Len(name)
      BY <2>1, <2>2, WholePrefix
    <2>3. CASE i < Len(name)
      <3> DEFINE c == Prefix(name, i + 1)
      <3>1. i + 1 \in 0..Len(name) /\ i \in 0..(i + 1)
        BY <1>0, <2>3
      <3>2. c \in nodes'
        BY <3>1 DEF Path
      <3>3. Len(c) = i + 1 /\ Len(n) = i
        BY <2>1, <3>1, PrefixOfName
      <3>4. Prefix(c, i) = n
        BY <2>1, <3>1, PrefixOfPrefix
      <3>5. c \in Children(n)'
        BY <3>2, <3>3, <3>4 DEF Children, Prefix
      <3> QED
        BY <3>5 DEF IsLeaf
    <2> QED
      BY <1>0, <2>2, <2>3
  <1> QED
    BY <1>2, <1>3

(* A node that lost its last child and was not deleted is held.            *)
LEMMA TrimmedLeaf ==
  ASSUME nodes \subseteq Names, NEW name \in Names, NEW held,
         nodes' = nodes \ Deleted(name, held),
         NEW n \in nodes' \ {<<>>}, IsLeaf(n)'
  PROVE  n \in held \/ (IsLeaf(n) /\ n # name)
  <1> DEFINE gone == Deleted(name, held)
  <1>0. Len(name) \in Nat
    BY NameIsSeq
  <1>4. n \in nodes /\ n \notin gone /\ n \in Names
    OBVIOUS
  <1>5. CASE IsLeaf(n)
    <2>2. ASSUME n = name, n \notin held PROVE FALSE
      <3>1. Len(name) # 0
        BY <2>2, EmptySeq, NameIsSeq
      <3>2. Len(name) \in 1..Len(name)
        BY <1>0, <3>1
      <3>3. \A j \in Len(name)..Len(name) : Prefix(name, j) = name
        BY <1>0, WholePrefix
      <3>4. Emptied(name, Len(name), held)
        BY <1>0, <1>5, <2>2, <3>3 DEF Emptied
      <3>5. Prefix(name, Len(name)) \in gone
        BY <3>2, <3>4 DEF Deleted
      <3> QED
        BY <1>4, <2>2, <3>5, WholePrefix
    <2> QED
      BY <1>5, <2>2
  <1>6. CASE ~IsLeaf(n)
    <2>1. PICK c \in Children(n) : TRUE
      BY <1>6 DEF IsLeaf
    <2>2. \A d \in Children(n) : d \in gone
      BY DEF IsLeaf, Children
    <2>3. PICK i \in 1..Len(name) : c = Prefix(name, i) /\ Emptied(name, i, held)
      BY <2>2 DEF Deleted
    <2>4. i \in 0..Len(name) /\ i - 1 \in 0..i /\ i - 1 \in 0..Len(name)
      BY <1>0
    <2>5. Len(c) = i
      BY <2>3, <2>4, PrefixOfName
    <2>6. Len(n) \in Nat
      BY <1>4, NameIsSeq
    <2>7. Len(n) = i - 1 /\ n = Prefix(c, i - 1)
      BY <2>1, <2>5, <2>6 DEF Children
    <2>8. n = Prefix(name, i - 1)
      BY <2>3, <2>4, <2>7, PrefixOfPrefix
    <2>9. i - 1 \in 1..Len(name)
      <3>1. Len(n) # 0
        BY <1>4, EmptySeq, NameIsSeq
      <3> QED
        BY <2>4, <2>7, <3>1
    <2>10. Children(n) = {c}
      <3> SUFFICES ASSUME NEW d \in Children(n) PROVE d = c
        BY Zenon
      <3>1. PICK k \in 1..Len(name) : d = Prefix(name, k)
        BY <2>2 DEF Deleted
      <3>2. Len(d) = k
        BY <1>0, <3>1, PrefixOfName
      <3>3. Len(d) = i
        BY <2>7 DEF Children
      <3> QED
        BY <2>3, <3>1, <3>2, <3>3
    <2>11. ~Emptied(name, i - 1, held)
      BY <1>4, <2>8, <2>9 DEF Deleted
    <2>12. \A j \in (i - 1)..Len(name) : j = i - 1 \/ j \in i..Len(name)
      BY <1>0
    <2>13. \A j \in (i - 1)..(Len(name) - 1) : j = i - 1 \/ j \in i..(Len(name) - 1)
      BY <1>0
    <2>14. Children(Prefix(name, i - 1)) = {Prefix(name, i - 1 + 1)}
      BY <2>3, <2>4, <2>8, <2>10
    <2>15. n \in held
      BY <2>3, <2>8, <2>11, <2>12, <2>13, <2>14 DEF Emptied
    <2> QED
      BY <2>15
  <1> QED
    BY <1>5, <1>6

-----------------------------------------------------------------------------
(* The nodes are closed under prefixes.                                    *)

PrefixClosed == \A n \in nodes : Path(n) \subseteq nodes

LEMMA LeastOf ==
  ASSUME NEW T \in SUBSET Nat, T # {}
  PROVE  \E k \in T : \A j \in T : k <= j
  <1> DEFINE Less == {p \in Nat \X Nat : p[1] < p[2]}
  <1>1. IsWellFoundedOn(Less, Nat)
    BY NatLessThanWellFounded DEF OpToRel
  <1> HIDE DEF Less
  <1>2. PICK k \in T : \A j \in T : ~(<<j, k>> \in Less)
    BY <1>1, WFMin
  <1>3. ASSUME NEW j \in T PROVE k <= j
    <2>1. j \in Nat /\ k \in Nat
      OBVIOUS
    <2>2. j < k => <<j, k>> \in Less
      BY <2>1 DEF Less
    <2> QED
      BY <1>2, <2>1, <2>2
  <1> QED
    BY <1>3

LEMMA InitClosed ==
  ASSUME nodes = {<<>>}
  PROVE  nodes \subseteq Names /\ PrefixClosed
  <1>1. <<>> \in Names
    BY TrieAssumption, EmptySeq DEF Names
  <1>2. Path(<<>>) = {<<>>}
    <2>1. Len(<<>>) = 0
      BY EmptySeq
    <2>2. Prefix(<<>>, 0) = <<>>
      BY <1>1, <2>1, WholePrefix
    <2> QED
      BY <2>1, <2>2 DEF Path
  <1> QED
    BY <1>1, <1>2 DEF PrefixClosed

LEMMA PathOfPath ==
  ASSUME NEW name \in Names, NEW n \in Path(name)
  PROVE  Path(n) \subseteq Path(name)
  <1>1. PICK i \in 0..Len(name) : n = Prefix(name, i)
    BY DEF Path
  <1>2. Len(n) = i /\ Len(name) \in Nat
    BY <1>1, PrefixOfName, NameIsSeq
  <1>3. ASSUME NEW j \in 0..i PROVE Prefix(n, j) \in Path(name)
    BY <1>1, <1>2, <1>3, PrefixOfPrefix DEF Path
  <1> QED
    BY <1>2, <1>3 DEF Path

LEMMA GrownClosed ==
  ASSUME PrefixClosed, NEW name \in Names, nodes' = nodes \cup Path(name)
  PROVE  PrefixClosed'
  <1> SUFFICES ASSUME NEW n \in nodes' PROVE Path(n) \subseteq nodes'
    BY DEF PrefixClosed, Path, Prefix
  <1>1. CASE n \in nodes
    BY <1>1 DEF PrefixClosed
  <1>2. CASE n \in Path(name)
    BY <1>2, PathOfPath
  <1> QED
    BY <1>1, <1>2

(* What lies below a deleted node is deleted with it: the deleted nodes    *)
(* are one branch, and the next node on the way down is its next node.     *)
LEMMA BelowDeleted ==
  ASSUME nodes \subseteq Names, PrefixClosed, NEW name \in Names, NEW held,
         NEW n \in nodes, NEW j \in 0..Len(n), Prefix(n, j) \in Deleted(name, held)
  PROVE  n \in Deleted(name, held)
  <1> DEFINE T == {k \in j..Len(n) : k > Len(name) \/ Prefix(n, k) # Prefix(name, k)}
  <1>0. n \in Names /\ Len(n) \in Nat /\ Len(name) \in Nat
    BY NameIsSeq
  <1>1. j \in 1..Len(name) /\ Prefix(n, j) = Prefix(name, j) /\ Emptied(name, j, held)
    <2>1. PICK i \in 1..Len(name) : Prefix(n, j) = Prefix(name, i) /\ Emptied(name, i, held)
      BY DEF Deleted
    <2>2. Len(Prefix(n, j)) = j /\ Len(Prefix(name, i)) = i
      BY <1>0, PrefixOfName
    <2> QED
      BY <2>1, <2>2
  <1>2. T = {}
    <2> SUFFICES ASSUME T # {} PROVE FALSE
      OBVIOUS
    <2>1. T \subseteq Nat
      BY <1>0, <1>1
    <2>2. PICK k \in T : \A l \in T : k <= l
      BY <2>1, LeastOf
    <2>3. k # j /\ k \in Nat
      BY <1>0, <1>1, <2>1, <2>2
    <2>4. k - 1 \in j..Len(n) /\ k - 1 \in Nat /\ k \in 0..Len(n)
      BY <1>0, <1>1, <2>2, <2>3
    <2>5. k - 1 \notin T
      BY <2>2, <2>3
    <2>6. k - 1 <= Len(name) /\ Prefix(n, k - 1) = Prefix(name, k - 1)
      BY <1>0, <2>4, <2>5
    <2>7. Prefix(n, k) \in nodes
      BY <2>4 DEF PrefixClosed, Path
    <2>8. k - 1 \in 0..Len(n) /\ k - 1 \in 0..k
      BY <2>4
    <2>9. Len(Prefix(n, k)) = k /\ Len(Prefix(n, k - 1)) = k - 1
      BY <1>0, <2>4, <2>8, PrefixOfName
    <2>10. Prefix(Prefix(n, k), k - 1) = Prefix(n, k - 1)
      BY <1>0, <2>4, <2>8, PrefixOfPrefix
    <2>11. Prefix(n, k) \in Children(Prefix(name, k - 1))
      BY <2>4, <2>6, <2>7, <2>9, <2>10 DEF Children
    <2>12. CASE k - 1 = Len(name)
      BY <1>1, <2>11, <2>12, WholePrefix DEF Emptied, IsLeaf
    <2>13. CASE k - 1 # Len(name)
      <3>1. k - 1 \in j..(Len(name) - 1)
        BY <1>0, <1>1, <2>4, <2>6, <2>13
      <3>2. Children(Prefix(name, k - 1)) = {Prefix(name, k - 1 + 1)}
        BY <1>1, <3>1 DEF Emptied
      <3>3. k - 1 + 1 = k
        BY <2>3
      <3>4. Prefix(n, k) = Prefix(name, k)
        BY <2>11, <3>2, <3>3
      <3> QED
        BY <1>0, <2>2, <2>3, <3>1, <3>4
    <2> QED
      BY <2>12, <2>13
  <1>3. Len(n) \in j..Len(name) /\ Prefix(n, Len(n)) = Prefix(name, Len(n))
    BY <1>0, <1>1, <1>2
  <1>4. n = Prefix(name, Len(n))
    BY <1>0, <1>3, WholePrefix
  <1>5. Emptied(name, Len(n), held)
    BY <1>0, <1>1, <1>3 DEF Emptied
  <1>6. Len(n) \in 1..Len(name)
    BY <1>0, <1>1, <1>3
  <1> QED
    BY <1>4, <1>5, <1>6 DEF Deleted

LEMMA TrimmedClosed ==
  ASSUME nodes \subseteq Names, PrefixClosed, NEW name \in Names, NEW held,
         nodes' = nodes \ Deleted(name, held)
  PROVE  PrefixClosed'
  <1> SUFFICES ASSUME NEW n \in nodes', NEW j \in 0..Len(n)
               PROVE  Prefix(n, j) \in nodes'
    BY DEF PrefixClosed, Path, Prefix
  <1>1. Prefix(n, j) \in nodes
    BY DEF PrefixClosed, Path
  <1>2. Prefix(n, j) \notin Deleted(name, held)
    BY BelowDeleted
  <1> QED
    BY <1>1, <1>2

(* A node exists if the way to it does.                                    *)
LEMMA ExistsIffNode ==
  ASSUME PrefixClosed, NEW name \in Names
  PROVE  Exists(name) <=> name \in nodes
  <1>1. name \in Path(name)
    BY NameIsSeq, WholePrefix DEF Path
  <1> QED
    BY <1>1 DEF Exists, PrefixClosed
=============================================================================
