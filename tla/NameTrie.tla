------------------------------ MODULE NameTrie ------------------------------
(***************************************************************************)
(* What HRC_InterestTable and HRC_MulticastTable have in common: a trie    *)
(* whose edges are the parts of a name (CNPart).  A node is the path that  *)
(* leads to it, so the nodes are a set of sequences of parts with the root *)
(* <<>> in it; the values at the nodes belong to the two tables.           *)
(***************************************************************************)
EXTENDS Naturals, Sequences, Functions

CONSTANTS
  Parts,      \* the parts of names
  MaxParts    \* bound: parts in a name

ASSUME TrieAssumption == MaxParts \in Nat

Names == UNION {[1..n -> Parts] : n \in 0..MaxParts}

VARIABLE nodes

Prefix(name, i) == SubSeq(name, 1, i)

(* The nodes a call visits on its way down, all of them existing or not.   *)
Path(name) == {Prefix(name, i) : i \in 0..Len(name)}

Exists(name) == Path(name) \subseteq nodes

Children(node) == {m \in nodes : Len(m) = Len(node) + 1 /\ Prefix(m, Len(node)) = node}

IsLeaf(node) == Children(node) = {}

(* remove deletes a node when the call on it returns true.  That on the    *)
(* last node does if it is an empty leaf; that on a node above does if its *)
(* child was deleted, was its only one, and the node has no value itself.  *)
(* "held" are the nodes that have a value once that of name is removed.    *)
Emptied(name, i, held) ==
  /\ IsLeaf(name)
  /\ \A j \in i..Len(name) : Prefix(name, j) \notin held
  /\ \A j \in i..(Len(name) - 1) : Children(Prefix(name, j)) = {Prefix(name, j + 1)}

(* Slips: a parent is deleted although it has a value of its own, or only  *)
(* the last node is ever deleted.                                          *)
SlipDeletesHeld(name, held) ==
  {Prefix(name, i) : i \in {i \in 1..Len(name) : Emptied(name, i, {})}}

SlipDeletesLast(name, held) ==
  {Prefix(name, i) : i \in {i \in {Len(name)} \ {0} : Emptied(name, i, held)}}

(* The root is not deleted by anybody.                                     *)
Deleted(name, held) == {Prefix(name, i) : i \in {i \in 1..Len(name) : Emptied(name, i, held)}}
=============================================================================
