---------------------------- MODULE InterestTable ---------------------------
(***************************************************************************)
(* HRC_InterestTable: names to values, with the value of the longest       *)
(* prefix of a name as its lookup.  The FIB, the GNRS cache and the        *)
(* publication encapsulator of an HRC router are built on it.  A call is   *)
(* one step: its users change the table while the router is configured.    *)
(***************************************************************************)
EXTENDS NameTrie

CONSTANTS
  Vals,       \* the values
  None        \* the null pointer a lookup returns

ASSUME InterestAssumption == None \notin Vals

VARIABLE vals     \* _val of the nodes where it is not null

vars == <<nodes, vals>>

Init == nodes = {<<>>} /\ vals = [n \in {} |-> None]

HasVal(node) == node \in DOMAIN vals
ValueAt(node) == IF HasVal(node) THEN vals[node] ELSE None

(* set: the missing nodes of the path are made, the last gets the value.   *)
Set(name, v) ==
  /\ nodes' = nodes \cup Path(name)
  /\ vals' = [n \in DOMAIN vals \cup {name} |-> IF n = name THEN v ELSE vals[n]]

(* remove: without effect where the path ends early.                       *)
Remove(name) ==
  LET held == DOMAIN vals \ {name}
      gone == Deleted(name, held)
  IN  /\ Exists(name)
      /\ nodes' = nodes \ gone
      /\ vals' = Restrict(vals, held \ gone)

Next == \E name \in Names : Remove(name) \/ \E v \in Vals : Set(name, v)

Spec == Init /\ [][Next]_vars

-----------------------------------------------------------------------------
(* Lookups.                                                                *)

ExactMatch(name) == IF Exists(name) THEN ValueAt(name) ELSE None

(* What the call on the node at depth i of name returns: that of the child *)
(* if there is one with a value below, else the value of the node.         *)
Match(name) ==
  LET From[i \in 0..Len(name)] ==
        LET mine   == ValueAt(Prefix(name, i))
            deeper == i < Len(name) /\ Prefix(name, i + 1) \in nodes
        IN  IF deeper /\ From[i + 1] # None THEN From[i + 1] ELSE mine
  IN  From

(* Slip: the child's answer is returned although it is null.               *)
SlipLongestPrefixMatch(name) ==
  LET From[i \in 0..Len(name)] ==
        IF i < Len(name) /\ Prefix(name, i + 1) \in nodes THEN From[i + 1]
                                                         ELSE ValueAt(Prefix(name, i))
  IN  From[0]

LongestPrefixMatch(name) == Match(name)[0]

-----------------------------------------------------------------------------
(* Properties.                                                             *)

TypeOK ==
  /\ nodes \subseteq Names
  /\ DOMAIN vals \subseteq nodes
  /\ vals \in [DOMAIN vals -> Vals]

(* remove frees what nothing needs: a node other than the root that has no *)
(* child has a value, or its memory would be lost until the table ends.    *)
NoDeadBranch == \A n \in nodes \ {<<>>} : IsLeaf(n) => HasVal(n)

(* What the lookups promise of the names that have a value, whatever nodes *)
(* the trie has grown and shed for them.                                   *)
Holders(name) == {i \in 0..Len(name) : Prefix(name, i) \in DOMAIN vals}

LookupsAgree ==
  \A name \in Names :
    /\ ExactMatch(name) = ValueAt(name)
    /\ Holders(name) = {} => LongestPrefixMatch(name) = None
    /\ \A i \in Holders(name) :
         (\A j \in Holders(name) : j <= i)
           => LongestPrefixMatch(name) = vals[Prefix(name, i)]

(* The trie is a map from names to values: a call changes the value of its *)
(* name and of no other, and never loses one with a node it deletes.       *)
M == INSTANCE NameMap WITH map <- vals

ImplementsMap == M!Spec
=============================================================================
