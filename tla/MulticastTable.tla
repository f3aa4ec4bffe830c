--------------------------- MODULE MulticastTable ---------------------------
(***************************************************************************)
(* HRC_MulticastTable: names to sets of values.  HRC_SubscriptionTable     *)
(* keeps in it the next hops of the subscribers of a name; a publication   *)
(* goes to those of its name and of every prefix of it.                    *)
(***************************************************************************)
EXTENDS NameTrie

CONSTANTS MulticastVals

VARIABLE valSets     \* _vals of every node

multicastVars == <<nodes, valSets>>

MulticastInit == nodes = {<<>>} /\ valSets = [n \in {<<>>} |-> {}]

ValsAt(node) == IF node \in nodes THEN valSets[node] ELSE {}
Holding == {n \in nodes : valSets[n] # {}}

(* insert: the missing nodes of the path are made, empty.                  *)
Insert(name, v) ==
  /\ nodes' = nodes \cup Path(name)
  /\ valSets' = [n \in nodes' |-> IF n = name THEN ValsAt(n) \cup {v} ELSE ValsAt(n)]

(* remove(name, val), and remove(name) for all values, leave "rest" at the *)
(* node; both are without effect where the path ends early.                *)
Leave(name, rest) ==
  LET held == (Holding \ {name}) \cup (IF rest = {} THEN {} ELSE {name})
  IN  /\ nodes' = nodes \ Deleted(name, held)
      /\ valSets' = [n \in nodes' |-> IF n = name THEN rest ELSE valSets[n]]

RemoveVal(name, v) == Exists(name) /\ Leave(name, valSets[name] \ {v})

Clear(name) == Exists(name) /\ Leave(name, {})

MulticastNext ==
  \E name \in Names :
    Clear(name) \/ \E v \in MulticastVals : Insert(name, v) \/ RemoveVal(name, v)

MulticastSpec == MulticastInit /\ [][MulticastNext]_multicastVars

-----------------------------------------------------------------------------
(* Lookups.                                                                *)

ExactMatches(name) == IF Exists(name) THEN valSets[name] ELSE {}

(* Slip: nothing is found for a name that is not itself in the trie.       *)
SlipLookup(name) ==
  LET Reached == {i \in 0..Len(name) : Prefix(name, i) \in nodes}
  IN  IF Exists(name) THEN UNION {ValsAt(Prefix(name, i)) : i \in Reached} ELSE {}

(* The values met on the way down, up to the first missing child.          *)
Lookup(name) ==
  LET Reached == {i \in 0..Len(name) : \A j \in 0..i : Prefix(name, j) \in nodes}
  IN  UNION {ValsAt(Prefix(name, i)) : i \in Reached}

-----------------------------------------------------------------------------
(* Properties.                                                             *)

MulticastTypeOK ==
  /\ nodes \subseteq Names
  /\ valSets \in [nodes -> SUBSET MulticastVals]

(* The values inserted and not removed since, as pairs.                    *)
Bindings == {b \in nodes \X MulticastVals : b[2] \in valSets[b[1]]}

(* remove frees what nothing needs: a node other than the root that has no *)
(* child has a value.                                                      *)
NoEmptyLeaf == \A n \in nodes \ {<<>>} : IsLeaf(n) => valSets[n] # {}

(* A publication reaches exactly those that subscribed to its name or to a *)
(* prefix of it, and exactMatch those of the name.                         *)
SetsAgree ==
  \A name \in Names :
    /\ Lookup(name) = {v \in MulticastVals : \E i \in 0..Len(name) : <<Prefix(name, i), v>> \in Bindings}
    /\ ExactMatches(name) = {v \in MulticastVals : <<name, v>> \in Bindings}

(* A call changes the bindings it is about and no other.                   *)
R == INSTANCE NameRelation WITH Vals <- MulticastVals, relation <- Bindings

ImplementsRelation == R!Spec
=============================================================================
