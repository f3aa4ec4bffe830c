---------------------------- MODULE NameRelation ----------------------------
(***************************************************************************)
(* What an HRC_MulticastTable promises: a relation of names and values.    *)
(***************************************************************************)
CONSTANTS Names, Vals

VARIABLE relation

Init == relation = {}

Insert(name, v) == relation' = relation \cup {<<name, v>>}

Remove(name, v) == relation' = relation \ {<<name, v>>}

Clear(name) == relation' = relation \ ({name} \X Vals)

Next ==
  \E name \in Names :
    Clear(name) \/ \E v \in Vals : Insert(name, v) \/ Remove(name, v)

Spec == Init /\ [][Next]_relation
=============================================================================
