------------------------------- MODULE NameMap ------------------------------
(***************************************************************************)
(* What an HRC_InterestTable promises: a partial map from names to values. *)
(***************************************************************************)
EXTENDS Functions

CONSTANTS Names, Vals

VARIABLE map

Init == DOMAIN map = {}

Set(name, v) ==
  map' = [n \in DOMAIN map \cup {name} |-> IF n = name THEN v ELSE map[n]]

Remove(name) == map' = Restrict(map, DOMAIN map \ {name})

Next == \E name \in Names : Remove(name) \/ \E v \in Vals : Set(name, v)

Spec == Init /\ [][Next]_map
=============================================================================
