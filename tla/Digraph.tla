------------------------------ MODULE Digraph -------------------------------
(***************************************************************************)
(* A graph as a partial function m from its nodes to the sets of the nodes *)
(* that follow them.                                                       *)
(***************************************************************************)

ChildrenIn(m, g) == IF g \in DOMAIN m THEN m[g] ELSE {}

(* The nodes in every set that has g and the children of its members.      *)
Descendants(m, g) ==
  LET nodes == {g} \cup DOMAIN m \cup UNION {m[h] : h \in DOMAIN m}
      Closed(S) == \A h \in S : ChildrenIn(m, h) \subseteq S
  IN  {h \in nodes : \A S \in SUBSET nodes : g \in S /\ Closed(S) => h \in S}

(* m without the edges between x and y.                                    *)
WithoutLink(m, x, y) == [g \in DOMAIN m |-> {c \in m[g] : {g, c} # {x, y}}]
=============================================================================
