---------------------------- MODULE MCGNRSFlood -----------------------------
(* Three routers, each a neighbour of the others, the GNRS behind router 1 *)
(* and a filter of three nonces, from which the last changes evict.        *)
EXTENDS GNRSFlood

Triangle ==
  [r \in Routers |-> (Routers \ {r}) \cup (IF r = 1 THEN {GNRS} ELSE {})]

(* The packets of the others for the GNRS go through router 1.             *)
Direct ==
  [r \in Routers |-> [n \in Nodes \ {r} |-> IF n = GNRS /\ r # 1 THEN 1 ELSE n]]

FourNonces == 0..3

(* One change after the other with a loss, and two at a time.              *)
TwoLoads ==
  {[publishing |-> {1, 2}, losses |-> 1, window |-> 1],
   [publishing |-> {2}, losses |-> 0, window |-> 2]}
=============================================================================
