------------------------------ MODULE GuidGraph -----------------------------
(***************************************************************************)
(* The graph of GUIDs in the _mappingTable of an RP: a partial function m  *)
(* from the GUIDs it serves to the sets of their children.  A link is a    *)
(* pair <<parent, child>>; Header stands for the GUID in the packet.       *)
(***************************************************************************)
EXTENDS Naturals, FiniteSets, Digraph

Header == <<>>

(* The ways from the packet, or from a descendant, to a descendant.        *)
LinksBelow(m, g) ==
  {Header} \cup UNION {{h} \X ChildrenIn(m, h) : h \in Descendants(m, g)}

Target(link, g) == IF link = Header THEN g ELSE link[2]

(* The orders in which an unordered_set can be walked.                     *)
Walks(S) ==
  {w \in [1..Cardinality(S) -> S] : \A x \in S : \E i \in DOMAIN w : w[i] = x}
=============================================================================
