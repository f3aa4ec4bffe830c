-------------------------------- MODULE MCRP --------------------------------
(* Instances of RP: the graphs on three GUIDs with at most two children a  *)
(* GUID, cyclic ones included, and one table of them for itself.           *)
EXTENDS RP, TLC

CONSTANTS a, b, c

ThreeGuids == {a, b, c}
FewChildren == {S \in SUBSET ThreeGuids : Cardinality(S) <= 2}
AllMappings == UNION {[D -> FewChildren] : D \in SUBSET ThreeGuids}

(* A table made for this model, without a cycle: two links lead to c.  The *)
(* tables of the repository are trees, in which a GUID is served once;     *)
(* bench/ben-rp.rp would be this one if its line 4 were no comment.        *)
TwoLinks == {a :> {b, c} @@ b :> {c} @@ c :> {}}
=============================================================================
