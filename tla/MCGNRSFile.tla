---------------------------- MODULE MCGNRSFile ------------------------------
(* All short lines, and names of up to three characters with an RP.         *)
EXTENDS GNRSFile

Strings(chars, n) == UNION {[1..i -> chars] : i \in 1..n}

AllLines ==
  {<<>>} \cup Strings({"a", Separator, Blank, Comment}, 3)
  \cup {name \o <<Blank>> \o rp :
          <<name, rp>> \in Strings({"a", Separator}, 3) \X Strings({"a", Separator}, 1)}

AllParts == {<<>>} \cup Strings({"a", Comment}, 3)
=============================================================================
