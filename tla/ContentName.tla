---------------------------- MODULE ContentName -----------------------------
(***************************************************************************)
(* A name as a string, and its two readings as parts: that of              *)
(* hrc_cn_parse, which notes where the parts start, and that of the        *)
(* tables, which take one CNPart after the other off its front.            *)
(*                                                                         *)
(* A definition whose name starts with Slip is a mistake the code does not *)
(* make.                                                                   *)
(***************************************************************************)
EXTENDS Naturals, Sequences, FiniteSets, FiniteSetsExt

Separator == "/"

(* Where the first character of the set comes from position i on, the      *)
(* terminating zero counting as one.                                       *)
NextOf(string, chars, i) ==
  Min({Len(string) + 1} \cup {j \in i..Len(string) : string[j] \in chars})

IsSeparator(string, i) == i \in DOMAIN string /\ string[i] = Separator

(* Where a part starts that a separator at position i may stand before.    *)
PartStart(string, i) == IF IsSeparator(string, i) THEN i + 1 ELSE i

(* hrc_cn_parse: the starts of the parts, and one past the separator that  *)
(* ends the last; a part is what lies between two.                         *)
Offsets(string) ==
  LET start == PartStart(string, 1)
  IN  {start} \cup {i + 1 : i \in {j \in start..Len(string) : IsSeparator(string, j)}}
      \cup (IF Len(string) >= start /\ ~IsSeparator(string, Len(string))
              THEN {Len(string) + 2} ELSE {})

Ascending(S) ==
  CHOOSE c \in [1..Cardinality(S) -> S] : \A i, j \in DOMAIN c : i < j => c[i] < c[j]

Components(string) == Ascending(Offsets(string))

Parsed(string) ==
  LET c == Components(string)
  IN  [part \in 1..(Len(c) - 1) |-> SubSeq(string, c[part], c[part + 1] - 2)]

(* Separators are skipped, not one of them.                                *)
SlipWalked(string) ==
  LET Start(i) == Min({Len(string) + 1} \cup {j \in i..Len(string) : ~IsSeparator(string, j)})
      From[i \in 1..(Len(string) + 1)] ==
        LET end == NextOf(string, {Separator}, Start(i))
        IN  IF Start(i) > Len(string) THEN <<>>
            ELSE <<SubSeq(string, Start(i), end - 1)>> \o From[end]
  IN  From[1]

(* The calls that a table makes on its entries, each of which skips one    *)
(* separator and leaves what is behind the part to the next.               *)
Walked(string) ==
  LET From[i \in 1..(Len(string) + 1)] ==
        LET start == PartStart(string, i)
            end == NextOf(string, {Separator}, start)
        IN  IF start > Len(string) THEN <<>>
            ELSE <<SubSeq(string, start, end - 1)>> \o From[end]
  IN  From[1]
=============================================================================
