----------------------------- MODULE ConfigFile -----------------------------
(***************************************************************************)
(* The loop over the lines of a file that the parseArgFile functions have  *)
(* in common.  A line is the sequence of its fields, Bad for a field that  *)
(* does not parse; empty lines and comments are left out.  A line with a   *)
(* bad or a missing field is skipped.                                      *)
(*                                                                         *)
(* The fields are those the loop finds.  In a last line without newline    *)
(* getPart returns -1 for the last field, and tmp goes back by one: if     *)
(* blanks are there (two after another field, one at the start), the field *)
(* is found again, until the loop has all it looks for.  Such a line is    *)
(* here one that ends in that field as often.  What is in front of a field *)
(* that starts the line is undefined: it may be found again or not.        *)
(***************************************************************************)
EXTENDS Naturals, Sequences

CONSTANTS Bad

(* A line whose first n fields, and those after them up to most, are fine. *)
Readable(line, n, most) ==
  Len(line) >= n /\ \A i \in DOMAIN line : i <= most => line[i] # Bad

ReadLines(file, n, most) == {i \in DOMAIN file : Readable(file[i], n, most)}
=============================================================================
