------------------------------ MODULE GNRSFile ------------------------------
(***************************************************************************)
(* parseGNRSFile: the lines of a GNRS file, each a name and the name of    *)
(* the RP for it, enter the HRC_InterestTable of HRC_GNRSCache or of       *)
(* HRC_PublicationEncapsulator.  The table holds pointers to strings that  *)
(* the function allocates, and frees when a later line repeats a name.     *)
(* A string is the number of its allocation, one of Vals.                  *)
(*                                                                         *)
(* A line is a sequence of characters without the newline, which only the  *)
(* last line of a file can lack.  A tab reads like a blank.                *)
(***************************************************************************)
EXTENDS InterestTable, ContentName

CONSTANTS
  Lines,       \* the lines of files
  MaxLines     \* bound: lines in the file that have a name and an RP

Blank == " "
Comment == "#"

ASSUME FileAssumption ==
  Lines \subseteq Seq(STRING) /\ MaxLines \in Nat /\ 1..MaxLines \subseteq Vals

VARIABLES
  allocated,    \* strings allocated so far
  freed,        \* those that were freed
  text,         \* what was written into each
  status,       \* "reading"; "ended" and "odd" after a line without newline
  written       \* the name of the RP that the file gives for each name

fileVars == <<nodes, vals, allocated, freed, text, status, written>>

FileInit ==
  /\ Init /\ allocated = 0 /\ freed = {} /\ text = <<>>
  /\ status = "reading" /\ written = [name \in {} |-> <<>>]

-----------------------------------------------------------------------------
(* The line.                                                               *)

(* Where the first field from position i on starts, 0 if there is none.    *)
FieldAt(line, i) ==
  LET starts == {j \in i..Len(line) : line[j] # Blank}
  IN  IF starts = {} THEN 0 ELSE CHOOSE j \in starts : \A k \in starts : j <= k

Field(line, i) == SubSeq(line, i, NextOf(line, {Blank}, i) - 1)

(* The name and the RP that the loop makes of a line, at most one pair.    *)
(* When the name ends the file getPart returns -1 and the search for the   *)
(* RP starts in front of the name, where it finds the name again; what is  *)
(* in front of a name that starts the line is not defined.                 *)
Pairs(line, terminated) ==
  LET cd == FieldAt(line, 1)
      end == NextOf(line, {Blank}, cd)
      rp == FieldAt(line, end)
  IN  IF cd = 0 \/ line[cd] = Comment THEN {{}}
      ELSE IF end > Len(line) /\ ~terminated
             THEN {{<<Field(line, cd), Field(line, cd)>>}} \cup (IF cd = 1 THEN {{}} ELSE {})
      ELSE IF rp = 0 THEN {{}}
      ELSE {{<<Field(line, cd), Field(line, rp)>>}}

(* A line as it is meant: fields between blanks, the first two count.      *)
Fields(line) ==
  LET From[i \in 1..(Len(line) + 1)] ==
        LET start == FieldAt(line, i)
            end == NextOf(line, {Blank}, start)
        IN  IF start = 0 THEN <<>> ELSE <<Field(line, start)>> \o From[end]
  IN  From[1]

-----------------------------------------------------------------------------
(* The string of the longest prefix is freed.                              *)
SlipBind(name, rp) ==
  LET exist == LongestPrefixMatch(name)
  IN  /\ allocated' = allocated + 1
      /\ text' = Append(text, rp)
      /\ freed' = IF exist # None THEN freed \cup {exist} ELSE freed
      /\ Set(name, allocated')

(* The table takes the copy of the RP, and frees the one it had.           *)
Bind(name, rp) ==
  LET exist == ExactMatch(name)
  IN  /\ allocated' = allocated + 1
      /\ text' = Append(text, rp)
      /\ freed' = IF exist # None THEN freed \cup {exist} ELSE freed
      /\ Set(name, allocated')

Line(line, terminated) ==
  /\ status = "reading"
  /\ \E pairs \in Pairs(line, terminated) :
       IF pairs = {} THEN UNCHANGED <<nodes, vals, allocated, freed, text>>
       ELSE /\ allocated < MaxLines
            /\ \E pair \in pairs : Bind(Walked(pair[1]), pair[2])
  /\ LET fields == Fields(line)
     IN  /\ status' = IF terminated THEN "reading"
                      ELSE IF Len(fields) = 1 /\ Head(fields[1]) # Comment THEN "odd"
                      ELSE "ended"
         /\ written' =
              IF Len(fields) < 2 \/ Head(fields[1]) = Comment THEN written
              ELSE [name \in DOMAIN written \cup {Parsed(fields[1])} |->
                      IF name = Parsed(fields[1]) THEN fields[2] ELSE written[name]]

FileNext == \E line \in Lines, terminated \in BOOLEAN : Line(line, terminated)

FileSpec == FileInit /\ [][FileNext]_fileVars

-----------------------------------------------------------------------------
(* Properties.                                                             *)

(* Every string is in the table or was freed, and none is both: a lookup   *)
(* never returns a string that was freed, and none is lost.                *)
Owned ==
  /\ Range(vals) \cap freed = {}
  /\ Range(vals) \cup freed = 1..allocated

(* The table says what the file says, the last line for a name deciding,   *)
(* although the file is cut by pointers and the names, with leading,       *)
(* doubled and trailing separators, by other code than hrc_cn_parse.  Only *)
(* a name alone on a last line without newline may enter the table.        *)
AsWritten ==
  status # "odd" =>
    /\ DOMAIN vals = DOMAIN written
    /\ \A name \in DOMAIN vals : text[vals[name]] = written[name]
=============================================================================
