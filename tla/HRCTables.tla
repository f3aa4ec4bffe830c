----------------------------- MODULE HRCTables ------------------------------
(***************************************************************************)
(* The tables of an HRC router or client as its elements use them: what    *)
(* parseArgFile and parseGNRSFile make of the lines of a file, and what a  *)
(* lookup finds.  The tables of names are taken by what HRC_InterestTable  *)
(* and HRC_MulticastTable promise (modules NameMap and NameRelation) and   *)
(* the table of neighbours by LatestWins of module HRCARPTable.            *)
(*                                                                         *)
(* A name is the sequence of its parts.                                    *)
(***************************************************************************)
EXTENDS ConfigFile, FiniteSets, FiniteSetsExt, SequencesExt

CONSTANTS
  EmptyNa,        \* NA 0
  BroadcastNa,    \* NA 0xffffffff
  NoIp,           \* IPAddress(), of a line without an IP address
  PortValues      \* the number of values of a uint8_t

(* HRC_SubscriptionTable: name and NA.                                     *)
SubscriptionsOf(file) ==
  {<<file[i][1], file[i][2]>> : i \in ReadLines(file, 2, 2)}

Lookup(table, name) == {b[2] : b \in {c \in table : IsPrefix(c[1], name)}}

(* HRC_FIB: name and NA.  HRC_GNRSCache and HRC_PublicationEncapsulator:   *)
(* name and name of the RP.  The last line for a name counts.              *)
InterestTableOf(file) ==
  LET lines == ReadLines(file, 2, 2)
  IN  [name \in {file[i][1] : i \in lines} |->
         file[Max({i \in lines : file[i][1] = name})][2]]

(* Empty when no prefix of the name is in the table.                       *)
LongestPrefixMatch(table, name) ==
  LET lengths == {i \in 0..Len(name) : SubSeq(name, 1, i) \in DOMAIN table}
  IN  IF lengths = {} THEN {} ELSE {table[SubSeq(name, 1, Max(lengths))]}

(* HRC_ARPTable: NA, port, Ethernet address and maybe an IP address.  A    *)
(* line is undone by a later one for its NA or for its address.            *)
AddressIn(line) ==
  [port |-> line[2], ether |-> line[3], ip |-> IF Len(line) > 3 THEN line[4] ELSE NoIp]

Lasting(file) ==
  LET lines == ReadLines(file, 3, 4)
  IN  {i \in lines : \A j \in lines :
         j > i => file[j][1] # file[i][1] /\ AddressIn(file[j]) # AddressIn(file[i])}

NeighboursOf(file) ==
  [na \in {file[i][1] : i \in Lasting(file)} |->
     AddressIn(file[CHOOSE i \in Lasting(file) : file[i][1] = na])]

(* The inverse: the NA a packet with this address came from, if any.       *)
SenderNas(neighbours, address) ==
  {na \in DOMAIN neighbours : neighbours[na] = address}
=============================================================================
