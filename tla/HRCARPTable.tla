----------------------------- MODULE HRCARPTable ----------------------------
(***************************************************************************)
(* HRC_ARPTable: the neighbours of an HRC router.  _naAddresses gives the  *)
(* address (port, Ethernet, IP) to send to a neighbour; its inverse gives  *)
(* the neighbour a packet came from, whose NA the subscription table then  *)
(* leaves out when it copies a publication.                                *)
(***************************************************************************)
EXTENDS Naturals, Sequences, Functions

CONSTANTS
  NAs,         \* network addresses of neighbours
  Addresses,   \* HRC_NAAddress: port, Ethernet and IP address
  MaxArpLines  \* bound: lines of the file that bind an NA

VARIABLES
  naAddresses,          \* _naAddresses
  inverseNaAddresses,   \* _inverseNaAddresses
  arpLines              \* the bindings read so far, in the order of the file

arpVars == <<naAddresses, inverseNaAddresses, arpLines>>

Empty == [x \in {} |-> x]

ArpInit == naAddresses = Empty /\ inverseNaAddresses = Empty /\ arpLines = <<>>

Without(f, x) == Restrict(f, DOMAIN f \ {x})

With(f, x, y) == [z \in DOMAIN f \cup {x} |-> IF z = x THEN y ELSE f[z]]

(* The neighbour that had the address before keeps it.                     *)
SlipAddNAAddress(na, addr) ==
  /\ naAddresses' = With(naAddresses, na, addr)
  /\ inverseNaAddresses' =
       With(IF na \in DOMAIN naAddresses
              THEN Without(inverseNaAddresses, naAddresses[na])
              ELSE inverseNaAddresses,
            addr, na)

(* The first binding of an NA stays.                                       *)
SlipAddNAAddressOnce(na, addr) ==
  /\ naAddresses' = IF na \in DOMAIN naAddresses \/ addr \in DOMAIN inverseNaAddresses
                      THEN naAddresses ELSE With(naAddresses, na, addr)
  /\ inverseNaAddresses' = IF na \in DOMAIN naAddresses \/ addr \in DOMAIN inverseNaAddresses
                      THEN inverseNaAddresses ELSE With(inverseNaAddresses, addr, na)

(* addNAAddress: the bindings na and addr had are removed from the map of  *)
(* the other side, then both maps get the new one.                         *)
AddNAAddress(na, addr) ==
  LET inverse == IF na \in DOMAIN naAddresses
                   THEN Without(inverseNaAddresses, naAddresses[na])
                   ELSE inverseNaAddresses
      forward == IF addr \in DOMAIN inverse
                   THEN Without(naAddresses, inverse[addr])
                   ELSE naAddresses
  IN  /\ naAddresses' = With(forward, na, addr)
      /\ inverseNaAddresses' = With(inverse, addr, na)

(* One turn of the loop of parseArgFile.                                   *)
ArpLine(na, addr) ==
  /\ Len(arpLines) < MaxArpLines
  /\ arpLines' = Append(arpLines, [na |-> na, addr |-> addr])
  /\ AddNAAddress(na, addr)

ArpNext == \E na \in NAs, addr \in Addresses : ArpLine(na, addr)

ArpSpec == ArpInit /\ [][ArpNext]_arpVars

-----------------------------------------------------------------------------
(* Properties.                                                             *)

ArpTypeOK ==
  /\ DOMAIN naAddresses \subseteq NAs
  /\ DOMAIN inverseNaAddresses \subseteq Addresses

(* The neighbour a packet is taken to come from is the one a packet sent   *)
(* to it goes to: the maps are each other's inverse.                       *)
Inverses ==
  /\ \A na \in DOMAIN naAddresses :
       /\ naAddresses[na] \in DOMAIN inverseNaAddresses
       /\ inverseNaAddresses[naAddresses[na]] = na
  /\ \A addr \in DOMAIN inverseNaAddresses :
       /\ inverseNaAddresses[addr] \in DOMAIN naAddresses
       /\ naAddresses[inverseNaAddresses[addr]] = addr

(* A line binds until a later one names its NA or its address.             *)
Binding(i) ==
  \A j \in (i + 1)..Len(arpLines) :
    arpLines[j].na # arpLines[i].na /\ arpLines[j].addr # arpLines[i].addr

(* A neighbour is bound to the address the last line that speaks of either *)
(* gave it, and to none if that line gave the address to another.          *)
LatestWins ==
  \A na \in NAs, addr \in Addresses :
    (na \in DOMAIN naAddresses /\ naAddresses[na] = addr)
      <=> \E i \in DOMAIN arpLines : arpLines[i] = [na |-> na, addr |-> addr] /\ Binding(i)
=============================================================================
