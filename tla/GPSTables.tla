------------------------------ MODULE GPSTables -----------------------------
(***************************************************************************)
(* parseArgFile of the four GPS elements configured by a file: from the    *)
(* lines of the file to the table.                                         *)
(***************************************************************************)
EXTENDS ConfigFile, FiniteSets, FiniteSetsExt

CONSTANTS
  EmptyNa,        \* NA 0
  BroadcastNa,    \* NA 0xffffffff
  MaxDistance,    \* UINT32_MAX
  PortValues      \* the number of values of a uint8_t

(* GPS_SubscriptionTable: GUID, NA.                                        *)
SubscriptionsOf(file) ==
  LET lines == {file[i] : i \in ReadLines(file, 2, 2)}
  IN  [g \in {line[1] : line \in lines} |->
         {line[2] : line \in {l \in lines : l[1] = g}}]

(* GPS_RP: GUID and maybe a child.  A GUID alone is served, without child. *)
MappingTableOf(file) ==
  LET lines == {file[i] : i \in ReadLines(file, 1, 2)}
  IN  [g \in {line[1] : line \in lines} |->
         {line[2] : line \in {l \in lines : l[1] = g /\ Len(l) > 1}}]

(* GPS_RoutingTable: destination, next hop, distance.  The last line for a *)
(* destination and next hop gives the distance.                            *)
Candidates(file, dst) ==
  {file[i][2] : i \in {j \in ReadLines(file, 3, 3) : file[j][1] = dst}}

Distance(file, dst, hop) ==
  file[Max({i \in ReadLines(file, 3, 3) : file[i][1] = dst /\ file[i][2] = hop})][3]

(* The next hops that updateMinimal can choose, depending on the order of  *)
(* the candidates; NA 0 when no distance is below UINT32_MAX.              *)
MinNextHops(file, dst) ==
  LET near == {hop \in Candidates(file, dst) : Distance(file, dst, hop) < MaxDistance}
  IN  IF near = {} THEN {EmptyNa}
      ELSE {hop \in near :
              \A h \in near : Distance(file, dst, hop) <= Distance(file, dst, h)}

RoutingTablesOf(file) ==
  LET dsts == {file[i][1] : i \in ReadLines(file, 3, 3)}
  IN  {t \in [dsts -> UNION {MinNextHops(file, dst) : dst \in dsts}] :
         \A dst \in dsts : t[dst] \in MinNextHops(file, dst)}

(* GPS_ARPTable: NA, port, Ethernet address and maybe an IP address.  The  *)
(* last line for an NA counts.  The port goes to the packet in 8 bits.     *)
NeighboursOf(file) ==
  LET lines == ReadLines(file, 3, 4)
      LineOf(na) == file[Max({i \in lines : file[i][1] = na})]
  IN  [na \in {file[i][1] : i \in lines} |->
         [port |-> LineOf(na)[2] % PortValues, ether |-> LineOf(na)[3]]]
=============================================================================
