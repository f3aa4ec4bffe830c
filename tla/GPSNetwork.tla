----------------------------- MODULE GPSNetwork -----------------------------
(***************************************************************************)
(* A publication in a network of GPS routers wired as in ben-router.click  *)
(* and ben-rp.click.  A router is four queues, each emptied by a task of   *)
(* its own: "in" from the links, "data" to the cache, the routing table    *)
(* and the RP, "sub" to the subscription table, "arp" to the ARP table and *)
(* the links.  An element calls the next one up to the next queue, so a    *)
(* step is all that one packet taken from a queue causes.                  *)
(*                                                                         *)
(* GPS_GNRSCache is taken by its specification (module Resolver) and the   *)
(* expansion of GPS_RP by what it returns (module RP).                     *)
(*                                                                         *)
(* A definition whose name starts with Slip is a mistake the code does not *)
(* make.                                                                   *)
(***************************************************************************)
EXTENDS GPSTables, GuidGraph, SequencesExt

CONSTANTS
  Routers, Hosts,    \* by their NAs
  Networks,          \* the configured networks: records of the fields below
  MaxPublications    \* bound: publications

ASSUME NodesAssumption ==
  /\ Routers \cap Hosts = {} /\ EmptyNa # BroadcastNa
  /\ {EmptyNa, BroadcastNa} \cap (Routers \cup Hosts) = {}

ASSUME BoundAssumption == MaxPublications \in Nat

(* A network: the files of each router, the nodes at each port, the RP the *)
(* GNRS has for each GUID, what hosts publish where, the size of queues.   *)
ASSUME NetworksAssumption ==
  \A n \in Networks :
    /\ DOMAIN n = {"rps", "subFile", "rtgFile", "arpFile", "rpFile", "wires",
                   "home", "inputs", "capacity"}
    /\ n.rps \subseteq Routers
    /\ n.home \in [DOMAIN n.home -> n.rps]
    /\ n.inputs \subseteq
         [at : Routers, guid : DOMAIN n.home, dstNa : n.rps \cup {EmptyNa}]
    /\ n.capacity \in Nat \ {0}
    /\ \A r \in Routers :
         IsFiniteSet(DOMAIN n.subFile[r]) /\ IsFiniteSet(DOMAIN n.arpFile[r])
    /\ \A r \in n.rps : IsFiniteSet(DOMAIN n.rpFile[r])

VARIABLES
  net,             \* the network
  subscriptions,   \* _subscriptions of each router
  nextHop,         \* the minima of _naNextHops
  neighbours,      \* _naAddresses
  mapping,         \* _mappingTable
  queue,           \* the four queues of each router
  guidNas,         \* the GUIDs each cache knows; it knows them as the GNRS does
  pending,         \* the packets each cache holds for a GUID
  published,       \* what was published; the id of a publication is its place
  received,        \* the copies each host got, [id, guid]
  overflowed       \* a queue was full when a packet came

tables == <<net, subscriptions, nextHop, neighbours, mapping>>
vars == <<tables, queue, guidNas, pending, published, received, overflowed>>

Queues == {"in", "data", "sub", "arp"}
Guids == DOMAIN net.home
Packet(id, guid, srcNa, dstNa) ==
  [id |-> id, guid |-> guid, srcNa |-> srcNa, dstNa |-> dstNa, nextHop |-> EmptyNa]

-----------------------------------------------------------------------------
(* The tables.                                                             *)

(* The NAs with an entry that a packet for next hop na is sent to.         *)
Resolved(r, na) ==
  IF na = BroadcastNa THEN DOMAIN neighbours[r] ELSE {na} \cap DOMAIN neighbours[r]

(* The entries of them whose Ethernet address is that of node n, at the    *)
(* port the entry names.                                                   *)
Frames(r, na, n) ==
  {e \in Resolved(r, na) :
     LET entry == neighbours[r][e]
     IN  /\ entry.ether = n
         /\ entry.port \in DOMAIN net.wires[r] /\ n \in net.wires[r][entry.port]}

Recipients(r, na) == {n \in Routers \cup Hosts : Frames(r, na, n) # {}}

SubscriberNas(r, g) ==
  IF g \in DOMAIN subscriptions[r] THEN subscriptions[r][g] ELSE {}

(* The ways of the packets for an RP, which end there.                     *)
Ways(d) ==
  [r \in {x \in Routers \ {d} : d \in DOMAIN nextHop[x]} |-> Recipients(r, nextHop[r][d])]

(* The ways of the copies for a GUID.                                      *)
Spread(g) ==
  [r \in Routers |-> UNION {Recipients(r, na) : na \in SubscriberNas(r, g)}]

(* What the files of a network must agree on for it to work: each GUID has *)
(* one parent at most and no cycle above it, and is served by the RP that  *)
(* the GNRS names, and no other; the next hops lead to each RP, and only   *)
(* there, from where a packet for it can start; the subscriptions of a     *)
(* GUID are a tree that grows from its RP, with one frame for a branch.    *)
Graph ==
  [g \in UNION {DOMAIN mapping[r] : r \in net.rps} |->
     UNION {ChildrenIn(mapping[r], g) : r \in net.rps}]
GraphIsForest ==
  /\ \A g \in DOMAIN Graph, h \in DOMAIN Graph : Graph[g] \cap Graph[h] # {} => g = h
  /\ \A g \in DOMAIN Graph : \A c \in Graph[g] : g \notin Descendants(Graph, c)
ServedAtHome ==
  /\ \A g \in DOMAIN Graph : Graph[g] \subseteq Guids
  /\ \A g \in Guids, r \in net.rps : g \in DOMAIN mapping[r] <=> r = net.home[g]
RoutesLead ==
  \A d \in net.rps, r \in net.rps \cup {input.at : input \in net.inputs} :
    LET way == Descendants(Ways(d), r)
    IN  d \in way /\ \A x \in way \cap DOMAIN Ways(d) : nextHop[x][d] # BroadcastNa
SubscriptionsGrow ==
  \A g \in Guids :
    LET reached == Descendants(Spread(g), net.home[g])
        Into(n) == UNION {UNION {{<<r, na>>} \X Frames(r, na, n) : na \in SubscriberNas(r, g)} :
                            r \in Routers \cap reached}
    IN  /\ Into(net.home[g]) = {}
        /\ \A n \in reached : \A x, y \in Into(n) : x = y
        /\ \A r \in Routers : Spread(g)[r] \cap Hosts \subseteq reached
Consistent == GraphIsForest /\ ServedAtHome /\ RoutesLead /\ SubscriptionsGrow

Init ==
  /\ net \in Networks
  /\ subscriptions = [r \in Routers |-> SubscriptionsOf(net.subFile[r])]
  /\ nextHop \in {t \in [Routers -> UNION {RoutingTablesOf(net.rtgFile[r]) : r \in Routers}] :
                    \A r \in Routers : t[r] \in RoutingTablesOf(net.rtgFile[r])}
  /\ neighbours = [r \in Routers |-> NeighboursOf(net.arpFile[r])]
  /\ mapping = [r \in net.rps |-> MappingTableOf(net.rpFile[r])]
  /\ Consistent
  /\ queue = [r \in Routers |-> [q \in Queues |-> <<>>]]
  /\ guidNas = [r \in Routers |-> {}]
  /\ pending = [r \in Routers |-> [g \in Guids |-> <<>>]]
  /\ published = <<>> /\ overflowed = FALSE
  /\ received = [h \in Hosts |-> <<>>]

-----------------------------------------------------------------------------
(* The queues.                                                             *)

Nothing == [q \in Queues |-> <<>>]
At(r, pushed) == [x \in Routers |-> IF x = r THEN pushed ELSE Nothing]

(* Nothing is thrown away.                                                 *)
SlipFitting(packets) == packets

(* ThreadSafeQueue: what comes when it is full is thrown away.             *)
Fitting(packets) ==
  IF Len(packets) <= net.capacity THEN packets ELSE SubSeq(packets, 1, net.capacity)

(* The packets `pushed' at each router enter its queues; the first packet  *)
(* of the queues `taken' is gone.                                          *)
Transfer(taken, pushed) ==
  LET Now(r, q) ==
        (IF <<r, q>> \in taken THEN Tail(queue[r][q]) ELSE queue[r][q]) \o pushed[r][q]
  IN  /\ queue' = [r \in Routers |-> [q \in Queues |-> Fitting(Now(r, q))]]
      /\ overflowed' = (overflowed \/ \E r \in Routers, q \in Queues :
                                        Len(Now(r, q)) > net.capacity)

Busy(r, q) == queue[r][q] # <<>>
First(r, q) == Head(queue[r][q])

-----------------------------------------------------------------------------
(* The elements after the cache.                                           *)

(* The source NA is left as it was.                                        *)
SlipToSubscribers(r, p, g) == [p EXCEPT !.guid = g]

ToSubscribers(r, p, g) == [p EXCEPT !.guid = g, !.srcNa = r]

(* The destination NA is not cleared.                                      *)
SlipToOtherRP(p, g) == [p EXCEPT !.guid = g, !.srcNa = EmptyNa]

ToOtherRP(p, g) == [p EXCEPT !.guid = g, !.srcNa = EmptyNa, !.dstNa = EmptyNa]

(* GPS_RP: the copies for the links of v, which are served, and of w.      *)
Expansion(r, p, v, w) ==
  [Nothing EXCEPT
     !.sub = [i \in DOMAIN v |-> ToSubscribers(r, p, Target(v[i], p.guid))],
     !.data = [i \in DOMAIN w |-> ToOtherRP(p, Target(w[i], p.guid))]]

(* A copy for every link, in the order of some walk from the packet on;    *)
(* the served and the others go to queues of their own.                    *)
Expansions(r, p) ==
  LET Serves(link) == Target(link, p.guid) \in DOMAIN mapping[r]
      links == LinksBelow(mapping[r], p.guid)
      Rounds(S) == {w \in Walks(S) : Header \in S => w[1] = Header}
  IN  {Expansion(r, p, v, w) : v \in Rounds({link \in links : Serves(link)}),
                               w \in Rounds({link \in links : ~Serves(link)})}

(* GPS_RoutingTable: the next hop of the packet, if it has a route.        *)
Routed(r, p) ==
  IF p.dstNa = BroadcastNa
    THEN [Nothing EXCEPT !.arp = <<[p EXCEPT !.nextHop = BroadcastNa]>>]
    ELSE IF p.dstNa \in DOMAIN nextHop[r]
           THEN [Nothing EXCEPT !.arp = <<[p EXCEPT !.nextHop = nextHop[r][p.dstNa]]>>]
           ELSE Nothing

(* emit: what one packet with a destination NA puts into the queues.       *)
Emissions(r, p) ==
  IF p.dstNa # r THEN {Routed(r, p)}
  ELSE IF r \in net.rps THEN Expansions(r, p) ELSE {Nothing}

-----------------------------------------------------------------------------
(* The tasks.                                                              *)

(* A host publishes: the access router gets a packet without a source NA.  *)
Publish(input) ==
  /\ Len(published) < MaxPublications
  /\ published' = Append(published, input)
  /\ Transfer({}, At(input.at, [Nothing EXCEPT !["in"] =
       <<Packet(Len(published'), input.guid, EmptyNa, input.dstNa)>>]))
  /\ UNCHANGED <<tables, guidNas, pending, received>>

(* pubClassifier: on the way to an RP, or from one.                        *)
Classify(r) ==
  /\ Busy(r, "in")
  /\ LET p == First(r, "in")
         to == IF p.srcNa = EmptyNa THEN "data" ELSE "sub"
     IN  Transfer({<<r, "in">>}, At(r, [Nothing EXCEPT ![to] = <<p>>]))
  /\ UNCHANGED <<tables, guidNas, pending, published, received>>

(* GPS_GNRSCache: the packet has an NA, or its GUID is known.              *)
Resolve(r) ==
  /\ Busy(r, "data")
  /\ LET p == First(r, "data")
         na == IF p.dstNa = EmptyNa THEN net.home[p.guid] ELSE p.dstNa
     IN  /\ p.dstNa = EmptyNa => p.guid \in guidNas[r]
         /\ \E pushed \in Emissions(r, [p EXCEPT !.dstNa = na]) :
              Transfer({<<r, "data">>}, At(r, pushed))
  /\ UNCHANGED <<tables, guidNas, pending, published, received>>

(* The packet is held in front of those that came before it.               *)
SlipHold(r) ==
  /\ Busy(r, "data")
  /\ LET p == First(r, "data")
     IN  /\ p.dstNa = EmptyNa /\ p.guid \notin guidNas[r]
         /\ pending' = [pending EXCEPT ![r][p.guid] = <<p>> \o @]
  /\ Transfer({<<r, "data">>}, At(r, Nothing))
  /\ UNCHANGED <<tables, guidNas, published, received>>

(* The packet is held.                                                     *)
Hold(r) ==
  /\ Busy(r, "data")
  /\ LET p == First(r, "data")
     IN  /\ p.dstNa = EmptyNa /\ p.guid \notin guidNas[r]
         /\ pending' = [pending EXCEPT ![r][p.guid] = Append(@, p)]
  /\ Transfer({<<r, "data">>}, At(r, Nothing))
  /\ UNCHANGED <<tables, guidNas, published, received>>

(* What a batch puts into the queues, one packet after the other.          *)
Batches(r, ps) ==
  {[q \in Queues |-> FlattenSeq([i \in DOMAIN ps |-> pushes[i][q]])] :
     pushes \in {f \in [DOMAIN ps -> UNION {Emissions(r, ps[i]) : i \in DOMAIN ps}] :
                   \A i \in DOMAIN ps : f[i] \in Emissions(r, ps[i])}}

(* Only the first packet held is emitted.                                  *)
SlipAnswer(r, g) ==
  /\ pending[r][g] # <<>>
  /\ guidNas' = [guidNas EXCEPT ![r] = @ \cup {g}]
  /\ \E pushed \in Emissions(r, [Head(pending[r][g]) EXCEPT !.dstNa = net.home[g]]) :
       Transfer({}, At(r, pushed))
  /\ pending' = [pending EXCEPT ![r][g] = <<>>]
  /\ UNCHANGED <<tables, published, received>>

(* The GNRS answers the request made when the first packet was held.       *)
Answer(r, g) ==
  /\ pending[r][g] # <<>>
  /\ guidNas' = [guidNas EXCEPT ![r] = @ \cup {g}]
  /\ LET held == pending[r][g]
     IN  \E pushed \in Batches(r, [i \in DOMAIN held |-> [held[i] EXCEPT !.dstNa = net.home[g]]]) :
           Transfer({}, At(r, pushed))
  /\ pending' = [pending EXCEPT ![r][g] = <<>>]
  /\ UNCHANGED <<tables, published, received>>

(* GPS_SubscriptionTable: a copy for every NA that subscribes.             *)
Copy(r) ==
  /\ Busy(r, "sub")
  /\ LET p == First(r, "sub")
     IN  \E w \in Walks(SubscriberNas(r, p.guid)) :
           Transfer({<<r, "sub">>}, At(r, [Nothing EXCEPT !.arp =
             [i \in DOMAIN w |-> [p EXCEPT !.nextHop = w[i]]]]))
  /\ UNCHANGED <<tables, guidNas, pending, published, received>>

(* GPS_ARPTable, GPS_PortSwitch and the links.                             *)
Send(r) ==
  /\ Busy(r, "arp")
  /\ LET p == First(r, "arp")
         Times(n, x) == [i \in 1..Cardinality(Frames(r, p.nextHop, n)) |-> x]
     IN  /\ Transfer({<<r, "arp">>},
              [n \in Routers |-> [Nothing EXCEPT !["in"] = Times(n, [p EXCEPT !.nextHop = EmptyNa])]])
         /\ received' = [h \in Hosts |->
              received[h] \o Times(h, [id |-> p.id, guid |-> p.guid])]
  /\ UNCHANGED <<tables, guidNas, pending, published>>

Work ==
  \E r \in Routers :
    \/ Classify(r) \/ Resolve(r) \/ Hold(r) \/ Copy(r) \/ Send(r)
    \/ \E g \in Guids : Answer(r, g)

Next == Work \/ \E input \in net.inputs : Publish(input)

Spec == Init /\ [][Next]_vars

(* The tasks keep running and the GNRS answers.                            *)
FairSpec == Spec /\ WF_vars(Work)

-----------------------------------------------------------------------------
(* Properties.                                                             *)

(* A next hop is one a table has, known or not.                            *)
NextHops ==
  {EmptyNa, BroadcastNa}
    \cup (UNION {{nextHop[r][d] : d \in DOMAIN nextHop[r]} : r \in Routers})
    \cup UNION {UNION {SubscriberNas(r, g) : g \in Guids} : r \in Routers}

Packets ==
  [id : 1..MaxPublications, guid : Guids, srcNa : net.rps \cup {EmptyNa},
   dstNa : net.rps \cup {EmptyNa}, nextHop : NextHops]

(* The types, and no queue beyond its capacity.                            *)
TypeOK ==
  /\ net \in Networks
  /\ \A r \in Routers, q \in Queues :
        queue[r][q] \in Seq(Packets) /\ Len(queue[r][q]) <= net.capacity
  /\ guidNas \in [Routers -> SUBSET Guids]
  /\ pending \in [Routers -> [Guids -> Seq(Packets)]]
  /\ published \in Seq(net.inputs)
  /\ received \in [Hosts -> Seq([id : 1..MaxPublications, guid : Guids])]
  /\ overflowed \in BOOLEAN

SubscriberHosts ==
  [g \in Guids |->
     {h \in Hosts : \E r \in Routers : \E na \in SubscriberNas(r, g) :
                      h \in Recipients(r, na)}]

P == INSTANCE PubSub WITH
       Publications <- UNION {n.inputs : n \in Networks},
       graph <- Graph, subscribers <- SubscriberHosts, delivered <- received

(* Whatever the queues, the resolution and the sharing of links do, a host *)
(* gets a publication once for each GUID it subscribes to at or below that *)
(* of the publication, and nothing else.                                   *)
ImplementsPubSub == P!Spec

(* Nobody is left out, unless a queue was full.                            *)
EverythingDelivered ==
  \A id \in 1..MaxPublications :
    (id \in DOMAIN published) ~>
      (overflowed \/ \A h \in Hosts : \A d \in P!Owed(h) : d.id # id)

(* Publications to the same GUID from the same place, addressed alike,     *)
(* arrive in the order they were made, although the first may be held for  *)
(* the GNRS and a task other than that of the later ones emits it.         *)
InOrder ==
  \A h \in Hosts : \A i, j \in DOMAIN received[h] :
    LET a == received[h][i]  b == received[h][j]
    IN  i < j /\ a.guid = b.guid /\ published[a.id] = published[b.id] => a.id < b.id

Quiet ==
  \A r \in Routers :
    /\ \A q \in Queues : ~Busy(r, q)
    /\ \A g \in Guids : pending[r][g] = <<>>

(* No copy goes around for ever: the network falls silent.                 *)
Settles == <>[]Quiet
=============================================================================
