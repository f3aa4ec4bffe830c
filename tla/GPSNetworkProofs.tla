--------------------------- MODULE GPSNetworkProofs --------------------------
(***************************************************************************)
(* Theorems about GPSNetwork: the types; every delivery is called for and  *)
(* made once; publications alike arrive in order.                          *)
(*                                                                         *)
(* A copy of a publication is a token <<id, station>>.  A station says     *)
(* what queue of what node the copy is in and what its header is:          *)
(* <<queue, node, guid, srcNa, dstNa, nextHop>>.  The road leads from each *)
(* station to those of the copies that a task makes of it.  In a           *)
(* consistent network the stations below the start of a publication form a *)
(* tree, and the tokens move down this tree.                               *)
(***************************************************************************)
EXTENDS GPSNetwork, NetworkLemmas

Nas == net.rps \cup {EmptyNa}
Stations == (Queues \cup {"got"}) \X (Routers \cup Hosts) \X Guids \X Nas \X Nas \X NextHops

(* The road from a station, by the queue it is in.                         *)
FromIn(r, g, src, dst, hop) ==
  {<<IF src = EmptyNa THEN "data" ELSE "sub", r, g, src, dst, hop>>}
Targets(r, g) == {Target(link, g) : link \in LinksBelow(mapping[r], g)}
Home(g, dst) == IF dst = EmptyNa THEN net.home[g] ELSE dst
FromData(r, g, src, dst, hop) ==
  LET d == Home(g, dst)
  IN  IF d # r
        THEN {<<"arp", r, g, src, d, nextHop[r][x]>> : x \in {d} \cap DOMAIN nextHop[r]}
        ELSE {<<"sub", r, c, r, d, hop>> : c \in Targets(r, g) \cap DOMAIN mapping[r]}
               \cup {<<"data", r, c, EmptyNa, EmptyNa, hop>> : c \in Targets(r, g) \ DOMAIN mapping[r]}
FromSub(r, g, src, dst, hop) ==
  {<<"arp", r, g, src, dst, na>> : na \in SubscriberNas(r, g)}
FromArp(r, g, src, dst, hop) ==
  {<<"in", n, g, src, dst, EmptyNa>> : n \in Recipients(r, hop) \cap Routers}
    \cup {<<"got", h, g, EmptyNa, EmptyNa, EmptyNa>> : h \in Recipients(r, hop) \cap Hosts}

From(q, r, g, src, dst, hop) ==
  CASE q = "in" -> FromIn(r, g, src, dst, hop)
    [] q = "data" -> FromData(r, g, src, dst, hop)
    [] q = "sub" -> FromSub(r, g, src, dst, hop)
    [] q = "arp" -> FromArp(r, g, src, dst, hop)

Road ==
  [s \in Queues \X Routers \X Guids \X Nas \X Nas \X NextHops |->
     From(s[1], s[2], s[3], s[4], s[5], s[6])]

Start(input) == <<"in", input.at, input.guid, EmptyNa, input.dstNa, EmptyNa>>

(* What stays as the files made it.                                        *)
Static ==
  /\ net \in Networks /\ Consistent
  /\ \A r \in Routers : IsFiniteSet(DOMAIN neighbours[r])
  /\ \A r \in Routers, g \in Guids : IsFiniteSet(SubscriberNas(r, g))
  /\ DOMAIN mapping = net.rps
  /\ \A r \in net.rps :
       IsFiniteSet(DOMAIN mapping[r]) /\ \A g \in DOMAIN mapping[r] : IsFiniteSet(mapping[r][g])

-----------------------------------------------------------------------------
(* The tables stay, and so do the road and all that is static.             *)

LEMMA RoadSame ==
  ASSUME UNCHANGED tables
  PROVE  Road' = Road
BY DEF tables, Road, From, FromIn, FromData, FromSub, FromArp, Nas, Home, Targets, LinksBelow,
       Recipients, Frames, Resolved, SubscriberNas, Guids, NextHops, Queues

LEMMA StaticSame ==
  ASSUME Static, UNCHANGED tables
  PROVE  Static'
<1> USE DEF tables
<1>1. Graph' = Graph
  BY DEF Graph
<1>2. \A d : Ways(d)' = Ways(d)
  BY DEF Ways, Recipients, Frames, Resolved
<1>3. \A g : Spread(g)' = Spread(g)
  BY DEF Spread, Recipients, Frames, Resolved, SubscriberNas
<1>4. /\ \A r, na, n : Frames(r, na, n)' = Frames(r, na, n)
      /\ \A r, g : SubscriberNas(r, g)' = SubscriberNas(r, g)
  BY DEF Frames, Resolved, SubscriberNas
<1>5. Guids' = Guids
  BY DEF Guids
<1>6. GraphIsForest'
  BY <1>1 DEF Static, Consistent, GraphIsForest
<1>7. ServedAtHome'
  BY <1>1, <1>5 DEF Static, Consistent, ServedAtHome
<1>8. RoutesLead'
  BY <1>2 DEF Static, Consistent, RoutesLead
<1>9. SubscriptionsGrow'
  BY <1>3, <1>4, <1>5 DEF Static, Consistent, SubscriptionsGrow
<1> QED
  BY <1>4, <1>5, <1>6, <1>7, <1>8, <1>9 DEF Static, Consistent
-----------------------------------------------------------------------------
(* The ways to an RP.                                                      *)

(* A network's nodes have the NAs that NetworksAssumption gives them.      *)
LEMMA NetworkKnown ==
  ASSUME Static
  PROVE  /\ net.rps \subseteq Routers /\ EmptyNa \notin Routers
         /\ \A g \in Guids : net.home[g] \in net.rps
         /\ \A input \in net.inputs :
              input.at \in Routers /\ input.guid \in Guids /\ input.dstNa \in net.rps \cup {EmptyNa}
         /\ net.capacity \in Nat \ {0}
BY NodesAssumption, NetworksAssumption DEF Static, Guids

(* The ways for an RP fork nowhere, and end there.                         *)
LEMMA WaysLead ==
  ASSUME Static, NEW d \in net.rps, NEW o \in net.rps \cup {input.at : input \in net.inputs}
  PROVE  /\ d \in Descendants(Ways(d), o) /\ ChildrenIn(Ways(d), d) = {}
         /\ Chain(Ways(d), o)
<1>1. d \in Descendants(Ways(d), o)
  BY DEF Static, Consistent, RoutesLead
<1>2. ChildrenIn(Ways(d), d) = {}
  BY DEF ChildrenIn, Ways
<1>3. ASSUME NEW x \in Descendants(Ways(d), o),
             NEW b \in ChildrenIn(Ways(d), x), NEW c \in ChildrenIn(Ways(d), x)
      PROVE  b = c
  <2>1. x \in DOMAIN Ways(d)
    BY DEF ChildrenIn
  <2>2. nextHop[x][d] # BroadcastNa
    BY <2>1 DEF Static, Consistent, RoutesLead
  <2>3. b \in Recipients(x, nextHop[x][d]) /\ c \in Recipients(x, nextHop[x][d])
    BY <2>1 DEF ChildrenIn, Ways
  <2> QED
    BY <2>2, <2>3 DEF Recipients, Frames, Resolved
<1> QED
  BY <1>1, <1>2, <1>3 DEF Chain

(* A router is entered from one other, on the way to an RP.                *)
LEMMA WaysParent ==
  ASSUME Static, NEW d \in net.rps, NEW o \in net.rps \cup {input.at : input \in net.inputs},
         NEW x \in Descendants(Ways(d), o), NEW y \in Descendants(Ways(d), o),
         NEW n \in ChildrenIn(Ways(d), x), n \in ChildrenIn(Ways(d), y)
  PROVE  x = y
BY WaysLead, ChainParent

(* The way goes neither back to where it came from nor to a host.          *)
LEMMA WaysOnward ==
  ASSUME Static, NEW d \in net.rps, NEW o \in net.rps \cup {input.at : input \in net.inputs},
         NEW x \in Descendants(Ways(d), o), NEW n \in ChildrenIn(Ways(d), x)
  PROVE  n \in Descendants(Ways(d), o) /\ n # o /\ n \in Routers
<1>1. n \in Descendants(Ways(d), o)
  BY DescendantsClosed
<1>2. n # o
  <2>1. x \notin Descendants(Ways(d), n)
    BY WaysLead, ChainNoCycle
  <2> QED
    BY <2>1
<1>3. n \in Routers
  <2>1. SUFFICES ASSUME n \notin Routers PROVE FALSE
    OBVIOUS
  <2>2. ChildrenIn(Ways(d), n) = {}
    BY <2>1 DEF ChildrenIn, Ways
  <2>3. \A h \in {n} : ChildrenIn(Ways(d), h) \subseteq {n}
    BY <2>2
  <2>4. Descendants(Ways(d), n) \subseteq {n}
    BY <2>3, DescendantsLeast
  <2>5. d \in Descendants(Ways(d), n)
    BY <1>1, WaysLead, ChainLeads
  <2> QED
    BY <2>1, <2>4, <2>5, NetworkKnown
<1> QED
  BY <1>1, <1>2, <1>3

(* The copies for a GUID enter a node once, and never its RP.              *)
LEMMA SpreadOnce ==
  ASSUME Static, NEW g \in Guids, NEW n \in Descendants(Spread(g), net.home[g]),
         NEW x \in Routers, x \in Descendants(Spread(g), net.home[g]),
         NEW na \in SubscriberNas(x, g), NEW e \in Frames(x, na, n)
  PROVE  /\ n # net.home[g]
         /\ \A y \in Routers : y \in Descendants(Spread(g), net.home[g]) =>
              \A nb \in SubscriberNas(y, g) : \A f \in Frames(y, nb, n) :
                y = x /\ nb = na /\ f = e
<1> DEFINE reached == Descendants(Spread(g), net.home[g])
           Into(k) == UNION {UNION {{<<r, nc>>} \X Frames(r, nc, k) : nc \in SubscriberNas(r, g)} :
                               r \in Routers \cap reached}
<1>1. Into(net.home[g]) = {} /\ \A k \in reached : \A a, b \in Into(k) : a = b
  BY DEF Static, Consistent, SubscriptionsGrow
<1>2. \A y \in Routers : y \in reached =>
        \A nb \in SubscriberNas(y, g) : \A k : \A f \in Frames(y, nb, k) :
          <<<<y, nb>>, f>> \in Into(k)
  OBVIOUS
<1> HIDE DEF Into
<1>3. <<<<x, na>>, e>> \in Into(n)
  BY <1>2
<1>4. n # net.home[g]
  BY <1>1, <1>3
<1>5. ASSUME NEW y \in Routers, y \in reached, NEW nb \in SubscriberNas(y, g), NEW f \in Frames(y, nb, n)
      PROVE  y = x /\ nb = na /\ f = e
  <2>1. <<<<y, nb>>, f>> \in Into(n)
    BY <1>2, <1>5
  <2>2. <<<<y, nb>>, f>> = <<<<x, na>>, e>>
    BY <1>1, <1>3, <2>1
  <2> QED
    BY <2>2
<1> QED
  BY <1>4, <1>5
-----------------------------------------------------------------------------
(* The graph of GUIDs, and the part of it that an RP serves.               *)

LEMMA ServedWithin ==
  ASSUME Static, NEW r \in net.rps
  PROVE  /\ \A h : ChildrenIn(mapping[r], h) \subseteq ChildrenIn(Graph, h)
         /\ \A g : Descendants(mapping[r], g) \subseteq Descendants(Graph, g)
<1>1. \A h : ChildrenIn(mapping[r], h) \subseteq ChildrenIn(Graph, h)
  BY DEF Graph, ChildrenIn
<1>2. ASSUME NEW g PROVE Descendants(mapping[r], g) \subseteq Descendants(Graph, g)
  <2> DEFINE T == Descendants(Graph, g)
  <2>1. g \in T
    BY DescendantsSelf
  <2>2. \A h \in T : ChildrenIn(mapping[r], h) \subseteq T
    BY <1>1, DescendantsClosed
  <2> HIDE DEF T
  <2>3. Descendants(mapping[r], g) \subseteq T
    BY <2>1, <2>2, DescendantsLeast
  <2> QED
    BY <2>3 DEF T
<1> QED
  BY <1>1, <1>2

LEMMA GuidsBelow ==
  ASSUME Static, NEW g \in Guids
  PROVE  Descendants(Graph, g) \subseteq Guids
<1>1. \A h \in Guids : ChildrenIn(Graph, h) \subseteq Guids
  BY DEF Static, Consistent, ServedAtHome, ChildrenIn
<1> QED
  BY <1>1, DescendantsLeast

LEMMA GraphOrder ==
  ASSUME Static, NEW g, NEW x \in Descendants(Graph, g), x # g
  PROVE  g \notin Descendants(Graph, x)
<1>1. PICK c \in ChildrenIn(Graph, g) : x \in Descendants(Graph, c)
  BY DescendantsStep
<1>2. g \notin Descendants(Graph, c)
  BY <1>1 DEF Static, Consistent, GraphIsForest, ChildrenIn
<1>3. Descendants(Graph, x) \subseteq Descendants(Graph, c)
  BY <1>1, DescendantsBelow
<1> QED
  BY <1>2, <1>3

LEMMA GraphParent ==
  ASSUME Static, NEW x, NEW y, NEW c \in ChildrenIn(Graph, x), c \in ChildrenIn(Graph, y)
  PROVE  x = y
BY DEF Static, Consistent, GraphIsForest, ChildrenIn

(* The targets of an expansion: what is below in the RP's part.            *)
LEMMA TargetsAre ==
  ASSUME Static, NEW r \in net.rps, NEW g
  PROVE  Targets(r, g) = Descendants(mapping[r], g)
<1> DEFINE m == mapping[r]
<1>1. ASSUME NEW link \in LinksBelow(m, g) PROVE Target(link, g) \in Descendants(m, g)
  <2>1. CASE link = Header
    BY <2>1, DescendantsSelf DEF Target
  <2>2. CASE link # Header
    <3>1. PICK h \in Descendants(m, g) : link \in {h} \X ChildrenIn(m, h)
      BY <2>2 DEF LinksBelow
    <3> DEFINE c == link[2]
    <3>2. Target(link, g) = c
      BY <2>2, <3>1 DEF Target
    <3> QED
      BY <3>1, <3>2, DescendantsClosed
  <2> QED
    BY <2>1, <2>2
<1>2. ASSUME NEW x \in Descendants(m, g) PROVE \E link \in LinksBelow(m, g) : Target(link, g) = x
  <2>1. CASE x = g
    BY <2>1 DEF LinksBelow, Target
  <2>2. CASE x # g
    <3>1. PICK h \in Descendants(m, g) : x \in ChildrenIn(m, h)
      BY <2>2, DescendantsParent
    <3>2. <<h, x>> \in LinksBelow(m, g) /\ <<h, x>> # Header
      BY <3>1 DEF LinksBelow, Header
    <3> QED
      BY <3>2 DEF Target
  <2> QED
    BY <2>1, <2>2
<1> QED
  BY <1>1, <1>2 DEF Targets

(* What lies on the way down the graph from g1 to a GUID that the RP       *)
(* reaches from g1 is reached from a GUID that the RP serves.              *)
LEMMA Between ==
  ASSUME Static, NEW r \in net.rps, NEW g1, NEW g2 \in Descendants(Graph, g1), g2 # g1,
         NEW x \in Descendants(mapping[r], g1), x \in Descendants(Graph, g2)
  PROVE  \E h \in Descendants(mapping[r], g1) : g2 \in ChildrenIn(mapping[r], h)
<1> SUFFICES ASSUME \A h \in Descendants(mapping[r], g1) : g2 \notin ChildrenIn(mapping[r], h)
             PROVE  FALSE
  OBVIOUS
<1> DEFINE T == {y \in Descendants(mapping[r], g1) : y \notin Descendants(Graph, g2)}
<1>1. g1 \in T
  BY GraphOrder, DescendantsSelf
<1>2. ASSUME NEW y \in T, NEW c \in ChildrenIn(mapping[r], y) PROVE c \in T
  <2>1. c \in Descendants(mapping[r], g1) /\ c # g2 /\ c \in ChildrenIn(Graph, y)
    BY DescendantsClosed, ServedWithin
  <2>2. SUFFICES ASSUME c \in Descendants(Graph, g2) PROVE FALSE
    BY <2>1
  <2>3. PICK h \in Descendants(Graph, g2) : c \in ChildrenIn(Graph, h)
    BY <2>1, <2>2, DescendantsParent
  <2> QED
    BY <2>1, <2>3, GraphParent
<1>3. \A h \in T : ChildrenIn(mapping[r], h) \subseteq T
  BY <1>2
<1> HIDE DEF T
<1>4. Descendants(mapping[r], g1) \subseteq T
  BY <1>1, <1>3, DescendantsLeast
<1> QED
  BY <1>4 DEF T
-----------------------------------------------------------------------------
(* The stations below the start of a publication.                          *)

(* The router where a packet for g is, when it has no NA yet: that of the  *)
(* RP that serves the parent of g, or where the publication came in.       *)
Lead(input, g) ==
  IF g = input.guid
    THEN IF input.dstNa \in {EmptyNa, net.home[g]} THEN input.at ELSE input.dstNa
    ELSE net.home[CHOOSE h \in DOMAIN Graph : g \in Graph[h]]

(* An RP gets a packet for g, and not only copies.                         *)
Enters(input, g) == g = input.guid \/ Lead(input, g) # net.home[g]

Addressed(input, g, d) == g = input.guid /\ d = input.dstNa
Origin(input, g, d) == IF Addressed(input, g, d) THEN input.at ELSE Lead(input, g)

(* A packet without an NA.                                                 *)
ToResolve(input, q, r, g) ==
  /\ q \in {"in", "data"} /\ r = Lead(input, g) /\ Enters(input, g)
  /\ q = "in" => Addressed(input, g, EmptyNa)
  /\ ~Addressed(input, g, net.home[g])

(* A packet on the way to RP d.                                            *)
ToRP(input, q, r, g, d, hop) ==
  /\ q \in {"in", "data", "arp"} /\ Enters(input, g)
  /\ d = net.home[g] \/ Addressed(input, g, d)
  /\ r \in Descendants(Ways(d), Origin(input, g, d))
  /\ q # "arp" => hop = EmptyNa /\ (r = Origin(input, g, d) => Addressed(input, g, d))
  /\ q = "arp" => r # d /\ d \in DOMAIN nextHop[r] /\ hop = nextHop[r][d]

(* A copy for the subscribers of g.                                        *)
FromRP(q, n, g, hop) ==
  /\ q \in {"in", "sub", "arp", "got"}
  /\ n \in Descendants(Spread(g), net.home[g])
  /\ q = "in" => n # net.home[g]
  /\ IF q = "arp" THEN hop \in SubscriberNas(n, g) ELSE hop = EmptyNa
  /\ IF q = "got" THEN n \in Hosts ELSE n \in Routers

Lawful(input, q, n, g, src, dst, hop) ==
  /\ g \in Guids /\ g \in Descendants(Graph, input.guid)
  /\ \/ src = EmptyNa /\ dst = EmptyNa /\ hop = EmptyNa /\ n \in Routers /\ ToResolve(input, q, n, g)
     \/ src = EmptyNa /\ dst \in net.rps /\ n \in Routers /\ ToRP(input, q, n, g, dst, hop)
     \/ q # "got" /\ src = net.home[g] /\ dst = net.home[g] /\ FromRP(q, n, g, hop)
     \/ q = "got" /\ src = EmptyNa /\ dst = EmptyNa /\ FromRP(q, n, g, hop)
LawfulStations(input) ==
  {s \in Stations : Lawful(input, s[1], s[2], s[3], s[4], s[5], s[6])}

(* The parent of a GUID is served at the router that leads to it.          *)
LEMMA LeadIs ==
  ASSUME Static, NEW r \in net.rps, NEW input \in net.inputs,
         NEW h \in Descendants(Graph, input.guid), NEW g \in ChildrenIn(mapping[r], h)
  PROVE  h \in Guids /\ net.home[h] = r /\ g # input.guid /\ Lead(input, g) = r
<1>1. h \in Guids /\ h \in DOMAIN mapping[r]
  BY NetworkKnown, GuidsBelow DEF ChildrenIn
<1>2. net.home[h] = r
  BY <1>1 DEF Static, Consistent, ServedAtHome
<1>3. g \in ChildrenIn(Graph, h)
  BY ServedWithin
<1>4. g \in Descendants(Graph, input.guid)
  BY <1>3, DescendantsClosed
<1>5. g # input.guid
  <2>1. h \notin Descendants(Graph, g)
    BY <1>3 DEF Static, Consistent, GraphIsForest, ChildrenIn
  <2> QED
    BY <2>1
<1>6. (CHOOSE k \in DOMAIN Graph : g \in Graph[k]) = h
  BY <1>3, GraphParent DEF ChildrenIn
<1> QED
  BY <1>1, <1>2, <1>5, <1>6 DEF Lead

(* Where a packet starts on its way to an RP.                              *)
LEMMA OriginKnown ==
  ASSUME Static, NEW input \in net.inputs, NEW g \in Guids, g \in Descendants(Graph, input.guid),
         NEW d \in net.rps
  PROVE  /\ Lead(input, g) \in net.rps \cup {i.at : i \in net.inputs}
         /\ Origin(input, g, d) \in net.rps \cup {i.at : i \in net.inputs}
<1>1. CASE g = input.guid
  BY <1>1, NetworkKnown DEF Lead, Origin, Addressed
<1>2. CASE g # input.guid
  <2>1. PICK h \in Descendants(Graph, input.guid) : g \in ChildrenIn(Graph, h)
    BY <1>2, DescendantsParent
  <2>2. PICK r \in net.rps : g \in ChildrenIn(mapping[r], h)
    BY <2>1 DEF Graph, ChildrenIn
  <2> QED
    BY <1>2, <2>2, LeadIs DEF Origin, Addressed
<1> QED
  BY <1>1, <1>2

(* Of the packets that an RP expands no two have a target in common.       *)
LEMMA ExpandedInOne ==
  ASSUME Static, NEW input \in net.inputs, NEW r \in net.rps,
         NEW g1 \in Guids, g1 \in Descendants(Graph, input.guid), 
         NEW g2 \in Descendants(Graph, g1), Enters(input, g2), g2 = input.guid \/ net.home[g2] = r,
         NEW x \in Descendants(mapping[r], g1), x \in Descendants(Graph, g2)
  PROVE  g1 = g2
<1> SUFFICES ASSUME g1 # g2 PROVE FALSE
  OBVIOUS
<1>1. g2 # input.guid
  <2>1. SUFFICES ASSUME g2 = input.guid PROVE FALSE
    OBVIOUS
  <2>2. input.guid \notin Descendants(Graph, g1)
    BY <2>1, GraphOrder
  <2> QED
    BY <2>1, <2>2
<1>2. PICK h \in Descendants(mapping[r], g1) : g2 \in ChildrenIn(mapping[r], h)
  BY Between
<1>3. h \in Descendants(Graph, input.guid)
  BY ServedWithin, DescendantsBelow
<1>4. Lead(input, g2) = r
  BY <1>2, <1>3, LeadIs
<1> QED
  BY <1>1, <1>4 DEF Enters

LEMMA ExpandedOnce ==
  ASSUME Static, NEW input \in net.inputs, NEW r \in net.rps,
         NEW g1 \in Guids, g1 \in Descendants(Graph, input.guid), Enters(input, g1),
         g1 = input.guid \/ net.home[g1] = r,
         NEW g2 \in Guids, g2 \in Descendants(Graph, input.guid), Enters(input, g2),
         g2 = input.guid \/ net.home[g2] = r,
         NEW x \in Descendants(mapping[r], g1), x \in Descendants(mapping[r], g2)
  PROVE  g1 = g2
<1> DEFINE R == Descendants(Graph, input.guid)
<1>1. Within(Graph, R)
  BY DescendantsClosed DEF Within
<1>2. OneParent(Graph, R)
  BY GraphParent DEF OneParent
<1>3. x \in Descendants(Graph, g1) /\ x \in Descendants(Graph, g2)
  BY ServedWithin
<1> HIDE DEF R
<1>4. g1 \in R /\ g2 \in R
  BY DEF R
<1>5. g1 \in Descendants(Graph, g2) \/ g2 \in Descendants(Graph, g1)
  BY <1>1, <1>2, <1>3, <1>4, ForestNested
<1> QED
  BY <1>3, <1>5, ExpandedInOne
-----------------------------------------------------------------------------
(* A step on the road from a lawful station leads to a lawful station.     *)

LEMMA RoadFrom ==
  ASSUME NEW s, NEW c \in ChildrenIn(Road, s)
  PROVE  \E q \in Queues, r \in Routers, g \in Guids, src \in Nas, dst \in Nas, hop \in NextHops :
           s = <<q, r, g, src, dst, hop>> /\ c \in From(q, r, g, src, dst, hop)
<1>1. s \in DOMAIN Road /\ c \in Road[s]
  BY DEF ChildrenIn
<1>2. s \in Queues \X Routers \X Guids \X Nas \X Nas \X NextHops
  BY <1>1 DEF Road
<1>3. c \in From(s[1], s[2], s[3], s[4], s[5], s[6])
  BY <1>1, <1>2 DEF Road
<1> QED
  BY <1>2, <1>3

LEMMA RoadTo ==
  ASSUME NEW q \in Queues, NEW r \in Routers, NEW g \in Guids, NEW src \in Nas, NEW dst \in Nas,
         NEW hop \in NextHops
  PROVE  ChildrenIn(Road, <<q, r, g, src, dst, hop>>) = From(q, r, g, src, dst, hop)
BY DEF ChildrenIn, Road

LEMMA HopsKnown ==
  ASSUME Static
  PROVE  /\ EmptyNa \in NextHops
         /\ \A r \in Routers : \A d \in DOMAIN nextHop[r] : nextHop[r][d] \in NextHops
         /\ \A r \in Routers, g \in Guids : SubscriberNas(r, g) \subseteq NextHops
BY DEF NextHops

LEMMA InLawful ==
  ASSUME Static, NEW input \in net.inputs, NEW r \in Routers, NEW g, NEW src \in Nas, NEW dst \in Nas,
         NEW hop, Lawful(input, "in", r, g, src, dst, hop), NEW c \in FromIn(r, g, src, dst, hop)
  PROVE  /\ c = <<IF src = EmptyNa THEN "data" ELSE "sub", r, g, src, dst, hop>>
         /\ Lawful(input, c[1], r, g, src, dst, hop)
<1>1. c = <<IF src = EmptyNa THEN "data" ELSE "sub", r, g, src, dst, hop>>
  BY DEF FromIn
<1>2. CASE src = EmptyNa
  BY <1>1, <1>2, NetworkKnown DEF Lawful, ToResolve, ToRP, FromRP
<1>3. CASE src # EmptyNa
  BY <1>1, <1>3, NetworkKnown DEF Lawful, FromRP
<1> QED
  BY <1>1, <1>2, <1>3

(* A packet is routed to the RP of its GUID, or to the RP it names.        *)
LEMMA RoutedLawful ==
  ASSUME Static, NEW input \in net.inputs, NEW r \in Routers, NEW g, NEW src, NEW dst,
         NEW hop, Lawful(input, "data", r, g, src, dst, hop),
         Home(g, dst) # r, Home(g, dst) \in DOMAIN nextHop[r]
  PROVE  Lawful(input, "arp", r, g, src, Home(g, dst), nextHop[r][Home(g, dst)])
<1> DEFINE d == Home(g, dst)
<1>1. g \in Guids /\ g \in Descendants(Graph, input.guid) /\ src = EmptyNa
  BY DEF Lawful, FromRP
<1>2. CASE dst = EmptyNa
  <2>1. ToResolve(input, "data", r, g) /\ d = net.home[g]
    BY <1>2, NetworkKnown DEF Lawful, FromRP, Home
  <2>2. Origin(input, g, d) = r
    BY <2>1 DEF ToResolve, Origin
  <2>3. r \in Descendants(Ways(d), Origin(input, g, d))
    BY <2>2, DescendantsSelf
  <2>4. ToRP(input, "arp", r, g, d, nextHop[r][d])
    BY <2>1, <2>3 DEF ToRP, ToResolve
  <2> QED
    BY <1>1, <2>1, <2>4, NetworkKnown DEF Lawful
<1>3. CASE dst # EmptyNa
  <2>1. ToRP(input, "data", r, g, d, hop) /\ d = dst /\ d \in net.rps
    BY <1>3, NetworkKnown DEF Lawful, FromRP, Home
  <2>2. ToRP(input, "arp", r, g, d, nextHop[r][d])
    BY <2>1 DEF ToRP
  <2> QED
    BY <1>1, <2>1, <2>2 DEF Lawful
<1> QED
  BY <1>2, <1>3

(* What an RP expands has entered it.                                      *)
LEMMA ExpandedKnown ==
  ASSUME Static, NEW input \in net.inputs, NEW r \in Routers, NEW g, NEW src, NEW dst,
         NEW hop, Lawful(input, "data", r, g, src, dst, hop), Home(g, dst) = r
  PROVE  /\ r \in net.rps /\ g \in Guids /\ g \in Descendants(Graph, input.guid)
         /\ Enters(input, g) /\ src = EmptyNa /\ hop = EmptyNa
         /\ net.home[g] = r \/ Addressed(input, g, r)
         /\ dst = EmptyNa => net.home[g] = r /\ r = Lead(input, g) /\ ~Addressed(input, g, r)
         /\ dst # EmptyNa => dst = r /\ (r = Origin(input, g, r) => Addressed(input, g, r))
<1>1. CASE dst = EmptyNa
  BY <1>1, NetworkKnown DEF Lawful, FromRP, ToResolve, Home
<1>2. CASE dst # EmptyNa
  BY <1>2, NetworkKnown DEF Lawful, FromRP, ToRP, Home
<1> QED
  BY <1>1, <1>2

(* A copy for a GUID that the RP serves.                                   *)
LEMMA ServedLawful ==
  ASSUME Static, NEW input \in net.inputs, NEW r \in Routers, NEW g, NEW src, NEW dst,
         NEW hop, Lawful(input, "data", r, g, src, dst, hop), Home(g, dst) = r,
         NEW c \in Targets(r, g) \cap DOMAIN mapping[r]
  PROVE  c \in Guids /\ net.home[c] = r /\ Lawful(input, "sub", r, c, r, r, hop)
<1>1. r \in net.rps /\ g \in Descendants(Graph, input.guid) /\ hop = EmptyNa
  BY ExpandedKnown
<1>2. c \in Descendants(Graph, input.guid)
  BY <1>1, TargetsAre, ServedWithin, DescendantsBelow
<1>3. c \in Guids /\ net.home[c] = r
  BY <1>1, <1>2, NetworkKnown, GuidsBelow DEF Static, Consistent, ServedAtHome
<1>4. r \in Descendants(Spread(c), net.home[c])
  BY <1>3, DescendantsSelf
<1> QED
  BY <1>1, <1>2, <1>3, <1>4 DEF Lawful, FromRP

(* A copy for a GUID that another RP serves.                               *)
LEMMA UnservedLawful ==
  ASSUME Static, NEW input \in net.inputs, NEW r \in Routers, NEW g, NEW src, NEW dst,
         NEW hop, Lawful(input, "data", r, g, src, dst, hop), Home(g, dst) = r,
         NEW c \in Targets(r, g) \ DOMAIN mapping[r]
  PROVE  /\ c \in Guids /\ Lawful(input, "data", r, c, EmptyNa, EmptyNa, hop)
         /\ net.home[c] # r /\ ~Addressed(input, c, EmptyNa)
<1>1. /\ r \in net.rps /\ g \in Descendants(Graph, input.guid) /\ hop = EmptyNa /\ g \in Guids
      /\ net.home[g] = r \/ Addressed(input, g, r)
  BY ExpandedKnown
<1>2. c \in Descendants(mapping[r], g) /\ c \in Descendants(Graph, input.guid)
  BY <1>1, TargetsAre, ServedWithin, DescendantsBelow
<1>3. c \in Guids /\ net.home[c] # r
  BY <1>1, <1>2, NetworkKnown, GuidsBelow DEF Static, Consistent, ServedAtHome
<1>4. ToResolve(input, "data", r, c) /\ ~Addressed(input, c, EmptyNa)
  <2>1. CASE c = g
    BY <2>1, <1>1, <1>3, NetworkKnown DEF ToResolve, Addressed, Lead, Enters
  <2>2. CASE c # g
    <3>1. PICK h \in Descendants(mapping[r], g) : c \in ChildrenIn(mapping[r], h)
      BY <1>2, <2>2, DescendantsParent
    <3>2. h \in Descendants(Graph, input.guid)
      BY <1>1, <3>1, ServedWithin, DescendantsBelow
    <3>3. c # input.guid /\ Lead(input, c) = r
      BY <1>1, <3>1, <3>2, LeadIs
    <3> QED
      BY <3>3, <1>3 DEF ToResolve, Addressed, Enters
  <2> QED
    BY <2>1, <2>2
<1> QED
  BY <1>1, <1>2, <1>3, <1>4 DEF Lawful

LEMMA SubLawful ==
  ASSUME Static, NEW input \in net.inputs, NEW r \in Routers, NEW g, NEW src, NEW dst,
         NEW hop, Lawful(input, "sub", r, g, src, dst, hop), NEW na \in SubscriberNas(r, g)
  PROVE  Lawful(input, "arp", r, g, src, dst, na) /\ hop = EmptyNa /\ src = net.home[g] /\ dst = net.home[g]
BY DEF Lawful, ToResolve, ToRP, FromRP

(* A frame on the way to an RP is for a router.                            *)
LEMMA ArpUpLawful ==
  ASSUME Static, NEW input \in net.inputs, NEW r \in Routers, NEW g, NEW dst,
         NEW hop, Lawful(input, "arp", r, g, EmptyNa, dst, hop), NEW n \in Recipients(r, hop)
  PROVE  /\ Lawful(input, "in", n, g, EmptyNa, dst, EmptyNa) /\ n \in Routers
         /\ dst \in net.rps /\ hop = nextHop[r][dst] /\ g \in Guids
         /\ g \in Descendants(Graph, input.guid)
         /\ Origin(input, g, dst) \in net.rps \cup {i.at : i \in net.inputs}
         /\ r \in Descendants(Ways(dst), Origin(input, g, dst)) /\ n \in ChildrenIn(Ways(dst), r)
<1>1. /\ g \in Guids /\ g \in Descendants(Graph, input.guid) /\ dst \in net.rps
      /\ ToRP(input, "arp", r, g, dst, hop)
  BY NetworkKnown DEF Lawful, ToResolve, FromRP
<1> DEFINE o == Origin(input, g, dst)
<1>2. o \in net.rps \cup {i.at : i \in net.inputs}
  BY <1>1, OriginKnown
<1>3. r \in Descendants(Ways(dst), o) /\ r # dst /\ dst \in DOMAIN nextHop[r] /\ hop = nextHop[r][dst]
  BY <1>1 DEF ToRP
<1>4. n \in ChildrenIn(Ways(dst), r)
  BY <1>3 DEF ChildrenIn, Ways
<1>5. n \in Descendants(Ways(dst), o) /\ n # o /\ n \in Routers
  BY <1>1, <1>2, <1>3, <1>4, WaysOnward
<1>6. ToRP(input, "in", n, g, dst, EmptyNa)
  BY <1>1, <1>5 DEF ToRP
<1> QED
  BY <1>1, <1>2, <1>3, <1>4, <1>5, <1>6 DEF Lawful

(* A frame with a copy is for a router or a host.                          *)
LEMMA ArpDownLawful ==
  ASSUME Static, NEW input \in net.inputs, NEW r \in Routers, NEW g, NEW src, src # EmptyNa, NEW dst,
         NEW hop, Lawful(input, "arp", r, g, src, dst, hop), NEW n \in Recipients(r, hop)
  PROVE  /\ g \in Guids /\ src = net.home[g] /\ dst = net.home[g] /\ hop \in SubscriberNas(r, g)
         /\ r \in Descendants(Spread(g), net.home[g]) /\ n \in Descendants(Spread(g), net.home[g])
         /\ n \in Routers => Lawful(input, "in", n, g, src, dst, EmptyNa)
         /\ n \in Hosts => Lawful(input, "got", n, g, EmptyNa, EmptyNa, EmptyNa)
<1>1. /\ g \in Guids /\ g \in Descendants(Graph, input.guid) /\ src = net.home[g] /\ dst = net.home[g]
      /\ FromRP("arp", r, g, hop)
  BY DEF Lawful
<1>2. hop \in SubscriberNas(r, g) /\ r \in Descendants(Spread(g), net.home[g])
  BY <1>1 DEF FromRP
<1>3. n \in ChildrenIn(Spread(g), r)
  BY <1>2 DEF ChildrenIn, Spread
<1>4. n \in Descendants(Spread(g), net.home[g])
  BY <1>2, <1>3, DescendantsClosed
<1>5. n # net.home[g]
  BY <1>1, <1>2, <1>4, SpreadOnce DEF Recipients
<1> QED
  BY <1>1, <1>2, <1>4, <1>5 DEF Lawful, FromRP

LEMMA ArpLawful ==
  ASSUME Static, NEW input \in net.inputs, NEW r \in Routers, NEW g, NEW src, NEW dst,
         NEW hop, Lawful(input, "arp", r, g, src, dst, hop), NEW n \in Recipients(r, hop)
  PROVE  /\ n \in Routers => Lawful(input, "in", n, g, src, dst, EmptyNa)
         /\ n \in Hosts => /\ Lawful(input, "got", n, g, EmptyNa, EmptyNa, EmptyNa)
                           /\ src # EmptyNa
BY ArpUpLawful, ArpDownLawful, NodesAssumption

LEMMA LawfulKnown ==
  ASSUME Static, NEW input \in net.inputs, NEW q, NEW n, NEW g, NEW src, NEW dst, NEW hop,
         Lawful(input, q, n, g, src, dst, hop)
  PROVE  <<q, n, g, src, dst, hop>> \in LawfulStations(input)
<1>1. g \in Guids /\ net.home[g] \in net.rps
  BY NetworkKnown DEF Lawful
<1>2. q \in Queues \cup {"got"} /\ n \in Routers \cup Hosts
  BY DEF Lawful, ToResolve, ToRP, FromRP, Queues
<1>3. src \in Nas /\ dst \in Nas
  BY <1>1 DEF Lawful, Nas
<1>4. hop \in NextHops
  BY <1>1, HopsKnown DEF Lawful, ToRP, FromRP
<1> QED
  BY <1>1, <1>2, <1>3, <1>4 DEF LawfulStations, Stations

LEMMA RoadLawful ==
  ASSUME Static, NEW input \in net.inputs, NEW s \in LawfulStations(input), NEW c \in ChildrenIn(Road, s)
  PROVE  c \in LawfulStations(input)
<1>1. PICK q \in Queues, r \in Routers, g \in Guids, src \in Nas, dst \in Nas, hop \in NextHops :
        s = <<q, r, g, src, dst, hop>> /\ c \in From(q, r, g, src, dst, hop)
  BY RoadFrom
<1>2. Lawful(input, q, r, g, src, dst, hop)
  BY <1>1 DEF LawfulStations
<1>3. CASE q = "in"
  <2>1. c \in FromIn(r, g, src, dst, hop)
    BY <1>1, <1>3 DEF From
  <2> QED
    BY <1>2, <1>3, <2>1, InLawful, LawfulKnown
<1>4. CASE q = "data"
  <2>1. c \in FromData(r, g, src, dst, hop)
    BY <1>1, <1>4 DEF From
  <2>2. CASE Home(g, dst) # r
    <3>1. c = <<"arp", r, g, src, Home(g, dst), nextHop[r][Home(g, dst)]>>
      BY <2>1, <2>2 DEF FromData
    <3>2. Home(g, dst) \in DOMAIN nextHop[r]
      BY <2>1, <2>2 DEF FromData
    <3> QED
      BY <1>2, <1>4, <2>2, <3>1, <3>2, RoutedLawful, LawfulKnown
  <2>3. CASE Home(g, dst) = r
    <3>1. \/ \E x \in Targets(r, g) \cap DOMAIN mapping[r] : c = <<"sub", r, x, r, r, hop>>
          \/ \E x \in Targets(r, g) \ DOMAIN mapping[r] : c = <<"data", r, x, EmptyNa, EmptyNa, hop>>
      BY <2>1, <2>3 DEF FromData
    <3> QED
      BY <1>2, <1>4, <2>3, <3>1, ServedLawful, UnservedLawful, LawfulKnown
  <2> QED
    BY <2>2, <2>3
<1>5. CASE q = "sub"
  <2>1. PICK na \in SubscriberNas(r, g) : c = <<"arp", r, g, src, dst, na>>
    BY <1>1, <1>5 DEF From, FromSub
  <2> QED
    BY <1>2, <1>5, <2>1, SubLawful, LawfulKnown
<1>6. CASE q = "arp"
  <2>1. \/ \E n \in Recipients(r, hop) \cap Routers : c = <<"in", n, g, src, dst, EmptyNa>>
        \/ \E h \in Recipients(r, hop) \cap Hosts : c = <<"got", h, g, EmptyNa, EmptyNa, EmptyNa>>
    BY <1>1, <1>6 DEF From, FromArp
  <2> QED
    BY <1>2, <1>6, <2>1, ArpLawful, LawfulKnown
<1> QED
  BY <1>3, <1>4, <1>5, <1>6 DEF Queues

LEMMA StartLawful ==
  ASSUME Static, NEW input \in net.inputs
  PROVE  Start(input) \in LawfulStations(input)
<1> DEFINE g == input.guid
<1>1. g \in Guids /\ g \in Descendants(Graph, g) /\ input.at \in Routers /\ input.dstNa \in net.rps \cup {EmptyNa}
  BY NetworkKnown, DescendantsSelf
<1>2. CASE input.dstNa = EmptyNa
  <2>1. ToResolve(input, "in", input.at, g)
    BY <1>1, <1>2, NetworkKnown DEF ToResolve, Lead, Enters, Addressed
  <2> QED
    BY <1>1, <1>2, <2>1, LawfulKnown DEF Lawful, Start
<1>3. CASE input.dstNa # EmptyNa
  <2>1. input.at \in Descendants(Ways(input.dstNa), Origin(input, g, input.dstNa))
    BY DescendantsSelf DEF Origin, Addressed
  <2>2. ToRP(input, "in", input.at, g, input.dstNa, EmptyNa)
    BY <1>1, <1>3, <2>1 DEF ToRP, Enters, Addressed
  <2> QED
    BY <1>1, <1>3, <2>2, LawfulKnown DEF Lawful, Start
<1> QED
  BY <1>2, <1>3

LEMMA AllLawful ==
  ASSUME Static, NEW input \in net.inputs
  PROVE  Descendants(Road, Start(input)) \subseteq LawfulStations(input)
<1> DEFINE T == LawfulStations(input)
<1>1. \A s \in T : ChildrenIn(Road, s) \subseteq T
  BY RoadLawful
<1>2. Start(input) \in T
  BY StartLawful
<1> HIDE DEF T
<1> QED
  BY <1>1, <1>2, DescendantsLeast DEF T

-----------------------------------------------------------------------------
(* Each station below a start follows one other, and the start follows     *)
(* none.                                                                   *)

(* What a station follows: a task's input, by what the task made of it.    *)
LEMMA RoadBack ==
  ASSUME NEW s, NEW c \in ChildrenIn(Road, s)
  PROVE  \E q \in Queues, r \in Routers, g \in Guids, src \in Nas, dst \in Nas, hop \in NextHops :
           /\ s = <<q, r, g, src, dst, hop>>
           /\ \/ q = "in" /\ c = <<IF src = EmptyNa THEN "data" ELSE "sub", r, g, src, dst, hop>>
              \/ /\ q = "data" /\ Home(g, dst) # r /\ Home(g, dst) \in DOMAIN nextHop[r]
                 /\ c = <<"arp", r, g, src, Home(g, dst), nextHop[r][Home(g, dst)]>>
              \/ /\ q = "data" /\ Home(g, dst) = r
                 /\ \E x \in Targets(r, g) \cap DOMAIN mapping[r] : c = <<"sub", r, x, r, r, hop>>
              \/ /\ q = "data" /\ Home(g, dst) = r
                 /\ \E x \in Targets(r, g) \ DOMAIN mapping[r] :
                      c = <<"data", r, x, EmptyNa, EmptyNa, hop>>
              \/ q = "sub" /\ \E na \in SubscriberNas(r, g) : c = <<"arp", r, g, src, dst, na>>
              \/ q = "arp" /\ \E n \in Recipients(r, hop) \cap Routers :
                                c = <<"in", n, g, src, dst, EmptyNa>>
              \/ q = "arp" /\ \E h \in Recipients(r, hop) \cap Hosts :
                                c = <<"got", h, g, EmptyNa, EmptyNa, EmptyNa>>
<1>1. PICK q \in Queues, r \in Routers, g \in Guids, src \in Nas, dst \in Nas, hop \in NextHops :
        s = <<q, r, g, src, dst, hop>> /\ c \in From(q, r, g, src, dst, hop)
  BY RoadFrom
<1>3. CASE q = "in"
  BY <1>1, <1>3 DEF From, FromIn
<1>4. CASE q = "data"
  <2>1. c \in FromData(r, g, src, dst, hop)
    BY <1>1, <1>4 DEF From
  <2> QED
    BY <1>1, <1>4, <2>1 DEF FromData
<1>5. CASE q = "sub"
  BY <1>1, <1>5 DEF From, FromSub
<1>6. CASE q = "arp"
  BY <1>1, <1>6 DEF From, FromArp
<1> QED
  BY <1>3, <1>4, <1>5, <1>6 DEF Queues

(* A packet comes in from one router, for one next hop.                    *)
LEMMA InFromOne ==
  ASSUME Static, NEW input \in net.inputs, NEW g, NEW src, NEW dst, NEW n \in Routers,
         NEW r1 \in Routers, NEW r2 \in Routers, NEW h1, NEW h2,
         Lawful(input, "arp", r1, g, src, dst, h1), Lawful(input, "arp", r2, g, src, dst, h2),
         n \in Recipients(r1, h1), n \in Recipients(r2, h2)
  PROVE  r1 = r2 /\ h1 = h2
<1>1. CASE src = EmptyNa
  <2> USE <1>1
  <2> DEFINE o == Origin(input, g, dst)
  <2>1. /\ dst \in net.rps /\ o \in net.rps \cup {i.at : i \in net.inputs} /\ h1 = nextHop[r1][dst]
        /\ r1 \in Descendants(Ways(dst), o) /\ n \in ChildrenIn(Ways(dst), r1)
    BY ArpUpLawful
  <2>2. /\ h2 = nextHop[r2][dst]
        /\ r2 \in Descendants(Ways(dst), o) /\ n \in ChildrenIn(Ways(dst), r2)
    BY ArpUpLawful
  <2> HIDE DEF o
  <2>3. r1 = r2
    BY <2>1, <2>2, WaysParent
  <2> QED
    BY <2>1, <2>2, <2>3
<1>2. CASE src # EmptyNa
  <2> USE <1>2
  <2>1. /\ g \in Guids /\ h1 \in SubscriberNas(r1, g)
        /\ r1 \in Descendants(Spread(g), net.home[g]) /\ n \in Descendants(Spread(g), net.home[g])
    BY ArpDownLawful
  <2>2. h2 \in SubscriberNas(r2, g) /\ r2 \in Descendants(Spread(g), net.home[g])
    BY ArpDownLawful
  <2>3. PICK e1 \in Frames(r1, h1, n), e2 \in Frames(r2, h2, n) : TRUE
    BY DEF Recipients
  <2> QED
    BY <2>1, <2>2, <2>3, SpreadOnce
<1> QED
  BY <1>1, <1>2

LEMMA GotFromOne ==
  ASSUME Static, NEW input \in net.inputs, NEW g, NEW s1, NEW d1, NEW s2, NEW d2, NEW n \in Hosts,
         NEW r1 \in Routers, NEW r2 \in Routers, NEW h1, NEW h2,
         Lawful(input, "arp", r1, g, s1, d1, h1), Lawful(input, "arp", r2, g, s2, d2, h2),
         n \in Recipients(r1, h1), n \in Recipients(r2, h2)
  PROVE  r1 = r2 /\ h1 = h2 /\ s1 = s2 /\ d1 = d2
<1>1. s1 # EmptyNa /\ s2 # EmptyNa
  BY ArpLawful
<1>2. /\ g \in Guids /\ h1 \in SubscriberNas(r1, g) /\ s1 = net.home[g] /\ d1 = net.home[g]
      /\ r1 \in Descendants(Spread(g), net.home[g]) /\ n \in Descendants(Spread(g), net.home[g])
  BY <1>1, ArpDownLawful, SMTT(20)
<1>3. /\ h2 \in SubscriberNas(r2, g) /\ r2 \in Descendants(Spread(g), net.home[g])
      /\ s2 = net.home[g] /\ d2 = net.home[g]
  BY <1>1, ArpDownLawful
<1>4. PICK e1 \in Frames(r1, h1, n), e2 \in Frames(r2, h2, n) : TRUE
  BY DEF Recipients
<1> QED
  BY <1>2, <1>3, <1>4, SpreadOnce

(* Expansions at one router that have a target in common are one.          *)
LEMMA ExpandedFromOne ==
  ASSUME Static, NEW input \in net.inputs, NEW r \in Routers, NEW x,
         NEW g1, NEW s1, NEW d1, NEW h1, Lawful(input, "data", r, g1, s1, d1, h1), Home(g1, d1) = r,
         NEW g2, NEW s2, NEW d2, NEW h2, Lawful(input, "data", r, g2, s2, d2, h2), Home(g2, d2) = r,
         x \in Targets(r, g1), x \in Targets(r, g2)
  PROVE  g1 = g2 /\ s1 = s2 /\ d1 = d2 /\ h1 = h2
<1>1. /\ r \in net.rps /\ g1 \in Guids /\ g1 \in Descendants(Graph, input.guid) /\ Enters(input, g1)
      /\ s1 = EmptyNa /\ h1 = EmptyNa
      /\ net.home[g1] = r \/ Addressed(input, g1, r)
      /\ d1 = EmptyNa => r = Lead(input, g1) /\ ~Addressed(input, g1, r)
      /\ d1 # EmptyNa => d1 = r /\ (r = Origin(input, g1, r) => Addressed(input, g1, r))
  BY ExpandedKnown
<1>2. /\ g2 \in Guids /\ g2 \in Descendants(Graph, input.guid) /\ Enters(input, g2)
      /\ s2 = EmptyNa /\ h2 = EmptyNa
      /\ net.home[g2] = r \/ Addressed(input, g2, r)
      /\ d2 = EmptyNa => r = Lead(input, g2) /\ ~Addressed(input, g2, r)
      /\ d2 # EmptyNa => d2 = r /\ (r = Origin(input, g2, r) => Addressed(input, g2, r))
  BY ExpandedKnown
<1>3. x \in Descendants(mapping[r], g1) /\ x \in Descendants(mapping[r], g2)
  BY <1>1, TargetsAre
<1>4. /\ g1 = input.guid \/ net.home[g1] = r
      /\ g2 = input.guid \/ net.home[g2] = r
  BY <1>1, <1>2 DEF Addressed
<1>5. g1 = g2
  BY <1>1, <1>2, <1>3, <1>4, ExpandedOnce
<1> QED
  BY <1>1, <1>2, <1>5 DEF Origin

(* A packet to be sent has come from the routing or the subscription       *)
(* table; the table it has come from, and for what, can be told from it.   *)
LEMMA ArpFromOne ==
  ASSUME Static, NEW input \in net.inputs, NEW r \in Routers, NEW g, NEW src, NEW d1, NEW d2,
         NEW h1, NEW h2, Lawful(input, "data", r, g, src, d1, h1), Lawful(input, "data", r, g, src, d2, h2),
         Home(g, d1) = Home(g, d2)
  PROVE  d1 = d2 /\ h1 = h2 /\ src = EmptyNa
<1>1. g \in Guids /\ net.home[g] \in net.rps /\ EmptyNa \notin net.rps
  BY NetworkKnown DEF Lawful
<1>2. src = EmptyNa /\ h1 = EmptyNa /\ h2 = EmptyNa
  BY DEF Lawful, ToRP, FromRP
<1>3. \A d \in {d1, d2} : d = EmptyNa => r = Lead(input, g) /\ ~Addressed(input, g, net.home[g])
  BY <1>1 DEF Lawful, FromRP, ToResolve
<1>4. \A d \in {d1, d2} : d # EmptyNa =>
        (r = Origin(input, g, d) => Addressed(input, g, d))
  BY <1>1 DEF Lawful, FromRP, ToRP
<1>5. CASE d1 # EmptyNa /\ d2 # EmptyNa
  BY <1>2, <1>5 DEF Home
<1>6. CASE d1 = EmptyNa /\ d2 = EmptyNa
  BY <1>2, <1>6
<1>7. CASE d1 = EmptyNa /\ d2 # EmptyNa
  BY <1>3, <1>4, <1>7 DEF Home, Origin
<1>8. CASE d1 # EmptyNa /\ d2 = EmptyNa
  BY <1>3, <1>4, <1>8 DEF Home, Origin
<1> QED
  BY <1>5, <1>6, <1>7, <1>8

LEMMA RoadOneParent ==
  ASSUME Static, NEW input \in net.inputs, NEW s \in LawfulStations(input), NEW t \in LawfulStations(input),
         NEW c \in ChildrenIn(Road, s), c \in ChildrenIn(Road, t)
  PROVE  s = t
<1>1. PICK q1 \in Queues, r1 \in Routers, g1 \in Guids, s1 \in Nas, d1 \in Nas, h1 \in NextHops :
           /\ s = <<q1, r1, g1, s1, d1, h1>>
           /\ \/ q1 = "in" /\ c = <<IF s1 = EmptyNa THEN "data" ELSE "sub", r1, g1, s1, d1, h1>>
              \/ /\ q1 = "data" /\ Home(g1, d1) # r1 /\ Home(g1, d1) \in DOMAIN nextHop[r1]
                 /\ c = <<"arp", r1, g1, s1, Home(g1, d1), nextHop[r1][Home(g1, d1)]>>
              \/ /\ q1 = "data" /\ Home(g1, d1) = r1
                 /\ \E x \in Targets(r1, g1) \cap DOMAIN mapping[r1] : c = <<"sub", r1, x, r1, r1, h1>>
              \/ /\ q1 = "data" /\ Home(g1, d1) = r1
                 /\ \E x \in Targets(r1, g1) \ DOMAIN mapping[r1] :
                      c = <<"data", r1, x, EmptyNa, EmptyNa, h1>>
              \/ q1 = "sub" /\ \E na \in SubscriberNas(r1, g1) : c = <<"arp", r1, g1, s1, d1, na>>
              \/ q1 = "arp" /\ \E n \in Recipients(r1, h1) \cap Routers :
                                c = <<"in", n, g1, s1, d1, EmptyNa>>
              \/ q1 = "arp" /\ \E h \in Recipients(r1, h1) \cap Hosts :
                                c = <<"got", h, g1, EmptyNa, EmptyNa, EmptyNa>>
  BY RoadBack
<1>2. PICK q2 \in Queues, r2 \in Routers, g2 \in Guids, s2 \in Nas, d2 \in Nas, h2 \in NextHops :
           /\ t = <<q2, r2, g2, s2, d2, h2>>
           /\ \/ q2 = "in" /\ c = <<IF s2 = EmptyNa THEN "data" ELSE "sub", r2, g2, s2, d2, h2>>
              \/ /\ q2 = "data" /\ Home(g2, d2) # r2 /\ Home(g2, d2) \in DOMAIN nextHop[r2]
                 /\ c = <<"arp", r2, g2, s2, Home(g2, d2), nextHop[r2][Home(g2, d2)]>>
              \/ /\ q2 = "data" /\ Home(g2, d2) = r2
                 /\ \E x \in Targets(r2, g2) \cap DOMAIN mapping[r2] : c = <<"sub", r2, x, r2, r2, h2>>
              \/ /\ q2 = "data" /\ Home(g2, d2) = r2
                 /\ \E x \in Targets(r2, g2) \ DOMAIN mapping[r2] :
                      c = <<"data", r2, x, EmptyNa, EmptyNa, h2>>
              \/ q2 = "sub" /\ \E na \in SubscriberNas(r2, g2) : c = <<"arp", r2, g2, s2, d2, na>>
              \/ q2 = "arp" /\ \E n \in Recipients(r2, h2) \cap Routers :
                                c = <<"in", n, g2, s2, d2, EmptyNa>>
              \/ q2 = "arp" /\ \E h \in Recipients(r2, h2) \cap Hosts :
                                c = <<"got", h, g2, EmptyNa, EmptyNa, EmptyNa>>
  BY RoadBack
<1>3. Lawful(input, q1, r1, g1, s1, d1, h1) /\ Lawful(input, q2, r2, g2, s2, d2, h2)
  BY <1>1, <1>2 DEF LawfulStations
<1>4. CASE c[1] = "in"
  <2>1. /\ q1 = "arp" /\ \E n \in Recipients(r1, h1) \cap Routers : c = <<"in", n, g1, s1, d1, EmptyNa>>
        /\ q2 = "arp" /\ \E n \in Recipients(r2, h2) \cap Routers : c = <<"in", n, g2, s2, d2, EmptyNa>>
    BY <1>1, <1>2, <1>4
  <2>2. g1 = g2 /\ s1 = s2 /\ d1 = d2
    BY <2>1
  <2>3. r1 = r2 /\ h1 = h2
    BY <1>3, <2>1, <2>2, InFromOne
  <2> QED
    BY <1>1, <1>2, <2>1, <2>2, <2>3
<1>5. CASE c[1] = "got"
  <2>1. /\ q1 = "arp" /\ \E h \in Recipients(r1, h1) \cap Hosts :
                           c = <<"got", h, g1, EmptyNa, EmptyNa, EmptyNa>>
        /\ q2 = "arp" /\ \E h \in Recipients(r2, h2) \cap Hosts :
                           c = <<"got", h, g2, EmptyNa, EmptyNa, EmptyNa>>
    BY <1>1, <1>2, <1>5
  <2>2. g1 = g2
    BY <2>1
  <2>3. r1 = r2 /\ h1 = h2 /\ s1 = s2 /\ d1 = d2
    BY <1>3, <2>1, <2>2, GotFromOne
  <2> QED
    BY <1>1, <1>2, <2>1, <2>2, <2>3
<1>6. CASE c[1] = "arp"
  <2>1. CASE q1 = "sub" /\ q2 = "sub"
    BY <1>1, <1>2, <1>3, <1>6, <2>1, SubLawful
  <2>2. CASE q1 = "data" /\ q2 = "data"
    <3>1. /\ r1 = r2 /\ g1 = g2 /\ s1 = s2 /\ Home(g1, d1) = Home(g2, d2)
      BY <1>1, <1>2, <1>6, <2>2
    <3>2. d1 = d2 /\ h1 = h2
      BY <1>3, <2>2, <3>1, ArpFromOne
    <3> QED
      BY <1>1, <1>2, <2>2, <3>1, <3>2
  <2>3. CASE q1 = "data" /\ q2 = "sub"
    <3>1. s1 = EmptyNa
      BY <1>3, <2>3, ArpFromOne
    <3>2. s2 = net.home[g2] /\ net.home[g2] # EmptyNa
      BY <1>1, <1>2, <1>3, <1>6, <2>3, SubLawful, NetworkKnown
    <3> QED
      BY <1>1, <1>2, <1>6, <2>3, <3>1, <3>2
  <2>4. CASE q1 = "sub" /\ q2 = "data"
    <3>1. s2 = EmptyNa
      BY <1>3, <2>4, ArpFromOne
    <3>2. s1 = net.home[g1] /\ net.home[g1] # EmptyNa
      BY <1>1, <1>2, <1>3, <1>6, <2>4, SubLawful, NetworkKnown
    <3> QED
      BY <1>1, <1>2, <1>6, <2>4, <3>1, <3>2
  <2>5. q1 \in {"data", "sub"} /\ q2 \in {"data", "sub"}
    BY <1>1, <1>2, <1>6
  <2> QED
    BY <2>1, <2>2, <2>3, <2>4, <2>5
<1>7. CASE c[1] = "sub"
  <2>1. CASE q1 = "in" /\ q2 = "in"
    BY <1>1, <1>2, <1>7, <2>1
  <2>2. CASE q1 = "data" /\ q2 = "data"
    <3>1. PICK x : /\ x \in Targets(r1, g1) /\ Home(g1, d1) = r1 /\ c = <<"sub", r1, x, r1, r1, h1>>
                   /\ x \in Targets(r2, g2) /\ Home(g2, d2) = r2 /\ c = <<"sub", r2, x, r2, r2, h2>>
      BY <1>1, <1>2, <1>7, <2>2
    <3>2. r1 = r2
      BY <3>1
    <3>3. g1 = g2 /\ s1 = s2 /\ d1 = d2 /\ h1 = h2
      BY <1>3, <2>2, <3>1, <3>2, ExpandedFromOne
    <3> QED
      BY <1>1, <1>2, <2>2, <3>2, <3>3
  <2>3. CASE q1 = "data" /\ q2 = "in"
    <3>1. PICK x \in Targets(r1, g1) \cap DOMAIN mapping[r1] :
            Home(g1, d1) = r1 /\ c = <<"sub", r1, x, r1, r1, h1>>
      BY <1>1, <1>7, <2>3
    <3>2. net.home[x] = r1
      BY <1>3, <2>3, <3>1, ServedLawful
    <3>3. r2 # net.home[g2] /\ c = <<"sub", r2, g2, s2, d2, h2>>
      BY <1>2, <1>3, <1>7, <2>3, NetworkKnown DEF Lawful, FromRP
    <3> QED
      BY <3>1, <3>2, <3>3
  <2>4. CASE q1 = "in" /\ q2 = "data"
    <3>1. PICK x \in Targets(r2, g2) \cap DOMAIN mapping[r2] :
            Home(g2, d2) = r2 /\ c = <<"sub", r2, x, r2, r2, h2>>
      BY <1>2, <1>7, <2>4
    <3>2. net.home[x] = r2
      BY <1>3, <2>4, <3>1, ServedLawful
    <3>3. r1 # net.home[g1] /\ c = <<"sub", r1, g1, s1, d1, h1>>
      BY <1>1, <1>3, <1>7, <2>4, NetworkKnown DEF Lawful, FromRP
    <3> QED
      BY <3>1, <3>2, <3>3
  <2>5. q1 \in {"data", "in"} /\ q2 \in {"data", "in"}
    BY <1>1, <1>2, <1>7
  <2> QED
    BY <2>1, <2>2, <2>3, <2>4, <2>5
<1>8. CASE c[1] = "data"
  <2>1. CASE q1 = "in" /\ q2 = "in"
    BY <1>1, <1>2, <1>8, <2>1
  <2>2. CASE q1 = "data" /\ q2 = "data"
    <3>1. PICK x : /\ x \in Targets(r1, g1) /\ Home(g1, d1) = r1
                   /\ c = <<"data", r1, x, EmptyNa, EmptyNa, h1>>
                   /\ x \in Targets(r2, g2) /\ Home(g2, d2) = r2
                   /\ c = <<"data", r2, x, EmptyNa, EmptyNa, h2>>
      BY <1>1, <1>2, <1>8, <2>2
    <3>2. r1 = r2
      BY <3>1
    <3>3. g1 = g2 /\ s1 = s2 /\ d1 = d2 /\ h1 = h2
      BY <1>3, <2>2, <3>1, <3>2, ExpandedFromOne
    <3> QED
      BY <1>1, <1>2, <2>2, <3>2, <3>3
  <2>3. CASE q1 = "data" /\ q2 = "in"
    <3>1. PICK x \in Targets(r1, g1) \ DOMAIN mapping[r1] :
            Home(g1, d1) = r1 /\ c = <<"data", r1, x, EmptyNa, EmptyNa, h1>>
      BY <1>1, <1>8, <2>3
    <3>2. ~Addressed(input, x, EmptyNa)
      BY <1>3, <2>3, <3>1, UnservedLawful
    <3>3. d2 = EmptyNa => Addressed(input, g2, EmptyNa)
      BY <1>3, <2>3, NetworkKnown DEF Lawful, ToResolve, FromRP
    <3> QED
      BY <1>2, <1>8, <2>3, <3>1, <3>2, <3>3
  <2>4. CASE q1 = "in" /\ q2 = "data"
    <3>1. PICK x \in Targets(r2, g2) \ DOMAIN mapping[r2] :
            Home(g2, d2) = r2 /\ c = <<"data", r2, x, EmptyNa, EmptyNa, h2>>
      BY <1>2, <1>8, <2>4
    <3>2. ~Addressed(input, x, EmptyNa)
      BY <1>3, <2>4, <3>1, UnservedLawful
    <3>3. d1 = EmptyNa => Addressed(input, g1, EmptyNa)
      BY <1>3, <2>4, NetworkKnown DEF Lawful, ToResolve, FromRP
    <3> QED
      BY <1>1, <1>8, <2>4, <3>1, <3>2, <3>3
  <2>5. q1 \in {"data", "in"} /\ q2 \in {"data", "in"}
    BY <1>1, <1>2, <1>8
  <2> QED
    BY <2>1, <2>2, <2>3, <2>4, <2>5
<1>9. c[1] \in {"in", "got", "arp", "sub", "data"}
  BY <1>1
<1> QED
  BY <1>4, <1>5, <1>6, <1>7, <1>8, <1>9

(* Nothing leads back to the start of a publication.                       *)
LEMMA StartFirst ==
  ASSUME Static, NEW input \in net.inputs, NEW s \in LawfulStations(input)
  PROVE  Start(input) \notin ChildrenIn(Road, s)
<1> SUFFICES ASSUME Start(input) \in ChildrenIn(Road, s) PROVE FALSE
  OBVIOUS
<1>1. PICK r \in Routers, h \in NextHops :
        /\ s = <<"arp", r, input.guid, EmptyNa, input.dstNa, h>> /\ input.at \in Recipients(r, h)
  BY RoadBack DEF Start
<1>2. Lawful(input, "arp", r, input.guid, EmptyNa, input.dstNa, h)
  BY <1>1 DEF LawfulStations
<1> DEFINE d == input.dstNa
           o == Origin(input, input.guid, d)
<1>3. /\ d \in net.rps /\ o \in net.rps \cup {i.at : i \in net.inputs}
      /\ r \in Descendants(Ways(d), o) /\ input.at \in ChildrenIn(Ways(d), r)
  BY <1>1, <1>2, ArpUpLawful
<1>4. o = input.at
  BY DEF Origin, Addressed
<1> HIDE DEF d, o
<1> QED
  BY <1>3, <1>4, WaysOnward

(* The stations below the start of a publication are a tree.               *)
THEOREM StationTree ==
  ASSUME Static, NEW input \in net.inputs
  PROVE  Tree(Road, Start(input))
<1>1. OneParent(Road, Descendants(Road, Start(input)))
  BY AllLawful, RoadOneParent DEF OneParent
<1> QED
  BY <1>1, AllLawful, StartFirst DEF Tree

-----------------------------------------------------------------------------
(* The copies of the publications, as tokens.                              *)

Holders ==
  (Queues \X Routers \X {Header}) \cup ({"held"} \X Routers \X Guids)
    \cup ({"got"} \X Hosts \X {Header})

Token(q, r, p) == <<p.id, <<q, r, p.guid, p.srcNa, p.dstNa, p.nextHop>>>>
Tokens(q, r, ps) == [i \in 1..Len(ps) |-> Token(q, r, ps[i])]
Given(h, rs) == [i \in 1..Len(rs) |-> <<rs[i].id, <<"got", h, rs[i].guid, EmptyNa, EmptyNa, EmptyNa>>>>]

(* A held packet is where it was when it came to the cache.                *)
ContOf(queues, held, given) ==
  [c \in Holders |->
     CASE c[1] = "held" -> Tokens("data", c[2], held[c[2]][c[3]])
       [] c[1] = "got" -> Given(c[2], given[c[2]])
       [] OTHER -> Tokens(c[1], c[2], queues[c[2]][c[1]])]
Cont == ContOf(queue, pending, received)

(* What is held came before what is in the queue.                          *)
Prior == {<<<<"held", r, g>>, <<"data", r, Header>>>> : r \in Routers, g \in Guids}

Starts == [i \in 1..Len(published) |-> Start(published[i])]

Deliveries == [id : 1..MaxPublications, guid : Guids]

LEMMA TokensAre ==
  ASSUME NEW q \in Queues, NEW r \in Routers, NEW ps \in Seq(Packets)
  PROVE  /\ Tokens(q, r, ps) \in Seq(Nat \X Stations) /\ Len(Tokens(q, r, ps)) = Len(ps)
         /\ \A i \in 1..Len(ps) : Tokens(q, r, ps)[i] = Token(q, r, ps[i])
<1>1. ASSUME NEW i \in 1..Len(ps) PROVE Token(q, r, ps[i]) \in Nat \X Stations
  <2>1. ps[i] \in Packets
    BY ElementOfSeq
  <2> QED
    BY <2>1, BoundAssumption DEF Packets, Token, Stations, Nas
<1> QED
  BY <1>1 DEF Tokens

LEMMA GivenAre ==
  ASSUME Static, NEW h \in Hosts, NEW rs \in Seq(Deliveries)
  PROVE  /\ Given(h, rs) \in Seq(Nat \X Stations) /\ Len(Given(h, rs)) = Len(rs)
         /\ \A i \in 1..Len(rs) :
              Given(h, rs)[i] = <<rs[i].id, <<"got", h, rs[i].guid, EmptyNa, EmptyNa, EmptyNa>>>>
<1>1. ASSUME NEW i \in 1..Len(rs)
      PROVE <<rs[i].id, <<"got", h, rs[i].guid, EmptyNa, EmptyNa, EmptyNa>>>> \in Nat \X Stations
  <2>1. rs[i] \in Deliveries
    BY ElementOfSeq
  <2> QED
    BY <2>1, BoundAssumption, HopsKnown DEF Deliveries, Stations, Nas
<1> QED
  BY <1>1 DEF Given

(* Queues, held packets and deliveries of the types they should have.      *)
Typed(queues, held, given) ==
  /\ \A r \in Routers, q \in Queues : queues[r][q] \in Seq(Packets)
  /\ \A r \in Routers, g \in Guids : held[r][g] \in Seq(Packets)
  /\ \A h \in Hosts : given[h] \in Seq(Deliveries)

LEMMA ContAt ==
  ASSUME NEW queues, NEW held, NEW given
  PROVE  /\ DOMAIN ContOf(queues, held, given) = Holders
         /\ \A r \in Routers, q \in Queues :
              ContOf(queues, held, given)[<<q, r, Header>>] = Tokens(q, r, queues[r][q])
         /\ \A r \in Routers, g \in Guids :
              ContOf(queues, held, given)[<<"held", r, g>>] = Tokens("data", r, held[r][g])
         /\ \A h \in Hosts :
              ContOf(queues, held, given)[<<"got", h, Header>>] = Given(h, given[h])
BY DEF ContOf, Holders, Queues

LEMMA HolderKinds ==
  ASSUME NEW c \in Holders
  PROVE  \/ \E r \in Routers, q \in Queues : c = <<q, r, Header>>
         \/ \E r \in Routers, g \in Guids : c = <<"held", r, g>>
         \/ \E h \in Hosts : c = <<"got", h, Header>>
BY DEF Holders

LEMMA ContHolds ==
  ASSUME Static, NEW queues, NEW held, NEW given, Typed(queues, held, given)
  PROVE  Holds(ContOf(queues, held, given), Holders, Stations)
<1> DEFINE cont == ContOf(queues, held, given)
<1>1. ASSUME NEW c \in Holders PROVE cont[c] \in Seq(Nat \X Stations)
  <2>1. CASE \E r \in Routers, q \in Queues : c = <<q, r, Header>>
    BY <2>1, ContAt, TokensAre DEF Typed
  <2>2. CASE \E r \in Routers, g \in Guids : c = <<"held", r, g>>
    <3>1. PICK r \in Routers, g \in Guids : c = <<"held", r, g>>
      BY <2>2
    <3>2. cont[c] = Tokens("data", r, held[r][g])
      BY <3>1, ContAt
    <3>3. "data" \in Queues /\ held[r][g] \in Seq(Packets)
      BY DEF Queues, Typed
    <3> QED
      BY <3>2, <3>3, TokensAre
  <2>3. CASE \E h \in Hosts : c = <<"got", h, Header>>
    BY <2>3, ContAt, GivenAre DEF Typed
  <2> QED
    BY <2>1, <2>2, <2>3, HolderKinds
<1> QED
  BY <1>1 DEF Holds, ContOf

(* How a step changes the holders: t loses its first n.                    *)
Shifts(queues, held, given, queues2, held2, given2, queues3, held3, given3, t, n) ==
  /\ \A r \in Routers, q \in Queues :
       Shift(queues[r][q], queues2[r][q], queues3[r][q], Dropped(<<q, r, Header>>, t, n))
  /\ \A r \in Routers, g \in Guids :
       Shift(held[r][g], held2[r][g], held3[r][g], Dropped(<<"held", r, g>>, t, n))
  /\ \A h \in Hosts :
       Shift(given[h], given2[h], given3[h], Dropped(<<"got", h, Header>>, t, n))

LEMMA ContShifts ==
  ASSUME Static, NEW queues, NEW held, NEW given, Typed(queues, held, given),
         NEW queues2, NEW held2, NEW given2, Typed(queues2, held2, given2),
         NEW queues3, NEW held3, NEW given3, Typed(queues3, held3, given3),
         NEW t \in Holders, NEW n \in Nat, n <= Len(ContOf(queues, held, given)[t]),
         Shifts(queues, held, given, queues2, held2, given2, queues3, held3, given3, t, n)
  PROVE  Shifted(ContOf(queues, held, given), ContOf(queues2, held2, given2),
                 ContOf(queues3, held3, given3), t, n)
<1> DEFINE cont == ContOf(queues, held, given)
           pushed == ContOf(queues2, held2, given2)
           new == ContOf(queues3, held3, given3)
<1>1. ASSUME NEW c \in Holders PROVE Shift(cont[c], pushed[c], new[c], Dropped(c, t, n))
  <2>1. Dropped(c, t, n) \in Nat /\ Dropped(c, t, n) <= Len(cont[c])
    <3>1. Len(cont[c]) \in Nat
      BY ContHolds, LenProperties DEF Holds
    <3> QED
      BY <3>1 DEF Dropped
  <2>2. CASE \E r \in Routers, q \in Queues : c = <<q, r, Header>>
    <3>1. PICK r \in Routers, q \in Queues : c = <<q, r, Header>>
      BY <2>2
    <3>2. /\ cont[c] = Tokens(q, r, queues[r][q]) /\ pushed[c] = Tokens(q, r, queues2[r][q])
          /\ new[c] = Tokens(q, r, queues3[r][q])
      BY <3>1, ContAt
    <3>3. /\ queues[r][q] \in Seq(Packets) /\ queues2[r][q] \in Seq(Packets)
          /\ queues3[r][q] \in Seq(Packets)
      BY DEF Typed
    <3>4. Shift(queues[r][q], queues2[r][q], queues3[r][q], Dropped(c, t, n))
      BY <3>1 DEF Shifts
    <3> DEFINE F == [p \in Packets |-> Token(q, r, p)]
    <3>5. \A ps \in Seq(Packets) : IsMap(F, ps, Tokens(q, r, ps))
      BY <3>3, TokensAre, ElementOfSeq DEF IsMap
    <3> DEFINE s == queues[r][q]
               p == queues2[r][q]
               s2 == queues3[r][q]
               k == Dropped(c, t, n)
    <3>6. s \in Seq(Packets) /\ p \in Seq(Packets) /\ s2 \in Seq(Packets) /\ k \in Nat /\ Shift(s, p, s2, k)
      BY <2>1, <3>3, <3>4
    <3> HIDE DEF cont, pushed, new, F
    <3>7. IsMap(F, s, cont[c]) /\ IsMap(F, p, pushed[c]) /\ IsMap(F, s2, new[c])
      BY <3>2, <3>3, <3>5
    <3>8. k <= Len(s)
      BY <2>1, <3>7 DEF IsMap
    <3> HIDE DEF s, p, s2, k
    <3>9. Shift(cont[c], pushed[c], new[c], k)
      BY <3>6, <3>7, <3>8, ShiftMap
    <3> QED
      BY <3>9 DEF k
  <2>3. CASE \E r \in Routers, g \in Guids : c = <<"held", r, g>>
    <3>1. PICK r \in Routers, g \in Guids : c = <<"held", r, g>>
      BY <2>3
    <3>2. /\ cont[c] = Tokens("data", r, held[r][g]) /\ pushed[c] = Tokens("data", r, held2[r][g])
          /\ new[c] = Tokens("data", r, held3[r][g])
      BY <3>1, ContAt
    <3>3. /\ held[r][g] \in Seq(Packets) /\ held2[r][g] \in Seq(Packets)
          /\ held3[r][g] \in Seq(Packets) /\ "data" \in Queues
      BY DEF Typed, Queues
    <3>4. Shift(held[r][g], held2[r][g], held3[r][g], Dropped(c, t, n))
      BY <3>1 DEF Shifts
    <3> DEFINE F == [p \in Packets |-> Token("data", r, p)]
    <3>5. \A ps \in Seq(Packets) : IsMap(F, ps, Tokens("data", r, ps))
      BY <3>3, TokensAre, ElementOfSeq DEF IsMap
    <3> DEFINE s == held[r][g]
               p == held2[r][g]
               s2 == held3[r][g]
               k == Dropped(c, t, n)
    <3>6. s \in Seq(Packets) /\ p \in Seq(Packets) /\ s2 \in Seq(Packets) /\ k \in Nat /\ Shift(s, p, s2, k)
      BY <2>1, <3>3, <3>4
    <3> HIDE DEF cont, pushed, new, F
    <3>7. IsMap(F, s, cont[c]) /\ IsMap(F, p, pushed[c]) /\ IsMap(F, s2, new[c])
      BY <3>2, <3>3, <3>5
    <3>8. k <= Len(s)
      BY <2>1, <3>7 DEF IsMap
    <3> HIDE DEF s, p, s2, k
    <3>9. Shift(cont[c], pushed[c], new[c], k)
      BY <3>6, <3>7, <3>8, ShiftMap
    <3> QED
      BY <3>9 DEF k
  <2>4. CASE \E h \in Hosts : c = <<"got", h, Header>>
    <3>1. PICK h \in Hosts : c = <<"got", h, Header>>
      BY <2>4
    <3>2. /\ cont[c] = Given(h, given[h]) /\ pushed[c] = Given(h, given2[h])
          /\ new[c] = Given(h, given3[h])
      BY <3>1, ContAt
    <3>3. /\ given[h] \in Seq(Deliveries) /\ given2[h] \in Seq(Deliveries)
          /\ given3[h] \in Seq(Deliveries)
      BY DEF Typed
    <3>4. Shift(given[h], given2[h], given3[h], Dropped(c, t, n))
      BY <3>1 DEF Shifts
    <3> DEFINE F == [p \in Deliveries |-> <<p.id, <<"got", h, p.guid, EmptyNa, EmptyNa, EmptyNa>>>>]
    <3>5. \A ps \in Seq(Deliveries) : IsMap(F, ps, Given(h, ps))
      BY GivenAre, ElementOfSeq DEF IsMap
    <3> DEFINE s == given[h]
               p == given2[h]
               s2 == given3[h]
               k == Dropped(c, t, n)
    <3>6. s \in Seq(Deliveries) /\ p \in Seq(Deliveries) /\ s2 \in Seq(Deliveries) /\ k \in Nat /\ Shift(s, p, s2, k)
      BY <2>1, <3>3, <3>4
    <3> HIDE DEF cont, pushed, new, F
    <3>7. IsMap(F, s, cont[c]) /\ IsMap(F, p, pushed[c]) /\ IsMap(F, s2, new[c])
      BY <3>2, <3>3, <3>5
    <3>8. k <= Len(s)
      BY <2>1, <3>7 DEF IsMap
    <3> HIDE DEF s, p, s2, k
    <3>9. Shift(cont[c], pushed[c], new[c], k)
      BY <3>6, <3>7, <3>8, ShiftMap
    <3> QED
      BY <3>9 DEF k
  <2> QED
    BY <2>2, <2>3, <2>4, HolderKinds
<1>2. DOMAIN cont = Holders /\ DOMAIN pushed = Holders /\ DOMAIN new = Holders
  BY ContAt
<1> HIDE DEF cont, pushed, new
<1>3. Shifted(cont, pushed, new, t, n)
  BY <1>1, <1>2 DEF Shifted, Shift
<1> QED
  BY <1>3 DEF cont, pushed, new

(* A packet is held under its own GUID, because it has no NA.              *)
Labelled(held) ==
  \A r \in Routers, g \in Guids : \A i \in 1..Len(held[r][g]) :
    held[r][g][i].guid = g /\ held[r][g][i].dstNa = EmptyNa

(* A station names its holder, or that of the packets held before.         *)
LEMMA StationTells ==
  ASSUME Static, NEW queues, NEW held, NEW given, Typed(queues, held, given), Labelled(held),
         NEW x \in PlacesOf(ContOf(queues, held, given))
  PROVE  LET s == TokenAt(ContOf(queues, held, given), x)[2]
         IN  \/ \E r \in Routers, q \in Queues : x[1] = <<q, r, Header>> /\ s[1] = q /\ s[2] = r
             \/ \E r \in Routers, g \in Guids :
                   /\ x[1] = <<"held", r, g>>
                   /\ s[1] = "data" /\ s[2] = r /\ s[3] = g /\ s[5] = EmptyNa
             \/ \E h \in Hosts : x[1] = <<"got", h, Header>> /\ s[1] = "got" /\ s[2] = h
<1> DEFINE cont == ContOf(queues, held, given)
<1>1. x[1] \in Holders /\ x[2] \in 1..Len(cont[x[1]])
  BY ContAt DEF PlacesOf
<1>2. CASE \E r \in Routers, q \in Queues : x[1] = <<q, r, Header>>
  <2>1. PICK r \in Routers, q \in Queues : x[1] = <<q, r, Header>>
    BY <1>2
  <2>2. cont[x[1]] = Tokens(q, r, queues[r][q])
    BY <2>1, ContAt
  <2> QED
    BY <1>1, <2>1, <2>2, TokensAre DEF TokenAt, Token, Typed
<1>3. CASE \E r \in Routers, g \in Guids : x[1] = <<"held", r, g>>
  <2>1. PICK r \in Routers, g \in Guids : x[1] = <<"held", r, g>>
    BY <1>3
  <2>2. cont[x[1]] = Tokens("data", r, held[r][g])
    BY <2>1, ContAt
  <2>3. held[r][g] \in Seq(Packets) /\ "data" \in Queues
    BY DEF Typed, Queues
  <2>4. x[2] \in 1..Len(held[r][g]) /\ cont[x[1]][x[2]] = Token("data", r, held[r][g][x[2]])
    BY <1>1, <2>2, <2>3, TokensAre
  <2> QED
    BY <2>1, <2>4, SMTT(20) DEF TokenAt, Token, Labelled
<1>4. CASE \E h \in Hosts : x[1] = <<"got", h, Header>>
  <2>1. PICK h \in Hosts : x[1] = <<"got", h, Header>>
    BY <1>4
  <2>2. cont[x[1]] = Given(h, given[h])
    BY <2>1, ContAt
  <2> QED
    BY <1>1, <2>1, <2>2, GivenAre DEF TokenAt, Typed
<1> QED
  BY <1>1, <1>2, <1>3, <1>4, HolderKinds

LEMMA ContTogether ==
  ASSUME Static, NEW queues, NEW held, NEW given, Typed(queues, held, given), Labelled(held)
  PROVE  Together(ContOf(queues, held, given), Prior)
<1> DEFINE cont == ContOf(queues, held, given)
<1> SUFFICES ASSUME NEW x \in PlacesOf(cont), NEW y \in PlacesOf(cont),
                    TokenAt(cont, x)[2] = TokenAt(cont, y)[2]
             PROVE  x[1] = y[1] \/ <<x[1], y[1]>> \in Prior \/ <<y[1], x[1]>> \in Prior
  BY DEF Together
<1> HIDE DEF cont
<1>1. LET s == TokenAt(cont, x)[2]
      IN  \/ \E r \in Routers, q \in Queues : x[1] = <<q, r, Header>> /\ s[1] = q /\ s[2] = r
          \/ \E r \in Routers, g \in Guids :
                   /\ x[1] = <<"held", r, g>>
                   /\ s[1] = "data" /\ s[2] = r /\ s[3] = g /\ s[5] = EmptyNa
          \/ \E h \in Hosts : x[1] = <<"got", h, Header>> /\ s[1] = "got" /\ s[2] = h
  BY StationTells DEF cont
<1>2. LET s == TokenAt(cont, y)[2]
      IN  \/ \E r \in Routers, q \in Queues : y[1] = <<q, r, Header>> /\ s[1] = q /\ s[2] = r
          \/ \E r \in Routers, g \in Guids :
                   /\ y[1] = <<"held", r, g>>
                   /\ s[1] = "data" /\ s[2] = r /\ s[3] = g /\ s[5] = EmptyNa
          \/ \E h \in Hosts : y[1] = <<"got", h, Header>> /\ s[1] = "got" /\ s[2] = h
  BY StationTells DEF cont
<1> QED
  BY <1>1, <1>2 DEF Prior, Queues

NoneHeld == [r \in Routers |-> [g \in Guids |-> <<>>]]

(* What one packet becomes in a holder: copies of it at different stations *)
(* that follow its own.                                                    *)
Follow(token, tokens) ==
  /\ \A i \in 1..Len(tokens) : tokens[i][1] = token[1] /\ tokens[i][2] \in ChildrenIn(Road, token[2])
  /\ \A i \in 1..Len(tokens), j \in 1..Len(tokens) : tokens[i][2] = tokens[j][2] => i = j

LEMMA CopiesOfOne ==
  ASSUME Static, NEW queues, NEW held, NEW given, Typed(queues, held, given),
         NEW queues2, NEW given2, Typed(queues2, NoneHeld, given2), NEW t \in Holders,
         \A c \in Holders :
           Follow(ContOf(queues, held, given)[t][1], ContOf(queues2, NoneHeld, given2)[c])
  PROVE  \E from : CopiesPushed(ContOf(queues, held, given), ContOf(queues2, NoneHeld, given2), t, 1, from, Road)
<1> DEFINE cont == ContOf(queues, held, given)
           pushed == ContOf(queues2, NoneHeld, given2)
           from == [x \in PlacesOf(pushed) |-> 1]
<1>1. Labelled(NoneHeld)
  BY DEF Labelled, NoneHeld
<1>2. Together(pushed, Prior)
  BY <1>1, ContTogether
<1>3. \A x \in PlacesOf(pushed) : x[1] \in Holders /\ x[2] \in 1..Len(pushed[x[1]]) /\ x = <<x[1], x[2]>>
  BY ContAt DEF PlacesOf
<1>4. \A p \in Prior : pushed[p[1]] = <<>>
  <2>1. \A r : Tokens("data", r, <<>>) = <<>>
    BY DEF Tokens
  <2>2. \A r \in Routers, g \in Guids : NoneHeld[r][g] = <<>>
    BY DEF NoneHeld
  <2> QED
    BY <2>1, <2>2, ContAt DEF Prior
<1>5. \A x \in PlacesOf(pushed) :
        /\ TokenAt(pushed, x)[1] = cont[t][1][1]
        /\ TokenAt(pushed, x)[2] \in ChildrenIn(Road, cont[t][1][2])
  BY <1>3 DEF Follow, TokenAt
<1>6. ASSUME NEW x \in PlacesOf(pushed), NEW y \in PlacesOf(pushed), x # y
      PROVE  TokenAt(pushed, x)[2] # TokenAt(pushed, y)[2]
  <2>1. SUFFICES ASSUME TokenAt(pushed, x)[2] = TokenAt(pushed, y)[2] PROVE FALSE
    OBVIOUS
  <2>2. pushed[x[1]] # <<>> /\ pushed[y[1]] # <<>>
    BY <1>3
  <2>3. x[1] = y[1]
    BY <1>2, <1>4, <2>1, <2>2 DEF Together
  <2>4. x[2] = y[2]
    BY <1>3, <2>1, <2>3 DEF Follow, TokenAt
  <2> QED
    BY <1>3, <1>6, <2>3, <2>4
<1>7. from \in [PlacesOf(pushed) -> 1..1] /\ \A x \in PlacesOf(pushed) : from[x] = 1
  OBVIOUS
<1> HIDE DEF cont, pushed, from
<1>8. CopiesPushed(cont, pushed, t, 1, from, Road)
  BY <1>5, <1>6, <1>7 DEF CopiesPushed
<1> QED
  BY <1>8 DEF cont, pushed

(* The tokens stay in order when the first n of a holder are replaced by   *)
(* copies that follow them.                                                *)
LEMMA TokensMove ==
  ASSUME Static, NEW starts, Trees(Road, starts),
         NEW queues, NEW held, NEW given, Typed(queues, held, given), Labelled(held),
         NEW queues2, NEW given2, Typed(queues2, NoneHeld, given2),
         NEW queues3, NEW held3, NEW given3, Typed(queues3, held3, given3), Labelled(held3),
         NEW t \in Holders, NEW n \in Nat, n <= Len(ContOf(queues, held, given)[t]),
         Shifts(queues, held, given, queues2, NoneHeld, given2, queues3, held3, given3, t, n),
         \E from : CopiesPushed(ContOf(queues, held, given), ContOf(queues2, NoneHeld, given2), t, n, from, Road),
         \A r \in Routers : t = <<"data", r, Header>> =>
           \A j \in 1..n, g \in Guids : \A i \in 1..Len(held[r][g]) :
             Token("data", r, held[r][g][i])[2] # Token("data", r, queues[r]["data"][j])[2],
         TokensOK(ContOf(queues, held, given), Road, starts, Prior)
  PROVE  TokensOK(ContOf(queues3, held3, given3), Road, starts, Prior)
<1> DEFINE cont == ContOf(queues, held, given)
           pushed == ContOf(queues2, NoneHeld, given2)
           new == ContOf(queues3, held3, given3)
<1>1. Holds(cont, Holders, Stations) /\ Holds(pushed, Holders, Stations) /\ Holds(new, Holders, Stations)
  BY ContHolds
<1>2. Shifted(cont, pushed, new, t, n)
  BY ContShifts
<1>3. Together(new, Prior)
  BY ContTogether
<1>4. ASSUME NEW p \in Prior
      PROVE  p \in (DOMAIN cont) \X (DOMAIN cont) /\ p[1] # p[2] /\ pushed[p[1]] = <<>>
  <2>1. PICK r \in Routers, g \in Guids : p = <<<<"held", r, g>>, <<"data", r, Header>>>>
    BY <1>4 DEF Prior
  <2>2. Tokens("data", r, <<>>) = <<>> /\ NoneHeld[r][g] = <<>>
    BY DEF Tokens, NoneHeld
  <2>3. pushed[p[1]] = <<>>
    BY <2>1, <2>2, ContAt
  <2>4. DOMAIN cont = Holders
    BY ContAt
  <2>5. <<"held", r, g>> \in Holders /\ <<"data", r, Header>> \in Holders
    BY DEF Holders, Queues
  <2> HIDE DEF cont, pushed
  <2> QED
    BY <2>1, <2>3, <2>4, <2>5
<1>5. ASSUME NEW p \in Prior, NEW j \in 1..n, p[2] = t, NEW i \in 1..Len(cont[p[1]])
      PROVE  cont[p[1]][i][2] # cont[t][j][2]
  <2>1. PICK r \in Routers, g \in Guids : p = <<<<"held", r, g>>, <<"data", r, Header>>>>
    BY DEF Prior
  <2>2. /\ "data" \in Queues /\ t = <<"data", r, Header>>
        /\ held[r][g] \in Seq(Packets) /\ queues[r]["data"] \in Seq(Packets)
    BY <1>5, <2>1 DEF Typed, Queues
  <2>3. cont[p[1]] = Tokens("data", r, held[r][g]) /\ cont[t] = Tokens("data", r, queues[r]["data"])
    BY <2>1, <2>2, ContAt
  <2> HIDE DEF cont
  <2>4. i \in 1..Len(held[r][g]) /\ cont[p[1]][i] = Token("data", r, held[r][g][i])
    BY <1>5, <2>2, <2>3, TokensAre
  <2>5. Len(cont[t]) = Len(queues[r]["data"]) /\ Len(queues[r]["data"]) \in Nat
    BY <2>2, <2>3, TokensAre, LenProperties
  <2>6. j \in 1..Len(queues[r]["data"])
    BY <2>5 DEF cont
  <2>7. cont[t][j] = Token("data", r, queues[r]["data"][j])
    BY <2>2, <2>3, <2>6, TokensAre
  <2> QED
    BY <2>2, <2>4, <2>7
<1>6. NonePrior(cont, pushed, t, n, Prior)
  BY <1>4, <1>5 DEF NonePrior
<1>7. PICK from : CopiesPushed(cont, pushed, t, n, from, Road)
  OBVIOUS
<1>8. n <= Len(cont[t]) /\ TokensOK(cont, Road, starts, Prior)
  OBVIOUS
<1> HIDE DEF cont, pushed, new
<1>9. TokensOK(new, Road, starts, Prior)
  BY <1>1, <1>2, <1>3, <1>6, <1>7, <1>8, MoveSome
<1> QED
  BY <1>9 DEF new

-----------------------------------------------------------------------------
(* The queues after a step.                                                *)

LEMMA FittingShift ==
  ASSUME Static, NEW s \in Seq(Packets), NEW p \in Seq(Packets)
  PROVE  /\ Shift(s, p, Fitting(s \o p), 0)
         /\ s # <<>> => Shift(s, p, Fitting(Tail(s) \o p), 1)
         /\ \A u \in Seq(Packets) : Fitting(u) \in Seq(Packets) /\ Len(Fitting(u)) <= net.capacity
<1>1. net.capacity \in Nat \ {0} /\ \A u : Fitting(u) = CutTo(u, net.capacity)
  BY NetworkKnown DEF Fitting, CutTo
<1> QED
  BY <1>1, CutShift

LEMMA TransferShift ==
  ASSUME Static, \A r \in Routers, q \in Queues : queue[r][q] \in Seq(Packets), overflowed \in BOOLEAN,
         NEW taken, \A r \in Routers, q \in Queues : <<r, q>> \in taken => Busy(r, q),
         NEW pushed, \A r \in Routers, q \in Queues : pushed[r][q] \in Seq(Packets),
         Transfer(taken, pushed)
  PROVE  /\ overflowed' \in BOOLEAN
         /\ \A r \in Routers, q \in Queues :
              /\ queue'[r][q] \in Seq(Packets) /\ Len(queue'[r][q]) <= net.capacity
              /\ Shift(queue[r][q], pushed[r][q], queue'[r][q], IF <<r, q>> \in taken THEN 1 ELSE 0)
<1>1. overflowed' \in BOOLEAN
  BY DEF Transfer
<1>2. ASSUME NEW r \in Routers, NEW q \in Queues
      PROVE  /\ queue'[r][q] \in Seq(Packets) /\ Len(queue'[r][q]) <= net.capacity
             /\ Shift(queue[r][q], pushed[r][q], queue'[r][q], IF <<r, q>> \in taken THEN 1 ELSE 0)
  <2>1. queue[r][q] \in Seq(Packets) /\ pushed[r][q] \in Seq(Packets)
    OBVIOUS
  <2>2. queue'[r][q] = Fitting((IF <<r, q>> \in taken THEN Tail(queue[r][q]) ELSE queue[r][q]) \o pushed[r][q])
    BY DEF Transfer
  <2>3. CASE <<r, q>> \in taken
    <3>1. queue[r][q] # <<>>
      BY <2>3 DEF Busy
    <3>2. Tail(queue[r][q]) \o pushed[r][q] \in Seq(Packets)
      BY <2>1, <3>1, HeadTailProperties, ConcatProperties
    <3>3. queue'[r][q] = Fitting(Tail(queue[r][q]) \o pushed[r][q])
      BY <2>2, <2>3
    <3> QED
      BY <2>1, <2>3, <3>1, <3>2, <3>3, FittingShift
  <2>4. CASE <<r, q>> \notin taken
    <3>1. queue[r][q] \o pushed[r][q] \in Seq(Packets)
      BY <2>1, ConcatProperties
    <3>2. queue'[r][q] = Fitting(queue[r][q] \o pushed[r][q])
      BY <2>2, <2>4
    <3> QED
      BY <2>1, <2>4, <3>1, <3>2, FittingShift
  <2> QED
    BY <2>3, <2>4
<1> QED
  BY <1>1, <1>2

-----------------------------------------------------------------------------
(* The inductive invariant.                                                *)

(* Nothing is held for a GUID that the cache knows.                        *)
KnownNotHeld ==
  \A r \in Routers, g \in Guids : g \in guidNas[r] => pending[r][g] = <<>>

IInv ==
  /\ TypeOK /\ Static /\ Labelled(pending) /\ KnownNotHeld
  /\ TokensOK(Cont, Road, Starts, Prior)

LEMMA SameTypes ==
  ASSUME UNCHANGED tables
  PROVE  /\ Packets' = Packets /\ Deliveries' = Deliveries /\ Holders' = Holders
         /\ Stations' = Stations /\ Guids' = Guids /\ Prior' = Prior
         /\ Cont' = ContOf(queue', pending', received')
BY DEF tables, Packets, Deliveries, Holders, Stations, Guids, Prior, Cont, ContOf, Nas, NextHops,
       SubscriberNas, Tokens, Token, Given, Queues

LEMMA StartsTrees ==
  ASSUME Static, published \in Seq(net.inputs)
  PROVE  Trees(Road, Starts)
<1>1. \A i \in 1..Len(published) : published[i] \in net.inputs
  BY ElementOfSeq
<1> QED
  BY <1>1, StationTree DEF Trees, Starts

LEMMA NowTyped ==
  ASSUME TypeOK
  PROVE  Typed(queue, pending, received)
BY DEF TypeOK, Typed, Deliveries

(* A task takes a packet and makes others of it.                           *)
LEMMA QueueStep ==
  ASSUME IInv, UNCHANGED <<tables, published, guidNas, pending>>,
         NEW r0 \in Routers, NEW q0 \in Queues, Busy(r0, q0),
         NEW pushed, NEW given, Typed(pushed, NoneHeld, given), Transfer({<<r0, q0>>}, pushed),
         received' = [h \in Hosts |-> received[h] \o given[h]],
         q0 = "data" /\ First(r0, q0).dstNa = EmptyNa => First(r0, q0).guid \in guidNas[r0],
         \A c \in Holders : Follow(Token(q0, r0, First(r0, q0)), ContOf(pushed, NoneHeld, given)[c])
  PROVE  IInv'
<1> DEFINE t == <<q0, r0, Header>>
           p == First(r0, q0)
<1>1. /\ TypeOK /\ Static /\ Labelled(pending) /\ KnownNotHeld /\ Typed(queue, pending, received)
      /\ TokensOK(Cont, Road, Starts, Prior)
  BY NowTyped DEF IInv
<1>2. UNCHANGED tables /\ UNCHANGED published /\ UNCHANGED guidNas /\ UNCHANGED pending /\ UNCHANGED net
  BY DEF tables
<1>3. /\ \A r \in Routers, q \in Queues : queue[r][q] \in Seq(Packets) /\ pushed[r][q] \in Seq(Packets)
      /\ overflowed \in BOOLEAN
      /\ \A h \in Hosts : received[h] \in Seq(Deliveries) /\ given[h] \in Seq(Deliveries)
      /\ \A r \in Routers, g \in Guids : pending[r][g] \in Seq(Packets)
  BY <1>1 DEF Typed, TypeOK
<1>4. \A r \in Routers, q \in Queues : <<r, q>> \in {<<r0, q0>>} => Busy(r, q)
  OBVIOUS
<1>5. /\ overflowed' \in BOOLEAN
      /\ \A r \in Routers, q \in Queues :
              /\ queue'[r][q] \in Seq(Packets) /\ Len(queue'[r][q]) <= net.capacity
              /\ Shift(queue[r][q], pushed[r][q], queue'[r][q], IF <<r, q>> \in {<<r0, q0>>} THEN 1 ELSE 0)
  BY <1>1, <1>3, <1>4, TransferShift
<1>6. \A h \in Hosts : received'[h] \in Seq(Deliveries) /\ Shift(received[h], given[h], received'[h], 0)
  BY <1>3, AddShift
<1>7. Typed(queue', pending', received')
  BY <1>2, <1>3, <1>5, <1>6 DEF Typed
<1>8. TypeOK'
  <2>1. received' \in [Hosts -> Seq(Deliveries)]
    BY <1>6
  <2> QED
    BY <1>1, <1>2, <1>5, <2>1, SameTypes DEF TypeOK, Deliveries
<1>9. Labelled(pending)' /\ KnownNotHeld' /\ Static'
  BY <1>1, <1>2, SameTypes, StaticSame DEF Labelled, KnownNotHeld
<1>10. t \in Holders
  BY DEF Holders
<1>11. Shifts(queue, pending, received, pushed, NoneHeld, given, queue', pending', received', t, 1)
  <2>1. \A r \in Routers, q \in Queues :
          Dropped(<<q, r, Header>>, t, 1) = IF <<r, q>> \in {<<r0, q0>>} THEN 1 ELSE 0
    BY DEF Dropped
  <2>2. \A r \in Routers, g \in Guids : Dropped(<<"held", r, g>>, t, 1) = 0
    BY DEF Dropped, Queues
  <2>3. \A h \in Hosts : Dropped(<<"got", h, Header>>, t, 1) = 0
    BY DEF Dropped, Queues
  <2>4. \A r \in Routers, g \in Guids : NoneHeld[r][g] = <<>>
    BY DEF NoneHeld
  <2>5. \A r \in Routers, g \in Guids : Shift(pending[r][g], NoneHeld[r][g], pending'[r][g], 0)
    BY <1>2, <1>3, <2>4, NothingShift
  <2> QED
    BY <1>5, <1>6, <2>1, <2>2, <2>3, <2>5 DEF Shifts
<1>12. /\ queue[r0][q0] \in Seq(Packets) /\ Len(queue[r0][q0]) \in Nat \ {0} /\ p = queue[r0][q0][1]
  BY <1>3, EmptySeq DEF Busy, First
<1>13. /\ ContOf(queue, pending, received)[t] = Tokens(q0, r0, queue[r0][q0])
       /\ 1 <= Len(ContOf(queue, pending, received)[t])
       /\ ContOf(queue, pending, received)[t][1] = Token(q0, r0, p)
  BY <1>12, ContAt, TokensAre
<1>14. \E from : CopiesPushed(ContOf(queue, pending, received), ContOf(pushed, NoneHeld, given), t, 1, from, Road)
  BY <1>1, <1>10, <1>13, CopiesOfOne
<1>15. ASSUME NEW r \in Routers, t = <<"data", r, Header>>, NEW j \in 1..1, NEW g \in Guids,
              NEW i \in 1..Len(pending[r][g])
       PROVE  Token("data", r, pending[r][g][i])[2] # Token("data", r, queue[r]["data"][j])[2]
  <2>1. j = 1 /\ r = r0 /\ q0 = "data"
    BY <1>15
  <2>2. pending[r][g][i].guid = g /\ pending[r][g][i].dstNa = EmptyNa
    BY <1>1 DEF Labelled
  <2>3. pending[r][g] # <<>>
    BY <1>3, EmptySeq
  <2>4. p.dstNa = EmptyNa => p.guid # g
    BY <1>1, <2>1, <2>3 DEF KnownNotHeld
  <2> QED
    BY <1>12, <2>1, <2>2, <2>4 DEF Token
<1>16. Trees(Road, Starts)
  BY <1>1, StartsTrees DEF TypeOK
<1>17. Labelled(pending')
  BY <1>1, <1>2
<1>18. TokensOK(ContOf(queue', pending', received'), Road, Starts, Prior)
  <2> HIDE DEF t
  <2>1. 1 \in Nat /\ TokensOK(ContOf(queue, pending, received), Road, Starts, Prior)
    BY <1>1 DEF Cont
  <2> QED
    BY <1>1, <1>7, <1>10, <1>11, <1>13, <1>14, <1>15, <1>16, <1>17, <2>1, TokensMove, SMTT(20)
<1>19. Starts' = Starts
  BY <1>2 DEF Starts, Start
<1> QED
  BY <1>2, <1>8, <1>9, <1>18, <1>19, SameTypes, RoadSame DEF IInv

-----------------------------------------------------------------------------
(* The tasks, but for the last one, push to queues of their own router.    *)

LEMMA NothingFollows ==
  ASSUME NEW token, NEW q, NEW r
  PROVE  Follow(token, Tokens(q, r, <<>>)) /\ Tokens(q, r, <<>>) = <<>>
BY DEF Follow, Tokens

LEMMA NoneTyped ==
  ASSUME NEW r \in Routers, NEW g \in Guids
  PROVE  NoneHeld[r][g] = <<>> /\ NoneHeld[r][g] \in Seq(Packets)
BY EmptySeq DEF NoneHeld

LEMMA LocalStep ==
  ASSUME IInv, UNCHANGED <<tables, guidNas, pending, published, received>>,
         NEW r0 \in Routers, NEW q0 \in Queues, Busy(r0, q0), NEW f,
         \A q \in Queues :
           f[q] \in Seq(Packets) /\ Follow(Token(q0, r0, First(r0, q0)), Tokens(q, r0, f[q])),
         Transfer({<<r0, q0>>}, At(r0, f)),
         q0 = "data" /\ First(r0, q0).dstNa = EmptyNa => First(r0, q0).guid \in guidNas[r0]
  PROVE  IInv'
<1> DEFINE pushed == At(r0, f)
           given == [h \in Hosts |-> <<>>]
           token == Token(q0, r0, First(r0, q0))
<1>1. \A r \in Routers, q \in Queues :
        pushed[r][q] \in Seq(Packets) /\ Follow(token, Tokens(q, r, pushed[r][q]))
  <2>1. ASSUME NEW r \in Routers, NEW q \in Queues, r # r0 PROVE pushed[r][q] = <<>>
    BY <2>1 DEF At, Nothing
  <2>2. \A q \in Queues : pushed[r0][q] = f[q]
    BY DEF At
  <2> HIDE DEF pushed, token
  <2> QED
    BY <2>1, <2>2, NothingFollows, EmptySeq DEF token
<1>2. \A h \in Hosts : given[h] = <<>>
  OBVIOUS
<1>3. Typed(pushed, NoneHeld, given)
  BY <1>1, <1>2, NoneTyped, EmptySeq DEF Typed
<1>4. received' = [h \in Hosts |-> received[h] \o given[h]]
  <2>1. \A h \in Hosts : received[h] \in Seq(Deliveries) /\ received[h] \o given[h] = received[h]
    BY <1>2, ConcatEmptySeq DEF IInv, TypeOK, Deliveries
  <2>2. received' = received /\ received = [h \in Hosts |-> received[h]]
    BY DEF IInv, TypeOK
  <2> QED
    BY <2>1, <2>2
<1>5. ASSUME NEW c \in Holders PROVE Follow(token, ContOf(pushed, NoneHeld, given)[c])
  <2>1. CASE \E r \in Routers, q \in Queues : c = <<q, r, Header>>
    <3> HIDE DEF pushed, given, token
    <3> QED
      BY <1>1, <2>1, ContAt
  <2>2. CASE \E r \in Routers, g \in Guids : c = <<"held", r, g>>
    <3> HIDE DEF pushed, given, token
    <3> QED
      BY <2>2, ContAt, NoneTyped, NothingFollows
  <2>3. CASE \E h \in Hosts : c = <<"got", h, Header>>
    <3>1. \A h : Given(h, <<>>) = <<>>
      BY DEF Given
    <3>2. Follow(token, <<>>)
      BY DEF Follow
    <3> HIDE DEF pushed, given, token
    <3> QED
      BY <1>2, <2>3, <3>1, <3>2, ContAt
  <2> QED
    BY <2>1, <2>2, <2>3, HolderKinds
<1>6. Transfer({<<r0, q0>>}, pushed) /\ UNCHANGED <<tables, published, guidNas, pending>>
  OBVIOUS
<1> HIDE DEF pushed, given
<1> QED
  BY <1>3, <1>4, <1>5, <1>6, QueueStep

(* Where the first packet of a queue can go.                               *)
LEMMA FirstKnown ==
  ASSUME IInv, NEW r \in Routers, NEW q \in Queues, Busy(r, q)
  PROVE  LET p == First(r, q)
         IN  /\ p \in Packets
             /\ ChildrenIn(Road, Token(q, r, p)[2]) = From(q, r, p.guid, p.srcNa, p.dstNa, p.nextHop)
             /\ Token(q, r, p)[1] = p.id
<1> DEFINE p == First(r, q)
<1>1. p \in Packets
  BY HeadTailProperties DEF IInv, TypeOK, Busy, First
<1>2. p.guid \in Guids /\ p.srcNa \in Nas /\ p.dstNa \in Nas /\ p.nextHop \in NextHops
  BY <1>1 DEF Packets, Nas
<1> HIDE DEF p
<1> QED
  BY <1>1, <1>2, RoadTo DEF Token, p

LEMMA ClassifyStep ==
  ASSUME IInv, NEW r \in Routers, Classify(r)
  PROVE  IInv'
<1> DEFINE p == First(r, "in")
           to == IF p.srcNa = EmptyNa THEN "data" ELSE "sub"
           f == [Nothing EXCEPT ![to] = <<p>>]
<1>1. "in" \in Queues /\ to \in Queues /\ Busy(r, "in")
  BY DEF Queues, Classify
<1>2. p \in Packets /\ ChildrenIn(Road, Token("in", r, p)[2]) = FromIn(r, p.guid, p.srcNa, p.dstNa, p.nextHop)
  BY <1>1, FirstKnown DEF From
<1>3. Token(to, r, p)[1] = Token("in", r, p)[1] /\ Token(to, r, p)[2] \in ChildrenIn(Road, Token("in", r, p)[2])
  BY <1>2 DEF Token, FromIn
<1>4. \A q \in Queues : f[q] = IF q = to THEN <<p>> ELSE <<>>
  BY <1>1 DEF Nothing
<1>5. Transfer({<<r, "in">>}, At(r, f)) /\ UNCHANGED <<tables, guidNas, pending, published, received>>
  BY DEF Classify
<1> HIDE DEF p, f
<1>6. Tokens(to, r, <<p>>) = <<Token(to, r, p)>>
  BY DEF Tokens
<1>7. <<p>> \in Seq(Packets)
  BY <1>2
<1>8. ASSUME NEW q \in Queues
      PROVE  f[q] \in Seq(Packets) /\ Follow(Token("in", r, p), Tokens(q, r, f[q]))
  <2>1. CASE q = to
    <3>1. Follow(Token("in", r, p), <<Token(to, r, p)>>)
      BY <1>3 DEF Follow
    <3> QED
      BY <1>4, <1>6, <1>7, <2>1, <3>1
  <2>2. CASE q # to
    BY <1>4, <2>2, NothingFollows, EmptySeq
  <2> QED
    BY <2>1, <2>2
<1> QED
  BY <1>1, <1>5, <1>8, LocalStep DEF p

LEMMA CopyStep ==
  ASSUME IInv, NEW r \in Routers, Copy(r)
  PROVE  IInv'
<1> DEFINE p == First(r, "sub")
<1>1. "sub" \in Queues /\ "arp" \in Queues /\ Busy(r, "sub")
  BY DEF Queues, Copy
<1>2. p \in Packets /\ ChildrenIn(Road, Token("sub", r, p)[2]) = FromSub(r, p.guid, p.srcNa, p.dstNa, p.nextHop)
  BY <1>1, FirstKnown DEF From
<1>3. PICK w \in Walks(SubscriberNas(r, p.guid)) :
        Transfer({<<r, "sub">>}, At(r, [Nothing EXCEPT !.arp =
             [i \in DOMAIN w |-> [p EXCEPT !.nextHop = w[i]]]]))
  BY DEF Copy
<1>4. p.guid \in Guids /\ IsFiniteSet(SubscriberNas(r, p.guid)) /\ SubscriberNas(r, p.guid) \subseteq NextHops
  BY <1>2, HopsKnown DEF IInv, Static, Packets
<1>5. PICK n \in Nat :
        /\ w \in [1..n -> SubscriberNas(r, p.guid)]
        /\ \A i \in 1..n, j \in 1..n : w[i] = w[j] => i = j
  <2>1. PICK n \in Nat : Once(w, SubscriberNas(r, p.guid), n)
    BY <1>3, <1>4, WalkOnce
  <2> QED
    BY <2>1 DEF Once
<1> DEFINE ps == [i \in DOMAIN w |-> [p EXCEPT !.nextHop = w[i]]]
           f == [Nothing EXCEPT !.arp = ps]
<1>6. /\ ps \in Seq(Packets) /\ Len(ps) = n
      /\ \A i \in 1..n : Token("arp", r, ps[i]) = <<p.id, <<"arp", r, p.guid, p.srcNa, p.dstNa, w[i]>>>>
  <2>1. ASSUME NEW i \in 1..n PROVE [p EXCEPT !.nextHop = w[i]] \in Packets
    <3>1. w[i] \in NextHops
      BY <1>4, <1>5
    <3> QED
      BY <1>2, <3>1 DEF Packets
  <2>2. \A i \in 1..n : [p EXCEPT !.nextHop = w[i]] =
          [id |-> p.id, guid |-> p.guid, srcNa |-> p.srcNa, dstNa |-> p.dstNa, nextHop |-> w[i]]
    BY <1>2 DEF Packets
  <2> HIDE DEF p
  <2>3. ps = [i \in 1..n |-> [p EXCEPT !.nextHop = w[i]]]
    BY <1>5
  <2>4. ps \in Seq(Packets) /\ Len(ps) = n
    BY <2>1, <2>3
  <2> QED
    BY <2>2, <2>3, <2>4 DEF Token
<1>7. f["arp"] = ps /\ \A q \in Queues : q # "arp" => f[q] = <<>>
  BY <1>1 DEF Nothing
<1>8. Transfer({<<r, "sub">>}, At(r, f)) /\ UNCHANGED <<tables, guidNas, pending, published, received>>
  BY <1>3 DEF Copy
<1> HIDE DEF p, f, ps
<1>9. Follow(Token("sub", r, p), Tokens("arp", r, ps))
  <2>1. Len(Tokens("arp", r, ps)) = n /\ \A i \in 1..n : Tokens("arp", r, ps)[i] = Token("arp", r, ps[i])
    BY <1>1, <1>6, TokensAre
  <2>2. \A i \in 1..n : <<"arp", r, p.guid, p.srcNa, p.dstNa, w[i]>> \in FromSub(r, p.guid, p.srcNa, p.dstNa, p.nextHop)
    BY <1>5 DEF FromSub
  <2>3. Token("sub", r, p)[1] = p.id
    BY DEF Token
  <2>4. \A i \in 1..n : /\ Tokens("arp", r, ps)[i][1] = p.id
                        /\ Tokens("arp", r, ps)[i][2] = <<"arp", r, p.guid, p.srcNa, p.dstNa, w[i]>>
    BY <1>6, <2>1
  <2> DEFINE ts == Tokens("arp", r, ps)
             token == Token("sub", r, p)
  <2> HIDE DEF ts, token
  <2>5. Len(ts) = n /\ \A i \in 1..n : ts[i][1] = token[1] /\ ts[i][2] \in ChildrenIn(Road, token[2])
    BY <1>2, <2>1, <2>2, <2>3, <2>4 DEF ts, token
  <2>6. \A i \in 1..n, j \in 1..n : ts[i][2] = ts[j][2] => w[i] = w[j]
    BY <2>4 DEF ts
  <2>7. Follow(token, ts)
    BY <1>5, <2>5, <2>6 DEF Follow
  <2> QED
    BY <2>7 DEF ts, token
<1>10. \A q \in Queues : f[q] \in Seq(Packets) /\ Follow(Token("sub", r, p), Tokens(q, r, f[q]))
  BY <1>6, <1>7, <1>9, NothingFollows, EmptySeq
<1> QED
  BY <1>1, <1>8, <1>10, LocalStep DEF p

(* An RP makes finitely many copies.                                       *)
LEMMA FiniteLinks ==
  ASSUME Static, NEW r \in net.rps, NEW g
  PROVE  IsFiniteSet(LinksBelow(mapping[r], g))
<1> DEFINE m == mapping[r]
           M == {m[h] : h \in DOMAIN m}
           D == DOMAIN m
           U == UNION M
<1>1. IsFiniteSet(D) /\ \A h \in DOMAIN m : IsFiniteSet(m[h])
  BY DEF Static
<1>2. IsFiniteSet(M) /\ \A S \in M : IsFiniteSet(S)
  BY <1>1, FiniteValues
<1>3. \A h : \A c \in ChildrenIn(m, h) : h \in D /\ c \in U
  BY DEF ChildrenIn
<1> HIDE DEF m, M, D
<1>4. IsFiniteSet(U)
  BY <1>2, FS_UNION
<1> HIDE DEF U
<1>5. IsFiniteSet(D \X U)
  BY <1>1, <1>4, FS_Product
<1>6. IsFiniteSet({Header})
  BY FS_Singleton
<1>7. IsFiniteSet({Header} \cup (D \X U))
  BY <1>5, <1>6, FS_Union
<1>8. LinksBelow(m, g) \subseteq {Header} \cup (D \X U)
  BY <1>3 DEF LinksBelow
<1>9. IsFiniteSet(LinksBelow(m, g))
  BY <1>7, <1>8, FS_Subset
<1> QED
  BY <1>9 DEF m

(* Two ways to a target are one: a GUID has one parent.                    *)
LEMMA TargetOnce ==
  ASSUME Static, NEW r \in net.rps, NEW g, NEW a \in LinksBelow(mapping[r], g),
         NEW b \in LinksBelow(mapping[r], g), Target(a, g) = Target(b, g)
  PROVE  a = b
<1> DEFINE m == mapping[r]
<1>1. \A l \in LinksBelow(m, g) : l # Header =>
        \E h \in Descendants(m, g) : \E c \in ChildrenIn(m, h) :
          l = <<h, c>> /\ Target(l, g) = c /\ c \in ChildrenIn(Graph, h) /\ h \in Descendants(Graph, g)
  <2>1. SUFFICES ASSUME NEW l \in LinksBelow(m, g), l # Header
                 PROVE  \E h \in Descendants(m, g) : \E c \in ChildrenIn(m, h) :
                          l = <<h, c>> /\ Target(l, g) = c /\ c \in ChildrenIn(Graph, h)
                            /\ h \in Descendants(Graph, g)
    OBVIOUS
  <2>2. PICK h \in Descendants(m, g) : l \in {h} \X ChildrenIn(m, h)
    BY <2>1 DEF LinksBelow
  <2>3. l = <<h, l[2]>> /\ l[2] \in ChildrenIn(m, h) /\ Target(l, g) = l[2]
    BY <2>1, <2>2 DEF Target
  <2> QED
    BY <2>2, <2>3, ServedWithin
<1>2. \A h \in Descendants(Graph, g) : g \notin ChildrenIn(Graph, h)
  BY DEF Static, Consistent, GraphIsForest, ChildrenIn
<1>3. \A l : l = Header => Target(l, g) = g
  BY DEF Target
<1> QED
  BY <1>1, <1>2, <1>3, GraphParent

(* What the cache emits for a packet p, which may lack an NA, follows it.  *)
Emitted(r, p, pushed) ==
  \A q \in Queues : pushed[q] \in Seq(Packets) /\ Follow(Token("data", r, p), Tokens(q, r, pushed[q]))

LEMMA PacketFields ==
  ASSUME NEW p \in Packets, NEW x
  PROVE  /\ [p EXCEPT !.dstNa = x] =
              [id |-> p.id, guid |-> p.guid, srcNa |-> p.srcNa, dstNa |-> x, nextHop |-> p.nextHop]
         /\ [p EXCEPT !.nextHop = x] =
              [id |-> p.id, guid |-> p.guid, srcNa |-> p.srcNa, dstNa |-> p.dstNa, nextHop |-> x]
BY DEF Packets

LEMMA CopyFields ==
  ASSUME NEW p \in Packets, NEW r, NEW c
  PROVE  /\ ToSubscribers(r, p, c) =
              [id |-> p.id, guid |-> c, srcNa |-> r, dstNa |-> p.dstNa, nextHop |-> p.nextHop]
         /\ ToOtherRP(p, c) =
              [id |-> p.id, guid |-> c, srcNa |-> EmptyNa, dstNa |-> EmptyNa, nextHop |-> p.nextHop]
<1> DEFINE R(g, s, d) == [id |-> p.id, guid |-> g, srcNa |-> s, dstNa |-> d, nextHop |-> p.nextHop]
<1>1. p = R(p.guid, p.srcNa, p.dstNa)
  BY DEF Packets
<1>2. \A g, s, d, x :
        /\ [R(g, s, d) EXCEPT !.guid = x] = R(x, s, d)
        /\ [R(g, s, d) EXCEPT !.srcNa = x] = R(g, x, d)
        /\ [R(g, s, d) EXCEPT !.dstNa = x] = R(g, s, x)
  OBVIOUS
<1> HIDE DEF R
<1>3. [p EXCEPT !.guid = c] = R(c, p.srcNa, p.dstNa)
  BY <1>1, <1>2
<1> DEFINE p1 == [p EXCEPT !.guid = c]
           p2 == [p1 EXCEPT !.srcNa = EmptyNa]
<1>4. ToSubscribers(r, p, c) = R(c, r, p.dstNa)
  <2>1. ToSubscribers(r, p, c) = [p1 EXCEPT !.srcNa = r]
    BY DEF ToSubscribers
  <2> HIDE DEF p1
  <2>2. p1 = R(c, p.srcNa, p.dstNa)
    BY <1>3 DEF p1
  <2> QED
    BY <1>2, <2>1, <2>2
<1>5. ToOtherRP(p, c) = R(c, EmptyNa, EmptyNa)
  <2>1. ToOtherRP(p, c) = [p2 EXCEPT !.dstNa = EmptyNa]
    BY DEF ToOtherRP
  <2> HIDE DEF p2
  <2>2. p2 = [p1 EXCEPT !.srcNa = EmptyNa]
    BY DEF p2
  <2> HIDE DEF p1
  <2>3. p1 = R(c, p.srcNa, p.dstNa)
    BY <1>3 DEF p1
  <2>4. p2 = R(c, EmptyNa, p.dstNa)
    BY <1>2, <2>2, <2>3
  <2> QED
    BY <1>2, <2>1, <2>4
<1> QED
  BY <1>4, <1>5 DEF R

LEMMA DataRoad ==
  ASSUME NEW r \in Routers, NEW p \in Packets
  PROVE  /\ p.guid \in Guids /\ Token("data", r, p)[1] = p.id
         /\ ChildrenIn(Road, Token("data", r, p)[2]) = FromData(r, p.guid, p.srcNa, p.dstNa, p.nextHop)
<1>1. /\ p.guid \in Guids /\ p.srcNa \in Nas /\ p.dstNa \in Nas /\ p.nextHop \in NextHops
      /\ "data" \in Queues
  BY DEF Packets, Nas, Queues
<1> QED
  BY <1>1, RoadTo DEF Token, From

LEMMA NothingEmitted ==
  ASSUME NEW r \in Routers, NEW p
  PROVE  Emitted(r, p, Nothing)
BY NothingFollows, EmptySeq DEF Emitted, Nothing

LEMMA RoutedEmitted ==
  ASSUME Static, NEW r \in Routers, NEW p \in Packets, Home(p.guid, p.dstNa) # r
  PROVE  Emitted(r, p, Routed(r, [p EXCEPT !.dstNa = Home(p.guid, p.dstNa)]))
<1> DEFINE d == Home(p.guid, p.dstNa)
           e == [p EXCEPT !.dstNa = d]
<1>1. d \in net.rps /\ d # BroadcastNa
  BY NetworkKnown, NodesAssumption DEF Home, Packets
<1>2. /\ e = [id |-> p.id, guid |-> p.guid, srcNa |-> p.srcNa, dstNa |-> d, nextHop |-> p.nextHop]
      /\ e \in Packets
  BY <1>1, PacketFields DEF Packets
<1>3. CASE d \notin DOMAIN nextHop[r]
  <2>1. Routed(r, e) = Nothing
    BY <1>1, <1>2, <1>3 DEF Routed
  <2> QED
    BY <2>1, NothingEmitted
<1>4. CASE d \in DOMAIN nextHop[r]
  <2> DEFINE x == [id |-> p.id, guid |-> p.guid, srcNa |-> p.srcNa, dstNa |-> d, nextHop |-> nextHop[r][d]]
             f == Routed(r, e)
  <2> HIDE DEF d
  <2>0. e.dstNa = d /\ [e EXCEPT !.nextHop = nextHop[r][d]] = x
    BY <1>2, PacketFields
  <2> HIDE DEF e, x
  <2>1. f = [Nothing EXCEPT !.arp = <<x>>]
    BY <1>1, <1>4, <2>0 DEF Routed
  <2> USE DEF d, e, x
  <2>2. f["arp"] = <<x>> /\ \A q \in Queues : q # "arp" => f[q] = <<>>
    BY <2>1 DEF Nothing, Queues
  <2>3. x \in Packets
    BY <1>1, <1>4, HopsKnown DEF Packets
  <2>4. Token("arp", r, x) = <<p.id, <<"arp", r, p.guid, p.srcNa, d, nextHop[r][d]>>>>
    BY DEF Token
  <2>5. <<"arp", r, p.guid, p.srcNa, d, nextHop[r][d]>> \in FromData(r, p.guid, p.srcNa, p.dstNa, p.nextHop)
    BY <1>4 DEF FromData
  <2> HIDE DEF x, f
  <2>6. Tokens("arp", r, <<x>>) = <<Token("arp", r, x)>>
    BY DEF Tokens
  <2>7. Follow(Token("data", r, p), <<Token("arp", r, x)>>)
    BY <2>4, <2>5, DataRoad DEF Follow
  <2>8. <<x>> \in Seq(Packets)
    BY <2>3
  <2>9. Emitted(r, p, f)
    BY <2>2, <2>6, <2>7, <2>8, NothingFollows, EmptySeq DEF Emitted
  <2> QED
    BY <2>9 DEF f
<1> QED
  BY <1>3, <1>4

(* The copies of one round follow the packet.                              *)
LEMMA RoundFollows ==
  ASSUME Static, NEW r \in net.rps, r \in Routers, NEW p \in Packets, Home(p.guid, p.dstNa) = r,
         NEW n \in Nat, NEW v \in [1..n -> LinksBelow(mapping[r], p.guid)],
         \A i \in 1..n, j \in 1..n : v[i] = v[j] => i = j, NEW q \in Queues,
         NEW ps \in [1..n -> Packets],
         \A i \in 1..n : /\ ps[i].id = p.id
                         /\ Target(v[i], p.guid) = ps[i].guid
                         /\ Token(q, r, ps[i])[2] \in FromData(r, p.guid, p.srcNa, p.dstNa, p.nextHop)
  PROVE  ps \in Seq(Packets) /\ Follow(Token("data", r, p), Tokens(q, r, ps))
<1>2. v \in [1..n -> LinksBelow(mapping[r], p.guid)] /\ \A i \in 1..n, j \in 1..n : v[i] = v[j] => i = j
  OBVIOUS
<1>3. ps \in Seq(Packets) /\ Len(ps) = n
  OBVIOUS
<1>4. \A i \in 1..n, j \in 1..n : Token(q, r, ps[i])[2] = Token(q, r, ps[j])[2] => i = j
  <2>1. SUFFICES ASSUME NEW i \in 1..n, NEW j \in 1..n, Token(q, r, ps[i])[2] = Token(q, r, ps[j])[2]
                 PROVE  i = j
    OBVIOUS
  <2>2. ps[i].guid = ps[j].guid
    BY <2>1 DEF Token
  <2>3. Target(v[i], p.guid) = Target(v[j], p.guid)
    BY <1>2, <2>2
  <2>4. v[i] = v[j]
    BY <1>2, <2>3, TargetOnce
  <2> QED
    BY <1>2, <2>4
<1> DEFINE ts == Tokens(q, r, ps)
           token == Token("data", r, p)
<1>5. Len(ts) = n /\ \A i \in 1..n : ts[i] = Token(q, r, ps[i])
  BY <1>3, TokensAre
<1>6. token[1] = p.id /\ ChildrenIn(Road, token[2]) = FromData(r, p.guid, p.srcNa, p.dstNa, p.nextHop)
  BY DataRoad
<1>7. \A i \in 1..n : Token(q, r, ps[i])[1] = ps[i].id
  BY DEF Token
<1> HIDE DEF ts, token
<1>8. \A i \in 1..n : ts[i][1] = token[1] /\ ts[i][2] \in ChildrenIn(Road, token[2])
  BY <1>2, <1>5, <1>6, <1>7
<1>9. \A i \in 1..n, j \in 1..n : ts[i][2] = ts[j][2] => i = j
  BY <1>4, <1>5
<1>10. Follow(token, ts)
  BY <1>5, <1>8, <1>9 DEF Follow
<1> QED
  BY <1>3, <1>10 DEF ts, token

LEMMA ExpansionEmitted ==
  ASSUME Static, NEW r \in net.rps, r \in Routers, NEW p \in Packets, Home(p.guid, p.dstNa) = r,
         NEW pushed \in Expansions(r, [p EXCEPT !.dstNa = r])
  PROVE  Emitted(r, p, pushed)
<1> DEFINE e == [p EXCEPT !.dstNa = r]
           links == LinksBelow(mapping[r], e.guid)
           S1 == {link \in links : Target(link, e.guid) \in DOMAIN mapping[r]}
           S2 == {link \in links : ~(Target(link, e.guid) \in DOMAIN mapping[r])}
           Road1 == FromData(r, p.guid, p.srcNa, p.dstNa, p.nextHop)
<1>1. /\ e.guid = p.guid /\ e \in Packets
      /\ e = [id |-> p.id, guid |-> p.guid, srcNa |-> p.srcNa, dstNa |-> r, nextHop |-> p.nextHop]
  <2>1. e = [id |-> p.id, guid |-> p.guid, srcNa |-> p.srcNa, dstNa |-> r, nextHop |-> p.nextHop]
    BY PacketFields
  <2> HIDE DEF e
  <2> QED
    BY <2>1 DEF Packets
<1> HIDE DEF e
<1>2. PICK v \in Walks(S1), w \in Walks(S2) : pushed = Expansion(r, e, v, w)
  <2>1. pushed \in Expansions(r, e)
    BY DEF e
  <2> QED
    BY <2>1 DEF Expansions
<1> DEFINE ps1 == [i \in DOMAIN v |-> ToSubscribers(r, e, Target(v[i], e.guid))]
           ps2 == [i \in DOMAIN w |-> ToOtherRP(e, Target(w[i], e.guid))]
<1>3. pushed = [Nothing EXCEPT !.sub = ps1, !.data = ps2]
  BY <1>2 DEF Expansion
<1>4. /\ pushed["sub"] = ps1 /\ pushed["data"] = ps2
      /\ \A q \in Queues : q \notin {"sub", "data"} => pushed[q] = <<>>
  <2> HIDE DEF ps1, ps2
  <2> QED
    BY <1>3 DEF Nothing, Queues
<1>5. links = LinksBelow(mapping[r], p.guid) /\ IsFiniteSet(links)
  BY <1>1, FiniteLinks
<1>6. \A link \in links : Target(link, e.guid) \in Targets(r, p.guid) /\ Target(link, e.guid) \in Guids
  <2>1. \A link \in links : Target(link, e.guid) \in Targets(r, p.guid)
    BY <1>1 DEF Targets
  <2>2. p.guid \in Guids
    BY DEF Packets
  <2>3. Targets(r, p.guid) \subseteq Guids
    BY <2>2, TargetsAre, ServedWithin, GuidsBelow
  <2> QED
    BY <2>1, <2>3
<1>7. /\ \A link \in S1 : link \in links /\ Target(link, e.guid) \in DOMAIN mapping[r]
      /\ \A link \in S2 : link \in links /\ ~(Target(link, e.guid) \in DOMAIN mapping[r])
  OBVIOUS
<1>8. IsFiniteSet(S1) /\ IsFiniteSet(S2)
  <2> HIDE DEF links
  <2>1. S1 \in SUBSET links /\ S2 \in SUBSET links
    OBVIOUS
  <2> HIDE DEF S1, S2
  <2> QED
    BY <1>5, <2>1, FS_Subset
<1>9. /\ DOMAIN ps1 = DOMAIN v /\ \A i \in DOMAIN v : ps1[i] = ToSubscribers(r, e, Target(v[i], e.guid))
      /\ DOMAIN ps2 = DOMAIN w /\ \A i \in DOMAIN w : ps2[i] = ToOtherRP(e, Target(w[i], e.guid))
      /\ ps1 = [i \in DOMAIN v |-> ps1[i]] /\ ps2 = [i \in DOMAIN w |-> ps2[i]]
  OBVIOUS
<1> HIDE DEF ps1, ps2, S1, S2, links
<1>10. PICK n \in Nat :
         v \in [1..n -> S1] /\ \A i \in 1..n, j \in 1..n : v[i] = v[j] => i = j
  <2>1. PICK n \in Nat : Once(v, S1, n)
    BY <1>8, WalkOnce
  <2> QED
    BY <2>1 DEF Once
<1>11. PICK k \in Nat :
         w \in [1..k -> S2] /\ \A i \in 1..k, j \in 1..k : w[i] = w[j] => i = j
  <2>1. PICK k \in Nat : Once(w, S2, k)
    BY <1>8, WalkOnce
  <2> QED
    BY <2>1 DEF Once
<1>12. /\ p.guid \in Guids /\ p.dstNa \in Nas /\ p.nextHop \in NextHops /\ p.id \in 1..MaxPublications
  BY DEF Packets, Nas
<1>13. \A c : /\ ToSubscribers(r, e, c) =
                  [id |-> p.id, guid |-> c, srcNa |-> r, dstNa |-> r, nextHop |-> p.nextHop]
              /\ ToOtherRP(e, c) =
                  [id |-> p.id, guid |-> c, srcNa |-> EmptyNa, dstNa |-> EmptyNa, nextHop |-> p.nextHop]
  BY <1>1, CopyFields
<1>14. ASSUME NEW i \in 1..n
      PROVE  /\ ps1[i] \in Packets /\ ps1[i].id = p.id /\ ps1[i].guid = Target(v[i], p.guid)
             /\ Token("sub", r, ps1[i])[2] \in Road1
  <2>1. v[i] \in links /\ Target(v[i], e.guid) \in DOMAIN mapping[r]
    BY <1>7, <1>10
  <2> DEFINE c == Target(v[i], e.guid)
  <2>2. c \in Targets(r, p.guid) /\ c \in Guids /\ c \in DOMAIN mapping[r] /\ c = Target(v[i], p.guid)
    BY <1>1, <1>6, <2>1
  <2>3. ps1[i] = [id |-> p.id, guid |-> c, srcNa |-> r, dstNa |-> r, nextHop |-> p.nextHop]
    BY <1>9, <1>10, <1>13
  <2> HIDE DEF c
  <2>4. Token("sub", r, ps1[i])[2] = <<"sub", r, c, r, r, p.nextHop>>
    BY <2>3 DEF Token
  <2>5. <<"sub", r, c, r, r, p.nextHop>> \in Road1
    BY <2>2 DEF FromData
  <2> QED
    BY <1>12, <2>2, <2>3, <2>4, <2>5 DEF Packets
<1>15. ASSUME NEW i \in 1..k
      PROVE  /\ ps2[i] \in Packets /\ ps2[i].id = p.id /\ ps2[i].guid = Target(w[i], p.guid)
             /\ Token("data", r, ps2[i])[2] \in Road1
  <2>1. w[i] \in links /\ ~(Target(w[i], e.guid) \in DOMAIN mapping[r])
    BY <1>7, <1>11
  <2> DEFINE c == Target(w[i], e.guid)
  <2>2. c \in Targets(r, p.guid) /\ c \in Guids /\ c \notin DOMAIN mapping[r] /\ c = Target(w[i], p.guid)
    BY <1>1, <1>6, <2>1
  <2>3. ps2[i] = [id |-> p.id, guid |-> c, srcNa |-> EmptyNa, dstNa |-> EmptyNa, nextHop |-> p.nextHop]
    BY <1>9, <1>11, <1>13
  <2> HIDE DEF c
  <2>4. Token("data", r, ps2[i])[2] = <<"data", r, c, EmptyNa, EmptyNa, p.nextHop>>
    BY <2>3 DEF Token
  <2>5. <<"data", r, c, EmptyNa, EmptyNa, p.nextHop>> \in Road1
    BY <2>2 DEF FromData
  <2> QED
    BY <1>12, <2>2, <2>3, <2>4, <2>5 DEF Packets
<1> HIDE DEF Road1
<1>16. ps1 \in Seq(Packets) /\ Follow(Token("data", r, p), Tokens("sub", r, ps1))
  <2>1. ps1 \in [1..n -> Packets]
    BY <1>9, <1>10, <1>14
  <2>2. v \in [1..n -> LinksBelow(mapping[r], p.guid)]
    BY <1>5, <1>7, <1>10
  <2>3. "sub" \in Queues
    BY DEF Queues
  <2> QED
    BY <1>10, <1>14, <2>1, <2>2, <2>3, RoundFollows, ZenonT(20) DEF Road1
<1>17. ps2 \in Seq(Packets) /\ Follow(Token("data", r, p), Tokens("data", r, ps2))
  <2>1. ps2 \in [1..k -> Packets]
    BY <1>9, <1>11, <1>15
  <2>2. w \in [1..k -> LinksBelow(mapping[r], p.guid)]
    BY <1>5, <1>7, <1>11
  <2>3. "data" \in Queues
    BY DEF Queues
  <2> QED
    BY <1>11, <1>15, <2>1, <2>2, <2>3, RoundFollows DEF Road1
<1> QED
  BY <1>4, <1>16, <1>17, NothingFollows, EmptySeq DEF Emitted

LEMMA EmissionEmitted ==
  ASSUME Static, NEW r \in Routers, NEW p \in Packets,
         NEW pushed \in Emissions(r, [p EXCEPT !.dstNa = Home(p.guid, p.dstNa)])
  PROVE  Emitted(r, p, pushed)
<1> DEFINE d == Home(p.guid, p.dstNa)
<1>1. [p EXCEPT !.dstNa = d].dstNa = d /\ d \in net.rps
  BY PacketFields, NetworkKnown DEF Packets, Home
<1>2. CASE d # r
  BY <1>1, <1>2, RoutedEmitted DEF Emissions
<1>3. CASE d = r
  BY <1>1, <1>3, ExpansionEmitted DEF Emissions
<1> QED
  BY <1>2, <1>3

LEMMA ResolveStep ==
  ASSUME IInv, NEW r \in Routers, Resolve(r)
  PROVE  IInv'
<1> DEFINE p == First(r, "data")
           na == IF p.dstNa = EmptyNa THEN net.home[p.guid] ELSE p.dstNa
<1>1. "data" \in Queues /\ Busy(r, "data") /\ (p.dstNa = EmptyNa => p.guid \in guidNas[r])
  BY DEF Queues, Resolve
<1>2. p \in Packets
  BY <1>1, FirstKnown
<1>3. PICK pushed \in Emissions(r, [p EXCEPT !.dstNa = na]) : Transfer({<<r, "data">>}, At(r, pushed))
  BY DEF Resolve
<1>4. UNCHANGED <<tables, guidNas, pending, published, received>>
  BY DEF Resolve
<1>5. na = Home(p.guid, p.dstNa)
  BY DEF Home
<1> HIDE DEF p, na
<1>6. Emitted(r, p, pushed)
  BY <1>2, <1>3, <1>5, EmissionEmitted DEF IInv
<1> QED
  BY <1>1, <1>3, <1>4, <1>6, LocalStep DEF Emitted, p

-----------------------------------------------------------------------------
(* The last task sends a frame, to one node or more.                       *)

(* Wherever a copy is, it is lawful there.                                 *)
LEMMA TokenLawful ==
  ASSUME IInv, NEW x \in PlacesOf(Cont)
  PROVE  LET id == TokenAt(Cont, x)[1]
             s == TokenAt(Cont, x)[2]
         IN  /\ id \in 1..Len(published) /\ published[id] \in net.inputs
             /\ s \in LawfulStations(published[id])
             /\ Lawful(published[id], s[1], s[2], s[3], s[4], s[5], s[6])
<1> DEFINE id == TokenAt(Cont, x)[1]
           s == TokenAt(Cont, x)[2]
<1>1. id \in DOMAIN Starts /\ s \in Descendants(Road, Starts[id])
  BY DEF IInv, TokensOK, Placed, IdsOf, NodesOf
<1>2. id \in 1..Len(published) /\ Starts[id] = Start(published[id])
  BY <1>1 DEF Starts
<1>3. published[id] \in net.inputs
  BY <1>2, ElementOfSeq DEF IInv, TypeOK
<1> HIDE DEF id, s
<1>4. s \in LawfulStations(published[id])
  BY <1>1, <1>2, <1>3, AllLawful DEF IInv
<1> QED
  BY <1>2, <1>3, <1>4 DEF LawfulStations, id, s

LEMMA FirstLawful ==
  ASSUME IInv, NEW r \in Routers, NEW q \in Queues, Busy(r, q)
  PROVE  LET p == First(r, q)
         IN  /\ p.id \in 1..Len(published) /\ published[p.id] \in net.inputs
             /\ Lawful(published[p.id], q, r, p.guid, p.srcNa, p.dstNa, p.nextHop)
<1> DEFINE p == First(r, q)
           x == <<<<q, r, Header>>, 1>>
<1>1. /\ queue[r][q] \in Seq(Packets) /\ Len(queue[r][q]) \in Nat \ {0} /\ p = queue[r][q][1]
  BY EmptySeq DEF IInv, TypeOK, Busy, First
<1>2. Cont[<<q, r, Header>>] = Tokens(q, r, queue[r][q]) /\ DOMAIN Cont = Holders
  BY ContAt DEF Cont
<1>3. Len(Cont[<<q, r, Header>>]) = Len(queue[r][q]) /\ Cont[<<q, r, Header>>][1] = Token(q, r, p)
  BY <1>1, <1>2, TokensAre
<1>4. <<q, r, Header>> \in Holders
  BY DEF Holders
<1>5. x \in PlacesOf(Cont) /\ TokenAt(Cont, x) = Token(q, r, p)
  BY <1>1, <1>2, <1>3, <1>4 DEF PlacesOf, TokenAt
<1> HIDE DEF x, p
<1> QED
  BY <1>5, TokenLawful DEF Token, p

(* A node gets one frame of a packet, or none.                             *)
LEMMA FramesOne ==
  ASSUME Static, NEW input \in net.inputs, NEW r \in Routers, NEW g, NEW src, NEW dst,
         NEW hop, Lawful(input, "arp", r, g, src, dst, hop), NEW n \in Routers \cup Hosts
  PROVE  /\ Cardinality(Frames(r, hop, n)) \in {0, 1}
         /\ Cardinality(Frames(r, hop, n)) = 1 => n \in Recipients(r, hop)
<1>1. CASE Frames(r, hop, n) = {}
  BY <1>1, FS_EmptySet
<1>2. CASE Frames(r, hop, n) # {}
  <2>1. PICK e : e \in Frames(r, hop, n)
    BY <1>2
  <2>2. n \in Recipients(r, hop)
    BY <1>2 DEF Recipients
  <2>3. \A f \in Frames(r, hop, n) : f = e
    <3>1. CASE src = EmptyNa
      <4>1. /\ dst \in net.rps /\ hop = nextHop[r][dst]
            /\ Origin(input, g, dst) \in net.rps \cup {i.at : i \in net.inputs}
            /\ r \in Descendants(Ways(dst), Origin(input, g, dst)) /\ n \in ChildrenIn(Ways(dst), r)
        BY <2>2, <3>1, ArpUpLawful
      <4>2. r \in DOMAIN Ways(dst)
        BY <4>1 DEF ChildrenIn
      <4>3. hop # BroadcastNa
        BY <4>1, <4>2 DEF Static, Consistent, RoutesLead
      <4> QED
        BY <2>1, <4>3 DEF Frames, Resolved
    <3>2. CASE src # EmptyNa
      <4>1. /\ g \in Guids /\ hop \in SubscriberNas(r, g)
            /\ r \in Descendants(Spread(g), net.home[g]) /\ n \in Descendants(Spread(g), net.home[g])
        BY <2>2, <3>2, ArpDownLawful
      <4> QED
        BY <2>1, <4>1, SpreadOnce
    <3> QED
      BY <3>1, <3>2
  <2>4. Frames(r, hop, n) = {e}
    BY <2>1, <2>3
  <2> QED
    BY <2>2, <2>4, FS_Singleton
<1> QED
  BY <1>1, <1>2

LEMMA SendStep ==
  ASSUME IInv, NEW r \in Routers, Send(r)
  PROVE  IInv'
<1> DEFINE p == First(r, "arp")
           hop == p.nextHop
           Copies1(n, x) == [i \in 1..Cardinality(Frames(r, hop, n)) |-> x]
           e == [p EXCEPT !.nextHop = EmptyNa]
           d == [id |-> p.id, guid |-> p.guid]
           pushed == [n \in Routers |-> [Nothing EXCEPT !["in"] = Copies1(n, e)]]
           given == [h \in Hosts |-> Copies1(h, d)]
           token == Token("arp", r, p)
<1>1. /\ "arp" \in Queues /\ "in" \in Queues /\ Busy(r, "arp")
      /\ UNCHANGED <<tables, published, guidNas, pending>>
  BY DEF Queues, Send
<1>2. Transfer({<<r, "arp">>}, pushed)
  BY DEF Send
<1>3. received' = [h \in Hosts |-> received[h] \o given[h]]
  BY DEF Send
<1>4. /\ p \in Packets /\ token[1] = p.id
      /\ ChildrenIn(Road, token[2]) = FromArp(r, p.guid, p.srcNa, p.dstNa, hop)
  BY <1>1, FirstKnown DEF From
<1>5. e \in Packets /\ d \in Deliveries
  BY <1>4, PacketFields, HopsKnown DEF Packets, Deliveries, IInv
<1>6. Token("in", r, e)[1] = p.id
  BY <1>4, PacketFields DEF Token
<1>7. \A n : Token("in", n, e) = <<p.id, <<"in", n, p.guid, p.srcNa, p.dstNa, EmptyNa>>>>
  BY <1>4, PacketFields DEF Token
<1> DEFINE count(n) == Cardinality(Frames(r, hop, n))
<1>8. ASSUME NEW n \in Routers \cup Hosts
      PROVE  count(n) \in {0, 1} /\ (count(n) = 1 => n \in Recipients(r, hop))
  <2>1. /\ published[p.id] \in net.inputs
        /\ Lawful(published[p.id], "arp", r, p.guid, p.srcNa, p.dstNa, hop)
    BY <1>1, FirstLawful
  <2> HIDE DEF p
  <2> QED
    BY <2>1, FramesOne DEF IInv
<1>9. /\ \A n \in Routers : /\ pushed[n]["in"] = [i \in 1..count(n) |-> e]
                             /\ \A q \in Queues : q # "in" => pushed[n][q] = <<>>
      /\ \A h \in Hosts : given[h] = [i \in 1..count(h) |-> d]
  BY <1>1 DEF Nothing
<1> HIDE DEF pushed, given, count
<1>10. \A x : [i \in 1..0 |-> x] = <<>> /\ [i \in 1..1 |-> x] = <<x>>
  OBVIOUS
<1>11. /\ \A n \in Routers : pushed[n]["in"] = IF count(n) = 1 THEN <<e>> ELSE <<>>
       /\ \A h \in Hosts : given[h] = IF count(h) = 1 THEN <<d>> ELSE <<>>
  <2>1. ASSUME NEW n \in Routers PROVE pushed[n]["in"] = IF count(n) = 1 THEN <<e>> ELSE <<>>
    <3>1. count(n) = 0 \/ count(n) = 1
      BY <1>8
    <3>2. pushed[n]["in"] = [i \in 1..count(n) |-> e]
      BY <1>9
    <3> HIDE DEF e
    <3> QED
      BY <1>10, <3>1, <3>2
  <2>2. ASSUME NEW h \in Hosts PROVE given[h] = IF count(h) = 1 THEN <<d>> ELSE <<>>
    <3>1. count(h) = 0 \/ count(h) = 1
      BY <1>8
    <3>2. given[h] = [i \in 1..count(h) |-> d]
      BY <1>9
    <3> HIDE DEF d
    <3> QED
      BY <1>10, <3>1, <3>2
  <2> QED
    BY <2>1, <2>2
<1> HIDE DEF e, d, token, p
<1>12. Typed(pushed, NoneHeld, given)
  <2>0. <<e>> \in Seq(Packets) /\ <<d>> \in Seq(Deliveries)
    BY <1>5
  <2>1. \A n \in Routers, q \in Queues : pushed[n][q] \in Seq(Packets)
    <3>1. <<>> \in Seq(Packets)
      BY EmptySeq
    <3>2. ASSUME NEW n \in Routers, NEW q \in Queues PROVE pushed[n][q] \in {<<>>, <<e>>}
      <4>1. CASE q = "in"
        BY <1>11, <4>1
      <4>2. CASE q # "in"
        BY <1>9, <4>2
      <4> QED
        BY <4>1, <4>2
    <3> QED
      BY <2>0, <3>1, <3>2
  <2>2. \A h \in Hosts : given[h] \in Seq(Deliveries)
    BY <1>11, <2>0, EmptySeq
  <2> QED
    BY <2>1, <2>2, NoneTyped DEF Typed
<1>13. ASSUME NEW c \in Holders PROVE Follow(token, ContOf(pushed, NoneHeld, given)[c])
  <2>0. Follow(token, <<>>)
    BY DEF Follow
  <2>1. CASE \E n \in Routers, q \in Queues : c = <<q, n, Header>>
    <3>1. PICK n \in Routers, q \in Queues : c = <<q, n, Header>>
      BY <2>1
    <3>2. ContOf(pushed, NoneHeld, given)[c] = Tokens(q, n, pushed[n][q])
      BY <3>1, ContAt
    <3>3. CASE q = "in" /\ count(n) = 1
      <4>0. Tokens("in", n, <<e>>) = <<Token("in", n, e)>>
        BY DEF Tokens
      <4>1. Tokens(q, n, pushed[n][q]) = <<Token("in", n, e)>>
        BY <1>11, <3>3, <4>0
      <4>2. <<"in", n, p.guid, p.srcNa, p.dstNa, EmptyNa>> \in FromArp(r, p.guid, p.srcNa, p.dstNa, hop)
        BY <1>8, <3>3 DEF FromArp
      <4>3. Follow(token, <<Token("in", n, e)>>)
        BY <1>4, <1>7, <4>2 DEF Follow
      <4> QED
        BY <3>2, <4>1, <4>3
    <3>4. CASE ~(q = "in" /\ count(n) = 1)
      <4>1. pushed[n][q] = <<>>
        BY <1>9, <1>11, <3>4
      <4> QED
        BY <3>2, <4>1, NothingFollows
    <3> QED
      BY <3>3, <3>4
  <2>2. CASE \E n \in Routers, g \in Guids : c = <<"held", n, g>>
    BY <2>2, ContAt, NoneTyped, NothingFollows
  <2>3. CASE \E h \in Hosts : c = <<"got", h, Header>>
    <3>1. PICK h \in Hosts : c = <<"got", h, Header>>
      BY <2>3
    <3>2. ContOf(pushed, NoneHeld, given)[c] = Given(h, given[h])
      BY <3>1, ContAt
    <3>3. CASE count(h) = 1
      <4>1. Given(h, given[h]) = <<<<p.id, <<"got", h, p.guid, EmptyNa, EmptyNa, EmptyNa>>>>>>
        BY <1>11, <3>3 DEF Given, d
      <4>2. <<"got", h, p.guid, EmptyNa, EmptyNa, EmptyNa>> \in FromArp(r, p.guid, p.srcNa, p.dstNa, hop)
        BY <1>8, <3>3 DEF FromArp
      <4>3. Follow(token, <<<<p.id, <<"got", h, p.guid, EmptyNa, EmptyNa, EmptyNa>>>>>>)
        BY <1>4, <4>2 DEF Follow
      <4> QED
        BY <3>2, <4>1, <4>3
    <3>4. CASE count(h) # 1
      <4>1. Given(h, <<>>) = <<>>
        BY DEF Given
      <4> QED
        BY <1>11, <2>0, <3>2, <3>4, <4>1
    <3> QED
      BY <3>3, <3>4
  <2> QED
    BY <2>1, <2>2, <2>3, HolderKinds
<1> QED
  BY <1>1, <1>2, <1>3, <1>12, <1>13, QueueStep DEF token, p

-----------------------------------------------------------------------------
(* A packet is held: its copy stays at its station.                        *)

LEMMA PriorFacts ==
  /\ \A p \in Prior, q \in Prior : p[2] # q[1]
  /\ \A p \in Prior : \E r \in Routers, g \in Guids :
       p[1] = <<"held", r, g>> /\ p[2] = <<"data", r, Header>>
<1>1. \A p \in Prior : \E r \in Routers, g \in Guids :
       p[1] = <<"held", r, g>> /\ p[2] = <<"data", r, Header>>
  BY DEF Prior
<1> QED
  BY <1>1

(* What comes to the caches, and nothing else.                             *)
Stay(r, p) ==
  [x \in Routers |-> [g \in Guids |-> IF x = r /\ g = p.guid THEN <<p>> ELSE <<>>]]
NoneGiven == [h \in Hosts |-> <<>>]

LEMMA HoldStep ==
  ASSUME IInv, NEW r \in Routers, Hold(r)
  PROVE  IInv'
<1> DEFINE p == First(r, "data")
           g == p.guid
           pushed == At(r, Nothing)
           held == Stay(r, p)
           t == <<"data", r, Header>>
           h == <<"held", r, g>>
           cont == ContOf(queue, pending, received)
           come == ContOf(pushed, held, NoneGiven)
           new == ContOf(queue', pending', received')
<1>1. /\ "data" \in Queues /\ Busy(r, "data") /\ p.dstNa = EmptyNa /\ g \notin guidNas[r]
      /\ pending' = [pending EXCEPT ![r][g] = Append(@, p)]
      /\ Transfer({<<r, "data">>}, pushed)
      /\ UNCHANGED <<tables, guidNas, published, received>>
  BY DEF Queues, Hold
<1>2. /\ TypeOK /\ Static /\ Labelled(pending) /\ KnownNotHeld /\ Typed(queue, pending, received)
      /\ TokensOK(cont, Road, Starts, Prior)
  BY NowTyped DEF IInv, Cont
<1>3. p \in Packets /\ g \in Guids
  BY <1>1, FirstKnown DEF Packets
<1>4. /\ \A x \in Routers, q \in Queues : pushed[x][q] = <<>>
      /\ \A x \in Hosts : NoneGiven[x] = <<>>
      /\ \A x \in Routers, y \in Guids : held[x][y] = IF x = r /\ y = g THEN <<p>> ELSE <<>>
  BY DEF At, Nothing, NoneGiven, Stay
<1>5. <<>> \in Seq(Packets) /\ <<p>> \in Seq(Packets) /\ <<>> \in Seq(Deliveries)
  BY <1>3, EmptySeq
<1>6. /\ \A x \in Routers, q \in Queues : queue[x][q] \in Seq(Packets)
      /\ \A x \in Routers, y \in Guids : pending[x][y] \in Seq(Packets)
      /\ \A x \in Hosts : received[x] \in Seq(Deliveries)
      /\ overflowed \in BOOLEAN
  BY <1>2 DEF Typed, TypeOK
<1>7. UNCHANGED tables /\ UNCHANGED guidNas /\ UNCHANGED published /\ UNCHANGED received /\ UNCHANGED net
  BY <1>1 DEF tables
<1>8. \A x \in Routers, y \in Guids :
        pending'[x][y] = IF x = r /\ y = g THEN Append(pending[r][g], p) ELSE pending[x][y]
  BY <1>1, <1>2, <1>3 DEF TypeOK
<1>9. \A x \in Routers, q \in Queues : <<x, q>> \in {<<r, "data">>} => Busy(x, q)
  BY <1>1
<1> HIDE DEF p, pushed, held
<1>10. Typed(pushed, held, NoneGiven)
  <2>1. \A x \in Routers, y \in Guids : held[x][y] \in {<<>>, <<p>>}
    BY <1>4
  <2> QED
    BY <1>4, <1>5, <2>1 DEF Typed
<1>11. /\ overflowed' \in BOOLEAN
       /\ \A x \in Routers, q \in Queues :
              /\ queue'[x][q] \in Seq(Packets) /\ Len(queue'[x][q]) <= net.capacity
              /\ Shift(queue[x][q], pushed[x][q], queue'[x][q], IF <<x, q>> \in {<<r, "data">>} THEN 1 ELSE 0)
  <2>1. \A x \in Routers, q \in Queues : pushed[x][q] \in Seq(Packets)
    BY <1>4, <1>5
  <2> QED
    BY <1>1, <1>2, <1>6, <1>9, <2>1, TransferShift
<1>12. /\ Append(pending[r][g], p) \in Seq(Packets)
       /\ Shift(pending[r][g], <<p>>, Append(pending[r][g], p), 0)
  <2>1. pending[r][g] \in Seq(Packets)
    BY <1>3, <1>6
  <2>2. Append(pending[r][g], p) = pending[r][g] \o <<p>>
    BY <1>3, <2>1, AppendIsConcat
  <2> QED
    BY <1>5, <2>1, <2>2, AddShift
<1>13. \A x \in Routers, y \in Guids :
         pending'[x][y] \in Seq(Packets) /\ Shift(pending[x][y], held[x][y], pending'[x][y], 0)
  <2>1. ASSUME NEW x \in Routers, NEW y \in Guids
        PROVE  pending'[x][y] \in Seq(Packets) /\ Shift(pending[x][y], held[x][y], pending'[x][y], 0)
    <3>1. CASE x = r /\ y = g
      BY <1>4, <1>8, <1>12, <3>1
    <3>2. CASE ~(x = r /\ y = g)
      BY <1>4, <1>6, <1>8, <3>2, NothingShift
    <3> QED
      BY <3>1, <3>2
  <2> QED
    BY <2>1
<1>14. Typed(queue', pending', received')
  BY <1>6, <1>7, <1>11, <1>13 DEF Typed
<1>15. TypeOK'
  <2>1. pending' \in [Routers -> [Guids -> Seq(Packets)]]
    BY <1>1, <1>2, <1>3, <1>12 DEF TypeOK
  <2> QED
    BY <1>2, <1>7, <1>11, <2>1, SameTypes DEF TypeOK
<1>16. Labelled(pending')
  <2>1. ASSUME NEW x \in Routers, NEW y \in Guids, NEW i \in 1..Len(pending'[x][y])
        PROVE  pending'[x][y][i].guid = y /\ pending'[x][y][i].dstNa = EmptyNa
    <3>1. CASE x = r /\ y = g
      <4>1. pending[r][g] \in Seq(Packets) /\ pending'[x][y] = Append(pending[r][g], p)
        BY <1>3, <1>6, <1>8, <3>1
      <4>2. Len(pending'[x][y]) = Len(pending[r][g]) + 1 /\ Len(pending[r][g]) \in Nat
        BY <1>3, <4>1, AppendProperties, LenProperties
      <4>3. CASE i = Len(pending[r][g]) + 1
        <5>1. pending'[x][y][i] = p
          BY <1>3, <4>1, <4>3, AppendProperties
        <5> QED
          BY <1>1, <3>1, <5>1 DEF p
      <4>4. CASE i # Len(pending[r][g]) + 1
        <5>1. i \in 1..Len(pending[r][g])
          BY <4>2, <4>4
        <5>2. pending'[x][y][i] = pending[r][g][i]
          BY <1>3, <4>1, <5>1, AppendProperties
        <5> QED
          BY <1>2, <1>3, <3>1, <5>1, <5>2 DEF Labelled
      <4> QED
        BY <4>3, <4>4
    <3>2. CASE ~(x = r /\ y = g)
      <4>1. pending'[x][y] = pending[x][y]
        BY <1>8, <3>2
      <4> QED
        BY <1>2, <4>1 DEF Labelled
    <3> QED
      BY <3>1, <3>2
  <2> QED
    BY <2>1 DEF Labelled
<1>17. KnownNotHeld' /\ Static' /\ Labelled(pending)'
  <2>1. KnownNotHeld'
    BY <1>1, <1>2, <1>7, <1>8, SameTypes DEF KnownNotHeld, p
  <2> QED
    BY <1>2, <1>7, <1>16, <2>1, SameTypes, StaticSame DEF Labelled
<1>18. t \in Holders /\ h \in Holders /\ h # t /\ <<h, t>> \in Prior
  BY <1>1, <1>3 DEF Holders, Prior
<1>19. /\ queue[r]["data"] \in Seq(Packets) /\ Len(queue[r]["data"]) \in Nat \ {0}
       /\ p = queue[r]["data"][1]
  BY <1>1, <1>6, EmptySeq DEF Busy, First, p
<1>20. /\ cont[t] = Tokens("data", r, queue[r]["data"])
       /\ 1 <= Len(cont[t]) /\ Len(cont[t]) >= 1 /\ cont[t][1] = Token("data", r, p)
  BY <1>1, <1>19, ContAt, TokensAre
<1>21. come[h] = <<cont[t][1]>>
  <2>1. Tokens("data", r, <<p>>) = <<Token("data", r, p)>>
    BY DEF Tokens
  <2>2. come[h] = Tokens("data", r, held[r][g])
    BY <1>3, ContAt
  <2> HIDE DEF cont, come
  <2> QED
    BY <1>3, <1>4, <1>20, <2>1, <2>2
<1>22. ASSUME NEW c \in Holders, c # h PROVE come[c] = <<>>
  <2>1. \A q, x : Tokens(q, x, <<>>) = <<>>
    BY DEF Tokens
  <2>2. \A x : Given(x, <<>>) = <<>>
    BY DEF Given
  <2>3. CASE \E x \in Routers, q \in Queues : c = <<q, x, Header>>
    BY <1>4, <2>1, <2>3, ContAt
  <2>4. CASE \E x \in Routers, y \in Guids : c = <<"held", x, y>>
    <3>1. PICK x \in Routers, y \in Guids : c = <<"held", x, y>>
      BY <2>4
    <3>2. held[x][y] = <<>>
      BY <1>4, <1>22, <3>1
    <3> QED
      BY <2>1, <3>1, <3>2, ContAt
  <2>5. CASE \E x \in Hosts : c = <<"got", x, Header>>
    BY <1>4, <2>2, <2>5, ContAt
  <2> QED
    BY <2>3, <2>4, <2>5, HolderKinds
<1>23. Shifts(queue, pending, received, pushed, held, NoneGiven, queue', pending', received', t, 1)
  <2>1. \A x \in Routers, q \in Queues :
          Dropped(<<q, x, Header>>, t, 1) = IF <<x, q>> \in {<<r, "data">>} THEN 1 ELSE 0
    BY DEF Dropped
  <2>2. \A x \in Routers, y \in Guids : Dropped(<<"held", x, y>>, t, 1) = 0
    BY DEF Dropped
  <2>3. \A x \in Hosts : Dropped(<<"got", x, Header>>, t, 1) = 0
    BY DEF Dropped
  <2>4. \A x \in Hosts : Shift(received[x], NoneGiven[x], received'[x], 0)
    BY <1>4, <1>6, <1>7, NothingShift
  <2> QED
    BY <1>11, <1>13, <2>1, <2>2, <2>3, <2>4 DEF Shifts
<1>24. Holds(cont, Holders, Stations) /\ Holds(come, Holders, Stations) /\ Holds(new, Holders, Stations)
  BY <1>2, <1>10, <1>14, ContHolds
<1>25. Shifted(cont, come, new, t, 1)
  BY <1>2, <1>10, <1>14, <1>18, <1>20, <1>23, ContShifts
<1>26. Together(new, Prior)
  BY <1>2, <1>14, <1>16, ContTogether
<1>27. Trees(Road, Starts)
  BY <1>2, StartsTrees DEF TypeOK
<1>28. TokensOK(new, Road, Starts, Prior)
  <2> HIDE DEF cont, come, new, t, h
  <2> QED
    BY <1>2, <1>18, <1>20, <1>21, <1>22, <1>24, <1>25, <1>26, <1>27, PriorFacts, StayOne
<1>29. Starts' = Starts
  BY <1>7 DEF Starts, Start
<1> QED
  BY <1>7, <1>15, <1>17, <1>28, <1>29, SameTypes, RoadSame DEF IInv

-----------------------------------------------------------------------------
(* The GNRS answers: all packets held for the GUID go on.                  *)

(* What a batch pushes are copies of the packets held, in their order.     *)
LEMMA BatchCopies ==
  ASSUME Static, Typed(queue, pending, received), NEW r \in Routers, NEW g \in Guids,
         NEW n \in Nat \ {0}, n = Len(pending[r][g]), NEW pushes, NEW pushed,
         \A i \in 1..n : Emitted(r, pending[r][g][i], pushes[i]),
         \A q \in Queues : pushed[q] = FlattenSeq([i \in 1..n |-> pushes[i][q]])
  PROVE  /\ \A q \in Queues : pushed[q] \in Seq(Packets)
         /\ \E from : CopiesPushed(ContOf(queue, pending, received), ContOf(At(r, pushed), NoneHeld, NoneGiven),
                             <<"held", r, g>>, n, from, Road)
<1> DEFINE f(q) == [i \in 1..n |-> pushes[i][q]]
           at == [q \in Queues |-> CHOOSE a : Places(f(q), n, pushed[q], a)]
           t == <<"held", r, g>>
           cont == ContOf(queue, pending, received)
           come == ContOf(At(r, pushed), NoneHeld, NoneGiven)
           from == [x \in PlacesOf(come) |-> at[x[1][1]][x[2]][1]]
           Copied(q, i) == Tokens(q, r, pushes[i][q])
<1>1. ASSUME NEW q \in Queues
      PROVE  pushed[q] \in Seq(Packets) /\ Places(f(q), n, pushed[q], at[q])
  <2>1. f(q) \in [1..n -> Seq(Packets)]
    BY DEF Emitted
  <2>2. pushed[q] = FlattenSeq(f(q))
    OBVIOUS
  <2> HIDE DEF f
  <2> DEFINE F == f(q)
  <2> HIDE DEF F
  <2>3. F \in [1..n -> Seq(Packets)] /\ pushed[q] = FlattenSeq(F)
    BY <2>1, <2>2 DEF F
  <2>4. FlattenSeq(F) \in Seq(Packets) /\ \E a : Places(F, n, FlattenSeq(F), a)
    BY <2>3, FlattenPlaces
  <2>5. pushed[q] \in Seq(Packets) /\ \E a : Places(f(q), n, pushed[q], a)
    BY <2>3, <2>4 DEF F
  <2> QED
    BY <2>5
<1>2. ASSUME NEW q \in Queues, NEW k \in 1..Len(pushed[q])
      PROVE  /\ at[q][k][1] \in 1..n /\ at[q][k][2] \in 1..Len(pushes[at[q][k][1]][q])
             /\ pushed[q][k] = pushes[at[q][k][1]][q][at[q][k][2]]
             /\ \A l \in 1..Len(pushed[q]) : k < l =>
                  \/ at[q][k][1] < at[q][l][1]
                  \/ at[q][k][1] = at[q][l][1] /\ at[q][k][2] < at[q][l][2]
  <2>1. Places(f(q), n, pushed[q], at[q])
    BY <1>1
  <2> HIDE DEF at
  <2>2. at[q][k] \in (1..n) \X Nat
    BY <2>1 DEF Places
  <2>3. f(q)[at[q][k][1]] = pushes[at[q][k][1]][q]
    BY <2>2
  <2> QED
    BY <2>1, <2>2, <2>3 DEF Places
<1> HIDE DEF at, f
<1>3. ASSUME NEW i \in 1..n
      PROVE  /\ cont[t][i] = Token("data", r, pending[r][g][i])
             /\ \A q \in Queues : pushes[i][q] \in Seq(Packets) /\ Follow(cont[t][i], Copied(q, i))
  <2>1. pending[r][g] \in Seq(Packets) /\ "data" \in Queues
    BY DEF Typed, Queues
  <2>2. cont[t] = Tokens("data", r, pending[r][g])
    BY ContAt
  <2> HIDE DEF cont
  <2>3. cont[t][i] = Token("data", r, pending[r][g][i])
    BY <2>1, <2>2, TokensAre
  <2> QED
    BY <2>3 DEF Emitted
<1>4. ASSUME NEW x \in PlacesOf(come)
      PROVE  \E q \in Queues : x[1] = <<q, r, Header>> /\ x[2] \in 1..Len(pushed[q])
  <2>1. x[1] \in Holders /\ x[2] \in 1..Len(come[x[1]])
    BY ContAt DEF PlacesOf
  <2>2. come[x[1]] # <<>>
    BY <2>1
  <2>3. CASE \E s \in Routers, q \in Queues : x[1] = <<q, s, Header>>
    <3>1. PICK s \in Routers, q \in Queues : x[1] = <<q, s, Header>>
      BY <2>3
    <3>2. come[x[1]] = Tokens(q, s, At(r, pushed)[s][q])
      BY <3>1, ContAt
    <3>3. s = r
      <4>1. s # r => At(r, pushed)[s][q] = <<>>
        BY DEF At, Nothing
      <4> QED
        BY <2>2, <3>2, <4>1, NothingFollows
    <3>4. At(r, pushed)[s][q] = pushed[q]
      BY <3>3 DEF At
    <3> HIDE DEF come
    <3>5. Len(come[x[1]]) = Len(pushed[q])
      BY <1>1, <3>2, <3>4, TokensAre
    <3> QED
      BY <2>1, <3>1, <3>3, <3>5
  <2>4. CASE \E s \in Routers, y \in Guids : x[1] = <<"held", s, y>>
    <3>1. PICK s \in Routers, y \in Guids : x[1] = <<"held", s, y>>
      BY <2>4
    <3>2. come[x[1]] = Tokens("data", s, NoneHeld[s][y])
      BY <3>1, ContAt
    <3> QED
      BY <2>2, <3>2, NoneTyped, NothingFollows
  <2>5. CASE \E h \in Hosts : x[1] = <<"got", h, Header>>
    <3>1. Given(x[1][2], <<>>) = <<>>
      BY DEF Given
    <3>2. \A h \in Hosts : NoneGiven[h] = <<>>
      BY DEF NoneGiven
    <3> QED
      BY <2>2, <2>5, <3>1, <3>2, ContAt
  <2> QED
    BY <2>1, <2>3, <2>4, <2>5, HolderKinds
<1>5. ASSUME NEW x \in PlacesOf(come), NEW q \in Queues, x[1] = <<q, r, Header>>,
             x[2] \in 1..Len(pushed[q])
      PROVE  /\ x = <<x[1], x[2]>> /\ from[x] = at[q][x[2]][1]
             /\ TokenAt(come, x) = Token(q, r, pushed[q][x[2]])
             /\ TokenAt(come, x) = Copied(q, from[x])[at[q][x[2]][2]]
             /\ at[q][x[2]][2] \in 1..Len(Copied(q, from[x])) /\ from[x] \in 1..n
  <2>1. x = <<x[1], x[2]>> /\ from[x] = at[q][x[2]][1]
    <3>1. from[x] = at[x[1][1]][x[2]][1]
      OBVIOUS
    <3>2. x = <<x[1], x[2]>>
      BY DEF PlacesOf
    <3> HIDE DEF come, from
    <3> QED
      BY <1>5, <3>1, <3>2
  <2>2. come[x[1]] = Tokens(q, r, pushed[q])
    <3>1. At(r, pushed)[r][q] = pushed[q]
      BY DEF At
    <3> QED
      BY <1>5, <3>1, ContAt
  <2> HIDE DEF come, from
  <2>3. TokenAt(come, x) = Token(q, r, pushed[q][x[2]])
    BY <1>1, <1>5, <2>2, TokensAre DEF TokenAt
  <2>4. /\ from[x] \in 1..n /\ at[q][x[2]][2] \in 1..Len(pushes[from[x]][q])
        /\ pushed[q][x[2]] = pushes[from[x]][q][at[q][x[2]][2]]
    <3>1. PICK k \in 1..Len(pushed[q]) : k = x[2]
      BY <1>5
    <3>2. /\ at[q][k][1] \in 1..n /\ at[q][k][2] \in 1..Len(pushes[at[q][k][1]][q])
          /\ pushed[q][k] = pushes[at[q][k][1]][q][at[q][k][2]]
      BY <1>2
    <3> QED
      BY <2>1, <3>1, <3>2
  <2>5. pushes[from[x]][q] \in Seq(Packets)
    BY <1>3, <2>4
  <2>6. /\ Len(Copied(q, from[x])) = Len(pushes[from[x]][q])
        /\ Copied(q, from[x])[at[q][x[2]][2]] = Token(q, r, pushes[from[x]][q][at[q][x[2]][2]])
    <3>1. PICK j \in 1..Len(pushes[from[x]][q]) : j = at[q][x[2]][2]
      BY <2>4
    <3>2. /\ Len(Copied(q, from[x])) = Len(pushes[from[x]][q])
          /\ Copied(q, from[x])[j] = Token(q, r, pushes[from[x]][q][j])
      BY <2>5, TokensAre
    <3> QED
      BY <3>1, <3>2
  <2> HIDE DEF Copied
  <2>7. TokenAt(come, x) = Copied(q, from[x])[at[q][x[2]][2]]
    BY <2>3, <2>4, <2>6, Zenon
  <2>8. at[q][x[2]][2] \in 1..Len(Copied(q, from[x]))
    BY <2>4, <2>6
  <2> QED
    BY <2>1, <2>3, <2>4, <2>7, <2>8, Zenon
<1>6. from \in [PlacesOf(come) -> 1..n]
  <2>1. ASSUME NEW x \in PlacesOf(come) PROVE from[x] \in 1..n
    <3>1. PICK q \in Queues : x[1] = <<q, r, Header>> /\ x[2] \in 1..Len(pushed[q])
      BY <1>4
    <3> HIDE DEF from, come, Copied
    <3> QED
      BY <1>5, <3>1
  <2> HIDE DEF come
  <2> QED
    BY <2>1
<1> HIDE DEF cont, come, from, Copied
<1>7. ASSUME NEW x \in PlacesOf(come)
      PROVE  /\ TokenAt(come, x)[1] = cont[t][from[x]][1]
             /\ TokenAt(come, x)[2] \in ChildrenIn(Road, cont[t][from[x]][2])
  <2>1. PICK q \in Queues : x[1] = <<q, r, Header>> /\ x[2] \in 1..Len(pushed[q])
    BY <1>4
  <2>2. /\ TokenAt(come, x) = Copied(q, from[x])[at[q][x[2]][2]]
        /\ at[q][x[2]][2] \in 1..Len(Copied(q, from[x])) /\ from[x] \in 1..n
    BY <1>5, <2>1
  <2>3. Follow(cont[t][from[x]], Copied(q, from[x]))
    BY <1>3, <2>2
  <2> QED
    BY <2>2, <2>3 DEF Follow
<1>8. ASSUME NEW x \in PlacesOf(come), NEW y \in PlacesOf(come)
      PROVE  /\ x # y /\ from[x] = from[y] => TokenAt(come, x)[2] # TokenAt(come, y)[2]
             /\ x[1] = y[1] /\ from[x] < from[y] => x[2] < y[2]
  <2>1. PICK q \in Queues : x[1] = <<q, r, Header>> /\ x[2] \in 1..Len(pushed[q])
    BY <1>4
  <2>2. PICK s \in Queues : y[1] = <<s, r, Header>> /\ y[2] \in 1..Len(pushed[s])
    BY <1>4
  <2>3. /\ x = <<x[1], x[2]>> /\ from[x] = at[q][x[2]][1]
        /\ TokenAt(come, x) = Token(q, r, pushed[q][x[2]])
        /\ TokenAt(come, x) = Copied(q, from[x])[at[q][x[2]][2]]
        /\ at[q][x[2]][2] \in 1..Len(Copied(q, from[x])) /\ from[x] \in 1..n
    BY <1>5, <2>1
  <2>4. /\ y = <<y[1], y[2]>> /\ from[y] = at[s][y[2]][1]
        /\ TokenAt(come, y) = Token(s, r, pushed[s][y[2]])
        /\ TokenAt(come, y) = Copied(s, from[y])[at[s][y[2]][2]]
        /\ at[s][y[2]][2] \in 1..Len(Copied(s, from[y])) /\ from[y] \in 1..n
    BY <1>5, <2>2
  <2>5. x[2] \in Nat /\ y[2] \in Nat /\ from[x] \in Nat /\ from[y] \in Nat
    BY <2>1, <2>2, <2>3, <2>4, SMTT(20)
  <2>6. q = s => /\ x[2] < y[2] => from[x] < from[y] \/ (from[x] = from[y] /\ at[q][x[2]][2] < at[q][y[2]][2])
                 /\ y[2] < x[2] => from[y] < from[x] \/ (from[x] = from[y] /\ at[q][y[2]][2] < at[q][x[2]][2])
    <3>1. \A k, l \in 1..Len(pushed[q]) : k < l =>
            \/ at[q][k][1] < at[q][l][1]
            \/ at[q][k][1] = at[q][l][1] /\ at[q][k][2] < at[q][l][2]
      BY <1>2
    <3>2. from[x] = at[q][x[2]][1] /\ from[y] = at[s][y[2]][1]
      BY <2>3, <2>4
    <3>3. ASSUME q = s PROVE x[2] \in 1..Len(pushed[q]) /\ y[2] \in 1..Len(pushed[q])
      BY <2>1, <2>2, <3>3
    <3>4. ASSUME NEW k \in 1..Len(pushed[q]), NEW l \in 1..Len(pushed[q]), k < l
          PROVE  \/ at[q][k][1] < at[q][l][1]
                 \/ at[q][k][1] = at[q][l][1] /\ at[q][k][2] < at[q][l][2]
      BY <3>1, <3>4
    <3>5. ASSUME q = s, x[2] < y[2]
          PROVE  from[x] < from[y] \/ (from[x] = from[y] /\ at[q][x[2]][2] < at[q][y[2]][2])
      BY <3>2, <3>3, <3>4, <3>5
    <3>6. ASSUME q = s, y[2] < x[2]
          PROVE  from[y] < from[x] \/ (from[x] = from[y] /\ at[q][y[2]][2] < at[q][x[2]][2])
      BY <3>2, <3>3, <3>4, <3>6
    <3> QED
      BY <3>5, <3>6
  <2>7. ASSUME x # y, from[x] = from[y], TokenAt(come, x)[2] = TokenAt(come, y)[2] PROVE FALSE
    <3>1. q = s
      BY <2>3, <2>4, <2>7 DEF Token
    <3>2. Follow(cont[t][from[x]], Copied(q, from[x]))
      BY <1>3, <2>3
    <3>3. at[q][x[2]][2] = at[q][y[2]][2]
      <4> DEFINE C == Copied(q, from[x])
      <4> HIDE DEF C
      <4>1. \A i \in 1..Len(C), j \in 1..Len(C) : C[i][2] = C[j][2] => i = j
        BY <3>2 DEF Follow, C
      <4>2. at[q][x[2]][2] \in 1..Len(C) /\ TokenAt(come, x) = C[at[q][x[2]][2]]
        BY <2>3 DEF C
      <4>3. at[q][y[2]][2] \in 1..Len(C) /\ TokenAt(come, y) = C[at[q][y[2]][2]]
        BY <2>4, <2>7, <3>1 DEF C
      <4> QED
        BY <2>7, <4>1, <4>2, <4>3
    <3>4. x[2] = y[2]
      <4>1. at[q][x[2]][2] \in Nat
        BY <2>3
      <4> QED
        BY <2>5, <2>6, <2>7, <3>1, <3>3, <4>1
    <3> QED
      BY <2>1, <2>2, <2>3, <2>4, <2>7, <3>1, <3>4
  <2>8. x[1] = y[1] /\ from[x] < from[y] => x[2] < y[2]
    <3>1. ASSUME x[1] = y[1], from[x] < from[y] PROVE x[2] < y[2]
      <4>1. q = s
        BY <2>1, <2>2, <3>1
      <4>2. x[2] # y[2]
        BY <2>3, <2>4, <2>5, <3>1, <4>1
      <4> QED
        BY <2>5, <2>6, <3>1, <4>1, <4>2
    <3> QED
      BY <3>1
  <2> QED
    BY <2>7, <2>8
<1>9. CopiesPushed(cont, come, t, n, from, Road)
  BY <1>6, <1>7, <1>8 DEF CopiesPushed
<1> QED
  BY <1>1, <1>9 DEF cont, come

LEMMA AnswerStep ==
  ASSUME IInv, NEW r \in Routers, NEW g \in Guids, Answer(r, g)
  PROVE  IInv'
<1> DEFINE held == pending[r][g]
           n == Len(held)
           ps == [i \in DOMAIN held |-> [held[i] EXCEPT !.dstNa = net.home[g]]]
           t == <<"held", r, g>>
<1>1. /\ held # <<>> /\ guidNas' = [guidNas EXCEPT ![r] = @ \cup {g}]
      /\ pending' = [pending EXCEPT ![r][g] = <<>>]
      /\ UNCHANGED <<tables, published, received>>
  BY DEF Answer
<1>2. /\ TypeOK /\ Static /\ Labelled(pending) /\ KnownNotHeld /\ Typed(queue, pending, received)
      /\ TokensOK(ContOf(queue, pending, received), Road, Starts, Prior)
  BY NowTyped DEF IInv, Cont
<1>3. held \in Seq(Packets) /\ n \in Nat \ {0} /\ DOMAIN held = 1..n
  BY <1>1, <1>2, EmptySeq DEF Typed
<1>4. PICK pushed \in Batches(r, ps) : Transfer({}, At(r, pushed))
  BY DEF Answer
<1>5. DOMAIN ps = 1..n
  BY <1>3
<1>6. PICK pushes :
        /\ \A i \in 1..n : pushes[i] \in Emissions(r, ps[i])
        /\ pushed = [q \in Queues |-> FlattenSeq([i \in 1..n |-> pushes[i][q]])]
  <2> HIDE DEF ps
  <2> QED
    BY <1>4, <1>5 DEF Batches
<1>7. \A q \in Queues : pushed[q] = FlattenSeq([i \in 1..n |-> pushes[i][q]])
  BY <1>6
<1>8. ASSUME NEW i \in 1..n PROVE Emitted(r, held[i], pushes[i])
  <2>1. held[i] \in Packets
    BY <1>3, ElementOfSeq
  <2>2. held[i].guid = g /\ held[i].dstNa = EmptyNa
    BY <1>2 DEF Labelled
  <2>3. ps[i] = [held[i] EXCEPT !.dstNa = net.home[g]]
    BY <1>3
  <2>4. Home(held[i].guid, held[i].dstNa) = net.home[g]
    BY <2>2 DEF Home
  <2>5. pushes[i] \in Emissions(r, [held[i] EXCEPT !.dstNa = Home(held[i].guid, held[i].dstNa)])
    BY <1>6, <2>3, <2>4
  <2> HIDE DEF held, n, ps
  <2> QED
    BY <1>2, <2>1, <2>5, EmissionEmitted
<1>9. /\ \A q \in Queues : pushed[q] \in Seq(Packets)
      /\ \E from : CopiesPushed(ContOf(queue, pending, received), ContOf(At(r, pushed), NoneHeld, NoneGiven),
                          t, n, from, Road)
  BY <1>2, <1>3, <1>7, <1>8, BatchCopies
<1>10. \A x \in Routers, q \in Queues : At(r, pushed)[x][q] \in Seq(Packets)
  <2>1. \A x \in Routers, q \in Queues : At(r, pushed)[x][q] = IF x = r THEN pushed[q] ELSE <<>>
    BY DEF At, Nothing
  <2> QED
    BY <1>9, <2>1, EmptySeq
<1>11. /\ \A x \in Routers, q \in Queues : queue[x][q] \in Seq(Packets)
       /\ \A x \in Routers, y \in Guids : pending[x][y] \in Seq(Packets)
       /\ \A x \in Hosts : received[x] \in Seq(Deliveries) /\ NoneGiven[x] = <<>>
       /\ overflowed \in BOOLEAN /\ <<>> \in Seq(Packets) /\ <<>> \in Seq(Deliveries)
  BY <1>2, EmptySeq DEF Typed, TypeOK, NoneGiven
<1>12. UNCHANGED tables /\ UNCHANGED published /\ UNCHANGED received /\ UNCHANGED net
  BY <1>1 DEF tables
<1>13. \A x \in Routers, y \in Guids :
         pending'[x][y] = IF x = r /\ y = g THEN <<>> ELSE pending[x][y]
  BY <1>1, <1>2 DEF TypeOK
<1> DEFINE come == At(r, pushed)
<1> HIDE DEF come, held, n, ps
<1>14. Typed(come, NoneHeld, NoneGiven)
  BY <1>10, <1>11, NoneTyped DEF Typed, come
<1>15. /\ overflowed' \in BOOLEAN
       /\ \A x \in Routers, q \in Queues :
              /\ queue'[x][q] \in Seq(Packets) /\ Len(queue'[x][q]) <= net.capacity
              /\ Shift(queue[x][q], come[x][q], queue'[x][q], IF <<x, q>> \in {} THEN 1 ELSE 0)
  <2>1. /\ \A x \in Routers, q \in Queues : come[x][q] \in Seq(Packets)
        /\ Transfer({}, come)
    BY <1>4, <1>10 DEF come
  <2> QED
    BY <1>2, <1>11, <2>1, TransferShift
<1>16. ASSUME NEW x \in Routers, NEW y \in Guids
       PROVE  /\ pending'[x][y] \in Seq(Packets)
              /\ Shift(pending[x][y], NoneHeld[x][y], pending'[x][y], IF x = r /\ y = g THEN n ELSE 0)
  <2>1. CASE x = r /\ y = g
    BY <1>11, <1>13, <2>1, NoneTyped, NothingShift DEF held, n
  <2>2. CASE ~(x = r /\ y = g)
    BY <1>11, <1>13, <2>2, NoneTyped, NothingShift
  <2> QED
    BY <2>1, <2>2
<1>17. Typed(queue', pending', received')
  BY <1>11, <1>12, <1>15, <1>16 DEF Typed
<1>18. TypeOK'
  <2>1. pending' \in [Routers -> [Guids -> Seq(Packets)]]
    BY <1>1, <1>2, <1>11 DEF TypeOK
  <2>2. guidNas' \in [Routers -> SUBSET Guids]
    BY <1>1, <1>2 DEF TypeOK
  <2> QED
    BY <1>2, <1>12, <1>15, <2>1, <2>2, SameTypes DEF TypeOK
<1>19. Labelled(pending')
  <2>1. ASSUME NEW x \in Routers, NEW y \in Guids, NEW i \in 1..Len(pending'[x][y])
        PROVE  pending'[x][y][i].guid = y /\ pending'[x][y][i].dstNa = EmptyNa
    <3>1. pending'[x][y] = pending[x][y]
      <4>1. pending'[x][y] # <<>>
        BY <1>16, EmptySeq
      <4> QED
        BY <1>13, <4>1
    <3> QED
      BY <1>2, <3>1 DEF Labelled
  <2> QED
    BY <2>1 DEF Labelled
<1>20. KnownNotHeld' /\ Static' /\ Labelled(pending)'
  <2>1. \A x \in Routers, y \in Guids : y \in guidNas'[x] => y \in guidNas[x] \/ (x = r /\ y = g)
    BY <1>1, <1>2 DEF TypeOK
  <2>2. KnownNotHeld'
    BY <1>2, <1>12, <1>13, <2>1, SameTypes DEF KnownNotHeld
  <2> QED
    BY <1>2, <1>12, <1>19, <2>2, SameTypes, StaticSame DEF Labelled
<1>21. t \in Holders /\ \A x : t # <<"data", x, Header>>
  BY DEF Holders
<1>22. n \in Nat /\ n <= Len(ContOf(queue, pending, received)[t])
  <2>1. "data" \in Queues
    BY DEF Queues
  <2>2. ContOf(queue, pending, received)[t] = Tokens("data", r, held)
    BY ContAt DEF held
  <2>3. Len(Tokens("data", r, held)) = n
    BY <1>3, <2>1, TokensAre DEF n
  <2> QED
    BY <1>3, <2>2, <2>3
<1>23. Shifts(queue, pending, received, come, NoneHeld, NoneGiven, queue', pending', received', t, n)
  <2>1. \A x \in Routers, q \in Queues :
          Dropped(<<q, x, Header>>, t, n) = IF <<x, q>> \in {} THEN 1 ELSE 0
    BY DEF Dropped, Queues
  <2>2. \A x \in Routers, y \in Guids : Dropped(<<"held", x, y>>, t, n) = IF x = r /\ y = g THEN n ELSE 0
    BY DEF Dropped
  <2>3. \A x \in Hosts : Dropped(<<"got", x, Header>>, t, n) = 0
    BY DEF Dropped
  <2>4. \A x \in Hosts : Shift(received[x], NoneGiven[x], received'[x], 0)
    BY <1>11, <1>12, NothingShift
  <2> QED
    BY <1>15, <1>16, <2>1, <2>2, <2>3, <2>4 DEF Shifts
<1>24. \E from : CopiesPushed(ContOf(queue, pending, received), ContOf(come, NoneHeld, NoneGiven), t, n, from, Road)
  BY <1>9 DEF come
<1>25. Trees(Road, Starts)
  BY <1>2, StartsTrees DEF TypeOK
<1>26. TokensOK(ContOf(queue', pending', received'), Road, Starts, Prior)
  <2> HIDE DEF t
  <2> QED
    BY <1>2, <1>14, <1>17, <1>19, <1>21, <1>22, <1>23, <1>24, <1>25, TokensMove
<1>27. Starts' = Starts
  BY <1>12 DEF Starts, Start
<1> QED
  BY <1>12, <1>18, <1>20, <1>26, <1>27, SameTypes, RoadSame DEF IInv

-----------------------------------------------------------------------------
(* A publication starts a token of its own.                                *)

LEMMA PublishStep ==
  ASSUME IInv, NEW input \in net.inputs, Publish(input)
  PROVE  IInv'
<1> DEFINE id == Len(published')
           p == Packet(id, input.guid, EmptyNa, input.dstNa)
           come == At(input.at, [Nothing EXCEPT !["in"] = <<p>>])
           h == <<"in", input.at, Header>>
           cont == ContOf(queue, pending, received)
           pushed == ContOf(come, NoneHeld, NoneGiven)
           new == ContOf(queue', pending', received')
           start2 == [i \in 1..id |-> Start(published'[i])]
<1>1. /\ "in" \in Queues /\ Len(published) < MaxPublications
      /\ published' = Append(published, input) /\ Transfer({}, come)
      /\ UNCHANGED <<tables, guidNas, pending, received>>
  BY DEF Queues, Publish
<1>2. /\ TypeOK /\ Static /\ Labelled(pending) /\ KnownNotHeld /\ Typed(queue, pending, received)
      /\ TokensOK(cont, Road, Starts, Prior)
  BY NowTyped DEF IInv, Cont
<1>3. UNCHANGED tables /\ UNCHANGED guidNas /\ UNCHANGED pending /\ UNCHANGED received /\ UNCHANGED net
  BY <1>1 DEF tables
<1>4. /\ published \in Seq(net.inputs) /\ Len(published) \in Nat /\ id = Len(published) + 1
      /\ published' \in Seq(net.inputs) /\ published'[id] = input
      /\ \A i \in 1..Len(published) : published'[i] = published[i]
  BY <1>1, <1>2, AppendProperties, LenProperties DEF TypeOK
<1>5. input.at \in Routers /\ input.guid \in Guids /\ input.dstNa \in Nas
  BY <1>2, NetworksAssumption DEF Static, Guids, Nas
<1>6. id \in 1..MaxPublications /\ id \in Nat
  BY <1>1, <1>4, BoundAssumption
<1>7. /\ p \in Packets
      /\ Token("in", input.at, p) = <<id, Start(input)>>
  BY <1>5, <1>6, HopsKnown, <1>2 DEF Packet, Packets, Token, Start, Nas
<1> HIDE DEF p, id
<1>8. \A x \in Routers, q \in Queues : come[x][q] = IF x = input.at /\ q = "in" THEN <<p>> ELSE <<>>
  BY <1>1 DEF At, Nothing
<1> HIDE DEF come
<1>9. /\ \A x \in Routers, q \in Queues : queue[x][q] \in Seq(Packets)
      /\ \A x \in Routers, y \in Guids : pending[x][y] \in Seq(Packets)
      /\ \A x \in Hosts : received[x] \in Seq(Deliveries) /\ NoneGiven[x] = <<>>
      /\ overflowed \in BOOLEAN /\ <<>> \in Seq(Packets) /\ <<p>> \in Seq(Packets)
      /\ <<>> \in Seq(Deliveries)
  BY <1>2, <1>7, EmptySeq DEF Typed, TypeOK, NoneGiven
<1>10. \A x \in Routers, q \in Queues : come[x][q] \in Seq(Packets)
  <2>1. \A x \in Routers, q \in Queues : come[x][q] \in {<<>>, <<p>>}
    BY <1>8
  <2> QED
    BY <1>9, <2>1
<1>11. Typed(come, NoneHeld, NoneGiven)
  BY <1>9, <1>10, NoneTyped DEF Typed
<1>12. /\ overflowed' \in BOOLEAN
       /\ \A x \in Routers, q \in Queues :
              /\ queue'[x][q] \in Seq(Packets) /\ Len(queue'[x][q]) <= net.capacity
              /\ Shift(queue[x][q], come[x][q], queue'[x][q], IF <<x, q>> \in {} THEN 1 ELSE 0)
  BY <1>1, <1>2, <1>9, <1>10, TransferShift
<1>13. Typed(queue', pending', received')
  BY <1>3, <1>9, <1>12 DEF Typed
<1>14. TypeOK'
  BY <1>2, <1>3, <1>4, <1>12, SameTypes DEF TypeOK
<1>15. Labelled(pending)' /\ Labelled(pending') /\ KnownNotHeld' /\ Static'
  BY <1>2, <1>3, SameTypes, StaticSame DEF Labelled, KnownNotHeld
<1>16. h \in Holders /\ \A q \in Prior : q[1] # h
  <2>1. \A x, y : <<"held", x, y>> # h
    OBVIOUS
  <2> QED
    BY <1>1, <1>5, <2>1, PriorFacts DEF Holders
<1>17. pushed[h] = << <<id, Start(input)>> >>
  <2>1. Tokens("in", input.at, <<p>>) = <<Token("in", input.at, p)>>
    BY DEF Tokens
  <2>2. pushed[h] = Tokens("in", input.at, come[input.at]["in"])
    BY <1>1, <1>5, ContAt
  <2> QED
    BY <1>1, <1>5, <1>7, <1>8, <2>1, <2>2
<1>18. ASSUME NEW c \in Holders, c # h PROVE pushed[c] = <<>>
  <2>1. CASE \E x \in Routers, q \in Queues : c = <<q, x, Header>>
    <3>1. PICK x \in Routers, q \in Queues : c = <<q, x, Header>>
      BY <2>1
    <3>2. come[x][q] = <<>>
      BY <1>8, <1>18, <3>1
    <3> QED
      BY <3>1, <3>2, ContAt, NothingFollows, SMTT(20)
  <2>2. CASE \E x \in Routers, y \in Guids : c = <<"held", x, y>>
    <3>1. PICK x \in Routers, y \in Guids : c = <<"held", x, y>>
      BY <2>2
    <3>2. pushed[c] = Tokens("data", x, NoneHeld[x][y])
      BY <3>1, ContAt
    <3> QED
      BY <3>2, NoneTyped, NothingFollows
  <2>3. CASE \E x \in Hosts : c = <<"got", x, Header>>
    <3>1. \A x : Given(x, <<>>) = <<>>
      BY DEF Given
    <3> QED
      BY <1>9, <2>3, <3>1, ContAt
  <2> QED
    BY <2>1, <2>2, <2>3, HolderKinds
<1>19. Shifts(queue, pending, received, come, NoneHeld, NoneGiven, queue', pending', received', h, 0)
  <2>1. \A c : Dropped(c, h, 0) = 0
    BY DEF Dropped
  <2>2. \A x \in Routers, q \in Queues : Shift(queue[x][q], come[x][q], queue'[x][q], 0)
    BY <1>12
  <2>3. \A x \in Routers, y \in Guids : Shift(pending[x][y], NoneHeld[x][y], pending'[x][y], 0)
    BY <1>3, <1>9, NoneTyped, NothingShift
  <2>4. \A x \in Hosts : Shift(received[x], NoneGiven[x], received'[x], 0)
    BY <1>3, <1>9, NothingShift
  <2> HIDE DEF h
  <2> QED
    BY <2>1, <2>2, <2>3, <2>4 DEF Shifts
<1>20. Holds(cont, Holders, Stations) /\ Holds(pushed, Holders, Stations) /\ Holds(new, Holders, Stations)
  BY <1>2, <1>11, <1>13, ContHolds
<1>21. Shifted(cont, pushed, new, h, 0)
  <2>1. 0 <= Len(cont[h])
    BY <1>16, <1>20, LenProperties DEF Holds
  <2> HIDE DEF h
  <2> QED
    BY <1>2, <1>11, <1>13, <1>16, <1>19, <2>1, ContShifts
<1>22. Together(new, Prior)
  BY <1>2, <1>13, <1>15, ContTogether
<1>23. Trees(Road, start2)
  <2>1. \A i \in 1..id : published'[i] \in net.inputs
    BY <1>4, ElementOfSeq DEF id
  <2> QED
    BY <1>2, <2>1, StationTree DEF Trees
<1>24. /\ DOMAIN Starts = 1..Len(published) /\ DOMAIN start2 = 1..id
       /\ \A i \in 1..Len(published) : Starts[i] = Start(published[i])
       /\ \A i \in 1..id : start2[i] = Start(published'[i])
  BY DEF Starts
<1>25. /\ DOMAIN start2 = (DOMAIN Starts) \cup {id} /\ start2[id] = Start(input)
       /\ \A i \in DOMAIN Starts : start2[i] = Starts[i] /\ i \in Nat /\ i < id
  <2>1. 1..id = (1..Len(published)) \cup {id} /\ \A i \in 1..Len(published) : i \in 1..id /\ i \in Nat /\ i < id
    BY <1>4
  <2> HIDE DEF start2
  <2> QED
    BY <1>4, <1>6, <1>24, <2>1
<1>26. Started(Starts, start2, id)
  <2> HIDE DEF start2
  <2> QED
    BY <1>25 DEF Started
<1>27. TokensOK(new, Road, start2, Prior)
  <2> HIDE DEF cont, pushed, new, h, start2
  <2>1. pushed[h] = << <<id, start2[id]>> >>
    BY <1>17, <1>25
  <2> QED
    BY <1>2, <1>6, <1>16, <2>1, <1>18, <1>20, <1>21, <1>22, <1>23, <1>26, NewOne
<1>28. Starts' = start2
  BY DEF Starts, id, Start
<1> QED
  BY <1>3, <1>14, <1>15, <1>27, <1>28, SameTypes, RoadSame DEF IInv

-----------------------------------------------------------------------------
(* The tables made of finite files are finite, and nothing is on its way.  *)

LEMMA FiniteLines ==
  ASSUME NEW file, IsFiniteSet(DOMAIN file), NEW n, NEW most
  PROVE  /\ IsFiniteSet(ReadLines(file, n, most))
         /\ IsFiniteSet({file[i] : i \in ReadLines(file, n, most)})
         /\ IsFiniteSet({file[i][1] : i \in ReadLines(file, n, most)})
<1> DEFINE S == ReadLines(file, n, most)
           f == [i \in S |-> file[i]]
           f1 == [i \in S |-> file[i][1]]
<1>1. IsFiniteSet(S)
  BY FS_Subset DEF ReadLines
<1> HIDE DEF S
<1>2. IsFiniteSet({f[i] : i \in DOMAIN f}) /\ IsFiniteSet({f1[i] : i \in DOMAIN f1})
  BY <1>1, FiniteValues
<1>3. {f[i] : i \in DOMAIN f} = {file[i] : i \in S} /\ {f1[i] : i \in DOMAIN f1} = {file[i][1] : i \in S}
  OBVIOUS
<1> QED
  BY <1>1, <1>2, <1>3 DEF S

LEMMA FiniteTables ==
  ASSUME NEW file, IsFiniteSet(DOMAIN file)
  PROVE  /\ IsFiniteSet(DOMAIN NeighboursOf(file))
         /\ \A g \in DOMAIN SubscriptionsOf(file) : IsFiniteSet(SubscriptionsOf(file)[g])
         /\ IsFiniteSet(DOMAIN MappingTableOf(file))
         /\ \A g \in DOMAIN MappingTableOf(file) : IsFiniteSet(MappingTableOf(file)[g])
<1>1. IsFiniteSet(DOMAIN NeighboursOf(file))
  BY FiniteLines DEF NeighboursOf
<1>2. ASSUME NEW g \in DOMAIN SubscriptionsOf(file) PROVE IsFiniteSet(SubscriptionsOf(file)[g])
  <2> DEFINE L == {file[i] : i \in ReadLines(file, 2, 2)}
             Lg == {l \in L : l[1] = g}
  <2>1. IsFiniteSet(L)
    BY FiniteLines
  <2>2. SubscriptionsOf(file)[g] = {line[2] : line \in Lg}
    BY <1>2 DEF SubscriptionsOf
  <2> HIDE DEF L
  <2>3. IsFiniteSet(Lg)
    BY <2>1, FS_Subset
  <2> HIDE DEF Lg
  <2>4. IsFiniteSet({line[2] : line \in Lg})
    BY <2>3, FiniteFields
  <2> QED
    BY <2>2, <2>4
<1> DEFINE M == {file[i] : i \in ReadLines(file, 1, 2)}
<1>3. IsFiniteSet(M)
  BY FiniteLines
<1>4. ASSUME NEW g \in DOMAIN MappingTableOf(file) PROVE IsFiniteSet(MappingTableOf(file)[g])
  <2> DEFINE Mg == {l \in M : l[1] = g /\ Len(l) > 1}
  <2>1. MappingTableOf(file)[g] = {line[2] : line \in Mg}
    BY <1>4 DEF MappingTableOf
  <2> HIDE DEF M
  <2>2. IsFiniteSet(Mg)
    BY <1>3, FS_Subset
  <2> HIDE DEF Mg
  <2>3. IsFiniteSet({line[2] : line \in Mg})
    BY <2>2, FiniteFields
  <2> QED
    BY <2>1, <2>3
<1>5. IsFiniteSet(DOMAIN MappingTableOf(file))
  <2>1. DOMAIN MappingTableOf(file) = {line[1] : line \in M}
    BY DEF MappingTableOf
  <2> HIDE DEF M
  <2> QED
    BY <1>3, <2>1, FiniteFields
<1> QED
  BY <1>1, <1>2, <1>4, <1>5

LEMMA InitStatic ==
  ASSUME Init
  PROVE  Static
<1>1. /\ net \in Networks /\ Consistent
      /\ subscriptions = [r \in Routers |-> SubscriptionsOf(net.subFile[r])]
      /\ neighbours = [r \in Routers |-> NeighboursOf(net.arpFile[r])]
      /\ mapping = [r \in net.rps |-> MappingTableOf(net.rpFile[r])]
  BY DEF Init
<1>2. /\ \A r \in Routers :
           IsFiniteSet(DOMAIN net.subFile[r]) /\ IsFiniteSet(DOMAIN net.arpFile[r])
      /\ \A r \in net.rps : IsFiniteSet(DOMAIN net.rpFile[r])
  BY <1>1, NetworksAssumption
<1>3. \A r \in Routers : IsFiniteSet(DOMAIN neighbours[r])
  BY <1>1, <1>2, FiniteTables
<1>4. ASSUME NEW r \in Routers, NEW g \in Guids PROVE IsFiniteSet(SubscriberNas(r, g))
  <2>1. subscriptions[r] = SubscriptionsOf(net.subFile[r])
    BY <1>1
  <2>2. IsFiniteSet({})
    BY FS_EmptySet
  <2>3. \A h \in DOMAIN subscriptions[r] : IsFiniteSet(subscriptions[r][h])
    BY <1>2, <2>1, FiniteTables
  <2> QED
    BY <2>2, <2>3 DEF SubscriberNas
<1>5. DOMAIN mapping = net.rps
  BY <1>1
<1>6. ASSUME NEW r \in net.rps
      PROVE  IsFiniteSet(DOMAIN mapping[r]) /\ \A g \in DOMAIN mapping[r] : IsFiniteSet(mapping[r][g])
  <2>1. mapping[r] = MappingTableOf(net.rpFile[r]) /\ IsFiniteSet(DOMAIN net.rpFile[r])
    BY <1>1, <1>2
  <2> QED
    BY <2>1, FiniteTables
<1> QED
  BY <1>1, <1>3, <1>4, <1>5, <1>6 DEF Static

LEMMA InitIInv == Init => IInv
<1> SUFFICES ASSUME Init PROVE IInv
  OBVIOUS
<1>1. /\ queue = [r \in Routers |-> [q \in Queues |-> <<>>]]
      /\ guidNas = [r \in Routers |-> {}]
      /\ pending = [r \in Routers |-> [g \in Guids |-> <<>>]]
      /\ published = <<>> /\ overflowed = FALSE
      /\ received = [h \in Hosts |-> <<>>] /\ net \in Networks
  BY DEF Init
<1>2. TypeOK
  <2>1. <<>> \in Seq(Packets) /\ <<>> \in Seq(net.inputs)
        /\ <<>> \in Seq([id : 1..MaxPublications, guid : Guids])
    BY EmptySeq
  <2>2. \A r \in Routers, q \in Queues : queue[r][q] = <<>>
    BY <1>1
  <2>3. Len(<<>>) = 0 /\ 0 <= net.capacity
    BY <1>1, NetworksAssumption
  <2> QED
    BY <1>1, <2>1, <2>2, <2>3 DEF TypeOK
<1>3. Labelled(pending) /\ KnownNotHeld
  BY <1>1 DEF Labelled, KnownNotHeld
<1>4. ASSUME NEW c \in Holders PROVE Cont[c] = <<>>
  <2>1. \A q, x : Tokens(q, x, <<>>) = <<>> /\ Given(x, <<>>) = <<>>
    BY DEF Tokens, Given
  <2>2. CASE \E r \in Routers, q \in Queues : c = <<q, r, Header>>
    <3>1. PICK r \in Routers, q \in Queues : c = <<q, r, Header>>
      BY <2>2
    <3>2. Cont[c] = Tokens(q, r, queue[r][q]) /\ queue[r][q] = <<>>
      BY <1>1, <3>1, ContAt DEF Cont
    <3> QED
      BY <2>1, <3>2
  <2>3. CASE \E r \in Routers, g \in Guids : c = <<"held", r, g>>
    <3>1. PICK r \in Routers, g \in Guids : c = <<"held", r, g>>
      BY <2>3
    <3>2. Cont[c] = Tokens("data", r, pending[r][g]) /\ pending[r][g] = <<>>
      BY <1>1, <3>1, ContAt DEF Cont
    <3> QED
      BY <2>1, <3>2
  <2>4. CASE \E h \in Hosts : c = <<"got", h, Header>>
    <3>1. PICK h \in Hosts : c = <<"got", h, Header>>
      BY <2>4
    <3>2. Cont[c] = Given(h, received[h]) /\ received[h] = <<>>
      BY <1>1, <3>1, ContAt DEF Cont
    <3> QED
      BY <2>1, <3>2
  <2> QED
    BY <2>2, <2>3, <2>4, HolderKinds
<1>5. TokensOK(Cont, Road, Starts, Prior)
  <2>1. DOMAIN Cont = Holders
    BY DEF Cont, ContOf
  <2>2. PlacesOf(Cont) = {}
    BY <1>4, <2>1 DEF PlacesOf
  <2>3. DOMAIN IdsOf(Cont) = {} /\ DOMAIN NodesOf(Cont) = {}
    BY <2>2 DEF IdsOf, NodesOf
  <2> QED
    BY <2>3 DEF TokensOK, Placed, Apart, Ordered
<1> QED
  BY <1>2, <1>3, <1>5, InitStatic DEF IInv

LEMMA NextIInv == IInv /\ [Next]_vars => IInv'
<1> SUFFICES ASSUME IInv, [Next]_vars PROVE IInv'
  OBVIOUS
<1>1. CASE Work
  <2>1. PICK r \in Routers :
          \/ Classify(r) \/ Resolve(r) \/ Hold(r) \/ Copy(r) \/ Send(r)
          \/ \E g \in Guids : Answer(r, g)
    BY <1>1 DEF Work
  <2> QED
    BY <2>1, ClassifyStep, ResolveStep, HoldStep, CopyStep, SendStep, AnswerStep
<1>2. CASE \E input \in net.inputs : Publish(input)
  BY <1>2, PublishStep
<1>3. CASE UNCHANGED vars
  <2>1. UNCHANGED <<tables, queue, guidNas, pending, published, received, overflowed>>
    BY <1>3 DEF vars
  <2>2. UNCHANGED tables
    BY <2>1
  <2>3. Static' /\ Road' = Road /\ Prior' = Prior /\ Cont' = Cont
    BY <2>1, <2>2, SameTypes, StaticSame, RoadSame DEF IInv, Cont
  <2>4. Starts' = Starts
    BY <2>1 DEF Starts, Start
  <2>5. TypeOK'
    BY <2>1, <2>2, SameTypes DEF IInv, TypeOK, tables
  <2>6. Labelled(pending)' /\ KnownNotHeld'
    BY <2>1, <2>2, SameTypes DEF IInv, Labelled, KnownNotHeld
  <2> QED
    BY <2>3, <2>4, <2>5, <2>6 DEF IInv
<1> QED
  BY <1>1, <1>2, <1>3 DEF Next

(* The inductive invariant, for every network.                             *)
THEOREM TokensInOrder == Spec => []IInv
<1> QED
  BY InitIInv, NextIInv, PTL DEF Spec

(* Packets, queues and deliveries are always of their types, and no queue  *)
(* is beyond its capacity.                                                 *)
THEOREM NetworkTypes == Spec => []TypeOK
<1>1. IInv => TypeOK
  BY DEF IInv
<1> QED
  BY <1>1, TokensInOrder, PTL

-----------------------------------------------------------------------------
(* What the hosts got.                                                     *)

LEMMA GotToken ==
  ASSUME IInv, NEW h \in Hosts, NEW i \in DOMAIN received[h]
  PROVE  LET c == <<"got", h, Header>>
             a == received[h][i]
         IN  /\ i \in Nat /\ received[h] \in Seq(Deliveries) /\ a \in Deliveries
             /\ <<c, i>> \in PlacesOf(Cont) /\ <<c, i>> \in DOMAIN IdsOf(Cont)
             /\ TokenAt(Cont, <<c, i>>) = <<a.id, <<"got", h, a.guid, EmptyNa, EmptyNa, EmptyNa>>>>
             /\ IdsOf(Cont)[<<c, i>>] = a.id
             /\ NodesOf(Cont)[<<c, i>>] = <<"got", h, a.guid, EmptyNa, EmptyNa, EmptyNa>>
<1> DEFINE c == <<"got", h, Header>>
           a == received[h][i]
<1>1. received[h] \in Seq(Deliveries) /\ i \in 1..Len(received[h]) /\ i \in Nat
  <2>1. received[h] \in Seq(Deliveries)
    BY DEF IInv, TypeOK, Deliveries
  <2>2. DOMAIN received[h] = 1..Len(received[h]) /\ Len(received[h]) \in Nat
    BY <2>1, LenProperties
  <2> QED
    BY <2>1, <2>2
<1>2. a \in Deliveries
  BY <1>1, ElementOfSeq
<1>3. c \in Holders /\ DOMAIN Cont = Holders /\ Cont[c] = Given(h, received[h])
  BY ContAt DEF Holders, Cont
<1> HIDE DEF c, a
<1>4. /\ Len(Cont[c]) = Len(received[h])
      /\ Cont[c][i] = <<a.id, <<"got", h, a.guid, EmptyNa, EmptyNa, EmptyNa>>>>
  BY <1>1, <1>3, GivenAre DEF IInv, a
<1>5. <<c, i>> \in PlacesOf(Cont)
  BY <1>1, <1>3, <1>4 DEF PlacesOf
<1> QED
  <2>1. TokenAt(Cont, <<c, i>>) = <<a.id, <<"got", h, a.guid, EmptyNa, EmptyNa, EmptyNa>>>>
    BY <1>4 DEF TokenAt
  <2>2. /\ <<c, i>> \in DOMAIN IdsOf(Cont)
        /\ IdsOf(Cont)[<<c, i>>] = TokenAt(Cont, <<c, i>>)[1]
        /\ NodesOf(Cont)[<<c, i>>] = TokenAt(Cont, <<c, i>>)[2]
    BY <1>5 DEF IdsOf, NodesOf
  <2>3. /\ IdsOf(Cont)[<<c, i>>] = a.id
        /\ NodesOf(Cont)[<<c, i>>] = <<"got", h, a.guid, EmptyNa, EmptyNa, EmptyNa>>
    BY <2>1, <2>2
  <2> QED
    BY <1>1, <1>2, <1>5, <2>1, <2>2, <2>3, Zenon DEF c, a

(* Publications to the same GUID from the same place, addressed alike,     *)
(* arrive in order at each host.                                           *)
THEOREM NetworkInOrder == Spec => []InOrder
<1>1. ASSUME IInv PROVE InOrder
  <2> SUFFICES ASSUME NEW h \in Hosts, NEW i \in DOMAIN received[h], NEW j \in DOMAIN received[h],
                      i < j, received[h][i].guid = received[h][j].guid,
                      published[received[h][i].id] = published[received[h][j].id]
               PROVE  received[h][i].id < received[h][j].id
    BY DEF InOrder
  <2> DEFINE a == received[h][i]
             b == received[h][j]
             c == <<"got", h, Header>>
             s == <<"got", h, a.guid, EmptyNa, EmptyNa, EmptyNa>>
             x == <<c, i>>
             y == <<c, j>>
             id == IdsOf(Cont)
             st == NodesOf(Cont)
  <2>1. /\ i \in Nat /\ j \in Nat /\ a \in Deliveries /\ b \in Deliveries
        /\ x \in DOMAIN id /\ y \in DOMAIN id /\ x # y
        /\ id[x] = a.id /\ id[y] = b.id /\ st[x] = s /\ st[y] = s
        /\ x \in PlacesOf(Cont) /\ y \in PlacesOf(Cont)
    <3>1. /\ i \in Nat /\ a \in Deliveries /\ x \in DOMAIN id /\ x \in PlacesOf(Cont)
          /\ id[x] = a.id /\ st[x] = s
      BY <1>1, GotToken
    <3>2. /\ j \in Nat /\ b \in Deliveries /\ y \in DOMAIN id /\ y \in PlacesOf(Cont)
          /\ id[y] = b.id /\ st[y] = <<"got", h, b.guid, EmptyNa, EmptyNa, EmptyNa>>
      BY <1>1, GotToken
    <3>3. x # y
      BY <3>1, <3>2
    <3> QED
      BY <3>1, <3>2, <3>3
  <2>2. a.id \in Nat /\ b.id \in Nat
    BY <2>1, BoundAssumption DEF Deliveries
  <2>3. a.id # b.id
    <3>1. Apart(id, st, Road)
      BY <1>1 DEF IInv, TokensOK
    <3>2. s \in Descendants(Road, s)
      BY DescendantsSelf
    <3> HIDE DEF id, st, x, y, s
    <3> QED
      BY <2>1, <3>1, <3>2 DEF Apart
  <2>4. Starts[a.id] = Starts[b.id]
    <3>1. /\ TokenAt(Cont, x) = <<a.id, s>>
          /\ TokenAt(Cont, y) = <<b.id, <<"got", h, b.guid, EmptyNa, EmptyNa, EmptyNa>>>>
      BY <1>1, GotToken
    <3>2. a.id \in 1..Len(published) /\ b.id \in 1..Len(published)
      BY <1>1, <2>1, <3>1, TokenLawful
    <3> HIDE DEF a, b
    <3> QED
      BY <3>2 DEF Starts, a, b
  <2>5. ASSUME b.id < a.id PROVE FALSE
    <3>1. Ordered(id, st, Road, Starts, Before(DOMAIN Cont, Prior))
      BY <1>1 DEF IInv, TokensOK
    <3>2. <<y, x>> \in Before(DOMAIN Cont, Prior)
      <4> HIDE DEF id, st, x, y, s, a, b
      <4> QED
        BY <2>1, <2>4, <2>5, <3>1 DEF Ordered
    <3>3. j < i \/ <<c, c>> \in Prior
      BY <3>2 DEF Before
    <3>4. <<c, c>> \notin Prior
      BY DEF Prior
    <3> QED
      BY <2>1, <3>3, <3>4
  <2> QED
    BY <2>2, <2>3, <2>5
<1> QED
  BY <1>1, TokensInOrder, PTL

-----------------------------------------------------------------------------
(* The network implements PubSub.                                          *)

LEMMA GraphSame ==
  ASSUME UNCHANGED tables
  PROVE  Graph' = Graph /\ SubscriberHosts' = SubscriberHosts
BY DEF tables, Graph, SubscriberHosts, SubscriberNas, Recipients, Frames, Resolved, Guids

LEMMA SameDescendants == \A m, g : P!Descendants(m, g) = Descendants(m, g)
BY DEF P!Descendants, P!ChildrenIn, Descendants, ChildrenIn

(* No host is given the same twice.                                        *)
LEMMA DeliveredOnce ==
  IInv => \A h \in Hosts : \A i, j \in DOMAIN received[h] :
            received[h][i] = received[h][j] => i = j
<1> SUFFICES ASSUME IInv, NEW h \in Hosts, NEW i \in DOMAIN received[h], NEW j \in DOMAIN received[h],
                    received[h][i] = received[h][j], i # j
             PROVE  FALSE
  OBVIOUS
<1> DEFINE a == received[h][i]
           s == <<"got", h, a.guid, EmptyNa, EmptyNa, EmptyNa>>
           x == <<<<"got", h, Header>>, i>>
           y == <<<<"got", h, Header>>, j>>
           id == IdsOf(Cont)
           st == NodesOf(Cont)
<1>1. x \in DOMAIN id /\ id[x] = a.id /\ st[x] = s
  BY GotToken
<1>2. y \in DOMAIN id /\ id[y] = a.id /\ st[y] = s
  BY GotToken
<1>3. x # y
  OBVIOUS
<1>4. Apart(id, st, Road)
  BY DEF IInv, TokensOK
<1>5. s \in Descendants(Road, s)
  BY DescendantsSelf
<1> HIDE DEF id, st, x, y, s
<1> QED
  BY <1>1, <1>2, <1>3, <1>4, <1>5 DEF Apart

(* What a frame brings to a host is called for: a subscription of the host *)
(* to the GUID, at or below that of the publication.                       *)
LEMMA SentCalled ==
  ASSUME IInv, NEW r \in Routers, Busy(r, "arp"), NEW h \in Hosts,
         h \in Recipients(r, First(r, "arp").nextHop)
  PROVE  [id |-> First(r, "arp").id, guid |-> First(r, "arp").guid] \in P!Called(h)
<1> DEFINE p == First(r, "arp")
           input == published[p.id]
<1>1. /\ p.id \in 1..Len(published) /\ input \in net.inputs
      /\ Lawful(input, "arp", r, p.guid, p.srcNa, p.dstNa, p.nextHop)
  BY FirstLawful DEF Queues
<1>2. Static /\ DOMAIN published = 1..Len(published)
  BY DEF IInv, TypeOK
<1>3. h \notin Routers
  BY NodesAssumption
<1> HIDE DEF p
<1>4. p.srcNa # EmptyNa
  BY <1>1, <1>2, <1>3, ArpUpLawful DEF p
<1>5. /\ p.guid \in Guids /\ p.nextHop \in SubscriberNas(r, p.guid)
      /\ p.guid \in Descendants(Graph, input.guid)
  <2>1. h \in Recipients(r, p.nextHop)
    BY DEF p
  <2>2. p.guid \in Guids /\ p.nextHop \in SubscriberNas(r, p.guid)
    BY <1>1, <1>2, <1>4, <2>1, ArpDownLawful
  <2> QED
    BY <1>1, <2>2 DEF Lawful
<1>6. h \in P!Subscribers(p.guid)
  <2>1. p.guid \in DOMAIN SubscriberHosts /\ h \in SubscriberHosts[p.guid]
    BY <1>5 DEF SubscriberHosts, p
  <2> QED
    BY <2>1 DEF P!Subscribers
<1>7. p.guid \in {d \in P!Descendants(Graph, input.guid) : h \in P!Subscribers(d)}
  BY <1>5, <1>6, SameDescendants
<1>8. [id |-> p.id, guid |-> p.guid] \in P!Called(h)
  BY <1>1, <1>2, <1>7 DEF P!Called
<1> QED
  BY <1>8 DEF p

LEMMA SendDelivers ==
  ASSUME IInv, NEW r \in Routers, Send(r),
         \A h \in Hosts : \A i, j \in DOMAIN received'[h] : received'[h][i] = received'[h][j] => i = j
  PROVE  \E hosts \in SUBSET Hosts : P!Deliver(hosts)
<1> DEFINE p == First(r, "arp")
           count(h) == Cardinality(Frames(r, p.nextHop, h))
           d == [id |-> p.id, guid |-> p.guid]
           hosts == {h \in Hosts : count(h) = 1}
           given == [h \in hosts |-> d]
<1>1. "arp" \in Queues /\ Busy(r, "arp") /\ UNCHANGED tables /\ UNCHANGED published
  BY DEF Send, Queues, tables
<1>2. received' = [h \in Hosts |-> received[h] \o [i \in 1..count(h) |-> d]]
  BY DEF Send
<1>3. p \in Packets /\ d \in Deliveries
  BY <1>1, FirstKnown DEF Packets, Deliveries
<1>4. ASSUME NEW h \in Hosts PROVE count(h) \in {0, 1} /\ (count(h) = 1 => h \in Recipients(r, p.nextHop))
  <2>1. /\ published[p.id] \in net.inputs
        /\ Lawful(published[p.id], "arp", r, p.guid, p.srcNa, p.dstNa, p.nextHop)
    BY <1>1, FirstLawful
  <2> HIDE DEF p
  <2> QED
    BY <2>1, FramesOne DEF IInv
<1> HIDE DEF count, d
<1>5. \A x : [i \in 1..0 |-> x] = <<>> /\ [i \in 1..1 |-> x] = <<x>>
  OBVIOUS
<1>6. ASSUME NEW h \in Hosts
      PROVE  /\ received[h] \in Seq(Deliveries)
             /\ h \in hosts => received'[h] = Append(received[h], d)
             /\ h \notin hosts => received'[h] = received[h]
  <2>1. received[h] \in Seq(Deliveries)
    BY DEF IInv, TypeOK, Deliveries
  <2>2. received'[h] = received[h] \o [i \in 1..count(h) |-> d]
    BY <1>2
  <2>3. CASE h \in hosts
    <3>1. received'[h] = received[h] \o <<d>>
      BY <1>5, <2>2, <2>3
    <3> QED
      BY <1>3, <2>1, <2>3, <3>1, AppendIsConcat
  <2>4. CASE h \notin hosts
    <3>1. count(h) = 0
      BY <1>4, <2>4
    <3>2. received'[h] = received[h] \o <<>>
      BY <1>5, <2>2, <3>1
    <3> QED
      BY <2>1, <2>4, <3>2, ConcatEmptySeq
  <2> QED
    BY <2>1, <2>3, <2>4
<1>7. ASSUME NEW h \in hosts PROVE d \in P!Owed(h)
  <2>1. d \in P!Called(h)
    <3>1. h \in Recipients(r, p.nextHop)
      BY <1>4
    <3> QED
      BY <1>1, <3>1, SentCalled DEF d
  <2>2. ASSUME NEW i \in DOMAIN received[h], received[h][i] = d PROVE FALSE
    <3> DEFINE n == Len(received[h]) + 1
    <3>1. received[h] \in Seq(Deliveries) /\ received'[h] = Append(received[h], d)
      BY <1>6
    <3>2. /\ Len(received[h]) \in Nat /\ DOMAIN received[h] = 1..Len(received[h])
          /\ DOMAIN received'[h] = 1..n
      BY <1>3, <3>1, AppendProperties, LenProperties
    <3>3. received'[h][n] = d /\ received'[h][i] = d
      BY <1>3, <2>2, <3>1, <3>2, AppendProperties
    <3>4. i \in DOMAIN received'[h] /\ n \in DOMAIN received'[h] /\ i # n
      BY <3>2
    <3> QED
      BY <3>3, <3>4
  <2> QED
    BY <2>1, <2>2 DEF P!Owed
<1>8. received' = [h \in Hosts |-> IF h \in hosts THEN Append(received[h], given[h]) ELSE received[h]]
  <2>1. \A h \in hosts : given[h] = d
    OBVIOUS
  <2>2. \A h \in Hosts : received'[h] = IF h \in hosts THEN Append(received[h], given[h]) ELSE received[h]
    BY <1>6, <2>1
  <2>3. received' = [h \in Hosts |-> received'[h]]
    BY <1>2
  <2> QED
    BY <2>2, <2>3
<1>9. given \in [hosts -> UNION {P!Owed(h) : h \in hosts}] /\ \A h \in hosts : given[h] \in P!Owed(h)
  BY <1>7
<1>10. UNCHANGED <<Graph, SubscriberHosts, published>>
  BY <1>1, GraphSame
<1> HIDE DEF given
<1>11. P!Deliver(hosts)
  BY <1>8, <1>9, <1>10 DEF P!Deliver
<1> QED
  BY <1>11

(* A host gets a publication once for each GUID it subscribes to at or     *)
(* below that of the publication, and nothing else.                        *)
THEOREM NetworkImplementsPubSub == Spec => ImplementsPubSub
<1>1. Init => P!Init
  BY DEF Init, P!Init
<1>2. ASSUME IInv, IInv', [Next]_vars PROVE [P!Next]_(P!vars)
  <2>1. CASE \E input \in net.inputs : Publish(input)
    <3>1. PICK input \in net.inputs : Publish(input)
      BY <2>1
    <3>2. UNCHANGED tables /\ published' = Append(published, input) /\ UNCHANGED received
      BY <3>1 DEF Publish, tables
    <3>3. input \in UNION {n.inputs : n \in Networks}
      BY <1>2 DEF IInv, Static
    <3>4. P!Publish(input)
      BY <3>2, GraphSame DEF P!Publish
    <3> QED
      BY <3>3, <3>4 DEF P!Next
  <2>2. CASE \E r \in Routers : Send(r)
    <3>1. PICK r \in Routers : Send(r)
      BY <2>2
    <3>2. IInv' => (\A h \in Hosts : \A i, j \in DOMAIN received[h] :
                      received[h][i] = received[h][j] => i = j)'
      BY DeliveredOnce, PTL
    <3>3. \A h \in Hosts : \A i, j \in DOMAIN received'[h] :
            received'[h][i] = received'[h][j] => i = j
      BY <1>2, <3>2
    <3>4. \E hosts \in SUBSET Hosts : P!Deliver(hosts)
      BY <1>2, <3>1, <3>3, SendDelivers
    <3> QED
      BY <3>4 DEF P!Next
  <2>3. CASE UNCHANGED tables /\ UNCHANGED published /\ UNCHANGED received
    BY <2>3, GraphSame DEF P!vars
  <2>4. \/ \E input \in net.inputs : Publish(input)
        \/ \E r \in Routers : Send(r)
        \/ UNCHANGED tables /\ UNCHANGED published /\ UNCHANGED received
    BY <1>2 DEF Next, Work, Classify, Resolve, Hold, Copy, Answer, vars, tables
  <2> QED
    BY <2>1, <2>2, <2>3, <2>4
<1> QED
  BY <1>1, <1>2, TokensInOrder, PTL DEF Spec, ImplementsPubSub, P!Spec
=============================================================================
