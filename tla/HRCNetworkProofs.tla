--------------------------- MODULE HRCNetworkProofs --------------------------
(***************************************************************************)
(* Theorems about HRCNetwork: the types; every delivery is called for and  *)
(* made once; what is sent twice arrives in order.                         *)
(*                                                                         *)
(* A packet is a token <<id, station>>.  A station says where it is and    *)
(* what decides its further way: <<place, node, type, name, rp, x>>, where *)
(* x is the sender of a packet that came in and the next hop of one that   *)
(* goes out.  The road leads from each station to those of the packets     *)
(* that a task makes of it.  In a consistent network the stations below    *)
(* the start of what a host sent form a tree, and the tokens move down it. *)
(***************************************************************************)
EXTENDS HRCNetwork, NetworkLemmas

Stations ==
  {"in", "arp", "got", "make"} \X Nodes
    \X {"interest", "direct", "subscription", "publication"}
    \X (Names \cup {NoName}) \X (RPs \cup {NoName}) \X (Nodes \cup NextHops)

(* The stations that a packet of node x with next hop na comes to.         *)
Sent(x, type, name, rp, na) ==
  {<<"in", n, type, name, rp, x>> : n \in {y \in Routers : Leading(x, na, y) # {}}}
    \cup {<<"got", h, "publication", NoName, NoName, h>> :
            h \in {y \in Hosts : type = "publication" /\ Leading(x, na, y) # {}}}

(* The road from a station, by its place.                                  *)
FromMake(h, kind, name) ==
  IF kind = "direct"
    THEN UNION {Sent(h, "publication", name, NoName, na) : na \in Lookup(subTable[h], name) \ {EmptyNa}}
    ELSE UNION {UNION {Sent(h, kind, name, IF kind = "interest" THEN rp ELSE NoName, na) :
                         na \in NextHop(h, rp)} : rp \in RPOf(h, name)}
Spreading(r, name, prevHop) ==
  {<<"arp", r, "publication", name, NoName, na>> : na \in Lookup(subTable[r], name) \ {prevHop}}
Onward(r, name, rp) == {<<"arp", r, "interest", name, rp, na>> : na \in NextHop(r, rp)}
FromIn(r, type, name, rp, x) ==
  CASE type = "publication" -> UNION {Spreading(r, name, na) : na \in KnownAs(r, x)}
    [] type = "interest" ->
         IF KnownAs(r, x) = {} THEN {}
         ELSE IF ToLocal(r, rp) /\ r \in net.rps THEN Spreading(r, name, EmptyNa)
         ELSE Onward(r, name, rp)
    [] OTHER -> {}

Step(q, n, type, name, rp, x) ==
  CASE q = "make" -> FromMake(n, type, name)
    [] q = "in" -> FromIn(n, type, name, rp, x)
    [] q = "arp" -> Sent(n, type, name, rp, x)
    [] q = "got" -> {}

Road == [s \in Stations |-> Step(s[1], s[2], s[3], s[4], s[5], s[6])]

Start(input) == <<"make", input.from, input.kind, input.name, NoName, input.from>>

(* What stays as the files made it.  No two NAs have the same address.     *)
Static ==
  /\ net \in Networks /\ Consistent
  /\ \A x \in Nodes : \A name : IsFiniteSet(Lookup(subTable[x], name))
  /\ \A x \in Nodes : \A address :
       \A a \in SenderNas(neighbours[x], address), b \in SenderNas(neighbours[x], address) : a = b

-----------------------------------------------------------------------------
(* A network.                                                              *)

LEMMA NetworkKnown ==
  ASSUME Static
  PROVE  /\ net.rps \subseteq Routers
         /\ \A input \in net.inputs :
              /\ input.from \in Hosts
              /\ input.kind \in {"interest", "direct", "subscription"}
         /\ net.capacity \in Nat \ {0}
         /\ \A x \in Nodes : \A y \in LinkedIn(net, x) : y \in Nodes /\ x \in LinkedIn(net, y)
         /\ \A h \in Hosts : LinkedIn(net, h) \subseteq Routers
BY NetworksAssumption DEF Static

(* A frame leads to a neighbour.                                           *)
LEMMA LeadsOn ==
  ASSUME Static, NEW x \in Nodes, NEW na, NEW n, Leading(x, na, n) # {}
  PROVE  n \in LinkedIn(net, x) /\ x \in LinkedIn(net, n) /\ n \in Nodes /\ (x \in Hosts => n \in Routers)
<1>1. n \in LinkedIn(net, x)
  BY DEF Leading, LinkedIn
<1> QED
  BY <1>1, NetworkKnown

LEMMA LinksAre ==
  ASSUME NEW x, NEW nas, NEW n
  PROVE  /\ Links(x, nas, n) # {} <=> \E na \in nas : Leading(x, na, n) # {}
         /\ \A na \in nas : \A e \in Leading(x, na, n) : <<na, e>> \in Links(x, nas, n)
<1>1. \A na \in nas : \A e \in Leading(x, na, n) : <<na, e>> \in Links(x, nas, n)
  BY DEF Links
<1>2. ASSUME NEW a \in Links(x, nas, n) PROVE \E na \in nas : Leading(x, na, n) # {}
  <2>1. PICK na \in nas : a \in {na} \X Leading(x, na, n)
    BY DEF Links
  <2> QED
    BY <2>1
<1> QED
  BY <1>1, <1>2

-----------------------------------------------------------------------------
(* The ways of the interests.                                              *)

LEMMA WaysLead ==
  ASSUME Static, NEW input \in net.inputs, input.kind # "direct",
         NEW rp \in RPOf(input.from, input.name)
  PROVE  /\ Chain(Ways(rp), input.from)
         /\ \E d \in Descendants(Ways(rp), input.from) : ChildrenIn(Ways(rp), d) = {}
         /\ \A x \in Descendants(Ways(rp), input.from) : \A n \in Nodes :
              \A a \in Links(x, NextHop(x, rp), n), b \in Links(x, NextHop(x, rp), n) : a = b
<1>1. InterestsLead(input.from, rp)
  BY DEF Static, Consistent
<1> QED
  BY <1>1 DEF InterestsLead, Chain, ChildrenIn

(* The nodes on the way of an interest.                                    *)
LEMMA WaysKnown ==
  ASSUME Static, NEW input \in net.inputs, NEW rp
  PROVE  /\ Descendants(Ways(rp), input.from) \subseteq {input.from} \cup Routers
         /\ Descendants(Ways(rp), input.from) \subseteq Nodes
<1>1. \A x : ChildrenIn(Ways(rp), x) \subseteq Routers
  BY DEF ChildrenIn, Ways
<1> DEFINE T == {input.from} \cup Routers
<1>2. input.from \in T /\ \A x \in T : ChildrenIn(Ways(rp), x) \subseteq T
  BY <1>1
<1> HIDE DEF T
<1>3. Descendants(Ways(rp), input.from) \subseteq T
  BY <1>2, DescendantsLeast
<1>4. T \subseteq Nodes
  BY NetworkKnown DEF T, Nodes
<1> QED
  BY <1>3, <1>4 DEF T

(* A router is entered from one node on the way of an interest.            *)
LEMMA WaysParent ==
  ASSUME Static, NEW input \in net.inputs, input.kind # "direct",
         NEW rp \in RPOf(input.from, input.name),
         NEW x \in Descendants(Ways(rp), input.from), NEW y \in Descendants(Ways(rp), input.from),
         NEW n \in ChildrenIn(Ways(rp), x), n \in ChildrenIn(Ways(rp), y)
  PROVE  x = y
<1>1. PICK d \in Descendants(Ways(rp), input.from) : ChildrenIn(Ways(rp), d) = {}
  BY WaysLead
<1> QED
  BY <1>1, WaysLead, ChainParent

LEMMA RPOne ==
  ASSUME NEW table, NEW name, NEW a \in LongestPrefixMatch(table, name),
         NEW b \in LongestPrefixMatch(table, name)
  PROVE  a = b
BY DEF LongestPrefixMatch

(* Copies spread from one node.                                            *)
LEMMA OriginOne ==
  ASSUME Static, NEW input \in net.inputs, NEW r \in Origins(input), NEW s \in Origins(input)
  PROVE  r = s
<1>1. CASE input.kind = "direct"
  BY <1>1 DEF Origins
<1>2. CASE input.kind # "direct"
  <2>1. PICK rp \in RPOf(input.from, input.name) :
          ToLocal(r, rp) /\ r \in Descendants(Ways(rp), input.from)
    BY <1>2 DEF Origins
  <2>2. PICK rp2 \in RPOf(input.from, input.name) :
          ToLocal(s, rp2) /\ s \in Descendants(Ways(rp2), input.from)
    BY <1>2 DEF Origins
  <2>3. rp2 = rp
    BY RPOne DEF RPOf
  <2>4. ASSUME NEW x, ToLocal(x, rp) PROVE ChildrenIn(Ways(rp), x) = {}
    <3>1. NextHop(x, rp) = {}
      BY <2>4, RPOne DEF ToLocal, NextHop
    <3> QED
      BY <3>1, LinksAre DEF ChildrenIn, Ways
  <2>5. r \in Descendants(Ways(rp), s)
    BY <1>2, <2>1, <2>2, <2>3, <2>4, WaysLead, ChainLeads
  <2>6. ChildrenIn(Ways(rp), s) = {}
    BY <2>2, <2>3, <2>4
  <2> QED
    BY <2>5, <2>6, DescendantsStep
<1> QED
  BY <1>1, <1>2

-----------------------------------------------------------------------------
(* The copies of a publication.  A link between x and n that the graph m   *)
(* does not reach both ends of without it is walked from x to n if x is    *)
(* the end that is reached.                                                *)

LEMMA WithoutChildren ==
  ASSUME NEW m, NEW x, NEW n, NEW g
  PROVE  ChildrenIn(WithoutLink(m, x, n), g) = {c \in ChildrenIn(m, g) : {g, c} # {x, n}}
BY DEF ChildrenIn, WithoutLink

(* What is reached without the links of n is reached without one of them.  *)
LEMMA WithoutOne ==
  ASSUME NEW m, NEW root, NEW x, NEW n, NEW y,
         n \notin Descendants(WithoutLink(m, x, n), root)
  PROVE  Descendants(WithoutLink(m, x, n), root) \subseteq Descendants(WithoutLink(m, n, y), root)
<1> DEFINE D == Descendants(WithoutLink(m, x, n), root)
           E == Descendants(WithoutLink(m, n, y), root)
           T == D \cap E
<1>1. root \in T
  BY DescendantsSelf
<1>2. ASSUME NEW h \in T, NEW c \in ChildrenIn(WithoutLink(m, x, n), h) PROVE c \in T
  <2>1. c \in D
    BY DescendantsClosed
  <2>2. h # n /\ c # n
    BY <2>1
  <2>3. c \in ChildrenIn(m, h)
    BY <1>2, WithoutChildren
  <2>4. c \in ChildrenIn(WithoutLink(m, n, y), h)
    BY <2>2, <2>3, WithoutChildren
  <2> QED
    BY <2>1, <2>4, DescendantsClosed
<1> HIDE DEF T
<1>3. D \subseteq T
  BY <1>1, <1>2, DescendantsLeast
<1> QED
  BY <1>3 DEF T

(* A walk goes on.                                                         *)
LEMMA WalkOn ==
  ASSUME NEW m, NEW root, NEW x, NEW n \in ChildrenIn(m, x), NEW y, y # x,
         x \in Descendants(WithoutLink(m, x, n), root),
         n \notin Descendants(WithoutLink(m, x, n), root)
  PROVE  n \in Descendants(WithoutLink(m, n, y), root)
<1>1. x \in Descendants(WithoutLink(m, n, y), root)
  BY WithoutOne
<1>2. n \in ChildrenIn(WithoutLink(m, n, y), x)
  BY WithoutChildren
<1> QED
  BY <1>1, <1>2, DescendantsClosed

(* A node is entered over one link.                                        *)
LEMMA WalkOne ==
  ASSUME NEW m, NEW root, NEW n, NEW x, NEW y, n \in ChildrenIn(m, x), n \in ChildrenIn(m, y),
         x \in Descendants(WithoutLink(m, x, n), root), n \notin Descendants(WithoutLink(m, x, n), root),
         n \notin Descendants(WithoutLink(m, y, n), root)
  PROVE  x = y
<1> SUFFICES ASSUME x # y PROVE FALSE
  OBVIOUS
<1>1. n \in Descendants(WithoutLink(m, n, y), root)
  BY WalkOn
<1>2. WithoutLink(m, n, y) = WithoutLink(m, y, n)
  BY DEF WithoutLink
<1> QED
  BY <1>1, <1>2

Senders(name, root) == Reached(name, root) \cap DOMAIN Spread(name, root)
Copied(name, x, n) == Links(x, Lookup(subTable[x], name), n)

(* Node n gets a copy from x,                                              *)
Enters(name, root, x, n) ==
  /\ x \in Senders(name, root) /\ n \in Spread(name, root)[x]
  /\ x \in Descendants(WithoutLink(Spread(name, root), x, n), root)

(* or what x sends is thrown away.                                         *)
Comes(name, root, x, n) ==
  /\ x \in Senders(name, root) /\ Copied(name, x, n) # {}
  /\ Hears(n, x) => Enters(name, root, x, n)

LEMMA SpreadTree ==
  ASSUME Static, NEW input \in net.inputs, input.kind # "subscription", NEW root \in Origins(input),
         NEW x \in Senders(input.name, root)
  PROVE  /\ \A n \in Nodes : \A a \in Copied(input.name, x, n), b \in Copied(input.name, x, n) : a = b
         /\ \A n \in Spread(input.name, root)[x] :
              /\ ~({x, n} \subseteq Descendants(WithoutLink(Spread(input.name, root), x, n), root))
              /\ x \in ChildrenIn(Spread(input.name, root), n) =>
                   \A a \in Copied(input.name, n, x) : a[1] \in KnownAs(n, x)
<1>1. TreeGrows(input.name, root)
  BY DEF Static, Consistent
<1> QED
  BY <1>1 DEF TreeGrows, Senders, Copied

(* Who gets a copy is reached, and is not where they start,                *)
LEMMA EntersKnown ==
  ASSUME Static, NEW input \in net.inputs, input.kind # "subscription", NEW root \in Origins(input),
         NEW x, NEW n, Enters(input.name, root, x, n)
  PROVE  /\ n \in Nodes /\ n \in Reached(input.name, root) /\ n # root
         /\ n \in ChildrenIn(Spread(input.name, root), x)
         /\ n \notin Descendants(WithoutLink(Spread(input.name, root), x, n), root)
         /\ Copied(input.name, x, n) # {} /\ Hears(n, x)
<1> DEFINE m == Spread(input.name, root)
<1>1. x \in Senders(input.name, root) /\ x \in Reached(input.name, root) /\ x \in DOMAIN m
  BY DEF Enters, Senders
<1>2. n \in ChildrenIn(m, x)
  BY <1>1 DEF Enters, ChildrenIn
<1>3. n \in Nodes /\ Copied(input.name, x, n) # {} /\ Hears(n, x)
  BY <1>1 DEF Enters, Spread, Copied
<1>4. n \in Reached(input.name, root)
  BY <1>1, <1>2, DescendantsClosed DEF Reached
<1>5. n \notin Descendants(WithoutLink(m, x, n), root)
  BY <1>1, SpreadTree DEF Enters
<1> QED
  BY <1>2, <1>3, <1>4, <1>5, DescendantsSelf

(* gets it from one,                                                       *)
LEMMA EntersOne ==
  ASSUME Static, NEW input \in net.inputs, input.kind # "subscription", NEW root \in Origins(input),
         NEW x, NEW y, NEW n, Enters(input.name, root, x, n), Enters(input.name, root, y, n)
  PROVE  x = y
<1> DEFINE m == Spread(input.name, root)
<1>1. x \in Descendants(WithoutLink(m, x, n), root)
  BY DEF Enters
<1>2. /\ n \in ChildrenIn(m, x) /\ n \notin Descendants(WithoutLink(m, x, n), root)
      /\ n \in ChildrenIn(m, y) /\ n \notin Descendants(WithoutLink(m, y, n), root)
  BY EntersKnown
<1> HIDE DEF m
<1> QED
  BY <1>1, <1>2, WalkOne

(* and sends on what does not go back.                                     *)
LEMMA EntersOn ==
  ASSUME Static, NEW input \in net.inputs, input.kind # "subscription", NEW root \in Origins(input),
         NEW x, NEW n \in Routers, Enters(input.name, root, x, n),
         NEW na \in Lookup(subTable[n], input.name), na \notin KnownAs(n, x),
         NEW y, Leading(n, na, y) # {}
  PROVE  Comes(input.name, root, n, y)
<1> DEFINE m == Spread(input.name, root)
           name == input.name
<1>1. /\ n \in Nodes /\ n \in Reached(name, root) /\ n \in ChildrenIn(m, x)
      /\ n \notin Descendants(WithoutLink(m, x, n), root)
  BY EntersKnown
<1>2. n \in DOMAIN m
  BY DEF Spread
<1>3. n \in Senders(name, root)
  BY <1>1, <1>2 DEF Senders
<1>4. PICK e \in Leading(n, na, y) : TRUE
  OBVIOUS
<1>5. <<na, e>> \in Copied(name, n, y)
  BY LinksAre DEF Copied
<1>6. ASSUME Hears(y, n) PROVE Enters(name, root, n, y)
  <2>1. y \in Nodes
    BY <1>1, LeadsOn
  <2>2. y \in m[n]
    BY <1>2, <1>5, <1>6, <2>1 DEF Spread, Copied
  <2>3. y # x
    <3>1. SUFFICES ASSUME y = x PROVE FALSE
      OBVIOUS
    <3>2. x \in ChildrenIn(m, n)
      BY <1>2, <2>2, <3>1 DEF ChildrenIn
    <3>3. x \in Senders(name, root) /\ n \in m[x]
      BY DEF Enters
    <3>4. \A a \in Copied(name, n, x) : a[1] \in KnownAs(n, x)
      BY <3>2, <3>3, SpreadTree
    <3> QED
      BY <1>5, <3>1, <3>4
  <2>4. x \in Descendants(WithoutLink(m, x, n), root)
    BY DEF Enters
  <2> HIDE DEF m
  <2>5. n \in Descendants(WithoutLink(m, n, y), root)
    BY <1>1, <2>3, <2>4, WalkOn
  <2> QED
    BY <1>3, <2>2, <2>5 DEF Enters, m
<1> QED
  BY <1>3, <1>5, <1>6 DEF Comes

(* Where copies start, all of them go out.                                 *)
LEMMA RootOn ==
  ASSUME Static, NEW input \in net.inputs, input.kind # "subscription", NEW root \in Origins(input),
         NEW na \in Lookup(subTable[root], input.name), NEW y, Leading(root, na, y) # {}, root \in Nodes
  PROVE  Comes(input.name, root, root, y)
<1> DEFINE m == Spread(input.name, root)
           name == input.name
<1>1. root \in Senders(name, root)
  BY DescendantsSelf DEF Senders, Reached, Spread
<1>2. Copied(name, root, y) # {}
  BY LinksAre DEF Copied
<1>3. ASSUME Hears(y, root) PROVE Enters(name, root, root, y)
  <2>1. y \in Nodes
    BY LeadsOn
  <2>2. y \in m[root]
    BY <1>2, <1>3, <2>1 DEF Spread, Copied
  <2>3. root \in Descendants(WithoutLink(m, root, y), root)
    BY DescendantsSelf
  <2> QED
    BY <1>1, <2>2, <2>3 DEF Enters
<1> QED
  BY <1>1, <1>2, <1>3 DEF Comes

-----------------------------------------------------------------------------
(* The stations below the start of what a host sent.                       *)

(* An interest on its way to the RP.                                       *)
LawfulUp(input, q, n, type, name, rp, x) ==
  /\ input.kind = "interest" /\ type = "interest"
  /\ name = input.name /\ rp \in RPOf(input.from, input.name) /\ n \in Routers
  /\ \/ /\ q = "in" /\ x \in Descendants(Ways(rp), input.from)
        /\ Links(x, NextHop(x, rp), n) # {}
     \/ q = "arp" /\ n \in Descendants(Ways(rp), input.from) /\ x \in NextHop(n, rp)

(* A subscription, which ends at the first router.                         *)
LawfulSub(input, q, n, type, name, rp, x) ==
  /\ input.kind = "subscription" /\ type = "subscription"
  /\ q = "in" /\ name = input.name /\ rp = NoName /\ x = input.from /\ n \in Routers

(* A copy of a publication.                                                *)
Goes(input, root, n, na) ==
  /\ n \in Routers /\ na \in Lookup(subTable[n], input.name)
  /\ n = root \/ \E y : Enters(input.name, root, y, n) /\ na \notin KnownAs(n, y)
LawfulDown(input, q, n, type, name, rp, x) ==
  /\ input.kind # "subscription" /\ type = "publication" /\ rp = NoName
  /\ \E root \in Origins(input) :
       \/ q = "in" /\ name = input.name /\ n \in Routers /\ Comes(input.name, root, x, n)
       \/ q = "arp" /\ name = input.name /\ Goes(input, root, n, x)
       \/ q = "got" /\ name = NoName /\ n \in Hosts /\ x = n /\ \E y : Comes(input.name, root, y, n)

Lawful(input, s) ==
  \/ s = Start(input)
  \/ LawfulUp(input, s[1], s[2], s[3], s[4], s[5], s[6])
  \/ LawfulSub(input, s[1], s[2], s[3], s[4], s[5], s[6])
  \/ LawfulDown(input, s[1], s[2], s[3], s[4], s[5], s[6])
LawfulStations(input) == {s \in Stations : Lawful(input, s)}

LEMMA StationsAre ==
  ASSUME NEW s \in Stations
  PROVE  /\ s = <<s[1], s[2], s[3], s[4], s[5], s[6]>>
         /\ s[1] \in {"in", "arp", "got", "make"} /\ s[2] \in Nodes
BY DEF Stations

LEMMA ChildrenAre ==
  ASSUME NEW s \in Stations
  PROVE  ChildrenIn(Road, s) = Step(s[1], s[2], s[3], s[4], s[5], s[6])
BY DEF ChildrenIn, Road

(* Where copies start is a node, and one copy for a next hop goes out.     *)
LEMMA OriginKnown ==
  ASSUME Static, NEW input \in net.inputs, NEW root \in Origins(input)
  PROVE  /\ root \in Nodes
         /\ input.kind # "direct" => root \in Routers
         /\ input.kind = "direct" => root = input.from /\ root \notin Routers
BY NetworkKnown, NodesAssumption DEF Origins, Nodes

LEMMA GoesOn ==
  ASSUME Static, NEW input \in net.inputs, input.kind # "subscription", NEW root \in Origins(input),
         NEW n, NEW na, Goes(input, root, n, na), NEW y, Leading(n, na, y) # {}
  PROVE  Comes(input.name, root, n, y)
<1>1. CASE n = root
  BY <1>1, OriginKnown, RootOn DEF Goes
<1>2. CASE n # root
  BY <1>2, EntersOn DEF Goes
<1> QED
  BY <1>1, <1>2

LEMMA OnlyKnown ==
  ASSUME Static, NEW n \in Nodes, NEW x, NEW a \in KnownAs(n, x), NEW b, b # a
  PROVE  b \notin KnownAs(n, x)
BY DEF Static, KnownAs

LEMMA NextHopsAre ==
  ASSUME NEW x \in Nodes
  PROVE  /\ \A rp \in RPs : NextHop(x, rp) \subseteq NextHops
         /\ \A name \in Names : Lookup(subTable[x], name) \subseteq NextHops
<1>1. ASSUME NEW rp \in RPs PROVE NextHop(x, rp) \subseteq NextHops
  BY DEF NextHops
<1>2. ASSUME NEW name \in Names PROVE Lookup(subTable[x], name) \subseteq NextHops
  BY DEF NextHops
<1> QED
  BY <1>1, <1>2

LEMMA InputKnown ==
  ASSUME Static, NEW input \in net.inputs
  PROVE  /\ input.from \in Hosts /\ input.from \in Nodes /\ input.name \in Names
         /\ RPOf(input.from, input.name) \subseteq RPs
         /\ input.kind \in {"interest", "direct", "subscription"}
         /\ input.from \notin Routers
BY NetworkKnown, NodesAssumption DEF Nodes, Names, RPs

(* Stations that the packets of a lawful one can come to are lawful.       *)
LEMMA SentDown ==
  ASSUME Static, NEW input \in net.inputs, input.kind # "subscription", NEW root \in Origins(input),
         NEW n \in Nodes, NEW na, \A y : Leading(n, na, y) # {} => Comes(input.name, root, n, y),
         NEW c \in Sent(n, "publication", input.name, NoName, na)
  PROVE  c \in LawfulStations(input)
<1>1. CASE \E y \in Routers : c = <<"in", y, "publication", input.name, NoName, n>> /\ Leading(n, na, y) # {}
  <2>1. PICK y \in Routers : c = <<"in", y, "publication", input.name, NoName, n>> /\ Leading(n, na, y) # {}
    BY <1>1
  <2>2. Comes(input.name, root, n, y)
    BY <2>1
  <2>3. c \in Stations
    BY <2>1, InputKnown DEF Stations, Nodes
  <2>4. LawfulDown(input, "in", y, "publication", input.name, NoName, n)
    BY <2>2 DEF LawfulDown
  <2> QED
    BY <2>1, <2>3, <2>4 DEF LawfulStations, Lawful
<1>2. CASE \E h \in Hosts : c = <<"got", h, "publication", NoName, NoName, h>> /\ Leading(n, na, h) # {}
  <2>1. PICK h \in Hosts : c = <<"got", h, "publication", NoName, NoName, h>> /\ Leading(n, na, h) # {}
    BY <1>2
  <2>2. Comes(input.name, root, n, h)
    BY <2>1
  <2>3. c \in Stations
    BY <2>1 DEF Stations, Nodes
  <2>4. LawfulDown(input, "got", h, "publication", NoName, NoName, h)
    BY <2>2 DEF LawfulDown
  <2> QED
    BY <2>1, <2>3, <2>4 DEF LawfulStations, Lawful
<1> QED
  BY <1>1, <1>2 DEF Sent

LEMMA SentUp ==
  ASSUME Static, NEW input \in net.inputs, input.kind = "interest", NEW rp \in RPOf(input.from, input.name),
         NEW n \in Descendants(Ways(rp), input.from), NEW na \in NextHop(n, rp),
         NEW c \in Sent(n, "interest", input.name, rp, na)
  PROVE  c \in LawfulStations(input)
<1>1. PICK y \in Routers : c = <<"in", y, "interest", input.name, rp, n>> /\ Leading(n, na, y) # {}
  BY DEF Sent
<1>2. Links(n, NextHop(n, rp), y) # {}
  BY <1>1, LinksAre
<1>3. n \in Nodes
  BY WaysKnown
<1>4. c \in Stations
  BY <1>1, <1>3, InputKnown DEF Stations, Nodes
<1>5. LawfulUp(input, "in", y, "interest", input.name, rp, n)
  BY <1>2 DEF LawfulUp
<1> QED
  BY <1>1, <1>4, <1>5 DEF LawfulStations, Lawful

LEMMA SpreadingDown ==
  ASSUME Static, NEW input \in net.inputs, input.kind # "subscription", NEW root \in Origins(input),
         NEW n \in Routers, NEW na, Goes(input, root, n, na)
  PROVE  <<"arp", n, "publication", input.name, NoName, na>> \in LawfulStations(input)
<1>1. n \in Nodes /\ na \in NextHops
  BY InputKnown, NextHopsAre DEF Goes, Nodes
<1>2. <<"arp", n, "publication", input.name, NoName, na>> \in Stations
  BY <1>1, InputKnown DEF Stations
<1>3. LawfulDown(input, "arp", n, "publication", input.name, NoName, na)
  BY DEF LawfulDown
<1> QED
  BY <1>2, <1>3 DEF LawfulStations, Lawful

LEMMA RoadLawful ==
  ASSUME Static, NEW input \in net.inputs, NEW s \in LawfulStations(input), NEW c \in ChildrenIn(Road, s)
  PROVE  c \in LawfulStations(input)
<1> DEFINE h == input.from
           name == input.name
<1>1. s \in Stations /\ Lawful(input, s) /\ c \in Step(s[1], s[2], s[3], s[4], s[5], s[6])
  BY ChildrenAre DEF LawfulStations
<1>2. CASE s = Start(input)
  <2>1. c \in FromMake(h, input.kind, name)
    BY <1>1, <1>2 DEF Start, Step
  <2>2. CASE input.kind = "direct"
    <3>1. PICK na \in Lookup(subTable[h], name) \ {EmptyNa} : c \in Sent(h, "publication", name, NoName, na)
      BY <2>1, <2>2 DEF FromMake
    <3>2. h \in Origins(input)
      BY <2>2 DEF Origins
    <3>3. \A y : Leading(h, na, y) # {} => Comes(name, h, h, y)
      BY <2>2, <3>1, <3>2, InputKnown, RootOn
    <3> QED
      BY <2>2, <3>1, <3>2, <3>3, InputKnown, SentDown
  <2>3. CASE input.kind = "interest"
    <3>1. PICK rp \in RPOf(h, name) : \E na \in NextHop(h, rp) : c \in Sent(h, "interest", name, rp, na)
      BY <2>1, <2>3 DEF FromMake
    <3> QED
      BY <2>3, <3>1, DescendantsSelf, SentUp
  <2>4. CASE input.kind = "subscription"
    <3>1. PICK rp \in RPOf(h, name) : \E na \in NextHop(h, rp) : c \in Sent(h, "subscription", name, NoName, na)
      BY <2>1, <2>4 DEF FromMake
    <3>2. PICK y \in Routers : c = <<"in", y, "subscription", name, NoName, h>>
      BY <3>1 DEF Sent
    <3>3. c \in Stations
      BY <3>2, InputKnown DEF Stations, Nodes
    <3>4. LawfulSub(input, "in", y, "subscription", name, NoName, h)
      BY <2>4 DEF LawfulSub
    <3> QED
      BY <3>2, <3>3, <3>4 DEF LawfulStations, Lawful
  <2> QED
    BY <2>2, <2>3, <2>4, InputKnown
<1>3. CASE LawfulUp(input, s[1], s[2], s[3], s[4], s[5], s[6])
  <2> DEFINE n == s[2]
             rp == s[5]
             x == s[6]
  <2>1. /\ input.kind = "interest" /\ s[3] = "interest" /\ s[4] = name
        /\ rp \in RPOf(h, name) /\ n \in Routers
    BY <1>3 DEF LawfulUp
  <2>2. CASE s[1] = "in"
    <3>1. x \in Descendants(Ways(rp), h) /\ Links(x, NextHop(x, rp), n) # {}
      BY <1>3, <2>2 DEF LawfulUp
    <3>2. c \in FromIn(n, "interest", name, rp, x)
      BY <1>1, <2>1, <2>2 DEF Step
    <3>3. KnownAs(n, x) # {} /\ Hears(n, x)
      BY <3>2 DEF FromIn, Hears
    <3>4. n \in Descendants(Ways(rp), h)
      <4>1. n \in ChildrenIn(Ways(rp), x)
        BY <2>1, <3>1, <3>3, WaysKnown DEF ChildrenIn, Ways
      <4> QED
        BY <3>1, <4>1, DescendantsClosed
    <3>5. CASE ToLocal(n, rp) /\ n \in net.rps
      <4>1. PICK na \in Lookup(subTable[n], name) \ {EmptyNa} : c = <<"arp", n, "publication", name, NoName, na>>
        BY <3>2, <3>3, <3>5 DEF FromIn, Spreading
      <4>2. n \in Origins(input)
        BY <2>1, <3>4, <3>5 DEF Origins
      <4>3. Goes(input, n, n, na)
        BY <2>1, <4>1 DEF Goes
      <4> QED
        BY <2>1, <4>1, <4>2, <4>3, SpreadingDown
    <3>6. CASE ~(ToLocal(n, rp) /\ n \in net.rps)
      <4>1. PICK na \in NextHop(n, rp) : c = <<"arp", n, "interest", name, rp, na>>
        BY <3>2, <3>3, <3>6 DEF FromIn, Onward
      <4>2. n \in Nodes /\ na \in NextHops
        BY <2>1, <4>1, InputKnown, NextHopsAre DEF Nodes
      <4>3. c \in Stations
        BY <2>1, <4>1, <4>2, InputKnown DEF Stations
      <4>4. LawfulUp(input, "arp", n, "interest", name, rp, na)
        BY <2>1, <3>4, <4>1 DEF LawfulUp
      <4> QED
        BY <4>1, <4>3, <4>4 DEF LawfulStations, Lawful
    <3> QED
      BY <3>5, <3>6
  <2>3. CASE s[1] = "arp"
    <3>1. n \in Descendants(Ways(rp), h) /\ x \in NextHop(n, rp)
      BY <1>3, <2>3 DEF LawfulUp
    <3>2. c \in Sent(n, "interest", name, rp, x)
      BY <1>1, <2>1, <2>3 DEF Step
    <3> QED
      BY <2>1, <3>1, <3>2, SentUp
  <2> QED
    BY <1>3, <2>2, <2>3 DEF LawfulUp
<1>4. CASE LawfulSub(input, s[1], s[2], s[3], s[4], s[5], s[6])
  BY <1>1, <1>4 DEF LawfulSub, Step, FromIn
<1>5. CASE LawfulDown(input, s[1], s[2], s[3], s[4], s[5], s[6])
  <2> DEFINE n == s[2]
             x == s[6]
  <2>1. PICK root \in Origins(input) :
          \/ s[1] = "in" /\ s[4] = name /\ n \in Routers /\ Comes(name, root, x, n)
          \/ s[1] = "arp" /\ s[4] = name /\ Goes(input, root, n, x)
          \/ s[1] = "got"
    BY <1>5 DEF LawfulDown
  <2>2. input.kind # "subscription" /\ s[3] = "publication" /\ s[5] = NoName
    BY <1>5 DEF LawfulDown
  <2>3. CASE s[1] = "in" /\ s[4] = name /\ n \in Routers /\ Comes(name, root, x, n)
    <3>1. c \in FromIn(n, "publication", name, NoName, x)
      BY <1>1, <2>2, <2>3 DEF Step
    <3>2. PICK known \in KnownAs(n, x) : c \in Spreading(n, name, known)
      BY <3>1 DEF FromIn
    <3>6. PICK na \in Lookup(subTable[n], name) \ {known} : c = <<"arp", n, "publication", name, NoName, na>>
      BY <3>2 DEF Spreading
    <3>3. na \notin KnownAs(n, x)
      BY <1>1, <3>2, <3>6, OnlyKnown DEF Stations
    <3>4. Enters(name, root, x, n)
      BY <2>3, <3>2 DEF Comes, Hears
    <3>5. Goes(input, root, n, na)
      BY <2>3, <3>3, <3>4, <3>6 DEF Goes
    <3> QED
      BY <2>2, <2>3, <3>5, <3>6, SpreadingDown
  <2>4. CASE s[1] = "arp" /\ s[4] = name /\ Goes(input, root, n, x)
    <3>1. c \in Sent(n, "publication", name, NoName, x)
      BY <1>1, <2>2, <2>4 DEF Step
    <3>2. \A y : Leading(n, x, y) # {} => Comes(name, root, n, y)
      BY <2>2, <2>4, GoesOn
    <3>3. n \in Nodes
      BY <1>1 DEF Stations
    <3> QED
      BY <2>2, <3>1, <3>2, <3>3, SentDown
  <2>5. CASE s[1] = "got"
    BY <1>1, <2>5 DEF Step
  <2> QED
    BY <2>1, <2>3, <2>4, <2>5
<1> QED
  BY <1>1, <1>2, <1>3, <1>4, <1>5 DEF Lawful

LEMMA AllLawful ==
  ASSUME Static, NEW input \in net.inputs
  PROVE  /\ Start(input) \in Stations
         /\ Descendants(Road, Start(input)) \subseteq LawfulStations(input)
<1>1. Start(input) \in Stations
  BY InputKnown DEF Start, Stations
<1>2. Start(input) \in LawfulStations(input)
  BY <1>1 DEF LawfulStations, Lawful
<1>3. \A s \in LawfulStations(input) : ChildrenIn(Road, s) \subseteq LawfulStations(input)
  BY RoadLawful
<1> QED
  BY <1>1, <1>2, <1>3, DescendantsLeast

(* The lawful stations of the ARP queue,                                   *)
LEMMA ArpLawful ==
  ASSUME Static, NEW input \in net.inputs, NEW n, NEW type, NEW name, NEW rp, NEW na,
         <<"arp", n, type, name, rp, na>> \in LawfulStations(input)
  PROVE  /\ n \in Routers /\ name = input.name
         /\ \/ /\ input.kind = "interest" /\ type = "interest" /\ rp \in RPOf(input.from, input.name)
               /\ n \in Descendants(Ways(rp), input.from) /\ na \in NextHop(n, rp)
            \/ /\ input.kind # "subscription" /\ type = "publication" /\ rp = NoName
               /\ \E root \in Origins(input) : Goes(input, root, n, na)
<1>1. \/ LawfulUp(input, "arp", n, type, name, rp, na)
      \/ LawfulSub(input, "arp", n, type, name, rp, na)
      \/ LawfulDown(input, "arp", n, type, name, rp, na)
  BY DEF LawfulStations, Lawful, Start
<1>2. CASE LawfulUp(input, "arp", n, type, name, rp, na)
  BY <1>2 DEF LawfulUp
<1>3. CASE LawfulDown(input, "arp", n, type, name, rp, na)
  BY <1>3 DEF LawfulDown, Goes
<1> QED
  BY <1>1, <1>2, <1>3 DEF LawfulSub

(* and of the input queue.                                                 *)
LEMMA InLawful ==
  ASSUME Static, NEW input \in net.inputs, NEW n, NEW type, NEW name, NEW rp, NEW x,
         <<"in", n, type, name, rp, x>> \in LawfulStations(input)
  PROVE  /\ n \in Routers /\ name = input.name
         /\ \/ /\ input.kind = "interest" /\ type = "interest" /\ rp \in RPOf(input.from, input.name)
               /\ x \in Descendants(Ways(rp), input.from) /\ Links(x, NextHop(x, rp), n) # {}
            \/ input.kind = "subscription" /\ type = "subscription" /\ x = input.from /\ rp = NoName
            \/ /\ input.kind # "subscription" /\ type = "publication" /\ rp = NoName
               /\ \E root \in Origins(input) : Comes(input.name, root, x, n)
<1>1. \/ LawfulUp(input, "in", n, type, name, rp, x)
      \/ LawfulSub(input, "in", n, type, name, rp, x)
      \/ LawfulDown(input, "in", n, type, name, rp, x)
  BY DEF LawfulStations, Lawful, Start
<1>2. CASE LawfulUp(input, "in", n, type, name, rp, x)
  BY <1>2 DEF LawfulUp
<1>3. CASE LawfulDown(input, "in", n, type, name, rp, x)
  BY <1>3 DEF LawfulDown
<1>4. CASE LawfulSub(input, "in", n, type, name, rp, x)
  BY <1>4 DEF LawfulSub
<1> QED
  BY <1>1, <1>2, <1>3, <1>4

LEMMA PlacesAre ==
  ASSUME Static, NEW input \in net.inputs, NEW s \in LawfulStations(input), NEW c \in ChildrenIn(Road, s)
  PROVE  /\ s \in Stations
         /\ \/ s = Start(input) /\ \E type, name, rp, na : c \in Sent(input.from, type, name, rp, na)
            \/ s[1] = "arp" /\ c \in Sent(s[2], s[3], s[4], s[5], s[6])
            \/ s[1] = "in" /\ c \in FromIn(s[2], s[3], s[4], s[5], s[6])
<1>1. s \in Stations /\ Lawful(input, s) /\ c \in Step(s[1], s[2], s[3], s[4], s[5], s[6])
  BY ChildrenAre DEF LawfulStations
<1>2. s = Start(input) \/ s[1] # "make"
  BY <1>1 DEF Lawful, LawfulUp, LawfulDown, LawfulSub
<1>3. CASE s = Start(input)
  <2>1. c \in FromMake(input.from, input.kind, input.name)
    BY <1>1, <1>3 DEF Step, Start
  <2>2. \E type, name, rp, na : c \in Sent(input.from, type, name, rp, na)
    BY <2>1 DEF FromMake
  <2> QED
    BY <1>1, <1>3, <2>2
<1>4. CASE s[1] # "make"
  <2>1. s[1] \in {"in", "arp", "got"}
    BY <1>1, <1>4 DEF Stations
  <2> QED
    BY <1>1, <2>1 DEF Step
<1> QED
  BY <1>2, <1>3, <1>4

(* A station is sent over a link.                                          *)
LEMMA SentAre ==
  ASSUME NEW m, NEW t, NEW nm, NEW p, NEW na, NEW c \in Sent(m, t, nm, p, na)
  PROVE  /\ c[1] \in {"in", "got"} /\ Leading(m, na, c[2]) # {}
         /\ c[1] = "in" => c[3] = t /\ c[4] = nm /\ c[5] = p /\ c[6] = m
         /\ c[1] = "got" => t = "publication" /\ c[2] \in Hosts
BY DEF Sent

LEMMA FromInAre ==
  ASSUME NEW n, NEW t, NEW nm, NEW p, NEW x, NEW c \in FromIn(n, t, nm, p, x)
  PROVE  /\ c[1] = "arp" /\ c[2] = n /\ c[4] = nm /\ KnownAs(n, x) # {}
         /\ \/ t = "publication" /\ c[3] = "publication"
            \/ t = "interest" /\ c[3] = "interest" /\ c[5] = p
            \/ t = "interest" /\ c[3] = "publication" /\ ToLocal(n, p) /\ n \in net.rps
<1>1. CASE t = "publication"
  BY <1>1 DEF FromIn, Spreading
<1>2. CASE t = "interest"
  BY <1>2 DEF FromIn, Spreading, Onward
<1> QED
  BY <1>1, <1>2 DEF FromIn

(* A copy for one next hop goes over a link.                               *)
LEMMA CopiedOne ==
  ASSUME Static, NEW input \in net.inputs, input.kind # "subscription", NEW root \in Origins(input),
         NEW n, NEW a, NEW b, NEW y, Goes(input, root, n, a), Goes(input, root, n, b),
         Leading(n, a, y) # {}, Leading(n, b, y) # {}
  PROVE  a = b
<1>1. n \in Senders(input.name, root)
  BY GoesOn DEF Comes
<1>2. n \in Nodes /\ a \in Lookup(subTable[n], input.name) /\ b \in Lookup(subTable[n], input.name)
  BY DEF Goes, Nodes
<1>3. y \in Nodes
  BY <1>2, LeadsOn
<1>4. PICK e \in Leading(n, a, y) : TRUE
  OBVIOUS
<1>5. PICK f \in Leading(n, b, y) : TRUE
  OBVIOUS
<1>6. <<a, e>> \in Copied(input.name, n, y) /\ <<b, f>> \in Copied(input.name, n, y)
  BY <1>2, LinksAre DEF Copied
<1>7. <<a, e>> = <<b, f>>
  BY <1>1, <1>3, <1>6, SpreadTree
<1> QED
  BY <1>7

(* One station leads to each.                                              *)
LEMMA ArpOne ==
  ASSUME Static, NEW input \in net.inputs, NEW s \in LawfulStations(input), NEW s2 \in LawfulStations(input),
         s[1] = "arp", s2[1] = "arp", NEW c \in ChildrenIn(Road, s), c \in ChildrenIn(Road, s2)
  PROVE  s = s2
<1>1. /\ s \in Stations /\ c \in Sent(s[2], s[3], s[4], s[5], s[6])
      /\ s2 \in Stations /\ c \in Sent(s2[2], s2[3], s2[4], s2[5], s2[6])
  BY PlacesAre DEF Start
<1>2. /\ s = <<"arp", s[2], s[3], s[4], s[5], s[6]>>
      /\ s2 = <<"arp", s2[2], s2[3], s2[4], s2[5], s2[6]>>
  BY <1>1, StationsAre
<1>3. /\ Leading(s[2], s[6], c[2]) # {} /\ Leading(s2[2], s2[6], c[2]) # {}
      /\ c[1] \in {"in", "got"}
  BY <1>1, SentAre
<1>4. s[2] \in Routers /\ s[2] \in Nodes /\ s2[2] \in Routers /\ s[4] = input.name /\ s2[4] = input.name
  BY <1>2, ArpLawful DEF Nodes
<1>5. CASE s[3] = "publication" /\ s2[3] = "publication"
  <2>1. /\ input.kind # "subscription" /\ s[5] = NoName /\ s2[5] = NoName
        /\ \E root \in Origins(input) : Goes(input, root, s[2], s[6])
        /\ \E root \in Origins(input) : Goes(input, root, s2[2], s2[6])
    BY <1>2, <1>5, ArpLawful
  <2>2. PICK root \in Origins(input) : Goes(input, root, s[2], s[6]) /\ Goes(input, root, s2[2], s2[6])
    BY <2>1, OriginOne
  <2>3. s[2] = s2[2]
    <3>1. CASE c[1] = "in"
      BY <1>1, <3>1, SentAre
    <3>2. CASE c[1] = "got"
      <4>1. Hears(c[2], s[2]) /\ Hears(c[2], s2[2])
        BY <1>1, <3>2, SentAre DEF Hears
      <4>2. Comes(input.name, root, s[2], c[2]) /\ Comes(input.name, root, s2[2], c[2])
        BY <1>3, <2>1, <2>2, GoesOn
      <4> QED
        BY <2>1, <4>1, <4>2, EntersOne DEF Comes
    <3> QED
      BY <1>3, <3>1, <3>2
  <2>4. s[6] = s2[6]
    BY <1>3, <2>1, <2>2, <2>3, CopiedOne
  <2> QED
    BY <1>2, <1>4, <1>5, <2>1, <2>3, <2>4
<1>6. CASE s[3] = "interest" /\ s2[3] = "interest"
  <2>1. c[1] = "in"
    BY <1>1, <1>3, <1>6, SentAre
  <2>2. s[2] = s2[2] /\ s[5] = s2[5]
    BY <1>1, <2>1, SentAre
  <2>3. s[6] \in NextHop(s[2], s[5]) /\ s2[6] \in NextHop(s[2], s[5])
    BY <1>2, <1>6, <2>2, ArpLawful
  <2>4. s[6] = s2[6]
    BY <2>3, RPOne DEF NextHop
  <2> QED
    BY <1>2, <1>4, <1>6, <2>2, <2>4
<1>7. (s[3] = "publication" /\ s2[3] = "publication") \/ (s[3] = "interest" /\ s2[3] = "interest")
  <2>1. s[3] \in {"interest", "publication"} /\ s2[3] \in {"interest", "publication"}
    BY <1>2, ArpLawful
  <2>2. CASE c[1] = "in"
    BY <1>1, <2>1, <2>2, SentAre
  <2>3. CASE c[1] = "got"
    BY <1>1, <2>3, SentAre
  <2> QED
    BY <1>3, <2>2, <2>3
<1> QED
  BY <1>5, <1>6, <1>7

LEMMA InOne ==
  ASSUME Static, NEW input \in net.inputs, NEW s \in LawfulStations(input), NEW s2 \in LawfulStations(input),
         s[1] = "in", s2[1] = "in", NEW c \in ChildrenIn(Road, s), c \in ChildrenIn(Road, s2)
  PROVE  s = s2
<1> DEFINE h == input.from
           n == c[2]
<1>1. /\ s \in Stations /\ c \in FromIn(s[2], s[3], s[4], s[5], s[6])
      /\ s2 \in Stations /\ c \in FromIn(s2[2], s2[3], s2[4], s2[5], s2[6])
  BY PlacesAre, SentAre, FromInAre DEF Start
<1>2. /\ s = <<"in", s[2], s[3], s[4], s[5], s[6]>>
      /\ s2 = <<"in", s2[2], s2[3], s2[4], s2[5], s2[6]>>
  BY <1>1, StationsAre
<1>3. /\ s[2] = n /\ s2[2] = n /\ KnownAs(n, s[6]) # {} /\ KnownAs(n, s2[6]) # {}
      /\ Hears(n, s[6]) /\ Hears(n, s2[6])
  BY <1>1, FromInAre DEF Hears
<1>4. n \in Routers /\ n \in Nodes /\ s[4] = input.name /\ s2[4] = input.name
  BY <1>2, <1>3, InLawful DEF Nodes
<1>5. ASSUME NEW x, NEW rp, <<"in", n, "interest", input.name, rp, x>> \in LawfulStations(input), Hears(n, x)
      PROVE  /\ input.kind = "interest" /\ rp \in RPOf(h, input.name) /\ x \in Descendants(Ways(rp), h)
             /\ n \in ChildrenIn(Ways(rp), x) /\ n \in Descendants(Ways(rp), h)
  <2>1. /\ input.kind = "interest" /\ rp \in RPOf(h, input.name) /\ x \in Descendants(Ways(rp), h)
        /\ Links(x, NextHop(x, rp), n) # {}
    BY <1>5, InLawful
  <2>2. x \in Nodes
    BY <2>1, WaysKnown
  <2>3. n \in ChildrenIn(Ways(rp), x)
    BY <1>4, <1>5, <2>1, <2>2 DEF ChildrenIn, Ways
  <2> QED
    BY <2>1, <2>3, DescendantsClosed
<1>6. ASSUME NEW x, NEW rp, <<"in", n, "publication", input.name, rp, x>> \in LawfulStations(input), Hears(n, x)
      PROVE  /\ rp = NoName /\ input.kind # "subscription"
             /\ \E root \in Origins(input) : Enters(input.name, root, x, n)
  BY <1>6, InLawful DEF Comes
<1>7. CASE s[3] = "interest" /\ s2[3] = "interest"
  <2>1. /\ input.kind = "interest" /\ s[5] \in RPOf(h, input.name) /\ s[6] \in Descendants(Ways(s[5]), h)
        /\ n \in ChildrenIn(Ways(s[5]), s[6])
    BY <1>2, <1>3, <1>4, <1>5, <1>7
  <2>2. /\ s2[5] \in RPOf(h, input.name) /\ s2[6] \in Descendants(Ways(s2[5]), h)
        /\ n \in ChildrenIn(Ways(s2[5]), s2[6])
    BY <1>2, <1>3, <1>4, <1>5, <1>7
  <2>3. s[5] = s2[5]
    BY <2>1, <2>2, RPOne DEF RPOf
  <2>4. s[6] = s2[6]
    BY <2>1, <2>2, <2>3, WaysParent
  <2> QED
    BY <1>2, <1>3, <1>4, <1>7, <2>3, <2>4
<1>8. CASE s[3] = "publication" /\ s2[3] = "publication"
  <2>1. /\ s[5] = NoName /\ s2[5] = NoName /\ input.kind # "subscription"
        /\ \E root \in Origins(input) : Enters(input.name, root, s[6], n)
        /\ \E root \in Origins(input) : Enters(input.name, root, s2[6], n)
    BY <1>2, <1>3, <1>4, <1>6, <1>8
  <2>2. PICK root \in Origins(input) : Enters(input.name, root, s[6], n) /\ Enters(input.name, root, s2[6], n)
    BY <2>1, OriginOne
  <2>3. s[6] = s2[6]
    BY <2>1, <2>2, EntersOne
  <2> QED
    BY <1>2, <1>3, <1>4, <1>8, <2>1, <2>3
<1>9. ASSUME NEW x, NEW rp, NEW y, NEW p, <<"in", n, "interest", input.name, rp, x>> \in LawfulStations(input),
             Hears(n, x), ToLocal(n, rp), n \in net.rps,
             <<"in", n, "publication", input.name, p, y>> \in LawfulStations(input), Hears(n, y)
      PROVE  FALSE
  <2>1. input.kind = "interest" /\ rp \in RPOf(h, input.name) /\ n \in Descendants(Ways(rp), h)
    BY <1>5, <1>9
  <2>2. n \in Origins(input)
    BY <1>9, <2>1 DEF Origins
  <2>3. PICK root \in Origins(input) : Enters(input.name, root, y, n)
    BY <1>6, <1>9
  <2>4. n # root
    BY <2>1, <2>3, EntersKnown
  <2> QED
    BY <2>2, <2>3, <2>4, OriginOne
<1>10. CASE s[3] = "interest" /\ s2[3] = "publication"
  <2>1. ToLocal(n, s[5]) /\ n \in net.rps
    BY <1>1, <1>3, <1>10, FromInAre
  <2> QED
    BY <1>2, <1>3, <1>4, <1>9, <1>10, <2>1
<1>11. CASE s[3] = "publication" /\ s2[3] = "interest"
  <2>1. ToLocal(n, s2[5]) /\ n \in net.rps
    BY <1>1, <1>3, <1>11, FromInAre
  <2> QED
    BY <1>2, <1>3, <1>4, <1>9, <1>11, <2>1
<1>12. s[3] \in {"interest", "publication"} /\ s2[3] \in {"interest", "publication"}
  BY <1>1, FromInAre
<1> QED
  BY <1>7, <1>8, <1>10, <1>11, <1>12

(* Below the start of what a host sent the stations form a tree: of the    *)
(* routers an interest goes through and those its publication spreads over *)
(* from the RP none makes the same packet twice, although the subscription *)
(* tables are walked in both directions.                                   *)
THEOREM RoadTree ==
  ASSUME Static, NEW input \in net.inputs
  PROVE  Tree(Road, Start(input))
<1> DEFINE R == Descendants(Road, Start(input))
<1>1. R \subseteq LawfulStations(input)
  BY AllLawful
<1>2. ASSUME NEW s \in R, NEW c \in ChildrenIn(Road, s) PROVE c[1] # "make"
  BY <1>1, PlacesAre, SentAre, FromInAre
<1>3. ASSUME NEW s \in R, NEW s2 \in R, NEW c \in ChildrenIn(Road, s), c \in ChildrenIn(Road, s2)
      PROVE  s = s2
  <2>1. /\ s \in LawfulStations(input) /\ s2 \in LawfulStations(input)
        /\ s = Start(input) \/ s[1] = "arp" \/ s[1] = "in"
        /\ s2 = Start(input) \/ s2[1] = "arp" \/ s2[1] = "in"
    <3> HIDE DEF R
    <3>1. s \in LawfulStations(input) /\ s2 \in LawfulStations(input)
      BY <1>1
    <3>2. s = Start(input) \/ s[1] = "arp" \/ s[1] = "in"
      BY <3>1, PlacesAre
    <3>3. s2 = Start(input) \/ s2[1] = "arp" \/ s2[1] = "in"
      BY <3>1, <1>3, PlacesAre
    <3> QED
      BY <3>1, <3>2, <3>3
  <2>2. ASSUME NEW a \in LawfulStations(input), NEW b \in LawfulStations(input), a[1] = "in", b[1] # "in",
               c \in ChildrenIn(Road, a), c \in ChildrenIn(Road, b)
        PROVE  FALSE
    <3>1. c \in FromIn(a[2], a[3], a[4], a[5], a[6])
      BY <2>2, PlacesAre DEF Start
    <3>2. c[1] = "arp"
      BY <3>1, FromInAre
    <3>3. c[1] \in {"in", "got"}
      BY <2>2, PlacesAre, SentAre
    <3> QED
      BY <3>2, <3>3
  <2>3. ASSUME NEW b \in LawfulStations(input), b[1] = "arp",
               c \in ChildrenIn(Road, Start(input)), c \in ChildrenIn(Road, b)
        PROVE  FALSE
    <3>1. b \in Stations /\ c \in Sent(b[2], b[3], b[4], b[5], b[6])
      BY <2>3, PlacesAre DEF Start
    <3>2. b[2] \in Routers
      BY <2>3, <3>1, StationsAre, ArpLawful
    <3>3. Start(input) \in LawfulStations(input)
      BY <1>1, DescendantsSelf
    <3>4. PICK type, name, rp, na : c \in Sent(input.from, type, name, rp, na)
      BY <2>3, <3>3, PlacesAre DEF Start
    <3>5. input.from \in Hosts /\ input.from \in Nodes /\ input.from \notin Routers
      BY InputKnown
    <3>6. CASE c[1] = "in"
      BY <3>1, <3>2, <3>4, <3>5, <3>6, SentAre
    <3>7. CASE c[1] = "got"
      <4>1. c[2] \in Hosts /\ Leading(input.from, na, c[2]) # {}
        BY <3>4, <3>7, SentAre
      <4>2. c[2] \in Routers
        BY <3>5, <4>1, LeadsOn
      <4> QED
        BY <4>1, <4>2, NodesAssumption
    <3> QED
      BY <3>4, <3>6, <3>7, SentAre
  <2>4. Start(input)[1] = "make"
    BY DEF Start
  <2>5. CASE s = Start(input)
    BY <1>3, <2>1, <2>2, <2>3, <2>4, <2>5
  <2>6. CASE s[1] = "arp"
    BY <1>3, <2>1, <2>2, <2>3, <2>4, <2>6, ArpOne
  <2>7. CASE s[1] = "in"
    BY <1>3, <2>1, <2>2, <2>4, <2>7, InOne
  <2> QED
    BY <2>1, <2>5, <2>6, <2>7
<1>4. OneParent(Road, R)
  BY <1>3 DEF OneParent
<1>5. \A s \in R : Start(input) \notin ChildrenIn(Road, s)
  BY <1>2 DEF Start
<1> QED
  BY <1>4, <1>5 DEF Tree

-----------------------------------------------------------------------------
(* The tokens.  Holders are the queues of the routers, what the hosts got, *)
(* and for the length of a step the hand of a host that sends something.   *)

Maker == <<"make", "make">>
Holders == ({"in", "arp"} \X Routers) \cup ({"got"} \X Hosts) \cup {Maker}

Frame(r) == [message : Messages, from : {From(r, x) : x \in LinkedIn(net, r)}]
Packets == [message : Messages, nextHop : NextHops]
Made == {t \in Nat \X Stations : t[2][1] = "make"}
Items(c) ==
  CASE c[1] = "in" -> Frame(c[2])
    [] c[1] = "arp" -> Packets
    [] c[1] = "got" -> 1..MaxInputs
    [] c[1] = "make" -> Made

At(place, n, m, x) == <<m.id, <<place, n, m.type, m.name, m.rp, x>>>>
Token(c, item) ==
  CASE c[1] = "in" -> At("in", c[2], item.message, item.from.ether)
    [] c[1] = "arp" -> At("arp", c[2], item.message, item.nextHop)
    [] c[1] = "got" -> <<item, <<"got", c[2], "publication", NoName, NoName, c[2]>>>>
    [] c[1] = "make" -> item

(* What is in the holders, and the tokens for it.                          *)
Held(ins, arps, gots, made) ==
  [c \in Holders |->
     CASE c[1] = "in" -> ins[c[2]]
       [] c[1] = "arp" -> arps[c[2]]
       [] c[1] = "got" -> gots[c[2]]
       [] c[1] = "make" -> made]
Tokens(c, items) == [i \in 1..Len(items) |-> Token(c, items[i])]
Cont(held) == [c \in Holders |-> Tokens(c, held[c])]
Typed(held) == \A c \in Holders : held[c] \in Seq(Items(c))

Now == Held(inQueue, arpQueue, received, <<>>)
Starts == [i \in 1..Len(produced) |-> Start(produced[i])]

LEMMA HolderKinds ==
  /\ \A r \in Routers : <<"in", r>> \in Holders /\ <<"arp", r>> \in Holders
  /\ \A h \in Hosts : <<"got", h>> \in Holders
  /\ Maker \in Holders
  /\ \A c \in Holders :
       \/ \E r \in Routers : c = <<"in", r>>
       \/ \E r \in Routers : c = <<"arp", r>>
       \/ \E h \in Hosts : c = <<"got", h>>
       \/ c = Maker
BY DEF Holders

LEMMA HeldAt ==
  ASSUME NEW ins, NEW arps, NEW gots, NEW made
  PROVE  LET held == Held(ins, arps, gots, made)
         IN  /\ \A r \in Routers : held[<<"in", r>>] = ins[r]
             /\ \A r \in Routers : held[<<"arp", r>>] = arps[r]
             /\ \A h \in Hosts : held[<<"got", h>>] = gots[h]
             /\ held[Maker] = made
BY HolderKinds DEF Held, Maker

LEMMA ItemsAre ==
  ASSUME NEW n
  PROVE  /\ Items(<<"in", n>>) = Frame(n) /\ Items(<<"arp", n>>) = Packets
         /\ Items(<<"got", n>>) = 1..MaxInputs /\ Items(Maker) = Made
BY DEF Items, Maker

LEMMA TokenIs ==
  /\ \A n, f : Token(<<"in", n>>, f) = At("in", n, f.message, f.from.ether)
  /\ \A n, p : Token(<<"arp", n>>, p) = At("arp", n, p.message, p.nextHop)
  /\ \A n, id : Token(<<"got", n>>, id) = <<id, <<"got", n, "publication", NoName, NoName, n>>>>
  /\ \A t : Token(Maker, t) = t
BY DEF Token, Maker

LEMMA MessagesAre ==
  ASSUME NEW m \in Messages
  PROVE  /\ m.id \in 1..MaxInputs /\ m.id \in Nat /\ m.name \in Names
         /\ \/ m.type = "interest" /\ m.rp \in RPs /\ m = InterestMessage(m.id, m.name, m.rp)
            \/ m.type = "publication" /\ m.rp = NoName /\ m = PublicationMessage(m.id, m.name)
            \/ m.type = "subscription" /\ m.rp = NoName /\ m = SubscriptionMessage(m.id, m.name)
<1>1. CASE m \in {InterestMessage(id, name, rp) : id \in 1..MaxInputs, name \in Names, rp \in RPs}
  BY <1>1, BoundAssumption DEF InterestMessage
<1>2. CASE m \in {PublicationMessage(id, name) : id \in 1..MaxInputs, name \in Names}
  BY <1>2, BoundAssumption DEF PublicationMessage
<1>3. CASE m \in {SubscriptionMessage(id, name) : id \in 1..MaxInputs, name \in Names}
  BY <1>3, BoundAssumption DEF SubscriptionMessage
<1> QED
  BY <1>1, <1>2, <1>3 DEF Messages

LEMMA TokenTyped ==
  ASSUME Static, NEW c \in Holders, NEW item \in Items(c)
  PROVE  /\ Token(c, item) \in Nat \X Stations
         /\ Token(c, item)[2][1] = c[1]
         /\ c # Maker => Token(c, item)[2][2] = c[2]
<1>1. ASSUME NEW r \in Routers, c = <<"in", r>>
      PROVE  /\ Token(c, item) \in Nat \X Stations
             /\ Token(c, item)[2][1] = "in" /\ Token(c, item)[2][2] = r
  <2>1. item \in Frame(r)
    BY <1>1, ItemsAre
  <2>2. item.message \in Messages /\ \E x \in LinkedIn(net, r) : item.from = From(r, x)
    BY <2>1 DEF Frame
  <2>3. item.from.ether \in Nodes
    <3>1. PICK x \in LinkedIn(net, r) : item.from = From(r, x)
      BY <2>2
    <3>2. From(r, x).ether = x
      BY DEF From
    <3>3. x \in Nodes
      BY NetworkKnown DEF Nodes
    <3> QED
      BY <3>1, <3>2, <3>3
  <2>4. Token(c, item) = At("in", r, item.message, item.from.ether)
    BY <1>1, TokenIs
  <2> DEFINE m == item.message
             x == item.from.ether
  <2>5. m \in Messages /\ x \in Nodes /\ r \in Nodes
    BY <2>2, <2>3 DEF Nodes
  <2> HIDE DEF m, x
  <2>6. At("in", r, m, x) \in Nat \X Stations
    BY <2>5, MessagesAre DEF At, Stations
  <2>7. Token(c, item) = At("in", r, m, x)
    BY <2>4 DEF m, x
  <2> QED
    BY <2>6, <2>7 DEF At
<1>2. ASSUME NEW r \in Routers, c = <<"arp", r>>
      PROVE  /\ Token(c, item) \in Nat \X Stations
             /\ Token(c, item)[2][1] = "arp" /\ Token(c, item)[2][2] = r
  <2>1. item \in Packets
    BY <1>2, ItemsAre
  <2> DEFINE m == item.message
             x == item.nextHop
  <2>2. m \in Messages /\ x \in NextHops /\ r \in Nodes
    BY <2>1 DEF Packets, Nodes
  <2>3. Token(c, item) = At("arp", r, m, x)
    BY <1>2, TokenIs
  <2> HIDE DEF m, x
  <2>4. At("arp", r, m, x) \in Nat \X Stations
    BY <2>2, MessagesAre DEF At, Stations
  <2> QED
    BY <2>3, <2>4 DEF At
<1>3. ASSUME NEW h \in Hosts, c = <<"got", h>>
      PROVE  /\ Token(c, item) \in Nat \X Stations
             /\ Token(c, item)[2][1] = "got" /\ Token(c, item)[2][2] = h
  <2>1. item \in Nat
    <3>1. item \in 1..MaxInputs
      BY <1>3, ItemsAre
    <3> QED
      BY <3>1, BoundAssumption
  <2>2. Token(c, item) = <<item, <<"got", h, "publication", NoName, NoName, h>>>>
    BY <1>3, TokenIs
  <2> QED
    BY <2>1, <2>2 DEF Stations, Nodes
<1>4. ASSUME c = Maker
      PROVE  Token(c, item) \in Nat \X Stations /\ Token(c, item)[2][1] = "make"
  BY <1>4, ItemsAre, TokenIs DEF Made
<1>5. Maker[1] = "make"
  BY DEF Maker
<1>6. CASE \E r \in Routers : c = <<"in", r>>
  <2>1. PICK r \in Routers : c = <<"in", r>>
    BY <1>6
  <2>2. c[1] = "in" /\ c[2] = r
    BY <2>1
  <2> QED
    BY <1>1, <2>1, <2>2
<1>7. CASE \E r \in Routers : c = <<"arp", r>>
  <2>1. PICK r \in Routers : c = <<"arp", r>>
    BY <1>7
  <2>2. c[1] = "arp" /\ c[2] = r
    BY <2>1
  <2> QED
    BY <1>2, <2>1, <2>2
<1>8. CASE \E h \in Hosts : c = <<"got", h>>
  <2>1. PICK h \in Hosts : c = <<"got", h>>
    BY <1>8
  <2>2. c[1] = "got" /\ c[2] = h
    BY <2>1
  <2> QED
    BY <1>3, <2>1, <2>2
<1>9. CASE c = Maker
  BY <1>4, <1>5, <1>9
<1> QED
  BY <1>6, <1>7, <1>8, <1>9, HolderKinds

LEMMA TokensAre ==
  ASSUME Static, NEW c \in Holders, NEW items \in Seq(Items(c))
  PROVE  /\ Tokens(c, items) \in Seq(Nat \X Stations) /\ Len(Tokens(c, items)) = Len(items)
         /\ \A i \in 1..Len(items) : Tokens(c, items)[i] = Token(c, items[i]) /\ items[i] \in Items(c)
<1>1. ASSUME NEW i \in 1..Len(items) PROVE items[i] \in Items(c) /\ Token(c, items[i]) \in Nat \X Stations
  BY ElementOfSeq, TokenTyped
<1> QED
  BY <1>1 DEF Tokens

LEMMA ContHolds ==
  ASSUME Static, NEW held, Typed(held)
  PROVE  Holds(Cont(held), Holders, Stations) /\ \A c \in Holders : Cont(held)[c] = Tokens(c, held[c])
<1>1. \A c \in Holders : Tokens(c, held[c]) \in Seq(Nat \X Stations)
  BY TokensAre DEF Typed
<1> QED
  BY <1>1 DEF Holds, Cont

(* A station tells the holder.                                             *)
LEMMA ContTogether ==
  ASSUME Static, NEW held, Typed(held)
  PROVE  Together(Cont(held), {})
<1> SUFFICES ASSUME NEW x \in PlacesOf(Cont(held)), NEW y \in PlacesOf(Cont(held)),
                    TokenAt(Cont(held), x)[2] = TokenAt(Cont(held), y)[2]
             PROVE  x[1] = y[1]
  BY DEF Together
<1>1. ASSUME NEW z \in PlacesOf(Cont(held))
      PROVE  /\ z[1] \in Holders /\ TokenAt(Cont(held), z)[2][1] = z[1][1]
             /\ z[1] # Maker => TokenAt(Cont(held), z)[2][2] = z[1][2]
  <2>1. z[1] \in Holders /\ z[2] \in 1..Len(Cont(held)[z[1]])
    BY DEF PlacesOf, Cont
  <2>2. /\ z[2] \in 1..Len(held[z[1]]) /\ held[z[1]][z[2]] \in Items(z[1])
        /\ Cont(held)[z[1]][z[2]] = Token(z[1], held[z[1]][z[2]])
    BY <2>1, ContHolds, TokensAre DEF Typed
  <2> QED
    BY <2>1, <2>2, TokenTyped DEF TokenAt
<1>2. \A c \in Holders : c = <<c[1], c[2]>> /\ (c[1] = "make" => c = Maker)
  BY DEF Holders, Maker
<1>3. Maker[1] = "make"
  BY DEF Maker
<1> QED
  BY <1>1, <1>2, <1>3

(* A step on what is held: t loses its first n, what was pushed is added,  *)
(* as far as it has place.                                                 *)
Steps(held, pushed, new, t, n) ==
  \A c \in Holders : Shift(held[c], pushed[c], new[c], Dropped(c, t, n))

LEMMA ContShifts ==
  ASSUME Static, NEW held, Typed(held), NEW pushed, Typed(pushed), NEW new, Typed(new),
         NEW t \in Holders, NEW n \in Nat, n <= Len(held[t]), Steps(held, pushed, new, t, n)
  PROVE  Shifted(Cont(held), Cont(pushed), Cont(new), t, n)
<1>1. ASSUME NEW c \in Holders
      PROVE  Shift(Cont(held)[c], Cont(pushed)[c], Cont(new)[c], Dropped(c, t, n))
  <2> DEFINE F == [item \in Items(c) |-> Token(c, item)]
             s == held[c]
             p == pushed[c]
             s2 == new[c]
             k == Dropped(c, t, n)
  <2>1. s \in Seq(Items(c)) /\ p \in Seq(Items(c)) /\ s2 \in Seq(Items(c)) /\ Shift(s, p, s2, k)
    BY DEF Typed, Steps
  <2>2. k \in Nat /\ k <= Len(s)
    <3>1. Len(s) \in Nat
      BY <2>1, LenProperties
    <3> QED
      BY <3>1 DEF Dropped
  <2>3. \A items \in Seq(Items(c)) : IsMap(F, items, Tokens(c, items))
    BY TokensAre DEF IsMap
  <2>4. Cont(held)[c] = Tokens(c, s) /\ Cont(pushed)[c] = Tokens(c, p) /\ Cont(new)[c] = Tokens(c, s2)
    BY ContHolds
  <2> HIDE DEF F, s, p, s2, k
  <2>5. IsMap(F, s, Tokens(c, s)) /\ IsMap(F, p, Tokens(c, p)) /\ IsMap(F, s2, Tokens(c, s2))
    BY <2>1, <2>3
  <2>6. Shift(Tokens(c, s), Tokens(c, p), Tokens(c, s2), k)
    BY <2>1, <2>2, <2>5, ShiftMap
  <2> QED
    BY <2>4, <2>6 DEF k
<1>2. DOMAIN Cont(held) = Holders /\ DOMAIN Cont(pushed) = Holders /\ DOMAIN Cont(new) = Holders
  BY DEF Cont
<1> DEFINE a == Cont(held)
           b == Cont(pushed)
           d == Cont(new)
<1> HIDE DEF a, b, d
<1>3. Shifted(a, b, d, t, n)
  BY <1>1, <1>2 DEF Shifted, Shift, a, b, d
<1> QED
  BY <1>3 DEF a, b, d

(* What one packet becomes in a holder: copies of it at different stations *)
(* that follow its own.                                                    *)
Follow(token, tokens) ==
  /\ \A i \in 1..Len(tokens) : tokens[i][1] = token[1] /\ tokens[i][2] \in ChildrenIn(Road, token[2])
  /\ \A i \in 1..Len(tokens), j \in 1..Len(tokens) : tokens[i][2] = tokens[j][2] => i = j

LEMMA NothingFollows ==
  ASSUME NEW token, NEW c
  PROVE  Follow(token, Tokens(c, <<>>)) /\ Tokens(c, <<>>) = <<>>
BY DEF Follow, Tokens

LEMMA CopiesOfOne ==
  ASSUME Static, NEW held, Typed(held), NEW pushed, Typed(pushed), NEW t \in Holders,
         \A c \in Holders : Follow(Cont(held)[t][1], Cont(pushed)[c])
  PROVE  \E from : CopiesPushed(Cont(held), Cont(pushed), t, 1, from, Road)
<1> DEFINE cont == Cont(held)
           push == Cont(pushed)
           from == [x \in PlacesOf(push) |-> 1]
<1>1. Together(push, {})
  BY ContTogether
<1>2. DOMAIN push = Holders
  BY DEF Cont
<1> HIDE DEF cont, push
<1>3. \A x \in PlacesOf(push) : x[1] \in Holders /\ x[2] \in 1..Len(push[x[1]]) /\ x = <<x[1], x[2]>>
  BY <1>2 DEF PlacesOf
<1>4. \A c \in Holders : Follow(cont[t][1], push[c])
  BY DEF cont, push
<1>5. \A x \in PlacesOf(push) :
        /\ TokenAt(push, x)[1] = cont[t][1][1]
        /\ TokenAt(push, x)[2] \in ChildrenIn(Road, cont[t][1][2])
  BY <1>3, <1>4 DEF Follow, TokenAt
<1>6. ASSUME NEW x \in PlacesOf(push), NEW y \in PlacesOf(push), x # y
      PROVE  TokenAt(push, x)[2] # TokenAt(push, y)[2]
  <2>1. SUFFICES ASSUME TokenAt(push, x)[2] = TokenAt(push, y)[2] PROVE FALSE
    OBVIOUS
  <2>2. x[1] = y[1]
    BY <1>1, <2>1 DEF Together
  <2>3. x[2] = y[2]
    BY <1>3, <1>4, <2>1, <2>2 DEF Follow, TokenAt
  <2> QED
    BY <1>3, <1>6, <2>2, <2>3
<1>7. from \in [PlacesOf(push) -> 1..1] /\ \A x \in PlacesOf(push) : from[x] = 1
  OBVIOUS
<1> HIDE DEF from
<1>8. CopiesPushed(cont, push, t, 1, from, Road)
  BY <1>5, <1>6, <1>7 DEF CopiesPushed
<1> QED
  BY <1>8 DEF cont, push

(* The tokens stay in order when the first of a holder is replaced by      *)
(* copies that follow it.                                                  *)
LEMMA TokensMove ==
  ASSUME Static, NEW starts, Trees(Road, starts),
         NEW held, Typed(held), NEW pushed, Typed(pushed), NEW new, Typed(new),
         NEW t \in Holders, held[t] # <<>>, Steps(held, pushed, new, t, 1),
         \A c \in Holders : Follow(Token(t, held[t][1]), Tokens(c, pushed[c])),
         TokensOK(Cont(held), Road, starts, {})
  PROVE  TokensOK(Cont(new), Road, starts, {})
<1> DEFINE cont == Cont(held)
           push == Cont(pushed)
           after == Cont(new)
<1>1. held[t] \in Seq(Items(t)) /\ Len(held[t]) \in Nat \ {0}
  BY EmptySeq, LenProperties DEF Typed
<1>2. /\ Holds(cont, Holders, Stations) /\ Holds(push, Holders, Stations) /\ Holds(after, Holders, Stations)
      /\ \A c \in Holders : cont[c] = Tokens(c, held[c]) /\ push[c] = Tokens(c, pushed[c])
  BY ContHolds
<1>3. 1 \in 1..Len(held[t]) /\ 1 <= Len(held[t]) /\ 1 \in Nat
  BY <1>1
<1>4. cont[t][1] = Token(t, held[t][1]) /\ 1 <= Len(cont[t])
  BY <1>1, <1>2, <1>3, TokensAre
<1>5. Shifted(cont, push, after, t, 1)
  BY <1>3, ContShifts
<1>6. Together(after, {})
  BY ContTogether
<1>7. PICK from : CopiesPushed(cont, push, t, 1, from, Road)
  BY <1>2, <1>4, CopiesOfOne
<1>8. NonePrior(cont, push, t, 1, {})
  BY DEF NonePrior
<1>9. TokensOK(cont, Road, starts, {})
  OBVIOUS
<1> HIDE DEF cont, push, after
<1>10. TokensOK(after, Road, starts, {})
  BY <1>2, <1>3, <1>4, <1>5, <1>6, <1>7, <1>8, <1>9, MoveSome
<1> QED
  BY <1>10 DEF after

-----------------------------------------------------------------------------
(* What a node puts on its links.                                          *)

(* Packets for different next hops, of which one leads to each node.       *)
Fanned(x, ps, nas) ==
  /\ \A i \in 1..Len(ps) : ps[i].nextHop \in nas
  /\ \A i \in 1..Len(ps), j \in 1..Len(ps) : ps[i].nextHop = ps[j].nextHop => i = j
  /\ \A n \in Nodes : \A a \in Links(x, nas, n), b \in Links(x, nas, n) : a = b

Arrives(x, p, n) ==
  Leading(x, p.nextHop, n) # {} /\ (n \in Routers \/ p.message.type = "publication")

LEMMA LeadingOne ==
  ASSUME NEW x, NEW nas, NEW n, \A a \in Links(x, nas, n), b \in Links(x, nas, n) : a = b, NEW na \in nas
  PROVE  /\ Leading(x, na, n) = {} => Cardinality(Leading(x, na, n)) = 0
         /\ Leading(x, na, n) # {} => Cardinality(Leading(x, na, n)) = 1
         /\ Leading(x, na, n) # {} => \A b \in nas : Leading(x, b, n) # {} => b = na
<1>1. Leading(x, na, n) = {} => Cardinality(Leading(x, na, n)) = 0
  BY FS_EmptySet
<1>2. ASSUME Leading(x, na, n) # {}
      PROVE  /\ Cardinality(Leading(x, na, n)) = 1
             /\ \A b \in nas : Leading(x, b, n) # {} => b = na
  <2>1. PICK e : e \in Leading(x, na, n)
    BY <1>2
  <2>2. \A b \in nas : \A f \in Leading(x, b, n) : <<b, f>> = <<na, e>>
    BY <2>1, LinksAre
  <2>3. Leading(x, na, n) = {e}
    BY <2>1, <2>2
  <2> QED
    BY <2>2, <2>3, FS_Singleton
<1> QED
  BY <1>1, <1>2

LEMMA FramesAre ==
  ASSUME NEW x, NEW n \in Nodes, NEW ps \in Seq(Packets), NEW nas, Fanned(x, ps, nas)
  PROVE  /\ Frames(x, ps, n) = <<>> \/
              \E i \in 1..Len(ps) :
                 Arrives(x, ps[i], n) /\ Frames(x, ps, n) = <<[message |-> ps[i].message, from |-> From(n, x)]>>
<1> DEFINE k == Len(ps)
           F == [i \in 1..k |-> [message |-> ps[i].message, from |-> From(n, x)]]
           S == {F[i] : i \in 1..k}
           count == [i \in 1..k |-> IF Arrives(x, ps[i], n) THEN 1 ELSE 0]
           f == [i \in 1..k |-> [j \in 1..count[i] |-> F[i]]]
<1>1. k \in Nat /\ DOMAIN ps = 1..k
  BY LenProperties
<1>2. Frames(x, ps, n) = FlattenSeq(f)
  <2>1. ASSUME NEW i \in 1..k
        PROVE  count[i] = IF i \in {j \in DOMAIN ps : n \in Routers \/ ps[j].message.type = "publication"}
                            THEN Cardinality(Leading(x, ps[i].nextHop, n)) ELSE 0
    <3>1. \A a \in Links(x, nas, n), b \in Links(x, nas, n) : a = b
      BY DEF Fanned
    <3>2. ps[i].nextHop \in nas
      BY DEF Fanned
    <3> QED
      BY <1>1, <3>1, <3>2, LeadingOne DEF Arrives
  <2>2. \A i \in 1..k : F[i] = [message |-> ps[i].message, from |-> From(n, x)]
    OBVIOUS
  <2> HIDE DEF count, F
  <2> QED
    BY <1>1, <2>1, <2>2 DEF Frames
<1>3. ASSUME NEW i \in 1..k, NEW j \in 1..k, Arrives(x, ps[i], n), Arrives(x, ps[j], n) PROVE i = j
  <2>1. ps[i].nextHop \in nas /\ ps[j].nextHop \in nas
    BY DEF Fanned
  <2>2. \A a \in Links(x, nas, n), b \in Links(x, nas, n) : a = b
    BY DEF Fanned
  <2>3. ps[i].nextHop = ps[j].nextHop
    BY <1>3, <2>1, <2>2, LeadingOne DEF Arrives
  <2> QED
    BY <2>3 DEF Fanned
<1>4. CASE k = 0
  <2>1. f = <<>> /\ Len(f) = 0
    BY <1>4
  <2>2. FlattenSeq(f) = <<>>
    BY <2>1 DEF FlattenSeq
  <2> QED
    BY <1>2, <2>2
<1>5. CASE k # 0
  <2>1. k \in Nat \ {0}
    BY <1>1, <1>5
  <2>2. \A i \in 1..k : f[i] \in Seq(S) /\ Len(f[i]) = count[i] /\ (\A j \in 1..count[i] : f[i][j] = F[i])
    <3>1. \A i \in 1..k : F[i] \in S /\ count[i] \in Nat
      OBVIOUS
    <3>2. \A i \in 1..k : f[i] = [j \in 1..count[i] |-> F[i]]
      OBVIOUS
    <3> HIDE DEF f, S, F, count
    <3>3. \A d \in Nat, y \in S :
            /\ [j \in 1..d |-> y] \in Seq(S) /\ Len([j \in 1..d |-> y]) = d
            /\ \A j \in 1..d : [m \in 1..d |-> y][j] = y
      OBVIOUS
    <3> SUFFICES ASSUME NEW i \in 1..k
                 PROVE  f[i] \in Seq(S) /\ Len(f[i]) = count[i] /\ (\A j \in 1..count[i] : f[i][j] = F[i])
      OBVIOUS
    <3>4. F[i] \in S /\ count[i] \in Nat /\ f[i] = [j \in 1..count[i] |-> F[i]]
      BY <3>1, <3>2
    <3> QED
      BY <3>3, <3>4
  <2>3. f \in [1..k -> Seq(S)]
    BY <2>2
  <2>4. \A i \in 1..k : (count[i] = 1 /\ Arrives(x, ps[i], n)) \/ count[i] = 0
    OBVIOUS
  <2> DEFINE s == FlattenSeq(f)
  <2> HIDE DEF f, count
  <2>5. s \in Seq(S) /\ \E at : Places(f, k, s, at)
    BY <2>1, <2>3, FlattenPlaces
  <2> HIDE DEF s
  <2>6. PICK at : Places(f, k, s, at)
    BY <2>5
  <2>7. Len(s) \in Nat /\ s = [j \in 1..Len(s) |-> s[j]]
    BY <2>5, LenProperties
  <2>8. ASSUME NEW l \in 1..Len(s)
        PROVE  at[l][1] \in 1..k /\ count[at[l][1]] = 1 /\ Arrives(x, ps[at[l][1]], n) /\ at[l][2] = 1 /\ s[l] = F[at[l][1]]
    <3>1. at[l][1] \in 1..k /\ at[l][2] \in 1..Len(f[at[l][1]]) /\ s[l] = f[at[l][1]][at[l][2]]
      BY <2>6 DEF Places
    <3>2. at[l][2] \in 1..count[at[l][1]]
      BY <2>2, <3>1
    <3> DEFINE i == at[l][1]
               j == at[l][2]
    <3>3. i \in 1..k /\ j \in 1..count[i] /\ s[l] = f[i][j]
      BY <3>1, <3>2
    <3> HIDE DEF i, j
    <3>4. count[i] = 1 /\ Arrives(x, ps[i], n)
      BY <2>4, <3>3
    <3>5. j = 1
      BY <3>3, <3>4
    <3>6. s[l] = F[i]
      BY <2>2, <3>3
    <3> QED
      BY <3>3, <3>4, <3>5, <3>6 DEF i, j
  <2>9. ASSUME NEW l \in 1..Len(s), NEW m \in 1..Len(s), l < m PROVE FALSE
    <3>1. at[l][1] = at[m][1] /\ at[l][2] = 1 /\ at[m][2] = 1
      BY <1>3, <2>8
    <3>2. at[l][1] < at[m][1] \/ at[l][2] < at[m][2]
      BY <2>6, <2>9 DEF Places
    <3>3. at[l][1] \in Nat
      <4>1. at[l][1] \in 1..k
        BY <2>8
      <4> QED
        BY <1>1, <4>1
    <3> QED
      BY <3>1, <3>2, <3>3
  <2>10. Len(s) = 0 \/ Len(s) = 1
    <3>1. \A a \in Nat : a # 0 /\ a # 1 => 1 \in 1..a /\ 2 \in 1..a
      OBVIOUS
    <3>2. 1 < 2
      OBVIOUS
    <3>3. ~(1 \in 1..Len(s) /\ 2 \in 1..Len(s))
      BY <2>9, <3>2
    <3> QED
      BY <2>7, <3>1, <3>3
  <2>11. CASE Len(s) = 0
    <3>1. s = <<>>
      BY <2>5, <2>11, EmptySeq
    <3> QED
      BY <1>2, <3>1 DEF s
  <2>12. CASE Len(s) = 1
    <3>1. 1 \in 1..Len(s)
      BY <2>12
    <3> DEFINE i == at[1][1]
    <3>2. i \in 1..k /\ Arrives(x, ps[i], n) /\ s[1] = F[i]
      BY <2>8, <3>1
    <3> HIDE DEF i
    <3>3. F[i] = [message |-> ps[i].message, from |-> From(n, x)]
      BY <3>2
    <3> HIDE DEF F
    <3>4. s = <<s[1]>>
      BY <2>7, <2>12
    <3>5. s = <<[message |-> ps[i].message, from |-> From(n, x)]>>
      BY <3>2, <3>3, <3>4
    <3> QED
      BY <1>2, <3>2, <3>5 DEF s
  <2> QED
    BY <2>10, <2>11, <2>12
<1> QED
  BY <1>4, <1>5

Ids(frames) == [i \in DOMAIN frames |-> frames[i].message.id]
Brought(x, ps) ==
  Held([r \in Routers |-> Frames(x, ps, r)], [r \in Routers |-> <<>>],
       [h \in Hosts |-> Ids(Frames(x, ps, h))], <<>>)

LEMMA BroughtAt ==
  ASSUME NEW x, NEW ps
  PROVE  /\ \A r \in Routers : Brought(x, ps)[<<"in", r>>] = Frames(x, ps, r) /\ Brought(x, ps)[<<"arp", r>>] = <<>>
         /\ \A h \in Hosts : Brought(x, ps)[<<"got", h>>] = Ids(Frames(x, ps, h))
         /\ Brought(x, ps)[Maker] = <<>>
BY HeldAt DEF Brought

LEMMA SingleFollows ==
  ASSUME NEW c, NEW item, NEW token, Token(c, item)[1] = token[1],
         Token(c, item)[2] \in ChildrenIn(Road, token[2])
  PROVE  Follow(token, Tokens(c, <<item>>))
<1>1. Tokens(c, <<item>>) = <<Token(c, item)>>
  BY DEF Tokens
<1> DEFINE t == Token(c, item)
<1> HIDE DEF t
<1>2. t[1] = token[1] /\ t[2] \in ChildrenIn(Road, token[2])
  BY DEF t
<1>3. Follow(token, <<t>>)
  BY <1>2 DEF Follow
<1> QED
  BY <1>1, <1>3 DEF t

(* All packets are the message id and follow the station s.                *)
Carry(x, ps, id, s) ==
  \A i \in 1..Len(ps) :
    /\ ps[i].message.id = id
    /\ Sent(x, ps[i].message.type, ps[i].message.name, ps[i].message.rp, ps[i].nextHop) \subseteq ChildrenIn(Road, s)

LEMMA BroughtIn ==
  ASSUME Static, NEW x \in Nodes, NEW ps \in Seq(Packets), NEW nas, Fanned(x, ps, nas),
         NEW id, NEW s, Carry(x, ps, id, s), NEW r \in Routers
  PROVE  /\ Frames(x, ps, r) \in Seq(Frame(r))
         /\ Follow(<<id, s>>, Tokens(<<"in", r>>, Frames(x, ps, r)))
<1>1. CASE Frames(x, ps, r) = <<>>
  BY <1>1, EmptySeq, NothingFollows
<1>2. ASSUME NEW i \in 1..Len(ps), Arrives(x, ps[i], r),
             Frames(x, ps, r) = <<[message |-> ps[i].message, from |-> From(r, x)]>>
      PROVE  /\ Frames(x, ps, r) \in Seq(Frame(r))
             /\ Follow(<<id, s>>, Tokens(<<"in", r>>, Frames(x, ps, r)))
  <2> DEFINE m == ps[i].message
             f == [message |-> m, from |-> From(r, x)]
             c == <<"in", r>>
  <2>1. m \in Messages
    <3>1. ps[i] \in Packets
      BY ElementOfSeq
    <3> QED
      BY <3>1 DEF Packets
  <2>2. x \in LinkedIn(net, r)
    BY <1>2, LeadsOn DEF Arrives
  <2> HIDE DEF m
  <2>3. f \in Frame(r) /\ f.message = m /\ f.from.ether = x
    BY <2>1, <2>2 DEF Frame, From
  <2> HIDE DEF f
  <2>4. <<f>> \in Seq(Frame(r))
    BY <2>3
  <2>5. Token(c, f) = <<m.id, <<"in", r, m.type, m.name, m.rp, x>>>>
    <3>1. Token(c, f) = At("in", r, f.message, f.from.ether)
      BY TokenIs
    <3> QED
      BY <2>3, <3>1 DEF At
  <2>6. /\ <<"in", r, m.type, m.name, m.rp, x>> \in Sent(x, m.type, m.name, m.rp, ps[i].nextHop)
        /\ m.id = id
        /\ Sent(x, m.type, m.name, m.rp, ps[i].nextHop) \subseteq ChildrenIn(Road, s)
    BY <1>2 DEF Sent, Carry, Arrives, m
  <2>7. Follow(<<id, s>>, Tokens(c, <<f>>))
    <3>1. Token(c, f)[1] = <<id, s>>[1] /\ Token(c, f)[2] \in ChildrenIn(Road, <<id, s>>[2])
      <4> DEFINE st == <<"in", r, m.type, m.name, m.rp, x>>
      <4>1. Token(c, f) = <<id, st>>
        BY <2>5, <2>6
      <4>2. st \in ChildrenIn(Road, s)
        BY <2>6
      <4> HIDE DEF st, c
      <4> QED
        BY <4>1, <4>2
    <3> QED
      BY <3>1, SingleFollows
  <2> QED
    BY <1>2, <2>4, <2>7 DEF f, m
<1>3. r \in Nodes
  BY DEF Nodes
<1> QED
  BY <1>1, <1>2, <1>3, FramesAre

LEMMA BroughtGot ==
  ASSUME Static, NEW x \in Nodes, NEW ps \in Seq(Packets), NEW nas, Fanned(x, ps, nas),
         NEW id, NEW s, Carry(x, ps, id, s), NEW h \in Hosts
  PROVE  LET ids == Ids(Frames(x, ps, h))
         IN  /\ ids \in Seq(1..MaxInputs)
             /\ ids = <<>> \/ (ids = <<id>> /\ \E i \in 1..Len(ps) : Arrives(x, ps[i], h))
             /\ Follow(<<id, s>>, Tokens(<<"got", h>>, ids))
<1> DEFINE ids == Ids(Frames(x, ps, h))
<1>1. CASE Frames(x, ps, h) = <<>>
  <2>1. ids = <<>>
    BY <1>1 DEF Ids
  <2> HIDE DEF ids
  <2> QED
    BY <2>1, EmptySeq, NothingFollows DEF ids
<1>2. ASSUME NEW i \in 1..Len(ps), Arrives(x, ps[i], h),
             Frames(x, ps, h) = <<[message |-> ps[i].message, from |-> From(h, x)]>>
      PROVE  /\ ids \in Seq(1..MaxInputs)
             /\ ids = <<id>> /\ Follow(<<id, s>>, Tokens(<<"got", h>>, ids))
  <2> DEFINE m == ps[i].message
             c == <<"got", h>>
  <2>1. m.id \in 1..MaxInputs /\ m.id = id
    <3>1. ps[i] \in Packets
      BY ElementOfSeq
    <3>2. m \in Messages
      BY <3>1 DEF Packets
    <3> QED
      BY <3>2, MessagesAre DEF Carry
  <2>2. ids = <<id>>
    <3>1. m.id = id
      BY <2>1
    <3> DEFINE f == [message |-> m, from |-> From(h, x)]
    <3>2. f.message.id = id
      BY <3>1
    <3> HIDE DEF f
    <3>3. Ids(<<f>>) = <<id>>
      BY <3>2 DEF Ids
    <3> QED
      BY <1>2, <3>3 DEF f
  <2>3. m.type = "publication"
    BY <1>2, NodesAssumption DEF Arrives
  <2>4. <<"got", h, "publication", NoName, NoName, h>> \in Sent(x, m.type, m.name, m.rp, ps[i].nextHop)
    BY <1>2, <2>3 DEF Sent, Arrives
  <2>5. Token(c, id) = <<id, <<"got", h, "publication", NoName, NoName, h>>>>
    BY TokenIs
  <2>6. Follow(<<id, s>>, Tokens(c, <<id>>))
    <3>1. Token(c, id)[1] = <<id, s>>[1] /\ Token(c, id)[2] \in ChildrenIn(Road, <<id, s>>[2])
      BY <2>4, <2>5 DEF Carry
    <3> QED
      BY <3>1, SingleFollows
  <2>7. <<id>> \in Seq(1..MaxInputs)
    BY <2>1
  <2> HIDE DEF ids
  <2> QED
    BY <2>2, <2>6, <2>7
<1>3. h \in Nodes
  BY DEF Nodes
<1> HIDE DEF ids
<1> QED
  BY <1>1, <1>2, <1>3, FramesAre DEF ids

LEMMA BroughtFollows ==
  ASSUME Static, NEW x \in Nodes, NEW ps \in Seq(Packets), NEW nas, Fanned(x, ps, nas),
         NEW id, NEW s, Carry(x, ps, id, s)
  PROVE  /\ Typed(Brought(x, ps))
         /\ \A c \in Holders : Follow(<<id, s>>, Tokens(c, Brought(x, ps)[c]))
<1>1. ASSUME NEW c \in Holders
      PROVE  Brought(x, ps)[c] \in Seq(Items(c)) /\ Follow(<<id, s>>, Tokens(c, Brought(x, ps)[c]))
  <2>1. ASSUME NEW r \in Routers, c = <<"in", r>>
        PROVE  Brought(x, ps)[c] \in Seq(Items(c)) /\ Follow(<<id, s>>, Tokens(c, Brought(x, ps)[c]))
    <3>1. Brought(x, ps)[c] = Frames(x, ps, r) /\ Items(c) = Frame(r)
      BY <2>1, BroughtAt, ItemsAre
    <3> QED
      BY <2>1, <3>1, BroughtIn
  <2>2. ASSUME NEW h \in Hosts, c = <<"got", h>>
        PROVE  Brought(x, ps)[c] \in Seq(Items(c)) /\ Follow(<<id, s>>, Tokens(c, Brought(x, ps)[c]))
    <3>1. Brought(x, ps)[c] = Ids(Frames(x, ps, h)) /\ Items(c) = 1..MaxInputs
      BY <2>2, BroughtAt, ItemsAre
    <3> QED
      BY <2>2, <3>1, BroughtGot
  <2>3. ASSUME Brought(x, ps)[c] = <<>>
        PROVE  Brought(x, ps)[c] \in Seq(Items(c)) /\ Follow(<<id, s>>, Tokens(c, Brought(x, ps)[c]))
    BY <2>3, EmptySeq, NothingFollows
  <2>4. \/ \E r \in Routers : c = <<"in", r>>
        \/ \E h \in Hosts : c = <<"got", h>>
        \/ Brought(x, ps)[c] = <<>>
    <3>1. \A r \in Routers : c = <<"arp", r>> => Brought(x, ps)[c] = <<>>
      BY BroughtAt
    <3>2. c = Maker => Brought(x, ps)[c] = <<>>
      BY BroughtAt
    <3> QED
      BY <3>1, <3>2, HolderKinds
  <2> QED
    BY <2>1, <2>2, <2>3, <2>4
<1> QED
  BY <1>1 DEF Typed

LEMMA TransmitSteps ==
  ASSUME Static, NEW x, NEW ps, Typed(Brought(x, ps)), Transmit(x, ps), overflowed \in BOOLEAN,
         \A r \in Routers : inQueue[r] \in Seq(Frame(r)),
         \A h \in Hosts : received[h] \in Seq(1..MaxInputs)
  PROVE  /\ \A r \in Routers :
              /\ inQueue'[r] \in Seq(Frame(r)) /\ Len(inQueue'[r]) <= net.capacity
              /\ Shift(inQueue[r], Brought(x, ps)[<<"in", r>>], inQueue'[r], 0)
         /\ \A h \in Hosts : Shift(received[h], Brought(x, ps)[<<"got", h>>], received'[h], 0)
         /\ received' \in [Hosts -> Seq(1..MaxInputs)] /\ overflowed' \in BOOLEAN
<1>1. ASSUME NEW r \in Routers
      PROVE  /\ inQueue'[r] \in Seq(Frame(r)) /\ Len(inQueue'[r]) <= net.capacity
             /\ Shift(inQueue[r], Brought(x, ps)[<<"in", r>>], inQueue'[r], 0)
  <2> DEFINE p == Frames(x, ps, r)
             s == inQueue[r]
  <2>1. p = Brought(x, ps)[<<"in", r>>] /\ p \in Seq(Frame(r)) /\ s \in Seq(Frame(r))
    <3>1. p = Brought(x, ps)[<<"in", r>>]
      BY BroughtAt
    <3>2. <<"in", r>> \in Holders /\ Items(<<"in", r>>) = Frame(r)
      BY HolderKinds, ItemsAre
    <3> QED
      BY <3>1, <3>2 DEF Typed
  <2>2. inQueue'[r] = Fitting(s \o p)
    BY DEF Transmit
  <2> HIDE DEF p, s
  <2>3. net.capacity \in Nat \ {0} /\ Fitting(s \o p) = CutTo(s \o p, net.capacity)
    BY NetworkKnown DEF Fitting, CutTo
  <2>4. s \o p \in Seq(Frame(r))
    BY <2>1, ConcatProperties
  <2>5. /\ Shift(s, p, CutTo(s \o p, net.capacity), 0)
        /\ CutTo(s \o p, net.capacity) \in Seq(Frame(r)) /\ Len(CutTo(s \o p, net.capacity)) <= net.capacity
    BY <2>1, <2>3, <2>4, CutShift
  <2>6. inQueue'[r] = CutTo(s \o p, net.capacity)
    BY <2>2, <2>3
  <2>7. /\ inQueue'[r] \in Seq(Frame(r)) /\ Len(inQueue'[r]) <= net.capacity
        /\ Shift(s, p, inQueue'[r], 0)
    BY <2>5, <2>6
  <2> QED
    BY <2>1, <2>7 DEF s
<1>2. ASSUME NEW h \in Hosts
      PROVE  /\ Shift(received[h], Brought(x, ps)[<<"got", h>>], received'[h], 0)
             /\ received'[h] \in Seq(1..MaxInputs)
  <2>1. Brought(x, ps)[<<"got", h>>] \in Seq(1..MaxInputs)
    BY ItemsAre, HolderKinds DEF Typed
  <2>2. received'[h] = received[h] \o Brought(x, ps)[<<"got", h>>]
    <3>1. received'[h] = received[h] \o Ids(Frames(x, ps, h))
      BY DEF Transmit, Ids
    <3> QED
      BY <3>1, BroughtAt
  <2>3. received[h] \in Seq(1..MaxInputs)
    OBVIOUS
  <2> QED
    BY <2>1, <2>2, <2>3, AddShift
<1>3. received' = [h \in Hosts |-> received'[h]] /\ overflowed' \in BOOLEAN
  BY DEF Transmit
<1> QED
  BY <1>1, <1>2, <1>3

-----------------------------------------------------------------------------
(* The inductive invariant.                                                *)

IInv ==
  /\ TypeOK /\ Static
  /\ TokensOK(Cont(Now), Road, Starts, {})

LEMMA TablesSame ==
  ASSUME UNCHANGED tables
  PROVE  /\ net' = net /\ Names' = Names /\ RPs' = RPs /\ NextHops' = NextHops /\ Messages' = Messages
         /\ \A r \in Routers : Frame(r)' = Frame(r)
         /\ Packets' = Packets /\ Stations' = Stations /\ Road' = Road
<1> USE DEF tables
<1>1. Names' = Names /\ RPs' = RPs
  BY DEF Names, RPs, RPOf
<1>2. NextHops' = NextHops
  BY <1>1 DEF NextHops, NextHop
<1>3. Messages' = Messages
  BY <1>1 DEF Messages
<1>4. \A r \in Routers : Frame(r)' = Frame(r)
  BY <1>3 DEF Frame, From, LinkedIn
<1>5. Packets' = Packets /\ Stations' = Stations
  BY <1>1, <1>2, <1>3 DEF Packets, Stations
<1>6. /\ \A x, na, n : Leading(x, na, n)' = Leading(x, na, n)
      /\ \A n, x : KnownAs(n, x)' = KnownAs(n, x)
      /\ \A x, rp : NextHop(x, rp)' = NextHop(x, rp) /\ ToLocal(x, rp)' = ToLocal(x, rp)
      /\ \A x, name : RPOf(x, name)' = RPOf(x, name)
  BY DEF Leading, Resolved, KnownAs, From, NextHop, ToLocal, RPOf
<1>7. \A q, n, type, name, rp, x : Step(q, n, type, name, rp, x)' = Step(q, n, type, name, rp, x)
  <2>1. \A n, type, name, rp, x : Sent(n, type, name, rp, x)' = Sent(n, type, name, rp, x)
    BY <1>6 DEF Sent
  <2>2. subTable' = subTable /\ net' = net
    OBVIOUS
  <2>3. ASSUME NEW n, NEW type, NEW name PROVE FromMake(n, type, name)' = FromMake(n, type, name)
    <3>1. Lookup(subTable[n], name)' = Lookup(subTable[n], name)
      BY <2>2
    <3>2. CASE type = "direct"
      BY <2>1, <3>1, <3>2, SMT DEF FromMake
    <3>3. CASE type # "direct"
      BY <1>6, <2>1, <3>3, SMT DEF FromMake
    <3> QED
      BY <3>2, <3>3
  <2>4. ASSUME NEW n, NEW name, NEW rp, NEW na
        PROVE  Spreading(n, name, na)' = Spreading(n, name, na) /\ Onward(n, name, rp)' = Onward(n, name, rp)
    <3>1. Lookup(subTable[n], name)' = Lookup(subTable[n], name)
      BY <2>2
    <3>2. Spreading(n, name, na)' = Spreading(n, name, na)
      BY <3>1, SMT DEF Spreading
    <3>3. NextHop(n, rp)' = NextHop(n, rp)
      BY <1>6
    <3>4. Onward(n, name, rp)' = Onward(n, name, rp)
      BY <3>3, SMT DEF Onward
    <3> QED
      BY <3>2, <3>4
  <2>5. ASSUME NEW n, NEW type, NEW name, NEW rp, NEW x
        PROVE  FromIn(n, type, name, rp, x)' = FromIn(n, type, name, rp, x)
    <3>1. KnownAs(n, x)' = KnownAs(n, x) /\ ToLocal(n, rp)' = ToLocal(n, rp) /\ net' = net
      BY <1>6, <2>2
    <3>2. Onward(n, name, rp)' = Onward(n, name, rp)
      BY <2>4
    <3>3. \A na : Spreading(n, name, na)' = Spreading(n, name, na)
      BY <2>4
    <3>4. UNION {Spreading(n, name, na) : na \in KnownAs(n, x)}' =
            UNION {Spreading(n, name, na) : na \in KnownAs(n, x)}
      BY <3>1, <3>3
    <3>5. CASE type = "publication"
      BY <3>4, <3>5, SMT DEF FromIn
    <3>6. CASE type = "interest"
      BY <3>1, <3>2, <3>3, <3>6, SMT DEF FromIn
    <3>7. CASE type # "publication" /\ type # "interest"
      BY <3>7, SMT DEF FromIn
    <3> QED
      BY <3>5, <3>6, <3>7
  <2> QED
    <3>1. SUFFICES ASSUME NEW q, NEW n, NEW type, NEW name, NEW rp, NEW x
                   PROVE  Step(q, n, type, name, rp, x)' = Step(q, n, type, name, rp, x)
      OBVIOUS
    <3>2. Sent(n, type, name, rp, x)' = Sent(n, type, name, rp, x)
      BY <2>1
    <3>3. FromMake(n, type, name)' = FromMake(n, type, name)
      BY <2>3
    <3>4. FromIn(n, type, name, rp, x)' = FromIn(n, type, name, rp, x)
      BY <2>5
    <3> QED
      BY <3>2, <3>3, <3>4, Zenon DEF Step
<1>8. Road' = Road
  BY <1>5, <1>7 DEF Road
<1> QED
  BY <1>1, <1>2, <1>3, <1>4, <1>5, <1>8

LEMMA SubscriptionsSame ==
  ASSUME UNCHANGED tables
  PROVE  Subscriptions' = Subscriptions
BY DEF tables, Subscriptions, Leading, Resolved

LEMMA StaticSame ==
  ASSUME Static, UNCHANGED tables
  PROVE  Static'
<1> USE DEF tables
<1>1. /\ \A x, na, n : Leading(x, na, n)' = Leading(x, na, n)
      /\ \A n, x : KnownAs(n, x)' = KnownAs(n, x) /\ Hears(n, x)' = Hears(n, x)
      /\ \A x, rp : NextHop(x, rp)' = NextHop(x, rp) /\ ToLocal(x, rp)' = ToLocal(x, rp)
      /\ \A x, name : RPOf(x, name)' = RPOf(x, name)
  BY DEF Leading, Resolved, KnownAs, Hears, From, NextHop, ToLocal, RPOf
<1>2. \A x, nas, n : Links(x, nas, n)' = Links(x, nas, n)
  BY <1>1 DEF Links
<1>3. \A rp : Ways(rp)' = Ways(rp)
  BY <1>1, <1>2 DEF Ways
<1>4. \A h, rp : InterestsLead(h, rp)' = InterestsLead(h, rp)
  BY <1>1, <1>2, <1>3 DEF InterestsLead
<1>5. \A input : Origins(input)' = Origins(input)
  BY <1>1, <1>3 DEF Origins
<1>6. \A name, root : Spread(name, root)' = Spread(name, root)
  BY <1>1, <1>2 DEF Spread
<1>7. \A name, root : TreeGrows(name, root) => TreeGrows(name, root)'
  <2>1. subTable' = subTable
    OBVIOUS
  <2>2. \A name, root : Reached(name, root)' = Reached(name, root)
    BY <1>6, Zenon DEF Reached
  <2>3. \A x, name, n : Links(x, Lookup(subTable[x], name), n)' = Links(x, Lookup(subTable[x], name), n)
    BY <1>2, <2>1
  <2>4. SUFFICES ASSUME NEW name, NEW root, TreeGrows(name, root) PROVE TreeGrows(name, root)'
    OBVIOUS
  <2>5. Spread(name, root)' = Spread(name, root) /\ Reached(name, root)' = Reached(name, root)
    BY <1>6, <2>2
  <2>6. /\ \A x, n : Links(x, Lookup(subTable[x], name), n)' = Links(x, Lookup(subTable[x], name), n)
        /\ \A x, n : KnownAs(n, x)' = KnownAs(n, x)
    BY <1>1, <2>3
  <2>8. ASSUME NEW x \in Reached(name, root) \cap DOMAIN Spread(name, root)
        PROVE  /\ \A n \in Nodes : \A a, b \in Links(x, Lookup(subTable[x], name), n)' : a = b
               /\ \A n \in Spread(name, root)[x] :
                    /\ ~({x, n} \subseteq Descendants(WithoutLink(Spread(name, root), x, n), root))
                    /\ x \in ChildrenIn(Spread(name, root), n) =>
                         \A a \in Links(n, Lookup(subTable[n], name), x)' : a[1] \in KnownAs(n, x)'
    BY <2>4, <2>6, SMT DEF TreeGrows
  <2> DEFINE Good(x, spread) ==
               /\ \A n \in Nodes : \A a, b \in Links(x, Lookup(subTable[x], name), n)' : a = b
               /\ \A n \in spread[x] :
                    /\ ~({x, n} \subseteq Descendants(WithoutLink(spread, x, n), root))
                    /\ x \in ChildrenIn(spread, n) =>
                         \A a \in Links(n, Lookup(subTable[n], name), x)' : a[1] \in KnownAs(n, x)'
  <2>9. \A x \in Reached(name, root)' \cap DOMAIN Spread(name, root)' : Good(x, Spread(name, root)')
    BY <2>5, <2>8
  <2> QED
    BY <2>9, SMT DEF TreeGrows
<1>8. \A input : Subscribers(input)' = Subscribers(input)
  <2>1. Subscriptions' = Subscriptions
    BY SubscriptionsSame DEF tables
  <2> QED
    BY <2>1, Zenon DEF Subscribers, Excluded
<1>9. \A name, root : Reached(name, root)' = Reached(name, root)
  BY <1>6 DEF Reached
<1>10. Consistent'
  BY <1>1, <1>4, <1>5, <1>7, <1>8, <1>9 DEF Static, Consistent
<1> QED
  BY <1>10 DEF Static

LEMMA StartsTrees ==
  ASSUME Static, NEW w \in Seq(net.inputs)
  PROVE  Trees(Road, [i \in 1..Len(w) |-> Start(w[i])])
<1>1. \A i \in 1..Len(w) : w[i] \in net.inputs
  BY ElementOfSeq
<1> QED
  BY <1>1, RoadTree DEF Trees

(* What is held by a holder is what one of the variables has there.        *)
LEMMA HeldIs ==
  ASSUME NEW ins, NEW arps, NEW gots, NEW made, NEW c \in Holders
  PROVE  LET held == Held(ins, arps, gots, made)
         IN  \/ \E r \in Routers : held[c] = ins[r] /\ Items(c) = Frame(r)
             \/ \E r \in Routers : held[c] = arps[r] /\ Items(c) = Packets
             \/ \E h \in Hosts : held[c] = gots[h] /\ Items(c) = 1..MaxInputs
             \/ held[c] = made /\ Items(c) = Made
<1> DEFINE held == Held(ins, arps, gots, made)
<1>1. /\ \A r \in Routers : held[<<"in", r>>] = ins[r]
      /\ \A r \in Routers : held[<<"arp", r>>] = arps[r]
      /\ \A h \in Hosts : held[<<"got", h>>] = gots[h]
      /\ held[Maker] = made
  BY HeldAt
<1> SUFFICES \/ \E r \in Routers : held[c] = ins[r] /\ Items(c) = Frame(r)
             \/ \E r \in Routers : held[c] = arps[r] /\ Items(c) = Packets
             \/ \E h \in Hosts : held[c] = gots[h] /\ Items(c) = 1..MaxInputs
             \/ held[c] = made /\ Items(c) = Made
  OBVIOUS
<1> HIDE DEF held
<1>2. CASE \E r \in Routers : c = <<"in", r>>
  <2>1. PICK r \in Routers : c = <<"in", r>>
    BY <1>2
  <2>2. held[c] = ins[r]
    BY <1>1, <2>1
  <2>3. Items(c) = Frame(r)
    BY <2>1, ItemsAre
  <2> QED
    BY <2>2, <2>3
<1>3. CASE \E r \in Routers : c = <<"arp", r>>
  <2>1. PICK r \in Routers : c = <<"arp", r>>
    BY <1>3
  <2>2. held[c] = arps[r]
    BY <1>1, <2>1
  <2>3. Items(c) = Packets
    BY <2>1, ItemsAre
  <2> QED
    BY <2>2, <2>3
<1>4. CASE \E h \in Hosts : c = <<"got", h>>
  <2>1. PICK h \in Hosts : c = <<"got", h>>
    BY <1>4
  <2>2. held[c] = gots[h]
    BY <1>1, <2>1
  <2>3. Items(c) = 1..MaxInputs
    BY <2>1, ItemsAre
  <2> QED
    BY <2>2, <2>3
<1>5. CASE c = Maker
  BY <1>1, <1>5, ItemsAre
<1> QED
  BY <1>2, <1>3, <1>4, <1>5, HolderKinds

LEMMA HeldTyped ==
  ASSUME NEW ins, NEW arps, NEW gots, NEW made
  PROVE  /\ \A r \in Routers : ins[r] \in Seq(Frame(r))
         /\ \A r \in Routers : arps[r] \in Seq(Packets)
         /\ \A h \in Hosts : gots[h] \in Seq(1..MaxInputs)
         /\ made \in Seq(Made)
         => Typed(Held(ins, arps, gots, made))
<1> DEFINE held == Held(ins, arps, gots, made)
<1>1. ASSUME NEW c \in Holders
      PROVE  \/ \E r \in Routers : held[c] = ins[r] /\ Items(c) = Frame(r)
             \/ \E r \in Routers : held[c] = arps[r] /\ Items(c) = Packets
             \/ \E h \in Hosts : held[c] = gots[h] /\ Items(c) = 1..MaxInputs
             \/ held[c] = made /\ Items(c) = Made
  BY HeldIs
<1> HIDE DEF held
<1>2. ASSUME \A r \in Routers : ins[r] \in Seq(Frame(r)), \A r \in Routers : arps[r] \in Seq(Packets),
             \A h \in Hosts : gots[h] \in Seq(1..MaxInputs), made \in Seq(Made), NEW c \in Holders
      PROVE  held[c] \in Seq(Items(c))
  BY <1>1, <1>2
<1> QED
  BY <1>2 DEF Typed, held

LEMMA NowTyped ==
  ASSUME TypeOK
  PROVE  /\ \A r \in Routers : inQueue[r] \in Seq(Frame(r)) /\ arpQueue[r] \in Seq(Packets)
         /\ \A h \in Hosts : received[h] \in Seq(1..MaxInputs)
         /\ overflowed \in BOOLEAN /\ produced \in Seq(net.inputs)
         /\ \A made \in Seq(Made) : Typed(Held(inQueue, arpQueue, received, made))
         /\ Typed(Now)
<1>1. /\ \A r \in Routers : inQueue[r] \in Seq(Frame(r)) /\ arpQueue[r] \in Seq(Packets)
      /\ \A h \in Hosts : received[h] \in Seq(1..MaxInputs)
      /\ overflowed \in BOOLEAN /\ produced \in Seq(net.inputs)
  BY DEF TypeOK, Frame, Packets
<1>2. <<>> \in Seq(Made)
  BY EmptySeq
<1> QED
  BY <1>1, <1>2, HeldTyped DEF Now

-----------------------------------------------------------------------------
(* The steps keep it.                                                      *)

(* Wherever a packet is, it is lawful there.                               *)
LEMMA TokenLawful ==
  ASSUME IInv, NEW x \in PlacesOf(Cont(Now))
  PROVE  LET id == TokenAt(Cont(Now), x)[1]
         IN  /\ id \in 1..Len(produced) /\ produced[id] \in net.inputs
             /\ TokenAt(Cont(Now), x)[2] \in LawfulStations(produced[id])
<1> DEFINE id == TokenAt(Cont(Now), x)[1]
           s == TokenAt(Cont(Now), x)[2]
<1>1. id \in DOMAIN Starts /\ s \in Descendants(Road, Starts[id])
  BY DEF IInv, TokensOK, Placed, IdsOf, NodesOf
<1>2. id \in 1..Len(produced) /\ Starts[id] = Start(produced[id])
  BY <1>1 DEF Starts
<1>3. produced[id] \in net.inputs
  BY <1>2, ElementOfSeq DEF IInv, TypeOK
<1> HIDE DEF id, s
<1>4. s \in LawfulStations(produced[id])
  BY <1>1, <1>2, <1>3, AllLawful DEF IInv
<1> QED
  BY <1>2, <1>3, <1>4 DEF id, s

LEMMA FirstLawful ==
  ASSUME IInv, NEW c \in Holders, Now[c] # <<>>
  PROVE  LET token == Token(c, Now[c][1])
         IN  /\ Now[c][1] \in Items(c)
             /\ token[1] \in 1..Len(produced) /\ produced[token[1]] \in net.inputs
             /\ token[2] \in LawfulStations(produced[token[1]])
<1> DEFINE x == <<c, 1>>
<1>1. Static /\ Typed(Now) /\ Now[c] \in Seq(Items(c))
  BY NowTyped DEF IInv, Typed
<1>2. Len(Now[c]) \in Nat \ {0} /\ 1 \in 1..Len(Now[c])
  BY <1>1, EmptySeq, LenProperties
<1>3. /\ Cont(Now)[c] = Tokens(c, Now[c]) /\ Len(Tokens(c, Now[c])) = Len(Now[c])
      /\ Tokens(c, Now[c])[1] = Token(c, Now[c][1]) /\ Now[c][1] \in Items(c)
  BY <1>1, <1>2, ContHolds, TokensAre
<1>4. x \in PlacesOf(Cont(Now)) /\ TokenAt(Cont(Now), x) = Token(c, Now[c][1])
  <2>1. DOMAIN Cont(Now) = Holders
    BY DEF Cont
  <2> QED
    BY <1>2, <1>3, <2>1 DEF PlacesOf, TokenAt
<1> HIDE DEF x
<1> QED
  BY <1>3, <1>4, TokenLawful

LEMMA StepKeeps ==
  ASSUME IInv, UNCHANGED tables, UNCHANGED produced,
         DOMAIN inQueue' = Routers, DOMAIN arpQueue' = Routers,
         \A r \in Routers : inQueue'[r] \in Seq(Frame(r)) /\ arpQueue'[r] \in Seq(Packets),
         \A r \in Routers : Len(inQueue'[r]) <= net.capacity /\ Len(arpQueue'[r]) <= net.capacity,
         received' \in [Hosts -> Seq(1..MaxInputs)], overflowed' \in BOOLEAN,
         NEW pushed, Typed(pushed), NEW t \in Holders, Now[t] # <<>>, Steps(Now, pushed, Now', t, 1),
         \A c \in Holders : Follow(Token(t, Now[t][1]), Tokens(c, pushed[c]))
  PROVE  IInv'
<1>1. Static /\ Typed(Now) /\ produced \in Seq(net.inputs) /\ TokensOK(Cont(Now), Road, Starts, {})
  BY NowTyped DEF IInv
<1>2. /\ net' = net /\ Messages' = Messages /\ NextHops' = NextHops /\ Road' = Road
      /\ \A r \in Routers : Frame(r)' = Frame(r)
      /\ Packets' = Packets
  BY TablesSame
<1>3. Static'
  BY <1>1, StaticSame
<1>4. TypeOK'
  <2>1. net' \in Networks /\ produced' \in Seq(net'.inputs)
    BY <1>1, <1>2 DEF Static
  <2>2. \A r \in Routers : inQueue'[r] \in Seq(Frame(r)') /\ arpQueue'[r] \in Seq(Packets')
    BY <1>2
  <2>3. \A r \in Routers : Len(inQueue'[r]) <= net'.capacity /\ Len(arpQueue'[r]) <= net'.capacity
    BY <1>2
  <2> QED
    BY <2>1, <2>2, <2>3 DEF TypeOK, Frame, Packets
<1>5. Typed(Now')
  <2>1. \A h \in Hosts : received'[h] \in Seq(1..MaxInputs)
    OBVIOUS
  <2>2. <<>> \in Seq(Made)
    BY EmptySeq
  <2> QED
    BY <2>1, <2>2, HeldTyped DEF Now
<1>6. Trees(Road, Starts)
  BY <1>1, StartsTrees DEF Starts
<1>7. TokensOK(Cont(Now'), Road, Starts, {})
  BY <1>1, <1>5, <1>6, TokensMove
<1>8. Cont(Now)' = Cont(Now') /\ Starts' = Starts
  BY DEF Cont, Tokens, Token, At, Starts, Start
<1> QED
  BY <1>2, <1>3, <1>4, <1>7, <1>8 DEF IInv

(* What a step does to the variables it does to the holders.               *)
LEMMA StepsAre ==
  ASSUME NEW ins, NEW arps, NEW gots, NEW made, NEW ins2, NEW arps2, NEW gots2, NEW made2,
         NEW pushed, NEW t, NEW n,
         \A r \in Routers : Shift(ins[r], pushed[<<"in", r>>], ins2[r], Dropped(<<"in", r>>, t, n)),
         \A r \in Routers : Shift(arps[r], pushed[<<"arp", r>>], arps2[r], Dropped(<<"arp", r>>, t, n)),
         \A h \in Hosts : Shift(gots[h], pushed[<<"got", h>>], gots2[h], Dropped(<<"got", h>>, t, n)),
         Shift(made, pushed[Maker], made2, Dropped(Maker, t, n))
  PROVE  Steps(Held(ins, arps, gots, made), pushed, Held(ins2, arps2, gots2, made2), t, n)
<1> DEFINE held == Held(ins, arps, gots, made)
           new == Held(ins2, arps2, gots2, made2)
<1>1. /\ \A r \in Routers : held[<<"in", r>>] = ins[r] /\ new[<<"in", r>>] = ins2[r]
      /\ \A r \in Routers : held[<<"arp", r>>] = arps[r] /\ new[<<"arp", r>>] = arps2[r]
      /\ \A h \in Hosts : held[<<"got", h>>] = gots[h] /\ new[<<"got", h>>] = gots2[h]
      /\ held[Maker] = made /\ new[Maker] = made2
  BY HeldAt
<1> SUFFICES ASSUME NEW c \in Holders PROVE Shift(held[c], pushed[c], new[c], Dropped(c, t, n))
  BY DEF Steps
<1> HIDE DEF held, new
<1>2. CASE \E r \in Routers : c = <<"in", r>>
  BY <1>1, <1>2
<1>3. CASE \E r \in Routers : c = <<"arp", r>>
  BY <1>1, <1>3
<1>4. CASE \E h \in Hosts : c = <<"got", h>>
  BY <1>1, <1>4
<1>5. CASE c = Maker
  BY <1>1, <1>5
<1> QED
  BY <1>2, <1>3, <1>4, <1>5, HolderKinds

(* One packet goes out.                                                    *)
LEMMA FannedOne ==
  ASSUME NEW x, NEW p, NEW nas, p.nextHop \in nas,
         \A n \in Nodes : \A a \in Links(x, nas, n), b \in Links(x, nas, n) : a = b
  PROVE  Fanned(x, <<p>>, {p.nextHop})
<1>1. \A n : Links(x, {p.nextHop}, n) \subseteq Links(x, nas, n)
  BY DEF Links
<1>2. \A n \in Nodes : \A a \in Links(x, {p.nextHop}, n), b \in Links(x, {p.nextHop}, n) : a = b
  BY <1>1
<1> QED
  BY <1>2 DEF Fanned

(* The next hop of a packet is one of those the tables name, of which one  *)
(* leads to each node.                                                     *)
LEMMA ArpFanned ==
  ASSUME Static, NEW input \in net.inputs, NEW r, NEW type, NEW name, NEW rp, NEW p,
         <<"arp", r, type, name, rp, p.nextHop>> \in LawfulStations(input)
  PROVE  Fanned(r, <<p>>, {p.nextHop})
<1> DEFINE na == p.nextHop
<1>1. /\ r \in Routers
      /\ \/ /\ input.kind = "interest" /\ rp \in RPOf(input.from, input.name)
            /\ r \in Descendants(Ways(rp), input.from) /\ na \in NextHop(r, rp)
         \/ /\ input.kind # "subscription"
            /\ \E root \in Origins(input) : Goes(input, root, r, na)
  BY ArpLawful
<1>2. CASE /\ input.kind = "interest" /\ rp \in RPOf(input.from, input.name)
           /\ r \in Descendants(Ways(rp), input.from) /\ na \in NextHop(r, rp)
  <2>1. \A n \in Nodes : \A a \in Links(r, NextHop(r, rp), n), b \in Links(r, NextHop(r, rp), n) : a = b
    BY <1>2, WaysLead
  <2> QED
    BY <1>2, <2>1, FannedOne
<1>3. CASE input.kind # "subscription" /\ \E root \in Origins(input) : Goes(input, root, r, na)
  <2>1. PICK root \in Origins(input) : Goes(input, root, r, na)
    BY <1>3
  <2>2. na \in Lookup(subTable[r], input.name)
    BY <2>1 DEF Goes
  <2>3. ASSUME NEW n \in Nodes, NEW a \in Links(r, {na}, n), NEW b \in Links(r, {na}, n) PROVE a = b
    <3>1. Leading(r, na, n) # {}
      BY <2>3, LinksAre
    <3>2. r \in Senders(input.name, root)
      BY <1>3, <2>1, <3>1, GoesOn DEF Comes
    <3>3. a \in Copied(input.name, r, n) /\ b \in Copied(input.name, r, n)
      BY <2>2, <2>3 DEF Copied, Links
    <3> QED
      BY <1>3, <3>2, <3>3, SpreadTree
  <2> QED
    BY <2>3, FannedOne
<1> QED
  BY <1>1, <1>2, <1>3

(* The first packet of the second queue is lawful.                         *)
LEMMA FirstSent ==
  ASSUME IInv, NEW r \in Routers, arpQueue[r] # <<>>
  PROVE  LET p == Head(arpQueue[r])
             m == p.message
             s == <<"arp", r, m.type, m.name, m.rp, p.nextHop>>
         IN  /\ p \in Packets /\ <<p>> \in Seq(Packets)
             /\ Token(<<"arp", r>>, Now[<<"arp", r>>][1]) = <<m.id, s>>
             /\ m.id \in 1..Len(produced) /\ produced[m.id] \in net.inputs
             /\ s \in LawfulStations(produced[m.id])
             /\ Fanned(r, <<p>>, {p.nextHop}) /\ Carry(r, <<p>>, m.id, s)
<1> DEFINE p == Head(arpQueue[r])
           m == p.message
           t == <<"arp", r>>
           s == <<"arp", r, m.type, m.name, m.rp, p.nextHop>>
<1>1. Static
  BY DEF IInv
<1>2. p = arpQueue[r][1] /\ t \in Holders
  <2>1. p = arpQueue[r][1]
    OBVIOUS
  <2> HIDE DEF p
  <2> QED
    BY <2>1, HolderKinds
<1>3. Now[t] = arpQueue[r]
  BY HeldAt DEF Now
<1> HIDE DEF p
<1>4. Token(t, Now[t][1]) = <<m.id, s>>
  <2>1. Token(t, p) = At("arp", r, p.message, p.nextHop)
    BY TokenIs
  <2> QED
    BY <1>2, <1>3, <2>1 DEF At
<1>5. /\ p \in Packets /\ m.id \in 1..Len(produced) /\ produced[m.id] \in net.inputs
      /\ s \in LawfulStations(produced[m.id])
  <2>1. LET token == Token(t, Now[t][1])
        IN  /\ Now[t][1] \in Items(t)
            /\ token[1] \in 1..Len(produced) /\ produced[token[1]] \in net.inputs
            /\ token[2] \in LawfulStations(produced[token[1]])
    BY <1>2, <1>3, FirstLawful
  <2>2. Items(t) = Packets
    BY ItemsAre
  <2> HIDE DEF s, m, t
  <2> QED
    BY <1>2, <1>3, <1>4, <2>1, <2>2
<1>6. Fanned(r, <<p>>, {p.nextHop})
  BY <1>1, <1>5, ArpFanned
<1>7. Carry(r, <<p>>, m.id, s)
  <2>1. s \in Stations
    BY <1>5 DEF LawfulStations
  <2>2. ChildrenIn(Road, s) = Sent(r, m.type, m.name, m.rp, p.nextHop)
    BY <2>1, ChildrenAre DEF Step
  <2> HIDE DEF s
  <2> QED
    BY <2>2 DEF Carry
<1>8. <<p>> \in Seq(Packets)
  BY <1>5
<1> HIDE DEF s, t
<1> QED
  BY <1>4, <1>5, <1>6, <1>7, <1>8 DEF p, s, t

LEMMA SendStep ==
  ASSUME IInv, NEW r \in Routers, Send(r)
  PROVE  IInv'
<1> DEFINE p == Head(arpQueue[r])
           m == p.message
           t == <<"arp", r>>
           s == <<"arp", r, m.type, m.name, m.rp, p.nextHop>>
           pushed == Brought(r, <<p>>)
<1>1. /\ arpQueue[r] # <<>> /\ arpQueue' = [arpQueue EXCEPT ![r] = Tail(@)]
      /\ Transmit(r, <<p>>)
      /\ UNCHANGED tables /\ UNCHANGED produced
  BY DEF Send
<1>2. /\ Static /\ TypeOK /\ overflowed \in BOOLEAN
      /\ \A x \in Routers : inQueue[x] \in Seq(Frame(x)) /\ arpQueue[x] \in Seq(Packets)
      /\ \A h \in Hosts : received[h] \in Seq(1..MaxInputs)
  BY NowTyped DEF IInv
<1>3. r \in Nodes /\ t \in Holders
  BY HolderKinds DEF Nodes
<1>4. Now[t] = arpQueue[r]
  BY HeldAt DEF Now
<1>5. Token(t, Now[t][1]) = <<m.id, s>>
  BY <1>1, FirstSent
<1>6. Fanned(r, <<p>>, {p.nextHop}) /\ Carry(r, <<p>>, m.id, s) /\ <<p>> \in Seq(Packets)
  BY <1>1, FirstSent
<1> HIDE DEF p, s, m
<1>10. Typed(pushed) /\ \A c \in Holders : Follow(<<m.id, s>>, Tokens(c, pushed[c]))
  BY <1>2, <1>3, <1>6, BroughtFollows
<1>11. /\ \A x \in Routers :
             /\ inQueue'[x] \in Seq(Frame(x)) /\ Len(inQueue'[x]) <= net.capacity
             /\ Shift(inQueue[x], pushed[<<"in", x>>], inQueue'[x], 0)
       /\ \A h \in Hosts : Shift(received[h], pushed[<<"got", h>>], received'[h], 0)
       /\ received' \in [Hosts -> Seq(1..MaxInputs)] /\ overflowed' \in BOOLEAN
  BY <1>1, <1>2, <1>10, TransmitSteps
<1>12. /\ \A x \in Routers : pushed[<<"arp", x>>] = <<>>
       /\ pushed[Maker] = <<>>
  BY BroughtAt
<1> HIDE DEF pushed
<1>13. ASSUME NEW x \in Routers
       PROVE  /\ arpQueue'[x] \in Seq(Packets) /\ Len(arpQueue'[x]) <= net.capacity
              /\ Shift(arpQueue[x], <<>>, arpQueue'[x], IF x = r THEN 1 ELSE 0)
  <2>1. arpQueue[x] \in Seq(Packets) /\ Len(arpQueue[x]) <= net.capacity /\ net.capacity \in Nat
    BY <1>2, NetworkKnown DEF TypeOK
  <2>2. CASE x = r
    <3>1. DOMAIN arpQueue = Routers
      BY <1>2 DEF TypeOK
    <3>2. arpQueue'[x] = Tail(arpQueue[x])
      BY <1>1, <2>2, <3>1
    <3>3. Len(Tail(arpQueue[x])) <= net.capacity
      BY <1>1, <2>1, <2>2, EmptySeq, LenProperties, HeadTailProperties
    <3> QED
      BY <1>1, <2>1, <2>2, <3>2, <3>3, TailShift
  <2>3. CASE x # r
    <3>1. arpQueue'[x] = arpQueue[x]
      BY <1>1, <2>3
    <3> QED
      BY <2>1, <2>3, <3>1, NothingShift
  <2> QED
    BY <2>2, <2>3
<1>14. Steps(Now, pushed, Now', t, 1)
  <2>1. ASSUME NEW x PROVE Dropped(<<"in", x>>, t, 1) = 0 /\ Dropped(<<"got", x>>, t, 1) = 0
    BY DEF Dropped
  <2>2. ASSUME NEW x PROVE Dropped(<<"arp", x>>, t, 1) = IF x = r THEN 1 ELSE 0
    BY DEF Dropped
  <2>3. Dropped(Maker, t, 1) = 0
    BY DEF Dropped, Maker
  <2> HIDE DEF t
  <2>4. ASSUME NEW x \in Routers
        PROVE  Shift(inQueue[x], pushed[<<"in", x>>], inQueue'[x], Dropped(<<"in", x>>, t, 1))
    <3>1. Shift(inQueue[x], pushed[<<"in", x>>], inQueue'[x], 0)
      BY <1>11
    <3> QED
      BY <2>1, <3>1
  <2>5. ASSUME NEW x \in Routers
        PROVE  Shift(arpQueue[x], pushed[<<"arp", x>>], arpQueue'[x], Dropped(<<"arp", x>>, t, 1))
    <3>1. Shift(arpQueue[x], <<>>, arpQueue'[x], IF x = r THEN 1 ELSE 0)
      BY <1>13
    <3>2. pushed[<<"arp", x>>] = <<>>
      BY <1>12
    <3> QED
      BY <2>2, <3>1, <3>2
  <2>6. ASSUME NEW h \in Hosts
        PROVE  Shift(received[h], pushed[<<"got", h>>], received'[h], Dropped(<<"got", h>>, t, 1))
    <3>1. Shift(received[h], pushed[<<"got", h>>], received'[h], 0)
      BY <1>11
    <3> QED
      BY <2>1, <3>1
  <2>7. Shift(<<>>, pushed[Maker], <<>>, Dropped(Maker, t, 1))
    <3>1. <<>> \in Seq(Made)
      BY EmptySeq
    <3> QED
      BY <1>12, <2>3, <3>1, NothingShift
  <2> QED
    BY <2>4, <2>5, <2>6, <2>7, StepsAre DEF Now
<1> QED
  <2>1. DOMAIN inQueue' = Routers /\ DOMAIN arpQueue' = Routers
    BY <1>1, <1>2 DEF TypeOK, Transmit
  <2>2. UNCHANGED tables /\ UNCHANGED produced
    BY <1>1
  <2>3. \A x \in Routers : inQueue'[x] \in Seq(Frame(x)) /\ arpQueue'[x] \in Seq(Packets)
    BY <1>11, <1>13
  <2>4. \A x \in Routers : Len(inQueue'[x]) <= net.capacity /\ Len(arpQueue'[x]) <= net.capacity
    BY <1>11, <1>13
  <2>5. \A c \in Holders : Follow(Token(t, Now[t][1]), Tokens(c, pushed[c]))
    BY <1>5, <1>10
  <2>6. t \in Holders /\ Now[t] # <<>>
    BY <1>1, <1>3, <1>4
  <2> HIDE DEF t
  <2> QED
    BY <1>10, <1>11, <1>14, <2>1, <2>2, <2>3, <2>4, <2>5, <2>6, StepKeeps

-----------------------------------------------------------------------------
(* The first task makes packets for the second queue.                      *)

(* Copies go to different next hops, and follow the message they are of.   *)
LEMMA CopiesAre ==
  ASSUME Static, NEW x \in Nodes, NEW m \in Messages, NEW prevHop, NEW ps \in Copies(x, m, prevHop)
  PROVE  /\ ps \in Seq(Packets)
         /\ \A i \in 1..Len(ps) :
              ps[i].message = m /\ ps[i].nextHop \in Lookup(subTable[x], m.name) \ {prevHop}
         /\ \A i \in 1..Len(ps), j \in 1..Len(ps) : ps[i].nextHop = ps[j].nextHop => i = j
<1> DEFINE S == Lookup(subTable[x], m.name) \ {prevHop}
<1>1. Cardinality(S) \in Nat
  <2>1. IsFiniteSet(Lookup(subTable[x], m.name))
    BY DEF Static
  <2>2. IsFiniteSet(S)
    BY <2>1, FS_Subset
  <2> QED
    BY <2>2, FS_CardinalityType
<1>2. S \subseteq NextHops
  BY MessagesAre, NextHopsAre
<1>3. PICK w \in SetToSeqs(S) : ps = [i \in DOMAIN w |-> [message |-> m, nextHop |-> w[i]]]
  BY DEF Copies
<1> HIDE DEF S
<1>4. /\ w \in [1..Cardinality(S) -> S]
      /\ \A i \in 1..Cardinality(S), j \in 1..Cardinality(S) : w[i] = w[j] => i = j
  BY DEF SetToSeqs
<1>5. DOMAIN w = 1..Cardinality(S)
  BY <1>4
<1>6. Len(ps) = Cardinality(S) /\ \A i \in 1..Cardinality(S) : ps[i] = [message |-> m, nextHop |-> w[i]]
  BY <1>1, <1>3, <1>5
<1>7. \A i \in 1..Cardinality(S) : ps[i] \in Packets /\ ps[i].message = m /\ ps[i].nextHop = w[i] /\ w[i] \in S
  BY <1>2, <1>4, <1>6 DEF Packets
<1>8. ps \in Seq(Packets)
  <2>1. ps = [i \in 1..Cardinality(S) |-> ps[i]]
    BY <1>3, <1>5
  <2> QED
    BY <1>1, <1>7, <2>1
<1>9. \A i \in 1..Len(ps) :
        ps[i].message = m /\ ps[i].nextHop \in Lookup(subTable[x], m.name) \ {prevHop}
  BY <1>6, <1>7 DEF S
<1>10. \A i \in 1..Len(ps), j \in 1..Len(ps) : ps[i].nextHop = ps[j].nextHop => i = j
  <2> SUFFICES ASSUME NEW i \in 1..Len(ps), NEW j \in 1..Len(ps), ps[i].nextHop = ps[j].nextHop
               PROVE  i = j
    OBVIOUS
  <2>1. w[i] = w[j]
    BY <1>6, <1>7
  <2> QED
    BY <1>4, <1>6, <2>1
<1> QED
  BY <1>8, <1>9, <1>10

LEMMA CopiesFollow ==
  ASSUME Static, NEW r \in Routers, NEW m \in Messages, m.type = "publication",
         NEW prevHop, NEW ps \in Copies(r, m, prevHop), NEW s,
         Spreading(r, m.name, prevHop) \subseteq ChildrenIn(Road, s)
  PROVE  ps \in Seq(Packets) /\ Follow(<<m.id, s>>, Tokens(<<"arp", r>>, ps))
<1> DEFINE k == Len(ps)
           tokens == Tokens(<<"arp", r>>, ps)
           st(na) == <<"arp", r, "publication", m.name, NoName, na>>
<1>1. /\ ps \in Seq(Packets)
      /\ \A i \in 1..k : ps[i].message = m /\ ps[i].nextHop \in Lookup(subTable[r], m.name) \ {prevHop}
      /\ \A i \in 1..k, j \in 1..k : ps[i].nextHop = ps[j].nextHop => i = j
  BY CopiesAre DEF Nodes
<1>2. m.rp = NoName
  BY MessagesAre
<1>3. ASSUME NEW i \in 1..k
      PROVE  /\ tokens[i] = <<m.id, st(ps[i].nextHop)>>
             /\ st(ps[i].nextHop) \in ChildrenIn(Road, s)
  <2>1. tokens[i] = Token(<<"arp", r>>, ps[i])
    BY DEF Tokens
  <2>2. Token(<<"arp", r>>, ps[i]) = At("arp", r, ps[i].message, ps[i].nextHop)
    BY TokenIs
  <2>3. ps[i].message = m /\ ps[i].nextHop \in Lookup(subTable[r], m.name) \ {prevHop}
    BY <1>1
  <2>4. st(ps[i].nextHop) \in Spreading(r, m.name, prevHop)
    BY <2>3 DEF Spreading
  <2>5. At("arp", r, ps[i].message, ps[i].nextHop) = <<m.id, st(ps[i].nextHop)>>
    BY <1>2, <2>3 DEF At
  <2> QED
    BY <2>1, <2>2, <2>4, <2>5
<1>4. Len(tokens) = k
  BY <1>1, LenProperties DEF Tokens
<1>5. \A a, b : st(a) = st(b) => a = b
  OBVIOUS
<1> HIDE DEF tokens, st
<1>6. Follow(<<m.id, s>>, tokens)
  BY <1>1, <1>3, <1>4, <1>5 DEF Follow
<1> QED
  BY <1>1, <1>6 DEF tokens

LEMMA ForwardedFollow ==
  ASSUME Static, NEW r \in Routers, NEW m \in Messages, m.type = "interest",
         NEW ps \in Forwarded(r, m, m.rp), NEW s, Onward(r, m.name, m.rp) \subseteq ChildrenIn(Road, s)
  PROVE  ps \in Seq(Packets) /\ Follow(<<m.id, s>>, Tokens(<<"arp", r>>, ps))
<1> DEFINE c == <<"arp", r>>
<1>1. PICK na \in NextHop(r, m.rp) : ps = <<[message |-> m, nextHop |-> na]>>
  BY DEF Forwarded
<1> DEFINE p == [message |-> m, nextHop |-> na]
<1>2. m.rp \in RPs
  BY MessagesAre
<1>3. na \in NextHops
  BY <1>1, <1>2, NextHopsAre DEF Nodes
<1>4. p \in Packets /\ p.message = m /\ p.nextHop = na
  BY <1>3 DEF Packets
<1> DEFINE st == <<"arp", r, "interest", m.name, m.rp, na>>
<1>5. st \in ChildrenIn(Road, s)
  BY <1>1 DEF Onward
<1> HIDE DEF p
<1>6. Token(c, p) = <<m.id, st>>
  <2>1. Token(c, p) = At("arp", r, p.message, p.nextHop)
    BY TokenIs
  <2> QED
    BY <1>4, <2>1 DEF At
<1> HIDE DEF st, c
<1>7. Token(c, p)[1] = <<m.id, s>>[1] /\ Token(c, p)[2] \in ChildrenIn(Road, <<m.id, s>>[2])
  BY <1>5, <1>6
<1>8. Follow(<<m.id, s>>, Tokens(c, <<p>>))
  BY <1>7, SingleFollows
<1> QED
  BY <1>1, <1>4, <1>8 DEF p, c

LEMMA HandledFollow ==
  ASSUME Static, NEW r \in Routers, NEW m \in Messages, NEW x, NEW na \in KnownAs(r, x),
         NEW ps \in Handled(r, m, na), NEW s,
         FromIn(r, m.type, m.name, m.rp, x) \subseteq ChildrenIn(Road, s)
  PROVE  ps \in Seq(Packets) /\ Follow(<<m.id, s>>, Tokens(<<"arp", r>>, ps))
<1>1. CASE m.type = "publication"
  <2>1. Spreading(r, m.name, na) \subseteq FromIn(r, m.type, m.name, m.rp, x)
    BY <1>1 DEF FromIn
  <2>2. ps \in Copies(r, m, na)
    BY <1>1 DEF Handled
  <2> QED
    BY <1>1, <2>1, <2>2, CopiesFollow
<1>2. CASE m.type = "interest" /\ ToLocal(r, m.rp) /\ r \in net.rps
  <2> DEFINE pub == PublicationMessage(m.id, m.name)
  <2>1. pub \in Messages /\ pub.id = m.id /\ pub.name = m.name /\ pub.type = "publication"
    BY MessagesAre DEF Messages, PublicationMessage
  <2>2. ps \in Copies(r, pub, EmptyNa)
    BY <1>2 DEF Handled, AtRP
  <2>3. Spreading(r, m.name, EmptyNa) \subseteq ChildrenIn(Road, s)
    BY <1>2 DEF FromIn
  <2> HIDE DEF pub
  <2>4. Spreading(r, pub.name, EmptyNa) \subseteq ChildrenIn(Road, s)
    BY <2>1, <2>3
  <2> QED
    BY <2>1, <2>2, <2>4, CopiesFollow
<1>3. CASE m.type = "interest" /\ ~(ToLocal(r, m.rp) /\ r \in net.rps)
  <2>1. Onward(r, m.name, m.rp) \subseteq ChildrenIn(Road, s)
    BY <1>3 DEF FromIn
  <2>2. ps \in Forwarded(r, m, m.rp)
    BY <1>3 DEF Handled
  <2> QED
    BY <1>3, <2>1, <2>2, ForwardedFollow
<1>4. m.type \in {"interest", "publication"}
  <2>1. m.type \in {"interest", "publication", "subscription"}
    BY MessagesAre
  <2> QED
    BY <2>1 DEF Handled
<1> QED
  BY <1>1, <1>2, <1>3, <1>4

LEMMA ReceiveStep ==
  ASSUME IInv, NEW r \in Routers, Receive(r)
  PROVE  IInv'
<1> DEFINE f == Head(inQueue[r])
           m == f.message
           x == f.from.ether
           t == <<"in", r>>
           c1 == <<"arp", r>>
           s == <<"in", r, m.type, m.name, m.rp, x>>
           handled == UNION {Handled(r, m, na) : na \in SenderNas(neighbours[r], f.from)}
<1>1. /\ inQueue[r] # <<>> /\ inQueue' = [inQueue EXCEPT ![r] = Tail(@)]
      /\ UNCHANGED tables /\ UNCHANGED produced /\ UNCHANGED received
  BY DEF Receive
<1>2. /\ Static /\ TypeOK /\ overflowed \in BOOLEAN
      /\ \A y \in Routers : inQueue[y] \in Seq(Frame(y)) /\ arpQueue[y] \in Seq(Packets)
      /\ \A h \in Hosts : received[h] \in Seq(1..MaxInputs)
  BY NowTyped DEF IInv
<1>3. PICK ps \in Outcomes(handled) :
        /\ arpQueue' = [[arpQueue EXCEPT ![r] = @ \o ps] EXCEPT ![r] = Fitting(@)]
        /\ overflowed' = (overflowed \/ Overflows([arpQueue EXCEPT ![r] = @ \o ps]))
  BY DEF Receive
<1>4. f = inQueue[r][1]
  OBVIOUS
<1>5. Now[t] = inQueue[r] /\ t \in Holders /\ c1 \in Holders
  BY HolderKinds, HeldAt DEF Now
<1> HIDE DEF f
<1>6. Token(t, Now[t][1]) = <<m.id, s>>
  <2>1. Token(t, f) = At("in", r, f.message, f.from.ether)
    BY TokenIs
  <2> QED
    BY <1>4, <1>5, <2>1 DEF At
<1>7. /\ f \in Frame(r) /\ m.id \in 1..Len(produced) /\ produced[m.id] \in net.inputs
      /\ s \in LawfulStations(produced[m.id])
  <2>1. LET token == Token(t, Now[t][1])
        IN  /\ Now[t][1] \in Items(t)
            /\ token[1] \in 1..Len(produced) /\ produced[token[1]] \in net.inputs
            /\ token[2] \in LawfulStations(produced[token[1]])
    BY <1>1, <1>5, FirstLawful
  <2>2. Items(t) = Frame(r)
    BY ItemsAre
  <2> HIDE DEF s, m, t
  <2> QED
    BY <1>4, <1>5, <1>6, <2>1, <2>2
<1>8. m \in Messages /\ SenderNas(neighbours[r], f.from) = KnownAs(r, x)
  <2>1. m \in Messages /\ \E y \in LinkedIn(net, r) : f.from = From(r, y)
    BY <1>7 DEF Frame
  <2>2. PICK y \in LinkedIn(net, r) : f.from = From(r, y)
    BY <2>1
  <2>3. From(r, y).ether = y
    BY DEF From
  <2>4. x = y
    BY <2>2, <2>3
  <2> HIDE DEF x
  <2> QED
    BY <2>1, <2>2, <2>4 DEF KnownAs
<1>9. ChildrenIn(Road, s) = FromIn(r, m.type, m.name, m.rp, x)
  <2>1. s \in Stations
    BY <1>7 DEF LawfulStations
  <2> QED
    BY <2>1, ChildrenAre DEF Step
<1> HIDE DEF s, m, x
<1>10. ps \in Seq(Packets) /\ Follow(<<m.id, s>>, Tokens(c1, ps))
  <2>1. CASE handled = {}
    <3>1. ps = <<>>
      BY <1>3, <2>1 DEF Outcomes
    <3> QED
      BY <3>1, EmptySeq, NothingFollows
  <2>2. CASE handled # {}
    <3>1. ps \in handled
      BY <1>3, <2>2 DEF Outcomes
    <3>2. PICK na \in KnownAs(r, x) : ps \in Handled(r, m, na)
      BY <1>8, <3>1
    <3>3. FromIn(r, m.type, m.name, m.rp, x) \subseteq ChildrenIn(Road, s)
      BY <1>9
    <3> QED
      BY <1>2, <1>8, <3>2, <3>3, HandledFollow
  <2> QED
    BY <2>1, <2>2
<1> DEFINE ins == [y \in Routers |-> <<>>]
           arps == [y \in Routers |-> IF y = r THEN ps ELSE <<>>]
           gots == [h \in Hosts |-> <<>>]
           pushed == Held(ins, arps, gots, <<>>)
<1>11. /\ \A y \in Routers : pushed[<<"in", y>>] = <<>>
       /\ \A y \in Routers : pushed[<<"arp", y>>] = IF y = r THEN ps ELSE <<>>
       /\ \A h \in Hosts : pushed[<<"got", h>>] = <<>>
       /\ pushed[Maker] = <<>>
  <2>0. /\ \A y \in Routers : ins[y] = <<>> /\ arps[y] = IF y = r THEN ps ELSE <<>>
        /\ \A h \in Hosts : gots[h] = <<>>
    OBVIOUS
  <2> HIDE DEF ins, arps, gots
  <2>1. /\ \A y \in Routers : pushed[<<"in", y>>] = ins[y]
        /\ \A y \in Routers : pushed[<<"arp", y>>] = arps[y]
        /\ \A h \in Hosts : pushed[<<"got", h>>] = gots[h]
        /\ pushed[Maker] = <<>>
    BY HeldAt
  <2> HIDE DEF pushed
  <2> QED
    BY <2>0, <2>1
<1>12. Typed(pushed)
  <2>1. \A y \in Routers : ins[y] \in Seq(Frame(y))
    BY EmptySeq
  <2>2. \A y \in Routers : arps[y] \in Seq(Packets)
    BY <1>10, EmptySeq
  <2>3. (\A h \in Hosts : gots[h] \in Seq(1..MaxInputs)) /\ <<>> \in Seq(Made)
    BY EmptySeq
  <2> HIDE DEF ins, arps, gots
  <2> QED
    BY <2>1, <2>2, <2>3, HeldTyped
<1> HIDE DEF pushed
<1>13. \A c \in Holders : Follow(<<m.id, s>>, Tokens(c, pushed[c]))
  <2> SUFFICES ASSUME NEW c \in Holders PROVE Follow(<<m.id, s>>, Tokens(c, pushed[c]))
    OBVIOUS
  <2>1. CASE c = c1
    <3>1. pushed[c1] = ps
      BY <1>11
    <3> HIDE DEF c1
    <3> QED
      BY <1>10, <2>1, <3>1
  <2>2. CASE c # c1
    <3>1. pushed[c] = <<>>
      <4>1. CASE \E y \in Routers : c = <<"in", y>>
        BY <1>11, <4>1
      <4>2. CASE \E y \in Routers : c = <<"arp", y>>
        BY <1>11, <2>2, <4>2
      <4>3. CASE \E h \in Hosts : c = <<"got", h>>
        BY <1>11, <4>3
      <4>4. CASE c = Maker
        BY <1>11, <4>4
      <4> QED
        BY <4>1, <4>2, <4>3, <4>4, HolderKinds
    <3> QED
      BY <3>1, NothingFollows
  <2> QED
    BY <2>1, <2>2
<1>14. net.capacity \in Nat \ {0} /\ DOMAIN inQueue = Routers /\ DOMAIN arpQueue = Routers
  BY <1>2, NetworkKnown DEF TypeOK
<1>15. ASSUME NEW y \in Routers
       PROVE  /\ inQueue'[y] \in Seq(Frame(y)) /\ Len(inQueue'[y]) <= net.capacity
              /\ Shift(inQueue[y], <<>>, inQueue'[y], IF y = r THEN 1 ELSE 0)
  <2>1. inQueue[y] \in Seq(Frame(y)) /\ Len(inQueue[y]) <= net.capacity
    BY <1>2 DEF TypeOK
  <2>2. CASE y = r
    <3>1. inQueue'[y] = Tail(inQueue[y])
      BY <1>1, <1>14, <2>2
    <3>2. Len(Tail(inQueue[y])) <= net.capacity
      BY <1>1, <1>14, <2>1, <2>2, EmptySeq, LenProperties, HeadTailProperties
    <3> QED
      BY <1>1, <2>1, <2>2, <3>1, <3>2, TailShift
  <2>3. CASE y # r
    <3>1. inQueue'[y] = inQueue[y]
      BY <1>1, <2>3
    <3> QED
      BY <2>1, <2>3, <3>1, NothingShift
  <2> QED
    BY <2>2, <2>3
<1>16. ASSUME NEW y \in Routers
       PROVE  /\ arpQueue'[y] \in Seq(Packets) /\ Len(arpQueue'[y]) <= net.capacity
              /\ Shift(arpQueue[y], pushed[<<"arp", y>>], arpQueue'[y], 0)
  <2>1. arpQueue[y] \in Seq(Packets) /\ Len(arpQueue[y]) <= net.capacity
    BY <1>2 DEF TypeOK
  <2>2. CASE y = r
    <3>1. arpQueue'[y] = Fitting(arpQueue[y] \o ps)
      BY <1>3, <1>14, <2>2
    <3>2. Fitting(arpQueue[y] \o ps) = CutTo(arpQueue[y] \o ps, net.capacity)
      BY DEF Fitting, CutTo
    <3>3. arpQueue[y] \o ps \in Seq(Packets)
      BY <1>10, <2>1, ConcatProperties
    <3>4. /\ Shift(arpQueue[y], ps, CutTo(arpQueue[y] \o ps, net.capacity), 0)
          /\ CutTo(arpQueue[y] \o ps, net.capacity) \in Seq(Packets)
          /\ Len(CutTo(arpQueue[y] \o ps, net.capacity)) <= net.capacity
      BY <1>10, <1>14, <2>1, <3>3, CutShift
    <3>5. pushed[<<"arp", y>>] = ps
      BY <1>11, <2>2
    <3> QED
      BY <3>1, <3>2, <3>4, <3>5
  <2>3. CASE y # r
    <3>1. arpQueue'[y] = arpQueue[y]
      BY <1>3, <1>14, <2>3
    <3>2. pushed[<<"arp", y>>] = <<>>
      BY <1>11, <2>3
    <3> QED
      BY <2>1, <3>1, <3>2, NothingShift
  <2> QED
    BY <2>2, <2>3
<1>17. Steps(Now, pushed, Now', t, 1)
  <2>1. ASSUME NEW y PROVE Dropped(<<"arp", y>>, t, 1) = 0 /\ Dropped(<<"got", y>>, t, 1) = 0
    BY DEF Dropped
  <2>2. ASSUME NEW y PROVE Dropped(<<"in", y>>, t, 1) = IF y = r THEN 1 ELSE 0
    BY DEF Dropped
  <2>3. Dropped(Maker, t, 1) = 0
    BY DEF Dropped, Maker
  <2> HIDE DEF t
  <2>4. ASSUME NEW y \in Routers
        PROVE  Shift(inQueue[y], pushed[<<"in", y>>], inQueue'[y], Dropped(<<"in", y>>, t, 1))
    <3>1. Shift(inQueue[y], <<>>, inQueue'[y], IF y = r THEN 1 ELSE 0)
      BY <1>15
    <3>2. pushed[<<"in", y>>] = <<>>
      BY <1>11
    <3> QED
      BY <2>2, <3>1, <3>2
  <2>5. ASSUME NEW y \in Routers
        PROVE  Shift(arpQueue[y], pushed[<<"arp", y>>], arpQueue'[y], Dropped(<<"arp", y>>, t, 1))
    <3>1. Shift(arpQueue[y], pushed[<<"arp", y>>], arpQueue'[y], 0)
      BY <1>16
    <3> QED
      BY <2>1, <3>1
  <2>6. ASSUME NEW h \in Hosts
        PROVE  Shift(received[h], pushed[<<"got", h>>], received'[h], Dropped(<<"got", h>>, t, 1))
    <3>1. received'[h] = received[h] /\ received[h] \in Seq(1..MaxInputs)
      BY <1>1, <1>2
    <3>2. pushed[<<"got", h>>] = <<>>
      BY <1>11
    <3> QED
      BY <2>1, <3>1, <3>2, NothingShift
  <2>7. Shift(<<>>, pushed[Maker], <<>>, Dropped(Maker, t, 1))
    <3>1. <<>> \in Seq(Made)
      BY EmptySeq
    <3> QED
      BY <1>11, <2>3, <3>1, NothingShift
  <2> QED
    BY <2>4, <2>5, <2>6, <2>7, StepsAre DEF Now
<1> QED
  <2>1. DOMAIN inQueue' = Routers /\ DOMAIN arpQueue' = Routers
    BY <1>1, <1>3, <1>14
  <2>2. UNCHANGED tables /\ UNCHANGED produced
    BY <1>1
  <2>3. \A y \in Routers : inQueue'[y] \in Seq(Frame(y)) /\ arpQueue'[y] \in Seq(Packets)
    BY <1>15, <1>16
  <2>4. \A y \in Routers : Len(inQueue'[y]) <= net.capacity /\ Len(arpQueue'[y]) <= net.capacity
    BY <1>15, <1>16
  <2>5. \A c \in Holders : Follow(Token(t, Now[t][1]), Tokens(c, pushed[c]))
    BY <1>6, <1>13
  <2>6. t \in Holders /\ Now[t] # <<>>
    BY <1>1, <1>5
  <2>7. received' \in [Hosts -> Seq(1..MaxInputs)]
    BY <1>1, <1>2 DEF TypeOK
  <2>8. overflowed' \in BOOLEAN
    BY <1>2, <1>3
  <2> HIDE DEF t
  <2> QED
    BY <1>12, <1>17, <2>1, <2>2, <2>3, <2>4, <2>5, <2>6, <2>7, <2>8, StepKeeps

-----------------------------------------------------------------------------
(* A host sends something: a packet starts, and goes out in the same step. *)

LEMMA OutgoingOne ==
  ASSUME Static, NEW input \in net.inputs, input.kind # "direct", NEW rp \in RPOf(input.from, input.name),
         NEW m \in Messages, NEW id, m.id = id,
         NEW ps \in Forwarded(input.from, m, rp),
         \A na \in NextHop(input.from, rp) :
            Sent(input.from, m.type, m.name, m.rp, na) \subseteq ChildrenIn(Road, Start(input))
  PROVE  /\ ps \in Seq(Packets)
         /\ \E nas : Fanned(input.from, ps, nas)
         /\ Carry(input.from, ps, id, Start(input))
<1> DEFINE h == input.from
<1>1. PICK na \in NextHop(h, rp) : ps = <<[message |-> m, nextHop |-> na]>>
  BY DEF Forwarded
<1> DEFINE p == [message |-> m, nextHop |-> na]
<1>2. h \in Nodes /\ rp \in RPs
  BY InputKnown
<1>3. na \in NextHops
  BY <1>1, <1>2, NextHopsAre
<1>4. p \in Packets /\ p.message = m /\ p.nextHop = na
  BY <1>3 DEF Packets
<1> HIDE DEF p
<1>5. h \in Descendants(Ways(rp), h)
  BY DescendantsSelf
<1>6. \A n \in Nodes : \A a \in Links(h, NextHop(h, rp), n), b \in Links(h, NextHop(h, rp), n) : a = b
  BY <1>5, WaysLead
<1>7. p.nextHop \in NextHop(h, rp)
  BY <1>1, <1>4
<1>8. Fanned(h, <<p>>, {p.nextHop})
  <2> HIDE DEF h
  <2> QED
    BY <1>6, <1>7, FannedOne
<1>9. Carry(h, <<p>>, id, Start(input))
  BY <1>1, <1>4 DEF Carry
<1> QED
  BY <1>1, <1>4, <1>8, <1>9 DEF p

LEMMA OutgoingAll ==
  ASSUME Static, NEW input \in net.inputs, input.kind = "direct", NEW m \in Messages, NEW id, m.id = id,
         m.type = "publication", m.name = input.name, m.rp = NoName,
         NEW ps \in Copies(input.from, m, EmptyNa),
         \A na \in Lookup(subTable[input.from], input.name) \ {EmptyNa} :
            Sent(input.from, "publication", input.name, NoName, na) \subseteq ChildrenIn(Road, Start(input))
  PROVE  /\ ps \in Seq(Packets)
         /\ \E nas : Fanned(input.from, ps, nas)
         /\ Carry(input.from, ps, id, Start(input))
<1> DEFINE h == input.from
           nas == Lookup(subTable[h], input.name) \ {EmptyNa}
<1>1. h \in Nodes
  BY InputKnown
<1>2. /\ ps \in Seq(Packets)
      /\ \A i \in 1..Len(ps) : ps[i].message = m /\ ps[i].nextHop \in nas
      /\ \A i \in 1..Len(ps), j \in 1..Len(ps) : ps[i].nextHop = ps[j].nextHop => i = j
  BY <1>1, CopiesAre
<1>3. h \in Origins(input) /\ h \in Senders(input.name, h)
  BY DescendantsSelf DEF Origins, Senders, Reached, Spread
<1>4. \A n : Links(h, nas, n) \subseteq Copied(input.name, h, n)
  BY DEF Links, Copied
<1>5. \A n \in Nodes : \A a \in Copied(input.name, h, n), b \in Copied(input.name, h, n) : a = b
  BY <1>3, SpreadTree
<1>6. Carry(h, ps, id, Start(input))
  BY <1>2 DEF Carry
<1> HIDE DEF nas, h
<1>7. Fanned(h, ps, nas)
  BY <1>2, <1>4, <1>5 DEF Fanned
<1> QED
  BY <1>2, <1>6, <1>7 DEF h

LEMMA OutgoingAre ==
  ASSUME Static, NEW input \in net.inputs, NEW id \in 1..MaxInputs, NEW ps \in Outcomes(Outgoing(input, id))
  PROVE  /\ ps \in Seq(Packets)
         /\ \E nas : Fanned(input.from, ps, nas)
         /\ Carry(input.from, ps, id, Start(input))
<1> DEFINE h == input.from
           name == input.name
           s == Start(input)
<1>1. ChildrenIn(Road, s) = FromMake(h, input.kind, name)
  <2>1. s \in Stations
    BY AllLawful
  <2> QED
    BY <2>1, ChildrenAre DEF Step, Start
<1>2. h \in Hosts /\ name \in Names /\ input.kind \in {"interest", "direct", "subscription"} /\ RPOf(h, name) \subseteq RPs
  BY InputKnown
<1>3. CASE Outgoing(input, id) = {}
  <2>1. ps = <<>>
    BY <1>3 DEF Outcomes
  <2>2. Fanned(h, <<>>, {}) /\ Carry(h, <<>>, id, s) /\ <<>> \in Seq(Packets)
    BY EmptySeq DEF Fanned, Links, Carry
  <2> QED
    BY <2>1, <2>2
<1>4. CASE Outgoing(input, id) # {} /\ input.kind = "direct"
  <2> DEFINE m == PublicationMessage(id, name)
  <2>1. ps \in Copies(h, m, EmptyNa)
    BY <1>4 DEF Outcomes, Outgoing
  <2>2. m \in Messages /\ m.id = id /\ m.type = "publication" /\ m.name = name /\ m.rp = NoName
    BY <1>2 DEF Messages, PublicationMessage
  <2>3. \A na \in Lookup(subTable[h], name) \ {EmptyNa} :
          Sent(h, "publication", name, NoName, na) \subseteq ChildrenIn(Road, s)
    BY <1>1, <1>4 DEF FromMake
  <2> HIDE DEF m, s
  <2> QED
    BY <1>4, <2>1, <2>2, <2>3, OutgoingAll DEF s
<1>5. CASE Outgoing(input, id) # {} /\ input.kind = "interest"
  <2>1. PICK rp \in RPOf(h, name) : ps \in Forwarded(h, InterestMessage(id, name, rp), rp)
    BY <1>5 DEF Outcomes, Outgoing
  <2> DEFINE m == InterestMessage(id, name, rp)
  <2>2. m \in Messages /\ m.id = id /\ m.type = "interest" /\ m.name = name /\ m.rp = rp
    BY <1>2 DEF Messages, InterestMessage
  <2>3. \A na \in NextHop(h, rp) : Sent(h, "interest", name, rp, na) \subseteq ChildrenIn(Road, s)
    BY <1>1, <1>5 DEF FromMake
  <2>4. ps \in Forwarded(h, m, rp)
    BY <2>1
  <2> HIDE DEF m, s
  <2> QED
    BY <1>5, <2>2, <2>3, <2>4, OutgoingOne DEF s
<1>6. CASE Outgoing(input, id) # {} /\ input.kind = "subscription"
  <2>1. PICK rp \in RPOf(h, name) : ps \in Forwarded(h, SubscriptionMessage(id, name), rp)
    BY <1>6 DEF Outcomes, Outgoing
  <2> DEFINE m == SubscriptionMessage(id, name)
  <2>2. m \in Messages /\ m.id = id /\ m.type = "subscription" /\ m.name = name /\ m.rp = NoName
    BY <1>2 DEF Messages, SubscriptionMessage
  <2>3. \A na \in NextHop(h, rp) : Sent(h, "subscription", name, NoName, na) \subseteq ChildrenIn(Road, s)
    BY <1>1, <1>6 DEF FromMake
  <2>4. ps \in Forwarded(h, m, rp)
    BY <2>1
  <2> HIDE DEF m, s
  <2> QED
    BY <1>6, <2>2, <2>3, <2>4, OutgoingOne DEF s
<1> QED
  BY <1>2, <1>3, <1>4, <1>5, <1>6

(* The packet of a new number is in the hand of its maker.                 *)
Mid(id, input) == Held(inQueue, arpQueue, received, <<<<id, Start(input)>>>>)
StartsWith(id, input) == [i \in 1..id |-> Start(Append(produced, input)[i])]

LEMMA MakerStarts ==
  ASSUME IInv, NEW input \in net.inputs, NEW id, id = Len(produced) + 1
  PROVE  /\ Typed(Mid(id, input)) /\ Mid(id, input)[Maker] = <<<<id, Start(input)>>>>
         /\ Trees(Road, StartsWith(id, input))
         /\ TokensOK(Cont(Mid(id, input)), Road, StartsWith(id, input), {})
<1> DEFINE tok == <<id, Start(input)>>
           ins == [r \in Routers |-> <<>>]
           arps == [r \in Routers |-> <<>>]
           gots == [h \in Hosts |-> <<>>]
           come == Held(ins, arps, gots, <<tok>>)
           mid == Mid(id, input)
           w == Append(produced, input)
           start2 == StartsWith(id, input)
<1>1. /\ Static /\ Typed(Now) /\ produced \in Seq(net.inputs)
      /\ \A r \in Routers : inQueue[r] \in Seq(Frame(r)) /\ arpQueue[r] \in Seq(Packets)
      /\ \A h \in Hosts : received[h] \in Seq(1..MaxInputs)
      /\ TokensOK(Cont(Now), Road, Starts, {})
      /\ \A made \in Seq(Made) : Typed(Held(inQueue, arpQueue, received, made))
  BY NowTyped DEF IInv
<1>2. /\ Len(produced) \in Nat /\ id \in Nat
      /\ w \in Seq(net.inputs) /\ Len(w) = id /\ w[id] = input
      /\ \A i \in 1..Len(produced) : w[i] = produced[i]
  BY <1>1, AppendProperties, LenProperties
<1>3. tok \in Made /\ <<tok>> \in Seq(Made)
  <2>1. tok \in Nat \X Stations /\ tok[2][1] = "make"
    BY <1>1, <1>2, AllLawful DEF Start
  <2>2. tok \in Made
    BY <2>1 DEF Made
  <2> HIDE DEF tok
  <2> QED
    BY <2>2
<1> HIDE DEF tok, w
<1>4. /\ \A r \in Routers : come[<<"in", r>>] = <<>> /\ come[<<"arp", r>>] = <<>>
      /\ \A h \in Hosts : come[<<"got", h>>] = <<>>
      /\ come[Maker] = <<tok>>
  <2>0. /\ \A r \in Routers : ins[r] = <<>> /\ arps[r] = <<>>
        /\ \A h \in Hosts : gots[h] = <<>>
    OBVIOUS
  <2> HIDE DEF ins, arps, gots
  <2>1. /\ \A r \in Routers : come[<<"in", r>>] = ins[r]
        /\ \A r \in Routers : come[<<"arp", r>>] = arps[r]
        /\ \A h \in Hosts : come[<<"got", h>>] = gots[h]
        /\ come[Maker] = <<tok>>
    BY HeldAt
  <2> HIDE DEF come
  <2> QED
    BY <2>0, <2>1
<1>5. Typed(come)
  <2>1. \A r \in Routers : ins[r] \in Seq(Frame(r))
    BY EmptySeq
  <2>2. \A r \in Routers : arps[r] \in Seq(Packets)
    BY EmptySeq
  <2>3. \A h \in Hosts : gots[h] \in Seq(1..MaxInputs)
    BY EmptySeq
  <2> HIDE DEF ins, arps, gots
  <2> QED
    BY <1>3, <2>1, <2>2, <2>3, HeldTyped
<1>6. Typed(mid) /\ mid[Maker] = <<tok>>
  <2>1. Typed(Held(inQueue, arpQueue, received, <<tok>>))
    BY <1>1, <1>3
  <2>2. Held(inQueue, arpQueue, received, <<tok>>)[Maker] = <<tok>>
    BY HeldAt
  <2> QED
    BY <2>1, <2>2 DEF Mid, tok
<1> HIDE DEF come
<1>7. Steps(Now, come, mid, Maker, 0)
  <2>1. ASSUME NEW c PROVE Dropped(c, Maker, 0) = 0
    BY DEF Dropped
  <2>2. ASSUME NEW r \in Routers
        PROVE  Shift(inQueue[r], come[<<"in", r>>], inQueue[r], Dropped(<<"in", r>>, Maker, 0))
    <3>1. inQueue[r] \in Seq(Frame(r))
      BY <1>1
    <3>2. come[<<"in", r>>] = <<>>
      BY <1>4
    <3> QED
      BY <2>1, <3>1, <3>2, NothingShift
  <2>3. ASSUME NEW r \in Routers
        PROVE  Shift(arpQueue[r], come[<<"arp", r>>], arpQueue[r], Dropped(<<"arp", r>>, Maker, 0))
    <3>1. arpQueue[r] \in Seq(Packets)
      BY <1>1
    <3>2. come[<<"arp", r>>] = <<>>
      BY <1>4
    <3> QED
      BY <2>1, <3>1, <3>2, NothingShift
  <2>4. ASSUME NEW h \in Hosts
        PROVE  Shift(received[h], come[<<"got", h>>], received[h], Dropped(<<"got", h>>, Maker, 0))
    <3>1. received[h] \in Seq(1..MaxInputs)
      BY <1>1
    <3>2. come[<<"got", h>>] = <<>>
      BY <1>4
    <3> QED
      BY <2>1, <3>1, <3>2, NothingShift
  <2>5. Shift(<<>>, come[Maker], <<tok>>, Dropped(Maker, Maker, 0))
    <3>1. Shift(<<>>, <<tok>>, <<>> \o <<tok>>, 0)
      BY <1>3, EmptySeq, AddShift
    <3>2. <<>> \o <<tok>> = <<tok>>
      BY <1>3
    <3> QED
      BY <1>4, <2>1, <3>1, <3>2
  <2> QED
    BY <2>2, <2>3, <2>4, <2>5, StepsAre DEF Now, Mid, tok
<1> HIDE DEF mid
<1>8. /\ Holds(Cont(Now), Holders, Stations) /\ Holds(Cont(come), Holders, Stations)
      /\ Holds(Cont(mid), Holders, Stations)
      /\ \A c \in Holders : Cont(come)[c] = Tokens(c, come[c])
  BY <1>1, <1>5, <1>6, ContHolds
<1>9. Maker \in Holders /\ Now[Maker] = <<>>
  BY HolderKinds, HeldAt DEF Now
<1>10. Shifted(Cont(Now), Cont(come), Cont(mid), Maker, 0)
  <2>1. 0 \in Nat /\ 0 <= Len(Now[Maker])
    BY <1>9
  <2> QED
    BY <1>1, <1>5, <1>6, <1>7, <1>9, <2>1, ContShifts
<1>11. Together(Cont(mid), {})
  BY <1>1, <1>6, ContTogether
<1>12. Trees(Road, start2)
  <2>1. start2 = [i \in 1..Len(w) |-> Start(w[i])]
    BY <1>2 DEF StartsWith, w
  <2> QED
    BY <1>1, <1>2, <2>1, StartsTrees
<1>13. /\ DOMAIN Starts = 1..Len(produced) /\ DOMAIN start2 = 1..id
       /\ \A i \in 1..Len(produced) : Starts[i] = Start(produced[i])
       /\ \A i \in 1..id : start2[i] = Start(w[i])
  BY DEF Starts, StartsWith, w
<1> HIDE DEF start2
<1>14. Started(Starts, start2, id) /\ start2[id] = Start(input)
  <2>1. 1..id = (1..Len(produced)) \cup {id} /\ \A i \in 1..Len(produced) : i \in 1..id /\ i \in Nat /\ i < id
    BY <1>2
  <2> QED
    BY <1>2, <1>13, <2>1 DEF Started
<1>15. Cont(come)[Maker] = << <<id, start2[id]>> >>
  <2>1. Tokens(Maker, <<tok>>) = <<Token(Maker, tok)>>
    BY DEF Tokens
  <2>2. Token(Maker, tok) = tok
    BY TokenIs
  <2> QED
    BY <1>4, <1>8, <1>9, <1>14, <2>1, <2>2 DEF tok
<1>16. ASSUME NEW c \in Holders, c # Maker PROVE Cont(come)[c] = <<>>
  <2>1. come[c] = <<>>
    <3>1. CASE \E r \in Routers : c = <<"in", r>>
      BY <1>4, <3>1
    <3>2. CASE \E r \in Routers : c = <<"arp", r>>
      BY <1>4, <3>2
    <3>3. CASE \E h \in Hosts : c = <<"got", h>>
      BY <1>4, <3>3
    <3> QED
      BY <1>16, <3>1, <3>2, <3>3, HolderKinds
  <2> QED
    BY <1>8, <2>1, NothingFollows
<1>17. TokensOK(Cont(mid), Road, start2, {})
  <2> DEFINE a == Cont(Now)
             b == Cont(come)
             d == Cont(mid)
  <2>1. /\ Holds(a, Holders, Stations) /\ Holds(b, Holders, Stations) /\ Holds(d, Holders, Stations)
        /\ Shifted(a, b, d, Maker, 0) /\ Together(d, {}) /\ TokensOK(a, Road, Starts, {})
        /\ b[Maker] = << <<id, start2[id]>> >> /\ \A c \in Holders : c # Maker => b[c] = <<>>
    BY <1>1, <1>8, <1>10, <1>11, <1>15, <1>16
  <2> HIDE DEF a, b, d
  <2>2. TokensOK(d, Road, start2, {})
    BY <1>2, <1>9, <1>12, <1>14, <2>1, NewOne
  <2> QED
    BY <2>2 DEF d
<1> QED
  BY <1>6, <1>12, <1>17 DEF mid, start2, tok

LEMMA ProduceStep ==
  ASSUME IInv, NEW input \in net.inputs, Produce(input)
  PROVE  IInv'
<1> DEFINE id == Len(produced')
           h == input.from
           mid == Mid(id, input)
           s == Start(input)
           start2 == StartsWith(id, input)
<1>1. /\ Len(produced) < MaxInputs /\ produced' = Append(produced, input)
      /\ UNCHANGED tables /\ UNCHANGED arpQueue
  BY DEF Produce
<1>2. PICK ps \in Outcomes(Outgoing(input, id)) : Transmit(h, ps)
  BY DEF Produce
<1>3. /\ Static /\ TypeOK /\ Typed(Now) /\ overflowed \in BOOLEAN /\ produced \in Seq(net.inputs)
      /\ \A x \in Routers : inQueue[x] \in Seq(Frame(x)) /\ arpQueue[x] \in Seq(Packets)
      /\ \A x \in Hosts : received[x] \in Seq(1..MaxInputs)
  BY NowTyped DEF IInv
<1>4. /\ Len(produced) \in Nat /\ id = Len(produced) + 1 /\ produced' \in Seq(net.inputs)
      /\ id \in 1..MaxInputs
  <2>1. Len(produced) \in Nat /\ id = Len(produced) + 1 /\ produced' \in Seq(net.inputs)
    BY <1>1, <1>3, AppendProperties, LenProperties
  <2> HIDE DEF id
  <2> QED
    BY <1>1, <2>1, BoundAssumption
<1> DEFINE pushed == Brought(h, ps)
<1> HIDE DEF id
<1>5. /\ Typed(mid) /\ mid[Maker] = <<<<id, s>>>> /\ Trees(Road, start2)
      /\ TokensOK(Cont(mid), Road, start2, {})
  BY <1>4, MakerStarts
<1>6. Typed(pushed) /\ \A c \in Holders : Follow(<<id, s>>, Tokens(c, pushed[c]))
  <2>1. /\ ps \in Seq(Packets)
        /\ \E nas : Fanned(h, ps, nas)
        /\ Carry(h, ps, id, s)
    BY <1>2, <1>3, <1>4, OutgoingAre
  <2>2. h \in Nodes
    BY <1>3, InputKnown
  <2> HIDE DEF h, s
  <2> QED
    BY <1>3, <2>1, <2>2, BroughtFollows
<1>7. /\ \A x \in Routers :
            /\ inQueue'[x] \in Seq(Frame(x)) /\ Len(inQueue'[x]) <= net.capacity
            /\ Shift(inQueue[x], pushed[<<"in", x>>], inQueue'[x], 0)
      /\ \A x \in Hosts : Shift(received[x], pushed[<<"got", x>>], received'[x], 0)
      /\ received' \in [Hosts -> Seq(1..MaxInputs)] /\ overflowed' \in BOOLEAN
  BY <1>2, <1>3, <1>6, TransmitSteps
<1>8. /\ \A x \in Routers : pushed[<<"arp", x>>] = <<>>
      /\ pushed[Maker] = <<>>
  BY BroughtAt
<1> HIDE DEF pushed
<1>9. arpQueue' = arpQueue /\ \A x \in Routers : Len(arpQueue[x]) <= net.capacity
  BY <1>1, <1>3 DEF TypeOK
<1>10. Steps(mid, pushed, Now', Maker, 1)
  <2>1. ASSUME NEW x
        PROVE  /\ Dropped(<<"in", x>>, Maker, 1) = 0 /\ Dropped(<<"got", x>>, Maker, 1) = 0
               /\ Dropped(<<"arp", x>>, Maker, 1) = 0
    BY DEF Dropped, Maker
  <2>2. Dropped(Maker, Maker, 1) = 1
    BY DEF Dropped
  <2>3. ASSUME NEW x \in Routers
        PROVE  Shift(inQueue[x], pushed[<<"in", x>>], inQueue'[x], Dropped(<<"in", x>>, Maker, 1))
    <3>1. Shift(inQueue[x], pushed[<<"in", x>>], inQueue'[x], 0)
      BY <1>7
    <3> QED
      BY <2>1, <3>1
  <2>4. ASSUME NEW x \in Routers
        PROVE  Shift(arpQueue[x], pushed[<<"arp", x>>], arpQueue'[x], Dropped(<<"arp", x>>, Maker, 1))
    <3>1. arpQueue'[x] = arpQueue[x] /\ arpQueue[x] \in Seq(Packets)
      BY <1>3, <1>9
    <3>2. pushed[<<"arp", x>>] = <<>>
      BY <1>8
    <3> QED
      BY <2>1, <3>1, <3>2, NothingShift
  <2>5. ASSUME NEW x \in Hosts
        PROVE  Shift(received[x], pushed[<<"got", x>>], received'[x], Dropped(<<"got", x>>, Maker, 1))
    <3>1. Shift(received[x], pushed[<<"got", x>>], received'[x], 0)
      BY <1>7
    <3> QED
      BY <2>1, <3>1
  <2>6. Shift(<<<<id, s>>>>, pushed[Maker], <<>>, Dropped(Maker, Maker, 1))
    <3> DEFINE T == {<<id, s>>}
               tok == <<id, s>>
    <3>1. tok \in T
      OBVIOUS
    <3> HIDE DEF T, tok
    <3>2. <<tok>> \in Seq(T) /\ Len(<<tok>>) = 1
      BY <3>1
    <3>3. Shift(<<tok>>, <<>>, <<>>, 1)
      BY <3>2, NothingShift
    <3> QED
      BY <1>8, <2>2, <3>3 DEF tok
  <2> QED
    BY <2>3, <2>4, <2>5, <2>6, StepsAre DEF Now, Mid
<1>11. Typed(Now')
  <2>1. \A x \in Routers : inQueue'[x] \in Seq(Frame(x))
    BY <1>7
  <2>2. \A x \in Routers : arpQueue'[x] \in Seq(Packets)
    BY <1>3, <1>9
  <2>3. \A x \in Hosts : received'[x] \in Seq(1..MaxInputs)
    BY <1>7
  <2>4. <<>> \in Seq(Made)
    BY EmptySeq
  <2> QED
    BY <2>1, <2>2, <2>3, <2>4, HeldTyped DEF Now
<1>12. TokensOK(Cont(Now'), Road, start2, {})
  <2>1. Maker \in Holders /\ mid[Maker] # <<>> /\ mid[Maker][1] = <<id, s>>
    BY <1>5, HolderKinds
  <2>2. Token(Maker, mid[Maker][1]) = <<id, s>>
    BY <2>1, TokenIs
  <2> HIDE DEF mid, start2, s
  <2>3. \A c \in Holders : Follow(Token(Maker, mid[Maker][1]), Tokens(c, pushed[c]))
    BY <1>6, <2>2
  <2> QED
    BY <1>3, <1>5, <1>6, <1>10, <1>11, <2>1, <2>3, TokensMove
<1>13. /\ net' = net /\ Messages' = Messages /\ NextHops' = NextHops /\ Road' = Road
       /\ \A r \in Routers : Frame(r)' = Frame(r)
       /\ Packets' = Packets
  BY <1>1, TablesSame
<1>14. Static'
  BY <1>1, <1>3, StaticSame
<1>15. TypeOK'
  <2>1. net' \in Networks /\ produced' \in Seq(net'.inputs)
    BY <1>3, <1>4, <1>13 DEF Static
  <2>2. \A r \in Routers : inQueue'[r] \in Seq(Frame(r)') /\ arpQueue'[r] \in Seq(Packets')
    BY <1>3, <1>7, <1>9, <1>13
  <2>3. \A r \in Routers : Len(inQueue'[r]) <= net'.capacity /\ Len(arpQueue'[r]) <= net'.capacity
    BY <1>7, <1>9, <1>13
  <2>4. DOMAIN inQueue' = Routers /\ DOMAIN arpQueue' = Routers
    BY <1>2, <1>3, <1>9 DEF TypeOK, Transmit
  <2> QED
    BY <1>7, <2>1, <2>2, <2>3, <2>4 DEF TypeOK, Frame, Packets
<1>16. Starts' = start2
  BY <1>1 DEF Starts, StartsWith, id, Start
<1>17. Cont(Now)' = Cont(Now')
  BY DEF Cont, Tokens, Token, At
<1> QED
  BY <1>12, <1>13, <1>14, <1>15, <1>16, <1>17 DEF IInv

-----------------------------------------------------------------------------
(* Initially nothing is on its way.                                        *)

(* A table of subscriptions made of a finite file has finitely many NAs    *)
(* for a name, and one NA is known by an address, that of the later line.  *)
LEMMA FiniteLookup ==
  ASSUME NEW file, IsFiniteSet(DOMAIN file), NEW name
  PROVE  IsFiniteSet(Lookup(SubscriptionsOf(file), name))
<1> DEFINE S == ReadLines(file, 2, 2)
           f == [i \in S |-> file[i][2]]
           V == {f[i] : i \in DOMAIN f}
<1>1. IsFiniteSet(S)
  BY FS_Subset DEF ReadLines
<1>2. Lookup(SubscriptionsOf(file), name) \subseteq {file[i][2] : i \in S}
  BY DEF Lookup, SubscriptionsOf
<1> HIDE DEF S
<1>3. V = {file[i][2] : i \in S}
  OBVIOUS
<1>4. IsFiniteSet(V)
  BY <1>1, FiniteValues
<1> QED
  BY <1>2, <1>3, <1>4, FS_Subset

LEMMA SenderOne ==
  ASSUME NEW file, DOMAIN file \subseteq Nat, NEW address,
         NEW a \in SenderNas(NeighboursOf(file), address),
         NEW b \in SenderNas(NeighboursOf(file), address)
  PROVE  a = b
<1> DEFINE L == Lasting(file)
           line(na) == CHOOSE i \in L : file[i][1] = na
<1>1. ASSUME NEW na \in SenderNas(NeighboursOf(file), address)
      PROVE  line(na) \in L /\ file[line(na)][1] = na /\ AddressIn(file[line(na)]) = address
  <2>1. \E i \in L : file[i][1] = na
    BY DEF SenderNas, NeighboursOf
  <2>2. line(na) \in L /\ file[line(na)][1] = na
    BY <2>1
  <2>3. NeighboursOf(file)[na] = AddressIn(file[line(na)])
    BY <2>1 DEF NeighboursOf
  <2>4. NeighboursOf(file)[na] = address
    BY DEF SenderNas
  <2> QED
    BY <2>2, <2>3, <2>4
<1>2. L \subseteq Nat
  BY DEF Lasting, ReadLines
<1>3. \A i, j \in L : j > i => AddressIn(file[j]) # AddressIn(file[i])
  BY DEF Lasting
<1> HIDE DEF L, line
<1>4. line(a) \in L /\ file[line(a)][1] = a /\ AddressIn(file[line(a)]) = address
  BY <1>1
<1>5. line(b) \in L /\ file[line(b)][1] = b /\ AddressIn(file[line(b)]) = address
  BY <1>1
<1>6. \A i, j \in Nat : i = j \/ i > j \/ j > i
  OBVIOUS
<1>7. line(a) = line(b)
  BY <1>2, <1>3, <1>4, <1>5, <1>6
<1> QED
  BY <1>4, <1>5, <1>7

LEMMA InitStatic ==
  ASSUME Init
  PROVE  Static
<1>1. /\ net \in Networks /\ Consistent
      /\ subTable = [x \in Nodes |-> SubscriptionsOf(net.subFile[x])]
      /\ neighbours = [x \in Nodes |-> NeighboursOf(net.arpFile[x])]
  BY DEF Init
<1>2. \A x \in Nodes : IsFiniteSet(DOMAIN net.subFile[x]) /\ DOMAIN net.arpFile[x] \subseteq Nat
  BY <1>1, NetworksAssumption
<1>3. ASSUME NEW x \in Nodes, NEW name PROVE IsFiniteSet(Lookup(subTable[x], name))
  <2>1. subTable[x] = SubscriptionsOf(net.subFile[x])
    BY <1>1
  <2> QED
    BY <1>2, <2>1, FiniteLookup
<1>4. ASSUME NEW x \in Nodes, NEW address, NEW a \in SenderNas(neighbours[x], address),
             NEW b \in SenderNas(neighbours[x], address)
      PROVE  a = b
  <2>1. neighbours[x] = NeighboursOf(net.arpFile[x])
    BY <1>1
  <2> QED
    BY <1>2, <2>1, SenderOne
<1> QED
  BY <1>1, <1>3, <1>4 DEF Static

LEMMA InitIInv == Init => IInv
<1> SUFFICES ASSUME Init PROVE IInv
  OBVIOUS
<1>1. /\ inQueue = [r \in Routers |-> <<>>] /\ arpQueue = [r \in Routers |-> <<>>]
      /\ produced = <<>> /\ overflowed = FALSE
      /\ received = [h \in Hosts |-> <<>>] /\ net \in Networks
  BY DEF Init
<1>2. Static
  BY InitStatic
<1>3. TypeOK
  <2>1. /\ \A r \in Routers : <<>> \in Seq(Frame(r)) /\ <<>> \in Seq(Packets)
        /\ <<>> \in Seq(net.inputs) /\ <<>> \in Seq(1..MaxInputs)
    BY EmptySeq
  <2>2. net.capacity \in Nat
    BY <1>2, NetworkKnown
  <2>3. Len(<<>>) = 0 /\ 0 <= net.capacity
    BY <2>2
  <2>4. \A r \in Routers : inQueue[r] = <<>> /\ arpQueue[r] = <<>>
    BY <1>1
  <2>5. /\ \A r \in Routers : inQueue[r] \in Seq(Frame(r)) /\ arpQueue[r] \in Seq(Packets)
        /\ \A r \in Routers : Len(inQueue[r]) <= net.capacity /\ Len(arpQueue[r]) <= net.capacity
    BY <2>1, <2>3, <2>4
  <2>6. received \in [Hosts -> Seq(1..MaxInputs)] /\ produced \in Seq(net.inputs) /\ overflowed \in BOOLEAN
    BY <1>1, <2>1
  <2>7. DOMAIN inQueue = Routers /\ DOMAIN arpQueue = Routers
    BY <1>1
  <2> QED
    BY <1>1, <2>5, <2>6, <2>7 DEF TypeOK, Frame, Packets
<1>4. ASSUME NEW c \in Holders PROVE Cont(Now)[c] = <<>>
  <2>1. \/ \E r \in Routers : Now[c] = inQueue[r]
        \/ \E r \in Routers : Now[c] = arpQueue[r]
        \/ \E h \in Hosts : Now[c] = received[h]
        \/ Now[c] = <<>>
    BY HeldIs DEF Now
  <2>2. Now[c] = <<>>
    BY <1>1, <2>1
  <2> QED
    BY <2>2, NothingFollows DEF Cont
<1>5. TokensOK(Cont(Now), Road, Starts, {})
  <2>1. DOMAIN Cont(Now) = Holders
    BY DEF Cont
  <2> DEFINE cont == Cont(Now)
  <2> HIDE DEF cont
  <2>2. PlacesOf(cont) = {}
    BY <1>4, <2>1 DEF PlacesOf, cont
  <2>3. DOMAIN IdsOf(cont) = {} /\ DOMAIN NodesOf(cont) = {}
    BY <2>2 DEF IdsOf, NodesOf
  <2>4. TokensOK(cont, Road, Starts, {})
    BY <2>3 DEF TokensOK, Placed, Apart, Ordered
  <2> QED
    BY <2>4 DEF cont
<1> QED
  BY <1>2, <1>3, <1>5 DEF IInv

LEMMA NextIInv == IInv /\ [Next]_vars => IInv'
<1> SUFFICES ASSUME IInv, [Next]_vars PROVE IInv'
  OBVIOUS
<1>1. CASE Work
  BY <1>1, ReceiveStep, SendStep DEF Work
<1>2. CASE \E input \in net.inputs : Produce(input)
  BY <1>2, ProduceStep
<1>3. CASE UNCHANGED vars
  <2>1. UNCHANGED <<inQueue, arpQueue, produced, received, overflowed>> /\ UNCHANGED tables
    BY <1>3 DEF vars
  <2>2. Static'
    BY <2>1, StaticSame DEF IInv
  <2>3. /\ net' = net /\ Road' = Road /\ Packets' = Packets /\ \A r \in Routers : Frame(r)' = Frame(r)
        /\ Messages' = Messages /\ NextHops' = NextHops
    BY <2>1, TablesSame
  <2>4. TypeOK'
    <3>1. \A r \in Routers : inQueue'[r] \in Seq(Frame(r)') /\ arpQueue'[r] \in Seq(Packets')
      BY <2>1, <2>3, NowTyped DEF IInv
    <3>2. TypeOK
      BY DEF IInv
    <3> QED
      BY <2>1, <2>3, <3>1, <3>2 DEF TypeOK, Frame, Packets
  <2>5. Starts' = Starts
    BY <2>1 DEF Starts, Start
  <2>6. Now' = Now
    BY <2>1 DEF Now, Held
  <2>7. Cont(Now)' = Cont(Now)
    BY <2>6 DEF Cont, Tokens, Token, At
  <2> QED
    BY <2>2, <2>3, <2>4, <2>5, <2>7 DEF IInv
<1> QED
  BY <1>1, <1>2, <1>3 DEF Next

(* In every network the packets and deliveries are of their types, and     *)
(* those of what was sent alike are in order on the road, none twice.      *)
THEOREM HRCTokensInOrder == Spec => []IInv
<1> QED
  BY InitIInv, NextIInv, PTL DEF Spec

(* Packets, queues and deliveries are always of their types, and no queue  *)
(* is beyond its capacity.                                                 *)
THEOREM HRCNetworkTypes == Spec => []TypeOK
<1>1. IInv => TypeOK
  BY DEF IInv
<1> QED
  BY <1>1, HRCTokensInOrder, PTL

-----------------------------------------------------------------------------
(* What the hosts got.                                                     *)

Got(h) == <<"got", h, "publication", NoName, NoName, h>>

LEMMA GotToken ==
  ASSUME IInv, NEW h \in Hosts, NEW i \in DOMAIN received[h]
  PROVE  LET x == <<<<"got", h>>, i>>
         IN  /\ i \in Nat /\ received[h][i] \in 1..MaxInputs /\ received[h][i] \in Nat
             /\ x \in PlacesOf(Cont(Now)) /\ x \in DOMAIN IdsOf(Cont(Now))
             /\ TokenAt(Cont(Now), x) = <<received[h][i], Got(h)>>
             /\ IdsOf(Cont(Now))[x] = received[h][i]
             /\ NodesOf(Cont(Now))[x] = Got(h)
<1> DEFINE c == <<"got", h>>
           x == <<c, i>>
           cont == Cont(Now)
<1>1. /\ received[h] \in Seq(1..MaxInputs) /\ c \in Holders /\ Now[c] = received[h]
  BY NowTyped, HeldAt, HolderKinds DEF IInv, Now
<1>2. i \in 1..Len(received[h]) /\ i \in Nat /\ Len(received[h]) \in Nat
  BY <1>1, LenProperties
<1>3. received[h][i] \in 1..MaxInputs /\ received[h][i] \in Nat
  BY <1>1, <1>2, BoundAssumption
<1>4. Items(c) = 1..MaxInputs /\ Token(c, received[h][i]) = <<received[h][i], Got(h)>>
  BY ItemsAre, TokenIs DEF Got
<1> HIDE DEF c
<1>5. cont[c] = Tokens(c, received[h]) /\ DOMAIN cont = Holders
  BY <1>1 DEF Cont
<1>6. Static
  BY DEF IInv
<1>7. Len(cont[c]) = Len(received[h]) /\ cont[c][i] = <<received[h][i], Got(h)>>
  BY <1>1, <1>2, <1>4, <1>5, <1>6, TokensAre
<1> HIDE DEF cont
<1>8. x \in PlacesOf(cont) /\ TokenAt(cont, x) = <<received[h][i], Got(h)>>
  BY <1>1, <1>2, <1>5, <1>7 DEF PlacesOf, TokenAt
<1> HIDE DEF x
<1>9. /\ x \in DOMAIN IdsOf(cont)
      /\ IdsOf(cont)[x] = received[h][i] /\ NodesOf(cont)[x] = Got(h)
  BY <1>8 DEF IdsOf, NodesOf
<1> QED
  BY <1>2, <1>3, <1>8, <1>9 DEF x, c, cont

(* No host is given the same twice.                                        *)
LEMMA DeliveredOnce ==
  IInv => \A h \in Hosts : \A i, j \in DOMAIN received[h] :
            received[h][i] = received[h][j] => i = j
<1> SUFFICES ASSUME IInv, NEW h \in Hosts, NEW i \in DOMAIN received[h], NEW j \in DOMAIN received[h],
                    received[h][i] = received[h][j], i # j
             PROVE  FALSE
  OBVIOUS
<1> DEFINE s == Got(h)
           x == <<<<"got", h>>, i>>
           y == <<<<"got", h>>, j>>
           id == IdsOf(Cont(Now))
           st == NodesOf(Cont(Now))
<1>1. x \in DOMAIN id /\ id[x] = received[h][i] /\ st[x] = s
  BY GotToken
<1>2. y \in DOMAIN id /\ id[y] = received[h][i] /\ st[y] = s
  BY GotToken
<1>3. x # y
  OBVIOUS
<1>4. Apart(id, st, Road)
  BY DEF IInv, TokensOK
<1>5. s \in Descendants(Road, s)
  BY DescendantsSelf
<1> HIDE DEF id, st, x, y, s
<1> QED
  BY <1>1, <1>2, <1>3, <1>4, <1>5 DEF Apart

(* What a host sends twice in the same way arrives in the order it was     *)
(* sent, wherever interests become publications and branches meet.         *)
THEOREM HRCNetworkInOrder == Spec => []InOrder
<1>1. ASSUME IInv PROVE InOrder
  <2> SUFFICES ASSUME NEW h \in Hosts, NEW i \in DOMAIN received[h], NEW j \in DOMAIN received[h],
                      i < j, produced[received[h][i]] = produced[received[h][j]]
               PROVE  received[h][i] < received[h][j]
    BY DEF InOrder
  <2> DEFINE a == received[h][i]
             b == received[h][j]
             c == <<"got", h>>
             s == Got(h)
             x == <<c, i>>
             y == <<c, j>>
             id == IdsOf(Cont(Now))
             st == NodesOf(Cont(Now))
  <2>1. /\ i \in Nat /\ a \in Nat /\ x \in DOMAIN id /\ id[x] = a /\ st[x] = s
        /\ x \in PlacesOf(Cont(Now)) /\ TokenAt(Cont(Now), x) = <<a, s>>
    BY <1>1, GotToken
  <2>2. /\ j \in Nat /\ b \in Nat /\ y \in DOMAIN id /\ id[y] = b /\ st[y] = s
        /\ y \in PlacesOf(Cont(Now)) /\ TokenAt(Cont(Now), y) = <<b, s>>
    BY <1>1, GotToken
  <2>3. a # b
    BY <1>1, <2>1, <2>2, DeliveredOnce
  <2>4. Starts[a] = Starts[b]
    <3>1. a \in 1..Len(produced)
      <4> HIDE DEF a, x, s
      <4>1. TokenAt(Cont(Now), x)[1] \in 1..Len(produced)
        BY <1>1, <2>1, TokenLawful
      <4> QED
        BY <2>1, <4>1
    <3>2. b \in 1..Len(produced)
      <4> HIDE DEF b, y, s
      <4>1. TokenAt(Cont(Now), y)[1] \in 1..Len(produced)
        BY <1>1, <2>2, TokenLawful
      <4> QED
        BY <2>2, <4>1
    <3>3. produced[a] = produced[b]
      OBVIOUS
    <3> HIDE DEF a, b
    <3> QED
      BY <3>1, <3>2, <3>3 DEF Starts
  <2>5. ASSUME b < a PROVE FALSE
    <3>1. Ordered(id, st, Road, Starts, Before(DOMAIN Cont(Now), {}))
      BY <1>1 DEF IInv, TokensOK
    <3>2. <<y, x>> \in Before(DOMAIN Cont(Now), {})
      <4> HIDE DEF id, st, x, y, s, a, b
      <4> QED
        BY <2>1, <2>2, <2>4, <2>5, <3>1 DEF Ordered
    <3>3. j < i
      BY <3>2 DEF Before
    <3> QED
      BY <2>1, <2>2, <3>3
  <2> HIDE DEF a, b
  <2>6. a < b
    BY <2>1, <2>2, <2>3, <2>5
  <2> QED
    BY <2>6 DEF a, b
<1> QED
  BY <1>1, HRCTokensInOrder, PTL

-----------------------------------------------------------------------------
(* The network implements NamePubSub.                                      *)

LEMMA SamePrefix == \A s, t : P!IsPrefix(s, t) = IsPrefix(s, t)
BY DEF P!IsPrefix, IsPrefix

(* What a frame brings to a host is called for: the host subscribes to a   *)
(* prefix of the name, and did not publish it without an RP.               *)
LEMMA SentCalled ==
  ASSUME IInv, NEW r \in Routers, arpQueue[r] # <<>>, NEW h \in Hosts,
         Arrives(r, Head(arpQueue[r]), h)
  PROVE  Head(arpQueue[r]).message.id \in P!Called(h)
<1> DEFINE p == Head(arpQueue[r])
           m == p.message
           na == p.nextHop
           input == produced[m.id]
<1>1. /\ m.id \in 1..Len(produced) /\ input \in net.inputs
      /\ <<"arp", r, m.type, m.name, m.rp, na>> \in LawfulStations(input)
  BY FirstSent
<1>2. Static /\ DOMAIN produced = 1..Len(produced) /\ r \in Nodes
  <2>1. Static /\ produced \in Seq(net.inputs)
    BY DEF IInv, TypeOK
  <2> QED
    BY <2>1, LenProperties DEF Nodes
<1>3. Leading(r, na, h) # {} /\ m.type = "publication"
  BY NodesAssumption DEF Arrives
<1> HIDE DEF p, m, na
<1>4. input.kind # "subscription" /\ \E root \in Origins(input) : Goes(input, root, r, na)
  BY <1>1, <1>2, <1>3, ArpLawful
<1>5. PICK root \in Origins(input) : Goes(input, root, r, na)
  BY <1>4
<1>6. h # root
  <2>1. Comes(input.name, root, r, h)
    BY <1>1, <1>2, <1>3, <1>4, <1>5, GoesOn
  <2>2. Hears(h, r)
    BY DEF Hears
  <2>3. Enters(input.name, root, r, h)
    BY <2>1, <2>2 DEF Comes
  <2> QED
    BY <1>1, <1>2, <1>4, <2>3, EntersKnown
<1>7. input.kind = "direct" => input.from # h
  BY <1>1, <1>2, <1>6, OriginKnown
<1>8. \E s \in Subscriptions : s[2] = h /\ IsPrefix(s[1], input.name)
  <2>1. na \in Lookup(subTable[r], input.name)
    BY <1>5 DEF Goes
  <2>2. PICK c \in subTable[r] : IsPrefix(c[1], input.name) /\ na = c[2]
    BY <2>1 DEF Lookup
  <2>3. <<c[1], h>> \in Subscriptions
    BY <1>3, <2>2 DEF Subscriptions
  <2>4. <<c[1], h>>[2] = h /\ <<c[1], h>>[1] = c[1]
    OBVIOUS
  <2> QED
    BY <2>2, <2>3, <2>4
<1>9. /\ m.id \in DOMAIN Published
      /\ Published[m.id] = Publication(input)
  BY <1>1, <1>2, <1>4 DEF Published
<1>10. /\ Publication(input).name = input.name
       /\ Publication(input).from = input.from
       /\ Publication(input).direct = (input.kind = "direct")
  BY DEF Publication
<1>11. \E s \in Subscriptions : s[2] = h /\ P!IsPrefix(s[1], Published[m.id].name)
  BY <1>8, <1>9, <1>10, SamePrefix
<1>12. ~(Published[m.id].direct /\ Published[m.id].from = h)
  BY <1>7, <1>9, <1>10
<1>13. m.id \in P!Called(h)
  BY <1>9, <1>11, <1>12 DEF P!Called
<1> QED
  BY <1>13 DEF m, p

LEMMA SendDelivers ==
  ASSUME IInv, NEW r \in Routers, Send(r),
         \A h \in Hosts : \A i, j \in DOMAIN received'[h] : received'[h][i] = received'[h][j] => i = j
  PROVE  \E hosts \in SUBSET Hosts : P!Deliver(hosts)
<1> DEFINE p == Head(arpQueue[r])
           id == p.message.id
           ids(h) == Ids(Frames(r, <<p>>, h))
           hosts == {h \in Hosts : ids(h) # <<>>}
           given == [h \in hosts |-> id]
<1>1. arpQueue[r] # <<>> /\ Transmit(r, <<p>>) /\ UNCHANGED tables /\ UNCHANGED produced
  BY DEF Send
<1>2. \A h \in Hosts : received'[h] = received[h] \o ids(h)
  BY <1>1 DEF Transmit, Ids
<1>3. /\ Static /\ r \in Nodes
      /\ \A h \in Hosts : received[h] \in Seq(1..MaxInputs)
  BY NowTyped DEF IInv, Nodes
<1>4. \E s : Fanned(r, <<p>>, {p.nextHop}) /\ Carry(r, <<p>>, id, s) /\ <<p>> \in Seq(Packets)
  BY <1>1, FirstSent
<1>5. id \in 1..MaxInputs
  <2>1. p \in Packets
    BY <1>1, FirstSent
  <2> HIDE DEF p
  <2>2. p.message \in Messages
    BY <2>1 DEF Packets
  <2> QED
    BY <2>2, MessagesAre
<1> HIDE DEF p, id
<1>6. ASSUME NEW h \in Hosts
      PROVE  ids(h) = <<>> \/ (ids(h) = <<id>> /\ Arrives(r, p, h))
  <2>1. ids(h) = <<>> \/ (ids(h) = <<id>> /\ \E i \in 1..Len(<<p>>) : Arrives(r, <<p>>[i], h))
    <3>1. PICK s : Fanned(r, <<p>>, {p.nextHop}) /\ Carry(r, <<p>>, id, s) /\ <<p>> \in Seq(Packets)
      BY <1>4
    <3> QED
      BY <1>3, <3>1, BroughtGot
  <2>2. \A i \in 1..Len(<<p>>) : <<p>>[i] = p
    OBVIOUS
  <2> HIDE DEF ids
  <2> QED
    BY <2>1, <2>2
<1> HIDE DEF ids
<1>7. ASSUME NEW h \in Hosts
      PROVE  /\ h \in hosts => received'[h] = Append(received[h], id)
             /\ h \notin hosts => received'[h] = received[h]
  <2>1. received[h] \in Seq(1..MaxInputs) /\ received'[h] = received[h] \o ids(h)
    BY <1>2, <1>3
  <2>2. CASE h \in hosts
    <3>1. received'[h] = received[h] \o <<id>>
      BY <1>6, <2>1, <2>2
    <3> QED
      BY <1>5, <2>1, <2>2, <3>1, AppendIsConcat
  <2>3. CASE h \notin hosts
    <3>1. received'[h] = received[h] \o <<>>
      BY <2>1, <2>3
    <3> QED
      BY <2>1, <2>3, <3>1, ConcatEmptySeq
  <2> QED
    BY <2>2, <2>3
<1>8. ASSUME NEW h \in hosts PROVE id \in P!Owed(h)
  <2>1. id \in P!Called(h)
    <3>1. Arrives(r, p, h)
      BY <1>6
    <3>2. Arrives(r, Head(arpQueue[r]), h)
      BY <3>1 DEF p
    <3> QED
      BY <1>1, <3>2, SentCalled DEF id, p
  <2>2. ASSUME NEW i \in DOMAIN received[h], received[h][i] = id PROVE FALSE
    <3> DEFINE n == Len(received[h]) + 1
    <3>1. received[h] \in Seq(1..MaxInputs) /\ received'[h] = Append(received[h], id)
      BY <1>3, <1>7
    <3>2. /\ Len(received[h]) \in Nat /\ DOMAIN received[h] = 1..Len(received[h])
          /\ DOMAIN received'[h] = 1..n
      BY <1>5, <3>1, AppendProperties, LenProperties
    <3>3. received'[h][n] = id /\ received'[h][i] = id
      BY <1>5, <2>2, <3>1, <3>2, AppendProperties
    <3>4. i \in DOMAIN received'[h] /\ n \in DOMAIN received'[h] /\ i # n
      BY <3>2
    <3> QED
      BY <3>3, <3>4
  <2> QED
    BY <2>1, <2>2 DEF P!Owed
<1>9. received' = [h \in Hosts |-> IF h \in hosts THEN Append(received[h], given[h]) ELSE received[h]]
  <2>1. \A h \in hosts : given[h] = id
    OBVIOUS
  <2>2. \A h \in Hosts : received'[h] = IF h \in hosts THEN Append(received[h], given[h]) ELSE received[h]
    BY <1>7, <2>1
  <2>3. received' = [h \in Hosts |-> received'[h]]
    BY <1>1 DEF Transmit
  <2> QED
    BY <2>2, <2>3
<1>10. given \in [hosts -> UNION {P!Owed(h) : h \in hosts}] /\ \A h \in hosts : given[h] \in P!Owed(h)
  BY <1>8
<1>11. UNCHANGED <<Subscriptions, Published>>
  BY <1>1, SubscriptionsSame DEF Published, Publication
<1> HIDE DEF given
<1>12. P!Deliver(hosts)
  BY <1>9, <1>10, <1>11 DEF P!Deliver
<1> QED
  BY <1>12

LEMMA ProducePublishes ==
  ASSUME IInv, NEW input \in net.inputs, Produce(input)
  PROVE  [P!Next]_(P!vars)
<1> DEFINE h == input.from
           id == Len(produced) + 1
           Sort(x) == x.kind # "subscription"
<1>1. /\ produced \in Seq(net.inputs) /\ Len(produced) < MaxInputs
      /\ produced' = Append(produced, input) /\ UNCHANGED tables
      /\ \E ps \in Outcomes(Outgoing(input, Len(produced'))) : Transmit(h, ps)
  BY DEF IInv, TypeOK, Produce
<1>2. /\ Len(produced) \in Nat /\ Len(produced') = id /\ produced' \in Seq(net.inputs)
      /\ DOMAIN produced = 1..Len(produced) /\ DOMAIN produced' = 1..id
      /\ produced'[id] = input /\ \A i \in 1..Len(produced) : produced'[i] = produced[i]
  BY <1>1, AppendProperties, LenProperties
<1>3. id \in 1..MaxInputs /\ id \notin 1..Len(produced) /\ 1..id = 1..Len(produced) \cup {id}
  BY <1>1, <1>2, BoundAssumption
<1>4. Static /\ h \in Hosts /\ h \in Nodes
  BY InputKnown DEF IInv
<1>5. received' = received
  <2>1. PICK ps \in Outcomes(Outgoing(input, id)) : Transmit(h, ps)
    BY <1>1, <1>2
  <2>2. ps \in Seq(Packets) /\ \E nas : Fanned(h, ps, nas)
    BY <1>3, <1>4, OutgoingAre
  <2> HIDE DEF h, id
  <2>3. ASSUME NEW n \in Hosts PROVE Frames(h, ps, n) = <<>>
    <3>1. n \in Nodes /\ n \notin Routers
      BY NodesAssumption DEF Nodes
    <3>2. ASSUME NEW i \in 1..Len(ps), Arrives(h, ps[i], n) PROVE FALSE
      BY <1>4, <3>1, <3>2, LeadsOn DEF Arrives
    <3> QED
      BY <2>2, <3>1, <3>2, FramesAre
  <2>4. ASSUME NEW n \in Hosts PROVE received'[n] = received[n]
    <3>1. received[n] \in Seq(1..MaxInputs)
      BY NowTyped DEF IInv
    <3>2. received'[n] = received[n] \o Ids(Frames(h, ps, n))
      BY <2>1 DEF Transmit, Ids
    <3>3. Ids(<<>>) = <<>>
      BY DEF Ids
    <3>4. received'[n] = received[n] \o <<>>
      BY <2>3, <3>2, <3>3
    <3> QED
      BY <3>1, <3>4, ConcatEmptySeq
  <2>5. received' = [n \in Hosts |-> received'[n]]
    BY <2>1 DEF Transmit
  <2>6. received \in [Hosts -> Seq(1..MaxInputs)]
    BY DEF IInv, TypeOK
  <2> QED
    BY <2>4, <2>5, <2>6
<1>6. Subscriptions' = Subscriptions
  BY <1>1, SubscriptionsSame
<1>7. /\ DOMAIN Published = {i \in 1..Len(produced) : Sort(produced[i])}
      /\ \A i \in DOMAIN Published : Published[i] = Publication(produced[i])
      /\ DOMAIN Published' = {i \in 1..id : Sort(produced'[i])}
      /\ Published' = [i \in DOMAIN Published' |-> Publication(produced'[i])]
      /\ Published = [i \in DOMAIN Published |-> Publication(produced[i])]
  <2>1. Published' = [i \in {k \in DOMAIN produced' : produced'[k].kind # "subscription"} |->
                        Publication(produced'[i])]
    BY DEF Published, Publication
  <2> QED
    BY <1>2, <2>1 DEF Published
<1>8. CASE input.kind = "subscription"
  <2>1. DOMAIN Published' = DOMAIN Published
    BY <1>2, <1>3, <1>7, <1>8
  <2>2. \A i \in DOMAIN Published : Publication(produced'[i]) = Publication(produced[i])
    BY <1>2, <1>7
  <2>3. Published' = Published
    BY <1>7, <2>1, <2>2
  <2> QED
    BY <1>5, <1>6, <2>3 DEF P!vars
<1>9. CASE input.kind # "subscription"
  <2>1. id \notin DOMAIN Published
    BY <1>3, <1>7
  <2>2. DOMAIN Published' = DOMAIN Published \cup {id}
    BY <1>2, <1>3, <1>7, <1>9
  <2>3. \A i \in DOMAIN Published' :
          Publication(produced'[i]) = IF i = id THEN Publication(input) ELSE Published[i]
    BY <1>2, <1>3, <1>7, <2>2
  <2>4. Published' = [i \in DOMAIN Published \cup {id} |->
                        IF i = id THEN Publication(input) ELSE Published[i]]
    BY <1>7, <2>2, <2>3
  <2>5. P!Publish(id, Publication(input))
    BY <1>5, <1>6, <2>1, <2>4 DEF P!Publish
  <2>6. Publication(input) \in {Publication(x) : x \in UNION {n.inputs : n \in Networks}}
    BY <1>4 DEF Static
  <2> QED
    BY <1>3, <2>5, <2>6 DEF P!Next
<1> QED
  BY <1>8, <1>9

(* Whichever way a publication takes, and although the tree is walked both *)
(* ways from wherever it enters, a host gets it once if it subscribes to a *)
(* prefix of its name and did not publish it itself without an RP, and     *)
(* otherwise not at all.                                                   *)
THEOREM HRCNetworkImplementsNamePubSub == Spec => ImplementsNamePubSub
<1>1. ASSUME Init PROVE P!Init
  <2>1. produced = <<>> /\ received = [h \in Hosts |-> <<>>]
    BY <1>1 DEF Init
  <2>2. {i \in DOMAIN produced : produced[i].kind # "subscription"} = {}
    BY <2>1
  <2>3. Published = [id \in {} |-> <<>>]
    BY <2>2 DEF Published
  <2> QED
    BY <2>1, <2>3 DEF P!Init
<1>2. ASSUME IInv, IInv', [Next]_vars PROVE [P!Next]_(P!vars)
  <2>1. CASE \E input \in net.inputs : Produce(input)
    BY <1>2, <2>1, ProducePublishes
  <2>2. CASE \E r \in Routers : Send(r)
    <3>1. PICK r \in Routers : Send(r)
      BY <2>2
    <3>2. IInv' => (\A h \in Hosts : \A i, j \in DOMAIN received[h] :
                      received[h][i] = received[h][j] => i = j)'
      BY DeliveredOnce, PTL
    <3>3. \A h \in Hosts : \A i, j \in DOMAIN received'[h] :
            received'[h][i] = received'[h][j] => i = j
      BY <1>2, <3>2
    <3>4. \E hosts \in SUBSET Hosts : P!Deliver(hosts)
      BY <1>2, <3>1, <3>3, SendDelivers
    <3> QED
      BY <3>4 DEF P!Next
  <2>3. CASE UNCHANGED tables /\ UNCHANGED produced /\ UNCHANGED received
    BY <2>3, SubscriptionsSame DEF P!vars, Published, Publication
  <2>4. \/ \E input \in net.inputs : Produce(input)
        \/ \E r \in Routers : Send(r)
        \/ UNCHANGED tables /\ UNCHANGED produced /\ UNCHANGED received
    BY <1>2 DEF Next, Work, Receive, vars
  <2> QED
    BY <2>1, <2>2, <2>3, <2>4
<1> QED
  BY <1>1, <1>2, HRCTokensInOrder, PTL DEF Spec, ImplementsNamePubSub, P!Spec
=============================================================================
