----------------------------- MODULE HRCNetwork -----------------------------
(***************************************************************************)
(* Publications in a network of HRC routers wired as in ben-router.click.  *)
(* A router is two queues, each emptied by a task of its own: the first    *)
(* holds what the links bring and its task runs every element up to the    *)
(* second, whose task runs the ARP table and the links.  A host is a click *)
(* script without a queue before its links: it publishes in one step.      *)
(*                                                                         *)
(* There are two ways to publish: in an interest to the RP of the name     *)
(* (ben-client-1.interest.click), or straight into the tree of subscribers *)
(* (ben-client-1.pub.click).  At an RP, which no script of the benchmarks  *)
(* sets up, HRC_RP stands between the FIB and the subscription table as in *)
(* test3.click and test5.click.                                            *)
(*                                                                         *)
(* A definition whose name starts with Slip is a mistake the code does not *)
(* make.                                                                   *)
(***************************************************************************)
EXTENDS HRCTables, Digraph

CONSTANTS
  Routers, Hosts,    \* by their NAs; they are also their Ethernet addresses
  Networks,          \* the configured networks: records of the fields below
  MaxInputs          \* bound: what the hosts send

Nodes == Routers \cup Hosts

ASSUME NodesAssumption == Routers \cap Hosts = {}

ASSUME BoundAssumption == MaxInputs \in Nat

(* The nodes that x has a link to.                                         *)
LinkedIn(n, x) == UNION {n.wires[x][port] : port \in DOMAIN n.wires[x]}

(* A network: the files of each node (a host has all of them, a router no  *)
(* GNRS file, a file that is not used is empty), the nodes at each port,   *)
(* the routers that are RPs, what the hosts send, the size of queues.      *)
(* Links go both ways, and a host has none to another host.                *)
ASSUME NetworksAssumption ==
  \A n \in Networks :
    /\ DOMAIN n = {"rps", "subFile", "fibFile", "arpFile", "gnrsFile", "wires",
                   "inputs", "capacity"}
    /\ n.rps \subseteq Routers
    /\ \A input \in n.inputs :
         /\ input.from \in Hosts
         /\ input.kind \in {"interest", "direct", "subscription"}
    /\ n.capacity \in Nat \ {0}
    /\ \A x \in Nodes : IsFiniteSet(DOMAIN n.subFile[x]) /\ DOMAIN n.arpFile[x] \subseteq Nat
    /\ \A x \in Nodes : \A y \in LinkedIn(n, x) : y \in Nodes /\ x \in LinkedIn(n, y)
    /\ \A h \in Hosts : LinkedIn(n, h) \subseteq Routers

VARIABLES
  net,           \* the network
  subTable,      \* _table of HRC_SubscriptionTable, of each node
  fib,           \* _interestTable of HRC_FIB
  neighbours,    \* _naAddresses; _inverseNaAddresses is its inverse
  gnrs,          \* _table of HRC_PublicationEncapsulator and HRC_GNRSCache
  inQueue,       \* of each router: [message, from], from an address
  arpQueue,      \* of each router: [message, nextHop]
  produced,      \* what the hosts sent
  received,      \* the ids of the publications each host got
  overflowed     \* a queue was full when a packet came

tables == <<net, subTable, fib, neighbours, gnrs>>
vars == <<tables, inQueue, arpQueue, produced, received, overflowed>>

(* The packets: an interest carries the name of its RP, a publication and  *)
(* a subscription their own name only.  The id is not in the code: it is   *)
(* the place among what the hosts sent.                                    *)
NoName == <<>>
InterestMessage(id, name, rp) ==
  [type |-> "interest", id |-> id, name |-> name, rp |-> rp]
PublicationMessage(id, name) ==
  [type |-> "publication", id |-> id, name |-> name, rp |-> NoName]
SubscriptionMessage(id, name) ==
  [type |-> "subscription", id |-> id, name |-> name, rp |-> NoName]

-----------------------------------------------------------------------------
(* The links.                                                              *)

(* What a node annotates a packet from node x with, PREV_HOP_IP is never.  *)
From(n, x) ==
  [port |-> CHOOSE port \in DOMAIN net.wires[n] : x \in net.wires[n][port],
   ether |-> x, ip |-> NoIp]

(* The NAs with an entry that a packet for next hop na is sent to.         *)
Resolved(x, na) ==
  IF na = BroadcastNa THEN DOMAIN neighbours[x] ELSE {na} \cap DOMAIN neighbours[x]

(* The entries of them that lead to node n: the port is cut to 8 bits.     *)
Leading(x, na, n) ==
  {e \in Resolved(x, na) :
     LET port == neighbours[x][e].port % PortValues
     IN  /\ neighbours[x][e].ether = n
         /\ port \in DOMAIN net.wires[x] /\ n \in net.wires[x][port]}

(* HRC_ARPTable, HRC_PortSwitch and the links: what node n gets when node  *)
(* x sends the packets ps.  A host has use for publications only.          *)
Frames(x, ps, n) ==
  LET sent == {i \in DOMAIN ps : n \in Routers \/ ps[i].message.type = "publication"}
  IN  FlattenSeq([i \in DOMAIN ps |->
        [j \in 1..(IF i \in sent THEN Cardinality(Leading(x, ps[i].nextHop, n)) ELSE 0) |->
           [message |-> ps[i].message, from |-> From(n, x)]]])

-----------------------------------------------------------------------------
(* The elements: the packets, each with its next hop, that one makes of a  *)
(* message.                                                                *)

(* The previous hop is not left out.                                       *)
SlipCopies(x, m, prevHop) ==
  {[i \in DOMAIN w |-> [message |-> m, nextHop |-> w[i]]] :
     w \in SetToSeqs(Lookup(subTable[x], m.name))}

(* HRC_SubscriptionTable: a copy for every NA but that of the sender.      *)
Copies(x, m, prevHop) ==
  {[i \in DOMAIN w |-> [message |-> m, nextHop |-> w[i]]] :
     w \in SetToSeqs(Lookup(subTable[x], m.name) \ {prevHop})}

(* HRC_FIB: towards the name of an RP.                                     *)
NextHop(x, rp) == LongestPrefixMatch(fib[x], rp) \ {x}
Forwarded(x, m, rp) == {<<[message |-> m, nextHop |-> na]>> : na \in NextHop(x, rp)}

ToLocal(x, rp) == x \in LongestPrefixMatch(fib[x], rp)

(* The publication keeps the NA the interest came from.                    *)
SlipAtRP(r, m, prevHop) == Copies(r, PublicationMessage(m.id, m.name), prevHop)

(* HRC_RP: the publication out of the interest, without a previous hop.    *)
AtRP(r, m, prevHop) == Copies(r, PublicationMessage(m.id, m.name), EmptyNa)

(* From the input queue on.  A packet is thrown away when the FIB has no   *)
(* entry or is not at an RP; HRC_SubscriptionTable kills subscriptions.    *)
Handled(r, m, prevHop) ==
  CASE m.type = "publication" -> Copies(r, m, prevHop)
    [] m.type = "interest" ->
         IF ToLocal(r, m.rp) /\ r \in net.rps THEN AtRP(r, m, prevHop)
         ELSE Forwarded(r, m, m.rp)
    [] m.type = "subscription" -> {}

(* HRC_PublicationEncapsulator, HRC_GNRSCache: the name of the RP.         *)
RPOf(h, name) == LongestPrefixMatch(gnrs[h], name)

(* The scripts of the hosts.                                               *)
Outgoing(input, id) ==
  LET h == input.from
  IN  CASE input.kind = "direct" ->
             Copies(h, PublicationMessage(id, input.name), EmptyNa)
        [] input.kind = "interest" ->
             UNION {Forwarded(h, InterestMessage(id, input.name, rp), rp) :
                      rp \in RPOf(h, input.name)}
        [] input.kind = "subscription" ->
             UNION {Forwarded(h, SubscriptionMessage(id, input.name), rp) :
                      rp \in RPOf(h, input.name)}

-----------------------------------------------------------------------------
(* What the files of a network must agree on for it to work.               *)

(* The NAs by which node n knows node x as a sender; none: n discards what *)
(* x sends.                                                                *)
KnownAs(n, x) == SenderNas(neighbours[n], From(n, x))
Hears(n, x) == n \in Hosts \/ KnownAs(n, x) # {}

(* The ways in which packets for the NAs nas leave node x for node n.      *)
Links(x, nas, n) == UNION {{na} \X Leading(x, na, n) : na \in nas}

(* The way of an interest ends, and at one place: no cycle, no fork, one   *)
(* frame for each step.                                                    *)
Ways(rp) ==
  [x \in Nodes |-> {n \in Routers : Links(x, NextHop(x, rp), n) # {} /\ Hears(n, x)}]
InterestsLead(h, rp) ==
  LET way == Descendants(Ways(rp), h)
  IN  /\ \E d \in way : Ways(rp)[d] = {}
      /\ \A x \in way : \A m, n \in Ways(rp)[x] : m = n
      /\ \A x \in way, n \in Nodes : \A a, b \in Links(x, NextHop(x, rp), n) : a = b

(* The nodes from which the copies of a publication spread.                *)
Origins(input) ==
  IF input.kind = "direct" THEN {input.from}
  ELSE {r \in net.rps : \E rp \in RPOf(input.from, input.name) :
          ToLocal(r, rp) /\ r \in Descendants(Ways(rp), input.from)}

(* From a root the subscriptions are a tree: without the link between two  *)
(* nodes one of them is not reached.  It may be walked both ways: where a  *)
(* link leads back, it is to the NA the sender is known by.                *)
Spread(name, root) ==
  [x \in Routers \cup {root} |->
     {n \in Nodes : Links(x, Lookup(subTable[x], name), n) # {} /\ Hears(n, x)}]
Reached(name, root) == Descendants(Spread(name, root), root)
TreeGrows(name, root) ==
  LET spread == Spread(name, root)
      Copied(x, n) == Links(x, Lookup(subTable[x], name), n)
  IN  \A x \in Reached(name, root) \cap DOMAIN spread :
        /\ \A n \in Nodes : \A a, b \in Copied(x, n) : a = b
        /\ \A n \in spread[x] :
             /\ ~({x, n} \subseteq Descendants(WithoutLink(spread, x, n), root))
             /\ x \in ChildrenIn(spread, n) => \A a \in Copied(n, x) : a[1] \in KnownAs(n, x)

(* The subscriptions of the hosts: the names that lead to them.            *)
Subscriptions ==
  UNION {UNION {{c[1]} \X {h \in Hosts : Leading(r, c[2], h) # {}} : c \in subTable[r]} :
           r \in Routers}
Excluded(input) == IF input.kind = "direct" THEN {input.from} ELSE {}
Subscribers(input) ==
  {s[2] : s \in {t \in Subscriptions : IsPrefix(t[1], input.name)}} \ Excluded(input)

Consistent ==
  \A input \in net.inputs :
    /\ input.kind # "direct" =>
         \A rp \in RPOf(input.from, input.name) : InterestsLead(input.from, rp)
    /\ input.kind # "subscription" =>
         /\ \A root \in Origins(input) : TreeGrows(input.name, root)
         /\ Subscribers(input) =
              UNION {Reached(input.name, root) \cap Hosts : root \in Origins(input)}
                \ Excluded(input)

Init ==
  /\ net \in Networks
  /\ subTable = [x \in Nodes |-> SubscriptionsOf(net.subFile[x])]
  /\ fib = [x \in Nodes |-> InterestTableOf(net.fibFile[x])]
  /\ neighbours = [x \in Nodes |-> NeighboursOf(net.arpFile[x])]
  /\ gnrs = [h \in Hosts |-> InterestTableOf(net.gnrsFile[h])]
  /\ Consistent
  /\ inQueue = [r \in Routers |-> <<>>]
  /\ arpQueue = [r \in Routers |-> <<>>]
  /\ produced = <<>> /\ overflowed = FALSE
  /\ received = [h \in Hosts |-> <<>>]

-----------------------------------------------------------------------------
(* The tasks.                                                              *)

(* Nothing is thrown away.                                                 *)
SlipFitting(packets) == packets

(* ThreadSafeQueue: what comes when it is full is thrown away.             *)
Fitting(packets) ==
  IF Len(packets) <= net.capacity THEN packets ELSE SubSeq(packets, 1, net.capacity)

Overflows(queues) == \E r \in Routers : Len(queues[r]) > net.capacity

(* Node x puts the packets ps on its links.                                *)
Transmit(x, ps) ==
  LET arriving == [r \in Routers |-> inQueue[r] \o Frames(x, ps, r)]
  IN  /\ inQueue' = [r \in Routers |-> Fitting(arriving[r])]
      /\ overflowed' = (overflowed \/ Overflows(arriving))
      /\ received' = [h \in Hosts |->
           LET frames == Frames(x, ps, h)
           IN  received[h] \o [i \in DOMAIN frames |-> frames[i].message.id]]

(* One of the outcomes, nothing when there is none.                        *)
Outcomes(alternatives) == IF alternatives = {} THEN {<<>>} ELSE alternatives

Produce(input) ==
  /\ Len(produced) < MaxInputs
  /\ produced' = Append(produced, input)
  /\ \E ps \in Outcomes(Outgoing(input, Len(produced'))) : Transmit(input.from, ps)
  /\ UNCHANGED <<tables, arpQueue>>

(* handleInPacket finds the NA of the sender, and the elements push what   *)
(* they make of the message to the second queue.                           *)
Receive(r) ==
  /\ inQueue[r] # <<>>
  /\ inQueue' = [inQueue EXCEPT ![r] = Tail(@)]
  /\ LET frame == Head(inQueue[r])
         handled == UNION {Handled(r, frame.message, na) :
                             na \in SenderNas(neighbours[r], frame.from)}
     IN  \E ps \in Outcomes(handled) :
           LET pushed == [arpQueue EXCEPT ![r] = @ \o ps]
           IN  /\ arpQueue' = [pushed EXCEPT ![r] = Fitting(@)]
               /\ overflowed' = (overflowed \/ Overflows(pushed))
  /\ UNCHANGED <<tables, produced, received>>

(* The last packet is taken.                                               *)
SlipSend(r) ==
  /\ arpQueue[r] # <<>>
  /\ arpQueue' = [arpQueue EXCEPT ![r] = Front(@)]
  /\ Transmit(r, <<Last(arpQueue[r])>>)
  /\ UNCHANGED <<tables, produced>>

Send(r) ==
  /\ arpQueue[r] # <<>>
  /\ arpQueue' = [arpQueue EXCEPT ![r] = Tail(@)]
  /\ Transmit(r, <<Head(arpQueue[r])>>)
  /\ UNCHANGED <<tables, produced>>

Work == \E r \in Routers : Receive(r) \/ Send(r)

Next == Work \/ \E input \in net.inputs : Produce(input)

Spec == Init /\ [][Next]_vars

(* The tasks keep running.                                                 *)
FairSpec == Spec /\ WF_vars(Work)

-----------------------------------------------------------------------------
(* Properties.                                                             *)

Names == {input.name : input \in net.inputs}
RPs == UNION {RPOf(input.from, input.name) : input \in net.inputs}
Messages ==
  {InterestMessage(id, name, rp) : id \in 1..MaxInputs, name \in Names, rp \in RPs}
  \cup {PublicationMessage(id, name) : id \in 1..MaxInputs, name \in Names}
  \cup {SubscriptionMessage(id, name) : id \in 1..MaxInputs, name \in Names}

(* The next hops that the tables name for them.                            *)
NextHops ==
  (UNION {NextHop(x, rp) : x \in Nodes, rp \in RPs})
    \cup UNION {Lookup(subTable[x], name) : x \in Nodes, name \in Names}

(* The types, and no queue beyond its capacity.                            *)
TypeOK ==
  /\ net \in Networks
  /\ DOMAIN inQueue = Routers /\ DOMAIN arpQueue = Routers
  /\ \A r \in Routers :
       /\ inQueue[r] \in Seq([message : Messages, from : {From(r, x) : x \in LinkedIn(net, r)}])
       /\ arpQueue[r] \in Seq([message : Messages, nextHop : NextHops])
       /\ Len(inQueue[r]) <= net.capacity /\ Len(arpQueue[r]) <= net.capacity
  /\ produced \in Seq(net.inputs)
  /\ received \in [Hosts -> Seq(1..MaxInputs)]
  /\ overflowed \in BOOLEAN

(* What a host sends twice, in the same way, arrives in the order it was   *)
(* sent, wherever interests become publications and branches meet.         *)
InOrder ==
  \A h \in Hosts : \A i, j \in DOMAIN received[h] :
    i < j /\ produced[received[h][i]] = produced[received[h][j]] =>
      received[h][i] < received[h][j]

(* What was published, by number.                                          *)
Publication(input) ==
  [from |-> input.from, name |-> input.name, direct |-> input.kind = "direct"]
Published ==
  [id \in {i \in DOMAIN produced : produced[i].kind # "subscription"} |->
     Publication(produced[id])]

P == INSTANCE NamePubSub WITH
       Ids <- 1..MaxInputs,
       Publications <- {Publication(input) : input \in UNION {n.inputs : n \in Networks}},
       subscriptions <- Subscriptions, published <- Published, delivered <- received

(* Whichever way a publication takes, and although the tree is walked both *)
(* ways from wherever it enters, a host gets it once if it subscribes to a *)
(* prefix of its name, and otherwise not at all.                           *)
ImplementsNamePubSub == P!Spec

(* Nobody is left out, unless a queue was full.                            *)
EverythingDelivered ==
  \A id \in 1..MaxInputs :
    (id \in DOMAIN Published) ~> (overflowed \/ \A h \in Hosts : id \notin P!Owed(h))

Quiet == \A r \in Routers : inQueue[r] = <<>> /\ arpQueue[r] = <<>>

(* No copy goes back and forth for ever: the network falls silent.         *)
Settles == <>[]Quiet
=============================================================================
