------------------------------- MODULE PubSub -------------------------------
(***************************************************************************)
(* What a network of GPS routers promises: every publication is delivered  *)
(* to the subscribers of its GUID and of the descendants of its GUID, once *)
(* for each, to nobody else.                                               *)
(***************************************************************************)
EXTENDS Naturals, Sequences, GuidGraph

CONSTANTS Hosts, Publications   \* Publications: records with a field guid

VARIABLES
  graph,          \* GUID to children
  subscribers,    \* GUID to the hosts that subscribe
  published,      \* the publications, in order; the id of one is its place
  delivered       \* what each host was given: a sequence of [id, guid]

vars == <<graph, subscribers, published, delivered>>

Init ==
  /\ published = <<>>
  /\ delivered = [h \in Hosts |-> <<>>]

Subscribers(g) == IF g \in DOMAIN subscribers THEN subscribers[g] ELSE {}

(* The deliveries to host h that the publications call for.                *)
Called(h) ==
  UNION {{[id |-> id, guid |-> g] :
            g \in {d \in Descendants(graph, published[id].guid) : h \in Subscribers(d)}} :
         id \in DOMAIN published}

Owed(h) == Called(h) \ {delivered[h][i] : i \in DOMAIN delivered[h]}

Publish(publication) ==
  /\ published' = Append(published, publication)
  /\ UNCHANGED <<graph, subscribers, delivered>>

(* A broadcast reaches several hosts at once.                              *)
Deliver(hosts) ==
  /\ \E given \in [hosts -> UNION {Owed(h) : h \in hosts}] :
       /\ \A h \in hosts : given[h] \in Owed(h)
       /\ delivered' = [h \in Hosts |-> IF h \in hosts THEN Append(delivered[h], given[h])
                                        ELSE delivered[h]]
  /\ UNCHANGED <<graph, subscribers, published>>

Next ==
  \/ \E publication \in Publications : Publish(publication)
  \/ \E hosts \in SUBSET Hosts : Deliver(hosts)

Spec == Init /\ [][Next]_vars
=============================================================================
