----------------------------- MODULE NamePubSub -----------------------------
(***************************************************************************)
(* What a network of HRC routers promises: every publication is delivered  *)
(* to the hosts that subscribe to its name or to a prefix of it, once to   *)
(* each, to nobody else.  A host that publishes without an RP does not get *)
(* its own publications.                                                   *)
(***************************************************************************)
EXTENDS Naturals, Sequences, SequencesExt

CONSTANTS
  Hosts,
  Ids,           \* the numbers a publication can have
  Publications   \* records with the fields from, name and direct

VARIABLES
  subscriptions,  \* the pairs of a name and a host
  published,      \* the publications, by number
  delivered       \* the ids of the publications each host was given

vars == <<subscriptions, published, delivered>>

Init ==
  /\ published = [id \in {} |-> <<>>]
  /\ delivered = [h \in Hosts |-> <<>>]

Called(h) ==
  {id \in DOMAIN published :
     /\ \E s \in subscriptions : s[2] = h /\ IsPrefix(s[1], published[id].name)
     /\ ~(published[id].direct /\ published[id].from = h)}

Owed(h) == Called(h) \ {delivered[h][i] : i \in DOMAIN delivered[h]}

Publish(id, publication) ==
  /\ id \notin DOMAIN published
  /\ published' = [i \in DOMAIN published \cup {id} |->
                     IF i = id THEN publication ELSE published[i]]
  /\ UNCHANGED <<subscriptions, delivered>>

(* A broadcast reaches several hosts at once.                              *)
Deliver(hosts) ==
  /\ \E given \in [hosts -> UNION {Owed(h) : h \in hosts}] :
       /\ \A h \in hosts : given[h] \in Owed(h)
       /\ delivered' = [h \in Hosts |-> IF h \in hosts THEN Append(delivered[h], given[h])
                                        ELSE delivered[h]]
  /\ UNCHANGED <<subscriptions, published>>

Next ==
  \/ \E id \in Ids, publication \in Publications : Publish(id, publication)
  \/ \E hosts \in SUBSET Hosts : Deliver(hosts)

Spec == Init /\ [][Next]_vars
=============================================================================
