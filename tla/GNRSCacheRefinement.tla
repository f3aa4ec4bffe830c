------------------------ MODULE GNRSCacheRefinement -------------------------
(***************************************************************************)
(* GNRSCache implements Resolver.  A lookup takes effect when the thread   *)
(* finds the entry, a response when the handler writes it: from then on    *)
(* the packets of the batch count as resolved, although the loop that      *)
(* emits them takes many steps.                                            *)
(***************************************************************************)
EXTENDS GNRSCache

DataIds == 1..MaxArrivals["data"]

BatchIds(g) == {pendingPackets[g][i].id : i \in DOMAIN pendingPackets[g]}

BeingFlushed(g) == \E t \in Threads : Flushing(t, g)

(* The NAs packet id has been given: normally none or one.                 *)
Given(id) ==
  {s.packet.dstNa : s \in Out(id)}
  \cup {hand[t].dstNa : t \in InHand(id)}
  \cup {hand[t].na : t \in {t \in Threads : /\ pc[t] = "responseFlush"
                                            /\ id \in BatchIds(hand[t].guid)}}

AddressOf(id) ==
  IF Given(id) \subseteq {EmptyNa} THEN EmptyNa
                                  ELSE CHOOSE na \in Given(id) \ {EmptyNa} : TRUE

R == INSTANCE Resolver WITH
       Ids        <- DataIds,
       Unresolved <- EmptyNa,
       binding    <- guidNas,
       waiting    <- [g \in Guids |-> IF BeingFlushed(g) THEN {} ELSE BatchIds(g)],
       address    <- [id \in DataIds |-> AddressOf(id)],
       asked      <- {g \in Guids : OwnRequests(g) # {}}

(* Every behaviour of the threaded cache is one of the atomic resolver: no *)
(* interleaving of the handlers gives a packet an address the cache did    *)
(* not hold when it looked, or leaves one waiting past the first binding.  *)
ImplementsResolver == R!Spec
=============================================================================
