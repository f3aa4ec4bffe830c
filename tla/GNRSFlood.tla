----------------------------- MODULE GNRSFlood ------------------------------
(***************************************************************************)
(* The caches of a network of GPS routers and the packets of the GNRS, for *)
(* one GUID.  When the binding of the GUID changes the GNRS broadcasts it: *)
(* every router passes the response on to all its neighbours, the one it   *)
(* came from included, and only the nonces end the flood.  A router with a *)
(* packet for the GUID asks the GNRS, and every cache on the way answers.  *)
(*                                                                         *)
(* A router has the two queues of ben-rp.click that GNRS packets go        *)
(* through, and two threads in its cache: one runs the handlers of         *)
(* requests and responses, one the handler of data.  The handlers of data  *)
(* and of responses emit after they have released their locks: that is a   *)
(* step of its own.  An entry is its version: the GNRS does not give one   *)
(* version to two NAs.  Data packets matter as long as they are held.      *)
(*                                                                         *)
(* The GNRS is not part of the repository; it is taken to answer requests  *)
(* with the current version and to broadcast each change once.             *)
(***************************************************************************)
EXTENDS NonceFilter, FiniteSets

CONSTANTS
  Routers, GNRS,    \* by their NAs
  BroadcastNa,
  Neighbours,       \* router to the nodes its ARP table knows
  NextHop,          \* router and destination to a neighbour
  QueueCapacity,    \* of a ThreadSafeQueue
  Nobody,           \* no packet is in the hands of a thread
  MaxVersion,       \* bound: the versions of the binding
  Loads             \* bounds on what happens: records of the fields below

Nodes == Routers \cup {GNRS}
Versions == 1..MaxVersion

(* The nonce of a change: it may come again, but not soon.                 *)
NonceOf(version) == version % Cardinality(Nonces)

Request(src) == [kind |-> "request", src |-> src]
Response(dst, version, nonce) ==
  [kind |-> "response", dst |-> dst, version |-> version, nonce |-> nonce]
Answer(dst, version) == Response(dst, version, 0)
Change(version) == Response(BroadcastNa, version, NonceOf(version))

(* A load: the routers that get data for the GUID, the packets lost on     *)
(* links, the changes that are broadcast at a time.  A filter must outlast *)
(* the broadcasts that can be under way with one.                          *)
ASSUME FloodAssumption ==
  /\ IsFiniteSet(Routers) /\ GNRS \notin Routers /\ BroadcastNa \notin Nodes
  /\ Neighbours \in [Routers -> SUBSET Nodes]
  /\ \A r \in Routers : \A n \in Nodes \ {r} : NextHop[r][n] \in Neighbours[r]
  /\ QueueCapacity \in Nat \ {0} /\ MaxVersion \in Nat \ {0}
  /\ Loads \subseteq [publishing : SUBSET Routers, losses : Nat, window : Nat \ {0}]
  /\ \A load \in Loads : 2 * load.window - 1 <= NonceCacheSize
  /\ Nobody \notin {Change(version) : version \in Versions}
  /\ \A r \in Routers : Nobody \notin {Request(r)} \cup {Answer(r, v) : v \in Versions}
  /\ Cardinality(Nonces) \in Nat \ {0} /\ Nonces = 0..Cardinality(Nonces) - 1

VARIABLES
  bounds,       \* the load
  current,      \* the version the GNRS has
  cached,       \* of each router: the version of the entry, 0 for none
  held,         \* the cache holds packets for the GUID
  filter,       \* its nonces
  passing,      \* the response that its handler has yet to emit
  asking,       \* the handler of data has yet to emit its request
  inQueue, arpQueue,
  passed,       \* how often each change was passed on, 2 for more
  interested,   \* the routers that cached or held when the last change came
  losses,       \* the packets lost on links
  lostAt        \* the version when a packet was lost last, 0 for never

vars == <<bounds, current, cached, held, filter, passing, asking, inQueue, arpQueue,
          passed, interested, losses, lostAt>>

Init ==
  /\ bounds \in Loads
  /\ current = 1
  /\ cached = [r \in Routers |-> 0]
  /\ held = [r \in Routers |-> FALSE]
  /\ filter = [r \in Routers |-> EmptyFilter]
  /\ passing = [r \in Routers |-> Nobody]
  /\ asking = [r \in Routers |-> FALSE]
  /\ inQueue = [r \in Routers |-> <<>>]
  /\ arpQueue = [r \in Routers |-> <<>>]
  /\ passed = [r \in Routers |-> [v \in Versions |-> 0]]
  /\ interested = {} /\ losses = 0 /\ lostAt = 0

-----------------------------------------------------------------------------
(* The queues and links.                                                   *)

(* What does not fit into a queue is lost.                                 *)
Enqueue(queue, packet) ==
  IF Len(queue) < QueueCapacity THEN Append(queue, packet) ELSE queue

Full(queue) == Len(queue) = QueueCapacity

Dst(packet) == IF packet.kind = "request" THEN GNRS ELSE packet.dst

(* GPS_RoutingTable.                                                       *)
NextHops(r, packet) ==
  IF Dst(packet) = BroadcastNa THEN Neighbours[r] ELSE {NextHop[r][Dst(packet)]}

(* The packet goes through the routing table to the second queue.          *)
Emit(r, packet) ==
  /\ arpQueue' = [arpQueue EXCEPT ![r] = Enqueue(@, packet)]
  /\ lostAt' = IF Full(arpQueue[r]) THEN current ELSE lostAt

(* GPS_ARPTable and the links, to the next hops and maybe not to all.  The *)
(* GNRS answers a request at once.                                         *)
Send(r) ==
  /\ arpQueue[r] # <<>>
  /\ arpQueue' = [arpQueue EXCEPT ![r] = Tail(@)]
  /\ LET packet == Head(arpQueue[r])
         next == NextHops(r, packet)
     IN  \E got \in SUBSET next :
           LET asked == GNRS \in got /\ packet.kind = "request"
               Arriving(n) ==
                 IF n \in got THEN packet ELSE Answer(packet.src, current)
               enqueued == (got \cap Routers) \cup (IF asked THEN {r} ELSE {})
           IN  /\ losses' = losses + Cardinality(next \ got)
               /\ losses' <= bounds.losses
               /\ inQueue' = [n \in Routers |->
                    IF n \in enqueued THEN Enqueue(inQueue[n], Arriving(n)) ELSE inQueue[n]]
               /\ lostAt' = IF got # next \/ \E n \in enqueued : Full(inQueue[n])
                              THEN current ELSE lostAt
  /\ UNCHANGED <<bounds, current, cached, held, filter, passing, asking, passed, interested>>

-----------------------------------------------------------------------------
(* The handlers.                                                           *)

(* Nothing but the first packet asks, a packet that finds an entry goes.   *)
HandleData(r) ==
  /\ ~asking[r] /\ cached[r] = 0 /\ ~held[r]
  /\ held' = [held EXCEPT ![r] = TRUE]
  /\ asking' = [asking EXCEPT ![r] = TRUE]
  /\ UNCHANGED <<bounds, current, cached, filter, passing, inQueue, arpQueue, passed,
                 interested, losses, lostAt>>

EmitRequest(r) ==
  /\ asking[r]
  /\ asking' = [asking EXCEPT ![r] = FALSE]
  /\ Emit(r, Request(r))
  /\ UNCHANGED <<bounds, current, cached, held, filter, passing, inQueue, passed,
                 interested, losses>>

(* The thread of requests and responses takes a packet of a kind.          *)
Take(r, kind) ==
  /\ passing[r] = Nobody
  /\ inQueue[r] # <<>> /\ Head(inQueue[r]).kind = kind
  /\ inQueue' = [inQueue EXCEPT ![r] = Tail(@)]

(* The request of a router without an entry is not passed on.              *)
SlipHandleGNRSRequest(r) ==
  /\ Take(r, "request")
  /\ IF cached[r] = 0 THEN UNCHANGED <<arpQueue, lostAt>>
     ELSE Emit(r, Answer(Head(inQueue[r]).src, cached[r]))
  /\ UNCHANGED <<bounds, current, cached, held, filter, passing, asking, passed,
                 interested, losses>>

(* The entry is the answer; without one the request goes on.               *)
HandleGNRSRequest(r) ==
  /\ Take(r, "request")
  /\ LET request == Head(inQueue[r])
     IN  Emit(r, IF cached[r] = 0 THEN request ELSE Answer(request.src, cached[r]))
  /\ UNCHANGED <<bounds, current, cached, held, filter, passing, asking, passed,
                 interested, losses>>

(* A copy of a broadcast.                                                  *)
Duplicate(r, response) ==
  response.dst = BroadcastNa /\ Knows(filter[r], response.nonce)

(* The response sets the entry of a router that has one, that holds        *)
(* packets or that it is for, unless the entry is newer.                   *)
Applies(r, response) ==
  /\ held[r] \/ response.dst = r \/ cached[r] > 0
  /\ response.version > cached[r]

(* Only a router that the response changes passes it on.                   *)
SlipHandleGNRSResponse(r) ==
  /\ Take(r, "response")
  /\ LET response == Head(inQueue[r])
     IN  /\ filter' = IF response.dst = BroadcastNa /\ ~Duplicate(r, response)
                        THEN [filter EXCEPT ![r] = Remembering(@, response.nonce)]
                        ELSE filter
         /\ IF ~Duplicate(r, response) /\ Applies(r, response)
              THEN /\ cached' = [cached EXCEPT ![r] = response.version]
                   /\ held' = [held EXCEPT ![r] = FALSE]
                   /\ passing' = [passing EXCEPT ![r] =
                        IF response.dst = r THEN Nobody ELSE response]
              ELSE UNCHANGED <<cached, held, passing>>
  /\ UNCHANGED <<bounds, current, asking, arpQueue, passed, interested, losses, lostAt>>

(* The packets held leave with the entry; a response to this router ends   *)
(* here.                                                                   *)
HandleGNRSResponse(r) ==
  /\ Take(r, "response")
  /\ LET response == Head(inQueue[r])
     IN  IF Duplicate(r, response) THEN UNCHANGED <<cached, held, filter, passing>>
         ELSE
           /\ filter' = IF response.dst = BroadcastNa
                          THEN [filter EXCEPT ![r] = Remembering(@, response.nonce)]
                          ELSE filter
           /\ IF Applies(r, response)
                THEN /\ cached' = [cached EXCEPT ![r] = response.version]
                     /\ held' = [held EXCEPT ![r] = FALSE]
                ELSE UNCHANGED <<cached, held>>
           /\ passing' = [passing EXCEPT ![r] =
                IF response.dst = r THEN Nobody ELSE response]
  /\ UNCHANGED <<bounds, current, asking, arpQueue, passed, interested, losses, lostAt>>

PassOn(r) ==
  /\ passing[r] # Nobody
  /\ passing' = [passing EXCEPT ![r] = Nobody]
  /\ Emit(r, passing[r])
  /\ passed' = IF passing[r].dst = BroadcastNa /\ passed[r][passing[r].version] < 2
                 THEN [passed EXCEPT ![r][passing[r].version] = @ + 1] ELSE passed
  /\ UNCHANGED <<bounds, current, cached, held, filter, asking, inQueue, interested, losses>>

-----------------------------------------------------------------------------
(* The broadcasts of a version that are still under way.                   *)
UnderWay(version) ==
  \E r \in Routers :
    \/ passing[r] = Change(version)
    \/ \E i \in DOMAIN inQueue[r] : inQueue[r][i] = Change(version)
    \/ \E i \in DOMAIN arpQueue[r] : arpQueue[r][i] = Change(version)

(* The binding changes.  A change is broadcast when the one window before  *)
(* it has come to rest.                                                    *)
Update ==
  /\ current < MaxVersion
  /\ \A version \in Versions : version <= current + 1 - bounds.window => ~UnderWay(version)
  /\ current' = current + 1
  /\ interested' = {r \in Routers : held[r] \/ cached[r] > 0}
  /\ inQueue' = [r \in Routers |->
       IF GNRS \in Neighbours[r] THEN Enqueue(inQueue[r], Change(current')) ELSE inQueue[r]]
  /\ lostAt' = IF \E r \in Routers : GNRS \in Neighbours[r] /\ Full(inQueue[r])
                 THEN current' ELSE lostAt
  /\ UNCHANGED <<bounds, cached, held, filter, passing, asking, arpQueue, passed, losses>>

(* The threads of a router once packets have come to it.                   *)
Work ==
  \E r \in Routers :
    \/ EmitRequest(r) \/ HandleGNRSRequest(r) \/ HandleGNRSResponse(r)
    \/ PassOn(r) \/ Send(r)

Next == Work \/ Update \/ \E r \in bounds.publishing : HandleData(r)

Spec == Init /\ [][Next]_vars

(* The tasks keep running.                                                 *)
FairSpec == Spec /\ WF_vars(Work)

-----------------------------------------------------------------------------
(* Properties.                                                             *)

Responses ==
  {Answer(r, version) : r \in Routers, version \in Versions}
  \cup {Change(version) : version \in Versions}
Packets == {Request(r) : r \in Routers} \cup Responses

(* The types; the two containers of a filter agree.                        *)
TypeOK ==
  /\ bounds \in Loads /\ current \in Versions
  /\ cached \in [Routers -> 0..MaxVersion]
  /\ held \in [Routers -> BOOLEAN] /\ asking \in [Routers -> BOOLEAN]
  /\ DOMAIN filter = Routers /\ \A r \in Routers : FilterOK(filter[r])
  /\ passing \in [Routers -> Responses \cup {Nobody}]
  /\ inQueue \in [Routers -> Seq(Packets)] /\ arpQueue \in [Routers -> Seq(Packets)]
  /\ passed \in [Routers -> [Versions -> 0..2]]
  /\ interested \subseteq Routers
  /\ losses \in 0..bounds.losses /\ lostAt \in 0..MaxVersion

(* A router passes a change on once, although every neighbour sends it     *)
(* back, and although the nonces of older changes are forgotten.           *)
FloodedOnce == \A r \in Routers, version \in Versions : passed[r][version] < 2

Quiet ==
  \A r \in Routers :
    passing[r] = Nobody /\ ~asking[r] /\ inQueue[r] = <<>> /\ arpQueue[r] = <<>>

LostNow == lostAt = current

(* When all has come to rest, a change has reached every router that had   *)
(* an entry or was waiting for one, through routers that do not care for   *)
(* it and past old answers still on their way, unless a packet was lost.   *)
ChangeReaches ==
  Quiet /\ ~LostNow => \A r \in interested : cached[r] = current

(* Packets are stuck in a cache only when something was lost since the     *)
(* last change: a change releases what a lost answer has left behind.      *)
HeldOnlyIfLost ==
  Quiet => \A r \in Routers : held[r] => LostNow

(* The floods end.                                                         *)
Settles == <>[]Quiet
=============================================================================
