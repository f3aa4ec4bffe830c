-------------------------- MODULE GNRSFloodProofs ---------------------------
(***************************************************************************)
(* Proofs about GNRSFlood, for any network of routers, any number of       *)
(* nonces, filters that outlast the broadcasts of a window, any losses.    *)
(***************************************************************************)
EXTENDS GNRSFlood, FiniteSetTheorems, TLAPS

-----------------------------------------------------------------------------
(* The filter.                                                             *)

(* What is in a filter once a new nonce is put in: the places are those of *)
(* before, moved by one when the oldest is forgotten.                      *)
LEMMA RememberingHolds ==
  ASSUME NEW f, FilterOK(f), NEW n \in Nonces, ~Knows(f, n)
  PROVE  LET size == Len(f.queue)
             g == Remembering(f, n)
         IN  /\ g.queue \in Seq(Nonces)
             /\ size < NonceCacheSize =>
                  /\ Len(g.queue) = size + 1 /\ g.queue[size + 1] = n
                  /\ \A i \in 1..size : g.queue[i] = f.queue[i]
                  /\ g.table = f.table \cup {n}
             /\ size = NonceCacheSize =>
                  /\ Len(g.queue) = size /\ g.queue[size] = n
                  /\ \A i \in 1..(size - 1) : g.queue[i] = f.queue[i + 1]
                  /\ g.table = (f.table \cup {n}) \ {f.queue[1]}
             /\ size <= NonceCacheSize /\ size \in Nat
  <1> DEFINE size == Len(f.queue)
             q == Append(f.queue, n)
  <1>1. size \in Nat /\ size <= NonceCacheSize /\ f.queue \in Seq(Nonces)
    BY DEF FilterOK
  <1>2. /\ q \in Seq(Nonces) /\ Len(q) = size + 1 /\ q[size + 1] = n
        /\ \A i \in 1..size : q[i] = f.queue[i]
    BY <1>1
  <1>3. CASE size < NonceCacheSize
    <2>1. Remembering(f, n) = [queue |-> q, table |-> f.table \cup {n}]
      BY <1>1, <1>2, <1>3, NonceAssumption DEF Remembering
    <2> QED
      BY <1>1, <1>2, <1>3, <2>1, NonceAssumption
  <1>4. CASE size = NonceCacheSize
    <2>1. Remembering(f, n) = [queue |-> Tail(q), table |-> (f.table \cup {n}) \ {Head(q)}]
      <3>1. Len(q) > NonceCacheSize
        BY <1>2, <1>4, NonceAssumption
      <3> QED
        BY <3>1 DEF Remembering
    <2>2. Head(q) = f.queue[1]
      BY <1>1, <1>2, <1>4, NonceAssumption
    <2>3. /\ Tail(q) \in Seq(Nonces) /\ Len(Tail(q)) = size
          /\ \A i \in 1..size : Tail(q)[i] = q[i + 1]
      BY <1>1, <1>2, <1>4, NonceAssumption
    <2>4. /\ Tail(q)[size] = n
          /\ \A i \in 1..(size - 1) : Tail(q)[i] = f.queue[i + 1]
      BY <1>1, <1>2, <1>4, <2>3, NonceAssumption
    <2> HIDE DEF q
    <2> QED
      BY <1>1, <1>4, <2>1, <2>2, <2>3, <2>4, NonceAssumption
  <1> QED
    BY <1>1, <1>3, <1>4, NonceAssumption

(* A new nonce leaves the two containers in agreement.                     *)
LEMMA RememberingOK ==
  ASSUME NEW f, FilterOK(f), NEW n \in Nonces, ~Knows(f, n)
  PROVE  FilterOK(Remembering(f, n))
  <1> DEFINE size == Len(f.queue)
             g == Remembering(f, n)
  <1>1. /\ f.queue \in Seq(Nonces) /\ n \notin f.table
        /\ f.table = {f.queue[i] : i \in 1..size}
        /\ \A i, j \in 1..size : f.queue[i] = f.queue[j] => i = j
    BY DEF FilterOK, Knows
  <1>2. size \in Nat /\ size <= NonceCacheSize /\ g.queue \in Seq(Nonces)
    BY RememberingHolds
  <1>3. CASE size < NonceCacheSize
    <2>1. /\ Len(g.queue) = size + 1 /\ g.queue[size + 1] = n
          /\ \A i \in 1..size : g.queue[i] = f.queue[i]
          /\ g.table = f.table \cup {n}
      BY <1>3, RememberingHolds
    <2> HIDE DEF g
    <2>2. DOMAIN g.queue = 1..(size + 1)
      BY <1>2, <2>1
    <2>3. g.table = {g.queue[i] : i \in DOMAIN g.queue}
      <3>1. 1..(size + 1) = 1..size \cup {size + 1}
        BY <1>2
      <3> QED
        BY <1>1, <2>1, <2>2, <3>1, SMTT(20)
    <2>4. \A i, j \in DOMAIN g.queue : g.queue[i] = g.queue[j] => i = j
      <3>1. \A i \in 1..size : g.queue[i] \in f.table
        BY <1>1, <2>1
      <3>2. \A i \in 1..(size + 1) : i \in 1..size \/ i = size + 1
        BY <1>2
      <3> QED
        BY <1>1, <2>1, <2>2, <3>1, <3>2
    <2>5. Len(g.queue) <= NonceCacheSize
      BY <1>2, <1>3, <2>1, NonceAssumption
    <2>6. FilterOK(g)
      BY <1>2, <2>3, <2>4, <2>5 DEF FilterOK
    <2> QED
      BY <2>6 DEF g
  <1>4. CASE size = NonceCacheSize
    <2>1. /\ Len(g.queue) = size /\ g.queue[size] = n
          /\ \A i \in 1..(size - 1) : g.queue[i] = f.queue[i + 1]
          /\ g.table = (f.table \cup {n}) \ {f.queue[1]}
      BY <1>4, RememberingHolds
    <2> HIDE DEF g
    <2>2. DOMAIN g.queue = 1..size
      BY <1>2, <2>1
    <2>3. g.table = {g.queue[i] : i \in DOMAIN g.queue}
      <3>1. ASSUME NEW x \in g.table PROVE \E i \in 1..size : x = g.queue[i]
        <4>1. CASE x = n
          BY <1>2, <1>4, <2>1, <4>1, NonceAssumption
        <4>2. CASE x # n
          <5>1. PICK i \in 1..size : x = f.queue[i] /\ i # 1
            BY <1>1, <2>1, <4>2
          <5>2. i - 1 \in 1..(size - 1) /\ (i - 1) + 1 = i
            BY <1>2, <5>1
          <5>3. x = g.queue[i - 1]
            BY <2>1, <5>1, <5>2
          <5>4. i - 1 \in 1..size
            BY <1>2, <5>1
          <5> QED
            BY <5>3, <5>4
        <4> QED
          BY <4>1, <4>2
      <3>2. ASSUME NEW i \in 1..size PROVE g.queue[i] \in g.table
        <4>1. CASE i = size
          <5>1. f.queue[1] \in f.table
            BY <1>1, <1>2, <1>4, NonceAssumption
          <5> QED
            BY <1>1, <2>1, <4>1, <5>1
        <4>2. CASE i # size
          <5>1. i \in 1..(size - 1) /\ i + 1 \in 1..size /\ 1 \in 1..size /\ i + 1 # 1
            BY <1>2, <4>2
          <5>2. g.queue[i] = f.queue[i + 1] /\ f.queue[i + 1] # f.queue[1]
            BY <1>1, <2>1, <5>1
          <5> QED
            BY <1>1, <2>1, <5>1, <5>2
        <4> QED
          BY <4>1, <4>2
      <3> QED
        BY <2>2, <3>1, <3>2
    <2>4. \A i, j \in DOMAIN g.queue : g.queue[i] = g.queue[j] => i = j
      <3>1. \A i \in 1..(size - 1) : i + 1 \in 1..size /\ g.queue[i] \in f.table
        BY <1>1, <1>2, <2>1
      <3>2. \A i, j \in 1..(size - 1) : g.queue[i] = g.queue[j] => i + 1 = j + 1
        BY <1>1, <2>1, <3>1
      <3> QED
        BY <1>1, <1>2, <2>1, <2>2, <3>1, <3>2
    <2>5. FilterOK(g)
      BY <1>2, <1>4, <2>1, <2>3, <2>4, NonceAssumption DEF FilterOK
    <2> QED
      BY <2>5 DEF g
  <1> QED
    BY <1>2, <1>3, <1>4, NonceAssumption
-----------------------------------------------------------------------------
(* Types.                                                                  *)

(* What the packets are.                                                   *)
LEMMA PacketKinds ==
  /\ BroadcastNa \notin Routers
  /\ \A r \in Routers : Request(r) \in Packets /\ Request(r).kind = "request"
                       /\ Request(r).src = r
  /\ \A r \in Routers, v \in Versions :
       /\ Answer(r, v) \in Responses /\ Answer(r, v).kind = "response"
       /\ Answer(r, v).dst = r /\ Answer(r, v).version = v
  /\ \A v \in Versions :
       /\ Change(v) \in Responses /\ Change(v).kind = "response"
       /\ Change(v).dst = BroadcastNa /\ Change(v).version = v
       /\ Change(v).nonce = NonceOf(v) /\ NonceOf(v) \in Nonces
  <1>1. BroadcastNa \notin Routers
    BY FloodAssumption DEF Nodes
  <1>2. ASSUME NEW v \in Versions PROVE NonceOf(v) \in Nonces
    <2>1. v \in Nat /\ Cardinality(Nonces) \in Nat \ {0}
      BY FloodAssumption DEF Versions
    <2> DEFINE c == Cardinality(Nonces)
    <2> HIDE DEF c
    <2>2. \A k \in Nat \ {0} : v % k \in 0..(k - 1)
      BY <2>1
    <2> QED
      BY <2>1, <2>2, FloodAssumption DEF NonceOf
  <1> QED
    BY <1>1, <1>2 DEF Packets, Responses, Request, Answer, Change, Response

(* A packet that is no request is a response; one for all is a change.     *)
LEMMA PacketCases ==
  ASSUME NEW p \in Packets
  PROVE  /\ p.kind = "request" => \E r \in Routers : p = Request(r)
         /\ p.kind = "response" => p \in Responses
         /\ p.kind \in {"request", "response"}
  BY DEF Packets, Responses, Request, Answer, Change, Response

LEMMA ResponseCases ==
  ASSUME NEW p \in Responses
  PROVE  /\ p \in Packets /\ p.kind = "response" /\ p.version \in Versions
         /\ p.dst \in Routers => p = Answer(p.dst, p.version)
         /\ p.dst \in Routers \cup {BroadcastNa}
         /\ p.dst = BroadcastNa => p = Change(p.version) /\ p.nonce \in Nonces
  BY PacketKinds DEF Packets, Responses

(* A queue takes a packet or loses it.                                     *)
Elements(queue) == {queue[i] : i \in DOMAIN queue}

LEMMA Enqueued ==
  ASSUME NEW S, NEW queue \in Seq(S), NEW p \in S
  PROVE  /\ Enqueue(queue, p) \in Seq(S)
         /\ Elements(Enqueue(queue, p)) \subseteq Elements(queue) \cup {p}
         /\ Elements(queue) \subseteq Elements(Enqueue(queue, p))
         /\ Len(queue) <= QueueCapacity =>
              /\ Len(Enqueue(queue, p)) <= QueueCapacity
              /\ ~Full(queue) => p \in Elements(Enqueue(queue, p))
  <1>0. QueueCapacity \in Nat /\ Len(queue) \in Nat
    BY FloodAssumption
  <1>1. CASE Len(queue) < QueueCapacity
    <2>1. Enqueue(queue, p) = Append(queue, p)
      BY <1>1 DEF Enqueue
    <2>2. /\ Append(queue, p) \in Seq(S)
          /\ Len(Append(queue, p)) = Len(queue) + 1
          /\ DOMAIN Append(queue, p) = 1..(Len(queue) + 1) /\ DOMAIN queue = 1..Len(queue)
          /\ \A i \in 1..Len(queue) : Append(queue, p)[i] = queue[i]
          /\ Append(queue, p)[Len(queue) + 1] = p
      OBVIOUS
    <2>3. /\ \A i \in 1..(Len(queue) + 1) : i \in 1..Len(queue) \/ i = Len(queue) + 1
          /\ \A i \in 1..Len(queue) : i \in 1..(Len(queue) + 1)
          /\ Len(queue) + 1 \in 1..(Len(queue) + 1)
      BY <1>0
    <2>4. /\ Elements(Append(queue, p)) \subseteq Elements(queue) \cup {p}
          /\ Elements(queue) \subseteq Elements(Append(queue, p))
          /\ p \in Elements(Append(queue, p))
      BY <2>2, <2>3 DEF Elements
    <2> QED
      BY <1>0, <1>1, <2>1, <2>2, <2>4
  <1>2. CASE ~(Len(queue) < QueueCapacity)
    <2>1. Enqueue(queue, p) = queue
      BY <1>2 DEF Enqueue
    <2> QED
      BY <1>0, <1>2, <2>1 DEF Full
  <1> QED
    BY <1>1, <1>2

LEMMA EmitTyped ==
  ASSUME TypeOK, NEW r \in Routers, NEW p \in Packets, Emit(r, p)
  PROVE  arpQueue' \in [Routers -> Seq(Packets)] /\ lostAt' \in 0..MaxVersion
  <1>1. Enqueue(arpQueue[r], p) \in Seq(Packets)
    BY Enqueued DEF TypeOK
  <1>2. arpQueue' \in [Routers -> Seq(Packets)]
    BY <1>1 DEF TypeOK, Emit
  <1>3. lostAt' \in 0..MaxVersion
    BY FloodAssumption DEF TypeOK, Emit, Versions
  <1> QED
    BY <1>2, <1>3

LEMMA InitTyped == Init => TypeOK
  <1> SUFFICES ASSUME Init PROVE TypeOK
    OBVIOUS
  <1>1. 1 \in Versions /\ MaxVersion \in Nat
    BY FloodAssumption DEF Versions
  <1>2. FilterOK(EmptyFilter)
    BY NonceAssumption DEF FilterOK, EmptyFilter
  <1>3. DOMAIN filter = Routers /\ \A r \in Routers : FilterOK(filter[r])
    BY <1>2 DEF Init
  <1>4. losses \in 0..bounds.losses
    BY FloodAssumption DEF Init
  <1>5. /\ current \in Versions /\ cached \in [Routers -> 0..MaxVersion]
        /\ passed \in [Routers -> [Versions -> 0..2]] /\ lostAt \in 0..MaxVersion
    BY <1>1 DEF Init
  <1>6. inQueue \in [Routers -> Seq(Packets)] /\ arpQueue \in [Routers -> Seq(Packets)]
    BY DEF Init
  <1> QED
    BY <1>3, <1>4, <1>5, <1>6 DEF Init, TypeOK

(* A step is that of one router, or a change of the binding.               *)
LEMMA NextTyped == TypeOK /\ [Next]_vars => TypeOK'
  <1> SUFFICES ASSUME TypeOK, [Next]_vars PROVE TypeOK'
    OBVIOUS
  <1>1. ASSUME NEW r \in Routers, Send(r) PROVE TypeOK'
    <2>1. /\ arpQueue[r] \in Seq(Packets) /\ arpQueue[r] # <<>>
          /\ Head(arpQueue[r]) \in Packets /\ Tail(arpQueue[r]) \in Seq(Packets)
      BY <1>1 DEF Send, TypeOK
    <2> DEFINE packet == Head(arpQueue[r])
               next == NextHops(r, packet)
    <2>2. PICK got \in SUBSET next :
            LET asked == GNRS \in got /\ packet.kind = "request"
                Arriving(n) == IF n \in got THEN packet ELSE Answer(packet.src, current)
                enqueued == (got \cap Routers) \cup (IF asked THEN {r} ELSE {})
            IN  /\ losses' = losses + Cardinality(next \ got)
                /\ losses' <= bounds.losses
                /\ inQueue' = [n \in Routers |->
                     IF n \in enqueued THEN Enqueue(inQueue[n], Arriving(n)) ELSE inQueue[n]]
                /\ lostAt' = IF got # next \/ \E n \in enqueued : Full(inQueue[n])
                               THEN current ELSE lostAt
      BY <1>1 DEF Send
    <2> DEFINE asked == GNRS \in got /\ packet.kind = "request"
               Arriving(n) == IF n \in got THEN packet ELSE Answer(packet.src, current)
               enqueued == (got \cap Routers) \cup (IF asked THEN {r} ELSE {})
    <2>3. arpQueue' \in [Routers -> Seq(Packets)]
      BY <1>1, <2>1 DEF Send, TypeOK
    <2>4. ASSUME NEW n \in enqueued PROVE Arriving(n) \in Packets /\ n \in Routers
      <3>1. CASE n \in got
        BY <2>1, <2>4, <3>1
      <3>2. CASE n \notin got
        <4>1. packet.kind = "request"
          BY <2>4, <3>2
        <4>2. packet.src \in Routers
          BY <2>1, <4>1, PacketCases, PacketKinds
        <4> QED
          BY <2>4, <3>2, <4>2, PacketKinds DEF TypeOK, Packets
      <3> QED
        BY <3>1, <3>2
    <2>5. inQueue' \in [Routers -> Seq(Packets)]
      <3>1. inQueue' = [n \in Routers |->
              IF n \in enqueued THEN Enqueue(inQueue[n], Arriving(n)) ELSE inQueue[n]]
        BY <2>2
      <3>2. ASSUME NEW n \in enqueued PROVE Enqueue(inQueue[n], Arriving(n)) \in Seq(Packets)
        <4>1. Arriving(n) \in Packets /\ n \in Routers
          BY <2>4
        <4>2. inQueue[n] \in Seq(Packets)
          BY <4>1 DEF TypeOK
        <4> HIDE DEF Arriving
        <4> QED
          BY <4>1, <4>2, Enqueued
      <3> HIDE DEF Arriving, enqueued
      <3> QED
        BY <3>1, <3>2 DEF TypeOK
    <2>6. losses' \in 0..bounds.losses
      <3>1. IsFiniteSet(next)
        <4>1. IsFiniteSet(Nodes)
          BY FloodAssumption, FS_AddElement DEF Nodes
        <4>2. Neighbours[r] \in SUBSET Nodes
          BY FloodAssumption
        <4> QED
          BY <4>1, <4>2, FS_Subset, FS_Singleton DEF NextHops
      <3>2. IsFiniteSet(next \ got)
        BY <3>1, FS_Difference
      <3>3. Cardinality(next \ got) \in Nat
        BY <3>2, FS_CardinalityType
      <3>4. losses \in Nat /\ bounds.losses \in Nat
        BY FloodAssumption DEF TypeOK
      <3> HIDE DEF next
      <3> QED
        BY <2>2, <3>3, <3>4
    <2>7. lostAt' \in 0..MaxVersion
      BY <2>2, FloodAssumption DEF TypeOK, Versions
    <2> QED
      BY <1>1, <2>3, <2>5, <2>6, <2>7 DEF Send, TypeOK
  <1>2. ASSUME NEW r \in Routers, HandleData(r) PROVE TypeOK'
    BY <1>2 DEF HandleData, TypeOK
  <1>3. ASSUME NEW r \in Routers, EmitRequest(r) PROVE TypeOK'
    <2>1. arpQueue' \in [Routers -> Seq(Packets)] /\ lostAt' \in 0..MaxVersion
      BY <1>3, PacketKinds, EmitTyped DEF EmitRequest
    <2> QED
      BY <1>3, <2>1 DEF EmitRequest, TypeOK
  <1>4. ASSUME NEW r \in Routers, NEW kind, Take(r, kind)
        PROVE  /\ inQueue' \in [Routers -> Seq(Packets)]
               /\ Head(inQueue[r]) \in Packets /\ Head(inQueue[r]).kind = kind
    <2>1. inQueue[r] \in Seq(Packets) /\ inQueue[r] # <<>>
      BY <1>4 DEF Take, TypeOK
    <2> QED
      BY <1>4, <2>1 DEF Take, TypeOK
  <1>5. ASSUME NEW r \in Routers, HandleGNRSRequest(r) PROVE TypeOK'
    <2> DEFINE request == Head(inQueue[r])
               p == IF cached[r] = 0 THEN request ELSE Answer(request.src, cached[r])
    <2>1. /\ inQueue' \in [Routers -> Seq(Packets)]
          /\ request \in Packets /\ request.kind = "request"
      BY <1>4, <1>5 DEF HandleGNRSRequest
    <2>2. p \in Packets
      <3>1. request.src \in Routers
        BY <2>1, PacketCases, PacketKinds
      <3>2. cached[r] # 0 => cached[r] \in Versions
        BY FloodAssumption DEF TypeOK, Versions
      <3> QED
        BY <2>1, <3>1, <3>2, PacketKinds DEF Packets
    <2>3. Emit(r, p)
      BY <1>5 DEF HandleGNRSRequest
    <2> HIDE DEF p
    <2>4. arpQueue' \in [Routers -> Seq(Packets)] /\ lostAt' \in 0..MaxVersion
      BY <2>2, <2>3, EmitTyped
    <2> QED
      BY <1>5, <2>1, <2>4 DEF HandleGNRSRequest, TypeOK
  <1>6. ASSUME NEW r \in Routers, HandleGNRSResponse(r) PROVE TypeOK'
    <2> DEFINE response == Head(inQueue[r])
    <2>1. /\ inQueue' \in [Routers -> Seq(Packets)]
          /\ response \in Responses
      BY <1>4, <1>6, PacketCases DEF HandleGNRSResponse
    <2>2. response.version \in 0..MaxVersion
      BY <2>1, ResponseCases DEF Versions
    <2>3. cached' \in [Routers -> 0..MaxVersion] /\ held' \in [Routers -> BOOLEAN]
      BY <1>6, <2>2 DEF HandleGNRSResponse, TypeOK
    <2>4. passing' \in [Routers -> Responses \cup {Nobody}]
      BY <1>6, <2>1 DEF HandleGNRSResponse, TypeOK
    <2>5. DOMAIN filter' = Routers /\ \A q \in Routers : FilterOK(filter'[q])
      <3>1. CASE filter' = filter
        BY <3>1 DEF TypeOK
      <3>2. CASE /\ ~Duplicate(r, response) /\ response.dst = BroadcastNa
                 /\ filter' = [filter EXCEPT ![r] = Remembering(@, response.nonce)]
        <4>1. response.nonce \in Nonces /\ ~Knows(filter[r], response.nonce)
          BY <2>1, <3>2, ResponseCases DEF Duplicate
        <4>2. FilterOK(Remembering(filter[r], response.nonce))
          BY <4>1, RememberingOK DEF TypeOK
        <4> QED
          BY <3>2, <4>2 DEF TypeOK
      <3> QED
        BY <1>6, <3>1, <3>2 DEF HandleGNRSResponse
    <2> QED
      BY <1>6, <2>1, <2>3, <2>4, <2>5 DEF HandleGNRSResponse, TypeOK
  <1>7. ASSUME NEW r \in Routers, PassOn(r) PROVE TypeOK'
    <2>1. passing[r] \in Responses
      BY <1>7 DEF PassOn, TypeOK
    <2>2. passing[r] \in Packets /\ passing[r].version \in Versions
      BY <2>1, ResponseCases
    <2>3. arpQueue' \in [Routers -> Seq(Packets)] /\ lostAt' \in 0..MaxVersion
      BY <1>7, <2>2, EmitTyped DEF PassOn
    <2>4. passed' \in [Routers -> [Versions -> 0..2]]
      <3>1. CASE passed' = passed
        BY <3>1 DEF TypeOK
      <3>2. CASE /\ passed[r][passing[r].version] < 2
                 /\ passed' = [passed EXCEPT ![r][passing[r].version] = @ + 1]
        <4>0. passed[r][passing[r].version] \in 0..2
          BY <2>2 DEF TypeOK
        <4>1. passed[r][passing[r].version] + 1 \in 0..2
          BY <3>2, <4>0
        <4> QED
          BY <2>2, <3>2, <4>1 DEF TypeOK
      <3> QED
        BY <1>7, <3>1, <3>2 DEF PassOn
    <2>5. passing' \in [Routers -> Responses \cup {Nobody}]
      BY <1>7 DEF PassOn, TypeOK
    <2> QED
      BY <1>7, <2>3, <2>4, <2>5 DEF PassOn, TypeOK
  <1>8. CASE Update
    <2>1. current' \in Versions /\ current' = current + 1
      BY <1>8, FloodAssumption DEF Update, TypeOK, Versions
    <2>2. Change(current') \in Packets
      BY <2>1, PacketKinds DEF Packets
    <2>3. \A r \in Routers : Enqueue(inQueue[r], Change(current')) \in Seq(Packets)
      BY <2>2, Enqueued DEF TypeOK
    <2>4. inQueue' \in [Routers -> Seq(Packets)]
      BY <1>8, <2>3 DEF Update, TypeOK
    <2>5. lostAt' \in 0..MaxVersion
      BY <1>8, <2>1, FloodAssumption DEF Update, TypeOK, Versions
    <2>6. interested' \subseteq Routers
      BY <1>8 DEF Update
    <2> QED
      BY <1>8, <2>1, <2>4, <2>5, <2>6 DEF Update, TypeOK
  <1>9. CASE UNCHANGED vars
    BY <1>9 DEF vars, TypeOK
  <1>10. bounds.publishing \subseteq Routers
    BY FloodAssumption DEF TypeOK
  <1> QED
    BY <1>1, <1>2, <1>3, <1>5, <1>6, <1>7, <1>8, <1>9, <1>10 DEF Next, Work

(* In any network and under any losses every variable keeps its type; in   *)
(* particular the queue and the table of a filter stay in agreement, and   *)
(* only responses are passed on.                                           *)
THEOREM FloodTypeCorrect == Spec => []TypeOK
  BY InitTyped, NextTyped, PTL DEF Spec

-----------------------------------------------------------------------------
(* Once to each router.  A broadcast under way is at most a window from    *)
(* any other, so a router that has taken it has since put fewer nonces     *)
(* into its filter than the filter has places.                             *)

(* The versions whose broadcasts may have been under way with that of v.   *)
Near(v) ==
  {u \in Versions \ {v} : u + bounds.window > v /\ v + bounds.window > u}

(* The filter knows v, and since v only versions near it came in.          *)
Kept(f, v) ==
  \E i \in 1..Len(f.queue) :
    /\ f.queue[i] = NonceOf(v)
    /\ \A j \in (i + 1)..Len(f.queue) : \E u \in Near(v) : f.queue[j] = NonceOf(u)

(* Router r has taken the broadcast of v from its input queue.             *)
Accepted(r, v) == passed[r][v] > 0 \/ passing[r] = Change(v)

WindowOK ==
  \A v \in Versions : UnderWay(v) => v <= current /\ v + bounds.window > current

AcceptedOK == \A r \in Routers, v \in Versions : Accepted(r, v) => v <= current

KeptOK ==
  \A r \in Routers, v \in Versions : UnderWay(v) /\ Accepted(r, v) => Kept(filter[r], v)

OnceOK ==
  \A r \in Routers, v \in Versions :
    passed[r][v] < 2 /\ (passing[r] = Change(v) => passed[r][v] = 0)

FloodInv == TypeOK /\ WindowOK /\ AcceptedOK /\ KeptOK /\ OnceOK

LEMMA BoundsTyped ==
  ASSUME TypeOK
  PROVE  /\ bounds.window \in Nat \ {0} /\ 2 * bounds.window - 1 <= NonceCacheSize
         /\ bounds.publishing \subseteq Routers
         /\ Versions \subseteq Nat \ {0} /\ current \in Nat /\ MaxVersion \in Nat
  BY FloodAssumption DEF TypeOK, Versions

LEMMA NearFew ==
  ASSUME TypeOK, NEW v \in Versions
  PROVE  IsFiniteSet(Near(v)) /\ Cardinality(Near(v)) < NonceCacheSize
  <1> DEFINE w == bounds.window
             interval == (v - w + 1)..(v + w - 1)
  <1>1. w \in Nat \ {0} /\ 2 * w - 1 <= NonceCacheSize /\ v \in Nat
    BY BoundsTyped
  <1>2. IsFiniteSet(interval) /\ Cardinality(interval) = 2 * w - 1
    <2>1. v - w + 1 \in Int /\ v + w - 1 \in Int
      BY <1>1
    <2>2. ~(v - w + 1 > v + w - 1) /\ (v + w - 1) - (v - w + 1) + 1 = 2 * w - 1
      BY <1>1
    <2> QED
      BY <2>1, <2>2, FS_Interval
  <1>3. v \in interval
    BY <1>1
  <1>4. IsFiniteSet(interval \ {v}) /\ Cardinality(interval \ {v}) = 2 * w - 2
    <2> HIDE DEF interval
    <2> QED
      BY <1>1, <1>2, <1>3, FS_RemoveElement
  <1>5. Near(v) \subseteq interval \ {v}
    <2>1. ASSUME NEW u \in Near(v) PROVE u \in interval /\ u # v
      <3>1. u \in Versions /\ u # v /\ u + w > v /\ v + w > u
        BY DEF Near
      <3>2. u \in Nat
        BY <3>1, BoundsTyped
      <3> QED
        BY <1>1, <3>1, <3>2
    <2> QED
      BY <2>1
  <1>6. Cardinality(Near(v)) <= Cardinality(interval \ {v}) /\ IsFiniteSet(Near(v))
    BY <1>4, <1>5, FS_Subset
  <1>7. Cardinality(Near(v)) \in Nat
    BY <1>6, FS_CardinalityType
  <1> QED
    BY <1>1, <1>4, <1>6, <1>7, NonceAssumption

LEMMA KeptIsKnown ==
  ASSUME NEW f, FilterOK(f), NEW v \in Versions, Kept(f, v)
  PROVE  Knows(f, NonceOf(v))
  BY DEF FilterOK, Kept, Knows

(* The nonce that has just come in is the newest.                          *)
LEMMA KeptAtOnce ==
  ASSUME NEW f, FilterOK(f), NEW v \in Versions, ~Knows(f, NonceOf(v))
  PROVE  Kept(Remembering(f, NonceOf(v)), v)
  <1> DEFINE g == Remembering(f, NonceOf(v))
             last == Len(g.queue)
  <1>1. last \in 1..last /\ g.queue[last] = NonceOf(v)
    BY RememberingHolds, PacketKinds, NonceAssumption
  <1> HIDE DEF g
  <1>2. \A j \in (last + 1)..last : FALSE
    BY <1>1
  <1>3. Kept(g, v)
    BY <1>1, <1>2 DEF Kept
  <1> QED
    BY <1>3 DEF g

(* A nonce is not forgotten while those that come in belong to versions    *)
(* near it: they are too few.                                              *)
LEMMA KeptOn ==
  ASSUME TypeOK, NEW f, FilterOK(f), NEW v \in Versions, Kept(f, v),
         NEW u \in Near(v), ~Knows(f, NonceOf(u))
  PROVE  Kept(Remembering(f, NonceOf(u)), v)
  <1> DEFINE n == NonceOf(u)
             g == Remembering(f, n)
             size == Len(f.queue)
  <1>0. u \in Versions
    BY DEF Near
  <1>1. n \in Nonces /\ ~Knows(f, n)
    BY <1>0, PacketKinds
  <1>2. size \in Nat /\ size <= NonceCacheSize /\ f.queue \in Seq(Nonces)
    BY <1>1, RememberingHolds DEF FilterOK
  <1>3. PICK i \in 1..size :
          /\ f.queue[i] = NonceOf(v)
          /\ \A j \in (i + 1)..size : \E x \in Near(v) : f.queue[j] = NonceOf(x)
    BY DEF Kept
  <1>4. CASE size < NonceCacheSize
    <2>1. /\ Len(g.queue) = size + 1 /\ g.queue[size + 1] = n
          /\ \A j \in 1..size : g.queue[j] = f.queue[j]
      BY <1>1, <1>4, RememberingHolds
    <2> HIDE DEF g
    <2>2. i \in 1..Len(g.queue) /\ g.queue[i] = NonceOf(v)
      BY <1>2, <1>3, <2>1
    <2>3. ASSUME NEW j \in (i + 1)..Len(g.queue)
          PROVE  \E x \in Near(v) : g.queue[j] = NonceOf(x)
      <3>1. CASE j = size + 1
        BY <2>1, <3>1
      <3>2. CASE j # size + 1
        <4>1. j \in (i + 1)..size /\ j \in 1..size
          BY <1>2, <2>1, <2>3, <3>2
        <4> QED
          BY <1>3, <2>1, <4>1
      <3> QED
        BY <3>1, <3>2
    <2>4. Kept(g, v)
      BY <2>2, <2>3 DEF Kept
    <2> QED
      BY <2>4 DEF g
  <1>5. CASE size = NonceCacheSize
    <2>1. /\ Len(g.queue) = size /\ g.queue[size] = n
          /\ \A j \in 1..(size - 1) : g.queue[j] = f.queue[j + 1]
      BY <1>1, <1>5, RememberingHolds
    <2>2. i # 1
      <3> SUFFICES ASSUME i = 1 PROVE FALSE
        OBVIOUS
      <3> DEFINE places == 2..(size + 1)
                 nonce == [j \in places |-> IF j = size + 1 THEN n ELSE f.queue[j]]
                 owner == [j \in places |-> CHOOSE x \in Near(v) : NonceOf(x) = nonce[j]]
      <3>1. ASSUME NEW j \in places PROVE \E x \in Near(v) : NonceOf(x) = nonce[j]
        <4>1. CASE j = size + 1
          BY <4>1
        <4>2. CASE j # size + 1
          <5>1. j \in (i + 1)..size
            BY <1>2, <4>2
          <5> QED
            BY <1>3, <4>2, <5>1
        <4> QED
          BY <4>1, <4>2
      <3>2. \A j, k \in places : nonce[j] = nonce[k] => j = k
        <4>1. \A j \in places : j # size + 1 => j \in 1..size
          BY <1>2
        <4>2. /\ \A j, k \in 1..size : f.queue[j] = f.queue[k] => j = k
              /\ \A j \in 1..size : f.queue[j] # n
          BY <1>1, <1>2 DEF FilterOK, Knows
        <4> QED
          BY <4>1, <4>2
      <3>3. \A j \in places : owner[j] \in Near(v) /\ NonceOf(owner[j]) = nonce[j]
        BY <3>1
      <3> HIDE DEF owner, nonce
      <3>4. owner \in Injection(places, Near(v))
        <4>1. owner \in [places -> Near(v)]
          BY <3>3 DEF owner
        <4>2. \A j, k \in places : owner[j] = owner[k] => j = k
          BY <3>2, <3>3
        <4> QED
          BY <4>1, <4>2 DEF Injection, IsInjective
      <3>5. Cardinality(places) = size
        <4>1. 2 \in Int /\ size + 1 \in Int /\ size >= 1
          BY <1>2, <1>5, NonceAssumption
        <4> QED
          BY <1>2, <4>1, FS_Interval
      <3>6. Cardinality(places) <= Cardinality(Near(v)) /\ Cardinality(Near(v)) < NonceCacheSize
        BY <3>4, NearFew, FS_Injection
      <3>7. Cardinality(Near(v)) \in Nat
        BY NearFew, FS_CardinalityType
      <3> QED
        BY <1>2, <1>5, <3>5, <3>6, <3>7
    <2> HIDE DEF g
    <2>3. i - 1 \in 1..Len(g.queue) /\ i - 1 \in 1..(size - 1)
      BY <1>2, <1>3, <2>1, <2>2
    <2>4. g.queue[i - 1] = NonceOf(v)
      BY <1>2, <1>3, <2>1, <2>3
    <2>5. ASSUME NEW j \in ((i - 1) + 1)..Len(g.queue)
          PROVE  \E x \in Near(v) : g.queue[j] = NonceOf(x)
      <3>1. CASE j = size
        BY <2>1, <3>1
      <3>2. CASE j # size
        <4>1. j + 1 \in (i + 1)..size /\ j \in 1..(size - 1)
          BY <1>2, <2>1, <2>3, <2>5, <3>2
        <4> QED
          BY <1>3, <2>1, <4>1
      <3> QED
        BY <3>1, <3>2
    <2>6. Kept(g, v)
      BY <2>3, <2>4, <2>5 DEF Kept
    <2> QED
      BY <2>6 DEF g
  <1> QED
    BY <1>2, <1>4, <1>5, NonceAssumption

LEMMA UnderWayWhere ==
  \A v : UnderWay(v) <=>
    \E r \in Routers : \/ passing[r] = Change(v) \/ Change(v) \in Elements(inQueue[r])
                     \/ Change(v) \in Elements(arpQueue[r])
  BY DEF UnderWay, Elements

LEMMA HeadTailElements ==
  ASSUME NEW S, NEW queue \in Seq(S), queue # <<>>
  PROVE  /\ Head(queue) \in S /\ Tail(queue) \in Seq(S) /\ Len(Tail(queue)) <= Len(queue)
         /\ Elements(queue) = {Head(queue)} \cup Elements(Tail(queue))
  <1>1. /\ Head(queue) = queue[1] /\ Len(queue) \in Nat \ {0}
        /\ Head(queue) \in S /\ Tail(queue) \in Seq(S)
        /\ DOMAIN queue = 1..Len(queue)
        /\ Len(Tail(queue)) = Len(queue) - 1 /\ DOMAIN Tail(queue) = 1..(Len(queue) - 1)
        /\ \A i \in 1..(Len(queue) - 1) : Tail(queue)[i] = queue[i + 1]
    OBVIOUS
  <1>2. /\ \A i \in 1..Len(queue) : i = 1 \/ (i - 1 \in 1..(Len(queue) - 1) /\ (i - 1) + 1 = i)
        /\ \A i \in 1..(Len(queue) - 1) : i + 1 \in 1..Len(queue)
        /\ 1 \in 1..Len(queue)
    BY <1>1
  <1>3. ASSUME NEW i \in 1..Len(queue)
        PROVE  queue[i] \in {Head(queue)} \cup Elements(Tail(queue))
    <2>1. CASE i = 1
      BY <1>1, <2>1
    <2>2. CASE i # 1
      <3>1. i - 1 \in DOMAIN Tail(queue) /\ Tail(queue)[i - 1] = queue[i]
        BY <1>1, <1>2, <2>2
      <3> QED
        BY <3>1 DEF Elements
    <2> QED
      BY <2>1, <2>2
  <1>4. {Head(queue)} \cup Elements(Tail(queue)) \subseteq Elements(queue)
    BY <1>1, <1>2 DEF Elements
  <1>5. Elements(queue) \subseteq {Head(queue)} \cup Elements(Tail(queue))
    BY <1>1, <1>3 DEF Elements
  <1> QED
    BY <1>1, <1>4, <1>5

(* What a handler takes is the head of its queue, and all else stays.      *)
LEMMA TakeMoves ==
  ASSUME TypeOK, NEW r \in Routers, NEW kind, Take(r, kind)
  PROVE  LET p == Head(inQueue[r])
         IN  /\ p \in Packets /\ p.kind = kind /\ p \in Elements(inQueue[r])
             /\ passing[r] = Nobody
             /\ \A q \in Routers :
                  /\ Len(inQueue'[q]) <= Len(inQueue[q])
                  /\ Elements(inQueue'[q]) \subseteq Elements(inQueue[q])
                  /\ Elements(inQueue[q]) \subseteq
                       Elements(inQueue'[q]) \cup (IF q = r THEN {p} ELSE {})
  <1> DEFINE p == Head(inQueue[r])
  <1>1. /\ passing[r] = Nobody /\ inQueue[r] # <<>> /\ p.kind = kind
        /\ inQueue' = [inQueue EXCEPT ![r] = Tail(inQueue[r])]
    BY DEF Take
  <1>2. \A q \in Routers : inQueue[q] \in Seq(Packets)
    BY DEF TypeOK
  <1>3. /\ p \in Packets /\ Len(Tail(inQueue[r])) <= Len(inQueue[r])
        /\ Elements(inQueue[r]) = {p} \cup Elements(Tail(inQueue[r]))
    BY <1>1, <1>2, HeadTailElements
  <1>4. ASSUME NEW q \in Routers
        PROVE  /\ Len(inQueue'[q]) <= Len(inQueue[q])
               /\ Elements(inQueue'[q]) \subseteq Elements(inQueue[q])
               /\ Elements(inQueue[q]) \subseteq
                    Elements(inQueue'[q]) \cup (IF q = r THEN {p} ELSE {})
    <2>1. CASE q = r
      <3>1. inQueue'[q] = Tail(inQueue[r])
        BY <1>1, <2>1 DEF TypeOK
      <3> QED
        BY <1>3, <2>1, <3>1
    <2>2. CASE q # r
      <3>1. inQueue'[q] = inQueue[q] /\ Len(inQueue[q]) \in Nat
        BY <1>1, <1>2, <2>2 DEF TypeOK
      <3> QED
        BY <2>2, <3>1
    <2> QED
      BY <2>1, <2>2
  <1> QED
    BY <1>1, <1>3, <1>4

(* What is emitted gets into the second queue or is lost.                  *)
LEMMA EmitMoves ==
  ASSUME TypeOK, NEW r \in Routers, NEW p \in Packets, Emit(r, p)
  PROVE  /\ \A q \in Routers :
              /\ Elements(arpQueue'[q]) \subseteq
                   Elements(arpQueue[q]) \cup (IF q = r THEN {p} ELSE {})
              /\ Elements(arpQueue[q]) \subseteq Elements(arpQueue'[q])
              /\ Len(arpQueue[q]) <= QueueCapacity => Len(arpQueue'[q]) <= QueueCapacity
         /\ lostAt' # current /\ Len(arpQueue[r]) <= QueueCapacity =>
              p \in Elements(arpQueue'[r]) /\ lostAt # current
  <1>1. /\ arpQueue' = [arpQueue EXCEPT ![r] = Enqueue(arpQueue[r], p)]
        /\ lostAt' = IF Full(arpQueue[r]) THEN current ELSE lostAt
    BY DEF Emit
  <1>2. /\ arpQueue[r] \in Seq(Packets)
        /\ arpQueue'[r] = Enqueue(arpQueue[r], p)
        /\ \A q \in Routers : q # r => arpQueue'[q] = arpQueue[q]
    BY <1>1 DEF TypeOK
  <1>3. /\ Elements(arpQueue'[r]) \subseteq Elements(arpQueue[r]) \cup {p}
        /\ Elements(arpQueue[r]) \subseteq Elements(arpQueue'[r])
        /\ Len(arpQueue[r]) <= QueueCapacity =>
             /\ Len(arpQueue'[r]) <= QueueCapacity
             /\ ~Full(arpQueue[r]) => p \in Elements(arpQueue'[r])
    BY <1>2, Enqueued
  <1> QED
    BY <1>1, <1>2, <1>3

(* What is sent gets to all next hops, and a request that gets to the GNRS *)
(* is answered, or a loss is noted.                                        *)
LEMMA SendMoves ==
  ASSUME TypeOK, NEW r \in Routers, Send(r)
  PROVE  LET p == Head(arpQueue[r])
             answer == Answer(p.src, current)
         IN  /\ p \in Packets /\ p \in Elements(arpQueue[r])
             /\ p.kind = "request" => p.src \in Routers /\ answer \in Packets
             /\ \A q \in Routers :
                  /\ Len(arpQueue'[q]) <= Len(arpQueue[q])
                  /\ Elements(arpQueue'[q]) \subseteq Elements(arpQueue[q])
                  /\ Elements(arpQueue[q]) \subseteq
                       Elements(arpQueue'[q]) \cup (IF q = r THEN {p} ELSE {})
                  /\ Elements(inQueue'[q]) \subseteq
                       Elements(inQueue[q]) \cup (IF p.kind = "request" THEN {p, answer} ELSE {p})
                  /\ Elements(inQueue[q]) \subseteq Elements(inQueue'[q])
                  /\ Len(inQueue[q]) <= QueueCapacity =>
                       /\ Len(inQueue'[q]) <= QueueCapacity
                       /\ lostAt' # current =>
                            /\ lostAt # current
                            /\ q \in NextHops(r, p) => p \in Elements(inQueue'[q])
                            /\ p.kind = "request" /\ GNRS \in NextHops(r, p)
                                 /\ q = r /\ r \notin NextHops(r, p) =>
                                   answer \in Elements(inQueue'[r])
  <1> DEFINE p == Head(arpQueue[r])
             answer == Answer(p.src, current)
             next == NextHops(r, p)
  <1>1. /\ arpQueue[r] # <<>> /\ arpQueue' = [arpQueue EXCEPT ![r] = Tail(arpQueue[r])]
    BY DEF Send
  <1>2. \A q \in Routers : inQueue[q] \in Seq(Packets) /\ arpQueue[q] \in Seq(Packets)
    BY DEF TypeOK
  <1>3. /\ p \in Packets /\ Len(Tail(arpQueue[r])) <= Len(arpQueue[r])
        /\ Elements(arpQueue[r]) = {p} \cup Elements(Tail(arpQueue[r]))
    BY <1>1, <1>2, HeadTailElements
  <1>4. p.kind = "request" => p.src \in Routers /\ answer \in Packets
    <2>1. p.kind = "request" => p.src \in Routers
      BY <1>3, PacketCases, PacketKinds
    <2>2. current \in Versions
      BY DEF TypeOK
    <2> QED
      BY <2>1, <2>2, PacketKinds DEF Packets
  <1>5. PICK got \in SUBSET next :
          LET asked == GNRS \in got /\ p.kind = "request"
              Arriving(n) == IF n \in got THEN p ELSE answer
              enqueued == (got \cap Routers) \cup (IF asked THEN {r} ELSE {})
          IN  /\ inQueue' = [n \in Routers |->
                   IF n \in enqueued THEN Enqueue(inQueue[n], Arriving(n)) ELSE inQueue[n]]
              /\ lostAt' = IF got # next \/ \E n \in enqueued : Full(inQueue[n])
                             THEN current ELSE lostAt
    BY DEF Send
  <1>6. ASSUME NEW q \in Routers
        PROVE  /\ Len(arpQueue'[q]) <= Len(arpQueue[q])
               /\ Elements(arpQueue'[q]) \subseteq Elements(arpQueue[q])
               /\ Elements(arpQueue[q]) \subseteq
                    Elements(arpQueue'[q]) \cup (IF q = r THEN {p} ELSE {})
    <2>1. CASE q = r
      <3>1. arpQueue'[q] = Tail(arpQueue[r])
        BY <1>1, <2>1 DEF TypeOK
      <3> QED
        BY <1>3, <2>1, <3>1
    <2>2. CASE q # r
      <3>1. arpQueue'[q] = arpQueue[q] /\ Len(arpQueue[q]) \in Nat
        BY <1>1, <1>2, <2>2 DEF TypeOK
      <3> QED
        BY <2>2, <3>1
    <2> QED
      BY <2>1, <2>2
  <1>7. ASSUME NEW q \in Routers
        PROVE  /\ Elements(inQueue'[q]) \subseteq
                    Elements(inQueue[q]) \cup (IF p.kind = "request" THEN {p, answer} ELSE {p})
               /\ Elements(inQueue[q]) \subseteq Elements(inQueue'[q])
               /\ Len(inQueue[q]) <= QueueCapacity =>
                    /\ Len(inQueue'[q]) <= QueueCapacity
                    /\ lostAt' # current =>
                         /\ lostAt # current
                         /\ q \in next => p \in Elements(inQueue'[q])
                         /\ p.kind = "request" /\ GNRS \in next /\ q = r /\ r \notin next =>
                                answer \in Elements(inQueue'[r])
    <2> HIDE DEF answer, next
    <2>0. lostAt' # current => lostAt # current /\ got = next
      BY <1>5
    <2>4. ASSUME NEW x \in Packets
          PROVE  /\ Elements(Enqueue(inQueue[q], x)) \subseteq Elements(inQueue[q]) \cup {x}
                 /\ Elements(inQueue[q]) \subseteq Elements(Enqueue(inQueue[q], x))
                 /\ Len(inQueue[q]) <= QueueCapacity =>
                      /\ Len(Enqueue(inQueue[q], x)) <= QueueCapacity
                      /\ ~Full(inQueue[q]) => x \in Elements(Enqueue(inQueue[q], x))
      BY <1>2, Enqueued
    <2>1. CASE q \in got
      <3>1. inQueue'[q] = Enqueue(inQueue[q], p) /\ (lostAt' # current => ~Full(inQueue[q]))
        BY <1>5, <2>1
      <3>2. /\ Elements(inQueue'[q]) \subseteq Elements(inQueue[q]) \cup {p}
            /\ Elements(inQueue[q]) \subseteq Elements(inQueue'[q])
            /\ Len(inQueue[q]) <= QueueCapacity =>
                 /\ Len(inQueue'[q]) <= QueueCapacity
                 /\ ~Full(inQueue[q]) => p \in Elements(inQueue'[q])
        BY <1>3, <2>4, <3>1
      <3> QED
        BY <2>0, <2>1, <3>1, <3>2
    <2>2. CASE q \notin got /\ q = r /\ p.kind = "request" /\ GNRS \in got
      <3>1. inQueue'[q] = Enqueue(inQueue[q], answer) /\ (lostAt' # current => ~Full(inQueue[q]))
        BY <1>5, <2>2
      <3>2. /\ Elements(inQueue'[q]) \subseteq Elements(inQueue[q]) \cup {answer}
            /\ Elements(inQueue[q]) \subseteq Elements(inQueue'[q])
            /\ Len(inQueue[q]) <= QueueCapacity =>
                 /\ Len(inQueue'[q]) <= QueueCapacity
                 /\ ~Full(inQueue[q]) => answer \in Elements(inQueue'[q])
        BY <1>4, <2>2, <2>4, <3>1
      <3> QED
        BY <2>0, <2>2, <3>1, <3>2
    <2>3. CASE q \notin got /\ ~(q = r /\ p.kind = "request" /\ GNRS \in got)
      <3>1. inQueue'[q] = inQueue[q]
        BY <1>5, <2>3
      <3> QED
        BY <2>0, <2>3, <3>1
    <2> QED
      BY <2>1, <2>2, <2>3
  <1> QED
    BY <1>3, <1>4, <1>6, <1>7

(* The steps of a router.                                                  *)
Step(r) ==
  \/ Send(r) \/ HandleData(r) \/ EmitRequest(r) \/ HandleGNRSRequest(r)
  \/ HandleGNRSResponse(r) \/ PassOn(r)

(* Packet p is in a queue or in the hands of a thread.                     *)
InSight(p) ==
  \E r \in Routers :
    passing[r] = p \/ p \in Elements(inQueue[r]) \/ p \in Elements(arpQueue[r])

(* What a router emits.                                                    *)
LEMMA Emitted ==
  ASSUME TypeOK, NEW r \in Routers
  PROVE  /\ EmitRequest(r) => Emit(r, Request(r)) /\ Request(r) \in Packets
         /\ HandleGNRSRequest(r) =>
              LET request == Head(inQueue[r])
                  p == IF cached[r] = 0 THEN request ELSE Answer(request.src, cached[r])
              IN  /\ Take(r, "request") /\ Emit(r, p) /\ p \in Packets
                  /\ request.src \in Routers /\ request = Request(request.src)
                  /\ cached[r] # 0 => cached[r] \in Versions
         /\ PassOn(r) => /\ Emit(r, passing[r]) /\ passing[r] \in Packets
                         /\ passing[r] \in Responses
  <1>1. ASSUME EmitRequest(r) PROVE Emit(r, Request(r)) /\ Request(r) \in Packets
    BY <1>1, PacketKinds DEF EmitRequest
  <1>2. ASSUME HandleGNRSRequest(r)
        PROVE  LET request == Head(inQueue[r])
                   p == IF cached[r] = 0 THEN request ELSE Answer(request.src, cached[r])
               IN  /\ Take(r, "request") /\ Emit(r, p) /\ p \in Packets
                   /\ request.src \in Routers /\ request = Request(request.src)
                   /\ cached[r] # 0 => cached[r] \in Versions
    <2> DEFINE request == Head(inQueue[r])
               p == IF cached[r] = 0 THEN request ELSE Answer(request.src, cached[r])
    <2>1. Take(r, "request") /\ Emit(r, p)
      BY <1>2 DEF HandleGNRSRequest
    <2>2. request \in Packets /\ request.kind = "request"
      BY <2>1, TakeMoves
    <2>3. request.src \in Routers /\ request = Request(request.src)
      BY <2>2, PacketCases, PacketKinds
    <2>4. cached[r] # 0 => cached[r] \in Versions
      BY FloodAssumption DEF TypeOK, Versions
    <2>5. p \in Packets
      BY <2>2, <2>3, <2>4, PacketKinds DEF Packets
    <2> QED
      BY <2>1, <2>3, <2>4, <2>5
  <1>3. ASSUME PassOn(r)
        PROVE  Emit(r, passing[r]) /\ passing[r] \in Packets /\ passing[r] \in Responses
    BY <1>3 DEF PassOn, TypeOK, Packets
  <1> QED
    BY <1>1, <1>2, <1>3

(* A packet that comes up is a request of this router, an answer with its  *)
(* entry or an answer of the GNRS.                                         *)
LEMMA Origin ==
  ASSUME TypeOK, NEW r \in Routers, Step(r), NEW p, p # Nobody, InSight(p)', ~InSight(p)
  PROVE  \/ p = Request(r)
         \/ \E q \in Routers : p = Answer(q, current)
         \/ \E q \in Routers : cached[r] # 0 /\ p = Answer(q, cached[r])
  <1>1. PICK q \in Routers : \/ passing'[q] = p \/ p \in Elements(inQueue'[q])
                            \/ p \in Elements(arpQueue'[q])
    BY DEF InSight, Elements
  <1>2. /\ passing[q] # p /\ p \notin Elements(inQueue[q]) /\ p \notin Elements(arpQueue[q])
        /\ passing[r] # p /\ p \notin Elements(inQueue[r]) /\ p \notin Elements(arpQueue[r])
    BY DEF InSight
  <1>3. CASE Send(r)
    <2> DEFINE s == Head(arpQueue[r])
    <2>1. /\ passing' = passing /\ s \in Elements(arpQueue[r])
          /\ s.kind = "request" => s.src \in Routers
          /\ Elements(arpQueue'[q]) \subseteq Elements(arpQueue[q])
          /\ Elements(inQueue'[q]) \subseteq Elements(inQueue[q]) \cup
               (IF s.kind = "request" THEN {s, Answer(s.src, current)} ELSE {s})
      BY <1>3, SendMoves DEF Send
    <2> HIDE DEF s
    <2> QED
      BY <1>1, <1>2, <2>1
  <1>4. CASE HandleData(r)
    BY <1>1, <1>2, <1>4 DEF HandleData
  <1>5. CASE EmitRequest(r)
    <2>1. /\ passing' = passing /\ inQueue' = inQueue
          /\ Elements(arpQueue'[q]) \subseteq Elements(arpQueue[q]) \cup {Request(r)}
      BY <1>5, Emitted, EmitMoves DEF EmitRequest
    <2> QED
      BY <1>1, <1>2, <2>1
  <1>6. CASE HandleGNRSRequest(r)
    <2> DEFINE request == Head(inQueue[r])
               s == IF cached[r] = 0 THEN request ELSE Answer(request.src, cached[r])
    <2>1. /\ Take(r, "request") /\ Emit(r, s) /\ s \in Packets
          /\ request.src \in Routers /\ passing' = passing
      BY <1>6, Emitted DEF HandleGNRSRequest
    <2>2. Elements(inQueue'[q]) \subseteq Elements(inQueue[q]) /\ request \in Elements(inQueue[r])
      BY <2>1, TakeMoves
    <2> HIDE DEF s
    <2>3. Elements(arpQueue'[q]) \subseteq Elements(arpQueue[q]) \cup {s}
      BY <2>1, EmitMoves
    <2>4. p = s
      BY <1>1, <1>2, <2>1, <2>2, <2>3
    <2> HIDE DEF request
    <2> QED
      BY <1>2, <2>1, <2>2, <2>4 DEF s
  <1>7. CASE HandleGNRSResponse(r)
    <2>1. Take(r, "response") /\ arpQueue' = arpQueue
      BY <1>7 DEF HandleGNRSResponse
    <2>2. Elements(inQueue'[q]) \subseteq Elements(inQueue[q])
          /\ Head(inQueue[r]) \in Elements(inQueue[r])
      BY <2>1, TakeMoves
    <2>3. passing'[q] = p => (passing[q] = p \/ Head(inQueue[r]) = p)
      <3>1. \/ passing' = passing
            \/ passing' = [passing EXCEPT ![r] = Nobody]
            \/ passing' = [passing EXCEPT ![r] = Head(inQueue[r])]
        BY <1>7 DEF HandleGNRSResponse
      <3> QED
        BY <3>1 DEF TypeOK
    <2> QED
      BY <1>1, <1>2, <2>1, <2>2, <2>3
  <1>8. CASE PassOn(r)
    <2>1. /\ passing' = [passing EXCEPT ![r] = Nobody]
          /\ inQueue' = inQueue
          /\ Elements(arpQueue'[q]) \subseteq Elements(arpQueue[q]) \cup {passing[r]}
      BY <1>8, Emitted, EmitMoves DEF PassOn
    <2>2. passing'[q] = p => passing[q] = p
      BY <2>1 DEF TypeOK
    <2> QED
      BY <1>1, <1>2, <2>1, <2>2
  <1> QED
    BY <1>3, <1>4, <1>5, <1>6, <1>7, <1>8 DEF Step

(* No step of a router makes a broadcast of a version anew.                *)
LEMMA NothingNew ==
  ASSUME TypeOK, NEW r \in Routers, NEW v \in Versions, UnderWay(v)', Step(r)
  PROVE  UnderWay(v)
  <1> DEFINE c == Change(v)
  <1>1. InSight(c)' /\ (InSight(c) => UnderWay(v))
    BY DEF UnderWay, InSight, Elements
  <1>2. c \in Packets /\ c.kind = "response" /\ c.dst = BroadcastNa
        /\ BroadcastNa \notin Routers /\ c # Nobody
    BY PacketKinds, FloodAssumption DEF Packets
  <1>3. ASSUME NEW w, NEW q \in Routers PROVE c # Answer(q, w) /\ c # Request(q)
    <2>1. Answer(q, w).dst = q /\ Request(q).kind = "request"
      BY DEF Answer, Response, Request
    <2> QED
      BY <1>2, <2>1
  <1> HIDE DEF c
  <1> QED
    BY <1>1, <1>2, <1>3, Origin

LEMMA InitFlood == Init => FloodInv
  <1> SUFFICES ASSUME Init PROVE FloodInv
    OBVIOUS
  <1>1. \A v \in Versions : ~UnderWay(v)
    BY FloodAssumption DEF Init, UnderWay
  <1>2. \A r \in Routers, v \in Versions : passed[r][v] = 0 /\ passing[r] # Change(v)
    BY FloodAssumption DEF Init
  <1> QED
    BY <1>1, <1>2, InitTyped DEF FloodInv, WindowOK, AcceptedOK, KeptOK, OnceOK, Accepted

(* A step that leaves the filters and what was accepted alone.             *)
LEMMA FrameFlood ==
  ASSUME FloodInv, TypeOK',
         UNCHANGED <<bounds, current, filter, passing, passed>>,
         \A v \in Versions : UnderWay(v)' => UnderWay(v)
  PROVE  FloodInv'
  BY DEF FloodInv, WindowOK, AcceptedOK, KeptOK, OnceOK, Accepted, Kept, Near

LEMMA PassOnFlood ==
  ASSUME FloodInv, TypeOK', NEW r \in Routers, PassOn(r)
  PROVE  FloodInv'
  <1>1. TypeOK
    BY DEF FloodInv
  <1>2. \A v \in Versions : UnderWay(v)' => UnderWay(v)
    BY <1>1, NothingNew DEF Step
  <1>3. /\ UNCHANGED <<bounds, current, filter>> /\ passing[r] \in Responses
        /\ passing' = [passing EXCEPT ![r] = Nobody]
    BY <1>1 DEF PassOn, TypeOK
  <1>4. \A q \in Routers, v \in Versions :
          passing'[q] = Change(v) => q # r /\ passing[q] = Change(v)
    BY <1>1, <1>3, FloodAssumption DEF TypeOK
  <1>5. ASSUME NEW q \in Routers, NEW v \in Versions
        PROVE  \/ passed'[q][v] = passed[q][v]
               \/ q = r /\ passing[r] = Change(v) /\ passed'[q][v] = passed[q][v] + 1
    <2>1. CASE passed' = passed
      BY <2>1
    <2>2. CASE /\ passing[r].dst = BroadcastNa
               /\ passed' = [passed EXCEPT ![r][passing[r].version] = @ + 1]
      <3>1. passing[r] = Change(passing[r].version) /\ passing[r].version \in Versions
        BY <1>3, <2>2, ResponseCases
      <3> QED
        BY <1>1, <2>2, <3>1 DEF TypeOK
    <2> QED
      BY <2>1, <2>2 DEF PassOn
  <1>6. \A q \in Routers, v \in Versions : passed[q][v] \in 0..2
    BY <1>1 DEF TypeOK
  <1>7. ASSUME NEW q \in Routers, NEW v \in Versions, Accepted(q, v)' PROVE Accepted(q, v)
    BY <1>4, <1>5, <1>6, <1>7 DEF Accepted
  <1>8. WindowOK'
    BY <1>2, <1>3 DEF FloodInv, WindowOK
  <1>9. AcceptedOK'
    BY <1>3, <1>7 DEF FloodInv, AcceptedOK
  <1>10. KeptOK'
    <2> SUFFICES ASSUME NEW q \in Routers, NEW v \in Versions, UnderWay(v)', Accepted(q, v)'
                 PROVE  Kept(filter[q], v)'
      BY DEF KeptOK
    <2>1. Kept(filter[q], v)
      BY <1>2, <1>7 DEF FloodInv, KeptOK
    <2> QED
      BY <1>3, <2>1 DEF Kept, Near
  <1>11. OnceOK'
    <2> SUFFICES ASSUME NEW q \in Routers, NEW v \in Versions
                 PROVE  passed'[q][v] < 2 /\ (passing'[q] = Change(v) => passed'[q][v] = 0)
      BY DEF OnceOK
    <2>1. passed[q][v] < 2 /\ (passing[q] = Change(v) => passed[q][v] = 0)
      BY DEF FloodInv, OnceOK
    <2> QED
      BY <1>4, <1>5, <1>6, <2>1
  <1> QED
    BY <1>8, <1>9, <1>10, <1>11 DEF FloodInv

LEMMA ResponseFlood ==
  ASSUME FloodInv, TypeOK', NEW r \in Routers, HandleGNRSResponse(r)
  PROVE  FloodInv'
  <1> DEFINE response == Head(inQueue[r])
             u == response.version
  <1>1. TypeOK
    BY DEF FloodInv
  <1>2. \A v \in Versions : UnderWay(v)' => UnderWay(v)
    BY <1>1, NothingNew DEF Step
  <1>3. UNCHANGED <<bounds, current, passed>>
    BY DEF HandleGNRSResponse
  <1>4. response \in Responses /\ response \in Elements(inQueue[r])
    <2>1. /\ inQueue[r] \in Seq(Packets) /\ inQueue[r] # <<>>
          /\ response.kind = "response"
      BY <1>1 DEF HandleGNRSResponse, Take, TypeOK
    <2> QED
      BY <2>1, HeadTailElements, PacketCases
  <1>5. CASE Duplicate(r, response)
    <2>1. UNCHANGED <<filter, passing>>
      BY <1>5 DEF HandleGNRSResponse
    <2> QED
      BY <1>2, <1>3, <2>1, FrameFlood
  <1>6. CASE ~Duplicate(r, response) /\ response.dst # BroadcastNa
    <2>1. filter' = filter
      BY <1>6 DEF HandleGNRSResponse
    <2>2. \A q \in Routers, v \in Versions :
            passing'[q] = Change(v) => passing[q] = Change(v)
      <3>1. passing' = [passing EXCEPT ![r] = IF response.dst = r THEN Nobody ELSE response]
        BY <1>6 DEF HandleGNRSResponse
      <3>2. \A v \in Versions : response # Change(v) /\ Nobody # Change(v)
        BY <1>6, FloodAssumption, PacketKinds
      <3> QED
        BY <1>1, <3>1, <3>2 DEF TypeOK
    <2>3. \A q \in Routers, v \in Versions : Accepted(q, v)' => Accepted(q, v)
      BY <1>3, <2>2 DEF Accepted
    <2>4. WindowOK' /\ AcceptedOK'
      BY <1>2, <1>3, <2>3 DEF FloodInv, WindowOK, AcceptedOK
    <2>5. KeptOK'
      <3> SUFFICES ASSUME NEW q \in Routers, NEW v \in Versions, UnderWay(v)', Accepted(q, v)'
                   PROVE  Kept(filter[q], v)'
        BY DEF KeptOK
      <3>1. Kept(filter[q], v)
        BY <1>2, <2>3 DEF FloodInv, KeptOK
      <3> QED
        BY <1>3, <2>1, <3>1 DEF Kept, Near
    <2>6. OnceOK'
      BY <1>3, <2>2 DEF FloodInv, OnceOK
    <2> QED
      BY <2>4, <2>5, <2>6 DEF FloodInv
  <1>7. CASE ~Duplicate(r, response) /\ response.dst = BroadcastNa
    <2>1. /\ response = Change(u) /\ u \in Versions /\ response.nonce = NonceOf(u)
          /\ BroadcastNa # r
      BY <1>4, <1>7, ResponseCases, PacketKinds
    <2>2. UnderWay(u)
      BY <1>4, <2>1, UnderWayWhere
    <2>3. /\ filter' = [filter EXCEPT ![r] = Remembering(filter[r], NonceOf(u))]
          /\ passing' = [passing EXCEPT ![r] = Change(u)]
          /\ ~Knows(filter[r], NonceOf(u))
      <3>1. response.dst # r
        BY <1>7, <2>1
      <3> QED
        BY <1>7, <2>1, <3>1 DEF HandleGNRSResponse, Duplicate
    <2>4. FilterOK(filter[r])
      BY <1>1 DEF TypeOK
    <2>5. ~Accepted(r, u)
      BY <2>1, <2>2, <2>3, <2>4, KeptIsKnown DEF FloodInv, KeptOK
    <2>6. ASSUME NEW q \in Routers, NEW v \in Versions, Accepted(q, v)'
          PROVE  Accepted(q, v) \/ (q = r /\ v = u)
      <3>1. CASE passed[q][v] > 0
        BY <3>1 DEF Accepted
      <3>2. CASE passing'[q] = Change(v)
        <4>1. CASE q = r
          <5>1. Change(v) = Change(u)
            BY <1>1, <2>3, <3>2, <4>1 DEF TypeOK
          <5> QED
            BY <2>1, <4>1, <5>1, PacketKinds
        <4>2. CASE q # r
          BY <1>1, <2>3, <3>2, <4>2 DEF TypeOK, Accepted
        <4> QED
          BY <4>1, <4>2
      <3> QED
        BY <1>3, <2>6, <3>1, <3>2 DEF Accepted
    <2>7. WindowOK'
      BY <1>2, <1>3 DEF FloodInv, WindowOK
    <2>8. AcceptedOK'
      <3> SUFFICES ASSUME NEW q \in Routers, NEW v \in Versions, Accepted(q, v)'
                   PROVE  v <= current
        BY <1>3 DEF AcceptedOK
      <3> QED
        BY <2>1, <2>2, <2>6 DEF FloodInv, AcceptedOK, WindowOK
    <2>9. KeptOK'
      <3> SUFFICES ASSUME NEW q \in Routers, NEW v \in Versions, UnderWay(v)', Accepted(q, v)'
                   PROVE  Kept(filter[q], v)'
        BY DEF KeptOK
      <3>1. UnderWay(v) /\ (Accepted(q, v) \/ (q = r /\ v = u))
        BY <1>2, <2>6
      <3>2. Kept(filter'[q], v)
        <4>1. CASE q # r
          <5>1. Kept(filter[q], v) /\ filter'[q] = filter[q]
            BY <1>1, <2>3, <3>1, <4>1 DEF FloodInv, KeptOK, TypeOK
          <5> QED
            BY <5>1
        <4>2. filter'[r] = Remembering(filter[r], NonceOf(u))
          BY <1>1, <2>3 DEF TypeOK
        <4>3. CASE q = r /\ v = u
          BY <2>1, <2>3, <2>4, <4>2, <4>3, KeptAtOnce
        <4>4. CASE q = r /\ v # u
          <5>1. Kept(filter[r], v)
            BY <3>1, <4>4 DEF FloodInv, KeptOK
          <5>2. u \in Near(v)
            <6>1. /\ u <= current /\ u + bounds.window > current
                  /\ v <= current /\ v + bounds.window > current
              BY <2>1, <2>2, <3>1 DEF FloodInv, WindowOK
            <6>2. u \in Nat /\ v \in Nat /\ current \in Nat /\ bounds.window \in Nat
              BY <1>1, <2>1, BoundsTyped
            <6>3. u + bounds.window > v /\ v + bounds.window > u
              BY <6>1, <6>2
            <6> QED
              BY <2>1, <4>4, <6>3 DEF Near
          <5> HIDE DEF u
          <5> QED
            BY <1>1, <2>3, <2>4, <4>2, <4>4, <5>1, <5>2, KeptOn
        <4> QED
          BY <4>1, <4>3, <4>4
      <3> QED
        BY <1>3, <3>2 DEF Kept, Near
    <2>10. OnceOK'
      <3> SUFFICES ASSUME NEW q \in Routers, NEW v \in Versions
                   PROVE  passed'[q][v] < 2 /\ (passing'[q] = Change(v) => passed'[q][v] = 0)
        BY DEF OnceOK
      <3>1. passed[q][v] < 2 /\ (passing[q] = Change(v) => passed[q][v] = 0)
        BY DEF FloodInv, OnceOK
      <3>2. passed[q][v] \in 0..2
        BY <1>1 DEF TypeOK
      <3>3. ASSUME passing'[q] = Change(v) PROVE passed[q][v] = 0
        <4>1. CASE passing[q] = Change(v)
          BY <3>1, <4>1
        <4>2. CASE passing[q] # Change(v)
          <5>1. q = r /\ Change(v) = Change(u)
            BY <1>1, <2>3, <3>3, <4>2 DEF TypeOK
          <5>2. v = u
            BY <2>1, <5>1, PacketKinds
          <5> QED
            BY <2>5, <3>2, <5>1, <5>2 DEF Accepted
        <4> QED
          BY <4>1, <4>2
      <3> QED
        BY <1>3, <3>1, <3>3
    <2> QED
      BY <2>7, <2>8, <2>9, <2>10 DEF FloodInv
  <1> QED
    BY <1>5, <1>6, <1>7

(* A new change is near those that are still under way, and nobody has     *)
(* taken it yet.                                                           *)
LEMMA UpdateFlood ==
  ASSUME FloodInv, TypeOK', Update
  PROVE  FloodInv'
  <1>1. TypeOK /\ bounds.window \in Nat \ {0} /\ current \in Nat
    BY BoundsTyped DEF FloodInv
  <1>2. /\ UNCHANGED <<bounds, filter, passing, passed, arpQueue>> /\ current' = current + 1
        /\ current' \in Versions
    BY DEF Update, TypeOK
  <1>3. ASSUME NEW v \in Versions, UnderWay(v)' PROVE UnderWay(v) \/ v = current'
    <2>1. PICK q \in Routers :
            \/ passing'[q] = Change(v) \/ Change(v) \in Elements(inQueue'[q])
            \/ Change(v) \in Elements(arpQueue'[q])
      BY <1>3 DEF UnderWay, Elements
    <2>2. CASE Change(v) \in Elements(inQueue'[q])
      <3>1. inQueue'[q] \in {inQueue[q], Enqueue(inQueue[q], Change(current'))}
        BY DEF Update
      <3>2. Change(current') \in Packets /\ inQueue[q] \in Seq(Packets)
        <4>1. Change(current') \in Packets
          BY <1>2, PacketKinds DEF Packets
        <4> QED
          BY <1>1, <4>1 DEF TypeOK
      <3>3. Elements(Enqueue(inQueue[q], Change(current')))
              \subseteq Elements(inQueue[q]) \cup {Change(current')}
        BY <3>2, Enqueued
      <3>4. Change(v) \in Elements(inQueue[q]) \/ Change(v) = Change(current')
        BY <2>2, <3>1, <3>3
      <3>5. Change(v).version = v /\ Change(current').version = current'
        BY <1>2, PacketKinds
      <3> QED
        BY <3>4, <3>5, UnderWayWhere
    <2> QED
      BY <1>2, <2>1, <2>2, UnderWayWhere
  <1>4. \A q \in Routers, v \in Versions : Accepted(q, v)' => Accepted(q, v)
    BY <1>2 DEF Accepted
  <1>5. WindowOK'
    <2> SUFFICES ASSUME NEW v \in Versions, UnderWay(v)'
                 PROVE  v <= current' /\ v + bounds'.window > current'
      BY DEF WindowOK
    <2>1. CASE v = current'
      BY <1>1, <1>2, <2>1
    <2>2. CASE UnderWay(v)
      <3>1. v <= current /\ ~(v <= current + 1 - bounds.window)
        BY <2>2 DEF FloodInv, WindowOK, Update
      <3>2. v \in Nat
        BY <1>1, BoundsTyped
      <3> QED
        BY <1>1, <1>2, <3>1, <3>2
    <2> QED
      BY <1>3, <2>1, <2>2
  <1>6. AcceptedOK'
    <2>1. \A v \in Versions : v \in Nat
      BY <1>1, BoundsTyped
    <2> QED
      BY <1>1, <1>2, <1>4, <2>1 DEF FloodInv, AcceptedOK
  <1>7. KeptOK'
    <2> SUFFICES ASSUME NEW q \in Routers, NEW v \in Versions, UnderWay(v)', Accepted(q, v)'
                 PROVE  Kept(filter[q], v)'
      BY DEF KeptOK
    <2>1. v <= current /\ v \in Nat
      BY <1>1, <1>4, BoundsTyped DEF FloodInv, AcceptedOK
    <2>2. UnderWay(v)
      BY <1>1, <1>2, <1>3, <2>1
    <2>3. Kept(filter[q], v)
      BY <1>4, <2>2 DEF FloodInv, KeptOK
    <2> QED
      BY <1>2, <2>3 DEF Kept, Near
  <1>8. OnceOK'
    BY <1>2 DEF FloodInv, OnceOK
  <1> QED
    BY <1>5, <1>6, <1>7, <1>8 DEF FloodInv

LEMMA NextFlood == FloodInv /\ [Next]_vars => FloodInv'
  <1> SUFFICES ASSUME FloodInv, [Next]_vars PROVE FloodInv'
    OBVIOUS
  <1>1. TypeOK /\ TypeOK' /\ bounds.publishing \subseteq Routers
    BY NextTyped, BoundsTyped DEF FloodInv
  <1>2. ASSUME NEW r \in Routers, Send(r) PROVE FloodInv'
    <2>1. \A v \in Versions : UnderWay(v)' => UnderWay(v)
      BY <1>1, <1>2, NothingNew DEF Step
    <2>2. UNCHANGED <<bounds, current, filter, passing, passed>>
      BY <1>2 DEF Send
    <2> QED
      BY <1>1, <2>1, <2>2, FrameFlood
  <1>3. ASSUME NEW r \in Routers, HandleData(r) PROVE FloodInv'
    <2>1. \A v \in Versions : UnderWay(v)' => UnderWay(v)
      BY <1>1, <1>3, NothingNew DEF Step
    <2>2. UNCHANGED <<bounds, current, filter, passing, passed>>
      BY <1>3 DEF HandleData
    <2> QED
      BY <1>1, <2>1, <2>2, FrameFlood
  <1>4. ASSUME NEW r \in Routers, EmitRequest(r) PROVE FloodInv'
    <2>1. \A v \in Versions : UnderWay(v)' => UnderWay(v)
      BY <1>1, <1>4, NothingNew DEF Step
    <2>2. UNCHANGED <<bounds, current, filter, passing, passed>>
      BY <1>4 DEF EmitRequest
    <2> QED
      BY <1>1, <2>1, <2>2, FrameFlood
  <1>5. ASSUME NEW r \in Routers, HandleGNRSRequest(r) PROVE FloodInv'
    <2>1. \A v \in Versions : UnderWay(v)' => UnderWay(v)
      BY <1>1, <1>5, NothingNew DEF Step
    <2>2. UNCHANGED <<bounds, current, filter, passing, passed>>
      BY <1>5 DEF HandleGNRSRequest
    <2> QED
      BY <1>1, <2>1, <2>2, FrameFlood
  <1>6. CASE UNCHANGED vars
    <2>1. \A v \in Versions : UnderWay(v)' => UnderWay(v)
      BY <1>6 DEF vars, UnderWay
    <2> QED
      BY <1>1, <1>6, <2>1, FrameFlood DEF vars
  <1> QED
    BY <1>1, <1>2, <1>3, <1>4, <1>5, <1>6, PassOnFlood, ResponseFlood, UpdateFlood
    DEF Next, Work

(* A router passes each change on at most once, in any network, whatever   *)
(* is lost, however the floods of a window cross, and although nonces are  *)
(* forgotten and come again: the filter outlasts every broadcast.          *)
THEOREM FloodPassedOnce == Spec => []FloodedOnce
  <1>1. FloodInv => FloodedOnce
    BY DEF FloodInv, OnceOK, FloodedOnce
  <1> QED
    BY <1>1, InitFlood, NextFlood, PTL DEF Spec

-----------------------------------------------------------------------------
(* What a flood leaves behind.  Two things are asked of what lies around   *)
(* the routers: of the GNRS, that it takes a nonce that no filter holds    *)
(* and no broadcast under way has; of the network, that every router can   *)
(* be reached from the GNRS.                                               *)
NewNonce ==
  /\ \A r \in Routers : ~Knows(filter[r], NonceOf(current'))
  /\ \A v \in Versions : UnderWay(v) => NonceOf(v) # NonceOf(current')

NoncesAreNew == [][Update => NewNonce]_vars

Connected ==
  \A S \in SUBSET Routers :
    (/\ \A r \in Routers : GNRS \in Neighbours[r] => r \in S
     /\ \A r \in S : Neighbours[r] \cap Routers \subseteq S)
    => S = Routers

(* Router r has the current change or is about to.                         *)
Coming(r) == Accepted(r, current) \/ Change(current) \in Elements(inQueue[r])

QueuesOK ==
  \A r \in Routers : Len(inQueue[r]) <= QueueCapacity /\ Len(arpQueue[r]) <= QueueCapacity

(* Nothing is taken for the current change but itself.                     *)
CurrentNonce ==
  /\ \A v \in Versions : UnderWay(v) /\ NonceOf(v) = NonceOf(current) => v = current
  /\ \A r \in Routers : Knows(filter[r], NonceOf(current)) => Accepted(r, current)

VersionsOK ==
  /\ \A p \in Responses : InSight(p) => p.version <= current
  /\ \A r \in Routers : cached[r] <= current

(* A router of interest that has the current change has its version.       *)
InterestOK ==
  /\ current = 1 => interested = {}
  /\ \A r \in interested :
       /\ held[r] \/ cached[r] > 0
       /\ Accepted(r, current) => cached[r] = current
  /\ \A r \in Routers : held[r] => cached[r] = 0

(* Unless one was lost, the current change is with the neighbours of the   *)
(* GNRS and of each router that has passed it on.                          *)
FloodOn ==
  current # 1 /\ ~LostNow =>
    /\ \A r \in Routers : GNRS \in Neighbours[r] => Coming(r)
    /\ \A r \in Routers : passed[r][current] > 0 =>
         \/ Change(current) \in Elements(arpQueue[r])
         \/ \A n \in Neighbours[r] \cap Routers : Coming(n)

ReachInv ==
  FloodInv /\ QueuesOK /\ CurrentNonce /\ VersionsOK /\ InterestOK /\ FloodOn

LEMMA StepFrame ==
  ASSUME NEW r \in Routers, Step(r)
  PROVE  UNCHANGED <<bounds, current, interested>> /\ (LostNow => LostNow')
  <1>1. CASE Send(r)
    BY <1>1 DEF Send, LostNow
  <1>2. CASE ~Send(r)
    BY <1>2 DEF Step, HandleData, EmitRequest, HandleGNRSRequest, HandleGNRSResponse, PassOn,
                Emit, LostNow
  <1> QED
    BY <1>1, <1>2

(* What a router has accepted stays accepted.                              *)
LEMMA AcceptedStays ==
  ASSUME TypeOK, NEW r \in Routers, Step(r), NEW q \in Routers, NEW v \in Versions,
         Accepted(q, v)
  PROVE  Accepted(q, v)'
  <1>0. passed[q][v] \in 0..2 /\ Change(v) # Nobody
    BY FloodAssumption DEF TypeOK
  <1>1. CASE Send(r) \/ HandleData(r) \/ EmitRequest(r) \/ HandleGNRSRequest(r)
    <2>1. UNCHANGED <<passing, passed>>
      BY <1>1 DEF Send, HandleData, EmitRequest, HandleGNRSRequest
    <2> QED
      BY <2>1 DEF Accepted
  <1>2. CASE HandleGNRSResponse(r)
    <2>1. passed' = passed /\ passing[r] = Nobody
      BY <1>2 DEF HandleGNRSResponse, Take
    <2>2. \A n \in Routers : n # r => passing'[n] = passing[n]
      BY <1>2 DEF HandleGNRSResponse, TypeOK
    <2> QED
      BY <1>0, <2>1, <2>2 DEF Accepted
  <1>3. CASE PassOn(r)
    <2>1. /\ passing[r] \in Responses /\ passing' = [passing EXCEPT ![r] = Nobody]
          /\ passed' = IF passing[r].dst = BroadcastNa /\ passed[r][passing[r].version] < 2
                         THEN [passed EXCEPT ![r][passing[r].version] = @ + 1] ELSE passed
      BY <1>3, Emitted DEF PassOn
    <2>2. passing[r].version \in Versions
      BY <2>1, ResponseCases
    <2>3. passed'[q][v] \in {passed[q][v], passed[q][v] + 1}
      BY <2>1, <2>2 DEF TypeOK
    <2>4. CASE passed[q][v] > 0
      BY <1>0, <2>3, <2>4 DEF Accepted
    <2>5. CASE passing[q] = Change(v) /\ q # r
      BY <2>1, <2>5 DEF Accepted, TypeOK
    <2>6. CASE passing[q] = Change(v) /\ q = r /\ passed[q][v] = 0
      <3>1. passing[r].dst = BroadcastNa /\ passing[r].version = v
        BY <2>6, PacketKinds
      <3>2. passed[r][passing[r].version] < 2
        BY <2>6, <3>1
      <3>3. passed' = [passed EXCEPT ![r][passing[r].version] = @ + 1]
        BY <2>1, <3>1, <3>2
      <3>4. passed'[r][passing[r].version] = passed[r][passing[r].version] + 1
        BY <2>2, <3>3 DEF TypeOK
      <3>5. passed'[q][v] = 1
        BY <2>6, <3>1, <3>4
      <3> QED
        BY <3>5 DEF Accepted
    <2> QED
      BY <1>0, <2>4, <2>5, <2>6 DEF Accepted
  <1> QED
    BY <1>1, <1>2, <1>3 DEF Step

(* A router accepts a change by taking it from its queue.                  *)
LEMMA AcceptedBy ==
  ASSUME TypeOK, NEW r \in Routers, Step(r), NEW q \in Routers, NEW v \in Versions,
         Accepted(q, v)', ~Accepted(q, v)
  PROVE  /\ q = r /\ HandleGNRSResponse(r) /\ Head(inQueue[r]) = Change(v)
         /\ ~Duplicate(r, Change(v))
  <1>0. passed[q][v] \in 0..2 /\ Change(v) # Nobody
    BY FloodAssumption DEF TypeOK
  <1>1. CASE Send(r) \/ HandleData(r) \/ EmitRequest(r) \/ HandleGNRSRequest(r)
    <2>1. UNCHANGED <<passing, passed>>
      BY <1>1 DEF Send, HandleData, EmitRequest, HandleGNRSRequest
    <2> QED
      BY <2>1 DEF Accepted
  <1>2. CASE HandleGNRSResponse(r)
    <2>1. passing'[q] = Change(v) /\ passing[q] # Change(v)
      BY <1>2 DEF HandleGNRSResponse, Accepted
    <2>2. ~Duplicate(r, Head(inQueue[r]))
      BY <1>2, <2>1 DEF HandleGNRSResponse
    <2>3. passing' = [passing EXCEPT ![r] =
                        IF Head(inQueue[r]).dst = r THEN Nobody ELSE Head(inQueue[r])]
      BY <1>2, <2>2 DEF HandleGNRSResponse
    <2>4. q = r /\ Head(inQueue[r]) = Change(v)
      BY <1>0, <2>1, <2>3 DEF TypeOK
    <2> QED
      BY <1>2, <2>2, <2>4
  <1>3. CASE PassOn(r)
    <2>1. /\ passing[r] \in Responses /\ passing' = [passing EXCEPT ![r] = Nobody]
          /\ passed' = IF passing[r].dst = BroadcastNa /\ passed[r][passing[r].version] < 2
                         THEN [passed EXCEPT ![r][passing[r].version] = @ + 1] ELSE passed
      BY <1>3, Emitted DEF PassOn
    <2>2. passing'[q] # Change(v)
      BY <1>0, <2>1 DEF TypeOK, Accepted
    <2>3. passed'[q][v] > 0 /\ ~(passed[q][v] > 0)
      BY <2>2 DEF Accepted
    <2>4. /\ passing[r].dst = BroadcastNa
          /\ passed' = [passed EXCEPT ![r][passing[r].version] = @ + 1]
      BY <2>1, <2>3
    <2>5. passing[r] = Change(passing[r].version) /\ passing[r].version \in Versions
      BY <2>1, <2>4, ResponseCases
    <2>6. q = r /\ v = passing[r].version
      BY <2>3, <2>4, <2>5 DEF TypeOK
    <2> QED
      BY <2>5, <2>6 DEF Accepted
  <1> QED
    BY <1>1, <1>2, <1>3 DEF Step

(* A change of the binding goes to the neighbours of the GNRS.             *)
LEMMA UpdateMoves ==
  ASSUME TypeOK, QueuesOK, Update
  PROVE  /\ current' = current + 1 /\ current' \in Versions /\ current' # 1
         /\ UNCHANGED <<arpQueue, passing, passed, filter, cached, held>>
         /\ \A q \in Routers :
              /\ Elements(inQueue[q]) \subseteq Elements(inQueue'[q])
              /\ Elements(inQueue'[q]) \subseteq Elements(inQueue[q]) \cup {Change(current')}
              /\ Len(inQueue'[q]) <= QueueCapacity
              /\ GNRS \in Neighbours[q] /\ ~LostNow' =>
                   Change(current') \in Elements(inQueue'[q])
  <1>1. current' = current + 1 /\ current' \in Versions /\ current' # 1
    <2>1. current \in 1..MaxVersion /\ current < MaxVersion /\ MaxVersion \in Nat
      BY FloodAssumption DEF Update, TypeOK, Versions
    <2> QED
      BY <2>1 DEF Update, Versions
  <1>2. Change(current') \in Packets
    BY <1>1, PacketKinds DEF Packets
  <1>3. UNCHANGED <<arpQueue, passing, passed, filter, cached, held>>
    BY DEF Update
  <1>4. ASSUME NEW q \in Routers
        PROVE  /\ Elements(inQueue[q]) \subseteq Elements(inQueue'[q])
               /\ Elements(inQueue'[q]) \subseteq Elements(inQueue[q]) \cup {Change(current')}
               /\ Len(inQueue'[q]) <= QueueCapacity
               /\ GNRS \in Neighbours[q] /\ ~LostNow' =>
                    Change(current') \in Elements(inQueue'[q])
    <2>1. inQueue[q] \in Seq(Packets) /\ Len(inQueue[q]) <= QueueCapacity
      BY DEF TypeOK, QueuesOK
    <2>2. CASE GNRS \in Neighbours[q]
      <3>1. inQueue'[q] = Enqueue(inQueue[q], Change(current'))
        BY <2>2 DEF Update
      <3>2. ~LostNow' => ~Full(inQueue[q])
        BY <2>2 DEF Update, LostNow
      <3>3. /\ Elements(Enqueue(inQueue[q], Change(current')))
                 \subseteq Elements(inQueue[q]) \cup {Change(current')}
            /\ Elements(inQueue[q]) \subseteq Elements(Enqueue(inQueue[q], Change(current')))
            /\ Len(Enqueue(inQueue[q], Change(current'))) <= QueueCapacity
            /\ ~Full(inQueue[q]) =>
                 Change(current') \in Elements(Enqueue(inQueue[q], Change(current')))
        BY <1>2, <2>1, Enqueued
      <3> QED
        BY <3>1, <3>2, <3>3
    <2>3. CASE GNRS \notin Neighbours[q]
      <3>1. inQueue'[q] = inQueue[q]
        BY <2>3 DEF Update
      <3> QED
        BY <2>1, <2>3, <3>1
    <2> QED
      BY <2>2, <2>3
  <1> QED
    BY <1>1, <1>3, <1>4

LEMMA QueuesStep ==
  ASSUME TypeOK, TypeOK', QueuesOK, [Next]_vars
  PROVE  QueuesOK'
  <1>0. /\ QueueCapacity \in Nat /\ bounds.publishing \subseteq Routers
        /\ \A q \in Routers :
             /\ Len(inQueue[q]) \in Nat /\ Len(arpQueue[q]) \in Nat
             /\ Len(inQueue'[q]) \in Nat /\ Len(arpQueue'[q]) \in Nat
             /\ Len(inQueue[q]) <= QueueCapacity /\ Len(arpQueue[q]) <= QueueCapacity
    <2>1. \A q \in Routers :
            /\ inQueue[q] \in Seq(Packets) /\ arpQueue[q] \in Seq(Packets)
            /\ inQueue'[q] \in Seq(Packets) /\ arpQueue'[q] \in Seq(Packets)
      BY DEF TypeOK
    <2> QED
      <3>1. QueueCapacity \in Nat
        BY FloodAssumption
      <3>2. bounds.publishing \subseteq Routers
        BY BoundsTyped
      <3> QED
        BY <2>1, <3>1, <3>2 DEF QueuesOK
  <1> SUFFICES ASSUME NEW q \in Routers
               PROVE  Len(inQueue'[q]) <= QueueCapacity /\ Len(arpQueue'[q]) <= QueueCapacity
    BY DEF QueuesOK
  <1>1. ASSUME NEW r \in Routers, NEW kind, Take(r, kind)
        PROVE  Len(inQueue'[q]) <= QueueCapacity
    <2>1. Len(inQueue'[q]) <= Len(inQueue[q])
      BY <1>1, TakeMoves
    <2> QED
      BY <1>0, <2>1
  <1>2. ASSUME NEW r \in Routers, NEW p \in Packets, Emit(r, p)
        PROVE  Len(arpQueue'[q]) <= QueueCapacity
    BY <1>0, <1>2, EmitMoves
  <1>3. ASSUME NEW r \in Routers, Step(r)
        PROVE  Len(inQueue'[q]) <= QueueCapacity /\ Len(arpQueue'[q]) <= QueueCapacity
    <2>1. CASE Send(r)
      <3>1. Len(arpQueue'[q]) <= Len(arpQueue[q]) /\ Len(inQueue'[q]) <= QueueCapacity
        BY <1>0, <2>1, SendMoves
      <3> QED
        BY <1>0, <3>1
    <2>2. CASE HandleData(r)
      BY <1>0, <2>2 DEF HandleData
    <2>3. CASE EmitRequest(r)
      <3>1. Emit(r, Request(r)) /\ Request(r) \in Packets /\ inQueue' = inQueue
        BY <2>3, Emitted DEF EmitRequest
      <3> QED
        BY <1>0, <1>2, <3>1
    <2>4. CASE HandleGNRSRequest(r)
      <3>1. PICK p \in Packets : Take(r, "request") /\ Emit(r, p)
        BY <2>4, Emitted
      <3> QED
        BY <1>1, <1>2, <3>1
    <2>5. CASE HandleGNRSResponse(r)
      <3>1. Take(r, "response") /\ arpQueue' = arpQueue
        BY <2>5 DEF HandleGNRSResponse
      <3> QED
        BY <1>0, <1>1, <3>1
    <2>6. CASE PassOn(r)
      <3>1. Emit(r, passing[r]) /\ passing[r] \in Packets /\ inQueue' = inQueue
        BY <2>6, Emitted DEF PassOn
      <3> QED
        BY <1>0, <1>2, <3>1
    <2> QED
      BY <1>3, <2>1, <2>2, <2>3, <2>4, <2>5, <2>6 DEF Step
  <1>4. CASE Update
    <2>1. arpQueue' = arpQueue /\ Len(inQueue'[q]) <= QueueCapacity
      BY <1>4, UpdateMoves
    <2> QED
      BY <1>0, <2>1
  <1>5. CASE UNCHANGED vars
    BY <1>0, <1>5 DEF vars
  <1> QED
    BY <1>0, <1>3, <1>4, <1>5 DEF Next, Work, Step

(* What is new after a change of the binding is its broadcast.             *)
LEMMA UpdateNew ==
  ASSUME TypeOK, QueuesOK, Update, NEW p, InSight(p)', ~InSight(p)
  PROVE  p = Change(current')
  BY UpdateMoves DEF InSight, Elements

LEMMA SightOfChange == \A v : UnderWay(v) <=> InSight(Change(v))
  BY DEF UnderWay, InSight, Elements

LEMMA OthersStay ==
  ASSUME TypeOK, NEW r \in Routers, HandleGNRSResponse(r), NEW q \in Routers, q # r
  PROVE  /\ cached'[q] = cached[q] /\ held'[q] = held[q]
         /\ filter'[q] = filter[q] /\ passing'[q] = passing[q]
  BY DEF HandleGNRSResponse, TypeOK

(* The handler of responses, by what it does at its router.                *)
LEMMA ResponseMoves ==
  ASSUME TypeOK, NEW r \in Routers, HandleGNRSResponse(r)
  PROVE  LET p == Head(inQueue[r])
         IN  /\ Take(r, "response") /\ p \in Responses /\ p \in Packets
             /\ p \in Elements(inQueue[r])
             /\ p.version \in Versions /\ p.dst \in Routers \cup {BroadcastNa}
             /\ p.dst = BroadcastNa =>
                  p = Change(p.version) /\ p.nonce = NonceOf(p.version) /\ p.dst # r
             /\ UNCHANGED <<arpQueue, asking, passed, lostAt>>
             /\ Duplicate(r, p) =>
                  /\ cached'[r] = cached[r] /\ held'[r] = held[r]
                  /\ filter'[r] = filter[r] /\ passing'[r] = passing[r]
             /\ ~Duplicate(r, p) =>
                  /\ filter'[r] = IF p.dst = BroadcastNa
                                   THEN Remembering(filter[r], p.nonce) ELSE filter[r]
                  /\ passing'[r] = IF p.dst = r THEN Nobody ELSE p
                  /\ Applies(r, p) => cached'[r] = p.version /\ held'[r] = FALSE
                  /\ ~Applies(r, p) => cached'[r] = cached[r] /\ held'[r] = held[r]
  <1> DEFINE p == Head(inQueue[r])
  <1>1. Take(r, "response") /\ UNCHANGED <<arpQueue, asking, passed, lostAt>>
    BY DEF HandleGNRSResponse
  <1>2. p \in Packets /\ p.kind = "response" /\ p \in Elements(inQueue[r])
    BY <1>1, TakeMoves
  <1>3. p \in Responses
    BY <1>2, PacketCases
  <1>4. /\ p.version \in Versions /\ p.dst \in Routers \cup {BroadcastNa}
        /\ p.dst = BroadcastNa =>
             p = Change(p.version) /\ p.nonce = NonceOf(p.version) /\ p.dst # r
    BY <1>3, ResponseCases, PacketKinds
  <1>6. CASE Duplicate(r, p)
    <2>1. UNCHANGED <<cached, held, filter, passing>>
      BY <1>6 DEF HandleGNRSResponse
    <2> QED
      BY <1>1, <1>2, <1>3, <1>4, <1>6, <2>1
  <1>7. CASE ~Duplicate(r, p)
    <2>1. filter'[r] = IF p.dst = BroadcastNa THEN Remembering(filter[r], p.nonce) ELSE filter[r]
      BY <1>7 DEF HandleGNRSResponse, TypeOK
    <2>2. passing'[r] = IF p.dst = r THEN Nobody ELSE p
      BY <1>7 DEF HandleGNRSResponse, TypeOK
    <2>3. Applies(r, p) => cached'[r] = p.version /\ held'[r] = FALSE
      BY <1>7 DEF HandleGNRSResponse, TypeOK
    <2>4. ~Applies(r, p) => cached'[r] = cached[r] /\ held'[r] = held[r]
      BY <1>7 DEF HandleGNRSResponse, TypeOK
    <2> HIDE DEF p
    <2>5. QED
      BY <1>1, <1>2, <1>3, <1>4, <1>7, <2>1, <2>2, <2>3, <2>4 DEF p
  <1> QED
    BY <1>6, <1>7

LEMMA NonceStep ==
  ASSUME FloodInv, QueuesOK, CurrentNonce, [Next]_vars, Update => NewNonce
  PROVE  CurrentNonce'
  <1>1. TypeOK /\ bounds.publishing \subseteq Routers
    BY BoundsTyped DEF FloodInv
  <1>2. ASSUME NEW r \in Routers, Step(r) PROVE CurrentNonce'
    <2>1. current' = current /\ \A v \in Versions : UnderWay(v)' => UnderWay(v)
      BY <1>1, <1>2, StepFrame, NothingNew
    <2>2. current \in Versions
      BY <1>1 DEF TypeOK
    <2>3. ASSUME NEW q \in Routers, Knows(filter'[q], NonceOf(current)) PROVE Accepted(q, current)'
      <3>1. CASE Knows(filter[q], NonceOf(current))
        <4>1. PICK c \in Versions : c = current
          BY <2>2
        <4>2. Accepted(q, c)
          BY <3>1, <4>1 DEF CurrentNonce
        <4>3. Accepted(q, c)'
          BY <1>1, <1>2, <4>2, AcceptedStays
        <4> QED
          BY <2>1, <4>1, <4>3 DEF Accepted
      <3>2. CASE ~Knows(filter[q], NonceOf(current))
        <4> DEFINE p == Head(inQueue[r])
        <4>1. filter'[q] # filter[q]
          BY <2>3, <3>2
        <4>2. HandleGNRSResponse(r)
          BY <1>2, <4>1 DEF Step, Send, HandleData, EmitRequest, HandleGNRSRequest, PassOn
        <4>3. /\ q = r /\ ~Duplicate(r, p) /\ p.dst = BroadcastNa
              /\ filter'[r] = Remembering(filter[r], p.nonce)
              /\ p \in Elements(inQueue[r]) /\ p.version \in Versions
              /\ p = Change(p.version) /\ p.nonce = NonceOf(p.version) /\ passing'[r] = p
          <5>1. q = r /\ ~Duplicate(r, p)
            BY <1>1, <4>1, <4>2, OthersStay, ResponseMoves, ZenonT(20)
          <5>2. /\ p \in Elements(inQueue[r]) /\ p.version \in Versions
                /\ p.dst = BroadcastNa =>
                     p = Change(p.version) /\ p.nonce = NonceOf(p.version) /\ p.dst # r
            BY <1>1, <4>2, ResponseMoves
          <5>3. /\ filter'[r] = IF p.dst = BroadcastNa
                                  THEN Remembering(filter[r], p.nonce) ELSE filter[r]
                /\ passing'[r] = IF p.dst = r THEN Nobody ELSE p
            BY <1>1, <4>2, <5>1, ResponseMoves
          <5> HIDE DEF p
          <5> QED
            BY <4>1, <5>1, <5>2, <5>3
        <4>4. FilterOK(filter[r]) /\ p.nonce \in Nonces /\ ~Knows(filter[r], p.nonce)
          BY <1>1, <4>3, PacketKinds DEF TypeOK, Duplicate
        <4>5. Remembering(filter[r], p.nonce).table \subseteq filter[r].table \cup {p.nonce}
          BY <4>4, RememberingHolds, NonceAssumption
        <4>6. NonceOf(current) = NonceOf(p.version)
          BY <2>3, <3>2, <4>3, <4>5 DEF Knows
        <4>7. UnderWay(p.version)
          BY <4>3, SightOfChange DEF InSight
        <4>8. p.version = current
          BY <4>3, <4>6, <4>7 DEF CurrentNonce
        <4> HIDE DEF p
        <4> QED
          BY <2>1, <4>3, <4>8 DEF Accepted
      <3> QED
        BY <3>1, <3>2
    <2> QED
      BY <2>1, <2>3 DEF CurrentNonce, Accepted
  <1>3. CASE Update
    <2>1. /\ current' \in Versions
          /\ \A q \in Routers : filter'[q] = filter[q]
      BY <1>1, <1>3, UpdateMoves
    <2>2. ASSUME NEW v \in Versions, UnderWay(v)', NonceOf(v) = NonceOf(current')
          PROVE  v = current'
      <3>1. ~UnderWay(v)
        BY <1>3, <2>2 DEF NewNonce
      <3>2. InSight(Change(v))' /\ ~InSight(Change(v))
        BY <2>2, <3>1 DEF UnderWay, InSight, Elements
      <3>3. Change(v) = Change(current')
        BY <1>1, <1>3, <3>2, UpdateNew
      <3>4. Change(v).version = v /\ Change(current').version = current'
        BY <2>1, PacketKinds
      <3> QED
        BY <3>3, <3>4
    <2>3. \A q \in Routers : ~Knows(filter'[q], NonceOf(current'))
      BY <1>3, <2>1 DEF NewNonce
    <2> QED
      BY <2>2, <2>3 DEF CurrentNonce
  <1>4. CASE UNCHANGED vars
    BY <1>4 DEF vars, CurrentNonce, UnderWay, Accepted
  <1> QED
    BY <1>1, <1>2, <1>3, <1>4 DEF Next, Work, Step

LEMMA ResponsesTyped ==
  ASSUME NEW p \in Responses
  PROVE  p.version \in Nat \ {0} /\ p # Nobody
  <1>1. p.version \in Versions
    BY ResponseCases
  <1>2. Versions \subseteq Nat \ {0}
    BY FloodAssumption DEF Versions
  <1>3. /\ \A v \in Versions : Nobody # Change(v)
        /\ \A r \in Routers, v \in Versions : Nobody # Answer(r, v)
    BY FloodAssumption
  <1> QED
    BY <1>1, <1>2, <1>3 DEF Responses

(* The GNRS gives the newest version, and nobody makes one up.             *)
LEMMA VersionsStep ==
  ASSUME TypeOK, TypeOK', QueuesOK, VersionsOK, [Next]_vars
  PROVE  VersionsOK'
  <1>1. /\ current \in Nat /\ current' \in Nat /\ bounds.publishing \subseteq Routers
        /\ \A q \in Routers : cached[q] \in Nat /\ cached[q] <= current
    <2>1. current \in Versions /\ current' \in Versions /\ Versions \subseteq Nat
      BY BoundsTyped DEF TypeOK
    <2>2. \A q \in Routers : cached[q] \in Nat
      BY FloodAssumption DEF TypeOK
    <2> QED
      BY <2>1, <2>2, BoundsTyped DEF VersionsOK
  <1>2. ASSUME NEW r \in Routers, Step(r) PROVE VersionsOK'
    <2>1. current' = current
      BY <1>2, StepFrame
    <2>2. ASSUME NEW p \in Responses, InSight(p)' PROVE p.version <= current
      <3>1. CASE InSight(p)
        BY <3>1 DEF VersionsOK
      <3>2. CASE ~InSight(p)
        <4>1. \/ p = Request(r)
              \/ \E q \in Routers : p = Answer(q, current)
              \/ \E q \in Routers : cached[r] # 0 /\ p = Answer(q, cached[r])
          BY <1>2, <2>2, <3>2, ResponsesTyped, Origin
        <4>2. p.kind = "response" /\ Request(r).kind = "request"
          BY ResponseCases, PacketKinds
        <4>3. p.version = current \/ p.version = cached[r]
          BY <4>1, <4>2 DEF Answer, Response
        <4> QED
          BY <1>1, <4>3
      <3> QED
        BY <3>1, <3>2
    <2>3. ASSUME NEW q \in Routers PROVE cached'[q] <= current
      <3>1. CASE HandleGNRSResponse(r)
        <4> DEFINE p == Head(inQueue[r])
        <4>1. p \in Responses /\ InSight(p)
          BY <3>1, ResponseMoves DEF InSight
        <4>2. p.version <= current
          BY <4>1 DEF VersionsOK
        <4>3. cached'[q] \in {cached[q], p.version}
          <5>1. CASE q # r
            BY <3>1, <5>1, OthersStay
          <5>2. CASE q = r /\ (Duplicate(r, p) \/ ~Applies(r, p))
            BY <3>1, <5>2, ResponseMoves
          <5>3. CASE q = r /\ ~Duplicate(r, p) /\ Applies(r, p)
            BY <3>1, <5>3, ResponseMoves
          <5> QED
            BY <5>1, <5>2, <5>3
        <4> HIDE DEF p
        <4> QED
          BY <1>1, <4>2, <4>3
      <3>2. CASE ~HandleGNRSResponse(r)
        <4>1. cached' = cached
          BY <1>2, <3>2 DEF Step, Send, HandleData, EmitRequest, HandleGNRSRequest, PassOn
        <4> QED
          BY <1>1, <4>1
      <3> QED
        BY <3>1, <3>2
    <2> QED
      BY <2>1, <2>2, <2>3 DEF VersionsOK
  <1>3. CASE Update
    <2>1. current' = current + 1 /\ current' \in Versions /\ cached' = cached
      BY <1>3, UpdateMoves
    <2>2. ASSUME NEW p \in Responses, InSight(p)' PROVE p.version <= current'
      <3>1. CASE InSight(p)
        <4>1. p.version <= current /\ p.version \in Nat
          BY <3>1, ResponsesTyped DEF VersionsOK
        <4> QED
          BY <1>1, <2>1, <4>1
      <3>2. CASE ~InSight(p)
        <4>1. p = Change(current')
          BY <1>3, <2>2, <3>2, UpdateNew
        <4>2. p.version = current'
          BY <2>1, <4>1, PacketKinds
        <4> QED
          BY <1>1, <4>2
      <3> QED
        BY <3>1, <3>2
    <2>3. \A q \in Routers : cached'[q] <= current'
      BY <1>1, <2>1
    <2> QED
      BY <2>2, <2>3 DEF VersionsOK
  <1>4. CASE UNCHANGED vars
    BY <1>4 DEF vars, VersionsOK, InSight
  <1> QED
    BY <1>1, <1>2, <1>3, <1>4 DEF Next, Work, Step

LEMMA InterestStep ==
  ASSUME FloodInv, TypeOK', QueuesOK, VersionsOK, InterestOK, [Next]_vars
  PROVE  InterestOK'
  <1>1. /\ TypeOK /\ current \in Versions /\ bounds.publishing \subseteq Routers
        /\ current \in Nat \ {0} /\ interested \subseteq Routers
        /\ \A q \in Routers : cached[q] \in Nat /\ cached[q] <= current /\ held[q] \in BOOLEAN
    <2>1. TypeOK
      BY DEF FloodInv
    <2>2. current \in Versions /\ Versions \subseteq Nat \ {0} /\ interested \subseteq Routers
      BY <2>1, BoundsTyped DEF TypeOK
    <2>3. \A q \in Routers : cached[q] \in Nat /\ held[q] \in BOOLEAN
      BY <2>1, FloodAssumption DEF TypeOK
    <2> QED
      BY <2>1, <2>2, <2>3, BoundsTyped DEF VersionsOK
  <1>2. PICK c \in Versions : c = current
    BY <1>1
  <1>3. ASSUME NEW r \in Routers, Step(r) PROVE InterestOK'
    <2>1. current' = c /\ interested' = interested
      BY <1>2, <1>3, StepFrame
    <2>2. ASSUME NEW q \in Routers
          PROVE  /\ held'[q] => cached'[q] = 0
                 /\ (held[q] \/ cached[q] > 0) => (held'[q] \/ cached'[q] > 0)
                 /\ q \in interested /\ Accepted(q, c)' => cached'[q] = c
      <3>0. /\ held[q] => cached[q] = 0
            /\ q \in interested => (held[q] \/ cached[q] > 0)
            /\ q \in interested /\ Accepted(q, c) => cached[q] = c
        BY <1>2 DEF InterestOK
      <3>1. CASE HandleGNRSResponse(r) /\ q = r
        <4> DEFINE p == Head(inQueue[r])
        <4>1. p \in Responses /\ InSight(p)
          BY <1>1, <3>1, ResponseMoves DEF InSight
        <4>2. p.version <= c /\ p.version \in Nat \ {0}
          BY <1>2, <4>1, ResponsesTyped DEF VersionsOK
        <4>3. Accepted(q, c)' /\ ~Accepted(q, c) => p = Change(c) /\ ~Duplicate(r, p)
          BY <1>1, <1>3, AcceptedBy
        <4>4. p = Change(c) => p.version = c
          BY PacketKinds
        <4>5. CASE ~Duplicate(r, p) /\ Applies(r, p)
          <5>1. cached'[r] = p.version /\ held'[r] = FALSE /\ p.version > cached[r]
            BY <1>1, <3>1, <4>5, ResponseMoves DEF Applies
          <5> HIDE DEF p
          <5> QED
            BY <1>1, <1>2, <3>0, <3>1, <4>2, <4>3, <4>4, <5>1
        <4>6. CASE Duplicate(r, p) \/ ~Applies(r, p)
          <5>1. cached'[r] = cached[r] /\ held'[r] = held[r]
            BY <1>1, <3>1, <4>6, ResponseMoves
          <5>2. ~Duplicate(r, p) => ~((held[r] \/ cached[r] > 0) /\ p.version > cached[r])
            BY <4>6 DEF Applies
          <5> HIDE DEF p
          <5> QED
            BY <1>1, <1>2, <3>0, <3>1, <4>2, <4>3, <4>4, <5>1, <5>2
        <4> QED
          BY <4>5, <4>6
      <3>2. CASE ~(HandleGNRSResponse(r) /\ q = r)
        <4>1. cached'[q] = cached[q] /\ (held'[q] = held[q] \/ (held'[q] /\ cached[q] = 0))
          <5>1. CASE HandleData(r)
            BY <1>1, <5>1 DEF HandleData, TypeOK
          <5>2. CASE HandleGNRSResponse(r)
            BY <1>1, <3>2, <5>2, OthersStay
          <5>3. CASE ~HandleData(r) /\ ~HandleGNRSResponse(r)
            BY <1>3, <5>3 DEF Step, Send, EmitRequest, HandleGNRSRequest, PassOn
          <5> QED
            BY <5>1, <5>2, <5>3
        <4>2. Accepted(q, c)' => Accepted(q, c)
          BY <1>1, <1>3, <3>2, AcceptedBy
        <4> QED
          BY <3>0, <4>1, <4>2
      <3> QED
        BY <3>1, <3>2
    <2>3. \A q \in Routers : Accepted(q, current)' => Accepted(q, c)'
      BY <2>1 DEF Accepted
    <2>4. /\ \A q \in interested : held[q] \/ cached[q] > 0
          /\ current = 1 => interested = {}
      BY DEF InterestOK
    <2>5. \A q \in interested : (held'[q] \/ cached'[q] > 0) /\ (Accepted(q, current)' => cached'[q] = c)
      BY <1>1, <2>2, <2>3, <2>4
    <2> QED
      BY <1>2, <2>1, <2>2, <2>4, <2>5 DEF InterestOK
  <1>4. CASE Update
    <2>1. /\ current' = current + 1 /\ current' \in Versions /\ current' # 1
          /\ UNCHANGED <<passing, passed, cached, held>>
      BY <1>1, <1>4, UpdateMoves
    <2>2. interested' = {r \in Routers : held[r] \/ cached[r] > 0}
      BY <1>4 DEF Update
    <2>3. ASSUME NEW q \in Routers PROVE ~Accepted(q, current)'
      <3>1. PICK n \in Versions : n = current'
        BY <2>1
      <3>2. ~(n <= current)
        BY <1>1, <2>1, <3>1
      <3>3. ~Accepted(q, n)
        BY <3>2 DEF FloodInv, AcceptedOK
      <3> QED
        BY <2>1, <3>1, <3>3 DEF Accepted
    <2>4. \A q \in Routers : held[q] => cached[q] = 0
      BY DEF InterestOK
    <2> QED
      BY <2>1, <2>2, <2>3, <2>4 DEF InterestOK
  <1>5. CASE UNCHANGED vars
    BY <1>5 DEF vars, InterestOK, Accepted
  <1> QED
    BY <1>1, <1>3, <1>4, <1>5 DEF Next, Work, Step

(* A change in a queue is accepted when it is taken: what the filter knows *)
(* of it, it knows from a copy accepted before.                            *)
LEMMA ComingStays ==
  ASSUME TypeOK, CurrentNonce, NEW r \in Routers, Step(r), NEW n \in Routers, Coming(n)
  PROVE  Coming(n)'
  <1>1. PICK c \in Versions : c = current /\ c = current'
    BY StepFrame DEF TypeOK
  <1>2. CASE Accepted(n, c)
    <2>1. Accepted(n, c)'
      BY <1>2, AcceptedStays
    <2> QED
      BY <1>1, <2>1 DEF Coming, Accepted
  <1>3. CASE Change(c) \in Elements(inQueue[n]) /\ Change(c) \notin Elements(inQueue'[n])
    <2>1. CASE Send(r)
      BY <1>3, <2>1, SendMoves
    <2>2. CASE HandleData(r) \/ EmitRequest(r) \/ PassOn(r)
      BY <1>3, <2>2 DEF HandleData, EmitRequest, PassOn
    <2>3. ASSUME NEW kind, Take(r, kind) PROVE n = r /\ Head(inQueue[r]) = Change(c)
      BY <1>3, <2>3, TakeMoves
    <2>4. CASE HandleGNRSRequest(r)
      <3>1. Take(r, "request") /\ Head(inQueue[r]).kind = "request"
        BY <2>4 DEF HandleGNRSRequest, Take
      <3> QED
        BY <2>3, <3>1, PacketKinds
    <2>5. CASE HandleGNRSResponse(r)
      <3>1. n = r /\ Head(inQueue[r]) = Change(c)
        BY <2>3, <2>5 DEF HandleGNRSResponse
      <3>2. CASE Duplicate(r, Change(c))
        <4>1. Knows(filter[r], NonceOf(c))
          BY <3>2, PacketKinds DEF Duplicate
        <4>2. Accepted(r, c)
          BY <1>1, <4>1 DEF CurrentNonce
        <4>3. Accepted(r, c)'
          BY <4>2, AcceptedStays
        <4> QED
          BY <1>1, <3>1, <4>3 DEF Coming, Accepted
      <3>3. CASE ~Duplicate(r, Change(c))
        <4>1. passing'[r] = IF Change(c).dst = r THEN Nobody ELSE Change(c)
          <5>1. ~Duplicate(r, Head(inQueue[r]))
            BY <3>1, <3>3
          <5>2. passing'[r] = IF Head(inQueue[r]).dst = r THEN Nobody ELSE Head(inQueue[r])
            BY <2>5, <5>1, ResponseMoves
          <5> QED
            BY <3>1, <5>2
        <4>2. Change(c).dst # r
          BY PacketKinds
        <4> QED
          BY <1>1, <3>1, <4>1, <4>2 DEF Coming, Accepted
      <3> QED
        BY <3>2, <3>3
    <2> QED
      BY <2>1, <2>2, <2>4, <2>5 DEF Step
  <1>4. CASE Change(c) \in Elements(inQueue'[n])
    BY <1>1, <1>4 DEF Coming, Elements
  <1> QED
    BY <1>1, <1>2, <1>3, <1>4 DEF Coming

LEMMA FloodOnStep ==
  ASSUME FloodInv, QueuesOK, CurrentNonce, FloodOn, [Next]_vars
  PROVE  FloodOn'
  <1>1. TypeOK /\ current \in Versions /\ bounds.publishing \subseteq Routers
    BY BoundsTyped DEF FloodInv, TypeOK
  <1>2. PICK c \in Versions : c = current
    BY <1>1
  <1>3. ASSUME NEW r \in Routers, Step(r) PROVE FloodOn'
    <2>1. current' = c /\ (LostNow => LostNow')
      BY <1>2, <1>3, StepFrame
    <2> SUFFICES ASSUME c # 1, ~LostNow'
                 PROVE  /\ \A q \in Routers : GNRS \in Neighbours[q] => Coming(q)'
                        /\ \A q \in Routers : passed'[q][c] > 0 =>
                             \/ Change(c) \in Elements(arpQueue'[q])
                             \/ \A n \in Neighbours[q] \cap Routers : Coming(n)'
      BY <2>1 DEF FloodOn, Elements, Change
    <2>2. ~LostNow
      BY <2>1
    <2>3. \A q \in Routers : Coming(q) => Coming(q)'
      BY <1>1, <1>3, ComingStays
    <2>4. \A q \in Routers : GNRS \in Neighbours[q] => Coming(q)'
      BY <1>2, <2>2, <2>3 DEF FloodOn
    <2>5. lostAt' # c
      BY <2>1 DEF LostNow
    <2>6. ASSUME NEW q \in Routers, passed'[q][c] > 0
          PROVE  \/ Change(c) \in Elements(arpQueue'[q])
                 \/ \A n \in Neighbours[q] \cap Routers : Coming(n)'
      <3>0. Len(arpQueue[r]) <= QueueCapacity /\ Change(c).dst = BroadcastNa
        BY PacketKinds DEF QueuesOK
      <3>1. CASE passed[q][c] > 0
        <4>1. CASE \A n \in Neighbours[q] \cap Routers : Coming(n)
          BY <2>3, <4>1
        <4>2. CASE Change(c) \in Elements(arpQueue[q])
          <5>1. CASE Send(r)
            <6>1. CASE q = r /\ Head(arpQueue[r]) = Change(c)
              <7>1. ASSUME NEW n \in Neighbours[q] \cap Routers PROVE Coming(n)'
                <8>1. n \in NextHops(r, Change(c)) /\ Change(c).kind = "response"
                  BY <3>0, <6>1, <7>1, PacketKinds DEF NextHops, Dst
                <8>2. Len(inQueue[n]) <= QueueCapacity
                  BY DEF QueuesOK
                <8>3. Change(c) \in Elements(inQueue'[n])
                  BY <1>1, <1>2, <2>5, <5>1, <6>1, <8>1, <8>2, SendMoves
                <8> QED
                  BY <2>1, <8>3 DEF Coming, Elements
              <7> QED
                BY <7>1
            <6>2. CASE ~(q = r /\ Head(arpQueue[r]) = Change(c))
              BY <1>1, <4>2, <5>1, <6>2, SendMoves
            <6> QED
              BY <6>1, <6>2
          <5>2. CASE HandleData(r) \/ HandleGNRSResponse(r)
            BY <4>2, <5>2 DEF HandleData, HandleGNRSResponse
          <5>3. CASE EmitRequest(r) \/ HandleGNRSRequest(r) \/ PassOn(r)
            <6>1. PICK p \in Packets : Emit(r, p)
              BY <1>1, <5>3, Emitted
            <6> QED
              BY <1>1, <4>2, <6>1, EmitMoves
          <5> QED
            BY <1>3, <5>1, <5>2, <5>3 DEF Step
        <4> QED
          BY <1>2, <2>2, <3>1, <4>1, <4>2 DEF FloodOn
      <3>2. CASE ~(passed[q][c] > 0)
        <4>1. PassOn(r)
          BY <1>3, <2>6, <3>2 DEF Step, Send, HandleData, EmitRequest, HandleGNRSRequest,
                                  HandleGNRSResponse
        <4>2. passing[r] \in Responses /\ passing[r] \in Packets /\ Emit(r, passing[r])
          BY <1>1, <4>1, Emitted
        <4>3. /\ passing[r].dst = BroadcastNa
              /\ passed' = [passed EXCEPT ![r][passing[r].version] = @ + 1]
          BY <2>6, <3>2, <4>1 DEF PassOn
        <4>4. passing[r] = Change(passing[r].version) /\ passing[r].version \in Versions
          BY <4>2, <4>3, ResponseCases
        <4>5. q = r /\ c = passing[r].version
          BY <1>1, <2>6, <3>2, <4>3, <4>4 DEF TypeOK
        <4>6. passing[r] \in Elements(arpQueue'[r])
          BY <1>1, <1>2, <2>5, <3>0, <4>2, EmitMoves
        <4> QED
          BY <4>4, <4>5, <4>6
      <3> QED
        BY <3>1, <3>2
    <2> QED
      BY <2>4, <2>6
  <1>4. CASE Update
    <2>1. /\ current' \in Versions /\ current' = current + 1 /\ passed' = passed
          /\ \A q \in Routers : GNRS \in Neighbours[q] /\ ~LostNow' =>
               Change(current') \in Elements(inQueue'[q])
      BY <1>1, <1>4, UpdateMoves
    <2>2. ASSUME NEW q \in Routers PROVE ~(passed'[q][current'] > 0)
      <3>1. PICK n \in Versions : n = current'
        BY <2>1
      <3>2. ~(n <= current)
        BY <1>1, <2>1, <3>1, BoundsTyped
      <3>3. ~Accepted(q, n)
        BY <3>2 DEF FloodInv, AcceptedOK
      <3> QED
        BY <2>1, <3>1, <3>3 DEF Accepted
    <2>3. \A q \in Routers : GNRS \in Neighbours[q] /\ ~LostNow' => Coming(q)'
      BY <2>1 DEF Coming, Elements
    <2> QED
      BY <2>2, <2>3 DEF FloodOn
  <1>5. CASE UNCHANGED vars
    BY <1>5 DEF vars, FloodOn, Coming, Accepted, LostNow
  <1> QED
    BY <1>1, <1>3, <1>4, <1>5 DEF Next, Work, Step

LEMMA InitReach == Init => ReachInv
  <1> SUFFICES ASSUME Init PROVE ReachInv
    OBVIOUS
  <1>1. FloodInv
    BY InitFlood
  <1>2. QueuesOK
    BY FloodAssumption DEF Init, QueuesOK
  <1>3. /\ \A p : p # Nobody => ~InSight(p)
        /\ \A v \in Versions : Change(v) # Nobody
    BY FloodAssumption DEF Init, InSight, Elements
  <1>4. \A v \in Versions : ~UnderWay(v)
    BY <1>3, SightOfChange
  <1>5. CurrentNonce
    BY <1>4 DEF Init, CurrentNonce, EmptyFilter, Knows
  <1>6. VersionsOK
    BY <1>3, ResponsesTyped DEF Init, VersionsOK
  <1>7. InterestOK /\ FloodOn
    BY DEF Init, InterestOK, FloodOn
  <1> QED
    BY <1>1, <1>2, <1>5, <1>6, <1>7 DEF ReachInv

LEMMA NextReach == ReachInv /\ [Next]_vars /\ (Update => NewNonce) => ReachInv'
  <1> SUFFICES ASSUME ReachInv, [Next]_vars, Update => NewNonce PROVE ReachInv'
    OBVIOUS
  <1>1. TypeOK /\ TypeOK' /\ FloodInv'
    BY NextTyped, NextFlood DEF ReachInv, FloodInv
  <1> QED
    BY <1>1, QueuesStep, NonceStep, VersionsStep, InterestStep, FloodOnStep DEF ReachInv

(* When all is quiet and nothing was lost, what accepted the change is     *)
(* closed under neighbours.                                                *)
LEMMA FloodEverywhere ==
  ASSUME Connected, ReachInv, Quiet, ~LostNow, NEW r \in interested
  PROVE  cached[r] = current
  <1>1. TypeOK /\ current \in Versions /\ r \in Routers /\ current # 1
    BY DEF ReachInv, FloodInv, TypeOK, InterestOK
  <1>2. \A q \in Routers : /\ Change(current) \notin Elements(inQueue[q])
                          /\ Change(current) \notin Elements(arpQueue[q])
                          /\ passing[q] # Change(current)
    BY <1>1, FloodAssumption DEF Quiet, Elements
  <1> DEFINE S == {q \in Routers : passed[q][current] > 0}
  <1>3. \A q \in Routers : Coming(q) => q \in S
    BY <1>2 DEF Coming, Accepted
  <1>4. \A q \in Routers : GNRS \in Neighbours[q] => q \in S
    BY <1>1, <1>3 DEF ReachInv, FloodOn
  <1>5. \A q \in S : Neighbours[q] \cap Routers \subseteq S
    BY <1>1, <1>2, <1>3 DEF ReachInv, FloodOn
  <1>6. S = Routers
    <2> HIDE DEF S
    <2>1. S \in SUBSET Routers
      BY DEF S
    <2> QED
      BY <1>4, <1>5, <2>1 DEF Connected
  <1> QED
    BY <1>1, <1>6 DEF ReachInv, InterestOK, Accepted

(* In a connected network whose GNRS takes new nonces, a change reaches    *)
(* every router that had use for it, past routers that have none and old   *)
(* answers, unless a packet was lost.                                      *)
THEOREM ChangesReach ==
  ASSUME Connected
  PROVE  Spec /\ NoncesAreNew => []ChangeReaches
  <1>1. ReachInv => ChangeReaches
    BY FloodEverywhere DEF ChangeReaches
  <1>2. ReachInv /\ [Next]_vars /\ [Update => NewNonce]_vars => ReachInv'
    <2> SUFFICES ASSUME ReachInv, [Next]_vars, [Update => NewNonce]_vars PROVE ReachInv'
      OBVIOUS
    <2>1. CASE UNCHANGED vars
      <3>1. ~Update
        BY <2>1, BoundsTyped DEF vars, Update, ReachInv, FloodInv
      <3> QED
        BY <3>1, NextReach
    <2>2. CASE ~UNCHANGED vars
      BY <2>2, NextReach
    <2> QED
      BY <2>1, <2>2
  <1> QED
    BY <1>1, <1>2, InitReach, PTL DEF Spec, NoncesAreNew

-----------------------------------------------------------------------------
(* What the packets in a cache wait for.                                   *)

(* The GNRS is a host: no packet goes through it from router to router.    *)
GNRSIsAHost == \A r, q \in Routers : r # q => NextHop[r][q] \in Routers

(* There is an answer for r, a request, or a thread about to make one.     *)
Sought(r) ==
  asking[r] \/ InSight(Request(r)) \/ \E v \in Versions : InSight(Answer(r, v))

(* An answer that its own router has emitted came from its entry.          *)
AnswersOK ==
  \A r \in Routers, v \in Versions :
    /\ passing[r] # Answer(r, v)
    /\ Answer(r, v) \in Elements(arpQueue[r]) => cached[r] > 0

(* Packets in a cache wait for an answer, or for the current change.       *)
AskOK ==
  ~LostNow => \A r \in Routers : held[r] => r \in interested \/ Sought(r)

HeldInv == ReachInv /\ AnswersOK /\ AskOK

(* A packet that goes out of sight was the first of its place.             *)
LEMMA Gone ==
  ASSUME TypeOK, NEW r \in Routers, Step(r), NEW p, p # Nobody, InSight(p), ~InSight(p)'
  PROVE  \/ Send(r) /\ Head(arpQueue[r]) = p
         \/ HandleGNRSRequest(r) /\ Head(inQueue[r]) = p
         \/ HandleGNRSResponse(r) /\ Head(inQueue[r]) = p
         \/ PassOn(r) /\ passing[r] = p
  <1>1. PICK q \in Routers :
          passing[q] = p \/ p \in Elements(inQueue[q]) \/ p \in Elements(arpQueue[q])
    BY DEF InSight
  <1>2. passing'[q] # p /\ p \notin Elements(inQueue'[q]) /\ p \notin Elements(arpQueue'[q])
    BY DEF InSight, Elements
  <1>3. ASSUME NEW kind, Take(r, kind), p \in Elements(inQueue[q]) PROVE Head(inQueue[r]) = p
    BY <1>2, <1>3, TakeMoves
  <1>4. ASSUME NEW s \in Packets, Emit(r, s) PROVE p \notin Elements(arpQueue[q])
    BY <1>2, <1>4, EmitMoves
  <1>5. CASE Send(r)
    <2>1. passing' = passing
      BY <1>5 DEF Send
    <2> QED
      BY <1>1, <1>2, <1>5, <2>1, SendMoves
  <1>6. CASE HandleData(r)
    BY <1>1, <1>2, <1>6 DEF HandleData
  <1>7. CASE EmitRequest(r)
    <2>1. Emit(r, Request(r)) /\ Request(r) \in Packets /\ inQueue' = inQueue /\ passing' = passing
      BY <1>7, Emitted DEF EmitRequest
    <2> QED
      BY <1>1, <1>2, <1>4, <2>1
  <1>8. CASE HandleGNRSRequest(r)
    <2>1. PICK s \in Packets : Take(r, "request") /\ Emit(r, s)
      BY <1>8, Emitted
    <2>2. passing' = passing
      BY <1>8 DEF HandleGNRSRequest
    <2> QED
      BY <1>1, <1>2, <1>3, <1>4, <1>8, <2>1, <2>2
  <1>9. CASE HandleGNRSResponse(r)
    <2>1. Take(r, "response") /\ arpQueue' = arpQueue /\ passing[r] = Nobody
      BY <1>9 DEF HandleGNRSResponse, Take
    <2>2. q # r => passing'[q] = passing[q]
      BY <1>9, OthersStay
    <2> QED
      BY <1>1, <1>2, <1>3, <1>9, <2>1, <2>2
  <1>10. CASE PassOn(r)
    <2>1. Emit(r, passing[r]) /\ passing[r] \in Packets
      BY <1>10, Emitted
    <2>2. inQueue' = inQueue /\ (q # r => passing'[q] = passing[q])
      BY <1>10 DEF PassOn, TypeOK
    <2> QED
      BY <1>1, <1>2, <1>4, <1>10, <2>1, <2>2
  <1> QED
    BY <1>5, <1>6, <1>7, <1>8, <1>9, <1>10 DEF Step

LEMMA AnswersStep ==
  ASSUME TypeOK, QueuesOK, AnswersOK, [Next]_vars
  PROVE  AnswersOK'
  <1>1. bounds.publishing \subseteq Routers
    BY BoundsTyped
  <1> SUFFICES ASSUME NEW q \in Routers, NEW v \in Versions
               PROVE  /\ passing'[q] # Answer(q, v)
                      /\ Answer(q, v) \in Elements(arpQueue'[q]) => cached'[q] > 0
    BY DEF AnswersOK, Elements
  <1> DEFINE a == Answer(q, v)
  <1>2. /\ passing[q] # a /\ (a \in Elements(arpQueue[q]) => cached[q] > 0)
        /\ a # Nobody /\ a.kind = "response" /\ a.dst = q /\ cached[q] \in Nat
    <2>1. a \in Responses /\ a.kind = "response" /\ a.dst = q
      BY PacketKinds
    <2>2. cached[q] \in Nat
      BY FloodAssumption DEF TypeOK
    <2> QED
      BY <2>1, <2>2, ResponsesTyped DEF AnswersOK
  <1> HIDE DEF a
  <1>3. ASSUME NEW r \in Routers, Step(r)
        PROVE  passing'[q] # a /\ (a \in Elements(arpQueue'[q]) => cached'[q] > 0)
    <2>1. CASE Send(r)
      <3>1. passing' = passing /\ cached' = cached
        BY <2>1 DEF Send
      <3>2. Elements(arpQueue'[q]) \subseteq Elements(arpQueue[q])
        BY <2>1, SendMoves
      <3> QED
        BY <1>2, <3>1, <3>2
    <2>2. CASE HandleData(r)
      BY <1>2, <2>2 DEF HandleData
    <2>3. CASE EmitRequest(r)
      <3>1. passing' = passing /\ cached' = cached
        BY <2>3 DEF EmitRequest
      <3>2. Elements(arpQueue'[q]) \subseteq Elements(arpQueue[q]) \cup {Request(r)}
        BY <2>3, Emitted, EmitMoves
      <3> QED
        BY <1>2, <3>1, <3>2, PacketKinds
    <2>4. CASE HandleGNRSRequest(r)
      <3>1. passing' = passing /\ cached' = cached
        BY <2>4 DEF HandleGNRSRequest
      <3>2. CASE cached[r] = 0
        <4>1. Emit(r, Head(inQueue[r])) /\ Head(inQueue[r]).kind = "request"
              /\ Head(inQueue[r]) \in Packets
          BY <2>4, <3>2, TakeMoves DEF HandleGNRSRequest
        <4>2. Elements(arpQueue'[q]) \subseteq Elements(arpQueue[q]) \cup {Head(inQueue[r])}
          BY <4>1, EmitMoves
        <4> QED
          BY <1>2, <3>1, <4>1, <4>2
      <3>3. CASE cached[r] # 0
        <4>1. PICK s \in Packets : Emit(r, s)
          BY <2>4, Emitted
        <4>2. q # r => Elements(arpQueue'[q]) \subseteq Elements(arpQueue[q])
          BY <4>1, EmitMoves
        <4> QED
          BY <1>2, <3>1, <3>3, <4>2
      <3> QED
        BY <3>2, <3>3
    <2>5. CASE HandleGNRSResponse(r)
      <3> DEFINE p == Head(inQueue[r])
      <3>1. CASE q # r
        <4>1. passing'[q] = passing[q] /\ cached'[q] = cached[q] /\ arpQueue' = arpQueue
          BY <2>5, <3>1, OthersStay DEF HandleGNRSResponse
        <4> QED
          BY <1>2, <4>1
      <3>2. CASE q = r
        <4>1. passing[r] = Nobody /\ arpQueue' = arpQueue /\ p \in Responses
          BY <2>5, ResponseMoves DEF Take
        <4>2. passing'[q] # a
          <5>1. CASE Duplicate(r, p)
            BY <1>2, <2>5, <3>2, <5>1, ResponseMoves
          <5>2. CASE ~Duplicate(r, p)
            <6>1. passing'[r] = IF p.dst = r THEN Nobody ELSE p
              BY <2>5, <5>2, ResponseMoves
            <6> HIDE DEF p
            <6> QED
              BY <1>2, <3>2, <6>1
          <5> QED
            BY <5>1, <5>2
        <4>3. cached'[q] = cached[q] \/ cached'[q] = p.version
          <5>1. CASE Duplicate(r, p) \/ ~Applies(r, p)
            BY <2>5, <3>2, <5>1, ResponseMoves
          <5>2. CASE ~Duplicate(r, p) /\ Applies(r, p)
            BY <2>5, <3>2, <5>2, ResponseMoves
          <5> QED
            BY <5>1, <5>2
        <4>4. p.version \in Nat \ {0}
          BY <4>1, ResponsesTyped
        <4> HIDE DEF p
        <4> QED
          BY <1>2, <4>1, <4>2, <4>3, <4>4
      <3> QED
        BY <3>1, <3>2
    <2>6. CASE PassOn(r)
      <3>1. Emit(r, passing[r]) /\ passing[r] \in Packets
        BY <2>6, Emitted
      <3>2. /\ cached' = cached /\ passing'[q] \in {passing[q], Nobody}
        BY <2>6 DEF PassOn, TypeOK
      <3>3. Elements(arpQueue'[q]) \subseteq
              Elements(arpQueue[q]) \cup (IF q = r THEN {passing[r]} ELSE {})
        BY <3>1, EmitMoves
      <3> QED
        BY <1>2, <3>2, <3>3
    <2> QED
      BY <1>3, <2>1, <2>2, <2>3, <2>4, <2>5, <2>6 DEF Step
  <1>4. ASSUME Update
        PROVE  passing'[q] # a /\ (a \in Elements(arpQueue'[q]) => cached'[q] > 0)
    <2>1. UNCHANGED <<passing, arpQueue, cached>>
      BY <1>4, UpdateMoves
    <2> QED
      BY <1>2, <2>1
  <1>5. ASSUME UNCHANGED vars
        PROVE  passing'[q] # a /\ (a \in Elements(arpQueue'[q]) => cached'[q] > 0)
    BY <1>2, <1>5 DEF vars
  <1>6. passing'[q] # a /\ (a \in Elements(arpQueue'[q]) => cached'[q] > 0)
    BY <1>1, <1>3, <1>4, <1>5 DEF Next, Work, Step
  <1> QED
    BY <1>6 DEF a

(* A request ends in an answer, and an answer ends at its router.          *)
LEMMA SoughtStays ==
  ASSUME GNRSIsAHost, TypeOK, QueuesOK, AnswersOK, NEW r \in Routers, Step(r),
         NEW q \in Routers, held[q], held'[q], cached[q] = 0, ~LostNow', Sought(q)
  PROVE  Sought(q)'
  <1>1. PICK c \in Versions : c = current /\ current' = c
    BY StepFrame DEF TypeOK
  <1>2. /\ lostAt' # current
        /\ \A n \in Routers : Len(inQueue[n]) <= QueueCapacity /\ Len(arpQueue[n]) <= QueueCapacity
    BY <1>1 DEF LostNow, QueuesOK
  <1>3. /\ Request(q) # Nobody /\ Request(q).kind = "request" /\ Request(q).src = q
        /\ \A v \in Versions :
             /\ Answer(q, v) # Nobody /\ Answer(q, v).kind = "response"
             /\ Answer(q, v).dst = q /\ Answer(q, v).version > 0 /\ q # BroadcastNa
    <2>1. Nobody # Request(q) /\ \A v \in Versions : Answer(q, v) \in Responses
      BY FloodAssumption, PacketKinds
    <2> QED
      BY <2>1, PacketKinds, ResponsesTyped
  <1>4. \A p : InSight(p)' <=>
          \E n \in Routers : passing'[n] = p \/ p \in Elements(inQueue'[n])
                             \/ p \in Elements(arpQueue'[n])
    BY DEF InSight, Elements
  <1>5. CASE asking[q] /\ ~asking'[q]
    <2>1. EmitRequest(r)
      BY <1>5 DEF Step, Send, HandleData, EmitRequest, HandleGNRSRequest, HandleGNRSResponse,
                  PassOn, TypeOK
    <2>2. q = r
      BY <1>5, <2>1 DEF EmitRequest, TypeOK
    <2>3. Emit(r, Request(r)) /\ Request(r) \in Packets
      BY <2>1, Emitted
    <2>4. Request(q) \in Elements(arpQueue'[r])
      BY <1>2, <2>2, <2>3, EmitMoves
    <2> QED
      BY <1>4, <2>4 DEF Sought
  <1>6. CASE InSight(Request(q)) /\ ~InSight(Request(q))'
    <2> DEFINE p == Request(q)
    <2>1. \/ Send(r) /\ Head(arpQueue[r]) = p
          \/ HandleGNRSRequest(r) /\ Head(inQueue[r]) = p
          \/ HandleGNRSResponse(r) /\ Head(inQueue[r]) = p
          \/ PassOn(r) /\ passing[r] = p
      BY <1>3, <1>6, Gone
    <2>2. CASE Send(r) /\ Head(arpQueue[r]) = p
      <3> DEFINE n == NextHop[r][GNRS]
      <3>1. NextHops(r, p) = {n} /\ n \in Nodes
        <4>1. GNRS \in Nodes \ {r} /\ GNRS # BroadcastNa /\ Neighbours[r] \subseteq Nodes
          BY FloodAssumption DEF Nodes
        <4>2. n \in Neighbours[r]
          BY <4>1, FloodAssumption
        <4> QED
          BY <1>3, <4>1, <4>2 DEF NextHops, Dst
      <3>2. CASE n \in Routers
        <4>1. n \in NextHops(r, Head(arpQueue[r])) /\ Len(inQueue[n]) <= QueueCapacity
          BY <1>2, <2>2, <3>1, <3>2
        <4>2. Head(arpQueue[r]) \in Elements(inQueue'[n])
          BY <1>2, <2>2, <3>2, <4>1, SendMoves
        <4> QED
          BY <1>4, <1>6, <2>2, <3>2, <4>2
      <3>3. CASE n = GNRS
        <4>1. /\ Head(arpQueue[r]).kind = "request" /\ Head(arpQueue[r]).src = q
              /\ GNRS \in NextHops(r, Head(arpQueue[r])) /\ r \notin NextHops(r, Head(arpQueue[r]))
          BY <1>3, <2>2, <3>1, <3>3, FloodAssumption
        <4>2. Answer(Head(arpQueue[r]).src, current) \in Elements(inQueue'[r])
          BY <1>2, <2>2, <4>1, SendMoves
        <4>3. Answer(q, c) \in Elements(inQueue'[r])
          BY <1>1, <4>1, <4>2
        <4>4. InSight(Answer(q, c))'
          BY <1>4, <4>3
        <4> QED
          BY <4>4 DEF Sought
      <3> QED
        BY <3>1, <3>2, <3>3 DEF Nodes
    <2>3. CASE HandleGNRSRequest(r) /\ Head(inQueue[r]) = p
      <3> DEFINE s == IF cached[r] = 0 THEN Head(inQueue[r])
                      ELSE Answer(Head(inQueue[r]).src, cached[r])
      <3>1. Emit(r, s) /\ s \in Packets /\ (cached[r] # 0 => cached[r] \in Versions)
        BY <2>3, Emitted
      <3>2. s = p \/ (cached[r] \in Versions /\ s = Answer(q, cached[r]))
        BY <1>3, <2>3, <3>1
      <3> HIDE DEF s
      <3>3. s \in Elements(arpQueue'[r])
        BY <1>2, <3>1, EmitMoves
      <3>4. s # p
        BY <1>4, <1>6, <3>3
      <3>5. PICK v \in Versions : s = Answer(q, v)
        BY <3>2, <3>4
      <3>6. InSight(Answer(q, v))'
        BY <1>4, <3>3, <3>5
      <3> QED
        BY <3>6 DEF Sought
    <2>4. CASE HandleGNRSResponse(r) /\ Head(inQueue[r]) = p
      <3>1. Head(inQueue[r]).kind = "response"
        BY <2>4 DEF HandleGNRSResponse, Take
      <3> QED
        BY <1>3, <2>4, <3>1
    <2>5. CASE PassOn(r) /\ passing[r] = p
      <3>1. passing[r].kind = "response"
        BY <2>5, Emitted, ResponseCases
      <3> QED
        BY <1>3, <2>5, <3>1
    <2> QED
      BY <2>1, <2>2, <2>3, <2>4, <2>5
  <1>7. ASSUME NEW v \in Versions, InSight(Answer(q, v)), ~InSight(Answer(q, v))'
        PROVE  FALSE
    <2> DEFINE p == Answer(q, v)
    <2>0. /\ p # Nobody /\ p.kind = "response" /\ p.dst = q /\ p.version > 0
          /\ \A n \in Routers : /\ passing'[n] # p /\ p \notin Elements(inQueue'[n])
                               /\ p \notin Elements(arpQueue'[n])
      BY <1>3, <1>4, <1>7
    <2>1. \/ Send(r) /\ Head(arpQueue[r]) = p
          \/ HandleGNRSRequest(r) /\ Head(inQueue[r]) = p
          \/ HandleGNRSResponse(r) /\ Head(inQueue[r]) = p
          \/ PassOn(r) /\ passing[r] = p
      BY <1>7, <2>0, Gone
    <2>a. p \in Elements(arpQueue[q]) => cached[q] > 0
      BY DEF AnswersOK
    <2> HIDE DEF p
    <2>2. CASE Send(r) /\ Head(arpQueue[r]) = p
      <3>1. p \in Elements(arpQueue[r])
        BY <2>2, SendMoves
      <3>2. r # q
        BY <2>a, <3>1
      <3>3. NextHops(r, p) = {NextHop[r][q]} /\ NextHop[r][q] \in Routers
        BY <1>3, <2>0, <3>2 DEF NextHops, Dst, GNRSIsAHost
      <3>4. Len(inQueue[NextHop[r][q]]) <= QueueCapacity
        BY <1>2, <3>3
      <3>5. Head(arpQueue[r]) \in Elements(inQueue'[NextHop[r][q]])
        BY <1>2, <2>2, <3>3, <3>4, SendMoves
      <3> QED
        BY <2>0, <2>2, <3>3, <3>5
    <2>3. CASE HandleGNRSRequest(r) /\ Head(inQueue[r]) = p
      <3>1. Head(inQueue[r]).kind = "request"
        BY <2>3 DEF HandleGNRSRequest, Take
      <3> QED
        BY <2>0, <2>3, <3>1
    <2>4. CASE HandleGNRSResponse(r) /\ Head(inQueue[r]) = p
      <3>1. ~Duplicate(r, Head(inQueue[r]))
        BY <1>3, <2>0, <2>4 DEF Duplicate
      <3>2. CASE q = r
        <4>1. Applies(r, Head(inQueue[r]))
          BY <2>0, <2>4, <3>2 DEF Applies
        <4>2. held'[r] = FALSE
          BY <2>4, <3>1, <4>1, ResponseMoves
        <4> QED
          BY <3>2, <4>2
      <3>3. CASE q # r
        <4>1. passing'[r] = IF Head(inQueue[r]).dst = r THEN Nobody ELSE Head(inQueue[r])
          BY <2>4, <3>1, ResponseMoves
        <4> QED
          BY <2>0, <2>4, <3>3, <4>1
      <3> QED
        BY <3>2, <3>3
    <2>5. CASE PassOn(r) /\ passing[r] = p
      <3>1. Emit(r, passing[r]) /\ passing[r] \in Packets
        BY <2>5, Emitted
      <3>2. passing[r] \in Elements(arpQueue'[r])
        BY <1>2, <3>1, EmitMoves
      <3> QED
        BY <2>0, <2>5, <3>2
    <2> QED
      BY <2>1, <2>2, <2>3, <2>4, <2>5
  <1>8. CASE asking'[q] \/ InSight(Request(q))' \/ \E v \in Versions : InSight(Answer(q, v))'
    BY <1>8 DEF Sought
  <1> QED
    BY <1>5, <1>6, <1>7, <1>8 DEF Sought

LEMMA AskStep ==
  ASSUME GNRSIsAHost, HeldInv, TypeOK', [Next]_vars
  PROVE  AskOK'
  <1>1. TypeOK /\ QueuesOK /\ bounds.publishing \subseteq Routers
    BY BoundsTyped DEF HeldInv, ReachInv, FloodInv
  <1> SUFFICES ASSUME ~LostNow', NEW q \in Routers, held'[q]
               PROVE  q \in interested' \/ Sought(q)'
    BY DEF AskOK
  <1>2. ASSUME NEW r \in Routers, Step(r) PROVE q \in interested' \/ Sought(q)'
    <2>1. interested' = interested /\ ~LostNow
      BY <1>2, StepFrame
    <2>2. CASE held[q]
      <3>1. cached[q] = 0 /\ (q \in interested \/ Sought(q))
        BY <2>1, <2>2 DEF HeldInv, ReachInv, InterestOK, AskOK
      <3> QED
        BY <1>1, <1>2, <2>1, <2>2, <3>1, SoughtStays DEF HeldInv
    <2>3. CASE ~held[q]
      <3>1. HandleData(r) /\ q = r
        <4>1. CASE HandleGNRSResponse(r)
          <5>1. q # r => held'[q] = held[q]
            BY <1>1, <4>1, OthersStay
          <5>2. held'[r] = held[r] \/ held'[r] = FALSE
            BY <1>1, <4>1 DEF HandleGNRSResponse, TypeOK
          <5> QED
            BY <2>3, <5>1, <5>2
        <4>2. CASE HandleData(r)
          BY <1>1, <2>3, <4>2 DEF HandleData, TypeOK
        <4> QED
          BY <1>2, <2>3, <4>1, <4>2 DEF Step, Send, EmitRequest, HandleGNRSRequest, PassOn
      <3>2. asking'[q]
        BY <1>1, <3>1 DEF HandleData, TypeOK
      <3> QED
        BY <3>2 DEF Sought
    <2> QED
      BY <2>2, <2>3
  <1>3. CASE Update
    <2>1. held' = held /\ interested' = {r \in Routers : held[r] \/ cached[r] > 0}
      BY <1>3 DEF Update
    <2> QED
      BY <2>1
  <1>4. CASE UNCHANGED vars
    BY <1>4 DEF vars, HeldInv, AskOK, Sought, InSight, LostNow
  <1> QED
    BY <1>1, <1>2, <1>3, <1>4 DEF Next, Work, Step

(* Packets stay in a cache only after a loss that no change has followed:  *)
(* a request is passed on or answered, an answer passed on or used, and    *)
(* whatever a loss has left behind the next change releases.               *)
THEOREM NothingStuck ==
  ASSUME Connected, GNRSIsAHost
  PROVE  Spec /\ NoncesAreNew => []HeldOnlyIfLost
  <1>1. Init => HeldInv
    <2> SUFFICES ASSUME Init PROVE HeldInv
      OBVIOUS
    <2>1. AnswersOK
      <3>1. \A r \in Routers, v \in Versions : Answer(r, v) # Nobody
        BY PacketKinds, ResponsesTyped
      <3> QED
        BY <3>1 DEF Init, AnswersOK, Elements
    <2>2. AskOK
      BY DEF Init, AskOK
    <2> QED
      BY <2>1, <2>2, InitReach DEF HeldInv
  <1>2. HeldInv /\ [Next]_vars /\ [Update => NewNonce]_vars => HeldInv'
    <2> SUFFICES ASSUME HeldInv, [Next]_vars, [Update => NewNonce]_vars PROVE HeldInv'
      OBVIOUS
    <2>1. Update => NewNonce
      BY BoundsTyped DEF vars, Update, HeldInv, ReachInv, FloodInv
    <2>2. ReachInv'
      BY <2>1, NextReach DEF HeldInv
    <2>3. TypeOK /\ TypeOK' /\ QueuesOK
      BY <2>2 DEF HeldInv, ReachInv, FloodInv
    <2> QED
      BY <2>2, <2>3, AnswersStep, AskStep DEF HeldInv
  <1>3. HeldInv => HeldOnlyIfLost
    <2> SUFFICES ASSUME HeldInv, Quiet, NEW r \in Routers, held[r] PROVE LostNow
      BY DEF HeldOnlyIfLost
    <2>1. ~Sought(r)
      <3>1. Request(r) # Nobody /\ \A v \in Versions : Answer(r, v) # Nobody
        BY FloodAssumption, PacketKinds, ResponsesTyped
      <3> QED
        BY <3>1 DEF Quiet, Sought, InSight, Elements
    <2>2. ~LostNow => r \in interested
      BY <2>1 DEF HeldInv, AskOK
    <2>3. ~LostNow => cached[r] = current
      BY <2>2, FloodEverywhere DEF HeldInv
    <2>4. cached[r] = 0 /\ current # 0
      <3>1. current \in Versions /\ cached[r] = 0
        BY DEF HeldInv, ReachInv, FloodInv, TypeOK, InterestOK
      <3> QED
        BY <3>1, FloodAssumption DEF Versions
    <2> QED
      BY <2>3, <2>4
  <1> QED
    BY <1>1, <1>2, <1>3, PTL DEF Spec, NoncesAreNew
=============================================================================
