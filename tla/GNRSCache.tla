----------------------------- MODULE GNRSCache ------------------------------
(***************************************************************************)
(* GPS_GNRSCache: the element of a router that turns the destination GUID  *)
(* of a data packet into a network address (NA).  A packet whose GUID is   *)
(* cached leaves at once with the cached NA; for the others one request    *)
(* goes to the GNRS and the packets are held until the response comes.     *)
(*                                                                         *)
(* Click threads run the three handlers concurrently.  A step of a thread  *)
(* is the code between two points where another thread can interfere: a    *)
(* lock acquisition, a release, or a push to the next element.  Handlers   *)
(* given a packet of the wrong type kill it and change nothing, so they    *)
(* have no action.                                                         *)
(*                                                                         *)
(* A definition whose name starts with Slip is a mistake the code does not *)
(* make, written down to see which property would notice it.               *)
(***************************************************************************)
EXTENDS NonceCache, FiniteSets

CONSTANTS
  Threads,          \* the router's threads
  Serves,           \* the input ports a thread drives (StaticThreadSched)
  Guids,            \* names
  NAs,              \* addresses of routers
  MyNa,             \* NA of this router
  GnrsNa,           \* NA of the global name resolution service
  EmptyNa,          \* NA 0: not resolved yet
  BroadcastNa,      \* NA 0xffffffff
  Versions,         \* versions a response can carry
  DataInputs,       \* [guid, dstNa] of the data packets that can arrive
  RequestInputs,    \* [guid, srcNa, dstNa] of the GNRS requests
  ResponseInputs,   \* [guid, srcNa, dstNa, na, version, nonce] of the responses
  MaxArrivals,      \* bound: packets that arrive at each port
  None              \* no thread, no packet

Ports == {"data", "request", "response"}

AnyNa == NAs \cup {EmptyNa, BroadcastNa}

(* GPS_GUIDInfo. *)
GUIDInfo == [na : AnyNa, version : Nat]

(* The packets, reduced to the fields the handlers read or write.  The id  *)
(* stands for the identity of the packet (its pointer): the place of its   *)
(* arrival at its port.  A packet the cache makes takes the id of the one  *)
(* that caused it.                                                         *)
DataPacket ==
  [kind : {"data"}, id : Nat, guid : Guids, dstNa : AnyNa]
RequestPacket ==
  [kind : {"request"}, id : Nat, guid : Guids, srcNa : AnyNa, dstNa : AnyNa]
ResponsePacket ==
  [kind : {"response"}, id : Nat, guid : Guids, srcNa : AnyNa, dstNa : AnyNa,
   na : AnyNa, version : Nat, nonce : Nonces]
Packets == DataPacket \cup RequestPacket \cup ResponsePacket

(* In the router's configuration the Unqueue before each input port runs   *)
(* in one thread.  addNonce takes no lock, so the response port needs it.  *)
ASSUME CacheAssumption ==
  /\ Serves \in [Threads -> SUBSET Ports]
  /\ \A t, u \in Threads :
        "response" \in Serves[t] \cap Serves[u] => t = u
  /\ MyNa \in NAs /\ GnrsNa \in NAs
  /\ EmptyNa \notin NAs /\ BroadcastNa \notin NAs /\ EmptyNa # BroadcastNa
  /\ Versions \subseteq Nat
  /\ DataInputs \subseteq [guid : Guids, dstNa : NAs \cup {EmptyNa}]
  /\ RequestInputs \subseteq
       [guid : Guids, srcNa : NAs \ {MyNa}, dstNa : NAs \cup {EmptyNa}]
  /\ ResponseInputs \subseteq
       [guid : Guids, srcNa : NAs \ {MyNa}, dstNa : NAs \cup {BroadcastNa},
        na : NAs, version : Versions, nonce : Nonces]
  /\ MaxArrivals \in [Ports -> Nat]
  /\ None \notin Threads /\ None \notin Packets

VARIABLES
  guidNas,          \* _guidNas: the GUIDs cached and their GUIDInfo
  pendingPackets,   \* _pendingPackets; <<>> for a GUID with no batch
  cacheReaders,     \* threads that hold _cacheLock for reading
  cacheWriter,      \* thread that holds _cacheLock for writing, or None
  pendingWriter,    \* thread that holds _pendingPacketsLock, or None
  pc,               \* where each thread is
  hand,             \* the packet each thread works on, or None
  out,              \* the packets pushed to the two output ports
  arrived           \* number of packets that arrived at each port

lockVars  == <<cacheReaders, cacheWriter, pendingWriter>>
tableVars == <<guidNas, pendingPackets>>
vars == <<guidNas, pendingPackets, cacheReaders, cacheWriter, pendingWriter,
          pc, hand, out, arrived, nonceCacheQueue, nonceCacheTable>>

Init ==
  /\ guidNas = [g \in {} |-> None]
  /\ pendingPackets = [g \in Guids |-> <<>>]
  /\ cacheReaders = {} /\ cacheWriter = None /\ pendingWriter = None
  /\ pc = [t \in Threads |-> "idle"]
  /\ hand = [t \in Threads |-> None]
  /\ out = {}
  /\ arrived = [p \in Ports |-> 0]
  /\ NonceInit

-----------------------------------------------------------------------------
(* Helpers.                                                                *)

Cached(g) == g \in DOMAIN guidNas

(* _guidNas[g] before the assignment: operator[] makes a default entry.    *)
InfoOf(g) ==
  IF Cached(g) THEN guidNas[g] ELSE [na |-> EmptyNa, version |-> 0]

WithInfo(g, info) ==
  [h \in DOMAIN guidNas \cup {g} |-> IF h = g THEN info ELSE guidNas[h]]

HasPending(g) == pendingPackets[g] # <<>>

(* pthread_rwlock: readers share, a writer is alone.                       *)
CanReadCache  == cacheWriter = None
CanWriteCache == cacheWriter = None /\ cacheReaders = {}

Goto(t, label) == pc' = [pc EXCEPT ![t] = label]

Step(t, from, to) == pc[t] = from /\ Goto(t, to)

OutPort(packet) == IF packet.dstNa = MyNa THEN "endhost" ELSE "router"

Sent(packet) == [port |-> OutPort(packet), packet |-> packet]

(* A request whose destination is not initialised.                         *)
SlipRequestFor(packet) ==
  [kind |-> "request", id |-> packet.id, guid |-> packet.guid,
   srcNa |-> MyNa, dstNa |-> None]

(* gps_packet_gnrsRequest_init for the first packet held for a GUID.       *)
RequestFor(packet) ==
  [kind |-> "request", id |-> packet.id, guid |-> packet.guid,
   srcNa |-> MyNa, dstNa |-> GnrsNa]

(* The answer to a request from the cache, with a random nonce.            *)
ResponseTo(request, nonce) ==
  [kind |-> "response", id |-> request.id, guid |-> request.guid,
   srcNa |-> MyNa, dstNa |-> request.srcNa, na |-> guidNas[request.guid].na,
   version |-> guidNas[request.guid].version, nonce |-> nonce]

(* A packet arrives at a port the thread drives.                           *)
Arrive(t, port) ==
  /\ port \in Serves[t]
  /\ arrived[port] < MaxArrivals[port]
  /\ arrived' = [arrived EXCEPT ![port] = @ + 1]

Take(t, packet) == hand' = [hand EXCEPT ![t] = packet]

(* emit(): the end of every handler that still has a packet to push.       *)
Emit(t) ==
  /\ Step(t, "emit", "idle")
  /\ out' = out \cup {Sent(hand[t])}
  /\ hand' = [hand EXCEPT ![t] = None]
  /\ UNCHANGED <<tableVars, lockVars, arrived, nonceVars>>

-----------------------------------------------------------------------------
(* handleData.                                                             *)

(* A packet that already has an NA is emitted without a look at the cache. *)
DataArrive(t, in) ==
  /\ Step(t, "idle", IF in.dstNa = EmptyNa THEN "dataLookup" ELSE "emit")
  /\ Arrive(t, "data")
  /\ Take(t, [kind |-> "data", id |-> arrived'["data"],
              guid |-> in.guid, dstNa |-> in.dstNa])
  /\ UNCHANGED <<tableVars, lockVars, out, nonceVars>>

(* Read lock taken and the GUID found: the packet gets the cached NA.      *)
DataHit(t) ==
  /\ Step(t, "dataLookup", "dataRelease")
  /\ CanReadCache /\ cacheReaders' = cacheReaders \cup {t}
  /\ Cached(hand[t].guid)
  /\ hand' = [hand EXCEPT ![t].dstNa = guidNas[hand[t].guid].na]
  /\ UNCHANGED <<tableVars, cacheWriter, pendingWriter, out, arrived, nonceVars>>

(* The read lock is given back before the batch is locked.                 *)
SlipMissUnlocked(t) ==
  /\ Step(t, "dataLookup", "dataLockPending")
  /\ CanReadCache
  /\ ~Cached(hand[t].guid)
  /\ UNCHANGED <<tableVars, lockVars, hand, out, arrived, nonceVars>>

(* The lookup is written _guidNas[guid], which inserts.                    *)
SlipMissInserts(t) ==
  /\ Step(t, "dataLookup", "dataLockPending")
  /\ CanReadCache /\ cacheReaders' = cacheReaders \cup {t}
  /\ ~Cached(hand[t].guid)
  /\ guidNas' = WithInfo(hand[t].guid, InfoOf(hand[t].guid))
  /\ UNCHANGED <<pendingPackets, cacheWriter, pendingWriter, hand, out, arrived, nonceVars>>

(* Read lock taken and the GUID not found.                                 *)
DataMiss(t) ==
  /\ Step(t, "dataLookup", "dataLockPending")
  /\ CanReadCache /\ cacheReaders' = cacheReaders \cup {t}
  /\ ~Cached(hand[t].guid)
  /\ UNCHANGED <<tableVars, cacheWriter, pendingWriter, hand, out, arrived, nonceVars>>

DataLockPending(t) ==
  /\ Step(t, "dataLockPending", "dataHold")
  /\ pendingWriter = None /\ pendingWriter' = t
  /\ UNCHANGED <<tableVars, cacheReaders, cacheWriter, hand, out, arrived, nonceVars>>

(* "put and discard" read as discarding the packets after the first.       *)
SlipHoldDiscards(t) ==
  LET packet == hand[t]
  IN  /\ Step(t, "dataHold", "dataRelease")
      /\ pendingPackets' = IF HasPending(packet.guid) THEN pendingPackets
                           ELSE [pendingPackets EXCEPT ![packet.guid] = <<packet>>]
      /\ hand' = [hand EXCEPT ![t] = IF HasPending(packet.guid)
                                       THEN None ELSE RequestFor(packet)]
      /\ pendingWriter' = None
      /\ UNCHANGED <<guidNas, cacheReaders, cacheWriter, out, arrived, nonceVars>>

(* Every packet held makes a request.                                      *)
SlipHoldAsksAgain(t) ==
  LET packet == hand[t]
  IN  /\ Step(t, "dataHold", "dataRelease")
      /\ pendingPackets' = [pendingPackets EXCEPT
                              ![packet.guid] = Append(@, packet)]
      /\ hand' = [hand EXCEPT ![t] = RequestFor(packet)]
      /\ pendingWriter' = None
      /\ UNCHANGED <<guidNas, cacheReaders, cacheWriter, out, arrived, nonceVars>>

(* _pendingPacketsLock is released only where a request was made.          *)
SlipHoldKeepsLock(t) ==
  LET packet == hand[t]
  IN  /\ Step(t, "dataHold", "dataRelease")
      /\ pendingPackets' = [pendingPackets EXCEPT
                              ![packet.guid] = Append(@, packet)]
      /\ hand' = [hand EXCEPT ![t] = IF HasPending(packet.guid)
                                       THEN None ELSE RequestFor(packet)]
      /\ pendingWriter' = IF HasPending(packet.guid) THEN t ELSE None
      /\ UNCHANGED <<guidNas, cacheReaders, cacheWriter, out, arrived, nonceVars>>

(* The packet joins the batch of its GUID; the first one makes a request,  *)
(* which becomes the packet to emit.  _pendingPacketsLock is released.     *)
DataHold(t) ==
  LET packet == hand[t]
  IN  /\ Step(t, "dataHold", "dataRelease")
      /\ pendingPackets' = [pendingPackets EXCEPT
                              ![packet.guid] = Append(@, packet)]
      /\ hand' = [hand EXCEPT ![t] = IF HasPending(packet.guid)
                                       THEN None ELSE RequestFor(packet)]
      /\ pendingWriter' = None
      /\ UNCHANGED <<guidNas, cacheReaders, cacheWriter, out, arrived, nonceVars>>

DataRelease(t) ==
  /\ Step(t, "dataRelease", IF hand[t] = None THEN "idle" ELSE "emit")
  /\ cacheReaders' = cacheReaders \ {t}
  /\ UNCHANGED <<tableVars, cacheWriter, pendingWriter, hand, out, arrived, nonceVars>>

-----------------------------------------------------------------------------
(* handleGNRSRequest.                                                      *)

RequestArrive(t, in) ==
  /\ Step(t, "idle", "requestLookup")
  /\ Arrive(t, "request")
  /\ Take(t, [kind |-> "request", id |-> arrived'["request"],
              guid |-> in.guid, srcNa |-> in.srcNa, dstNa |-> in.dstNa])
  /\ UNCHANGED <<tableVars, lockVars, out, nonceVars>>

(* Found: the request is answered from the cache.                          *)
RequestHit(t) ==
  /\ Step(t, "requestLookup", "requestRelease")
  /\ CanReadCache /\ cacheReaders' = cacheReaders \cup {t}
  /\ Cached(hand[t].guid)
  /\ \E nonce \in Nonces :
        hand' = [hand EXCEPT ![t] = ResponseTo(@, nonce)]
  /\ UNCHANGED <<tableVars, cacheWriter, pendingWriter, out, arrived, nonceVars>>

(* Not found: the request goes on, to the GNRS if it had no destination.   *)
RequestMiss(t) ==
  /\ Step(t, "requestLookup", "requestRelease")
  /\ CanReadCache /\ cacheReaders' = cacheReaders \cup {t}
  /\ ~Cached(hand[t].guid)
  /\ hand' = [hand EXCEPT ![t].dstNa = IF @ = EmptyNa THEN GnrsNa ELSE @]
  /\ UNCHANGED <<tableVars, cacheWriter, pendingWriter, out, arrived, nonceVars>>

RequestRelease(t) ==
  /\ Step(t, "requestRelease", "emit")
  /\ cacheReaders' = cacheReaders \ {t}
  /\ UNCHANGED <<tableVars, cacheWriter, pendingWriter, hand, out, arrived, nonceVars>>

-----------------------------------------------------------------------------
(* handleGNRSResponse.                                                     *)

(* A broadcast response whose nonce is known is killed, without any lock.  *)
ResponseDuplicate(t, in) ==
  /\ pc[t] = "idle"
  /\ Arrive(t, "response")
  /\ in.dstNa = BroadcastNa /\ KnownNonce(in.nonce)
  /\ UNCHANGED <<tableVars, lockVars, pc, hand, out, nonceVars>>

ResponseArrive(t, in) ==
  /\ Step(t, "idle", "responseLock")
  /\ Arrive(t, "response")
  /\ Take(t, [kind |-> "response", id |-> arrived'["response"],
              guid |-> in.guid, srcNa |-> in.srcNa, dstNa |-> in.dstNa,
              na |-> in.na, version |-> in.version, nonce |-> in.nonce])
  /\ IF in.dstNa = BroadcastNa THEN AddNonce(in.nonce)
                               ELSE UNCHANGED nonceVars
  /\ UNCHANGED <<tableVars, lockVars, out>>

(* The handler takes the cache for reading.                                *)
SlipResponseReads(t) ==
  /\ Step(t, "responseLock", "responseUpdate")
  /\ CanReadCache /\ cacheWriter' = t
  /\ UNCHANGED <<tableVars, cacheReaders, pendingWriter, hand, out, arrived, nonceVars>>

ResponseLock(t) ==
  /\ Step(t, "responseLock", "responseUpdate")
  /\ CanWriteCache /\ cacheWriter' = t
  /\ UNCHANGED <<tableVars, cacheReaders, pendingWriter, hand, out, arrived, nonceVars>>

(* The version is not compared.                                            *)
SlipUpdateAnyVersion(t) ==
  LET r == hand[t]
  IN  /\ Step(t, "responseUpdate",
              IF HasPending(r.guid) THEN "responseFlush" ELSE "responseRelease")
      /\ guidNas' = IF HasPending(r.guid) \/ r.dstNa = MyNa \/ Cached(r.guid)
                    THEN WithInfo(r.guid, [na |-> r.na, version |-> r.version])
                    ELSE guidNas
      /\ UNCHANGED <<pendingPackets, lockVars, hand, out, arrived, nonceVars>>

(* The write lock is released before the batch is emitted.                 *)
SlipUpdateUnlocks(t) ==
  LET r         == hand[t]
      mandatory == HasPending(r.guid) \/ r.dstNa = MyNa
      updated   == /\ mandatory \/ Cached(r.guid)
                   /\ r.version > InfoOf(r.guid).version
  IN  /\ Step(t, "responseUpdate",
              IF updated /\ HasPending(r.guid) THEN "responseFlush"
                                               ELSE "responseRelease")
      /\ guidNas' = IF updated THEN WithInfo(r.guid, [na |-> r.na, version |-> r.version])
                               ELSE guidNas
      /\ cacheWriter' = None
      /\ UNCHANGED <<pendingPackets, cacheReaders, pendingWriter, hand, out, arrived, nonceVars>>

(* Only a response sent to this router releases the batch.                 *)
SlipUpdateForMeOnly(t) ==
  LET r       == hand[t]
      updated == /\ HasPending(r.guid) \/ r.dstNa = MyNa \/ Cached(r.guid)
                 /\ r.version > InfoOf(r.guid).version
  IN  /\ Step(t, "responseUpdate",
              IF updated /\ HasPending(r.guid) /\ r.dstNa = MyNa
                THEN "responseFlush" ELSE "responseRelease")
      /\ guidNas' = IF updated THEN WithInfo(r.guid, [na |-> r.na, version |-> r.version])
                               ELSE guidNas
      /\ UNCHANGED <<pendingPackets, lockVars, hand, out, arrived, nonceVars>>

(* The entry is written if the version is newer than the entry's, where a  *)
(* GUID with a batch, or a response to this router, makes an entry first.  *)
ResponseUpdate(t) ==
  LET r         == hand[t]
      mandatory == HasPending(r.guid) \/ r.dstNa = MyNa
      updated   == /\ mandatory \/ Cached(r.guid)
                   /\ r.version > InfoOf(r.guid).version
  IN  /\ Step(t, "responseUpdate",
              IF updated /\ HasPending(r.guid) THEN "responseFlush"
                                               ELSE "responseRelease")
      /\ guidNas' = CASE updated -> WithInfo(r.guid, [na |-> r.na, version |-> r.version])
                      [] ~updated /\ mandatory -> WithInfo(r.guid, InfoOf(r.guid))
                      [] ~updated /\ ~mandatory -> guidNas
      /\ UNCHANGED <<pendingPackets, lockVars, hand, out, arrived, nonceVars>>

(* One turn of the loop that emits the batch, the write lock still held.   *)
(* The batch is erased after the loop; nobody can see it shrink before.    *)
ResponseFlush(t) ==
  LET r     == hand[t]
      batch == pendingPackets[r.guid]
  IN  /\ Step(t, "responseFlush",
              IF Len(batch) = 1 THEN "responseRelease" ELSE "responseFlush")
      /\ out' = out \cup {Sent([Head(batch) EXCEPT !.dstNa = r.na])}
      /\ pendingPackets' = [pendingPackets EXCEPT ![r.guid] = Tail(@)]
      /\ UNCHANGED <<guidNas, lockVars, hand, arrived, nonceVars>>

(* A response to this router ends here, any other is passed on.            *)
ResponseRelease(t) ==
  LET toMyself == hand[t].dstNa = MyNa
  IN  /\ Step(t, "responseRelease", IF toMyself THEN "idle" ELSE "emit")
      /\ hand' = [hand EXCEPT ![t] = IF toMyself THEN None ELSE @]
      /\ cacheWriter' = None
      /\ UNCHANGED <<tableVars, cacheReaders, pendingWriter, out, arrived, nonceVars>>

-----------------------------------------------------------------------------

(* push(): the port decides the handler.                                   *)
Push(t) ==
  \/ \E in \in DataInputs : DataArrive(t, in)
  \/ \E in \in RequestInputs : RequestArrive(t, in)
  \/ \E in \in ResponseInputs :
        ResponseDuplicate(t, in) \/ ResponseArrive(t, in)

(* The rest of the handler a thread is in.                                 *)
Handle(t) ==
  \/ DataHit(t) \/ DataMiss(t) \/ DataLockPending(t) \/ DataHold(t)
  \/ DataRelease(t)
  \/ RequestHit(t) \/ RequestMiss(t) \/ RequestRelease(t)
  \/ ResponseLock(t) \/ ResponseUpdate(t) \/ ResponseFlush(t)
  \/ ResponseRelease(t)
  \/ Emit(t)

Next == \E t \in Threads : Push(t) \/ Handle(t)

Spec == Init /\ [][Next]_vars

(* A thread in a handler keeps running; nothing makes packets arrive.      *)
FairSpec == Spec /\ \A t \in Threads : WF_vars(Handle(t))

-----------------------------------------------------------------------------
(* Properties.                                                             *)

Labels ==
  {"idle", "dataLookup", "dataLockPending", "dataHold", "dataRelease",
   "requestLookup", "requestRelease",
   "responseLock", "responseUpdate", "responseFlush", "responseRelease",
   "emit"}

(* Every variable keeps its type.                                          *)
TypeOK ==
  /\ DOMAIN guidNas \subseteq Guids
  /\ guidNas \in [DOMAIN guidNas -> GUIDInfo]
  /\ pendingPackets \in [Guids -> Seq(DataPacket)]
  /\ cacheReaders \subseteq Threads
  /\ cacheWriter \in Threads \cup {None}
  /\ pendingWriter \in Threads \cup {None}
  /\ pc \in [Threads -> Labels]
  /\ hand \in [Threads -> Packets \cup {None}]
  /\ out \subseteq [port : {"router", "endhost"}, packet : Packets]
  /\ arrived \in [Ports -> Nat]
  /\ nonceCacheQueue \in Seq(Nonces)
  /\ nonceCacheTable \subseteq Nonces

(* The lock discipline around the batches.  The response handler works on  *)
(* _pendingPackets without _pendingPacketsLock: that is sound only because *)
(* a data thread changes them while it reads the cache.                    *)
BatchesNotShared ==
  \A t, u \in Threads :
    /\ pc[t] \in {"dataHold", "responseUpdate", "responseFlush"}
    /\ pc[u] \in {"dataHold", "responseUpdate", "responseFlush"}
    => t = u

InHand(id) ==
  {t \in Threads : hand[t] # None /\ hand[t].kind = "data" /\ hand[t].id = id}

Out(id) == {s \in out : s.packet.kind = "data" /\ s.packet.id = id}

(* The places in the batches that hold the data packet id.                 *)
Batched(id) ==
  {place \in Guids \X (1..arrived["data"]) :
     /\ place[2] \in DOMAIN pendingPackets[place[1]]
     /\ pendingPackets[place[1]][place[2]].id = id}

(* No data packet is lost or duplicated: one that arrived is in one        *)
(* thread's hand, or once in one batch, or was emitted once.               *)
EachDataPacketOnce ==
  \A id \in 1..arrived["data"] :
    Cardinality(InHand(id)) + Cardinality(Batched(id)) + Cardinality(Out(id)) = 1

Flushing(t, g) == pc[t] = "responseFlush" /\ hand[t].guid = g

(* No lost wakeup: packets are never held for a GUID that is cached, except *)
(* by the response handler that is emitting them.  A packet held later     *)
(* would wait for a response nobody asked for.                             *)
HeldOnlyIfUnknown ==
  \A g \in Guids :
    HasPending(g) /\ Cached(g) => \E t \in Threads : Flushing(t, g)

(* The requests this router made for g, on their way out or out.           *)
OwnRequests(g) ==
  {p \in {hand[t] : t \in {t \in Threads : hand[t] # None}}
           \cup {s.packet : s \in out} :
     p.kind = "request" /\ p.srcNa = MyNa /\ p.guid = g}

(* A router asks the GNRS at most once for a GUID, whatever the threads    *)
(* do, and it has asked if it holds packets for it: there is no retry.     *)
RequestedOnce ==
  \A g \in Guids :
    /\ \A p, q \in OwnRequests(g) : p = q
    /\ HasPending(g) => OwnRequests(g) # {}

OneDataThread == \A t, u \in Threads : "data" \in Serves[t] \cap Serves[u] => t = u

AlwaysUnresolved(g) == \A in \in DataInputs : in.guid = g => in.dstNa = EmptyNa

(* With one data thread, packets of a GUID that come unresolved leave in   *)
(* the order they came, the held ones before those that hit the cache: the *)
(* response handler keeps the write lock until the whole batch is out.     *)
InArrivalOrder ==
  \A g \in Guids : OneDataThread /\ AlwaysUnresolved(g) =>
    \A s \in out : s.packet.kind = "data" /\ s.packet.guid = g =>
      \A i \in DOMAIN pendingPackets[g] : s.packet.id < pendingPackets[g][i].id

(* No address 0 spreads: no data packet leaves unresolved, and no request  *)
(* is answered with the empty NA of a default GUIDInfo.                    *)
NothingUnresolved ==
  \A s \in out :
    /\ s.packet.kind = "data" => s.packet.dstNa \in NAs
    /\ s.packet.kind = "response" => s.packet.na \in NAs

(* The answers a router gives for a GUID never go back to an older         *)
(* version, in the order of the requests (one thread drives that port).    *)
OwnAnswers == {s.packet : s \in {s \in out : /\ s.packet.kind = "response"
                                             /\ s.packet.srcNa = MyNa}}

AnswersGrow ==
  \A p, q \in OwnAnswers :
    p.guid = q.guid /\ p.id < q.id => p.version <= q.version

(* A cached GUID stays cached, and its entry changes only to a newer       *)
(* version, whatever the order and the copies in which responses come.     *)
EntryOnlyNewer ==
  \A g \in DOMAIN guidNas :
    /\ g \in DOMAIN guidNas'
    /\ guidNas'[g] = guidNas[g] \/ guidNas'[g].version > guidNas[g].version

CacheOnlyNewer == [][EntryOnlyNewer]_vars

(* The handler's comment: with packets pending on the GUID, or a response  *)
(* sent to this router, the update of the cache is mandatory.  So after it *)
(* the cache holds the binding announced, or a newer one.                  *)
UpdateIsMandatory ==
  \A t \in Threads :
    LET r == hand[t]
    IN  pc[t] = "responseUpdate" /\ pc'[t] # "responseUpdate"
          /\ (HasPending(r.guid) \/ r.dstNa = MyNa)
        => /\ r.guid \in DOMAIN guidNas'
           /\ \/ guidNas'[r.guid] = [na |-> r.na, version |-> r.version]
              \/ guidNas'[r.guid].version > r.version

MandatoryUpdate == [][UpdateIsMandatory]_vars

(* Every handler comes to its end: the two locks never leave threads       *)
(* waiting for each other.                                                 *)
HandlersFinish == \A t \in Threads : pc[t] # "idle" ~> pc[t] = "idle"

(* Once a response for a GUID is being handled, the packets held for it    *)
(* leave, and no packet is ever held for that GUID again.                  *)
AnsweredThenEmpty ==
  \A g \in Guids :
    (\E t \in Threads : pc[t] = "responseLock" /\ hand[t].guid = g /\ HasPending(g))
      ~> [](~HasPending(g))
=============================================================================
