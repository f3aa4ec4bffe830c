-------------------------- MODULE GNRSCacheProofs ---------------------------
(***************************************************************************)
(* Proofs about GNRSCache for any threads, GUIDs, inputs and bounds.       *)
(***************************************************************************)
EXTENDS GNRSCacheRefinement, SequenceTheorems, FiniteSetTheorems, TLAPS

-----------------------------------------------------------------------------
(* The inductive invariant, in parts.                                      *)

(* What a thread has in its hand at each place of a handler.               *)
HandOK ==
  \A t \in Threads :
    /\ pc[t] = "idle" => hand[t] = None
    /\ pc[t] \in {"dataLookup", "dataLockPending", "dataHold"} => hand[t] \in DataPacket
    /\ pc[t] = "dataRelease" => hand[t] \in DataPacket \cup RequestPacket \cup {None}
    /\ pc[t] = "requestLookup" => hand[t] \in RequestPacket /\ hand[t].srcNa # MyNa
    /\ pc[t] = "requestRelease" => hand[t] \in RequestPacket \cup ResponsePacket
    /\ pc[t] \in {"responseLock", "responseUpdate", "responseFlush", "responseRelease"}
         => hand[t] \in ResponsePacket /\ hand[t].version \in Versions
    /\ pc[t] = "emit" => hand[t] \in Packets

(* Who holds the locks, and that a writer is alone.                        *)
ReadingLabels == {"dataLockPending", "dataHold", "dataRelease", "requestRelease"}
WritingLabels == {"responseUpdate", "responseFlush", "responseRelease"}

LockOK ==
  /\ \A t \in Threads :
       /\ t \in cacheReaders <=> pc[t] \in ReadingLabels
       /\ t = cacheWriter <=> pc[t] \in WritingLabels
       /\ t = pendingWriter <=> pc[t] = "dataHold"
  /\ cacheWriter # None => cacheReaders = {}

(* What a thread found stays true while it holds the lock: the response    *)
(* handler's loop runs on a batch that is not empty, for a cached GUID...  *)
FlushOK ==
  \A t \in Threads : pc[t] = "responseFlush" =>
    HasPending(hand[t].guid) /\ Cached(hand[t].guid)

(* ... and a thread that holds a packet back does not find the GUID cached. *)
MissOK ==
  \A t \in Threads : pc[t] \in {"dataLockPending", "dataHold"} =>
    ~Cached(hand[t].guid)

-----------------------------------------------------------------------------

LEMMA InitType == Init => TypeOK /\ HandOK
  <1> SUFFICES ASSUME Init PROVE TypeOK /\ HandOK
    OBVIOUS
  <1> QED
    BY CacheAssumption, SMT
    DEF Init, NonceInit, EmptyFilter, TypeOK, HandOK, Labels, Ports

LEMMA DataStepType ==
  ASSUME TypeOK, HandOK, NEW t \in Threads,
         \/ \E in \in DataInputs : DataArrive(t, in)
         \/ DataHit(t) \/ DataMiss(t) \/ DataLockPending(t) \/ DataHold(t)
         \/ DataRelease(t)
  PROVE  TypeOK' /\ HandOK'
  <1> USE DEF Step, Goto, Labels, Ports, AnyNa, tableVars, lockVars, nonceVars
  <1>1. ASSUME NEW in \in DataInputs, DataArrive(t, in)
        PROVE  TypeOK' /\ HandOK'
    <2> DEFINE packet == [kind |-> "data", id |-> arrived'["data"],
                          guid |-> in.guid, dstNa |-> in.dstNa]
    <2>1. arrived' \in [Ports -> Nat]
      BY <1>1 DEF DataArrive, Arrive, TypeOK
    <2>2. packet \in DataPacket
      BY <2>1, CacheAssumption DEF DataPacket
    <2>3. hand' = [hand EXCEPT ![t] = packet]
      BY <1>1 DEF DataArrive, Take
    <2>4. TypeOK'
      BY <1>1, <2>1, <2>2, <2>3 DEF DataArrive, TypeOK, Packets
    <2>5. HandOK'
      BY <1>1, <2>2, <2>3 DEF DataArrive, TypeOK, HandOK, Packets
    <2> QED
      BY <2>4, <2>5
  <1>2. ASSUME DataHit(t) PROVE TypeOK' /\ HandOK'
    <2>1. hand[t] \in DataPacket
      BY <1>2 DEF DataHit, HandOK
    <2>2. guidNas[hand[t].guid].na \in AnyNa
      BY <1>2 DEF DataHit, TypeOK, Cached, GUIDInfo
    <2>3. [hand[t] EXCEPT !.dstNa = guidNas[hand[t].guid].na] \in DataPacket
      BY <2>1, <2>2 DEF DataPacket
    <2>4. TypeOK'
      BY <1>2, <2>3 DEF DataHit, TypeOK, Packets
    <2>5. HandOK'
      BY <1>2, <2>3 DEF DataHit, TypeOK, HandOK
    <2> QED
      BY <2>4, <2>5
  <1>3. ASSUME DataMiss(t) PROVE TypeOK' /\ HandOK'
    BY <1>3 DEF DataMiss, TypeOK, HandOK
  <1>4. ASSUME DataLockPending(t) PROVE TypeOK' /\ HandOK'
    BY <1>4 DEF DataLockPending, TypeOK, HandOK
  <1>5. ASSUME DataHold(t) PROVE TypeOK' /\ HandOK'
    <2>1. hand[t] \in DataPacket
      BY <1>5 DEF DataHold, HandOK
    <2>2. RequestFor(hand[t]) \in RequestPacket
      BY <2>1, CacheAssumption DEF RequestFor, RequestPacket, DataPacket
    <2>3. hand'[t] \in RequestPacket \cup {None}
      BY <1>5, <2>2 DEF DataHold, TypeOK
    <2> DEFINE g == hand[t].guid
    <2>6. g \in Guids
      BY <2>1 DEF DataPacket
    <2>7. Append(pendingPackets[g], hand[t]) \in Seq(DataPacket)
      BY <2>1, <2>6 DEF TypeOK
    <2>8. pendingPackets' = [pendingPackets EXCEPT ![g] = Append(@, hand[t])]
      BY <1>5 DEF DataHold
    <2>9. pendingPackets' \in [Guids -> Seq(DataPacket)]
      BY <2>7, <2>8 DEF TypeOK
    <2>10. hand' \in [Threads -> Packets \cup {None}]
      BY <1>5, <2>3 DEF DataHold, TypeOK, Packets
    <2>4. TypeOK'
      BY <1>5, <2>9, <2>10 DEF DataHold, TypeOK
    <2>5. HandOK'
      BY <1>5, <2>3 DEF DataHold, TypeOK, HandOK
    <2> QED
      BY <2>4, <2>5
  <1>6. ASSUME DataRelease(t) PROVE TypeOK' /\ HandOK'
    BY <1>6 DEF DataRelease, TypeOK, HandOK, Packets
  <1> QED
    BY <1>1, <1>2, <1>3, <1>4, <1>5, <1>6

LEMMA RequestStepType ==
  ASSUME TypeOK, HandOK, NEW t \in Threads,
         \/ \E in \in RequestInputs : RequestArrive(t, in)
         \/ RequestHit(t) \/ RequestMiss(t) \/ RequestRelease(t)
  PROVE  TypeOK' /\ HandOK'
  <1> USE DEF Step, Goto, Labels, Ports, AnyNa, tableVars, lockVars, nonceVars
  <1>1. ASSUME NEW in \in RequestInputs, RequestArrive(t, in)
        PROVE  TypeOK' /\ HandOK'
    <2> DEFINE packet == [kind |-> "request", id |-> arrived'["request"],
                          guid |-> in.guid, srcNa |-> in.srcNa, dstNa |-> in.dstNa]
    <2>1. arrived' \in [Ports -> Nat]
      BY <1>1 DEF RequestArrive, Arrive, TypeOK
    <2>2. packet \in RequestPacket /\ packet.srcNa # MyNa
      BY <2>1, CacheAssumption DEF RequestPacket
    <2>3. hand' = [hand EXCEPT ![t] = packet]
      BY <1>1 DEF RequestArrive, Take
    <2>4. TypeOK'
      BY <1>1, <2>1, <2>2, <2>3 DEF RequestArrive, TypeOK, Packets
    <2>5. HandOK'
      BY <1>1, <2>2, <2>3 DEF RequestArrive, TypeOK, HandOK
    <2> QED
      BY <2>4, <2>5
  <1>2. ASSUME RequestHit(t) PROVE TypeOK' /\ HandOK'
    <2>1. PICK nonce \in Nonces : hand' = [hand EXCEPT ![t] = ResponseTo(@, nonce)]
      BY <1>2 DEF RequestHit
    <2>2. hand[t] \in RequestPacket
      BY <1>2 DEF RequestHit, HandOK
    <2>3. guidNas[hand[t].guid] \in GUIDInfo
      BY <1>2 DEF RequestHit, TypeOK, Cached
    <2>4. ResponseTo(hand[t], nonce) \in ResponsePacket
      BY <2>2, <2>3, CacheAssumption
      DEF ResponseTo, ResponsePacket, RequestPacket, GUIDInfo
    <2>5. TypeOK'
      BY <1>2, <2>1, <2>4 DEF RequestHit, TypeOK, Packets
    <2>6. HandOK'
      BY <1>2, <2>1, <2>4 DEF RequestHit, TypeOK, HandOK
    <2> QED
      BY <2>5, <2>6
  <1>3. ASSUME RequestMiss(t) PROVE TypeOK' /\ HandOK'
    <2>1. hand[t] \in RequestPacket
      BY <1>3 DEF RequestMiss, HandOK
    <2>2. hand'[t] \in RequestPacket
      <3>1. hand \in [Threads -> Packets \cup {None}]
        BY DEF TypeOK
      <3>2. /\ hand' = [hand EXCEPT ![t].dstNa = IF @ = EmptyNa THEN GnrsNa ELSE @]
            /\ GnrsNa \in AnyNa
        BY <1>3, CacheAssumption DEF RequestMiss, AnyNa
      <3> QED
        BY <2>1, <3>1, <3>2 DEF RequestPacket
    <2>3. TypeOK'
      BY <1>3, <2>2 DEF RequestMiss, TypeOK, Packets
    <2>4. HandOK'
      BY <1>3, <2>2 DEF RequestMiss, TypeOK, HandOK
    <2> QED
      BY <2>3, <2>4
  <1>4. ASSUME RequestRelease(t) PROVE TypeOK' /\ HandOK'
    BY <1>4 DEF RequestRelease, TypeOK, HandOK, Packets
  <1> QED
    BY <1>1, <1>2, <1>3, <1>4

LEMMA ResponseStepType ==
  ASSUME TypeOK, HandOK, FlushOK, NEW t \in Threads,
         \/ \E in \in ResponseInputs : ResponseDuplicate(t, in) \/ ResponseArrive(t, in)
         \/ ResponseLock(t) \/ ResponseUpdate(t) \/ ResponseFlush(t)
         \/ ResponseRelease(t)
  PROVE  TypeOK' /\ HandOK'
  <1> USE DEF Step, Goto, Labels, Ports, AnyNa, tableVars, lockVars
  <1>1. ASSUME NEW in \in ResponseInputs, ResponseDuplicate(t, in)
        PROVE  TypeOK' /\ HandOK'
    BY <1>1 DEF ResponseDuplicate, Arrive, TypeOK, HandOK, nonceVars
  <1>2. ASSUME NEW in \in ResponseInputs, ResponseArrive(t, in)
        PROVE  TypeOK' /\ HandOK'
    <2> DEFINE packet == [kind |-> "response", id |-> arrived'["response"],
                          guid |-> in.guid, srcNa |-> in.srcNa, dstNa |-> in.dstNa,
                          na |-> in.na, version |-> in.version, nonce |-> in.nonce]
    <2>1. arrived' \in [Ports -> Nat]
      BY <1>2 DEF ResponseArrive, Arrive, TypeOK
    <2>2. packet \in ResponsePacket /\ packet.version \in Versions /\ in.nonce \in Nonces
      BY <2>1, CacheAssumption DEF ResponsePacket
    <2>3. hand' = [hand EXCEPT ![t] = packet]
      BY <1>2 DEF ResponseArrive, Take
    <2>4. nonceCacheQueue' \in Seq(Nonces) /\ nonceCacheTable' \subseteq Nonces
      <3>1. CASE in.dstNa = BroadcastNa
        <4> DEFINE pushed == Append(nonceCacheQueue, in.nonce)
        <4>1. pushed \in Seq(Nonces) /\ pushed # <<>>
          BY <2>2 DEF TypeOK
        <4>2. Tail(pushed) \in Seq(Nonces)
          BY <4>1
        <4>3. AddNonce(in.nonce)
          BY <1>2, <3>1 DEF ResponseArrive
        <4> QED
          BY <4>1, <4>2, <4>3, <2>2 DEF AddNonce, Remembering, Filter, TypeOK
      <3>2. CASE in.dstNa # BroadcastNa
        BY <1>2, <3>2 DEF ResponseArrive, TypeOK, nonceVars
      <3> QED
        BY <3>1, <3>2
    <2>5. TypeOK'
      BY <1>2, <2>1, <2>2, <2>3, <2>4 DEF ResponseArrive, TypeOK, Packets
    <2>6. HandOK'
      BY <1>2, <2>2, <2>3 DEF ResponseArrive, TypeOK, HandOK
    <2> QED
      BY <2>5, <2>6
  <1>3. ASSUME ResponseLock(t) PROVE TypeOK' /\ HandOK'
    BY <1>3 DEF ResponseLock, TypeOK, HandOK, nonceVars
  <1>4. ASSUME ResponseUpdate(t) PROVE TypeOK' /\ HandOK'
    <2> DEFINE r == hand[t]
    <2>1. r \in ResponsePacket
      BY <1>4 DEF ResponseUpdate, HandOK
    <2>2. [na |-> r.na, version |-> r.version] \in GUIDInfo /\ r.guid \in Guids
      BY <2>1 DEF ResponsePacket, GUIDInfo
    <2>3. InfoOf(r.guid) \in GUIDInfo
      BY <2>2 DEF InfoOf, TypeOK, GUIDInfo, Cached
    <2>4. \/ guidNas' = WithInfo(r.guid, [na |-> r.na, version |-> r.version])
          \/ guidNas' = WithInfo(r.guid, InfoOf(r.guid))
          \/ guidNas' = guidNas
      BY <1>4, Zenon DEF ResponseUpdate
    <2>5. DOMAIN guidNas' \subseteq Guids /\ guidNas' \in [DOMAIN guidNas' -> GUIDInfo]
      BY <2>2, <2>3, <2>4 DEF WithInfo, TypeOK
    <2>6. TypeOK'
      BY <1>4, <2>5 DEF ResponseUpdate, TypeOK, nonceVars
    <2>7. HandOK'
      BY <1>4 DEF ResponseUpdate, TypeOK, HandOK
    <2> QED
      BY <2>6, <2>7
  <1>5. ASSUME ResponseFlush(t) PROVE TypeOK' /\ HandOK'
    <2> DEFINE r     == hand[t]
               batch == pendingPackets[r.guid]
    <2>1. r \in ResponsePacket /\ r.guid \in Guids
      BY <1>5 DEF ResponseFlush, HandOK, ResponsePacket
    <2>2. batch \in Seq(DataPacket) /\ batch # <<>>
      BY <1>5, <2>1 DEF ResponseFlush, FlushOK, HasPending, TypeOK
    <2>3. Head(batch) \in DataPacket /\ Tail(batch) \in Seq(DataPacket)
      BY <2>2
    <2>4. [Head(batch) EXCEPT !.dstNa = r.na] \in DataPacket
      BY <2>1, <2>3 DEF DataPacket, ResponsePacket
    <2>5. out' \subseteq [port : {"router", "endhost"}, packet : Packets]
      <3> DEFINE p == [Head(batch) EXCEPT !.dstNa = r.na]
      <3>1. out' = out \cup {Sent(p)}
        BY <1>5 DEF ResponseFlush
      <3>2. p \in Packets
        BY <2>4 DEF Packets
      <3> HIDE DEF p
      <3>3. Sent(p) \in [port : {"router", "endhost"}, packet : Packets]
        BY <3>2 DEF Sent, OutPort
      <3> QED
        BY <3>1, <3>3 DEF TypeOK
    <2>6. pendingPackets' \in [Guids -> Seq(DataPacket)]
      <3>1. pendingPackets' = [pendingPackets EXCEPT ![r.guid] = Tail(@)]
        BY <1>5 DEF ResponseFlush
      <3> QED
        BY <3>1, <2>3 DEF TypeOK
    <2>7. TypeOK'
      BY <1>5, <2>5, <2>6 DEF ResponseFlush, TypeOK, nonceVars
    <2>8. HandOK'
      BY <1>5 DEF ResponseFlush, TypeOK, HandOK
    <2> QED
      BY <2>7, <2>8
  <1>6. ASSUME ResponseRelease(t) PROVE TypeOK' /\ HandOK'
    BY <1>6 DEF ResponseRelease, TypeOK, HandOK, nonceVars, Packets
  <1> QED
    BY <1>1, <1>2, <1>3, <1>4, <1>5, <1>6

LEMMA EmitType ==
  ASSUME TypeOK, HandOK, NEW t \in Threads, Emit(t)
  PROVE  TypeOK' /\ HandOK'
  <1>1. hand[t] \in Packets
    BY DEF Emit, Step, HandOK
  <1>2. Sent(hand[t]) \in [port : {"router", "endhost"}, packet : Packets]
    BY <1>1 DEF Sent, OutPort
  <1> QED
    BY <1>2 DEF Emit, Step, Goto, TypeOK, HandOK, Labels, tableVars, lockVars, nonceVars

-----------------------------------------------------------------------------
(* The locks.                                                              *)

LEMMA LockStep ==
  ASSUME TypeOK, LockOK, [Next]_vars
  PROVE  LockOK'
  <1> USE CacheAssumption
      DEF Step, Goto, ReadingLabels, WritingLabels, tableVars, lockVars
  <1>1. ASSUME UNCHANGED vars PROVE LockOK'
    BY <1>1 DEF vars, LockOK
  <1>2. ASSUME NEW t \in Threads, NEW in \in DataInputs, DataArrive(t, in)
        PROVE  LockOK'
    BY <1>2 DEF DataArrive, TypeOK, LockOK
  <1>3. ASSUME NEW t \in Threads, NEW in \in RequestInputs, RequestArrive(t, in)
        PROVE  LockOK'
    BY <1>3 DEF RequestArrive, TypeOK, LockOK
  <1>4. ASSUME NEW t \in Threads, NEW in \in ResponseInputs,
               ResponseDuplicate(t, in) \/ ResponseArrive(t, in)
        PROVE  LockOK'
    BY <1>4 DEF ResponseDuplicate, ResponseArrive, TypeOK, LockOK
  <1>5. ASSUME NEW t \in Threads,
               DataHit(t) \/ DataMiss(t) \/ RequestHit(t) \/ RequestMiss(t)
        PROVE  LockOK'
    BY <1>5 DEF DataHit, DataMiss, RequestHit, RequestMiss, CanReadCache,
                TypeOK, LockOK
  <1>6. ASSUME NEW t \in Threads, DataLockPending(t) \/ DataHold(t)
        PROVE  LockOK'
    BY <1>6 DEF DataLockPending, DataHold, TypeOK, LockOK
  <1>7. ASSUME NEW t \in Threads, DataRelease(t) \/ RequestRelease(t)
        PROVE  LockOK'
    BY <1>7 DEF DataRelease, RequestRelease, TypeOK, LockOK
  <1>8. ASSUME NEW t \in Threads, ResponseLock(t)
        PROVE  LockOK'
    BY <1>8 DEF ResponseLock, CanWriteCache, TypeOK, LockOK
  <1>9. ASSUME NEW t \in Threads, ResponseUpdate(t) \/ ResponseFlush(t)
        PROVE  LockOK'
    BY <1>9 DEF ResponseUpdate, ResponseFlush, TypeOK, LockOK
  <1>10. ASSUME NEW t \in Threads, ResponseRelease(t)
        PROVE  LockOK'
    BY <1>10 DEF ResponseRelease, TypeOK, LockOK
  <1>11. ASSUME NEW t \in Threads, Emit(t)
        PROVE  LockOK'
    BY <1>11 DEF Emit, TypeOK, LockOK
  <1> QED
    BY <1>1, <1>2, <1>3, <1>4, <1>5, <1>6, <1>7, <1>8, <1>9, <1>10, <1>11
    DEF Next, Push, Handle

-----------------------------------------------------------------------------
(* What the threads found stays true.                                      *)

LEMMA TailEmpty ==
  ASSUME NEW S, NEW s \in Seq(S), s # <<>>
  PROVE  Tail(s) = <<>> <=> Len(s) = 1
  <1>1. Tail(s) \in Seq(S) /\ Len(Tail(s)) = Len(s) - 1
    BY HeadTailProperties
  <1>2. Tail(s) # <<>> => Len(Tail(s)) \in Nat \ {0}
    BY <1>1, EmptySeq
  <1>3. Tail(s) = <<>> => Len(Tail(s)) = 0
    BY EmptySeq
  <1>4. Len(s) \in Nat
    BY LenProperties
  <1> QED
    BY <1>1, <1>2, <1>3, <1>4

(* A step of a thread leaves the pc and hand of the others alone.          *)
LEMMA OthersUntouched ==
  ASSUME TypeOK, NEW t \in Threads, Push(t) \/ Handle(t),
         NEW u \in Threads, u # t
  PROVE  pc'[u] = pc[u] /\ hand'[u] = hand[u]
  <1> USE DEF Step, Goto, Take, TypeOK
  <1>1. CASE Push(t)
    BY <1>1 DEF Push, DataArrive, RequestArrive, ResponseDuplicate, ResponseArrive
  <1>2. CASE Handle(t)
    BY <1>2 DEF Handle, DataHit, DataMiss, DataLockPending, DataHold, DataRelease,
      RequestHit, RequestMiss, RequestRelease,
      ResponseLock, ResponseUpdate, ResponseFlush, ResponseRelease, Emit
  <1> QED
    BY <1>1, <1>2

(* Only the handler that holds the write lock changes the cache, and a     *)
(* batch changes in the hands of that handler or of a thread that reads    *)
(* the cache and holds _pendingPacketsLock.                                *)
LEMMA WhoWrites ==
  ASSUME TypeOK, NEW t \in Threads, Push(t) \/ Handle(t)
  PROVE  /\ guidNas' # guidNas => pc[t] = "responseUpdate" /\ ResponseUpdate(t)
         /\ pendingPackets' # pendingPackets =>
              \/ pc[t] = "dataHold" /\ DataHold(t)
              \/ pc[t] = "responseFlush" /\ ResponseFlush(t)
  BY DEF Push, Handle, tableVars, Step, DataArrive, RequestArrive, ResponseDuplicate,
     ResponseArrive, DataHit, DataMiss, DataLockPending, DataHold, DataRelease,
     RequestHit, RequestMiss, RequestRelease, ResponseLock, ResponseUpdate,
     ResponseFlush, ResponseRelease, Emit

(* A cached GUID stays cached.                                             *)
LEMMA CachedStays ==
  ASSUME TypeOK, NEW t \in Threads, Push(t) \/ Handle(t), NEW g \in Guids, Cached(g)
  PROVE  Cached(g)'
  <1>1. CASE guidNas' = guidNas
    BY <1>1 DEF Cached
  <1>2. CASE guidNas' # guidNas
    <2>1. ResponseUpdate(t)
      BY <1>2, WhoWrites
    <2>2. \/ guidNas' = WithInfo(hand[t].guid, [na |-> hand[t].na, version |-> hand[t].version])
          \/ guidNas' = WithInfo(hand[t].guid, InfoOf(hand[t].guid))
          \/ guidNas' = guidNas
      BY <2>1, Zenon DEF ResponseUpdate
    <2> QED
      BY <2>2 DEF WithInfo, Cached
  <1> QED
    BY <1>1, <1>2

LEMMA FlushStep ==
  ASSUME TypeOK, HandOK, LockOK, FlushOK, [Next]_vars
  PROVE  FlushOK'
  <1>1. CASE UNCHANGED vars
    BY <1>1 DEF vars, FlushOK, HasPending, Cached
  <1>2. ASSUME NEW t \in Threads, Push(t) \/ Handle(t),
               NEW u \in Threads, pc'[u] = "responseFlush"
        PROVE  HasPending(hand[u].guid)' /\ Cached(hand[u].guid)'
    <2>1. CASE u # t
      <3>1. pc[u] = "responseFlush" /\ hand'[u] = hand[u]
        BY <1>2, <2>1, OthersUntouched
      <3>2. HasPending(hand[u].guid) /\ Cached(hand[u].guid) /\ hand[u].guid \in Guids
        BY <3>1 DEF FlushOK, HandOK, ResponsePacket
      <3>3. cacheWriter = u /\ cacheReaders = {}
        BY <3>1, CacheAssumption DEF LockOK, WritingLabels
      <3>4. pc[t] # "dataHold" /\ pc[t] # "responseFlush"
        BY <3>3, <2>1 DEF LockOK, ReadingLabels, WritingLabels
      <3>5. pendingPackets' = pendingPackets
        BY <1>2, <3>4, WhoWrites
      <3>6. Cached(hand[u].guid)'
        BY <1>2, <3>1, <3>2, CachedStays DEF Cached
      <3> QED
        BY <3>1, <3>2, <3>5, <3>6 DEF HasPending
    <2>2. CASE u = t /\ ResponseUpdate(t)
      <3>1. hand'[t] = hand[t] /\ pendingPackets' = pendingPackets
        BY <2>2 DEF ResponseUpdate
      <3>2. pc'[t] = "responseFlush" =>
              /\ HasPending(hand[t].guid)
              /\ guidNas' = WithInfo(hand[t].guid, [na |-> hand[t].na, version |-> hand[t].version])
        BY <2>2, CacheAssumption DEF ResponseUpdate, Step, Goto, TypeOK
      <3> QED
        BY <1>2, <2>2, <3>1, <3>2 DEF WithInfo, Cached, HasPending
    <2>3. CASE u = t /\ ResponseFlush(t)
      <3> DEFINE g     == hand[t].guid
                 batch == pendingPackets[g]
      <3>1. pc[t] = "responseFlush" /\ g \in Guids
        BY <2>3 DEF ResponseFlush, Step, HandOK, ResponsePacket
      <3>2. HasPending(g) /\ Cached(g)
        BY <3>1 DEF FlushOK
      <3>3. hand' = hand /\ guidNas' = guidNas
        BY <2>3 DEF ResponseFlush
      <3>4. pendingPackets'[g] = Tail(batch)
        BY <2>3, <3>1 DEF ResponseFlush, TypeOK
      <3>5. Len(batch) # 1
        BY <1>2, <2>3 DEF ResponseFlush, Step, Goto, TypeOK
      <3>6. batch \in Seq(DataPacket) /\ batch # <<>>
        BY <3>1, <3>2 DEF TypeOK, HasPending
      <3>7. Tail(batch) # <<>>
        BY <3>5, <3>6, TailEmpty
      <3> QED
        BY <2>3, <3>2, <3>3, <3>4, <3>7 DEF HasPending, Cached
    <2>4. CASE u = t /\ ~ResponseUpdate(t) /\ ~ResponseFlush(t)
      BY <1>2, <2>4 DEF Push, Handle, Step, Goto, TypeOK, DataArrive, RequestArrive,
         ResponseDuplicate, ResponseArrive, DataHit, DataMiss, DataLockPending, DataHold,
         DataRelease, RequestHit, RequestMiss, RequestRelease, ResponseLock,
         ResponseRelease, Emit
    <2> QED
      BY <2>1, <2>2, <2>3, <2>4
  <1> QED
    BY <1>1, <1>2 DEF Next, FlushOK

LEMMA MissStep ==
  ASSUME TypeOK, HandOK, LockOK, MissOK, [Next]_vars
  PROVE  MissOK'
  <1>1. CASE UNCHANGED vars
    BY <1>1 DEF vars, MissOK, Cached
  <1>2. ASSUME NEW t \in Threads, Push(t) \/ Handle(t),
               NEW u \in Threads, pc'[u] \in {"dataLockPending", "dataHold"}
        PROVE  ~Cached(hand[u].guid)'
    <2>1. CASE u # t
      <3>1. pc[u] \in {"dataLockPending", "dataHold"} /\ hand'[u] = hand[u]
        BY <1>2, <2>1, OthersUntouched
      <3>2. u \in cacheReaders
        BY <3>1 DEF LockOK, ReadingLabels
      <3>3. pc[t] # "responseUpdate"
        BY <3>2, CacheAssumption DEF LockOK, WritingLabels
      <3>4. guidNas' = guidNas
        BY <1>2, <3>3, WhoWrites
      <3> QED
        BY <3>1, <3>4 DEF MissOK, Cached
    <2>2. CASE u = t
      <3>1. \/ DataMiss(t) \/ DataLockPending(t)
        BY <1>2, <2>2 DEF Push, Handle, Step, Goto, TypeOK, DataArrive, RequestArrive,
           ResponseDuplicate, ResponseArrive, DataHit, DataHold,
           DataRelease, RequestHit, RequestMiss, RequestRelease, ResponseLock,
           ResponseUpdate, ResponseFlush, ResponseRelease, Emit
      <3>2. hand' = hand /\ guidNas' = guidNas
        BY <3>1 DEF DataMiss, DataLockPending, tableVars
      <3>3. ~Cached(hand[t].guid)
        BY <3>1 DEF DataMiss, DataLockPending, MissOK, Step
      <3> QED
        BY <2>2, <3>2, <3>3 DEF Cached
    <2> QED
      BY <2>1, <2>2
  <1> QED
    BY <1>1, <1>2 DEF Next, MissOK

-----------------------------------------------------------------------------

IndInv == TypeOK /\ HandOK /\ LockOK /\ FlushOK /\ MissOK

LEMMA InitInv == Init => IndInv
  <1> SUFFICES ASSUME Init PROVE IndInv
    OBVIOUS
  <1>1. TypeOK /\ HandOK
    BY InitType
  <1>2. LockOK /\ FlushOK /\ MissOK
    BY CacheAssumption
    DEF Init, LockOK, FlushOK, MissOK, ReadingLabels, WritingLabels
  <1> QED
    BY <1>1, <1>2 DEF IndInv

LEMMA NextInv == IndInv /\ [Next]_vars => IndInv'
  <1> SUFFICES ASSUME IndInv, [Next]_vars PROVE IndInv'
    OBVIOUS
  <1>1. TypeOK' /\ HandOK'
    <2>1. CASE UNCHANGED vars
      BY <2>1 DEF vars, IndInv, TypeOK, HandOK
    <2>2. ASSUME NEW t \in Threads, Push(t) \/ Handle(t)
          PROVE  TypeOK' /\ HandOK'
      BY <2>2, DataStepType, RequestStepType, ResponseStepType, EmitType
      DEF IndInv, Push, Handle
    <2> QED
      BY <2>1, <2>2 DEF Next
  <1>2. LockOK' /\ FlushOK' /\ MissOK'
    BY LockStep, FlushStep, MissStep DEF IndInv
  <1> QED
    BY <1>1, <1>2 DEF IndInv

LEMMA Invariance == Spec => []IndInv
  BY InitInv, NextInv, PTL DEF Spec

(* Every variable keeps its type; in particular the response handler never *)
(* takes the first packet of an empty batch.                               *)
THEOREM TypeCorrect == Spec => []TypeOK
  <1>1. IndInv => TypeOK
    BY DEF IndInv
  <1> QED
    BY <1>1, Invariance, PTL

(* The batches are never in the hands of two threads, although the         *)
(* response handler does not take _pendingPacketsLock.                     *)
THEOREM BatchesSafe == Spec => []BatchesNotShared
  <1>1. IndInv => BatchesNotShared
    <2> SUFFICES ASSUME IndInv, NEW t \in Threads, NEW u \in Threads,
                        pc[t] \in {"dataHold", "responseUpdate", "responseFlush"},
                        pc[u] \in {"dataHold", "responseUpdate", "responseFlush"}
                 PROVE  t = u
      BY DEF BatchesNotShared
    <2> QED
      BY CacheAssumption DEF IndInv, LockOK, ReadingLabels, WritingLabels
  <1> QED
    BY <1>1, Invariance, PTL

-----------------------------------------------------------------------------
(* The cache only moves to newer versions.                                 *)

LEMMA EntryStep == IndInv /\ [Next]_vars => EntryOnlyNewer
  <1> SUFFICES ASSUME IndInv, [Next]_vars, NEW g \in DOMAIN guidNas
               PROVE  /\ g \in DOMAIN guidNas'
                      /\ guidNas'[g] = guidNas[g] \/ guidNas'[g].version > guidNas[g].version
    BY DEF EntryOnlyNewer
  <1>1. CASE guidNas' = guidNas
    BY <1>1
  <1>2. CASE guidNas' # guidNas
    <2>1. PICK t \in Threads : ResponseUpdate(t)
      BY <1>2, WhoWrites DEF Next, vars, IndInv
    <2> DEFINE r   == hand[t]
               new == [na |-> r.na, version |-> r.version]
    <2>2. \/ guidNas' = WithInfo(r.guid, new) /\ r.version > InfoOf(r.guid).version
          \/ guidNas' = WithInfo(r.guid, InfoOf(r.guid))
      BY <1>2, <2>1, Zenon DEF ResponseUpdate
    <2>3. CASE g = r.guid
      <3>1. InfoOf(g) = guidNas[g]
        BY DEF InfoOf, Cached
      <3> QED
        BY <2>2, <2>3, <3>1 DEF WithInfo
    <2>4. CASE g # r.guid
      BY <2>2, <2>4 DEF WithInfo
    <2> QED
      BY <2>3, <2>4
  <1> QED
    BY <1>1, <1>2

(* Whatever the order, the copies and the delays of the responses, a       *)
(* cached GUID stays cached and its entry changes only to a newer version. *)
THEOREM CacheMovesForward == Spec => CacheOnlyNewer
  BY EntryStep, Invariance, PTL DEF Spec, CacheOnlyNewer

-----------------------------------------------------------------------------
(* No lost wakeup.                                                         *)

LEMMA HeldStep ==
  ASSUME 0 \notin Versions, IndInv, HeldOnlyIfUnknown, [Next]_vars
  PROVE  HeldOnlyIfUnknown'
  <1> SUFFICES ASSUME NEW g \in Guids, HasPending(g)', Cached(g)'
               PROVE  (\E t \in Threads : Flushing(t, g))'
    BY DEF HeldOnlyIfUnknown
  <1>1. CASE UNCHANGED vars
    BY <1>1 DEF vars, HeldOnlyIfUnknown, HasPending, Cached, Flushing
  <1>2. ASSUME NEW t \in Threads, Push(t) \/ Handle(t)
        PROVE  (\E u \in Threads : Flushing(u, g))'
    <2>1. CASE DataHold(t)
      <3>1. hand[t].guid # g
        <4>1. ~Cached(hand[t].guid)
          BY <2>1 DEF DataHold, Step, IndInv, MissOK
        <4> QED
          BY <4>1, <2>1 DEF DataHold, Cached
      <3>2. HasPending(g) /\ Cached(g)
        BY <2>1, <3>1 DEF DataHold, HasPending, Cached, IndInv, TypeOK
      <3>3. PICK u \in Threads : Flushing(u, g)
        BY <3>2 DEF HeldOnlyIfUnknown
      <3>4. u # t
        BY <2>1, <3>3 DEF DataHold, Step, Flushing
      <3>5. pc'[u] = pc[u] /\ hand'[u] = hand[u]
        BY <1>2, <3>4, OthersUntouched DEF IndInv
      <3> QED
        BY <3>3, <3>5 DEF Flushing
    <2>2. CASE ResponseUpdate(t)
      <3> DEFINE r == hand[t]
      <3>1. r \in ResponsePacket /\ r.version \in Versions
        BY <2>2 DEF ResponseUpdate, Step, IndInv, HandOK
      <3>2. HasPending(g)
        BY <2>2 DEF ResponseUpdate, HasPending
      <3>3. CASE Cached(g)
        <4>1. PICK u \in Threads : Flushing(u, g)
          BY <3>2, <3>3 DEF HeldOnlyIfUnknown
        <4>2. cacheWriter = u /\ cacheWriter = t
          BY <2>2, <4>1 DEF ResponseUpdate, Step, Flushing, IndInv, LockOK, WritingLabels
        <4> QED
          BY <2>2, <4>1, <4>2 DEF ResponseUpdate, Step, Flushing
      <3>4. CASE ~Cached(g)
        <4>1. g = r.guid
          BY <2>2, <3>4, Zenon DEF ResponseUpdate, WithInfo, Cached
        <4>2. r.version > InfoOf(g).version
          <5>1. r.version \in Nat /\ r.version # 0
            BY <3>1, CacheAssumption
          <5>2. InfoOf(g).version = 0
            BY <3>4 DEF InfoOf
          <5> QED
            BY <5>1, <5>2
        <4>3. pc'[t] = "responseFlush" /\ hand'[t] = hand[t]
          BY <2>2, <3>2, <4>1, <4>2 DEF ResponseUpdate, Step, Goto, IndInv, TypeOK
        <4> QED
          BY <4>1, <4>3 DEF Flushing
      <3> QED
        BY <3>3, <3>4
    <2>3. CASE ResponseFlush(t)
      <3>1. CASE hand[t].guid = g
        <4>1. pc'[t] = "responseFlush" \/ Len(pendingPackets[g]) = 1
          BY <2>3, <3>1 DEF ResponseFlush, Step, Goto, IndInv, TypeOK
        <4>2. Len(pendingPackets[g]) # 1
          <5>1. pendingPackets'[g] = Tail(pendingPackets[g])
            BY <2>3, <3>1 DEF ResponseFlush, IndInv, TypeOK
          <5>2. pendingPackets[g] \in Seq(DataPacket) /\ pendingPackets[g] # <<>>
            BY <2>3, <3>1 DEF ResponseFlush, Step, IndInv, TypeOK, FlushOK, HasPending
          <5> QED
            BY <5>1, <5>2, TailEmpty DEF HasPending
        <4>3. hand'[t] = hand[t]
          BY <2>3 DEF ResponseFlush
        <4> QED
          BY <3>1, <4>1, <4>2, <4>3 DEF Flushing
      <3>2. CASE hand[t].guid # g
        <4>1. HasPending(g) /\ Cached(g)
          BY <2>3, <3>2 DEF ResponseFlush, HasPending, Cached, IndInv, TypeOK
        <4>2. PICK u \in Threads : Flushing(u, g)
          BY <4>1 DEF HeldOnlyIfUnknown
        <4>3. u # t
          BY <3>2, <4>2 DEF Flushing
        <4> QED
          BY <1>2, <4>2, <4>3, OthersUntouched DEF Flushing, IndInv
      <3> QED
        BY <3>1, <3>2
    <2>4. CASE ~DataHold(t) /\ ~ResponseUpdate(t) /\ ~ResponseFlush(t)
      <3>1. guidNas' = guidNas /\ pendingPackets' = pendingPackets
        BY <1>2, <2>4, WhoWrites DEF IndInv
      <3>2. PICK u \in Threads : Flushing(u, g)
        BY <3>1 DEF HeldOnlyIfUnknown, HasPending, Cached
      <3>3. pc'[u] = pc[u] /\ hand'[u] = hand[u]
        <4>1. CASE u # t
          BY <1>2, <4>1, OthersUntouched DEF IndInv
        <4>2. CASE u = t
          BY <1>2, <2>4, <3>2, <4>2 DEF Flushing, Push, Handle, Step, DataArrive,
             RequestArrive, ResponseDuplicate, ResponseArrive, DataHit, DataMiss,
             DataLockPending, DataRelease, RequestHit, RequestMiss, RequestRelease,
             ResponseLock, ResponseRelease, Emit
        <4> QED
          BY <4>1, <4>2
      <3> QED
        BY <3>2, <3>3 DEF Flushing
    <2> QED
      BY <2>1, <2>2, <2>3, <2>4
  <1> QED
    BY <1>1, <1>2 DEF Next

(* If no response carries version 0, a packet is never held for a cached   *)
(* GUID, except by the handler that is emitting the batch.                 *)
THEOREM NoLostWakeup ==
  ASSUME 0 \notin Versions
  PROVE  Spec => []HeldOnlyIfUnknown
  <1>1. Init => HeldOnlyIfUnknown
    BY DEF Init, HeldOnlyIfUnknown, HasPending
  <1>2. IndInv /\ HeldOnlyIfUnknown /\ [Next]_vars => HeldOnlyIfUnknown'
    BY HeldStep
  <1> QED
    BY <1>1, <1>2, Invariance, PTL DEF Spec

-----------------------------------------------------------------------------
(* One request per GUID.                                                   *)

IsOwn(x, g) ==
  x # None /\ x.kind = "request" /\ x.srcNa = MyNa /\ x.guid = g

InSight(x) == (\E t \in Threads : hand[t] = x) \/ (\E s \in out : s.packet = x)

LEMMA OwnIsInSight ==
  ASSUME TypeOK, NEW g, NEW x
  PROVE  x \in OwnRequests(g) <=> InSight(x) /\ IsOwn(x, g)
  <1>1. \A s \in out : s.packet # None
    BY CacheAssumption DEF TypeOK
  <1> QED
    BY <1>1 DEF OwnRequests, InSight, IsOwn

(* A thread that swaps a packet that is no request of this router for      *)
(* another one leaves the requests as they were, and so does one that      *)
(* pushes such a packet.                                                   *)
LEMMA OwnSame ==
  ASSUME TypeOK, TypeOK', NEW g, NEW t \in Threads, NEW y, NEW sent,
         hand' = [hand EXCEPT ![t] = y],
         out' = out \/ (out' = out \cup {sent} /\ ~IsOwn(sent.packet, g)),
         y = hand[t] \/ (~IsOwn(hand[t], g) /\ ~IsOwn(y, g))
  PROVE  OwnRequests(g)' = OwnRequests(g)
  <1> SUFFICES ASSUME NEW x PROVE x \in OwnRequests(g)' <=> x \in OwnRequests(g)
    BY Zenon
  <1>1. x \in OwnRequests(g) <=> InSight(x) /\ IsOwn(x, g)
    BY OwnIsInSight
  <1>2. \A s \in out' : s.packet # None
    BY CacheAssumption DEF TypeOK
  <1>3. x \in OwnRequests(g)' <=> InSight(x)' /\ IsOwn(x, g)
    BY <1>2 DEF OwnRequests, InSight, IsOwn
  <1>4. IsOwn(x, g) => (InSight(x)' <=> InSight(x))
    BY DEF InSight, TypeOK
  <1> QED
    BY <1>1, <1>3, <1>4

LEMMA OwnStep ==
  ASSUME IndInv, IndInv', NEW t \in Threads, Push(t) \/ Handle(t), NEW g \in Guids,
         ~(DataHold(t) /\ hand[t].guid = g /\ ~HasPending(g))
  PROVE  OwnRequests(g)' = OwnRequests(g)
  <1> USE DEF IndInv
  <1>0. hand = [hand EXCEPT ![t] = hand[t]]
    BY DEF TypeOK
  <1>1. ASSUME hand' = hand, out' = out PROVE OwnRequests(g)' = OwnRequests(g)
    BY <1>1 DEF OwnRequests
  <1>2. ASSUME NEW in \in DataInputs, DataArrive(t, in)
        PROVE  OwnRequests(g)' = OwnRequests(g)
    <2> DEFINE y == [kind |-> "data", id |-> arrived'["data"],
                     guid |-> in.guid, dstNa |-> in.dstNa]
    <2>1. hand[t] = None /\ ~IsOwn(y, g)
      BY <1>2 DEF DataArrive, Step, HandOK, IsOwn
    <2>2. hand' = [hand EXCEPT ![t] = y] /\ out' = out
      BY <1>2 DEF DataArrive, Take
    <2> QED
      BY <2>1, <2>2, OwnSame DEF IsOwn
  <1>3. ASSUME NEW in \in RequestInputs, RequestArrive(t, in)
        PROVE  OwnRequests(g)' = OwnRequests(g)
    <2> DEFINE y == [kind |-> "request", id |-> arrived'["request"],
                     guid |-> in.guid, srcNa |-> in.srcNa, dstNa |-> in.dstNa]
    <2>1. hand[t] = None /\ ~IsOwn(y, g)
      BY <1>3, CacheAssumption DEF RequestArrive, Step, HandOK, IsOwn
    <2>2. hand' = [hand EXCEPT ![t] = y] /\ out' = out
      BY <1>3 DEF RequestArrive, Take
    <2> QED
      BY <2>1, <2>2, OwnSame DEF IsOwn
  <1>4. ASSUME NEW in \in ResponseInputs, ResponseArrive(t, in)
        PROVE  OwnRequests(g)' = OwnRequests(g)
    <2> DEFINE y == [kind |-> "response", id |-> arrived'["response"],
                     guid |-> in.guid, srcNa |-> in.srcNa, dstNa |-> in.dstNa,
                     na |-> in.na, version |-> in.version, nonce |-> in.nonce]
    <2>1. hand[t] = None /\ ~IsOwn(y, g)
      BY <1>4 DEF ResponseArrive, Step, HandOK, IsOwn
    <2>2. hand' = [hand EXCEPT ![t] = y] /\ out' = out
      BY <1>4 DEF ResponseArrive, Take
    <2> QED
      BY <2>1, <2>2, OwnSame DEF IsOwn
  <1>5. CASE DataHit(t)
    <2> DEFINE y == [hand[t] EXCEPT !.dstNa = guidNas[hand[t].guid].na]
    <2>1. hand[t] \in DataPacket
      BY <1>5 DEF DataHit, Step, HandOK
    <2>2. ~IsOwn(hand[t], g) /\ ~IsOwn(y, g)
      BY <2>1 DEF DataPacket, IsOwn
    <2>3. hand' = [hand EXCEPT ![t] = y] /\ out' = out
      BY <1>5 DEF DataHit, TypeOK
    <2> QED
      BY <2>2, <2>3, OwnSame
  <1>6. CASE DataHold(t)
    <2>1. hand[t] \in DataPacket
      BY <1>6 DEF DataHold, Step, HandOK
    <2> DEFINE y == IF HasPending(hand[t].guid) THEN None ELSE RequestFor(hand[t])
    <2>2. ~IsOwn(hand[t], g) /\ ~IsOwn(y, g)
      BY <1>6, <2>1 DEF DataPacket, IsOwn, RequestFor
    <2>3. hand' = [hand EXCEPT ![t] = y] /\ out' = out
      BY <1>6 DEF DataHold
    <2> QED
      BY <2>2, <2>3, OwnSame
  <1>7. CASE RequestHit(t)
    <2>1. PICK nonce \in Nonces : hand' = [hand EXCEPT ![t] = ResponseTo(@, nonce)]
      BY <1>7 DEF RequestHit
    <2> DEFINE y == ResponseTo(hand[t], nonce)
    <2>2. hand[t].srcNa # MyNa /\ ~IsOwn(y, g)
      BY <1>7 DEF RequestHit, Step, HandOK, IsOwn, ResponseTo
    <2>3. hand' = [hand EXCEPT ![t] = y] /\ out' = out
      BY <1>7, <2>1 DEF RequestHit, TypeOK
    <2> QED
      BY <2>2, <2>3, OwnSame DEF IsOwn
  <1>8. CASE RequestMiss(t)
    <2> DEFINE y == [hand[t] EXCEPT !.dstNa = IF @ = EmptyNa THEN GnrsNa ELSE @]
    <2>1. hand[t] \in RequestPacket /\ hand[t].srcNa # MyNa
      BY <1>8 DEF RequestMiss, Step, HandOK
    <2>2. ~IsOwn(hand[t], g) /\ ~IsOwn(y, g)
      BY <2>1 DEF RequestPacket, IsOwn
    <2>3. hand' = [hand EXCEPT ![t] = y] /\ out' = out
      BY <1>8 DEF RequestMiss, TypeOK
    <2> QED
      BY <2>2, <2>3, OwnSame
  <1>9. CASE ResponseFlush(t)
    <2> DEFINE batch == pendingPackets[hand[t].guid]
               p     == [Head(batch) EXCEPT !.dstNa = hand[t].na]
    <2>1. batch \in Seq(DataPacket) /\ batch # <<>>
      BY <1>9 DEF ResponseFlush, Step, HandOK, FlushOK, HasPending, TypeOK, ResponsePacket
    <2>2. Head(batch) \in DataPacket
      BY <2>1
    <2>3. p.kind = "data"
      BY <2>2 DEF DataPacket
    <2>4. ~IsOwn(Sent(p).packet, g)
      BY <2>3 DEF Sent, IsOwn
    <2>5. hand' = hand /\ out' = out \cup {Sent(p)}
      BY <1>9 DEF ResponseFlush
    <2> QED
      BY <1>0, <2>4, <2>5, OwnSame
  <1>10. CASE ResponseRelease(t)
    <2> DEFINE y == IF hand[t].dstNa = MyNa THEN None ELSE hand[t]
    <2>1. hand[t].kind = "response"
      BY <1>10 DEF ResponseRelease, Step, HandOK, ResponsePacket
    <2>2. hand' = [hand EXCEPT ![t] = y] /\ out' = out
      BY <1>10 DEF ResponseRelease, TypeOK
    <2> QED
      BY <2>1, <2>2, OwnSame DEF IsOwn
  <1>11. CASE Emit(t)
    <2>1. hand[t] \in Packets /\ hand[t] # None
      BY <1>11, CacheAssumption DEF Emit, Step, HandOK
    <2>2. out' = out \cup {Sent(hand[t])} /\ hand' = [hand EXCEPT ![t] = None]
      BY <1>11 DEF Emit
    <2>3. Sent(hand[t]).packet = hand[t]
      BY DEF Sent
    <2> SUFFICES ASSUME NEW x PROVE x \in OwnRequests(g)' <=> x \in OwnRequests(g)
      BY Zenon
    <2>4. x \in OwnRequests(g) <=> InSight(x) /\ IsOwn(x, g)
      BY OwnIsInSight
    <2>5. \A s \in out' : s.packet # None
      BY CacheAssumption DEF TypeOK
    <2>6. x \in OwnRequests(g)' <=> InSight(x)' /\ IsOwn(x, g)
      BY <2>5 DEF OwnRequests, InSight, IsOwn
    <2>7. x # None => (InSight(x)' <=> InSight(x))
      BY <2>2, <2>3 DEF InSight, TypeOK
    <2> QED
      BY <2>4, <2>6, <2>7 DEF IsOwn
  <1> QED
    BY <1>1, <1>2, <1>3, <1>4, <1>5, <1>6, <1>7, <1>8, <1>9, <1>10, <1>11
    DEF Push, Handle, ResponseDuplicate, DataMiss, DataLockPending, DataRelease,
        RequestRelease, ResponseLock, ResponseUpdate

(* A packet held for a GUID without a batch is held for a GUID this router *)
(* never asked for: then its request is the only one.                      *)
LEMMA FirstHold ==
  ASSUME IndInv, IndInv', NEW t \in Threads, DataHold(t), NEW g \in Guids,
         hand[t].guid = g, ~HasPending(g), OwnRequests(g) = {}
  PROVE  OwnRequests(g)' = {RequestFor(hand[t])} /\ HasPending(g)'
  <1> USE DEF IndInv
  <1>0. PICK y : y = RequestFor(hand[t])
    OBVIOUS
  <1>1. hand' = [hand EXCEPT ![t] = y] /\ out' = out
    BY <1>0 DEF DataHold
  <1>2. hand[t] \in DataPacket /\ y \in RequestPacket
    BY <1>0, CacheAssumption
    DEF DataHold, Step, HandOK, DataPacket, RequestPacket, RequestFor, AnyNa
  <1>3. IsOwn(y, g)
    BY <1>0, <1>2, CacheAssumption DEF IsOwn, RequestFor, Packets
  <1>4. ASSUME NEW x PROVE x \in OwnRequests(g)' <=> x = y
    <2>1. ~(InSight(x) /\ IsOwn(x, g))
      BY OwnIsInSight
    <2>2. \A s \in out' : s.packet # None
      BY CacheAssumption DEF TypeOK
    <2>3. x \in OwnRequests(g)' <=> InSight(x)' /\ IsOwn(x, g)
      BY <2>2 DEF OwnRequests, InSight, IsOwn
    <2>4. InSight(x)' => x = y \/ InSight(x)
      BY <1>1 DEF InSight, TypeOK
    <2>5. InSight(y)'
      BY <1>1 DEF InSight, TypeOK
    <2> QED
      BY <1>3, <2>1, <2>3, <2>4, <2>5
  <1>5. pendingPackets'[g] = Append(pendingPackets[g], hand[t])
    BY DEF DataHold, TypeOK
  <1>6. Append(pendingPackets[g], hand[t]) # <<>>
    <2>1. pendingPackets[g] \in Seq(DataPacket)
      BY DEF TypeOK
    <2> HIDE DEF IndInv
    <2> QED
      BY <1>2, <2>1, AppendProperties
  <1> QED
    <2>1. HasPending(g)'
      BY <1>5, <1>6 DEF HasPending
    <2>2. OwnRequests(g)' = {y}
      BY <1>4, Zenon
    <2> QED
      BY <1>0, <2>1, <2>2

(* Any other step neither makes a batch nor removes one, except for a GUID *)
(* that is cached by then.                                                 *)
LEMMA BatchStays ==
  ASSUME IndInv, NEW t \in Threads, Push(t) \/ Handle(t), NEW g \in Guids,
         ~(DataHold(t) /\ hand[t].guid = g /\ ~HasPending(g))
  PROVE  /\ HasPending(g)' => HasPending(g)
         /\ HasPending(g) => HasPending(g)' \/ Cached(g)'
  <1> USE DEF IndInv
  <1>1. CASE pendingPackets' = pendingPackets
    BY <1>1 DEF HasPending
  <1>2. CASE DataHold(t)
    <2>1. pendingPackets'[g] = IF g = hand[t].guid
                                 THEN Append(pendingPackets[g], hand[t])
                                 ELSE pendingPackets[g]
      BY <1>2 DEF DataHold, TypeOK
    <2>2. hand[t] \in DataPacket
      BY <1>2 DEF DataHold, Step, HandOK
    <2>3. Append(pendingPackets[g], hand[t]) # <<>>
      BY <2>2, AppendProperties DEF TypeOK
    <2> QED
      BY <1>2, <2>1, <2>3 DEF HasPending
  <1>3. CASE ResponseFlush(t)
    <2>1. hand[t].guid \in Guids /\ HasPending(hand[t].guid) /\ Cached(hand[t].guid)
      BY <1>3 DEF ResponseFlush, Step, HandOK, FlushOK, ResponsePacket
    <2>2. g # hand[t].guid => pendingPackets'[g] = pendingPackets[g]
      BY <1>3 DEF ResponseFlush, TypeOK
    <2>3. guidNas' = guidNas
      BY <1>3 DEF ResponseFlush
    <2> QED
      BY <2>1, <2>2, <2>3 DEF HasPending, Cached
  <1> QED
    BY <1>1, <1>2, <1>3, WhoWrites

(* A GUID has been asked for exactly when it has a batch, or had one and   *)
(* is cached since.                                                        *)
RequestOK ==
  \A g \in Guids :
    /\ \A p, q \in OwnRequests(g) : p = q
    /\ HasPending(g) => OwnRequests(g) # {}
    /\ OwnRequests(g) # {} => HasPending(g) \/ Cached(g)

LEMMA RequestOKStep ==
  ASSUME IndInv, IndInv', RequestOK, [Next]_vars
  PROVE  RequestOK'
  <1>1. CASE UNCHANGED vars
    BY <1>1 DEF vars, RequestOK, OwnRequests, HasPending, Cached
  <1>2. ASSUME NEW t \in Threads, Push(t) \/ Handle(t), NEW g \in Guids
        PROVE  /\ \A p, q \in OwnRequests(g)' : p = q
               /\ HasPending(g)' => OwnRequests(g)' # {}
               /\ OwnRequests(g)' # {} => HasPending(g)' \/ Cached(g)'
    <2>1. CASE DataHold(t) /\ hand[t].guid = g /\ ~HasPending(g)
      <3>1. ~Cached(g)
        BY <2>1 DEF DataHold, Step, IndInv, MissOK
      <3>2. OwnRequests(g) = {}
        BY <2>1, <3>1 DEF RequestOK
      <3> QED
        BY <2>1, <3>2, FirstHold
    <2>2. CASE ~(DataHold(t) /\ hand[t].guid = g /\ ~HasPending(g))
      <3>1. OwnRequests(g)' = OwnRequests(g)
        BY <1>2, <2>2, OwnStep
      <3>2. /\ HasPending(g)' => HasPending(g)
            /\ HasPending(g) => HasPending(g)' \/ Cached(g)'
        BY <1>2, <2>2, BatchStays
      <3>3. Cached(g) => Cached(g)'
        BY <1>2, CachedStays DEF IndInv
      <3> QED
        BY <3>1, <3>2, <3>3 DEF RequestOK
    <2> QED
      BY <2>1, <2>2
  <1> QED
    BY <1>1, <1>2 DEF Next, RequestOK

(* A router asks the GNRS for a GUID at most once, whatever its threads    *)
(* do, and it has asked if it holds packets for the GUID.                  *)
THEOREM AskedOnce == Spec => []RequestedOnce
  <1>1. Init => RequestOK
    BY DEF Init, RequestOK, OwnRequests, HasPending
  <1>2. IndInv /\ IndInv' /\ RequestOK /\ [Next]_vars => RequestOK'
    BY RequestOKStep
  <1>3. RequestOK => RequestedOnce
    BY DEF RequestOK, RequestedOnce
  <1> QED
    BY <1>1, <1>2, <1>3, Invariance, PTL DEF Spec

-----------------------------------------------------------------------------
(* No address 0 spreads.                                                   *)

(* The packet may be emitted: it has an address, or tells one.             *)
Fit(p) ==
  /\ p.kind = "data" => p.dstNa \in NAs
  /\ p.kind = "response" => p.na \in NAs

(* In these places the packet of a thread is, or may become, one to emit.  *)
FitLabels ==
  {"dataRelease", "requestRelease", "responseLock", "responseUpdate", "responseFlush",
   "responseRelease", "emit"}

AddressOK ==
  /\ \A g \in DOMAIN guidNas : guidNas[g].na \in NAs
  /\ \A t \in Threads : pc[t] \in FitLabels /\ hand[t] # None => Fit(hand[t])
  /\ \A s \in out : Fit(s.packet)

(* A default entry is not left behind: where one is made, version 0, the   *)
(* response is newer.                                                      *)
LEMMA UpdateAddress ==
  ASSUME 0 \notin Versions, IndInv, AddressOK, NEW t \in Threads, ResponseUpdate(t)
  PROVE  \A g \in DOMAIN guidNas' : guidNas'[g].na \in NAs
  <1> DEFINE r == hand[t]
             mandatory == HasPending(r.guid) \/ r.dstNa = MyNa
             updated   == /\ mandatory \/ Cached(r.guid)
                          /\ r.version > InfoOf(r.guid).version
  <1>1. r \in ResponsePacket /\ r.version \in Versions /\ r # None
    BY CacheAssumption DEF ResponseUpdate, Step, IndInv, HandOK, Packets
  <1>2. r.na \in NAs
    BY <1>1 DEF ResponseUpdate, Step, AddressOK, FitLabels, Fit, ResponsePacket
  <1>3. ASSUME mandatory, ~Cached(r.guid) PROVE r.version > InfoOf(r.guid).version
    <2>1. r.version \in Nat /\ r.version # 0
      BY <1>1, CacheAssumption
    <2>2. InfoOf(r.guid).version = 0
      BY <1>3 DEF InfoOf
    <2> QED
      BY <2>1, <2>2
  <1>4. \/ guidNas' = WithInfo(r.guid, [na |-> r.na, version |-> r.version])
        \/ Cached(r.guid) /\ guidNas' = WithInfo(r.guid, guidNas[r.guid])
        \/ guidNas' = guidNas
    BY <1>3 DEF ResponseUpdate, InfoOf
  <1>5. CASE guidNas' = WithInfo(r.guid, [na |-> r.na, version |-> r.version])
    BY <1>2, <1>5 DEF AddressOK, WithInfo
  <1>6. CASE Cached(r.guid) /\ guidNas' = WithInfo(r.guid, guidNas[r.guid])
    BY <1>6 DEF AddressOK, WithInfo, Cached
  <1>7. CASE guidNas' = guidNas
    BY <1>7 DEF AddressOK
  <1> QED
    BY <1>4, <1>5, <1>6, <1>7

LEMMA AddressStep ==
  ASSUME 0 \notin Versions, IndInv, AddressOK, NEW t \in Threads, Push(t) \/ Handle(t)
  PROVE  AddressOK'
  <1> USE DEF IndInv
  (* A step that leaves the cache as it is, gives the thread a fit packet  *)
  (* where it matters and emits at most one that is fit.                   *)
  <1>0. ASSUME guidNas' = guidNas, NEW y, NEW l, NEW sent,
               hand' = [hand EXCEPT ![t] = y], pc' = [pc EXCEPT ![t] = l],
               l \in FitLabels /\ y # None => Fit(y),
               out' = out \/ (out' = out \cup {sent} /\ Fit(sent.packet))
        PROVE  AddressOK'
    BY <1>0 DEF AddressOK, TypeOK, Fit
  <1>00. hand = [hand EXCEPT ![t] = hand[t]] /\ pc = [pc EXCEPT ![t] = pc[t]]
    BY DEF TypeOK
  <1>1. ASSUME NEW in \in DataInputs, DataArrive(t, in) PROVE AddressOK'
    <2> DEFINE y == [kind |-> "data", id |-> arrived'["data"],
                     guid |-> in.guid, dstNa |-> in.dstNa]
               l == IF in.dstNa = EmptyNa THEN "dataLookup" ELSE "emit"
    <2>1. l \in FitLabels => Fit(y)
      BY CacheAssumption DEF FitLabels, Fit
    <2>2. /\ hand' = [hand EXCEPT ![t] = y] /\ pc' = [pc EXCEPT ![t] = l]
          /\ out' = out /\ guidNas' = guidNas
      BY <1>1 DEF DataArrive, Step, Goto, Take, tableVars
    <2> QED
      BY <1>0, <2>1, <2>2
  <1>2. ASSUME NEW in \in RequestInputs, RequestArrive(t, in) PROVE AddressOK'
    <2> DEFINE y == [kind |-> "request", id |-> arrived'["request"],
                     guid |-> in.guid, srcNa |-> in.srcNa, dstNa |-> in.dstNa]
    <2>1. Fit(y)
      BY DEF Fit
    <2>2. /\ hand' = [hand EXCEPT ![t] = y] /\ pc' = [pc EXCEPT ![t] = "requestLookup"]
          /\ out' = out /\ guidNas' = guidNas
      BY <1>2 DEF RequestArrive, Step, Goto, Take, tableVars
    <2> QED
      BY <1>0, <2>1, <2>2
  <1>3. ASSUME NEW in \in ResponseInputs, ResponseArrive(t, in) PROVE AddressOK'
    <2> DEFINE y == [kind |-> "response", id |-> arrived'["response"],
                     guid |-> in.guid, srcNa |-> in.srcNa, dstNa |-> in.dstNa,
                     na |-> in.na, version |-> in.version, nonce |-> in.nonce]
    <2>1. Fit(y)
      BY CacheAssumption DEF Fit
    <2>2. /\ hand' = [hand EXCEPT ![t] = y] /\ pc' = [pc EXCEPT ![t] = "responseLock"]
          /\ out' = out /\ guidNas' = guidNas
      BY <1>3 DEF ResponseArrive, Step, Goto, Take, tableVars
    <2> QED
      BY <1>0, <2>1, <2>2
  <1>4. CASE DataHit(t)
    <2> DEFINE y == [hand[t] EXCEPT !.dstNa = guidNas[hand[t].guid].na]
    <2>1. hand[t] \in DataPacket /\ guidNas[hand[t].guid].na \in NAs
      BY <1>4 DEF DataHit, Step, HandOK, Cached, AddressOK
    <2>2. Fit(y)
      BY <2>1 DEF Fit, DataPacket
    <2>3. /\ hand' = [hand EXCEPT ![t] = y] /\ pc' = [pc EXCEPT ![t] = "dataRelease"]
          /\ out' = out /\ guidNas' = guidNas
      BY <1>4 DEF DataHit, Step, Goto, TypeOK, tableVars
    <2> QED
      BY <1>0, <2>2, <2>3
  <1>5. CASE DataHold(t)
    <2> DEFINE y == IF HasPending(hand[t].guid) THEN None ELSE RequestFor(hand[t])
    <2>1. y # None => Fit(y)
      BY DEF Fit, RequestFor
    <2>2. /\ hand' = [hand EXCEPT ![t] = y] /\ pc' = [pc EXCEPT ![t] = "dataRelease"]
          /\ out' = out /\ guidNas' = guidNas
      BY <1>5 DEF DataHold, Step, Goto
    <2> QED
      BY <1>0, <2>1, <2>2
  <1>6. CASE RequestHit(t)
    <2>1. PICK nonce \in Nonces : hand' = [hand EXCEPT ![t] = ResponseTo(@, nonce)]
      BY <1>6 DEF RequestHit
    <2> DEFINE y == ResponseTo(hand[t], nonce)
    <2>2. Fit(y)
      BY <1>6 DEF RequestHit, Cached, AddressOK, Fit, ResponseTo
    <2>3. /\ hand' = [hand EXCEPT ![t] = y] /\ pc' = [pc EXCEPT ![t] = "requestRelease"]
          /\ out' = out /\ guidNas' = guidNas
      BY <1>6, <2>1 DEF RequestHit, Step, Goto, TypeOK, tableVars
    <2> QED
      BY <1>0, <2>2, <2>3
  <1>7. CASE RequestMiss(t)
    <2> DEFINE y == [hand[t] EXCEPT !.dstNa = IF @ = EmptyNa THEN GnrsNa ELSE @]
    <2>1. hand[t] \in RequestPacket
      BY <1>7 DEF RequestMiss, Step, HandOK
    <2>2. Fit(y)
      BY <2>1 DEF Fit, RequestPacket
    <2>3. /\ hand' = [hand EXCEPT ![t] = y] /\ pc' = [pc EXCEPT ![t] = "requestRelease"]
          /\ out' = out /\ guidNas' = guidNas
      BY <1>7 DEF RequestMiss, Step, Goto, TypeOK, tableVars
    <2> QED
      BY <1>0, <2>2, <2>3
  <1>8. CASE ResponseUpdate(t)
    <2>1. \A g \in DOMAIN guidNas' : guidNas'[g].na \in NAs
      BY <1>8, UpdateAddress
    <2>2. Fit(hand[t])
      <3>1. hand[t] \in ResponsePacket /\ hand[t] # None
        BY <1>8, CacheAssumption DEF ResponseUpdate, Step, HandOK, Packets
      <3> QED
        BY <1>8, <3>1 DEF ResponseUpdate, Step, AddressOK, FitLabels
    <2>3. hand' = hand /\ out' = out /\ \A u \in Threads \ {t} : pc'[u] = pc[u]
      BY <1>8 DEF ResponseUpdate, Step, Goto, TypeOK
    <2> QED
      BY <2>1, <2>2, <2>3 DEF AddressOK, Fit
  <1>9. CASE ResponseFlush(t)
    <2> DEFINE batch == pendingPackets[hand[t].guid]
               p     == [Head(batch) EXCEPT !.dstNa = hand[t].na]
               l     == IF Len(batch) = 1 THEN "responseRelease" ELSE "responseFlush"
    <2>1. hand[t] \in ResponsePacket /\ hand[t] # None
      BY <1>9, CacheAssumption DEF ResponseFlush, Step, HandOK, Packets
    <2>2. Fit(hand[t]) /\ hand[t].na \in NAs
      BY <1>9, <2>1 DEF ResponseFlush, Step, AddressOK, FitLabels, Fit, ResponsePacket
    <2>3. batch \in Seq(DataPacket) /\ batch # <<>>
      BY <1>9, <2>1 DEF ResponseFlush, Step, FlushOK, HasPending, TypeOK, ResponsePacket
    <2>4. Head(batch) \in DataPacket
      BY <2>3
    <2>5. Fit(Sent(p).packet)
      BY <2>2, <2>4 DEF DataPacket, Fit, Sent
    <2>6. /\ hand' = hand /\ pc' = [pc EXCEPT ![t] = l]
          /\ out' = out \cup {Sent(p)} /\ guidNas' = guidNas
      BY <1>9 DEF ResponseFlush, Step, Goto
    <2> HIDE DEF p, l
    <2> QED
      BY <1>0, <1>00, <2>2, <2>5, <2>6
  <1>10. CASE ResponseRelease(t)
    <2> DEFINE y == IF hand[t].dstNa = MyNa THEN None ELSE hand[t]
               l == IF hand[t].dstNa = MyNa THEN "idle" ELSE "emit"
    <2>1. hand[t] # None => Fit(hand[t])
      BY <1>10 DEF ResponseRelease, Step, AddressOK, FitLabels
    <2>2. /\ hand' = [hand EXCEPT ![t] = y] /\ pc' = [pc EXCEPT ![t] = l]
          /\ out' = out /\ guidNas' = guidNas
      BY <1>10 DEF ResponseRelease, Step, Goto, TypeOK, tableVars
    <2> QED
      BY <1>0, <2>1, <2>2
  <1>11. CASE Emit(t)
    <2>1. hand[t] \in Packets /\ hand[t] # None
      BY <1>11, CacheAssumption DEF Emit, Step, HandOK
    <2>2. Fit(hand[t])
      BY <1>11, <2>1 DEF Emit, Step, AddressOK, FitLabels
    <2>3. /\ hand' = [hand EXCEPT ![t] = None] /\ pc' = [pc EXCEPT ![t] = "idle"]
          /\ out' = out \cup {Sent(hand[t])} /\ guidNas' = guidNas
          /\ Sent(hand[t]).packet = hand[t]
      BY <1>11 DEF Emit, Step, Goto, tableVars, Sent
    <2> QED
      BY <1>0, <2>2, <2>3
  <1>12. CASE /\ guidNas' = guidNas /\ hand' = hand /\ out' = out
              /\ \E l : pc' = [pc EXCEPT ![t] = l] /\ (l \in FitLabels => pc[t] \in FitLabels)
    BY <1>12 DEF AddressOK, TypeOK, Fit
  <1> QED
    BY <1>00, <1>1, <1>2, <1>3, <1>4, <1>5, <1>6, <1>7, <1>8, <1>9, <1>10, <1>11, <1>12
    DEF Push, Handle, ResponseDuplicate, DataMiss, DataLockPending, DataRelease,
        RequestRelease, ResponseLock, Step, Goto, FitLabels, tableVars, TypeOK

(* If no response carries version 0, the empty NA of an entry in the       *)
(* making never gets into a data packet or an answer.                      *)
THEOREM NothingUnresolvedLeaves ==
  ASSUME 0 \notin Versions
  PROVE  Spec => []NothingUnresolved
  <1>1. Init => AddressOK
    BY DEF Init, AddressOK, FitLabels
  <1>2. IndInv /\ AddressOK /\ [Next]_vars => AddressOK'
    <2> SUFFICES ASSUME IndInv, AddressOK, [Next]_vars PROVE AddressOK'
      OBVIOUS
    <2>1. CASE UNCHANGED vars
      BY <2>1 DEF vars, AddressOK, Fit
    <2>2. ASSUME NEW t \in Threads, Push(t) \/ Handle(t) PROVE AddressOK'
      BY <2>2, AddressStep
    <2> QED
      BY <2>1, <2>2 DEF Next
  <1>3. AddressOK => NothingUnresolved
    BY DEF AddressOK, NothingUnresolved, Fit
  <1> QED
    BY <1>1, <1>2, <1>3, Invariance, PTL DEF Spec

-----------------------------------------------------------------------------
(* Answers do not go back.                                                 *)

OneRequestThread == \A t, u \in Threads : "request" \in Serves[t] \cap Serves[u] => t = u

(* An answer of this router to a request for g.                            *)
IsAnswer(x, g) ==
  x # None /\ x.kind = "response" /\ x.srcNa = MyNa /\ x.guid = g

(* An answer told no more than the cache knows since, of a request that    *)
(* came in; later requests got newer answers.                              *)
AnswerOK ==
  \A x : \A g \in Guids :
    InSight(x) /\ IsAnswer(x, g) =>
      /\ Cached(g) /\ x.version <= guidNas[g].version
      /\ x.id <= arrived["request"]
      /\ x.version \in Nat /\ x.id \in Nat
      /\ \A y : InSight(y) /\ IsAnswer(y, g) /\ x.id < y.id => x.version <= y.version

(* The only thread at the port of requests looks up the last one.  What    *)
(* comes in as a response is not from this router.                         *)
RequestThreadOK ==
  \A t \in Threads :
    /\ pc[t] \in {"requestLookup", "requestRelease"} => "request" \in Serves[t]
    /\ pc[t] = "requestLookup" => hand[t].id = arrived["request"]
    /\ pc[t] \in {"responseLock", "responseUpdate", "responseFlush", "responseRelease"}
         => hand[t].srcNa # MyNa

LEMMA RequestThreadStep ==
  ASSUME OneRequestThread, IndInv, RequestThreadOK, NEW t \in Threads, Push(t) \/ Handle(t)
  PROVE  RequestThreadOK'
  <1> USE DEF IndInv, Step, Goto
  <1>1. ASSUME NEW in \in DataInputs, DataArrive(t, in) PROVE RequestThreadOK'
    BY <1>1 DEF DataArrive, Arrive, Take, TypeOK, RequestThreadOK, Ports
  <1>2. ASSUME NEW in \in RequestInputs, RequestArrive(t, in) PROVE RequestThreadOK'
    <2>1. \A u \in Threads \ {t} : pc[u] # "requestLookup"
      BY <1>2, CacheAssumption DEF RequestArrive, Arrive, RequestThreadOK, OneRequestThread
    <2> QED
      BY <1>2, <2>1 DEF RequestArrive, Arrive, Take, TypeOK, RequestThreadOK, Ports
  <1>3. ASSUME NEW in \in ResponseInputs, ResponseArrive(t, in) \/ ResponseDuplicate(t, in)
        PROVE  RequestThreadOK'
    BY <1>3, CacheAssumption
    DEF ResponseArrive, ResponseDuplicate, Arrive, Take, TypeOK, RequestThreadOK, Ports
  <1>4. CASE DataHit(t) \/ DataMiss(t) \/ DataLockPending(t) \/ DataHold(t) \/ DataRelease(t)
    BY <1>4
    DEF DataHit, DataMiss, DataLockPending, DataHold, DataRelease, TypeOK, RequestThreadOK
  <1>5. CASE RequestHit(t) \/ RequestMiss(t) \/ RequestRelease(t)
    BY <1>5 DEF RequestHit, RequestMiss, RequestRelease, TypeOK, RequestThreadOK
  <1>6. CASE \/ ResponseLock(t) \/ ResponseUpdate(t) \/ ResponseFlush(t)
             \/ ResponseRelease(t) \/ Emit(t)
    BY <1>6
    DEF ResponseLock, ResponseUpdate, ResponseFlush, ResponseRelease, Emit, TypeOK,
        RequestThreadOK
  <1> QED
    BY <1>1, <1>2, <1>3, <1>4, <1>5, <1>6 DEF Push, Handle

(* A step that is no lookup of a request brings no new answer in sight.    *)
LEMMA NoNewAnswer ==
  ASSUME IndInv, RequestThreadOK, NEW t \in Threads, Push(t) \/ Handle(t), ~RequestHit(t),
         NEW g \in Guids, NEW x, InSight(x)', IsAnswer(x, g)
  PROVE  InSight(x)
  <1> USE DEF IndInv
  <1>1. \A u \in Threads \ {t} : hand'[u] = hand[u]
    BY OthersUntouched
  <1>2. hand'[t] = hand[t] \/ hand'[t] = None \/ ~IsAnswer(hand'[t], g)
    BY CacheAssumption
    DEF Push, Handle, Step, DataArrive, RequestArrive, ResponseArrive, ResponseDuplicate, Take,
        DataHit, DataMiss, DataLockPending, DataHold, DataRelease, RequestMiss, RequestRelease,
        ResponseLock, ResponseUpdate, ResponseFlush, ResponseRelease, Emit, TypeOK, HandOK,
        IsAnswer, RequestFor, DataPacket, RequestPacket
  <1>3. ASSUME NEW s \in out' \ out, s.packet = x PROVE InSight(x)
    <2>1. CASE Emit(t)
      BY <1>3, <2>1 DEF Emit, Sent, InSight
    <2>2. CASE ResponseFlush(t)
      <3> DEFINE batch == pendingPackets[hand[t].guid]
      <3>1. batch \in Seq(DataPacket) /\ batch # <<>>
        BY <2>2 DEF ResponseFlush, Step, HandOK, FlushOK, HasPending, TypeOK, ResponsePacket
      <3>2. Head(batch) \in DataPacket
        BY <3>1
      <3>3. x = [Head(batch) EXCEPT !.dstNa = hand[t].na]
        BY <1>3, <2>2 DEF ResponseFlush, Sent
      <3>4. x.kind = "data"
        BY <3>2, <3>3 DEF DataPacket
      <3> QED
        BY <3>4 DEF IsAnswer
    <2> QED
      BY <1>3, <2>1, <2>2
      DEF Push, Handle, DataArrive, RequestArrive, ResponseArrive, ResponseDuplicate,
          DataHit, DataMiss, DataLockPending, DataHold, DataRelease, RequestMiss,
          RequestRelease, ResponseLock, ResponseUpdate, ResponseRelease
  <1>4. ASSUME NEW u \in Threads, hand'[u] = x PROVE hand[u] = x
    <2>1. IsAnswer(hand'[u], g) /\ hand'[u] # None
      BY <1>4 DEF IsAnswer
    <2> QED
      BY <1>1, <1>2, <1>4, <2>1
  <1>5. ASSUME NEW s \in out, s.packet = x PROVE InSight(x)
    BY <1>5 DEF InSight
  <1>6. (\E u \in Threads : hand'[u] = x) \/ (\E s \in out' : s.packet = x)
    BY DEF InSight
  <1>7. CASE \E u \in Threads : hand'[u] = x
    <2>1. PICK u \in Threads : hand'[u] = x
      BY <1>7
    <2>2. hand[u] = x
      BY <1>4, <2>1
    <2> QED
      BY <2>2, Zenon DEF InSight
  <1>8. CASE \E s \in out' : s.packet = x
    <2>1. PICK s \in out' : s.packet = x
      BY <1>8
    <2>2. CASE s \in out
      BY <1>5, <2>1, <2>2
    <2>3. CASE s \notin out
      BY <1>3, <2>1, <2>3
    <2> QED
      BY <2>2, <2>3
  <1> QED
    BY <1>6, <1>7, <1>8, Zenon

(* The number of requests never falls.                                     *)
LEMMA ArrivedGrows ==
  ASSUME TypeOK, NEW t \in Threads, Push(t) \/ Handle(t)
  PROVE  arrived'["request"] \in Nat /\ arrived["request"] <= arrived'["request"]
  <1>1. arrived \in [Ports -> Nat]
    BY DEF TypeOK
  <1>2. ASSUME NEW port \in Ports, arrived' = [arrived EXCEPT ![port] = @ + 1]
        PROVE  arrived'["request"] \in Nat /\ arrived["request"] <= arrived'["request"]
    BY <1>1, <1>2 DEF Ports
  <1>3. CASE Push(t)
    <2>1. \E port \in Ports : arrived' = [arrived EXCEPT ![port] = @ + 1]
      BY <1>3 DEF Push, DataArrive, RequestArrive, ResponseArrive, ResponseDuplicate, Arrive, Ports
    <2> QED
      BY <1>2, <2>1
  <1>4. CASE Handle(t)
    <2>1. arrived' = arrived
      BY <1>4, Zenon
      DEF Handle, DataHit, DataMiss, DataLockPending, DataHold, DataRelease, RequestHit,
          RequestMiss, RequestRelease, ResponseLock, ResponseUpdate, ResponseFlush,
          ResponseRelease, Emit
    <2> QED
      BY <1>1, <2>1 DEF Ports
  <1> QED
    BY <1>3, <1>4

LEMMA AnswerStep ==
  ASSUME IndInv, IndInv', RequestThreadOK, AnswerOK, NEW t \in Threads, Push(t) \/ Handle(t)
  PROVE  AnswerOK'
  <1> USE DEF IndInv
  <1>1. /\ arrived["request"] \in Nat /\ arrived'["request"] \in Nat
        /\ arrived["request"] <= arrived'["request"]
    BY ArrivedGrows DEF TypeOK, Ports
  <1>2. ASSUME NEW g \in Guids, Cached(g)
        PROVE  /\ Cached(g)' /\ guidNas[g].version \in Nat /\ guidNas'[g].version \in Nat
               /\ guidNas[g].version <= guidNas'[g].version
    <2>1. Cached(g)' /\ (guidNas'[g] = guidNas[g] \/ guidNas'[g].version > guidNas[g].version)
      BY <1>2, EntryStep DEF Next, EntryOnlyNewer, Cached
    <2>2. guidNas[g] \in GUIDInfo /\ guidNas'[g] \in GUIDInfo
      BY <1>2, <2>1 DEF TypeOK, Cached
    <2> QED
      BY <2>1, <2>2 DEF GUIDInfo
  <1>3. CASE ~RequestHit(t)
    <2> SUFFICES ASSUME NEW g \in Guids, NEW x, InSight(x)', IsAnswer(x, g)
                 PROVE  /\ Cached(g)' /\ x.version <= guidNas'[g].version
                        /\ x.id <= arrived'["request"]
                        /\ x.version \in Nat /\ x.id \in Nat
                        /\ \A y : InSight(y)' /\ IsAnswer(y, g) /\ x.id < y.id
                                   => x.version <= y.version
      BY DEF AnswerOK, IsAnswer
    <2>1. InSight(x)
      BY <1>3, NoNewAnswer
    <2>2. /\ Cached(g) /\ x.version <= guidNas[g].version
          /\ x.id <= arrived["request"]
          /\ x.version \in Nat /\ x.id \in Nat
          /\ \A y : InSight(y) /\ IsAnswer(y, g) /\ x.id < y.id => x.version <= y.version
      BY <2>1 DEF AnswerOK
    <2>3. ASSUME NEW y, InSight(y)', IsAnswer(y, g) PROVE InSight(y)
      BY <1>3, <2>3, NoNewAnswer
    <2>4. /\ Cached(g)' /\ x.version <= guidNas'[g].version /\ x.id <= arrived'["request"]
      BY <1>1, <1>2, <2>2
    <2> QED
      BY <2>2, <2>3, <2>4
  <1>4. CASE RequestHit(t)
    <2>1. PICK nonce \in Nonces : hand' = [hand EXCEPT ![t] = ResponseTo(@, nonce)]
      BY <1>4 DEF RequestHit
    <2> DEFINE z == ResponseTo(hand[t], nonce)
    <2>2. hand[t].id = arrived["request"] /\ hand[t].guid \in Guids /\ Cached(hand[t].guid)
      BY <1>4 DEF RequestHit, Step, RequestThreadOK, HandOK, RequestPacket
    <2>3. /\ z.id = arrived["request"] /\ z.guid = hand[t].guid
          /\ z.version = guidNas[hand[t].guid].version
      BY <2>2 DEF ResponseTo
    <2>4. guidNas' = guidNas /\ out' = out /\ arrived' = arrived
      BY <1>4 DEF RequestHit, tableVars
    <2>5. ASSUME NEW x, InSight(x)' PROVE InSight(x) \/ x = z
      BY <2>1, <2>4, <2>5 DEF InSight, TypeOK
    <2> HIDE DEF z
    <2> SUFFICES ASSUME NEW g \in Guids, NEW x, InSight(x)', IsAnswer(x, g)
                 PROVE  /\ Cached(g)' /\ x.version <= guidNas'[g].version
                        /\ x.id <= arrived'["request"]
                        /\ x.version \in Nat /\ x.id \in Nat
                        /\ \A y : InSight(y)' /\ IsAnswer(y, g) /\ x.id < y.id
                                   => x.version <= y.version
      BY DEF AnswerOK, IsAnswer
    <2>6. ASSUME NEW y, InSight(y), IsAnswer(y, g)
          PROVE  /\ Cached(g) /\ y.version <= guidNas[g].version
                 /\ y.id <= arrived["request"]
                 /\ y.version \in Nat /\ y.id \in Nat
                 /\ \A u : InSight(u) /\ IsAnswer(u, g) /\ y.id < u.id => y.version <= u.version
      BY <2>6 DEF AnswerOK
    <2>7. ASSUME NEW y, y = z, IsAnswer(y, g)
          PROVE  /\ Cached(g) /\ y.version = guidNas[g].version
                 /\ y.id = arrived["request"]
                 /\ y.version \in Nat /\ y.id \in Nat
      BY <1>1, <1>2, <2>2, <2>3, <2>7 DEF IsAnswer
    <2>8. /\ Cached(g) /\ x.version <= guidNas[g].version
          /\ x.id <= arrived["request"] /\ x.version \in Nat /\ x.id \in Nat
      BY <2>5, <2>6, <2>7
    <2>9. ASSUME NEW y, InSight(y)', IsAnswer(y, g), x.id < y.id PROVE x.version <= y.version
      <3>1. CASE y = z
        BY <2>7, <2>8, <2>9, <3>1
      <3>2. CASE InSight(y) /\ InSight(x)
        BY <2>6, <2>9, <3>2
      <3>3. CASE InSight(y) /\ x = z
        BY <1>1, <2>6, <2>7, <2>9, <3>3
      <3> QED
        BY <2>5, <2>9, <3>1, <3>2, <3>3
    <2> QED
      BY <2>4, <2>8, <2>9 DEF Cached
  <1> QED
    BY <1>3, <1>4

(* With one thread at the port of requests, as in the configurations, the  *)
(* answers for a GUID never go back to an older version, whatever order    *)
(* responses come in and however the other threads interleave.             *)
THEOREM AnswersNeverGoBack ==
  ASSUME OneRequestThread
  PROVE  Spec => []AnswersGrow
  <1> DEFINE Inv == RequestThreadOK /\ AnswerOK
  <1>1. Init => Inv
    BY DEF Init, RequestThreadOK, AnswerOK, InSight, IsAnswer
  <1>2. IndInv /\ IndInv' /\ Inv /\ [Next]_vars => Inv'
    <2> SUFFICES ASSUME IndInv, IndInv', Inv, [Next]_vars PROVE Inv'
      OBVIOUS
    <2>1. CASE UNCHANGED vars
      BY <2>1 DEF vars, RequestThreadOK, AnswerOK, InSight, IsAnswer, Cached
    <2>2. ASSUME NEW t \in Threads, Push(t) \/ Handle(t) PROVE Inv'
      BY <2>2, RequestThreadStep, AnswerStep
    <2> QED
      BY <2>1, <2>2 DEF Next
  <1>3. IndInv /\ Inv => AnswersGrow
    <2> SUFFICES ASSUME IndInv, Inv, NEW p \in OwnAnswers, NEW q \in OwnAnswers,
                        p.guid = q.guid, p.id < q.id
                 PROVE  p.version <= q.version
      BY DEF AnswersGrow
    <2>1. \A x \in OwnAnswers : InSight(x) /\ x \in Packets /\ x # None /\ x.kind = "response"
                                /\ x.srcNa = MyNa
      BY CacheAssumption DEF OwnAnswers, InSight, IndInv, TypeOK
    <2>2. p.guid \in Guids
      BY <2>1 DEF Packets, DataPacket, RequestPacket, ResponsePacket
    <2>3. IsAnswer(p, p.guid) /\ IsAnswer(q, p.guid)
      BY <2>1 DEF IsAnswer
    <2> QED
      BY <2>1, <2>2, <2>3 DEF AnswerOK
  <1> QED
    BY <1>1, <1>2, <1>3, Invariance, PTL DEF Spec

-----------------------------------------------------------------------------
(* The data packets, for any threads, GUIDs, inputs and bounds: each is in *)
(* one place, those of a GUID leave in order, and the cache with its       *)
(* threads and locks implements the atomic Resolver.                       *)

Arrived == arrived["data"]

(* The places in the batches that hold packet id, without a bound.         *)
Places(id) ==
  {place \in Guids \X Nat :
     /\ place[2] \in DOMAIN pendingPackets[place[1]]
     /\ pendingPackets[place[1]][place[2]].id = id}

(* A packet that arrived is in one place.                                  *)
InOnePlace(id) ==
  \/ (\E t \in Threads : InHand(id) = {t}) /\ Places(id) = {} /\ Out(id) = {}
  \/ InHand(id) = {} /\ (\E place \in Guids \X Nat : Places(id) = {place}) /\ Out(id) = {}
  \/ InHand(id) = {} /\ Places(id) = {} /\ (\E s \in out : Out(id) = {s})

(* No other is anywhere.                                                   *)
Nowhere(id) == InHand(id) = {} /\ Places(id) = {} /\ Out(id) = {}

PlacesOK ==
  \A id \in Nat \ {0} : IF id <= Arrived THEN InOnePlace(id) ELSE Nowhere(id)

IdsOK ==
  /\ \A t \in Threads : hand[t] # None /\ hand[t].kind = "data" => hand[t].id \in Nat \ {0}
  /\ \A g \in Guids : \A i \in DOMAIN pendingPackets[g] :
       pendingPackets[g][i].id \in Nat \ {0}
  /\ \A s \in out : s.packet.kind = "data" => s.packet.id \in Nat \ {0}

(* The same packets in the same places.                                    *)
Same(id) ==
  InHand(id)' = InHand(id) /\ Places(id)' = Places(id) /\ Out(id)' = Out(id)

(* A step changes one thread's hand.                                       *)
LEMMA HandMoves ==
  ASSUME TypeOK, NEW t \in Threads, NEW y, hand' = [hand EXCEPT ![t] = y], NEW id
  PROVE  InHand(id)' = (InHand(id) \ {t}) \cup
           (IF y # None /\ y.kind = "data" /\ y.id = id THEN {t} ELSE {})
  <1> SUFFICES ASSUME NEW u \in Threads
               PROVE  u \in InHand(id)' <=>
                        IF u = t THEN y # None /\ y.kind = "data" /\ y.id = id
                                 ELSE u \in InHand(id)
    BY DEF InHand
  <1>1. CASE u = t
    BY <1>1 DEF InHand, TypeOK
  <1>2. CASE u # t
    BY <1>2 DEF InHand, TypeOK
  <1> QED
    BY <1>1, <1>2

LEMMA PlaceHolds ==
  ASSUME NEW h \in Guids, NEW i \in Nat, NEW id
  PROVE  /\ <<h, i>> \in Places(id) <=>
              i \in DOMAIN pendingPackets[h] /\ pendingPackets[h][i].id = id
         /\ <<h, i>> \in Places(id)' <=>
              i \in DOMAIN pendingPackets'[h] /\ pendingPackets'[h][i].id = id
  BY DEF Places

LEMMA HandSame ==
  ASSUME NEW id, NEW t \in Threads, TypeOK, NEW y, hand' = [hand EXCEPT ![t] = y],
         t \in InHand(id) <=> (y # None /\ y.kind = "data" /\ y.id = id)
  PROVE  InHand(id)' = InHand(id)
  <1> SUFFICES ASSUME NEW u \in Threads PROVE u \in InHand(id)' <=> u \in InHand(id)
    BY DEF InHand
  <1>1. CASE u = t
    BY <1>1 DEF InHand, TypeOK
  <1>2. CASE u # t
    BY <1>2 DEF InHand, TypeOK
  <1> QED
    BY <1>1, <1>2

(* A step that only changes the packet in hand, or puts back another one   *)
(* that is no data, moves nothing.                                         *)
LEMMA NothingMoves ==
  ASSUME IndInv, NEW t \in Threads, NEW y, hand' = [hand EXCEPT ![t] = y],
         pendingPackets' = pendingPackets, out' = out, arrived'["data"] = Arrived,
         \/ y = hand[t]
         \/ /\ hand[t] = None \/ hand[t].kind # "data"
            /\ y = None \/ y.kind # "data"
         \/ /\ hand[t] # None /\ y # None
            /\ hand[t].kind = "data" /\ y.kind = "data" /\ y.id = hand[t].id,
         PlacesOK, IdsOK
  PROVE  PlacesOK' /\ IdsOK'
  <1>1. ASSUME NEW id PROVE Same(id)
    <2>1. InHand(id)' = InHand(id)
      BY HandSame DEF IndInv, InHand
    <2> QED
      BY <2>1 DEF Same, Places, Out
  <1>2. PlacesOK'
    BY <1>1 DEF PlacesOK, Same, InOnePlace, Nowhere, Arrived
  <1>3. IdsOK'
    BY DEF IdsOK, IndInv, TypeOK
  <1> QED
    BY <1>2, <1>3

LEMMA ArriveMoves ==
  ASSUME IndInv, PlacesOK, IdsOK, NEW t \in Threads, NEW in \in DataInputs, DataArrive(t, in)
  PROVE  PlacesOK' /\ IdsOK'
  <1>0. PICK n : n = Arrived + 1
    OBVIOUS
  <1>1. PICK y : y = [kind |-> "data", id |-> arrived'["data"],
                      guid |-> in.guid, dstNa |-> in.dstNa]
    OBVIOUS
  <1>2. /\ hand[t] = None /\ hand' = [hand EXCEPT ![t] = y]
        /\ pendingPackets' = pendingPackets /\ out' = out
        /\ Arrived \in Nat /\ arrived'["data"] = n /\ n \in Nat \ {0}
    BY <1>0, <1>1 DEF DataArrive, Step, Take, Arrive, IndInv, HandOK, TypeOK, tableVars, Arrived, Ports
  <1>3. y.kind = "data" /\ y.id = n /\ y # None
    <2>1. y \in DataPacket
      BY <1>1, <1>2, CacheAssumption DEF DataPacket, AnyNa
    <2> QED
      BY <1>1, <1>2, <2>1, CacheAssumption DEF Packets
  <1>4. \A id : Places(id)' = Places(id) /\ Out(id)' = Out(id)
    BY <1>2 DEF Places, Out
  <1>5. ASSUME NEW id, id # n PROVE InHand(id)' = InHand(id)
    BY <1>2, <1>3, <1>5, HandSame DEF IndInv, InHand
  <1>6. InHand(n)' = (InHand(n) \ {t}) \cup {t}
    BY <1>2, <1>3, HandMoves DEF IndInv
  <1>7. Nowhere(n)
    BY <1>0, <1>2 DEF PlacesOK
  <1>8. ASSUME NEW id \in Nat \ {0}
        PROVE  IF id <= n THEN InOnePlace(id)' ELSE Nowhere(id)'
    <2>1. CASE id = n
      <3>1. InHand(id)' = {t} /\ Places(id)' = {} /\ Out(id)' = {}
        BY <1>4, <1>6, <1>7, <2>1 DEF Nowhere
      <3> QED
        BY <1>0, <1>2, <2>1, <3>1 DEF InOnePlace
    <2>2. CASE id # n
      <3>1. InHand(id)' = InHand(id) /\ Places(id)' = Places(id) /\ Out(id)' = Out(id)
        BY <1>4, <1>5, <2>2
      <3>2. id <= n <=> id <= Arrived
        BY <1>0, <1>2, <2>2
      <3> QED
        BY <1>2, <3>1, <3>2 DEF InOnePlace, Nowhere, PlacesOK
    <2> QED
      BY <2>1, <2>2
  <1>9. PlacesOK'
    BY <1>2, <1>8 DEF PlacesOK, Arrived
  <1>10. IdsOK'
    <2>1. \A u \in Threads : hand'[u] = hand[u] \/ hand'[u] = y
      BY <1>2 DEF IndInv, TypeOK
    <2> QED
      BY <1>2, <1>3, <2>1 DEF IdsOK
  <1> QED
    BY <1>9, <1>10

(* The packet in hand goes to the end of a batch.                          *)
LEMMA HoldMoves ==
  ASSUME IndInv, PlacesOK, IdsOK, NEW t \in Threads, DataHold(t)
  PROVE  PlacesOK' /\ IdsOK'
  <1>1. PICK p : p = hand[t]
    OBVIOUS
  <1>2. PICK g : g = p.guid
    OBVIOUS
  <1>3. p \in DataPacket /\ p # None /\ p.kind = "data" /\ g \in Guids /\ p.id \in Nat \ {0}
    BY <1>1, <1>2, CacheAssumption
    DEF DataHold, Step, IndInv, HandOK, DataPacket, Packets, IdsOK
  <1>4. PICK y : y = IF HasPending(g) THEN None ELSE RequestFor(p)
    OBVIOUS
  <1>5. /\ hand' = [hand EXCEPT ![t] = y] /\ out' = out /\ arrived' = arrived
        /\ pendingPackets' = [pendingPackets EXCEPT ![g] = Append(@, p)]
    BY <1>1, <1>2, <1>4 DEF DataHold
  <1>6. y = None \/ y.kind = "request"
    BY <1>4 DEF RequestFor
  <1>7. PICK n \in Nat : n = Len(pendingPackets[g])
    <2>1. pendingPackets[g] \in Seq(DataPacket)
      BY <1>3 DEF IndInv, TypeOK
    <2> QED
      BY <2>1
  <1>8. /\ pendingPackets[g] \in Seq(DataPacket)
        /\ DOMAIN pendingPackets[g] = 1..n /\ DOMAIN pendingPackets'[g] = 1..(n + 1)
        /\ pendingPackets'[g][n + 1] = p
        /\ \A i \in 1..n : pendingPackets'[g][i] = pendingPackets[g][i]
        /\ \A h \in Guids \ {g} : pendingPackets'[h] = pendingPackets[h]
    <2>1. pendingPackets[g] \in Seq(DataPacket) /\ pendingPackets'[g] = Append(pendingPackets[g], p)
      BY <1>3, <1>5 DEF IndInv, TypeOK
    <2>2. \A h \in Guids \ {g} : pendingPackets'[h] = pendingPackets[h]
      BY <1>5 DEF IndInv, TypeOK
    <2> QED
      BY <1>3, <1>7, <2>1, <2>2
  <1>9. t \in InHand(p.id)
    BY <1>1, <1>3 DEF InHand
  <1>10. InHand(p.id) = {t} /\ Places(p.id) = {} /\ Out(p.id) = {} /\ p.id <= Arrived
    BY <1>3, <1>9 DEF PlacesOK, InOnePlace, Nowhere
  <1>11. ASSUME NEW id PROVE InHand(id)' = InHand(id) \ {t}
    <2> SUFFICES ASSUME NEW u \in Threads
                 PROVE  u \in InHand(id)' <=> u \in InHand(id) /\ u # t
      BY DEF InHand
    <2>1. CASE u = t
      BY <1>5, <1>6, <2>1 DEF InHand, IndInv, TypeOK
    <2>2. CASE u # t
      BY <1>5, <2>2 DEF InHand, IndInv, TypeOK
    <2> QED
      BY <2>1, <2>2
  <1>12. ASSUME NEW id
         PROVE  Places(id)' = Places(id) \cup (IF id = p.id THEN {<<g, n + 1>>} ELSE {})
    <2> SUFFICES ASSUME NEW h \in Guids, NEW i \in Nat
                 PROVE  <<h, i>> \in Places(id)' <=>
                          <<h, i>> \in Places(id) \/ (id = p.id /\ h = g /\ i = n + 1)
      BY <1>3, <1>7 DEF Places
    <2>1. CASE h = g
      <3>1. CASE i = n + 1
        BY <1>7, <1>8, <2>1, <3>1 DEF Places
      <3>2. CASE i # n + 1
        BY <1>7, <1>8, <2>1, <3>2 DEF Places
      <3> QED
        BY <3>1, <3>2
    <2>2. CASE h # g
      BY <1>8, <2>2 DEF Places
    <2> QED
      BY <2>1, <2>2
  <1>13. \A id : Out(id)' = Out(id)
    BY <1>5 DEF Out
  <1>14. ASSUME NEW id \in Nat \ {0}
         PROVE  IF id <= Arrived THEN InOnePlace(id)' ELSE Nowhere(id)'
    <2>1. CASE id = p.id
      <3>1. InHand(id)' = {} /\ Places(id)' = {<<g, n + 1>>} /\ Out(id)' = {}
        BY <1>10, <1>11, <1>12, <1>13, <2>1
      <3>2. <<g, n + 1>> \in Guids \X Nat
        BY <1>3, <1>7
      <3> QED
        BY <1>10, <2>1, <3>1, <3>2 DEF InOnePlace
    <2>2. CASE id # p.id
      <3>1. t \notin InHand(id)
        BY <1>1, <2>2 DEF InHand
      <3>2. InHand(id)' = InHand(id) /\ Places(id)' = Places(id) /\ Out(id)' = Out(id)
        BY <1>11, <1>12, <1>13, <2>2, <3>1
      <3> QED
        BY <1>5, <3>2 DEF InOnePlace, Nowhere, PlacesOK
    <2> QED
      BY <2>1, <2>2
  <1>15. PlacesOK'
    BY <1>5, <1>14 DEF PlacesOK, Arrived
  <1>16. IdsOK'
    <2>1. \A u \in Threads : hand'[u] # None /\ hand'[u].kind = "data" => hand'[u].id \in Nat \ {0}
      BY <1>5, <1>6 DEF IdsOK, IndInv, TypeOK
    <2>2. \A h \in Guids : \A i \in DOMAIN pendingPackets'[h] :
            pendingPackets'[h][i].id \in Nat \ {0}
      BY <1>3, <1>7, <1>8 DEF IdsOK
    <2> QED
      BY <1>5, <2>1, <2>2 DEF IdsOK
  <1> QED
    BY <1>15, <1>16

(* The packet in hand goes out.                                            *)
LEMMA EmitMoves ==
  ASSUME IndInv, PlacesOK, IdsOK, NEW t \in Threads, Emit(t)
  PROVE  PlacesOK' /\ IdsOK'
  <1>1. PICK p : p = hand[t]
    OBVIOUS
  <1>2. /\ p \in Packets /\ p # None
        /\ hand' = [hand EXCEPT ![t] = None] /\ out' = out \cup {Sent(p)}
        /\ pendingPackets' = pendingPackets /\ arrived' = arrived
    BY <1>1, CacheAssumption DEF Emit, Step, IndInv, HandOK, tableVars
  <1>3. ASSUME NEW id PROVE InHand(id)' = InHand(id) \ {t}
    BY <1>2 DEF InHand, IndInv, TypeOK
  <1>4. ASSUME NEW id
        PROVE  Out(id)' = Out(id) \cup (IF p.kind = "data" /\ p.id = id THEN {Sent(p)} ELSE {})
    BY <1>2 DEF Out, Sent
  <1>5. \A id : Places(id)' = Places(id)
    BY <1>2 DEF Places
  <1>6. p.kind = "data" => p.id \in Nat \ {0}
    BY <1>1, <1>2 DEF IdsOK
  <1>7. ASSUME NEW id \in Nat \ {0}
        PROVE  IF id <= Arrived THEN InOnePlace(id)' ELSE Nowhere(id)'
    <2>1. CASE p.kind = "data" /\ p.id = id
      <3>1. t \in InHand(id)
        BY <1>1, <1>2, <2>1 DEF InHand
      <3>2. InHand(id) = {t} /\ Places(id) = {} /\ Out(id) = {} /\ id <= Arrived
        BY <3>1 DEF PlacesOK, InOnePlace, Nowhere
      <3>3. InHand(id)' = {} /\ Places(id)' = {} /\ Out(id)' = {Sent(p)}
        BY <1>3, <1>4, <1>5, <2>1, <3>2
      <3> QED
        BY <1>2, <3>2, <3>3 DEF InOnePlace
    <2>2. CASE ~(p.kind = "data" /\ p.id = id)
      <3>1. t \notin InHand(id)
        BY <1>1, <2>2 DEF InHand
      <3>2. InHand(id)' = InHand(id) /\ Places(id)' = Places(id) /\ Out(id)' = Out(id)
        BY <1>3, <1>4, <1>5, <2>2, <3>1
      <3> QED
        BY <1>2, <3>2 DEF InOnePlace, Nowhere, PlacesOK
    <2> QED
      BY <2>1, <2>2
  <1>8. PlacesOK'
    BY <1>2, <1>7 DEF PlacesOK, Arrived
  <1>9. IdsOK'
    BY <1>2, <1>6 DEF IdsOK, IndInv, TypeOK, Sent
  <1> QED
    BY <1>8, <1>9

(* The first of a batch goes out, and the others move up.                  *)
LEMMA FlushMoves ==
  ASSUME IndInv, PlacesOK, IdsOK, NEW t \in Threads, ResponseFlush(t)
  PROVE  PlacesOK' /\ IdsOK'
  <1>1. PICK g : g = hand[t].guid
    OBVIOUS
  <1>2. PICK batch : batch = pendingPackets[g]
    OBVIOUS
  <1>3. g \in Guids /\ batch \in Seq(DataPacket) /\ batch # <<>>
    BY <1>1, <1>2
    DEF ResponseFlush, Step, IndInv, HandOK, FlushOK, HasPending, TypeOK, ResponsePacket
  <1>4. PICK n \in Nat : n = Len(batch)
    BY <1>3
  <1>5. /\ n # 0 /\ DOMAIN batch = 1..n /\ Head(batch) = batch[1]
        /\ DOMAIN Tail(batch) = 1..(n - 1) /\ \A i \in 1..(n - 1) : Tail(batch)[i] = batch[i + 1]
    BY <1>3, <1>4
  <1>6. PICK p : p = [Head(batch) EXCEPT !.dstNa = hand[t].na]
    OBVIOUS
  <1>7. /\ p.kind = "data" /\ p.id = batch[1].id /\ p.id \in Nat \ {0}
    <2>1. batch[1] \in DataPacket /\ batch[1].id \in Nat \ {0}
      BY <1>2, <1>3, <1>5 DEF IdsOK
    <2> QED
      BY <1>5, <1>6, <2>1 DEF DataPacket
  <1>8. /\ hand' = hand /\ out' = out \cup {Sent(p)} /\ arrived' = arrived
        /\ pendingPackets' = [pendingPackets EXCEPT ![g] = Tail(@)]
    BY <1>1, <1>2, <1>6 DEF ResponseFlush
  <1>9. /\ pendingPackets'[g] = Tail(batch)
        /\ \A h \in Guids \ {g} : pendingPackets'[h] = pendingPackets[h]
    BY <1>2, <1>3, <1>8 DEF IndInv, TypeOK
  <1>10. ASSUME NEW id, NEW h \in Guids, NEW i \in Nat
         PROVE  <<h, i>> \in Places(id)' <=>
                  IF h = g THEN i # 0 /\ <<h, i + 1>> \in Places(id) ELSE <<h, i>> \in Places(id)
    <2>1. CASE h = g
      <3>1. i \in 1..(n - 1) <=> i # 0 /\ i + 1 \in 1..n
        BY <1>4, <1>5
      <3>2. <<g, i>> \in Places(id)' <=> i \in 1..(n - 1) /\ batch[i + 1].id = id
        <4>1. <<g, i>> \in Places(id)' <=>
                i \in DOMAIN pendingPackets'[g] /\ pendingPackets'[g][i].id = id
          BY <1>3, PlaceHolds, Zenon
        <4>2. <<g, i>> \in Places(id)' <=> i \in DOMAIN Tail(batch) /\ Tail(batch)[i].id = id
          BY <1>9, <4>1
        <4> QED
          BY <1>5, <4>2
      <3>3. <<g, i + 1>> \in Places(id) <=> i + 1 \in 1..n /\ batch[i + 1].id = id
        <4>1. i + 1 \in Nat
          OBVIOUS
        <4> QED
          BY <1>2, <1>3, <1>5, <4>1, PlaceHolds
      <3>4. <<g, i>> \in Places(id)' <=> i # 0 /\ <<g, i + 1>> \in Places(id)
        BY <3>1, <3>2, <3>3, Zenon
      <3> QED
        BY <2>1, <3>4, Zenon
    <2>2. CASE h # g
      BY <1>9, <2>2 DEF Places
    <2> QED
      BY <2>1, <2>2
  <1>11. <<g, 1>> \in Places(p.id)
    BY <1>2, <1>3, <1>4, <1>5, <1>7 DEF Places
  <1>12. /\ InHand(p.id) = {} /\ Places(p.id) = {<<g, 1>>} /\ Out(p.id) = {} /\ p.id <= Arrived
    BY <1>7, <1>11 DEF PlacesOK, InOnePlace, Nowhere
  <1>13. \A id : InHand(id)' = InHand(id)
    BY <1>8 DEF InHand
  <1>14. ASSUME NEW id
         PROVE  Out(id)' = Out(id) \cup (IF p.id = id THEN {Sent(p)} ELSE {})
    BY <1>7, <1>8 DEF Out, Sent
  <1>15. ASSUME NEW id, NEW place \in Places(id)' \cup Places(id)
         PROVE  place = <<place[1], place[2]>> /\ place[1] \in Guids /\ place[2] \in Nat
    BY DEF Places
  <1>16. ASSUME NEW id \in Nat \ {0}
         PROVE  IF id <= Arrived THEN InOnePlace(id)' ELSE Nowhere(id)'
    <2>1. CASE id = p.id
      <3>1. Places(id)' = {}
        <4> SUFFICES ASSUME NEW h \in Guids, NEW i \in Nat, <<h, i>> \in Places(id)' PROVE FALSE
          BY <1>15
        <4>1. CASE h = g
          <5>1. i # 0 /\ <<h, i + 1>> \in Places(id)
            BY <1>10, <4>1
          <5> QED
            BY <1>12, <2>1, <5>1
        <4>2. CASE h # g
          <5>1. <<h, i>> \in Places(id)
            BY <1>10, <4>2
          <5> QED
            BY <1>12, <2>1, <4>2, <5>1
        <4> QED
          BY <4>1, <4>2
      <3>2. InHand(id)' = {} /\ Out(id)' = {Sent(p)} /\ Sent(p) \in out'
        BY <1>8, <1>12, <1>13, <1>14, <2>1
      <3> QED
        BY <1>12, <2>1, <3>1, <3>2 DEF InOnePlace
    <2>2. CASE id # p.id
      <3>1. InHand(id)' = InHand(id) /\ Out(id)' = Out(id)
        BY <1>13, <1>14, <2>2
      <3>2. ASSUME Places(id) = {} PROVE Places(id)' = {}
        <4> SUFFICES ASSUME NEW h \in Guids, NEW i \in Nat, <<h, i>> \in Places(id)' PROVE FALSE
          BY <1>15
        <4> QED
          BY <1>10, <3>2
      <3>3. ASSUME NEW place \in Guids \X Nat, Places(id) = {place}
            PROVE  \E other \in Guids \X Nat : Places(id)' = {other}
        <4>1. PICK h \in Guids, i \in Nat : place = <<h, i>>
          OBVIOUS
        <4>2. CASE h = g
          <5>1. i \in 1..n /\ batch[i].id = id
            BY <1>2, <1>5, <3>3, <4>1, <4>2 DEF Places
          <5>2. i # 1 /\ i - 1 \in Nat /\ i - 1 # 0
            BY <1>7, <2>2, <5>1
          <5>3. <<g, i - 1>> \in Places(id)'
            BY <1>3, <1>10, <3>3, <4>1, <4>2, <5>2
          <5>4. ASSUME NEW k \in Guids, NEW j \in Nat, <<k, j>> \in Places(id)'
                PROVE  k = g /\ j = i - 1
            <6>1. CASE k = g
              <7>1. <<k, j + 1>> = <<h, i>>
                BY <1>10, <3>3, <4>1, <5>4, <6>1
              <7> QED
                BY <4>2, <5>1, <7>1
            <6>2. CASE k # g
              BY <1>10, <3>3, <4>1, <4>2, <5>4, <6>2
            <6> QED
              BY <6>1, <6>2
          <5>5. Places(id)' = {<<g, i - 1>>}
            BY <1>15, <5>3, <5>4
          <5> QED
            BY <1>3, <5>2, <5>5
        <4>3. CASE h # g
          <5>1. <<h, i>> \in Places(id)'
            BY <1>10, <3>3, <4>1, <4>3
          <5>2. ASSUME NEW k \in Guids, NEW j \in Nat, <<k, j>> \in Places(id)'
                PROVE  k = h /\ j = i
            <6>1. CASE k = g
              BY <1>10, <3>3, <4>1, <4>3, <5>2, <6>1
            <6>2. CASE k # g
              BY <1>10, <3>3, <4>1, <5>2, <6>2
            <6> QED
              BY <6>1, <6>2
          <5>3. Places(id)' = {<<h, i>>}
            BY <1>15, <5>1, <5>2
          <5> QED
            BY <5>3
        <4> QED
          BY <4>2, <4>3
      <3>4. InOnePlace(id) => InOnePlace(id)'
        BY <1>8, <3>1, <3>2, <3>3 DEF InOnePlace
      <3>5. Nowhere(id) => Nowhere(id)'
        BY <3>1, <3>2 DEF Nowhere
      <3> QED
        BY <3>4, <3>5 DEF PlacesOK
    <2> QED
      BY <2>1, <2>2
  <1>17. PlacesOK'
    BY <1>8, <1>16 DEF PlacesOK, Arrived
  <1>18. IdsOK'
    <2>1. \A h \in Guids : \A i \in DOMAIN pendingPackets'[h] :
            pendingPackets'[h][i].id \in Nat \ {0}
      <3>1. \A i \in DOMAIN Tail(batch) : Tail(batch)[i].id \in Nat \ {0}
        BY <1>2, <1>3, <1>4, <1>5 DEF IdsOK
      <3> QED
        BY <1>9, <3>1 DEF IdsOK
    <2> QED
      BY <1>7, <1>8, <2>1 DEF IdsOK, Sent
  <1> QED
    BY <1>17, <1>18

(* No other step moves a data packet.                                      *)
LEMMA PlacesStep ==
  ASSUME IndInv, PlacesOK, IdsOK, NEW t \in Threads, Push(t) \/ Handle(t)
  PROVE  PlacesOK' /\ IdsOK'
  <1>1. hand = [hand EXCEPT ![t] = hand[t]]
    BY DEF IndInv, TypeOK
  <1>2. ASSUME hand' = hand, pendingPackets' = pendingPackets, out' = out,
               arrived'["data"] = Arrived
        PROVE  PlacesOK' /\ IdsOK'
    BY <1>1, <1>2, NothingMoves
  <1>3. ASSUME NEW y, hand' = [hand EXCEPT ![t] = y],
               hand[t] = None \/ hand[t].kind # "data", y = None \/ y.kind # "data",
               pendingPackets' = pendingPackets, out' = out, arrived'["data"] = Arrived
        PROVE  PlacesOK' /\ IdsOK'
    BY <1>3, NothingMoves
  <1>4. ASSUME NEW in \in RequestInputs, RequestArrive(t, in)
        PROVE  PlacesOK' /\ IdsOK'
    <2> DEFINE y == [kind |-> "request", id |-> arrived'["request"],
                     guid |-> in.guid, srcNa |-> in.srcNa, dstNa |-> in.dstNa]
    <2>1. hand[t] = None /\ arrived'["data"] = Arrived /\ hand' = [hand EXCEPT ![t] = y]
      BY <1>4 DEF RequestArrive, Step, Arrive, Take, IndInv, HandOK, TypeOK, Arrived, Ports
    <2>2. y.kind # "data" /\ pendingPackets' = pendingPackets /\ out' = out
      BY <1>4 DEF RequestArrive, tableVars
    <2> QED
      BY <1>3, <2>1, <2>2
  <1>5. ASSUME NEW in \in ResponseInputs, ResponseArrive(t, in)
        PROVE  PlacesOK' /\ IdsOK'
    <2> DEFINE y == [kind |-> "response", id |-> arrived'["response"],
                     guid |-> in.guid, srcNa |-> in.srcNa, dstNa |-> in.dstNa,
                     na |-> in.na, version |-> in.version, nonce |-> in.nonce]
    <2>1. hand[t] = None /\ arrived'["data"] = Arrived /\ hand' = [hand EXCEPT ![t] = y]
      BY <1>5 DEF ResponseArrive, Step, Arrive, Take, IndInv, HandOK, TypeOK, Arrived, Ports
    <2>2. y.kind # "data" /\ pendingPackets' = pendingPackets /\ out' = out
      BY <1>5 DEF ResponseArrive, tableVars
    <2> QED
      BY <1>3, <2>1, <2>2
  <1>6. ASSUME NEW in \in ResponseInputs, ResponseDuplicate(t, in)
        PROVE  PlacesOK' /\ IdsOK'
    <2>1. /\ hand' = hand /\ pendingPackets' = pendingPackets /\ out' = out
          /\ arrived'["data"] = Arrived
      BY <1>6 DEF ResponseDuplicate, Arrive, IndInv, TypeOK, Arrived, Ports, tableVars
    <2> QED
      BY <1>2, <2>1
  <1>7. CASE DataHit(t)
    <2> DEFINE y == [hand[t] EXCEPT !.dstNa = guidNas[hand[t].guid].na]
    <2>1. hand[t] \in DataPacket
      BY <1>7 DEF DataHit, Step, IndInv, HandOK
    <2>2. hand[t] # None /\ hand[t].kind = "data" /\ y.kind = "data" /\ y.id = hand[t].id
      BY <2>1, CacheAssumption DEF DataPacket, Packets
    <2>3. y # None
      <3>1. guidNas[hand[t].guid].na \in AnyNa
        BY <1>7 DEF DataHit, Cached, IndInv, TypeOK, GUIDInfo
      <3>2. y \in DataPacket
        BY <2>1, <3>1 DEF DataPacket
      <3> QED
        BY <3>2, CacheAssumption DEF Packets
    <2>4. /\ hand' = [hand EXCEPT ![t] = y] /\ pendingPackets' = pendingPackets /\ out' = out
          /\ arrived'["data"] = Arrived
      BY <1>7 DEF DataHit, IndInv, TypeOK, tableVars, Arrived
    <2> QED
      BY <2>2, <2>3, <2>4, NothingMoves
  <1>8. CASE RequestHit(t)
    <2>1. PICK nonce \in Nonces : hand' = [hand EXCEPT ![t] = ResponseTo(@, nonce)]
      BY <1>8 DEF RequestHit
    <2> DEFINE y == ResponseTo(hand[t], nonce)
    <2>2. hand[t].kind # "data" /\ y.kind # "data"
      BY <1>8 DEF RequestHit, Step, IndInv, HandOK, RequestPacket, ResponseTo
    <2>3. /\ hand' = [hand EXCEPT ![t] = y] /\ pendingPackets' = pendingPackets /\ out' = out
          /\ arrived'["data"] = Arrived
      BY <1>8, <2>1 DEF RequestHit, IndInv, TypeOK, tableVars, Arrived
    <2> HIDE DEF y
    <2> QED
      BY <1>3, <2>2, <2>3
  <1>9. CASE RequestMiss(t)
    <2> DEFINE y == [hand[t] EXCEPT !.dstNa = IF @ = EmptyNa THEN GnrsNa ELSE @]
    <2>1. hand[t].kind # "data" /\ y.kind # "data"
      BY <1>9 DEF RequestMiss, Step, IndInv, HandOK, RequestPacket
    <2>2. /\ hand' = [hand EXCEPT ![t] = y] /\ pendingPackets' = pendingPackets /\ out' = out
          /\ arrived'["data"] = Arrived
      BY <1>9 DEF RequestMiss, IndInv, TypeOK, tableVars, Arrived
    <2> HIDE DEF y
    <2> QED
      BY <1>3, <2>1, <2>2
  <1>10. CASE ResponseRelease(t)
    <2> DEFINE y == IF hand[t].dstNa = MyNa THEN None ELSE hand[t]
    <2>1. hand[t].kind # "data" /\ (y = None \/ y.kind # "data")
      BY <1>10 DEF ResponseRelease, Step, IndInv, HandOK, ResponsePacket
    <2>2. /\ hand' = [hand EXCEPT ![t] = y] /\ pendingPackets' = pendingPackets /\ out' = out
          /\ arrived'["data"] = Arrived
      BY <1>10 DEF ResponseRelease, IndInv, TypeOK, tableVars, Arrived
    <2> HIDE DEF y
    <2> QED
      BY <1>3, <2>1, <2>2
  <1>11. CASE \/ DataMiss(t) \/ DataLockPending(t) \/ DataRelease(t) \/ RequestRelease(t)
              \/ ResponseLock(t) \/ ResponseUpdate(t)
    <2>1. /\ hand' = hand /\ pendingPackets' = pendingPackets /\ out' = out
          /\ arrived'["data"] = Arrived
      BY <1>11 DEF DataMiss, DataLockPending, DataRelease, RequestRelease, ResponseLock,
                   ResponseUpdate, tableVars, Arrived
    <2> QED
      BY <1>2, <2>1
  <1> QED
    BY <1>4, <1>5, <1>6, <1>7, <1>8, <1>9, <1>10, <1>11,
       ArriveMoves, HoldMoves, FlushMoves, EmitMoves DEF Push, Handle

PacketsOK == PlacesOK /\ IdsOK

LEMMA PacketsInvariance == Spec => []PacketsOK
  <1>1. Init => PacketsOK
    <2> SUFFICES ASSUME Init PROVE PacketsOK
      OBVIOUS
    <2>1. \A id : Nowhere(id)
      BY DEF Init, Nowhere, InHand, Places, Out
    <2>2. Arrived = 0
      BY DEF Init, Arrived, Ports
    <2>3. IdsOK
      BY DEF Init, IdsOK
    <2> QED
      BY <2>1, <2>2, <2>3 DEF PacketsOK, PlacesOK
  <1>2. IndInv /\ PacketsOK /\ [Next]_vars => PacketsOK'
    <2> SUFFICES ASSUME IndInv, PacketsOK, [Next]_vars PROVE PacketsOK'
      OBVIOUS
    <2>1. CASE UNCHANGED vars
      BY <2>1 DEF vars, PacketsOK, PlacesOK, IdsOK, Arrived, InOnePlace, Nowhere,
                  InHand, Places, Out
    <2>2. ASSUME NEW t \in Threads, Push(t) \/ Handle(t) PROVE PacketsOK'
      BY <2>2, PlacesStep DEF PacketsOK
    <2> QED
      BY <2>1, <2>2 DEF Next
  <1> QED
    BY <1>1, <1>2, Invariance, PTL DEF Spec

(* A batch is no longer than the number of packets that arrived: its       *)
(* packets have different ids.                                             *)
LEMMA BatchesBounded ==
  ASSUME IndInv, PacketsOK, NEW g \in Guids
  PROVE  Len(pendingPackets[g]) <= Arrived
  <1>1. PICK batch : batch = pendingPackets[g]
    OBVIOUS
  <1>2. batch \in Seq(DataPacket)
    BY <1>1 DEF IndInv, TypeOK
  <1>3. PICK n \in Nat : n = Len(batch) /\ DOMAIN batch = 1..n
    BY <1>2
  <1>4. Arrived \in Nat
    BY DEF IndInv, TypeOK, Arrived, Ports
  <1>5. ASSUME NEW i \in 1..n
        PROVE  /\ batch[i].id \in 1..Arrived
               /\ \A j \in 1..n : batch[j].id = batch[i].id => j = i
    <2>1. batch[i].id \in Nat \ {0}
      BY <1>1, <1>3 DEF PacketsOK, IdsOK
    <2>2. PICK id : id = batch[i].id
      OBVIOUS
    <2>3. <<g, i>> \in Places(id)
      BY <1>1, <1>3, <2>2, PlaceHolds
    <2>4. id <= Arrived /\ Places(id) = {<<g, i>>}
      BY <2>1, <2>2, <2>3 DEF PacketsOK, PlacesOK, InOnePlace, Nowhere
    <2>5. ASSUME NEW j \in 1..n, batch[j].id = id PROVE j = i
      <3>1. <<g, j>> \in Places(id)
        BY <1>1, <1>3, <2>5, PlaceHolds
      <3> QED
        BY <2>4, <3>1
    <2> QED
      BY <1>4, <2>1, <2>2, <2>4, <2>5
  <1> DEFINE f == [i \in 1..n |-> batch[i].id]
  <1>6. f \in Injection(1..n, 1..Arrived)
    BY <1>5 DEF Injection, IsInjective
  <1>7. IsFiniteSet(1..Arrived) /\ Cardinality(1..Arrived) = Arrived /\ Cardinality(1..n) = n
    BY <1>4, FS_Interval
  <1>8. Cardinality(1..n) <= Cardinality(1..Arrived)
    BY <1>6, <1>7, FS_Injection
  <1> QED
    BY <1>1, <1>3, <1>7, <1>8

(* No data packet is lost or duplicated, whatever threads run the handlers *)
(* and however many packets there are: every one that arrived is in one    *)
(* thread's hand, or in one place of one batch, or was emitted once.       *)
THEOREM DataPacketsKept == Spec => []EachDataPacketOnce
  <1>1. IndInv /\ PacketsOK => EachDataPacketOnce
    <2> SUFFICES ASSUME IndInv, PacketsOK, NEW id \in 1..Arrived
                 PROVE  Cardinality(InHand(id)) + Cardinality(Batched(id))
                          + Cardinality(Out(id)) = 1
      BY DEF EachDataPacketOnce, Arrived
    <2>1. Arrived \in Nat
      BY DEF IndInv, TypeOK, Arrived, Ports
    <2>2. InOnePlace(id)
      BY <2>1 DEF PacketsOK, PlacesOK
    <2>3. Batched(id) = Places(id)
      <3>1. ASSUME NEW g \in Guids, NEW i \in DOMAIN pendingPackets[g] PROVE i \in 1..Arrived
        <4>1. Len(pendingPackets[g]) <= Arrived
          BY BatchesBounded
        <4>2. pendingPackets[g] \in Seq(DataPacket)
          BY DEF IndInv, TypeOK
        <4> QED
          BY <2>1, <4>1, <4>2
      <3>2. ASSUME NEW place \in Guids \X Nat, place[2] \in DOMAIN pendingPackets[place[1]]
            PROVE  place \in Guids \X (1..Arrived)
        BY <3>1, <3>2
      <3> QED
        BY <2>1, <3>2 DEF Batched, Places, Arrived
    <2>4. \A x : Cardinality({x}) = 1
      BY FS_Singleton
    <2>5. Cardinality({}) = 0
      BY FS_EmptySet
    <2>6. CASE (\E t \in Threads : InHand(id) = {t}) /\ Places(id) = {} /\ Out(id) = {}
      <3>1. Cardinality(InHand(id)) = 1
        BY <2>4, <2>6
      <3> QED
        BY <2>3, <2>5, <2>6, <3>1
    <2>7. CASE /\ InHand(id) = {} /\ \E place \in Guids \X Nat : Places(id) = {place}
               /\ Out(id) = {}
      <3>1. Cardinality(Places(id)) = 1
        BY <2>4, <2>7
      <3> QED
        BY <2>3, <2>5, <2>7, <3>1
    <2>8. CASE InHand(id) = {} /\ Places(id) = {} /\ \E s \in out : Out(id) = {s}
      <3>1. Cardinality(Out(id)) = 1
        BY <2>4, <2>8
      <3> QED
        BY <2>3, <2>5, <2>8, <3>1
    <2> QED
      BY <2>2, <2>6, <2>7, <2>8 DEF InOnePlace
  <1> QED
    BY <1>1, Invariance, PacketsInvariance, PTL

-----------------------------------------------------------------------------
(* The order of the packets of a GUID.                                     *)

IsData(x) == x # None /\ x.kind = "data"

Leaving(t, g) == pc[t] \in {"dataRelease", "emit"} /\ IsData(hand[t]) /\ hand[t].guid = g

(* With one data thread, the packet in its hand came last.                 *)
LastInHand ==
  \A t \in Threads : IsData(hand[t]) => "data" \in Serves[t] /\ hand[t].id = Arrived

(* Batches are in the order of arrival, each of packets of its GUID.       *)
BatchOrder ==
  \A g \in Guids : \A i \in DOMAIN pendingPackets[g] :
    /\ pendingPackets[g][i].guid = g
    /\ \A j \in DOMAIN pendingPackets[g] :
         i < j => pendingPackets[g][i].id < pendingPackets[g][j].id

(* A packet of a GUID whose packets all come unresolved leaves either from *)
(* the batch or after a hit, when there is no batch any more; what left is *)
(* older than what is held.                                                *)
LeavingOrder ==
  \A g \in Guids : AlwaysUnresolved(g) =>
    /\ \A t \in Threads : Leaving(t, g) => Cached(g) /\ ~HasPending(g)
    /\ \A s \in out : s.packet.kind = "data" /\ s.packet.guid = g =>
         \A i \in DOMAIN pendingPackets[g] : s.packet.id < pendingPackets[g][i].id

(* A step other than an arrival gives a thread no other data packet, and   *)
(* one that is about to leave, or did not, has found its GUID cached.      *)
LEMMA DataInHand ==
  ASSUME IndInv, NEW t \in Threads, Push(t) \/ Handle(t),
         ~\E in \in DataInputs : DataArrive(t, in), NEW u \in Threads, IsData(hand'[u])
  PROVE  /\ IsData(hand[u]) /\ hand'[u].id = hand[u].id /\ hand'[u].guid = hand[u].guid
         /\ arrived'["data"] = Arrived
         /\ pc'[u] \in {"dataRelease", "emit"} =>
              pc[u] \in {"dataRelease", "emit"} \/ (u = t /\ DataHit(t))
  <1> USE DEF IsData
  <1>1. CASE u # t
    <2>1. hand'[u] = hand[u] /\ pc'[u] = pc[u]
      BY <1>1, OthersUntouched DEF IndInv
    <2>2. arrived'["data"] = Arrived
      BY DEF Push, Handle, RequestArrive, ResponseArrive, ResponseDuplicate, Arrive,
             DataHit, DataMiss, DataLockPending, DataHold, DataRelease,
             RequestHit, RequestMiss, RequestRelease,
             ResponseLock, ResponseUpdate, ResponseFlush, ResponseRelease, Emit,
             IndInv, TypeOK, Arrived, Ports
    <2> QED
      BY <2>1, <2>2
  <1>2. CASE u = t
    <2>1. CASE \/ \E in \in RequestInputs : RequestArrive(t, in)
               \/ \E in \in ResponseInputs : ResponseDuplicate(t, in) \/ ResponseArrive(t, in)
      BY <1>2, <2>1 DEF RequestArrive, ResponseArrive, ResponseDuplicate, Arrive, Take, Step,
                        Goto, IndInv, HandOK, TypeOK, Arrived, Ports
    <2>2. CASE DataHit(t)
      <3>1. hand[t] \in DataPacket /\ hand[t] # None
        BY <2>2, CacheAssumption DEF DataHit, Step, IndInv, HandOK, Packets
      <3>2. hand'[t] = [hand[t] EXCEPT !.dstNa = guidNas[hand[t].guid].na]
        BY <2>2 DEF DataHit, IndInv, TypeOK
      <3>3. arrived'["data"] = Arrived
        BY <2>2 DEF DataHit, Arrived
      <3> QED
        BY <1>2, <2>2, <3>1, <3>2, <3>3 DEF DataPacket
    <2>3. CASE DataHold(t)
      BY <1>2, <2>3 DEF DataHold, RequestFor, IndInv, TypeOK
    <2>4. CASE RequestHit(t) \/ RequestMiss(t)
      BY <1>2, <2>4 DEF RequestHit, RequestMiss, ResponseTo, Step, IndInv, HandOK, TypeOK,
                        RequestPacket
    <2>5. CASE ResponseRelease(t) \/ Emit(t)
      BY <1>2, <2>5 DEF ResponseRelease, Emit, Step, IndInv, HandOK, TypeOK, ResponsePacket
    <2>6. CASE \/ DataMiss(t) \/ DataLockPending(t) \/ DataRelease(t) \/ RequestRelease(t)
               \/ ResponseLock(t) \/ ResponseUpdate(t) \/ ResponseFlush(t)
      <3>1. hand' = hand /\ arrived' = arrived
        BY <2>6 DEF DataMiss, DataLockPending, DataRelease, RequestRelease,
                    ResponseLock, ResponseUpdate, ResponseFlush
      <3>2. pc'[t] \in {"dataRelease", "emit"} => pc[t] \in {"dataRelease", "requestRelease"}
        BY <2>6 DEF DataMiss, DataLockPending, DataRelease, RequestRelease,
                    ResponseLock, ResponseUpdate, ResponseFlush, Step, Goto, IndInv, TypeOK
      <3>3. pc[t] # "requestRelease"
        BY <1>2, <3>1 DEF IndInv, HandOK, RequestPacket, ResponsePacket
      <3> QED
        BY <1>2, <3>1, <3>2, <3>3 DEF Arrived
    <2> QED
      BY <2>1, <2>2, <2>3, <2>4, <2>5, <2>6 DEF Push, Handle
  <1> QED
    BY <1>1, <1>2

LEMMA LastInHandStep ==
  ASSUME OneDataThread, IndInv, LastInHand, NEW t \in Threads, Push(t) \/ Handle(t)
  PROVE  LastInHand'
  <1>1. ASSUME NEW in \in DataInputs, DataArrive(t, in) PROVE LastInHand'
    <2> SUFFICES ASSUME NEW u \in Threads, IsData(hand'[u])
                 PROVE  "data" \in Serves[u] /\ hand'[u].id = arrived'["data"]
      BY DEF LastInHand, IsData, Arrived
    <2>1. hand[t] = None /\ "data" \in Serves[t]
      BY <1>1 DEF DataArrive, Step, Arrive, IndInv, HandOK
    <2>2. u = t
      <3> SUFFICES ASSUME u # t PROVE FALSE
        OBVIOUS
      <3>1. IsData(hand[u])
        BY OthersUntouched DEF IndInv
      <3> QED
        BY <2>1, <3>1 DEF LastInHand, OneDataThread
    <2> QED
      BY <1>1, <2>1, <2>2 DEF DataArrive, Take, IndInv, TypeOK
  <1>2. ASSUME ~\E in \in DataInputs : DataArrive(t, in) PROVE LastInHand'
    <2> SUFFICES ASSUME NEW u \in Threads, IsData(hand'[u])
                 PROVE  "data" \in Serves[u] /\ hand'[u].id = arrived'["data"]
      BY DEF LastInHand, IsData, Arrived
    <2> QED
      BY <1>2, DataInHand DEF LastInHand
  <1> QED
    BY <1>1, <1>2

LEMMA BatchOrderStep ==
  ASSUME IndInv, PacketsOK, LastInHand, BatchOrder, NEW t \in Threads, Push(t) \/ Handle(t)
  PROVE  BatchOrder'
  <1>1. CASE pendingPackets' = pendingPackets
    BY <1>1 DEF BatchOrder
  <1>2. CASE DataHold(t)
    <2>1. PICK p : p = hand[t]
      OBVIOUS
    <2>2. p \in DataPacket /\ IsData(p) /\ p.id = Arrived /\ Arrived \in Nat
      BY <1>2, <2>1, CacheAssumption
      DEF DataHold, Step, IndInv, HandOK, TypeOK, Packets, IsData, LastInHand, DataPacket,
          Arrived, Ports
    <2>3. PICK b : b = pendingPackets[p.guid]
      OBVIOUS
    <2>4. b \in Seq(DataPacket) /\ p.guid \in Guids
      BY <2>2, <2>3 DEF IndInv, TypeOK, DataPacket
    <2>5. \A g \in Guids : pendingPackets'[g] = IF g = p.guid THEN Append(b, p)
                                                              ELSE pendingPackets[g]
      BY <1>2, <2>1, <2>3 DEF DataHold, IndInv, TypeOK
    <2>6. ASSUME NEW i \in DOMAIN b PROVE b[i].id \in Nat /\ b[i].id < p.id
      <3>1. b[i].id \in Nat \ {0} /\ b[i] \in DataPacket /\ i \in Nat
        BY <2>3, <2>4 DEF PacketsOK, IdsOK
      <3>2. PICK id : id = b[i].id
        OBVIOUS
      <3>3. <<p.guid, i>> \in Places(id)
        BY <2>3, <2>4, <3>1, <3>2, PlaceHolds
      <3>4. id <= Arrived /\ InHand(id) = {}
        BY <3>1, <3>2, <3>3 DEF PacketsOK, PlacesOK, InOnePlace, Nowhere
      <3>5. id # p.id
        BY <2>1, <2>2, <3>4 DEF InHand, IsData
      <3> QED
        BY <2>2, <3>1, <3>2, <3>4, <3>5
    <2>7. ASSUME NEW g \in Guids, NEW i \in DOMAIN pendingPackets'[g]
          PROVE  /\ pendingPackets'[g][i].guid = g
                 /\ \A j \in DOMAIN pendingPackets'[g] :
                      i < j => pendingPackets'[g][i].id < pendingPackets'[g][j].id
      <3>1. CASE g # p.guid
        BY <2>5, <2>7, <3>1 DEF BatchOrder
      <3>2. CASE g = p.guid
        <4>1. PICK n \in Nat : n = Len(b) /\ DOMAIN b = 1..n
          BY <2>4
        <4>2. /\ DOMAIN Append(b, p) = 1..(n + 1) /\ Append(b, p)[n + 1] = p
              /\ \A j \in 1..n : Append(b, p)[j] = b[j]
          BY <2>2, <2>4, <4>1
        <4>3. \A j \in 1..n : /\ b[j].guid = g /\ b[j].id < p.id
                              /\ \A k \in 1..n : j < k => b[j].id < b[k].id
          BY <2>3, <2>4, <2>6, <3>2, <4>1 DEF BatchOrder
        <4>4. pendingPackets'[g] = Append(b, p)
          BY <2>5, <3>2
        <4>5. i \in 1..(n + 1)
          BY <4>2, <4>4
        <4>6. CASE i = n + 1
          BY <3>2, <4>1, <4>2, <4>4, <4>6
        <4>7. CASE i \in 1..n
          BY <4>1, <4>2, <4>3, <4>4, <4>7
        <4> QED
          BY <4>1, <4>5, <4>6, <4>7
      <3> QED
        BY <3>1, <3>2
    <2> QED
      BY <2>7 DEF BatchOrder
  <1>3. CASE ResponseFlush(t)
    <2>1. PICK h : h = hand[t].guid
      OBVIOUS
    <2>2. PICK b : b = pendingPackets[h]
      OBVIOUS
    <2>3. h \in Guids /\ b \in Seq(DataPacket) /\ b # <<>>
      BY <1>3, <2>1, <2>2
      DEF ResponseFlush, Step, IndInv, HandOK, FlushOK, HasPending, TypeOK, ResponsePacket
    <2>4. \A g \in Guids : pendingPackets'[g] = IF g = h THEN Tail(b) ELSE pendingPackets[g]
      BY <1>3, <2>1, <2>2 DEF ResponseFlush, IndInv, TypeOK
    <2>5. PICK n \in Nat : n = Len(b) /\ DOMAIN b = 1..n
      BY <2>3
    <2>6. DOMAIN Tail(b) = 1..(n - 1) /\ \A i \in 1..(n - 1) : Tail(b)[i] = b[i + 1]
      BY <2>3, <2>5
    <2>7. ASSUME NEW g \in Guids, NEW i \in DOMAIN pendingPackets'[g]
          PROVE  /\ pendingPackets'[g][i].guid = g
                 /\ \A j \in DOMAIN pendingPackets'[g] :
                      i < j => pendingPackets'[g][i].id < pendingPackets'[g][j].id
      <3>1. CASE g # h
        BY <2>4, <2>7, <3>1 DEF BatchOrder
      <3>2. CASE g = h
        <4>1. \A j \in 1..n : /\ b[j].guid = g
                              /\ \A k \in 1..n : j < k => b[j].id < b[k].id
          BY <2>2, <2>3, <2>5, <3>2 DEF BatchOrder
        <4>2. pendingPackets'[g] = Tail(b)
          BY <2>4, <3>2
        <4>3. \A j \in 1..(n - 1) : j + 1 \in 1..n
          BY <2>5
        <4>4. i \in 1..(n - 1)
          BY <2>6, <4>2
        <4>5. b[i + 1].guid = g /\ \A j \in 1..(n - 1) : i < j => b[i + 1].id < b[j + 1].id
          BY <2>5, <4>1, <4>3, <4>4
        <4> QED
          BY <2>6, <4>2, <4>4, <4>5
      <3> QED
        BY <3>1, <3>2
    <2> QED
      BY <2>7 DEF BatchOrder
  <1> QED
    BY <1>1, <1>2, <1>3, WhoWrites DEF IndInv

(* A GUID that is cached, and that nobody is emitting the batch of, gets   *)
(* no batch.                                                               *)
LEMMA NoBatchAgain ==
  ASSUME IndInv, NEW t \in Threads, Push(t) \/ Handle(t), NEW g \in Guids,
         Cached(g), ~HasPending(g)
  PROVE  Cached(g)' /\ ~HasPending(g)'
  <1>1. ~(DataHold(t) /\ hand[t].guid = g)
    BY DEF DataHold, Step, IndInv, MissOK
  <1> QED
    BY <1>1, BatchStays, CachedStays DEF IndInv

LEMMA LeavingStep ==
  ASSUME 0 \notin Versions, OneDataThread, IndInv, PacketsOK, HeldOnlyIfUnknown,
         LastInHand, BatchOrder, LeavingOrder, NEW t \in Threads, Push(t) \/ Handle(t)
  PROVE  LeavingOrder'
  <1> SUFFICES ASSUME NEW g \in Guids, AlwaysUnresolved(g)
               PROVE  /\ \A u \in Threads : Leaving(u, g)' => Cached(g)' /\ ~HasPending(g)'
                      /\ \A s \in out' : s.packet.kind = "data" /\ s.packet.guid = g =>
                           \A i \in DOMAIN pendingPackets'[g] :
                             s.packet.id < pendingPackets'[g][i].id
    BY DEF LeavingOrder
  <1>1. ASSUME NEW u \in Threads, Leaving(u, g)' PROVE Cached(g)' /\ ~HasPending(g)'
    <2>1. CASE Leaving(u, g)
      BY <2>1, NoBatchAgain DEF LeavingOrder
    <2>2. CASE ~Leaving(u, g)
      <3>1. ~\E in \in DataInputs : DataArrive(t, in)
        <4> SUFFICES ASSUME NEW in \in DataInputs, DataArrive(t, in) PROVE FALSE
          OBVIOUS
        <4>1. u = t
          BY <1>1, <2>2, OthersUntouched DEF Leaving, IsData, IndInv
        <4>2. hand'[t].guid = in.guid /\ pc'[t] = IF in.dstNa = EmptyNa THEN "dataLookup" ELSE "emit"
          BY DEF DataArrive, Take, Step, Goto, IndInv, TypeOK
        <4> QED
          BY <1>1, <4>1, <4>2 DEF Leaving, AlwaysUnresolved
      <3>2. u = t /\ DataHit(t) /\ hand[t].guid = g
        BY <1>1, <2>2, <3>1, DataInHand DEF Leaving, IsData
      <3>3. Cached(g)
        BY <3>2 DEF DataHit
      <3>4. ~HasPending(g)
        <4> SUFFICES ASSUME HasPending(g) PROVE FALSE
          OBVIOUS
        <4>1. PICK v \in Threads : Flushing(v, g)
          BY <3>3 DEF HeldOnlyIfUnknown
        <4>2. cacheWriter = v
          BY <4>1 DEF Flushing, IndInv, LockOK, WritingLabels
        <4>3. v # None
          BY CacheAssumption
        <4> QED
          BY <3>2, <4>2, <4>3 DEF DataHit, CanReadCache
      <3> QED
        BY <3>3, <3>4, NoBatchAgain
    <2> QED
      BY <2>1, <2>2
  <1>2. ASSUME NEW s \in out', s.packet.kind = "data", s.packet.guid = g,
               NEW i \in DOMAIN pendingPackets'[g]
        PROVE  s.packet.id < pendingPackets'[g][i].id
    <2>1. CASE Emit(t)
      <3>1. pendingPackets' = pendingPackets /\ out' = out \cup {Sent(hand[t])}
        BY <2>1 DEF Emit, tableVars
      <3>2. CASE s \in out
        BY <1>2, <3>1, <3>2 DEF LeavingOrder
      <3>3. CASE s = Sent(hand[t])
        <4>1. s.packet = hand[t] /\ hand[t] # None
          BY <2>1, <3>3, CacheAssumption DEF Sent, Emit, Step, IndInv, HandOK
        <4>2. Leaving(t, g)
          BY <1>2, <2>1, <4>1 DEF Leaving, IsData, Emit, Step
        <4>3. ~HasPending(g)
          BY <4>2 DEF LeavingOrder
        <4> QED
          BY <1>2, <3>1, <4>3 DEF HasPending
      <3> QED
        BY <3>1, <3>2, <3>3
    <2>2. CASE ResponseFlush(t)
      <3>1. PICK h : h = hand[t].guid
        OBVIOUS
      <3>2. PICK b : b = pendingPackets[h]
        OBVIOUS
      <3>3. h \in Guids /\ b \in Seq(DataPacket) /\ b # <<>>
        BY <2>2, <3>1, <3>2
        DEF ResponseFlush, Step, IndInv, HandOK, FlushOK, HasPending, TypeOK, ResponsePacket
      <3>4. PICK p : p = [Head(b) EXCEPT !.dstNa = hand[t].na]
        OBVIOUS
      <3>5. /\ \A k \in Guids : pendingPackets'[k] = IF k = h THEN Tail(b) ELSE pendingPackets[k]
            /\ out' = out \cup {Sent(p)}
        BY <2>2, <3>1, <3>2, <3>4 DEF ResponseFlush, IndInv, TypeOK
      <3>6. PICK n \in Nat : n = Len(b) /\ DOMAIN b = 1..n
        BY <3>3
      <3>7. /\ DOMAIN Tail(b) = 1..(n - 1) /\ \A j \in 1..(n - 1) : Tail(b)[j] = b[j + 1]
            /\ n # 0 /\ Head(b) = b[1]
        BY <3>3, <3>6
      <3>8. p.id = b[1].id /\ p.guid = b[1].guid
        <4>1. b[1] \in DataPacket
          BY <3>3, <3>6, <3>7
        <4> QED
          BY <3>4, <3>7, <4>1 DEF DataPacket
      <3>9. b[1].guid = h
        BY <3>2, <3>3, <3>6, <3>7 DEF BatchOrder
      <3>10. Sent(p).packet = p
        BY DEF Sent
      <3>11. CASE g # h
        <4>1. s \in out
          BY <1>2, <3>5, <3>8, <3>9, <3>10, <3>11
        <4> QED
          BY <1>2, <3>5, <3>11, <4>1 DEF LeavingOrder
      <3>12. CASE g = h
        <4>1. i \in 1..(n - 1) /\ pendingPackets'[g][i] = b[i + 1]
          BY <1>2, <3>5, <3>7, <3>12
        <4>2. i + 1 \in 1..n /\ 1 \in 1..n /\ 1 < i + 1
          BY <3>6, <4>1
        <4>3. CASE s \in out
          BY <1>2, <3>2, <3>6, <3>12, <4>1, <4>2, <4>3 DEF LeavingOrder
        <4>4. CASE s = Sent(p)
          <5>1. b[1].id < b[i + 1].id
            BY <3>2, <3>3, <3>6, <4>2 DEF BatchOrder
          <5> QED
            BY <3>8, <3>10, <4>1, <4>4, <5>1
        <4> QED
          BY <3>5, <4>3, <4>4
      <3> QED
        BY <3>11, <3>12
    <2>3. CASE DataHold(t)
      <3>1. out' = out
        BY <2>3 DEF DataHold
      <3>2. PICK p : p = hand[t]
        OBVIOUS
      <3>3. p \in DataPacket /\ IsData(p) /\ p.id = Arrived /\ Arrived \in Nat
        BY <2>3, <3>2, CacheAssumption
        DEF DataHold, Step, IndInv, HandOK, TypeOK, Packets, IsData, LastInHand, DataPacket,
            Arrived, Ports
      <3>4. pendingPackets'[g] = IF g = p.guid THEN Append(pendingPackets[g], p)
                                               ELSE pendingPackets[g]
        BY <2>3, <3>2 DEF DataHold, IndInv, TypeOK
      <3>5. s.packet.id < p.id
        <4>1. PICK id : id = s.packet.id
          OBVIOUS
        <4>2. s \in Out(id) /\ id \in Nat \ {0}
          BY <1>2, <3>1, <4>1 DEF Out, PacketsOK, IdsOK
        <4>3. id <= Arrived /\ InHand(id) = {}
          BY <4>2 DEF PacketsOK, PlacesOK, InOnePlace, Nowhere
        <4>4. id # p.id
          BY <3>2, <3>3, <4>3 DEF InHand, IsData
        <4> QED
          BY <3>3, <4>1, <4>2, <4>3, <4>4
      <3>6. pendingPackets[g] \in Seq(DataPacket)
        BY DEF IndInv, TypeOK
      <3>7. pendingPackets'[g][i] = p \/ (i \in DOMAIN pendingPackets[g]
                                          /\ pendingPackets'[g][i] = pendingPackets[g][i])
        BY <1>2, <3>3, <3>4, <3>6
      <3> QED
        BY <1>2, <3>1, <3>5, <3>7 DEF LeavingOrder
    <2>4. CASE ~Emit(t) /\ ~ResponseFlush(t) /\ ~DataHold(t)
      <3>1. pendingPackets' = pendingPackets
        BY <2>4, WhoWrites DEF IndInv
      <3>2. out' = out
        BY <2>4 DEF Push, Handle, DataArrive, RequestArrive, ResponseArrive, ResponseDuplicate,
             DataHit, DataMiss, DataLockPending, DataRelease,
             RequestHit, RequestMiss, RequestRelease,
             ResponseLock, ResponseUpdate, ResponseRelease
      <3> QED
        BY <1>2, <3>1, <3>2 DEF LeavingOrder
    <2> QED
      BY <2>1, <2>2, <2>3, <2>4
  <1> QED
    BY <1>1, <1>2

(* When one thread drives the port of data packets, as in the router's     *)
(* configuration, and no response carries version 0: the packets of a GUID *)
(* that come unresolved leave in the order they came, the held ones before *)
(* those that hit the cache.                                               *)
THEOREM DataPacketsInOrder ==
  ASSUME 0 \notin Versions
  PROVE  Spec => []InArrivalOrder
  <1>1. CASE OneDataThread
    <2> DEFINE Inv == LastInHand /\ BatchOrder /\ LeavingOrder
    <2>1. Init => Inv
      BY DEF Init, LastInHand, BatchOrder, LeavingOrder, Leaving, IsData, HasPending
    <2>2. IndInv /\ PacketsOK /\ HeldOnlyIfUnknown /\ Inv /\ [Next]_vars => Inv'
      <3> SUFFICES ASSUME IndInv, PacketsOK, HeldOnlyIfUnknown, Inv, [Next]_vars PROVE Inv'
        OBVIOUS
      <3>1. CASE UNCHANGED vars
        BY <3>1 DEF vars, LastInHand, BatchOrder, LeavingOrder, Leaving, IsData, Arrived,
                    HasPending, Cached
      <3>2. ASSUME NEW t \in Threads, Push(t) \/ Handle(t) PROVE Inv'
        BY <1>1, <3>2, LastInHandStep, BatchOrderStep, LeavingStep
      <3> QED
        BY <3>1, <3>2 DEF Next
    <2>3. Inv => InArrivalOrder
      BY DEF LeavingOrder, InArrivalOrder
    <2> HIDE DEF Inv
    <2> QED
      BY <2>1, <2>2, <2>3, Invariance, PacketsInvariance, NoLostWakeup, PTL DEF Spec
  <1>2. CASE ~OneDataThread
    <2>1. InArrivalOrder
      BY <1>2 DEF InArrivalOrder
    <2> QED
      BY <2>1, PTL
  <1> QED
    BY <1>1, <1>2

-----------------------------------------------------------------------------
(* The refinement of Resolver.                                             *)

(* The mapping of GNRSCacheRefinement, and the NAs a packet carries and    *)
(* those the handler that emits its batch will give it.                    *)
Waiting == [g \in Guids |-> IF BeingFlushed(g) THEN {} ELSE BatchIds(g)]
Address == [id \in DataIds |-> AddressOf(id)]
Asked   == {g \in Guids : OwnRequests(g) # {}}

Carried(id) == {s.packet.dstNa : s \in Out(id)} \cup {hand[t].dstNa : t \in InHand(id)}
Told(id) ==
  {hand[t].na : t \in {t \in Threads : /\ pc[t] = "responseFlush"
                                       /\ id \in BatchIds(hand[t].guid)}}

Chosen(S) == IF S \subseteq {EmptyNa} THEN EmptyNa
                                      ELSE CHOOSE na \in S \ {EmptyNa} : TRUE

(* A packet that is looked up has no NA; the ids stay in the bound.        *)
LookupOK ==
  /\ \A t \in Threads : pc[t] \in {"dataLookup", "dataLockPending", "dataHold"} =>
       hand[t].dstNa = EmptyNa
  /\ Arrived <= MaxArrivals["data"]

RefInv == IndInv /\ PacketsOK /\ LookupOK /\ RequestOK /\ AddressOK

LEMMA ChosenOne == Chosen({}) = EmptyNa /\ \A x : Chosen({x}) = x
  <1>1. Chosen({}) = EmptyNa
    BY DEF Chosen
  <1>2. ASSUME NEW x PROVE Chosen({x}) = x
    <2>1. CASE x = EmptyNa
      BY <2>1 DEF Chosen
    <2>2. CASE x # EmptyNa
      <3>1. {x} \ {EmptyNa} = {x} /\ ~({x} \subseteq {EmptyNa})
        BY <2>2
      <3> QED
        BY <3>1 DEF Chosen
    <2> QED
      BY <2>1, <2>2
  <1> QED
    BY <1>1, <1>2

LEMMA AddressIsChosen ==
  ASSUME NEW id
  PROVE  /\ AddressOf(id) = Chosen(Carried(id) \cup Told(id))
         /\ AddressOf(id)' = Chosen(Carried(id)' \cup Told(id)')
  BY DEF AddressOf, Given, Chosen, Carried, Told

LEMMA CarriedInSight ==
  ASSUME TypeOK, NEW id, NEW x
  PROVE  x \in Carried(id) <=> \E q : InSight(q) /\ IsData(q) /\ q.id = id /\ q.dstNa = x
  <1>1. \A s \in out : s.packet # None
    BY CacheAssumption DEF TypeOK
  <1> QED
    BY <1>1 DEF Carried, InHand, Out, InSight, IsData

LEMMA CarriedSame ==
  ASSUME TypeOK, TypeOK', NEW id,
         \A q : IsData(q) /\ q.id = id => (InSight(q)' <=> InSight(q))
  PROVE  Carried(id)' = Carried(id)
  <1>1. ASSUME NEW x PROVE x \in Carried(id)' <=> x \in Carried(id)
    <2>1. x \in Carried(id) <=> \E q : InSight(q) /\ IsData(q) /\ q.id = id /\ q.dstNa = x
      BY CarriedInSight
    <2>2. \A s \in out' : s.packet # None
      BY CacheAssumption DEF TypeOK
    <2>3. x \in Carried(id)' <=> \E q : InSight(q)' /\ IsData(q) /\ q.id = id /\ q.dstNa = x
      BY <2>2 DEF Carried, InHand, Out, InSight, IsData
    <2> QED
      BY <2>1, <2>3
  <1> QED
    BY <1>1, Zenon

(* A thread that swaps its packet for another, neither the data packet id, *)
(* changes nothing of that packet in sight.                                *)
LEMMA SightSame ==
  ASSUME TypeOK, NEW t \in Threads, NEW y, hand' = [hand EXCEPT ![t] = y], out' = out,
         NEW q, IsData(q),
         \/ y = hand[t]
         \/ \A x \in {y, hand[t]} : ~(IsData(x) /\ x.id = q.id)
  PROVE  InSight(q)' <=> InSight(q)
  <1>1. CASE y = hand[t]
    BY <1>1 DEF InSight, TypeOK
  <1>2. CASE \A x \in {y, hand[t]} : ~(IsData(x) /\ x.id = q.id)
    BY <1>2 DEF InSight, TypeOK
  <1> QED
    BY <1>1, <1>2

LEMMA BatchPlaces ==
  ASSUME IndInv, NEW g \in Guids, NEW id, Places(id) = {}
  PROVE  id \notin BatchIds(g)
  <1>1. pendingPackets[g] \in Seq(DataPacket)
    BY DEF IndInv, TypeOK
  <1>2. ASSUME NEW i \in DOMAIN pendingPackets[g] PROVE pendingPackets[g][i].id # id
    <2>1. i \in Nat
      BY <1>1
    <2> QED
      BY <2>1, PlaceHolds
  <1> QED
    BY <1>2 DEF BatchIds

LEMMA ToldNothing ==
  ASSUME IndInv, NEW id, Places(id) = {} \/ ~\E u \in Threads : pc[u] = "responseFlush"
  PROVE  Told(id) = {}
  <1>1. \A u \in Threads : pc[u] = "responseFlush" => hand[u].guid \in Guids
    BY DEF IndInv, HandOK, ResponsePacket
  <1> QED
    BY <1>1, BatchPlaces DEF Told

(* The batches, and the threads that emit one, are as before.              *)
FlushersSame(t) ==
  /\ Push(t) \/ Handle(t)
  /\ pc[t] # "responseFlush" /\ pc'[t] # "responseFlush"
  /\ pendingPackets' = pendingPackets

LEMMA FlushersTell ==
  ASSUME IndInv, NEW t \in Threads, FlushersSame(t)
  PROVE  Waiting' = Waiting /\ \A id : Told(id)' = Told(id)
  <1>1. ASSUME NEW u \in Threads
        PROVE  /\ pc'[u] = "responseFlush" <=> pc[u] = "responseFlush"
               /\ pc[u] = "responseFlush" => hand'[u] = hand[u]
    BY OthersUntouched DEF FlushersSame, IndInv
  <1>2. \A g : BeingFlushed(g)' <=> BeingFlushed(g)
    BY <1>1 DEF BeingFlushed, Flushing
  <1>3. \A g : BatchIds(g)' = BatchIds(g)
    BY DEF FlushersSame, BatchIds
  <1>4. Waiting' = Waiting
    BY <1>2, <1>3 DEF Waiting
  <1>5. ASSUME NEW id PROVE Told(id)' = Told(id)
    BY <1>1, <1>3 DEF Told
  <1> QED
    BY <1>4, <1>5

LEMMA AskedSame ==
  ASSUME IndInv, IndInv', NEW t \in Threads, Push(t) \/ Handle(t), ~DataHold(t)
  PROVE  Asked' = Asked
  <1>1. \A g \in Guids : OwnRequests(g)' = OwnRequests(g)
    BY OwnStep
  <1> QED
    BY <1>1 DEF Asked

LEMMA Unchanged ==
  ASSUME guidNas' = guidNas, Waiting' = Waiting, Address' = Address, Asked' = Asked
  PROVE  UNCHANGED R!vars
  BY DEF R!vars, Waiting, Address, Asked

(* Most steps are steps of no packet.                                      *)
LEMMA QuietStep ==
  ASSUME IndInv, IndInv', NEW t \in Threads, FlushersSame(t), guidNas' = guidNas,
         ~DataHold(t), \A q : IsData(q) => (InSight(q)' <=> InSight(q))
  PROVE  UNCHANGED R!vars
  <1>1. \A id : Carried(id)' = Carried(id)
    BY CarriedSame DEF IndInv
  <1>2. Address' = Address
    <2>1. ASSUME NEW id PROVE AddressOf(id)' = AddressOf(id)
      <3>1. Carried(id)' = Carried(id) /\ Told(id)' = Told(id)
        BY <1>1, FlushersTell
      <3> QED
        BY <3>1, AddressIsChosen
    <2> QED
      BY <2>1 DEF Address, DataIds
  <1> QED
    BY <1>2, FlushersTell, AskedSame, Unchanged DEF FlushersSame

LEMMA ArriveRefines ==
  ASSUME RefInv, IndInv', NEW t \in Threads, NEW in \in DataInputs, DataArrive(t, in)
  PROVE  [R!Next]_R!vars
  <1>1. PICK n : n = Arrived + 1
    OBVIOUS
  <1>2. PICK y : y = [kind |-> "data", id |-> arrived'["data"],
                      guid |-> in.guid, dstNa |-> in.dstNa]
    OBVIOUS
  <1>3. /\ hand[t] = None /\ hand' = [hand EXCEPT ![t] = y] /\ out' = out
        /\ guidNas' = guidNas /\ pendingPackets' = pendingPackets
        /\ arrived'["data"] = n /\ n \in Nat \ {0} /\ ~(n <= Arrived) /\ n \in DataIds
    BY <1>1, <1>2, CacheAssumption
    DEF DataArrive, Step, Take, Arrive, RefInv, IndInv, HandOK, TypeOK, tableVars, Arrived,
        Ports, DataIds
  <1>4. y.id = n /\ y.dstNa = in.dstNa /\ IsData(y)
    <2>1. y \in DataPacket
      BY <1>2, <1>3, CacheAssumption DEF DataPacket, AnyNa
    <2> QED
      BY <1>2, <1>3, <2>1, CacheAssumption DEF Packets, IsData
  <1>5. Nowhere(n)
    BY <1>3 DEF RefInv, PacketsOK, PlacesOK
  <1>6. FlushersSame(t) /\ ~DataHold(t)
    BY <1>3 DEF FlushersSame, Push, DataArrive, DataHold, Step, Goto, RefInv, IndInv, TypeOK
  <1>7. ASSUME NEW id, id # n PROVE Carried(id)' = Carried(id)
    <2>1. ASSUME NEW q, IsData(q), q.id = id PROVE InSight(q)' <=> InSight(q)
      <3>1. \A x \in {y, hand[t]} : ~(IsData(x) /\ x.id = q.id)
        BY <1>3, <1>4, <1>7, <2>1 DEF IsData
      <3> QED
        BY <1>3, <2>1, <3>1, SightSame DEF RefInv, IndInv
    <2> QED
      BY <2>1, CarriedSame DEF RefInv, IndInv
  <1>8. \A id : Told(id)' = Told(id) /\ Waiting' = Waiting
    BY <1>6, FlushersTell DEF RefInv
  <1>9. Told(n) = {} /\ Carried(n) = {}
    BY <1>5, ToldNothing DEF Nowhere, Carried, RefInv
  <1>10. Carried(n)' = {in.dstNa}
    <2>1. InHand(n)' = {t}
      <3>1. InHand(n)' = (InHand(n) \ {t}) \cup {t}
        BY <1>3, <1>4, HandMoves DEF RefInv, IndInv, IsData
      <3> QED
        BY <1>5, <3>1 DEF Nowhere
    <2>2. Out(n)' = {}
      BY <1>3, <1>5 DEF Out, Nowhere
    <2>3. hand'[t].dstNa = in.dstNa
      BY <1>3, <1>4 DEF RefInv, IndInv, TypeOK
    <2> QED
      BY <2>1, <2>2, <2>3 DEF Carried
  <1>11. AddressOf(n) = EmptyNa /\ AddressOf(n)' = in.dstNa
    <2>1. Carried(n) \cup Told(n) = {} /\ Carried(n)' \cup Told(n)' = {in.dstNa}
      BY <1>8, <1>9, <1>10
    <2> QED
      BY <2>1, AddressIsChosen, ChosenOne
  <1>12. ASSUME NEW id, id # n PROVE AddressOf(id)' = AddressOf(id)
    <2>1. Carried(id)' = Carried(id) /\ Told(id)' = Told(id)
      BY <1>7, <1>8, <1>12
    <2> QED
      BY <2>1, AddressIsChosen
  <1>13. Asked' = Asked
    BY <1>6, AskedSame DEF FlushersSame, RefInv
  <1>14. Waiting' = Waiting /\ guidNas' = guidNas
    BY <1>3, <1>8
  <1>15. CASE in.dstNa = EmptyNa
    <2>1. Address' = Address
      BY <1>11, <1>12, <1>15 DEF Address, DataIds
    <2> QED
      BY <1>13, <1>14, <2>1, Unchanged
  <1>16. CASE in.dstNa # EmptyNa
    <2>1. in.dstNa \in NAs
      BY <1>16, CacheAssumption
    <2>2. Address' = [Address EXCEPT ![n] = in.dstNa]
      BY <1>11, <1>12 DEF Address, DataIds
    <2>3. Address[n] = EmptyNa /\ \A g \in Guids : n \notin Waiting[g]
      BY <1>3, <1>5, <1>11, BatchPlaces DEF Address, Waiting, Nowhere, RefInv
    <2>4. R!PassThrough(n, in.dstNa)
      BY <1>13, <1>14, <2>2, <2>3 DEF R!PassThrough, R!New, Address, Waiting, Asked
    <2> QED
      BY <1>3, <2>1, <2>4 DEF R!Next
  <1> QED
    BY <1>15, <1>16

LEMMA HitRefines ==
  ASSUME RefInv, IndInv', NEW t \in Threads, DataHit(t)
  PROVE  [R!Next]_R!vars
  <1>1. PICK p : p = hand[t]
    OBVIOUS
  <1>2. PICK g : g = p.guid
    OBVIOUS
  <1>3. PICK na : na = guidNas[g].na
    OBVIOUS
  <1>4. PICK y : y = [p EXCEPT !.dstNa = na]
    OBVIOUS
  <1>5. PICK n : n = p.id
    OBVIOUS
  <1>6. /\ p \in DataPacket /\ IsData(p) /\ p.dstNa = EmptyNa /\ g \in Guids /\ Cached(g)
        /\ n \in Nat \ {0}
    BY <1>1, <1>2, <1>5, CacheAssumption
    DEF DataHit, Step, RefInv, IndInv, HandOK, LookupOK, IsData, DataPacket, Packets,
        PacketsOK, IdsOK
  <1>7. /\ hand' = [hand EXCEPT ![t] = y] /\ out' = out
        /\ guidNas' = guidNas /\ pendingPackets' = pendingPackets
    BY <1>1, <1>2, <1>3, <1>4 DEF DataHit, RefInv, IndInv, TypeOK, tableVars
  <1>8. y.id = n /\ y.dstNa = na /\ IsData(y)
    <2>1. na \in AnyNa
      BY <1>3, <1>6 DEF Cached, RefInv, IndInv, TypeOK, GUIDInfo
    <2>2. y \in DataPacket
      BY <1>4, <1>6, <2>1 DEF DataPacket
    <2> QED
      BY <1>4, <1>5, <1>6, <2>2, CacheAssumption DEF DataPacket, Packets, IsData
  <1>9. /\ InHand(n) = {t} /\ Places(n) = {} /\ Out(n) = {} /\ n <= Arrived
    <2>1. t \in InHand(n)
      BY <1>1, <1>5, <1>6 DEF InHand, IsData
    <2> QED
      BY <1>6, <2>1 DEF RefInv, PacketsOK, PlacesOK, InOnePlace, Nowhere
  <1>10. n \in DataIds
    BY <1>6, <1>9, CacheAssumption DEF DataIds, RefInv, LookupOK, IndInv, TypeOK, Arrived, Ports
  <1>11. FlushersSame(t) /\ ~DataHold(t)
    BY <1>7 DEF FlushersSame, Handle, DataHit, DataHold, Step, Goto, RefInv, IndInv, TypeOK
  <1>12. ASSUME NEW id, id # n PROVE Carried(id)' = Carried(id)
    <2>1. ASSUME NEW q, IsData(q), q.id = id PROVE InSight(q)' <=> InSight(q)
      <3>1. \A x \in {y, hand[t]} : ~(IsData(x) /\ x.id = q.id)
        BY <1>1, <1>5, <1>8, <1>12, <2>1 
      <3> QED
        BY <1>7, <2>1, <3>1, SightSame DEF RefInv, IndInv
    <2> QED
      BY <2>1, CarriedSame DEF RefInv, IndInv
  <1>13. \A id : Told(id)' = Told(id) /\ Waiting' = Waiting
    BY <1>11, FlushersTell DEF RefInv
  <1>14. Told(n) = {} /\ Carried(n) = {EmptyNa}
    BY <1>1, <1>6, <1>9, ToldNothing DEF Carried, RefInv
  <1>15. Carried(n)' = {na}
    <2>1. InHand(n)' = {t}
      <3>1. InHand(n)' = (InHand(n) \ {t}) \cup {t}
        BY <1>7, <1>8, HandMoves DEF RefInv, IndInv, IsData
      <3> QED
        BY <1>9, <3>1
    <2>2. Out(n)' = {}
      BY <1>7, <1>9 DEF Out
    <2>3. hand'[t].dstNa = na
      BY <1>7, <1>8 DEF RefInv, IndInv, TypeOK
    <2> QED
      BY <2>1, <2>2, <2>3 DEF Carried
  <1>16. AddressOf(n) = EmptyNa /\ AddressOf(n)' = na
    <2>1. Carried(n) \cup Told(n) = {EmptyNa} /\ Carried(n)' \cup Told(n)' = {na}
      BY <1>13, <1>14, <1>15
    <2> QED
      BY <2>1, AddressIsChosen, ChosenOne
  <1>17. ASSUME NEW id, id # n PROVE AddressOf(id)' = AddressOf(id)
    <2>1. Carried(id)' = Carried(id) /\ Told(id)' = Told(id)
      BY <1>12, <1>13, <1>17
    <2> QED
      BY <2>1, AddressIsChosen
  <1>18. Asked' = Asked
    BY <1>11, AskedSame DEF FlushersSame, RefInv
  <1>19. Address' = [Address EXCEPT ![n] = na]
    BY <1>16, <1>17 DEF Address, DataIds
  <1>20. Address[n] = EmptyNa /\ \A h \in Guids : n \notin Waiting[h]
    BY <1>9, <1>10, <1>16, BatchPlaces DEF Address, Waiting, RefInv
  <1>21. R!Resolve(n, g)
    BY <1>3, <1>6, <1>7, <1>13, <1>18, <1>19, <1>20
    DEF R!Resolve, R!New, R!Known, Cached, Address, Waiting, Asked
  <1> QED
    BY <1>6, <1>10, <1>21 DEF R!Next

(* Nobody emits a batch while a thread holds a packet back, and one thread *)
(* at most does.                                                           *)
LEMMA NobodyFlushes ==
  ASSUME IndInv, NEW t \in Threads, pc[t] \in {"dataHold", "responseUpdate"}
  PROVE  /\ ~\E u \in Threads : pc[u] = "responseFlush"
         /\ \A g : ~BeingFlushed(g)
  <1>1. ASSUME NEW u \in Threads, pc[u] = "responseFlush" PROVE FALSE
    <2>1. cacheWriter = u /\ u # None
      BY <1>1, CacheAssumption DEF IndInv, LockOK, WritingLabels
    <2>2. CASE pc[t] = "dataHold"
      BY <2>1, <2>2 DEF IndInv, LockOK, ReadingLabels
    <2>3. CASE pc[t] = "responseUpdate"
      BY <1>1, <2>1, <2>3 DEF IndInv, LockOK, WritingLabels
    <2> QED
      BY <2>2, <2>3
  <1> QED
    BY <1>1 DEF BeingFlushed, Flushing

LEMMA HoldRefines ==
  ASSUME RefInv, IndInv', NEW t \in Threads, DataHold(t)
  PROVE  [R!Next]_R!vars
  <1>1. PICK p : p = hand[t]
    OBVIOUS
  <1>2. PICK g : g = p.guid
    OBVIOUS
  <1>3. PICK n : n = p.id
    OBVIOUS
  <1>4. PICK y : y = IF HasPending(g) THEN None ELSE RequestFor(p)
    OBVIOUS
  <1>5. /\ p \in DataPacket /\ IsData(p) /\ p.dstNa = EmptyNa /\ g \in Guids /\ ~Cached(g)
        /\ n \in Nat \ {0}
    BY <1>1, <1>2, <1>3, CacheAssumption
    DEF DataHold, Step, RefInv, IndInv, HandOK, MissOK, LookupOK, IsData, DataPacket, Packets,
        PacketsOK, IdsOK
  <1>6. /\ hand' = [hand EXCEPT ![t] = y] /\ out' = out /\ guidNas' = guidNas
        /\ \A h \in Guids : pendingPackets'[h] = IF h = g THEN Append(pendingPackets[g], p)
                                                          ELSE pendingPackets[h]
        /\ pc[t] = "dataHold" /\ pc' = [pc EXCEPT ![t] = "dataRelease"]
    BY <1>1, <1>2, <1>4 DEF DataHold, Step, Goto, RefInv, IndInv, TypeOK
  <1>7. ~IsData(y)
    BY <1>4 DEF RequestFor, IsData
  <1>8. /\ InHand(n) = {t} /\ Places(n) = {} /\ Out(n) = {} /\ n <= Arrived
    <2>1. t \in InHand(n)
      BY <1>1, <1>3, <1>5 DEF InHand, IsData
    <2> QED
      BY <1>5, <2>1 DEF RefInv, PacketsOK, PlacesOK, InOnePlace, Nowhere
  <1>9. n \in DataIds
    BY <1>5, <1>8, CacheAssumption DEF DataIds, RefInv, LookupOK, IndInv, TypeOK, Arrived, Ports
  <1>10. /\ \A h : ~BeingFlushed(h) /\ ~BeingFlushed(h)'
         /\ \A id : Told(id) = {} /\ Told(id)' = {}
    <2>1. ~\E u \in Threads : pc[u] = "responseFlush"
      BY <1>6, NobodyFlushes DEF RefInv
    <2>2. ~\E u \in Threads : pc'[u] = "responseFlush"
      BY <1>6, <2>1 DEF RefInv, IndInv, TypeOK
    <2> QED
      BY <2>1, <2>2 DEF BeingFlushed, Flushing, Told
  <1>11. ASSUME NEW id, id # n PROVE AddressOf(id)' = AddressOf(id)
    <2>1. ASSUME NEW q, IsData(q), q.id = id PROVE InSight(q)' <=> InSight(q)
      <3>1. \A x \in {y, hand[t]} : ~(IsData(x) /\ x.id = q.id)
        BY <1>1, <1>3, <1>7, <1>11, <2>1
      <3>2. hand' = [hand EXCEPT ![t] = y] /\ out' = out
        BY <1>6
      <3> QED
        BY <2>1, <3>1, <3>2, SightSame DEF RefInv, IndInv
    <2>2. Carried(id)' = Carried(id)
      BY <2>1, CarriedSame DEF RefInv, IndInv
    <2>3. Told(id)' = Told(id)
      BY <1>10
    <2> QED
      BY <2>2, <2>3, AddressIsChosen
  <1>12. AddressOf(n) = EmptyNa /\ AddressOf(n)' = EmptyNa
    <2>1. Carried(n) = {EmptyNa}
      BY <1>1, <1>5, <1>8 DEF Carried
    <2>2. InHand(n)' = {}
      <3>1. InHand(n)' = (InHand(n) \ {t}) \cup {}
        BY <1>6, <1>7, HandMoves DEF RefInv, IndInv, IsData
      <3> QED
        BY <1>8, <3>1
    <2>3. Carried(n)' = {}
      BY <1>6, <1>8, <2>2 DEF Carried, Out
    <2>4. Carried(n) \cup Told(n) = {EmptyNa} /\ Carried(n)' \cup Told(n)' = {}
      BY <1>10, <2>1, <2>3
    <2> QED
      BY <2>4, AddressIsChosen, ChosenOne
  <1>13. Address' = Address
    BY <1>11, <1>12 DEF Address, DataIds
  <1>14. BatchIds(g)' = BatchIds(g) \cup {n} /\ \A h \in Guids \ {g} : BatchIds(h)' = BatchIds(h)
    <2>1. PICK b : b = pendingPackets[g]
      OBVIOUS
    <2>2. b \in Seq(DataPacket)
      BY <1>5, <2>1 DEF RefInv, IndInv, TypeOK
    <2>3. PICK k \in Nat : k = Len(b) /\ DOMAIN b = 1..k
      BY <2>2
    <2>4. /\ DOMAIN Append(b, p) = 1..(k + 1) /\ Append(b, p)[k + 1] = p
          /\ \A j \in 1..k : Append(b, p)[j] = b[j]
      BY <1>5, <2>2, <2>3
    <2>5. pendingPackets'[g] = Append(b, p)
      BY <1>5, <1>6, <2>1
    <2>6. \A j : j \in 1..(k + 1) <=> j \in 1..k \/ j = k + 1
      BY <2>3
    <2>7. BatchIds(g)' = BatchIds(g) \cup {n}
      BY <1>3, <2>1, <2>3, <2>4, <2>5, <2>6 DEF BatchIds
    <2> QED
      BY <1>6, <2>7 DEF BatchIds
  <1>15. Waiting' = [Waiting EXCEPT ![g] = @ \cup {n}]
    BY <1>10, <1>14 DEF Waiting
  <1>16. HasPending(g) <=> g \in Asked
    BY <1>5 DEF RefInv, RequestOK, Asked
  <1>17. Asked' = Asked \cup {g}
    <2>1. ASSUME NEW h \in Guids, h # g \/ HasPending(g)
          PROVE  OwnRequests(h)' = OwnRequests(h)
      <3>1. ~(hand[t].guid = h /\ ~HasPending(h))
        BY <1>1, <1>2, <2>1
      <3> QED
        BY <3>1, OwnStep DEF Handle, RefInv
    <2>2. CASE HasPending(g)
      BY <1>16, <2>1, <2>2 DEF Asked
    <2>3. CASE ~HasPending(g)
      <3>1. OwnRequests(g) = {}
        BY <1>5, <1>16, <2>3 DEF Asked
      <3>2. OwnRequests(g)' # {}
        BY <1>1, <1>2, <1>5, <2>3, <3>1, FirstHold DEF RefInv
      <3> QED
        BY <1>5, <2>1, <3>2 DEF Asked
    <2> QED
      BY <2>2, <2>3
  <1>18. Waiting[g] = {} <=> ~HasPending(g)
    <2>1. pendingPackets[g] \in Seq(DataPacket)
      BY <1>5 DEF RefInv, IndInv, TypeOK
    <2>2. DOMAIN pendingPackets[g] = {} <=> pendingPackets[g] = <<>>
      <3>1. pendingPackets[g] = <<>> <=> Len(pendingPackets[g]) = 0
        BY <2>1, EmptySeq
      <3>2. PICK k \in Nat : k = Len(pendingPackets[g]) /\ DOMAIN pendingPackets[g] = 1..k
        BY <2>1
      <3>3. 1..k = {} <=> k = 0
        OBVIOUS
      <3> QED
        BY <3>1, <3>2, <3>3
    <2>3. BatchIds(g) = {} <=> DOMAIN pendingPackets[g] = {}
      BY DEF BatchIds
    <2> QED
      BY <1>5, <1>10, <2>2, <2>3 DEF Waiting, HasPending
  <1>19. Address[n] = EmptyNa /\ \A h \in Guids : n \notin Waiting[h]
    BY <1>8, <1>9, <1>12, BatchPlaces DEF Address, Waiting, RefInv
  <1>20. R!Wait(n, g)
    BY <1>5, <1>6, <1>13, <1>15, <1>16, <1>17, <1>18, <1>19
    DEF R!Wait, R!New, R!Known, Cached, Address, Waiting, Asked
  <1> QED
    BY <1>5, <1>9, <1>20 DEF R!Next

(* The response is newer: all packets that wait get its NA at once, though *)
(* the loop has yet to emit them.                                          *)
LEMMA UpdateRefines ==
  ASSUME 0 \notin Versions, RefInv, IndInv', NEW t \in Threads, ResponseUpdate(t)
  PROVE  [R!Next]_R!vars
  <1>1. PICK r : r = hand[t]
    OBVIOUS
  <1>2. PICK g : g = r.guid
    OBVIOUS
  <1>3. /\ r \in ResponsePacket /\ g \in Guids /\ r.version \in Versions \ {0} /\ r.na \in NAs
        /\ pc[t] = "responseUpdate" /\ r.version \in Nat
    <2>1. pc[t] = "responseUpdate"
      BY DEF ResponseUpdate, Step
    <2>2. r \in ResponsePacket /\ r.version \in Versions
      BY <1>1, <2>1 DEF RefInv, IndInv, HandOK
    <2>3. r # None
      BY <2>2, CacheAssumption DEF Packets
    <2> QED
      BY <1>1, <1>2, <2>1, <2>2, <2>3, CacheAssumption
      DEF RefInv, AddressOK, FitLabels, Fit, ResponsePacket
  <1>4. hand' = hand /\ out' = out /\ pendingPackets' = pendingPackets
    BY DEF ResponseUpdate
  <1>5. /\ ~\E u \in Threads : pc[u] = "responseFlush"
        /\ \A h : ~BeingFlushed(h)
    BY <1>3, NobodyFlushes DEF RefInv
  <1>6. \A id : Carried(id)' = Carried(id) /\ Told(id) = {}
    BY <1>4, <1>5 DEF Carried, InHand, Out, Told
  <1>7. Asked' = Asked
    BY <1>3, AskedSame DEF Handle, RefInv, DataHold, Step
  <1>8. \A h : BatchIds(h)' = BatchIds(h)
    BY <1>4 DEF BatchIds
  <1>9. PICK newer \in BOOLEAN : newer <=>
          /\ (HasPending(g) \/ r.dstNa = MyNa) \/ Cached(g)
          /\ r.version > InfoOf(g).version
    OBVIOUS
  <1>10. CASE ~newer
    <2>1. guidNas' = guidNas
      <3>1. CASE HasPending(g) \/ r.dstNa = MyNa
        <4>1. guidNas' = WithInfo(g, InfoOf(g))
          BY <1>1, <1>2, <1>9, <1>10, <3>1 DEF ResponseUpdate
        <4>2. Cached(g)
          BY <1>3, <1>9, <1>10, <3>1 DEF InfoOf
        <4>3. DOMAIN guidNas \cup {g} = DOMAIN guidNas
          BY <4>2 DEF Cached
        <4> QED
          BY <4>1, <4>2, <4>3 DEF WithInfo, InfoOf, RefInv, IndInv, TypeOK
      <3>2. CASE ~(HasPending(g) \/ r.dstNa = MyNa)
        BY <1>1, <1>2, <1>9, <1>10, <3>2 DEF ResponseUpdate
      <3> QED
        BY <3>1, <3>2
    <2>2. pc' = [pc EXCEPT ![t] = "responseRelease"]
      BY <1>1, <1>2, <1>9, <1>10 DEF ResponseUpdate, Step, Goto
    <2>3. FlushersSame(t) /\ ~DataHold(t)
      BY <1>3, <1>4, <2>2 DEF FlushersSame, Handle, DataHold, Step, RefInv, IndInv, TypeOK
    <2>4. \A q : InSight(q)' <=> InSight(q)
      BY <1>4 DEF InSight
    <2> QED
      BY <2>1, <2>3, <2>4, QuietStep DEF RefInv
  <1>11. CASE newer
    <2>1. guidNas' = WithInfo(g, [na |-> r.na, version |-> r.version])
      BY <1>1, <1>2, <1>9, <1>11 DEF ResponseUpdate
    <2>2. pc' = [pc EXCEPT ![t] = IF HasPending(g) THEN "responseFlush" ELSE "responseRelease"]
      BY <1>1, <1>2, <1>9, <1>11 DEF ResponseUpdate, Step, Goto
    <2>3. \A u \in Threads : pc'[u] = "responseFlush" <=> u = t /\ HasPending(g)
      BY <1>5, <2>2 DEF RefInv, IndInv, TypeOK
    <2>4. \A h : BeingFlushed(h)' <=> h = g /\ HasPending(g)
      BY <1>1, <1>2, <1>4, <2>3 DEF BeingFlushed, Flushing
    <2>5. ~HasPending(g) => BatchIds(g) = {}
      BY DEF HasPending, BatchIds
    <2>6. Waiting' = [Waiting EXCEPT ![g] = {}]
      BY <1>5, <1>8, <2>4, <2>5 DEF Waiting
    <2>7. ASSUME NEW id PROVE Told(id)' = IF id \in BatchIds(g) THEN {r.na} ELSE {}
      <3>1. hand'[t].guid = g /\ hand'[t].na = r.na /\ BatchIds(g)' = BatchIds(g)
        BY <1>1, <1>2, <1>4, <1>8
      <3>2. CASE id \in BatchIds(g)
        <4>1. HasPending(g)
          BY <2>5, <3>2
        <4>2. \A u \in Threads : pc'[u] = "responseFlush" <=> u = t
          BY <2>3, <4>1
        <4> QED
          BY <3>1, <3>2, <4>2 DEF Told
      <3>3. CASE id \notin BatchIds(g)
        <4>1. ASSUME NEW u \in Threads, pc'[u] = "responseFlush"
              PROVE  (id \notin BatchIds(hand[u].guid))'
          BY <2>3, <3>1, <3>3, <4>1
        <4> QED
          BY <3>3, <4>1 DEF Told
      <3> QED
        BY <3>2, <3>3
    <2>8. ASSUME NEW id \in BatchIds(g) PROVE AddressOf(id)' = r.na
      <3>1. pendingPackets[g] \in Seq(DataPacket)
        BY <1>3 DEF RefInv, IndInv, TypeOK
      <3>2. PICK i \in DOMAIN pendingPackets[g] : pendingPackets[g][i].id = id
        BY DEF BatchIds
      <3>3. i \in Nat /\ id \in Nat \ {0}
        BY <1>3, <3>1, <3>2 DEF RefInv, PacketsOK, IdsOK
      <3>4. <<g, i>> \in Places(id)
        BY <1>3, <3>2, <3>3, PlaceHolds
      <3>5. InHand(id) = {} /\ Out(id) = {}
        BY <3>3, <3>4 DEF RefInv, PacketsOK, PlacesOK, InOnePlace, Nowhere
      <3>6. Carried(id)' = {}
        BY <1>6, <3>5 DEF Carried
      <3>7. Told(id)' = {r.na}
        BY <2>7
      <3> QED
        BY <3>6, <3>7, AddressIsChosen, ChosenOne
    <2>9. ASSUME NEW id, id \notin BatchIds(g) PROVE AddressOf(id)' = AddressOf(id)
      <3>1. Carried(id)' = Carried(id) /\ Told(id)' = Told(id)
        BY <1>6, <2>7, <2>9
      <3> QED
        BY <3>1, AddressIsChosen
    <2>10. Address' = [id \in DataIds |-> IF id \in Waiting[g] THEN r.na ELSE Address[id]]
      BY <1>3, <1>5, <2>8, <2>9 DEF Address, Waiting, DataIds
    <2>11. r.version > (IF Cached(g) THEN guidNas[g].version ELSE 0)
      BY <1>9, <1>11 DEF InfoOf
    <2>12. R!Learn(g, r.na, r.version)
      BY <1>7, <2>1, <2>6, <2>10, <2>11
      DEF R!Learn, R!Known, Cached, WithInfo, Address, Waiting, Asked
    <2> QED
      BY <1>3, <2>12 DEF R!Next
  <1> QED
    BY <1>10, <1>11
(* The loop takes no effect: its packets have been told the NA.            *)
LEMMA FlushRefines ==
  ASSUME RefInv, IndInv', NEW t \in Threads, ResponseFlush(t)
  PROVE  UNCHANGED R!vars
  <1>1. PICK g : g = hand[t].guid
    OBVIOUS
  <1>2. PICK na : na = hand[t].na
    OBVIOUS
  <1>3. PICK batch : batch = pendingPackets[g]
    OBVIOUS
  <1>4. /\ g \in Guids /\ batch \in Seq(DataPacket) /\ batch # <<>>
        /\ pc[t] = "responseFlush" /\ na \in AnyNa
    BY <1>1, <1>2, <1>3
    DEF ResponseFlush, Step, RefInv, IndInv, HandOK, FlushOK, HasPending, TypeOK, ResponsePacket
  <1>5. PICK n \in Nat : n = Len(batch)
    BY <1>4
  <1>6. /\ n # 0 /\ DOMAIN batch = 1..n /\ Head(batch) = batch[1]
        /\ DOMAIN Tail(batch) = 1..(n - 1) /\ \A i \in 1..(n - 1) : Tail(batch)[i] = batch[i + 1]
    BY <1>4, <1>5
  <1>7. PICK p : p = [Head(batch) EXCEPT !.dstNa = na]
    OBVIOUS
  <1>8. /\ p \in DataPacket /\ IsData(p) /\ p.id = batch[1].id /\ p.id \in Nat \ {0}
        /\ p.dstNa = na
    <2>1. batch[1] \in DataPacket /\ batch[1].id \in Nat \ {0}
      BY <1>3, <1>4, <1>6 DEF RefInv, PacketsOK, IdsOK
    <2>2. p \in DataPacket
      BY <1>4, <1>6, <1>7, <2>1 DEF DataPacket
    <2> QED
      BY <1>6, <1>7, <2>1, <2>2, CacheAssumption DEF DataPacket, Packets, IsData
  <1>9. /\ hand' = hand /\ out' = out \cup {Sent(p)} /\ guidNas' = guidNas
        /\ pendingPackets'[g] = Tail(batch)
        /\ \A h \in Guids \ {g} : pendingPackets'[h] = pendingPackets[h]
        /\ pc' = [pc EXCEPT ![t] = IF n = 1 THEN "responseRelease" ELSE "responseFlush"]
    BY <1>1, <1>2, <1>3, <1>4, <1>5, <1>7
    DEF ResponseFlush, Step, Goto, RefInv, IndInv, TypeOK
  <1>10. ASSUME NEW u \in Threads
         PROVE  /\ pc[u] = "responseFlush" <=> u = t
                /\ pc'[u] = "responseFlush" <=> u = t /\ n # 1
    <2>1. pc[u] = "responseFlush" <=> u = t
      BY <1>4 DEF RefInv, IndInv, LockOK, WritingLabels
    <2> QED
      BY <1>9, <2>1 DEF RefInv, IndInv, TypeOK
  <1>11. /\ InHand(p.id) = {} /\ Out(p.id) = {}
         /\ \A i \in 1..n : batch[i].id = p.id => i = 1
    <2>1. ASSUME NEW i \in 1..n, batch[i].id = p.id PROVE <<g, i>> \in Places(p.id)
      BY <1>3, <1>4, <1>6, <2>1, PlaceHolds
    <2>2. <<g, 1>> \in Places(p.id)
      BY <1>5, <1>6, <1>8, <2>1
    <2>3. InHand(p.id) = {} /\ Out(p.id) = {} /\ \E place : Places(p.id) = {place}
      BY <1>8, <2>2 DEF RefInv, PacketsOK, PlacesOK, InOnePlace, Nowhere
    <2> QED
      BY <2>1, <2>2, <2>3
  <1>12. /\ BatchIds(g) = {batch[i].id : i \in 1..n}
         /\ BatchIds(g)' = {batch[i + 1].id : i \in 1..(n - 1)}
    <2>1. BatchIds(g) = {batch[i].id : i \in 1..n}
      BY <1>3, <1>6 DEF BatchIds
    <2>2. BatchIds(g)' = {Tail(batch)[i].id : i \in 1..(n - 1)}
      <3>1. BatchIds(g)' = {pendingPackets'[g][i].id : i \in DOMAIN pendingPackets'[g]}
        BY DEF BatchIds
      <3> QED
        BY <1>6, <1>9, <3>1
    <2>3. {Tail(batch)[i].id : i \in 1..(n - 1)} = {batch[i + 1].id : i \in 1..(n - 1)}
      BY <1>6
    <2> QED
      BY <2>1, <2>2, <2>3
  <1>13. p.id \in BatchIds(g) /\ p.id \notin BatchIds(g)'
    BY <1>5, <1>6, <1>8, <1>11, <1>12
  <1>14. ASSUME NEW id, id # p.id PROVE id \in BatchIds(g)' <=> id \in BatchIds(g)
    <2>1. ASSUME NEW i \in 1..n, id = batch[i].id PROVE i - 1 \in 1..(n - 1) /\ batch[(i - 1) + 1].id = id
      BY <1>8, <1>14, <2>1
    <2>2. id \in BatchIds(g) => id \in BatchIds(g)'
      BY <1>12, <2>1
    <2>3. \A i \in 1..(n - 1) : i + 1 \in 1..n
      OBVIOUS
    <2> QED
      BY <1>12, <2>2, <2>3
  <1>15. Waiting' = Waiting
    <2>1. \A h : /\ BeingFlushed(h) <=> h = g
                 /\ BeingFlushed(h)' <=> h = g /\ n # 1
      BY <1>1, <1>9, <1>10 DEF BeingFlushed, Flushing
    <2>2. n = 1 => BatchIds(g)' = {}
      BY <1>12
    <2>3. \A h \in Guids \ {g} : BatchIds(h)' = BatchIds(h)
      BY <1>9 DEF BatchIds
    <2> QED
      BY <2>1, <2>2, <2>3 DEF Waiting
  <1>16. ASSUME NEW id
         PROVE  /\ Told(id) = IF id \in BatchIds(g) THEN {na} ELSE {}
                /\ Told(id)' = IF id \in BatchIds(g)' THEN {na} ELSE {}
    <2>1. Told(id) = IF id \in BatchIds(g) THEN {na} ELSE {}
      BY <1>1, <1>2, <1>10 DEF Told
    <2>2. hand'[t].guid = g /\ hand'[t].na = na
      BY <1>1, <1>2, <1>9
    <2>3. CASE n = 1
      BY <1>10, <1>12, <2>1, <2>3 DEF Told
    <2>4. CASE n # 1
      BY <1>10, <2>1, <2>2, <2>4 DEF Told
    <2> QED
      BY <2>3, <2>4
  <1>17. AddressOf(p.id)' = AddressOf(p.id)
    <2>1. Carried(p.id) = {} /\ Told(p.id) = {na}
      BY <1>11, <1>13, <1>16 DEF Carried
    <2>2. InHand(p.id)' = {}
      BY <1>9, <1>11 DEF InHand
    <2>3. Out(p.id)' = {Sent(p)}
      BY <1>8, <1>9, <1>11 DEF Out, Sent, IsData
    <2>4. Carried(p.id)' = {na}
      BY <1>8, <2>2, <2>3 DEF Carried, Sent
    <2>5. Told(p.id)' = {}
      BY <1>13, <1>16
    <2>6. Carried(p.id) \cup Told(p.id) = Carried(p.id)' \cup Told(p.id)'
      BY <2>1, <2>4, <2>5
    <2> QED
      BY <2>6, AddressIsChosen
  <1>18. ASSUME NEW id, id # p.id PROVE AddressOf(id)' = AddressOf(id)
    <2>1. ASSUME NEW q, IsData(q), q.id = id PROVE InSight(q)' <=> InSight(q)
      BY <1>9, <1>18, <2>1 DEF InSight, Sent
    <2>2. Carried(id)' = Carried(id)
      BY <2>1, CarriedSame DEF RefInv, IndInv
    <2>3. Told(id)' = Told(id)
      BY <1>14, <1>16, <1>18
    <2> QED
      BY <2>2, <2>3, AddressIsChosen
  <1>19. Address' = Address
    BY <1>17, <1>18 DEF Address, DataIds
  <1>20. Asked' = Asked
    BY <1>4, AskedSame DEF Handle, RefInv, DataHold, Step
  <1> QED
    BY <1>9, <1>15, <1>19, <1>20, Unchanged
(* The other steps: nothing of a data packet changes, but that it is       *)
(* pushed.                                                                 *)
LEMMA QuietRefines ==
  ASSUME RefInv, IndInv', NEW t \in Threads, Push(t) \/ Handle(t),
         ~\E in \in DataInputs : DataArrive(t, in),
         ~DataHit(t), ~DataHold(t), ~ResponseUpdate(t), ~ResponseFlush(t)
  PROVE  UNCHANGED R!vars
  <1> USE DEF RefInv, IndInv
  <1>1. hand = [hand EXCEPT ![t] = hand[t]]
    BY DEF TypeOK
  <1>2. ASSUME NEW y, hand' = [hand EXCEPT ![t] = y], ~IsData(y), ~IsData(hand[t]), out' = out,
               NEW q, IsData(q)
        PROVE  InSight(q)' <=> InSight(q)
    <2>1. \A u \in Threads : hand'[u] = IF u = t THEN y ELSE hand[u]
      BY <1>2 DEF TypeOK
    <2>2. q # y /\ q # hand[t]
      BY <1>2
    <2> QED
      BY <1>2, <2>1, <2>2 DEF InSight
  <1>3. ASSUME NEW q, IsData(q) PROVE InSight(q)' <=> InSight(q)
    <2>1. CASE hand' = hand /\ out' = out
      BY <2>1 DEF InSight
    <2>2. ASSUME NEW in \in RequestInputs, RequestArrive(t, in)
          PROVE  InSight(q)' <=> InSight(q)
      <3> DEFINE y == [kind |-> "request", id |-> arrived'["request"],
                       guid |-> in.guid, srcNa |-> in.srcNa, dstNa |-> in.dstNa]
      <3>1. hand' = [hand EXCEPT ![t] = y] /\ out' = out /\ ~IsData(y) /\ ~IsData(hand[t])
        BY <2>2 DEF RequestArrive, Take, Step, HandOK, IsData
      <3> HIDE DEF y
      <3> QED
        BY <1>2, <1>3, <3>1
    <2>3. ASSUME NEW in \in ResponseInputs, ResponseArrive(t, in)
          PROVE  InSight(q)' <=> InSight(q)
      <3> DEFINE y == [kind |-> "response", id |-> arrived'["response"],
                       guid |-> in.guid, srcNa |-> in.srcNa, dstNa |-> in.dstNa,
                       na |-> in.na, version |-> in.version, nonce |-> in.nonce]
      <3>1. hand' = [hand EXCEPT ![t] = y] /\ out' = out /\ ~IsData(y) /\ ~IsData(hand[t])
        BY <2>3 DEF ResponseArrive, Take, Step, HandOK, IsData
      <3> HIDE DEF y
      <3> QED
        BY <1>2, <1>3, <3>1
    <2>4. ASSUME RequestHit(t) \/ RequestMiss(t) PROVE InSight(q)' <=> InSight(q)
      <3>1. hand[t] \in RequestPacket /\ out' = out
        BY <2>4 DEF RequestHit, RequestMiss, Step, HandOK
      <3>2. PICK y : hand' = [hand EXCEPT ![t] = y] /\ y.kind # "data"
        <4>1. CASE RequestHit(t)
          <5>1. PICK nonce \in Nonces : hand' = [hand EXCEPT ![t] = ResponseTo(@, nonce)]
            BY <4>1 DEF RequestHit
          <5>2. ResponseTo(hand[t], nonce).kind # "data"
            BY DEF ResponseTo
          <5> QED
            BY <5>1, <5>2
        <4>2. CASE RequestMiss(t)
          <5>1. PICK na : na = IF hand[t].dstNa = EmptyNa THEN GnrsNa ELSE hand[t].dstNa
            OBVIOUS
          <5>2. PICK y : y = [hand[t] EXCEPT !.dstNa = na]
            OBVIOUS
          <5>3. hand' = [hand EXCEPT ![t] = y]
            BY <4>2, <5>1, <5>2 DEF RequestMiss, TypeOK
          <5>4. y.kind # "data"
            BY <3>1, <5>2 DEF RequestPacket
          <5> QED
            BY <5>3, <5>4
        <4> QED
          BY <2>4, <4>1, <4>2
      <3> QED
        BY <1>2, <1>3, <3>1, <3>2 DEF IsData, RequestPacket
    <2>5. ASSUME ResponseRelease(t) PROVE InSight(q)' <=> InSight(q)
      <3>1. hand[t] \in ResponsePacket /\ out' = out
        BY <2>5 DEF ResponseRelease, Step, HandOK
      <3>2. PICK y : hand' = [hand EXCEPT ![t] = y] /\ (y = None \/ y = hand[t])
        BY <2>5 DEF ResponseRelease
      <3> QED
        BY <1>2, <1>3, <3>1, <3>2 DEF IsData, ResponsePacket
    <2>6. ASSUME Emit(t) PROVE InSight(q)' <=> InSight(q)
      <3>1. hand' = [hand EXCEPT ![t] = None] /\ out' = out \cup {Sent(hand[t])}
        BY <2>6 DEF Emit
      <3> QED
        <4>1. \A u \in Threads : hand'[u] = IF u = t THEN None ELSE hand[u]
          BY <3>1 DEF TypeOK
        <4>2. (\E s \in out' : s.packet = q) <=> (\E s \in out : s.packet = q) \/ hand[t] = q
          <5>1. Sent(hand[t]).packet = hand[t]
            BY DEF Sent
          <5> QED
            BY <3>1, <5>1
        <4> QED
          BY <1>3, <4>1, <4>2 DEF InSight, IsData
    <2> QED
      BY <2>1, <2>2, <2>3, <2>4, <2>5, <2>6
      DEF Push, Handle, ResponseDuplicate, DataMiss, DataLockPending, DataRelease,
          RequestRelease, ResponseLock
  <1>4. FlushersSame(t) /\ guidNas' = guidNas
    BY DEF FlushersSame, Push, Handle, RequestArrive, ResponseDuplicate, ResponseArrive,
      DataMiss, DataLockPending, DataRelease, RequestHit, RequestMiss, RequestRelease,
      ResponseLock, ResponseRelease, Emit, Step, Goto, tableVars, TypeOK
  <1> QED
    BY <1>3, <1>4, QuietStep

-----------------------------------------------------------------------------

LEMMA StepRefines ==
  ASSUME 0 \notin Versions, RefInv, IndInv', [Next]_vars
  PROVE  [R!Next]_R!vars
  <1>1. CASE UNCHANGED vars
    <2>1. Waiting' = Waiting
      BY <1>1 DEF vars, Waiting, BeingFlushed, Flushing, BatchIds
    <2>2. Address' = Address
      BY <1>1 DEF vars, Address, AddressOf, Given, InHand, Out, BatchIds
    <2>3. Asked' = Asked
      BY <1>1 DEF vars, Asked, OwnRequests
    <2> QED
      BY <1>1, <2>1, <2>2, <2>3, Unchanged DEF vars
  <1>2. ASSUME NEW t \in Threads, Push(t) \/ Handle(t) PROVE [R!Next]_R!vars
    BY <1>2, ArriveRefines, HitRefines, HoldRefines, UpdateRefines, FlushRefines, QuietRefines
  <1> QED
    BY <1>1, <1>2 DEF Next

LEMMA LookupStep ==
  ASSUME IndInv, LookupOK, [Next]_vars
  PROVE  LookupOK'
  <1>1. CASE UNCHANGED vars
    BY <1>1 DEF vars, LookupOK, Arrived
  <1>2. ASSUME NEW t \in Threads, Push(t) \/ Handle(t) PROVE LookupOK'
    <2>1. ASSUME NEW u \in Threads, pc'[u] \in {"dataLookup", "dataLockPending", "dataHold"}
          PROVE  hand'[u].dstNa = EmptyNa
      <3>1. CASE u # t
        BY <1>2, <2>1, <3>1, OthersUntouched DEF IndInv, LookupOK
      <3>2. CASE u = t
        <4>1. ASSUME NEW in \in DataInputs, DataArrive(t, in) PROVE hand'[t].dstNa = EmptyNa
          BY <2>1, <3>2, <4>1 DEF DataArrive, Step, Goto, Take, IndInv, TypeOK
        <4>2. CASE DataMiss(t) \/ DataLockPending(t)
          BY <3>2, <4>2 DEF DataMiss, DataLockPending, Step, LookupOK
        <4>3. CASE pc' = pc
          BY <1>2, <2>1, <3>2, <4>3
          DEF LookupOK, IndInv, TypeOK, Push, Handle, DataArrive, RequestArrive, ResponseDuplicate,
            ResponseArrive, DataHit, DataMiss, DataLockPending, DataHold, DataRelease,
            RequestHit, RequestMiss, RequestRelease, ResponseLock, ResponseUpdate,
            ResponseFlush, ResponseRelease, Emit, Step, Goto
        <4> QED
          BY <1>2, <2>1, <3>2, <4>1, <4>2, <4>3
          DEF IndInv, TypeOK, Push, Handle, RequestArrive, ResponseDuplicate, ResponseArrive,
            DataHit, DataHold, DataRelease, RequestHit, RequestMiss, RequestRelease,
            ResponseLock, ResponseUpdate, ResponseFlush, ResponseRelease, Emit, Step, Goto
      <3> QED
        BY <3>1, <3>2
    <2>2. Arrived' <= MaxArrivals["data"]
      <3>1. arrived'["data"] = Arrived \/ (Arrived < MaxArrivals["data"] /\ arrived'["data"] = Arrived + 1)
        BY <1>2 DEF IndInv, TypeOK, Arrived, Ports, Arrive, Push, Handle, DataArrive,
            RequestArrive, ResponseDuplicate,
            ResponseArrive, DataHit, DataMiss, DataLockPending, DataHold, DataRelease,
            RequestHit, RequestMiss, RequestRelease, ResponseLock, ResponseUpdate,
            ResponseFlush, ResponseRelease, Emit
      <3> QED
        BY <3>1, CacheAssumption DEF LookupOK, IndInv, TypeOK, Arrived, Ports
    <2> QED
      BY <2>1, <2>2 DEF LookupOK, Arrived
  <1> QED
    BY <1>1, <1>2 DEF Next

(* If no response carries version 0, the threaded cache implements the     *)
(* atomic resolver: a lookup takes effect when a thread finds the entry, a *)
(* response when the handler writes it, and no interleaving of the         *)
(* handlers gives a packet another address or leaves one waiting.          *)
THEOREM CacheResolves ==
  ASSUME 0 \notin Versions
  PROVE  Spec => ImplementsResolver
  <1>1. Init => LookupOK /\ RequestOK /\ AddressOK
    BY CacheAssumption DEF Init, LookupOK, RequestOK, AddressOK, OwnRequests, HasPending, FitLabels,
       Arrived, Ports
  <1>2. IndInv /\ IndInv' /\ LookupOK /\ RequestOK /\ AddressOK /\ [Next]_vars
          => (LookupOK /\ RequestOK /\ AddressOK)'
    <2> SUFFICES ASSUME IndInv, IndInv', LookupOK, RequestOK, AddressOK, [Next]_vars
                 PROVE  (LookupOK /\ RequestOK /\ AddressOK)'
      OBVIOUS
    <2>1. LookupOK' /\ RequestOK'
      BY LookupStep, RequestOKStep
    <2>2. AddressOK'
      <3>1. CASE UNCHANGED vars
        BY <3>1 DEF vars, AddressOK, Fit
      <3>2. ASSUME NEW t \in Threads, Push(t) \/ Handle(t) PROVE AddressOK'
        BY <3>2, AddressStep
      <3> QED
        BY <3>1, <3>2 DEF Next
    <2> QED
      BY <2>1, <2>2
  <1>3. Init => R!Init
    <2> SUFFICES ASSUME Init PROVE R!Init
      OBVIOUS
    <2>1. \A g \in Guids : BatchIds(g) = {} /\ OwnRequests(g) = {}
      BY DEF Init, BatchIds, OwnRequests
    <2>2. ASSUME NEW id PROVE AddressOf(id) = EmptyNa
      <3>1. InHand(id) = {} /\ Out(id) = {} /\ ~\E t \in Threads : pc[t] = "responseFlush"
        BY DEF Init, InHand, Out
      <3> QED
        BY <3>1 DEF AddressOf, Given
    <2> QED
      BY <2>1, <2>2 DEF R!Init, Init, BeingFlushed
  <1>4. RefInv /\ IndInv' /\ [Next]_vars => [R!Next]_R!vars
    BY StepRefines
  <1> QED
    BY <1>1, <1>2, <1>3, <1>4, Invariance, PacketsInvariance, PTL
    DEF Spec, ImplementsResolver, R!Spec, RefInv
=============================================================================
