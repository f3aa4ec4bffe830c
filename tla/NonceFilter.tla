---------------------------- MODULE NonceFilter -----------------------------
(***************************************************************************)
(* The duplicate filter of GPS_GNRSCache: the nonces of the broadcast GNRS *)
(* responses seen last, as a FIFO (_nonceCacheQueue, oldest first) and as  *)
(* a set (_nonceCacheTable).                                               *)
(*                                                                         *)
(* A definition whose name starts with Slip is a mistake the code does not *)
(* make.                                                                   *)
(***************************************************************************)
EXTENDS Naturals, Sequences

CONSTANTS
  Nonces,          \* the 32-bit nonces a response can carry
  NonceCacheSize   \* NONCE_CACHE_SIZE, 3000 in the code

ASSUME NonceAssumption == NonceCacheSize \in Nat \ {0}

EmptyFilter == [queue |-> <<>>, table |-> {}]

(* The insertion into the table fails: addNonce returns false.             *)
Knows(filter, n) == n \in filter.table

(* The table keeps what the queue drops.                                   *)
SlipTableKeeps(filter, n) ==
  LET queue == Append(filter.queue, n)
  IN  [queue |-> IF Len(queue) > NonceCacheSize THEN Tail(queue) ELSE queue,
       table |-> filter.table \cup {n}]

(* A full queue drops the newest.                                          *)
SlipDropsNewest(filter, n) ==
  IF Len(filter.queue) = NonceCacheSize THEN filter
  ELSE [queue |-> Append(filter.queue, n), table |-> filter.table \cup {n}]

(* addNonce returns true.  The eviction loop runs at most once, because    *)
(* the queue was at most NonceCacheSize long before the push.              *)
Remembering(filter, n) ==
  LET queue == Append(filter.queue, n)
      table == filter.table \cup {n}
  IN  IF Len(queue) > NonceCacheSize
        THEN [queue |-> Tail(queue), table |-> table \ {Head(queue)}]
        ELSE [queue |-> queue, table |-> table]

(* The two containers hold the same nonces, each once, and no more than    *)
(* NonceCacheSize.                                                         *)
FilterOK(filter) ==
  /\ filter.queue \in Seq(Nonces) /\ Len(filter.queue) <= NonceCacheSize
  /\ filter.table = {filter.queue[i] : i \in DOMAIN filter.queue}
  /\ \A i, j \in DOMAIN filter.queue : filter.queue[i] = filter.queue[j] => i = j
=============================================================================
