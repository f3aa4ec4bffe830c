----------------------------- MODULE NonceCache -----------------------------
(***************************************************************************)
(* The duplicate filter as the members of one GPS_GNRSCache.               *)
(***************************************************************************)
EXTENDS NonceFilter

VARIABLES nonceCacheQueue, nonceCacheTable

nonceVars == <<nonceCacheQueue, nonceCacheTable>>

NonceInit ==
  /\ nonceCacheQueue = EmptyFilter.queue
  /\ nonceCacheTable = EmptyFilter.table

Filter == [queue |-> nonceCacheQueue, table |-> nonceCacheTable]

KnownNonce(n) == Knows(Filter, n)

AddNonce(n) ==
  /\ ~KnownNonce(n)
  /\ nonceCacheQueue' = Remembering(Filter, n).queue
  /\ nonceCacheTable' = Remembering(Filter, n).table
=============================================================================
