------------------------------ MODULE Resolver ------------------------------
(***************************************************************************)
(* What GPS_GNRSCache promises, with no threads, locks or packets on the   *)
(* way: a packet gets its address from the binding known when it is looked *)
(* up, or waits for the first binding of its GUID, and all the packets     *)
(* that wait get that binding in one step.                                 *)
(***************************************************************************)
EXTENDS Naturals

CONSTANTS
  Guids, Ids, NAs, Versions,
  Unresolved           \* the address of a packet that has none, not in NAs

VARIABLES
  binding,    \* the binding known for a GUID: partial function to [na, version]
  waiting,    \* the packets that wait for a binding of each GUID
  address,    \* the address each packet got
  asked       \* the GUIDs asked of the name service

vars == <<binding, waiting, address, asked>>

Init ==
  /\ binding = [g \in {} |-> Unresolved]
  /\ waiting = [g \in Guids |-> {}]
  /\ address = [id \in Ids |-> Unresolved]
  /\ asked = {}

New(id) == address[id] = Unresolved /\ \A g \in Guids : id \notin waiting[g]

Known(g) == g \in DOMAIN binding

PassThrough(id, na) ==
  /\ New(id)
  /\ address' = [address EXCEPT ![id] = na]
  /\ UNCHANGED <<binding, waiting, asked>>

Resolve(id, g) ==
  /\ New(id) /\ Known(g)
  /\ address' = [address EXCEPT ![id] = binding[g].na]
  /\ UNCHANGED <<binding, waiting, asked>>

(* The first packet that waits, and only it, asks.                         *)
Wait(id, g) ==
  /\ New(id) /\ ~Known(g)
  /\ waiting[g] = {} <=> g \notin asked
  /\ waiting' = [waiting EXCEPT ![g] = @ \cup {id}]
  /\ asked' = asked \cup {g}
  /\ UNCHANGED <<binding, address>>

Learn(g, na, version) ==
  /\ version > (IF Known(g) THEN binding[g].version ELSE 0)
  /\ binding' = [h \in DOMAIN binding \cup {g} |->
                   IF h = g THEN [na |-> na, version |-> version] ELSE binding[h]]
  /\ address' = [id \in Ids |-> IF id \in waiting[g] THEN na ELSE address[id]]
  /\ waiting' = [waiting EXCEPT ![g] = {}]
  /\ UNCHANGED asked

Next ==
  \/ \E id \in Ids, na \in NAs : PassThrough(id, na)
  \/ \E id \in Ids, g \in Guids : Resolve(id, g) \/ Wait(id, g)
  \/ \E g \in Guids, na \in NAs, version \in Versions : Learn(g, na, version)

Spec == Init /\ [][Next]_vars
=============================================================================
