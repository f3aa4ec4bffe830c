--------------------------------- MODULE RP ---------------------------------
(***************************************************************************)
(* GPS_RP: the rendezvous point of a set of GUIDs.  A publication is       *)
(* expanded along the graph of GUIDs: a copy goes to the subscribers of    *)
(* each GUID this RP serves (it has an entry in _mappingTable, maybe with  *)
(* no child), the children follow, and a copy goes back to the name        *)
(* resolution for each GUID another RP serves.                             *)
(*                                                                         *)
(* The work list and the visited set hold POINTERS to GUIDs: to the field  *)
(* of the packet for the first one, and to an element of the children set  *)
(* of some parent for the others.  A pointer is modelled by where it       *)
(* points, <<>> or <<parent, child>>.  _mappingTable is filled by          *)
(* configure() and only read afterwards, so the read lock never blocks.    *)
(***************************************************************************)
EXTENDS Naturals, Sequences, FiniteSets, GuidGraph

CONSTANTS
  Guids,
  Mappings     \* the mapping tables an RP can be configured with

(* A table gives each GUID it serves its children, finitely many.          *)
ASSUME MappingsAssumption ==
  \A m \in Mappings :
    /\ DOMAIN m \subseteq Guids /\ m \in [DOMAIN m -> SUBSET Guids]
    /\ \A g \in DOMAIN m : IsFiniteSet(m[g])

VARIABLES
  mappingTable,   \* _mappingTable
  dstGuid,        \* GUID of the publication in the packet
  todos,          \* pointers to expand, first in first out
  finished,       \* pointers already expanded
  toSubscribers,  \* copies pushed to the subscription table, per GUID
  toOtherRP,      \* copies pushed back to the name resolution, per GUID
  busy            \* handleData runs

vars == <<mappingTable, dstGuid, todos, finished, toSubscribers, toOtherRP, busy>>

Pointers == {Header} \cup (Guids \X Guids)

(* What a pointer points to.                                               *)
GuidAt(p) == IF p = Header THEN dstGuid ELSE p[2]

Serves(g) == g \in DOMAIN mappingTable
Children(g) == ChildrenIn(mappingTable, g)
ChildPointers(g) == {g} \X Children(g)

Nothing == [g \in Guids |-> 0]
OneMore(count, g) == [count EXCEPT ![g] = @ + 1]

Init ==
  /\ mappingTable \in Mappings
  /\ dstGuid \in Guids
  /\ todos = <<>> /\ finished = {} /\ busy = FALSE
  /\ toSubscribers = Nothing /\ toOtherRP = Nothing

(* A publication arrives: fresh work list and visited set.                 *)
Publish(g) ==
  /\ ~busy /\ busy' = TRUE
  /\ dstGuid' = g
  /\ todos' = <<Header>> /\ finished' = {}
  /\ toSubscribers' = Nothing /\ toOtherRP' = Nothing
  /\ UNCHANGED mappingTable

Pop == busy /\ todos # <<>>

(* The definitions whose names start with Slip are mistakes the code does  *)
(* not make.  The first does not look whether a pointer was expanded.      *)
SlipExpandAgain ==
  LET p == Head(todos)
  IN  /\ Pop
      /\ Serves(GuidAt(p))
      /\ \E w \in Walks(ChildPointers(GuidAt(p))) : todos' = Tail(todos) \o w
      /\ finished' = finished \cup {p}
      /\ toSubscribers' = OneMore(toSubscribers, GuidAt(p))
      /\ UNCHANGED <<mappingTable, dstGuid, toOtherRP, busy>>

(* Only the children of the GUID published are followed.                   *)
SlipExpandOneLevel ==
  LET p == Head(todos)
  IN  /\ Pop /\ p \notin finished
      /\ Serves(GuidAt(p))
      /\ \E w \in Walks(IF p = Header THEN ChildPointers(GuidAt(p)) ELSE {}) :
            todos' = Tail(todos) \o w
      /\ finished' = finished \cup {p}
      /\ toSubscribers' = OneMore(toSubscribers, GuidAt(p))
      /\ UNCHANGED <<mappingTable, dstGuid, toOtherRP, busy>>

(* The pop comes after the test, at the end of the loop.                   *)
SlipSkipNoPop ==
  /\ Pop /\ Head(todos) \in finished
  /\ UNCHANGED vars

(* The pointer was expanded before.                                        *)
Skip ==
  /\ Pop /\ Head(todos) \in finished
  /\ todos' = Tail(todos)
  /\ UNCHANGED <<mappingTable, dstGuid, finished, toSubscribers, toOtherRP, busy>>

(* Another RP serves the GUID: the copy goes there, with no NA in it.      *)
PassOn ==
  LET p == Head(todos)
  IN  /\ Pop /\ p \notin finished
      /\ ~Serves(GuidAt(p))
      /\ todos' = Tail(todos)
      /\ finished' = finished \cup {p}
      /\ toOtherRP' = OneMore(toOtherRP, GuidAt(p))
      /\ UNCHANGED <<mappingTable, dstGuid, toSubscribers, busy>>

(* This RP serves the GUID: its subscribers get a copy, its children join  *)
(* the work list.                                                          *)
Expand ==
  LET p == Head(todos)
  IN  /\ Pop /\ p \notin finished
      /\ Serves(GuidAt(p))
      /\ \E w \in Walks(ChildPointers(GuidAt(p))) : todos' = Tail(todos) \o w
      /\ finished' = finished \cup {p}
      /\ toSubscribers' = OneMore(toSubscribers, GuidAt(p))
      /\ UNCHANGED <<mappingTable, dstGuid, toOtherRP, busy>>

Return ==
  /\ busy /\ todos = <<>>
  /\ busy' = FALSE
  /\ UNCHANGED <<mappingTable, dstGuid, todos, finished, toSubscribers, toOtherRP>>

Loop == Skip \/ PassOn \/ Expand \/ Return

Next == Loop \/ \E g \in Guids : Publish(g)

Spec == Init /\ [][Next]_vars

(* A handler that started keeps running.                                   *)
FairSpec == Spec /\ WF_vars(Loop)

-----------------------------------------------------------------------------
(* Properties.                                                             *)

(* Every variable keeps its type.                                          *)
TypeOK ==
  /\ mappingTable \in Mappings
  /\ dstGuid \in Guids
  /\ todos \in Seq(Pointers)
  /\ finished \subseteq Pointers
  /\ toSubscribers \in [Guids -> Nat]
  /\ toOtherRP \in [Guids -> Nat]
  /\ busy \in BOOLEAN

Copies(g) == toSubscribers[g] + toOtherRP[g]

Done == ~busy /\ finished # {}

Reached == {g \in Guids : Copies(g) > 0}

(* The expansion reaches the descendants of the GUID published, no other   *)
(* GUID at any time, and all of them when it returns, although the visited *)
(* set compares pointers and the graph may have cycles.                    *)
CoversReachable ==
  /\ Reached \subseteq Descendants(mappingTable, dstGuid)
  /\ Done => Reached = Descendants(mappingTable, dstGuid)

(* How many copies a publication makes: one for the GUID published and one *)
(* for every link to a GUID from a GUID reached that this RP serves.       *)
OneCopyPerLink ==
  Done => \A g \in Guids :
    Copies(g) =
      Cardinality({link \in LinksBelow(mappingTable, dstGuid) : Target(link, dstGuid) = g})

(* handleData returns for every graph, cyclic ones included.               *)
Returns == busy ~> ~busy

(* The loop's comment on the visited set: a GUID already passed is left    *)
(* out ("already passed, continue"), so it is served once.                 *)
ServedOnce == \A g \in Guids : Copies(g) <= 1
=============================================================================
