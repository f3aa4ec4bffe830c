# A TLA+ development of the graph-based and the hierarchical publish/subscribe elements

The repository implements two name-based publish/subscribe networks as packages
of [Click](https://github.com/kohler/click) elements. `src/graphpubsub` (GPS)
names things by GUID: a publication to a GUID is resolved to the network
address (NA) of a rendezvous point (RP), expanded there along a graph of GUIDs,
and copied to the routers that subscribed. `src/hierarchical` (HRC) names things
by paths (`/a/b`): an RP announces prefixes, and a publication goes to the
subscribers of its name and of every prefix of it. This directory models the
parts of them that keep state, checks the models with TLC and proves theorems
about them with TLAPS.

`PROJECT.json` lists, for every definition, the lines it models; for every
property, a mistake in the code that would break it; and the hazards that the
properties are aimed at.

## 1. The system

A router is a graph of elements. `push(port, packet)` is a synchronous call from
one element to the next. `ThreadSafeQueue -> Unqueue` is where a packet changes
threads: each `Unqueue` is a task that `StaticThreadSched` gives to one thread.
An element is therefore entered by as many threads at once as there are
`Unqueue`s (or devices) upstream of it.

| Component | State | Operations | Interacts with |
|---|---|---|---|
| `GPS_GNRSCache` | `_guidNas` (GUID to NA and version), `_pendingPackets` (packets held per GUID), a rwlock for each, nonces of broadcast responses | `handleData`, `handleGNRSRequest`, `handleGNRSResponse`, `addNonce`, `emit` | data queue and network in; routing table and end hosts out; the GNRS far away |
| `GPS_RP` | `_mappingTable` (GUID to child GUIDs) | `handleData` | cache in; subscription table and, for GUIDs of other RPs, the cache out |
| `GPS_SubscriptionTable` | GUID to subscriber NAs, fixed at configuration | copy a publication to every subscriber; subscriptions are a stub | RP and network in; routing out |
| `GPS_RoutingTable` | NA to next hops and distances, fixed at configuration | annotate the next hop | ARP table out |
| `GPS_ARPTable` | NA to port and Ethernet address, fixed at configuration | unicast, broadcast to all neighbours | port switch out |
| `HRC_InterestTable`, `HRC_MulticastTable` | tries over the parts of names | `set`, `insert`, `remove`, `exactMatch`, `longestPrefixMatch`, `lookup` | used by the HRC elements |
| `HRC_ARPTable` | NA to address and its inverse | `addNAAddress`; resolve the next hop, recognise the previous one | network in and out |
| `HRC_FIB` | an interest table of next hops | forward interests and subscriptions to the longest prefix of a name | ARP table out, `HRC_RP` when the next hop is the router itself |
| `HRC_GNRSCache`, `HRC_PublicationEncapsulator` | an interest table of names of RPs, from a GNRS file | find the RP of a name; put a publication into an interest to it | FIB out |
| `HRC_SubscriptionTable` | a multicast table of next hops | copy a publication to the next hops of its prefixes, except the previous hop | ARP table out |
| `HRC_RP` | none | take the publication out of an interest, forget the previous hop | subscription table out |
| `HRC_ContentName`, `HRC_Helper` | none | split names, cut lines, read GNRS files | used by the tables |
| link elements, packet formats | none | copy between header and annotations | the elements above |

The hard behaviours, and where they are:

* **Concurrency**: `GPS_GNRSCache`. Two nested rwlocks, one of which a handler
  leaves out on purpose; batches that one thread fills and another empties;
  checks under a read lock followed by changes.
* **Ordering and unreliable delivery**: GNRS responses come from the GNRS and from
  the caches of other routers, late, twice, out of order, and flooded.
* **Floods**: a broadcast goes to every neighbour, the one it came from included, and
  only a bounded memory of nonces ends it.
* **Liveness**: a held packet waits for a response; there is no timer.
* **Networks of tables**: whether a publication arrives, arrives once and stops depends on
  the tables of all routers; an HRC tree of subscriptions is walked both ways, and only
  the NA of the previous hop keeps a copy from going back.
* **Cyclic data**: the GUID graph of `GPS_RP` may have cycles, and the visited set
  holds pointers rather than GUIDs.
* **Long sequences of calls**: the two tries prune themselves; the two maps of
  `HRC_ARPTable` must stay each other's inverse; the GNRS file parser frees strings.

What makes each correct, in a sentence:

* *cache*: every data packet that comes in leaves exactly once, resolved, in order,
  by a binding the cache had; one request per GUID; bindings only get newer; no
  packet is held that nobody will release.
* *RP*: a publication reaches the descendants of its GUID, all of them and no other,
  and the expansion ends.
* *subscription, routing and ARP tables*: a publication in the network reaches every
  subscriber and stops.
* *GNRS flood*: a router passes a change on once, it reaches every cache that has use for it, and the flood ends.
* *HRC network*: a publication, by an RP or not, reaches every subscriber to a prefix of its name once.
* *tries*: they are a map, or a relation, and lookups find the prefixes.
* *names and files*: the tables hold what the file says.
* *HRC_ARPTable*: the two maps are each other's inverse.

## 2. The modules

```
NonceFilter <- NonceCache <- GNRSCache <- GNRSCacheRefinement (-> Resolver) <- MCGNRSCache
                                                                       <- GNRSCacheProofs
            <- GNRSFlood <- MCGNRSFlood, GNRSFloodProofs
Digraph <- GuidGraph <- RP <- MCRP, RPProofs
                     <- NetworkLemmas
ConfigFile <- GPSTables (with GuidGraph) <- GPSNetwork (-> PubSub) <- MCGPSNetwork
                                                       (with NetworkLemmas) <- GPSNetworkProofs
           <- HRCTables (with Digraph) <- HRCNetwork (-> NamePubSub) <- MCHRCNetwork
                                                  (with NetworkLemmas) <- HRCNetworkProofs
NameTrie <- NameTrieProofs
         <- InterestTable (-> NameMap)
         <- MulticastTable (-> NameRelation)
InterestTable, ContentName <- GNRSFile <- MCGNRSFile
GNRSFile, MulticastTable, HRCARPTable, NameTrieProofs <- HRCTableProofs
```
(`<-` is EXTENDS, `->` is INSTANCE: the abstract specification implemented.)

Definitions whose name starts with `Slip` are mistakes the code does *not* make. They
stand before the definition they are a variant of; `PROJECT.json` names the
property that each breaks when it takes the place of the original.

### GNRSCache, NonceFilter, NonceCache, Resolver

`GNRSCache` is `GPS_GNRSCache.cc` at the grain of what another thread can see.
A step of a thread is the code between two of: a lock acquisition, a release, a
push to another element.

| Action | Code |
|---|---|
| `DataArrive`, `DataHit`, `DataMiss`, `DataLockPending`, `DataHold`, `DataRelease` | `handleData` |
| `RequestArrive`, `RequestHit`, `RequestMiss`, `RequestRelease` | `handleGNRSRequest` |
| `ResponseArrive`, `ResponseDuplicate`, `ResponseLock`, `ResponseUpdate`, `ResponseFlush`, `ResponseRelease` | `handleGNRSResponse` |
| `Emit` | the `emit` at the end of a handler |

`pc` and `hand` are the place and the packet of a thread, the lock variables are
the state of the two `pthread_rwlock_t`. `out` collects the packets pushed to the
output ports and `arrived` counts arrivals: neither is in the code, both serve
the properties. `_pendingPackets` with and without an entry of an empty batch are
the same state, since the code never leaves an empty batch.

Assumptions (`CacheAssumption`): one thread drives the response port, because
`addNonce` takes no lock; the configurations have one `Unqueue` there. Packets
of a wrong type are killed by the code without a change of state, so they have no
action. A GUID is bound to an NA of a router, never to 0 or broadcast.

`NonceFilter` is `addNonce`: a FIFO and a set that filter flooded responses, as one value;
`NonceCache` is the filter of one cache as variables.

`Resolver` is what the cache promises without threads and locks: a packet is resolved
in one step by the binding known, or waits; the first binding resolves all
waiting packets in one step; only the first packet that waits asks.
`GNRSCacheRefinement` maps the one to the other: a lookup takes effect when the
thread finds the entry, a response when it writes it.

### GNRSFlood

The caches of all routers and the GNRS packets between them, for one GUID. `GNRSCache` shows what the
locks protect, so here a handler is one step up to the point where it has released its locks, and
what it emits after that is a second step, in which the other thread of the router can come first.

| Action | Code |
|---|---|
| `HandleData`, `EmitRequest` | the first packet that misses the cache: `handleData` up to line 93, and its request |
| `HandleGNRSRequest` | answer from the entry, or pass the request on |
| `HandleGNRSResponse`, `PassOn` | the filter, the entry, the batch; then the response goes on |
| `Send` | `arpQueue` to `GPS_ARPTable`, the links, and the next routers' `inQueue`, with losses |
| `Update` | external: the GNRS has a new binding and broadcasts it |

The answer of the GNRS comes in the step that brings it the request. Data packets are only counted as held or not; what
becomes of them is the matter of the two modules on either side. A response carries no
NA, since the GNRS gives a version to one NA only. `passed`, `interested`, `losses` and
`lostAt` are not in the code and serve the properties.

What `ChangeReaches` promises, and what it does not: a change reaches the routers that had an entry or held packets
*when it was broadcast*. A router that asks while the flood passes can be answered with the
older version by a cache that the change has not reached, after it has itself let
the change through as none of its business; nothing corrects it until the next change.
The code accepts that: a GNRS entry is a hint, and a stale one is followed.

### RP

`GPS_RP::handleData`, one action for each way through its loop: `Skip` (pointer already in
`finished`), `PassOn` (GUID of another RP), `Expand`, and `Return`. A `const gps_guid_t *`
is modelled by where it points: into the packet's header, or at one element of one
parent's children. This matters: the visited set `finished` compares addresses, so a
GUID is expanded once for every *link* that leads to it. An `unordered_set` is
walked in any order. The mapping table is any of the set `Mappings`, since the element
reads it from a file and never changes it. `GuidGraph` has what the network needs of the
graph too: links and walks; `Digraph`, the descendants of a node, is shared by everything that is about ways.

### GPSNetwork, GPSTables, PubSub

A publication in a network of routers wired as in `ben-router.click` and `ben-rp.click`. A router
is four queues, each emptied by the task of its `Unqueue`; an element calls the next
one synchronously up to the next queue, so a step is everything one packet taken from a queue causes.

| Action | Code |
|---|---|
| `Publish` | a client's `GPS_TEST_PubWrapper`, up to the access router's `inQueue` |
| `Classify` | `inQueue` to `pubClassifier` to `gnrsDataQueue` or `subQueue` |
| `Resolve`, `Hold` | `gnrsDataQueue` to the cache, then `GPS_RoutingTable` and `arpQueue`, or `GPS_RP` and `subQueue`, `gnrsDataQueue` |
| `Answer` | the GNRS response: the batch takes the same ways |
| `Copy` | `subQueue` to `GPS_SubscriptionTable` to `arpQueue` |
| `Send` | `arpQueue` to `GPS_ARPTable`, `GPS_PortSwitch`, the link, the neighbour's `inQueue` |

The cache is taken by its specification (`Resolver`) and the expansion by what `RP` shows
it to return: one copy per link. The RP serves some of the copies and passes the others on, to two queues, so `Expansions` takes each
queue in an order of its own, with the copy for the packet's own GUID first. An output queue, the link and the next router's input queue are in
a row, so they are one queue. Discarded packets vanish; a queue that is full drops what comes
(`overflowed`).

`ConfigFile` is the loop over lines that all `parseArgFile` have in common. Lines are the fields that the loop finds: where `getPart` returns -1 at the end of a
last line without newline, it may find the last field again, so that a lone GUID of an RP becomes its own child.
`GPSTables` is the four of them in GPS: from the fields of the lines to the tables,
with skipped lines, later lines that replace earlier ones, the minimum over next hops
(a tie may fall either way, as the order of an `unordered_map` decides it) and the 8-bit port.
The files of different routers must agree with each other for anything to work;
`Consistent` says on what, and `Init` assumes it: the graph is a forest, the GNRS names the RP
that serves a GUID, next hops lead to each RP and only there, without a broadcast on the way, from wherever a packet for it can start, and the subscriptions of a GUID are a tree that
grows from its RP, with one frame for each branch. Without the forest a GUID reached over two links is delivered twice
(`rp_served_once`); with a cycle over two RPs, or a GUID the GNRS binds to an RP that does not
serve it, copies go around for ever, since no packet carries a hop count or its history.

`PubSub` is the promise: each publication is delivered once to each subscriber of each descendant of its GUID. A
broadcast is delivered to several hosts in one step. A publication has the NA of an RP or none, `NodesAssumption` keeps
the NAs of routers, of hosts, 0 and broadcast apart, and files have finitely many lines.

### NameTrie, InterestTable, MulticastTable

A node of a trie is the path to it, so the nodes are a set of sequences of parts and
the values a function on them. `Set` and `Insert` grow the path; `remove` returns whether the node below it can be
deleted, all the way up, which `Emptied(name, i, held)` states for depth `i` without the
recursion. `Match` keeps the recursion of `longestPrefixMatch`, as a recursive function on
the depth. A name with and without a final `/` is walked alike by the code and is one
sequence here. `NameMap` and `NameRelation` are the abstract specifications. The operators of the two tables
have names of their own, so that one module can hold the proofs about both.

### ContentName, GNRSFile

A name is cut into parts twice in the code: `hrc_cn_parse` notes the offsets where parts start
(`Offsets`, in their order `Components`, and the parts `Parsed`), the tables take one part after the other off
the front and skip one separator each time (`PartStart`, `Walked`). `GNRSFile` is `parseGNRSFile` on lines of characters: `FieldAt` is `skipEmpty`,
`Field` is `getPart`, `Pairs` what the loop makes of a line, `Bind` the lookup, the allocation and
the free of the string that an earlier line left for the same name. A file may lack its last
newline; then a name alone on the last line becomes its own RP, because `getPart` returns -1 and the search
starts over before the name (and what it meets there, if the name starts the line, is whatever
lies before the buffer: a choice in the model). `AsWritten` holds in all other files (`status`).

### HRCNetwork, HRCTables, NamePubSub

Publications in a network of HRC routers wired as in `ben-router.click`, with hosts wired as in
`ben-client-1.interest.click` and `ben-client-1.pub.click`. The elements have no state of their own beyond the
tables, so the model is in what they make of a message.

| Action or operator | Code |
|---|---|
| `Produce` | a host: `HRC_TEST_DataWrapper`, then `HRC_PublicationEncapsulator` and `HRC_FIB`, or `HRC_SubscriptionTable`, then the link |
| `Receive` | `HRC_ARPTable::handleInPacket` finds the NA of the sender or discards; then by type |
| `Handled` | publication to `HRC_SubscriptionTable` (`Copies`); interest to `HRC_FIB` (`Forwarded`), at its RP to `HRC_RP` (`AtRP`); a subscription to the table, which kills it |
| `Send` | `HRC_ARPTable::handleOutData`, the port switch and the links |

No benchmark script puts an `HRC_RP` into a router; its place is the one it has in `test3.click` and
`test5.click`. The output queue before a device is taken together with the link. `HRCTables`
uses what `InterestTable`, `MulticastTable` and `HRCARPTable` are shown to be: a map, a relation, and the last line that was not undone.
The id of a message is not in the code: it is the place of what a host sent among all that was sent.
The assumptions are that hosts are no routers, that there are finitely many subscriptions and lines, and that links go both ways, none
of them between two hosts.
`Consistent` is what the files of a network must agree on: the way of an interest ends, without a fork, at one place, and from
every root the subscriptions are a tree (without the link between two nodes, one of them is not reached), which may be walked both ways if the
receiver of a copy knows the sender by the NA its subscription points to. An instance
where that fails on purpose is in the run: a neighbour with an IP address in its line is never recognised, because
the annotation of an incoming packet has none, and everything from it is discarded. In another, a router is known at a port beyond eight bits: it is sent to, but
what comes from it is discarded.

`NamePubSub` is the promise: each publication is delivered once to each host that subscribes to a prefix of its name.
Their order is `InOrder`, of those that were sent alike: by the same host, to the same name, with or without an RP.

### HRCARPTable

`addNAAddress`, over the lines of a file; `arpLines` remembers them for `LatestWins`.

## 3. What TLC checks

| Run | Question | States | Result |
|---|---|---|---|
| `cache_wired` | In the wiring of `ben-router.click`: packets lost, duplicated, reordered, unresolved? entries or answers going back? | 420 thousand | holds |
| `cache_live` | With a second thread on the data port: batches shared, packets stranded, requests repeated? Does every handler end, does a response empty the batch for good, and does it all implement `Resolver`? | 56 thousand | holds |
| `cache_version_zero` | Is the update "mandatory" for a response with version 0? | | **violated** |
| `rp_graphs` | Does the expansion return, having reached exactly the descendants, one copy per link? | 46 thousand: all graphs on three GUIDs, at most two children each | holds |
| `gps_network` | Does every subscriber get every publication once, in order, nobody else anything, and does the network fall silent? | 12 thousand: four networks of three routers, two publications | holds |
| `rp_served_once` | Is a GUID served once, as the comment says? | a table of our own, with two links to one GUID | **violated** |
| `gnrs_flood` | Does every router pass a change on once, does it reach the caches, do floods end, and what does a loss leave behind? | 472 thousand: three routers in a triangle, six versions, four nonces in a filter of three | holds |
| `hrc_network` | Does every subscriber get every publication once, in order, nobody else anything, and does the network fall silent? | 3 thousand: six networks of three routers and two hosts, two publications | holds |
| `interest_table` | Is the trie a map, are its lookups right, is nothing kept needlessly? | 33 thousand | holds |
| `multicast_table` | The same of the relation | 16 thousand | holds |
| `gnrs_file` | Is a string used after it was freed, or lost? Does the table say what the file says? | 34 thousand: files of up to three bindings, names of three characters | holds |
| `hrc_arp` | Are the maps inverse, does the last line win? | 66 thousand | holds |

**Bounds.** `MaxArrivals` bounds the packets at each port of the cache. Three data
packets are the least that fill a batch of two while a third is in a handler or
comes after the flush; two responses are the least that race, come out of order and come twice;
two GUIDs make batches independent of each other; two nonces in a filter of one evict and come
back. A GUID moves once (version 1 to 2), so an older response can follow a newer one. Deadlock checking is off in these runs only because arrivals run out: `HandlersFinish`
is the property that tells a deadlock from the end. `rp_graphs` has self-loops, cycles, diamonds and GUIDs served elsewhere.
`gps_network` has an RP on the way and RPs at both ends, a GUID passed from one to the other, publications
with and without an address, held behind each other, queues of capacity 1 and a
broadcast that reaches both hosts at once; two publications are the least that overtake each other or share a batch.
`CHECK_DEADLOCK` is off there because the network ends silent, which `Settles` demands.
`gnrs_flood` has two loads: one change after the other with two routers that ask and one packet lost
anywhere, and two changes at a time with nothing lost. Six versions on four nonces make a nonce come
back, and the last changes evict from the filters; the triangle is the least graph where a flood comes back by another way and
two floods cross. `FloodAssumption` asks that the GNRS be no router and that the filter remember `2 * window - 1` nonces when `window` broadcasts are under way: with fewer, a change goes
around for ever. The code has 3000.
`hrc_network` has an RP in the middle and one at the end whose interests come from the branch its copies go to, a tree without RP, hosts that subscribe to a
prefix by two lines, names without RP, a broadcast subscription, ports beyond eight bits, senders that are not recognised, for an IP address or for such a port, and queues of capacity 1.
The tries have depth 3 (a middle node with and without value, siblings at each level) or depth
2 with two values; files have 4 and 5 lines, so a name, an NA and an address are each rebound more than once.

**Fairness.** `FairSpec` of the cache is weak fairness of each thread's handler
steps: a Click thread that is running a handler keeps running it. Nothing forces packets
to arrive. With bounded arrivals, weak fairness is enough to acquire a lock; that a
`pthread_rwlock` cannot starve a writer under an endless stream of readers is not
claimed (the default rwlock can). `FairSpec` of `RP` is weak fairness of its loop. `FairSpec` of
`GPSNetwork` says that some task or answer happens while one can: Click schedules each
`Unqueue` task, and that the GNRS answers is an assumption about the environment, since the code neither repeats
a request nor times out. `FairSpec` of `GNRSFlood` and of `HRCNetwork` is the same for the tasks of the routers; changes, publications and losses are never forced.

### Two disagreements

* *`cache_version_zero`*. `GPS_GNRSCache.cc:160` calls the update "mandate" when packets wait for the GUID.
  But the entry made for it has version 0, and `GPS_GUIDInfo::set` demands a greater
  one. A response of version 0, the default of `GPS_TEST_GNRSPacketCreator`, leaves a cached entry with NA 0,
  the batch held and later packets sent to NA 0.
* *`rp_served_once`*. `GPS_RP.cc:81` says "already passed, continue"; what is compared are
  pointers. The table of the run, `TwoLinks`, is made for this model and not one of the repository: `a` has the children `b` and `c`, and
  `b` has `c`. A publication to `a` is sent twice to the subscribers of `c`. No cycle is needed; with one, the published GUID itself
  is served twice. The tables of `conf/test.rp` and `bench/ben-rp.rp` are trees, and every GUID in them is served once. With
  line 4 of the latter, which is a comment, it would be `TwoLinks`.

The other runs of the cache take versions from 1 up.

## 4. What is proved

For every value of the constants that satisfies the assumptions of the modules: any number of
threads, GUIDs, addresses, packets and bounds.

| Theorem | Statement |
|---|---|
| `GNRSCacheProofs!TypeCorrect` | `Spec => []TypeOK` |
| `GNRSCacheProofs!BatchesSafe` | `Spec => []BatchesNotShared` |
| `GNRSCacheProofs!CacheMovesForward` | `Spec => CacheOnlyNewer` |
| `GNRSCacheProofs!NoLostWakeup` | no version 0: `Spec => []HeldOnlyIfUnknown` |
| `GNRSCacheProofs!AskedOnce` | `Spec => []RequestedOnce` |
| `GNRSCacheProofs!NothingUnresolvedLeaves` | no version 0: `Spec => []NothingUnresolved` |
| `GNRSCacheProofs!AnswersNeverGoBack` | one thread at the request port: `Spec => []AnswersGrow` |
| `GNRSCacheProofs!DataPacketsKept` | `Spec => []EachDataPacketOnce` |
| `GNRSCacheProofs!DataPacketsInOrder` | no version 0: `Spec => []InArrivalOrder` |
| `GNRSCacheProofs!CacheResolves` | no version 0: `Spec => ImplementsResolver` |
| `HRCTableProofs!TrieIsMap` | `Spec => ImplementsMap` |
| `HRCTableProofs!TrieIsTrimmed` | `Spec => []NoDeadBranch` |
| `HRCTableProofs!LongestMatch` | `Spec => []LookupsAgree` |
| `HRCTableProofs!StringsOwned` | `FileSpec => []Owned` |
| `HRCTableProofs!NamesReadAlike` | `Walked(string) = Parsed(string)`, for every string |
| `HRCTableProofs!TableAsWritten` | `FileSpec => []AsWritten` |
| `RPProofs!RPTypeCorrect` | `Spec => []TypeOK` |
| `RPProofs!Coverage` | `Spec => []CoversReachable` |
| `RPProofs!CopiesCounted` | `Spec => []OneCopyPerLink` |
| `HRCTableProofs!MapsAreInverses` | `Spec => []Inverses` |
| `HRCTableProofs!LastLineDecides` | `Spec => []LatestWins` |
| `HRCTableProofs!MulticastTypeCorrect` | `MulticastSpec => []MulticastTypeOK` |
| `HRCTableProofs!LookupsCorrect` | `MulticastSpec => []SetsAgree` |
| `HRCTableProofs!TrieIsRelation` | `MulticastSpec => ImplementsRelation` |
| `HRCTableProofs!MulticastIsTrimmed` | `MulticastSpec => []NoEmptyLeaf` |
| `GNRSFloodProofs!FloodTypeCorrect` | `Spec => []TypeOK` |
| `GNRSFloodProofs!FloodPassedOnce` | `Spec => []FloodedOnce` |
| `GNRSFloodProofs!ChangesReach` | connected network, new nonces: `Spec => []ChangeReaches` |
| `GNRSFloodProofs!NothingStuck` | the same, and the GNRS a host: `Spec => []HeldOnlyIfLost` |
| `GPSNetworkProofs!StationTree` | the stations of a publication are a tree, whatever the tables, if they are consistent |
| `GPSNetworkProofs!TokensInOrder` | `Spec => []IInv` |
| `GPSNetworkProofs!NetworkTypes` | `Spec => []TypeOK` |
| `GPSNetworkProofs!NetworkInOrder` | `Spec => []InOrder` |
| `GPSNetworkProofs!NetworkImplementsPubSub` | `Spec => ImplementsPubSub` |
| `HRCNetworkProofs!RoadTree` | the stations of what a host sent are a tree, whatever the tables, if they are consistent |
| `HRCNetworkProofs!HRCTokensInOrder` | `Spec => []IInv` |
| `HRCNetworkProofs!HRCNetworkTypes` | `Spec => []TypeOK` |
| `HRCNetworkProofs!HRCNetworkInOrder` | `Spec => []InOrder` |
| `HRCNetworkProofs!HRCNetworkImplementsNamePubSub` | `Spec => ImplementsNamePubSub` |

**The cache.** None of the invariants is inductive alone. `IndInv` adds to `TypeOK`:
`HandOK`, what kind of packet a thread has at each place of a handler; `LockOK`, that the lock variables say exactly where the threads are and a writer is alone;
`FlushOK` and `MissOK`, what a thread has found out and may still rely on while it holds
its lock (a batch to flush, a GUID not cached). `FlushOK` is what makes `Head` of the batch legal; `MissOK` is stable because only the writer changes `guidNas`, and a reader keeps it out.
`BatchesSafe` follows from `LockOK`. `CacheMovesForward` is one look at
`ResponseUpdate`. `NoLostWakeup` is inductive together with `IndInv`: `DataHold` needs `MissOK`,
`ResponseUpdate` hands the batch to the flush, whose last step empties it; with version 0 the
step from `ResponseUpdate` would leave it, which is the disagreement above. `AskedOnce` rests on
`RequestOK`: a request of this router is in sight only if its GUID is cached or has a
batch, there is only one, and a batch has one. `NothingUnresolvedLeaves` needs that no entry is ever
left with the empty NA (`AddressOK`): one is made by default only for a response that
is newer than version 0. `AnswersNeverGoBack` compares each answer with the entry
(`AnswerOK`): the next answer takes the version of an entry that has only got newer, and
it is for the last request, since the one thread looks up no other (`RequestThreadOK`).

**The packets of the cache.** `DataPacketsKept` follows from `PlacesOK`: a data packet that has arrived is in
one thread's hand, or at one place of one batch, or has left, and never in two of them. `DataPacketsInOrder`
needs more than the order of a batch (`BatchOrder`): the packet in a thread's hand before it is
queued is the last one of its GUID (`LastInHand`), and what has left for a GUID stands
before all that a batch still holds (`LeavingOrder`). With version 0 a batch stays behind an entry, later
packets pass it, and `LeavingOrder` fails; hence the assumption.

**The cache implements `Resolver`.** `RefInv` is `IndInv` with the facts above (`PacketsOK`, `LookupOK`, `RequestOK`,
`AddressOK`). A step is mapped by the place where it takes effect: the arrival of a packet, the hit in the table,
the queueing, the installation of an answer. In a flush, packets already count as resolved
from the moment `ResponseUpdate` takes the batch: the abstract address is the NA a packet has (`Carried`) or will be
told by the thread that flushes it (`Told`), and every `ResponseFlush` is a stutter. The remaining steps move locks and packets that the abstract state does not show.

**The RP.** `Coverage` holds for every graph, cycles included, if the children of a GUID are finitely many.
`IndInv` says that what was expanded or waits is a descendant (`OnlyBelow`), that the GUIDs with a
copy are the targets of the pointers expanded (`Counted`), and that the children of
what was expanded were expanded or wait (`NoneForgotten`). When the list is empty, the GUIDs
reached are closed under children, and the descendants are the least such set.
`CopiesCounted` says how many copies leave: one for each link of what was expanded (`LinksOnly`,
`CountedAll`), so that an empty list leaves one for each link below the publication's GUID, however many paths lead to it.

**The tries.** `NameTrieProofs` is about the nodes alone, for both tables.
`TrieIsMap` and `TrieIsRelation` need that `Deleted` never contains a node with a value
(`DeletedHoldNothing`), which is the condition on `held` at every depth down to the last.
No dead branch is left because a new leaf is the end of its path
(`GrownLeaf`), and a node that becomes a leaf by a removal is the parent of the topmost
node deleted: it would have been deleted too had it no value (`TrimmedLeaf`).
`LookupsCorrect` needs the nodes to be closed under prefixes, which a removal could end by
deleting a node and not what is below it. `BelowDeleted` excludes that: the first place
where the way down to a surviving node leaves the deleted branch would be a second
child of a deleted node.
`LongestMatch` is about a function that walks down the name one component at a time. `Deepest` describes
without recursion the deepest valued node on the way. The induction library cannot be used here, so that the two agree is
shown in two steps: a function that satisfies the recursion exists, built from `Deepest`
(`DeepestStep`), so that `MatchStep` may unfold the recursion; and the least depth at which they differ would contradict it
(`MatchIsDeepest`). That no valued node is missed for want of a parent is `PrefixClosed`.

**Names and files.** `Owned` needs `OwnedInv`: no string is at two names, or freeing that of one would free that of
another, and the path of every name with a value is in the trie, or `exactMatch` would miss the string that
`set` is about to replace. `AsWritten` needs that what the code finds in a line is what the line says, for lines of any
length. The two readings of a name and the fields of a line are recursive functions that go on from a place further on, so
the argument of `LongestMatch` is made once for all of them: a function that satisfies such a recursion exists (`CutExists`) and no two
differ, since they would agree behind the last place where they differ (`CutIsOne`). For names, a reading from a place has the
offsets from there (`OffsetsFrom`) as its starts, and they are the start of the first part and the offsets from the
break behind it (`OffsetsOn`); so by the least counterexample from the back every reading of the tables is one of the
offsets (`ReadLast`, `ReadOn`), and an increasing enumeration is unique (`AscendingIs`). `NamesReadAlike` is the reading
from the front. Of a line, the loop uses the first two fields only (`FirstFields`).
`FileAssumption` says that a line is a sequence of characters and that there are names (`Vals`) enough for the
strings allocated; it does not restrict the tables, for with `MaxLines = 0` it says nothing of `Vals`.

**The ARP maps.** `Rebind` is the algebra of `addNAAddress` on two inverse partial functions:
they stay inverse, and exactly the pairs that share an NA or an address with the new
one go. `LastLineDecides` adds what a longer file does to `Binding`.

**The flood.** `FloodedOnce` is inductive only together with what keeps an old nonce out of the
network. `FloodInv` says that the changes under way are among the last `w` issued (`WindowOK`), that
what a router accepted was issued (`AcceptedOK`), that its filter holds the nonce of each change
it accepted and that is still under way, and behind it only changes near that one
(`KeptOK`), and that it passes nothing on twice (`OnceOK`). Two changes are near if they can be under
way together; there are at most `2w - 2` near a given one (`NearFew`), and a filter of `2w - 1` places
does not forget a nonce for so few (`KeptOn`), so a second copy is a
duplicate. This is where the assumption `2 * w - 1 <= NonceCacheSize` enters.

**What a flood leaves behind.** `ChangesReach` and `NothingStuck` rest on `FloodInv` and on three hypotheses about what lies around the
routers. `Connected`: a set of routers that contains the neighbours of the GNRS and the neighbours of its members is all
of them. `GNRSIsAHost`: no packet between routers goes through the GNRS. `NoncesAreNew`: the GNRS takes for a change a nonce that no filter holds and no
broadcast under way has. The code draws on 32 bits and remembers 3000, so it is the GNRS that has to see to it, and without it the theorems are
false: a router that a loss kept from the changes in between still remembers an old nonce, and takes the change
that carries it again for a copy. It is more than is needed: in `gnrs_flood` nonces do come back while a
filter holds them, are forgotten before the copy arrives, and both properties hold.

`ReachInv` says that only what accepted the current change knows its nonce (`CurrentNonce`), that nothing is newer (`VersionsOK`),
that a router of interest has an entry or holds packets, and the new version once it has accepted
the change (`InterestOK`), and that unless one was lost the change has come to each neighbour of the GNRS and of each router
that passed it on, or waits to be sent there (`FloodOn`). When all is quiet, `FloodOn` makes the
routers that passed it on a set closed under neighbours, and `Connected` makes it all of them.
`HeldInv` adds that packets held wait for the current change, or for something in sight: a thread about to ask, a request, an answer (`AskOK`). A packet leaves sight only at the head
of its queue (`Gone`): a request is answered, passed on or lost, an answer passed on, used or lost. `AnswersOK` is what
makes a router that answered its own request one that holds nothing.

**The GPS network.** The theorems hold for every network whose files are `Consistent`, of any size, with any number of publications. The argument is in two halves.
The first is about the tables alone. A *station* is all that decides what becomes of a copy next: the queue, the router, the GUID, the
source and destination NA, the next hop. `Road` is the graph of stations: where a copy at one of them can be
pushed. `Lawful` says which stations a copy of a given publication can come to: on its way to an RP only between
where it started and that RP, among the copies of a GUID only below the RP in the tree of its subscribers. From
`Consistent` follows that the lawful stations are closed (`AllLawful`), that each has one that leads to it and no other
(`RoadOneParent`), and that nothing leads back to the start (`StartFirst`). So the stations of a
publication are a tree (`StationTree`), although routers, links and queues are shared by all.
That a route is left by one way and ends is `Chain`, that a GUID is reached by one way is the forest, that a router gets a copy once is the tree of subscriptions.

The second half is about steps. Every copy in a queue, held, or received is a *token*: the number of its publication and its station.
`TokensOK` says that each token is at a station below the start of its publication (`Placed`), that no two of a publication are one below the other
or at the same station (`Apart`), and that of two tokens in one row whose publications started alike and that are at the same
station the earlier is first (`Ordered`). A step takes tokens from the front of a row and puts copies of them, each
at another child of its station, at the ends of other rows. In a tree that preserves the three, and `NetworkLemmas` proves it once, for any rows and any tree
(`MoveSome`, with `StayOne` for a packet that is held and `NewOne` for a new publication); a full queue only loses
tokens. What is left for each action is to say which tokens it moves. `Hold` is why `Prior` is needed: the
packets held for a GUID and the data queue behind them count as one row, and `Answer` empties the front of it. It is
order in that row that breaks if a packet is held in front of others (`SlipHold`).

`IInv` is `TypeOK`, what `Init` says of the tables (`Static`), that what is held waits for the GUID it is held for (`Labelled`) and only while
that is unknown (`KnownNotHeld`), and `TokensOK`. `InOrder` is `Ordered` of the rows of the hosts. `ImplementsPubSub` follows from `Apart`, since a
delivery that came twice would be two tokens at one station, and from `Placed`: the station of a host that received
something is below the start of the publication, so the GUID is a descendant and the host one of its subscribers.

**The HRC network.** The same argument, with the same lemmas about tokens. Here a station is the queue, the node, the type and the name of a packet, the
RP of an interest, and the sender of what came in or the next hop of what goes out: the sender matters, since
`HRC_SubscriptionTable` leaves out the previous hop and `HRC_ARPTable` discards what it does not recognise.
`Lawful` says that an interest is on the way from its host to its RP, and that a copy has just gone over a link of the tree
of its name, away from the root. That a copy never comes back is the hard part, because the tables of two neighbours point at each other.
It is here that "without the link between two nodes, one of them is not reached" is used: a copy that came over a link (`Enters`) can go on over every
other link of its node, what lies behind those is not reached without that node (`EntersOne`, `EntersOn`, and the lemmas about walks before them), and the one link left out is
that of the NA the sender is known by, which is one NA since the two maps of `HRC_ARPTable` are inverse. At its RP an interest becomes
a publication that goes out on all links, the one it came by included; the types keep the
stations of the two apart, although they share routers, queues and links.

The second half differs in two things. A host has no queue: what it sends starts in the hand of its maker (`Maker`), a row of one
packet, from where it goes out in the same step. And a frame is put on each link separately (`Frames`), so that a
copy for one next hop becomes one token for each router or host that the next hop leads to; `Consistent` says that there is at most one frame for each.
`IInv` is `TypeOK`, what `Init` says of the tables (`Static`) and `TokensOK`. `InOrder` is the order in the rows of the hosts, and `ImplementsNamePubSub` follows
from `Apart` and from `Lawful` of the station of a delivery, as above.

**Only model-checked.** Liveness everywhere: `HandlersFinish`, `AnsweredThenEmpty`,
`EverythingDelivered`, `Settles`, `Returns`; it needs fairness, and so `ENABLED`, which the prover does not handle. Every invariant, action property and refinement that
a passing run checks is a theorem. The reverse does not hold: `TypeOK` of `RP` and `MulticastTypeOK` are proved and not checked again.

## 5. What is not modelled

* Bytes: packet layout, byte order, annotations that no element reads (`PrioAnnotator`, `EtherAnnotator` of GPS), the reading of
  numbers and addresses in configuration files (a field that does not parse is `Bad`).
* GNRS packets in `GPSNetwork`: an answer comes to who asked; their way is `GNRSFlood`. The GNRS itself has no code here.
* Stubs that only discard: LSA packets of both ARP tables, `handleSubscription` of both subscription tables, `handleAnnouncement` of `HRC_FIB`.
* The generators and printers among the test elements (the wrappers of publications are the hosts of the networks), `graphpubsub_pcap`, `pcap_test`, `tracegenerator`: load, output and experiments.
* Packet memory: `GPS_RP::handleData` never kills the packet it clones, a leak in straight-line code.
* Unlocked access to `_nonceCacheQueue` by two threads on the response port: undefined
  behaviour, excluded by an assumption.

## 6. What could follow

1. **Packet ownership**: clone, push and kill in `RP`, the tables and the cache; each packet consumed once.
2. **Liveness**: `Settles` of the networks is a matter of the depth of the tree of stations, which the two proofs have shown to be a tree; a prover with
   well-founded induction and `ENABLED` could take it from there.
