---------------------------- MODULE MCGNRSCache -----------------------------
(***************************************************************************)
(* Instances of GNRSCache.  "me" is the router, "gnrs" the name service,   *)
(* r1 and r2 are other routers.  g1 moves from r1 (version 1) to r2        *)
(* (version 2); g2 is attached to this router.                             *)
(***************************************************************************)
EXTENDS GNRSCacheRefinement, TLC

CONSTANTS me, gnrs, r1, r2, empty, broadcast, g1, g2, inThread, dataThread, dataThread2

MCNAs == {me, gnrs, r1, r2}
MCGuids == {g1, g2}

(* The wiring of ben-router.click: gnrsUnqueue drives the data port and    *)
(* inUnqueue the two others.                                               *)
WiredThreads == {dataThread, inThread}
WiredServes ==
  dataThread :> {"data"} @@ inThread :> {"request", "response"}

(* Two Unqueues on the data queue: the element's locks allow it.           *)
SharedThreads == {dataThread, dataThread2, inThread}
SharedServes == WiredServes @@ dataThread2 :> {"data"}

Data(g, dst) == [guid |-> g, dstNa |-> dst]
Request(g, src, dst) == [guid |-> g, srcNa |-> src, dstNa |-> dst]
Response(g, dst, na, v, n) ==
  [guid |-> g, srcNa |-> gnrs, dstNa |-> dst, na |-> na, version |-> v, nonce |-> n]

UnresolvedData == {Data(g1, empty), Data(g2, empty)}
MixedData == {Data(g1, empty), Data(g2, empty), Data(g2, r1)}

WiredRequests == {Request(g1, r1, empty)}

(* Answers to this router and to others, floods of old and new versions    *)
(* whose nonces can collide.                                               *)
MCResponses ==
  {Response(g1, me, r1, 1, 1), Response(g1, r1, r2, 2, 2),
   Response(g1, broadcast, r1, 1, 1), Response(g1, broadcast, r2, 2, 1),
   Response(g1, broadcast, r2, 2, 2), Response(g2, me, me, 1, 1)}

LiveResponses ==
  {Response(g1, me, r1, 1, 1), Response(g1, broadcast, r2, 2, 1)}

(* A response whose creator left the version at its default, 0.            *)
ZeroResponses == {Response(g1, me, r1, 0, 1), Response(g1, me, r1, 1, 1)}

Arrivals(d, q, r) == "data" :> d @@ "request" :> q @@ "response" :> r
WiredArrivals == Arrivals(3, 2, 2)
LiveArrivals == Arrivals(3, 0, 2)
=============================================================================
