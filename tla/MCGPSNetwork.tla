---------------------------- MODULE MCGPSNetwork ----------------------------
(* Instances of GPSNetwork: routers 1 - 2 - 3 in a line, host 8 at router  *)
(* 1 and host 9 at router 3.  The GUID "a" has the child "b".  The files   *)
(* have lines that do not count: bad ones, longer ways, older entries.     *)
EXTENDS GPSNetwork, TLC

Line == 1 :> (1 :> {8} @@ 2 :> {2}) @@ 2 :> (1 :> {1} @@ 3 :> {3})
          @@ 3 :> (1 :> {2, 9})

LineArp ==
  1 :> << <<8, 1, 8>>, <<2, 9, 2>>, <<2, 2, 2, "10.10.1.1">>, <<9, 2, 2, Bad>> >>
  @@ 2 :> << <<1, 1, 1>>, <<3, PortValues + 3, 3>> >>
  @@ 3 :> << <<2, 1, 2>>, <<9, 1, 9>> >>

(* One RP, in the middle; the first publication has to be resolved.        *)
OneRP ==
  [rps |-> {2}, home |-> "a" :> 2 @@ "b" :> 2, wires |-> Line, capacity |-> 8,
   arpFile |-> LineArp,
   rtgFile |-> 1 :> << <<2, 8, 3>>, <<2, 2, 4>>, <<2, 2, 2>>, <<2, 9, MaxDistance>> >>
                 @@ 2 :> <<>> @@ 3 :> << <<2, 9, Bad>>, <<2, 2, 1>> >>,
   rpFile |-> 2 :> << <<"a", "b">>, <<"b">>, <<"b", Bad>> >>,
   subFile |-> 1 :> << <<"b", 8>> >>
                 @@ 2 :> << <<"a", 3>>, <<"b", 1>>, <<"b", 3>>, <<"b", 3>>, <<"a">> >>
                 @@ 3 :> << <<"a", 9>>, <<"b", 9>> >>,
   inputs |-> {[at |-> 1, guid |-> "a", dstNa |-> EmptyNa],
               [at |-> 3, guid |-> "b", dstNa |-> 2]}]

SmallQueues == [OneRP EXCEPT !.capacity = 1]

(* Two RPs, at the ends: a publication to "a" is passed on from router 1   *)
(* to router 3 for "b", past a router that does not know "b" either.       *)
TwoRPs ==
  [OneRP EXCEPT
     !.rps = {1, 3}, !.home = "a" :> 1 @@ "b" :> 3,
     !.rtgFile = 1 :> << <<3, 2, 2>> >> @@ 2 :> << <<1, 1, 1>>, <<3, 3, 1>> >>
                   @@ 3 :> << <<1, 2, 2>> >>,
     !.rpFile = 1 :> << <<"a", "b">> >> @@ 3 :> << <<"b">> >>,
     !.subFile = 1 :> << <<"a", 8>>, <<"b", 8>> >> @@ 2 :> << <<"b", 1>> >>
                   @@ 3 :> << <<"b", 9>>, <<"b", 2>> >>,
     !.inputs = {[at |-> 2, guid |-> "a", dstNa |-> EmptyNa],
                 [at |-> 3, guid |-> "b", dstNa |-> EmptyNa]}]

(* Router 3 has no link but to both hosts, and subscribes them by          *)
(* broadcast.                                                              *)
BroadcastLeaf ==
  [OneRP EXCEPT
     !.wires[1] = 2 :> {2}, !.wires[3] = 1 :> {2, 9} @@ 2 :> {8},
     !.arpFile[3] = << <<9, 1, 9>>, <<8, 2, 8>> >>, !.rtgFile[3] = <<>>,
     !.subFile[1] = <<>>, !.subFile[2] = << <<"a", 3>>, <<"b", 3>> >>,
     !.subFile[3] = << <<"a", BroadcastNa>>, <<"b", BroadcastNa>> >>,
     !.inputs = {[at |-> 1, guid |-> "a", dstNa |-> EmptyNa]}]

AllNetworks == {OneRP, SmallQueues, TwoRPs, BroadcastLeaf}
=============================================================================
