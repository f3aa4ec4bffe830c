---------------------------- MODULE MCHRCNetwork ----------------------------
(* Instances of HRCNetwork: routers 1 - 2 - 3 in a line, host 8 at router  *)
(* 1 and host 9 at router 3.  The files have lines that do not count: bad  *)
(* ones, undone ones, neighbours with an IP address, wide ports.           *)
EXTENDS HRCNetwork, TLC

Line == 1 :> (1 :> {8} @@ 2 :> {2}) @@ 2 :> (1 :> {1} @@ 3 :> {3})
          @@ 3 :> (1 :> {2} @@ 2 :> {9}) @@ 8 :> (1 :> {1}) @@ 9 :> (1 :> {3})

LineArp ==
  1 :> << <<2, 1, 8>>, <<8, 1, 8>>, <<2, 2, 2>>, <<9, 2, 2, Bad>> >>
  @@ 2 :> << <<9, 3, 3>>, <<1, 1, 1>>, <<3, 3, 3>>, <<7, 3, 3, "10.10.1.1">> >>
  @@ 3 :> << <<2, 1, 2>>, <<9, 2, 9>> >>
  @@ 8 :> << <<1, 1, 1>> >> @@ 9 :> << <<3, 1, 3>> >>

Unused == [x \in Nodes |-> <<>>]

(* Interests, to an RP in the middle: both hosts subscribe to a prefix of  *)
(* <<"a", "b">>, host 9 by two lines; <<"c">> has no RP.                   *)
RPInTheMiddle ==
  [rps |-> {2}, wires |-> Line, capacity |-> 4, arpFile |-> LineArp,
   gnrsFile |-> 8 :> << << <<"a">>, <<"rp", "old">> >>, << <<"a">>, <<"rp", "2">> >> >>
             @@ 9 :> << << <<"a">>, <<"rp">> >>, << <<"a", "b">>, <<"rp", "2">> >> >>,
   fibFile |-> 1 :> << << <<"rp">>, 2>>, << <<"rp", "2">>, Bad>> >>
            @@ 2 :> << << <<"rp">>, 1>>, << <<"rp", "2">>, 2>> >>
            @@ 3 :> << << <<"rp", "2">>, 2>> >>
            @@ 8 :> << << <<>>, 1>> >> @@ 9 :> << << <<"rp", "2">>, 3>> >>,
   subFile |-> 1 :> << << <<"a", "b">>, 8>> >>
            @@ 2 :> << << <<"a">>, 3>>, << <<"a", "b">>, 3>>, << <<"a", "b">>, 1>>,
                       << <<"a", "c">>, Bad>> >>
            @@ 3 :> << << <<"a">>, 9>>, << <<"a", "b">>, 9>> >>
            @@ 8 :> <<>> @@ 9 :> <<>>,
   inputs |-> {[from |-> 8, kind |-> "interest", name |-> <<"a", "b">>],
               [from |-> 9, kind |-> "interest", name |-> <<"a", "b">>],
               [from |-> 8, kind |-> "interest", name |-> <<"a">>],
               [from |-> 9, kind |-> "interest", name |-> <<"c">>],
               [from |-> 9, kind |-> "subscription", name |-> <<"a">>]}]

SmallQueues == [RPInTheMiddle EXCEPT !.capacity = 1]

(* One tree for all publications, walked both ways, which they enter where *)
(* they are made; the branch of <<"x">> leads to nobody.                   *)
SharedTree ==
  [RPInTheMiddle EXCEPT
     !.rps = {}, !.gnrsFile = Unused, !.fibFile = Unused,
     !.subFile = 1 :> << << <<"a">>, 8>>, << <<"a">>, 2>>, << <<"x">>, 2>> >>
              @@ 2 :> << << <<"a">>, 1>>, << <<"a">>, 3>>, << <<"x">>, 1>> >>
              @@ 3 :> << << <<"a">>, 2>>, << <<"a">>, 9>> >>
              @@ 8 :> << << <<>>, 1>> >> @@ 9 :> << << <<"a">>, 3>> >>,
     !.inputs = {[from |-> 8, kind |-> "direct", name |-> <<"a", "b">>],
                 [from |-> 9, kind |-> "direct", name |-> <<"a">>],
                 [from |-> 8, kind |-> "direct", name |-> <<"x">>]}]

(* The RP is where host 9 is, and sends its publications by broadcast; the *)
(* interests of host 8 come from the branch that its copies go to.         *)
BroadcastAtRP ==
  [RPInTheMiddle EXCEPT
     !.rps = {3}, !.arpFile[3] = << <<2, 1, 2>>, <<9, PortValues + 2, 9>> >>,
     !.gnrsFile = 8 :> << << <<"a">>, <<"rp">> >> >> @@ 9 :> <<>>,
     !.fibFile = 1 :> << << <<"rp">>, 2>> >> @@ 2 :> << << <<"rp">>, 3>> >>
              @@ 3 :> << << <<"rp">>, 3>> >> @@ 8 :> << << <<"rp">>, 1>> >> @@ 9 :> <<>>,
     !.subFile = 1 :> << << <<"a">>, 8>> >> @@ 2 :> << << <<"a">>, 1>> >>
              @@ 3 :> << << <<"a">>, BroadcastNa>> >> @@ 8 :> <<>> @@ 9 :> <<>>,
     !.inputs = {[from |-> 8, kind |-> "interest", name |-> <<"a">>]}]

(* Router 2 does not know router 1 as a sender: host 8 reaches nobody.     *)
UnknownSender ==
  [SharedTree EXCEPT
     !.arpFile[2] = << <<1, 1, 1, "10.10.1.2">>, <<3, 3, 3>> >>,
     !.subFile[1] = << << <<"a">>, 2>> >>, !.subFile[3] = << << <<"a">>, 2>> >>,
     !.inputs = {[from |-> 8, kind |-> "direct", name |-> <<"a">>]}]

(* Router 2 has router 1 at a port beyond 8 bits: what it sends there      *)
(* arrives, so host 9 reaches host 8, but what comes from there, as the    *)
(* publications of host 8 do, is thrown away.                              *)
WideSender ==
  [SharedTree EXCEPT
     !.arpFile[2] = << <<1, PortValues + 1, 1>>, <<3, 3, 3>> >>,
     !.subFile[3] = << << <<"a">>, 2>> >>,
     !.inputs = {[from |-> 8, kind |-> "direct", name |-> <<"a">>],
                 [from |-> 9, kind |-> "direct", name |-> <<"a">>]}]

AllNetworks ==
  {RPInTheMiddle, SmallQueues, SharedTree, BroadcastAtRP, UnknownSender, WideSender}
=============================================================================
