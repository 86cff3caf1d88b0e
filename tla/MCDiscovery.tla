----------------------------- MODULE MCDiscovery ----------------------------
(* Discovery on a small internetwork: a subnet with a device and a router, *)
(* a network of stations and one of IP devices behind it, and a device     *)
(* behind a BBMD.  Instances and network numbers overlap.                  *)
EXTENDS Discovery

CONSTANTS local, station, routed, foreign

Router == <<2, 47808>>

MCPlace ==
  [d \in Devices |->
     CASE d = local -> [mac |-> <<1, 47808>>, net |-> 0, adr |-> <<>>, bbmd |-> NoMac]
       [] d = station -> [mac |-> Router, net |-> 1, adr |-> <<0>>, bbmd |-> NoMac]
       [] d = routed -> [mac |-> Router, net |-> 2, adr |-> <<5, 5, 5, 5, 5, 5>>, bbmd |-> NoMac]
       [] d = foreign -> [mac |-> <<3, 47809>>, net |-> 0, adr |-> <<>>, bbmd |-> <<4, 47808>>]]

MCInstance ==
  [d \in Devices |-> CASE d = local -> 1 [] d = station -> 2 [] d = routed -> 2 [] d = foreign -> 3]

MCNoMac == <<0, 0>>

Opt(low, high, global, net) == [low |-> low, high |-> high, global |-> global, net |-> net]
MCOptions ==
  {Opt(2, 3, TRUE, 0), Opt(-1, 0, FALSE, 0), Opt(0, 2, FALSE, 1),
   Opt(ArrayAll, ArrayAll, TRUE, 0), Opt(2, ArrayAll, TRUE, 0)}

FromRouter(k, nets) == [Packet(local, k, "broadcast") EXCEPT !.from = Router, !.nets = nets]

MCQueryAnswers ==
  [routers |-> {FromRouter("iamrouter", <<1, 2>>), FromRouter("iamrouter", <<2>>)},
   number |-> {FromRouter("networkis", <<3>>)}]

(* An I-Am to others, the device's own Abort, its replies to another       *)
(* program: of another service, of the same one, and a Reject; and a reply *)
(* of another device.                                                      *)
MCBackground ==
  {IAm(foreign),
   [Packet(station, "abort", "unicast") EXCEPT !.server = FALSE, !.own = FALSE],
   [Packet(station, "ack", "unicast") EXCEPT !.service = FALSE, !.own = FALSE],
   [Packet(station, "ack", "unicast") EXCEPT !.own = FALSE],
   [Packet(station, "reject", "unicast") EXCEPT !.own = FALSE],
   Packet(routed, "ack", "unicast")}

(* Queries run beside WhoIs, not beside what comes after it.               *)
Apart ==
  (\E q \in Queries : gpc[q] # "none") => asked = {} /\ api = "client"
=============================================================================
