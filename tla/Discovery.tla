----------------------------- MODULE Discovery -----------------------------
(***************************************************************************)
(* Finding devices and networks: WhoIs, WhoIsRouterToNetwork and           *)
(* WhatIsNetworkNumber (whois.go, whoisrouter.go, whatnetwork.go),         *)
(* NetworkDiscover and DeviceDiscover (network/), what handleMsg does with *)
(* each kind of packet (device.go), and the addresses this is all about    *)
(* (btypes/address.go, btypes.NewDevice).                                  *)
(*                                                                         *)
(* A device is on the client's subnet, on one behind a BBMD, or on a       *)
(* network behind a router.  What it sends is seen to come from itself,    *)
(* the BBMD or the router; handleMsg makes an address of it, under which   *)
(* the device is listed, and by which its replies are told from others.    *)
(*                                                                         *)
(* The manager of the subscriptions is here as UTSM shows it to be: what   *)
(* is published is with every subscriber of its number.                    *)
(***************************************************************************)
EXTENDS Integers, Sequences, FiniteSets, SequencesExt

CONSTANTS
  Devices,      (* the devices                                             *)
  NoDevice,     (* not one of them                                         *)
  Instance,     (* the instance number of each                             *)
  Place,        (* where each is: its or its router's mac, its network and *)
                (* address there (0 and <<>> on IP), the mac of its BBMD   *)
  QueryAnswers, (* the packets each query of routers brings forth          *)
  NoMac,        (* no mac: no BBMD in between                              *)
  Handle,       (* the device of the handle DeviceDiscover is called on    *)
  Options,      (* the options WhoIs is called with                        *)
  ArrayAll,     (* a bound that is -1 as an int32                          *)
  MaxInstance,  (* the largest instance number                             *)
  Background,   (* packets on the wire that nobody here asked for          *)
  MaxReceived   (* the bound on the packets that come in                   *)

GlobalBroadcast == 65535

ASSUME DiscoveryAssumption ==
  /\ NoDevice \notin Devices
  /\ Handle \in Devices
  /\ MaxInstance \in Nat /\ MaxReceived \in Nat
  /\ ArrayAll > MaxInstance
  /\ \A o \in Options : o.low \in Int /\ o.high \in Int
  /\ \A d \in Devices :
       /\ Instance[d] \in 0..MaxInstance
       \* a mac is an IP address and a port
       /\ Place[d].mac = <<Place[d].mac[1], Place[d].mac[2]>> /\ Place[d].mac[2] # 0
       /\ Place[d].net \in 0..GlobalBroadcast - 1
       /\ Place[d].adr \in Seq(Nat)
       /\ Place[d].net = 0 <=> Place[d].adr = <<>>
       \* the addresses of a network have the length its kind has
       /\ \A e \in Devices : Place[d].mac = Place[e].mac /\ Place[d].net = Place[e].net
                            => Len(Place[d].adr) = Len(Place[e].adr)
       /\ \A e \in Devices : /\ Place[d].mac = Place[e].mac /\ Place[d].net = Place[e].net
                            /\ Place[d].adr = Place[e].adr
                            => d = e

Queries == {"routers", "number"}
Calls == {"whois"} \cup Queries

VARIABLES
  \* the calls
  pc,         (* the next step of each                                     *)
  heard,      (* the values its subscription has                           *)
  out,        (* what it returned                                          *)
  \* WhoIs and what the network layer makes of it
  api,        (* who called WhoIs                                          *)
  opts,       (* its options                                               *)
  \* the sends of the other two
  gpc,        (* the next step of the goroutine                            *)
  err,        (* the variable err of both, TRUE for an error               *)
  passed,     (* what is in errChan                                        *)
  \* a request to a device that was found
  pending,    (* the address it waits for                                  *)
  asked,      (* the devices it reached                                    *)
  answer,     (* the packet that ended it                                  *)
  \* the network
  wire,       (* the packets under way                                     *)
  received,   (* how many came in                                          *)
  \* what came in while a call was subscribed, for the properties
  first,      (* the device of the first I-Am of each instance number      *)
  announced   (* the packets, for each query                               *)

callVars == <<pc, heard, out>>
whoisVars == <<api, opts>>
sendVars == <<gpc, err, passed>>
askVars == <<pending, asked, answer>>
netVars == <<wire, received, first, announced>>
vars == <<callVars, whoisVars, sendVars, askVars, netVars>>

-----------------------------------------------------------------------------
(* Addresses (btypes.Address).                                             *)

Address(mac, net, adr) ==
  [mac |-> mac, macLen |-> 6, net |-> net, adr |-> adr, len |-> Len(adr)]
NoAddress == Address(NoMac, 0, <<>>)

SetLength(a) == IF a.adr = <<>> THEN a ELSE [a EXCEPT !.len = Len(a.adr)]

IsBroadcast(a) == a.net = GlobalBroadcast \/ a.macLen = 0
IsSubBroadcast(a) == a.net > 0 /\ a.len = 0

(* The BVLC function Send gives a packet to an address.                    *)
Function(a) ==
  IF a.adr = <<>> /\ (IsBroadcast(a) \/ IsSubBroadcast(a)) THEN "broadcast" ELSE "unicast"

(* Where a device is, as an address.                                       *)
At(d) == Address(Place[d].mac, Place[d].net, Place[d].adr)

(* The devices a unicast to an address reaches: the host with the mac, or  *)
(* the station it routes to when the NPDU has a destination.               *)
Reached(a) ==
  {d \in Devices : /\ Place[d].mac = a.mac
                   /\ Place[d].net = a.net
                   /\ a.net # 0 => Place[d].adr = a.adr}

-----------------------------------------------------------------------------
(* Packets, and what handleMsg makes of them.                              *)

(* A packet of kind k from a device.  Only a broadcast comes by the BBMD.  *)
(* Of a reply it says whether it has the service of the request, of an     *)
(* Abort whether it is a server's; and whether it is our own, an answer to *)
(* the request of this client, which the client cannot see: other programs *)
(* on the port have requests of the same invoke id answered as well.       *)
Packet(d, k, function) ==
  LET forwarded == function = "broadcast" /\ Place[d].bbmd # NoMac
  IN [kind |-> k, by |-> d,
      from |-> IF forwarded THEN Place[d].bbmd ELSE Place[d].mac,
      function |-> IF forwarded THEN "forwarded" ELSE function,
      origin |-> IF forwarded THEN Place[d].mac ELSE NoMac,
      net |-> Place[d].net, adr |-> Place[d].adr, nets |-> <<>>,
      service |-> TRUE, server |-> TRUE, own |-> TRUE]

IAm(d) == Packet(d, "iam", "broadcast")

(* Faulty variants, each a plausible slip in the code; a run with one in   *)
(* place of the definition of its name must fail.                          *)

\* A forwarded packet is taken to come from the BBMD.
SourceOfForwarder(p) ==
  LET src == Address(p.from, p.net, <<>>)
  IN IF p.adr = <<>> THEN src ELSE [src EXCEPT !.adr = p.adr, !.len = Len(p.adr)]

\* The list has the address that is decoded into, twice.
NetworksOfLast(p) == <<p.nets[2], p.nets[2]>>

\* A handle has a station only if its number is not 0.
NewDeviceZero(e) ==
  Address(<<e.ip, IF e.port = 0 THEN 47808 ELSE e.port>>, e.net,
          IF e.mstp # 0 THEN <<e.mstp>> ELSE <<>>)

(* The address of a packet: the sender's, or the origin of a forwarded     *)
(* packet, with the NPDU's source laid over it (addressWithNPDUSource).    *)
Source(p) ==
  LET src == Address(IF p.function = "forwarded" THEN p.origin ELSE p.from, 0, <<>>)
      net == IF p.net > 0 THEN [src EXCEPT !.net = p.net] ELSE src
  IN IF p.adr = <<>> THEN net ELSE [net EXCEPT !.adr = p.adr, !.len = Len(p.adr)]

(* The decoder takes two networks of an I-Am-Router-To-Network, and fails  *)
(* on one.                                                                 *)
Networks(p) == IF p.nets[1] = p.nets[2] THEN <<p.nets[1]>> ELSE SubSeq(p.nets, 1, 2)

Nothing == [number |-> -1, type |-> "nothing"]

(* What a packet has handleMsg publish, and under which number.            *)
Published(p) ==
  IF p.function \notin {"unicast", "broadcast", "forwarded"} THEN Nothing
  ELSE CASE p.kind = "iam" ->
              [number |-> Instance[p.by], type |-> "iam", instance |-> Instance[p.by],
               addr |-> Source(p), info |-> p.by]
         [] p.kind = "networkis" ->
              [number |-> p.nets[1], type |-> "npdu", nets |-> p.nets]
         [] p.kind = "iamrouter" /\ Len(p.nets) > 1 ->
              [number |-> p.nets[2], type |-> "list", nets |-> Networks(p)]
         [] OTHER -> Nothing

\* The source of the NPDU is not compared (faulty).
CompletesByMac(p, a) ==
  /\ p.kind \in {"ack", "error", "reject", "abort"}
  /\ p.kind = "abort" => p.server
  /\ p.kind \in {"ack", "error"} => p.service
  /\ Source(p).mac = a.mac

(* The packets deliver completes a request with that waits for an address; *)
(* all have its invoke id.                                                 *)
Completes(p, a) ==
  /\ p.kind \in {"ack", "error", "reject", "abort"}
  /\ p.kind = "abort" => p.server
  /\ p.kind \in {"ack", "error"} => p.service
  /\ Source(p) = a

(* What the network brings besides: I-Ams and replies come from where      *)
(* their device is, replies unicast, to whatever request; a router names   *)
(* networks, by numbers that networks have, and a Network-Number-Is names  *)
(* one.                                                                    *)
Genuine(p) ==
  /\ p.kind \in {"ack", "error", "reject", "abort"} =>
       /\ p.by \in Devices /\ p.function = "unicast"
       /\ p.from = Place[p.by].mac /\ p.net = Place[p.by].net /\ p.adr = Place[p.by].adr
  /\ p.kind = "iam" =>
       /\ p.by \in Devices
       /\ p \in {Packet(p.by, "iam", f) : f \in {"unicast", "broadcast"}}
  /\ p.kind \in {"networkis", "iamrouter"} =>
       /\ p.function \in {"unicast", "broadcast", "forwarded"}
       /\ p.nets \in Seq(1..GlobalBroadcast - 1)
       /\ IF p.kind = "networkis" THEN Len(p.nets) = 1 ELSE Len(p.nets) > 0

ASSUME TrafficAssumption ==
  \A p \in Background \cup UNION {QueryAnswers[q] : q \in Queries} : Genuine(p)

-----------------------------------------------------------------------------
(* WhoIs.                                                                  *)

Int32(n) == IF n = ArrayAll THEN -1 ELSE n

Low(o) == IF o.low <= 0 THEN 0 ELSE o.low
High(o) == IF o.high <= 0 THEN MaxInstance + 1 ELSE o.high
Net(o) == IF o.global THEN GlobalBroadcast ELSE o.net

(* The numbers a call subscribes to.                                       *)
Subscribed(c, number) ==
  /\ pc[c] \in {"send", "collect"}
  /\ IF c = "whois" THEN number >= Low(opts) /\ number <= High(opts)
                    ELSE number \in 1..GlobalBroadcast - 1

(* The encoder leaves out a range that is not below the largest instance.  *)
AskedFor(o, n) ==
  LET low == Int32(Low(o))  high == Int32(High(o))
  IN low \in 0..MaxInstance - 1 /\ high \in 0..MaxInstance - 1 => n \in low..high

(* The devices that get a Who-Is: a BBMD passes on broadcasts only.        *)
Hear(o) ==
  {d \in Devices :
     /\ Net(o) # GlobalBroadcast => Place[d].net = Net(o)
     /\ Place[d].bbmd # NoMac => Function(Address(NoMac, Net(o), <<>>)) = "broadcast"
     /\ AskedFor(o, Instance[d])}

(* A device as WhoIs lists it.                                             *)
Entry(v) ==
  [instance |-> v.instance, addr |-> v.addr, info |-> v.info, name |-> NoDevice,
   ip |-> v.addr.mac[1], port |-> v.addr.mac[2], net |-> v.addr.net,
   mstp |-> IF v.addr.adr = <<>> THEN 0 ELSE v.addr.adr[1]]

(* It lists I-Ams, the first of each instance.                             *)
Lists(v, list) ==
  /\ v.type = "iam"
  /\ \A i \in DOMAIN list : list[i].instance # v.instance

-----------------------------------------------------------------------------
(* What the network layer makes of a list.                                 *)

(* btypes.NewDevice: an address from the fields of an entry.               *)
NewDevice(e) ==
  Address(<<e.ip, IF e.port = 0 THEN 47808 ELSE e.port>>, e.net,
          IF e.net # 0 \/ e.mstp # 0 THEN <<e.mstp>> ELSE <<>>)

(* The devices whose object (device, n) is read at an address, when no     *)
(* packet is lost: the request reaches them, their reply is taken.         *)
Readable(a, n) ==
  {d \in Reached(a) : Source(Packet(d, "ack", "unicast")) = a /\ Instance[d] = n}

(* What a read there gives: the device's, or nothing (also when packets    *)
(* are lost).                                                              *)
Read(a, n) == {NoDevice} \cup Readable(a, n)

-----------------------------------------------------------------------------
NoAnswer == Packet(Handle, "none", "unicast")

Init ==
  /\ pc = [c \in Calls |-> "idle"]
  /\ heard = [c \in Calls |-> <<>>]
  /\ out = [c \in Calls |-> IF c = "whois" THEN <<>> ELSE {}]
  /\ api = "client"
  /\ opts \in Options
  /\ gpc = [c \in Queries |-> "none"]
  /\ err = [c \in Queries |-> FALSE]
  /\ passed = [c \in Queries |-> FALSE]
  /\ pending = NoAddress
  /\ asked = {}
  /\ answer = NoAnswer
  /\ wire = Background
  /\ received = 0
  /\ first = [n \in 0..MaxInstance |-> NoDevice]
  /\ announced = [c \in Queries |-> {}]

Goto(c, from, to) ==
  /\ pc[c] = from
  /\ pc' = [pc EXCEPT ![c] = to]

(* The client's WhoIs, or that of Network.NetworkDiscover or               *)
(* Device.DeviceDiscover.                                                  *)
WhoIs(a) ==
  /\ Goto("whois", "idle", "send")
  /\ api' = a
  /\ UNCHANGED <<heard, out, opts, sendVars, askVars, netVars>>

SendWhoIs ==
  /\ Goto("whois", "send", "collect")
  /\ wire' = wire \cup {IAm(d) : d \in Hear(opts)}
  /\ UNCHANGED <<heard, out, whoisVars, sendVars, askVars, received, first, announced>>

SendWhoIsFails ==
  /\ Goto("whois", "send", "failed")
  /\ UNCHANGED <<heard, out, whoisVars, sendVars, askVars, netVars>>

CollectEnds ==
  /\ Goto("whois", "collect", "values")
  /\ UNCHANGED <<heard, out, whoisVars, sendVars, askVars, netVars>>

(* The loop over the values that were collected.                           *)
NextValue ==
  /\ pc["whois"] = "values"
  /\ heard["whois"] # <<>>
  /\ LET v == Head(heard["whois"])
     IN out' = [out EXCEPT !["whois"] = IF Lists(v, @) THEN Append(@, Entry(v)) ELSE @]
  /\ heard' = [heard EXCEPT !["whois"] = Tail(@)]
  /\ UNCHANGED <<pc, whoisVars, sendVars, askVars, netVars>>

NoMoreValues ==
  /\ Goto("whois", "values", IF api = "client" THEN "done" ELSE "details")
  /\ heard["whois"] = <<>>
  /\ UNCHANGED <<heard, out, whoisVars, sendVars, askVars, netVars>>

WithDetails(e, read) == [e EXCEPT !.name = read.name, !.info = read.info]

(* NetworkDiscover reads the details of each entry from a device built     *)
(* from it, and writes over the entry what it got.                         *)
NetworkDetails ==
  /\ api = "network"
  /\ Goto("whois", "details", "done")
  /\ \E read \in [1..Len(out["whois"]) -> [name : Devices \cup {NoDevice},
                                           info : Devices \cup {NoDevice}]] :
       /\ \A i \in DOMAIN read :
            LET e == out["whois"][i]
            IN {read[i].name, read[i].info} \subseteq Read(NewDevice(e), e.instance)
       /\ out' = [out EXCEPT !["whois"] = [i \in DOMAIN read |-> WithDetails(@[i], read[i])]]
  /\ UNCHANGED <<heard, whoisVars, sendVars, askVars, netVars>>

(* DeviceDiscover fills in the handle it is called on for each entry, and  *)
(* lists the handle each time.  The handle keeps its address, from which   *)
(* the name is read.                                                       *)
DeviceDetails ==
  /\ api = "device"
  /\ Goto("whois", "details", "done")
  /\ LET found == out["whois"]
     IN IF found = <<>> THEN UNCHANGED out
        ELSE \E name \in Read(At(Handle), Last(found).instance) :
               out' = [out EXCEPT !["whois"] = [i \in DOMAIN found |->
                         [Last(found) EXCEPT !.addr = At(Handle), !.name = name]]]
  /\ UNCHANGED <<heard, whoisVars, sendVars, askVars, netVars>>

-----------------------------------------------------------------------------
(* WhoIsRouterToNetwork and WhatIsNetworkNumber: a goroutine sends while   *)
(* the call subscribes, and both write err.  One call of them is enough.   *)

Query(c) ==
  /\ \A q \in Queries : gpc[q] = "none"
  /\ Goto(c, "idle", "subscribe")
  /\ gpc' = [gpc EXCEPT ![c] = "send"]
  /\ UNCHANGED <<heard, out, whoisVars, err, passed, askVars, netVars>>

Subscribe(c) ==
  /\ Goto(c, "subscribe", "collect")
  /\ UNCHANGED <<heard, out, whoisVars, sendVars, askVars, netVars>>

Send(c) ==
  /\ gpc[c] = "send"
  /\ gpc' = [gpc EXCEPT ![c] = "pass"]
  /\ \E failed \in BOOLEAN :
       /\ err' = [err EXCEPT ![c] = failed]
       /\ wire' = IF failed THEN wire ELSE wire \cup QueryAnswers[c]
  /\ UNCHANGED <<callVars, whoisVars, passed, askVars, received, first, announced>>

Pass(c) ==
  /\ gpc[c] = "pass"
  /\ gpc' = [gpc EXCEPT ![c] = "passing"]
  /\ passed' = [passed EXCEPT ![c] = err[c]]
  /\ UNCHANGED <<callVars, whoisVars, err, askVars, netVars>>

(* Subscribe returned, without an error, as it always does.                *)
QueryEnds(c) ==
  /\ Goto(c, "collect", "join")
  /\ err' = [err EXCEPT ![c] = FALSE]
  /\ UNCHANGED <<heard, out, whoisVars, gpc, passed, askVars, netVars>>

(* A call takes values of one type, a list of addresses or an NPDU.  What  *)
(* it lists is kept as a set here: its order says nothing.                 *)
Takes == [routers |-> "list", number |-> "npdu"]

Taken(c) == {v \in ToSet(heard[c]) : v.type = Takes[c]}

Join(c) ==
  /\ gpc[c] = "passing"
  /\ Goto(c, "join", IF passed[c] THEN "failed" ELSE "done")
  /\ gpc' = [gpc EXCEPT ![c] = "returned"]
  /\ out' = [out EXCEPT ![c] =
               IF passed[c] THEN {} ELSE UNION {ToSet(v.nets) : v \in Taken(c)}]
  /\ UNCHANGED <<heard, whoisVars, err, passed, askVars, netVars>>

-----------------------------------------------------------------------------
(* A confirmed request to a device that was found, and the answer of the   *)
(* device it reaches.                                                      *)
Ask ==
  /\ pc["whois"] = "done" /\ api = "client"
  /\ asked = {} /\ answer = NoAnswer
  /\ \E i \in DOMAIN out["whois"] :
       LET a == SetLength(out["whois"][i].addr)
       IN /\ pending' = a
          /\ asked' = Reached(a)
          /\ \E k \in {"ack", "error", "reject", "abort"} :
               wire' = wire \cup {Packet(d, k, "unicast") : d \in Reached(a)}
  /\ UNCHANGED <<callVars, whoisVars, sendVars, answer, received, first, announced>>

(* handleMsg.                                                              *)
HandleMsg ==
  /\ received < MaxReceived
  /\ received' = received + 1
  /\ \E p \in wire :
       /\ heard' = [c \in Calls |->
            IF Published(p) # Nothing /\ Subscribed(c, Published(p).number)
              THEN Append(heard[c], Published(p)) ELSE heard[c]]
       /\ first' = [n \in 0..MaxInstance |->
            IF /\ pc["whois"] \in {"send", "collect"} /\ first[n] = NoDevice
               /\ p.kind = "iam" /\ Instance[p.by] = n
              THEN p.by ELSE first[n]]
       /\ announced' = [c \in Queries |->
            IF pc[c] = "collect" THEN announced[c] \cup {p} ELSE announced[c]]
       /\ IF pending # NoAddress /\ Completes(p, pending)
            THEN answer' = p /\ pending' = NoAddress
            ELSE UNCHANGED <<answer, pending>>
  /\ UNCHANGED <<pc, out, whoisVars, sendVars, asked, wire>>

Next ==
  \/ \E a \in {"client", "network", "device"} : WhoIs(a)
  \/ SendWhoIs \/ SendWhoIsFails \/ CollectEnds \/ NextValue \/ NoMoreValues
  \/ NetworkDetails \/ DeviceDetails
  \/ \E c \in Queries :
       Query(c) \/ Subscribe(c) \/ Send(c) \/ Pass(c) \/ QueryEnds(c) \/ Join(c)
  \/ Ask \/ HandleMsg

Spec == Init /\ [][Next]_vars

-----------------------------------------------------------------------------
(* Properties.                                                             *)

Wanted(o, n) == n >= o.low /\ (o.high > 0 => n <= o.high)

WholeNetwork(o) == o.low = ArrayAll /\ o.high = ArrayAll

(* Every device in the range asked for whose I-Am came in during the call  *)
(* is listed once, and nothing else is: under the address where it is,     *)
(* whatever way the I-Am took, and however other calls that share the      *)
(* numbers were answered meanwhile (WhoIs, handleMsg).                     *)
(* The exception is against the comment of WhoIs, by which ArrayAll for    *)
(* both bounds scans the entire network (whois.go:16-17): the Who-Is goes  *)
(* to all, but the call subscribes to the number ArrayAll and lists none.  *)
DevicesListed ==
  pc["whois"] \in {"details", "done"} /\ api # "device" =>
    LET list == out["whois"]
        inRange == {n \in 0..MaxInstance : Wanted(opts, n) /\ first[n] # NoDevice}
    IN /\ {list[i].instance : i \in DOMAIN list} = IF WholeNetwork(opts) THEN {} ELSE inRange
       /\ \A i \in DOMAIN list : list[i].addr = At(first[list[i].instance])
       /\ \A i, j \in DOMAIN list : list[i].instance = list[j].instance => i = j

(* A query that succeeded lists the networks announced in answers to it,   *)
(* at most two of each, and no other number (WhoIsRouterToNetwork).        *)
NetworksListed ==
  \A c \in Queries : pc[c] = "done" =>
    LET kind == IF c = "routers" THEN "iamrouter" ELSE "networkis"
        two(p) == IF c = "number" THEN {p.nets[1]}
                  ELSE IF Len(p.nets) > 1 THEN {p.nets[1], p.nets[2]} ELSE {}
    IN out[c] = UNION {two(p) : p \in {q \in announced[c] : q.kind = kind}}

(* A listed device can be asked: a request to its entry reaches it and no  *)
(* other, its replies are taken, and what NetworkDiscover reads is its own *)
(* (WhoIs, Send, deliver, NewDevice).                                      *)
FoundReachable ==
  pc["whois"] \in {"details", "done"} /\ api # "device" =>
    \A i \in DOMAIN out["whois"] :
      LET e == out["whois"][i]
          a == SetLength(e.addr)
          short == Len(e.addr.adr) <= 1
      IN \E d \in Devices :
           /\ Reached(a) = {d} /\ Source(Packet(d, "ack", "unicast")) = a
           /\ {e.name, e.info} \subseteq {d, NoDevice}
           /\ short => Readable(NewDevice(e), e.instance) = {d}

(* A request ends with a reply of the device it was sent to and of no      *)
(* other, wherever they are: behind one router, a BBMD or here (handleMsg, *)
(* deliver).  It need not be its own.  What that device answered to        *)
(* another program's request of the same id ends it as well if it is a     *)
(* Reject or the Abort of a server, which are delivered without a service  *)
(* (device.go:288-299), or is of the same service; anything else does not. *)
CompletedByAsked ==
  answer # NoAnswer =>
    /\ asked = {answer.by}
    /\ \/ answer.own
       \/ answer.kind = "reject" \/ (answer.kind = "abort" /\ answer.server)
       \/ answer.kind \in {"ack", "error"} /\ answer.service
=============================================================================
