--------------------------- MODULE Discovery_proofs --------------------------
(***************************************************************************)
(* Theorems about what the discoveries list and about requests to devices  *)
(* that were found, for any devices and places.                            *)
(***************************************************************************)
EXTENDS Discovery, TLAPS

Replies == {"ack", "error", "reject", "abort"}

----------------------------------------------------------------------------
(* Packets and addresses.                                                  *)

LEMMA Numbers == \A n \in 0..GlobalBroadcast - 1 : n # 0 => n > 0
  BY DEF GlobalBroadcast

\* All that can be on the wire.
MayCome ==
  Background \cup {IAm(d) : d \in Devices}
    \cup (UNION {QueryAnswers[q] : q \in Queries})
    \cup UNION {{Packet(d, k, "unicast") : d \in Devices} : k \in Replies}

LEMMA SentMayCome ==
  ASSUME NEW d \in Devices
  PROVE  /\ IAm(d) \in MayCome
         /\ \A k \in Replies : Packet(d, k, "unicast") \in MayCome
<1>1. IAm(d) \in MayCome
  BY DEF MayCome
<1>2. ASSUME NEW k \in Replies PROVE Packet(d, k, "unicast") \in MayCome
  <2>1. Packet(d, k, "unicast") \in {Packet(e, k, "unicast") : e \in Devices}
    OBVIOUS
  <2> QED
    BY <2>1 DEF MayCome
<1> QED
  BY <1>1, <1>2

LEMMA AllGenuine == \A p \in MayCome : Genuine(p)
<1>1. \A p \in Background \cup UNION {QueryAnswers[q] : q \in Queries} : Genuine(p)
  BY TrafficAssumption
<1>2. \A k \in Replies : \A d \in Devices : Genuine(Packet(d, k, "unicast"))
  <2> SUFFICES ASSUME NEW d \in Devices, NEW k \in Replies
               PROVE  Genuine(Packet(d, k, "unicast"))
    OBVIOUS
  <2> DEFINE p == Packet(d, k, "unicast")
  <2>1. /\ p.kind = k /\ p.by = d /\ p.net = Place[d].net /\ p.adr = Place[d].adr
        /\ p.function = "unicast" /\ p.from = Place[d].mac
    BY DEF Packet
  <2>2. k \notin {"iam", "networkis", "iamrouter"}
    BY DEF Replies
  <2> QED
    BY <2>1, <2>2 DEF Genuine
<1>3. \A d \in Devices : Genuine(IAm(d))
  <2> SUFFICES ASSUME NEW d \in Devices PROVE Genuine(IAm(d))
    OBVIOUS
  <2>1. IAm(d).kind = "iam" /\ IAm(d).by = d
    BY DEF IAm, Packet
  <2>2. IAm(d) \in {Packet(d, "iam", f) : f \in {"unicast", "broadcast"}}
    BY DEF IAm
  <2> QED
    BY <2>1, <2>2 DEF Genuine
<1> QED
  BY <1>1, <1>2, <1>3 DEF MayCome

\* Whatever way an I-Am or a reply takes, its address is that of its device.
LEMMA SourceIsAt ==
  ASSUME NEW d \in Devices, NEW k, NEW f \in {"unicast", "broadcast"}
  PROVE  Source(Packet(d, k, f)) = At(d)
<1> DEFINE p == Packet(d, k, f)
           src == Address(Place[d].mac, 0, <<>>)
           net == IF p.net > 0 THEN [src EXCEPT !.net = p.net] ELSE src
<1>1. /\ p.net = Place[d].net /\ p.adr = Place[d].adr
      /\ (IF p.function = "forwarded" THEN p.origin ELSE p.from) = Place[d].mac
  BY DEF Packet
<1>2. Place[d].net \in 0..GlobalBroadcast - 1 /\ (Place[d].net = 0 <=> Place[d].adr = <<>>)
  BY DiscoveryAssumption
<1>3. Source(p) = IF p.adr = <<>> THEN net ELSE [net EXCEPT !.adr = p.adr, !.len = Len(p.adr)]
  BY <1>1 DEF Source
<1>4. CASE Place[d].adr = <<>>
  BY <1>1, <1>2, <1>3, <1>4 DEF At, Address
<1>5. CASE Place[d].adr # <<>>
  <2>1. Place[d].net > 0
    BY <1>2, <1>5, Numbers
  <2> QED
    BY <1>1, <1>3, <1>5, <2>1 DEF At, Address
<1> QED
  BY <1>4, <1>5

\* What handleMsg publishes of an I-Am, and nothing else has that type.
IAmValue(d) ==
  [number |-> Instance[d], type |-> "iam", instance |-> Instance[d], addr |-> At(d), info |-> d]

LEMMA IAmPublished ==
  ASSUME NEW p \in MayCome
  PROVE  /\ p.kind = "iam" => p.by \in Devices /\ Published(p) = IAmValue(p.by)
         /\ Published(p).type = "iam" => p.kind = "iam"
<1>1. ASSUME p.kind = "iam" PROVE p.by \in Devices /\ Published(p) = IAmValue(p.by)
  <2>1. PICK f \in {"unicast", "broadcast"} : p.by \in Devices /\ p = Packet(p.by, "iam", f)
    BY <1>1, AllGenuine DEF Genuine
  <2>2. Source(p) = At(p.by)
    BY <2>1, SourceIsAt
  <2>3. p.function \in {"unicast", "broadcast", "forwarded"}
    BY <2>1 DEF Packet
  <2> QED
    BY <1>1, <2>1, <2>2, <2>3 DEF Published, IAmValue
<1>2. ASSUME p.kind # "iam" PROVE Published(p).type # "iam"
  BY <1>2 DEF Published, Nothing
<1> QED
  BY <1>1, <1>2

----------------------------------------------------------------------------
(* Requests to devices that were found.                                    *)

\* The address handleMsg makes of a reply leads to its sender only.
LEMMA Located ==
  ASSUME NEW p, Genuine(p), p.kind \in Replies
  PROVE  Reached(Source(p)) = {p.by}
<1> USE DiscoveryAssumption
<1>1. /\ p.by \in Devices /\ p.function = "unicast" /\ p.from = Place[p.by].mac
      /\ p.net = Place[p.by].net /\ p.adr = Place[p.by].adr
  BY DEF Genuine, Replies
<1>2. p.net \in 0..GlobalBroadcast - 1 /\ (p.net = 0 <=> p.adr = <<>>)
  BY <1>1
<1>3. Source(p).mac = p.from /\ Source(p).net = p.net /\ Source(p).adr = p.adr
  <2>1. CASE p.adr = <<>>
    BY <1>1, <1>2, <2>1 DEF Source, Address
  <2>2. CASE p.adr # <<>>
    <3> DEFINE src == Address(p.from, 0, <<>>)
               net == [src EXCEPT !.net = p.net]
    <3>1. p.net > 0
      <4>1. p.net # 0
        BY <1>2, <2>2
      <4> QED
        BY <1>2, <4>1, Numbers
    <3>2. Source(p) = [net EXCEPT !.adr = p.adr, !.len = Len(p.adr)]
      BY <1>1, <2>2, <3>1 DEF Source
    <3> QED
      BY <3>2 DEF Address
  <2> QED
    BY <2>1, <2>2
<1>4. ASSUME NEW d \in Devices, Place[d].mac = p.from, Place[d].net = p.net,
             p.net # 0 => Place[d].adr = p.adr
      PROVE  d = p.by
  <2>1. Place[d].adr = p.adr
    BY <1>2, <1>4
  <2> QED
    BY <1>1, <1>4, <2>1
<1> QED
  BY <1>1, <1>3, <1>4 DEF Reached

\* A request that waits for an address was sent there.
AskInv ==
  /\ wire \subseteq MayCome
  /\ pending # NoAddress => asked = Reached(pending)
  /\ CompletedByAsked

LEMMA AskInit == Init => AskInv
  BY DEF Init, AskInv, CompletedByAsked, MayCome

LEMMA AskStep == AskInv /\ [Next]_vars => AskInv'
<1> SUFFICES ASSUME AskInv, [Next]_vars PROVE AskInv'
  OBVIOUS
<1> USE DEF callVars, whoisVars, sendVars, askVars, netVars
<1>1. CASE UNCHANGED <<wire, pending, asked, answer>>
  BY <1>1 DEF AskInv, CompletedByAsked
<1>2. CASE SendWhoIs
  <2>1. wire' = wire \cup {IAm(d) : d \in Hear(opts)} /\ UNCHANGED <<pending, asked, answer>>
    BY <1>2 DEF SendWhoIs
  <2>2. \A d \in Hear(opts) : IAm(d) \in MayCome
    BY SentMayCome DEF Hear
  <2>3. wire' \subseteq MayCome
    BY <2>1, <2>2 DEF AskInv
  <2> QED
    BY <2>1, <2>3 DEF AskInv, CompletedByAsked
<1>3. ASSUME NEW c \in Queries, Send(c) PROVE AskInv'
  <2>1. wire' \subseteq wire \cup QueryAnswers[c] /\ UNCHANGED <<pending, asked, answer>>
    BY <1>3 DEF Send
  <2>2. wire' \subseteq MayCome
    BY <2>1 DEF AskInv, MayCome
  <2> QED
    BY <2>1, <2>2 DEF AskInv, CompletedByAsked
<1>4. CASE Ask
  <2>1. PICK i \in DOMAIN out["whois"], k \in Replies :
          LET a == SetLength(out["whois"][i].addr)
          IN /\ pending' = a /\ asked' = Reached(a)
             /\ wire' = wire \cup {Packet(d, k, "unicast") : d \in Reached(a)}
    BY <1>4 DEF Ask, Replies
  <2>2. answer = NoAnswer /\ UNCHANGED answer
    BY <1>4 DEF Ask
  <2>3. \A a : Reached(a) \subseteq Devices
    BY DEF Reached
  <2>4. \A d \in Devices : Packet(d, k, "unicast") \in MayCome
    BY SentMayCome
  <2>5. wire' \subseteq MayCome
    BY <2>1, <2>3, <2>4 DEF AskInv
  <2> QED
    BY <2>1, <2>2, <2>5 DEF AskInv, CompletedByAsked, NoAnswer
<1>5. CASE HandleMsg
  <2>1. PICK p \in wire :
          IF pending # NoAddress /\ Completes(p, pending)
            THEN answer' = p /\ pending' = NoAddress
            ELSE UNCHANGED <<answer, pending>>
    BY <1>5 DEF HandleMsg
  <2>2. UNCHANGED <<asked, wire>>
    BY <1>5 DEF HandleMsg
  <2>3. CASE pending # NoAddress /\ Completes(p, pending)
    <3>1. /\ Genuine(p) /\ p.kind \in Replies /\ Source(p) = pending
          /\ asked = Reached(pending)
      BY <2>3, AllGenuine DEF AskInv, Completes, Replies
    <3>2. \/ p.kind = "reject" \/ (p.kind = "abort" /\ p.server)
          \/ p.kind \in {"ack", "error"} /\ p.service
      BY <2>3 DEF Completes
    <3>3. asked = {p.by}
      BY <3>1, Located
    <3> QED
      BY <2>1, <2>2, <2>3, <3>2, <3>3 DEF AskInv, CompletedByAsked, NoAnswer
  <2>4. CASE ~(pending # NoAddress /\ Completes(p, pending))
    BY <2>1, <2>2, <2>4 DEF AskInv, CompletedByAsked
  <2> QED
    BY <2>3, <2>4
<1>6. CASE SendWhoIsFails \/ CollectEnds \/ NextValue \/ NoMoreValues \/ NetworkDetails \/ DeviceDetails
           \/ \E a \in {"client", "network", "device"} : WhoIs(a)
  BY <1>1, <1>6 DEF SendWhoIsFails, CollectEnds, NextValue, NoMoreValues, NetworkDetails,
     DeviceDetails, WhoIs
<1>7. ASSUME NEW c \in Queries, Query(c) \/ Subscribe(c) \/ Pass(c) \/ QueryEnds(c) \/ Join(c)
      PROVE  AskInv'
  BY <1>1, <1>7 DEF Query, Subscribe, Pass, QueryEnds, Join
<1>8. CASE UNCHANGED vars
  BY <1>1, <1>8 DEF vars
<1> QED
  BY <1>2, <1>3, <1>4, <1>5, <1>6, <1>7, <1>8 DEF Next

\* A request to a device that was found ends with a reply of that device only,
\* wherever devices are, and with one to another program only where the code has
\* no service to tell them apart by or the service is the same.
THEOREM AskedAnswers == Spec => []CompletedByAsked
<1>1. AskInv => CompletedByAsked
  BY DEF AskInv
<1> QED
  BY <1>1, AskInit, AskStep, PTL DEF Spec

----------------------------------------------------------------------------
(* What was heard and what is listed.                                      *)

Phases ==
  {"idle", "subscribe", "send", "collect", "values", "details", "join", "done", "failed"}
Values == {Published(p) : p \in MayCome}

\* What an entry of the list is: of a device, with details read from it or none.
EntryOf(d, e) ==
  [instance |-> Instance[d], addr |-> At(d), info |-> e.info, name |-> e.name,
   ip |-> Place[d].mac[1], port |-> Place[d].mac[2], net |-> Place[d].net,
   mstp |-> IF Place[d].adr = <<>> THEN 0 ELSE Place[d].adr[1]]
Entries == UNION {{EntryOf(d, e) : e \in [info : {d, NoDevice}, name : {d, NoDevice}]} :
                    d \in Devices}

Types ==
  /\ wire \subseteq MayCome
  /\ pc \in [Calls -> Phases]
  /\ heard \in [Calls -> Seq(Values)]
  /\ out = [c \in Calls |-> out[c]]
  /\ opts \in Options
  /\ announced \in [Queries -> SUBSET MayCome]
  /\ first \in [0..MaxInstance -> Devices \cup {NoDevice}]
  /\ \A n \in 0..MaxInstance : first[n] # NoDevice => Instance[first[n]] = n

\* Where the I-Ams are that wait to be listed.
Waiting == {i \in DOMAIN heard["whois"] : heard["whois"][i].type = "iam"}

\* The instances that wait, and those that are listed.
WaitingInstances == {heard["whois"][i].instance : i \in Waiting}
ListedInstances == {out["whois"][i].instance : i \in DOMAIN out["whois"]}

\* What waits is from devices asked for, and the first of an instance that is
\* not listed yet came first of all.
WaitingOK ==
  \A i \in Waiting :
    LET v == heard["whois"][i]
    IN /\ v.info \in Devices /\ v = IAmValue(v.info) /\ Wanted(opts, v.instance)
       /\ \/ v.info = first[v.instance]
          \/ \E j \in Waiting : j < i /\ heard["whois"][j].instance = v.instance
          \/ v.instance \in ListedInstances

ListOK ==
  /\ out["whois"] \in Seq(Entries)
  /\ \A i \in DOMAIN out["whois"] :
       LET e == out["whois"][i]  d == first[e.instance]
       IN /\ e.instance \in 0..MaxInstance /\ Wanted(opts, e.instance)
          /\ d \in Devices /\ e = EntryOf(d, e) /\ {e.info, e.name} \subseteq {d, NoDevice}
  /\ \A i, j \in DOMAIN out["whois"] :
       out["whois"][i].instance = out["whois"][j].instance => i = j

\* Every device in the range that was heard waits or is listed, and no other.
NoneMissed ==
  \A n \in 0..MaxInstance : Wanted(opts, n) =>
    (first[n] # NoDevice <=> n \in WaitingInstances \cup ListedInstances)

WhoIsInv ==
  /\ pc["whois"] = "idle" => /\ heard["whois"] = <<>>
                             /\ \A n \in 0..MaxInstance : first[n] = NoDevice
  /\ pc["whois"] \in {"idle", "send", "collect", "failed"} => out["whois"] = <<>>
  /\ pc["whois"] \in {"details", "done"} => heard["whois"] = <<>>
  /\ ~(pc["whois"] = "done" /\ api = "device") => WaitingOK /\ ListOK /\ NoneMissed

\* A query takes what is published of the packets that answer it, and
\* lists the networks of it.
Answers == [routers |-> "iamrouter", number |-> "networkis"]

Answering(c) == {p \in announced[c] : p.kind = Answers[c] /\ Published(p) # Nothing}

QueryInv ==
  \A c \in Queries :
    /\ pc[c] # "send"
    /\ pc[c] \in {"idle", "subscribe"} => heard[c] = <<>> /\ announced[c] = {}
    /\ Taken(c) = {Published(p) : p \in Answering(c)}
    /\ pc[c] = "done" => out[c] = UNION {ToSet(v.nets) : v \in Taken(c)}

LEMMA ToSetAppend ==
  ASSUME NEW S, NEW s \in Seq(S), NEW x \in S
  PROVE  ToSet(Append(s, x)) = ToSet(s) \cup {x}
<1>1. /\ Len(s) \in Nat /\ DOMAIN s = 1..Len(s) /\ DOMAIN Append(s, x) = 1..Len(s) + 1
      /\ Append(s, x)[Len(s) + 1] = x /\ \A i \in 1..Len(s) : Append(s, x)[i] = s[i]
  OBVIOUS
<1>2. \A i \in DOMAIN s : i \in DOMAIN Append(s, x) /\ Append(s, x)[i] = s[i]
  BY <1>1
<1>3. \A i \in DOMAIN Append(s, x) : i \in DOMAIN s \/ Append(s, x)[i] = x
  BY <1>1
<1>4. x \in ToSet(Append(s, x))
  BY <1>1 DEF ToSet
<1> QED
  BY <1>2, <1>3, <1>4 DEF ToSet

\* What HandleMsg does with a packet.
Handles(p) ==
  /\ heard' = [c \in Calls |->
       IF Published(p) # Nothing /\ Subscribed(c, Published(p).number)
         THEN Append(heard[c], Published(p)) ELSE heard[c]]
  /\ first' = [n \in 0..MaxInstance |->
       IF /\ pc["whois"] \in {"send", "collect"} /\ first[n] = NoDevice
          /\ p.kind = "iam" /\ Instance[p.by] = n
         THEN p.by ELSE first[n]]
  /\ announced' = [c \in Queries |->
       IF pc[c] = "collect" THEN announced[c] \cup {p} ELSE announced[c]]
  /\ UNCHANGED <<pc, out, api, opts, wire>>

LEMMA MessageHandled == HandleMsg => \E p \in wire : Handles(p)
  BY DEF HandleMsg, Handles, whoisVars

LEMMA TypesInit == Init => Types
  BY DiscoveryAssumption DEF Init, Types, Calls, Queries, Phases, MayCome

LEMMA TypesStep == Types /\ AskInv /\ [Next]_vars => Types'
<1> SUFFICES ASSUME Types, AskInv, [Next]_vars PROVE Types'
  OBVIOUS
<1> USE DEF callVars, whoisVars, sendVars, askVars, netVars
<1>0. wire' \subseteq MayCome
  BY AskStep DEF AskInv
<1>1. ASSUME UNCHANGED <<heard, out, opts, announced, first>>, pc' \in [Calls -> Phases]
      PROVE  Types'
  BY <1>0, <1>1 DEF Types
<1>2. ASSUME \/ \E a \in {"client", "network", "device"} : WhoIs(a)
             \/ SendWhoIs \/ SendWhoIsFails \/ CollectEnds \/ NoMoreValues
      PROVE  Types'
  BY <1>1, <1>2 DEF WhoIs, SendWhoIs, SendWhoIsFails, CollectEnds, NoMoreValues, Goto, Types, Phases
<1>3. ASSUME NEW c \in Queries, Query(c) \/ Subscribe(c) \/ Send(c) \/ Pass(c) \/ QueryEnds(c)
      PROVE  Types'
  BY <1>1, <1>3 DEF Query, Subscribe, Send, Pass, QueryEnds, Goto, Types, Phases
<1>4. CASE Ask \/ UNCHANGED vars
  BY <1>1, <1>4 DEF Ask, vars, Types
<1>5. ASSUME NEW c \in Queries, Join(c) PROVE Types'
  BY <1>0, <1>5 DEF Join, Goto, Types, Phases, Calls, Queries
<1>6. CASE NextValue
  <2>1. heard["whois"] \in Seq(Values) /\ heard["whois"] # <<>>
    BY <1>6 DEF NextValue, Types, Calls
  <2>2. Tail(heard["whois"]) \in Seq(Values)
    BY <2>1
  <2>3. heard' \in [Calls -> Seq(Values)]
    BY <1>6, <2>2 DEF NextValue, Types
  <2>4. out' = [c \in Calls |-> out'[c]]
    BY <1>6 DEF NextValue, Types
  <2> QED
    BY <1>0, <1>6, <2>3, <2>4 DEF NextValue, Types
<1>7. CASE NetworkDetails \/ DeviceDetails
  <2>1. out' = [c \in Calls |-> out'[c]]
    BY <1>7 DEF NetworkDetails, DeviceDetails, Types
  <2>2. UNCHANGED <<heard, opts, announced, first>> /\ pc' \in [Calls -> Phases]
    BY <1>7 DEF NetworkDetails, DeviceDetails, Goto, Types, Phases
  <2> QED
    BY <1>0, <2>1, <2>2 DEF Types
<1>8. CASE HandleMsg
  <2>1. PICK p \in MayCome : Handles(p)
    BY <1>8, MessageHandled DEF Types
  <2>2. Published(p) \in Values
    BY DEF Values
  <2>3. heard' \in [Calls -> Seq(Values)]
    BY <2>1, <2>2 DEF Handles, Types
  <2>4. announced' \in [Queries -> SUBSET MayCome]
    BY <2>1 DEF Handles, Types
  <2>5. ASSUME NEW n \in 0..MaxInstance
        PROVE  /\ first'[n] \in Devices \cup {NoDevice}
               /\ first'[n] # NoDevice => Instance[first'[n]] = n
    BY <2>1, IAmPublished DEF Handles, Types
  <2>6. first' \in [0..MaxInstance -> Devices \cup {NoDevice}]
    BY <2>1, <2>5 DEF Handles
  <2> QED
    BY <1>0, <2>1, <2>3, <2>4, <2>5, <2>6 DEF Handles, Types
<1> QED
  BY <1>2, <1>3, <1>4, <1>5, <1>6, <1>7, <1>8 DEF Next

----------------------------------------------------------------------------
(* WhoIs.                                                                  *)

\* The numbers subscribed to are those asked for.
LEMMA SubscribedWanted ==
  ASSUME Types, NEW n \in 0..MaxInstance
  PROVE  Subscribed("whois", n) <=> pc["whois"] \in {"send", "collect"} /\ Wanted(opts, n)
<1>1. opts.low \in Int /\ opts.high \in Int /\ MaxInstance \in Nat
  BY DiscoveryAssumption DEF Types
<1>2. n \in Int /\ n >= 0 /\ n <= MaxInstance
  BY <1>1
<1> QED
  BY <1>1, <1>2 DEF Subscribed, Wanted, Low, High

\* An entry is one of its device.
LEMMA EntryIsOf ==
  ASSUME NEW d \in Devices, NEW v, v = IAmValue(d)
  PROVE  /\ Entry(v) = EntryOf(d, Entry(v)) /\ Entry(v) \in Entries
         /\ Entry(v).instance = Instance[d] /\ Entry(v).info = d /\ Entry(v).name = NoDevice
<1>1. /\ v.instance = Instance[d] /\ v.info = d /\ v.addr.mac = Place[d].mac
      /\ v.addr.net = Place[d].net /\ v.addr.adr = Place[d].adr /\ v.addr = At(d)
  BY DEF IAmValue, At, Address
<1>2. /\ Entry(v) = EntryOf(d, [info |-> d, name |-> NoDevice])
      /\ Entry(v).instance = Instance[d] /\ Entry(v).info = d /\ Entry(v).name = NoDevice
  BY <1>1 DEF Entry, EntryOf
<1>3. Entry(v) = EntryOf(d, Entry(v))
  BY <1>2 DEF EntryOf
<1>4. [info |-> d, name |-> NoDevice] \in [info : {d, NoDevice}, name : {d, NoDevice}]
  OBVIOUS
<1>5. Entry(v) \in {EntryOf(d, e) : e \in [info : {d, NoDevice}, name : {d, NoDevice}]}
  BY <1>2, <1>4
<1> QED
  BY <1>2, <1>3, <1>5 DEF Entries

\* No two devices have one address, and a unicast to that of one reaches it only.
LEMMA AtReaches ==
  ASSUME NEW d \in Devices
  PROVE  /\ Reached(At(d)) = {d}
         /\ \A e \in Devices : At(e) = At(d) => e = d
         /\ SetLength(At(d)) = At(d)
<1> USE DiscoveryAssumption
<1>1. At(d).mac = Place[d].mac /\ At(d).net = Place[d].net /\ At(d).adr = Place[d].adr
  BY DEF At, Address
<1>2. ASSUME NEW e \in Devices, Place[e].mac = Place[d].mac, Place[e].net = Place[d].net,
             Place[d].net # 0 => Place[e].adr = Place[d].adr
      PROVE  e = d
  BY <1>2
<1>3. ASSUME NEW e \in Devices, At(e) = At(d) PROVE e = d
  BY <1>3 DEF At, Address
<1>4. SetLength(At(d)) = At(d)
  BY DEF SetLength, At, Address
<1> QED
  BY <1>1, <1>2, <1>3, <1>4 DEF Reached

\* What is read at the address made of the entry of a device is its own, and
\* an entry whose address has at most one octet has all there is to it.
LEMMA ReadsItself ==
  ASSUME NEW d \in Devices, NEW e, e = EntryOf(d, e)
  PROVE  /\ Read(NewDevice(e), e.instance) \subseteq {d, NoDevice}
         /\ Len(Place[d].adr) <= 1 => Readable(NewDevice(e), e.instance) = {d}
<1> USE DiscoveryAssumption
<1> DEFINE a == NewDevice(e)
           adr == Place[d].adr
<1>1. /\ Place[d].net \in 0..GlobalBroadcast - 1 /\ (Place[d].net = 0 <=> adr = <<>>)
      /\ adr \in Seq(Nat) /\ Place[d].mac = <<Place[d].mac[1], Place[d].mac[2]>>
      /\ Place[d].mac[2] # 0
  OBVIOUS
<1>2. /\ e.instance = Instance[d] /\ e.ip = Place[d].mac[1] /\ e.port = Place[d].mac[2]
      /\ e.net = Place[d].net /\ e.mstp = IF adr = <<>> THEN 0 ELSE adr[1]
  BY DEF EntryOf
<1>3. a = Address(Place[d].mac, Place[d].net, IF adr = <<>> THEN <<>> ELSE <<adr[1]>>)
  <2> DEFINE mac == <<e.ip, IF e.port = 0 THEN 47808 ELSE e.port>>
             station == IF e.net # 0 \/ e.mstp # 0 THEN <<e.mstp>> ELSE <<>>
             short == IF adr = <<>> THEN <<>> ELSE <<adr[1]>>
  <2>1. mac = Place[d].mac
    BY <1>1, <1>2
  <2>2. station = short
    <3>1. CASE adr = <<>>
      BY <1>1, <1>2, <3>1
    <3>2. CASE adr # <<>>
      BY <1>1, <1>2, <3>2
    <3> QED
      BY <3>1, <3>2
  <2>3. a = Address(mac, e.net, station)
    BY DEF NewDevice
  <2> HIDE DEF a, mac, station, short
  <2>4. a = Address(Place[d].mac, Place[d].net, short)
    BY <1>2, <2>1, <2>2, <2>3
  <2> QED
    BY <2>4 DEF short
<1>4. a.mac = Place[d].mac /\ a.net = Place[d].net
      /\ a.adr = IF adr = <<>> THEN <<>> ELSE <<adr[1]>>
  BY <1>3 DEF Address
<1>5. \A f \in Devices : Source(Packet(f, "ack", "unicast")) = At(f)
  BY SourceIsAt
<1>6. ASSUME NEW f \in Readable(a, e.instance) PROVE f = d
  <2>1. f \in Devices /\ At(f) = a /\ Place[f].mac = Place[d].mac /\ Place[f].net = Place[d].net
    BY <1>4, <1>5, <1>6 DEF Readable, Reached
  <2>2. Place[f].adr = IF adr = <<>> THEN <<>> ELSE <<adr[1]>>
    BY <1>4, <2>1 DEF At, Address
  <2>3. Len(Place[f].adr) = Len(adr)
    BY <2>1
  <2>4. Place[f].adr = adr
    <3>1. CASE adr = <<>>
      BY <2>2, <3>1
    <3>2. CASE adr # <<>>
      <4>1. Len(adr) = 1
        BY <2>2, <2>3, <3>2
      <4>2. adr = <<adr[1]>>
        BY <1>1, <4>1
      <4> QED
        BY <2>2, <3>2, <4>2
    <3> QED
      BY <3>1, <3>2
  <2> QED
    BY <2>1, <2>4
<1>7. ASSUME Len(adr) <= 1 PROVE d \in Readable(a, e.instance)
  <2>1. a = At(d)
    <3>1. CASE adr = <<>>
      BY <1>3, <3>1 DEF At
    <3>2. CASE adr # <<>>
      <4>1. adr = <<adr[1]>>
        BY <1>1, <1>7, <3>2
      <4> QED
        BY <1>3, <3>2, <4>1 DEF At
    <3> QED
      BY <3>1, <3>2
  <2>2. d \in Reached(a)
    BY <2>1, AtReaches
  <2> QED
    BY <1>2, <1>5, <2>1, <2>2 DEF Readable
<1> QED
  BY <1>6, <1>7 DEF Read

\* What NetworkDiscover writes over an entry.
LEMMA EntryWithDetails ==
  ASSUME NEW d, NEW e, e = EntryOf(d, e), NEW read
  PROVE  /\ WithDetails(e, read) = EntryOf(d, read)
         /\ WithDetails(e, read).instance = e.instance
         /\ WithDetails(e, read).name = read.name /\ WithDetails(e, read).info = read.info
<1> DEFINE station == IF Place[d].adr = <<>> THEN 0 ELSE Place[d].adr[1]
           r(info, name) ==
             [instance |-> Instance[d], addr |-> At(d), info |-> info, name |-> name,
              ip |-> Place[d].mac[1], port |-> Place[d].mac[2], net |-> Place[d].net,
              mstp |-> station]
<1>1. e = r(e.info, e.name) /\ EntryOf(d, read) = r(read.info, read.name)
  BY DEF EntryOf
<1>2. /\ r(read.info, read.name).instance = Instance[d]
      /\ r(read.info, read.name).name = read.name /\ r(read.info, read.name).info = read.info
      /\ r(e.info, e.name).instance = Instance[d]
  OBVIOUS
<1> HIDE DEF station
<1>3. [r(e.info, e.name) EXCEPT !.name = read.name] = r(e.info, read.name)
  OBVIOUS
<1>4. [r(e.info, read.name) EXCEPT !.info = read.info] = r(read.info, read.name)
  OBVIOUS
<1>5. WithDetails(e, read) = [[e EXCEPT !.name = read.name] EXCEPT !.info = read.info]
  BY DEF WithDetails
<1> HIDE DEF r
<1> QED
  BY <1>1, <1>2, <1>3, <1>4, <1>5

LEMMA WhoIsInit == Init => WhoIsInv
<1> SUFFICES ASSUME Init PROVE WhoIsInv
  OBVIOUS
<1>1. /\ pc["whois"] = "idle" /\ heard["whois"] = <<>> /\ out["whois"] = <<>>
      /\ \A n \in 0..MaxInstance : first[n] = NoDevice
  BY DEF Init, Calls
<1> QED
  BY <1>1 DEF WhoIsInv, WaitingOK, ListOK, NoneMissed, Waiting, WaitingInstances, ListedInstances

LEMMA WhoIsSame ==
  ASSUME WhoIsInv, pc'["whois"] = pc["whois"], heard'["whois"] = heard["whois"],
         out'["whois"] = out["whois"], UNCHANGED <<first, opts, api>>
  PROVE  WhoIsInv'
BY DEF WhoIsInv, WaitingOK, ListOK, NoneMissed, Waiting, WaitingInstances, ListedInstances

\* A packet comes in.
LEMMA WhoIsHandles ==
  ASSUME Types, WhoIsInv, NEW p \in MayCome, Handles(p)
  PROVE  WhoIsInv'
<1> DEFINE h == heard["whois"]
           v == Published(p)
           subscribed == pc["whois"] \in {"send", "collect"}
<1>0. /\ h \in Seq(Values) /\ v \in Values /\ v \in Values \cup {Nothing}
      /\ UNCHANGED <<pc, out, opts, api>>
  BY DEF Types, Values, Calls, Handles
<1>1. CASE ~subscribed
  <2>1. heard'["whois"] = h
    BY <1>1 DEF Handles, Calls, Subscribed
  <2>2. first' = first
    BY <1>1 DEF Handles, Types
  <2> QED
    BY <1>0, <2>1, <2>2, WhoIsSame
<1>2. CASE subscribed
  <2>0. out["whois"] = <<>> /\ WaitingOK /\ ListOK /\ NoneMissed
    BY <1>2 DEF WhoIsInv
  <2>1. ListedInstances = {} /\ ListedInstances' = {}
    BY <1>0, <2>0 DEF ListedInstances
  <2>2. \A n \in 0..MaxInstance :
          first'[n] = IF first[n] = NoDevice /\ p.kind = "iam" /\ Instance[p.by] = n
                        THEN p.by ELSE first[n]
    BY <1>2 DEF Handles
  <2>3. heard'["whois"] = IF v # Nothing /\ Subscribed("whois", v.number) THEN Append(h, v) ELSE h
    BY DEF Handles, Calls
  <2>4. \A d \in Devices : Instance[d] \in 0..MaxInstance /\ d # NoDevice
    BY DiscoveryAssumption
  <2>5. \A i \in Waiting : h[i].instance \in 0..MaxInstance /\ first[h[i].instance] # NoDevice
    <3>1. ASSUME NEW i \in Waiting
          PROVE  h[i].instance \in 0..MaxInstance /\ first[h[i].instance] # NoDevice
      <4>1. h[i].info \in Devices /\ h[i] = IAmValue(h[i].info) /\ Wanted(opts, h[i].instance)
        BY <2>0, <3>1 DEF WaitingOK
      <4>2. h[i].instance \in 0..MaxInstance
        BY <2>4, <4>1 DEF IAmValue
      <4>3. h[i].instance \in WaitingInstances
        BY <3>1 DEF WaitingInstances
      <4> QED
        BY <2>0, <4>1, <4>2, <4>3 DEF NoneMissed
    <3> QED
      BY <3>1
  <2>6. ListOK'
    BY <1>0, <2>0 DEF ListOK
  \* nothing of interest was published
  <2>7. CASE ~(v.type = "iam" /\ Subscribed("whois", v.number))
    <3>1. \A n \in 0..MaxInstance : Wanted(opts, n) => first'[n] = first[n]
      <4> SUFFICES ASSUME NEW n \in 0..MaxInstance, Wanted(opts, n), p.kind = "iam",
                          Instance[p.by] = n
                   PROVE  FALSE
        BY <2>2
      <4>1. v.type = "iam" /\ v.number = n
        BY IAmPublished DEF IAmValue
      <4> QED
        BY <1>2, <2>7, <4>1, SubscribedWanted
    <3>2. Waiting' = Waiting /\ \A i \in Waiting : heard'["whois"][i] = h[i]
      <4>1. CASE heard'["whois"] = h
        BY <4>1 DEF Waiting
      <4>2. CASE heard'["whois"] = Append(h, v) /\ v.type # "iam"
        BY <1>0, <4>2 DEF Waiting
      <4> QED
        BY <2>3, <2>7, <4>1, <4>2
    <3>3. WaitingInstances' = WaitingInstances
      BY <3>2 DEF WaitingInstances
    <3>5. NoneMissed'
      BY <1>0, <2>0, <2>1, <3>1, <3>3 DEF NoneMissed
    <3>6. WaitingOK'
      BY <1>0, <2>0, <2>1, <2>5, <3>1, <3>2 DEF WaitingOK
    <3> QED
      BY <1>0, <1>2, <2>0, <2>6, <3>5, <3>6 DEF WhoIsInv
  \* an I-Am of the range
  <2>8. CASE v.type = "iam" /\ Subscribed("whois", v.number)
    <3> DEFINE n == v.instance
               m == Len(h) + 1
    <3>1. p.kind = "iam" /\ p.by \in Devices /\ v = IAmValue(p.by)
      BY <2>8, IAmPublished
    <3>2. /\ n \in 0..MaxInstance /\ n = Instance[p.by] /\ v.number = n /\ v.info = p.by
          /\ Wanted(opts, n)
      <4>1. v.number = n /\ n = Instance[p.by] /\ v.info = p.by
        BY <3>1 DEF IAmValue
      <4> QED
        BY <2>4, <2>8, <3>1, <4>1, SubscribedWanted
    <3>3. heard'["whois"] = Append(h, v)
      BY <2>3, <2>8 DEF Nothing
    <3>4. /\ Len(h) \in Nat /\ DOMAIN h = 1..Len(h) /\ DOMAIN heard'["whois"] = 1..m
          /\ heard'["whois"][m] = v /\ \A i \in 1..Len(h) : heard'["whois"][i] = h[i]
      BY <1>0, <3>3
    <3>5. /\ Waiting' = Waiting \cup {m} /\ m \notin Waiting /\ \A i \in Waiting : i < m
          /\ heard'["whois"][m] = v /\ \A i \in Waiting : heard'["whois"][i] = h[i]
      BY <2>8, <3>4 DEF Waiting
    <3>6. first'[n] # NoDevice /\ \A k \in 0..MaxInstance : k # n => first'[k] = first[k]
      BY <2>2, <2>4, <3>1, <3>2
    <3>7. NoneMissed'
      <4>1. WaitingInstances' = WaitingInstances \cup {n}
        BY <3>5 DEF WaitingInstances
      <4> QED
        BY <1>0, <2>0, <2>1, <3>6, <4>1 DEF NoneMissed
    <3>8. WaitingOK'
      <4> SUFFICES ASSUME NEW i \in Waiting'
                   PROVE  LET w == heard'["whois"][i]
                          IN /\ w.info \in Devices /\ w = IAmValue(w.info)
                             /\ Wanted(opts, w.instance)
                             /\ \/ w.info = first'[w.instance]
                                \/ \E j \in Waiting' : j < i /\ heard'["whois"][j].instance = w.instance
        BY <1>0 DEF WaitingOK
      <4>1. CASE i = m
        <5>1. CASE first[n] = NoDevice
          BY <2>2, <3>1, <3>2, <3>5, <4>1, <5>1
        <5>2. CASE first[n] # NoDevice
          <6>1. PICK j \in Waiting : h[j].instance = n
            BY <2>0, <2>1, <3>2, <5>2 DEF NoneMissed, WaitingInstances
          <6> QED
            BY <3>1, <3>2, <3>5, <4>1, <6>1
        <5> QED
          BY <5>1, <5>2
      <4>2. CASE i # m
        <5>1. i \in Waiting /\ heard'["whois"][i] = h[i]
          BY <3>5, <4>2
        <5>2. first'[h[i].instance] = first[h[i].instance]
          BY <2>2, <2>5, <5>1
        <5> QED
          BY <2>0, <2>1, <3>5, <5>1, <5>2 DEF WaitingOK
      <4> QED
        BY <4>1, <4>2
    <3> QED
      BY <1>0, <1>2, <2>0, <2>6, <3>7, <3>8 DEF WhoIsInv
  <2> QED
    BY <2>7, <2>8
<1> QED
  BY <1>1, <1>2

\* The loop looks at a value.
LEMMA WhoIsNextValue == Types /\ WhoIsInv /\ NextValue => WhoIsInv'
<1> SUFFICES ASSUME Types, WhoIsInv, NextValue PROVE WhoIsInv'
  OBVIOUS
<1> DEFINE h == heard["whois"]
           list == out["whois"]
           v == Head(h)
<1>1. /\ h \in Seq(Values) /\ h # <<>> /\ v = h[1]
      /\ pc["whois"] = "values" /\ WaitingOK /\ ListOK /\ NoneMissed
      /\ UNCHANGED <<pc, opts, api, first>>
  BY DEF NextValue, whoisVars, netVars, Types, Calls, WhoIsInv
<1>2. /\ out'["whois"] = IF Lists(v, list) THEN Append(list, Entry(v)) ELSE list
      /\ heard'["whois"] = Tail(h)
  BY DEF NextValue, Types, Calls
<1>3. /\ Len(h) \in Nat /\ 1 \in DOMAIN h /\ DOMAIN h = 1..Len(h)
      /\ DOMAIN heard'["whois"] = 1..Len(h) - 1
      /\ \A i \in 1..Len(h) - 1 : heard'["whois"][i] = h[i + 1]
  BY <1>1, <1>2
<1>4. Waiting' = {i \in 1..Len(h) - 1 : i + 1 \in Waiting}
  BY <1>3 DEF Waiting
\* what was listed before, and the value when it is listed
<1>5. /\ WaitingInstances \cup ListedInstances = WaitingInstances' \cup ListedInstances'
      /\ ListedInstances \subseteq ListedInstances'
      /\ 1 \in Waiting => h[1].instance \in ListedInstances'
      /\ ListOK'
  <2>0. \A n : n \in WaitingInstances <=> \/ n \in WaitingInstances'
                                          \/ 1 \in Waiting /\ n = h[1].instance
    <3>1. ASSUME NEW i \in Waiting, i # 1 PROVE h[i].instance \in WaitingInstances'
      <4>1. i - 1 \in Waiting' /\ heard'["whois"][i - 1] = h[i]
        BY <1>3, <1>4, <3>1 DEF Waiting
      <4> QED
        BY <4>1 DEF WaitingInstances
    <3>2. ASSUME NEW i \in Waiting' PROVE heard'["whois"][i].instance \in WaitingInstances
      BY <1>3, <1>4, <3>2 DEF WaitingInstances
    <3> QED
      BY <3>1, <3>2 DEF WaitingInstances
  <2>1. CASE ~Lists(v, list)
    <3>1. out'["whois"] = list
      BY <1>2, <2>1
    <3>2. ListedInstances' = ListedInstances
      BY <3>1 DEF ListedInstances
    <3>3. 1 \in Waiting => h[1].instance \in ListedInstances
      BY <1>1, <2>1 DEF Lists, Waiting, ListedInstances
    <3>4. ListOK'
      BY <1>1, <3>1 DEF ListOK
    <3> QED
      BY <2>0, <3>2, <3>3, <3>4
  <2>2. CASE Lists(v, list)
    <3> DEFINE m == Len(list) + 1
               e == Entry(v)
               d == v.info
    <3>1. 1 \in Waiting /\ \A i \in DOMAIN list : list[i].instance # v.instance
      BY <1>1, <1>3, <2>2 DEF Lists, Waiting
    <3>2. d \in Devices /\ v = IAmValue(d) /\ Wanted(opts, v.instance)
      BY <1>1, <3>1 DEF WaitingOK
    <3>3. d = first[v.instance]
      <4>1. \A j \in Waiting : ~(j < 1)
        BY <1>3 DEF Waiting
      <4>2. v.instance \notin ListedInstances
        BY <3>1 DEF ListedInstances
      <4> QED
        BY <1>1, <3>1, <4>1, <4>2 DEF WaitingOK
    <3>4. /\ e = EntryOf(d, e) /\ e \in Entries /\ e.instance = Instance[d] /\ e.info = d
          /\ e.name = NoDevice
      BY <3>2, EntryIsOf
    <3>5. v.instance = Instance[d] /\ Instance[d] \in 0..MaxInstance
      BY <3>2, DiscoveryAssumption DEF IAmValue
    <3>6. list \in Seq(Entries) /\ out'["whois"] = Append(list, e)
      BY <1>1, <1>2, <2>2 DEF ListOK
    <3> HIDE DEF e
    <3>10. out'["whois"] \in Seq(Entries)
      BY <3>4, <3>6
    <3>7. /\ Len(list) \in Nat /\ DOMAIN list = 1..Len(list) /\ DOMAIN out'["whois"] = 1..m
          /\ out'["whois"][m] = e /\ \A i \in 1..Len(list) : out'["whois"][i] = list[i]
      BY <3>4, <3>6
    <3>8. ListedInstances' = ListedInstances \cup {v.instance}
      <4>1. e.instance = v.instance
        BY <3>4, <3>5
      <4>2. \A i \in DOMAIN list : i \in DOMAIN out'["whois"] /\ out'["whois"][i] = list[i]
        BY <3>7
      <4>3. \A i \in DOMAIN out'["whois"] : i \in DOMAIN list \/ i = m
        BY <3>7
      <4>4. m \in DOMAIN out'["whois"] /\ out'["whois"][m] = e
        BY <3>7
      <4> HIDE DEF m, v
      <4> QED
        BY <4>1, <4>2, <4>3, <4>4 DEF ListedInstances
    <3>9. ListOK'
      <4>1. \A i \in DOMAIN out'["whois"] :
              LET f == out'["whois"][i]  g == first[f.instance]
              IN /\ f.instance \in 0..MaxInstance /\ Wanted(opts, f.instance)
                 /\ g \in Devices /\ f = EntryOf(g, f) /\ {f.info, f.name} \subseteq {g, NoDevice}
        <5>1. \A i \in DOMAIN list : i \in DOMAIN out'["whois"] /\ out'["whois"][i] = list[i]
          BY <3>7
        <5>2. \A i \in DOMAIN out'["whois"] : i \in DOMAIN list \/ i = m
          BY <3>7
        <5>3. /\ e.instance \in 0..MaxInstance /\ Wanted(opts, e.instance)
              /\ first[e.instance] = d /\ d \in Devices /\ e = EntryOf(d, e)
              /\ {e.info, e.name} \subseteq {d, NoDevice}
          BY <3>2, <3>3, <3>4, <3>5
        <5>4. out'["whois"][m] = e
          BY <3>7
        <5>5. \A i \in DOMAIN list :
                LET f == list[i]  g == first[f.instance]
                IN /\ f.instance \in 0..MaxInstance /\ Wanted(opts, f.instance)
                   /\ g \in Devices /\ f = EntryOf(g, f) /\ {f.info, f.name} \subseteq {g, NoDevice}
          BY <1>1 DEF ListOK
        <5> HIDE DEF m, d, v
        <5> QED
          BY <5>1, <5>2, <5>3, <5>4, <5>5
      <4>2. \A i, j \in DOMAIN out'["whois"] :
              out'["whois"][i].instance = out'["whois"][j].instance => i = j
        <5>1. \A i \in DOMAIN list : out'["whois"][i] = list[i]
          BY <3>7
        <5>2. \A i \in DOMAIN out'["whois"] : i \in DOMAIN list \/ i = m
          BY <3>7
        <5>3. out'["whois"][m].instance = v.instance
          BY <3>4, <3>5, <3>7
        <5>4. \A i, j \in DOMAIN list : list[i].instance = list[j].instance => i = j
          BY <1>1 DEF ListOK
        <5> HIDE DEF m, v
        <5> QED
          BY <3>1, <5>1, <5>2, <5>3, <5>4
      <4> QED
        BY <1>1, <3>10, <4>1, <4>2 DEF ListOK
    <3> QED
      BY <1>1, <2>0, <3>1, <3>8, <3>9
  <2> QED
    BY <2>1, <2>2
<1>6. NoneMissed'
  BY <1>1, <1>5 DEF NoneMissed
<1>7. WaitingOK'
  <2> SUFFICES ASSUME NEW i \in Waiting'
               PROVE  LET w == heard'["whois"][i]
                      IN /\ w.info \in Devices /\ w = IAmValue(w.info) /\ Wanted(opts, w.instance)
                         /\ \/ w.info = first[w.instance]
                            \/ \E j \in Waiting' : j < i /\ heard'["whois"][j].instance = w.instance
                            \/ w.instance \in ListedInstances'
    BY <1>1 DEF WaitingOK
  <2>1. i \in 1..Len(h) - 1 /\ i + 1 \in Waiting /\ heard'["whois"][i] = h[i + 1]
    BY <1>3, <1>4
  <2>2. ASSUME NEW j \in Waiting, j < i + 1, h[j].instance = h[i + 1].instance
        PROVE  \/ \E k \in Waiting' : k < i /\ heard'["whois"][k].instance = h[i + 1].instance
               \/ h[i + 1].instance \in ListedInstances'
    <3>1. CASE j = 1
      BY <1>5, <2>2, <3>1
    <3>2. CASE j # 1
      <4>1. j - 1 \in Waiting' /\ heard'["whois"][j - 1] = h[j] /\ j - 1 < i
        BY <1>3, <1>4, <2>1, <2>2, <3>2 DEF Waiting
      <4> QED
        BY <2>2, <4>1
    <3> QED
      BY <3>1, <3>2
  <2> QED
    BY <1>1, <1>5, <2>1, <2>2 DEF WaitingOK
<1> QED
  BY <1>1, <1>5, <1>6, <1>7 DEF WhoIsInv

\* NetworkDiscover writes over the entries what it read.
LEMMA WhoIsDetails == Types /\ WhoIsInv /\ NetworkDetails => WhoIsInv'
<1> SUFFICES ASSUME Types, WhoIsInv, NetworkDetails PROVE WhoIsInv'
  OBVIOUS
<1> DEFINE list == out["whois"]
<1>1. /\ pc["whois"] = "details" /\ pc'["whois"] = "done" /\ api = "network"
      /\ WaitingOK /\ ListOK /\ NoneMissed /\ heard["whois"] = <<>>
      /\ UNCHANGED <<heard, opts, api, first>>
  BY DEF NetworkDetails, Goto, whoisVars, netVars, WhoIsInv, Types, Calls
<1>2. PICK read \in [1..Len(list) -> [name : Devices \cup {NoDevice}, info : Devices \cup {NoDevice}]] :
        /\ \A i \in DOMAIN read :
             {read[i].name, read[i].info} \subseteq Read(NewDevice(list[i]), list[i].instance)
        /\ out'["whois"] = [i \in DOMAIN read |-> WithDetails(list[i], read[i])]
  BY DEF NetworkDetails, Types, Calls
<1>3. list \in Seq(Entries) /\ Len(list) \in Nat /\ DOMAIN list = 1..Len(list)
  BY <1>1 DEF ListOK
<1>4. ASSUME NEW i \in DOMAIN list
      PROVE  LET e == out'["whois"][i]  d == first[list[i].instance]
             IN /\ e.instance = list[i].instance /\ e = EntryOf(d, e)
                /\ {e.info, e.name} \subseteq {d, NoDevice} /\ e \in Entries
  <2> DEFINE d == first[list[i].instance]
             e == out'["whois"][i]
  <2>1. d \in Devices /\ list[i] = EntryOf(d, list[i]) /\ list[i].instance \in 0..MaxInstance
    BY <1>1 DEF ListOK
  <2>2. e = WithDetails(list[i], read[i])
    BY <1>2, <1>3
  <2>3. {read[i].name, read[i].info} \subseteq {d, NoDevice}
    <3>1. Read(NewDevice(list[i]), list[i].instance) \subseteq {d, NoDevice}
      BY <2>1, ReadsItself
    <3> QED
      BY <1>2, <1>3, <3>1
  <2>4. /\ e = EntryOf(d, read[i]) /\ e.instance = list[i].instance
        /\ e.name = read[i].name /\ e.info = read[i].info
    BY <2>1, <2>2, EntryWithDetails
  <2>5. e = EntryOf(d, e)
    BY <2>4 DEF EntryOf
  <2>6. read[i] \in [info : {d, NoDevice}, name : {d, NoDevice}]
    BY <1>2, <1>3, <2>3
  <2>7. e \in {EntryOf(d, x) : x \in [info : {d, NoDevice}, name : {d, NoDevice}]}
    BY <2>4, <2>6
  <2> QED
    BY <2>1, <2>3, <2>4, <2>5, <2>7 DEF Entries
<1>5. /\ DOMAIN out'["whois"] = DOMAIN list
      /\ out'["whois"] \in Seq(Entries)
  <2>1. out'["whois"] \in [1..Len(list) -> Entries]
    BY <1>2, <1>3, <1>4
  <2> QED
    BY <1>3, <2>1
<1>6. ListOK'
  BY <1>1, <1>4, <1>5 DEF ListOK
<1>7. WaitingOK' /\ NoneMissed'
  <2>1. ListedInstances' = ListedInstances
    BY <1>4, <1>5 DEF ListedInstances
  <2> QED
    BY <1>1, <2>1 DEF WaitingOK, NoneMissed, Waiting, WaitingInstances
<1> QED
  BY <1>1, <1>6, <1>7 DEF WhoIsInv

LEMMA WhoIsStep == Types /\ WhoIsInv /\ [Next]_vars => WhoIsInv'
<1> SUFFICES ASSUME Types, WhoIsInv, [Next]_vars PROVE WhoIsInv'
  OBVIOUS
<1> USE DEF callVars, whoisVars, sendVars, askVars, netVars
<1>1. ASSUME NEW a \in {"client", "network", "device"}, WhoIs(a) PROVE WhoIsInv'
  <2>1. /\ pc["whois"] = "idle" /\ pc'["whois"] = "send" /\ UNCHANGED <<heard, out, opts, first>>
    BY <1>1 DEF WhoIs, Goto, Types, Calls
  <2>2. /\ heard["whois"] = <<>> /\ out["whois"] = <<>>
        /\ WaitingOK /\ ListOK /\ NoneMissed
    BY <2>1 DEF WhoIsInv
  <2>3. WaitingOK' /\ ListOK' /\ NoneMissed'
    BY <2>1, <2>2
    DEF WaitingOK, ListOK, NoneMissed, Waiting, WaitingInstances, ListedInstances
  <2> QED
    BY <2>1, <2>2, <2>3 DEF WhoIsInv
<1>2. CASE SendWhoIs \/ SendWhoIsFails \/ CollectEnds \/ NoMoreValues
  <2>1. /\ \/ pc["whois"] = "send" /\ pc'["whois"] \in {"collect", "failed"}
           \/ pc["whois"] = "collect" /\ pc'["whois"] = "values"
           \/ /\ pc["whois"] = "values" /\ pc'["whois"] = (IF api = "client" THEN "done" ELSE "details")
              /\ heard["whois"] = <<>>
        /\ UNCHANGED <<heard, out, api, opts, first>>
    BY <1>2 DEF SendWhoIs, SendWhoIsFails, CollectEnds, NoMoreValues, Goto, Types, Calls
  <2>2. WaitingOK /\ ListOK /\ NoneMissed
    BY <2>1 DEF WhoIsInv
  <2>3. WaitingOK' /\ ListOK' /\ NoneMissed'
    BY <2>1, <2>2
    DEF WaitingOK, ListOK, NoneMissed, Waiting, WaitingInstances, ListedInstances
  <2> QED
    BY <2>1, <2>2, <2>3 DEF WhoIsInv
<1>3. CASE NextValue
  BY <1>3, WhoIsNextValue
<1>4. CASE NetworkDetails
  BY <1>4, WhoIsDetails
<1>5. CASE DeviceDetails
  <2>1. /\ pc["whois"] = "details" /\ pc'["whois"] = "done" /\ api = "device"
        /\ UNCHANGED <<heard, api>>
    BY <1>5 DEF DeviceDetails, Goto, Types, Calls
  <2> QED
    BY <2>1 DEF WhoIsInv
<1>6. ASSUME NEW c \in Queries, Query(c) \/ Subscribe(c) \/ Send(c) \/ Pass(c) \/ QueryEnds(c)
      PROVE  WhoIsInv'
  <2>1. pc'["whois"] = pc["whois"] /\ UNCHANGED <<heard, out, api, opts, first>>
    BY <1>6 DEF Query, Subscribe, Send, Pass, QueryEnds, Goto, Types, Calls, Queries
  <2> QED
    BY <2>1, WhoIsSame
<1>7. ASSUME NEW c \in Queries, Join(c) PROVE WhoIsInv'
  <2>1. /\ pc'["whois"] = pc["whois"] /\ out'["whois"] = out["whois"]
        /\ UNCHANGED <<heard, api, opts, first>>
    BY <1>7 DEF Join, Goto, Types, Calls, Queries
  <2> QED
    BY <2>1, WhoIsSame
<1>8. CASE HandleMsg
  BY <1>8, MessageHandled, WhoIsHandles DEF Types
<1>9. CASE Ask \/ UNCHANGED vars
  BY <1>9, WhoIsSame DEF Ask, vars
<1> QED
  BY <1>1, <1>2, <1>3, <1>4, <1>5, <1>6, <1>7, <1>8, <1>9 DEF Next

----------------------------------------------------------------------------
(* The queries.                                                            *)

LEMMA Limit == GlobalBroadcast \in Nat
  BY DEF GlobalBroadcast

\* What is published of the packets that answer a query.
LEMMA NumberAnswered ==
  ASSUME NEW p \in MayCome, p.kind = "networkis"
  PROVE  /\ Published(p) # Nothing /\ Published(p).type = "npdu"
         /\ Published(p).number \in 1..GlobalBroadcast - 1 /\ ToSet(Published(p).nets) = {p.nets[1]}
<1>1. /\ p.function \in {"unicast", "broadcast", "forwarded"}
      /\ p.nets \in Seq(1..GlobalBroadcast - 1) /\ Len(p.nets) = 1
  BY AllGenuine DEF Genuine
<1>2. Published(p) = [number |-> p.nets[1], type |-> "npdu", nets |-> p.nets]
  BY <1>1 DEF Published
<1>3. p.nets[1] \in 1..GlobalBroadcast - 1
  BY <1>1, Limit
<1>4. ToSet(p.nets) = {p.nets[1]}
  BY <1>1 DEF ToSet
<1>5. Published(p).number = p.nets[1] /\ Published(p).type = "npdu" /\ Published(p).nets = p.nets
  BY <1>2
<1>6. Published(p) # Nothing
  BY <1>5 DEF Nothing
<1> QED
  BY <1>3, <1>4, <1>5, <1>6

LEMMA RoutersAnswered ==
  ASSUME NEW p \in MayCome, p.kind = "iamrouter"
  PROVE  /\ Len(p.nets) \in Nat
         /\ Len(p.nets) <= 1 => Published(p) = Nothing
         /\ Len(p.nets) > 1 =>
              /\ Published(p) # Nothing /\ Published(p).type = "list"
              /\ Published(p).number \in 1..GlobalBroadcast - 1
              /\ ToSet(Published(p).nets) = {p.nets[1], p.nets[2]}
<1>1. /\ p.function \in {"unicast", "broadcast", "forwarded"}
      /\ p.nets \in Seq(1..GlobalBroadcast - 1) /\ Len(p.nets) \in Nat
  BY AllGenuine DEF Genuine
<1>2. ASSUME Len(p.nets) <= 1 PROVE Published(p) = Nothing
  BY <1>1, <1>2 DEF Published
<1>3. ASSUME Len(p.nets) > 1
      PROVE  /\ Published(p) # Nothing /\ Published(p).type = "list"
             /\ Published(p).number \in 1..GlobalBroadcast - 1
             /\ ToSet(Published(p).nets) = {p.nets[1], p.nets[2]}
  <2>1. Published(p) = [number |-> p.nets[2], type |-> "list", nets |-> Networks(p)]
    BY <1>1, <1>3 DEF Published
  <2>2. p.nets[2] \in 1..GlobalBroadcast - 1
    BY <1>1, <1>3, Limit
  <2>3. CASE p.nets[1] = p.nets[2]
    <3>1. Networks(p) = <<p.nets[1]>>
      BY <2>3 DEF Networks
    <3>2. ToSet(<<p.nets[1]>>) = {p.nets[1]}
      BY DEF ToSet
    <3> QED
      BY <2>1, <2>2, <2>3, <3>1, <3>2 DEF Nothing
  <2>4. CASE p.nets[1] # p.nets[2]
    <3>1. Networks(p) = SubSeq(p.nets, 1, 2)
      BY <2>4 DEF Networks
    <3>2. /\ DOMAIN SubSeq(p.nets, 1, 2) = 1..2
          /\ SubSeq(p.nets, 1, 2)[1] = p.nets[1] /\ SubSeq(p.nets, 1, 2)[2] = p.nets[2]
      BY <1>1, <1>3
    <3>3. ToSet(SubSeq(p.nets, 1, 2)) = {p.nets[1], p.nets[2]}
      BY <3>2 DEF ToSet
    <3> QED
      BY <2>1, <2>2, <3>1, <3>3 DEF Nothing
  <2> QED
    BY <2>3, <2>4
<1> QED
  BY <1>1, <1>2, <1>3

LEMMA AnswerTaken ==
  ASSUME NEW p \in MayCome, NEW c \in Queries, p.kind = Answers[c], Published(p) # Nothing
  PROVE  Published(p).type = Takes[c] /\ Published(p).number \in 1..GlobalBroadcast - 1
<1>1. CASE c = "number"
  BY <1>1, NumberAnswered DEF Answers, Takes
<1>2. CASE c = "routers"
  <2>1. p.kind = "iamrouter" /\ Takes[c] = "list"
    BY <1>2 DEF Answers, Takes
  <2>2. Len(p.nets) > 1
    BY <2>1, RoutersAnswered
  <2> QED
    BY <2>1, <2>2, RoutersAnswered
<1> QED
  BY <1>1, <1>2 DEF Queries

\* Nothing else has the type a query takes.
LEMMA OnlyAnswers ==
  ASSUME NEW p \in MayCome, NEW c \in Queries, Published(p).type = Takes[c]
  PROVE  p.kind = Answers[c] /\ Published(p) # Nothing
BY DEF Published, Nothing, Takes, Answers, Queries

LEMMA QueryInit == Init => QueryInv
<1> SUFFICES ASSUME Init, NEW c \in Queries
             PROVE  /\ heard[c] = <<>> /\ announced[c] = {} /\ pc[c] = "idle"
                    /\ Taken(c) = {} /\ Answering(c) = {}
  BY DEF QueryInv
<1>1. heard[c] = <<>> /\ announced[c] = {} /\ pc[c] = "idle"
  BY DEF Init, Calls
<1> QED
  BY <1>1 DEF Taken, Answering, ToSet

LEMMA QueryHandles ==
  ASSUME Types, QueryInv, NEW p \in MayCome, Handles(p)
  PROVE  QueryInv'
<1> SUFFICES ASSUME NEW c \in Queries
             PROVE  /\ pc'[c] # "send"
                    /\ pc'[c] \in {"idle", "subscribe"} => heard'[c] = <<>> /\ announced'[c] = {}
                    /\ Taken(c)' = {Published(q) : q \in Answering(c)'}
                    /\ pc'[c] = "done" => out'[c] = UNION {ToSet(v.nets) : v \in Taken(c)'}
  BY DEF QueryInv
<1> DEFINE v == Published(p)
<1>1. /\ heard[c] \in Seq(Values) /\ v \in Values /\ c \in Calls
      /\ announced[c] \subseteq MayCome /\ UNCHANGED <<pc, out>>
  BY DEF Types, Values, Calls, Handles
<1>2. /\ heard'[c] = IF v # Nothing /\ Subscribed(c, v.number) THEN Append(heard[c], v) ELSE heard[c]
      /\ announced'[c] = IF pc[c] = "collect" THEN announced[c] \cup {p} ELSE announced[c]
  BY DEF Handles, Calls
<1>3. /\ Taken(c) = {Published(q) : q \in Answering(c)}
      /\ pc[c] # "send"
      /\ pc[c] \in {"idle", "subscribe"} => heard[c] = <<>> /\ announced[c] = {}
      /\ pc[c] = "done" => out[c] = UNION {ToSet(w.nets) : w \in Taken(c)}
  BY DEF QueryInv
<1>4. Subscribed(c, v.number) <=> /\ pc[c] \in {"send", "collect"}
                                  /\ v.number \in 1..GlobalBroadcast - 1
  BY DEF Subscribed, Queries
<1>6. CASE pc[c] # "collect"
  <2>1. heard'[c] = heard[c] /\ announced'[c] = announced[c]
    BY <1>2, <1>3, <1>4, <1>6
  <2> QED
    BY <1>1, <1>3, <2>1 DEF Taken, Answering
<1>7. CASE pc[c] = "collect"
  <2>1. Answering(c)' = IF p.kind = Answers[c] /\ v # Nothing THEN Answering(c) \cup {p} ELSE Answering(c)
    BY <1>2, <1>7 DEF Answering
  <2>2. Taken(c)' = IF p.kind = Answers[c] /\ v # Nothing THEN Taken(c) \cup {v} ELSE Taken(c)
    <3>1. CASE p.kind = Answers[c] /\ v # Nothing
      <4>1. v.type = Takes[c] /\ v.number \in 1..GlobalBroadcast - 1
        BY <3>1, AnswerTaken
      <4>2. heard'[c] = Append(heard[c], v)
        BY <1>2, <1>4, <1>7, <3>1, <4>1
      <4>3. ToSet(heard'[c]) = ToSet(heard[c]) \cup {v}
        BY <1>1, <4>2, ToSetAppend
      <4> QED
        BY <3>1, <4>1, <4>3 DEF Taken
    <3>2. CASE ~(p.kind = Answers[c] /\ v # Nothing)
      <4>1. v.type # Takes[c]
        BY <3>2, OnlyAnswers
      <4>2. ToSet(heard'[c]) = ToSet(heard[c]) \/ ToSet(heard'[c]) = ToSet(heard[c]) \cup {v}
        BY <1>1, <1>2, ToSetAppend
      <4> QED
        BY <3>2, <4>1, <4>2 DEF Taken
    <3> QED
      BY <3>1, <3>2
  <2> QED
    BY <1>1, <1>3, <1>7, <2>1, <2>2
<1> QED
  BY <1>6, <1>7

LEMMA QueryStep == Types /\ QueryInv /\ [Next]_vars => QueryInv'
<1> SUFFICES ASSUME Types, QueryInv, [Next]_vars PROVE QueryInv'
  OBVIOUS
<1> USE DEF callVars, whoisVars, sendVars, askVars, netVars
\* the call of a query goes on without a value or a packet
<1>1. ASSUME UNCHANGED <<heard, announced>>,
             \A c \in Queries : /\ pc'[c] \in {"idle", "subscribe"} => pc[c] \in {"idle", "subscribe"}
                                /\ pc'[c] = "send" => pc[c] = "send"
                                /\ pc'[c] = "done" => pc[c] = "done" /\ out'[c] = out[c]
      PROVE  QueryInv'
  BY <1>1 DEF QueryInv, Taken, Answering
<1>2. ASSUME UNCHANGED <<heard, announced>>, \A c \in Queries : pc'[c] = pc[c] /\ out'[c] = out[c]
      PROVE  QueryInv'
  BY <1>1, <1>2
<1>3. CASE \/ \E a \in {"client", "network", "device"} : WhoIs(a)
           \/ SendWhoIs \/ SendWhoIsFails \/ CollectEnds \/ NoMoreValues
           \/ NetworkDetails \/ DeviceDetails
  <2>1. UNCHANGED <<heard, announced>> /\ \A c \in Queries : pc'[c] = pc[c] /\ out'[c] = out[c]
    BY <1>3 DEF WhoIs, SendWhoIs, SendWhoIsFails, CollectEnds, NoMoreValues, NetworkDetails,
       DeviceDetails, Goto, Types, Calls, Queries
  <2> QED
    BY <1>2, <2>1
<1>4. CASE NextValue
  <2>1. UNCHANGED announced /\ \A c \in Queries : pc'[c] = pc[c] /\ out'[c] = out[c] /\ heard'[c] = heard[c]
    BY <1>4 DEF NextValue, Types, Calls, Queries
  <2> QED
    BY <2>1 DEF QueryInv, Taken, Answering
<1>5. ASSUME NEW c \in Queries, Query(c) \/ Subscribe(c) \/ QueryEnds(c) PROVE QueryInv'
  <2>1. /\ UNCHANGED <<heard, announced, out>>
        /\ \A d \in Queries \ {c} : pc'[d] = pc[d]
        /\ \/ pc[c] = "idle" /\ pc'[c] = "subscribe"
           \/ pc'[c] \in {"collect", "join"}
    BY <1>5 DEF Query, Subscribe, QueryEnds, Goto, Types, Calls
  <2> QED
    BY <1>1, <2>1
<1>6. ASSUME NEW c \in Queries, Send(c) \/ Pass(c) PROVE QueryInv'
  BY <1>2, <1>6 DEF Send, Pass
<1>7. ASSUME NEW c \in Queries, Join(c) PROVE QueryInv'
  <2>1. /\ UNCHANGED <<heard, announced>>
        /\ \A d \in Queries \ {c} : pc'[d] = pc[d] /\ out'[d] = out[d]
        /\ pc'[c] \in {"failed", "done"}
        /\ pc'[c] = "done" => out'[c] = UNION {ToSet(v.nets) : v \in Taken(c)}
    BY <1>7 DEF Join, Goto, Types, Calls
  <2> QED
    BY <2>1 DEF QueryInv, Taken, Answering
<1>8. CASE HandleMsg
  BY <1>8, MessageHandled, QueryHandles DEF Types
<1>9. CASE Ask \/ UNCHANGED vars
  BY <1>2, <1>9 DEF Ask, vars
<1> QED
  BY <1>3, <1>4, <1>5, <1>6, <1>7, <1>8, <1>9 DEF Next

----------------------------------------------------------------------------
(* The theorems.                                                           *)

LEMMA Inductive == Spec => [](AskInv /\ Types /\ WhoIsInv /\ QueryInv)
<1>1. Init => AskInv /\ Types /\ WhoIsInv /\ QueryInv
  BY AskInit, TypesInit, WhoIsInit, QueryInit
<1>2. AskInv /\ Types /\ WhoIsInv /\ QueryInv /\ [Next]_vars
        => (AskInv /\ Types /\ WhoIsInv /\ QueryInv)'
  BY AskStep, TypesStep, WhoIsStep, QueryStep
<1> QED
  BY <1>1, <1>2, PTL DEF Spec

\* WhoIs lists every device in the range whose I-Am came in, the first of each
\* instance, once and under the address where it is; but none when the range is
\* given as ArrayAll, which is said to be the whole network (whois.go:16-17).
THEOREM AllListed == Spec => []DevicesListed
<1>1. Types /\ WhoIsInv => DevicesListed
  <2> SUFFICES ASSUME Types, WhoIsInv, pc["whois"] \in {"details", "done"}, api # "device"
               PROVE  LET list == out["whois"]
                          inRange == {n \in 0..MaxInstance : Wanted(opts, n) /\ first[n] # NoDevice}
                      IN /\ {list[i].instance : i \in DOMAIN list}
                              = IF WholeNetwork(opts) THEN {} ELSE inRange
                         /\ \A i \in DOMAIN list : list[i].addr = At(first[list[i].instance])
                         /\ \A i, j \in DOMAIN list : list[i].instance = list[j].instance => i = j
    BY DEF DevicesListed
  <2>1. heard["whois"] = <<>> /\ ListOK /\ NoneMissed
    BY DEF WhoIsInv
  <2>2. WaitingInstances = {}
    BY <2>1 DEF WaitingInstances, Waiting
  <2>3. \A i \in DOMAIN out["whois"] : out["whois"][i].addr = At(first[out["whois"][i].instance])
    <3> SUFFICES ASSUME NEW i \in DOMAIN out["whois"]
                 PROVE  out["whois"][i].addr = At(first[out["whois"][i].instance])
      OBVIOUS
    <3>1. out["whois"][i] = EntryOf(first[out["whois"][i].instance], out["whois"][i])
      BY <2>1 DEF ListOK
    <3>2. \A d, e : EntryOf(d, e).addr = At(d)
      BY DEF EntryOf
    <3> QED
      BY <3>1, <3>2
  <2>4. ListedInstances \subseteq 0..MaxInstance /\ \A n \in ListedInstances : Wanted(opts, n)
    BY <2>1 DEF ListOK, ListedInstances
  <2>5. ListedInstances = {n \in 0..MaxInstance : Wanted(opts, n) /\ first[n] # NoDevice}
    BY <2>1, <2>2, <2>4 DEF NoneMissed
  <2>6. WholeNetwork(opts) => \A n \in 0..MaxInstance : ~Wanted(opts, n)
    BY DiscoveryAssumption DEF WholeNetwork, Wanted, Types
  <2>7. WholeNetwork(opts) => ListedInstances = {}
    BY <2>4, <2>6
  <2> QED
    BY <2>1, <2>3, <2>5, <2>7 DEF ListOK, ListedInstances
<1> QED
  BY <1>1, Inductive, PTL

\* Whatever is listed can be asked: a request to its entry reaches its device
\* and no other, its replies are taken, and what was read for it is its own.
THEOREM ListedReachable == Spec => []FoundReachable
<1>1. Types /\ WhoIsInv => FoundReachable
  <2> SUFFICES ASSUME Types, WhoIsInv, pc["whois"] \in {"details", "done"}, api # "device",
                      NEW i \in DOMAIN out["whois"]
               PROVE  LET e == out["whois"][i]
                          a == SetLength(e.addr)
                          short == Len(e.addr.adr) <= 1
                      IN \E d \in Devices :
                           /\ Reached(a) = {d} /\ Source(Packet(d, "ack", "unicast")) = a
                           /\ {e.name, e.info} \subseteq {d, NoDevice}
                           /\ short => Readable(NewDevice(e), e.instance) = {d}
    BY DEF FoundReachable
  <2> DEFINE e == out["whois"][i]
             d == first[e.instance]
  <2>1. d \in Devices /\ e = EntryOf(d, e) /\ {e.name, e.info} \subseteq {d, NoDevice}
    BY DEF WhoIsInv, ListOK
  <2> HIDE DEF e, d
  <2>2. e.addr = At(d) /\ e.addr.adr = Place[d].adr
    <3>1. \A x, y : EntryOf(x, y).addr = At(x)
      BY DEF EntryOf
    <3>2. At(d).adr = Place[d].adr
      BY DEF At, Address
    <3> QED
      BY <2>1, <3>1, <3>2
  <2>3. SetLength(e.addr) = At(d) /\ Reached(At(d)) = {d}
    BY <2>1, <2>2, AtReaches
  <2>4. Source(Packet(d, "ack", "unicast")) = At(d)
    BY <2>1, SourceIsAt
  <2>5. Len(e.addr.adr) <= 1 => Readable(NewDevice(e), e.instance) = {d}
    BY <2>1, <2>2, ReadsItself
  <2> QED
    BY <2>1, <2>3, <2>4, <2>5 DEF e
<1> QED
  BY <1>1, Inductive, PTL

\* A query that succeeded lists the networks of the packets that answered it.
THEOREM AnswersListed == Spec => []NetworksListed
<1>1. Types /\ QueryInv => NetworksListed
  <2> SUFFICES ASSUME Types, QueryInv, NEW c \in Queries, pc[c] = "done"
               PROVE  LET kind == IF c = "routers" THEN "iamrouter" ELSE "networkis"
                          two(p) == IF c = "number" THEN {p.nets[1]}
                                    ELSE IF Len(p.nets) > 1 THEN {p.nets[1], p.nets[2]} ELSE {}
                      IN out[c] = UNION {two(p) : p \in {q \in announced[c] : q.kind = kind}}
    BY DEF NetworksListed
  <2> DEFINE kind == IF c = "routers" THEN "iamrouter" ELSE "networkis"
             two(p) == IF c = "number" THEN {p.nets[1]}
                       ELSE IF Len(p.nets) > 1 THEN {p.nets[1], p.nets[2]} ELSE {}
  <2>1. kind = Answers[c] /\ announced[c] \subseteq MayCome
    BY DEF Answers, Queries, Types
  <2>2. out[c] = UNION {ToSet(Published(p).nets) : p \in Answering(c)}
    BY DEF QueryInv
  <2> HIDE DEF kind, two
  <2>3. ASSUME NEW p \in announced[c], p.kind = kind
        PROVE  two(p) = IF p \in Answering(c) THEN ToSet(Published(p).nets) ELSE {}
    <3>0. p \in MayCome /\ p.kind = Answers[c]
      BY <2>1, <2>3
    <3>1. p \in Answering(c) <=> Published(p) # Nothing
      BY <3>0 DEF Answering
    <3>2. CASE c = "number"
      <4>1. p.kind = "networkis" /\ two(p) = {p.nets[1]}
        BY <3>0, <3>2 DEF Answers, two
      <4> QED
        BY <3>0, <3>1, <4>1, NumberAnswered
    <3>3. CASE c = "routers"
      <4>1. /\ p.kind = "iamrouter"
            /\ two(p) = IF Len(p.nets) > 1 THEN {p.nets[1], p.nets[2]} ELSE {}
        BY <3>0, <3>3 DEF Answers, two
      <4>2. CASE Len(p.nets) > 1
        BY <3>0, <3>1, <4>1, <4>2, RoutersAnswered
      <4>3. CASE ~(Len(p.nets) > 1)
        <5>1. Len(p.nets) <= 1
          BY <3>0, <4>1, <4>3, RoutersAnswered
        <5>2. Published(p) = Nothing
          BY <3>0, <4>1, <5>1, RoutersAnswered
        <5> QED
          BY <3>1, <4>1, <4>3, <5>2
      <4> QED
        BY <4>2, <4>3
    <3> QED
      BY <3>2, <3>3 DEF Queries
  <2>4. Answering(c) \subseteq {q \in announced[c] : q.kind = kind}
    BY <2>1 DEF Answering
  <2>5. UNION {two(p) : p \in {q \in announced[c] : q.kind = kind}}
          = UNION {ToSet(Published(p).nets) : p \in Answering(c)}
    BY <2>3, <2>4
  <2> QED
    BY <2>2, <2>5 DEF two, kind
<1> QED
  BY <1>1, Inductive, PTL
=============================================================================
