------------------------------- MODULE Codec -------------------------------
(***************************************************************************)
(* What is written by one side of a connection and read by the other: a    *)
(* value or packet is encoded, the bytes perhaps cut short on their way    *)
(* (a datagram longer than the buffer it is received into), and decoded.   *)
(*                                                                         *)
(* The replies to ReadPropertyMultiple are decoded step by step, one round *)
(* of the loops of readmultipleack.go an action, because these loops do    *)
(* not all end; the client then matches what it read against its request   *)
(* (matchReadMultipleReply in readmulti.go).                               *)
(***************************************************************************)
EXTENDS Packets, FiniteSets

CONSTANTS
  Values,     (* the values encoded as application data                    *)
  Dates,      (* the dates                                                 *)
  Headers,    (* the network layer headers                                 *)
  NetworkLists, (* the networks that routers answer with                   *)
  Apdus,      (* the heads of requests                                     *)
  Reads,      (* the properties read and answered                          *)
  Announcements, (* the I-Am packets                                       *)
  Searches,   (* the ranges of Who-Is                                      *)
  Frames,     (* the BVLC headers and what follows them                    *)
  Writes,     (* the properties written                                    *)
  Lists,      (* the objects of requests for several properties            *)
  Replies,    (* the objects of replies to ReadPropertyMultiple            *)
  DeviceReplies, (* replies of devices: [bytes, objects], no encoder's work *)
  Asked,      (* the objects and properties asked for in such requests     *)
  MaxCut,     (* how many bytes are cut off at most                        *)
  MaxArray    (* the values of a property that are told apart              *)

\* The Go values that AppData encodes without an error, up to strings as long
\* as LongLength.
AppValues ==
  [t : {"uint", "int", "enum", "real"}, v : Word] \cup
  [t : {"double"}, v : [1 .. 8 -> Byte]] \cup
  [t : {"bool"}, v : {<<0>>, <<1>>}] \cup
  [t : {"objectid"}, v : (0 .. MaxObject) \X (0 .. MaxInstance)] \cup
  {x \in [t : {"string"}, v : Seq(Byte)] : Len(x.v) + 1 < LongLength} \cup
  {Null}

\* The others, with every number in the octets it is written in: a date of the
\* years that one octet tells from 1990, or of no year; a header with the type
\* and the vendor only where it says so; a property the client can write is
\* valid or not (ValidProperty).
OneOctet == {UnspecifiedTime} \cup (EpochYear .. EpochYear + 255)
AppDates == {dt \in [1 .. 4 -> Nat] : dt[1] \in OneOctet /\ \A i \in 2 .. 4 : dt[i] \in Byte}
Port == 0 .. 65535
Addresses ==
  {NoAddress} \cup
  {a \in [net : Port, len : Byte, adr : Seq(Byte), absent : {FALSE}] : Len(a.adr) = a.len}
AppHeaders ==
  {x \in [version : Byte, network : BOOLEAN, expecting : BOOLEAN, priority : 0 .. 3,
          destination : Addresses, source : Addresses, hops : Byte, type : Byte,
          vendor : Port] :
     (~x.network => x.type = 0) /\ (x.type < 128 => x.vendor = 0)}
AppApdus ==
  [type : {ConfirmedServiceRequest}, segmented : BOOLEAN, moreFollows : BOOLEAN,
   segmentedAccepted : BOOLEAN, maxSegs : Nat, maxApdu : 0 .. MaxAPDU,
   id : Byte, sequence : Byte, window : Byte, service : Byte]
AppReads ==
  [type : Nat, instance : 0 .. MaxInstance, prop : Nat, index : Word, data : AppValues]
AppAnnouncements ==
  [type : 0 .. MaxObject, instance : 0 .. MaxInstance, maxApdu : Word,
   segmentation : Word, vendor : Word]
AppAnswered == [prop : 0 .. MaxPropertyID, index : Word, data : AppValues]
AppReplies ==
  Seq([type : 0 .. MaxObject, instance : 0 .. MaxInstance, props : Seq(AppAnswered)])
AppWrites ==
  [type : Nat, instance : 0 .. MaxInstance, prop : Nat, index : Word, data : AppValues,
   priority : Byte]
AppWritten == [prop : Nat, index : Word, data : AppValues, priority : Byte]
AppLists ==
  Seq([type : 0 .. MaxObject, instance : 0 .. MaxInstance, props : Seq(AppWritten)])

ASSUME CodecAssumption ==
  /\ MaxCut \in Nat /\ MaxArray \in Nat \ {0}
  /\ Values \subseteq AppValues
  /\ Dates \subseteq AppDates
  /\ Headers \subseteq AppHeaders /\ NetworkLists \subseteq Seq(Port)
  /\ Apdus \subseteq AppApdus
  /\ Reads \subseteq AppReads
  /\ Announcements \subseteq AppAnnouncements
  /\ Searches \subseteq Nat \X Nat
  /\ Frames \subseteq [function : Byte, length : Port, data : Seq(Byte)]
  /\ Writes \subseteq AppWrites /\ Lists \subseteq AppLists
  /\ Replies \subseteq AppReplies
  /\ \A x \in DeviceReplies : x.bytes \in Seq(Byte)

VARIABLES
  phase,      (* idle, wire, reading (a reply), decoded, failed, matched   *)
  kind,       (* of the item on its way                                    *)
  item,
  wire,       (* its bytes                                                 *)
  cut,        (* the bytes cut off                                         *)
  out,        (* what the decoder returned                                 *)
  place,      (* the loop the decoder of replies is in                     *)
  r,          (* its variables                                             *)
  match       (* the request a reply was matched with, and the verdict     *)

vars == <<phase, kind, item, wire, cut, out, place, r, match>>

None == "none"
NoReader == [d |-> NewDecoder(<<>>), tag |-> 0, meta |-> 0, length |-> 0, prop |-> 0,
             index |-> ArrayAll, list |-> <<>>, stamp |-> Zeros(8),
             id |-> <<0, 0>>, props |-> <<>>, objects |-> <<>>]

Init == /\ phase = "idle" /\ kind = None /\ item = None
        /\ wire = <<>> /\ cut = 0 /\ out = None
        /\ place = None /\ r = NoReader /\ match = None

Send(k, x, bytes) ==
    /\ phase = "idle"
    /\ phase' = "wire" /\ kind' = k /\ item' = x /\ wire' = bytes
    /\ UNCHANGED <<cut, out, place, r, match>>

EncodeValue == \E x \in Values : Send("value", x, AppData(x, FALSE))
EncodeDate == \E x \in Dates : Send("date", x, Date(x))
\* The numbers of networks that follow the header are a router's work.
NetworkBytes(nets) ==
    [i \in 1 .. 2 * Len(nets) |-> Uint16(nets[(i + 1) \div 2])[2 - (i % 2)]]
EncodeNPDU == \E x \in Headers : \E nets \in NetworkLists :
    /\ nets # <<>> => \/ x.network /\ x.type = IamRouterToNetwork
                      \/ x.network /\ x.type = NetworkIs /\ Len(nets) = 1
    /\ Send("npdu", [npdu |-> x, nets |-> nets],
            NPDU(x) \o NetworkBytes(nets))
EncodeAPDU == \E x \in Apdus : Send("apdu", x, APDU(x))
EncodeRead == \E x \in Reads : Send("read", x, ReadProperty(1, x))
EncodeReadAck == \E x \in {y \in Reads : ValidProperty(y)} :
                    Send("readAck", x, ReadPropertyAck(1, x))
EncodeIAm == \E x \in Announcements : Send("iam", x, IAm(x))
EncodeWhoIs == \E x \in Searches : Send("whois", x, WhoIs(x[1], x[2]))
EncodeBVLC == \E x \in Frames : Send("bvlc", x, BVLC(x))
\* Of a request its values are kept.
ValuesOf(objects) ==
    FlattenSeq([i \in 1 .. Len(objects) |->
        [j \in 1 .. Len(objects[i].props) |-> objects[i].props[j].data]])
EncodeRequest ==
    \/ \E x \in Writes : /\ WritePropertyFault(x) = "none"
                        /\ Send("request", <<x.data>>, WriteProperty(1, x))
    \/ \E x \in Lists : \/ Send("request", <<>>, ReadMultipleProperty(1, x))
                       \/ Send("request", ValuesOf(x), WriteMultiProperty(1, x))
EncodeReply == \E x \in Replies : Send("reply", x, ReadMultiplePropertyAck(1, x))
DeviceReply == \E x \in DeviceReplies :
    Send("device", x.objects, Ack(ServiceReadPropMultiple, 1) \o x.bytes)
ReplyKinds == {"reply", "device"}

CutShort ==
    /\ phase = "wire" /\ cut = 0
    /\ \E n \in 1 .. MaxCut :
          /\ n <= Len(wire)
          /\ cut' = n
          /\ wire' = SubSeq(wire, 1, Len(wire) - n)
    /\ UNCHANGED <<phase, kind, item, out, place, r, match>>

Return(x) == \E y \in {x} : /\ out' = y
                             /\ phase' = IF y.err THEN "failed" ELSE "decoded"

\* The service data of a packet, once its head was read: the raw data of a
\* request, what is left of a reply; nothing when the head is not the service's.
BodyOf(a, service) ==
    CASE a.err \/ a.service # service -> [buf |-> <<>>, err |-> TRUE]
      [] ~a.err /\ a.service = service /\ a.type = ComplexAck -> a.d
      [] OTHER -> NewDecoder(a.raw)
Body(service) == BodyOf(DecodeAPDU(NewDecoder(wire)), service)

Decoding(k) == /\ phase = "wire" /\ kind = k
               /\ UNCHANGED <<kind, item, wire, cut, place, r, match>>

DecodeValue == Decoding("value") /\ Return(DecodeAppData(NewDecoder(wire)))
DecodeDateOnly ==
    LET x == DecodeDate(NewDecoder(wire), 4)
    IN  Decoding("date") /\ Return([v |-> x.v, err |-> x.d.err])
DecodeHeader == Decoding("npdu") /\ Return(DecodeNPDU(NewDecoder(wire)))
DecodeHead == Decoding("apdu") /\ Return(DecodeAPDU(NewDecoder(wire)))
DecodeRead == Decoding("read") /\ Return(DecodeReadProperty(Body(ServiceReadProperty)))
DecodeReadAck == Decoding("readAck") /\ Return(DecodeReadProperty(Body(ServiceReadProperty)))
DecodeAnnouncement == Decoding("iam") /\ Return(DecodeIAm(Body(ServiceIAm)))
DecodeFrame == Decoding("bvlc") /\ Return(DecodeBVLC(NewDecoder(wire)))
DecodeSearch == Decoding("whois") /\ Return(DecodeWhoIs(Body(ServiceWhoIs)))

\* A device reads a request tag by tag: what is opened is closed, and a value
\* has the bytes its tag says.
Tagged(d) ==
    LET walk[n \in 0 .. Len(d.buf)] ==
            IF n = 0 THEN [d |-> d, opened |-> <<>>, err |-> FALSE]
            ELSE LET s == walk[n - 1]
                     t == TagNumberAndValue(s.d)
                     bool == ~IsContextSpecific(t.meta) /\ t.tag = 1
                 IN  CASE s.d.buf = <<>> \/ s.err -> s
                       [] s.d.buf # <<>> /\ ~s.err /\ IsClosing(t.meta) ->
                             IF s.opened = <<>> THEN [s EXCEPT !.err = TRUE]
                             ELSE [d |-> t.d, opened |-> Front(s.opened),
                                   err |-> Last(s.opened) # t.tag]
                       [] s.d.buf # <<>> /\ ~s.err /\ IsOpening(t.meta) /\ ~IsClosing(t.meta) ->
                             [s EXCEPT !.d = t.d, !.opened = Append(@, t.tag)]
                       [] OTHER -> [s EXCEPT !.d = Decode(t.d, IF bool THEN 0 ELSE t.v).d]
        end == walk[Len(d.buf)]
    IN  [err |-> end.err \/ end.d.err \/ end.opened # <<>>]
DeviceRequest == Decoding("request") /\ Return(Tagged(NewDecoder(DecodeAPDU(NewDecoder(wire)).raw)))

-----------------------------------------------------------------------------
(* ReadMultiplePropertyAck.                                                *)

\* A round of a loop ends with the place and variables of the next one, or
\* with the return of the decoder.
Give(p, reader) == [place |-> p, r |-> reader, out |-> None]
Leave(x) == [place |-> None, r |-> NoReader, out |-> x]
Refuse == Leave([err |-> TRUE])

Round(p, next) ==
    /\ phase = "reading" /\ place = p
    /\ \E x \in {next} :
          /\ place' = x.place /\ r' = x.r /\ out' = x.out
          /\ phase' = CASE x.place # None -> "reading"
                        [] x.place = None -> IF x.out.err THEN "failed" ELSE "decoded"
    /\ UNCHANGED <<kind, item, wire, cut, match>>

OpenReply ==
    /\ phase = "wire" /\ kind \in ReplyKinds
    /\ \E d \in {Body(ServiceReadPropMultiple)} :
          IF d.err THEN Return([err |-> TRUE]) /\ UNCHANGED <<place, r>>
          ELSE /\ phase' = "reading" /\ place' = "object"
               /\ r' = [NoReader EXCEPT !.d = d]
               /\ UNCHANGED out
    /\ UNCHANGED <<kind, item, wire, cut, match>>

\* The outer loop, which an error ends: an object and its first tag.
ObjectRound(t, id, open, first) ==
    LET empty == first.tag = 1 /\ IsClosing(first.meta)
    IN  IF r.d.err \/ r.d.buf = <<>> THEN Leave([objects |-> r.objects, err |-> r.d.err])
        ELSE IF \/ t.tag # 0 \/ ~IsContextSpecific(t.meta)
                \/ open.tag # 1 \/ ~IsOpening(open.meta)
                \/ ~empty /\ first.tag # 2 THEN Refuse
        ELSE Give("property",
                [r EXCEPT !.d = first.d, !.tag = first.tag, !.meta = first.meta,
                          !.length = first.v, !.id = <<id.type, id.instance>>, !.props = <<>>])
ReadObject ==
    \E t \in {TagNumberAndValue(r.d)} : \E id \in {DecodeObjectId(t.d)} :
    \E open \in {TagNumber(id.d)} : \E first \in {TagNumberAndValue(open.d)} :
        Round("object", ObjectRound(t, id, open, first))

InProperties == r.d.buf # <<>> /\ r.tag = 2 /\ ~IsClosing(r.meta)

\* The object is complete, whether or not its closing tag was there.
EndObject ==
    /\ ~InProperties
    /\ Round("property", Give("object", [r EXCEPT !.objects =
          Append(@, [type |-> r.id[1], instance |-> r.id[2], props |-> r.props])]))

\* A property that was read, and the tag after it.
WithProperty(d, prop, index, data) ==
    LET t == TagNumberAndValue(d)
    IN  Give("property",
             [r EXCEPT !.d = t.d, !.tag = t.tag, !.meta = t.meta, !.length = t.v, !.list = <<>>,
                       !.props = Append(@, [prop |-> prop, index |-> index, data |-> data])])

\* Error class and code of a property: bacError.  The value is a Go error.
ErrorValue == <<[t |-> "error", v |-> <<>>]>>
DecodeBacError(d) ==
    LET bad(x) == x.err \/ x.x.t # "uint"
        both(class, code) == [d |-> code.d, err |-> bad(class) \/ bad(code)]
        class == DecodeAppData(d)
    IN  both(class, DecodeAppData(class.d))

PropertyRound ==
    LET prop == DecodeUnsigned(r.d, r.length)
        p == Natural(prop.v)
        t3 == TagNumber(prop.d)
        idx == UnsignedOf(ValueOf(t3))
        next == IF t3.tag = 3 THEN TagNumber(idx.d) ELSE t3
        index == IF t3.tag = 3 THEN idx.v ELSE ArrayAll
        first == TagNumber(next.d)
        failed(x) == IF x.err THEN Refuse
                     ELSE WithProperty(TagNumber(x.d).d, p, index, ErrorValue)
    IN  IF \/ ~IsContextSpecific(r.meta)
           \/ t3.tag = 3 /\ ~IsContextSpecific(t3.meta) THEN Refuse
        ELSE CASE t3.tag = 2 ->
                    Give("property", [r EXCEPT !.d = t3.d, !.meta = t3.meta])
               [] next.tag = 4 /\ IsOpening(next.meta) ->
                    IF first.d.err THEN Refuse
                    ELSE Give("value", [r EXCEPT !.d = first.d, !.tag = first.tag,
                                                 !.meta = first.meta, !.prop = p,
                                                 !.index = index, !.list = <<>>])
               [] next.tag = 5 /\ IsOpening(next.meta) ->
                    failed(DecodeBacError(next.d))
               [] OTHER -> Refuse
ReadPropertyTag == InProperties /\ Round("property", PropertyRound)

\* Faulty: the number of a context tag is taken for that of an application tag.
TagTypeOfNumber(prop, n) == n

\* tagTypeInContext: the application tag a context tag stands for.
TagTypeInContext(prop, n) ==
    CASE prop = 214 /\ n \in {0, 1} -> 2                 \* EXPECTED_SHED_LEVEL
      [] prop = 214 /\ n = 2 -> 4
      [] prop = 2 /\ n \in {0, 1} -> 12                  \* ACTION
      [] prop = 2 /\ n = 2 -> 9
      [] prop = 2 /\ n \in {3, 5, 6} -> 2
      [] prop = 2 /\ n \in {7, 8} -> 1
      [] prop = 53 /\ n = 0 -> 12                        \* LIST_OF_GROUP_MEMBERS
      [] prop = 38 /\ n = 1 -> 12                        \* EXCEPTION_SCHEDULE
      [] prop = 38 /\ n = 3 -> 2
      [] prop = 132 /\ n \in {0, 3} -> 12                \* LOG_DEVICE_OBJECT_PROPERTY
      [] prop = 132 /\ n = 1 -> 9
      [] prop = 132 /\ n = 2 -> 2
      [] prop = 211 /\ n \in {0, 1} -> 12                \* SUBORDINATE_LIST
      [] prop = 102 /\ n = 0 -> 12                       \* RECIPIENT_LIST
      [] prop = 152 /\ n = 2 -> 1                        \* ACTIVE_COV_SUBSCRIPTIONS
      [] prop = 152 /\ n = 3 -> 2
      [] prop = 152 /\ n = 4 -> 4
      [] OTHER -> n

MaxTag == 16
TimeStampDatetime == 2

Grown(list, x) == IF Len(list) < MaxArray THEN Append(list, x) ELSE list

\* Faulty: the tag that begins the next round is not used up.
NextRoundKeeps(d, list) ==
    LET t == TagNumber(d)
    IN  IF IsClosing(t.meta) /\ t.tag = 4 THEN WithProperty(t.d, r.prop, r.index, list)
        ELSE Give("value", [r EXCEPT !.list = list])

\* The end of a round: the next tag closes the value or begins another round.
NextRound(d, list) ==
    LET t == TagNumber(d)
    IN  IF IsClosing(t.meta) /\ t.tag = 4 THEN WithProperty(t.d, r.prop, r.index, list)
        ELSE Give("value", [r EXCEPT !.d = t.d, !.tag = t.tag, !.meta = t.meta, !.list = list])

\* The last byte of a tag read is put back (UnreadByte).
Unread(d) == [d EXCEPT !.buf = <<IF r.meta >= 240 THEN r.tag ELSE r.meta>> \o @]

ValueRound ==
    LET context == IsContextSpecific(r.meta)
        size == TagValue(r.d, r.meta)
        tag == IF context THEN TagTypeInContext(r.prop, r.tag) ELSE r.tag
        x == AppDataOfTag(size.d, tag, size.v)
        skipped == Read(size.d, size.v)
    IN  CASE context /\ IsClosing(r.meta) -> NextRound(Unread(r.d), r.list)
          [] context /\ IsOpening(r.meta) /\ ~IsClosing(r.meta) ->
                IF r.tag = TimeStampDatetime THEN Give("stamp", [r EXCEPT !.stamp = Zeros(8)])
                ELSE NextRound(r.d, r.list)
          [] context /\ ~IsOpening(r.meta) /\ tag = MaxTag ->
                IF size.v > 0 /\ skipped.d.err THEN Refuse
                ELSE NextRound([size.d EXCEPT !.buf = skipped.d.buf], r.list)
          [] OTHER -> IF x.err THEN Refuse ELSE NextRound(x.d, Grown(r.list, x.x))
ReadValue == Round("value", ValueRound)

\* One round of the loop over a date and time, which only its closing tag ends.
StampRound ==
    LET t == TagNumberAndValue(r.d)
        date == DecodeDate(t.d, t.v)
        time == DecodeTime(t.d, t.v)
        kept(x, v) == IF x.err \/ t.v < 4 THEN r.stamp ELSE v
        stamp(d, v) == Give("stamp", [r EXCEPT !.d = d, !.tag = t.tag, !.meta = t.meta,
                                               !.stamp = v])
    IN  CASE IsClosing(t.meta) /\ t.tag = TimeStampDatetime ->
                NextRound(t.d, Grown(r.list, [t |-> "datetime", v |-> r.stamp]))
          [] t.tag = 10 -> stamp(date.d, kept(date.d, date.v \o SubSeq(r.stamp, 5, 8)))
          [] t.tag = 11 -> stamp(time.d, kept(time.d, SubSeq(r.stamp, 1, 4) \o time.v))
          [] OTHER -> stamp(IF t.v > 0 THEN Read(t.d, t.v).d ELSE t.d, r.stamp)
ReadTimeStamp == Round("stamp", StampRound)

-----------------------------------------------------------------------------
(* matchReadMultipleReply: the objects asked for, in order, and nothing     *)
(* else of them; the device instance 4194303 stands for any device.        *)

PropAll == 8
PropRequired == 105
PropOptional == 80
DeviceType == 8

MatchObjectId(asked, object) ==
    \/ asked.type = object.type /\ asked.instance = object.instance
    \/ /\ asked.type = DeviceType /\ asked.instance = MaxInstance
       /\ object.type = DeviceType /\ object.instance < MaxInstance

MatchReply(asked, objects) ==
    /\ Len(objects) = Len(asked)
    /\ \A i \in 1 .. Len(asked) :
         /\ MatchObjectId(asked[i], objects[i])
         /\ objects[i].props = <<>> => PropOptional \in asked[i].props
         /\ asked[i].props \cap {PropAll, PropRequired, PropOptional} = {} =>
               \A j \in 1 .. Len(objects[i].props) : objects[i].props[j].prop \in asked[i].props

MatchReadMultiple ==
    /\ phase = "decoded" /\ kind \in ReplyKinds
    /\ phase' = "matched"
    /\ \E asked \in Asked : match' = [asked |-> asked, ok |-> MatchReply(asked, out.objects)]
    /\ UNCHANGED <<kind, item, wire, cut, out, place, r>>

Done ==
    /\ phase \in {"failed", "matched"} \/ (phase = "decoded" /\ kind \notin ReplyKinds)
    /\ phase' = "idle" /\ kind' = None /\ item' = None /\ wire' = <<>> /\ cut' = 0
    /\ out' = None /\ match' = None
    /\ UNCHANGED <<place, r>>

ReadReply == ReadObject \/ EndObject \/ ReadPropertyTag \/ ReadValue \/ ReadTimeStamp

Next == \/ EncodeValue \/ EncodeDate \/ EncodeNPDU \/ EncodeAPDU \/ EncodeRead
        \/ EncodeReadAck \/ EncodeIAm \/ EncodeWhoIs \/ EncodeBVLC \/ EncodeRequest
        \/ EncodeReply \/ DeviceReply
        \/ CutShort
        \/ DecodeValue \/ DecodeDateOnly \/ DecodeHeader \/ DecodeHead \/ DecodeRead
        \/ DecodeReadAck \/ DecodeAnnouncement \/ DecodeSearch \/ DecodeFrame
        \/ DeviceRequest
        \/ OpenReply \/ ReadReply \/ MatchReadMultiple
        \/ Done

Spec == Init /\ [][Next]_vars
\* The decoder runs in the goroutine of its caller until it returns.
FairSpec == Spec /\ WF_vars(ReadReply)

-----------------------------------------------------------------------------
(* Properties.                                                             *)

Decoded(k) == phase \in {"decoded", "failed", "matched"} /\ kind = k

\* A signed value is written in the length its unsigned form needs; of one or
\* two bytes the top bit is read as the sign (128 is read as -128).
SignedValue(w) ==
    IF ValueLength(w) \in {1, 2} /\ Unsigned(w)[1] >= 128
    THEN [i \in 1 .. 4 |-> IF i <= 4 - ValueLength(w) THEN 255 ELSE w[i]]
    ELSE w

\* An enumerated value is read as an unsigned one.
Received(x) == [t |-> IF x.t = "enum" THEN "uint" ELSE x.t,
                v |-> IF x.t = "int" THEN SignedValue(x.v) ELSE x.v]

\* The header a reader sees: without an address that has no network, without
\* hops that lead nowhere; the source of a router's answer is a network of it.
OnWire(x) ==
    LET seen(a) == IF a.net = 0 THEN NoAddress ELSE a
    IN  [version |-> x.version, network |-> x.network, expecting |-> x.expecting,
         priority |-> x.priority, destination |-> seen(x.destination), source |-> seen(x.source),
         hops |-> IF x.destination.net = 0 THEN 0 ELSE x.hops, type |-> x.type,
         vendor |-> x.vendor]

\* The networks read of an I-Am-Router-To-Network message.
NetworksRead(nets) ==
    LET first == Addr(nets[1], 0, <<>>)
        second == Addr(nets[2], 0, <<>>)
    IN  IF nets[1] = nets[2] THEN <<first>> ELSE <<first, second>>

\* What is read (read) of what was encoded (sent), one operator for a kind.
ValueAsSent(sent, read) ==
    ~read.err /\ read.x = Received(sent) /\ read.d.buf = <<>>

DateAsSent(sent, read) ==
    read.v = <<IF sent[1] = UnspecifiedTime THEN 2245 ELSE sent[1], sent[2], sent[3], sent[4]>>

FrameAsSent(sent, read) ==
    ~read.err /\ read.type = 129 /\ read.function = sent.function /\ read.length = sent.length

HeaderAsSent(sent, read) ==
    LET x == sent.npdu
        nets == sent.nets
        routes == x.network /\ x.type = IamRouterToNetwork
        number == x.network /\ x.type = NetworkIs
    IN  CASE routes /\ Len(nets) < 2 -> read.err
          [] routes /\ Len(nets) >= 2 -> ~read.err /\ read.nets = NetworksRead(nets)
          [] number /\ nets = <<>> -> read.err
          [] number /\ nets # <<>> -> ~read.err /\ read.npdu.source.net = nets[1]
          [] OTHER -> ~read.err /\ (x.type # 128 => read.npdu = OnWire(x))

ApduAsSent(sent, read) ==
    /\ ~read.err /\ read.id = sent.id /\ read.service = sent.service
    /\ read.segmented = sent.segmented
    /\ DecodeMaxApdu(read.sizes) >= sent.maxApdu
    /\ LET segs == DecodeMaxSegs(read.sizes)
       IN  sent.maxSegs > 0 => /\ segs <= sent.maxSegs
                               /\ 2 * segs > sent.maxSegs \/ segs = 65

ReadAsSent(sent, read) ==
    IF ~ValidProperty(sent) THEN read.err
    ELSE /\ ~read.err /\ read.type = sent.type /\ read.instance = sent.instance
         /\ Natural(read.prop) = sent.prop /\ read.index = sent.index

WhoIsAsSent(sent, read) ==
    IF \A i \in 1 .. 2 : sent[i] \in 0 .. MaxInstance - 1
    THEN ~read.err /\ read.low = sent[1] /\ read.high = sent[2]
    ELSE ~read.err /\ read.low = WhoIsAll /\ read.high = WhoIsAll

IAmAsSent(sent, read) ==
    /\ ~read.err /\ read.type = sent.type /\ read.instance = sent.instance
    /\ read.maxApdu = sent.maxApdu /\ read.segmentation = sent.segmentation
    /\ read.vendor = sent.vendor

\* The objects of a reply as they are decoded.
ReceivedObjects(objects) ==
    [i \in 1 .. Len(objects) |-> [objects[i] EXCEPT !.props =
        [j \in 1 .. Len(@) |-> [prop |-> @[j].prop, index |-> @[j].index,
                                data |-> IF "values" \in DOMAIN @[j] THEN @[j].values
                                         ELSE <<Received(@[j].data)>>]]]]

\* Values and dates: but for a signed value whose top bit becomes its sign, and
\* for an unspecified year, which is read as the year 2245 (encoding/appdata.go,
\* general.go, string.go, date.go).
ValuesReadBack ==
    cut = 0 =>
      /\ Decoded("value") => ValueAsSent(item, out)
      /\ Decoded("date") => DateAsSent(item, out)

\* The headers of the three layers: but for the vendor of message type 128 and
\* for the one network of a router that has no other, which is refused; of the
\* sizes in a request, the reader may send at least the packet that was said and
\* no more segments, though no less than half as many (encoding/bvlc.go, npdu.go,
\* apdu.go).
HeadersReadBack ==
    cut = 0 =>
      /\ Decoded("bvlc") => FrameAsSent(item, out)
      /\ Decoded("npdu") => HeaderAsSent(item, out)
      /\ Decoded("apdu") => ApduAsSent(item, out)

\* The requests and announcements a peer answers: the property of a
\* ReadProperty, and nothing of one that is not valid; the range of a Who-Is,
\* and every device of one that is no range of instances; and the device of an
\* I-Am (encoding/readprop.go, whois.go, iam.go).
MessagesReadBack ==
    cut = 0 =>
      /\ Decoded("read") => ReadAsSent(item, out)
      /\ Decoded("whois") => WhoIsAsSent(item, out)
      /\ Decoded("iam") => IAmAsSent(item, out)

\* What was encoded is what is decoded, unless it was cut short, for each kind
\* of item that a peer or the client reads whole (encoding/).
PacketsReadBack == ValuesReadBack /\ HeadersReadBack /\ MessagesReadBack

\* A reply of several objects that is decoded to the end gives the objects,
\* properties, indices and values it holds.
ReplyReadBack(k) ==
    cut = 0 /\ Decoded(k) => ~out.err /\ out.objects = ReceivedObjects(item)

\* So are the values read and written: the answer to a ReadProperty; a request
\* of the client is well nested and ends where its tags say, but for a double,
\* which is tagged as long as a float; and the library's own answer to
\* ReadPropertyMultiple (encoding/readprop.go, writeprop.go,
\* readmultipleack.go).
RepliesReadBack ==
    /\ cut = 0 =>
         /\ Decoded("readAck") => ReadAsSent(item, out) /\ out.list = <<Received(item.data)>>
         /\ Decoded("request") /\ (\A i \in 1 .. Len(item) : item[i].t # "double") => ~out.err
    /\ ReplyReadBack("reply")

\* A packet cut short is refused, or what is read of it is a part of what was
\* sent, never another value: a header, an identifier or a value that misses
\* bytes is an error (decoder.go, the sticky error; a string without its length
\* and a value without any byte are read as empty), and a list of values loses
\* values at its end only.
CutPacketsTruthful ==
    cut > 0 =>
      /\ Decoded("value") => out.err \/ (out.d.err /\ out.x.v = <<>>)
      /\ Decoded("npdu") =>
            \/ out.err \/ item.npdu.type = 128
            \/ Len(item.nets) > 2 /\ out.nets = NetworksRead(item.nets)
      /\ Decoded("apdu") \/ Decoded("iam") => out.err
      /\ Decoded("bvlc") => out.err \/ Len(wire) >= 4
      /\ Decoded("readAck") => out.err \/
            (/\ out.type = item.type /\ out.instance = item.instance
             /\ IsPrefix(out.list, <<Received(item.data)>>))

\* A reply that was cut short is not taken for the answer it was with an object
\* or a value missing or changed in it: what is cut inside an object is an error
\* of the decoder, and what is cut between two objects lacks one that was asked
\* for.  Only a cut right behind the tag of a property goes unnoticed, and the
\* last object is then without this and the later ones (readmulti.go,
\* readmultipleack.go: the loop over properties ends with the bytes).
CutReplyTruthful(k) ==
    /\ phase = "matched" /\ kind = k /\ match.ok
    /\ MatchReply(match.asked, ReceivedObjects(item))
    => Len(out.objects) = Len(item) /\ \A i \in 1 .. Len(item) :
          LET sent == ReceivedObjects(item)[i]
          IN  /\ out.objects[i].type = sent.type /\ out.objects[i].instance = sent.instance
              /\ IsPrefix(out.objects[i].props, sent.props)
              /\ out.objects[i].props = sent.props \/ (cut > 0 /\ i = Len(item))
CutRepliesTruthful == CutReplyTruthful("reply")

\* What was cut short on its way is never taken for another message, by the
\* decoders or by the match of a reply with its request (encoding/, readmulti.go).
CutNeverMisread == CutPacketsTruthful /\ CutRepliesTruthful

\* Both hold of what devices answer, whose replies also have empty lists, errors
\* of single properties, time stamps and context tags (readmultipleack.go).
DevicesReadBack == ReplyReadBack("device") /\ CutReplyTruthful("device")

\* The two ways to be in the decoder for ever: a list of values or a time stamp
\* that has no end, where reading past the end gives nulls and no error, and a
\* closing tag inside a list of values, which is put back and read again.
Endless == \/ place \in {"value", "stamp"} /\ r.d.err /\ cut > 0
           \/ place = "value" /\ IsContextSpecific(r.meta) /\ IsClosing(r.meta) /\ r.tag # 4

\* What a round of the decoder leaves: the bytes, whether an error is set, and
\* how deep in the loops it is.
Rank == 8 * Len(r.d.buf) + (IF r.d.err THEN 0 ELSE 4) +
        CASE place = "object" -> 0
          [] place = "property" -> 1
          [] place = "stamp" -> 2
          [] place = "value" -> 3

\* The decoder of replies gets on: no round of its loops leaves it where it was
\* or farther back, so that it ends, unless in one of these two ways
\* (readmultipleack.go).
DecoderGetsOn ==
    [][phase = "reading" /\ phase' = "reading" => Rank' < Rank \/ Endless \/ Endless']_vars

\* Every reply that arrives whole is decoded in the end.  The code does not do
\* that: context_tag.go has the tags of PROP_ACTIVE_COV_SUBSCRIPTIONS, whose
\* values are lists between tags of their own.
WholeRepliesDecoded == (phase = "reading" /\ cut = 0) ~> (phase # "reading")
=============================================================================
