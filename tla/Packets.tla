------------------------------ MODULE Packets ------------------------------
(***************************************************************************)
(* The packets of the encoding package, built from Tags: BVLC, NPDU and    *)
(* APDU headers (bvlc.go, npdu.go, apdu.go), and the requests and replies  *)
(* ReadProperty, WriteProperty, ReadPropertyMultiple,                      *)
(* WritePropertyMultiple, Who-Is and I-Am.                                 *)
(*                                                                         *)
(* A packet structure of the program is a record; a nil pointer to an      *)
(* address is NoAddress.  An encoder returns bytes, a decoder a record     *)
(* with the decoder left (d), the fields read and the error returned.      *)
(***************************************************************************)
EXTENDS Tags, SequencesExt

NoAddress == [net |-> 0, len |-> 0, adr |-> <<>>, absent |-> TRUE]
Addr(net, len, adr) == [net |-> net, len |-> len, adr |-> adr, absent |-> FALSE]

Flag(b, mask) == IF b THEN mask ELSE 0
Bit(byte, mask) == (byte \div mask) % 2 = 1

-----------------------------------------------------------------------------
(* BVLC and NPDU.                                                          *)

Unicast == 10
Broadcast == 11
ForwardedNPDU == 4

BVLC(b) == <<129, b.function>> \o Uint16(b.length) \o b.data

\* The data is an empty slice when it is decoded: nothing of it is read.
DecodeBVLC(d) ==
    LET x == Decode(d, 1)
        f == Decode(x.d, 1)
        n == Decode(f.d, 2)
    IN  [d |-> n.d, type |-> x.v[1], function |-> f.v[1],
         length |-> Natural(n.v), err |-> n.d.err]

WhoIsRouterToNetwork == 0
IamRouterToNetwork == 1
WhatIsNetworkNumber == 18
NetworkIs == 19

AddressBytes(a) == Uint16(a.net) \o <<a.len>> \o a.adr

NPDU(n) ==
    LET dest == n.destination.net # 0
        source == n.source.net # 0
    IN  <<n.version, Flag(n.network, 128) + Flag(dest, 32) + Flag(source, 8) +
                     Flag(n.expecting, 4) + n.priority>> \o
        (IF dest THEN AddressBytes(n.destination) ELSE <<>>) \o
        (IF source THEN AddressBytes(n.source) ELSE <<>>) \o
        (IF dest THEN <<n.hops>> ELSE <<>>) \o
        (IF n.network THEN <<n.type>> ELSE <<>>) \o
        (IF n.network /\ n.type >= 128 THEN Uint16(n.vendor) ELSE <<>>)

DecodeAddress(d, present) ==
    LET net == Decode(d, 2)
        len == Decode(net.d, 1)
        adr == Decode(len.d, len.v[1])
    IN  IF present THEN [d |-> adr.d, a |-> Addr(Natural(net.v), len.v[1], adr.v)]
        ELSE [d |-> d, a |-> NoAddress]

\* An optional field of n bytes.
DecodeIf(d, present, n) ==
    IF present THEN Decode(d, n) ELSE [d |-> d, v |-> Zeros(n)]

\* The networks of I-Am-Router-To-Network: the first, and the second unless it
\* is the same.  The loop runs once whatever is left of the message.
DecodeNetworks(d) ==
    LET first == Decode(d, 2)
        second == Decode(first.d, 2)
        net(x) == Addr(Natural(x.v), 0, <<>>)
        last == IF second.d.err THEN first ELSE second
    IN  [d |-> second.d, a |-> net(last),
         nets |-> IF net(last) = net(first) THEN <<net(first)>>
                  ELSE <<net(first), net(last)>>]

ReadHeader(d) ==
    LET version == Decode(d, 1)
        byte == Decode(version.d, 1)
        meta == byte.v[1]
        dest == DecodeAddress(byte.d, Bit(meta, 32))
        source == DecodeAddress(dest.d, Bit(meta, 8))
        hops == DecodeIf(source.d, Bit(meta, 32), 1)
        type == DecodeIf(hops.d, Bit(meta, 128), 1)
        vendor == DecodeIf(type.d, type.v[1] > 128, 2)
    IN  [version |-> version.v[1], meta |-> meta, destination |-> dest.a, source |-> source.a,
         hops |-> hops.v[1], type |-> type.v[1], vendor |-> Natural(vendor.v), d |-> vendor.d]

Header(h, source) ==
    [version |-> h.version, network |-> Bit(h.meta, 128), expecting |-> Bit(h.meta, 4),
     priority |-> h.meta % 4, destination |-> h.destination, source |-> source,
     hops |-> h.hops, type |-> h.type, vendor |-> h.vendor]

\* What follows the header of a message about networks is read with it.
AfterHeader(h) ==
    LET number == Decode(h.d, 2)
        routes == DecodeNetworks(h.d)
        out(x, source, nets) ==
            [d |-> x, npdu |-> Header(h, source), nets |-> nets, err |-> x.err]
    IN  CASE Bit(h.meta, 128) /\ h.type = NetworkIs ->
                out(number.d, Addr(Natural(number.v), 0, <<>>), <<>>)
          [] Bit(h.meta, 128) /\ h.type = IamRouterToNetwork ->
                out(routes.d, routes.a, routes.nets)
          [] OTHER -> out(h.d, h.source, <<>>)

DecodeNPDU(d) == AfterHeader(ReadHeader(d))

-----------------------------------------------------------------------------
(* APDU.                                                                   *)

ConfirmedServiceRequest == 0
UnconfirmedServiceRequest == 16
SimpleAck == 32
ComplexAck == 48
SegmentAck == 64
ErrorPDU == 80
Reject == 96
Abort == 112

ServiceReadProperty == 12
ServiceReadPropMultiple == 14
ServiceWriteProperty == 15
ServiceWritePropMultiple == 16
ServiceIAm == 0
ServiceWhoIs == 8

MaxAPDU == 1476
ApduSizes == <<50, 128, 206, 480, 1024, 1476>>
SegmentCounts == <<1, 2, 4, 8, 16, 32, 64>>

\* maxSegs 1, 2, 4 .. 64 or more than 64 in the high nibble, the APDU length
\* in the low one: the first size that fits, size 0 for one that none does.
MaxSegsMaxApdu(maxSegs, maxApdu) ==
    LET segs == IF maxSegs > 64 THEN 7
                ELSE CHOOSE i \in 0 .. 6 : /\ i = 0 \/ SegmentCounts[i + 1] <= maxSegs
                                           /\ i = 6 \/ maxSegs < SegmentCounts[i + 2]
        fits == {i \in 1 .. 6 : maxApdu <= ApduSizes[i]}
    IN  16 * segs + IF fits = {} THEN 0
                    ELSE (CHOOSE i \in fits : \A j \in fits : i <= j) - 1

DecodeMaxSegs(byte) == IF byte \div 16 >= 7 THEN 65 ELSE SegmentCounts[(byte \div 16) + 1]
DecodeMaxApdu(byte) == IF byte % 16 <= 5 THEN ApduSizes[(byte % 16) + 1] ELSE 0

\* The first bytes of a request or a reply; the server's abort and reject
\* replies are not encoded by the library.
APDU(a) ==
    <<a.type + Flag(a.segmented, 8) + Flag(a.moreFollows, 4) + Flag(a.segmentedAccepted, 2)>> \o
    CASE a.type = ComplexAck -> <<a.id, a.service>>
      [] a.type = UnconfirmedServiceRequest -> <<a.service>>
      [] a.type = ConfirmedServiceRequest ->
            <<MaxSegsMaxApdu(a.maxSegs, a.maxApdu), a.id>> \o
            (IF a.segmented THEN <<a.sequence, a.window>> ELSE <<>>) \o <<a.service>>
      [] OTHER -> <<>>

Request(service, id) ==
    APDU([type |-> ConfirmedServiceRequest, segmented |-> FALSE, moreFollows |-> FALSE,
          segmentedAccepted |-> FALSE, maxSegs |-> 0, maxApdu |-> MaxAPDU,
          id |-> id, service |-> service])
Ack(service, id) ==
    APDU([type |-> ComplexAck, segmented |-> FALSE, moreFollows |-> FALSE,
          segmentedAccepted |-> FALSE, id |-> id, service |-> service])
Unconfirmed(service) == <<UnconfirmedServiceRequest, service>>

\* Error class and code: application values between the tags 0, or, when the
\* first tag does not open, the tag bytes themselves.
DecodeErrorBody(d) ==
    LET open == TagNumber(d)
        t1 == TagNumberAndValue(open.d)
        class == UnsignedOf(t1)
        t2 == TagNumberAndValue(IF IsOpening(open.meta) THEN class.d ELSE t1.d)
        code == UnsignedOf(t2)
        close == TagNumber(code.d)
    IN  IF IsOpening(open.meta)
        THEN [d |-> close.d, class |-> Natural(SubSeq(class.v, 3, 4)), code |-> code.v,
              err |-> ~IsClosing(close.meta)]
        ELSE [d |-> t2.d, class |-> t1.meta, code |-> ToWord(t2.meta), err |-> FALSE]

\* What is left.
Remainder(d) == Decode(d, Len(d.buf))
PduType(byte) == byte - (byte % 16)

\* The bytes at the head of an APDU: the type and flags, then id, service or
\* sizes, then service, reason or id, and the service behind the window.
ReadHead(d) ==
    LET meta == Decode(d, 1)
        first == Decode(meta.d, 1)
        second == Decode(first.d, 1)
        window == DecodeIf(second.d, Bit(meta.v[1], 8), 2)
    IN  [meta |-> meta.v[1], d |-> meta.d, first |-> first, second |-> second,
         service |-> Decode(window.d, 1)]

\* A decoded APDU: id, service, and, by its type, what its rest says.  Only
\* an Error PDU is accepted whatever the decoder's error.
AfterHead(h) ==
    LET type == PduType(h.meta)
        first == h.first.v[1]
        second == h.second.v[1]
        out(x, id, svc, raw, err) ==
          [d |-> x, type |-> type, segmented |-> Bit(h.meta, 8), id |-> id, service |-> svc,
           sizes |-> first, class |-> 0, code |-> Zeros(4),
           fromServer |-> type = Abort /\ Bit(h.meta, 1), raw |-> raw, err |-> err]
        request(x, id, svc) == out(x.d, id, svc, x.v, x.d.err)
        error(x) == [[out(x.d, first, second, <<>>, x.err) EXCEPT !.class = x.class]
                        EXCEPT !.code = x.code]
    IN  CASE type \in {SimpleAck, ComplexAck, Reject, Abort} ->
                out(h.second.d, first, second, <<>>, h.second.d.err)
          [] type = UnconfirmedServiceRequest -> request(Remainder(h.first.d), 0, first)
          [] type = ConfirmedServiceRequest ->
                request(Remainder(h.service.d), second, h.service.v[1])
          [] type = ErrorPDU -> error(DecodeErrorBody(h.second.d))
          [] OTHER -> out(h.d, 0, 0, <<>>, TRUE)

DecodeAPDU(d) == AfterHead(ReadHead(d))

-----------------------------------------------------------------------------
(* Reading and writing properties.  Object identifiers and properties are  *)
(* [type, instance, prop, index, data, priority].                          *)

MaxPropertyID == 4194303
PriorityNone == 0
PresentValue == 85
BinaryTypes == {4, 5}       \* binary output and binary value

ValidProperty(r) == r.type <= MaxObject /\ r.prop <= MaxPropertyID

\* Nothing is written of a request that is not valid.
ReadPropertyHeader(r) ==
    IF ~ValidProperty(r) THEN <<>>
    ELSE ContextObjectId(0, r.type, r.instance) \o ContextUnsigned(1, ToWord(r.prop)) \o
         IF r.index = ArrayAll THEN <<>> ELSE ContextUnsigned(2, r.index)

\* ReadProperty drops the error of its header.
ReadProperty(id, r) == Request(ServiceReadProperty, id) \o ReadPropertyHeader(r)

\* The closing tag is not the one that opened.
ReadPropertyAck(id, r) ==
    Ack(ServiceReadProperty, id) \o ReadPropertyHeader(r) \o OpeningTag(3) \o
    AppData(r.data, FALSE) \o ClosingTag(4)

PointTypeBOBV(r) == r.type \in BinaryTypes /\ r.prop = PresentValue
WritePropertyFault(r) ==
    IF ValidProperty(r) THEN AppDataFault(r.data, PointTypeBOBV(r)) ELSE "error"

WriteProperty(id, r) ==
    Request(ServiceWriteProperty, id) \o ReadPropertyHeader(r) \o OpeningTag(3) \o
    AppData(r.data, PointTypeBOBV(r)) \o ClosingTag(3) \o
    IF r.priority = PriorityNone THEN <<>> ELSE ContextUnsigned(4, ToWord(r.priority))

\* Faulty: the index of a property in an array is left out.
PropertyBytesWhole(p, base) == ContextUnsigned(base, ToWord(p.prop))

\* One object with its properties after another: in requests the property is
\* tag 0, the index 1, a written value and its priority 2; in replies the
\* property is tag 2, the index 3 and the value 4.
PropertyBytes(p, base) ==
    ContextUnsigned(base, ToWord(p.prop)) \o
    IF p.index = ArrayAll THEN <<>> ELSE ContextUnsigned(base + 1, p.index)

WrittenBytes(p) ==
    OpeningTag(2) \o AppData(p.data, FALSE) \o ClosingTag(2) \o
    IF p.priority = PriorityNone THEN <<>> ELSE ContextUnsigned(2, ToWord(p.priority))

Property(p, form) ==
    CASE form = "asked" -> PropertyBytes(p, 0)
      [] form = "written" -> PropertyBytes(p, 0) \o WrittenBytes(p)
      [] form = "answered" ->
            PropertyBytes(p, 2) \o OpeningTag(4) \o AppData(p.data, FALSE) \o ClosingTag(4)

Objects(objects, form) ==
    FlattenSeq([i \in 1 .. Len(objects) |->
        ContextObjectId(0, objects[i].type, objects[i].instance) \o OpeningTag(1) \o
        FlattenSeq([j \in 1 .. Len(objects[i].props) |-> Property(objects[i].props[j], form)]) \o
        ClosingTag(1)])

ReadMultipleProperty(id, objects) ==
    Request(ServiceReadPropMultiple, id) \o Objects(objects, "asked")

WriteMultiProperty(id, objects) ==
    Request(ServiceWritePropMultiple, id) \o Objects(objects, "written")

ReadMultiplePropertyAck(id, objects) ==
    Ack(ServiceReadPropMultiple, id) \o Objects(objects, "answered")

\* The values up to the last byte, which is taken for the closing tag.
ValueList(d) ==
    LET read[n \in 0 .. Len(d.buf)] ==
            IF n = 0 THEN [d |-> d, list |-> <<>>, err |-> FALSE]
            ELSE LET s == read[n - 1]
                     more(x) == [d |-> x.d, list |-> Append(s.list, x.x), err |-> x.err]
                 IN  IF s.err \/ Len(s.d.buf) <= 1 THEN s ELSE more(DecodeAppData(s.d))
    IN  read[Len(d.buf)]

\* What follows the property, from the tag read next: an index, and the values
\* between tags.
IndexAndValues(next) ==
    LET index == UnsignedOf(ValueOf(next))
        open == CASE next.tag # 2 -> [tag |-> next.tag, d |-> ValueOf(next).d]
                  [] next.tag = 2 /\ index.d.buf # <<>> -> TagNumber(index.d)
                  [] OTHER -> [tag |-> 0, d |-> index.d]
        at == IF next.tag = 2 THEN index.v ELSE ArrayAll
        values(x) == [d |-> x.d, index |-> at, list |-> x.list, err |-> x.err \/ x.d.err]
    IN  IF open.tag = 3 THEN values(ValueList(open.d))
        ELSE [d |-> open.d, index |-> at, list |-> <<>>, err |-> open.d.err]

\* ReadProperty's decoder, of requests and of replies.
DecodeReadProperty(d) ==
    LET object == TagNumber(d)
        id == DecodeObjectId(object.d)
        t1 == TagNumber(id.d)
        prop == UnsignedOf(ValueOf(t1))
        next == IF prop.d.buf = <<>> THEN [t1 EXCEPT !.d = prop.d] ELSE TagNumber(prop.d)
        out(x) == [d |-> x.d, type |-> id.type, instance |-> id.instance, prop |-> prop.v,
                   index |-> x.index, list |-> x.list, err |-> x.err]
        none(x, err) == [d |-> x, index |-> ArrayAll, list |-> <<>>, err |-> err]
    IN  IF \/ Len(d.buf) < 7
           \/ object.tag # 0
           \/ ~IsContextSpecific(object.meta)
           \/ t1.tag # 1 THEN out(none(d, TRUE))
        ELSE IF next.d.buf = <<>> /\ next.tag < 2 THEN out(none(next.d, next.d.err))
        ELSE out(IndexAndValues(next))

-----------------------------------------------------------------------------
(* Who-Is and I-Am.  A range is two numbers; MaxInstance is the largest    *)
(* instance.                                                               *)

WhoIsAll == -1

\* Only a range whose ends are both below the largest instance is sent.
WhoIs(low, high) ==
    Unconfirmed(ServiceWhoIs) \o
    IF low \in 0 .. MaxInstance - 1 /\ high \in 0 .. MaxInstance - 1
    THEN ContextUnsigned(0, ToWord(low)) \o ContextUnsigned(1, ToWord(high))
    ELSE <<>>

DecodeWhoIs(d) ==
    LET t0 == TagNumberAndValue(d)
        low == UnsignedOf(t0)
        t1 == TagNumberAndValue(low.d)
        high == UnsignedOf(t1)
    IN  CASE d.buf = <<>> -> [low |-> WhoIsAll, high |-> WhoIsAll, err |-> FALSE]
          [] d.buf # <<>> /\ (t0.tag # 0 \/ t1.tag # 1) -> [low |-> 0, high |-> 0, err |-> TRUE]
          [] OTHER -> [low |-> Natural(low.v), high |-> Natural(high.v), err |-> high.d.err]

IAm(i) ==
    Unconfirmed(ServiceIAm) \o
    AppData([t |-> "objectid", v |-> <<i.type, i.instance>>], FALSE) \o
    AppData([t |-> "uint", v |-> i.maxApdu], FALSE) \o
    AppData([t |-> "enum", v |-> i.segmentation], FALSE) \o
    AppData([t |-> "uint", v |-> i.vendor], FALSE)

\* A value of another type than expected leaves the field zero; a bad
\* identifier is an error at once, the rest only as the decoder's error.
DecodeIAm(d) ==
    LET uint(id, x) == IF ~id.err /\ x.t = "uint" THEN x.v ELSE Zeros(4)
        object(id) == IF id.x.t = "objectid" THEN id.x.v ELSE <<0, 0>>
        all(id, maxApdu, segmentation, vendor) ==
            [type |-> object(id)[1], instance |-> object(id)[2],
             maxApdu |-> uint(id, maxApdu.x), segmentation |-> uint(id, segmentation.x),
             vendor |-> uint(id, vendor.x), err |-> id.err \/ vendor.d.err]
        \* Each value is where the last one ended.
        three(id, maxApdu, segmentation) ==
            all(id, maxApdu, segmentation, DecodeAppData(segmentation.d))
        two(id, maxApdu) == three(id, maxApdu, DecodeAppData(maxApdu.d))
        one(id) == two(id, DecodeAppData(id.d))
    IN  one(DecodeAppData(d))
=============================================================================
