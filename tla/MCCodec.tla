------------------------------ MODULE MCCodec ------------------------------
(* Values at the edges of every length, and one packet of every kind.      *)
EXTENDS Codec

Words == {<<0, 0, 0, 0>>, <<0, 0, 0, 127>>, <<0, 0, 0, 128>>, <<0, 0, 0, 255>>,
          <<0, 0, 1, 0>>, <<0, 0, 127, 255>>, <<0, 0, 128, 0>>, <<0, 0, 255, 255>>,
          <<0, 1, 0, 0>>, <<0, 128, 0, 1>>, <<0, 255, 255, 255>>, <<1, 0, 0, 0>>,
          <<128, 0, 0, 0>>, <<255, 255, 255, 255>>}

Text(n) == [i \in 1 .. n |-> 65 + (i % 26)]

MCValues ==
    {[t |-> t, v |-> w] : t \in {"uint", "int", "enum", "real"}, w \in Words} \cup
    {[t |-> "bool", v |-> <<b>>] : b \in 0 .. 1} \cup
    {[t |-> "double", v |-> <<64, 9, 33, 251, 84, 68, 45, 24>>], Null} \cup
    {[t |-> "objectid", v |-> <<type, i>>] : type \in {0, 8, 1023}, i \in {0, 65536, MaxInstance}} \cup
    {[t |-> "string", v |-> Text(n)] : n \in {0, 3, 4, 252, 253}}

MCDates == {<<1990, 1, 1, 1>>, <<2024, 13, 32, 255>>, <<2245, 255, 255, 255>>, <<255, 255, 255, 255>>}

MCAddresses == {NoAddress, Addr(0, 0, <<>>), Addr(65535, 0, <<>>), Addr(4, 1, <<7>>),
              Addr(256, 6, <<192, 168, 1, 9, 186, 192>>)}
MCHeaders ==
    {[version |-> 1, network |-> n, expecting |-> e, priority |-> p, destination |-> d,
      source |-> s, hops |-> 255, type |-> 0, vendor |-> 0] :
        n \in BOOLEAN, e \in BOOLEAN, p \in {0, 3}, d \in MCAddresses, s \in MCAddresses} \cup
    {[version |-> 1, network |-> TRUE, expecting |-> FALSE, priority |-> 0,
      destination |-> NoAddress, source |-> NoAddress, hops |-> 0, type |-> t,
      vendor |-> IF t >= 128 THEN 300 ELSE 0] :
        t \in {WhatIsNetworkNumber, IamRouterToNetwork, NetworkIs, 128, 129, 255}}
MCNetworkLists == {<<>>, <<5>>, <<5, 6>>, <<6, 6>>, <<5, 6, 300>>}

MCApdus ==
    {[type |-> ConfirmedServiceRequest, segmented |-> s, moreFollows |-> FALSE,
      segmentedAccepted |-> TRUE, maxSegs |-> m, maxApdu |-> a, id |-> 200,
      sequence |-> 3, window |-> 4, service |-> ServiceWriteProperty] :
        s \in BOOLEAN, m \in {0, 1, 2, 3, 32, 63, 64, 65}, a \in {0, 50, 51, 480, 1025, 1476}}

MCReads ==
    {[type |-> t, instance |-> i, prop |-> p, index |-> x, data |-> v] :
        t \in {0, 1023, 1024}, i \in {0, MaxInstance}, p \in {85, 512, MaxPropertyID + 1},
        x \in {ArrayAll, <<0, 0, 0, 0>>, <<0, 0, 1, 44>>},
        v \in {Null, [t |-> "bool", v |-> <<1>>], [t |-> "uint", v |-> <<0, 0, 62, 63>>],
               [t |-> "string", v |-> Text(5)]}}

MCAnnouncements ==
    {[type |-> DeviceType, instance |-> i, maxApdu |-> <<0, 0, 5, 196>>,
      segmentation |-> <<0, 0, 0, 3>>, vendor |-> v] :
        i \in {1, MaxInstance}, v \in {<<0, 0, 0, 9>>, <<0, 0, 2, 0>>}}

MCSearches == {<<a, b>> : a, b \in {0, 1, 255, 65536, MaxInstance - 1, MaxInstance, MaxInstance + 1}}

Prop(p, x, v) == [prop |-> p, index |-> x, data |-> v]
Obj(t, i, ps) == [type |-> t, instance |-> i, props |-> ps]
U(n) == [t |-> "uint", v |-> ToWord(n)]

MCReplies ==
    {<<Obj(0, 1, <<Prop(85, ArrayAll, [t |-> "real", v |-> <<66, 40, 0, 0>>])>>)>>,
     <<Obj(8, 9, <<Prop(76, <<0, 0, 0, 2>>, [t |-> "objectid", v |-> <<2, 7>>]),
                   Prop(77, ArrayAll, [t |-> "string", v |-> Text(6)])>>),
       Obj(2, 7, <<Prop(85, ArrayAll, Null)>>)>>,
     <<Obj(3, 1, <<Prop(85, ArrayAll, [t |-> "enum", v |-> ToWord(1)]),
                   Prop(87, <<0, 0, 0, 16>>, U(300))>>)>>}

MCFrames == {[function |-> f, length |-> n, data |-> Text(n % 7)] :
               f \in {Unicast, Broadcast, ForwardedNPDU}, n \in {4, 255, 256, 1476}}

MCWrites == {[type |-> t, instance |-> 3, prop |-> PresentValue, index |-> x, data |-> v, priority |-> p] :
               t \in {1, 4}, x \in {ArrayAll, <<0, 0, 1, 44>>}, p \in {0, 16},
               v \in {Null, [t |-> "bool", v |-> <<1>>], [t |-> "real", v |-> <<66, 40, 0, 0>>],
                      [t |-> "uint", v |-> <<0, 0, 62, 63>>], [t |-> "string", v |-> Text(9)],
                      [t |-> "double", v |-> <<64, 9, 33, 251, 84, 68, 45, 24>>]}}

Some(v, p) == [prop |-> 85, index |-> ArrayAll, data |-> v, priority |-> p]
MCLists == {<<Obj(1, 2, <<Some(v, 0), Some(w, 8)>>), Obj(3, 4, <<Some(v, 1)>>)>> :
              v \in {Null, U(300), [t |-> "string", v |-> Text(9)]},
              w \in {U(0), [t |-> "double", v |-> <<64, 9, 33, 251, 84, 68, 45, 24>>]}}

\* Replies of devices: a list with a time stamp and context tags, errors of
\* single properties, an empty list, an object without properties, and a list
\* of several values with bits, a date, a time, octets and a UCS-2 string.
Value(bytes) == OpeningTag(4) \o bytes \o ClosingTag(4)
Reply(type, bytes) ==
    ContextObjectId(0, type, 5) \o OpeningTag(1) \o bytes \o ClosingTag(1)
Stamp == [t |-> "datetime", v |-> <<2024, 2, 29, 4, 12, 30, 0, 500>>]
MCDeviceReplies ==
    {[bytes |-> Reply(2, ContextUnsigned(2, ToWord(130)) \o
        Value(OpeningTag(2) \o Tag(10, FALSE, 4) \o <<34, 2, 29, 4>> \o
              Tag(11, FALSE, 4) \o <<12, 30, 0, 50>> \o ClosingTag(2) \o
              Tag(4, FALSE, 4) \o <<65, 0, 0, 0>>)),
      objects |-> <<Obj(2, 5, <<[prop |-> 130, index |-> ArrayAll,
                                 values |-> <<Stamp, [t |-> "real", v |-> <<65, 0, 0, 0>>]>>]>>)>>],
     [bytes |-> Reply(2, ContextUnsigned(2, ToWord(28)) \o OpeningTag(5) \o
        Tag(9, FALSE, 1) \o <<2>> \o Tag(9, FALSE, 1) \o <<32>> \o ClosingTag(5) \o
        ContextUnsigned(2, ToWord(77)) \o Value(<<>>)),
      objects |-> <<Obj(2, 5, <<[prop |-> 28, index |-> ArrayAll, values |-> ErrorValue],
                                [prop |-> 77, index |-> ArrayAll, values |-> <<>>]>>)>>],
     [bytes |-> Reply(8, <<>>), objects |-> <<Obj(8, 5, <<>>)>>],
     [bytes |-> Reply(8, ContextUnsigned(2, ToWord(102)) \o
        Value(Tag(8, FALSE, 2) \o <<5, 160>> \o Tag(10, FALSE, 4) \o <<124, 1, 2, 3>> \o
              Tag(11, FALSE, 4) \o <<1, 2, 3, 4>> \o ContextObjectId(0, 8, 3) \o
              Tag(6, FALSE, 2) \o <<1, 2>> \o Tag(7, FALSE, 5) \o <<4, 0, 65, 0, 233>> \o
              <<249, 16, 0>>) \o
        ContextUnsigned(2, ToWord(152)) \o
        Value(ContextUnsigned(3, ToWord(60)) \o Tag(4, TRUE, 4) \o <<65, 0, 0, 0>>)),
      objects |-> <<Obj(8, 5, <<[prop |-> 102, index |-> ArrayAll, values |->
         <<[t |-> "bits", v |-> <<3, 5>>], [t |-> "date", v |-> <<2114, 1, 2, 3>>],
           [t |-> "time", v |-> <<1, 2, 3, 40>>], [t |-> "objectid", v |-> <<8, 3>>],
           [t |-> "octets", v |-> <<1, 2>>], [t |-> "string", v |-> <<65, 195, 169>>]>>],
         [prop |-> 152, index |-> ArrayAll, values |->
         <<U(60), [t |-> "real", v |-> <<65, 0, 0, 0>>]>>]>>)>>]}

\* A reply with a COV subscription: its recipient is a list of its own.
MCNested ==
    {[bytes |-> Reply(8, ContextUnsigned(2, ToWord(152)) \o
        Value(OpeningTag(0) \o ContextObjectId(0, 8, 3) \o ClosingTag(0) \o
              ContextUnsigned(3, ToWord(60)))),
      objects |-> <<Obj(8, 5, <<>>)>>]}

Ask(t, i, ps) == [type |-> t, instance |-> i, props |-> ps]
MCAsked ==
    {<<Ask(0, 1, {85})>>, <<Ask(8, MaxInstance, {76, 77}), Ask(2, 7, {85, 28})>>,
     <<Ask(3, 1, {PropAll})>>, <<Ask(2, 5, {28, 77, 130})>>, <<Ask(8, 5, {PropOptional})>>,
     <<Ask(8, 5, {PropRequired})>>, <<Ask(8, 9, {76})>>}
=============================================================================
