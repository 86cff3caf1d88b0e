------------------------------- MODULE Tags -------------------------------
(***************************************************************************)
(* The primitive encodings of the encoding package (encoder.go,            *)
(* decoder.go, general.go, appdata.go, string.go, date.go), byte by byte:  *)
(* tags with their extended forms, unsigned and signed values, object      *)
(* identifiers, bit strings, dates and application data.                   *)
(*                                                                         *)
(* A byte is a number 0 .. 255 and a uint32 a Word of four of them, most   *)
(* significant first, as TLC's integers have 32 bits.  A float is its bit  *)
(* pattern.  A Go value handed to or returned by AppData is a record of    *)
(* its type t and of v, a sequence of numbers.                             *)
(*                                                                         *)
(* A decoder is a record of the bytes left (buf) and the sticky error      *)
(* (err); a decoding operator returns the decoder it leaves as field d.    *)
(***************************************************************************)
EXTENDS Integers, Sequences

Byte == 0 .. 255
Word == [1 .. 4 -> Byte]

MaxInstance == 4194303      \* 0x3FFFFF
MaxObject == 1023           \* 0x3FF
ArrayAll == <<255, 255, 255, 255>>
EpochYear == 1990
UnspecifiedTime == 255
MaxBitStringBytes == 15

\* The named bound on the length a tag announces: no datagram is as long, so
\* every longer one is cut short in the same way.
LongLength == 16777216

Zeros(n) == [i \in 1 .. n |-> 0]

\* A uint16 and a uint32 as they are written.
Uint16(n) == <<(n \div 256) % 256, n % 256>>
ToWord(n) == <<(n \div 16777216) % 256, (n \div 65536) % 256, (n \div 256) % 256, n % 256>>

\* A shorter byte sequence widened to a uint32, and the number it is.
Widen(bytes) == [i \in 1 .. 4 |->
    IF i > 4 - Len(bytes) THEN bytes[i - (4 - Len(bytes))] ELSE 0]
Natural(bytes) ==
    LET w == Widen(bytes) IN 16777216 * w[1] + 65536 * w[2] + 256 * w[3] + w[4]
LengthOf(w) == IF w[1] # 0 THEN LongLength ELSE Natural(w)

-----------------------------------------------------------------------------
(* Encoding.                                                               *)

ValueLength(w) == CASE w[1] # 0 -> 4
                    [] w[1] = 0 /\ w[2] # 0 -> 3
                    [] w[1] = 0 /\ w[2] = 0 /\ w[3] # 0 -> 2
                    [] OTHER -> 1

\* The shortest form, of 1 to 4 bytes.
Unsigned(w) == [i \in 1 .. ValueLength(w) |-> w[i + 4 - ValueLength(w)]]

TagByte(low, num) == IF num <= 14 THEN <<16 * num + low>> ELSE <<240 + low, num>>
OpeningTag(num) == TagByte(8 + 6, num)
ClosingTag(num) == TagByte(8 + 7, num)

\* Faulty: 254, the mark of a longer length, is taken for a length.
ExtendedShort(n) == CASE n <= 4 -> <<>>
                      [] n > 4 /\ n <= 254 -> <<n>>
                      [] n > 254 -> <<254>> \o Uint16(n)

\* A length that the first byte of a tag has no room for.
Extended(n) == CASE n <= 4     -> <<>>
                 [] n > 4 /\ n <= 253 -> <<n>>
                 [] n > 253 /\ n <= 65535 -> <<254>> \o Uint16(n)
                 [] n > 65535 -> <<255>> \o ToWord(n)

TagLow(context, n) == (IF context THEN 8 ELSE 0) + (IF n <= 4 THEN n ELSE 5)
Tag(id, context, n) == TagByte(TagLow(context, n), id) \o Extended(n)

ObjectId(type, instance) ==
    LET t == type % (MaxObject + 1)
        i == instance % (MaxInstance + 1)
    IN  <<t \div 4, 64 * (t % 4) + i \div 65536, (i \div 256) % 256, i % 256>>

ContextObjectId(num, type, instance) ==
    Tag(num, TRUE, 4) \o ObjectId(type, instance)
ContextUnsigned(num, w) == Tag(num, TRUE, ValueLength(w)) \o Unsigned(w)

Date(dt) == <<(IF dt[1] # UnspecifiedTime THEN dt[1] - EpochYear ELSE dt[1]) % 256,
              dt[2] % 256, dt[3] % 256, dt[4] % 256>>
Time(tm) == <<tm[1] % 256, tm[2] % 256, tm[3] % 256, (tm[4] \div 10) % 256>>

Null == [t |-> "null", v |-> <<>>]

\* What AppData does besides writing: the conversion to uint32 of a value for
\* a binary output or value is not guarded, and an unknown type sets the
\* encoder's error.
AppDataFault(x, typeBVBO) ==
    CASE x.t = "null" -> "none"
      [] x.t # "null" /\ typeBVBO ->
            IF x.t = "uint" THEN "none" ELSE "panic"
      [] OTHER ->
            IF x.t \in {"real", "double", "bool", "string", "uint", "int", "enum", "objectid"}
            THEN "none" ELSE "error"

AppData(x, typeBVBO) ==
    CASE x.t = "null" -> Tag(0, FALSE, 0)
      [] x.t \in {"uint", "int", "enum"} ->
            Tag(CASE x.t = "enum" \/ typeBVBO -> 9
                  [] x.t = "uint" /\ ~typeBVBO -> 2
                  [] x.t = "int" /\ ~typeBVBO -> 3,
                FALSE, ValueLength(x.v)) \o Unsigned(x.v)
      [] x.t = "bool" -> Tag(1, FALSE, x.v[1])
      [] x.t = "real" -> Tag(4, FALSE, 4) \o x.v
      [] x.t = "double" -> Tag(5, FALSE, 4) \o x.v
      [] x.t = "string" -> Tag(7, FALSE, Len(x.v) + 1) \o <<0>> \o x.v
      [] x.t = "objectid" -> Tag(12, FALSE, 4) \o ObjectId(x.v[1], x.v[2])

-----------------------------------------------------------------------------
(* Decoding.                                                               *)

\* Faulty: too few bytes are used up, and no error is set.
DecodeUnchecked(d, n) ==
    LET there == SubSeq(d.buf, 1, IF n <= Len(d.buf) THEN n ELSE Len(d.buf))
    IN  IF d.err THEN [d |-> d, v |-> [i \in 1 .. n |-> 0]]
        ELSE [d |-> [d EXCEPT !.buf = SubSeq(@, n + 1, Len(@))],
              v |-> [i \in 1 .. n |-> IF i <= Len(there) THEN there[i] ELSE 0]]

NewDecoder(bytes) == [buf |-> bytes, err |-> FALSE]
Rest(bytes, n) == SubSeq(bytes, n + 1, Len(bytes))

\* decode: nothing once an error is set; too few bytes are used up and set it.
Decode(d, n) ==
    CASE d.err -> [d |-> d, v |-> Zeros(n)]
      [] ~d.err /\ Len(d.buf) < n ->
            [d |-> [buf |-> <<>>, err |-> TRUE], v |-> Zeros(n)]
      [] OTHER ->
            [d |-> [d EXCEPT !.buf = Rest(@, n)], v |-> SubSeq(d.buf, 1, n)]

\* Skip, and the reads of dates and times: bytes.Buffer.Read, which takes what
\* there is and fails only on an empty buffer.  Its outcome replaces the error.
Read(d, n) ==
    [d |-> [buf |-> Rest(d.buf, n), err |-> d.buf = <<>> /\ n > 0],
     v |-> [i \in 1 .. n |-> IF i <= Len(d.buf) THEN d.buf[i] ELSE 0]]

IsOpening(meta) == meta % 8 \in {6, 7}
IsClosing(meta) == meta % 8 = 7
IsContextSpecific(meta) == (meta \div 8) % 2 = 1

TagNumber(d) ==
    LET first == Decode(d, 1)
        meta == first.v[1]
        second == Decode(first.d, 1)
    IN  IF meta >= 240 THEN [d |-> second.d, tag |-> second.v[1], meta |-> meta]
        ELSE [d |-> first.d, tag |-> meta \div 16, meta |-> meta]

TagValue(d, meta) ==
    LET size == Decode(d, 1)
        wide == Decode(size.d, IF size.v[1] = 255 THEN 4 ELSE 2)
    IN  CASE meta % 8 < 5 -> [d |-> d, v |-> meta % 8]
          [] meta % 8 > 5 -> [d |-> d, v |-> 0]
          [] meta % 8 = 5 ->
                IF size.v[1] < 254 THEN [d |-> size.d, v |-> size.v[1]]
                ELSE [d |-> wide.d, v |-> LengthOf(Widen(wide.v))]

\* The value that follows a tag just read.
ValueOf(t) == TagValue(t.d, t.meta)
TagNumberAndValue(d) ==
    LET valued(t) == [d |-> ValueOf(t).d, tag |-> t.tag, meta |-> t.meta, v |-> ValueOf(t).v]
    IN  valued(TagNumber(d))

\* Three bytes are read one by one, so that those there are kept.
DecodeUnsigned(d, n) ==
    LET x == Decode(d, n)
        there == SubSeq(d.buf \o Zeros(3), 1, 3)
    IN  CASE n < 1 \/ n > 4 -> [d |-> d, v |-> Zeros(4)]
          [] n = 3 /\ ~d.err -> [d |-> x.d, v |-> Widen(there)]
          [] OTHER -> [d |-> x.d, v |-> Widen(x.v)]
UnsignedOf(t) == DecodeUnsigned(t.d, t.v)

\* One and two bytes carry their sign to the int32, three do not.
DecodeSigned(d, n) ==
    LET x == DecodeUnsigned(d, n)
        sign(i) == IF x.v[i] >= 128 THEN 255 ELSE 0
    IN  CASE n = 1 -> [x EXCEPT !.v = [i \in 1 .. 4 |-> IF i < 4 THEN sign(4) ELSE @[i]]]
          [] n = 2 -> [x EXCEPT !.v = [i \in 1 .. 4 |-> IF i < 3 THEN sign(3) ELSE @[i]]]
          [] OTHER -> x

DecodeObjectId(d) ==
    LET x == Decode(d, 4)
    IN  [d |-> x.d,
         type |-> 4 * x.v[1] + x.v[2] \div 64,
         instance |-> 65536 * (x.v[2] % 64) + 256 * x.v[3] + x.v[4]]

ReverseBits(b) ==
    LET bit(i) == (b \div 2^i) % 2
    IN  128 * bit(0) + 64 * bit(1) + 32 * bit(2) + 16 * bit(3) +
        8 * bit(4) + 4 * bit(5) + 2 * bit(6) + bit(7)

\* BitUsed (a byte) and the bytes of a bit string; a longer one than the
\* library allows is left all zeros, with no bit used.
DecodeBitString(d, n) ==
    LET x == Decode(d, n)
        used == (n - 1) % 256
    IN  CASE n <= 0 -> [d |-> d, v |-> <<>>]
          [] n > 0 /\ used <= MaxBitStringBytes ->
                [d |-> x.d, v |-> <<(8 * used - (x.v[1] % 8)) % 256>> \o
                                  [i \in 1 .. used |-> ReverseBits(x.v[i + 1])]]
          [] OTHER -> [d |-> x.d, v |-> Zeros(1 + MaxBitStringBytes)]

\* Reading into a fresh date, whose year is 0: the year is always shifted.
DecodeDate(d, n) ==
    LET x == Read(d, n)
    IN  IF n <= 0 \/ x.d.err \/ n < 4
        THEN [d |-> IF n <= 0 THEN d ELSE x.d, v |-> Zeros(4)]
        ELSE [d |-> x.d, v |-> <<x.v[1] + EpochYear, x.v[2], x.v[3], x.v[4]>>]

\* A length of 1 to 3 is out of range of the bytes read: the code panics.  Here
\* too the fourth octet is outside the domain then, and TLC stops with an error:
\* no packet of a run has such a time, and a cut packet keeps its length of 4.
DecodeTime(d, n) ==
    LET x == Read(d, n)
    IN  IF n <= 0 \/ x.d.err THEN [d |-> IF n <= 0 THEN d ELSE x.d, v |-> Zeros(4)]
        ELSE [d |-> x.d, v |-> <<x.v[1], x.v[2], x.v[3], 10 * x.v[4]>>]

\* The UTF-8 form of the UCS-2 characters of a string (surrogates aside).
Utf8(c) == CASE c < 128 -> <<c>>
             [] c \in 128 .. 2047 -> <<192 + c \div 64, 128 + (c % 64)>>
             [] OTHER -> <<224 + c \div 4096, 128 + ((c \div 64) % 64), 128 + (c % 64)>>
Ucs2(bytes) ==
    LET text[i \in 0 .. Len(bytes) \div 2] ==
            IF i = 0 THEN <<>>
            ELSE text[i - 1] \o Utf8(256 * bytes[2 * i - 1] + bytes[2 * i])
    IN  text[Len(bytes) \div 2] \o
        IF Len(bytes) % 2 = 1 THEN Utf8(65533) ELSE <<>>

\* The string after its encoding byte (n characters): the error returned is
\* not always the decoder's.
DecodeString(d, n) ==
    LET kind == Decode(d, 1)
        text == Decode(kind.d, n)
    IN  CASE kind.d.err -> [d |-> kind.d, v |-> <<>>, err |-> TRUE]
          [] ~kind.d.err /\ kind.v[1] \notin {0, 4} ->
                [d |-> kind.d, v |-> <<>>, err |-> TRUE]
          [] OTHER ->
                [d |-> text.d, err |-> text.d.err,
                 v |-> CASE text.d.err -> <<>>
                         [] ~text.d.err /\ kind.v[1] = 4 -> Ucs2(text.v)
                         [] OTHER -> text.v]

\* The value of an application tag and the error returned with it.
AppDataOfTag(d, tag, n) ==
    LET value(t, x) == [d |-> x.d, x |-> [t |-> t, v |-> x.v], err |-> x.d.err]
        id == DecodeObjectId(d)
        str == DecodeString(d, n - 1)
    IN  CASE tag = 0 -> [d |-> d, x |-> Null, err |-> FALSE]
          [] tag = 1 -> value("bool", [d |-> d, v |-> IF n > 0 THEN <<1>> ELSE <<0>>])
          [] tag = 2 -> value("uint", DecodeUnsigned(d, n))
          [] tag = 3 -> value("int", DecodeSigned(d, n))
          [] tag = 4 -> value("real", Decode(d, 4))
          [] tag = 5 -> value("double", Decode(d, 8))
          [] tag = 6 -> IF n <= 0 THEN [d |-> d, x |-> [t |-> "octets", v |-> <<>>], err |-> FALSE]
                        ELSE value("octets", Decode(d, n))
          [] tag = 7 -> IF n <= 0 THEN [d |-> d, x |-> [t |-> "string", v |-> <<>>], err |-> FALSE]
                        ELSE [d |-> str.d, x |-> [t |-> "string", v |-> str.v], err |-> str.err]
          [] tag = 8 -> value("bits", DecodeBitString(d, n))
          [] tag = 9 -> value("uint", DecodeUnsigned(d, n))
          [] tag = 10 -> value("date", DecodeDate(d, n))
          [] tag = 11 -> value("time", DecodeTime(d, n))
          [] tag = 12 -> value("objectid", [d |-> id.d, v |-> <<id.type, id.instance>>])
          [] OTHER -> [d |-> d, x |-> Null, err |-> TRUE]

DecodeAppData(d) ==
    LET ofTag(t) == AppDataOfTag(t.d, t.tag, t.v) IN ofTag(TagNumberAndValue(d))
=============================================================================
