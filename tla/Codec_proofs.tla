---------------------------- MODULE Codec_proofs ----------------------------
(***************************************************************************)
(* Theorems about what one side encodes and the other decodes: values,     *)
(* dates, headers, requests and announcements of any size, whole and cut.  *)
(*                                                                         *)
(* A decoder that reads the bytes of an item, with any bytes behind them,  *)
(* returns the item and leaves those bytes: this is shown from the single  *)
(* byte up to whole packets.  The invariant then says that the bytes on    *)
(* the wire are those of the item.  Of a packet that lost its end, the     *)
(* decoders tell it, or read what was there and zeros.                     *)
(***************************************************************************)
EXTENDS Codec, SequenceTheorems, WellFoundedInduction, TLAPS

\* A decoder before it met an error.
Good(bytes) == [buf |-> bytes, err |-> FALSE]
Bytes == Seq(Byte)

\* Bytes written are the bytes read, and what follows them is left.
LEMMA ReadFront ==
  ASSUME NEW a \in Bytes, NEW rest \in Bytes
  PROVE  Decode(Good(a \o rest), Len(a)) = [d |-> Good(rest), v |-> a]
<1> DEFINE s == a \o rest
<1>1. s \in Seq(Byte) /\ Len(s) = Len(a) + Len(rest) /\ Len(a) \in Nat /\ Len(rest) \in Nat
  BY ConcatProperties DEF Bytes
<1>2. SubSeq(s, 1, Len(a)) = a
  <2>1. \A i \in 1 .. Len(a) : s[i] = a[i]
    BY <1>1, ConcatProperties DEF Bytes
  <2>2. \A i \in 1 .. Len(a) : s[i] \in Byte
    BY <2>1, ElementOfSeq DEF Bytes
  <2>3. /\ SubSeq(s, 1, Len(a)) \in Seq(Byte)
        /\ Len(SubSeq(s, 1, Len(a))) = Len(a)
        /\ \A i \in 1 .. Len(a) : SubSeq(s, 1, Len(a))[i] = s[i]
    BY <1>1, <2>2, SubSeqProperties
  <2> QED
    BY <2>1, <2>3, SeqEqual DEF Bytes
<1>3. SubSeq(s, Len(a) + 1, Len(s)) = rest
  <2>1. \A i \in 1 .. Len(rest) : s[Len(a) + i] = rest[i]
    BY <1>1, ConcatProperties DEF Bytes
  <2>2. \A i \in Len(a) + 1 .. Len(s) : s[i] \in Byte
    BY <1>1, ElementOfSeq DEF Bytes
  <2>3. /\ SubSeq(s, Len(a) + 1, Len(s)) \in Seq(Byte)
        /\ Len(SubSeq(s, Len(a) + 1, Len(s))) = Len(rest)
        /\ \A i \in 1 .. Len(rest) : SubSeq(s, Len(a) + 1, Len(s))[i] = s[Len(a) + i]
    BY <1>1, <2>2, SubSeqProperties
  <2> QED
    BY <2>1, <2>3, SeqEqual DEF Bytes
<1>4. /\ Good(s).buf = s /\ ~Good(s).err
      /\ [Good(s) EXCEPT !.buf = rest] = Good(rest)
  <2> HIDE DEF s
  <2>1. Good(s).buf = s
    BY DEF Good
  <2>2. ~Good(s).err
    BY DEF Good
  <2>3. [Good(s) EXCEPT !.buf = rest] = Good(rest)
    BY DEF Good
  <2> QED
    BY <2>1, <2>2, <2>3
<1>5. ~(Len(s) < Len(a))
  BY <1>1
<1> HIDE DEF s
<1>6. Decode(Good(s), Len(a)) = [d |-> [Good(s) EXCEPT !.buf = Rest(s, Len(a))], v |-> SubSeq(s, 1, Len(a))]
  BY <1>4, <1>5 DEF Decode
<1> QED
  BY <1>2, <1>3, <1>4, <1>6 DEF Rest, s

\* How the first byte of a tag reads.
Meta(low, num) == IF num <= 14 THEN 16 * num + low ELSE 240 + low

\* One byte of them.
LEMMA ReadByte ==
  ASSUME NEW b \in Byte, NEW s \in Bytes
  PROVE  Decode(Good(<<b>> \o s), 1) = [d |-> Good(s), v |-> <<b>>]
<1>1. <<b>> \in Bytes /\ Len(<<b>>) = 1
  BY DEF Bytes
<1> QED
  BY <1>1, ReadFront

\* The first byte of a tag, and its number where that has a byte of its own.
LEMMA TagByteBytes ==
  ASSUME NEW low \in 0 .. 15, NEW num \in Byte
  PROVE  TagByte(low, num) \in Bytes /\ Len(TagByte(low, num)) \in 1 .. 2
<1>1. CASE num <= 14
  <2>1. 16 * num + low \in Byte /\ TagByte(low, num) = <<16 * num + low>>
    BY <1>1 DEF Byte, TagByte
  <2> QED
    BY <2>1 DEF Bytes
<1>2. CASE num > 14
  <2>1. 240 + low \in Byte /\ TagByte(low, num) = <<240 + low, num>>
    BY <1>2 DEF Byte, TagByte
  <2> QED
    BY <2>1 DEF Bytes
<1> QED
  BY <1>1, <1>2 DEF Byte

\* The number of a tag is read as it was written.
LEMMA ReadTagNumber ==
  ASSUME NEW low \in 0 .. 15, NEW num \in Byte, NEW s \in Bytes
  PROVE  TagNumber(Good(TagByte(low, num) \o s)) =
           [d |-> Good(s), tag |-> num, meta |-> Meta(low, num)]
<1>1. CASE num <= 14
  <2> DEFINE m == 16 * num + low
  <2>1. m \in Byte /\ m \div 16 = num /\ m < 240
    BY <1>1, SMT DEF Byte
  <2>2. TagByte(low, num) = <<m>> /\ Meta(low, num) = m
    BY <1>1 DEF TagByte, Meta
  <2> HIDE DEF m
  <2>3. Decode(Good(TagByte(low, num) \o s), 1) = [d |-> Good(s), v |-> <<m>>]
    BY <2>1, <2>2, ReadByte
  <2> QED
    BY <2>1, <2>2, <2>3, SMT DEF TagNumber, Byte
<1>2. CASE num > 14
  <2> DEFINE m == 240 + low
  <2>1. m \in Byte /\ m >= 240
    BY DEF Byte
  <2>2. TagByte(low, num) = <<m, num>> /\ Meta(low, num) = m
    BY <1>2 DEF TagByte, Meta, Byte
  <2> HIDE DEF m
  <2>3. <<m, num>> \o s = <<m>> \o (<<num>> \o s) /\ <<num>> \o s \in Bytes
    <3>1. <<m>> \in Bytes /\ <<num>> \in Bytes
      BY <2>1 DEF Bytes
    <3>2. <<m, num>> = <<m>> \o <<num>>
      OBVIOUS
    <3> QED
      BY <3>1, <3>2, ConcatAssociative, ConcatProperties DEF Bytes
  <2>4. Decode(Good(TagByte(low, num) \o s), 1) = [d |-> Good(<<num>> \o s), v |-> <<m>>]
    BY <2>1, <2>2, <2>3, ReadByte
  <2>5. Decode(Good(<<num>> \o s), 1) = [d |-> Good(s), v |-> <<num>>]
    BY ReadByte
  <2> QED
    BY <2>1, <2>2, <2>4, <2>5, SMT DEF TagNumber
<1> QED
  BY <1>1, <1>2 DEF Byte

\* What is known of a few bytes.
LEMMA Pair ==
  ASSUME NEW a \in Byte, NEW b \in Byte
  PROVE  /\ <<a, b>> \in Bytes /\ Len(<<a, b>>) = 2
         /\ Widen(<<a, b>>) = <<0, 0, a, b>>
         /\ Natural(<<a, b>>) = 256 * a + b
<1>1. <<a, b>> \in Bytes /\ Len(<<a, b>>) = 2
  BY DEF Bytes
<1>2. Widen(<<a, b>>) = <<0, 0, a, b>>
  BY SMT DEF Widen
<1>3. Natural(<<a, b>>) = 256 * a + b
  BY <1>2, SMT DEF Natural, Byte
<1> QED
  BY <1>1, <1>2, <1>3

\* Any array of bytes is a sequence of them.
LEMMA BytesOf ==
  ASSUME NEW n \in Nat, NEW v \in [1 .. n -> Byte]
  PROVE  v \in Bytes /\ Len(v) = n
  BY DEF Bytes

\* A word is four bytes.
LEMMA WordBytes ==
  ASSUME NEW w \in Word
  PROVE  w \in Bytes /\ Len(w) = 4 /\ Widen(w) = w
<1>1. w \in Bytes /\ Len(w) = 4
  <2> DEFINE n == 4
  <2>1. n \in Nat /\ w \in [1 .. n -> Byte]
    BY DEF Word
  <2> HIDE DEF n
  <2>2. w \in Bytes /\ Len(w) = n
    BY <2>1, BytesOf
  <2> QED
    BY <2>2 DEF n
<1>2. Widen(w) = w
  BY <1>1, SMT DEF Widen, Word
<1> QED
  BY <1>1, <1>2

\* A number in two bytes.
LEMMA Uint16Read ==
  ASSUME NEW n \in Nat, n <= 65535
  PROVE  /\ Uint16(n) \in Bytes /\ Len(Uint16(n)) = 2
         /\ Natural(Uint16(n)) = n
         /\ Widen(Uint16(n))[1] = 0 /\ Natural(Widen(Uint16(n))) = n
<1> DEFINE a == (n \div 256) % 256
           b == n % 256
<1>1. a \in Byte /\ b \in Byte /\ 256 * a + b = n
  BY SMT DEF Byte
<1>2. Uint16(n) = <<a, b>>
  BY DEF Uint16
<1> HIDE DEF a, b
<1>3. /\ Uint16(n) \in Bytes /\ Len(Uint16(n)) = 2
      /\ Widen(Uint16(n)) = <<0, 0, a, b>> /\ Natural(Uint16(n)) = n
  BY <1>1, <1>2, Pair
<1>4. <<0, 0, a, b>> \in Word
  BY <1>1, SMTT(30) DEF Word, Byte
<1>5. Widen(<<0, 0, a, b>>) = <<0, 0, a, b>>
  BY <1>4, WordBytes
<1>6. Natural(<<0, 0, a, b>>) = 256 * a + b
  BY <1>1, <1>5, SMT DEF Natural, Byte
<1> QED
  BY <1>1, <1>3, <1>6

\* A length in four bytes.
LEMMA WordRead ==
  ASSUME NEW n \in Nat, n < LongLength
  PROVE  /\ ToWord(n) \in Word /\ ToWord(n)[1] = 0
         /\ Natural(ToWord(n)) = n
<1>1. /\ (n \div 16777216) % 256 = 0
      /\ (n \div 65536) % 256 \in Byte /\ (n \div 256) % 256 \in Byte /\ n % 256 \in Byte
  BY SMT DEF Byte, LongLength
<1>2. 65536 * ((n \div 65536) % 256) + 256 * ((n \div 256) % 256) + (n % 256) = n
  BY SMT DEF LongLength
<1>3. ToWord(n) \in Word /\ ToWord(n)[1] = 0
  BY <1>1, SMT DEF ToWord, Word, Byte
<1>4. Widen(ToWord(n)) = ToWord(n)
  BY <1>3, WordBytes
<1>5. ToWord(n) = <<0, (n \div 65536) % 256, (n \div 256) % 256, n % 256>>
  BY <1>1, SMT DEF ToWord
<1>6. Natural(ToWord(n)) = n
  BY <1>2, <1>4, <1>5, SMT DEF Natural
<1> QED
  BY <1>3, <1>6

\* How the bits of the first byte of a tag read.
LEMMA MetaBits ==
  ASSUME NEW low \in 0 .. 15, NEW num \in Byte
  PROVE  /\ Meta(low, num) \in Byte /\ Meta(low, num) % 8 = low % 8
         /\ IsContextSpecific(Meta(low, num)) = (low >= 8)
         /\ IsOpening(Meta(low, num)) = (low % 8 \in {6, 7})
         /\ IsClosing(Meta(low, num)) = (low % 8 = 7)
<1>1. CASE num <= 14
  <2>1. Meta(low, num) = 16 * num + low
    BY <1>1 DEF Meta
  <2>2. /\ 16 * num + low \in Byte /\ (16 * num + low) % 8 = low % 8
        /\ ((16 * num + low) \div 8) % 2 = low \div 8
    BY <1>1, SMT DEF Byte
  <2>3. low \div 8 = 1 <=> low >= 8
    BY SMT
  <2> QED
    BY <2>1, <2>2, <2>3 DEF IsContextSpecific, IsOpening, IsClosing
<1>2. CASE num > 14
  <2>1. Meta(low, num) = 240 + low
    BY <1>2 DEF Meta, Byte
  <2>2. /\ 240 + low \in Byte /\ (240 + low) % 8 = low % 8
        /\ ((240 + low) \div 8) % 2 = low \div 8
    BY <1>2, SMT DEF Byte
  <2>3. low \div 8 = 1 <=> low >= 8
    BY SMT
  <2> QED
    BY <2>1, <2>2, <2>3 DEF IsContextSpecific, IsOpening, IsClosing
<1> QED
  BY <1>1, <1>2 DEF Byte

\* A byte in front of others.
LEMMA ByteFirst ==
  ASSUME NEW b \in Byte, NEW t \in Bytes, NEW s \in Bytes
  PROVE  /\ <<b>> \o t \in Bytes /\ (<<b>> \o t) \o s = <<b>> \o (t \o s) /\ t \o s \in Bytes
<1>1. <<b>> \in Bytes
  BY DEF Bytes
<1> QED
  BY <1>1, ConcatAssociative, ConcatProperties DEF Bytes

\* The length behind the first byte of a tag, in that byte, one, two or four more.
LEMMA ExtendedRead ==
  ASSUME NEW n \in Nat, n < LongLength, NEW low \in 0 .. 15, NEW num \in Byte,
         low % 8 = IF n <= 4 THEN n ELSE 5, NEW s \in Bytes
  PROVE  /\ Extended(n) \in Bytes
         /\ TagValue(Good(Extended(n) \o s), Meta(low, num)) = [d |-> Good(s), v |-> n]
<1> DEFINE meta == Meta(low, num)
<1>1. meta % 8 = IF n <= 4 THEN n ELSE 5
  BY MetaBits
<1> HIDE DEF meta
<1>2. CASE n <= 4
  <2>1. Extended(n) = <<>> /\ <<>> \o s = s /\ <<>> \in Bytes
    BY <1>2, ConcatEmptySeq, EmptySeq, SMT DEF Extended, Bytes
  <2> QED
    BY <1>1, <1>2, <2>1 DEF TagValue, meta
<1>3. CASE n > 4 /\ n <= 253
  <2>1. Extended(n) = <<n>> /\ <<n>> \in Bytes /\ n \in Byte
    <3>1. Extended(n) = <<n>>
      BY <1>3, SMT DEF Extended
    <3>2. n \in Byte
      BY <1>3 DEF Byte
    <3> QED
      BY <3>1, <3>2 DEF Bytes
  <2>2. Decode(Good(<<n>> \o s), 1) = [d |-> Good(s), v |-> <<n>>]
    BY <2>1, ReadByte
  <2>3. meta % 8 = 5 /\ n < 254
    BY <1>1, <1>3
  <2> QED
    BY <2>1, <2>2, <2>3 DEF TagValue, meta
<1>4. CASE n > 253 /\ n <= 65535
  <2>1. Extended(n) = <<254>> \o Uint16(n)
    BY <1>4, SMT DEF Extended
  <2>2. /\ Uint16(n) \in Bytes /\ Len(Uint16(n)) = 2
        /\ Widen(Uint16(n))[1] = 0 /\ Natural(Widen(Uint16(n))) = n
    BY <1>4, Uint16Read
  <2>3. /\ Extended(n) \in Bytes /\ Extended(n) \o s = <<254>> \o (Uint16(n) \o s)
        /\ Uint16(n) \o s \in Bytes /\ 254 \in Byte
    <3>1. 254 \in Byte
      BY DEF Byte
    <3> QED
      BY <2>1, <2>2, <3>1, ByteFirst
  <2>4. Decode(Good(Extended(n) \o s), 1) = [d |-> Good(Uint16(n) \o s), v |-> <<254>>]
    BY <2>3, ReadByte
  <2>5. Decode(Good(Uint16(n) \o s), 2) = [d |-> Good(s), v |-> Uint16(n)]
    BY <2>2, ReadFront
  <2>6. LengthOf(Widen(Uint16(n))) = n
    BY <2>2 DEF LengthOf
  <2>7. meta % 8 = 5
    BY <1>1, <1>4
  <2> QED
    BY <2>3, <2>4, <2>5, <2>6, <2>7 DEF TagValue, meta
<1>5. CASE n > 65535
  <2>1. Extended(n) = <<255>> \o ToWord(n)
    BY <1>5, SMT DEF Extended
  <2>2. ToWord(n) \in Word /\ ToWord(n)[1] = 0 /\ Natural(ToWord(n)) = n
    BY WordRead
  <2>3. ToWord(n) \in Bytes /\ Len(ToWord(n)) = 4 /\ Widen(ToWord(n)) = ToWord(n)
    BY <2>2, WordBytes
  <2>4. /\ Extended(n) \in Bytes /\ Extended(n) \o s = <<255>> \o (ToWord(n) \o s)
        /\ ToWord(n) \o s \in Bytes /\ 255 \in Byte
    <3>1. 255 \in Byte
      BY DEF Byte
    <3> QED
      BY <2>1, <2>3, <3>1, ByteFirst
  <2>5. Decode(Good(Extended(n) \o s), 1) = [d |-> Good(ToWord(n) \o s), v |-> <<255>>]
    BY <2>4, ReadByte
  <2>6. Decode(Good(ToWord(n) \o s), 4) = [d |-> Good(s), v |-> ToWord(n)]
    BY <2>3, ReadFront
  <2>7. LengthOf(Widen(ToWord(n))) = n
    BY <2>2, <2>3 DEF LengthOf
  <2>8. meta % 8 = 5
    BY <1>1, <1>5
  <2> QED
    BY <2>4, <2>5, <2>6, <2>7, <2>8 DEF TagValue, meta
<1> QED
  BY <1>2, <1>3, <1>4, <1>5

\* A tag is read as it was written, whatever its number and length.
LEMMA TagRead ==
  ASSUME NEW id \in Byte, NEW context \in BOOLEAN, NEW n \in Nat, n < LongLength, NEW s \in Bytes
  PROVE  /\ Tag(id, context, n) \in Bytes /\ TagLow(context, n) \in 0 .. 15
         /\ TagNumber(Good(Tag(id, context, n) \o s)) =
              [d |-> Good(Extended(n) \o s), tag |-> id, meta |-> Meta(TagLow(context, n), id)]
         /\ TagNumberAndValue(Good(Tag(id, context, n) \o s)) =
              [d |-> Good(s), tag |-> id, meta |-> Meta(TagLow(context, n), id), v |-> n]
<1> DEFINE low == TagLow(context, n)
<1>1. low \in 0 .. 15 /\ low % 8 = IF n <= 4 THEN n ELSE 5
  BY SMT DEF TagLow
<1> HIDE DEF low
<1>2. /\ Extended(n) \in Bytes
      /\ TagValue(Good(Extended(n) \o s), Meta(low, id)) = [d |-> Good(s), v |-> n]
  BY <1>1, ExtendedRead
<1>3. TagByte(low, id) \in Bytes
  BY <1>1, TagByteBytes
<1>4. /\ Tag(id, context, n) \in Bytes /\ Extended(n) \o s \in Bytes
      /\ Tag(id, context, n) \o s = TagByte(low, id) \o (Extended(n) \o s)
  BY <1>2, <1>3, ConcatAssociative, ConcatProperties DEF Tag, Bytes, low
<1>5. TagNumber(Good(Tag(id, context, n) \o s)) =
         [d |-> Good(Extended(n) \o s), tag |-> id, meta |-> Meta(low, id)]
  BY <1>1, <1>4, ReadTagNumber
<1>6. TagNumberAndValue(Good(Tag(id, context, n) \o s)) =
         [d |-> Good(s), tag |-> id, meta |-> Meta(low, id), v |-> n]
  BY <1>2, <1>5 DEF TagNumberAndValue, ValueOf
<1> QED
  BY <1>1, <1>4, <1>5, <1>6 DEF low

-----------------------------------------------------------------------------
(* Values.                                                                 *)

\* The bytes of a value: the leading zeros left out.
LEMMA UnsignedBytes ==
  ASSUME NEW w \in Word
  PROVE  /\ ValueLength(w) \in 1 .. 4
         /\ Unsigned(w) \in Bytes /\ Len(Unsigned(w)) = ValueLength(w)
         /\ Widen(Unsigned(w)) = w
<1> DEFINE k == ValueLength(w)
<1>1. /\ k \in 1 .. 4
      /\ \A i \in 1 .. 4 : i <= 4 - k => w[i] = 0
  BY SMT DEF ValueLength, Word, Byte
<1> HIDE DEF k
<1>2. Unsigned(w) = [i \in 1 .. k |-> w[i + 4 - k]]
  BY DEF Unsigned, k
<1>3. Unsigned(w) \in [1 .. k -> Byte] /\ k \in Nat
  BY <1>1, <1>2 DEF Word
<1>4. Unsigned(w) \in Bytes /\ Len(Unsigned(w)) = k
  BY <1>3, BytesOf
<1>5. Widen(Unsigned(w)) = [i \in 1 .. 4 |-> w[i]]
  <2>1. ASSUME NEW i \in 1 .. 4
        PROVE  (IF i > 4 - k THEN Unsigned(w)[i - (4 - k)] ELSE 0) = w[i]
    <3>1. CASE i > 4 - k
      <4>1. i - (4 - k) \in 1 .. k /\ i - (4 - k) + 4 - k = i
        BY <1>1, <3>1
      <4> QED
        BY <1>2, <3>1, <4>1
    <3>2. CASE i <= 4 - k
      BY <1>1, <3>2
    <3> QED
      BY <1>1, <3>1, <3>2
  <2> QED
    BY <1>4, <2>1 DEF Widen
<1>6. w = [i \in 1 .. 4 |-> w[i]]
  BY DEF Word
<1> QED
  BY <1>1, <1>4, <1>5, <1>6 DEF k

\* A value of one to four bytes is read as it was written.
LEMMA UnsignedRead ==
  ASSUME NEW w \in Word, NEW s \in Bytes
  PROVE  DecodeUnsigned(Good(Unsigned(w) \o s), ValueLength(w)) = [d |-> Good(s), v |-> w]
<1> DEFINE u == Unsigned(w)
           k == ValueLength(w)
           d == Good(u \o s)
<1>1. k \in 1 .. 4 /\ u \in Bytes /\ Len(u) = k /\ Widen(u) = w
  BY UnsignedBytes
<1>2. d.buf = u \o s /\ ~d.err
  BY DEF Good
<1> HIDE DEF u, k
<1>3. Decode(d, k) = [d |-> Good(s), v |-> u]
  BY <1>1, ReadFront
<1>4. k = 3 => SubSeq((u \o s) \o Zeros(3), 1, 3) = u
  <2> SUFFICES ASSUME k = 3 PROVE SubSeq((u \o s) \o Zeros(3), 1, 3) = u
    OBVIOUS
  <2>1. Zeros(3) \in Bytes
    <3>1. Zeros(3) \in [1 .. 3 -> Byte] /\ 3 \in Nat
      BY DEF Zeros, Byte
    <3> QED
      BY <3>1, BytesOf
  <2> DEFINE t == s \o Zeros(3)
  <2>2. t \in Bytes /\ (u \o s) \o Zeros(3) = u \o t
    BY <1>1, <2>1, ConcatAssociative, ConcatProperties DEF Bytes
  <2> HIDE DEF t
  <2>3. SubSeq(u \o t, 1, 3) = SubSeq(u, 1, 3)
    <3>1. 1 \in 1 .. Len(u) /\ 3 \in 1 .. Len(u)
      BY <1>1
    <3> QED
      BY <1>1, <2>2, <3>1, SubSeqOfConcat1 DEF Bytes
  <2>4. SubSeq(u, 1, 3) = u
    BY <1>1, SubSeqFull DEF Bytes
  <2> QED
    BY <2>2, <2>3, <2>4
<1> HIDE DEF d
<1>5. DecodeUnsigned(d, k) = [d |-> Good(s), v |-> w]
  <2>1. CASE k = 3
    <3>1. SubSeq(d.buf \o Zeros(3), 1, 3) = u
      BY <1>2, <1>4, <2>1
    <3>2. DecodeUnsigned(d, k) = [d |-> Decode(d, k).d, v |-> Widen(SubSeq(d.buf \o Zeros(3), 1, 3))]
      BY <1>2, <2>1 DEF DecodeUnsigned
    <3>3. Decode(d, k).d = Good(s) /\ Widen(u) = w
      BY <1>1, <1>3
    <3> QED
      BY <3>1, <3>2, <3>3
  <2>2. CASE k # 3
    <3>1. DecodeUnsigned(d, k) = [d |-> Decode(d, k).d, v |-> Widen(Decode(d, k).v)]
      BY <1>1, <2>2 DEF DecodeUnsigned
    <3> QED
      BY <1>1, <1>3, <3>1
  <2> QED
    BY <2>1, <2>2
<1> QED
  BY <1>5 DEF d, u, k

\* A signed value is read with the sign that its top bit then is.
LEMMA SignedRead ==
  ASSUME NEW w \in Word, NEW s \in Bytes
  PROVE  DecodeSigned(Good(Unsigned(w) \o s), ValueLength(w)) = [d |-> Good(s), v |-> SignedValue(w)]
<1> DEFINE k == ValueLength(w)
           x == DecodeUnsigned(Good(Unsigned(w) \o s), k)
<1>1. x = [d |-> Good(s), v |-> w]
  BY UnsignedRead
<1>2. k \in 1 .. 4
  BY UnsignedBytes
<1>3. k = 1 => Unsigned(w)[1] = w[4] /\ w[1] = 0 /\ w[2] = 0 /\ w[3] = 0
  BY SMT DEF Unsigned, ValueLength
<1>4. k = 2 => Unsigned(w)[1] = w[3] /\ w[1] = 0 /\ w[2] = 0
  BY SMT DEF Unsigned, ValueLength
<1>5. w = [i \in 1 .. 4 |-> w[i]]
  BY DEF Word
<1> DEFINE sign(b) == IF b >= 128 THEN 255 ELSE 0
<1>6. k = 1 => [i \in 1 .. 4 |-> IF i < 4 THEN sign(w[4]) ELSE w[i]] = SignedValue(w)
  <2>1. CASE k = 1 /\ w[4] >= 128
    <3>1. SignedValue(w) = [i \in 1 .. 4 |-> IF i <= 4 - 1 THEN 255 ELSE w[i]]
      BY <1>3, <2>1 DEF SignedValue
    <3>2. \A i \in 1 .. 4 : (i <= 4 - 1) = (i < 4)
      OBVIOUS
    <3> QED
      BY <2>1, <3>1, <3>2
  <2>2. CASE k = 1 /\ ~(w[4] >= 128)
    <3>1. SignedValue(w) = w
      BY <1>3, <2>2 DEF SignedValue
    <3>2. \A i \in 1 .. 4 : (IF i < 4 THEN sign(w[4]) ELSE w[i]) = w[i]
      BY <1>3, <2>2, SMT DEF Word, Byte
    <3> QED
      BY <1>5, <3>1, <3>2
  <2> QED
    BY <2>1, <2>2
<1>7. k = 2 => [i \in 1 .. 4 |-> IF i < 3 THEN sign(w[3]) ELSE w[i]] = SignedValue(w)
  <2>1. CASE k = 2 /\ w[3] >= 128
    <3>1. SignedValue(w) = [i \in 1 .. 4 |-> IF i <= 4 - 2 THEN 255 ELSE w[i]]
      BY <1>4, <2>1 DEF SignedValue
    <3>2. \A i \in 1 .. 4 : (i <= 4 - 2) = (i < 3)
      OBVIOUS
    <3> QED
      BY <2>1, <3>1, <3>2
  <2>2. CASE k = 2 /\ ~(w[3] >= 128)
    <3>1. SignedValue(w) = w
      BY <1>4, <2>2 DEF SignedValue
    <3>2. \A i \in 1 .. 4 : (IF i < 3 THEN sign(w[3]) ELSE w[i]) = w[i]
      BY <1>4, <2>2, SMT DEF Word, Byte
    <3> QED
      BY <1>5, <3>1, <3>2
  <2> QED
    BY <2>1, <2>2
<1>8. k \notin {1, 2} => SignedValue(w) = w
  BY DEF SignedValue
<1> HIDE DEF k, x
<1>9. DecodeSigned(Good(Unsigned(w) \o s), k) = [d |-> Good(s), v |-> SignedValue(w)]
  BY <1>1, <1>2, <1>6, <1>7, <1>8 DEF DecodeSigned, x
<1> QED
  BY <1>9 DEF k

\* An object identifier: ten bits of type and twenty-two of instance.
LEMMA ObjectIdRead ==
  ASSUME NEW type \in Nat, type <= MaxObject, NEW instance \in Nat, instance <= MaxInstance,
         NEW s \in Bytes
  PROVE  /\ ObjectId(type, instance) \in Bytes /\ Len(ObjectId(type, instance)) = 4
         /\ DecodeObjectId(Good(ObjectId(type, instance) \o s)) =
              [d |-> Good(s), type |-> type, instance |-> instance]
<1> DEFINE b1 == type \div 4
           b2 == 64 * (type % 4) + instance \div 65536
           b3 == (instance \div 256) % 256
           b4 == instance % 256
<1>1. type % (MaxObject + 1) = type /\ instance % (MaxInstance + 1) = instance
  BY SMT DEF MaxObject, MaxInstance
<1>5. ObjectId(type, instance) = <<b1, b2, b3, b4>>
  BY <1>1 DEF ObjectId
<1>3. b1 \in Byte /\ b2 \in Byte /\ b3 \in Byte /\ b4 \in Byte
  BY SMT DEF MaxObject, MaxInstance, Byte
<1>4. 4 * b1 + b2 \div 64 = type /\ 65536 * (b2 % 64) + 256 * b3 + b4 = instance
  <2>1. instance \div 65536 < 64 /\ instance \div 65536 \in Nat /\ type % 4 \in 0 .. 3
    BY SMT DEF MaxInstance
  <2>2. b2 \div 64 = type % 4 /\ b2 % 64 = instance \div 65536
    BY <2>1, SMT
  <2>3. 4 * (type \div 4) + (type % 4) = type
    BY SMT
  <2>4. 65536 * (instance \div 65536) + 256 * b3 + b4 = instance
    BY SMT
  <2> QED
    BY <2>2, <2>3, <2>4, SMT
<1> HIDE DEF b1, b2, b3, b4
<1>6. ObjectId(type, instance) \in Bytes /\ Len(ObjectId(type, instance)) = 4
  BY <1>3, <1>5 DEF Bytes
<1>7. Decode(Good(ObjectId(type, instance) \o s), 4) = [d |-> Good(s), v |-> <<b1, b2, b3, b4>>]
  BY <1>5, <1>6, ReadFront
<1>8. DecodeObjectId(Good(ObjectId(type, instance) \o s)) =
              [d |-> Good(s), type |-> type, instance |-> instance]
  <2> DEFINE x == Decode(Good(ObjectId(type, instance) \o s), 4)
  <2>1. x.d = Good(s) /\ x.v[1] = b1 /\ x.v[2] = b2 /\ x.v[3] = b3 /\ x.v[4] = b4
    BY <1>7
  <2> HIDE DEF x
  <2>2. [d |-> x.d, type |-> 4 * x.v[1] + x.v[2] \div 64,
         instance |-> 65536 * (x.v[2] % 64) + 256 * x.v[3] + x.v[4]] =
              [d |-> Good(s), type |-> type, instance |-> instance]
    BY <1>4, <2>1, SMT
  <2> QED
    BY <2>2, SMT DEF DecodeObjectId, x
<1> QED
  BY <1>6, <1>8

\* Appended pieces: they may be read from the first on.
LEMMA AppendIn == \A a, b : a \in Bytes /\ b \in Bytes => a \o b \in Bytes
  BY ConcatProperties DEF Bytes

\* Three pieces, from the left or from the right.
LEMMA Append3 ==
  \A a, b, c : a \in Bytes /\ b \in Bytes /\ c \in Bytes =>
     (a \o b) \o c = a \o (b \o c)
  BY ConcatAssociative DEF Bytes

\* A value behind its tag.
LEMMA TaggedRead ==
  ASSUME NEW id \in Byte, NEW n \in Nat, n < LongLength, NEW b \in Bytes, NEW s \in Bytes
  PROVE  /\ Tag(id, FALSE, n) \o b \in Bytes
         /\ DecodeAppData(Good((Tag(id, FALSE, n) \o b) \o s)) = AppDataOfTag(Good(b \o s), id, n)
<1>1. b \o s \in Bytes
  BY ConcatProperties DEF Bytes
<1>2. /\ Tag(id, FALSE, n) \in Bytes
      /\ TagNumberAndValue(Good(Tag(id, FALSE, n) \o (b \o s))) =
           [d |-> Good(b \o s), tag |-> id, meta |-> Meta(TagLow(FALSE, n), id), v |-> n]
  BY <1>1, TagRead
<1> DEFINE a == Tag(id, FALSE, n)
<1>3. a \o b \in Bytes /\ (a \o b) \o s = a \o (b \o s)
  <2>1. a \in Bytes /\ b \in Bytes /\ s \in Bytes
    BY <1>2
  <2> HIDE DEF a
  <2>2. a \o b \in Bytes
    BY <2>1, AppendIn
  <2>3. (a \o b) \o s = a \o (b \o s)
    BY <2>1, Append3
  <2> QED
    BY <2>2, <2>3
<1> DEFINE x == TagNumberAndValue(Good(a \o (b \o s)))
<1>4. x.d = Good(b \o s) /\ x.tag = id /\ x.v = n
  <2>1. x = [d |-> Good(b \o s), tag |-> id, meta |-> Meta(TagLow(FALSE, n), id), v |-> n]
    BY <1>2
  <2> HIDE DEF x
  <2> QED
    BY <2>1, Zenon
<1>5. DecodeAppData(Good(a \o (b \o s))) = AppDataOfTag(x.d, x.tag, x.v)
  BY DEF DecodeAppData
<1> HIDE DEF a, x
<1> QED
  BY <1>3, <1>4, <1>5 DEF a

\* The tags that are written.
LEMMA TagNumbers == \A id \in 0 .. 12 : id \in Byte
  BY DEF Byte

\* The lengths that are written in the first byte.
LEMMA ShortLengths == \A n \in 0 .. 4 : n \in Nat /\ n < LongLength
  BY SMT DEF LongLength

\* A string behind its character set.
LEMMA StringRead ==
  ASSUME NEW v \in Bytes, NEW s \in Bytes
  PROVE  DecodeString(Good((<<0>> \o v) \o s), Len(v)) = [d |-> Good(s), v |-> v, err |-> FALSE]
<1>1. 0 \in Byte /\ v \o s \in Bytes
  BY ConcatProperties DEF Byte, Bytes
<1>2. (<<0>> \o v) \o s = <<0>> \o (v \o s)
  BY <1>1, ByteFirst
<1>3. Decode(Good((<<0>> \o v) \o s), 1) = [d |-> Good(v \o s), v |-> <<0>>]
  BY <1>1, <1>2, ReadByte
<1>4. Decode(Good(v \o s), Len(v)) = [d |-> Good(s), v |-> v]
  BY ReadFront
<1>5. Good(v \o s).err = FALSE /\ Good(s).err = FALSE
  BY DEF Good
<1> DEFINE d == Good((<<0>> \o v) \o s)
<1>6. Decode(d, 1).d = Good(v \o s) /\ Decode(d, 1).v[1] = 0
  BY <1>3
<1>7. Decode(Decode(d, 1).d, Len(v)) = [d |-> Good(s), v |-> v]
  BY <1>4, <1>6
<1> HIDE DEF d
<1>8. DecodeString(d, Len(v)) = [d |-> Good(s), v |-> v, err |-> FALSE]
  <2>1. ~Decode(d, 1).d.err /\ Decode(d, 1).v[1] \in {0, 4} /\ Decode(d, 1).v[1] # 4
    BY <1>5, <1>6
  <2>2. DecodeString(d, Len(v)) =
          [d |-> Decode(Decode(d, 1).d, Len(v)).d,
           v |-> IF Decode(Decode(d, 1).d, Len(v)).d.err THEN <<>> ELSE Decode(Decode(d, 1).d, Len(v)).v,
           err |-> Decode(Decode(d, 1).d, Len(v)).d.err]
    BY <2>1, SMT DEF DecodeString
  <2>3. /\ Decode(Decode(d, 1).d, Len(v)).d = Good(s) /\ Decode(Decode(d, 1).d, Len(v)).v = v
        /\ Decode(Decode(d, 1).d, Len(v)).d.err = FALSE
    BY <1>5, <1>7
  <2> HIDE DEF d
  <2> QED
    BY <2>2, <2>3
<1> QED
  BY <1>8 DEF d

\* The decoders of the tags that are written.
Valued(t, x) == [d |-> x.d, x |-> [t |-> t, v |-> x.v], err |-> x.d.err]

\* Each reads what it is for, whatever the bytes.
LEMMA OfTag ==
  ASSUME NEW d, NEW n
  PROVE  /\ AppDataOfTag(d, 0, n) = [d |-> d, x |-> Null, err |-> FALSE]
         /\ AppDataOfTag(d, 1, n) = Valued("bool", [d |-> d, v |-> IF n > 0 THEN <<1>> ELSE <<0>>])
         /\ AppDataOfTag(d, 2, n) = Valued("uint", DecodeUnsigned(d, n))
         /\ AppDataOfTag(d, 3, n) = Valued("int", DecodeSigned(d, n))
         /\ AppDataOfTag(d, 4, n) = Valued("real", Decode(d, 4))
         /\ AppDataOfTag(d, 5, n) = Valued("double", Decode(d, 8))
         /\ AppDataOfTag(d, 9, n) = Valued("uint", DecodeUnsigned(d, n))
         /\ AppDataOfTag(d, 12, n) =
              LET id == DecodeObjectId(d)
              IN  Valued("objectid", [d |-> id.d, v |-> <<id.type, id.instance>>])
         /\ n \in Nat /\ n > 0 => AppDataOfTag(d, 7, n) =
              LET str == DecodeString(d, n - 1)
              IN  [d |-> str.d, x |-> [t |-> "string", v |-> str.v], err |-> str.err]
<1>1. AppDataOfTag(d, 0, n) = [d |-> d, x |-> Null, err |-> FALSE]
  BY SMT DEF AppDataOfTag
<1>2. AppDataOfTag(d, 1, n) = Valued("bool", [d |-> d, v |-> IF n > 0 THEN <<1>> ELSE <<0>>])
  BY SMT DEF AppDataOfTag, Valued
<1>3. AppDataOfTag(d, 2, n) = Valued("uint", DecodeUnsigned(d, n))
  BY SMT DEF AppDataOfTag, Valued
<1>4. AppDataOfTag(d, 3, n) = Valued("int", DecodeSigned(d, n))
  BY SMT DEF AppDataOfTag, Valued
<1>5. AppDataOfTag(d, 4, n) = Valued("real", Decode(d, 4))
  BY SMT DEF AppDataOfTag, Valued
<1>6. AppDataOfTag(d, 5, n) = Valued("double", Decode(d, 8))
  BY SMT DEF AppDataOfTag, Valued
<1>7. AppDataOfTag(d, 9, n) = Valued("uint", DecodeUnsigned(d, n))
  BY SMT DEF AppDataOfTag, Valued
<1>8. AppDataOfTag(d, 12, n) =
        Valued("objectid", [d |-> DecodeObjectId(d).d,
                            v |-> <<DecodeObjectId(d).type, DecodeObjectId(d).instance>>])
  BY SMT DEF AppDataOfTag, Valued
<1>9. n \in Nat /\ n > 0 => AppDataOfTag(d, 7, n) =
        [d |-> DecodeString(d, n - 1).d, x |-> [t |-> "string", v |-> DecodeString(d, n - 1).v],
         err |-> DecodeString(d, n - 1).err]
  BY SMT DEF AppDataOfTag
<1> QED
  BY <1>1, <1>2, <1>3, <1>4, <1>5, <1>6, <1>7, <1>8, <1>9

\* The tag of a value, the length in it, and the bytes behind it.
TagOf(x) == CASE x.t = "null" -> 0
              [] x.t = "bool" -> 1
              [] x.t = "uint" -> 2
              [] x.t = "int" -> 3
              [] x.t = "real" -> 4
              [] x.t = "double" -> 5
              [] x.t = "string" -> 7
              [] x.t = "enum" -> 9
              [] x.t = "objectid" -> 12
SizeOf(x) == CASE x.t = "null" -> 0
               [] x.t = "bool" -> x.v[1]
               [] x.t \in {"uint", "int", "enum"} -> ValueLength(x.v)
               [] x.t = "string" -> Len(x.v) + 1
               [] OTHER -> 4
DataOf(x) == CASE x.t \in {"null", "bool"} -> <<>>
               [] x.t \in {"uint", "int", "enum"} -> Unsigned(x.v)
               [] x.t = "string" -> <<0>> \o x.v
               [] x.t = "objectid" -> ObjectId(x.v[1], x.v[2])
               [] OTHER -> x.v

\* What is written of a value, and what is read of the bytes behind its tag when
\* s follows them.
Parts(x, s) ==
  /\ TagOf(x) \in 0 .. 12 /\ TagOf(x) \in Byte
  /\ SizeOf(x) \in Nat /\ SizeOf(x) < LongLength /\ DataOf(x) \in Bytes
  /\ AppData(x, FALSE) = Tag(TagOf(x), FALSE, SizeOf(x)) \o DataOf(x)
  /\ AppDataOfTag(Good(DataOf(x) \o s), TagOf(x), SizeOf(x)) =
       [d |-> Good(s), x |-> Received(x), err |-> FALSE]

\* A value whose tag, size and bytes are known has its parts as Parts says.
LEMMA PartsKnown ==
  ASSUME NEW x, NEW id \in 0 .. 12, NEW n \in Nat, n < LongLength, NEW b \in Bytes, NEW s \in Bytes,
         TagOf(x) = id /\ SizeOf(x) = n /\ DataOf(x) = b,
         AppData(x, FALSE) = Tag(id, FALSE, n) \o b,
         AppDataOfTag(Good(b \o s), id, n) = [d |-> Good(s), x |-> Received(x), err |-> FALSE]
  PROVE  Parts(x, s)
<1>1. id \in Byte
  BY TagNumbers
<1> QED
  BY <1>1 DEF Parts

\* An application value is read as it was written, and what follows it is left.
LEMMA ValueParts ==
  ASSUME NEW x \in AppValues, NEW s \in Bytes
  PROVE  Parts(x, s)
<1>0. \A t, v : Received(x) = [t |-> t, v |-> v] =>
         Valued(t, [d |-> Good(s), v |-> v]) = [d |-> Good(s), x |-> Received(x), err |-> FALSE]
  <2>1. Good(s).err = FALSE
    BY DEF Good
  <2> QED
    BY <2>1 DEF Valued
<1> DEFINE Result == [d |-> Good(s), x |-> Received(x), err |-> FALSE]
<1>1. CASE x.t \in {"uint", "int", "enum"}
  <2> DEFINE id == CASE x.t = "enum" -> 9 [] x.t = "uint" -> 2 [] x.t = "int" -> 3
             n == ValueLength(x.v)
             u == Unsigned(x.v)
  <2>1. x.v \in Word
    BY <1>1 DEF AppValues, Null
  <2>2. AppData(x, FALSE) = Tag(id, FALSE, n) \o u
    BY <1>1 DEF AppData
  <2>3. u \in Bytes /\ n \in Nat /\ n < LongLength
    BY <2>1, UnsignedBytes, ShortLengths
  <2>4. id \in 0 .. 12 /\ id \in {2, 3, 9}
    BY <1>1
  <2>5. id \in Byte
    BY <2>4, TagNumbers
  <2>6. DecodeUnsigned(Good(u \o s), n) = [d |-> Good(s), v |-> x.v]
    BY <2>1, UnsignedRead
  <2>7. DecodeSigned(Good(u \o s), n) = [d |-> Good(s), v |-> SignedValue(x.v)]
    BY <2>1, SignedRead
  <2>8. Received(x) = [t |-> IF id = 3 THEN "int" ELSE "uint",
                       v |-> IF id = 3 THEN SignedValue(x.v) ELSE x.v]
    BY <1>1 DEF Received
  <2>p. TagOf(x) = id /\ SizeOf(x) = n /\ DataOf(x) = u
    BY <1>1 DEF TagOf, SizeOf, DataOf
  <2> HIDE DEF id, n, u
  <2>9. AppDataOfTag(Good(u \o s), id, n) = Result
    <3> DEFINE d == Good(u \o s)
    <3>1. CASE id = 2
      <4>1. AppDataOfTag(d, 2, n) = Valued("uint", DecodeUnsigned(d, n))
        BY OfTag
      <4>2. Received(x) = [t |-> "uint", v |-> x.v]
        BY <2>8, <3>1
      <4>3. Valued("uint", [d |-> Good(s), v |-> x.v]) = Result
        BY <1>0, <4>2
      <4> QED
        BY <2>6, <3>1, <4>1, <4>3
    <3>2. CASE id = 3
      <4>1. AppDataOfTag(d, 3, n) = Valued("int", DecodeSigned(d, n))
        BY OfTag
      <4>2. Received(x) = [t |-> "int", v |-> SignedValue(x.v)]
        BY <2>8, <3>2
      <4>3. Valued("int", [d |-> Good(s), v |-> SignedValue(x.v)]) = Result
        BY <1>0, <4>2
      <4> QED
        BY <2>7, <3>2, <4>1, <4>3
    <3>3. CASE id = 9
      <4>1. AppDataOfTag(d, 9, n) = Valued("uint", DecodeUnsigned(d, n))
        BY OfTag
      <4>2. Received(x) = [t |-> "uint", v |-> x.v]
        BY <2>8, <3>3
      <4>3. Valued("uint", [d |-> Good(s), v |-> x.v]) = Result
        BY <1>0, <4>2
      <4> QED
        BY <2>6, <3>3, <4>1, <4>3
    <3> QED
      BY <2>4, <3>1, <3>2, <3>3
  <2> QED
    BY <2>2, <2>3, <2>4, <2>9, <2>p, PartsKnown
<1>2. CASE x.t = "real"
  <2>1. x.v \in Bytes /\ Len(x.v) = 4
    BY <1>2, WordBytes DEF AppValues, Null
  <2>2. Decode(Good(x.v \o s), 4) = [d |-> Good(s), v |-> x.v]
    BY <2>1, ReadFront
  <2>3. AppDataOfTag(Good(x.v \o s), 4, 4) = Valued("real", Decode(Good(x.v \o s), 4))
    BY OfTag
  <2>4. Received(x) = [t |-> "real", v |-> x.v]
    BY <1>2 DEF Received
  <2>5. AppDataOfTag(Good(x.v \o s), 4, 4) = Result
    BY <1>0, <2>2, <2>3, <2>4
  <2>6. AppData(x, FALSE) = Tag(4, FALSE, 4) \o x.v
    BY <1>2 DEF AppData
  <2>7. 4 \in 0 .. 12 /\ 4 \in Nat /\ 4 < LongLength
    BY ShortLengths
  <2>p. TagOf(x) = 4 /\ SizeOf(x) = 4 /\ DataOf(x) = x.v
    BY <1>2 DEF TagOf, SizeOf, DataOf
  <2> QED
    BY <2>1, <2>5, <2>6, <2>7, <2>p, PartsKnown
<1>3. CASE x.t = "double"
  <2>1. x.v \in Bytes /\ Len(x.v) = 8
    <3>1. x.v \in [1 .. 8 -> Byte] /\ 8 \in Nat
      BY <1>3 DEF AppValues, Null
    <3> QED
      BY <3>1, BytesOf
  <2>2. Decode(Good(x.v \o s), 8) = [d |-> Good(s), v |-> x.v]
    BY <2>1, ReadFront
  <2>3. AppDataOfTag(Good(x.v \o s), 5, 4) = Valued("double", Decode(Good(x.v \o s), 8))
    BY OfTag
  <2>4. Received(x) = [t |-> "double", v |-> x.v]
    BY <1>3 DEF Received
  <2>5. AppDataOfTag(Good(x.v \o s), 5, 4) = Result
    BY <1>0, <2>2, <2>3, <2>4
  <2>6. AppData(x, FALSE) = Tag(5, FALSE, 4) \o x.v
    BY <1>3 DEF AppData
  <2>7. 5 \in 0 .. 12 /\ 4 \in Nat /\ 4 < LongLength
    BY ShortLengths
  <2>p. TagOf(x) = 5 /\ SizeOf(x) = 4 /\ DataOf(x) = x.v
    BY <1>3 DEF TagOf, SizeOf, DataOf
  <2> QED
    BY <2>1, <2>5, <2>6, <2>7, <2>p, PartsKnown
<1>4. CASE x.t = "bool"
  <2> DEFINE n == x.v[1]
  <2>1. x.v \in {<<0>>, <<1>>}
    BY <1>4 DEF AppValues, Null
  <2>2. n \in 0 .. 4 /\ x.v = IF n > 0 THEN <<1>> ELSE <<0>>
    BY <2>1
  <2>3. <<>> \in Bytes /\ <<>> \o s = s
    BY EmptySeq, ConcatEmptySeq DEF Bytes
  <2>4. AppDataOfTag(Good(s), 1, n) = Valued("bool", [d |-> Good(s), v |-> IF n > 0 THEN <<1>> ELSE <<0>>])
    BY OfTag
  <2>5. Received(x) = [t |-> "bool", v |-> x.v]
    BY <1>4 DEF Received
  <2>6. AppDataOfTag(Good(<<>> \o s), 1, n) = Result
    BY <1>0, <2>2, <2>3, <2>4, <2>5
  <2>7. 1 \in 0 .. 12 /\ 1 \in Byte /\ n \in Nat /\ n < LongLength
    BY <2>2, TagNumbers, ShortLengths
  <2>8. AppData(x, FALSE) = Tag(1, FALSE, n) \o <<>>
    <3>1. AppData(x, FALSE) = Tag(1, FALSE, n)
      BY <1>4 DEF AppData
    <3>2. Tag(1, FALSE, n) \in Bytes
      BY <2>7, TagRead
    <3> QED
      BY <3>1, <3>2, ConcatEmptySeq DEF Bytes
  <2>p. TagOf(x) = 1 /\ SizeOf(x) = n /\ DataOf(x) = <<>>
    BY <1>4 DEF TagOf, SizeOf, DataOf
  <2> HIDE DEF n
  <2> QED
    BY <2>3, <2>6, <2>7, <2>8, <2>p, PartsKnown
<1>5. CASE x.t = "objectid"
  <2> DEFINE b == ObjectId(x.v[1], x.v[2])
  <2>1. x.v \in (0 .. MaxObject) \X (0 .. MaxInstance)
    BY <1>5 DEF AppValues, Null
  <2>2. /\ x.v[1] \in Nat /\ x.v[1] <= MaxObject /\ x.v[2] \in Nat /\ x.v[2] <= MaxInstance
        /\ x.v = <<x.v[1], x.v[2]>>
    BY <2>1
  <2>3. /\ b \in Bytes
        /\ DecodeObjectId(Good(b \o s)) = [d |-> Good(s), type |-> x.v[1], instance |-> x.v[2]]
    BY <2>2, ObjectIdRead
  <2>4. AppData(x, FALSE) = Tag(12, FALSE, 4) \o b
    BY <1>5 DEF AppData
  <2>p. TagOf(x) = 12 /\ SizeOf(x) = 4 /\ DataOf(x) = b
    BY <1>5 DEF TagOf, SizeOf, DataOf
  <2> HIDE DEF b
  <2>5. AppDataOfTag(Good(b \o s), 12, 4) = Valued("objectid", [d |-> Good(s), v |-> x.v])
    <3> DEFINE d == Good(b \o s)
    <3>1. AppDataOfTag(d, 12, 4) =
            Valued("objectid", [d |-> DecodeObjectId(d).d,
                                v |-> <<DecodeObjectId(d).type, DecodeObjectId(d).instance>>])
      BY OfTag
    <3>2. /\ DecodeObjectId(d).d = Good(s) /\ DecodeObjectId(d).type = x.v[1]
          /\ DecodeObjectId(d).instance = x.v[2]
      BY <2>3
    <3>3. <<DecodeObjectId(d).type, DecodeObjectId(d).instance>> = x.v
      BY <2>2, <3>2
    <3> QED
      BY <3>1, <3>2, <3>3
  <2>6. Received(x) = [t |-> "objectid", v |-> x.v]
    BY <1>5 DEF Received
  <2>7. AppDataOfTag(Good(b \o s), 12, 4) = Result
    BY <1>0, <2>5, <2>6
  <2>8. 12 \in 0 .. 12 /\ 4 \in Nat /\ 4 < LongLength
    BY ShortLengths
  <2> QED
    BY <2>3, <2>4, <2>7, <2>8, <2>p, PartsKnown
<1>6. CASE x.t = "string"
  <2> DEFINE b == <<0>> \o x.v
             n == Len(x.v) + 1
  <2>1. x.v \in Bytes /\ n \in Nat /\ n > 0 /\ n - 1 = Len(x.v) /\ n < LongLength
    BY <1>6 DEF AppValues, Null, Bytes
  <2>2. 0 \in Byte /\ 7 \in Byte
    BY TagNumbers
  <2>3. b \in Bytes
    BY <2>1, <2>2, ByteFirst
  <2>4. Tag(7, FALSE, n) \in Bytes
    BY <2>1, <2>2, <2>3, TagRead
  <2>5. AppData(x, FALSE) = Tag(7, FALSE, n) \o b
    <3>1. AppData(x, FALSE) = (Tag(7, FALSE, n) \o <<0>>) \o x.v
      BY <1>6 DEF AppData
    <3>2. <<0>> \in Bytes
      BY <2>2 DEF Bytes
    <3>3. (Tag(7, FALSE, n) \o <<0>>) \o x.v = Tag(7, FALSE, n) \o (<<0>> \o x.v)
      <4> DEFINE a == Tag(7, FALSE, n)
                 z == <<0>>
                 c == x.v
      <4>1. a \in Bytes /\ z \in Bytes /\ c \in Bytes
        BY <2>1, <2>4, <3>2 DEF Bytes
      <4> HIDE DEF a, z, c
      <4>2. (a \o z) \o c = a \o (z \o c)
        BY <4>1, Append3
      <4> QED
        BY <4>2 DEF a, z, c
    <3> QED
      BY <3>1, <3>3
  <2>6. DecodeString(Good(b \o s), n - 1) = [d |-> Good(s), v |-> x.v, err |-> FALSE]
    BY <2>1, StringRead
  <2>7. Received(x) = [t |-> "string", v |-> x.v]
    BY <1>6 DEF Received
  <2>p. TagOf(x) = 7 /\ SizeOf(x) = n /\ DataOf(x) = b /\ 7 \in 0 .. 12
    BY <1>6 DEF TagOf, SizeOf, DataOf
  <2> HIDE DEF b, n
  <2>8. AppDataOfTag(Good(b \o s), 7, n) =
           [d |-> DecodeString(Good(b \o s), n - 1).d,
            x |-> [t |-> "string", v |-> DecodeString(Good(b \o s), n - 1).v],
            err |-> DecodeString(Good(b \o s), n - 1).err]
    BY <2>1, OfTag
  <2>9. AppDataOfTag(Good(b \o s), 7, n) = Result
    BY <2>6, <2>7, <2>8
  <2> QED
    BY <2>1, <2>3, <2>5, <2>9, <2>p, PartsKnown
<1>7. CASE x = Null
  <2>1. AppData(x, FALSE) = Tag(0, FALSE, 0) /\ Received(x) = Null
    BY <1>7 DEF AppData, Null, Received
  <2>2. <<>> \in Bytes /\ <<>> \o s = s
    BY EmptySeq, ConcatEmptySeq DEF Bytes
  <2>3. AppDataOfTag(Good(<<>> \o s), 0, 0) = Result
    BY <2>1, <2>2, OfTag
  <2>4. 0 \in 0 .. 12 /\ 0 \in Byte /\ 0 \in Nat /\ 0 < LongLength
    BY TagNumbers, ShortLengths
  <2>p. TagOf(x) = 0 /\ SizeOf(x) = 0 /\ DataOf(x) = <<>>
    BY <1>7 DEF TagOf, SizeOf, DataOf, Null
  <2>5. AppData(x, FALSE) = Tag(0, FALSE, 0) \o <<>>
    <3>1. Tag(0, FALSE, 0) \in Bytes
      BY <2>2, <2>4, TagRead
    <3> QED
      BY <2>1, <3>1, ConcatEmptySeq DEF Bytes
  <2> QED
    BY <2>2, <2>3, <2>4, <2>5, <2>p, PartsKnown
<1> QED
  BY <1>1, <1>2, <1>3, <1>4, <1>5, <1>6, <1>7 DEF AppValues

\* Every value is read back from its bytes, with any bytes behind them.
LEMMA ValueRead ==
  ASSUME NEW x \in AppValues, NEW s \in Bytes
  PROVE  /\ AppData(x, FALSE) \in Bytes
         /\ DecodeAppData(Good(AppData(x, FALSE) \o s)) =
              [d |-> Good(s), x |-> Received(x), err |-> FALSE]
<1> DEFINE id == TagOf(x)
           n == SizeOf(x)
           b == DataOf(x)
<1>1. /\ id \in Byte /\ n \in Nat /\ n < LongLength /\ b \in Bytes
      /\ AppData(x, FALSE) = Tag(id, FALSE, n) \o b
      /\ AppDataOfTag(Good(b \o s), id, n) = [d |-> Good(s), x |-> Received(x), err |-> FALSE]
  BY ValueParts DEF Parts
<1> HIDE DEF id, n, b
<1>2. /\ Tag(id, FALSE, n) \o b \in Bytes
      /\ DecodeAppData(Good((Tag(id, FALSE, n) \o b) \o s)) = AppDataOfTag(Good(b \o s), id, n)
  BY <1>1, TaggedRead
<1> QED
  BY <1>1, <1>2

-----------------------------------------------------------------------------
(* Dates and the headers of the three layers.                               *)

\* A date is read as it was written, but for the unspecified year.
LEMMA DateRead ==
  ASSUME NEW dt \in AppDates
  PROVE  DecodeDate(Good(Date(dt)), 4).v =
           <<IF dt[1] = UnspecifiedTime THEN 2245 ELSE dt[1], dt[2], dt[3], dt[4]>>
<1> DEFINE y == (IF dt[1] # UnspecifiedTime THEN dt[1] - EpochYear ELSE dt[1]) % 256
<1>1. /\ dt[1] \in OneOctet /\ dt[2] \in Byte /\ dt[3] \in Byte /\ dt[4] \in Byte
      /\ dt[1] \in Int
  BY DEF AppDates
<1>2. y + EpochYear = IF dt[1] = UnspecifiedTime THEN 2245 ELSE dt[1]
  BY <1>1, SMT DEF OneOctet, UnspecifiedTime, EpochYear
<1> HIDE DEF y
<1> DEFINE b == <<y, dt[2], dt[3], dt[4]>>
<1>3. Date(dt) = b
  <2>1. dt[2] % 256 = dt[2] /\ dt[3] % 256 = dt[3] /\ dt[4] % 256 = dt[4]
    BY <1>1, SMT DEF Byte
  <2> QED
    BY <2>1 DEF Date, y
<1> DEFINE d == Good(b)
           x == Read(d, 4)
<1>4. Len(b) = 4 /\ b # <<>> /\ d.buf = b
  BY DEF Good
<1>5. x.d.err = FALSE /\ x.v = [i \in 1 .. 4 |-> IF i <= Len(b) THEN b[i] ELSE 0]
  <2>1. x.d.err = (d.buf = <<>> /\ 4 > 0)
    BY DEF Read
  <2>2. x.v = [i \in 1 .. 4 |-> IF i <= Len(d.buf) THEN d.buf[i] ELSE 0]
    BY DEF Read
  <2> HIDE DEF b, d, x
  <2> QED
    BY <1>4, <2>1, <2>2
<1>6. x.v[1] = y /\ x.v[2] = dt[2] /\ x.v[3] = dt[3] /\ x.v[4] = dt[4]
  <2>1. x.v[1] = b[1] /\ x.v[2] = b[2] /\ x.v[3] = b[3] /\ x.v[4] = b[4]
    <3> HIDE DEF b, d, x
    <3> QED
      BY <1>4, <1>5, SMT
  <2> QED
    BY <2>1
<1> HIDE DEF d
<1>7. DecodeDate(d, 4).v = <<x.v[1] + EpochYear, x.v[2], x.v[3], x.v[4]>>
  <2> DEFINE z == Read(d, 4)
  <2>1. ~z.d.err
    BY <1>5
  <2> HIDE DEF z
  <2> QED
    BY <2>1, SMT DEF DecodeDate, z
<1> QED
  BY <1>2, <1>3, <1>6, <1>7 DEF d

\* Two bytes, and a number in two bytes, are read one after the other.
LEMMA ReadTwo ==
  ASSUME NEW a \in Byte, NEW b \in Byte, NEW s \in Bytes
  PROVE  /\ <<a, b>> \in Bytes /\ <<b>> \in Bytes /\ <<b>> \o s \in Bytes
         /\ Decode(Good(<<a, b>> \o s), 1) = [d |-> Good(<<b>> \o s), v |-> <<a>>]
<1>1. <<a, b>> \in Bytes /\ <<a>> \in Bytes /\ <<b>> \in Bytes
  BY DEF Bytes
<1>2. <<b>> \o s \in Bytes
  BY <1>1, AppendIn
<1>3. <<a, b>> = <<a>> \o <<b>>
  <2> DEFINE x == <<a>>
             y == <<b>>
             z == <<a, b>>
  <2>1. /\ x \in Seq(Byte) /\ y \in Seq(Byte) /\ z \in Seq(Byte)
        /\ Len(x) = 1 /\ Len(y) = 1 /\ Len(z) = 2 /\ z[1] = x[1] /\ z[2] = y[1]
    OBVIOUS
  <2> HIDE DEF x, y, z
  <2>2. /\ x \o y \in Seq(Byte) /\ Len(x \o y) = 2
        /\ \A i \in 1 .. 1 : (x \o y)[i] = x[i]
        /\ \A i \in 1 .. 1 : (x \o y)[1 + i] = y[i]
    BY <2>1, ConcatProperties
  <2>3. (x \o y)[1] = x[1] /\ (x \o y)[2] = y[1]
    BY <2>2
  <2>4. \A i \in 1 .. Len(z) : z[i] = (x \o y)[i]
    <3>1. z[1] = (x \o y)[1] /\ z[2] = (x \o y)[2]
      BY <2>1, <2>3
    <3>2. \A i \in 1 .. Len(z) : i = 1 \/ i = 2
      BY <2>1
    <3> QED
      BY <3>1, <3>2
  <2>5. z = x \o y
    BY <2>1, <2>2, <2>4, SeqEqual
  <2> QED
    BY <2>5 DEF x, y, z
<1>4. (<<a>> \o <<b>>) \o s = <<a>> \o (<<b>> \o s)
  <2> DEFINE x == <<a>>
             y == <<b>>
  <2>1. x \in Bytes /\ y \in Bytes
    BY <1>1
  <2> HIDE DEF x, y
  <2>2. (x \o y) \o s = x \o (y \o s)
    BY <2>1, Append3
  <2> QED
    BY <2>2 DEF x, y
<1>5. Decode(Good(<<a>> \o (<<b>> \o s)), 1) = [d |-> Good(<<b>> \o s), v |-> <<a>>]
  BY <1>2, ReadByte
<1> QED
  BY <1>1, <1>2, <1>3, <1>4, <1>5

\* The numbers of networks.
LEMMA PortRange == \A n \in Port : n \in Nat /\ n <= 65535
<1> DEFINE m == 65535
<1>1. m \in Nat
  OBVIOUS
<1>2. Port = 0 .. m
  BY DEF Port
<1> HIDE DEF m
<1>3. \A n \in 0 .. m : n \in Nat /\ n <= m
  BY <1>1
<1>4. \A n \in Port : n \in Nat /\ n <= m
  BY <1>2, <1>3
<1> QED
  BY <1>4 DEF m

\* A number in two bytes, in front of others.
LEMMA ReadPort ==
  ASSUME NEW n \in Port, NEW s \in Bytes
  PROVE  /\ Uint16(n) \in Bytes /\ Uint16(n) \o s \in Bytes
         /\ Natural(Uint16(n)) = n
         /\ Decode(Good(Uint16(n) \o s), 2) = [d |-> Good(s), v |-> Uint16(n)]
<1>1. n \in Nat /\ n <= 65535
  BY PortRange
<1>2. Uint16(n) \in Bytes /\ Len(Uint16(n)) = 2 /\ Natural(Uint16(n)) = n
  BY <1>1, Uint16Read
<1> QED
  BY <1>2, AppendIn, ReadFront

\* The error a decoder has.
LEMMA NoError == \A s : Good(s).err = FALSE /\ Good(s).buf = s /\ NewDecoder(s) = Good(s)
  BY DEF Good, NewDecoder

\* The BVLC header is read as it was written.
LEMMA FrameRead ==
  ASSUME NEW b \in [function : Byte, length : Port, data : Seq(Byte)]
  PROVE  LET x == DecodeBVLC(Good(BVLC(b)))
         IN  /\ ~x.err /\ x.type = 129 /\ x.function = b.function
             /\ x.length = b.length
<1> DEFINE f == b.function
           n == Uint16(b.length)
           t == n \o b.data
<1>1. f \in Byte /\ 129 \in Byte /\ b.length \in Port /\ b.data \in Bytes
  BY DEF Byte, Bytes
<1>2. n \in Bytes /\ t \in Bytes /\ Natural(n) = b.length
      /\ Decode(Good(t), 2) = [d |-> Good(b.data), v |-> n]
  BY <1>1, ReadPort
<1>3. <<129, f>> \in Bytes /\ <<f>> \o t \in Bytes
      /\ Decode(Good(<<129, f>> \o t), 1) = [d |-> Good(<<f>> \o t), v |-> <<129>>]
  <2> HIDE DEF t, f
  <2> QED
    BY <1>1, <1>2, ReadTwo
<1>4. Decode(Good(<<f>> \o t), 1) = [d |-> Good(t), v |-> <<f>>]
  <2> HIDE DEF t, f
  <2> QED
    BY <1>1, <1>2, ReadByte
<1>5. BVLC(b) = <<129, f>> \o t
  <2> DEFINE h == <<129, f>>
  <2>1. h \in Bytes
    BY <1>3
  <2> HIDE DEF h, n
  <2>2. (h \o n) \o b.data = h \o (n \o b.data)
    BY <1>1, <1>2, <2>1, Append3
  <2> QED
    BY <2>2 DEF BVLC, h, n
<1> HIDE DEF t, f, n
<1> DEFINE d == Good(<<129, f>> \o t)
           x1 == Decode(d, 1)
           x2 == Decode(x1.d, 1)
           x3 == Decode(x2.d, 2)
<1>6. x1.d = Good(<<f>> \o t) /\ x1.v[1] = 129
  BY <1>3
<1>7. x2.d = Good(t) /\ x2.v[1] = f
  <2> HIDE DEF x1
  <2> QED
    BY <1>4, <1>6
<1>8. x3.d = Good(b.data) /\ x3.v = n
  <2> HIDE DEF x2
  <2> QED
    BY <1>2, <1>7
<1>9. DecodeBVLC(d) = [d |-> x3.d, type |-> x1.v[1], function |-> x2.v[1],
                       length |-> Natural(x3.v), err |-> x3.d.err]
  BY DEF DecodeBVLC
<1>10. Good(b.data).err = FALSE
  BY NoError
<1> HIDE DEF d, x1, x2, x3
<1> QED
  BY <1>2, <1>5, <1>6, <1>7, <1>8, <1>9, <1>10 DEF d, f

\* The first byte of a request or a reply.
HeadByte(type, segmented, more, accepted) ==
  type + Flag(segmented, 8) + Flag(more, 4) + Flag(accepted, 2)

\* Its bits are those it is made of.
LEMMA HeadBits ==
  ASSUME NEW type \in {ConfirmedServiceRequest, ComplexAck},
         NEW segmented \in BOOLEAN, NEW more \in BOOLEAN, NEW accepted \in BOOLEAN
  PROVE  LET b == HeadByte(type, segmented, more, accepted)
         IN  b \in Byte /\ PduType(b) = type /\ Bit(b, 8) = segmented
<1> DEFINE b == HeadByte(type, segmented, more, accepted)
<1>1. type \in {0, 48}
  BY DEF ConfirmedServiceRequest, ComplexAck
<1>2. \E i, j, k \in {0, 1} : /\ b = type + 8 * i + 4 * j + 2 * k
                              /\ segmented = (i = 1)
  <2> DEFINE i == IF segmented THEN 1 ELSE 0
             j == IF more THEN 1 ELSE 0
             k == IF accepted THEN 1 ELSE 0
  <2>1. b = type + 8 * i + 4 * j + 2 * k
    BY <1>1 DEF HeadByte, Flag
  <2>2. i \in {0, 1} /\ j \in {0, 1} /\ k \in {0, 1} /\ segmented = (i = 1)
    OBVIOUS
  <2> QED
    BY <2>1, <2>2
<1>3. PICK i, j, k \in {0, 1} : b = type + 8 * i + 4 * j + 2 * k /\ segmented = (i = 1)
  BY <1>2
<1> HIDE DEF b
<1>4. b \in 0 .. 255 /\ b - (b % 16) = type /\ (b \div 8) % 2 = i
  BY <1>1, <1>3, SMT
<1> QED
  BY <1>3, <1>4 DEF b, Byte, Bit, PduType

\* The rest of a packet, to its end.
LEMMA ReadAll ==
  ASSUME NEW s \in Bytes
  PROVE  Remainder(Good(s)) = [d |-> Good(<<>>), v |-> s]
<1>1. <<>> \in Bytes /\ s \o <<>> = s
  BY EmptySeq, ConcatEmptySeq DEF Bytes
<1>2. Decode(Good(s), Len(s)) = [d |-> Good(<<>>), v |-> s]
  BY <1>1, ReadFront
<1>3. Good(s).buf = s
  BY NoError
<1> QED
  BY <1>2, <1>3 DEF Remainder

\* The head that is read, byte by byte.
LEMMA HeadForm ==
  ASSUME NEW d
  PROVE  LET x1 == Decode(d, 1)
             x2 == Decode(x1.d, 1)
             x3 == Decode(x2.d, 1)
             x4 == DecodeIf(x3.d, Bit(x1.v[1], 8), 2)
             h == ReadHead(d)
         IN  /\ h.meta = x1.v[1] /\ h.first = x2 /\ h.second = x3
             /\ h.service = Decode(x4.d, 1)
  BY DEF ReadHead

\* What is read of a request, by its head.
LEMMA RequestForm ==
  ASSUME NEW d
  PROVE  LET h == ReadHead(d)
             x == DecodeAPDU(d)
             y == Remainder(h.service.d)
             z == Remainder(h.first.d)
         IN  /\ PduType(h.meta) = ConfirmedServiceRequest =>
                  /\ x.err = y.d.err /\ x.type = ConfirmedServiceRequest
                  /\ x.segmented = Bit(h.meta, 8)
                  /\ x.id = h.second.v[1] /\ x.service = h.service.v[1]
                  /\ x.sizes = h.first.v[1] /\ x.raw = y.v
             /\ PduType(h.meta) = UnconfirmedServiceRequest =>
                  /\ x.err = z.d.err /\ x.type = UnconfirmedServiceRequest
                  /\ x.service = h.first.v[1] /\ x.raw = z.v
<1> DEFINE h == ReadHead(d)
           x == DecodeAPDU(d)
           y == Remainder(h.service.d)
           z == Remainder(h.first.d)
<1> USE DEF ConfirmedServiceRequest, ComplexAck, UnconfirmedServiceRequest, SimpleAck,
            Reject, Abort, ErrorPDU
<1>1. ASSUME PduType(h.meta) = ConfirmedServiceRequest
      PROVE  x = [d |-> y.d, type |-> PduType(h.meta), segmented |-> Bit(h.meta, 8),
                  id |-> h.second.v[1], service |-> h.service.v[1], sizes |-> h.first.v[1],
                  class |-> 0, code |-> Zeros(4),
                  fromServer |-> PduType(h.meta) = Abort /\ Bit(h.meta, 1),
                  raw |-> y.v, err |-> y.d.err]
  BY <1>1, SMT DEF DecodeAPDU, AfterHead
<1>2. ASSUME PduType(h.meta) = UnconfirmedServiceRequest
      PROVE  x = [d |-> z.d, type |-> PduType(h.meta), segmented |-> Bit(h.meta, 8),
                  id |-> 0, service |-> h.first.v[1], sizes |-> h.first.v[1],
                  class |-> 0, code |-> Zeros(4),
                  fromServer |-> PduType(h.meta) = Abort /\ Bit(h.meta, 1),
                  raw |-> z.v, err |-> z.d.err]
  BY <1>2, SMT DEF DecodeAPDU, AfterHead
<1> HIDE DEF x, y, z, h
<1>3. ASSUME PduType(h.meta) = ConfirmedServiceRequest
      PROVE  /\ x.err = y.d.err /\ x.type = ConfirmedServiceRequest
             /\ x.segmented = Bit(h.meta, 8)
             /\ x.id = h.second.v[1] /\ x.service = h.service.v[1]
             /\ x.sizes = h.first.v[1] /\ x.raw = y.v
  BY <1>1, <1>3
<1>4. ASSUME PduType(h.meta) = UnconfirmedServiceRequest
      PROVE  /\ x.err = z.d.err /\ x.type = UnconfirmedServiceRequest
             /\ x.service = h.first.v[1] /\ x.raw = z.v
  BY <1>2, <1>4
<1> QED
  BY <1>3, <1>4 DEF x, y, z, h

\* What is read of a confirmed request.
LEMMA ConfirmedForm ==
  ASSUME NEW d,
         PduType(Decode(d, 1).v[1]) = ConfirmedServiceRequest
  PROVE  LET x1 == Decode(d, 1)
             x2 == Decode(x1.d, 1)
             x3 == Decode(x2.d, 1)
             x4 == DecodeIf(x3.d, Bit(x1.v[1], 8), 2)
             x5 == Decode(x4.d, 1)
             x6 == Remainder(x5.d)
             x == DecodeAPDU(d)
         IN  /\ x6.d.err = FALSE => x.err = FALSE
             /\ x.type = ConfirmedServiceRequest
             /\ x.segmented = Bit(x1.v[1], 8)
             /\ x.id = x3.v[1] /\ x.service = x5.v[1]
             /\ x.sizes = x2.v[1] /\ x.raw = x6.v
<1> DEFINE x1 == Decode(d, 1)
           x2 == Decode(x1.d, 1)
           x3 == Decode(x2.d, 1)
           x4 == DecodeIf(x3.d, Bit(x1.v[1], 8), 2)
           x5 == Decode(x4.d, 1)
           x6 == Remainder(x5.d)
           x == DecodeAPDU(d)
           h == ReadHead(d)
<1>1. h.meta = x1.v[1] /\ h.first = x2 /\ h.second = x3 /\ h.service = x5
  BY HeadForm
<1>2. PduType(h.meta) = ConfirmedServiceRequest =>
        /\ x.err = Remainder(h.service.d).d.err /\ x.type = ConfirmedServiceRequest
        /\ x.segmented = Bit(h.meta, 8)
        /\ x.id = h.second.v[1] /\ x.service = h.service.v[1]
        /\ x.sizes = h.first.v[1] /\ x.raw = Remainder(h.service.d).v
  BY RequestForm
<1>3. PduType(x1.v[1]) = ConfirmedServiceRequest
  OBVIOUS
<1>4. x6 = Remainder(x5.d)
  OBVIOUS
<1> HIDE DEF x1, x2, x3, x4, x5, x6, x, h
<1>5. /\ x.err = x6.d.err /\ x.type = ConfirmedServiceRequest
      /\ x.segmented = Bit(x1.v[1], 8)
      /\ x.id = x3.v[1] /\ x.service = x5.v[1]
      /\ x.sizes = x2.v[1] /\ x.raw = x6.v
  BY <1>1, <1>2, <1>3, <1>4
<1> QED
  BY <1>5 DEF x1, x2, x3, x4, x5, x6, x

\* The head of a confirmed request; the rest is its raw data.
LEMMA RequestRead ==
  ASSUME NEW a, NEW s \in Bytes,
         a.type = ConfirmedServiceRequest,
         a.segmented \in BOOLEAN, a.moreFollows \in BOOLEAN, a.segmentedAccepted \in BOOLEAN,
         MaxSegsMaxApdu(a.maxSegs, a.maxApdu) \in Byte, a.id \in Byte, a.service \in Byte,
         a.segmented => a.sequence \in Byte /\ a.window \in Byte
  PROVE  /\ APDU(a) \in Bytes
         /\ LET x == DecodeAPDU(Good(APDU(a) \o s))
            IN  /\ x.err = FALSE /\ x.type = ConfirmedServiceRequest
                /\ x.segmented = a.segmented /\ x.id = a.id /\ x.service = a.service
                /\ x.sizes = MaxSegsMaxApdu(a.maxSegs, a.maxApdu)
                /\ x.raw = s
         /\ LET g == ReadHead(Good(APDU(a) \o s))
            IN  PduType(g.meta) = ConfirmedServiceRequest /\ g.service.d = Good(s)
<1> DEFINE h == HeadByte(a.type, a.segmented, a.moreFollows, a.segmentedAccepted)
           z == MaxSegsMaxApdu(a.maxSegs, a.maxApdu)
           w == IF a.segmented THEN <<a.sequence, a.window>> ELSE <<>>
           p == <<z, a.id>>
           q == <<a.service>>
           u == q \o s
           t == w \o u
<1>1. h \in Byte /\ PduType(h) = ConfirmedServiceRequest /\ Bit(h, 8) = a.segmented
  BY HeadBits
<1>2. w \in Bytes /\ (a.segmented => Len(w) = 2) /\ (~a.segmented => w = <<>>)
  BY DEF Bytes
<1>3. p \in Bytes /\ q \in Bytes /\ u \in Bytes
  BY AppendIn DEF Bytes
<1>4. t \in Bytes /\ p \o t \in Bytes
  <2> HIDE DEF p, u, w
  <2> QED
    BY <1>2, <1>3, AppendIn
<1>5. (p \o w) \o q \in Bytes /\ ((p \o w) \o q) \o s = p \o t
  <2> HIDE DEF p, q, w
  <2>1. (p \o w) \o q \in Bytes
    BY <1>2, <1>3, AppendIn
  <2>2. ((p \o w) \o q) \o s = p \o (w \o (q \o s))
    <3> DEFINE front == p \o w
               u2 == q \o s
    <3>1. front \in Bytes /\ u2 \in Bytes
      BY <1>2, <1>3, AppendIn
    <3>2. (front \o q) \o s = front \o u2
      <4> HIDE DEF front
      <4> QED
        BY <1>3, <3>1, Append3
    <3>3. (p \o w) \o u2 = p \o (w \o u2)
      <4> HIDE DEF u2
      <4> QED
        BY <1>2, <1>3, <3>1, Append3
    <3> QED
      BY <3>2, <3>3
  <2> QED
    BY <2>1, <2>2
<1>6. APDU(a) = <<h>> \o ((p \o w) \o q)
  BY SMT DEF APDU, ConfirmedServiceRequest, ComplexAck, UnconfirmedServiceRequest, HeadByte
<1>7. APDU(a) \in Bytes /\ APDU(a) \o s = <<h>> \o (p \o t)
  <2> DEFINE front == (p \o w) \o q
  <2>1. front \in Bytes /\ front \o s = p \o t /\ APDU(a) = <<h>> \o front
    BY <1>5, <1>6
  <2> HIDE DEF front, h
  <2>2. <<h>> \o front \in Bytes /\ (<<h>> \o front) \o s = <<h>> \o (front \o s)
    BY <1>1, <2>1, ByteFirst
  <2> HIDE DEF p, t
  <2> QED
    BY <2>1, <2>2
<1> DEFINE d == Good(<<h>> \o (p \o t))
           x1 == Decode(d, 1)
           x2 == Decode(x1.d, 1)
           x3 == Decode(x2.d, 1)
           x4 == DecodeIf(x3.d, Bit(x1.v[1], 8), 2)
           x5 == Decode(x4.d, 1)
           x6 == Remainder(x5.d)
<1>8. x1.d = Good(p \o t) /\ x1.v[1] = h
  <2>1. x1 = [d |-> Good(p \o t), v |-> <<h>>]
    <3> HIDE DEF p, t, h
    <3> QED
      BY <1>1, <1>4, ReadByte
  <2> QED
    BY <2>1
<1>9. /\ x2.d = Good(<<a.id>> \o t) /\ x2.v[1] = z
      /\ x3.d = Good(t) /\ x3.v[1] = a.id
  <2>1. Decode(Good(p \o t), 1) = [d |-> Good(<<a.id>> \o t), v |-> <<z>>]
    <3>1. z \in Byte
      OBVIOUS
    <3> HIDE DEF t, z
    <3> QED
      BY <1>4, <3>1, ReadTwo
  <2>2. Decode(Good(<<a.id>> \o t), 1) = [d |-> Good(t), v |-> <<a.id>>]
    <3> HIDE DEF t
    <3> QED
      BY <1>4, ReadByte
  <2> HIDE DEF x1, z
  <2>3. x2.d = Good(<<a.id>> \o t) /\ x2.v[1] = z
    BY <1>8, <2>1
  <2> HIDE DEF x2
  <2>4. x3.d = Good(t) /\ x3.v[1] = a.id
    BY <2>2, <2>3
  <2> QED
    BY <2>3, <2>4
<1>10. x4.d = Good(u)
  <2>0. Bit(x1.v[1], 8) = a.segmented
    BY <1>1, <1>8
  <2> HIDE DEF x1, x3, u
  <2>1. CASE a.segmented
    <3>1. Decode(Good(w \o u), 2) = [d |-> Good(u), v |-> w]
      <4> HIDE DEF w
      <4> QED
        BY <1>2, <1>3, <2>1, ReadFront
    <3>2. x4 = Decode(Good(w \o u), 2)
      BY <1>9, <2>0, <2>1 DEF DecodeIf
    <3> QED
      BY <3>1, <3>2
  <2>2. CASE ~a.segmented
    <3>1. w \o u = u
      BY <1>2, <1>3, <2>2, ConcatEmptySeq DEF Bytes
    <3> QED
      BY <1>9, <2>0, <2>2, <3>1 DEF DecodeIf
  <2> QED
    BY <2>1, <2>2
<1>11. x5.d = Good(s) /\ x5.v[1] = a.service
  <2>1. Decode(Good(u), 1) = [d |-> Good(s), v |-> <<a.service>>]
    BY ReadByte
  <2> HIDE DEF x4
  <2> QED
    BY <1>10, <2>1
<1>12. x6.d = Good(<<>>) /\ x6.v = s
  <2> HIDE DEF x5
  <2> QED
    BY <1>11, ReadAll
<1>13. x6.d.err = FALSE
  <2> HIDE DEF x6
  <2> QED
    BY <1>12, NoError
<1> HIDE DEF d, h, p, t, w, u, z, x1, x2, x3, x4, x5, x6
<1>14. PduType(x1.v[1]) = ConfirmedServiceRequest /\ Bit(x1.v[1], 8) = a.segmented
  BY <1>1, <1>8
<1>15. LET x == DecodeAPDU(d)
       IN  /\ x6.d.err = FALSE => x.err = FALSE
           /\ x.type = ConfirmedServiceRequest
           /\ x.segmented = Bit(x1.v[1], 8)
           /\ x.id = x3.v[1] /\ x.service = x5.v[1]
           /\ x.sizes = x2.v[1] /\ x.raw = x6.v
  BY <1>14, ConfirmedForm DEF x2, x3, x4, x5, x6, x1
<1>16. ReadHead(d).meta = x1.v[1] /\ ReadHead(d).service = x5
  BY HeadForm DEF x1, x2, x3, x4, x5
<1>17. PduType(ReadHead(d).meta) = ConfirmedServiceRequest /\ ReadHead(d).service.d = Good(s)
  BY <1>11, <1>14, <1>16
<1> QED
  BY <1>7, <1>9, <1>11, <1>12, <1>13, <1>14, <1>15, <1>17 DEF d, z

\* The sizes of a request: at least the packet that was said, and the largest
\* number of segments that is told and no more than was said.
LEMMA SizesRead ==
  ASSUME NEW maxSegs \in Nat, NEW maxApdu \in 0 .. MaxAPDU
  PROVE  LET b == MaxSegsMaxApdu(maxSegs, maxApdu)
             segs == DecodeMaxSegs(b)
         IN  /\ b \in Byte
             /\ DecodeMaxApdu(b) >= maxApdu
             /\ maxSegs > 0 => segs <= maxSegs /\ (2 * segs > maxSegs \/ segs = 65)
<1> DEFINE Told(i) == /\ i = 0 \/ SegmentCounts[i + 1] <= maxSegs
                      /\ i = 6 \/ maxSegs < SegmentCounts[i + 2]
           fits == {i \in 1 .. 6 : maxApdu <= ApduSizes[i]}
           Least(i) == \A j \in fits : i <= j
           s == IF maxSegs > 64 THEN 7 ELSE CHOOSE i \in 0 .. 6 : Told(i)
           a == CHOOSE i \in fits : Least(i)
           b == MaxSegsMaxApdu(maxSegs, maxApdu)
<1>1. /\ SegmentCounts[1] = 1 /\ SegmentCounts[2] = 2 /\ SegmentCounts[3] = 4
      /\ SegmentCounts[4] = 8 /\ SegmentCounts[5] = 16 /\ SegmentCounts[6] = 32
      /\ SegmentCounts[7] = 64
  BY DEF SegmentCounts
<1>2. /\ ApduSizes[1] = 50 /\ ApduSizes[2] = 128 /\ ApduSizes[3] = 206
      /\ ApduSizes[4] = 480 /\ ApduSizes[5] = 1024 /\ ApduSizes[6] = 1476
  BY DEF ApduSizes
<1>3. maxSegs <= 64 => s \in 0 .. 6 /\ Told(s)
  <2>1. ASSUME maxSegs <= 64 PROVE \E i \in 0 .. 6 : Told(i)
    <3>1. CASE maxSegs < 2
      <4>1. Told(0)
        BY <1>1, <3>1
      <4> QED
        BY <4>1
    <3>2. CASE maxSegs >= 2 /\ maxSegs < 4
      <4>1. Told(1)
        BY <1>1, <3>2
      <4> QED
        BY <4>1
    <3>3. CASE maxSegs >= 4 /\ maxSegs < 8
      <4>1. Told(2)
        BY <1>1, <3>3
      <4> QED
        BY <4>1
    <3>4. CASE maxSegs >= 8 /\ maxSegs < 16
      <4>1. Told(3)
        BY <1>1, <3>4
      <4> QED
        BY <4>1
    <3>5. CASE maxSegs >= 16 /\ maxSegs < 32
      <4>1. Told(4)
        BY <1>1, <3>5
      <4> QED
        BY <4>1
    <3>6. CASE maxSegs >= 32 /\ maxSegs < 64
      <4>1. Told(5)
        BY <1>1, <3>6
      <4> QED
        BY <4>1
    <3>7. CASE maxSegs = 64
      <4>1. Told(6)
        BY <1>1, <3>7
      <4> QED
        BY <4>1
    <3> QED
      BY <2>1, <3>1, <3>2, <3>3, <3>4, <3>5, <3>6, <3>7
  <2> HIDE DEF Told
  <2> QED
    BY <2>1
<1>4. a \in 1 .. 6 /\ maxApdu <= ApduSizes[a]
  <2>1. maxApdu \in Int /\ maxApdu <= 1476
    BY DEF MaxAPDU
  <2>2. \E i \in fits : Least(i)
    <3>1. \A i \in 1 .. 6 : maxApdu <= ApduSizes[i] /\ (\A j \in 1 .. 6 : j < i => maxApdu > ApduSizes[j])
                => i \in fits /\ Least(i)
      BY <1>2, <2>1
    <3>2. \E i \in 1 .. 6 : maxApdu <= ApduSizes[i] /\ (\A j \in 1 .. 6 : j < i => maxApdu > ApduSizes[j])
      BY <1>2, <2>1, SMT
    <3> QED
      BY <3>1, <3>2
  <2>3. a \in fits
    <3> HIDE DEF fits
    <3> QED
      BY <2>2
  <2> QED
    BY <2>3
<1>5. b = 16 * s + (a - 1)
  <2>1. fits # {}
    BY <1>2 DEF MaxAPDU
  <2> QED
    BY <2>1 DEF MaxSegsMaxApdu
<1>6. s \in 0 .. 7 /\ (maxSegs > 64 => s = 7)
  BY <1>3
<1> HIDE DEF s, a, fits, b
<1>7. b \in 0 .. 255 /\ b \div 16 = s /\ b % 16 = a - 1
  BY <1>4, <1>5, <1>6, SMT
<1>8. DecodeMaxApdu(b) = ApduSizes[a]
  BY <1>4, <1>7 DEF DecodeMaxApdu
<1>9. DecodeMaxApdu(b) >= maxApdu
  BY <1>2, <1>4, <1>8
<1>10. maxSegs > 0 => DecodeMaxSegs(b) <= maxSegs /\ (2 * DecodeMaxSegs(b) > maxSegs \/ DecodeMaxSegs(b) = 65)
  <2>1. CASE maxSegs > 64
    BY <1>6, <1>7, <2>1 DEF DecodeMaxSegs
  <2>2. CASE maxSegs <= 64
    <3>1. s \in 0 .. 6 /\ Told(s)
      BY <1>3, <2>2
    <3>2. DecodeMaxSegs(b) = SegmentCounts[s + 1]
      BY <1>7, <3>1 DEF DecodeMaxSegs
    <3> QED
      BY <1>1, <2>2, <3>1, <3>2, SMT
  <2> QED
    BY <2>1, <2>2
<1> QED
  BY <1>7, <1>9, <1>10 DEF b, Byte

\* An address, or none, between what is read before and after it.
Seen(a) == IF a.net = 0 THEN NoAddress ELSE a
AddressPart(a) == IF a.net # 0 THEN AddressBytes(a) ELSE <<>>

\* It is read back, and what follows it is left.
LEMMA AddressRead ==
  ASSUME NEW a \in Addresses, NEW s \in Bytes
  PROVE  /\ AddressPart(a) \in Bytes
         /\ DecodeAddress(Good(AddressPart(a) \o s), a.net # 0) = [d |-> Good(s), a |-> Seen(a)]
<1>1. CASE a.net = 0
  <2>1. <<>> \in Bytes /\ <<>> \o s = s
    BY EmptySeq, ConcatEmptySeq DEF Bytes
  <2> QED
    BY <1>1, <2>1 DEF AddressPart, DecodeAddress, Seen
<1>2. CASE a.net # 0
  <2> DEFINE n == Uint16(a.net)
             l == <<a.len>>
             t == a.adr \o s
             u == l \o t
             x1 == Decode(Good(n \o u), 2)
             x2 == Decode(x1.d, 1)
             x3 == Decode(x2.d, x2.v[1])
  <2>1. /\ a.net \in Port /\ a.len \in Byte /\ a.adr \in Bytes /\ Len(a.adr) = a.len
        /\ a = [net |-> a.net, len |-> a.len, adr |-> a.adr, absent |-> FALSE]
    <3>0. NoAddress.net = 0
      BY DEF NoAddress
    <3>1. a \in [net : Port, len : Byte, adr : Seq(Byte), absent : {FALSE}] /\ Len(a.adr) = a.len
      BY <1>2, <3>0 DEF Addresses
    <3> QED
      BY <3>1 DEF Bytes
  <2>2. n \in Bytes /\ l \in Bytes /\ t \in Bytes /\ u \in Bytes /\ Natural(n) = a.net
    <3>1. n \in Bytes /\ Natural(n) = a.net
      BY <2>1, ReadPort
    <3>2. l \in Bytes
      BY <2>1 DEF Bytes
    <3>3. t \in Bytes
      BY <2>1, AppendIn
    <3>4. u \in Bytes
      <4> HIDE DEF l, t
      <4> QED
        BY <3>2, <3>3, AppendIn
    <3> QED
      BY <3>1, <3>2, <3>3, <3>4
  <2>3. x1 = [d |-> Good(u), v |-> n]
    <3> HIDE DEF u
    <3> QED
      BY <2>1, <2>2, ReadPort
  <2>4. Decode(Good(u), 1) = [d |-> Good(t), v |-> l]
    <3> HIDE DEF t
    <3> QED
      BY <2>1, <2>2, ReadByte
  <2>5. Decode(Good(t), a.len) = [d |-> Good(s), v |-> a.adr]
    BY <2>1, ReadFront
  <2>6. x2 = [d |-> Good(t), v |-> l] /\ x2.v[1] = a.len
    <3>1. x2 = [d |-> Good(t), v |-> l]
      <4> HIDE DEF x1, t, l, u
      <4> QED
        BY <2>3, <2>4
    <3> HIDE DEF x2
    <3> QED
      BY <3>1
  <2>7. x3 = [d |-> Good(s), v |-> a.adr]
    <3> HIDE DEF x2, t
    <3> QED
      BY <2>5, <2>6
  <2>8. DecodeAddress(Good(n \o u), TRUE) = [d |-> x3.d, a |-> Addr(Natural(x1.v), x2.v[1], x3.v)]
    BY DEF DecodeAddress
  <2>9. AddressBytes(a) = (n \o l) \o a.adr
    BY DEF AddressBytes
  <2>10. AddressBytes(a) \in Bytes /\ AddressBytes(a) \o s = n \o u
    <3> HIDE DEF n, l
    <3>1. (n \o l) \o a.adr \in Bytes
      BY <2>1, <2>2, AppendIn
    <3>2. ((n \o l) \o a.adr) \o s = n \o (l \o (a.adr \o s))
      <4> DEFINE p == n \o l
      <4>1. p \in Bytes
        BY <2>2, AppendIn
      <4>2. (p \o a.adr) \o s = p \o (a.adr \o s)
        <5> HIDE DEF p
        <5> QED
          BY <2>1, <4>1, Append3
      <4>3. (n \o l) \o t = n \o (l \o t)
        <5> HIDE DEF t
        <5> QED
          BY <2>2, Append3
      <4> QED
        BY <4>2, <4>3
    <3> QED
      BY <2>9, <3>1, <3>2
  <2> HIDE DEF n, l, t, u, x1, x2, x3
  <2>11. DecodeAddress(Good(n \o u), TRUE) = [d |-> Good(s), a |-> Addr(a.net, a.len, a.adr)]
    BY <2>2, <2>3, <2>6, <2>7, <2>8
  <2>12. Addr(a.net, a.len, a.adr) = a
    BY <2>1 DEF Addr
  <2>13. AddressPart(a) = AddressBytes(a) /\ Seen(a) = a /\ (a.net # 0) = TRUE
    BY <1>2 DEF AddressPart, Seen
  <2> QED
    BY <2>10, <2>11, <2>12, <2>13
<1> QED
  BY <1>1, <1>2

\* A byte that is there or not.
LEMMA MaybeRead ==
  ASSUME NEW b \in Byte, NEW on \in BOOLEAN, NEW s \in Bytes
  PROVE  /\ (IF on THEN <<b>> ELSE <<>>) \in Bytes
         /\ (IF on THEN <<b>> ELSE <<>>) \o s \in Bytes
         /\ DecodeIf(Good((IF on THEN <<b>> ELSE <<>>) \o s), on, 1).d = Good(s)
         /\ DecodeIf(Good((IF on THEN <<b>> ELSE <<>>) \o s), on, 1).v[1] = IF on THEN b ELSE 0
<1>1. CASE on
  <2>1. <<b>> \in Bytes
    BY DEF Bytes
  <2>2. <<b>> \o s \in Bytes
    BY <2>1, AppendIn
  <2>3. Decode(Good(<<b>> \o s), 1) = [d |-> Good(s), v |-> <<b>>]
    BY ReadByte
  <2> QED
    BY <1>1, <2>1, <2>2, <2>3 DEF DecodeIf
<1>2. CASE ~on
  <2>1. <<>> \in Bytes /\ <<>> \o s = s
    BY EmptySeq, ConcatEmptySeq DEF Bytes
  <2>2. Zeros(1)[1] = 0
    BY DEF Zeros
  <2> QED
    BY <1>2, <2>1, <2>2 DEF DecodeIf
<1> QED
  BY <1>1, <1>2

\* The second byte of a network header.
ControlByte(x) ==
  Flag(x.network, 128) + Flag(x.destination.net # 0, 32) + Flag(x.source.net # 0, 8) +
  Flag(x.expecting, 4) + x.priority

\* Its bits tell what the header has.
LEMMA ControlBits ==
  ASSUME NEW x \in AppHeaders
  PROVE  LET b == ControlByte(x)
         IN  /\ b \in Byte /\ Bit(b, 128) = x.network /\ Bit(b, 32) = (x.destination.net # 0)
             /\ Bit(b, 8) = (x.source.net # 0) /\ Bit(b, 4) = x.expecting
             /\ b % 4 = x.priority
<1> DEFINE b == ControlByte(x)
           m == IF x.network THEN 1 ELSE 0
           i == IF x.destination.net # 0 THEN 1 ELSE 0
           j == IF x.source.net # 0 THEN 1 ELSE 0
           k == IF x.expecting THEN 1 ELSE 0
           p == x.priority
<1>1. p \in 0 .. 3 /\ x.network \in BOOLEAN /\ x.expecting \in BOOLEAN
  BY DEF AppHeaders
<1>2. b = 128 * m + 32 * i + 8 * j + 4 * k + p
  BY <1>1 DEF ControlByte, Flag
<1>3. m \in {0, 1} /\ i \in {0, 1} /\ j \in {0, 1} /\ k \in {0, 1}
  OBVIOUS
<1>4. /\ x.network = (m = 1) /\ (x.destination.net # 0) = (i = 1)
      /\ (x.source.net # 0) = (j = 1) /\ x.expecting = (k = 1)
  BY <1>1
<1> HIDE DEF b, m, i, j, k, p
<1>5. /\ b \in 0 .. 255 /\ (b \div 128) % 2 = m /\ (b \div 32) % 2 = i
      /\ (b \div 8) % 2 = j /\ (b \div 4) % 2 = k /\ b % 4 = p
  BY <1>1, <1>2, <1>3, SMT
<1> QED
  BY <1>4, <1>5 DEF b, p, Byte, Bit

\* What is read of a network header.
LEMMA HeaderForm ==
  ASSUME NEW d
  PROVE  LET h == ReadHeader(d)
             number == Decode(h.d, 2)
             z == DecodeNetworks(h.d)
             x == DecodeNPDU(d)
         IN  /\ Bit(h.meta, 128) /\ h.type = NetworkIs =>
                  /\ number.d.err = FALSE => x.err = FALSE
                  /\ number.d.err = TRUE => x.err = TRUE
                  /\ x.npdu.source.net = Natural(number.v)
             /\ Bit(h.meta, 128) /\ h.type = IamRouterToNetwork =>
                  /\ z.d.err = FALSE => x.err = FALSE
                  /\ z.d.err = TRUE => x.err = TRUE
                  /\ x.nets = z.nets
             /\ ~(Bit(h.meta, 128) /\ (h.type = NetworkIs \/ h.type = IamRouterToNetwork)) =>
                  /\ h.d.err = FALSE => x.err = FALSE
                  /\ x.npdu = Header(h, h.source)
<1> DEFINE h == ReadHeader(d)
           number == Decode(h.d, 2)
           z == DecodeNetworks(h.d)
           x == DecodeNPDU(d)
<1>0. NetworkIs = 19 /\ IamRouterToNetwork = 1
  BY DEF NetworkIs, IamRouterToNetwork
<1>1. ASSUME Bit(h.meta, 128), h.type = NetworkIs
      PROVE  /\ number.d.err = FALSE => x.err = FALSE
             /\ number.d.err = TRUE => x.err = TRUE
             /\ x.npdu.source.net = Natural(number.v)
  <2>1. number.d.err = FALSE => x.err = FALSE
    BY <1>0, <1>1, SMTT(60) DEF DecodeNPDU, AfterHeader
  <2>2. number.d.err = TRUE => x.err = TRUE
    BY <1>0, <1>1, SMTT(60) DEF DecodeNPDU, AfterHeader
  <2>3. x.npdu = Header(h, Addr(Natural(number.v), 0, <<>>))
    BY <1>0, <1>1, SMTT(60) DEF DecodeNPDU, AfterHeader
  <2>4. x.npdu.source.net = Natural(number.v)
    <3> HIDE DEF x, number, h
    <3> QED
      BY <2>3 DEF Addr, Header
  <2> HIDE DEF h, number, z, x
  <2> QED
    BY <2>1, <2>2, <2>4
<1>2. ASSUME Bit(h.meta, 128), h.type = IamRouterToNetwork
      PROVE  /\ z.d.err = FALSE => x.err = FALSE
             /\ z.d.err = TRUE => x.err = TRUE
             /\ x.nets = z.nets
  <2>1. z.d.err = FALSE => x.err = FALSE
    BY <1>0, <1>2, SMTT(60) DEF DecodeNPDU, AfterHeader
  <2>2. z.d.err = TRUE => x.err = TRUE
    BY <1>0, <1>2, SMTT(60) DEF DecodeNPDU, AfterHeader
  <2>3. x.nets = z.nets
    BY <1>0, <1>2, SMTT(60) DEF DecodeNPDU, AfterHeader
  <2> HIDE DEF h, number, z, x
  <2> QED
    BY <2>1, <2>2, <2>3
<1>3. ASSUME ~(Bit(h.meta, 128) /\ (h.type = NetworkIs \/ h.type = IamRouterToNetwork))
      PROVE  /\ h.d.err = FALSE => x.err = FALSE
             /\ x.npdu = Header(h, h.source)
  <2>1. h.d.err = FALSE => x.err = FALSE
    BY <1>0, <1>3, SMTT(60) DEF DecodeNPDU, AfterHeader
  <2>2. x.npdu = Header(h, h.source)
    BY <1>0, <1>3, SMTT(60) DEF DecodeNPDU, AfterHeader
  <2> HIDE DEF h, number, z, x
  <2> QED
    BY <2>1, <2>2
<1> HIDE DEF h, number, z, x
<1> QED
  BY <1>1, <1>2, <1>3 DEF h, number, z, x

\* Six parts one after another.
Six(a, b, c, d, e, f) == ((((a \o b) \o c) \o d) \o e) \o f
Joined(a, b, c, d, e, f, g) == Six(a, b, c, d, e, f) \o g
Nested(a, b, c, d, e, f, g) == a \o (b \o (c \o (d \o (e \o (f \o g)))))

\* The parts of a header may be read from the first on.
LEMMA SixNested ==
  \A a, b, c, d, e, f, g :
     /\ a \in Bytes /\ b \in Bytes /\ c \in Bytes /\ d \in Bytes
     /\ e \in Bytes /\ f \in Bytes /\ g \in Bytes
     => /\ Six(a, b, c, d, e, f) \in Bytes
        /\ Joined(a, b, c, d, e, f, g) = Nested(a, b, c, d, e, f, g)
<1> TAKE a, b, c, d, e, f, g
<1> HAVE /\ a \in Bytes /\ b \in Bytes /\ c \in Bytes /\ d \in Bytes
         /\ e \in Bytes /\ f \in Bytes /\ g \in Bytes
<1> DEFINE p2 == a \o b
           p3 == p2 \o c
           p4 == p3 \o d
           p5 == p4 \o e
           q6 == f \o g
           q5 == e \o q6
           q4 == d \o q5
           q3 == c \o q4
<1>1. p2 \in Bytes /\ p3 \in Bytes
  <2>1. p2 \in Bytes
    BY AppendIn
  <2> HIDE DEF p2
  <2> QED
    BY <2>1, AppendIn
<1>2. p4 \in Bytes /\ p5 \in Bytes /\ p5 \o f \in Bytes
  <2> HIDE DEF p3
  <2>1. p4 \in Bytes
    BY <1>1, AppendIn
  <2> HIDE DEF p4
  <2>2. p5 \in Bytes
    BY <2>1, AppendIn
  <2> HIDE DEF p5
  <2> QED
    BY <2>1, <2>2, AppendIn
<1>3. q6 \in Bytes /\ q5 \in Bytes
  <2>1. q6 \in Bytes
    BY AppendIn
  <2> HIDE DEF q6
  <2> QED
    BY <2>1, AppendIn
<1>4. q4 \in Bytes /\ q3 \in Bytes
  <2> HIDE DEF q5
  <2>1. q4 \in Bytes
    BY <1>3, AppendIn
  <2> HIDE DEF q4
  <2> QED
    BY <2>1, AppendIn
<1>5. (p5 \o f) \o g = p5 \o (f \o g)
  <2> HIDE DEF p5
  <2> QED
    BY <1>2, Append3
<1>6. (p4 \o e) \o q6 = p4 \o (e \o q6)
  <2> HIDE DEF p4, q6
  <2> QED
    BY <1>2, <1>3, Append3
<1>7. (p3 \o d) \o q5 = p3 \o (d \o q5)
  <2> HIDE DEF p3, q5
  <2> QED
    BY <1>1, <1>3, Append3
<1>8. (p2 \o c) \o q4 = p2 \o (c \o q4)
  <2> HIDE DEF p2, q4
  <2> QED
    BY <1>1, <1>4, Append3
<1>9. (a \o b) \o q3 = a \o (b \o q3)
  <2> HIDE DEF q3
  <2> QED
    BY <1>4, Append3
<1>10. Six(a, b, c, d, e, f) = p5 \o f
  BY DEF Six
<1>11. Joined(a, b, c, d, e, f, g) = (p5 \o f) \o g
  BY <1>10 DEF Joined
<1>12. Nested(a, b, c, d, e, f, g) = a \o (b \o q3)
  BY DEF Nested
<1> QED
  BY <1>2, <1>5, <1>6, <1>7, <1>8, <1>9, <1>10, <1>11, <1>12

\* The fields of a header are read back, and what follows it is left: but for
\* the vendor of message type 128, which is left before it.
LEMMA HeaderRead ==
  ASSUME NEW x \in AppHeaders, NEW g \in Bytes
  PROVE  /\ NPDU(x) \in Bytes
         /\ LET h == ReadHeader(Good(NPDU(x) \o g))
            IN  /\ h.version = x.version /\ h.meta = ControlByte(x)
                /\ h.destination = Seen(x.destination) /\ h.source = Seen(x.source)
                /\ h.hops = IF x.destination.net # 0 THEN x.hops ELSE 0
                /\ h.type = x.type
                /\ h.d.err = FALSE
                /\ x.type # 128 => h.d = Good(g) /\ h.vendor = x.vendor
<1> DEFINE v == x.version
           m == ControlByte(x)
           a == <<v, m>>
           b == AddressPart(x.destination)
           c == AddressPart(x.source)
           dest == x.destination.net # 0
           e == IF dest THEN <<x.hops>> ELSE <<>>
           f == IF x.network THEN <<x.type>> ELSE <<>>
           u == IF x.network /\ x.type >= 128 THEN Uint16(x.vendor) ELSE <<>>
           q6 == u \o g
           q5 == f \o q6
           q4 == e \o q5
           q3 == c \o q4
           q2 == b \o q3
<1>1. /\ v \in Byte /\ x.hops \in Byte /\ x.type \in Byte /\ x.vendor \in Port
      /\ x.network \in BOOLEAN /\ dest \in BOOLEAN
      /\ x.destination \in Addresses /\ x.source \in Addresses
      /\ ~x.network => x.type = 0
      /\ x.type < 128 => x.vendor = 0
  BY DEF AppHeaders
<1>2. m \in Byte /\ Bit(m, 128) = x.network /\ Bit(m, 32) = dest /\ Bit(m, 8) = (x.source.net # 0)
  BY ControlBits
<1>3. u \in Bytes /\ q6 \in Bytes
  <2>1. u \in Bytes
    <3>1. Uint16(x.vendor) \in Bytes /\ <<>> \in Bytes
      BY <1>1, ReadPort, EmptySeq DEF Bytes
    <3> QED
      BY <3>1
  <2> HIDE DEF u
  <2> QED
    BY <2>1, AppendIn
<1>4. f \in Bytes /\ q5 \in Bytes
  <2> HIDE DEF q6
  <2> QED
    BY <1>1, <1>3, MaybeRead
<1>5. e \in Bytes /\ q4 \in Bytes
  <2> HIDE DEF q5, dest
  <2> QED
    BY <1>1, <1>4, MaybeRead
<1>6. c \in Bytes /\ q3 \in Bytes
  <2>1. c \in Bytes
    BY <1>1, <1>5, AddressRead
  <2> HIDE DEF c, q4
  <2> QED
    BY <1>5, <2>1, AppendIn
<1>7. b \in Bytes /\ q2 \in Bytes
  <2>1. b \in Bytes
    BY <1>1, <1>5, AddressRead
  <2> HIDE DEF b, q3
  <2> QED
    BY <1>6, <2>1, AppendIn
<1>8. a \in Bytes
  BY <1>1, <1>2 DEF Bytes
<1>9. NPDU(x) = ((((a \o b) \o c) \o e) \o f) \o u
  BY DEF NPDU, ControlByte, AddressPart
<1>10. NPDU(x) \in Bytes /\ NPDU(x) \o g = a \o q2
  <2>3. a \in Bytes /\ b \in Bytes /\ c \in Bytes /\ e \in Bytes /\ f \in Bytes /\ u \in Bytes /\ g \in Bytes
    BY <1>3, <1>4, <1>5, <1>6, <1>7, <1>8
  <2> HIDE DEF a, b, c, e, f, u, q2, q3, q4, q5, q6, dest, m, v
  <2>2. Six(a, b, c, e, f, u) \in Bytes /\ Joined(a, b, c, e, f, u, g) = Nested(a, b, c, e, f, u, g)
    BY <2>3, SixNested
  <2>4. NPDU(x) \in Bytes /\ NPDU(x) \o g = a \o (b \o (c \o (e \o (f \o (u \o g)))))
    BY <1>9, <2>2 DEF Six, Joined, Nested
  <2> QED
    BY <2>4 DEF q2, q3, q4, q5, q6
<1> DEFINE d0 == Good(a \o q2)
           y1 == Decode(d0, 1)
           y2 == Decode(y1.d, 1)
           y3 == DecodeAddress(y2.d, Bit(y2.v[1], 32))
           y4 == DecodeAddress(y3.d, Bit(y2.v[1], 8))
           y5 == DecodeIf(y4.d, Bit(y2.v[1], 32), 1)
           y6 == DecodeIf(y5.d, Bit(y2.v[1], 128), 1)
           y7 == DecodeIf(y6.d, y6.v[1] > 128, 2)
           h == ReadHeader(d0)
<1>11. h = [version |-> y1.v[1], meta |-> y2.v[1], destination |-> y3.a, source |-> y4.a,
            hops |-> y5.v[1], type |-> y6.v[1], vendor |-> Natural(y7.v), d |-> y7.d]
  <2> HIDE DEF d0
  <2> QED
    BY DEF ReadHeader
<1>12. y1.d = Good(<<m>> \o q2) /\ y1.v[1] = v
  <2>1. y1 = [d |-> Good(<<m>> \o q2), v |-> <<v>>]
    <3> HIDE DEF m, v, q2
    <3> QED
      BY <1>1, <1>2, <1>7, ReadTwo
  <2> HIDE DEF y1, m, v, q2
  <2> QED
    BY <2>1
<1>13. y2.d = Good(q2) /\ y2.v[1] = m
  <2> HIDE DEF y1
  <2>1. y2 = Decode(Good(<<m>> \o q2), 1)
    BY <1>12
  <2>2. Decode(Good(<<m>> \o q2), 1) = [d |-> Good(q2), v |-> <<m>>]
    <3> HIDE DEF m, q2
    <3> QED
      BY <1>2, <1>7, ReadByte
  <2> HIDE DEF y2, m, q2
  <2> QED
    BY <2>1, <2>2
<1>14. y3 = [d |-> Good(q3), a |-> Seen(x.destination)]
  <2> HIDE DEF y2
  <2>1. y3 = DecodeAddress(Good(q2), dest)
    BY <1>2, <1>13
  <2>2. DecodeAddress(Good(q2), dest) = [d |-> Good(q3), a |-> Seen(x.destination)]
    <3> HIDE DEF q3
    <3> QED
      BY <1>1, <1>6, AddressRead
  <2> QED
    BY <2>1, <2>2
<1>15. y4 = [d |-> Good(q4), a |-> Seen(x.source)]
  <2> HIDE DEF y2, y3
  <2>1. y3.d = Good(q3)
    BY <1>14
  <2>2. y4 = DecodeAddress(Good(q3), x.source.net # 0)
    BY <1>2, <1>13, <2>1
  <2>3. DecodeAddress(Good(q3), x.source.net # 0) = [d |-> Good(q4), a |-> Seen(x.source)]
    <3> HIDE DEF q4
    <3> QED
      BY <1>1, <1>5, AddressRead
  <2> QED
    BY <2>2, <2>3
<1>16. y5.d = Good(q5) /\ y5.v[1] = IF dest THEN x.hops ELSE 0
  <2> HIDE DEF y2, y4
  <2>1. y4.d = Good(q4)
    BY <1>15
  <2>2. y5 = DecodeIf(Good(q4), dest, 1)
    BY <1>2, <1>13, <2>1
  <2>3. /\ DecodeIf(Good(q4), dest, 1).d = Good(q5)
        /\ DecodeIf(Good(q4), dest, 1).v[1] = IF dest THEN x.hops ELSE 0
    <3> HIDE DEF q5, dest
    <3>1. \A hops \in Byte, s \in Bytes, on \in BOOLEAN :
            /\ DecodeIf(Good((IF on THEN <<hops>> ELSE <<>>) \o s), on, 1).d = Good(s)
            /\ DecodeIf(Good((IF on THEN <<hops>> ELSE <<>>) \o s), on, 1).v[1] =
                 IF on THEN hops ELSE 0
      BY MaybeRead
    <3>2. /\ DecodeIf(Good((IF dest THEN <<x.hops>> ELSE <<>>) \o q5), dest, 1).d = Good(q5)
          /\ DecodeIf(Good((IF dest THEN <<x.hops>> ELSE <<>>) \o q5), dest, 1).v[1] =
               IF dest THEN x.hops ELSE 0
      <4>1. x.hops \in Byte /\ q5 \in Bytes /\ dest \in BOOLEAN
        BY <1>1, <1>4
      <4> QED
        BY ONLY <3>1, <4>1, Zenon
    <3> QED
      BY <3>2
  <2> QED
    BY <2>2, <2>3
<1>17. y6.d = Good(q6) /\ y6.v[1] = x.type
  <2> HIDE DEF y2, y5
  <2>1. y5.d = Good(q5)
    BY <1>16
  <2>2. y6 = DecodeIf(Good(q5), x.network, 1)
    BY <1>2, <1>13, <2>1
  <2>3. /\ DecodeIf(Good(q5), x.network, 1).d = Good(q6)
        /\ DecodeIf(Good(q5), x.network, 1).v[1] = IF x.network THEN x.type ELSE 0
    <3> HIDE DEF q6
    <3> QED
      BY <1>1, <1>3, MaybeRead
  <2> QED
    BY <1>1, <2>2, <2>3
<1>18. y7 = DecodeIf(Good(q6), x.type > 128, 2)
  <2> HIDE DEF y6
  <2> QED
    BY <1>17
<1>19. y7.d.err = FALSE /\ (x.type # 128 => y7.d = Good(g) /\ Natural(y7.v) = x.vendor)
  <2> HIDE DEF y7
  <2>1. CASE x.type > 128
    <3> DEFINE t == Uint16(x.vendor)
    <3>0. x.network
      BY <1>1, <2>1
    <3>9. x.type >= 128
      BY <1>1, <2>1 DEF Byte
    <3>1. u = t
      BY <3>0, <3>9
    <3>2. y7 = Decode(Good(t \o g), 2)
      BY <1>18, <2>1, <3>1 DEF DecodeIf
    <3>3. Decode(Good(t \o g), 2) = [d |-> Good(g), v |-> t] /\ Natural(t) = x.vendor
      BY <1>1, ReadPort
    <3>4. Good(g).err = FALSE
      BY NoError
    <3> HIDE DEF t
    <3> QED
      BY <3>2, <3>3, <3>4
  <2>2. CASE ~(x.type > 128)
    <3>1. y7 = [d |-> Good(q6), v |-> Zeros(2)]
      BY <1>18, <2>2 DEF DecodeIf
    <3>2. Good(q6).err = FALSE
      BY NoError
    <3>3. ASSUME x.type # 128
          PROVE  q6 = g /\ x.vendor = 0
      <4>1. x.type < 128
        BY <1>1, <2>2, <3>3 DEF Byte
      <4>4. ~(x.type >= 128)
        BY <1>1, <4>1 DEF Byte
      <4>2. u = <<>>
        BY <4>4
      <4>3. <<>> \o g = g
        BY ConcatEmptySeq DEF Bytes
      <4> HIDE DEF u
      <4> QED
        BY <1>1, <4>1, <4>2, <4>3
    <3>4. Natural(Zeros(2)) = 0
      <4>1. Zeros(2) = <<0, 0>>
        BY DEF Zeros
      <4>2. 0 \in Byte
        BY DEF Byte
      <4> QED
        BY <4>1, <4>2, Pair
    <3> HIDE DEF q6
    <3> QED
      BY <3>1, <3>2, <3>3, <3>4
  <2> QED
    BY <2>1, <2>2
<1> HIDE DEF y1, y2, y3, y4, y5, y6, y7, h
<1>20. h.version = v /\ h.meta = m
  BY <1>11, <1>12, <1>13
<1>21. h.destination = Seen(x.destination) /\ h.source = Seen(x.source)
  BY <1>11, <1>14, <1>15
<1>22. h.hops = (IF dest THEN x.hops ELSE 0) /\ h.type = x.type
  BY <1>11, <1>16, <1>17
<1>23. h.d = y7.d /\ h.vendor = Natural(y7.v)
  BY <1>11
<1>24. h = ReadHeader(Good(NPDU(x) \o g))
  BY <1>10 DEF h
<1> QED
  BY <1>10, <1>19, <1>20, <1>21, <1>22, <1>23, <1>24

\* The bytes of two pieces, one by one.
LEMMA JoinAt ==
  \A a, b : a \in Bytes /\ b \in Bytes =>
    /\ a \o b \in Bytes
    /\ Len(a \o b) = Len(a) + Len(b)
    /\ \A i \in 1 .. Len(a) + Len(b) :
         (a \o b)[i] = IF i <= Len(a) THEN a[i] ELSE b[i - Len(a)]
  BY ConcatProperties DEF Bytes

\* The bytes of a list of networks are those of the first and of the rest.
LEMMA NetworksForm ==
  ASSUME NEW nets \in Seq(Port)
  PROVE  /\ NetworkBytes(nets) \in Bytes
         /\ nets = <<>> => NetworkBytes(nets) = <<>>
         /\ nets # <<>> =>
              /\ nets[1] \in Port /\ Tail(nets) \in Seq(Port)
              /\ NetworkBytes(nets) = Uint16(nets[1]) \o NetworkBytes(Tail(nets))
<1> DEFINE At(ns, i) == Uint16(ns[(i + 1) \div 2])[2 - (i % 2)]
<1>1. ASSUME NEW n \in Port, NEW i \in Nat
      PROVE  /\ Uint16(n)[2 - (i % 2)] \in Byte
             /\ Uint16(n)[1] \in Byte /\ Uint16(n)[2] \in Byte
  <2>1. (n \div 256) % 256 \in Byte /\ n % 256 \in Byte
    <3>1. n \in Nat
      BY PortRange
    <3> QED
      BY <3>1, SMT DEF Byte
  <2>2. 2 - (i % 2) \in {1, 2}
    OBVIOUS
  <2> QED
    BY <2>1, <2>2 DEF Uint16
<1>2. ASSUME NEW ns \in Seq(Port), NEW i \in 1 .. 2 * Len(ns)
      PROVE  (i + 1) \div 2 \in 1 .. Len(ns) /\ At(ns, i) \in Byte
  <2>1. (i + 1) \div 2 \in 1 .. Len(ns)
    BY LenProperties
  <2>2. ns[(i + 1) \div 2] \in Port
    BY <2>1, ElementOfSeq
  <2> QED
    BY <1>1, <2>1, <2>2
<1>3. ASSUME NEW ns \in Seq(Port)
      PROVE  /\ NetworkBytes(ns) \in Bytes
             /\ Len(NetworkBytes(ns)) = 2 * Len(ns)
             /\ \A i \in 1 .. 2 * Len(ns) : NetworkBytes(ns)[i] = At(ns, i)
  <2>1. 2 * Len(ns) \in Nat
    BY LenProperties
  <2>2. NetworkBytes(ns) = [i \in 1 .. 2 * Len(ns) |-> At(ns, i)]
    BY DEF NetworkBytes
  <2>3. NetworkBytes(ns) \in [1 .. 2 * Len(ns) -> Byte]
    <3> HIDE DEF At
    <3> QED
      BY <1>2, <2>2
  <2>4. NetworkBytes(ns) \in Bytes /\ Len(NetworkBytes(ns)) = 2 * Len(ns)
    <3> DEFINE k == 2 * Len(ns)
               v == NetworkBytes(ns)
    <3> HIDE DEF k, v
    <3>1. k \in Nat /\ v \in [1 .. k -> Byte]
      BY <2>1, <2>3 DEF k, v
    <3>2. v \in Bytes /\ Len(v) = k
      BY <3>1, BytesOf
    <3> QED
      BY <3>2 DEF k, v
  <2> QED
    BY <2>2, <2>4
<1>4. ASSUME nets = <<>>
      PROVE  NetworkBytes(nets) = <<>>
  <2> DEFINE w == NetworkBytes(nets)
  <2>1. Len(nets) = 0
    BY <1>4
  <2>2. w \in Bytes /\ Len(w) = 0
    <3> HIDE DEF At
    <3>1. w \in Bytes /\ Len(w) = 2 * Len(nets)
      BY <1>3
    <3> QED
      BY <2>1, <3>1
  <2> HIDE DEF w
  <2>3. w = <<>>
    BY <2>2, EmptySeq DEF Bytes
  <2> QED
    BY <2>3 DEF w
<1>5. ASSUME nets # <<>>
      PROVE  /\ nets[1] \in Port /\ Tail(nets) \in Seq(Port)
             /\ NetworkBytes(nets) = Uint16(nets[1]) \o NetworkBytes(Tail(nets))
  <2> DEFINE a == Uint16(nets[1])
             r2 == NetworkBytes(Tail(nets))
             w == NetworkBytes(nets)
             k == Len(nets)
  <2>1. /\ k \in Nat \ {0} /\ Tail(nets) \in Seq(Port) /\ Len(Tail(nets)) = k - 1
        /\ \A i \in 1 .. k - 1 : Tail(nets)[i] = nets[i + 1]
    BY <1>5, HeadTailProperties, EmptySeq, LenProperties
  <2>2. nets[1] \in Port
    BY <2>1, ElementOfSeq
  <2>3. a \in Bytes /\ Len(a) = 2
    <3>1. nets[1] \in Nat /\ nets[1] <= 65535
      BY <2>2, PortRange
    <3> QED
      BY <3>1, Uint16Read
  <2>4. r2 \in Bytes /\ Len(r2) = 2 * (k - 1) /\ \A i \in 1 .. 2 * (k - 1) : r2[i] = At(Tail(nets), i)
    <3> HIDE DEF At
    <3> QED
      BY <1>3, <2>1
  <2>5. w \in Bytes /\ Len(w) = 2 * k /\ \A i \in 1 .. 2 * k : w[i] = At(nets, i)
    <3> HIDE DEF At
    <3> QED
      BY <1>3, <2>1
  <2> DEFINE z == a \o r2
  <2>6. /\ z \in Bytes /\ Len(z) = 2 * k
        /\ \A i \in 1 .. 2 * k : z[i] = IF i <= 2 THEN a[i] ELSE r2[i - 2]
    <3> HIDE DEF a, r2, k, z
    <3>1. /\ z \in Bytes /\ Len(z) = Len(a) + Len(r2)
          /\ \A i \in 1 .. Len(a) + Len(r2) : z[i] = IF i <= Len(a) THEN a[i] ELSE r2[i - Len(a)]
      BY <2>3, <2>4, JoinAt DEF z
    <3>2. Len(a) + Len(r2) = 2 * k
      BY <2>1, <2>3, <2>4
    <3> QED
      BY <2>3, <3>1, <3>2
  <2>7. ASSUME NEW i \in 1 .. 2 * k
        PROVE  z[i] = w[i]
    <3>1. CASE i <= 2
      <4>1. z[i] = a[i]
        <5> HIDE DEF a, r2, k, z
        <5> QED
          BY <2>1, <2>6, <3>1
      <4>2. (i + 1) \div 2 = 1 /\ 2 - (i % 2) = i
        BY <2>1, <3>1
      <4> QED
        BY <2>5, <4>1, <4>2
    <3>2. CASE i > 2
      <4>0. i - 2 \in 1 .. 2 * (k - 1)
        BY <2>1, <3>2
      <4>1. z[i] = r2[i - 2]
        <5> HIDE DEF a, r2, k, z
        <5> QED
          BY <2>1, <2>6, <3>2
      <4>2. r2[i - 2] = At(Tail(nets), i - 2)
        BY <2>4, <4>0
      <4>3. /\ (i - 2 + 1) \div 2 \in 1 .. k - 1 /\ (i - 2 + 1) \div 2 + 1 = (i + 1) \div 2
            /\ (i - 2) % 2 = i % 2
        BY <2>1, <3>2
      <4>4. Tail(nets)[(i - 2 + 1) \div 2] = nets[(i + 1) \div 2]
        BY <2>1, <4>3
      <4>5. At(Tail(nets), i - 2) = At(nets, i)
        BY <4>3, <4>4
      <4> QED
        BY <2>5, <4>1, <4>2, <4>5
    <3>3. i <= 2 \/ i > 2
      BY <2>1
    <3> QED
      BY <3>1, <3>2, <3>3
  <2>8. z = w
    <3> HIDE DEF a, r2, w, k, z
    <3>1. z \in Bytes /\ Len(z) = Len(w) /\ \A i \in 1 .. Len(w) : z[i] = w[i]
      BY <2>5, <2>6, <2>7
    <3> QED
      BY <2>5, <3>1, SeqEqual DEF Bytes
  <2> QED
    BY <2>1, <2>2, <2>8
<1> QED
  BY <1>3, <1>4, <1>5

\* A header with the networks that a router answers with.
AnswerFits(sent) ==
    /\ sent.npdu \in AppHeaders /\ sent.nets \in Seq(Port)
    /\ sent.nets # <<>> =>
          \/ sent.npdu.network /\ sent.npdu.type = IamRouterToNetwork
          \/ sent.npdu.network /\ sent.npdu.type = NetworkIs /\ Len(sent.nets) = 1

\* Nothing is read where nothing is left.
LEMMA ReadNothing ==
  Decode(Good(<<>>), 2).d.err = TRUE
<1>1. Good(<<>>).err = FALSE /\ Good(<<>>).buf = <<>>
  BY NoError
<1>2. Len(<<>>) < 2
  OBVIOUS
<1> QED
  BY <1>1, <1>2 DEF Decode

\* Networks are told apart by their numbers.
LEMMA SameNetwork == \A m, n : (Addr(m, 0, <<>>) = Addr(n, 0, <<>>)) = (m = n)
  BY DEF Addr

\* What is read of a list of networks.
LEMMA NetworksForm2 ==
  ASSUME NEW d
  PROVE  LET z == DecodeNetworks(d)
             first == Decode(d, 2)
             second == Decode(first.d, 2)
             a == Addr(Natural(first.v), 0, <<>>)
             b == Addr(Natural(second.v), 0, <<>>)
         IN  /\ z.d = second.d
             /\ second.d.err = FALSE => z.nets = IF a = b THEN <<a>> ELSE <<a, b>>
<1> DEFINE first == Decode(d, 2)
           second == Decode(first.d, 2)
           z == DecodeNetworks(d)
           a == Addr(Natural(first.v), 0, <<>>)
           b == Addr(Natural(second.v), 0, <<>>)
<1>1. z.d = second.d
  BY DEF DecodeNetworks
<1>2. second.d.err = FALSE => z.nets = IF b = a THEN <<a>> ELSE <<a, b>>
  BY DEF DecodeNetworks
<1>3. (IF b = a THEN <<a>> ELSE <<a, b>>) = (IF a = b THEN <<a>> ELSE <<a, b>>)
  <2> HIDE DEF a, b
  <2> QED
    OBVIOUS
<1> HIDE DEF first, second, z, a, b
<1> QED
  BY <1>1, <1>2, <1>3 DEF first, second, z, a, b

\* The networks of a router's answer: the first two of them, and an error when
\* there are less.
LEMMA NetworksReadBack ==
  ASSUME NEW nets \in Seq(Port)
  PROVE  LET z == DecodeNetworks(Good(NetworkBytes(nets)))
         IN  /\ Len(nets) < 2 => z.d.err = TRUE
             /\ Len(nets) >= 2 => z.d.err = FALSE /\ z.nets = NetworksRead(nets)
<1> DEFINE d == Good(NetworkBytes(nets))
           first == Decode(d, 2)
           second == Decode(first.d, 2)
           z == DecodeNetworks(d)
           a == Addr(Natural(first.v), 0, <<>>)
           b == Addr(Natural(second.v), 0, <<>>)
<1>1. z.d = second.d /\ (second.d.err = FALSE => z.nets = IF a = b THEN <<a>> ELSE <<a, b>>)
  BY NetworksForm2
<1>2. CASE nets = <<>>
  <2>1. d = Good(<<>>) /\ Len(nets) = 0
    BY <1>2, NetworksForm
  <2>2. first.d.err = TRUE
    <3>1. Decode(Good(<<>>), 2).d.err = TRUE
      BY ReadNothing
    <3> HIDE DEF d
    <3> QED
      BY <2>1, <3>1
  <2>3. second.d = first.d
    <3> HIDE DEF first
    <3> QED
      BY <2>2 DEF Decode
  <2>4. z.d = first.d
    <3> HIDE DEF z, first, second
    <3> QED
      BY <1>1, <2>3
  <2>5. z.d.err = TRUE
    <3> HIDE DEF z, first
    <3> QED
      BY <2>2, <2>4
  <2> QED
    BY <2>1, <2>5
<1>3. CASE nets # <<>>
  <2> DEFINE n == nets[1]
             t == Tail(nets)
             g == NetworkBytes(t)
  <2>1. n \in Port /\ t \in Seq(Port) /\ g \in Bytes /\ NetworkBytes(nets) = Uint16(n) \o g
    <3>1. /\ n \in Port /\ t \in Seq(Port) /\ NetworkBytes(nets) = Uint16(n) \o g
      BY <1>3, NetworksForm
    <3> QED
      BY <3>1, NetworksForm
  <2>2. first = [d |-> Good(g), v |-> Uint16(n)] /\ Natural(Uint16(n)) = n
    <3> HIDE DEF g, n
    <3>1. Decode(Good(Uint16(n) \o g), 2) = [d |-> Good(g), v |-> Uint16(n)] /\ Natural(Uint16(n)) = n
      BY <2>1, ReadPort
    <3>2. d = Good(Uint16(n) \o g)
      BY <2>1
    <3> QED
      BY <3>1, <3>2
  <2>3. Len(nets) = Len(t) + 1 /\ Len(t) \in Nat /\ (t # <<>> => t[1] = nets[2])
    BY <1>3, <2>1, HeadTailProperties, LenProperties, EmptySeq
  <2>4. first.d = Good(g) /\ a = Addr(n, 0, <<>>)
    <3> HIDE DEF first, n, g
    <3> QED
      BY <2>2
  <2>5. CASE t = <<>>
    <3>1. g = <<>> /\ Len(nets) = 1
      <4>1. g = <<>>
        BY <2>1, <2>5, NetworksForm
      <4>2. Len(t) = 0
        <5> HIDE DEF t
        <5> QED
          BY <2>5
      <4> HIDE DEF g, t
      <4> QED
        BY <2>3, <4>1, <4>2
    <3>2. second.d.err = TRUE
      <4>1. Decode(Good(<<>>), 2).d.err = TRUE
        BY ReadNothing
      <4> HIDE DEF first, g
      <4> QED
        BY <2>4, <3>1, <4>1
    <3>3. z.d.err = TRUE
      <4> HIDE DEF z, second
      <4> QED
        BY <1>1, <3>2
    <3> QED
      BY <3>1, <3>3
  <2>6. CASE t # <<>>
    <3> DEFINE m == nets[2]
               e == NetworkBytes(Tail(t))
    <3>1. m \in Port /\ e \in Bytes /\ g = Uint16(m) \o e
      <4>1. t[1] \in Port /\ Tail(t) \in Seq(Port) /\ g = Uint16(t[1]) \o e
        <5> HIDE DEF t
        <5> QED
          BY <2>1, <2>6, NetworksForm
      <4>2. e \in Bytes
        <5> HIDE DEF t
        <5> QED
          BY <4>1, NetworksForm
      <4> QED
        BY <2>3, <2>6, <4>1, <4>2
    <3>2. second = [d |-> Good(e), v |-> Uint16(m)] /\ Natural(Uint16(m)) = m
      <4> HIDE DEF first, g, m, e
      <4>1. Decode(Good(Uint16(m) \o e), 2) = [d |-> Good(e), v |-> Uint16(m)] /\ Natural(Uint16(m)) = m
        BY <3>1, ReadPort
      <4> QED
        BY <2>4, <3>1, <4>1
    <3>3. second.d.err = FALSE /\ b = Addr(m, 0, <<>>)
      <4>1. Good(e).err = FALSE
        BY NoError
      <4> HIDE DEF second, m, e
      <4> QED
        BY <3>2, <4>1
    <3>4. z.nets = NetworksRead(nets)
      <4> HIDE DEF z, a, b, second
      <4> QED
        BY <1>1, <2>4, <3>3, SameNetwork DEF NetworksRead
    <3>5. Len(nets) >= 2
      <4>1. Len(t) # 0
        <5> HIDE DEF t
        <5> QED
          BY <2>1, <2>6, EmptySeq
      <4> QED
        BY <2>3, <4>1
    <3>6. z.d.err = FALSE
      <4> HIDE DEF z, second
      <4> QED
        BY <1>1, <3>3
    <3> QED
      BY <3>4, <3>5, <3>6
  <2> QED
    BY <2>5, <2>6
<1> QED
  BY <1>2, <1>3

\* The header that is read is the one that was sent, as it is on the wire.
LEMMA HeaderSame ==
  ASSUME NEW x \in AppHeaders, NEW h,
         h.version = x.version, h.meta = ControlByte(x),
         h.destination = Seen(x.destination), h.source = Seen(x.source),
         h.hops = IF x.destination.net # 0 THEN x.hops ELSE 0,
         h.type = x.type, h.vendor = x.vendor
  PROVE  Header(h, h.source) = OnWire(x)
<1> DEFINE m == ControlByte(x)
           hops == IF x.destination.net # 0 THEN x.hops ELSE 0
<1>1. Bit(m, 128) = x.network /\ Bit(m, 4) = x.expecting /\ m % 4 = x.priority
  BY ControlBits
<1>2. Header(h, h.source) =
        [version |-> x.version, network |-> Bit(m, 128), expecting |-> Bit(m, 4),
         priority |-> m % 4, destination |-> Seen(x.destination), source |-> Seen(x.source),
         hops |-> hops, type |-> x.type, vendor |-> x.vendor]
  <2> HIDE DEF m, hops
  <2>1. h.meta = m /\ h.hops = hops
    BY DEF m, hops
  <2> QED
    BY <2>1 DEF Header
<1>3. OnWire(x) =
        [version |-> x.version, network |-> x.network, expecting |-> x.expecting,
         priority |-> x.priority, destination |-> Seen(x.destination), source |-> Seen(x.source),
         hops |-> hops, type |-> x.type, vendor |-> x.vendor]
  <2>1. hops = IF x.destination.net = 0 THEN 0 ELSE x.hops
    OBVIOUS
  <2> HIDE DEF hops
  <2> QED
    BY <2>1 DEF OnWire, Seen
<1> HIDE DEF m, hops
<1> QED
  BY <1>1, <1>2, <1>3

\* A network header is read as it was sent: the header, the networks of a router
\* behind it, the one number of a network.
LEMMA HeadersOfPeers ==
  ASSUME NEW sent, AnswerFits(sent)
  PROVE  HeaderAsSent(sent, DecodeNPDU(NewDecoder(NPDU(sent.npdu) \o NetworkBytes(sent.nets))))
<1> DEFINE x == sent.npdu
           nets == sent.nets
           g == NetworkBytes(nets)
           d == Good(NPDU(x) \o g)
           h == ReadHeader(d)
           o == DecodeNPDU(d)
           number == Decode(h.d, 2)
           z == DecodeNetworks(h.d)
<1>1. /\ x \in AppHeaders /\ nets \in Seq(Port)
      /\ nets # <<>> => \/ x.network /\ x.type = IamRouterToNetwork
                        \/ x.network /\ x.type = NetworkIs /\ Len(nets) = 1
  BY DEF AnswerFits
<1>2. g \in Bytes /\ (nets = <<>> => g = <<>>)
  BY <1>1, NetworksForm
<1>3. /\ h.version = x.version /\ h.meta = ControlByte(x)
      /\ h.destination = Seen(x.destination) /\ h.source = Seen(x.source)
      /\ h.hops = IF x.destination.net # 0 THEN x.hops ELSE 0
      /\ h.type = x.type /\ h.d.err = FALSE
      /\ x.type # 128 => h.d = Good(g) /\ h.vendor = x.vendor
  <2> HIDE DEF g, x
  <2> QED
    BY <1>1, <1>2, HeaderRead
<1>4. Bit(h.meta, 128) = x.network /\ x.network \in BOOLEAN
  <2>1. Bit(ControlByte(x), 128) = x.network
    BY <1>1, ControlBits
  <2>2. x.network \in BOOLEAN
    BY <1>1 DEF AppHeaders
  <2> HIDE DEF h
  <2> QED
    BY <1>3, <2>1, <2>2
<1>5. /\ x.network /\ x.type = NetworkIs =>
            /\ number.d.err = FALSE => o.err = FALSE
            /\ number.d.err = TRUE => o.err = TRUE
            /\ o.npdu.source.net = Natural(number.v)
      /\ x.network /\ x.type = IamRouterToNetwork =>
            /\ z.d.err = FALSE => o.err = FALSE
            /\ z.d.err = TRUE => o.err = TRUE
            /\ o.nets = z.nets
      /\ ~(x.network /\ (x.type = NetworkIs \/ x.type = IamRouterToNetwork)) =>
            /\ h.d.err = FALSE => o.err = FALSE
            /\ o.npdu = Header(h, h.source)
  <2> DEFINE d1 == d
  <2>1. /\ Bit(h.meta, 128) /\ h.type = NetworkIs =>
             /\ number.d.err = FALSE => o.err = FALSE
             /\ number.d.err = TRUE => o.err = TRUE
             /\ o.npdu.source.net = Natural(number.v)
        /\ Bit(h.meta, 128) /\ h.type = IamRouterToNetwork =>
             /\ z.d.err = FALSE => o.err = FALSE
             /\ z.d.err = TRUE => o.err = TRUE
             /\ o.nets = z.nets
        /\ ~(Bit(h.meta, 128) /\ (h.type = NetworkIs \/ h.type = IamRouterToNetwork)) =>
             /\ h.d.err = FALSE => o.err = FALSE
             /\ o.npdu = Header(h, h.source)
    <3> HIDE DEF d
    <3> QED
      BY HeaderForm
  <2> HIDE DEF o, number, z, h
  <2> QED
    BY <1>3, <1>4, <2>1
<1> HIDE DEF h, o, number, z, g
<1>6. NetworkIs = 19 /\ IamRouterToNetwork = 1
  BY DEF NetworkIs, IamRouterToNetwork
<1>7. ASSUME x.network, x.type = IamRouterToNetwork
      PROVE  /\ Len(nets) < 2 => o.err = TRUE
             /\ Len(nets) >= 2 => o.err = FALSE /\ o.nets = NetworksRead(nets)
  <2>1. h.d = Good(g)
    BY <1>3, <1>6, <1>7
  <2>2. z = DecodeNetworks(Good(g))
    BY <2>1 DEF z
  <2>3. /\ Len(nets) < 2 => z.d.err = TRUE
        /\ Len(nets) >= 2 => z.d.err = FALSE /\ z.nets = NetworksRead(nets)
    BY <1>1, <2>2, NetworksReadBack DEF g
  <2> QED
    BY <1>5, <1>7, <2>3
<1>8. ASSUME x.network, x.type = NetworkIs
      PROVE  /\ nets = <<>> => o.err = TRUE
             /\ nets # <<>> => o.err = FALSE /\ o.npdu.source.net = nets[1]
  <2>1. h.d = Good(g)
    BY <1>3, <1>6, <1>8
  <2>2. number = Decode(Good(g), 2)
    BY <2>1 DEF number
  <2>3. CASE nets = <<>>
    <3>1. number.d.err = TRUE
      BY <1>2, <2>2, <2>3, ReadNothing
    <3> QED
      BY <1>5, <1>8, <2>3, <3>1
  <2>4. CASE nets # <<>>
    <3> DEFINE n == nets[1]
               s == NetworkBytes(Tail(nets))
    <3>1. n \in Port /\ Tail(nets) \in Seq(Port) /\ g = Uint16(n) \o s
      BY <1>1, <2>4, NetworksForm DEF g
    <3>2. s \in Bytes
      BY <3>1, NetworksForm
    <3> HIDE DEF n, s
    <3>3. Decode(Good(Uint16(n) \o s), 2) = [d |-> Good(s), v |-> Uint16(n)] /\ Natural(Uint16(n)) = n
      BY <3>1, <3>2, ReadPort
    <3>4. number = [d |-> Good(s), v |-> Uint16(n)]
      BY <2>2, <3>1, <3>3
    <3>5. Good(s).err = FALSE
      BY NoError
    <3>6. number.d.err = FALSE /\ Natural(number.v) = n
      BY <3>3, <3>4, <3>5
    <3> QED
      BY <1>5, <1>8, <2>4, <3>6 DEF n
  <2> QED
    BY <2>3, <2>4
<1>9. ASSUME ~(x.network /\ (x.type = NetworkIs \/ x.type = IamRouterToNetwork))
      PROVE  o.err = FALSE /\ (x.type # 128 => o.npdu = OnWire(x))
  <2>1. o.err = FALSE /\ o.npdu = Header(h, h.source)
    BY <1>3, <1>5, <1>9
  <2>2. ASSUME x.type # 128
        PROVE  o.npdu = OnWire(x)
    <3>1. h.vendor = x.vendor
      BY <1>3, <2>2
    <3>2. Header(h, h.source) = OnWire(x)
      <4> HIDE DEF x
      <4> QED
        BY <1>1, <1>3, <3>1, HeaderSame
    <3> QED
      BY <2>1, <3>2
  <2> QED
    BY <2>1, <2>2
<1>10. HeaderAsSent(sent, o)
  <2>1. Len(nets) \in Nat
    BY <1>1, LenProperties
  <2>2. CASE x.network /\ x.type = IamRouterToNetwork
    <3>1. CASE Len(nets) < 2
      <4>1. o.err = TRUE
        BY <1>7, <2>2, <3>1
      <4> QED
        BY <1>6, <2>1, <2>2, <3>1, <4>1 DEF HeaderAsSent
    <3>2. CASE Len(nets) >= 2
      <4>1. o.err = FALSE /\ o.nets = NetworksRead(nets)
        BY <1>7, <2>2, <3>2
      <4> QED
        BY <1>6, <2>1, <2>2, <3>2, <4>1 DEF HeaderAsSent
    <3> QED
      BY <2>1, <3>1, <3>2
  <2>3. CASE x.network /\ x.type = NetworkIs
    <3>1. CASE nets = <<>>
      <4>1. o.err = TRUE
        BY <1>8, <2>3, <3>1
      <4> QED
        BY <1>6, <2>3, <3>1, <4>1 DEF HeaderAsSent
    <3>2. CASE nets # <<>>
      <4>1. o.err = FALSE /\ o.npdu.source.net = nets[1]
        BY <1>8, <2>3, <3>2
      <4> QED
        BY <1>6, <2>3, <3>2, <4>1 DEF HeaderAsSent
    <3> QED
      BY <3>1, <3>2
  <2>4. CASE ~(x.network /\ (x.type = NetworkIs \/ x.type = IamRouterToNetwork))
    BY <1>6, <1>9, <2>4 DEF HeaderAsSent
  <2> QED
    BY <2>2, <2>3, <2>4
<1>11. NewDecoder(NPDU(x) \o g) = d
  BY NoError
<1> QED
  BY <1>10, <1>11 DEF o, g

\* The head of a request is read as it was sent.
LEMMA HeadsOfPeers ==
  ASSUME NEW a \in AppApdus
  PROVE  ApduAsSent(a, DecodeAPDU(NewDecoder(APDU(a))))
<1> DEFINE o == DecodeAPDU(Good(APDU(a) \o <<>>))
           b == MaxSegsMaxApdu(a.maxSegs, a.maxApdu)
<1>1. /\ a.type = ConfirmedServiceRequest
      /\ a.segmented \in BOOLEAN /\ a.moreFollows \in BOOLEAN /\ a.segmentedAccepted \in BOOLEAN
      /\ a.id \in Byte /\ a.service \in Byte /\ a.sequence \in Byte /\ a.window \in Byte
      /\ a.maxSegs \in Nat /\ a.maxApdu \in 0 .. MaxAPDU
  BY DEF AppApdus
<1>2. /\ b \in Byte /\ DecodeMaxApdu(b) >= a.maxApdu
      /\ a.maxSegs > 0 =>
            DecodeMaxSegs(b) <= a.maxSegs /\ (2 * DecodeMaxSegs(b) > a.maxSegs \/ DecodeMaxSegs(b) = 65)
  BY <1>1, SizesRead
<1>3. <<>> \in Bytes
  BY EmptySeq DEF Bytes
<1>4. /\ APDU(a) \in Bytes
      /\ o.err = FALSE /\ o.segmented = a.segmented /\ o.id = a.id /\ o.service = a.service
      /\ o.sizes = b
  <2>1. MaxSegsMaxApdu(a.maxSegs, a.maxApdu) \in Byte
    BY <1>2
  <2>2. a.segmented => a.sequence \in Byte /\ a.window \in Byte
    BY <1>1
  <2>3. /\ a.type = ConfirmedServiceRequest
        /\ a.segmented \in BOOLEAN /\ a.moreFollows \in BOOLEAN /\ a.segmentedAccepted \in BOOLEAN
        /\ a.id \in Byte /\ a.service \in Byte
    BY <1>1
  <2> QED
    BY <2>1, <2>2, <2>3, <1>3, RequestRead, Zenon
<1>5. APDU(a) \o <<>> = APDU(a)
  BY <1>4, ConcatEmptySeq DEF Bytes
<1>6. DecodeAPDU(NewDecoder(APDU(a))) = o
  BY <1>5, NoError
<1> HIDE DEF o, b
<1>7. ApduAsSent(a, o)
  BY <1>2, <1>4 DEF ApduAsSent
<1> QED
  BY <1>6, <1>7

-----------------------------------------------------------------------------
(* Requests and announcements.                                              *)

\* A number behind a context tag is read back, in both ways to read its tag.
LEMMA ContextRead ==
  ASSUME NEW num \in Byte, NEW w \in Word, NEW s \in Bytes
  PROVE  LET c == ContextUnsigned(num, w)
             t == TagNumber(Good(c \o s))
             x == TagNumberAndValue(Good(c \o s))
         IN  /\ c \in Bytes /\ Len(c) >= 2 /\ c \o s \in Bytes
             /\ t.tag = num /\ t.d.buf # <<>>
             /\ UnsignedOf(ValueOf(t)) = [d |-> Good(s), v |-> w]
             /\ x.tag = num /\ UnsignedOf(x) = [d |-> Good(s), v |-> w]
<1> DEFINE k == ValueLength(w)
           u == Unsigned(w)
           g == Tag(num, TRUE, k)
           m == Meta(TagLow(TRUE, k), num)
           c == ContextUnsigned(num, w)
           f == u \o s
           e == Extended(k)
           t == TagNumber(Good(c \o s))
           x == TagNumberAndValue(Good(c \o s))
<1>1. k \in 1 .. 4 /\ u \in Bytes /\ Len(u) = k
  BY UnsignedBytes
<1>2. k \in Nat /\ k < LongLength /\ k <= 4
  BY <1>1 DEF LongLength
<1>3. f \in Bytes
  <2> HIDE DEF u
  <2> QED
    BY <1>1, AppendIn
<1>4. /\ g \in Bytes /\ TagLow(TRUE, k) \in 0 .. 15
      /\ TagNumber(Good(g \o f)) = [d |-> Good(e \o f), tag |-> num, meta |-> m]
      /\ TagNumberAndValue(Good(g \o f)) = [d |-> Good(f), tag |-> num, meta |-> m, v |-> k]
  <2> HIDE DEF f, k
  <2> QED
    BY <1>2, <1>3, TagRead
<1>5. c = g \o u
  BY DEF ContextUnsigned
<1>6. c \in Bytes /\ c \o s = g \o f /\ c \o s \in Bytes
  <2>1. c \in Bytes
    <3> HIDE DEF g, u, c
    <3> QED
      BY <1>1, <1>4, <1>5, AppendIn
  <2>2. (g \o u) \o s = g \o (u \o s)
    <3> HIDE DEF g, u
    <3> QED
      BY <1>1, <1>4, Append3
  <2>3. c \o s \in Bytes
    <3> HIDE DEF c
    <3> QED
      BY <2>1, AppendIn
  <2> HIDE DEF g, u, c
  <2> QED
    BY <1>5, <2>1, <2>2, <2>3
<1>7. Len(c) >= 2
  <2>1. g = TagByte(TagLow(TRUE, k), num) \o Extended(k)
    BY DEF Tag
  <2>2. Extended(k) = <<>>
    BY <1>2 DEF Extended
  <2>3. TagByte(TagLow(TRUE, k), num) \in Bytes /\ Len(TagByte(TagLow(TRUE, k), num)) \in 1 .. 2
    BY <1>4, TagByteBytes
  <2>4. Len(g) >= 1
    <3> HIDE DEF g
    <3>1. g = TagByte(TagLow(TRUE, k), num)
      BY <2>1, <2>2, <2>3, ConcatEmptySeq DEF Bytes
    <3>2. Len(g) \in 1 .. 2
      BY <2>3, <3>1
    <3> QED
      BY <3>2
  <2>5. Len(g \o u) = Len(g) + Len(u) /\ Len(g) \in Nat
    <3> HIDE DEF g, u
    <3> QED
      BY <1>1, <1>4, JoinAt, LenProperties DEF Bytes
  <2> HIDE DEF g, u, c, k
  <2> QED
    BY <1>1, <1>5, <2>4, <2>5
<1>8. t.tag = num /\ t.meta = m /\ t.d = Good(e \o f)
  <2>1. t = [d |-> Good(e \o f), tag |-> num, meta |-> m]
    <3> HIDE DEF g, f, e, m, c
    <3> QED
      BY <1>4, <1>6
  <2> HIDE DEF t, e, f, m
  <2> QED
    BY <2>1
<1>9. e = <<>> /\ e \o f = f /\ f # <<>>
  <2>1. e = <<>>
    BY <1>2 DEF Extended
  <2>2. <<>> \o f = f
    <3> HIDE DEF f
    <3> QED
      BY <1>3, ConcatEmptySeq DEF Bytes
  <2>3. Len(u \o s) = Len(u) + Len(s) /\ Len(s) \in Nat
    <3> HIDE DEF u
    <3> QED
      BY <1>1, JoinAt, LenProperties DEF Bytes
  <2>4. f # <<>>
    <3>1. Len(f) > 0
      BY <1>1, <2>3
    <3> HIDE DEF f
    <3> QED
      BY <3>1
  <2> HIDE DEF e, f
  <2> QED
    BY <2>1, <2>2, <2>4
<1>10. t.d.buf # <<>>
  <2> HIDE DEF t, e, f
  <2> QED
    BY <1>8, <1>9, NoError
<1>11. DecodeUnsigned(Good(f), k) = [d |-> Good(s), v |-> w]
  BY UnsignedRead
<1>12. ValueOf(t) = [d |-> Good(f), v |-> k]
  <2>1. TagLow(TRUE, k) % 8 = IF k <= 4 THEN k ELSE 5
    BY <1>2 DEF TagLow
  <2>2. TagValue(Good(Extended(k) \o f), Meta(TagLow(TRUE, k), num)) = [d |-> Good(f), v |-> k]
    <3> DEFINE low == TagLow(TRUE, k)
    <3> HIDE DEF f, k, low
    <3> QED
      BY <1>2, <1>3, <1>4, <2>1, ExtendedRead DEF low
  <2> HIDE DEF t, f
  <2> QED
    BY <1>8, <2>2 DEF ValueOf
<1>13. UnsignedOf(ValueOf(t)) = [d |-> Good(s), v |-> w]
  <2> HIDE DEF t, f, k
  <2> QED
    BY <1>11, <1>12 DEF UnsignedOf
<1>14. x = [d |-> Good(f), tag |-> num, meta |-> m, v |-> k]
  <2> HIDE DEF g, f, m, c, k
  <2> QED
    BY <1>4, <1>6
<1>15. x.tag = num /\ UnsignedOf(x) = [d |-> Good(s), v |-> w]
  <2> HIDE DEF x, f, m, k
  <2> QED
    BY <1>11, <1>14 DEF UnsignedOf
<1> HIDE DEF t, x, c
<1> QED
  BY <1>6, <1>7, <1>8, <1>10, <1>13, <1>15 DEF t, x, c

\* So is an object identifier.
LEMMA ContextIdRead ==
  ASSUME NEW num \in Byte, NEW type \in Nat, type <= MaxObject,
         NEW instance \in Nat, instance <= MaxInstance, NEW s \in Bytes
  PROVE  LET c == ContextObjectId(num, type, instance)
             t == TagNumber(Good(c \o s))
         IN  /\ c \in Bytes /\ Len(c) >= 5 /\ Len(c) <= 6 /\ c \o s \in Bytes
             /\ t.tag = num /\ IsContextSpecific(t.meta)
             /\ DecodeObjectId(t.d) = [d |-> Good(s), type |-> type, instance |-> instance]
<1> DEFINE u == ObjectId(type, instance)
           g == Tag(num, TRUE, 4)
           low == TagLow(TRUE, 4)
           m == Meta(low, num)
           c == ContextObjectId(num, type, instance)
           f == u \o s
           e == Extended(4)
           t == TagNumber(Good(c \o s))
<1>1. /\ u \in Bytes /\ Len(u) = 4
      /\ DecodeObjectId(Good(u \o s)) = [d |-> Good(s), type |-> type, instance |-> instance]
  BY ObjectIdRead
<1>2. 4 \in Nat /\ 4 < LongLength
  BY DEF LongLength
<1>3. f \in Bytes
  <2> HIDE DEF u
  <2> QED
    BY <1>1, AppendIn
<1>4. /\ g \in Bytes /\ low \in 0 .. 15
      /\ TagNumber(Good(g \o f)) = [d |-> Good(e \o f), tag |-> num, meta |-> m]
  <2> HIDE DEF f
  <2> QED
    BY <1>2, <1>3, TagRead
<1>5. c = g \o u
  BY DEF ContextObjectId
<1>6. c \in Bytes /\ c \o s = g \o f /\ c \o s \in Bytes
  <2>1. c \in Bytes
    <3> HIDE DEF g, u, c
    <3> QED
      BY <1>1, <1>4, <1>5, AppendIn
  <2>2. (g \o u) \o s = g \o (u \o s)
    <3> HIDE DEF g, u
    <3> QED
      BY <1>1, <1>4, Append3
  <2>3. c \o s \in Bytes
    <3> HIDE DEF c
    <3> QED
      BY <2>1, AppendIn
  <2> HIDE DEF g, u, c
  <2> QED
    BY <1>5, <2>1, <2>2, <2>3
<1>7. e = <<>>
  BY DEF Extended
<1>8. Len(c) >= 5 /\ Len(c) <= 6
  <2>1. g = TagByte(low, num) \o e
    BY DEF Tag
  <2>2. TagByte(low, num) \in Bytes /\ Len(TagByte(low, num)) \in 1 .. 2
    BY <1>4, TagByteBytes
  <2>3. Len(g) \in 1 .. 2
    <3> HIDE DEF g, low, e
    <3>1. g = TagByte(low, num)
      BY <1>7, <2>1, <2>2, ConcatEmptySeq DEF Bytes
    <3> QED
      BY <2>2, <3>1
  <2>4. Len(g \o u) = Len(g) + Len(u)
    <3> HIDE DEF g, u
    <3> QED
      BY <1>1, <1>4, JoinAt
  <2>5. Len(c) = Len(g) + 4
    <3> HIDE DEF g, u, c
    <3> QED
      BY <1>1, <1>5, <2>4
  <2> DEFINE n == Len(g)
  <2>6. n \in 1 .. 2 /\ Len(c) = n + 4
    BY <2>3, <2>5
  <2> HIDE DEF n, c
  <2> QED
    BY <2>6
<1>9. t.tag = num /\ t.meta = m /\ t.d = Good(e \o f)
  <2>1. t = [d |-> Good(e \o f), tag |-> num, meta |-> m]
    <3> HIDE DEF g, f, e, m, c
    <3> QED
      BY <1>4, <1>6
  <2> HIDE DEF t, e, f, m
  <2> QED
    BY <2>1
<1>10. IsContextSpecific(m)
  <2>1. low >= 8
    BY DEF TagLow
  <2>2. IsContextSpecific(Meta(low, num)) = (low >= 8)
    <3> HIDE DEF low
    <3> QED
      BY <1>4, MetaBits
  <2> QED
    BY <2>1, <2>2
<1>11. t.d = Good(u \o s)
  <2>1. <<>> \o f = f
    <3> HIDE DEF f
    <3> QED
      BY <1>3, ConcatEmptySeq DEF Bytes
  <2> HIDE DEF t
  <2> QED
    BY <1>7, <1>9, <2>1
<1>12. DecodeObjectId(t.d) = [d |-> Good(s), type |-> type, instance |-> instance]
  <2> HIDE DEF t
  <2> QED
    BY <1>1, <1>11
<1>13. IsContextSpecific(t.meta)
  <2> HIDE DEF t, m
  <2> QED
    BY <1>9, <1>10
<1> HIDE DEF t, c
<1> QED
  BY <1>6, <1>8, <1>9, <1>12, <1>13 DEF t, c

\* What is read of a property.
LEMMA PropertyForm ==
  ASSUME NEW d
  PROVE  LET object == TagNumber(d)
             id == DecodeObjectId(object.d)
             t1 == TagNumber(id.d)
             prop == UnsignedOf(ValueOf(t1))
             next == TagNumber(prop.d)
             z == IndexAndValues(next)
             x == DecodeReadProperty(d)
         IN  /\ Len(d.buf) < 7 => x.err = TRUE
             /\ /\ Len(d.buf) >= 7 /\ Len(d.buf) \in Nat
                /\ object.tag = 0 /\ IsContextSpecific(object.meta) /\ t1.tag = 1
                /\ prop.d.buf = <<>>
                => /\ x.type = id.type /\ x.instance = id.instance /\ x.prop = prop.v
                   /\ x.index = ArrayAll /\ (prop.d.err = FALSE => x.err = FALSE)
             /\ /\ Len(d.buf) >= 7 /\ Len(d.buf) \in Nat
                /\ object.tag = 0 /\ IsContextSpecific(object.meta) /\ t1.tag = 1
                /\ prop.d.buf # <<>> /\ next.tag = 2
                => /\ x.type = id.type /\ x.instance = id.instance /\ x.prop = prop.v
                   /\ x.index = z.index /\ (z.err = FALSE => x.err = FALSE)
<1> DEFINE object == TagNumber(d)
           id == DecodeObjectId(object.d)
           t1 == TagNumber(id.d)
           prop == UnsignedOf(ValueOf(t1))
           next == TagNumber(prop.d)
           z == IndexAndValues(next)
           x == DecodeReadProperty(d)
<1>1. ASSUME Len(d.buf) < 7
      PROVE  x.err = TRUE
  BY <1>1 DEF DecodeReadProperty
<1>2. ASSUME Len(d.buf) >= 7, Len(d.buf) \in Nat,
             object.tag = 0, IsContextSpecific(object.meta), t1.tag = 1, prop.d.buf = <<>>
      PROVE  /\ x.type = id.type /\ x.instance = id.instance /\ x.prop = prop.v
             /\ x.index = ArrayAll /\ (prop.d.err = FALSE => x.err = FALSE)
  <2>1. x.type = id.type /\ x.instance = id.instance /\ x.prop = prop.v
    BY <1>2 DEF DecodeReadProperty
  <2>2. x.index = ArrayAll
    BY <1>2 DEF DecodeReadProperty
  <2>3. prop.d.err = FALSE => x.err = FALSE
    BY <1>2 DEF DecodeReadProperty
  <2> HIDE DEF x, id, prop
  <2> QED
    BY <2>1, <2>2, <2>3
<1>3. ASSUME Len(d.buf) >= 7, Len(d.buf) \in Nat,
             object.tag = 0, IsContextSpecific(object.meta), t1.tag = 1,
             prop.d.buf # <<>>, next.tag = 2
      PROVE  /\ x.type = id.type /\ x.instance = id.instance /\ x.prop = prop.v
             /\ x.index = z.index /\ (z.err = FALSE => x.err = FALSE)
  <2>1. x.type = id.type /\ x.instance = id.instance /\ x.prop = prop.v
    BY <1>3 DEF DecodeReadProperty
  <2>2. x.index = z.index
    BY <1>3 DEF DecodeReadProperty
  <2>3. z.err = FALSE => x.err = FALSE
    BY <1>3 DEF DecodeReadProperty
  <2> HIDE DEF x, id, prop, z
  <2> QED
    BY <2>1, <2>2, <2>3
<1> HIDE DEF x, z, next, prop, t1, id, object
<1> QED
  BY <1>1, <1>2, <1>3 DEF x, z, next, prop, t1, id, object

\* Of what follows a property: an index, with nothing behind it.
LEMMA IndexForm ==
  ASSUME NEW next, next.tag = 2, NEW w,
         UnsignedOf(ValueOf(next)) = [d |-> Good(<<>>), v |-> w]
  PROVE  IndexAndValues(next).index = w /\ IndexAndValues(next).err = FALSE
<1> DEFINE index == UnsignedOf(ValueOf(next))
           z == IndexAndValues(next)
<1>1. index.d = Good(<<>>) /\ index.v = w
  <2> HIDE DEF index
  <2>1. index = [d |-> Good(<<>>), v |-> w]
    BY DEF index
  <2> QED
    BY <2>1
<1>2. index.d.buf = <<>> /\ index.d.err = FALSE
  <2> HIDE DEF index
  <2> QED
    BY <1>1, NoError
<1>3. z = [d |-> index.d, index |-> index.v, list |-> <<>>, err |-> index.d.err]
  BY <1>2 DEF IndexAndValues
<1>4. z.index = index.v /\ (index.d.err = FALSE => z.err = FALSE)
  <2> HIDE DEF z, index
  <2> QED
    BY <1>3
<1> HIDE DEF index
<1> QED
  BY <1>1, <1>2, <1>4

\* The service data of a request is what follows its head.
LEMMA RequestBody ==
  ASSUME NEW service \in Byte, NEW id \in Byte, NEW s \in Bytes
  PROVE  /\ Request(service, id) \in Bytes
         /\ BodyOf(DecodeAPDU(NewDecoder(Request(service, id) \o s)), service) = Good(s)
<1> DEFINE a == [type |-> ConfirmedServiceRequest, segmented |-> FALSE, moreFollows |-> FALSE,
                 segmentedAccepted |-> FALSE, maxSegs |-> 0, maxApdu |-> MaxAPDU,
                 id |-> id, service |-> service]
           x == DecodeAPDU(Good(APDU(a) \o s))
<1>1. Request(service, id) = APDU(a)
  BY DEF Request
<1>2. /\ a.type = ConfirmedServiceRequest /\ a.segmented = FALSE /\ a.moreFollows = FALSE
      /\ a.segmentedAccepted = FALSE /\ a.maxSegs = 0 /\ a.maxApdu = MaxAPDU
      /\ a.id = id /\ a.service = service
  OBVIOUS
<1>3. 0 \in Nat /\ MaxAPDU \in 0 .. MaxAPDU
  BY DEF MaxAPDU
<1> HIDE DEF a
<1>4. MaxSegsMaxApdu(a.maxSegs, a.maxApdu) \in Byte
  <2>1. MaxSegsMaxApdu(0, MaxAPDU) \in Byte
    BY <1>3, SizesRead
  <2> QED
    BY <1>2, <2>1
<1>5. a.segmented \in BOOLEAN /\ a.moreFollows \in BOOLEAN /\ a.segmentedAccepted \in BOOLEAN
  BY <1>2
<1>6. /\ APDU(a) \in Bytes
      /\ x.err = FALSE /\ x.type = ConfirmedServiceRequest /\ x.service = a.service /\ x.raw = s
  BY <1>2, <1>4, <1>5, RequestRead
<1>7. NewDecoder(APDU(a) \o s) = Good(APDU(a) \o s) /\ NewDecoder(s) = Good(s)
  BY NoError
<1>8. ConfirmedServiceRequest # ComplexAck
  BY DEF ConfirmedServiceRequest, ComplexAck
<1> HIDE DEF x
<1>9. BodyOf(x, service) = NewDecoder(x.raw)
  BY <1>2, <1>6, <1>8 DEF BodyOf
<1> QED
  BY <1>1, <1>6, <1>7, <1>9 DEF x

\* The number of a property in four bytes.
LEMMA PropertyWord ==
  ASSUME NEW n \in Nat, n <= MaxPropertyID
  PROVE  ToWord(n) \in Word /\ Natural(ToWord(n)) = n
<1>1. n < LongLength
  BY DEF MaxPropertyID, LongLength
<1> QED
  BY <1>1, WordRead

\* A property that can be read, without an index and with one.
LEMMA PropertyRead ==
  ASSUME NEW x \in AppReads, ValidProperty(x)
  PROVE  /\ ReadPropertyHeader(x) \in Bytes
         /\ ReadAsSent(x, DecodeReadProperty(Good(ReadPropertyHeader(x))))
<1> DEFINE w == ToWord(x.prop)
           o == ContextObjectId(0, x.type, x.instance)
           p == ContextUnsigned(1, w)
           i == IF x.index = ArrayAll THEN <<>> ELSE ContextUnsigned(2, x.index)
           d == Good(o \o (p \o i))
           object == TagNumber(d)
           id == DecodeObjectId(object.d)
           t1 == TagNumber(id.d)
           prop == UnsignedOf(ValueOf(t1))
           next == TagNumber(prop.d)
           z == IndexAndValues(next)
           r2 == DecodeReadProperty(d)
<1>1. /\ x.type \in Nat /\ x.type <= MaxObject /\ x.instance \in Nat /\ x.instance <= MaxInstance
      /\ x.prop \in Nat /\ x.prop <= MaxPropertyID /\ x.index \in Word
  <2>1. x.type \in Nat /\ x.instance \in 0 .. MaxInstance /\ x.prop \in Nat /\ x.index \in Word
    BY DEF AppReads
  <2>2. x.type <= MaxObject /\ x.prop <= MaxPropertyID
    BY DEF ValidProperty
  <2>3. MaxInstance \in Nat
    BY SMT DEF MaxInstance
  <2> QED
    BY <2>1, <2>2, <2>3
<1>2. w \in Word /\ Natural(w) = x.prop
  BY <1>1, PropertyWord
<1>3. 0 \in Byte /\ 1 \in Byte /\ 2 \in Byte /\ <<>> \in Bytes
  BY EmptySeq DEF Byte, Bytes
<1>4. i \in Bytes
  <2>1. ContextUnsigned(2, x.index) \in Bytes
    BY <1>1, <1>3, ContextRead
  <2> QED
    BY <1>3, <2>1
<1>5. /\ p \in Bytes /\ Len(p) >= 2 /\ p \o i \in Bytes
      /\ TagNumber(Good(p \o i)).tag = 1
      /\ UnsignedOf(ValueOf(TagNumber(Good(p \o i)))) = [d |-> Good(i), v |-> w]
  <2> HIDE DEF w, i
  <2> QED
    BY <1>2, <1>3, <1>4, ContextRead
<1>6. /\ o \in Bytes /\ Len(o) >= 5 /\ o \o (p \o i) \in Bytes
      /\ object.tag = 0 /\ IsContextSpecific(object.meta)
      /\ id = [d |-> Good(p \o i), type |-> x.type, instance |-> x.instance]
  <2> DEFINE s == p \o i
  <2> HIDE DEF s
  <2>1. s \in Bytes
    BY <1>5 DEF s
  <2>2. /\ o \in Bytes /\ Len(o) >= 5 /\ o \o s \in Bytes
        /\ TagNumber(Good(o \o s)).tag = 0 /\ IsContextSpecific(TagNumber(Good(o \o s)).meta)
        /\ DecodeObjectId(TagNumber(Good(o \o s)).d) =
              [d |-> Good(s), type |-> x.type, instance |-> x.instance]
    BY <1>1, <1>3, <2>1, ContextIdRead
  <2> QED
    BY <2>2 DEF s
<1>7. ReadPropertyHeader(x) = o \o (p \o i) /\ ReadPropertyHeader(x) \in Bytes
  <2>1. ReadPropertyHeader(x) = (o \o p) \o i
    BY DEF ReadPropertyHeader
  <2>2. (o \o p) \o i = o \o (p \o i)
    <3>1. o \in Bytes /\ p \in Bytes /\ i \in Bytes
      BY <1>4, <1>5, <1>6
    <3> HIDE DEF o, p, i
    <3> QED
      BY <3>1, Append3
  <2> HIDE DEF o, p, i
  <2> QED
    BY <1>6, <2>1, <2>2
<1>8. d.buf = o \o (p \o i) /\ Len(d.buf) >= 7 /\ Len(d.buf) \in Nat
  <2>1. d.buf = o \o (p \o i)
    BY NoError
  <2> DEFINE s == p \o i
             y == o \o s
             lo == Len(o)
             lp == Len(p)
             li == Len(i)
  <2>2. Len(s) = lp + li /\ lp \in Nat /\ li \in Nat /\ lp >= 2
    <3> HIDE DEF p, i
    <3> QED
      BY <1>4, <1>5, JoinAt, LenProperties DEF Bytes
  <2>3. Len(y) = lo + Len(s) /\ lo \in Nat /\ lo >= 5
    <3> HIDE DEF o, s
    <3> QED
      BY <1>5, <1>6, JoinAt, LenProperties DEF Bytes, s
  <2> HIDE DEF s, lo, lp, li
  <2>4. Len(y) >= 7 /\ Len(y) \in Nat
    BY <2>2, <2>3
  <2> QED
    BY <2>1, <2>4 DEF s
<1> HIDE DEF object
<1>9. id.d = Good(p \o i) /\ id.type = x.type /\ id.instance = x.instance
  <2> HIDE DEF id, p, i
  <2> QED
    BY <1>6
<1> HIDE DEF id
<1>10. t1.tag = 1 /\ prop = [d |-> Good(i), v |-> w]
  <2> HIDE DEF p, i, w
  <2>1. t1 = TagNumber(Good(p \o i))
    BY <1>9
  <2> HIDE DEF t1
  <2> QED
    BY <1>5, <2>1
<1> HIDE DEF t1
<1>11. prop.d = Good(i) /\ prop.v = w /\ prop.d.buf = i /\ prop.d.err = FALSE
  <2> HIDE DEF prop, i, w
  <2>1. prop.d = Good(i) /\ prop.v = w
    BY <1>10
  <2> QED
    BY <2>1, NoError
<1> HIDE DEF prop
<1> HIDE DEF next, z, r2
<1>12. /\ prop.d.buf = <<>>
            => /\ r2.type = id.type /\ r2.instance = id.instance /\ r2.prop = prop.v
               /\ r2.index = ArrayAll /\ (prop.d.err = FALSE => r2.err = FALSE)
       /\ prop.d.buf # <<>> /\ next.tag = 2
            => /\ r2.type = id.type /\ r2.instance = id.instance /\ r2.prop = prop.v
               /\ r2.index = z.index /\ (z.err = FALSE => r2.err = FALSE)
  <2> HIDE DEF d
  <2> QED
    BY <1>6, <1>8, <1>10, PropertyForm DEF prop, t1, id, object, next, z, r2
<1>13. ReadAsSent(x, r2)
  <2>1. CASE x.index = ArrayAll
    <3>1. i = <<>>
      BY <2>1
    <3> HIDE DEF r2, i, w, z
    <3>2. r2.type = x.type /\ r2.instance = x.instance /\ r2.prop = w /\ r2.index = ArrayAll
      BY <1>9, <1>11, <1>12, <3>1
    <3>3. r2.err = FALSE
      BY <1>11, <1>12, <3>1
    <3> QED
      BY <1>2, <2>1, <3>2, <3>3 DEF ReadAsSent
  <2>2. CASE x.index # ArrayAll
    <3> DEFINE c == ContextUnsigned(2, x.index)
    <3>1. i = c
      BY <2>2
    <3>2. /\ c \in Bytes /\ Len(c) >= 2
          /\ TagNumber(Good(c \o <<>>)).tag = 2
          /\ UnsignedOf(ValueOf(TagNumber(Good(c \o <<>>)))) = [d |-> Good(<<>>), v |-> x.index]
      <4>1. ASSUME NEW v \in Word
            PROVE  LET b == ContextUnsigned(2, v)
                   IN  /\ b \in Bytes /\ Len(b) >= 2
                       /\ TagNumber(Good(b \o <<>>)).tag = 2
                       /\ UnsignedOf(ValueOf(TagNumber(Good(b \o <<>>)))) =
                            [d |-> Good(<<>>), v |-> v]
        BY <1>3, ContextRead
      <4>2. x.index \in Word
        BY <1>1
      <4> QED
        BY <4>1, <4>2
    <3>3. c \o <<>> = c /\ c # <<>>
      <4> HIDE DEF c
      <4> QED
        BY <3>2, ConcatEmptySeq DEF Bytes
    <3>4. next = TagNumber(Good(c \o <<>>))
      <4> HIDE DEF c, i
      <4> QED
        BY <1>11, <3>1, <3>3 DEF next
    <3>5. next.tag = 2 /\ UnsignedOf(ValueOf(next)) = [d |-> Good(<<>>), v |-> x.index]
      <4> HIDE DEF next, c
      <4> QED
        BY <3>2, <3>4
    <3>6. z.index = x.index /\ z.err = FALSE
      <4> HIDE DEF next
      <4> QED
        BY <3>5, IndexForm DEF z
    <3> HIDE DEF r2, i, w, z, c, next
    <3>7. prop.d.buf # <<>>
      BY <1>11, <3>1, <3>3
    <3>8. r2.type = x.type /\ r2.instance = x.instance /\ r2.prop = w /\ r2.index = x.index
      BY <1>9, <1>11, <1>12, <3>5, <3>6, <3>7
    <3>9. r2.err = FALSE
      BY <1>12, <3>5, <3>6, <3>7
    <3> QED
      BY <1>2, <3>8, <3>9 DEF ReadAsSent
  <2> QED
    BY <2>1, <2>2
<1> HIDE DEF o, p, i, w, z, next
<1>14. d = Good(ReadPropertyHeader(x))
  BY <1>7
<1> HIDE DEF d
<1>15. ReadAsSent(x, DecodeReadProperty(d))
  BY <1>13 DEF r2
<1>16. ReadPropertyHeader(x) \in Bytes
  BY <1>7
<1> QED
  BY <1>14, <1>15, <1>16

\* The property of a ReadProperty request, and nothing of one not valid.
LEMMA ReadsOfPeers ==
  ASSUME NEW x \in AppReads
  PROVE  ReadAsSent(x, DecodeReadProperty(BodyOf(DecodeAPDU(NewDecoder(ReadProperty(1, x))),
                                                 ServiceReadProperty)))
<1> DEFINE h == ReadPropertyHeader(x)
<1>1. ServiceReadProperty \in Byte /\ 1 \in Byte
  BY DEF ServiceReadProperty, Byte
<1>2. ReadProperty(1, x) = Request(ServiceReadProperty, 1) \o h
  BY DEF ReadProperty
<1>3. ASSUME h \in Bytes
      PROVE  BodyOf(DecodeAPDU(NewDecoder(ReadProperty(1, x))), ServiceReadProperty) = Good(h)
  <2> HIDE DEF h
  <2> QED
    BY <1>1, <1>2, <1>3, RequestBody
<1>4. CASE ValidProperty(x)
  BY <1>3, <1>4, PropertyRead
<1>5. CASE ~ValidProperty(x)
  <2>1. h = <<>>
    BY <1>5 DEF ReadPropertyHeader
  <2>2. h \in Bytes
    BY <2>1, EmptySeq DEF Bytes
  <2>3. Good(h).buf = <<>>
    BY <2>1, NoError
  <2>4. Len(Good(h).buf) < 7
    BY <2>3
  <2> DEFINE d == Good(h)
  <2>5. DecodeReadProperty(d).err = TRUE
    <3> HIDE DEF d
    <3> QED
      BY <2>4, PropertyForm DEF d
  <2> QED
    BY <1>3, <1>5, <2>2, <2>5 DEF ReadAsSent
<1> QED
  BY <1>4, <1>5

\* What is read of an unconfirmed request.
LEMMA UnconfirmedForm ==
  ASSUME NEW d,
         PduType(Decode(d, 1).v[1]) = UnconfirmedServiceRequest
  PROVE  LET x1 == Decode(d, 1)
             x2 == Decode(x1.d, 1)
             x3 == Remainder(x2.d)
             x == DecodeAPDU(d)
         IN  /\ x3.d.err = FALSE => x.err = FALSE
             /\ x.type = UnconfirmedServiceRequest
             /\ x.service = x2.v[1] /\ x.raw = x3.v
<1> DEFINE x1 == Decode(d, 1)
           x2 == Decode(x1.d, 1)
           x3 == Remainder(x2.d)
           x == DecodeAPDU(d)
           h == ReadHead(d)
<1>1. h.meta = x1.v[1] /\ h.first = x2
  BY HeadForm
<1>2. PduType(h.meta) = UnconfirmedServiceRequest =>
        /\ x.err = Remainder(h.first.d).d.err /\ x.type = UnconfirmedServiceRequest
        /\ x.service = h.first.v[1] /\ x.raw = Remainder(h.first.d).v
  BY RequestForm
<1>3. PduType(x1.v[1]) = UnconfirmedServiceRequest
  OBVIOUS
<1>4. x3 = Remainder(x2.d)
  OBVIOUS
<1> HIDE DEF x1, x2, x3, x, h
<1>5. /\ x.err = x3.d.err /\ x.type = UnconfirmedServiceRequest
      /\ x.service = x2.v[1] /\ x.raw = x3.v
  BY <1>1, <1>2, <1>3, <1>4
<1> QED
  BY <1>5 DEF x1, x2, x3, x

\* The service data of an announcement is what follows its head.
LEMMA UnconfirmedBody ==
  ASSUME NEW service \in Byte, NEW s \in Bytes
  PROVE  /\ Unconfirmed(service) \in Bytes
         /\ BodyOf(DecodeAPDU(NewDecoder(Unconfirmed(service) \o s)), service) = Good(s)
<1> DEFINE b == UnconfirmedServiceRequest
           d == Good(<<b, service>> \o s)
           x1 == Decode(d, 1)
           x2 == Decode(x1.d, 1)
           x3 == Remainder(x2.d)
           x == DecodeAPDU(d)
<1>1. b \in Byte /\ PduType(b) = UnconfirmedServiceRequest
  BY SMT DEF UnconfirmedServiceRequest, Byte, PduType
<1> HIDE DEF b
<1>2. <<b, service>> \in Bytes
  BY <1>1, ReadTwo
<1>3. x1 = [d |-> Good(<<service>> \o s), v |-> <<b>>]
  BY <1>1, ReadTwo
<1>4. x1.d = Good(<<service>> \o s) /\ x1.v[1] = b
  <2> HIDE DEF x1
  <2> QED
    BY <1>3
<1>5. x2.d = Good(s) /\ x2.v[1] = service
  <2> HIDE DEF x1
  <2>1. x2 = Decode(Good(<<service>> \o s), 1)
    BY <1>4
  <2>2. Decode(Good(<<service>> \o s), 1) = [d |-> Good(s), v |-> <<service>>]
    BY ReadByte
  <2> HIDE DEF x2
  <2> QED
    BY <2>1, <2>2
<1>6. x3.d = Good(<<>>) /\ x3.v = s
  <2> HIDE DEF x2
  <2>1. x3 = Remainder(Good(s))
    BY <1>5
  <2>2. Remainder(Good(s)) = [d |-> Good(<<>>), v |-> s]
    BY ReadAll
  <2> HIDE DEF x3
  <2> QED
    BY <2>1, <2>2
<1>7. /\ x3.d.err = FALSE => x.err = FALSE
      /\ x.type = UnconfirmedServiceRequest
      /\ x.service = x2.v[1] /\ x.raw = x3.v
  <2>1. PduType(x1.v[1]) = UnconfirmedServiceRequest
    <3> HIDE DEF x1
    <3> QED
      BY <1>1, <1>4
  <2> HIDE DEF d
  <2> QED
    BY <2>1, UnconfirmedForm
<1> HIDE DEF x, x1, x2, x3
<1>8. x.err = FALSE
  BY <1>6, <1>7, NoError
<1>9. x.type = UnconfirmedServiceRequest /\ x.service = service /\ x.raw = s
  BY <1>5, <1>6, <1>7
<1>10. UnconfirmedServiceRequest # ComplexAck
  BY DEF UnconfirmedServiceRequest, ComplexAck
<1>11. BodyOf(x, service) = Good(s)
  <2>1. BodyOf(x, service) = NewDecoder(x.raw)
    BY <1>8, <1>9, <1>10 DEF BodyOf
  <2> QED
    BY <1>9, <2>1, NoError
<1>12. Unconfirmed(service) = <<b, service>>
  BY DEF Unconfirmed, b
<1>13. NewDecoder(Unconfirmed(service) \o s) = d
  BY <1>12, NoError
<1> QED
  BY <1>2, <1>11, <1>12, <1>13 DEF x

\* The same, where nothing follows.
LEMMA LastRead ==
  ASSUME NEW num \in Byte, NEW w \in Word
  PROVE  LET c == ContextUnsigned(num, w)
             x == TagNumberAndValue(Good(c))
         IN  /\ c \in Bytes /\ Len(c) >= 2
             /\ x.tag = num /\ UnsignedOf(x) = [d |-> Good(<<>>), v |-> w]
<1> DEFINE c == ContextUnsigned(num, w)
           x == TagNumberAndValue(Good(c))
           y == TagNumberAndValue(Good(c \o <<>>))
<1>1. <<>> \in Bytes
  BY EmptySeq DEF Bytes
<1>2. c \in Bytes /\ Len(c) >= 2 /\ y.tag = num
  BY <1>1, ContextRead
<1>3. UnsignedOf(y) = [d |-> Good(<<>>), v |-> w]
  BY <1>1, ContextRead
<1>4. c \o <<>> = c
  <2> HIDE DEF c
  <2> QED
    BY <1>2, ConcatEmptySeq DEF Bytes
<1>5. x = y
  <2> HIDE DEF c
  <2> QED
    BY <1>4
<1> HIDE DEF x, y, c
<1>6. x.tag = num /\ UnsignedOf(x) = [d |-> Good(<<>>), v |-> w]
  BY <1>2, <1>3, <1>5
<1> QED
  BY <1>2, <1>6 DEF x, c

\* What is read of a range.
LEMMA RangeForm ==
  ASSUME NEW d
  PROVE  LET t0 == TagNumberAndValue(d)
             low == UnsignedOf(t0)
             t1 == TagNumberAndValue(low.d)
             high == UnsignedOf(t1)
             x == DecodeWhoIs(d)
         IN  /\ d.buf = <<>> => x = [low |-> WhoIsAll, high |-> WhoIsAll, err |-> FALSE]
             /\ d.buf # <<>> /\ t0.tag = 0 /\ t1.tag = 1
                => x = [low |-> Natural(low.v), high |-> Natural(high.v), err |-> high.d.err]
  BY DEF DecodeWhoIs

\* The range of a Who-Is, and every device of one that is no range of instances.
LEMMA RangesOfPeers ==
  ASSUME NEW x \in Nat \X Nat
  PROVE  WhoIsAsSent(x, DecodeWhoIs(BodyOf(DecodeAPDU(NewDecoder(WhoIs(x[1], x[2]))), ServiceWhoIs)))
<1> DEFINE inRange == \A i \in 1 .. 2 : x[i] \in 0 .. MaxInstance - 1
           a == ToWord(x[1])
           b == ToWord(x[2])
           p == ContextUnsigned(0, a)
           q == ContextUnsigned(1, b)
           s == IF inRange THEN p \o q ELSE <<>>
           o == DecodeWhoIs(Good(s))
<1>1. x[1] \in Nat /\ x[2] \in Nat
  OBVIOUS
<1>2. inRange <=> x[1] \in 0 .. MaxInstance - 1 /\ x[2] \in 0 .. MaxInstance - 1
  OBVIOUS
<1>3. <<>> \in Bytes /\ 0 \in Byte /\ 1 \in Byte /\ ServiceWhoIs \in Byte
  BY EmptySeq DEF Bytes, Byte, ServiceWhoIs
<1>4. ASSUME inRange
      PROVE  /\ s \in Bytes /\ o.err = FALSE /\ o.low = x[1] /\ o.high = x[2]
  <2>1. ASSUME NEW n \in Nat, n \in 0 .. MaxInstance - 1
        PROVE  ToWord(n) \in Word /\ Natural(ToWord(n)) = n
    <3>2. MaxInstance < LongLength /\ MaxInstance \in Nat /\ LongLength \in Nat
      BY SMT DEF MaxInstance, LongLength
    <3>1. n <= MaxInstance
      BY <2>1, <3>2
    <3>3. n < LongLength
      BY <3>1, <3>2
    <3> QED
      BY <3>3, WordRead
  <2>2. a \in Word /\ b \in Word /\ Natural(a) = x[1] /\ Natural(b) = x[2]
    BY <1>1, <1>2, <1>4, <2>1
  <2> HIDE DEF a, b
  <2>3. q \in Bytes /\ Len(q) >= 2
    BY <1>3, <2>2, LastRead
  <2> DEFINE d == Good(p \o q)
             t0 == TagNumberAndValue(d)
             low == UnsignedOf(t0)
             t1 == TagNumberAndValue(low.d)
             high == UnsignedOf(t1)
  <2>4. /\ p \in Bytes /\ Len(p) >= 2 /\ p \o q \in Bytes
        /\ t0.tag = 0 /\ low = [d |-> Good(q), v |-> a]
    <3> HIDE DEF q
    <3> QED
      BY <1>3, <2>2, <2>3, ContextRead
  <2>5. low.d = Good(q) /\ low.v = a
    <3> HIDE DEF low, q
    <3> QED
      BY <2>4
  <2>6. t1.tag = 1 /\ high = [d |-> Good(<<>>), v |-> b]
    <3>1. TagNumberAndValue(Good(q)).tag = 1
      BY <1>3, <2>2, LastRead
    <3>2. UnsignedOf(TagNumberAndValue(Good(q))) = [d |-> Good(<<>>), v |-> b]
      BY <1>3, <2>2, LastRead
    <3>3. t1 = TagNumberAndValue(Good(q))
      <4> HIDE DEF low, q
      <4> QED
        BY <2>5
    <3> HIDE DEF t1, q
    <3> QED
      BY <3>1, <3>2, <3>3
  <2>7. high.d.err = FALSE /\ high.v = b
    <3> HIDE DEF high
    <3>1. high.d = Good(<<>>) /\ high.v = b
      BY <2>6
    <3> QED
      BY <3>1, NoError
  <2>8. d.buf # <<>>
    <3>1. Len(p \o q) = Len(p) + Len(q) /\ Len(p) \in Nat /\ Len(q) \in Nat
      <4> HIDE DEF p, q
      <4> QED
        BY <2>3, <2>4, JoinAt, LenProperties DEF Bytes
    <3> DEFINE y == p \o q
               lp == Len(p)
               lq == Len(q)
    <3>2. d.buf = y
      BY NoError
    <3>3. Len(y) = lp + lq /\ lp >= 2 /\ lp \in Nat /\ lq \in Nat
      BY <2>4, <3>1
    <3> HIDE DEF y, lp, lq, d
    <3> QED
      BY <3>2, <3>3
  <2>9. DecodeWhoIs(d) = [low |-> Natural(low.v), high |-> Natural(high.v), err |-> high.d.err]
    <3> HIDE DEF d
    <3> QED
      BY <2>4, <2>6, <2>8, RangeForm DEF low, t0, t1, high
  <2> HIDE DEF low, high, p, q, d
  <2>10. s = p \o q /\ o = DecodeWhoIs(d)
    BY <1>4 DEF d
  <2> HIDE DEF o, s
  <2>11. o.low = Natural(low.v) /\ o.high = Natural(high.v)
    BY <2>9, <2>10
  <2>12. o.err = FALSE
    BY <2>7, <2>9, <2>10
  <2>13. low.v = a
    BY <2>5
  <2> QED
    BY <2>2, <2>4, <2>7, <2>10, <2>11, <2>12, <2>13
<1>5. ASSUME ~inRange
      PROVE  s \in Bytes /\ o.err = FALSE /\ o.low = WhoIsAll /\ o.high = WhoIsAll
  <2>1. s = <<>>
    BY <1>5
  <2>2. Good(s).buf = <<>>
    BY <2>1, NoError
  <2> DEFINE d == Good(s)
  <2>3. DecodeWhoIs(d) = [low |-> WhoIsAll, high |-> WhoIsAll, err |-> FALSE]
    <3> HIDE DEF d
    <3> QED
      BY <2>2, RangeForm DEF d
  <2>4. o = [low |-> WhoIsAll, high |-> WhoIsAll, err |-> FALSE]
    BY <2>3
  <2>5. s \in Bytes
    BY <1>3, <2>1
  <2> HIDE DEF o, s, d
  <2> QED
    BY <2>4, <2>5
<1>6. WhoIs(x[1], x[2]) = Unconfirmed(ServiceWhoIs) \o s
  BY <1>2 DEF WhoIs
<1>7. s \in Bytes
  <2> HIDE DEF s, o, inRange
  <2> QED
    BY <1>4, <1>5
<1>8. BodyOf(DecodeAPDU(NewDecoder(WhoIs(x[1], x[2]))), ServiceWhoIs) = Good(s)
  <2> HIDE DEF s
  <2> QED
    BY <1>3, <1>6, <1>7, UnconfirmedBody
<1>9. WhoIsAsSent(x, o)
  <2> HIDE DEF s, o
  <2> QED
    BY <1>4, <1>5 DEF WhoIsAsSent
<1> HIDE DEF s
<1> QED
  BY <1>8, <1>9

\* What is read of an announcement.
LEMMA AnnouncementForm ==
  ASSUME NEW d
  PROVE  LET x1 == DecodeAppData(d)
             x2 == DecodeAppData(x1.d)
             x3 == DecodeAppData(x2.d)
             x4 == DecodeAppData(x3.d)
             y == DecodeIAm(d)
         IN  /\ x1.err = FALSE /\ x4.d.err = FALSE => y.err = FALSE
             /\ x1.x.t = "objectid" => y.type = x1.x.v[1] /\ y.instance = x1.x.v[2]
             /\ x1.err = FALSE /\ x2.x.t = "uint" => y.maxApdu = x2.x.v
             /\ x1.err = FALSE /\ x3.x.t = "uint" => y.segmentation = x3.x.v
             /\ x1.err = FALSE /\ x4.x.t = "uint" => y.vendor = x4.x.v
<1> DEFINE x1 == DecodeAppData(d)
           x2 == DecodeAppData(x1.d)
           x3 == DecodeAppData(x2.d)
           x4 == DecodeAppData(x3.d)
           y == DecodeIAm(d)
<1>1. x1.err = FALSE /\ x4.d.err = FALSE => y.err = FALSE
  BY DEF DecodeIAm
<1>2. x1.x.t = "objectid" => y.type = x1.x.v[1] /\ y.instance = x1.x.v[2]
  BY DEF DecodeIAm
<1>3. x1.err = FALSE /\ x2.x.t = "uint" => y.maxApdu = x2.x.v
  BY DEF DecodeIAm
<1>4. x1.err = FALSE /\ x3.x.t = "uint" => y.segmentation = x3.x.v
  BY DEF DecodeIAm
<1>5. x1.err = FALSE /\ x4.x.t = "uint" => y.vendor = x4.x.v
  BY DEF DecodeIAm
<1> HIDE DEF x1, x2, x3, x4, y
<1> QED
  BY <1>1, <1>2, <1>3, <1>4, <1>5 DEF x1, x2, x3, x4, y

\* The same of a value that is not signed, field by field.
LEMMA FieldRead ==
  ASSUME NEW x \in AppValues, x.t # "int", NEW s \in Bytes
  PROVE  LET y == DecodeAppData(Good(AppData(x, FALSE) \o s))
         IN  /\ AppData(x, FALSE) \in Bytes
             /\ y.d = Good(s) /\ y.err = FALSE
             /\ y.x.t = (IF x.t = "enum" THEN "uint" ELSE x.t) /\ y.x.v = x.v
<1> DEFINE y == DecodeAppData(Good(AppData(x, FALSE) \o s))
<1>2. AppData(x, FALSE) \in Bytes /\ y = [d |-> Good(s), x |-> Received(x), err |-> FALSE]
  BY ValueRead
<1>3. Received(x).t = (IF x.t = "enum" THEN "uint" ELSE x.t) /\ Received(x).v = x.v
  BY DEF Received
<1> HIDE DEF y
<1>4. y.d = Good(s) /\ y.err = FALSE /\ y.x = Received(x)
  BY <1>2
<1>5. y.x.t = (IF x.t = "enum" THEN "uint" ELSE x.t) /\ y.x.v = x.v
  BY <1>3, <1>4
<1> QED
  BY <1>2, <1>4, <1>5 DEF y

\* The device of an I-Am.
LEMMA AnnouncementsOfPeers ==
  ASSUME NEW i \in AppAnnouncements
  PROVE  IAmAsSent(i, DecodeIAm(BodyOf(DecodeAPDU(NewDecoder(IAm(i))), ServiceIAm)))
<1> DEFINE v1 == [t |-> "objectid", v |-> <<i.type, i.instance>>]
           v2 == [t |-> "uint", v |-> i.maxApdu]
           v3 == [t |-> "enum", v |-> i.segmentation]
           v4 == [t |-> "uint", v |-> i.vendor]
           a1 == AppData(v1, FALSE)
           a2 == AppData(v2, FALSE)
           a3 == AppData(v3, FALSE)
           a4 == AppData(v4, FALSE)
           s4 == a4 \o <<>>
           s3 == a3 \o s4
           s2 == a2 \o s3
           s1 == a1 \o s2
           u == Unconfirmed(ServiceIAm)
           x1 == DecodeAppData(Good(s1))
           x2 == DecodeAppData(x1.d)
           x3 == DecodeAppData(x2.d)
           x4 == DecodeAppData(x3.d)
           y == DecodeIAm(Good(s1))
<1>1. /\ i.type \in 0 .. MaxObject /\ i.instance \in 0 .. MaxInstance
      /\ i.maxApdu \in Word /\ i.segmentation \in Word /\ i.vendor \in Word
  BY DEF AppAnnouncements
<1>2. v1 \in AppValues
  <2>1. v1 \in [t : {"objectid"}, v : (0 .. MaxObject) \X (0 .. MaxInstance)]
    BY <1>1
  <2> HIDE DEF v1
  <2> QED
    BY <2>1 DEF AppValues
<1>3. v2 \in AppValues /\ v3 \in AppValues /\ v4 \in AppValues
  <2>1. \A w \in [t : {"uint", "int", "enum", "real"}, v : Word] : w \in AppValues
    BY DEF AppValues
  <2>2. v2 \in [t : {"uint", "int", "enum", "real"}, v : Word]
    BY <1>1
  <2>3. v3 \in [t : {"uint", "int", "enum", "real"}, v : Word]
    BY <1>1
  <2>4. v4 \in [t : {"uint", "int", "enum", "real"}, v : Word]
    BY <1>1
  <2> HIDE DEF v2, v3, v4
  <2> QED
    BY <2>1, <2>2, <2>3, <2>4
<1>4. <<>> \in Bytes /\ ServiceIAm \in Byte
  BY EmptySeq DEF Bytes, ServiceIAm, Byte
<1>0. /\ v1.t = "objectid" /\ v1.v = <<i.type, i.instance>>
      /\ v2.t = "uint" /\ v2.v = i.maxApdu
      /\ v3.t = "enum" /\ v3.v = i.segmentation
      /\ v4.t = "uint" /\ v4.v = i.vendor
  OBVIOUS
<1>25. IAm(i) = (((u \o a1) \o a2) \o a3) \o a4
  BY DEF IAm
<1> HIDE DEF v1, v2, v3, v4
<1>5. /\ a4 \in Bytes /\ DecodeAppData(Good(s4)).d = Good(<<>>)
      /\ DecodeAppData(Good(s4)).err = FALSE
      /\ DecodeAppData(Good(s4)).x.t = "uint" /\ DecodeAppData(Good(s4)).x.v = i.vendor
  BY <1>0, <1>3, <1>4, FieldRead
<1>6. s4 = a4 /\ s4 \in Bytes
  <2> HIDE DEF a4
  <2> QED
    BY <1>5, ConcatEmptySeq DEF Bytes
<1>7. /\ a3 \in Bytes /\ DecodeAppData(Good(s3)).d = Good(s4)
      /\ DecodeAppData(Good(s3)).x.t = "uint" /\ DecodeAppData(Good(s3)).x.v = i.segmentation
  <2> HIDE DEF s4
  <2> QED
    BY <1>0, <1>3, <1>6, FieldRead
<1>8. s3 \in Bytes
  <2> HIDE DEF a3, s4
  <2> QED
    BY <1>6, <1>7, AppendIn
<1>9. /\ a2 \in Bytes /\ DecodeAppData(Good(s2)).d = Good(s3)
      /\ DecodeAppData(Good(s2)).x.t = "uint" /\ DecodeAppData(Good(s2)).x.v = i.maxApdu
  <2> HIDE DEF s3
  <2> QED
    BY <1>0, <1>3, <1>8, FieldRead
<1>10. s2 \in Bytes
  <2> HIDE DEF a2, s3
  <2> QED
    BY <1>8, <1>9, AppendIn
<1>11. /\ a1 \in Bytes /\ x1.d = Good(s2) /\ x1.err = FALSE
       /\ x1.x.t = "objectid" /\ x1.x.v = <<i.type, i.instance>>
  <2> HIDE DEF s2
  <2> QED
    BY <1>0, <1>2, <1>10, FieldRead
<1>12. s1 \in Bytes
  <2> HIDE DEF a1, s2
  <2> QED
    BY <1>10, <1>11, AppendIn
<1> HIDE DEF x1
<1>13. x2.d = Good(s3) /\ x2.x.t = "uint" /\ x2.x.v = i.maxApdu
  <2> HIDE DEF s2, s3
  <2> QED
    BY <1>9, <1>11
<1> HIDE DEF x2
<1>14. x3.d = Good(s4) /\ x3.x.t = "uint" /\ x3.x.v = i.segmentation
  <2> HIDE DEF s3, s4
  <2> QED
    BY <1>7, <1>13
<1> HIDE DEF x3
<1>15. x4.d.err = FALSE /\ x4.x.t = "uint" /\ x4.x.v = i.vendor
  <2> HIDE DEF s4
  <2> QED
    BY <1>5, <1>14, NoError
<1> HIDE DEF x4
<1>16. /\ x1.err = FALSE /\ x4.d.err = FALSE => y.err = FALSE
       /\ x1.x.t = "objectid" => y.type = x1.x.v[1] /\ y.instance = x1.x.v[2]
       /\ x1.err = FALSE /\ x2.x.t = "uint" => y.maxApdu = x2.x.v
       /\ x1.err = FALSE /\ x3.x.t = "uint" => y.segmentation = x3.x.v
       /\ x1.err = FALSE /\ x4.x.t = "uint" => y.vendor = x4.x.v
  <2> HIDE DEF s1
  <2> QED
    BY AnnouncementForm DEF x1, x2, x3, x4
<1>18. u \in Bytes
  BY <1>4, UnconfirmedBody
<1>19. (((u \o a1) \o a2) \o a3) \o a4 = u \o s1
  <2> HIDE DEF u, a1, a2, a3, a4
  <2> DEFINE p1 == u \o a1
             p2 == p1 \o a2
  <2>1. p1 \in Bytes
    BY <1>11, <1>18, AppendIn
  <2>2. p2 \in Bytes
    <3> HIDE DEF p1
    <3> QED
      BY <1>9, <2>1, AppendIn
  <2>3. (p2 \o a3) \o a4 = p2 \o (a3 \o a4)
    <3> HIDE DEF p2
    <3> QED
      BY <1>5, <1>7, <2>2, Append3
  <2>4. (p1 \o a2) \o s3 = p1 \o (a2 \o s3)
    <3> HIDE DEF p1, s3
    <3> QED
      BY <1>8, <1>9, <2>1, Append3
  <2>5. (u \o a1) \o s2 = u \o (a1 \o s2)
    <3> HIDE DEF s2
    <3> QED
      BY <1>10, <1>11, <1>18, Append3
  <2>6. a3 \o a4 = s3
    <3> HIDE DEF s4
    <3> QED
      BY <1>6
  <2> HIDE DEF s3
  <2>7. (p2 \o a3) \o a4 = p1 \o s2
    BY <2>3, <2>4, <2>6
  <2> QED
    BY <2>5, <2>7
<1> HIDE DEF a1, a2, a3, a4, s1, u, y
<1>20. BodyOf(DecodeAPDU(NewDecoder(IAm(i))), ServiceIAm) = Good(s1)
  <2>1. IAm(i) = u \o s1
    BY <1>25, <1>19
  <2> QED
    BY <1>4, <1>12, <2>1, UnconfirmedBody DEF u
<1>21. y.err = FALSE
  BY <1>11, <1>15, <1>16
<1>22. y.type = i.type /\ y.instance = i.instance
  BY <1>11, <1>16
<1>23. y.maxApdu = i.maxApdu /\ y.segmentation = i.segmentation /\ y.vendor = i.vendor
  BY <1>11, <1>13, <1>14, <1>15, <1>16
<1> HIDE DEF s1
<1>24. IAmAsSent(i, y)
  BY <1>21, <1>22, <1>23 DEF IAmAsSent
<1> QED
  BY <1>20, <1>24 DEF y

-----------------------------------------------------------------------------
(* The connection.                                                          *)

\* A value, alone in its packet, is read as it was sent.
LEMMA ValuesOfPeers ==
  ASSUME NEW x \in AppValues
  PROVE  ValueAsSent(x, DecodeAppData(NewDecoder(AppData(x, FALSE))))
<1>1. <<>> \in Bytes
  BY DEF Bytes
<1>2. /\ AppData(x, FALSE) \in Bytes
      /\ DecodeAppData(Good(AppData(x, FALSE) \o <<>>)) =
           [d |-> Good(<<>>), x |-> Received(x), err |-> FALSE]
  BY <1>1, ValueRead
<1>3. AppData(x, FALSE) \o <<>> = AppData(x, FALSE)
  BY <1>2, ConcatEmptySeq DEF Bytes
<1>4. /\ NewDecoder(AppData(x, FALSE)) = Good(AppData(x, FALSE))
      /\ Good(<<>>).buf = <<>>
  BY NoError
<1>5. DecodeAppData(NewDecoder(AppData(x, FALSE))) =
        [d |-> Good(<<>>), x |-> Received(x), err |-> FALSE]
  BY <1>2, <1>3, <1>4
<1> DEFINE y == DecodeAppData(NewDecoder(AppData(x, FALSE)))
           z == Received(x)
           e == Good(<<>>)
<1>6. y = [d |-> e, x |-> z, err |-> FALSE] /\ e.buf = <<>>
  BY <1>4, <1>5
<1> HIDE DEF y, z, e
<1>8. y.err = FALSE /\ y.x = z /\ y.d.buf = <<>>
  BY <1>6
<1>7. ValueAsSent(x, y)
  BY <1>8 DEF ValueAsSent, z
<1> QED
  BY <1>7 DEF y

\* So is a date,
LEMMA DatesOfPeers ==
  ASSUME NEW x \in AppDates
  PROVE  LET y == DecodeDate(NewDecoder(Date(x)), 4)
         IN  DateAsSent(x, [v |-> y.v, err |-> y.d.err])
  BY DateRead, NoError DEF DateAsSent

\* and a BVLC header.
LEMMA FramesOfPeers ==
  ASSUME NEW x \in [function : Byte, length : Port, data : Seq(Byte)]
  PROVE  FrameAsSent(x, DecodeBVLC(NewDecoder(BVLC(x))))
  BY FrameRead, NoError DEF FrameAsSent

\* A sequence of bytes in two.
LEMMA SplitAt ==
  ASSUME NEW a \in Bytes, NEW n \in 0 .. Len(a)
  PROVE  \E x, y \in Bytes : a = x \o y /\ Len(x) = n
<1> DEFINE x == [i \in 1 .. n |-> a[i]]
           y == [i \in 1 .. Len(a) - n |-> a[n + i]]
<1>1. Len(a) \in Nat /\ n \in Nat /\ Len(a) - n \in Nat /\ \A i \in 1 .. Len(a) : a[i] \in Byte
  BY ElementOfSeq DEF Bytes
<1>2. x \in Bytes /\ Len(x) = n
  BY <1>1, BytesOf
<1>3. y \in Bytes /\ Len(y) = Len(a) - n
  <2>1. y \in [1 .. Len(a) - n -> Byte]
    BY <1>1
  <2> QED
    BY <1>1, <2>1, BytesOf
<1>4. \A i \in 1 .. n : x[i] = a[i]
  OBVIOUS
<1>5. \A i \in 1 .. Len(a) - n : y[i] = a[n + i]
  OBVIOUS
<1> HIDE DEF x, y
<1>6. /\ x \o y \in Bytes /\ Len(x \o y) = Len(a)
      /\ \A i \in 1 .. Len(a) : (x \o y)[i] = IF i <= n THEN x[i] ELSE y[i - n]
  BY <1>1, <1>2, <1>3, JoinAt
<1>7. \A i \in 1 .. Len(a) : (x \o y)[i] = a[i]
  <2> SUFFICES ASSUME NEW i \in 1 .. Len(a) PROVE (x \o y)[i] = a[i]
    OBVIOUS
  <2>1. CASE i <= n
    BY <1>1, <1>4, <1>6, <2>1
  <2>2. CASE ~(i <= n)
    <3>1. i - n \in 1 .. Len(a) - n /\ n + (i - n) = i
      BY <1>1, <2>2
    <3> QED
      BY <1>5, <1>6, <2>2, <3>1
  <2> QED
    BY <2>1, <2>2
<1>8. x \o y = a
  BY <1>6, <1>7, SeqEqual DEF Bytes
<1> QED
  BY <1>2, <1>3, <1>8

\* Bytes have a length.
LEMMA LenBytes == \A a : a \in Bytes => Len(a) \in Nat
  BY DEF Bytes

\* The decoder of what was left of some bytes follows the decoder of them all
\* until it misses one.
Follows(d, e, tail) ==
  \/ d.err = TRUE
  \/ d.buf \in Bytes /\ d = Good(d.buf) /\ e = Good(d.buf \o tail)

\* A decoder of some bytes is followed by a decoder of them and more.
LEMMA FollowsGood ==
  ASSUME NEW a \in Bytes, NEW tail \in Bytes
  PROVE  Follows(Good(a), Good(a \o tail), tail)
  BY NoError DEF Follows

\* Once it has missed one nothing more is read.
LEMMA StuckDecode ==
  ASSUME NEW d, d.err = TRUE, NEW n
  PROVE  Decode(d, n) = [d |-> d, v |-> Zeros(n)]
  BY DEF Decode

\* What both have read (x and y), the first from the decoder d.
ReadAlike(d, x, y, tail) ==
  /\ Follows(x.d, y.d, tail)
  /\ x.d.err # TRUE => x.v = y.v /\ d.err = FALSE

\* Reading n bytes from both leaves decoders that follow each other.
LEMMA CutDecode ==
  ASSUME NEW d, NEW e, NEW tail \in Bytes, Follows(d, e, tail), NEW n \in Nat
  PROVE  /\ ReadAlike(d, Decode(d, n), Decode(e, n), tail)
         /\ Decode(d, n).d.err # TRUE =>
               n <= Len(d.buf) /\ Len(Decode(d, n).d.buf) = Len(d.buf) - n
<1> DEFINE x == Decode(d, n)
           y == Decode(e, n)
<1> SUFFICES /\ Follows(x.d, y.d, tail)
             /\ x.d.err # TRUE => /\ x.v = y.v /\ d.err = FALSE
                                  /\ n <= Len(d.buf) /\ Len(x.d.buf) = Len(d.buf) - n
  <2> HIDE DEF x, y
  <2>1. x.d.err # TRUE => x.v = y.v /\ d.err = FALSE
    OBVIOUS
  <2>2. ReadAlike(d, x, y, tail)
    BY <2>1 DEF ReadAlike
  <2> QED
    BY <2>2 DEF x, y
<1>1. CASE d.err = TRUE
  <2>1. x = [d |-> d, v |-> Zeros(n)]
    BY <1>1, StuckDecode
  <2>2. x.d.err = TRUE
    BY <1>1, <2>1
  <2>3. Follows(x.d, y.d, tail)
    <3> HIDE DEF x, y
    <3> QED
      BY <2>2 DEF Follows
  <2> QED
    BY <2>2, <2>3
<1>2. CASE d.err # TRUE
  <2> DEFINE a == d.buf
  <2>1. a \in Bytes /\ d = Good(a) /\ e = Good(a \o tail) /\ d.err = FALSE
    BY <1>2, NoError DEF Follows
  <2>2. CASE Len(a) < n
    <3>1. x.d.err = TRUE
      BY <2>1, <2>2 DEF Decode
    <3> QED
      BY <3>1 DEF Follows
  <2>3. CASE ~(Len(a) < n)
    <3>0. Len(a) \in Nat
      BY <2>1 DEF Bytes
    <3>1. PICK p, q \in Bytes : a = p \o q /\ Len(p) = n
      <4>1. n \in 0 .. Len(a)
        BY <2>3, <3>0
      <4> QED
        BY <2>1, <4>1, SplitAt
    <3>2. x = [d |-> Good(q), v |-> p]
      BY <2>1, <3>1, ReadFront
    <3>3. (p \o q) \o tail = p \o (q \o tail) /\ q \o tail \in Bytes
      BY <3>1, Append3, AppendIn
    <3>4. y = [d |-> Good(q \o tail), v |-> p]
      BY <2>1, <3>1, <3>3, ReadFront
    <3>5. Len(a) = Len(p) + Len(q) /\ Len(p) \in Nat /\ Len(q) \in Nat
      BY <3>1, JoinAt, LenBytes
    <3>6. x.d = Good(q) /\ y.d = Good(q \o tail) /\ x.v = p /\ y.v = p
      BY <3>2, <3>4
    <3>7. Follows(x.d, y.d, tail)
      BY <3>1, <3>6, FollowsGood
    <3>8. Len(x.d.buf) = Len(q)
      BY <3>6, NoError
    <3>9. d.err = FALSE /\ n <= Len(d.buf) /\ Len(x.d.buf) = Len(d.buf) - n
      <4> HIDE DEF x
      <4> QED
        BY <2>1, <3>1, <3>5, <3>8
    <3> QED
      BY <3>6, <3>7, <3>9
  <2> QED
    BY <2>2, <2>3
<1> QED
  BY <1>1, <1>2

\* Bytes that are not there are an error, and are read as zeros.
LEMMA Missing ==
  ASSUME NEW p \in Bytes, NEW n \in Nat, Len(p) < n
  PROVE  Decode(Good(p), n) = [d |-> [buf |-> <<>>, err |-> TRUE], v |-> Zeros(n)]
  BY NoError DEF Decode

\* What is missed is read as zeros.
LEMMA Zeroed ==
  ASSUME NEW d, d = Good(d.buf) \/ d.err = TRUE, NEW n, Decode(d, n).d.err = TRUE
  PROVE  Decode(d, n).v = Zeros(n)
<1>1. CASE d.err = TRUE
  <2>1. Decode(d, n) = [d |-> d, v |-> Zeros(n)]
    BY <1>1, StuckDecode
  <2> QED
    BY <2>1
<1>2. CASE d.err # TRUE
  <2> DEFINE a == d.buf
  <2>1. d = Good(a) /\ d.err = FALSE
    BY <1>2, NoError
  <2>2. CASE Len(a) < n
    BY <2>1, <2>2 DEF Decode
  <2>3. CASE ~(Len(a) < n)
    <3>1. Decode(d, n) = [d |-> [d EXCEPT !.buf = Rest(@, n)], v |-> SubSeq(d.buf, 1, n)]
      BY <2>1, <2>3 DEF Decode
    <3>2. [d EXCEPT !.buf = Rest(@, n)].err = FALSE
      BY <2>1 DEF Good
    <3>3. Decode(d, n).d = [d EXCEPT !.buf = Rest(@, n)]
      BY <3>1
    <3> QED
      BY <3>2, <3>3
  <2> QED
    BY <2>2, <2>3
<1> QED
  BY <1>1, <1>2

\* The same of a tag.
ReadsTag(d, x, y, tail) ==
  /\ Follows(x.d, y.d, tail)
  /\ x.d.err # TRUE => x.tag = y.tag /\ x.meta = y.meta /\ d.err = FALSE

\* The number of a tag is read alike from both.
LEMMA CutTag ==
  ASSUME NEW d, NEW e, NEW tail \in Bytes, Follows(d, e, tail)
  PROVE  ReadsTag(d, TagNumber(d), TagNumber(e), tail)
<1> DEFINE x1 == Decode(d, 1)
           y1 == Decode(e, 1)
           x2 == Decode(x1.d, 1)
           y2 == Decode(y1.d, 1)
           x == TagNumber(d)
           y == TagNumber(e)
<1> SUFFICES /\ Follows(x.d, y.d, tail)
             /\ x.d.err # TRUE => x.tag = y.tag /\ x.meta = y.meta /\ d.err = FALSE
  BY DEF ReadsTag
<1>1. x = IF x1.v[1] >= 240 THEN [d |-> x2.d, tag |-> x2.v[1], meta |-> x1.v[1]]
          ELSE [d |-> x1.d, tag |-> x1.v[1] \div 16, meta |-> x1.v[1]]
  BY DEF TagNumber
<1>2. y = IF y1.v[1] >= 240 THEN [d |-> y2.d, tag |-> y2.v[1], meta |-> y1.v[1]]
          ELSE [d |-> y1.d, tag |-> y1.v[1] \div 16, meta |-> y1.v[1]]
  BY DEF TagNumber
<1>3. Follows(x1.d, y1.d, tail) /\ (x1.d.err # TRUE => x1.v = y1.v /\ d.err = FALSE)
  <2>1. ReadAlike(d, x1, y1, tail)
    BY CutDecode
  <2> HIDE DEF x1, y1
  <2> QED
    BY <2>1 DEF ReadAlike
<1>4. Follows(x2.d, y2.d, tail) /\ (x2.d.err # TRUE => x2.v = y2.v /\ x1.d.err = FALSE)
  <2> HIDE DEF x1, y1
  <2>1. ReadAlike(x1.d, x2, y2, tail)
    BY <1>3, CutDecode
  <2> HIDE DEF x2, y2
  <2> QED
    BY <2>1 DEF ReadAlike
<1>5. x1.d.err = TRUE => x2.d.err = TRUE
  <2> SUFFICES ASSUME x1.d.err = TRUE PROVE x2.d.err = TRUE
    OBVIOUS
  <2>1. x2 = [d |-> x1.d, v |-> Zeros(1)]
    BY StuckDecode
  <2> HIDE DEF x1, x2
  <2> QED
    BY <2>1
<1> HIDE DEF x1, y1, x2, y2, x, y
<1>6. CASE x1.d.err = TRUE
  <2>1. x.d.err = TRUE
    BY <1>1, <1>5, <1>6
  <2> QED
    BY <2>1 DEF Follows, x, y
<1>7. CASE x1.d.err # TRUE /\ x1.v[1] >= 240
  <2>1. x = [d |-> x2.d, tag |-> x2.v[1], meta |-> x1.v[1]]
    BY <1>1, <1>7
  <2>2. y = [d |-> y2.d, tag |-> y2.v[1], meta |-> y1.v[1]]
    BY <1>2, <1>3, <1>7
  <2>3. x.d = x2.d /\ y.d = y2.d /\ x.tag = x2.v[1] /\ y.tag = y2.v[1]
        /\ x.meta = x1.v[1] /\ y.meta = y1.v[1]
    BY <2>1, <2>2
  <2>4. x2.d.err # TRUE => x1.d.err = FALSE /\ x.tag = y.tag /\ x.meta = y.meta /\ d.err = FALSE
    BY <1>3, <1>4, <1>7, <2>3
  <2> QED
    BY <1>4, <2>3, <2>4 DEF x, y
<1>8. CASE x1.d.err # TRUE /\ ~(x1.v[1] >= 240)
  <2>1. x = [d |-> x1.d, tag |-> x1.v[1] \div 16, meta |-> x1.v[1]]
    BY <1>1, <1>8
  <2>2. y = [d |-> y1.d, tag |-> y1.v[1] \div 16, meta |-> y1.v[1]]
    BY <1>2, <1>3, <1>8
  <2> QED
    BY <1>3, <1>8, <2>1, <2>2 DEF x, y
<1> QED
  BY <1>6, <1>7, <1>8

\* The length in a tag is read alike; a length that is missed is 0.
LEMMA CutLength ==
  ASSUME NEW d, NEW e, NEW tail \in Bytes, Follows(d, e, tail), NEW meta \in Byte
  PROVE  /\ ReadAlike(d, TagValue(d, meta), TagValue(e, meta), tail)
         /\ d.err # TRUE /\ TagValue(d, meta).d.err = TRUE =>
               TagValue(d, meta).v = 0 /\ meta % 8 = 5
<1> DEFINE m == meta % 8
           x1 == Decode(d, 1)
           y1 == Decode(e, 1)
           k == IF x1.v[1] = 255 THEN 4 ELSE 2
           l == IF y1.v[1] = 255 THEN 4 ELSE 2
           x2 == Decode(x1.d, k)
           y2 == Decode(y1.d, l)
           x == TagValue(d, meta)
           y == TagValue(e, meta)
<1> SUFFICES /\ Follows(x.d, y.d, tail)
             /\ x.d.err # TRUE => x.v = y.v /\ d.err = FALSE
             /\ d.err # TRUE /\ x.d.err = TRUE => x.v = 0 /\ m = 5
  <2> HIDE DEF x, y
  <2>1. ReadAlike(d, x, y, tail)
    BY DEF ReadAlike
  <2> QED
    BY <2>1 DEF x, y
<1>0. m \in 0 .. 7
  BY DEF Byte
<1>3. Follows(x1.d, y1.d, tail) /\ (x1.d.err # TRUE => x1.v = y1.v /\ d.err = FALSE)
  <2>1. ReadAlike(d, x1, y1, tail)
    BY CutDecode
  <2> HIDE DEF x1, y1
  <2> QED
    BY <2>1 DEF ReadAlike
<1>4. x1.d.err # TRUE =>
         k = l /\ Follows(x2.d, y2.d, tail) /\ (x2.d.err # TRUE => x2.v = y2.v)
  <2> SUFFICES ASSUME x1.d.err # TRUE
               PROVE k = l /\ Follows(x2.d, y2.d, tail) /\ (x2.d.err # TRUE => x2.v = y2.v)
    OBVIOUS
  <2>1. k = l /\ k \in Nat
    BY <1>3
  <2> HIDE DEF x1, y1, k, l
  <2>2. ReadAlike(x1.d, x2, y2, tail)
    BY <1>3, <2>1, CutDecode
  <2> HIDE DEF x2, y2
  <2> QED
    BY <2>1, <2>2 DEF ReadAlike
<1>5. CASE m < 5
  <2>1. x = [d |-> d, v |-> m] /\ y = [d |-> e, v |-> m]
    BY <1>0, <1>5 DEF TagValue
  <2> HIDE DEF x, y, m
  <2>2. x.d = d /\ y.d = e /\ x.v = y.v
    BY <2>1
  <2>3. x.d.err # TRUE => d.err = FALSE
    BY <2>2, NoError DEF Follows
  <2> QED
    BY <2>2, <2>3 DEF x, y
<1>6. CASE m > 5
  <2>1. x = [d |-> d, v |-> 0] /\ y = [d |-> e, v |-> 0]
    BY <1>0, <1>6 DEF TagValue
  <2> HIDE DEF x, y, m
  <2>2. x.d = d /\ y.d = e /\ x.v = y.v
    BY <2>1
  <2>3. x.d.err # TRUE => d.err = FALSE
    BY <2>2, NoError DEF Follows
  <2> QED
    BY <2>2, <2>3 DEF x, y
<1>7. CASE m = 5
  <2>1. x = IF x1.v[1] < 254 THEN [d |-> x1.d, v |-> x1.v[1]]
            ELSE [d |-> x2.d, v |-> LengthOf(Widen(x2.v))]
    BY <1>7 DEF TagValue
  <2>2. y = IF y1.v[1] < 254 THEN [d |-> y1.d, v |-> y1.v[1]]
            ELSE [d |-> y2.d, v |-> LengthOf(Widen(y2.v))]
    BY <1>7 DEF TagValue
  <2>3. d = Good(d.buf) \/ d.err = TRUE
    BY DEF Follows
  <2>4. x1.d.err = TRUE => x1.v = Zeros(1)
    BY <2>3, Zeroed
  <2>5. Zeros(1)[1] = 0
    BY DEF Zeros
  <2>6. CASE x1.d.err = TRUE
    <3>1. x1.v[1] = 0
      BY <2>4, <2>5, <2>6
    <3>2. x = [d |-> x1.d, v |-> 0]
      BY <2>1, <3>1
    <3>3. x.d.err = TRUE /\ x.v = 0
      BY <2>6, <3>2
    <3>4. Follows(x.d, y.d, tail)
      <4> HIDE DEF x, y
      <4> QED
        BY <3>3 DEF Follows
    <3> QED
      BY <1>7, <3>3, <3>4
  <2>7. CASE x1.d.err # TRUE /\ x1.v[1] < 254
    <3>1. x = [d |-> x1.d, v |-> x1.v[1]] /\ y = [d |-> y1.d, v |-> x1.v[1]]
      BY <1>3, <2>1, <2>2, <2>7
    <3>2. x.d = x1.d /\ y.d = y1.d /\ x.v = y.v
      BY <3>1
    <3> HIDE DEF x1, y1, x, y
    <3> QED
      BY <1>3, <2>7, <3>2 DEF x, y
  <2>8. CASE x1.d.err # TRUE /\ ~(x1.v[1] < 254)
    <3>1. x = [d |-> x2.d, v |-> LengthOf(Widen(x2.v))] /\ y = [d |-> y2.d, v |-> LengthOf(Widen(y2.v))]
      BY <1>3, <2>1, <2>2, <2>8
    <3>2. x.d = x2.d /\ y.d = y2.d /\ x.v = LengthOf(Widen(x2.v)) /\ y.v = LengthOf(Widen(y2.v))
      BY <3>1
    <3>3. x2.d.err = TRUE => x2.v = Zeros(k)
      <4>1. x1.d = Good(x1.d.buf) \/ x1.d.err = TRUE
        BY <1>3 DEF Follows
      <4> HIDE DEF x1, k
      <4> QED
        BY <4>1, Zeroed
    <3>4. LengthOf(Widen(Zeros(k))) = 0
      <4>1. k = 2 \/ k = 4
        OBVIOUS
      <4>2. LengthOf(Widen(Zeros(2))) = 0
        BY SMT DEF LengthOf, Widen, Zeros, Natural
      <4>3. LengthOf(Widen(Zeros(4))) = 0
        BY SMT DEF LengthOf, Widen, Zeros, Natural
      <4> QED
        BY <4>1, <4>2, <4>3
    <3> HIDE DEF x1, y1, x2, y2, x, y, k, l
    <3> QED
      BY <1>3, <1>4, <1>7, <2>8, <3>2, <3>3, <3>4 DEF x, y
  <2> QED
    BY <2>6, <2>7, <2>8
<1>8. m < 5 \/ m > 5 \/ m = 5
  BY <1>0
<1> QED
  BY <1>5, <1>6, <1>7, <1>8

\* An unsigned number leaves both decoders alike.
LEMMA CutUnsigned ==
  ASSUME NEW d, NEW e, NEW tail \in Bytes, Follows(d, e, tail), NEW n \in Nat
  PROVE  Follows(DecodeUnsigned(d, n).d, DecodeUnsigned(e, n).d, tail)
<1>1. CASE n < 1 \/ n > 4
  <2>1. \A f : DecodeUnsigned(f, n) = [d |-> f, v |-> Zeros(4)]
    BY <1>1 DEF DecodeUnsigned
  <2>2. DecodeUnsigned(d, n).d = d /\ DecodeUnsigned(e, n).d = e
    BY <2>1
  <2> QED
    BY <2>2
<1>2. CASE ~(n < 1 \/ n > 4)
  <2>1. \A f : DecodeUnsigned(f, n).d = Decode(f, n).d
    BY <1>2, SMT DEF DecodeUnsigned
  <2>2. ReadAlike(d, Decode(d, n), Decode(e, n), tail)
    BY CutDecode
  <2> QED
    BY <2>1, <2>2 DEF ReadAlike
<1> QED
  BY <1>1, <1>2

\* After the error a tag is the tag of a null.
LEMMA StuckTag ==
  ASSUME NEW d, d.err = TRUE
  PROVE  /\ TagNumber(d) = [d |-> d, tag |-> 0, meta |-> 0]
         /\ TagNumberAndValue(d) = [d |-> d, tag |-> 0, meta |-> 0, v |-> 0]
<1>1. Decode(d, 1) = [d |-> d, v |-> Zeros(1)] /\ Zeros(1)[1] = 0
  <2>1. Decode(d, 1) = [d |-> d, v |-> Zeros(1)]
    BY StuckDecode
  <2>2. Zeros(1)[1] = 0
    BY DEF Zeros
  <2> QED
    BY <2>1, <2>2
<1>2. TagNumber(d) = [d |-> d, tag |-> 0, meta |-> 0]
  <2> DEFINE x == Decode(d, 1)
             y == Decode(x.d, 1)
  <2>1. TagNumber(d) = IF x.v[1] >= 240 THEN [d |-> y.d, tag |-> y.v[1], meta |-> x.v[1]]
                       ELSE [d |-> x.d, tag |-> x.v[1] \div 16, meta |-> x.v[1]]
    BY DEF TagNumber
  <2>2. x.d = d /\ x.v[1] = 0
    BY <1>1
  <2>3. ~(0 >= 240) /\ 0 \div 16 = 0
    BY SMT
  <2> HIDE DEF x, y
  <2> QED
    BY <2>1, <2>2, <2>3
<1>3. TagValue(d, 0) = [d |-> d, v |-> 0]
  BY SMT DEF TagValue
<1> DEFINE t == TagNumber(d)
<1>4. TagNumberAndValue(d) = [d |-> TagValue(t.d, t.meta).d, tag |-> t.tag, meta |-> t.meta,
                              v |-> TagValue(t.d, t.meta).v]
  BY DEF TagNumberAndValue, ValueOf
<1>5. t.d = d /\ t.tag = 0 /\ t.meta = 0
  BY <1>2
<1> HIDE DEF t
<1>6. TagNumberAndValue(d) = [d |-> d, tag |-> 0, meta |-> 0, v |-> 0]
  BY <1>3, <1>4, <1>5
<1> QED
  BY <1>2, <1>6

\* A decoder in error reads a value that is Null.
LEMMA StuckValue ==
  ASSUME NEW d, d.err = TRUE
  PROVE  DecodeAppData(d) = [d |-> d, x |-> Null, err |-> FALSE]
<1> DEFINE t == TagNumberAndValue(d)
<1>1. DecodeAppData(d) = AppDataOfTag(t.d, t.tag, t.v)
  BY DEF DecodeAppData
<1>2. t = [d |-> d, tag |-> 0, meta |-> 0, v |-> 0]
  BY StuckTag
<1>3. t.d = d /\ t.tag = 0 /\ t.v = 0
  BY <1>2
<1> HIDE DEF t
<1>4. AppDataOfTag(d, 0, 0) = [d |-> d, x |-> Null, err |-> FALSE]
  BY OfTag
<1> QED
  BY <1>1, <1>3, <1>4

\* The bytes behind a tag, some of them missing, are an error.
LEMMA CutData ==
  ASSUME NEW x \in AppValues, NEW p \in Bytes, NEW q \in Bytes, q # <<>>, p \o q = DataOf(x)
  PROVE  LET z == AppDataOfTag(Good(p), TagOf(x), SizeOf(x))
         IN  z.d.err = TRUE /\ z.err = TRUE
<1> DEFINE b == DataOf(x)
           d == Good(p)
           z == AppDataOfTag(d, TagOf(x), SizeOf(x))
<1>0. Len(p) \in Nat /\ Len(q) \in Nat \ {0} /\ Len(b) = Len(p) + Len(q) /\ Len(p) < Len(b)
  <2>1. Len(q) \in Nat /\ Len(q) # 0 /\ Len(p) \in Nat
    BY LenBytes, EmptySeq DEF Bytes
  <2>2. Len(p \o q) = Len(p) + Len(q)
    BY JoinAt
  <2> QED
    BY <2>1, <2>2
<1>1. \A n \in Nat : Len(p) < n => Decode(d, n).d.err = TRUE
  <2> SUFFICES ASSUME NEW n \in Nat, Len(p) < n PROVE Decode(d, n).d.err = TRUE
    OBVIOUS
  <2>1. Decode(d, n) = [d |-> [buf |-> <<>>, err |-> TRUE], v |-> Zeros(n)]
    BY Missing
  <2> QED
    BY <2>1
<1>2. \A t, y : y.d.err = TRUE => Valued(t, y).d.err = TRUE /\ Valued(t, y).err = TRUE
  BY DEF Valued
<1>3. CASE x.t \in {"uint", "int", "enum"}
  <2> DEFINE n == ValueLength(x.v)
  <2>1. x.v \in Word
    BY <1>3 DEF AppValues, Null
  <2>2. b = Unsigned(x.v) /\ SizeOf(x) = n /\ TagOf(x) = CASE x.t = "uint" -> 2 [] x.t = "int" -> 3 [] x.t = "enum" -> 9
    BY <1>3 DEF DataOf, SizeOf, TagOf
  <2>3. n \in 1 .. 4 /\ Len(b) = n
    BY <2>1, <2>2, UnsignedBytes
  <2>4. Decode(d, n).d.err = TRUE
    <3> HIDE DEF n, b, d
    <3> QED
      BY <1>0, <1>1, <2>3
  <2> HIDE DEF n, d
  <2>5. DecodeUnsigned(d, n).d = Decode(d, n).d
    BY <2>3, SMT DEF DecodeUnsigned
  <2>6. DecodeSigned(d, n).d = DecodeUnsigned(d, n).d
    <3> DEFINE y == DecodeUnsigned(d, n)
    <3>1. \A v : [y EXCEPT !.v = v].d = y.d
      <4>1. y = [d |-> y.d, v |-> y.v]
        BY DEF DecodeUnsigned
      <4> HIDE DEF y
      <4> QED
        BY <4>1
    <3> HIDE DEF y
    <3> QED
      BY <2>3, <3>1, SMT DEF DecodeSigned, y
  <2>7. \/ z = Valued("uint", DecodeUnsigned(d, n)) \/ z = Valued("int", DecodeSigned(d, n))
    <3>1. /\ AppDataOfTag(d, 2, n) = Valued("uint", DecodeUnsigned(d, n))
          /\ AppDataOfTag(d, 3, n) = Valued("int", DecodeSigned(d, n))
          /\ AppDataOfTag(d, 9, n) = Valued("uint", DecodeUnsigned(d, n))
      BY OfTag
    <3> QED
      BY <1>3, <2>2, <3>1
  <2> HIDE DEF z
  <2>8. DecodeUnsigned(d, n).d.err = TRUE /\ DecodeSigned(d, n).d.err = TRUE
    BY <2>4, <2>5, <2>6
  <2> QED
    BY <1>2, <2>7, <2>8 DEF z, d
<1>4. CASE x.t = "real"
  <2>1. x.v \in Bytes /\ Len(x.v) = 4
    BY <1>4, WordBytes DEF AppValues, Null
  <2>2. b = x.v /\ TagOf(x) = 4
    BY <1>4 DEF DataOf, TagOf
  <2>3. z = Valued("real", Decode(d, 4))
    BY <2>2, OfTag
  <2>4. Decode(d, 4).d.err = TRUE
    <3> HIDE DEF b, d
    <3> QED
      BY <1>0, <1>1, <2>1, <2>2
  <2> HIDE DEF z, d
  <2> QED
    BY <1>2, <2>3, <2>4 DEF z, d
<1>5. CASE x.t = "double"
  <2>1. x.v \in Bytes /\ Len(x.v) = 8
    <3>1. x.v \in [1 .. 8 -> Byte] /\ 8 \in Nat
      BY <1>5 DEF AppValues, Null
    <3> QED
      BY <3>1, BytesOf
  <2>2. b = x.v /\ TagOf(x) = 5
    BY <1>5 DEF DataOf, TagOf
  <2>3. z = Valued("double", Decode(d, 8))
    BY <2>2, OfTag
  <2>4. Decode(d, 8).d.err = TRUE
    <3> HIDE DEF b, d
    <3> QED
      BY <1>0, <1>1, <2>1, <2>2
  <2> HIDE DEF z, d
  <2> QED
    BY <1>2, <2>3, <2>4 DEF z, d
<1>6. CASE x.t \in {"bool", "null"}
  <2>1. b = <<>>
    BY <1>6 DEF DataOf
  <2>2. Len(b) = 0
    BY <2>1
  <2> QED
    BY <1>0, <2>2
<1>7. CASE x.t = "objectid"
  <2>1. x.v \in (0 .. MaxObject) \X (0 .. MaxInstance)
    BY <1>7 DEF AppValues, Null
  <2>2. /\ x.v[1] \in Nat /\ x.v[1] <= MaxObject /\ x.v[2] \in Nat /\ x.v[2] <= MaxInstance
    BY <2>1
  <2>3. b = ObjectId(x.v[1], x.v[2]) /\ TagOf(x) = 12
    BY <1>7 DEF DataOf, TagOf
  <2>4. Len(b) = 4
    BY <2>2, <2>3, ObjectIdRead
  <2>5. Decode(d, 4).d.err = TRUE
    <3> HIDE DEF b, d
    <3> QED
      BY <1>0, <1>1, <2>4
  <2>6. DecodeObjectId(d).d = Decode(d, 4).d
    BY DEF DecodeObjectId
  <2>7. \E v : z = Valued("objectid", [d |-> DecodeObjectId(d).d, v |-> v])
    BY <2>3, OfTag
  <2>8. PICK v : z = Valued("objectid", [d |-> DecodeObjectId(d).d, v |-> v])
    BY <2>7
  <2> DEFINE y == [d |-> DecodeObjectId(d).d, v |-> v]
  <2>9. y.d.err = TRUE
    BY <2>5, <2>6
  <2> HIDE DEF z, d, y
  <2> QED
    BY <1>2, <2>8, <2>9 DEF z, d, y
<1>8. CASE x.t = "string"
  <2> DEFINE n == Len(x.v) + 1
             s == DecodeString(d, n - 1)
             k == Decode(d, 1)
             t == Decode(k.d, n - 1)
  <2>1. x.v \in Bytes /\ Len(x.v) \in Nat /\ n \in Nat /\ n > 0 /\ n - 1 = Len(x.v)
    BY <1>8 DEF AppValues, Null, Bytes
  <2>2. b = <<0>> \o x.v /\ TagOf(x) = 7 /\ SizeOf(x) = n
    BY <1>8 DEF DataOf, TagOf, SizeOf
  <2>3. Len(b) = n
    <3>1. <<0>> \in Bytes /\ Len(<<0>>) = 1
      BY DEF Bytes, Byte
    <3> QED
      BY <2>1, <2>2, <3>1, JoinAt
  <2>4. z = [d |-> s.d, x |-> [t |-> "string", v |-> s.v], err |-> s.err]
    BY <2>1, <2>2, OfTag
  <2>5. k.d.err = TRUE => s.d.err = TRUE /\ s.err = TRUE
    <3> SUFFICES ASSUME k.d.err = TRUE PROVE s.d.err = TRUE /\ s.err = TRUE
      OBVIOUS
    <3>1. s = [d |-> k.d, v |-> <<>>, err |-> TRUE]
      BY DEF DecodeString
    <3> HIDE DEF s, k
    <3> QED
      BY <3>1
  <2>6. k.d.err # TRUE => t.d.err = TRUE /\ k.v = <<0>>
    <3> SUFFICES ASSUME k.d.err # TRUE PROVE t.d.err = TRUE /\ k.v = <<0>>
      OBVIOUS
    <3>1. 1 <= Len(p)
      <4> HIDE DEF k, d
      <4>1. Len(p) < 1 => k.d.err = TRUE
        BY <1>1 DEF k
      <4>2. ~(Len(p) < 1)
        BY <4>1
      <4> QED
        BY <1>0, <4>2
    <3>2. 1 \in 0 .. Len(p)
      BY <1>0, <3>1
    <3>3. PICK p1, p2 \in Bytes : p = p1 \o p2 /\ Len(p1) = 1
      BY <3>2, SplitAt
    <3>4. k = [d |-> Good(p2), v |-> p1]
      BY <3>3, ReadFront
    <3>5. p1 = <<0>>
      <4>1. p1[1] = 0
        <5>1. p[1] = p1[1]
          <6>1. \A i \in 1 .. Len(p1) + Len(p2) : (p1 \o p2)[i] = IF i <= Len(p1) THEN p1[i] ELSE p2[i - Len(p1)]
            BY <3>3, JoinAt
          <6>2. Len(p2) \in Nat
            BY <3>3, LenBytes
          <6> QED
            BY <3>3, <6>1, <6>2
        <5>2. b[1] = p[1]
          <6>1. \A i \in 1 .. Len(p) + Len(q) : (p \o q)[i] = IF i <= Len(p) THEN p[i] ELSE q[i - Len(p)]
            BY JoinAt
          <6> QED
            BY <1>0, <3>1, <6>1
        <5>3. b[1] = 0
          <6>1. <<0>> \in Bytes /\ Len(<<0>>) = 1 /\ <<0>>[1] = 0
            BY DEF Bytes, Byte
          <6> QED
            BY <2>1, <2>2, <6>1, JoinAt
        <5> QED
          BY <5>1, <5>2, <5>3
      <4>2. p1 \in Seq(Byte) /\ Len(p1) = 1
        BY <3>3 DEF Bytes
      <4> HIDE DEF b
      <4> QED
        BY <4>1, <4>2
    <3>6. Len(p2) < n - 1 /\ n - 1 \in Nat
      <4>1. Len(p) = 1 + Len(p2) /\ Len(p2) \in Nat
        BY <3>3, JoinAt, LenBytes
      <4> QED
        BY <1>0, <2>1, <2>3, <4>1
    <3>7. Decode(Good(p2), n - 1) = [d |-> [buf |-> <<>>, err |-> TRUE], v |-> Zeros(n - 1)]
      BY <3>3, <3>6, Missing
    <3>8. k.d = Good(p2) /\ k.v = p1
      BY <3>4
    <3> HIDE DEF k, n
    <3> QED
      BY <3>5, <3>7, <3>8
  <2>7. k.d.err = FALSE /\ t.d.err = TRUE /\ k.v = << 0 >> => s.d.err = TRUE /\ s.err = TRUE
    <3> SUFFICES ASSUME k.d.err = FALSE, t.d.err = TRUE, k.v = << 0 >> PROVE s.d.err = TRUE /\ s.err = TRUE
      OBVIOUS
    <3>0. k.v[1] \in {0, 4}
      OBVIOUS
    <3>1. s.d = t.d /\ s.err = t.d.err
      <4> DEFINE w == CASE t.d.err -> <<>>
                        [] ~t.d.err /\ k.v[1] = 4 -> Ucs2(t.v)
                        [] OTHER -> t.v
      <4>1. s = [d |-> t.d, err |-> t.d.err, v |-> w]
        BY <3>0 DEF DecodeString
      <4> HIDE DEF s, t, w
      <4> QED
        BY <4>1
    <3> HIDE DEF s, t
    <3> QED
      BY <3>1
  <2>8. k.d.err = TRUE \/ k.d.err = FALSE
    <3>1. Decode(d, 1).d.err \in BOOLEAN
      <4>1. CASE Len(p) < 1
        BY <1>1, <4>1
      <4>2. CASE ~(Len(p) < 1)
        <5>1. 1 \in 0 .. Len(p)
          BY <1>0, <4>2
        <5>2. PICK p1, p2 \in Bytes : p = p1 \o p2 /\ Len(p1) = 1
          BY <5>1, SplitAt
        <5>3. k = [d |-> Good(p2), v |-> p1]
          BY <5>2, ReadFront
        <5>4. k.d = Good(p2)
          BY <5>3
        <5>5. Good(p2).err = FALSE
          BY NoError
        <5> QED
          BY <5>4, <5>5
      <4> QED
        BY <4>1, <4>2
    <3> QED
      BY <3>1
  <2>9. s.d.err = TRUE /\ s.err = TRUE
    <3> HIDE DEF s, k, t
    <3> QED
      BY <2>5, <2>6, <2>7, <2>8
  <2> HIDE DEF z, s
  <2> QED
    BY <2>4, <2>9 DEF z
<1>9. x.t \in {"uint", "int", "enum", "real", "double", "bool", "null", "objectid", "string"}
  BY DEF AppValues, Null
<1> QED
  BY <1>3, <1>4, <1>5, <1>6, <1>7, <1>8, <1>9

\* A tag that is missed is read as the tag 0 with nothing set.
LEMMA LostTag ==
  ASSUME NEW d, NEW e, NEW tail \in Bytes, Follows(d, e, tail), d.err # TRUE,
         ~(TagNumber(e).meta >= 240), TagNumber(d).d.err = TRUE
  PROVE  TagNumber(d).tag = 0 /\ TagNumber(d).meta = 0
<1> DEFINE x1 == Decode(d, 1)
           y1 == Decode(e, 1)
           x2 == Decode(x1.d, 1)
           y2 == Decode(y1.d, 1)
           x == TagNumber(d)
           y == TagNumber(e)
<1>1. x = IF x1.v[1] >= 240 THEN [d |-> x2.d, tag |-> x2.v[1], meta |-> x1.v[1]]
          ELSE [d |-> x1.d, tag |-> x1.v[1] \div 16, meta |-> x1.v[1]]
  BY DEF TagNumber
<1>2. y = IF y1.v[1] >= 240 THEN [d |-> y2.d, tag |-> y2.v[1], meta |-> y1.v[1]]
          ELSE [d |-> y1.d, tag |-> y1.v[1] \div 16, meta |-> y1.v[1]]
  BY DEF TagNumber
<1>3. ReadAlike(d, x1, y1, tail)
  BY CutDecode
<1>4. x1.d.err = TRUE => x1.v = Zeros(1)
  BY Zeroed DEF Follows
<1>5. Zeros(1)[1] = 0 /\ 0 \div 16 = 0 /\ ~(0 >= 240)
  BY SMT DEF Zeros
<1> HIDE DEF x1, y1, x2, y2, x, y
<1>6. y1.v[1] = y.meta
  BY <1>2
<1>7. x1.d.err # TRUE => FALSE
  <2> SUFFICES ASSUME x1.d.err # TRUE PROVE FALSE
    OBVIOUS
  <2>1. x1.v[1] = y.meta
    BY <1>3, <1>6 DEF ReadAlike
  <2>2. x = [d |-> x1.d, tag |-> x1.v[1] \div 16, meta |-> x1.v[1]]
    BY <1>1, <2>1 DEF y
  <2>3. x.d = x1.d
    BY <2>2
  <2> QED
    BY <2>3 DEF x
<1>8. x1.v[1] = 0
  BY <1>4, <1>5, <1>7
<1>9. x = [d |-> x1.d, tag |-> 0, meta |-> 0]
  BY <1>1, <1>5, <1>8
<1> QED
  BY <1>9 DEF x

\* A value that misses bytes at its end is an error, or reads as nothing.
LEMMA CutValue ==
  ASSUME NEW x \in AppValues, NEW w \in Bytes, NEW tail \in Bytes, tail # <<>>,
         w \o tail = AppData(x, FALSE)
  PROVE  LET y == DecodeAppData(Good(w))
         IN  y.d.err = TRUE /\ (y.err = TRUE \/ y.x.v = <<>>)
<1> DEFINE id == TagOf(x)
           n == SizeOf(x)
           b == DataOf(x)
           low == TagLow(FALSE, n)
           d == Good(w)
           e == Good(w \o tail)
           t == TagNumber(d)
           u == TagNumber(e)
           tv == TagValue(t.d, t.meta)
           uv == TagValue(u.d, u.meta)
           y == DecodeAppData(d)
<1>1. /\ id \in 0 .. 12 /\ id \in Byte /\ n \in Nat /\ n < LongLength /\ b \in Bytes
      /\ AppData(x, FALSE) = Tag(id, FALSE, n) \o b
  <2>1. <<>> \in Bytes
    BY DEF Bytes
  <2> QED
    BY <2>1, ValueParts DEF Parts
<1>2. n > 4 => id = 7
  <2>1. x.t \in {"uint", "int", "enum"} => x.v \in Word
    BY DEF AppValues, Null
  <2>2. x.t \in {"uint", "int", "enum"} => n <= 4
    <3> SUFFICES ASSUME x.t \in {"uint", "int", "enum"} PROVE n <= 4
      OBVIOUS
    <3>1. ValueLength(x.v) \in 1 .. 4 /\ n = ValueLength(x.v)
      BY <2>1, UnsignedBytes DEF SizeOf
    <3> QED
      BY <3>1
  <2>3. x.t = "bool" => n <= 4
    <3>1. x.t = "bool" => x.v \in {<<0>>, <<1>>} /\ n = x.v[1]
      BY DEF AppValues, Null, SizeOf
    <3> QED
      BY <3>1
  <2>4. x.t \in {"null", "real", "double", "objectid"} => n <= 4
    BY DEF SizeOf
  <2>5. x.t = "string" => id = 7
    BY DEF TagOf
  <2>6. x.t \in {"uint", "int", "enum", "real", "double", "bool", "null", "objectid", "string"}
    BY DEF AppValues, Null
  <2> HIDE DEF n, id
  <2> QED
    BY <1>1, <2>2, <2>3, <2>4, <2>5, <2>6
<1>3. \A p, q \in Bytes : q # <<>> /\ p \o q = b =>
         AppDataOfTag(Good(p), id, n).d.err = TRUE /\ AppDataOfTag(Good(p), id, n).err = TRUE
  BY CutData
<1>4. y = AppDataOfTag(tv.d, t.tag, tv.v)
  <2> DEFINE z == TagNumberAndValue(d)
  <2>1. z = [d |-> tv.d, tag |-> t.tag, meta |-> t.meta, v |-> tv.v]
    BY DEF TagNumberAndValue, ValueOf
  <2>2. y = AppDataOfTag(z.d, z.tag, z.v)
    BY DEF DecodeAppData
  <2>3. z.d = tv.d /\ z.tag = t.tag /\ z.v = tv.v
    BY <2>1
  <2> HIDE DEF y, z, t, tv
  <2> QED
    BY <2>2, <2>3
<1>5. \A f : AppDataOfTag(f, 7, 0) = [d |-> f, x |-> [t |-> "string", v |-> <<>>], err |-> FALSE]
  BY SMT DEF AppDataOfTag
<1> HIDE DEF id, n, b
<1>6. /\ u = [d |-> Good(Extended(n) \o b), tag |-> id, meta |-> Meta(low, id)]
      /\ TagNumberAndValue(e) = [d |-> Good(b), tag |-> id, meta |-> Meta(low, id), v |-> n]
      /\ low \in 0 .. 15
  <2>1. /\ low \in 0 .. 15
        /\ TagNumber(Good(Tag(id, FALSE, n) \o b)) =
             [d |-> Good(Extended(n) \o b), tag |-> id, meta |-> Meta(low, id)]
        /\ TagNumberAndValue(Good(Tag(id, FALSE, n) \o b)) =
             [d |-> Good(b), tag |-> id, meta |-> Meta(low, id), v |-> n]
    BY <1>1, TagRead
  <2>2. e = Good(Tag(id, FALSE, n) \o b)
    BY <1>1
  <2> HIDE DEF e, low
  <2> QED
    BY <2>1, <2>2
<1>7. low = IF n <= 4 THEN n ELSE 5
  BY <1>1 DEF TagLow
<1>8. /\ Meta(low, id) \in Byte /\ Meta(low, id) % 8 = low % 8
      /\ ~(Meta(low, id) >= 240)
  <2>1. Meta(low, id) \in Byte /\ Meta(low, id) % 8 = low % 8
    BY <1>1, <1>6, MetaBits
  <2>2. ~(Meta(low, id) >= 240)
    <3> HIDE DEF low
    <3> QED
      BY <1>1, <1>6 DEF Meta
  <2> QED
    BY <2>1, <2>2
<1> HIDE DEF low
<1>9. u.meta = Meta(low, id) /\ u.tag = id
  <2> HIDE DEF u
  <2> QED
    BY <1>6
<1>10. uv.d = Good(b) /\ uv.v = n
  <2>1. TagNumberAndValue(e) = [d |-> uv.d, tag |-> u.tag, meta |-> u.meta, v |-> uv.v]
    BY DEF TagNumberAndValue, ValueOf
  <2>2. TagNumberAndValue(e) = [d |-> Good(b), tag |-> id, meta |-> Meta(low, id), v |-> n]
    BY <1>6
  <2> HIDE DEF u, uv, e
  <2> QED
    BY <2>1, <2>2
<1>11. Follows(d, e, tail) /\ d.err # TRUE
  BY FollowsGood, NoError
<1>12. ReadsTag(d, t, u, tail)
  <2> HIDE DEF d, e
  <2> QED
    BY <1>11, CutTag
<1>13. CASE t.d.err = TRUE
  <2>1. t.tag = 0 /\ t.meta = 0
    <3> HIDE DEF d, e
    <3> QED
      BY <1>8, <1>9, <1>11, <1>13, LostTag
  <2>2. tv = [d |-> t.d, v |-> 0]
    <3>1. TagValue(t.d, 0) = [d |-> t.d, v |-> 0]
      BY SMT DEF TagValue
    <3> HIDE DEF t
    <3> QED
      BY <2>1, <3>1
  <2>3. tv.d = t.d /\ tv.v = 0
    BY <2>2
  <2> HIDE DEF t, tv, y
  <2>4. y = AppDataOfTag(t.d, 0, 0)
    BY <1>4, <2>1, <2>3
  <2>5. AppDataOfTag(t.d, 0, 0) = [d |-> t.d, x |-> Null, err |-> FALSE]
    BY OfTag
  <2>6. y.d = t.d /\ y.x.v = <<>>
    BY <2>4, <2>5 DEF Null
  <2> QED
    BY <1>13, <2>6 DEF y, d
<1>14. CASE t.d.err # TRUE
  <2>1. Follows(t.d, u.d, tail) /\ t.tag = id /\ t.meta = Meta(low, id) /\ t.meta = u.meta
    BY <1>9, <1>12, <1>14 DEF ReadsTag
  <2> HIDE DEF t, u
  <2>2. /\ ReadAlike(t.d, tv, uv, tail)
        /\ tv.d.err = TRUE => tv.v = 0 /\ t.meta % 8 = 5
    BY <1>8, <1>14, <2>1, CutLength
  <2> HIDE DEF tv, uv, y
  <2>3. CASE tv.d.err = TRUE
    <3>1. tv.v = 0 /\ Meta(low, id) % 8 = 5
      BY <2>1, <2>2, <2>3
    <3>2. id = 7
      BY <1>1, <1>2, <1>7, <1>8, <3>1
    <3>3. y = AppDataOfTag(tv.d, 7, 0)
      BY <1>4, <2>1, <3>1, <3>2
    <3>4. y.d = tv.d /\ y.x.v = <<>>
      BY <1>5, <3>3
    <3> QED
      BY <2>3, <3>4 DEF y, d
  <2>4. CASE tv.d.err # TRUE
    <3> DEFINE p == tv.d.buf
    <3>1. p \in Bytes /\ tv.d = Good(p) /\ Good(b) = Good(p \o tail) /\ tv.v = n
      BY <1>10, <2>2, <2>4 DEF ReadAlike, Follows
    <3>2. p \o tail = b
      <4>1. Good(p \o tail).buf = p \o tail /\ Good(b).buf = b
        BY NoError
      <4> QED
        BY <3>1, <4>1
    <3> HIDE DEF p
    <3>3. y = AppDataOfTag(Good(p), id, n)
      BY <1>4, <2>1, <3>1
    <3>4. y.d.err = TRUE /\ y.err = TRUE
      BY <1>3, <3>1, <3>2, <3>3
    <3> QED
      BY <3>4 DEF y, d
  <2> QED
    BY <2>3, <2>4
<1> QED
  BY <1>13, <1>14

\* Bytes that are joined come apart at the same place in one way.
LEMMA Cancel ==
  ASSUME NEW p \in Bytes, NEW q \in Bytes, NEW u \in Bytes, NEW v \in Bytes,
         Len(p) = Len(q), p \o u = q \o v
  PROVE  p = q /\ u = v
<1>1. Decode(Good(p \o u), Len(p)) = [d |-> Good(u), v |-> p]
  BY ReadFront
<1>2. Decode(Good(q \o v), Len(q)) = [d |-> Good(v), v |-> q]
  BY ReadFront
<1>3. [d |-> Good(u), v |-> p] = [d |-> Good(v), v |-> q]
  BY <1>1, <1>2
<1>4. p = q /\ Good(u) = Good(v)
  BY <1>3
<1>5. Good(u).buf = u /\ Good(v).buf = v
  BY NoError
<1> QED
  BY <1>4, <1>5

\* What was cut from two joined items is cut inside the first or behind it.
CutWithin(w, a) == \E t \in Bytes : t # <<>> /\ w \o t = a
CutBehind(w, tail, a, s) == \E p \in Bytes : w = a \o p /\ p \o tail = s

\* Two ways to cut the same bytes in two: one cut is in or behind the other.
LEMMA CutJoin ==
  \A w, tail, a, s \in Bytes :
     w \o tail = a \o s => CutWithin(w, a) \/ CutBehind(w, tail, a, s)
<1> SUFFICES ASSUME NEW w \in Bytes, NEW tail \in Bytes, NEW a \in Bytes, NEW s \in Bytes,
                    w \o tail = a \o s
             PROVE  CutWithin(w, a) \/ CutBehind(w, tail, a, s)
  OBVIOUS
<1>0. Len(w) \in Nat /\ Len(a) \in Nat
  BY LenBytes
<1>1. CASE Len(w) < Len(a)
  <2>1. Len(w) \in 0 .. Len(a)
    BY <1>0, <1>1
  <2>2. PICK p, q \in Bytes : a = p \o q /\ Len(p) = Len(w)
    BY <2>1, SplitAt
  <2>3. (p \o q) \o s = p \o (q \o s) /\ q \o s \in Bytes
    BY <2>2, Append3, AppendIn
  <2>4. w = p
    <3> DEFINE z == q \o s
    <3>1. z \in Bytes /\ w \o tail = p \o z
      BY <2>2, <2>3
    <3> HIDE DEF z
    <3> QED
      BY <2>2, <3>1, Cancel
  <2>5. q # <<>>
    <3>1. Len(p \o q) = Len(p) + Len(q)
      BY <2>2, JoinAt
    <3>2. q = <<>> => Len(q) = 0
      OBVIOUS
    <3> QED
      BY <1>0, <1>1, <2>2, <3>1, <3>2
  <2> QED
    BY <2>2, <2>4, <2>5 DEF CutWithin
<1>2. CASE ~(Len(w) < Len(a))
  <2>1. Len(a) \in 0 .. Len(w)
    BY <1>0, <1>2
  <2>2. PICK q, p \in Bytes : w = q \o p /\ Len(q) = Len(a)
    BY <2>1, SplitAt
  <2>3. (q \o p) \o tail = q \o (p \o tail) /\ p \o tail \in Bytes
    BY <2>2, Append3, AppendIn
  <2>4. q = a /\ p \o tail = s
    <3> DEFINE z == p \o tail
    <3>1. z \in Bytes /\ q \o z = a \o s
      BY <2>2, <2>3
    <3> HIDE DEF z
    <3>2. q = a /\ z = s
      BY <2>2, <3>1, Cancel
    <3> QED
      BY <3>2 DEF z
  <2> QED
    BY <2>2, <2>4 DEF CutBehind
<1> QED
  BY <1>1, <1>2

\* A field that is there or not is read alike from both.
LEMMA CutIf ==
  ASSUME NEW d, NEW e, NEW tail \in Bytes, Follows(d, e, tail), NEW on \in BOOLEAN, NEW n \in Nat
  PROVE  ReadAlike(d, DecodeIf(d, on, n), DecodeIf(e, on, n), tail)
<1>1. CASE on
  BY <1>1, CutDecode DEF DecodeIf
<1>2. CASE ~on
  <2> DEFINE x == DecodeIf(d, on, n)
             y == DecodeIf(e, on, n)
  <2>1. x = [d |-> d, v |-> Zeros(n)] /\ y = [d |-> e, v |-> Zeros(n)]
    BY <1>2 DEF DecodeIf
  <2> HIDE DEF x, y
  <2>2. x.d = d /\ y.d = e /\ x.v = y.v
    BY <2>1
  <2>3. x.d.err # TRUE => d.err = FALSE
    BY <2>2, NoError DEF Follows
  <2>4. ReadAlike(d, x, y, tail)
    BY <2>2, <2>3 DEF ReadAlike
  <2> QED
    BY <2>4 DEF x, y
<1> QED
  BY <1>1, <1>2

\* The head of a packet that was cut: what was read of it is its head, or
\* nothing was.
LEMMA CutHead ==
  ASSUME NEW d, NEW e, NEW tail \in Bytes, Follows(d, e, tail), d.err # TRUE
  PROVE  LET h == ReadHead(d)
             g == ReadHead(e)
         IN  /\ Follows(h.first.d, g.first.d, tail)
             /\ Follows(h.second.d, g.second.d, tail)
             /\ Follows(h.service.d, g.service.d, tail)
             /\ h.meta = g.meta \/ (h.meta = 0 /\ h.service.d.err = TRUE)
<1> DEFINE x1 == Decode(d, 1)
           x2 == Decode(x1.d, 1)
           x3 == Decode(x2.d, 1)
           x4 == DecodeIf(x3.d, Bit(x1.v[1], 8), 2)
           x5 == Decode(x4.d, 1)
           y1 == Decode(e, 1)
           y2 == Decode(y1.d, 1)
           y3 == Decode(y2.d, 1)
           y4 == DecodeIf(y3.d, Bit(y1.v[1], 8), 2)
           y5 == Decode(y4.d, 1)
           h == ReadHead(d)
           g == ReadHead(e)
<1>1. h.meta = x1.v[1] /\ h.first = x2 /\ h.second = x3 /\ h.service = x5
  BY HeadForm
<1>2. g.meta = y1.v[1] /\ g.first = y2 /\ g.second = y3 /\ g.service = y5
  BY HeadForm
<1>3. ReadAlike(d, x1, y1, tail)
  BY CutDecode
<1>4. x1.d.err = TRUE => x1.v = Zeros(1)
  BY Zeroed DEF Follows
<1>5. Zeros(1)[1] = 0
  BY DEF Zeros
<1>6. ReadAlike(x1.d, x2, y2, tail)
  <2> HIDE DEF x1, y1
  <2> QED
    BY <1>3, CutDecode DEF ReadAlike
<1>7. ReadAlike(x2.d, x3, y3, tail)
  <2> HIDE DEF x2, y2
  <2> QED
    BY <1>6, CutDecode DEF ReadAlike
<1>8. CASE x1.d.err = TRUE
  <2>1. x2.d.err = TRUE
    <3> HIDE DEF x1
    <3>1. x2 = [d |-> x1.d, v |-> Zeros(1)]
      BY <1>8, StuckDecode
    <3> HIDE DEF x2
    <3> QED
      BY <1>8, <3>1
  <2>2. x3.d.err = TRUE
    <3> HIDE DEF x2
    <3>1. x3 = [d |-> x2.d, v |-> Zeros(1)]
      BY <2>1, StuckDecode
    <3> HIDE DEF x3
    <3> QED
      BY <2>1, <3>1
  <2>3. x4.d.err = TRUE
    <3> HIDE DEF x3, x1
    <3>1. x4 = [d |-> x3.d, v |-> Zeros(2)]
      BY <2>2, StuckDecode DEF DecodeIf
    <3> HIDE DEF x4
    <3> QED
      BY <2>2, <3>1
  <2>4. x5.d.err = TRUE
    <3> HIDE DEF x4
    <3>1. x5 = [d |-> x4.d, v |-> Zeros(1)]
      BY <2>3, StuckDecode
    <3> HIDE DEF x5
    <3> QED
      BY <2>3, <3>1
  <2> HIDE DEF x1, x2, x3, x4, x5, y1, y2, y3, y4, y5, h, g
  <2>5. h.meta = 0
    BY <1>1, <1>4, <1>5, <1>8
  <2> QED
    BY <1>1, <2>1, <2>2, <2>4, <2>5 DEF Follows, h, g
<1>9. CASE x1.d.err # TRUE
  <2>1. x1.v = y1.v
    BY <1>3, <1>9 DEF ReadAlike
  <2> DEFINE on == Bit(x1.v[1], 8)
  <2>2. on \in BOOLEAN /\ Bit(y1.v[1], 8) = on
    BY <2>1 DEF Bit
  <2>3. Follows(x3.d, y3.d, tail)
    BY <1>7 DEF ReadAlike
  <2>4. x4 = DecodeIf(x3.d, on, 2) /\ y4 = DecodeIf(y3.d, on, 2)
    BY <2>2
  <2> HIDE DEF x3, y3, on, x4, y4
  <2>5. ReadAlike(x3.d, x4, y4, tail)
    BY <2>2, <2>3, <2>4, CutIf
  <2>6. ReadAlike(x4.d, x5, y5, tail)
    BY <2>5, CutDecode DEF ReadAlike
  <2> HIDE DEF x1, y1, x2, y2, x5, y5, h, g
  <2>7. /\ Follows(h.first.d, g.first.d, tail)
        /\ Follows(h.second.d, g.second.d, tail)
        /\ Follows(h.service.d, g.service.d, tail)
        /\ h.meta = g.meta
    BY <1>1, <1>2, <1>6, <1>7, <2>1, <2>6 DEF ReadAlike
  <2> QED
    BY <2>7 DEF h, g
<1> QED
  BY <1>8, <1>9

\* A decoder that follows one that has come to the end, bytes being missing,
\* has met the error.
LEMMA NeverEnd ==
  ASSUME NEW d, NEW tail \in Bytes, tail # <<>>, Follows(d, Good(<<>>), tail)
  PROVE  d.err = TRUE
<1> SUFFICES ASSUME d.err # TRUE PROVE FALSE
  OBVIOUS
<1> DEFINE p == d.buf
<1>1. p \in Bytes /\ Good(<<>>) = Good(p \o tail)
  BY DEF Follows
<1>2. p \o tail = <<>>
  <2>1. Good(<<>>).buf = <<>> /\ Good(p \o tail).buf = p \o tail
    BY NoError
  <2> QED
    BY <1>1, <2>1
<1> HIDE DEF p
<1>3. Len(p) \in Nat /\ Len(tail) \in Nat /\ Len(tail) # 0
  BY <1>1, LenBytes, EmptySeq DEF Bytes
<1>4. Len(p \o tail) = Len(p) + Len(tail)
  BY <1>1, JoinAt
<1>5. Len(p \o tail) = 0
  BY <1>2
<1> QED
  BY <1>3, <1>4, <1>5

\* Nothing is left of a decoder after the error.
LEMMA StuckRest ==
  ASSUME NEW d, d.err = TRUE
  PROVE  Remainder(d).d.err = TRUE
<1>1. Remainder(d) = [d |-> d, v |-> Zeros(Len(d.buf))]
  BY StuckDecode DEF Remainder
<1> QED
  BY <1>1

\* The types of the PDUs that are sent.
LEMMA PduTypes ==
  /\ PduType(0) = ConfirmedServiceRequest /\ PduType(16) = UnconfirmedServiceRequest
  /\ PduType(48) = ComplexAck
  BY SMT DEF PduType, ConfirmedServiceRequest, UnconfirmedServiceRequest, ComplexAck

\* The head of a request that misses bytes is refused.
LEMMA CutRequestHead ==
  ASSUME NEW a \in AppApdus, NEW w \in Bytes, NEW tail \in Bytes, tail # <<>>,
         w \o tail = APDU(a)
  PROVE  DecodeAPDU(NewDecoder(w)).err = TRUE
<1> DEFINE d == Good(w)
           e == Good(w \o tail)
           h == ReadHead(d)
           g == ReadHead(e)
           x == DecodeAPDU(d)
<1>1. PduType(g.meta) = ConfirmedServiceRequest /\ g.service.d = Good(<<>>)
  <2>1. /\ a.type = ConfirmedServiceRequest
        /\ a.segmented \in BOOLEAN /\ a.moreFollows \in BOOLEAN /\ a.segmentedAccepted \in BOOLEAN
        /\ MaxSegsMaxApdu(a.maxSegs, a.maxApdu) \in Byte /\ a.id \in Byte /\ a.service \in Byte
        /\ a.segmented => a.sequence \in Byte /\ a.window \in Byte
    BY SizesRead DEF AppApdus
  <2>2. <<>> \in Bytes
    BY DEF Bytes
  <2>3. /\ APDU(a) \in Bytes
        /\ LET k == ReadHead(Good(APDU(a) \o <<>>))
           IN  PduType(k.meta) = ConfirmedServiceRequest /\ k.service.d = Good(<<>>)
    BY <2>1, <2>2, RequestRead
  <2>4. APDU(a) \o <<>> = APDU(a)
    BY <2>3, ConcatEmptySeq DEF Bytes
  <2> QED
    BY <2>3, <2>4
<1>2. Follows(d, e, tail) /\ d.err # TRUE
  BY FollowsGood, NoError
<1>3. /\ Follows(h.service.d, g.service.d, tail)
      /\ h.meta = g.meta \/ (h.meta = 0 /\ h.service.d.err = TRUE)
  <2> HIDE DEF d, e
  <2> QED
    BY <1>2, CutHead
<1> HIDE DEF h, g
<1>4. h.service.d.err = TRUE
  BY <1>1, <1>3, NeverEnd
<1>5. PduType(h.meta) = ConfirmedServiceRequest
  BY <1>1, <1>3, PduTypes
<1>6. x.err = Remainder(h.service.d).d.err
  <2> HIDE DEF d
  <2> QED
    BY <1>5, RequestForm DEF h
<1>7. x.err = TRUE
  <2> HIDE DEF x
  <2> QED
    BY <1>4, <1>6, StuckRest
<1> QED
  BY <1>7, NoError

\* The head of an announcement that misses bytes is refused.
LEMMA CutUnconfirmed ==
  ASSUME NEW service \in Byte, NEW w \in Bytes, NEW tail \in Bytes, tail # <<>>,
         w \o tail = Unconfirmed(service)
  PROVE  DecodeAPDU(NewDecoder(w)).err = TRUE
<1> DEFINE b == UnconfirmedServiceRequest
           d == Good(w)
           e == Good(w \o tail)
           h == ReadHead(d)
           g == ReadHead(e)
           x == DecodeAPDU(d)
           y1 == Decode(e, 1)
           y2 == Decode(y1.d, 1)
<1>1. b \in Byte /\ PduType(b) = UnconfirmedServiceRequest
  BY SMT DEF UnconfirmedServiceRequest, Byte, PduType
<1>2. e = Good(<<b, service>> \o <<>>) /\ <<>> \in Bytes
  <2>1. <<b, service>> \in Bytes /\ <<>> \in Bytes
    BY <1>1 DEF Bytes
  <2>2. <<b, service>> \o <<>> = <<b, service>>
    BY <2>1, ConcatEmptySeq DEF Bytes
  <2> QED
    BY <2>1, <2>2 DEF Unconfirmed
<1> HIDE DEF b, e
<1>3. y1.d = Good(<<service>> \o <<>>) /\ y1.v[1] = b
  <2>1. y1 = [d |-> Good(<<service>> \o <<>>), v |-> <<b>>]
    BY <1>1, <1>2, ReadTwo
  <2> HIDE DEF y1
  <2> QED
    BY <2>1
<1>4. y2.d = Good(<<>>)
  <2> HIDE DEF y1
  <2>1. y2 = [d |-> Good(<<>>), v |-> <<service>>]
    BY <1>2, <1>3, ReadByte
  <2> HIDE DEF y2
  <2> QED
    BY <2>1
<1>5. g.meta = y1.v[1] /\ g.first = y2
  BY HeadForm
<1> HIDE DEF y1, y2
<1>6. Follows(d, e, tail) /\ d.err # TRUE
  BY FollowsGood, NoError DEF e
<1>7. /\ Follows(h.first.d, g.first.d, tail)
      /\ h.meta = g.meta \/ (h.meta = 0 /\ h.service.d.err = TRUE)
  <2> HIDE DEF d, e
  <2> QED
    BY <1>6, CutHead
<1>8. /\ PduType(h.meta) = ConfirmedServiceRequest => x.err = Remainder(h.service.d).d.err
      /\ PduType(h.meta) = UnconfirmedServiceRequest => x.err = Remainder(h.first.d).d.err
  <2> HIDE DEF d
  <2> QED
    BY RequestForm
<1> HIDE DEF h, g, x
<1>9. h.first.d.err = TRUE
  BY <1>4, <1>5, <1>7, NeverEnd
<1>10. CASE h.meta = g.meta
  BY <1>1, <1>3, <1>5, <1>8, <1>9, <1>10, StuckRest DEF x, d, NewDecoder, Good
<1>11. CASE h.meta = 0 /\ h.service.d.err = TRUE
  BY <1>8, <1>11, PduTypes, StuckRest DEF x, d, NewDecoder, Good
<1> QED
  BY <1>7, <1>10, <1>11

\* A decoder is at an error or before what was left of s.
Before(d, tail, s) == d.err = TRUE \/ \E q \in Bytes : d = Good(q) /\ q \o tail = s

\* A value behind a cut is not read.
LEMMA CutNext ==
  \A x \in AppValues : \A p, s, tail \in Bytes :
     p \o tail = AppData(x, FALSE) \o s => Before(DecodeAppData(Good(p)).d, tail, s)
<1> SUFFICES ASSUME NEW x \in AppValues, NEW p \in Bytes, NEW s \in Bytes, NEW tail \in Bytes,
                    p \o tail = AppData(x, FALSE) \o s
             PROVE  Before(DecodeAppData(Good(p)).d, tail, s)
  OBVIOUS
<1> DEFINE y == DecodeAppData(Good(p))
<1>1. AppData(x, FALSE) \in Bytes
  BY ValueRead
<1>2. \/ \E t \in Bytes : t # <<>> /\ p \o t = AppData(x, FALSE)
      \/ \E q \in Bytes : p = AppData(x, FALSE) \o q /\ q \o tail = s
  <2> DEFINE a == AppData(x, FALSE)
  <2>1. a \in Bytes /\ p \o tail = a \o s
    BY <1>1
  <2> HIDE DEF a
  <2>2. CutWithin(p, a) \/ CutBehind(p, tail, a, s)
    BY <2>1, CutJoin
  <2> QED
    BY <2>2 DEF a, CutWithin, CutBehind
<1>3. ASSUME NEW t \in Bytes, t # <<>>, p \o t = AppData(x, FALSE)
      PROVE  y.d.err = TRUE
  BY <1>3, CutValue
<1>4. ASSUME NEW q \in Bytes, p = AppData(x, FALSE) \o q
      PROVE  y.d = Good(q)
  <2>1. y = [d |-> Good(q), x |-> Received(x), err |-> FALSE]
    BY <1>4, ValueRead
  <2> HIDE DEF y
  <2> QED
    BY <2>1
<1> HIDE DEF y
<1>5. Before(y.d, tail, s)
  BY <1>2, <1>3, <1>4 DEF Before
<1> QED
  BY <1>5 DEF y

\* An I-Am is its head and four values.
LEMMA AnnouncementBytes ==
  ASSUME NEW i \in AppAnnouncements
  PROVE  \E v1, v2, v3, v4 \in AppValues :
           IAm(i) = Unconfirmed(ServiceIAm) \o
             (AppData(v1, FALSE) \o (AppData(v2, FALSE) \o (AppData(v3, FALSE) \o AppData(v4, FALSE))))
<1> DEFINE v1 == [t |-> "objectid", v |-> <<i.type, i.instance>>]
           v2 == [t |-> "uint", v |-> i.maxApdu]
           v3 == [t |-> "enum", v |-> i.segmentation]
           v4 == [t |-> "uint", v |-> i.vendor]
           a1 == AppData(v1, FALSE)
           a2 == AppData(v2, FALSE)
           a3 == AppData(v3, FALSE)
           a4 == AppData(v4, FALSE)
           u == Unconfirmed(ServiceIAm)
<1>1. /\ i.type \in 0 .. MaxObject /\ i.instance \in 0 .. MaxInstance
      /\ i.maxApdu \in Word /\ i.segmentation \in Word /\ i.vendor \in Word
  BY DEF AppAnnouncements
<1>2. v1 \in AppValues
  <2>1. v1 \in [t : {"objectid"}, v : (0 .. MaxObject) \X (0 .. MaxInstance)]
    BY <1>1
  <2> HIDE DEF v1
  <2> QED
    BY <2>1 DEF AppValues
<1>3. v2 \in AppValues /\ v3 \in AppValues /\ v4 \in AppValues
  <2>1. \A w \in [t : {"uint", "int", "enum", "real"}, v : Word] : w \in AppValues
    BY DEF AppValues
  <2>2. v2 \in [t : {"uint", "int", "enum", "real"}, v : Word]
    BY <1>1
  <2>3. v3 \in [t : {"uint", "int", "enum", "real"}, v : Word]
    BY <1>1
  <2>4. v4 \in [t : {"uint", "int", "enum", "real"}, v : Word]
    BY <1>1
  <2> HIDE DEF v2, v3, v4
  <2> QED
    BY <2>1, <2>2, <2>3, <2>4
<1>4. IAm(i) = (((u \o a1) \o a2) \o a3) \o a4
  BY DEF IAm
<1> HIDE DEF v1, v2, v3, v4
<1>5. ServiceIAm \in Byte /\ <<>> \in Bytes
  BY DEF ServiceIAm, Byte, Bytes
<1>6. u \in Bytes
  BY <1>5, UnconfirmedBody
<1>7. a1 \in Bytes /\ a2 \in Bytes /\ a3 \in Bytes /\ a4 \in Bytes
  BY <1>2, <1>3, <1>5, ValueRead
<1> HIDE DEF u, a1, a2, a3, a4
<1> DEFINE s3 == a3 \o a4
           s2 == a2 \o s3
           p1 == u \o a1
           p2 == p1 \o a2
<1>8. p1 \in Bytes /\ s3 \in Bytes
  BY <1>6, <1>7, AppendIn
<1>9. p2 \in Bytes
  <2> HIDE DEF p1
  <2> QED
    BY <1>7, <1>8, AppendIn
<1>10. s2 \in Bytes
  <2> HIDE DEF s3
  <2> QED
    BY <1>7, <1>8, AppendIn
<1>11. (p2 \o a3) \o a4 = p2 \o s3
  <2> HIDE DEF p2
  <2> QED
    BY <1>7, <1>9, Append3
<1>12. (p1 \o a2) \o s3 = p1 \o s2
  <2> HIDE DEF p1, s3
  <2> QED
    BY <1>7, <1>8, Append3
<1>13. (u \o a1) \o s2 = u \o (a1 \o s2)
  <2> HIDE DEF s2
  <2> QED
    BY <1>6, <1>7, <1>10, Append3
<1>14. IAm(i) = u \o (a1 \o s2)
  <2> HIDE DEF s2, s3
  <2> QED
    BY <1>4, <1>11, <1>12, <1>13
<1>15. IAm(i) = u \o (a1 \o (a2 \o (a3 \o a4)))
  BY <1>14
<1> QED
  BY <1>2, <1>3, <1>15 DEF u, a1, a2, a3, a4

\* What an erroneous packet or one of another service leaves to be decoded.
LEMMA NoBody ==
  ASSUME NEW a, NEW service, a.err = TRUE
  PROVE  BodyOf(a, service) = [buf |-> <<>>, err |-> TRUE]
  BY DEF BodyOf

\* An I-Am is an error where one of its values is.
LEMMA AnnouncementErr ==
  ASSUME NEW d
  PROVE  LET x1 == DecodeAppData(d)
             x2 == DecodeAppData(x1.d)
             x3 == DecodeAppData(x2.d)
             x4 == DecodeAppData(x3.d)
         IN  x4.d.err = TRUE => DecodeIAm(d).err = TRUE
<1> DEFINE x1 == DecodeAppData(d)
           x2 == DecodeAppData(x1.d)
           x3 == DecodeAppData(x2.d)
           x4 == DecodeAppData(x3.d)
<1>1. DecodeIAm(d).err = (x1.err \/ x4.d.err)
  BY DEF DecodeIAm
<1> HIDE DEF x1, x2, x3, x4
<1>2. x4.d.err = TRUE => DecodeIAm(d).err = TRUE
  BY <1>1
<1> QED
  BY <1>2 DEF x1, x2, x3, x4

\* An error is never taken back by the values that follow.
LEMMA StuckNext == \A d : d.err = TRUE => DecodeAppData(d).d.err = TRUE
<1> SUFFICES ASSUME NEW d, d.err = TRUE PROVE DecodeAppData(d).d.err = TRUE
  OBVIOUS
<1>1. DecodeAppData(d) = [d |-> d, x |-> Null, err |-> FALSE]
  BY StuckValue
<1> QED
  BY <1>1

\* An I-Am that misses bytes is refused.
LEMMA CutAnnouncement ==
  ASSUME NEW i \in AppAnnouncements, NEW w \in Bytes, NEW tail \in Bytes, tail # <<>>,
         w \o tail = IAm(i)
  PROVE  DecodeIAm(BodyOf(DecodeAPDU(NewDecoder(w)), ServiceIAm)).err = TRUE
<1> DEFINE u == Unconfirmed(ServiceIAm)
           b == BodyOf(DecodeAPDU(NewDecoder(w)), ServiceIAm)
           x1 == DecodeAppData(b)
           x2 == DecodeAppData(x1.d)
           x3 == DecodeAppData(x2.d)
           x4 == DecodeAppData(x3.d)
<1>0. ServiceIAm \in Byte /\ <<>> \in Bytes
  BY DEF ServiceIAm, Byte, Bytes
<1>1. PICK v1, v2, v3, v4 \in AppValues :
        IAm(i) = u \o (AppData(v1, FALSE) \o (AppData(v2, FALSE) \o (AppData(v3, FALSE) \o AppData(v4, FALSE))))
  BY AnnouncementBytes
<1> DEFINE a1 == AppData(v1, FALSE)
           a2 == AppData(v2, FALSE)
           a3 == AppData(v3, FALSE)
           a4 == AppData(v4, FALSE)
           s3 == a3 \o a4
           s2 == a2 \o s3
           s1 == a1 \o s2
<1>2. a1 \in Bytes /\ a2 \in Bytes /\ a3 \in Bytes /\ a4 \in Bytes /\ u \in Bytes
  BY <1>0, ValueRead, UnconfirmedBody
<1>3. IAm(i) = u \o s1
  BY <1>1
<1> HIDE DEF u, a1, a2, a3, a4
<1>4. s3 \in Bytes
  BY <1>2, AppendIn
<1>5. s2 \in Bytes
  <2> HIDE DEF s3
  <2> QED
    BY <1>2, <1>4, AppendIn
<1>6. s1 \in Bytes
  <2> HIDE DEF s2
  <2> QED
    BY <1>2, <1>5, AppendIn
<1>7. a4 \o <<>> = a4
  BY <1>2, ConcatEmptySeq DEF Bytes
<1>8. Before(b, tail, s1)
  <2> HIDE DEF s1
  <2>1. CutWithin(w, u) \/ CutBehind(w, tail, u, s1)
    BY <1>2, <1>3, <1>6, CutJoin
  <2>2. CASE CutWithin(w, u)
    <3>1. PICK t \in Bytes : t # <<>> /\ w \o t = u
      BY <2>2 DEF CutWithin
    <3>2. DecodeAPDU(NewDecoder(w)).err = TRUE
      BY <1>0, <3>1, CutUnconfirmed DEF u
    <3>3. b = [buf |-> <<>>, err |-> TRUE]
      BY <3>2, NoBody
    <3> HIDE DEF b
    <3> QED
      BY <3>3 DEF Before
  <2>3. CASE CutBehind(w, tail, u, s1)
    <3>1. PICK p \in Bytes : w = u \o p /\ p \o tail = s1
      BY <2>3 DEF CutBehind
    <3>2. b = Good(p)
      BY <1>0, <3>1, UnconfirmedBody DEF u
    <3> HIDE DEF b
    <3> QED
      BY <3>1, <3>2 DEF Before
  <2> QED
    BY <2>1, <2>2, <2>3
<1> HIDE DEF b
<1>9. Before(x1.d, tail, s2)
  <2>1. CASE b.err = TRUE
    BY <2>1, StuckNext DEF Before
  <2>2. ASSUME NEW p \in Bytes, b = Good(p), p \o tail = s1
        PROVE  Before(x1.d, tail, s2)
    <3> HIDE DEF s2
    <3> QED
      BY <1>5, <2>2, CutNext DEF a1
  <2> HIDE DEF x1, s1, s2
  <2> QED
    BY <1>8, <2>1, <2>2 DEF Before
<1> HIDE DEF x1
<1>10. Before(x2.d, tail, s3)
  <2>1. CASE x1.d.err = TRUE
    BY <2>1, StuckNext DEF Before
  <2>2. ASSUME NEW p \in Bytes, x1.d = Good(p), p \o tail = s2
        PROVE  Before(x2.d, tail, s3)
    <3> HIDE DEF s3
    <3> QED
      BY <1>4, <2>2, CutNext DEF a2
  <2> HIDE DEF x2, s2, s3
  <2> QED
    BY <1>9, <2>1, <2>2 DEF Before
<1> HIDE DEF x2
<1>11. Before(x3.d, tail, a4)
  <2>1. CASE x2.d.err = TRUE
    BY <2>1, StuckNext DEF Before
  <2>2. ASSUME NEW p \in Bytes, x2.d = Good(p), p \o tail = s3
        PROVE  Before(x3.d, tail, a4)
    BY <1>2, <2>2, CutNext DEF a3
  <2> HIDE DEF x3, s3
  <2> QED
    BY <1>10, <2>1, <2>2 DEF Before
<1> HIDE DEF x3
<1>12. x4.d.err = TRUE
  <2>1. CASE x3.d.err = TRUE
    BY <2>1, StuckNext DEF Before
  <2>2. ASSUME NEW p \in Bytes, x3.d = Good(p), p \o tail = a4
        PROVE  x4.d.err = TRUE
    BY <2>2, CutValue DEF a4
  <2> HIDE DEF x4
  <2> QED
    BY <1>11, <2>1, <2>2 DEF Before
<1>13. x4.d.err = TRUE => DecodeIAm(b).err = TRUE
  BY AnnouncementErr DEF x1, x2, x3
<1> QED
  BY <1>12, <1>13 DEF b

\* A frame without an error has the four bytes of its head.
LEMMA CutFrame ==
  ASSUME NEW w \in Bytes
  PROVE  DecodeBVLC(NewDecoder(w)).err = TRUE \/ Len(w) >= 4
<1> DEFINE d == Good(w)
           x1 == Decode(d, 1)
           x2 == Decode(x1.d, 1)
           x3 == Decode(x2.d, 2)
<1>1. DecodeBVLC(NewDecoder(w)).err = x3.d.err
  BY NoError DEF DecodeBVLC
<1>2. <<>> \in Bytes /\ Follows(d, Good(w \o <<>>), <<>>) /\ d.buf = w /\ Len(w) \in Nat
  <2>1. <<>> \in Bytes
    BY DEF Bytes
  <2> QED
    BY <2>1, FollowsGood, NoError, LenBytes
<1> HIDE DEF d
<1>3. /\ \E e : Follows(x1.d, e, <<>>)
      /\ x1.d.err # TRUE => 1 <= Len(w) /\ Len(x1.d.buf) = Len(w) - 1
  BY <1>2, CutDecode DEF ReadAlike
<1> HIDE DEF x1
<1>4. /\ \E e : Follows(x2.d, e, <<>>)
      /\ x2.d.err # TRUE => x1.d.err # TRUE /\ 1 <= Len(x1.d.buf) /\ Len(x2.d.buf) = Len(x1.d.buf) - 1
  <2>1. PICK e : Follows(x1.d, e, <<>>)
    BY <1>3
  <2> QED
    BY <1>2, <2>1, CutDecode DEF ReadAlike
<1> HIDE DEF x2
<1>5. x3.d.err # TRUE => x2.d.err # TRUE /\ 2 <= Len(x2.d.buf)
  <2>1. PICK e : Follows(x2.d, e, <<>>)
    BY <1>4
  <2> QED
    BY <1>2, <2>1, CutDecode DEF ReadAlike
<1> HIDE DEF x3
<1>6. x3.d.err # TRUE => Len(w) >= 4
  BY <1>2, <1>3, <1>4, <1>5
<1> QED
  BY <1>1, <1>6

-----------------------------------------------------------------------------
\* A byte read is a byte, also where it is not there.
Readable(d) == d.err = TRUE \/ (d.buf \in Bytes /\ d = Good(d.buf))

\* One byte read is a byte, zero if it was missed.
LEMMA ByteRead ==
  ASSUME NEW d, Readable(d)
  PROVE  Decode(d, 1).v[1] \in Byte
<1> DEFINE x == Decode(d, 1)
<1>0. Zeros(1)[1] = 0 /\ 0 \in Byte
  BY DEF Zeros, Byte
<1>1. CASE x.d.err = TRUE
  <2>1. x.v = Zeros(1)
    BY <1>1, Zeroed DEF Readable
  <2> HIDE DEF x
  <2> QED
    BY <1>0, <2>1 DEF x
<1>2. CASE x.d.err # TRUE
  <2>1. d.err # TRUE
    <3> SUFFICES ASSUME d.err = TRUE PROVE FALSE
      OBVIOUS
    <3>1. x = [d |-> d, v |-> Zeros(1)]
      BY StuckDecode
    <3> HIDE DEF x
    <3> QED
      BY <1>2, <3>1
  <2> DEFINE a == d.buf
  <2>2. a \in Bytes /\ d = Good(a) /\ Len(a) \in Nat
    BY <2>1, LenBytes DEF Readable
  <2>3. ~(Len(a) < 1)
    <3> SUFFICES ASSUME Len(a) < 1 PROVE FALSE
      OBVIOUS
    <3>1. x = [d |-> [buf |-> <<>>, err |-> TRUE], v |-> Zeros(1)]
      BY <2>2, Missing
    <3> HIDE DEF x
    <3> QED
      BY <1>2, <3>1
  <2>4. 1 \in 0 .. Len(a)
    BY <2>2, <2>3
  <2>5. PICK p, q \in Bytes : a = p \o q /\ Len(p) = 1
    BY <2>2, <2>4, SplitAt
  <2>6. x = [d |-> Good(q), v |-> p]
    BY <2>2, <2>5, ReadFront
  <2>7. p[1] \in Byte
    BY <2>5, ElementOfSeq DEF Bytes
  <2> HIDE DEF x
  <2> QED
    BY <2>6, <2>7 DEF x
<1> QED
  BY <1>1, <1>2

\* A decoder from which both read alike can be read from.
LEMMA ReadsReadable ==
  ASSUME NEW d, NEW x, NEW y, NEW tail, ReadAlike(d, x, y, tail)
  PROVE  Readable(x.d)
  BY DEF ReadAlike, Follows, Readable

\* The error stays over what is read after it.
LEMMA StuckIf ==
  ASSUME NEW d, d.err = TRUE, NEW on, NEW n
  PROVE  DecodeIf(d, on, n) = [d |-> d, v |-> Zeros(n)]
  BY StuckDecode DEF DecodeIf

\* A decoder in error reads no address.
LEMMA StuckAddress ==
  ASSUME NEW d, d.err = TRUE, NEW on
  PROVE  DecodeAddress(d, on).d = d
<1> DEFINE net == Decode(d, 2)
           len == Decode(net.d, 1)
           adr == Decode(len.d, len.v[1])
<1>1. net = [d |-> d, v |-> Zeros(2)]
  BY StuckDecode
<1>2. net.d = d
  BY <1>1
<1> HIDE DEF net
<1>3. len = [d |-> d, v |-> Zeros(1)]
  BY <1>2, StuckDecode
<1>4. len.d = d
  BY <1>3
<1> HIDE DEF len
<1>5. adr = [d |-> d, v |-> Zeros(len.v[1])]
  BY <1>4, StuckDecode
<1>6. adr.d = d
  BY <1>5
<1>7. DecodeAddress(d, on) = IF on THEN [d |-> adr.d, a |-> Addr(Natural(net.v), len.v[1], adr.v)]
                             ELSE [d |-> d, a |-> NoAddress]
  BY DEF DecodeAddress, adr, len, net
<1> HIDE DEF adr
<1> QED
  BY <1>6, <1>7

\* An address leaves both decoders alike.
LEMMA CutAddress ==
  ASSUME NEW d, NEW e, NEW tail \in Bytes, Follows(d, e, tail), NEW on \in BOOLEAN
  PROVE  Follows(DecodeAddress(d, on).d, DecodeAddress(e, on).d, tail)
<1>1. CASE ~on
  <2>1. DecodeAddress(d, on) = [d |-> d, a |-> NoAddress]
        /\ DecodeAddress(e, on) = [d |-> e, a |-> NoAddress]
    BY <1>1 DEF DecodeAddress
  <2>2. DecodeAddress(d, on).d = d /\ DecodeAddress(e, on).d = e
    BY <2>1
  <2> QED
    BY <2>2
<1>2. CASE on
  <2> DEFINE x1 == Decode(d, 2)
             x2 == Decode(x1.d, 1)
             x3 == Decode(x2.d, x2.v[1])
             y1 == Decode(e, 2)
             y2 == Decode(y1.d, 1)
             y3 == Decode(y2.d, y2.v[1])
  <2>1. ReadAlike(d, x1, y1, tail)
    BY CutDecode
  <2>2. DecodeAddress(d, on).d = x3.d /\ DecodeAddress(e, on).d = y3.d
    <3>1. DecodeAddress(d, on) = [d |-> x3.d, a |-> Addr(Natural(x1.v), x2.v[1], x3.v)]
      BY <1>2 DEF DecodeAddress
    <3>2. DecodeAddress(e, on) = [d |-> y3.d, a |-> Addr(Natural(y1.v), y2.v[1], y3.v)]
      BY <1>2 DEF DecodeAddress
    <3> HIDE DEF x1, x2, x3, y1, y2, y3
    <3> QED
      BY <3>1, <3>2
  <2> HIDE DEF x1, y1
  <2>3. ReadAlike(x1.d, x2, y2, tail)
    BY <2>1, CutDecode DEF ReadAlike
  <2>4. x2.v[1] \in Byte
    BY <2>1, ReadsReadable, ByteRead
  <2>5. CASE x2.d.err = TRUE
    <3> HIDE DEF x2
    <3>1. x3 = [d |-> x2.d, v |-> Zeros(x2.v[1])]
      BY <2>5, StuckDecode
    <3> HIDE DEF x3
    <3>2. x3.d.err = TRUE
      BY <2>5, <3>1
    <3> QED
      BY <2>2, <3>2 DEF Follows
  <2>6. CASE x2.d.err # TRUE
    <3> HIDE DEF x2, y2
    <3>1. x2.v = y2.v /\ Follows(x2.d, y2.d, tail) /\ x2.v[1] \in Nat
      BY <2>3, <2>4, <2>6 DEF ReadAlike, Byte
    <3>2. ReadAlike(x2.d, x3, y3, tail)
      BY <3>1, CutDecode
    <3> HIDE DEF x3, y3
    <3> QED
      BY <2>2, <3>2 DEF ReadAlike
  <2> QED
    BY <2>5, <2>6
<1> QED
  BY <1>1, <1>2

\* The header, field by field.
LEMMA HeaderSteps ==
  ASSUME NEW d
  PROVE  LET x1 == Decode(d, 1)
             x2 == Decode(x1.d, 1)
             m == x2.v[1]
             x3 == DecodeAddress(x2.d, Bit(m, 32))
             x4 == DecodeAddress(x3.d, Bit(m, 8))
             x5 == DecodeIf(x4.d, Bit(m, 32), 1)
             x6 == DecodeIf(x5.d, Bit(m, 128), 1)
             x7 == DecodeIf(x6.d, x6.v[1] > 128, 2)
             h == ReadHeader(d)
         IN  h.meta = m /\ h.type = x6.v[1] /\ h.d = x7.d
  BY DEF ReadHeader

\* The header of an APDU is read alike from both.
LEMMA CutHeader ==
  ASSUME NEW d, NEW e, NEW tail \in Bytes, Follows(d, e, tail)
  PROVE  LET h == ReadHeader(d)
             g == ReadHeader(e)
         IN  /\ Follows(h.d, g.d, tail)
             /\ h.d.err # TRUE => h.meta = g.meta /\ h.type = g.type
<1> DEFINE h == ReadHeader(d)
           g == ReadHeader(e)
           x1 == Decode(d, 1)
           x2 == Decode(x1.d, 1)
           m == x2.v[1]
           x3 == DecodeAddress(x2.d, Bit(m, 32))
           x4 == DecodeAddress(x3.d, Bit(m, 8))
           x5 == DecodeIf(x4.d, Bit(m, 32), 1)
           x6 == DecodeIf(x5.d, Bit(m, 128), 1)
           x7 == DecodeIf(x6.d, x6.v[1] > 128, 2)
           y1 == Decode(e, 1)
           y2 == Decode(y1.d, 1)
           n == y2.v[1]
           y3 == DecodeAddress(y2.d, Bit(n, 32))
           y4 == DecodeAddress(y3.d, Bit(n, 8))
           y5 == DecodeIf(y4.d, Bit(n, 32), 1)
           y6 == DecodeIf(y5.d, Bit(n, 128), 1)
           y7 == DecodeIf(y6.d, y6.v[1] > 128, 2)
<1> SUFFICES /\ Follows(h.d, g.d, tail)
             /\ h.d.err # TRUE => h.meta = g.meta /\ h.type = g.type
  OBVIOUS
<1>1. h.meta = m /\ h.type = x6.v[1] /\ h.d = x7.d
  BY HeaderSteps
<1>2. g.meta = n /\ g.type = y6.v[1] /\ g.d = y7.d
  BY HeaderSteps
<1> HIDE DEF h, g
<1>3. ReadAlike(d, x1, y1, tail)
  BY CutDecode
<1> HIDE DEF x1, y1
<1>4. ReadAlike(x1.d, x2, y2, tail)
  BY <1>3, CutDecode DEF ReadAlike
<1> HIDE DEF x2, y2
<1>5. CASE x2.d.err = TRUE
  <2>1. x3.d = x2.d
    BY <1>5, StuckAddress
  <2> HIDE DEF x3
  <2>2. x4.d = x2.d
    BY <1>5, <2>1, StuckAddress
  <2> HIDE DEF x4
  <2>3. x5.d = x2.d
    <3>1. x5 = [d |-> x4.d, v |-> Zeros(1)]
      BY <1>5, <2>2, StuckIf
    <3> HIDE DEF x5
    <3> QED
      BY <2>2, <3>1
  <2> HIDE DEF x5
  <2>4. x6.d = x2.d
    <3>1. x6 = [d |-> x5.d, v |-> Zeros(1)]
      BY <1>5, <2>3, StuckIf
    <3> HIDE DEF x6
    <3> QED
      BY <2>3, <3>1
  <2> HIDE DEF x6
  <2>5. x7.d = x2.d
    <3>1. x7 = [d |-> x6.d, v |-> Zeros(2)]
      BY <1>5, <2>4, StuckIf
    <3> HIDE DEF x7
    <3> QED
      BY <2>4, <3>1
  <2> HIDE DEF x7
  <2> QED
    BY <1>1, <1>5, <2>5 DEF Follows
<1>6. CASE x2.d.err # TRUE
  <2>1. m = n /\ Follows(x2.d, y2.d, tail)
    BY <1>4, <1>6 DEF ReadAlike
  <2>2. /\ x3 = DecodeAddress(x2.d, Bit(m, 32)) /\ y3 = DecodeAddress(y2.d, Bit(m, 32))
        /\ x4 = DecodeAddress(x3.d, Bit(m, 8)) /\ y4 = DecodeAddress(y3.d, Bit(m, 8))
        /\ x5 = DecodeIf(x4.d, Bit(m, 32), 1) /\ y5 = DecodeIf(y4.d, Bit(m, 32), 1)
        /\ x6 = DecodeIf(x5.d, Bit(m, 128), 1) /\ y6 = DecodeIf(y5.d, Bit(m, 128), 1)
    BY <2>1
  <2>3. Bit(m, 32) \in BOOLEAN /\ Bit(m, 8) \in BOOLEAN /\ Bit(m, 128) \in BOOLEAN
    BY DEF Bit
  <2> DEFINE on32 == Bit(m, 32)
             on8 == Bit(m, 8)
             on128 == Bit(m, 128)
  <2> HIDE DEF m, n, x3, x4, x5, x6, y3, y4, y5, y6
  <2>4. Follows(x3.d, y3.d, tail)
    BY <2>1, <2>2, <2>3, CutAddress
  <2>5. Follows(x4.d, y4.d, tail)
    BY <2>2, <2>3, <2>4, CutAddress
  <2>6. ReadAlike(x4.d, x5, y5, tail)
    BY <2>2, <2>3, <2>5, CutIf
  <2>11. Follows(x5.d, y5.d, tail)
    BY <2>6 DEF ReadAlike
  <2>7. ReadAlike(x5.d, x6, y6, tail)
    BY <2>2, <2>3, <2>11, CutIf
  <2>8. x6.v[1] \in Byte
    <3>1. CASE Bit(m, 128)
      <4>1. x6 = Decode(x5.d, 1)
        BY <2>2, <3>1 DEF DecodeIf
      <4>2. Readable(x5.d)
        BY <2>6, ReadsReadable
      <4> QED
        BY <4>1, <4>2, ByteRead
    <3>2. CASE ~Bit(m, 128)
      <4>1. x6 = [d |-> x5.d, v |-> Zeros(1)]
        BY <2>2, <3>2 DEF DecodeIf
      <4>2. x6.v = Zeros(1)
        BY <4>1
      <4> QED
        BY <4>2 DEF Zeros, Byte
    <3> QED
      BY <3>1, <3>2
  <2>9. CASE x6.d.err = TRUE
    <3>1. x7 = [d |-> x6.d, v |-> Zeros(2)]
      BY <2>9, StuckIf
    <3> HIDE DEF x7
    <3>2. x7.d.err = TRUE
      BY <2>9, <3>1
    <3> QED
      BY <1>1, <3>2 DEF Follows
  <2>10. CASE x6.d.err # TRUE
    <3>1. x6.v = y6.v /\ Follows(x6.d, y6.d, tail) /\ (x6.v[1] > 128) \in BOOLEAN
      BY <2>7, <2>8, <2>10 DEF ReadAlike, Byte
    <3>2. ReadAlike(x6.d, x7, y7, tail)
      BY <3>1, CutIf
    <3> HIDE DEF x7, y7
    <3> QED
      BY <1>1, <1>2, <2>1, <3>1, <3>2 DEF ReadAlike
  <2> QED
    BY <2>9, <2>10
<1> QED
  BY <1>5, <1>6

\* What is an error in the header or in the networks behind it is an error of
\* the packet.
LEMMA HeaderErr ==
  ASSUME NEW d
  PROVE  LET h == ReadHeader(d)
             number == Decode(h.d, 2)
             z == DecodeNetworks(h.d)
             x == DecodeNPDU(d)
         IN  \/ /\ Bit(h.meta, 128) /\ h.type = NetworkIs /\ x.err = number.d.err
             \/ /\ Bit(h.meta, 128) /\ h.type = IamRouterToNetwork
                /\ x.err = z.d.err /\ x.nets = z.nets
             \/ /\ ~(Bit(h.meta, 128) /\ (h.type = NetworkIs \/ h.type = IamRouterToNetwork))
                /\ x.err = h.d.err
<1> DEFINE h == ReadHeader(d)
           number == Decode(h.d, 2)
           z == DecodeNetworks(h.d)
           x == DecodeNPDU(d)
<1>0. NetworkIs = 19 /\ IamRouterToNetwork = 1
  BY DEF NetworkIs, IamRouterToNetwork
<1>1. ASSUME Bit(h.meta, 128) /\ h.type = NetworkIs
      PROVE  x.err = number.d.err
  <2>1. x = [d |-> number.d, npdu |-> Header(h, Addr(Natural(number.v), 0, <<>>)),
             nets |-> <<>>, err |-> number.d.err]
    BY <1>0, <1>1 DEF DecodeNPDU, AfterHeader
  <2> HIDE DEF x, number
  <2> QED
    BY <2>1
<1>2. ASSUME Bit(h.meta, 128) /\ h.type = IamRouterToNetwork
      PROVE  x.err = z.d.err /\ x.nets = z.nets
  <2>1. x = [d |-> z.d, npdu |-> Header(h, z.a), nets |-> z.nets, err |-> z.d.err]
    BY <1>0, <1>2 DEF DecodeNPDU, AfterHeader
  <2> HIDE DEF x, z
  <2> QED
    BY <2>1
<1>3. ASSUME ~(Bit(h.meta, 128) /\ (h.type = NetworkIs \/ h.type = IamRouterToNetwork))
      PROVE  x.err = h.d.err
  <2>1. AfterHeader(h) = [d |-> h.d, npdu |-> Header(h, h.source), nets |-> <<>>, err |-> h.d.err]
    <3> HIDE DEF h
    <3> QED
      BY <1>0, <1>3, SMTT(60) DEF AfterHeader
  <2>2. x = AfterHeader(h)
    BY DEF DecodeNPDU
  <2> HIDE DEF x, h
  <2> QED
    BY <2>1, <2>2
<1> HIDE DEF h, number, z, x
<1>4. \/ /\ Bit(h.meta, 128) /\ h.type = NetworkIs /\ x.err = number.d.err
      \/ /\ Bit(h.meta, 128) /\ h.type = IamRouterToNetwork
         /\ x.err = z.d.err /\ x.nets = z.nets
      \/ /\ ~(Bit(h.meta, 128) /\ (h.type = NetworkIs \/ h.type = IamRouterToNetwork))
         /\ x.err = h.d.err
  BY <1>1, <1>2, <1>3
<1> QED
  BY <1>4 DEF h, number, z, x

\* The first two networks of a list that was cut behind them.
LEMMA CutNetworks ==
  ASSUME NEW nets \in Seq(Port), NEW d, NEW tail \in Bytes,
         Follows(d, Good(NetworkBytes(nets)), tail),
         DecodeNetworks(d).d.err # TRUE
  PROVE  /\ Len(nets) >= 2 /\ DecodeNetworks(d).nets = NetworksRead(nets)
         /\ d.err # TRUE /\ 4 <= Len(d.buf)
<1> DEFINE e == Good(NetworkBytes(nets))
           x1 == Decode(d, 2)
           x2 == Decode(x1.d, 2)
           y1 == Decode(e, 2)
           y2 == Decode(y1.d, 2)
           z == DecodeNetworks(d)
           u == DecodeNetworks(e)
           a == Addr(Natural(x1.v), 0, <<>>)
           b == Addr(Natural(x2.v), 0, <<>>)
           f == Addr(Natural(y1.v), 0, <<>>)
           g == Addr(Natural(y2.v), 0, <<>>)
<1>0. Len(nets) \in Nat
  OBVIOUS
<1>1. z.d = x2.d /\ (x2.d.err = FALSE => z.nets = IF a = b THEN <<a>> ELSE <<a, b>>)
  BY NetworksForm2
<1>2. u.d = y2.d /\ (y2.d.err = FALSE => u.nets = IF f = g THEN <<f>> ELSE <<f, g>>)
  BY NetworksForm2
<1>3. /\ Len(nets) < 2 => u.d.err = TRUE
      /\ Len(nets) >= 2 => u.d.err = FALSE /\ u.nets = NetworksRead(nets)
  BY NetworksReadBack
<1>4. Follows(d, e, tail)
  OBVIOUS
<1>5. z.d.err # TRUE
  OBVIOUS
<1> HIDE DEF e, z, u
<1>6. /\ ReadAlike(d, x1, y1, tail)
      /\ x1.d.err # TRUE => 2 <= Len(d.buf) /\ Len(x1.d.buf) = Len(d.buf) - 2
  BY <1>4, CutDecode
<1> HIDE DEF x1, y1
<1>7. /\ ReadAlike(x1.d, x2, y2, tail)
      /\ x2.d.err # TRUE => 2 <= Len(x1.d.buf)
  BY <1>6, CutDecode DEF ReadAlike
<1> HIDE DEF x2, y2
<1>8. x2.d.err # TRUE
  BY <1>1, <1>5
<1>9. /\ x1.v = y1.v /\ x2.v = y2.v /\ d.err = FALSE /\ x1.d.err = FALSE
      /\ x2.d.err = FALSE /\ y2.d.err = FALSE /\ d.buf \in Bytes
  BY <1>4, <1>6, <1>7, <1>8, NoError DEF ReadAlike, Follows
<1>10. 4 <= Len(d.buf)
  <2>1. Len(d.buf) \in Nat
    BY <1>9, LenBytes
  <2>2. Len(x1.d.buf) = Len(d.buf) - 2 /\ 2 <= Len(x1.d.buf)
    BY <1>6, <1>7, <1>8, <1>9
  <2> QED
    BY <2>1, <2>2
<1>11. u.d.err = FALSE
  BY <1>2, <1>9
<1>12. Len(nets) >= 2 /\ u.nets = NetworksRead(nets)
  BY <1>0, <1>3, <1>11
<1>13. z.nets = u.nets
  BY <1>1, <1>2, <1>9
<1> QED
  BY <1>9, <1>10, <1>12, <1>13 DEF z

\* A header, and what follows it, that miss bytes: refused, but for the
\* networks that come behind the two that are read.
LEMMA CutHeaders ==
  ASSUME NEW sent, AnswerFits(sent), NEW w \in Bytes, NEW tail \in Bytes, tail # <<>>,
         w \o tail = NPDU(sent.npdu) \o NetworkBytes(sent.nets)
  PROVE  LET x == DecodeNPDU(NewDecoder(w))
         IN  \/ x.err = TRUE \/ sent.npdu.type = 128
             \/ Len(sent.nets) > 2 /\ x.nets = NetworksRead(sent.nets)
<1> DEFINE x == DecodeNPDU(NewDecoder(w))
           npdu == sent.npdu
           nets == sent.nets
           nb == NetworkBytes(nets)
           d == Good(w)
           e == Good(w \o tail)
           h == ReadHeader(d)
           g == ReadHeader(e)
           number == Decode(h.d, 2)
           z == DecodeNetworks(h.d)
<1> SUFFICES ASSUME x.err # TRUE, npdu.type # 128
             PROVE  Len(nets) > 2 /\ x.nets = NetworksRead(nets)
  OBVIOUS
<1>1. npdu \in AppHeaders /\ nets \in Seq(Port) /\ nb \in Bytes /\ Len(nets) \in Nat
  BY NetworksForm DEF AnswerFits
<1>2. nets # <<>> =>
           \/ npdu.network /\ npdu.type = IamRouterToNetwork
           \/ npdu.network /\ npdu.type = NetworkIs /\ Len(nets) = 1
  BY DEF AnswerFits
<1>3. g.meta = ControlByte(npdu) /\ g.type = npdu.type /\ g.d = Good(nb)
  <2>1. e = Good(NPDU(npdu) \o nb)
    OBVIOUS
  <2> HIDE DEF e, nb, npdu
  <2> QED
    BY <1>1, <2>1, HeaderRead
<1>4. Follows(d, e, tail) /\ NewDecoder(w) = d
  BY FollowsGood, NoError
<1> HIDE DEF e, d
<1>5. Follows(h.d, g.d, tail) /\ (h.d.err # TRUE => h.meta = g.meta /\ h.type = g.type)
  BY <1>4, CutHeader
<1>6. \/ Bit(h.meta, 128) /\ h.type = NetworkIs /\ x.err = number.d.err
      \/ Bit(h.meta, 128) /\ h.type = IamRouterToNetwork /\ x.err = z.d.err /\ x.nets = z.nets
      \/ /\ ~(Bit(h.meta, 128) /\ (h.type = NetworkIs \/ h.type = IamRouterToNetwork))
         /\ x.err = h.d.err
  BY <1>4, HeaderErr
<1> HIDE DEF x, h, g, npdu, nets, nb
<1>7. number.d.err # TRUE => h.d.err # TRUE /\ 2 <= Len(h.d.buf)
  BY <1>5, CutDecode, NoError DEF ReadAlike
<1>8. z.d.err # TRUE => h.d.err # TRUE /\ 4 <= Len(h.d.buf) /\ Len(nets) >= 2 /\ z.nets = NetworksRead(nets)
  BY <1>1, <1>3, <1>5, CutNetworks DEF nb
<1> HIDE DEF number, z
<1>9. h.d.err # TRUE /\ h.meta = ControlByte(npdu) /\ h.type = npdu.type
  BY <1>3, <1>5, <1>6, <1>7, <1>8
<1> DEFINE p == h.d.buf
<1>10. p \in Bytes /\ Good(nb) = Good(p \o tail)
  BY <1>3, <1>5, <1>9 DEF Follows
<1>11. nb = p \o tail
  <2>1. Good(nb).buf = nb /\ Good(p \o tail).buf = p \o tail
    BY NoError
  <2> QED
    BY <1>10, <2>1
<1> HIDE DEF p
<1>12. Len(nb) = Len(p) + Len(tail) /\ Len(p) \in Nat /\ Len(tail) \in Nat /\ Len(tail) # 0
  <2>1. Len(tail) # 0
    BY EmptySeq DEF Bytes
  <2> QED
    BY <1>10, <1>11, <2>1, JoinAt, LenBytes
<1> DEFINE lb == Len(nb)
           lp == Len(p)
           lt == Len(tail)
           ln == Len(nets)
<1>13. lb = 2 * ln /\ ln \in Nat /\ lb = lp + lt /\ lp \in Nat /\ lt \in Nat /\ lt # 0
  <2>1. Len(nb) = 2 * Len(nets)
    BY <1>1 DEF nb, NetworkBytes
  <2> QED
    BY <1>1, <1>12, <2>1
<1> HIDE DEF lb, lp, lt, ln
<1>14. nets # <<>>
  <2> SUFFICES ASSUME nets = <<>> PROVE FALSE
    OBVIOUS
  <2>1. ln = 0
    BY DEF ln
  <2> QED
    BY <1>13, <2>1
<1>15. Bit(h.meta, 128) = npdu.network
  BY <1>1, <1>9, ControlBits
<1>16. h.type = IamRouterToNetwork /\ x.nets = z.nets /\ z.d.err # TRUE
  <2>1. NetworkIs # IamRouterToNetwork
    BY DEF NetworkIs, IamRouterToNetwork
  <2>2. CASE npdu.network /\ npdu.type = IamRouterToNetwork
    BY <1>6, <1>9, <1>15, <2>1, <2>2
  <2>3. CASE npdu.network /\ npdu.type = NetworkIs /\ Len(nets) = 1
    <3>1. number.d.err # TRUE
      BY <1>6, <1>9, <1>15, <2>1, <2>3
    <3>2. 2 <= Len(p)
      BY <1>7, <3>1 DEF p
    <3>3. ln = 1 /\ 2 <= lp
      BY <2>3, <3>2 DEF ln, lp
    <3> QED
      BY <1>13, <3>3
  <2> QED
    BY <1>2, <1>14, <2>2, <2>3
<1> QED
  <2>1. 4 <= Len(p) /\ z.nets = NetworksRead(nets)
    BY <1>8, <1>16 DEF p
  <2>2. ln > 2
    BY <1>13, <2>1 DEF lp
  <2> QED
    BY <1>16, <2>1, <2>2 DEF x, nets, ln

\* What a decoder has left: bytes, and whether the error is set.
Decoders == [buf : Bytes, err : BOOLEAN]
Left(d) == 8 * Len(d.buf) + (IF d.err THEN 0 ELSE 4)

\* Reading from d leaves x: never more than there was, and nothing after an
\* error that found nothing.
Spent(d) == d.err = TRUE => d.buf = <<>>
Kept(d, x) == /\ x \in Decoders /\ Left(x) <= Left(d)
              /\ Spent(d) => Spent(x)

\* What is left of a decoder is a number.
LEMMA LeftKnown ==
  ASSUME NEW d \in Decoders
  PROVE  Left(d) \in Nat /\ Len(d.buf) \in Nat /\ d.buf \in Bytes /\ d.err \in BOOLEAN
  BY LenBytes DEF Left, Decoders

\* A decoder keeps what it has.
LEMMA KeptSame == \A d \in Decoders : Kept(d, d)
  BY LeftKnown DEF Kept

\* What is kept by two steps is kept by both together.
LEMMA KeptThen ==
  \A d, x, y : d \in Decoders /\ Kept(d, x) /\ Kept(x, y) => Kept(d, y)
<1> SUFFICES ASSUME NEW d \in Decoders, NEW x, NEW y, Kept(d, x), Kept(x, y) PROVE Kept(d, y)
  OBVIOUS
<1>1. Left(d) \in Nat /\ Left(x) \in Nat /\ Left(y) \in Nat
  BY LeftKnown DEF Kept
<1> QED
  BY <1>1 DEF Kept

\* What is behind the first n bytes.
LEMMA RestBytes ==
  ASSUME NEW a \in Bytes, NEW n \in Nat
  PROVE  /\ Rest(a, n) \in Bytes
         /\ Len(Rest(a, n)) = IF n <= Len(a) THEN Len(a) - n ELSE 0
  BY DEF Rest, Bytes

\* Zeros are bytes.
LEMMA ZeroBytes == \A n \in Nat : Zeros(n) \in Bytes /\ Len(Zeros(n)) = n
<1> SUFFICES ASSUME NEW n \in Nat PROVE Zeros(n) \in Bytes /\ Len(Zeros(n)) = n
  OBVIOUS
<1>1. Zeros(n) \in [1 .. n -> Byte]
  BY DEF Zeros, Byte
<1> QED
  BY <1>1, BytesOf

\* Reading n bytes gives n bytes, and uses some up unless there was the error.
LEMMA KeptDecode ==
  ASSUME NEW d \in Decoders, NEW n \in Nat
  PROVE  /\ Kept(d, Decode(d, n).d)
         /\ Decode(d, n).v \in Bytes /\ Len(Decode(d, n).v) = n
         /\ d.err = FALSE /\ n > 0 => Left(Decode(d, n).d) < Left(d)
<1> DEFINE x == Decode(d, n)
<1>1. Left(d) \in Nat /\ Len(d.buf) \in Nat /\ d.buf \in Bytes /\ d.err \in BOOLEAN
  BY LeftKnown
<1>2. CASE d.err
  <2>1. x = [d |-> d, v |-> Zeros(n)]
    BY <1>2, StuckDecode
  <2>2. x.d = d /\ x.v = Zeros(n)
    BY <2>1
  <2> HIDE DEF x
  <2> QED
    BY <1>2, <2>2, KeptSame, ZeroBytes DEF x
<1>3. CASE ~d.err /\ Len(d.buf) < n
  <2> DEFINE e == [buf |-> <<>>, err |-> TRUE]
  <2>1. x = [d |-> e, v |-> Zeros(n)]
    BY <1>3 DEF Decode
  <2>2. x.d = e /\ x.v = Zeros(n)
    BY <2>1
  <2>3. e \in Decoders /\ Left(e) = 0 /\ Spent(e)
    BY DEF Decoders, Left, Spent, Bytes
  <2>4. Left(d) >= 4
    BY <1>1, <1>3 DEF Left
  <2> HIDE DEF x, e
  <2> QED
    BY <1>1, <2>2, <2>3, <2>4, ZeroBytes DEF x, Kept
<1>4. CASE ~d.err /\ ~(Len(d.buf) < n)
  <2>1. n \in 0 .. Len(d.buf)
    BY <1>1, <1>4
  <2>2. PICK p \in Bytes, q \in Bytes : d.buf = p \o q /\ Len(p) = n
    BY <1>1, <2>1, SplitAt
  <2>3. d = Good(p \o q)
    BY <1>1, <1>4, <2>2 DEF Decoders, Good
  <2>4. x = [d |-> Good(q), v |-> p]
    BY <2>2, <2>3, ReadFront
  <2>5. x.d = Good(q) /\ x.v = p
    BY <2>4
  <2> HIDE DEF x
  <2>6. Good(q) \in Decoders /\ Good(q).err = FALSE /\ Good(q).buf = q /\ Spent(Good(q))
    BY DEF Decoders, Good, Spent
  <2>7. Len(d.buf) = n + Len(q) /\ Len(q) \in Nat
    BY <2>2, JoinAt, LenBytes
  <2>8. Left(Good(q)) = 8 * Len(q) + 4 /\ Left(d) = 8 * Len(d.buf) + 4
    BY <1>4, <2>6 DEF Left
  <2>9. Left(Good(q)) <= Left(d) /\ (n > 0 => Left(Good(q)) < Left(d))
    BY <2>7, <2>8
  <2> QED
    BY <2>2, <2>5, <2>6, <2>9 DEF x, Kept
<1> QED
  BY <1>1, <1>2, <1>3, <1>4

\* The one byte of a sequence of one.
LEMMA FirstByte == \A v \in Bytes : Len(v) = 1 => v[1] \in Byte
<1> SUFFICES ASSUME NEW v \in Bytes, Len(v) = 1 PROVE v[1] \in Byte
  OBVIOUS
<1>1. 1 \in 1 .. Len(v)
  OBVIOUS
<1> QED
  BY <1>1, ElementOfSeq DEF Bytes

\* The number of a tag takes at least a byte.
LEMMA KeptTag ==
  ASSUME NEW d \in Decoders
  PROVE  LET t == TagNumber(d)
         IN  /\ Kept(d, t.d) /\ t.tag \in Byte /\ t.meta \in Byte
             /\ d.err = FALSE => Left(t.d) < Left(d)
<1> DEFINE x == Decode(d, 1)
           y == Decode(x.d, 1)
           t == TagNumber(d)
<1>1. t = IF x.v[1] >= 240 THEN [d |-> y.d, tag |-> y.v[1], meta |-> x.v[1]]
          ELSE [d |-> x.d, tag |-> x.v[1] \div 16, meta |-> x.v[1]]
  BY DEF TagNumber
<1>2. /\ Kept(d, x.d) /\ x.v \in Bytes /\ Len(x.v) = 1
      /\ d.err = FALSE => Left(x.d) < Left(d)
  <2>1. 1 \in Nat /\ 1 > 0
    OBVIOUS
  <2> QED
    BY <2>1, KeptDecode
<1> HIDE DEF x
<1>3. x.d \in Decoders
  BY <1>2 DEF Kept
<1>4. Kept(x.d, y.d) /\ y.v \in Bytes /\ Len(y.v) = 1
  BY <1>3, KeptDecode
<1> HIDE DEF y, t
<1>5. x.v[1] \in Byte /\ y.v[1] \in Byte
  BY <1>2, <1>4, FirstByte
<1>6. x.v[1] \div 16 \in Byte
  BY <1>5 DEF Byte
<1>7. CASE x.v[1] >= 240
  <2>1. t = [d |-> y.d, tag |-> y.v[1], meta |-> x.v[1]]
    BY <1>1, <1>7
  <2>2. t.d = y.d /\ t.tag = y.v[1] /\ t.meta = x.v[1]
    BY <2>1
  <2>3. Left(y.d) <= Left(x.d) /\ Left(y.d) \in Nat /\ Left(x.d) \in Nat /\ Left(d) \in Nat
    BY <1>3, <1>4, LeftKnown DEF Kept
  <2>4. Kept(d, y.d)
    BY <1>2, <1>4, KeptThen
  <2>5. d.err = FALSE => Left(y.d) < Left(d)
    BY <1>2, <2>3
  <2> QED
    BY <1>5, <2>2, <2>4, <2>5 DEF t
<1>8. CASE ~(x.v[1] >= 240)
  <2>1. t = [d |-> x.d, tag |-> x.v[1] \div 16, meta |-> x.v[1]]
    BY <1>1, <1>8
  <2>2. t.d = x.d /\ t.tag = x.v[1] \div 16 /\ t.meta = x.v[1]
    BY <2>1
  <2> QED
    BY <1>2, <1>5, <1>6, <2>2 DEF t
<1> QED
  BY <1>7, <1>8

\* Up to four bytes are a word, and a length.
LEMMA WidenWord ==
  ASSUME NEW v \in Bytes, Len(v) <= 4
  PROVE  Widen(v) \in Word /\ Natural(v) \in Nat /\ LengthOf(Widen(v)) \in Nat
<1> DEFINE w == Widen(v)
<1>1. Len(v) \in 0 .. 4 /\ \A i \in 1 .. Len(v) : v[i] \in Byte
  <2> DEFINE k == Len(v)
  <2>1. k \in Nat /\ k <= 4
    BY LenBytes
  <2> HIDE DEF k
  <2>4. k \in 0 .. 4
    BY <2>1
  <2>2. Len(v) \in 0 .. 4
    BY <2>4 DEF k
  <2>3. \A i \in 1 .. Len(v) : v[i] \in Byte
    BY ElementOfSeq DEF Bytes
  <2> QED
    BY <2>2, <2>3
<1>2. w \in Word
  <2>1. \A i \in 1 .. 4 : (IF i > 4 - Len(v) THEN v[i - (4 - Len(v))] ELSE 0) \in Byte
    <3> SUFFICES ASSUME NEW i \in 1 .. 4
                 PROVE (IF i > 4 - Len(v) THEN v[i - (4 - Len(v))] ELSE 0) \in Byte
      OBVIOUS
    <3>1. CASE i > 4 - Len(v)
      <4>1. i - (4 - Len(v)) \in 1 .. Len(v)
        BY <1>1, <3>1
      <4> QED
        BY <1>1, <3>1, <4>1
    <3>2. CASE ~(i > 4 - Len(v))
      BY <3>2 DEF Byte
    <3> QED
      BY <3>1, <3>2
  <2> QED
    BY <2>1 DEF Widen, Word
<1>3. \A u \in Word : 16777216 * u[1] + 65536 * u[2] + 256 * u[3] + u[4] \in Nat
  <2> SUFFICES ASSUME NEW u \in Word
               PROVE  16777216 * u[1] + 65536 * u[2] + 256 * u[3] + u[4] \in Nat
    OBVIOUS
  <2>1. u \in [1 .. 4 -> Byte]
    BY DEF Word
  <2>2. u[1] \in Byte /\ u[2] \in Byte /\ u[3] \in Byte /\ u[4] \in Byte
    BY <2>1
  <2>3. \A b \in Byte : b \in Nat
    BY DEF Byte
  <2>4. u[1] \in Nat /\ u[2] \in Nat /\ u[3] \in Nat /\ u[4] \in Nat
    BY <2>2, <2>3
  <2> DEFINE i == u[1]
             j == u[2]
             k == u[3]
             l == u[4]
  <2>5. i \in Nat /\ j \in Nat /\ k \in Nat /\ l \in Nat
    BY <2>4
  <2> HIDE DEF i, j, k, l
  <2>6. 16777216 * i + 65536 * j + 256 * k + l \in Nat
    BY <2>5, SMT
  <2> QED
    BY <2>6, SMT DEF i, j, k, l
<1>4. Natural(v) = 16777216 * w[1] + 65536 * w[2] + 256 * w[3] + w[4]
  BY SMT DEF Natural
<1> HIDE DEF w
<1>5. Natural(v) \in Nat
  BY <1>2, <1>3, <1>4, SMT
<1>6. Natural(w) \in Nat
  <2>1. Widen(w) = w
    BY <1>2, WordBytes
  <2>2. Natural(w) = 16777216 * w[1] + 65536 * w[2] + 256 * w[3] + w[4]
    BY <2>1, SMT DEF Natural
  <2> QED
    BY <1>2, <1>3, <2>2, SMT
<1>7. LengthOf(w) \in Nat
  BY <1>6, SMT DEF LengthOf, LongLength
<1> QED
  BY <1>2, <1>5, <1>7 DEF w

\* The length in a tag is read with no byte given back.
LEMMA KeptLength ==
  ASSUME NEW d \in Decoders, NEW meta \in Byte
  PROVE  Kept(d, TagValue(d, meta).d) /\ TagValue(d, meta).v \in Nat
<1> DEFINE m == meta % 8
           x == Decode(d, 1)
           k == IF x.v[1] = 255 THEN 4 ELSE 2
           y == Decode(x.d, k)
           t == TagValue(d, meta)
<1>0. m \in 0 .. 7
  BY DEF Byte
<1>1. CASE m < 5
  <2>1. t = [d |-> d, v |-> m]
    BY <1>0, <1>1 DEF TagValue
  <2> HIDE DEF t, m
  <2>2. t.d = d /\ t.v = m
    BY <2>1
  <2> QED
    BY <1>0, <2>2, KeptSame DEF t
<1>2. CASE m > 5
  <2>1. t = [d |-> d, v |-> 0]
    BY <1>0, <1>2 DEF TagValue
  <2> HIDE DEF t, m
  <2>2. t.d = d /\ t.v = 0
    BY <2>1
  <2> QED
    BY <1>0, <2>2, KeptSame DEF t
<1>3. CASE m = 5
  <2>1. t = IF x.v[1] < 254 THEN [d |-> x.d, v |-> x.v[1]]
            ELSE [d |-> y.d, v |-> LengthOf(Widen(y.v))]
    BY <1>3 DEF TagValue
  <2>2. Kept(d, x.d) /\ x.v \in Bytes /\ Len(x.v) = 1
    BY KeptDecode
  <2> HIDE DEF x
  <2>3. x.d \in Decoders /\ x.v[1] \in Byte /\ x.v[1] \in Nat
    <3>1. x.v[1] \in Byte
      BY <2>2, FirstByte
    <3> QED
      BY <2>2, <3>1 DEF Kept, Byte
  <2>4. k \in Nat /\ k <= 4
    OBVIOUS
  <2> HIDE DEF k
  <2>5. Kept(x.d, y.d) /\ y.v \in Bytes /\ Len(y.v) = k
    BY <2>3, <2>4, KeptDecode
  <2> HIDE DEF y
  <2>6. LengthOf(Widen(y.v)) \in Nat
    BY <2>4, <2>5, WidenWord
  <2>7. Kept(d, y.d)
    BY <2>2, <2>5, KeptThen
  <2> HIDE DEF t
  <2>8. CASE x.v[1] < 254
    <3>1. t = [d |-> x.d, v |-> x.v[1]]
      BY <2>1, <2>8
    <3>2. t.d = x.d /\ t.v = x.v[1]
      BY <3>1
    <3> QED
      BY <2>2, <2>3, <3>2 DEF t
  <2>9. CASE ~(x.v[1] < 254)
    <3>1. t = [d |-> y.d, v |-> LengthOf(Widen(y.v))]
      BY <2>1, <2>9
    <3>2. t.d = y.d /\ t.v = LengthOf(Widen(y.v))
      BY <3>1
    <3> QED
      BY <2>6, <2>7, <3>2 DEF t
  <2> QED
    BY <2>8, <2>9
<1>4. m < 5 \/ m > 5 \/ m = 5
  BY <1>0
<1> QED
  BY <1>1, <1>2, <1>3, <1>4

\* A tag with its length takes at least a byte.
LEMMA KeptTagAndValue ==
  ASSUME NEW d \in Decoders
  PROVE  LET t == TagNumberAndValue(d)
         IN  /\ Kept(d, t.d) /\ t.tag \in Byte /\ t.meta \in Byte /\ t.v \in Nat
             /\ d.err = FALSE => Left(t.d) < Left(d)
<1> DEFINE u == TagNumber(d)
           x == TagValue(u.d, u.meta)
           t == TagNumberAndValue(d)
<1>1. t = [d |-> x.d, tag |-> u.tag, meta |-> u.meta, v |-> x.v]
  BY DEF TagNumberAndValue, ValueOf
<1>2. /\ Kept(d, u.d) /\ u.tag \in Byte /\ u.meta \in Byte
      /\ d.err = FALSE => Left(u.d) < Left(d)
  BY KeptTag
<1> HIDE DEF u
<1>3. u.d \in Decoders
  BY <1>2 DEF Kept
<1>4. Kept(u.d, x.d) /\ x.v \in Nat
  BY <1>2, <1>3, KeptLength
<1> HIDE DEF x
<1>5. t.d = x.d /\ t.tag = u.tag /\ t.meta = u.meta /\ t.v = x.v
  BY <1>1
<1> HIDE DEF t
<1>6. Kept(d, x.d)
  BY <1>2, <1>4, KeptThen
<1>7. Left(x.d) <= Left(u.d) /\ Left(x.d) \in Nat /\ Left(u.d) \in Nat /\ Left(d) \in Nat
  BY <1>3, <1>4, LeftKnown DEF Kept
<1>8. d.err = FALSE => Left(x.d) < Left(d)
  BY <1>2, <1>7
<1> QED
  BY <1>2, <1>4, <1>5, <1>6, <1>8 DEF t

\* An unsigned number gives no byte back.
LEMMA KeptUnsigned ==
  ASSUME NEW d \in Decoders, NEW n \in Nat
  PROVE  Kept(d, DecodeUnsigned(d, n).d)
<1>1. CASE n < 1 \/ n > 4
  <2>1. DecodeUnsigned(d, n) = [d |-> d, v |-> Zeros(4)]
    BY <1>1 DEF DecodeUnsigned
  <2>2. DecodeUnsigned(d, n).d = d
    BY <2>1
  <2> QED
    BY <2>2, KeptSame
<1>2. CASE ~(n < 1 \/ n > 4)
  <2>1. DecodeUnsigned(d, n).d = Decode(d, n).d
    BY <1>2, SMT DEF DecodeUnsigned
  <2> QED
    BY <2>1, KeptDecode
<1> QED
  BY <1>1, <1>2

\* A signed number takes the bytes of an unsigned one.
LEMMA SignedLeaves ==
  ASSUME NEW d, NEW n \in Nat
  PROVE  DecodeSigned(d, n).d = DecodeUnsigned(d, n).d
<1> DEFINE y == DecodeUnsigned(d, n)
<1>1. \A v : [y EXCEPT !.v = v].d = y.d
  <2>1. y = [d |-> y.d, v |-> y.v]
    BY DEF DecodeUnsigned
  <2> HIDE DEF y
  <2> QED
    BY <2>1
<1> HIDE DEF y
<1> QED
  BY <1>1, SMT DEF DecodeSigned, y

\* A read of n bytes gives none back.
LEMMA KeptRead ==
  ASSUME NEW d \in Decoders, NEW n \in Nat, n > 0
  PROVE  Kept(d, Read(d, n).d)
<1> DEFINE e == [buf |-> Rest(d.buf, n), err |-> (d.buf = <<>> /\ n > 0)]
<1>1. Left(d) \in Nat /\ Len(d.buf) \in Nat /\ d.buf \in Bytes /\ d.err \in BOOLEAN
  BY LeftKnown
<1>2. Read(d, n).d = e
  BY DEF Read
<1>3. Rest(d.buf, n) \in Bytes /\ Len(Rest(d.buf, n)) = IF n <= Len(d.buf) THEN Len(d.buf) - n ELSE 0
  BY <1>1, RestBytes
<1>4. e \in Decoders /\ e.buf = Rest(d.buf, n) /\ e.err = (d.buf = <<>>)
  BY <1>3 DEF Decoders
<1> HIDE DEF e
<1>5. CASE d.buf = <<>>
  <2>1. Len(d.buf) = 0
    BY <1>5
  <2>2. Len(e.buf) = 0
    BY <1>3, <1>4, <2>1
  <2>3. e.err = TRUE /\ Left(e) = 0
    <3>1. e.err = TRUE
      BY <1>4, <1>5
    <3> QED
      BY <2>2, <3>1 DEF Left
  <2>4. e.buf = <<>>
    BY <1>4, <2>2, EmptySeq DEF Decoders, Bytes
  <2> QED
    BY <1>1, <1>2, <1>4, <2>3, <2>4 DEF Kept, Spent
<1>6. CASE d.buf # <<>>
  <2>1. Len(d.buf) # 0
    BY <1>1, <1>6, EmptySeq DEF Bytes
  <2>2. Len(e.buf) < Len(d.buf) /\ Len(e.buf) \in Nat
    BY <1>1, <1>3, <1>4, <2>1
  <2>3. e.err = FALSE /\ Left(e) = 8 * Len(e.buf) + 4
    <3>1. e.err = FALSE
      BY <1>4, <1>6
    <3> QED
      BY <3>1 DEF Left
  <2>4. Left(d) >= 8 * Len(d.buf)
    <3>1. CASE d.err
      BY <1>1, <3>1 DEF Left
    <3>2. CASE ~d.err
      BY <1>1, <3>2 DEF Left
    <3> QED
      BY <3>1, <3>2
  <2>5. Left(e) <= Left(d)
    BY <1>1, <2>2, <2>3, <2>4
  <2> QED
    BY <1>2, <1>4, <2>3, <2>5 DEF Kept, Spent
<1> QED
  BY <1>5, <1>6

\* Dates and times give no byte back.
LEMMA KeptDate ==
  ASSUME NEW d \in Decoders, NEW n \in Nat
  PROVE  Kept(d, DecodeDate(d, n).d) /\ Kept(d, DecodeTime(d, n).d)
<1>1. CASE n > 0
  <2>1. DecodeDate(d, n).d = Read(d, n).d
    BY <1>1, SMT DEF DecodeDate
  <2>2. DecodeTime(d, n).d = Read(d, n).d
    BY <1>1, SMT DEF DecodeTime
  <2> QED
    BY <1>1, <2>1, <2>2, KeptRead
<1>2. CASE ~(n > 0)
  <2>1. n <= 0
    BY <1>2
  <2>2. DecodeDate(d, n).d = d
    BY <2>1, SMT DEF DecodeDate
  <2>3. DecodeTime(d, n).d = d
    BY <2>1, SMT DEF DecodeTime
  <2> QED
    BY <2>2, <2>3, KeptSame
<1> QED
  BY <1>1, <1>2

\* A string gives no byte back.
LEMMA KeptString ==
  ASSUME NEW d \in Decoders, NEW n \in Nat
  PROVE  Kept(d, DecodeString(d, n).d)
<1> DEFINE k == Decode(d, 1)
           t == Decode(k.d, n)
           s == DecodeString(d, n)
<1>1. Kept(d, k.d)
  BY KeptDecode
<1>2. s.d = k.d \/ s.d = t.d
  <2> DEFINE w == CASE t.d.err -> <<>>
                    [] ~t.d.err /\ k.v[1] = 4 -> Ucs2(t.v)
                    [] OTHER -> t.v
  <2>1. CASE k.d.err
    BY <2>1 DEF DecodeString
  <2>2. CASE ~k.d.err /\ k.v[1] \notin {0, 4}
    BY <2>2 DEF DecodeString
  <2>3. CASE ~k.d.err /\ ~(k.v[1] \notin {0, 4})
    <3>1. s = [d |-> t.d, err |-> t.d.err, v |-> w]
      BY <2>3 DEF DecodeString
    <3> HIDE DEF s, t, w
    <3> QED
      BY <3>1
  <2> QED
    BY <2>1, <2>2, <2>3
<1> HIDE DEF k, s
<1>3. Kept(k.d, t.d)
  BY <1>1, KeptDecode DEF Kept
<1> HIDE DEF t
<1>4. Kept(d, s.d)
  BY <1>1, <1>2, <1>3, KeptThen
<1> QED
  BY <1>4 DEF s

\* A value of any tag gives no byte back.
LEMMA KeptOfTag ==
  ASSUME NEW d \in Decoders, NEW tag, NEW n \in Nat
  PROVE  Kept(d, AppDataOfTag(d, tag, n).d)
<1> DEFINE z == AppDataOfTag(d, tag, n)
<1>1. n > 0 => n - 1 \in Nat
  OBVIOUS
<1>2. \/ z.d = d \/ z.d = DecodeUnsigned(d, n).d \/ z.d = DecodeSigned(d, n).d
      \/ z.d = Decode(d, 4).d \/ z.d = Decode(d, 8).d \/ z.d = Decode(d, n).d
      \/ n > 0 /\ z.d = DecodeString(d, n - 1).d
      \/ z.d = DecodeBitString(d, n).d \/ z.d = DecodeDate(d, n).d \/ z.d = DecodeTime(d, n).d
      \/ z.d = DecodeObjectId(d).d
  BY SMTT(60) DEF AppDataOfTag
<1>3. DecodeBitString(d, n).d = d \/ DecodeBitString(d, n).d = Decode(d, n).d
  BY SMT DEF DecodeBitString
<1>4. DecodeObjectId(d).d = Decode(d, 4).d
  BY DEF DecodeObjectId
<1>5. DecodeSigned(d, n).d = DecodeUnsigned(d, n).d
  BY SignedLeaves
<1>6. Kept(d, d) /\ Kept(d, DecodeUnsigned(d, n).d) /\ Kept(d, Decode(d, 4).d)
      /\ Kept(d, Decode(d, 8).d) /\ Kept(d, Decode(d, n).d)
  BY KeptSame, KeptUnsigned, KeptDecode
<1>7. Kept(d, DecodeDate(d, n).d) /\ Kept(d, DecodeTime(d, n).d)
  BY KeptDate
<1>8. n > 0 => Kept(d, DecodeString(d, n - 1).d)
  BY <1>1, KeptString
<1> HIDE DEF z
<1>9. Kept(d, z.d)
  BY <1>2, <1>3, <1>4, <1>5, <1>6, <1>7, <1>8
<1> QED
  BY <1>9 DEF z

\* A value with its tag gives no byte back.
LEMMA KeptValue ==
  ASSUME NEW d \in Decoders
  PROVE  Kept(d, DecodeAppData(d).d)
<1> DEFINE t == TagNumberAndValue(d)
<1>1. DecodeAppData(d) = AppDataOfTag(t.d, t.tag, t.v)
  BY DEF DecodeAppData
<1>2. Kept(d, t.d) /\ t.v \in Nat
  BY KeptTagAndValue
<1> HIDE DEF t
<1>3. Kept(t.d, AppDataOfTag(t.d, t.tag, t.v).d)
  BY <1>2, KeptOfTag DEF Kept
<1> QED
  BY <1>1, <1>2, <1>3, KeptThen

\* One round of the loop over the values of a ReadProperty, and where it begins.
ListStep(s) ==
  IF s.err \/ Len(s.d.buf) <= 1 THEN s
  ELSE [d |-> DecodeAppData(s.d).d, list |-> Append(s.list, DecodeAppData(s.d).x),
        err |-> DecodeAppData(s.d).err]
ListStart(d) == [d |-> d, list |-> <<>>, err |-> FALSE]

\* A set of numbers has a least one.
LEMMA Least == \A S : S \subseteq Nat /\ S # {} => \E n \in S : \A k \in S : n <= k
<1> SUFFICES ASSUME NEW S, S \subseteq Nat, S # {}
             PROVE  \E n \in S : \A k \in S : n <= k
  OBVIOUS
<1> DEFINE less == OpToRel(<, Nat)
<1>1. IsWellFoundedOn(less, Nat)
  BY NatLessThanWellFounded
<1>2. \A x, y \in Nat : y < x => <<y, x>> \in less
  BY DEF OpToRel
<1> HIDE DEF less
<1>3. PICK n \in S : \A k \in S : <<k, n>> \notin less
  BY <1>1, WFMin
<1>4. ASSUME NEW k \in S
      PROVE  n <= k
  <2>1. n \in Nat /\ k \in Nat /\ ~(k < n)
    BY <1>2, <1>3
  <2> QED
    BY <2>1
<1> QED
  BY <1>4

\* The loop of which the first round is the last gives what this round does.
LEMMA OneRound ==
  ASSUME NEW d, Len(d.buf) \in Nat,
         ListStep(ListStep(ListStart(d))) = ListStep(ListStart(d))
  PROVE  ValueList(d) = ListStep(ListStart(d))
<1> DEFINE N == Len(d.buf)
           s0 == ListStart(d)
           s1 == ListStep(s0)
           g == [n \in 0 .. N |-> IF n = 0 THEN s0 ELSE s1]
           f == CHOOSE h : h = [n \in 0 .. N |-> IF n = 0 THEN s0 ELSE ListStep(h[n - 1])]
<1>1. ValueList(d) = f[N]
  BY DEF ValueList, ListStep, ListStart
<1>2. N = 0 => s0 = s1
  <2> SUFFICES ASSUME N = 0 PROVE s0 = s1
    OBVIOUS
  <2>1. s0.d = d /\ s0.err = FALSE
    BY DEF ListStart
  <2>2. Len(s0.d.buf) <= 1
    BY <2>1
  <2> HIDE DEF s0
  <2> QED
    BY <2>2 DEF ListStep
<1>3. N \in Nat /\ ListStep(s1) = s1
  OBVIOUS
<1> HIDE DEF s0, N
<1>4. g = [n \in 0 .. N |-> IF n = 0 THEN s0 ELSE ListStep(g[n - 1])]
  <2>1. ASSUME NEW n \in 0 .. N, n # 0
        PROVE  ListStep(g[n - 1]) = s1
    <3>1. n - 1 \in 0 .. N
      BY <1>3, <2>1
    <3>2. g[n - 1] = IF n - 1 = 0 THEN s0 ELSE s1
      BY <3>1
    <3> QED
      BY <1>3, <3>2
  <2> QED
    BY <2>1
<1>5. f = [n \in 0 .. N |-> IF n = 0 THEN s0 ELSE ListStep(f[n - 1])]
  <2> HIDE DEF g
  <2> QED
    BY <1>4
<1> HIDE DEF f, g
<1>6. \A n \in 0 .. N : f[n] = IF n = 0 THEN s0 ELSE ListStep(f[n - 1])
  BY <1>5
<1>7. \A n \in 1 .. N : f[n] = s1
  <2> DEFINE bad == {n \in 1 .. N : f[n] # s1}
  <2> SUFFICES ASSUME bad # {} PROVE FALSE
    OBVIOUS
  <2>1. bad \subseteq Nat
    OBVIOUS
  <2>4. PICK n \in bad : \A k \in bad : n <= k
    <3> HIDE DEF bad
    <3> QED
      BY <2>1, Least
  <2>5. \A k \in bad : ~(k < n)
    BY <2>1, <2>4
  <2>6. n \in 1 .. N /\ f[n] # s1 /\ n \in 0 .. N /\ n # 0
    BY <1>3, <2>4
  <2>7. CASE n = 1
    <3>1. f[1] = ListStep(f[0]) /\ f[0] = s0
      BY <1>3, <1>6, <2>6, <2>7
    <3> QED
      BY <2>6, <2>7, <3>1
  <2>8. CASE n # 1
    <3>1. n - 1 \in 1 .. N /\ n - 1 < n
      BY <1>3, <2>6, <2>8
    <3>2. f[n - 1] = s1
      BY <2>5, <3>1
    <3> QED
      BY <1>3, <1>6, <2>6, <3>2
  <2> QED
    BY <2>7, <2>8
<1>8. f[N] = s1
  <2>1. CASE N = 0
    BY <1>2, <1>3, <1>6, <2>1
  <2>2. CASE N # 0
    BY <1>3, <1>7, <2>2
  <2> QED
    BY <2>1, <2>2
<1> QED
  BY <1>1, <1>8 DEF s0

\* A value has at least the byte of its tag.
LEMMA ValueBytes == \A x \in AppValues : AppData(x, FALSE) \in Bytes /\ AppData(x, FALSE) # <<>>
<1> SUFFICES ASSUME NEW x \in AppValues
             PROVE  AppData(x, FALSE) \in Bytes /\ AppData(x, FALSE) # <<>>
  OBVIOUS
<1> DEFINE id == TagOf(x)
           n == SizeOf(x)
           b == DataOf(x)
           low == TagLow(FALSE, n)
           a == AppData(x, FALSE)
<1>0. <<>> \in Bytes
  BY DEF Bytes
<1>1. /\ id \in 0 .. 12 /\ n \in Nat /\ n < LongLength /\ b \in Bytes
      /\ a = Tag(id, FALSE, n) \o b
  BY <1>0, ValueParts DEF Parts
<1>2. id \in Byte
  BY <1>1, TagNumbers
<1> HIDE DEF a, id, n, b, low
<1>3. Tag(id, FALSE, n) \in Bytes /\ low \in 0 .. 15
  BY <1>0, <1>1, <1>2, TagRead DEF low
<1>4. TagByte(low, id) \in Bytes /\ Len(TagByte(low, id)) \in 1 .. 2
  BY <1>2, <1>3, TagByteBytes
<1>5. Extended(n) \in Bytes
  <2>1. low % 8 = IF n <= 4 THEN n ELSE 5
    BY <1>1 DEF TagLow, low
  <2> QED
    BY <1>0, <1>1, <1>2, <1>3, <2>1, ExtendedRead
<1>6. a = (TagByte(low, id) \o Extended(n)) \o b
  BY <1>1 DEF low, Tag
<1> DEFINE u == TagByte(low, id)
           v == Extended(n)
<1>7. u \in Bytes /\ v \in Bytes /\ b \in Bytes /\ Len(u) \in 1 .. 2
  BY <1>1, <1>4, <1>5
<1>8. a = (u \o v) \o b
  BY <1>6
<1> HIDE DEF u, v
<1>9. Len(u \o v) = Len(u) + Len(v) /\ u \o v \in Bytes
  BY <1>7, JoinAt
<1>10. Len(a) = Len(u \o v) + Len(b) /\ a \in Bytes
  BY <1>7, <1>8, <1>9, JoinAt
<1>11. Len(v) \in Nat /\ Len(b) \in Nat
  BY <1>7, LenBytes
<1>12. Len(a) >= 1
  BY <1>7, <1>9, <1>10, <1>11
<1>13. a # <<>>
  <2> SUFFICES ASSUME a = <<>> PROVE FALSE
    OBVIOUS
  <2>1. Len(<<>>) = 0
    OBVIOUS
  <2> QED
    BY <1>12, <2>1
<1> QED
  BY <1>10, <1>13 DEF a

\* The values of an answer: the one it was sent with, if what was cut off left
\* it whole; none, if only its tag is there; or an error.
LEMMA AnswerList ==
  ASSUME NEW x \in AppValues, NEW q \in Bytes, NEW tail \in Bytes,
         q \o tail = AppData(x, FALSE) \o << 79 >>
  PROVE  LET l == ValueList(Good(q))
         IN  /\ \/ l.d.err = TRUE
                \/ l.list = <<>>
                \/ l.list = <<Received(x)>>
             /\ tail = <<>> => l.d.err = FALSE /\ l.err = FALSE /\ l.list = <<Received(x)>>
<1> DEFINE a == AppData(x, FALSE)
           d == Good(q)
           y == DecodeAppData(d)
           s0 == ListStart(d)
           s1 == [d |-> y.d, list |-> <<y.x>>, err |-> y.err]
           l == ValueList(d)
<1>0. a \in Bytes /\ <<79>> \in Bytes /\ <<>> \in Bytes /\ Len(<<79>>) = 1
  <2>1. 79 \in Byte
    BY DEF Byte
  <2>2. <<>> \in Bytes /\ <<79>> \in Bytes /\ Len(<<79>>) = 1
    BY <2>1 DEF Bytes
  <2>3. a \in Bytes
    BY ValueBytes
  <2> QED
    BY <2>2, <2>3
<1>1. d.buf = q /\ d.err = FALSE /\ Len(q) \in Nat
  BY NoError, LenBytes
<1>2. s0.d = d /\ s0.list = <<>> /\ s0.err = FALSE
  BY DEF ListStart
<1> HIDE DEF s0, d
<1>3. CASE Len(q) <= 1
  <2>1. ListStep(s0) = s0
    BY <1>1, <1>2, <1>3 DEF ListStep
  <2>2. l = s0
    BY <1>1, <2>1, OneRound DEF s0
  <2>3. tail # <<>>
    <3> SUFFICES ASSUME tail = <<>> PROVE FALSE
      OBVIOUS
    <3>1. q = a \o <<79>>
      BY ConcatEmptySeq DEF Bytes
    <3>2. Len(a \o <<79>>) = Len(a) + 1
      <4> HIDE DEF a
      <4> QED
        BY <1>0, JoinAt
    <3>3. Len(a) >= 1
      <4>1. a # <<>>
        BY ValueBytes
      <4> HIDE DEF a
      <4>2. Len(a) \in Nat /\ Len(a) # 0
        BY <1>0, <4>1, EmptySeq DEF Bytes
      <4> QED
        BY <4>2
    <3>4. Len(a) \in Nat
      BY <1>0, LenBytes
    <3> HIDE DEF a
    <3> QED
      BY <1>3, <3>1, <3>2, <3>3, <3>4
  <2> HIDE DEF l
  <2> QED
    BY <1>2, <2>2, <2>3 DEF l, d
<1>4. CASE ~(Len(q) <= 1)
  <2>1. ListStep(s0) = s1
    <3>1. ListStep(s0) = [d |-> DecodeAppData(s0.d).d, list |-> Append(s0.list, DecodeAppData(s0.d).x),
                          err |-> DecodeAppData(s0.d).err]
      BY <1>1, <1>2, <1>4 DEF ListStep
    <3>2. Append(<<>>, y.x) = <<y.x>>
      OBVIOUS
    <3> HIDE DEF y
    <3> QED
      BY <1>2, <3>1, <3>2 DEF y
  <2>2. s1.d = y.d /\ s1.list = <<y.x>> /\ s1.err = y.err
    OBVIOUS
  <2> HIDE DEF s1, y
  <2>3. ASSUME Len(y.d.buf) <= 1
        PROVE  l = s1
    <3>1. ListStep(s1) = s1
      BY <2>2, <2>3 DEF ListStep
    <3> QED
      BY <1>1, <2>1, <3>1, OneRound DEF s0
  <2>4. CutWithin(q, a) \/ CutBehind(q, tail, a, <<79>>)
    <3> HIDE DEF a
    <3>1. q \o tail = a \o <<79>>
      BY DEF a
    <3> QED
      BY <1>0, <3>1, CutJoin
  <2>5. CASE CutWithin(q, a)
    <3>1. PICK t \in Bytes : t # <<>> /\ q \o t = a
      BY <2>5 DEF CutWithin
    <3>2. y.d.err = TRUE
      BY <3>1, CutValue DEF y, d
    <3>3. d \in Decoders /\ Spent(d)
      BY <1>1 DEF d, Good, Decoders, Spent
    <3>4. y.d.buf = <<>>
      BY <3>2, <3>3, KeptValue DEF Kept, Spent, y
    <3>5. l = s1
      BY <2>3, <3>4
    <3>6. tail # <<>>
      <4> SUFFICES ASSUME tail = <<>> PROVE FALSE
        OBVIOUS
      <4>1. q = a \o <<79>>
        BY ConcatEmptySeq DEF Bytes
      <4> HIDE DEF a
      <4>2. Len(a \o <<79>>) = Len(a) + 1 /\ Len(q \o t) = Len(q) + Len(t)
        BY <1>0, <3>1, JoinAt
      <4>3. Len(a) \in Nat /\ Len(t) \in Nat
        BY <1>0, LenBytes
      <4> QED
        BY <3>1, <4>1, <4>2, <4>3
    <3> HIDE DEF l
    <3> QED
      BY <2>2, <3>2, <3>5, <3>6 DEF l, d
  <2>6. CASE CutBehind(q, tail, a, <<79>>)
    <3>1. PICK p \in Bytes : q = a \o p /\ p \o tail = <<79>>
      BY <2>6 DEF CutBehind
    <3>2. y = [d |-> Good(p), x |-> Received(x), err |-> FALSE]
      BY <3>1, ValueRead DEF y, d
    <3>3. y.d = Good(p) /\ y.x = Received(x) /\ y.err = FALSE /\ y.d.buf = p /\ y.d.err = FALSE
      BY <3>2, NoError
    <3>4. Len(p) <= 1
      <4>1. Len(p \o tail) = Len(p) + Len(tail) /\ Len(p) \in Nat /\ Len(tail) \in Nat
        BY <3>1, JoinAt, LenBytes
      <4>2. Len(p) + Len(tail) = 1
        BY <1>0, <3>1, <4>1
      <4> QED
        BY <4>1, <4>2
    <3>5. l = s1
      BY <2>3, <3>3, <3>4
    <3> HIDE DEF l
    <3> QED
      BY <2>2, <3>3, <3>5 DEF l, d
  <2> HIDE DEF l
  <2> QED
    BY <2>4, <2>5, <2>6 DEF d
<1> QED
  BY <1>3, <1>4 DEF d

\* What is read of the head of an acknowledgement.
LEMMA AckForm ==
  ASSUME NEW d
  PROVE  LET h == ReadHead(d)
             x == DecodeAPDU(d)
         IN  PduType(h.meta) = ComplexAck =>
               /\ x.err = h.second.d.err /\ x.d = h.second.d /\ x.type = ComplexAck
               /\ x.service = h.second.v[1]
<1> DEFINE h == ReadHead(d)
           x == DecodeAPDU(d)
<1> SUFFICES ASSUME PduType(h.meta) = ComplexAck
             PROVE  /\ x.err = h.second.d.err /\ x.d = h.second.d /\ x.type = ComplexAck
                    /\ x.service = h.second.v[1]
  OBVIOUS
<1> USE DEF ConfirmedServiceRequest, ComplexAck, UnconfirmedServiceRequest, SimpleAck,
            Reject, Abort, ErrorPDU
<1>1. x = [d |-> h.second.d, type |-> PduType(h.meta), segmented |-> Bit(h.meta, 8),
           id |-> h.first.v[1], service |-> h.second.v[1], sizes |-> h.first.v[1],
           class |-> 0, code |-> Zeros(4),
           fromServer |-> PduType(h.meta) = Abort /\ Bit(h.meta, 1),
           raw |-> <<>>, err |-> h.second.d.err]
  BY SMT DEF DecodeAPDU, AfterHead
<1> HIDE DEF x, h
<1>2. x.type = PduType(h.meta)
  BY <1>1
<1> QED
  BY <1>1, <1>2

\* The head of a reply.
LEMMA AckBytes ==
  \A service \in Byte, id \in Byte : Ack(service, id) = <<48>> \o <<id, service>>
<1> SUFFICES ASSUME NEW service \in Byte, NEW id \in Byte
             PROVE  Ack(service, id) = <<48>> \o <<id, service>>
  OBVIOUS
<1> DEFINE a == [type |-> ComplexAck, segmented |-> FALSE, moreFollows |-> FALSE,
                 segmentedAccepted |-> FALSE, id |-> id, service |-> service]
           n == a.type + Flag(a.segmented, 8) + Flag(a.moreFollows, 4) + Flag(a.segmentedAccepted, 2)
<1>1. /\ a.type = ComplexAck /\ a.segmented = FALSE /\ a.moreFollows = FALSE
      /\ a.segmentedAccepted = FALSE /\ a.id = id /\ a.service = service
  OBVIOUS
<1>2. Ack(service, id) = APDU(a)
  BY DEF Ack
<1> HIDE DEF a
<1>3. n = 48
  <2>1. /\ Flag(a.segmented, 8) = 0 /\ Flag(a.moreFollows, 4) = 0
        /\ Flag(a.segmentedAccepted, 2) = 0
    BY <1>1 DEF Flag
  <2>2. a.type = 48
    BY <1>1 DEF ComplexAck
  <2> QED
    BY <2>1, <2>2
<1>4. APDU(a) = <<n>> \o <<a.id, a.service>>
  BY <1>1, SMT DEF APDU, ComplexAck, UnconfirmedServiceRequest, ConfirmedServiceRequest
<1> HIDE DEF n
<1> QED
  BY <1>1, <1>2, <1>3, <1>4

\* The head of an acknowledgement with its service data behind it.
LEMMA AckHead ==
  ASSUME NEW service \in Byte, NEW id \in Byte, NEW s \in Bytes
  PROVE  /\ Ack(service, id) \in Bytes
         /\ LET h == ReadHead(Good(Ack(service, id) \o s))
            IN  h.meta = 48 /\ h.second.d = Good(s) /\ h.second.v[1] = service
<1> DEFINE a == Ack(service, id)
           d == Good(a \o s)
           h == ReadHead(d)
           x1 == Decode(d, 1)
           x2 == Decode(x1.d, 1)
           x3 == Decode(x2.d, 1)
           u == <<service>> \o s
           v == <<id, service>>
           t == v \o s
           m == <<48>>
<1>0. 48 \in Byte
  BY DEF Byte
<1>1. /\ v \in Bytes /\ <<service>> \in Bytes /\ u \in Bytes
      /\ Decode(Good(t), 1) = [d |-> Good(u), v |-> <<id>>]
  BY ReadTwo
<1>2. m \in Bytes
  BY <1>0 DEF Bytes
<1>3. t \in Bytes
  <2> HIDE DEF v
  <2> QED
    BY <1>1, AppendIn
<1>4. a \in Bytes /\ a \o s = m \o t
  <2>1. a = m \o v
    BY AckBytes
  <2> HIDE DEF v, m, a
  <2>2. (m \o v) \o s = m \o (v \o s) /\ m \o v \in Bytes
    BY <1>1, <1>2, Append3, AppendIn
  <2> QED
    BY <2>1, <2>2
<1>5. h.meta = x1.v[1] /\ h.second = x3
  BY HeadForm
<1>6. d = Good(<<48>> \o t)
  BY <1>4
<1> HIDE DEF d, h, u, t
<1>7. x1 = [d |-> Good(t), v |-> <<48>>]
  BY <1>0, <1>3, <1>6, ReadByte
<1> HIDE DEF x1
<1>8. x1.d = Good(t) /\ x1.v[1] = 48
  BY <1>7
<1>9. x2 = [d |-> Good(u), v |-> <<id>>]
  BY <1>1, <1>8
<1> HIDE DEF x2
<1>10. x2.d = Good(<<service>> \o s)
  BY <1>9 DEF u
<1>11. x3 = [d |-> Good(s), v |-> <<service>>]
  BY <1>10, ReadByte
<1> HIDE DEF x3
<1>12. x3.d = Good(s) /\ x3.v[1] = service
  BY <1>11
<1> QED
  BY <1>4, <1>5, <1>8, <1>12 DEF h, d

\* The service data of an acknowledgement is what follows its head.
LEMMA AckBody ==
  ASSUME NEW service \in Byte, NEW id \in Byte, NEW s \in Bytes
  PROVE  BodyOf(DecodeAPDU(NewDecoder(Ack(service, id) \o s)), service) = Good(s)
<1> DEFINE d == Good(Ack(service, id) \o s)
           h == ReadHead(d)
           x == DecodeAPDU(d)
<1>1. h.meta = 48 /\ h.second.d = Good(s) /\ h.second.v[1] = service
  BY AckHead
<1>2. PduType(h.meta) = ComplexAck
  <2> HIDE DEF h
  <2> QED
    BY <1>1, PduTypes
<1>3. x.err = h.second.d.err /\ x.d = h.second.d /\ x.type = ComplexAck /\ x.service = h.second.v[1]
  <2> HIDE DEF d
  <2> QED
    BY <1>2, AckForm
<1> HIDE DEF h, x
<1>4. x.err = FALSE /\ x.d = Good(s) /\ x.type = ComplexAck /\ x.service = service
  BY <1>1, <1>3, NoError
<1>5. BodyOf(x, service) = Good(s)
  BY <1>4 DEF BodyOf
<1> QED
  BY <1>5, NoError DEF x, d

\* Of an acknowledgement that was cut: nothing, or what is left of the data.
Remains(b, tail, s) ==
  \/ b = [buf |-> <<>>, err |-> TRUE]
  \/ \E q \in Bytes : b = Good(q) /\ q \o tail = s

\* Of a reply that was cut the body, if any, is what remains behind the head.
LEMMA CutAck ==
  \A service \in Byte, id \in Byte : \A w, tail, s \in Bytes :
     w \o tail = Ack(service, id) \o s =>
       Remains(BodyOf(DecodeAPDU(NewDecoder(w)), service), tail, s)
<1> SUFFICES ASSUME NEW service \in Byte, NEW id \in Byte, NEW w \in Bytes, NEW tail \in Bytes,
                    NEW s \in Bytes, w \o tail = Ack(service, id) \o s
             PROVE  Remains(BodyOf(DecodeAPDU(NewDecoder(w)), service), tail, s)
  OBVIOUS
<1> DEFINE a == Ack(service, id)
           x == DecodeAPDU(NewDecoder(w))
           b == BodyOf(x, service)
<1>1. a \in Bytes /\ <<>> \in Bytes
  <2>1. <<>> \in Bytes
    BY DEF Bytes
  <2> QED
    BY <2>1, AckHead
<1>2. CutWithin(w, a) \/ CutBehind(w, tail, a, s)
  <2>1. w \o tail = a \o s
    OBVIOUS
  <2> HIDE DEF a
  <2> QED
    BY <1>1, <2>1, CutJoin
<1>3. CASE CutWithin(w, a)
  <2>1. PICK t \in Bytes : t # <<>> /\ w \o t = a
    BY <1>3 DEF CutWithin
  <2> DEFINE d == Good(w)
             e == Good(w \o t)
             h == ReadHead(d)
             g == ReadHead(e)
  <2>2. g.meta = 48 /\ g.second.d = Good(<<>>)
    <3>1. a \o <<>> = a
      <4> HIDE DEF a
      <4> QED
        BY <1>1, ConcatEmptySeq DEF Bytes
    <3> DEFINE k == ReadHead(Good(a \o <<>>))
    <3>2. k.meta = 48 /\ k.second.d = Good(<<>>)
      <4>1. \A s2 \in Bytes : /\ ReadHead(Good(a \o s2)).meta = 48
                             /\ ReadHead(Good(a \o s2)).second.d = Good(s2)
        BY AckHead
      <4> HIDE DEF a
      <4> QED
        BY <1>1, <4>1
    <3>3. k = g
      <4> HIDE DEF a
      <4> QED
        BY <2>1, <3>1
    <3> HIDE DEF a, k, g
    <3> QED
      BY <3>2, <3>3
  <2>3. Follows(d, e, t) /\ d.err # TRUE
    BY FollowsGood, NoError
  <2>4. /\ Follows(h.second.d, g.second.d, t)
        /\ Follows(h.service.d, g.service.d, t)
        /\ h.meta = g.meta \/ (h.meta = 0 /\ h.service.d.err = TRUE)
    <3> HIDE DEF d, e
    <3> QED
      BY <2>3, CutHead
  <2>5. x = DecodeAPDU(d)
    BY NoError
  <2> HIDE DEF h, g, d
  <2>6. h.second.d.err = TRUE
    BY <2>1, <2>2, <2>4, NeverEnd
  <2>7. x.err = TRUE
    <3>1. CASE h.meta = g.meta
      <4>1. PduType(h.meta) = ComplexAck
        BY <2>2, <3>1, PduTypes
      <4>2. DecodeAPDU(d).err = h.second.d.err
        BY <4>1, AckForm DEF h
      <4> HIDE DEF x
      <4> QED
        BY <2>5, <2>6, <4>2
    <3>2. CASE h.meta = 0 /\ h.service.d.err = TRUE
      <4>1. PduType(h.meta) = ConfirmedServiceRequest
        BY <3>2, PduTypes
      <4>2. DecodeAPDU(d).err = Remainder(h.service.d).d.err
        BY <4>1, RequestForm DEF h
      <4>3. Remainder(h.service.d).d.err = TRUE
        BY <3>2, StuckRest
      <4> HIDE DEF x
      <4> QED
        BY <2>5, <4>2, <4>3
    <3> QED
      BY <2>4, <3>1, <3>2
  <2> HIDE DEF x
  <2>8. b = [buf |-> <<>>, err |-> TRUE]
    BY <2>7, NoBody
  <2> HIDE DEF b
  <2> QED
    BY <2>8 DEF Remains, b, x
<1>4. CASE CutBehind(w, tail, a, s)
  <2>1. PICK q \in Bytes : w = a \o q /\ q \o tail = s
    BY <1>4 DEF CutBehind
  <2>2. b = Good(q)
    BY <2>1, AckBody
  <2> HIDE DEF b
  <2> QED
    BY <2>1, <2>2 DEF Remains, b, x
<1> HIDE DEF a, b
<1> QED
  BY <1>2, <1>3, <1>4

\* What is read of a property and its values.
LEMMA AnswerForm ==
  ASSUME NEW d, Len(d.buf) \in Nat
  PROVE  LET object == TagNumber(d)
             id == DecodeObjectId(object.d)
             t1 == TagNumber(id.d)
             prop == UnsignedOf(ValueOf(t1))
             next == TagNumber(prop.d)
             z == IndexAndValues(next)
             x == DecodeReadProperty(d)
         IN  /\ x.type = id.type /\ x.instance = id.instance /\ x.prop = prop.v
             /\ Len(d.buf) < 7 \/ t1.tag # 1 => x.err = TRUE
             /\ prop.d.buf = <<>> /\ prop.d.err = TRUE => x.err = TRUE
             /\ next.d.buf = <<>> /\ next.d.err = TRUE /\ next.tag = 0 /\ prop.d.buf # <<>>
                => x.err = TRUE
             /\ /\ Len(d.buf) >= 7
                /\ object.tag = 0 /\ IsContextSpecific(object.meta) /\ t1.tag = 1
                => /\ prop.d.buf = <<>> =>
                        x.list = <<>> /\ x.index = ArrayAll /\ x.err = prop.d.err
                   /\ prop.d.buf # <<>> /\ next.tag \in {2, 3} =>
                        x.list = z.list /\ x.index = z.index /\ x.err = z.err
<1> DEFINE object == TagNumber(d)
           id == DecodeObjectId(object.d)
           t1 == TagNumber(id.d)
           prop == UnsignedOf(ValueOf(t1))
           next == TagNumber(prop.d)
           z == IndexAndValues(next)
           x == DecodeReadProperty(d)
           last == [t1 EXCEPT !.d = prop.d]
           At(y) == [d |-> y.d, type |-> id.type, instance |-> id.instance, prop |-> prop.v,
                     index |-> y.index, list |-> y.list, err |-> y.err]
           No(e, err) == [d |-> e, index |-> ArrayAll, list |-> <<>>, err |-> err]
           Refused == \/ Len(d.buf) < 7 \/ object.tag # 0 \/ ~IsContextSpecific(object.meta)
                      \/ t1.tag # 1
           then == IF prop.d.buf = <<>> THEN last ELSE next
           zz == IndexAndValues(then)
<1>1. x = IF Refused THEN At(No(d, TRUE))
          ELSE IF then.d.buf = <<>> /\ then.tag < 2 THEN At(No(then.d, then.d.err))
          ELSE At(zz)
  BY DEF DecodeReadProperty
<1>2. last.d = prop.d /\ last.tag = t1.tag
  <2>1. t1 = [d |-> t1.d, tag |-> t1.tag, meta |-> t1.meta]
    BY DEF TagNumber
  <2> HIDE DEF t1, prop
  <2> QED
    BY <2>1
<1>3. \A y : /\ At(y).type = id.type /\ At(y).instance = id.instance /\ At(y).prop = prop.v
             /\ At(y).index = y.index /\ At(y).list = y.list /\ At(y).err = y.err
  <2> HIDE DEF id, prop
  <2> QED
    OBVIOUS
<1>4. \A e, err : No(e, err).index = ArrayAll /\ No(e, err).list = <<>> /\ No(e, err).err = err
  OBVIOUS
<1>5. (prop.d.buf = <<>> => then = last) /\ (prop.d.buf # <<>> => then = next)
  OBVIOUS
<1>6. then = next => zz = z
  <2> HIDE DEF then, next
  <2> QED
    OBVIOUS
<1> HIDE DEF object, id, t1, prop, next, z, x, last, At, No, then, zz
<1>7. x.type = id.type /\ x.instance = id.instance /\ x.prop = prop.v
  BY <1>1, <1>3
<1>8. ASSUME Refused PROVE x.err = TRUE
  <2>1. x = At(No(d, TRUE))
    BY <1>1, <1>8
  <2>2. No(d, TRUE).err = TRUE
    BY <1>4
  <2> QED
    BY <1>3, <2>1, <2>2
<1>9. ASSUME prop.d.buf = <<>>, ~Refused
      PROVE  x.list = <<>> /\ x.index = ArrayAll /\ x.err = prop.d.err
  <2>1. then.d.buf = <<>> /\ then.tag < 2 /\ then.d = prop.d
    BY <1>2, <1>5, <1>9
  <2>2. x = At(No(then.d, then.d.err))
    BY <1>1, <1>9, <2>1
  <2> QED
    BY <1>3, <1>4, <2>1, <2>2
<1>10. ASSUME prop.d.buf # <<>>, next.tag \in {2, 3}, ~Refused
       PROVE  x.list = z.list /\ x.index = z.index /\ x.err = z.err
  <2>1. ~(then.tag < 2) /\ then = next
    BY <1>5, <1>10
  <2>2. x = At(zz) /\ zz = z
    BY <1>1, <1>6, <1>10, <2>1
  <2> QED
    BY <1>3, <2>2
<1>11. ASSUME prop.d.buf = <<>>, prop.d.err = TRUE PROVE x.err = TRUE
  BY <1>8, <1>9, <1>11
<1>12. ASSUME next.d.buf = <<>>, next.d.err = TRUE, next.tag = 0, prop.d.buf # <<>>
       PROVE  x.err = TRUE
  <2>1. CASE ~Refused
    <3>1. then.d.buf = <<>> /\ then.tag < 2 /\ then.d = next.d
      BY <1>5, <1>12
    <3>2. x = At(No(then.d, then.d.err))
      BY <1>1, <2>1, <3>1
    <3> QED
      BY <1>3, <1>4, <1>12, <3>1, <3>2
  <2> QED
    BY <1>8, <2>1
<1>13. Len(d.buf) >= 7 => ~(Len(d.buf) < 7)
  OBVIOUS
<1> QED
  BY <1>7, <1>8, <1>9, <1>10, <1>11, <1>12, <1>13 DEF object, id, t1, prop, next, z, x

\* What is read of an index, and of the values behind it.
LEMMA ValuesForm ==
  ASSUME NEW next
  PROVE  LET index == UnsignedOf(ValueOf(next))
             open == TagNumber(index.d)
             z == IndexAndValues(next)
             l == ValueList(ValueOf(next).d)
             k == ValueList(open.d)
         IN  /\ next.tag = 3 =>
                  z.index = ArrayAll /\ z.list = l.list /\ z.err = (l.err \/ l.d.err)
             /\ next.tag = 2 =>
                  /\ z.index = index.v
                  /\ index.d.buf = <<>> => z.list = <<>> /\ z.err = index.d.err
                  /\ index.d.buf # <<>> /\ open.tag = 3 =>
                       z.list = k.list /\ z.err = (k.err \/ k.d.err)
<1> DEFINE index == UnsignedOf(ValueOf(next))
           open == TagNumber(index.d)
           z == IndexAndValues(next)
           l == ValueList(ValueOf(next).d)
           k == ValueList(open.d)
<1>1. ASSUME next.tag = 3
      PROVE  z.index = ArrayAll /\ z.list = l.list /\ z.err = (l.err \/ l.d.err)
  <2>1. z = [d |-> l.d, index |-> ArrayAll, list |-> l.list, err |-> l.err \/ l.d.err]
    BY <1>1 DEF IndexAndValues
  <2> HIDE DEF z, l
  <2> QED
    BY <2>1
<1>2. ASSUME next.tag = 2, index.d.buf = <<>>
      PROVE  z.index = index.v /\ z.list = <<>> /\ z.err = index.d.err
  <2>1. z = [d |-> index.d, index |-> index.v, list |-> <<>>, err |-> index.d.err]
    BY <1>2 DEF IndexAndValues
  <2> HIDE DEF z, index
  <2> QED
    BY <2>1
<1>3. ASSUME next.tag = 2, index.d.buf # <<>>, open.tag = 3
      PROVE  z.index = index.v /\ z.list = k.list /\ z.err = (k.err \/ k.d.err)
  <2>1. z = [d |-> k.d, index |-> index.v, list |-> k.list, err |-> k.err \/ k.d.err]
    BY <1>3 DEF IndexAndValues
  <2> HIDE DEF z, index, k
  <2> QED
    BY <2>1
<1>4. ASSUME next.tag = 2 PROVE z.index = index.v
  BY <1>4 DEF IndexAndValues
<1> HIDE DEF index, open, z, l, k
<1> QED
  BY <1>1, <1>2, <1>3, <1>4 DEF index, open, z, l, k

\* The tags around the value of an answer.
LEMMA Brackets ==
  /\ 62 \in Byte /\ 79 \in Byte /\ <<62>> \in Bytes /\ <<79>> \in Bytes
  /\ OpeningTag(3) = <<62>> /\ ClosingTag(4) = <<79>>
  /\ \A u \in Bytes :
       /\ TagNumber(Good(<<62>> \o u)).tag = 3
       /\ TagNumber(Good(<<62>> \o u)).d = Good(u)
       /\ ValueOf(TagNumber(Good(<<62>> \o u))).d = Good(u)
<1>1. 62 \in Byte /\ 79 \in Byte /\ 3 \in Byte
  BY DEF Byte
<1>2. <<62>> \in Bytes /\ <<79>> \in Bytes
  BY <1>1 DEF Bytes
<1>3. OpeningTag(3) = <<62>> /\ ClosingTag(4) = <<79>>
  BY DEF OpeningTag, ClosingTag, TagByte
<1>4. ASSUME NEW u \in Bytes
      PROVE  /\ TagNumber(Good(<<62>> \o u)).tag = 3
             /\ TagNumber(Good(<<62>> \o u)).d = Good(u)
             /\ ValueOf(TagNumber(Good(<<62>> \o u))).d = Good(u)
  <2> DEFINE t == TagNumber(Good(<<62>> \o u))
  <2>1. TagByte(14, 3) = <<62>> /\ Meta(14, 3) = 62 /\ 14 \in 0 .. 15
    BY DEF TagByte, Meta
  <2>2. TagNumber(Good(TagByte(14, 3) \o u)) = [d |-> Good(u), tag |-> 3, meta |-> Meta(14, 3)]
    BY <1>1, <2>1, ReadTagNumber
  <2>3. t = [d |-> Good(u), tag |-> 3, meta |-> 62]
    BY <2>1, <2>2
  <2> HIDE DEF t
  <2>4. t.d = Good(u) /\ t.tag = 3 /\ t.meta = 62
    BY <2>3
  <2>5. TagValue(Good(u), 62) = [d |-> Good(u), v |-> 0]
    BY SMT DEF TagValue
  <2>6. ValueOf(t).d = Good(u)
    BY <2>4, <2>5 DEF ValueOf
  <2> QED
    BY <2>4, <2>6 DEF t
<1> QED
  BY <1>1, <1>2, <1>3, <1>4

\* The index of a property in an answer, if there is one.
IndexBytes(x) == IF x.index = ArrayAll THEN <<>> ELSE ContextUnsigned(2, x.index)
PropBytes(x) == ContextUnsigned(1, ToWord(x.prop))
IdBytes(x) == ContextObjectId(0, x.type, x.instance)

\* The numbers that are written of a property.
LEMMA ReadNumbers ==
  ASSUME NEW x \in AppReads, ValidProperty(x)
  PROVE  /\ x.type \in Nat /\ x.type <= MaxObject
         /\ x.instance \in Nat /\ x.instance <= MaxInstance
         /\ ToWord(x.prop) \in Word /\ Natural(ToWord(x.prop)) = x.prop
         /\ x.index \in Word /\ x.data \in AppValues
         /\ 0 \in Byte /\ 1 \in Byte /\ 2 \in Byte /\ <<>> \in Bytes
         /\ IdBytes(x) \in Bytes /\ PropBytes(x) \in Bytes /\ IndexBytes(x) \in Bytes
<1>1. x.type \in Nat /\ x.instance \in 0 .. MaxInstance /\ x.prop \in Nat /\ x.index \in Word
      /\ x.data \in AppValues
  BY DEF AppReads
<1>2. x.type <= MaxObject /\ x.prop <= MaxPropertyID
  BY DEF ValidProperty
<1>3. MaxInstance \in Nat
  BY SMT DEF MaxInstance
<1>4. x.instance \in Nat /\ x.instance <= MaxInstance
  BY <1>1, <1>3
<1>5. ToWord(x.prop) \in Word /\ Natural(ToWord(x.prop)) = x.prop
  BY <1>1, <1>2, PropertyWord
<1>6. 0 \in Byte /\ 1 \in Byte /\ 2 \in Byte /\ <<>> \in Bytes
  BY EmptySeq DEF Byte, Bytes
<1>7. IdBytes(x) \in Bytes
  BY <1>1, <1>2, <1>4, <1>6, ContextIdRead DEF IdBytes
<1>8. PropBytes(x) \in Bytes
  BY <1>5, <1>6, ContextRead DEF PropBytes
<1>9. IndexBytes(x) \in Bytes
  <2>1. ContextUnsigned(2, x.index) \in Bytes
    BY <1>1, <1>6, ContextRead
  <2> QED
    BY <1>6, <2>1 DEF IndexBytes
<1> QED
  BY <1>1, <1>2, <1>4, <1>5, <1>6, <1>7, <1>8, <1>9

\* An answer is its head, the property, and the value between its tags.
AnswerData(x) == <<62>> \o (AppData(x.data, FALSE) \o <<79>>)

\* The bytes of the answer to ReadProperty.
LEMMA AnswerBytes ==
  ASSUME NEW x \in AppReads, ValidProperty(x)
  PROVE  /\ AnswerData(x) \in Bytes
         /\ ReadPropertyAck(1, x) =
              Ack(ServiceReadProperty, 1) \o
                (IdBytes(x) \o (PropBytes(x) \o (IndexBytes(x) \o AnswerData(x))))
<1> DEFINE a == Ack(ServiceReadProperty, 1)
           o == IdBytes(x)
           p == PropBytes(x)
           i == IndexBytes(x)
           m == <<62>>
           v == AppData(x.data, FALSE)
           c == <<79>>
<1>1. a \in Bytes
  <2>1. ServiceReadProperty \in Byte /\ 1 \in Byte /\ <<>> \in Bytes
    BY ReadNumbers DEF ServiceReadProperty, Byte
  <2> QED
    BY <2>1, AckHead
<1>2. o \in Bytes /\ p \in Bytes /\ i \in Bytes /\ x.data \in AppValues
  BY ReadNumbers
<1>3. m \in Bytes /\ c \in Bytes
  BY Brackets
<1>4. v \in Bytes
  BY <1>2, ValueBytes
<1>5. ReadPropertyAck(1, x) = (((a \o ((o \o p) \o i)) \o m) \o v) \o c
  BY Brackets DEF ReadPropertyAck, ReadPropertyHeader, IdBytes, PropBytes, IndexBytes
<1>6. AnswerData(x) = m \o (v \o c)
  BY DEF AnswerData
<1> HIDE DEF a, o, p, i, m, v, c
<1>7. v \o c \in Bytes
  BY <1>3, <1>4, AppendIn
<1>8. m \o (v \o c) \in Bytes
  BY <1>3, <1>7, AppendIn
<1>9. (((a \o ((o \o p) \o i)) \o m) \o v) \o c = (a \o ((o \o p) \o i)) \o (m \o (v \o c))
  <2> DEFINE h == a \o ((o \o p) \o i)
  <2>1. h \in Bytes
    BY <1>1, <1>2, AppendIn
  <2> HIDE DEF h
  <2>2. h \o m \in Bytes
    BY <1>3, <2>1, AppendIn
  <2>3. ((h \o m) \o v) \o c = (h \o m) \o (v \o c)
    BY <1>3, <1>4, <2>2, Append3
  <2>4. (h \o m) \o (v \o c) = h \o (m \o (v \o c))
    BY <1>3, <1>7, <2>1, Append3
  <2> QED
    BY <2>3, <2>4 DEF h
<1> DEFINE s == m \o (v \o c)
<1>10. s \in Bytes
  BY <1>8
<1>11. AnswerData(x) = s /\ ReadPropertyAck(1, x) = (a \o ((o \o p) \o i)) \o s
  BY <1>5, <1>6, <1>9
<1> HIDE DEF s
<1>12. (a \o ((o \o p) \o i)) \o s = a \o (((o \o p) \o i) \o s)
  <2>1. (o \o p) \o i \in Bytes
    BY <1>2, AppendIn
  <2> QED
    BY <1>1, <1>10, <2>1, Append3
<1>13. ((o \o p) \o i) \o s = o \o (p \o (i \o s))
  <2>1. o \o p \in Bytes /\ i \o s \in Bytes
    BY <1>2, <1>10, AppendIn
  <2>2. ((o \o p) \o i) \o s = (o \o p) \o (i \o s)
    BY <1>2, <1>10, <2>1, Append3
  <2>3. (o \o p) \o (i \o s) = o \o (p \o (i \o s))
    BY <1>2, <2>1, Append3
  <2> QED
    BY <2>2, <2>3
<1> QED
  BY <1>10, <1>11, <1>12, <1>13 DEF a, o, p, i

\* What is read behind the identifier and the number of a property.
LEMMA BehindProperty ==
  ASSUME NEW x \in AppReads, ValidProperty(x), NEW q \in Bytes
  PROVE  LET d == Good(IdBytes(x) \o (PropBytes(x) \o q))
             next == TagNumber(Good(q))
             z == IndexAndValues(next)
             y == DecodeReadProperty(d)
         IN  /\ y.type = x.type /\ y.instance = x.instance /\ y.prop = ToWord(x.prop)
             /\ q = <<>> => y.list = <<>> /\ y.index = ArrayAll /\ y.err = FALSE
             /\ q # <<>> /\ next.tag \in {2, 3} =>
                   y.list = z.list /\ y.index = z.index /\ y.err = z.err
             /\ q # <<>> /\ next.d.buf = <<>> /\ next.d.err = TRUE /\ next.tag = 0 => y.err = TRUE
<1> DEFINE w == ToWord(x.prop)
           o == IdBytes(x)
           p == PropBytes(x)
           d == Good(o \o (p \o q))
           object == TagNumber(d)
           id == DecodeObjectId(object.d)
           t1 == TagNumber(id.d)
           prop == UnsignedOf(ValueOf(t1))
           next == TagNumber(prop.d)
           z == IndexAndValues(next)
           y == DecodeReadProperty(d)
<1>1. /\ x.type \in Nat /\ x.type <= MaxObject /\ x.instance \in Nat /\ x.instance <= MaxInstance
      /\ w \in Word /\ 0 \in Byte /\ 1 \in Byte
  BY ReadNumbers
<1>2. /\ p \in Bytes /\ Len(p) >= 2 /\ p \o q \in Bytes
      /\ TagNumber(Good(p \o q)).tag = 1
      /\ UnsignedOf(ValueOf(TagNumber(Good(p \o q)))) = [d |-> Good(q), v |-> w]
  <2> HIDE DEF w
  <2> QED
    BY <1>1, ContextRead DEF PropBytes, w
<1>3. /\ o \in Bytes /\ Len(o) >= 5 /\ o \o (p \o q) \in Bytes
      /\ object.tag = 0 /\ IsContextSpecific(object.meta)
      /\ id = [d |-> Good(p \o q), type |-> x.type, instance |-> x.instance]
  <2> DEFINE s == p \o q
  <2> HIDE DEF s
  <2>1. s \in Bytes
    BY <1>2 DEF s
  <2>2. /\ o \in Bytes /\ Len(o) >= 5 /\ o \o s \in Bytes
        /\ TagNumber(Good(o \o s)).tag = 0 /\ IsContextSpecific(TagNumber(Good(o \o s)).meta)
        /\ DecodeObjectId(TagNumber(Good(o \o s)).d) =
              [d |-> Good(s), type |-> x.type, instance |-> x.instance]
    BY <1>1, <2>1, ContextIdRead DEF IdBytes
  <2> QED
    BY <2>2 DEF s
<1>4. d.buf = o \o (p \o q) /\ Len(d.buf) >= 7 /\ Len(d.buf) \in Nat
  <2>1. d.buf = o \o (p \o q)
    BY NoError
  <2> DEFINE s == p \o q
             u == o \o s
             lo == Len(o)
             lp == Len(p)
             lq == Len(q)
  <2>2. Len(s) = lp + lq /\ lp \in Nat /\ lq \in Nat /\ lp >= 2
    <3> HIDE DEF p
    <3> QED
      BY <1>2, JoinAt, LenBytes
  <2>3. Len(u) = lo + Len(s) /\ lo \in Nat /\ lo >= 5
    <3> HIDE DEF o, s
    <3> QED
      BY <1>2, <1>3, JoinAt, LenBytes DEF s
  <2> HIDE DEF s, lo, lp, lq
  <2>4. Len(u) >= 7 /\ Len(u) \in Nat
    BY <2>2, <2>3
  <2> QED
    BY <2>1, <2>4 DEF s
<1> HIDE DEF object
<1>5. id.d = Good(p \o q) /\ id.type = x.type /\ id.instance = x.instance
  <2> HIDE DEF id, p
  <2> QED
    BY <1>3
<1> HIDE DEF id
<1>6. t1.tag = 1 /\ prop = [d |-> Good(q), v |-> w]
  <2> HIDE DEF p, w
  <2>1. t1 = TagNumber(Good(p \o q))
    BY <1>5
  <2> HIDE DEF t1
  <2> QED
    BY <1>2, <2>1
<1> HIDE DEF t1
<1>7. prop.d = Good(q) /\ prop.v = w /\ prop.d.buf = q /\ prop.d.err = FALSE
  <2> HIDE DEF prop, w
  <2>1. prop.d = Good(q) /\ prop.v = w
    BY <1>6
  <2> QED
    BY <2>1, NoError
<1> HIDE DEF prop
<1>8. next = TagNumber(Good(q))
  BY <1>7
<1> HIDE DEF next, z, y
<1>9. /\ y.type = id.type /\ y.instance = id.instance /\ y.prop = prop.v
      /\ next.d.buf = <<>> /\ next.d.err = TRUE /\ next.tag = 0 /\ prop.d.buf # <<>> => y.err = TRUE
      /\ prop.d.buf = <<>> => y.list = <<>> /\ y.index = ArrayAll /\ y.err = prop.d.err
      /\ prop.d.buf # <<>> /\ next.tag \in {2, 3} =>
            y.list = z.list /\ y.index = z.index /\ y.err = z.err
  <2> HIDE DEF d
  <2> QED
    BY <1>3, <1>4, <1>6, AnswerForm DEF prop, t1, id, object, next, z, y
<1> HIDE DEF w, o, p, d
<1>10. /\ y.type = x.type /\ y.instance = x.instance /\ y.prop = w
       /\ q = <<>> => y.list = <<>> /\ y.index = ArrayAll /\ y.err = FALSE
       /\ q # <<>> /\ next.tag \in {2, 3} =>
             y.list = z.list /\ y.index = z.index /\ y.err = z.err
       /\ q # <<>> /\ next.d.buf = <<>> /\ next.d.err = TRUE /\ next.tag = 0 => y.err = TRUE
  BY <1>5, <1>7, <1>9
<1>11. z = IndexAndValues(TagNumber(Good(q)))
  BY <1>8 DEF z
<1> QED
  BY <1>8, <1>10, <1>11 DEF w, o, p, d, y

\* What is read behind the index.
LEMMA BehindIndex ==
  ASSUME NEW x \in AppReads, ValidProperty(x), NEW q \in Bytes, NEW u \in Bytes,
         q = <<>> \/ q = << 62 >> \o u
  PROVE  LET y == DecodeReadProperty(Good(IdBytes(x) \o (PropBytes(x) \o (IndexBytes(x) \o q))))
             l == ValueList(Good(u))
         IN  /\ y.type = x.type /\ y.instance = x.instance /\ y.prop = ToWord(x.prop)
             /\ y.index = x.index
             /\ q = <<>> => y.list = <<>> /\ y.err = FALSE
             /\ q # <<>> => y.list = l.list /\ y.err = (l.err \/ l.d.err)
<1> DEFINE i == IndexBytes(x)
           g == i \o q
           next == TagNumber(Good(g))
           z == IndexAndValues(next)
           y == DecodeReadProperty(Good(IdBytes(x) \o (PropBytes(x) \o g)))
           l == ValueList(Good(u))
<1>1. i \in Bytes /\ x.index \in Word /\ 2 \in Byte
  BY ReadNumbers
<1>2. g \in Bytes
  <2> HIDE DEF i
  <2> QED
    BY <1>1, AppendIn
<1>3. /\ y.type = x.type /\ y.instance = x.instance /\ y.prop = ToWord(x.prop)
      /\ g = <<>> => y.list = <<>> /\ y.index = ArrayAll /\ y.err = FALSE
      /\ g # <<>> /\ next.tag \in {2, 3} =>
            y.list = z.list /\ y.index = z.index /\ y.err = z.err
  <2> HIDE DEF g
  <2> QED
    BY <1>2, BehindProperty
<1>4. q # <<>> =>
        TagNumber(Good(q)).tag = 3 /\ ValueOf(TagNumber(Good(q))).d = Good(u)
  BY Brackets
<1> HIDE DEF y
<1>5. CASE x.index = ArrayAll
  <2>1. i = <<>>
    BY <1>5 DEF IndexBytes
  <2>2. g = q
    BY <2>1, ConcatEmptySeq DEF Bytes
  <2>3. CASE q = <<>>
    BY <1>3, <1>5, <2>2, <2>3 DEF y
  <2>4. CASE q # <<>>
    <3>1. next.tag = 3 /\ ValueOf(next).d = Good(u)
      BY <1>4, <2>2, <2>4
    <3> HIDE DEF next, g
    <3>2. z.index = ArrayAll /\ z.list = l.list /\ z.err = (l.err \/ l.d.err)
      BY <3>1, ValuesForm
    <3>3. g # <<>> /\ next.tag \in {2, 3}
      BY <2>2, <2>4, <3>1
    <3> HIDE DEF z, l
    <3>4. y.list = z.list /\ y.index = z.index /\ y.err = z.err
      BY <1>3, <3>3 DEF next, z
    <3> QED
      BY <1>3, <1>5, <2>4, <3>2, <3>4 DEF y, l, g
  <2> QED
    BY <2>3, <2>4
<1>6. CASE x.index # ArrayAll
  <2> DEFINE index == UnsignedOf(ValueOf(next))
             open == TagNumber(index.d)
             k == ValueList(open.d)
  <2>1. i = ContextUnsigned(2, x.index)
    BY <1>6 DEF IndexBytes
  <2>2. /\ Len(i) >= 2 /\ next.tag = 2
        /\ index = [d |-> Good(q), v |-> x.index]
    <3> HIDE DEF i
    <3> QED
      BY <1>1, <2>1, ContextRead
  <2>3. g # <<>>
    <3> HIDE DEF i
    <3>1. Len(g) = Len(i) + Len(q) /\ Len(i) \in Nat /\ Len(q) \in Nat
      BY <1>1, JoinAt, LenBytes
    <3>2. Len(g) # 0
      BY <2>2, <3>1
    <3>3. Len(<<>>) = 0
      OBVIOUS
    <3> HIDE DEF g
    <3> QED
      BY <3>2, <3>3
  <2> HIDE DEF next
  <2>4. index.d = Good(q) /\ index.v = x.index /\ index.d.buf = q /\ index.d.err = FALSE
    <3> HIDE DEF index
    <3> QED
      BY <2>2, NoError
  <2>5. /\ z.index = index.v
        /\ index.d.buf = <<>> => z.list = <<>> /\ z.err = index.d.err
        /\ index.d.buf # <<>> /\ open.tag = 3 =>
             z.list = k.list /\ z.err = (k.err \/ k.d.err)
    BY <2>2, ValuesForm
  <2>6. y.list = z.list /\ y.index = z.index /\ y.err = z.err
    <3> HIDE DEF g, z
    <3> QED
      BY <1>3, <2>2, <2>3 DEF next, z
  <2> HIDE DEF index
  <2>7. q # <<>> => open.tag = 3
    BY <1>4, <2>4
  <2>8. q # <<>> => k = ValueList(TagNumber(Good(q)).d)
    BY <2>4
  <2>9. q # <<>> => TagNumber(Good(q)).d = Good(u)
    BY Brackets
  <2>10. q # <<>> => k = l
    BY <2>8, <2>9
  <2> HIDE DEF z, k, l, open, g
  <2> QED
    BY <1>3, <2>4, <2>5, <2>6, <2>7, <2>10 DEF y, l, g
<1> QED
  BY <1>5, <1>6

\* The answer to a ReadProperty is read back whole.
LEMMA AnswersOfPeers ==
  ASSUME NEW x \in AppReads, ValidProperty(x)
  PROVE  LET y == DecodeReadProperty(BodyOf(DecodeAPDU(NewDecoder(ReadPropertyAck(1, x))),
                                            ServiceReadProperty))
         IN  ReadAsSent(x, y) /\ y.list = <<Received(x.data)>>
<1> DEFINE u == AppData(x.data, FALSE) \o <<79>>
           q == AnswerData(x)
           s == IdBytes(x) \o (PropBytes(x) \o (IndexBytes(x) \o q))
           y == DecodeReadProperty(Good(s))
           l == ValueList(Good(u))
<1>1. x.data \in AppValues /\ Natural(ToWord(x.prop)) = x.prop
      /\ IdBytes(x) \in Bytes /\ PropBytes(x) \in Bytes /\ IndexBytes(x) \in Bytes
      /\ 1 \in Byte /\ <<>> \in Bytes
  BY ReadNumbers
<1>2. u \in Bytes
  BY <1>1, ValueBytes, Brackets, AppendIn
<1>3. q = <<62>> \o u /\ q # <<>> /\ q \in Bytes
  <2>1. q = <<62>> \o u
    BY DEF AnswerData
  <2>2. Len(q) = Len(<<62>>) + Len(u) /\ Len(u) \in Nat /\ Len(<<62>>) = 1
    <3> HIDE DEF u, q
    <3>1. <<62>> \in Bytes /\ Len(<<62>>) = 1
      BY Brackets
    <3> QED
      BY <1>2, <2>1, <3>1, JoinAt, LenBytes
  <2>3. q \in Bytes
    BY AnswerBytes
  <2> HIDE DEF q, u
  <2>4. Len(q) # 0 /\ Len(<<>>) = 0
    BY <2>2
  <2> QED
    BY <2>1, <2>3, <2>4
<1>4. l.d.err = FALSE /\ l.err = FALSE /\ l.list = <<Received(x.data)>>
  <2>1. u \o <<>> = AppData(x.data, FALSE) \o <<79>>
    BY <1>2, ConcatEmptySeq DEF Bytes
  <2> HIDE DEF u
  <2> QED
    BY <1>1, <1>2, <2>1, AnswerList
<1>5. /\ y.type = x.type /\ y.instance = x.instance /\ y.prop = ToWord(x.prop)
      /\ y.index = x.index /\ y.list = l.list /\ y.err = (l.err \/ l.d.err)
  <2> HIDE DEF q, u
  <2> QED
    BY <1>2, <1>3, BehindIndex
<1>6. s \in Bytes
  <2> HIDE DEF q
  <2> QED
    BY <1>1, <1>3, AppendIn
<1>7. BodyOf(DecodeAPDU(NewDecoder(ReadPropertyAck(1, x))), ServiceReadProperty) = Good(s)
  <2>1. ServiceReadProperty \in Byte
    BY DEF ServiceReadProperty, Byte
  <2>2. ReadPropertyAck(1, x) = Ack(ServiceReadProperty, 1) \o s
    BY AnswerBytes
  <2> HIDE DEF s
  <2> QED
    BY <1>1, <1>6, <2>1, <2>2, AckBody
<1> HIDE DEF y, l, s
<1>8. ReadAsSent(x, y) /\ y.list = <<Received(x.data)>>
  BY <1>1, <1>4, <1>5 DEF ReadAsSent
<1> QED
  BY <1>7, <1>8 DEF y

\* A decoder that has met an error stays where it is.
LEMMA StuckAt ==
  ASSUME NEW d, d.err = TRUE, NEW n
  PROVE  Decode(d, n).d = d /\ DecodeUnsigned(d, n).d = d
<1>1. ASSUME NEW k PROVE Decode(d, k).d = d
  <2> DEFINE x == Decode(d, k)
  <2>1. x = [d |-> d, v |-> Zeros(k)]
    BY StuckDecode
  <2> HIDE DEF x
  <2>2. x.d = d
    BY <2>1
  <2> QED
    BY <2>2 DEF x
<1>2. DecodeUnsigned(d, n).d = d \/ DecodeUnsigned(d, n).d = Decode(d, n).d
  BY SMT DEF DecodeUnsigned
<1> QED
  BY <1>1, <1>2

\* The length of a tag is read where the decoder is.
LEMMA StuckLength ==
  ASSUME NEW d, d.err = TRUE, NEW meta \in Byte
  PROVE  TagValue(d, meta).d = d
<1> DEFINE x == Decode(d, 1)
           y == Decode(x.d, IF x.v[1] = 255 THEN 4 ELSE 2)
           t == TagValue(d, meta)
<1>1. x.d = d
  BY StuckAt
<1>2. y.d = d
  <2> HIDE DEF x
  <2>1. \A n : Decode(x.d, n).d = x.d
    BY <1>1, StuckAt
  <2> QED
    BY <1>1, <2>1
<1>3. meta % 8 \in 0 .. 7
  BY SMT DEF Byte
<1>4. meta % 8 < 5 => t.d = d
  BY SMT DEF TagValue
<1>5. meta % 8 > 5 => t.d = d
  BY <1>3, SMT DEF TagValue
<1>6. meta % 8 = 5 => t.d = x.d \/ t.d = y.d
  BY SMT DEF TagValue
<1> HIDE DEF t, x, y
<1>7. t.d = d
  BY <1>1, <1>2, <1>3, <1>4, <1>5, <1>6, SMT
<1> QED
  BY <1>7 DEF t

\* Of the bytes of a number behind its tag that were cut nothing is read.
LEMMA CutContext ==
  ASSUME NEW num \in Byte, NEW w \in Word, NEW p \in Bytes, NEW t \in Bytes, t # <<>>,
         p \o t = ContextUnsigned(num, w)
  PROVE  LET y == UnsignedOf(ValueOf(TagNumber(Good(p))))
         IN  y.d.buf = <<>> /\ y.d.err = TRUE
<1> DEFINE d == Good(p)
           e == Good(p \o t)
           a == TagNumber(d)
           b == TagNumber(e)
           y == UnsignedOf(ValueOf(a))
           g == UnsignedOf(ValueOf(b))
           va == TagValue(a.d, a.meta)
           vb == TagValue(b.d, b.meta)
<1>1. g.d = Good(<<>>)
  <2> DEFINE c == ContextUnsigned(num, w)
  <2>1. <<>> \in Bytes
    BY DEF Bytes
  <2>2. c \in Bytes /\ UnsignedOf(ValueOf(TagNumber(Good(c \o <<>>)))) = [d |-> Good(<<>>), v |-> w]
    BY <2>1, ContextRead
  <2>3. c \o <<>> = c
    <3> HIDE DEF c
    <3> QED
      BY <2>2, ConcatEmptySeq DEF Bytes
  <2>4. g = [d |-> Good(<<>>), v |-> w]
    BY <2>2, <2>3
  <2> HIDE DEF g
  <2> QED
    BY <2>4
<1>2. Follows(d, e, t) /\ d \in Decoders /\ Spent(d) /\ d.err # TRUE
  BY FollowsGood, NoError DEF Good, Decoders, Spent
<1>3. ReadsTag(d, a, b, t)
  <2> HIDE DEF d, e
  <2> QED
    BY <1>2, CutTag
<1>4. Kept(d, a.d) /\ a.meta \in Byte
  <2> HIDE DEF d
  <2> QED
    BY <1>2, KeptTag
<1>5. ValueOf(a) = va /\ ValueOf(b) = vb
  BY DEF ValueOf
<1> HIDE DEF a, b, d, e
<1>6. Kept(a.d, va.d) /\ va.v \in Nat
  BY <1>4, KeptLength DEF Kept
<1>7. y = DecodeUnsigned(va.d, va.v) /\ g = DecodeUnsigned(vb.d, vb.v)
  BY <1>5 DEF UnsignedOf
<1>8. Kept(va.d, y.d)
  <2> HIDE DEF va, y
  <2> QED
    BY <1>6, <1>7, KeptUnsigned DEF Kept
<1>9. Kept(d, y.d)
  <2> HIDE DEF va, y
  <2>1. Kept(d, va.d)
    BY <1>2, <1>4, <1>6, KeptThen
  <2> QED
    BY <1>2, <1>8, <2>1, KeptThen
<1>10. y.d.err = TRUE => y.d.buf = <<>>
  <2> HIDE DEF y
  <2> QED
    BY <1>2, <1>9 DEF Kept, Spent
<1>11. ASSUME a.d.err = TRUE PROVE y.d.err = TRUE
  <2>1. va.d = a.d
    BY <1>4, <1>11, StuckLength
  <2> HIDE DEF va
  <2>2. \A n : DecodeUnsigned(va.d, n).d = va.d
    BY <1>11, <2>1, StuckAt
  <2> HIDE DEF y
  <2> QED
    BY <1>7, <1>11, <2>1, <2>2
<1>12. ASSUME a.d.err # TRUE PROVE y.d.err = TRUE
  <2>1. Follows(a.d, b.d, t) /\ a.meta = b.meta
    BY <1>3, <1>12 DEF ReadsTag
  <2>2. ReadAlike(a.d, va, TagValue(b.d, a.meta), t)
    BY <1>4, <2>1, CutLength
  <2> HIDE DEF va, vb, y, g
  <2>3. ReadAlike(a.d, va, vb, t)
    BY <2>1, <2>2 DEF vb
  <2>4. CASE va.d.err = TRUE
    <3>1. \A n : DecodeUnsigned(va.d, n).d = va.d
      BY <2>4, StuckAt
    <3> QED
      BY <1>7, <2>4, <3>1
  <2>5. CASE va.d.err # TRUE
    <3>1. Follows(va.d, vb.d, t) /\ va.v = vb.v
      BY <2>3, <2>5 DEF ReadAlike
    <3>2. Follows(y.d, g.d, t)
      BY <1>6, <1>7, <3>1, CutUnsigned
    <3> QED
      BY <1>1, <3>2, NeverEnd
  <2> QED
    BY <2>4, <2>5
<1> HIDE DEF y
<1>13. y.d.err = TRUE
  BY <1>11, <1>12
<1> QED
  BY <1>10, <1>13 DEF y, a, d

\* What a cut answer to a ReadProperty may be read as.
AnswerPart(x, y) ==
  \/ y.err = TRUE
  \/ /\ y.type = x.type /\ y.instance = x.instance
     /\ y.list = <<>> \/ y.list = <<Received(x.data)>>

\* An answer that is cut behind the index.
LEMMA CutInData ==
  \A x \in AppReads : \A q, tail \in Bytes :
     ValidProperty(x) /\ tail # <<>> /\ q \o tail = AnswerData(x)
     => AnswerPart(x, DecodeReadProperty(Good(IdBytes(x) \o (PropBytes(x) \o (IndexBytes(x) \o q)))))
<1> SUFFICES ASSUME NEW x \in AppReads, NEW q \in Bytes, NEW tail \in Bytes,
                    ValidProperty(x), tail # <<>>, q \o tail = AnswerData(x)
             PROVE  AnswerPart(x, DecodeReadProperty(Good(IdBytes(x) \o
                                    (PropBytes(x) \o (IndexBytes(x) \o q)))))
  OBVIOUS
<1> DEFINE v == AppData(x.data, FALSE) \o <<79>>
           y == DecodeReadProperty(Good(IdBytes(x) \o (PropBytes(x) \o (IndexBytes(x) \o q))))
<1>1. x.data \in AppValues /\ <<>> \in Bytes
  BY ReadNumbers
<1>2. v \in Bytes
  BY <1>1, ValueBytes, Brackets, AppendIn
<1>3. <<62>> \in Bytes /\ Len(<<62>>) = 1
  BY Brackets
<1>4. q \o tail = <<62>> \o v
  BY DEF AnswerData
<1> HIDE DEF v
<1>5. CutWithin(q, <<62>>) \/ CutBehind(q, tail, <<62>>, v)
  BY <1>2, <1>3, <1>4, CutJoin
<1> HIDE DEF y
<1>6. CASE CutWithin(q, <<62>>)
  <2>1. PICK t \in Bytes : t # <<>> /\ q \o t = <<62>>
    BY <1>6 DEF CutWithin
  <2>2. Len(q) + Len(t) = 1 /\ Len(q) \in Nat /\ Len(t) \in Nat
    BY <1>3, <2>1, JoinAt, LenBytes
  <2>3. Len(t) # 0
    BY <2>1, EmptySeq DEF Bytes
  <2>4. Len(q) = 0
    BY <2>2, <2>3
  <2>5. q = <<>>
    BY <2>4, EmptySeq DEF Bytes
  <2>6. y.type = x.type /\ y.instance = x.instance /\ y.list = <<>>
    BY <1>1, <2>5, BehindIndex DEF y
  <2> QED
    BY <2>6 DEF AnswerPart, y
<1>7. CASE CutBehind(q, tail, <<62>>, v)
  <2>1. PICK u \in Bytes : q = <<62>> \o u /\ u \o tail = v
    BY <1>7 DEF CutBehind
  <2> DEFINE l == ValueList(Good(u))
  <2>2. l.d.err = TRUE \/ l.list = <<>> \/ l.list = <<Received(x.data)>>
    BY <1>1, <2>1, AnswerList DEF v
  <2>3. q # <<>>
    <3>1. Len(q) = 1 + Len(u) /\ Len(u) \in Nat
      BY <1>3, <2>1, JoinAt, LenBytes
    <3>2. Len(q) # 0 /\ Len(<<>>) = 0
      BY <3>1
    <3> QED
      BY <3>2
  <2> HIDE DEF l
  <2>4. /\ y.type = x.type /\ y.instance = x.instance
        /\ y.list = l.list /\ y.err = (l.err \/ l.d.err)
    BY <2>1, <2>3, BehindIndex DEF y, l
  <2> QED
    BY <2>2, <2>4 DEF AnswerPart, y
<1> QED
  BY <1>5, <1>6, <1>7

\* The tag of a number is one byte with the number of the tag.
LEMMA ContextTag ==
  ASSUME NEW w \in Word
  PROVE  TagNumber(Good(ContextUnsigned(2, w))).meta < 240
<1>1. 2 \in Byte /\ TRUE \in BOOLEAN
  BY DEF Byte
<1>2. ValueLength(w) \in Nat /\ ValueLength(w) <= 4 /\ Unsigned(w) \in Bytes
  BY UnsignedBytes
<1>3. ValueLength(w) < LongLength
  BY <1>2, SMT DEF LongLength
<1> DEFINE n == ValueLength(w)
           t == TagNumber(Good(Tag(2, TRUE, n) \o Unsigned(w)))
<1>4. TagLow(TRUE, n) \in 0 .. 15
  BY <1>1, <1>2, <1>3, TagRead
<1>5. t = [d |-> Good(Extended(n) \o Unsigned(w)), tag |-> 2, meta |-> Meta(TagLow(TRUE, n), 2)]
  BY <1>1, <1>2, <1>3, TagRead
<1>6. ContextUnsigned(2, w) = Tag(2, TRUE, n) \o Unsigned(w)
  BY DEF ContextUnsigned
<1> HIDE DEF t
<1>7. t.meta = Meta(TagLow(TRUE, n), 2)
  BY <1>5
<1>8. Meta(TagLow(TRUE, n), 2) < 240
  <2> DEFINE low == TagLow(TRUE, n)
  <2>1. low \in 0 .. 15
    BY <1>4
  <2> HIDE DEF low
  <2>2. Meta(low, 2) < 240
    BY <2>1, SMT DEF Meta
  <2> QED
    BY <2>2 DEF low
<1>9. t.meta < 240
  BY <1>7, <1>8
<1>10. TagNumber(Good(ContextUnsigned(2, w))) = t
  BY <1>6 DEF t
<1> QED
  BY <1>9, <1>10

\* An answer that is cut in the index.
LEMMA CutInIndex ==
  \A x \in AppReads : \A q \in Bytes :
     ValidProperty(x) /\ CutWithin(q, IndexBytes(x))
     => AnswerPart(x, DecodeReadProperty(Good(IdBytes(x) \o (PropBytes(x) \o q))))
<1> SUFFICES ASSUME NEW x \in AppReads, NEW q \in Bytes, ValidProperty(x), CutWithin(q, IndexBytes(x))
             PROVE  AnswerPart(x, DecodeReadProperty(Good(IdBytes(x) \o (PropBytes(x) \o q))))
  OBVIOUS
<1> DEFINE y == DecodeReadProperty(Good(IdBytes(x) \o (PropBytes(x) \o q)))
           next == TagNumber(Good(q))
           z == IndexAndValues(next)
           index == UnsignedOf(ValueOf(next))
<1>1. PICK t \in Bytes : t # <<>> /\ q \o t = IndexBytes(x)
  BY DEF CutWithin
<1>2. x.index \in Word /\ 2 \in Byte /\ <<>> \in Bytes
  BY ReadNumbers
<1>3. /\ y.type = x.type /\ y.instance = x.instance
      /\ q = <<>> => y.list = <<>>
      /\ q # <<>> /\ next.tag \in {2, 3} => y.err = z.err
      /\ q # <<>> /\ next.d.buf = <<>> /\ next.d.err = TRUE /\ next.tag = 0 => y.err = TRUE
  BY BehindProperty
<1> HIDE DEF y
<1>4. CASE q = <<>>
  BY <1>3, <1>4 DEF AnswerPart, y
<1>5. CASE q # <<>>
  <2> DEFINE c == ContextUnsigned(2, x.index)
             e == Good(c)
             tag == TagNumber(e)
  <2>1. c \in Bytes /\ tag.tag = 2
    <3>1. c \o <<>> = c
      <4>1. c \in Bytes
        BY <1>2, ContextRead
      <4> HIDE DEF c
      <4> QED
        BY <4>1, ConcatEmptySeq DEF Bytes
    <3>2. c \in Bytes /\ TagNumber(Good(c \o <<>>)).tag = 2
      BY <1>2, ContextRead
    <3> HIDE DEF c
    <3> QED
      BY <3>1, <3>2
  <2>2. tag.meta < 240
    BY <1>2, ContextTag
  <2>3. IndexBytes(x) # <<>>
    <3>1. Len(q) + Len(t) = Len(IndexBytes(x)) /\ Len(q) \in Nat /\ Len(t) \in Nat
      BY <1>1, JoinAt, LenBytes
    <3>2. Len(t) # 0 /\ Len(<<>>) = 0
      BY <1>1, EmptySeq DEF Bytes
    <3>3. Len(IndexBytes(x)) # 0
      BY <3>1, <3>2
    <3> QED
      BY <3>2, <3>3
  <2>4. q \o t = c
    BY <1>1, <2>3 DEF IndexBytes
  <2>5. Follows(Good(q), e, t) /\ Good(q).err = FALSE
    BY <1>1, <2>4, FollowsGood, NoError
  <2>6. Good(q) \in Decoders /\ Spent(Good(q))
    BY DEF Good, Decoders, Spent
  <2> HIDE DEF c
  <2>7. ReadsTag(Good(q), next, tag, t)
    <3> HIDE DEF e
    <3> QED
      BY <2>5, CutTag
  <2>8. Kept(Good(q), next.d) /\ next.meta \in Byte
    BY <2>6, KeptTag
  <2>9. CASE next.d.err = TRUE
    <3>1. ~(tag.meta >= 240)
      <4>1. 2 \in 0 .. 15 /\ tag.meta < 240
        BY <2>2
      <4>2. tag.meta \in Byte
        <5>1. e \in Decoders
          BY <2>1 DEF Good, Decoders
        <5> HIDE DEF e
        <5> QED
          BY <5>1, KeptTag
      <4> HIDE DEF tag
      <4> QED
        BY <4>1, <4>2, SMT DEF Byte
    <3>2. next.tag = 0
      <4> HIDE DEF e
      <4>1. Follows(Good(q), e, t) /\ Good(q).err # TRUE
        BY <2>5
      <4> QED
        BY <2>9, <3>1, <4>1, LostTag
    <3> HIDE DEF next
    <3>3. next.d.buf = <<>>
      BY <2>6, <2>8, <2>9 DEF Kept, Spent
    <3> QED
      BY <1>3, <1>5, <2>9, <3>2, <3>3 DEF AnswerPart, y, next
  <2>10. CASE next.d.err # TRUE
    <3>1. next.tag = 2
      <4> HIDE DEF next, tag
      <4> QED
        BY <2>1, <2>7, <2>10 DEF ReadsTag
    <3>2. index.d.buf = <<>> /\ index.d.err = TRUE
      BY <1>1, <1>2, <2>4, CutContext DEF c
    <3> HIDE DEF index, next
    <3>3. index.d.buf = <<>> => z.err = index.d.err
      BY <3>1, ValuesForm DEF index
    <3> HIDE DEF z
    <3>4. y.err = TRUE
      BY <1>3, <1>5, <3>1, <3>2, <3>3 DEF z, next
    <3> QED
      BY <3>4 DEF AnswerPart, y
  <2> QED
    BY <2>9, <2>10
<1> QED
  BY <1>4, <1>5

\* An answer that is cut in the number of the property.
LEMMA CutInProperty ==
  \A x \in AppReads : \A q \in Bytes :
     ValidProperty(x) /\ CutWithin(q, PropBytes(x))
     => AnswerPart(x, DecodeReadProperty(Good(IdBytes(x) \o q)))
<1> SUFFICES ASSUME NEW x \in AppReads, NEW q \in Bytes, ValidProperty(x), CutWithin(q, PropBytes(x))
             PROVE  AnswerPart(x, DecodeReadProperty(Good(IdBytes(x) \o q)))
  OBVIOUS
<1> DEFINE d == Good(IdBytes(x) \o q)
           object == TagNumber(d)
           id == DecodeObjectId(object.d)
           prop == UnsignedOf(ValueOf(TagNumber(id.d)))
           y == DecodeReadProperty(d)
<1>1. PICK t \in Bytes : t # <<>> /\ q \o t = PropBytes(x)
  BY DEF CutWithin
<1>2. /\ x.type \in Nat /\ x.type <= MaxObject
      /\ x.instance \in Nat /\ x.instance <= MaxInstance
      /\ ToWord(x.prop) \in Word /\ 0 \in Byte /\ 1 \in Byte /\ IdBytes(x) \in Bytes
  BY ReadNumbers
<1>3. id = [d |-> Good(q), type |-> x.type, instance |-> x.instance]
  BY <1>2, ContextIdRead DEF IdBytes
<1>4. id.d = Good(q)
  <2> HIDE DEF id
  <2> QED
    BY <1>3
<1>5. prop.d.buf = <<>> /\ prop.d.err = TRUE
  <2>1. UnsignedOf(ValueOf(TagNumber(Good(q)))).d.buf = <<>>
        /\ UnsignedOf(ValueOf(TagNumber(Good(q)))).d.err = TRUE
    BY <1>1, <1>2, CutContext DEF PropBytes
  <2> HIDE DEF id
  <2> QED
    BY <1>4, <2>1
<1>6. Len(d.buf) \in Nat
  <2>1. d.buf = IdBytes(x) \o q
    BY NoError
  <2>2. d.buf \in Bytes
    BY <1>2, <2>1, AppendIn
  <2> QED
    BY <2>2, LenBytes
<1>7. y.err = TRUE
  <2> HIDE DEF d
  <2> QED
    BY <1>5, <1>6, AnswerForm
<1> QED
  BY <1>7 DEF AnswerPart

\* An answer to a ReadProperty that is cut is refused, or read as a part.
LEMMA CutAnswer ==
  \A x \in AppReads : \A w, tail \in Bytes :
     ValidProperty(x) /\ tail # <<>> /\ w \o tail = ReadPropertyAck(1, x)
     => AnswerPart(x, DecodeReadProperty(BodyOf(DecodeAPDU(NewDecoder(w)), ServiceReadProperty)))
<1> SUFFICES ASSUME NEW x \in AppReads, NEW w \in Bytes, NEW tail \in Bytes,
                    ValidProperty(x), tail # <<>>, w \o tail = ReadPropertyAck(1, x)
             PROVE  AnswerPart(x, DecodeReadProperty(BodyOf(DecodeAPDU(NewDecoder(w)),
                                                            ServiceReadProperty)))
  OBVIOUS
<1> DEFINE o == IdBytes(x)
           p == PropBytes(x)
           i == IndexBytes(x)
           v == AnswerData(x)
           s == o \o (p \o (i \o v))
           b == BodyOf(DecodeAPDU(NewDecoder(w)), ServiceReadProperty)
<1>1. o \in Bytes /\ p \in Bytes /\ i \in Bytes /\ 1 \in Byte /\ <<>> \in Bytes
      /\ ServiceReadProperty \in Byte
  BY ReadNumbers DEF ServiceReadProperty, Byte
<1>2. v \in Bytes /\ ReadPropertyAck(1, x) = Ack(ServiceReadProperty, 1) \o s
  BY AnswerBytes
<1>3. i \o v \in Bytes /\ p \o (i \o v) \in Bytes /\ s \in Bytes
  <2> HIDE DEF i, v, p, o
  <2>1. i \o v \in Bytes
    BY <1>1, <1>2, AppendIn
  <2>2. p \o (i \o v) \in Bytes
    BY <1>1, <2>1, AppendIn
  <2> QED
    BY <1>1, <2>1, <2>2, AppendIn
<1>4. Remains(b, tail, s)
  <2> HIDE DEF s
  <2> QED
    BY <1>1, <1>2, <1>3, CutAck
<1>5. Len(o) <= 6
  <2>1. x.type \in Nat /\ x.type <= MaxObject /\ x.instance \in Nat /\ x.instance <= MaxInstance
        /\ 0 \in Byte
    BY ReadNumbers
  <2> QED
    BY <1>1, <2>1, ContextIdRead DEF IdBytes
<1> HIDE DEF b, s
<1>6. CASE b = [buf |-> <<>>, err |-> TRUE]
  <2>1. b.buf = <<>>
    BY <1>6
  <2>2. Len(b.buf) \in Nat /\ Len(b.buf) < 7
    BY <2>1
  <2>3. DecodeReadProperty(b).err = TRUE
    BY <2>2, AnswerForm
  <2> QED
    BY <2>3 DEF AnswerPart, b
<1>7. ASSUME NEW q \in Bytes, b = Good(q), q \o tail = s
      PROVE  AnswerPart(x, DecodeReadProperty(b))
  <2>1. CutWithin(q, o) \/ CutBehind(q, tail, o, p \o (i \o v))
    <3> HIDE DEF o, p, i, v
    <3> QED
      BY <1>1, <1>3, <1>7, CutJoin DEF s
  <2>2. CASE CutWithin(q, o)
    <3> HIDE DEF o
    <3>1. PICK t \in Bytes : q \o t = o
      BY <2>2 DEF CutWithin
    <3>2. Len(q) + Len(t) = Len(o) /\ Len(q) \in Nat /\ Len(t) \in Nat
      BY <3>1, JoinAt, LenBytes
    <3>3. b.buf = q
      BY <1>7, NoError
    <3>4. Len(b.buf) \in Nat /\ Len(b.buf) < 7
      BY <1>5, <3>2, <3>3
    <3>5. DecodeReadProperty(b).err = TRUE
      BY <3>4, AnswerForm
    <3> QED
      BY <3>5 DEF AnswerPart
  <2>3. CASE CutBehind(q, tail, o, p \o (i \o v))
    <3>1. PICK q1 \in Bytes : q = o \o q1 /\ q1 \o tail = p \o (i \o v)
      BY <2>3 DEF CutBehind
    <3>2. CutWithin(q1, p) \/ CutBehind(q1, tail, p, i \o v)
      <4> HIDE DEF o, p, i, v
      <4> QED
        BY <1>1, <1>3, <3>1, CutJoin
    <3>3. CASE CutWithin(q1, p)
      BY <1>7, <3>1, <3>3, CutInProperty
    <3>4. CASE CutBehind(q1, tail, p, i \o v)
      <4>1. PICK q2 \in Bytes : q1 = p \o q2 /\ q2 \o tail = i \o v
        BY <3>4 DEF CutBehind
      <4>2. CutWithin(q2, i) \/ CutBehind(q2, tail, i, v)
        <5> HIDE DEF o, p, i, v
        <5> QED
          BY <1>1, <1>2, <4>1, CutJoin
      <4>3. CASE CutWithin(q2, i)
        BY <1>7, <3>1, <4>1, <4>3, CutInIndex
      <4>4. CASE CutBehind(q2, tail, i, v)
        <5>1. PICK q3 \in Bytes : q2 = i \o q3 /\ q3 \o tail = v
          BY <4>4 DEF CutBehind
        <5> QED
          BY <1>7, <3>1, <4>1, <5>1, CutInData
      <4> QED
        BY <4>2, <4>3, <4>4
    <3> QED
      BY <3>2, <3>3, <3>4
  <2> QED
    BY <2>1, <2>2, <2>3
<1>8. AnswerPart(x, DecodeReadProperty(b))
  BY <1>4, <1>6, <1>7 DEF Remains, b
<1> QED
  BY <1>8 DEF b

\* A head of a request and a frame are bytes.
LEMMA HeadBytes == \A a \in AppApdus : APDU(a) \in Bytes
<1> SUFFICES ASSUME NEW a \in AppApdus PROVE APDU(a) \in Bytes
  OBVIOUS
<1>1. /\ a.type = ConfirmedServiceRequest
      /\ a.segmented \in BOOLEAN /\ a.moreFollows \in BOOLEAN /\ a.segmentedAccepted \in BOOLEAN
      /\ a.id \in Byte /\ a.service \in Byte /\ a.sequence \in Byte /\ a.window \in Byte
      /\ a.maxSegs \in Nat /\ a.maxApdu \in 0 .. MaxAPDU
  BY DEF AppApdus
<1>2. MaxSegsMaxApdu(a.maxSegs, a.maxApdu) \in Byte
  BY <1>1, SizesRead
<1>3. a.segmented => a.sequence \in Byte /\ a.window \in Byte
  BY <1>1
<1>4. <<>> \in Bytes
  BY EmptySeq DEF Bytes
<1>5. /\ a.type = ConfirmedServiceRequest
      /\ a.segmented \in BOOLEAN /\ a.moreFollows \in BOOLEAN /\ a.segmentedAccepted \in BOOLEAN
      /\ a.id \in Byte /\ a.service \in Byte
  BY <1>1
<1> QED
  BY <1>2, <1>3, <1>4, <1>5, RequestRead, Zenon

\* A BVLC frame is bytes.
LEMMA FrameBytes ==
  \A b \in [function : Byte, length : Port, data : Seq(Byte)] : BVLC(b) \in Bytes
<1> SUFFICES ASSUME NEW b \in [function : Byte, length : Port, data : Seq(Byte)]
             PROVE  BVLC(b) \in Bytes
  OBVIOUS
<1> DEFINE h == <<129, b.function>>
           n == Uint16(b.length)
           v == b.data
<1>1. b.function \in Byte /\ 129 \in Byte /\ b.length \in Port /\ v \in Bytes
  BY DEF Byte, Bytes
<1>2. h \in Bytes
  BY <1>1, Pair
<1>3. n \in Bytes
  BY <1>1, ReadPort
<1>4. BVLC(b) = (h \o n) \o v
  BY DEF BVLC
<1> HIDE DEF h, n, v
<1> QED
  BY <1>1, <1>2, <1>3, <1>4, AppendIn

\* The bytes are those of the item, one that is encoded.
Carries(k, x, bytes) ==
  /\ k = "value" => x \in AppValues /\ bytes = AppData(x, FALSE)
  /\ k = "date" => x \in AppDates /\ bytes = Date(x)
  /\ k = "bvlc" => /\ x \in [function : Byte, length : Port, data : Seq(Byte)]
                   /\ bytes = BVLC(x)
  /\ k = "npdu" => AnswerFits(x) /\ bytes = NPDU(x.npdu) \o NetworkBytes(x.nets)
  /\ k = "apdu" => x \in AppApdus /\ bytes = APDU(x)
  /\ k = "read" => x \in AppReads /\ bytes = ReadProperty(1, x)
  /\ k = "whois" => x \in Nat \X Nat /\ bytes = WhoIs(x[1], x[2])
  /\ k = "iam" => x \in AppAnnouncements /\ bytes = IAm(x)
  /\ k = "readAck" => /\ x \in AppReads /\ ValidProperty(x)
                      /\ bytes = ReadPropertyAck(1, x)

\* The kinds of which a part that arrived is told from the whole, and the bytes
\* of such an item but for the last ones.
CutKinds == {"value", "npdu", "apdu", "iam", "bvlc", "readAck"}
CutOff(k, x, bytes) ==
  /\ bytes \in Bytes
  /\ \E tail \in Bytes : tail # <<>> /\ Carries(k, x, bytes \o tail)

\* What must be read of an item sent.
AsSent(k, sent, read) ==
  /\ k = "value" => ValueAsSent(sent, read)
  /\ k = "date" => DateAsSent(sent, read)
  /\ k = "bvlc" => FrameAsSent(sent, read)
  /\ k = "npdu" => HeaderAsSent(sent, read)
  /\ k = "apdu" => ApduAsSent(sent, read)
  /\ k = "read" => ReadAsSent(sent, read)
  /\ k = "whois" => WhoIsAsSent(sent, read)
  /\ k = "iam" => IAmAsSent(sent, read)
  /\ k = "readAck" => ReadAsSent(sent, read) /\ read.list = <<Received(sent.data)>>

\* What may be read of an item of which only these bytes arrived.
PartOf(k, sent, read, bytes) ==
  /\ k = "value" => read.err = TRUE \/ (read.d.err = TRUE /\ read.x.v = <<>>)
  /\ k = "npdu" =>
       \/ read.err = TRUE \/ sent.npdu.type = 128
       \/ Len(sent.nets) > 2 /\ read.nets = NetworksRead(sent.nets)
  /\ k \in {"apdu", "iam"} => read.err = TRUE
  /\ k = "bvlc" => read.err = TRUE \/ Len(bytes) >= 4
  /\ k = "readAck" => AnswerPart(sent, read)

\* The parts of the invariant.
WireKnown == cut = 0 /\ phase = "wire" => Carries(kind, item, wire)
ReadKnown ==
  cut = 0 /\ phase \in {"decoded", "failed", "matched"} => AsSent(kind, item, out)
ReplyOnly == phase = "reading" => kind \in ReplyKinds
CutKnown == cut \in Nat /\ (phase = "idle" => cut = 0)
WireCut == cut > 0 /\ phase = "wire" /\ kind \in CutKinds => CutOff(kind, item, wire)
ReadCut ==
  cut > 0 /\ phase \in {"decoded", "failed", "matched"} => PartOf(kind, item, out, wire)
PeerInv == WireKnown /\ ReadKnown /\ ReplyOnly /\ CutKnown /\ WireCut /\ ReadCut

\* What an item of these kinds is encoded to is bytes.
LEMMA CarriedBytes ==
  ASSUME NEW k \in CutKinds, NEW x, NEW bytes, Carries(k, x, bytes)
  PROVE  bytes \in Bytes
<1>0. <<>> \in Bytes /\ 1 \in Byte /\ ServiceIAm \in Byte /\ ServiceReadProperty \in Byte
  BY EmptySeq DEF Bytes, Byte, ServiceIAm, ServiceReadProperty
<1>1. CASE k = "value"
  BY <1>1, ValueBytes DEF Carries
<1>2. CASE k = "npdu"
  <2>1. x.npdu \in AppHeaders /\ x.nets \in Seq(Port)
        /\ bytes = NPDU(x.npdu) \o NetworkBytes(x.nets)
    BY <1>2 DEF Carries, AnswerFits
  <2>2. NPDU(x.npdu) \in Bytes /\ NetworkBytes(x.nets) \in Bytes
    BY <1>0, <2>1, HeaderRead, NetworksForm
  <2> QED
    BY <2>1, <2>2, AppendIn
<1>3. CASE k = "apdu"
  BY <1>0, <1>3, HeadBytes DEF Carries
<1>4. CASE k = "iam"
  <2>1. x \in AppAnnouncements /\ bytes = IAm(x)
    BY <1>4 DEF Carries
  <2>2. PICK v1 \in AppValues, v2 \in AppValues, v3 \in AppValues, v4 \in AppValues :
          IAm(x) = Unconfirmed(ServiceIAm) \o
             (AppData(v1, FALSE) \o (AppData(v2, FALSE) \o (AppData(v3, FALSE) \o AppData(v4, FALSE))))
    BY <2>1, AnnouncementBytes
  <2> DEFINE a == AppData(v1, FALSE)
             b == AppData(v2, FALSE)
             c == AppData(v3, FALSE)
             e == AppData(v4, FALSE)
             h == Unconfirmed(ServiceIAm)
  <2>3. a \in Bytes /\ b \in Bytes /\ c \in Bytes /\ e \in Bytes
    BY ValueBytes
  <2>4. h \in Bytes
    BY <1>0, UnconfirmedBody
  <2>5. IAm(x) = h \o (a \o (b \o (c \o e)))
    BY <2>2
  <2> HIDE DEF a, b, c, e, h
  <2>6. c \o e \in Bytes
    BY <2>3, AppendIn
  <2>7. b \o (c \o e) \in Bytes
    BY <2>3, <2>6, AppendIn
  <2>8. a \o (b \o (c \o e)) \in Bytes
    BY <2>3, <2>7, AppendIn
  <2> QED
    BY <2>1, <2>4, <2>5, <2>8, AppendIn
<1>5. CASE k = "bvlc"
  BY <1>5, FrameBytes DEF Carries
<1>6. CASE k = "readAck"
  <2>1. x \in AppReads /\ ValidProperty(x) /\ bytes = ReadPropertyAck(1, x)
    BY <1>6 DEF Carries
  <2> DEFINE o == IdBytes(x)
             p == PropBytes(x)
             i == IndexBytes(x)
             v == AnswerData(x)
             h == Ack(ServiceReadProperty, 1)
  <2>2. o \in Bytes /\ p \in Bytes /\ i \in Bytes
    BY <2>1, ReadNumbers
  <2>3. h \in Bytes
    BY <1>0, AckHead
  <2>4. v \in Bytes /\ bytes = h \o (o \o (p \o (i \o v)))
    BY <2>1, AnswerBytes
  <2> HIDE DEF o, p, i, v, h
  <2>5. i \o v \in Bytes
    BY <2>2, <2>4, AppendIn
  <2>6. p \o (i \o v) \in Bytes
    BY <2>2, <2>5, AppendIn
  <2>7. o \o (p \o (i \o v)) \in Bytes
    BY <2>2, <2>6, AppendIn
  <2> QED
    BY <2>3, <2>4, <2>7, AppendIn
<1> QED
  BY <1>1, <1>2, <1>3, <1>4, <1>5, <1>6 DEF CutKinds

\* Cutting bytes off leaves the others.
LEMMA Shortened ==
  ASSUME NEW b \in Bytes, NEW n \in Nat, n >= 1, n <= Len(b)
  PROVE  /\ SubSeq(b, 1, Len(b) - n) \in Bytes
         /\ \E tail \in Bytes : tail # <<>> /\ SubSeq(b, 1, Len(b) - n) \o tail = b
<1>1. Len(b) \in Nat /\ Len(b) - n \in 0 .. Len(b)
  BY LenBytes
<1>2. PICK x \in Bytes, y \in Bytes : b = x \o y /\ Len(x) = Len(b) - n
  BY <1>1, SplitAt
<1>3. Len(x) + Len(y) = Len(b) /\ Len(x) \in Nat /\ Len(y) \in Nat
  BY <1>2, JoinAt, LenBytes
<1>4. Len(y) # 0 /\ Len(<<>>) = 0
  BY <1>2, <1>3
<1>5. y # <<>>
  BY <1>4
<1> DEFINE k == Len(x)
<1>6. SubSeq(x \o y, 1, k) = x
  <2> DEFINE z == Decode(Good(x \o y), k)
  <2>1. z = [d |-> Good(y), v |-> x]
    BY ReadFront
  <2>2. z = [d |-> [Good(x \o y) EXCEPT !.buf = Rest(@, k)], v |-> SubSeq(x \o y, 1, k)]
    <3>1. Good(x \o y).err = FALSE /\ Good(x \o y).buf = x \o y
      BY NoError
    <3>2. ~(Len(x \o y) < k)
      BY <1>2, <1>3
    <3> HIDE DEF k
    <3> QED
      BY <3>1, <3>2 DEF Decode
  <2> HIDE DEF z
  <2>3. z.v = x /\ z.v = SubSeq(x \o y, 1, k)
    <3>1. z.v = x
      BY <2>1
    <3>2. z.v = SubSeq(x \o y, 1, k)
      BY <2>2
    <3> QED
      BY <3>1, <3>2
  <2> QED
    BY <2>3
<1> QED
  BY <1>2, <1>5, <1>6

\* Sending an item of which this holds keeps the invariant.
LEMMA SentKnown ==
  ASSUME NEW k, NEW x, NEW bytes, PeerInv, Send(k, x, bytes), Carries(k, x, bytes)
  PROVE  PeerInv'
<1>1. phase' = "wire" /\ Carries(k, x, bytes) /\ kind' = k /\ item' = x /\ wire' = bytes
      /\ cut' = 0
  BY DEF Send, PeerInv, CutKnown
<1>2. WireKnown'
  BY <1>1 DEF WireKnown, Carries
<1>3. ReadKnown' /\ ReplyOnly' /\ CutKnown' /\ WireCut' /\ ReadCut'
  BY <1>1 DEF ReadKnown, ReplyOnly, CutKnown, WireCut, ReadCut
<1> QED
  BY <1>2, <1>3 DEF PeerInv

\* So does decoding to what must be read of an item sent,
LEMMA DecodedKnown ==
  ASSUME NEW k, NEW x, PeerInv, Decoding(k), Return(x), cut = 0 => AsSent(k, item, x),
         cut > 0 => PartOf(k, item, x, wire)
  PROVE  PeerInv'
<1>1. out' = x /\ phase' \in {"decoded", "failed"} /\ kind' = k /\ item' = item /\ cut' = cut
      /\ wire' = wire
  BY DEF Decoding, Return
<1>2. WireKnown' /\ ReplyOnly' /\ CutKnown' /\ WireCut'
  BY <1>1 DEF PeerInv, CutKnown, WireKnown, ReplyOnly, WireCut
<1>3. ReadKnown'
  BY <1>1 DEF ReadKnown, AsSent
<1>4. ReadCut'
  BY <1>1 DEF ReadCut, PartOf
<1> QED
  BY <1>2, <1>3, <1>4 DEF PeerInv

\* and every step with a reply to ReadPropertyMultiple, of which it says nothing.
LEMMA ReplyKnown ==
  ASSUME kind' \in ReplyKinds, PeerInv, cut' = cut, phase' # "idle"
  PROVE  PeerInv'
<1>1. WireKnown' /\ WireCut'
  BY DEF WireKnown, WireCut, Carries, ReplyKinds, CutKinds
<1>2. ReadKnown' /\ ReadCut'
  BY DEF ReadKnown, AsSent, ReadCut, PartOf, ReplyKinds
<1> QED
  BY <1>1, <1>2 DEF PeerInv, ReplyOnly, CutKnown

\* Every encoder writes an item of which the invariant holds.
LEMMA EncodeKnown ==
  ASSUME PeerInv,
         \/ EncodeValue \/ EncodeDate \/ EncodeNPDU \/ EncodeAPDU \/ EncodeRead
         \/ EncodeReadAck \/ EncodeIAm \/ EncodeWhoIs \/ EncodeBVLC \/ EncodeRequest
         \/ EncodeReply \/ DeviceReply
  PROVE  PeerInv'
<1>1. CASE EncodeValue
  <2>1. PICK x \in Values : Send("value", x, AppData(x, FALSE))
    BY <1>1 DEF EncodeValue
  <2>2. Carries("value", x, AppData(x, FALSE))
    BY CodecAssumption DEF Carries
  <2> QED
    BY <2>1, <2>2, SentKnown
<1>2. CASE EncodeDate
  <2>1. PICK x \in Dates : Send("date", x, Date(x))
    BY <1>2 DEF EncodeDate
  <2>2. Carries("date", x, Date(x))
    BY CodecAssumption DEF Carries
  <2> QED
    BY <2>1, <2>2, SentKnown
<1>3. CASE EncodeNPDU
  <2>1. PICK x \in Headers, nets \in NetworkLists :
          /\ nets # <<>> => \/ x.network /\ x.type = IamRouterToNetwork
                            \/ x.network /\ x.type = NetworkIs /\ Len(nets) = 1
          /\ Send("npdu", [npdu |-> x, nets |-> nets], NPDU(x) \o NetworkBytes(nets))
    BY <1>3 DEF EncodeNPDU
  <2>2. Carries("npdu", [npdu |-> x, nets |-> nets], NPDU(x) \o NetworkBytes(nets))
    BY <2>1, CodecAssumption DEF Carries, AnswerFits
  <2> QED
    BY <2>1, <2>2, SentKnown
<1>4. CASE EncodeAPDU
  <2>1. PICK x \in Apdus : Send("apdu", x, APDU(x))
    BY <1>4 DEF EncodeAPDU
  <2>2. Carries("apdu", x, APDU(x))
    BY CodecAssumption DEF Carries
  <2> QED
    BY <2>1, <2>2, SentKnown
<1>5. CASE EncodeRead
  <2>1. PICK x \in Reads : Send("read", x, ReadProperty(1, x))
    BY <1>5 DEF EncodeRead
  <2>2. Carries("read", x, ReadProperty(1, x))
    BY CodecAssumption DEF Carries
  <2> QED
    BY <2>1, <2>2, SentKnown
<1>6. CASE EncodeReadAck
  <2>1. PICK x \in Reads : ValidProperty(x) /\ Send("readAck", x, ReadPropertyAck(1, x))
    BY <1>6 DEF EncodeReadAck
  <2>2. Carries("readAck", x, ReadPropertyAck(1, x))
    BY <2>1, CodecAssumption DEF Carries
  <2> QED
    BY <2>1, <2>2, SentKnown
<1>7. CASE EncodeIAm
  <2>1. PICK x \in Announcements : Send("iam", x, IAm(x))
    BY <1>7 DEF EncodeIAm
  <2>2. Carries("iam", x, IAm(x))
    BY CodecAssumption DEF Carries
  <2> QED
    BY <2>1, <2>2, SentKnown
<1>8. CASE EncodeWhoIs
  <2>1. PICK x \in Searches : Send("whois", x, WhoIs(x[1], x[2]))
    BY <1>8 DEF EncodeWhoIs
  <2>2. Carries("whois", x, WhoIs(x[1], x[2]))
    BY CodecAssumption DEF Carries
  <2> QED
    BY <2>1, <2>2, SentKnown
<1>9. CASE EncodeBVLC
  <2>1. PICK x \in Frames : Send("bvlc", x, BVLC(x))
    BY <1>9 DEF EncodeBVLC
  <2>2. Carries("bvlc", x, BVLC(x))
    BY CodecAssumption DEF Carries
  <2> QED
    BY <2>1, <2>2, SentKnown
<1>10. CASE EncodeRequest
  <2>1. PICK x, bytes : Send("request", x, bytes)
    BY <1>10 DEF EncodeRequest
  <2>2. Carries("request", x, bytes)
    BY DEF Carries
  <2> QED
    BY <2>1, <2>2, SentKnown
<1>11. CASE EncodeReply \/ DeviceReply
  <2>1. kind' \in ReplyKinds /\ cut' = cut /\ phase' # "idle"
    BY <1>11 DEF EncodeReply, DeviceReply, Send, ReplyKinds
  <2> QED
    BY <2>1, ReplyKnown
<1> QED
  BY <1>1, <1>2, <1>3, <1>4, <1>5, <1>6, <1>7, <1>8, <1>9, <1>10, <1>11

\* Every decoder reads what must be read of what is on the wire.
LEMMA DecodeKnown ==
  ASSUME PeerInv,
         \/ DecodeValue \/ DecodeDateOnly \/ DecodeHeader \/ DecodeHead \/ DecodeRead
         \/ DecodeReadAck \/ DecodeAnnouncement \/ DecodeSearch \/ DecodeFrame
         \/ DeviceRequest
  PROVE  PeerInv'
<1>0. ASSUME NEW k, Decoding(k), cut = 0
      PROVE  Carries(k, item, wire)
  BY <1>0 DEF PeerInv, WireKnown, Decoding
<1>c. ASSUME NEW k \in CutKinds, Decoding(k), cut > 0
      PROVE  CutOff(k, item, wire)
  BY <1>c DEF PeerInv, WireCut, Decoding
<1>1. CASE DecodeValue
  <2> DEFINE x == DecodeAppData(NewDecoder(wire))
  <2>1. Decoding("value") /\ Return(x)
    BY <1>1 DEF DecodeValue
  <2>2. cut = 0 => AsSent("value", item, x)
    BY <1>0, <2>1, ValuesOfPeers DEF Carries, AsSent
  <2>3. cut > 0 => PartOf("value", item, x, wire)
    <3> SUFFICES ASSUME cut > 0 PROVE PartOf("value", item, x, wire)
      OBVIOUS
    <3>1. PICK tail \in Bytes : wire \in Bytes /\ tail # <<>> /\ Carries("value", item, wire \o tail)
      BY <1>c, <2>1 DEF CutOff, CutKinds
    <3> QED
      BY <3>1, CutValue, NoError DEF Carries, PartOf
  <2> HIDE DEF x
  <2> QED
    BY <2>1, <2>2, <2>3, DecodedKnown
<1>2. CASE DecodeDateOnly
  <2> DEFINE y == DecodeDate(NewDecoder(wire), 4)
             x == [v |-> y.v, err |-> y.d.err]
  <2>1. Decoding("date") /\ Return(x)
    BY <1>2 DEF DecodeDateOnly
  <2>2. cut = 0 => AsSent("date", item, x)
    BY <1>0, <2>1, DatesOfPeers DEF Carries, AsSent
  <2>3. PartOf("date", item, x, wire)
    BY DEF PartOf
  <2> HIDE DEF x
  <2> QED
    BY <2>1, <2>2, <2>3, DecodedKnown
<1>3. CASE DecodeHeader
  <2> DEFINE x == DecodeNPDU(NewDecoder(wire))
  <2>1. Decoding("npdu") /\ Return(x)
    BY <1>3 DEF DecodeHeader
  <2>2. cut = 0 => AsSent("npdu", item, x)
    BY <1>0, <2>1, HeadersOfPeers DEF Carries, AsSent
  <2>3. cut > 0 => PartOf("npdu", item, x, wire)
    <3> SUFFICES ASSUME cut > 0 PROVE PartOf("npdu", item, x, wire)
      OBVIOUS
    <3>1. PICK tail \in Bytes : wire \in Bytes /\ tail # <<>> /\ Carries("npdu", item, wire \o tail)
      BY <1>c, <2>1 DEF CutOff, CutKinds
    <3> QED
      BY <3>1, CutHeaders DEF Carries, PartOf
  <2> HIDE DEF x
  <2> QED
    BY <2>1, <2>2, <2>3, DecodedKnown
<1>4. CASE DecodeHead
  <2> DEFINE x == DecodeAPDU(NewDecoder(wire))
  <2>1. Decoding("apdu") /\ Return(x)
    BY <1>4 DEF DecodeHead
  <2>2. cut = 0 => AsSent("apdu", item, x)
    BY <1>0, <2>1, HeadsOfPeers DEF Carries, AsSent
  <2>3. cut > 0 => PartOf("apdu", item, x, wire)
    <3> SUFFICES ASSUME cut > 0 PROVE PartOf("apdu", item, x, wire)
      OBVIOUS
    <3>1. PICK tail \in Bytes : wire \in Bytes /\ tail # <<>> /\ Carries("apdu", item, wire \o tail)
      BY <1>c, <2>1 DEF CutOff, CutKinds
    <3> QED
      BY <3>1, CutRequestHead DEF Carries, PartOf
  <2> HIDE DEF x
  <2> QED
    BY <2>1, <2>2, <2>3, DecodedKnown
<1>5. CASE DecodeRead
  <2> DEFINE x == DecodeReadProperty(Body(ServiceReadProperty))
  <2>1. Decoding("read") /\ Return(x)
    BY <1>5 DEF DecodeRead
  <2>2. cut = 0 => AsSent("read", item, x)
    BY <1>0, <2>1, ReadsOfPeers DEF Carries, AsSent, Body
  <2>3. PartOf("read", item, x, wire)
    BY DEF PartOf
  <2> HIDE DEF x
  <2> QED
    BY <2>1, <2>2, <2>3, DecodedKnown
<1>6. CASE DecodeReadAck
  <2> DEFINE x == DecodeReadProperty(Body(ServiceReadProperty))
  <2>1. Decoding("readAck") /\ Return(x)
    BY <1>6 DEF DecodeReadAck
  <2>2. cut = 0 => AsSent("readAck", item, x)
    BY <1>0, <2>1, AnswersOfPeers DEF Carries, AsSent, Body
  <2>3. cut > 0 => PartOf("readAck", item, x, wire)
    <3> SUFFICES ASSUME cut > 0 PROVE PartOf("readAck", item, x, wire)
      OBVIOUS
    <3>1. PICK tail \in Bytes : wire \in Bytes /\ tail # <<>> /\ Carries("readAck", item, wire \o tail)
      BY <1>c, <2>1 DEF CutOff, CutKinds
    <3> QED
      BY <3>1, CutAnswer DEF Carries, PartOf, Body
  <2> HIDE DEF x
  <2> QED
    BY <2>1, <2>2, <2>3, DecodedKnown
<1>7. CASE DecodeAnnouncement
  <2> DEFINE x == DecodeIAm(Body(ServiceIAm))
  <2>1. Decoding("iam") /\ Return(x)
    BY <1>7 DEF DecodeAnnouncement
  <2>2. cut = 0 => AsSent("iam", item, x)
    BY <1>0, <2>1, AnnouncementsOfPeers DEF Carries, AsSent, Body
  <2>3. cut > 0 => PartOf("iam", item, x, wire)
    <3> SUFFICES ASSUME cut > 0 PROVE PartOf("iam", item, x, wire)
      OBVIOUS
    <3>1. PICK tail \in Bytes : wire \in Bytes /\ tail # <<>> /\ Carries("iam", item, wire \o tail)
      BY <1>c, <2>1 DEF CutOff, CutKinds
    <3> QED
      BY <3>1, CutAnnouncement DEF Carries, PartOf, Body
  <2> HIDE DEF x
  <2> QED
    BY <2>1, <2>2, <2>3, DecodedKnown
<1>8. CASE DecodeSearch
  <2> DEFINE x == DecodeWhoIs(Body(ServiceWhoIs))
  <2>1. Decoding("whois") /\ Return(x)
    BY <1>8 DEF DecodeSearch
  <2>2. cut = 0 => AsSent("whois", item, x)
    BY <1>0, <2>1, RangesOfPeers DEF Carries, AsSent, Body
  <2>3. PartOf("whois", item, x, wire)
    BY DEF PartOf
  <2> HIDE DEF x
  <2> QED
    BY <2>1, <2>2, <2>3, DecodedKnown
<1>9. CASE DecodeFrame
  <2> DEFINE x == DecodeBVLC(NewDecoder(wire))
  <2>1. Decoding("bvlc") /\ Return(x)
    BY <1>9 DEF DecodeFrame
  <2>2. cut = 0 => AsSent("bvlc", item, x)
    BY <1>0, <2>1, FramesOfPeers DEF Carries, AsSent
  <2>3. cut > 0 => PartOf("bvlc", item, x, wire)
    <3> SUFFICES ASSUME cut > 0 PROVE PartOf("bvlc", item, x, wire)
      OBVIOUS
    <3>1. PICK tail \in Bytes : wire \in Bytes /\ tail # <<>> /\ Carries("bvlc", item, wire \o tail)
      BY <1>c, <2>1 DEF CutOff, CutKinds
    <3> QED
      BY <3>1, CutFrame DEF Carries, PartOf
  <2> HIDE DEF x
  <2> QED
    BY <2>1, <2>2, <2>3, DecodedKnown
<1>10. CASE DeviceRequest
  <2>1. PICK x : Decoding("request") /\ Return(x)
    BY <1>10 DEF DeviceRequest
  <2>2. AsSent("request", item, x) /\ PartOf("request", item, x, wire)
    BY DEF AsSent, PartOf
  <2> QED
    BY <2>1, <2>2, DecodedKnown
<1> QED
  BY <1>1, <1>2, <1>3, <1>4, <1>5, <1>6, <1>7, <1>8, <1>9, <1>10

\* The decoder of replies and what the client does with a reply.
LEMMA ReadingKnown ==
  ASSUME PeerInv, OpenReply \/ ReadReply \/ MatchReadMultiple
  PROVE  PeerInv'
<1>1. CASE OpenReply
  <2>1. kind' \in ReplyKinds /\ cut' = cut /\ phase' # "idle"
    BY <1>1 DEF OpenReply, Return
  <2> QED
    BY <2>1, ReplyKnown
<1>2. CASE ReadReply
  <2>1. phase = "reading" /\ kind' = kind /\ cut' = cut /\ phase' # "idle"
    BY <1>2 DEF ReadReply, ReadObject, EndObject, ReadPropertyTag, ReadValue, ReadTimeStamp,
                Round
  <2> QED
    BY <2>1, ReplyKnown DEF PeerInv, ReplyOnly
<1>3. CASE MatchReadMultiple
  <2>1. kind' \in ReplyKinds /\ cut' = cut /\ phase' # "idle"
    BY <1>3 DEF MatchReadMultiple
  <2> QED
    BY <2>1, ReplyKnown
<1> QED
  BY <1>1, <1>2, <1>3

\* What is on the wire, unless it was cut short, is the encoding of the item sent,
\* and what was decoded is what must be read of it.
THEOREM PeersUnderstood == Spec => []PeerInv
<1>1. Init => PeerInv
  BY DEF Init, PeerInv, WireKnown, ReadKnown, ReplyOnly, CutKnown, WireCut, ReadCut
<1>2. PeerInv /\ [Next]_vars => PeerInv'
  <2> SUFFICES ASSUME PeerInv, [Next]_vars
               PROVE  PeerInv'
    OBVIOUS
  <2>1. CASE CutShort
    <3>1. PICK n \in 1 .. MaxCut : /\ n <= Len(wire) /\ cut' = n
                                   /\ wire' = SubSeq(wire, 1, Len(wire) - n)
      BY <2>1 DEF CutShort
    <3>2. /\ phase = "wire" /\ phase' = "wire" /\ cut = 0 /\ kind' = kind /\ item' = item
          /\ MaxCut \in Nat
      BY <2>1, CodecAssumption DEF CutShort
    <3>3. n \in Nat /\ n >= 1 /\ cut' \in Nat /\ cut' > 0
      BY <3>1, <3>2
    <3>4. ASSUME kind \in CutKinds
          PROVE  CutOff(kind, item, wire')
      <4>1. Carries(kind, item, wire)
        BY <3>2 DEF PeerInv, WireKnown
      <4>2. wire \in Bytes
        BY <3>4, <4>1, CarriedBytes
      <4>3. PICK tail \in Bytes : tail # <<>> /\ wire' \in Bytes /\ wire' \o tail = wire
        BY <3>1, <3>3, <4>2, Shortened
      <4> QED
        BY <4>1, <4>3 DEF CutOff
    <3>5. WireCut'
      BY <3>2, <3>4 DEF WireCut
    <3> QED
      BY <3>2, <3>3, <3>5 DEF PeerInv, WireKnown, ReadKnown, ReplyOnly, CutKnown, ReadCut
  <2>2. CASE Done
    BY <2>2 DEF Done, PeerInv, WireKnown, ReadKnown, ReplyOnly, CutKnown, WireCut, ReadCut
  <2>3. CASE UNCHANGED vars
    <3>1. /\ phase' = phase /\ kind' = kind /\ item' = item /\ wire' = wire /\ cut' = cut
          /\ out' = out
      BY <2>3 DEF vars
    <3>2. WireKnown' /\ WireCut'
      BY <3>1 DEF PeerInv, WireKnown, WireCut
    <3>3. ReadKnown' /\ ReadCut'
      BY <3>1 DEF PeerInv, ReadKnown, ReadCut
    <3> QED
      BY <3>1, <3>2, <3>3 DEF PeerInv, ReplyOnly, CutKnown
  <2> QED
    BY <2>1, <2>2, <2>3, EncodeKnown, DecodeKnown, ReadingKnown DEF Next
<1> QED
  BY <1>1, <1>2, PTL DEF Spec

\* Values and dates are read back as they were sent (ValuesReadBack), for every
\* value that AppData encodes and every date of the years that an octet tells.
THEOREM ValuesUnderstood == Spec => []ValuesReadBack
<1>1. PeerInv => ValuesReadBack
  BY DEF PeerInv, ReadKnown, AsSent, ValuesReadBack, Decoded
<1> QED
  BY <1>1, PeersUnderstood, PTL

\* The headers of the three layers are read back (HeadersReadBack), for addresses
\* of any length, lists of any number of networks and every head of a request.
THEOREM HeadersUnderstood == Spec => []HeadersReadBack
<1>1. PeerInv => HeadersReadBack
  BY DEF PeerInv, ReadKnown, AsSent, HeadersReadBack, Decoded
<1> QED
  BY <1>1, PeersUnderstood, PTL

\* The requests and announcements that a peer answers are read back
\* (MessagesReadBack): ReadProperty of any property, Who-Is of any range, I-Am of
\* any device.
THEOREM MessagesUnderstood == Spec => []MessagesReadBack
<1>1. PeerInv => MessagesReadBack
  BY DEF PeerInv, ReadKnown, AsSent, MessagesReadBack, Decoded
<1> QED
  BY <1>1, PeersUnderstood, PTL

\* What is encoded and not cut short is decoded as it was encoded, each kind of
\* item in its way (PacketsReadBack).
THEOREM PacketsUnderstood == Spec => []PacketsReadBack
<1>1. ValuesReadBack /\ HeadersReadBack /\ MessagesReadBack => PacketsReadBack
  BY DEF PacketsReadBack
<1> QED
  BY <1>1, ValuesUnderstood, HeadersUnderstood, MessagesUnderstood, PTL

\* A packet cut short is refused, or read as a part of what was sent, for every
\* item and wherever the packet is cut (CutPacketsTruthful).
THEOREM CutsNoticed == Spec => []CutPacketsTruthful
<1>1. PeerInv => CutPacketsTruthful
  <2> SUFFICES ASSUME PeerInv, cut > 0
               PROVE  CutPacketsTruthful
    BY DEF CutPacketsTruthful
  <2>1. ASSUME NEW k, Decoded(k)
        PROVE  PartOf(k, item, out, wire)
    BY <2>1 DEF PeerInv, ReadCut, Decoded
  <2>2. Decoded("readAck") => out.err \/
            (/\ out.type = item.type /\ out.instance = item.instance
             /\ IsPrefix(out.list, <<Received(item.data)>>))
    <3> SUFFICES ASSUME Decoded("readAck"), ~out.err
                 PROVE  /\ out.type = item.type /\ out.instance = item.instance
                        /\ IsPrefix(out.list, <<Received(item.data)>>)
      OBVIOUS
    <3>1. /\ out.type = item.type /\ out.instance = item.instance
          /\ out.list = <<>> \/ out.list = <<Received(item.data)>>
      BY <2>1 DEF PartOf, AnswerPart
    <3>2. \A v : IsPrefix(<<>>, <<v>>) /\ IsPrefix(<<v>>, <<v>>)
      BY DEF IsPrefix
    <3> QED
      BY <3>1, <3>2
  <2>3. Decoded("value") => out.err \/ (out.d.err /\ out.x.v = <<>>)
    BY <2>1 DEF PartOf
  <2>4. Decoded("npdu") =>
            \/ out.err \/ item.npdu.type = 128
            \/ Len(item.nets) > 2 /\ out.nets = NetworksRead(item.nets)
    BY <2>1 DEF PartOf
  <2>5. (Decoded("apdu") \/ Decoded("iam") => out.err)
        /\ (Decoded("bvlc") => out.err \/ Len(wire) >= 4)
    BY <2>1 DEF PartOf
  <2> QED
    BY <2>2, <2>3, <2>4, <2>5 DEF CutPacketsTruthful
<1> QED
  BY <1>1, PeersUnderstood, PTL
=============================================================================
